-------------------------- MODULE PreloaderProofs ---------------------------
(***************************************************************************)
(* Safety of both halves of writePreloader, whose first half flash shares:  *)
(* the guarded and exclusive open of a node, for any number of disks,       *)
(* names, partitions and retries (TargetOpen), and the copy to the open     *)
(* partition, for every partition, file, chunk size and set of faults       *)
(* (PreloaderWrite).                                                        *)
(***************************************************************************)
EXTENDS TargetOpen, PreloaderWrite, TLAPS

-----------------------------------------------------------------------------
(* The copy: a preloader reported as written is on the media as far as it   *)
(* was copied, and one which does not fit leaves the partition alone.       *)

Untouched == \A b \in Block : media[b] = "old" /\ vol[b] = "clean"

(* Before the size is compared nothing has been written, and a file that is *)
(* too long gets no further.                                                *)
IHarmless ==
  /\ stage \in {"stat", "guard", "capacity"} => Untouched /\ written = 0
  /\ stage = "stat" => size = 0
  /\ size > Capacity => Untouched /\ stage \in {"guard", "capacity", "done"} /\ result # "ok"

IResult == result # "none" <=> stage = "done"

(* During the copy each block handed over is pending, or has been programmed *)
(* by whatever the card makes of it.                                        *)
ICopy ==
  stage \in {"poll", "read", "sync"} =>
    \A b \in Block : b < written =>
      \/ vol[b] = "img"
      \/ vol[b] = "clean" /\ (Reliable => media[b] = "img")

Copied == \A b \in Block : b < written => media[b] = "img"

(* The sync has waited for all of them, and the hash tells what was read.   *)
ISynced ==
  stage \in {"verifyPoll", "verifyRead"} =>
    /\ Clean /\ verify
    /\ Reliable => Copied
    /\ same => \A b \in Block : b < checked => media[b] = "img"

IFresh == stage \in {"stat", "guard", "capacity", "poll", "read", "sync"} => checked = 0

IOk == result = "ok" => Clean /\ (verify \/ Reliable => Copied)

CopyInv == CopyTypeOK /\ IHarmless /\ IResult /\ ICopy /\ ISynced /\ IFresh /\ IOk

-----------------------------------------------------------------------------
(* Every variable keeps to its range; no more is written than the device    *)
(* holds and no more is checked than was written.                           *)
LEMMA CopyTypeInit == CopyInit => CopyTypeOK
<1> SUFFICES ASSUME CopyInit PROVE CopyTypeOK
  OBVIOUS
<1>1. MediaTypeOK
  BY DEF CopyInit, MediaInit, MediaTypeOK, Content, Store
<1>2. stage \in Steps /\ result \in Results
  BY DEF CopyInit, Steps, Results
<1>3. size \in 0 .. MaxFile /\ written \in 0 .. Capacity /\ checked \in 0 .. written
  BY PreloaderAssumption, MediaAssumption DEF CopyInit
<1>4. QED
  BY <1>1, <1>2, <1>3, Zenon DEF CopyInit, CopyTypeOK

LEMMA CopyTypeNext == CopyTypeOK /\ [CopyNext]_copyVars => CopyTypeOK'
<1> SUFFICES ASSUME CopyTypeOK, [CopyNext]_copyVars PROVE CopyTypeOK'
  OBVIOUS
<1> USE PreloaderAssumption, MediaAssumption
    DEF CopyTypeOK, MediaTypeOK, Steps, Results, Content, Store, Goto, Return
<1>1. ASSUME WritePreloader PROVE CopyTypeOK'
  <2>1. CASE StatSource \/ Prepare \/ CheckSize \/ Poll \/ ReadNothing \/ Sync
    BY <1>1, <2>1 DEF WritePreloader, StatSource, Prepare, CheckSize, Poll, ReadNothing, Sync
  <2>2. CASE CopyChunk
    BY <1>1, <2>2 DEF WritePreloader, CopyChunk, Write, WritePart, Smaller
  <2>3. CASE VerifyPoll
    BY <1>1, <2>3 DEF WritePreloader, VerifyPoll
  <2>4. CASE VerifyRead
    <3>1. same' \in BOOLEAN
      BY <2>4, Zenon DEF VerifyRead
    <3>2. checked' \in 0 .. written
      BY <2>4 DEF VerifyRead, Smaller
    <3>3. QED
      BY <1>1, <2>4, <3>1, <3>2 DEF WritePreloader, VerifyRead
  <2>5. QED
    BY <1>1, <2>1, <2>2, <2>3, <2>4 DEF WritePreloader
<1>2. CASE Program
  BY <1>2 DEF Program, Destage, Programmed, progVars
<1>3. CASE Cancel \/ FileChanges
  BY <1>3 DEF Cancel, FileChanges, progVars
<1>4. CASE PowerCut
  BY <1>4 DEF PowerCut, LosePending
<1>5. CASE UNCHANGED copyVars
  BY <1>5 DEF copyVars, progVars
<1>6. QED
  BY <1>1, <1>2, <1>3, <1>4, <1>5 DEF CopyNext

(* Every variable of the copy keeps its type.                               *)
THEOREM CopyTypeCorrect == CopySpec => []CopyTypeOK
BY CopyTypeInit, CopyTypeNext, PTL DEF CopySpec

-----------------------------------------------------------------------------
LEMMA CopyInvInit == CopyInit => CopyInv
<1> SUFFICES ASSUME CopyInit PROVE CopyInv
  OBVIOUS
<1>1. CopyTypeOK
  BY CopyTypeInit
<1>2. QED
  BY <1>1, MediaAssumption DEF CopyInit, MediaInit, CopyInv, IHarmless, IResult, ICopy, ISynced, IFresh, IOk, Untouched

(* The steps that write nothing and read nothing back.                      *)
LEMMA QuietStep ==
  ASSUME CopyInv, CopyTypeOK', UNCHANGED <<verify, file, cancelled>>,
         StatSource \/ Prepare \/ CheckSize \/ Poll \/ ReadNothing
  PROVE  CopyInv'
<1> USE DEF StatSource, Prepare, CheckSize, Poll, ReadNothing, Goto, Return, CopyInv
<1>1. IHarmless'
  <2>1. CASE StatSource
    BY <2>1 DEF IHarmless, IResult, Untouched
  <2>2. CASE Prepare \/ CheckSize
    BY <2>2, MediaAssumption DEF IHarmless, Untouched, CopyTypeOK
  <2>3. CASE Poll \/ ReadNothing
    BY <2>3 DEF IHarmless, Untouched
  <2>4. QED
    BY <2>1, <2>2, <2>3
<1>2. IResult' /\ ICopy' /\ IFresh'
  BY MediaAssumption DEF IResult, ICopy, IFresh, IHarmless, Untouched, CopyTypeOK, Block
<1>3. ISynced' /\ IOk'
  BY DEF ISynced, IOk, IResult
<1>4. QED
  BY <1>1, <1>2, <1>3

LEMMA CopyStep ==
  ASSUME CopyInv, CopyTypeOK', UNCHANGED <<verify, file, cancelled>>, CopyChunk
  PROVE  CopyInv'
<1> USE DEF CopyChunk, Goto, Return, CopyInv
<1>1. ICopy'
  <2> SUFFICES ASSUME stage' = "poll", NEW b \in Block, b < written'
               PROVE  vol'[b] = "img" \/ (vol'[b] = "clean" /\ (Reliable => media'[b] = "img"))
    BY DEF ICopy
  <2>1. PICK n \in 1 .. Smaller(Chunk, file - written) :
          written' = written + n /\ Write({a \in Block : written <= a /\ a < written + n}, "img")
    BY DEF Write
  <2>2. CASE b < written
    BY <2>1, <2>2 DEF ICopy, Write
  <2>3. CASE ~(b < written)
    BY <2>1, <2>3, PreloaderAssumption, MediaAssumption DEF Write, CopyTypeOK, Smaller, Block
  <2>4. QED
    BY <2>2, <2>3
<1>2. IHarmless'
  BY DEF IHarmless
<1>3. IResult' /\ IFresh' /\ ISynced' /\ IOk'
  BY DEF IResult, IFresh, ISynced, IOk
<1>4. QED
  BY <1>1, <1>2, <1>3

LEMMA SyncStep ==
  ASSUME CopyInv, CopyTypeOK', UNCHANGED <<verify, file, cancelled>>, Sync
  PROVE  CopyInv'
<1> USE DEF Sync, Goto, Return, CopyInv
<1>1. Clean => (Reliable => Copied)
  BY DEF Clean, ICopy, Copied
<1>2. ISynced' /\ IOk'
  BY <1>1, MediaAssumption DEF ISynced, IOk, IFresh, IResult, Clean, Copied, Reliable, CopyTypeOK, Block
<1>3. IHarmless' /\ IResult' /\ ICopy' /\ IFresh'
  BY DEF IHarmless, IResult, ICopy, IFresh
<1>4. QED
  BY <1>2, <1>3

LEMMA VerifyStep ==
  ASSUME CopyInv, CopyTypeOK', UNCHANGED <<verify, file, cancelled>>, VerifyPoll \/ VerifyRead
  PROVE  CopyInv'
<1> USE DEF Goto, Return, CopyInv
<1>1. CASE VerifyPoll
  <2>1. checked >= written /\ same /\ stage = "verifyPoll" => Copied
    BY DEF ISynced, Copied, CopyTypeOK, Block
  <2>2. IOk'
    BY <1>1, <2>1 DEF VerifyPoll, IOk, IResult, ISynced, Clean, Copied, CopyTypeOK
  <2>3. QED
    BY <1>1, <2>2 DEF VerifyPoll, IHarmless, IResult, ICopy, ISynced, IFresh, Clean, Copied, Reliable
<1>2. CASE VerifyRead
  <2>1. ASSUME stage' = "verifyPoll", same', NEW b \in Block, b < checked'
        PROVE  media'[b] = "img"
    <3>1. same /\ (checked <= b => Seen(b) = "img")
      BY <1>2, <2>1, Zenon DEF VerifyRead
    <3>2. vol[b] = "clean"
      BY <1>2 DEF VerifyRead, ISynced, Clean
    <3>3. QED
      BY <1>2, <3>1, <3>2 DEF VerifyRead, ISynced, Seen, CopyTypeOK, Block
  <2>2. ISynced'
    BY <1>2, <2>1 DEF VerifyRead, ISynced, Clean, Copied, Reliable
  <2>3. QED
    BY <1>2, <2>2 DEF VerifyRead, IHarmless, IResult, ICopy, IFresh, IOk
<1>3. QED
  BY <1>1, <1>2

(* A block that is programmed keeps the promise of its state: nothing is    *)
(* pending once the sync has returned, and a sound card stores what it got. *)
LEMMA ProgramStep ==
  ASSUME CopyInv, CopyTypeOK', Program
  PROVE  CopyInv'
<1> USE DEF CopyInv, Program, progVars
<1>1. PICK b \in Block : Destage(b)
  OBVIOUS
<1>2. ~Clean /\ ~Untouched
  BY <1>1 DEF Destage, Clean, Untouched
<1>3. Reliable => media' = [media EXCEPT ![b] = vol[b]]
  BY <1>1 DEF Reliable, Destage, Programmed
<1>4. ICopy'
  BY <1>1, <1>3 DEF ICopy, Destage, CopyTypeOK, MediaTypeOK, Reliable
<1>5. QED
  BY <1>2, <1>4 DEF IHarmless, IResult, ISynced, IFresh, IOk

LEMMA CopyInvNext == CopyInv /\ [CopyNext]_copyVars => CopyInv'
<1> SUFFICES ASSUME CopyInv, [CopyNext]_copyVars PROVE CopyInv'
  OBVIOUS
<1>0. CopyTypeOK'
  BY CopyTypeNext DEF CopyInv
<1>1. CASE WritePreloader
  BY <1>0, <1>1, QuietStep, CopyStep, SyncStep, VerifyStep DEF WritePreloader
<1>2. CASE Program
  BY <1>0, <1>2, ProgramStep
<1>3. CASE Cancel \/ FileChanges \/ UNCHANGED copyVars
  BY <1>0, <1>3 DEF Cancel, FileChanges, copyVars, progVars, CopyInv, IHarmless, IResult, ICopy, ISynced,
     IFresh, IOk, Untouched, Clean, Copied, Reliable
<1>4. CASE PowerCut
  BY <1>0, <1>4 DEF PowerCut, LosePending, Return, CopyInv, IHarmless, IResult, ICopy, ISynced, IFresh,
     IOk, Untouched, CopyTypeOK
<1>5. QED
  BY <1>1, <1>2, <1>3, <1>4 DEF CopyNext

(* The inductive invariant holds of every behaviour.                        *)
THEOREM CopyInvariant == CopySpec => []CopyInv
BY CopyInvInit, CopyInvNext, PTL DEF CopySpec

(* A preloader reported as written is on the media as far as it was copied, *)
(* on every sound card, and on a faulty one if it was read back.            *)
THEOREM CopyIsDurable == CopySpec => []CopiedIsOnMedia
<1>1. CopyInv => CopiedIsOnMedia
  BY DEF CopyInv, IOk, CopiedIsOnMedia, Copied
<1>2. QED
  BY CopyInvariant, <1>1, PTL

(* A file longer than the partition is refused with the partition untouched.*)
THEOREM OversizeRefused == CopySpec => []OversizeIsHarmless
<1>1. CopyInv => OversizeIsHarmless
  BY DEF CopyInv, IHarmless, OversizeIsHarmless, Untouched
<1>2. QED
  BY CopyInvariant, <1>1, PTL

-----------------------------------------------------------------------------
(* The open.  The guard's verdict is about a name; it stays true of         *)
(* whatever the name stands for later because only cards come and go: that  *)
(* is the part Cleared of the inductive invariant.                          *)

USE TargetAssumption

(* The OS always has its root mounted, so its disk is always recognised.    *)
RootMounted == \E p \in Part : mount[SysDisk][p] = "root"

Harmless(d) == /\ d = SysDisk => Escape
               /\ ~req.force => d \in Card \cup {NoDisk}

(* What the guard has established of the node, for as long as it is used.   *)
Cleared == pc \in {"unmount", "open"} => Harmless(at[req.name])

HoldsCleared == opened # NoDisk => Harmless(opened)

Session == opened # NoDisk => pc = "opened"

(* An open is tried only while attempts are left.                           *)
Trying == pc = "open" => attempt < MaxTries

IInv == /\ TypeOK /\ RootMounted /\ Cleared /\ HoldsCleared /\ Session /\ Trying
        /\ OpenIsExclusive

LEMMA IInit == Init => IInv
<1> SUFFICES ASSUME Init PROVE IInv
  OBVIOUS
<1>1. TypeOK
  BY DEF Init, TypeOK, Use
<1>2. RootMounted
  BY DEF Init, RootMounted
<1> QED
  BY <1>1, <1>2 DEF Init, IInv, Cleared, HoldsCleared, Session, Trying, OpenIsExclusive

(* What a release leaves mounted.                                           *)
LEMMA ReleaseKeeps ==
  ASSUME TypeOK, Release
  PROVE  /\ mount' \in [Disk -> [Part -> Use]]
         /\ \A d \in Disk : d # Node => mount'[d] = mount[d]
         /\ \A d \in Disk, p \in Part : mount[d][p] = "root" => mount'[d][p] = "root"
<1>1. CASE UNCHANGED mount
  BY <1>1 DEF TypeOK
<1>2. CASE Node \in Disk /\ mount' = Released(Node)
  <2>1. mount[Node] \in [Part -> Use]
    BY <1>2 DEF TypeOK
  <2> QED
    BY <1>2, <2>1 DEF TypeOK, Released, Use
<1> QED
  BY <1>1, <1>2 DEF Release

(* An allowed node is harmless: tier 1 by the root mount, tier 2 by the     *)
(* removable flag; an unlisted node passes only when forced, and the disk   *)
(* of the OS is listed.                                                     *)
LEMMA AllowedIsHarmless ==
  ASSUME TypeOK, RootMounted, Allowed
  PROVE  Harmless(at[req.name])
<1>0. req.name \in Name /\ req.force \in BOOLEAN /\ req.kind \in {"drive", "partition"}
  BY DEF TypeOK, Request
<1>1. CASE ~Owned
  <2>1. req.force
    BY <1>1 DEF Allowed
  <2>2. ASSUME at[req.name] = SysDisk PROVE Escape
    <3>1. req.name \in Listed
      BY <1>0, <2>2 DEF Listed
    <3> QED
      BY <1>0, <1>1, <2>1, <3>1 DEF Owned, Escape
  <2> QED
    BY <2>1, <2>2 DEF Harmless
<1>2. CASE Owned
  <2>1. ~IsSystem(Node) /\ (req.force \/ IsRemovable(Node))
    BY <1>2 DEF Allowed
  <2>2. Node # SysDisk
    BY <2>1 DEF IsSystem, Critical, RootMounted
  <2> QED
    BY <2>1, <2>2 DEF Harmless, Node, IsRemovable
<1> QED
  BY <1>1, <1>2

(* The steps that look at the node, one invariant part at a time.           *)
LEMMA RunKeeps == IInv /\ Run => IInv'
<1> SUFFICES ASSUME IInv, Run PROVE IInv'
  OBVIOUS
<1> USE DEF IInv
<1>1. CASE Guard
  <2>1. TypeOK' /\ RootMounted'
    BY <1>1 DEF Guard, TypeOK, RootMounted
  <2>2. Cleared'
    BY <1>1, AllowedIsHarmless DEF Guard, Cleared, Harmless, Escape
  <2>3. opened = NoDisk
    BY <1>1 DEF Guard, Session
  <2> QED
    BY <1>1, <2>1, <2>2, <2>3
    DEF Guard, HoldsCleared, Session, Trying, OpenIsExclusive
<1>2. CASE UnmountAll
  <2>1. TypeOK' /\ RootMounted' /\ Trying'
    BY <1>2, ReleaseKeeps DEF UnmountAll, TypeOK, RootMounted, Trying
  <2>2. opened = NoDisk
    BY <1>2 DEF UnmountAll, Session
  <2> QED
    BY <1>2, <2>1, <2>2
    DEF UnmountAll, Cleared, Harmless, Escape, HoldsCleared, Session, OpenIsExclusive
<1>3. CASE OpenFallback
  BY <1>3 DEF OpenFallback, TypeOK, RootMounted, Cleared, Harmless, Escape,
              HoldsCleared, Session, Trying, OpenIsExclusive, Parts
<1>4. CASE OpenClaim
  <2>1. Node \in Disk /\ Harmless(Node) /\ \A p \in Parts : mount[Node][p] = "none"
    BY <1>4 DEF OpenClaim, Claimable, Cleared, Node
  <2>2. opened = NoDisk
    BY <1>4 DEF OpenClaim, Session
  <2>3. CASE Node \in PlainFile
    BY <1>4, <2>2, <2>3 DEF OpenClaim, TypeOK, RootMounted, Cleared,
                            HoldsCleared, Session, Trying, OpenIsExclusive
  <2>4. CASE Node \notin PlainFile
    <3>1. pc' = "opened" /\ opened' = Node /\ UNCHANGED <<at, mount, req, direct, attempt>>
      BY <1>4, <2>4 DEF OpenClaim
    <3> QED
      BY <2>1, <3>1 DEF TypeOK, RootMounted, Cleared, HoldsCleared, Harmless,
                        Escape, Session, Trying, OpenIsExclusive, Parts
  <2> QED
    BY <2>3, <2>4
<1>5. CASE OpenBusy
  <2>1. opened = NoDisk
    BY <1>5 DEF OpenBusy, Session
  <2>2. RootMounted' /\ mount' \in [Disk -> [Part -> Use]]
    BY <1>5, ReleaseKeeps DEF OpenBusy, RootMounted
  <2>3. attempt' \in 0 .. MaxTries /\ Trying'
    BY <1>5 DEF OpenBusy, TypeOK, Trying
  <2> QED
    BY <1>5, <2>1, <2>2, <2>3 DEF OpenBusy, TypeOK, Cleared, Harmless, Escape,
                                  HoldsCleared, Session, OpenIsExclusive
<1>6. CASE OpenError
  BY <1>6 DEF OpenError, TypeOK, RootMounted, Cleared, HoldsCleared, Session,
              Trying, OpenIsExclusive, Parts, Harmless, Escape
<1>7. CASE Close
  BY <1>7 DEF Close, TypeOK, RootMounted, Cleared, HoldsCleared, Session,
              Trying, OpenIsExclusive
<1> QED
  BY <1>1, <1>2, <1>3, <1>4, <1>5, <1>6, <1>7 DEF Run

(* The environment: mounts end where no session is, names lose or gain      *)
(* cards, and a new request waits until the last session is closed.         *)
LEMMA WorldKeeps == IInv /\ (Ask \/ Reuse \/ Pull \/ Plug) => IInv'
<1> SUFFICES ASSUME IInv, Ask \/ Reuse \/ Pull \/ Plug PROVE IInv'
  OBVIOUS
<1> USE DEF IInv
<1>1. CASE Ask
  BY <1>1 DEF Ask, TypeOK, RootMounted, Cleared, HoldsCleared, Session, Trying,
              OpenIsExclusive
<1>2. CASE Reuse
  <2>1. PICK n \in Name, p \in Part :
          /\ at[n] \in Disk \ ({SysDisk} \cup PlainFile)
          /\ ~Claimed(at[n], p)
          /\ \E use \in {"none", "data", "busy", "stack"} \ {mount[at[n]][p]} :
               mount' = [mount EXCEPT ![at[n]][p] = use]
    BY <1>2 DEF Reuse
  <2>2. TypeOK' /\ RootMounted'
    BY <1>2, <2>1 DEF Reuse, TypeOK, RootMounted, Use
  <2>3. OpenIsExclusive'
    BY <1>2, <2>1 DEF Reuse, TypeOK, OpenIsExclusive, Claimed, Parts
  <2> QED
    BY <1>2, <2>2, <2>3 DEF Reuse, Cleared, HoldsCleared, Harmless, Escape, Session, Trying
<1>3. CASE Pull
  <2>1. PICK n \in Name :
          /\ at[n] \in Card
          /\ at' = [at EXCEPT ![n] = NoDisk]
          /\ mount' = [mount EXCEPT ![at[n]] = [p \in Part |-> "none"]]
    BY <1>3 DEF Pull
  <2>2. TypeOK'
    BY <1>3, <2>1 DEF Pull, TypeOK, Use
  <2>3. RootMounted'
    BY <2>1 DEF TypeOK, RootMounted
  <2>4. OpenIsExclusive'
    <3> SUFFICES ASSUME opened # NoDisk, NEW p \in Parts
                 PROVE  mount'[opened][p] = "none"
      BY <1>3 DEF Pull, OpenIsExclusive, Parts
    <3>1. p \in Part /\ opened \in Disk
      BY DEF Parts, TypeOK, Request
    <3>2. mount[opened][p] = "none"
      BY DEF OpenIsExclusive
    <3> QED
      BY <2>1, <3>1, <3>2 DEF TypeOK
  <2>5. Cleared'
    BY <1>3, <2>1 DEF Pull, TypeOK, Cleared, Harmless, Escape
  <2> QED
    BY <1>3, <2>2, <2>3, <2>4, <2>5 DEF Pull, HoldsCleared, Harmless, Escape, Session, Trying
<1>4. CASE Plug
  <2>1. PICK n \in Name, d \in Card :
          at[n] = NoDisk /\ at' = [at EXCEPT ![n] = d]
    BY <1>4 DEF Plug
  <2>2. TypeOK' /\ RootMounted' /\ OpenIsExclusive'
    BY <1>4, <2>1 DEF Plug, TypeOK, RootMounted, OpenIsExclusive, Parts
  <2>3. Cleared'
    BY <1>4, <2>1 DEF Plug, TypeOK, Cleared, Harmless, Escape
  <2> QED
    BY <1>4, <2>2, <2>3 DEF Plug, HoldsCleared, Harmless, Escape, Session, Trying
<1> QED
  BY <1>1, <1>2, <1>3, <1>4

LEMMA INext == IInv /\ [Next]_vars => IInv'
<1> SUFFICES ASSUME IInv, [Next]_vars PROVE IInv'
  OBVIOUS
<1>1. CASE Next
  BY <1>1, RunKeeps, WorldKeeps DEF Next
<1>2. CASE UNCHANGED vars
  BY <1>2 DEF vars, IInv, TypeOK, RootMounted, Cleared, Harmless, Escape,
              HoldsCleared, Session, Trying, OpenIsExclusive, Parts
<1> QED
  BY <1>1, <1>2

(* The inductive invariant holds of every behaviour of the guard.           *)
THEOREM Invariant == Spec => []IInv
BY IInit, INext, PTL DEF Spec

(* Every variable keeps its type; attempt stays within the retry bound.     *)
THEOREM TypeCorrect == Spec => []TypeOK
<1>1. IInv => TypeOK
  BY DEF IInv
<1> QED
  BY <1>1, Invariant, PTL

(* The disk of the running OS is opened for writing by no request but a     *)
(* partition typed as --drive with --force.  (classifyWriteTarget, tier 1.) *)
THEOREM SystemDiskSafe == Spec => []SystemDiskNeverOpened
<1>1. IInv => SystemDiskNeverOpened
  BY DEF IInv, HoldsCleared, Harmless, SystemDiskNeverOpened, TargetAssumption
<1> QED
  BY <1>1, Invariant, PTL

(* Without --force only removable media is opened.  (Tier 2.)               *)
THEOREM UnforcedSafe == Spec => []UnforcedIsRemovable
<1>1. IInv => UnforcedIsRemovable
  BY DEF IInv, HoldsCleared, Harmless, UnforcedIsRemovable
<1> QED
  BY <1>1, Invariant, PTL

(* What is opened is in nobody else's use while it is open.  (O_EXCL.)      *)
THEOREM OpenExclusive == Spec => []OpenIsExclusive
<1>1. IInv => OpenIsExclusive
  BY DEF IInv
<1> QED
  BY <1>1, Invariant, PTL

(* A release of a cleared node leaves the file systems of the OS mounted.   *)
LEMMA ReleaseSpares ==
  ASSUME IInv, Release, pc \in {"unmount", "open"}, ~Escape
  PROVE  mount'[SysDisk] = mount[SysDisk]
<1>1. Node # SysDisk
  BY DEF IInv, Cleared, Harmless, Node
<1> QED
  BY <1>1, ReleaseKeeps DEF IInv

(* No step but those of Escape unmounts a file system of the running OS:    *)
(* unmountAll and the retries only release a cleared node.                  *)
THEOREM SystemMountsSafe == Spec => SystemMountsSurvive
<1> DEFINE Spared == \A p \in Part :
      Critical(mount[SysDisk][p]) /\ mount'[SysDisk][p] # mount[SysDisk][p] => Escape
<1>1. IInv /\ [Next]_vars => [Spared]_vars
  <2> SUFFICES ASSUME IInv, Next PROVE mount'[SysDisk] = mount[SysDisk] \/ Escape
    BY DEF vars
  <2>1. CASE UnmountAll \/ OpenBusy
    BY <2>1, ReleaseSpares DEF UnmountAll, OpenBusy
  <2>2. CASE Guard \/ OpenFallback \/ OpenClaim \/ OpenError \/ Close \/ Ask \/ Plug
    BY <2>2 DEF Guard, OpenFallback, OpenClaim, OpenError, Close, Ask, Plug
  <2>3. CASE Reuse
    BY <2>3 DEF Reuse, IInv, TypeOK
  <2>4. CASE Pull
    BY <2>4 DEF Pull, IInv, TypeOK
  <2> QED
    BY <2>1, <2>2, <2>3, <2>4 DEF Next, Run
<1> QED
  BY <1>1, Invariant, PTL DEF Spec, SystemMountsSurvive
=============================================================================
