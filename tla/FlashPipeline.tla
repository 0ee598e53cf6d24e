---------------------------- MODULE FlashPipeline ----------------------------
(***************************************************************************)
(* DriveService::flash: wipe the old signatures, stream the body of the     *)
(* image behind the deferred head, sync, read the body back, and only then  *)
(* write, sync and read back the head that holds the partition table.       *)
(*                                                                          *)
(* One action per device operation or poll; every operation may fail and    *)
(* return.  The environment programs pending blocks, cancels, kills the     *)
(* process or cuts the power at any moment, after the return as well.       *)
(* Seeks are part of the operation that follows them: whenever flash seeks  *)
(* nothing is staged, so AlignedRawDevice::seek has no way to fail.         *)
(***************************************************************************)
EXTENDS RawMedia

CONSTANTS
  DeferHead,  \* kDeferHead, in blocks
  Chunk,      \* kChunk, in blocks
  MaxImage    \* bound: the longest decompressed image considered

ASSUME FlashAssumption ==
  /\ DeferHead \in Nat \ {0}
  /\ DeferHead <= WipeHead
  /\ Chunk \in Nat \ {0}
  /\ MaxImage \in Nat

VARIABLES
  pc,         \* where flash stands
  verify,     \* WriteOptions::verify
  imageLen,   \* blocks the image decompresses to
  cancelled,  \* what CancelToken::isCancelled answers
  written,    \* WriteCtx::written: head captured plus body handed to write()
  checked,    \* body blocks hashDeviceRange has read back
  same,       \* the hash of those blocks still equals the body hash
  result      \* "none" while running, then one of Results

progVars == <<pc, written, checked, same, result>>
vars == <<media, vol, progVars, verify, imageLen, cancelled>>

Smaller(a, b) == IF a <= b THEN a ELSE b

Head == {b \in Block : b < DeferHead}
(* The image's blocks below w, split at the deferred head.                  *)
HeadOf(w) == {b \in Block : b < w /\ b < DeferHead}
BodyOf(w) == {b \in Block : b < w /\ b >= DeferHead}

WipeSteps   == {"wipeHead", "wipeTail", "wipeSync"}
RewipeSteps == {"rewipeHead", "rewipeTail", "rewipeSync"}
CommitSteps == {"head", "headSync", "headRead"}
BodySteps   == {"poll", "read", "sync", "verifyPoll", "verifyRead"}
Steps == {"guard", "stat", "unmount", "open", "size", "done"}
           \cup WipeSteps \cup BodySteps \cup CommitSteps \cup RewipeSteps

(* "Refused" stands for the codes of a call that fails before the device is *)
(* written, "DeviceError" for those a failed raw operation maps its errno   *)
(* to; the other errors are told apart by their code.                       *)
Results == {"none", "ok", "Refused", "InvalidImage", "DiskFull", "DeviceError",
            "UserCancelled", "HashMismatch", "killed"}

TypeOK ==
  /\ MediaTypeOK
  /\ pc \in Steps
  /\ verify \in BOOLEAN
  /\ imageLen \in 0 .. MaxImage
  /\ cancelled \in BOOLEAN
  /\ written \in 0 .. imageLen
  /\ checked \in Int
  /\ same \in BOOLEAN
  /\ result \in Results

Init ==
  /\ MediaInit
  /\ pc = "guard"
  /\ verify \in BOOLEAN
  /\ imageLen \in 0 .. MaxImage
  /\ cancelled = FALSE
  /\ written = 0
  /\ checked = 0
  /\ same = TRUE
  /\ result = "none"

-----------------------------------------------------------------------------
Goto(step) == pc' = step /\ UNCHANGED result
Return(r)  == pc' = "done" /\ result' = r
FailIo     == Return("DeviceError")

(* Everything before the first write: each call succeeds or is returned.    *)
Before(step, next, error) ==
  /\ pc = step
  /\ Goto(next) \/ Return(error)
  /\ UNCHANGED <<media, vol, written, checked, same>>

(* No backend, an enumeration error, or the guard of module TargetOpen.     *)
Guard        == Before("guard", "stat", "Refused")
StatSource   == Before("stat", "unmount", "InvalidImage")
UnmountAll   == Before("unmount", "open", "Refused")
OpenForWrite == Before("open", "size", "Refused")
DeviceSize   == Before("size", "wipeHead", "Refused")

(* wipeSignatures: zero the front, zero the back, sync.                     *)
WipeFront ==
  /\ pc = "wipeHead"
  /\ \/ Write(WipeHeadBlocks, "zero") /\ Goto("wipeTail")
     \/ WritePart(WipeHeadBlocks, "zero") /\ FailIo
  /\ UNCHANGED <<written, checked, same>>

\* Mutant: the back of the card is not wiped.
WipeFrontOnly ==
  /\ pc = "wipeTail"
  /\ Goto("wipeSync") \/ FailIo
  /\ UNCHANGED <<media, vol, written, checked, same>>

WipeBack ==
  /\ pc = "wipeTail"
  /\ \/ Write(WipeTailBlocks, "zero") /\ Goto("wipeSync")
     \/ WritePart(WipeTailBlocks, "zero") /\ FailIo
  /\ UNCHANGED <<written, checked, same>>

\* Mutant: wipeSignatures returns without its sync.
WipeNoSync ==
  /\ pc = "wipeSync"
  /\ Goto("poll")
  /\ UNCHANGED <<media, vol, written, checked, same>>

(* A sync that succeeds has waited for every pending block.                 *)
WipeSync ==
  /\ pc = "wipeSync"
  /\ (Clean /\ Goto("poll")) \/ FailIo
  /\ UNCHANGED <<media, vol, written, checked, same>>

\* Mutant: the token is polled only until the first chunk.
PollOnce ==
  /\ pc = "poll"
  /\ IF cancelled /\ written = 0 THEN Return("UserCancelled") ELSE Goto("read")
  /\ UNCHANGED <<media, vol, written, checked, same>>

(* streamEntry polls the token before every archive read.                   *)
Poll ==
  /\ pc = "poll"
  /\ IF cancelled THEN Return("UserCancelled") ELSE Goto("read")
  /\ UNCHANGED <<media, vol, written, checked, same>>

\* Mutant: the head is not deferred, the image is written in order.
ReadChunkInOrder ==
  /\ pc = "read"
  /\ \E n \in 1 .. Smaller(Chunk, imageLen - written) :
       /\ written + n <= Capacity
       /\ Write({b \in Block : written <= b /\ b < written + n}, "img")
       /\ written' = written + n
  /\ Goto("poll")
  /\ UNCHANGED <<checked, same>>

\* Mutant: the chunk that crosses the head loses its first body block.
ReadChunkSkips ==
  /\ pc = "read"
  /\ \E n \in 1 .. Smaller(Chunk, imageLen - written) :
       /\ written + n <= Capacity
       /\ Write(BodyOf(written + n) \ BodyOf(written + 1), "img")
       /\ written' = written + n
  /\ Goto("poll")
  /\ UNCHANGED <<checked, same>>

(* One decompressed chunk: the part below DeferHead is kept in memory, the  *)
(* rest is written.  A chunk past the device is refused before any of it.   *)
ReadChunk ==
  /\ pc = "read"
  /\ \E n \in 1 .. Smaller(Chunk, imageLen - written) :
       IF written + n > Capacity
       THEN Return("DiskFull") /\ UNCHANGED <<media, vol, written>>
       ELSE LET body == BodyOf(written + n) \ BodyOf(written)
            IN \/ /\ Write(body, "img")
                  /\ written' = written + n
                  /\ Goto("poll")
               \/ /\ body # {}
                  /\ WritePart(body, "img")
                  /\ FailIo
                  /\ UNCHANGED written
  /\ UNCHANGED <<checked, same>>

(* ARCHIVE_WARN: read again, through the poll.                              *)
ReadWarn ==
  /\ pc = "read"
  /\ Goto("poll")
  /\ UNCHANGED <<media, vol, written, checked, same>>

(* The image cannot be opened, has no single entry, or stops decoding.      *)
ReadError ==
  /\ pc = "read"
  /\ Return("InvalidImage")
  /\ UNCHANGED <<media, vol, written, checked, same>>

ReadEnd ==
  /\ pc = "read"
  /\ written = imageLen
  /\ Goto("sync")
  /\ UNCHANGED <<media, vol, written, checked, same>>

\* Mutant: the head is committed while the body is still volatile.
BodyNoSync ==
  /\ pc = "sync"
  /\ Goto(IF verify /\ BodyOf(written) # {} THEN "verifyPoll" ELSE "head")
  /\ UNCHANGED <<media, vol, written, checked, same>>

(* flushAndSync of the body; --no-verify and an image that is all head skip *)
(* the read-back.                                                           *)
BodySync ==
  /\ pc = "sync"
  /\ \/ /\ Clean
        /\ Goto(IF verify /\ BodyOf(written) # {} THEN "verifyPoll" ELSE "head")
     \/ FailIo
  /\ UNCHANGED <<media, vol, written, checked, same>>

(* hashDeviceRange polls only while bytes remain; then the hashes are       *)
(* compared.                                                                *)
VerifyPoll ==
  /\ pc = "verifyPoll"
  /\ IF DeferHead + checked < written
     THEN IF cancelled THEN Return("UserCancelled") ELSE Goto("verifyRead")
     ELSE IF same THEN Goto("head") ELSE Return("HashMismatch")
  /\ UNCHANGED <<media, vol, written, checked, same>>

\* Mutant: the hash restarts with every chunk, so only the last one counts.
VerifyLastChunk ==
  /\ pc = "verifyRead"
  /\ LET upto == Smaller(checked + Chunk, written - DeferHead)
         got  == BodyOf(DeferHead + upto) \ BodyOf(DeferHead + checked)
     IN checked' = upto /\ same' = (\A b \in got : media[b] = "img")
  /\ Goto("verifyPoll")
  /\ UNCHANGED <<media, vol, written>>

VerifyRead ==
  /\ pc = "verifyRead"
  /\ \/ LET upto == Smaller(checked + Chunk, written - DeferHead)
            got  == BodyOf(DeferHead + upto) \ BodyOf(DeferHead + checked)
        IN /\ checked' = upto
           /\ same' = (same /\ \A b \in got : media[b] = "img")
           /\ Goto("verifyPoll")
     \/ FailIo /\ UNCHANGED <<checked, same>>
  /\ UNCHANGED <<media, vol, written>>

WriteHead ==
  /\ pc = "head"
  /\ \/ Write(HeadOf(written), "img") /\ Goto("headSync")
     \/ WritePart(HeadOf(written), "img") /\ FailIo
  /\ UNCHANGED <<written, checked, same>>

(* rereadPartTable follows; its result is ignored and it changes no block.  *)
HeadSync ==
  /\ pc = "headSync"
  /\ (Clean /\ Goto("headRead")) \/ FailIo
  /\ UNCHANGED <<media, vol, written, checked, same>>

(* The head read back: equal, different, or not readable.                   *)
HeadRead ==
  /\ pc = "headRead"
  /\ \/ IF \A b \in HeadOf(written) : media[b] = "img"
        THEN Return("ok")
        ELSE Goto("rewipeHead")
     \/ FailIo
  /\ UNCHANGED <<media, vol, written, checked, same>>

(* Best-effort wipe after a head mismatch: its own failure is not reported. *)
RewipeFront ==
  /\ pc = "rewipeHead"
  /\ \/ Write(WipeHeadBlocks, "zero") /\ Goto("rewipeTail")
     \/ WritePart(WipeHeadBlocks, "zero") /\ Return("HashMismatch")
  /\ UNCHANGED <<written, checked, same>>

RewipeBack ==
  /\ pc = "rewipeTail"
  /\ \/ Write(WipeTailBlocks, "zero") /\ Goto("rewipeSync")
     \/ WritePart(WipeTailBlocks, "zero") /\ Return("HashMismatch")
  /\ UNCHANGED <<written, checked, same>>

RewipeSync ==
  /\ pc = "rewipeSync"
  /\ Return("HashMismatch")
  /\ UNCHANGED <<media, vol, written, checked, same>>

Flash ==
  /\ \/ Guard \/ StatSource \/ UnmountAll \/ OpenForWrite \/ DeviceSize
     \/ WipeFront \/ WipeBack \/ WipeSync
     \/ Poll \/ ReadChunk \/ ReadWarn \/ ReadError \/ ReadEnd
     \/ BodySync \/ VerifyPoll \/ VerifyRead
     \/ WriteHead \/ HeadSync \/ HeadRead
     \/ RewipeFront \/ RewipeBack \/ RewipeSync
  /\ UNCHANGED <<verify, imageLen, cancelled>>

-----------------------------------------------------------------------------
(* The environment.                                                         *)
Program ==
  /\ \E b \in Block : Destage(b)
  /\ UNCHANGED <<progVars, verify, imageLen, cancelled>>

(* Ctrl-C in the CLI, a cancel line or a closed channel in the helper.      *)
Cancel ==
  /\ ~cancelled
  /\ cancelled' = TRUE
  /\ UNCHANGED <<media, vol, progVars, verify, imageLen>>

(* The process dies; the kernel and the card still program what is pending. *)
Kill ==
  /\ pc # "done"
  /\ Return("killed")
  /\ UNCHANGED <<media, vol, written, checked, same, verify, imageLen, cancelled>>

PowerCut ==
  /\ LosePending
  /\ IF pc = "done" THEN UNCHANGED <<pc, result>> ELSE Return("killed")
  /\ UNCHANGED <<written, checked, same, verify, imageLen, cancelled>>

Next == Flash \/ Program \/ Cancel \/ Kill \/ PowerCut

(* The program keeps running and the card keeps programming; nobody is      *)
(* obliged to cancel, and a decoder may warn for ever.                      *)
Fairness == WF_vars(Flash) /\ WF_vars(Program)

Spec == Init /\ [][Next]_vars
FairSpec == Spec /\ Fairness

-----------------------------------------------------------------------------
BodyWhole == written = imageLen /\ \A b \in BodyOf(imageLen) : media[b] = "img"

Untouched == \A b \in Block : media[b] = "old" /\ vol[b] = "clean"

(* No partition table can be read now, nor after whatever is pending lands. *)
Inert ==
  /\ \A b \in Head : media[b] = "zero" /\ vol[b] = "clean"
  /\ \A b \in WipeBlocks : media[b] # "old"

TableStep ==
  \A h \in Head :
    (verify \/ Reliable) /\ media[h] # "img" /\ media'[h] = "img" => BodyWhole

(* No byte of the new partition table reaches the card before the whole     *)
(* body is on it: at every crash point the new table names only data that   *)
(* is there.  With read-back this holds on a card that corrupts or loses    *)
(* writes, without it on a sound card.  (DriveService::flash, defer-head.)  *)
TableLast == [][TableStep]_vars

(* What an early stop leaves: a refused flash has touched nothing, one that *)
(* is cancelled or runs out of space has left no partition table, however   *)
(* the writes still pending land, and one that cannot decode its image did  *)
(* either.  (Progress.hpp, CancelToken; WriteRun's "untouched" and "wiped".)*)
EarlyStopIsClean ==
  /\ result = "Refused" => Untouched
  /\ Reliable /\ result \in {"UserCancelled", "DiskFull"} => Inert
  /\ Reliable /\ result = "InvalidImage" => Inert \/ Untouched

(* Success means durable: the head always, the whole image if it was read   *)
(* back or the card is sound, nothing pending, and on a sound card nothing  *)
(* left of the former partition tables.  (FlashSummary.)                    *)
SuccessIsOnMedia ==
  result = "ok" =>
    /\ Clean
    /\ \A b \in HeadOf(imageLen) : media[b] = "img"
    /\ verify \/ Reliable => BodyWhole
    /\ Reliable => \A b \in WipeBlocks : media[b] # "old"

(* The former partition table and its backup are off the media before the   *)
(* first block of the new image is: no crash leaves the old table over new  *)
(* data.  (The sync that ends wipeSignatures.)                              *)
OldTableGoneFirst ==
  Reliable /\ (\E b \in Block : media[b] = "img") =>
    \A b \in WipeBlocks : media[b] # "old"

(* Once the token is set flash returns, even from a decoder that warns for  *)
(* ever: every loop polls before it reads again.                            *)
CancelStops == cancelled ~> pc = "done"

(* The refinement: block 0 holds the partition table, and the answers are   *)
(* grouped by what the user is told of the card.                            *)
Card == INSTANCE CardLifecycle WITH
  table  <- CASE media[0] = "old" -> "old"
              [] media[0] = "img" -> "new"
              [] OTHER -> "none",
  whole  <- \A b \in BodyOf(imageLen) : media[b] = "img",
  filled <- \E b \in Block : media[b] = "img",
  answer <- CASE result = "none" -> "none"
              [] result = "ok" -> "ok"
              [] result \in {"UserCancelled", "DiskFull", "InvalidImage", "Refused"}
                   -> "stopped"
              [] OTHER -> "failed"

(* On a sound card flash is an implementation of CardLifecycle.             *)
KeepsCardPromise == Card!Spec
=============================================================================
