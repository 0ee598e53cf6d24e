---------------------------- MODULE ConsoleProofs ----------------------------
(***************************************************************************)
(* Proofs about Console for any drives and any number of writes, probes and *)
(* overlapping jobs: the types; that a mount has one holder; that the       *)
(* controls come back; and, of histories in which no job was started over   *)
(* another (Orderly), that the context shown is that of the selected drive, *)
(* that a write runs on the card that was prepared for it, and that one     *)
(* that was cancelled does not start.                                       *)
(*                                                                          *)
(* Each has an inductive invariant of its own; the parts of the state a     *)
(* step leaves alone are carried over by frame lemmas.                      *)
(***************************************************************************)
EXTENDS Console, FiniteSetTheorems, SequenceTheorems, TLAPS

-----------------------------------------------------------------------------
(* The types.  A context that loses its mount is a context still.           *)
LEMMA MovedType ==
  ASSUME NEW c \in Ctx \cup {NoCtx}
  PROVE  Moved(c) \in Ctx \cup {NoCtx} /\ Moved(c).node = c.node /\ Moved(c).mount = "gone"
<1>1. CASE c \in Ctx
  BY <1>1 DEF Moved, Ctx
<1>2. CASE c = NoCtx
  BY <1>2 DEF Moved, NoCtx
<1>3. QED
  BY <1>1, <1>2

(* The parts of the state that a step leaves alone keep their types.        *)
LEMMA TypeFrame ==
  /\ JobOK /\ UNCHANGED jobVars => JobOK'
  /\ CardOK /\ UNCHANGED cardVars => CardOK'
  /\ DialogOK /\ UNCHANGED dialogVars => DialogOK'
  /\ WriteOK /\ UNCHANGED writeVars => WriteOK'
  /\ RetryOK /\ UNCHANGED retryVars => RetryOK'
  BY DEF jobVars, cardVars, dialogVars, writeVars, retryVars,
         JobOK, Watched, CardOK, DialogOK, WriteOK, RetryOK

LEMMA JobParts ==
  ASSUME NEW j \in Job
  PROVE  /\ LET i == [j EXCEPT !.watched = FALSE]
            IN i \in Job /\ i.kind = j.kind /\ i.node = j.node /\ i.watched = FALSE /\ i.stale = j.stale
         /\ LET i == [j EXCEPT !.stale = NoCtx]
            IN i \in Job /\ i.kind = j.kind /\ i.node = j.node /\ i.watched = j.watched /\ i.stale = NoCtx
<1> DEFINE S == Ctx \cup {NoCtx}
<1>1. NoCtx \in S
  OBVIOUS
<1>2. Job = [kind : {"scan", "probe", "drop", "list", "fetch", "prep"},
             node : Node \cup {NoNode}, stale : S, watched : BOOLEAN]
  BY DEF Job
<1> HIDE DEF S
<1>3. QED
  BY <1>1, <1>2

(* A new worker is the only watched one.                                    *)
LEMMA RunType ==
  ASSUME JobOK, NEW kind, NEW node \in Node \cup {NoNode}, NEW stale \in Ctx \cup {NoCtx},
         kind \in {"scan", "probe", "drop", "list", "fetch", "prep"},
         kind = "probe" => node \in Node,
         Run(kind, node, stale)
  PROVE  /\ handlers' \in Seq(Handler) => JobOK'
         /\ Watched' = {[kind |-> kind, node |-> node, stale |-> stale, watched |-> TRUE]}
         /\ pending' = FALSE /\ cancel' = FALSE
<1> DEFINE new == [kind |-> kind, node |-> node, stale |-> stale, watched |-> TRUE]
<1>1. \A j \in running :
        LET i == [j EXCEPT !.watched = FALSE]
        IN i \in Job /\ i.kind = j.kind /\ i.node = j.node /\ i.watched = FALSE
  BY JobParts DEF JobOK
<1>2. new \in Job /\ new.watched /\ new.kind = kind /\ new.node = node
  BY DEF Job
<1>3. running' = {[j EXCEPT !.watched = FALSE] : j \in running} \cup {new}
  BY DEF Run
<1> HIDE DEF new
<1>a. \A x \in running' : x = new \/ \E j \in running : x = [j EXCEPT !.watched = FALSE]
  BY <1>3
<1>4. running' \subseteq Job /\ \A j \in running' : j.kind = "probe" => j.node \in Node
  <2>1. SUFFICES ASSUME NEW x \in running' PROVE x \in Job /\ (x.kind = "probe" => x.node \in Node)
    OBVIOUS
  <2>2. CASE x = new
    BY <1>2, <2>2
  <2>3. ASSUME NEW j \in running, x = [j EXCEPT !.watched = FALSE]
        PROVE  x \in Job /\ (x.kind = "probe" => x.node \in Node)
    <3>1. j.kind = "probe" => j.node \in Node
      BY DEF JobOK
    <3>2. QED
      BY <1>1, <2>3, <3>1
  <2>4. QED
    BY <1>a, <2>2, <2>3
<1>5. Watched' = {new}
  BY <1>1, <1>2, <1>3 DEF Watched
<1>6. overlaps' \in 0..MaxOverlaps
  <2>1. overlaps \in 0..MaxOverlaps
    BY DEF JobOK
  <2>2. overlaps' = overlaps \/ (overlaps < MaxOverlaps /\ overlaps' = overlaps + 1)
    BY DEF Run, Count
  <2>3. QED
    BY <2>1, <2>2, ConsoleAssumption
<1>7. QED
  BY <1>4, <1>5, <1>6 DEF Run, JobOK, new

LEMMA ConnectType ==
  ASSUME JobOK, NEW k \in {"scan", "probe", "list", "fetch", "prep"}, NEW n \in Node \cup {NoNode},
         Connect(k, n)
  PROVE  handlers' \in Seq(Handler)
<1>1. [kind |-> k, node |-> n] \in Handler
  BY DEF Handler
<1>2. QED
  BY <1>1, AppendProperties DEF Connect, JobOK

LEMMA ProbeType ==
  ASSUME JobOK, CardOK,
         NEW s \in Node \cup {NoNode}, NEW held \in Ctx \cup {NoCtx}, NEW out \in Ctx \cup {NoCtx},
         NEW freed, NEW prb \in BOOLEAN, ProbeCurrentDrive(s, held, out, freed, prb)
  PROVE  JobOK' /\ CardOK'
<1>1. CardOK'
  BY DEF ProbeCurrentDrive, CardOK
<1>2. CASE s = NoNode \/ Busy
  <2>1. CASE held # NoCtx /\ ~TaskBusy
    <3>1. handlers' = handlers /\ Run("drop", NoNode, held)
      BY <1>2, <2>1 DEF ProbeCurrentDrive
    <3>2. handlers' \in Seq(Handler)
      BY <3>1 DEF JobOK
    <3>3. QED
      BY <1>1, <3>1, <3>2, RunType
  <2>2. CASE ~(held # NoCtx /\ ~TaskBusy)
    <3>1. UNCHANGED jobVars
      BY <1>2, <2>2 DEF ProbeCurrentDrive, jobVars
    <3>2. QED
      BY <1>1, <3>1, TypeFrame
  <2>3. QED
    BY <2>1, <2>2
<1>3. CASE ~(s = NoNode \/ Busy)
  <2>1. Connect("probe", s) /\ Run("probe", s, held) /\ s \in Node
    BY <1>3 DEF ProbeCurrentDrive
  <2>2. handlers' \in Seq(Handler)
    BY <2>1, ConnectType
  <2>3. QED
    BY <1>1, <2>1, <2>2, RunType
<1>4. QED
  BY <1>1, <1>2, <1>3

LEMMA ScanType ==
  ASSUME JobOK, NEW n \in Node \cup {NoNode}, RefreshDrives(n)
  PROVE  JobOK' /\ (ui' = ui \/ ShowBusy)
<1>1. CASE Idle
  BY <1>1 DEF RefreshDrives, Idle, jobVars, JobOK, Watched
<1>2. CASE Connect("scan", n) /\ Run("scan", NoNode, NoCtx) /\ ShowBusy
  BY <1>2, ConnectType, RunType
<1>3. QED
  BY <1>1, <1>2 DEF RefreshDrives

(* What the window shows is a matter of three truth values.                 *)
LEMMA ShownType ==
  /\ \A b \in BOOLEAN : ApplyState(b) => /\ ui' \in [busy : BOOLEAN, write : BOOLEAN, conf : BOOLEAN]
                                         /\ ui'.busy = b
  /\ WindowOK /\ ShowBusy => ui' \in [busy : BOOLEAN, write : BOOLEAN, conf : BOOLEAN] /\ ui'.busy
<1>1. ASSUME NEW b \in BOOLEAN, ApplyState(b)
      PROVE  ui' \in [busy : BOOLEAN, write : BOOLEAN, conf : BOOLEAN] /\ ui'.busy = b
  <2> DEFINE w == image' /\ sel' # NoNode /\ ~Busy'
             c == bootCtx'.k2 /\ bootCtx'.mount # "gone" /\ ~Busy' /\ ~probing'
  <2>1. w \in BOOLEAN /\ c \in BOOLEAN
    OBVIOUS
  <2>2. ui' = [busy |-> b, write |-> w, conf |-> c]
    BY <1>1 DEF ApplyState
  <2> HIDE DEF w, c
  <2>3. QED
    BY <2>1, <2>2
<1>2. WindowOK /\ ShowBusy => ui' \in [busy : BOOLEAN, write : BOOLEAN, conf : BOOLEAN] /\ ui'.busy
  BY DEF WindowOK, ShowBusy
<1>3. QED
  BY <1>1, <1>2

LEMMA FirstFiring ==
  ASSUME WindowOK, firing # <<>>
  PROVE  /\ Head(firing) \in Handler /\ Head(firing).node \in Node \cup {NoNode}
         /\ Tail(firing) \in Seq(Handler)
<1>1. Head(firing) \in Handler /\ Tail(firing) \in Seq(Handler)
  BY HeadTailProperties DEF WindowOK
<1>2. QED
  BY <1>1 DEF Handler

LEMMA TypeInit == Init => TypeOK
<1> SUFFICES ASSUME Init PROVE TypeOK
  OBVIOUS
<1>1. JobOK
  <2>1. [kind |-> "scan", node |-> NoNode, stale |-> NoCtx, watched |-> TRUE] \in Job
    BY DEF Job
  <2>2. [kind |-> "scan", node |-> NoNode] \in Handler
    BY DEF Handler
  <2>3. handlers \in Seq(Handler)
    BY <2>2 DEF Init
  <2>4. overlaps \in 0..MaxOverlaps
    BY ConsoleAssumption DEF Init
  <2>5. running \subseteq Job /\ \A j \in running : j.kind # "probe"
    BY <2>1 DEF Init
  <2>6. QED
    BY <2>3, <2>4, <2>5 DEF Init, JobOK, Watched
<1>2. DialogOK
  BY DEF Init, DialogOK, NoModal, Dialog
<1>3. CardOK /\ WindowOK
  <2>1. [busy |-> TRUE, write |-> FALSE, conf |-> FALSE] \in [busy : BOOLEAN, write : BOOLEAN, conf : BOOLEAN]
    OBVIOUS
  <2>2. ui \in [busy : BOOLEAN, write : BOOLEAN, conf : BOOLEAN] /\ firing \in Seq(Handler)
    BY <2>1 DEF Init
  <2>3. WindowOK
    BY <2>2 DEF Init, WindowOK
  <2>4. QED
    BY <2>3 DEF Init, CardOK
<1>4. WriteOK
  BY DEF Init, WriteOK, NoWrite
<1>5. RetryOK
  <2>1. 0 \in 0..Tries
    BY ConsoleAssumption
  <2>2. QED
    BY <2>1 DEF Init, RetryOK
<1>6. QED
  BY <1>1, <1>2, <1>3, <1>4, <1>5 DEF TypeOK

(* The workers unmount what they were handed and mount what they find.      *)
LEMMA TypeWorker == TypeOK /\ Worker => TypeOK'
<1> SUFFICES ASSUME TypeOK, NEW j \in running, ReleaseStale(j) \/ WorkerReturns(j) PROVE TypeOK'
  BY DEF Worker
<1> USE DEF TypeOK
<1>1. j \in Job /\ JobOK
  BY DEF JobOK
<1>2. CASE ReleaseStale(j)
  <2> DEFINE i == [j EXCEPT !.stale = NoCtx]
  <2>1. i \in Job /\ i.kind = j.kind /\ i.node = j.node /\ i.watched = j.watched
    BY <1>1, JobParts
  <2>2. running' = (running \ {j}) \cup {i}
    BY <1>2 DEF ReleaseStale
  <2> HIDE DEF i
  <2>3. JobOK'
    <3>1. UNCHANGED <<handlers, pending, cancel, overlaps>>
      BY <1>2 DEF ReleaseStale
    <3>2. running' \subseteq Job /\ \A k \in running' : k.kind = "probe" => k.node \in Node
      BY <2>1, <2>2 DEF JobOK
    <3>3. (\A k, l \in Watched' : k = l) /\ (pending' => Watched' = {})
      BY <2>1, <2>2, <3>1 DEF JobOK, Watched
    <3>4. QED
      BY <3>1, <3>2, <3>3 DEF JobOK
  <2>4. CardOK'
    BY <1>2 DEF ReleaseStale, CardOK
  <2>5. QED
    BY <1>2, <2>3, <2>4, TypeFrame DEF ReleaseStale, WindowOK, closeVars
<1>3. CASE WorkerReturns(j)
  <2>1. JobOK'
    <3>1. pending' \in BOOLEAN /\ (j.watched => pending') /\ (~j.watched => pending' = pending)
      BY <1>3 DEF WorkerReturns, JobOK
    <3>2. running' = running \ {j} /\ UNCHANGED <<handlers, cancel, overlaps>>
      BY <1>3 DEF WorkerReturns
    <3>3. (\A k, l \in Watched' : k = l) /\ (pending' => Watched' = {})
      BY <3>1, <3>2 DEF JobOK, Watched
    <3>4. QED
      BY <3>1, <3>2, <3>3 DEF JobOK
  <2>2. CardOK'
    <3>1. bootCtx' = bootCtx /\ probing' = probing
      BY <1>3 DEF WorkerReturns
    <3>2. CASE j.kind = "probe" /\ MountBoot(j.node)
      <4>1. j.node \in Node
        BY <3>2 DEF JobOK
      <4>2. probeOut' \in Ctx
        BY <3>2, <4>1 DEF MountBoot, Ctx
      <4>3. ours' \subseteq Node
        BY <3>2, <4>1 DEF MountBoot, CardOK
      <4>4. QED
        BY <3>1, <4>2, <4>3 DEF CardOK
    <3>3. CASE UNCHANGED <<probeOut, ours>>
      BY <3>1, <3>3 DEF CardOK
    <3>4. QED
      BY <1>3, <3>2, <3>3 DEF WorkerReturns
  <2>3. QED
    BY <1>3, <2>1, <2>2, TypeFrame DEF WorkerReturns, WindowOK, closeVars
<1>4. QED
  BY <1>2, <1>3

(* The handlers.                                                            *)
LEMMA TypeHandle == TypeOK /\ Handle => TypeOK'
<1> SUFFICES ASSUME TypeOK, Handle PROVE TypeOK'
  OBVIOUS
<1> USE DEF TypeOK
<1>1. /\ Head(firing).node \in Node \cup {NoNode} /\ Tail(firing) \in Seq(Handler) /\ <<>> \in Seq(Handler)
      /\ ui.busy \in BOOLEAN
  <2>1. firing # <<>>
    BY DEF Handle, ScanDone, ProbeOfAnother, ProbeDone, ListDone, FetchDone, PrepDone, Call
  <2>2. ui.busy \in BOOLEAN
    BY DEF WindowOK
  <2>3. QED
    BY <2>1, <2>2, FirstFiring
<1>2. CASE ScanDone
  <2>1. JobOK' /\ CardOK' /\ sel' \in Node \cup {NoNode}
    <3>1. CASE UNCHANGED <<sel, modal, jobVars, cardVars>>
      BY <3>1, TypeFrame DEF WindowOK
    <3>2. CASE sel' \in Node \cup {NoNode} /\ ProbeCurrentDrive(sel', bootCtx, probeOut, {}, probing)
      BY <3>2, ProbeType DEF CardOK
    <3>3. QED
      BY <1>2, <3>1, <3>2 DEF ScanDone
  <2>2. DialogOK'
    BY <1>2 DEF ScanDone, DialogOK
  <2>3. WindowOK'
    BY <1>1, <1>2, <2>1, ShownType DEF ScanDone, Next1, WindowOK, closeVars
  <2>4. QED
    BY <1>2, <2>1, <2>2, <2>3, TypeFrame DEF ScanDone
<1>3. CASE ProbeOfAnother
  <2>1. JobOK' /\ CardOK'
    <3>1. Moved(probeOut) \in Ctx \cup {NoCtx}
      BY MovedType DEF CardOK
    <3>2. QED
      BY <1>3, <3>1, ProbeType DEF ProbeOfAnother, CardOK, WindowOK
  <2>2. WindowOK'
    BY <1>1, <1>3, ShownType DEF ProbeOfAnother, Next1, WindowOK, closeVars
  <2>3. QED
    BY <1>3, <2>1, <2>2, TypeFrame DEF ProbeOfAnother
<1>4. CASE ProbeDone
  <2>1. CardOK'
    <3>1. Moved(probeOut) \in Ctx \cup {NoCtx}
      BY MovedType DEF CardOK
    <3>2. QED
      BY <1>4, <3>1 DEF ProbeDone, CardOK
  <2>2. RetryOK'
    <3>1. ASSUME again.left # 0, again.left # 1
          PROVE  [again EXCEPT !.left = @ - 1] \in [left : 0..Tries, node : Node \cup {NoNode}]
                 /\ again.node \in Node \cup {NoNode}
      <4>1. again.left \in 0..Tries /\ again.left - 1 \in 0..Tries
        BY <3>1, ConsoleAssumption DEF RetryOK
      <4>2. QED
        BY <4>1 DEF RetryOK
    <3>2. [left |-> 0, node |-> NoNode] \in [left : 0..Tries, node : Node \cup {NoNode}]
      BY ConsoleAssumption
    <3>3. QED
      BY <1>4, <3>1, <3>2 DEF ProbeDone, Reprobe, RetryOK, retryVars
  <2>3. WindowOK'
    BY <1>1, <1>4, ShownType DEF ProbeDone, Next1, WindowOK, closeVars
  <2>4. QED
    BY <1>4, <2>1, <2>2, <2>3, TypeFrame DEF ProbeDone
<1>5. CASE ListDone
  <2>1. DialogOK'
    <3>1. Dialog("picker", NoNode) \in [kind : {"none", "picker", "confirm", "configure", "ask"},
                                       node : Node \cup {NoNode}, dangling : BOOLEAN]
      BY DEF Dialog
    <3>2. QED
      BY <1>1, <1>5, <3>1 DEF ListDone, DialogOK
  <2>2. WindowOK'
    BY <1>1, <1>5, ShownType DEF ListDone, Next1, WindowOK, closeVars
  <2>3. QED
    BY <1>5, <2>1, <2>2, TypeFrame DEF ListDone
<1>6. CASE FetchDone
  <2>1. WindowOK'
    BY <1>1, <1>6, ShownType DEF FetchDone, Next1, WindowOK, closeVars
  <2>2. QED
    BY <1>6, <2>1, TypeFrame DEF FetchDone
<1>7. CASE PrepDone
  <2>1. WriteOK'
    <3>1. helper' = NoWrite \/ helper' = [on |-> TRUE, node |-> Head(firing).node, asShown |-> helper.asShown]
      BY <1>7 DEF PrepDone, RunFlash
    <3>2. helper' \in [on : BOOLEAN, node : Node \cup {NoNode}, asShown : BOOLEAN]
      <4>1. helper.asShown \in BOOLEAN
        BY DEF WriteOK
      <4>2. NoWrite \in [on : BOOLEAN, node : Node \cup {NoNode}, asShown : BOOLEAN]
        BY DEF NoWrite
      <4>3. \A n \in Node \cup {NoNode}, v \in BOOLEAN :
              [on |-> TRUE, node |-> n, asShown |-> v] \in [on : BOOLEAN, node : Node \cup {NoNode}, asShown : BOOLEAN]
        OBVIOUS
      <4>4. QED
        BY <1>1, <3>1, <4>1, <4>2, <4>3
    <3>3. QED
      BY <1>7, <3>2 DEF PrepDone, WriteOK
  <2>2. WindowOK'
    BY <1>1, <1>7, ShownType DEF PrepDone, Next1, WindowOK, closeVars
  <2>3. QED
    BY <1>7, <2>1, <2>2, TypeFrame DEF PrepDone
<1>8. QED
  BY <1>2, <1>3, <1>4, <1>5, <1>6, <1>7 DEF Handle

(* Handlers gathered, scans started, the helper's end.                      *)
LEMMA TypeSignals == TypeOK /\ (DeliverFinished \/ HelperDone \/ TimerFires) => TypeOK'
<1> SUFFICES ASSUME TypeOK, DeliverFinished \/ HelperDone \/ TimerFires PROVE TypeOK'
  OBVIOUS
<1> USE DEF TypeOK
<1>1. CASE DeliverFinished
  <2>1. JobOK'
    <3>1. handlers' = <<>> /\ <<>> \in Seq(Handler) /\ pending' = FALSE
      BY <1>1 DEF DeliverFinished
    <3>2. Watched' = Watched /\ UNCHANGED <<running, cancel, overlaps>>
      BY <1>1 DEF DeliverFinished, Watched
    <3>3. QED
      BY <3>1, <3>2 DEF JobOK
  <2>2. WindowOK'
    BY <1>1 DEF DeliverFinished, JobOK, WindowOK
  <2>3. QED
    BY <1>1, <2>1, <2>2, TypeFrame DEF DeliverFinished
<1>2. CASE HelperDone
  <2>1. WriteOK' /\ hDone \in Node \cup {NoNode}
    BY <1>2 DEF HelperDone, NoWrite, WriteOK
  <2>2. JobOK' /\ (ui' = ui \/ ShowBusy \/ ApplyState(FALSE))
    <3>1. CASE Idle
      BY <1>2, <2>1, <3>1, ScanType, TypeFrame DEF HelperDone, Idle
    <3>2. CASE RefreshDrives(hDone)
      BY <2>1, <3>2, ScanType
    <3>3. QED
      BY <1>2, <3>1, <3>2 DEF HelperDone
  <2>3. WindowOK'
    <3>1. ui' \in [busy : BOOLEAN, write : BOOLEAN, conf : BOOLEAN]
      BY <2>2, ShownType DEF WindowOK
    <3>2. closeQueued' \in BOOLEAN
      BY <1>2 DEF HelperDone, WindowOK
    <3>3. QED
      BY <1>2, <3>1, <3>2 DEF HelperDone, WindowOK
  <2>4. RetryOK'
    <3>1. [left |-> Tries, node |-> hDone] \in [left : 0..Tries, node : Node \cup {NoNode}]
      BY <2>1, ConsoleAssumption
    <3>2. QED
      BY <1>2, <3>1 DEF HelperDone, RetryOK
  <2>5. QED
    BY <1>2, <2>1, <2>2, <2>3, <2>4, TypeFrame DEF HelperDone
<1>3. CASE TimerFires
  <2>1. PICK n \in timers : timers' = timers \ {n} /\ UNCHANGED helper /\ RefreshDrives(n)
    BY <1>3 DEF TimerFires
  <2>2. JobOK' /\ (ui' = ui \/ ShowBusy)
    BY <2>1, ScanType DEF RetryOK
  <2>3. WindowOK'
    BY <1>3, <2>2, ShownType DEF TimerFires, WindowOK, closeVars
  <2>4. WriteOK' /\ RetryOK'
    BY <1>3, <2>1 DEF TimerFires, WriteOK, RetryOK
  <2>5. QED
    BY <1>3, <2>2, <2>3, <2>4, TypeFrame DEF TimerFires
<1>4. QED
  BY <1>1, <1>2, <1>3

(* What the user starts.                                                    *)
LEMMA TypeStart ==
  TypeOK /\ (Rescan \/ SelectDrive \/ PickImage \/ ChooseRelease \/ PickerDone \/ Confirm) => TypeOK'
<1> SUFFICES ASSUME TypeOK, Rescan \/ SelectDrive \/ PickImage \/ ChooseRelease \/ PickerDone \/ Confirm
             PROVE  TypeOK'
  OBVIOUS
<1> USE DEF TypeOK
<1>1. CASE Rescan
  <2>1. JobOK' /\ (ui' = ui \/ ShowBusy)
    BY <1>1, ScanType DEF Rescan
  <2>2. WindowOK' /\ WriteOK'
    BY <1>1, <2>1, ShownType DEF Rescan, WindowOK, WriteOK, closeVars
  <2>3. QED
    BY <1>1, <2>1, <2>2, TypeFrame DEF Rescan
<1>2. CASE SelectDrive
  <2>1. ui.busy \in BOOLEAN /\ sel' \in Node \cup {NoNode}
    BY <1>2 DEF SelectDrive, WindowOK
  <2>2. JobOK' /\ CardOK'
    BY <1>2, <2>1, ProbeType DEF SelectDrive, CardOK
  <2>3. WindowOK'
    BY <1>2, <2>1, ShownType DEF SelectDrive, WindowOK, closeVars
  <2>4. QED
    BY <1>2, <2>2, <2>3, TypeFrame DEF SelectDrive
<1>3. CASE PickImage
  <2>1. ui.busy \in BOOLEAN
    BY DEF WindowOK
  <2>2. WindowOK'
    BY <1>3, <2>1, ShownType DEF PickImage, WindowOK, closeVars
  <2>3. QED
    BY <1>3, <2>2, TypeFrame DEF PickImage
<1>4. CASE ChooseRelease
  <2>1. JobOK'
    BY <1>4, ConnectType, RunType DEF ChooseRelease
  <2>2. WindowOK'
    BY <1>4, ShownType DEF ChooseRelease, WindowOK, closeVars
  <2>3. QED
    BY <1>4, <2>1, <2>2, TypeFrame DEF ChooseRelease
<1>5. CASE PickerDone
  <2>1. DialogOK'
    BY <1>5 DEF PickerDone, DialogOK, NoModal, Dialog
  <2>2. JobOK' /\ (ui' = ui \/ ShowBusy)
    <3>1. CASE Idle /\ UNCHANGED ui
      BY <3>1, TypeFrame DEF Idle
    <3>2. CASE Connect("fetch", NoNode) /\ Run("fetch", NoNode, NoCtx) /\ ShowBusy
      BY <3>2, ConnectType, RunType
    <3>3. QED
      BY <1>5, <3>1, <3>2 DEF PickerDone
  <2>3. WindowOK'
    BY <1>5, <2>2, ShownType DEF PickerDone, WindowOK, DialogOK, closeVars
  <2>4. QED
    BY <1>5, <2>1, <2>2, <2>3, TypeFrame DEF PickerDone
<1>6. CASE Confirm
  <2>1. PICK n \in (IF modal.dangling THEN Node ELSE {modal.node}) :
          LET shown == n = modal.node IN
          /\ hDone' = n
          /\ IF bootCtx = NoCtx
             THEN RunFlash(n, shown) /\ Idle /\ UNCHANGED bootCtx
             ELSE /\ helper' = [helper EXCEPT !.asShown = shown]
                  /\ Connect("prep", n)
                  /\ Run("prep", n, bootCtx)
                  /\ bootCtx' = NoCtx
    BY <1>6 DEF Confirm
  <2>2. n \in Node \cup {NoNode} /\ (n = modal.node) \in BOOLEAN
    BY <2>1 DEF DialogOK
  <2>3. JobOK' /\ bootCtx' \in Ctx \cup {NoCtx}
    <3>1. CASE bootCtx = NoCtx
      BY <2>1, <3>1, TypeFrame DEF Idle
    <3>2. CASE bootCtx # NoCtx
      <4>1. handlers' \in Seq(Handler)
        BY <2>1, <2>2, <3>2, ConnectType
      <4>2. QED
        BY <2>1, <2>2, <3>2, <4>1, RunType DEF CardOK
    <3>3. QED
      BY <3>1, <3>2
  <2>4. WriteOK'
    <3>1. \A on, v \in BOOLEAN, m \in Node \cup {NoNode} :
            [on |-> on, node |-> m, asShown |-> v] \in [on : BOOLEAN, node : Node \cup {NoNode}, asShown : BOOLEAN]
      OBVIOUS
    <3>2. \A v \in BOOLEAN : [helper EXCEPT !.asShown = v] \in [on : BOOLEAN, node : Node \cup {NoNode}, asShown : BOOLEAN]
      BY DEF WriteOK
    <3> DEFINE shown == n = modal.node
    <3>3. shown \in BOOLEAN
      OBVIOUS
    <3>4. helper' = [on |-> TRUE, node |-> n, asShown |-> shown] \/ helper' = [helper EXCEPT !.asShown = shown]
      BY <2>1 DEF RunFlash
    <3> HIDE DEF shown
    <3>5. helper' \in [on : BOOLEAN, node : Node \cup {NoNode}, asShown : BOOLEAN]
      <4>1. [on |-> TRUE, node |-> n, asShown |-> shown] \in [on : BOOLEAN, node : Node \cup {NoNode}, asShown : BOOLEAN]
        BY <2>2, <3>1, <3>3, Zenon
      <4>2. [helper EXCEPT !.asShown = shown] \in [on : BOOLEAN, node : Node \cup {NoNode}, asShown : BOOLEAN]
        BY <3>2, <3>3, Zenon
      <4>3. QED
        BY <3>4, <4>1, <4>2, Zenon
    <3>6. QED
      BY <1>6, <2>1, <2>2, <3>5 DEF Confirm, WriteOK
  <2>5. CardOK' /\ DialogOK'
    BY <1>6, <2>3 DEF Confirm, CardOK, DialogOK, NoModal, Dialog
  <2>6. WindowOK'
    BY <1>6, ShownType DEF Confirm, WindowOK, closeVars
  <2>7. QED
    BY <1>6, <2>3, <2>4, <2>5, <2>6, TypeFrame DEF Confirm
<1>7. QED
  BY <1>1, <1>2, <1>3, <1>4, <1>5, <1>6

(* The dialogs, the buttons and the close.                                  *)
LEMMA TypeDialogs ==
  TypeOK /\ (StartWrite \/ Configure \/ Dismiss) => TypeOK'
<1> SUFFICES ASSUME TypeOK, StartWrite \/ Configure \/ Dismiss PROVE TypeOK'
  OBVIOUS
<1> USE DEF TypeOK
<1>1. JobOK'
  <2>1. overlaps \in 0..MaxOverlaps
    BY DEF JobOK
  <2>2. overlaps' = overlaps \/ (overlaps < MaxOverlaps /\ overlaps' = overlaps + 1)
    BY DEF StartWrite, Configure, Dismiss, Count, jobVars
  <2>3. overlaps' \in 0..MaxOverlaps
    BY <2>1, <2>2, ConsoleAssumption
  <2>4. UNCHANGED <<running, pending, cancel, handlers>> /\ Watched' = Watched
    BY DEF StartWrite, Configure, Dismiss, jobVars, Watched
  <2>5. QED
    BY <2>3, <2>4 DEF JobOK
<1>2. DialogOK'
  <2>1. \A k \in {"none", "picker", "confirm", "configure", "ask"}, n \in Node \cup {NoNode} :
          Dialog(k, n) \in [kind : {"none", "picker", "confirm", "configure", "ask"},
                           node : Node \cup {NoNode}, dangling : BOOLEAN]
    BY DEF Dialog
  <2>2. Configure => bootCtx.node \in Node
    BY DEF Configure, CardOK, Ctx, NoCtx
  <2>3. modal' = Dialog("confirm", sel) \/ modal' = Dialog("none", NoNode) \/ (Configure /\ modal' = Dialog("configure", bootCtx.node))
    BY DEF StartWrite, Configure, Dismiss, NoModal
  <2>4. outer' = outer
    BY DEF StartWrite, Configure, Dismiss
  <2>5. QED
    BY <2>1, <2>2, <2>3, <2>4 DEF DialogOK, WindowOK
<1>3. WindowOK'
  BY DEF StartWrite, Configure, Dismiss, WindowOK, closeVars
<1>4. UNCHANGED cardVars /\ UNCHANGED writeVars /\ UNCHANGED retryVars
  BY DEF StartWrite, Configure, Dismiss
<1>5. QED
  BY <1>1, <1>2, <1>3, <1>4, TypeFrame

LEMMA TypeClosing ==
  TypeOK /\ (CancelButton \/ CloseWindow \/ AnswerAsk \/ QueuedClose) => TypeOK'
<1> SUFFICES ASSUME TypeOK, CancelButton \/ CloseWindow \/ AnswerAsk \/ QueuedClose PROVE TypeOK'
  OBVIOUS
<1> USE DEF TypeOK, CancelButton, CloseWindow, AnswerAsk, QueuedClose
<1>1. /\ UNCHANGED <<running, pending, handlers, overlaps, probing, outer, helper, hDone>>
      /\ UNCHANGED <<sel, image, ui, firing>> /\ UNCHANGED retryVars
  BY DEF cardVars, dialogVars
<1>2. /\ cancel' = cancel \/ cancel' = TRUE
      /\ stopAsked' = stopAsked \/ stopAsked' = (stopAsked \/ Preparing)
      /\ closed' = closed \/ closed' = TRUE
      /\ closePending' = closePending \/ closePending' = TRUE
      /\ closeQueued' = closeQueued \/ closeQueued' = FALSE
  <2>1. (CancelAll \/ UNCHANGED <<cancel, stopAsked>>) /\ (closed' = closed \/ closed' = TRUE)
    BY DEF CancelForClose, Shut, closeVars
  <2>2. closePending' = closePending \/ closePending' = TRUE
    BY DEF closeVars
  <2>3. closeQueued' = closeQueued \/ closeQueued' = FALSE
    BY DEF closeVars
  <2>4. QED
    BY <2>1, <2>2, <2>3 DEF CancelAll
<1>a. /\ bootCtx' = bootCtx \/ bootCtx' = NoCtx
      /\ probeOut' = probeOut \/ probeOut' = NoCtx
      /\ ours' = ours \/ ours' = ours \ Owned({bootCtx, probeOut})
  BY DEF CancelForClose, Shut, cardVars
<1>b. modal' = modal \/ modal' = Dialog("ask", NoNode) \/ modal' = Dialog("none", NoNode)
  BY DEF dialogVars, NoModal
<1>3. JobOK'
  BY <1>1, <1>2 DEF JobOK, Watched
<1>4. CardOK'
  BY <1>1, <1>a DEF CardOK
<1>5. DialogOK'
  <2>1. \A k \in {"none", "picker", "confirm", "configure", "ask"}, n \in Node \cup {NoNode} :
          Dialog(k, n) \in [kind : {"none", "picker", "confirm", "configure", "ask"},
                           node : Node \cup {NoNode}, dangling : BOOLEAN]
    BY DEF Dialog
  <2>2. QED
    BY <1>1, <1>b, <2>1 DEF DialogOK
<1>6. WriteOK'
  BY <1>1, <1>2 DEF WriteOK
<1>7. WindowOK'
  BY <1>1, <1>2 DEF WindowOK
<1>8. RetryOK'
  BY <1>1, TypeFrame
<1>9. QED
  BY <1>3, <1>4, <1>5, <1>6, <1>7, <1>8

LEMMA TypeNext == TypeOK /\ [Next]_vars => TypeOK'
<1> SUFFICES ASSUME TypeOK, [Next]_vars PROVE TypeOK'
  OBVIOUS
<1>1. CASE UNCHANGED vars
  <2>1. UNCHANGED jobVars /\ UNCHANGED cardVars /\ UNCHANGED dialogVars /\ UNCHANGED writeVars /\ UNCHANGED retryVars
    BY <1>1 DEF vars, jobVars, cardVars, dialogVars, writeVars, retryVars
  <2>2. WindowOK'
    BY <1>1 DEF vars, TypeOK, WindowOK
  <2>3. QED
    BY <2>1, <2>2, TypeFrame DEF TypeOK
<1>2. CASE Next
  BY <1>2, TypeWorker, TypeHandle, TypeSignals, TypeStart, TypeDialogs, TypeClosing
     DEF Next, Input, System
<1>3. QED
  BY <1>1, <1>2

(* Every variable of the window keeps its type, at most one job is watched, *)
(* and none while its finished signal waits to be delivered.                *)
THEOREM WindowTypes == Spec => []TypeOK
  BY TypeInit, TypeNext, PTL DEF Spec

-----------------------------------------------------------------------------
(* Mounted partitions.  A context holds the mount of a card when it is the  *)
(* handle that will unmount it; a partition is ours exactly when one of     *)
(* bootCtx_, probeOut_ and the workers' contexts holds it, and two of them  *)
(* never do.                                                                *)
Has(c, n)   == c.mount = "own" /\ c.node = n
Parked(n)   == \E j \in running : Has(j.stale, n)
ParkedOnce(n) == \A j, k \in running : Has(j.stale, n) /\ Has(k.stale, n) => j = k

HeldOnce(n) ==
  /\ n \in ours <=> Has(bootCtx, n) \/ Has(probeOut, n) \/ Parked(n)
  /\ ~(Has(bootCtx, n) /\ Has(probeOut, n))
  /\ ~(Has(bootCtx, n) /\ Parked(n))
  /\ ~(Has(probeOut, n) /\ Parked(n))
  /\ ParkedOnce(n)

IHeld == \A n \in Node : HeldOnce(n)

LEMMA OwnedIs ==
  ASSUME NEW n
  PROVE  /\ n \notin Owned({})
         /\ \A c : n \in Owned({c}) <=> Has(c, n)
         /\ \A c, d : n \in Owned({c, d}) <=> Has(c, n) \/ Has(d, n)
         /\ \A S, c : n \in Owned(S \cup {c}) <=> n \in Owned(S) \/ Has(c, n)
  BY DEF Owned, Has

LEMMA NoneHeld == \A n : ~Has(NoCtx, n) /\ \A c : ~Has(Moved(c), n)
  BY DEF Has, NoCtx, Moved

(* A job that is started takes the context it is handed.                    *)
LEMMA RunHeld ==
  ASSUME running \subseteq Job, NEW n, NEW kind, NEW node, NEW stale,
         ParkedOnce(n), ~(Parked(n) /\ Has(stale, n)), Run(kind, node, stale)
  PROVE  (Parked(n)' <=> Parked(n) \/ Has(stale, n)) /\ ParkedOnce(n)'
<1> DEFINE new  == [kind |-> kind, node |-> node, stale |-> stale, watched |-> TRUE]
           old(j) == [j EXCEPT !.watched = FALSE]
<1>1. running' = {old(j) : j \in running} \cup {new}
  BY DEF Run
<1>2. \A j \in running : old(j).stale = j.stale
  BY JobParts
<1>3. new.stale = stale
  OBVIOUS
<1> HIDE DEF new, old
<1>4. Parked(n)' <=> \E x \in running' : Has(x.stale, n)
  BY DEF Parked, Has
<1>5. ParkedOnce(n)' <=> \A x, y \in running' : Has(x.stale, n) /\ Has(y.stale, n) => x = y
  BY DEF ParkedOnce, Has
<1>6. Parked(n)' <=> Parked(n) \/ Has(stale, n)
  BY <1>1, <1>2, <1>3, <1>4 DEF Parked
<1>7. ASSUME NEW x \in running', NEW y \in running', Has(x.stale, n), Has(y.stale, n)
      PROVE  x = y
  <2>1. CASE x = new /\ y = new
    BY <2>1
  <2>2. ASSUME NEW j \in running, x = old(j) \/ y = old(j)
        PROVE  x = y
    <3>1. Parked(n) /\ Has(j.stale, n)
      BY <1>2, <1>7, <2>2 DEF Parked
    <3>2. x # new /\ y # new
      BY <1>3, <1>7, <3>1
    <3>3. PICK k \in running, l \in running : x = old(k) /\ y = old(l)
      BY <1>1, <3>2
    <3>4. k = l
      BY <1>2, <1>7, <3>3 DEF ParkedOnce
    <3>5. QED
      BY <3>3, <3>4
  <2>3. QED
    BY <1>1, <2>1, <2>2
<1>8. QED
  BY <1>5, <1>6, <1>7

(* Selecting a card: the handler destroyed `freed' before, the probe that   *)
(* starts unmounts `held'.                                                  *)
LEMMA ProbeHeld ==
  ASSUME running \subseteq Job, NEW n, NEW s, NEW held, NEW out, NEW freed, NEW prb,
         ProbeCurrentDrive(s, held, out, freed, prb),
         n \in ours <=> n \in Owned(freed) \/ Has(held, n) \/ Has(out, n) \/ Parked(n),
         ~(n \in Owned(freed) /\ Has(held, n)), ~(n \in Owned(freed) /\ Has(out, n)),
         ~(n \in Owned(freed) /\ Parked(n)), ~(Has(held, n) /\ Has(out, n)),
         ~(Has(held, n) /\ Parked(n)), ~(Has(out, n) /\ Parked(n)), ParkedOnce(n)
  PROVE  HeldOnce(n)'
<1>1. bootCtx' = NoCtx /\ ~Has(NoCtx, n)
  BY NoneHeld DEF ProbeCurrentDrive
<1>2. \A c : n \in Owned(freed \cup {c}) <=> n \in Owned(freed) \/ Has(c, n)
  BY OwnedIs
<1>a. HeldOnce(n)' <=> /\ n \in ours' <=> Has(bootCtx', n) \/ Has(probeOut', n) \/ Parked(n)'
                       /\ ~(Has(bootCtx', n) /\ Has(probeOut', n))
                       /\ ~(Has(bootCtx', n) /\ Parked(n)')
                       /\ ~(Has(probeOut', n) /\ Parked(n)')
                       /\ ParkedOnce(n)'
  BY DEF HeldOnce, Has
<1>3. CASE s = NoNode \/ Busy
  <2>1. CASE held # NoCtx /\ ~TaskBusy
    <3>1. Run("drop", NoNode, held) /\ probeOut' = out /\ ours' = ours \ Owned(freed)
      BY <1>3, <2>1 DEF ProbeCurrentDrive
    <3>2. (Parked(n)' <=> Parked(n) \/ Has(held, n)) /\ ParkedOnce(n)'
      BY <3>1, RunHeld
    <3>3. QED
      BY <1>1, <1>a, <3>1, <3>2
  <2>2. CASE ~(held # NoCtx /\ ~TaskBusy)
    <3>1. UNCHANGED running /\ probeOut' = out /\ ours' = ours \ Owned(freed \cup {held})
      BY <1>3, <2>2 DEF ProbeCurrentDrive
    <3>2. (Parked(n)' <=> Parked(n)) /\ (ParkedOnce(n)' <=> ParkedOnce(n))
      BY <3>1 DEF Parked, ParkedOnce, Has
    <3>3. QED
      BY <1>1, <1>2, <1>a, <3>1, <3>2
  <2>3. QED
    BY <2>1, <2>2
<1>4. CASE ~(s = NoNode \/ Busy)
  <2>1. /\ Run("probe", s, held) /\ probeOut' = NoCtx
        /\ ours' = ours \ Owned(freed \cup {out})
    BY <1>4 DEF ProbeCurrentDrive
  <2>2. (Parked(n)' <=> Parked(n) \/ Has(held, n)) /\ ParkedOnce(n)'
    BY <2>1, RunHeld
  <2>3. QED
    BY <1>1, <1>2, <1>a, <2>1, <2>2
<1>5. QED
  BY <1>3, <1>4

LEMMA HeldFrame ==
  ASSUME NEW n, HeldOnce(n), UNCHANGED <<bootCtx, probeOut, ours, running>>
  PROVE  HeldOnce(n)'
  BY DEF HeldOnce, Parked, ParkedOnce, Has

(* A job that is handed nothing changes nothing.                            *)
LEMMA EmptyRunHeld ==
  ASSUME running \subseteq Job, NEW n, NEW kind, NEW node, HeldOnce(n),
         Run(kind, node, NoCtx), UNCHANGED <<bootCtx, probeOut, ours>>
  PROVE  HeldOnce(n)'
<1>1. (Parked(n)' <=> Parked(n)) /\ ParkedOnce(n)'
  BY RunHeld, NoneHeld DEF HeldOnce
<1>2. QED
  BY <1>1 DEF HeldOnce, Has

LEMMA ScanHeld ==
  ASSUME running \subseteq Job, NEW n, NEW m, HeldOnce(n),
         RefreshDrives(m), UNCHANGED <<bootCtx, probeOut, ours>>
  PROVE  HeldOnce(n)'
<1>1. Idle \/ Run("scan", NoNode, NoCtx)
  BY DEF RefreshDrives
<1>2. QED
  BY <1>1, EmptyRunHeld, HeldFrame DEF Idle, jobVars

LEMMA HeldInit == Init => IHeld
<1> SUFFICES ASSUME Init, NEW n \in Node PROVE HeldOnce(n)
  BY DEF IHeld
<1>1. ~Has(NoCtx, n)
  BY NoneHeld
<1>2. QED
  BY <1>1 DEF Init, HeldOnce, Parked, ParkedOnce

LEMMA HeldWorker == TypeOK /\ IHeld /\ Worker => IHeld'
<1> SUFFICES ASSUME TypeOK, IHeld, NEW j \in running, ReleaseStale(j) \/ WorkerReturns(j), NEW n \in Node
             PROVE  HeldOnce(n)'
  BY DEF Worker, IHeld
<1>1. HeldOnce(n) /\ j \in Job /\ ~Has(NoCtx, n)
  BY NoneHeld DEF IHeld, TypeOK, JobOK
<1>2. CASE ReleaseStale(j)
  <2> DEFINE i == [j EXCEPT !.stale = NoCtx]
  <2>1. i.stale = NoCtx
    BY <1>1, JobParts
  <2>2. /\ running' = (running \ {j}) \cup {i}
        /\ UNCHANGED <<bootCtx, probeOut>>
    BY <1>2 DEF ReleaseStale
  <2> HIDE DEF i
  <2>3. n \in ours' <=> n \in ours /\ ~Has(j.stale, n)
    BY <1>2, OwnedIs DEF ReleaseStale
  <2>4. Parked(n)' <=> Parked(n) /\ ~Has(j.stale, n)
    BY <1>1, <2>1, <2>2 DEF Parked, HeldOnce, ParkedOnce, Has
  <2>5. ParkedOnce(n)'
    BY <1>1, <2>1, <2>2 DEF HeldOnce, ParkedOnce, Has
  <2>6. Has(j.stale, n) => Parked(n)
    BY DEF Parked
  <2>7. QED
    BY <1>1, <2>2, <2>3, <2>4, <2>5, <2>6 DEF HeldOnce, Has
<1>3. CASE WorkerReturns(j)
  <2>1. (Parked(n)' <=> Parked(n)) /\ ParkedOnce(n)' /\ bootCtx' = bootCtx
    BY <1>1, <1>3 DEF WorkerReturns, Parked, ParkedOnce, HeldOnce, Has
  <2>2. CASE UNCHANGED <<probeOut, ours>>
    BY <1>1, <2>1, <2>2 DEF HeldOnce, Has
  <2>3. CASE j.kind = "probe" /\ MountBoot(j.node)
    <3>1. PICK m \in {"own", "borrow"}, k \in BOOLEAN :
             /\ m = "own" => j.node \notin ours
             /\ probeOut' = [node |-> j.node, mount |-> m, k2 |-> k]
             /\ ours' = (ours \ Owned({probeOut})) \cup (IF m = "own" THEN {j.node} ELSE {})
      BY <2>3 DEF MountBoot
    <3>2. Has(probeOut', n) <=> m = "own" /\ j.node = n
      BY <3>1 DEF Has
    <3>3. n \in ours' <=> (n \in ours /\ ~Has(probeOut, n)) \/ (m = "own" /\ j.node = n)
      BY <3>1, OwnedIs
    <3>4. HeldOnce(n)' <=> /\ n \in ours' <=> Has(bootCtx, n) \/ Has(probeOut', n) \/ Parked(n)
                           /\ ~(Has(bootCtx, n) /\ Has(probeOut', n))
                           /\ ~(Has(bootCtx, n) /\ Parked(n))
                           /\ ~(Has(probeOut', n) /\ Parked(n))
      BY <2>1 DEF HeldOnce, Has
    <3>5. QED
      BY <1>1, <3>1, <3>2, <3>3, <3>4 DEF HeldOnce
  <2>4. QED
    BY <1>3, <2>2, <2>3 DEF WorkerReturns
<1>4. QED
  BY <1>2, <1>3

LEMMA HeldHandle == TypeOK /\ IHeld /\ Handle => IHeld'
<1> SUFFICES ASSUME TypeOK, IHeld, Handle, NEW n \in Node PROVE HeldOnce(n)'
  BY DEF IHeld
<1>1. HeldOnce(n) /\ running \subseteq Job
  BY DEF IHeld, TypeOK, JobOK
<1>2. ~Has(Moved(probeOut), n) /\ n \notin Owned({}) /\ (n \in Owned({bootCtx}) <=> Has(bootCtx, n))
  BY NoneHeld, OwnedIs
<1>3. CASE ScanDone
  <2>1. UNCHANGED <<jobVars, cardVars>> \/ ProbeCurrentDrive(sel', bootCtx, probeOut, {}, probing)
    BY <1>3 DEF ScanDone
  <2>2. QED
    BY <1>1, <1>2, <2>1, HeldFrame, ProbeHeld DEF HeldOnce, jobVars, cardVars
<1>4. CASE ProbeOfAnother
  <2>1. ProbeCurrentDrive(sel, probeOut, Moved(probeOut), {bootCtx}, FALSE)
    BY <1>4 DEF ProbeOfAnother
  <2>2. QED
    BY <1>1, <1>2, <2>1, ProbeHeld DEF HeldOnce
<1>5. CASE ProbeDone
  <2>1. /\ bootCtx' = probeOut /\ probeOut' = Moved(probeOut)
        /\ ours' = ours \ Owned({bootCtx}) /\ running' = running
    BY <1>5 DEF ProbeDone, jobVars
  <2>2. (Parked(n)' <=> Parked(n)) /\ (ParkedOnce(n)' <=> ParkedOnce(n))
    BY <2>1 DEF Parked, ParkedOnce, Has
  <2>3. HeldOnce(n)' <=> /\ n \in ours' <=> Has(probeOut, n) \/ Has(Moved(probeOut), n) \/ Parked(n)
                         /\ ~(Has(probeOut, n) /\ Has(Moved(probeOut), n))
                         /\ ~(Has(probeOut, n) /\ Parked(n))
                         /\ ~(Has(Moved(probeOut), n) /\ Parked(n))
                         /\ ParkedOnce(n)
    BY <2>1, <2>2 DEF HeldOnce, Has
  <2>4. QED
    BY <1>1, <1>2, <2>1, <2>3 DEF HeldOnce
<1>6. CASE ListDone \/ FetchDone \/ PrepDone
  BY <1>1, <1>6, HeldFrame DEF ListDone, FetchDone, PrepDone, jobVars, cardVars
<1>7. QED
  BY <1>3, <1>4, <1>5, <1>6 DEF Handle

LEMMA HeldSignals == TypeOK /\ IHeld /\ (DeliverFinished \/ HelperDone \/ TimerFires) => IHeld'
<1> SUFFICES ASSUME TypeOK, IHeld, DeliverFinished \/ HelperDone \/ TimerFires, NEW n \in Node PROVE HeldOnce(n)'
  BY DEF IHeld
<1>1. HeldOnce(n) /\ running \subseteq Job
  BY DEF IHeld, TypeOK, JobOK
<1>2. UNCHANGED <<bootCtx, probeOut, ours>>
  BY DEF DeliverFinished, HelperDone, TimerFires, cardVars
<1>3. UNCHANGED running \/ \E m : RefreshDrives(m)
  BY DEF DeliverFinished, HelperDone, TimerFires, Idle, jobVars
<1>4. QED
  BY <1>1, <1>2, <1>3, HeldFrame, ScanHeld

LEMMA HeldInput == TypeOK /\ IHeld /\ (Input \/ QueuedClose) => IHeld'
<1> SUFFICES ASSUME TypeOK, IHeld, Input \/ QueuedClose, NEW n \in Node PROVE HeldOnce(n)'
  BY DEF IHeld
<1>1. HeldOnce(n) /\ running \subseteq Job
  BY DEF IHeld, TypeOK, JobOK
<1>2. CASE Rescan
  BY <1>1, <1>2, ScanHeld DEF Rescan, cardVars
<1>3. CASE SelectDrive
  <2>1. ProbeCurrentDrive(sel', bootCtx, probeOut, {}, probing) /\ n \notin Owned({})
    BY <1>3, OwnedIs DEF SelectDrive
  <2>2. QED
    BY <1>1, <2>1, ProbeHeld DEF HeldOnce
<1>4. CASE PickImage \/ StartWrite \/ Configure \/ CancelButton \/ Dismiss
  BY <1>1, <1>4, HeldFrame DEF PickImage, StartWrite, Configure, CancelButton, Dismiss, jobVars, cardVars
<1>5. CASE ChooseRelease \/ PickerDone
  <2>1. UNCHANGED <<bootCtx, probeOut, ours>>
    BY <1>5 DEF ChooseRelease, PickerDone, cardVars
  <2>2. Idle \/ Run("list", NoNode, NoCtx) \/ Run("fetch", NoNode, NoCtx)
    BY <1>5 DEF ChooseRelease, PickerDone
  <2>3. QED
    BY <1>1, <2>1, <2>2, EmptyRunHeld, HeldFrame DEF Idle, jobVars
<1>6. CASE Confirm
  <2>1. UNCHANGED <<probeOut, ours>>
    BY <1>6 DEF Confirm
  <2>2. CASE bootCtx' = bootCtx /\ Idle
    BY <1>1, <2>1, <2>2, HeldFrame DEF Idle, jobVars
  <2>3. ASSUME NEW m, Run("prep", m, bootCtx), bootCtx' = NoCtx
        PROVE  HeldOnce(n)'
    <3>1. (Parked(n)' <=> Parked(n) \/ Has(bootCtx, n)) /\ ParkedOnce(n)'
      BY <1>1, <2>3, RunHeld DEF HeldOnce
    <3>2. ~Has(bootCtx', n) /\ (Has(probeOut', n) <=> Has(probeOut, n))
      BY <2>1, <2>3, NoneHeld
    <3>3. HeldOnce(n)' <=> /\ n \in ours' <=> Has(bootCtx', n) \/ Has(probeOut', n) \/ Parked(n)'
                           /\ ~(Has(bootCtx', n) /\ Has(probeOut', n))
                           /\ ~(Has(bootCtx', n) /\ Parked(n)')
                           /\ ~(Has(probeOut', n) /\ Parked(n)')
                           /\ ParkedOnce(n)'
      BY DEF HeldOnce, Has
    <3>4. QED
      BY <1>1, <2>1, <3>1, <3>2, <3>3 DEF HeldOnce
  <2>4. QED
    BY <1>6, <2>2, <2>3 DEF Confirm
<1>7. CASE CloseWindow \/ AnswerAsk \/ QueuedClose
  <2>1. running' = running
    BY <1>7 DEF CloseWindow, AnswerAsk, QueuedClose
  <2>2. UNCHANGED <<bootCtx, probeOut, ours>> \/ Shut
    BY <1>7 DEF CloseWindow, AnswerAsk, QueuedClose, CancelForClose
  <2>3. CASE Shut
    <3>1. bootCtx' = NoCtx /\ probeOut' = NoCtx /\ ~Has(NoCtx, n)
      BY <2>3, NoneHeld DEF Shut
    <3>2. n \in ours' <=> n \in ours /\ ~Has(bootCtx, n) /\ ~Has(probeOut, n)
      BY <2>3, OwnedIs DEF Shut
    <3>3. (Parked(n)' <=> Parked(n)) /\ (ParkedOnce(n)' <=> ParkedOnce(n))
      BY <2>1 DEF Parked, ParkedOnce, Has
    <3>4. HeldOnce(n)' <=> (n \in ours' <=> Parked(n)) /\ ParkedOnce(n)
      BY <3>1, <3>3 DEF HeldOnce, Has
    <3>5. QED
      BY <1>1, <3>2, <3>4 DEF HeldOnce
  <2>4. QED
    BY <1>1, <2>1, <2>2, <2>3, HeldFrame
<1>8. QED
  BY <1>2, <1>3, <1>4, <1>5, <1>6, <1>7 DEF Input

LEMMA HeldNext == TypeOK /\ IHeld /\ [Next]_vars => IHeld'
<1> SUFFICES ASSUME TypeOK, IHeld, [Next]_vars PROVE IHeld'
  OBVIOUS
<1>1. CASE UNCHANGED vars
  BY <1>1, HeldFrame DEF IHeld, vars
<1>2. CASE Next
  BY <1>2, HeldWorker, HeldHandle, HeldSignals, HeldInput DEF Next, System
<1>3. QED
  BY <1>1, <1>2

(* Counting the holders of a card's partition.                              *)
LEMMA HeldCount == TypeOK /\ IHeld => EveryMountHeldOnce
<1> SUFFICES ASSUME TypeOK, IHeld, NEW n \in Node
             PROVE  Holders(n) = (IF n \in ours THEN 1 ELSE 0)
  BY DEF EveryMountHeldOnce
<1> DEFINE S == {j \in running : n \in Owned({j.stale})}
           b == IF n \in Owned({bootCtx}) THEN 1 ELSE 0
           p == IF n \in Owned({probeOut}) THEN 1 ELSE 0
<1>1. /\ HeldOnce(n)
      /\ n \in Owned({bootCtx}) <=> Has(bootCtx, n)
      /\ n \in Owned({probeOut}) <=> Has(probeOut, n)
      /\ \A j \in running : n \in Owned({j.stale}) <=> Has(j.stale, n)
  BY OwnedIs DEF IHeld
<1>2. Holders(n) = Cardinality(S) + b + p
  BY DEF Holders
<1>3. CASE Parked(n)
  <2>1. PICK j \in running : Has(j.stale, n)
    BY <1>3 DEF Parked
  <2>2. S = {j}
    BY <1>1, <2>1 DEF HeldOnce, ParkedOnce
  <2>3. Cardinality(S) = 1
    BY <2>2, FS_Singleton
  <2> HIDE DEF S
  <2>4. b = 0 /\ p = 0 /\ n \in ours
    BY <1>1, <1>3 DEF HeldOnce
  <2>5. QED
    BY <1>2, <2>3, <2>4
<1>4. CASE ~Parked(n)
  <2>1. S = {}
    BY <1>1, <1>4 DEF Parked
  <2>2. Cardinality(S) = 0
    BY <2>1, FS_EmptySet
  <2> HIDE DEF S
  <2>3. b + p = (IF n \in ours THEN 1 ELSE 0)
    BY <1>1, <1>4 DEF HeldOnce
  <2>4. b \in 0..1 /\ p \in 0..1
    OBVIOUS
  <2> HIDE DEF b, p
  <2>5. QED
    BY <1>2, <2>2, <2>3, <2>4
<1>5. QED
  BY <1>3, <1>4

(* Each BOOT partition this process mounted is held by exactly one live     *)
(* handle, in whatever order scans, probes, selections, writes and the      *)
(* close overlapped: none is forgotten, none is unmounted twice.            *)
THEOREM MountsHeldOnce == Spec => []EveryMountHeldOnce
<1>1. Spec => [](TypeOK /\ IHeld)
  <2>1. Init => TypeOK /\ IHeld
    BY TypeInit, HeldInit
  <2>2. (TypeOK /\ IHeld) /\ [Next]_vars => (TypeOK /\ IHeld)'
    BY TypeNext, HeldNext
  <2>3. QED
    BY <2>1, <2>2, PTL DEF Spec
<1>2. TypeOK /\ IHeld => EveryMountHeldOnce
  BY HeldCount
<1>3. QED
  BY <1>1, <1>2, PTL

-----------------------------------------------------------------------------
(* The controls.  They are locked only while a job whose handler unlocks    *)
(* them is awaited or the helper runs, and a handler that waits in the      *)
(* signal's list has a worker, or a signal on its way, that will call it.   *)
Among(s, K) == \E i \in DOMAIN s : s[i].kind \in K
Unlocking   == {"scan", "list", "fetch", "prep"}
Awaited     == Among(handlers, Unlocking) \/ Among(firing, Unlocking) \/ Among(outer, Unlocking)
ILocked     == ui.busy => helper.on \/ Awaited
IAwaited    == handlers # <<>> => TaskBusy \/ pending

LEMMA AmongParts ==
  ASSUME NEW s \in Seq(Handler), NEW K
  PROVE  /\ \A h \in Handler : /\ Among(s, K) => Among(Append(s, h), K)
                               /\ h.kind \in K => Among(Append(s, h), K)
         /\ s # <<>> /\ Among(s, K) => Head(s).kind \in K \/ Among(Tail(s), K)
         /\ s = <<>> => ~Among(s, K)
<1>1. ASSUME NEW h \in Handler
      PROVE  (Among(s, K) => Among(Append(s, h), K)) /\ (h.kind \in K => Among(Append(s, h), K))
  <2>1. /\ DOMAIN s = 1..Len(s) /\ Len(s) \in Nat
        /\ DOMAIN Append(s, h) = 1..Len(s) + 1
        /\ \A i \in 1..Len(s) : Append(s, h)[i] = s[i]
        /\ Append(s, h)[Len(s) + 1] = h
    <3>1. Len(Append(s, h)) = Len(s) + 1 /\ Append(s, h) \in Seq(Handler)
      BY AppendProperties
    <3>2. QED
      BY <3>1, AppendProperties, LenProperties
  <2>2. QED
    BY <2>1 DEF Among
<1>2. ASSUME s # <<>>, NEW i \in DOMAIN s, s[i].kind \in K
      PROVE  Head(s).kind \in K \/ Among(Tail(s), K)
  <2>1. /\ DOMAIN s = 1..Len(s) /\ Len(s) \in Nat /\ Head(s) = s[1] /\ Tail(s) \in Seq(Handler)
        /\ Len(Tail(s)) = Len(s) - 1 /\ \A k \in 1..Len(Tail(s)) : Tail(s)[k] = s[k + 1]
    BY <1>2, HeadTailProperties, LenProperties
  <2>2. CASE i = 1
    BY <1>2, <2>1, <2>2
  <2>3. CASE i # 1
    <3>1. i - 1 \in 1..Len(Tail(s)) /\ Tail(s)[i - 1] = s[i] /\ DOMAIN Tail(s) = 1..Len(Tail(s))
      BY <1>2, <2>1, <2>3, LenProperties
    <3>2. QED
      BY <1>2, <3>1 DEF Among
  <2>4. QED
    BY <2>2, <2>3
<1>3. s = <<>> => ~Among(s, K)
  BY DEF Among
<1>4. QED
  BY <1>1, <1>2, <1>3 DEF Among

(* A job that is started is watched: its signal will come.                  *)
LEMMA RunAwaited ==
  ASSUME NEW kind, NEW node, NEW stale, Run(kind, node, stale)
  PROVE  TaskBusy'
<1> DEFINE new == [kind |-> kind, node |-> node, stale |-> stale, watched |-> TRUE]
<1>1. new \in running' /\ new.watched
  BY DEF Run
<1>2. QED
  BY <1>1 DEF TaskBusy

LEMMA ConnectAwaited ==
  ASSUME JobOK, NEW k \in {"scan", "probe", "list", "fetch", "prep"}, NEW n \in Node \cup {NoNode},
         Connect(k, n)
  PROVE  /\ k \in Unlocking => Among(handlers', Unlocking)
         /\ Among(handlers, Unlocking) => Among(handlers', Unlocking)
<1> DEFINE h == [kind |-> k, node |-> n]
<1>1. h \in Handler /\ h.kind = k /\ handlers' = Append(handlers, h) /\ handlers \in Seq(Handler)
  BY DEF Handler, Connect, JobOK
<1> HIDE DEF h
<1>2. /\ Among(handlers, Unlocking) => Among(Append(handlers, h), Unlocking)
      /\ h.kind \in Unlocking => Among(Append(handlers, h), Unlocking)
  BY <1>1, AmongParts
<1>3. QED
  BY <1>1, <1>2

LEMMA ScanAwaited ==
  ASSUME JobOK, NEW n \in Node \cup {NoNode}, RefreshDrives(n), IAwaited
  PROVE  /\ IAwaited'
         /\ (UNCHANGED <<ui, handlers>> /\ (TaskBusy \/ helper'.on)) \/ Among(handlers', Unlocking)
<1>1. CASE Idle
  BY <1>1, RunAwaited DEF RefreshDrives, Idle, jobVars, IAwaited, TaskBusy
<1>2. CASE Connect("scan", n) /\ Run("scan", NoNode, NoCtx)
  BY <1>2, RunAwaited, ConnectAwaited DEF IAwaited, Unlocking
<1>3. QED
  <2>1. CASE TaskBusy \/ helper'.on
    BY <1>1, <2>1 DEF RefreshDrives, Idle, jobVars
  <2>2. CASE ~(TaskBusy \/ helper'.on)
    BY <1>2, <2>2 DEF RefreshDrives
  <2>3. QED
    BY <2>1, <2>2

LEMMA ProbeAwaited ==
  ASSUME JobOK, NEW s \in Node \cup {NoNode}, NEW held, NEW out, NEW freed, NEW prb,
         ProbeCurrentDrive(s, held, out, freed, prb), IAwaited
  PROVE  IAwaited' /\ (Among(handlers, Unlocking) => Among(handlers', Unlocking))
<1>1. CASE s = NoNode \/ Busy
  <2>1. handlers' = handlers
    BY <1>1 DEF ProbeCurrentDrive
  <2>2. Run("drop", NoNode, held) \/ UNCHANGED <<running, pending>>
    BY <1>1 DEF ProbeCurrentDrive
  <2>3. QED
    BY <2>1, <2>2, RunAwaited DEF IAwaited, TaskBusy
<1>2. CASE ~(s = NoNode \/ Busy)
  <2>1. Connect("probe", s) /\ Run("probe", s, held)
    BY <1>2 DEF ProbeCurrentDrive
  <2>2. QED
    BY <2>1, RunAwaited, ConnectAwaited DEF IAwaited
<1>3. QED
  BY <1>1, <1>2

(* A handler that leaves the controls as they were is no unlocking one.     *)
LEMMA LockedTail ==
  ASSUME TypeOK, ILocked, firing # <<>>, Head(firing).kind \notin Unlocking,
         Next1, ui'.busy = ui.busy, helper' = helper, outer' = outer,
         Among(handlers, Unlocking) => Among(handlers', Unlocking)
  PROVE  ILocked'
<1>1. Among(firing, Unlocking) => Among(firing', Unlocking)
  <2>1. firing \in Seq(Handler) /\ firing' = Tail(firing)
    BY DEF TypeOK, WindowOK, Next1
  <2>2. QED
    BY <2>1, AmongParts
<1>2. Awaited' <=> Among(handlers', Unlocking) \/ Among(firing', Unlocking) \/ Among(outer', Unlocking)
  BY DEF Awaited, Unlocking, Among
<1>3. QED
  BY <1>1, <1>2 DEF ILocked, Awaited

LEMMA LockedInit == Init => ILocked /\ IAwaited
<1> SUFFICES ASSUME Init PROVE ILocked /\ IAwaited
  OBVIOUS
<1>1. 1 \in DOMAIN handlers /\ handlers[1].kind = "scan"
  BY DEF Init
<1>2. TaskBusy
  BY DEF Init, TaskBusy
<1>3. QED
  BY <1>1, <1>2 DEF ILocked, IAwaited, Awaited, Among, Unlocking

(* Steps that touch neither the controls nor what they wait for.            *)
LEMMA LockedFrame ==
  /\ ILocked /\ UNCHANGED <<ui, handlers, firing, outer, helper>> => ILocked'
  /\ IAwaited /\ UNCHANGED <<running, handlers, pending>> => IAwaited'
  BY DEF ILocked, IAwaited, Awaited, Among, Unlocking, TaskBusy

LEMMA LockedWorker == TypeOK /\ ILocked /\ IAwaited /\ Worker => ILocked' /\ IAwaited'
<1> SUFFICES ASSUME TypeOK, ILocked, IAwaited, NEW j \in running, ReleaseStale(j) \/ WorkerReturns(j)
             PROVE  ILocked' /\ IAwaited'
  BY DEF Worker
<1>1. UNCHANGED <<ui, handlers, firing, outer, helper>>
  BY DEF ReleaseStale, WorkerReturns, dialogVars, writeVars
<1>2. TaskBusy => TaskBusy' \/ pending'
  <2>1. CASE ReleaseStale(j)
    <3> DEFINE i == [j EXCEPT !.stale = NoCtx]
    <3>1. i.watched = j.watched /\ running' = (running \ {j}) \cup {i}
      BY <2>1, JobParts DEF ReleaseStale, TypeOK, JobOK
    <3> HIDE DEF i
    <3>2. QED
      BY <3>1 DEF TaskBusy
  <2>2. CASE WorkerReturns(j)
    BY <2>2 DEF WorkerReturns, TaskBusy
  <2>3. QED
    BY <2>1, <2>2
<1>3. pending => pending'
  BY DEF ReleaseStale, WorkerReturns
<1>4. QED
  BY <1>1, <1>2, <1>3, LockedFrame DEF IAwaited

LEMMA LockedHandle == TypeOK /\ ILocked /\ IAwaited /\ Handle => ILocked' /\ IAwaited'
<1> SUFFICES ASSUME TypeOK, ILocked, IAwaited, Handle PROVE ILocked' /\ IAwaited'
  OBVIOUS
<1>1. JobOK /\ ui.busy \in BOOLEAN /\ sel \in Node \cup {NoNode}
  BY DEF TypeOK, WindowOK
<1>2. CASE ScanDone
  <2>1. ILocked'
    BY <1>2, ShownType DEF ScanDone, ILocked
  <2>2. UNCHANGED jobVars \/ (sel' \in Node \cup {NoNode} /\ ProbeCurrentDrive(sel', bootCtx, probeOut, {}, probing))
    <3>1. Head(firing).node \in Node \cup {NoNode}
      BY <1>2, FirstFiring DEF ScanDone, Call, TypeOK
    <3>2. QED
      BY <1>2, <3>1 DEF ScanDone
  <2>3. IAwaited'
    BY <1>1, <2>2, ProbeAwaited, LockedFrame DEF jobVars
  <2>4. QED
    BY <2>1, <2>3
<1>3. CASE ProbeOfAnother
  <2>1. IAwaited' /\ (Among(handlers, Unlocking) => Among(handlers', Unlocking))
    BY <1>1, <1>3, ProbeAwaited DEF ProbeOfAnother
  <2>2. /\ firing # <<>> /\ Head(firing).kind \notin Unlocking /\ Next1
        /\ ui'.busy = ui.busy /\ helper' = helper /\ outer' = outer
    BY <1>1, <1>3, ShownType DEF ProbeOfAnother, Call, Unlocking, writeVars, dialogVars
  <2>3. QED
    BY <2>1, <2>2, LockedTail
<1>4. CASE ProbeDone
  <2>1. UNCHANGED <<running, handlers, pending>>
    BY <1>4 DEF ProbeDone, jobVars
  <2>2. /\ firing # <<>> /\ Head(firing).kind \notin Unlocking /\ Next1
        /\ ui'.busy = ui.busy /\ helper' = helper /\ outer' = outer
    BY <1>1, <1>4, ShownType DEF ProbeDone, Call, Unlocking, writeVars, dialogVars
  <2>3. QED
    BY <2>1, <2>2, LockedTail, LockedFrame
<1>5. CASE ListDone \/ FetchDone
  <2>1. ILocked'
    BY <1>5, ShownType DEF ListDone, FetchDone, ILocked
  <2>2. QED
    BY <1>5, <2>1, LockedFrame DEF ListDone, FetchDone, jobVars
<1>6. CASE PrepDone
  <2>1. ApplyState(FALSE) \/ helper' = [on |-> TRUE, node |-> Head(firing).node, asShown |-> helper.asShown]
    BY <1>6, Zenon DEF PrepDone, RunFlash
  <2>4. ui'.busy => helper'.on
    <3>1. CASE ApplyState(FALSE)
      BY <3>1, ShownType
    <3>2. CASE helper' = [on |-> TRUE, node |-> Head(firing).node, asShown |-> helper.asShown]
      BY <3>2
    <3>3. QED
      BY <2>1, <3>1, <3>2
  <2>2. ILocked'
    BY <2>4 DEF ILocked
  <2>3. QED
    BY <1>6, <2>2, LockedFrame DEF PrepDone, jobVars
<1>7. QED
  BY <1>2, <1>3, <1>4, <1>5, <1>6 DEF Handle

LEMMA LockedSignals ==
  TypeOK /\ ILocked /\ IAwaited /\ (DeliverFinished \/ HelperDone \/ TimerFires) => ILocked' /\ IAwaited'
<1> SUFFICES ASSUME TypeOK, ILocked, IAwaited, DeliverFinished \/ HelperDone \/ TimerFires
             PROVE  ILocked' /\ IAwaited'
  OBVIOUS
<1>1. JobOK /\ hDone \in Node \cup {NoNode} /\ timers \subseteq Node \cup {NoNode}
  BY DEF TypeOK, WriteOK, RetryOK
<1>2. CASE DeliverFinished
  <2>1. /\ UNCHANGED <<ui, helper, outer>> /\ firing = <<>>
        /\ firing' = handlers /\ handlers' = <<>>
    BY <1>2 DEF DeliverFinished, Loop, dialogVars, writeVars
  <2>2. QED
    BY <2>1 DEF ILocked, IAwaited, Awaited, Among, Unlocking
<1>3. CASE HelperDone
  <2>1. CASE Idle /\ ApplyState(FALSE)
    BY <2>1, ShownType, LockedFrame DEF ILocked, Idle, jobVars
  <2>2. CASE ~TaskBusy /\ RefreshDrives(hDone)
    <3>1. ~helper'.on
      BY <1>3 DEF HelperDone, NoWrite
    <3>2. IAwaited' /\ Among(handlers', Unlocking)
      BY <1>1, <2>2, <3>1, ScanAwaited
    <3>3. QED
      BY <3>2 DEF ILocked, Awaited, Among, Unlocking
  <2>3. QED
    BY <1>3, <2>1, <2>2 DEF HelperDone
<1>4. CASE TimerFires
  <2>1. PICK n \in timers : RefreshDrives(n)
    BY <1>4 DEF TimerFires
  <2>2. UNCHANGED <<firing, outer, helper>>
    BY <1>4 DEF TimerFires, dialogVars
  <2>3. IAwaited' /\ (UNCHANGED <<ui, handlers>> \/ Among(handlers', Unlocking))
    BY <1>1, <2>1, ScanAwaited
  <2>4. QED
    BY <2>2, <2>3, LockedFrame DEF ILocked, Awaited, Among, Unlocking
<1>5. QED
  BY <1>2, <1>3, <1>4

LEMMA LockedInput == TypeOK /\ ILocked /\ IAwaited /\ (Input \/ QueuedClose) => ILocked' /\ IAwaited'
<1> SUFFICES ASSUME TypeOK, ILocked, IAwaited, Input \/ QueuedClose PROVE ILocked' /\ IAwaited'
  OBVIOUS
<1>1. JobOK /\ ui.busy \in BOOLEAN /\ NoNode \in Node \cup {NoNode}
  BY DEF TypeOK, WindowOK
<1>2. CASE Rescan
  <2>1. IAwaited' /\ (UNCHANGED <<ui, handlers>> \/ Among(handlers', Unlocking))
    BY <1>1, <1>2, ScanAwaited DEF Rescan
  <2>2. UNCHANGED <<firing, outer, helper>>
    BY <1>2 DEF Rescan, dialogVars
  <2>3. QED
    BY <2>1, <2>2, LockedFrame DEF ILocked, Awaited, Among, Unlocking
<1>3. CASE SelectDrive
  <2>1. IAwaited' /\ (Among(handlers, Unlocking) => Among(handlers', Unlocking))
    BY <1>1, <1>3, ProbeAwaited DEF SelectDrive
  <2>2. UNCHANGED <<firing, outer, helper>> /\ ui'.busy = ui.busy
    BY <1>1, <1>3, ShownType DEF SelectDrive, dialogVars, writeVars
  <2>3. QED
    BY <2>1, <2>2 DEF ILocked, Awaited, Among, Unlocking
<1>4. CASE PickImage
  <2>1. UNCHANGED <<firing, outer, helper, handlers, running, pending>> /\ ui'.busy = ui.busy
    BY <1>1, <1>4, ShownType DEF PickImage, dialogVars, writeVars, jobVars
  <2>2. QED
    BY <2>1, LockedFrame DEF ILocked, Awaited, Among, Unlocking
<1>5. CASE ChooseRelease
  <2>1. TaskBusy' /\ Among(handlers', Unlocking)
    BY <1>1, <1>5, RunAwaited, ConnectAwaited DEF ChooseRelease, Unlocking
  <2>2. QED
    BY <2>1 DEF ILocked, IAwaited, Awaited, Among, Unlocking
<1>6. CASE PickerDone
  <2>1. firing = <<>> /\ firing' = outer /\ outer' = <<>> /\ UNCHANGED helper
    BY <1>6 DEF PickerDone, Answered, Loop, writeVars
  <2>2. CASE Idle /\ UNCHANGED ui
    BY <2>1, <2>2 DEF ILocked, IAwaited, Awaited, Among, Unlocking, Idle, jobVars, TaskBusy
  <2>3. CASE Connect("fetch", NoNode) /\ Run("fetch", NoNode, NoCtx)
    <3>1. TaskBusy' /\ Among(handlers', Unlocking)
      BY <1>1, <2>3, RunAwaited, ConnectAwaited DEF Unlocking
    <3>2. QED
      BY <3>1 DEF ILocked, IAwaited, Awaited, Among, Unlocking
  <2>4. QED
    BY <1>6, <2>2, <2>3 DEF PickerDone
<1>7. CASE Confirm
  <2>1. PICK n : /\ n \in (IF modal.dangling THEN Node ELSE {modal.node})
                 /\ IF bootCtx = NoCtx
                    THEN RunFlash(n, n = modal.node) /\ Idle
                    ELSE Connect("prep", n) /\ Run("prep", n, bootCtx)
    BY <1>7 DEF Confirm
  <2>2. n \in Node \cup {NoNode}
    BY <2>1 DEF TypeOK, DialogOK
  <2>3. CASE bootCtx = NoCtx
    <3>1. helper'.on /\ UNCHANGED <<running, handlers, pending>>
      BY <2>1, <2>3 DEF RunFlash, Idle, jobVars
    <3>2. QED
      BY <3>1, LockedFrame DEF ILocked
  <2>4. CASE bootCtx # NoCtx
    <3>1. TaskBusy' /\ Among(handlers', Unlocking)
      BY <1>1, <2>1, <2>2, <2>4, RunAwaited, ConnectAwaited DEF Unlocking
    <3>2. QED
      BY <3>1 DEF ILocked, IAwaited, Awaited, Among, Unlocking
  <2>5. QED
    BY <2>3, <2>4
<1>8. CASE StartWrite \/ Configure \/ CancelButton \/ CloseWindow \/ Dismiss \/ AnswerAsk \/ QueuedClose
  <2>1. UNCHANGED <<ui, handlers, firing, outer, helper, running, pending>>
    BY <1>8 DEF StartWrite, Configure, CancelButton, CloseWindow, Dismiss, AnswerAsk, QueuedClose,
               jobVars, dialogVars, writeVars
  <2>2. QED
    BY <2>1, LockedFrame
<1>9. QED
  BY <1>2, <1>3, <1>4, <1>5, <1>6, <1>7, <1>8 DEF Input

LEMMA LockedNext == TypeOK /\ ILocked /\ IAwaited /\ [Next]_vars => ILocked' /\ IAwaited'
<1> SUFFICES ASSUME TypeOK, ILocked, IAwaited, [Next]_vars PROVE ILocked' /\ IAwaited'
  OBVIOUS
<1>1. CASE UNCHANGED vars
  BY <1>1, LockedFrame DEF vars
<1>2. CASE Next
  BY <1>2, LockedWorker, LockedHandle, LockedSignals, LockedInput DEF Next, System
<1>3. QED
  BY <1>1, <1>2

(* When nothing runs and nothing is to be delivered, the controls are       *)
(* usable, whatever overlapped or failed before: no path through the        *)
(* handlers leaves the progress row up.                                     *)
THEOREM ControlsUnlocked == Spec => []ControlsComeBack
<1>1. Spec => [](TypeOK /\ ILocked /\ IAwaited)
  <2>1. Init => TypeOK /\ ILocked /\ IAwaited
    BY TypeInit, LockedInit
  <2>2. (TypeOK /\ ILocked /\ IAwaited) /\ [Next]_vars => (TypeOK /\ ILocked /\ IAwaited)'
    BY TypeNext, LockedNext
  <2>3. QED
    BY <2>1, <2>2, PTL DEF Spec
<1>2. TypeOK /\ ILocked /\ IAwaited => ControlsComeBack
  <2>1. TypeOK /\ ILocked /\ IAwaited /\ ~Busy /\ ~pending /\ firing = <<>> /\ outer = <<>> => ~Awaited /\ ~helper.on
    BY AmongParts DEF IAwaited, Busy, Awaited, TypeOK, JobOK, WindowOK, DialogOK, Among
  <2>2. QED
    BY <2>1 DEF ControlsComeBack, ILocked
<1>3. QED
  BY <1>1, <1>2, PTL

-----------------------------------------------------------------------------
(* The order of events, while no job was started on top of another and no   *)
(* dialog opened with a retry, a job or a signal outstanding.  At most one  *)
(* handler is due: it waits for the worker that runs or the signal that is  *)
(* on its way, or is being called.                                          *)
One(s)   == \E h \in Handler : s = <<h>>
DueOf(k) == \E h \in Handler : h.kind = k /\ (handlers = <<h>> \/ firing = <<h>>)

IJob ==
  /\ \A j \in running : /\ running = {j} /\ j.watched
                        /\ j.kind = "drop" => handlers = <<>>
                        /\ j.kind # "drop" =>
                             \E h \in Handler : /\ handlers = <<h>> /\ h.kind = j.kind
                                                /\ j.kind # "scan" => h.node = j.node
  /\ running # {} => ~pending
  /\ handlers # <<>> => One(handlers) /\ (pending \/ running # {})
  /\ firing # <<>> => One(firing) /\ handlers = <<>> /\ running = {} /\ ~pending
  /\ running # {} \/ pending => firing = <<>>
  /\ outer = <<>>

\* A probe's result that still holds or borrows a mount has its handler due, and the
\* handler finds the result of its own card.
IProbe ==
  /\ probeOut.mount # "gone" => DueOf("probe")
  /\ \A h \in Handler : (handlers = <<h>> \/ firing = <<h>>) /\ h.kind = "probe"
                          => probeOut = NoCtx \/ probeOut.node = h.node

ISel == bootCtx # NoCtx => bootCtx.node = sel

\* A confirmation, a preparation and a write have the window for themselves.
IConfirm == modal.kind = "confirm" => Quiet /\ firing = <<>> /\ ~helper.on /\ ~modal.dangling
Alone    == timers = {} /\ bootCtx = NoCtx /\ helper.asShown /\ ui.busy /\ modal.kind \in {"none", "ask"}
IPrep    == DueOf("prep") => Alone /\ ~helper.on
IHelper  == helper.on => Alone /\ Quiet /\ firing = <<>>
IStop    == stopAsked => cancel /\ DueOf("prep")

IOrder == IJob /\ IProbe /\ ISel /\ IConfirm /\ IPrep /\ IHelper /\ IStop

LEMMA OneParts ==
  /\ \A g, h : /\ <<h>> # <<>> /\ (<<g>> = <<h>> => g = h)
               /\ Head(<<h>>) = h /\ Tail(<<h>>) = <<>> /\ Append(<<>>, h) = <<h>>
               /\ DOMAIN <<h>> = {1} /\ <<h>>[1] = h
  OBVIOUS

(* Disorder is never forgotten, and what starts in order starts alone.      *)
LEMMA OrderKept ==
  ASSUME TypeOK, [Next]_vars, Orderly'
  PROVE  Orderly
<1> DEFINE Kept == overlaps' = overlaps \/ \E more \in BOOLEAN : overlaps' = Count(more)
<1>1. \A k, n, c : Run(k, n, c) => Kept
  BY DEF Run
<1>2. \A n : RefreshDrives(n) => Kept
  BY <1>1 DEF RefreshDrives, Idle, jobVars
<1>3. \A s, held, out, freed, prb : ProbeCurrentDrive(s, held, out, freed, prb) => Kept
  BY <1>1 DEF ProbeCurrentDrive
<1>4. ASSUME System PROVE Kept
  <2>1. CASE Worker
    BY <2>1 DEF Worker, ReleaseStale, WorkerReturns
  <2>2. CASE ScanDone
    BY <1>3, <2>2 DEF ScanDone, jobVars
  <2>3. CASE ProbeOfAnother
    BY <1>3, <2>3 DEF ProbeOfAnother
  <2>4. CASE ProbeDone \/ ListDone \/ FetchDone \/ PrepDone
    BY <2>4 DEF ProbeDone, ListDone, FetchDone, PrepDone, jobVars
  <2>5. CASE DeliverFinished \/ QueuedClose
    BY <2>5 DEF DeliverFinished, QueuedClose
  <2>6. CASE HelperDone
    BY <1>2, <2>6 DEF HelperDone, Idle, jobVars
  <2>7. CASE TimerFires
    BY <1>2, <2>7 DEF TimerFires
  <2>8. QED
    BY <1>4, <2>1, <2>2, <2>3, <2>4, <2>5, <2>6, <2>7 DEF System, Handle
<1>5. ASSUME Input PROVE Kept
  <2>1. CASE Rescan
    BY <1>2, <2>1 DEF Rescan
  <2>2. CASE SelectDrive
    BY <1>3, <2>2 DEF SelectDrive
  <2>3. CASE ChooseRelease \/ PickerDone
    BY <1>1, <2>3 DEF ChooseRelease, PickerDone, Idle, jobVars
  <2>4. CASE Confirm
    BY <1>1, <2>4 DEF Confirm, Idle, jobVars
  <2>5. CASE StartWrite \/ Configure
    BY <2>5 DEF StartWrite, Configure
  <2>6. CASE PickImage \/ CancelButton \/ CloseWindow \/ Dismiss \/ AnswerAsk
    BY <2>6 DEF PickImage, CancelButton, CloseWindow, Dismiss, AnswerAsk, jobVars
  <2>7. QED
    BY <1>5, <2>1, <2>2, <2>3, <2>4, <2>5, <2>6 DEF Input
<1>6. Kept
  BY <1>4, <1>5 DEF Next, vars
<1>7. overlaps \in Nat
  BY ConsoleAssumption DEF TypeOK, JobOK
<1>8. QED
  BY <1>6, <1>7 DEF Count, Orderly

LEMMA OrderlyRun ==
  ASSUME JobOK, Orderly, Orderly', NEW kind, NEW node, NEW stale, Run(kind, node, stale)
  PROVE  /\ running = {} /\ handlers = <<>> /\ pending' = FALSE /\ cancel' = FALSE
         /\ running' = {[kind |-> kind, node |-> node, stale |-> stale, watched |-> TRUE]}
<1>1. running = {} /\ handlers = <<>>
  BY ConsoleAssumption DEF Run, Count, Orderly
<1>2. {[j EXCEPT !.watched = FALSE] : j \in running} = {}
  BY <1>1
<1>3. QED
  BY <1>1, <1>2 DEF Run

LEMMA RunOrder ==
  ASSUME JobOK, Orderly, Orderly', NEW kind \in {"scan", "probe", "list", "fetch", "prep"},
         NEW node \in Node \cup {NoNode}, NEW stale, NEW n \in Node \cup {NoNode}, kind # "scan" => n = node,
         Run(kind, node, stale), Connect(kind, n), firing' = <<>>, outer' = <<>>
  PROVE  IJob' /\ running = {} /\ handlers = <<>> /\ handlers' = <<[kind |-> kind, node |-> n]>>
<1> DEFINE h == [kind |-> kind, node |-> n]
           new == [kind |-> kind, node |-> node, stale |-> stale, watched |-> TRUE]
<1>1. running = {} /\ handlers = <<>> /\ pending' = FALSE /\ running' = {new}
  BY OrderlyRun
<1>2. handlers' = <<h>>
  BY <1>1, OneParts DEF Connect
<1>3. h \in Handler /\ h.kind = kind /\ h.node = n
  BY DEF Handler
<1>4. new.kind = kind /\ new.node = node /\ new.watched
  OBVIOUS
<1> HIDE DEF h, new
<1>5. IJob'
  BY <1>1, <1>2, <1>3, <1>4 DEF IJob, One
<1>6. QED
  BY <1>1, <1>2, <1>5 DEF h

(* Selecting a card in order, from the event loop or from a handler.        *)
LEMMA ProbeOrder ==
  ASSUME JobOK, IJob, Orderly, Orderly',
         NEW s \in Node \cup {NoNode}, NEW held, NEW out, NEW freed, NEW prb,
         ProbeCurrentDrive(s, held, out, freed, prb), firing' = <<>>, outer' = <<>>,
         out.mount # "gone" => \E h \in Handler : handlers = <<h>> /\ h.kind = "probe",
         \A h \in Handler : handlers = <<h>> /\ h.kind = "probe" => out = NoCtx \/ out.node = h.node
  PROVE  IJob' /\ IProbe' /\ bootCtx' = NoCtx /\ (handlers' = handlers \/ ~DueOf("prep")')
<1>1. bootCtx' = NoCtx
  BY DEF ProbeCurrentDrive
<1>2. CASE s = NoNode \/ Busy
  <2>1. probeOut' = out /\ handlers' = handlers
    BY <1>2 DEF ProbeCurrentDrive
  <2>2. IProbe'
    BY <2>1, OneParts DEF IProbe, DueOf
  <2>3. IJob'
    <3>1. CASE UNCHANGED <<running, pending>>
      BY <2>1, <3>1 DEF IJob, One
    <3>2. CASE Run("drop", NoNode, held)
      <4> DEFINE new == [kind |-> "drop", node |-> NoNode, stale |-> held, watched |-> TRUE]
      <4>1. handlers = <<>> /\ pending' = FALSE /\ running' = {new} /\ new.kind = "drop" /\ new.watched
        BY <3>2, OrderlyRun
      <4> HIDE DEF new
      <4>2. QED
        BY <2>1, <4>1 DEF IJob, One
    <3>3. QED
      BY <1>2, <3>1, <3>2 DEF ProbeCurrentDrive
  <2>4. QED
    BY <1>1, <2>1, <2>2, <2>3
<1>3. CASE ~(s = NoNode \/ Busy)
  <2>1. Connect("probe", s) /\ Run("probe", s, held) /\ probeOut' = NoCtx
    BY <1>3 DEF ProbeCurrentDrive
  <2>2. IJob' /\ handlers' = <<[kind |-> "probe", node |-> s]>>
    BY <2>1, RunOrder
  <2> DEFINE g == [kind |-> "probe", node |-> s]
  <2>3. g.kind = "probe"
    OBVIOUS
  <2> HIDE DEF g
  <2>4. \A h : handlers' = <<h>> \/ firing' = <<h>> => h.kind = "probe"
    BY <2>2, <2>3, OneParts DEF g
  <2>5. IProbe' /\ ~DueOf("prep")'
    BY <2>1, <2>4 DEF IProbe, DueOf, NoCtx
  <2>6. QED
    BY <1>1, <2>2, <2>5
<1>4. QED
  BY <1>2, <1>3

LEMMA ScanOrder ==
  ASSUME JobOK, IJob, IProbe, Orderly, Orderly', NEW n \in Node \cup {NoNode},
         RefreshDrives(n), firing = <<>>, UNCHANGED <<firing, outer, probeOut>>
  PROVE  IJob' /\ IProbe' /\ (handlers' = handlers \/ ~DueOf("prep")')
<1>1. CASE Idle
  BY <1>1 DEF Idle, jobVars, IJob, IProbe, DueOf, One
<1>2. CASE Connect("scan", n) /\ Run("scan", NoNode, NoCtx)
  <2>1. outer' = <<>>
    BY DEF IJob
  <2>2. IJob' /\ handlers = <<>> /\ handlers' = <<[kind |-> "scan", node |-> n]>>
    BY <1>2, <2>1, RunOrder
  <2> DEFINE g == [kind |-> "scan", node |-> n]
  <2>3. g.kind = "scan"
    OBVIOUS
  <2> HIDE DEF g
  <2>4. \A h : handlers' = <<h>> \/ firing' = <<h>> => h.kind = "scan"
    BY <2>2, <2>3, OneParts DEF g
  <2>5. probeOut.mount = "gone"
    BY <2>2, OneParts DEF IProbe, DueOf
  <2>6. IProbe' /\ ~DueOf("prep")'
    BY <2>4, <2>5 DEF IProbe, DueOf
  <2>7. QED
    BY <2>2, <2>6
<1>3. QED
  BY <1>1, <1>2 DEF RefreshDrives

(* Steps outside a confirmation, a preparation and a write.                 *)
LEMMA CalmOrder ==
  ASSUME IOrder, ~DueOf("prep"), modal'.kind # "confirm", ~helper'.on, stopAsked' = stopAsked,
         IJob', IProbe', ISel', ~DueOf("prep")'
  PROVE  IOrder'
  BY DEF IOrder, IConfirm, IPrep, IHelper, IStop

LEMMA OrderInit == Init => IOrder
<1> SUFFICES ASSUME Init PROVE IOrder
  OBVIOUS
<1> DEFINE h == [kind |-> "scan", node |-> NoNode]
           j == [kind |-> "scan", node |-> NoNode, stale |-> NoCtx, watched |-> TRUE]
<1>1. h \in Handler /\ h.kind = "scan" /\ j.kind = "scan" /\ j.watched
  BY DEF Handler
<1>2. running = {j} /\ handlers = <<h>> /\ ~pending /\ firing = <<>> /\ outer = <<>>
  BY DEF Init
<1> HIDE DEF h, j
<1>3. IJob
  BY <1>1, <1>2 DEF IJob, One
<1>4. ~DueOf("prep") /\ IProbe
  BY <1>1, <1>2, OneParts DEF DueOf, IProbe, Init, NoCtx
<1>5. QED
  BY <1>3, <1>4 DEF Init, IOrder, ISel, IConfirm, IPrep, IHelper, IStop, NoModal, Dialog, NoWrite

LEMMA OrderWorker == TypeOK /\ IOrder /\ Orderly /\ Worker => IOrder'
<1> SUFFICES ASSUME TypeOK, IOrder, NEW j \in running, ReleaseStale(j) \/ WorkerReturns(j) PROVE IOrder'
  BY DEF Worker
<1>1. /\ UNCHANGED <<handlers, firing, outer, bootCtx, sel, modal, helper, stopAsked, cancel, timers, ui>>
      /\ j \in Job
  BY DEF ReleaseStale, WorkerReturns, dialogVars, writeVars, retryVars, TypeOK, JobOK
<1>2. running = {j} /\ j.watched /\ ~pending /\ firing = <<>> /\ IJob /\ IProbe
  BY DEF IOrder, IJob
<1>3. ISel' /\ IPrep' /\ IStop' /\ (\A k : DueOf(k)' <=> DueOf(k))
  BY <1>1 DEF IOrder, ISel, IPrep, IStop, Alone, DueOf
<1>4. modal'.kind # "confirm" /\ ~helper'.on
  BY <1>1, <1>2 DEF IOrder, IConfirm, IHelper, Quiet
<1>5. IJob' /\ IProbe'
  <2>1. CASE ReleaseStale(j)
    <3> DEFINE i == [j EXCEPT !.stale = NoCtx]
    <3>1. i.kind = j.kind /\ i.node = j.node /\ i.watched
      BY <1>1, <1>2, JobParts
    <3>2. running' = {i} /\ UNCHANGED <<pending, probeOut>>
      BY <1>2, <2>1 DEF ReleaseStale
    <3> HIDE DEF i
    <3>3. IJob'
      BY <1>1, <1>2, <3>1, <3>2 DEF IJob, One
    <3>4. QED
      BY <1>1, <1>2, <3>2, <3>3 DEF IProbe, DueOf
  <2>2. CASE WorkerReturns(j)
    <3>1. running' = {} /\ pending'
      BY <1>2, <2>2 DEF WorkerReturns
    <3>2. IJob'
      BY <1>1, <1>2, <3>1 DEF IJob, One
    <3>3. CASE UNCHANGED <<probeOut, ours>>
      BY <1>1, <1>2, <3>2, <3>3 DEF IProbe, DueOf
    <3>4. CASE j.kind = "probe" /\ MountBoot(j.node)
      <4>1. PICK h \in Handler : handlers = <<h>> /\ h.kind = "probe" /\ h.node = j.node
        BY <1>2, <3>4 DEF IJob
      <4>2. probeOut'.node = j.node
        BY <3>4 DEF MountBoot
      <4>3. QED
        BY <1>1, <1>2, <3>2, <4>1, <4>2, OneParts DEF IProbe, DueOf
    <3>5. QED
      BY <2>2, <3>3, <3>4 DEF WorkerReturns
  <2>3. QED
    BY <2>1, <2>2
<1>6. QED
  BY <1>3, <1>4, <1>5 DEF IOrder, IConfirm, IHelper

LEMMA OrderHandle == TypeOK /\ IOrder /\ Orderly /\ Orderly' /\ Handle => IOrder'
<1> SUFFICES ASSUME TypeOK, IOrder, Orderly, Orderly', Handle PROVE IOrder'
  OBVIOUS
<1>1. firing # <<>>
  BY DEF Handle, ScanDone, ProbeOfAnother, ProbeDone, ListDone, FetchDone, PrepDone, Call
<1>2. /\ handlers = <<>> /\ running = {} /\ ~pending /\ outer = <<>> /\ IJob /\ IProbe /\ JobOK
      /\ ~helper.on /\ modal.kind # "confirm" /\ sel \in Node \cup {NoNode}
  BY <1>1 DEF IOrder, IJob, IHelper, IConfirm, TypeOK, WindowOK
<1>3. PICK g \in Handler : firing = <<g>>
  BY <1>1, <1>2 DEF IJob, One
<1>4. /\ Head(firing) = g /\ Tail(firing) = <<>>
      /\ \A k : DueOf(k) <=> g.kind = k
  BY <1>2, <1>3, OneParts DEF DueOf
<1>5. ASSUME running' = running, handlers' = handlers, pending' = pending, firing' = <<>>, outer' = <<>>
      PROVE  IJob' /\ \A k : ~DueOf(k)'
  BY <1>2, <1>5, OneParts DEF IJob, DueOf
<1>6. CASE ScanDone
  <2>1. ~DueOf("prep") /\ probeOut.mount = "gone"
    BY <1>2, <1>4, <1>6 DEF ScanDone, Call, IProbe
  <2>2. modal'.kind # "confirm" /\ ~helper'.on /\ stopAsked' = stopAsked /\ firing' = <<>> /\ outer' = <<>>
    <3>1. modal' = modal \/ modal' = [modal EXCEPT !.dangling = (modal.kind = "confirm")]
      BY <1>6 DEF ScanDone
    <3>2. modal'.kind = modal.kind
      BY <3>1 DEF TypeOK, DialogOK
    <3>3. QED
      BY <1>2, <1>4, <1>6, <3>2 DEF ScanDone, Next1, writeVars
  <2>3. CASE UNCHANGED <<sel, modal, jobVars, cardVars>>
    <3>1. IJob' /\ ~DueOf("prep")' /\ ~DueOf("probe")'
      BY <1>5, <2>2, <2>3 DEF jobVars
    <3>2. IProbe' /\ ISel'
      BY <2>1, <2>3, <3>1 DEF IOrder, IProbe, ISel, DueOf, cardVars
    <3>3. QED
      BY <2>1, <2>2, <3>1, <3>2, CalmOrder
  <2>4. CASE sel' \in Node \cup {NoNode} /\ ProbeCurrentDrive(sel', bootCtx, probeOut, {}, probing)
    <3>1. IJob' /\ IProbe' /\ bootCtx' = NoCtx /\ (handlers' = handlers \/ ~DueOf("prep")')
      BY <1>2, <2>1, <2>2, <2>4, ProbeOrder, OneParts
    <3>2. ~DueOf("prep")'
      BY <1>2, <2>2, <3>1, OneParts DEF DueOf
    <3>3. ISel'
      BY <3>1 DEF ISel
    <3>4. QED
      BY <2>1, <2>2, <3>1, <3>2, <3>3, CalmOrder
  <2>5. g.node \in Node \cup {NoNode}
    BY DEF Handler
  <2>6. QED
    BY <1>4, <1>6, <2>3, <2>4, <2>5 DEF ScanDone
<1>7. CASE ProbeOfAnother
  <2>1. ~DueOf("prep") /\ Moved(probeOut).mount = "gone"
    BY <1>4, <1>7 DEF ProbeOfAnother, Call, Moved
  <2>2. /\ modal'.kind # "confirm" /\ ~helper'.on /\ stopAsked' = stopAsked /\ firing' = <<>> /\ outer' = <<>>
        /\ ProbeCurrentDrive(sel, probeOut, Moved(probeOut), {bootCtx}, FALSE)
    BY <1>2, <1>4, <1>7 DEF ProbeOfAnother, Next1, writeVars, dialogVars
  <2>3. IJob' /\ IProbe' /\ bootCtx' = NoCtx /\ (handlers' = handlers \/ ~DueOf("prep")')
    BY <1>2, <2>1, <2>2, ProbeOrder, OneParts
  <2>4. ~DueOf("prep")' /\ ISel'
    BY <1>2, <2>2, <2>3, OneParts DEF DueOf, ISel
  <2>5. QED
    BY <2>1, <2>2, <2>3, <2>4, CalmOrder
<1>8. CASE ProbeDone
  <2>1. g.kind = "probe" /\ g.node = sel /\ ~DueOf("prep")
    BY <1>4, <1>8 DEF ProbeDone, Call
  <2>2. /\ modal'.kind # "confirm" /\ ~helper'.on /\ stopAsked' = stopAsked /\ firing' = <<>> /\ outer' = <<>>
        /\ running' = running /\ handlers' = handlers /\ pending' = pending
        /\ sel' = sel /\ bootCtx' = probeOut /\ probeOut' = Moved(probeOut)
    BY <1>2, <1>4, <1>8 DEF ProbeDone, Next1, writeVars, dialogVars, jobVars
  <2>3. IJob' /\ ~DueOf("prep")'
    BY <1>5, <2>2
  <2>4. IProbe'
    BY <1>2, <2>2, OneParts DEF IProbe, DueOf, Moved
  <2>5. ISel'
    BY <1>2, <1>3, <2>1, <2>2 DEF ISel, IProbe
  <2>6. QED
    BY <2>1, <2>2, <2>3, <2>4, <2>5, CalmOrder
<1>9. CASE ListDone \/ FetchDone
  <2>1. ~DueOf("prep") /\ probeOut.mount = "gone"
    BY <1>2, <1>4, <1>9 DEF ListDone, FetchDone, Call, IProbe
  <2>2. /\ ~helper'.on /\ stopAsked' = stopAsked /\ firing' = <<>> /\ outer' = <<>>
        /\ running' = running /\ handlers' = handlers /\ pending' = pending
        /\ UNCHANGED <<sel, bootCtx, probeOut>>
    BY <1>2, <1>4, <1>9 DEF ListDone, FetchDone, Next1, writeVars, dialogVars, jobVars, cardVars
  <2>3. modal'.kind # "confirm"
    <3>1. modal' = modal \/ modal' = Dialog("picker", NoNode)
      BY <1>9 DEF ListDone, FetchDone, dialogVars
    <3>2. QED
      BY <1>2, <3>1 DEF Dialog
  <2>4. IJob' /\ ~DueOf("prep")' /\ ~DueOf("probe")'
    BY <1>5, <2>2
  <2>5. IProbe' /\ ISel'
    BY <2>1, <2>2, <2>4 DEF IOrder, IProbe, ISel, DueOf
  <2>6. QED
    BY <2>1, <2>2, <2>3, <2>4, <2>5, CalmOrder
<1>10. CASE PrepDone
  <2>1. Alone /\ ~helper.on /\ probeOut.mount = "gone"
    BY <1>2, <1>4, <1>10 DEF PrepDone, Call, IOrder, IPrep, IProbe
  <2>2. /\ firing' = <<>> /\ outer' = <<>> /\ stopAsked' = FALSE
        /\ running' = running /\ handlers' = handlers /\ pending' = pending
        /\ UNCHANGED <<sel, bootCtx, probeOut, modal, timers>>
    BY <1>2, <1>4, <1>10 DEF PrepDone, Next1, dialogVars, jobVars, cardVars, retryVars
  <2>3. IJob' /\ ~DueOf("prep")' /\ ~DueOf("probe")'
    BY <1>5, <2>2
  <2>4. IProbe' /\ ISel' /\ IPrep' /\ IStop' /\ modal'.kind # "confirm"
    BY <2>1, <2>2, <2>3 DEF IOrder, IProbe, ISel, IPrep, IStop, DueOf, Alone
  <2>5. IHelper'
    <3>1. helper' = NoWrite \/ (helper' = [on |-> TRUE, node |-> Head(firing).node, asShown |-> helper.asShown] /\ ui' = ui)
      BY <1>10, Zenon DEF PrepDone, RunFlash
    <3>2. CASE helper' = NoWrite
      BY <3>2 DEF IHelper, NoWrite
    <3>3. CASE helper' = [on |-> TRUE, node |-> Head(firing).node, asShown |-> helper.asShown] /\ ui' = ui
      <4>1. helper'.asShown = helper.asShown
        BY <3>3
      <4>2. Alone'
        BY <2>1, <2>2, <3>3, <4>1 DEF Alone
      <4>3. QED
        BY <1>2, <2>1, <2>2, <4>2 DEF IHelper, Quiet, Alone
    <3>4. QED
      BY <3>1, <3>2, <3>3
  <2>6. QED
    BY <2>3, <2>4, <2>5 DEF IOrder, IConfirm
<1>11. QED
  BY <1>6, <1>7, <1>8, <1>9, <1>10 DEF Handle

LEMMA OrderSignals ==
  TypeOK /\ IOrder /\ Orderly /\ Orderly' /\ (DeliverFinished \/ HelperDone \/ TimerFires) => IOrder'
<1> SUFFICES ASSUME TypeOK, IOrder, Orderly, Orderly', DeliverFinished \/ HelperDone \/ TimerFires
             PROVE  IOrder'
  OBVIOUS
<1>1. /\ IJob /\ IProbe /\ JobOK /\ outer = <<>>
      /\ hDone \in Node \cup {NoNode} /\ timers \subseteq Node \cup {NoNode}
  BY DEF IOrder, IJob, TypeOK, WriteOK, RetryOK
<1>2. CASE DeliverFinished
  <2>1. /\ firing = <<>> /\ pending /\ firing' = handlers /\ handlers' = <<>> /\ ~pending' /\ running = {}
        /\ UNCHANGED <<running, outer, bootCtx, probeOut, sel, modal, helper, stopAsked, cancel, timers, ui>>
    BY <1>1, <1>2 DEF DeliverFinished, Loop, IJob, cardVars, dialogVars, writeVars, retryVars
  <2>2. \A k : DueOf(k)' <=> DueOf(k)
    BY <2>1, OneParts DEF DueOf
  <2>3. IJob'
    BY <1>1, <2>1 DEF IJob, One
  <2>4. IProbe'
    BY <1>1, <2>1, <2>2, OneParts DEF IProbe
  <2>5. ISel' /\ IPrep' /\ IStop'
    BY <2>1, <2>2 DEF IOrder, ISel, IPrep, IStop, Alone
  <2>6. modal'.kind # "confirm" /\ ~helper'.on
    BY <2>1 DEF IOrder, IConfirm, IHelper, Quiet
  <2>7. QED
    BY <2>3, <2>4, <2>5, <2>6 DEF IOrder, IConfirm, IHelper
<1>3. CASE HelperDone
  <2>1. Alone /\ Quiet /\ firing = <<>> /\ ~DueOf("prep")
    BY <1>3, OneParts DEF HelperDone, IOrder, IHelper, Quiet, DueOf
  <2>2. /\ ~helper'.on /\ stopAsked' = stopAsked /\ modal'.kind # "confirm"
        /\ UNCHANGED <<firing, outer, probeOut, bootCtx, sel>>
    BY <1>3, <2>1 DEF HelperDone, NoWrite, Alone, cardVars, dialogVars
  <2>3. Idle \/ RefreshDrives(hDone)
    BY <1>3 DEF HelperDone
  <2>4. IJob' /\ IProbe' /\ ~DueOf("prep")'
    <3>1. CASE Idle
      BY <1>1, <2>1, <2>2, <3>1 DEF IJob, IProbe, DueOf, One, Idle, jobVars
    <3>2. CASE RefreshDrives(hDone)
      <4>1. IJob' /\ IProbe' /\ (handlers' = handlers \/ ~DueOf("prep")')
        BY <1>1, <2>1, <2>2, <3>2, ScanOrder
      <4>2. QED
        BY <2>1, <2>2, <4>1 DEF DueOf
    <3>3. QED
      BY <2>3, <3>1, <3>2
  <2>5. ISel'
    BY <2>2 DEF IOrder, ISel
  <2>6. QED
    BY <2>1, <2>2, <2>4, <2>5, CalmOrder
<1>4. CASE TimerFires
  <2>1. PICK n \in timers : RefreshDrives(n)
    BY <1>4 DEF TimerFires
  <2>2. modal.kind # "confirm" /\ ~helper.on /\ ~DueOf("prep")
    BY <2>1 DEF IOrder, IConfirm, IHelper, IPrep, Quiet, Alone
  <2>3. /\ firing = <<>> /\ ~helper'.on /\ stopAsked' = stopAsked /\ modal'.kind # "confirm"
        /\ UNCHANGED <<firing, outer, probeOut, bootCtx, sel>>
    BY <1>4, <2>2 DEF TimerFires, Loop, cardVars, dialogVars
  <2>4. IJob' /\ IProbe' /\ (handlers' = handlers \/ ~DueOf("prep")')
    BY <1>1, <2>1, <2>3, ScanOrder
  <2>5. ISel' /\ ~DueOf("prep")'
    BY <2>2, <2>3, <2>4 DEF IOrder, ISel, DueOf
  <2>6. QED
    BY <2>2, <2>3, <2>4, <2>5, CalmOrder
<1>5. QED
  BY <1>2, <1>3, <1>4

LEMMA OrderStart ==
  TypeOK /\ IOrder /\ Orderly /\ Orderly' /\ (Rescan \/ SelectDrive \/ PickImage \/ ChooseRelease \/ PickerDone)
    => IOrder'
<1> SUFFICES ASSUME TypeOK, IOrder, Orderly, Orderly',
                    Rescan \/ SelectDrive \/ PickImage \/ ChooseRelease \/ PickerDone
             PROVE  IOrder'
  OBVIOUS
<1>1. /\ IJob /\ IProbe /\ JobOK /\ outer = <<>> /\ firing = <<>>
      /\ NoNode \in Node \cup {NoNode}
  BY DEF IOrder, IJob, TypeOK, Rescan, SelectDrive, PickImage, ChooseRelease, PickerDone, Window, Answered, Loop
<1>2. ~DueOf("prep") /\ ~helper.on
  <2>1. ~ui.busy \/ modal.kind = "picker"
    BY DEF Rescan, SelectDrive, PickImage, ChooseRelease, PickerDone, Enabled, Answered
  <2>2. QED
    BY <2>1 DEF IOrder, IPrep, IHelper, Alone
<1>3. modal'.kind # "confirm"
  <2>1. modal' = NoModal
    BY DEF Rescan, SelectDrive, PickImage, ChooseRelease, PickerDone, Window, dialogVars
  <2>2. QED
    BY <2>1 DEF NoModal, Dialog
<1>4. ~helper'.on /\ stopAsked' = stopAsked /\ firing' = <<>> /\ outer' = <<>>
  BY <1>1, <1>2 DEF Rescan, SelectDrive, PickImage, ChooseRelease, PickerDone, writeVars, dialogVars
<1>5. IJob' /\ IProbe' /\ ISel' /\ (handlers' = handlers \/ ~DueOf("prep")')
  <2>1. CASE Rescan
    <3>1. RefreshDrives(NoNode) /\ UNCHANGED <<firing, outer, probeOut, bootCtx, sel>>
      BY <2>1 DEF Rescan, cardVars, dialogVars
    <3>2. QED
      BY <1>1, <3>1, ScanOrder DEF IOrder, ISel
  <2>2. CASE SelectDrive
    <3>1. sel' \in Node \cup {NoNode} /\ ProbeCurrentDrive(sel', bootCtx, probeOut, {}, probing)
      BY <2>2 DEF SelectDrive
    <3>2. probeOut.mount # "gone" => \E h \in Handler : handlers = <<h>> /\ h.kind = "probe"
      BY <1>1, OneParts DEF IProbe, DueOf
    <3>3. \A h \in Handler : handlers = <<h>> /\ h.kind = "probe" => probeOut = NoCtx \/ probeOut.node = h.node
      BY <1>1 DEF IProbe
    <3>4. IJob' /\ IProbe' /\ bootCtx' = NoCtx /\ (handlers' = handlers \/ ~DueOf("prep")')
      BY <1>1, <1>4, <3>1, <3>2, <3>3, ProbeOrder
    <3>5. QED
      BY <3>4 DEF ISel
  <2>3. CASE PickImage
    BY <1>1, <1>4, <2>3 DEF PickImage, IOrder, IJob, IProbe, ISel, DueOf, One, jobVars, cardVars
  <2>4. CASE ChooseRelease \/ PickerDone
    <3>1. UNCHANGED <<probeOut, bootCtx, sel>>
      BY <2>4 DEF ChooseRelease, PickerDone, cardVars
    <3>2. CASE Idle
      BY <1>1, <1>4, <3>1, <3>2 DEF IOrder, IJob, IProbe, ISel, DueOf, One, Idle, jobVars
    <3>3. ASSUME NEW k \in {"list", "fetch"}, Connect(k, NoNode), Run(k, NoNode, NoCtx)
          PROVE  IJob' /\ IProbe' /\ ISel' /\ ~DueOf("prep")'
      <4> DEFINE g == [kind |-> k, node |-> NoNode]
      <4>1. IJob' /\ handlers = <<>> /\ handlers' = <<g>>
        BY <1>1, <1>4, <3>3, RunOrder
      <4>2. g.kind = k
        OBVIOUS
      <4> HIDE DEF g
      <4>3. \A h : handlers' = <<h>> \/ firing' = <<h>> => h.kind = k
        BY <1>4, <4>1, <4>2, OneParts
      <4>4. probeOut.mount = "gone"
        BY <1>1, <4>1, OneParts DEF IProbe, DueOf
      <4>5. IProbe' /\ ~DueOf("prep")'
        BY <3>1, <4>3, <4>4 DEF IProbe, DueOf
      <4>6. QED
        BY <3>1, <4>1, <4>5 DEF IOrder, ISel
    <3>4. QED
      BY <2>4, <3>2, <3>3 DEF ChooseRelease, PickerDone
  <2>5. QED
    BY <2>1, <2>2, <2>3, <2>4
<1>6. ~DueOf("prep")'
  BY <1>1, <1>2, <1>4, <1>5 DEF DueOf
<1>7. QED
  BY <1>2, <1>3, <1>4, <1>5, <1>6, CalmOrder

(* The write: its confirmation, and what follows it.                        *)
LEMMA OrderWrite == TypeOK /\ IOrder /\ Orderly /\ Orderly' /\ (StartWrite \/ Confirm) => IOrder'
<1> SUFFICES ASSUME TypeOK, IOrder, Orderly, Orderly', StartWrite \/ Confirm PROVE IOrder'
  OBVIOUS
<1>1. IJob /\ IProbe /\ ISel /\ JobOK /\ outer = <<>> /\ firing = <<>>
  BY DEF IOrder, IJob, TypeOK, StartWrite, Confirm, Window, Answered, Loop
<1>2. CASE StartWrite
  <2>1. Quiet
    BY <1>2, ConsoleAssumption DEF StartWrite, Count, Orderly
  <2>2. ~ui.busy /\ ~helper.on /\ modal' = Dialog("confirm", sel)
    BY <1>2 DEF StartWrite, Enabled, Busy
  <2>3. UNCHANGED <<running, handlers, pending, cancel, firing, outer, bootCtx, probeOut, sel, helper, stopAsked, timers, ui>>
    BY <1>2 DEF StartWrite, cardVars, writeVars, retryVars
  <2>4. IJob' /\ IProbe' /\ ISel' /\ IStop' /\ (\A k : DueOf(k)' <=> DueOf(k))
    BY <1>1, <2>3 DEF IOrder, IJob, IProbe, ISel, IStop, DueOf, One
  <2>5. ~modal'.dangling
    BY <2>2 DEF Dialog
  <2>6. IConfirm'
    BY <1>1, <2>1, <2>2, <2>3, <2>5 DEF IConfirm, Quiet
  <2>7. ~DueOf("prep") /\ ~helper'.on
    BY <2>2, <2>3 DEF IOrder, IPrep, Alone
  <2>8. QED
    BY <2>4, <2>6, <2>7 DEF IOrder, IPrep, IHelper
<1>3. CASE Confirm
  <2>1. Quiet /\ ~helper.on /\ ~modal.dangling
    BY <1>3 DEF Confirm, Answered, IOrder, IConfirm
  <2>2. PICK n \in {modal.node} :
           IF bootCtx = NoCtx
           THEN RunFlash(n, n = modal.node) /\ Idle /\ UNCHANGED bootCtx
           ELSE /\ helper' = [helper EXCEPT !.asShown = (n = modal.node)]
                /\ Connect("prep", n)
                /\ Run("prep", n, bootCtx)
                /\ bootCtx' = NoCtx
    BY <1>3, <2>1 DEF Confirm
  <2>3. /\ modal' = NoModal /\ ~stopAsked' /\ ui'.busy
        /\ UNCHANGED <<firing, outer, probeOut, sel, timers>>
    BY <1>3, ShownType DEF Confirm, TypeOK, retryVars
  <2>4. modal'.kind = "none" /\ (n = modal.node) = TRUE /\ n \in Node \cup {NoNode}
    BY <2>2, <2>3 DEF NoModal, Dialog, TypeOK, DialogOK
  <2>5. bootCtx' = NoCtx /\ timers = {} /\ probeOut.mount = "gone"
    <3>1. probeOut.mount = "gone"
      BY <1>1, <2>1, OneParts DEF IProbe, DueOf, Quiet
    <3>2. QED
      BY <2>1, <2>2, <3>1 DEF Quiet
  <2>6. CASE bootCtx = NoCtx
    <3>1. helper' = [on |-> TRUE, node |-> n, asShown |-> TRUE]
      BY <2>2, <2>4, <2>6 DEF RunFlash
    <3>2. helper'.asShown
      BY <3>1
    <3>3. Alone'
      BY <2>3, <2>4, <2>5, <3>2 DEF Alone
    <3>4. UNCHANGED <<running, handlers, pending>>
      BY <2>2, <2>6 DEF Idle, jobVars
    <3>5. IJob' /\ IProbe' /\ ~DueOf("prep")'
      BY <1>1, <2>1, <2>3, <2>5, <3>4, OneParts DEF IJob, IProbe, DueOf, One, Quiet
    <3>6. IHelper'
      BY <1>1, <2>1, <2>3, <3>3, <3>4 DEF IHelper, Quiet
    <3>7. QED
      BY <2>3, <2>4, <2>5, <3>5, <3>6 DEF IOrder, ISel, IConfirm, IPrep, IStop
  <2>7. CASE bootCtx # NoCtx
    <3>1. helper' = [helper EXCEPT !.asShown = TRUE]
      BY <2>2, <2>4, <2>7
    <3>2. helper'.asShown /\ ~helper'.on
      BY <2>1, <3>1 DEF TypeOK, WriteOK
    <3>3. Alone'
      BY <2>3, <2>4, <2>5, <3>2 DEF Alone
    <3> DEFINE g == [kind |-> "prep", node |-> n]
    <3>4. IJob' /\ handlers' = <<g>>
      BY <1>1, <2>2, <2>3, <2>4, <2>7, RunOrder
    <3>5. g.kind = "prep"
      OBVIOUS
    <3> HIDE DEF g
    <3>6. \A h : handlers' = <<h>> \/ firing' = <<h>> => h.kind = "prep"
      BY <1>1, <2>3, <3>4, <3>5, OneParts
    <3>7. IProbe'
      BY <2>3, <2>5, <3>6 DEF IProbe
    <3>8. QED
      BY <2>3, <2>4, <2>5, <3>2, <3>3, <3>4, <3>7 DEF IOrder, ISel, IConfirm, IPrep, IHelper, IStop
  <2>8. QED
    BY <2>6, <2>7
<1>4. QED
  BY <1>2, <1>3

(* The other dialogs, Cancel and the close.                                 *)
LEMMA OrderClosing ==
  TypeOK /\ IOrder /\ (Configure \/ Dismiss \/ CancelButton \/ CloseWindow \/ AnswerAsk \/ QueuedClose) => IOrder'
<1> SUFFICES ASSUME TypeOK, IOrder, Configure \/ Dismiss \/ CancelButton \/ CloseWindow \/ AnswerAsk \/ QueuedClose
             PROVE  IOrder'
  OBVIOUS
<1> DEFINE A == Configure \/ Dismiss \/ CancelButton \/ CloseWindow \/ AnswerAsk \/ QueuedClose
<1>1. /\ UNCHANGED <<running, pending, handlers, firing, outer, helper, timers, ui, sel>> /\ firing = <<>>
      /\ IJob /\ IProbe /\ handlers \in Seq(Handler)
  BY DEF Configure, Dismiss, CancelButton, CloseWindow, AnswerAsk, QueuedClose, Window, Answered, Loop,
         jobVars, dialogVars, writeVars, retryVars, IOrder, TypeOK, JobOK
<1>2. IJob' /\ \A k : DueOf(k)' <=> DueOf(k)
  BY <1>1 DEF IJob, DueOf, One
<1>3. /\ bootCtx' = bootCtx \/ bootCtx' = NoCtx
      /\ probeOut' = probeOut \/ probeOut' = NoCtx
  BY DEF Configure, Dismiss, CancelButton, CloseWindow, AnswerAsk, QueuedClose, CancelForClose, Shut, cardVars
<1>4. IProbe' /\ ISel'
  BY <1>1, <1>2, <1>3 DEF IOrder, IProbe, ISel, NoCtx
<1>5. modal' = modal \/ modal'.kind \in {"none", "ask"} \/ (~ui.busy /\ modal'.kind = "configure")
  BY DEF Configure, Dismiss, CancelButton, CloseWindow, AnswerAsk, QueuedClose, dialogVars, NoModal, Dialog, Enabled
<1>6. IConfirm'
  BY <1>1, <1>5 DEF IOrder, IConfirm, Quiet
<1>7. IPrep' /\ IHelper'
  BY <1>1, <1>2, <1>3, <1>5 DEF IOrder, IPrep, IHelper, Alone, Quiet
<1>8. IStop'
  <2>1. CASE UNCHANGED <<cancel, stopAsked>>
    BY <1>2, <2>1 DEF IOrder, IStop
  <2>2. CASE CancelAll
    <3>1. Preparing => DueOf("prep")
      <4>1. CASE handlers = <<>>
        BY <4>1 DEF Preparing
      <4>2. CASE handlers # <<>>
        <5>1. PICK h \in Handler : handlers = <<h>>
          BY <1>1, <4>2 DEF IJob, One
        <5>2. QED
          BY <5>1, OneParts DEF Preparing, DueOf
      <4>3. QED
        BY <4>1, <4>2
    <3>2. QED
      BY <1>2, <2>2, <3>1 DEF CancelAll, IOrder, IStop
  <2>3. QED
    BY <2>1, <2>2 DEF Configure, Dismiss, CancelButton, CloseWindow, AnswerAsk, QueuedClose, CancelForClose, Shut,
                      jobVars, writeVars
<1>9. QED
  BY <1>2, <1>4, <1>6, <1>7, <1>8 DEF IOrder

LEMMA OrderNext ==
  TypeOK /\ (Orderly => IOrder) /\ [Next]_vars => (Orderly => IOrder)'
<1> SUFFICES ASSUME TypeOK, Orderly => IOrder, [Next]_vars, Orderly' PROVE IOrder'
  OBVIOUS
<1>1. Orderly /\ IOrder
  BY OrderKept
<1>2. CASE UNCHANGED vars
  <2>1. IJob' /\ (\A k : DueOf(k)' <=> DueOf(k)) /\ (Alone' <=> Alone) /\ (Quiet' <=> Quiet)
    BY <1>1, <1>2 DEF vars, IOrder, IJob, One, DueOf, Alone, Quiet
  <2>2. QED
    BY <1>1, <1>2, <2>1 DEF vars, IOrder, IProbe, ISel, IConfirm, IPrep, IHelper, IStop
<1>3. CASE Next
  BY <1>1, <1>3, OrderWorker, OrderHandle, OrderSignals, OrderStart, OrderWrite, OrderClosing
     DEF Next, Input, System
<1>4. QED
  BY <1>2, <1>3

LEMMA OrderAlways == Spec => [](TypeOK /\ IHeld /\ (Orderly => IOrder))
<1>1. Init => TypeOK /\ IHeld /\ (Orderly => IOrder)
  BY TypeInit, HeldInit, OrderInit
<1>2. (TypeOK /\ IHeld /\ (Orderly => IOrder)) /\ [Next]_vars => (TypeOK /\ IHeld /\ (Orderly => IOrder))'
  BY TypeNext, HeldNext, OrderNext
<1>3. QED
  BY <1>1, <1>2, PTL DEF Spec

(* The context the window acts on is the selected card's: a probe's result  *)
(* that comes in after the selection changed is parked, never attached.     *)
THEOREM ContextFollowsSelection == Spec => []ContextIsSelected
<1>1. (Orderly => IOrder) => ContextIsSelected
  BY DEF IOrder, ISel, ContextIsSelected
<1>2. QED
  BY <1>1, OrderAlways, PTL

(* A confirmed write runs with every mount of ours released, writes what    *)
(* the dialog showed, and keeps its Cancel button on screen.                *)
THEOREM WriteRunsPrepared == Spec => []WriteIsPrepared
<1>1. TypeOK /\ IHeld /\ (Orderly => IOrder) => WriteIsPrepared
  <2>1. SUFFICES ASSUME TypeOK, IHeld, IOrder, helper.on
                 PROVE  ours = {} /\ helper.asShown /\ ui.busy
    BY DEF WriteIsPrepared
  <2>2. Alone /\ Quiet /\ firing = <<>> /\ bootCtx = NoCtx
    BY <2>1 DEF IOrder, IHelper, Alone
  <2>3. probeOut.mount = "gone"
    BY <2>1, <2>2, OneParts DEF IOrder, IProbe, DueOf, Quiet
  <2>4. ASSUME NEW n \in Node PROVE n \notin ours
    BY <2>1, <2>2, <2>3 DEF IHeld, HeldOnce, Has, Parked, NoCtx, Quiet
  <2>5. QED
    BY <2>1, <2>2, <2>4 DEF Alone, TypeOK, CardOK
<1>2. QED
  BY <1>1, OrderAlways, PTL

(* Once Cancel or Quit was asked for during the preparation, the helper is  *)
(* not launched.                                                            *)
THEOREM CancelledNeverWrites == Spec => CancelledPreparation
<1>1. TypeOK /\ IHeld /\ (Orderly => IOrder) /\ [Next]_vars => [Orderly /\ stopAsked /\ ~helper.on => ~helper'.on]_vars
  <2>1. SUFFICES ASSUME IOrder, Next, stopAsked, ~helper.on
                 PROVE  ~helper'.on
    BY DEF vars
  <2>2. cancel /\ DueOf("prep") /\ Alone
    BY <2>1 DEF IOrder, IStop, IPrep
  <2>3. CASE PrepDone
    BY <2>2, <2>3 DEF PrepDone, NoWrite
  <2>4. ~Confirm
    BY <2>1, <2>2 DEF Confirm, Answered, Alone
  <2>5. CASE HelperDone
    BY <2>1, <2>5 DEF HelperDone
  <2>6. CASE helper' = helper
    BY <2>1, <2>6
  <2>7. CASE Input
    <3>1. helper' = helper
      BY <2>4, <2>7 DEF Input, Rescan, SelectDrive, PickImage, ChooseRelease, StartWrite, Configure,
                        CancelButton, CloseWindow, PickerDone, Dismiss, AnswerAsk, writeVars
    <3>2. QED
      BY <2>6, <3>1
  <2>8. CASE System
    <3>1. CASE Worker \/ DeliverFinished \/ TimerFires \/ QueuedClose
      <4>1. helper' = helper
        BY <3>1 DEF Worker, ReleaseStale, WorkerReturns, DeliverFinished, TimerFires, QueuedClose, writeVars
      <4>2. QED
        BY <2>6, <4>1
    <3>2. CASE ScanDone \/ ProbeOfAnother \/ ProbeDone \/ ListDone \/ FetchDone
      <4>1. helper' = helper
        BY <3>2 DEF ScanDone, ProbeOfAnother, ProbeDone, ListDone, FetchDone, writeVars
      <4>2. QED
        BY <2>6, <4>1
    <3>3. QED
      BY <2>3, <2>5, <2>8, <3>1, <3>2 DEF System, Handle
  <2>9. QED
    BY <2>1, <2>7, <2>8 DEF Next
<1>2. QED
  BY <1>1, OrderAlways, PTL DEF Spec, CancelledPreparation

=============================================================================
