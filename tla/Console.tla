------------------------------- MODULE Console -------------------------------
(***************************************************************************)
(* The event loop of the imager's window (gui/ConsoleWindow.cpp) with its  *)
(* BackgroundTask: drive scans, card probes that hold a mounted BOOT       *)
(* partition, the release list and download, the write with its            *)
(* preparation, the re-probe after a write, and the deferred close.        *)
(*                                                                         *)
(* The GUI thread handles one event at a time.  A job's worker runs beside *)
(* it: BackgroundTask::busy() turns false when the worker returns, and the *)
(* finished signal is delivered only later.  Starting another job in       *)
(* between discards that signal (QFutureWatcher::setFuture), but the       *)
(* single-shot handlers stay connected and fire with the next one, in the  *)
(* order of their connection.  A modal dialog runs a nested event loop in  *)
(* which timers, finished signals and a queued close() are delivered.      *)
(***************************************************************************)
EXTENDS Naturals, Sequences, FiniteSets

CONSTANTS
  Node,      \* device nodes a scan can list
  NoNode,    \* no drive selected
  Tries,     \* bound: kWriteReprobeTries (8 in the code)
  MaxOverlaps   \* bound: overlapping jobs the user and the timers cause

ASSUME ConsoleAssumption == /\ IsFiniteSet(Node)
                            /\ NoNode \notin Node
                            /\ Tries \in Nat \ {0}
                            /\ MaxOverlaps \in Nat \ {0}

VARIABLES
  sel,           \* the drive currentDrive() returns
  image,         \* imagePath_ is set
  ui,            \* setBusyUi's state and the two buttons as applyState left them
  probing,       \* probing_
  bootCtx,       \* bootCtx_: the selected card's mounted BOOT partition
  probeOut,      \* probeOut_->ctx, shared by every probe
  running,       \* the workers, watched by the task's QFutureWatcher or not
  pending,       \* the watched worker returned, its finished is not delivered
  cancel,        \* BackgroundTask::cancel_
  handlers,      \* single-shot handlers connected to BackgroundTask::finished
  firing,        \* the handlers the emission in progress still has to call
  outer,         \* those of the emission a modal dialog interrupted
  modal,         \* the open dialog, with what a confirmation showed
  helper,        \* the elevated write: running or not, and what it writes
  hDone,         \* the node captured by the connected onHelperDone, if any
  again,         \* writeReprobeLeft_, writeReprobeNode_
  timers,        \* nodes with a re-probe timer armed
  closePending, closeQueued, closed,
  ours,          \* nodes whose BOOT partition this process has mounted
  overlaps,      \* history: how often a job was started while another one ran or
                 \* had its finished signal undelivered, or a dialog was opened
                 \* with a timer, job or signal outstanding
  stopAsked      \* history: Cancel or Quit was asked for while preparing

vars == <<sel, image, ui, probing, bootCtx, probeOut, running, pending, cancel,
          handlers, firing, outer, modal, helper, hDone, again, timers,
          closePending, closeQueued, closed, ours, overlaps, stopAsked>>

jobVars    == <<running, pending, cancel, handlers, overlaps>>
cardVars   == <<bootCtx, probeOut, probing, ours>>
dialogVars == <<modal, outer>>
writeVars  == <<helper, hDone, stopAsked>>
retryVars  == <<again, timers>>
closeVars  == <<closePending, closeQueued, closed>>

\* A BootContext: whose card, what its MountedPartition does when it is
\* destroyed ("gone" is a moved-from handle), and whether Kuiper 2 was found.
Ctx   == [node : Node, mount : {"own", "borrow", "gone"}, k2 : BOOLEAN]
NoCtx == [node |-> NoNode, mount |-> "gone", k2 |-> FALSE]

Moved(c) == [node |-> c.node, mount |-> "gone", k2 |-> c.k2]
Owned(S) == {c.node : c \in {x \in S : x.mount = "own"}}

Job     == [kind : {"scan", "probe", "drop", "list", "fetch", "prep"},
            node : Node \cup {NoNode}, stale : Ctx \cup {NoCtx}, watched : BOOLEAN]
Handler == [kind : {"scan", "probe", "list", "fetch", "prep"}, node : Node \cup {NoNode}]

Dialog(k, n) == [kind |-> k, node |-> n, dangling |-> FALSE]
NoModal  == Dialog("none", NoNode)
NoWrite  == [on |-> FALSE, node |-> NoNode, asShown |-> TRUE]

Orderly == overlaps = 0
Count(more) == IF more /\ overlaps < MaxOverlaps THEN overlaps + 1 ELSE overlaps

----------------------------------------------------------------------------
(* busy(), the button states and the job runner.                           *)

TaskBusy == \E j \in running : j.watched
Busy     == TaskBusy \/ helper.on

\* applyState() at the end of a handler; b is what setBusyUi left.
ApplyState(b) ==
  ui' = [busy  |-> b,
         write |-> image' /\ sel' # NoNode /\ ~Busy',
         conf  |-> bootCtx'.k2 /\ bootCtx'.mount # "gone" /\ ~Busy' /\ ~probing']

ShowBusy == ui' = [ui EXCEPT !.busy = TRUE]

\* BackgroundTask::run: the watcher moves to the new job, an undelivered
\* finished signal of the previous one is dropped.
Run(kind, node, stale) ==
  /\ running' = {[j EXCEPT !.watched = FALSE] : j \in running}
                  \cup {[kind |-> kind, node |-> node, stale |-> stale, watched |-> TRUE]}
  /\ pending' = FALSE
  /\ cancel' = FALSE
  /\ overlaps' = Count(running # {} \/ handlers # <<>>)

Connect(k, n) == handlers' = Append(handlers, [kind |-> k, node |-> n])

Idle == UNCHANGED jobVars

\* The user and the timers overlap jobs at most MaxOverlaps times.
Room == overlaps < MaxOverlaps \/ (running = {} /\ handlers = <<>>)

\* refreshDrives(): a scan, unless something runs.
RefreshDrives(n) ==
  IF TaskBusy \/ helper'.on THEN Idle /\ UNCHANGED ui
  ELSE Connect("scan", n) /\ Run("scan", NoNode, NoCtx) /\ ShowBusy

\* probeCurrentDrive() for selection s, with context `held' in bootCtx_ and
\* `out' in probeOut_; `freed' are contexts the handler destroyed before.
ProbeCurrentDrive(s, held, out, freed, prb) ==
  /\ bootCtx' = NoCtx
  /\ IF s = NoNode \/ Busy
     THEN /\ probeOut' = out
          /\ probing' = prb
          /\ UNCHANGED handlers
          /\ IF held # NoCtx /\ ~TaskBusy
             THEN Run("drop", NoNode, held) /\ ours' = ours \ Owned(freed)
             ELSE /\ ours' = ours \ Owned(freed \cup {held})
                  /\ UNCHANGED <<running, pending, cancel, overlaps>>
     ELSE /\ probeOut' = NoCtx
          /\ probing' = TRUE
          /\ ours' = ours \ Owned(freed \cup {out})
          /\ Connect("probe", s)
          /\ Run("probe", s, held)

----------------------------------------------------------------------------
(* The workers.                                                            *)

\* Mutant: the stale context is dropped without its unmount.
ReleaseStaleForgets(j) ==
  /\ j.stale # NoCtx
  /\ running' = (running \ {j}) \cup {[j EXCEPT !.stale = NoCtx]}
  /\ UNCHANGED <<sel, image, ui, cardVars, pending, cancel, handlers, overlaps,
                 firing, dialogVars, writeVars, retryVars, closeVars>>

\* The first thing a probe, a drop and a preparation do: unmount.
ReleaseStale(j) ==
  /\ j.stale # NoCtx
  /\ ours' = ours \ Owned({j.stale})
  /\ running' = (running \ {j}) \cup {[j EXCEPT !.stale = NoCtx]}
  /\ UNCHANGED <<sel, image, ui, probing, bootCtx, probeOut, pending, cancel, handlers,
                 overlaps, firing, dialogVars, writeVars, retryVars, closeVars>>

\* A probe's mount: borrowed when the partition is mounted already.
MountBoot(n) ==
  \E m \in {"own", "borrow"}, k \in BOOLEAN :
     /\ m = "own" => n \notin ours
     /\ probeOut' = [node |-> n, mount |-> m, k2 |-> k]
     /\ ours' = (ours \ Owned({probeOut})) \cup (IF m = "own" THEN {n} ELSE {})

WorkerReturns(j) ==
  /\ j.stale = NoCtx
  /\ running' = running \ {j}
  /\ pending' = (pending \/ j.watched)
  /\ \/ j.kind = "probe" /\ MountBoot(j.node)
     \/ UNCHANGED <<probeOut, ours>>    \* other jobs, and a card without Kuiper
  /\ UNCHANGED <<sel, image, ui, probing, bootCtx, cancel, handlers, overlaps, firing,
                 dialogVars, writeVars, retryVars, closeVars>>

Worker == ~closed /\ \E j \in running : ReleaseStale(j) \/ WorkerReturns(j)

----------------------------------------------------------------------------
(* The finished signal and the handlers it calls.                          *)

Loop == ~closed /\ firing = <<>>         \* the event loop, nested or not

\* Mutant: nothing retries the close.
DeliverOnly ==
  /\ Loop /\ pending
  /\ pending' = FALSE
  /\ firing' = handlers
  /\ handlers' = <<>>
  /\ UNCHANGED <<sel, image, ui, running, cancel, overlaps, cardVars, dialogVars,
                 writeVars, retryVars, closeVars>>

DeliverFinished ==
  /\ Loop /\ pending
  /\ pending' = FALSE
  /\ firing' = handlers
  /\ handlers' = <<>>
  /\ closeQueued' = (closeQueued \/ closePending)
  /\ UNCHANGED <<sel, image, ui, running, cancel, overlaps, cardVars, dialogVars,
                 writeVars, retryVars, closePending, closed>>

\* The answer to a dialog, which may come before what is already posted.
Answered(k) == Loop /\ modal.kind = k

Call(k) == ~closed /\ firing # <<>> /\ Head(firing).kind = k
Next1   == firing' = Tail(firing)

\* The scan is in: rebuild the combo, select the preferred node if listed and
\* the first entry otherwise, then onDriveChanged().
ScanDone ==
  /\ Call("scan") /\ Next1
  /\ \/ /\ \E L \in SUBSET Node :
             /\ sel' \in IF L = {} THEN {NoNode}
                         ELSE IF Head(firing).node \in L THEN {Head(firing).node} ELSE L
        /\ modal' = [modal EXCEPT !.dangling = (modal.kind = "confirm")]
        /\ ProbeCurrentDrive(sel', bootCtx, probeOut, {}, probing)
     \/ UNCHANGED <<sel, modal, jobVars, cardVars>>      \* listDrives failed
  /\ UNCHANGED <<image, outer, writeVars, retryVars, closeVars>>
  /\ ApplyState(FALSE)

\* Mutant: every probe's context is attached, whatever is selected.
ProbeOfAnotherAttaches ==
  /\ Call("probe") /\ Next1
  /\ sel # Head(firing).node
  /\ bootCtx' = probeOut
  /\ probeOut' = Moved(probeOut)
  /\ ours' = ours \ Owned({bootCtx})
  /\ probing' = FALSE
  /\ UNCHANGED <<sel, image, jobVars, dialogVars, writeVars, retryVars, closeVars>>
  /\ ApplyState(ui.busy)

\* A probe's handler for another card than the selected one: park the context
\* so that the follow-up probe releases it.
ProbeOfAnother ==
  /\ Call("probe") /\ Next1
  /\ sel # Head(firing).node
  /\ ProbeCurrentDrive(sel, probeOut, Moved(probeOut), {bootCtx}, FALSE)
  /\ UNCHANGED <<sel, image, dialogVars, writeVars, retryVars, closeVars>>
  /\ ApplyState(ui.busy)

\* After a write, try again later until Kuiper 2 is seen or the budget is spent.
Reprobe ==
  LET k2 == probeOut.k2 IN
  IF again.left = 0 THEN UNCHANGED retryVars
  ELSE IF k2 \/ again.left = 1
       THEN again' = [left |-> 0, node |-> NoNode] /\ UNCHANGED timers
       ELSE /\ again' = [again EXCEPT !.left = @ - 1]
            /\ timers' = timers \cup {again.node}

ProbeDone ==
  /\ Call("probe") /\ Next1
  /\ sel = Head(firing).node
  /\ bootCtx' = probeOut
  /\ probeOut' = Moved(probeOut)
  /\ ours' = ours \ Owned({bootCtx})
  /\ probing' = FALSE
  /\ Reprobe
  /\ UNCHANGED <<sel, image, jobVars, dialogVars, writeVars, closeVars>>
  /\ ApplyState(ui.busy)

\* The release list is in: report a failure, or open the picker, which takes
\* over the event loop until it is closed.
ListDone ==
  /\ Call("list")
  /\ \/ Next1 /\ UNCHANGED <<modal, outer>>
     \/ /\ firing' = <<>>
        /\ outer' = Tail(firing)
        /\ modal' = Dialog("picker", NoNode)
  /\ UNCHANGED <<sel, image, jobVars, cardVars, writeVars, retryVars, closeVars>>
  /\ ApplyState(FALSE)

\* The picker is closed, or a release chosen: startFetch.  The interrupted
\* emission goes on.
PickerDone ==
  /\ Answered("picker")
  /\ modal' = NoModal
  /\ firing' = outer
  /\ outer' = <<>>
  /\ \/ Idle /\ UNCHANGED ui
     \/ Room /\ Connect("fetch", NoNode) /\ Run("fetch", NoNode, NoCtx) /\ ShowBusy
  /\ UNCHANGED <<sel, image, cardVars, writeVars, retryVars, closeVars>>

FetchDone ==
  /\ Call("fetch") /\ Next1
  /\ image' \in {image, TRUE}
  /\ UNCHANGED <<sel, jobVars, cardVars, dialogVars, writeVars, retryVars, closeVars>>
  /\ ApplyState(FALSE)

\* HelperProcess::runFlash; `shown' is what the confirmation displayed.
RunFlash(n, shown) ==
  helper' = [on |-> TRUE, node |-> n, asShown |-> shown]

\* Mutant: the helper is launched without asking whether Cancel was hit.
PrepDoneGoesOn ==
  /\ Call("prep") /\ Next1
  /\ stopAsked' = FALSE
  /\ UNCHANGED <<sel, image, hDone, ui, jobVars, cardVars, dialogVars, retryVars, closeVars>>
  /\ RunFlash(Head(firing).node, helper.asShown)

\* Mutant: a cancelled preparation leaves the progress row up.
PrepDoneStaysBusy ==
  /\ Call("prep") /\ Next1
  /\ stopAsked' = FALSE
  /\ UNCHANGED <<sel, image, ui, jobVars, cardVars, dialogVars, retryVars, closeVars>>
  /\ IF cancel \/ closePending
     THEN hDone' = NoNode /\ helper' = NoWrite
     ELSE RunFlash(Head(firing).node, helper.asShown) /\ UNCHANGED hDone

\* The preparation's handler: the mount is released, launch the helper unless
\* Cancel or Quit came meanwhile.
PrepDone ==
  /\ Call("prep") /\ Next1
  /\ stopAsked' = FALSE
  /\ UNCHANGED <<sel, image, jobVars, cardVars, dialogVars, retryVars, closeVars>>
  /\ IF cancel \/ closePending
     THEN hDone' = NoNode /\ helper' = NoWrite /\ ApplyState(FALSE)
     ELSE RunFlash(Head(firing).node, helper.asShown) /\ UNCHANGED <<hDone, ui>>

\* The helper's finished signal: the write failed, or re-probe the new card.
HelperDone ==
  /\ Loop /\ helper.on
  /\ helper' = NoWrite
  /\ hDone' = NoNode
  /\ closeQueued' = (closeQueued \/ closePending)
  /\ UNCHANGED <<sel, image, firing, stopAsked, cardVars, dialogVars, timers,
                 closePending, closed>>
  /\ \/ Idle /\ ApplyState(FALSE) /\ UNCHANGED again
     \/ /\ again' = [left |-> Tries, node |-> hDone]
        /\ IF TaskBusy THEN Idle /\ ApplyState(FALSE) ELSE RefreshDrives(hDone)

Handle == ScanDone \/ ProbeOfAnother \/ ProbeDone \/ ListDone \/ FetchDone \/ PrepDone

TimerFires ==
  /\ Loop /\ Room
  /\ \E n \in timers : timers' = timers \ {n} /\ UNCHANGED helper /\ RefreshDrives(n)
  /\ UNCHANGED <<sel, image, firing, again, hDone, stopAsked, cardVars, dialogVars, closeVars>>

----------------------------------------------------------------------------
(* The user.  Input reaches the window only when no dialog is open.        *)

Window  == Loop /\ modal = NoModal
Enabled == ~ui.busy                  \* combo, rescan, image and source controls
Quiet   == timers = {} /\ handlers = <<>> /\ running = {} /\ ~pending

Rescan ==
  /\ Window /\ Enabled /\ Room /\ UNCHANGED helper /\ RefreshDrives(NoNode)
  /\ UNCHANGED <<sel, image, firing, cardVars, dialogVars, hDone, stopAsked, retryVars, closeVars>>

SelectDrive ==
  /\ Window /\ Enabled /\ Room
  /\ sel # NoNode
  /\ sel' \in Node \ {sel}
  /\ ProbeCurrentDrive(sel', bootCtx, probeOut, {}, probing)
  /\ UNCHANGED <<image, firing, dialogVars, writeVars, retryVars, closeVars>>
  /\ ApplyState(ui.busy)

PickImage ==              \* the file dialog's event loop delivers what is posted
  /\ Window /\ Enabled /\ ~pending
  /\ image' = TRUE
  /\ UNCHANGED <<sel, firing, jobVars, cardVars, dialogVars, writeVars, retryVars, closeVars>>
  /\ ApplyState(ui.busy)

ChooseRelease ==
  /\ Window /\ Enabled /\ Room /\ ~Busy
  /\ Connect("list", NoNode) /\ Run("list", NoNode, NoCtx) /\ ShowBusy
  /\ UNCHANGED <<sel, image, firing, cardVars, dialogVars, writeVars, retryVars, closeVars>>

\* startWrite up to the confirmation dialog.
StartWrite ==
  /\ Window /\ Enabled /\ ui.write
  /\ image /\ sel # NoNode /\ ~Busy
  /\ modal' = Dialog("confirm", sel)
  /\ overlaps' = Count(~Quiet)
  /\ UNCHANGED <<sel, image, ui, firing, outer, running, pending, cancel, handlers, cardVars, writeVars, retryVars, closeVars>>

\* Mutant: the write starts with the mount still held.
ConfirmKeepsMount ==
  /\ Answered("confirm")
  /\ modal' = NoModal
  /\ stopAsked' = FALSE
  /\ \E n \in (IF modal.dangling THEN Node ELSE {modal.node}) :
        hDone' = n /\ RunFlash(n, n = modal.node)
  /\ ShowBusy
  /\ UNCHANGED <<sel, image, jobVars, cardVars, firing, outer, retryVars, closeVars>>

\* The rest of startWrite.  The Drive pointer taken before the dialog dangles
\* when a scan replaced the list meanwhile; busy() is not asked again.
Confirm ==
  /\ Answered("confirm")
  /\ modal' = NoModal
  /\ stopAsked' = FALSE
  /\ \E n \in (IF modal.dangling THEN Node ELSE {modal.node}) :
        LET shown == n = modal.node IN
        /\ hDone' = n
        /\ IF bootCtx = NoCtx
           THEN RunFlash(n, shown) /\ Idle /\ UNCHANGED bootCtx
           ELSE /\ helper' = [helper EXCEPT !.asShown = shown]
                /\ Connect("prep", n)
                /\ Run("prep", n, bootCtx)
                /\ bootCtx' = NoCtx
  /\ ShowBusy
  /\ UNCHANGED <<sel, image, probing, probeOut, ours, firing, outer, retryVars, closeVars>>

Configure ==
  /\ Window /\ Enabled /\ ui.conf
  /\ bootCtx.mount # "gone" /\ bootCtx.k2 /\ ~Busy
  /\ modal' = Dialog("configure", bootCtx.node)
  /\ overlaps' = Count(~Quiet)
  /\ UNCHANGED <<sel, image, ui, firing, outer, running, pending, cancel, handlers, cardVars, writeVars, retryVars, closeVars>>

Dismiss ==                \* the confirmation refused, the configuration closed
  /\ \E k \in {"confirm", "configure"} : Answered(k)
  /\ modal' = NoModal
  /\ UNCHANGED <<sel, image, ui, firing, outer, jobVars, cardVars, writeVars,
                 retryVars, closeVars>>

Preparing == \E i \in DOMAIN handlers : handlers[i].kind = "prep"

\* task_->cancel(), and the helper's cancel, whose outcome is any outcome.
CancelAll == cancel' = TRUE /\ stopAsked' = (stopAsked \/ Preparing)

CancelButton ==
  /\ Window /\ ui.busy
  /\ CancelAll
  /\ UNCHANGED <<sel, image, ui, running, pending, handlers, overlaps, firing, cardVars,
                 dialogVars, helper, hDone, retryVars, closeVars>>

\* The window closes; its members are destroyed with it.
Shut ==
  /\ closed' = TRUE
  /\ ours' = ours \ Owned({bootCtx, probeOut})
  /\ bootCtx' = NoCtx /\ probeOut' = NoCtx
  /\ UNCHANGED <<cancel, stopAsked>>

CancelForClose == CancelAll /\ UNCHANGED <<closed, ours, bootCtx, probeOut>>

\* closeEvent from the window system: ask about an operation the user can see.
CloseWindow ==
  /\ Window
  /\ IF ~Busy THEN Shut /\ UNCHANGED <<modal, closePending>>
     ELSE IF ui.busy /\ ~closePending
     THEN /\ modal' = Dialog("ask", NoNode)
          /\ UNCHANGED <<closePending, closed, ours, bootCtx, probeOut, cancel, stopAsked>>
     ELSE closePending' = TRUE /\ CancelForClose /\ UNCHANGED modal
  /\ UNCHANGED <<sel, image, ui, probing, running, pending, handlers, firing, outer, helper,
                 hDone, retryVars, closeQueued, overlaps>>

AnswerAsk ==
  /\ Answered("ask")
  /\ modal' = NoModal
  /\ \/ UNCHANGED <<closePending, closed, ours, bootCtx, probeOut, cancel, stopAsked>>
     \/ closePending' = TRUE /\ IF Busy THEN CancelForClose ELSE Shut
  /\ UNCHANGED <<sel, image, ui, probing, running, pending, handlers, firing, outer, helper,
                 hDone, retryVars, closeQueued, overlaps>>

\* The close() retryClose queued, delivered inside dialogs too.
QueuedClose ==
  /\ Loop /\ closeQueued
  /\ closeQueued' = FALSE
  /\ IF Busy THEN CancelForClose ELSE Shut
  /\ UNCHANGED <<sel, image, ui, probing, running, pending, handlers, overlaps, firing,
                 dialogVars, helper, hDone, retryVars, closePending>>

----------------------------------------------------------------------------
Init ==
  /\ sel = NoNode /\ image = FALSE
  /\ ui = [busy |-> TRUE, write |-> FALSE, conf |-> FALSE]
  /\ probing = FALSE /\ bootCtx = NoCtx /\ probeOut = NoCtx
  /\ running = {[kind |-> "scan", node |-> NoNode, stale |-> NoCtx, watched |-> TRUE]}
  /\ pending = FALSE /\ cancel = FALSE
  /\ handlers = <<[kind |-> "scan", node |-> NoNode]>>
  /\ firing = <<>> /\ outer = <<>> /\ modal = NoModal
  /\ helper = NoWrite /\ hDone = NoNode
  /\ again = [left |-> 0, node |-> NoNode] /\ timers = {}
  /\ closePending = FALSE /\ closeQueued = FALSE /\ closed = FALSE
  /\ ours = {} /\ overlaps = 0 /\ stopAsked = FALSE

Input == \/ Rescan \/ SelectDrive \/ PickImage \/ ChooseRelease \/ StartWrite
         \/ Configure \/ CancelButton \/ CloseWindow
         \/ PickerDone \/ Confirm \/ Dismiss \/ AnswerAsk

System == Worker \/ DeliverFinished \/ Handle \/ HelperDone \/ TimerFires \/ QueuedClose

Next == Input \/ System
Spec == Init /\ [][Next]_vars

\* The event loop keeps turning, workers return, the helper answers.  Nothing
\* is assumed of the user.
Fairness == /\ WF_vars(Worker) /\ WF_vars(DeliverFinished) /\ WF_vars(Handle)
            /\ WF_vars(HelperDone) /\ WF_vars(TimerFires) /\ WF_vars(QueuedClose)
FairSpec == Spec /\ Fairness

----------------------------------------------------------------------------
\* The task watches one worker at a time, and none once a finished is pending.
Watched == {j \in running : j.watched}
JobOK ==
  /\ running \subseteq Job /\ \A j \in running : j.kind = "probe" => j.node \in Node
  /\ handlers \in Seq(Handler) /\ pending \in BOOLEAN /\ cancel \in BOOLEAN
  /\ \A j, k \in Watched : j = k
  /\ pending => Watched = {}
  /\ overlaps \in 0..MaxOverlaps

CardOK ==
  /\ bootCtx \in Ctx \cup {NoCtx} /\ probeOut \in Ctx \cup {NoCtx}
  /\ probing \in BOOLEAN /\ ours \subseteq Node

DialogOK ==
  /\ modal \in [kind : {"none", "picker", "confirm", "configure", "ask"},
               node : Node \cup {NoNode}, dangling : BOOLEAN]
  /\ outer \in Seq(Handler)

WriteOK ==
  /\ helper \in [on : BOOLEAN, node : Node \cup {NoNode}, asShown : BOOLEAN]
  /\ hDone \in Node \cup {NoNode} /\ stopAsked \in BOOLEAN

RetryOK ==
  /\ again \in [left : 0..Tries, node : Node \cup {NoNode}]
  /\ timers \subseteq Node \cup {NoNode}

WindowOK ==
  /\ sel \in Node \cup {NoNode} /\ image \in BOOLEAN /\ firing \in Seq(Handler)
  /\ ui \in [busy : BOOLEAN, write : BOOLEAN, conf : BOOLEAN]
  /\ closePending \in BOOLEAN /\ closeQueued \in BOOLEAN /\ closed \in BOOLEAN

TypeOK == JobOK /\ CardOK /\ DialogOK /\ WriteOK /\ RetryOK /\ WindowOK

\* The context the window acts on (Configure's path, the Kuiper 2 tag) is the
\* selected card's, however probes, scans and
\* selection changes overlapped ("Never attach this card's context to a
\* different selection", ConsoleWindow.cpp:401).
ContextIsSelected == (Orderly /\ bootCtx # NoCtx) => bootCtx.node = sel

\* Each partition this process mounted is held by exactly one live handle
\* (bootCtx_, probeOut_ or the stale context of a job): none is forgotten,
\* none is unmounted twice.
Holders(n) ==
    Cardinality({j \in running : n \in Owned({j.stale})})
  + (IF n \in Owned({bootCtx}) THEN 1 ELSE 0) + (IF n \in Owned({probeOut}) THEN 1 ELSE 0)
EveryMountHeldOnce == \A n \in Node : Holders(n) = (IF n \in ours THEN 1 ELSE 0)

\* A write that was confirmed while no retry and no job was outstanding runs
\* with every mount of ours released, writes what the dialog showed, and keeps
\* its Cancel button on screen.
WriteIsPrepared ==
  (helper.on /\ Orderly) => ours = {} /\ helper.asShown /\ ui.busy

\* Once Cancel or Quit was asked for during the preparation, the helper is not
\* launched ("in which case nothing has been written yet", ConsoleWindow.cpp:602).
CancelledPreparation ==
  [][Orderly /\ stopAsked /\ ~helper.on => ~helper'.on]_vars

\* Nothing runs, nothing is to be delivered: the controls are usable again.
ControlsComeBack ==
  (~Busy /\ ~pending /\ firing = <<>> /\ outer = <<>>) => ~ui.busy

\* A close that was asked for happens, if the user leaves the window alone.
CloseHappens == <>[][~Input]_vars => (closePending ~> closed)

=============================================================================
