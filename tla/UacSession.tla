----------------------------- MODULE UacSession ------------------------------
(***************************************************************************)
(* The privileged write session of Windows: HelperProcess over              *)
(* UacHelperSession, one duplex named pipe, and the helper over             *)
(* PipeChannel.  The GUI makes the pipe, launches the helper, listens only  *)
(* when it knows the helper's process id, and takes no other client.        *)
(*                                                                          *)
(* One action per callback of the GUI's event loop; ShellExecuteEx takes    *)
(* time, so start() is two.  Of the pipe's system calls only what the code  *)
(* tells apart is kept.  The write is reduced as in module HelperSession,   *)
(* which also has the lines that arrive in pieces.                          *)
(***************************************************************************)
EXTENDS Integers, Sequences, FiniteSetsExt

CONSTANTS
  MaxRuns,    \* bound: writes the GUI starts
  PipeSize,   \* lines the pipe's buffer holds
  Attempts    \* how often connectPipe tries; 10 in the code

ASSUME UacAssumption ==
  /\ MaxRuns \in Nat \ {0} /\ PipeSize \in Nat \ {0} /\ Attempts \in Nat \ {0}

VARIABLES
  runs,       \* writes started
  prompt,     \* ShellExecuteEx has not returned: "no", "yes", or its refusal
  ses,        \* UacHelperSession and HelperProcess: see Session
  link,       \* the pipe: see Link
  proc,       \* the helper's process: "none", "up", "gone"
  exit,       \* its exit code: "none", "ok", "nochannel", "crash"
  hpc,        \* where its main thread stands
  flushing,   \* writeLine is in FlushFileBuffers
  tries,      \* attempts connectPipe has left
  gcancel,    \* g_cancel
  watching,   \* the cancel watcher still reads
  reply,      \* the terminal line the verb has decided on
  disk,       \* what the run has made of the card
  pressed     \* history: Cancel was pressed while the present run was running

helper == <<hpc, flushing, tries, gcancel, watching, reply, disk>>
vars == <<runs, prompt, ses, link, proc, exit, helper, pressed>>

Replies == {"result", "cancelled", "error"}
Backstops == {"NoReport", "NoChannel", "AuthCancelled", "HelperNotFound",
              "Crashed", "LaunchFailed"}
Refusals == {"AuthCancelled", "HelperNotFound", "LaunchFailed"}

(* running_, pendingCancel_, whether helperPid_ is known; and of            *)
(* HelperProcess the terminal line parsed, and what finished() told.        *)
Session == [running : BOOLEAN, pending : BOOLEAN, pid : BOOLEAN,
            line : Replies \cup {"none"}, told : Replies \cup Backstops \cup {"none"}]

(* The server's end: there is none, or it is made, listened on (a connect   *)
(* is outstanding), the socket's, or idle: no connect is outstanding and    *)
(* nobody reads.  The client at the other end; the lines on their way to    *)
(* the GUI, and to the helper; and a helper whose connection was cut.       *)
Link == [server : {"none", "made", "listening", "socket", "idle"},
         client : {"none", "helper", "other"},
         out : Seq(Replies \cup {"progress"}), cancels : 0 .. 1, cut : BOOLEAN]
NoLink == [server |-> "none", client |-> "none", out |-> <<>>, cancels |-> 0, cut |-> FALSE]

TypeOK ==
  /\ runs \in 0 .. MaxRuns /\ prompt \in {"no", "yes"} \cup Refusals
  /\ ses \in Session /\ link \in Link /\ Len(link.out) <= PipeSize
  /\ proc \in {"none", "up", "gone"} /\ exit \in {"none", "ok", "nochannel", "crash"}
  /\ hpc \in {"off", "connect", "before", "poll", "chunk", "commit", "report", "exit"}
  /\ flushing \in BOOLEAN /\ gcancel \in BOOLEAN /\ watching \in BOOLEAN
  /\ tries \in 0 .. Attempts
  /\ reply \in Replies \cup {"none"}
  /\ disk \in {"untouched", "wiped", "torn", "complete"}
  /\ pressed \in BOOLEAN

NewSession == [running |-> FALSE, pending |-> FALSE, pid |-> FALSE,
               line |-> "none", told |-> "none"]

Init ==
  /\ runs = 0 /\ prompt = "no" /\ ses = NewSession /\ link = NoLink
  /\ proc = "none" /\ exit = "none"
  /\ hpc = "off" /\ flushing = FALSE /\ tries = Attempts
  /\ gcancel = FALSE /\ watching = FALSE /\ reply = "none" /\ disk = "untouched"
  /\ pressed = FALSE

-----------------------------------------------------------------------------
(* The GUI's session, as functions of its state x = [ses, link].            *)

(* HelperProcess::feed of the first k lines: the last terminal one stands.  *)
Heard(x, k) ==
  LET terminals == {i \in 1 .. k : x.link.out[i] \in Replies}
  IN [x EXCEPT !.ses.line = IF terminals = {} THEN @ ELSE x.link.out[Max(terminals)],
               !.link.out = SubSeq(@, k + 1, Len(@))]

(* armConnect with nobody there: a connect is outstanding, or it fails.     *)
Armed(x) == {[x EXCEPT !.link.server = s] : s \in {"listening", "idle"}}

\* Mutant: a waiting cancel is forgotten.
AdoptedSilently(x) ==
  LET y == [ses |-> [x.ses EXCEPT !.pending = FALSE],
            link |-> [x.link EXCEPT !.server = "socket"]]
  IN {Heard(y, k) : k \in 0 .. Len(y.link.out)}

(* The socket takes the pipe over; a cancel that was waiting is sent, and   *)
(* what has arrived is read.                                                *)
Adopted(x) ==
  LET y == [ses |-> [x.ses EXCEPT !.pending = FALSE],
            link |-> [x.link EXCEPT !.server = "socket",
                                    !.cancels = IF x.ses.pending THEN 1 ELSE @]]
  IN {Heard(y, k) : k \in 0 .. Len(y.link.out)}

Unread(x) == [x EXCEPT !.link.server = "idle"]
Dropped(x) == [x EXCEPT !.link = [NoLink EXCEPT !.cut = x.link.cut \/ x.link.client = "helper"]]

\* Mutant: the process id of the client is not looked at.
AcceptAnybody(x) == Adopted(x) \cup {Unread(x)}

(* acceptClient: the helper, if its process id is known and the client's    *)
(* can be asked for; anybody else is disconnected.  A socket that does not  *)
(* take the handle leaves it open.                                          *)
AcceptClient(x) ==
  (IF x.link.client = "helper" /\ x.ses.pid THEN Adopted(x) \cup {Unread(x)} ELSE {})
    \cup Armed(Dropped(x))

ArmConnect(x) == IF x.link.client = "none" THEN Armed(x) ELSE AcceptClient(x)

(* completeConnect: reap an outstanding connect; it may have failed.        *)
CompleteConnect(x) ==
  IF x.link.server = "listening" /\ x.link.client # "none"
  THEN AcceptClient(x) \cup {Unread(x)}
  ELSE {x}

Drained(x) == IF x.link.server = "socket" THEN Heard(x, Len(x.link.out)) ELSE x

Gui == [ses |-> ses, link |-> link]
Becomes(x) == ses' = x.ses /\ link' = x.link

(* finishOnce and HelperProcess::onFinished.                                *)
Finish(x, backstop) ==
  /\ ses' = [x.ses EXCEPT !.running = FALSE,
                          !.told = IF x.ses.line # "none" THEN x.ses.line ELSE backstop]
  /\ link' = x.link

-----------------------------------------------------------------------------
\* Mutant: a cancel the last run never took is kept.
ResetKeepsCancel == [NewSession EXCEPT !.pending = ses.pending]

(* HelperProcess::start and the reset() of the session.                     *)
Reset == NewSession

(* start() up to the launch; without a pipe there is none.  Bound: the next *)
(* run starts after the answer to the last.                                 *)
Start ==
  /\ runs < MaxRuns /\ prompt = "no" /\ (runs = 0 \/ ses.told # "none")
  /\ runs' = runs + 1 /\ pressed' = FALSE
  /\ proc' = "none" /\ exit' = "none" /\ hpc' = "off" /\ flushing' = FALSE
  /\ tries' = Attempts /\ gcancel' = FALSE /\ watching' = FALSE
  /\ reply' = "none" /\ disk' = "untouched"
  /\ \/ prompt' = "yes" /\ Becomes([ses |-> Reset, link |-> [NoLink EXCEPT !.server = "made"]])
     \/ prompt' = "LaunchFailed" /\ Becomes([ses |-> Reset, link |-> NoLink])

(* The UAC prompt is answered: the helper runs, or it does not.             *)
Elevate ==
  /\ prompt = "yes" /\ proc = "none"
  /\ \/ proc' = "up" /\ hpc' = "connect" /\ UNCHANGED prompt
     \/ prompt' \in Refusals /\ UNCHANGED <<proc, hpc>>
  /\ UNCHANGED <<runs, ses, link, exit, flushing, tries, gcancel, watching, reply, disk, pressed>>

Gone == UNCHANGED <<runs, proc, exit, helper, pressed>>

LaunchRefused ==
  /\ prompt \in Refusals /\ prompt' = "no"
  /\ Finish([ses |-> ses, link |-> NoLink], prompt)
  /\ Gone

(* start() goes on: the exit is watched from here on, and only now the      *)
(* session listens.  The process id may not be had.                         *)
Launched ==
  /\ prompt = "yes" /\ proc # "none" /\ prompt' = "no"
  /\ \E known \in BOOLEAN :
       \E x \in ArmConnect([ses |-> [ses EXCEPT !.running = TRUE, !.pid = known], link |-> link]) :
         Becomes(x)
  /\ Gone

Connected ==
  /\ prompt = "no" /\ link.server = "listening" /\ link.client # "none" /\ ses.told = "none"
  /\ \E x \in CompleteConnect(Gui) : Becomes(x)
  /\ UNCHANGED prompt /\ Gone

BytesReceived ==
  /\ prompt = "no" /\ link.server = "socket" /\ link.out # <<>> /\ ses.told = "none"
  /\ \E k \in 1 .. Len(link.out) : Becomes(Heard(Gui, k))
  /\ UNCHANGED prompt /\ Gone

Outcome == [ok |-> "NoReport", nochannel |-> "NoChannel", crash |-> "Crashed"]

\* Mutant: the exit is reported without a look at the pipe.
ExitUndrained ==
  /\ ses.running /\ proc = "gone"
  /\ Finish(Gui, Outcome[exit])
  /\ UNCHANGED prompt /\ Gone

\* Mutant: the exit of a helper that never connected is not noticed.
ExitIfConnected ==
  /\ ses.running /\ proc = "gone" /\ link.server = "socket"
  /\ Finish(Drained(Gui), Outcome[exit])
  /\ UNCHANGED prompt /\ Gone

(* onProcessExit: a connect not reaped yet is, and the pipe is read to its  *)
(* end, before the outcome counts.                                          *)
OnProcessExit ==
  /\ ses.running /\ proc = "gone"
  /\ \E x \in CompleteConnect(Gui) : Finish(Drained(x), Outcome[exit])
  /\ UNCHANGED prompt /\ Gone

(* The Cancel button; HelperProcess::cancel asks running() first, so during *)
(* the prompt it does nothing.                                              *)
Cancel ==
  /\ ses.running /\ ~pressed
  /\ pressed' = TRUE
  /\ IF link.server = "socket"
     THEN link' = [link EXCEPT !.cancels = 1] /\ UNCHANGED ses
     ELSE ses' = [ses EXCEPT !.pending = TRUE] /\ UNCHANGED link
  /\ UNCHANGED <<runs, prompt, proc, exit, helper>>

-----------------------------------------------------------------------------
(* Another program that opens the pipe before the helper does and writes    *)
(* what looks like a line.                                                  *)
Free == link.server \in {"made", "listening"} /\ link.client = "none"

OtherConnects ==
  /\ Free
  /\ \E l \in {"progress", "result"} :
       link' = [link EXCEPT !.client = "other", !.out = <<l>>]
  /\ UNCHANGED <<runs, prompt, ses, proc, exit, helper, pressed>>

-----------------------------------------------------------------------------
(* The helper.                                                              *)
Helper(from) ==
  /\ proc = "up" /\ hpc = from /\ ~flushing
  /\ UNCHANGED <<runs, prompt, ses, gcancel, pressed>>
Ends(how) == proc' = "gone" /\ exit' = how

(* connectPipe: a pipe in use is tried again, after a wait; when the        *)
(* attempts are used up, or another error comes, main exits at once.        *)
Connect ==
  /\ Helper("connect")
  /\ \/ /\ Free /\ link' = [link EXCEPT !.client = "helper"]
        /\ hpc' = "before" /\ watching' = TRUE
        /\ UNCHANGED <<proc, exit, tries>>
     \/ /\ ~Free /\ tries > 1 /\ tries' = tries - 1
        /\ UNCHANGED <<link, hpc, watching, proc, exit>>
     \/ /\ Ends("nochannel")
        /\ UNCHANGED <<link, hpc, watching, tries>>
  /\ UNCHANGED <<flushing, reply, disk>>

(* PipeChannel::watchCancel: the line, or the end of the pipe.              *)
Watch ==
  /\ proc = "up" /\ watching
  /\ link.cancels > 0 \/ link.cut
  /\ gcancel' = TRUE /\ watching' = FALSE
  /\ UNCHANGED <<runs, prompt, ses, link, proc, exit, hpc, flushing, tries, reply, disk, pressed>>

(* PipeChannel::writeLine: it waits for room, then for the reader; a broken *)
(* pipe swallows the line.                                                  *)
WriteLine(l) ==
  IF link.cut THEN UNCHANGED <<link, flushing>>
  ELSE /\ Len(link.out) < PipeSize
       /\ link' = [link EXCEPT !.out = Append(@, l)]
       /\ flushing' = TRUE

Flushed ==
  /\ proc = "up" /\ flushing /\ (link.out = <<>> \/ link.cut)
  /\ flushing' = FALSE
  /\ UNCHANGED <<runs, prompt, ses, link, proc, exit, hpc, tries, gcancel, watching, reply, disk, pressed>>

(* Nothing forces FlushFileBuffers to wait: it may fail and return.         *)
FlushFails ==
  /\ proc = "up" /\ flushing
  /\ flushing' = FALSE
  /\ UNCHANGED <<runs, prompt, ses, link, proc, exit, hpc, tries, gcancel, watching, reply, disk, pressed>>

Fails(why) == hpc' = "report" /\ reply' = why

BeforeBody ==
  /\ Helper("before")
  /\ \/ hpc' = "poll" /\ disk' = "wiped" /\ UNCHANGED reply
     \/ Fails("error") /\ disk' \in {"untouched", "torn"}
  /\ UNCHANGED <<link, proc, exit, flushing, tries, watching>>

Poll ==
  /\ Helper("poll")
  /\ IF gcancel THEN Fails("cancelled")
     ELSE hpc' \in {"chunk", "commit"} /\ UNCHANGED reply
  /\ UNCHANGED <<link, proc, exit, flushing, tries, watching, disk>>

WriteChunk ==
  /\ Helper("chunk")
  /\ \/ hpc' = "poll" /\ (WriteLine("progress") \/ UNCHANGED <<link, flushing>>) /\ UNCHANGED reply
     \/ Fails("error") /\ UNCHANGED <<link, flushing>>
  /\ UNCHANGED <<proc, exit, tries, watching, disk>>

(* settleDevice does nothing on Windows.                                    *)
Commit ==
  /\ Helper("commit")
  /\ \/ Fails("result") /\ disk' = "complete"
     \/ Fails("error") /\ disk' \in {"wiped", "torn"}
  /\ UNCHANGED <<link, proc, exit, flushing, tries, watching>>

Report ==
  /\ Helper("report")
  /\ WriteLine(reply)
  /\ hpc' = "exit"
  /\ UNCHANGED <<proc, exit, tries, watching, reply, disk>>

Exit ==
  /\ Helper("exit")
  /\ Ends("ok")
  /\ UNCHANGED <<link, hpc, flushing, tries, watching, reply, disk>>

Main == Connect \/ Flushed \/ BeforeBody \/ Poll \/ WriteChunk \/ Commit \/ Report \/ Exit

Crash ==
  /\ proc = "up"
  /\ Ends("crash")
  /\ disk' \in (IF hpc \in {"before", "commit"} THEN {disk, "torn"} ELSE {disk})
  /\ UNCHANGED <<runs, prompt, ses, link, hpc, flushing, tries, gcancel, watching, reply, pressed>>

EventLoop == LaunchRefused \/ Launched \/ Connected \/ BytesReceived \/ OnProcessExit
Next ==
  \/ Start \/ Elevate \/ EventLoop \/ Cancel \/ OtherConnects
  \/ Main \/ FlushFails \/ Watch \/ Crash

Spec == Init /\ [][Next]_vars

(* The prompt is answered, the event loop gets round to every notifier, the *)
(* helper's threads run; nobody has to cancel or crash, and a flush need    *)
(* not fail.                                                                *)
Fairness ==
  /\ WF_vars(Elevate) /\ WF_vars(Main) /\ WF_vars(Watch)
  /\ WF_vars(LaunchRefused) /\ WF_vars(Launched) /\ WF_vars(Connected)
  /\ WF_vars(BytesReceived) /\ WF_vars(OnProcessExit)
FairSpec == Spec /\ Fairness

-----------------------------------------------------------------------------
Told ==
  CASE ses.told = "result" -> "written"
    [] ses.told = "cancelled" -> "cancelled"
    [] ses.told \in Refusals \cup {"NoChannel"} -> "nothing"
    [] ses.told = "none" -> "none"
    [] OTHER -> "failed"

Run == INSTANCE WriteRun WITH
  phase <- IF runs > 0 /\ ses.told = "none" THEN "running" ELSE "idle",
  card <- disk,
  answer <- Told

(* This session keeps the promise of the other one: one answer per run,     *)
(* true of the card, whoever else connects to the pipe, and "wrote nothing" *)
(* of a helper that found no pipe.  (acceptClient, makeChannel.)            *)
KeepsRunPromise == Run!Spec

(* A terminal line the helper wrote into its pipe is the answer, also when  *)
(* it wrote it and exited before the GUI had seen it connect.               *)
NoLineLost ==
  ses.told # "none" /\ exit = "ok" /\ ~link.cut /\ link.server # "idle" => ses.told = reply

(* Cancel belongs to its run: the next one is not cancelled by a cancel     *)
(* that the last one never took.  (pendingCancel_, reset.)                  *)
CancelStaysInRun == ses.told = "cancelled" => pressed

(* The socket would not take the pipe; an image that never ends.            *)
Mute == link.server = "idle" /\ link.client = "helper"
Endless == []<>(hpc = "poll") /\ []<>(hpc = "chunk")

(* Every run is answered, whatever becomes of the helper and whoever else   *)
(* connects, but for these two.  (onProcessExit, connectPipe.)              *)
EveryRunAnswered == Endless \/ (prompt = "yes" ~> ses.told # "none" \/ Mute)

(* A cancel reaches the helper although it was pressed before the helper    *)
(* had connected, or the run ends.  (pendingCancel_, acceptClient.)         *)
CancelReachesHelper == pressed ~> gcancel \/ ses.told # "none" \/ Mute
=============================================================================
