---------------------------- MODULE HelperSession ----------------------------
(***************************************************************************)
(* One privileged write at a time: the GUI's HelperProcess over a           *)
(* PkexecHelperSession, the stdio pipes, and kuiper-imager-helper with its  *)
(* cancel-watcher thread.  The GUI may press Cancel at any moment, or die;  *)
(* authentication may be refused; the helper may crash.                     *)
(*                                                                          *)
(* The write itself is reduced to its three stretches (module               *)
(* FlashPipeline has them in full): before the body, where it does not look *)
(* at the cancel token; the body, polled before every chunk; and the commit *)
(* of the head, not polled again.                                           *)
(***************************************************************************)
EXTENDS Integers, Sequences

CONSTANTS
  MaxRuns,    \* bound: writes the GUI starts
  PipeSize    \* pieces of lines the stdout pipe holds

ASSUME SessionAssumption ==
  /\ MaxRuns \in Nat \ {0}
  /\ PipeSize \in Nat \ {0, 1}

VARIABLES
  gui,        \* "alive" or "dead"
  runs,       \* writes started so far
  pressed,    \* Cancel was pressed during the present run
  proc,       \* the child process: "none", "auth", "up", "gone"
  exit,       \* how it ended
  input,      \* its stdin: "cancel" lines not read yet
  output,     \* its stdout: pieces not read yet
  hpc,        \* where the helper's main thread stands
  gcancel,    \* g_cancel
  watching,   \* the cancel watcher still reads
  reply,      \* the terminal line the verb has decided on
  disk,       \* what the run has made of the card
  buf,        \* HelperProcess::buf_
  result,     \* HelperProcess::result_
  terminal,   \* HelperProcess::sawTerminal_
  done,       \* PkexecHelperSession::done_
  answers     \* finished() signals of the present run

guiVars    == <<buf, result, terminal, done, answers>>
helperVars == <<hpc, gcancel, watching, reply, disk>>
vars == <<gui, runs, pressed, proc, exit, input, output, helperVars, guiVars>>

Replies == {"result", "cancelled", "error"}
Line    == {"progress"} \cup Replies

(* A line travels as two pieces: a read may end between them.               *)
Piece == [line : Line, ends : BOOLEAN]

Exits   == {"none", "ok", "auth", "missing", "crash", "failed"}
Results == Replies \cup {"none", "NoReport", "AuthCancelled", "HelperNotFound",
                         "Crashed", "LaunchFailed"}

CountsOK ==
  /\ runs \in 0 .. MaxRuns
  /\ input \in 0 .. 1 /\ (input = 1 => pressed)
  /\ output \in Seq(Piece) /\ Len(output) <= PipeSize
  /\ buf \in Seq(Piece) /\ Len(buf) <= 1
  /\ answers \in 0 .. 1 /\ (done <=> answers = 1)

StatesOK ==
  /\ gui \in {"alive", "dead"}
  /\ pressed \in BOOLEAN
  /\ proc \in {"none", "auth", "up", "gone"}
  /\ exit \in Exits /\ (proc = "gone" => exit # "none")
  /\ hpc \in {"off", "before", "poll", "chunk", "commit", "settle", "report", "exit"}
  /\ gcancel \in BOOLEAN
  /\ watching \in BOOLEAN
  /\ reply \in Replies \cup {"none"} /\ (hpc \in {"report", "exit"} => reply # "none")
  /\ disk \in {"untouched", "wiped", "torn", "complete"}
  /\ result \in Results
  /\ terminal \in BOOLEAN
  /\ done \in BOOLEAN

TypeOK == CountsOK /\ StatesOK

Init ==
  /\ gui = "alive" /\ runs = 0 /\ pressed = FALSE
  /\ proc = "none" /\ exit = "none" /\ input = 0 /\ output = <<>>
  /\ hpc = "off" /\ gcancel = FALSE /\ watching = FALSE /\ reply = "none"
  /\ disk = "untouched"
  /\ buf = <<>> /\ result = "none" /\ terminal = FALSE
  /\ done = FALSE /\ answers = 0

-----------------------------------------------------------------------------
(* The GUI.                                                                 *)

(* A new child process, with pipes and a g_cancel of its own.               *)
Spawn ==
  /\ proc = "none"
  /\ proc' = "auth" /\ exit' = "none" /\ input' = 0 /\ output' = <<>>
  /\ hpc' = "off" /\ gcancel' = FALSE /\ watching' = FALSE /\ reply' = "none"
  /\ disk' = "untouched"

Begin ==
  /\ gui = "alive" /\ runs < MaxRuns
  /\ runs' = runs + 1
  /\ pressed' = FALSE /\ answers' = 0
  /\ UNCHANGED gui

\* Mutant: what the last run reported is not forgotten.
StartStale ==
  /\ Begin /\ Spawn
  /\ done' = FALSE /\ buf' = <<>>
  /\ UNCHANGED <<result, terminal>>

(* HelperProcess::start, behind the busy() check of ConsoleWindow, and      *)
(* PkexecHelperSession::start.                                              *)
Start ==
  /\ Begin /\ Spawn
  /\ done' = FALSE /\ buf' = <<>>
  /\ result' = "none" /\ terminal' = FALSE

(* The Cancel button: one line, as long as the process runs.                *)
Cancel ==
  /\ gui = "alive" /\ proc # "none" /\ ~pressed
  /\ pressed' = TRUE
  /\ input' = IF proc = "gone" THEN input ELSE input + 1
  /\ UNCHANGED <<gui, runs, proc, exit, output, helperVars, guiVars>>

(* The pieces of s that complete a terminal line; the last of them counts.  *)
Terminals(s) == {i \in 1 .. Len(s) : s[i].ends /\ s[i].line \in Replies}
Parse(s) ==
  IF Terminals(s) = {} THEN UNCHANGED <<result, terminal>>
  ELSE \E i \in Terminals(s) :
         /\ \A j \in Terminals(s) : j <= i
         /\ result' = s[i].line /\ terminal' = TRUE

Received(k) ==
  /\ gui = "alive"
  /\ output' = SubSeq(output, k + 1, Len(output))
  /\ UNCHANGED <<gui, runs, pressed, proc, exit, input, helperVars, done, answers>>

\* Mutant: each chunk is parsed as if it held whole lines only.
FeedAligned ==
  \E k \in 1 .. Len(output) :
    LET got == SubSeq(output, 1, k)
    IN /\ Received(k)
       /\ Parse(IF Head(got).ends THEN Tail(got) ELSE got)
       /\ UNCHANGED buf

(* A chunk of stdout arrives: HelperProcess::feed parses its whole lines    *)
(* and keeps the rest.                                                      *)
Feed ==
  \E k \in 1 .. Len(output) :
    LET all == buf \o SubSeq(output, 1, k)
    IN /\ Received(k)
       /\ Parse(all)
       /\ buf' = IF all[Len(all)].ends THEN <<>> ELSE <<all[Len(all)]>>

(* What onFinished reports when the helper sent no terminal line.           *)
Backstop ==
  [ok |-> "NoReport", auth |-> "AuthCancelled", missing |-> "HelperNotFound",
   crash |-> "Crashed", failed |-> "LaunchFailed"]

(* The session's finished() and HelperProcess::onFinished; the process is   *)
(* no longer running.                                                       *)
Answer(r) ==
  /\ result' = r
  /\ done' = TRUE
  /\ answers' = answers + 1
  /\ proc' = "none"
  /\ UNCHANGED <<gui, runs, pressed, exit, input, output, helperVars, buf, terminal>>

(* QProcess::finished, once stdout is drained.  It never follows a failed   *)
(* start, so with Qt's signals as they are done_ has nothing to decide.     *)
Finished ==
  /\ gui = "alive" /\ proc = "gone" /\ exit # "failed"
  /\ output = <<>>
  /\ ~done
  /\ Answer(IF terminal THEN result ELSE Backstop[exit])

\* Mutant: a failed start is not reported; finished() never fires for it.
StartFailedIgnored ==
  /\ gui = "alive" /\ proc = "gone" /\ exit = "failed"
  /\ proc' = "none"
  /\ UNCHANGED <<gui, runs, pressed, exit, input, output, helperVars, guiVars>>

(* QProcess::errorOccurred, raised for a failed start and, before its       *)
(* finished(), for a crash: only the failed start is reported from here.    *)
StartFailed ==
  /\ gui = "alive" /\ proc = "gone" /\ exit = "failed"
  /\ ~done
  /\ Answer(IF terminal THEN result ELSE Backstop[exit])

GuiDies ==
  /\ gui = "alive"
  /\ gui' = "dead"
  /\ output' = <<>>
  /\ UNCHANGED <<runs, pressed, proc, exit, input, helperVars, guiVars>>

Gui == Start \/ Cancel \/ Feed \/ Finished \/ StartFailed

-----------------------------------------------------------------------------
(* pkexec: it is started or not, and execs the helper or exits.             *)
Ends(how) == proc' = "gone" /\ exit' = how

Elevate ==
  /\ proc = "auth"
  /\ \/ proc' = "up" /\ hpc' = "before" /\ watching' = TRUE /\ UNCHANGED exit
     \/ (\E how \in {"auth", "missing", "failed"} : Ends(how)) /\ UNCHANGED <<hpc, watching>>
  /\ UNCHANGED <<gui, runs, pressed, input, output, gcancel, reply, disk, guiVars>>

-----------------------------------------------------------------------------
(* The helper.                                                              *)

\* Mutant: only a "cancel" line stops the write, not the end of stdin.
WatchLineOnly ==
  /\ proc = "up" /\ watching
  /\ input > 0
  /\ input' = 0
  /\ gcancel' = TRUE /\ watching' = FALSE
  /\ UNCHANGED <<gui, runs, pressed, proc, exit, output, hpc, reply, disk, guiVars>>

(* StdioChannel::watchCancel: a "cancel" line, or the end of stdin.         *)
Watch ==
  /\ proc = "up" /\ watching
  /\ input > 0 \/ gui = "dead"
  /\ input' = 0
  /\ gcancel' = TRUE /\ watching' = FALSE
  /\ UNCHANGED <<gui, runs, pressed, proc, exit, output, hpc, reply, disk, guiVars>>

(* StdioChannel::writeLine, flushed at once: it waits for room in the pipe  *)
(* while somebody may read it; a closed stdout swallows the line.           *)
WriteLine(l) ==
  IF gui = "dead" THEN UNCHANGED output
  ELSE /\ Len(output) + 2 <= PipeSize
       /\ output' = output \o <<[line |-> l, ends |-> FALSE], [line |-> l, ends |-> TRUE]>>

Helper(from) ==
  /\ proc = "up" /\ hpc = from
  /\ UNCHANGED <<gui, runs, pressed, input, gcancel, watching, guiVars>>

Fails(why) == hpc' = "report" /\ reply' = why

(* Guard, open and wipe: each may fail, and none looks at the token.        *)
BeforeBody ==
  /\ Helper("before")
  /\ \/ hpc' = "poll" /\ disk' = "wiped" /\ UNCHANGED reply
     \/ Fails("error") /\ disk' \in {"untouched", "torn"}
  /\ UNCHANGED <<proc, exit, output>>

\* Mutant: the write does not look at the token.
PollNever ==
  /\ Helper("poll")
  /\ hpc' \in {"chunk", "commit"}
  /\ UNCHANGED <<proc, exit, output, reply, disk>>

Poll ==
  /\ Helper("poll")
  /\ IF gcancel THEN Fails("cancelled")
     ELSE hpc' \in {"chunk", "commit"} /\ UNCHANGED reply
  /\ UNCHANGED <<proc, exit, output, disk>>

(* A chunk is written, with or without a progress line, or fails.           *)
WriteChunk ==
  /\ Helper("chunk")
  /\ \/ hpc' = "poll" /\ (WriteLine("progress") \/ UNCHANGED output) /\ UNCHANGED reply
     \/ Fails("error") /\ UNCHANGED output
  /\ UNCHANGED <<proc, exit, disk>>

(* The head is written and checked, or that fails half way.                 *)
Commit ==
  /\ Helper("commit")
  /\ \/ hpc' = "settle" /\ disk' = "complete" /\ UNCHANGED reply
     \/ Fails("error") /\ disk' \in {"wiped", "torn"}
  /\ UNCHANGED <<proc, exit, output>>

(* settleDevice comes before the result line: the GUI's next look at the    *)
(* card sees the new partitions.                                            *)
Settle ==
  /\ Helper("settle")
  /\ hpc' = "report" /\ reply' = "result"
  /\ UNCHANGED <<proc, exit, output, disk>>

Report ==
  /\ Helper("report")
  /\ WriteLine(reply)
  /\ hpc' = "exit"
  /\ UNCHANGED <<proc, exit, reply, disk>>

(* main ends with _Exit and does not wait for the watcher.                  *)
Exit ==
  /\ Helper("exit")
  /\ Ends("ok")
  /\ UNCHANGED <<output, hpc, reply, disk>>

Main == BeforeBody \/ Poll \/ WriteChunk \/ Commit \/ Settle \/ Report \/ Exit

(* The helper dies: what it was doing to the card stays half done.          *)
Crash ==
  /\ proc = "up"
  /\ Ends("crash")
  /\ disk' \in (IF hpc \in {"before", "commit"} THEN {disk, "torn"} ELSE {disk})
  /\ UNCHANGED <<gui, runs, pressed, input, output, hpc, gcancel, watching, reply, guiVars>>

Next == Gui \/ GuiDies \/ Elevate \/ Watch \/ Main \/ Crash

Spec == Init /\ [][Next]_vars

(* The event loop runs, the prompt is answered, both threads of the helper  *)
(* are scheduled.  Nobody has to start, cancel, die or crash, and nothing   *)
(* is assumed of how long the body of the image is.                         *)
Fairness == /\ WF_vars(Feed) /\ WF_vars(Finished) /\ WF_vars(StartFailed)
            /\ WF_vars(Elevate) /\ WF_vars(Watch) /\ WF_vars(Main)

FairSpec == Spec /\ Fairness

-----------------------------------------------------------------------------
Answered == answers > 0

(* The refinement: the answers are grouped by what they say of the card.    *)
Told ==
  IF ~Answered THEN "none"
  ELSE CASE result = "result" -> "written"
         [] result = "cancelled" -> "cancelled"
         [] result \in {"AuthCancelled", "HelperNotFound", "LaunchFailed"} -> "nothing"
         [] OTHER -> "failed"

Run == INSTANCE WriteRun WITH
  phase <- CASE answers = 0 /\ runs > 0 -> "running"
             [] answers = 2 -> "answered twice"
             [] OTHER -> "idle",
  card <- disk,
  answer <- Told

(* The session implements WriteRun: one answer per run, true of the card    *)
(* also right after a run with another answer, and nobody writes to the     *)
(* card any more once it is given.  (HelperProcess::onFinished, done_.)     *)
KeepsRunPromise == Run!Spec

(* A terminal line the helper has written is the answer, split over reads   *)
(* or not, and whatever becomes of the process afterwards.  (feed.)         *)
TerminalLineWins == Answered /\ hpc = "exit" => result = reply

(* An image that never ends.                                                *)
Endless == []<>(proc = "up" /\ hpc = "poll") /\ []<>(proc = "up" /\ hpc = "chunk")

(* Every run is answered while the GUI lives, unless its image never ends:  *)
(* the window does not stay busy.                                           *)
EveryRunAnswered == Endless \/ (proc = "auth" ~> Answered \/ gui = "dead")

(* Cancel ends the run, with whatever answer, whatever the image, and also  *)
(* when it is pressed before the helper runs.  (HelperProcess::cancel.)     *)
CancelAnswered == pressed ~> Answered \/ gui = "dead"

(* When the GUI dies the elevated helper does not go on: nobody would be    *)
(* left to cancel it.  (The end of stdin counts as a cancel.)               *)
OrphanStops == gui = "dead" ~> proc \in {"none", "gone"}
=============================================================================
