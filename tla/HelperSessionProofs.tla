------------------------- MODULE HelperSessionProofs -------------------------
(***************************************************************************)
(* Proofs, for any number of runs and any pipe, that the privileged write   *)
(* session of Linux and macOS implements WriteRun and that a terminal line  *)
(* is never overruled.  The inductive invariant follows the one terminal    *)
(* line of a run from the helper through the pipe and the GUI's buffer.     *)
(***************************************************************************)
EXTENDS HelperSession, SequenceTheorems, TLAPS

(* A run is open as long as its process is, and is answered once.           *)
IRun ==
  /\ runs = 0 => proc = "none" /\ answers = 0
  /\ runs > 0 /\ answers = 0 => proc # "none"
  /\ proc # "none" => answers = 0 /\ ~done
  /\ answers # 2
  /\ proc = "none" => output = <<>>

(* A process that never became the helper has left nothing behind.          *)
IOff ==
  /\ proc = "auth" \/ exit \in {"auth", "missing", "failed"} => hpc = "off"
  /\ proc = "gone" => exit # "none"
  /\ proc \in {"auth", "up"} => exit = "none"
  /\ proc = "up" => hpc # "off"
  /\ hpc = "off" => disk = "untouched" /\ output = <<>> /\ ~terminal

(* What each stretch of the write has made of the card.                     *)
IDisk ==
  /\ proc = "up" /\ hpc = "before" => disk = "untouched"
  /\ proc = "up" /\ hpc \in {"poll", "chunk", "commit"} => disk = "wiped"
  /\ hpc = "settle" => disk = "complete"

(* The reply is true of the card from the moment it is decided.             *)
IReply ==
  hpc \in {"report", "exit"} =>
    /\ reply \in Replies
    /\ reply = "result" => disk = "complete"
    /\ reply = "cancelled" => disk = "wiped"

(* No line but that reply is a terminal one, wherever it is.                *)
Genuine(p) == p.line \in Replies => hpc = "exit" /\ p.line = reply
ILines ==
  /\ \A i \in 1 .. Len(output) : Genuine(output[i])
  /\ \A i \in 1 .. Len(buf) : Genuine(buf[i])
  /\ terminal => hpc = "exit" /\ result = reply

(* Until the GUI has parsed it, its end is the last thing in the pipe.      *)
ILast ==
  hpc = "exit" /\ gui = "alive" /\ ~terminal =>
    /\ output # <<>>
    /\ output[Len(output)].ends /\ output[Len(output)].line = reply

IWins == Answered /\ hpc = "exit" => terminal

IInv == TypeOK /\ IRun /\ IOff /\ IDisk /\ IReply /\ ILines /\ ILast /\ IWins

-----------------------------------------------------------------------------
LEMMA Empty == <<>> \in Seq(Piece) /\ Len(<<>>) = 0
BY EmptySeq

(* What the GUI holds after k more pieces, and what stays in the pipe.      *)
LEMMA Fed ==
  ASSUME TypeOK, NEW k \in 1 .. Len(output)
  PROVE  LET all  == buf \o SubSeq(output, 1, k)
             rest == SubSeq(output, k + 1, Len(output))
         IN /\ all \in Seq(Piece) /\ Len(all) = Len(buf) + k
            /\ \A i \in 1 .. Len(buf) : all[i] = buf[i]
            /\ \A i \in 1 .. k : all[Len(buf) + i] = output[i]
            /\ rest \in Seq(Piece) /\ Len(rest) = Len(output) - k
            /\ \A i \in 1 .. Len(rest) : rest[i] = output[k + i]
<1> DEFINE got  == SubSeq(output, 1, k)
           rest == SubSeq(output, k + 1, Len(output))
<1>1. output \in Seq(Piece) /\ buf \in Seq(Piece) /\ Len(output) \in Nat /\ Len(buf) \in Nat
  BY LenProperties DEF TypeOK, CountsOK
<1>2. \A i \in 1 .. Len(output) : output[i] \in Piece
  BY <1>1, ElementOfSeq
<1>3. got \in Seq(Piece) /\ Len(got) = k /\ \A i \in 1 .. k : got[i] = output[i]
  BY <1>1, <1>2, SubSeqProperties
<1>4. rest \in Seq(Piece) /\ Len(rest) = Len(output) - k /\ \A i \in 1 .. Len(rest) : rest[i] = output[k + i]
  <2>1. \A i \in k + 1 .. Len(output) : output[i] \in Piece
    BY <1>1, <1>2
  <2>2. /\ rest \in Seq(Piece)
        /\ Len(rest) = IF k + 1 <= Len(output) THEN Len(output) - (k + 1) + 1 ELSE 0
        /\ \A i \in 1 .. Len(output) - (k + 1) + 1 : rest[i] = output[k + 1 + i - 1]
    BY <1>1, <2>1, SubSeqProperties
  <2>3. QED
    BY <1>1, <2>2
<1>5. /\ buf \o got \in Seq(Piece) /\ Len(buf \o got) = Len(buf) + k
      /\ \A i \in 1 .. Len(buf) + k : (buf \o got)[i] = IF i <= Len(buf) THEN buf[i] ELSE got[i - Len(buf)]
  BY <1>1, <1>3, ConcatProperties
<1>6. QED
  BY <1>1, <1>3, <1>4, <1>5

(* A line goes into the pipe as its two pieces.                             *)
LEMMA LineWritten ==
  ASSUME TypeOK, NEW l \in Line, WriteLine(l)
  PROVE  /\ output' \in Seq(Piece) /\ Len(output') \in Nat
         /\ gui = "dead" => output' = output
         /\ gui # "dead" =>
              /\ Len(output') = Len(output) + 2 /\ Len(output') <= PipeSize
              /\ \A i \in 1 .. Len(output) : output'[i] = output[i]
              /\ output'[Len(output) + 1] = [line |-> l, ends |-> FALSE]
              /\ output'[Len(output) + 2] = [line |-> l, ends |-> TRUE]
<1> DEFINE pieces == <<[line |-> l, ends |-> FALSE], [line |-> l, ends |-> TRUE]>>
<1>1. output \in Seq(Piece) /\ Len(output) \in Nat
  BY LenProperties DEF TypeOK, CountsOK
<1>2. pieces \in Seq(Piece) /\ Len(pieces) = 2
  BY DEF Piece
<1>3. CASE gui = "dead"
  BY <1>1, <1>3 DEF WriteLine
<1>4. CASE gui # "dead"
  <2>1. output' = output \o pieces /\ Len(output) + 2 <= PipeSize
    BY <1>4 DEF WriteLine
  <2>2. /\ output \o pieces \in Seq(Piece) /\ Len(output \o pieces) = Len(output) + 2
        /\ \A i \in 1 .. Len(output) + 2 : (output \o pieces)[i] = IF i <= Len(output) THEN output[i] ELSE pieces[i - Len(output)]
    BY <1>1, <1>2, ConcatProperties
  <2>3. QED
    BY <1>1, <1>4, <2>1, <2>2
<1>5. QED
  BY <1>3, <1>4

(* So the pieces in the pipe are those that were there or of that line, and *)
(* the last of them, if somebody may read it, completes it.                 *)
LEMMA LineBehind ==
  ASSUME TypeOK, NEW l \in Line, WriteLine(l)
  PROVE  /\ \A i \in 1 .. Len(output') :
               (i \in 1 .. Len(output) /\ output'[i] = output[i]) \/ output'[i].line = l
         /\ gui # "dead" => /\ output' # <<>>
                            /\ output'[Len(output')].ends /\ output'[Len(output')].line = l
<1>1. Len(output) \in Nat
  BY LenProperties DEF TypeOK, CountsOK
<1>2. CASE gui = "dead"
  BY <1>2, LineWritten
<1>3. CASE gui # "dead"
  <2>1. /\ Len(output') = Len(output) + 2
        /\ \A i \in 1 .. Len(output) : output'[i] = output[i]
        /\ output'[Len(output) + 1] = [line |-> l, ends |-> FALSE]
        /\ output'[Len(output) + 2] = [line |-> l, ends |-> TRUE]
    BY <1>3, LineWritten
  <2>2. \A i \in 1 .. Len(output') : i \in 1 .. Len(output) \/ i = Len(output) + 1 \/ i = Len(output) + 2
    BY <1>1, <2>1
  <2>3. output' # <<>>
    BY <1>1, <2>1, Empty
  <2>4. QED
    BY <2>1, <2>2, <2>3
<1>4. QED
  BY <1>2, <1>3

(* Every variable keeps to its range; the pipe never holds more than its    *)
(* size and the GUI never more than one half line.                          *)
LEMMA TypeInit == Init => TypeOK
<1> SUFFICES ASSUME Init PROVE TypeOK
  OBVIOUS
<1>1. CountsOK
  BY SessionAssumption, Empty DEF Init, CountsOK
<1>2. StatesOK
  BY DEF Init, StatesOK, Exits, Results
<1>3. QED
  BY <1>1, <1>2 DEF TypeOK

LEMMA CountsNext == TypeOK /\ [Next]_vars => CountsOK'
<1> SUFFICES ASSUME TypeOK, [Next]_vars PROVE CountsOK'
  OBVIOUS
<1> USE SessionAssumption DEF TypeOK, CountsOK
<1>1. CASE Start
  BY <1>1, Empty DEF Start, Begin, Spawn
<1>2. CASE Cancel
  BY <1>2 DEF Cancel, guiVars
<1>3. CASE Feed
  <2>1. PICK k \in 1 .. Len(output) :
          LET all == buf \o SubSeq(output, 1, k)
          IN Received(k) /\ Parse(all) /\ buf' = IF all[Len(all)].ends THEN <<>> ELSE <<all[Len(all)]>>
    BY <1>3 DEF Feed
  <2> DEFINE all == buf \o SubSeq(output, 1, k)
  <2>2. /\ all \in Seq(Piece) /\ Len(all) \in Nat \ {0}
        /\ output' \in Seq(Piece) /\ Len(output') <= PipeSize
    BY <2>1, Fed, LenProperties DEF Received
  <2>3. all[Len(all)] \in Piece
    BY <2>2, ElementOfSeq
  <2>4. buf' \in Seq(Piece) /\ Len(buf') <= 1
    BY <2>1, <2>3, Empty
  <2>5. QED
    BY <2>1, <2>2, <2>4 DEF Received
<1>4. CASE Finished \/ StartFailed
  BY <1>4 DEF Finished, StartFailed, Answer
<1>5. CASE GuiDies
  BY <1>5, Empty DEF GuiDies, guiVars
<1>6. CASE Elevate \/ Watch \/ Crash
  BY <1>6 DEF Elevate, Watch, Crash, guiVars
<1>7. CASE BeforeBody \/ Poll \/ Commit \/ Settle \/ Exit
  BY <1>7 DEF BeforeBody, Poll, Commit, Settle, Exit, Helper, guiVars
<1>8. CASE WriteChunk \/ Report
  <2>1. (\E l \in Line : WriteLine(l)) \/ UNCHANGED output
    BY <1>8 DEF WriteChunk, Report, Helper, StatesOK, Line, WriteLine
  <2>2. output' \in Seq(Piece) /\ Len(output') <= PipeSize
    BY <2>1, LineWritten
  <2>3. QED
    BY <1>8, <2>2 DEF WriteChunk, Report, Helper, guiVars
<1>9. CASE UNCHANGED vars
  BY <1>9 DEF vars, guiVars
<1>10. QED
  BY <1>1, <1>2, <1>3, <1>4, <1>5, <1>6, <1>7, <1>8, <1>9 DEF Next, Gui, Main

LEMMA StatesNext == TypeOK /\ [Next]_vars => StatesOK'
<1> SUFFICES ASSUME TypeOK, [Next]_vars PROVE StatesOK'
  OBVIOUS
<1> USE DEF TypeOK, StatesOK, Exits, Results, Replies, helperVars, guiVars
<1>1. CASE Start \/ Cancel \/ GuiDies
  BY <1>1 DEF Start, Begin, Spawn, Cancel, GuiDies
<1>2. CASE Feed
  <2>1. PICK k \in 1 .. Len(output) : Received(k) /\ Parse(buf \o SubSeq(output, 1, k))
    BY <1>2 DEF Feed
  <2> DEFINE all == buf \o SubSeq(output, 1, k)
  <2>2. \A i \in 1 .. Len(all) : all[i] \in Piece
    BY <2>1, Fed, ElementOfSeq
  <2>3. result' \in Results /\ terminal' \in BOOLEAN
    BY <2>1, <2>2 DEF Parse, Terminals
  <2>4. QED
    BY <2>1, <2>3 DEF Received
<1>3. CASE Finished \/ StartFailed
  <2>1. result' \in Results
    <3>1. exit \in {"ok", "auth", "missing", "crash", "failed"}
      BY <1>3 DEF Finished, StartFailed
    <3>2. \E r \in {result, Backstop[exit]} : result' = r
      BY <1>3 DEF Finished, StartFailed, Answer
    <3>3. QED
      BY <3>1, <3>2 DEF Backstop
  <2>2. QED
    BY <1>3, <2>1 DEF Finished, StartFailed, Answer
<1>4. CASE Elevate \/ Watch \/ Crash
  BY <1>4 DEF Elevate, Watch, Crash, Ends
<1>5. CASE Main
  BY <1>5 DEF Main, BeforeBody, Poll, WriteChunk, Commit, Settle, Report, Exit, Helper, Fails, Ends
<1>6. CASE UNCHANGED vars
  BY <1>6 DEF vars
<1>7. QED
  BY <1>1, <1>2, <1>3, <1>4, <1>5, <1>6 DEF Next, Gui

LEMMA TypeNext == TypeOK /\ [Next]_vars => TypeOK'
BY CountsNext, StatesNext DEF TypeOK

THEOREM TypeCorrect == Spec => []TypeOK
BY TypeInit, TypeNext, PTL DEF Spec

-----------------------------------------------------------------------------
LEMMA InvInit == Init => IInv
<1> SUFFICES ASSUME Init PROVE IInv
  OBVIOUS
<1>1. TypeOK
  BY TypeInit
<1>2. QED
  BY <1>1, Empty DEF Init, IInv, IRun, IOff, IDisk, IReply, ILines, ILast, IWins, Answered

(* What the steps of the helper have in common.                             *)
LEMMA MainStep ==
  ASSUME IInv, Main
  PROVE  /\ proc = "up" /\ answers = 0 /\ ~done /\ hpc' # "off"
         /\ UNCHANGED <<gui, runs, pressed, input, gcancel, watching, buf, result, terminal, done, answers>>
         /\ proc' \in {"up", "gone"}
<1> USE DEF Main, BeforeBody, Poll, WriteChunk, Commit, Settle, Report, Exit, Helper, Fails, Ends, guiVars
<1>1. QED
  BY DEF IInv, IRun, IOff

LEMMA RunStep == IInv /\ [Next]_vars => IRun'
<1> SUFFICES ASSUME IInv, [Next]_vars PROVE IRun'
  OBVIOUS
<1> USE SessionAssumption DEF IInv, IRun, TypeOK, CountsOK
<1>1. CASE Start
  BY <1>1 DEF Start, Begin, Spawn
<1>2. CASE Cancel \/ Watch \/ UNCHANGED vars
  BY <1>2 DEF Cancel, Watch, vars, guiVars
<1>3. CASE Feed
  BY <1>3, Empty DEF Feed, Received
<1>4. CASE Finished \/ StartFailed
  BY <1>4 DEF Finished, StartFailed, Answer, IOff
<1>5. CASE GuiDies
  BY <1>5 DEF GuiDies, guiVars
<1>6. CASE Elevate \/ Crash
  BY <1>6 DEF Elevate, Crash, Ends, guiVars
<1>7. CASE Main
  BY <1>7, MainStep
<1>8. QED
  BY <1>1, <1>2, <1>3, <1>4, <1>5, <1>6, <1>7 DEF Next, Gui

LEMMA OffStep == IInv /\ [Next]_vars => IOff'
<1> SUFFICES ASSUME IInv, [Next]_vars PROVE IOff'
  OBVIOUS
<1> USE DEF IInv, IOff, helperVars, guiVars
<1>1. CASE Start
  BY <1>1 DEF Start, Spawn
<1>2. CASE Cancel \/ Watch \/ UNCHANGED vars
  BY <1>2 DEF Cancel, Watch, vars
<1>3. CASE Feed
  BY <1>3, Empty DEF Feed, Received
<1>4. CASE Finished \/ StartFailed \/ GuiDies
  BY <1>4 DEF Finished, StartFailed, Answer, GuiDies
<1>5. CASE Elevate \/ Crash
  BY <1>5 DEF Elevate, Crash, Ends
<1>6. CASE Main
  <2>1. CASE Exit
    BY <1>6, <2>1, MainStep DEF Exit, Ends
  <2>2. CASE ~Exit
    <3>1. exit' = exit /\ proc' = proc
      BY <1>6, <2>2 DEF Main, BeforeBody, Poll, WriteChunk, Commit, Settle, Report
    <3>2. QED
      BY <1>6, <3>1, MainStep
  <2>3. QED
    BY <2>1, <2>2
<1>7. QED
  BY <1>1, <1>2, <1>3, <1>4, <1>5, <1>6 DEF Next, Gui

LEMMA CardStep == IInv /\ [Next]_vars => IDisk' /\ IReply'
<1> SUFFICES ASSUME IInv, [Next]_vars PROVE IDisk' /\ IReply'
  OBVIOUS
<1> USE DEF IInv, IDisk, IReply, helperVars
<1>1. CASE Start
  BY <1>1 DEF Start, Spawn
<1>2. CASE Cancel \/ Feed \/ Finished \/ StartFailed \/ GuiDies \/ UNCHANGED vars
  BY <1>2 DEF Cancel, Feed, Received, Finished, StartFailed, Answer, GuiDies, vars
<1>3. CASE Elevate
  BY <1>3 DEF Elevate, Ends, IOff
<1>4. CASE Watch \/ Crash
  BY <1>4 DEF Watch, Crash, Ends
<1>5. CASE BeforeBody \/ Poll \/ WriteChunk \/ Commit
  BY <1>5 DEF BeforeBody, Poll, WriteChunk, Commit, Helper, Fails, Replies
<1>6. CASE Settle \/ Report \/ Exit
  BY <1>6 DEF Settle, Report, Exit, Helper, Ends, Replies
<1>7. QED
  BY <1>1, <1>2, <1>3, <1>4, <1>5, <1>6 DEF Next, Gui, Main

(* A read takes pieces from the front and keeps at most the last of them.   *)
LEMMA FeedStep ==
  ASSUME IInv, Feed
  PROVE  ILines' /\ ILast' /\ IWins'
<1> USE DEF IInv
<1>1. PICK k \in 1 .. Len(output) :
        LET all == buf \o SubSeq(output, 1, k)
        IN Received(k) /\ Parse(all) /\ buf' = IF all[Len(all)].ends THEN <<>> ELSE <<all[Len(all)]>>
  BY DEF Feed
<1> DEFINE all == buf \o SubSeq(output, 1, k)
<1> HIDE DEF all
<1>2. /\ all \in Seq(Piece) /\ Len(all) = Len(buf) + k
      /\ \A i \in 1 .. Len(buf) : all[i] = buf[i]
      /\ \A i \in 1 .. k : all[Len(buf) + i] = output[i]
      /\ output' \in Seq(Piece) /\ Len(output') = Len(output) - k
      /\ \A i \in 1 .. Len(output') : output'[i] = output[k + i]
  BY <1>1, Fed DEF Received, all
<1>3. Parse(all) /\ buf' = IF all[Len(all)].ends THEN <<>> ELSE <<all[Len(all)]>>
  BY <1>1 DEF all
<1>4. Len(buf) \in Nat /\ Len(output) \in Nat
  BY LenProperties DEF TypeOK, CountsOK
<1>5. hpc' = hpc /\ reply' = reply /\ gui' = gui /\ answers' = answers
  BY <1>1 DEF Received, helperVars
<1>6. \A i \in 1 .. Len(all) : Genuine(all[i])
  <2> SUFFICES ASSUME NEW i \in 1 .. Len(all) PROVE Genuine(all[i])
    OBVIOUS
  <2>1. CASE i <= Len(buf)
    BY <1>2, <1>4, <2>1 DEF ILines
  <2>2. CASE i > Len(buf)
    <3>1. i - Len(buf) \in 1 .. k /\ Len(buf) + (i - Len(buf)) = i
      BY <1>2, <1>4, <2>2
    <3>2. all[i] = output[i - Len(buf)]
      BY <1>2, <3>1
    <3>3. QED
      BY <1>4, <3>1, <3>2 DEF ILines
  <2>3. QED
    BY <1>2, <1>4, <2>1, <2>2
<1>7. \A i \in 1 .. Len(output') : Genuine(output'[i])
  BY <1>2, <1>4 DEF ILines
<1>8. \A i \in 1 .. Len(buf') : Genuine(buf'[i])
  <2>1. CASE buf' = <<>>
    BY <2>1, Empty
  <2>2. CASE buf' = <<all[Len(all)]>>
    BY <1>2, <1>4, <1>6, <2>2
  <2>3. QED
    BY <1>3, <2>1, <2>2
<1>9. terminal' => hpc = "exit" /\ result' = reply
  BY <1>3, <1>6 DEF Parse, Terminals, ILines, Genuine
<1>10. terminal => terminal'
  BY <1>3 DEF Parse
<1>11. ILines'
  BY <1>5, <1>7, <1>8, <1>9 DEF ILines, Genuine
<1>12. ILast'
  <2> SUFFICES ASSUME hpc = "exit", gui = "alive", ~terminal'
               PROVE  /\ output' # <<>>
                      /\ output'[Len(output')].ends /\ output'[Len(output')].line = reply
    BY <1>5 DEF ILast
  <2>1. output[Len(output)].ends /\ output[Len(output)].line = reply
    BY <1>10 DEF ILast
  <2>2. CASE k = Len(output)
    <3>1. all[Len(all)] = output[k]
      BY <1>2, <1>4, <2>2
    <3>2. Len(all) \in Terminals(all)
      BY <1>2, <1>4, <2>1, <2>2, <3>1 DEF Terminals, IReply
    <3>3. QED
      BY <1>3, <3>2 DEF Parse
  <2>3. CASE k # Len(output)
    BY <1>2, <1>4, <2>1, <2>3, Empty
  <2>4. QED
    BY <2>2, <2>3
<1>13. IWins'
  BY <1>5, <1>10 DEF IWins, Answered
<1>14. QED
  BY <1>11, <1>12, <1>13

(* A line enters the pipe behind all others, and only the reply is terminal.*)
LEMMA WriteStep ==
  ASSUME IInv, WriteChunk \/ Report
  PROVE  ILines' /\ ILast' /\ IWins'
<1> USE DEF IInv
<1>1. Main
  BY DEF Main
<1>2. proc = "up" /\ answers' = 0 /\ UNCHANGED <<gui, buf, result, terminal>>
  BY <1>1, MainStep
<1>4. ~terminal /\ hpc \in {"chunk", "report"}
  BY DEF WriteChunk, Report, Helper, ILines
<1>5. CASE WriteChunk
  <2>1. hpc' # "exit"
    BY <1>5 DEF WriteChunk, Fails
  <2>2. \A i \in 1 .. Len(output) : output[i].line \notin Replies
    BY <1>4 DEF ILines, Genuine
  <2>3. \A i \in 1 .. Len(output') : output'[i].line \notin Replies
    <3>1. CASE UNCHANGED output
      BY <2>2, <3>1
    <3>2. CASE WriteLine("progress")
      <4>1. "progress" \in Line /\ "progress" \notin Replies
        BY DEF Line, Replies
      <4> HIDE DEF Line, Replies
      <4>2. QED
        BY <2>2, <3>2, <4>1, LineBehind
    <3>3. QED
      BY <1>5, <3>1, <3>2 DEF WriteChunk
  <2>4. \A i \in 1 .. Len(buf') : buf'[i].line \notin Replies
    BY <1>2, <1>4 DEF ILines, Genuine
  <2>5. QED
    BY <1>2, <1>4, <2>1, <2>3, <2>4 DEF ILines, Genuine, ILast, IWins, Answered
<1>6. CASE Report
  <2>1. hpc' = "exit" /\ reply' = reply /\ WriteLine(reply) /\ reply \in Replies /\ reply \in Line
    BY <1>6 DEF Report, Helper, IReply, Line
  <2>2. \A i \in 1 .. Len(output) : output[i].line \notin Replies
    BY <1>4 DEF ILines, Genuine
  <2>3. \A i \in 1 .. Len(output') : output'[i].line \in Replies => output'[i].line = reply
    BY <2>1, <2>2, LineBehind
  <2>4. gui = "alive" => /\ output' # <<>>
                         /\ output'[Len(output')].ends /\ output'[Len(output')].line = reply
    BY <2>1, LineBehind
  <2>5. \A i \in 1 .. Len(buf') : buf'[i].line \notin Replies
    BY <1>2, <1>4 DEF ILines, Genuine
  <2>6. QED
    BY <1>2, <1>4, <2>1, <2>3, <2>4, <2>5 DEF ILines, Genuine, ILast, IWins, Answered
<1>7. QED
  BY <1>5, <1>6

LEMMA LineStep == IInv /\ [Next]_vars => ILines' /\ ILast' /\ IWins'
<1> SUFFICES ASSUME IInv, [Next]_vars PROVE ILines' /\ ILast' /\ IWins'
  OBVIOUS
<1> USE DEF IInv, helperVars, guiVars
<1>1. CASE Start
  BY <1>1, Empty DEF Start, Begin, Spawn, ILines, ILast, IWins, Answered
<1>2. CASE Feed
  BY <1>2, FeedStep
<1>3. CASE Finished \/ StartFailed
  <2>1. output' = output /\ hpc' = hpc /\ reply' = reply /\ gui' = gui /\ buf' = buf /\ terminal' = terminal
    BY <1>3 DEF Finished, StartFailed, Answer
  <2>2. terminal => result' = result
    BY <1>3 DEF Finished, StartFailed, Answer
  <2>3. hpc = "exit" => terminal
    BY <1>3 DEF Finished, StartFailed, ILast, IOff
  <2>4. QED
    BY <2>1, <2>2, <2>3 DEF ILines, Genuine, ILast, IWins
<1>4. CASE Cancel \/ Watch \/ Crash \/ UNCHANGED vars
  BY <1>4 DEF Cancel, Watch, Crash, vars, ILines, Genuine, ILast, IWins, Answered
<1>5. CASE GuiDies
  BY <1>5, Empty DEF GuiDies, ILines, Genuine, ILast, IWins, Answered
<1>6. CASE Elevate
  BY <1>6, Empty DEF Elevate, IOff, IRun, ILines, Genuine, ILast, IWins, Answered
<1>7. CASE WriteChunk \/ Report
  BY <1>7, WriteStep
<1>8. CASE BeforeBody \/ Poll \/ Commit \/ Settle \/ Exit
  <2>1. Main
    BY <1>8 DEF Main
  <2>2. answers' = 0 /\ UNCHANGED <<gui, buf, result, terminal, output>>
    BY <1>8, <2>1, MainStep DEF BeforeBody, Poll, Commit, Settle, Exit
  <2>3. \/ hpc' # "exit" /\ hpc # "exit"
        \/ hpc' = hpc /\ reply' = reply
    BY <1>8 DEF BeforeBody, Poll, Commit, Settle, Exit, Helper, Fails
  <2>4. QED
    BY <2>2, <2>3 DEF ILines, Genuine, ILast, IWins, Answered
<1>9. QED
  BY <1>1, <1>2, <1>3, <1>4, <1>5, <1>6, <1>7, <1>8 DEF Next, Gui, Main

LEMMA InvNext == IInv /\ [Next]_vars => IInv'
<1>1. IInv /\ [Next]_vars => TypeOK'
  BY TypeNext DEF IInv
<1>2. QED
  BY <1>1, RunStep, OffStep, CardStep, LineStep DEF IInv

(* The inductive invariant holds of every behaviour.                        *)
THEOREM Invariant == Spec => []IInv
BY InvInit, InvNext, PTL DEF Spec

(* The terminal line the helper wrote is the answer, however the pipe cut   *)
(* it up and however the process ended.                                     *)
THEOREM TerminalLine == Spec => []TerminalLineWins
<1>1. IInv => TerminalLineWins
  BY DEF IInv, IWins, ILines, TerminalLineWins
<1>2. QED
  BY Invariant, <1>1, PTL

-----------------------------------------------------------------------------
(* The refinement, step by step.                                            *)
LEMMA RunInit == Init => Run!Init
BY DEF Init, Run!Init, Told, Answered

(* What the answers say is true when they are given.                        *)
LEMMA AnswerStep ==
  ASSUME IInv, Finished \/ StartFailed
  PROVE  Run!Answer
<1> USE DEF IInv
<1>1. answers = 0 /\ runs > 0 /\ answers' = 1 /\ runs' = runs /\ disk' = disk
  BY DEF Finished, StartFailed, Answer, IRun, helperVars, TypeOK, CountsOK
<1>2. CASE terminal
  <2>1. result' = reply /\ reply \in Replies /\ hpc = "exit"
    BY <1>2 DEF Finished, StartFailed, Answer, ILines, IReply
  <2>2. /\ Told' = IF reply = "result" THEN "written" ELSE IF reply = "cancelled" THEN "cancelled" ELSE "failed"
    BY <1>1, <2>1 DEF Told, Answered, Replies
  <2>3. QED
    BY <1>1, <2>1, <2>2 DEF Run!Answer, IReply
<1>3. CASE ~terminal
  <2>1. exit \in {"ok", "auth", "missing", "crash", "failed"} /\ result' = Backstop[exit]
    BY <1>3 DEF Finished, StartFailed, Answer, TypeOK, StatesOK, Exits
  <2>2. exit \in {"ok", "crash"} => Told' = "failed"
    BY <1>1, <2>1 DEF Backstop, Told, Answered
  <2>3. exit \in {"auth", "missing", "failed"} => Told' = "nothing" /\ disk = "untouched"
    BY <1>1, <2>1 DEF Backstop, Told, Answered, IOff
  <2>4. QED
    BY <1>1, <2>1, <2>2, <2>3 DEF Run!Answer
<1>4. QED
  BY <1>2, <1>3

LEMMA RunNext == IInv /\ [Next]_vars => [Run!Next]_Run!vars
<1> SUFFICES ASSUME IInv, [Next]_vars PROVE [Run!Next]_Run!vars
  OBVIOUS
<1> USE DEF IInv, Run!vars
<1>1. CASE Start
  <2>1. runs \in Nat /\ runs' = runs + 1 /\ answers' = 0 /\ disk' = "untouched" /\ (runs = 0 \/ answers = 1)
    BY <1>1 DEF Start, Begin, Spawn, IRun, TypeOK, CountsOK
  <2>2. Told' = "none"
    BY <2>1 DEF Told, Answered
  <2>3. Run!Begin
    BY <2>1, <2>2, <1>1 DEF Run!Begin, IRun, TypeOK, CountsOK
  <2>4. QED
    BY <2>3 DEF Run!Next
<1>2. CASE Feed
  <2>1. proc # "none" /\ answers = 0
    BY <1>2, Empty DEF Feed, IRun
  <2>2. UNCHANGED <<runs, answers, disk>>
    BY <1>2 DEF Feed, Received, helperVars
  <2>3. QED
    BY <2>1, <2>2 DEF Told, Answered
<1>3. CASE Finished \/ StartFailed
  BY <1>3, AnswerStep DEF Run!Next
<1>4. CASE Cancel \/ GuiDies \/ Elevate \/ Watch \/ UNCHANGED vars
  BY <1>4 DEF Cancel, GuiDies, Elevate, Watch, vars, helperVars, guiVars, Told, Answered
<1>5. CASE Main \/ Crash
  <2>1. proc = "up" /\ UNCHANGED <<runs, answers>>
    BY <1>5, MainStep DEF Crash, guiVars
  <2>2. answers = 0 /\ runs > 0
    BY <2>1 DEF IRun, TypeOK, CountsOK
  <2>3. Told = "none" /\ Told' = "none"
    BY <2>1, <2>2 DEF Told, Answered
  <2>4. \/ disk' = disk
        \/ disk = "untouched" /\ disk' \in {"wiped", "torn"}
        \/ disk = "wiped" /\ disk' \in {"torn", "complete"}
    <3>1. CASE Crash
      BY <2>1, <3>1 DEF Crash, IDisk
    <3>2. CASE BeforeBody \/ Commit
      BY <2>1, <3>2 DEF BeforeBody, Commit, Helper, IDisk
    <3>3. CASE Poll \/ WriteChunk \/ Settle \/ Report \/ Exit
      BY <3>3 DEF Poll, WriteChunk, Settle, Report, Exit
    <3>4. QED
      BY <1>5, <3>1, <3>2, <3>3 DEF Main
  <2>5. QED
    BY <2>1, <2>2, <2>3, <2>4 DEF Run!Next, Run!Touch
<1>6. QED
  BY <1>1, <1>2, <1>3, <1>4, <1>5 DEF Next, Gui

(* The session implements WriteRun: the card changes only while a run is    *)
(* open, each run gets one answer, and the answer is true of the card.      *)
THEOREM Refinement == Spec => KeepsRunPromise
BY Invariant, RunInit, RunNext, PTL DEF Spec, KeepsRunPromise, Run!Spec
=============================================================================
