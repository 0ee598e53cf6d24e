------------------------------ MODULE WriteRun -------------------------------
(***************************************************************************)
(* What one privileged write promises the window above it (IHelperSession   *)
(* and HelperProcess, whatever the platform): the card changes only between *)
(* the start of a run and its one answer, and the answer is true of it.     *)
(***************************************************************************)
VARIABLES
  phase,    \* "idle" or "running"
  card,     \* what the present run has made of the card
  answer    \* what the window was told of it

vars == <<phase, card, answer>>

TypeOK ==
  /\ phase \in {"idle", "running"}
  /\ card \in {"untouched", "wiped", "torn", "complete"}
  /\ answer \in {"none", "written", "cancelled", "nothing", "failed"}

Init == phase = "idle" /\ card = "untouched" /\ answer = "none"

Begin ==
  /\ phase = "idle"
  /\ phase' = "running" /\ card' = "untouched" /\ answer' = "none"

Touch ==
  /\ phase = "running"
  /\ \/ card = "untouched" /\ card' \in {"wiped", "torn"}
     \/ card = "wiped" /\ card' \in {"torn", "complete"}
  /\ UNCHANGED <<phase, answer>>

(* "failed" says nothing of the card; the other answers do.                 *)
Answer ==
  /\ phase = "running" /\ phase' = "idle"
  /\ \/ answer' = "written" /\ card = "complete"
     \/ answer' = "cancelled" /\ card = "wiped"
     \/ answer' = "nothing" /\ card = "untouched"
     \/ answer' = "failed"
  /\ UNCHANGED card

Next == Begin \/ Touch \/ Answer

Spec == Init /\ [][Next]_vars
=============================================================================
