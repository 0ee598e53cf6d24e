---------------------------- MODULE CardLifecycle ----------------------------
(***************************************************************************)
(* What flashing a sound card promises its user, with no mention of how:    *)
(* the old partition table disappears before any new data appears, the new  *)
(* table appears only over a complete body and never disappears again, and  *)
(* the answer the user gets agrees with what is on the card.                *)
(***************************************************************************)
VARIABLES
  table,    \* "old", "none" or "new": whose partition table is on the card
  whole,    \* the body of the image is on the card, all of it
  filled,   \* some block of the image is on the card
  answer    \* "none", "ok", "stopped" (before the table), "failed"

vars == <<table, whole, filled, answer>>

TypeOK ==
  /\ table \in {"old", "none", "new"}
  /\ whole \in BOOLEAN
  /\ filled \in BOOLEAN
  /\ answer \in {"none", "ok", "stopped", "failed"}

(* An image may have no body at all: whole is then true from the start.     *)
Init ==
  /\ table = "old"
  /\ whole \in BOOLEAN
  /\ filled = FALSE
  /\ answer = "none"

Erase ==
  /\ table = "old"
  /\ ~filled
  /\ table' = "none"
  /\ UNCHANGED <<whole, filled, answer>>

(* Blocks of the image become durable; they stay.                           *)
Fill ==
  /\ table = "none"
  /\ filled' = TRUE
  /\ whole' \in {whole, TRUE}
  /\ UNCHANGED <<table, answer>>

Commit ==
  /\ table = "none"
  /\ whole
  /\ table' = "new"
  /\ filled' = TRUE
  /\ UNCHANGED <<whole, answer>>

(* The only success without a table is that of an image with no head, which *)
(* has no body either.                                                      *)
Succeed ==
  /\ table = "new" \/ (table = "none" /\ whole /\ ~filled)
  /\ answer' = "ok"

Stop == table # "new" /\ answer' = "stopped"
Fail == answer' = "failed"

Answer ==
  /\ answer = "none"
  /\ Succeed \/ Stop \/ Fail
  /\ UNCHANGED <<table, whole, filled>>

Next == Erase \/ Fill \/ Commit \/ Answer

Spec == Init /\ [][Next]_vars
=============================================================================
