----------------------------- MODULE ByteDevice -----------------------------
(***************************************************************************)
(* What IRawDevice promises its callers: an array of bytes with a current   *)
(* offset.  Seek goes to a block boundary; after it a session is used       *)
(* either for writing, up to the next seek or flush, or for reading.        *)
(* Nothing is said of staging buffers, read-ahead or block-aligned I/O; the *)
(* one trace they leave is that a written tail is zero-padded to its block. *)
(***************************************************************************)
EXTENDS Integers, Sequences

CONSTANTS
  Size,       \* cells of the device
  BlockSize,  \* cells of a block
  Data,       \* what a cell can be written with
  Wiped       \* the cells wipeSignatures clears

VARIABLES
  store,      \* the cells, as a reader must see them
  pos,        \* the current offset
  mode,       \* what the session is used for since the last seek
  got,        \* what the last read returned
  synced      \* everything written has been flushed and synced

abstractVars == <<store, pos, mode, got, synced>>

Cell == 0 .. Size - 1
Mode == {"fresh", "writing", "reading", "flushed", "failed"}
Aligned(n) == n % BlockSize = 0
RoundUp(n) == ((n + BlockSize - 1) \div BlockSize) * BlockSize

Init ==
  /\ store \in [Cell -> {"old"}]
  /\ pos = 0 /\ mode = "fresh" /\ got = <<>> /\ synced = TRUE

(* The rest of the last block that was written to.                          *)
Padded ==
  IF mode = "writing"
  THEN [c \in Cell |-> IF pos <= c /\ c < RoundUp(pos) THEN "zero" ELSE store[c]]
  ELSE store

Seek(o) ==
  /\ mode # "failed" /\ Aligned(o)
  /\ store' = Padded /\ pos' = o /\ mode' = "fresh"
  /\ UNCHANGED <<got, synced>>

Overwritten(d) ==
  [c \in Cell |-> IF pos <= c /\ c < pos + Len(d) THEN d[c - pos + 1] ELSE store[c]]

Write(d) ==
  /\ mode \in {"fresh", "writing"} /\ pos + Len(d) <= Size
  /\ store' = Overwritten(d) /\ pos' = pos + Len(d) /\ mode' = "writing"
  /\ synced' = FALSE
  /\ UNCHANGED got

(* All that was asked for, or all up to the end of the device.              *)
Read(n) ==
  LET k == IF n <= Size - pos THEN n ELSE Size - pos
  IN /\ mode \in {"fresh", "reading"}
     /\ got' = [i \in 1 .. k |-> store[pos + i - 1]]
     /\ pos' = pos + k /\ mode' = "reading"
     /\ UNCHANGED <<store, synced>>

FlushAndSync ==
  /\ mode \in {"fresh", "writing", "flushed"}
  /\ store' = Padded /\ mode' = "flushed" /\ synced' = TRUE
  /\ UNCHANGED <<pos, got>>

WipeSignatures ==
  /\ mode \in {"fresh", "reading"}
  /\ store' = [c \in Cell |-> IF c \in Wiped THEN "zero" ELSE store[c]]
  /\ mode' = IF mode = "reading" THEN "flushed" ELSE mode
  /\ synced' = TRUE
  /\ UNCHANGED <<pos, got>>

(* A failed call leaves the session to be closed.                           *)
Fail ==
  /\ mode # "failed" /\ mode' = "failed"
  /\ UNCHANGED got

Next ==
  \/ \E o \in 0 .. Size : Seek(o)
  \/ \E n \in 1 .. Size, v \in Data : Write([i \in 1 .. n |-> v])
  \/ \E n \in 1 .. Size : Read(n)
  \/ FlushAndSync \/ WipeSignatures \/ Fail

Spec == Init /\ [][Next]_abstractVars
=============================================================================
