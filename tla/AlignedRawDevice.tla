-------------------------- MODULE AlignedRawDevice --------------------------
(***************************************************************************)
(* The engine under every raw session (detail::AlignedRawDevice): arbitrary *)
(* lengths on top, whole blocks at block boundaries below, a staging buffer *)
(* for writes and a read-ahead buffer in between.                           *)
(*                                                                          *)
(* Its caller is DriveService: it seeks before it writes and before it      *)
(* reads, and checks sizes against the capacity.  One action per call; a    *)
(* call that needs several device operations may fail after any of them.    *)
(***************************************************************************)
EXTENDS Integers, Sequences

CONSTANTS
  Size,       \* devSize_, in cells
  BlockSize,  \* blockSize_
  Stage,      \* kAlignBuf
  WipeHead,   \* kWipeHead
  WipeTail,   \* kWipeTail
  Data,       \* what the caller writes
  MaxCall     \* bound: cells of one read or write call

ASSUME EngineAssumption ==
  /\ BlockSize \in Nat \ {0}
  /\ Stage \in Nat \ {0} /\ Stage % BlockSize = 0
  /\ Size \in Nat \ {0} /\ Size % BlockSize = 0
  /\ WipeHead \in Nat /\ WipeHead % BlockSize = 0
  /\ WipeTail \in Nat /\ WipeTail % BlockSize = 0
  /\ MaxCall \in Nat \ {0}
  /\ Data \cap {"old", "zero"} = {}

VARIABLES
  media,      \* what BlockIo has stored
  offset,     \* offset_
  wbuf,       \* the wfill_ staged cells of wbuf_
  rbuf,       \* the rlen_ unread cells of rbuf_
  got,        \* the cells the last read returned
  io,         \* the range of the last device operation: <<from, length>>
  dirty,      \* something was stored since the last BlockIo::sync
  mode        \* what the caller does since its last seek

vars == <<media, offset, wbuf, rbuf, got, io, dirty, mode>>

Cell    == 0 .. Size - 1
Content == Data \cup {"old", "zero"}
Mode    == {"fresh", "writing", "reading", "flushed", "failed"}

TypeOK ==
  /\ media \in [Cell -> Content]
  /\ offset \in 0 .. Size
  /\ wbuf \in Seq(Data) /\ Len(wbuf) < Stage
  /\ rbuf \in Seq(Content) /\ Len(rbuf) <= Stage
  /\ got \in Seq(Content)
  /\ io \in (0 .. Size) \X (0 .. Size)
  /\ dirty \in BOOLEAN
  /\ mode \in Mode

Init ==
  /\ media = [c \in Cell |-> "old"]
  /\ offset = 0 /\ wbuf = <<>> /\ rbuf = <<>>
  /\ got = <<>> /\ io = <<0, 0>> /\ dirty = FALSE /\ mode = "fresh"

-----------------------------------------------------------------------------
Smaller(a, b) == IF a <= b THEN a ELSE b
Larger(a, b)  == IF a >= b THEN a ELSE b

(* roundUpToBlock.                                                          *)
RoundUp(n) == ((n + BlockSize - 1) \div BlockSize) * BlockSize

Stored(from, d) ==
  [c \in Cell |-> IF from <= c /\ c < from + Len(d) THEN d[c - from + 1] ELSE media[c]]

Zeros(n) == [i \in 1 .. n |-> "zero"]

\* Mutant: the tail goes out as it is.
TailUnpadded == wbuf

(* The staged tail, zero-padded to a block.                                 *)
PaddedTail == wbuf \o Zeros(RoundUp(Len(wbuf)) - Len(wbuf))

(* flushTail: nothing if nothing is staged.                                 *)
FlushTail ==
  /\ wbuf' = <<>>
  /\ IF wbuf = <<>> THEN UNCHANGED <<media, io, dirty>>
     ELSE /\ media' = Stored(offset, PaddedTail)
          /\ io' = <<offset, Len(PaddedTail)>>
          /\ dirty' = TRUE

(* A device operation fails: every caller returns and closes the device.    *)
(* What a failed pwrite has stored of its range is RawMedia's WritePart.    *)
Failed ==
  /\ mode # "failed" /\ mode' = "failed"
  /\ UNCHANGED <<media, offset, wbuf, rbuf, got, io, dirty>>

(* seek, to a block boundary: staged bytes go out, read-ahead is dropped.   *)
Seek(o) ==
  /\ mode # "failed" /\ o % BlockSize = 0
  /\ FlushTail
  /\ rbuf' = <<>> /\ offset' = o
  /\ mode' = "fresh"
  /\ UNCHANGED got

(* write: the buffer goes out whenever it is full; the rest stays staged.   *)
Write(d) ==
  LET all  == wbuf \o d
      full == (Len(all) \div Stage) * Stage
  IN /\ mode \in {"fresh", "writing"}
     /\ offset + Len(all) <= Size
     /\ media' = Stored(offset, SubSeq(all, 1, full))
     /\ io' = IF full = 0 THEN io ELSE <<offset + full - Stage, Stage>>
     /\ offset' = offset + full
     /\ wbuf' = SubSeq(all, full + 1, Len(all))
     /\ dirty' = (dirty \/ full > 0)
     /\ mode' = "writing"
     /\ UNCHANGED <<rbuf, got>>

OnMedia(from, n) == [i \in 1 .. n |-> media[from + i - 1]]

\* Mutant: a refill overwrites what is left of the read-ahead.
ReadDropsAhead(n) ==
  LET wanted == Smaller(n, Size - offset)
      refill == ((wanted + Stage - 1) \div Stage) * Stage
      upto   == Smaller(offset + refill, Size)
  IN /\ mode \in {"fresh", "reading"}
     /\ IF n <= Len(rbuf)
        THEN /\ got' = SubSeq(rbuf, 1, n)
             /\ rbuf' = SubSeq(rbuf, n + 1, Len(rbuf))
             /\ UNCHANGED <<offset, io>>
        ELSE /\ got' = OnMedia(offset, wanted)
             /\ rbuf' = OnMedia(offset + wanted, upto - offset - wanted)
             /\ offset' = upto
             /\ io' = IF wanted = 0 THEN io
                      ELSE <<offset + refill - Stage, upto - (offset + refill - Stage)>>
     /\ mode' = "reading"
     /\ UNCHANGED <<media, wbuf, dirty>>

(* read: from the read-ahead first, then from refills of at most Stage      *)
(* cells, up to the end of the device; what the last refill has too much    *)
(* stays.                                                                   *)
Read(n) ==
  LET wanted == Smaller(n - Len(rbuf), Size - offset)
      refill == ((wanted + Stage - 1) \div Stage) * Stage
      upto   == Smaller(offset + refill, Size)
  IN /\ mode \in {"fresh", "reading"}
     /\ IF n <= Len(rbuf)
        THEN /\ got' = SubSeq(rbuf, 1, n)
             /\ rbuf' = SubSeq(rbuf, n + 1, Len(rbuf))
             /\ UNCHANGED <<offset, io>>
        ELSE /\ got' = rbuf \o OnMedia(offset, wanted)
             /\ rbuf' = OnMedia(offset + wanted, upto - offset - wanted)
             /\ offset' = upto
             /\ io' = IF wanted = 0 THEN io
                      ELSE <<offset + refill - Stage, upto - (offset + refill - Stage)>>
     /\ mode' = "reading"
     /\ UNCHANGED <<media, wbuf, dirty>>

(* flushAndSync leaves offset_ at the last byte written, block boundary or  *)
(* not: the caller seeks before it goes on.                                 *)
FlushAndSync ==
  /\ mode \in {"fresh", "writing", "flushed"}
  /\ wbuf' = <<>>
  /\ IF wbuf = <<>> THEN UNCHANGED <<media, io>>
     ELSE media' = Stored(offset, PaddedTail) /\ io' = <<offset, Len(PaddedTail)>>
  /\ offset' = offset + Len(wbuf)
  /\ dirty' = FALSE
  /\ mode' = "flushed"
  /\ UNCHANGED <<rbuf, got>>

(* The ranges of wipeSignatures.                                            *)
Front     == Smaller(WipeHead, Size)
TailBegin == IF Size > WipeTail THEN Larger(Front, Size - WipeTail) ELSE Size
Wiped     == {c \in Cell : c < Front \/ c >= TailBegin}

(* wipeSignatures stores past the buffers and offset_: what was read ahead  *)
(* is stale, and flash reads no more after the wipe of a bad head.          *)
WipeSignatures ==
  /\ mode \in {"fresh", "reading"}
  /\ media' = [c \in Cell |-> IF c \in Wiped THEN "zero" ELSE media[c]]
  /\ io' = IF TailBegin < Size THEN <<TailBegin, Size - TailBegin>> ELSE <<0, Front>>
  /\ dirty' = FALSE
  /\ mode' = IF mode = "reading" THEN "flushed" ELSE mode
  /\ UNCHANGED <<offset, wbuf, rbuf, got>>

Next ==
  \/ \E o \in 0 .. Size : Seek(o)
  \/ \E n \in 1 .. MaxCall, v \in Data : Write([i \in 1 .. n |-> v])
  \/ \E n \in 1 .. MaxCall : Read(n)
  \/ FlushAndSync \/ WipeSignatures \/ Failed

Spec == Init /\ [][Next]_vars

-----------------------------------------------------------------------------
(* Every device operation is one that O_DIRECT accepts: it starts at a      *)
(* block boundary, covers whole blocks and stays inside the device, however *)
(* the lengths of the calls add up.  A write starts its staging aligned:    *)
(* the assertion at the top of write.                                       *)
DirectIoLegal ==
  /\ io[1] % BlockSize = 0 /\ io[2] % BlockSize = 0
  /\ io[1] + io[2] <= Size
  /\ mode \in {"fresh", "writing"} => offset % BlockSize = 0

(* What a reader of the device must see: staged cells over stored ones.     *)
Bytes == INSTANCE ByteDevice WITH
  store  <- [c \in Cell |-> IF offset <= c /\ c < offset + Len(wbuf)
                            THEN wbuf[c - offset + 1] ELSE media[c]],
  pos    <- offset + Len(wbuf) - Len(rbuf),
  synced <- ~dirty /\ wbuf = <<>>

(* Under its callers' discipline the engine is the plain array of bytes of  *)
(* IRawDevice: no staged byte is lost, read early or stored elsewhere, no   *)
(* byte of the device is skipped or read twice, and a flush leaves nothing  *)
(* behind in the buffer.                                                    *)
KeepsBytePromise == Bytes!Spec
=============================================================================
