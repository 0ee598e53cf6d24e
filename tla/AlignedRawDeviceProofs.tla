----------------------- MODULE AlignedRawDeviceProofs -----------------------
(***************************************************************************)
(* Proofs, for every block, buffer and device size and every mix of call    *)
(* lengths, that the engine hands the device whole blocks at block          *)
(* boundaries only, and that it is the array of bytes its callers rely on.  *)
(***************************************************************************)
EXTENDS AlignedRawDevice, TLAPS

(* Multiples of the block size.                                             *)
LEMMA Multiple ==
  ASSUME NEW a \in Int, a % BlockSize = 0
  PROVE  \E k \in Int : a = k * BlockSize
<1>1. a \div BlockSize \in Int /\ a = (a \div BlockSize) * BlockSize
  BY EngineAssumption
<1>2. QED
  BY <1>1

LEMMA IsMultiple == ASSUME NEW k \in Int PROVE (k * BlockSize) % BlockSize = 0
  BY EngineAssumption

LEMMA Sums ==
  ASSUME NEW a \in Int, NEW b \in Int, a % BlockSize = 0, b % BlockSize = 0
  PROVE  (a + b) % BlockSize = 0 /\ (a - b) % BlockSize = 0
<1>1. PICK k \in Int : a = k * BlockSize
  BY Multiple
<1>2. PICK m \in Int : b = m * BlockSize
  BY Multiple
<1>3. a + b = (k + m) * BlockSize /\ a - b = (k - m) * BlockSize
  BY <1>1, <1>2, EngineAssumption
<1>4. k + m \in Int /\ k - m \in Int
  OBVIOUS
<1>5. QED
  BY <1>3, <1>4, IsMultiple

LEMMA NextMultiple ==
  ASSUME NEW a \in Int, NEW b \in Int, a % BlockSize = 0, b % BlockSize = 0, a < b
  PROVE  a + BlockSize <= b
<1>1. PICK k \in Int : a = k * BlockSize
  BY Multiple
<1>2. PICK m \in Int : b = m * BlockSize
  BY Multiple
<1>3. k < m
  BY <1>1, <1>2, EngineAssumption
<1>4. QED
  BY <1>1, <1>2, <1>3, EngineAssumption

(* Rounding to a multiple of s, a multiple of the block size itself.        *)
LEMMA Rounded ==
  ASSUME NEW n \in Int, NEW s \in Nat \ {0}, s % BlockSize = 0
  PROVE  ((n \div s) * s) % BlockSize = 0
<1>1. PICK k \in Int : s = k * BlockSize
  BY Multiple
<1>2. n \div s \in Int
  OBVIOUS
<1>3. (n \div s) * s = ((n \div s) * k) * BlockSize
  BY <1>1, <1>2, EngineAssumption
<1>4. (n \div s) * k \in Int
  BY <1>2
<1>5. QED
  BY <1>3, <1>4, IsMultiple

LEMMA Down ==
  ASSUME NEW n \in Nat, NEW s \in Nat \ {0}
  PROVE  LET down == (n \div s) * s IN down \in Int /\ 0 <= down /\ down <= n /\ n < down + s
<1>1. (n \div s) * s <= n /\ n < (n \div s) * s + s
  OBVIOUS
<1>2. n \div s \in Int
  OBVIOUS
<1>3. n \div s < 0 => (n \div s) * s + s <= 0
  <2>1. ASSUME NEW k \in Int, k < 0 PROVE k * s + s <= 0
    BY <2>1
  <2>2. QED
    BY <1>2, <2>1
<1>4. 0 <= (n \div s) * s
  <2>1. ASSUME NEW k \in Nat PROVE 0 <= k * s
    OBVIOUS
  <2>2. QED
    BY <1>1, <1>2, <1>3, <2>1
<1>5. QED
  BY <1>1, <1>2, <1>4

LEMMA Up ==
  ASSUME NEW n \in Nat, NEW s \in Nat \ {0}
  PROVE  LET up == ((n + s - 1) \div s) * s IN up \in Int /\ n <= up /\ up < n + s
<1> DEFINE m == n + s - 1
<1>1. m \in Nat
  OBVIOUS
<1>2. (m \div s) * s \in Int /\ (m \div s) * s <= m /\ m < (m \div s) * s + s
  <2> HIDE DEF m
  <2>1. QED
    BY <1>1, Down
<1>3. QED
  BY <1>2

-----------------------------------------------------------------------------
(* Cells are staged only between a write and what flushes them, they fit    *)
(* into the device, and what they start at is a block boundary.             *)
IStage ==
  /\ wbuf # <<>> => mode \in {"writing", "failed"}
  /\ offset + Len(wbuf) <= Size
  /\ mode \in {"fresh", "writing", "reading"} => offset % BlockSize = 0

IIo ==
  /\ io[1] % BlockSize = 0 /\ io[2] % BlockSize = 0
  /\ io[1] + io[2] <= Size

IInv == TypeOK /\ IStage /\ IIo

LEMMA Sizes ==
  /\ Size \in Nat \ {0} /\ Size % BlockSize = 0
  /\ Stage \in Nat \ {0} /\ Stage % BlockSize = 0
  /\ BlockSize \in Nat \ {0} /\ BlockSize % BlockSize = 0 /\ 0 % BlockSize = 0
<1>1. BlockSize = 1 * BlockSize /\ 0 = 0 * BlockSize
  BY EngineAssumption
<1>2. BlockSize % BlockSize = 0 /\ 0 % BlockSize = 0
  BY <1>1, IsMultiple
<1>3. QED
  BY <1>2, EngineAssumption

LEMMA InitLegal == Init => IInv
<1> SUFFICES ASSUME Init PROVE IInv
  OBVIOUS
<1>1. TypeOK
  <2>1. media \in [Cell -> Content] /\ dirty \in BOOLEAN /\ mode \in Mode
    BY DEF Init, Content, Mode
  <2>2. offset \in 0 .. Size /\ io \in (0 .. Size) \X (0 .. Size)
    BY Sizes DEF Init
  <2>3. wbuf \in Seq(Data) /\ rbuf \in Seq(Content) /\ got \in Seq(Content)
    BY DEF Init
  <2>4. Len(wbuf) < Stage /\ Len(rbuf) <= Stage
    BY Sizes DEF Init
  <2>5. QED
    BY <2>1, <2>2, <2>3, <2>4 DEF TypeOK
<1>2. IStage /\ IIo
  BY Sizes DEF Init, IStage, IIo
<1>3. QED
  BY <1>1, <1>2 DEF IInv

LEMMA StoredType ==
  ASSUME TypeOK, NEW from \in Int, NEW d \in Seq(Content)
  PROVE  Stored(from, d) \in [Cell -> Content]
<1> SUFFICES ASSUME NEW c \in Cell, from <= c, c < from + Len(d)
             PROVE  d[c - from + 1] \in Content
  BY DEF Stored, TypeOK
<1>1. c - from + 1 \in 1 .. Len(d)
  BY Sizes DEF Cell
<1>2. QED
  BY <1>1

LEMMA OnMediaType ==
  ASSUME TypeOK, NEW from \in Nat, NEW n \in Nat, from + n <= Size
  PROVE  OnMedia(from, n) \in Seq(Content) /\ Len(OnMedia(from, n)) = n
<1>1. \A i \in 1 .. n : media[from + i - 1] \in Content
  BY Sizes DEF TypeOK, Cell
<1>2. QED
  BY <1>1 DEF OnMedia

(* The staged tail, padded to a block, still ends inside the device.        *)
LEMMA TailFits ==
  ASSUME IInv, wbuf # <<>>, mode # "failed"
  PROVE  /\ offset % BlockSize = 0
         /\ Len(PaddedTail) % BlockSize = 0 /\ Len(PaddedTail) \in Nat
         /\ offset + Len(PaddedTail) <= Size
         /\ PaddedTail \in Seq(Content)
<1> DEFINE up == RoundUp(Len(wbuf))
<1>1. Len(wbuf) \in Nat /\ offset \in Nat /\ offset % BlockSize = 0 /\ offset + Len(wbuf) <= Size
  BY Sizes DEF IInv, IStage, TypeOK
<1>2. up \in Int /\ Len(wbuf) <= up /\ up < Len(wbuf) + BlockSize
  BY <1>1, Up, Sizes DEF RoundUp
<1>3. up % BlockSize = 0
  <2>1. Len(wbuf) + BlockSize - 1 \in Int
    BY <1>1, Sizes
  <2>2. QED
    BY <2>1, Rounded, Sizes DEF RoundUp
<1>4. Len(PaddedTail) = up /\ PaddedTail \in Seq(Content)
  <2>1. Zeros(up - Len(wbuf)) \in Seq(Content) /\ Len(Zeros(up - Len(wbuf))) = up - Len(wbuf)
    BY <1>1, <1>2 DEF Zeros, Content
  <2>2. wbuf \in Seq(Content)
    BY DEF IInv, TypeOK, Content
  <2> HIDE DEF up
  <2>3. /\ Len(wbuf \o Zeros(up - Len(wbuf))) = Len(wbuf) + (up - Len(wbuf))
        /\ wbuf \o Zeros(up - Len(wbuf)) \in Seq(Content)
    BY <2>1, <2>2
  <2>4. QED
    BY <1>1, <1>2, <2>3 DEF PaddedTail, up
<1> HIDE DEF up
<1>5. (offset + up) % BlockSize = 0
  BY <1>1, <1>2, <1>3, Sums
<1>6. offset + up <= Size
  <2>1. offset + up \in Int /\ Size \in Int /\ Size % BlockSize = 0
    BY <1>1, <1>2, Sizes
  <2>2. Size < offset + up => Size + BlockSize <= offset + up
    BY <1>5, <2>1, NextMultiple
  <2>3. QED
    BY <1>1, <1>2, <2>1, <2>2, Sizes
<1>7. QED
  BY <1>1, <1>2, <1>3, <1>4, <1>6

(* What flushing the tail makes of the device and its last operation.       *)
LEMMA TailGoesOut ==
  ASSUME IInv, mode # "failed",
         IF wbuf = <<>> THEN UNCHANGED <<media, io>>
         ELSE media' = Stored(offset, PaddedTail) /\ io' = <<offset, Len(PaddedTail)>>
  PROVE  /\ media' \in [Cell -> Content]
         /\ io' \in (0 .. Size) \X (0 .. Size) /\ IIo'
<1>1. CASE wbuf = <<>>
  BY <1>1 DEF IInv, IIo, TypeOK
<1>2. CASE wbuf # <<>>
  <2>1. /\ offset % BlockSize = 0
        /\ Len(PaddedTail) % BlockSize = 0 /\ Len(PaddedTail) \in Nat
        /\ offset + Len(PaddedTail) <= Size
        /\ PaddedTail \in Seq(Content)
    BY <1>2, TailFits
  <2>2. offset \in Nat
    BY Sizes DEF IInv, TypeOK
  <2>3. Stored(offset, PaddedTail) \in [Cell -> Content]
    BY <2>1, <2>2, StoredType DEF IInv
  <2>4. io'[1] = offset /\ io'[2] = Len(PaddedTail) /\ io' = <<offset, Len(PaddedTail)>>
    BY <1>2
  <2>5. offset \in 0 .. Size /\ Len(PaddedTail) \in 0 .. Size
    BY <2>1, <2>2, Sizes
  <2>6. QED
    BY <1>2, <2>1, <2>3, <2>4, <2>5 DEF IIo
<1>3. QED
  BY <1>1, <1>2

LEMMA StepSeek == ASSUME IInv, NEW o \in 0 .. Size, Seek(o) PROVE IInv'
<1>1. /\ wbuf' = <<>> /\ rbuf' = <<>> /\ got' = got
      /\ offset' = o /\ o % BlockSize = 0 /\ mode' = "fresh" /\ mode # "failed"
      /\ dirty' \in BOOLEAN
  BY DEF Seek, FlushTail, IInv, TypeOK
<1>2. media' \in [Cell -> Content] /\ io' \in (0 .. Size) \X (0 .. Size) /\ IIo'
  BY <1>1, TailGoesOut DEF Seek, FlushTail
<1>3. TypeOK'
  BY <1>1, <1>2, Sizes DEF IInv, TypeOK, Mode
<1>4. IStage'
  BY <1>1, Sizes DEF IStage
<1>5. QED
  BY <1>2, <1>3, <1>4 DEF IInv

LEMMA StepFlush == ASSUME IInv, FlushAndSync PROVE IInv'
<1>1. /\ wbuf' = <<>> /\ rbuf' = rbuf /\ got' = got
      /\ offset' = offset + Len(wbuf) /\ mode' = "flushed" /\ mode # "failed"
      /\ dirty' \in BOOLEAN
  BY DEF FlushAndSync
<1>2. media' \in [Cell -> Content] /\ io' \in (0 .. Size) \X (0 .. Size) /\ IIo'
  BY <1>1, TailGoesOut DEF FlushAndSync
<1>3. offset' \in 0 .. Size
  BY <1>1, Sizes DEF IInv, TypeOK, IStage
<1>4. TypeOK'
  BY <1>1, <1>2, <1>3, Sizes DEF IInv, TypeOK, Mode
<1>5. IStage'
  BY <1>1, <1>3, Sizes DEF IStage
<1>6. QED
  BY <1>2, <1>4, <1>5 DEF IInv

LEMMA StepWrite ==
  ASSUME IInv, NEW n \in 1 .. MaxCall, NEW v \in Data, Write([i \in 1 .. n |-> v])
  PROVE  IInv'
<1> DEFINE d == [i \in 1 .. n |-> v]
           all == wbuf \o d
           full == (Len(all) \div Stage) * Stage
<1>1. /\ offset + Len(all) <= Size /\ offset' = offset + full
      /\ wbuf' = SubSeq(all, full + 1, Len(all)) /\ rbuf' = rbuf /\ got' = got
      /\ mode' = "writing"
      /\ io' = IF full = 0 THEN io ELSE <<offset + full - Stage, Stage>>
      /\ mode \in {"fresh", "writing"}
      /\ media' = Stored(offset, SubSeq(all, 1, full))
  BY DEF Write
<1>2. dirty' \in BOOLEAN
  BY DEF Write
<1>3. all \in Seq(Data) /\ Len(all) \in Nat
  <2>1. d \in Seq(Data)
    BY EngineAssumption
  <2> HIDE DEF d
  <2>2. QED
    BY <2>1 DEF IInv, TypeOK
<1> HIDE DEF all
<1>4. full \in Int /\ 0 <= full /\ full <= Len(all) /\ Len(all) < full + Stage
  BY <1>3, Down, Sizes
<1>5. full % BlockSize = 0
  <2>1. Len(all) \in Int
    BY <1>3
  <2>2. QED
    BY <2>1, Rounded, Sizes
<1>6. full # 0 => Stage <= full
  <2>1. full < Stage => full = 0
    <3>1. Len(all) \div Stage \in Int
      BY <1>3, Sizes
    <3>2. ASSUME NEW k \in Int, 0 <= k * Stage, k * Stage < Stage PROVE k = 0
      BY <3>2, Sizes
    <3>3. full < Stage => Len(all) \div Stage = 0
      BY <1>4, <3>1, <3>2
    <3>4. QED
      BY <3>3, Sizes
  <2>2. QED
    BY <1>4, <2>1, Sizes
<1> HIDE DEF full
<1>7. offset \in 0 .. Size /\ offset \in Int /\ offset % BlockSize = 0
  BY <1>1, Sizes DEF IInv, IStage, TypeOK
<1>8. wbuf' \in Seq(Data) /\ Len(wbuf') = Len(all) - full
  BY <1>1, <1>3, <1>4
<1>9. SubSeq(all, 1, full) \in Seq(Content)
  <2>1. SubSeq(all, 1, full) \in Seq(Data)
    BY <1>3, <1>4
  <2>2. QED
    BY <2>1 DEF Content
<1>10. media' \in [Cell -> Content]
  BY <1>1, <1>7, <1>9, StoredType DEF IInv
<1>11. (offset + full) % BlockSize = 0
  BY <1>4, <1>5, <1>7, Sums
<1>12. IStage'
  <2>1. offset' + Len(wbuf') <= Size
    <3>1. offset' = offset + full /\ offset + Len(all) <= Size
      BY <1>1
    <3>2. (offset + full) + (Len(all) - full) = offset + Len(all)
      BY <1>3, <1>4, <1>7
    <3>3. QED
      BY <1>8, <3>1, <3>2
  <2>2. offset' % BlockSize = 0
    BY <1>1, <1>11
  <2>3. QED
    BY <1>1, <2>1, <2>2 DEF IStage
<1>13. io' \in (0 .. Size) \X (0 .. Size) /\ IIo'
  <2>1. CASE full = 0
    BY <1>1, <2>1 DEF IInv, IIo, TypeOK
  <2>2. CASE full # 0
    <3>1. /\ offset + full \in Int /\ Stage \in Int
          /\ offset + full - Stage = (offset + full) - Stage
      BY <1>4, <1>7, Sizes
    <3>2. (offset + full - Stage) % BlockSize = 0
      BY <1>11, <3>1, Sums, Sizes
    <3>3. io' = <<offset + full - Stage, Stage>> /\ io'[1] = offset + full - Stage /\ io'[2] = Stage
      BY <1>1, <2>2
    <3>4. offset + full - Stage \in 0 .. Size /\ Stage \in 0 .. Size /\ offset + full <= Size
      BY <1>1, <1>3, <1>4, <1>6, <1>7, <2>2, Sizes
    <3>5. io'[1] + io'[2] <= Size
      <4>1. (offset + full - Stage) + Stage = offset + full
        BY <1>4, <1>7, Sizes
      <4>2. QED
        BY <3>3, <3>4, <4>1
    <3>6. io'[1] % BlockSize = 0 /\ io'[2] % BlockSize = 0
      <4>1. Stage % BlockSize = 0
        BY Sizes
      <4>2. QED
        BY <3>2, <3>3, <4>1
    <3>7. io' \in (0 .. Size) \X (0 .. Size)
      BY <3>3, <3>4
    <3>8. QED
      BY <3>5, <3>6, <3>7 DEF IIo
  <2>3. QED
    BY <2>1, <2>2
<1>14. TypeOK'
  <2>1. offset' \in 0 .. Size /\ Len(wbuf') < Stage
    BY <1>1, <1>3, <1>4, <1>7, <1>8, Sizes
  <2>2. QED
    BY <1>1, <1>2, <1>8, <1>10, <1>13, <2>1 DEF IInv, TypeOK, Mode
<1>15. QED
  BY <1>12, <1>13, <1>14 DEF IInv

LEMMA StepRead == ASSUME IInv, NEW n \in 1 .. MaxCall, Read(n) PROVE IInv'
<1> DEFINE wanted == Smaller(n - Len(rbuf), Size - offset)
           refill == ((wanted + Stage - 1) \div Stage) * Stage
           upto == Smaller(offset + refill, Size)
<1>0. n \in Nat
  BY EngineAssumption
<1>1. /\ mode \in {"fresh", "reading"} /\ mode' = "reading"
      /\ wbuf' = wbuf /\ media' = media /\ dirty' = dirty
  BY DEF Read
<1>2. /\ offset \in 0 .. Size /\ offset \in Int /\ offset % BlockSize = 0
      /\ rbuf \in Seq(Content) /\ Len(rbuf) \in Nat /\ Len(rbuf) <= Stage
      /\ wbuf = <<>> /\ Len(wbuf) = 0
  BY <1>1, Sizes DEF IInv, IStage, TypeOK
<1>3. CASE n <= Len(rbuf)
  <2>1. /\ got' = SubSeq(rbuf, 1, n) /\ rbuf' = SubSeq(rbuf, n + 1, Len(rbuf))
        /\ UNCHANGED <<offset, io>>
    BY <1>3 DEF Read
  <2>2. got' \in Seq(Content) /\ rbuf' \in Seq(Content) /\ Len(rbuf') = Len(rbuf) - n
    BY <1>0, <1>2, <1>3, <2>1
  <2>3. TypeOK'
    <3>1. Len(rbuf') <= Stage
      BY <1>0, <1>2, <2>2, Sizes
    <3>2. QED
      BY <1>1, <2>1, <2>2, <3>1 DEF IInv, TypeOK, Mode
  <2>4. IStage' /\ IIo'
    BY <1>1, <1>2, <2>1 DEF IInv, IStage, IIo
  <2>5. QED
    BY <2>3, <2>4 DEF IInv
<1>4. CASE ~(n <= Len(rbuf))
  <2>1. /\ got' = rbuf \o OnMedia(offset, wanted)
        /\ rbuf' = OnMedia(offset + wanted, upto - offset - wanted)
        /\ offset' = upto
        /\ io' = IF wanted = 0 THEN io
                 ELSE <<offset + refill - Stage, upto - (offset + refill - Stage)>>
    BY <1>4 DEF Read
  <2>2. wanted \in Nat /\ wanted <= Size - offset
    BY <1>0, <1>2, <1>4, Sizes DEF Smaller
  <2> HIDE DEF wanted
  <2>3. refill \in Int /\ wanted <= refill /\ refill < wanted + Stage
    BY <2>2, Up, Sizes
  <2>4. refill % BlockSize = 0
    <3>1. wanted + Stage - 1 \in Int
      BY <2>2, Sizes
    <3>2. QED
      BY <3>1, Rounded, Sizes
  <2>5. wanted # 0 => Stage <= refill
    <3>1. (wanted + Stage - 1) \div Stage \in Int
      BY <2>2, Sizes
    <3>2. ASSUME NEW k \in Int, 0 < k * Stage PROVE Stage <= k * Stage
      <4>1. 0 < k
        BY <3>2, Sizes
      <4>2. QED
        BY <4>1, Sizes
    <3>3. QED
      BY <2>2, <2>3, <3>1, <3>2
  <2> HIDE DEF refill
  <2>6. (offset + refill) % BlockSize = 0
    BY <1>2, <2>3, <2>4, Sums
  <2>7. /\ upto \in 0 .. Size /\ upto \in Int /\ upto <= offset + refill /\ offset + wanted <= upto
        /\ wanted # 0 => offset + refill - Stage <= upto
    BY <1>2, <2>2, <2>3, Sizes DEF Smaller
  <2>8. upto % BlockSize = 0
    BY <2>6, Sizes DEF Smaller
  <2> HIDE DEF upto
  <2>9. io' \in (0 .. Size) \X (0 .. Size) /\ IIo'
    <3>1. CASE wanted = 0
      BY <2>1, <3>1 DEF IInv, IIo, TypeOK
    <3>2. CASE wanted # 0
      <4> DEFINE from == offset + refill - Stage
      <4>1. /\ from \in Int /\ offset + refill \in Int /\ Stage \in Int
            /\ from = (offset + refill) - Stage
        BY <1>2, <2>3, Sizes
      <4>2. from % BlockSize = 0
        BY <2>6, <4>1, Sums, Sizes
      <4>3. io' = <<from, upto - from>>
        BY <2>1, <3>2
      <4>4. 0 <= from /\ from <= upto
        BY <1>2, <2>3, <2>5, <2>7, <3>2, Sizes
      <4> HIDE DEF from
      <4>5. (upto - from) % BlockSize = 0
        BY <2>7, <2>8, <4>1, <4>2, Sums
      <4>6. from \in 0 .. Size /\ upto - from \in 0 .. Size /\ from + (upto - from) <= Size
        BY <2>7, <4>1, <4>4, Sizes
      <4>7. io'[1] = from /\ io'[2] = upto - from
        BY <4>3
      <4>8. QED
        BY <4>2, <4>3, <4>5, <4>6, <4>7 DEF IIo
    <3>3. QED
      BY <3>1, <3>2
  <2>10. got' \in Seq(Content)
    <3>1. OnMedia(offset, wanted) \in Seq(Content)
      BY <1>2, <2>2, OnMediaType, Sizes DEF IInv
    <3>2. QED
      BY <1>2, <2>1, <3>1
  <2>11. rbuf' \in Seq(Content) /\ Len(rbuf') <= Stage
    <3>1. /\ offset + wanted \in Nat /\ upto - offset - wanted \in Nat
          /\ (offset + wanted) + (upto - offset - wanted) <= Size
          /\ upto - offset - wanted <= Stage
      BY <1>2, <2>2, <2>3, <2>7, Sizes
    <3>2. QED
      BY <2>1, <3>1, OnMediaType DEF IInv
  <2>12. TypeOK'
    BY <1>1, <2>1, <2>7, <2>9, <2>10, <2>11 DEF IInv, TypeOK, Mode
  <2>13. IStage'
    BY <1>1, <1>2, <2>1, <2>7, <2>8, Sizes DEF IStage
  <2>14. QED
    BY <2>9, <2>12, <2>13 DEF IInv
<1>5. QED
  BY <1>3, <1>4

LEMMA StepWipe == ASSUME IInv, WipeSignatures PROVE IInv'
<1>1. /\ media' = [c \in Cell |-> IF c \in Wiped THEN "zero" ELSE media[c]]
      /\ io' = IF TailBegin < Size THEN <<TailBegin, Size - TailBegin>> ELSE <<0, Front>>
      /\ dirty' = FALSE /\ UNCHANGED <<offset, wbuf, rbuf, got>>
      /\ mode \in {"fresh", "reading"} /\ mode' \in {"fresh", "flushed"}
  BY DEF WipeSignatures
<1>2. /\ Front \in Int /\ 0 <= Front /\ Front <= Size
      /\ TailBegin \in Int /\ Front <= TailBegin /\ TailBegin <= Size
  BY EngineAssumption DEF Front, TailBegin, Smaller, Larger
<1>3. Front % BlockSize = 0
  BY EngineAssumption DEF Front, Smaller
<1>4. TailBegin % BlockSize = 0
  <2>1. (Size - WipeTail) % BlockSize = 0
    <3>1. Size \in Int /\ WipeTail \in Int /\ WipeTail % BlockSize = 0 /\ Size % BlockSize = 0
      BY EngineAssumption
    <3>2. QED
      BY <3>1, Sums
  <2>2. QED
    BY <1>3, <2>1, Sizes DEF TailBegin, Larger
<1>5. (Size - TailBegin) % BlockSize = 0
  <2>1. Size \in Int /\ Size % BlockSize = 0
    BY Sizes
  <2>2. QED
    BY <1>2, <1>4, <2>1, Sums
<1>6. io' \in (0 .. Size) \X (0 .. Size) /\ IIo'
  BY <1>1, <1>2, <1>3, <1>4, <1>5, Sizes DEF IIo
<1>7. TypeOK'
  BY <1>1, <1>6 DEF IInv, TypeOK, Mode, Content
<1>8. IStage'
  BY <1>1 DEF IInv, IStage
<1>9. QED
  BY <1>6, <1>7, <1>8 DEF IInv

LEMMA NextLegal == IInv /\ [Next]_vars => IInv'
<1> SUFFICES ASSUME IInv, [Next]_vars PROVE IInv'
  OBVIOUS
<1>1. ASSUME NEW o \in 0 .. Size, Seek(o)
      PROVE  IInv'
  BY <1>1, StepSeek
<1>2. ASSUME NEW n \in 1 .. MaxCall, NEW v \in Data, Write([i \in 1 .. n |-> v])
      PROVE  IInv'
  BY <1>2, StepWrite
<1>3. ASSUME NEW n \in 1 .. MaxCall, Read(n)
      PROVE  IInv'
  BY <1>3, StepRead
<1>4. CASE FlushAndSync
  BY <1>4, StepFlush
<1>5. CASE WipeSignatures
  BY <1>5, StepWipe
<1>6. CASE Failed \/ UNCHANGED vars
  BY <1>6 DEF Failed, vars, IInv, TypeOK, Mode, IStage, IIo
<1>7. QED
  BY <1>1, <1>2, <1>3, <1>4, <1>5, <1>6 DEF Next

(* Every state of the engine is of its types: the staged cells never fill   *)
(* the buffer, and the read-ahead never outgrows it.                        *)
THEOREM TypeCorrect == Spec => []TypeOK
<1>1. IInv => TypeOK
  BY DEF IInv
<1>2. QED
  BY <1>1, InitLegal, NextLegal, PTL DEF Spec

(* Every device operation is one O_DIRECT accepts, whatever the sizes of    *)
(* blocks, buffer and device and the lengths of the calls.                  *)
THEOREM OperationsAreLegal == Spec => []DirectIoLegal
<1>1. IInv => DirectIoLegal
  BY DEF IInv, IStage, IIo, DirectIoLegal
<1>2. QED
  BY <1>1, InitLegal, NextLegal, PTL DEF Spec

-----------------------------------------------------------------------------
(* The refinement of ByteDevice.  What a reader must see of the device, and *)
(* where it stands:                                                         *)
Store == [c \in Cell |-> IF offset <= c /\ c < offset + Len(wbuf)
                         THEN wbuf[c - offset + 1] ELSE media[c]]
Pos == offset + Len(wbuf) - Len(rbuf)
Synced == ~dirty /\ wbuf = <<>>

(* The read-ahead is what the device holds right before the offset.         *)
IAhead ==
  /\ mode \in {"fresh", "writing"} => rbuf = <<>>
  /\ mode = "reading" =>
       /\ Len(rbuf) <= offset
       /\ \A i \in 1 .. Len(rbuf) : rbuf[i] = media[offset - Len(rbuf) + i - 1]

LEMMA InitAhead == Init => IAhead
  BY DEF Init, IAhead

(* What a read returns, where it leaves the reader, and what it reads ahead.*)
LEMMA ReadAhead ==
  ASSUME IInv, IAhead, NEW n \in 1 .. MaxCall, Read(n)
  PROVE  /\ Len(rbuf) <= offset /\ wbuf = <<>> /\ Pos \in Nat /\ Pos = offset - Len(rbuf)
         /\ LET k == IF n <= Size - Pos THEN n ELSE Size - Pos
            IN /\ got' = [i \in 1 .. k |-> media[Pos + i - 1]]
               /\ Pos' = Pos + k
         /\ mode' = "reading" /\ UNCHANGED <<media, wbuf, dirty>>
         /\ Len(rbuf') <= offset'
         /\ \A i \in 1 .. Len(rbuf') : rbuf'[i] = media[offset' - Len(rbuf') + i - 1]
<1> DEFINE wanted == Smaller(n - Len(rbuf), Size - offset)
           refill == ((wanted + Stage - 1) \div Stage) * Stage
           upto == Smaller(offset + refill, Size)
           k == IF n <= Size - Pos THEN n ELSE Size - Pos
<1>1. /\ mode \in {"fresh", "reading"} /\ mode' = "reading" /\ UNCHANGED <<media, wbuf, dirty>>
  BY DEF Read
<1>2. /\ n \in Nat /\ offset \in Nat /\ offset <= Size /\ rbuf \in Seq(Content) /\ Len(rbuf) \in Nat
      /\ wbuf = <<>> /\ Len(wbuf) = 0
  BY <1>1, EngineAssumption DEF IInv, IStage, TypeOK
<1>3. Len(rbuf) <= offset /\ \A i \in 1 .. Len(rbuf) : rbuf[i] = media[offset - Len(rbuf) + i - 1]
  <2>1. CASE mode = "reading"
    BY <2>1 DEF IAhead
  <2>2. CASE mode = "fresh"
    <3>1. Len(rbuf) = 0
      BY <2>2 DEF IAhead
    <3>2. QED
      BY <1>2, <3>1
  <2>3. QED
    BY <1>1, <2>1, <2>2
<1>4. Pos = offset - Len(rbuf) /\ Pos \in Nat /\ Pos <= Size
  BY <1>2, <1>3, Sizes DEF Pos
<1>5. wbuf' = <<>> /\ Len(wbuf') = 0
  BY <1>1, <1>2
<1>6. CASE n <= Len(rbuf)
  <2>1. /\ got' = SubSeq(rbuf, 1, n) /\ rbuf' = SubSeq(rbuf, n + 1, Len(rbuf)) /\ offset' = offset
    BY <1>6 DEF Read
  <2>2. k = n
    BY <1>2, <1>4, <1>6, Sizes
  <2>3. Len(rbuf') = Len(rbuf) - n /\ \A i \in 1 .. Len(rbuf) - n : rbuf'[i] = rbuf[i + n]
    BY <1>2, <1>6, <2>1
  <2>4. Pos' = Pos + n
    BY <1>2, <1>4, <1>5, <2>1, <2>3 DEF Pos
  <2>5. got' = [i \in 1 .. n |-> media[Pos + i - 1]]
    <3>1. got' = [i \in 1 .. n |-> rbuf[i]]
      BY <1>2, <1>6, <2>1
    <3>2. \A i \in 1 .. n : rbuf[i] = media[Pos + i - 1]
      BY <1>2, <1>3, <1>4, <1>6
    <3>3. QED
      BY <3>1, <3>2
  <2>6. \A i \in 1 .. Len(rbuf') : rbuf'[i] = media[offset' - Len(rbuf') + i - 1]
    <3> SUFFICES ASSUME NEW i \in 1 .. Len(rbuf) - n
                 PROVE  rbuf'[i] = media[offset - (Len(rbuf) - n) + i - 1]
      BY <2>1, <2>3
    <3>1. i + n \in 1 .. Len(rbuf) /\ offset - Len(rbuf) + (i + n) - 1 = offset - (Len(rbuf) - n) + i - 1
      BY <1>2, <1>6
    <3>2. QED
      BY <1>3, <2>3, <3>1
  <2>7. Len(rbuf') <= offset'
    BY <1>2, <1>3, <2>1, <2>3
  <2>8. QED
    BY <1>1, <1>2, <1>3, <1>4, <2>2, <2>4, <2>5, <2>6, <2>7
<1>7. CASE ~(n <= Len(rbuf))
  <2>1. /\ got' = rbuf \o OnMedia(offset, wanted)
        /\ rbuf' = OnMedia(offset + wanted, upto - offset - wanted)
        /\ offset' = upto
    BY <1>7 DEF Read
  <2>2. wanted \in Nat /\ wanted <= Size - offset /\ k = Len(rbuf) + wanted
    BY <1>2, <1>4, <1>7, Sizes DEF Smaller
  <2> HIDE DEF wanted, k
  <2>3. refill \in Int /\ wanted <= refill
    BY <2>2, Up, Sizes
  <2> HIDE DEF refill
  <2>4. upto \in Nat /\ offset + wanted <= upto /\ upto <= Size
    BY <1>2, <2>2, <2>3, Sizes DEF Smaller
  <2> HIDE DEF upto
  <2>5. upto - offset - wanted \in Nat /\ offset + wanted \in Nat
    BY <1>2, <2>2, <2>4
  <2>6. /\ Len(rbuf') = upto - offset - wanted
        /\ \A i \in 1 .. upto - offset - wanted : rbuf'[i] = media[(offset + wanted) + i - 1]
    BY <2>1, <2>5 DEF OnMedia
  <2>7. Pos' = Pos + k
    <3>1. Pos' = upto + 0 - (upto - offset - wanted)
      BY <1>5, <2>1, <2>6 DEF Pos
    <3>2. QED
      BY <1>2, <1>4, <2>2, <2>4, <3>1
  <2>8. got' = [i \in 1 .. k |-> media[Pos + i - 1]]
    <3>1. OnMedia(offset, wanted) \in Seq(Content) /\ Len(OnMedia(offset, wanted)) = wanted
      BY <1>2, <2>2, OnMediaType, Sizes DEF IInv
    <3>2. got' = [i \in 1 .. k |-> IF i <= Len(rbuf) THEN rbuf[i] ELSE OnMedia(offset, wanted)[i - Len(rbuf)]]
      <4> DEFINE om == OnMedia(offset, wanted)
      <4>1. om \in Seq(Content) /\ Len(om) = wanted /\ got' = rbuf \o om
        BY <2>1, <3>1
      <4> HIDE DEF om
      <4>2. got' \in Seq(Content) /\ Len(got') = k
        <5>1. rbuf \o om \in Seq(Content) /\ Len(rbuf \o om) = Len(rbuf) + Len(om)
          <6>1. rbuf \in Seq(Content) /\ om \in Seq(Content)
            BY <1>2, <4>1
          <6>2. QED
            BY <6>1
        <5>2. QED
          BY <2>2, <4>1, <5>1
      <4>3. got' = [i \in 1 .. k |-> got'[i]]
        BY <4>2
      <4>4. \A i \in 1 .. k : got'[i] = IF i <= Len(rbuf) THEN rbuf[i] ELSE om[i - Len(rbuf)]
        BY <1>2, <2>2, <4>1
      <4>5. QED
        BY <4>3, <4>4 DEF om
    <3>3. \A i \in 1 .. k : i > Len(rbuf) => OnMedia(offset, wanted)[i - Len(rbuf)] = media[Pos + i - 1]
      <4> SUFFICES ASSUME NEW i \in 1 .. k, i > Len(rbuf)
                   PROVE  OnMedia(offset, wanted)[i - Len(rbuf)] = media[Pos + i - 1]
        OBVIOUS
      <4>1. i - Len(rbuf) \in 1 .. wanted /\ offset + (i - Len(rbuf)) - 1 = Pos + i - 1
        BY <1>2, <1>4, <2>2
      <4>2. QED
        BY <4>1 DEF OnMedia
    <3>4. \A i \in 1 .. k : i <= Len(rbuf) => rbuf[i] = media[Pos + i - 1]
      BY <1>2, <1>3, <1>4, <2>2
    <3>5. QED
      BY <3>2, <3>3, <3>4
  <2>9. /\ Len(rbuf') <= offset'
        /\ \A i \in 1 .. Len(rbuf') : rbuf'[i] = media[offset' - Len(rbuf') + i - 1]
    <3>1. offset' - Len(rbuf') = offset + wanted
      BY <1>2, <2>1, <2>2, <2>4, <2>6
    <3>2. Len(rbuf') <= offset'
      BY <1>2, <2>1, <2>2, <2>4, <2>6
    <3>3. QED
      BY <2>6, <3>1, <3>2
  <2>10. QED
    BY <1>1, <1>2, <1>3, <1>4, <2>7, <2>8, <2>9 DEF k
<1>8. QED
  BY <1>6, <1>7

LEMMA NextAhead == ASSUME IInv, IAhead, [Next]_vars PROVE IAhead'
<1>1. ASSUME NEW o \in 0 .. Size, Seek(o)
      PROVE  IAhead'
  BY <1>1 DEF Seek, IAhead
<1>2. ASSUME NEW n \in 1 .. MaxCall, NEW v \in Data, Write([i \in 1 .. n |-> v])
      PROVE  IAhead'
  BY <1>2 DEF Write, IAhead
<1>3. ASSUME NEW n \in 1 .. MaxCall, Read(n)
      PROVE  IAhead'
  BY <1>3, ReadAhead DEF IAhead
<1>4. CASE FlushAndSync
  BY <1>4 DEF FlushAndSync, IAhead
<1>5. CASE WipeSignatures
  BY <1>5 DEF WipeSignatures, IAhead
<1>6. CASE Failed \/ UNCHANGED vars
  BY <1>6 DEF Failed, vars, IAhead
<1>7. QED
  BY <1>1, <1>2, <1>3, <1>4, <1>5, <1>6 DEF Next

(* Two multiples of the block size less than a block apart are equal.       *)
LEMMA SameMultiple ==
  ASSUME NEW a \in Int, NEW b \in Int, a % BlockSize = 0, b % BlockSize = 0,
         a < b + BlockSize, b < a + BlockSize
  PROVE  a = b
<1>1. a < b => a + BlockSize <= b
  BY NextMultiple
<1>2. b < a => b + BlockSize <= a
  BY NextMultiple
<1>3. QED
  BY <1>1, <1>2, Sizes

(* Flushing the tail is padding what was written to its block.              *)
LEMMA TailIsPadding ==
  ASSUME IInv, IAhead, mode # "failed",
         IF wbuf = <<>> THEN UNCHANGED media ELSE media' = Stored(offset, PaddedTail)
  PROVE  media' = Bytes!Padded
<1> DEFINE len == Len(wbuf)
           up == RoundUp(len)
<1>1. media \in [Cell -> Content] /\ len \in Nat /\ offset \in Nat /\ offset + len <= Size
  BY Sizes DEF IInv, TypeOK, IStage
<1>2. CASE mode # "writing"
  <2>1. wbuf = <<>> /\ len = 0
    BY <1>2 DEF IInv, IStage
  <2>2. Store = media
    <3>1. \A c \in Cell : ~(offset <= c /\ c < offset + Len(wbuf))
      BY <1>1, <2>1 DEF Cell
    <3>2. QED
      BY <1>1, <3>1 DEF Store
  <2>3. QED
    BY <1>2, <2>1, <2>2 DEF Bytes!Padded, Store
<1>3. CASE mode = "writing"
  <2>1. rbuf = <<>> /\ Len(rbuf) = 0 /\ offset % BlockSize = 0
    BY <1>3 DEF IInv, IStage, IAhead
  <2>2. Pos = offset + len /\ Pos \in Nat
    BY <1>1, <2>1 DEF Pos
  <2>3. up \in Int /\ len <= up /\ up < len + BlockSize
    BY <1>1, Up, Sizes DEF RoundUp
  <2>4. up % BlockSize = 0
    <3>1. len + BlockSize - 1 \in Int
      BY <1>1, Sizes
    <3>2. QED
      BY <3>1, Rounded, Sizes DEF RoundUp
  <2> HIDE DEF up
  <2>5. RoundUp(Pos) = offset + up
    <3>1. RoundUp(Pos) \in Int /\ Pos <= RoundUp(Pos) /\ RoundUp(Pos) < Pos + BlockSize
      BY <2>2, Up, Sizes DEF RoundUp
    <3>2. RoundUp(Pos) % BlockSize = 0
      <4>1. Pos + BlockSize - 1 \in Int
        BY <2>2, Sizes
      <4>2. QED
        BY <4>1, Rounded, Sizes DEF RoundUp
    <3>3. (offset + up) % BlockSize = 0
      BY <1>1, <2>1, <2>3, <2>4, Sums
    <3>4. /\ offset + up \in Int /\ RoundUp(Pos) < (offset + up) + BlockSize
          /\ offset + up < RoundUp(Pos) + BlockSize
      BY <1>1, <2>2, <2>3, <3>1, Sizes
    <3>5. QED
      BY <3>1, <3>2, <3>3, <3>4, SameMultiple
  <2>6. Bytes!Padded = [c \in Cell |-> IF Pos <= c /\ c < RoundUp(Pos) THEN "zero" ELSE Store[c]]
    BY <1>3 DEF Bytes!Padded, Bytes!Cell, Bytes!RoundUp, RoundUp, Cell, Pos, Store
  <2>7. CASE wbuf = <<>>
    <3>1. len = 0 /\ up = 0
      <4>1. 0 \in Int /\ 0 < up + BlockSize /\ up < 0 + BlockSize
        BY <2>3, <2>7, Sizes
      <4>2. QED
        BY <2>3, <2>4, <2>7, <4>1, SameMultiple, Sizes
    <3>2. \A c \in Cell : ~(Pos <= c /\ c < RoundUp(Pos)) /\ Store[c] = media[c]
      BY <1>1, <2>2, <2>5, <3>1, Sizes DEF Store, Cell
    <3>3. QED
      BY <1>1, <2>6, <2>7, <3>2
  <2>8. CASE wbuf # <<>>
    <3>1. Len(PaddedTail) = up /\ \A i \in 1 .. up : PaddedTail[i] = IF i <= len THEN wbuf[i] ELSE "zero"
      <4>1. Zeros(up - len) \in Seq({"zero"}) /\ Len(Zeros(up - len)) = up - len
          /\ \A i \in 1 .. up - len : Zeros(up - len)[i] = "zero"
        BY <1>1, <2>3 DEF Zeros
      <4>2. wbuf \in Seq(Data)
        BY DEF IInv, TypeOK
      <4>3. PaddedTail = wbuf \o Zeros(up - len)
        BY DEF PaddedTail, up
      <4> HIDE DEF len
      <4>4. QED
        BY <1>1, <2>3, <4>1, <4>2, <4>3 DEF len
    <3>2. \A c \in Cell : media'[c] = IF offset <= c /\ c < offset + up THEN PaddedTail[c - offset + 1] ELSE media[c]
      BY <2>8, <3>1 DEF Stored
    <3>3. media' = [c \in Cell |-> media'[c]]
      BY <2>8 DEF Stored
    <3>4. \A c \in Cell : media'[c] = IF Pos <= c /\ c < RoundUp(Pos) THEN "zero" ELSE Store[c]
      <4> SUFFICES ASSUME NEW c \in Cell
                   PROVE  media'[c] = IF Pos <= c /\ c < RoundUp(Pos) THEN "zero" ELSE Store[c]
        OBVIOUS
      <4>1. c \in Int
        BY DEF Cell
      <4>2. Store[c] = IF offset <= c /\ c < offset + len THEN wbuf[c - offset + 1] ELSE media[c]
        BY DEF Store
      <4> HIDE DEF len
      <4>3. CASE offset <= c /\ c < offset + up
        <5>1. c - offset + 1 \in 1 .. up /\ (c - offset + 1 <= len <=> c < offset + len)
          BY <1>1, <2>3, <4>1, <4>3
        <5>2. QED
          BY <1>1, <2>2, <2>3, <2>5, <3>1, <3>2, <4>1, <4>2, <4>3, <5>1
      <4>4. CASE ~(offset <= c /\ c < offset + up)
        BY <1>1, <2>2, <2>3, <2>5, <3>2, <4>1, <4>2, <4>4
      <4>5. QED
        BY <4>3, <4>4
    <3>5. QED
      BY <2>6, <3>3, <3>4
  <2>9. QED
    BY <2>7, <2>8
<1>4. QED
  BY <1>2, <1>3

(* With nothing staged a reader sees the device itself.                     *)
LEMMA Unstaged ==
  ASSUME NEW m \in [Cell -> Content], NEW o \in Nat, NEW w, w = <<>>
  PROVE  [c \in Cell |-> IF o <= c /\ c < o + Len(w) THEN w[c - o + 1] ELSE m[c]] = m
<1>1. \A c \in Cell : ~(o <= c /\ c < o + Len(w))
  BY Sizes DEF Cell
<1>2. QED
  BY <1>1

LEMMA RefineInit == Init => Bytes!Init
<1> SUFFICES ASSUME Init PROVE Bytes!Init
  OBVIOUS
<1>1. media \in [Cell -> Content] /\ wbuf = <<>> /\ offset \in Nat
  BY DEF Init, Content
<1>2. Store = media
  BY <1>1, Unstaged DEF Store
<1>3. Store \in [Bytes!Cell -> {"old"}]
  BY <1>2 DEF Init, Bytes!Cell, Cell
<1>4. Pos = 0
  BY DEF Init, Pos
<1>5. mode = "fresh" /\ got = <<>> /\ Synced
  BY DEF Init, Synced
<1>6. QED
  BY <1>3, <1>4, <1>5 DEF Bytes!Init, Store, Pos, Synced

LEMMA RefineSeek == ASSUME IInv, IInv', IAhead, NEW o \in 0 .. Size, Seek(o) PROVE Bytes!Seek(o)
<1>1. /\ wbuf' = <<>> /\ rbuf' = <<>> /\ got' = got /\ offset' = o
      /\ o % BlockSize = 0 /\ mode' = "fresh" /\ mode # "failed"
  BY DEF Seek, FlushTail
<1>2. media' = Bytes!Padded
  BY <1>1, TailIsPadding DEF Seek, FlushTail
<1>3. Store' = Bytes!Padded
  <2>1. media' \in [Cell -> Content] /\ offset' \in Nat
    BY Sizes DEF IInv, TypeOK
  <2>2. Store' = media'
    BY <1>1, <2>1, Unstaged DEF Store
  <2>3. QED
    BY <1>2, <2>2
<1>4. Pos' = o
  BY <1>1, Sizes DEF Pos
<1>5. Synced' = Synced
  BY DEF Synced, Seek, FlushTail
<1>6. QED
  BY <1>1, <1>3, <1>4, <1>5 DEF Bytes!Seek, Bytes!Aligned, Store, Pos, Synced

LEMMA RefineFlush ==
  ASSUME IInv, IInv', IAhead, FlushAndSync
  PROVE  Bytes!FlushAndSync
<1>1. /\ wbuf' = <<>> /\ rbuf' = rbuf /\ got' = got /\ offset' = offset + Len(wbuf)
      /\ mode \in {"fresh", "writing", "flushed"} /\ mode' = "flushed" /\ dirty' = FALSE
  BY DEF FlushAndSync
<1>2. media' = Bytes!Padded
  BY <1>1, TailIsPadding DEF FlushAndSync
<1>3. Store' = Bytes!Padded
  <2>1. media' \in [Cell -> Content] /\ offset' \in Nat
    BY Sizes DEF IInv, TypeOK
  <2>2. Store' = media'
    BY <1>1, <2>1, Unstaged DEF Store
  <2>3. QED
    BY <1>2, <2>2
<1>4. Pos' = Pos
  <2>1. offset \in Int /\ Len(wbuf) \in Int /\ Len(rbuf) \in Int
    BY Sizes DEF IInv, TypeOK
  <2>2. Pos' = (offset + Len(wbuf)) + 0 - Len(rbuf)
    BY <1>1 DEF Pos
  <2>3. QED
    BY <2>1, <2>2 DEF Pos
<1>5. Synced'
  BY <1>1 DEF Synced
<1>6. QED
  BY <1>1, <1>3, <1>4, <1>5 DEF Bytes!FlushAndSync, Store, Pos, Synced

LEMMA RefineWipe ==
  ASSUME IInv, IInv', IAhead, WipeSignatures
  PROVE  Bytes!WipeSignatures
<1>1. /\ mode \in {"fresh", "reading"} /\ UNCHANGED <<offset, wbuf, rbuf, got>> /\ dirty' = FALSE
      /\ mode' = (IF mode = "reading" THEN "flushed" ELSE mode)
      /\ media' = [c \in Cell |-> IF c \in Wiped THEN "zero" ELSE media[c]]
  BY DEF WipeSignatures
<1>2. wbuf = <<>> /\ wbuf' = <<>>
  BY <1>1 DEF IInv, IStage
<1>3. Store = media /\ Store' = media'
  <2>1. /\ media \in [Cell -> Content] /\ offset \in Nat
        /\ media' \in [Cell -> Content] /\ offset' \in Nat
    BY Sizes DEF IInv, TypeOK
  <2>2. QED
    BY <1>2, <2>1, Unstaged DEF Store
<1>4. Pos' = Pos /\ Synced'
  BY <1>1, <1>2 DEF Pos, Synced
<1>5. Store' = [c \in Bytes!Cell |-> IF c \in Wiped THEN "zero" ELSE Store[c]]
  BY <1>1, <1>3 DEF Bytes!Cell, Cell
<1>6. QED
  BY <1>1, <1>4, <1>5 DEF Bytes!WipeSignatures, Store, Pos, Synced

LEMMA RefineRead ==
  ASSUME IInv, IInv', IAhead, NEW n \in 1 .. MaxCall, Read(n)
  PROVE  \E m \in 1 .. Size : Bytes!Read(m)
<1> DEFINE k == IF n <= Size - Pos THEN n ELSE Size - Pos
           m == IF n <= Size THEN n ELSE Size
<1>1. /\ mode \in {"fresh", "reading"} /\ mode' = "reading" /\ UNCHANGED <<media, wbuf, dirty>>
      /\ wbuf = <<>> /\ Pos \in Nat
      /\ got' = [i \in 1 .. k |-> media[Pos + i - 1]] /\ Pos' = Pos + k
  BY ReadAhead DEF Read
<1>2. m \in 1 .. Size /\ k = (IF m <= Size - Pos THEN m ELSE Size - Pos)
  BY <1>1, EngineAssumption
<1> HIDE DEF k, m
<1>3. Store = media /\ Store' = media' /\ Store' = Store
  <2>1. /\ media \in [Cell -> Content] /\ offset \in Nat
        /\ media' \in [Cell -> Content] /\ offset' \in Nat
    BY Sizes DEF IInv, TypeOK
  <2>2. wbuf' = <<>>
    BY <1>1
  <2>3. Store = media
    BY <1>1, <2>1, Unstaged DEF Store
  <2>4. Store' = media'
    BY <2>1, <2>2, Unstaged DEF Store
  <2>5. QED
    BY <1>1, <2>3, <2>4
<1>4. Synced' = Synced
  BY <1>1 DEF Synced
<1>5. got' = [i \in 1 .. k |-> Store[Pos + i - 1]]
  BY <1>1, <1>3
<1>6. Bytes!Read(m)
  BY <1>1, <1>2, <1>3, <1>4, <1>5 DEF Bytes!Read, Store, Pos, Synced
<1>7. QED
  BY <1>2, <1>6

LEMMA RefineFail == ASSUME Failed PROVE Bytes!Fail
  BY DEF Failed, Bytes!Fail

LEMMA RefineWrite ==
  ASSUME IInv, IInv', IAhead, NEW n \in 1 .. MaxCall, NEW v \in Data, Write([i \in 1 .. n |-> v])
  PROVE  \E m \in 1 .. Size, x \in Data : Bytes!Write([i \in 1 .. m |-> x])
<1> DEFINE d == [i \in 1 .. n |-> v]
           all == wbuf \o d
           full == (Len(all) \div Stage) * Stage
           staged == Len(wbuf)
<1>1. /\ mode \in {"fresh", "writing"} /\ mode' = "writing" /\ rbuf' = rbuf /\ got' = got
      /\ offset + Len(all) <= Size /\ offset' = offset + full
      /\ wbuf' = SubSeq(all, full + 1, Len(all)) /\ media' = Stored(offset, SubSeq(all, 1, full))
      /\ dirty' = (dirty \/ full > 0)
  BY DEF Write
<1>2. /\ n \in Nat /\ n > 0 /\ offset \in Nat /\ staged \in Nat /\ wbuf \in Seq(Data)
      /\ rbuf = <<>> /\ Len(rbuf) = 0
  BY <1>1, EngineAssumption DEF IInv, TypeOK, IAhead
<1>3. d \in Seq(Data) /\ Len(d) = n /\ \A i \in 1 .. n : d[i] = v
  BY <1>2
<1> HIDE DEF d
<1>4. /\ all \in Seq(Data) /\ Len(all) = staged + n
      /\ \A i \in 1 .. staged + n : all[i] = IF i <= staged THEN wbuf[i] ELSE d[i - staged]
  <2>1. d \in Seq(Data) /\ wbuf \in Seq(Data) /\ Len(d) = n
    BY <1>2, <1>3
  <2>2. all \in Seq(Data) /\ Len(all) = staged + n
    BY <2>1
  <2>3. QED
    BY <1>2, <2>1, <2>2
<1> HIDE DEF all
<1>5. full \in Int /\ 0 <= full /\ full <= Len(all)
  <2>1. Len(all) \in Nat
    BY <1>2, <1>4
  <2>2. QED
    BY <2>1, Down, Sizes
<1> HIDE DEF full
<1>6. /\ Len(wbuf') = staged + n - full
      /\ \A i \in 1 .. staged + n - full : wbuf'[i] = all[i + full]
  BY <1>1, <1>2, <1>4, <1>5
<1>7. /\ Len(SubSeq(all, 1, full)) = full
      /\ \A i \in 1 .. full : SubSeq(all, 1, full)[i] = all[i]
  BY <1>2, <1>4, <1>5
<1> HIDE DEF staged
<1>8. Pos = offset + staged /\ Pos \in Nat /\ Pos' = Pos + n /\ Pos + n <= Size
  <2>1. Pos = offset + staged
    BY <1>2 DEF Pos, staged
  <2>2. Pos' = offset + full + (staged + n - full) - 0
    BY <1>1, <1>2, <1>6 DEF Pos
  <2>3. offset + (staged + n) <= Size
    BY <1>1, <1>4
  <2>4. QED
    BY <1>2, <1>5, <2>1, <2>2, <2>3
<1>9. \A c \in Cell : media'[c] = IF offset <= c /\ c < offset + full THEN all[c - offset + 1] ELSE media[c]
  <2> SUFFICES ASSUME NEW c \in Cell
               PROVE  media'[c] = IF offset <= c /\ c < offset + full THEN all[c - offset + 1] ELSE media[c]
    OBVIOUS
  <2>1. media'[c] = IF offset <= c /\ c < offset + full THEN SubSeq(all, 1, full)[c - offset + 1] ELSE media[c]
    BY <1>1, <1>7 DEF Stored
  <2>2. offset <= c /\ c < offset + full => c - offset + 1 \in 1 .. full
    BY <1>2, <1>5 DEF Cell
  <2>3. QED
    BY <1>7, <2>1, <2>2
<1>10. \A c \in Cell : Store'[c] = IF Pos <= c /\ c < Pos + n THEN d[c - Pos + 1] ELSE Store[c]
  <2> SUFFICES ASSUME NEW c \in Cell
               PROVE  Store'[c] = IF Pos <= c /\ c < Pos + n THEN d[c - Pos + 1] ELSE Store[c]
    OBVIOUS
  <2>1. c \in Int
    BY DEF Cell
  <2>2. Store'[c] = IF offset + full <= c /\ c < offset + full + (staged + n - full)
                    THEN wbuf'[c - (offset + full) + 1] ELSE media'[c]
    BY <1>1, <1>6 DEF Store
  <2>3. Store[c] = IF offset <= c /\ c < offset + staged THEN wbuf[c - offset + 1] ELSE media[c]
    BY DEF Store, staged
  <2>4. Store'[c] = IF offset <= c /\ c < offset + staged + n THEN all[c - offset + 1] ELSE media[c]
    <3>1. CASE offset + full <= c /\ c < offset + full + (staged + n - full)
      <4>1. /\ c - (offset + full) + 1 \in 1 .. staged + n - full
            /\ (c - (offset + full) + 1) + full = c - offset + 1
            /\ offset <= c /\ c < offset + staged + n
        BY <1>2, <1>5, <2>1, <3>1
      <4>2. QED
        BY <1>6, <2>2, <3>1, <4>1
    <3>2. CASE ~(offset + full <= c /\ c < offset + full + (staged + n - full))
      <4>1. offset <= c /\ c < offset + staged + n <=> offset <= c /\ c < offset + full
        BY <1>2, <1>4, <1>5, <2>1, <3>2
      <4>2. QED
        BY <1>9, <2>2, <3>2, <4>1
    <3>3. QED
      BY <3>1, <3>2
  <2>5. CASE offset <= c /\ c < offset + staged
    <3>1. c - offset + 1 \in 1 .. staged + n /\ c - offset + 1 <= staged /\ c < offset + staged + n /\ ~(Pos <= c)
      BY <1>2, <1>8, <2>1, <2>5
    <3>2. QED
      BY <1>4, <2>3, <2>4, <2>5, <3>1
  <2>6. CASE offset + staged <= c /\ c < offset + staged + n
    <3>1. /\ c - offset + 1 \in 1 .. staged + n /\ ~(c - offset + 1 <= staged)
          /\ (c - offset + 1) - staged = c - Pos + 1 /\ offset <= c /\ Pos <= c /\ c < Pos + n
      BY <1>2, <1>8, <2>1, <2>6
    <3>2. QED
      BY <1>4, <2>4, <2>6, <3>1
  <2>7. CASE ~(offset <= c /\ c < offset + staged + n)
    <3>1. ~(Pos <= c /\ c < Pos + n) /\ ~(offset <= c /\ c < offset + staged)
      BY <1>2, <1>8, <2>1, <2>7
    <3>2. QED
      BY <2>3, <2>4, <2>7, <3>1
  <2>8. QED
    BY <1>2, <2>1, <2>5, <2>6, <2>7
<1>11. Store' = Bytes!Overwritten(d)
  <2>1. Bytes!Overwritten(d) = [c \in Cell |-> IF Pos <= c /\ c < Pos + n THEN d[c - Pos + 1] ELSE Store[c]]
    BY <1>3 DEF Bytes!Overwritten, Bytes!Cell, Cell, Store, Pos
  <2>2. Store' = [c \in Cell |-> Store'[c]]
    BY DEF Store
  <2>3. QED
    BY <1>10, <2>1, <2>2
<1>12. ~Synced'
  <2>1. CASE full = 0
    <3>1. Len(wbuf') > 0
      BY <1>2, <1>6, <2>1
    <3>2. QED
      BY <3>1 DEF Synced
  <2>2. CASE full # 0
    <3>1. full > 0
      BY <1>5, <2>2
    <3>2. QED
      BY <1>1, <3>1 DEF Synced
  <2>3. QED
    BY <2>1, <2>2
<1>13. Bytes!Write(d)
  <2>1. mode \in {"fresh", "writing"} /\ mode' = "writing" /\ got' = got
    BY <1>1
  <2>2. Pos + Len(d) <= Size /\ Pos' = Pos + Len(d)
    BY <1>3, <1>8
  <2>3. Synced' = FALSE
    BY <1>12 DEF Synced
  <2>4. QED
    BY <2>1, <2>2, <2>3, <1>11 DEF Bytes!Write, Store, Pos, Synced
<1>14. n \in 1 .. Size
  BY <1>2, <1>8, Sizes
<1>15. QED
  BY <1>13, <1>14 DEF d

LEMMA RefineNext ==
  ASSUME IInv, IInv', IAhead, [Next]_vars
  PROVE  [Bytes!Next]_Bytes!abstractVars
<1>1. ASSUME NEW o \in 0 .. Size, Seek(o)
      PROVE  Bytes!Next
  BY <1>1, RefineSeek DEF Bytes!Next
<1>2. ASSUME NEW n \in 1 .. MaxCall, NEW v \in Data, Write([i \in 1 .. n |-> v])
      PROVE  Bytes!Next
  BY <1>2, RefineWrite DEF Bytes!Next
<1>3. ASSUME NEW n \in 1 .. MaxCall, Read(n)
      PROVE  Bytes!Next
  BY <1>3, RefineRead DEF Bytes!Next
<1>4. CASE FlushAndSync
  BY <1>4, RefineFlush DEF Bytes!Next
<1>5. CASE WipeSignatures
  BY <1>5, RefineWipe DEF Bytes!Next
<1>6. CASE Failed
  BY <1>6, RefineFail DEF Bytes!Next
<1>7. CASE UNCHANGED vars
  BY <1>7 DEF vars, Bytes!abstractVars
<1>8. QED
  BY <1>1, <1>2, <1>3, <1>4, <1>5, <1>6, <1>7 DEF Next

(* The engine is the array of bytes of IRawDevice, for every size of blocks,*)
(* buffer and device and every mix of call lengths: no staged byte is lost, *)
(* read early or stored elsewhere.                                          *)
THEOREM Refinement == Spec => KeepsBytePromise
<1>1. Init => IInv /\ IAhead /\ Bytes!Init
  BY InitLegal, InitAhead, RefineInit
<1>2. IInv /\ IAhead /\ [Next]_vars => IInv' /\ IAhead'
  BY NextLegal, NextAhead
<1>3. IInv /\ IInv' /\ IAhead /\ [Next]_vars => [Bytes!Next]_Bytes!abstractVars
  BY RefineNext
<1>4. QED
  BY <1>1, <1>2, <1>3, PTL DEF Spec, KeepsBytePromise, Bytes!Spec

=============================================================================
