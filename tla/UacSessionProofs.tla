-------------------------- MODULE UacSessionProofs ---------------------------
(***************************************************************************)
(* Proofs, for any number of runs, any pipe and any number of attempts,     *)
(* that the privileged write session of Windows implements WriteRun, loses  *)
(* no terminal line and keeps a cancel to its run.  The invariant follows   *)
(* the one terminal line from the helper through the pipe to the GUI, and   *)
(* tells it from what another program may have written there.               *)
(***************************************************************************)
EXTENDS UacSession, SequenceTheorems, WellFoundedInduction, TLAPS

(* A run is open from start() until its answer, and listens only when the   *)
(* prompt is over.                                                          *)
IRun ==
  /\ prompt # "no" =>
       runs > 0 /\ ses.told = "none" /\ ses.line = "none" /\ ~ses.running
  /\ prompt \in Refusals => proc = "none"
  /\ ses.running =>
       /\ runs > 0 /\ ses.told = "none" /\ proc # "none"
       /\ link.server \notin {"none", "made"}
  /\ proc = "up" => runs > 0 /\ ses.told = "none"

(* How the helper ended says how far it came.                               *)
IExit ==
  /\ proc = "none" => hpc = "off" /\ disk = "untouched" /\ ~gcancel
  /\ proc = "gone" <=> exit # "none"
  /\ exit = "nochannel" => disk = "untouched"
  /\ exit = "ok" => hpc = "exit"

(* What each stretch of the write has made of the card.                     *)
IDisk ==
  /\ proc = "up" /\ hpc \in {"connect", "before"} => disk = "untouched"
  /\ proc = "up" /\ hpc \in {"poll", "chunk", "commit"} => disk = "wiped"

(* The reply is true of the card from the moment it is decided.             *)
IReply ==
  /\ hpc \in {"report", "exit"} <=> reply # "none"
  /\ reply = "result" => disk = "complete"
  /\ reply = "cancelled" => disk = "wiped" /\ gcancel

(* A line that is the helper's own terminal line.                           *)
Genuine(l) == l = reply /\ hpc = "exit" /\ (l = "cancelled" => pressed)

(* The GUI's session x = [ses, link].  What it parsed is genuine, and so is *)
(* every terminal line in the pipe while the helper is the client; who is   *)
(* read is the helper.                                                      *)
GLines(x) ==
  /\ x.ses.line # "none" => Genuine(x.ses.line)
  /\ x.link.server = "socket" => x.link.client = "helper"
  /\ x.link.client = "none" => x.link.out = <<>>
  /\ x.link.client = "helper" =>
       \A i \in 1 .. Len(x.link.out) : x.link.out[i] \in Replies => Genuine(x.link.out[i])

(* A helper that connected is connected or was cut off; its terminal line,  *)
(* unless it was cut off, is parsed or still in the pipe.                   *)
GThere(x) ==
  /\ hpc \notin {"off", "connect"} => x.link.cut \/ x.link.client = "helper"
  /\ hpc = "exit" /\ ~x.link.cut =>
       x.ses.line = reply \/ \E i \in 1 .. Len(x.link.out) : x.link.out[i] = reply

(* Whatever looks like a cancel was one, or is a connection cut.            *)
GCancel(x) ==
  /\ x.ses.pending \/ x.link.cancels > 0 => pressed
  /\ gcancel => pressed \/ x.link.cut

GType(x) == x \in [ses : Session, link : Link] /\ Len(x.link.out) <= PipeSize

GInv(x) == GType(x) /\ GLines(x) /\ GThere(x) /\ GCancel(x)

(* What the window was told is the line, if the helper was heard.           *)
ITold ==
  /\ NoLineLost
  /\ CancelStaysInRun

IInv == TypeOK /\ IRun /\ IExit /\ IDisk /\ IReply /\ GInv(Gui) /\ ITold

-----------------------------------------------------------------------------
(* A non-empty set of lines has a last one.                                 *)
LEMMA LastOne ==
  ASSUME NEW k \in Nat, NEW T, T \subseteq 1 .. k, T # {}
  PROVE  Max(T) \in T
<1> DEFINE Behind == {k - i : i \in T}
<1>1. Behind \subseteq Nat /\ Behind # {}
  <2>1. \A i \in T : i \in Int /\ i <= k /\ k - i \in Nat
    OBVIOUS
  <2>2. QED
    BY <2>1
<1>2. PICK d \in Behind : \A e \in Behind : ~ (<<e, d>> \in OpToRel(<, Nat))
  BY <1>1, NatLessThanWellFounded, WFMin
<1>3. \A e \in Behind : ~ (e < d)
  BY <1>1, <1>2 DEF OpToRel
<1>4. PICK i \in T : d = k - i
  OBVIOUS
<1>5. \A j \in T : i >= j
  <2>1. TAKE j \in T
  <2>2. ~ (k - j < k - i)
    BY <1>3, <1>4
  <2>3. QED
    BY <2>2
<1>6. QED
  BY <1>4, <1>5 DEF Max

(* What the GUI has parsed, and what is left in the pipe, after k lines.    *)
LEMMA HeardLines ==
  ASSUME NEW x, GType(x), NEW k \in 0 .. Len(x.link.out)
  PROVE  LET y == Heard(x, k)
         IN /\ GType(y)
            /\ \A f \in {"running", "pending", "pid", "told"} : y.ses[f] = x.ses[f]
            /\ \A f \in {"server", "client", "cancels", "cut"} : y.link[f] = x.link[f]
            /\ Len(y.link.out) = Len(x.link.out) - k
            /\ \A i \in 1 .. Len(y.link.out) : y.link.out[i] = x.link.out[k + i]
            /\ \/ y.ses.line = x.ses.line /\ \A i \in 1 .. k : x.link.out[i] \notin Replies
               \/ \E i \in 1 .. k : x.link.out[i] \in Replies /\ y.ses.line = x.link.out[i]
<1> DEFINE out == x.link.out
           terminals == {i \in 1 .. k : out[i] \in Replies}
           line == IF terminals = {} THEN x.ses.line ELSE out[Max(terminals)]
           rest == SubSeq(out, k + 1, Len(out))
           y == Heard(x, k)
<1>1. x \in [ses : Session, link : Link] /\ Len(out) <= PipeSize
  BY DEF GType
<1>2. x.ses \in Session /\ x.link \in Link
  BY <1>1
<1>3. out \in Seq(Replies \cup {"progress"})
  BY <1>2 DEF Link
<1>4. Len(out) \in Nat /\ k \in Nat /\ k <= Len(out)
  BY <1>3, LenProperties
<1>5. rest \in Seq(Replies \cup {"progress"}) /\ Len(rest) = Len(out) - k
      /\ \A i \in 1 .. Len(rest) : rest[i] = out[k + i]
  <2>1. \A i \in k + 1 .. Len(out) : out[i] \in Replies \cup {"progress"}
    BY <1>3, <1>4, ElementOfSeq
  <2>2. /\ rest \in Seq(Replies \cup {"progress"})
        /\ Len(rest) = IF k + 1 <= Len(out) THEN Len(out) - (k + 1) + 1 ELSE 0
        /\ \A i \in 1 .. Len(out) - (k + 1) + 1 : rest[i] = out[k + 1 + i - 1]
    BY <1>3, <1>4, <2>1, SubSeqProperties
  <2>3. QED
    BY <1>4, <2>2
<1>6. \/ line = x.ses.line /\ \A i \in 1 .. k : out[i] \notin Replies
      \/ \E i \in 1 .. k : out[i] \in Replies /\ line = out[i]
  <2>1. CASE terminals = {}
    BY <2>1
  <2>2. CASE terminals # {}
    <3>1. Max(terminals) \in terminals
      BY <1>4, <2>2, LastOne
    <3>2. QED
      BY <2>2, <3>1
  <2>3. QED
    BY <2>1, <2>2
<1>7. line \in Replies \cup {"none"}
  BY <1>2, <1>6 DEF Session
<1>8. y = [x EXCEPT !.ses.line = line, !.link.out = rest]
  BY DEF Heard
<1>9. /\ y.ses = [x.ses EXCEPT !.line = line] /\ y.link = [x.link EXCEPT !.out = rest]
      /\ y = [ses |-> y.ses, link |-> y.link]
  <2> HIDE DEF line, rest, y
  <2>1. QED
    BY <1>1, <1>8
<1> HIDE DEF line, rest, y, terminals
<1>10. y.ses \in Session /\ y.ses.line = line
       /\ \A f \in {"running", "pending", "pid", "told"} : y.ses[f] = x.ses[f]
  BY <1>2, <1>7, <1>9 DEF Session
<1>11. y.link \in Link /\ y.link.out = rest
       /\ \A f \in {"server", "client", "cancels", "cut"} : y.link[f] = x.link[f]
  BY <1>2, <1>5, <1>9 DEF Link
<1>12. y \in [ses : Session, link : Link]
  BY <1>9, <1>10, <1>11
<1>13. Len(rest) <= PipeSize
  BY <1>1, <1>4, <1>5, UacAssumption
<1>14. GType(y)
  BY <1>11, <1>12, <1>13 DEF GType
<1>15. QED
  BY <1>5, <1>6, <1>10, <1>11, <1>14 DEF y
-----------------------------------------------------------------------------
(* What the pipe still holds and what was parsed speak of the same helper.  *)
LEMMA HeardKeeps ==
  ASSUME NEW x, GInv(x), x.link.server = "socket", TypeOK, IReply,
         NEW k \in 0 .. Len(x.link.out)
  PROVE  /\ GInv(Heard(x, k))
         /\ Heard(x, k).link.server = "socket"
         /\ k = Len(x.link.out) /\ hpc = "exit" /\ ~x.link.cut => Heard(x, k).ses.line = reply
<1> DEFINE y == Heard(x, k)
<1>1. /\ GType(y)
      /\ y.ses.pending = x.ses.pending
      /\ y.link.server = x.link.server /\ y.link.client = x.link.client
      /\ y.link.cancels = x.link.cancels /\ y.link.cut = x.link.cut
      /\ Len(y.link.out) = Len(x.link.out) - k
      /\ \A i \in 1 .. Len(y.link.out) : y.link.out[i] = x.link.out[k + i]
      /\ \/ y.ses.line = x.ses.line /\ \A i \in 1 .. k : x.link.out[i] \notin Replies
         \/ \E i \in 1 .. k : x.link.out[i] \in Replies /\ y.ses.line = x.link.out[i]
  BY HeardLines DEF GInv
<1> HIDE DEF y
<1>2. Len(x.link.out) \in Nat /\ k \in Nat /\ k <= Len(x.link.out)
  <2>1. x.link.out \in Seq(Replies \cup {"progress"})
    BY DEF GInv, GType, Link
  <2>2. QED
    BY <2>1, LenProperties
<1>3. x.link.client = "helper"
  BY DEF GInv, GLines
<1>4. \A i \in 1 .. Len(x.link.out) : x.link.out[i] \in Replies => Genuine(x.link.out[i])
  BY <1>3 DEF GInv, GLines
<1>5. y.ses.line # "none" => Genuine(y.ses.line)
  <2>1. CASE y.ses.line = x.ses.line
    BY <2>1 DEF GInv, GLines
  <2>2. CASE \E i \in 1 .. k : x.link.out[i] \in Replies /\ y.ses.line = x.link.out[i]
    BY <1>2, <1>4, <2>2
  <2>3. QED
    BY <1>1, <2>1, <2>2
<1>6. GLines(y)
  <2>1. \A i \in 1 .. Len(y.link.out) : y.link.out[i] \in Replies => Genuine(y.link.out[i])
    <3>1. \A i \in 1 .. Len(y.link.out) : k + i \in 1 .. Len(x.link.out) /\ y.link.out[i] = x.link.out[k + i]
      BY <1>1, <1>2
    <3>2. QED
      BY <1>4, <3>1
  <2>2. QED
    BY <1>1, <1>3, <1>5, <2>1 DEF GLines
<1>7. hpc = "exit" /\ ~x.link.cut =>
        y.ses.line = reply \/ \E i \in 1 .. Len(y.link.out) : y.link.out[i] = reply
  <2>1. SUFFICES ASSUME hpc = "exit", ~x.link.cut
                 PROVE  y.ses.line = reply \/ \E i \in 1 .. Len(y.link.out) : y.link.out[i] = reply
    OBVIOUS
  <2>2. reply \in Replies
    BY <2>1 DEF IReply, TypeOK
  <2>3. CASE \E i \in 1 .. k : x.link.out[i] \in Replies /\ y.ses.line = x.link.out[i]
    BY <1>2, <1>4, <2>3 DEF Genuine
  <2>4. CASE y.ses.line = x.ses.line /\ \A i \in 1 .. k : x.link.out[i] \notin Replies
    <3>1. CASE x.ses.line = reply
      BY <2>4, <3>1
    <3>2. CASE \E i \in 1 .. Len(x.link.out) : x.link.out[i] = reply
      <4>1. PICK i \in 1 .. Len(x.link.out) : x.link.out[i] = reply
        BY <3>2
      <4>2. ~ (i <= k)
        BY <1>2, <2>2, <2>4, <4>1
      <4>3. i - k \in 1 .. Len(y.link.out) /\ k + (i - k) = i
        BY <1>1, <1>2, <4>2
      <4>4. y.link.out[i - k] = reply
        BY <1>1, <4>1, <4>3
      <4>5. QED
        BY <4>3, <4>4
    <3>3. QED
      BY <2>1, <3>1, <3>2 DEF GInv, GThere
  <2>5. QED
    BY <1>1, <2>3, <2>4
<1>8. GThere(y)
  BY <1>1, <1>3, <1>7 DEF GThere
<1>9. GCancel(y)
  BY <1>1 DEF GInv, GCancel
<1>10. k = Len(x.link.out) /\ hpc = "exit" /\ ~x.link.cut => y.ses.line = reply
  BY <1>1, <1>2, <1>7
<1>11. QED
  BY <1>1, <1>6, <1>8, <1>9, <1>10 DEF GInv, y

(* Listening, or giving up to, changes nothing else.                        *)
LEMMA ServerSet ==
  ASSUME NEW x, GInv(x), NEW s \in {"listening", "idle"}
  PROVE  LET y == [x EXCEPT !.link.server = s]
         IN GInv(y) /\ y.ses = x.ses /\ y.link = [x.link EXCEPT !.server = s]
<1> DEFINE y == [x EXCEPT !.link.server = s]
<1>1. x \in [ses : Session, link : Link] /\ Len(x.link.out) <= PipeSize
  BY DEF GInv, GType
<1>2. y.ses = x.ses /\ y.link = [x.link EXCEPT !.server = s] /\ y = [ses |-> y.ses, link |-> y.link]
  BY <1>1
<1> HIDE DEF y
<1>3. /\ y.link \in Link /\ y.link.server = s /\ y.link.out = x.link.out
      /\ y.link.client = x.link.client /\ y.link.cancels = x.link.cancels /\ y.link.cut = x.link.cut
  BY <1>1, <1>2 DEF Link
<1>4. GType(y)
  <2>1. y \in [ses : Session, link : Link]
    BY <1>1, <1>2, <1>3
  <2>2. QED
    BY <1>1, <1>3, <2>1 DEF GType
<1>5. GLines(y) /\ GThere(y) /\ GCancel(y)
  BY <1>2, <1>3 DEF GInv, GLines, GThere, GCancel
<1>6. QED
  BY <1>2, <1>4, <1>5 DEF GInv, y

(* A client that is thrown out takes its lines with it.                     *)
LEMMA DroppedKeeps ==
  ASSUME NEW x, GInv(x)
  PROVE  /\ GInv(Dropped(x)) /\ Dropped(x).ses = x.ses
         /\ x.link.cut \/ x.link.client = "helper" => Dropped(x).link.cut
<1> DEFINE y == Dropped(x)
           c == x.link.cut \/ x.link.client = "helper"
<1>1. x \in [ses : Session, link : Link]
  BY DEF GInv, GType
<1>2. y.ses = x.ses /\ y.link = [NoLink EXCEPT !.cut = c] /\ y = [ses |-> y.ses, link |-> y.link]
  BY <1>1 DEF Dropped
<1>3. c \in BOOLEAN
  OBVIOUS
<1> HIDE DEF y, c
<1>4. /\ y.link = [server |-> "none", client |-> "none", out |-> <<>>, cancels |-> 0, cut |-> c]
  BY <1>2 DEF NoLink
<1>5. <<>> \in Seq(Replies \cup {"progress"}) /\ Len(<<>>) = 0
  BY EmptySeq
<1>6. GType(y)
  <2>1. y.link \in Link
    BY <1>3, <1>4, <1>5 DEF Link
  <2>2. y \in [ses : Session, link : Link]
    BY <1>1, <1>2, <2>1
  <2>3. QED
    BY <1>4, <1>5, <2>2, UacAssumption DEF GType
<1>7. GLines(y)
  BY <1>2, <1>4 DEF GLines, GInv
<1>8. GThere(y)
  <2>1. hpc \notin {"off", "connect"} => c
    BY DEF c, GInv, GThere
  <2>2. QED
    BY <1>4, <2>1 DEF GThere
<1>9. GCancel(y)
  <2>1. gcancel => pressed \/ c
    BY DEF c, GInv, GCancel
  <2>2. ~ (y.link.cancels > 0) /\ (y.ses.pending => pressed)
    BY <1>2, <1>4 DEF GInv, GCancel
  <2>3. QED
    BY <1>4, <2>1, <2>2 DEF GCancel
<1>10. QED
  BY <1>2, <1>4, <1>6, <1>7, <1>8, <1>9 DEF GInv, y, c

(* The socket that takes the pipe over sends the waiting cancel and reads.  *)
LEMMA AdoptedKeeps ==
  ASSUME NEW x, GInv(x), x.link.client = "helper", TypeOK, IReply, NEW y \in Adopted(x)
  PROVE  /\ GInv(y) /\ y.link.server = "socket"
         /\ y.ses.told = x.ses.told /\ y.ses.running = x.ses.running
<1> DEFINE z == [ses |-> [x.ses EXCEPT !.pending = FALSE],
                 link |-> [x.link EXCEPT !.server = "socket",
                                         !.cancels = IF x.ses.pending THEN 1 ELSE @]]
           n == IF x.ses.pending THEN 1 ELSE x.link.cancels
<1>1. x \in [ses : Session, link : Link] /\ Len(x.link.out) <= PipeSize
  BY DEF GInv, GType
<1>2. /\ z.ses = [x.ses EXCEPT !.pending = FALSE]
      /\ z.link = [x.link EXCEPT !.server = "socket", !.cancels = n]
      /\ z = [ses |-> z.ses, link |-> z.link]
  OBVIOUS
<1>3. n \in 0 .. 1 /\ (n > 0 => pressed)
  BY <1>1 DEF Link, GInv, GCancel
<1>4. \E k \in 0 .. Len(z.link.out) : y = Heard(z, k)
  BY DEF Adopted
<1> HIDE DEF z, n
<1>5. /\ z.ses \in Session /\ z.ses.pending = FALSE /\ z.ses.line = x.ses.line
      /\ z.ses.told = x.ses.told /\ z.ses.running = x.ses.running
  BY <1>1, <1>2 DEF Session
<1>6. /\ z.link \in Link /\ z.link.server = "socket" /\ z.link.client = "helper"
      /\ z.link.out = x.link.out /\ z.link.cancels = n /\ z.link.cut = x.link.cut
  BY <1>1, <1>2, <1>3 DEF Link
<1>7. GType(z)
  <2>1. z \in [ses : Session, link : Link]
    BY <1>2, <1>5, <1>6
  <2>2. QED
    BY <1>1, <1>6, <2>1 DEF GType
<1>8. GLines(z) /\ GThere(z) /\ GCancel(z)
  BY <1>3, <1>5, <1>6 DEF GInv, GLines, GThere, GCancel
<1>9. GInv(z)
  BY <1>7, <1>8 DEF GInv
<1>10. PICK k \in 0 .. Len(z.link.out) : y = Heard(z, k)
  BY <1>4
<1>11. GInv(y) /\ y.link.server = "socket"
  BY <1>6, <1>9, <1>10, HeardKeeps
<1>12. \A f \in {"running", "pending", "pid", "told"} : y.ses[f] = z.ses[f]
  BY <1>7, <1>10, HeardLines
<1>13. QED
  BY <1>5, <1>11, <1>12

(* Whatever acceptClient does with whoever connected.                       *)
LEMMA AcceptKeeps ==
  ASSUME NEW x, GInv(x), TypeOK, IReply, NEW y \in AcceptClient(x)
  PROVE  /\ GInv(y) /\ y.link.server \in {"listening", "idle", "socket"}
         /\ y.ses.told = x.ses.told /\ y.ses.running = x.ses.running
         /\ x.link.cut \/ x.link.client = "helper" =>
              y.link.cut \/ y.link.server \in {"idle", "socket"}
<1>1. CASE x.link.client = "helper" /\ y \in Adopted(x)
  BY <1>1, AdoptedKeeps
<1>2. CASE y = Unread(x)
  <2>1. y = [x EXCEPT !.link.server = "idle"]
    BY <1>2 DEF Unread
  <2>2. GInv(y) /\ y.ses = x.ses /\ y.link = [x.link EXCEPT !.server = "idle"]
    BY <2>1, ServerSet
  <2>3. y.link.server = "idle"
    BY <2>2 DEF GInv, GType, Link
  <2>4. QED
    BY <2>2, <2>3
<1>3. CASE y \in Armed(Dropped(x))
  <2>1. PICK s \in {"listening", "idle"} : y = [Dropped(x) EXCEPT !.link.server = s]
    BY <1>3 DEF Armed
  <2>2. GInv(Dropped(x)) /\ Dropped(x).ses = x.ses 
        /\ (x.link.cut \/ x.link.client = "helper" => Dropped(x).link.cut)
    BY DroppedKeeps
  <2>3. GInv(y) /\ y.ses = Dropped(x).ses /\ y.link = [Dropped(x).link EXCEPT !.server = s]
    BY <2>1, <2>2, ServerSet
  <2>4. y.link.server = s /\ y.link.cut = Dropped(x).link.cut
    <3>1. Dropped(x).link \in Link
      BY <2>2 DEF GInv, GType
    <3>2. QED
      BY <2>3, <3>1 DEF Link
  <2>5. QED
    BY <2>2, <2>3, <2>4
<1>4. QED
  BY <1>1, <1>2, <1>3 DEF AcceptClient

LEMMA ArmKeeps ==
  ASSUME NEW x, GInv(x), TypeOK, IReply, NEW y \in ArmConnect(x)
  PROVE  /\ GInv(y) /\ y.link.server \in {"listening", "idle", "socket"}
         /\ y.ses.told = x.ses.told /\ y.ses.running = x.ses.running
<1>1. CASE y \in AcceptClient(x)
  BY <1>1, AcceptKeeps
<1>2. CASE y \in Armed(x)
  <2>1. PICK s \in {"listening", "idle"} : y = [x EXCEPT !.link.server = s]
    BY <1>2 DEF Armed
  <2>2. GInv(y) /\ y.ses = x.ses /\ y.link = [x.link EXCEPT !.server = s]
    BY <2>1, ServerSet
  <2>3. y.link.server = s
    BY <2>2 DEF GInv, GType, Link
  <2>4. QED
    BY <2>2, <2>3
<1>3. QED
  BY <1>1, <1>2 DEF ArmConnect

(* Reaping a connect: whoever came is the socket's, thrown out, or unread.  *)
LEMMA CompleteKeeps ==
  ASSUME NEW x, GInv(x), TypeOK, IReply, x.link.server \notin {"none", "made"},
         NEW y \in CompleteConnect(x)
  PROVE  /\ GInv(y) /\ y.link.server \notin {"none", "made"}
         /\ y.ses.told = x.ses.told /\ y.ses.running = x.ses.running
         /\ hpc = "exit" => y.link.cut \/ y.link.server \in {"idle", "socket"}
<1>1. hpc = "exit" => x.link.cut \/ x.link.client = "helper"
  BY DEF GInv, GThere
<1>2. CASE ~ (x.link.server = "listening" /\ x.link.client # "none")
  <2>1. y = x
    BY <1>2 DEF CompleteConnect
  <2>2. x.link.server \in {"listening", "idle", "socket"}
    BY DEF GInv, GType, Link
  <2>3. QED
    BY <1>1, <1>2, <2>1, <2>2
<1>3. CASE y = Unread(x)
  <2>1. y = [x EXCEPT !.link.server = "idle"]
    BY <1>3 DEF Unread
  <2>2. GInv(y) /\ y.ses = x.ses /\ y.link = [x.link EXCEPT !.server = "idle"]
    BY <2>1, ServerSet
  <2>3. y.link.server = "idle"
    BY <2>2 DEF GInv, GType, Link
  <2>4. QED
    BY <2>2, <2>3
<1>4. CASE y \in AcceptClient(x)
  <2>1. y.link.server \in {"listening", "idle", "socket"}
    BY <1>4, AcceptKeeps
  <2>2. QED
    BY <1>1, <1>4, <2>1, AcceptKeeps
<1>5. QED
  BY <1>2, <1>3, <1>4 DEF CompleteConnect

-----------------------------------------------------------------------------
LEMMA InitInv == Init => IInv
<1> SUFFICES ASSUME Init PROVE IInv
  OBVIOUS
<1>1. <<>> \in Seq(Replies \cup {"progress"}) /\ Len(<<>>) = 0
  BY EmptySeq
<1>2. ses \in Session /\ link \in Link /\ Len(link.out) <= PipeSize
  BY <1>1, UacAssumption DEF Init, NewSession, NoLink, Session, Link
<1>3. TypeOK
  <2>1. runs \in 0 .. MaxRuns /\ tries \in 0 .. Attempts
    BY UacAssumption DEF Init
  <2>2. QED
    BY <1>2, <2>1 DEF Init, TypeOK
<1>4. GInv(Gui)
  BY <1>2 DEF Init, Gui, GInv, GType, GLines, GThere, GCancel, NewSession, NoLink
<1>5. IRun /\ IExit /\ IDisk /\ IReply /\ ITold
  BY DEF Init, IRun, IExit, IDisk, IReply, ITold, NoLineLost, CancelStaysInRun, NewSession, Refusals
<1>6. QED
  BY <1>3, <1>4, <1>5 DEF IInv

(* A callback leaves the GUI in the state it computed.                      *)
LEMMA Settled ==
  ASSUME NEW y, GInv(y), Becomes(y), UNCHANGED <<hpc, reply, gcancel, pressed>>
  PROVE  /\ GInv(Gui)'
         /\ ses' \in Session /\ link' \in Link /\ Len(link'.out) <= PipeSize
<1>1. y \in [ses : Session, link : Link] /\ Len(y.link.out) <= PipeSize
  BY DEF GInv, GType
<1>2. ses' = y.ses /\ link' = y.link
  BY DEF Becomes
<1>3. ses' \in Session /\ link' \in Link /\ Len(link'.out) <= PipeSize
  BY <1>1, <1>2
<1>4. Gui' = y
  BY <1>1, <1>2 DEF Gui
<1>5. GType(Gui)'
  BY <1>3 DEF GType, Gui
<1>6. GLines(Gui)'
  BY <1>2 DEF GLines, Gui, Genuine, GInv
<1>7. GThere(Gui)' /\ GCancel(Gui)'
  BY <1>2 DEF GThere, GCancel, Gui, GInv
<1>8. QED
  BY <1>3, <1>5, <1>6, <1>7 DEF GInv

(* What is left to show of a callback that answers nothing.                 *)
LEMMA Unanswered ==
  ASSUME IInv, Gone, NEW y, GInv(y), Becomes(y), prompt' = "no", y.ses.told = "none",
         y.ses.running => runs > 0 /\ proc # "none" /\ y.link.server \notin {"none", "made"}
  PROVE  IInv' /\ ses'.told = "none"
<1> USE DEF IInv, Gone, helper
<1>1. GInv(Gui)' /\ ses' \in Session /\ link' \in Link /\ Len(link'.out) <= PipeSize
  BY Settled
<1>2. ses' = y.ses /\ link' = y.link
  BY DEF Becomes
<1>3. TypeOK'
  BY <1>1 DEF TypeOK
<1>4. IRun'
  BY <1>2 DEF IRun, Refusals
<1>5. IExit' /\ IDisk' /\ IReply'
  BY DEF IExit, IDisk, IReply
<1>6. ITold'
  BY <1>2 DEF ITold, NoLineLost, CancelStaysInRun
<1>7. QED
  BY <1>1, <1>2, <1>3, <1>4, <1>5, <1>6

LEMMA StepListen ==
  ASSUME IInv, Launched \/ Connected \/ BytesReceived
  PROVE  IInv' /\ ses'.told = "none"
<1> USE DEF IInv
<1>1. CASE Launched
  <2>1. PICK known \in BOOLEAN :
          \E y \in ArmConnect([ses |-> [ses EXCEPT !.running = TRUE, !.pid = known], link |-> link]) :
            Becomes(y)
    BY <1>1 DEF Launched
  <2> DEFINE x == [ses |-> [ses EXCEPT !.running = TRUE, !.pid = known], link |-> link]
  <2>3. PICK y \in ArmConnect(x) : Becomes(y)
    BY <2>1
  <2> HIDE DEF x
  <2>4. /\ x.ses \in Session /\ x.link = link /\ x \in [ses : Session, link : Link]
        /\ x.ses.line = ses.line /\ x.ses.told = ses.told /\ x.ses.pending = ses.pending
    BY DEF TypeOK, Session, x
  <2>5. GInv(x)
    BY <2>4 DEF GInv, GType, GLines, GThere, GCancel, Gui
  <2>6. GInv(y) /\ y.link.server \notin {"none", "made"} /\ y.ses.told = x.ses.told
    BY <2>5, ArmKeeps
  <2>7. ses.told = "none" /\ runs > 0 /\ proc # "none" /\ prompt' = "no" /\ Gone
    BY <1>1 DEF Launched, IRun
  <2>8. QED
    BY <2>3, <2>4, <2>6, <2>7, Unanswered
<1>2. CASE Connected
  <2>1. PICK y \in CompleteConnect(Gui) : Becomes(y)
    BY <1>2 DEF Connected
  <2>2. Gui.link.server \notin {"none", "made"} /\ Gui.ses = ses
    BY <1>2 DEF Connected, Gui
  <2>3. GInv(y) /\ y.link.server \notin {"none", "made"} /\ y.ses.told = ses.told /\ y.ses.running = ses.running
    BY <2>1, <2>2, CompleteKeeps
  <2>4. ses.told = "none" /\ prompt' = "no" /\ Gone
    BY <1>2 DEF Connected
  <2>5. QED
    BY <2>1, <2>3, <2>4, Unanswered DEF IRun
<1>3. CASE BytesReceived
  <2>1. PICK k \in 1 .. Len(link.out) : Becomes(Heard(Gui, k))
    BY <1>3 DEF BytesReceived
  <2>2. Gui.link = link /\ Gui.ses = ses
    BY DEF Gui
  <2>3. k \in 0 .. Len(Gui.link.out)
    BY <2>2
  <2>4. link.server = "socket" /\ ses.told = "none" /\ prompt' = "no" /\ Gone
    BY <1>3 DEF BytesReceived
  <2>5. GInv(Heard(Gui, k)) /\ Heard(Gui, k).link.server = "socket"
    BY <2>2, <2>3, <2>4, HeardKeeps
  <2>6. \A f \in {"running", "pending", "pid", "told"} : Heard(Gui, k).ses[f] = Gui.ses[f]
    BY <2>3, HeardLines DEF GInv
  <2>7. Heard(Gui, k).ses.told = ses.told /\ Heard(Gui, k).ses.running = ses.running
    BY <2>2, <2>6
  <2>8. QED
    BY <2>1, <2>4, <2>5, <2>7, Unanswered DEF IRun
<1>4. QED
  BY <1>1, <1>2, <1>3

(* The answer ends the run and changes nothing that was heard.              *)
LEMMA Finished ==
  ASSUME NEW x, GInv(x), NEW b \in Backstops, Finish(x, b),
         UNCHANGED <<hpc, reply, gcancel, pressed>>
  PROVE  /\ GInv(Gui)'
         /\ ses' \in Session /\ link' \in Link /\ Len(link'.out) <= PipeSize
         /\ ses'.running = FALSE /\ ses'.line = x.ses.line /\ link' = x.link
         /\ ses'.told = IF x.ses.line # "none" THEN x.ses.line ELSE b
<1> DEFINE t == IF x.ses.line # "none" THEN x.ses.line ELSE b
           y == [ses |-> [x.ses EXCEPT !.running = FALSE, !.told = t], link |-> x.link]
<1>1. x \in [ses : Session, link : Link] /\ Len(x.link.out) <= PipeSize
  BY DEF GInv, GType
<1>2. t \in Replies \cup Backstops
  BY <1>1 DEF Session
<1>3. Becomes(y)
  BY DEF Finish, Becomes
<1> HIDE DEF t
<1>4. y.ses = [x.ses EXCEPT !.running = FALSE, !.told = t] /\ y.link = x.link
      /\ y = [ses |-> y.ses, link |-> y.link]
  OBVIOUS
<1> HIDE DEF y
<1>5. /\ y.ses \in Session /\ y.ses.running = FALSE /\ y.ses.told = t
      /\ y.ses.line = x.ses.line /\ y.ses.pending = x.ses.pending
  BY <1>1, <1>2, <1>4 DEF Session
<1>6. y \in [ses : Session, link : Link]
  BY <1>1, <1>4, <1>5
<1>7. GInv(y)
  BY <1>4, <1>5, <1>6 DEF GInv, GType, GLines, GThere, GCancel
<1>8. ses' = y.ses /\ link' = y.link
  BY <1>3 DEF Becomes
<1>9. QED
  BY <1>3, <1>4, <1>5, <1>7, <1>8, Settled DEF t

(* After the answer nothing of the run moves but strangers at the pipe.     *)
LEMMA Over ==
  ASSUME IInv, Gone, prompt' = "no", GInv(Gui)', ses'.running = FALSE, proc # "up", ITold',
         ses' \in Session, link' \in Link, Len(link'.out) <= PipeSize
  PROVE  IInv'
<1> USE DEF IInv, Gone, helper
<1>1. TypeOK'
  BY DEF TypeOK
<1>2. IRun'
  BY DEF IRun, Refusals
<1>3. IExit' /\ IDisk' /\ IReply'
  BY DEF IExit, IDisk, IReply
<1>4. QED
  BY <1>1, <1>2, <1>3

LEMMA StepRefused == ASSUME IInv, LaunchRefused PROVE IInv'
<1> USE DEF IInv
<1> DEFINE x == [ses |-> ses, link |-> NoLink]
<1>1. /\ prompt \in Refusals /\ prompt' = "no" /\ Gone /\ Finish(x, prompt)
      /\ UNCHANGED <<hpc, reply, gcancel, pressed, exit>>
  BY DEF LaunchRefused, Gone, helper
<1>2. proc = "none" /\ exit = "none" /\ hpc = "off" /\ ~gcancel /\ ses.line = "none"
  BY <1>1 DEF IRun, IExit, Refusals, TypeOK
<1>3. <<>> \in Seq(Replies \cup {"progress"}) /\ Len(<<>>) = 0
  BY EmptySeq
<1>4. x.ses = ses /\ x.link = NoLink
  OBVIOUS
<1>5. x \in [ses : Session, link : Link] /\ Len(x.link.out) <= PipeSize
  BY <1>3, UacAssumption DEF TypeOK, Link, NoLink
<1> HIDE DEF x
<1>6. GInv(x)
  BY <1>2, <1>4, <1>5 DEF GInv, GType, GLines, GThere, GCancel, Gui, NoLink
<1>7. prompt \in Backstops
  BY <1>1 DEF Refusals, Backstops
<1>8. /\ GInv(Gui)' /\ ses'.running = FALSE /\ ses'.told = prompt
      /\ ses' \in Session /\ link' \in Link /\ Len(link'.out) <= PipeSize
  BY <1>1, <1>2, <1>4, <1>6, <1>7, Finished
<1>9. ITold'
  BY <1>1, <1>2, <1>8 DEF ITold, NoLineLost, CancelStaysInRun, Refusals
<1>10. QED
  BY <1>1, <1>2, <1>8, <1>9, Over

(* When the helper is gone the pipe is read to its end, so that the line of *)
(* a helper that was accepted is what is told.                              *)
LEMMA ExitSeen ==
  ASSUME IInv, OnProcessExit
  PROVE  /\ GInv(Gui)' /\ ses'.running = FALSE
         /\ ses' \in Session /\ link' \in Link /\ Len(link'.out) <= PipeSize
         /\ ses'.told = ses'.line \/ ses'.told = Outcome[exit]
         /\ ses'.told = ses'.line => Genuine(ses'.line)
         /\ hpc = "exit" /\ ~link'.cut /\ link'.server # "idle" => ses'.told = reply
<1> USE DEF IInv
<1>1. PICK x \in CompleteConnect(Gui) : Finish(Drained(x), Outcome[exit])
  BY DEF OnProcessExit
<1>2. ses.running /\ proc = "gone" /\ Gone
  BY DEF OnProcessExit
<1>3. Outcome[exit] \in Backstops /\ Outcome[exit] \notin Replies
  BY <1>2 DEF IExit, TypeOK, Outcome, Backstops, Replies
<1>4. Gui.link.server \notin {"none", "made"} /\ Gui.ses = ses
  BY <1>2 DEF Gui, IRun
<1>5. /\ GInv(x) /\ x.link.server \notin {"none", "made"}
      /\ hpc = "exit" => x.link.cut \/ x.link.server \in {"idle", "socket"}
  BY <1>4, CompleteKeeps
<1> DEFINE z == Drained(x)
<1>6. /\ GInv(z) /\ z.link.cut = x.link.cut /\ z.link.server = x.link.server
      /\ hpc = "exit" /\ ~z.link.cut /\ z.link.server # "idle" => z.ses.line = reply
  <2>1. CASE x.link.server = "socket"
    <3> DEFINE k == Len(x.link.out)
    <3>1. k \in 0 .. Len(x.link.out)
      <4>1. x.link.out \in Seq(Replies \cup {"progress"})
        BY <1>5 DEF GInv, GType, Link
      <4>2. QED
        BY <4>1, LenProperties
    <3>2. z = Heard(x, k)
      BY <2>1 DEF Drained
    <3>3. GInv(z) /\ z.link.server = "socket" /\ (hpc = "exit" /\ ~x.link.cut => z.ses.line = reply)
      BY <1>5, <2>1, <3>1, <3>2, HeardKeeps
    <3>4. \A f \in {"server", "client", "cancels", "cut"} : Heard(x, k).link[f] = x.link[f]
      BY <1>5, <3>1, HeardLines DEF GInv
    <3>5. z.link.cut = x.link.cut
      BY <3>2, <3>4
    <3>6. QED
      BY <2>1, <3>3, <3>5
  <2>2. CASE x.link.server # "socket"
    BY <1>5, <2>2 DEF Drained
  <2>3. QED
    BY <2>1, <2>2
<1> HIDE DEF z
<1>7. /\ GInv(Gui)' /\ ses'.running = FALSE /\ ses'.line = z.ses.line /\ link' = z.link
      /\ ses' \in Session /\ link' \in Link /\ Len(link'.out) <= PipeSize
      /\ ses'.told = IF z.ses.line # "none" THEN z.ses.line ELSE Outcome[exit]
  <2>1. Finish(z, Outcome[exit])
    BY <1>1 DEF z
  <2>2. QED
    BY <1>2, <1>3, <1>6, <2>1, Finished DEF Gone, helper
<1>8. z.ses.line # "none" => Genuine(z.ses.line)
  BY <1>6 DEF GInv, GLines
<1>9. hpc = "exit" => reply # "none"
  BY DEF IReply
<1>10. "none" \notin Backstops
  BY DEF Backstops
<1>11. QED
  BY <1>3, <1>6, <1>7, <1>8, <1>9, <1>10

LEMMA StepExit == ASSUME IInv, OnProcessExit PROVE IInv'
<1>1. ses.running /\ proc = "gone" /\ Gone /\ prompt' = prompt
  BY DEF OnProcessExit
<1>2. prompt' = "no"
  BY <1>1 DEF IInv, IRun
<1>3. NoLineLost'
  <2>1. exit' = exit /\ reply' = reply /\ (exit = "ok" => hpc = "exit")
    BY <1>1 DEF Gone, helper, IInv, IExit
  <2>2. QED
    BY <2>1, ExitSeen DEF NoLineLost
<1>4. CancelStaysInRun'
  <2>1. pressed' = pressed /\ exit \in {"ok", "nochannel", "crash"}
    BY <1>1 DEF Gone, IInv, IExit, TypeOK
  <2>2. Outcome[exit] # "cancelled"
    BY <2>1 DEF Outcome
  <2>3. QED
    BY <2>1, <2>2, ExitSeen DEF CancelStaysInRun, Genuine
<1>5. QED
  BY <1>1, <1>2, <1>3, <1>4, ExitSeen, Over DEF ITold

-----------------------------------------------------------------------------
LEMMA StepStart == ASSUME IInv, Start PROVE IInv'
<1> USE DEF IInv
<1>1. /\ runs' = runs + 1 /\ runs < MaxRuns /\ pressed' = FALSE /\ proc' = "none" /\ exit' = "none"
      /\ hpc' = "off" /\ flushing' = FALSE /\ tries' = Attempts /\ gcancel' = FALSE
      /\ watching' = FALSE /\ reply' = "none" /\ disk' = "untouched"
      /\ prompt' \in {"yes", "LaunchFailed"} /\ ses' = NewSession
      /\ link' \in {[NoLink EXCEPT !.server = "made"], NoLink}
  BY DEF Start, Becomes, Reset
<1>2. <<>> \in Seq(Replies \cup {"progress"}) /\ Len(<<>>) = 0
  BY EmptySeq
<1>3. ses' \in Session /\ link' \in Link /\ Len(link'.out) <= PipeSize
  <2>1. ses' \in Session
    BY <1>1 DEF NewSession, Session
  <2>2. PICK s \in {"made", "none"} :
          link' = [server |-> s, client |-> "none", out |-> <<>>, cancels |-> 0, cut |-> FALSE]
    BY <1>1 DEF NoLink
  <2>3. link' \in Link /\ link'.out = <<>>
    BY <1>2, <2>2 DEF Link
  <2>4. QED
    BY <1>2, <2>1, <2>3, UacAssumption
<1>4. TypeOK'
  <2>1. runs' \in 0 .. MaxRuns /\ tries' \in 0 .. Attempts
    BY <1>1, UacAssumption DEF TypeOK
  <2>2. QED
    BY <1>1, <1>3, <2>1 DEF TypeOK, Refusals
<1>5. runs' > 0
  BY <1>1 DEF TypeOK
<1>6. GInv(Gui)'
  <2>1. GType(Gui)'
    BY <1>3 DEF GType, Gui
  <2>2. GLines(Gui)' /\ GThere(Gui)' /\ GCancel(Gui)'
    BY <1>1 DEF Gui, GLines, GThere, GCancel, NewSession, NoLink
  <2>3. QED
    BY <2>1, <2>2 DEF GInv
<1>7. IRun'
  BY <1>1, <1>5 DEF IRun, NewSession
<1>8. IExit' /\ IDisk' /\ IReply' /\ ITold'
  BY <1>1 DEF IExit, IDisk, IReply, ITold, NoLineLost, CancelStaysInRun, NewSession
<1>9. QED
  BY <1>4, <1>6, <1>7, <1>8

LEMMA StepElevate == ASSUME IInv, Elevate PROVE IInv'
<1> USE DEF IInv
<1>1. /\ prompt = "yes" /\ proc = "none"
      /\ \/ proc' = "up" /\ hpc' = "connect" /\ prompt' = prompt
         \/ prompt' \in Refusals /\ proc' = proc /\ hpc' = hpc
      /\ UNCHANGED <<runs, ses, link, exit, flushing, tries, gcancel, watching, reply, disk, pressed>>
  BY DEF Elevate
<1>2. hpc = "off" /\ disk = "untouched" /\ ~gcancel /\ exit = "none" /\ reply = "none"
  BY <1>1 DEF IExit, IReply, TypeOK
<1>3. TypeOK'
  BY <1>1 DEF TypeOK
<1>4. IRun'
  BY <1>1 DEF IRun, Refusals
<1>5. IExit' /\ IDisk' /\ IReply'
  BY <1>1, <1>2 DEF IExit, IDisk, IReply
<1>6. GInv(Gui)'
  BY <1>1, <1>2 DEF GInv, GType, GLines, GThere, GCancel, Genuine, Gui
<1>7. ITold'
  BY <1>1 DEF ITold, NoLineLost, CancelStaysInRun
<1>8. QED
  BY <1>3, <1>4, <1>5, <1>6, <1>7

LEMMA StepCancel == ASSUME IInv, Cancel PROVE IInv'
<1> USE DEF IInv
<1>1. /\ ses.running /\ pressed' = TRUE
      /\ \/ link' = [link EXCEPT !.cancels = 1] /\ ses' = ses
         \/ ses' = [ses EXCEPT !.pending = TRUE] /\ link' = link
      /\ UNCHANGED <<runs, prompt, proc, exit, hpc, flushing, tries, gcancel, watching, reply, disk>>
  BY DEF Cancel, helper
<1>2. /\ ses' \in Session /\ ses'.line = ses.line /\ ses'.told = ses.told /\ ses'.running = ses.running
      /\ link' \in Link /\ link'.out = link.out /\ link'.server = link.server
      /\ link'.client = link.client /\ link'.cut = link.cut
  <2>1. ses \in Session /\ link \in Link
    BY DEF TypeOK
  <2>2. CASE link' = [link EXCEPT !.cancels = 1] /\ ses' = ses
    BY <2>1, <2>2 DEF Link
  <2>3. CASE ses' = [ses EXCEPT !.pending = TRUE] /\ link' = link
    BY <2>1, <2>3 DEF Session
  <2>4. QED
    BY <1>1, <2>2, <2>3
<1>3. TypeOK'
  BY <1>1, <1>2 DEF TypeOK
<1>4. IRun' /\ IExit' /\ IDisk' /\ IReply'
  BY <1>1, <1>2 DEF IRun, IExit, IDisk, IReply
<1>5. GType(Gui)'
  BY <1>2 DEF GInv, GType, Gui
<1>6. GLines(Gui)' /\ GThere(Gui)' /\ GCancel(Gui)'
  BY <1>1, <1>2 DEF GInv, GLines, GThere, GCancel, Genuine, Gui
<1>7. ITold'
  BY <1>1, <1>2 DEF ITold, NoLineLost, CancelStaysInRun
<1>8. QED
  BY <1>3, <1>4, <1>5, <1>6, <1>7 DEF GInv

LEMMA StepOther == ASSUME IInv, OtherConnects PROVE IInv'
<1> USE DEF IInv
<1>1. PICK l \in {"progress", "result"} : link' = [link EXCEPT !.client = "other", !.out = <<l>>]
  BY DEF OtherConnects
<1>2. /\ link.server \in {"made", "listening"} /\ link.client = "none"
      /\ UNCHANGED <<runs, prompt, ses, proc, exit, hpc, flushing, tries, gcancel, watching, reply, disk, pressed>>
  BY DEF OtherConnects, Free, helper
<1>3. <<l>> \in Seq(Replies \cup {"progress"}) /\ Len(<<l>>) = 1
  BY DEF Replies
<1>4. /\ link' \in Link /\ link'.out = <<l>> /\ link'.server = link.server
      /\ link'.client = "other" /\ link'.cut = link.cut /\ link'.cancels = link.cancels
  BY <1>1, <1>3 DEF TypeOK, Link
<1>5. TypeOK'
  BY <1>2, <1>3, <1>4, UacAssumption DEF TypeOK
<1>6. IRun' /\ IExit' /\ IDisk' /\ IReply'
  BY <1>2, <1>4 DEF IRun, IExit, IDisk, IReply
<1>7. GType(Gui)'
  BY <1>5 DEF GType, Gui, TypeOK
<1>8. GLines(Gui)' /\ GThere(Gui)' /\ GCancel(Gui)'
  BY <1>2, <1>4 DEF GInv, GLines, GThere, GCancel, Genuine, Gui
<1>9. ITold'
  BY <1>2, <1>4 DEF ITold, NoLineLost, CancelStaysInRun
<1>10. QED
  BY <1>5, <1>6, <1>7, <1>8, <1>9 DEF GInv

-----------------------------------------------------------------------------
(* What is left to show of a step of the helper, which runs in an open run. *)
LEMMA HelperStep ==
  ASSUME IInv, proc = "up", proc' # "none", UNCHANGED <<runs, prompt, ses, pressed>>,
         TypeOK', IExit', IDisk', IReply', GLines(Gui)', GThere(Gui)', GCancel(Gui)',
         link'.server = link.server
  PROVE  IInv'
<1> USE DEF IInv
<1>1. ses.told = "none" /\ runs > 0 /\ prompt \notin Refusals
  BY DEF IRun
<1>2. IRun'
  BY <1>1 DEF IRun
<1>3. ITold'
  BY <1>1 DEF ITold, NoLineLost, CancelStaysInRun
<1>4. GInv(Gui)'
  BY DEF GInv, GType, Gui, TypeOK
<1>5. QED
  BY <1>2, <1>3, <1>4

LEMMA StepConnect == ASSUME IInv, Connect PROVE IInv'
<1> USE DEF IInv
<1>1. /\ proc = "up" /\ hpc = "connect"
      /\ UNCHANGED <<runs, prompt, ses, gcancel, pressed, flushing, reply, disk>>
  BY DEF Connect, Helper
<1>2. disk = "untouched" /\ reply = "none" /\ exit = "none"
  BY <1>1 DEF IDisk, IReply, IExit
<1>3. CASE /\ Free /\ link' = [link EXCEPT !.client = "helper"]
           /\ hpc' = "before" /\ watching' = TRUE /\ UNCHANGED <<proc, exit, tries>>
  <2>1. link.client = "none" /\ link.server # "socket" /\ link.out = <<>>
    BY <1>3 DEF Free, GInv, GLines, Gui
  <2>2. /\ link' \in Link /\ link'.client = "helper" /\ link'.out = link.out
        /\ link'.server = link.server /\ link'.cancels = link.cancels /\ link'.cut = link.cut
    BY <1>3 DEF TypeOK, Link
  <2>3. TypeOK'
    BY <1>1, <1>3, <2>2 DEF TypeOK
  <2>4. IExit' /\ IDisk' /\ IReply'
    BY <1>1, <1>2, <1>3 DEF IExit, IDisk, IReply
  <2>5. Len(link.out) = 0
    BY <2>1, EmptySeq
  <2>6. GLines(Gui)'
    BY <1>1, <1>2, <2>1, <2>2, <2>5 DEF GInv, GLines, Genuine, Gui
  <2>7. GThere(Gui)' /\ GCancel(Gui)'
    BY <1>1, <1>3, <2>2 DEF GInv, GThere, GCancel, Gui
  <2>8. QED
    BY <1>1, <1>3, <2>2, <2>3, <2>4, <2>6, <2>7, HelperStep
<1>4. CASE /\ UNCHANGED <<link, hpc, watching>>
           /\ \/ tries > 1 /\ tries' = tries - 1 /\ UNCHANGED <<proc, exit>>
              \/ Ends("nochannel") /\ tries' = tries
  <2>1. TypeOK'
    <3>1. tries' \in 0 .. Attempts
      BY <1>4, UacAssumption DEF TypeOK
    <3>2. proc' \in {"up", "gone"} /\ exit' \in {"none", "nochannel"}
      BY <1>1, <1>2, <1>4 DEF Ends
    <3>3. QED
      BY <1>1, <1>4, <3>1, <3>2 DEF TypeOK
  <2>2. IExit' /\ IDisk' /\ IReply'
    BY <1>1, <1>2, <1>4 DEF IExit, IDisk, IReply, Ends
  <2>3. GLines(Gui)' /\ GThere(Gui)' /\ GCancel(Gui)'
    BY <1>1, <1>4 DEF GInv, GLines, GThere, GCancel, Genuine, Gui
  <2>4. proc' # "none" /\ link'.server = link.server
    BY <1>1, <1>4 DEF Ends
  <2>5. QED
    BY <1>1, <2>1, <2>2, <2>3, <2>4, HelperStep
<1>5. QED
  BY <1>3, <1>4 DEF Connect

(* A line goes behind those in the pipe, or nowhere once the pipe is cut.   *)
LEMMA LineWritten ==
  ASSUME TypeOK, NEW l \in Replies \cup {"progress"}, WriteLine(l)
  PROVE  /\ link' \in Link /\ Len(link'.out) <= PipeSize /\ flushing' \in BOOLEAN
         /\ link'.server = link.server /\ link'.client = link.client
         /\ link'.cancels = link.cancels /\ link'.cut = link.cut
         /\ link.cut => link' = link
         /\ ~link.cut =>
              /\ link'.out # <<>> /\ Len(link'.out) \in 1 .. PipeSize /\ link'.out[Len(link'.out)] = l
              /\ \A i \in 1 .. Len(link'.out) : link'.out[i] = l
                   \/ (i \in 1 .. Len(link.out) /\ link'.out[i] = link.out[i])
<1>1. link \in Link /\ Len(link.out) <= PipeSize /\ flushing \in BOOLEAN
  BY DEF TypeOK
<1>2. CASE link.cut
  BY <1>1, <1>2 DEF WriteLine
<1>3. CASE ~link.cut
  <2> DEFINE out == link.out
             more == Append(out, l)
  <2>1. out \in Seq(Replies \cup {"progress"}) /\ Len(out) \in Nat
    BY <1>1, LenProperties DEF Link
  <2>2. /\ more \in Seq(Replies \cup {"progress"}) /\ Len(more) = Len(out) + 1
        /\ \A i \in 1 .. Len(out) : more[i] = out[i]
        /\ more[Len(out) + 1] = l
    BY <2>1, AppendProperties
  <2>3. Len(out) < PipeSize /\ link' = [link EXCEPT !.out = more] /\ flushing' = TRUE
    BY <1>3 DEF WriteLine
  <2> HIDE DEF more, out
  <2>4. /\ link' \in Link /\ link'.out = more /\ link'.server = link.server
        /\ link'.client = link.client /\ link'.cancels = link.cancels /\ link'.cut = link.cut
    BY <1>1, <2>2, <2>3 DEF Link
  <2>5. Len(more) \in 1 .. PipeSize /\ more # <<>>
    BY <2>1, <2>2, <2>3, EmptySeq, UacAssumption
  <2>6. \A i \in 1 .. Len(more) : more[i] = l \/ (i \in 1 .. Len(out) /\ more[i] = out[i])
    <3>1. Len(out) \in Nat
      BY <2>1
    <3>2. \A i \in 1 .. Len(more) : i \in 1 .. Len(out) \/ i = Len(out) + 1
      BY <2>2, <3>1
    <3>3. QED
      BY <2>2, <3>2
  <2>7. QED
    BY <1>3, <2>2, <2>3, <2>4, <2>5, <2>6 DEF out
<1>4. QED
  BY <1>2, <1>3

(* The pipe left alone, before the terminal line goes out.                  *)
LEMMA QuietStep ==
  ASSUME IInv, proc = "up", proc' = "up", hpc \notin {"off", "connect", "exit"},
         hpc' \notin {"off", "connect", "exit"},
         UNCHANGED <<runs, prompt, ses, pressed, link, gcancel>>,
         TypeOK', IExit', IDisk', IReply'
  PROVE  IInv'
<1> USE DEF IInv
<1>1. GLines(Gui)'
  BY DEF GInv, GLines, Genuine, Gui
<1>2. GThere(Gui)' /\ GCancel(Gui)'
  BY DEF GInv, GThere, GCancel, Gui
<1>3. QED
  BY <1>1, <1>2, HelperStep

LEMMA StepWork == ASSUME IInv, BeforeBody \/ Poll \/ Commit PROVE IInv'
<1> USE DEF IInv
<1>1. CASE BeforeBody
  <2>1. /\ proc = "up" /\ hpc = "before" /\ hpc' \in {"poll", "report"}
        /\ \/ hpc' = "poll" /\ disk' = "wiped" /\ reply' = reply
           \/ hpc' = "report" /\ reply' = "error" /\ disk' \in {"untouched", "torn"}
        /\ UNCHANGED <<runs, prompt, ses, gcancel, pressed, link, proc, exit, flushing, tries, watching>>
    BY <1>1 DEF BeforeBody, Helper, Fails
  <2>2. TypeOK'
    BY <2>1 DEF TypeOK, Replies
  <2>3. IExit' /\ IDisk' /\ IReply'
    BY <2>1 DEF IExit, IDisk, IReply
  <2>4. QED
    BY <2>1, <2>2, <2>3, QuietStep
<1>2. CASE Poll
  <2>1. /\ proc = "up" /\ hpc = "poll" /\ hpc' \in {"chunk", "commit", "report"}
        /\ \/ gcancel /\ hpc' = "report" /\ reply' = "cancelled"
           \/ hpc' # "report" /\ reply' = reply
        /\ UNCHANGED <<runs, prompt, ses, gcancel, pressed, link, proc, exit, flushing, tries, watching, disk>>
    BY <1>2 DEF Poll, Helper, Fails
  <2>2. TypeOK'
    BY <2>1 DEF TypeOK, Replies
  <2>3. IExit' /\ IDisk' /\ IReply'
    BY <2>1 DEF IExit, IDisk, IReply
  <2>4. QED
    BY <2>1, <2>2, <2>3, QuietStep
<1>3. CASE Commit
  <2>1. /\ proc = "up" /\ hpc = "commit" /\ hpc' = "report"
        /\ \/ reply' = "result" /\ disk' = "complete"
           \/ reply' = "error" /\ disk' \in {"wiped", "torn"}
        /\ UNCHANGED <<runs, prompt, ses, gcancel, pressed, link, proc, exit, flushing, tries, watching>>
    BY <1>3 DEF Commit, Helper, Fails
  <2>2. TypeOK'
    BY <2>1 DEF TypeOK, Replies
  <2>3. IExit' /\ IDisk' /\ IReply'
    BY <2>1 DEF IExit, IDisk, IReply
  <2>4. QED
    BY <2>1, <2>2, <2>3, QuietStep
<1>4. QED
  BY <1>1, <1>2, <1>3

LEMMA StepChunk == ASSUME IInv, WriteChunk PROVE IInv'
<1> USE DEF IInv
<1>1. /\ proc = "up" /\ hpc = "chunk"
      /\ UNCHANGED <<runs, prompt, ses, gcancel, pressed, proc, exit, tries, watching, disk>>
  BY DEF WriteChunk, Helper
<1>2. CASE /\ UNCHANGED <<link, flushing>>
           /\ \/ hpc' = "poll" /\ reply' = reply
              \/ hpc' = "report" /\ reply' = "error"
  <2>1. TypeOK'
    BY <1>1, <1>2 DEF TypeOK, Replies
  <2>2. IExit' /\ IDisk' /\ IReply'
    BY <1>1, <1>2 DEF IExit, IDisk, IReply
  <2>3. QED
    BY <1>1, <1>2, <2>1, <2>2, QuietStep
<1>3. CASE WriteLine("progress") /\ hpc' = "poll" /\ reply' = reply
  <2>1. /\ link' \in Link /\ Len(link'.out) <= PipeSize /\ flushing' \in BOOLEAN
        /\ link'.server = link.server /\ link'.client = link.client
        /\ link'.cancels = link.cancels /\ link'.cut = link.cut
        /\ link.cut => link' = link
        /\ ~link.cut => \A i \in 1 .. Len(link'.out) : link'.out[i] = "progress"
                          \/ (i \in 1 .. Len(link.out) /\ link'.out[i] = link.out[i])
    BY <1>3, LineWritten
  <2>2. TypeOK'
    BY <1>1, <1>3, <2>1 DEF TypeOK
  <2>3. IExit' /\ IDisk' /\ IReply'
    BY <1>1, <1>3 DEF IExit, IDisk, IReply
  <2>4. link.cut \/ link.client = "helper"
    BY <1>1 DEF GInv, GThere, Gui
  <2>5. GLines(Gui)'
    <3>1. "progress" \notin Replies
      BY DEF Replies
    <3>2. ses.line = "none"
      BY <1>1 DEF GInv, GLines, Genuine, Gui
    <3>3. CASE link.cut
      BY <1>1, <1>3, <2>1, <3>2, <3>3 DEF GInv, GLines, Genuine, Gui
    <3>4. CASE ~link.cut
      <4>1. link.client = "helper" /\ \A i \in 1 .. Len(link.out) : link.out[i] \notin Replies
        BY <1>1, <2>4, <3>4 DEF GInv, GLines, Genuine, Gui
      <4>2. \A i \in 1 .. Len(link'.out) : link'.out[i] \notin Replies
        BY <2>1, <3>1, <3>4, <4>1
      <4>3. QED
        BY <1>1, <2>1, <3>2, <4>1, <4>2 DEF GLines, Gui
    <3>5. QED
      BY <3>3, <3>4
  <2>6. GThere(Gui)' /\ GCancel(Gui)'
    BY <1>1, <1>3, <2>1 DEF GInv, GThere, GCancel, Gui
  <2>7. QED
    BY <1>1, <2>1, <2>2, <2>3, <2>5, <2>6, HelperStep
<1>4. QED
  BY <1>2, <1>3 DEF WriteChunk, Fails

LEMMA StepReport == ASSUME IInv, Report PROVE IInv'
<1> USE DEF IInv
<1>1. /\ proc = "up" /\ hpc = "report" /\ hpc' = "exit" /\ WriteLine(reply)
      /\ UNCHANGED <<runs, prompt, ses, gcancel, pressed, proc, exit, tries, watching, reply, disk>>
  BY DEF Report, Helper
<1>2. reply \in Replies
  BY <1>1 DEF IReply, TypeOK
<1>3. /\ link' \in Link /\ Len(link'.out) <= PipeSize /\ flushing' \in BOOLEAN
      /\ link'.server = link.server /\ link'.client = link.client
      /\ link'.cancels = link.cancels /\ link'.cut = link.cut
      /\ link.cut => link' = link
      /\ ~link.cut =>
           /\ Len(link'.out) \in 1 .. PipeSize /\ link'.out[Len(link'.out)] = reply
           /\ \A i \in 1 .. Len(link'.out) : link'.out[i] = reply
                \/ (i \in 1 .. Len(link.out) /\ link'.out[i] = link.out[i])
  BY <1>1, <1>2, LineWritten
<1>4. TypeOK'
  BY <1>1, <1>3 DEF TypeOK
<1>5. IExit' /\ IDisk' /\ IReply'
  BY <1>1 DEF IExit, IDisk, IReply
<1>6. ses.line = "none" /\ (link.cut \/ link.client = "helper")
      /\ (link.client = "helper" => \A i \in 1 .. Len(link.out) : link.out[i] \notin Replies)
  BY <1>1 DEF GInv, GLines, GThere, Genuine, Gui
<1>7. ~link.cut => Genuine(reply)'
  BY <1>1 DEF Genuine, IReply, GInv, GCancel, Gui
<1>8. GLines(Gui)'
  <2>1. CASE link.cut
    BY <1>1, <1>3, <1>6, <2>1 DEF GInv, GLines, Gui
  <2>2. CASE ~link.cut
    <3>1. link.client = "helper" /\ \A i \in 1 .. Len(link.out) : link.out[i] \notin Replies
      BY <1>6, <2>2
    <3>2. \A i \in 1 .. Len(link'.out) : link'.out[i] \in Replies => link'.out[i] = reply
      BY <1>3, <2>2, <3>1
    <3>3. \A i \in 1 .. Len(link'.out) : link'.out[i] \in Replies =>
            link'.out[i] = reply' /\ hpc' = "exit" /\ (link'.out[i] = "cancelled" => pressed')
      BY <1>1, <1>7, <2>2, <3>2 DEF Genuine
    <3>4. QED
      BY <1>1, <1>3, <1>6, <3>1, <3>3 DEF GLines, Gui, Genuine
  <2>3. QED
    BY <2>1, <2>2
<1>9. GThere(Gui)'
  <2>1. CASE link.cut
    BY <1>3, <2>1 DEF GThere, Gui
  <2>2. CASE ~link.cut
    <3>1. Len(link'.out) \in 1 .. Len(link'.out) /\ link'.out[Len(link'.out)] = reply'
      BY <1>1, <1>3, <2>2
    <3>2. QED
      BY <1>3, <1>6, <2>2, <3>1 DEF GThere, Gui
  <2>3. QED
    BY <2>1, <2>2
<1>10. GCancel(Gui)'
  BY <1>1, <1>3 DEF GInv, GCancel, Gui
<1>11. QED
  BY <1>1, <1>3, <1>4, <1>5, <1>8, <1>9, <1>10, HelperStep

LEMMA StepEnd == ASSUME IInv, Exit \/ Crash \/ Watch \/ Flushed \/ FlushFails PROVE IInv'
<1> USE DEF IInv
<1>1. /\ proc = "up" /\ exit = "none"
      /\ UNCHANGED <<runs, prompt, ses, link, hpc, tries, reply, pressed>>
  BY DEF Exit, Crash, Watch, Flushed, FlushFails, Helper, IExit
<1>2. GLines(Gui)' /\ GThere(Gui)'
  BY <1>1 DEF GInv, GLines, GThere, Genuine, Gui
<1>3. CASE Exit \/ Crash
  <2>1. /\ proc' = "gone" /\ UNCHANGED <<gcancel, watching, flushing>>
        /\ \/ hpc = "exit" /\ exit' = "ok" /\ disk' = disk
           \/ exit' = "crash" /\ disk' = disk
           \/ exit' = "crash" /\ hpc \in {"before", "commit"} /\ disk' = "torn"
    BY <1>3 DEF Exit, Crash, Helper, Ends
  <2>2. TypeOK'
    BY <1>1, <2>1 DEF TypeOK
  <2>3. IExit' /\ IDisk' /\ IReply'
    BY <1>1, <2>1 DEF IExit, IDisk, IReply
  <2>4. GCancel(Gui)'
    BY <1>1, <2>1 DEF GInv, GCancel, Gui
  <2>5. QED
    BY <1>1, <1>2, <2>1, <2>2, <2>3, <2>4, HelperStep
<1>4. CASE Watch \/ Flushed \/ FlushFails
  <2>1. /\ UNCHANGED <<proc, exit, disk>> /\ flushing' \in BOOLEAN /\ watching' \in BOOLEAN
        /\ \/ gcancel' = gcancel
           \/ gcancel' = TRUE /\ (link.cancels > 0 \/ link.cut)
    BY <1>4 DEF Watch, Flushed, FlushFails, TypeOK
  <2>2. TypeOK'
    BY <1>1, <2>1 DEF TypeOK
  <2>3. IExit' /\ IDisk' /\ IReply'
    BY <1>1, <2>1 DEF IExit, IDisk, IReply
  <2>4. GCancel(Gui)'
    BY <1>1, <2>1 DEF GInv, GCancel, Gui
  <2>5. QED
    BY <1>1, <1>2, <2>1, <2>2, <2>3, <2>4, HelperStep
<1>5. QED
  BY <1>3, <1>4

LEMMA NextInv == IInv /\ [Next]_vars => IInv'
<1> SUFFICES ASSUME IInv, [Next]_vars PROVE IInv'
  OBVIOUS
<1>1. CASE Start \/ Elevate \/ Cancel \/ OtherConnects
  BY <1>1, StepStart, StepElevate, StepCancel, StepOther
<1>2. CASE EventLoop
  BY <1>2, StepRefused, StepListen, StepExit DEF EventLoop
<1>3. CASE Main
  BY <1>3, StepConnect, StepEnd, StepWork, StepChunk, StepReport DEF Main
<1>4. CASE FlushFails \/ Watch \/ Crash
  BY <1>4, StepEnd
<1>5. CASE UNCHANGED vars
  <2>1. UNCHANGED <<runs, prompt, ses, link, proc, exit, hpc, flushing, tries, gcancel, watching, reply, disk, pressed>>
    BY <1>5 DEF vars, helper
  <2>2. TypeOK' /\ IRun' /\ IExit' /\ IDisk' /\ IReply' /\ ITold'
    BY <2>1 DEF IInv, TypeOK, IRun, IExit, IDisk, IReply, ITold, NoLineLost, CancelStaysInRun
  <2>3. GInv(Gui)'
    BY <2>1 DEF IInv, GInv, GType, GLines, GThere, GCancel, Genuine, Gui
  <2>4. QED
    BY <2>2, <2>3 DEF IInv
<1>6. QED
  BY <1>1, <1>2, <1>3, <1>4, <1>5 DEF Next

(* The inductive invariant: what was parsed and what is in the pipe of an   *)
(* identified helper is the one reply it decided on, true of the card.      *)
THEOREM Invariant == Spec => []IInv
BY InitInv, NextInv, PTL DEF Spec

(* The state of the session is always of its types.                         *)
THEOREM TypeCorrect == Spec => []TypeOK
<1>1. IInv => TypeOK
  BY DEF IInv
<1>2. QED
  BY <1>1, Invariant, PTL

(* The line of a helper that was not cut off is the answer of its run, also *)
(* when it exits before the GUI has seen it connect.  (onProcessExit.)      *)
THEOREM LineIsHeard == Spec => []NoLineLost
<1>1. IInv => NoLineLost
  BY DEF IInv, ITold
<1>2. QED
  BY <1>1, Invariant, PTL

(* A run is only told cancelled if Cancel was pressed in that run, whatever *)
(* the last one left behind.  (pendingCancel_, reset.)                      *)
THEOREM CancelIsOfItsRun == Spec => []CancelStaysInRun
<1>1. IInv => CancelStaysInRun
  BY DEF IInv, ITold
<1>2. QED
  BY <1>1, Invariant, PTL

-----------------------------------------------------------------------------
LEMMA RunInit == Init => Run!Init
BY DEF Init, Run!Init, Told, NewSession, Refusals

(* The answers tell the truth about the card.                               *)
LEMMA AnswerStep ==
  ASSUME IInv, LaunchRefused \/ OnProcessExit
  PROVE  Run!Answer
<1> USE DEF IInv
<1>1. CASE LaunchRefused
  <2>1. /\ prompt \in Refusals /\ ses' = [ses EXCEPT !.running = FALSE,
                !.told = IF ses.line # "none" THEN ses.line ELSE prompt]
        /\ UNCHANGED <<runs, disk>>
    BY <1>1 DEF LaunchRefused, Finish, Gone, helper
  <2>2. ses.line = "none" /\ ses.told = "none" /\ runs > 0 /\ disk = "untouched" /\ ses \in Session
    BY <2>1 DEF IRun, IExit, TypeOK, Refusals
  <2>3. ses'.told = prompt
    BY <2>1, <2>2 DEF Session
  <2>4. Told = "none" /\ Told' = "nothing" /\ prompt # "none"
    BY <2>1, <2>2, <2>3 DEF Told, Refusals
  <2>5. QED
    BY <2>1, <2>2, <2>3, <2>4 DEF Run!Answer
<1>2. CASE OnProcessExit
  <2>1. ses.running /\ proc = "gone" /\ UNCHANGED <<runs, disk, reply, hpc, exit>>
    BY <1>2 DEF OnProcessExit, Gone, helper
  <2>2. ses.told = "none" /\ runs > 0 /\ exit \in {"ok", "nochannel", "crash"}
    BY <2>1 DEF IRun, IExit, TypeOK
  <2>3. /\ ses'.told = ses'.line \/ ses'.told = Outcome[exit]
        /\ ses'.told = ses'.line => ses'.line = reply /\ hpc = "exit"
    BY <1>2, ExitSeen DEF Genuine
  <2>4. Told = "none"
    BY <2>2 DEF Told, Refusals
  <2>5. CASE ses'.told = ses'.line
    <3>1. ses'.told = reply /\ reply \in Replies
      BY <2>1, <2>3, <2>5 DEF IReply, TypeOK
    <3>2. \/ reply = "result" /\ Told' = "written" /\ disk = "complete"
          \/ reply = "cancelled" /\ Told' = "cancelled" /\ disk = "wiped"
          \/ reply = "error" /\ Told' = "failed"
      BY <3>1 DEF Told, Replies, Refusals, IReply
    <3>3. QED
      BY <2>1, <2>2, <2>4, <3>1, <3>2 DEF Run!Answer, Replies
  <2>6. CASE ses'.told = Outcome[exit]
    <3>1. \/ ses'.told = "NoChannel" /\ Told' = "nothing" /\ disk = "untouched"
          \/ ses'.told \in {"NoReport", "Crashed"} /\ Told' = "failed"
      BY <2>2, <2>6 DEF Outcome, Told, Refusals, IExit
    <3>2. QED
      BY <2>1, <2>2, <2>4, <3>1 DEF Run!Answer
  <2>7. QED
    BY <2>3, <2>5, <2>6
<1>3. QED
  BY <1>1, <1>2

LEMMA RunNext == IInv /\ [Next]_vars => [Run!Next]_Run!vars
<1> SUFFICES ASSUME IInv, [Next]_vars PROVE [Run!Next]_Run!vars
  OBVIOUS
<1> USE DEF IInv, Run!vars
<1>1. CASE Start
  <2>1. /\ runs \in Nat /\ runs' = runs + 1 /\ disk' = "untouched" /\ ses' = NewSession
        /\ runs = 0 \/ ses.told # "none"
    BY <1>1 DEF Start, Becomes, Reset, TypeOK
  <2>2. ses'.told = "none" /\ Told' = "none"
    BY <2>1 DEF Told, NewSession, Refusals
  <2>3. Run!Begin
    BY <2>1, <2>2 DEF Run!Begin
  <2>4. QED
    BY <2>3 DEF Run!Next
<1>2. CASE LaunchRefused \/ OnProcessExit
  BY <1>2, AnswerStep DEF Run!Next
<1>3. CASE Launched \/ Connected \/ BytesReceived
  <2>1. IInv' /\ runs' = runs /\ disk' = disk /\ ses.told = "none"
    BY <1>3, StepListen DEF Launched, Connected, BytesReceived, Gone, helper, IRun
  <2>2. ses'.told = "none"
    BY <1>3, StepListen
  <2>3. QED
    BY <2>1, <2>2 DEF Told
<1>4. CASE Elevate \/ OtherConnects \/ Watch \/ FlushFails \/ UNCHANGED vars
  BY <1>4 DEF Elevate, OtherConnects, Watch, FlushFails, vars, helper, Told
<1>5. CASE Cancel
  <2>1. ses'.told = ses.told /\ runs' = runs /\ disk' = disk
    BY <1>5 DEF Cancel, TypeOK, Session, helper
  <2>2. QED
    BY <2>1 DEF Told
<1>6. CASE Main \/ Crash
  <2>1. proc = "up" /\ UNCHANGED <<runs, ses>>
    BY <1>6 DEF Main, Crash, Connect, Flushed, BeforeBody, Poll, WriteChunk, Commit, Report, Exit, Helper
  <2>2. runs > 0 /\ ses.told = "none"
    BY <2>1 DEF IRun
  <2>3. Told' = Told
    BY <2>1 DEF Told
  <2>4. \/ disk' = disk
        \/ disk = "untouched" /\ disk' \in {"wiped", "torn"}
        \/ disk = "wiped" /\ disk' \in {"torn", "complete"}
    <3>1. CASE Crash
      BY <2>1, <3>1 DEF Crash, IDisk
    <3>2. CASE BeforeBody \/ Commit
      BY <2>1, <3>2 DEF BeforeBody, Commit, Helper, IDisk
    <3>3. CASE Connect \/ Flushed \/ Poll \/ WriteChunk \/ Report \/ Exit
      BY <3>3 DEF Connect, Flushed, Poll, WriteChunk, Report, Exit
    <3>4. QED
      BY <1>6, <3>1, <3>2, <3>3 DEF Main
  <2>5. QED
    BY <2>1, <2>2, <2>3, <2>4 DEF Run!Next, Run!Touch
<1>7. QED
  BY <1>1, <1>2, <1>3, <1>4, <1>5, <1>6 DEF Next, EventLoop

(* The session of Windows implements WriteRun: the card changes only while  *)
(* a run is open, each run gets one answer, and the answer is true of the   *)
(* card, whoever else connects to the pipe.                                 *)
THEOREM Refinement == Spec => KeepsRunPromise
BY Invariant, RunInit, RunNext, PTL DEF Spec, KeepsRunPromise, Run!Spec
=============================================================================
