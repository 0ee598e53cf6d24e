------------------------------ MODULE RawMedia ------------------------------
(***************************************************************************)
(* The card behind an open raw-device session, as DriveService sees it      *)
(* through IRawDevice: an array of blocks with a volatile layer in front.   *)
(*                                                                          *)
(* The volatile layer stands for everything between a returned write() and  *)
(* the flash cells: AlignedRawDevice's staging buffer, the page cache of a  *)
(* buffered open and the card's own cache.  Its blocks reach the media one  *)
(* at a time, in any order, until a sync has waited for all of them.  Loss  *)
(* of power forgets what is still volatile.                                 *)
(***************************************************************************)
EXTENDS Integers

CONSTANTS
  Capacity,   \* blocks of the device, BlockIo::deviceSize
  WipeHead,   \* kWipeHead, in blocks
  WipeTail,   \* kWipeTail, in blocks
  Faults      \* what a block of a worn or counterfeit card may do when programmed

ASSUME MediaAssumption ==
  /\ Capacity \in Nat \ {0}
  /\ WipeHead \in Nat \ {0}
  /\ WipeTail \in Nat
  /\ Faults \subseteq {"corrupt", "drop"}

VARIABLES
  media,      \* what each block holds: survives every crash
  vol         \* the write not yet programmed to each block, or "clean"

mediaVars == <<media, vol>>

Block == 0 .. Capacity - 1

(* "old": the card's former content; "img": the image's block of that       *)
(* address; "bad": what a failing block holds instead.                      *)
Content == {"old", "zero", "img", "bad"}
Store   == {"zero", "img"}

Reliable == Faults = {}

MediaTypeOK ==
  /\ media \in [Block -> Content]
  /\ vol \in [Block -> Store \cup {"clean"}]

MediaInit ==
  /\ media = [b \in Block |-> "old"]
  /\ vol = [b \in Block |-> "clean"]

Clean == \A b \in Block : vol[b] = "clean"

(* What BlockIo::pwrite leaves behind when it stores c to the blocks bs.    *)
Write(bs, c) ==
  /\ vol' = [b \in Block |-> IF b \in bs THEN c ELSE vol[b]]
  /\ UNCHANGED media

(* A failed pwrite may have stored any part of its buffer.                  *)
WritePart(bs, c) == \E part \in SUBSET bs : Write(part, c)

(* The ranges AlignedRawDevice::wipeSignatures zeroes.                      *)
WipeHeadBlocks == {b \in Block : b < WipeHead}
WipeTailBlocks ==
  {b \in Block : Capacity > WipeTail /\ b >= WipeHead /\ b >= Capacity - WipeTail}
WipeBlocks == WipeHeadBlocks \cup WipeTailBlocks

(* The device programs one pending block.  A sound card stores what was     *)
(* written; a failing one may corrupt the block or lose the write.          *)
Programmed(b) ==
  {vol[b]} \cup (IF "corrupt" \in Faults THEN {"bad"} ELSE {})
           \cup (IF "drop" \in Faults THEN {media[b]} ELSE {})

Destage(b) ==
  /\ vol[b] # "clean"
  /\ \E c \in Programmed(b) : media' = [media EXCEPT ![b] = c]
  /\ vol' = [vol EXCEPT ![b] = "clean"]

(* Power is lost or the card is pulled.                                     *)
LosePending ==
  /\ vol' = [b \in Block |-> "clean"]
  /\ UNCHANGED media
=============================================================================
