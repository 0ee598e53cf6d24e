--------------------------- MODULE PreloaderWrite ---------------------------
(***************************************************************************)
(* DriveService::writePreloader: a file is copied to the head of a raw      *)
(* partition, synced, and read back.  There is no deferred head: what is    *)
(* written is live at once.  The guard and the open are module TargetOpen.  *)
(*                                                                          *)
(* The file lives on the BOOT partition of the same card.  Its size is      *)
(* taken once, before the guard; what can still be read of it when the      *)
(* copy runs may be less (the card is going, the file was replaced) or more.*)
(***************************************************************************)
EXTENDS RawMedia

CONSTANTS
  Chunk,      \* kChunk, in blocks
  MaxFile     \* bound: the longest file considered

ASSUME PreloaderAssumption ==
  /\ Chunk \in Nat \ {0}
  /\ MaxFile \in Nat \ {0}

VARIABLES
  stage,      \* where writePreloader stands
  verify,     \* WriteOptions::verify
  file,       \* blocks the file has now
  size,       \* preloaderSize
  cancelled,  \* what CancelToken::isCancelled answers
  written,    \* blocks handed to write()
  checked,    \* blocks read back
  same,       \* the hash of those blocks equals that of the written ones
  result      \* "none" while running, then one of Results

progVars == <<stage, size, written, checked, same, result>>
copyVars == <<media, vol, progVars, verify, file, cancelled>>

Smaller(a, b) == IF a <= b THEN a ELSE b

Steps == {"stat", "guard", "capacity", "poll", "read", "sync", "verifyPoll", "verifyRead", "done"}
Results == {"none", "ok", "Refused", "InvalidImage", "DiskFull", "DeviceError",
            "UserCancelled", "HashMismatch"}

CopyTypeOK ==
  /\ MediaTypeOK
  /\ stage \in Steps
  /\ verify \in BOOLEAN
  /\ file \in 0 .. MaxFile
  /\ size \in 0 .. MaxFile
  /\ cancelled \in BOOLEAN
  /\ written \in 0 .. Capacity
  /\ checked \in 0 .. written
  /\ same \in BOOLEAN
  /\ result \in Results

CopyInit ==
  /\ MediaInit
  /\ stage = "stat"
  /\ verify \in BOOLEAN
  /\ file \in 0 .. MaxFile
  /\ size = 0
  /\ cancelled = FALSE
  /\ written = 0 /\ checked = 0 /\ same = TRUE
  /\ result = "none"

-----------------------------------------------------------------------------
Goto(step) == stage' = step /\ UNCHANGED result
Return(r)  == stage' = "done" /\ result' = r

(* statSource: an empty file is refused.                                    *)
StatSource ==
  /\ stage = "stat"
  /\ size' = file
  /\ IF file = 0 THEN Return("InvalidImage") ELSE Goto("guard")
  /\ UNCHANGED <<media, vol, written, checked, same>>

(* Guard, unmount, open: each passes or is returned.                        *)
Prepare ==
  /\ stage = "guard"
  /\ Goto("capacity") \/ Return("Refused")
  /\ UNCHANGED <<media, vol, size, written, checked, same>>

\* Mutant: the size is compared with the partition one block too late.
CheckSizeLate ==
  /\ stage = "capacity"
  /\ IF size > Capacity + 1 THEN Return("DiskFull") ELSE Goto("poll") \/ Return("InvalidImage")
  /\ UNCHANGED <<media, vol, size, written, checked, same>>

(* The preloader fits, and the file can be opened.                          *)
CheckSize ==
  /\ stage = "capacity"
  /\ IF size > Capacity THEN Return("DiskFull") ELSE Goto("poll") \/ Return("InvalidImage")
  /\ UNCHANGED <<media, vol, size, written, checked, same>>

(* The loop condition, then the token, before every chunk.                  *)
Poll ==
  /\ stage = "poll"
  /\ IF written >= size THEN Goto("sync")
     ELSE IF cancelled THEN Return("UserCancelled") ELSE Goto("read")
  /\ UNCHANGED <<media, vol, size, written, checked, same>>

(* A chunk of the file, cut short by its end or by nothing; past the        *)
(* partition the device refuses it.                                         *)
CopyChunk ==
  /\ stage = "read"
  /\ \E n \in 1 .. Smaller(Chunk, file - written) :
       LET blocks == {b \in Block : written <= b /\ b < written + n}
       IN IF written + n <= Capacity
          THEN \/ Write(blocks, "img") /\ written' = written + n /\ Goto("poll")
               \/ WritePart(blocks, "img") /\ Return("DeviceError") /\ UNCHANGED written
          ELSE WritePart(blocks, "img") /\ Return("DeviceError") /\ UNCHANGED written
  /\ UNCHANGED <<size, checked, same>>

(* Nothing can be read: the end of the file, or an error of the stream.     *)
ReadNothing ==
  /\ stage = "read"
  /\ Goto("sync")
  /\ UNCHANGED <<media, vol, size, written, checked, same>>

\* Mutant: the verify reads what the caches still hold.
SyncSkipped ==
  /\ stage = "sync"
  /\ IF verify THEN Goto("verifyPoll") ELSE Return("ok")
  /\ UNCHANGED <<media, vol, size, written, checked, same>>

Sync ==
  /\ stage = "sync"
  /\ \/ Clean /\ (IF verify THEN Goto("verifyPoll") ELSE Return("ok"))
     \/ Return("DeviceError")
  /\ UNCHANGED <<media, vol, size, written, checked, same>>

VerifyPoll ==
  /\ stage = "verifyPoll"
  /\ IF checked < written
     THEN IF cancelled THEN Return("UserCancelled") ELSE Goto("verifyRead")
     ELSE IF same THEN Return("ok") ELSE Return("HashMismatch")
  /\ UNCHANGED <<media, vol, size, written, checked, same>>

(* What a read returns: what is still volatile hides what is on the media.   *)
Seen(b) == IF vol[b] = "clean" THEN media[b] ELSE vol[b]

(* A chunk read back and hashed, never more than was written.               *)
VerifyRead ==
  /\ stage = "verifyRead"
  /\ \/ LET upto == Smaller(checked + Chunk, written)
        IN /\ checked' = upto
           /\ same' = (same /\ \A b \in Block : checked <= b /\ b < upto => Seen(b) = "img")
           /\ Goto("verifyPoll")
     \/ Return("DeviceError") /\ UNCHANGED <<checked, same>>
  /\ UNCHANGED <<media, vol, size, written>>

WritePreloader ==
  /\ \/ StatSource \/ Prepare \/ CheckSize \/ Poll \/ CopyChunk \/ ReadNothing
     \/ Sync \/ VerifyPoll \/ VerifyRead
  /\ UNCHANGED <<verify, file, cancelled>>

-----------------------------------------------------------------------------
(* The environment.                                                         *)
Program ==
  /\ \E b \in Block : Destage(b)
  /\ UNCHANGED <<progVars, verify, file, cancelled>>

Cancel ==
  /\ ~cancelled
  /\ cancelled' = TRUE
  /\ UNCHANGED <<media, vol, progVars, verify, file>>

(* The file is truncated, replaced, or no longer readable in full.          *)
FileChanges ==
  /\ file' \in 0 .. MaxFile
  /\ UNCHANGED <<media, vol, progVars, verify, cancelled>>

PowerCut ==
  /\ stage # "done"
  /\ LosePending
  /\ Return("DeviceError")
  /\ UNCHANGED <<size, written, checked, same, verify, file, cancelled>>

CopyNext == WritePreloader \/ Program \/ Cancel \/ FileChanges \/ PowerCut

CopySpec == CopyInit /\ [][CopyNext]_copyVars

-----------------------------------------------------------------------------
(* Success means that what was handed over is on the media, every block of  *)
(* it, if it was read back or the card is sound.  (FlashSummary.)           *)
CopiedIsOnMedia ==
  result = "ok" /\ (verify \/ Reliable) =>
    Clean /\ \A b \in Block : b < written => media[b] = "img"

(* A preloader that does not fit is refused before the partition is         *)
(* touched: the boot loader that is there goes on booting.                  *)
OversizeIsHarmless == size > Capacity => \A b \in Block : media[b] = "old" /\ vol[b] = "clean"

(* The contract of DriveService.hpp, "raw-write a preloader blob to a       *)
(* partition and verify it by read-back": success means the blob whose size *)
(* was taken is on the partition.                                           *)
WholePreloader == result = "ok" => written >= size
=============================================================================
