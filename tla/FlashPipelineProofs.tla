------------------------ MODULE FlashPipelineProofs ------------------------
(***************************************************************************)
(* Proofs, for every device size, head size, chunk size, image length and   *)
(* fault set, of the safety properties of FlashPipeline.  The inductive     *)
(* invariant says for each stretch of flash what the media and the pending  *)
(* writes may hold while the program is there.                              *)
(***************************************************************************)
EXTENDS FlashPipeline, TLAPS

(* Type correctness: every variable of flash and of the card keeps to its   *)
(* declared range, and what is counted as written never exceeds the image.  *)
LEMMA TypeInit == Init => TypeOK
<1> SUFFICES ASSUME Init PROVE TypeOK
  OBVIOUS
<1>1. MediaTypeOK
  BY DEF Init, MediaInit, MediaTypeOK, Content, Store
<1>2. imageLen \in 0 .. MaxImage /\ written \in 0 .. imageLen
  BY FlashAssumption DEF Init
<1>3. pc \in Steps /\ result \in Results
  BY DEF Init, Steps, Results
<1>4. checked \in Int
  BY DEF Init
<1>5. QED
  BY <1>1, <1>2, <1>3, <1>4, Zenon DEF Init, TypeOK

LEMMA TypeNext == TypeOK /\ [Next]_vars => TypeOK'
<1> SUFFICES ASSUME TypeOK, [Next]_vars PROVE TypeOK'
  OBVIOUS
<1> USE MediaAssumption, FlashAssumption
    DEF TypeOK, MediaTypeOK, Steps, Results, Content, Store, Goto, Return, FailIo,
        WipeSteps, RewipeSteps, CommitSteps, BodySteps
<1>1. ASSUME Flash PROVE TypeOK'
  <2>1. CASE Guard \/ StatSource \/ UnmountAll \/ OpenForWrite \/ DeviceSize
    BY <1>1, <2>1 DEF Flash, Before, Guard, StatSource, UnmountAll, OpenForWrite, DeviceSize
  <2>2. CASE WipeFront \/ WipeBack \/ RewipeFront \/ RewipeBack \/ WriteHead
    BY <1>1, <2>2 DEF Flash, WipeFront, WipeBack, RewipeFront, RewipeBack, WriteHead,
       Write, WritePart
  <2>3. CASE WipeSync \/ Poll \/ ReadWarn \/ ReadError \/ ReadEnd \/ BodySync
             \/ HeadSync \/ HeadRead \/ RewipeSync
    BY <1>1, <2>3 DEF Flash, WipeSync, Poll, ReadWarn, ReadError, ReadEnd, BodySync,
       HeadSync, HeadRead, RewipeSync
  <2>4. CASE ReadChunk
    BY <1>1, <2>4 DEF Flash, ReadChunk, Write, WritePart, Smaller
  <2>5. CASE VerifyPoll
    BY <1>1, <2>5 DEF Flash, VerifyPoll
  <2>6. CASE VerifyRead
    <3>1. same' \in BOOLEAN
      BY <2>6, Zenon DEF VerifyRead
    <3>2. checked' \in Int
      BY <2>6 DEF VerifyRead, Smaller
    <3>3. QED
      BY <1>1, <2>6, <3>1, <3>2 DEF Flash, VerifyRead
  <2>7. QED
    BY <1>1, <2>1, <2>2, <2>3, <2>4, <2>5, <2>6 DEF Flash
<1>2. CASE Program
  BY <1>2 DEF Program, Destage, Programmed, progVars
<1>3. CASE Cancel
  BY <1>3 DEF Cancel, progVars
<1>4. CASE Kill \/ PowerCut
  BY <1>4 DEF Kill, PowerCut, LosePending
<1>5. CASE UNCHANGED vars
  BY <1>5 DEF vars, progVars
<1>6. QED
  BY <1>1, <1>2, <1>3, <1>4, <1>5 DEF Next

THEOREM TypeCorrect == Spec => []TypeOK
  BY TypeInit, TypeNext, PTL DEF Spec
-----------------------------------------------------------------------------
Early == {"guard", "stat", "unmount", "open", "size", "wipeHead"}
Body  == {"poll", "read", "sync"}
Check == {"verifyPoll", "verifyRead"}

(* The block is zero, or will be once what is pending lands.                *)
Zeroing(b) == vol[b] = "zero" \/ (vol[b] = "clean" /\ media[b] = "zero")
(* The block holds the image, or will.                                      *)
Filling(b) == vol[b] = "img" \/ (vol[b] = "clean" /\ media[b] = "img")

IResult == result = "none" <=> pc # "done"

IEarly == pc \in Early => Untouched

(* On a sound card the wipe is on its way while wipeSignatures runs, and    *)
(* has left no table once it returned.                                      *)
IWipe ==
  Reliable =>
    /\ pc \in {"wipeTail", "wipeSync"} => \A b \in WipeHeadBlocks : Zeroing(b)
    /\ pc = "wipeSync" => \A b \in WipeTailBlocks : Zeroing(b)
    /\ pc \in WipeSteps => \A b \in Block : vol[b] # "img" /\ media[b] # "img"
    /\ pc \in Body \cup Check \cup {"head"} => Inert
    /\ pc \in CommitSteps => \A b \in WipeBlocks : media[b] # "old"
    /\ (\E b \in Block : media[b] = "img" \/ vol[b] = "img")
         => \A b \in WipeBlocks : media[b] # "old"

(* A byte of the new head is pending only behind a whole body.              *)
IHead ==
  (\E h \in Head : vol[h] = "img") =>
    /\ pc \in {"headSync", "done"}
    /\ \A b \in Block \ Head : vol[b] = "clean"
    /\ verify \/ Reliable => BodyWhole

(* On a sound card what was handed to write() lands.                        *)
IBody ==
  /\ pc \in Body /\ Reliable => \A b \in BodyOf(written) : Filling(b)
  /\ pc \in Check \cup CommitSteps \cup {"sync"} => written = imageLen
  /\ pc \in Early \cup WipeSteps \cup Body => checked = 0
  /\ pc \in Early \cup WipeSteps => written = 0

(* During the read-back nothing is pending, so what compared equal stays.   *)
ICheck ==
  pc \in Check =>
    /\ Clean
    /\ Reliable => BodyWhole
    /\ same => \A b \in BodyOf(written) : b < DeferHead + checked => media[b] = "img"

ICommit ==
  pc \in CommitSteps =>
    /\ \A b \in Block \ Head : vol[b] = "clean"
    /\ pc # "headSync" => Clean
    /\ verify \/ Reliable => BodyWhole

IInv ==
  /\ TypeOK /\ IResult /\ IEarly /\ IWipe /\ IHead /\ IBody /\ ICheck /\ ICommit
  /\ SuccessIsOnMedia
  /\ EarlyStopIsClean

-----------------------------------------------------------------------------
LEMMA IInit == Init => IInv
<1> SUFFICES ASSUME Init PROVE IInv
  OBVIOUS
<1>1. TypeOK
  BY TypeInit
<1>2. Untouched /\ Clean
  BY DEF Init, MediaInit, Untouched, Clean
<1>3. QED
  BY <1>1, <1>2 DEF Init, MediaInit, IInv, IResult, IEarly, IWipe, IHead, IBody, ICheck, ICommit,
     SuccessIsOnMedia, EarlyStopIsClean, Early, Body, Check, WipeSteps, CommitSteps, Head

LEMMA StepBefore ==
  ASSUME IInv, Guard \/ StatSource \/ UnmountAll \/ OpenForWrite \/ DeviceSize,
         UNCHANGED <<verify, imageLen, cancelled>>
  PROVE  IInv'
<1>0. TypeOK'
  BY TypeNext DEF IInv, Next, Flash
<1>1. /\ pc \in Early
      /\ media' = media /\ vol' = vol /\ written' = written /\ checked' = checked
      /\ \/ pc' \in Early /\ result' = result
         \/ pc' = "done" /\ result' \in {"Refused", "InvalidImage"}
  BY DEF Early, Before, Guard, StatSource, UnmountAll, OpenForWrite, DeviceSize, Goto, Return
<1>2. Untouched /\ Untouched'
  BY <1>1 DEF IInv, IEarly, Untouched
<1> USE DEF Early, Body, Check, WipeSteps, CommitSteps
<1>3. IResult' /\ IEarly'
  BY <1>1, <1>2 DEF IInv, IResult, IEarly
<1>4. IWipe' /\ IHead'
  BY <1>1, <1>2 DEF IInv, IWipe, IHead, Untouched, Head
<1>5. IBody' /\ ICheck' /\ ICommit'
  BY <1>1 DEF IInv, IBody, ICheck, ICommit
<1>6. SuccessIsOnMedia' /\ EarlyStopIsClean'
  BY <1>1, <1>2 DEF IInv, IResult, SuccessIsOnMedia, EarlyStopIsClean
<1>7. QED
  BY <1>0, <1>3, <1>4, <1>5, <1>6 DEF IInv

LEMMA StepWipe ==
  ASSUME IInv, WipeFront \/ WipeBack \/ WipeSync,
         UNCHANGED <<verify, imageLen, cancelled>>
  PROVE  IInv'
<1>0. TypeOK'
  BY TypeNext DEF IInv, Next, Flash
<1>1. /\ pc \in WipeSteps
      /\ written' = written /\ checked' = checked /\ imageLen' = imageLen /\ verify' = verify
      /\ \/ pc' \in {"wipeTail", "wipeSync", "poll"} /\ result' = result
         \/ pc' = "done" /\ result' = "DeviceError"
  BY DEF WipeSteps, WipeFront, WipeBack, WipeSync, Goto, Return, FailIo
<1>2. \A h \in Head : vol'[h] # "img"
  BY <1>1 DEF IInv, IHead, Head, Block, TypeOK, MediaTypeOK, WipeSteps, WipeFront, WipeBack, WipeSync, Write, WritePart
<1> USE DEF Early, Body, Check, WipeSteps, CommitSteps
<1>3. IResult' /\ IEarly'
  BY <1>1 DEF IInv, IResult, IEarly
<1>4. IWipe'
  <2>1. CASE WipeFront
    BY <2>1, FlashAssumption DEF IInv, IWipe, IEarly, Untouched, WipeFront, Write, WritePart, Goto, Return, FailIo, Zeroing, TypeOK, MediaTypeOK, WipeHeadBlocks
  <2>2. CASE WipeBack
    BY <2>2 DEF IInv, IWipe, WipeBack, Write, WritePart, Goto, Return, FailIo, Zeroing, TypeOK, MediaTypeOK, WipeHeadBlocks, WipeTailBlocks
  <2>3. CASE WipeSync
    <3>1. CASE pc' = "done"
      BY <2>3, <3>1 DEF IInv, IWipe, WipeSync
    <3>2. CASE pc' # "done"
      <4>1. Clean /\ pc' = "poll" /\ media' = media /\ vol' = vol
        BY <2>3, <3>2 DEF WipeSync, Goto, Return, FailIo
      <4>2. Reliable => \A b \in WipeBlocks : media[b] = "zero" /\ vol[b] = "clean"
        BY <2>3, <4>1 DEF IInv, IWipe, WipeSync, Zeroing, Clean, WipeBlocks, WipeHeadBlocks, WipeTailBlocks
      <4>3. Head \subseteq WipeBlocks
        BY FlashAssumption, MediaAssumption DEF Head, WipeBlocks, WipeHeadBlocks, Block
      <4>4. Reliable => Inert'
        BY <4>1, <4>2, <4>3 DEF Inert
      <4>5. QED
        BY <4>1, <4>2, <4>4 DEF IInv, IWipe
    <3>3. QED
      BY <3>1, <3>2
  <2>4. QED
    BY <2>1, <2>2, <2>3
<1>5. IHead'
  BY <1>1, <1>2 DEF IHead, Head
<1>6. IBody' /\ ICheck' /\ ICommit'
  BY <1>1 DEF IInv, IBody, ICheck, ICommit, BodyOf, Block, TypeOK
<1>7. SuccessIsOnMedia' /\ EarlyStopIsClean'
  BY <1>1 DEF IInv, IResult, SuccessIsOnMedia, EarlyStopIsClean
<1>8. QED
  BY <1>0, <1>3, <1>4, <1>5, <1>6, <1>7 DEF IInv

(* Steps of the streaming loop and its sync that touch neither the card nor *)
(* the counters.                                                            *)
LEMMA StepStream ==
  ASSUME IInv, Poll \/ ReadWarn \/ ReadError \/ ReadEnd \/ BodySync,
         UNCHANGED <<verify, imageLen, cancelled>>
  PROVE  IInv'
<1>0. TypeOK'
  BY TypeNext DEF IInv, Next, Flash
<1>1. /\ pc \in Body
      /\ written' = written /\ checked' = checked /\ imageLen' = imageLen /\ verify' = verify
      /\ media' = media /\ vol' = vol /\ same' = same
      /\ \/ pc' \in Body \/ (pc = "sync" /\ pc' \in {"verifyPoll", "head"})
         \/ pc' = "done" /\ result' \in {"DeviceError", "UserCancelled", "InvalidImage"}
      /\ pc' # "done" => result' = result
      /\ pc' = "sync" => written = imageLen
  BY DEF Body, Poll, ReadWarn, ReadError, ReadEnd, BodySync, Goto, Return, FailIo
<1>2. pc = "sync" /\ pc' # "done" =>
        /\ Clean
        /\ pc' = "verifyPoll" => verify
        /\ pc' = "head" /\ verify => BodyOf(written) = {}
  BY DEF Poll, ReadWarn, ReadError, ReadEnd, BodySync, Goto, Return, FailIo
<1> USE DEF Early, Body, Check, WipeSteps, CommitSteps
<1>3. pc = "sync" /\ Clean => (Reliable => BodyWhole)
  BY DEF IInv, IBody, Filling, Clean, BodyWhole, BodyOf
<1>4. IResult' /\ IEarly' /\ IHead'
  BY <1>1 DEF IInv, IResult, IEarly, IHead
<1>5. Inert' = Inert /\ Clean' = Clean /\ BodyWhole' = BodyWhole
  BY <1>1 DEF Inert, Clean, BodyWhole
<1>6. IWipe'
  BY <1>1, <1>5 DEF IInv, IWipe, Inert
<1>7. IBody'
  BY <1>1 DEF IInv, IBody, Filling
<1>8. ICheck'
  <2>1. SUFFICES ASSUME pc' = "verifyPoll" PROVE ICheck'
    BY <1>1 DEF ICheck
  <2>2. checked = 0
    BY <1>1 DEF IInv, IBody
  <2>3. \A b \in BodyOf(written) : ~(b < DeferHead + 0)
    BY FlashAssumption DEF BodyOf, Block
  <2>4. QED
    BY <1>1, <1>2, <1>3, <1>5, <2>1, <2>2, <2>3, FlashAssumption DEF ICheck
<1>9. ICommit'
  <2>1. SUFFICES ASSUME pc' = "head" PROVE ICommit'
    BY <1>1 DEF ICommit
  <2>2. pc = "sync" /\ Clean /\ written = imageLen
    BY <1>1, <1>2, <2>1 DEF IInv, IBody
  <2>3. verify \/ Reliable => BodyWhole
    BY <1>2, <1>3, <2>1, <2>2 DEF BodyWhole
  <2>4. QED
    BY <1>1, <1>5, <2>1, <2>2, <2>3 DEF ICommit, Clean
<1>10. SuccessIsOnMedia'
  BY <1>1 DEF IInv, IResult, SuccessIsOnMedia
<1>11. EarlyStopIsClean'
  BY <1>1, <1>5 DEF IInv, IResult, IWipe, EarlyStopIsClean
<1>12. QED
  BY <1>0, <1>4, <1>6, <1>7, <1>8, <1>9, <1>10, <1>11 DEF IInv

(* A chunk: what it adds to the body is the image's, and never a head block.*)
LEMMA StepChunk ==
  ASSUME IInv, ReadChunk, UNCHANGED <<verify, imageLen, cancelled>>
  PROVE  IInv'
<1>0. TypeOK'
  BY TypeNext DEF IInv, Next, Flash
<1>1. /\ pc = "read" /\ media' = media /\ checked' = checked
      /\ imageLen' = imageLen /\ verify' = verify
      /\ \/ pc' = "poll" /\ result' = result
         \/ pc' = "done" /\ vol' = vol /\ result' = "DiskFull"
         \/ pc' = "done" /\ result' = "DeviceError"
  BY DEF ReadChunk, Goto, Return, FailIo, Write, WritePart
<1>2. \A b \in Block : vol'[b] = vol[b] \/ (vol'[b] = "img" /\ b \notin Head)
  <2>1. \E bs \in SUBSET (Block \ Head) : vol' = vol \/ Write(bs, "img")
    BY FlashAssumption DEF ReadChunk, WritePart, BodyOf, Head, Block
  <2>2. QED
    BY <2>1 DEF Write
<1>3. pc' = "poll" => \A b \in BodyOf(written') :
        (b \in BodyOf(written) /\ vol'[b] = vol[b]) \/ vol'[b] = "img"
  <2>1. SUFFICES ASSUME pc' = "poll", NEW b \in BodyOf(written')
                 PROVE  (b \in BodyOf(written) /\ vol'[b] = vol[b]) \/ vol'[b] = "img"
    OBVIOUS
  <2>2. PICK n \in 1 .. Smaller(Chunk, imageLen - written) :
          /\ Write(BodyOf(written + n) \ BodyOf(written), "img")
          /\ written' = written + n
    BY <2>1 DEF ReadChunk, Return, FailIo
  <2>3. b \in Block /\ b \in BodyOf(written + n)
    BY <2>1, <2>2 DEF BodyOf
  <2>4. QED
    BY <2>2, <2>3 DEF Write
<1> USE DEF Early, Body, Check, WipeSteps, CommitSteps
<1>4. IResult' /\ IEarly' /\ ICheck' /\ ICommit' /\ SuccessIsOnMedia'
  BY <1>1 DEF IInv, IResult, IEarly, ICheck, ICommit, SuccessIsOnMedia
<1>5. \A h \in Head : vol'[h] # "img"
  BY <1>1, <1>2 DEF IInv, IHead, Head
<1>6. IHead'
  BY <1>5 DEF IHead
<1>7. IBody'
  BY <1>1, <1>3 DEF IInv, IBody, Filling
<1>8. Inert => Inert'
  BY <1>1, <1>2, FlashAssumption, MediaAssumption DEF IInv, IHead, Inert, Head, TypeOK, MediaTypeOK, ReadChunk, Write, WritePart, BodyOf
<1>9. IWipe'
  BY <1>1, <1>8 DEF IInv, IWipe, Inert
<1>10. EarlyStopIsClean'
  <2>1. result' \in {"none", "DiskFull", "DeviceError"}
    BY <1>1 DEF IInv, IResult
  <2>2. Reliable => Inert'
    BY <1>1, <1>8 DEF IInv, IWipe
  <2>3. QED
    BY <2>1, <2>2 DEF EarlyStopIsClean
<1>11. QED
  BY <1>0, <1>4, <1>6, <1>7, <1>9, <1>10 DEF IInv

(* The read-back changes nothing on the card.                               *)
LEMMA StepCheck ==
  ASSUME IInv, VerifyPoll \/ VerifyRead, UNCHANGED <<verify, imageLen, cancelled>>
  PROVE  IInv'
<1>0. TypeOK'
  BY TypeNext DEF IInv, Next, Flash
<1>1. /\ pc \in Check /\ media' = media /\ vol' = vol /\ written' = written
      /\ imageLen' = imageLen /\ verify' = verify
      /\ \/ pc' \in {"verifyPoll", "verifyRead", "head"} /\ result' = result
         \/ pc' = "done" /\ result' \in {"UserCancelled", "HashMismatch", "DeviceError"}
  BY DEF Check, VerifyPoll, VerifyRead, Goto, Return, FailIo
<1> USE DEF Early, Body, Check, WipeSteps, CommitSteps
<1>2. Inert' = Inert /\ Clean' = Clean /\ BodyWhole' = BodyWhole
  BY <1>1 DEF Inert, Clean, BodyWhole
<1>3. IResult' /\ IEarly' /\ IHead' /\ SuccessIsOnMedia'
  BY <1>1 DEF IInv, IResult, IEarly, IHead, ICheck, Clean, Head, SuccessIsOnMedia
<1>4. IWipe' /\ EarlyStopIsClean'
  BY <1>1, <1>2 DEF IInv, IWipe, IResult, Inert, EarlyStopIsClean
<1>5. IBody'
  BY <1>1 DEF IInv, IBody
<1>6. ICheck'
  <2>1. CASE VerifyPoll
    BY <1>1, <1>2, <2>1 DEF IInv, ICheck, VerifyPoll
  <2>2. CASE VerifyRead
    BY <1>1, <1>2, <2>2, FlashAssumption
    DEF IInv, ICheck, VerifyRead, TypeOK, BodyOf, Block, Smaller, Goto, Return, FailIo
  <2>3. QED
    BY <2>1, <2>2
<1>7. ICommit'
  <2>1. SUFFICES ASSUME pc' = "head" PROVE ICommit'
    BY <1>1 DEF ICommit
  <2>2. VerifyPoll /\ same /\ ~(DeferHead + checked < written)
    BY <2>1 DEF VerifyPoll, VerifyRead, Goto, Return, FailIo
  <2>3. BodyWhole
    BY <2>2, FlashAssumption, <1>1 DEF IInv, ICheck, IBody, BodyWhole, BodyOf, Block, TypeOK
  <2>4. QED
    BY <1>1, <1>2, <2>1, <2>3 DEF IInv, ICheck, ICommit, Clean
<1>8. QED
  BY <1>0, <1>3, <1>4, <1>5, <1>6, <1>7 DEF IInv

LEMMA StepHead ==
  ASSUME IInv, WriteHead, UNCHANGED <<verify, imageLen, cancelled>>
  PROVE  IInv'
<1>0. TypeOK'
  BY TypeNext DEF IInv, Next, Flash
<1>1. /\ pc = "head" /\ media' = media /\ written' = written /\ checked' = checked
      /\ imageLen' = imageLen /\ verify' = verify
      /\ \/ pc' = "headSync" /\ result' = result
         \/ pc' = "done" /\ result' = "DeviceError"
  BY DEF WriteHead, Goto, Return, FailIo, Write, WritePart
<1> USE DEF Early, Body, Check, WipeSteps, CommitSteps
<1>2. \A b \in Block : vol'[b] = vol[b] \/ (vol'[b] = "img" /\ b \in Head)
  BY DEF WriteHead, Write, WritePart, HeadOf, Head
<1>3. \A b \in Block \ Head : vol'[b] = "clean"
  BY <1>1, <1>2 DEF IInv, ICommit
<1>4. (verify \/ Reliable => BodyWhole) /\ (BodyWhole' = BodyWhole)
  BY <1>1 DEF IInv, ICommit, BodyWhole
<1>5. IResult' /\ IEarly' /\ ICheck' /\ SuccessIsOnMedia' /\ EarlyStopIsClean'
  BY <1>1 DEF IInv, IResult, IEarly, ICheck, SuccessIsOnMedia, EarlyStopIsClean
<1>6. IHead' /\ ICommit'
  BY <1>1, <1>3, <1>4 DEF IHead, ICommit
<1>7. IBody'
  BY <1>1 DEF IInv, IBody
<1>8. IWipe'
  BY <1>1 DEF IInv, IWipe, Inert
<1>9. QED
  BY <1>0, <1>5, <1>6, <1>7, <1>8 DEF IInv

LEMMA StepHeadSync ==
  ASSUME IInv, HeadSync \/ HeadRead, UNCHANGED <<verify, imageLen, cancelled>>
  PROVE  IInv'
<1>0. TypeOK'
  BY TypeNext DEF IInv, Next, Flash
<1>1. /\ pc \in {"headSync", "headRead"} /\ media' = media /\ vol' = vol /\ written' = written
      /\ imageLen' = imageLen /\ verify' = verify
      /\ \/ pc' \in {"headRead", "rewipeHead"} /\ result' = result
         \/ pc' = "done" /\ result' \in {"ok", "DeviceError"}
      /\ result' = "ok" => pc = "headRead" /\ \A b \in HeadOf(written) : media[b] = "img"
      /\ pc' = "headRead" => Clean
      /\ pc' = "rewipeHead" => pc = "headRead"
  BY DEF IInv, IResult, HeadSync, HeadRead, Goto, Return, FailIo
<1> USE DEF Early, Body, Check, WipeSteps, CommitSteps
<1>2. Clean' = Clean /\ BodyWhole' = BodyWhole
  BY <1>1 DEF Clean, BodyWhole
<1>3. IResult' /\ IEarly' /\ ICheck' /\ EarlyStopIsClean'
  BY <1>1 DEF IInv, IResult, IEarly, ICheck, EarlyStopIsClean
<1>4. IWipe'
  BY <1>1 DEF IInv, IWipe
<1>5. IBody'
  BY <1>1 DEF IInv, IBody
<1>6. IHead' /\ ICommit'
  BY <1>1, <1>2 DEF IInv, IHead, ICommit, Clean, Head
<1>7. SuccessIsOnMedia'
  BY <1>1, <1>2 DEF IInv, ICommit, IBody, IWipe, SuccessIsOnMedia
<1>8. QED
  BY <1>0, <1>3, <1>4, <1>5, <1>6, <1>7 DEF IInv

LEMMA StepRewipe ==
  ASSUME IInv, RewipeFront \/ RewipeBack \/ RewipeSync,
         UNCHANGED <<verify, imageLen, cancelled>>
  PROVE  IInv'
<1>0. TypeOK'
  BY TypeNext DEF IInv, Next, Flash
<1>1. /\ pc \in RewipeSteps /\ media' = media
      /\ \/ pc' \in RewipeSteps /\ result' = result
         \/ pc' = "done" /\ result' = "HashMismatch"
      /\ \A b \in Block : vol'[b] \in {vol[b], "zero"}
  BY DEF IInv, TypeOK, MediaTypeOK, RewipeSteps, RewipeFront, RewipeBack, RewipeSync,
     Goto, Return, Write, WritePart
<1> USE DEF Early, Body, Check, WipeSteps, CommitSteps, RewipeSteps
<1>2. IResult' /\ IEarly' /\ IBody' /\ ICheck' /\ ICommit' /\ SuccessIsOnMedia' /\ EarlyStopIsClean'
  BY <1>1 DEF IInv, IResult, IEarly, IBody, ICheck, ICommit, SuccessIsOnMedia, EarlyStopIsClean
<1>3. IWipe'
  BY <1>1 DEF IInv, IWipe
<1>4. IHead'
  BY <1>1 DEF IInv, IHead, Head
<1>5. QED
  BY <1>0, <1>2, <1>3, <1>4 DEF IInv

(* A pending block lands; the program does not notice.                      *)
LEMMA StepProgram ==
  ASSUME IInv, Program
  PROVE  IInv'
<1>0. TypeOK'
  BY TypeNext DEF IInv, Next
<1>1. PICK d \in Block : Destage(d)
  BY DEF Program
<1>2. /\ pc' = pc /\ written' = written /\ checked' = checked /\ same' = same
      /\ result' = result /\ imageLen' = imageLen /\ verify' = verify
  BY DEF Program, progVars
<1>3. /\ vol[d] # "clean" /\ vol'[d] = "clean"
      /\ \A b \in Block : b # d => media'[b] = media[b] /\ vol'[b] = vol[b]
      /\ Reliable => media'[d] = vol[d] /\ media'[d] # "old"
  BY <1>1 DEF Destage, Programmed, Reliable, IInv, TypeOK, MediaTypeOK, Content, Store
<1> USE DEF Early, Body, Check, WipeSteps, CommitSteps
<1>4. ~Clean /\ ~Untouched
  BY <1>1, <1>3 DEF Clean, Untouched
<1>5. IResult' /\ IEarly' /\ ICheck'
  BY <1>2, <1>4 DEF IInv, IResult, IEarly, ICheck
<1>6. (BodyWhole /\ \A b \in Block \ Head : vol[b] = "clean") => BodyWhole'
  BY <1>2, <1>3, FlashAssumption DEF BodyWhole, BodyOf, Head, Block
<1>7. IHead' /\ ICommit'
  BY <1>1, <1>2, <1>3, <1>4, <1>6 DEF IInv, IHead, ICommit, Clean, Head
<1>8. IBody'
  BY <1>1, <1>2, <1>3 DEF IInv, IBody, Filling, BodyOf
<1>9. Reliable /\ Inert => Inert'
  BY <1>1, <1>3 DEF Inert, Head, WipeBlocks, WipeHeadBlocks, WipeTailBlocks
<1>10. IWipe'
  BY <1>1, <1>2, <1>3, <1>9 DEF IInv, IWipe, Zeroing, WipeBlocks, WipeHeadBlocks, WipeTailBlocks
<1>11. SuccessIsOnMedia' /\ EarlyStopIsClean'
  BY <1>2, <1>4, <1>9 DEF IInv, SuccessIsOnMedia, EarlyStopIsClean
<1>12. QED
  BY <1>0, <1>5, <1>7, <1>8, <1>10, <1>11 DEF IInv

LEMMA StepEnd ==
  ASSUME IInv, Kill \/ PowerCut
  PROVE  IInv'
<1>0. TypeOK'
  BY TypeNext DEF IInv, Next
<1>1. /\ media' = media /\ written' = written /\ imageLen' = imageLen /\ verify' = verify
      /\ pc' = "done"
      /\ result' = IF pc = "done" THEN result ELSE "killed"
      /\ \A b \in Block : vol'[b] \in {vol[b], "clean"}
  BY DEF IInv, IResult, Kill, PowerCut, Return, LosePending
<1> USE DEF Early, Body, Check, WipeSteps, CommitSteps
<1>2. BodyWhole' = BodyWhole
  BY <1>1 DEF BodyWhole
<1>3. IResult' /\ IEarly' /\ IBody' /\ ICheck' /\ ICommit'
  BY <1>1 DEF IInv, IResult, IEarly, IBody, ICheck, ICommit
<1>4. IWipe'
  BY <1>1 DEF IInv, IWipe
<1>5. IHead'
  BY <1>1, <1>2 DEF IInv, IHead, Head
<1>6. SuccessIsOnMedia'
  BY <1>1, <1>2 DEF IInv, SuccessIsOnMedia, IResult, Clean
<1>7. EarlyStopIsClean'
  BY <1>1 DEF IInv, EarlyStopIsClean, Inert, Untouched, Head, IResult
<1>8. QED
  BY <1>0, <1>3, <1>4, <1>5, <1>6, <1>7 DEF IInv

LEMMA StepIdle ==
  ASSUME IInv, Cancel \/ UNCHANGED vars
  PROVE  IInv'
<1>0. TypeOK'
  BY TypeNext DEF IInv, Next
<1>1. /\ media' = media /\ vol' = vol /\ pc' = pc /\ written' = written /\ checked' = checked
      /\ same' = same /\ result' = result /\ imageLen' = imageLen /\ verify' = verify
  BY DEF Cancel, vars, progVars
<1>2. QED
  BY <1>0, <1>1 DEF IInv, IResult, IEarly, IWipe, IHead, IBody, ICheck, ICommit, SuccessIsOnMedia,
     EarlyStopIsClean, Untouched, Inert, Clean, BodyWhole, Zeroing, Filling

LEMMA INext == IInv /\ [Next]_vars => IInv'
<1> SUFFICES ASSUME IInv, [Next]_vars PROVE IInv'
  OBVIOUS
<1>1. CASE Flash
  BY <1>1, StepBefore, StepWipe, StepStream, StepChunk, StepCheck, StepHead, StepHeadSync, StepRewipe
  DEF Flash
<1>2. CASE Program
  BY <1>2, StepProgram
<1>3. CASE Kill \/ PowerCut
  BY <1>3, StepEnd
<1>4. CASE Cancel \/ UNCHANGED vars
  BY <1>4, StepIdle
<1>5. QED
  BY <1>1, <1>2, <1>3, <1>4 DEF Next

(* The inductive invariant holds in every reachable state: at each step of  *)
(* flash, whatever the media and the pending writes hold is accounted for.  *)
THEOREM Invariant == Spec => []IInv
  BY IInit, INext, PTL DEF Spec

-----------------------------------------------------------------------------
(* Success reported by flash means the image is durable on the card.        *)
THEOREM SuccessIsDurable == Spec => []SuccessIsOnMedia
<1>1. IInv => SuccessIsOnMedia
  BY DEF IInv
<1>2. QED
  BY <1>1, Invariant, PTL

(* A refused flash has not touched the card; one that was cancelled or ran  *)
(* out of space leaves a sound card without a partition table; one that     *)
(* could not decode its image leaves it so, or untouched.                   *)
THEOREM EarlyStopLeavesNoTable == Spec => []EarlyStopIsClean
<1>1. IInv => EarlyStopIsClean
  BY DEF IInv
<1>2. QED
  BY <1>1, Invariant, PTL

(* On a sound card no new block is durable while an old partition table is. *)
THEOREM OldTableFirst == Spec => []OldTableGoneFirst
<1>1. IInv => OldTableGoneFirst
  BY DEF IInv, IWipe, OldTableGoneFirst
<1>2. QED
  BY <1>1, Invariant, PTL

(* A step that makes a block of the new head durable starts from a card     *)
(* that holds the whole body: only Destage changes the media, and what it   *)
(* lands is covered by IHead.                                               *)
LEMMA TableNext == IInv /\ [Next]_vars => [TableStep]_vars
<1> SUFFICES ASSUME IInv, [Next]_vars, NEW h \in Head, verify \/ Reliable,
                    media[h] # "img", media'[h] = "img"
             PROVE  BodyWhole
  BY DEF TableStep
<1>1. media' # media
  OBVIOUS
<1>2. Program
  BY <1>1 DEF Next, Flash, Cancel, Kill, PowerCut, LosePending, vars, Before, Guard, StatSource,
     UnmountAll, OpenForWrite, DeviceSize, WipeFront, WipeBack, WipeSync, Poll, ReadChunk,
     ReadWarn, ReadError, ReadEnd, BodySync, VerifyPoll, VerifyRead, WriteHead, HeadSync,
     HeadRead, RewipeFront, RewipeBack, RewipeSync, Write, WritePart
<1>3. PICK d \in Block : Destage(d)
  BY <1>2 DEF Program
<1>4. d = h /\ vol[h] = "img"
  BY <1>3 DEF IInv, TypeOK, MediaTypeOK, Destage, Programmed, Head
<1>5. QED
  BY <1>4 DEF IInv, IHead

(* The new partition table only ever appears over a complete body.          *)
THEOREM TableComesLast == Spec => TableLast
  BY Invariant, TableNext, PTL DEF Spec, TableLast, TableStep

-----------------------------------------------------------------------------
(* On a sound card a pending zero finds no image to overwrite, the head     *)
(* reads back as it was written, no body block is pending once a block of   *)
(* the head is there, and nothing lies beyond the image.                    *)
ISound ==
  Reliable =>
    /\ pc \notin RewipeSteps
    /\ (\E b \in Block : vol[b] = "zero") =>
         /\ pc \in WipeSteps \cup {"done"}
         /\ \A b \in Block : media[b] # "img" /\ vol[b] # "img"
    /\ pc = "headSync" => \A b \in HeadOf(written) : Filling(b)
    /\ pc = "headRead" => \A b \in HeadOf(written) : media[b] = "img"
    /\ (\E h \in Head : media[h] = "img") => \A b \in Block \ Head : vol[b] = "clean"
    /\ \A b \in Block : media[b] = "img" \/ vol[b] = "img" => b < imageLen

LEMMA SoundInit == Init => ISound
  BY DEF Init, MediaInit, ISound, RewipeSteps, Head

(* The steps of flash that leave the card and what is pending alone.        *)
LEMMA SoundQuiet ==
  ASSUME IInv, ISound, Reliable, UNCHANGED <<media, vol, written, imageLen>>, pc # "done",
         pc' \in WipeSteps => pc \in Early \cup WipeSteps,
         pc \in WipeSteps /\ pc' \notin WipeSteps \cup {"done"} => Clean,
         pc' \notin RewipeSteps,
         pc' = "headSync" => pc = "headSync",
         pc' = "headRead" => (pc = "headSync" /\ Clean) \/ pc = "headRead"
  PROVE  ISound'
<1>1. pc \in Early => Clean
  BY DEF IInv, IEarly, Untouched, Clean
<1>2. (\E b \in Block : vol[b] = "zero") => pc' \in WipeSteps \cup {"done"}
  BY <1>1 DEF ISound, Clean, WipeSteps, CommitSteps, Early
<1>3. pc' = "headRead" => \A b \in HeadOf(written) : media[b] = "img"
  BY DEF ISound, Clean, Filling, HeadOf
<1>4. QED
  BY <1>2, <1>3 DEF ISound, Filling

LEMMA SoundFlash ==
  ASSUME IInv, ISound, Reliable, Flash
  PROVE  ISound'
<1>0. imageLen' = imageLen
  BY DEF Flash
<1> USE DEF Goto, Return, FailIo
<1>1. CASE Guard \/ StatSource \/ UnmountAll \/ OpenForWrite \/ DeviceSize
  BY <1>0, <1>1, SoundQuiet DEF Guard, StatSource, UnmountAll, OpenForWrite, DeviceSize, Before,
     Early, WipeSteps, RewipeSteps
<1>2. CASE WipeFront \/ WipeBack
  <2>1. /\ \A b \in Block : media[b] # "img" /\ vol[b] # "img"
        /\ media' = media /\ \A b \in Block : vol'[b] \in {vol[b], "zero"}
        /\ pc' \in WipeSteps \cup {"done"}
    BY <1>2 DEF IInv, IWipe, TypeOK, MediaTypeOK, WipeSteps, WipeFront, WipeBack, Write, WritePart
  <2>2. QED
    BY <2>1 DEF ISound, WipeSteps, RewipeSteps, CommitSteps, Head
<1>3. CASE WipeSync
  BY <1>0, <1>3, SoundQuiet DEF WipeSync, WipeSteps, RewipeSteps, Early
<1>4. CASE Poll \/ ReadWarn \/ ReadError \/ ReadEnd \/ BodySync \/ VerifyPoll \/ VerifyRead
  BY <1>0, <1>4, SoundQuiet DEF Poll, ReadWarn, ReadError, ReadEnd, BodySync, VerifyPoll, VerifyRead,
     WipeSteps, RewipeSteps, Early
<1>5. CASE ReadChunk
  <2>1. pc = "read" /\ media' = media /\ imageLen' = imageLen /\ pc' \in {"poll", "done"}
    BY <1>0, <1>5 DEF ReadChunk, Write, WritePart
  <2>a. PICK n \in 1 .. Smaller(Chunk, imageLen - written) :
          \E bs \in SUBSET BodyOf(written + n) : vol' = vol \/ Write(bs, "img")
    BY <1>5 DEF ReadChunk, WritePart
  <2>2. \A b \in Block : vol'[b] = vol[b] \/ (vol'[b] = "img" /\ b \in BodyOf(written + n))
    BY <2>a DEF Write
  <2>3. \A b \in BodyOf(written + n) : b < imageLen
    BY <2>2, FlashAssumption DEF BodyOf, Block, Smaller, IInv, TypeOK
  <2>4. \A h \in Head : media[h] = "zero"
    BY <2>1 DEF IInv, IWipe, Inert, Body
  <2>5. ~ \E b \in Block : vol[b] = "zero"
    BY <2>1 DEF ISound, WipeSteps
  <2>6. QED
    BY <2>1, <2>2, <2>3, <2>4, <2>5 DEF ISound, RewipeSteps
<1>6. CASE WriteHead
  <2>1. pc = "head" /\ media' = media /\ imageLen' = imageLen /\ written' = written
        /\ pc' \in {"headSync", "done"}
    BY <1>0, <1>6 DEF WriteHead, Write, WritePart
  <2>2. /\ \A b \in Block : vol'[b] = vol[b] \/ (vol'[b] = "img" /\ b \in HeadOf(written))
        /\ pc' = "headSync" => \A b \in HeadOf(written) : vol'[b] = "img"
    BY <1>0, <1>6 DEF WriteHead, Write, WritePart, HeadOf
  <2>3. \A b \in HeadOf(written) : b < imageLen
    BY FlashAssumption DEF HeadOf, Block, IInv, TypeOK
  <2>4. \A h \in Head : media[h] = "zero"
    BY <2>1 DEF IInv, IWipe, Inert
  <2>5. ~ \E b \in Block : vol[b] = "zero"
    BY <2>1 DEF ISound, WipeSteps
  <2>6. QED
    BY <2>1, <2>2, <2>3, <2>4, <2>5 DEF ISound, RewipeSteps, Filling
<1>7. CASE HeadSync \/ HeadRead
  BY <1>0, <1>7, SoundQuiet DEF HeadSync, HeadRead, ISound, WipeSteps, RewipeSteps, Early
<1>8. CASE RewipeFront \/ RewipeBack \/ RewipeSync
  BY <1>8 DEF ISound, RewipeSteps, RewipeFront, RewipeBack, RewipeSync
<1>9. QED
  BY <1>1, <1>2, <1>3, <1>4, <1>5, <1>6, <1>7, <1>8 DEF Flash

LEMMA SoundNext == IInv /\ ISound /\ [Next]_vars => ISound'
<1> SUFFICES ASSUME IInv, ISound, [Next]_vars, Reliable PROVE ISound'
  BY DEF ISound
<1>1. CASE Flash
  BY <1>1, SoundFlash
<1>2. CASE Program
  <2>1. PICK d \in Block : Destage(d)
    BY <1>2 DEF Program
  <2>2. UNCHANGED <<pc, written, imageLen>>
    BY <1>2 DEF Program, progVars
  <2>3. /\ vol[d] # "clean" /\ vol'[d] = "clean" /\ media'[d] = vol[d]
        /\ \A b \in Block : b # d => media'[b] = media[b] /\ vol'[b] = vol[b]
    BY <2>1 DEF Destage, Programmed, Reliable, IInv, TypeOK, MediaTypeOK
  <2>4. pc # "headRead"
    BY <2>3 DEF IInv, ICommit, CommitSteps, Clean
  <2>5. vol[d] = "img" /\ d \in Head => \A b \in Block \ Head : vol[b] = "clean"
    BY DEF IInv, IHead
  <2>6. (\E h \in Head : media'[h] = "img") => \A b \in Block \ Head : vol'[b] = "clean"
    BY <2>3, <2>5 DEF ISound, Head
  <2>7. pc = "headSync" => \A b \in HeadOf(written) : Filling(b)'
    BY <2>3 DEF ISound, Filling, HeadOf
  <2>8. QED
    BY <2>2, <2>3, <2>4, <2>6, <2>7 DEF ISound
<1>3. CASE Kill \/ PowerCut
  <2>1. /\ UNCHANGED <<media, written, imageLen>> /\ pc' = "done"
        /\ \A b \in Block : vol'[b] \in {vol[b], "clean"}
    BY <1>3 DEF IInv, Kill, PowerCut, Return, LosePending
  <2>2. QED
    BY <2>1 DEF ISound, RewipeSteps
<1>4. CASE Cancel \/ UNCHANGED vars
  BY <1>4 DEF Cancel, vars, progVars, ISound, Filling
<1>5. QED
  BY <1>1, <1>2, <1>3, <1>4 DEF Next

-----------------------------------------------------------------------------
(* What a user sees of the card, as the mapping of Card defines it.         *)
Told(r) == IF r = "none" THEN "none"
           ELSE IF r = "ok" THEN "ok"
           ELSE IF r \in {"UserCancelled", "DiskFull", "InvalidImage", "Refused"}
                THEN "stopped" ELSE "failed"

TableNow  == IF media[0] = "old" THEN "old" ELSE IF media[0] = "img" THEN "new" ELSE "none"
WholeNow  == \A b \in BodyOf(imageLen) : media[b] = "img"
FilledNow == \E b \in Block : media[b] = "img"

(* The abstract steps spelled out over those four values.                   *)
CardStep ==
  \/ /\ TableNow = "old" /\ ~FilledNow /\ TableNow' = "none"
     /\ WholeNow' = WholeNow /\ FilledNow' = FilledNow /\ Told(result') = Told(result)
  \/ /\ TableNow = "none" /\ FilledNow' /\ WholeNow' \in {WholeNow, TRUE}
     /\ TableNow' = TableNow /\ Told(result') = Told(result)
  \/ /\ TableNow = "none" /\ WholeNow /\ TableNow' = "new" /\ FilledNow'
     /\ WholeNow' = WholeNow /\ Told(result') = Told(result)
  \/ /\ Told(result) = "none"
     /\ \/ (TableNow = "new" \/ (TableNow = "none" /\ WholeNow /\ ~FilledNow)) /\ Told(result') = "ok"
        \/ TableNow # "new" /\ Told(result') = "stopped"
        \/ Told(result') = "failed"
     /\ TableNow' = TableNow /\ WholeNow' = WholeNow /\ FilledNow' = FilledNow
  \/ /\ TableNow' = TableNow /\ WholeNow' = WholeNow
     /\ FilledNow' = FilledNow /\ Told(result') = Told(result)

LEMMA FirstBlock == 0 \in Block /\ 0 \in Head /\ 0 \in WipeBlocks
  BY MediaAssumption, FlashAssumption DEF Block, Head, WipeBlocks, WipeHeadBlocks

(* A block lands: a zero erases the table, a block of the body fills, the   *)
(* first block of the head commits.                                         *)
LEMMA CardProgram ==
  ASSUME IInv, ISound, Reliable, Program
  PROVE  CardStep
<1>1. PICK d \in Block : Destage(d)
  BY DEF Program
<1>2. result' = result /\ imageLen' = imageLen
  BY DEF Program, progVars
<1>3. /\ vol[d] \in {"zero", "img"} /\ media'[d] = vol[d]
      /\ \A b \in Block : b # d => media'[b] = media[b]
  BY <1>1 DEF Destage, Programmed, Reliable, Store, IInv, TypeOK, MediaTypeOK
<1>4. BodyOf(imageLen) \subseteq Block \ Head
  BY FlashAssumption DEF BodyOf, Head, Block
<1>5. CASE vol[d] = "zero"
  <2>1. \A b \in Block : media[b] # "img" /\ media'[b] # "img"
    BY <1>3, <1>5 DEF ISound
  <2>2. WholeNow' = WholeNow /\ ~FilledNow /\ ~FilledNow'
    BY <1>2, <1>4, <2>1 DEF WholeNow, FilledNow
  <2>3. TableNow' = TableNow \/ (TableNow = "old" /\ TableNow' = "none")
    BY <1>3, <1>5, <2>1, FirstBlock DEF TableNow
  <2>4. FilledNow' = FilledNow
    BY <2>2, Zenon DEF FilledNow
  <2>5. QED
    BY <1>2, <2>2, <2>3, <2>4, Zenon DEF CardStep
<1>6. CASE vol[d] = "img"
  <2>1. FilledNow' /\ (WholeNow => WholeNow') /\ media[0] # "old"
    <3>1. WholeNow => WholeNow'
      BY <1>2, <1>3, <1>4, <1>6 DEF WholeNow
    <3>2. FilledNow' /\ media[0] # "old"
      BY <1>3, <1>6, FirstBlock DEF FilledNow, IInv, IWipe
    <3>3. QED
      BY <3>1, <3>2
  <2>2. WholeNow' \in {WholeNow, TRUE}
    BY <2>1, Zenon DEF WholeNow
  <2>3. CASE d \notin Head
    <3>1. TableNow = "none" /\ TableNow' = "none"
      BY <1>1, <1>3, <2>1, <2>3, FirstBlock DEF TableNow, ISound, Destage
    <3>2. QED
      BY <1>2, <2>1, <2>2, <3>1, Zenon DEF CardStep
  <2>4. CASE d \in Head
    <3>1. BodyWhole /\ WholeNow /\ WholeNow'
      BY <1>6, <2>1, <2>4 DEF IInv, IHead, BodyWhole, WholeNow
    <3>2. CASE media[0] = "img"
      <4>1. FilledNow /\ TableNow = "new" /\ TableNow' = "new"
        BY <1>3, <1>6, <3>2, FirstBlock DEF FilledNow, TableNow
      <4>2. QED
        BY <1>2, <2>1, <3>1, <4>1, Zenon DEF CardStep
    <3>3. CASE media[0] # "img"
      <4>1. TableNow = "none" /\ TableNow' \in {"none", "new"}
        BY <1>3, <1>6, <2>1, <3>3, FirstBlock DEF TableNow
      <4>2. CASE TableNow' = "none"
        BY <1>2, <2>1, <2>2, <4>1, <4>2, Zenon DEF CardStep
      <4>3. CASE TableNow' = "new"
        BY <1>2, <2>1, <3>1, <4>1, <4>3, Zenon DEF CardStep
      <4>4. QED
        BY <4>1, <4>2, <4>3
    <3>4. QED
      BY <3>2, <3>3
  <2>5. QED
    BY <2>3, <2>4
<1>7. QED
  BY <1>3, <1>5, <1>6

(* A return answers what the card supports.                                 *)
LEMMA CardReturn ==
  ASSUME IInv, ISound, Reliable, Flash \/ Kill \/ PowerCut \/ Cancel \/ UNCHANGED vars
  PROVE  CardStep
<1>1. media' = media /\ imageLen' = imageLen
  BY DEF Flash, Cancel, Kill, PowerCut, LosePending, vars, Before, Guard, StatSource,
     UnmountAll, OpenForWrite, DeviceSize, WipeFront, WipeBack, WipeSync, Poll, ReadChunk,
     ReadWarn, ReadError, ReadEnd, BodySync, VerifyPoll, VerifyRead, WriteHead, HeadSync,
     HeadRead, RewipeFront, RewipeBack, RewipeSync, Write, WritePart
<1>2. TableNow' = TableNow /\ WholeNow' = WholeNow /\ FilledNow' = FilledNow
  <2>1. TableNow' = TableNow
    BY <1>1 DEF TableNow
  <2>2. WholeNow' = WholeNow
    BY <1>1, Zenon DEF WholeNow
  <2>3. FilledNow' = FilledNow
    BY <1>1, Zenon DEF FilledNow
  <2>4. QED
    BY <2>1, <2>2, <2>3
<1>3. CASE result' = result
  BY <1>2, <1>3, Zenon DEF CardStep
<1>4. CASE result' # result
  <2>1. result = "none"
    BY <1>4 DEF IInv, IResult, Flash, Cancel, Kill, PowerCut, vars, progVars, Return, Before,
       Guard, StatSource, UnmountAll, OpenForWrite, DeviceSize, WipeFront, WipeBack, WipeSync,
       Poll, ReadChunk, ReadWarn, ReadError, ReadEnd, BodySync, VerifyPoll, VerifyRead,
       WriteHead, HeadSync, HeadRead, RewipeFront, RewipeBack, RewipeSync
  <2>2. IInv' /\ result' \in Results \ {"none"}
    <3>1. IInv'
      BY INext DEF Next
    <3>2. QED
      BY <2>1, <1>4, <3>1 DEF IInv, TypeOK
  <2>3. CASE result' = "ok"
    <3>1. pc = "headRead" /\ \A b \in HeadOf(written) : media[b] = "img"
      BY <1>4, <2>3 DEF Flash, Cancel, Kill, PowerCut, vars, progVars, Return, Goto, FailIo, Before,
         Guard, StatSource, UnmountAll, OpenForWrite, DeviceSize, WipeFront, WipeBack, WipeSync,
         Poll, ReadChunk, ReadWarn, ReadError, ReadEnd, BodySync, VerifyPoll, VerifyRead,
         WriteHead, HeadSync, HeadRead, RewipeFront, RewipeBack, RewipeSync
    <3>2. written = imageLen /\ imageLen \in Nat
      BY <3>1 DEF IInv, IBody, CommitSteps, TypeOK
    <3>3. CASE imageLen = 0
      <4>1. WholeNow
        BY <3>3, FlashAssumption DEF WholeNow, BodyOf, Block
      <4>2. ~FilledNow
        BY <3>3 DEF FilledNow, ISound, Block
      <4>3. TableNow = "none"
        BY <3>1, <4>2, FirstBlock DEF TableNow, FilledNow, IInv, IWipe, CommitSteps
      <4>4. QED
        BY <1>2, <2>1, <2>3, <4>1, <4>2, <4>3, Zenon DEF CardStep, Told
    <3>4. CASE imageLen # 0
      <4>1. TableNow = "new"
        BY <3>1, <3>2, <3>4, FirstBlock DEF TableNow, HeadOf, Head
      <4>2. QED
        BY <1>2, <2>1, <2>3, <4>1, Zenon DEF CardStep, Told
    <3>5. QED
      BY <3>3, <3>4
  <2>4. CASE result' \in {"UserCancelled", "DiskFull", "InvalidImage", "Refused"}
    <3>1. TableNow # "new"
      <4>1. CASE result' = "Refused"
        <5>1. pc \in Early
          BY <1>4, <4>1 DEF Early, Flash, Cancel, Kill, PowerCut, vars, progVars, Return, Goto,
             FailIo, Before, Guard, StatSource, UnmountAll, OpenForWrite, DeviceSize, WipeFront,
             WipeBack, WipeSync, Poll, ReadChunk, ReadWarn, ReadError, ReadEnd, BodySync,
             VerifyPoll, VerifyRead, WriteHead, HeadSync, HeadRead, RewipeFront, RewipeBack,
             RewipeSync
        <5>2. QED
          BY <5>1, FirstBlock DEF IInv, IEarly, Untouched, TableNow
      <4>2. CASE result' # "Refused"
        BY <1>1, <2>2, <2>4, <4>2, FirstBlock DEF IInv, EarlyStopIsClean, Inert, Untouched, TableNow
      <4>3. QED
        BY <4>1, <4>2
    <3>2. Told(result') = "stopped" /\ Told(result) = "none"
      BY <2>1, <2>4 DEF Told
    <3>3. QED
      BY <1>2, <3>1, <3>2, Zenon DEF CardStep
  <2>5. CASE result' \notin {"ok", "UserCancelled", "DiskFull", "InvalidImage", "Refused"}
    <3>1. Told(result') = "failed" /\ Told(result) = "none"
      BY <2>1, <2>2, <2>5 DEF Told
    <3>2. QED
      BY <1>2, <3>1, Zenon DEF CardStep
  <2>6. QED
    BY <2>3, <2>4, <2>5
<1>5. QED
  BY <1>3, <1>4

LEMMA CardStart == Init => Card!Init
<1> SUFFICES ASSUME Init PROVE Card!Init
  OBVIOUS
<1>1. TableNow = "old" /\ ~FilledNow /\ Told(result) = "none"
  BY FirstBlock DEF Init, MediaInit, TableNow, FilledNow, Told
<1>2. WholeNow \in BOOLEAN /\ FilledNow = FALSE
  BY <1>1, Zenon DEF WholeNow, FilledNow
<1>3. QED
  BY <1>1, <1>2 DEF Card!Init, TableNow, WholeNow, FilledNow, Told

LEMMA CardNext ==
  ASSUME IInv, ISound, Reliable, [Next]_vars
  PROVE  [Card!Next]_Card!vars
<1>1. CardStep
  BY CardProgram, CardReturn DEF Next
<1>2. QED
  BY <1>1 DEF CardStep, TableNow, WholeNow, FilledNow, Told, Card!Next, Card!vars, Card!Erase,
     Card!Fill, Card!Commit, Card!Answer, Card!Succeed, Card!Stop, Card!Fail

(* On a sound card flash keeps the promise of CardLifecycle: the old table  *)
(* goes before anything new is there, the new one comes over a whole body   *)
(* and stays, and what flash returns agrees with the card.                  *)
THEOREM CardRefinement == Reliable /\ Spec => KeepsCardPromise
<1> SUFFICES ASSUME Reliable PROVE Spec => KeepsCardPromise
  OBVIOUS
<1>1. Init => ISound /\ Card!Init
  BY SoundInit, CardStart
<1>2. IInv /\ ISound /\ [Next]_vars => ISound' /\ [Card!Next]_Card!vars
  BY SoundNext, CardNext
<1>3. QED
  BY <1>1, <1>2, Invariant, PTL DEF Spec, KeepsCardPromise, Card!Spec
=============================================================================
