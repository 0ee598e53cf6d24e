--------------------------- MODULE ConfigureProofs ---------------------------
(***************************************************************************)
(* Proof, for any card, manifests, partition tables and number of runs,     *)
(* that a refusal or a dry run changes nothing on BOOT, and that what is    *)
(* said to be applied is on the card exactly.  For the first: the card is   *)
(* still the one the configuration started on until the first copy, and no  *)
(* dry run gets as far as a copy.  For the second: what was copied so far,  *)
(* where a later file of the same name does not replace an earlier one, is  *)
(* its source's bytes, sources are never written, and every other path is   *)
(* what it was; of the two writers a killed program and its successor may   *)
(* leave on the bootloader partition, one at a time holds it, and the one   *)
(* that was answered for held it last.                                      *)
(***************************************************************************)
EXTENDS Configure, FiniteSets, WellFoundedInduction, TLAPS

Planning == {"openBoot", "find", "check", "preflight"}
Applying == {"copy", "extlinux", "sink", "wait", "sweep"}

(* The card is the one the configuration found.                             *)
IPlanning == pc \in Planning => card = before[1]

(* Nothing is returned while the worker runs, and what gets past the check  *)
(* is no dry run.                                                           *)
IResult   == pc \in Planning \cup Applying => result = "none"
IApplying == pc \in Applying \cup {"preflight"} => ~dryRun

(* A refusal stays true of the card until the next configuration starts.    *)
IAnswer == result \in Refusals \/ (result = "ok" /\ dryRun) => card = before[1]

IInv == IPlanning /\ IResult /\ IApplying /\ IAnswer

LEMMA IInit == Init => IInv
  BY DEF Init, IInv, IPlanning, IResult, IApplying, IAnswer, Planning, Applying, Refusals

(* Nothing of BOOT changes while the configuration is planned.              *)
LEMMA StepPlan ==
  ASSUME IInv, OpenBoot \/ Find \/ Check \/ Preflight
  PROVE  IInv'
<1>1. /\ pc \in Planning /\ card' = card /\ before' = before
      /\ pc' \in {"find", "check", "preflight", "copy", "done"}
      /\ pc' # "done" => result' = result
  BY DEF OpenBoot, Find, Check, Preflight, Goto, Return, Planning, cardVars, hist, job
<1>2. pc' \in Applying \cup {"preflight"} => ~dryRun'
  <2>1. CASE OpenBoot \/ Find
    BY <2>1 DEF OpenBoot, Find, Goto, Return, Applying
  <2>2. CASE Check
    BY <2>2 DEF Check, Goto, Return, Applying, job
  <2>3. CASE Preflight
    <3>1. ~dryRun /\ dryRun' = dryRun
      BY <2>3 DEF Preflight, IInv, IApplying, job
    <3>2. QED
      BY <3>1
  <2>4. QED
    BY <2>1, <2>2, <2>3
<1>3. IPlanning' /\ IResult'
  BY <1>1 DEF IInv, IPlanning, IResult, Planning, Applying
<1>4. QED
  BY <1>1, <1>2, <1>3 DEF IInv, IPlanning, IApplying, IAnswer

(* Whatever copies and writes returns is no refusal, and no dry run.        *)
LEMMA StepApply ==
  ASSUME IInv, Copy \/ CopiesDone \/ MoveConf \/ Sweep \/ Sink \/ Answered
  PROVE  IInv'
<1>1. pc \in Applying /\ (dryRun' = dryRun)
  BY DEF Copy, CopiesDone, MoveConf, Sweep, Sink, Answered, Applying, job
<1>2. ~dryRun /\ ~dryRun'
  BY <1>1 DEF IInv, IApplying
<1>3. \/ pc' \in Applying /\ result' = result
      \/ pc' = "done" /\ result' \notin Refusals
  BY <1>1 DEF Copy, CopiesDone, MoveConf, Sweep, Sink, Answered, Goto, Return, Applying, Refusals
<1>4. QED
  BY <1>1, <1>2, <1>3 DEF IInv, IPlanning, IResult, IApplying, IAnswer, Planning, Applying, Refusals

(* The writers change the bootloader partition and nothing on BOOT.         *)
LEMMA StepOther ==
  ASSUME IInv, UNCHANGED <<card, pc, result, before, dryRun>>
  PROVE  IInv'
  BY Zenon DEF IInv, IPlanning, IResult, IApplying, IAnswer, Planning, Applying

(* A configuration starts from the card as it is.                           *)
LEMMA StepStart ==
  ASSUME IInv, CmdConfigure \/ RunConfigure
  PROVE  IInv'
<1>1. pc' \in {"openBoot", "check"} /\ result' = "none" /\ card' = card /\ before' = <<card, slot>>
  BY DEF CmdConfigure, RunConfigure, Started, cardVars
<1>2. QED
  BY <1>1 DEF IInv, IPlanning, IResult, IApplying, IAnswer, Planning, Applying, Refusals

(* What is returned is looked at, and the program ends or is killed.        *)
LEMMA StepLeave ==
  ASSUME IInv, OpenDialog \/ Finished \/ Reject \/ Exit \/ Kill
  PROVE  IInv'
<1>1. /\ before' = before /\ result' = result /\ dryRun' = dryRun /\ pc' \in {"idle", "off"}
      /\ card' = card \/ pc \in {"copy", "sweep"}
  BY DEF OpenDialog, Finished, Reject, Exit, Kill, CutShort, cardVars, job, hist
<1>2. CASE card' = card
  BY <1>1, <1>2, Zenon DEF IInv, IPlanning, IResult, IApplying, IAnswer, Planning, Applying
<1>3. CASE pc \in {"copy", "sweep"}
  <2>1. result' = "none"
    BY <1>1, <1>3 DEF IInv, IResult, Applying
  <2>2. QED
    BY <1>1, <2>1 DEF IInv, IPlanning, IResult, IApplying, IAnswer, Planning, Applying, Refusals
<1>4. QED
  BY <1>1, <1>2, <1>3

LEMMA INext == IInv /\ [Next]_vars => IInv'
<1> SUFFICES ASSUME IInv, [Next]_vars PROVE IInv'
  OBVIOUS
<1>1. CASE Worker
  BY <1>1, StepPlan, StepApply DEF Worker
<1>2. CASE Writer \/ OrphanStops \/ UNCHANGED vars
  <2>1. UNCHANGED <<card, pc, result, before, dryRun>>
    BY <1>2 DEF Writer, OrphanStops, vars, cardVars, job, hist
  <2>2. QED
    BY <2>1, StepOther
<1>3. CASE CmdConfigure \/ RunConfigure
  BY <1>3, StepStart
<1>4. CASE OpenDialog \/ Finished \/ Reject \/ Exit \/ Kill
  BY <1>4, StepLeave
<1>5. QED
  BY <1>1, <1>2, <1>3, <1>4 DEF Next

(* The inductive invariant holds in every reachable state: what BOOT holds  *)
(* is accounted for from the start of a configuration to its answer.        *)
THEOREM Invariant == Spec => []IInv
  BY IInit, INext, PTL DEF Spec

(* A refused configuration and a dry run leave BOOT untouched, for every    *)
(* manifest, card and platform, whatever orphans still write.               *)
THEOREM RefusalIsClean == Spec => []RefusedLeavesCard
<1>1. IInv => RefusedLeavesCard
  BY DEF IInv, IAnswer, RefusedLeavesCard
<1>2. QED
  BY <1>1, Invariant, PTL

-----------------------------------------------------------------------------
(* Types.  They need where the worker is in its plan: the project is only   *)
(* replaced before the first copy, all of it is copied before the branch    *)
(* for its platform is taken, and what is copied or written is a path.      *)
IPlan ==
  /\ pc \in Planning => next = 1
  /\ pc \in {"extlinux", "sweep"} => next = Len(Sources(project)) + 1
  /\ pc \in {"extlinux", "sink", "wait"} => project.intel
  /\ pc = "sweep" => ~project.intel
  /\ pc \in Applying => /\ \A k \in DOMAIN Sources(project) : Sources(project)[k] \in Path
                        /\ project.intel => project.preloader \in Path

ITyped == TypeOK /\ IPlan

(* The kernel heads the list of files, so there is one file to copy.        *)
LEMMA SourcesType ==
  ASSUME NEW e \in Entry
  PROVE  /\ Sources(e) \in Seq(Path \cup {NoFile}) /\ Len(Sources(e)) \in Nat \ {0}
         /\ DOMAIN Sources(e) = 1 .. Len(Sources(e)) /\ 1 \in 1 .. Len(Sources(e)) + 1
<1> DEFINE F == Path \cup {NoFile}
<1>1. e.kernel \in F /\ e.files \in Seq(F)
  BY ConfigureAssumption
<1>2. <<e.kernel>> \in Seq(F) /\ Len(<<e.kernel>>) = 1
  BY <1>1
<1> HIDE DEF F
<1>3. Sources(e) \in Seq(F) /\ Len(Sources(e)) = 1 + Len(e.files) /\ Len(e.files) \in Nat
  BY <1>1, <1>2 DEF Sources
<1>4. QED
  BY <1>3 DEF F

LEMMA TypeInit == Init => ITyped
<1> SUFFICES ASSUME Init PROVE ITyped
  OBVIOUS
<1>1. project \in Entry /\ next \in 1 .. Len(Sources(project)) + 1
  <2>1. project \in Entry
    BY ConfigureAssumption DEF Init
  <2>2. QED
    BY <2>1, SourcesType DEF Init
<1>2. card \in [Path -> Bytes] /\ slot \in Bytes
  BY DEF Init, Path, Place, Bytes
<1>3. writer \in [Who -> [phase : Phases, dir : Bytes]]
  BY DEF Init, Idle, Phases, Bytes
<1>4. runs \in 0 .. MaxRuns
  BY ConfigureAssumption DEF Init
<1>5. QED
  BY <1>1, <1>2, <1>3, <1>4 DEF Init, ITyped, IPlan, TypeOK, Planning, Applying, Steps, Results

(* The steps before the first copy.                                         *)
LEMMA TypePlanning ==
  ASSUME ITyped, OpenBoot \/ Find \/ Check \/ Preflight, UNCHANGED <<env, client, banner>>
  PROVE  ITyped'
<1>1. project' \in Entry /\ dryRun' \in BOOLEAN /\ next' = next
      /\ next' \in 1 .. Len(Sources(project')) + 1
  <2>1. CASE OpenBoot \/ Check \/ Preflight
    BY <2>1 DEF OpenBoot, Check, Preflight, job, ITyped, TypeOK
  <2>2. CASE Find
    <3>1. project' \in Entry /\ next = 1
      BY <2>2 DEF Find, FindProject, Projects, ITyped, TypeOK, IPlan, Planning
    <3>2. QED
      BY <2>2, <3>1, SourcesType DEF Find, ITyped, TypeOK
  <2>3. QED
    BY <2>1, <2>2
<1>2. mounted' \in BOOLEAN /\ owned' \in BOOLEAN /\ (owned' => mounted')
  BY Zenon DEF OpenBoot, Find, Check, Preflight, MountBoot, mountVars, ITyped, TypeOK
<1>3. /\ pc \in Planning /\ pc' \in {"find", "check", "preflight", "copy", "done"}
      /\ result' \in Results
  BY DEF OpenBoot, Find, Check, Preflight, Goto, Return, Planning, Results, ITyped, TypeOK
<1>4. UNCHANGED <<card, slot, writer>>
  BY DEF OpenBoot, Find, Check, Preflight, cardVars
<1>5. IPlan'
  <2>1. next' = 1
    BY <1>1, <1>3 DEF ITyped, IPlan
  <2>2. pc' = "copy" => /\ \A k \in DOMAIN Sources(project') : Sources(project')[k] \in Path
                        /\ project'.intel => project'.preloader \in Path
    <3>1. SUFFICES ASSUME pc' = "copy"
                   PROVE  /\ \A k \in DOMAIN Sources(project) : Sources(project)[k] \in Path
                          /\ project.intel => project.preloader \in Path
      BY DEF OpenBoot, Find, Check, Preflight, Goto, Return, job
    <3>2. Preflight
      BY <3>1 DEF OpenBoot, Find, Check, Goto, Return
    <3>3. /\ \A k \in DOMAIN Sources(project) : Sources(project)[k] # NoFile
          /\ project.intel => project.preloader # NoFile
      BY <3>1, <3>2 DEF Preflight, IsFile, Goto, Return
    <3>4. project.preloader \in Path \cup {NoFile}
          /\ \A k \in DOMAIN Sources(project) : Sources(project)[k] \in Path \cup {NoFile}
      BY SourcesType, ConfigureAssumption DEF ITyped, TypeOK
    <3>5. QED
      BY <3>3, <3>4
  <2>3. QED
    BY <1>3, <2>1, <2>2 DEF IPlan, Applying
<1>6. QED
  BY <1>1, <1>2, <1>3, <1>4, <1>5 DEF ITyped, TypeOK, env, Planning, Steps

(* The steps from the first copy to the answer.                             *)
LEMMA TypeApplying ==
  ASSUME ITyped, Copy \/ CopiesDone \/ MoveConf \/ Sweep \/ Sink \/ Answered,
         UNCHANGED <<env, client, banner>>
  PROVE  ITyped'
<1> DEFINE all == Sources(project)
<1>1. /\ pc \in Applying /\ pc' \in Applying \cup {"done"} /\ result' \in Results
      /\ project' = project /\ dryRun' = dryRun /\ slot' = slot
      /\ UNCHANGED mountVars
  BY DEF Copy, CopiesDone, MoveConf, Sweep, Sink, Answered, Goto, Return, Applying, Results,
         ITyped, TypeOK, job, cardVars
<1>2. Len(all) \in Nat \ {0} /\ next \in 1 .. Len(all) + 1
      /\ \A k \in 1 .. Len(all) : all[k] \in Path
  BY <1>1, SourcesType DEF ITyped, TypeOK, IPlan
<1>3. next' \in 1 .. Len(all) + 1
  <2>1. next' = next \/ (next' = next + 1 /\ next <= Len(all))
    BY DEF Copy, CopiesDone, MoveConf, Sweep, Sink, Answered, job
  <2> HIDE DEF all
  <2>2. QED
    BY <1>2, <2>1
<1>4. card' \in [Path -> Bytes]
  <2>1. CASE Copy
    <3> DEFINE from == all[next]
    <3>1. from \in Path
      BY <1>2, <2>1 DEF Copy
    <3>2. QED
      BY <2>1, <3>1 DEF Copy, Torn, ITyped, TypeOK, Bytes
  <2>2. CASE MoveConf
    <3>1. <<Root, Conf>> \in Path
      BY ConfigureAssumption DEF Path, Place
    <3>2. QED
      BY <2>2, <3>1 DEF MoveConf, ITyped, TypeOK, Bytes
  <2>3. CASE Sweep
    BY <2>3 DEF Sweep, Swept, ITyped, TypeOK, Bytes
  <2>4. CASE CopiesDone \/ Sink \/ Answered
    BY <2>4 DEF CopiesDone, Sink, Answered, cardVars, ITyped, TypeOK
  <2>5. QED
    BY <2>1, <2>2, <2>3, <2>4
<1>5. writer' \in [Who -> [phase : Phases, dir : Bytes]]
  <2>1. CASE Sink
    <3>1. project.preloader \in Path
      BY <2>1 DEF Sink, ITyped, IPlan, Applying
    <3>2. card[project.preloader] \in Bytes
      BY <3>1 DEF ITyped, TypeOK
    <3>3. [phase |-> IF client = "cli" THEN "open" ELSE "posted",
           dir |-> card[project.preloader]] \in [phase : Phases, dir : Bytes]
      BY <3>2 DEF Phases
    <3>4. QED
      BY <2>1, <3>3 DEF Sink, ITyped, TypeOK
  <2>2. CASE Answered
    BY <2>2 DEF Answered, ITyped, TypeOK, Idle, Phases, Bytes
  <2>3. CASE Copy \/ CopiesDone \/ MoveConf \/ Sweep
    BY <2>3 DEF Copy, CopiesDone, MoveConf, Sweep, ITyped, TypeOK
  <2>4. QED
    BY <2>1, <2>2, <2>3
<1>6. IPlan'
  <2>1. /\ \A k \in DOMAIN all : all[k] \in Path
        /\ project.intel => project.preloader \in Path
    BY <1>1 DEF ITyped, IPlan
  <2>2. CASE CopiesDone
    <3>1. next = Len(all) + 1 /\ next' = next
      BY <1>2, <2>2 DEF CopiesDone, job
    <3>2. QED
      BY <1>1, <2>1, <2>2, <3>1 DEF CopiesDone, Goto, IPlan, Planning, Applying
  <2>3. CASE Copy \/ Sweep \/ Answered
    BY <1>1, <2>1, <2>3 DEF Copy, Sweep, Answered, Return, IPlan, Planning, Applying
  <2>4. CASE MoveConf \/ Sink
    BY <1>1, <2>1, <2>4 DEF MoveConf, Sink, Goto, Return, ITyped, IPlan, Planning, Applying
  <2>5. QED
    BY <2>2, <2>3, <2>4
<1>7. QED
  BY <1>1, <1>3, <1>4, <1>5, <1>6 DEF ITyped, TypeOK, env, mountVars, Applying, Steps

(* The writers, and the orphan a killed client left.                        *)
LEMMA TypeWriting ==
  ASSUME ITyped, Writer \/ OrphanStops
  PROVE  ITyped'
<1> DEFINE WT == [Who -> [phase : Phases, dir : Bytes]]
<1>1. UNCHANGED <<card, env, mountVars, client, pc, job, result, banner>>
  BY DEF Writer, OrphanStops, cardVars
<1>2. Idle \in [phase : Phases, dir : Bytes] /\ writer \in WT
  BY DEF Idle, Phases, Bytes, ITyped, TypeOK
<1>3. writer' \in WT /\ slot' \in Bytes
  <2>1. ASSUME NEW w \in Who, NEW ph \in Phases, Phase(w, ph)
        PROVE  writer' \in WT
    <3>1. writer[w] \in [phase : Phases, dir : Bytes]
      BY <1>2
    <3>2. [writer[w] EXCEPT !.phase = ph] \in [phase : Phases, dir : Bytes]
      BY <3>1
    <3>3. writer' = [writer EXCEPT ![w] = [writer[w] EXCEPT !.phase = ph]]
      BY <2>1 DEF Phase
    <3>4. QED
      BY <1>2, <3>2, <3>3
  <2>2. \A w \in Who : writer[w].dir \in Bytes
    BY <1>2
  <2>3. CASE RunPosted
    BY <2>1, <2>3 DEF RunPosted, Who, Phases, ITyped, TypeOK
  <2>4. ASSUME NEW w \in Who, Write(w) PROVE writer' \in WT /\ slot' \in Bytes
    <3>1. slot \in Bytes /\ "torn" \in Bytes
      BY DEF ITyped, TypeOK, Bytes
    <3>2. slot' \in Bytes
      BY <2>2, <2>4, <3>1 DEF Write, Prompt, Open, Overwrite, Complete
    <3>3. \E ph \in Phases : Phase(w, ph)
      BY <2>4 DEF Write, Prompt, Open, Overwrite, Complete, Phases
    <3>4. QED
      BY <2>1, <3>2, <3>3
  <2>5. CASE Buried \/ OrphanStops
    BY <1>2, <2>5 DEF Buried, OrphanStops, cardVars, ITyped, TypeOK
  <2>6. QED
    BY <2>3, <2>4, <2>5 DEF Writer, OurWriter, Who
<1>4. QED
  BY <1>1, <1>3 DEF ITyped, TypeOK, IPlan, env, mountVars, job

(* A kill leaves the card, cuts a file of the root short, or removes some   *)
(* of extlinux/.                                                            *)
LEMMA KilledCard ==
  ASSUME ITyped, Kill
  PROVE  /\ card' \in [Path -> Bytes]
         /\ card' # card => pc \in {"copy", "sweep"}
         /\ \A path \in Path : path[1] \in Dir => card'[path] = card[path]
<1>1. card \in [Path -> Bytes] /\ Root \notin Dir /\ Extlinux \notin Dir
  BY ConfigureAssumption DEF ITyped, TypeOK
<1>2. CASE card' = card
  BY <1>1, <1>2
<1>3. CASE pc = "copy" /\ next <= Len(Sources(project)) /\ card' = Torn(Sources(project)[next])
  <2> DEFINE to == Dest(Sources(project)[next])
  <2>1. DOMAIN Sources(project) = 1 .. Len(Sources(project)) /\ Len(Sources(project)) \in Nat
    BY SourcesType DEF ITyped, TypeOK
  <2>2. Sources(project)[next] \in Path
    BY <1>3, <2>1 DEF ITyped, IPlan, TypeOK, Applying
  <2>3. to \in Path /\ to[1] = Root
    BY <2>2 DEF Dest, Path, Place
  <2>4. card' = [card EXCEPT ![to] = "torn"] /\ "torn" \in Bytes
    BY <1>3 DEF Torn, Bytes
  <2> HIDE DEF to
  <2>5. QED
    BY <1>1, <1>3, <2>3, <2>4
<1>4. CASE pc = "sweep" /\ \E kept \in SUBSET Base : card' = Swept(kept)
  BY <1>1, <1>4 DEF Swept, Bytes
<1>5. QED
  BY <1>2, <1>3, <1>4, Zenon DEF Kill, CutShort

(* The clients: a command, a dialog, their ends.                            *)
LEMMA TypeClient ==
  ASSUME ITyped, CmdConfigure \/ OpenDialog \/ RunConfigure \/ Finished \/ Reject \/ Exit \/ Kill
  PROVE  ITyped'
<1>1. project' \in Entry /\ dryRun' \in BOOLEAN /\ next' \in 1 .. Len(Sources(project')) + 1
  <2>1. CASE CmdConfigure \/ RunConfigure
    <3>1. project' \in Entry /\ dryRun' \in BOOLEAN /\ next' = 1
      BY <2>1 DEF CmdConfigure, RunConfigure, Started, Projects
    <3>2. QED
      BY <3>1, SourcesType
  <2>2. CASE ~(CmdConfigure \/ RunConfigure)
    BY <2>2 DEF OpenDialog, Finished, Reject, Exit, Kill, job, ITyped, TypeOK
  <2>3. QED
    BY <2>1, <2>2
<1>2. runs' \in 0 .. MaxRuns
  <2>1. runs' = runs \/ (runs < MaxRuns /\ runs' = runs + 1)
    BY DEF CmdConfigure, OpenDialog, RunConfigure, Finished, Reject, Exit, Kill, Started, env
  <2>2. QED
    BY <2>1, ConfigureAssumption DEF ITyped, TypeOK
<1>3. mounted' \in BOOLEAN /\ owned' \in BOOLEAN /\ (owned' => mounted')
  BY Zenon DEF CmdConfigure, OpenDialog, RunConfigure, Finished, Reject, Exit, Kill,
               MountBoot, Release, mountVars, ITyped, TypeOK
<1>4. writer' \in [Who -> [phase : Phases, dir : Bytes]]
  <2>1. CASE Kill
    <3>1. Idle \in [phase : Phases, dir : Bytes] /\ writer["ours"] \in [phase : Phases, dir : Bytes]
      BY DEF Idle, Phases, Bytes, Who, ITyped, TypeOK
    <3>2. [ours |-> Idle, orphan |-> writer["ours"]] \in [Who -> [phase : Phases, dir : Bytes]]
      BY <3>1 DEF Who
    <3>3. QED
      BY <2>1, <3>1, <3>2 DEF Kill, ITyped, TypeOK
  <2>2. CASE ~Kill
    BY <2>2 DEF CmdConfigure, OpenDialog, RunConfigure, Finished, Reject, Exit, ITyped, TypeOK
  <2>3. QED
    BY <2>1, <2>2
<1>5. /\ client' \in {"none", "cli", "gui"} /\ pc' \in Steps
      /\ (client' = "none") = (pc' = "off")
      /\ banner' \in {"none", "error", "would", "applied"}
      /\ result' \in Results
  BY DEF CmdConfigure, OpenDialog, RunConfigure, Finished, Reject, Exit, Kill, Started,
         Steps, Results, ITyped, TypeOK
<1>6. card' \in [Path -> Bytes] /\ UNCHANGED <<slot, table, wired>>
  <2>1. CASE Kill
    BY <2>1, KilledCard DEF Kill, env
  <2>2. CASE ~Kill
    BY <2>2 DEF CmdConfigure, OpenDialog, RunConfigure, Finished, Reject, Exit, cardVars, env,
                ITyped, TypeOK
  <2>3. QED
    BY <2>1, <2>2
<1>7. IPlan'
  <2>1. pc' \in {"off", "idle"} \/ (pc' \in {"openBoot", "check"} /\ next' = 1)
    BY DEF CmdConfigure, OpenDialog, RunConfigure, Finished, Reject, Exit, Kill, Started
  <2>2. QED
    BY <2>1 DEF IPlan, Planning, Applying
<1>8. QED
  BY <1>1, <1>2, <1>3, <1>4, <1>5, <1>6, <1>7 DEF ITyped, TypeOK

LEMMA TypeNext == ITyped /\ [Next]_vars => ITyped'
<1> SUFFICES ASSUME ITyped, [Next]_vars PROVE ITyped'
  OBVIOUS
<1>1. CASE Worker
  BY <1>1, TypePlanning, TypeApplying DEF Worker
<1>2. CASE Writer \/ OrphanStops
  BY <1>2, TypeWriting
<1>3. CASE CmdConfigure \/ OpenDialog \/ RunConfigure \/ Finished \/ Reject \/ Exit \/ Kill
  BY <1>3, TypeClient
<1>4. CASE UNCHANGED vars
  BY <1>4 DEF vars, cardVars, env, mountVars, job, ITyped, TypeOK, IPlan
<1>5. QED
  BY <1>1, <1>2, <1>3, <1>4 DEF Next

(* Every variable keeps its type: nothing but a path is ever read from or   *)
(* written to BOOT, and a mount this client owns is a mount.                *)
THEOREM ConfigureTypes == Spec => [](TypeOK /\ IPlan)
  BY TypeInit, TypeNext, PTL DEF Spec, ITyped

-----------------------------------------------------------------------------
(* The files.  Applied: the last configuration was one, and not a preview.  *)
Applied == result = "ok" /\ ~dryRun
All == Sources(project)

(* The files the image ships in the manifests' directories are never        *)
(* written: a copy goes to the root, and only extlinux/ is swept.           *)
IIntact ==
  \A path \in Path : path[1] \in Dir => card[path] = before[1][path] /\ card[path] \in {path[1], "none"}

(* What got past the preflight was there.                                   *)
IReady ==
  pc \in Applying \/ Applied =>
    /\ \A k \in DOMAIN All : All[k] \in Path /\ before[1][All[k]] # "none"
    /\ project.intel => project.preloader \in Path /\ before[1][project.preloader] # "none"

(* Copies change the root alone, and a source in the root copies onto       *)
(* itself, which is refused: so every source still is what it was.          *)
Laying == pc \in {"copy", "extlinux", "sweep"}
IOutside == Laying => \A path \in Path : path[1] # Root => card[path] = before[1][path]

(* What the root holds of the files copied so far, later ones of the same   *)
(* name having replaced the earlier ones; and of any other name what it did.*)
LastCopied(k) == \A m \in k + 1 .. next - 1 : All[m][2] # All[k][2]
ICopied ==
  Laying => \A k \in 1 .. next - 1 : LastCopied(k) => card[Dest(All[k])] = before[1][All[k]]
Copied(b) == \E k \in 1 .. next - 1 : All[k][2] = b
IRest ==
  Laying => \A path \in Path : path[1] = Root /\ ~Copied(path[2]) => card[path] = before[1][path]

(* And in the end, with extlinux.conf moved or extlinux/ swept.             *)
Placed == \A path \in Path : card[path] = Final(project, path) \/ Unswept(project, path)
IPlaced == pc \in {"sink", "wait"} \/ Applied => Placed

IFiles == IIntact /\ IReady /\ IOutside /\ ICopied /\ IRest /\ IPlaced

(* A set of indices that is not empty has a last one.                       *)
LEMMA LastIndex ==
  ASSUME NEW n \in Nat, NEW T, T \subseteq 1 .. n, T # {}
  PROVE  \E k \in T : \A m \in T : k >= m
<1> DEFINE Behind == {n - i : i \in T}
<1>1. Behind \subseteq Nat /\ Behind # {}
  <2>1. \A i \in T : i \in Int /\ i <= n /\ n - i \in Nat
    OBVIOUS
  <2>2. QED
    BY <2>1
<1>2. PICK d \in Behind : \A e \in Behind : ~ (<<e, d>> \in OpToRel(<, Nat))
  BY <1>1, NatLessThanWellFounded, WFMin
<1>3. \A e \in Behind : ~ (e < d)
  BY <1>1, <1>2 DEF OpToRel
<1>4. PICK i \in T : d = n - i
  OBVIOUS
<1>5. \A j \in T : i >= j
  <2>1. TAKE j \in T
  <2>2. ~ (n - j < n - i)
    BY <1>3, <1>4
  <2>3. QED
    BY <2>2
<1>6. QED
  BY <1>5

(* LastOf is one of the project's files of that name, and no later one has  *)
(* the name.                                                                *)
LEMMA LastOfType ==
  ASSUME ITyped, NEW b \in Names(project)
  PROVE  \E k \in 1 .. Len(All) :
           /\ LastOf(project, b) = All[k] /\ All[k][2] = b
           /\ \A m \in k + 1 .. Len(All) : All[m][2] # b
<1> DEFINE ks == {k \in DOMAIN All : All[k][2] = b}
           last == CHOOSE k \in ks : \A m \in ks : k >= m
<1>1. DOMAIN All = 1 .. Len(All) /\ Len(All) \in Nat
  BY SourcesType DEF ITyped, TypeOK, All
<1>2. ks \subseteq 1 .. Len(All) /\ ks # {}
  BY <1>1 DEF Names, All
<1> HIDE DEF ks
<1>3. \E k \in ks : \A m \in ks : k >= m
  BY <1>1, <1>2, LastIndex
<1>4. last \in ks /\ \A m \in ks : last >= m
  BY <1>3
<1>5. LastOf(project, b) = All[last]
  BY DEF LastOf, All, ks
<1> HIDE DEF last
<1>6. \A m \in last + 1 .. Len(All) : All[m][2] # b
  <2>1. SUFFICES ASSUME NEW m \in last + 1 .. Len(All), All[m][2] = b PROVE FALSE
    OBVIOUS
  <2>2. m \in 1 .. Len(All) /\ m > last
    BY <1>1, <1>2, <1>4
  <2>3. m \in ks
    BY <1>1, <2>1, <2>2 DEF ks
  <2>4. QED
    BY <1>1, <1>2, <1>4, <2>2, <2>3
<1>7. QED
  BY <1>1, <1>2, <1>4, <1>5, <1>6 DEF ks

(* Once all is copied, the card is the one of the start with the project's  *)
(* files laid over its root.                                                *)
LEMMA AllLaid ==
  ASSUME ITyped, IFiles, pc \in {"extlinux", "sweep"}, NEW path \in Path
  PROVE  card[path] = Laid(project, path)
<1>1. next = Len(All) + 1 /\ Len(All) \in Nat /\ Laying /\ DOMAIN All = 1 .. Len(All)
  BY SourcesType DEF ITyped, IPlan, TypeOK, All, Laying
<1>2. CASE path[1] # Root
  BY <1>1, <1>2 DEF IFiles, IOutside, Laid
<1>3. CASE path[1] = Root /\ path[2] \notin Names(project)
  <2>1. ~Copied(path[2])
    BY <1>1, <1>3 DEF Copied, Names, All
  <2>2. QED
    BY <1>1, <1>3, <2>1 DEF IFiles, IRest, Laid
<1>4. CASE path[1] = Root /\ path[2] \in Names(project)
  <2>1. PICK k \in 1 .. Len(All) : /\ LastOf(project, path[2]) = All[k] /\ All[k][2] = path[2]
                                   /\ \A m \in k + 1 .. Len(All) : All[m][2] # path[2]
    BY <1>4, LastOfType
  <2>2. k \in 1 .. next - 1 /\ LastCopied(k)
    BY <1>1, <2>1 DEF LastCopied
  <2>3. path = Dest(All[k])
    BY <1>4, <2>1 DEF Dest, Path
  <2>4. QED
    BY <1>1, <1>4, <2>1, <2>2, <2>3 DEF IFiles, ICopied, Laid
<1>5. QED
  BY <1>2, <1>3, <1>4

(* What a configuration ends in is settled when it starts.                  *)
LEMMA FinalStays ==
  ASSUME UNCHANGED <<before, project>>
  PROVE  \A path : Final(project, path)' = Final(project, path)
  BY DEF Final, Laid

(* And stays that as long as the card does.                                 *)
LEMMA PlacedStays ==
  ASSUME Placed, UNCHANGED <<card, before, project>>, faulted => faulted'
  PROVE  Placed'
<1>1. \A path : Final(project, path)' = Final(project, path)
  BY FinalStays
<1>2. \A path : Unswept(project, path) => Unswept(project, path)'
  BY DEF Unswept
<1>3. QED
  BY <1>1, <1>2 DEF Placed

LEMMA FilesInit == Init => IFiles
<1> SUFFICES ASSUME Init PROVE IFiles
  OBVIOUS
<1>1. before[1] = card /\ pc = "off" /\ result = "none"
      /\ \A path \in Path : card[path] \in {path[1], "none"}
  BY DEF Init
<1>2. QED
  BY <1>1 DEF IFiles, IIntact, IReady, IOutside, ICopied, IRest, Laying, IPlaced, Applying, Applied

(* Away from the copies only an answer counts, and it stays what it is.     *)
LEMMA FilesAside ==
  ASSUME IFiles, card' = card, before' = before, pc' \notin Applying,
         Applied' => Applied /\ project' = project /\ (faulted => faulted')
  PROVE  IFiles'
<1>1. IIntact' /\ IOutside' /\ ICopied' /\ IRest'
  BY DEF IFiles, IIntact, IOutside, ICopied, IRest, Laying, Applying
<1>2. IReady'
  BY DEF IFiles, IReady, All
<1>3. IPlaced'
  <2>1. SUFFICES ASSUME Applied' PROVE Placed'
    BY DEF IPlaced, Applying
  <2>2. Placed /\ project' = project /\ (faulted => faulted')
    BY <2>1 DEF IFiles, IPlaced
  <2>3. QED
    BY <2>2, PlacedStays
<1>4. QED
  BY <1>1, <1>2, <1>3 DEF IFiles

(* What the writers do is no concern of the files.                          *)
LEMMA FilesUnchanged ==
  ASSUME IFiles, UNCHANGED <<card, before, pc, project, dryRun, next, result>>, faulted' = faulted
  PROVE  IFiles'
<1>1. IIntact' /\ IOutside' /\ IReady' /\ (Applied' = Applied)
  BY DEF IFiles, IIntact, IOutside, Laying, IReady, All, Applied
<1>2. ICopied' /\ IRest'
  BY DEF IFiles, ICopied, IRest, Laying, LastCopied, Copied, All, Dest
<1>3. IPlaced'
  BY <1>1, PlacedStays DEF IFiles, IPlaced
<1>4. QED
  BY <1>1, <1>2, <1>3 DEF IFiles

(* A configuration starts on the card as it is.                             *)
LEMMA FilesStart ==
  ASSUME IFiles, CmdConfigure \/ RunConfigure
  PROVE  IFiles'
<1>1. card' = card /\ before'[1] = card /\ pc' \in {"openBoot", "check"} /\ result' = "none"
  BY DEF CmdConfigure, RunConfigure, Started, cardVars
<1>2. QED
  BY <1>1 DEF IFiles, IIntact, IReady, IOutside, ICopied, IRest, Laying, IPlaced, Applying, Applied

(* The preflight finds every source on the card the configuration started   *)
(* on, for nothing was changed since.                                       *)
LEMMA FilesPreflight ==
  ASSUME ITyped, IInv, IFiles, Preflight
  PROVE  IFiles'
<1>1. /\ card' = card /\ before' = before /\ project' = project /\ dryRun' = dryRun /\ next' = next
      /\ pc = "preflight" /\ result = "none" /\ card = before[1] /\ next = 1
  BY DEF Preflight, cardVars, hist, job, IInv, IResult, IPlanning, ITyped, IPlan, Planning
<1>2. CASE pc' = "done"
  <2>1. result' = "Preflight"
    BY <1>1, <1>2 DEF Preflight, Goto, Return
  <2>2. QED
    BY <1>1, <1>2, <2>1, FilesAside DEF Applying, Applied
<1>3. CASE pc' # "done"
  <2>1. /\ pc' = "copy" /\ result' = "none"
        /\ \A k \in DOMAIN All : IsFile(All[k])
        /\ project.intel => IsFile(project.preloader)
    BY <1>1, <1>3 DEF Preflight, Goto, Return, All
  <2>2. /\ \A k \in DOMAIN All : All[k] \in Path \cup {NoFile}
        /\ project.preloader \in Path \cup {NoFile}
    BY SourcesType, ConfigureAssumption DEF ITyped, TypeOK, All
  <2>3. IReady'
    <3>1. /\ \A k \in DOMAIN All : All[k] \in Path /\ card[All[k]] # "none"
          /\ project.intel => project.preloader \in Path /\ card[project.preloader] # "none"
      BY <2>1, <2>2 DEF IsFile
    <3>2. QED
      BY <1>1, <3>1 DEF IReady, All
  <2>4. IIntact' /\ IOutside'
    BY <1>1 DEF IFiles, IIntact, IOutside
  <2>5. ICopied' /\ IRest' /\ IPlaced'
    BY <1>1, <2>1 DEF ICopied, IRest, IPlaced, Applied
  <2>6. QED
    BY <2>3, <2>4, <2>5 DEF IFiles
<1>4. QED
  BY <1>2, <1>3

(* One more copy replaces what the root held under its name.                *)
LEMMA FilesCopy ==
  ASSUME ITyped, IInv, IFiles, Copy
  PROVE  IFiles'
<1> DEFINE from == All[next]
           to == Dest(from)
<1>1. /\ pc = "copy" /\ result = "none" /\ next \in 1 .. Len(All) /\ Len(All) \in Nat
      /\ DOMAIN All = 1 .. Len(All)
      /\ card \in [Path -> Bytes] /\ before' = before /\ project' = project /\ dryRun' = dryRun
  <2>1. next <= Len(All) /\ pc = "copy"
    BY DEF Copy, All
  <2>2. QED
    BY <2>1, SourcesType DEF Copy, IInv, IResult, Applying, ITyped, TypeOK, All
<1>2. from \in Path /\ from = <<from[1], from[2]>> /\ to \in Path /\ to = <<Root, from[2]>>
  <2>1. from \in Path
    BY <1>1 DEF IFiles, IReady, Applying
  <2>2. QED
    BY <2>1 DEF Path, Place, Dest
<1> HIDE DEF from, to
<1>3. /\ \A path \in Path : path[1] # Root => card'[path] = card[path]
      /\ card' = card \/ \E x \in Bytes : card' = [card EXCEPT ![to] = x]
  <2>1. card' = card \/ \E x : card' = [card EXCEPT ![to] = x] /\ x \in {card[from], "torn"}
    BY DEF Copy, Torn, to, from, All
  <2>2. card[from] \in Bytes /\ "torn" \in Bytes
    BY <1>1, <1>2 DEF Bytes
  <2>3. QED
    BY <1>1, <1>2, <2>1, <2>2
<1>4. IIntact'
  BY <1>1, <1>3, ConfigureAssumption DEF IFiles, IIntact
<1>5. CASE pc' = "done"
  <2>1. result' = "IoError"
    BY <1>1, <1>5 DEF Copy, Return
  <2>2. QED
    BY <1>4, <1>5, <2>1 DEF IFiles, IReady, IOutside, ICopied, IRest, Laying, IPlaced, Applying, Applied
<1>6. CASE pc' # "done"
  <2>1. /\ from # to /\ card' = [card EXCEPT ![to] = card[from]]
        /\ next' = next + 1 /\ pc' = "copy" /\ result' = "none"
    BY <1>1, <1>6 DEF Copy, Return, from, to, All
  <2>2. from[1] # Root /\ card[from] = before[1][from]
    BY <1>1, <1>2, <2>1 DEF IFiles, IOutside, Laying
  <2>3. IReady' /\ IOutside' /\ IPlaced'
    BY <1>1, <1>3, <2>1 DEF IFiles, IReady, IOutside, Laying, IPlaced, Applying, Applied, All
  <2>4. ICopied'
    <3>1. SUFFICES ASSUME NEW k \in 1 .. next, \A m \in k + 1 .. next : All[m][2] # All[k][2]
                   PROVE  card'[Dest(All[k])] = before[1][All[k]]
      BY <1>1, <2>1 DEF ICopied, Laying, LastCopied, All, Dest
    <3>2. CASE k = next
      BY <1>1, <1>2, <2>1, <2>2, <3>2 DEF to, from
    <3>3. CASE k # next
      <4>1. k \in 1 .. next - 1 /\ next \in k + 1 .. next /\ LastCopied(k)
        BY <1>1, <3>1, <3>3 DEF LastCopied
      <4>2. All[k][2] # from[2]
        BY <3>1, <4>1 DEF from
      <4>3. Dest(All[k]) \in Path /\ Dest(All[k]) # to
        <5>1. All[k] \in Path
          BY <1>1, <4>1 DEF IFiles, IReady, Applying
        <5>2. QED
          BY <1>2, <4>2, <5>1 DEF Dest, Path, Place
      <4>4. QED
        BY <1>1, <2>1, <4>1, <4>3 DEF IFiles, ICopied, Laying
    <3>4. QED
      BY <3>2, <3>3
  <2>5. IRest'
    <3>1. SUFFICES ASSUME NEW path \in Path, path[1] = Root, ~ \E k \in 1 .. next : All[k][2] = path[2]
                   PROVE  card'[path] = before[1][path]
      BY <1>1, <2>1 DEF IRest, Laying, Copied, All
    <3>2. from[2] # path[2] /\ ~Copied(path[2])
      BY <1>1, <3>1 DEF from, Copied
    <3>3. path # to
      BY <1>2, <3>2
    <3>4. QED
      BY <1>1, <1>2, <2>1, <3>1, <3>2, <3>3 DEF IFiles, IRest, Laying
  <2>6. QED
    BY <1>4, <2>3, <2>4, <2>5 DEF IFiles
<1>7. QED
  BY <1>5, <1>6

LEMMA FilesCopiesDone ==
  ASSUME ITyped, IInv, IFiles, CopiesDone
  PROVE  IFiles'
<1>1. /\ pc = "copy" /\ result = "none" /\ pc' \in {"extlinux", "sweep"} /\ result' = result
      /\ card' = card /\ before' = before /\ project' = project /\ dryRun' = dryRun /\ next' = next
  BY DEF CopiesDone, Goto, cardVars, hist, job, IInv, IResult, Applying
<1>2. IReady' /\ IIntact' /\ IOutside' /\ IPlaced'
  BY <1>1 DEF IFiles, IReady, IIntact, IOutside, Laying, IPlaced, Applying, Applied, All
<1>3. ICopied' /\ IRest'
  BY <1>1 DEF IFiles, ICopied, IRest, Laying, LastCopied, Copied, All, Dest
<1>4. QED
  BY <1>2, <1>3 DEF IFiles

(* The configuration file ends up where Intel boots from.                   *)
LEMMA FilesMoveConf ==
  ASSUME ITyped, IInv, IFiles, MoveConf
  PROVE  IFiles'
<1> DEFINE root == <<Root, Conf>>
           ext == <<Extlinux, Conf>>
<1>1. /\ pc = "extlinux" /\ result = "none" /\ project.intel /\ card \in [Path -> Bytes]
      /\ before' = before /\ project' = project /\ dryRun' = dryRun
      /\ pc' \in {"sink", "done"} /\ (pc' = "done" => result' = "IoError")
      /\ (pc' = "sink" => result' = "none")
  BY DEF MoveConf, Goto, Return, job, IInv, IResult, Applying, ITyped, IPlan, TypeOK
<1>2. root \in Path /\ ext \in Path /\ root # ext
      /\ root[1] \notin Dir /\ ext[1] \notin Dir
  BY ConfigureAssumption DEF Path, Place
<1> HIDE DEF root, ext
<1>3. card' = card \/ card' = [card EXCEPT ![ext] = card[root], ![root] = "none"]
  BY DEF MoveConf, root, ext
<1>4. IIntact' /\ IOutside' /\ ICopied' /\ IRest' /\ IReady'
  <2>1. \A path \in Path : path[1] \in Dir => card'[path] = card[path]
    BY <1>1, <1>2, <1>3
  <2>2. QED
    BY <1>1, <2>1 DEF IFiles, IIntact, IReady, IOutside, ICopied, IRest, Laying, Applying, Applied, All
<1>5. CASE pc' = "done"
  BY <1>1, <1>4, <1>5 DEF IFiles, IPlaced, Applied
<1>6. CASE pc' = "sink"
  <2>1. /\ IsFile(root) => card' = [card EXCEPT ![ext] = card[root], ![root] = "none"]
        /\ ~IsFile(root) => card' = card
    BY <1>6 DEF MoveConf, Return, root, ext
  <2>2. \A path \in Path : card[path] = Laid(project, path)
    BY <1>1, AllLaid
  <2>3. root # NoFile /\ (IsFile(root) <=> Laid(project, root) # "none")
    BY <1>2, <2>2, ConfigureAssumption DEF IsFile
  <2>4. \A path \in Path : card'[path] = Final(project, path)
    <3>1. TAKE path \in Path
    <3>2. CASE IsFile(root)
      <4>1. card' = [card EXCEPT ![ext] = card[root], ![root] = "none"] /\ card[root] = Laid(project, root)
        BY <1>2, <2>1, <2>2, <3>2
      <4>2. card'[path] = IF path = root THEN "none"
                          ELSE IF path = ext THEN Laid(project, root) ELSE Laid(project, path)
        BY <1>1, <1>2, <2>2, <4>1
      <4>3. QED
        BY <1>1, <2>3, <3>2, <4>2 DEF Final, root, ext
    <3>3. CASE ~IsFile(root)
      <4>1. card' = card /\ card[root] = "none" /\ card[path] = Laid(project, path)
        BY <1>2, <2>1, <2>2, <2>3, <3>3
      <4>2. QED
        BY <1>1, <1>2, <2>2, <2>3, <3>3, <4>1 DEF Final, root, ext
    <3>4. QED
      BY <3>2, <3>3
  <2>5. Placed'
    <3>1. \A path : Final(project, path)' = Final(project, path)
      BY <1>1, FinalStays
    <3>2. QED
      BY <2>4, <3>1 DEF Placed
  <2>6. QED
    BY <1>4, <2>5 DEF IFiles, IPlaced
<1>7. QED
  BY <1>1, <1>5, <1>6

(* The sweep reaches nothing but extlinux/, and leaves of it what it cannot *)
(* remove.                                                                  *)
LEMMA FilesSweep ==
  ASSUME ITyped, IInv, IFiles, Sweep
  PROVE  IFiles'
<1>1. /\ pc = "sweep" /\ ~project.intel /\ card \in [Path -> Bytes]
      /\ before' = before /\ project' = project /\ dryRun' = dryRun /\ pc' = "done"
  BY DEF Sweep, Return, job, ITyped, IPlan, TypeOK
<1>2. /\ \A path \in Path : path[1] # Extlinux => card'[path] = card[path]
      /\ \A path \in Path : path[1] = Extlinux => card'[path] = "none" \/ (faulted' /\ card'[path] = card[path])
  BY DEF Sweep, Swept
<1>3. IIntact' /\ IOutside' /\ ICopied' /\ IRest' /\ IReady'
  BY <1>1, <1>2, ConfigureAssumption DEF IFiles, IIntact, IReady, IOutside, ICopied, IRest, Laying, Applying, All
<1>4. \A path \in Path : card[path] = Laid(project, path)
  BY <1>1, AllLaid
<1>5. \A path \in Path : card'[path] = Final(project, path) \/ Unswept(project, path)'
  <2>1. TAKE path \in Path
  <2>2. CASE path[1] # Extlinux
    BY <1>1, <1>2, <1>4, <2>2 DEF Final
  <2>3. CASE path[1] = Extlinux
    <3>1. card[path] = before[1][path]
      BY <1>4, <2>3, ConfigureAssumption DEF Laid
    <3>2. QED
      BY <1>1, <1>2, <2>3, <3>1 DEF Final, Unswept
  <2>4. QED
    BY <2>2, <2>3
<1>6. Placed'
  <2>1. \A path : Final(project, path)' = Final(project, path)
    BY <1>1, FinalStays
  <2>2. QED
    BY <1>5, <2>1 DEF Placed
<1>7. QED
  BY <1>3, <1>6 DEF IFiles, IPlaced

(* The rest of the worker's and the clients' steps.                         *)
LEMMA FilesSinkAnswered ==
  ASSUME IInv, IFiles, Sink \/ Answered
  PROVE  IFiles'
<1>1. /\ pc \in {"sink", "wait"} /\ result = "none" /\ pc' \in {"wait", "done"}
      /\ card' = card /\ before' = before /\ project' = project /\ dryRun' = dryRun /\ next' = next
  BY DEF Sink, Answered, Goto, Return, cardVars, hist, job, IInv, IResult, Applying
<1>2. faulted => faulted'
  BY Zenon DEF Sink, Answered, hist
<1>3. IIntact' /\ IOutside' /\ ICopied' /\ IRest' /\ IReady'
  BY <1>1 DEF IFiles, IIntact, IReady, IOutside, ICopied, IRest, Laying, Applying, All
<1>4. Placed'
  BY <1>1, <1>2, PlacedStays DEF IFiles, IPlaced
<1>5. QED
  BY <1>3, <1>4 DEF IFiles, IPlaced

LEMMA FilesOther ==
  ASSUME IInv, IFiles, OpenBoot \/ Find \/ Check \/ OpenDialog \/ Finished \/ Reject \/ Exit
  PROVE  IFiles'
<1>1. card' = card /\ before' = before /\ (faulted => faulted')
  BY DEF OpenBoot, Find, Check, OpenDialog, Finished, Reject, Exit, cardVars, hist
<1>2. pc' \notin Applying
  BY DEF OpenBoot, Find, Check, OpenDialog, Finished, Reject, Exit, Goto, Return, Applying
<1>3. Applied' => Applied /\ project' = project
  <2>1. CASE OpenBoot \/ Find
    BY <2>1 DEF OpenBoot, Find, Goto, Return, IInv, IResult, Planning, Applied
  <2>2. CASE Check
    BY <2>2 DEF Check, Goto, Return, job, IInv, IResult, Planning, Applied
  <2>3. CASE OpenDialog \/ Finished \/ Reject \/ Exit
    BY <2>3 DEF OpenDialog, Finished, Reject, Exit, job, Applied
  <2>4. QED
    BY <2>1, <2>2, <2>3
<1>4. QED
  BY <1>1, <1>2, <1>3, FilesAside

(* A kill in a copy or a sweep leaves a card that nothing is said of.       *)
LEMMA FilesKill ==
  ASSUME ITyped, IInv, IFiles, Kill
  PROVE  IFiles'
<1>1. /\ before' = before /\ project' = project /\ dryRun' = dryRun /\ result' = result
      /\ pc' = "off" /\ faulted'
  BY DEF Kill, job
<1>2. CASE card' = card
  <2>1. pc' \notin Applying /\ (Applied' => Applied /\ project' = project /\ (faulted => faulted'))
    BY <1>1 DEF Applying, Applied
  <2>2. QED
    BY <1>1, <1>2, <2>1, FilesAside
<1>3. CASE card' # card
  <2>1. ~Applied'
    BY <1>1, <1>3, KilledCard DEF IInv, IResult, Applying, Applied
  <2>2. IIntact'
    BY <1>1, KilledCard DEF IFiles, IIntact
  <2>3. QED
    BY <1>1, <2>1, <2>2 DEF IFiles, IReady, IOutside, ICopied, IRest, Laying, IPlaced, Applying
<1>4. QED
  BY <1>2, <1>3

LEMMA FilesNext == ITyped /\ IInv /\ IFiles /\ [Next]_vars => IFiles'
<1> SUFFICES ASSUME ITyped, IInv, IFiles, [Next]_vars PROVE IFiles'
  OBVIOUS
<1>1. CASE Worker
  BY <1>1, FilesOther, FilesPreflight, FilesCopy, FilesCopiesDone, FilesMoveConf, FilesSweep,
     FilesSinkAnswered DEF Worker
<1>2. CASE Writer \/ OrphanStops \/ UNCHANGED vars
  <2>1. UNCHANGED <<card, before, pc, project, dryRun, next, result>> /\ faulted' = faulted
    BY <1>2 DEF Writer, OrphanStops, vars, cardVars, job, hist
  <2>2. QED
    BY <2>1, FilesUnchanged
<1>3. CASE CmdConfigure \/ RunConfigure
  BY <1>3, FilesStart
<1>4. CASE OpenDialog \/ Finished \/ Reject \/ Exit \/ Kill
  BY <1>4, FilesOther, FilesKill
<1>5. QED
  BY <1>1, <1>2, <1>3, <1>4 DEF Next

-----------------------------------------------------------------------------
(* The raw write.  Ours runs only while the worker waits for it, and writes *)
(* what the project's preloader holds; two writers never hold the partition *)
(* together; and from our last byte to the next configuration the partition *)
(* holds that preloader, unless an orphan opened it after the answer.       *)
IOurs == writer["ours"].phase # "none" => pc = "wait" /\ writer["ours"].dir = card[project.preloader]
Writing(w) == writer[w].phase \in {"opened", "copied"}
IExclusive == ~(Writing("ours") /\ Writing("orphan"))
ISlot ==
  ~late /\ project.intel /\ (writer["ours"].phase = "ok" \/ Applied) =>
    slot = card[project.preloader] /\ ~Writing("orphan")

IWrites == IOurs /\ IExclusive /\ ISlot

LEMMA WritesInit == Init => IWrites
<1> SUFFICES ASSUME Init PROVE IWrites
  OBVIOUS
<1>1. writer["ours"] = Idle /\ writer["orphan"] = Idle /\ result = "none"
  BY DEF Init, Who
<1>2. QED
  BY <1>1 DEF IWrites, IOurs, IExclusive, ISlot, Writing, Applied, Idle

LEMMA AppliedIsOver ==
  ASSUME ITyped, IInv, Applied
  PROVE  pc \in {"done", "idle", "off"}
  BY DEF ITyped, TypeOK, IInv, IResult, Steps, Planning, Applying, Applied

(* Before the sink nothing of ours is under way, and no Intel project is    *)
(* answered for.                                                            *)
LEMMA WritesBefore ==
  ASSUME ITyped, IInv, IWrites, Worker, ~Sink, ~Answered
  PROVE  IWrites'
<1>1. /\ pc \in (Planning \cup Applying) \ {"wait"} /\ writer' = writer /\ result = "none"
  <2>1. pc \in (Planning \cup Applying) \ {"wait"} /\ writer' = writer
    BY DEF Worker, OpenBoot, Find, Check, Preflight, Copy, CopiesDone, MoveConf, Sweep, Planning, Applying
  <2>2. QED
    BY <2>1 DEF IInv, IResult
<1>2. writer["ours"].phase = "none"
  BY <1>1 DEF IWrites, IOurs
<1>3. ~(project'.intel /\ Applied')
  <2>1. CASE OpenBoot \/ Find \/ Preflight \/ Copy \/ CopiesDone \/ MoveConf
    <3>1. result' # "ok"
      BY <1>1, <2>1 DEF OpenBoot, Find, Preflight, Copy, CopiesDone, MoveConf, Goto, Return
    <3>2. QED
      BY <3>1 DEF Applied
  <2>2. CASE Check
    <3>1. result' = "ok" => dryRun'
      BY <1>1, <2>2, Zenon DEF Check, Goto, Return, job
    <3>2. QED
      BY <3>1 DEF Applied
  <2>3. CASE Sweep
    BY <2>3 DEF Sweep, job, ITyped, IPlan
  <2>4. QED
    BY <2>1, <2>2, <2>3 DEF Worker
<1>4. QED
  BY <1>1, <1>2, <1>3 DEF IWrites, IOurs, IExclusive, ISlot, Writing

LEMMA WritesSink ==
  ASSUME ITyped, IInv, IWrites, Sink
  PROVE  IWrites'
<1>1. /\ pc = "sink" /\ result = "none" /\ writer \in [Who -> [phase : Phases, dir : Bytes]]
      /\ card' = card /\ project' = project
      /\ result' # "ok"
  BY DEF Sink, Goto, Return, cardVars, job, IInv, IResult, Applying, ITyped, TypeOK
<1>2. writer["ours"].phase = "none"
  BY <1>1 DEF IWrites, IOurs
<1>3. \/ writer' = writer
      \/ /\ pc' = "wait" /\ writer'["orphan"] = writer["orphan"]
         /\ writer'["ours"].phase \in {"open", "posted"}
         /\ writer'["ours"].dir = card[project.preloader]
  BY <1>1 DEF Sink, Goto, Who
<1>4. QED
  BY <1>1, <1>2, <1>3 DEF IWrites, IOurs, IExclusive, ISlot, Writing, Applied

(* The answer is that of a write that left its preloader on the partition.  *)
LEMMA WritesAnswered ==
  ASSUME ITyped, IWrites, Answered
  PROVE  IWrites'
<1>1. /\ writer'["ours"].phase = "none" /\ writer'["orphan"] = writer["orphan"]
      /\ card' = card /\ slot' = slot /\ project' = project /\ late' = late
      /\ result' = "ok" => writer["ours"].phase = "ok"
  BY DEF Answered, Return, cardVars, job, Idle, Who, ITyped, TypeOK
<1>2. Applied' => writer["ours"].phase = "ok"
  BY <1>1 DEF Applied
<1>3. ISlot'
  <2>1. Writing("orphan")' = Writing("orphan")
    BY <1>1 DEF Writing
  <2>2. QED
    BY <1>1, <1>2, <2>1 DEF IWrites, ISlot
<1>4. QED
  BY <1>1, <1>3 DEF IWrites, IOurs, IExclusive, Writing

(* Each writer, from the call to its last byte.                             *)
LEMMA WritesWriter ==
  ASSUME ITyped, IInv, IWrites, Writer
  PROVE  IWrites'
<1>1. UNCHANGED <<card, pc, project, dryRun, result>>
      /\ writer \in [Who -> [phase : Phases, dir : Bytes]]
  BY DEF Writer, job, ITyped, TypeOK
<1>2. Applied' = Applied
  BY <1>1 DEF Applied
<1>3. ASSUME NEW w \in Who, NEW ph, Phase(w, ph)
      PROVE  /\ writer'[w].phase = ph /\ writer'[w].dir = writer[w].dir
             /\ \A v \in Who : v # w => writer'[v] = writer[v]
  <2>1. writer' = [writer EXCEPT ![w] = [writer[w] EXCEPT !.phase = ph]]
    BY <1>3 DEF Phase
  <2>2. writer[w] \in [phase : Phases, dir : Bytes]
    BY <1>1
  <2>3. QED
    BY <1>1, <2>1, <2>2
<1>4. "ours" \in Who /\ "orphan" \in Who /\ "ours" # "orphan"
      /\ Other("ours") = "orphan" /\ Other("orphan") = "ours"
  BY DEF Who, Other
<1>5. CASE RunPosted
  <2>1. /\ writer'["ours"].phase = "prompt" /\ writer'["ours"].dir = writer["ours"].dir
        /\ writer'["orphan"] = writer["orphan"] /\ writer["ours"].phase = "posted"
    BY <1>3, <1>4, <1>5 DEF RunPosted
  <2>2. slot' = slot /\ late' = late
    BY <1>5 DEF RunPosted
  <2>3. QED
    BY <1>1, <1>2, <2>1, <2>2 DEF IWrites, IOurs, IExclusive, ISlot, Writing
<1>6. CASE Write("ours")
  <2> DEFINE o == writer["ours"].phase
             n == writer'["ours"].phase
  <2>1. /\ o # "none" /\ o # "ok"
        /\ n = "opened" => o = "open" /\ ~Writing("orphan")
        /\ n = "copied" => o = "opened"
        /\ n = "ok" => o = "copied" /\ slot' = writer["ours"].dir
        /\ writer'["ours"].dir = writer["ours"].dir /\ writer'["orphan"] = writer["orphan"]
    <3>1. CASE Prompt("ours")
      BY <1>3, <1>4, <3>1 DEF Prompt
    <3>2. CASE Open("ours")
      BY <1>3, <1>4, <3>2 DEF Open, Writing
    <3>3. CASE Overwrite("ours")
      BY <1>3, <1>4, <3>3 DEF Overwrite
    <3>4. CASE Complete("ours")
      BY <1>3, <1>4, <3>4 DEF Complete
    <3>5. QED
      BY <1>6, <3>1, <3>2, <3>3, <3>4 DEF Write
  <2>2. /\ writer["ours"].dir = card[project.preloader] /\ pc = "wait" /\ ~Applied
        /\ late => late'
    <3>1. late => late'
      BY <1>6, Zenon DEF Write, Prompt, Open, Overwrite, Complete
    <3>2. QED
      BY <2>1, <3>1, AppliedIsOver DEF IWrites, IOurs
  <2>3. IExclusive'
    BY <2>1 DEF IWrites, IExclusive, Writing
  <2>4. QED
    BY <1>1, <1>2, <2>1, <2>2, <2>3 DEF IWrites, IOurs, IExclusive, ISlot, Writing
<1>7. CASE Write("orphan")
  <2> DEFINE o == writer["orphan"].phase
             n == writer'["orphan"].phase
  <2>1. /\ writer'["ours"] = writer["ours"]
        /\ n = "opened" => o = "open" /\ ~Writing("ours") /\ late' = (late \/ AnswerGiven)
        /\ n = "copied" => o = "opened"
        /\ slot' = slot \/ Writing("orphan")
    BY <1>3, <1>4, <1>7 DEF Write, Prompt, Open, Overwrite, Complete, Writing
  <2>2. late => late'
    BY <1>7, Zenon DEF Write, Prompt, Open, Overwrite, Complete
  <2>3. writer["ours"].phase = "ok" \/ Applied => AnswerGiven
    BY AppliedIsOver DEF AnswerGiven
  <2>4. IExclusive'
    BY <2>1 DEF IWrites, IExclusive, Writing
  <2>5. ISlot'
    <3>1. SUFFICES ASSUME ~late', project.intel, writer["ours"].phase = "ok" \/ Applied
                   PROVE  slot' = card[project.preloader] /\ n \notin {"opened", "copied"}
      BY <1>1, <1>2, <2>1 DEF ISlot, Writing
    <3>2. slot = card[project.preloader] /\ ~Writing("orphan")
      BY <2>2, <3>1 DEF IWrites, ISlot
    <3>3. n # "opened"
      BY <2>1, <2>3, <3>1
    <3>4. QED
      BY <2>1, <3>2, <3>3 DEF Writing
  <2>6. QED
    BY <1>1, <2>1, <2>4, <2>5 DEF IWrites, IOurs
<1>8. CASE Buried
  <2>1. writer'["ours"] = writer["ours"] /\ writer'["orphan"].phase = "none"
        /\ slot' = slot /\ late' = late
    BY <1>1, <1>4, <1>8 DEF Buried, Idle
  <2>2. QED
    BY <1>1, <1>2, <2>1 DEF IWrites, IOurs, IExclusive, ISlot, Writing
<1>9. QED
  BY <1>5, <1>6, <1>7, <1>8 DEF Writer, OurWriter

(* A client starts, reports, leaves or dies.                                *)
LEMMA WritesClient ==
  ASSUME ITyped, IInv, IWrites,
         CmdConfigure \/ OpenDialog \/ RunConfigure \/ Finished \/ Reject \/ Exit \/ Kill \/ OrphanStops
  PROVE  IWrites'
<1>1. writer \in [Who -> [phase : Phases, dir : Bytes]] /\ "ours" \in Who /\ "orphan" \in Who
  BY DEF ITyped, TypeOK, Who
<1>2. CASE CmdConfigure \/ RunConfigure
  <2>1. pc \in {"off", "idle"} /\ writer' = writer /\ result' = "none"
    BY <1>2 DEF CmdConfigure, RunConfigure, Started, ITyped, TypeOK
  <2>2. writer["ours"].phase = "none"
    BY <2>1 DEF IWrites, IOurs
  <2>3. QED
    BY <2>1, <2>2 DEF IWrites, IOurs, IExclusive, ISlot, Writing, Applied
<1>3. CASE OpenDialog \/ Finished \/ Reject \/ Exit
  <2>1. /\ pc \in {"off", "idle", "done"}
        /\ UNCHANGED <<card, slot, project, dryRun, result, writer, late>>
    BY <1>3 DEF OpenDialog, Finished, Reject, Exit, cardVars, job, hist, ITyped, TypeOK
  <2>2. writer["ours"].phase = "none"
    BY <2>1 DEF IWrites, IOurs
  <2>3. QED
    BY <2>1, <2>2 DEF IWrites, IOurs, IExclusive, ISlot, Writing, Applied
<1>4. CASE Kill
  <2>1. UNCHANGED <<slot, project, dryRun, result, late>> /\ writer'["ours"].phase = "none"
        /\ (Applied => card' = card)
    <3>1. UNCHANGED <<slot, project, dryRun, result, late>> /\ writer'["ours"].phase = "none"
      BY <1>1, <1>4 DEF Kill, job, Idle
    <3>2. Applied => card' = card
      BY <1>4, KilledCard, AppliedIsOver
    <3>3. QED
      BY <3>1, <3>2
  <2>2. Applied => writer'["orphan"] = writer["orphan"]
    <3>1. Applied => writer["ours"].phase = "none"
      BY AppliedIsOver DEF IWrites, IOurs
    <3>2. QED
      BY <1>1, <1>4, <3>1 DEF Kill
  <2>3. QED
    BY <2>1, <2>2 DEF IWrites, IOurs, IExclusive, ISlot, Writing, Applied
<1>5. CASE OrphanStops
  <2>1. /\ UNCHANGED <<card, slot, pc, project, dryRun, result, late>>
        /\ writer'["ours"] = writer["ours"] /\ writer'["orphan"].phase = "none"
    BY <1>1, <1>5 DEF OrphanStops, cardVars, job, hist, Idle
  <2>2. QED
    BY <2>1 DEF IWrites, IOurs, IExclusive, ISlot, Writing, Applied
<1>6. QED
  BY <1>2, <1>3, <1>4, <1>5

LEMMA WritesNext == ITyped /\ IInv /\ IWrites /\ [Next]_vars => IWrites'
<1> SUFFICES ASSUME ITyped, IInv, IWrites, [Next]_vars PROVE IWrites'
  OBVIOUS
<1>1. CASE UNCHANGED vars
  BY <1>1 DEF vars, cardVars, job, hist, IWrites, IOurs, IExclusive, ISlot, Writing, Applied
<1>2. CASE Worker
  BY <1>2, WritesBefore, WritesSink, WritesAnswered DEF Worker
<1>3. QED
  BY <1>1, <1>2, WritesWriter, WritesClient DEF Next

-----------------------------------------------------------------------------
(* The dialog says "applied" of the last configuration, and only until it   *)
(* starts another or closes.                                                *)
IBanner == banner = "applied" => client = "gui" /\ pc = "idle" /\ Applied

LEMMA BannerNext == IBanner /\ [Next]_vars => IBanner'
<1> SUFFICES ASSUME IBanner, [Next]_vars PROVE IBanner'
  OBVIOUS
<1>1. CASE Worker
  <2>1. banner' = banner /\ pc # "idle"
    BY <1>1 DEF Worker, OpenBoot, Find, Check, Preflight, Copy, CopiesDone, MoveConf, Sweep, Sink, Answered
  <2>2. QED
    BY <2>1 DEF IBanner
<1>2. CASE Writer \/ OrphanStops \/ UNCHANGED vars
  BY <1>2 DEF Writer, OrphanStops, vars, job, IBanner, Applied
<1>3. CASE CmdConfigure \/ Exit
  BY <1>3 DEF CmdConfigure, Exit, IBanner
<1>4. CASE OpenDialog \/ RunConfigure \/ Reject \/ Kill
  BY <1>4 DEF OpenDialog, RunConfigure, Reject, Kill, IBanner
<1>5. CASE Finished
  <2>1. /\ client' = "gui" /\ pc' = "idle" /\ result' = result /\ dryRun' = dryRun
        /\ banner' = IF result # "ok" THEN "error" ELSE IF dryRun THEN "would" ELSE "applied"
    BY <1>5 DEF Finished, job
  <2>2. QED
    BY <2>1 DEF IBanner, Applied
<1>6. QED
  BY <1>1, <1>2, <1>3, <1>4, <1>5 DEF Next

(* What is reported as applied is on the card exactly: every path of BOOT   *)
(* is what the project makes of the card the configuration started on, its  *)
(* files are the image's own, and an Intel board finds its preloader,       *)
(* unless a helper that was left behind by a killed program came to the     *)
(* partition after the answer.                                              *)
THEOREM AppliedExactly == Spec => []AppliedIsExact
<1> DEFINE JInv == IInv /\ ITyped /\ IFiles /\ IWrites /\ IBanner
<1>1. Init => JInv
  BY IInit, TypeInit, FilesInit, WritesInit DEF Init, IBanner
<1>2. JInv /\ [Next]_vars => JInv'
  BY INext, TypeNext, FilesNext, WritesNext, BannerNext
<1>3. JInv => AppliedIsExact
  <2>1. SUFFICES ASSUME JInv, Said PROVE AppliedIsExact
    BY DEF AppliedIsExact
  <2>2. Applied
    BY <2>1 DEF Said, IBanner, Applied
  <2>3. Placed /\ IReady /\ IIntact /\ ISlot
    BY <2>1, <2>2 DEF IFiles, IPlaced, IWrites
  <2>4. \A b \in Names(project) :
          LET from == LastOf(project, b) IN from[1] \in Dir => before[1][from] = from[1]
    <3>1. TAKE b \in Names(project)
    <3>2. PICK k \in DOMAIN All : LastOf(project, b) = All[k]
      BY <2>1, LastOfType, SourcesType DEF ITyped, TypeOK, All
    <3>3. LastOf(project, b) \in Path /\ before[1][LastOf(project, b)] # "none"
      BY <2>2, <2>3, <3>2 DEF IReady
    <3>4. QED
      BY <2>3, <3>3 DEF IIntact
  <2>5. project.intel /\ ~late =>
          LET from == project.preloader
          IN slot = Final(project, from) /\ (from[1] \in Dir => slot = from[1])
    <3>1. SUFFICES ASSUME project.intel, ~late
                   PROVE  /\ slot = Final(project, project.preloader)
                          /\ project.preloader[1] \in Dir => slot = project.preloader[1]
      OBVIOUS
    <3>2. slot = card[project.preloader]
      BY <2>2, <2>3, <3>1 DEF ISlot
    <3>3. project.preloader \in Path /\ before[1][project.preloader] # "none"
      BY <2>2, <2>3, <3>1 DEF IReady
    <3>4. card[project.preloader] = Final(project, project.preloader)
      BY <2>3, <3>1, <3>3 DEF Placed, Unswept
    <3>5. QED
      BY <2>3, <3>2, <3>3, <3>4 DEF IIntact
  <2>6. QED
    BY <2>3, <2>4, <2>5 DEF AppliedIsExact, Placed
<1>4. QED
  BY <1>1, <1>2, <1>3, PTL DEF Spec
=============================================================================
