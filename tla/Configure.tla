------------------------------ MODULE Configure ------------------------------
(***************************************************************************)
(* Configuring a flashed card for one hardware project: `kli configure` and *)
(* the Configure dialog, ConfigurationService::configureProject under both, *)
(* and the preloader write it delegates: in its own process for the CLI, to *)
(* an elevated helper the GUI thread runs while the worker waits on a       *)
(* promise for the dialog.                                                  *)
(*                                                                          *)
(* The BOOT partition maps a path, <<directory, file name>>, to the         *)
(* directory its bytes were shipped in.  What the file system shows is      *)
(* modelled, not when its cache reaches the card.  Any file operation may   *)
(* fail; the program may be killed at any step, which orphans its helper,   *)
(* and be started again.  Only the order of the two ends of a raw write     *)
(* matters here: what writePreloader does in between is PreloaderWrite.     *)
(***************************************************************************)
EXTENDS Integers, Sequences

CONSTANTS
  Dir, Root, Extlinux,   \* the manifests' directories, BOOT's root, extlinux/
  Base, Conf,            \* file names; extlinux.conf
  NoFile, NoPart,        \* no path, no partition
  Entry,                 \* the elements of the manifests' projects arrays
  Shipped,               \* the paths the image comes with
  Table,                 \* the partition tables lsblk may list
  MaxRuns                \* bound: configurations started

Place == Dir \cup {Root, Extlinux}
Path == Place \X Base
Bytes == Dir \cup {Root, Extlinux, "none", "torn"}

ASSUME ConfigureAssumption ==
  /\ Conf \in Base /\ Shipped \subseteq Path
  /\ Root \notin Dir /\ Extlinux \notin Dir /\ Root # Extlinux
  /\ NoFile \notin Path
  /\ MaxRuns \in Nat
  /\ Entry # {}
  /\ \A e \in Entry : /\ e.intel \in BOOLEAN /\ e.named \in BOOLEAN
                      /\ e.kernel \in Path \cup {NoFile} /\ e.files \in Seq(Path)
                      /\ e.preloader \in Path \cup {NoFile}

VARIABLES
  card,      \* BOOT: what each path holds
  slot,      \* the bootloader partition: whose preloader it holds
  table,     \* the card's partitions, as listed
  wired,     \* the platform has a raw preloader write
  mounted,   \* BOOT is mounted
  owned,     \* this client mounted it and must unmount it
  client,    \* who is configuring: "none", "cli" or "gui"
  pc,        \* where it stands
  project,   \* the Project being configured
  dryRun,    \* ConfigureOptions::dryRun
  next,      \* index of the next copy
  result,    \* what configureProject returned last
  writer,    \* the raw writes under way: our own, and one a killed client left
  banner,    \* what the dialog says
  runs,      \* configurations started
  before,    \* history: card and slot when the last one started
  faulted,   \* history: an operation failed, or the program was killed, since
  late       \* history: an orphan opened the partition after the answer

cardVars == <<card, slot>>
hist == <<before, faulted, late>>
job == <<project, dryRun, next>>
env == <<table, wired, runs>>
mountVars == <<mounted, owned>>
vars == <<cardVars, env, mountVars, client, pc, job, result, writer, banner, hist>>

-----------------------------------------------------------------------------
(* Layout.cpp.  A partition is [fs, hint, mounted, size]; hint tells whether *)
(* its label contains the one looked for.                                   *)
FirstOf(t, Test(_)) ==
  LET hits == {k \in DOMAIN t : Test(t[k])}
  IN IF hits = {} THEN NoPart ELSE t[CHOOSE k \in hits : \A m \in hits : k <= m]

(* The first partition of the type whose label matches, else of the type.   *)
PickFilesystem(t, fs) ==
  LET Best(p) == p.fs = fs /\ p.hint
      Some(p) == p.fs = fs
  IN IF FirstOf(t, Best) # NoPart THEN FirstOf(t, Best) ELSE FirstOf(t, Some)

(* The first of the smallest partitions that are neither formatted nor      *)
(* mounted.                                                                 *)
PickBootloader(t) ==
  LET Raw(p) == p.fs = "" /\ ~p.mounted
      Least(p) == Raw(p) /\ \A k \in DOMAIN t : Raw(t[k]) => p.size <= t[k].size
  IN FirstOf(t, Least)

Boot == PickFilesystem(table, "vfat")
Bootloader == PickBootloader(table)

-----------------------------------------------------------------------------
(* listProjects: the elements with a name and a board; findProject takes    *)
(* one whose key matches (the sort that orders equal keys is not stable).   *)
Projects == {e \in Entry : e.named}
FindProject(name) == {e \in Projects : e.name = name}

(* The plan: the kernel, then the files, each to BOOT's root by its name.   *)
Sources(p) == <<p.kernel>> \o p.files
Dest(path) == <<Root, path[2]>>
IsFile(path) == path # NoFile /\ card[path] # "none"

Idle == [phase |-> "none", dir |-> "none"]
Who == {"ours", "orphan"}
Phases == {"none", "posted", "prompt", "open", "opened", "copied", "ok", "error"}
Steps == {"off", "openBoot", "find", "idle", "check", "preflight", "copy",
          "extlinux", "sink", "wait", "sweep", "done"}
Results == {"none", "ok", "NotKuiper2", "NotFound", "Unsupported", "Preflight",
            "IoError", "NoSlot", "WriteFailed"}
Refusals == {"NotKuiper2", "NotFound", "Unsupported", "Preflight"}

TypeOK ==
  /\ card \in [Path -> Bytes] /\ slot \in Bytes
  /\ table \in Table /\ wired \in BOOLEAN
  /\ mounted \in BOOLEAN /\ owned \in BOOLEAN /\ (owned => mounted)
  /\ client \in {"none", "cli", "gui"} /\ pc \in Steps
  /\ (client = "none") = (pc = "off")
  /\ project \in Entry /\ dryRun \in BOOLEAN
  /\ next \in 1 .. Len(Sources(project)) + 1
  /\ result \in Results
  /\ writer \in [Who -> [phase : Phases, dir : Bytes]]
  /\ banner \in {"none", "error", "would", "applied"}
  /\ runs \in 0 .. MaxRuns

Init ==
  /\ card = [path \in Path |-> IF path \in Shipped THEN path[1] ELSE "none"]
  /\ slot = "none"
  /\ table \in Table /\ wired \in BOOLEAN
  /\ mounted = (Boot # NoPart /\ Boot.mounted)
  /\ owned = FALSE
  /\ client = "none" /\ pc = "off"
  /\ project = (CHOOSE e \in Entry : TRUE) /\ dryRun = TRUE /\ next = 1 /\ result = "none"
  /\ writer = [w \in Who |-> Idle]
  /\ banner = "none" /\ runs = 0
  /\ before = <<card, slot>> /\ faulted = FALSE /\ late = FALSE

-----------------------------------------------------------------------------
Goto(step) == pc' = step /\ UNCHANGED result
Return(r)  == pc' = "done" /\ result' = r

Started(p, dry) ==
  /\ project' = p /\ dryRun' = dry /\ next' = 1
  /\ result' = "none"
  /\ runs < MaxRuns /\ runs' = runs + 1
  /\ before' = <<card, slot>> /\ faulted' = FALSE /\ late' = FALSE

(* mount(): a mounted partition is borrowed, another is mounted, by udisks  *)
(* or by mount(2), and then owned, or the mount fails.                      *)
MountBoot ==
  IF mounted THEN UNCHANGED mountVars ELSE mounted' = TRUE /\ owned' = TRUE

(* MountedPartition's destructor.                                           *)
Release == /\ owned' = FALSE
           /\ mounted' = (mounted /\ ~owned)

(* kli configure --project, --board, --dry-run.                             *)
CmdConfigure ==
  /\ client = "none"
  /\ client' = "cli" /\ pc' = "openBoot"
  /\ \E p \in Entry, dry \in BOOLEAN : Started(p, dry)
  /\ UNCHANGED <<cardVars, table, wired, mountVars, writer, banner>>

(* openBoot: the drive, its layout, its BOOT partition, the mount.          *)
OpenBoot ==
  /\ pc = "openBoot"
  /\ \/ Return("NotFound") /\ UNCHANGED mountVars  \* no such drive, or no list
     \/ Boot = NoPart /\ Return("NotKuiper2") /\ UNCHANGED mountVars
     \/ Boot # NoPart /\ Goto("find") /\ MountBoot
     \/ Boot # NoPart /\ ~mounted /\ Return("NotFound") /\ UNCHANGED mountVars
  /\ UNCHANGED <<cardVars, job, writer, hist>>

Find ==
  /\ pc = "find"
  /\ \/ \E p \in FindProject(project.name) : project' = p /\ Goto("check")
     \/ FindProject(project.name) = {} /\ Return("NotFound") /\ UNCHANGED project
     \/ Return("NotKuiper2") /\ UNCHANGED project  \* BOOT is no longer a directory
  /\ UNCHANGED <<cardVars, mountVars, dryRun, next, writer, hist>>

\* Mutant: the preflight and the copies do not ask for the dry run.
CheckForgetsDryRun ==
  /\ pc = "check"
  /\ \/ Return("NotKuiper2")
     \/ project.kernel = NoFile /\ Return("NotFound")
     \/ project.kernel # NoFile /\ Goto("preflight")
  /\ UNCHANGED <<cardVars, mountVars, job, writer, hist>>

(* configureProject up to the dry run's return.                             *)
Check ==
  /\ pc = "check"
  /\ \/ Return("NotKuiper2")  \* BOOT is no longer a directory
     \/ project.kernel = NoFile /\ Return("NotFound")
     \/ project.kernel # NoFile /\ project.intel /\ ~wired /\ Return("Unsupported")
     \/ /\ project.kernel # NoFile /\ (project.intel => wired)
        /\ IF dryRun THEN Return("ok") ELSE Goto("preflight")
  /\ UNCHANGED <<cardVars, mountVars, job, writer, hist>>

(* Every source, and an Intel project's preloader, is a regular file.       *)
Preflight ==
  /\ pc = "preflight"
  /\ IF /\ \A k \in DOMAIN Sources(project) : IsFile(Sources(project)[k])
        /\ project.intel => IsFile(project.preloader)
     THEN Goto("copy") ELSE Return("Preflight")
  /\ UNCHANGED <<cardVars, mountVars, job, writer, hist>>

(* One fs::copy_file, overwriting.  A copy onto itself is an error, and one *)
(* that fails, or is killed, half-way leaves the destination cut short.     *)
Torn(path) == [card EXCEPT ![Dest(path)] = "torn"]

Copy ==
  /\ pc = "copy"
  /\ next <= Len(Sources(project))
  /\ LET from == Sources(project)[next]
         to == Dest(from)
     IN \/ /\ from # to
           /\ card' = [card EXCEPT ![to] = card[from]]
           /\ next' = next + 1
           /\ UNCHANGED <<pc, result, faulted>>
        \/ /\ from # to
           /\ card' \in {card, Torn(from)}
           /\ Return("IoError") /\ faulted' = TRUE /\ UNCHANGED next
        \/ from = to /\ Return("IoError") /\ UNCHANGED <<card, next, faulted>>
  /\ UNCHANGED <<slot, mountVars, project, dryRun, writer, before, late>>

CopiesDone ==
  /\ pc = "copy"
  /\ next > Len(Sources(project))
  /\ Goto(IF project.intel THEN "extlinux" ELSE "sweep")
  /\ UNCHANGED <<cardVars, mountVars, job, writer, hist>>

(* Intel boots from extlinux/: a root extlinux.conf moves there.            *)
MoveConf ==
  /\ pc = "extlinux"
  /\ \/ /\ IsFile(<<Root, Conf>>)
        /\ card' = [card EXCEPT ![<<Extlinux, Conf>>] = card[<<Root, Conf>>],
                                ![<<Root, Conf>>] = "none"]
        /\ Goto("sink") /\ UNCHANGED faulted
     \/ /\ IsFile(<<Root, Conf>>)
        /\ Return("IoError") /\ faulted' = TRUE /\ UNCHANGED card
     \/ ~IsFile(<<Root, Conf>>) /\ Goto("sink") /\ UNCHANGED <<card, faulted>>
  /\ UNCHANGED <<slot, mountVars, job, writer, before, late>>

(* Other boards must not find extlinux/; the removal is best effort.        *)
Swept(kept) ==
  [path \in Path |-> IF path[1] = Extlinux /\ path[2] \notin kept THEN "none" ELSE card[path]]

Sweep ==
  /\ pc = "sweep"
  /\ \/ card' = Swept({}) /\ UNCHANGED faulted
     \/ \E kept \in SUBSET Base : card' = Swept(kept) /\ faulted' = TRUE
  /\ Return("ok")
  /\ UNCHANGED <<slot, mountVars, job, writer, before, late>>

(* The sink.  Without a bootloader partition it refuses; the CLI writes in  *)
(* its own process, the GUI's worker posts the call and waits.              *)
Sink ==
  /\ pc = "sink"
  /\ IF Bootloader = NoPart
     THEN Return("NoSlot") /\ UNCHANGED writer
     ELSE /\ Goto("wait")
          /\ writer' = [writer EXCEPT !["ours"] =
               [phase |-> IF client = "cli" THEN "open" ELSE "posted",
                dir |-> card[project.preloader]]]
  /\ UNCHANGED <<cardVars, mountVars, job, hist>>

(* The writer has answered: the promise is set, or the call returns.        *)
Answered ==
  /\ pc = "wait"
  /\ writer["ours"].phase \in {"ok", "error"}
  /\ Return(IF writer["ours"].phase = "ok" THEN "ok" ELSE "WriteFailed")
  /\ faulted' = (faulted \/ writer["ours"].phase = "error")
  /\ writer' = [writer EXCEPT !["ours"] = Idle]
  /\ UNCHANGED <<cardVars, mountVars, job, before, late>>

Worker ==
  /\ \/ OpenBoot \/ Find \/ Check \/ Preflight \/ Copy \/ CopiesDone
     \/ MoveConf \/ Sweep \/ Sink \/ Answered
  /\ UNCHANGED <<env, client, banner>>

-----------------------------------------------------------------------------
(* writePreloader, from the call to its answer.                             *)
Phase(w, p) == writer' = [writer EXCEPT ![w].phase = p]
Other(w) == CHOOSE v \in Who : v # w
AnswerGiven == pc \in {"done", "idle", "off"} \/ writer["ours"].phase = "ok"

(* The posted call runs: a HelperProcess is created and asks for a password.*)
RunPosted ==
  /\ writer["ours"].phase = "posted"
  /\ Phase("ours", "prompt")
  /\ UNCHANGED <<slot, late>>

\* Mutant: a helper that could not be started reports no end.
PromptUnanswered(w) ==
  /\ writer[w].phase = "prompt"
  /\ Phase(w, "open") \/ Phase(w, "none")
  /\ UNCHANGED <<slot, late>>

(* The prompt is accepted, dismissed, or the helper cannot be started.      *)
Prompt(w) ==
  /\ writer[w].phase = "prompt"
  /\ Phase(w, "open") \/ Phase(w, "error")
  /\ UNCHANGED <<slot, late>>

\* Mutant: the partition is opened without O_EXCL.
OpenShared(w) ==
  /\ writer[w].phase = "open"
  /\ Phase(w, "opened") \/ Phase(w, "error")
  /\ late' = (late \/ (w = "orphan" /\ AnswerGiven))
  /\ UNCHANGED slot

(* The preloader is a file; guard, unmount and exclusive open: while another *)
(* writer holds the partition the retries run out.                          *)
Open(w) ==
  /\ writer[w].phase = "open"
  /\ \/ /\ writer[w].dir # "none" /\ writer[Other(w)].phase \notin {"opened", "copied"}
        /\ Phase(w, "opened")
        /\ late' = (late \/ (w = "orphan" /\ AnswerGiven))
     \/ Phase(w, "error") /\ UNCHANGED late
  /\ UNCHANGED slot

(* The first bytes reach the partition, or nothing does.                    *)
Overwrite(w) ==
  /\ writer[w].phase = "opened"
  /\ \/ Phase(w, "copied") /\ slot' = "torn"
     \/ Phase(w, "error") /\ UNCHANGED slot
  /\ UNCHANGED late

(* The last bytes are there and read back, or the write is given up.        *)
Complete(w) ==
  /\ writer[w].phase = "copied"
  /\ \/ Phase(w, "ok") /\ slot' = writer[w].dir
     \/ Phase(w, "error") /\ UNCHANGED slot
  /\ UNCHANGED late

(* The orphan's answer goes to nobody.                                      *)
Buried ==
  /\ writer["orphan"].phase \in {"ok", "error"}
  /\ writer' = [writer EXCEPT !["orphan"] = Idle]
  /\ UNCHANGED <<slot, late>>

Write(w) == Prompt(w) \/ Open(w) \/ Overwrite(w) \/ Complete(w)

OurWriter == RunPosted \/ Write("ours")
Writer ==
  /\ OurWriter \/ Write("orphan") \/ Buried
  /\ UNCHANGED <<card, env, mountVars, client, pc, job, result, banner, before, faulted>>

-----------------------------------------------------------------------------
(* The dialog.  It opens on a mount the window holds; its buttons, table    *)
(* and close button are disabled from runConfigure to the finished handler. *)
OpenDialog ==
  /\ client = "none" /\ Boot # NoPart /\ Projects # {}
  /\ runs < MaxRuns
  /\ client' = "gui" /\ pc' = "idle" /\ banner' = "none"
  /\ MountBoot
  /\ UNCHANGED <<cardVars, env, job, result, writer, hist>>

(* Apply, or Preview changes, on the selected row.                          *)
RunConfigure ==
  /\ pc = "idle"
  /\ pc' = "check" /\ banner' = "none"
  /\ \E p \in Projects, dry \in BOOLEAN : Started(p, dry)
  /\ UNCHANGED <<cardVars, table, wired, mountVars, client, writer>>

(* The handler of the task's finished signal.                               *)
Finished ==
  /\ client = "gui" /\ pc = "done"
  /\ pc' = "idle"
  /\ banner' = IF result # "ok" THEN "error" ELSE IF dryRun THEN "would" ELSE "applied"
  /\ UNCHANGED <<cardVars, env, mountVars, client, job, result, writer, hist>>

(* Cancel, Done or Escape: refused while the task is busy, not while its    *)
(* finished signal is still to be delivered.                                *)
Reject ==
  /\ client = "gui" /\ pc \in {"idle", "done"}
  /\ client' = "none" /\ pc' = "off" /\ banner' = "none"
  /\ Release
  /\ UNCHANGED <<cardVars, env, job, result, writer, hist>>

(* cmdConfigure prints and returns.                                         *)
Exit ==
  /\ client = "cli" /\ pc = "done"
  /\ client' = "none" /\ pc' = "off"
  /\ Release
  /\ UNCHANGED <<cardVars, env, job, result, writer, banner, hist>>

(* The program is killed: a copy or a sweep stays as far as it came, its    *)
(* mount stays, its own raw write stops, its helper goes on.  Bound: one    *)
(* orphan at a time.                                                        *)
CutShort ==
  \/ card' = card
  \/ LET all == Sources(project)
     IN /\ pc = "copy" /\ next <= Len(all) /\ all[next] # Dest(all[next])
        /\ card' = Torn(all[next])
  \/ pc = "sweep" /\ \E kept \in SUBSET Base : card' = Swept(kept)

Kill ==
  /\ client # "none"
  /\ CutShort
  /\ LET mine == writer["ours"]
     IN IF client = "gui" /\ mine.phase \notin {"none", "posted"}
        THEN writer["orphan"].phase = "none" /\ writer' = [ours |-> Idle, orphan |-> mine]
        ELSE writer' = [writer EXCEPT !["ours"] = Idle]
  /\ client' = "none" /\ pc' = "off" /\ banner' = "none"
  /\ owned' = FALSE /\ faulted' = TRUE
  /\ UNCHANGED <<slot, env, mounted, job, result, before, late>>

(* An orphan that has seen the end of its input gives up at its next poll.  *)
OrphanStops ==
  /\ writer["orphan"].phase \in {"open", "opened", "copied"}
  /\ writer' = [writer EXCEPT !["orphan"] = Idle]
  /\ UNCHANGED <<cardVars, env, mountVars, client, pc, job, result, banner, hist>>

Next ==
  \/ Worker \/ Writer
  \/ CmdConfigure \/ Exit
  \/ OpenDialog \/ RunConfigure \/ Finished \/ Reject
  \/ Kill \/ OrphanStops

(* The worker thread runs, the GUI thread serves its queue, the user        *)
(* answers the prompt and the helper ends.                                  *)
Fairness ==
  /\ WF_vars(Worker)
  /\ WF_vars(OurWriter /\ UNCHANGED <<card, env, mountVars, client, pc, job, result,
                                      banner, before, faulted>>)
  /\ WF_vars(Finished) /\ WF_vars(Exit)

Spec == Init /\ [][Next]_vars
FairSpec == Spec /\ Fairness

-----------------------------------------------------------------------------
Said == \/ client = "gui" /\ pc = "idle" /\ banner = "applied"
        \/ client = "cli" /\ pc = "done" /\ result = "ok" /\ ~dryRun

(* What of a project's files ends up in the root under name b.              *)
Names(p) == {Sources(p)[k][2] : k \in DOMAIN Sources(p)}
LastOf(p, b) ==
  LET all == Sources(p)
      ks == {k \in DOMAIN all : all[k][2] = b}
  IN all[CHOOSE k \in ks : \A m \in ks : k >= m]

(* The card as it was when the configuration started, with p's files laid   *)
(* over its root; and then with extlinux.conf where an Intel board boots    *)
(* from, and with no extlinux/ for any other.                               *)
Laid(p, path) == IF path[1] = Root /\ path[2] \in Names(p)
                 THEN before[1][LastOf(p, path[2])] ELSE before[1][path]

Final(p, path) ==
  IF p.intel
  THEN IF path = <<Root, Conf>> THEN "none"
       ELSE IF path = <<Extlinux, Conf>> /\ Laid(p, <<Root, Conf>>) # "none"
            THEN Laid(p, <<Root, Conf>>) ELSE Laid(p, path)
  ELSE IF path[1] = Extlinux THEN "none" ELSE Laid(p, path)

(* What a best-effort sweep could not remove stays what it was.             *)
Unswept(p, path) == ~p.intel /\ path[1] = Extlinux /\ faulted /\ card[path] = before[1][path]

(* "Configuration applied.", or an exit of 0, is said of exactly this card, *)
(* whatever an earlier configuration that failed, or was killed with its    *)
(* helper still writing, had left on it: every file of the project is the   *)
(* one the image ships, the board finds the project's own preloader, and    *)
(* nothing that is not the project's has changed.  What is not in its list  *)
(* of files stays what it was, an extlinux.conf that is moved included.     *)
AppliedIsExact ==
  Said =>
    /\ \A path \in Path : card[path] = Final(project, path) \/ Unswept(project, path)
    /\ \A b \in Names(project) :
         LET from == LastOf(project, b)
         IN from[1] \in Dir => before[1][from] = from[1]
    /\ project.intel /\ ~late =>
         LET from == project.preloader
         IN slot = Final(project, from) /\ (from[1] \in Dir => slot = from[1])

(* A configuration refused for its project, its card or its platform, and a *)
(* dry run, leave BOOT as an earlier configuration, or its failure, left it.*)
RefusedLeavesCard ==
  /\ pc \in {"done", "idle"}
  /\ result \in Refusals \/ (result = "ok" /\ dryRun)
  => card = before[1]

(* The dialog gets its worker's answer, through a password prompt and a     *)
(* helper, unless the program is killed: it never blocks for good.          *)
ConfigureAnswered == (client = "gui" /\ pc = "wait") ~> (pc \in {"idle", "off"})

=============================================================================
