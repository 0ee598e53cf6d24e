# A verification project for kuiper-imager

TLA+ modules for the parts of kuiper-imager that decide what becomes of a card:
writing an image, choosing and opening the disk, the raw-device engine, the
preloader write, the privileged session of the GUI on either platform, the
window's event loop, configuring a card for a project, and fetching an image.
TLC checks them on small instances, TLAPS proves the central results for every
value of the constants. `PROJECT.json` names the source lines behind each
definition (`map`), the runs, the mutants that show each property can fail, the
hazards and the theorems.

## 1. Inventory

Sources are under `src/src/`; `core/src` is the library, `gui`, `cli` and
`helper` are its three programs.

| Part | State | Operations | Talks to |
|---|---|---|---|
| `DriveService::flash` (core/src/DriveService.cpp) | bytes written, deferred head, two hashes | guard, stat, unmount, open, wipe, stream, sync, verify, commit head, re-wipe | backend, raw device, libarchive, cancel token |
| `DriveService::writePreloader` | size, bytes written, hash | stat, guard, open, copy, sync, verify | as above, a file on BOOT |
| `guardWriteTarget`, Linux backend | what lsblk lists | classify, `unmountAll`, `openForWrite` (O_EXCL, 25 tries) | kernel, desktop auto-mount |
| `AlignedRawDevice` | offset, staging buffer, read-ahead | seek, write, read, flushAndSync, wipeSignatures | `BlockIo` of the platform |
| `HelperProcess` + `PkexecHelperSession` | line buffer, result, terminal flag, done flag | start, feed, cancel, finished, failed start | pkexec, pipes |
| `kuiper-imager-helper` | `g_cancel`, the watcher thread | one verb per process: flash, write-preloader | stdio or a named pipe |
| `UacHelperSession`, `PipeChannel` (Windows) | pipe, socket, PID, pending cancel | launch, connect, check PID, drain, finish once | Windows |
| `ConsoleWindow`, `BackgroundTask` | drive list, mounted BOOT context, re-probe budget, pending close | refresh, probe, fetch, write, configure, close | worker thread, helper |
| `makeElevatedPreloaderSink` | a promise | worker waits for a helper the GUI runs | both threads |
| `ConfigurationService` | the BOOT partition's files | read release, list projects, configure | file system, preloader sink |
| `ImageService::fetch` | the `.part` file, four flags | resolve, download, check, publish | provider, libcurl |
| Mount handles | owned or borrowed mount | mount, move, release | udisks2, mount(2) |
| Windows and macOS backends | volume locks | as the Linux backend; macOS refuses everything | operating system |
| Layout, archive entry choice, providers, HTTP | none | pure choices, parsing, I/O | - |

**What is hard.** A write to a card is volatile until a sync and lands in any
order; power can go at every point. Three lookups of one node name (guard,
unmount, open) span seconds in which cards are swapped and the desktop mounts.
The GUI and the helper are two processes with a thread each that cancel, die and
report independently. The GUI chains jobs by callbacks on signals of which
several handlers may be connected. Files on the card change under a copy.

**What makes each part right.**

- *flash*: the old partition tables leave the card before anything new appears,
  the new one appears only over a complete body; success is durable; a stop
  leaves no table; cancel is heard.
- *target*: the OS disk and, unforced, every fixed disk stay closed; nothing that
  is opened is mounted; every request is decided.
- *engine*: the calls see a plain array of bytes, the device sees whole aligned
  blocks.
- *preloader*: success means the copy is on the partition; a misfit touches nothing.
- *session*: one true answer per run; cancel and the death of the GUI stop the helper.
- *console*: one job at a time; a mount is released before its card is written and
  never after; close happens.
- *configure*: a refused project changes nothing; an applied one makes of the card
  exactly what its plan says.
- *fetch*: nothing partial under the final name; success is the artifact asked for.
- *mount handles*: every owned mount is released once, no borrowed one ever.

## 2. Modules

| Module | Models | Composition |
|---|---|---|
| `RawMedia` | the card: media, a volatile layer that destages block by block, faults (`corrupt`, `drop`), loss of power | extended by the two writers |
| `FlashPipeline` | `flash`, one action per device operation or poll | extends `RawMedia`, implements `CardLifecycle` |
| `CardLifecycle` | abstract: what a user may rely on about table, body and answer | - |
| `TargetOpen`, `MCTargetOpen` | guard, unmount and exclusive open against hot-swap and mounts; the disks of the runs | its success is the step `open` of the writers |
| `AlignedRawDevice` | the staging and read-ahead engine, one action per call | implements `ByteDevice` |
| `ByteDevice` | abstract: the array of bytes `IRawDevice` promises | - |
| `PreloaderWrite` | `writePreloader` | extends `RawMedia` |
| `HelperSession` | GUI process, pkexec, pipes, helper with its watcher, over several runs | implements `WriteRun`; has the flash as three stretches |
| `UacSession` | the same of Windows: named pipe, connection and identity check, exit notifier | implements `WriteRun` |
| `WriteRun` | abstract: one privileged write, its one answer, and the card the answer is about | what the window relies on, whatever the platform |
| `Console` | the window: handlers over a job runner, a worker, a helper, dialogs with nested event loops | the helper answers as `WriteRun` lets it |
| `Configure`, `MCConfigure` | `kli configure` and the dialog, `configureProject`, the preloader sink across two threads and a helper; the manifests and partition tables of the run | its raw write is the two ends of `PreloaderWrite` |
| `ImageFetch` | download into `.part`, publication by a rename or a copy | - |
| `FlashPipelineProofs`, `HelperSessionProofs`, `ConfigureProofs`, `ImageFetchProofs`, `AlignedRawDeviceProofs`, `UacSessionProofs`, `ConsoleProofs` | theorems | each extends the module it is named for |
| `PreloaderProofs` | theorems about `TargetOpen` and `PreloaderWrite` | the two halves of `kli preloader`: the target is opened, then written; it extends both |

### How state and actions correspond to the code

**FlashPipeline.** `pc` is the place in `flash`; a block stands for a fixed
amount of bytes, and a block of the image is the constant `"img"`: whether the
right bytes are at an address is told by the address. `written` is
`WriteCtx::written`, `checked` and `same` are the progress and the outcome of
`hashDeviceRange`. Hash equality is equality of content. Returned errors are
`result`, grouped where the code's callers do not tell them apart. `Program`,
`Cancel`, `Kill` and `PowerCut` are the environment; `Kill` differs from
`PowerCut` in that pending writes still land.

**TargetOpen.** `at` is which disk each name stands for now, `mount` the use of
each partition, from which `IsSystem`, the partition's mountpoint and the
kernel's exclusive claim are derived as lsblk and O_EXCL do. `Guard`,
`UnmountAll` and each open resolve the name again. A request keeps what the user
typed: a whole drive, a partition typed as a drive, or a bootloader partition.

**AlignedRawDevice.** A cell stands for a few bytes; `wbuf` and `rbuf` are the
filled parts of the two buffers. `mode` is the discipline of `DriveService`
(seek, then write or read, flush); outside it the class promises nothing.

**PreloaderWrite.** `stage` is the place in `writePreloader`, `size` is taken at
`statSource`, `file` is what the file has when it is read; `FileChanges` may
change it at any time. Its specification is `CopySpec`, so that the module can
stand beside `TargetOpen`.

**HelperSession.** A line is two pieces, so that a read may end within it. `proc`
and `exit` are the child process, `hpc` the helper's main thread, `watching` its
watcher. `PkexecHelperSession::done_` and `HelperProcess`'s three fields are kept
as they are, over `MaxRuns` runs of one `HelperProcess`.

**UacSession.** `ses` and `link` are the fields of `UacHelperSession` and the
pipe; `acceptClient`, `armConnect` and `completeConnect` are functions from one
such state to the set of its outcomes, since the callbacks nest them.
`ShellExecuteEx` takes time, so `start()` is two actions with the helper's own
steps in between. `settleDevice` does nothing on Windows and has no action.

**Console.** One action per handler of `ConsoleWindow`; the worker thread is
`ReleaseStale` and `WorkerReturns`. `BackgroundTask::busy()` is `TaskBusy`, which
is false as soon as the worker has returned, while its `finished` is still
`pending`; `handlers` are the single-shot connections and `firing` those the
present emission still has to call. A dialog's `exec()` is an event loop: an
emission it interrupts waits in `outer`, and its answer may come before what is
already posted. A moved-from context is one whose mount is `"gone"`. Timers of
one node coincide.

**Configure.** `card` maps a path of BOOT to the directory its bytes were shipped
in, `slot` is whose preloader the bootloader partition holds. The plan, the
preflight, each copy, the move of `extlinux.conf` and the write through the sink
are actions; `writer` is the raw write, in our process for the CLI, in a helper
for the dialog, and `"orphan"` once its client was killed. Partition choice and
`findProject` are operators; the sort in `listProjects` is not stable, so equal
keys are a choice. A copy may fail or be killed half-way (`Torn`), and a sweep may
fail or be killed having removed any part of `extlinux/` (`Swept`). `Final` says
what the card is to be, path by path, from the plan and from the card the
configuration started on: the project's files laid over the root (`Laid`, the last
one of a name counts), then `extlinux.conf` moved, or `extlinux/` gone.
`AppliedIsExact` compares the whole of BOOT with it, asks that what comes from a
manifest's directory is what the image shipped there, and that the slot holds the
project's preloader. It does not say that the card boots: see 4.

**ImageFetch.** `entry` is the directory and `data` what each file holds, so that
an open stream keeps its file when the name is gone. A chunk says whose bytes it
holds. Each callback of the transfer is an action, and so is each chunk of the
copy that stands in for a rename; `torn` remembers a copy that was cut short,
`left` a `.part` file that could not be removed.

## 3. Runs

| Run | Question | Instance |
|---|---|---|
| `flash_reliable` | order of old and new table, early stops, durable success, refinement of `CardLifecycle`, cancel | 6 blocks, head 2, wipe 3+1, chunk 3, image 0 to 7, sound card |
| `flash_lossy` | does verification cover cards that corrupt or drop writes | 5 blocks, chunk 2, image 0 to 5 |
| `target_open` | safety of the choice of disk, and that it ends | OS disk, fixed disk, two cards, a file, two partitions, two tries |
| `target_system` | *violation*: is the system disk refused always | the same |
| `raw_engine` | legal device operations, refinement of `ByteDevice` | 6 cells, blocks of 2, buffer 4, calls of 1 to 5 |
| `preloader_verified` | is a successful copy on the partition, is a misfit harmless | 4 blocks, files of 0 to 5, chunk 2, faulty card |
| `preloader_truncated` | *violation*: is it the whole preloader | the same, sound card |
| `helper_answers` | refinement of `WriteRun`, terminal lines, cancel, orphans | two runs, a pipe of 4 pieces |
| `uac` | refinement of `WriteRun`, no line and no cancel lost or carried over | two runs, a pipe of 2 lines, 2 attempts to connect |
| `console` | mounts held once and released for a write, the context on screen, cancel while preparing, controls, close | two drives, two re-probes, one overlap of jobs |
| `configure` | what is reported as applied is on the card exactly; what is refused changed nothing; the dialog is answered | three configurations, 8 manifest entries, 5 partition tables |
| `fetch` | what is ever partial under the final name, nothing left behind, success is the artifact asked for, every fetch ends | three fetches in a row, two artifacts of two chunks |

**Why the bounds are enough.** The image sizes straddle every boundary the code
tells apart: empty, all head, exactly head and body, one chunk across the head,
a card filled to its end, one block beyond. The wiped front is longer than the
deferred head and the wiped back is a block of its own, as in the code (4 MiB and
1 MiB against a head of 1 MiB). In `raw_engine` one call is longer than the
buffer, one is shorter than a block, and lengths are not multiples of either.
Two cards share a slot, so one can take the other's name; two tries contain a
retry. Two runs are what a stale result, or a stale cancel, needs. A pipe of four
pieces can hold a progress line and a terminal line, so the writer also blocks.
Two drives are what a context of the wrong card needs, two re-probes contain one
that is retried and one that is the last; a job that overlaps one is what
`BackgroundTask` may lose a signal by. Three configurations are a first one that
leaves something behind, a second that is killed with its helper still writing,
and a third that succeeds over both; the entries and tables give every branch of
the plan and of the layout a case. Three fetches are one that is killed, one
that finds its `.part`, or a destination cut short, and one that replaces a
published file; two chunks let a transfer and a copy end in the middle.

**Bounds that are named in a guard:** `MaxImage`, `MaxFile`, `MaxTries`, `MaxCall`,
`MaxRuns`, `MaxFetches`, `MaxOverlaps`; in `Configure` one orphaned writer at a
time, in `UacSession` a run starts after the answer to the last.

**What `Console`'s guards say.** `Orderly` is: no job was started while another one
ran or had its `finished` undelivered, and no confirmation was opened over an
outstanding timer, job or signal. `ContextIsSelected`, `WriteIsPrepared` and
`CancelledPreparation` are claimed of such histories only; `EveryMountHeldOnce`,
`ControlsComeBack` and `CloseHappens` of all.

**Deadlock** is off in the runs whose program returns or closes (`flash_*`,
`preloader_*`, `helper_answers`, `uac`, `console`, `configure`, `fetch`) or fails
for good (`raw_engine`); `target_open` has no state without a step and leaves
the check on.

**Type invariants.** Every module of a component states one (`TypeOK`, in
`PreloaderWrite` `CopyTypeOK`), and each is a theorem of section 5. No cfg checks
them; any may be given its own as one more `INVARIANT`.

**Fairness.** `flash` runs (`WF` on its steps) and a card keeps programming what
it has accepted; nobody has to cancel, and the decoder may warn for ever, which
is why `CancelStops` says something. In `TargetOpen` only the command is fair.
In `HelperSession` and `UacSession` the event loop, the authentication prompt and
both threads of the helper are scheduled, and a flush of the pipe need not fail;
`EveryRunAnswered` excepts images that never end, and on Windows a helper that
blocks on a pipe nobody reads (`Mute`, see 4). In `Console` the event loop turns,
workers return, the helper answers and timers fire; the user does nothing, and
`CloseHappens` asks of him only that he leaves the window alone at last. In
`Configure` the worker, the GUI thread's queue, our own raw write and the end of
the program are fair, orphans and kills are not. In `ImageFetch` every local step
is fair; the line is not: what ends a fetch on a dead line is the low-speed limit.

## 4. What the runs found

1. `target_system`: a partition of the OS disk typed as `--drive` with `--force`
   belongs to no listed drive, so the guard lets it through; flash.rst says that
   a system disk is refused always. `SystemDiskNeverOpened` shows that this is
   the only way in.
2. `preloader_truncated`: a preloader that became shorter or unreadable after it
   was measured is written in part and reported as written and verified.

Read with the code and left without a run:

- The head is committed by one write and one sync, and an error of either is
  returned without a wipe. A power cut or I/O error in that window leaves the
  table sector without the rest of the head, against flash-pipeline.rst:14. What
  the code does guarantee is `TableLast`: the *body* is whole by then.
- The wipe after a head mismatch is tried once and its result ignored
  (DriveService.cpp:562); troubleshooting.rst says the table is left wiped.
- flash-pipeline.rst:83-86 says that `--force` overrides both tiers, where the
  code keeps tier 1 for listed disks; `--no-verify` skips the body but not the
  head; the guard's verdict on one card carries over to another one that takes
  its name.
- The re-probe timer of an earlier write may mount the card between the release
  of its mount and the next write, which the comment at ConsoleWindow.cpp:598
  does not expect; it also drops the mount an open configure dialog works on.
- `startFetch` after the picker, and the write after its confirmation, do not ask
  `busy()` again. A cancel pressed while the card is prepared is lost when a
  timer's scan resets the flag. The list handler ignores a pending close.
- `HelperProcess::cancel` does nothing before the session runs, so a cancel during
  the authentication prompt is dropped; one just after it is only looked at when
  the signatures are wiped.
- UacHelperSession.cpp:319: a pipe whose socket cannot be made stays open and
  unread, and a helper that fills it waits for ever (`Mute`). A helper whose
  process id could not be had is disconnected, and its run answered `NoReport`.
- A copy that fails midway leaves BOOT half configured and is reported as an
  error; configure.rst:58-60 promises an untouched card for missing files only,
  which is `RefusedLeavesCard`. Esc between the worker's return and the delivery
  of its signal closes the dialog without the result.
- An Intel project that lists no `extlinux.conf` of its own takes over whatever
  file of that name lies in BOOT's root (ConfigurationService.cpp:313-315): the
  image's, another project's, or one that an earlier configuration left torn. It
  is reported as applied, and need not boot. `AppliedIsExact` says what the card
  then is.
- ImageService.hpp:37-39, fetch.rst:76-77 and the comment at ImageService.cpp:101
  promise that a failed or cancelled fetch never leaves a partial file at the
  destination. The copy that stands in for a failed rename (189) writes under the
  final name: when it fails, or the program is killed in it, a part stays there.
  `OutIsWhole` shows that nothing else leaves one.
- The listing of workflow artifacts asks for the first page of each run
  (GitHubActionsProvider.cpp:125-126) and takes a 2xx body that is no JSON object
  for a run without artifacts (130-133), where the list of runs is refused for it
  (110): a listing may be incomplete without an error, where
  releases-and-sources.rst:64-66 has a release per image artifact. Known from
  reading; the listing is not modelled.
- Two fetches to one destination share one `.part`: the second cuts what the first
  still writes, and either may publish a file with a hole. A file saved under the
  destination's name during the download is replaced without `--force`. A `.part`
  that cannot be removed stays, and no error tells of it.

## 5. Proofs

All theorems hold for every value of the constants under the assumption named in
the module. One lemma per action, or group of actions, shows that the inductive
invariant `IInv` is preserved; the properties follow from it.

**FlashPipelineProofs** assumes `MediaAssumption` and `FlashAssumption`: sizes
are positive, the deferred head is no longer than the wiped front. The properties
are not inductive: that the head can be written safely now depends on what was
synced and read back many steps ago. `IInv` carries that history as a statement
per phase: before the wipe the card is untouched (`IEarly`); during it only zeroes
land (`IWipe`); until the commit no block of the head holds or awaits the image
and, on a sound card, all signatures are gone (`IHead`); the body written so far
is on the media or pending (`IBody`); what was read back equals the image
(`ICheck`); in the commit the body is whole and clean (`ICommit`).
`SuccessIsDurable`, `EarlyStopLeavesNoTable`, `OldTableFirst` and the action
property `TableComesLast` follow. `CardRefinement` is the refinement of
`CardLifecycle` on a sound card: it needs `ISound` beside `IInv`, which says that
an image block once on the media is never overwritten outside a re-wipe, and maps
every destaged block, return, kill and power cut to an abstract step or a stutter.
`EarlyStopIsClean` and `SuccessIsOnMedia` are also what the words of `WriteRun` and
the two sessions stand for: `"untouched"` after a refusal, `"wiped"` after a cancel
(`Inert`, not merely untouched), `"complete"` after a success. Every other end is
answered `"failed"` there, which claims nothing of the card.

**PreloaderProofs**, of the target, assumes `TargetAssumption`: the OS disk is
listed, is not pullable and has its root mounted; a name stands for one disk.
The verdict of the guard is about a name, and is used after the name may have
changed its meaning. The invariant `Cleared` says what survives: whatever the
name stands for now is *harmless*, because only cards come and go. `RootMounted`
is needed since the OS disk is recognised by its mounts, which `unmountAll`
itself may remove (but never the root). `HoldsCleared`, `Session` and
`OpenIsExclusive` carry this over the open.

**PreloaderProofs**, of the copy (`CopyInv`): what was handed over so far is
pending or on the partition and, once it was synced and read back, on it
whatever the card drops; and nothing is touched before the size was found to
fit. `CopyIsDurable` and `OversizeRefused` follow for every partition, file and
set of faults.

**HelperSessionProofs**: `IInv` says where a terminal line can be (decided, in the
pipe, in a half-read buffer, parsed) and which of the line, the exit and the error
may still answer. From it `TerminalLine`, and `Refinement`: over any number of
runs, pipes and splits of lines, the session implements `WriteRun`.

**UacSessionProofs** assumes `UacAssumption`. A line in the pipe proves nothing by
itself: another program may have written it. The invariant speaks of who is at the
other end: whoever is read was identified as the helper (`GLines`), and what an
identified helper has in the pipe, or has had parsed, is the one reply it decided
on (`Genuine`), true of the card (`IReply`); that reply is parsed or still in the
pipe unless the connection was cut (`GThere`); a cancel was pressed in this run or
is a connection cut (`GCancel`). Each function of the GUI's session is shown to
preserve this, whatever it is called from; then `LineIsHeard`, `CancelIsOfItsRun`
and `Refinement` of `WriteRun` follow.

**ConfigureProofs** assumes `ConfigureAssumption` and has an invariant for each of
its results. Until the first copy BOOT is what the configuration found
(`IPlanning`), and no dry run gets as far (`IApplying`); hence `RefusalIsClean`,
for every manifest and card and whatever an orphaned helper writes meanwhile.
`ConfigureTypes` needs the place in the plan (`IPlan`). `AppliedExactly` is the long
one. `IFiles` follows the files: what got past the preflight was there (`IReady`);
copies change the root alone, and a source in the root would be copied onto
itself, which fails, so every source is what it was when its turn comes
(`IOutside`); of the copies made so far the last of each name is in place
(`ICopied`), and every other name of the root is what it was (`IRest`). After the
last copy the card is therefore `Laid` (`AllLaid`), and moving `extlinux.conf`, or
sweeping `extlinux/`, makes it `Final`, which it stays (`IPlaced`): what it is to be
is settled when the configuration starts (`FinalStays`). A kill changes the card
only before an answer (`KilledCard`).
`IIntact` says that the shipped directories never change, over any number of
configurations: it is what makes the bytes of an earlier one harmless. `IWrites`
follows the slot: our writer and an orphan never write at once (`IExclusive`), and
once ours has succeeded the slot is the project's unless an orphan came late
(`ISlot`). `IBanner` ties the dialog's banner to the result it was set from.

**ConsoleProofs** assumes `ConsoleAssumption`, which bounds nothing but the tries;
the drives, writes and jobs are any number.

- `MountsHeldOnce`, of all histories. `IHeld` replaces the count of the property
  by who it counts: a mount of ours is held by the boot context, by the probe's
  result, or by one job's stale context, and two of these never share it. Each
  handler moves a context from one of them to another, or releases it. A job is
  known by its fields, so `ParkedOnce` is said of jobs that differ in some field.
- `ControlsUnlocked`, of all histories. The controls are locked only while the
  helper runs or a handler that unlocks them is connected, being called, or set
  aside by a nested event loop (`ILocked`); and a connected handler has a worker
  or a signal that will call it (`IAwaited`). That such a signal does arrive is
  the liveness TLC checks.
- `ContextFollowsSelection`, `WriteRunsPrepared` and the action property
  `CancelledNeverWrites`, of `Orderly` histories. `IOrder` says what orderly buys:
  one handler at most is due, and it is the handler of the job that runs (`IJob`);
  the probe's result is the handler's own card (`IProbe`); a confirmation, a
  preparation and a write have the window for themselves (`IConfirm`, `IPrep`,
  `IHelper`); a cancel heard while preparing is kept until the handler looks
  (`IStop`). The invariant proved is `Orderly => IOrder`, since `Orderly` once lost
  does not come back; what happens without it is among the points of 4.

**ImageFetchProofs** assumes `FetchAssumption`. For any number of fetchers at once
there are `FetchTypes` and `NothingIsLeft`. The first needs that a fetch under way
knows its artifact and a failed one its reason (`IUnderWay`), and, by counting the
files that are open or named, that there is always another (`RoomForOne`), so that
the choice in `NewFile` is never empty and `.part` and the destination never are
one file. The second follows from `IGone`: while `.part` is there some fetch is
still to drop or to publish it, or whoever had it open last was killed or not let
remove it. For one fetch at a time (`Alone`) come `DestinationIsWhole` and
`SuccessIsDelivery`, over any number of fetches, kills and failures: the file a
fetch has open is the one `.part` names, and it holds exactly the chunks counted,
while a copy has brought its destination as far as that (`IPart`), so that what is
published is complete. The first excepts the copy that is under way, failed or was
killed, as its property does. `Alone` is needed for these two: see the last point
of 4.

**AlignedRawDeviceProofs** assumes `EngineAssumption`: the staging area and the
device are multiples of the block size. `IStage` says that cells are staged only
while a write streams, from an aligned offset, and fit the staging area and the
device; `IIo` that the last transfer was legal. Hence `OperationsAreLegal`, which
rests on a few facts about multiples of the block size. For `Refinement` comes
`IAhead` (what is read ahead is what the device holds right before the device
offset, so that the caller's position is the difference) and the fact that
writing out a tail zeroes the rest of its block and nothing else (`TailIsPadding`):
each operation is then the same operation of `ByteDevice`.

**Only model-checked:** liveness (`CancelStops`, `Decides`, `EveryRunAnswered`,
`CancelAnswered`, `OrphanStops`, `CancelReachesHelper`, `CloseHappens`,
`ConfigureAnswered`, `EveryFetchEnds`), which is outside this prover. Every
invariant and action property of a passing run, and each of the four refinements
(the abstract specifications state safety alone), is a theorem. The properties of
the two runs that expect a violation are false of the code.

## 6. Not modelled

- Bytes, hashes and decoding: a block is right or wrong; SHA-256 is injective.
- What lsblk, udisks2, polkit and the kernel do beyond what the code relies on;
  lsblk's answers are exact (a file system mounted in several places, of which it
  prints one, is not a case here).
- Counterfeit cards that map two addresses to one cell.
- Buffer allocation failure, devices that cannot report their size.
- The Windows backend (`WindowsDriveBackend`): locking and dismounting volumes
  while Explorer reopens them rests on semantics of Windows the sources do not
  state. The macOS backend is a stub that refuses every operation.
- The choice of an archive's entry, the parsing of lsblk's, GitHub's and the
  manifests' JSON, libcurl, progress reporting, wording, widgets, arguments.
- In `Configure`: when the file system's cache reaches the card; two
  configurations of one card at once. In `UacSession`: the death of the GUI.
- The listings of images. In `ImageFetch`: an artifact whose length the server does
  not announce; curl then takes a connection closed early for the end of it
  (CurlHttpClient.cpp:75-76). In the two sessions: a Qt that raises a second signal
  after a failed start, which `done_` guards against.

## 7. Plan

Done, in this order: flash, its proofs, target, its proofs, session, engine,
preloader, console, configure, fetch, the Windows session; then the refinement
proof of flash, and the proofs of preloader, both sessions, configure, fetch and
engine; then the type invariants that were left, `AppliedIsExact` and the window's
properties as theorems. Left:

1. The flash of `HelperSession`, three stretches and an answer, shown to be what
   `FlashPipeline` does between `open` and its return.
2. Two fetchers at a time as a model of its own, if the code gives each fetch a
   `.part` of its own.
