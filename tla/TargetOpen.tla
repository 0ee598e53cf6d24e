----------------------------- MODULE TargetOpen -----------------------------
(***************************************************************************)
(* How a device node named by the user becomes an exclusively open disk:    *)
(* guardWriteTarget classifies a fresh enumeration, unmountAll releases     *)
(* what is mounted under the node, and openForWrite claims it with O_EXCL,  *)
(* unmounting and retrying while it is busy (the Linux backend).            *)
(*                                                                          *)
(* Every step looks the node up by name again, while cards are pulled and   *)
(* plugged and the desktop mounts what it finds.  The claim binds to the    *)
(* disk, and lasts until the write is over (module FlashPipeline).          *)
(***************************************************************************)
EXTENDS Integers, FiniteSets

CONSTANTS
  Disk,       \* whole disks, and whatever else a node can name
  SysDisk,    \* the disk that hosts the running OS
  Card,       \* disks that can be pulled: computeRemovable holds of them
  Unlisted,   \* not of lsblk's type "disk": loop devices, files
  PlainFile,  \* those of Unlisted that are no block device
  NoDirect,   \* disks that refuse O_DIRECT with EINVAL
  Part,       \* partitions of a disk
  OsMount,    \* what the OS has mounted of SysDisk when the run starts
  Name,       \* node names of whole disks
  Home,       \* the disk a name stands for when the run starts
  NoDisk,     \* nothing has that name
  MaxTries    \* kOpenRetries

Whole == "whole"

(* How a partition is in use: not, by a file system that can be unmounted,  *)
(* by one that cannot, by LVM/RAID/LUKS, or by the running OS at "/" (never *)
(* released) or at /boot, /usr, /var, /etc (released by umount).            *)
Use == {"none", "data", "busy", "stack", "root", "boot"}

ASSUME TargetAssumption ==
  /\ SysDisk \in Disk \ (Card \cup Unlisted)
  /\ Card \cup Unlisted \cup NoDirect \subseteq Disk
  /\ Card \cap Unlisted = {}
  /\ PlainFile \subseteq Unlisted
  /\ Whole \notin Part
  /\ OsMount \in [Part -> {"none", "root", "boot"}]
  /\ \E p \in Part : OsMount[p] = "root"
  /\ NoDisk \notin Disk
  /\ Home \in [Name -> Disk \cup {NoDisk}]
  /\ \A m, n \in Name : Home[m] = Home[n] /\ Home[m] # NoDisk => m = n
  /\ MaxTries \in Nat \ {0}

VARIABLES
  at,         \* the disk each name stands for
  mount,      \* the use of each partition of each disk
  pc,         \* where the run stands
  req,        \* what was asked: kind, name, part, force
  direct,     \* openForWrite: tryDirect
  attempt,    \* openForWrite: attempt
  opened      \* the disk the session holds, or NoDisk

vars == <<at, mount, pc, req, direct, attempt, opened>>

(* `flash` takes any node the user types, `configure` and the GUI pass the  *)
(* bootloader partition of a card they have listed.                         *)
Request ==
  [kind : {"drive"}, name : Name, part : Part \cup {Whole}, force : BOOLEAN]
    \cup [kind : {"partition"}, name : Name, part : Part, force : BOOLEAN]

TypeOK ==
  /\ at \in [Name -> Disk \cup {NoDisk}]
  /\ mount \in [Disk -> [Part -> Use]]
  /\ pc \in {"idle", "guard", "unmount", "open", "opened"}
  /\ req \in Request
  /\ direct \in BOOLEAN
  /\ attempt \in 0 .. MaxTries
  /\ opened \in Disk \cup {NoDisk}

Init ==
  /\ at = Home
  /\ mount = [d \in Disk |-> IF d = SysDisk THEN OsMount ELSE [p \in Part |-> "none"]]
  /\ pc = "idle"
  /\ req \in Request
  /\ direct = TRUE
  /\ attempt = 0
  /\ opened = NoDisk

-----------------------------------------------------------------------------
Critical(use) == use \in {"root", "boot"}

(* listDrives: the whole disks with a name, and what it derives of each.    *)
Listed == {n \in Name : at[n] \in Disk \ Unlisted}
IsSystem(d)    == \E p \in Part : Critical(mount[d][p])
IsRemovable(d) == d \in Card

(* The partitions a claim of the node covers.                               *)
Parts == IF req.part = Whole THEN Part ELSE {req.part}
Node  == at[req.name]

(* The drive the guard finds for the node: a whole-drive request compares   *)
(* with whole drives only, so a partition typed as a drive has no owner.    *)
Owned == req.name \in Listed /\ (req.kind = "partition" \/ req.part = Whole)

\* Mutant: --force overrides both tiers, as flash-pipeline.rst has it.
AllowedForceFirst ==
  IF ~Owned THEN req.force
  ELSE \/ req.force
       \/ /\ ~IsSystem(Node)
          /\ req.kind = "partition" => mount[Node][req.part] = "none"
          /\ IsRemovable(Node)

\* Mutant: the removable heuristic is only applied to whole drives.
AllowedFixedPartition ==
  IF ~Owned THEN req.force
  ELSE /\ ~IsSystem(Node)
       /\ req.force \/ req.kind = "partition" \/ IsRemovable(Node)

(* classifyWriteTarget accepts the target.  Only a file system is a         *)
(* mountpoint; a stacked partition has none.                                *)
Allowed ==
  IF ~Owned THEN req.force
  ELSE /\ ~IsSystem(Node)
       /\ \/ req.force
          \/ /\ req.kind = "partition" => mount[Node][req.part] \in {"none", "stack"}
             /\ IsRemovable(Node)

\* Mutant: the guard trusts the caller when it is forced.
GuardSkipped ==
  /\ pc = "guard"
  /\ pc' = IF req.force \/ Allowed THEN "unmount" ELSE "idle"
  /\ UNCHANGED <<at, mount, req, direct, attempt, opened>>

(* guardWriteTarget on a fresh listing; an enumeration error refuses too.   *)
Guard ==
  /\ pc = "guard"
  /\ \/ Allowed /\ pc' = "unmount"
     \/ pc' = "idle"
  /\ UNCHANGED <<at, mount, req, direct, attempt, opened>>

Released(d) ==
  [mount EXCEPT ![d] = [p \in Part |->
     IF p \in Parts /\ @[p] \in {"data", "boot"} THEN "none" ELSE @[p]]]

Stacked == Node \in Disk /\ \E p \in Parts : mount[Node][p] = "stack"

(* unmountAll: refuse a stacked device, unmount the rest; a mount that      *)
(* stays busy, or a device lsblk cannot read, is left to the open.          *)
Release ==
  \/ UNCHANGED mount
  \/ Node \in Disk /\ ~Stacked /\ mount' = Released(Node)

UnmountAll ==
  /\ pc = "unmount"
  /\ Release
  /\ pc' = "open" \/ (Stacked /\ pc' = "idle")
  /\ direct' = TRUE
  /\ attempt' = 0
  /\ UNCHANGED <<at, req, opened>>

\* Mutant: the device is opened without O_EXCL.
ClaimableAlways == Node \in Disk

(* open(2) with O_EXCL: neither the node nor a partition under it is in use *)
(* by anybody.                                                              *)
Claimable == Node \in Disk /\ \A p \in Parts : mount[Node][p] = "none"

OpenFallback ==
  /\ pc = "open"
  /\ Claimable /\ Node \in NoDirect /\ direct
  /\ direct' = FALSE
  /\ UNCHANGED <<at, mount, pc, req, attempt, opened>>

(* Success on a block device; on anything else InvalidImage.                *)
OpenClaim ==
  /\ pc = "open"
  /\ Claimable
  /\ Node \in NoDirect => ~direct
  /\ IF Node \in PlainFile
     THEN pc' = "idle" /\ UNCHANGED opened
     ELSE pc' = "opened" /\ opened' = Node
  /\ UNCHANGED <<at, mount, req, direct, attempt>>

\* Mutant: the retry does not use up an attempt.
OpenBusyForever ==
  /\ pc = "open"
  /\ Node \in Disk /\ ~Claimable
  /\ Release
  /\ UNCHANGED <<at, req, direct, attempt, pc, opened>>

(* EBUSY: unmount again, whatever comes of it, and use up an attempt.       *)
OpenBusy ==
  /\ pc = "open"
  /\ Node \in Disk /\ ~Claimable
  /\ Release
  /\ attempt' = attempt + 1
  /\ pc' = IF attempt' = MaxTries THEN "idle" ELSE "open"
  /\ UNCHANGED <<at, req, direct, opened>>

(* The name is gone, or open fails with any other errno.                    *)
OpenError ==
  /\ pc = "open"
  /\ pc' = "idle"
  /\ UNCHANGED <<at, mount, req, direct, attempt, opened>>

(* The write is over and its handle goes out of scope.                      *)
Close ==
  /\ pc = "opened"
  /\ pc' = "idle"
  /\ opened' = NoDisk
  /\ UNCHANGED <<at, mount, req, direct, attempt>>

Run == \/ Guard \/ UnmountAll
       \/ OpenFallback \/ OpenClaim \/ OpenBusy \/ OpenError \/ Close

-----------------------------------------------------------------------------
(* The environment.                                                         *)
Ask ==
  /\ pc = "idle"
  /\ req' \in Request
  /\ pc' = "guard"
  /\ UNCHANGED <<at, mount, direct, attempt, opened>>

Claimed(d, p) == opened = d /\ p \in Parts

(* The desktop mounts a partition, a user keeps a file open on it, an array *)
(* or a volume group is assembled on it, or any of these ends.              *)
Reuse ==
  /\ \E n \in Name, p \in Part :
       /\ at[n] \in Disk \ ({SysDisk} \cup PlainFile)
       /\ ~Claimed(at[n], p)
       /\ \E use \in {"none", "data", "busy", "stack"} \ {mount[at[n]][p]} :
            mount' = [mount EXCEPT ![at[n]][p] = use]
  /\ UNCHANGED <<at, pc, req, direct, attempt, opened>>

(* A card is pulled, or another one takes a free name.                      *)
Pull ==
  /\ \E n \in Name :
       /\ at[n] \in Card
       /\ at' = [at EXCEPT ![n] = NoDisk]
       /\ mount' = [mount EXCEPT ![at[n]] = [p \in Part |-> "none"]]
  /\ UNCHANGED <<pc, req, direct, attempt, opened>>

Plug ==
  /\ \E n \in Name, d \in Card :
       /\ at[n] = NoDisk
       /\ \A m \in Name : at[m] # d
       /\ at' = [at EXCEPT ![n] = d]
  /\ UNCHANGED <<mount, pc, req, direct, attempt, opened>>

Next == Run \/ Ask \/ Reuse \/ Pull \/ Plug

Spec == Init /\ [][Next]_vars

(* The command keeps running; nobody has to ask, pull or unmount.           *)
FairSpec == Spec /\ WF_vars(Run)

-----------------------------------------------------------------------------
(* A partition typed as --drive together with --force: the guard finds no   *)
(* owner for it and lets it through.                                        *)
Escape == req.kind = "drive" /\ req.part # Whole /\ req.force

(* The disk of the running OS is never opened for writing, neither through  *)
(* its own node nor, for a preloader, through one of its partitions, also   *)
(* with --force and whatever is plugged and mounted meanwhile.  (Tier 1 of  *)
(* classifyWriteTarget; Escape is the exception the next run is about.)     *)
SystemDiskNeverOpened == opened = SysDisk => Escape

(* Nor is a file system of the running OS ever unmounted on the way: not by *)
(* unmountAll, not by the retries of openForWrite.                          *)
SystemMountsSurvive ==
  [][\A p \in Part : Critical(mount[SysDisk][p]) /\ mount'[SysDisk][p] # mount[SysDisk][p]
       => Escape]_vars

(* Without --force only media that can be pulled is ever opened, although   *)
(* the guard, the unmount and each open look the name up separately.        *)
UnforcedIsRemovable == opened # NoDisk /\ ~req.force => opened \in Card

(* Nothing under the open node is in use by anybody else while the session  *)
(* lasts: the write can not corrupt a mounted file system.  (O_EXCL.)       *)
OpenIsExclusive == opened # NoDisk => \A p \in Parts : mount[opened][p] = "none"

(* Every request is refused, fails or is over at last, also when somebody   *)
(* keeps re-mounting the card.  (The bound on the retries.)                 *)
Decides == pc = "guard" ~> pc \in {"idle", "opened"}

(* The promise of flash.rst: a disk that hosts the running OS is refused    *)
(* always, --force does not override it.                                    *)
SystemDiskRefused == opened # SysDisk
=============================================================================
