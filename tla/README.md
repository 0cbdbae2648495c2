# A TLA+ verification project for EntropyOS

EntropyOS (GloamOS in the file headers) is a single-threaded UEFI kernel with
polling drivers, a cooperative scheduler, two file systems, an installer and a
bootloader. This directory holds TLA+ modules that model its core logic, TLC
configurations that check them on small instances, and TLAPS proofs for every
instance. `PROJECT.json` lists the runs, the source lines behind each
definition, the hazards of the code and which property watches each of them.

## 1. Inventory

Paths are relative to the repository's root.

| Component | State | Operations | What makes it correct |
|---|---|---|---|
| Scheduler, `scheduler/scheduler.c` | `g_tasks[16]`, `g_task_count`, `g_next_index` | add, remove, remove_by_fn, set_priority, suspend, resume, sleep, run_all, run_once, run_loop | the table is consistent; a frame calls every READY task once; nobody starves; sleepers wake |
| SATA, `drivers/sata/sata.c` | `ahci_initialized`, the 32 command slots and tables, the port's registers | init, read, write (3 attempts), identify, flush | one owner per slot; a result of 0 means done, which holds until a command has timed out; calls return |
| FAT32, `fs/fat32/fat32.c` | two FATs, clusters, FSInfo, `g_free_clusters` | format, init, write, mkdir, delete, rmdir, read, compare, list | chains are acyclic, disjoint and terminated; files keep their contents; the free count is exact |
| Block layer, `drivers/block/block.c` | none | read, write | SATA first, mass storage otherwise, never both in a circle; a result of 0 means transferred, until the disk has reported an error |
| Mass storage and bulk transport, `drivers/thumbdrive`, `drivers/usb/usb_host_xhci.c` | block count, pending command, pending status | find, READ CAPACITY, read, write | every command gets its own status; the capacity reported is not far from the disk's |
| PCI, PCIe and xHCI, `drivers/pci`, `drivers/pcie`, `drivers/usb/xhci.c` | device table, register addresses, "present" | scan, init, full init | the cached addresses are those of one controller; the table is not overrun |
| GPT, `fs/gpt/gpt.c` | header and table in memory, primary and backup on disk | create, init, add, get, verify | memory and primary agree; partitions are on the disk and do not overlap |
| exFAT, `fs/exfat` | boot record, FAT, bitmap, clusters, entries; cached bitmap and nodes; bump heap | format, init, create path, write, read, info | no cluster has two owners; files keep their contents; a volume at rest can be mounted |
| Input, `drivers/ps2`, `drivers/hid`, `drivers/usb/touchpad_adapter.c` | two byte rings, absolute position, one scancode | init, poll keyboard, poll touchpad | packets keep their framing; no key is lost between the two sides |
| Boot chain, `src/installer`, `boot/Uefi/bootloader.c` | the disk and its two volumes | install, boot | what is announced is there; an installed system boots |
| GUI, `gui/graphics_init.c`, `gui/button.c` | pointer, pressed flag, menu, box | one frame | the pointer stays on the screen; one action while the button is reported down |

How they interact: the frame loop of `graphics_init.c` calls
`scheduler_run_all` once a frame, and the task functions it calls may call the
scheduler. The installer and the bootloader call GPT, FAT32 and exFAT, which
call the block layer, which calls mass storage or SATA. All of it runs on one
thread. What runs beside it is hardware: the AHCI controller completes or fails
commands on its own, keyboard and mouse send bytes at any time, and the power
can go.

The behaviours that are hard to test: callbacks that change the structure being
iterated; a controller that answers late, never or with an error; a block
operation failing in the middle of a file system call; power loss between two
writes; a full table, slot set, ring, heap or volume; bytes of two devices, or
answers and reports, in an order nobody expected; state in memory that an
earlier, failed call left behind.

## 2. Modules

| Module | Models | Used by |
|---|---|---|
| `Scheduler` | `scheduler/scheduler.c` | `MCScheduler`, `SchedulerProofs` |
| `Sata` | `drivers/sata/sata.c` and the controller as the driver sees it | `MCSata`, `SataProofs` |
| `Fat32` | `fs/fat32/fat32.c` over a fallible block device | `MCFat32`, `Fat32Proofs` |
| `Gpt` | `fs/gpt/gpt.c`, memory and sectors | `Boot` |
| `Boot` | installer and bootloader over `Gpt`, across boots | `MCBoot`, `BootProofs` |
| `Exfat` | `fs/exfat`: glue, library and mkfs, write by write | `MCExfat`, `ExfatProofs`, `ExfatContents` |
| `Xhci` | PCI scans, `drivers/usb/xhci.c`, `usb_host_init` | `Storage` |
| `Storage` | block layer, mass storage, bulk transport, driver start-up | `MCStorage`, `StorageProofs` |
| `SectorStore` | what the file systems expect of the block layer: the abstract specification `Storage` implements | `Storage` |
| `Ps2` | PS/2 controller, rings, packets, HID layer | `Gui` |
| `Gui` | the frame loop and its buttons over `Ps2` | `MCGui`, `GuiProofs` |

Operators named `X_Something` and commented "Faulty variant" are never part of
a specification. Each is a plausible slip in the code that must break the
property it is listed with under `mutants`.

### Scheduler

`fn`, `arg`, `state`, `prio`, `sleep` and `ran` are the fields of `g_tasks`;
`ran` keeps of `run_count` whether it is positive. `pc`, `kind`, `band`, `pos`
and `cur` are the control state of `run_all`, `run_once` and `run_loop`. One
step goes from a loop's current turn to the next task function it enters
(`RunAllCall`, `RunOnceCall`), one is the return of that function
(`CallbackReturn`), and the operations are enabled between frames and while a
task function runs. `SlotAt` reads the cursor anew every time, as the code
does. `touched`, `owed`, `calls` and `moved` observe the frame under way.

### Sata

`Begin` is the entry of the four calls up to the slot they get, `Issue` is
`ahci_build_cmd` and the issue, `PollCleared` and `PollTimeout` the two ends of
the poll loop, and the `Check...` actions what the caller does with the result;
a write goes through `ahci_port_init` between attempts. The controller's two
actions, `HbaComplete` and `HbaError`, are external. `DeviceHangs` says whether
a running port may leave a command pending for ever. `acked` collects, per
sector, the contents the return values allow. `Results` is what a call makes of
a success: `sata_get_num_blocks` still fails on a sector count of zero, which is
also what it finds when nothing was transferred. `doubt` observes that a wait
has ended with neither completion nor error, which the driver reports as
success. It takes no hanging device: a read error halts the port, nothing but a
write's retry restarts it, and the next command can only time out. What is
promised of the disk and of pending commands ends there (`NothingAbandoned`,
`AckedOnDisk`).

### Fat32

`fat1`, `fat2`, `disk` and `fsinfo` are the volume, the other variables the
call under way. A call is a start action (`fat32_write_file_in`, ...) followed
by the stages `free`, `alloc`, `link`, `data`, `entry` and `fsinfo`, one step
per FAT entry or cluster written. Every step can fail, before or after its
effect, and `Crash` can come between any two; a crash in the middle of
`fat32_set_next_cluster` is a failure of it that leaves the copies different,
followed by a crash. Two observations delimit what the code promises:

* `damage`: a call that had freed clusters of the entry it replaces ended by a
  fault or a crash before its directory write. From then on an entry points at
  free clusters and the next file may be given them.
* `what = LOST` in an entry: the call that replaced the file ran out of space
  after freeing the old chain, or a link of the new chain could not be written
  (its result is ignored). Only that file is affected.

Left out: reads, which change nothing; the drive's write cache (a write that
has returned is taken as durable); a FAT longer than a sector; the use, as a
directory, of a cluster that file data has overwritten.

### Gpt and Boot

`Gpt` has the table in memory (`g_gpt_header`, `g_partitions`,
`g_gpt_initialized`) and the sectors of the disk; `gpt_create_table` is the
steps `CreateMbr`, `WriteHeader`, `WriteEntry` and `WriteBackup`, one sector
each; `gpt_add_partition` is the change in memory, followed by the same writes
of header and entries. Sector numbers wrap at `Width`, a checksum is the data it
is taken over. `Boot` runs either program on the disk: `PowerOn`
picks one and clears the memory, `PowerOff` may come before any step. Each
action is one call of `installer.c` or `bootloader.c`, which are alike up to
what they do after a failed FAT32 step (`AfterFatFailure`) and after the last
file (`Complete`). The two volumes are seen through what their calls leave
behind on success and on failure; `unflushed` is exFAT's dirty node, which a
call that reported success may leave. Success need not mean a whole file: when
the link of a cluster fails, `fat32_write_file_in` goes on (`fat32.c:903`) and
leaves an entry of the right size over a chain that ends early (`"broken"`), and
the installer looks at the size only; the copy of the kernel, checked by the
size in the cache, can be empty on the device when its flush failed
(`exfat.c:244`). `CompleteMeansInstalled` therefore promises a whole
BOOTX64.EFI and kernel for an installation in which no operation failed, and the
table, the directories and the entries for any that reports completion.

### Exfat

The device is `vbr`, `sysents`, `fat`, `dmap`, `data` and `dent`, the library's
memory `cmap`, `node` and `cached`, and `heap` counts the mounts the bump
allocator has paid for. `t` and `f` are the frames of an `exfat_truncate` and an
`exfat_flush_node` under way, with the places to go on at. One step is one
device write that can be told apart: a link, the zeroing of new clusters, data,
an entry, the bitmap. Each can fail, half done where it consists of several
sectors, and `Crash` drops the memory. `exfat_create_dir_path` walks down a path
(`NextComponent`), any path of the tree, and then remounts. A link that cannot be
read while new clusters are zeroed is an `exfat_bug`, which hangs (`Hung`,
`cluster.c:397-398`). `sound` ends what is promised: the
volume was mounted with a bitmap that does not cover its files, or a cut to
nothing stopped halfway.

### Xhci, Storage and SectorStore

A machine is a sequence of PCI functions. `Storage` starts the drivers in the
order of a program (`Starts`), then takes calls. `Direct` is a sector by way of
SATA; `SendCommand`, `DataSector`, `Status` and their failures are a command
through mass storage.

A sector operation of `sata.c` is one step, with the three results it has in
`Sata`. `SectorOk`: a running port carries it out. `SectorFails`: the port
reports an error, as for a sector the disk does not have, and stops; or all
command slots are taken. `SectorSilent`: on a stopped port the command occupies
one more slot, times out and is reported as done. `ci` is the number of commands
that the stopped port holds. Left out is what `Sata` has as `DeviceHangs`, a
running port that does not answer in time.

`SectorStore` is what the file systems are given: one request at a time; until
the disk has reported an error 0 means that everything was transferred; the call
that the error strikes returns -1; from then on 0 means nothing (`failed`), and
still no sector changes but those of the write under way, to its data. The
count is taken modulo 2^16, as `mass_storage.c:125` and `:151` cut it.

The search for the last sector always reads beyond the end of a disk smaller
than 2^49 sectors, so it always stops the port; from there a read is reported as
done as long as a command slot is left, and the search ends just below the
sector that failed (or lower, once the slots are full), up to twice the size of
the disk, where the comment of `usb_host_xhci.c:60` says "Returns
last LBA". `CapacityWithin` is what remains true. In the programs' own start
orders mass storage never gets that far: `ms_init` runs before `sata_init`.

### Ps2 and Gui

Three queues hold the bytes under way (controller, mouse, keyboard); how many
of each have arrived is chosen anew whenever the driver looks. `Ps2` has
initialisation, rings and packet decoding as operators on a ring; `Gui` makes
them the steps of a frame: `RunTasks`, `PollMoved` or `PollNothing`, `Draw`
(taskbar, menu and buttons, which act while they are drawn), `Click` or
`ClickHidden`. `pos` and `clean` observe framing, `fired` counts the buttons
that have acted since `button.c` was last told that the left button is up.

## 3. Runs

| Run | Bounds | Shows |
|---|---|---|
| `scheduler` | 3 slots, 1 function, 3 arguments, 2 priorities | type, table consistency, and completeness of frames whose callbacks register no task |
| `scheduler_live` | 3 slots, 2 functions | nobody starves under `run_loop`; sleepers wake under the frame loop |
| `scheduler_frame` (violation) | 3 slots | a callback that registers a task makes `run_all` skip a READY one |
| `sata` | 2 slots, 2 sectors, 2 contents, 3 attempts | slot ownership, disk contents against results, termination |
| `sata_silent` (violation) | 2 slots, 1 sector | a timeout is reported as success |
| `fat32` | 4 clusters, 2 names, files of up to 2 clusters, 4 calls, 1 fault | acyclic, disjoint chains; contents; accounting |
| `fat32_backup` (violation) | 1 call, no fault | the second FAT is wrong after a format |
| `boot` | disks of 3, 5, 12 and 16 sectors, 3 entry sectors, 2 boots, 4 faults | what an installation that reports completion has left on the disk, partition bounds, order of table and volumes, no damaged kernel started |
| `boot_reinstall` (violation) | as `boot` | an installed disk is wiped by the bootloader |
| `exfat` | 8 clusters, 2 files, 2 nested directories, sizes 0, 2, 3 and 4, 6 calls, 1 fault, 3 mounts | cluster ownership, contents, mountability |
| `storage` | 5 machines, disks of 2, 3 and 16 sectors, 3 start-ups, 3-bit blocks, 2-bit counts, 3 command slots, 2 calls, 1 fault | refinement of `SectorStore`, bound on the capacity, no recursion, one controller |
| `input` | rings of 4, 3 kinds of report, 2 packets, 1 key, 16 by 16 screen | framing, one action per streak of frames with the button down, keys, input taken (liveness) |

Why the bounds are enough. Three slots let the cursor be before, at and behind
a task that a third one changes. Two command slots are what it takes for one to
be abandoned and another used. Four FAT32 clusters hold the root, a subdirectory
and a chain that has a link, or two files that compete for clusters; four calls
create, replace, reuse and observe; one fault placed anywhere reaches every
error path, and the same specification also passes with two faults or five
calls, which take longer. The disks of `boot` are shorter than the table (so
that subtractions wrap), exactly as long, too short for the second partition
and long enough; four faults let an installation fail, leave a dirty node and
go on; two boots are an installation and the boot after it. In `exfat` the root
directory is full after one entry and must grow, five free clusters are too few
for both files, so that growth fails and is undone, and become fragmented, so
that files lose contiguity; a path of two components is made, found half made
and made again; six calls are format, mount, and four that write,
cut, rewrite or read. In `storage` blocks of 3 bits reach the top-bit refusal
and the cut of READ CAPACITY, the disk sizes lie below, between and above the
probes, counts of 2 bits are cut for a call of four sectors, three command slots
are filled by a search and a call, and two calls let the second meet what the
first left behind. In
`input` a ring of 4 holds a packet and overflows in the next. Symmetry is used
for arguments, names and data where they are only compared.

Fairness. `Scheduler`: the loops keep executing, task functions return (the
scheduler is cooperative and has no other way to get control back), and the
frame loop keeps calling `run_all` with a positive time, as
`gui/graphics_init.c` does. `Sata`: the driver's own steps, whose loops are
bounded; nothing is assumed of the controller. `Gui`: the kernel's only thread
keeps running (`WF_vars(KernelStep)`); nothing is assumed of the devices.

Deadlock is not checked where a behaviour may end: the bounded number of calls
and boots, and in `Gui` the machine switched off.

The MC modules only supply symmetry sets, sets of machines, start-up sequences
and packets, and the directory tree.

Two places of `Exfat` differ from the code on purpose. A failed `exfat_init` leaves
`g_initialized` at 1 over an empty `g_ef` (`exfat.c:119-124`), and the model clears
it, since no program calls on after it (`bootloader.c:384-387`). `check_entries`
looks at the types of the entries of a set: a set torn by an earlier flush is
written over by the next, one torn while it was deleted is refused, and
`FlushEntry` leaves open which of the two a torn set is.

What limits the properties. `NoCrossLink` and `ContentsKept` of `Exfat` end with
`sound`, because the code does break there: a failed cut to nothing
(`cluster.c:333-358`) leaves a size without a start, and the root's growth is
not followed by a bitmap flush (`node.c:642`), so after a remount a file can be
given the root's new cluster. For the same reason `TypeOK` bounds a file's size
by the volume only while `sound` holds: with clusters that the bitmap lacks,
`grow_file` is given the same cluster again and the file can grow past the
volume. And `want` forgets a file when the machine stops before its node, or the
node of a directory above it, could be flushed: the entry of a directory that
has grown but failed to be flushed still has the old size, and what was created
in the new cluster is gone with the cache. `InStep` ends when a full ring drops a byte or a
late answer of the initialisation gets between packets: 0xFA has bit 3 set and
is decoded as a packet's first byte, and nothing resynchronises afterwards.
`OncePerStreak` is about frames that report the left button down one after the
other; a frame whose poll finds no packet reports all buttons up
(`graphics_init.c:288-294`), so a press held over it can act a second time.
`InputTaken` asks that the mouse's ring is again and again short of a packet,
and of the keyboard's ring only that it is read: at most one make code is taken
in a frame, so it need not become empty. `KeyNotOverwritten` and the keyboard's
half of `InputTaken` say something only where `keyboard_task` is registered,
which the run tries and no program does. `ChainsSound`, `ContentsKept` and
`CleanAccounting` of `Fat32` end with the faults named in section 2; what is
left for every fault is `ChainsAcyclic`. `Fat32`, `Exfat` and `Boot` take the
result of a block operation as true: after a disk error `sata.c` may report
sectors as transferred that were not (finding 2), and what they show does not
extend to that.

## 4. Proofs

Every safety property of every passing run is a theorem of the specification, for all values of the constants that the ASSUME of its
module allows. Each proof follows the same plan: an inductive invariant
`Inv`, one lemma per action or group of actions that it is kept, and the
property as a consequence of `Inv`.

| Module | Theorems | Property |
|---|---|---|
| `SchedulerProofs` | `TypeCorrect`, `TableCorrect`, `FrameCorrect` | `TypeOK`, `TableConsistent`, `RunsAllReadyUnlessMoved` |
| `SataProofs` | `TypeCorrect`, `NeverRebuilt`, `NeverAbandoned`, `ReturnsTrue` | `TypeOK`, `NoRebuildInFlight`, `NothingAbandoned`, `AckedOnDisk` |
| `StorageProofs` | `TypeCorrect`, `ControllerConsistent`, `NoRecursion`, `CapacityBounded`, `Refinement` | `TypeOK`, `OneController`, `BackedBySata`, `CapacityWithin`, `IsSectorStore` |
| `BootProofs` | `TypeCorrect`, `PartitionsCorrect`, `KernelWhole`, `InstallCorrect`, `NoWriteUnpartitioned` | `TypeOK`, `PartitionsSane`, `StartsOnlyWholeKernel`, `CompleteMeansInstalled`, `WritesOnlyPartitioned` |
| `GuiProofs` | `TypeCorrect`, `FramingKept`, `OneButton`, `KeysSeen` | `TypeOK`, `InStep`, `OncePerStreak`, `KeyNotOverwritten` |
| `ExfatProofs` | `TypeCorrect`, `ClustersApart` | `TypeOK`, `NoCrossLink` |
| `ExfatContents`, on top of it | `ContentsStay`, `VolumeAtRest` | `ContentsKept`, `AtRest` |
| `Fat32Proofs` | `TypeCorrect`, `Acyclic`, `ChainsStaySound`, `ContentsStay`, `Accounting` | `TypeOK`, `ChainsAcyclic`, `ChainsSound`, `ContentsKept`, `CleanAccounting` |

The assumptions say that sizes, widths and bounds are natural numbers of the
least size the code works with (a table of two sectors, a screen the icon fits
on, a disk with a sector), that markers such as `NULL` or `LOST` are no data,
that inputs have the types of the code's parameters, and that there are
finitely many names in a directory, which have 11 bytes. `2^LbaBits \in Nat` in
`StorageAssumption` is a fact the provers do not have. Bounds on calls, faults
and boots are arbitrary naturals, so the theorems hold after any number of them.

### Scheduler

The count is related to the cardinality of the set of used slots; each
operation adds or removes slots it knows to be empty or in use.
`RunsAllReadyUnlessMoved` speaks of the end of a frame and is not inductive.
`ControlInv` ties the observations to the frame under way, and `FrameInv` says
of every state of a frame whose cursor has not moved that an untouched slot has
been called exactly if it is READY and the loops have passed its turn.

### Sata

`AckedOnDisk` only speaks of the states between calls. During a write the
sector may hold the old or the new contents (`DiskKnown`); that a slot the
controller has cleared was carried out (`ClearedDone`) makes the result right
at the end. For that the table of the slot must still be the call's
(`TableOfCall`), which is what `NoRebuildInFlight` and `NothingAbandoned` give,
and a port that reported an error must stand still (`ErrorHalts`).

### Storage

`OneController` needs that the device table names functions of the machine
(`XhciInv`). `CapacityWithin` needs that until the doubling ends the port runs,
so that the last sector read exists and the one that failed is at most its
double (`Doubled`); where the search then ends in between does not matter.

`Refinement` is `Spec => IsSectorStore`. `DoneSoFar` says that the first `n`
sectors of the request are transferred unless the port had stopped before the
call, and `Progress` that a call reports
success only with `n` the whole count: a status that the transport keeps from
the data phase is that of the complete transfer. With them each step is a step
of the store or leaves its variables alone: the entry of a call is `Call`, a
sector written, also by a write that fails, is `Change`, the return is `Succeed`
or `Fail`, and start-up, the search for the size, commands and statuses are
invisible.

### Boot

The tables that the programs make are three (`Parts0` to `Parts2`), and `MemInv`
says which one is in memory where. Partitions are sane because a table counts
as initialised only when the reserved sectors fit on the disk, so that
`total_sectors - 34` has not wrapped, and because a partition has passed
`gpt_add_partition`. `DiskInv` says how much of the table has been written:
`CompleteMeansInstalled` and `WritesOnlyPartitioned` follow, since no program
gets to a volume with less than all of it. `VolInv` gives what has been done to
the volumes where a program has got to pc.

### Ps2 and Gui

`InStep` is about the groups of three bytes in the ring. `Framing` relates ring
and mouse queue: while nothing was lost they are one sequence of packets whose
total length is a multiple of three; answers come before all packets; before
the mouse reports the ring is empty. The lemma `Fill` says what `ps2_process_incoming`
pushes, by the arithmetic of a ring of any size. `OncePerStreak` needs `PressInv`:
a button that acted is remembered as long as the streak lasts, also when the
menu it closes uncovers another one.

### Fat32

* `Acyclic`. Acyclicity is stated as "no set of clusters is closed under the
  links", which needs no walk along a chain. Freeing or terminating removes a
  link. A new link goes to a cluster whose own entry is the end mark, so no
  closed set can contain it; `ChainInv` keeps that fact from the allocation to
  the link, and that the link starts at a different, allocated cluster.
* `TypeCorrect` needs that no entry has the root's cluster and that directories
  have one (`GoodDirs`), for all directories on the disk and not just the
  reachable ones, as a step may make others reachable.
* `ChainsStaySound` and `ContentsStay`. What walks along chains find is not
  inductive. The invariant is `\E own : Sound(own)`: a map from clusters to
  owners (an entry, the call that has just allocated the cluster, or nobody)
  such that the first cluster of an entry is the entry's, links stay with their
  owner (`Closed`), owned clusters are not free, and contents are right
  locally: in an owner's clusters the chunk `k` links to chunk `k + 1`
  (`Keeps`, and `Written` for the chain being built). Every action's lemma says
  how the map changes: the old chain becomes nobody's when it has been freed, an
  allocated cluster the call's, and the call's clusters the entry's with the
  directory write. What the map implies of walks is proved once.
* `Accounting`. `CleanInv` adds `Exact(own)`: a cluster nobody owns is free,
  owners are entries in use, chains do not join, the count is that of the free
  clusters, and the owned clusters without a predecessor are those where chains
  begin. A set of clusters each of which has its predecessor in the set is empty
  as there are no cycles (`NoLeaders`), so every owned cluster is found from its
  entry, and a loop that follows the links frees the whole chain. `TreeKept` is
  the part about directories: without `Buries` the directory write makes no
  directory with entries unreachable.

### Exfat

`NoCrossLink` speaks of the clusters a file is found to have by following its
chain, and a chain is a walk through a FAT that a call under way has half
rewritten. The invariant is `IInv`, whose parts are:

* `Length(o)`, how many places of a file count: its size; the size and what
  `grow_file` has linked so far; or what `shrink_file` has not yet cut off.
  `At(o, i)` is the cluster at a place.
* `Apart`: two places that count hold different clusters, all in the bitmap and
  none of the system area's. `Whole`: a contiguous file has all its clusters (a
  linked one need not: after a failed write its chain may end early).
* `Growing`: during a growth `t.prev` is the cluster at the last place that
  counts, and of a contiguous file every place is start plus index, so that the
  links `make_noncontiguous` writes are those the walk has taken all along.
* `CutOff`: what is to be freed is apart from everything that counts and from
  itself, in the order in which the loop meets it. Clearing the entry of one
  cluster then leaves every chain that counts, and the rest of what is to be
  freed, alone.
* `NoStart`: without a start there is no size, which fails only where `sound`
  ends.

Each lemma on an action names the walks that its change of the FAT leaves
alone (`WalkSame`, `WalksAgree`) and the one it prolongs or cuts. The bound of
`TypeOK` on sizes follows from `Apart`: the places of a file are as many
different clusters. `Follow` is a recursive function over `Nat`, whose equation
is earned as described below (`WalkIs`).

`ContentsKept` is about what lies in the clusters, and about finding it again
from the root. Its invariant `KInv` stands on `IInv`:

* `Script` says which call is under way at which place in the code, what has
  become of its file or directory by then, and that nothing is promised of a
  file while it is written.
* `Seated`: every node of the tree sits in a slot of a cluster of its directory,
  at a place that a shrink under way does not take away (`Sits`, `Counts`).
* `Synced`: a node that is not dirty is as its entry on the device has it
  (`Match`). The exception is a directory with nothing in it (`Hollow`):
  `exfat_mkdir` that fails halfway may leave a clean node whose entry is gone.
* `KeptFiles`: a file whose contents is promised sits in a directory that sits
  in one, up to the root, and has the size and the data. `OnDisk` says the same
  going by the device alone, for the time when nothing is mounted.
* `Wrote`, `Dropped`, `Fresh` and `Room` carry facts from one step of a call to
  a later one: what `exfat_generic_pwrite` wrote, that all was flushed on the way
  from `exfat_unmount` to `exfat_mount`, that a new directory is empty, that a
  slot was found.

`Apart` then gives what matters: the clusters `WriteData` and `EraseNew`
overwrite are at places of one file, so that no entry of what sits and no data
of another file is in them; and the slot `commit_entry` takes holds the entry of
nothing that sits. A file that was flushed, with the directories above it, is
found on the device as it was in memory (`FlushedKept`), and a mount puts it
back (`MountStore`).

`AtRest` is about the device alone, while memory and device are written at
different times: `grow_file` links clusters the entry does not have yet,
`shrink_file` cuts off clusters it still has, an entry is written before the
bitmap, and the entry of a directory after the entries in its new cluster. Its
invariant `RInv`, for the time that nothing has failed, says `Laid` while nothing
is mounted (the root ends, every entry with clusters sits in its directory and is
in the bitmap, going by the device) and `Healthy` while something is:

* `Entered`: a node has its entry, in its slot. `Lodged`: a slot that matters is
  at a place of its directory that the entry of the directory has as well, since
  after a mount nothing else is found.
* `Agrees`: the clusters an entry has are those at the same places of the file,
  though the file has changed since and may have become non-contiguous
  (`SameLinks`). `NotLonger`, `Unread`: how the two sizes compare.
* `Full`, `CutFull`, `Starts`, `Ended`: no chain ends early, which after failed
  writes it may; a file without clusters has no start; the root, whose size is
  in no entry, ends in the FAT where its node says.
* `Mapped`: the bitmap on the device has the clusters that entries have, and is
  the one in memory unless that is marked dirty.
* `Smooth`, with `Gone`, `Coming`, `Fresher` and `Behind`: the places in a call
  where one of these does not hold for the moment, and what is about to mend it.

An entry is never longer than its file when the entry is read again, because
every cut is flushed before the call returns; and the bitmap on the device can be
older than the FAT without harm, because `exfat_flush_node` writes it after the
entry: it loses a freed cluster only once the entry has. `exfat_truncate` without
failures is ten kinds of steps (`Went`), and each part of `Healthy` is kept by
each of them.

The attempt to prove these corrected the model twice. In a directory whose chain
was cut short by a failed write the slot found by `find_slot` may be in no
cluster; `commit_entry` then fails, which the model had left out. And a file
whose own node was flushed is still lost when the node of its directory was not;
`want` had kept the promise. Neither case occurs in the instance TLC checks.

Recursive functions (`ReachableDirs`, `Walk`, the ring's filling, the sums of
motions) need a proof that the function exists before their equation can be
used. The library's theorems for that have operator parameters; instead the
least length without such a function (`Least`) is led to a
contradiction (`SpreadExists`, `WalkExists`, `FillingExists`, `SumExists`).
Facts about what they compute follow in the same way, from the first place
where they fail.

### Only model-checked

* Liveness: `RunLoopStarvesNobody`, `SleepersWake`, `CallsReturn`, `InputTaken`.
  The prover has no rules for fairness.
* The four runs that expect a violation: TLC's counterexample is the result.

## 5. Findings

1. `scheduler_run_all` does not run all READY tasks when a callback registers
   one (`scheduler/scheduler.c:169`); no task in the repository does so today.
2. `ahci_issue_and_wait` returns 0 on a timeout (`drivers/sata/sata.c:332`),
   which its comment excludes; a read error is enough to get there.
3. `fat32_format` writes the second FAT without its first three entries
   (`fs/fat32/fat32.c:479`).
4. The bootloader looks for DATA in a table that nothing has read
   (`boot/Uefi/bootloader.c:369`), so it reinstalls an intact system at every
   boot.

Seen on the way, without a run of their own: `keyboard_task` is registered by
no program, so the kernel never hides the pointer on a key press as
`gui/graphics_init.c:581` says, and the keyboard's ring fills up and stays full;
`ms_init` runs before `sata_init` in the installer and the bootloader, so mass
storage never becomes present there; were it started after SATA, as
`probe_sata_last_lba` expects, it would report up to twice the disk's capacity.

## 6. Plan

The modules, runs and theorems planned are there. Open are the hazards without
a property: two of the scheduler that follow from a single line (statistics
credited to a slot that was given away, and `run_loop`'s tick of 0.0), and three
of FAT32: a partition of fewer than 32 sectors, the length `fat32_read_file_in`
reports for a chain that ends early, and the drive's write cache. The last would
be the next step: a layer between `Storage` and
`Sata` that keeps any subset of the sectors written since the last flush.

## 7. Not modelled

* FAT32's read, compare and list functions, which change nothing, and its FAT
  size formula, which is arithmetic without steps.
* The drive's write cache: a sector write that has returned is durable.
* What no program calls: `gpt_delete_partition`, `gpt_list_partitions`,
  `xhci_core.c`, exFAT's unlink, rmdir, rename, label and repair functions. The
  exFAT calls that take a parent cluster look names up under a stand-in
  directory of size zero and find nothing.
* Drawing, fonts, icons, the taskbar cache, timers, serial output and memory
  helpers: no state a property could be about.
* `ps2_wait_input`, which waits for ever when there is no PS/2 controller.
* The legacy BIOS loader and the files no Makefile target compiles.
