-------------------------------- MODULE Boot --------------------------------
(***************************************************************************)
(* From power on to the kernel: efi_main of the installer                  *)
(* (src/installer/installer.c) and of the bootloader                       *)
(* (boot/Uefi/bootloader.c), which share a disk and differ in what they do *)
(* when a step fails.  Partitioning is Gpt, sector by sector.  A call of   *)
(* the FAT32 or exFAT code is one step whose outcomes are the results the  *)
(* call can have and what it then leaves on the volume (Fat32 and Exfat    *)
(* have the detail); power may be lost before any step, and inside a call  *)
(* that is the call failing followed by the loss of power.                 *)
(*                                                                         *)
(* Left out: the README.txt step, which never writes (Exfat), fsck, which  *)
(* is a stub returning 0, cache flushes and delays, whose results no       *)
(* program looks at, and all output.                                       *)
(***************************************************************************)
EXTENDS Gpt

CONSTANTS
    FatStart, FatLength,    \* 2048 and 300 MiB of sectors
    MaxBoots                \* bound on the times the machine is switched on

ASSUME BootAssumption ==
    /\ FatStart \in Nat /\ FatLength \in Nat \ {0}
    /\ FatStart >= Reserved
    /\ FatStart + FatLength < Width
    /\ MaxBoots \in Nat

VARIABLES
    prog,      \* "installer" or "bootloader"
    fat,       \* the BOOT volume: is there a file system, EFI and EFI/BOOT, BOOTX64.EFI
    ex,        \* the DATA volume: file system, ENTROPY.OS, directories, the copy
    mounted,   \* exfat.c's g_initialized
    unflushed, \* the node of ENTROPY.OS is dirty in exFAT's cache
    tries,
    pi,        \* the DATA partition as the bootloader found it
    boots

volumes == <<fat, ex>>
program == <<prog, mounted, unflushed, tries, pi, boots>>
table   == <<total, disk, gpt, lba, adding>>
vars    == <<table, pc, faults, volumes, program>>

NoFat == [fs |-> "none", dirs |-> 0, os |-> "absent"]
NoEx  == [fs |-> "none", os |-> "absent", tree |-> {}, copy |-> "absent"]

(* The directories of the DATA volume, in the order they are made.          *)
Paths == <<"freedom/user", "sys/DoNotTouch", "sys/fonts">>

(* A file on a volume: absent, present with size zero, damaged, with the    *)
(* right entry over a chain of clusters that ends early, or whole.          *)
FileStates == {"absent", "empty", "bad", "broken", "good"}

(* The layout both programs ask for.                                        *)
FatEnd    == FatStart + FatLength - 1
DataStart == FatEnd + 1
DataEnd   == Wrap(total - Reserved)

ForeignTable(l) ==
    CASE l = 0 -> Mbr
      [] l = 1 -> HeaderSector(Sealed([NoHeader EXCEPT !.cur = 1, !.ents = 2]))
      [] l = 2 -> EntryOf(<<1, 2>>)
      [] OTHER -> Blank

Init ==
    /\ total \in DiskSizes
    /\ \/ disk = [l \in 0 .. total - 1 |-> Blank]
       \/ disk = [l \in 0 .. total - 1 |-> ForeignTable(l)]
    /\ g_gpt_header = NoHeader /\ g_partitions = [p \in Index |-> Unused]
    /\ g_gpt_initialized = FALSE
    /\ pc = "off" /\ lba = 0 /\ adding = 0 /\ faults = 0
    /\ prog = "installer" /\ fat = NoFat /\ ex = NoEx
    /\ mounted = FALSE /\ unflushed = FALSE /\ tries = 0 /\ pi = Unused /\ boots = 0

-----------------------------------------------------------------------------
(* Power.                                                                   *)
PowerOn ==
    /\ pc = "off" /\ boots < MaxBoots
    /\ prog' \in {"installer", "bootloader"}
    /\ boots' = boots + 1
    /\ g_gpt_header' = NoHeader /\ g_partitions' = [p \in Index |-> Unused]
    /\ g_gpt_initialized' = FALSE
    /\ mounted' = FALSE /\ unflushed' = FALSE /\ tries' = 0 /\ pi' = Unused
    /\ lba' = 0 /\ adding' = 0
    /\ pc' = "probe"
    /\ UNCHANGED <<total, disk, volumes, faults>>

(* The machine is switched off, or loses power; a program that returned, an *)
(* exfat_bug and a running kernel all end here too.                         *)
PowerOff ==
    /\ pc # "off" /\ pc' = "off"
    /\ UNCHANGED <<table, faults, volumes, program>>

Goto(l) == pc' = l /\ UNCHANGED <<table, volumes, program>>
Ok      == UNCHANGED faults
Failing == faults < MaxFaults /\ faults' = faults + 1

-----------------------------------------------------------------------------
(* Drivers, capacity, and for the bootloader the look for partition 1 in a  *)
(* table that nothing has read.                                             *)
Probe ==
    /\ pc = "probe"
    /\ \/ Ok /\ IF prog = "bootloader" /\ gpt_get_partition(1)
                THEN /\ pi' = g_partitions[1] /\ pc' = "mount"
                     /\ UNCHANGED <<table, volumes, prog, mounted, unflushed, tries, boots>>
                ELSE Goto("capacity")
       \/ Failing /\ Goto("returned")           \* no block device

Capacity ==
    /\ pc = "capacity"
    /\ \/ Ok /\ Goto("wipe")
       \/ Failing /\ Goto("returned")

(* wipe_disk_headers: what it returns makes no difference.                  *)
(* Faulty variant: one sector more is wiped.                                *)
Wipe_OneMore ==
    /\ pc = "wipe"
    /\ \/ /\ WriteOk(lba, Blank)
          /\ IF lba < Reserved THEN lba' = lba + 1 /\ UNCHANGED pc
                               ELSE lba' = 0 /\ pc' = "mbr"
       \/ WriteFails(lba) /\ lba' = 0 /\ pc' = "mbr"
    /\ UNCHANGED <<total, gpt, adding, volumes, program>>

Wipe ==
    /\ pc = "wipe"
    /\ \/ /\ WriteOk(lba, Blank)
          /\ IF lba + 1 < Reserved THEN lba' = lba + 1 /\ UNCHANGED pc
                                   ELSE lba' = 0 /\ pc' = "mbr"
       \/ WriteFails(lba) /\ lba' = 0 /\ pc' = "mbr"
    /\ UNCHANGED <<total, gpt, adding, volumes, program>>

(* gpt_create_table and gpt_add_partition, step by step.                    *)
Partitioning ==
    /\ CreateMbr \/ WriteHeader \/ WriteEntry \/ WriteBackup
    /\ UNCHANGED <<volumes, program>>

AddBoot ==
    /\ pc = "created" /\ gpt_add_partition(FatStart, FatEnd)
    /\ UNCHANGED <<volumes, program>>

AddData ==
    /\ pc = "added" /\ adding = 0 /\ gpt_add_partition(DataStart, DataEnd)
    /\ UNCHANGED <<volumes, program>>

Partitioned == pc = "added" /\ adding = 1 /\ Ok /\ Goto("fatformat")

GptFailed == pc = "failed" /\ Ok /\ Goto("returned")

-----------------------------------------------------------------------------
(* The BOOT volume.  The installer ends with "Done." when a step fails, the *)
(* bootloader goes on to DATA.                                              *)
AfterFatFailure == IF prog = "installer" THEN "returned" ELSE "data"

SetFat(f, l) == fat' = f /\ pc' = l /\ UNCHANGED <<table, ex, program>>

FatFormat ==
    /\ pc = "fatformat" /\ gpt_get_partition(0)
    /\ \/ Ok /\ SetFat([NoFat EXCEPT !.fs = "ok"], "fatdirs")
       \/ Failing /\ \E s \in {"bad", "ok"} : SetFat([NoFat EXCEPT !.fs = s], AfterFatFailure)

FatDirs ==
    /\ pc = "fatdirs"
    /\ \/ Ok /\ SetFat([fat EXCEPT !.dirs = 2], "fatwrite")
       \/ Failing /\ \E d \in 0 .. 2 : SetFat([fat EXCEPT !.dirs = d], AfterFatFailure)

(* fat32_write_file_in, and the installer's look at the size in the entry.  *)
(* The call reports success also when a cluster was not linked to the one   *)
(* before it, a result it does not look at.                                 *)
FatWrite ==
    /\ pc = "fatwrite"
    /\ \/ Ok /\ SetFat([fat EXCEPT !.os = "good"], "data")
       \/ Failing /\ SetFat([fat EXCEPT !.os = "broken"], "data")
       \/ Failing /\ \E s \in {"absent", "bad"} : SetFat([fat EXCEPT !.os = s], AfterFatFailure)

-----------------------------------------------------------------------------
(* The DATA volume.  A failure up to the first file ends either program.    *)
ExFormat ==
    /\ pc = "data" /\ gpt_get_partition(1)
    /\ \/ Ok /\ ex' = [NoEx EXCEPT !.fs = "ok"] /\ mounted' = TRUE /\ pc' = "exwrite"
       \/ Failing /\ pc' = "returned" /\ UNCHANGED mounted
          /\ \E s \in {"bad", "ok"} : ex' = [NoEx EXCEPT !.fs = s]
    /\ UNCHANGED <<table, fat, prog, unflushed, tries, pi, boots>>

(* exfat_write_file("ENTROPY.OS").  It reports success also when the node   *)
(* could not be flushed; the entry on disk is then the one made at          *)
(* creation, of size zero, and the node stays dirty.                        *)
ExWrite ==
    /\ pc = "exwrite"
    /\ LET next == IF prog = "installer" THEN "tree" ELSE "verify"
       IN  \/ Ok /\ pc' = next /\ unflushed' = FALSE /\ ex' = [ex EXCEPT !.os = "good"]
           \/ Failing /\ pc' = next /\ unflushed' = TRUE /\ ex' = [ex EXCEPT !.os = "empty"]
           \/ Failing /\ pc' = "returned" /\ UNCHANGED unflushed
              /\ \E s \in {"absent", "empty", "bad"} : ex' = [ex EXCEPT !.os = s]
    /\ UNCHANGED <<table, fat, prog, mounted, tries, pi, boots>>

(* The bootloader looks the file up, in the cache.                          *)
ExVerify ==
    /\ pc = "verify"
    /\ \/ Ok /\ Goto("tree")
       \/ Failing /\ Goto("returned")

(* exfat_create_dir_path, once for each path: make it, unmount, mount.  The *)
(* unmount flushes a dirty node; when that fails again, dropping the dirty  *)
(* node is an exfat_bug, which does not return.  When the mount fails the   *)
(* volume stays unmounted and every later call fails.                       *)
AfterTree == IF tries + 1 < Len(Paths) THEN "tree" ELSE "copy"
NextTry   == tries' = IF tries + 1 < Len(Paths) THEN tries + 1 ELSE 0

FlushedOs == IF unflushed THEN "good" ELSE ex.os

CreateDirPath ==
    /\ pc = "tree"
    /\ \/ /\ mounted /\ Ok /\ pc' = AfterTree /\ NextTry
          /\ ex' = [ex EXCEPT !.tree = @ \union {Paths[tries + 1]}, !.os = FlushedOs]
          /\ unflushed' = FALSE /\ UNCHANGED mounted
       \/ /\ mounted /\ Failing /\ pc' = AfterTree /\ NextTry      \* the mount failed
          /\ ex' = [ex EXCEPT !.tree = @ \union {Paths[tries + 1]}, !.os = FlushedOs]
          /\ unflushed' = FALSE /\ mounted' = FALSE
       \/ /\ mounted /\ Failing /\ pc' = AfterTree /\ NextTry      \* mkdir failed
          /\ UNCHANGED <<ex, mounted, unflushed>>
       \/ /\ mounted /\ unflushed /\ Failing /\ pc' = "bug"
          /\ UNCHANGED <<ex, mounted, unflushed, tries>>
       \/ /\ ~mounted /\ Ok /\ pc' = AfterTree /\ NextTry
          /\ UNCHANGED <<ex, mounted, unflushed>>
    /\ UNCHANGED <<table, fat, prog, pi, boots>>

(* The copy of the kernel: three attempts, each with a look at the size,    *)
(* which is right in the cache also when the node could not be flushed.     *)
CopyKernel ==
    /\ pc = "copy"
    /\ LET again == IF tries + 1 < 3 THEN "copy" ELSE "complete"
       IN  \/ /\ mounted /\ "sys/DoNotTouch" \in ex.tree /\ Ok
              /\ ex' = [ex EXCEPT !.copy = "good"] /\ pc' = "complete" /\ tries' = 0
           \/ /\ mounted /\ "sys/DoNotTouch" \in ex.tree /\ Failing
              /\ ex' = [ex EXCEPT !.copy = "empty"] /\ pc' = "complete" /\ tries' = 0
           \/ /\ mounted /\ "sys/DoNotTouch" \in ex.tree /\ Failing
              /\ \E s \in {"absent", "empty", "bad"} : ex' = [ex EXCEPT !.copy = s]
              /\ pc' = again /\ tries' = (tries + 1) % 3
           \/ /\ ~mounted \/ "sys/DoNotTouch" \notin ex.tree
              /\ Ok /\ pc' = again /\ tries' = (tries + 1) % 3 /\ UNCHANGED ex
    /\ UNCHANGED <<table, fat, prog, mounted, unflushed, pi, boots>>

(* The installer returns.  The bootloader asks the firmware to shut down,   *)
(* and goes on when the firmware does not.                                  *)
Complete ==
    /\ pc = "complete"
    /\ \/ prog = "installer" /\ Ok /\ Goto("returned")
       \/ prog = "bootloader" /\ Ok /\ Goto("refresh")
       \/ prog = "bootloader" /\ Ok /\ Goto("off")

-----------------------------------------------------------------------------
(* The bootloader loads the kernel: gpt_init, exfat_init, look up, read.    *)
Refresh == gpt_init /\ UNCHANGED <<volumes, program>>

Refreshed ==
    /\ pc = "refreshed" /\ Ok
    /\ IF gpt_get_partition(1) THEN pi' = g_partitions[1] /\ pc' = "mount"
                               ELSE UNCHANGED pi /\ pc' = "returned"
    /\ UNCHANGED <<table, volumes, prog, mounted, unflushed, tries, boots>>

(* exfat_init drops whatever the cache held and reads the volume anew; a    *)
(* damaged entry in the root directory makes it fail.                       *)
Mount ==
    /\ pc = "mount"
    /\ \/ /\ Ok /\ ex.fs = "ok" /\ ex.os # "bad"
          /\ mounted' = TRUE /\ unflushed' = FALSE /\ pc' = "lookup"
       \/ /\ (Ok /\ ~(ex.fs = "ok" /\ ex.os # "bad")) \/ Failing
          /\ pc' = "returned" /\ UNCHANGED <<mounted, unflushed>>
    /\ tries' = 0
    /\ UNCHANGED <<table, volumes, prog, pi, boots>>

LookUp ==
    /\ pc = "lookup"
    /\ \/ Ok /\ ex.os \in {"good", "empty"} /\ pc' = "read" /\ UNCHANGED tries
       \/ /\ (Ok /\ ex.os \notin {"good", "empty"}) \/ Failing
          /\ tries' = (tries + 1) % 3
          /\ pc' = IF tries + 1 < 3 THEN "lookup" ELSE "returned"
    /\ UNCHANGED <<table, volumes, prog, mounted, unflushed, pi, boots>>

(* Faulty variant: a read of nothing is not an error.                       *)
ReadKernel_AnyLength ==
    /\ pc = "read"
    /\ \/ Ok /\ Goto("load")
       \/ Failing /\ Goto("returned")

ReadKernel ==
    /\ pc = "read"
    /\ \/ Ok /\ ex.os = "good" /\ Goto("load")
       \/ Ok /\ ex.os # "good" /\ Goto("returned")      \* nothing read
       \/ Failing /\ Goto("returned")                   \* no buffer, or an error

StartKernel ==
    /\ pc = "load"
    /\ \/ Ok /\ Goto("kernel")
       \/ Failing /\ Goto("returned")

Next ==
    \/ PowerOn \/ PowerOff \/ Probe \/ Capacity \/ Wipe
    \/ Partitioning \/ AddBoot \/ AddData \/ Partitioned \/ GptFailed
    \/ FatFormat \/ FatDirs \/ FatWrite
    \/ ExFormat \/ ExWrite \/ ExVerify \/ CreateDirPath \/ CopyKernel \/ Complete
    \/ Refresh \/ Refreshed \/ Mount \/ LookUp \/ ReadKernel \/ StartKernel

Spec == Init /\ [][Next]_vars

-----------------------------------------------------------------------------
(* Properties.                                                              *)

(* The state of a boot has its type: the table in memory and on disk, the   *)
(* two volumes and the programs' variables.                                 *)
TypeOK ==
    /\ TypeOKGpt
    /\ prog \in {"installer", "bootloader"}
    /\ fat \in [fs : {"none", "bad", "ok"}, dirs : 0 .. 2, os : FileStates]
    /\ ex \in [fs : {"none", "bad", "ok"}, os : FileStates,
               tree : SUBSET {Paths[i] : i \in 1 .. 3}, copy : FileStates]
    /\ mounted \in BOOLEAN /\ unflushed \in BOOLEAN
    /\ tries \in 0 .. 2 /\ boots \in 0 .. MaxBoots

(* The sectors of the table as a later gpt_init would see them: a header    *)
(* whose checksums both hold, BOOT and DATA.                                *)
TableOnDisk ==
    /\ total >= Reserved
    /\ HeaderValid
    /\ \A p \in Index : Entry(2 + p) = Header1.arr[p]
    /\ Entry(2) = <<FatStart, FatEnd>> /\ Entry(3) = <<DataStart, DataEnd>>

(* When a program reports that it has finished (installer.c:317 after the   *)
(* whole chain, bootloader.c:300), the disk holds a table that verifies,    *)
(* with both partitions, and a DATA volume with an ENTROPY.OS in it; after  *)
(* the installer also EFI/BOOT and an entry of BOOTX64.EFI with its size,   *)
(* whose clusters need not all be linked (fat32.c:903).  gpt_verify agrees: *)
(* the checksum of the backup that gpt_create_table left behind is gone.    *)
(* When no operation has failed, everything is whole, however often power   *)
(* was lost on the way.                                                     *)
CompleteMeansInstalled ==
    pc = "complete" =>
        /\ TableOnDisk /\ gpt_verify
        /\ ex.fs = "ok" /\ ex.os \in {"good", "empty"}
        /\ prog = "installer" => fat.dirs = 2 /\ fat.os \in {"good", "broken"}
        /\ faults = 0 => /\ fat.os = "good" /\ ex.os = "good" /\ ex.copy = "good"
                         /\ ex.tree = {Paths[j] : j \in 1 .. 3}

(* Whatever was cut short before, StartImage is only given a kernel that    *)
(* was read whole (bootloader.c:428).                                       *)
StartsOnlyWholeKernel == pc = "kernel" => ex.fs = "ok" /\ ex.os = "good"

(* No partition that gpt_get_partition hands out reaches outside the usable *)
(* part of the disk or overlaps another, on any capacity, wrapped           *)
(* subtractions included (gpt.c:271, 345; gpt_add_partition does not look   *)
(* at the other entries).                                                   *)
PartitionsSane ==
    g_gpt_initialized =>
        \A p \in Index : g_partitions[p] # Unused =>
            /\ Reserved <= g_partitions[p][1]
            /\ g_partitions[p][1] < g_partitions[p][2]
            /\ g_partitions[p][2] <= total - Reserved
            /\ \A q \in Index \ {p} : g_partitions[q] # Unused =>
                   \/ g_partitions[p][2] < g_partitions[q][1]
                   \/ g_partitions[q][2] < g_partitions[p][1]

(* A volume is formatted or written only while the table on the disk has    *)
(* its partition: no failed partitioning step is passed over.               *)
WritesOnlyPartitioned ==
    [][volumes' # volumes => TableOnDisk]_vars

(* What bootloader.c:367 announces, "Find GPT partition index 1 (DATA)      *)
(* created by installer and mount exFAT there": on a disk that is installed *)
(* the bootloader does not start wiping.                                    *)
KeepsInstalledDisk ==
    prog = "bootloader" /\ pc = "wipe" /\ lba = 0 => ~(TableOnDisk /\ ex.os = "good")
=============================================================================
