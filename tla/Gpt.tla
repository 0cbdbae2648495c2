-------------------------------- MODULE Gpt --------------------------------
(***************************************************************************)
(* The partition table, fs/gpt/gpt.c: its copy in memory and its sectors   *)
(* on the disk, written one at a time, as the installer and the bootloader *)
(* use it.  Any sector write may fail, and between any two the machine may *)
(* lose power (Boot).                                                      *)
(*                                                                         *)
(* Abstractions: the 34 sectors of MBR, header and entries are 2 plus      *)
(* EntrySectors, with one entry to a sector; a checksum is the data it is  *)
(* taken over, so that two checksums are equal exactly when the data are;  *)
(* GUIDs and names are left out, a partition is its range of sectors.      *)
(* Sector numbers are unsigned and wrap at Width (2^64).                   *)
(***************************************************************************)
EXTENDS Integers, Sequences

CONSTANTS
    EntrySectors,   \* 32: GPT_MAX_PARTITIONS * 128 / 512
    Width,          \* 2^64
    DiskSizes,      \* capacities of the disks considered
    MaxFaults       \* bound on the failed block operations of a behaviour

ASSUME GptAssumption ==
    /\ EntrySectors \in Nat \ {0, 1}
    /\ Width \in Nat
    /\ \A t \in DiskSizes : t \in 1 .. Width - 1
    /\ EntrySectors + 2 < Width
    /\ MaxFaults \in Nat

Reserved == EntrySectors + 2                \* 34
Index    == 0 .. EntrySectors - 1           \* partition numbers
Wrap(n)  == n % Width

(* Sectors. *)
Blank       == [k |-> "blank"]
Mbr         == [k |-> "mbr"]
EntryOf(p)  == [k |-> "entry", p |-> p]
Unused      == <<0, 0>>                     \* an entry with a zero type GUID

VARIABLES
    total,               \* the capacity of the disk
    disk,                \* its sectors that this module reads or writes
    g_gpt_header, g_partitions, g_gpt_initialized,
    pc,                  \* where the running program is
    lba,                 \* its loop variable
    adding,              \* the entry gpt_add_partition is writing
    faults

gpt == <<g_gpt_header, g_partitions, g_gpt_initialized>>

NoHeader == [cur |-> 0, bak |-> 0, first |-> 0, last |-> 0,
             ents |-> 0, arr |-> [p \in Index |-> Unused], crc |-> <<>>]

(* crc32 over a header whose own checksum field is zero.                    *)
crc32(h) == <<h.cur, h.bak, h.first, h.last, h.ents, h.arr>>
Sealed(h) == [h EXCEPT !.crc = crc32(h)]
HeaderSector(h) == [k |-> "header", h |-> h]

TypeOKGpt ==
    /\ total \in DiskSizes
    /\ DOMAIN disk = 0 .. total - 1
    /\ g_partitions \in [Index -> (0 .. Width - 1) \X (0 .. Width - 1)]
    /\ g_gpt_initialized \in BOOLEAN
    /\ lba \in 0 .. Reserved - 1
    /\ adding \in Index \union {EntrySectors}
    /\ faults \in 0 .. MaxFaults

-----------------------------------------------------------------------------
(* One block_write_sector: it fails past the end of the disk, and it may    *)
(* fail anywhere.                                                           *)
WriteOk(l, s) ==
    /\ l < total
    /\ disk' = [disk EXCEPT ![l] = s]
    /\ UNCHANGED faults

WriteFails(l) ==
    /\ UNCHANGED disk
    /\ \/ l >= total /\ UNCHANGED faults
       \/ l < total /\ faults < MaxFaults /\ faults' = faults + 1

Fault(b) == faults' = IF b THEN faults + 1 ELSE faults

-----------------------------------------------------------------------------
(* gpt_create_table.                                                        *)
NewHeader == [cur |-> 1, bak |-> Wrap(total - 1),
              first |-> Reserved, last |-> Wrap(total - Reserved),
              ents |-> 2, arr |-> [p \in Index |-> Unused], crc |-> <<>>]

CreateMbr ==
    /\ pc = "mbr"
    /\ \/ WriteOk(0, Mbr) /\ pc' = "header"
          /\ g_gpt_header' = Sealed(NewHeader)
          /\ g_partitions' = [p \in Index |-> Unused]
       \/ WriteFails(0) /\ pc' = "failed" /\ UNCHANGED <<g_gpt_header, g_partitions>>
    /\ UNCHANGED <<total, g_gpt_initialized, lba, adding>>

(* Header and entries, written by create_table and by add_partition alike.  *)
(* Faulty variant: a failed write of the header is passed over.             *)
WriteHeader_Unchecked ==
    /\ pc \in {"header", "addheader"}
    /\ WriteOk(1, HeaderSector(g_gpt_header)) \/ WriteFails(1)
    /\ pc' = IF pc = "header" THEN "entries" ELSE "addentries"
    /\ lba' = 0
    /\ UNCHANGED <<total, gpt, adding>>

WriteHeader ==
    /\ pc \in {"header", "addheader"}
    /\ \/ WriteOk(1, HeaderSector(g_gpt_header))
          /\ pc' = IF pc = "header" THEN "entries" ELSE "addentries"
       \/ WriteFails(1) /\ pc' = "failed"
    /\ lba' = 0
    /\ UNCHANGED <<total, gpt, adding>>

WriteEntry ==
    /\ pc \in {"entries", "addentries"}
    /\ \/ /\ WriteOk(2 + lba, EntryOf(g_partitions[lba]))
          /\ IF lba + 1 < EntrySectors
             THEN lba' = lba + 1 /\ UNCHANGED pc
             ELSE lba' = 0 /\ pc' = IF pc = "entries" THEN "backup" ELSE "added"
       \/ WriteFails(2 + lba) /\ lba' = 0 /\ pc' = "failed"
    /\ UNCHANGED <<total, gpt, adding>>

(* The backup header: its write's result is not looked at, its entries are  *)
(* not written, and its checksum stays in the header kept in memory when    *)
(* the other fields are put back.                                           *)
BackupHeader == Sealed([g_gpt_header EXCEPT !.cur = Wrap(total - 1), !.bak = 1,
                                            !.ents = Wrap(total - Reserved + 1)])

WriteBackup ==
    /\ pc = "backup"
    /\ \/ WriteOk(Wrap(total - 1), HeaderSector(BackupHeader))
       \/ WriteFails(Wrap(total - 1))
    /\ g_gpt_header' = [g_gpt_header EXCEPT !.crc = BackupHeader.crc]
    /\ g_gpt_initialized' = TRUE
    /\ pc' = "created"
    /\ UNCHANGED <<total, g_partitions, lba, adding>>

-----------------------------------------------------------------------------
(* gpt_add_partition: first free entry, range check, then the change in     *)
(* memory, which a failed write does not take back.                         *)
FreeEntry == {p \in Index : g_partitions[p] = Unused}

(* Faulty variant: the end of the partition is not checked.                 *)
Fits_AnyEnd(first, last) == first >= g_gpt_header.first /\ first < last

Fits(first, last) ==
    /\ first >= g_gpt_header.first
    /\ last <= g_gpt_header.last
    /\ first < last

(* Faulty variant: the checksum of the entries is left as it was.           *)
gpt_add_partition_OldSum(first, last) ==
    /\ IF g_gpt_initialized /\ FreeEntry # {} /\ Fits(first, last)
       THEN LET p == CHOOSE q \in FreeEntry : \A r \in FreeEntry : q <= r
            IN  /\ g_partitions' = [g_partitions EXCEPT ![p] = <<first, last>>]
                /\ g_gpt_header' = Sealed(g_gpt_header)
                /\ adding' = p
                /\ pc' = "addheader"
       ELSE pc' = "failed" /\ UNCHANGED <<g_partitions, g_gpt_header, adding>>
    /\ UNCHANGED <<total, disk, g_gpt_initialized, lba, faults>>

gpt_add_partition(first, last) ==
    /\ IF g_gpt_initialized /\ FreeEntry # {} /\ Fits(first, last)
       THEN LET p == CHOOSE q \in FreeEntry : \A r \in FreeEntry : q <= r
                parts == [g_partitions EXCEPT ![p] = <<first, last>>]
            IN  /\ g_partitions' = parts
                /\ g_gpt_header' = Sealed([g_gpt_header EXCEPT !.arr = parts])
                /\ adding' = p
                /\ pc' = "addheader"
       ELSE pc' = "failed" /\ UNCHANGED <<g_partitions, g_gpt_header, adding>>
    /\ UNCHANGED <<total, disk, g_gpt_initialized, lba, faults>>

(* gpt_get_partition.                                                       *)
gpt_get_partition(p) == g_gpt_initialized /\ g_partitions[p] # Unused

(* gpt_verify, of the table in memory.                                      *)
gpt_verify ==
    /\ g_gpt_initialized
    /\ g_gpt_header.crc = crc32(g_gpt_header)
    /\ g_gpt_header.arr = g_partitions

-----------------------------------------------------------------------------
(* gpt_init.  The header is copied before it is checked, and the checksum   *)
(* of the entries is never compared.                                        *)
Header1 == IF disk[1].k = "header" THEN disk[1].h ELSE NoHeader

HeaderValid == disk[1].k = "header" /\ Header1.crc = crc32(Header1)

Entry(l) == IF l < total /\ disk[l].k = "entry" THEN disk[l].p ELSE Unused

gpt_init ==
    /\ pc = "refresh"
    /\ \E readable \in -1 .. EntrySectors :   \* -1: not even the header
        LET cut == readable < EntrySectors /\ (readable = -1 \/ HeaderValid)
        IN  /\ cut => faults < MaxFaults
            /\ ~cut => readable = EntrySectors
            /\ Fault(cut)
            /\ g_gpt_header' = IF readable = -1 THEN g_gpt_header ELSE Header1
            /\ g_partitions' =
                 [p \in Index |-> IF HeaderValid /\ p < readable
                                  THEN Entry(Header1.ents + p) ELSE g_partitions[p]]
            /\ IF cut \/ ~HeaderValid
               THEN pc' = "failed" /\ UNCHANGED g_gpt_initialized
               ELSE pc' = "refreshed" /\ g_gpt_initialized' = TRUE
    /\ UNCHANGED <<total, disk, lba, adding>>
=============================================================================
