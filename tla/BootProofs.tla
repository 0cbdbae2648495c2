----------------------------- MODULE BootProofs -----------------------------
(***************************************************************************)
(* Proofs about Boot and Gpt, for every size of the table and the disk,    *)
(* wherever sector operations fail and power is lost.                      *)
(***************************************************************************)
EXTENDS Boot, TLAPS

(* The tables a program makes: empty, with BOOT, with BOOT and DATA.        *)
Parts0 == [p \in Index |-> Unused]
Parts1 == [Parts0 EXCEPT ![0] = <<FatStart, FatEnd>>]
Parts2 == [Parts1 EXCEPT ![1] = <<DataStart, DataEnd>>]

(* The header gpt_create_table fills in, over the entries A and with the    *)
(* checksum c.                                                              *)
Hdr(A, c) == [cur |-> 1, bak |-> Wrap(total - 1), first |-> Reserved, last |-> DataEnd,
              ents |-> 2, arr |-> A, crc |-> c]
Sum(A) == <<1, Wrap(total - 1), Reserved, DataEnd, 2, A>>
FullHdr(A) == Hdr(A, Sum(A))

(* The first m sectors of the table in memory have been written.            *)
Written(m) ==
    /\ 1 < total /\ disk[1] = HeaderSector(g_gpt_header)
    /\ \A k \in 0 .. m - 1 : 2 + k < total /\ disk[2 + k] = EntryOf(g_partitions[k])

(* Where the programs are: before they have made a table of their own, and  *)
(* after they have written it.                                              *)
Before == {"probe", "capacity", "wipe", "mbr", "header", "entries", "backup"}
Making == {"header", "entries", "backup", "created"}
Adding == {"addheader", "addentries", "added"}
After  == {"fatformat", "fatdirs", "fatwrite", "data", "exwrite", "verify", "tree", "copy",
           "complete", "refresh", "refreshed", "mount", "lookup", "read", "load", "kernel"}
Pcs == Before \union Making \union Adding \union After \union {"off", "failed", "returned", "bug"}

(* A table that counts as initialised is one of the three, and its          *)
(* partitions passed the range check of gpt_add_partition.                  *)
FatFits  == FatStart < FatEnd /\ FatEnd <= DataEnd
DataFits == FatFits /\ DataStart < DataEnd
Layout ==
    /\ Reserved <= total /\ DataEnd = total - Reserved
    /\ \/ g_partitions = Parts0
       \/ g_partitions = Parts1 /\ FatFits
       \/ g_partitions = Parts2 /\ DataFits

MemInv ==
    /\ pc \in Pcs
    /\ pc \in Before => ~g_gpt_initialized
    /\ g_gpt_initialized => Layout
    /\ pc \in Making => g_partitions = Parts0
    /\ pc \in Before \cap Making => g_gpt_header = FullHdr(Parts0)
    /\ pc = "backup" => Reserved <= total
    /\ pc = "created" => g_gpt_initialized /\ g_gpt_header = Hdr(Parts0, g_gpt_header.crc)
    /\ pc \in Adding => /\ g_gpt_initialized /\ g_gpt_header = FullHdr(g_partitions)
                        /\ \/ adding = 0 /\ g_partitions = Parts1 /\ FatFits
                           \/ adding = 1 /\ g_partitions = Parts2 /\ DataFits

DiskInv ==
    /\ pc = "addentries" => Written(lba)
    /\ pc = "added" => Written(EntrySectors)
    /\ pc \in After => /\ g_gpt_initialized /\ g_partitions = Parts2 /\ DataFits
                       /\ g_gpt_header = FullHdr(Parts2) /\ Written(EntrySectors)
    /\ pc \in {"entries", "addentries"} => lba < EntrySectors

(* The volumes: what has been done when a program gets as far as pc.        *)
VolInv ==
    /\ pc \in {"exwrite", "verify", "tree", "copy", "complete"} => ex.fs = "ok"
    /\ pc \in {"verify", "tree", "copy", "complete"} => ex.os \in {"good", "empty"}
    /\ pc \in {"data", "exwrite", "verify", "tree", "copy", "complete"} /\ prog = "installer" =>
           fat.dirs = 2 /\ fat.os \in {"good", "broken"}
    /\ pc = "fatwrite" => fat.dirs = 2
    /\ pc \in {"lookup", "read", "load", "kernel"} => ex.fs = "ok"
    /\ pc \in {"load", "kernel"} => ex.os = "good"

Inv == TypeOK /\ MemInv /\ DiskInv /\ VolInv

-----------------------------------------------------------------------------
LEMMA Arith ==
    ASSUME TypeOKGpt
    PROVE  /\ total \in Nat /\ total < Width /\ EntrySectors \in Nat /\ Reserved \in Nat
           /\ Reserved = EntrySectors + 2 /\ EntrySectors >= 2
           /\ 0 \in Index /\ 1 \in Index /\ Index \subseteq Nat /\ lba \in Nat
           /\ Width \in Nat /\ DataEnd \in 0 .. Width - 1
           /\ Reserved <= total => DataEnd = total - Reserved
           /\ FatEnd \in Nat /\ FatEnd < Width /\ FatStart <= FatEnd /\ DataStart = FatEnd + 1
           /\ Reserved <= FatStart
  <1>1. total \in Nat /\ total < Width /\ Width \in Nat \ {0}
    BY GptAssumption DEF TypeOKGpt
  <1>2. EntrySectors \in Nat /\ EntrySectors >= 2 /\ Reserved \in Nat
    BY GptAssumption DEF Reserved
  <1>3. DataEnd \in 0 .. Width - 1
    BY <1>1, <1>2 DEF DataEnd, Wrap
  <1>4. Reserved <= total => DataEnd = total - Reserved
    <2>1. ASSUME Reserved <= total PROVE (total - Reserved) % Width = total - Reserved
      <3>1. total - Reserved \in Nat /\ total - Reserved < Width
        BY <1>1, <1>2, <2>1
      <3> QED
        BY <1>1, <3>1
    <2> QED
      BY <2>1 DEF DataEnd, Wrap
  <1>5. FatEnd \in Nat /\ FatEnd < Width /\ FatStart <= FatEnd /\ Reserved <= FatStart
    BY <1>1, <1>2, BootAssumption DEF FatEnd
  <1>6. 0 \in Index /\ 1 \in Index /\ Index \subseteq Nat
    BY <1>2 DEF Index
  <1>7. lba \in Nat
    BY <1>2 DEF TypeOKGpt
  <1> QED
    BY <1>1, <1>2, <1>3, <1>4, <1>5, <1>6, <1>7 DEF Reserved, DataStart

Entries == [Index -> (0 .. Width - 1) \X (0 .. Width - 1)]

LEMMA PartsType ==
    ASSUME TypeOKGpt
    PROVE  /\ Parts0 \in Entries /\ Parts1 \in Entries
           /\ DataFits => Parts2 \in Entries
  <1>1. Parts0 \in Entries
    BY Arith DEF Parts0, Entries, Unused
  <1>2. Parts1 \in Entries
    <2>1. <<FatStart, FatEnd>> \in (0 .. Width - 1) \X (0 .. Width - 1)
      BY Arith, BootAssumption
    <2> QED
      BY <1>1, <2>1 DEF Parts1, Entries
  <1>3. DataFits => Parts2 \in Entries
    <2>1. DataFits => <<DataStart, DataEnd>> \in (0 .. Width - 1) \X (0 .. Width - 1)
      BY Arith DEF DataFits
    <2> QED
      BY <1>2, <2>1 DEF Parts2, Entries
  <1> QED
    BY <1>1, <1>2, <1>3

(* The table in memory and on disk does not change: what is known of it     *)
(* stays known wherever the program goes on to.                             *)
LEMMA TableKept ==
    ASSUME Inv, UNCHANGED table,
           \/ pc' \in {"off", "returned", "bug"}
           \/ pc \in After /\ pc' \in After
           \/ pc = "added" /\ adding = 1 /\ pc' = "fatformat"
           \/ pc = "probe" /\ pc' = "capacity"
           \/ pc = "capacity" /\ pc' = "wipe"
    PROVE  MemInv' /\ DiskInv'
  <1> USE DEF Inv, table, gpt
  <1>1. UNCHANGED <<total, disk, g_gpt_header, g_partitions, g_gpt_initialized, lba, adding>>
    OBVIOUS
  <1>2. DataEnd' = DataEnd /\ Parts0' = Parts0 /\ Parts1' = Parts1 /\ Parts2' = Parts2
    BY <1>1 DEF DataEnd, Wrap, Parts0, Parts1, Parts2
  <1>3. Layout' = Layout /\ FatFits' = FatFits /\ DataFits' = DataFits
    BY <1>1, <1>2 DEF Layout, FatFits, DataFits
  <1>4. /\ FullHdr(Parts2)' = FullHdr(Parts2) /\ Written(EntrySectors)' = Written(EntrySectors)
        /\ FullHdr(Parts0)' = FullHdr(Parts0)
    BY <1>1, <1>2 DEF FullHdr, Hdr, Sum, Written, Wrap
  <1>5. MemInv'
    BY <1>1, <1>2, <1>3, <1>4 DEF MemInv, Pcs, Before, Making, Adding, After
  <1>6. DiskInv'
    <2>1. CASE pc \in After /\ pc' \in After
      BY <1>1, <1>2, <1>3, <1>4, <2>1 DEF DiskInv, After
    <2>2. CASE pc = "added" /\ adding = 1 /\ pc' = "fatformat"
      <3>1. /\ g_gpt_initialized /\ g_partitions = Parts2 /\ DataFits
            /\ g_gpt_header = FullHdr(Parts2) /\ Written(EntrySectors)
        BY <2>2 DEF MemInv, DiskInv, Adding
      <3> QED
        BY <1>1, <1>2, <1>3, <1>4, <2>2, <3>1 DEF DiskInv
    <2>3. CASE pc' \notin After
      BY <2>3 DEF DiskInv, After
    <2> QED
      BY <2>1, <2>2, <2>3 DEF After
  <1> QED
    BY <1>5, <1>6

LEMMA InvInit == Init => Inv
  <1> SUFFICES ASSUME Init PROVE Inv
    OBVIOUS
  <1>1. TypeOKGpt
    <2>1. EntrySectors \in Nat \ {0, 1} /\ Reserved \in Nat \ {0} /\ Width \in Nat \ {0}
      BY GptAssumption DEF Reserved
    <2>2. lba \in 0 .. Reserved - 1 /\ adding \in Index \union {EntrySectors} /\ faults \in 0 .. MaxFaults
      BY <2>1, GptAssumption DEF Init, Index
    <2>3. Unused \in (0 .. Width - 1) \X (0 .. Width - 1)
      BY <2>1 DEF Unused
    <2>4. g_gpt_initialized \in BOOLEAN
      BY Zenon DEF Init
    <2> QED
      BY <2>2, <2>3, <2>4 DEF Init, TypeOKGpt
  <1>2. TypeOK
    <2>1. mounted \in BOOLEAN /\ unflushed \in BOOLEAN
      BY Zenon DEF Init
    <2>2. tries \in 0 .. 2 /\ boots \in 0 .. MaxBoots
      BY BootAssumption DEF Init
    <2>3. /\ fat \in [fs : {"none", "bad", "ok"}, dirs : 0 .. 2, os : FileStates]
          /\ ex \in [fs : {"none", "bad", "ok"}, os : FileStates,
                     tree : SUBSET {Paths[i] : i \in 1 .. 3}, copy : FileStates]
      BY DEF Init, NoFat, NoEx, FileStates
    <2> QED
      BY <1>1, <2>1, <2>2, <2>3 DEF Init, TypeOK
  <1>3. MemInv /\ DiskInv /\ VolInv
    BY DEF Init, MemInv, DiskInv, VolInv, Pcs, Before, Making, Adding, After
  <1> QED
    BY <1>2, <1>3 DEF Inv

(* The part of TypeOK that is about the volumes and the programs.           *)
TypeVol ==
    /\ prog \in {"installer", "bootloader"}
    /\ fat \in [fs : {"none", "bad", "ok"}, dirs : 0 .. 2, os : FileStates]
    /\ ex \in [fs : {"none", "bad", "ok"}, os : FileStates,
               tree : SUBSET {Paths[i] : i \in 1 .. 3}, copy : FileStates]
    /\ mounted \in BOOLEAN /\ unflushed \in BOOLEAN
    /\ tries \in 0 .. 2 /\ boots \in 0 .. MaxBoots

LEMMA TypeParts == TypeOK <=> TypeOKGpt /\ TypeVol
  BY DEF TypeOK, TypeVol

LEMMA VolKept ==
    ASSUME Inv, UNCHANGED <<volumes, program>>, pc' \notin After
    PROVE  TypeVol' /\ VolInv'
  <1>1. VolInv'
    BY DEF VolInv, After
  <1>2. TypeVol'
    BY TypeParts DEF Inv, TypeVol, volumes, program
  <1> QED
    BY <1>1, <1>2

(* Writing a sector keeps the size of the disk, and counts its failures.    *)
LEMMA WriteType ==
    ASSUME TypeOKGpt, NEW l \in Nat, NEW v, WriteOk(l, v) \/ WriteFails(l)
    PROVE  DOMAIN disk' = 0 .. total - 1 /\ faults' \in 0 .. MaxFaults
  BY GptAssumption DEF TypeOKGpt, WriteOk, WriteFails

LEMMA PowerOnInv == Inv /\ PowerOn => Inv'
  <1> SUFFICES ASSUME Inv, PowerOn PROVE Inv'
    OBVIOUS
  <1> USE DEF Inv, PowerOn
  <1>0. TypeOKGpt
    BY TypeParts
  <1>1. TypeOKGpt'
    <2>1. 0 \in 0 .. Reserved - 1 /\ 0 \in Index /\ Parts0 \in Entries
      BY <1>0, Arith, PartsType
    <2>2. g_gpt_initialized' \in BOOLEAN
      BY Zenon
    <2>3. g_partitions' = Parts0
      BY DEF Parts0
    <2> QED
      BY <1>0, <2>1, <2>2, <2>3 DEF TypeOKGpt, Entries
  <1>2. TypeVol'
    <2>1. mounted' \in BOOLEAN /\ unflushed' \in BOOLEAN
      BY Zenon
    <2>2. tries' \in 0 .. 2 /\ boots' \in 0 .. MaxBoots
      BY TypeParts, BootAssumption DEF TypeVol
    <2> QED
      BY <2>1, <2>2, TypeParts DEF TypeVol, volumes
  <1>3. MemInv' /\ DiskInv' /\ VolInv'
    BY DEF MemInv, DiskInv, VolInv, Pcs, Before, Making, Adding, After
  <1> QED
    BY <1>1, <1>2, <1>3, TypeParts DEF TypeOK, TypeVol

LEMMA WipeInv == Inv /\ Wipe => Inv'
  <1> SUFFICES ASSUME Inv, Wipe PROVE Inv'
    OBVIOUS
  <1> USE DEF Inv, Wipe, gpt
  <1>0. TypeOKGpt
    BY TypeParts
  <1>1. TypeOKGpt'
    <2>1. lba' \in 0 .. Reserved - 1
      <3>1. lba' = 0 \/ (lba' = lba + 1 /\ lba + 1 < Reserved)
        OBVIOUS
      <3>2. lba \in Nat /\ Reserved \in Nat \ {0}
        BY <1>0, Arith
      <3> QED
        BY <3>1, <3>2
    <2>2. DOMAIN disk' = 0 .. total - 1 /\ faults' \in 0 .. MaxFaults
      BY <1>0, Arith, WriteType
    <2> QED
      BY <1>0, <2>1, <2>2 DEF TypeOKGpt
  <1>2. pc' \in {"wipe", "mbr"}
    OBVIOUS
  <1>3. TypeVol' /\ VolInv'
    BY <1>2, VolKept DEF After
  <1>4. MemInv' /\ DiskInv'
    BY <1>2 DEF MemInv, DiskInv, Pcs, Before, Making, Adding, After
  <1> QED
    BY <1>1, <1>3, <1>4 DEF TypeOK, TypeVol

(* The header that gpt_create_table and gpt_add_partition write carries the *)
(* checksum that gpt_init and gpt_verify compare.                           *)
LEMMA SealedHeaders ==
    /\ Sealed(NewHeader) = FullHdr(Parts0)
    /\ \A A, B, c : Sealed([Hdr(A, c) EXCEPT !.arr = B]) = FullHdr(B)
    /\ \A A : FullHdr(A).crc = crc32(FullHdr(A)) /\ FullHdr(A).arr = A /\ FullHdr(A).ents = 2
  <1>1. NewHeader = Hdr(Parts0, <<>>)
    BY DEF NewHeader, Hdr, DataEnd, Parts0
  <1>2. \A A, c : Sealed(Hdr(A, c)) = FullHdr(A)
    BY DEF Sealed, crc32, Hdr, FullHdr, Sum
  <1>3. \A A, B, c : [Hdr(A, c) EXCEPT !.arr = B] = Hdr(B, c)
    BY DEF Hdr
  <1>4. \A A : FullHdr(A).crc = crc32(FullHdr(A)) /\ FullHdr(A).arr = A /\ FullHdr(A).ents = 2
    BY DEF FullHdr, Hdr, Sum, crc32
  <1>5. Sealed(NewHeader) = FullHdr(Parts0)
    BY <1>1, <1>2
  <1>6. \A A, B, c : Sealed([Hdr(A, c) EXCEPT !.arr = B]) = FullHdr(B)
    BY <1>2, <1>3
  <1> QED
    BY <1>4, <1>5, <1>6

(* What a step of partitioning leaves of the definitions that refer to the  *)
(* capacity.                                                                *)
LEMMA SameDisk ==
    ASSUME UNCHANGED total
    PROVE  /\ DataEnd' = DataEnd /\ Parts0' = Parts0 /\ Parts1' = Parts1 /\ Parts2' = Parts2
           /\ FatFits' = FatFits /\ DataFits' = DataFits
           /\ \A A, c : Hdr(A, c)' = Hdr(A, c)
           /\ \A A : FullHdr(A)' = FullHdr(A)
  <1>1. DataEnd' = DataEnd
    BY DEF DataEnd, Wrap
  <1>2. Parts0' = Parts0 /\ Parts1' = Parts1 /\ Parts2' = Parts2
    BY <1>1 DEF Parts0, Parts1, Parts2
  <1>3. FatFits' = FatFits /\ DataFits' = DataFits
    BY <1>1 DEF FatFits, DataFits
  <1>4. \A A, c : Hdr(A, c)' = Hdr(A, c)
    BY <1>1 DEF Hdr, Wrap
  <1>5. \A A : FullHdr(A)' = FullHdr(A)
    BY <1>1, <1>4 DEF FullHdr, Sum, Hdr, Wrap
  <1> QED
    BY <1>1, <1>2, <1>3, <1>4, <1>5

LEMMA CreateMbrInv ==
    ASSUME Inv, CreateMbr, UNCHANGED <<volumes, program>>
    PROVE  Inv'
  <1> USE DEF Inv, CreateMbr
  <1>0. TypeOKGpt
    BY TypeParts
  <1>1. TypeOKGpt'
    <2>1. DOMAIN disk' = 0 .. total - 1 /\ faults' \in 0 .. MaxFaults
      BY <1>0, WriteType
    <2>2. g_partitions' \in Entries
      <3>1. g_partitions' = Parts0 \/ g_partitions' = g_partitions
        BY DEF Parts0
      <3>3. g_partitions \in Entries
        BY <1>0 DEF TypeOKGpt, Entries
      <3> QED
        BY <1>0, <3>1, <3>3, PartsType
    <2> QED
      BY <1>0, <2>1, <2>2 DEF TypeOKGpt, Entries
  <1>2. pc' \in {"header", "failed"} /\ UNCHANGED <<total, g_gpt_initialized>> /\ ~g_gpt_initialized
    BY DEF MemInv, Before
  <1>3. TypeVol' /\ VolInv'
    BY <1>2, VolKept DEF After
  <1>4. pc' = "header" => g_partitions' = Parts0' /\ g_gpt_header' = FullHdr(Parts0)'
    BY <1>2, SealedHeaders, SameDisk DEF Parts0
  <1>5. MemInv' /\ DiskInv'
    BY <1>2, <1>4 DEF MemInv, DiskInv, Pcs, Before, Making, Adding, After
  <1> QED
    BY <1>1, <1>3, <1>5 DEF TypeOK, TypeVol

LEMMA WriteHeaderInv ==
    ASSUME Inv, WriteHeader, UNCHANGED <<volumes, program>>
    PROVE  Inv'
  <1> USE DEF Inv, WriteHeader, gpt
  <1>0. TypeOKGpt
    BY TypeParts
  <1>1. TypeOKGpt'
    <2>1. DOMAIN disk' = 0 .. total - 1 /\ faults' \in 0 .. MaxFaults
      BY <1>0, WriteType
    <2>2. 0 \in 0 .. Reserved - 1
      BY <1>0, Arith
    <2> QED
      BY <1>0, <2>1, <2>2 DEF TypeOKGpt
  <1>2. /\ \/ pc' = "failed"
           \/ pc = "header" /\ pc' = "entries"
           \/ pc = "addheader" /\ pc' = "addentries" /\ WriteOk(1, HeaderSector(g_gpt_header))
        /\ UNCHANGED <<total, g_gpt_header, g_partitions, g_gpt_initialized, adding>> /\ lba' = 0
    OBVIOUS
  <1>3. TypeVol' /\ VolInv'
    BY <1>2, VolKept DEF After
  <1>4. MemInv'
    BY <1>2, SameDisk DEF MemInv, Layout, Pcs, Before, Making, Adding, After
  <1>5. pc' = "addentries" => Written(lba)'
    <2> SUFFICES ASSUME pc' = "addentries" PROVE Written(lba)'
      OBVIOUS
    <2>1. 1 < total /\ disk' = [disk EXCEPT ![1] = HeaderSector(g_gpt_header)]
      BY <1>2 DEF WriteOk
    <2>2. disk'[1] = HeaderSector(g_gpt_header)
      <3>1. total \in Nat
        BY <1>0, Arith
      <3>2. 1 \in 0 .. total - 1
        BY <2>1, <3>1
      <3>3. 1 \in DOMAIN disk
        BY <1>0, <3>2 DEF TypeOKGpt
      <3> QED
        BY <2>1, <3>3
    <2> QED
      BY <1>2, <2>1, <2>2 DEF Written, HeaderSector
  <1>6. DiskInv'
    BY <1>0, <1>2, <1>5, Arith DEF DiskInv, After
  <1> QED
    BY <1>1, <1>3, <1>4, <1>6 DEF TypeOK, TypeVol

LEMMA WriteEntryInv ==
    ASSUME Inv, WriteEntry, UNCHANGED <<volumes, program>>
    PROVE  Inv'
  <1> USE DEF Inv, WriteEntry, gpt
  <1>0. TypeOKGpt
    BY TypeParts
  <1>01. lba \in Nat /\ lba < EntrySectors /\ total \in Nat /\ EntrySectors \in Nat \ {0}
    BY <1>0, Arith DEF DiskInv
  <1>1. TypeOKGpt'
    <2>1. DOMAIN disk' = 0 .. total - 1 /\ faults' \in 0 .. MaxFaults
      BY <1>0, <1>01, WriteType
    <2>2. lba' \in 0 .. Reserved - 1
      <3>1. lba' = 0 \/ (lba' = lba + 1 /\ lba + 1 < EntrySectors)
        OBVIOUS
      <3> QED
        BY <1>0, <1>01, <3>1, Arith
    <2> QED
      BY <1>0, <2>1, <2>2 DEF TypeOKGpt
  <1>2. /\ UNCHANGED <<total, g_gpt_header, g_partitions, g_gpt_initialized, adding>>
        /\ \/ pc' = "failed"
           \/ /\ WriteOk(2 + lba, EntryOf(g_partitions[lba]))
              /\ \/ pc' = pc /\ lba' = lba + 1 /\ lba + 1 < EntrySectors
                 \/ lba + 1 = EntrySectors /\ pc = "entries" /\ pc' = "backup"
                 \/ lba + 1 = EntrySectors /\ pc = "addentries" /\ pc' = "added"
    BY <1>01
  <1>3. TypeVol' /\ VolInv'
    BY <1>2, VolKept DEF After
  <1>4. MemInv'
    <2>1. pc' = "backup" => Reserved <= total
      BY <1>0, <1>01, <1>2, Arith DEF WriteOk
    <2> QED
      BY <1>2, <2>1, SameDisk DEF MemInv, Layout, Pcs, Before, Making, Adding, After
  <1>5. ASSUME pc = "addentries", pc' # "failed" 
        PROVE  /\ 1 < total /\ disk'[1] = HeaderSector(g_gpt_header)
               /\ \A k \in 0 .. lba : 2 + k < total /\ disk'[2 + k] = EntryOf(g_partitions[k])
    <2>1. 2 + lba < total /\ disk' = [disk EXCEPT ![2 + lba] = EntryOf(g_partitions[lba])]
      BY <1>2, <1>5 DEF WriteOk
    <2>2. Written(lba)
      BY <1>5 DEF DiskInv
    <2>3. disk'[1] = disk[1]
      BY <1>01, <2>1
    <2>4. ASSUME NEW k \in 0 .. lba
          PROVE  2 + k < total /\ disk'[2 + k] = EntryOf(g_partitions[k])
      <3>1. CASE k = lba
        BY <1>0, <1>01, <2>1, <3>1 DEF TypeOKGpt
      <3>2. CASE k \in 0 .. lba - 1
        BY <1>01, <2>1, <2>2, <3>2 DEF Written
      <3> QED
        BY <1>01, <3>1, <3>2
    <2> QED
      BY <2>2, <2>3, <2>4 DEF Written
  <1>6. DiskInv'
    <2>1. CASE pc' = "added" \/ pc' = "addentries"
      <3>1. pc = "addentries" /\ pc' # "failed"
        BY <1>2, <2>1
      <3>2. lba + 1 - 1 = lba /\ EntrySectors \in Nat
        BY <1>01
      <3>3. CASE pc' = "added"
        <4>1. EntrySectors - 1 = lba
          BY <1>01, <1>2, <3>1, <3>3
        <4> QED
          BY <1>2, <1>5, <3>1, <3>3, <4>1 DEF DiskInv, After, Written, HeaderSector, EntryOf
      <3>4. CASE pc' = "addentries"
        <4>1. lba' - 1 = lba /\ lba' < EntrySectors
          BY <1>01, <1>2, <3>1, <3>4
        <4> QED
          BY <1>2, <1>5, <3>1, <3>4, <4>1 DEF DiskInv, After, Written, HeaderSector, EntryOf
      <3> QED
        BY <2>1, <3>3, <3>4
    <2>2. CASE ~(pc' = "added" \/ pc' = "addentries")
      BY <1>01, <1>2, <2>2 DEF DiskInv, After
    <2> QED
      BY <2>1, <2>2
  <1> QED
    BY <1>1, <1>3, <1>4, <1>6 DEF TypeOK, TypeVol

LEMMA WriteBackupInv ==
    ASSUME Inv, WriteBackup, UNCHANGED <<volumes, program>>
    PROVE  Inv'
  <1> USE DEF Inv, WriteBackup
  <1>0. TypeOKGpt /\ pc = "backup" /\ pc' = "created" /\ UNCHANGED total
    BY TypeParts
  <1>1. TypeOKGpt'
    <2>1. Wrap(total - 1) \in Nat
      <3>1. total - 1 \in Nat /\ Width \in Nat \ {0}
        BY <1>0, GptAssumption DEF TypeOKGpt
      <3> QED
        BY <3>1 DEF Wrap
    <2>2. DOMAIN disk' = 0 .. total - 1 /\ faults' \in 0 .. MaxFaults
      BY <1>0, <2>1, WriteType
    <2> QED
      BY <1>0, <2>2 DEF TypeOKGpt
  <1>2. TypeVol' /\ VolInv'
    BY <1>0, VolKept DEF After
  <1>3. /\ g_partitions' = Parts0' /\ Reserved <= total /\ DataEnd' = total' - Reserved
        /\ g_gpt_initialized'
    BY <1>0, Arith, SameDisk DEF MemInv, Making
  <1>4. g_gpt_header' = Hdr(Parts0, g_gpt_header.crc)'
    <2>1. g_gpt_header = Hdr(Parts0, Sum(Parts0))
      BY <1>0 DEF MemInv, Before, Making, FullHdr
    <2>2. g_gpt_header' = Hdr(Parts0, BackupHeader.crc)
      BY <2>1 DEF Hdr
    <2>3. g_gpt_header'.crc = BackupHeader.crc
      BY <2>2 DEF Hdr
    <2>4. Parts0' = Parts0 /\ UNCHANGED total
      BY <1>0, SameDisk
    <2> QED
      BY <2>2, <2>3, <2>4 DEF Hdr, DataEnd, Wrap
  <1>5. MemInv'
    BY <1>0, <1>3, <1>4 DEF MemInv, Layout, Pcs, Before, Making, Adding, After
  <1>6. DiskInv'
    BY <1>0 DEF DiskInv, After
  <1> QED
    BY <1>1, <1>2, <1>5, <1>6 DEF TypeOK, TypeVol

(* gpt_add_partition takes the first free entry.                            *)
LEMMA FirstFree ==
    ASSUME NEW p \in Index, TypeOKGpt, g_partitions[p] = Unused,
           \A q \in Index : q < p => g_partitions[q] # Unused
    PROVE  FreeEntry # {} /\ (CHOOSE q \in FreeEntry : \A r \in FreeEntry : q <= r) = p
  <1>1. Index \subseteq Nat
    BY Arith
  <1>2. p \in FreeEntry /\ \A r \in FreeEntry : p <= r
    BY <1>1 DEF FreeEntry
  <1>3. \A q \in FreeEntry : (\A r \in FreeEntry : q <= r) => q = p
    BY <1>1, <1>2 DEF FreeEntry
  <1> QED
    BY <1>2, <1>3

LEMMA AddInv ==
    ASSUME Inv, AddBoot \/ AddData
    PROVE  Inv'
  <1> USE DEF Inv, AddBoot, AddData
  <1>0. TypeOKGpt
    BY TypeParts
  <1>1. CASE pc' = "failed"
    <2>1. UNCHANGED <<table, faults>> /\ UNCHANGED <<volumes, program>>
      BY <1>1 DEF gpt_add_partition, table, gpt
    <2>2. TypeVol' /\ VolInv'
      BY <1>1, <2>1, VolKept DEF After
    <2>3. TypeOKGpt'
      BY <1>0, <2>1 DEF TypeOKGpt, table, gpt
    <2>4. MemInv'
      BY <1>1, <2>1, SameDisk DEF MemInv, Layout, table, gpt, Pcs, Before, Making, Adding, After
    <2>5. DiskInv'
      BY <1>1 DEF DiskInv, After
    <2> QED
      BY <2>2, <2>3, <2>4, <2>5 DEF TypeOK, TypeVol
  <1>2. CASE pc' # "failed" /\ AddBoot
    <2>1. g_partitions = Parts0 /\ g_gpt_header = Hdr(Parts0, g_gpt_header.crc)
      BY <1>2 DEF MemInv, Making
    <2>2. g_partitions[0] = Unused /\ \A q \in Index : ~(q < 0)
      BY <1>0, <2>1, Arith DEF Parts0
    <2>3. (CHOOSE q \in FreeEntry : \A r \in FreeEntry : q <= r) = 0
      BY <1>0, <2>2, Arith, FirstFree
    <2>4. /\ g_partitions' = Parts1 /\ adding' = 0 /\ pc' = "addheader"
          /\ g_gpt_header' = Sealed([g_gpt_header EXCEPT !.arr = Parts1])
          /\ Fits(FatStart, FatEnd) /\ g_gpt_initialized
          /\ UNCHANGED <<total, disk, g_gpt_initialized, lba, faults, volumes, program>>
      BY <1>2, <2>1, <2>3 DEF gpt_add_partition, Parts1
    <2>5. g_gpt_header' = FullHdr(Parts1)
      BY <2>1, <2>4, SealedHeaders
    <2>6. FatFits
      BY <2>1, <2>4 DEF Fits, FatFits, Hdr
    <2>7. TypeOKGpt'
      BY <1>0, <2>4, Arith, PartsType DEF TypeOKGpt, Entries
    <2>8. MemInv'
      BY <2>4, <2>5, <2>6, SameDisk DEF MemInv, Layout, Pcs, Before, Making, Adding, After
    <2>9. DiskInv' /\ TypeVol' /\ VolInv'
      BY <2>4, VolKept DEF DiskInv, After
    <2> QED
      BY <2>7, <2>8, <2>9 DEF TypeOK, TypeVol
  <1>3. CASE pc' # "failed" /\ AddData
    <2>1. g_partitions = Parts1 /\ FatFits /\ g_gpt_header = FullHdr(Parts1)
      BY <1>3 DEF MemInv, Adding
    <2>2. g_partitions[0] # Unused /\ g_partitions[1] = Unused /\ \A q \in Index : q < 1 => q = 0
      <3>1. FatStart # 0 /\ 0 \in Index /\ 1 \in Index /\ Index \subseteq Nat
        BY <1>0, Arith
      <3>2. <<FatStart, FatEnd>> # Unused
        BY <3>1 DEF Unused
      <3> QED
        BY <2>1, <3>1, <3>2 DEF Parts1, Parts0
    <2>3. (CHOOSE q \in FreeEntry : \A r \in FreeEntry : q <= r) = 1
      BY <1>0, <2>2, Arith, FirstFree
    <2>4. /\ g_partitions' = Parts2 /\ adding' = 1 /\ pc' = "addheader"
          /\ g_gpt_header' = Sealed([g_gpt_header EXCEPT !.arr = Parts2])
          /\ Fits(DataStart, DataEnd) /\ g_gpt_initialized
          /\ UNCHANGED <<total, disk, g_gpt_initialized, lba, faults, volumes, program>>
      BY <1>3, <2>1, <2>3 DEF gpt_add_partition, Parts2
    <2>5. g_gpt_header' = FullHdr(Parts2)
      BY <2>1, <2>4, SealedHeaders DEF FullHdr
    <2>6. DataFits
      BY <2>1, <2>4 DEF Fits, DataFits
    <2>7. TypeOKGpt'
      BY <1>0, <2>4, <2>6, Arith, PartsType DEF TypeOKGpt, Entries
    <2>8. MemInv'
      BY <2>4, <2>5, <2>6, SameDisk DEF MemInv, Layout, Pcs, Before, Making, Adding, After
    <2>9. DiskInv' /\ TypeVol' /\ VolInv'
      BY <2>4, VolKept DEF DiskInv, After
    <2> QED
      BY <2>7, <2>8, <2>9 DEF TypeOK, TypeVol
  <1> QED
    BY <1>1, <1>2, <1>3

(* A table that has been written is what gpt_init reads back, and what      *)
(* gpt_verify accepts.                                                      *)
LEMMA WrittenIsTable ==
    ASSUME Inv, pc \in After
    PROVE  /\ TableOnDisk /\ gpt_verify
           /\ HeaderValid /\ Header1 = g_gpt_header /\ Header1.ents = 2
           /\ \A p \in Index : Entry(2 + p) = g_partitions[p]
  <1>0. TypeOKGpt /\ Reserved <= total /\ g_gpt_initialized
    BY TypeParts DEF Inv, MemInv, DiskInv, Layout
  <1>1. g_partitions = Parts2 /\ g_gpt_header = FullHdr(Parts2) /\ Written(EntrySectors)
    BY DEF Inv, DiskInv
  <1>2. disk[1].k = "header" /\ disk[1].h = g_gpt_header
    BY <1>1 DEF Written, HeaderSector
  <1>3. Header1 = FullHdr(Parts2) /\ HeaderValid /\ Header1.ents = 2 /\ Header1.arr = Parts2
    BY <1>1, <1>2, SealedHeaders DEF Header1, HeaderValid
  <1>4. \A p \in Index : Entry(2 + p) = g_partitions[p]
    <2> TAKE p \in Index
    <2>1. p \in 0 .. EntrySectors - 1
      BY DEF Index
    <2>2. 2 + p < total /\ disk[2 + p] = EntryOf(g_partitions[p])
      BY <1>1, <2>1 DEF Written
    <2> QED
      BY <2>2 DEF Entry, EntryOf
  <1>5. gpt_verify
    BY <1>0, <1>1, SealedHeaders DEF gpt_verify
  <1>6. Entry(2) = <<FatStart, FatEnd>> /\ Entry(3) = <<DataStart, DataEnd>>
    <2>1. 0 \in Index /\ 1 \in Index
      BY <1>0, Arith
    <2>2. Parts2[0] = <<FatStart, FatEnd>> /\ Parts2[1] = <<DataStart, DataEnd>>
      BY <2>1 DEF Parts2, Parts1, Parts0
    <2>3. 2 + 0 = 2 /\ 2 + 1 = 3
      OBVIOUS
    <2> QED
      BY <1>1, <1>4, <2>1, <2>2, <2>3
  <1> QED
    BY <1>0, <1>1, <1>3, <1>4, <1>5, <1>6 DEF TableOnDisk

LEMMA RefreshInv == Inv /\ Refresh => Inv'
  <1> SUFFICES ASSUME Inv, Refresh PROVE Inv'
    OBVIOUS
  <1>0. pc = "refresh" /\ pc \in After /\ TypeOKGpt
    BY TypeParts DEF Refresh, gpt_init, After, Inv
  <1>01. HeaderValid /\ Header1 = g_gpt_header /\ Header1.ents = 2 /\ g_gpt_initialized
    BY <1>0, WrittenIsTable DEF Inv, DiskInv
  <1>02. \A p \in Index : Entry(Header1.ents + p) = g_partitions[p]
    BY <1>0, <1>01, WrittenIsTable
  <1>03. g_partitions = [p \in Index |-> g_partitions[p]]
    BY <1>0 DEF TypeOKGpt
  <1>1. PICK readable \in -1 .. EntrySectors :
            /\ g_gpt_header' = IF readable = -1 THEN g_gpt_header ELSE Header1
            /\ g_partitions' = [p \in Index |-> IF HeaderValid /\ p < readable
                                                THEN Entry(Header1.ents + p) ELSE g_partitions[p]]
    BY Zenon DEF Refresh, gpt_init
  <1>2. g_gpt_header' = g_gpt_header /\ g_partitions' = g_partitions
    BY <1>1, <1>01, <1>02, <1>03
  <1>3. /\ pc' \in {"failed", "refreshed"} /\ g_gpt_initialized' = g_gpt_initialized
        /\ faults' \in 0 .. MaxFaults
    <2>1. pc' \in {"failed", "refreshed"}
      BY DEF Refresh, gpt_init
    <2>2. g_gpt_initialized' = g_gpt_initialized
      BY <1>01, <1>0 DEF Refresh, gpt_init, TypeOKGpt
    <2>3. faults' = faults \/ (faults' = faults + 1 /\ faults < MaxFaults)
      BY DEF Refresh, gpt_init, Fault
    <2> QED
      BY <1>0, <2>1, <2>2, <2>3, GptAssumption DEF TypeOKGpt
  <1>4. UNCHANGED table /\ UNCHANGED <<volumes, program>>
    BY <1>2, <1>3 DEF Refresh, gpt_init, table, gpt
  <1>5. TypeOKGpt'
    BY <1>0, <1>3, <1>4 DEF TypeOKGpt, table, gpt
  <1>6. MemInv' /\ DiskInv'
    <2>1. CASE pc' = "refreshed"
      BY <1>0, <1>4, <2>1, TableKept DEF After
    <2>2. CASE pc' = "failed"
      <3>1. MemInv'
        BY <1>4, <2>2, SameDisk DEF Inv, MemInv, Layout, table, gpt, Pcs, Before, Making, Adding, After
      <3>2. DiskInv'
        BY <2>2 DEF DiskInv, After
      <3> QED
        BY <3>1, <3>2
    <2> QED
      BY <1>3, <2>1, <2>2
  <1>7. TypeVol' /\ VolInv'
    BY <1>3, <1>4, TypeParts DEF Inv, TypeVol, VolInv, volumes, program
  <1> QED
    BY <1>5, <1>6, <1>7 DEF Inv, TypeOK, TypeVol

-----------------------------------------------------------------------------
(* The steps that leave the table alone.                                    *)

LEMMA GptTypeKept ==
    ASSUME Inv, UNCHANGED table, Ok \/ Failing
    PROVE  TypeOKGpt'
  <1>1. faults' \in 0 .. MaxFaults
    BY GptAssumption, TypeParts DEF Inv, Ok, Failing, TypeOKGpt
  <1> QED
    BY <1>1, TypeParts DEF Inv, TypeOKGpt, table, gpt

(* Steps after which nothing is known of the volumes.                       *)
LEMMA GotoInv ==
    ASSUME Inv, UNCHANGED <<table, volumes, program>>, Ok \/ Failing,
           \/ pc' \in {"off", "returned", "bug"}
           \/ pc = "added" /\ adding = 1 /\ pc' = "fatformat"
           \/ pc = "probe" /\ pc' = "capacity"
           \/ pc = "capacity" /\ pc' = "wipe"
           \/ pc = "complete" /\ pc' = "refresh"
           \/ pc = "verify" /\ pc' = "tree"
           \/ pc = "read" /\ pc' = "load" /\ ex.os = "good"
           \/ pc = "load" /\ pc' = "kernel"
    PROVE  Inv'
  <1>1. TypeOKGpt'
    BY GptTypeKept
  <1>2. MemInv' /\ DiskInv'
    BY TableKept DEF After
  <1>3. VolInv'
    BY DEF Inv, VolInv, volumes, program
  <1>4. TypeVol'
    BY TypeParts DEF Inv, TypeVol, volumes, program
  <1> QED
    BY <1>1, <1>2, <1>3, <1>4 DEF Inv, TypeOK, TypeVol

LEMMA PlainInv ==
    ASSUME Inv,
           \/ PowerOff \/ Probe \/ Capacity \/ Partitioned \/ GptFailed \/ ExVerify \/ Complete
           \/ ReadKernel \/ StartKernel
    PROVE  Inv'
  <1>1. CASE PowerOff
    BY <1>1, GotoInv DEF PowerOff, Ok
  <1>2. CASE Probe
    <2>1. ~gpt_get_partition(1)
      BY <1>2 DEF Probe, Inv, MemInv, Before, gpt_get_partition
    <2> QED
      BY <1>2, <2>1, GotoInv DEF Probe, Goto
  <1>3. CASE Capacity
    BY <1>3, GotoInv DEF Capacity, Goto
  <1>4. CASE Partitioned \/ GptFailed
    BY <1>4, GotoInv DEF Partitioned, GptFailed, Goto
  <1>5. CASE ExVerify
    BY <1>5, GotoInv DEF ExVerify, Goto
  <1>6. CASE Complete
    BY <1>6, GotoInv DEF Complete, Goto
  <1>7. CASE ReadKernel \/ StartKernel
    BY <1>7, GotoInv DEF ReadKernel, StartKernel, Goto
  <1> QED
    BY <1>1, <1>2, <1>3, <1>4, <1>5, <1>6, <1>7

(* Steps between two places after partitioning.                             *)
LEMMA AfterInv ==
    ASSUME Inv, UNCHANGED table, Ok \/ Failing, pc \in After, pc' \in After \union {"returned", "bug"},
           TypeVol', VolInv'
    PROVE  Inv'
  <1>1. TypeOKGpt'
    BY GptTypeKept
  <1>2. MemInv' /\ DiskInv'
    BY TableKept
  <1> QED
    BY <1>1, <1>2 DEF Inv, TypeOK, TypeVol

LEMMA FatInv == Inv /\ (FatFormat \/ FatDirs \/ FatWrite) => Inv'
  <1> SUFFICES ASSUME Inv, FatFormat \/ FatDirs \/ FatWrite PROVE Inv'
    OBVIOUS
  <1> USE DEF Inv, FatFormat, FatDirs, FatWrite, SetFat, AfterFatFailure, NoFat
  <1>1. /\ UNCHANGED table /\ (Ok \/ Failing) /\ pc \in After
        /\ pc' \in After \union {"returned", "bug"} /\ UNCHANGED <<ex, program>>
    BY DEF After
  <1>2. fat' \in [fs : {"none", "bad", "ok"}, dirs : 0 .. 2, os : FileStates]
    BY TypeParts DEF TypeVol, FileStates
  <1>3. TypeVol'
    BY <1>1, <1>2, TypeParts DEF TypeVol, program
  <1>4. VolInv'
    <2>1. pc' \in {"fatdirs", "fatwrite", "data", "returned"}
      OBVIOUS
    <2>2. /\ pc' = "data" /\ prog = "installer" => fat'.dirs = 2 /\ fat'.os \in {"good", "broken"}
          /\ pc' = "fatwrite" => fat'.dirs = 2
      BY TypeParts DEF TypeVol, VolInv
    <2> QED
      BY <1>1, <2>1, <2>2 DEF VolInv, program
  <1> QED
    BY <1>1, <1>3, <1>4, AfterInv

ExType == [fs : {"none", "bad", "ok"}, os : FileStates,
           tree : SUBSET {Paths[i] : i \in 1 .. 3}, copy : FileStates]

LEMMA ExFormatInv == Inv /\ ExFormat => Inv'
  <1> SUFFICES ASSUME Inv, ExFormat PROVE Inv'
    OBVIOUS
  <1> USE DEF Inv, ExFormat
  <1>1. /\ UNCHANGED table /\ (Ok \/ Failing) /\ pc \in After
        /\ pc' \in After \union {"returned", "bug"}
    BY DEF After
  <1>2. ex' \in ExType
    BY DEF ExType, NoEx, FileStates
  <1>3. TypeVol'
    <2>1. mounted' \in BOOLEAN
      BY TypeParts DEF TypeVol
    <2> QED
      BY <1>2, <2>1, TypeParts DEF TypeVol, ExType
  <1>4. VolInv'
    BY DEF VolInv, NoEx
  <1> QED
    BY <1>1, <1>3, <1>4, AfterInv

LEMMA ExWriteInv == Inv /\ ExWrite => Inv'
  <1> SUFFICES ASSUME Inv, ExWrite PROVE Inv'
    OBVIOUS
  <1> USE DEF Inv, ExWrite
  <1>1. /\ UNCHANGED table /\ (Ok \/ Failing) /\ pc = "exwrite" /\ pc' \in {"tree", "verify", "returned"}
    OBVIOUS
  <1>2. ex \in ExType
    BY TypeParts DEF TypeVol, ExType
  <1>3. PICK v \in FileStates :
            /\ ex' = [ex EXCEPT !.os = v]
            /\ pc' # "returned" => v \in {"good", "empty"}
    BY DEF FileStates
  <1>4. ex' \in ExType /\ ex'.fs = ex.fs /\ ex'.os = v
    BY <1>2, <1>3 DEF ExType
  <1>5. TypeVol'
    <2>1. unflushed' \in BOOLEAN
      BY TypeParts DEF TypeVol
    <2> QED
      BY <1>4, <2>1, TypeParts DEF TypeVol, ExType
  <1>6. VolInv'
    BY <1>1, <1>3, <1>4 DEF VolInv
  <1> QED
    BY <1>1, <1>5, <1>6, AfterInv DEF After

LEMMA CreateDirPathInv == Inv /\ CreateDirPath => Inv'
  <1> SUFFICES ASSUME Inv, CreateDirPath PROVE Inv'
    OBVIOUS
  <1> USE DEF Inv, CreateDirPath
  <1>0. Len(Paths) = 3
    BY DEF Paths
  <1>1. /\ UNCHANGED table /\ (Ok \/ Failing) /\ pc = "tree" /\ pc' \in {"tree", "copy", "bug"}
        /\ UNCHANGED <<fat, prog, boots>>
    BY DEF AfterTree
  <1>2. ex \in ExType /\ tries \in 0 .. 2
    BY TypeParts DEF TypeVol, ExType
  <1>3. tries' \in 0 .. 2
    BY <1>0, <1>2 DEF NextTry
  <1>4. ex' \in ExType /\ ex'.fs = ex.fs /\ ex'.os \in {ex.os, "good"}
    <2>1. CASE ex' = ex
      BY <1>2, <2>1
    <2>2. CASE ex' = [ex EXCEPT !.tree = @ \union {Paths[tries + 1]}, !.os = FlushedOs]
      <3>1. tries + 1 \in 1 .. 3
        BY <1>2
      <3>2. FlushedOs \in FileStates /\ FlushedOs \in {ex.os, "good"}
        BY <1>2 DEF FlushedOs, ExType, FileStates
      <3>3. ex.tree \union {Paths[tries + 1]} \in SUBSET {Paths[i] : i \in 1 .. 3}
        BY <1>2, <3>1 DEF ExType
      <3> HIDE DEF FlushedOs
      <3> QED
        BY <1>2, <2>2, <3>2, <3>3 DEF ExType
    <2> QED
      BY <2>1, <2>2
  <1>5. TypeVol'
    <2>1. mounted' \in BOOLEAN /\ unflushed' \in BOOLEAN
      BY TypeParts DEF TypeVol
    <2> QED
      BY <1>1, <1>3, <1>4, <2>1, TypeParts DEF TypeVol, ExType
  <1>6. VolInv'
    BY <1>1, <1>4 DEF VolInv
  <1> QED
    BY <1>1, <1>5, <1>6, AfterInv DEF After

LEMMA CopyKernelInv == Inv /\ CopyKernel => Inv'
  <1> SUFFICES ASSUME Inv, CopyKernel PROVE Inv'
    OBVIOUS
  <1> USE DEF Inv, CopyKernel
  <1>1. /\ UNCHANGED table /\ (Ok \/ Failing) /\ pc = "copy" /\ pc' \in {"copy", "complete"}
        /\ UNCHANGED <<fat, prog, mounted, unflushed, boots>>
    OBVIOUS
  <1>2. ex \in ExType /\ tries \in 0 .. 2
    BY TypeParts DEF TypeVol, ExType
  <1>3. tries' \in 0 .. 2
    BY <1>2
  <1>4. ex' \in ExType /\ ex'.fs = ex.fs /\ ex'.os = ex.os
    BY <1>2 DEF ExType, FileStates
  <1>5. TypeVol'
    BY <1>1, <1>3, <1>4, TypeParts DEF TypeVol, ExType
  <1>6. VolInv'
    BY <1>1, <1>4 DEF VolInv
  <1> QED
    BY <1>1, <1>5, <1>6, AfterInv DEF After

LEMMA LoadInv == Inv /\ (Refreshed \/ Mount \/ LookUp) => Inv'
  <1> SUFFICES ASSUME Inv, Refreshed \/ Mount \/ LookUp PROVE Inv'
    OBVIOUS
  <1> USE DEF Inv, Refreshed, Mount, LookUp
  <1>1. /\ UNCHANGED table /\ (Ok \/ Failing) /\ pc \in After
        /\ pc' \in After \union {"returned", "bug"} /\ UNCHANGED <<volumes, prog, boots>>
    BY DEF After
  <1>2. TypeVol'
    <2>1. mounted' \in BOOLEAN /\ unflushed' \in BOOLEAN
      BY TypeParts DEF TypeVol
    <2>2. tries' \in 0 .. 2
      BY TypeParts DEF TypeVol
    <2> QED
      BY <1>1, <2>1, <2>2, TypeParts DEF TypeVol, volumes
  <1>3. VolInv'
    BY <1>1 DEF VolInv, volumes
  <1> QED
    BY <1>1, <1>2, <1>3, AfterInv

LEMMA InvStep == Inv /\ [Next]_vars => Inv'
  <1> SUFFICES ASSUME Inv, [Next]_vars PROVE Inv'
    OBVIOUS
  <1>1. CASE Partitioning
    BY <1>1, CreateMbrInv, WriteHeaderInv, WriteEntryInv, WriteBackupInv DEF Partitioning
  <1>2. CASE \/ PowerOff \/ Probe \/ Capacity \/ Partitioned \/ GptFailed \/ ExVerify \/ Complete
             \/ ReadKernel \/ StartKernel
    BY <1>2, PlainInv
  <1>3. CASE PowerOn \/ Wipe \/ AddBoot \/ AddData \/ Refresh
    BY <1>3, PowerOnInv, WipeInv, AddInv, RefreshInv
  <1>4. CASE FatFormat \/ FatDirs \/ FatWrite \/ ExFormat \/ ExWrite
    BY <1>4, FatInv, ExFormatInv, ExWriteInv
  <1>5. CASE CreateDirPath \/ CopyKernel \/ Refreshed \/ Mount \/ LookUp
    BY <1>5, CreateDirPathInv, CopyKernelInv, LoadInv
  <1>6. CASE UNCHANGED vars
    <2>1. UNCHANGED <<table, volumes, program, pc, faults>>
      BY <1>6 DEF vars
    <2>2. TypeOKGpt' /\ TypeVol'
      BY <2>1, TypeParts DEF Inv, TypeOKGpt, TypeVol, table, gpt, volumes, program
    <2>3. MemInv'
      BY <2>1, SameDisk DEF Inv, MemInv, Layout, table, gpt
    <2>4. Written(lba)' = Written(lba) /\ Written(EntrySectors)' = Written(EntrySectors)
      BY <2>1 DEF Written, table, gpt
    <2>5. DiskInv'
      BY <2>1, <2>4, SameDisk DEF Inv, DiskInv, table, gpt
    <2>6. VolInv'
      BY <2>1 DEF Inv, VolInv, volumes, program
    <2> QED
      BY <2>2, <2>3, <2>5, <2>6 DEF Inv, TypeOK, TypeVol
  <1> QED
    BY <1>1, <1>2, <1>3, <1>4, <1>5, <1>6 DEF Next

(* The invariant is inductive.                                              *)
THEOREM Invariance == Spec => []Inv
  BY InvInit, InvStep, PTL DEF Spec

(* The state of a boot keeps its type.                                      *)
THEOREM TypeCorrect == Spec => []TypeOK
  <1>1. Inv => TypeOK
    BY DEF Inv
  <1> QED
    BY <1>1, Invariance, PTL

(* On every disk, wrapped subtractions included, the partitions that        *)
(* gpt_get_partition hands out lie in the usable part and do not overlap.   *)
THEOREM PartitionsCorrect == Spec => []PartitionsSane
  <1>1. Inv => PartitionsSane
    <2> SUFFICES ASSUME Inv, g_gpt_initialized,
                        NEW p \in Index, g_partitions[p] # Unused
                 PROVE  /\ Reserved <= g_partitions[p][1]
                        /\ g_partitions[p][1] < g_partitions[p][2]
                        /\ g_partitions[p][2] <= total - Reserved
                        /\ \A q \in Index \ {p} : g_partitions[q] # Unused =>
                               \/ g_partitions[p][2] < g_partitions[q][1]
                               \/ g_partitions[q][2] < g_partitions[p][1]
      BY DEF PartitionsSane
    <2>0. TypeOKGpt /\ Layout
      BY TypeParts DEF Inv, MemInv
    <2>1. /\ total \in Nat /\ Reserved \in Nat /\ DataEnd \in Nat /\ FatEnd \in Nat /\ FatStart \in Nat
          /\ DataEnd = total - Reserved /\ Reserved <= FatStart /\ FatStart <= FatEnd
          /\ DataStart = FatEnd + 1 /\ 0 \in Index /\ 1 \in Index
      BY <2>0, Arith, BootAssumption DEF Layout
    <2>2. \/ /\ g_partitions = Parts1 /\ FatFits
             /\ g_partitions[0] = <<FatStart, FatEnd>> /\ \A q \in Index \ {0} : g_partitions[q] = Unused
          \/ /\ g_partitions = Parts2 /\ DataFits
             /\ g_partitions[0] = <<FatStart, FatEnd>> /\ g_partitions[1] = <<DataStart, DataEnd>>
             /\ \A q \in Index \ {0, 1} : g_partitions[q] = Unused
      BY <2>0, <2>1 DEF Layout, Parts0, Parts1, Parts2
    <2> QED
      BY <2>1, <2>2 DEF FatFits, DataFits
  <1> QED
    BY <1>1, Invariance, PTL

(* Whatever was cut short before, only a kernel that was read whole is      *)
(* started.                                                                 *)
THEOREM KernelWhole == Spec => []StartsOnlyWholeKernel
  <1>1. Inv => StartsOnlyWholeKernel
    BY DEF Inv, VolInv, StartsOnlyWholeKernel
  <1> QED
    BY <1>1, Invariance, PTL

(* What a run in which no operation failed has done when it gets as far as  *)
(* pc: the paths are made one after the other, counted by tries.            *)
ToTree == Before \union Making \union Adding \union
          {"fatformat", "fatdirs", "fatwrite", "data", "exwrite", "verify"}
AllPaths == {Paths[j] : j \in 1 .. 3}

Whole ==
    /\ pc \in {"data", "exwrite", "verify", "tree", "copy", "complete"} => fat.os = "good"
    /\ pc \in {"exwrite", "verify", "tree", "copy", "complete"} => mounted
    /\ pc \in {"verify", "tree", "copy", "complete"} => ex.os = "good" /\ ~unflushed
    /\ pc = "tree" => \A j \in 1 .. tries : Paths[j] \in ex.tree
    /\ pc \in {"copy", "complete"} => ex.tree = AllPaths
    /\ pc = "complete" => ex.copy = "good"

WholeInv == (pc \in ToTree => tries = 0) /\ (faults = 0 => Whole)

LEMMA WholeStep == Inv /\ WholeInv /\ [Next]_vars => WholeInv'
  <1> SUFFICES ASSUME Inv, WholeInv, [Next]_vars PROVE WholeInv'
    OBVIOUS
  <1>0. faults \in Nat /\ tries \in 0 .. 2 /\ ex \in ExType /\ fat.dirs \in 0 .. 2
    <2>1. TypeOKGpt /\ TypeVol
      BY TypeParts DEF Inv
    <2> QED
      BY <2>1, GptAssumption DEF TypeOKGpt, TypeVol, ExType
  <1>1. Failing => faults' # 0
    BY <1>0 DEF Failing
  <1> USE DEF ToTree, Before, Making, Adding
  <1>2. CASE PowerOn \/ PowerOff
    BY <1>2 DEF PowerOn, PowerOff, WholeInv, Whole, program
  <1>3. CASE Partitioning \/ AddBoot \/ AddData \/ Wipe
    BY <1>3 DEF Partitioning, CreateMbr, WriteHeader, WriteEntry, WriteBackup, AddBoot, AddData,
                gpt_add_partition, Wipe, WholeInv, Whole, program
  <1>4. CASE Probe
    <2>1. ~gpt_get_partition(1)
      BY <1>4 DEF Probe, Inv, MemInv, gpt_get_partition
    <2> QED
      BY <1>4, <2>1 DEF Probe, Goto, WholeInv, Whole, program
  <1>5. CASE Capacity \/ Partitioned \/ GptFailed
    BY <1>5 DEF Capacity, Partitioned, GptFailed, Goto, WholeInv, Whole, program
  <1>6. CASE FatFormat \/ FatDirs
    BY <1>1, <1>6 DEF FatFormat, FatDirs, SetFat, AfterFatFailure, WholeInv, Whole, program
  <1>7. CASE FatWrite
    <2>1. fat \in [fs : {"none", "bad", "ok"}, dirs : 0 .. 2, os : FileStates]
      BY TypeParts DEF Inv, TypeVol
    <2> QED
      BY <1>1, <1>7, <2>1 DEF FatWrite, SetFat, AfterFatFailure, WholeInv, Whole, program
  <1>8. CASE ExFormat
    BY <1>1, <1>8 DEF ExFormat, WholeInv, Whole, Ok
  <1>9. CASE ExWrite
    <2>1. pc = "exwrite" /\ pc' \in {"tree", "verify", "returned"} /\ UNCHANGED <<fat, mounted, tries>>
      BY <1>9 DEF ExWrite
    <2>2. tries = 0
      BY <2>1 DEF WholeInv
    <2>3. Failing \/ (Ok /\ ex'.os = "good" /\ unflushed' = FALSE)
      BY <1>0, <1>9 DEF ExWrite, ExType
    <2> QED
      BY <1>1, <2>1, <2>2, <2>3 DEF WholeInv, Whole, Ok
  <1>10. CASE ExVerify \/ Complete
    BY <1>1, <1>10 DEF ExVerify, Complete, Goto, WholeInv, Whole, Ok, program, volumes
  <1>11. CASE CreateDirPath
    <2>0. Len(Paths) = 3
      BY DEF Paths
    <2>1. pc = "tree" /\ pc' \in {"tree", "copy", "bug"} /\ UNCHANGED fat
      BY <1>11 DEF CreateDirPath, AfterTree
    <2>2. CASE Failing
      BY <1>1, <2>1, <2>2 DEF WholeInv
    <2>3. CASE faults # 0 /\ Ok
      BY <2>1, <2>3 DEF WholeInv, Ok
    <2>4. CASE faults = 0 /\ Ok
      <3>1. mounted /\ ~unflushed /\ ex.os = "good" /\ fat.os = "good"
        BY <2>1, <2>4 DEF WholeInv, Whole
      <3>10. ~Failing
        BY <2>4, <1>0 DEF Failing, Ok
      <3>2. /\ pc' = AfterTree /\ NextTry /\ UNCHANGED mounted /\ unflushed' = FALSE
            /\ ex' = [ex EXCEPT !.tree = @ \union {Paths[tries + 1]}, !.os = FlushedOs]
        BY <1>11, <2>4, <3>1, <3>10 DEF CreateDirPath
      <3>3. ex'.tree = ex.tree \union {Paths[tries + 1]} /\ ex'.os = "good"
        BY <1>0, <3>1, <3>2 DEF FlushedOs, ExType
      <3>4. \A j \in 1 .. tries + 1 : Paths[j] \in ex'.tree
        BY <1>0, <2>1, <2>4, <3>3 DEF WholeInv, Whole
      <3>5. CASE tries + 1 < 3
        <4>1. pc' = "tree" /\ tries' = tries + 1
          BY <2>0, <3>2, <3>5 DEF AfterTree, NextTry
        <4> QED
          BY <2>1, <3>1, <3>2, <3>3, <3>4, <4>1 DEF WholeInv, Whole
      <3>6. CASE tries + 1 = 3
        <4>1. pc' = "copy"
          BY <2>0, <3>2, <3>6 DEF AfterTree
        <4>2. AllPaths \subseteq ex'.tree
          BY <3>4, <3>6 DEF AllPaths
        <4>3. ex'.tree \subseteq AllPaths
          <5>1. tries + 1 \in 1 .. 3
            BY <1>0
          <5> QED
            BY <1>0, <3>3, <5>1 DEF ExType, AllPaths
        <4> QED
          BY <2>1, <3>1, <3>2, <3>3, <4>1, <4>2, <4>3 DEF WholeInv, Whole
      <3> QED
        BY <1>0, <3>5, <3>6
    <2> QED
      BY <1>11, <2>2, <2>3, <2>4 DEF CreateDirPath
  <1>12. CASE CopyKernel
    <2>1. pc = "copy" /\ pc' \in {"copy", "complete"} /\ UNCHANGED <<fat, mounted, unflushed>>
      BY <1>12 DEF CopyKernel
    <2>2. CASE Failing
      BY <1>1, <2>1, <2>2 DEF WholeInv
    <2>3. CASE faults # 0 /\ Ok
      BY <2>1, <2>3 DEF WholeInv, Ok
    <2>4. CASE faults = 0 /\ Ok
      <3>1. mounted /\ ex.tree = AllPaths
        BY <2>1, <2>4 DEF WholeInv, Whole
      <3>2. "sys/DoNotTouch" \in ex.tree
        <4>1. Paths[2] = "sys/DoNotTouch" /\ 2 \in 1 .. 3
          BY DEF Paths
        <4> QED
          BY <3>1, <4>1 DEF AllPaths
      <3>3. ~Failing
        BY <2>4, <1>0 DEF Failing, Ok
      <3>4. ex' = [ex EXCEPT !.copy = "good"]
        BY <1>12, <3>1, <3>2, <3>3 DEF CopyKernel
      <3>5. ex'.tree = ex.tree /\ ex'.os = ex.os /\ ex'.copy = "good"
        BY <1>0, <3>4 DEF ExType
      <3> QED
        BY <2>1, <2>4, <3>5 DEF WholeInv, Whole
    <2> QED
      BY <1>12, <2>2, <2>3, <2>4 DEF CopyKernel
  <1>13. CASE Refresh \/ Refreshed \/ Mount \/ LookUp \/ ReadKernel \/ StartKernel
    BY <1>13 DEF Refresh, gpt_init, Refreshed, Mount, LookUp, ReadKernel, StartKernel, Goto,
                 WholeInv, Whole
  <1>14. CASE UNCHANGED vars
    BY <1>14 DEF vars, volumes, program, WholeInv, Whole
  <1> QED
    BY <1>2, <1>3, <1>4, <1>5, <1>6, <1>7, <1>8, <1>9, <1>10, <1>11, <1>12, <1>13, <1>14 DEF Next

(* A program that reports to have finished has left a table that verifies   *)
(* on disk and in memory, and the kernel on its volume; and everything      *)
(* whole when no operation has failed.                                      *)
THEOREM InstallCorrect == Spec => []CompleteMeansInstalled
  <1>1. Inv /\ WholeInv => CompleteMeansInstalled
    <2>1. Inv /\ pc = "complete" => TableOnDisk /\ gpt_verify
      BY WrittenIsTable DEF After
    <2> QED
      BY <2>1 DEF Inv, VolInv, WholeInv, Whole, AllPaths, CompleteMeansInstalled
  <1>2. Init => WholeInv
    BY DEF Init, WholeInv, Whole
  <1>3. Spec => []WholeInv
    BY <1>2, WholeStep, Invariance, PTL DEF Spec
  <1> QED
    BY <1>1, <1>3, Invariance, PTL

(* A volume is written only while the table on disk has its partition.      *)
THEOREM NoWriteUnpartitioned == Spec => WritesOnlyPartitioned
  <1>1. ASSUME Inv, [Next]_vars
        PROVE  [volumes' # volumes => TableOnDisk]_vars
    <2>1. CASE pc \in After
      BY <1>1, <2>1, WrittenIsTable
    <2>2. CASE pc \notin After
      <3>1. CASE Next
        <4>1. CASE \/ PowerOn \/ PowerOff \/ Wipe \/ Partitioning \/ AddBoot \/ AddData
                   \/ Partitioned \/ GptFailed \/ Capacity
          BY <4>1 DEF PowerOn, PowerOff, Wipe, Partitioning, AddBoot, AddData, Partitioned,
                      GptFailed, Capacity, Goto
        <4>2. CASE Probe
          BY <4>2 DEF Probe, Goto
        <4>3. CASE \/ FatFormat \/ FatDirs \/ FatWrite \/ ExFormat \/ ExWrite \/ ExVerify
                   \/ CreateDirPath \/ CopyKernel \/ Complete \/ Refresh \/ Refreshed \/ Mount
                   \/ LookUp \/ ReadKernel \/ StartKernel
          BY <2>2, <4>3 DEF FatFormat, FatDirs, FatWrite, ExFormat, ExWrite, ExVerify,
                   CreateDirPath, CopyKernel, Complete, Refresh, gpt_init, Refreshed, Mount,
                   LookUp, ReadKernel, StartKernel, After
        <4> QED
          BY <3>1, <4>1, <4>2, <4>3 DEF Next
      <3>2. CASE UNCHANGED vars
        BY <3>2
      <3> QED
        BY <1>1, <3>1, <3>2
    <2> QED
      BY <2>1, <2>2
  <1> QED
    BY <1>1, Invariance, PTL DEF Spec, WritesOnlyPartitioned
=============================================================================
