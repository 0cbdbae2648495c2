------------------------------- MODULE Fat32 -------------------------------
(***************************************************************************)
(* The FAT32 file system, fs/fat32/fat32.c, above a block device on which  *)
(* any read or write can fail, and with a machine that can be switched off *)
(* between any two of them.                                                *)
(*                                                                         *)
(* The calls that change the volume (write_file_in, create_directory_in,   *)
(* delete_file, delete_directory_in, format) run on the only thread, one   *)
(* after the other; each of the first four is a sequence of steps, one for *)
(* every FAT entry or cluster it writes.  A call that only reads, or fails *)
(* before it has written anything, does not change the state and is not a  *)
(* step.                                                                   *)
(*                                                                         *)
(* Abstractions: sizes are in clusters; a directory is a map from names to *)
(* entries, with room for DirRoom of them (it is never longer than one     *)
(* cluster, since nothing extends it); the FAT fits in one sector; a write *)
(* that has returned is on the medium.                                     *)
(***************************************************************************)
EXTENDS Integers, FiniteSets

CONSTANTS
    TotalClusters,  \* g_fs.total_clusters
    Names, Data,    \* file names; what a file can be filled with
    MaxSize,        \* the longest file written, in clusters
    DirRoom,        \* entries a directory has room for
    NONAME,         \* the name between calls
    UNKNOWN,        \* g_free_clusters = 0xFFFFFFFF
    LOST,           \* the observed contents of a file whose chain is broken
    MaxCalls,       \* calls that change the volume in a behaviour
    MaxFaults       \* failed block operations and crashes in a behaviour

ASSUME Fat32Assumption ==
    /\ TotalClusters \in Nat \ {0}
    /\ IsFiniteSet(Names)
    /\ MaxSize \in Nat /\ DirRoom \in Nat /\ MaxCalls \in Nat /\ MaxFaults \in Nat
    /\ UNKNOWN \notin Int
    /\ LOST \notin Data

FREE == 0                       \* FAT32_FREE
EOC  == 1                       \* FAT32_EOC; 1 is no cluster number either
Root == 2                       \* boot->root_cluster
Clusters == 2 .. TotalClusters + 1

(* A directory entry.  what is observed: the data its writer was told it    *)
(* holds.                                                                   *)
NoEntry == [attr |-> "none", first |-> 0, size |-> 0, what |-> LOST]
Entries == [attr : {"none", "file", "dir"}, first : Clusters \union {0},
            size : 0 .. MaxSize, what : Data \union {LOST}]
EmptyDir == [n \in Names |-> NoEntry]

Dir(ents)   == [kind |-> "dir", ents |-> ents]
Chunk(d, i) == [kind |-> "data", data |-> d, index |-> i]
Blank       == [kind |-> "blank"]

VARIABLES
    (* The volume. *)
    fat1, fat2,    \* the two copies of the FAT
    disk,          \* the contents of the clusters
    fsinfo,        \* the free count in the FSInfo sector
    (* Memory. *)
    g_free_clusters,
    pc,      \* "off" before fat32_init, "idle", or the stage of the call:
             \* "free", "alloc", "link", "data", "entry", "fsinfo"
    op, parent, name, data, size,   \* the call and its arguments
    copy,    \* write_dir_buffer
    victim,  \* old_cluster, the next one to be freed
    scan,    \* where fat32_allocate_cluster's loop is
    first, prev, cluster, index,
    (* Observations; the code does not keep them. *)
    freed,   \* the call has freed a cluster the directory still refers to
    broken,  \* the call lost a link of the chain it is building
    opfault, \* a block operation of the call failed
    damage,  \* a call that had freed such clusters ended without its
             \* directory write, by a fault
    clean,   \* since the format, no fault, no failed call and no file put in
             \* the place of a directory in use
    calls, faults  \* counted for the bounds

volume   == <<fat1, fat2, disk, fsinfo>>
args     == <<op, parent, name, data, size>>
chain    == <<scan, first, prev, cluster, index>>
observed == <<freed, broken, opfault, damage, clean, faults, calls>>
vars     == <<volume, g_free_clusters, pc, args, copy, victim, chain, observed>>

IsDir(c)   == disk[c].kind = "dir"
Entry(p, n) == disk[p].ents[n]
Count(ents) == Cardinality({n \in Names : ents[n].attr # "none"})
InUse(c)   == IF IsDir(c) THEN Count(disk[c].ents) > 0 ELSE TRUE

(* The directories a caller can have the cluster of, which is what          *)
(* fat32_get_root_cluster and fat32_find_directory return.                  *)
Subdirs(p) == {Entry(p, n).first : n \in {m \in Names : Entry(p, m).attr = "dir"}}
ReachableDirs ==
    LET R[k \in 0 .. TotalClusters] ==
            IF k = 0 THEN {Root}
            ELSE R[k - 1] \union {c \in UNION {Subdirs(p) : p \in R[k - 1]} : IsDir(c)}
    IN R[TotalClusters]

FormattedFat == [c \in Clusters |-> IF c = Root THEN EOC ELSE FREE]
FormattedDisk(d) == [d EXCEPT ![Root] = Dir(EmptyDir)]

(* A call's variables, between calls.                                       *)
NoCall ==
    /\ op' = "none" /\ parent' = Root /\ name' = NONAME
    /\ data' = LOST /\ size' = 0
    /\ copy' = EmptyDir /\ victim' = EOC
    /\ scan' = 2 /\ first' = 0 /\ prev' = 0 /\ cluster' = 0 /\ index' = 0
    /\ freed' = FALSE /\ broken' = FALSE /\ opfault' = FALSE

(* A volume fat32_format has just finished, not yet mounted.                *)
Init ==
    /\ fat1 = FormattedFat
    /\ fat2 = [c \in Clusters |-> FREE]
    /\ disk = FormattedDisk([c \in Clusters |-> Blank])
    /\ fsinfo = TotalClusters - 1
    /\ g_free_clusters = TotalClusters - 1
    /\ pc = "off"
    /\ op = "none" /\ parent = Root /\ name = NONAME
    /\ data = LOST /\ size = 0
    /\ copy = EmptyDir /\ victim = EOC
    /\ scan = 2 /\ first = 0 /\ prev = 0 /\ cluster = 0 /\ index = 0
    /\ freed = FALSE /\ broken = FALSE /\ opfault = FALSE
    /\ damage = FALSE /\ clean = TRUE /\ calls = 0 /\ faults = 0

-----------------------------------------------------------------------------
(* Block operations.  ok says whether those of the step succeeded.          *)

Io(ok) ==
    /\ ok \/ faults < MaxFaults
    /\ faults' = IF ok THEN faults ELSE faults + 1

(* A call that changes the volume, counted for the bound.                   *)
Counted ==
    /\ calls < MaxCalls
    /\ calls' = calls + 1

(* fat32_set_next_cluster: the FAT sector is read, changed and written, and *)
(* the same buffer is then written to the second copy.  It fails without a  *)
(* trace, or when the first or also the second copy has changed.            *)
fat32_set_next_cluster(c, next, ok) ==
    \/ /\ fat1' = [fat1 EXCEPT ![c] = next]
       /\ fat2' = fat1' \/ (~ok /\ fat2' = fat2)
    \/ /\ ~ok
       /\ UNCHANGED <<fat1, fat2>>

(* fat32_write_cluster, which may fail before or after the contents count.  *)
fat32_write_cluster(c, contents, ok) ==
    \/ disk' = [disk EXCEPT ![c] = contents]
    \/ ~ok /\ disk' = disk

-----------------------------------------------------------------------------
(* The end of a call.                                                       *)

(* A call fails.  If it has freed clusters of the entry it was to replace,  *)
(* the entry is left pointing at them.  When the only reason was that the   *)
(* disk is full, all of them belong to the chain the call was building, and *)
(* nobody else; otherwise they may be free.                                 *)
Fail(fault) ==
    /\ pc' = "idle"
    /\ NoCall
    /\ clean' = FALSE
    /\ damage' = (damage \/ (freed /\ fault))

MarkLost ==
    disk' = IF freed /\ IsDir(parent)
            THEN [disk EXCEPT ![parent].ents[name].what = LOST] ELSE disk

-----------------------------------------------------------------------------
(* Mounting, formatting, crashing.                                          *)

(* fat32_init: the free count is unknown if the FSInfo sector is unreadable. *)
fat32_init ==
    /\ pc \in {"off", "idle"}
    /\ pc' = "idle"
    /\ \E ok \in BOOLEAN :
         /\ Io(ok)
         /\ g_free_clusters' = IF ok THEN fsinfo ELSE UNKNOWN
         /\ clean' = (clean /\ ok)
    /\ UNCHANGED <<volume, args, copy, victim, chain, freed, broken, opfault, damage, calls>>

(* fat32_format writes, in this order, the boot sectors, the FSInfo sector, *)
(* the first FAT, the second, and the root directory; a failed write ends   *)
(* it there.  The second FAT gets a zeroed buffer.                          *)
FormatStages == 0 .. 4

fat32_format(stage) ==
    /\ pc \in {"off", "idle"}
    /\ Counted
    /\ Io(stage = 4)
    /\ fsinfo' = IF stage >= 1 THEN TotalClusters - 1 ELSE fsinfo
    /\ fat1' = IF stage >= 2 THEN FormattedFat ELSE fat1
    /\ fat2' = IF stage >= 3 THEN [c \in Clusters |-> FREE] ELSE fat2
    /\ disk' = IF stage = 4 THEN FormattedDisk(disk) ELSE disk
    /\ g_free_clusters' = IF stage = 4 THEN TotalClusters - 1 ELSE g_free_clusters
    /\ damage' = (stage # 4 /\ (damage \/ stage >= 2))
    /\ clean' = (stage = 4)
    /\ UNCHANGED <<pc, args, copy, victim, chain, freed, broken, opfault>>

(* The machine is switched off, or restarted.                               *)
Crash ==
    /\ faults < MaxFaults
    /\ faults' = faults + 1
    /\ pc # "off"
    /\ pc' = "off"
    /\ g_free_clusters' = UNKNOWN
    /\ NoCall
    /\ clean' = FALSE
    /\ damage' = (damage \/ (freed /\ pc # "fsinfo"))
    /\ UNCHANGED <<volume, calls>>

-----------------------------------------------------------------------------
(* The beginning of a call, up to the end of its directory scan.            *)

Call(o, p, n, d, s) ==
    /\ op' = o /\ parent' = p /\ name' = n /\ data' = d /\ size' = s
    /\ copy' = disk[p].ents
    /\ Counted
    /\ UNCHANGED <<volume, g_free_clusters, chain, freed, broken, damage>>

(* An existing entry of that name, whatever it is, is replaced; otherwise   *)
(* the directory must have room.                                            *)
fat32_write_file_in(p, n, d, s) ==
    /\ pc = "idle"
    /\ \/ /\ Entry(p, n).attr # "none"
          /\ pc' = "free"
          /\ victim' = Entry(p, n).first
       \/ /\ Entry(p, n).attr = "none"
          /\ Count(disk[p].ents) < DirRoom
          /\ pc' = IF s = 0 THEN "entry" ELSE "alloc"
          /\ UNCHANGED victim
    /\ Call("write", p, n, d, s)
    /\ UNCHANGED <<opfault, clean, faults>>

fat32_create_directory_in(p, n) ==
    /\ pc = "idle"
    /\ Entry(p, n).attr = "none"
    /\ Count(disk[p].ents) < DirRoom
    /\ pc' = "alloc"
    /\ Call("mkdir", p, n, LOST, 1)
    /\ UNCHANGED <<victim, opfault, clean, faults>>

(* fat32_delete_file works on the root directory and does not look at attr. *)
fat32_delete_file(n) ==
    /\ pc = "idle"
    /\ Entry(Root, n).attr # "none"
    /\ pc' = "free"
    /\ victim' = Entry(Root, n).first
    /\ Call("delete", Root, n, LOST, 0)
    /\ UNCHANGED <<opfault, clean, faults>>

(* fat32_is_directory_empty, on the cluster of the directory.  A cluster    *)
(* that holds no directory any more is read as whatever its bytes say, so   *)
(* it can pass for an empty one.                                            *)
fat32_is_directory_empty(c) == IF IsDir(c) THEN Count(disk[c].ents) = 0 ELSE TRUE

(* A failed read in fat32_is_directory_empty counts as empty (it is -1).    *)
fat32_delete_directory_in(p, n) ==
    /\ pc = "idle"
    /\ Entry(p, n).attr = "dir"
    /\ \E ok \in BOOLEAN :
         /\ Io(ok)
         /\ ok => fat32_is_directory_empty(Entry(p, n).first)
         /\ opfault' = ~ok
         /\ clean' = (clean /\ ok)
    /\ pc' = "free"
    /\ victim' = Entry(p, n).first
    /\ Call("rmdir", p, n, LOST, 0)

-----------------------------------------------------------------------------
(* Freeing the old chain.                                                   *)

(* Faulty variant: the next entry is read from the one just freed.          *)
NextVictim_AfterFree(read) == FREE

(* The entry after the victim, read before the victim is freed; a failed    *)
(* read ends the chain.  A directory is freed as a single cluster.          *)
NextVictim(read) == IF read /\ op # "rmdir" THEN fat1[victim] ELSE EOC

fat32_free_cluster ==
    /\ pc = "free"
    /\ victim \in Clusters
    /\ \E read, ok \in BOOLEAN :
         /\ Io(read /\ ok)
         /\ victim' = NextVictim(read)
         /\ fat32_set_next_cluster(victim, FREE, ok)
         /\ g_free_clusters' = IF ok /\ g_free_clusters # UNKNOWN
                               THEN g_free_clusters + 1 ELSE g_free_clusters
         /\ opfault' = (opfault \/ ~read \/ ~ok)
         /\ clean' = (clean /\ read /\ ok)
    /\ freed' = (freed \/ fat1' # fat1)
    /\ UNCHANGED <<disk, fsinfo, pc, args, copy, chain, broken, damage, calls>>

FreeDone ==
    /\ pc = "free"
    /\ victim \notin Clusters
    /\ pc' = IF size = 0 THEN "entry" ELSE "alloc"
    /\ UNCHANGED <<volume, g_free_clusters, args, copy, victim, chain, observed>>

-----------------------------------------------------------------------------
(* Building the new chain.                                                  *)

(* The FREE entry fat32_allocate_cluster's loop comes to next.              *)
FreeFrom(s) == {c \in Clusters : c >= s /\ fat1[c] = FREE}
IsNextFree(c) == c \in FreeFrom(scan) /\ \A d \in FreeFrom(scan) : c <= d

(* The loop finds cluster c: what it stores in the FAT and in the count.    *)
Taken(c, mark, count) ==
    /\ pc = "alloc"
    /\ IsNextFree(c)
    /\ IF mark THEN fat32_set_next_cluster(c, EOC, TRUE) ELSE UNCHANGED <<fat1, fat2>>
    /\ g_free_clusters' = count
    /\ scan' = 2
    /\ cluster' = c
    /\ first' = IF first = 0 THEN c ELSE first
    /\ pc' = IF prev # 0 THEN "link" ELSE "data"
    /\ UNCHANGED <<disk, fsinfo, args, copy, victim, prev, index, observed>>

CountDown == IF g_free_clusters = UNKNOWN \/ g_free_clusters = 0
             THEN g_free_clusters ELSE g_free_clusters - 1

(* Faulty variants: the cluster is not marked as used before the next one   *)
(* is looked for, or the count is not kept from passing zero.               *)
AllocTake_NotMarked(c) == Taken(c, FALSE, CountDown)
AllocTake_CountUnguarded(c) ==
    Taken(c, TRUE, IF g_free_clusters = UNKNOWN THEN UNKNOWN ELSE g_free_clusters - 1)

AllocTake(c) == Taken(c, TRUE, CountDown)

(* Reading or writing its entry failed: the loop goes on behind it.         *)
AllocSkip(c) ==
    /\ pc = "alloc"
    /\ IsNextFree(c)
    /\ Io(FALSE)
    /\ fat32_set_next_cluster(c, EOC, FALSE)
    /\ scan' = c + 1
    /\ opfault' = TRUE
    /\ clean' = FALSE
    /\ UNCHANGED <<disk, fsinfo, g_free_clusters, pc, args, copy, victim,
                   first, prev, cluster, index, freed, broken, damage, calls>>

(* "Disk full or allocation error".                                         *)
AllocFull ==
    /\ pc = "alloc"
    /\ FreeFrom(scan) = {}
    /\ Fail(opfault)
    /\ IF opfault THEN UNCHANGED disk ELSE MarkLost
    /\ UNCHANGED <<fat1, fat2, fsinfo, g_free_clusters, faults, calls>>

(* The previous cluster is made to point at the new one.  The result is     *)
(* not looked at.                                                           *)
Link ==
    /\ pc = "link"
    /\ pc' = "data"
    /\ \E ok \in BOOLEAN :
         /\ Io(ok)
         /\ fat32_set_next_cluster(prev, cluster, ok)
         /\ opfault' = (opfault \/ ~ok)
         /\ clean' = (clean /\ ok)
    /\ broken' = (broken \/ fat1'[prev] # cluster)
    /\ UNCHANGED <<disk, fsinfo, g_free_clusters, args, copy, victim, chain, freed, damage, calls>>

(* Faulty variant: the source pointer is not advanced.                      *)
NewContents_SameChunk == IF op = "mkdir" THEN Dir(EmptyDir) ELSE Chunk(data, 0)

(* The chunk of the file that is written next, or an empty directory.       *)
NewContents == IF op = "mkdir" THEN Dir(EmptyDir) ELSE Chunk(data, index)

(* It is written, and read back and compared if it is a file's.             *)
DataWritten ==
    /\ pc = "data"
    /\ fat32_write_cluster(cluster, NewContents, TRUE)
    /\ index' = index + 1
    /\ prev' = cluster
    /\ pc' = IF index + 1 = size THEN "entry" ELSE "alloc"
    /\ UNCHANGED <<fat1, fat2, fsinfo, g_free_clusters, args, copy, victim,
                   scan, first, cluster, observed>>

(* If that fails, create_directory_in gives the cluster back, which may     *)
(* fail in turn, and write_file_in does not.                                *)
DataFailed ==
    /\ pc = "data"
    /\ Io(FALSE)
    /\ fat32_write_cluster(cluster, NewContents, FALSE)
    /\ \/ /\ op = "write"
          /\ UNCHANGED <<fat1, fat2, g_free_clusters>>
       \/ /\ op = "mkdir"
          /\ \/ /\ fat32_set_next_cluster(cluster, FREE, TRUE)
                /\ g_free_clusters' = IF g_free_clusters # UNKNOWN
                                      THEN g_free_clusters + 1 ELSE g_free_clusters
             \/ /\ fat32_set_next_cluster(cluster, FREE, FALSE)
                /\ UNCHANGED g_free_clusters
    /\ Fail(TRUE)
    /\ UNCHANGED <<fsinfo, calls>>

-----------------------------------------------------------------------------
(* The directory write and what follows it.                                 *)

NewEntry ==
    IF op = "mkdir"
    THEN [attr |-> "dir", first |-> first, size |-> 0, what |-> LOST]
    ELSE [attr |-> "file", first |-> first, size |-> size,
          what |-> IF broken THEN LOST ELSE data]

(* Faulty variant: a deletion writes the directory back as it was.          *)
NewDirectory_KeepsEntry ==
    IF op \in {"write", "mkdir"} THEN Dir([copy EXCEPT ![name] = NewEntry])
    ELSE disk[parent]

(* The cluster write_file_in and create_directory_in put back is the copy   *)
(* made by the scan; the two deletions read it again.                       *)
NewDirectory ==
    IF op \in {"write", "mkdir"} THEN Dir([copy EXCEPT ![name] = NewEntry])
    ELSE IF IsDir(parent) THEN Dir([disk[parent].ents EXCEPT ![name] = NoEntry])
    ELSE disk[parent]

(* A file has taken the place of a directory that had entries.              *)
Buries ==
    /\ op \in {"write", "delete"}
    /\ copy[name].attr = "dir"
    /\ InUse(copy[name].first)

EntryWritten ==
    /\ pc = "entry"
    /\ fat32_write_cluster(parent, NewDirectory, TRUE)
    /\ pc' = "fsinfo"
    /\ clean' = (clean /\ ~Buries)
    /\ UNCHANGED <<fat1, fat2, fsinfo, g_free_clusters, args, copy, victim, chain,
                   freed, broken, opfault, damage, faults, calls>>

EntryFailed ==
    /\ pc = "entry"
    /\ Io(FALSE)
    /\ fat32_write_cluster(parent, NewDirectory, FALSE)
    /\ Fail(disk' = disk)
    /\ UNCHANGED <<fat1, fat2, fsinfo, g_free_clusters, calls>>

(* fat32_update_fsinfo, whose result is not looked at, and the return.      *)
fat32_update_fsinfo ==
    /\ pc = "fsinfo"
    /\ \E ok \in BOOLEAN :
         /\ Io(ok)
         /\ fsinfo' \in {IF g_free_clusters = UNKNOWN THEN fsinfo ELSE g_free_clusters}
                        \union IF ok THEN {} ELSE {fsinfo}
         /\ clean' = (clean /\ ok)
    /\ pc' = "idle"
    /\ NoCall
    /\ UNCHANGED <<fat1, fat2, disk, g_free_clusters, damage, calls>>

Next ==
    \/ fat32_init
    \/ \E stage \in FormatStages : fat32_format(stage)
    \/ Crash
    \/ \E p \in ReachableDirs, n \in Names, d \in Data, s \in 0 .. MaxSize :
           fat32_write_file_in(p, n, d, s)
    \/ \E p \in ReachableDirs, n \in Names : fat32_create_directory_in(p, n)
    \/ \E n \in Names : fat32_delete_file(n)
    \/ \E p \in ReachableDirs, n \in Names : fat32_delete_directory_in(p, n)
    \/ fat32_free_cluster \/ FreeDone
    \/ \E c \in Clusters : AllocTake(c) \/ AllocSkip(c)
    \/ AllocFull
    \/ Link
    \/ DataWritten \/ DataFailed
    \/ EntryWritten \/ EntryFailed
    \/ fat32_update_fsinfo

Spec == Init /\ [][Next]_vars

-----------------------------------------------------------------------------
FatValues == {FREE, EOC} \union Clusters

Contents ==
    [kind : {"dir"}, ents : [Names -> Entries]]
        \union [kind : {"data"}, data : Data, index : 0 .. MaxSize] \union {Blank}

TypeOK ==
    /\ fat1 \in [Clusters -> FatValues] /\ fat2 \in [Clusters -> FatValues]
    /\ disk \in [Clusters -> Contents]
    /\ fsinfo \in Nat \union {UNKNOWN} /\ g_free_clusters \in Nat \union {UNKNOWN}
    /\ pc \in {"off", "idle", "free", "alloc", "link", "data", "entry", "fsinfo"}
    /\ op \in {"none", "write", "mkdir", "delete", "rmdir"}
    /\ parent \in Clusters /\ name \in Names \union {NONAME}
    /\ data \in Data \union {LOST} /\ size \in 0 .. MaxSize + 1
    /\ copy \in [Names -> Entries]
    /\ victim \in FatValues
    /\ scan \in 2 .. TotalClusters + 2
    /\ first \in Clusters \union {0} /\ prev \in Clusters \union {0}
    /\ cluster \in Clusters \union {0} /\ index \in 0 .. MaxSize + 1
    /\ freed \in BOOLEAN /\ broken \in BOOLEAN /\ opfault \in BOOLEAN
    /\ damage \in BOOLEAN /\ clean \in BOOLEAN 
    /\ calls \in 0 .. MaxCalls /\ faults \in 0 .. MaxFaults

(* The FAT never has a cycle, so the loops that walk a chain (reading,      *)
(* comparing and, above all, freeing it) end: no set of clusters is closed  *)
(* under the links.  This holds whatever has failed and whenever the        *)
(* machine was switched off, also when chains have come to share clusters.  *)
ChainsAcyclic ==
    \A S \in SUBSET Clusters : S # {} => \E c \in S : fat1[c] \notin S

(* What makes it inductive: the cluster a link is made to is a fresh end of *)
(* chain, and another one than the cluster it is made from, which is not    *)
(* free while the chain is being built.                                     *)
ChainInv ==
    /\ fat1 \in [Clusters -> FatValues]
    /\ prev \in Clusters \union {0}
    /\ pc \in {"off", "idle", "free"} => prev = 0
    /\ pc = "alloc" /\ prev # 0 => fat1[prev] # FREE
    /\ pc = "link" => /\ prev \in Clusters /\ cluster \in Clusters
                      /\ cluster # prev /\ fat1[cluster] = EOC
    /\ pc = "data" => cluster \in Clusters /\ fat1[cluster] # FREE

(* The clusters fat32_read_file_in visits for an entry: Walk(c)[k] is the   *)
(* one after k links.                                                       *)
Walk(c) ==
    LET w[k \in 0 .. TotalClusters] ==
            IF k = 0 THEN c
            ELSE IF w[k - 1] \in Clusters THEN fat1[w[k - 1]] ELSE EOC
    IN w
ChainOf(c)  == {Walk(c)[k] : k \in 0 .. TotalClusters} \cap Clusters
ChainEnd(c) == Walk(c)[Cardinality(ChainOf(c))]

EntryAt(e) == Entry(e[1], e[2])
Used == {e \in ReachableDirs \X Names : EntryAt(e).attr # "none"}

(* As long as no fault has hit a call between freeing and its directory     *)
(* write, the entries of the directory tree have chains of allocated        *)
(* clusters that end in an end mark, share no cluster with each other, and  *)
(* leave the root directory alone.                                          *)
ChainsSound ==
    ~damage /\ pc \in {"idle", "off"} =>
        /\ \A e \in Used :
             LET E == EntryAt(e) IN
             /\ E.first # 0 => ChainEnd(E.first) = EOC
             /\ Root \notin ChainOf(E.first)
        /\ \A e, f \in Used :
             e # f => ChainOf(EntryAt(e).first) \cap ChainOf(EntryAt(f).first) = {}

(* What fat32_read_file_in copies out for an entry is what the latest call  *)
(* of fat32_write_file_in that returned 0 was given, as long as no fault    *)
(* has hit a call as above, no later call on the same file has run out of   *)
(* space, and no link was lost: clusters are never taken from a file that   *)
(* still has them, not even by a failed call or across a crash.             *)
ContentsKept ==
    ~damage /\ pc \in {"idle", "off"} =>
        \A e \in Used :
            LET E == EntryAt(e) IN
            E.attr = "file" /\ E.what # LOST =>
                \A k \in 0 .. E.size - 1 :
                    /\ Walk(E.first)[k] \in Clusters
                    /\ disk[Walk(E.first)[k]] = Chunk(E.what, k)

(* The free count in memory and in the FSInfo sector is exact, and every    *)
(* allocated cluster belongs to an entry, after any sequence of calls that  *)
(* all succeeded.                                                           *)
CleanAccounting ==
    clean /\ pc = "idle" =>
        LET free == FreeFrom(2) IN
        /\ g_free_clusters = Cardinality(free)
        /\ fsinfo = g_free_clusters
        /\ Clusters \ free = {Root} \union UNION {ChainOf(EntryAt(e).first) : e \in Used}

(* "Initialize FATs" and "Update backup FAT if present": with no fault, the *)
(* second FAT is a copy of the first.                                       *)
BackupCurrent == clean /\ pc = "idle" => fat2 = fat1
=============================================================================
