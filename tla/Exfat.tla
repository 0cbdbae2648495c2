------------------------------- MODULE Exfat -------------------------------
(***************************************************************************)
(* The exFAT volume, fs/exfat: the calls of exfat.c (format, init, create  *)
(* path, write, look up and read) with the library they run, down to the   *)
(* single device writes and their order: links in the FAT, zeroed          *)
(* clusters, data, directory entry, bitmap of clusters.  Any read or write *)
(* may fail, and the machine may stop between any two writes.              *)
(*                                                                         *)
(* Abstractions.  A size is a number of clusters, and a file's contents is *)
(* the number of the call that wrote it.  Clusters 2, 3 and 4 are bitmap,  *)
(* upper case table and first cluster of the root.  A name has a fixed     *)
(* directory (Under); its entry set is one slot of a directory cluster,    *)
(* and the first slot of the root holds label, bitmap and table entries.   *)
(* The cached file pointer and valid_size (equal to the size between calls *)
(* of this program) are left out.  Memory is counted in mounts: malloc     *)
(* never gets anything back, and a small block may be refused once there   *)
(* is no room for another mount.                                           *)
(***************************************************************************)
EXTENDS Integers, Sequences, FiniteSets

CONSTANTS
    NumClusters,     \* cluster_count
    ROOT,            \* the root directory
    Files, Dirs,     \* names, below the root
    Under,           \* the directory of each name
    PerCluster,      \* entry sets that fit in a directory cluster
    Sizes,           \* of the files written, in clusters
    HeapSize,        \* mounts that the 2 MiB heap is good for
    MaxCalls, MaxFaults

Objs     == Files \union Dirs
Clusters == 2 .. NumClusters + 1
FREE     == 0
END      == -1
System   == {2, 3, 4}

ASSUME ExfatAssumption ==
    /\ NumClusters \in Nat /\ NumClusters > 3
    /\ ROOT \notin Objs /\ Files \cap Dirs = {}
    /\ Under \in [Objs -> Dirs \union {ROOT}]
    /\ PerCluster \in Nat /\ PerCluster > 1
    /\ Sizes \subseteq Nat /\ HeapSize \in Nat /\ MaxCalls \in Nat /\ MaxFaults \in Nat

VARIABLES
    (* The device. *)
    vbr, sysents,      \* boot record; system entries of the root
    fat, dmap, data, dent,
    (* struct exfat and exfat.c. *)
    g_initialized, cmap, cmap_dirty,
    node,              \* the node tree
    cached,            \* directories whose children are in the tree
    heap,
    (* The call under way. *)
    pc, op, obj, size,
    t,                 \* the exfat_truncate under way
    f,                 \* the exfat_flush_node under way
    written,           \* did exfat_generic_pwrite write everything?
    calls, faults,
    (* Observations. *)
    sound,   \* since the format, every mount found a Consistent volume and no
             \* file that was cut to nothing kept its size
    want     \* what each file holds, going by what the calls returned

device == <<vbr, sysents, fat, dmap, data, dent>>
memory == <<g_initialized, cmap, cmap_dirty, node, cached, heap>>
call   == <<op, obj, size, written>>
seen   == <<sound, want>>
vars   == <<device, memory, pc, call, t, f, calls, faults, seen>>

NoSlot == <<0, 0>>
NoNode == [at |-> NoSlot, start |-> FREE, size |-> 0, contig |-> FALSE, dirty |-> FALSE]
EmptyEntry(k, at) == [k |-> k, at |-> at, start |-> FREE, size |-> 0, contig |-> FALSE]
NoDent == EmptyEntry("none", NoSlot)
NoT    == [o |-> ROOT, to |-> 0, prev |-> 0, left |-> 0, undo |-> FALSE,
           k |-> "idle", kf |-> "idle"]
NoF    == [o |-> ROOT, k |-> "idle", kf |-> "idle"]
ZERO   == <<0, 0>>
ANY    == [call |-> -1, size |-> 0]
ABSENT == [call |-> 0, size |-> 0]

Init ==
    /\ vbr = FALSE /\ sysents = FALSE
    /\ fat = [c \in Clusters |-> FREE] /\ dmap = {}
    /\ data = [c \in Clusters |-> ZERO] /\ dent = [o \in Objs |-> NoDent]
    /\ g_initialized = FALSE /\ cmap = {} /\ cmap_dirty = FALSE
    /\ node = [o \in Objs \union {ROOT} |-> NoNode] /\ cached = {} /\ heap = 0
    /\ pc = "idle" /\ op = "none" /\ obj = ROOT /\ size = 0 /\ written = FALSE
    /\ t = NoT /\ f = NoF /\ calls = 0 /\ faults = 0
    /\ sound = TRUE /\ want = [o \in Files |-> ABSENT]

-----------------------------------------------------------------------------
(* Clusters.                                                                *)
Valid(c) == c \in Clusters

(* exfat_next_cluster and exfat_advance_cluster: the i-th cluster of a file.*)
Follow(n) ==
    LET g[i \in Nat] ==
          IF i = 0 THEN n.start
          ELSE LET c == g[i - 1]
               IN  IF ~Valid(c) THEN END ELSE IF n.contig THEN c + 1 ELSE fat[c]
    IN  g
Nth(n, i) == Follow(n)[i]

ChainOf(n) == {Nth(n, i) : i \in 0 .. n.size - 1}

Lowest(S) == CHOOSE c \in S : \A d \in S : c <= d

(* allocate_cluster: first fit from the hint on, then from the start.       *)
Alloc(hint) ==
    LET room == Clusters \ cmap
        up   == {c \in room : c >= hint}
    IN  IF room = {} THEN END ELSE IF up # {} THEN Lowest(up) ELSE Lowest(room)

Present(o) == o = ROOT \/ node[o].at # NoSlot
Child(o, d) == Under[o] = d

(* What readdir refuses, and with it the whole directory: an entry set with *)
(* a wrong checksum, or a start that does not go with its size.             *)
ChecksumWrong(o) == dent[o].k = "torn"
StartWrong(o) == dent[o].k = "ok" /\ (dent[o].size = 0) # (dent[o].start = FREE)
Damaged(o) == ChecksumWrong(o) \/ StartWrong(o)

EntriesIn(n) == {o \in Objs : dent[o].k # "none" /\ dent[o].at[1] \in ChainOf(n)}

Readable(n) ==
    /\ \A c \in ChainOf(n) : Valid(c)
    /\ \A o \in EntriesIn(n) : ~Damaged(o)

NodeOf(e) == [at |-> e.at, start |-> e.start, size |-> e.size,
              contig |-> e.contig, dirty |-> FALSE]

(* exfat_cache_directory, for the directory d with node n.  A name below    *)
(* another directory is another name here.                                  *)
Loaded(nodes, d, n) ==
    [o \in Objs \union {ROOT} |->
       IF o # ROOT /\ o \in EntriesIn(n) /\ Child(o, d) THEN NodeOf(dent[o]) ELSE nodes[o]]

-----------------------------------------------------------------------------
(* Device operations and the ends of a call.                                *)
Ok    == UNCHANGED faults
Fails == faults < MaxFaults /\ faults' = faults + 1
NoMemory == heap = HeapSize /\ UNCHANGED faults

(* Writing cluster c over: entries that were in it are gone.                *)
Overwritten(S) == [o \in Objs |-> IF dent[o].at[1] \in S THEN NoDent ELSE dent[o]]

Return ==
    /\ pc' = "idle" /\ op' = "none" /\ obj' = ROOT /\ size' = 0 /\ written' = FALSE
    /\ t' = NoT /\ f' = NoF

Goto(l) == pc' = l /\ UNCHANGED <<call, t, f>>

(* A call of exfat_truncate(o, n), exfat_flush_node(o), with the places to  *)
(* go on at when it succeeds and when it fails.                             *)
Truncating(o, n, k, kf) ==
    /\ pc' = "truncate"
    /\ t' = [NoT EXCEPT !.o = o, !.to = n, !.k = k, !.kf = kf]
    /\ UNCHANGED <<call, f>>
Flushing(o, k, kf) ==
    /\ pc' = "flush"
    /\ f' = [o |-> o, k |-> k, kf |-> kf]
    /\ UNCHANGED <<call, t>>

-----------------------------------------------------------------------------
(* Formatting: exfat_format and mkfs.  Erase everything, then write boot    *)
(* record, FAT, bitmap, upper case table and root, in this order.           *)
exfat_format ==
    /\ pc = "idle" /\ ~g_initialized /\ calls < MaxCalls
    /\ calls' = calls + 1 /\ pc' = "erasevbr"
    /\ want' = [o \in Files |-> ANY]
    /\ UNCHANGED <<device, memory, call, t, f, faults, sound>>

EraseVbr ==
    /\ pc = "erasevbr"
    /\ \/ Ok /\ Goto("erase")
       \/ Fails /\ Return
    /\ vbr' = FALSE
    /\ UNCHANGED <<sysents, fat, dmap, data, dent, memory, calls, seen>>

Erase ==
    /\ pc = "erase"
    /\ \/ Ok /\ Goto("mkvbr")
       \/ Fails /\ Return
    /\ fat' = [c \in Clusters |-> FREE] /\ dmap' = {} /\ sysents' = FALSE
    /\ data' = [c \in Clusters |-> IF c \in System THEN ZERO ELSE data[c]]
    /\ dent' = Overwritten(System)
    /\ UNCHANGED <<vbr, memory, calls, seen>>

MakeVbr ==
    /\ pc = "mkvbr"
    /\ \/ Ok /\ vbr' = TRUE /\ Goto("mkfat")
       \/ Fails /\ UNCHANGED vbr /\ Return
    /\ UNCHANGED <<sysents, fat, dmap, data, dent, memory, calls, seen>>

MakeFat ==
    /\ pc = "mkfat"
    /\ \/ /\ Ok /\ Goto("mkcbm")
          /\ fat' = [fat EXCEPT ![2] = END, ![3] = END, ![4] = END]
       \/ /\ Fails /\ Return
          /\ \E n \in 1 .. 4 : fat' = [c \in Clusters |-> IF c <= n THEN END ELSE fat[c]]
    /\ UNCHANGED <<vbr, sysents, dmap, data, dent, memory, calls, seen>>

MakeBitmap ==
    /\ pc = "mkcbm"
    /\ \/ Ok /\ dmap' = System /\ Goto("mkuct")
       \/ Fails /\ UNCHANGED dmap /\ Return
    /\ UNCHANGED <<vbr, sysents, fat, data, dent, memory, calls, seen>>

(* The table's own contents is left out.                                    *)
MakeTable ==
    /\ pc = "mkuct"
    /\ \/ Ok /\ Goto("mkroot")
       \/ Fails /\ Return
    /\ UNCHANGED <<device, memory, calls, seen>>

(* The root is written last; then the heap starts anew.                     *)
MakeRoot ==
    /\ pc = "mkroot" /\ Return
    /\ \/ /\ Ok /\ sysents' = TRUE /\ dent' = [o \in Objs |-> NoDent] /\ heap' = 0
          /\ want' = [o \in Files |-> ABSENT] /\ sound' = TRUE
       \/ Fails /\ UNCHANGED <<sysents, dent, heap, seen>>
    /\ UNCHANGED <<vbr, fat, dmap, data, g_initialized, cmap, cmap_dirty, node, cached,
                   calls>>

-----------------------------------------------------------------------------
(* exfat_mount.                                                             *)
RootOf(z) == [at |-> NoSlot, start |-> 4, size |-> z, contig |-> FALSE, dirty |-> FALSE]
RootNode == LET L == {i \in 1 .. NumClusters : Nth(RootOf(0), i) = END
                         /\ \A j \in 0 .. i - 1 : Valid(Nth(RootOf(0), j))}
            IN  RootOf(IF L = {} THEN 0 ELSE Lowest(L))

Mountable == vbr /\ RootNode.size > 0 /\ sysents /\ Readable(RootNode)

(* The bitmap covers every cluster in use, and none is used twice, going by *)
(* the device alone; the code does not look into this.                      *)
Foreign(o)  == IF o = ROOT THEN System \ {4} ELSE System
OnDevice(o) == IF o = ROOT THEN RootNode ELSE IF dent[o].k = "ok" THEN dent[o] ELSE NoDent
Consistent ==
    /\ \A o \in Objs \union {ROOT} : ChainOf(OnDevice(o)) \subseteq dmap \ Foreign(o)
    /\ \A o, p \in Objs \union {ROOT} :
          \A i \in 0 .. OnDevice(o).size - 1, j \in 0 .. OnDevice(p).size - 1 :
             Nth(OnDevice(o), i) = Nth(OnDevice(p), j) => o = p /\ i = j

(* A failed exfat_init leaves g_initialized as it was, over an empty g_ef;  *)
(* the programs end there (bootloader.c:384-387), so that it is cleared     *)
(* here as exfat_create_dir_path does.                                      *)
Mount ==
    /\ pc = "mount"
    /\ \/ /\ Ok /\ Mountable /\ heap < HeapSize
          /\ g_initialized' = TRUE /\ cmap' = dmap /\ cmap_dirty' = FALSE
          /\ node' = Loaded([o \in Objs \union {ROOT} |->
                               IF o = ROOT THEN RootNode ELSE NoNode], ROOT, RootNode)
          /\ cached' = {ROOT} /\ heap' = heap + 1
          /\ sound' = (sound /\ Consistent)
       \/ /\ (Ok /\ ~(Mountable /\ heap < HeapSize)) \/ Fails
          /\ g_initialized' = FALSE
          /\ node' = [o \in Objs \union {ROOT} |-> NoNode] /\ cached' = {}
          /\ cmap' = {} /\ cmap_dirty' = FALSE
          /\ UNCHANGED <<heap, sound>>
    /\ Return
    /\ UNCHANGED <<device, calls, want>>

(* exfat_init, also over a mounted volume: the cache is dropped as it is.   *)
(* With it go files that wait to be flushed, and those in a directory that  *)
(* does.                                                                    *)
Flushed(o) == \E S \in SUBSET Objs :
                 /\ o \in S
                 /\ \A p \in S : ~node[p].dirty /\ (Under[p] = ROOT \/ Under[p] \in S)
Forgotten == [o \in Files |-> IF Flushed(o) THEN want[o] ELSE ANY]

exfat_init ==
    /\ pc = "idle" /\ calls < MaxCalls /\ vbr
    /\ calls' = calls + 1 /\ pc' = "mount"
    /\ want' = Forgotten
    /\ UNCHANGED <<device, memory, call, t, f, faults, sound>>

(* Power is lost; inside a call that is a device operation cut short.       *)
Crash ==
    /\ pc = "idle" => g_initialized
    /\ IF pc = "idle" THEN Ok ELSE Fails
    /\ g_initialized' = FALSE /\ cmap' = {} /\ cmap_dirty' = FALSE
    /\ node' = [o \in Objs \union {ROOT} |-> NoNode] /\ cached' = {} /\ heap' = 0
    /\ want' = Forgotten
    /\ Return
    /\ UNCHANGED <<device, calls, sound>>

-----------------------------------------------------------------------------
(* The calls on a mounted volume.                                           *)
Call(name, o, n) ==
    /\ pc = "idle" /\ g_initialized /\ calls < MaxCalls
    /\ calls' = calls + 1 /\ op' = name /\ obj' = o /\ size' = n
    /\ pc' = "lookup"
    /\ UNCHANGED <<device, memory, written, t, f, faults, sound>>

exfat_write_file(o, n) == Call("write", o, n) /\ want' = [want EXCEPT ![o] = ANY]
exfat_create_dir_path(d) == Call("mkdir", d, 1) /\ Child(d, ROOT) /\ UNCHANGED want
exfat_read_file(o) == Call("read", o, 0) /\ UNCHANGED want
exfat_get_file_info(o) == Call("info", o, 0) /\ UNCHANGED want

(* exfat_lookup, exfat_split: the directory is cached, the name looked for. *)
(* A file that exists is truncated or read, and a directory that exists is  *)
(* EEXIST, which create_dir_path passes over.                               *)
LookUp ==
    /\ pc = "lookup"
    /\ LET p  == Under[obj]
           ns == IF p \in cached THEN node ELSE Loaded(node, p, node[p])
       IN  \/ /\ Ok /\ Present(p) /\ (p \in cached \/ Readable(node[p]))
              /\ cached' = cached \union {p}
              /\ node' = ns
              /\ CASE op = "info" \/ (op = "read" /\ (ns[obj].at = NoSlot \/ obj \in Dirs)) ->
                          Return
                   [] op = "read" /\ ns[obj].at # NoSlot /\ obj \in Files -> Goto("read")
                   [] op \in {"write", "mkdir"} /\ ns[obj].at = NoSlot -> Goto("slot")
                   [] op = "mkdir" /\ ns[obj].at # NoSlot -> Goto("next")
                   [] op = "write" /\ ns[obj].at # NoSlot ->
                          Truncating(obj, size, "data", "fail")
           \/ /\ (Ok /\ ~(Present(p) /\ (p \in cached \/ Readable(node[p]))))
                 \/ Fails \/ (p \notin cached /\ NoMemory)
              /\ Return /\ UNCHANGED <<node, cached>>
    /\ UNCHANGED <<device, g_initialized, cmap, cmap_dirty, heap, calls, seen>>

(* exfat_generic_pread: a file that was read to its end has a new access    *)
(* time, which makes its node dirty.                                        *)
ReadData ==
    /\ pc = "read" /\ Return
    /\ LET n     == node[obj]
           whole == \A c \in ChainOf(n) : Valid(c)
       IN  \/ Ok /\ node' = [node EXCEPT ![obj].dirty = @ \/ (n.size > 0 /\ whole)]
           \/ Fails /\ n.size > 0 /\ UNCHANGED node
    /\ UNCHANGED <<device, g_initialized, cmap, cmap_dirty, cached, heap, calls, seen>>

-----------------------------------------------------------------------------
(* exfat_truncate.                                                          *)
SetNode(o, n) == node' = [node EXCEPT ![o] = n]

TruncFailed == pc' = t.kf /\ t' = NoT /\ UNCHANGED <<call, f>>

(* Where it starts: nothing to do, the last cluster of a file that has any, *)
(* the first cluster of one that has none.  A file whose size is zero and   *)
(* start is not has no last cluster.                                        *)
TruncateSame ==
    /\ pc = "truncate" /\ node[t.o].size = t.to
    /\ pc' = t.k /\ t' = NoT /\ UNCHANGED <<call, f>>
    /\ Ok /\ UNCHANGED <<device, memory, calls, seen>>

GrowFrom ==
    /\ pc = "truncate" /\ node[t.o].size < t.to /\ node[t.o].start # FREE
    /\ LET n    == node[t.o]
           last == IF n.size = 0 THEN END ELSE Nth(n, n.size - 1)
       IN  \/ /\ Ok /\ Valid(last)
              /\ t' = [t EXCEPT !.prev = last, !.left = t.to - n.size]
              /\ pc' = "grow" /\ UNCHANGED <<call, f>>
           \/ /\ (Ok /\ ~Valid(last)) \/ (Fails /\ ~n.contig)
              /\ TruncFailed
    /\ UNCHANGED <<device, memory, calls, seen>>

(* Faulty variant: a full volume is not noticed.                            *)
GrowFirst_Unchecked ==
    /\ pc = "truncate" /\ node[t.o].size < t.to /\ node[t.o].start = FREE
    /\ Ok
    /\ LET c == Alloc(0)
       IN  /\ cmap' = cmap \union {c} /\ cmap_dirty' = TRUE
           /\ SetNode(t.o, [node[t.o] EXCEPT !.start = c, !.contig = TRUE])
           /\ t' = [t EXCEPT !.prev = c, !.left = t.to - node[t.o].size - 1]
           /\ pc' = "grow" /\ UNCHANGED <<call, f>>
    /\ UNCHANGED <<device, g_initialized, cached, heap, calls, seen>>

GrowFirst ==
    /\ pc = "truncate" /\ node[t.o].size < t.to /\ node[t.o].start = FREE
    /\ Ok
    /\ LET c == Alloc(0)
       IN  IF Valid(c)
           THEN /\ cmap' = cmap \union {c} /\ cmap_dirty' = TRUE
                /\ SetNode(t.o, [node[t.o] EXCEPT !.start = c, !.contig = TRUE])
                /\ t' = [t EXCEPT !.prev = c, !.left = t.to - node[t.o].size - 1]
                /\ pc' = "grow" /\ UNCHANGED <<call, f>>
           ELSE TruncFailed /\ UNCHANGED <<cmap, cmap_dirty, node>>
    /\ UNCHANGED <<device, g_initialized, cached, heap, calls, seen>>

(* grow_file's loop.  The first cluster that does not follow its            *)
(* predecessor makes the file non-contiguous: its links so far are written. *)
Linked(first, last) ==
    [c \in Clusters |-> IF first <= c /\ c < last THEN c + 1 ELSE fat[c]]

GrowOne ==
    /\ pc = "grow" /\ t.left > 0
    /\ LET n     == node[t.o]
           next  == Alloc(t.prev + 1)
           break == next # t.prev + 1 /\ n.contig
           n2    == IF break THEN [n EXCEPT !.contig = FALSE, !.dirty = TRUE] ELSE n
           f2    == IF break THEN Linked(n.start, t.prev) ELSE fat
       IN  /\ Valid(next)
           /\ cmap' = cmap \union {next} /\ cmap_dirty' = TRUE
           /\ \/ /\ Ok /\ SetNode(t.o, n2)
                 /\ fat' = IF n2.contig THEN f2 ELSE [f2 EXCEPT ![t.prev] = next]
                 /\ t' = [t EXCEPT !.prev = next, !.left = @ - 1]
                 /\ UNCHANGED <<pc, call, f>>
              \/ /\ Fails /\ ~n2.contig /\ fat' = f2 /\ SetNode(t.o, n2) /\ TruncFailed
              \/ /\ Fails /\ break /\ UNCHANGED node /\ TruncFailed
                 /\ \E c \in n.start .. t.prev - 1 : fat' = Linked(n.start, c)
    /\ UNCHANGED <<vbr, sysents, dmap, data, dent, g_initialized, cached, heap, calls, seen>>

(* No space: what this call has added is taken away again.                  *)
GrowNoSpace ==
    /\ pc = "grow" /\ t.left > 0 /\ Ok
    /\ ~Valid(Alloc(t.prev + 1))
    /\ LET old == node[t.o].size
           now == t.to - t.left
       IN  IF now > old
           THEN /\ pc' = "crop" /\ UNCHANGED <<call, f>>
                /\ t' = [t EXCEPT !.to = old, !.left = now - old, !.undo = TRUE]
           ELSE TruncFailed
    /\ UNCHANGED <<device, memory, calls, seen>>

GrowEnd ==
    /\ pc = "grow" /\ t.left = 0
    /\ \/ /\ Ok /\ Goto("erasenew")
          /\ fat' = IF node[t.o].contig THEN fat ELSE [fat EXCEPT ![t.prev] = END]
       \/ Fails /\ ~node[t.o].contig /\ UNCHANGED fat /\ TruncFailed
    /\ UNCHANGED <<vbr, sysents, dmap, data, dent, memory, calls, seen>>

(* erase_range over the new clusters, then the new size.  A link that       *)
(* cannot be read on the way from one new cluster to the next is an         *)
(* exfat_bug, which does not return.                                        *)
Hung == pc' = "bug" /\ t' = NoT /\ UNCHANGED <<call, f>>

EraseNew ==
    /\ pc = "erasenew"
    /\ LET n   == node[t.o]
           new == n.size .. t.to - 1
           S(m) == {Nth(n, i) : i \in {j \in new : j < m}}
       IN  \/ /\ Ok /\ dent' = Overwritten(S(t.to))
              /\ data' = [c \in Clusters |-> IF c \in S(t.to) THEN ZERO ELSE data[c]]
              /\ SetNode(t.o, [n EXCEPT !.size = t.to, !.dirty = TRUE])
              /\ pc' = t.k /\ t' = NoT /\ UNCHANGED <<call, f>>
           \/ /\ Fails /\ UNCHANGED node
              /\ \E m \in new : /\ TruncFailed \/ (Hung /\ m > n.size /\ ~n.contig)
                                /\ dent' = Overwritten(S(m))
                                /\ data' = [c \in Clusters |->
                                              IF c \in S(m) THEN ZERO ELSE data[c]]
    /\ UNCHANGED <<vbr, sysents, fat, dmap, g_initialized, cmap, cmap_dirty, cached,
                   heap, calls, seen>>

(* shrink_file: cut the chain, then free what was cut off, cluster by       *)
(* cluster.                                                                 *)
ShrinkFrom ==
    /\ pc = "truncate" /\ node[t.o].size > t.to
    /\ t' = [t EXCEPT !.left = node[t.o].size - t.to]
    /\ pc' = "crop" /\ UNCHANGED <<call, f>>
    /\ Ok /\ UNCHANGED <<device, memory, calls, seen>>

(* Faulty variant: a file that is cut to nothing keeps its start.           *)
Cropped_KeepsStart(n, to) == n

Cropped(n, to) == IF to = 0 THEN [n EXCEPT !.start = FREE, !.dirty = TRUE] ELSE n

Crop ==
    /\ pc = "crop"
    /\ LET n    == node[t.o]
           last == IF t.to = 0 THEN FREE ELSE Nth(n, t.to - 1)
       IN  \/ /\ Ok /\ (t.to = 0 \/ Valid(last))
              /\ SetNode(t.o, Cropped(n, t.to))
              /\ fat' = IF t.to = 0 \/ n.contig THEN fat ELSE [fat EXCEPT ![last] = END]
              /\ t' = [t EXCEPT !.prev = Nth(n, t.to)]
              /\ pc' = "free" /\ UNCHANGED <<call, f>>
           \/ /\ t.to > 0
              /\ Valid(last) => faults < MaxFaults /\ ~n.contig
              /\ faults' = IF Valid(last) THEN faults + 1 ELSE faults
              /\ UNCHANGED <<fat, node>> /\ TruncFailed
    /\ UNCHANGED <<vbr, sysents, dmap, data, dent, g_initialized, cmap, cmap_dirty,
                   cached, heap, calls, seen>>

Freed == /\ cmap' = cmap \ {t.prev} /\ cmap_dirty' = TRUE
         /\ fat' = IF node[t.o].contig THEN fat ELSE [fat EXCEPT ![t.prev] = FREE]

(* A write or read that fails here leaves the old size; with no start, the  *)
(* next growth takes that size to be there already.                         *)
FreeOne ==
    /\ pc = "free" /\ t.left > 0
    /\ LET contig == node[t.o].contig
           next   == IF contig THEN t.prev + 1 ELSE fat[t.prev]
       IN  \/ /\ Ok /\ Valid(t.prev) /\ Freed
              /\ t' = [t EXCEPT !.prev = next, !.left = @ - 1]
              /\ UNCHANGED <<pc, call, f, sound>>
           \/ /\ TruncFailed /\ sound' = (sound /\ node[t.o].start # FREE)
              /\ \/ Ok /\ ~Valid(t.prev) /\ UNCHANGED <<fat, cmap, cmap_dirty>>
                 \/ Fails /\ Valid(t.prev) /\ ~contig /\ UNCHANGED <<fat, cmap, cmap_dirty>>
                 \/ Fails /\ Valid(t.prev) /\ ~contig /\ t.left > 1 /\ Freed
    /\ UNCHANGED <<vbr, sysents, dmap, data, dent, g_initialized, node, cached, heap,
                   calls, want>>

(* The new size; after a growth that found no space the size is the old one *)
(* and exfat_truncate returns before setting it.                            *)
FreeEnd ==
    /\ pc = "free" /\ t.left = 0 /\ Ok
    /\ SetNode(t.o, IF t.undo THEN node[t.o]
                    ELSE [node[t.o] EXCEPT !.size = t.to, !.dirty = TRUE])
    /\ pc' = (IF t.undo THEN t.kf ELSE t.k) /\ t' = NoT /\ UNCHANGED <<call, f>>
    /\ UNCHANGED <<device, g_initialized, cmap, cmap_dirty, cached, heap, calls, seen>>

-----------------------------------------------------------------------------
(* create: find_slot, commit_entry, and the flush of the directory.         *)
Failed == pc = "fail" /\ Return /\ Ok /\ UNCHANGED <<device, memory, calls, seen>>

(* Slots in use: those of the children in memory, and in the root also what *)
(* check_slot finds on the device.                                          *)
Taken(d) == {node[o].at : o \in {p \in Objs : Child(p, d)}}
            \union IF d = ROOT THEN {<<4, 1>>} \union {dent[o].at : o \in Objs} ELSE {}

(* The offsets in d, and the slots there.                                   *)
Offsets(d) == (0 .. node[d].size - 1) \X (1 .. PerCluster)
SlotAt(d, p) == <<Nth(node[d], p[1]), p[2]>>

Places(d) == {p \in Offsets(d) : SlotAt(d, p) \notin Taken(d)}

Before(p, q) == p[1] < q[1] \/ (p[1] = q[1] /\ p[2] <= q[2])

SlotIn(d) == SlotAt(d, CHOOSE q \in Places(d) : \A r \in Places(d) : Before(q, r))

FindSlot ==
    /\ pc = "slot"
    /\ LET d == Under[obj]
       IN  \/ Ok /\ Places(d) # {} /\ Goto("commit")
           \/ Ok /\ Places(d) = {} /\ Truncating(d, node[d].size + 1, "commit", "fail")
           \/ (NoMemory \/ (Fails /\ d = ROOT)) /\ Goto("fail")
    /\ UNCHANGED <<device, memory, calls, seen>>

(* A slot is written over: whatever entry set was in it is gone.            *)
InSlot(at, o, e) == [p \in Objs |-> IF p = o THEN e
                                   ELSE IF dent[p].at = at THEN NoDent ELSE dent[p]]

(* An entry set that lies across two sectors can be half written.           *)
Torn(at) == EmptyEntry("torn", at)

(* In a directory whose chain was cut short the slot may be in no cluster.  *)
CommitEntry ==
    /\ pc = "commit"
    /\ LET d  == Under[obj]
           at == SlotIn(d)
           e  == EmptyEntry("ok", at)
       IN  \/ /\ Ok /\ Valid(at[1]) /\ dent' = InSlot(at, obj, e)
              /\ node' = [node EXCEPT ![obj] = NodeOf(e), ![d].dirty = TRUE]
              /\ Flushing(d, "created", "fail")
           \/ /\ NoMemory /\ Valid(at[1]) /\ dent' = InSlot(at, obj, e)
              /\ UNCHANGED node /\ Goto("fail")
           \/ /\ Ok /\ ~Valid(at[1]) /\ UNCHANGED <<dent, node>> /\ Goto("fail")
           \/ /\ Fails /\ Valid(at[1]) /\ UNCHANGED node /\ Goto("fail")
              /\ dent' \in {dent, InSlot(at, obj, Torn(at))}
    /\ UNCHANGED <<vbr, sysents, fat, dmap, data, g_initialized, cmap, cmap_dirty, cached,
                   heap, calls, seen>>

Created ==
    /\ pc = "created" /\ Ok
    /\ IF op = "write" THEN Truncating(obj, size, "data", "fail")
                       ELSE Truncating(obj, 1, "dirflush", "delete")
    /\ UNCHANGED <<device, memory, calls, seen>>

-----------------------------------------------------------------------------
(* exfat_flush_node: the entry, then the bitmap.  For the root it returns   *)
(* at once, bitmap included.                                                *)
FlushDone(k) == pc' = k /\ f' = NoF /\ UNCHANGED <<call, t>>

FlushNothing ==
    /\ pc = "flush" /\ (f.o = ROOT \/ ~node[f.o].dirty)
    /\ FlushDone(f.k) /\ Ok
    /\ UNCHANGED <<device, memory, calls, seen>>

(* Faulty variant: the entry says contiguous whatever became of the file.   *)
EntryFor_Contiguous(n) == [k |-> "ok", at |-> n.at, start |-> n.start, size |-> n.size,
                           contig |-> n.size # 0]

EntryFor(n) == [k |-> "ok", at |-> n.at, start |-> n.start, size |-> n.size,
                contig |-> n.contig /\ n.size # 0]

(* check_entries looks at the types of the entries only: a set torn by an   *)
(* earlier flush is written over, one torn while it was deleted is refused; *)
(* which of the two it was is left open.                                    *)
FlushEntry ==
    /\ pc = "flush" /\ f.o # ROOT /\ node[f.o].dirty
    /\ LET n == node[f.o]
       IN  \/ /\ Ok /\ dent[f.o].k # "none" /\ dent[f.o].at = n.at
              /\ dent' = [dent EXCEPT ![f.o] = EntryFor(n)]
              /\ SetNode(f.o, [n EXCEPT !.dirty = FALSE])
              /\ Goto("bitmap")
           \/ /\ Ok /\ ~(dent[f.o].k = "ok" /\ dent[f.o].at = n.at)
              /\ UNCHANGED <<dent, node>> /\ FlushDone(f.kf)
           \/ /\ Fails /\ UNCHANGED node /\ FlushDone(f.kf)
              /\ dent' \in {dent, [dent EXCEPT ![f.o] = Torn(n.at)]}
    /\ UNCHANGED <<vbr, sysents, fat, dmap, data, g_initialized, cmap, cmap_dirty, cached,
                   heap, calls, seen>>

(* exfat_flush.                                                             *)
(* Faulty variant: the bitmap stays in memory.                              *)
WriteBitmap_Never == UNCHANGED <<dmap, cmap_dirty>>

WriteBitmap == cmap_dirty' = FALSE /\ dmap' = IF cmap_dirty THEN cmap ELSE dmap

FlushBitmap ==
    /\ pc = "bitmap"
    /\ \/ Ok /\ WriteBitmap /\ FlushDone(f.k)
       \/ Fails /\ cmap_dirty /\ UNCHANGED <<dmap, cmap_dirty>> /\ FlushDone(f.kf)
    /\ UNCHANGED <<vbr, sysents, fat, data, dent, g_initialized, cmap, node, cached, heap,
                   calls, seen>>

-----------------------------------------------------------------------------
(* exfat_write_file: the data, then the node; what the flush returns is not *)
(* looked at.                                                               *)
WriteData ==
    /\ pc = "data"
    /\ LET n    == node[obj]
           S(m) == {Nth(n, i) : i \in 0 .. m - 1}
           D(m) == [c \in Clusters |->
                      IF c \in S(m) THEN <<calls, CHOOSE i \in 0 .. m - 1 : Nth(n, i) = c>>
                      ELSE data[c]]
           whole == \A c \in S(size) : Valid(c)
       IN  \/ /\ Ok /\ whole /\ data' = D(size) /\ dent' = Overwritten(S(size))
              /\ SetNode(obj, [n EXCEPT !.dirty = @ \/ size > 0])
              /\ written' = TRUE
           \/ /\ whole => faults < MaxFaults /\ size > 0
              /\ faults' = IF whole THEN faults + 1 ELSE faults
              /\ written' = FALSE /\ UNCHANGED node
              /\ \E m \in 0 .. size - 1 :
                    /\ \A c \in S(m) : Valid(c)
                    /\ data' = D(m) /\ dent' = Overwritten(S(m))
    /\ pc' = "flush" /\ f' = [o |-> obj, k |-> "done", kf |-> "done"]
    /\ UNCHANGED <<vbr, sysents, fat, dmap, g_initialized, cmap, cmap_dirty, cached, heap,
                   op, obj, size, t, calls, seen>>

WriteDone ==
    /\ pc = "done" /\ Ok /\ Return
    /\ want' = [want EXCEPT ![obj] = IF written THEN [call |-> calls, size |-> size] ELSE ANY]
    /\ UNCHANGED <<device, memory, calls, sound>>

-----------------------------------------------------------------------------
(* exfat_mkdir: flush the new directory, or delete it again.  The clusters  *)
(* of a node that is deleted are not given back.                            *)
DirFlush ==
    /\ pc = "dirflush" /\ Ok /\ Flushing(obj, "next", "delete")
    /\ UNCHANGED <<device, memory, calls, seen>>

DeleteEntry ==
    /\ pc = "delete"
    /\ \/ Ok /\ dent' = [dent EXCEPT ![obj] = NoDent] /\ Flushing(Under[obj], "detach", "fail")
       \/ Fails /\ dent' \in {dent, [dent EXCEPT ![obj] = Torn(node[obj].at)]} /\ Goto("fail")
    /\ UNCHANGED <<vbr, sysents, fat, dmap, data, memory, calls, seen>>

(* tree_detach and shrink_directory; a parent that is not cut is dirty for  *)
(* its new time, one that is cut when exfat_truncate has succeeded.         *)
Highest(S) == CHOOSE c \in S : \A d \in S : d <= c
OffsetsOf(d, S) == {p \in Offsets(d) : SlotAt(d, p) \in {node[o].at : o \in S}}

Detach ==
    /\ pc = "detach" /\ Ok
    /\ LET d     == Under[obj]
           rest  == {o \in Objs \ {obj} : Child(o, d) /\ Present(o)}
           after == {q \in OffsetsOf(d, rest) : \E p \in OffsetsOf(d, {obj}) : Before(p, q)}
           new   == Highest({1} \union {p[1] + 1 : p \in OffsetsOf(d, rest)})
       IN  /\ cached' = cached \ {obj}
           /\ IF after = {} /\ new < node[d].size
              THEN /\ node' = [node EXCEPT ![obj] = NoNode]
                   /\ Truncating(d, new, "delflush", "delflush")
              ELSE /\ node' = [node EXCEPT ![obj] = NoNode, ![d].dirty = TRUE]
                   /\ Goto("delflush")
    /\ UNCHANGED <<device, g_initialized, cmap, cmap_dirty, heap, calls, seen>>

DeleteFlush ==
    /\ pc = "delflush" /\ Ok /\ Flushing(Under[obj], "fail", "fail")
    /\ UNCHANGED <<device, memory, calls, seen>>

-----------------------------------------------------------------------------
(* exfat_create_dir_path goes on with the next component of its path, a     *)
(* directory in the one just made or found, or is through with it.          *)
NextComponent(d) ==
    /\ pc = "next" /\ op = "mkdir" /\ Child(d, obj) /\ Ok
    /\ obj' = d /\ pc' = "lookup"
    /\ UNCHANGED <<device, memory, op, size, written, t, f, calls, seen>>

PathDone ==
    /\ pc = "next" /\ Ok /\ Goto("unmount")
    /\ UNCHANGED <<device, memory, calls, seen>>

(* exfat_unmount, with which exfat_create_dir_path ends before it mounts    *)
(* the volume again: nodes, children first; the bitmap; and then the cache  *)
(* is dropped, where a node that is still dirty is an exfat_bug, which does *)
(* not return.                                                              *)
Dirty == {o \in Objs : Present(o) /\ node[o].dirty}

UnmountNode ==
    /\ pc = "unmount" /\ Ok
    /\ \E o \in Dirty : /\ \A p \in Dirty : ~Child(p, o)
                        /\ Flushing(o, "unmount", "lastflush")
    /\ UNCHANGED <<device, memory, calls, seen>>

UnmountNodesDone ==
    /\ pc = "unmount" /\ Dirty = {} /\ Ok /\ Goto("lastflush")
    /\ UNCHANGED <<device, memory, calls, seen>>

Unmount ==
    /\ pc = "lastflush"
    /\ \/ Ok /\ WriteBitmap
       \/ Fails /\ cmap_dirty /\ UNCHANGED <<dmap, cmap_dirty>>
    /\ Goto(IF Dirty = {} THEN "mount" ELSE "bug")
    /\ UNCHANGED <<vbr, sysents, fat, data, dent, g_initialized, cmap, node, cached, heap,
                   calls, seen>>

-----------------------------------------------------------------------------
Next ==
    \/ exfat_format \/ exfat_init
    \/ \E o \in Files, n \in Sizes : exfat_write_file(o, n)
    \/ \E d \in Dirs : exfat_create_dir_path(d)
    \/ \E o \in Objs : exfat_read_file(o) \/ exfat_get_file_info(o)
    \/ EraseVbr \/ Erase \/ MakeVbr \/ MakeFat \/ MakeBitmap \/ MakeTable
    \/ MakeRoot \/ Mount \/ Crash \/ LookUp \/ ReadData
    \/ FindSlot \/ CommitEntry \/ Created \/ Failed
    \/ TruncateSame \/ GrowFrom \/ GrowFirst \/ GrowOne \/ GrowNoSpace \/ GrowEnd
    \/ EraseNew \/ ShrinkFrom \/ Crop \/ FreeOne \/ FreeEnd
    \/ FlushNothing \/ FlushEntry \/ FlushBitmap \/ WriteData \/ WriteDone
    \/ DirFlush \/ DeleteEntry \/ Detach \/ DeleteFlush
    \/ \E d \in Dirs : NextComponent(d)
    \/ PathDone \/ UnmountNode \/ UnmountNodesDone \/ Unmount

Spec == Init /\ [][Next]_vars

-----------------------------------------------------------------------------
(* Properties.                                                              *)

(* The state has its type; in particular the clusters the allocator hands   *)
(* out and frees are clusters of the volume, and as long as sound holds no  *)
(* file is longer than the volume.  (With clusters that the bitmap lacks    *)
(* one can be: grow_file counts them and is given them once more.)          *)
TypeOK ==
    /\ vbr \in BOOLEAN /\ sysents \in BOOLEAN /\ g_initialized \in BOOLEAN
    /\ fat \in [Clusters -> Clusters \union {FREE, END}]
    /\ dmap \subseteq Clusters /\ cmap \subseteq Clusters
    /\ \A o \in Objs :
          /\ dent[o].start \in Clusters \union {FREE}
          /\ dent[o].size \in Nat /\ (sound => dent[o].size <= NumClusters)
    /\ \A o \in Objs \union {ROOT} :
          /\ node[o].start \in Clusters \union {FREE}
          /\ node[o].size \in Nat /\ (sound => node[o].size <= NumClusters)
    /\ heap \in 0 .. HeapSize /\ calls \in 0 .. MaxCalls /\ faults \in 0 .. MaxFaults

(* A file or directory as the program sees it: its node, or its entry while *)
(* the directory has not been read; what is being cut off no longer counts. *)
View(o) == IF o = ROOT \/ Under[o] \in cached THEN node[o]
           ELSE IF dent[o].k = "ok" THEN NodeOf(dent[o]) ELSE NoNode
Held(o) == IF pc = "free" /\ o = t.o THEN [View(o) EXCEPT !.size = t.to] ELSE View(o)
Owned(o) == ChainOf(Held(o)) \cap Clusters

(* As long as every mount since the format found a consistent volume and no *)
(* cut to nothing stopped halfway (cluster.c:333-358), no cluster ever      *)
(* comes to belong to two files, twice to the same one, to a file and the   *)
(* system area, or to a file while it is marked free, whatever other device *)
(* operations fail on the way (cluster.c:114-359, node.c:829-951).          *)
NoCrossLink ==
    sound /\ g_initialized =>
        /\ \A o \in Objs \union {ROOT} : Owned(o) \subseteq cmap \ Foreign(o)
        /\ \A o, p \in Objs \union {ROOT} :
              \A i \in 0 .. Held(o).size - 1, j \in 0 .. Held(p).size - 1 :
                 Valid(Nth(Held(o), i)) /\ Nth(Held(o), i) = Nth(Held(p), j) => o = p /\ i = j

(* Between calls a file holds what the last successful exfat_write_file on  *)
(* it wrote.  Only a call on it that failed takes that away, or a stop of   *)
(* the machine while its node, or that of a directory above it, could not   *)
(* be flushed (exfat.c:219-247).                                            *)
ContentsKept ==
    sound /\ g_initialized /\ pc = "idle" =>
        \A o \in Files : want[o] # ANY =>
            IF want[o] = ABSENT THEN View(o).at = NoSlot
            ELSE /\ View(o).at # NoSlot /\ View(o).size = want[o].size
                 /\ \A i \in 0 .. want[o].size - 1 :
                       /\ Valid(Nth(View(o), i))
                       /\ data[Nth(View(o), i)] = <<want[o].call, i>>

(* While every device operation has succeeded and no call was cut short,    *)
(* what is on the device between two calls can be mounted, every directory  *)
(* read, and the bitmap covers the clusters of every file and directory     *)
(* below the root; and nothing has run into an exfat_bug.  The root itself  *)
(* may lack a bit, as exfat_flush_node returns for it before the bitmap     *)
(* (node.c:642): once such a volume has been mounted nothing is promised.   *)
AtRest ==
    sound /\ faults = 0 =>
        /\ pc # "bug"
        /\ pc = "idle" /\ vbr =>
              /\ Mountable
              /\ \A o \in Objs : dent[o].k = "ok" =>
                    ~Damaged(o) /\ ChainOf(dent[o]) \subseteq dmap
=============================================================================
