--------------------------- MODULE ExfatContents ---------------------------
(***************************************************************************)
(* Between calls a file of the exFAT volume holds what was last written to *)
(* it, and a name is where it was made, as long as the write of its entry  *)
(* did not fail: for a volume, a directory tree and files of any size.     *)
(*                                                                         *)
(* This is about what lies in the clusters, the data of a file and the     *)
(* entries of a directory, and about the way from the root down to the     *)
(* file.  On top of IInv of ExfatProofs, KInv says that every node sits in *)
(* a slot of its directory, that a node which is not dirty is as its entry *)
(* has it, and that a file with a promised contents is reached from the    *)
(* root and has it; without the tree in memory, that the same holds going  *)
(* by the device.  As clusters are apart, a write to one file hits no      *)
(* entry and no other file.                                                *)
(*                                                                         *)
(* And while nothing has failed, what is on the device between two calls   *)
(* can be mounted and read, under a bitmap that covers it.  That has to be *)
(* read off the device, where FAT, entries and bitmap are written at       *)
(* different times.  RInv compares the two sides all the way through a     *)
(* call: what the entry of a file has is in the same clusters as the file, *)
(* the entry of a directory has the places of the entries that matter in   *)
(* it, no chain ends early, and the exceptions are the few places between  *)
(* two writes, by name (Gone, Coming, Fresher, Behind).                    *)
(***************************************************************************)
EXTENDS ExfatProofs

-----------------------------------------------------------------------------
(* The invariant.                                                           *)

(* Places for an entry set. A place of a directory counts unless the        *)
(* directory is being cut before it; an object sits where its directory has *)
(* a place that counts for its slot.                                        *)
Slots == Clusters \X (1 .. PerCluster)
Counts(d, i) == i < View(d).size /\ (pc \in Cutting /\ d = t.o => i < t.to)
Sits(a) == /\ View(a).at \in Slots
           /\ \E i \in Nat : Counts(Under[a], i) /\ View(a).at[1] = At(Under[a], i)

(* Every entry on the device is in a slot, and every node in memory sits in *)
(* its directory.                                                           *)
EntrySlots == \A o \in Objs : dent[o].at \in Slots \union {NoSlot}
Seated == \A a \in Objs : Present(a) => Sits(a)

(* A node is as its entry has it (a file of no size has no start to         *)
(* compare), or is that of a directory with nothing in it: all that         *)
(* exfat_mkdir leaves behind when it fails halfway.                         *)
Match(a) == /\ dent[a].k = "ok" /\ dent[a].at = node[a].at /\ dent[a].size = node[a].size
            /\ node[a].size # 0 => dent[a].start = node[a].start /\ dent[a].contig = node[a].contig
Hollow(a) == /\ a \in Dirs
             /\ \A c \in Objs : Under[c] = a =>
                   IF a \in cached THEN ~Present(c) ELSE c \notin EntriesIn(node[a])

(* Whatever is not marked dirty is one of these two, so that nothing is     *)
(* lost with the memory.                                                    *)
Synced == \A a \in Objs : Present(a) => node[a].dirty = TRUE \/ Match(a) \/ Hollow(a)

NewDir == \/ pc \in {"dirflush", "delete", "detach"}
          \/ pc \in FlushAt /\ (f.kf = "delete" \/ f.k = "detach")

(* The files whose contents is known, and that they have it. *)
Known(o) == o \in Files /\ want[o].call > 0

(* It sits in a directory that sits in one, up to the root, and has the     *)
(* size and the contents.                                                   *)
Rooted(o) == \E S \in SUBSET Objs :
                o \in S /\ \A s \in S : Sits(s) /\ (Under[s] = ROOT \/ Under[s] \in S)
Holds(o, c, n) == /\ View(o).size = n
                  /\ \A i \in 0 .. n - 1 : At(o, i) \in Clusters /\ data[At(o, i)] = <<c, i>>

(* Every promised file is like that.                                        *)
KeptFiles == \A o \in Files : Known(o) => Rooted(o) /\ Holds(o, want[o].call, want[o].size)

(* The same, going by the device. *)
DiskNode(d) == IF d = ROOT THEN RootOf(0) ELSE NodeOf(dent[d])

(* The i-th cluster of a directory or file going by the device.             *)
DiskAt(d, i) == Nth(DiskNode(d), i)

(* Sitting, being rooted and having the contents, going by the device       *)
(* alone.                                                                   *)
DSits(a) == /\ dent[a].k = "ok" /\ dent[a].at \in Slots
            /\ \E i \in Nat : /\ Under[a] = ROOT \/ i < dent[Under[a]].size
                              /\ dent[a].at[1] = DiskAt(Under[a], i)
DRooted(o) == \E S \in SUBSET Objs :
                o \in S /\ \A s \in S : DSits(s) /\ (Under[s] = ROOT \/ Under[s] \in S)
DHolds(o, c, n) == /\ dent[o].size = n
                   /\ \A i \in 0 .. n - 1 : DiskAt(o, i) \in Clusters /\ data[DiskAt(o, i)] = <<c, i>>
DKept(o) == DRooted(o) /\ DHolds(o, want[o].call, want[o].size)

(* Every promised file is like that when there is no memory.                *)
OnDisk == \A o \in Files : Known(o) => DKept(o)

(* exfat_generic_pwrite that reported success did write; what is promised   *)
(* on the way into exfat_mount was flushed; a new directory is empty;       *)
(* create found a slot.                                                     *)
Wrote == written = TRUE => Holds(obj, calls, size)
Dropped == pc = "mount" => \A o \in Files : Known(o) => Flushed(o)
Fresh == NewDir => Hollow(obj)
Room == pc = "commit" => Places(Under[obj]) # {}

(* The part of the invariant about what is stored,                          *)
Store == Seated /\ Synced /\ KeptFiles /\ Wrote /\ Dropped /\ Fresh /\ Room

(* and the whole: the device alone carries the files while nothing is       *)
(* mounted.                                                                 *)
KInv == /\ Script
        /\ sound => EntrySlots
        /\ sound /\ ~g_initialized => OnDisk
        /\ sound /\ g_initialized => Store

-----------------------------------------------------------------------------
(* Entries that keep their place and files that keep their contents.        *)

(* The view of an object, by whether its directory has been read.           *)
LEMMA ViewIs ==
    /\ View(ROOT) = node[ROOT] /\ View(ROOT)' = node'[ROOT]
    /\ \A o \in Objs : /\ Under[o] \in cached => View(o) = node[o]
                       /\ Under[o] \in cached' => View(o)' = node'[o]
                       /\ Under[o] \notin cached =>
                             View(o) = IF dent[o].k = "ok" THEN NodeOf(dent[o]) ELSE NoNode
                       /\ Under[o] \notin cached' =>
                             View(o)' = IF dent'[o].k = "ok" THEN NodeOf(dent'[o]) ELSE NoNode
  BY ObjectSet DEF View, NodeOf, NoNode

(* Slots lie in clusters.                                                   *)
LEMMA SlotsAre ==
    /\ NoSlot \notin Slots
    /\ \A s \in Slots : s[1] \in Clusters /\ s[2] \in 1 .. PerCluster /\ s = <<s[1], s[2]>> /\ s # NoSlot
  <1>1. NoSlot \notin Slots
    BY ClusterSet DEF Slots, NoSlot, FREE
  <1> QED
    BY <1>1 DEF Slots

(* A place that counts is one of the places that IInv keeps apart,          *)
LEMMA CountsPlace ==
    ASSUME Basic, NEW o \in Objects, NEW i \in Nat, Counts(o, i)
    PROVE  i \in Place(o) /\ i < View(o).size
  <1>1. View(o).size \in Nat /\ Length(o) \in Int /\ i < View(o).size
    BY ViewTyped DEF IsNode, Counts
  <1>2. CASE o = t.o /\ pc \in Cutting
    <2>1. View(o) = node[t.o] /\ i < t.to /\ t.to \in Nat /\ t.left \in Nat
      BY <1>2, CutView, CuttingFacts DEF Counts
    <2>2. CASE pc = "grow"
      BY <2>2, <2>1, <1>1, <1>2 DEF Length, Place, Basic, Progress
    <2>3. CASE pc = "crop"
      BY <2>3, <2>1, <1>1, <1>2 DEF Length, Place
    <2>4. CASE pc \in {"erasenew", "free"}
      BY <2>4, <2>1, <1>1, <1>2 DEF Length, Place
    <2> QED
      BY <2>2, <2>3, <2>4, <1>1, <1>2 DEF Length, Place, Cutting
  <1>3. CASE ~(o = t.o /\ pc \in Cutting)
    <2>1. Length(o) = View(o).size
      BY <1>3 DEF Length, Cutting
    <2> QED
      BY <1>1, <2>1 DEF Place
  <1> QED
    BY <1>2, <1>3

(* so two of them hold the same cluster only if they are the same.          *)
LEMMA Distinct ==
    ASSUME Basic, Apart, NEW o \in Objects, NEW i \in Nat, Counts(o, i),
           NEW p \in Objects, NEW j \in Place(p), At(p, j) \in Clusters, At(o, i) = At(p, j)
    PROVE  o = p /\ i = j
  BY CountsPlace DEF Apart

(* A directory is firm in a step if its places that count stay, with their  *)
(* clusters; a step is steady if the root and all directories that sit are. *)
Firm(d) == \A i \in Nat : Counts(d, i) => Counts(d, i)' /\ At(d, i)' = At(d, i)
Steady == /\ Firm(ROOT)
          /\ \A a \in Objs : Sits(a) => View(a)'.at = View(a).at /\ (a \in Dirs => Firm(a))

(* All that sits in something that sits goes on sitting, except X.          *)
Lasts(X) == \A a \in Objs : Sits(a) /\ (Under[a] = ROOT \/ Sits(Under[a])) /\ a \notin X => Sits(a)'

(* Names are below the root or below a directory.                           *)
LEMMA UnderIs ==
    \A a \in Objs : Under[a] = ROOT \/ (Under[a] \in Dirs /\ Under[a] \in Objs)
  BY ExfatAssumption DEF Objs

(* A steady step lets everything sit,                                       *)
LEMMA SteadyLasts ==
    ASSUME Steady PROVE Lasts({})
  <1> SUFFICES ASSUME NEW a \in Objs, Sits(a), Under[a] = ROOT \/ Sits(Under[a])
               PROVE  Sits(a)'
    BY DEF Lasts
  <1>1. Firm(Under[a]) /\ View(a)'.at = View(a).at
    BY UnderIs DEF Steady
  <1>2. PICK i \in Nat : Counts(Under[a], i) /\ View(a).at[1] = At(Under[a], i)
    BY DEF Sits
  <1>3. Counts(Under[a], i)' /\ At(Under[a], i)' = At(Under[a], i)
    BY <1>1, <1>2 DEF Firm
  <1>4. View(a)'.at \in Slots
    BY <1>1 DEF Sits
  <1> HIDE DEF Slots, Counts, At, View
  <1> QED
    BY <1>1, <1>2, <1>3, <1>4 DEF Sits, Slots

(* and what is rooted without X goes on being rooted,                       *)
LEMMA RootedLasts ==
    ASSUME NEW o, Rooted(o), NEW X, Lasts(X),
           \A S \in SUBSET Objs : (\A s \in S : Sits(s) /\ (Under[s] = ROOT \/ Under[s] \in S)) /\ o \in S =>
               \E R \in SUBSET S : o \in R /\ \A s \in R : s \notin X /\ (Under[s] = ROOT \/ Under[s] \in R)
    PROVE  Rooted(o)'
  <1>1. PICK S \in SUBSET Objs : o \in S /\ \A s \in S : Sits(s) /\ (Under[s] = ROOT \/ Under[s] \in S)
    BY DEF Rooted
  <1>2. PICK R \in SUBSET S : o \in R /\ \A s \in R : s \notin X /\ (Under[s] = ROOT \/ Under[s] \in R)
    BY <1>1
  <1>3. \A s \in R : Sits(s)'
    BY <1>1, <1>2 DEF Lasts
  <1> HIDE DEF Sits
  <1> QED
    BY <1>1, <1>2, <1>3 DEF Rooted

(* everything if X is empty.                                                *)
LEMMA RootedStays ==
    ASSUME NEW o, Rooted(o), Lasts({}) PROVE Rooted(o)'
  <1>1. \A S \in SUBSET Objs : (\A s \in S : Sits(s) /\ (Under[s] = ROOT \/ Under[s] \in S)) /\ o \in S =>
          \E R \in SUBSET S : o \in R /\ \A s \in R : s \notin {} /\ (Under[s] = ROOT \/ Under[s] \in R)
    BY Zenon
  <1> QED
    BY <1>1, RootedLasts

(* What is in the tree has its directory there.                             *)
LEMMA PresentUnder ==
    ASSUME Basic, NEW a \in Objs, Present(a)
    PROVE  Under[a] \in cached /\ View(a) = node[a] /\ node[a].at # NoSlot /\ Present(Under[a])
  <1>1. node[a].at # NoSlot /\ Under[a] \in cached
    BY Blank, ObjectSet DEF Present, Basic, Tree
  <1> QED
    BY <1>1, ViewIs DEF Basic, Tree

(* The tree stays seated.                                                   *)
LEMMA SeatedLasts ==
    ASSUME Basic, Seated, NEW X, Lasts(X),
           \A a \in Objs : Present(a)' => (Present(a) /\ a \notin X) \/ Sits(a)'
    PROVE  Seated'
  <1> SUFFICES ASSUME NEW a \in Objs, Present(a)' PROVE Sits(a)'
    BY DEF Seated
  <1>1. CASE Present(a) /\ a \notin X
    <2>1. Sits(a) /\ (Under[a] = ROOT \/ Sits(Under[a]))
      BY <1>1, PresentUnder, UnderIs DEF Seated
    <2> QED
      BY <2>1, <1>1 DEF Lasts
  <1> QED
    BY <1>1

(* A step leaves the size, the clusters and the data of a file alone,       *)
HeldBy(o) == /\ View(o)'.size = View(o).size
             /\ \A i \in 0 .. View(o).size - 1 :
                   At(o, i) \in Clusters => At(o, i)' = At(o, i) /\ data'[At(o, i)] = data[At(o, i)]

(* which keeps its contents.                                                *)
LEMMA HoldsStays ==
    ASSUME NEW o, NEW c, NEW n, Holds(o, c, n), HeldBy(o)
    PROVE  /\ View(o)'.size = n
           /\ \A i \in 0 .. n - 1 : At(o, i)' \in Clusters /\ data'[At(o, i)'] = <<c, i>>
  BY DEF Holds, HeldBy

(* What is rooted sits.                                                     *)
LEMMA RootedSits ==
    ASSUME NEW o, Rooted(o) PROVE Sits(o)
  BY DEF Rooted

(* A promise that stays,                                                    *)
Kept1(o) == Known(o) /\ want'[o] = want[o] /\ (Sits(o) => HeldBy(o))

(* stays true for such a file,                                              *)
LEMMA KeptStays ==
    ASSUME KeptFiles, NEW o \in Files, Kept1(o), Rooted(o)'
    PROVE  Rooted(o)' /\ Holds(o, want[o].call, want[o].size)'
  <1>1. Rooted(o) /\ Holds(o, want[o].call, want[o].size)
    BY DEF KeptFiles, Kept1
  <1>2. HeldBy(o)
    BY <1>1, RootedSits DEF Kept1
  <1>3. PICK c, n : c = want[o].call /\ n = want[o].size
    OBVIOUS
  <1>4. Holds(o, c, n)
    BY <1>1, <1>3
  <1>5. /\ View(o)'.size = n
        /\ \A i \in 0 .. n - 1 : At(o, i)' \in Clusters /\ data'[At(o, i)'] = <<c, i>>
    BY <1>4, <1>2, HoldsStays
  <1>6. want'[o].call = c /\ want'[o].size = n
    BY <1>3 DEF Kept1
  <1> HIDE DEF View, At
  <1> QED
    BY <1>5, <1>6 DEF Holds

(* and all do.                                                              *)
LEMMA KeptLasts ==
    ASSUME KeptFiles, Lasts({}), \A o \in Files : Known(o)' => Kept1(o)
    PROVE  KeptFiles'
  <1> SUFFICES ASSUME NEW o \in Files, Known(o)'
               PROVE  Rooted(o)' /\ Holds(o, want[o].call, want[o].size)'
    BY DEF KeptFiles
  <1>1. Kept1(o) /\ Rooted(o)
    BY DEF Kept1, KeptFiles
  <1> QED
    BY <1>1, RootedStays, KeptStays

-----------------------------------------------------------------------------
(* exfat_truncate leaves the entries and files that count alone.            *)

(* An object whose view is not taken from an entry that the step changes.   *)
Clear(o) == o = ROOT \/ Under[o] \in cached \/ dent'[o] = dent[o]

(* exfat_truncate changes no view but that of its file.                     *)
LEMMA CutViews ==
    ASSUME Basic, CutMove, CutNode, NEW o \in Objects, Clear(o)
    PROVE  /\ o # t.o => View(o)' = View(o)
           /\ o = t.o => View(o) = node[o] /\ View(o)' = node'[o]
  <1>1. cached' = cached /\ pc \in Cutting
    BY DEF CutMove
  <1>2. t.o = ROOT \/ Under[t.o] \in cached
    BY <1>1, CuttingFacts
  <1>3. CASE o = ROOT
    BY <1>3, ViewIs DEF CutNode
  <1>4. CASE o # ROOT /\ Under[o] \in cached
    BY <1>1, <1>4, ViewIs, ObjectSet DEF CutNode
  <1>5. CASE o # ROOT /\ Under[o] \notin cached
    <2>1. o \in Objs /\ dent'[o] = dent[o] /\ o # t.o
      BY <1>2, <1>5, ObjectSet DEF Clear
    <2> QED
      BY <1>1, <1>5, <2>1, ViewIs
  <1> QED
    BY <1>3, <1>4, <1>5

(* The places that a truncation leaves alone. *)
Aside(o, i) == i \in Place(o) /\ (o = t.o => i < t.to /\ i < node[t.o].size)

AtAside(o) == \A i \in Nat : Aside(o, i) => At(o, i)' = At(o, i)

(* when no link is written,                                                 *)
LEMMA FatAside ==
    ASSUME fat' = fat, NEW o, Alike(o) \/ ~\E i \in Nat : Aside(o, i)
    PROVE  AtAside(o)
  <1> SUFFICES ASSUME NEW i \in Nat, Aside(o, i), Alike(o) PROVE At(o, i)' = At(o, i)
    BY DEF AtAside
  <1> QED
    BY AtIs DEF Alike

(* and the start stays,                                                     *)
LEMMA CutAlike ==
    ASSUME Basic, CutMove, CutNode, NEW o \in Objects, Clear(o),
           o = t.o => node'[o].start = node[o].start /\ node'[o].contig = node[o].contig
    PROVE  Alike(o)
  BY CutViews DEF Alike

(* as in these steps;                                                       *)
LEMMA AsideSame ==
    ASSUME Basic, CutMove, CutNode, NEW o \in Objects, Clear(o),
           TruncateSame \/ GrowFrom \/ GrowNoSpace \/ ShrinkFrom \/ EraseNew \/ FreeEnd
    PROVE  AtAside(o)
  <1>1. fat' = fat
    BY DEF TruncateSame, GrowFrom, GrowNoSpace, ShrinkFrom, EraseNew, FreeEnd, device
  <1>2. pc \in Cutting /\ IsNode(node[t.o]) /\ NodesTyped /\ t.o \in Objects /\ t.to \in Nat
    BY CuttingFacts DEF CutMove, Basic, Typed, MemoryTyped
  <1>3. node' = node \/ \E m : SetNode(t.o, m) /\ (m = node[t.o] \/ m = Sized(node[t.o], t.to))
    <2>1. CASE TruncateSame \/ GrowFrom \/ GrowNoSpace \/ ShrinkFrom
      BY <2>1 DEF TruncateSame, GrowFrom, GrowNoSpace, ShrinkFrom, memory
    <2>2. CASE EraseNew
      BY <2>2 DEF EraseNew, Sized
    <2>3. CASE FreeEnd
      BY <2>3 DEF FreeEnd, Sized
    <2> QED
      BY <2>1, <2>2, <2>3
  <1>4. node'[t.o].start = node[t.o].start /\ node'[t.o].contig = node[t.o].contig
    <2>1. CASE node' = node
      BY <2>1
    <2>2. ASSUME NEW m, SetNode(t.o, m), m = node[t.o] \/ m = Sized(node[t.o], t.to)
          PROVE  node'[t.o].start = node[t.o].start /\ node'[t.o].contig = node[t.o].contig
      <3>1. IsNode(m) /\ m.start = node[t.o].start /\ m.contig = node[t.o].contig
        <4>1. PICK n, z : n = node[t.o] /\ z = t.to
          OBVIOUS
        <4>2. IsNode(n) /\ z \in Nat /\ (m = n \/ m = Sized(n, z))
          BY <1>2, <2>2, <4>1
        <4>3. IsNode(m) /\ m.start = n.start /\ m.contig = n.contig
          BY <4>2, NodeSized
        <4> QED
          BY <4>1, <4>3
      <3> QED
        BY <1>2, <2>2, <3>1, NodeReplaced
    <2> QED
      BY <1>3, <2>1, <2>2
  <1>5. Alike(o)
    BY <1>4, CutAlike
  <1> QED
    BY <1>1, <1>5, FatAside

(* in the first cluster of a file,                                          *)
LEMMA AsideGrowFirst ==
    ASSUME Basic, Space, CutMove, CutNode, NEW o \in Objects, Clear(o), GrowFirst
    PROVE  AtAside(o)
  <1>1. fat' = fat /\ pc = "truncate" /\ node[t.o].start = FREE
    BY DEF GrowFirst, device
  <1>2. t.o \in Objects
    BY CuttingFacts DEF CutMove
  <1>3. node[t.o].size = 0
    BY <1>1, <1>2 DEF Space, NoStart
  <1>4. o = t.o => ~\E i \in Nat : Aside(o, i)
    BY <1>3 DEF Aside
  <1>5. o # t.o => Alike(o)
    BY CutAlike
  <1> QED
    BY <1>1, <1>4, <1>5, FatAside

(* the last link of one that grew,                                          *)
LEMMA AsideGrowEnd ==
    ASSUME Basic, Space, CutMove, CutNode, NEW o \in Objects, Clear(o), GrowEnd
    PROVE  AtAside(o)
  <1> SUFFICES ASSUME NEW i \in Nat, Aside(o, i) PROVE At(o, i)' = At(o, i)
    BY DEF AtAside
  <1>1. pc = "grow" /\ node' = node /\ (fat' = fat \/ fat' = [fat EXCEPT ![t.prev] = END])
    BY DEF GrowEnd, memory
  <1>2. PICK q, w : q = t.o /\ w = t.to - t.left - 1
    OBVIOUS
  <1>3. w \in Place(q) /\ t.prev = At(q, w) /\ q \in Objects /\ (o = q => i <= w)
    BY <1>1, <1>2, GrownAll, CuttingFacts DEF CutMove, Aside
  <1>4. \A c \in Clusters : c # At(q, w) => fat'[c] = fat[c]
    BY <1>1, <1>3 DEF Basic, Typed, DeviceTyped
  <1>5. Alike(o)
    BY <1>1, CutAlike
  <1>6. i \in Place(o) /\ Apart
    BY DEF Aside, Space
  <1> QED
    BY <1>3, <1>4, <1>5, <1>6, BeforeKept

(* a turn of the loop,                                                      *)
LEMMA AsideGrowOne ==
    ASSUME IInv, IInv', sound, g_initialized, CutMove, CutNode, NEW o \in Objects, Clear(o), GrowOne
    PROVE  AtAside(o)
  <1>0. Basic /\ Basic' /\ Space
    BY DEF IInv
  <1>1. pc = "grow" /\ UNCHANGED <<dent, cached>>
    BY DEF GrowOne
  <1>2. GrewOne
    BY <1>0, GrowOneBoth
  <1>3. CASE UNCHANGED <<fat, node>>
    BY <1>3, <1>0, CutAlike, FatAside
  <1>4. ASSUME NEW q, NEW L, q = t.o, L = t.to - t.left, Regrown(q, L) PROVE AtAside(o)
    <2> SUFFICES ASSUME NEW i \in Nat, Aside(o, i) PROVE At(o, i)' = At(o, i)
      BY DEF AtAside
    <2>1. CASE o # q
      <3>1. pc' \notin Mid \/ t'.o = q
        <4>1. CutOn => t'.o = q
          BY <1>4 DEF CutOn
        <4>2. CutDone \/ CutFails => pc' \notin Mid
          <5>1. t.k \in TruncThen /\ t.kf \in TruncElse
            BY <1>0 DEF CutMove, Basic, Control
          <5> QED
            BY <5>1 DEF CutDone, CutFails, TruncFailed, Hung, TruncThen, TruncElse, Mid
        <4> QED
          BY <4>1, <4>2 DEF CutMove
      <3> QED
        BY <1>0, <1>1, <1>4, <2>1, <3>1, RegrownOthers DEF Aside
    <2>2. CASE o = q
      <3>1. i \in 0 .. L - 1
        BY <1>0, <1>1, <1>4, <2>2, GrownAll DEF Aside
      <3> QED
        BY <1>4, <2>2, <3>1 DEF Regrown
    <2> QED
      BY <2>1, <2>2
  <1> QED
    BY <1>2, <1>3, <1>4 DEF GrewOne

(* the cut,                                                                 *)
LEMMA AsideCrop ==
    ASSUME Basic, Space, CutMove, CutNode, NEW o \in Objects, Clear(o), Crop
    PROVE  AtAside(o)
  <1> DEFINE n == node[t.o]
  <1>0. /\ pc = "crop" /\ pc \in Cutting /\ IsNode(n) /\ NodesTyped /\ t.o \in Objects /\ t.to \in Nat
        /\ t.left \in Nat /\ (t.o = ROOT \/ Under[t.o] \in cached)
    BY CuttingFacts DEF CutMove, Basic, Typed, MemoryTyped, Crop
  <1>1. \/ UNCHANGED <<fat, node>>
        \/ /\ t.to = 0 \/ Nth(n, t.to - 1) \in Clusters
           /\ SetNode(t.o, Cropped(n, t.to))
           /\ fat' = IF t.to = 0 \/ n.contig THEN fat ELSE [fat EXCEPT ![Nth(n, t.to - 1)] = END]
    BY DEF Crop, Valid
  <1>2. CASE UNCHANGED <<fat, node>>
    BY <1>2, CutAlike, FatAside
  <1>3. CASE /\ t.to = 0 \/ Nth(n, t.to - 1) \in Clusters
             /\ SetNode(t.o, Cropped(n, t.to))
             /\ fat' = IF t.to = 0 \/ n.contig THEN fat ELSE [fat EXCEPT ![Nth(n, t.to - 1)] = END]
    <2>1. PICK m : m = Cropped(n, t.to)
      OBVIOUS
    <2>2. IsNode(m) /\ m.contig = n.contig /\ m.start = IF t.to = 0 THEN FREE ELSE n.start
      BY <1>0, <2>1, NodeCropped
    <2>3. node'[t.o] = m
      BY <1>0, <1>3, <2>1, <2>2, NodeReplaced
    <2>4. CASE t.to = 0
      <3>1. fat' = fat
        BY <1>3, <2>4
      <3>2. o = t.o => ~\E i \in Nat : Aside(o, i)
        BY <2>4 DEF Aside
      <3>3. o # t.o => Alike(o)
        BY CutAlike
      <3> QED
        BY <3>1, <3>2, <3>3, FatAside
    <2>5. CASE t.to # 0
      <3>1. Alike(o)
        BY <2>2, <2>3, <2>5, CutAlike
      <3>2. CASE n.contig
        <4>1. fat' = fat
          BY <1>3, <3>2
        <4> QED
          BY <3>1, <4>1, FatAside
      <3>3. CASE ~n.contig
        <4> SUFFICES ASSUME NEW i \in Nat, Aside(o, i) PROVE At(o, i)' = At(o, i)
          BY DEF AtAside
        <4>1. PICK q, w : q = t.o /\ w = t.to - 1
          OBVIOUS
        <4>2. w \in Place(q) /\ q \in Objects /\ (o = q => i <= w)
          <5>1. Length(q) = t.to + t.left
            BY <1>0, <4>1 DEF Length
          <5>2. w \in Nat /\ w < t.to
            BY <1>0, <2>5, <4>1
          <5> QED
            BY <1>0, <4>1, <5>1, <5>2 DEF Place, Aside
        <4>3. At(q, w) = Nth(n, t.to - 1)
          BY <1>0, <4>1, CutView DEF At
        <4>4. fat' = [fat EXCEPT ![At(q, w)] = END]
          BY <1>3, <2>5, <3>3, <4>3
        <4>5. \A c \in Clusters : c # At(q, w) => fat'[c] = fat[c]
          BY <4>4 DEF Basic, Typed, DeviceTyped
        <4>6. i \in Place(o) /\ Apart
          BY DEF Aside, Space
        <4> QED
          BY <3>1, <4>2, <4>5, <4>6, BeforeKept
      <3> QED
        BY <3>2, <3>3
    <2> QED
      BY <2>4, <2>5
  <1> QED
    BY <1>1, <1>2, <1>3

(* and the freeing of what was cut off;                                     *)
LEMMA AsideFreeOne ==
    ASSUME Basic, Space, NEW o \in Objects, FreeOne
    PROVE  AtAside(o)
  <1> SUFFICES ASSUME NEW i \in Nat, Aside(o, i) PROVE At(o, i)' = At(o, i)
    BY DEF AtAside
  <1>1. pc = "free" /\ t.left > 0 /\ UNCHANGED <<node, dent, cached>>
    BY DEF FreeOne
  <1>2. (t.prev \in Clusters /\ Freed) \/ UNCHANGED <<fat, cmap>>
    BY DEF FreeOne, Valid
  <1> QED
    BY <1>1, <1>2, FreedKept DEF Aside

(* so in every step.                                                        *)
LEMMA CutAside ==
    ASSUME IInv, IInv', sound, g_initialized, CutMove, CutNode, Cuts, NEW o \in Objects, Clear(o)
    PROVE  AtAside(o)
  <1>1. Basic /\ Space
    BY DEF IInv
  <1> QED
    BY <1>1, AsideSame, AsideGrowFirst, AsideGrowEnd, AsideGrowOne, AsideCrop, AsideFreeOne DEF Cuts

(* exfat_truncate goes on or goes to one of its ends.                       *)
LEMMA CutEnds ==
    ASSUME Basic, CutMove
    PROVE  /\ pc' \in Cutting => CutOn
           /\ pc' \notin Cutting => (CutDone \/ CutFails) /\ pc' \in TruncThen \union TruncElse \union {"bug"}
  <1>1. t.k \in TruncThen /\ t.kf \in TruncElse
    BY DEF CutMove, Basic, Control
  <1>2. CutDone \/ CutFails => pc' \notin Cutting /\ pc' \in TruncThen \union TruncElse \union {"bug"}
    BY <1>1 DEF CutDone, CutFails, TruncFailed, Hung, TruncThen, TruncElse, Cutting
  <1>3. CutOn => pc' \in Cutting
    BY DEF CutOn
  <1> QED
    BY <1>2, <1>3 DEF CutMove

(* A place that counts is not touched,                                      *)
LEMMA CountsAside ==
    ASSUME Basic, pc \in Cutting, NEW o \in Objects, NEW i \in Nat, Counts(o, i)
    PROVE  Aside(o, i)
  BY CountsPlace, CutView DEF Counts, Aside

(* and goes on counting,                                                    *)
LEMMA CutCounts ==
    ASSUME Basic, Basic', CutMove, CutNode, NEW o \in Objects, Clear(o), NEW i \in Nat, Counts(o, i)
    PROVE  Counts(o, i)'
  <1>0. pc \in Cutting /\ t.o \in Objects /\ t.to \in Nat
    BY CuttingFacts DEF CutMove
  <1>1. CASE o # t.o
    <2>1. i < View(o)'.size
      BY <1>1, CutViews DEF Counts
    <2>2. pc' \in Cutting => o # t'.o
      BY <1>1, CutEnds DEF CutOn
    <2> QED
      BY <2>1, <2>2 DEF Counts
  <1>2. CASE o = t.o
    <2>1. i < node[t.o].size /\ i < t.to /\ View(o)' = node'[t.o]
      BY <1>0, <1>2, CutViews, CutView DEF Counts
    <2>2. CASE pc' \in Cutting
      <3>1. CutOn
        BY <2>2, CutEnds
      <3>2. i < View(o)'.size /\ t'.o = t.o
        BY <2>1, <3>1 DEF CutOn
      <3>3. i < t'.to
        <4>1. CASE t'.to = t.to
          BY <2>1, <4>1
        <4>2. CASE t'.undo = TRUE
          <5>1. pc' \in {"crop", "free"}
            BY <2>2, <3>1, <4>2 DEF CutOn, Basic, Progress, Cutting
          <5>2. node'[t'.o].size = t'.to
            BY <4>2, <5>1 DEF Basic, Progress
          <5> QED
            BY <1>2, <2>1, <3>2, <5>2
        <4> QED
          BY <3>1, <4>1, <4>2 DEF CutOn
      <3> QED
        BY <3>2, <3>3 DEF Counts
    <2>3. CASE pc' \notin Cutting
      <3>1. i < View(o)'.size
        BY <2>1, <2>3, CutEnds DEF CutDone, CutFails
      <3> QED
        BY <2>3, <3>1 DEF Counts
    <2> QED
      BY <2>2, <2>3
  <1> QED
    BY <1>1, <1>2

(* so every directory whose view is not changed by the step is firm.        *)
LEMMA CutFirm ==
    ASSUME IInv, IInv', sound, g_initialized, CutMove, CutNode, Cuts, NEW o \in Objects, Clear(o)
    PROVE  Firm(o)
  <1>1. Basic /\ Basic' /\ pc \in Cutting
    BY DEF IInv, CutMove
  <1>2. AtAside(o)
    BY CutAside
  <1> SUFFICES ASSUME NEW i \in Nat, Counts(o, i) PROVE Counts(o, i)' /\ At(o, i)' = At(o, i)
    BY DEF Firm
  <1>3. Aside(o, i)
    BY <1>1, CountsAside
  <1> QED
    BY <1>1, <1>2, <1>3, CutCounts DEF AtAside

(* The clusters that erase_range overwrites, up to m,                       *)
Erased(q, m) == {At(q, i) : i \in {j \in node[q].size .. t.to - 1 : j < m}}

(* and what that does to entries and data.                                  *)
Wiped(S) == /\ dent' = Overwritten(S)
            /\ data' = [c \in Clusters |-> IF c \in S THEN ZERO ELSE data[c]]

(* It may fail on the way.                                                  *)
LEMMA EraseIs ==
    ASSUME Basic, EraseNew
    PROVE  \E q, m : q = t.o /\ Wiped(Erased(q, m)) /\ (m = t.to \/ pc' \in {t.kf, "bug"})
  <1>1. pc = "erasenew" /\ pc \in Cutting
    BY DEF EraseNew, Cutting
  <1>2. View(t.o) = node[t.o]
    BY <1>1, CutView
  <1>3. \A m : Erased(t.o, m) = {Nth(node[t.o], i) : i \in {j \in node[t.o].size .. t.to - 1 : j < m}}
    BY <1>2 DEF Erased, At
  <1>4. \E m : Wiped(Erased(t.o, m)) /\ (m = t.to \/ pc' \in {t.kf, "bug"})
    <2> DEFINE S(m) == {Nth(node[t.o], i) : i \in {j \in node[t.o].size .. t.to - 1 : j < m}}
    <2>1. \/ pc' \in {t.kf, "bug"} /\ \E m \in node[t.o].size .. t.to - 1 : Wiped(S(m))
          \/ Wiped(S(t.to))
      BY DEF EraseNew, TruncFailed, Hung, Wiped
    <2>2. \A m : S(m) = Erased(t.o, m)
      BY <1>3
    <2> HIDE DEF S
    <2> QED
      BY <2>1, <2>2
  <1>5. PICK q : q = t.o
    OBVIOUS
  <1>6. PICK m : Wiped(Erased(t.o, m)) /\ (m = t.to \/ pc' \in {t.kf, "bug"})
    BY <1>4
  <1>7. Wiped(Erased(q, m))
    BY <1>5, <1>6
  <1> QED
    BY <1>5, <1>6, <1>7

(* It overwrites no place that was there before:                            *)
LEMMA EraseMiss ==
    ASSUME Basic, Apart, pc = "erasenew", NEW q, q = t.o, NEW m, NEW o \in Objects, NEW i \in Nat, Aside(o, i),
           At(o, i) \in Clusters
    PROVE  At(o, i) \notin Erased(q, m)
  <1>1. t.o \in Objects /\ t.to \in Nat /\ node[t.o].size \in Nat
    BY CuttingFacts DEF Cutting
  <1> SUFFICES ASSUME NEW j \in node[q].size .. t.to - 1, At(o, i) = At(q, j) PROVE FALSE
    BY DEF Erased
  <1>2. j \in Place(q) /\ j \in Nat /\ j >= node[q].size
    BY <1>1 DEF Place, Length
  <1>3. o = q /\ i = j
    BY <1>1, <1>2 DEF Apart, Aside
  <1> QED
    BY <1>1, <1>2, <1>3 DEF Aside

(* What a truncation does to the entries and the data. *)
Leaves(o, i) == /\ \A a \in Objs : dent[a].at[1] = At(o, i) => dent'[a] = dent[a]
                /\ data'[At(o, i)] = data[At(o, i)]

(* exfat_truncate leaves the entries and the data at places it does not     *)
(* touch alone, and otherwise only removes entries.                         *)
LEMMA CutLeaves ==
    ASSUME IInv, sound, g_initialized, Cuts
    PROVE  /\ \A a \in Objs : dent'[a] = dent[a] \/ dent'[a] = NoDent
           /\ \A o \in Objects, i \in Nat : Aside(o, i) /\ At(o, i) \in Clusters => Leaves(o, i)
  <1>0. Basic /\ Apart /\ DentsTyped
    BY DEF IInv, Space, Basic, Typed, DeviceTyped
  <1>1. CASE ~EraseNew
    <2>1. dent' = dent /\ data' = data
      BY <1>1 DEF Cuts, TruncateSame, GrowFrom, GrowNoSpace, ShrinkFrom, GrowFirst, GrowOne, GrowEnd, Crop,
                  FreeOne, FreeEnd, device
    <2> QED
      BY <2>1 DEF Leaves
  <1>2. CASE EraseNew
    <2>1. PICK q, m : q = t.o /\ Wiped(Erased(q, m)) /\ (m = t.to \/ pc' \in {t.kf, "bug"})
      BY <1>0, <1>2, EraseIs
    <2>2. pc = "erasenew"
      BY <1>2 DEF EraseNew
    <2>3. \A a \in Objs : dent'[a] = IF dent[a].at[1] \in Erased(q, m) THEN NoDent ELSE dent[a]
      BY <2>1 DEF Wiped, Overwritten
    <2>4. \A c \in Clusters : data'[c] = IF c \in Erased(q, m) THEN ZERO ELSE data[c]
      BY <2>1 DEF Wiped
    <2>5. ASSUME NEW o \in Objects, NEW i \in Nat, Aside(o, i), At(o, i) \in Clusters PROVE Leaves(o, i)
      <3>1. At(o, i) \notin Erased(q, m)
        BY <1>0, <2>1, <2>2, <2>5, EraseMiss
      <3> QED
        BY <2>3, <2>4, <2>5, <3>1 DEF Leaves
    <2> QED
      BY <2>3, <2>5
  <1> QED
    BY <1>1, <1>2

(* What sits, sits at such a place,                                         *)
LEMMA SitsAside ==
    ASSUME Basic, pc \in Cutting, NEW a \in Objs, Sits(a)
    PROVE  /\ View(a).at \in Slots /\ View(a).at[1] \in Clusters
           /\ \E i \in Nat : Aside(Under[a], i) /\ View(a).at[1] = At(Under[a], i)
  BY SlotsAre, CountsAside, ObjectSet DEF Sits

(* its entry is not changed,                                                *)
LEMMA CutEntry ==
    ASSUME IInv, sound, g_initialized, Cuts, pc \in Cutting, NEW a \in Objs, Sits(a), dent[a].at = View(a).at
    PROVE  dent'[a] = dent[a]
  <1>1. Basic
    BY DEF IInv
  <1>2. PICK i \in Nat : Aside(Under[a], i) /\ View(a).at[1] = At(Under[a], i) /\ View(a).at[1] \in Clusters
    BY <1>1, SitsAside
  <1>3. Leaves(Under[a], i)
    BY <1>2, CutLeaves, ObjectSet
  <1> QED
    BY <1>2, <1>3 DEF Leaves

(* nor its view,                                                            *)
LEMMA CutClear ==
    ASSUME IInv, sound, g_initialized, Cuts, pc \in Cutting, NEW a \in Objs, Sits(a)
    PROVE  Clear(a)
  <1>1. CASE Under[a] \in cached
    BY <1>1 DEF Clear
  <1>2. CASE Under[a] \notin cached
    <2>1. View(a).at # NoSlot
      BY SlotsAre DEF Sits
    <2>2. dent[a].k = "ok" /\ View(a) = NodeOf(dent[a])
      BY <1>2, <2>1, ViewIs, Blank
    <2>3. dent[a].at = View(a).at
      BY <2>2 DEF NodeOf
    <2> QED
      BY <2>3, CutEntry DEF Clear
  <1> QED
    BY <1>1, <1>2

(* so exfat_truncate is steady.                                             *)
LEMMA CutSteady ==
    ASSUME IInv, IInv', sound, g_initialized, CutMove, CutNode, Cuts PROVE Steady
  <1>1. Basic /\ pc \in Cutting
    BY DEF IInv, CutMove
  <1>2. Firm(ROOT)
    BY CutFirm, ObjectSet DEF Clear
  <1>3. ASSUME NEW a \in Objs, Sits(a) PROVE View(a)'.at = View(a).at /\ Firm(a)
    <2>1. Clear(a) /\ a \in Objects
      BY <1>1, <1>3, CutClear, ObjectSet
    <2>2. View(a)'.at = View(a).at
      BY <1>1, <2>1, CutViews DEF CutNode, Recast
    <2> QED
      BY <2>1, <2>2, CutFirm
  <1> QED
    BY <1>2, <1>3 DEF Steady

(* The chain of a node, place by place,                                     *)
LEMMA ChainIs ==
    ASSUME Basic, NEW a \in Objs, Under[a] \in cached
    PROVE  ChainOf(node[a]) = {At(a, i) : i \in 0 .. node[a].size - 1}
  BY ViewIs DEF ChainOf, At

(* also after a step.                                                       *)
LEMMA ChainIsLater ==
    ASSUME NEW a \in Objs, Under[a] \in cached'
    PROVE  ChainOf(node[a])' = {At(a, i)' : i \in 0 .. node'[a].size - 1}
  <1>1. View(a)' = node'[a]
    BY ViewIs
  <1> QED
    BY <1>1 DEF ChainOf, At

(* Nothing of the name c in directory a.                                    *)
HollowUnder(a, c) == IF a \in cached THEN ~Present(c) ELSE c \notin EntriesIn(node[a])

(* An empty directory, name by name,                                        *)
LEMMA HollowIs ==
    \A a : Hollow(a) <=> a \in Dirs /\ \A c \in Objs : Under[c] = a => HollowUnder(a, c)
  BY DEF Hollow, HollowUnder

(* also after a step.                                                       *)
LEMMA HollowIsLater ==
    \A a : Hollow(a)' <=> a \in Dirs /\ \A c \in Objs : Under[c] = a => HollowUnder(a, c)'
  BY DEF Hollow, HollowUnder

(* It stays empty when no entry comes into its chain.                       *)
LEMMA HollowStays ==
    ASSUME Basic, Basic', NEW a, Hollow(a), a \in cached <=> a \in cached',
           a \in cached => \A c \in Objs : Under[c] = a => node'[c].at = node[c].at \/ node'[c].at = NoSlot,
           a \notin cached => ChainOf(node[a])' \subseteq ChainOf(node[a]),
           a \notin cached => \A c \in Objs : Under[c] = a =>
               \/ dent'[c].k = "none" \/ dent'[c].at[1] \notin ChainOf(node[a])
               \/ dent[c].k # "none" /\ dent'[c].at = dent[c].at
    PROVE  Hollow(a)'
  <1> SUFFICES ASSUME NEW c \in Objs, Under[c] = a PROVE HollowUnder(a, c)'
    BY HollowIs, HollowIsLater
  <1>0. HollowUnder(a, c) /\ c # ROOT
    BY HollowIs, ObjectSet
  <1>1. CASE a \in cached
    BY <1>0, <1>1 DEF HollowUnder, Present
  <1>2. CASE a \notin cached
    <2>1. c \notin EntriesIn(node[a]) /\ a \notin cached'
      BY <1>0, <1>2 DEF HollowUnder
    <2>2. ~(dent'[c].k # "none" /\ dent'[c].at[1] \in ChainOf(node[a])')
      BY <1>2, <2>1 DEF EntriesIn
    <2>3. c \notin EntriesIn(node[a])'
      BY <2>2 DEF EntriesIn
    <2> QED
      BY <2>1, <2>3 DEF HollowUnder
  <1> QED
    BY <1>1, <1>2

(* A directory that has not been read is empty when no entry of its names   *)
(* is in its chain.                                                         *)
LEMMA HollowEmpty ==
    ASSUME NEW a \in Dirs, a \notin cached',
           \A c \in Objs : Under[c] = a => dent'[c].k = "none" \/ dent'[c].at[1] \notin ChainOf(node[a])'
    PROVE  Hollow(a)'
  <1> SUFFICES ASSUME NEW c \in Objs, Under[c] = a PROVE c \notin EntriesIn(node[a])'
    BY HollowIsLater DEF HollowUnder
  <1> QED
    BY DEF EntriesIn

(* A directory that is not read and that is being grown is the new one. *)
LEMMA CutNew ==
    ASSUME Basic, Script, pc \in Cutting, t.o \in Dirs, t.o \notin cached \/ t.k = "dirflush"
    PROVE  /\ t.o = obj /\ t.k = "dirflush" /\ t.kf = "delete" /\ node[t.o].size = 0 /\ t.o \notin cached
           /\ t.undo = TRUE \/ t.to = 1
  <1>1. obj \in Objs /\ Under[obj] \in cached /\ t.o \in {obj, Under[obj]} /\ obj \notin cached
    BY CuttingFacts DEF Placed, Basic, Control
  <1>2. CutFor /\ Files \cap Dirs = {}
    BY ObjectSet DEF Script, Course
  <1>3. op = "write" => obj \in Files
    BY DEF Script, Course
  <1>4. t.o = obj /\ t.k = "dirflush" /\ t.kf = "delete"
    BY <1>1, <1>2, <1>3 DEF CutFor
  <1> QED
    BY <1>1, <1>4 DEF Script, Object

(* It is empty: its first cluster has been overwritten or does not count,   *)
LEMMA CutNewHollow ==
    ASSUME IInv, IInv', Script, sound, g_initialized, CutMove, CutNode, Cuts,
           NEW a, a = t.o, a \in Dirs, a \notin cached \/ t.k = "dirflush"
    PROVE  Hollow(a)'
  <1>0. Basic /\ Basic' /\ pc \in Cutting /\ cached' = cached
    BY DEF IInv, CutMove
  <1>1. /\ a = obj /\ t.k = "dirflush" /\ t.kf = "delete" /\ node[a].size = 0 /\ a \notin cached'
        /\ t.undo = TRUE \/ t.to = 1
    BY <1>0, CutNew
  <1>2. a \in Objs /\ Under[a] \in cached /\ a \in Objects
    BY <1>0, <1>1, CuttingFacts, ObjectSet DEF Placed
  <1>3. CASE node'[a].size = 0
    <2>1. ChainOf(node[a])' = {}
      BY <1>3 DEF ChainOf
    <2> QED
      BY <1>1, <2>1, HollowEmpty
  <1>4. CASE node'[a].size # 0
    <2>1. CutDone /\ t.to = 1 /\ pc' = t.k
      BY <1>0, <1>1, <1>4, CutEnds DEF CutOn, CutFails, CutDone
    <2>2. EraseNew
      <3>1. ~TruncateSame /\ ~FreeEnd
        <4>1. node[t.o].size = 0 /\ t.to = 1
          BY <1>1, <2>1
        <4>2. pc = "free" => t.to <= node[t.o].size
          BY <1>0 DEF Basic, Progress
        <4> QED
          <5>1. TruncateSame => node[t.o].size = t.to
            BY DEF TruncateSame
          <5>2. FreeEnd => pc = "free"
            BY DEF FreeEnd
          <5> QED
            BY <4>1, <4>2, <5>1, <5>2
      <3>2. ~GrowFrom /\ ~GrowNoSpace /\ ~ShrinkFrom /\ ~GrowFirst /\ ~GrowOne /\ ~GrowEnd /\ ~Crop /\ ~FreeOne
        <4>1. pc' = "dirflush"
          BY <1>1, <2>1
        <4> QED
          BY <4>1, <1>1 DEF GrowFrom, GrowNoSpace, ShrinkFrom, GrowFirst, GrowOne, GrowEnd, Crop, FreeOne,
                      TruncFailed, Goto
      <3> QED
        BY <3>1, <3>2 DEF Cuts
    <2>3. PICK q, m : q = t.o /\ Wiped(Erased(q, m)) /\ (m = t.to \/ pc' \in {t.kf, "bug"})
      BY <1>0, <2>2, EraseIs
    <2>4. m = 1 /\ q = a /\ t.to = 1
      BY <1>1, <2>1, <2>3
    <2>5. node'[a].size = 1
      BY <2>1 DEF CutDone
    <2>6. At(a, 0)' = At(a, 0)
      <3>1. AtAside(a) /\ Alike(a)
        <4>1. Clear(a)
          BY <1>2 DEF Clear
        <4>2. fat' = fat
          BY <2>2 DEF EraseNew
        <4>3. View(a) = node[a] /\ View(a)' = node'[a]
          BY <1>0, <1>2, <4>1, CutViews
        <4>4. NodesTyped /\ IsNode(node[a]) /\ t.to \in Nat
          BY <1>0, CuttingFacts DEF Basic, Typed, MemoryTyped
        <4>5. SetNode(a, Sized(node[a], t.to))
          <5>1. pc' # t.kf /\ pc' # "bug"
            BY <1>1, <2>1
          <5> QED
            BY <2>2, <5>1 DEF EraseNew, Sized, TruncFailed, Hung
        <4>6. PICK n, z : n = node[a] /\ z = t.to
          OBVIOUS
        <4>7. IsNode(Sized(n, z)) /\ Sized(n, z).start = n.start /\ Sized(n, z).contig = n.contig
          BY <4>4, <4>6, NodeSized
        <4>8. node'[a] = Sized(n, z)
          BY <1>2, <4>4, <4>5, <4>6, <4>7, NodeReplaced
        <4>9. Alike(a)
          BY <4>3, <4>6, <4>7, <4>8 DEF Alike
        <4> QED
          BY <4>2, <4>9, FatAside
      <3>2. fat' = fat
        BY <2>2 DEF EraseNew
      <3> QED
        BY <3>1, <3>2, AtIs DEF Alike
    <2>7. ChainOf(node[a])' = {At(a, 0)}
      <3>1. ChainOf(node[a])' = {At(a, i)' : i \in 0 .. node'[a].size - 1}
        BY <1>0, <1>2, ChainIsLater
      <3>2. 0 .. node'[a].size - 1 = {0}
        BY <2>5
      <3> QED
        BY <2>6, <3>1, <3>2
    <2>8. At(a, 0) \in Erased(q, m)
      <3>1. 0 \in {j \in node[q].size .. t.to - 1 : j < m}
        BY <1>1, <2>4
      <3> QED
        BY <2>4, <3>1 DEF Erased
    <2>9. \A c \in Objs : dent'[c].k = "none" \/ dent'[c].at[1] \notin ChainOf(node[a])'
      <3>1. \A c \in Objs : dent'[c] = IF dent[c].at[1] \in Erased(q, m) THEN NoDent ELSE dent[c]
        BY <2>3 DEF Wiped, Overwritten
      <3> QED
        BY <2>7, <2>8, <3>1, Blank
    <2> QED
      BY <1>1, <2>9, HollowEmpty
  <1> QED
    BY <1>3, <1>4

(* and any empty directory stays empty.                                     *)
LEMMA CutHollow ==
    ASSUME IInv, IInv', Script, sound, g_initialized, CutMove, CutNode, Cuts,
           NEW a \in Objs, Present(a), Hollow(a)
    PROVE  Hollow(a)'
  <1>0. Basic /\ Basic' /\ pc \in Cutting /\ cached' = cached
    BY DEF IInv, CutMove
  <1>1. CASE a \in cached
    <2>1. \A c \in Objs : node'[c].at = node[c].at
      BY ObjectSet DEF CutNode, Recast
    <2> QED
      BY <1>0, <1>1, <2>1, HollowStays
  <1>2. CASE a \notin cached /\ a = t.o
    BY <1>2, CutNewHollow DEF Hollow
  <1>3. CASE a \notin cached /\ a # t.o
    <2>1. Under[a] \in cached /\ a \in Objects /\ Clear(a)
      BY <1>0, PresentUnder, ObjectSet DEF Clear
    <2>2. View(a)' = View(a) /\ View(a) = node[a] /\ node'[a] = node[a]
      BY <1>0, <1>3, <2>1, CutViews, PresentUnder DEF CutNode
    <2>3. Length(a) = node[a].size
      BY <1>3, <2>2 DEF Length
    <2>4. AtAside(a)
      BY <2>1, CutAside
    <2>5. \A i \in 0 .. node[a].size - 1 : At(a, i)' = At(a, i)
      BY <1>3, <2>3, <2>4 DEF AtAside, Aside, Place
    <2>6. ChainOf(node[a]) = {At(a, i) : i \in 0 .. node[a].size - 1}
      BY <1>0, <2>1, ChainIs
    <2>7. ChainOf(node[a])' = {At(a, i)' : i \in 0 .. node'[a].size - 1}
      BY <1>0, <2>1, ChainIsLater
    <2>8. ChainOf(node[a])' \subseteq ChainOf(node[a])
      BY <2>2, <2>5, <2>6, <2>7
    <2>9. \A c \in Objs : dent'[c].k = "none" \/ (dent'[c] = dent[c])
      BY CutLeaves, Blank
    <2> QED
      BY <1>0, <1>3, <2>8, <2>9, HollowStays
  <1> QED
    BY <1>1, <1>2, <1>3

(* exfat_truncate keeps every part of what is stored: nodes are dirty or as *)
(* their entries have them,                                                 *)
LEMMA SyncedCut ==
    ASSUME IInv, IInv', Script, sound, g_initialized, CutMove, CutNode, Cuts, Seated, Synced
    PROVE  Synced'
  <1>0. Basic /\ Basic' /\ pc \in Cutting /\ cached' = cached /\ NoStart
    BY DEF IInv, CutMove, Space
  <1> SUFFICES ASSUME NEW a \in Objs, Present(a)'
               PROVE  node'[a].dirty = TRUE \/ Match(a)' \/ Hollow(a)'
    BY DEF Synced
  <1>1. a \in Objects /\ a # ROOT /\ node'[a].at = node[a].at
    BY ObjectSet DEF CutNode, Recast
  <1>2. Present(a)
    BY <1>1 DEF Present
  <1>3. CASE Hollow(a)
    BY <1>2, <1>3, CutHollow
  <1>4. CASE node[a].dirty = TRUE
    BY <1>1, <1>4 DEF CutNode, Recast
  <1>5. CASE Match(a)
    <2>1. Sits(a) /\ View(a) = node[a]
      BY <1>0, <1>2, PresentUnder DEF Seated
    <2>2. dent'[a] = dent[a]
      BY <1>0, <1>5, <2>1, CutEntry DEF Match
    <2>3. node'[a] = node[a] \/ node'[a].dirty = TRUE
          \/ (node'[a].size = node[a].size /\ node[a].start = FREE /\ pc = "truncate")
      BY <1>1 DEF CutNode, Recast
    <2>4. node[a].start = FREE /\ pc = "truncate" => node[a].size = 0
      BY <1>0, <1>1 DEF NoStart
    <2> QED
      BY <1>1, <1>5, <2>2, <2>3, <2>4 DEF Match
  <1> QED
    BY <1>2, <1>3, <1>4, <1>5 DEF Synced

(* (the file it works on is not promised)                                   *)
LEMMA CutKnown ==
    ASSUME Basic, Script, pc \in Cutting, NEW o, Known(o)
    PROVE  o # t.o
  <1>1. o \in Files /\ o \notin Dirs /\ o # ROOT
    BY ObjectSet DEF Known
  <1>2. CutFor /\ obj \in Objs /\ (op = "mkdir" => obj \in Dirs) /\ (op = "write" => want[obj] = ANY)
    BY CuttingFacts DEF Script, Course, Wanted, Placed
  <1>3. Under[obj] = ROOT \/ Under[obj] \in Dirs
    BY <1>2, UnderIs
  <1>4. want[o] # ANY
    BY AnyCall DEF Known
  <1> QED
    BY <1>1, <1>2, <1>3, <1>4 DEF CutFor

(* the files promised have their contents,                                  *)
LEMMA KeptCut ==
    ASSUME IInv, IInv', Script, sound, g_initialized, CutMove, CutNode, Cuts, KeptFiles
    PROVE  KeptFiles'
  <1>0. Basic /\ Basic' /\ pc \in Cutting /\ want' = want
    BY DEF IInv, CutMove
  <1>1. Lasts({})
    BY CutSteady, SteadyLasts
  <1>2. ASSUME NEW o \in Files, Known(o), Sits(o) PROVE HeldBy(o)
    <2>1. o # t.o /\ o \in Objects /\ o \in Objs
      BY <1>0, <1>2, CutKnown, ObjectSet
    <2>2. Clear(o)
      BY <1>0, <1>2, <2>1, CutClear
    <2>3. View(o)' = View(o)
      BY <1>0, <2>1, <2>2, CutViews
    <2>4. Length(o) = View(o).size /\ View(o).size \in Nat
      BY <1>0, <2>1, ViewTyped DEF Length, IsNode
    <2>5. \A i \in 0 .. View(o).size - 1 : Aside(o, i) /\ i \in Nat
      BY <2>1, <2>4 DEF Aside, Place
    <2>6. \A i \in 0 .. View(o).size - 1 : At(o, i)' = At(o, i)
      BY <2>1, <2>2, <2>5, CutAside DEF AtAside
    <2>7. \A i \in 0 .. View(o).size - 1 : At(o, i) \in Clusters => data'[At(o, i)] = data[At(o, i)]
      BY <2>1, <2>5, CutLeaves DEF Leaves
    <2> QED
      BY <2>3, <2>6, <2>7 DEF HeldBy
  <1>3. \A o \in Files : Known(o)' => Kept1(o)
    BY <1>0, <1>2 DEF Known, Kept1
  <1> QED
    BY <1>1, <1>3, KeptLasts

(* a new directory is empty,                                                *)
LEMMA FreshCut ==
    ASSUME IInv, IInv', Script, sound, g_initialized, CutMove, CutNode, Cuts
    PROVE  Fresh'
  <1>0. Basic /\ Basic' /\ pc \in Cutting /\ UNCHANGED <<obj, op, f>>
    BY DEF IInv, CutMove, call
  <1> SUFFICES ASSUME NewDir' PROVE Hollow(obj)'
    BY DEF Fresh
  <1>1. pc' \in {"dirflush", "delete", "detach"} /\ pc' \notin Cutting
    BY <1>0, CutEnds DEF NewDir, FlushAt, TruncThen, TruncElse, Cutting
  <1>2. CutFor /\ (op = "mkdir" => obj \in Dirs)
    BY <1>0 DEF Script, Course
  <1>3. t.k = "dirflush"
    BY <1>0, <1>1, <1>2, CutEnds DEF CutFor, CutDone, CutFails, TruncFailed, Hung
  <1>4. t.o = obj /\ obj \in Dirs
    BY <1>2, <1>3 DEF CutFor
  <1>5. PICK a : a = t.o
    OBVIOUS
  <1>6. Hollow(a)'
    BY <1>3, <1>4, <1>5, CutNewHollow
  <1>7. a = obj'
    BY <1>0, <1>4, <1>5
  <1> QED
    BY <1>6, <1>7 DEF Hollow

(* and after a directory has grown create finds a slot;                     *)
LEMMA RoomCut ==
    ASSUME IInv, IInv', Script, sound, g_initialized, CutMove, CutNode, Cuts, Seated
    PROVE  Room'
  <1>0. Basic /\ Basic' /\ pc \in Cutting /\ UNCHANGED <<obj, op, f, cached>> /\ Apart
    BY DEF IInv, CutMove, call, Space
  <1> SUFFICES ASSUME pc' = "commit" PROVE Places(Under[obj])' # {}
    BY DEF Room
  <1>1. CutFor /\ pc' \notin Cutting
    BY <1>0 DEF Script, Course, Cutting
  <1>2. t.k = "commit" /\ t.kf = "fail" /\ t.o = Under[obj] /\ CutDone
    BY <1>0, <1>1, CutEnds DEF CutFor, CutDone, CutFails, TruncFailed, Hung
  <1>3. node[t.o].size < t.to
    BY <1>0, <1>2 DEF CutDone, Script, Object
  <1>4. t.o \in Objects /\ t.to \in Nat /\ node[t.o].size \in Nat /\ IsNode(node[t.o]) /\ obj \in Objs
        /\ Under[obj] \in cached /\ (t.o = ROOT => node[t.o].start = 4 /\ node[t.o].size > 0)
    BY <1>0, CuttingFacts DEF Placed
  <1>5. EraseNew
    <2>1. ~TruncateSame /\ ~FreeEnd
      <3>1. pc = "free" => t.to <= node[t.o].size
        BY <1>0 DEF Basic, Progress
      <3>2. TruncateSame => node[t.o].size = t.to
        BY DEF TruncateSame
      <3>3. FreeEnd => pc = "free"
        BY DEF FreeEnd
      <3> QED
        BY <1>3, <1>4, <3>1, <3>2, <3>3
    <2>2. ~GrowFrom /\ ~GrowNoSpace /\ ~ShrinkFrom /\ ~GrowFirst /\ ~GrowOne /\ ~GrowEnd /\ ~Crop /\ ~FreeOne
      BY <1>2 DEF GrowFrom, GrowNoSpace, ShrinkFrom, GrowFirst, GrowOne, GrowEnd, Crop, FreeOne,
                  TruncFailed, Goto
    <2> QED
      BY <2>1, <2>2 DEF Cuts
  <1>6. PICK q, m : q = t.o /\ Wiped(Erased(q, m)) /\ (m = t.to \/ pc' \in {t.kf, "bug"})
    BY <1>0, <1>5, EraseIs
  <1>7. m = t.to /\ fat' = fat /\ pc = "erasenew"
    BY <1>2, <1>5, <1>6 DEF EraseNew
  <1>8. PICK d, z : d = Under[obj] /\ z = node[t.o].size
    OBVIOUS
  <1>9. d = q /\ d \in Objects /\ z \in Nat /\ z < t.to /\ node'[d].size = t.to /\ View(d) = node[d]
    BY <1>0, <1>2, <1>3, <1>4, <1>6, <1>8, CutView DEF CutDone
  <1>10. SetNode(d, Sized(node[d], t.to))
    <2>1. pc' # t.kf /\ pc' # "bug"
      BY <1>2
    <2> QED
      BY <1>2, <1>5, <1>8, <2>1 DEF EraseNew, Sized, TruncFailed, Hung
  <1>11. node'[d].start = node[d].start /\ node'[d].contig = node[d].contig
    <2>1. PICK n, y : n = node[d] /\ y = t.to
      OBVIOUS
    <2>2. IsNode(Sized(n, y)) /\ Sized(n, y).start = n.start /\ Sized(n, y).contig = n.contig
      BY <1>4, <1>6, <1>9, <2>1, NodeSized
    <2>3. node'[d] = Sized(n, y)
      BY <1>0, <1>9, <1>10, <2>1, <2>2, NodeReplaced DEF Basic, Typed, MemoryTyped
    <2> QED
      BY <2>1, <2>2, <2>3
  <1>12. Nth(node[d], z)' = At(d, z)
    BY <1>7, <1>9, <1>11, NthIs DEF At
  <1> DEFINE c == At(d, z)
  <1>13. c \in Erased(q, m)
    <2>1. z \in {j \in node[q].size .. t.to - 1 : j < m}
      BY <1>4, <1>6, <1>7, <1>8, <1>9
    <2> QED
      BY <1>9, <2>1 DEF Erased
  <1>14. \A o \in Objs : dent'[o].at # <<c, 1>>
    <2>1. \A o \in Objs : dent'[o] = IF dent[o].at[1] \in Erased(q, m) THEN NoDent ELSE dent[o]
      BY <1>6 DEF Wiped, Overwritten
    <2>2. NoDent.at = NoSlot /\ NoSlot # <<c, 1>>
      BY DEF NoDent, EmptyEntry, NoSlot
    <2> QED
      BY <1>13, <2>1, <2>2
  <1>15. z \in Place(d)
    BY <1>4, <1>6, <1>7, <1>9 DEF Place, Length
  <1>16. \A o \in Objs : Under[o] = d => node'[o].at # <<c, 1>>
    <2> SUFFICES ASSUME NEW o \in Objs, Under[o] = d, node'[o].at = <<c, 1>> PROVE FALSE
      OBVIOUS
    <2>1. node[o].at = <<c, 1>>
      BY ObjectSet DEF CutNode, Recast
    <2>2. Present(o)
      BY <2>1, ObjectSet DEF Present, NoSlot
    <2>3. Sits(o) /\ View(o) = node[o]
      BY <1>0, <2>2, PresentUnder DEF Seated
    <2>4. PICK i \in Nat : Counts(d, i) /\ c = At(d, i)
      BY <2>1, <2>3 DEF Sits
    <2>5. c \in Clusters
      BY <2>1, <2>3, SlotsAre DEF Sits
    <2>6. i = z
      BY <1>0, <1>9, <1>15, <2>4, <2>5, Distinct
    <2> QED
      BY <1>2, <1>6, <1>8, <1>9, <2>4, <2>6 DEF Counts
  <1>17. d = ROOT => c # 4
    <2> SUFFICES ASSUME d = ROOT, c = 4 PROVE FALSE
      OBVIOUS
    <2>1. At(d, 0) = 4
      BY <1>4, <1>6, <1>9, AtIs, WalkIs
    <2>2. 0 \in Place(d) /\ z > 0
      <3>1. t.o = ROOT /\ z > 0
        BY <1>4, <1>6, <1>8, <1>9
      <3>2. 0 \in 0 .. t.to - 1
        BY <1>4, <1>9
      <3>3. Length(d) = t.to
        BY <1>6, <1>7, <1>9 DEF Length
      <3> QED
        BY <3>1, <3>2, <3>3 DEF Place
    <2>3. 4 \in Clusters
      BY ClusterSet DEF System
    <2> QED
      BY <1>0, <1>9, <1>15, <2>1, <2>2, <2>3 DEF Apart
  <1>18. <<z, 1>> \in Places(d)'
    <2>1. <<z, 1>> \in Offsets(d)'
      <3>1. z \in 0 .. node'[d].size - 1 /\ 1 \in 1 .. PerCluster
        BY <1>4, <1>9, ExfatAssumption
      <3> QED
        BY <3>1 DEF Offsets
    <2>2. SlotAt(d, <<z, 1>>)' = <<c, 1>>
      BY <1>12 DEF SlotAt
    <2>3. <<c, 1>> \notin Taken(d)'
      BY <1>14, <1>16, <1>17 DEF Taken, Child
    <2> QED
      BY <2>1, <2>2, <2>3 DEF Places
  <1>19. d = Under[obj]'
    BY <1>0, <1>8
  <1> QED
    BY <1>18, <1>19 DEF Places, Offsets, SlotAt, Taken, Child

(* so all of it.                                                            *)
LEMMA StoreCut ==
    ASSUME IInv, IInv', Script, Cuts, sound, g_initialized, Store
    PROVE  Store'
  <1>0. Basic /\ CutMove /\ CutNode
    BY ScriptCut DEF IInv
  <1>1. Lasts({})
    BY <1>0, CutSteady, SteadyLasts
  <1>2. \A a \in Objs : Present(a)' => (Present(a) /\ a \notin {}) \/ Sits(a)'
    BY <1>0, ObjectSet DEF CutNode, Recast, Present
  <1>3. Seated'
    BY <1>0, <1>1, <1>2, SeatedLasts DEF Store
  <1>4. Synced' /\ KeptFiles' /\ Fresh' /\ Room'
    BY <1>0, SyncedCut, KeptCut, FreshCut, RoomCut DEF Store
  <1>5. Wrote'
    <2>1. written # TRUE /\ written' = written
      BY <1>0 DEF CutMove, call, Script, Course, Cutting, FlushAt
    <2> QED
      BY <2>1 DEF Wrote
  <1>6. Dropped'
    BY <1>0, CutEnds DEF Dropped, Cutting, TruncThen, TruncElse
  <1> QED
    BY <1>3, <1>4, <1>5, <1>6 DEF Store

-----------------------------------------------------------------------------
(* Steps that leave the tree as it is.                                      *)

(* Nodes that may differ in the dirty mark only, and views that do.         *)
SameShape(n, m) == m.at = n.at /\ m.start = n.start /\ m.size = n.size /\ m.contig = n.contig
ViewSame(o) == \A v, w : v = View(o) /\ w = View(o)' => SameShape(v, w)

(* Their fields,                                                            *)
LEMMA ViewSameIs ==
    ASSUME NEW o, ViewSame(o)
    PROVE  /\ View(o)'.at = View(o).at /\ View(o)'.start = View(o).start
           /\ View(o)'.size = View(o).size /\ View(o)'.contig = View(o).contig
  <1>1. PICK v, w : v = View(o) /\ w = View(o)'
    OBVIOUS
  <1>2. SameShape(v, w)
    BY <1>1 DEF ViewSame
  <1> QED
    BY <1>1, <1>2 DEF SameShape

(* and how to tell.                                                         *)
LEMMA ViewSameBy ==
    ASSUME NEW o, \/ View(o)' = View(o)
                  \/ /\ View(o)'.at = View(o).at /\ View(o)'.start = View(o).start
                     /\ View(o)'.size = View(o).size /\ View(o)'.contig = View(o).contig
    PROVE  ViewSame(o)
  <1>1. /\ View(o)'.at = View(o).at /\ View(o)'.start = View(o).start
        /\ View(o)'.size = View(o).size /\ View(o)'.contig = View(o).contig
    OBVIOUS
  <1> QED
    BY <1>1 DEF ViewSame, SameShape

(* Places within the size go on counting,                                   *)
CountsOn == \A d, i : d \in Dirs \union {ROOT} /\ i \in Nat /\ Counts(d, i) /\ i < View(d)'.size => Counts(d, i)'

(* unless a directory is about to be cut.                                   *)
LEMMA CountsGo ==
    ASSUME Basic, Basic',
           pc' \in Cutting => t'.o \in Files \/ \A q : q = t'.o => View(q)'.size <= t'.to
    PROVE  CountsOn
  <1> SUFFICES ASSUME NEW d, NEW i \in Nat, d \in Dirs \union {ROOT}, i < View(d)'.size PROVE Counts(d, i)'
    BY DEF CountsOn
  <1>1. d \notin Files /\ d \in Objects
    BY ObjectSet
  <1>2. View(d)'.size \in Nat /\ t'.to \in Nat
    BY <1>1, LaterTyped DEF IsNode, Basic, Typed, CallTyped, IsTrunc
  <1>3. pc' \in Cutting /\ d = t'.o => i < t'.to
    BY <1>1, <1>2
  <1> QED
    BY <1>3 DEF Counts

(* With the links as they were such a view has its clusters,                *)
LEMMA CalmAt ==
    ASSUME fat' = fat, NEW o, ViewSame(o)
    PROVE  \A i : At(o, i)' = At(o, i)
  BY ViewSameIs, AtIs

(* the step is steady,                                                      *)
LEMMA CalmSteady ==
    ASSUME fat' = fat, ViewSame(ROOT), \A a \in Objs : Sits(a) => ViewSame(a), CountsOn
    PROVE  Steady /\ Lasts({})
  <1>1. ASSUME NEW d, d \in Dirs \union {ROOT}, ViewSame(d) PROVE Firm(d)
    <2> SUFFICES ASSUME NEW i \in Nat, Counts(d, i) PROVE Counts(d, i)' /\ At(d, i)' = At(d, i)
      BY DEF Firm
    <2>1. i < View(d)'.size
      BY <1>1, ViewSameIs DEF Counts
    <2> QED
      BY <1>1, <2>1, CalmAt DEF CountsOn
  <1>2. Steady
    BY <1>1, ViewSameIs DEF Steady
  <1> QED
    BY <1>2, SteadyLasts

(* and the file has its contents if the data stays.                         *)
LEMMA CalmHeld ==
    ASSUME fat' = fat, NEW o, ViewSame(o),
           \A i \in 0 .. View(o).size - 1 : At(o, i) \in Clusters => data'[At(o, i)] = data[At(o, i)]
    PROVE  HeldBy(o)
  BY ViewSameIs, CalmAt DEF HeldBy

(* A node that keeps start and size keeps its chain.                        *)
LEMMA ChainSame ==
    ASSUME fat' = fat, NEW a, node'[a].start = node[a].start, node'[a].contig = node[a].contig,
           node'[a].size = node[a].size
    PROVE  ChainOf(node[a])' = ChainOf(node[a])
  <1>1. \A i : Nth(node[a], i)' = Nth(node[a], i)
    BY NthIs
  <1> QED
    BY <1>1 DEF ChainOf

(* Steps that change no entry and of nodes at most whether they are dirty. *)
Still == UNCHANGED <<fat, data, dent, cached>> /\ NodesAlike

(* leaves the views,                                                        *)
LEMMA StillView ==
    ASSUME Still, NEW o \in Objects PROVE ViewSame(o)
  <1>1. CASE o = ROOT \/ Under[o] \in cached
    <2>1. View(o) = node[o] /\ View(o)' = node'[o]
      BY <1>1, ViewIs, ObjectSet DEF Still
    <2> QED
      BY <2>1, ViewSameBy DEF Still, NodesAlike
  <1>2. CASE o # ROOT /\ Under[o] \notin cached
    <2>1. View(o)' = View(o)
      BY <1>2, ViewIs, ObjectSet DEF Still
    <2> QED
      BY <2>1, ViewSameBy
  <1> QED
    BY <1>1, <1>2

(* empty directories,                                                       *)
LEMMA StillHollow ==
    ASSUME Basic, Basic', Still, NEW a, Hollow(a) PROVE Hollow(a)'
  <1>1. a \in Objects
    BY ObjectSet DEF Hollow
  <1>2. \A c \in Objs : node'[c].at = node[c].at
    BY ObjectSet DEF Still, NodesAlike
  <1>3. ChainOf(node[a])' = ChainOf(node[a])
    BY <1>1, ChainSame DEF Still, NodesAlike
  <1>4. \A c \in Objs : dent'[c].k = "none" \/ (dent[c].k # "none" /\ dent'[c].at = dent[c].at)
    BY DEF Still
  <1> QED
    BY <1>2, <1>3, <1>4, HollowStays DEF Still

(* what sits and what is promised,                                          *)
LEMMA StillStore ==
    ASSUME Basic, Basic', Still, CountsOn, Seated, KeptFiles,
           \A o \in Files : Known(o)' => Known(o) /\ want'[o] = want[o]
    PROVE  Seated' /\ KeptFiles' /\ Lasts({})
  <1>1. fat' = fat /\ data' = data
    BY DEF Still
  <1>2. \A o \in Objects : ViewSame(o)
    BY StillView
  <1>3. Lasts({})
    BY <1>1, <1>2, CalmSteady, ObjectSet
  <1>4. \A a \in Objs : Present(a)' => Present(a) /\ a \notin {}
    BY ObjectSet DEF Present, Still, NodesAlike
  <1>5. Seated'
    BY <1>3, <1>4, SeatedLasts
  <1>6. \A o \in Files : HeldBy(o)
    BY <1>1, <1>2, CalmHeld, ObjectSet
  <1>7. \A o \in Files : Known(o)' => Kept1(o)
    BY <1>6 DEF Kept1
  <1> QED
    BY <1>3, <1>5, <1>7, KeptLasts

(* nodes that match,                                                        *)
LEMMA StillSynced ==
    ASSUME Basic, Basic', Still, Synced, \A p \in Objs : node[p].dirty = TRUE => node'[p].dirty = TRUE
    PROVE  Synced'
  <1> SUFFICES ASSUME NEW a \in Objs, Present(a)'
               PROVE  node'[a].dirty = TRUE \/ Match(a)' \/ Hollow(a)'
    BY DEF Synced
  <1>1. Present(a)
    BY ObjectSet DEF Present, Still, NodesAlike
  <1>2. Match(a) => Match(a)'
    BY ObjectSet DEF Match, Still, NodesAlike
  <1>3. Hollow(a) => Hollow(a)'
    BY StillHollow
  <1> QED
    BY <1>1, <1>2, <1>3 DEF Synced

(* what was written,                                                        *)
LEMMA StillWrote ==
    ASSUME Still, Wrote, UNCHANGED <<obj, size, calls>>, written' = written \/ written' # TRUE, obj \in Objects
    PROVE  Wrote'
  <1> SUFFICES ASSUME written' = TRUE PROVE Holds(obj, calls, size)'
    BY DEF Wrote
  <1>1. PICK o, c, n : o = obj /\ c = calls /\ n = size
    OBVIOUS
  <1>2. Holds(o, c, n) /\ o \in Objects
    BY <1>1 DEF Wrote
  <1>3. HeldBy(o)
    BY <1>2, StillView, CalmHeld DEF Still
  <1>4. /\ View(o)'.size = n
        /\ \A i \in 0 .. n - 1 : At(o, i)' \in Clusters /\ data'[At(o, i)'] = <<c, i>>
    BY <1>2, <1>3, HoldsStays
  <1>5. o = obj' /\ c = calls' /\ n = size'
    BY <1>1
  <1> HIDE DEF View, At
  <1>6. Holds(o, c, n)'
    BY <1>4 DEF Holds
  <1> QED
    BY <1>5, <1>6

(* the new directory,                                                       *)
LEMMA StillFresh ==
    ASSUME Basic, Basic', Fresh, Still, NewDir' => NewDir /\ obj' = obj PROVE Fresh'
  <1> SUFFICES ASSUME NewDir' PROVE Hollow(obj)'
    BY DEF Fresh
  <1>1. PICK o : o = obj
    OBVIOUS
  <1>2. Hollow(o)'
    BY <1>1, StillHollow DEF Fresh
  <1>3. o = obj'
    BY <1>1
  <1> QED
    BY <1>2, <1>3 DEF Hollow

(* and so all that is stored.                                               *)
LEMMA StoreMove ==
    ASSUME Basic, Basic', Store, Still, CountsOn,
           \A p \in Objs : node[p].dirty = TRUE => node'[p].dirty = TRUE,
           \A o \in Files : Known(o)' => Known(o) /\ want'[o] = want[o],
           written' # TRUE \/ UNCHANGED <<obj, size, calls, written>>,
           NewDir' => NewDir /\ obj' = obj, Dropped', Room'
    PROVE  Store'
  <1>1. Seated' /\ KeptFiles'
    BY StillStore DEF Store
  <1>2. Synced'
    BY StillSynced DEF Store
  <1>3. Wrote'
    <2>1. CASE written' # TRUE
      BY <2>1 DEF Wrote
    <2>2. CASE UNCHANGED <<obj, size, calls, written>>
      BY <2>2, StillWrote DEF Store, Basic, Typed, CallTyped
    <2> QED
      BY <2>1, <2>2
  <1>4. Fresh'
    BY StillFresh DEF Store
  <1> QED
    BY <1>1, <1>2, <1>3, <1>4 DEF Store

(* A step that changes nothing there is one.                                *)
LEMMA SameStill ==
    ASSUME UNCHANGED <<fat, data, dent, cached, node>>
    PROVE  Still /\ \A p \in Objs : node[p].dirty = TRUE => node'[p].dirty = TRUE
  BY DEF Still, NodesAlike

(* Data has only been written at the end of exfat_write_file.               *)
LEMMA NotWritten ==
    ASSUME Script, pc # "done", pc \notin FlushAt PROVE written # TRUE
  BY DEF Script, Course

(* A call that starts keeps what is stored: it takes away the promise of a  *)
(* file to be written.                                                      *)
LEMMA StoreCalls ==
    ASSUME IInv, IInv', Script, Store,
           \/ \E o \in Files, n \in Sizes : exfat_write_file(o, n)
           \/ \E d \in Dirs : exfat_create_dir_path(d)
           \/ \E o \in Objs : exfat_read_file(o) \/ exfat_get_file_info(o)
    PROVE  Store'
  <1>0. Basic /\ Basic'
    BY DEF IInv
  <1>1. UNCHANGED <<fat, data, dent, cached, node, written, t, f>> /\ pc = "idle" /\ pc' = "lookup"
    BY DEF exfat_write_file, exfat_create_dir_path, exfat_read_file, exfat_get_file_info, Call, device, memory
  <1>2. Still /\ \A p \in Objs : node[p].dirty = TRUE => node'[p].dirty = TRUE
    BY <1>1, SameStill
  <1>3. CountsOn
    BY <1>0, <1>1, CountsGo DEF Cutting
  <1>4. \A o \in Files : Known(o)' => Known(o) /\ want'[o] = want[o]
    <2>1. CASE want' = want
      BY <2>1 DEF Known
    <2>2. ASSUME NEW q \in Files, want' = [want EXCEPT ![q] = ANY]
          PROVE  \A o \in Files : Known(o)' => Known(o) /\ want'[o] = want[o]
      <3>1. want = [o \in Files |-> want[o]]
        BY DEF Script, WantTyped
      <3>2. \A o \in Files : want'[o] = IF o = q THEN ANY ELSE want[o]
        BY <2>2, <3>1
      <3> QED
        BY <3>2, AnyCall DEF Known
    <2> QED
      BY <2>1, <2>2 DEF exfat_write_file, exfat_create_dir_path, exfat_read_file, exfat_get_file_info
  <1>5. written' # TRUE
    BY <1>1, NotWritten DEF FlushAt
  <1>6. ~NewDir' /\ Dropped' /\ Room'
    BY <1>1 DEF NewDir, FlushAt, Dropped, Room
  <1> QED
    BY <1>0, <1>2, <1>3, <1>4, <1>5, <1>6, StoreMove

(* Reading marks dirty,                                                     *)
LEMMA StillReadData ==
    ASSUME Basic, ReadData
    PROVE  Still /\ \A p \in Objs : node[p].dirty = TRUE => node'[p].dirty = TRUE
  <1>1. UNCHANGED <<fat, data, dent, cached>>
    BY DEF ReadData, device
  <1>2. pc = "read" /\ pc \in InDir
    BY DEF ReadData, InDir
  <1>3. obj \in Objects /\ NodesTyped /\ IsNode(node[obj])
    BY <1>2, BusyFacts DEF Basic, Typed, MemoryTyped
  <1> DEFINE n == node[obj]
             b == n.dirty \/ (n.size > 0 /\ \A c \in ChainOf(n) : Valid(c))
  <1>4. node' = node \/ node' = [node EXCEPT ![obj].dirty = b]
    BY DEF ReadData
  <1>5. b \in BOOLEAN /\ (n.dirty = TRUE => b = TRUE)
    OBVIOUS
  <1> HIDE DEF b
  <1>6. CASE node' = [node EXCEPT ![obj].dirty = b]
    <2>1. PICK m : m = [n EXCEPT !.dirty = b]
      OBVIOUS
    <2>2. IsNode(m) /\ m.at = n.at /\ m.start = n.start /\ m.size = n.size /\ m.contig = n.contig /\ m.dirty = b
      BY <1>3, <1>5, <2>1, NodeDirtied
    <2>3. SetNode(obj, m)
      BY <1>6, <2>1 DEF SetNode
    <2>4. node'[obj] = m /\ \A p \in Objects : p # obj => node'[p] = node[p]
      BY <1>3, <2>2, <2>3, NodeReplaced
    <2>5. NodesAlike
      BY <2>2, <2>4 DEF NodesAlike
    <2>6. \A p \in Objs : node[p].dirty = TRUE => node'[p].dirty = TRUE
      BY <1>5, <2>2, <2>4, ObjectSet
    <2> QED
      BY <1>1, <2>5, <2>6 DEF Still
  <1> QED
    BY <1>1, <1>4, <1>6, SameStill

(* and keeps what is stored.                                                *)
LEMMA StoreRead ==
    ASSUME IInv, IInv', Script, Store, ReadData PROVE Store'
  <1>0. Basic /\ Basic'
    BY DEF IInv
  <1>1. pc' = "idle" /\ want' = want /\ written' # TRUE
    BY DEF ReadData, Return, seen
  <1>2. CountsOn
    BY <1>0, <1>1, CountsGo DEF Cutting
  <1>3. ~NewDir' /\ Dropped' /\ Room'
    BY <1>1 DEF NewDir, FlushAt, Dropped, Room
  <1>4. \A o \in Files : Known(o)' => Known(o) /\ want'[o] = want[o]
    BY <1>1 DEF Known
  <1> QED
    BY <1>0, <1>1, <1>2, <1>3, <1>4, StillReadData, StoreMove

(* A step that leaves device, tree and promises alone                       *)
Quietly == UNCHANGED <<fat, data, dent, cached, node, want, calls>>

(* keeps what is stored:                                                    *)
LEMMA StoreQuietly ==
    ASSUME Basic, Basic', Script, Store, Quietly, CountsOn,
           written' # TRUE \/ UNCHANGED <<obj, size, written>>,
           NewDir' => NewDir /\ obj' = obj, Dropped', Room'
    PROVE  Store'
  <1>1. Still /\ \A p \in Objs : node[p].dirty = TRUE => node'[p].dirty = TRUE
    BY SameStill DEF Quietly
  <1>2. \A o \in Files : Known(o)' => Known(o) /\ want'[o] = want[o]
    BY DEF Known, Quietly
  <1>3. written' # TRUE \/ UNCHANGED <<obj, size, calls, written>>
    BY DEF Quietly
  <1> QED
    BY <1>1, <1>2, <1>3, StoreMove

(* looking for a slot,                                                      *)
LEMMA StoreFindSlot ==
    ASSUME IInv, IInv', Script, Store, FindSlot PROVE Store'
  <1>0. Basic /\ Basic'
    BY DEF IInv
  <1>1. Quietly /\ pc = "slot" /\ pc \in InDir /\ UNCHANGED <<obj, size, written, f>>
    BY DEF FindSlot, Quietly, device, memory, seen, Goto, Truncating, call, InDir
  <1>2. Under[obj] \in Objects /\ (Under[obj] = ROOT \/ Under[Under[obj]] \in cached)
        /\ IsNode(node[Under[obj]]) /\ obj \in Objs /\ Under[obj] \in cached
    BY <1>0, <1>1, BusyFacts
  <1>3. CASE Goto("fail") \/ (Goto("commit") /\ Places(Under[obj]) # {})
    <2>1. pc' \in {"fail", "commit"}
      BY <1>3 DEF Goto
    <2>2. CountsOn
      BY <1>0, <2>1, CountsGo DEF Cutting
    <2>3. ~NewDir' /\ Dropped'
      BY <2>1 DEF NewDir, FlushAt, Dropped
    <2>4. Room'
      <3> SUFFICES ASSUME pc' = "commit" PROVE Places(Under[obj])' # {}
        BY DEF Room
      <3>1. Places(Under[obj]) # {}
        BY <1>3 DEF Goto
      <3>2. PICK d : d = Under[obj]
        OBVIOUS
      <3>3. \A i : Nth(node[d], i)' = Nth(node[d], i)
        BY <1>1, NthIs DEF Quietly
      <3>4. Places(d)' = Places(d)
        BY <1>1, <3>3 DEF Places, Offsets, SlotAt, Taken, Child, Quietly
      <3>5. d = Under[obj]'
        BY <1>1, <3>2
      <3>6. Places(d)' # {}
        BY <3>1, <3>2, <3>4
      <3> QED
        BY <3>5, <3>6 DEF Places, Offsets, SlotAt, Taken, Child
    <2> QED
      BY <1>0, <1>1, <2>2, <2>3, <2>4, StoreQuietly
  <1>4. CASE Truncating(Under[obj], node[Under[obj]].size + 1, "commit", "fail")
    <2>1. pc' = "truncate" /\ t'.o = Under[obj] /\ t'.to = node[Under[obj]].size + 1
      BY <1>4 DEF Truncating, NoT
    <2>2. \A q : q = t'.o => View(q)'.size <= t'.to
      <3> SUFFICES ASSUME NEW q, q = Under[obj] PROVE View(q)'.size <= t'.to
        BY <2>1
      <3>1. View(q)' = node'[q]
        <4>1. q = ROOT \/ (q \in Objs /\ Under[q] \in cached')
          BY <1>1, <1>2, UnderIs DEF Quietly
        <4> QED
          BY <4>1, ViewIs
      <3>2. node'[q].size = node[q].size /\ node[q].size \in Nat
        BY <1>1, <1>2 DEF Quietly, IsNode
      <3> QED
        BY <2>1, <3>1, <3>2
    <2>3. CountsOn
      BY <1>0, <2>2, CountsGo
    <2>4. ~NewDir' /\ Dropped' /\ Room'
      BY <2>1 DEF NewDir, FlushAt, Dropped, Room
    <2> QED
      BY <1>0, <1>1, <2>3, <2>4, StoreQuietly
  <1> QED
    BY <1>3, <1>4 DEF FindSlot

(* going on to exfat_truncate,                                              *)
LEMMA StoreCreated ==
    ASSUME IInv, IInv', Script, Store, Created PROVE Store'
  <1>0. Basic /\ Basic'
    BY DEF IInv
  <1>1. Quietly /\ pc = "created" /\ pc' = "truncate" /\ pc \in InDir /\ UNCHANGED <<obj, size, written, f>> /\ t'.o = obj
    BY DEF Created, Quietly, device, memory, seen, Truncating, call, InDir, NoT
  <1>2. obj \in Objs /\ Under[obj] \in cached
    BY <1>0, <1>1, BusyFacts
  <1>3. node[obj].size = 0
    BY <1>1 DEF Script, Object, Newborn
  <1>4. \A q : q = t'.o => View(q)'.size <= t'.to
    <2> SUFFICES ASSUME NEW q, q = obj PROVE View(q)'.size <= t'.to
      BY <1>1
    <2>1. View(q)' = node'[q]
      BY <1>1, <1>2, ViewIs DEF Quietly
    <2>2. t'.to \in Nat
      BY <1>0 DEF Basic, Typed, CallTyped, IsTrunc
    <2> QED
      BY <1>1, <1>3, <2>1, <2>2 DEF Quietly
  <1>5. CountsOn
    BY <1>0, <1>4, CountsGo
  <1>6. ~NewDir' /\ Dropped' /\ Room'
    BY <1>1 DEF NewDir, FlushAt, Dropped, Room
  <1> QED
    BY <1>0, <1>1, <1>5, <1>6, StoreQuietly

(* to a flush, or to the end of a call.                                     *)
LEMMA StoreMoves ==
    ASSUME IInv, IInv', Script, Store,
           Failed \/ DirFlush \/ DeleteFlush \/ PathDone \/ UnmountNode \/ UnmountNodesDone
    PROVE  Store'
  <1>0. Basic /\ Basic'
    BY DEF IInv
  <1>1. Quietly /\ pc' \in {"idle", "flush", "unmount", "lastflush"}
    BY DEF Failed, DirFlush, DeleteFlush, PathDone, UnmountNode, UnmountNodesDone, Quietly, device, memory, seen,
           Return, Goto, Flushing
  <1>2. written' # TRUE \/ UNCHANGED <<obj, size, written>>
    BY DEF Failed, DirFlush, DeleteFlush, PathDone, UnmountNode, UnmountNodesDone, Return, Goto, Flushing, call
  <1>3. NewDir' => NewDir /\ obj' = obj
    <2>1. CASE Failed \/ PathDone \/ UnmountNodesDone
      BY <2>1 DEF Failed, PathDone, UnmountNodesDone, Return, Goto, NewDir, FlushAt
    <2>2. CASE DirFlush
      BY <2>2 DEF DirFlush, Flushing, NewDir, FlushAt, call
    <2>3. CASE DeleteFlush
      <3>1. f'.k = "fail" /\ f'.kf = "fail" /\ pc' = "flush"
        BY <2>3 DEF DeleteFlush, Flushing
      <3> QED
        BY <3>1 DEF NewDir
    <2>4. CASE UnmountNode
      <3>1. f'.k = "unmount" /\ f'.kf = "lastflush" /\ pc' = "flush"
        BY <2>4 DEF UnmountNode, Flushing
      <3> QED
        BY <3>1 DEF NewDir
    <2> QED
      BY <2>1, <2>2, <2>3, <2>4
  <1>4. CountsOn
    BY <1>0, <1>1, CountsGo DEF Cutting
  <1>5. Dropped' /\ Room'
    BY <1>1 DEF Dropped, Room
  <1> QED
    BY <1>0, <1>1, <1>2, <1>3, <1>4, <1>5, StoreQuietly

(* or to the next component of a path.                                      *)
LEMMA StoreNext ==
    ASSUME IInv, IInv', Script, Store, NEW d \in Dirs, NextComponent(d) PROVE Store'
  <1>0. Basic /\ Basic'
    BY DEF IInv
  <1>1. Quietly /\ pc = "next" /\ pc' = "lookup" /\ written' = written
    BY DEF NextComponent, Quietly, device, memory, seen
  <1>2. written' # TRUE
    BY <1>1, NotWritten DEF FlushAt
  <1>3. CountsOn
    BY <1>0, <1>1, CountsGo DEF Cutting
  <1>4. ~NewDir' /\ Dropped' /\ Room'
    BY <1>1 DEF NewDir, FlushAt, Dropped, Room
  <1> QED
    BY <1>0, <1>1, <1>2, <1>3, <1>4, StoreQuietly

(* What was flushed is flushed while the nodes stay.                        *)
LEMMA FlushedStays ==
    ASSUME NEW o, Flushed(o), node' = node PROVE Flushed(o)'
  BY Zenon DEF Flushed

(* When nothing is dirty, all files are flushed:                            *)
LEMMA RootedFlushed ==
    ASSUME Basic, NEW o, Rooted(o), Dirty = {} PROVE Flushed(o)
  <1>1. PICK S \in SUBSET Objs : o \in S /\ \A s \in S : Sits(s) /\ (Under[s] = ROOT \/ Under[s] \in S)
    BY DEF Rooted
  <1>2. ASSUME NEW s \in S PROVE ~node[s].dirty
    <2>1. CASE Under[s] \in cached
      <3>1. View(s) = node[s] /\ View(s).at # NoSlot /\ s \in Objs
        BY <1>1, <2>1, ViewIs, SlotsAre DEF Sits
      <3>2. Present(s)
        BY <3>1 DEF Present
      <3> QED
        BY <3>1, <3>2 DEF Dirty
    <2>2. CASE Under[s] \notin cached
      <3>1. node[s] = NoNode
        BY <2>2 DEF Basic, Tree
      <3> QED
        BY <3>1, Blank
    <2> QED
      BY <2>1, <2>2
  <1> HIDE DEF Sits
  <1> QED
    BY <1>1, <1>2 DEF Flushed

(* exfat_unmount only goes on to drop the tree then.                        *)
LEMMA StoreUnmount ==
    ASSUME IInv, IInv', Script, Store, Unmount PROVE Store'
  <1>0. Basic /\ Basic'
    BY DEF IInv
  <1>1. Quietly /\ pc' = (IF Dirty = {} THEN "mount" ELSE "bug") /\ UNCHANGED <<obj, size, written>>
    BY DEF Unmount, Quietly, seen, Goto, call
  <1>2. CountsOn
    BY <1>0, <1>1, CountsGo DEF Cutting
  <1>3. Dropped'
    <2> SUFFICES ASSUME pc' = "mount", NEW o \in Files, Known(o)' PROVE Flushed(o)'
      BY DEF Dropped
    <2>1. Rooted(o)
      BY <1>1 DEF Store, KeptFiles, Known, Quietly
    <2>2. Flushed(o)
      BY <1>0, <1>1, <2>1, RootedFlushed
    <2> QED
      BY <1>1, <2>2, FlushedStays DEF Quietly
  <1>4. ~NewDir' /\ Room'
    BY <1>1 DEF NewDir, FlushAt, Room
  <1> QED
    BY <1>0, <1>1, <1>2, <1>3, <1>4, StoreQuietly

(* exfat_init over a mounted volume takes away the promise of files that    *)
(* are not flushed.                                                         *)
LEMMA StoreInit ==
    ASSUME IInv, IInv', Script, Store, exfat_init PROVE Store'
  <1>0. Basic /\ Basic'
    BY DEF IInv
  <1>1. UNCHANGED <<fat, data, dent, cached, node, written, t, f>> /\ pc = "idle" /\ pc' = "mount" /\ want' = Forgotten
    BY DEF exfat_init, device, memory, call
  <1>2. Still /\ \A p \in Objs : node[p].dirty = TRUE => node'[p].dirty = TRUE
    BY <1>1, SameStill
  <1>3. CountsOn
    BY <1>0, <1>1, CountsGo DEF Cutting
  <1>4. \A o \in Files : want'[o] = ANY \/ (want'[o] = want[o] /\ Flushed(o))
    BY <1>1, ForgottenIs DEF Script
  <1>5. \A o \in Files : Known(o)' => Known(o) /\ want'[o] = want[o] /\ Flushed(o)
    BY <1>4, AnyCall DEF Known
  <1>6. written' # TRUE
    BY <1>1, NotWritten DEF FlushAt
  <1>7. Dropped'
    BY <1>1, <1>5, FlushedStays DEF Dropped
  <1>8. ~NewDir' /\ Room'
    BY <1>1 DEF NewDir, FlushAt, Room
  <1> QED
    BY <1>0, <1>2, <1>3, <1>5, <1>6, <1>7, <1>8, StoreMove

(* A node in the tree is rooted,                                            *)
LEMMA PresentRooted ==
    ASSUME Basic, Seated, NEW o \in Objs, Present(o) PROVE Rooted(o)
  <1> DEFINE S == {a \in Objs : Present(a)}
  <1>1. ASSUME NEW s \in S PROVE Sits(s) /\ (Under[s] = ROOT \/ Under[s] \in S)
    BY PresentUnder, UnderIs DEF Seated
  <1>2. S \in SUBSET Objs /\ o \in S
    OBVIOUS
  <1> HIDE DEF S, Sits
  <1> QED
    BY <1>1, <1>2 DEF Rooted

(* so the file that was written can be promised.                            *)
LEMMA StoreDone ==
    ASSUME IInv, IInv', Script, Store, WriteDone PROVE Store'
  <1>0. Basic /\ Basic' /\ written \in BOOLEAN
    BY DEF IInv, Basic, Typed, CallTyped
  <1>1. UNCHANGED <<fat, data, dent, cached, node>> /\ pc = "done" /\ pc \in InDir /\ pc' = "idle" /\ written' # TRUE
        /\ want' = [want EXCEPT ![obj] = IF written THEN [call |-> calls, size |-> size] ELSE ANY]
    BY DEF WriteDone, device, memory, Return, InDir
  <1>2. Still /\ \A p \in Objs : node[p].dirty = TRUE => node'[p].dirty = TRUE
    BY <1>1, SameStill
  <1>3. CountsOn
    BY <1>0, <1>1, CountsGo DEF Cutting
  <1>4. obj \in Objs /\ obj \in Files /\ Present(obj)
    BY <1>0, <1>1, BusyFacts DEF Script, Course, Writing, Object, WithNode
  <1>5. \A o \in Files : want'[o] = IF o = obj THEN IF written THEN [call |-> calls, size |-> size] ELSE ANY
                                               ELSE want[o]
    BY <1>1 DEF Script, WantTyped
  <1>6. Seated' /\ Synced' /\ Lasts({})
    <2>1. Seated' /\ Lasts({})
      <3>1. \A o \in Objects : ViewSame(o)
        BY <1>2, StillView
      <3>2. Lasts({})
        BY <1>1, <1>3, <3>1, CalmSteady, ObjectSet
      <3>3. \A a \in Objs : Present(a)' => Present(a) /\ a \notin {}
        BY <1>1 DEF Present
      <3> QED
        BY <1>0, <3>2, <3>3, SeatedLasts DEF Store
    <2> QED
      BY <1>0, <1>2, <2>1, StillSynced DEF Store
  <1>7. KeptFiles'
    <2> SUFFICES ASSUME NEW o \in Files, Known(o)'
                 PROVE  Rooted(o)' /\ Holds(o, want[o].call, want[o].size)'
      BY DEF KeptFiles
    <2>0. HeldBy(o)
      BY <1>1, <1>2, StillView, CalmHeld, ObjectSet
    <2>1. CASE o # obj
      <3>1. Kept1(o)
        BY <1>5, <2>0, <2>1 DEF Kept1, Known
      <3>2. Rooted(o)'
        BY <1>6, <3>1, RootedStays DEF Store, KeptFiles, Kept1
      <3> QED
        BY <3>1, <3>2, KeptStays DEF Store
    <2>2. CASE o = obj
      <3>1. written = TRUE
        <4>1. written # TRUE => want'[o] = ANY
          BY <1>0, <1>5, <2>2
        <4> QED
          BY <4>1, AnyCall DEF Known
      <3>2. PICK c, n : c = calls /\ n = size
        OBVIOUS
      <3>3. want'[o].call = c /\ want'[o].size = n
        BY <1>5, <2>2, <3>1, <3>2
      <3>4. Holds(o, c, n)
        BY <2>2, <3>1, <3>2 DEF Store, Wrote
      <3>5. /\ View(o)'.size = n
            /\ \A i \in 0 .. n - 1 : At(o, i)' \in Clusters /\ data'[At(o, i)'] = <<c, i>>
        BY <2>0, <3>4, HoldsStays
      <3>6. Rooted(o)'
        BY <1>0, <1>4, <1>6, <2>2, PresentRooted, RootedStays DEF Store
      <3> HIDE DEF View, At
      <3> QED
        BY <3>3, <3>5, <3>6 DEF Holds
    <2> QED
      BY <2>1, <2>2
  <1>8. Wrote' /\ Dropped' /\ Room' /\ ~NewDir'
    BY <1>1 DEF Wrote, Dropped, Room, NewDir, FlushAt
  <1> QED
    BY <1>6, <1>7, <1>8 DEF Store, Fresh

(* exfat_flush_node moves on and cuts nothing.                              *)
LEMMA FlushGoes ==
    ASSUME Basic, Basic', Script, Flushes
    PROVE  /\ CountsOn /\ UNCHANGED <<obj, size, written, calls>> /\ (NewDir' => NewDir)
           /\ Dropped' /\ Room' /\ UNCHANGED <<fat, data, cached, want>>
  <1>1. FlushMove /\ UNCHANGED <<fat, data>>
    BY FlushSteps DEF Flushes, FlushNothing, FlushEntry, FlushBitmap, device
  <1>2. UNCHANGED <<obj, size, written>> /\ pc \in FlushAt
    BY <1>1 DEF FlushMove, FlushDone, Goto, call
  <1>3. f.k \in FlushThen /\ f.kf \in FlushElse /\ FlushFor
    BY <1>2 DEF Basic, Control, Script, Course
  <1>4. pc' \in FlushThen \union FlushElse \union {"bitmap"}
    BY <1>1, <1>3 DEF FlushMove, FlushDone, Goto
  <1>5. CountsOn
    BY <1>4, CountsGo DEF FlushThen, FlushElse, Cutting
  <1>6. NewDir' => NewDir
    <2>1. CASE Goto("bitmap")
      BY <1>2, <2>1 DEF Goto, NewDir, FlushAt
    <2>2. CASE FlushDone(f.k)
      BY <1>2, <1>3, <2>2 DEF FlushDone, NewDir, FlushFor, FlushAt
    <2>3. CASE FlushDone(f.kf)
      BY <1>2, <1>3, <2>3 DEF FlushDone, NewDir, FlushFor, FlushAt
    <2> QED
      BY <1>1, <2>1, <2>2, <2>3 DEF FlushMove
  <1>7. Dropped' /\ Room'
    BY <1>4 DEF Dropped, Room, FlushThen, FlushElse
  <1> QED
    BY <1>1, <1>2, <1>5, <1>6, <1>7 DEF FlushMove

(* It keeps what is stored when there is nothing to write, and when it      *)
(* writes the bitmap.                                                       *)
LEMMA StoreFlushes ==
    ASSUME IInv, IInv', Script, Store, FlushNothing \/ FlushBitmap PROVE Store'
  <1>0. Basic /\ Basic'
    BY DEF IInv
  <1>1. Flushes
    BY DEF Flushes
  <1>2. node' = node /\ dent' = dent
    BY DEF FlushNothing, FlushBitmap, memory, device
  <1>3. /\ CountsOn /\ UNCHANGED <<obj, size, written, calls>> /\ (NewDir' => NewDir)
        /\ Dropped' /\ Room' /\ UNCHANGED <<fat, data, cached, want>>
    BY <1>0, <1>1, FlushGoes
  <1>4. Quietly
    BY <1>2, <1>3 DEF Quietly
  <1> QED
    BY <1>0, <1>3, <1>4, StoreQuietly

-----------------------------------------------------------------------------
(* Entries written and removed.                                             *)

(* Steps that leave every view of what sits alone keep what sits and what   *)
(* is promised.                                                             *)
LEMMA CalmStore ==
    ASSUME Basic, Basic', fat' = fat, ViewSame(ROOT), \A a \in Objs : Sits(a) => ViewSame(a), CountsOn,
           Seated, KeptFiles, \A a \in Objs : Present(a)' => Present(a) \/ Sits(a)',
           \A o \in Files : Known(o)' => Known(o) /\ want'[o] = want[o],
           \A o \in Files : Known(o) /\ Known(o)' => \A i \in 0 .. View(o).size - 1 :
               At(o, i) \in Clusters => data'[At(o, i)] = data[At(o, i)]
    PROVE  Seated' /\ KeptFiles' /\ Lasts({})
  <1>1. Lasts({})
    BY CalmSteady
  <1>2. \A a \in Objs : Present(a)' => (Present(a) /\ a \notin {}) \/ Sits(a)'
    OBVIOUS
  <1>3. Seated'
    BY <1>1, <1>2, SeatedLasts
  <1>4. \A o \in Files : Known(o)' => Kept1(o)
    BY CalmHeld, ObjectSet DEF Kept1
  <1> QED
    BY <1>1, <1>3, <1>4, KeptLasts

(* Steps that change the entry of q, whose directory has been read. *)
EntryStep(q) == /\ UNCHANGED <<fat, data, cached, want>> /\ NodesAlike
                /\ q \in Objs /\ Under[q] \in cached
                /\ \A p \in Objs : p # q => dent'[p] = dent[p] /\ node'[p] = node[p]

(* leaves all views,                                                        *)
LEMMA EntryViews ==
    ASSUME NEW q, EntryStep(q) PROVE \A o \in Objects : ViewSame(o)
  <1> SUFFICES ASSUME NEW o \in Objects PROVE ViewSame(o)
    OBVIOUS
  <1>1. CASE o = ROOT \/ Under[o] \in cached
    <2>1. View(o) = node[o] /\ View(o)' = node'[o]
      BY <1>1, ViewIs, ObjectSet DEF EntryStep
    <2> QED
      BY <2>1, ViewSameBy DEF EntryStep, NodesAlike
  <1>2. CASE o # ROOT /\ Under[o] \notin cached
    <2>1. View(o)' = View(o)
      BY <1>2, ViewIs, ObjectSet DEF EntryStep
    <2> QED
      BY <2>1, ViewSameBy
  <1> QED
    BY <1>1, <1>2

(* empty directories,                                                       *)
LEMMA EntryHollow ==
    ASSUME Basic, Basic', NEW q, EntryStep(q), NEW a, Hollow(a) PROVE Hollow(a)'
  <1>1. a \in Objects
    BY ObjectSet DEF Hollow
  <1>2. \A c \in Objs : node'[c].at = node[c].at
    BY ObjectSet DEF EntryStep, NodesAlike
  <1>3. ChainOf(node[a])' = ChainOf(node[a])
    BY <1>1, ChainSame DEF EntryStep, NodesAlike
  <1>4. a \notin cached => \A c \in Objs : Under[c] = a => dent'[c] = dent[c]
    BY DEF EntryStep
  <1> QED
    BY <1>2, <1>3, <1>4, HollowStays DEF EntryStep

(* what sits, matches and is promised,                                      *)
LEMMA EntryStore ==
    ASSUME Basic, Basic', NEW q, EntryStep(q), CountsOn, Seated, Synced, KeptFiles,
           Present(q) => node'[q].dirty = TRUE \/ Match(q)' \/ Hollow(q)
    PROVE  Seated' /\ Synced' /\ KeptFiles'
  <1>1. \A o \in Objects : ViewSame(o)
    BY EntryViews
  <1>2. \A a \in Objs : Present(a)' => Present(a)
    BY ObjectSet DEF Present, EntryStep, NodesAlike
  <1>3. fat' = fat /\ data' = data /\ want' = want
    BY DEF EntryStep
  <1>4. Seated' /\ KeptFiles'
    BY <1>1, <1>2, <1>3, CalmStore, ObjectSet DEF Known
  <1>5. ASSUME NEW a \in Objs, Present(a)' PROVE node'[a].dirty = TRUE \/ Match(a)' \/ Hollow(a)'
    <2>1. Present(a)
      BY <1>2, <1>5
    <2>2. CASE a = q
      BY <2>1, <2>2, EntryHollow
    <2>3. CASE a # q
      <3>1. dent'[a] = dent[a] /\ node'[a] = node[a]
        BY <2>3 DEF EntryStep
      <3>2. Match(a) => Match(a)'
        BY <3>1 DEF Match
      <3> QED
        BY <2>1, <3>1, <3>2, EntryHollow DEF Synced
    <2> QED
      BY <2>2, <2>3
  <1> QED
    BY <1>4, <1>5 DEF Synced

(* what was written                                                         *)
LEMMA EntryWrote ==
    ASSUME NEW q, EntryStep(q), Wrote, UNCHANGED <<obj, size, calls, written>>, obj \in Objects
    PROVE  Wrote'
  <1> SUFFICES ASSUME written' = TRUE PROVE Holds(obj, calls, size)'
    BY DEF Wrote
  <1>1. PICK o, c, n : o = obj /\ c = calls /\ n = size
    OBVIOUS
  <1>2. Holds(o, c, n) /\ o \in Objects
    BY <1>1 DEF Wrote
  <1>3. HeldBy(o)
    BY <1>2, EntryViews, CalmHeld DEF EntryStep
  <1>4. /\ View(o)'.size = n
        /\ \A i \in 0 .. n - 1 : At(o, i)' \in Clusters /\ data'[At(o, i)'] = <<c, i>>
    BY <1>2, <1>3, HoldsStays
  <1>5. o = obj' /\ c = calls' /\ n = size'
    BY <1>1
  <1> HIDE DEF View, At
  <1>6. Holds(o, c, n)'
    BY <1>4 DEF Holds
  <1> QED
    BY <1>5, <1>6

(* and the new directory.                                                   *)
LEMMA EntryFresh ==
    ASSUME Basic, Basic', NEW q, EntryStep(q), Fresh, NewDir' => NewDir, obj' = obj PROVE Fresh'
  <1> SUFFICES ASSUME NewDir' PROVE Hollow(obj)'
    BY DEF Fresh
  <1>1. PICK o : o = obj
    OBVIOUS
  <1>2. Hollow(o)'
    BY <1>1, EntryHollow DEF Fresh
  <1>3. o = obj'
    BY <1>1
  <1> QED
    BY <1>2, <1>3 DEF Hollow

(* The entry of a file of some size says whether it is contiguous.          *)
LEMMA EntryContig ==
    ASSUME NEW n, IsNode(n), n.size # 0 PROVE EntryFor(n).contig = n.contig
  BY DEF EntryFor, IsNode

(* Nodes are in slots.                                                      *)
LEMMA AtOf ==
    ASSUME Basic, Seated, NEW a \in Objs PROVE node[a].at \in Slots \union {NoSlot}
  <1>1. CASE Present(a)
    BY <1>1, PresentUnder DEF Seated, Sits
  <1>2. CASE ~Present(a)
    BY <1>2 DEF Present
  <1> QED
    BY <1>1, <1>2

(* Writing the entry of a node keeps what is stored: the node is clean only *)
(* if the entry matches it; a torn entry is that of a node that stays       *)
(* dirty.                                                                   *)
LEMMA StoreFlushEntry ==
    ASSUME IInv, IInv', Script, Store, FlushEntry PROVE Store' /\ (EntrySlots => EntrySlots')
  <1>0. Basic /\ Basic'
    BY DEF IInv
  <1>1. Flushes
    BY DEF Flushes
  <1>2. /\ CountsOn /\ UNCHANGED <<obj, size, written, calls>> /\ (NewDir' => NewDir)
        /\ Dropped' /\ Room' /\ UNCHANGED <<fat, data, cached, want>>
    BY <1>0, <1>1, FlushGoes
  <1>3. PICK q : q = f.o
    OBVIOUS
  <1>4. q \in Objs /\ q \in Objects /\ Under[q] \in cached /\ node[q].dirty = TRUE
    <2>1. q # ROOT /\ node[q].dirty /\ pc = "flush"
      BY <1>3 DEF FlushEntry
    <2>2. q \in Objects /\ (q = ROOT \/ Under[q] \in cached)
      BY <1>0, <1>3, <2>1 DEF Basic, Typed, CallTyped, IsFlush, Control, FlushAt
    <2>3. node[q].dirty \in BOOLEAN
      BY <1>0, <2>2 DEF Basic, Typed, MemoryTyped, NodesTyped, IsNode
    <2> QED
      BY <2>1, <2>2, <2>3, ObjectSet
  <1>5. /\ NodesAlike
        /\ \A p \in Objects : p # q => node'[p] = node[p]
        /\ \A p \in Objs : p # q => dent'[p] = dent[p]
    BY <1>0, <1>1, <1>3, FlushSteps
  <1>6. EntryStep(q)
    BY <1>2, <1>4, <1>5, ObjectSet DEF EntryStep
  <1>7. PICK n : n = node[q]
    OBVIOUS
  <1>8. IsNode(n) /\ DentsTyped /\ NodesTyped
    BY <1>0, <1>4, <1>7 DEF Basic, Typed, MemoryTyped, NodesTyped, DeviceTyped
  <1>9. \/ dent' = [dent EXCEPT ![q] = EntryFor(n)] /\ dent[q].at = n.at
        \/ node' = node /\ (dent' = dent \/ dent' = [dent EXCEPT ![q] = Torn(n.at)])
    BY <1>3, <1>7 DEF FlushEntry
  <1>10. /\ IsDent(EntryFor(n)) /\ EntryFor(n).size = n.size /\ EntryFor(n).start = n.start
         /\ EntryFor(n).at = n.at /\ EntryFor(n).k = "ok"
    BY <1>8, DentOfNode
  <1>11. IsDent(Torn(n.at)) /\ Torn(n.at).at = n.at
    BY EmptyEntries DEF Torn
  <1>12. node'[q].dirty = TRUE \/ Match(q)'
    <2>1. CASE dent' = [dent EXCEPT ![q] = EntryFor(n)]
      <3>1. dent'[q] = EntryFor(n)
        BY <1>4, <1>8, <1>10, <2>1, DentReplaced
      <3>2. n.size # 0 => dent'[q].contig = n.contig
        BY <1>8, <3>1, EntryContig
      <3>3. node'[q].at = n.at /\ node'[q].size = n.size /\ node'[q].start = n.start /\ node'[q].contig = n.contig
        BY <1>4, <1>5, <1>7 DEF NodesAlike
      <3>4. dent'[q].k = "ok" /\ dent'[q].at = n.at /\ dent'[q].size = n.size /\ dent'[q].start = n.start
        BY <1>10, <3>1
      <3> QED
        BY <3>2, <3>3, <3>4 DEF Match
    <2>2. CASE node' = node
      BY <1>4, <2>2
    <2> QED
      BY <1>9, <2>1, <2>2
  <1>13. Seated' /\ Synced' /\ KeptFiles'
    BY <1>0, <1>2, <1>6, <1>12, EntryStore DEF Store
  <1>14. Wrote' /\ Fresh'
    BY <1>0, <1>2, <1>6, EntryWrote, EntryFresh DEF Store, Basic, Typed, CallTyped
  <1>15. ASSUME EntrySlots PROVE EntrySlots'
    <2>1. n.at \in Slots \union {NoSlot}
      BY <1>0, <1>4, <1>7, AtOf DEF Store
    <2>2. dent'[q].at = dent[q].at \/ dent'[q].at = n.at
      BY <1>4, <1>8, <1>9, <1>10, <1>11, DentReplaced
    <2> QED
      BY <1>4, <1>5, <1>15, <2>1, <2>2 DEF EntrySlots, Slots
  <1> QED
    BY <1>2, <1>13, <1>14, <1>15 DEF Store

(* Removing the entry of a new directory keeps it: the directory is empty.  *)
LEMMA StoreDelete ==
    ASSUME IInv, IInv', Script, Store, DeleteEntry PROVE Store' /\ (EntrySlots => EntrySlots')
  <1>0. Basic /\ Basic' /\ DentsTyped
    BY DEF IInv, Basic, Typed, DeviceTyped
  <1>1. PICK q : q = obj
    OBVIOUS
  <1>2. pc = "delete" /\ pc \in InDir /\ UNCHANGED <<fat, data, cached, want, node, obj, size, written, calls>>
        /\ pc' \in {"flush", "fail"}
    BY DEF DeleteEntry, InDir, memory, seen, Flushing, Goto, call
  <1>3. q \in Objs /\ Under[q] \in cached
    BY <1>0, <1>1, <1>2, BusyFacts
  <1>4. dent' = dent \/ dent' = [dent EXCEPT ![q] = NoDent] \/ dent' = [dent EXCEPT ![q] = Torn(node[q].at)]
    BY <1>1 DEF DeleteEntry
  <1>5. IsDent(Torn(node[q].at)) /\ Torn(node[q].at).at = node[q].at /\ IsDent(NoDent) /\ NoDent.at = NoSlot
    BY EmptyEntries, Blank DEF Torn, NoDent
  <1>6. /\ \A p \in Objs : p # q => dent'[p] = dent[p]
        /\ dent'[q].at \in {dent[q].at, NoSlot, node[q].at}
    <2>1. CASE dent' = dent
      BY <2>1
    <2>2. CASE dent' = [dent EXCEPT ![q] = NoDent]
      BY <1>0, <1>3, <1>5, <2>2, DentReplaced
    <2>3. CASE dent' = [dent EXCEPT ![q] = Torn(node[q].at)]
      BY <1>0, <1>3, <1>5, <2>3, DentReplaced
    <2> QED
      BY <1>4, <2>1, <2>2, <2>3
  <1>7. EntryStep(q)
    BY <1>2, <1>3, <1>6 DEF EntryStep, NodesAlike
  <1>8. NewDir
    BY <1>2 DEF NewDir
  <1>9. Hollow(q)
    BY <1>1, <1>8 DEF Store, Fresh
  <1>10. CountsOn
    BY <1>0, <1>2, CountsGo DEF Cutting
  <1>11. Seated' /\ Synced' /\ KeptFiles'
    BY <1>0, <1>7, <1>9, <1>10, EntryStore DEF Store
  <1>12. Wrote' /\ Fresh'
    BY <1>0, <1>2, <1>7, <1>8, EntryWrote, EntryFresh DEF Store, Basic, Typed, CallTyped
  <1>13. Dropped' /\ Room'
    BY <1>2 DEF Dropped, Room
  <1>14. ASSUME EntrySlots PROVE EntrySlots'
    <2>1. node[q].at \in Slots \union {NoSlot}
      BY <1>0, <1>3, AtOf DEF Store
    <2> QED
      BY <1>3, <1>6, <1>14, <2>1 DEF EntrySlots, Slots
  <1> QED
    BY <1>11, <1>12, <1>13, <1>14 DEF Store

(* The first m clusters of q,                                               *)
Filled(q, m) == {At(q, i) : i \in 0 .. m - 1}

(* the same by the node,                                                    *)
Spread(n, m) == {Nth(n, i) : i \in 0 .. m - 1}

(* the data after they were written,                                        *)
Put(n, m) == [c \in Clusters |->
                IF c \in Spread(n, m) THEN <<calls, CHOOSE i \in 0 .. m - 1 : Nth(n, i) = c>> ELSE data[c]]

(* and the node.                                                            *)
Used(n, z) == [n EXCEPT !.dirty = n.dirty \/ z > 0]

(* WriteData has written the first m clusters of q. *)
Writes(q, m, z) ==
    /\ dent' = Overwritten(Filled(q, m))
    /\ \A c \in Clusters : c \notin Filled(q, m) => data'[c] = data[c]
    /\ \A i \in 0 .. m - 1 : At(q, i) \in Clusters =>
          \E j \in 0 .. m - 1 : At(q, j) = At(q, i) /\ data'[At(q, i)] = <<calls, j>>
    /\ written' = TRUE => m = z /\ \A i \in 0 .. z - 1 : At(q, i) \in Clusters

(* The data is that of the places,                                          *)
LEMMA PutIs ==
    ASSUME NEW q, NEW n, View(q) = n, NEW m
    PROVE  /\ Spread(n, m) = Filled(q, m)
           /\ \A c \in Clusters : c \notin Filled(q, m) => Put(n, m)[c] = data[c]
           /\ \A i \in 0 .. m - 1 : At(q, i) \in Clusters =>
                 \E j \in 0 .. m - 1 : At(q, j) = At(q, i) /\ Put(n, m)[At(q, i)] = <<calls, j>>
  <1>1. \A i : At(q, i) = Nth(n, i)
    BY DEF At
  <1>2. Spread(n, m) = Filled(q, m)
    BY <1>1 DEF Spread, Filled
  <1>3. \A c \in Clusters : Put(n, m)[c] = IF c \in Spread(n, m)
                                THEN <<calls, CHOOSE i \in 0 .. m - 1 : Nth(n, i) = c>> ELSE data[c]
    BY Zenon DEF Put
  <1>4. ASSUME NEW i \in 0 .. m - 1, At(q, i) \in Clusters
        PROVE  \E j \in 0 .. m - 1 : At(q, j) = At(q, i) /\ Put(n, m)[At(q, i)] = <<calls, j>>
    <2>1. PICK c : c = At(q, i)
      OBVIOUS
    <2>2. c \in Spread(n, m) /\ c \in Clusters
      BY <1>1, <1>4, <2>1 DEF Spread
    <2>3. PICK j : j = CHOOSE k \in 0 .. m - 1 : Nth(n, k) = c
      OBVIOUS
    <2>4. Put(n, m)[c] = <<calls, j>>
      BY <1>3, <2>2, <2>3
    <2>5. j \in 0 .. m - 1 /\ Nth(n, j) = c
      <3>1. \E k \in 0 .. m - 1 : Nth(n, k) = c
        BY <1>1, <2>1
      <3> QED
        BY <2>3, <3>1, Zenon
    <2> QED
      BY <1>1, <2>1, <2>4, <2>5
  <1>5. \A c \in Clusters : c \notin Filled(q, m) => Put(n, m)[c] = data[c]
    BY <1>2, <1>3
  <1> QED
    BY <1>2, <1>4, <1>5

(* so this is what it does.                                                 *)
LEMMA WriteIs ==
    ASSUME Basic, WriteData
    PROVE  \E q, m, n, z : /\ q = obj /\ n = node[q] /\ z = size /\ m \in Int /\ m <= z
                           /\ View(q) = n /\ Writes(q, m, z)
                           /\ node' = node \/ SetNode(q, Used(n, z))
  <1>1. pc = "data" /\ pc \in InDir
    BY DEF WriteData, InDir
  <1>2. obj \in Objs /\ Under[obj] \in cached /\ size \in Nat
    BY <1>1, BusyFacts
  <1>3. PICK q, n, z : q = obj /\ n = node[q] /\ z = size
    OBVIOUS
  <1>4. View(q) = n
    BY <1>2, <1>3, ViewIs
  <1>5. \/ /\ \A c \in Spread(node[obj], size) : c \in Clusters
           /\ data' = Put(node[obj], size) /\ dent' = Overwritten(Spread(node[obj], size))
           /\ SetNode(obj, Used(node[obj], size))
        \/ /\ written' = FALSE /\ node' = node
           /\ \E m \in 0 .. size - 1 : data' = Put(node[obj], m) /\ dent' = Overwritten(Spread(node[obj], m))
    BY DEF WriteData, Put, Spread, Used, Valid
  <1>6. \/ /\ \A c \in Spread(n, z) : c \in Clusters
           /\ data' = Put(n, z) /\ dent' = Overwritten(Spread(n, z)) /\ SetNode(q, Used(n, z))
        \/ /\ written' # TRUE /\ node' = node
           /\ \E m \in 0 .. z - 1 : data' = Put(n, m) /\ dent' = Overwritten(Spread(n, m))
    BY <1>3, <1>5
  <1>7. CASE /\ \A c \in Spread(n, z) : c \in Clusters
             /\ data' = Put(n, z) /\ dent' = Overwritten(Spread(n, z)) /\ SetNode(q, Used(n, z))
    <2>1. \A i \in 0 .. z - 1 : At(q, i) \in Clusters
      BY <1>4, <1>7 DEF Spread, At
    <2>2. Writes(q, z, z)
      BY <1>4, <1>7, <2>1, PutIs DEF Writes
    <2>3. z \in Int /\ z <= z
      BY <1>2, <1>3
    <2> QED
      BY <1>3, <1>4, <1>7, <2>2, <2>3
  <1>8. CASE /\ written' # TRUE /\ node' = node
             /\ \E m \in 0 .. z - 1 : data' = Put(n, m) /\ dent' = Overwritten(Spread(n, m))
    <2>1. PICK m \in 0 .. z - 1 : data' = Put(n, m) /\ dent' = Overwritten(Spread(n, m))
      BY <1>8
    <2>2. Writes(q, m, z)
      <3>1. /\ Spread(n, m) = Filled(q, m)
            /\ \A c \in Clusters : c \notin Filled(q, m) => Put(n, m)[c] = data[c]
            /\ \A i \in 0 .. m - 1 : At(q, i) \in Clusters =>
                  \E j \in 0 .. m - 1 : At(q, j) = At(q, i) /\ Put(n, m)[At(q, i)] = <<calls, j>>
        BY <1>4, PutIs
      <3>2. written' # TRUE
        BY <1>8
      <3> QED
        BY <2>1, <3>1, <3>2 DEF Writes
    <2>3. m \in Int /\ m <= z
      BY <1>2, <1>3
    <2> QED
      BY <1>3, <1>4, <1>8, <2>2, <2>3
  <1> QED
    BY <1>6, <1>7, <1>8

(* Writing the data keeps what is stored: its clusters are those of the     *)
(* file alone, so no entry and no other file is in them, and every place    *)
(* holds its own number.                                                    *)
LEMMA StoreWrite ==
    ASSUME IInv, IInv', Script, Store, sound, g_initialized, WriteData
    PROVE  Store' /\ (EntrySlots => EntrySlots')
  <1>0. Basic /\ Basic' /\ NodesTyped /\ Apart /\ DentsTyped
    BY DEF IInv, Basic, Typed, MemoryTyped, Space, DeviceTyped
  <1>1. /\ pc = "data" /\ pc \in InDir /\ pc' = "flush" /\ f'.k = "done" /\ f'.kf = "done"
        /\ UNCHANGED <<fat, cached, want, obj, size, calls>>
    BY DEF WriteData, InDir, seen
  <1>2. PICK q, m, n, z : /\ q = obj /\ n = node[q] /\ z = size /\ m \in Int /\ m <= z
                          /\ View(q) = n /\ Writes(q, m, z)
                          /\ node' = node \/ SetNode(q, Used(n, z))
    BY <1>0, WriteIs
  <1>3. q \in Objs /\ q \in Objects /\ Under[q] \in cached /\ IsNode(n) /\ z \in Nat /\ q \in Files
    BY <1>0, <1>1, <1>2, BusyFacts DEF Script, Course, Writing
  <1>4. n.size = z
    BY <1>1, <1>2 DEF Script, Object
  <1>5. Place(q) = 0 .. z - 1
    BY <1>1, <1>2, <1>4 DEF Place, Length
  <1>6. \A o \in Objects : \A i \in Place(o) : o # q /\ At(o, i) \in Clusters => At(o, i) \notin Filled(q, m)
    <2> SUFFICES ASSUME NEW o \in Objects, NEW i \in Place(o), o # q, At(o, i) \in Clusters,
                        NEW j \in 0 .. m - 1, At(o, i) = At(q, j)
                 PROVE  FALSE
      BY DEF Filled
    <2>1. j \in Place(q)
      BY <1>2, <1>3, <1>5
    <2> QED
      BY <1>0, <1>3, <2>1 DEF Apart
  <1>7. /\ NodesAlike /\ \A p \in Objs : node[p].dirty = TRUE => node'[p].dirty = TRUE
    <2>1. CASE node' = node
      BY <2>1 DEF NodesAlike
    <2>2. CASE SetNode(q, Used(n, z))
      <3>1. PICK b : b = (n.dirty \/ z > 0)
        OBVIOUS
      <3>2. b \in BOOLEAN /\ (n.dirty = TRUE => b = TRUE)
        BY <3>1
      <3>3. PICK k : k = [n EXCEPT !.dirty = b]
        OBVIOUS
      <3>4. IsNode(k) /\ k.at = n.at /\ k.start = n.start /\ k.size = n.size /\ k.contig = n.contig /\ k.dirty = b
        BY <1>3, <3>2, <3>3, NodeDirtied
      <3>5. SetNode(q, k)
        BY <2>2, <3>1, <3>3 DEF Used
      <3>6. node'[q] = k /\ \A p \in Objects : p # q => node'[p] = node[p]
        BY <1>0, <1>3, <3>4, <3>5, NodeReplaced
      <3>7. NodesAlike
        BY <1>2, <3>4, <3>6 DEF NodesAlike
      <3>8. \A p \in Objs : node[p].dirty = TRUE => node'[p].dirty = TRUE
        BY <1>2, <3>2, <3>4, <3>6, ObjectSet
      <3> QED
        BY <3>7, <3>8
    <2> QED
      BY <1>2, <2>1, <2>2
  <1>8. \A a \in Objs : dent'[a] = IF dent[a].at[1] \in Filled(q, m) THEN NoDent ELSE dent[a]
    BY <1>2 DEF Writes, Overwritten
  <1>9. \A a \in Objs : Sits(a) /\ dent[a].at = View(a).at => dent'[a] = dent[a]
    <2> SUFFICES ASSUME NEW a \in Objs, Sits(a), dent[a].at = View(a).at PROVE dent'[a] = dent[a]
      OBVIOUS
    <2>1. PICK i \in Nat : Counts(Under[a], i) /\ View(a).at[1] = At(Under[a], i)
      BY DEF Sits
    <2>2. View(a).at[1] \in Clusters
      BY SlotsAre DEF Sits
    <2>3. Under[a] # q /\ Under[a] \in Objects
      BY <1>3, UnderIs, ObjectSet
    <2>4. i \in Place(Under[a])
      BY <1>0, <2>1, <2>3, CountsPlace
    <2> QED
      BY <1>6, <1>8, <2>1, <2>2, <2>3, <2>4
  <1>10. ViewSame(ROOT) /\ \A a \in Objs : Sits(a) => ViewSame(a)
    <2>1. ViewSame(ROOT)
      BY <1>7, ViewIs, ViewSameBy, ObjectSet DEF NodesAlike
    <2>2. ASSUME NEW a \in Objs, Sits(a) PROVE ViewSame(a)
      <3>1. CASE Under[a] \in cached
        <4>1. View(a) = node[a] /\ View(a)' = node'[a] /\ a \in Objects
          BY <1>1, <3>1, ViewIs, ObjectSet
        <4> QED
          BY <1>7, <4>1, ViewSameBy DEF NodesAlike
      <3>2. CASE Under[a] \notin cached
        <4>1. View(a).at # NoSlot
          BY <2>2, SlotsAre DEF Sits
        <4>2. dent[a].k = "ok" /\ View(a) = NodeOf(dent[a])
          BY <3>2, <4>1, ViewIs, Blank
        <4>3. dent[a].at = View(a).at
          BY <4>2 DEF NodeOf
        <4>4. dent'[a] = dent[a]
          BY <1>9, <2>2, <4>3
        <4>5. View(a)' = View(a)
          BY <1>1, <3>2, <4>4, ViewIs
        <4> QED
          BY <4>5, ViewSameBy
      <3> QED
        BY <3>1, <3>2
    <2> QED
      BY <2>1, <2>2
  <1>11. CountsOn
    BY <1>0, <1>1, CountsGo DEF Cutting
  <1>12. \A a \in Objs : Present(a)' => Present(a)
    BY <1>7, ObjectSet DEF Present, NodesAlike
  <1>13. \A o \in Files : Known(o) => o # q
    BY <1>1, <1>2, AnyCall DEF Known, Script, Course, Writing, Wanted
  <1>14. \A c \in Clusters : c \notin Filled(q, m) => data'[c] = data[c]
    BY <1>2 DEF Writes
  <1>15. \A o \in Files : Known(o) => \A i \in 0 .. View(o).size - 1 :
            At(o, i) \in Clusters => data'[At(o, i)] = data[At(o, i)]
    <2> SUFFICES ASSUME NEW o \in Files, Known(o), NEW i \in 0 .. View(o).size - 1, At(o, i) \in Clusters
                 PROVE  data'[At(o, i)] = data[At(o, i)]
      OBVIOUS
    <2>1. i \in Place(o) /\ o # q /\ o \in Objects
      BY <1>1, <1>13, ObjectSet DEF Place, Length
    <2> QED
      BY <1>6, <1>14, <2>1
  <1>16. Seated' /\ KeptFiles'
    BY <1>0, <1>1, <1>10, <1>11, <1>12, <1>15, CalmStore DEF Store, Known
  <1>17. ASSUME NEW a, Hollow(a) PROVE Hollow(a)'
    <2>1. a \in Objects
      BY <1>17, ObjectSet DEF Hollow
    <2>2. \A c \in Objs : node'[c].at = node[c].at
      BY <1>7, ObjectSet DEF NodesAlike
    <2>3. ChainOf(node[a])' = ChainOf(node[a])
      BY <1>1, <1>7, <2>1, ChainSame DEF NodesAlike
    <2>4. \A c \in Objs : dent'[c].k = "none" \/ dent'[c] = dent[c]
      BY <1>8, Blank
    <2> QED
      BY <1>0, <1>1, <1>17, <2>2, <2>3, <2>4, HollowStays
  <1>18. Synced'
    <2> SUFFICES ASSUME NEW a \in Objs, Present(a)' PROVE node'[a].dirty = TRUE \/ Match(a)' \/ Hollow(a)'
      BY DEF Synced
    <2>1. Present(a)
      BY <1>12
    <2>2. ASSUME Match(a) PROVE Match(a)'
      <3>1. Sits(a) /\ View(a) = node[a]
        BY <1>0, <2>1, PresentUnder DEF Store, Seated
      <3>2. dent'[a] = dent[a]
        BY <1>9, <2>2, <3>1 DEF Match
      <3> QED
        BY <1>7, <2>2, <3>2, ObjectSet DEF Match, NodesAlike
    <2> QED
      BY <1>7, <1>17, <2>1, <2>2 DEF Store, Synced
  <1>19. Wrote'
    <2> SUFFICES ASSUME written' = TRUE PROVE Holds(obj, calls, size)'
      BY DEF Wrote
    <2>1. PICK c : c = calls
      OBVIOUS
    <2>2. m = z /\ \A i \in 0 .. z - 1 : At(q, i) \in Clusters
      BY <1>2 DEF Writes
    <2>3. ViewSame(q)
      <3>1. View(q)' = node'[q]
        BY <1>1, <1>3, ViewIs
      <3> QED
        BY <1>2, <1>3, <1>7, <3>1, ViewSameBy DEF NodesAlike
    <2>4. View(q)'.size = z /\ \A i : At(q, i)' = At(q, i)
      BY <1>1, <1>2, <1>4, <2>3, ViewSameIs, CalmAt
    <2>5. \A i \in 0 .. z - 1 : data'[At(q, i)] = <<c, i>>
      <3> SUFFICES ASSUME NEW i \in 0 .. z - 1 PROVE data'[At(q, i)] = <<c, i>>
        OBVIOUS
      <3>1. At(q, i) \in Clusters /\ At(q, i) \in Filled(q, m)
        BY <2>2 DEF Filled
      <3>2. \A j \in 0 .. m - 1 : At(q, j) = At(q, i) => j = i
        BY <1>0, <1>3, <1>5, <2>2, <3>1 DEF Apart
      <3>3. PICK j \in 0 .. m - 1 : At(q, j) = At(q, i) /\ data'[At(q, i)] = <<c, j>>
        BY <1>2, <2>1, <2>2, <3>1 DEF Writes
      <3> QED
        BY <3>2, <3>3
    <2>6. q = obj' /\ c = calls' /\ z = size'
      BY <1>1, <1>2, <2>1
    <2> HIDE DEF View, At
    <2>7. Holds(q, c, z)'
      BY <2>2, <2>4, <2>5 DEF Holds
    <2> QED
      BY <2>6, <2>7
  <1>20. ~NewDir' /\ Dropped' /\ Room'
    BY <1>1 DEF NewDir, FlushAt, Dropped, Room
  <1>21. ASSUME EntrySlots PROVE EntrySlots'
    <2>1. NoDent.at = NoSlot
      BY DEF NoDent, EmptyEntry
    <2> QED
      BY <1>8, <1>21, <2>1 DEF EntrySlots, Slots
  <1> QED
    BY <1>16, <1>18, <1>19, <1>20, <1>21 DEF Store, Fresh

(* There is a first place among some.                                       *)
LEMMA FirstPlace ==
    ASSUME NEW m, NEW k, NEW P, P \subseteq (0 .. m) \X (1 .. k), P # {}
    PROVE  \E q \in P : \A r \in P : Before(q, r)
  <1> DEFINE A == {p[1] : p \in P}
  <1>1. A \subseteq Nat /\ A # {}
    <2>1. \A p \in P : p[1] \in Nat
      OBVIOUS
    <2> QED
      BY <2>1
  <1>2. PICK a : a \in A /\ \A x \in A : a <= x
    BY <1>1, LowestIn
  <1> DEFINE B == {p[2] : p \in {r \in P : r[1] = a}}
  <1>3. B \subseteq Nat /\ B # {}
    <2>1. \A p \in P : p[2] \in Nat
      OBVIOUS
    <2> QED
      BY <1>2, <2>1
  <1>4. PICK b : b \in B /\ \A x \in B : b <= x
    BY <1>3, LowestIn
  <1>5. PICK q \in P : q[1] = a /\ q[2] = b
    BY <1>4
  <1>6. ASSUME NEW r \in P PROVE Before(q, r)
    <2>1. a <= r[1] /\ a \in Nat /\ r[1] \in Nat
      BY <1>1, <1>2
    <2>2. r[1] = a => b <= r[2]
      BY <1>4
    <2> QED
      BY <1>5, <2>1, <2>2 DEF Before
  <1> QED
    BY <1>6

(* The slot that create takes is in the directory and free.                 *)
LEMMA SlotInIs ==
    ASSUME NEW d, Places(d) # {}, node[d].size \in Nat
    PROVE  \E i \in 0 .. node[d].size - 1, s \in 1 .. PerCluster :
             SlotIn(d) = <<Nth(node[d], i), s>> /\ SlotIn(d) \notin Taken(d)
  <1> DEFINE P == Places(d)
             q == CHOOSE p \in P : \A r \in P : Before(p, r)
             m == node[d].size - 1
  <1>1. P \subseteq (0 .. m) \X (1 .. PerCluster)
    BY DEF Places, Offsets
  <1>2. \E p \in P : \A r \in P : Before(p, r)
    <2> HIDE DEF P, m
    <2>1. P # {}
      BY DEF P
    <2> QED
      BY <1>1, <2>1, FirstPlace
  <1>3. q \in P
    <2> HIDE DEF P
    <2> QED
      BY <1>2, Zenon
  <1>4. SlotIn(d) = SlotAt(d, q)
    BY DEF SlotIn
  <1> HIDE DEF q
  <1>5. SlotAt(d, q) \notin Taken(d) /\ q[1] \in 0 .. node[d].size - 1 /\ q[2] \in 1 .. PerCluster
    BY <1>3 DEF Places, Offsets
  <1>6. SlotAt(d, q) = <<Nth(node[d], q[1]), q[2]>>
    BY DEF SlotAt
  <1> QED
    BY <1>4, <1>5, <1>6

(* What is in the slot is overwritten.                                      *)
LEMMA InSlotIs ==
    ASSUME NEW at, NEW o \in Objs, NEW e, dent' = InSlot(at, o, e)
    PROVE  dent'[o] = e /\ \A p \in Objs : p # o => dent'[p] = IF dent[p].at = at THEN NoDent ELSE dent[p]
  BY DEF InSlot

(* CommitEntry wrote the entry e of q into the slot at of the directory d. *)
Commits(q, d, at, e) ==
    /\ q = obj /\ d = Under[q] /\ at \in Slots /\ at \notin Taken(d)
    /\ \E i \in Nat : i < node[d].size /\ At(d, i) = at[1]
    /\ e.at = at
    /\ dent'[q] = e /\ \A p \in Objs : p # q => dent'[p] = IF dent[p].at = at THEN NoDent ELSE dent[p]
    /\ \/ node' = node
       \/ /\ e.k = "ok" /\ e.size = 0
          /\ node'[q].at = at /\ node'[q].size = 0
          /\ node'[d].dirty = TRUE /\ node'[d].at = node[d].at /\ node'[d].start = node[d].start
          /\ node'[d].size = node[d].size /\ node'[d].contig = node[d].contig
          /\ \A p \in Objects : p # q /\ p # d => node'[p] = node[p]

(* It does that or fails.                                                   *)
LEMMA CommitIs ==
    ASSUME Basic, CommitEntry, Places(Under[obj]) # {}
    PROVE  \/ UNCHANGED <<dent, node>> /\ pc' = "fail"
           \/ (\E q, d, at, e : Commits(q, d, at, e))
              /\ (pc' = "fail" \/ (pc' = "flush" /\ f'.k = "created" /\ f'.kf = "fail"))
  <1> DEFINE a == SlotIn(Under[obj])
             e1 == EmptyEntry("ok", a)
             e2 == Torn(a)
  <1>1. \/ /\ Valid(a[1]) /\ dent' = InSlot(a, obj, e1) /\ Flushing(Under[obj], "created", "fail")
           /\ node' = [node EXCEPT ![obj] = NodeOf(e1), ![Under[obj]].dirty = TRUE]
        \/ Valid(a[1]) /\ dent' = InSlot(a, obj, e1) /\ UNCHANGED node /\ Goto("fail")
        \/ Valid(a[1]) /\ dent' = InSlot(a, obj, e2) /\ UNCHANGED node /\ Goto("fail")
        \/ UNCHANGED <<dent, node>> /\ Goto("fail")
    BY DEF CommitEntry
  <1>2. pc = "commit" /\ pc \in InDir /\ UNCHANGED <<g_initialized, cmap, cmap_dirty, cached, heap>>
    BY DEF CommitEntry, InDir
  <1>3. /\ obj \in Objs /\ obj \in Objects /\ Under[obj] \in Objects /\ Under[obj] \in cached
        /\ (Under[obj] = ROOT \/ Under[Under[obj]] \in cached) /\ IsNode(node[Under[obj]])
    BY <1>2, BusyFacts
  <1>4. PICK i \in 0 .. node[Under[obj]].size - 1, s \in 1 .. PerCluster :
          a = <<Nth(node[Under[obj]], i), s>> /\ a \notin Taken(Under[obj])
    BY <1>3, SlotInIs DEF IsNode
  <1>5. /\ IsDent(e1) /\ e1.at = a /\ e1.k = "ok" /\ e1.size = 0
        /\ IsDent(e2) /\ e2.at = a
    BY EmptyEntries DEF Torn
  <1>6. IsNode(NodeOf(e1)) /\ NodeOf(e1).at = a /\ NodeOf(e1).size = 0
    BY <1>5, NodeOfDent
  <1> HIDE DEF a, e1, e2
  <1>7. PICK q, d, at, x, y, n : q = obj /\ d = Under[obj] /\ at = a /\ x = e1 /\ y = e2 /\ n = NodeOf(e1)
    OBVIOUS
  <1>8. i \in Nat /\ i < node[d].size /\ At(d, i) = at[1] /\ at = <<At(d, i), s>>
    <2>1. View(d) = node[d]
      BY <1>3, <1>7, ViewIs, UnderIs
    <2>2. node[d].size \in Nat
      BY <1>3, <1>7 DEF IsNode
    <2> QED
      BY <1>4, <1>7, <2>1, <2>2 DEF At
  <1>9. Valid(a[1]) => at \in Slots
    <2>1. Valid(a[1]) => At(d, i) \in Clusters
      BY <1>7, <1>8 DEF Valid
    <2> QED
      BY <1>8, <2>1 DEF Slots
  <1>10. at \notin Taken(d)
    BY <1>4, <1>7
  <1>11. CASE UNCHANGED <<dent, node>> /\ Goto("fail")
    BY <1>11 DEF Goto
  <1>12. ASSUME NEW e, e.at = at, dent' = InSlot(at, q, e), at \in Slots, node' = node PROVE Commits(q, d, at, e)
    BY <1>3, <1>7, <1>8, <1>10, <1>12, InSlotIs DEF Commits
  <1>13. CASE Valid(a[1]) /\ (dent' = InSlot(a, obj, e1) \/ dent' = InSlot(a, obj, e2)) /\ UNCHANGED node /\ Goto("fail")
    <2>1. dent' = InSlot(at, q, x) \/ dent' = InSlot(at, q, y)
      BY <1>7, <1>13
    <2>2. at \in Slots /\ x.at = at /\ y.at = at /\ node' = node /\ pc' = "fail"
      BY <1>5, <1>7, <1>9, <1>13 DEF Goto
    <2>3. Commits(q, d, at, x) \/ Commits(q, d, at, y)
      BY <1>12, <2>1, <2>2
    <2> QED
      BY <2>2, <2>3
  <1>14. CASE /\ Valid(a[1]) /\ dent' = InSlot(a, obj, e1) /\ Flushing(Under[obj], "created", "fail")
              /\ node' = [node EXCEPT ![obj] = NodeOf(e1), ![Under[obj]].dirty = TRUE]
    <2>1. node' = [node EXCEPT ![obj] = n, ![Under[obj]].dirty = TRUE] /\ IsNode(n) /\ n.at = at /\ n.size = 0
      BY <1>6, <1>7, <1>14
    <2>2. /\ node'[obj] = n
          /\ LET c == Under[obj] IN
               /\ c # obj /\ node'[c].at = node[c].at /\ node'[c].start = node[c].start
               /\ node'[c].size = node[c].size /\ node'[c].contig = node[c].contig
          /\ \A p \in Objects : p # obj /\ p # Under[obj] => node'[p] = node[p]
      BY <1>2, <2>1, WorkedIn
    <2>3. node'[Under[obj]].dirty = TRUE
      BY <1>2, <2>1, WorkedDirty
    <2>4. dent'[q] = x /\ \A p \in Objs : p # q => dent'[p] = IF dent[p].at = at THEN NoDent ELSE dent[p]
      BY <1>3, <1>7, <1>14, InSlotIs
    <2>5. at \in Slots /\ x.at = at /\ x.k = "ok" /\ x.size = 0
      BY <1>5, <1>7, <1>9, <1>14
    <2>6. /\ node'[q].at = at /\ node'[q].size = 0
          /\ node'[d].dirty = TRUE /\ node'[d].at = node[d].at /\ node'[d].start = node[d].start
          /\ node'[d].size = node[d].size /\ node'[d].contig = node[d].contig
          /\ \A p \in Objects : p # q /\ p # d => node'[p] = node[p]
      BY <1>7, <2>1, <2>2, <2>3
    <2>7. Commits(q, d, at, x)
      BY <1>7, <1>8, <1>10, <2>4, <2>5, <2>6 DEF Commits
    <2>8. pc' = "flush" /\ f'.k = "created" /\ f'.kf = "fail"
      BY <1>14 DEF Flushing
    <2> QED
      BY <2>7, <2>8
  <1> QED
    BY <1>1, <1>11, <1>13, <1>14

(* commit_entry keeps what is stored: nothing that sits has its entry in    *)
(* that slot.                                                               *)
LEMMA StoreCommit ==
    ASSUME IInv, IInv', Script, Store, sound, g_initialized, CommitEntry
    PROVE  Store' /\ (EntrySlots => EntrySlots')
  <1>0. Basic /\ Basic' /\ Apart
    BY DEF IInv, Space
  <1>1. /\ pc = "commit" /\ pc \in InDir /\ UNCHANGED <<fat, data, cached, want, obj, size, written, calls>>
    BY DEF CommitEntry, InDir, seen, Flushing, Goto, call
  <1>2. \/ UNCHANGED <<dent, node>> /\ pc' = "fail"
        \/ (\E q, d, at, e : Commits(q, d, at, e))
           /\ (pc' = "fail" \/ (pc' = "flush" /\ f'.k = "created" /\ f'.kf = "fail"))
    BY <1>0, <1>1, CommitIs DEF Store, Room
  <1>3. written # TRUE
    BY <1>1, NotWritten DEF FlushAt
  <1>4. CountsOn /\ ~NewDir' /\ Dropped' /\ Room' /\ Wrote' /\ pc' \notin Cutting
    <2>1. pc' \in {"fail", "flush"}
      BY <1>2
    <2>2. ~NewDir'
      BY <1>2 DEF NewDir, FlushAt
    <2>3. CountsOn
      BY <1>0, <2>1, CountsGo DEF Cutting
    <2> QED
      BY <1>1, <1>3, <2>1, <2>2, <2>3 DEF Dropped, Room, Wrote, Cutting
  <1>5. CASE UNCHANGED <<dent, node>>
    <2>1. Quietly
      BY <1>1, <1>5 DEF Quietly
    <2>2. Store'
      BY <1>0, <1>1, <1>3, <1>4, <2>1, StoreQuietly
    <2> QED
      BY <1>5, <2>2 DEF EntrySlots, Slots
  <1>6. ASSUME NEW q, NEW d, NEW at, NEW e, Commits(q, d, at, e) PROVE Store' /\ (EntrySlots => EntrySlots')
    <2>1. /\ q \in Objs /\ q \in Objects /\ d = Under[q] /\ d \in cached /\ d \in Objects
          /\ (d = ROOT \/ (d \in Objs /\ Under[d] \in cached)) /\ q \notin cached /\ q # d
      BY <1>0, <1>1, <1>6, BusyFacts, UnderIs DEF Commits, Placed
    <2>2. node[q].at = NoSlot
      BY <1>1, <1>6, <2>1 DEF Commits, Script, Object, Unborn, Present
    <2>3. PICK j \in Nat : j < node[d].size /\ At(d, j) = at[1]
      BY <1>6 DEF Commits
    <2>4. at \in Slots /\ at[1] \in Clusters /\ at \notin Taken(d) /\ at # NoSlot
      BY <1>6, SlotsAre DEF Commits
    <2>5. View(d) = node[d] /\ View(q) = node[q] /\ View(d)' = node'[d] /\ View(q)' = node'[q]
      BY <1>1, <2>1, ViewIs
    <2>6. Counts(d, j) /\ j \in Place(d)
      <3>1. Counts(d, j)
        BY <1>1, <2>3, <2>5 DEF Counts, Cutting
      <3> QED
        BY <1>0, <2>1, <3>1, CountsPlace
    <2>7. \A a \in Objs : Sits(a) => a # q
      BY <2>2, <2>5, SlotsAre DEF Sits
    <2>8. \A a \in Objs : Sits(a) /\ dent[a].at = View(a).at => dent'[a] = dent[a]
      <3> SUFFICES ASSUME NEW a \in Objs, Sits(a), dent[a].at = View(a).at PROVE dent'[a] = dent[a]
        OBVIOUS
      <3>1. a # q
        BY <2>7
      <3>2. PICK i \in Nat : Counts(Under[a], i) /\ View(a).at[1] = At(Under[a], i)
        BY DEF Sits
      <3>3. dent[a].at # at
        <4> SUFFICES ASSUME dent[a].at = at PROVE FALSE
          OBVIOUS
        <4>1. At(Under[a], i) = At(d, j) /\ At(d, j) \in Clusters
          BY <2>3, <2>4, <3>2
        <4>2. Under[a] = d
          BY <1>0, <2>1, <2>6, <3>2, <4>1, Distinct, ObjectSet
        <4>3. View(a) = node[a]
          BY <2>1, <4>2, ViewIs
        <4>4. at \in Taken(d)
          BY <4>2, <4>3 DEF Taken, Child
        <4> QED
          BY <2>4, <4>4
      <3> QED
        BY <1>6, <3>1, <3>3 DEF Commits
    <2>9. \A p \in Objects : p # q => /\ node'[p].at = node[p].at /\ node'[p].start = node[p].start
                                      /\ node'[p].size = node[p].size /\ node'[p].contig = node[p].contig
      BY <1>6 DEF Commits
    <2>10. ViewSame(ROOT) /\ \A a \in Objs : Sits(a) => ViewSame(a)
      <3>1. ViewSame(ROOT)
        BY <2>1, <2>9, ViewIs, ViewSameBy, ObjectSet
      <3>2. ASSUME NEW a \in Objs, Sits(a) PROVE ViewSame(a)
        <4>0. a # q /\ a \in Objects
          BY <2>7, <3>2, ObjectSet
        <4>1. CASE Under[a] \in cached
          <5>1. View(a) = node[a] /\ View(a)' = node'[a]
            BY <1>1, <4>1, ViewIs
          <5> QED
            BY <2>9, <4>0, <5>1, ViewSameBy
        <4>2. CASE Under[a] \notin cached
          <5>1. View(a).at # NoSlot
            BY <3>2, SlotsAre DEF Sits
          <5>2. dent[a].k = "ok" /\ View(a) = NodeOf(dent[a])
            BY <4>2, <5>1, ViewIs, Blank
          <5>3. dent[a].at = View(a).at
            BY <5>2 DEF NodeOf
          <5>4. dent'[a] = dent[a]
            BY <2>8, <3>2, <5>3
          <5>5. View(a)' = View(a)
            BY <1>1, <4>2, <5>4, ViewIs
          <5> QED
            BY <5>5, ViewSameBy
        <4> QED
          BY <4>1, <4>2
      <3> QED
        BY <3>1, <3>2
    <2>11. \A a \in Objs : Present(a)' => Present(a) \/ Sits(a)'
      <3> SUFFICES ASSUME NEW a \in Objs, Present(a)', ~Present(a) PROVE Sits(a)'
        OBVIOUS
      <3>1. a = q /\ node' # node
        BY <2>9, ObjectSet DEF Present
      <3>2. node'[q].at = at
        BY <1>6, <3>1 DEF Commits
      <3>3. View(d)'.size = View(d).size
        BY <2>1, <2>5, <2>9
      <3>4. Counts(d, j)'
        BY <1>4, <2>3, <2>5, <3>3 DEF Counts
      <3>5. At(d, j)' = At(d, j)
        <4>1. ViewSame(d)
          BY <2>1, <2>5, <2>9, ViewSameBy
        <4> QED
          BY <1>1, <4>1, CalmAt
      <3>6. View(q)'.at = at /\ Under[q] = d
        BY <2>1, <2>5, <3>2
      <3>7. View(q)'.at \in Slots
        BY <2>4, <3>6
      <3> HIDE DEF Slots, Counts, At, View
      <3>8. Sits(q)'
        BY <2>3, <3>4, <3>5, <3>6, <3>7 DEF Sits, Slots
      <3> QED
        BY <3>1, <3>8
    <2>12. Seated' /\ KeptFiles'
      BY <1>0, <1>1, <1>4, <2>10, <2>11, CalmStore DEF Store, Known
    <2>13. Synced'
      <3> SUFFICES ASSUME NEW a \in Objs, Present(a)' PROVE node'[a].dirty = TRUE \/ Match(a)' \/ Hollow(a)'
        BY DEF Synced
      <3>1. CASE a = q
        <4>1. node'[q].at # NoSlot
          BY <3>1, ObjectSet DEF Present
        <4>2. node' # node
          BY <2>2, <4>1
        <4>3. dent'[q] = e /\ e.k = "ok" /\ e.at = at /\ e.size = 0 /\ node'[q].at = at /\ node'[q].size = 0
          BY <1>6, <4>2 DEF Commits
        <4> QED
          BY <3>1, <4>3 DEF Match
      <3>2. CASE a = d /\ node' # node
        BY <1>6, <3>2 DEF Commits
      <3>3. CASE a # q /\ (a # d \/ node' = node)
        <4>1. node'[a] = node[a] /\ Present(a) /\ a \in Objects
          BY <1>6, <3>3, ObjectSet DEF Commits, Present
        <4>2. ASSUME Match(a) PROVE Match(a)'
          <5>1. Sits(a) /\ View(a) = node[a]
            BY <1>0, <4>1, PresentUnder DEF Store, Seated
          <5>2. dent'[a] = dent[a]
            BY <2>8, <4>2, <5>1 DEF Match
          <5> QED
            BY <4>1, <4>2, <5>2 DEF Match
        <4>3. ASSUME Hollow(a) PROVE Hollow(a)'
          <5>1. \A c \in Objs : Under[c] = a => node'[c].at = node[c].at
            <6> SUFFICES ASSUME NEW c \in Objs, Under[c] = a PROVE node'[c].at = node[c].at
              OBVIOUS
            <6>1. c # q \/ node' = node
              BY <2>1, <3>3
            <6> QED
              BY <2>9, <6>1, ObjectSet
          <5>2. ChainOf(node[a])' = ChainOf(node[a])
            BY <1>1, <4>1, ChainSame
          <5>3. a \notin cached => \A c \in Objs : Under[c] = a => dent'[c].k = "none" \/ dent'[c] = dent[c]
            <6> SUFFICES ASSUME a \notin cached, NEW c \in Objs, Under[c] = a
                         PROVE  dent'[c].k = "none" \/ dent'[c] = dent[c]
              OBVIOUS
            <6>1. c # q
              BY <2>1
            <6> QED
              BY <1>6, <6>1, Blank DEF Commits
          <5> QED
            BY <1>0, <1>1, <4>3, <5>1, <5>2, <5>3, HollowStays
        <4> QED
          BY <4>1, <4>2, <4>3 DEF Store, Synced
      <3> QED
        BY <3>1, <3>2, <3>3
    <2>14. ASSUME EntrySlots PROVE EntrySlots'
      <3>1. NoDent.at = NoSlot
        BY DEF NoDent, EmptyEntry
      <3>2. \A p \in Objs : dent'[p].at \in {dent[p].at, NoSlot, at}
        BY <1>6, <3>1 DEF Commits
      <3> QED
        BY <2>4, <2>14, <3>2 DEF EntrySlots, Slots
    <2> QED
      BY <1>4, <2>12, <2>13, <2>14 DEF Store, Fresh
  <1> QED
    BY <1>2, <1>5, <1>6

(* Nothing sits in an empty directory.                                      *)
LEMMA HollowNone ==
    ASSUME Basic, NEW q \in Objs, Hollow(q), Under[q] \in cached, NEW a \in Objs, Under[a] = q
    PROVE  ~Sits(a)
  <1> SUFFICES ASSUME Sits(a) PROVE FALSE
    OBVIOUS
  <1>1. View(a).at # NoSlot
    BY SlotsAre DEF Sits
  <1>2. HollowUnder(q, a)
    BY HollowIs
  <1>3. CASE q \in cached
    BY <1>1, <1>2, <1>3, ViewIs DEF HollowUnder, Present
  <1>4. CASE q \notin cached
    <2>1. dent[a].k = "ok" /\ View(a) = NodeOf(dent[a])
      BY <1>1, <1>4, ViewIs, Blank
    <2>2. dent[a].at = View(a).at
      BY <2>1 DEF NodeOf
    <2>3. PICK i \in Nat : Counts(q, i) /\ View(a).at[1] = At(q, i)
      BY DEF Sits
    <2>4. i \in 0 .. node[q].size - 1
      <3>1. View(q) = node[q] /\ node[q].size \in Nat
        BY ViewIs, ObjectSet DEF Basic, Typed, MemoryTyped, NodesTyped, IsNode
      <3> QED
        BY <2>3, <3>1 DEF Counts
    <2>5. At(q, i) \in ChainOf(node[q])
      BY <2>4, ChainIs
    <2>6. a \in EntriesIn(node[q])
      BY <2>1, <2>2, <2>3, <2>5 DEF EntriesIn
    <2> QED
      BY <1>2, <1>4, <2>6 DEF HollowUnder
  <1> QED
    BY <1>3, <1>4

(* A node is marked dirty, or not.                                          *)
LEMMA MarkIs ==
    ASSUME NEW n, IsNode(n), NEW b PROVE [n EXCEPT !.dirty = b].dirty = b
  <1>1. PICK m : m = [n EXCEPT !.dirty = b]
    OBVIOUS
  <1>2. m = [at |-> n.at, start |-> n.start, size |-> n.size, contig |-> n.contig, dirty |-> b]
    BY <1>1 DEF IsNode
  <1>3. m.dirty = b
    BY <1>2
  <1> QED
    BY <1>1, <1>3

(* which is all that happens to the directory of the object.                *)
LEMMA WorkedMark ==
    ASSUME Basic, pc \in InDir, NEW n, NEW b, node' = [node EXCEPT ![obj] = n, ![Under[obj]].dirty = b]
    PROVE  node'[Under[obj]].dirty = b
  <1> DEFINE d == Under[obj]
             m == [node[d] EXCEPT !.dirty = b]
  <1>1. obj \in Objects /\ d \in Objects /\ d # obj /\ IsNode(node[d])
    BY BusyFacts DEF Placed
  <1>2. m.dirty = b
    BY <1>1, MarkIs
  <1>3. node = [o \in Objects |-> node[o]]
    BY DEF Basic, Typed, MemoryTyped, NodesTyped
  <1>4. node'[d] = m
    BY <1>1, <1>3
  <1> QED
    BY <1>2, <1>4

(* What tree_detach and shrink_directory do: q leaves directory d, which is *)
(* cut to m if nothing in it is behind that.                                *)
Detaches(q, d, m) ==
    /\ q = obj /\ d = Under[q] /\ cached' = cached
    /\ node'[q].at = NoSlot
    /\ node'[d].dirty = TRUE \/ node'[d].dirty = node[d].dirty
    /\ node'[d].at = node[d].at /\ node'[d].start = node[d].start
    /\ node'[d].size = node[d].size /\ node'[d].contig = node[d].contig
    /\ \A p \in Objects : p # q /\ p # d => node'[p] = node[p]
    /\ \/ pc' = "delflush"
       \/ /\ pc' = "truncate" /\ t'.o = d /\ t'.to = m
          /\ \A a \in Objs : \A i \in 0 .. node[d].size - 1 :
                a # q /\ Under[a] = d /\ node[a].at \in Slots /\ node[a].at[1] = At(d, i) => i < m

(* The new size is past the last entry that stays.                          *)
LEMMA DetachIs ==
    ASSUME Basic, Detach
    PROVE  \E q, d, m : Detaches(q, d, m)
  <1>1. PICK q, d : q = obj /\ d = Under[q]
    OBVIOUS
  <1> DEFINE rest == {o \in Objs \ {q} : Child(o, d) /\ Present(o)}
             O == OffsetsOf(d, rest)
             S == {1} \union {p[1] + 1 : p \in O}
  <1>2. PICK m : m = Highest(S)
    OBVIOUS
  <1>3. /\ pc = "detach" /\ UNCHANGED <<g_initialized, cmap, cmap_dirty, heap>>
        /\ cached' = cached \ {obj}
        /\ Truncating(d, m, "delflush", "delflush") \/ Goto("delflush")
    BY <1>1, <1>2 DEF Detach
  <1>3a. PICK b \in BOOLEAN : /\ node' = [node EXCEPT ![obj] = NoNode, ![Under[obj]].dirty = b]
                              /\ b = TRUE \/ b = node[Under[obj]].dirty
    BY DetachNode
  <1>4. pc \in InDir
    BY <1>3 DEF InDir
  <1>5. obj \notin cached /\ Under[obj] \in cached /\ IsNode(node[d]) /\ d \in Objects /\ (d = ROOT \/ Under[d] \in cached)
    BY <1>1, <1>4, BusyFacts DEF Placed
  <1>6. cached' = cached
    BY <1>3, <1>5
  <1>7. /\ node'[q] = NoNode /\ node'[d].at = node[d].at /\ node'[d].start = node[d].start
        /\ node'[d].size = node[d].size /\ node'[d].contig = node[d].contig
        /\ \A p \in Objects : p # q /\ p # d => node'[p] = node[p]
    BY <1>1, <1>3, <1>3a, <1>4, <1>6, WorkedAs, Blank
  <1>8. node'[d].dirty = TRUE \/ node'[d].dirty = node[d].dirty
    BY <1>1, <1>3a, <1>4, WorkedMark
  <1>9. ASSUME NEW a \in Objs, NEW i \in 0 .. node[d].size - 1, a # q, Under[a] = d, node[a].at \in Slots,
               node[a].at[1] = At(d, i)
        PROVE  i < m
    <2>0. node[d].size \in Nat
      BY <1>5 DEF IsNode
    <2>1. PICK s : s = node[a].at[2]
      OBVIOUS
    <2>2. s \in 1 .. PerCluster /\ node[a].at = <<At(d, i), s>> /\ node[a].at # NoSlot
      BY <1>9, <2>1, SlotsAre
    <2>3. At(d, i) = Nth(node[d], i)
      <3>1. View(d) = node[d]
        BY <1>5, ViewIs, ObjectSet
      <3> QED
        BY <3>1 DEF At
    <2>4. a \in rest
      BY <1>9, <2>2 DEF Child, Present
    <2>5. PICK p : p = <<i, s>>
      OBVIOUS
    <2>6. p \in Offsets(d) /\ SlotAt(d, p) = node[a].at /\ p[1] = i
      BY <2>2, <2>3, <2>5 DEF Offsets, SlotAt
    <2>7. p \in O
      BY <2>4, <2>6 DEF OffsetsOf
    <2>8. i + 1 \in S
      BY <2>6, <2>7
    <2>9. S \subseteq 0 .. (node[d].size + 1) /\ S # {}
      <3>1. \A r \in O : r[1] \in 0 .. node[d].size - 1
        BY DEF OffsetsOf, Offsets
      <3>2. 1 \in 0 .. (node[d].size + 1)
        BY <2>0
      <3>3. ASSUME NEW r \in O PROVE r[1] + 1 \in 0 .. (node[d].size + 1)
        BY <2>0, <3>1
      <3> HIDE DEF O
      <3> QED
        BY <3>2, <3>3
    <2>10. PICK z \in Nat : z = node[d].size + 1
      BY <2>0
    <2> HIDE DEF S
    <2>11. m \in S /\ i + 1 <= m
      BY <1>2, <2>8, <2>9, <2>10, HighestIn
    <2>12. m \in Int
      BY <2>0, <2>9, <2>11
    <2> QED
      BY <2>11, <2>12
  <1>10. pc' = "delflush" \/ (pc' = "truncate" /\ t'.o = d /\ t'.to = m)
    BY <1>3 DEF Truncating, Goto, NoT
  <1>11. Detaches(q, d, m)
    BY <1>1, <1>6, <1>7, <1>8, <1>9, <1>10, Blank DEF Detaches
  <1> QED
    BY <1>11

(* Removing the node of a new directory keeps what is stored: nothing sits  *)
(* in it, and the cut takes no place from what stays.                       *)
LEMMA StoreDetach ==
    ASSUME IInv, IInv', Script, Store, Detach PROVE Store'
  <1>0. Basic /\ Basic'
    BY DEF IInv
  <1>1. PICK q, d, m : Detaches(q, d, m)
    BY <1>0, DetachIs
  <1>2. /\ pc = "detach" /\ pc \in InDir /\ UNCHANGED <<fat, data, dent, want, obj, size, written, calls>>
        /\ pc' \in {"truncate", "delflush"} /\ cached' = cached
    BY <1>1 DEF Detach, Detaches, InDir, seen, device, Truncating, Goto, call
  <1>3. /\ q \in Objs /\ q \in Objects /\ d = Under[q] /\ d \in cached /\ d \in Objects
        /\ (d = ROOT \/ (d \in Objs /\ Under[d] \in cached)) /\ q \notin cached /\ q # d
    BY <1>0, <1>1, <1>2, BusyFacts, UnderIs DEF Detaches, Placed
  <1>4. q \in Dirs /\ NewDir /\ Hollow(q)
    <2>1. q \in Dirs
      BY <1>1, <1>2 DEF Detaches, Script, Course, Making
    <2>2. NewDir
      BY <1>2 DEF NewDir
    <2> QED
      BY <1>1, <2>1, <2>2 DEF Store, Fresh, Detaches
  <1>5. \A a \in Objs : Sits(a) => Under[a] # q
    BY <1>0, <1>2, <1>3, <1>4, HollowNone DEF Cutting
  <1>6. \A p \in Objects : p # q => /\ node'[p].at = node[p].at /\ node'[p].start = node[p].start
                                    /\ node'[p].size = node[p].size /\ node'[p].contig = node[p].contig
    BY <1>1 DEF Detaches
  <1>7. \A o \in Objects : o # q => ViewSame(o)
    <2> SUFFICES ASSUME NEW o \in Objects, o # q PROVE ViewSame(o)
      OBVIOUS
    <2>1. CASE o = ROOT \/ Under[o] \in cached
      <3>1. View(o) = node[o] /\ View(o)' = node'[o]
        BY <1>2, <2>1, ViewIs, ObjectSet
      <3> QED
        BY <1>6, <3>1, ViewSameBy
    <2>2. CASE o # ROOT /\ Under[o] \notin cached
      <3>1. View(o)' = View(o)
        BY <1>2, <2>2, ViewIs, ObjectSet
      <3> QED
        BY <3>1, ViewSameBy
    <2> QED
      BY <2>1, <2>2
  <1>8. Lasts({q})
    <2> SUFFICES ASSUME NEW a \in Objs, Sits(a), a # q PROVE Sits(a)'
      BY DEF Lasts
    <2>0. PICK e : e = Under[a]
      OBVIOUS
    <2>1. e # q /\ e \in Objects /\ a \in Objects
      BY <1>5, <2>0, UnderIs, ObjectSet
    <2>2. ViewSame(a) /\ ViewSame(e)
      BY <1>7, <2>1
    <2>3. PICK i \in Nat : Counts(e, i) /\ View(a).at[1] = At(e, i)
      BY <2>0 DEF Sits
    <2>4. View(a)'.at = View(a).at /\ View(e)'.size = View(e).size /\ At(e, i)' = At(e, i)
      BY <1>2, <2>2, ViewSameIs, CalmAt
    <2>5. Counts(e, i)'
      <3>1. i < View(e).size
        BY <2>3 DEF Counts
      <3>2. CASE pc' \in Cutting /\ e = t'.o
        <4>1. pc' = "truncate" /\ e = d /\ t'.to = m
          BY <1>1, <3>2 DEF Detaches, Cutting
        <4>2. View(a) = node[a] /\ View(e) = node[d]
          BY <1>3, <2>0, <4>1, ViewIs
        <4>3. i \in 0 .. node[d].size - 1
          <5>1. node[d].size \in Nat
            BY <1>0, <1>3 DEF Basic, Typed, MemoryTyped, NodesTyped, IsNode
          <5> QED
            BY <3>1, <4>2, <5>1
        <4>4. node[a].at \in Slots /\ node[a].at[1] = At(d, i)
          BY <2>3, <4>1, <4>2 DEF Sits
        <4>5. i < m
          BY <1>1, <2>0, <4>1, <4>3, <4>4 DEF Detaches
        <4> QED
          BY <2>4, <3>1, <4>1, <4>5 DEF Counts
      <3>3. CASE ~(pc' \in Cutting /\ e = t'.o)
        BY <2>4, <3>1, <3>3 DEF Counts
      <3> QED
        BY <3>2, <3>3
    <2>6. View(a)'.at \in Slots
      BY <2>4 DEF Sits
    <2> HIDE DEF Slots, Counts, At, View
    <2> QED
      BY <2>0, <2>3, <2>4, <2>5, <2>6 DEF Sits, Slots
  <1>9. Seated'
    <2>1. \A a \in Objs : Present(a)' => Present(a) /\ a \notin {q}
      <3>1. ~Present(q)'
        BY <1>1, <1>3, ObjectSet DEF Detaches, Present
      <3> QED
        BY <1>6, <3>1, ObjectSet DEF Present
    <2> QED
      BY <1>0, <1>8, <2>1, SeatedLasts DEF Store
  <1>10. KeptFiles'
    <2> SUFFICES ASSUME NEW o \in Files, Known(o)'
                 PROVE  Rooted(o)' /\ Holds(o, want[o].call, want[o].size)'
      BY DEF KeptFiles
    <2>1. Known(o) /\ Rooted(o) /\ o # q /\ o \in Objects /\ o \in Objs
      BY <1>2, <1>4, ObjectSet DEF Store, KeptFiles, Known
    <2>2. ASSUME NEW S \in SUBSET Objs, \A s \in S : Sits(s) /\ (Under[s] = ROOT \/ Under[s] \in S), o \in S
          PROVE  \E R \in SUBSET S : o \in R /\ \A s \in R : s \notin {q} /\ (Under[s] = ROOT \/ Under[s] \in R)
      <3>1. PICK R : R = S \ {q}
        OBVIOUS
      <3>2. R \in SUBSET S /\ o \in R
        BY <2>1, <2>2, <3>1
      <3>3. \A s \in R : s \notin {q} /\ (Under[s] = ROOT \/ Under[s] \in R)
        BY <1>5, <2>2, <3>1
      <3> QED
        BY <3>2, <3>3
    <2>3. Rooted(o)'
      BY <1>8, <2>1, <2>2, RootedLasts
    <2>4. HeldBy(o)
      BY <1>2, <1>7, <2>1, CalmHeld
    <2>5. Kept1(o)
      BY <1>2, <2>1, <2>4 DEF Kept1
    <2> QED
      BY <2>3, <2>5, KeptStays DEF Store
  <1>11. Synced'
    <2> SUFFICES ASSUME NEW a \in Objs, Present(a)' PROVE node'[a].dirty = TRUE \/ Match(a)' \/ Hollow(a)'
      BY DEF Synced
    <2>1. a # q /\ a \in Objects /\ Present(a)
      BY <1>1, <1>3, <1>6, ObjectSet DEF Detaches, Present
    <2>2. CASE node'[a].dirty = TRUE
      BY <2>2
    <2>3. CASE node'[a].dirty # TRUE
      <3>1. node'[a] = node[a]
        <4>1. CASE a # d
          BY <1>1, <2>1, <4>1 DEF Detaches
        <4>2. CASE a = d
          <5>1. IsNode(node[a]) /\ IsNode(node'[a])
            BY <1>0, <2>1 DEF Basic, Typed, MemoryTyped, NodesTyped, Objects, Objs
          <5>2. node'[a].dirty = node[a].dirty
            BY <1>1, <2>3, <4>2 DEF Detaches
          <5>3. PICK x, y : x = node[a] /\ y = node'[a]
            OBVIOUS
          <5>4. /\ IsNode(x) /\ IsNode(y) /\ y.at = x.at /\ y.start = x.start /\ y.size = x.size
                /\ y.contig = x.contig /\ y.dirty = x.dirty
            BY <1>6, <2>1, <5>1, <5>2, <5>3
          <5>5. y = x
            BY <5>4 DEF IsNode
          <5> QED
            BY <5>3, <5>5
        <4> QED
          BY <4>1, <4>2
      <3>2. Match(a) => Match(a)'
        BY <1>2, <3>1 DEF Match
      <3>3. ASSUME Hollow(a) PROVE Hollow(a)'
        <4>1. \A c \in Objs : Under[c] = a => node'[c].at = node[c].at \/ node'[c].at = NoSlot
          BY <1>1, <1>6, ObjectSet DEF Detaches
        <4>2. ChainOf(node[a])' = ChainOf(node[a])
          BY <1>2, <3>1, ChainSame
        <4> QED
          <5>1. a \notin cached => \A c \in Objs : Under[c] = a =>
                   \/ dent'[c].k = "none" \/ dent'[c].at[1] \notin ChainOf(node[a])
                   \/ dent[c].k # "none" /\ dent'[c].at = dent[c].at
            BY <1>2
          <5> QED
            BY <1>0, <1>2, <3>3, <4>1, <4>2, <5>1, HollowStays
      <3> QED
        BY <2>1, <3>1, <3>2, <3>3 DEF Store, Synced
    <2> QED
      BY <2>2, <2>3
  <1>12. written # TRUE /\ ~NewDir'
    BY <1>2, NotWritten DEF FlushAt, NewDir
  <1> QED
    BY <1>2, <1>9, <1>10, <1>11, <1>12 DEF Store, Wrote, Dropped, Fresh, Room

-----------------------------------------------------------------------------
(* A directory is read.                                                     *)

(* Where the look-up goes on, and that it cuts no directory.                *)
LEMMA LookUpGoes ==
    ASSUME Basic, Basic', Script, LookUp
    PROVE  /\ pc = "lookup" /\ g_initialized
           /\ UNCHANGED <<fat, data, dent, want, calls>> /\ written' # TRUE /\ ~NewDir' /\ Dropped' /\ Room'
           /\ pc' \in Cutting => t'.o \in Files
  <1>1. pc = "lookup" /\ UNCHANGED <<fat, data, dent, want, calls>>
    BY DEF LookUp, device, seen
  <1>2. written # TRUE
    BY <1>1, NotWritten DEF FlushAt
  <1>3. LookedUp \/ Return
    BY LookUpIs
  <1>4. /\ written' # TRUE /\ pc' \in {"idle", "read", "slot", "next", "truncate"}
        /\ pc' = "truncate" => t'.o = obj /\ op = "write"
    BY <1>2, <1>3 DEF LookedUp, Return, Goto, Truncating, NoT, call
  <1>5. op = "write" => obj \in Files
    BY DEF Script, Course
  <1>6. pc' \in Cutting => t'.o \in Files
    BY <1>4, <1>5 DEF Cutting
  <1>7. g_initialized
    BY <1>1 DEF Basic, Control
  <1> QED
    BY <1>1, <1>4, <1>6, <1>7 DEF NewDir, FlushAt, Dropped, Room

(* Directory p is read.                                                     *)
ReadsIn(p) == /\ p \in Objs /\ p \in Dirs /\ p \notin cached /\ Under[p] \in cached /\ Present(p)
              /\ Readable(node[p]) /\ cached' = cached \union {p}
              /\ \A o \in Objects : o = ROOT \/ Under[o] # p => node'[o] = node[o]
              /\ \A o \in Objs : Under[o] = p =>
                    IF o \in EntriesIn(node[p]) THEN node'[o] = NodeOf(dent[o]) ELSE node'[o] = NoNode

(* A look-up changes the tree in no other way.                              *)
LEMMA LookUpReads ==
    ASSUME Basic, LookUp
    PROVE  UNCHANGED <<node, cached>> \/ \E p : ReadsIn(p)
  <1>1. CASE UNCHANGED <<node, cached>>
    BY <1>1
  <1>2. CASE FoundIn(Under[obj])
    <2>1. PICK p : p = Under[obj]
      OBVIOUS
    <2>2. pc = "lookup"
      BY DEF LookUp
    <2>3. g_initialized /\ obj \in Objs /\ ROOT \in cached
      BY <2>2 DEF Basic, Control, Tree
    <2>4. CASE p \in cached
      BY <1>2, <2>1, <2>4 DEF FoundIn
    <2>5. CASE p \notin cached
      <3>1. p \in Dirs /\ p \in Objs
        BY <2>1, <2>3, <2>5, UnderIs
      <3>2. Present(p) /\ Readable(node[p]) /\ cached' = cached \union {p} /\ node' = Loaded(node, p, node[p])
        BY <1>2, <2>1, <2>5 DEF FoundIn
      <3>3. Under[p] \in cached
        BY <3>1, <3>2, PresentUnder
      <3>4. \A o \in Objs \union {ROOT} :
               node'[o] = IF o # ROOT /\ o \in EntriesIn(node[p]) /\ Child(o, p) THEN NodeOf(dent[o]) ELSE node[o]
        <4>1. PICK e : e = EntriesIn(node[p])
          OBVIOUS
        <4> QED
          BY <3>2 DEF Loaded
      <3>5. \A o \in Objects : o = ROOT \/ Under[o] # p => node'[o] = node[o]
        BY <3>4 DEF Objects, Child
      <3>6. \A o \in Objs : Under[o] = p => node[o] = NoNode /\ o # ROOT
        BY <2>5, ObjectSet DEF Basic, Tree
      <3>7. \A o \in Objs : Under[o] = p =>
               IF o \in EntriesIn(node[p]) THEN node'[o] = NodeOf(dent[o]) ELSE node'[o] = NoNode
        BY <3>4, <3>6 DEF Child
      <3> QED
        BY <2>5, <3>1, <3>2, <3>3, <3>5, <3>7 DEF ReadsIn
    <2> QED
      BY <2>4, <2>5
  <1> QED
    BY <1>1, <1>2, LookUpIs

(* Reading a directory keeps what is stored: its entries become nodes that  *)
(* match, and all that sat in it is among them.                             *)
LEMMA StoreLookUp ==
    ASSUME IInv, IInv', Script, Store, EntrySlots, LookUp PROVE Store'
  <1>0. Basic /\ Basic' /\ DentsTyped
    BY DEF IInv, Basic, Typed, DeviceTyped
  <1>1. /\ pc = "lookup" /\ g_initialized
        /\ UNCHANGED <<fat, data, dent, want, calls>> /\ written' # TRUE /\ ~NewDir' /\ Dropped' /\ Room'
        /\ pc' \in Cutting => t'.o \in Files
    BY <1>0, LookUpGoes
  <1>2. CountsOn
    BY <1>0, <1>1, CountsGo
  <1>3. CASE UNCHANGED <<node, cached>>
    <2>1. Quietly
      BY <1>1, <1>3 DEF Quietly
    <2> QED
      BY <1>0, <1>1, <1>2, <2>1, StoreQuietly
  <1>4. ASSUME NEW p, ReadsIn(p) PROVE Store'
    <2>1. /\ p \in Objs /\ p \in Objects /\ p \in Dirs /\ p \notin cached /\ Under[p] \in cached /\ Readable(node[p])
          /\ cached' = cached \union {p} /\ p \notin Files /\ Under[p] # p
      BY <1>4, ObjectSet DEF ReadsIn
    <2>2. View(p) = node[p] /\ View(p)' = node[p] /\ node'[p] = node[p] /\ node[p].size \in Nat
      <3>1. node'[p] = node[p]
        BY <1>4, <2>1 DEF ReadsIn
      <3>2. node[p].size \in Nat
        BY <1>0, <2>1 DEF Basic, Typed, MemoryTyped, NodesTyped, IsNode
      <3> QED
        BY <2>1, <3>1, <3>2, ViewIs
    <2>3. ChainOf(node[p]) = {At(p, i) : i \in 0 .. node[p].size - 1}
      BY <1>0, <2>1, ChainIs
    <2>4. \A o \in Objs : Under[o] # p => ViewSame(o)
      <3> SUFFICES ASSUME NEW o \in Objs, Under[o] # p PROVE ViewSame(o)
        OBVIOUS
      <3>1. node'[o] = node[o]
        BY <1>4, ObjectSet DEF ReadsIn
      <3>2. View(o)' = View(o)
        BY <1>1, <2>1, <3>1, ViewIs
      <3> QED
        BY <3>2, ViewSameBy
    <2>5. ViewSame(ROOT) /\ ViewSame(p)
      <3>1. View(ROOT)' = View(ROOT)
        BY <1>4, ViewIs, ObjectSet DEF ReadsIn
      <3> QED
        BY <2>1, <2>4, <3>1, ViewSameBy
    <2>6. \A a \in Objs : Sits(a) => ViewSame(a)
      <3> SUFFICES ASSUME NEW a \in Objs, Sits(a), Under[a] = p PROVE ViewSame(a)
        BY <2>4
      <3>1. View(a).at # NoSlot
        BY SlotsAre DEF Sits
      <3>2. dent[a].k = "ok" /\ View(a) = NodeOf(dent[a])
        BY <2>1, <3>1, ViewIs, Blank
      <3>3. dent[a].at = View(a).at
        BY <3>2 DEF NodeOf
      <3>4. PICK i \in Nat : Counts(p, i) /\ View(a).at[1] = At(p, i)
        BY DEF Sits
      <3>5. i \in 0 .. node[p].size - 1
        BY <2>2, <3>4 DEF Counts
      <3>6. a \in EntriesIn(node[p])
        BY <2>3, <3>2, <3>3, <3>4, <3>5 DEF EntriesIn
      <3>7. node'[a] = NodeOf(dent[a])
        BY <1>4, <3>6 DEF ReadsIn
      <3>8. View(a)' = View(a)
        BY <2>1, <3>2, <3>7, ViewIs
      <3> QED
        BY <3>8, ViewSameBy
    <2>7. \A a \in Objs : Present(a)' /\ Under[a] = p => a \in EntriesIn(node[p]) /\ node'[a] = NodeOf(dent[a])
      BY <1>4, Blank, ObjectSet DEF ReadsIn, Present
    <2>8. \A a \in Objs : Under[a] # p => node'[a] = node[a] /\ (Present(a)' => Present(a))
      <3>1. \A a \in Objs : Under[a] # p => node'[a] = node[a]
        BY <1>4, ObjectSet DEF ReadsIn
      <3> QED
        BY <3>1 DEF Present
    <2>9. \A a \in Objs : Present(a)' => Present(a) \/ Sits(a)'
      <3> SUFFICES ASSUME NEW a \in Objs, Present(a)', Under[a] = p PROVE Sits(a)'
        BY <2>8
      <3>1. a \in EntriesIn(node[p]) /\ View(a)' = NodeOf(dent[a])
        BY <2>1, <2>7, ViewIs
      <3>2. View(a)'.at = dent[a].at
        BY <3>1 DEF NodeOf
      <3>3. dent[a].at[1] \in ChainOf(node[p]) /\ dent[a].at[1] \in Clusters
        BY <2>1, <3>1 DEF EntriesIn, Readable, Valid
      <3>4. dent[a].at \in Slots
        BY <3>3, NotNoSlot DEF EntrySlots
      <3>5. PICK i \in 0 .. node[p].size - 1 : dent[a].at[1] = At(p, i)
        BY <2>3, <3>3
      <3>6. i \in Nat /\ i < node[p].size
        BY <2>2
      <3>7. Counts(p, i)'
        BY <1>1, <2>1, <2>2, <3>6 DEF Counts
      <3>8. At(p, i)' = At(p, i)
        BY <1>1, <2>5, CalmAt
      <3>9. View(a)'.at \in Slots /\ View(a)'.at[1] = At(p, i)'
        BY <3>2, <3>4, <3>5, <3>8
      <3> HIDE DEF Slots, Counts, At, View
      <3> QED
        BY <3>6, <3>7, <3>9 DEF Sits, Slots
    <2>10. Seated' /\ KeptFiles'
      BY <1>0, <1>1, <1>2, <2>5, <2>6, <2>9, CalmStore DEF Store, Known
    <2>11. Synced'
      <3> SUFFICES ASSUME NEW a \in Objs, Present(a)' PROVE node'[a].dirty = TRUE \/ Match(a)' \/ Hollow(a)'
        BY DEF Synced
      <3>1. CASE Under[a] = p
        <4>1. a \in EntriesIn(node[p]) /\ node'[a] = NodeOf(dent[a])
          BY <2>7, <3>1
        <4>2. dent[a].k = "ok"
          BY <1>0, <2>1, <4>1, ReadEntry
        <4>3. /\ node'[a].at = dent[a].at /\ node'[a].size = dent[a].size /\ node'[a].start = dent[a].start
              /\ node'[a].contig = dent[a].contig
          BY <4>1 DEF NodeOf
        <4> QED
          BY <1>1, <4>2, <4>3 DEF Match
      <3>2. CASE Under[a] # p
        <4>1. node'[a] = node[a] /\ Present(a)
          BY <2>8, <3>2
        <4>2. Match(a) => Match(a)'
          BY <1>1, <4>1 DEF Match
        <4>3. ASSUME Hollow(a), a = p PROVE Hollow(a)'
          <5>1. \A c \in Objs : Under[c] = p => HollowUnder(p, c)
            BY <4>3, HollowIs
          <5>2. \A c \in Objs : Under[c] = p => c \notin EntriesIn(node[p])
            BY <2>1, <5>1 DEF HollowUnder
          <5>3. \A c \in Objs : Under[c] = p => ~Present(c)'
            BY <2>7, <5>2
          <5>4. \A c \in Objs : Under[c] = p => HollowUnder(p, c)'
            BY <2>1, <5>3 DEF HollowUnder
          <5> QED
            BY <2>1, <4>3, <5>4, HollowIsLater
        <4>4. ASSUME Hollow(a), a # p PROVE Hollow(a)'
          <5>1. a \in cached <=> a \in cached'
            BY <2>1, <4>4
          <5>2. \A c \in Objs : Under[c] = a => node'[c].at = node[c].at
            BY <2>8, <4>4
          <5>3. ChainOf(node[a])' = ChainOf(node[a])
            BY <1>1, <4>1, ChainSame
          <5>4. \A c \in Objs : Under[c] = a =>
                   \/ dent'[c].k = "none" \/ dent'[c].at[1] \notin ChainOf(node[a])
                   \/ dent[c].k # "none" /\ dent'[c].at = dent[c].at
            BY <1>1
          <5> QED
            BY <1>0, <4>4, <5>1, <5>2, <5>3, <5>4, HollowStays
        <4> QED
          BY <4>1, <4>2, <4>3, <4>4 DEF Store, Synced
      <3> QED
        BY <3>1, <3>2
    <2> QED
      BY <1>1, <2>10, <2>11 DEF Store, Wrote, Fresh
  <1> QED
    BY <1>0, <1>3, <1>4, LookUpReads

-----------------------------------------------------------------------------
(* The device alone.                                                        *)

(* The clusters by the device are walks through the FAT.                    *)
LEMMA DiskAtIs ==
    /\ \A i : /\ DiskAt(ROOT, i) = WalkIn(fat, FALSE, 4)[i]
              /\ DiskAt(ROOT, i)' = WalkIn(fat', FALSE, 4)[i]
    /\ \A o \in Objs : \A i :
          /\ DiskAt(o, i) = WalkIn(fat, dent[o].contig, dent[o].start)[i]
          /\ DiskAt(o, i)' = WalkIn(fat', dent'[o].contig, dent'[o].start)[i]
  <1>1. PICK r : r = RootOf(0)
    OBVIOUS
  <1>2. r.start = 4 /\ r.contig = FALSE
    BY <1>1 DEF RootOf
  <1>3. ASSUME NEW i PROVE DiskAt(ROOT, i) = WalkIn(fat, FALSE, 4)[i] /\ DiskAt(ROOT, i)' = WalkIn(fat', FALSE, 4)[i]
    <2>1. DiskAt(ROOT, i) = Nth(r, i)
      BY <1>1 DEF DiskAt, DiskNode
    <2>2. DiskAt(ROOT, i)' = Nth(r, i)'
      BY <1>1 DEF DiskAt, DiskNode, Nth, Follow, RootOf
    <2> QED
      BY <1>2, <2>1, <2>2, NthIs
  <1>4. ASSUME NEW o \in Objs, NEW i
        PROVE  /\ DiskAt(o, i) = WalkIn(fat, dent[o].contig, dent[o].start)[i]
               /\ DiskAt(o, i)' = WalkIn(fat', dent'[o].contig, dent'[o].start)[i]
    <2>0. o # ROOT
      BY ObjectSet
    <2>1. PICK v, w : v = NodeOf(dent[o]) /\ w = NodeOf(dent'[o])
      OBVIOUS
    <2>2. v.start = dent[o].start /\ v.contig = dent[o].contig /\ w.start = dent'[o].start /\ w.contig = dent'[o].contig
      BY <2>1, NodeOfFields
    <2>3. DiskAt(o, i) = Nth(v, i)
      BY <2>0, <2>1 DEF DiskAt, DiskNode
    <2>4. DiskAt(o, i)' = Nth(w, i)'
      BY <2>0, <2>1 DEF DiskAt, DiskNode, Nth, Follow, NodeOf
    <2> QED
      BY <2>2, <2>3, <2>4, NthIs
  <1> QED
    BY <1>3, <1>4

(* A file is on the device as long as that is not written,                  *)
LEMMA DiskSame ==
    ASSUME UNCHANGED <<fat, data, dent>>, NEW o \in Files, want'[o] = want[o], DKept(o)
    PROVE  DKept(o)'
  <1>1. ASSUME NEW d \in Objects, NEW i PROVE DiskAt(d, i)' = DiskAt(d, i)
    <2>1. CASE d = ROOT
      <3>1. DiskAt(ROOT, i)' = DiskAt(ROOT, i)
        BY DiskAtIs
      <3> QED
        BY <2>1, <3>1
    <2>2. CASE d # ROOT
      <3>1. d \in Objs
        BY <2>2, ObjectSet
      <3> QED
        BY <3>1, DiskAtIs
    <2> QED
      BY <2>1, <2>2
  <1>2. \A a \in Objs : Under[a] \in Objects
    BY ObjectSet
  <1>3. o \in Objects
    BY ObjectSet
  <1> HIDE DEF Slots, DiskAt
  <1>4. ASSUME NEW a \in Objs, DSits(a) PROVE DSits(a)'
    BY <1>1, <1>2, <1>4 DEF DSits, Slots
  <1>5. DRooted(o)'
    <2>1. PICK S \in SUBSET Objs : o \in S /\ \A s \in S : DSits(s) /\ (Under[s] = ROOT \/ Under[s] \in S)
      BY DEF DKept, DRooted
    <2>2. \A s \in S : DSits(s)'
      BY <1>4, <2>1
    <2> HIDE DEF DSits
    <2> QED
      BY <2>1, <2>2 DEF DRooted, Objs
  <1>6. DHolds(o, want[o].call, want[o].size)'
    <2>1. PICK c, n : c = want[o].call /\ n = want[o].size
      OBVIOUS
    <2>2. DHolds(o, c, n)
      BY <2>1 DEF DKept
    <2>3. want'[o].call = c /\ want'[o].size = n
      BY <2>1
    <2>4. dent'[o].size = n /\ \A i \in 0 .. n - 1 : DiskAt(o, i)' \in Clusters /\ data'[DiskAt(o, i)'] = <<c, i>>
      BY <1>1, <1>3, <2>2 DEF DHolds
    <2> QED
      BY <2>3, <2>4 DEF DHolds, Clusters
  <1> QED
    BY <1>5, <1>6 DEF DKept

(* and so are all.                                                          *)
LEMMA OnDiskSame ==
    ASSUME OnDisk, UNCHANGED <<fat, data, dent>>, \A o \in Files : Known(o)' => Known(o) /\ want'[o] = want[o]
    PROVE  OnDisk'
  <1> SUFFICES ASSUME NEW o \in Files, Known(o)' PROVE DKept(o)'
    BY DEF OnDisk
  <1>1. DKept(o) /\ want'[o] = want[o]
    BY DEF OnDisk
  <1> QED
    BY <1>1, DiskSame

(* A node as its entry on the device has it. *)
OnDevAs(s) == /\ dent[s].k = "ok" /\ dent[s].at = View(s).at /\ dent[s].size = View(s).size
              /\ View(s).size # 0 => dent[s].start = View(s).start /\ dent[s].contig = View(s).contig

(* so it has the same clusters.                                             *)
LEMMA OnDevAt ==
    ASSUME NEW s \in Objs, OnDevAs(s), View(s).size # 0
    PROVE  \A i : DiskAt(s, i) = At(s, i)
  BY DiskAtIs, AtIs DEF OnDevAs

(* A file, or a directory with something in it, that is not dirty has such  *)
(* an entry.                                                                *)
LEMMA CleanOnDev ==
    ASSUME Basic, Synced, NEW s \in Objs, Sits(s), ~node[s].dirty,
           s \in Files \/ \E c \in Objs : Under[c] = s /\ Sits(c)
    PROVE  OnDevAs(s)
  <1>1. View(s).at # NoSlot
    BY SlotsAre DEF Sits
  <1>2. CASE Under[s] \notin cached
    <2>1. dent[s].k = "ok" /\ View(s) = NodeOf(dent[s])
      BY <1>1, <1>2, ViewIs, Blank
    <2> QED
      BY <2>1 DEF OnDevAs, NodeOf
  <1>3. CASE Under[s] \in cached
    <2>1. View(s) = node[s]
      BY <1>3, ViewIs
    <2>2. Present(s)
      BY <1>1, <2>1 DEF Present
    <2>3. ~Hollow(s)
      <3>1. CASE s \in Files
        BY <3>1, ObjectSet DEF Hollow
      <3>2. CASE \E c \in Objs : Under[c] = s /\ Sits(c)
        BY <1>3, <3>2, HollowNone
      <3> QED
        BY <3>1, <3>2
    <2>4. Match(s)
      BY <2>2, <2>3 DEF Synced
    <2> QED
      BY <2>1, <2>4 DEF OnDevAs, Match
  <1> QED
    BY <1>2, <1>3

(* A promised file that was flushed, with all directories above it, is on   *)
(* the device: the memory can be lost.                                      *)
LEMMA FlushedKept ==
    ASSUME Basic, g_initialized, Synced, KeptFiles, NEW o \in Files, Known(o), Flushed(o)
    PROVE  DKept(o)
  <1>0. Rooted(o) /\ Holds(o, want[o].call, want[o].size) /\ o \in Objs
    BY ObjectSet DEF KeptFiles
  <1>1. PICK S \in SUBSET Objs : o \in S /\ \A s \in S : Sits(s) /\ (Under[s] = ROOT \/ Under[s] \in S)
    BY <1>0 DEF Rooted
  <1>2. PICK T \in SUBSET Objs : o \in T /\ \A p \in T : ~node[p].dirty /\ (Under[p] = ROOT \/ Under[p] \in T)
    BY DEF Flushed
  <1>3. PICK R : R = {s \in S : s \in T /\ (s = o \/ \E c \in S : Under[c] = s)}
    OBVIOUS
  <1> HIDE DEF Sits
  <1>4. R \in SUBSET Objs /\ o \in R
    BY <1>0, <1>1, <1>2, <1>3
  <1>5. \A s \in R : Sits(s) /\ (Under[s] = ROOT \/ Under[s] \in R)
    BY <1>1, <1>2, <1>3
  <1>6. \A s \in R : OnDevAs(s)
    <2> SUFFICES ASSUME NEW s \in R PROVE OnDevAs(s)
      OBVIOUS
    <2>1. s \in Objs /\ Sits(s) /\ ~node[s].dirty
      BY <1>1, <1>2, <1>3
    <2>2. s \in Files \/ \E c \in Objs : Under[c] = s /\ Sits(c)
      BY <1>1, <1>3
    <2> QED
      BY <2>1, <2>2, CleanOnDev
  <1>7. \A s \in R : DSits(s)
    <2> SUFFICES ASSUME NEW s \in R PROVE DSits(s)
      OBVIOUS
    <2>0. PICK e : e = Under[s]
      OBVIOUS
    <2>1. s \in Objs /\ Sits(s) /\ OnDevAs(s)
      BY <1>4, <1>5, <1>6
    <2>2. PICK i \in Nat : Counts(e, i) /\ View(s).at[1] = At(e, i)
      BY <2>0, <2>1 DEF Sits
    <2>3. dent[s].k = "ok" /\ dent[s].at \in Slots /\ dent[s].at[1] = At(e, i)
      BY <2>1, <2>2 DEF OnDevAs, Sits
    <2>4. i < View(e).size
      BY <2>2 DEF Counts
    <2>5. (e = ROOT \/ i < dent[e].size) /\ DiskAt(e, i) = At(e, i)
      <3>1. CASE e = ROOT
        <4>1. View(ROOT).start = 4 /\ View(ROOT).contig = FALSE
          BY ViewIs DEF Basic, Tree
        <4> QED
          BY <3>1, <4>1, AtIs, DiskAtIs
      <3>2. CASE e # ROOT
        <4>1. e \in R /\ e \in Objs
          BY <1>4, <1>5, <2>0, <3>2
        <4>2. OnDevAs(e)
          BY <1>6, <4>1
        <4>3. dent[e].size = View(e).size /\ View(e).size # 0
          BY <2>4, <4>2 DEF OnDevAs
        <4> QED
          BY <2>4, <4>1, <4>2, <4>3, OnDevAt
      <3> QED
        BY <3>1, <3>2
    <2> HIDE DEF Slots, DiskAt
    <2> QED
      BY <2>0, <2>3, <2>5 DEF DSits
  <1>8. DRooted(o)
    BY <1>4, <1>5, <1>7 DEF DRooted
  <1>9. DHolds(o, want[o].call, want[o].size)
    <2>1. PICK c, n : c = want[o].call /\ n = want[o].size
      OBVIOUS
    <2>2. Holds(o, c, n)
      BY <1>0, <2>1
    <2>3. OnDevAs(o) /\ View(o).size = n
      BY <1>4, <1>6, <2>2 DEF Holds
    <2>4. dent[o].size = n
      BY <2>3 DEF OnDevAs
    <2>5. \A i \in 0 .. n - 1 : DiskAt(o, i) = At(o, i)
      <3> SUFFICES ASSUME NEW i \in 0 .. n - 1 PROVE DiskAt(o, i) = At(o, i)
        OBVIOUS
      <3>1. View(o).size # 0
        BY <2>3
      <3> QED
        BY <1>0, <2>3, <3>1, OnDevAt
    <2>6. DHolds(o, c, n)
      BY <2>2, <2>4, <2>5 DEF DHolds, Holds
    <2> QED
      BY <2>1, <2>6
  <1> QED
    BY <1>8, <1>9 DEF DKept

(* What a mount has in memory. *)
MountsAs ==
    /\ UNCHANGED <<fat, data, dent, want>> /\ pc' = "idle" /\ written' # TRUE /\ cached' = {ROOT}
    /\ RootNode.size > 0 /\ Readable(RootNode) /\ node'[ROOT] = RootNode
    /\ \A o \in Objs : /\ Under[o] # ROOT => node'[o] = NoNode
                       /\ Under[o] = ROOT => node'[o] = IF o \in EntriesIn(RootNode) THEN NodeOf(dent[o]) ELSE NoNode

(* exfat_mount makes that tree or none.                                     *)
LEMMA MountIs ==
    ASSUME Mount
    PROVE  \/ g_initialized' = TRUE /\ sound' = (sound /\ Consistent) /\ MountsAs
           \/ g_initialized' = FALSE /\ sound' = sound
  <1>1. CASE g_initialized' = FALSE /\ sound' = sound
    BY <1>1
  <1>2. CASE /\ Mountable /\ g_initialized' = TRUE /\ sound' = (sound /\ Consistent) /\ cached' = {ROOT}
             /\ node' = Loaded([o \in Objs \union {ROOT} |-> IF o = ROOT THEN RootNode ELSE NoNode], ROOT, RootNode)
    <2>1. UNCHANGED <<fat, data, dent, want>> /\ pc' = "idle" /\ written' # TRUE
      BY DEF Mount, Return, device
    <2>2. RootNode.size > 0 /\ Readable(RootNode)
      BY <1>2 DEF Mountable
    <2>3. PICK ns : ns = [o \in Objs \union {ROOT} |-> IF o = ROOT THEN RootNode ELSE NoNode]
      OBVIOUS
    <2>4. ns[ROOT] = RootNode /\ \A o \in Objs : ns[o] = NoNode
      BY <2>3, ObjectSet
    <2>5. node' = Loaded(ns, ROOT, RootNode)
      BY <1>2, <2>3
    <2>6. \A o \in Objs \union {ROOT} :
             node'[o] = IF o # ROOT /\ o \in EntriesIn(RootNode) /\ Child(o, ROOT) THEN NodeOf(dent[o]) ELSE ns[o]
      BY <2>5 DEF Loaded
    <2>7. /\ node'[ROOT] = RootNode
          /\ \A o \in Objs : /\ Under[o] # ROOT => node'[o] = NoNode
                             /\ Under[o] = ROOT =>
                                   node'[o] = IF o \in EntriesIn(RootNode) THEN NodeOf(dent[o]) ELSE NoNode
      BY <2>4, <2>6, ObjectSet DEF Child
    <2> QED
      BY <1>2, <2>1, <2>2, <2>7 DEF MountsAs
  <1> QED
    BY <1>1, <1>2 DEF Mount

(* The root is as the device has it, up to where its chain ends.            *)
LEMMA RootOnDisk ==
    ASSUME MountsAs
    PROVE  /\ View(ROOT)' = RootNode
           /\ \A i : At(ROOT, i)' = DiskAt(ROOT, i) /\ Nth(RootNode, i) = DiskAt(ROOT, i)
           /\ \A i \in Nat : DiskAt(ROOT, i) \in Clusters => i \in 0 .. RootNode.size - 1
  <1>1. View(ROOT)' = RootNode
    BY ViewIs DEF MountsAs
  <1>2. RootNode.start = 4 /\ RootNode.contig = FALSE /\ RootNode.size \in Nat
    BY RootNodeIs, ExfatAssumption
  <1>3. \A i : At(ROOT, i)' = DiskAt(ROOT, i) /\ Nth(RootNode, i) = DiskAt(ROOT, i)
    <2> SUFFICES ASSUME NEW i PROVE At(ROOT, i)' = DiskAt(ROOT, i) /\ Nth(RootNode, i) = DiskAt(ROOT, i)
      OBVIOUS
    <2>1. At(ROOT, i)' = WalkIn(fat, FALSE, 4)[i]
      BY <1>1, <1>2, AtIs DEF MountsAs
    <2>2. Nth(RootNode, i) = WalkIn(fat, FALSE, 4)[i]
      BY <1>2, NthIs
    <2> QED
      BY <2>1, <2>2, DiskAtIs
  <1>4. ASSUME NEW i \in Nat, DiskAt(ROOT, i) \in Clusters PROVE i \in 0 .. RootNode.size - 1
    <2>1. PICK k \in Nat : k = RootNode.size
      BY <1>2
    <2>2. Nth(RootNode, k) \notin Clusters
      BY <2>1, RootNodeIs, ClusterSet DEF MountsAs
    <2>3. WalkIn(fat, RootNode.contig, RootNode.start)[k] \notin Clusters
      BY <2>2, NthIs
    <2>4. WalkIn(fat, RootNode.contig, RootNode.start)[i] \in Clusters
      BY <1>3, <1>4, NthIs
    <2>5. ~(k <= i)
      BY <2>3, <2>4, WalkLeft
    <2> QED
      BY <2>1, <2>5
  <1> QED
    BY <1>1, <1>3, <1>4

(* What sits going by the device is seen as its entry says,                 *)
LEMMA MountView ==
    ASSUME MountsAs, NEW a \in Objs, DSits(a)
    PROVE  View(a)' = NodeOf(dent[a])
  <1>0. dent'[a] = dent[a] /\ dent[a].k = "ok" /\ dent[a].at \in Slots
    BY DEF MountsAs, DSits
  <1>1. CASE Under[a] # ROOT
    <2>1. Under[a] \notin cached'
      BY <1>1 DEF MountsAs
    <2> QED
      BY <1>0, <2>1, ViewIs
  <1>2. CASE Under[a] = ROOT
    <2>1. PICK i \in Nat : dent[a].at[1] = DiskAt(ROOT, i)
      BY <1>2 DEF DSits
    <2>2. DiskAt(ROOT, i) \in Clusters
      BY <1>0, <2>1, SlotsAre
    <2>3. i \in 0 .. RootNode.size - 1 /\ Nth(RootNode, i) = DiskAt(ROOT, i)
      BY <2>2, RootOnDisk
    <2>4. a \in EntriesIn(RootNode)
      BY <1>0, <2>1, <2>3 DEF EntriesIn, ChainOf
    <2>5. node'[a] = NodeOf(dent[a]) /\ Under[a] \in cached'
      BY <1>2, <2>4 DEF MountsAs
    <2> QED
      BY <2>5, ViewIs
  <1> QED
    BY <1>1, <1>2

(* with the same clusters,                                                  *)
LEMMA MountAt ==
    ASSUME MountsAs, NEW a \in Objs, DSits(a)
    PROVE  View(a)'.size = dent[a].size /\ View(a)'.at = dent[a].at /\ \A i : At(a, i)' = DiskAt(a, i)
  <1>1. View(a)' = NodeOf(dent[a])
    BY MountView
  <1>2. /\ View(a)'.size = dent[a].size /\ View(a)'.at = dent[a].at
        /\ View(a)'.start = dent[a].start /\ View(a)'.contig = dent[a].contig
    BY <1>1 DEF NodeOf
  <1>3. fat' = fat
    BY DEF MountsAs
  <1> QED
    BY <1>2, <1>3, AtIs, DiskAtIs

(* and sits,                                                                *)
LEMMA MountSits ==
    ASSUME MountsAs, NEW a \in Objs, NEW e, e = Under[a], NEW i \in Nat,
           View(a)'.at \in Slots, View(a)'.at[1] = At(e, i)', i < View(e)'.size
    PROVE  Sits(a)'
  <1>1. Counts(e, i)'
    BY DEF Counts, MountsAs, Cutting
  <1> HIDE DEF Slots, Counts, At, View
  <1> QED
    BY <1>1 DEF Sits, Slots

(* so after a mount all that was on the device is stored.                   *)
LEMMA MountStore ==
    ASSUME Basic, MountsAs, EntrySlots, OnDisk
    PROVE  Store'
  <1>0. DentsTyped
    BY DEF Basic, Typed, DeviceTyped
  <1>1. \A a \in Objs : Present(a)' => Under[a] = ROOT /\ a \in EntriesIn(RootNode) /\ node'[a] = NodeOf(dent[a])
    BY Blank, ObjectSet DEF MountsAs, Present
  <1>2. Seated'
    <2> SUFFICES ASSUME NEW a \in Objs, Present(a)' PROVE Sits(a)'
      BY DEF Seated
    <2>1. Under[a] = ROOT /\ a \in EntriesIn(RootNode) /\ node'[a] = NodeOf(dent[a])
      BY <1>1
    <2>2. View(a)' = NodeOf(dent[a])
      BY <2>1, ViewIs DEF MountsAs
    <2>3. View(a)'.at = dent[a].at
      BY <2>2 DEF NodeOf
    <2>4. dent[a].at[1] \in ChainOf(RootNode) /\ dent[a].at[1] \in Clusters
      BY <2>1 DEF EntriesIn, Readable, Valid, MountsAs
    <2>5. View(a)'.at \in Slots
      BY <2>3, <2>4, NotNoSlot DEF EntrySlots
    <2>6. PICK i \in 0 .. RootNode.size - 1 : dent[a].at[1] = Nth(RootNode, i)
      BY <2>4 DEF ChainOf
    <2>7. i \in Nat /\ i < RootNode.size
      BY RootNodeIs, ExfatAssumption
    <2>8. View(ROOT)' = RootNode /\ At(ROOT, i)' = Nth(RootNode, i)
      BY RootOnDisk
    <2> QED
      BY <2>1, <2>3, <2>5, <2>6, <2>7, <2>8, MountSits
  <1>3. Synced'
    <2> SUFFICES ASSUME NEW a \in Objs, Present(a)' PROVE Match(a)'
      BY DEF Synced
    <2>1. a \in EntriesIn(RootNode) /\ node'[a] = NodeOf(dent[a])
      BY <1>1
    <2>2. dent[a].k = "ok"
      BY <1>0, <2>1, ReadEntry DEF MountsAs
    <2>3. /\ node'[a].at = dent[a].at /\ node'[a].size = dent[a].size /\ node'[a].start = dent[a].start
          /\ node'[a].contig = dent[a].contig
      BY <2>1 DEF NodeOf
    <2>4. dent' = dent
      BY DEF MountsAs
    <2> QED
      BY <2>2, <2>3, <2>4 DEF Match
  <1>4. KeptFiles'
    <2> SUFFICES ASSUME NEW o \in Files, Known(o)'
                 PROVE  Rooted(o)' /\ Holds(o, want[o].call, want[o].size)'
      BY DEF KeptFiles
    <2>1. want'[o] = want[o] /\ Known(o) /\ o \in Objs
      BY ObjectSet DEF Known, MountsAs
    <2>2. DRooted(o) /\ DHolds(o, want[o].call, want[o].size)
      BY <2>1 DEF OnDisk, DKept
    <2>3. PICK S \in SUBSET Objs : o \in S /\ \A s \in S : DSits(s) /\ (Under[s] = ROOT \/ Under[s] \in S)
      BY <2>2 DEF DRooted
    <2>4. \A s \in S : Sits(s)'
      <3> SUFFICES ASSUME NEW s \in S PROVE Sits(s)'
        OBVIOUS
      <3>0. PICK e : e = Under[s]
        OBVIOUS
      <3>1. s \in Objs /\ DSits(s)
        BY <2>3
      <3>2. PICK i \in Nat : (e = ROOT \/ i < dent[e].size) /\ dent[s].at[1] = DiskAt(e, i)
        BY <3>0, <3>1 DEF DSits
      <3>3. View(s)'.at = dent[s].at /\ dent[s].at \in Slots
        BY <3>1, MountAt DEF DSits
      <3>4. At(e, i)' = DiskAt(e, i) /\ i < View(e)'.size
        <4>1. CASE e = ROOT
          <5>1. DiskAt(ROOT, i) \in Clusters
            BY <3>2, <3>3, <4>1, SlotsAre
          <5>2. View(ROOT)' = RootNode /\ At(ROOT, i)' = DiskAt(ROOT, i) /\ i \in 0 .. RootNode.size - 1
            BY <5>1, RootOnDisk
          <5>3. RootNode.size \in Nat
            BY RootNodeIs, ExfatAssumption
          <5>4. At(ROOT, i)' = DiskAt(ROOT, i) /\ i < View(ROOT)'.size
            BY <5>2, <5>3
          <5> QED
            BY <4>1, <5>4
        <4>2. CASE e # ROOT
          <5>1. e \in Objs /\ DSits(e)
            BY <2>3, <3>0, <4>2
          <5> QED
            BY <3>2, <4>2, <5>1, MountAt
        <4> QED
          BY <4>1, <4>2
      <3>5. View(s)'.at \in Slots /\ View(s)'.at[1] = At(e, i)'
        BY <3>2, <3>3, <3>4
      <3> QED
        BY <3>0, <3>1, <3>4, <3>5, MountSits
    <2>5. Rooted(o)'
      <3> HIDE DEF Sits
      <3> QED
        BY <2>3, <2>4 DEF Rooted, Objs
    <2>6. PICK c, n : c = want[o].call /\ n = want[o].size
      OBVIOUS
    <2>7. dent[o].size = n /\ \A i \in 0 .. n - 1 : DiskAt(o, i) \in Clusters /\ data[DiskAt(o, i)] = <<c, i>>
      BY <2>2, <2>6 DEF DHolds
    <2>8. View(o)'.size = n /\ \A i \in 0 .. n - 1 : At(o, i)' \in Clusters /\ data'[At(o, i)'] = <<c, i>>
      BY <2>1, <2>3, <2>7, MountAt DEF MountsAs
    <2>9. want'[o].call = c /\ want'[o].size = n
      BY <2>1, <2>6
    <2> HIDE DEF View, At
    <2>10. Holds(o, want[o].call, want[o].size)'
      BY <2>8, <2>9 DEF Holds, Clusters
    <2> QED
      BY <2>5, <2>10
  <1>5. Wrote' /\ Dropped' /\ Fresh' /\ Room'
    BY DEF MountsAs, Wrote, Dropped, Fresh, Room, NewDir, FlushAt
  <1> QED
    BY <1>2, <1>3, <1>4, <1>5 DEF Store

(* Removing entries leaves the others in slots.                             *)
LEMMA SlotsStay ==
    ASSUME EntrySlots, \A o \in Objs : dent'[o] = dent[o] \/ dent'[o] = NoDent
    PROVE  EntrySlots'
  <1>1. NoDent.at = NoSlot
    BY DEF NoDent, EmptyEntry
  <1> QED
    BY <1>1 DEF EntrySlots, Slots

(* Nothing has to be on the device when nothing is promised.                *)
LEMMA NoneKnown ==
    ASSUME \A o \in Files : want'[o] = ANY \/ want'[o] = ABSENT
    PROVE  OnDisk'
  BY AnyCall DEF OnDisk, Known

(* Formatting keeps the invariant: it promises nothing until the root has   *)
(* been written.                                                            *)
LEMMA FormatKept ==
    ASSUME IInv, KInv,
           exfat_format \/ EraseVbr \/ Erase \/ MakeVbr \/ MakeFat \/ MakeBitmap \/ MakeTable \/ MakeRoot
    PROVE  ~g_initialized' /\ (sound' => EntrySlots' /\ OnDisk')
  <1>0. Basic /\ Script
    BY DEF IInv, KInv
  <1>1. CASE exfat_format
    <2>1. ~g_initialized' /\ dent' = dent /\ sound' = sound /\ want' = [o \in Files |-> ANY]
      BY <1>1 DEF exfat_format, device, memory
    <2>2. OnDisk'
      BY <2>1, NoneKnown
    <2> QED
      BY <2>1, <2>2, SlotsStay DEF KInv
  <1>2. CASE EraseVbr \/ MakeVbr \/ MakeFat \/ MakeBitmap \/ MakeTable
    <2>1. pc \in Formatting
      BY <1>2 DEF EraseVbr, MakeVbr, MakeFat, MakeBitmap, MakeTable, Formatting
    <2>2. dent' = dent /\ g_initialized' = g_initialized /\ want' = want /\ sound' = sound
      <3>1. CASE EraseVbr
        BY <3>1 DEF EraseVbr, memory, seen
      <3>2. CASE MakeVbr
        BY <3>2 DEF MakeVbr, memory, seen
      <3>3. CASE MakeFat
        BY <3>3 DEF MakeFat, memory, seen
      <3>4. CASE MakeBitmap
        BY <3>4 DEF MakeBitmap, memory, seen
      <3>5. CASE MakeTable
        BY <3>5 DEF MakeTable, memory, seen, device
      <3> QED
        BY <1>2, <3>1, <3>2, <3>3, <3>4, <3>5
    <2>3. ~g_initialized
      BY <1>0, <2>1 DEF Basic, Control
    <2>4. OnDisk'
      BY <1>0, <2>1, <2>2, NoneKnown DEF Script, Wanted
    <2> QED
      BY <2>2, <2>3, <2>4, SlotsStay DEF KInv
  <1>3. CASE Erase
    <2>1. pc \in Formatting /\ dent' = Overwritten(System) /\ g_initialized' = g_initialized
          /\ want' = want /\ sound' = sound
      BY <1>3 DEF Erase, memory, seen, Formatting
    <2>2. ~g_initialized
      BY <1>0, <2>1 DEF Basic, Control
    <2>3. OnDisk'
      BY <1>0, <2>1, NoneKnown DEF Script, Wanted
    <2>4. \A o \in Objs : dent'[o] = dent[o] \/ dent'[o] = NoDent
      BY <1>0, <2>1, OverwrittenDents DEF Basic, Typed, DeviceTyped
    <2> QED
      BY <2>1, <2>2, <2>3, <2>4, SlotsStay DEF KInv
  <1>4. CASE MakeRoot
    <2>1. pc \in Formatting /\ g_initialized' = g_initialized
      BY <1>4 DEF MakeRoot, Formatting
    <2>2. ~g_initialized
      BY <1>0, <2>1 DEF Basic, Control
    <2>3. CASE dent' = [o \in Objs |-> NoDent] /\ want' = [o \in Files |-> ABSENT]
      <3>1. NoDent.at = NoSlot
        BY DEF NoDent, EmptyEntry
      <3>2. EntrySlots'
        BY <2>3, <3>1 DEF EntrySlots, Slots
      <3>3. OnDisk'
        BY <2>3, NoneKnown
      <3> QED
        BY <2>1, <2>2, <3>2, <3>3
    <2>4. CASE UNCHANGED <<dent, seen>>
      <3>1. dent' = dent /\ want' = want /\ sound' = sound
        BY <2>4 DEF seen
      <3>2. OnDisk'
        BY <1>0, <2>1, <3>1, NoneKnown DEF Script, Wanted
      <3> QED
        BY <2>1, <2>2, <3>1, <3>2, SlotsStay DEF KInv
    <2> QED
      BY <1>4, <2>3, <2>4 DEF MakeRoot
  <1> QED
    BY <1>1, <1>2, <1>3, <1>4

(* A promised file that was flushed is on the device, mounted or not,       *)
LEMMA FlushedOnDisk ==
    ASSUME IInv, KInv, sound, NEW o \in Files, Known(o), Flushed(o)
    PROVE  DKept(o)
  <1>1. CASE g_initialized
    BY <1>1, FlushedKept DEF KInv, Store, IInv
  <1>2. CASE ~g_initialized
    BY <1>2 DEF KInv, OnDisk
  <1> QED
    BY <1>1, <1>2

(* so what is still promised without the memory is there.                   *)
LEMMA ForgottenDisk ==
    ASSUME IInv, KInv, sound, UNCHANGED <<fat, data, dent>>, want' = Forgotten
    PROVE  OnDisk'
  <1> SUFFICES ASSUME NEW o \in Files, Known(o)' PROVE DKept(o)'
    BY DEF OnDisk
  <1>1. WantTyped
    BY DEF KInv, Script
  <1>2. want'[o] # ANY
    BY AnyCall DEF Known
  <1>3. want'[o] = want[o] /\ Flushed(o)
    BY <1>1, <1>2, ForgottenIs
  <1>4. Known(o)
    BY <1>3 DEF Known
  <1> QED
    BY <1>3, <1>4, FlushedOnDisk, DiskSame

(* A crash keeps the invariant,                                             *)
LEMMA CrashKept ==
    ASSUME IInv, KInv, Crash
    PROVE  ~g_initialized' /\ (sound' => EntrySlots' /\ OnDisk')
  <1>1. ~g_initialized' /\ UNCHANGED <<fat, data, dent>> /\ want' = Forgotten /\ sound' = sound
    BY DEF Crash, device
  <1> QED
    BY <1>1, ForgottenDisk, SlotsStay DEF KInv

(* so does exfat_init,                                                      *)
LEMMA InitKept ==
    ASSUME IInv, IInv', KInv, exfat_init
    PROVE  /\ sound' => EntrySlots'
           /\ sound' /\ ~g_initialized' => OnDisk'
           /\ sound' /\ g_initialized' => Store'
  <1>1. g_initialized' = g_initialized /\ UNCHANGED <<fat, data, dent>> /\ want' = Forgotten /\ sound' = sound
    BY DEF exfat_init, device, memory
  <1>2. sound => EntrySlots' /\ OnDisk'
    BY <1>1, ForgottenDisk, SlotsStay DEF KInv
  <1>3. sound /\ g_initialized => Store'
    BY StoreInit DEF KInv
  <1> QED
    BY <1>1, <1>2, <1>3

(* and exfat_mount.                                                         *)
LEMMA MountKept ==
    ASSUME IInv, KInv, Mount
    PROVE  /\ sound' => EntrySlots'
           /\ sound' /\ ~g_initialized' => OnDisk'
           /\ sound' /\ g_initialized' => Store'
  <1>1. pc = "mount" /\ UNCHANGED <<fat, data, dent, want>>
    BY DEF Mount, device
  <1>2. sound' => sound
    BY MountIs
  <1>3. ASSUME sound PROVE EntrySlots /\ OnDisk
    <2>1. OnDisk
      <3> SUFFICES ASSUME NEW o \in Files, Known(o) PROVE DKept(o)
        BY DEF OnDisk
      <3>1. CASE g_initialized
        <4>1. Flushed(o)
          BY <1>1, <1>3, <3>1 DEF KInv, Store, Dropped
        <4> QED
          BY <1>3, <4>1, FlushedOnDisk
      <3>2. CASE ~g_initialized
        BY <1>3, <3>2 DEF KInv, OnDisk
      <3> QED
        BY <3>1, <3>2
    <2> QED
      BY <1>3, <2>1 DEF KInv
  <1>4. sound' => EntrySlots' /\ OnDisk'
    <2>1. \A o \in Files : Known(o)' => Known(o) /\ want'[o] = want[o]
      BY <1>1 DEF Known
    <2> QED
      BY <1>1, <1>2, <1>3, <2>1, OnDiskSame, SlotsStay
  <1>5. sound' /\ g_initialized' => Store'
    <2> SUFFICES ASSUME sound', g_initialized' PROVE Store'
      OBVIOUS
    <2>1. MountsAs
      BY MountIs
    <2> QED
      BY <1>2, <1>3, <2>1, MountStore DEF IInv
  <1> QED
    BY <1>4, <1>5

-----------------------------------------------------------------------------
(* The third theorem.                                                       *)

(* The steps on a mounted volume: calls, steps that leave the device or at  *)
(* least the entries alone, writes of entries and data, and exfat_truncate. *)
Opens == \/ \E o \in Files, n \in Sizes : exfat_write_file(o, n)
         \/ \E d \in Dirs : exfat_create_dir_path(d)
         \/ \E o \in Objs : exfat_read_file(o) \/ exfat_get_file_info(o)
Goes == \/ FindSlot \/ Created \/ Failed \/ DirFlush \/ DeleteFlush \/ UnmountNode \/ UnmountNodesDone
        \/ Unmount \/ WriteDone \/ ReadData \/ FlushNothing \/ FlushBitmap \/ LookUp \/ Detach
        \/ PathDone \/ \E d \in Dirs : NextComponent(d)
Edits == CommitEntry \/ FlushEntry \/ WriteData \/ DeleteEntry
Works == Opens \/ Goes \/ Edits \/ Cuts

(* They leave the volume mounted, and do not make it sound:                 *)
LEMMA OpensOn ==
    ASSUME Opens PROVE g_initialized /\ g_initialized' = g_initialized /\ sound' = sound /\ dent' = dent
  <1>1. PICK name, o, n : Call(name, o, n)
    BY DEF Opens, exfat_write_file, exfat_create_dir_path, exfat_read_file, exfat_get_file_info
  <1> QED
    BY <1>1 DEF Call, device, memory

(* those that leave entries alone,                                          *)
LEMMA GoesOn ==
    ASSUME Basic, Goes PROVE g_initialized /\ g_initialized' = g_initialized /\ sound' = sound /\ dent' = dent
  <1>1. /\ pc \in {"lookup"} \union InDir \union FlushAt \union Leaving
        /\ g_initialized' = g_initialized /\ sound' = sound /\ dent' = dent
    <2>1. CASE FindSlot \/ Created \/ Failed
      BY <2>1 DEF FindSlot, Created, Failed, InDir, memory, seen, device
    <2>2. CASE DirFlush \/ DeleteFlush
      BY <2>2 DEF DirFlush, DeleteFlush, InDir, memory, seen, device
    <2>3. CASE UnmountNode \/ UnmountNodesDone \/ Unmount
      BY <2>3 DEF UnmountNode, UnmountNodesDone, Unmount, Leaving, memory, seen, device
    <2>4. CASE WriteDone
      BY <2>4 DEF WriteDone, InDir, memory, device
    <2>5. CASE ReadData
      BY <2>5 DEF ReadData, InDir, device, seen
    <2>6. CASE FlushNothing \/ FlushBitmap
      BY <2>6 DEF FlushNothing, FlushBitmap, FlushAt, memory, seen, device
    <2>7. CASE LookUp
      BY <2>7 DEF LookUp, seen, device
    <2>8. CASE Detach
      BY <2>8 DEF Detach, InDir, seen, device
    <2>9. CASE PathDone \/ \E d \in Dirs : NextComponent(d)
      BY <2>9 DEF PathDone, NextComponent, Leaving, memory, seen, device
    <2> QED
      BY <2>1, <2>2, <2>3, <2>4, <2>5, <2>6, <2>7, <2>8, <2>9 DEF Goes
  <1> QED
    BY <1>1 DEF Basic, Control

(* those that write them,                                                   *)
LEMMA EditsOn ==
    ASSUME Basic, Edits PROVE g_initialized /\ g_initialized' = g_initialized /\ sound' = sound
  <1>1. pc \in InDir \union FlushAt /\ g_initialized' = g_initialized /\ sound' = sound
    <2>1. CASE CommitEntry
      BY <2>1 DEF CommitEntry, InDir, seen
    <2>2. CASE FlushEntry
      BY <2>2 DEF FlushEntry, FlushAt, seen
    <2>3. CASE WriteData
      BY <2>3 DEF WriteData, InDir, seen
    <2>4. CASE DeleteEntry
      BY <2>4 DEF DeleteEntry, InDir, memory, seen
    <2> QED
      BY <2>1, <2>2, <2>3, <2>4 DEF Edits
  <1> QED
    BY <1>1 DEF Basic, Control

(* exfat_truncate,                                                          *)
LEMMA CutsOn ==
    ASSUME IInv, IInv', Script, Cuts PROVE g_initialized /\ g_initialized' = g_initialized /\ (sound' => sound)
  <1>1. CutMove
    BY ScriptCut
  <1>2. g_initialized /\ g_initialized' = g_initialized
    BY <1>1, CuttingFacts DEF CutMove, IInv
  <1>3. sound' => sound
    <2>1. CASE FreeOne
      BY <2>1 DEF FreeOne
    <2>2. CASE TruncateSame \/ GrowFrom \/ GrowNoSpace \/ ShrinkFrom
      BY <2>2 DEF TruncateSame, GrowFrom, GrowNoSpace, ShrinkFrom, seen
    <2>3. CASE GrowFirst \/ GrowEnd \/ EraseNew
      BY <2>3 DEF GrowFirst, GrowEnd, EraseNew, seen
    <2>4. CASE GrowOne
      BY <2>4 DEF GrowOne, seen
    <2>5. CASE Crop \/ FreeEnd
      BY <2>5 DEF Crop, FreeEnd, seen
    <2> QED
      BY <2>1, <2>2, <2>3, <2>4, <2>5 DEF Cuts
  <1> QED
    BY <1>2, <1>3

(* and so all.                                                              *)
LEMMA WorksOn ==
    ASSUME IInv, IInv', Script, Works PROVE g_initialized /\ g_initialized' = g_initialized /\ (sound' => sound)
  BY OpensOn, GoesOn, EditsOn, CutsOn DEF Works, IInv

(* They keep what is stored.                                                *)
LEMMA StoreStep ==
    ASSUME IInv, IInv', Script, Store, EntrySlots, sound, g_initialized, Works
    PROVE  Store' /\ EntrySlots'
  <1>1. CASE Opens
    <2>1. dent' = dent
      BY <1>1, OpensOn
    <2>2. Store'
      BY <1>1, StoreCalls DEF Opens
    <2> QED
      BY <2>1, <2>2, SlotsStay
  <1>2. CASE Goes
    <2>1. dent' = dent
      BY <1>2, GoesOn DEF IInv
    <2>2. Store'
      BY <1>2, StoreFindSlot, StoreCreated, StoreMoves, StoreUnmount, StoreDone, StoreRead, StoreFlushes,
         StoreLookUp, StoreDetach, StoreNext DEF Goes
    <2> QED
      BY <2>1, <2>2, SlotsStay
  <1>3. CASE Edits
    BY <1>3, StoreCommit, StoreFlushEntry, StoreWrite, StoreDelete DEF Edits
  <1>4. CASE Cuts
    <2>1. \A o \in Objs : dent'[o] = dent[o] \/ dent'[o] = NoDent
      BY <1>4, CutLeaves
    <2> QED
      BY <1>4, <2>1, StoreCut, SlotsStay
  <1> QED
    BY <1>1, <1>2, <1>3, <1>4 DEF Works

(* The invariant stays when nothing happens,                                *)
LEMMA StutterKept ==
    ASSUME IInv, IInv', KInv, UNCHANGED vars
    PROVE  /\ sound' => EntrySlots'
           /\ sound' /\ ~g_initialized' => OnDisk'
           /\ sound' /\ g_initialized' => Store'
  <1>0. Basic /\ Basic' /\ Script
    BY DEF IInv, KInv
  <1>1. /\ UNCHANGED <<fat, data, dent, cached, node, want, calls, pc, obj, size, written, t, f, sound, g_initialized>>
        /\ Quietly
    BY DEF vars, device, memory, call, seen, Quietly
  <1>2. sound' => EntrySlots'
    BY <1>1, SlotsStay DEF KInv
  <1>3. sound' /\ ~g_initialized' => OnDisk'
    <2>1. \A o \in Files : Known(o)' => Known(o) /\ want'[o] = want[o]
      BY <1>1 DEF Known
    <2> QED
      BY <1>1, <2>1, OnDiskSame DEF KInv
  <1>4. ASSUME sound, g_initialized PROVE Store'
    <2>0. Store
      BY <1>4 DEF KInv
    <2>1. CountsOn
      <3> SUFFICES ASSUME NEW d, NEW i \in Nat, Counts(d, i), i < View(d)'.size PROVE Counts(d, i)'
        BY DEF CountsOn
      <3> HIDE DEF View
      <3> QED
        BY <1>1 DEF Counts, Cutting
    <2>2. NewDir' => NewDir /\ obj' = obj
      BY <1>1 DEF NewDir, FlushAt
    <2>3. Dropped'
      <3> SUFFICES ASSUME pc' = "mount", NEW o \in Files, Known(o)' PROVE Flushed(o)'
        BY DEF Dropped
      <3>1. Known(o)
        BY <1>1 DEF Known
      <3>2. Flushed(o)
        BY <1>1, <2>0, <3>1 DEF Store, Dropped
      <3> QED
        BY <1>1, <3>2, FlushedStays
    <2>4. Room'
      <3> SUFFICES ASSUME pc' = "commit" PROVE Places(Under[obj])' # {}
        BY DEF Room
      <3>1. PICK d : d = Under[obj]
        OBVIOUS
      <3>2. PICK p : p \in Offsets(d) /\ SlotAt(d, p) \notin Taken(d)
        BY <1>1, <2>0, <3>1 DEF Store, Room, Places
      <3>3. PICK n, i : n = node[d] /\ i = p[1]
        OBVIOUS
      <3>4. Nth(n, i)' = Nth(n, i)
        BY <1>1, NthIs
      <3>5. SlotAt(d, p)' = SlotAt(d, p)
        <4>1. Nth(node[d], p[1])' = Nth(n, i)'
          BY <1>1, <3>3 DEF Nth, Follow
        <4> HIDE DEF Nth
        <4> QED
          BY <3>3, <3>4, <4>1 DEF SlotAt
      <3>6. Taken(d)' = Taken(d) /\ Offsets(d)' = Offsets(d)
        BY <1>1 DEF Taken, Offsets, Child, Objs
      <3>7. p \in Places(d)'
        <4> HIDE DEF SlotAt, Taken, Offsets
        <4> QED
          BY <3>2, <3>5, <3>6 DEF Places
      <3>8. Under[obj'] = d
        BY <1>1, <3>1
      <3>9. Places(Under[obj])' = Places(d)'
        BY <3>8 DEF Places, Offsets, SlotAt, Taken, Child
      <3> QED
        BY <3>7, <3>9
    <2> QED
      BY <1>0, <1>1, <2>0, <2>1, <2>2, <2>3, <2>4, StoreQuietly
  <1> QED
    BY <1>1, <1>2, <1>3, <1>4

(* so it stays in every step.                                               *)
LEMMA KInvStep ==
    IInv /\ IInv' /\ KInv /\ [Next]_vars => KInv'
  <1> SUFFICES ASSUME IInv, IInv', KInv, [Next]_vars PROVE KInv'
    OBVIOUS
  <1>1. Script /\ Script'
    BY ScriptStep DEF KInv
  <1>2. /\ sound' => EntrySlots'
        /\ sound' /\ ~g_initialized' => OnDisk'
        /\ sound' /\ g_initialized' => Store'
    <2>1. CASE UNCHANGED vars
      BY <2>1, StutterKept
    <2>2. CASE exfat_format \/ EraseVbr \/ Erase \/ MakeVbr \/ MakeFat \/ MakeBitmap \/ MakeTable \/ MakeRoot
      BY <2>2, FormatKept
    <2>3. CASE exfat_init
      BY <2>3, InitKept
    <2>4. CASE Crash
      BY <2>4, CrashKept
    <2>5. CASE Mount
      BY <2>5, MountKept
    <2>6. CASE Works
      <3>1. g_initialized /\ g_initialized' = g_initialized /\ (sound' => sound)
        BY <1>1, <2>6, WorksOn
      <3>2. sound => Store' /\ EntrySlots'
        BY <1>1, <2>6, <3>1, StoreStep DEF KInv
      <3> QED
        BY <3>1, <3>2
    <2> QED
      BY <2>1, <2>2, <2>3, <2>4, <2>5, <2>6 DEF Next, Works, Opens, Goes, Edits, Cuts
  <1> QED
    BY <1>1, <1>2 DEF KInv

(* It holds at the start,                                                   *)
LEMMA InitKInv ==
    Init => KInv
  <1> SUFFICES ASSUME Init PROVE KInv
    OBVIOUS
  <1>1. Course /\ Object
    BY DEF Init, Course, Object, WithNode, Unborn, Newborn, Cutting, FlushAt, Making, Writing, Leaving
  <1>2. Wanted /\ WantTyped
    BY DEF Init, Wanted, WantTyped, Formatting
  <1>3. Absent
    BY ObjectSet DEF Init, Absent, Objects
  <1>4. EntrySlots
    <2>1. NoDent.at = NoSlot
      BY DEF NoDent, EmptyEntry
    <2> QED
      BY <2>1 DEF Init, EntrySlots
  <1>5. OnDisk
    BY AnyCall DEF Init, OnDisk, Known
  <1> QED
    BY <1>1, <1>2, <1>3, <1>4, <1>5 DEF KInv, Script, Init

(* and implies the property.                                                *)
LEMMA KInvContents ==
    IInv /\ KInv => ContentsKept
  <1> SUFFICES ASSUME IInv, KInv, sound, g_initialized, NEW o \in Files, want[o] # ANY
               PROVE  IF want[o] = ABSENT THEN View(o).at = NoSlot
                      ELSE /\ View(o).at # NoSlot /\ View(o).size = want[o].size
                           /\ \A i \in 0 .. want[o].size - 1 :
                                 /\ Valid(Nth(View(o), i))
                                 /\ data[Nth(View(o), i)] = <<want[o].call, i>>
    BY DEF ContentsKept
  <1>0. o \in Objs
    BY ObjectSet
  <1>1. CASE want[o] = ABSENT
    <2>1. dent[o] = NoDent /\ node[o] = NoNode
      BY <1>1 DEF KInv, Script, Absent
    <2>2. View(o) = NoNode
      BY <1>0, <2>1, ViewIs, Blank
    <2> QED
      BY <1>1, <2>2, Blank
  <1>2. CASE want[o] # ABSENT
    <2>1. Known(o)
      BY <1>2 DEF KInv, Script, WantTyped, Known
    <2>2. Rooted(o) /\ Holds(o, want[o].call, want[o].size)
      BY <2>1 DEF KInv, Store, KeptFiles
    <2>3. View(o).at # NoSlot
      BY <2>2, RootedSits, SlotsAre DEF Sits
    <2> HIDE DEF View
    <2> QED
      BY <1>2, <2>2, <2>3 DEF Holds, At, Valid
  <1> QED
    BY <1>1, <1>2

(* Between calls a file holds what the last successful exfat_write_file on  *)
(* it wrote, in a tree of any shape and after any calls on it and on other  *)
(* files, whatever device operations fail and wherever the machine stops; a *)
(* stop takes the promise only from files that were not flushed, themselves *)
(* or a directory above (exfat.c:219-247, node.c:636-700).                  *)
THEOREM ContentsStay == Spec => []ContentsKept
  <1>1. Init => IInv /\ KInv
    BY InitInv, InitKInv
  <1>2. IInv /\ KInv /\ [Next]_vars => IInv' /\ KInv'
    BY IInvStep, KInvStep
  <1>3. IInv /\ KInv => ContentsKept
    BY KInvContents
  <1> QED
    BY <1>1, <1>2, <1>3, PTL DEF Spec

-----------------------------------------------------------------------------
(* The volume at rest: its invariant.                                       *)

(* An entry is whole, and has a start if and only if it has clusters; and   *)
(* every entry is like that.                                                *)
Proper(e) == e.k # "torn" /\ ((e.size = 0) <=> (e.start = FREE)) /\ (e.k = "none" => e.size = 0)
Untorn == \A o \in Objs : Proper(dent[o])

(* The entry has clusters; a place of the directory d that its entry has    *)
(* too.                                                                     *)
Filed(o) == dent[o].size > 0
Within(d, i) == d = ROOT \/ i < dent[d].size

(* Going by the device: the chain of the root has n clusters and ends; the  *)
(* bitmap covers what an entry has.                                         *)
RootEnds(n) == /\ n \in 1 .. NumClusters /\ DiskAt(ROOT, n) = END
               /\ \A j \in 0 .. n - 1 : DiskAt(ROOT, j) \in Clusters
Covered(o) == \A i \in Nat : i < dent[o].size => DiskAt(o, i) \in dmap

(* What is on the device when no volume is mounted can be mounted, read and *)
(* written.                                                                 *)
Laid == /\ sysents = TRUE /\ \E n \in Nat : RootEnds(n)
        /\ \A o \in Objs : Filed(o) => DSits(o) /\ Covered(o)

(* Where a call is between two writes: the entry of obj is removed and its  *)
(* node still there,                                                        *)
Gone      == pc = "detach" \/ (pc \in FlushAt /\ f.k = "detach")

(* obj has its entry and the directory is not flushed yet,                  *)
Coming(o) == o = obj /\ pc = "flush" /\ f.k = "created"

(* the new directory obj is in memory what it is not on the device,         *)
Fresher   == NewDir \/ (pc \in Cutting /\ t.k = "dirflush")

(* the entry of o is longer than its node, and about to be flushed.         *)
Behind(o) == \/ pc = "data" /\ o = obj
             \/ pc = "flush" /\ f.k \in {"done", "fail"} /\ o = f.o
             \/ pc = "delflush" /\ o = Under[obj]

(* A node has its entry, in the same slot.                                  *)
Entered == \A o \in Objs : Present(o) /\ ~(o = obj /\ Gone) => dent[o].k = "ok" /\ dent[o].at = node[o].at

(* The slot of o is in a cluster of its directory that the entry of the     *)
(* directory has as well,                                                   *)
Found(o) == \E i \in Nat : Counts(Under[o], i) /\ Within(Under[o], i) /\ View(o).at[1] = At(Under[o], i)

(* and that is so for every entry with clusters and every node, an entry    *)
(* with clusters having its node when its directory is read.                *)
Lodged == \A o \in Objs : /\ Filed(o) /\ Under[o] \in cached => Present(o)
                          /\ Filed(o) \/ (Present(o) /\ ~Coming(o)) => Found(o)

(* The entry calls the file contiguous and needs no links, or both follow   *)
(* the FAT from the same start;                                             *)
SameLinks(o) == dent[o].contig \/ (~View(o).contig /\ dent[o].start = View(o).start)

(* the clusters that the entry has are those at the same places of the      *)
(* file.                                                                    *)
Agrees == \A o \in Objs : \A i \in Nat : Counts(o, i) /\ i < dent[o].size => DiskAt(o, i) = At(o, i) /\ SameLinks(o)

(* An entry is not longer than the node, except where it is about to be     *)
(* flushed.                                                                 *)
NotLonger == \A o \in Objs : Under[o] \in cached => dent[o].size <= node[o].size \/ (node[o].dirty = TRUE /\ Behind(o))

(* The entry of a directory that has not been read is as long as its node:  *)
(* nothing was made in it.                                                  *)
Unread == \A p \in Dirs : Under[p] \in cached /\ p \notin cached /\ ~(p = obj /\ Fresher /\ pc # "bitmap") => dent[p].size = node[p].size

(* No chain ends early.                                                     *)
Full == \A o \in Objects : \A i \in Place(o) : At(o, i) \in Clusters

(* Nor does what was cut off and is to be freed.                            *)
CutFull == pc = "free" => \A i \in 0 .. t.left - 1 : CutAt(i) \in Clusters

(* Outside exfat_truncate a file without clusters has no start.             *)
Starts == \A o \in Objects : View(o).size = 0 /\ ~(pc \in Mid /\ o = t.o) => View(o).start = FREE

(* The bitmap on the device covers the clusters the entries have; it is as  *)
(* in memory unless that is marked dirty.                                   *)
Mapped == /\ cmap_dirty = FALSE => cmap = dmap
          /\ \A o \in Objs : \A i \in Nat : Counts(o, i) /\ i < dent[o].size => At(o, i) \in dmap \/ (pc = "bitmap" /\ o = f.o)

(* The chain of the root, whose size no entry has, ends in the FAT, except  *)
(* after grow_file linked its last cluster and before it wrote the end.     *)
Ended == ~(pc = "grow" /\ t.o = ROOT /\ t.left = 0) => At(ROOT, Length(ROOT)) = END

(* What exfat_truncate is about: a directory grows by one cluster or is     *)
(* cut, new clusters are counted last, and what is cut to nothing has no    *)
(* start.                                                                   *)
CutSmooth == pc \in Cutting =>
          /\ t.k = "commit" => t.undo = FALSE /\ t.to = node[t.o].size + 1
          /\ t.k = "delflush" => t.undo = FALSE /\ t.to < node[t.o].size
          /\ pc \in {"grow", "erasenew"} => node[t.o].size < t.to
          /\ pc = "free" /\ t.to = 0 => node[t.o].start = FREE

(* How far a call is when nothing has failed.                               *)
Smooth == /\ pc # "bug" /\ (pc = "lastflush" => Dirty = {})
          /\ pc = "delete" \/ Gone => node[obj].size = 0
          /\ Gone => dent[obj] = NoDent
          /\ Fresher => Present(obj)
          /\ pc = "flush" /\ f.k = "created" => f.o = ROOT \/ node[f.o].dirty = TRUE
          /\ pc = "flush" /\ f.kf = "lastflush" => Present(f.o)
          /\ pc = "dirflush" \/ (pc = "flush" /\ f.kf = "delete") => node[obj].dirty = TRUE
          /\ CutSmooth

(* All of it, for a mounted volume.                                         *)
Healthy == /\ vbr = TRUE /\ sysents = TRUE
           /\ Entered /\ Lodged /\ Agrees /\ NotLonger /\ Unread /\ Full /\ CutFull /\ Starts /\ Mapped /\ Ended /\ Smooth

(* What mkfs has written so far.                                            *)
Formed == /\ pc \in {"mkfat", "mkcbm", "mkuct", "mkroot"} => vbr = TRUE
          /\ pc \in {"mkcbm", "mkuct", "mkroot"} => fat[4] = END

(* The promise is for volumes where nothing has failed,                     *)
Flawless == sound /\ faults = 0

(* and the invariant: the device can be mounted when nothing is mounted,    *)
(* and what memory adds to it is in order when something is.                *)
RInv == /\ Formed
        /\ Flawless =>
             /\ Untorn
             /\ ~g_initialized /\ pc \notin Formatting /\ vbr => Laid
             /\ g_initialized => Healthy

-----------------------------------------------------------------------------
(* Between calls.                                                           *)

(* No operation fails while the count of faults stays zero. *)
LEMMA NoFault ==
    ASSUME Basic, faults' = 0 PROVE ~Fails
  BY DEF Fails, Basic, Typed, CountTyped

(* Between calls all places of all files count. *)
LEMMA AllCount ==
    ASSUME pc \notin Cutting, NEW o, NEW i, i < View(o).size PROVE Counts(o, i)
  BY DEF Counts

(* The root has the same chain in memory and on the device.                 *)
LEMMA RootDisk ==
    ASSUME Basic, g_initialized
    PROVE  \A i : DiskAt(ROOT, i) = At(ROOT, i)
  <1>1. View(ROOT).start = 4 /\ View(ROOT).contig = FALSE
    BY ViewIs DEF Basic, Tree
  <1> QED
    BY <1>1, AtIs, DiskAtIs

(* A filed entry has been read, or counts as it is. *)
LEMMA FiledView ==
    ASSUME Basic, Untorn, NEW o \in Objs, Filed(o), Under[o] \notin cached
    PROVE  /\ dent[o].k = "ok" /\ View(o) = NodeOf(dent[o]) /\ View(o).size = dent[o].size
           /\ View(o).at = dent[o].at
           /\ \A i : At(o, i) = DiskAt(o, i)
  <1>1. dent[o].k = "ok"
    BY DEF Untorn, Proper, Filed, Basic, Typed, DeviceTyped, DentsTyped, IsDent
  <1>2. View(o) = NodeOf(dent[o])
    BY <1>1, ViewIs
  <1>3. View(o).start = dent[o].start /\ View(o).contig = dent[o].contig /\ View(o).size = dent[o].size
        /\ View(o).at = dent[o].at
    BY <1>2, NodeOfFields DEF NodeOf
  <1> QED
    BY <1>1, <1>2, <1>3, AtIs, DiskAtIs

(* Where a call has ended, the device has what memory has. *)
LEMMA FiledAt ==
    ASSUME Basic, Untorn, Lodged, Agrees, NotLonger, pc \in {"idle", "mount"}, NEW o \in Objs, Filed(o), NEW i \in Nat,
           i < dent[o].size
    PROVE  Counts(o, i) /\ DiskAt(o, i) = At(o, i)
  <1>0. pc \notin Cutting /\ ~Behind(o) /\ dent[o].size \in Nat
    BY DEF Cutting, Behind, Basic, Typed, DeviceTyped, DentsTyped, IsDent
  <1>1. CASE Under[o] \in cached
    <2>1. View(o) = node[o] /\ dent[o].size <= node[o].size /\ node[o].size \in Nat
      BY <1>0, <1>1, ViewIs, ObjectSet DEF NotLonger, Basic, Typed, MemoryTyped, NodesTyped, IsNode
    <2>2. Counts(o, i)
      BY <1>0, <2>1, AllCount
    <2> QED
      BY <2>2 DEF Agrees
  <1>2. CASE Under[o] \notin cached
    BY <1>0, <1>2, FiledView, AllCount
  <1> QED
    BY <1>1, <1>2

(* An entry with clusters sits in its directory, going by the device alone, *)
LEMMA FiledSits ==
    ASSUME IInv, EntrySlots, Untorn, Healthy, g_initialized, pc \in {"idle", "mount"}, NEW o \in Objs, Filed(o)
    PROVE  DSits(o)
  <1>0. Basic /\ Lodged /\ Agrees /\ NotLonger /\ Full /\ Entered
    BY DEF IInv, Healthy
  <1>1. PICK i \in Nat : Counts(Under[o], i) /\ Within(Under[o], i) /\ View(o).at[1] = At(Under[o], i)
    BY <1>0 DEF Lodged, Found
  <1>2. dent[o].k = "ok" /\ View(o).at = dent[o].at
    <2>1. CASE Under[o] \in cached
      <3>1. Present(o) /\ View(o) = node[o]
        BY <1>0, <2>1, ViewIs DEF Lodged
      <3>2. ~Gone
        BY DEF Gone, FlushAt
      <3> QED
        BY <1>0, <3>1, <3>2 DEF Entered
    <2>2. CASE Under[o] \notin cached
      BY <1>0, <2>2, FiledView
    <2> QED
      BY <2>1, <2>2
  <1>3. At(Under[o], i) \in Clusters
    BY <1>0, <1>1, CountsPlace, ObjectSet DEF Full
  <1>4. dent[o].at \in Slots
    <2>1. dent[o].at # NoSlot
      BY <1>1, <1>2, <1>3, ClusterSet DEF NoSlot, FREE
    <2> QED
      BY <2>1 DEF EntrySlots
  <1>5. At(Under[o], i) = DiskAt(Under[o], i)
    <2>1. CASE Under[o] = ROOT
      BY <1>0, <2>1, RootDisk
    <2>2. CASE Under[o] # ROOT
      <3>1. Under[o] \in Objs
        BY <2>2, ObjectSet
      <3> QED
        BY <1>0, <1>1, <2>2, <3>1 DEF Agrees, Within
    <2> QED
      BY <2>1, <2>2
  <1>6. \E j \in Nat : /\ Under[o] = ROOT \/ j < dent[Under[o]].size
                       /\ dent[o].at[1] = DiskAt(Under[o], j)
    BY <1>1, <1>2, <1>5 DEF Within
  <1> QED
    BY <1>2, <1>4, <1>6 DEF DSits

(* and the bitmap covers it;                                                *)
LEMMA FiledCovered ==
    ASSUME IInv, Untorn, Healthy, pc \in {"idle", "mount"}, NEW o \in Objs, Filed(o)
    PROVE  Covered(o)
  <1>1. SUFFICES ASSUME NEW i \in Nat, i < dent[o].size PROVE DiskAt(o, i) \in dmap
    BY DEF Covered
  <1>2. Counts(o, i) /\ DiskAt(o, i) = At(o, i)
    BY <1>1, FiledAt DEF IInv, Healthy
  <1>3. Mapped /\ pc # "bitmap"
    BY DEF Healthy
  <1> QED
    BY <1>1, <1>2, <1>3 DEF Mapped

(* the root ends where its node says;                                       *)
LEMMA HealthyRoot ==
    ASSUME IInv, sound, Healthy, g_initialized, pc \in {"idle", "mount"}
    PROVE  RootEnds(node[ROOT].size)
  <1>0. Basic /\ Bounds /\ Full /\ Ended
    BY DEF IInv, Healthy
  <1>1. node[ROOT].size \in Nat /\ node[ROOT].size > 0 /\ node[ROOT].size <= NumClusters
    BY <1>0, ObjectSet DEF Bounds, Basic, Tree, Typed, MemoryTyped, NodesTyped, IsNode
  <1>2. Length(ROOT) = node[ROOT].size
    BY Lengths, ViewIs DEF Mid
  <1>3. At(ROOT, node[ROOT].size) = END
    BY <1>0, <1>2 DEF Ended
  <1>4. \A j \in 0 .. node[ROOT].size - 1 : At(ROOT, j) \in Clusters
    BY <1>0, <1>2, ObjectSet DEF Full, Place
  <1> QED
    BY <1>0, <1>1, <1>3, <1>4, RootDisk, ExfatAssumption DEF RootEnds

(* so between calls a mounted volume could be mounted as it is.             *)
LEMMA HealthyLaid ==
    ASSUME IInv, EntrySlots, Untorn, sound, g_initialized, Healthy, pc \in {"idle", "mount"}
    PROVE  Laid
  <1>1. \E n \in Nat : RootEnds(n)
    BY HealthyRoot, ExfatAssumption DEF RootEnds
  <1> QED
    BY <1>1, FiledSits, FiledCovered DEF Laid, Healthy

(* A root that ends is found when the volume is mounted.                    *)
LEMMA RootMounts ==
    ASSUME NEW n \in Nat, RootEnds(n) PROVE RootNode.size > 0
  <1> DEFINE r == RootOf(0)
             L == {i \in 1 .. NumClusters : Nth(r, i) = END /\ \A j \in 0 .. i - 1 : Valid(Nth(r, j))}
             z == IF L = {} THEN 0 ELSE Lowest(L)
  <1>1. RootNode = RootOf(z)
    BY DEF RootNode
  <1>2. RootNode.size = z
    <2> HIDE DEF z
    <2> QED
      BY <1>1 DEF RootOf
  <1>3. \A i : DiskAt(ROOT, i) = Nth(r, i)
    BY DEF DiskAt, DiskNode
  <1>4. n \in L
    <2> HIDE DEF r
    <2> QED
      BY <1>3 DEF RootEnds, Valid
  <1>5. L \subseteq Nat /\ L # {} /\ L \subseteq 1 .. NumClusters
    BY <1>4, ExfatAssumption
  <1> HIDE DEF L
  <1>6. Lowest(L) \in L
    BY <1>5, LowestIn
  <1>7. Lowest(L) \in 1 .. NumClusters
    BY <1>5, <1>6
  <1>8. z = Lowest(L)
    BY <1>5
  <1> QED
    BY <1>2, <1>7, <1>8

(* No entry is refused by readdir.                                          *)
LEMMA NotDamaged ==
    ASSUME Untorn, NEW o \in Objs PROVE ~Damaged(o)
  BY DEF Untorn, Proper, Damaged, ChecksumWrong, StartWrong

(* So such a volume can be mounted,                                         *)
LEMMA LaidMountable ==
    ASSUME Untorn, Laid, vbr PROVE Mountable
  <1>1. RootNode.size > 0
    BY RootMounts DEF Laid
  <1>2. \A c \in ChainOf(RootNode) : Valid(c)
    BY <1>1, RootNodeIs DEF ChainOf
  <1>3. \A o \in EntriesIn(RootNode) : ~Damaged(o)
    BY NotDamaged DEF EntriesIn
  <1> QED
    BY <1>1, <1>2, <1>3 DEF Mountable, Readable, Laid

(* and the bitmap covers the chains of its entries.                         *)
LEMMA LaidCovers ==
    ASSUME Basic, Laid, NEW o \in Objs PROVE ChainOf(dent[o]) \subseteq dmap
  <1>1. SUFFICES ASSUME NEW i \in 0 .. dent[o].size - 1 PROVE Nth(dent[o], i) \in dmap
    BY DEF ChainOf
  <1>2. i \in Nat /\ i < dent[o].size /\ Filed(o)
    BY DEF Filed, Basic, Typed, DeviceTyped, DentsTyped, IsDent
  <1>3. DiskAt(o, i) \in dmap
    BY <1>2 DEF Laid, Covered
  <1>4. Nth(dent[o], i) = DiskAt(o, i)
    <2>1. PICK e : e = dent[o]
      OBVIOUS
    <2>2. Nth(e, i) = WalkIn(fat, e.contig, e.start)[i]
      BY NthIs
    <2> QED
      BY <2>1, <2>2, DiskAtIs
  <1> QED
    BY <1>3, <1>4

(* The invariant is what the property needs. *)
LEMMA RInvRest ==
    IInv /\ KInv /\ RInv => AtRest
  <1> SUFFICES ASSUME IInv, KInv, RInv, sound, faults = 0
               PROVE  /\ pc # "bug"
                      /\ pc = "idle" /\ vbr =>
                            /\ Mountable
                            /\ \A o \in Objs : dent[o].k = "ok" =>
                                  ~Damaged(o) /\ ChainOf(dent[o]) \subseteq dmap
    BY DEF AtRest
  <1>1. Basic /\ EntrySlots /\ Untorn /\ Flawless
    BY DEF IInv, KInv, RInv, Flawless
  <1>2. pc # "bug"
    BY <1>1 DEF RInv, Healthy, Smooth, Basic, Control, Leaving
  <1>3. ASSUME pc = "idle", vbr PROVE Laid
    <2>1. CASE g_initialized
      BY <1>1, <1>3, <2>1, HealthyLaid DEF RInv
    <2>2. CASE ~g_initialized
      BY <1>1, <1>3, <2>2 DEF RInv, Formatting
    <2> QED
      BY <2>1, <2>2
  <1> QED
    BY <1>1, <1>2, <1>3, LaidMountable, LaidCovers, NotDamaged

-----------------------------------------------------------------------------
(* A volume is made or mounted or left.                                     *)

(* What memory has after a mount. *)
LEMMA MountViews ==
    ASSUME MountsAs, NEW o \in Objs
    PROVE  View(o)' = NoNode \/ (View(o)' = NodeOf(dent[o]) /\ dent[o].k # "none")
  <1>1. CASE Under[o] = ROOT
    BY <1>1, ViewIs DEF MountsAs, EntriesIn
  <1>2. CASE Under[o] # ROOT
    <2>1. View(o)' = IF dent'[o].k = "ok" THEN NodeOf(dent'[o]) ELSE NoNode
      BY <1>2, ViewIs DEF MountsAs
    <2> QED
      BY <2>1 DEF MountsAs
  <1> QED
    BY <1>1, <1>2

(* A node that a mount makes is that of an entry in the root.               *)
LEMMA MountPresent ==
    ASSUME MountsAs, Untorn, DentsTyped, NEW o \in Objs, Present(o)'
    PROVE  /\ Under[o] = ROOT /\ o \in EntriesIn(RootNode) /\ node'[o] = NodeOf(dent[o]) /\ dent[o].k = "ok"
           /\ View(o)' = node'[o] /\ node'[o].at = dent[o].at
  <1>0. o # ROOT
    BY ObjectSet
  <1>1. node'[o] # NoNode
    BY <1>0, Blank DEF Present
  <1>2. Under[o] = ROOT /\ o \in EntriesIn(RootNode) /\ node'[o] = NodeOf(dent[o])
    BY <1>1 DEF MountsAs
  <1>3. dent[o].k = "ok"
    BY <1>2 DEF EntriesIn, Untorn, Proper, DentsTyped, IsDent
  <1>4. View(o)' = node'[o]
    BY <1>2, ViewIs DEF MountsAs
  <1>5. NodeOf(dent[o]).at = dent[o].at
    BY DEF NodeOf
  <1> QED
    BY <1>2, <1>3, <1>4, <1>5

(* A mount writes nothing.                                                  *)
LEMMA MountDisk ==
    ASSUME MountsAs, NEW o \in Objs PROVE \A i : DiskAt(o, i)' = DiskAt(o, i)
  BY DiskAtIs DEF MountsAs

(* After it all places count.                                               *)
LEMMA IdleCounts ==
    ASSUME pc' = "idle", NEW d, NEW i, i < View(d)'.size PROVE Counts(d, i)'
  BY DEF Counts, Cutting

(* One lemma for each part of Healthy after a mount.                        *)
LEMMA MountEntered ==
    ASSUME MountsAs, Untorn, DentsTyped PROVE Entered'
  <1> SUFFICES ASSUME NEW o \in Objs, Present(o)' PROVE dent'[o].k = "ok" /\ dent'[o].at = node'[o].at
    BY DEF Entered
  <1> QED
    BY MountPresent DEF MountsAs

(* An entry is found in its directory,                                      *)
LEMMA MountFound ==
    ASSUME MountsAs, Untorn, Basic, Laid, NEW o \in Objs, Filed(o) \/ Present(o)'
    PROVE  Found(o)'
  <1>0. pc' = "idle" /\ DentsTyped
    BY DEF MountsAs, Basic, Typed, DeviceTyped
  <1>1. CASE Filed(o)
    <2>1. DSits(o)
      BY <1>1 DEF Laid
    <2>2. PICK i \in Nat : /\ Under[o] = ROOT \/ i < dent[Under[o]].size
                           /\ dent[o].at[1] = DiskAt(Under[o], i)
      BY <2>1 DEF DSits
    <2>3. View(o)'.at = dent[o].at /\ dent[o].at[1] \in Clusters
      BY <2>1, MountAt, SlotsAre DEF DSits
    <2>4. CASE Under[o] = ROOT
      <3>1. At(ROOT, i)' = DiskAt(ROOT, i) /\ i < View(ROOT)'.size
        BY <2>2, <2>3, <2>4, RootOnDisk, RootNodeIs, ExfatAssumption
      <3>2. Counts(ROOT, i)'
        BY <1>0, <3>1, IdleCounts
      <3> QED
        BY <2>2, <2>3, <2>4, <3>1, <3>2 DEF Found, Within
    <2>5. CASE Under[o] # ROOT
      <3>0. Under[o] \in Objs
        BY <2>5, ObjectSet
      <3>1. PICK d \in Objs : d = Under[o]
        BY <3>0
      <3>2. i < dent[d].size
        BY <2>2, <2>5, <3>1
      <3>3. Filed(d)
        BY <1>0, <3>2 DEF Filed, DentsTyped, IsDent
      <3>4. DSits(d)
        BY <3>3 DEF Laid
      <3>5. View(d)'.size = dent[d].size /\ At(d, i)' = DiskAt(d, i) /\ dent' = dent
        BY <3>4, MountAt DEF MountsAs
      <3>6. Counts(d, i)'
        BY <1>0, <3>2, <3>5, IdleCounts
      <3>7. Within(d, i)'
        BY <3>2, <3>5 DEF Within
      <3> QED
        BY <2>2, <2>3, <3>1, <3>5, <3>6, <3>7 DEF Found
    <2> QED
      BY <2>4, <2>5
  <1>2. CASE Present(o)'
    <2>1. Under[o] = ROOT /\ o \in EntriesIn(RootNode) /\ View(o)'.at = dent[o].at
      BY <1>0, <1>2, MountPresent
    <2>2. PICK i \in 0 .. RootNode.size - 1 : dent[o].at[1] = Nth(RootNode, i)
      BY <2>1 DEF EntriesIn, ChainOf
    <2>3. i \in Nat /\ i < View(ROOT)'.size /\ At(ROOT, i)' = Nth(RootNode, i)
      BY RootOnDisk, RootNodeIs, ExfatAssumption
    <2>4. Counts(ROOT, i)'
      BY <1>0, <2>3, IdleCounts
    <2> QED
      BY <2>1, <2>2, <2>3, <2>4 DEF Found, Within
  <1> QED
    BY <1>1, <1>2

(* and so every entry and node is lodged.                                   *)
LEMMA MountLodged ==
    ASSUME MountsAs, Untorn, Basic, Laid PROVE Lodged'
  <1>1. \A o \in Objs : Filed(o)' => Filed(o)
    BY DEF Filed, MountsAs
  <1>2. ASSUME NEW o \in Objs, Filed(o), Under[o] \in cached' PROVE Present(o)'
    <2>1. DSits(o)
      BY <1>2 DEF Laid
    <2>2. View(o)'.at \in Slots /\ View(o)' = node'[o]
      BY <1>2, <2>1, MountAt, ViewIs DEF DSits
    <2> QED
      BY <2>2, SlotsAre DEF Present
  <1> QED
    BY <1>1, <1>2, MountFound DEF Lodged

(* Memory is what the device has,                                           *)
LEMMA MountAgrees ==
    ASSUME MountsAs, Basic, Laid, Untorn PROVE Agrees' /\ NotLonger' /\ Unread'
  <1>0. DentsTyped /\ dent' = dent /\ cached' = {ROOT}
    BY DEF Basic, Typed, DeviceTyped, MountsAs
  <1>1. ASSUME NEW o \in Objs, Filed(o)
        PROVE  /\ View(o)'.size = dent[o].size /\ View(o)' = NodeOf(dent[o])
               /\ \A i : DiskAt(o, i)' = At(o, i)'
    <2>1. DSits(o)
      BY <1>1 DEF Laid
    <2> QED
      BY <2>1, MountAt, MountDisk, MountView
  <1>2. Agrees'
    <2> SUFFICES ASSUME NEW o \in Objs, NEW i \in Nat, i < dent[o].size PROVE (DiskAt(o, i) = At(o, i))' /\ SameLinks(o)'
      BY <1>0 DEF Agrees
    <2>1. Filed(o)
      BY <1>0 DEF Filed, DentsTyped, IsDent
    <2>2. SameLinks(o)'
      BY <1>0, <1>1, <2>1, NodeOfFields DEF SameLinks
    <2> QED
      BY <1>1, <2>1, <2>2
  <1>3. ASSUME NEW o \in Objs, Under[o] \in cached' PROVE node'[o].size = dent[o].size
    <2>1. View(o)' = node'[o]
      BY <1>3, ViewIs
    <2>2. CASE Filed(o)
      BY <1>1, <2>1, <2>2
    <2>3. CASE ~Filed(o)
      <3>1. dent[o].size = 0
        BY <1>0, <2>3 DEF Filed, DentsTyped, IsDent
      <3> QED
        BY <2>1, <3>1, MountViews, Blank, NodeOfFields
    <2> QED
      BY <2>2, <2>3
  <1>4. NotLonger'
    <2>1. \A o \in Objs : dent[o].size \in Nat
      BY <1>0 DEF DentsTyped, IsDent
    <2> QED
      BY <1>0, <1>3, <2>1 DEF NotLonger
  <1>5. Unread'
    BY <1>0, <1>3, ObjectSet DEF Unread
  <1> QED
    BY <1>2, <1>4, <1>5

(* chains are complete,                                                     *)
LEMMA MountFull ==
    ASSUME MountsAs, Basic, Laid, Untorn PROVE Full' /\ Starts' /\ Ended'
  <1>0. DentsTyped /\ dent' = dent /\ pc' = "idle" /\ dmap \subseteq Clusters /\ RootNode.size > 0
    BY DEF Basic, Typed, DeviceTyped, MountsAs
  <1>1. \A o : Length(o)' = View(o)'.size
    BY <1>0, Lengths DEF Mid
  <1>2. View(ROOT)' = RootNode
    BY RootOnDisk
  <1>3. \A j \in 0 .. RootNode.size - 1 : At(ROOT, j)' \in Clusters
    BY <1>0, RootNodeIs, RootOnDisk DEF Valid
  <1>4. \A n : n = RootNode.size => At(ROOT, n)' = END
    BY <1>0, RootNodeIs, RootOnDisk
  <1>5. ASSUME NEW o \in Objs, NEW i \in 0 .. View(o)'.size - 1 PROVE At(o, i)' \in Clusters
    <2>1. View(o)' = NodeOf(dent[o])
      BY <1>5, MountViews, Blank
    <2>2. View(o)'.size = dent[o].size /\ dent[o].size \in Nat
      BY <1>0, <2>1, NodeOfFields DEF DentsTyped, IsDent
    <2>3. Filed(o) /\ i \in Nat /\ i < dent[o].size
      BY <1>5, <2>2 DEF Filed
    <2>4. DSits(o) /\ DiskAt(o, i) \in dmap
      BY <2>3 DEF Laid, Covered
    <2> QED
      BY <1>0, <2>4, MountAt
  <1>6. Full'
    <2> SUFFICES ASSUME NEW o \in Objects, NEW i \in Place(o)' PROVE At(o, i)' \in Clusters
      BY DEF Full
    <2>1. i \in 0 .. View(o)'.size - 1
      BY <1>1 DEF Place
    <2>2. CASE o = ROOT
      BY <1>2, <1>3, <2>1, <2>2
    <2>3. CASE o \in Objs
      BY <1>5, <2>1, <2>3
    <2> QED
      BY <2>2, <2>3, ObjectSet
  <1>7. Ended'
    <2>1. PICK n : n = Length(ROOT)'
      OBVIOUS
    <2>2. At(ROOT, n)' = END
      BY <1>1, <1>2, <1>4, <2>1
    <2>3. At(ROOT, Length(ROOT))' = END
      BY <2>1, <2>2, AtIs
    <2> QED
      BY <2>3 DEF Ended
  <1>8. Starts'
    <2> SUFFICES ASSUME NEW o \in Objects, View(o)'.size = 0 PROVE View(o)'.start = FREE
      BY DEF Starts
    <2>1. CASE o = ROOT
      BY <1>0, <1>2, <2>1, RootNodeIs, ExfatAssumption
    <2>2. CASE o \in Objs
      <3>1. CASE View(o)' = NoNode
        BY <3>1, Blank
      <3>2. CASE View(o)' = NodeOf(dent[o])
        BY <2>2, <3>2, NodeOfFields DEF Untorn, Proper
      <3> QED
        BY <2>2, <3>1, <3>2, MountViews
    <2> QED
      BY <2>1, <2>2, ObjectSet
  <1> QED
    BY <1>6, <1>7, <1>8

(* At rest there is nothing a call could have left undone. *)
LEMMA RestSmooth ==
    ASSUME Return PROVE Smooth' /\ CutFull' /\ ~Gone'
  BY DEF Return, Smooth, CutFull, CutSmooth, Gone, Fresher, NewDir, Cutting, FlushAt

(* and the bitmap covers what the entries have.                             *)
LEMMA MountMapped ==
    ASSUME MountsAs, Basic, Laid, Untorn, cmap' = dmap, dmap' = dmap PROVE Mapped'
  <1>0. DentsTyped /\ dent' = dent
    BY DEF Basic, Typed, DeviceTyped, MountsAs
  <1> SUFFICES ASSUME NEW o \in Objs, NEW i \in Nat, i < dent[o].size PROVE At(o, i)' \in dmap
    BY <1>0 DEF Mapped
  <1>1. Filed(o)
    BY <1>0 DEF Filed, DentsTyped, IsDent
  <1>2. DSits(o) /\ DiskAt(o, i) \in dmap
    BY <1>1 DEF Laid, Covered
  <1> QED
    BY <1>2, MountAt

(* Laid is about FAT, entries and bitmap.                                   *)
LEMMA LaidSame ==
    ASSUME Laid, UNCHANGED <<fat, dent, dmap, sysents>> PROVE Laid'
  <1>1. ASSUME NEW o \in Objects, NEW i PROVE DiskAt(o, i)' = DiskAt(o, i)
    <2>1. CASE o = ROOT
      BY <2>1, DiskAtIs
    <2>2. CASE o \in Objs
      BY <2>2, DiskAtIs
    <2> QED
      BY <1>1, <2>1, <2>2, ObjectSet
  <1>2. ASSUME NEW n \in Nat, RootEnds(n) PROVE RootEnds(n)'
    BY <1>1, <1>2, ObjectSet DEF RootEnds
  <1>3. ASSUME NEW o \in Objs, DSits(o) PROVE DSits(o)'
    BY <1>1, <1>3, ObjectSet DEF DSits
  <1>4. ASSUME NEW o \in Objs, Covered(o) PROVE Covered(o)'
    BY <1>1, <1>4, ObjectSet DEF Covered
  <1>5. \A o \in Objs : Filed(o)' => Filed(o)
    BY DEF Filed
  <1> QED
    BY <1>2, <1>3, <1>4, <1>5 DEF Laid

(* Entries that stay or go are whole.                                       *)
LEMMA UntornSame ==
    ASSUME Untorn, \A o \in Objs : dent'[o] = dent[o] \/ dent'[o] = NoDent PROVE Untorn'
  <1>1. Proper(NoDent)
    BY Blank DEF Proper
  <1> QED
    BY <1>1 DEF Untorn, Proper

(* Between calls the device is laid out, mounted or not.                    *)
LEMMA LaidNow ==
    ASSUME IInv, KInv, RInv, Flawless, pc \in {"idle", "mount"}, vbr
    PROVE  Laid
  <1>1. CASE g_initialized
    BY <1>1, HealthyLaid DEF RInv, KInv, Flawless
  <1>2. CASE ~g_initialized
    BY <1>2 DEF RInv, Formatting
  <1> QED
    BY <1>1, <1>2

(* A mount keeps the invariant,                                             *)
LEMMA RInvMount ==
    ASSUME IInv, IInv', KInv, RInv, Mount PROVE RInv'
  <1>0. Basic /\ pc = "mount" /\ pc' = "idle" /\ Return /\ UNCHANGED device
    BY DEF IInv, Mount, Return
  <1>1. Formed'
    BY <1>0 DEF Formed
  <1> SUFFICES ASSUME Flawless'
               PROVE  /\ Untorn'
                      /\ ~g_initialized' /\ pc' \notin Formatting /\ vbr' => Laid'
                      /\ g_initialized' => Healthy'
    BY <1>1 DEF RInv
  <1>2. ~Fails
    BY <1>0, NoFault DEF Flawless
  <1>3. Flawless
    BY <1>2, MountIs DEF Flawless, Mount, Ok
  <1>4. Untorn
    BY <1>3 DEF RInv
  <1>5. Untorn'
    BY <1>0, <1>4 DEF Untorn, device
  <1>6. vbr' => Laid'
    BY <1>0, <1>3, LaidNow, LaidSame DEF device
  <1>7. ASSUME g_initialized' = TRUE PROVE Healthy'
    <2>1. MountsAs
      BY <1>7, MountIs
    <2>2. Mountable /\ cmap' = dmap /\ dmap' = dmap
      BY <1>7, <1>0 DEF Mount, device
    <2>3. vbr = TRUE /\ sysents = TRUE
      BY <2>2, <1>0 DEF Mountable, Basic, Typed, DeviceTyped
    <2>4. Laid
      BY <1>0, <1>3, <2>3, LaidNow
    <2>5. Entered' /\ Lodged' /\ Agrees' /\ NotLonger' /\ Unread' /\ Full' /\ Starts' /\ Ended' /\ Mapped'
      <3>1. DentsTyped
        BY <1>0 DEF Basic, Typed, DeviceTyped
      <3> QED
        BY <1>0, <1>4, <2>1, <2>2, <2>4, <3>1, MountEntered, MountLodged, MountAgrees, MountFull, MountMapped
    <2> QED
      BY <1>0, <2>3, <2>5, RestSmooth DEF Healthy, device
  <1>8. g_initialized' \in BOOLEAN
    BY DEF IInv, Basic, Typed, MemoryTyped
  <1> QED
    BY <1>5, <1>6, <1>7, <1>8

(* so does a stop of the machine between calls (inside one it is a fault),  *)
LEMMA RInvCrash ==
    ASSUME IInv, KInv, RInv, Crash PROVE RInv'
  <1>0. Basic /\ pc' = "idle" /\ UNCHANGED <<device, sound>> /\ ~g_initialized'
    BY DEF IInv, Crash, Return
  <1>1. Formed'
    BY <1>0 DEF Formed
  <1> SUFFICES ASSUME Flawless'
               PROVE  /\ Untorn'
                      /\ vbr' => Laid'
    BY <1>0, <1>1 DEF RInv
  <1>2. ~Fails
    BY <1>0, NoFault DEF Flawless
  <1>3. Flawless /\ pc = "idle"
    BY <1>0, <1>2 DEF Flawless, Crash, Ok
  <1>4. Untorn'
    BY <1>0, <1>3 DEF RInv, Untorn, device
  <1> QED
    BY <1>0, <1>3, <1>4, LaidNow, LaidSame DEF device

(* a volume is laid out once it is formatted,                               *)
LEMMA FormattedLaid ==
    ASSUME fat[4] = END, fat' = fat, sysents' = TRUE, dent' = [o \in Objs |-> NoDent]
    PROVE  Laid' /\ Untorn'
  <1>1. 4 \in Clusters
    BY ClusterSet DEF System
  <1>2. PICK fb, ct, s : fb = fat' /\ ct = FALSE /\ s = 4
    OBVIOUS
  <1>a. WalkIn(fb, ct, s)[0] = s /\ WalkIn(fb, ct, s)[0 + 1] = Step(fb, ct, WalkIn(fb, ct, s)[0])
    BY WalkIs
  <1>b. WalkIn(fb, ct, s)[1] = END
    <2>1. 0 + 1 = 1
      OBVIOUS
    <2> QED
      BY <1>1, <1>2, <1>a, <2>1 DEF Step
  <1>3. DiskAt(ROOT, 0)' = 4 /\ DiskAt(ROOT, 1)' = END
    BY <1>2, <1>a, <1>b, DiskAtIs
  <1>4. RootEnds(1)'
    <2>1. \A j \in 0 .. 1 - 1 : j = 0
      OBVIOUS
    <2> QED
      BY <1>1, <1>3, <2>1, ExfatAssumption DEF RootEnds
  <1>5. \A o \in Objs : dent'[o] = NoDent
    OBVIOUS
  <1>6. \A o \in Objs : ~Filed(o)'
    BY <1>5, Blank DEF Filed
  <1>7. Untorn'
    BY <1>5, Blank DEF Untorn, Proper
  <1>8. \E n \in Nat : RootEnds(n)'
    BY <1>4
  <1> QED
    BY <1>6, <1>7, <1>8 DEF Laid

(* and formatting keeps the invariant.                                      *)
LEMMA RInvFormat ==
    ASSUME IInv, IInv', RInv,
           exfat_format \/ EraseVbr \/ Erase \/ MakeVbr \/ MakeFat \/ MakeBitmap \/ MakeTable \/ MakeRoot
    PROVE  RInv'
  <1>0. Basic /\ ~g_initialized' /\ (faults' = 0 => faults = 0 /\ ~Fails)
    <2>1. Basic
      BY DEF IInv
    <2>2. faults' = 0 => ~Fails
      BY <2>1, NoFault
    <2>3. faults' = faults \/ Fails
      BY DEF Ok, exfat_format, EraseVbr, Erase, MakeVbr, MakeFat, MakeBitmap, MakeTable, MakeRoot
    <2>4. pc \in Formatting \/ ~g_initialized
      BY DEF Formatting, exfat_format, EraseVbr, Erase, MakeVbr, MakeFat, MakeBitmap, MakeTable, MakeRoot
    <2>5. g_initialized' = g_initialized
      BY DEF memory, exfat_format, EraseVbr, Erase, MakeVbr, MakeFat, MakeBitmap, MakeTable, MakeRoot
    <2> QED
      BY <2>1, <2>2, <2>3, <2>4, <2>5 DEF Basic, Control
  <1>1. CASE MakeRoot
    <2>1. pc = "mkroot" /\ pc' = "idle"
      BY <1>1 DEF MakeRoot, Return
    <2>2. Formed'
      BY <2>1 DEF Formed
    <2>3. ASSUME Flawless' PROVE Laid' /\ Untorn'
      <3>1. fat[4] = END
        BY <2>1 DEF RInv, Formed
      <3>2. fat' = fat /\ sysents' = TRUE /\ dent' = [o \in Objs |-> NoDent]
        BY <1>0, <1>1, <2>3 DEF MakeRoot, Flawless
      <3> QED
        BY <3>1, <3>2, FormattedLaid
    <2> QED
      BY <1>0, <2>2, <2>3 DEF RInv
  <1>2. CASE ~MakeRoot
    <2>1. sound' = sound
      BY <1>2 DEF seen, exfat_format, EraseVbr, Erase, MakeVbr, MakeFat, MakeBitmap, MakeTable
    <2>2. \A o \in Objs : dent'[o] = dent[o] \/ dent'[o] = NoDent
      BY <1>2 DEF device, Overwritten, exfat_format, EraseVbr, Erase, MakeVbr, MakeFat, MakeBitmap, MakeTable
    <2>3. faults' = 0 => pc' \in Formatting
      BY <1>0, <1>2 DEF Goto, Formatting, exfat_format, EraseVbr, Erase, MakeVbr, MakeFat, MakeBitmap, MakeTable
    <2>4. Formed'
      <3>1. CASE pc' = "idle"
        BY <3>1 DEF Formed
      <3>2. CASE exfat_format \/ EraseVbr \/ Erase \/ MakeVbr
        BY <3>2 DEF Formed, Goto, Return, exfat_format, EraseVbr, Erase, MakeVbr
      <3>3. CASE MakeFat /\ pc' # "idle"
        <4>1. pc = "mkfat" /\ pc' = "mkcbm" /\ vbr' = vbr /\ fat' = [fat EXCEPT ![2] = END, ![3] = END, ![4] = END]
          BY <3>3 DEF MakeFat, Goto, Return
        <4>2. fat'[4] = END
          BY <1>0, <4>1, ClusterSet DEF System, Basic, Typed, DeviceTyped
        <4> QED
          BY <4>1, <4>2 DEF RInv, Formed
      <3>4. CASE MakeBitmap \/ MakeTable
        BY <3>4 DEF RInv, Formed, Goto, Return, MakeBitmap, MakeTable, device
      <3> QED
        BY <1>2, <3>1, <3>2, <3>3, <3>4
    <2>5. Flawless' => Untorn'
      BY <1>0, <2>1, <2>2, UntornSame DEF RInv, Flawless
    <2> QED
      BY <1>0, <2>3, <2>4, <2>5 DEF RInv, Flawless
  <1> QED
    BY <1>1, <1>2

-----------------------------------------------------------------------------
(* Steps that write no entry.                                               *)

(* Steps that change at most which nodes are dirty: every file is the same  *)
(* to the program,                                                          *)
LEMMA StillAll ==
    ASSUME Still, NEW o \in Objects
    PROVE  /\ View(o)'.at = View(o).at /\ View(o)'.start = View(o).start
           /\ View(o)'.size = View(o).size /\ View(o)'.contig = View(o).contig
           /\ \A i : At(o, i)' = At(o, i)
  <1>1. ViewSame(o)
    BY StillView
  <1> QED
    BY <1>1, ViewSameIs, CalmAt DEF Still

(* and to a mount;                                                          *)
LEMMA StillDisk ==
    ASSUME UNCHANGED <<fat, dent>>, NEW o \in Objs PROVE \A i : DiskAt(o, i)' = DiskAt(o, i)
  BY DiskAtIs

(* one lemma for each part of Healthy. Nodes have their entries,            *)
LEMMA StillEntered ==
    ASSUME Still, Entered, Gone => Gone' /\ obj' = obj PROVE Entered'
  <1> SUFFICES ASSUME NEW o \in Objs, Present(o)', ~(o = obj' /\ Gone')
               PROVE  dent'[o].k = "ok" /\ dent'[o].at = node'[o].at
    BY DEF Entered
  <1>1. dent'[o] = dent[o] /\ node'[o].at = node[o].at
    BY ObjectSet DEF Still, NodesAlike
  <1>2. Present(o) /\ ~(o = obj /\ Gone)
    BY <1>1 DEF Present
  <1> QED
    BY <1>1, <1>2 DEF Entered

(* sit where they sat,                                                      *)
LEMMA StillFound ==
    ASSUME Still, CountsOn, Basic, NEW o \in Objs, Found(o) PROVE Found(o)'
  <1>1. PICK i \in Nat : Counts(Under[o], i) /\ Within(Under[o], i) /\ View(o).at[1] = At(Under[o], i)
    BY DEF Found
  <1>2. PICK d : d = Under[o]
    OBVIOUS
  <1>3. d \in Objects /\ d \in Dirs \union {ROOT} /\ o \in Objects
    BY <1>2, ObjectSet, UnderIs
  <1>4. At(d, i)' = At(d, i) /\ View(o)'.at = View(o).at /\ View(d)'.size = View(d).size
    BY <1>3, StillAll
  <1>5. Counts(d, i)'
    BY <1>1, <1>2, <1>3, <1>4 DEF CountsOn, Counts
  <1>6. Within(d, i)'
    BY <1>1, <1>2 DEF Within, Still
  <1> QED
    BY <1>1, <1>2, <1>4, <1>5, <1>6 DEF Found

(* so do all,                                                               *)
LEMMA StillLodged ==
    ASSUME Still, CountsOn, Basic, Lodged,
           \A o \in Objs : Present(o) /\ Coming(o) => Coming(o)' \/ Found(o)
    PROVE  Lodged'
  <1> SUFFICES ASSUME NEW o \in Objs
               PROVE  /\ Filed(o)' /\ Under[o] \in cached' => Present(o)'
                      /\ Filed(o)' \/ (Present(o)' /\ ~Coming(o)') => Found(o)'
    BY DEF Lodged
  <1>1. Present(o)' <=> Present(o)
    BY ObjectSet DEF Present, Still, NodesAlike
  <1>2. Filed(o)' <=> Filed(o)
    BY DEF Filed, Still
  <1>3. cached' = cached
    BY DEF Still
  <1>4. Found(o) => Found(o)'
    BY StillFound
  <1> QED
    BY <1>1, <1>2, <1>3, <1>4 DEF Lodged

(* files are in the clusters that entries have,                             *)
LEMMA StillAgrees ==
    ASSUME Still, Agrees, Basic, pc \notin Cutting PROVE Agrees'
  <1> SUFFICES ASSUME NEW o \in Objs, NEW i \in Nat, Counts(o, i)', i < dent'[o].size
               PROVE  DiskAt(o, i)' = At(o, i)' /\ SameLinks(o)'
    BY DEF Agrees
  <1>1. i < View(o)'.size
    BY DEF Counts
  <1>2. Counts(o, i) /\ i < dent[o].size
    BY <1>1, StillAll, AllCount, ObjectSet DEF Still
  <1>3. DiskAt(o, i)' = DiskAt(o, i) /\ At(o, i)' = At(o, i)
    BY StillDisk, StillAll, ObjectSet DEF Still
  <1>4. SameLinks(o)'
    BY <1>2, StillAll, ObjectSet DEF Agrees, SameLinks, Still
  <1> QED
    BY <1>2, <1>3, <1>4 DEF Agrees

(* entries are not longer than nodes,                                       *)
LEMMA StillNotLonger ==
    ASSUME Still, NotLonger,
           \A o \in Objs : node[o].dirty = TRUE /\ Behind(o) =>
               (node'[o].dirty = TRUE /\ Behind(o)') \/ dent[o].size <= node[o].size
    PROVE  NotLonger'
  <1> SUFFICES ASSUME NEW o \in Objs, Under[o] \in cached'
               PROVE  dent'[o].size <= node'[o].size \/ (node'[o].dirty = TRUE /\ Behind(o)')
    BY DEF NotLonger
  <1>1. dent'[o] = dent[o] /\ node'[o].size = node[o].size /\ Under[o] \in cached
    BY ObjectSet DEF Still, NodesAlike
  <1> QED
    BY <1>1 DEF NotLonger

(* a directory that was not read is as its entry has it,                    *)
LEMMA StillUnread ==
    ASSUME Still, Unread, pc # "bitmap",
           Fresher => (Fresher' /\ obj' = obj /\ pc' # "bitmap") \/ obj \notin Dirs \/ dent[obj].size = node[obj].size
    PROVE  Unread'
  <1> SUFFICES ASSUME NEW p \in Dirs, Under[p] \in cached', p \notin cached', ~(p = obj' /\ Fresher' /\ pc' # "bitmap")
               PROVE  dent'[p].size = node'[p].size
    BY DEF Unread
  <1>1. dent'[p] = dent[p] /\ node'[p].size = node[p].size /\ cached' = cached
    BY ObjectSet DEF Still, NodesAlike
  <1> QED
    BY <1>1 DEF Unread

(* also after the bitmap is written,                                        *)
LEMMA StillUnreadMap ==
    ASSUME Still, Unread, pc = "bitmap" PROVE Unread'
  <1> SUFFICES ASSUME NEW p \in Dirs, Under[p] \in cached', p \notin cached'
               PROVE  dent'[p].size = node'[p].size
    BY DEF Unread
  <1>1. dent'[p] = dent[p] /\ node'[p].size = node[p].size /\ cached' = cached
    BY ObjectSet DEF Still, NodesAlike
  <1> QED
    BY <1>1 DEF Unread

(* files are as long as they were,                                          *)
LEMMA StillLength ==
    ASSUME Still, pc \notin Mid, pc' \notin Mid, NEW o \in Objects
    PROVE  Length(o)' = Length(o) /\ Length(o) = View(o).size
  BY StillAll, Lengths

(* chains are complete,                                                     *)
LEMMA StillFull ==
    ASSUME Still, Full, Starts, Ended, pc \notin Mid, pc' \notin Mid
    PROVE  Full' /\ CutFull' /\ Starts' /\ Ended'
  <1>1. Full'
    <2> SUFFICES ASSUME NEW o \in Objects, NEW i \in Place(o)' PROVE At(o, i)' \in Clusters
      BY DEF Full
    <2>1. i \in Place(o)
      BY StillLength DEF Place
    <2> QED
      BY <2>1, StillAll DEF Full
  <1>2. CutFull'
    BY DEF CutFull, Mid
  <1>3. Starts'
    BY StillAll DEF Starts
  <1>4. Ended'
    <2>1. PICK n : n = Length(ROOT)
      OBVIOUS
    <2>2. n = Length(ROOT)'
      BY <2>1, StillLength, ObjectSet
    <2>3. At(ROOT, n) = END
      BY <2>1 DEF Ended, Mid
    <2>4. At(ROOT, n)' = END
      BY <2>3, StillAll, ObjectSet
    <2>5. At(ROOT, n)' = At(ROOT, Length(ROOT))'
      BY <2>2, AtIs
    <2> QED
      BY <2>4, <2>5 DEF Ended
  <1> QED
    BY <1>1, <1>2, <1>3, <1>4

(* and the bitmap on the device still covers the entries, or does now that  *)
(* it is written.                                                           *)
LEMMA StillMapped ==
    ASSUME Still, Mapped, Basic, Apart, Full, cmap' = cmap, pc \notin Cutting,
           dmap' = cmap \/ (dmap' = dmap /\ pc # "bitmap" /\ (cmap_dirty' = FALSE => cmap_dirty = FALSE))
    PROVE  Mapped'
  <1>1. cmap_dirty' = FALSE => cmap' = dmap'
    BY DEF Mapped
  <1>2. ASSUME NEW o \in Objs, NEW i \in Nat, Counts(o, i)', i < dent'[o].size PROVE At(o, i)' \in dmap'
    <2>1. i < View(o)'.size
      BY <1>2 DEF Counts
    <2>2. Counts(o, i) /\ i < dent[o].size /\ o \in Objects
      BY <1>2, <2>1, StillAll, AllCount, ObjectSet DEF Still
    <2>3. At(o, i)' = At(o, i)
      BY <2>2, StillAll
    <2>4. At(o, i) \in cmap
      BY <2>2, CountsPlace DEF Full, Apart
    <2> QED
      BY <2>2, <2>3, <2>4 DEF Mapped
  <1> QED
    BY <1>1, <1>2 DEF Mapped

(* A step that leaves entries, links and nodes as they are. *)
LEMMA HealthyStill ==
    ASSUME IInv, Healthy, sound, g_initialized, Still, CountsOn, UNCHANGED <<vbr, sysents, cmap>>,
           pc \notin Cutting, pc' \notin Mid,
           dmap' = cmap \/ (dmap' = dmap /\ pc # "bitmap" /\ (cmap_dirty' = FALSE => cmap_dirty = FALSE)),
           Gone => Gone' /\ obj' = obj,
           \A o \in Objs : Present(o) /\ Coming(o) => Coming(o)' \/ Found(o),
           \A o \in Objs : node[o].dirty = TRUE /\ Behind(o) =>
               (node'[o].dirty = TRUE /\ Behind(o)') \/ dent[o].size <= node[o].size,
           pc # "bitmap" /\ Fresher =>
               (Fresher' /\ obj' = obj /\ pc' # "bitmap") \/ obj \notin Dirs \/ dent[obj].size = node[obj].size,
           Smooth'
    PROVE  Healthy'
  <1>1. Basic /\ Apart /\ Entered /\ Lodged /\ Agrees /\ NotLonger /\ Unread /\ Full /\ Starts /\ Mapped /\ Ended
        /\ vbr = TRUE /\ sysents = TRUE
    BY DEF IInv, Space, Healthy
  <1>2. pc \notin Mid
    BY DEF Mid, Cutting
  <1>3. Entered' /\ Lodged' /\ Agrees' /\ NotLonger'
    BY <1>1, StillEntered, StillLodged, StillAgrees, StillNotLonger
  <1>4. Unread'
    BY <1>1, StillUnread, StillUnreadMap
  <1>5. Full' /\ CutFull' /\ Starts' /\ Ended'
    BY <1>1, <1>2, StillFull
  <1>6. Mapped'
    BY <1>1, StillMapped
  <1> QED
    BY <1>1, <1>3, <1>4, <1>5, <1>6 DEF Healthy

(* Most places in the code are between nothing.                             *)
LEMMA SmoothFree ==
    ASSUME pc' \notin {"bug", "lastflush", "delete", "detach", "dirflush"} \union Cutting \union FlushAt
    PROVE  Smooth' /\ ~Gone' /\ ~Fresher'
  <1>1. pc' # "flush"
    BY DEF FlushAt
  <1>2. ~Gone' /\ ~Fresher'
    BY DEF Gone, Fresher, NewDir
  <1> QED
    BY <1>1, <1>2 DEF Smooth, CutSmooth

(* In the middle of no entry's change. *)
LEMMA PlainPc ==
    ASSUME pc \in {"idle", "slot", "commit", "created", "fail", "next", "unmount", "lastflush", "done", "read", "lookup"}
    PROVE  /\ ~Gone /\ ~Fresher /\ pc \notin Cutting /\ pc # "bitmap"
           /\ \A o : ~Coming(o) /\ ~Behind(o)
  BY DEF Gone, Fresher, NewDir, Coming, Behind, Cutting, FlushAt

(* A step from there that changes at most which nodes are dirty.            *)
LEMMA HealthyPlain ==
    ASSUME IInv, Healthy, sound, g_initialized, Still, CountsOn, UNCHANGED <<vbr, sysents, cmap, cmap_dirty, dmap>>,
           pc \in {"idle", "slot", "commit", "created", "fail", "next", "unmount", "lastflush", "done", "read", "lookup"},
           pc' \notin Mid, Smooth'
    PROVE  Healthy'
  BY PlainPc, HealthyStill

(* A call begins;                                                           *)
LEMMA RestOpens ==
    ASSUME IInv, IInv', Healthy, sound, g_initialized, exfat_init \/ Opens
    PROVE  Healthy'
  <1>0. Basic /\ Basic'
    BY DEF IInv
  <1>1. pc = "idle" /\ pc' \in {"mount", "lookup"} /\ UNCHANGED <<fat, data, dent, cached, node>>
        /\ UNCHANGED <<vbr, sysents, cmap, cmap_dirty, dmap>>
    BY DEF exfat_init, Opens, exfat_write_file, exfat_create_dir_path, exfat_read_file, exfat_get_file_info, Call,
           device, memory
  <1>2. Still /\ CountsOn
    BY <1>0, <1>1, SameStill, CountsGo DEF Cutting
  <1>3. Smooth' /\ pc' \notin Mid
    BY <1>1, SmoothFree DEF Cutting, FlushAt, Mid
  <1> QED
    BY <1>1, <1>2, <1>3, HealthyPlain

(* find_slot;                                                               *)
LEMMA RestFindSlot ==
    ASSUME IInv, IInv', Healthy, sound, g_initialized, FindSlot
    PROVE  Healthy'
  <1>0. Basic /\ Basic'
    BY DEF IInv
  <1>1. UNCHANGED <<fat, data, dent, cached, node>> /\ pc = "slot" /\ pc \in InDir
        /\ UNCHANGED <<vbr, sysents, cmap, cmap_dirty, dmap>>
    BY DEF FindSlot, device, memory, InDir
  <1>2. Under[obj] \in Objects /\ (Under[obj] = ROOT \/ Under[Under[obj]] \in cached)
        /\ IsNode(node[Under[obj]]) /\ obj \in Objs
    BY <1>0, <1>1, BusyFacts
  <1>3. CASE Goto("fail") \/ Goto("commit")
    <2>1. pc' \in {"fail", "commit"}
      BY <1>3 DEF Goto
    <2>2. Still /\ CountsOn
      BY <1>0, <1>1, <2>1, SameStill, CountsGo DEF Cutting
    <2>3. Smooth' /\ pc' \notin Mid
      BY <2>1, SmoothFree DEF Cutting, FlushAt, Mid
    <2> QED
      BY <1>1, <2>2, <2>3, HealthyPlain
  <1>4. CASE Truncating(Under[obj], node[Under[obj]].size + 1, "commit", "fail")
    <2>1. pc' = "truncate" /\ t'.o = Under[obj] /\ t'.to = node[Under[obj]].size + 1 /\ t'.k = "commit" /\ t'.undo = FALSE
      BY <1>4 DEF Truncating, NoT
    <2>2. \A q : q = t'.o => View(q)'.size <= t'.to
      <3> SUFFICES ASSUME NEW q, q = Under[obj] PROVE View(q)'.size <= t'.to
        BY <2>1
      <3>1. View(q)' = node'[q]
        <4>1. q = ROOT \/ (q \in Objs /\ Under[q] \in cached')
          BY <1>1, <1>2, UnderIs
        <4> QED
          BY <4>1, ViewIs
      <3>2. node'[q].size = node[q].size /\ node[q].size \in Nat
        BY <1>1, <1>2 DEF IsNode
      <3> QED
        BY <2>1, <3>1, <3>2
    <2>3. Still /\ CountsOn
      BY <1>0, <1>1, <2>2, SameStill, CountsGo
    <2>4. ~Gone' /\ ~Fresher'
      BY <2>1 DEF Gone, Fresher, NewDir, FlushAt
    <2>5. Smooth' /\ pc' \notin Mid
      BY <1>1, <2>1, <2>4 DEF Smooth, CutSmooth, Mid
    <2> QED
      BY <1>1, <2>3, <2>5, HealthyPlain
  <1> QED
    BY <1>3, <1>4 DEF FindSlot

(* create goes on to exfat_truncate;                                        *)
LEMMA RestCreated ==
    ASSUME IInv, IInv', Script, Healthy, sound, g_initialized, Created
    PROVE  Healthy'
  <1>0. Basic /\ Basic'
    BY DEF IInv
  <1>1. UNCHANGED <<fat, data, dent, cached, node, obj>> /\ pc = "created" /\ pc \in InDir
        /\ UNCHANGED <<vbr, sysents, cmap, cmap_dirty, dmap>>
    BY DEF Created, device, memory, InDir, Truncating, call
  <1>2. obj \in Objs /\ Under[obj] \in cached /\ IsNode(node[obj])
    BY <1>0, <1>1, BusyFacts
  <1>3. node[obj].size = 0 /\ Present(obj) /\ op \in {"write", "mkdir"} /\ (op = "write" => obj \in Files)
    BY <1>1 DEF Script, Object, Newborn, WithNode, Course
  <1>4. pc' = "truncate" /\ t'.o = obj /\ t'.undo = FALSE
        /\ (op = "write" => t'.k = "data") /\ (op # "write" => t'.k = "dirflush" /\ t'.to = 1)
    BY DEF Created, Truncating, NoT
  <1>5. t'.o \in Files \/ \A q : q = t'.o => View(q)'.size <= t'.to
    <2>1. View(obj)' = node'[obj] \/ obj # obj'
      BY <1>1, <1>2, ViewIs
    <2>2. \A q : q = obj => View(q)' = node'[q]
      BY <1>1, <1>2, ViewIs
    <2> QED
      BY <1>1, <1>3, <1>4, <2>2
  <1>6. Still /\ CountsOn
    BY <1>0, <1>1, <1>5, SameStill, CountsGo
  <1>7. ~Gone' /\ (Fresher' => Present(obj)')
    BY <1>1, <1>3, <1>4 DEF Gone, FlushAt, Present
  <1>8. Smooth' /\ pc' \notin Mid
    BY <1>1, <1>3, <1>4, <1>7 DEF Smooth, CutSmooth, Mid
  <1> QED
    BY <1>1, <1>6, <1>8, HealthyPlain

(* steps that only go on;                                                   *)
LEMMA RestMoves ==
    ASSUME IInv, IInv', Healthy, sound, g_initialized, Failed \/ PathDone \/ UnmountNode \/ UnmountNodesDone \/ WriteDone
    PROVE  Healthy'
  <1>0. Basic /\ Basic'
    BY DEF IInv
  <1>1. UNCHANGED <<fat, data, dent, cached, node>> /\ pc \in {"fail", "next", "unmount", "done"}
        /\ UNCHANGED <<vbr, sysents, cmap, cmap_dirty, dmap>>
    BY DEF Failed, PathDone, UnmountNode, UnmountNodesDone, WriteDone, device, memory
  <1>2. pc' \in {"idle", "unmount"} \/ (pc' = "flush" /\ f'.k = "unmount" /\ f'.kf = "lastflush" /\ Present(f'.o)) \/ (pc' = "lastflush" /\ Dirty = {})
    <2>1. CASE Failed \/ WriteDone
      BY <2>1 DEF Failed, WriteDone, Return
    <2>2. CASE UnmountNode
      <3>1. PICK o : Flushing(o, "unmount", "lastflush") /\ Present(o)
        BY <2>2 DEF UnmountNode, Dirty
      <3>2. f'.o = o
        BY <3>1 DEF Flushing
      <3>3. Present(f'.o)
        BY <3>1, <3>2 DEF Present
      <3> QED
        BY <3>1, <3>3 DEF Flushing
    <2>3. CASE UnmountNodesDone
      BY <2>3 DEF UnmountNodesDone, Goto
    <2>4. CASE PathDone
      BY <2>4 DEF PathDone, Goto
    <2> QED
      BY <2>1, <2>2, <2>3, <2>4
  <1>3. Still /\ CountsOn
    BY <1>0, <1>1, <1>2, SameStill, CountsGo DEF Cutting
  <1>4. Smooth'
    <2>1. ~Gone' /\ ~Fresher'
      BY <1>2 DEF Gone, Fresher, NewDir, FlushAt, Cutting
    <2>2. Dirty = {} => Dirty' = {}
      BY <1>1 DEF Dirty, Present
    <2>3. Present(f'.o) => Present(f.o)'
      BY <1>1 DEF Present
    <2> QED
      BY <1>2, <2>1, <2>2, <2>3 DEF Smooth, CutSmooth, Cutting
  <1>5. pc' \notin Mid
    BY <1>2 DEF Mid
  <1> QED
    BY <1>1, <1>3, <1>4, <1>5, HealthyPlain

(* the next component of a path;                                            *)
LEMMA RestNext ==
    ASSUME IInv, IInv', Healthy, sound, g_initialized, NEW d \in Dirs, NextComponent(d)
    PROVE  Healthy'
  <1>0. Basic /\ Basic'
    BY DEF IInv
  <1>1. pc = "next" /\ pc' = "lookup" /\ UNCHANGED <<fat, data, dent, cached, node>>
        /\ UNCHANGED <<vbr, sysents, cmap, cmap_dirty, dmap>>
    BY DEF NextComponent, device, memory
  <1>2. Still /\ CountsOn
    BY <1>0, <1>1, SameStill, CountsGo DEF Cutting
  <1>3. Smooth' /\ pc' \notin Mid
    BY <1>1, SmoothFree DEF Cutting, FlushAt, Mid
  <1> QED
    BY <1>1, <1>2, <1>3, HealthyPlain

(* a file is read.                                                          *)
LEMMA RestRead ==
    ASSUME IInv, IInv', Healthy, sound, g_initialized, ReadData
    PROVE  Healthy'
  <1>0. Basic /\ Basic'
    BY DEF IInv
  <1>1. pc = "read" /\ pc' = "idle" /\ UNCHANGED <<vbr, sysents, cmap, cmap_dirty, dmap>>
    BY DEF ReadData, device, Return
  <1>2. Still /\ CountsOn
    BY <1>0, <1>1, StillReadData, CountsGo DEF Cutting
  <1>3. Smooth' /\ pc' \notin Mid
    BY <1>1, SmoothFree DEF Cutting, FlushAt, Mid
  <1> QED
    BY <1>1, <1>2, <1>3, HealthyPlain

(* A new directory is about to be flushed,                                  *)
LEMMA RestDirFlush ==
    ASSUME IInv, IInv', Healthy, sound, g_initialized, DirFlush
    PROVE  Healthy'
  <1>0. Basic /\ Basic' /\ Smooth
    BY DEF IInv, Healthy
  <1>1. UNCHANGED <<fat, data, dent, cached, node, obj>> /\ pc = "dirflush"
        /\ UNCHANGED <<vbr, sysents, cmap, cmap_dirty, dmap>>
    BY DEF DirFlush, device, memory, Flushing, call
  <1>2. pc' = "flush" /\ f'.k = "next" /\ f'.kf = "delete"
    BY DEF DirFlush, Flushing
  <1>3. Still /\ CountsOn
    BY <1>0, <1>1, <1>2, SameStill, CountsGo DEF Cutting
  <1>4. ~Gone /\ ~Gone' /\ Fresher /\ Fresher' /\ pc' # "bitmap" /\ pc \notin Cutting /\ pc' \notin Mid
    BY <1>1, <1>2 DEF Gone, Fresher, NewDir, FlushAt, Cutting, Mid
  <1>5. \A o : ~Coming(o) /\ ~Behind(o)
    BY <1>1 DEF Coming, Behind
  <1>6. Present(obj) /\ node[obj].dirty = TRUE
    BY <1>0, <1>1, <1>4 DEF Smooth
  <1>7. Smooth'
    <2>1. Present(obj)'
      BY <1>1, <1>6 DEF Present
    <2> QED
      BY <1>1, <1>2, <1>4, <1>6, <2>1 DEF Smooth, CutSmooth, Cutting
  <1> QED
    BY <1>1, <1>3, <1>4, <1>5, <1>7, HealthyStill

(* or a directory after a deletion.                                         *)
LEMMA RestDeleteFlush ==
    ASSUME IInv, IInv', Healthy, sound, g_initialized, DeleteFlush
    PROVE  Healthy'
  <1>0. Basic /\ Basic'
    BY DEF IInv
  <1>1. UNCHANGED <<fat, data, dent, cached, node, obj>> /\ pc = "delflush"
        /\ UNCHANGED <<vbr, sysents, cmap, cmap_dirty, dmap>>
    BY DEF DeleteFlush, device, memory, Flushing, call
  <1>2. pc' = "flush" /\ f'.k = "fail" /\ f'.kf = "fail" /\ f'.o = Under[obj]
    BY DEF DeleteFlush, Flushing
  <1>3. Still /\ CountsOn
    BY <1>0, <1>1, <1>2, SameStill, CountsGo DEF Cutting
  <1>4. ~Gone /\ ~Gone' /\ ~Fresher /\ ~Fresher' /\ pc \notin Cutting /\ pc' \notin Mid
    BY <1>1, <1>2 DEF Gone, Fresher, NewDir, FlushAt, Cutting, Mid
  <1>5. \A o : ~Coming(o)
    BY <1>1 DEF Coming
  <1>6. \A o : Behind(o) => Behind(o)'
    BY <1>1, <1>2 DEF Behind
  <1>7. Smooth'
    BY <1>2, <1>4 DEF Smooth, CutSmooth, Cutting
  <1> QED
    BY <1>1, <1>3, <1>4, <1>5, <1>6, <1>7, HealthyStill

(* exfat_flush leaves the bitmap of memory on the device: if it was not     *)
(* marked dirty it was there already.                                       *)
LEMMA BitmapWritten ==
    ASSUME WriteBitmap, Mapped, Basic PROVE dmap' = cmap
  BY DEF WriteBitmap, Mapped, Basic, Typed, MemoryTyped

(* exfat_unmount writes the bitmap.                                         *)
LEMMA RestUnmount ==
    ASSUME IInv, IInv', Healthy, sound, g_initialized, Unmount, ~Fails
    PROVE  Healthy'
  <1>0. Basic /\ Basic' /\ Smooth /\ Mapped
    BY DEF IInv, Healthy
  <1>1. UNCHANGED <<fat, data, dent, cached, node>> /\ pc = "lastflush" /\ UNCHANGED <<vbr, sysents, cmap>>
    BY DEF Unmount
  <1>2. dmap' = cmap
    BY <1>0, BitmapWritten DEF Unmount
  <1>3. pc' = "mount"
    BY <1>0, <1>1 DEF Unmount, Goto, Smooth
  <1>4. Still /\ CountsOn
    BY <1>0, <1>1, <1>3, SameStill, CountsGo DEF Cutting
  <1>5. Smooth' /\ pc' \notin Mid
    BY <1>3, SmoothFree DEF Cutting, FlushAt, Mid
  <1> QED
    BY <1>1, <1>2, <1>4, <1>5, PlainPc, HealthyStill

(* What a flush is for.                                                     *)
LEMMA FlushPc ==
    ASSUME Basic, Script, pc \in FlushAt
    PROVE  /\ f.k \in FlushThen /\ f.kf \in FlushElse /\ FlushFor
           /\ obj \in Objects /\ (f.kf # "lastflush" => obj \in Objs /\ Under[obj] \in cached)
           /\ f.o \in Objects /\ (f.o # ROOT => f.o \in Objs /\ Under[f.o] \in cached)
  <1>1. f.k \in FlushThen /\ f.kf \in FlushElse /\ FlushFor /\ (f.o = ROOT \/ Under[f.o] \in cached)
    BY DEF Basic, Control, Script, Course
  <1>2. f.o \in Objects /\ obj \in Objects
    BY DEF Basic, Typed, CallTyped, IsFlush
  <1>3. f.kf # "lastflush" => obj \in Objs /\ Under[obj] \in cached
    BY DEF Basic, Control, Busy, Placed
  <1> QED
    BY <1>1, <1>2, <1>3, ObjectSet

(* What holds where a flush has ended. *)
LEMMA SmoothFlushed ==
    ASSUME Basic, Script, Smooth, pc \in FlushAt, FlushDone(f.k), NodesAlike, UNCHANGED dent
    PROVE  /\ Smooth' /\ (Gone => Gone' /\ obj' = obj) /\ (Gone => Fresher' /\ pc' # "bitmap")
           /\ pc' \notin Mid \union Cutting \union FlushAt
  <1>1. pc' = f.k /\ obj' = obj /\ f.k \in FlushThen /\ obj \in Objects
    BY FlushPc DEF FlushDone, call
  <1>2. pc' \notin Mid \union Cutting \union FlushAt
    BY <1>1 DEF FlushThen, Mid, Cutting, FlushAt
  <1>3. f.k = "detach" => Gone /\ Fresher
    BY DEF Gone, Fresher, NewDir
  <1>4. Gone <=> f.k = "detach"
    BY <1>3 DEF Gone, FlushAt
  <1>5. Gone' <=> f.k = "detach"
    BY <1>1, <1>2 DEF Gone
  <1>6. Fresher' <=> f.k = "detach"
    BY <1>1, <1>2 DEF Fresher, NewDir, FlushThen
  <1>7. CASE f.k = "detach"
    <2>1. node[obj].size = 0 /\ dent[obj] = NoDent /\ Present(obj)
      BY <1>3, <1>7 DEF Smooth
    <2>2. node'[obj].size = 0 /\ dent'[obj'] = NoDent /\ Present(obj)'
      BY <1>1, <2>1 DEF NodesAlike, Present
    <2>3. Smooth'
      BY <1>1, <1>2, <1>7, <2>2 DEF Smooth, CutSmooth, FlushAt
    <2> QED
      BY <1>1, <1>2, <1>4, <1>5, <1>6, <1>7, <2>3
  <1>8. CASE f.k # "detach"
    <2>1. pc' \notin {"bug", "lastflush", "delete", "detach", "dirflush"} \union Cutting \union FlushAt
      BY <1>1, <1>2, <1>8 DEF FlushThen
    <2> QED
      BY <1>2, <1>4, <1>8, <2>1, SmoothFree
  <1> QED
    BY <1>7, <1>8

(* exfat_flush_node with nothing to write, for the root or a clean node. A  *)
(* new entry in the root is lodged at once, as the root has no entry of its *)
(* own to be flushed.                                                       *)
LEMMA RestFlushNothing ==
    ASSUME IInv, IInv', Script, Seated, Healthy, sound, g_initialized, FlushNothing
    PROVE  Healthy'
  <1>0. Basic /\ Basic' /\ Smooth
    BY DEF IInv, Healthy
  <1>1. UNCHANGED <<fat, data, dent, cached, node>> /\ pc = "flush" /\ pc \in FlushAt /\ FlushDone(f.k)
        /\ UNCHANGED <<vbr, sysents, cmap, cmap_dirty, dmap>> /\ (f.o = ROOT \/ ~node[f.o].dirty)
    BY DEF FlushNothing, device, memory, FlushAt
  <1>2. Still /\ CountsOn
    BY <1>0, <1>1, SameStill, FlushGoes DEF Flushes
  <1>3. FlushFor /\ f.o \in Objects /\ obj \in Objects /\ (f.kf # "lastflush" => obj \in Objs /\ Under[obj] \in cached)
    BY <1>0, <1>1, FlushPc
  <1>4. Smooth' /\ (Gone => Gone' /\ obj' = obj) /\ (Gone => Fresher' /\ pc' # "bitmap") /\ pc' \notin Mid
    BY <1>0, <1>1, <1>2, SmoothFlushed DEF Still
  <1>5. ASSUME NEW o \in Objs, Present(o), Coming(o) PROVE Found(o)
    <2>1. o = obj /\ f.k = "created" /\ f.o = Under[o]
      BY <1>3, <1>5 DEF Coming, FlushFor
    <2>2. Under[o] = ROOT
      BY <1>0, <1>1, <2>1 DEF Smooth
    <2>3. Sits(o)
      BY <1>5 DEF Seated
    <2> QED
      BY <2>2, <2>3 DEF Sits, Found, Within
  <1>6. ASSUME NEW o \in Objs, node[o].dirty = TRUE, Behind(o) PROVE FALSE
    <2>1. o = f.o
      BY <1>1, <1>6 DEF Behind
    <2> QED
      BY <1>1, <1>6, <2>1, ObjectSet
  <1>7. Fresher => Gone
    <2>1. f.kf # "delete"
      BY <1>0, <1>1, <1>3, ObjectSet DEF Smooth, FlushFor
    <2> QED
      BY <1>1, <2>1 DEF Fresher, NewDir, Gone, Cutting, FlushAt
  <1>8. pc \notin Cutting
    BY <1>1 DEF Cutting
  <1> QED
    BY <1>1, <1>2, <1>4, <1>5, <1>6, <1>7, <1>8, HealthyStill

(* exfat_flush_node writes the bitmap.                                      *)
LEMMA RestFlushBitmap ==
    ASSUME IInv, IInv', Script, Healthy, sound, g_initialized, FlushBitmap, ~Fails
    PROVE  Healthy'
  <1>0. Basic /\ Basic' /\ Smooth /\ Mapped
    BY DEF IInv, Healthy
  <1>1. UNCHANGED <<fat, data, dent, cached, node>> /\ pc = "bitmap" /\ pc \in FlushAt /\ FlushDone(f.k)
        /\ UNCHANGED <<vbr, sysents, cmap>> /\ WriteBitmap
    BY DEF FlushBitmap, FlushAt
  <1>2. Still /\ CountsOn /\ dmap' = cmap
    BY <1>0, <1>1, SameStill, FlushGoes, BitmapWritten DEF Flushes
  <1>3. Smooth' /\ (Gone => Gone' /\ obj' = obj) /\ pc' \notin Mid
    BY <1>0, <1>1, <1>2, SmoothFlushed DEF Still
  <1>4. \A o : ~Coming(o) /\ ~Behind(o)
    BY <1>1 DEF Coming, Behind
  <1>5. pc \notin Cutting
    BY <1>1 DEF Cutting
  <1> QED
    BY <1>1, <1>2, <1>3, <1>4, <1>5, HealthyStill

-----------------------------------------------------------------------------
(* A directory is read.                                                     *)

(* Steps that leave the links: an object is seen as before, or as empty. *)
SeenAs(o) == ViewSame(o) \/ (View(o)'.size = 0 /\ View(o)'.start = FREE)

(* One that is not gone has the same clusters.                              *)
LEMMA SeenPlace ==
    ASSUME fat' = fat, NEW o, SeenAs(o), View(o)'.size # 0
    PROVE  /\ View(o)'.at = View(o).at /\ View(o)'.start = View(o).start
           /\ View(o)'.size = View(o).size /\ View(o)'.contig = View(o).contig
           /\ \A i : At(o, i)' = At(o, i)
  <1>1. ViewSame(o)
    BY DEF SeenAs
  <1> QED
    BY <1>1, ViewSameIs, CalmAt

(* The FAT stays and so do the files, or they go: chains are complete,      *)
LEMMA CalmFull ==
    ASSUME fat' = fat, \A o \in Objects : SeenAs(o), View(ROOT)'.size # 0, Full, Starts, Ended,
           pc \notin Mid, pc' \notin Mid
    PROVE  Full' /\ CutFull' /\ Starts' /\ Ended'
  <1>1. Full'
    <2> SUFFICES ASSUME NEW o \in Objects, NEW i \in Place(o)' PROVE At(o, i)' \in Clusters
      BY DEF Full
    <2>1. i \in 0 .. View(o)'.size - 1
      BY Lengths DEF Place
    <2>2. View(o)'.size # 0
      BY <2>1
    <2>3. i \in Place(o)
      BY <2>1, <2>2, SeenPlace, Lengths DEF Place
    <2> QED
      BY <2>2, <2>3, SeenPlace DEF Full
  <1>2. CutFull'
    BY DEF CutFull, Mid
  <1>3. Starts'
    <2> SUFFICES ASSUME NEW o \in Objects, View(o)'.size = 0 PROVE View(o)'.start = FREE
      BY DEF Starts
    <2>1. CASE ViewSame(o)
      BY <2>1, ViewSameIs DEF Starts
    <2> QED
      BY <2>1 DEF SeenAs
  <1>4. Ended'
    <2>1. PICK n : n = Length(ROOT)
      OBVIOUS
    <2>2. n = Length(ROOT)'
      BY <2>1, SeenPlace, Lengths, ObjectSet
    <2>3. At(ROOT, n) = END
      BY <2>1 DEF Ended, Mid
    <2>4. At(ROOT, n)' = END
      BY <2>3, SeenPlace, ObjectSet
    <2>5. At(ROOT, n)' = At(ROOT, Length(ROOT))'
      BY <2>2, AtIs
    <2> QED
      BY <2>4, <2>5 DEF Ended
  <1> QED
    BY <1>1, <1>2, <1>3, <1>4

(* what an entry that stays has of a file is still in the same clusters,    *)
LEMMA CalmAgreesAt ==
    ASSUME fat' = fat, Agrees, pc \notin Cutting, NEW o \in Objs, SeenAs(o), dent'[o] = dent[o],
           NEW i \in Nat, Counts(o, i)', i < dent'[o].size, Basic'
    PROVE  /\ DiskAt(o, i)' = At(o, i)' /\ SameLinks(o)'
           /\ Counts(o, i) /\ At(o, i)' = At(o, i)
  <1>1. i < View(o)'.size /\ View(o)'.size \in Nat
    BY LaterTyped, ObjectSet DEF Counts, IsNode
  <1>2. View(o)'.size # 0
    BY <1>1
  <1>3. Counts(o, i) /\ At(o, i)' = At(o, i)
    BY <1>1, <1>2, SeenPlace, AllCount
  <1>4. DiskAt(o, i) = At(o, i) /\ SameLinks(o)
    BY <1>3 DEF Agrees
  <1>5. DiskAt(o, i)' = DiskAt(o, i)
    BY DiskAtIs
  <1>6. SameLinks(o)'
    BY <1>2, <1>4, SeenPlace DEF SameLinks
  <1> QED
    BY <1>3, <1>4, <1>5, <1>6

(* and an entry is found where it was.                                      *)
LEMMA CalmFound ==
    ASSUME fat' = fat, CountsOn, Basic', NEW o \in Objs, Found(o), View(o)'.at = View(o).at, NEW d, d = Under[o],
           ViewSame(d), \A i \in Nat : Counts(d, i) /\ Within(d, i) => Within(d, i)'
    PROVE  Found(o)'
  <1>1. PICK i \in Nat : Counts(d, i) /\ Within(d, i) /\ View(o).at[1] = At(d, i)
    BY DEF Found
  <1>2. d \in Dirs \union {ROOT}
    BY UnderIs
  <1>3. At(d, i)' = At(d, i) /\ View(d)'.size = View(d).size
    BY CalmAt, ViewSameIs
  <1>4. Counts(d, i)'
    BY <1>1, <1>2, <1>3 DEF CountsOn, Counts
  <1>5. Within(d, i)'
    BY <1>1
  <1> QED
    BY <1>1, <1>3, <1>4, <1>5 DEF Found

(* Found after a step, from a witness.                                      *)
LEMMA FoundBy ==
    ASSUME NEW o, NEW d, d = Under[o], NEW i \in Nat, Counts(d, i)', Within(d, i)', View(o)'.at[1] = At(d, i)'
    PROVE  Found(o)'
  BY DEF Found

(* exfat_cache_directory finds every entry with clusters,                   *)
LEMMA ReadFiled ==
    ASSUME Basic, Untorn, Lodged, Full, NEW p, ReadsIn(p), NEW o \in Objs, Under[o] = p, Filed(o)
    PROVE  /\ o \in EntriesIn(node[p]) /\ node'[o] = NodeOf(dent[o]) /\ View(o)' = View(o) /\ Present(o)'
           /\ View(o) = NodeOf(dent[o])
  <1>0. p \in Objs /\ p \notin cached /\ Under[p] \in cached /\ cached' = cached \union {p}
    BY DEF ReadsIn
  <1>1. dent[o].k = "ok" /\ View(o) = NodeOf(dent[o]) /\ View(o).at = dent[o].at
    BY <1>0, FiledView
  <1>2. PICK i \in Nat : Counts(p, i) /\ View(o).at[1] = At(p, i)
    BY DEF Lodged, Found
  <1>3. View(p) = node[p] /\ node[p].size \in Nat
    BY <1>0, ViewIs, ObjectSet DEF Basic, Typed, MemoryTyped, NodesTyped, IsNode
  <1>4. i \in 0 .. node[p].size - 1
    BY <1>2, <1>3 DEF Counts
  <1>5. dent[o].at[1] \in ChainOf(node[p])
    BY <1>0, <1>1, <1>2, <1>4, ChainIs
  <1>6. o \in EntriesIn(node[p])
    BY <1>1, <1>5 DEF EntriesIn
  <1>7. node'[o] = NodeOf(dent[o])
    BY <1>6 DEF ReadsIn
  <1>8. View(o)' = View(o)
    BY <1>0, <1>1, <1>7, ViewIs
  <1>9. At(p, i) \in Clusters
    BY <1>0, <1>2, CountsPlace, ObjectSet DEF Full
  <1>10. node'[o].at[1] \in Clusters
    BY <1>1, <1>2, <1>7, <1>9
  <1>11. Present(o)'
    BY <1>10, NotNoSlot DEF Present
  <1> QED
    BY <1>1, <1>6, <1>7, <1>8, <1>11

(* and a file is the same before and after, or it was a name without an     *)
(* entry in the directory.                                                  *)
LEMMA ReadView ==
    ASSUME Basic, Untorn, Lodged, Full, dent' = dent, NEW p, ReadsIn(p), NEW o \in Objects
    PROVE  \/ View(o)' = View(o)
           \/ o \in Objs /\ Under[o] = p /\ ~Filed(o) /\ View(o)' = NoNode /\ ~Present(o)' /\ View(o).size = 0
  <1>0. p \in Objs /\ p \notin cached /\ Under[p] \in cached /\ cached' = cached \union {p} /\ p # ROOT
    BY ObjectSet DEF ReadsIn
  <1>1. CASE o = ROOT
    BY <1>0, <1>1, ViewIs DEF ReadsIn
  <1>2. CASE o \in Objs /\ Under[o] # p
    <2>1. node'[o] = node[o] /\ (Under[o] \in cached' <=> Under[o] \in cached)
      BY <1>0, <1>2 DEF ReadsIn
    <2>3. CASE Under[o] \in cached
      BY <1>2, <2>1, <2>3, ViewIs
    <2>4. CASE Under[o] \notin cached
      BY <1>2, <2>1, <2>4, ViewIs
    <2> QED
      BY <2>3, <2>4
  <1>3. CASE o \in Objs /\ Under[o] = p /\ Filed(o)
    BY <1>3, ReadFiled
  <1>4. CASE o \in Objs /\ Under[o] = p /\ ~Filed(o)
    <2>1. Under[o] \in cached' /\ View(o)' = node'[o]
      BY <1>0, <1>4, ViewIs
    <2>2. dent[o].size = 0
      BY <1>4 DEF Filed, Basic, Typed, DeviceTyped, DentsTyped, IsDent
    <2>3. View(o) = (IF dent[o].k = "ok" THEN NodeOf(dent[o]) ELSE NoNode)
      BY <1>0, <1>4, ViewIs
    <2>4. View(o).size = 0
      BY <2>2, <2>3, NodeOfFields, Blank
    <2>5. CASE o \in EntriesIn(node[p])
      <3>1. dent[o].k = "ok"
        BY <2>5, ReadEntry DEF ReadsIn, Basic, Typed, DeviceTyped
      <3> QED
        BY <1>4, <2>1, <2>3, <2>5, <3>1 DEF ReadsIn
    <2>6. CASE o \notin EntriesIn(node[p])
      <3>1. node'[o] = NoNode
        BY <1>4, <2>6 DEF ReadsIn
      <3>2. ~Present(o)'
        BY <1>4, <3>1, Blank, ObjectSet DEF Present
      <3> QED
        BY <1>4, <2>1, <2>4, <3>1, <3>2
    <2> QED
      BY <2>5, <2>6
  <1> QED
    BY <1>1, <1>2, <1>3, <1>4, ObjectSet

(* The same, for all.                                                       *)
LEMMA ReadSeen ==
    ASSUME Basic, Untorn, Lodged, Full, dent' = dent, NEW p, ReadsIn(p)
    PROVE  /\ \A o \in Objects : SeenAs(o) /\ (ViewSame(o) \/ View(o).size = 0)
           /\ \A o \in Objs : Filed(o) \/ Present(o)' => ViewSame(o)
  <1>1. ASSUME NEW o \in Objects PROVE SeenAs(o) /\ (ViewSame(o) \/ View(o).size = 0)
    <2>1. CASE View(o)' = View(o)
      BY <2>1, ViewSameBy DEF SeenAs
    <2>2. CASE View(o)' = NoNode /\ View(o).size = 0
      BY <2>2, Blank DEF SeenAs
    <2> QED
      BY <2>1, <2>2, ReadView
  <1>2. ASSUME NEW o \in Objs, Filed(o) \/ Present(o)' PROVE ViewSame(o)
    BY <1>2, ReadView, ViewSameBy, ObjectSet
  <1> QED
    BY <1>1, <1>2

(* What was read is lodged: the directory is as its entry has it,           *)
LEMMA ReadLodged ==
    ASSUME Basic, Basic', Untorn, Lodged, Full, Unread, UNCHANGED <<fat, dent>>, CountsOn, pc = "lookup",
           NEW p, ReadsIn(p)
    PROVE  Lodged'
  <1>0. p \in Objs /\ p \in Dirs /\ p \notin cached /\ Under[p] \in cached /\ cached' = cached \union {p} /\ p # ROOT
    BY ObjectSet DEF ReadsIn
  <1> SUFFICES ASSUME NEW o \in Objs
               PROVE  /\ Filed(o)' /\ Under[o] \in cached' => Present(o)'
                      /\ Filed(o)' \/ Present(o)' => Found(o)'
    BY DEF Lodged
  <1>1. Filed(o)' <=> Filed(o)
    BY DEF Filed
  <1>2. Under[o] # p => node'[o] = node[o]
    BY ObjectSet DEF ReadsIn
  <1>3. ~Coming(o)
    BY DEF Coming
  <1>4. Filed(o) /\ Under[o] \in cached' => Present(o)'
    <2>1. CASE Under[o] = p
      BY <2>1, ReadFiled
    <2>2. CASE Under[o] # p
      BY <1>0, <1>2, <2>2 DEF Lodged, Present
    <2> QED
      BY <2>1, <2>2
  <1>5. PICK d : d = Under[o]
    OBVIOUS
  <1>6. ASSUME Found(o), ViewSame(o) PROVE Found(o)'
    <2>1. PICK i \in Nat : Counts(d, i)
      BY <1>5, <1>6 DEF Found
    <2>2. View(d).size # 0
      BY <2>1 DEF Counts
    <2>3. ViewSame(d)
      BY <1>5, <2>2, ReadSeen, ObjectSet
    <2>4. \A j \in Nat : Within(d, j) => Within(d, j)'
      BY DEF Within
    <2> QED
      BY <1>5, <1>6, <2>3, <2>4, CalmFound, ViewSameIs
  <1>7. ASSUME Filed(o) \/ Present(o)' PROVE Found(o)'
    <2>1. ViewSame(o)
      BY <1>7, ReadSeen
    <2>2. CASE Filed(o) \/ Under[o] # p
      <3>1. Filed(o) \/ Present(o)
        BY <1>2, <1>7, <2>2 DEF Present
      <3> QED
        BY <1>3, <1>6, <2>1, <3>1 DEF Lodged
    <2>3. CASE ~Filed(o) /\ Under[o] = p
      <3>1. node'[o].at # NoSlot
        BY <1>7, <2>3, ObjectSet DEF Present
      <3>2. o \in EntriesIn(node[p]) /\ node'[o] = NodeOf(dent[o])
        BY <2>3, <3>1, Blank DEF ReadsIn
      <3>3. dent[o].at[1] \in ChainOf(node[p])
        BY <3>2 DEF EntriesIn
      <3>4. PICK i \in 0 .. node[p].size - 1 : dent[o].at[1] = At(p, i)
        BY <1>0, <3>3, ChainIs
      <3>5. View(o)' = node'[o] /\ node'[o].at = dent[o].at
        BY <1>0, <2>3, <3>2, ViewIs DEF NodeOf
      <3>6. View(p) = node[p] /\ node[p].size \in Nat
        BY <1>0, ViewIs, ObjectSet DEF Basic, Typed, MemoryTyped, NodesTyped, IsNode
      <3>7. i \in Nat /\ i < View(p).size /\ View(p).size # 0
        BY <3>6
      <3>8. ViewSame(p)
        BY <1>0, <3>7, ReadSeen, ObjectSet
      <3>9. Counts(p, i)
        BY <3>7, AllCount DEF Cutting
      <3>10. Counts(p, i)' /\ At(p, i)' = At(p, i)
        BY <1>0, <3>7, <3>8, <3>9, CalmAt, ViewSameIs DEF CountsOn
      <3>11. ~Fresher
        BY DEF Fresher, NewDir, FlushAt, Cutting
      <3>12. dent[p].size = node[p].size
        BY <1>0, <3>11 DEF Unread
      <3>13. Within(p, i)'
        BY <3>6, <3>7, <3>12 DEF Within
      <3> QED
        BY <2>3, <3>4, <3>5, <3>7, <3>10, <3>13, FoundBy
    <2> QED
      BY <2>2, <2>3
  <1> QED
    BY <1>1, <1>4, <1>7

(* and the rest stays.                                                      *)
LEMMA ReadRest ==
    ASSUME IInv, IInv', Untorn, Healthy, sound, g_initialized, UNCHANGED <<fat, dent, vbr, sysents, cmap, cmap_dirty, dmap>>,
           CountsOn, pc = "lookup", pc' \notin Mid, pc' # "bitmap", Smooth', NEW p, ReadsIn(p)
    PROVE  Healthy'
  <1>1. Basic /\ Basic' /\ Entered /\ Lodged /\ Agrees /\ NotLonger /\ Unread /\ Full /\ Starts /\ Mapped /\ Ended
        /\ vbr = TRUE /\ sysents = TRUE
    BY DEF IInv, Healthy
  <1>2. ~Gone /\ ~Fresher /\ pc \notin Cutting /\ pc \notin Mid /\ pc # "bitmap"
    BY DEF Gone, Fresher, NewDir, Cutting, FlushAt, Mid
  <1>3. p \in Objs /\ p \in Dirs /\ p \notin cached /\ Under[p] \in cached /\ cached' = cached \union {p} /\ p # ROOT
    BY ObjectSet DEF ReadsIn
  <1>4. ASSUME NEW o \in Objs, Under[o] = p
        PROVE  node'[o].size = dent[o].size
               /\ (Present(o)' => dent[o].k = "ok" /\ dent[o].at = node'[o].at)
    <2>1. CASE o \in EntriesIn(node[p])
      <3>1. node'[o] = NodeOf(dent[o]) /\ dent[o].k = "ok"
        BY <1>1, <1>4, <2>1, ReadEntry DEF ReadsIn, Basic, Typed, DeviceTyped
      <3> QED
        BY <3>1 DEF NodeOf
    <2>2. CASE o \notin EntriesIn(node[p])
      <3>1. node'[o] = NoNode
        BY <1>4, <2>2 DEF ReadsIn
      <3>2. ~Filed(o)
        BY <1>1, <1>4, <2>2, ReadFiled
      <3>3. dent[o].size = 0
        BY <1>1, <3>2 DEF Filed, Basic, Typed, DeviceTyped, DentsTyped, IsDent
      <3> QED
        BY <3>1, <3>3, Blank, ObjectSet DEF Present
    <2> QED
      BY <2>1, <2>2
  <1>5. ASSUME NEW o \in Objs, Under[o] # p PROVE node'[o] = node[o]
    BY <1>5, ObjectSet DEF ReadsIn
  <1>6. Entered'
    <2> SUFFICES ASSUME NEW o \in Objs, Present(o)' PROVE dent[o].k = "ok" /\ dent[o].at = node'[o].at
      BY DEF Entered
    <2>1. CASE Under[o] = p
      BY <1>4, <2>1
    <2>2. CASE Under[o] # p
      BY <1>1, <1>2, <1>5, <2>2 DEF Entered, Present
    <2> QED
      BY <2>1, <2>2
  <1>7. Lodged'
    BY <1>1, ReadLodged
  <1>8. \A o \in Objects : SeenAs(o)
    BY <1>1, ReadSeen
  <1>9. ASSUME NEW o \in Objs, NEW i \in Nat, Counts(o, i)', i < dent'[o].size
        PROVE  DiskAt(o, i)' = At(o, i)' /\ SameLinks(o)' /\ Counts(o, i) /\ At(o, i)' = At(o, i)
    BY <1>1, <1>2, <1>8, <1>9, CalmAgreesAt, ObjectSet
  <1>10. Agrees'
    BY <1>9 DEF Agrees
  <1>11. Mapped'
    BY <1>1, <1>2, <1>9 DEF Mapped
  <1>12. NotLonger'
    <2> SUFFICES ASSUME NEW o \in Objs, Under[o] \in cached' PROVE dent[o].size <= node'[o].size
      BY DEF NotLonger
    <2>1. CASE Under[o] = p
      <3>1. dent[o].size \in Nat
        BY <1>1 DEF Basic, Typed, DeviceTyped, DentsTyped, IsDent
      <3> QED
        BY <1>4, <2>1, <3>1
    <2>2. CASE Under[o] # p
      <3>1. Under[o] \in cached /\ ~Behind(o)
        BY <1>3, <2>2 DEF Behind
      <3> QED
        BY <1>1, <1>5, <2>2, <3>1 DEF NotLonger
    <2> QED
      BY <2>1, <2>2
  <1>13. Unread'
    <2> SUFFICES ASSUME NEW r \in Dirs, Under[r] \in cached', r \notin cached' PROVE dent[r].size = node'[r].size
      BY DEF Unread
    <2>0. r \in Objs
      BY ObjectSet
    <2>1. CASE Under[r] = p
      BY <1>4, <2>0, <2>1
    <2>2. CASE Under[r] # p
      BY <1>1, <1>2, <1>3, <1>5, <2>0, <2>2 DEF Unread
    <2> QED
      BY <2>1, <2>2
  <1>14. View(ROOT)'.size # 0
    <2>1. node'[ROOT] = node[ROOT] /\ node[ROOT].size > 0
      BY <1>1, ObjectSet DEF ReadsIn, Basic, Tree
    <2>2. node[ROOT].size \in Nat
      BY <1>1, ObjectSet DEF Basic, Typed, MemoryTyped, NodesTyped, IsNode
    <2> QED
      BY <2>1, <2>2, ViewIs
  <1>15. Full' /\ CutFull' /\ Starts' /\ Ended'
    BY <1>1, <1>2, <1>8, <1>14, CalmFull
  <1> QED
    BY <1>1, <1>6, <1>7, <1>10, <1>11, <1>12, <1>13, <1>15 DEF Healthy

(* exfat_lookup, whether it reads the directory or not.                     *)
LEMMA RestLookUp ==
    ASSUME IInv, IInv', Script, Untorn, Healthy, sound, g_initialized, LookUp
    PROVE  Healthy'
  <1>0. Basic /\ Basic'
    BY DEF IInv
  <1>1. pc = "lookup" /\ UNCHANGED <<fat, data, dent, vbr, sysents, cmap, cmap_dirty, dmap>>
    BY DEF LookUp, device
  <1>2. pc' \in Cutting => t'.o \in Files
    BY <1>0, LookUpGoes
  <1>3. CountsOn
    BY <1>0, <1>2, CountsGo
  <1>4. pc' \in {"idle", "read", "slot", "next"} \/ (pc' = "truncate" /\ t'.k = "data")
    BY <1>0, LookUpIs DEF LookedUp, Return, Goto, Truncating, NoT
  <1>5. pc' \notin Mid /\ pc' # "bitmap"
    BY <1>4 DEF Mid
  <1>6. Smooth'
    <2>1. CASE pc' \in {"idle", "read", "slot", "next"}
      BY <2>1, SmoothFree DEF Cutting, FlushAt
    <2>2. CASE pc' = "truncate" /\ t'.k = "data"
      <3>1. ~Gone' /\ ~Fresher'
        BY <2>2 DEF Gone, Fresher, NewDir, FlushAt
      <3> QED
        BY <2>2, <3>1 DEF Smooth, CutSmooth
    <2> QED
      BY <1>4, <2>1, <2>2
  <1>7. CASE UNCHANGED <<node, cached>>
    <2>1. Still
      BY <1>1, <1>7, SameStill
    <2> QED
      BY <1>1, <1>3, <1>5, <1>6, <2>1, HealthyPlain
  <1>8. ASSUME NEW p, ReadsIn(p) PROVE Healthy'
    BY <1>1, <1>3, <1>5, <1>6, <1>8, ReadRest
  <1> QED
    BY <1>0, <1>7, <1>8, LookUpReads

-----------------------------------------------------------------------------
(* Entries written and removed.                                             *)

(* The entry of an object is where its node says, in a cluster of its directory. *)
LEMMA EntrySits ==
    ASSUME Basic, Untorn, Entered, Lodged, NEW o \in Objs, Filed(o) \/ Present(o), ~Coming(o), ~(o = obj /\ Gone)
    PROVE  /\ dent[o].k = "ok" /\ dent[o].at = View(o).at
           /\ \E i \in Nat : Counts(Under[o], i) /\ Within(Under[o], i) /\ dent[o].at[1] = At(Under[o], i)
  <1>1. Found(o)
    BY DEF Lodged
  <1>2. dent[o].k = "ok" /\ dent[o].at = View(o).at
    <2>1. CASE Present(o)
      <3>1. View(o) = node[o]
        BY <2>1, PresentUnder
      <3> QED
        BY <2>1, <3>1 DEF Entered
    <2>2. CASE ~Present(o)
      <3>1. Filed(o) /\ Under[o] \notin cached
        BY <2>2 DEF Lodged
      <3> QED
        BY <3>1, FiledView
    <2> QED
      BY <2>1, <2>2
  <1> QED
    BY <1>1, <1>2 DEF Found

(* What agreed agrees still, but for one entry that is written. *)
LEMMA CalmAgrees ==
    ASSUME fat' = fat, Basic', Agrees, pc \notin Cutting, \A o \in Objects : SeenAs(o), NEW q,
           \A o \in Objs : o = q \/ dent'[o] = dent[o] \/ dent'[o].size = 0,
           q \in Objs => \A i \in Nat : Counts(q, i)' /\ i < dent'[q].size => DiskAt(q, i)' = At(q, i)' /\ SameLinks(q)'
    PROVE  Agrees'
  <1> SUFFICES ASSUME NEW o \in Objs, NEW i \in Nat, Counts(o, i)', i < dent'[o].size
               PROVE  DiskAt(o, i)' = At(o, i)' /\ SameLinks(o)'
    BY DEF Agrees
  <1>1. o = q \/ dent'[o] = dent[o]
    OBVIOUS
  <1> QED
    BY <1>1, CalmAgreesAt, ObjectSet

(* and the bitmap covers the entries, except that one until the bitmap is   *)
(* written.                                                                 *)
LEMMA CalmMapped ==
    ASSUME fat' = fat, Basic', Agrees, Mapped, pc \notin Cutting, pc # "bitmap", UNCHANGED <<cmap, dmap, cmap_dirty>>,
           \A o \in Objects : SeenAs(o), NEW q, q \in Objs => pc' = "bitmap" /\ f'.o = q,
           \A o \in Objs : o = q \/ dent'[o] = dent[o] \/ dent'[o].size = 0
    PROVE  Mapped'
  <1>1. cmap_dirty' = FALSE => cmap' = dmap'
    BY DEF Mapped
  <1>2. ASSUME NEW o \in Objs, NEW i \in Nat, Counts(o, i)', i < dent'[o].size
        PROVE  At(o, i)' \in dmap' \/ (pc' = "bitmap" /\ o = f'.o)
    <2>1. o = q \/ dent'[o] = dent[o]
      BY <1>2
    <2>2. CASE o # q
      <3>1. Counts(o, i) /\ At(o, i)' = At(o, i) /\ i < dent[o].size
        BY <1>2, <2>1, <2>2, CalmAgreesAt, ObjectSet
      <3> QED
        BY <3>1 DEF Mapped
    <2> QED
      BY <1>2, <2>2
  <1> QED
    BY <1>1, <1>2 DEF Mapped

(* The root does not go.                                                    *)
LEMMA RootSize ==
    ASSUME Basic, g_initialized, ViewSame(ROOT) PROVE View(ROOT)'.size # 0
  <1>1. View(ROOT)'.size = node[ROOT].size /\ node[ROOT].size > 0 /\ node[ROOT].size \in Nat
    BY ViewSameIs, ViewIs, ObjectSet DEF Basic, Tree, Typed, MemoryTyped, NodesTyped, IsNode
  <1> QED
    BY <1>1

(* The entry that is flushed belongs to a node in memory. *)
LEMMA FlushPresent ==
    ASSUME Basic, Script, Smooth, pc = "flush", f.o # ROOT
    PROVE  Present(f.o) /\ ~(f.o = obj /\ Gone) /\ ~Coming(f.o)
  <1>1. FlushFor /\ (f.kf # "lastflush" => Placed)
    <2>1. pc \in FlushAt
      BY DEF FlushAt
    <2>2. f.kf # "lastflush" => Placed
      BY <2>1 DEF Basic, Control, Busy
    <2> QED
      BY <2>1, <2>2, FlushPc
  <1>2. Placed => Present(Under[obj]) /\ Under[obj] # obj
    BY DEF Basic, Tree, Placed
  <1>3. CASE f.k \in {"created", "detach", "fail"}
    <2>1. f.o = Under[obj] /\ f.kf = "fail"
      BY <1>1, <1>3 DEF FlushFor
    <2> QED
      BY <1>1, <1>2, <2>1 DEF Coming
  <1>4. CASE f.k \in {"done", "next", "unmount"}
    <2>1. ~Gone /\ ~Coming(f.o)
      BY <1>4 DEF Gone, Coming
    <2>2. CASE f.k = "done"
      <3>1. f.o = obj /\ WithNode
        BY <1>1, <2>2 DEF FlushFor, WithNode, FlushAt
      <3> QED
        BY <2>1, <3>1 DEF Script, Object
    <2>3. CASE f.k = "next" /\ f.kf = "delete"
      <3>1. f.o = obj /\ Fresher
        BY <1>1, <2>3 DEF FlushFor, Fresher, NewDir, FlushAt
      <3> QED
        BY <2>1, <3>1 DEF Smooth
    <2>4. CASE f.kf = "lastflush"
      BY <2>1, <2>4 DEF Smooth
    <2> QED
      BY <1>1, <1>4, <2>2, <2>3, <2>4 DEF FlushFor
  <1> QED
    BY <1>1, <1>3, <1>4 DEF FlushFor

(* The entry of q is written from its node.                                 *)
FlushesOut(q) ==
    /\ q = f.o /\ q \in Objs /\ Under[q] \in cached /\ pc = "flush" /\ pc' = "bitmap" /\ UNCHANGED <<f, obj>>
    /\ EntryStep(q) /\ dent'[q] = EntryFor(node[q]) /\ NodesAlike
    /\ UNCHANGED <<fat, cached, vbr, sysents, cmap, cmap_dirty, dmap>>

(* That is what FlushEntry does when nothing fails.                         *)
LEMMA FlushEntryOk ==
    ASSUME Basic, Script, Smooth, Entered, FlushEntry, ~Fails
    PROVE  \E q : FlushesOut(q) /\ Present(q) /\ ~(q = obj /\ Gone) /\ ~Coming(q)
  <1>1. PICK q : q = f.o
    OBVIOUS
  <1>2. pc = "flush" /\ pc \in FlushAt /\ q # ROOT
    BY <1>1 DEF FlushEntry, FlushAt
  <1>3. q \in Objs /\ Under[q] \in cached /\ q \in Objects
    BY <1>1, <1>2, FlushPc, ObjectSet
  <1>4. Present(q) /\ ~(q = obj /\ Gone) /\ ~Coming(q)
    BY <1>1, <1>2, FlushPresent
  <1>5. dent[q].k = "ok" /\ dent[q].at = node[q].at
    BY <1>3, <1>4 DEF Entered
  <1>6. dent' = [dent EXCEPT ![q] = EntryFor(node[q])] /\ SetNode(q, [node[q] EXCEPT !.dirty = FALSE]) /\ Goto("bitmap")
    BY <1>1, <1>5 DEF FlushEntry
  <1>7. IsNode(node[q]) /\ NodesTyped /\ DentsTyped
    BY <1>3 DEF Basic, Typed, MemoryTyped, NodesTyped, DeviceTyped
  <1>8. dent'[q] = EntryFor(node[q]) /\ \A p \in Objs : p # q => dent'[p] = dent[p]
    <2>1. IsDent(EntryFor(node[q]))
      BY <1>7, DentOfNode
    <2> QED
      BY <1>3, <1>6, <1>7, <2>1, DentReplaced
  <1>9. PICK m : m = [node[q] EXCEPT !.dirty = FALSE]
    OBVIOUS
  <1>10. IsNode(m) /\ m.at = node[q].at /\ m.start = node[q].start /\ m.size = node[q].size /\ m.contig = node[q].contig
    BY <1>7, <1>9, NodeTouched
  <1>11. node'[q] = m /\ \A p \in Objects : p # q => node'[p] = node[p]
    BY <1>3, <1>6, <1>7, <1>9, <1>10, NodeReplaced
  <1>12. NodesAlike
    BY <1>10, <1>11 DEF NodesAlike
  <1>13. UNCHANGED <<fat, data, cached, want, vbr, sysents, cmap, cmap_dirty, dmap, f, obj>> /\ pc' = "bitmap"
    BY <1>6 DEF FlushEntry, seen, Goto, call
  <1>14. EntryStep(q)
    BY <1>3, <1>8, <1>11, <1>12, <1>13, ObjectSet DEF EntryStep
  <1>15. FlushesOut(q)
    BY <1>1, <1>2, <1>3, <1>8, <1>10, <1>11, <1>12, <1>13, <1>14 DEF FlushesOut
  <1> QED
    BY <1>4, <1>15

(* The files are the same before and after.                                 *)
LEMMA EntrySeen ==
    ASSUME NEW q, EntryStep(q)
    PROVE  /\ \A o \in Objects : ViewSame(o) /\ SeenAs(o)
           /\ \A o \in Objs : Present(o)' <=> Present(o)
           /\ \A o \in Objs : View(o)'.at = View(o).at
  <1>1. \A o \in Objects : ViewSame(o)
    BY EntryViews
  <1>2. \A o \in Objs : Present(o)' <=> Present(o)
    BY ObjectSet DEF EntryStep, NodesAlike, Present
  <1> QED
    BY <1>1, <1>2, ViewSameIs, ObjectSet DEF SeenAs

(* Everything is lodged after it: the entry of a directory has the places   *)
(* it had or more, and the one that a new entry is in.                      *)
LEMMA FlushLodged ==
    ASSUME Basic, Basic', Seated, Lodged, FlushFor, NEW q, FlushesOut(q), Present(q), ~Coming(q), CountsOn
    PROVE  Lodged'
  <1>0. EntryStep(q) /\ q \in Objs /\ UNCHANGED <<fat, cached>> /\ pc' = "bitmap" /\ pc = "flush" /\ q = f.o
        /\ dent'[q] = EntryFor(node[q]) /\ \A p \in Objs : p # q => dent'[p] = dent[p]
    BY DEF FlushesOut, EntryStep
  <1>1. dent'[q].size = node[q].size /\ View(q) = node[q]
    BY <1>0, DentOfNode, PresentUnder, ObjectSet DEF Basic, Typed, MemoryTyped, NodesTyped
  <1>2. ASSUME NEW d \in Dirs \union {ROOT}, NEW i \in Nat, Counts(d, i), Within(d, i) \/ d = q PROVE Within(d, i)'
    <2>1. CASE d = q
      BY <1>1, <1>2, <2>1 DEF Counts, Within
    <2>2. CASE d # q /\ d # ROOT
      <3>1. dent'[d] = dent[d]
        BY <1>0, <1>2, <2>2, ObjectSet
      <3> QED
        BY <1>2, <2>2, <3>1 DEF Within
    <2> QED
      BY <2>1, <2>2 DEF Within
  <1>3. ASSUME NEW o \in Objs, Found(o) PROVE Found(o)'
    <2>1. PICK d : d = Under[o]
      OBVIOUS
    <2>2. ViewSame(d) /\ View(o)'.at = View(o).at /\ d \in Dirs \union {ROOT}
      BY <1>0, <2>1, EntrySeen, ObjectSet, UnderIs
    <2>3. \A i \in Nat : Counts(d, i) /\ Within(d, i) => Within(d, i)'
      BY <1>2, <2>2
    <2> QED
      BY <1>0, <1>3, <2>1, <2>2, <2>3, CalmFound
  <1>4. ASSUME NEW o \in Objs, Present(o), Coming(o) PROVE Found(o)'
    <2>1. o = obj /\ q = Under[o]
      BY <1>0, <1>4 DEF Coming, FlushFor
    <2>2. PICK i \in Nat : Counts(q, i) /\ View(o).at[1] = At(q, i)
      BY <1>4, <2>1 DEF Seated, Sits
    <2>3. ViewSame(q) /\ View(o)'.at = View(o).at /\ q \in Dirs \union {ROOT}
      BY <1>0, <2>1, EntrySeen, ObjectSet, UnderIs
    <2>4. Counts(q, i)' /\ At(q, i)' = At(q, i)
      BY <1>0, <2>2, <2>3, CalmAt, ViewSameIs DEF CountsOn, Counts
    <2>5. Within(q, i)'
      BY <1>2, <2>2, <2>3
    <2> QED
      BY <2>1, <2>2, <2>3, <2>4, <2>5, FoundBy
  <1> SUFFICES ASSUME NEW o \in Objs
               PROVE  /\ Filed(o)' /\ Under[o] \in cached' => Present(o)'
                      /\ Filed(o)' \/ Present(o)' => Found(o)'
    BY DEF Lodged
  <1>5. Present(o)' <=> Present(o)
    BY <1>0, EntrySeen
  <1>6. Filed(o)' => Filed(o) \/ o = q
    BY <1>0 DEF Filed
  <1> QED
    BY <1>0, <1>3, <1>4, <1>5, <1>6 DEF Lodged

(* The entry has what the node has,                                         *)
LEMMA FlushAgrees ==
    ASSUME Basic, Basic', NEW q, FlushesOut(q)
    PROVE  \A i \in Nat : Counts(q, i)' /\ i < dent'[q].size => DiskAt(q, i)' = At(q, i)' /\ SameLinks(q)'
  <1>0. q \in Objs /\ q \in Objects /\ dent'[q] = EntryFor(node[q]) /\ Under[q] \in cached' /\ NodesAlike
        /\ Under[q] \in cached /\ fat' = fat
    BY ObjectSet DEF FlushesOut
  <1>1. SUFFICES ASSUME NEW i \in Nat, i < dent'[q].size PROVE DiskAt(q, i)' = At(q, i)' /\ SameLinks(q)'
    OBVIOUS
  <1>2. IsNode(node[q])
    BY <1>0 DEF Basic, Typed, MemoryTyped, NodesTyped
  <1>3. dent'[q].size = node[q].size /\ dent'[q].start = node[q].start
    BY <1>0, <1>2, DentOfNode
  <1>4. node[q].size # 0
    BY <1>1, <1>3
  <1>5. dent'[q].contig = node[q].contig /\ dent'[q].contig \in BOOLEAN
    BY <1>0, <1>2, <1>4, EntryContig DEF IsNode
  <1>6. View(q)'.contig = node[q].contig /\ View(q)'.start = node[q].start
    BY <1>0, ViewIs DEF NodesAlike
  <1>7. DiskAt(q, i)' = At(q, i)'
    <2>1. DiskAt(q, i)' = WalkIn(fat', dent'[q].contig, dent'[q].start)[i]
      BY <1>0, DiskAtIs
    <2>2. At(q, i)' = WalkIn(fat', View(q)'.contig, View(q)'.start)[i]
      BY AtIs
    <2> QED
      BY <1>3, <1>5, <1>6, <2>1, <2>2
  <1>8. SameLinks(q)'
    BY <1>3, <1>5, <1>6 DEF SameLinks
  <1> QED
    BY <1>7, <1>8

(* and has a start if it has clusters.                                      *)
LEMMA FlushUntorn ==
    ASSUME Basic, NoStart, Starts, Untorn, NEW q, FlushesOut(q) PROVE Untorn'
  <1>0. q \in Objs /\ q \in Objects /\ dent'[q] = EntryFor(node[q]) /\ Under[q] \in cached /\ pc = "flush"
        /\ \A p \in Objs : p # q => dent'[p] = dent[p]
    BY ObjectSet DEF FlushesOut, EntryStep
  <1>1. dent'[q].size = node[q].size /\ dent'[q].start = node[q].start /\ dent'[q].k = "ok" /\ View(q) = node[q]
    BY <1>0, DentOfNode, ViewIs DEF Basic, Typed, MemoryTyped, NodesTyped
  <1>2. node[q].size = 0 <=> node[q].start = FREE
    BY <1>0, <1>1 DEF NoStart, Starts, Mid
  <1>3. Proper(dent'[q])
    BY <1>1, <1>2 DEF Proper
  <1> QED
    BY <1>0, <1>3 DEF Untorn, Proper

(* So FlushEntry keeps Healthy.                                             *)
LEMMA RestFlushEntry ==
    ASSUME IInv, IInv', Script, Store, Untorn, Healthy, sound, g_initialized, FlushEntry, ~Fails
    PROVE  Healthy' /\ Untorn'
  <1>1. Basic /\ Basic' /\ Entered /\ Lodged /\ Agrees /\ NotLonger /\ Unread /\ Full /\ Starts /\ Mapped /\ Ended
        /\ Smooth /\ vbr = TRUE /\ sysents = TRUE /\ NoStart /\ Seated
    BY DEF IInv, Space, Healthy, Store
  <1>2. PICK q : FlushesOut(q) /\ Present(q) /\ ~(q = obj /\ Gone) /\ ~Coming(q)
    BY <1>1, FlushEntryOk
  <1>3. EntryStep(q) /\ q \in Objs /\ UNCHANGED <<fat, cached, vbr, sysents, cmap, cmap_dirty, dmap, f, obj>> /\ pc' = "bitmap"
        /\ pc = "flush" /\ q = f.o /\ NodesAlike /\ Under[q] \in cached
        /\ dent'[q] = EntryFor(node[q]) /\ \A p \in Objs : p # q => dent'[p] = dent[p] /\ node'[p] = node[p]
    BY <1>2 DEF FlushesOut, EntryStep
  <1>4. FlushFor /\ obj \in Objects
    BY <1>1, <1>3, FlushPc DEF FlushAt
  <1>5. /\ \A o \in Objects : ViewSame(o) /\ SeenAs(o)
        /\ \A o \in Objs : Present(o)' <=> Present(o)
    BY <1>3, EntrySeen
  <1>6. CountsOn
    BY <1>1, FlushGoes DEF Flushes
  <1>7. pc \notin Cutting /\ pc \notin Mid /\ pc' \notin Mid /\ pc # "bitmap"
    BY <1>3 DEF Cutting, Mid
  <1>8. /\ dent'[q].size = node[q].size /\ dent'[q].k = "ok" /\ dent'[q].at = node[q].at
        /\ node'[q].size = node[q].size /\ node'[q].at = node[q].at /\ node[q].size \in Nat
    BY <1>1, <1>3, DentOfNode, ObjectSet DEF NodesAlike, Basic, Typed, MemoryTyped, NodesTyped, IsNode
  <1>9. Gone => Gone'
    BY <1>3 DEF Gone, FlushAt
  <1>10. Entered'
    <2> SUFFICES ASSUME NEW o \in Objs, Present(o)', ~(o = obj' /\ Gone')
                 PROVE  dent'[o].k = "ok" /\ dent'[o].at = node'[o].at
      BY DEF Entered
    <2>1. CASE o = q
      BY <1>8, <2>1
    <2>2. CASE o # q
      BY <1>1, <1>3, <1>5, <1>9, <2>2 DEF Entered
    <2> QED
      BY <2>1, <2>2
  <1>11. Lodged'
    BY <1>1, <1>2, <1>4, <1>6, FlushLodged
  <1>12. Agrees' /\ Mapped'
    <2>1. \A i \in Nat : Counts(q, i)' /\ i < dent'[q].size => DiskAt(q, i)' = At(q, i)' /\ SameLinks(q)'
      BY <1>1, <1>2, FlushAgrees
    <2>2. \A o \in Objs : o = q \/ dent'[o] = dent[o] \/ dent'[o].size = 0
      BY <1>3
    <2>3. Agrees'
      BY <1>1, <1>3, <1>5, <1>7, <2>1, <2>2, CalmAgrees
    <2> QED
      BY <1>1, <1>3, <1>5, <1>7, <2>2, <2>3, CalmMapped
  <1>13. NotLonger'
    <2> SUFFICES ASSUME NEW o \in Objs, Under[o] \in cached' PROVE dent'[o].size <= node'[o].size
      BY DEF NotLonger
    <2>1. CASE o = q
      BY <1>8, <2>1
    <2>2. CASE o # q
      <3>1. ~Behind(o)
        BY <1>3, <2>2 DEF Behind
      <3> QED
        BY <1>1, <1>3, <2>2, <3>1 DEF NotLonger
    <2> QED
      BY <2>1, <2>2
  <1>14. Gone => node[obj].size = 0 /\ dent[obj] = NoDent /\ obj # q
    BY <1>1, <1>2 DEF Smooth
  <1>15. Unread'
    <2> SUFFICES ASSUME NEW r \in Dirs, Under[r] \in cached', r \notin cached' PROVE dent'[r].size = node'[r].size
      BY DEF Unread
    <2>0. r \in Objs
      BY ObjectSet
    <2>1. CASE r = q
      BY <1>8, <2>1
    <2>2. CASE r # q
      <3>1. dent'[r] = dent[r] /\ node'[r] = node[r]
        BY <1>3, <2>0, <2>2
      <3>2. CASE r = obj /\ Fresher
        <4>1. f.kf # "delete"
          BY <1>3, <1>4, <2>2, <3>2 DEF FlushFor
        <4>2. Gone
          BY <1>3, <3>2, <4>1 DEF Fresher, NewDir, Gone, Cutting, FlushAt
        <4> QED
          BY <1>14, <3>1, <3>2, <4>2, Blank
      <3>3. CASE ~(r = obj /\ Fresher)
        BY <1>1, <1>3, <3>1, <3>3 DEF Unread
      <3> QED
        BY <3>2, <3>3
    <2> QED
      BY <2>1, <2>2
  <1>16. Full' /\ CutFull' /\ Starts' /\ Ended'
    <2>1. View(ROOT)'.size # 0
      BY <1>1, <1>5, RootSize, ObjectSet
    <2> QED
      BY <1>1, <1>3, <1>5, <1>7, <2>1, CalmFull
  <1>17. Smooth'
    <2>1. Gone' => Gone
      BY <1>3 DEF Gone, FlushAt
    <2>2. Gone' => node'[obj].size = 0 /\ dent'[obj'] = NoDent
      <3>1. Gone => obj \in Objs
        BY <1>1, <1>3 DEF Gone, Basic, Control, Busy, Placed, FlushAt
      <3> QED
        BY <1>3, <1>14, <2>1, <3>1
    <2>3. Fresher' => Fresher
      BY <1>3 DEF Fresher, NewDir, FlushAt, Cutting
    <2>4. Fresher' => Present(obj)'
      BY <1>1, <1>3, <1>4, <2>3 DEF Smooth, Present, NodesAlike
    <2> QED
      BY <1>3, <2>2, <2>4 DEF Smooth, CutSmooth, Cutting
  <1>18. Untorn'
    BY <1>1, <1>2, FlushUntorn
  <1> QED
    BY <1>1, <1>3, <1>10, <1>11, <1>12, <1>13, <1>15, <1>16, <1>17, <1>18 DEF Healthy

(* An entry stays, or it is one of no node and no clusters; a node keeps    *)
(* all but dirty.                                                           *)
EntryKept(o) == dent'[o] = dent[o] \/ (dent'[o] = NoDent /\ ~Filed(o) /\ ~Present(o))
Shaped(p) == /\ node'[p].at = node[p].at /\ node'[p].start = node[p].start
             /\ node'[p].size = node[p].size /\ node'[p].contig = node[p].contig

(* A step that changes entry or node of an empty object alone. *)
Edited(q) ==
    /\ UNCHANGED <<fat, cached, vbr, sysents, cmap, cmap_dirty, dmap>> /\ Shaped(ROOT)
    /\ \A p \in Objs : p # q => Shaped(p) /\ EntryKept(p)
    /\ q \in Objs => /\ Under[q] \in cached /\ dent[q].size = 0 /\ dent'[q].size = 0
                     /\ Shaped(q) \/ (node'[q].size = 0 /\ node'[q].start = FREE)

(* Files are the same or gone, and those that matter are the same.          *)
LEMMA EditedSeen ==
    ASSUME Basic, NEW q, Edited(q)
    PROVE  /\ \A o \in Objects : SeenAs(o)
           /\ ViewSame(ROOT)
           /\ \A o \in Objs : o # q /\ (Filed(o) \/ Present(o)) => ViewSame(o) /\ dent'[o] = dent[o]
           /\ \A o \in Objs : dent'[o] = dent[o] \/ dent'[o].size = 0
           /\ \A o \in Objs : dent'[o].size = dent[o].size /\ (Filed(o)' <=> Filed(o))
  <1>0. cached' = cached /\ DentsTyped
    BY DEF Edited, Basic, Typed, DeviceTyped
  <1>1. ViewSame(ROOT)
    BY ViewIs, ViewSameBy DEF Edited, Shaped
  <1>2. ASSUME NEW o \in Objs, Under[o] \in cached, Shaped(o) PROVE ViewSame(o)
    BY <1>0, <1>2, ViewIs, ViewSameBy DEF Shaped
  <1>3. ASSUME NEW o \in Objs, Under[o] \notin cached, dent'[o] = dent[o] PROVE ViewSame(o)
    BY <1>0, <1>3, ViewIs, ViewSameBy
  <1>4. ASSUME NEW o \in Objs, Under[o] \notin cached, dent'[o] = NoDent PROVE View(o)'.size = 0 /\ View(o)'.start = FREE
    BY <1>0, <1>4, ViewIs, Blank
  <1>5. ASSUME NEW o \in Objs, o # q PROVE Shaped(o) /\ EntryKept(o)
    BY <1>5 DEF Edited
  <1>6. ASSUME q \in Objs PROVE Under[q] \in cached /\ (Shaped(q) \/ (node'[q].size = 0 /\ node'[q].start = FREE))
    BY <1>6 DEF Edited
  <1>7. ASSUME NEW o \in Objs PROVE SeenAs(o)
    <2>1. CASE o # q
      BY <1>2, <1>3, <1>4, <1>5, <2>1 DEF EntryKept, SeenAs
    <2>2. CASE o = q
      <3>1. Under[o] \in cached' /\ View(o)' = node'[o]
        BY <1>0, <1>6, <2>2, ViewIs
      <3> QED
        BY <1>2, <1>6, <2>2, <3>1 DEF SeenAs
    <2> QED
      BY <2>1, <2>2
  <1>8. \A o \in Objects : SeenAs(o)
    BY <1>1, <1>7, ObjectSet DEF SeenAs
  <1>9. ASSUME NEW o \in Objs, o # q, Filed(o) \/ Present(o) PROVE ViewSame(o) /\ dent'[o] = dent[o]
    <2>1. dent'[o] = dent[o]
      BY <1>5, <1>9 DEF EntryKept
    <2> QED
      BY <1>2, <1>3, <1>5, <1>9, <2>1
  <1>10. ASSUME NEW o \in Objs PROVE dent'[o].size = dent[o].size /\ (dent'[o] = dent[o] \/ dent'[o].size = 0)
    <2>1. CASE o # q
      <3>1. dent[o].size \in Nat
        BY <1>0 DEF DentsTyped, IsDent
      <3> QED
        BY <1>5, <2>1, <3>1, Blank DEF EntryKept, Filed
    <2>2. CASE o = q
      BY <2>2 DEF Edited
    <2> QED
      BY <2>1, <2>2
  <1>11. \A o \in Objs : Filed(o)' <=> Filed(o)
    BY <1>10 DEF Filed
  <1> QED
    BY <1>1, <1>8, <1>9, <1>10, <1>11

(* What is below a directory that counts is found where it was,             *)
LEMMA EditedFound ==
    ASSUME Basic, Basic', NEW q, Edited(q), NEW o \in Objs, o # q, Filed(o) \/ Present(o), Found(o),
           \A i \in Nat : Counts(Under[o], i) /\ View(o).at[1] = At(Under[o], i) => Counts(Under[o], i)'
    PROVE  Found(o)'
  <1>1. PICK d : d = Under[o]
    OBVIOUS
  <1>2. PICK i \in Nat : Counts(d, i) /\ Within(d, i) /\ View(o).at[1] = At(d, i)
    BY <1>1 DEF Found
  <1>3. ViewSame(o)
    BY EditedSeen
  <1>4. d # ROOT => d \in Objs /\ Filed(d) /\ d # q
    BY <1>1, <1>2, ObjectSet DEF Within, Filed, Edited, Basic, Typed, DeviceTyped, DentsTyped, IsDent
  <1>5. ViewSame(d) /\ (d # ROOT => dent'[d] = dent[d])
    BY <1>4, EditedSeen
  <1>6. At(d, i)' = At(d, i)
    BY <1>5, CalmAt DEF Edited
  <1>7. Within(d, i)'
    BY <1>2, <1>5 DEF Within
  <1>8. Counts(d, i)'
    BY <1>1, <1>2
  <1>9. View(o)'.at = View(o).at
    BY <1>3, ViewSameIs
  <1> QED
    BY <1>1, <1>2, <1>6, <1>7, <1>8, <1>9, FoundBy

(* so all is lodged if q is,                                                *)
LEMMA EditedLodged ==
    ASSUME Basic, Basic', Lodged, NEW q, Edited(q), \A o : ~Coming(o),
           \A o \in Objs : Found(o) => \A i \in Nat :
               Counts(Under[o], i) /\ View(o).at[1] = At(Under[o], i) => Counts(Under[o], i)' \/ o = q,
           q \in Objs => ~Present(q)' \/ Coming(q)' \/ Found(q)'
    PROVE  Lodged'
  <1> SUFFICES ASSUME NEW o \in Objs
               PROVE  /\ Filed(o)' /\ Under[o] \in cached' => Present(o)'
                      /\ Filed(o)' \/ (Present(o)' /\ ~Coming(o)') => Found(o)'
    BY DEF Lodged
  <1>1. Filed(o)' <=> Filed(o)
    BY EditedSeen
  <1>2. CASE o = q
    <2>1. ~Filed(o)
      BY <1>2 DEF Filed, Edited
    <2> QED
      BY <1>1, <1>2, <2>1
  <1>3. CASE o # q
    <2>1. Present(o)' <=> Present(o)
      BY <1>3 DEF Edited, Shaped, Present
    <2>2. cached' = cached
      BY DEF Edited
    <2>3. ASSUME Filed(o) \/ Present(o) PROVE Found(o)'
      <3>1. Found(o)
        BY <2>3 DEF Lodged
      <3> QED
        BY <1>3, <2>3, <3>1, EditedFound
    <2> QED
      BY <1>1, <2>1, <2>2, <2>3 DEF Lodged
  <1> QED
    BY <1>2, <1>3

(* chains, entries and bitmap are as they were,                             *)
LEMMA EditedRest ==
    ASSUME Basic, Basic', Agrees, Mapped, Full, Starts, Ended, g_initialized, NEW q, Edited(q),
           pc \notin Cutting, pc' \notin Mid, pc # "bitmap"
    PROVE  Agrees' /\ Mapped' /\ Full' /\ CutFull' /\ Starts' /\ Ended'
  <1>1. /\ \A o \in Objects : SeenAs(o)
        /\ ViewSame(ROOT)
        /\ \A o \in Objs : dent'[o] = dent[o] \/ dent'[o].size = 0
    BY EditedSeen
  <1>2. UNCHANGED <<fat, cmap, cmap_dirty, dmap>>
    BY DEF Edited
  <1>3. ROOT \notin Objs
    BY ObjectSet
  <1>4. Agrees'
    BY <1>1, <1>2, <1>3, CalmAgrees
  <1>5. Mapped'
    BY <1>1, <1>2, <1>3, CalmMapped
  <1>6. View(ROOT)'.size # 0
    BY <1>1, RootSize
  <1>7. pc \notin Mid
    BY DEF Mid, Cutting
  <1> QED
    BY <1>1, <1>2, <1>4, <1>5, <1>6, <1>7, CalmFull

(* nodes have their entries if q has,                                       *)
LEMMA EditedEntered ==
    ASSUME Basic, Entered, NEW q, Edited(q), ~Gone \/ obj = q,
           q \in Objs => ~Present(q)' \/ (Gone' /\ obj' = q) \/ (dent'[q].k = "ok" /\ dent'[q].at = node'[q].at)
    PROVE  Entered'
  <1> SUFFICES ASSUME NEW o \in Objs, Present(o)', ~(o = obj' /\ Gone')
               PROVE  dent'[o].k = "ok" /\ dent'[o].at = node'[o].at
    BY DEF Entered
  <1>1. CASE o # q
    <2>1. node'[o].at = node[o].at /\ Present(o)
      BY <1>1 DEF Edited, Shaped, Present
    <2>2. dent'[o] = dent[o]
      BY <1>1, <2>1, EditedSeen
    <2> QED
      BY <2>1, <2>2 DEF Entered
  <1> QED
    BY <1>1

(* and sizes compare as before.                                             *)
LEMMA EditedSizes ==
    ASSUME Basic, NotLonger, Unread, NEW q, Edited(q), ~Fresher \/ obj = q,
           \A o : node[o].dirty = TRUE /\ Behind(o) => node'[o].dirty = TRUE /\ Behind(o)',
           q \in Objs => node'[q].size = 0 \/ ((pc # "bitmap" /\ Fresher => Fresher' /\ pc' # "bitmap") /\ obj' = obj)
    PROVE  NotLonger' /\ Unread'
  <1>0. cached' = cached /\ \A o \in Objs : dent'[o].size = dent[o].size
    BY EditedSeen DEF Edited
  <1>1. NotLonger'
    <2> SUFFICES ASSUME NEW o \in Objs, Under[o] \in cached'
                 PROVE  dent'[o].size <= node'[o].size \/ (node'[o].dirty = TRUE /\ Behind(o)')
      BY DEF NotLonger
    <2>1. CASE o # q \/ node'[o].size = node[o].size
      <3>1. node'[o].size = node[o].size
        BY <2>1 DEF Edited, Shaped
      <3> QED
        BY <1>0, <3>1 DEF NotLonger
    <2>2. CASE o = q /\ node'[o].size = 0
      BY <2>2 DEF Edited
    <2> QED
      BY <2>1, <2>2 DEF Edited, Shaped
  <1>2. Unread'
    <2> SUFFICES ASSUME NEW r \in Dirs, Under[r] \in cached', r \notin cached', ~(r = obj' /\ Fresher' /\ pc' # "bitmap")
                 PROVE  dent'[r].size = node'[r].size
      BY DEF Unread
    <2>0. r \in Objs
      BY ObjectSet
    <2>1. CASE r # q
      <3>1. node'[r].size = node[r].size
        BY <2>0, <2>1 DEF Edited, Shaped
      <3>2. dent[r].size = node[r].size
        BY <1>0, <2>1 DEF Unread
      <3> QED
        BY <1>0, <2>0, <3>1, <3>2
    <2>2. CASE r = q /\ node'[r].size = 0
      BY <2>0, <2>2 DEF Edited
    <2>3. CASE r = q /\ node'[r].size # 0
      <3>1. node'[r].size = node[r].size
        BY <2>0, <2>3 DEF Edited, Shaped
      <3>2. ~(r = obj /\ Fresher /\ pc # "bitmap")
        BY <2>0, <2>3
      <3>3. dent[r].size = node[r].size
        BY <1>0, <3>2 DEF Unread
      <3> QED
        BY <1>0, <2>0, <3>1, <3>3
    <2> QED
      BY <2>1, <2>2, <2>3
  <1> QED
    BY <1>1, <1>2

(* The places that counted count.                                           *)
LEMMA EditedCounts ==
    ASSUME Basic, NEW q, Edited(q), CountsOn, NEW o \in Objs, Under[o] = ROOT \/ Under[o] # q, Found(o)
    PROVE  \A i \in Nat : Counts(Under[o], i) /\ View(o).at[1] = At(Under[o], i) /\ (Under[o] = ROOT \/ Filed(Under[o]) \/ Present(Under[o]))
              => Counts(Under[o], i)'
  <1>1. PICK d : d = Under[o]
    OBVIOUS
  <1> SUFFICES ASSUME NEW i \in Nat, Counts(d, i), d = ROOT \/ Filed(d) \/ Present(d)
               PROVE  Counts(d, i)'
    BY <1>1
  <1>2. d \in Dirs \union {ROOT} /\ (d # ROOT => d \in Objs)
    BY <1>1, UnderIs
  <1>3. ViewSame(d)
    BY <1>1, <1>2, EditedSeen
  <1>4. View(d)'.size = View(d).size /\ i < View(d).size
    BY <1>3, ViewSameIs DEF Counts
  <1> QED
    BY <1>2, <1>4 DEF CountsOn

(* The directory of what is found is the root or has clusters.              *)
LEMMA FoundDir ==
    ASSUME Basic, NEW o \in Objs, Found(o)
    PROVE  Under[o] = ROOT \/ Filed(Under[o])
  <1>1. PICK i \in Nat : Within(Under[o], i)
    BY DEF Found
  <1> QED
    BY <1>1, UnderIs DEF Within, Filed, Basic, Typed, DeviceTyped, DentsTyped, IsDent

(* The entry of obj is removed, as no cluster was to be had for it.         *)
Deletes(q) ==
    /\ q = obj /\ obj' = obj /\ dent' = [dent EXCEPT ![q] = NoDent]
    /\ UNCHANGED <<fat, cached, vbr, sysents, cmap, cmap_dirty, dmap, node>>
    /\ pc = "delete" /\ pc' = "flush" /\ f'.k = "detach" /\ f'.kf = "fail" /\ f'.o = Under[q]

(* DeleteEntry: obj has no clusters yet, and nothing is below it.           *)
LEMMA RestDelete ==
    ASSUME IInv, IInv', Healthy, sound, g_initialized, DeleteEntry, ~Fails
    PROVE  Healthy' /\ (Untorn => Untorn')
  <1>0. Basic /\ Basic'
    BY DEF IInv
  <1>1. PICK q : Deletes(q)
    BY DEF DeleteEntry, Flushing, Deletes, memory, call
  <1>2. q = obj /\ obj' = obj /\ pc = "delete" /\ pc' = "flush" /\ f'.k = "detach" /\ f'.kf = "fail"
    BY <1>1 DEF Deletes
  <1>3. q \in Objs /\ Under[q] \in cached /\ Under[q] # q
    BY <1>0, <1>2, BusyFacts DEF InDir, Placed
  <1>4. DentsTyped
    BY <1>0 DEF Basic, Typed, DeviceTyped
  <1>5. dent'[q] = NoDent /\ \A p \in Objs : p # q => dent'[p] = dent[p]
    BY <1>1, <1>3, <1>4, Blank, DentReplaced DEF Deletes
  <1>6. node[q].size = 0 /\ Present(q)
    BY <1>2 DEF Healthy, Smooth, Fresher, NewDir
  <1>7. dent[q].size = 0
    <2>1. ~Behind(q)
      BY <1>2 DEF Behind
    <2>2. dent[q].size <= node[q].size
      BY <1>3, <2>1 DEF Healthy, NotLonger
    <2> QED
      BY <1>3, <1>4, <1>6, <2>2 DEF DentsTyped, IsDent
  <1>8. Edited(q)
    BY <1>1, <1>3, <1>5, <1>7, Blank DEF Edited, Shaped, EntryKept, Deletes
  <1>9. ~Gone /\ Gone' /\ Fresher' /\ pc' \notin Cutting /\ pc \notin Cutting /\ pc' \notin Mid /\ (\A o : ~Coming(o) /\ ~Behind(o))
    BY <1>2 DEF Gone, Fresher, NewDir, FlushAt, Cutting, Mid, Coming, Behind
  <1>10. CountsOn
    BY <1>0, <1>9, CountsGo
  <1>11. Entered'
    BY <1>0, <1>2, <1>8, <1>9, EditedEntered DEF Healthy
  <1>12. Found(q)'
    <2>1. Found(q)
      BY <1>3, <1>6, <1>9 DEF Healthy, Lodged
    <2>2. PICK d : d = Under[q]
      OBVIOUS
    <2>3. View(q) = node[q] /\ View(q)' = node'[q] /\ node' = node
      BY <1>1, <1>3, ViewIs DEF Deletes
    <2>4. d # ROOT => d \in Objs /\ dent'[d] = dent[d] /\ Filed(d)
      BY <1>0, <1>3, <1>5, <2>1, <2>2, UnderIs, FoundDir
    <2>5. ViewSame(d)
      BY <1>0, <1>3, <1>8, <2>2, <2>4, EditedSeen
    <2>6. fat' = fat
      BY <1>1 DEF Deletes
    <2>7. \A i \in Nat : Within(d, i) => Within(d, i)'
      BY <2>4 DEF Within
    <2> QED
      BY <1>0, <1>3, <1>10, <2>1, <2>2, <2>3, <2>5, <2>6, <2>7, CalmFound
  <1>13. Lodged'
    <2>1. \A o \in Objs : Found(o) => \A i \in Nat :
               Counts(Under[o], i) /\ View(o).at[1] = At(Under[o], i) => Counts(Under[o], i)' \/ o = q
      <3>1. ASSUME NEW o \in Objs, Found(o) PROVE Under[o] = ROOT \/ Filed(Under[o])
        BY <1>0, <3>1, FoundDir
      <3>2. ~Filed(q) /\ q # ROOT
        BY <1>3, <1>7, ObjectSet DEF Filed
      <3> QED
        BY <1>0, <1>8, <1>10, <3>1, <3>2, EditedCounts
    <2> QED
      BY <1>0, <1>8, <1>9, <1>12, <2>1, EditedLodged DEF Healthy
  <1>14. Agrees' /\ Mapped' /\ Full' /\ CutFull' /\ Starts' /\ Ended'
    BY <1>0, <1>2, <1>8, <1>9, EditedRest DEF Healthy
  <1>15. NotLonger' /\ Unread'
    BY <1>0, <1>2, <1>8, <1>9, EditedSizes DEF Healthy
  <1>16. Smooth'
    <2>1. Present(q)' /\ node'[q].size = 0
      BY <1>1, <1>6 DEF Present, Deletes
    <2> QED
      BY <1>2, <1>5, <1>9, <2>1 DEF Smooth, CutSmooth
  <1>17. vbr' = TRUE /\ sysents' = TRUE
    BY <1>1 DEF Deletes, Healthy
  <1>18. ASSUME Untorn PROVE Untorn'
    BY <1>5, <1>18, UntornSame
  <1> QED
    BY <1>11, <1>13, <1>14, <1>15, <1>16, <1>17, <1>18 DEF Healthy

(* WriteData writes over clusters of obj, where no entry of a node or of a  *)
(* file with clusters is.                                                   *)
LEMMA RestWrite ==
    ASSUME IInv, IInv', Script, Untorn, Healthy, sound, g_initialized, WriteData
    PROVE  Healthy' /\ Untorn'
  <1>0. Basic /\ Basic' /\ NodesTyped /\ Apart /\ DentsTyped
    BY DEF IInv, Basic, Typed, MemoryTyped, Space, DeviceTyped
  <1>1. /\ pc = "data" /\ pc \in InDir /\ pc' = "flush" /\ f'.k = "done" /\ f'.kf = "done" /\ f'.o = obj /\ obj' = obj
        /\ UNCHANGED <<fat, cached, vbr, sysents, cmap, cmap_dirty, dmap>>
    BY DEF WriteData, InDir
  <1>2. PICK q, m, n, z : /\ q = obj /\ n = node[q] /\ z = size /\ m \in Int /\ m <= z
                          /\ View(q) = n /\ Writes(q, m, z)
                          /\ node' = node \/ SetNode(q, Used(n, z))
    BY <1>0, WriteIs
  <1>3. q \in Objs /\ q \in Objects /\ Under[q] \in cached /\ IsNode(n) /\ z \in Nat /\ q \in Files
    BY <1>0, <1>1, <1>2, BusyFacts DEF Script, Course, Writing
  <1>4. n.size = z
    BY <1>1, <1>2 DEF Script, Object
  <1>5. Place(q) = 0 .. z - 1
    BY <1>1, <1>2, <1>4 DEF Place, Length
  <1>6. NodesAlike /\ \A p \in Objects : node[p].dirty = TRUE => node'[p].dirty = TRUE
    <2>1. CASE node' = node
      BY <2>1 DEF NodesAlike
    <2>2. CASE SetNode(q, Used(n, z))
      <3>1. PICK b : b = (n.dirty \/ z > 0)
        OBVIOUS
      <3>2. b \in BOOLEAN /\ (n.dirty = TRUE => b = TRUE)
        BY <3>1
      <3>3. PICK k : k = [n EXCEPT !.dirty = b]
        OBVIOUS
      <3>4. IsNode(k) /\ k.at = n.at /\ k.start = n.start /\ k.size = n.size /\ k.contig = n.contig /\ k.dirty = b
        BY <1>3, <3>2, <3>3, NodeDirtied
      <3>5. SetNode(q, k)
        BY <2>2, <3>1, <3>3 DEF Used
      <3>6. node'[q] = k /\ \A p \in Objects : p # q => node'[p] = node[p]
        BY <1>0, <1>3, <3>4, <3>5, NodeReplaced
      <3> QED
        BY <1>2, <3>2, <3>4, <3>6 DEF NodesAlike
    <2> QED
      BY <1>2, <2>1, <2>2
  <1>7. ~Gone /\ ~Fresher /\ ~Gone' /\ ~Fresher' /\ pc' \notin Cutting /\ pc \notin Cutting /\ pc' \notin Mid
        /\ (\A o : ~Coming(o)) /\ \A o : Behind(o) => Behind(o)' /\ o = q
    BY <1>1, <1>2 DEF Gone, Fresher, NewDir, FlushAt, Cutting, Mid, Coming, Behind
  <1>8. \A a \in Objs : dent'[a] = IF dent[a].at[1] \in Filled(q, m) THEN NoDent ELSE dent[a]
    BY <1>2 DEF Writes, Overwritten
  <1>9. ASSUME NEW a \in Objs, Filed(a) \/ Present(a) PROVE dent'[a] = dent[a]
    <2> SUFFICES ASSUME NEW j \in 0 .. m - 1, dent[a].at[1] = At(q, j) PROVE FALSE
      BY <1>8 DEF Filled
    <2>1. PICK i \in Nat : Counts(Under[a], i) /\ dent[a].at[1] = At(Under[a], i)
      BY <1>0, <1>7, <1>9, EntrySits DEF Healthy
    <2>2. j \in Place(q)
      BY <1>2, <1>3, <1>5
    <2>3. At(q, j) \in Clusters
      BY <1>3, <2>2 DEF Healthy, Full
    <2>4. Under[a] # q /\ Under[a] \in Objects
      BY <1>3, UnderIs, ObjectSet
    <2> QED
      BY <1>0, <1>3, <2>1, <2>2, <2>3, <2>4, Distinct
  <1>10. Edited(ROOT)
    <2>1. \A a \in Objs : EntryKept(a)
      BY <1>8, <1>9 DEF EntryKept
    <2> QED
      BY <1>1, <1>6, <2>1, ObjectSet DEF Edited, Shaped, NodesAlike
  <1>11. CountsOn
    BY <1>0, <1>7, CountsGo
  <1>12. Entered'
    BY <1>0, <1>7, <1>10, EditedEntered, ObjectSet DEF Healthy
  <1>13. Lodged'
    <2>1. \A o \in Objs : Found(o) => \A i \in Nat :
               Counts(Under[o], i) /\ View(o).at[1] = At(Under[o], i) => Counts(Under[o], i)' \/ o = ROOT
      <3>1. ASSUME NEW o \in Objs, Found(o) PROVE Under[o] = ROOT \/ Filed(Under[o])
        BY <1>0, <3>1, FoundDir
      <3> QED
        BY <1>0, <1>10, <1>11, <3>1, EditedCounts
    <2> QED
      BY <1>0, <1>7, <1>10, <2>1, EditedLodged, ObjectSet DEF Healthy
  <1>14. Agrees' /\ Mapped' /\ Full' /\ CutFull' /\ Starts' /\ Ended'
    BY <1>0, <1>1, <1>7, <1>10, EditedRest DEF Healthy
  <1>15. NotLonger' /\ Unread'
    <2>1. \A o : node[o].dirty = TRUE /\ Behind(o) => node'[o].dirty = TRUE /\ Behind(o)'
      BY <1>3, <1>6, <1>7
    <2>2. ROOT \notin Objs /\ NotLonger /\ Unread
      BY ObjectSet DEF Healthy
    <2>3. PICK r : r = ROOT
      OBVIOUS
    <2>4. Edited(r) /\ r \notin Objs
      BY <1>10, <2>2, <2>3
    <2> QED
      BY <1>0, <1>7, <2>1, <2>2, <2>4, EditedSizes
  <1>16. Smooth'
    BY <1>1, <1>7 DEF Smooth, CutSmooth
  <1>17. Untorn'
    BY <1>8, UntornSame
  <1> QED
    BY <1>1, <1>12, <1>13, <1>14, <1>15, <1>16, <1>17 DEF Healthy

(* The empty entry of q goes to a free slot of the directory d; its node is *)
(* made, or there was no memory.                                            *)
Committed(q, d, at) ==
    /\ q = obj /\ obj' = obj /\ d = Under[q] /\ at \in Slots /\ at \notin Taken(d)
    /\ \E j \in Nat : j < node[d].size /\ At(d, j) = at[1]
    /\ dent'[q] = EmptyEntry("ok", at)
    /\ \A p \in Objs : p # q => dent'[p] = IF dent[p].at = at THEN NoDent ELSE dent[p]
    /\ \/ node' = node /\ pc' = "fail"
       \/ /\ pc' = "flush" /\ f'.o = d /\ f'.k = "created" /\ f'.kf = "fail"
          /\ node'[q].at = at /\ node'[q].size = 0 /\ node'[q].start = FREE
          /\ node'[d].dirty = TRUE /\ node'[d].at = node[d].at /\ node'[d].start = node[d].start
          /\ node'[d].size = node[d].size /\ node'[d].contig = node[d].contig
          /\ \A p \in Objects : p # q /\ p # d => node'[p] = node[p]

(* That is what CommitEntry does when nothing fails, or there is no valid   *)
(* slot.                                                                    *)
LEMMA CommitOk ==
    ASSUME Basic, CommitEntry, ~Fails, Places(Under[obj]) # {}
    PROVE  \/ UNCHANGED <<dent, node>> /\ pc' = "fail" /\ obj' = obj
           \/ \E q, d, at : Committed(q, d, at)
  <1>1. PICK e : e = EmptyEntry("ok", SlotIn(Under[obj]))
    OBVIOUS
  <1>2. /\ pc = "commit" /\ obj' = obj
        /\ \/ UNCHANGED <<dent, node>> /\ pc' = "fail"
           \/ /\ dent' = InSlot(SlotIn(Under[obj]), obj, e)
              /\ \/ node' = node /\ pc' = "fail"
                 \/ /\ node' = [node EXCEPT ![obj] = NodeOf(e), ![Under[obj]].dirty = TRUE]
                    /\ pc' = "flush" /\ f'.o = Under[obj]
    BY <1>1 DEF CommitEntry, Flushing, Goto, call
  <1>3. obj \in Objs /\ pc \in InDir
    BY <1>2, BusyFacts DEF InDir
  <1>4. CASE UNCHANGED <<dent, node>> /\ pc' = "fail"
    BY <1>2, <1>4
  <1>5. CASE ~(UNCHANGED <<dent, node>> /\ pc' = "fail")
    <2>1. PICK q, d, at, y : Commits(q, d, at, y) /\ (pc' = "fail" \/ (pc' = "flush" /\ f'.k = "created" /\ f'.kf = "fail"))
      BY <1>5, CommitIs
    <2>2. dent'[obj] = e /\ q = obj /\ dent'[q] = y /\ y.at = at
      BY <1>2, <1>3, <1>5, <2>1, InSlotIs DEF Commits
    <2>3. y = EmptyEntry("ok", at) /\ e = EmptyEntry("ok", at)
      <3>1. e.at = SlotIn(Under[obj])
        BY <1>1 DEF EmptyEntry
      <3> QED
        BY <1>1, <2>2, <3>1
    <2>4. CASE node' = node /\ pc' = "fail"
      <3>1. Committed(q, d, at)
        BY <1>2, <2>1, <2>2, <2>3, <2>4 DEF Commits, Committed
      <3> QED
        BY <3>1
    <2>5. CASE /\ node' = [node EXCEPT ![obj] = NodeOf(e), ![Under[obj]].dirty = TRUE]
               /\ pc' = "flush" /\ f'.o = Under[obj]
      <3>0. pc \in InDir /\ UNCHANGED <<g_initialized, cmap, cmap_dirty, cached, heap>>
        BY <1>3 DEF CommitEntry
      <3>1. PICK n : n = NodeOf(e)
        OBVIOUS
      <3>2. IsNode(n) /\ n.at = at /\ n.size = 0 /\ n.start = FREE
        <4>1. IsDent(e) /\ e.at = at /\ e.size = 0 /\ e.start = FREE
          <5>1. PICK k \in {"none", "ok", "torn"} : k = "ok"
            OBVIOUS
          <5> QED
            BY <2>3, <5>1, EmptyEntries
        <4> QED
          BY <3>1, <4>1, NodeOfDent
      <3>3. node'[obj] = n /\ node'[Under[obj]].dirty = TRUE
            /\ LET c == Under[obj] IN
                /\ c # obj /\ node'[c].at = node[c].at /\ node'[c].start = node[c].start
                /\ node'[c].size = node[c].size /\ node'[c].contig = node[c].contig
            /\ \A p \in Objects : p # obj /\ p # Under[obj] => node'[p] = node[p]
        BY <2>5, <3>0, <3>1, <3>2, WorkedIn, WorkedDirty
      <3>4. Committed(q, d, at)
        BY <1>2, <2>1, <2>2, <2>3, <2>5, <3>2, <3>3 DEF Commits, Committed
      <3> QED
        BY <3>4
    <2> QED
      BY <1>2, <1>5, <2>4, <2>5
  <1> QED
    BY <1>4, <1>5

(* It hits no entry that matters, as those are taken slots.                 *)
LEMMA CommittedEdits ==
    ASSUME Basic, Script, Apart, Untorn, Healthy, pc = "commit", UNCHANGED <<fat, cached, vbr, sysents, cmap, cmap_dirty, dmap>>,
           NEW q, NEW d, NEW at, Committed(q, d, at)
    PROVE  Edited(q) /\ ~Present(q) /\ q \in Objs /\ Untorn' /\ ~Filed(q)
  <1>0. DentsTyped
    BY DEF Basic, Typed, DeviceTyped
  <1>1. /\ q \in Objs /\ q \in Objects /\ d = Under[q] /\ d \in cached /\ d \in Objects
        /\ (d = ROOT \/ (d \in Objs /\ Under[d] \in cached)) /\ q # d
    BY BusyFacts, UnderIs DEF Committed, Placed, InDir
  <1>2. ~Present(q)
    BY DEF Script, Object, Unborn, Committed
  <1>3. ~Filed(q) /\ dent[q].size = 0
    <2>1. ~Filed(q)
      BY <1>1, <1>2 DEF Healthy, Lodged
    <2> QED
      BY <1>0, <1>1, <2>1 DEF Filed, DentsTyped, IsDent
  <1>4. at[1] \in Clusters /\ at \notin Taken(d)
    BY SlotsAre DEF Committed
  <1>5. PICK j \in Nat : j < node[d].size /\ At(d, j) = at[1]
    BY DEF Committed
  <1>6. View(d) = node[d] /\ Length(d) = node[d].size /\ j \in Place(d)
    <2>1. View(d) = node[d]
      BY <1>1, ViewIs
    <2>2. Length(d) = View(d).size
      BY Lengths DEF Mid
    <2>3. node[d].size \in Nat
      BY <1>1 DEF Basic, Typed, MemoryTyped, NodesTyped, IsNode
    <2> QED
      BY <1>5, <2>1, <2>2, <2>3 DEF Place
  <1>7. ASSUME NEW p \in Objs, p # q, Filed(p) \/ Present(p) PROVE dent[p].at # at
    <2> SUFFICES ASSUME dent[p].at = at PROVE FALSE
      OBVIOUS
    <2>1. ~Coming(p) /\ ~Gone
      BY DEF Coming, Gone, FlushAt
    <2>2. PICK i \in Nat : Counts(Under[p], i) /\ dent[p].at[1] = At(Under[p], i) /\ dent[p].at = View(p).at
      BY <1>7, <2>1, EntrySits DEF Healthy
    <2>3. Under[p] = d
      BY <1>1, <1>4, <1>5, <1>6, <2>2, Distinct, ObjectSet
    <2>4. View(p) = node[p]
      BY <1>1, <2>3, ViewIs
    <2>5. node[p].at \in Taken(d)
      BY <2>3 DEF Taken, Child
    <2> QED
      BY <1>4, <2>2, <2>4, <2>5
  <1>8. \A p \in Objs : p # q => dent'[p] = IF dent[p].at = at THEN NoDent ELSE dent[p]
    BY DEF Committed
  <1>9. \A p \in Objs : p # q => EntryKept(p)
    BY <1>7, <1>8 DEF EntryKept
  <1>10. dent'[q].size = 0 /\ dent'[q].start = FREE /\ dent'[q].k = "ok"
    BY EmptyEntries DEF Committed
  <1>11. \A p \in Objects : p # q => Shaped(p)
    BY <1>1 DEF Committed, Shaped
  <1>12. Shaped(q) \/ (node'[q].size = 0 /\ node'[q].start = FREE)
    BY DEF Committed, Shaped
  <1>13. Edited(q)
    <2>1. Shaped(ROOT) /\ \A p \in Objs : p # q => Shaped(p)
      BY <1>1, <1>11, ObjectSet
    <2> QED
      BY <1>1, <1>3, <1>9, <1>10, <1>12, <2>1 DEF Edited
  <1>14. Untorn'
    <2> SUFFICES ASSUME NEW p \in Objs PROVE Proper(dent[p])'
      BY DEF Untorn
    <2>1. CASE p = q
      BY <1>10, <2>1 DEF Proper
    <2>2. CASE p # q
      BY <1>8, <2>2, Blank DEF Untorn, Proper
    <2> QED
      BY <2>1, <2>2
  <1> QED
    BY <1>1, <1>2, <1>3, <1>13, <1>14

(* So CommitEntry keeps Healthy.                                            *)
LEMMA RestCommit ==
    ASSUME IInv, IInv', Script, Store, Untorn, Healthy, sound, g_initialized, CommitEntry, ~Fails
    PROVE  Healthy' /\ Untorn'
  <1>0. Basic /\ Basic' /\ Apart
    BY DEF IInv, Space
  <1>1. pc = "commit" /\ UNCHANGED <<fat, cached, vbr, sysents, cmap, cmap_dirty, dmap, data>>
    BY DEF CommitEntry
  <1>2. ~Gone /\ ~Fresher /\ pc \notin Cutting /\ \A o : ~Coming(o) /\ ~Behind(o)
    BY <1>1 DEF Gone, Fresher, NewDir, FlushAt, Cutting, Coming, Behind
  <1>3. Places(Under[obj]) # {}
    BY <1>1 DEF Store, Room
  <1>4. CASE UNCHANGED <<dent, node>> /\ pc' = "fail"
    <2>1. Still
      BY <1>1, <1>4 DEF Still, NodesAlike
    <2>2. CountsOn
      BY <1>0, <1>4, CountsGo DEF Cutting
    <2>3. pc' \notin Mid /\ Smooth'
      BY <1>4, SmoothFree DEF Mid, Cutting, FlushAt
    <2>4. Healthy'
      BY <1>1, <2>1, <2>2, <2>3, HealthyPlain
    <2> QED
      BY <1>4, <2>4, UntornSame
  <1>5. ASSUME NEW q, NEW d, NEW at, Committed(q, d, at) PROVE Healthy' /\ Untorn'
    <2>1. Edited(q) /\ ~Present(q) /\ q \in Objs /\ Untorn' /\ ~Filed(q)
      BY <1>0, <1>1, <1>5, CommittedEdits
    <2>2. q = obj /\ obj' = q /\ d = Under[q] /\ ((pc' = "fail" /\ node' = node) \/ (pc' = "flush" /\ f'.k = "created" /\ f'.kf = "fail" /\ f'.o = d))
      BY <1>5 DEF Committed
    <2>3. ~Gone' /\ ~Fresher' /\ pc' \notin Mid /\ pc' \notin Cutting
      BY <2>2 DEF Gone, Fresher, NewDir, FlushAt, Cutting, Mid
    <2>4. CountsOn
      BY <1>0, <2>3, CountsGo
    <2>5. ~Present(q)' \/ (Coming(q)' /\ dent'[q].k = "ok" /\ dent'[q].at = node'[q].at)
      <3>1. CASE node' = node
        BY <2>1, <3>1 DEF Present
      <3>2. CASE pc' = "flush"
        <4>1. node'[q].at = at
          BY <1>5, <3>2 DEF Committed
        <4> QED
          BY <1>5, <2>2, <3>2, <4>1, EmptyEntries DEF Coming, Committed
      <3> QED
        BY <2>2, <3>1, <3>2
    <2>6. Entered'
      <3>1. Entered /\ (~Present(q)' \/ (dent'[q].k = "ok" /\ dent'[q].at = node'[q].at))
        BY <2>5 DEF Healthy
      <3> QED
        BY <1>0, <1>2, <2>1, <3>1, EditedEntered
    <2>7. Lodged'
      <3>1. \A o \in Objs : Found(o) => \A i \in Nat :
               Counts(Under[o], i) /\ View(o).at[1] = At(Under[o], i) => Counts(Under[o], i)' \/ o = q
        <4>1. ASSUME NEW o \in Objs, Found(o) PROVE Under[o] = ROOT \/ Filed(Under[o])
          BY <1>0, <4>1, FoundDir
        <4> QED
          BY <1>0, <2>1, <2>4, <4>1, EditedCounts
      <3> QED
        BY <1>0, <1>2, <2>1, <2>5, <3>1, EditedLodged DEF Healthy
    <2>8. Agrees' /\ Mapped' /\ Full' /\ CutFull' /\ Starts' /\ Ended'
      BY <1>0, <1>1, <1>2, <2>1, <2>3, EditedRest DEF Healthy
    <2>9. NotLonger' /\ Unread'
      BY <1>0, <1>2, <2>1, <2>2, EditedSizes DEF Healthy
    <2>10. Smooth'
      <3>1. pc' = "flush" => node'[f'.o].dirty = TRUE
        BY <1>5, <2>2 DEF Committed
      <3> QED
        BY <2>2, <2>3, <3>1 DEF Smooth, CutSmooth
    <2> QED
      BY <1>1, <2>1, <2>6, <2>7, <2>8, <2>9, <2>10 DEF Healthy
  <1> QED
    BY <1>0, <1>3, <1>4, <1>5, CommitOk

(* tree_detach takes the node of obj away, and shrink_directory may cut the *)
(* directory.                                                               *)
LEMMA DetachGoes ==
    ASSUME Basic, Detach
    PROVE  /\ node'[obj] = NoNode /\ dent' = dent
           /\ \/ pc' = "delflush"
              \/ /\ pc' = "truncate" /\ t'.k = "delflush" /\ t'.undo = FALSE
                 /\ t'.o = Under[obj] /\ t'.to < node[Under[obj]].size
  <1>1. /\ pc = "detach" /\ UNCHANGED <<g_initialized, cmap, cmap_dirty, heap>> /\ dent' = dent
        /\ cached' = cached \ {obj}
    BY DEF Detach, device
  <1>1a. PICK b \in BOOLEAN : node' = [node EXCEPT ![obj] = NoNode, ![Under[obj]].dirty = b]
    BY DetachNode
  <1>2. pc \in InDir
    BY <1>1 DEF InDir
  <1>3. cached' = cached
    BY <1>1, <1>2, BusyFacts DEF Placed
  <1>4. node'[obj] = NoNode
    BY <1>1, <1>1a, <1>2, <1>3, WorkedAs, Blank
  <1>5. pc' = "delflush" \/ \E m : m < node[Under[obj]].size /\ Truncating(Under[obj], m, "delflush", "delflush")
    BY DEF Detach, Goto
  <1> QED
    BY <1>1, <1>4, <1>5 DEF Truncating, NoT

(* Detach: what is cut is behind the last entry that is left.               *)
LEMMA RestDetach ==
    ASSUME IInv, IInv', Store, Healthy, sound, g_initialized, Detach
    PROVE  Healthy'
  <1>0. Basic /\ Basic' /\ DentsTyped
    BY DEF IInv, Basic, Typed, DeviceTyped
  <1>1. pc = "detach" /\ UNCHANGED <<fat, vbr, sysents, cmap, cmap_dirty, dmap, dent>>
    BY DEF Detach, device
  <1>2. PICK q, d, m : Detaches(q, d, m)
    BY <1>0, DetachIs
  <1>3. /\ q = obj /\ obj' = obj /\ d = Under[q] /\ cached' = cached /\ q \in Objs /\ q \in Objects /\ d \in cached /\ d \in Objects
        /\ (d = ROOT \/ (d \in Objs /\ Under[d] \in cached)) /\ q # d /\ q # ROOT
    <2>1. obj' = obj
      BY DEF Detach, Truncating, Goto, call
    <2> QED
      BY <1>0, <1>1, <1>2, <2>1, BusyFacts, UnderIs, ObjectSet DEF Detaches, Placed, InDir
  <1>4. ~Gone' /\ ~Fresher' /\ (\A o : ~Coming(o) /\ ~Behind(o)) /\ pc' \notin Mid /\ pc \notin Cutting /\ Gone
    BY <1>0, <1>1, DetachGoes DEF Gone, Fresher, NewDir, FlushAt, Cutting, Coming, Behind, Mid
  <1>5. dent[q].size = 0 /\ node'[q] = NoNode
    BY <1>0, <1>3, <1>4, DetachGoes, Blank DEF Healthy, Smooth
  <1>6. Edited(q)
    <2>1. \A p \in Objects : p # q => Shaped(p)
      BY <1>2, <1>3 DEF Detaches, Shaped
    <2>2. Shaped(ROOT) /\ \A p \in Objs : p # q => Shaped(p) /\ EntryKept(p)
      BY <1>1, <1>3, <2>1, ObjectSet DEF EntryKept
    <2> QED
      BY <1>1, <1>3, <1>5, <2>2, Blank DEF Edited
  <1>7. ~Present(q)'
    BY <1>3, <1>5, Blank DEF Present
  <1>8. Entered'
    BY <1>0, <1>3, <1>6, <1>7, EditedEntered DEF Healthy
  <1>9. Lodged'
    <2>1. ASSUME NEW o \in Objs, Found(o), NEW i \in Nat, Counts(Under[o], i), View(o).at[1] = At(Under[o], i), o # q
          PROVE  Counts(Under[o], i)'
      <3>1. PICK e : e = Under[o]
        OBVIOUS
      <3>2. e \in Objects /\ (e = ROOT \/ (e \in Objs /\ Filed(e)))
        BY <1>0, <2>1, <3>1, FoundDir, UnderIs, ObjectSet
      <3>3. e # q
        BY <1>3, <1>5, <3>2 DEF Filed
      <3>4. View(e)'.size = View(e).size
        BY <1>0, <1>6, <3>2, <3>3, EditedSeen, ViewSameIs
      <3>5. i < View(e).size /\ i \in Place(e)
        BY <1>0, <2>1, <3>1, <3>2, CountsPlace
      <3>6. CASE pc' = "delflush"
        <4>1. Counts(e, i)'
          BY <3>4, <3>5, <3>6 DEF Counts, Cutting
        <4> QED
          BY <3>1, <4>1
      <3>7. CASE pc' = "truncate" /\ e # d
        <4>1. t'.o = d
          BY <1>2, <3>7 DEF Detaches
        <4>2. Counts(e, i)'
          BY <3>4, <3>5, <3>7, <4>1 DEF Counts
        <4> QED
          BY <3>1, <4>2
      <3>8. CASE pc' = "truncate" /\ e = d
        <4>1. View(o) = node[o] /\ View(d) = node[d] /\ node[d].size \in Nat
          BY <1>0, <1>3, <3>1, <3>8, ViewIs DEF Basic, Typed, MemoryTyped, NodesTyped, IsNode
        <4>2. At(d, i) \in Clusters
          BY <3>2, <3>5, <3>8 DEF Healthy, Full
        <4>3. Present(o)
          BY <2>1, <3>1, <3>8, <4>1, <4>2, NotNoSlot DEF Present
        <4>4. node[o].at \in Slots
          BY <4>1, <4>3 DEF Store, Seated, Sits
        <4>5. i \in 0 .. node[d].size - 1 /\ node[o].at[1] = At(d, i)
          BY <2>1, <3>1, <3>5, <3>8, <4>1
        <4>6. t'.o = d /\ t'.to = m /\ i < m
          BY <1>2, <2>1, <3>1, <3>8, <4>4, <4>5 DEF Detaches
        <4>7. Counts(e, i)'
          BY <3>4, <3>5, <3>8, <4>6 DEF Counts
        <4> QED
          BY <3>1, <4>7
      <3> QED
        BY <1>2, <3>6, <3>7, <3>8 DEF Detaches
    <2> QED
      BY <1>0, <1>4, <1>6, <1>7, <2>1, EditedLodged DEF Healthy
  <1>10. Agrees' /\ Mapped' /\ Full' /\ CutFull' /\ Starts' /\ Ended'
    BY <1>0, <1>1, <1>4, <1>6, EditedRest DEF Healthy
  <1>11. NotLonger' /\ Unread'
    <2>1. node'[q].size = 0
      BY <1>5, Blank
    <2> QED
      BY <1>0, <1>3, <1>4, <1>6, <2>1, EditedSizes DEF Healthy
  <1>12. Smooth'
    <2>1. CASE pc' = "delflush"
      BY <2>1, SmoothFree DEF Cutting, FlushAt
    <2>2. CASE pc' = "truncate" /\ t'.k = "delflush" /\ t'.undo = FALSE /\ t'.o = Under[obj] /\ t'.to < node[Under[obj]].size
      <3>1. node'[d].size = node[d].size
        BY <1>2 DEF Detaches
      <3>2. t'.to < node'[t'.o].size
        BY <1>3, <2>2, <3>1
      <3> QED
        BY <1>4, <2>2, <3>2 DEF Smooth, CutSmooth
    <2> QED
      BY <1>0, <2>1, <2>2, DetachGoes
  <1> QED
    BY <1>1, <1>8, <1>9, <1>10, <1>11, <1>12 DEF Healthy

-----------------------------------------------------------------------------
(* exfat_truncate when nothing fails.                                       *)

(* What exfat_truncate does when nothing fails. *)
Calm == UNCHANGED <<fat, node, dent>>
On(q) == q = t.o /\ t'.o = q /\ t'.k = t.k
WentSame(q) == Calm /\ pc = "truncate" /\ q = t.o /\ node[q].size = t.to /\ pc' = t.k

(* sets out to grow, to shrink, or to undo a growth for which there was no  *)
(* space,                                                                   *)
WentOut(q) ==
    /\ Calm /\ On(q)
    /\ \/ /\ pc = "truncate" /\ pc' = "grow" /\ t'.to = t.to /\ t'.undo = t.undo /\ t'.left = t.to - node[q].size
          /\ node[q].size < t.to
       \/ /\ pc = "truncate" /\ pc' = "crop" /\ t'.to = t.to /\ t'.undo = t.undo /\ t'.left = node[q].size - t.to
          /\ t.to < node[q].size
       \/ /\ pc = "grow" /\ pc' = "crop" /\ t'.to = node[q].size /\ t'.left = t.to - t.left - node[q].size
          /\ t.left > 0 /\ node[q].size < t.to - t.left

(* gives up,                                                                *)
WentBack(q) ==
    /\ Calm /\ q = t.o /\ pc' = t.kf
    /\ \/ pc = "truncate" /\ node[q].size < t.to /\ node[q].start = FREE
       \/ pc = "grow" /\ t.left > 0 /\ t.to - t.left <= node[q].size

(* takes the first cluster,                                                 *)
WentFirst(q) ==
    /\ UNCHANGED <<fat, dent>> /\ On(q) /\ pc = "truncate" /\ pc' = "grow" /\ node[q].size < t.to /\ node[q].start = FREE
    /\ node'[q].start \in Clusters /\ node'[q].size = node[q].size
    /\ t'.to = t.to /\ t'.undo = t.undo /\ t'.left = t.to - node[q].size - 1

(* one more,                                                                *)
WentGrow(q) ==
    /\ UNCHANGED dent /\ On(q) /\ pc = "grow" /\ pc' = "grow" /\ t.left > 0
    /\ node'[q].start = node[q].start /\ node'[q].size = node[q].size /\ (node'[q].contig => node[q].contig)
    /\ t'.to = t.to /\ t'.undo = t.undo /\ t'.left = t.left - 1 /\ t'.prev \in Clusters

(* ends the chain,                                                          *)
WentEnd(q) ==
    /\ UNCHANGED <<node, dent, t>> /\ On(q) /\ pc = "grow" /\ pc' = "erasenew" /\ t.left = 0
    /\ fat' = IF node[q].contig THEN fat ELSE [fat EXCEPT ![t.prev] = END]

(* counts the new clusters,                                                 *)
WentErase(q) ==
    /\ UNCHANGED fat /\ q = t.o /\ pc = "erasenew" /\ pc' = t.k
    /\ node'[q].start = node[q].start /\ node'[q].size = t.to /\ node'[q].contig = node[q].contig

(* cuts the chain,                                                          *)
WentCrop(q) ==
    /\ UNCHANGED dent /\ On(q) /\ pc = "crop" /\ CutsOff
    /\ node'[q].start = (IF t.to = 0 THEN FREE ELSE node[q].start) /\ node'[q].size = node[q].size
    /\ node'[q].contig = node[q].contig
    /\ t'.to = t.to /\ t'.undo = t.undo /\ t'.left = t.left

(* frees one cluster,                                                       *)
WentFree(q) ==
    /\ UNCHANGED <<node, dent>> /\ On(q) /\ pc = "free" /\ t.left > 0 /\ FreesOne
    /\ t'.to = t.to /\ t'.undo = t.undo /\ t'.left = t.left - 1

(* or is through.                                                           *)
WentFreed(q) ==
    /\ UNCHANGED <<fat, dent>> /\ q = t.o /\ pc = "free" /\ t.left = 0
    /\ node'[q].start = node[q].start /\ node'[q].contig = node[q].contig
    /\ node'[q].size = (IF t.undo THEN node[q].size ELSE t.to)
    /\ pc' = (IF t.undo THEN t.kf ELSE t.k)

(* One of these.                                                            *)
Went(q) == \/ WentSame(q) \/ WentOut(q) \/ WentBack(q) \/ WentFirst(q) \/ WentGrow(q) \/ WentEnd(q)
           \/ WentErase(q) \/ WentCrop(q) \/ WentFree(q) \/ WentFreed(q)

(* They are all: when it sets out, since a file with clusters has its last  *)
(* one,                                                                     *)
LEMMA WentQuiet ==
    ASSUME Basic, Space, Full, Starts, ~Fails, TruncateSame \/ GrowFrom \/ GrowNoSpace \/ ShrinkFrom, NEW q, q = t.o
    PROVE  Went(q)
  <1>0. pc \in Cutting /\ Calm
    BY DEF TruncateSame, GrowFrom, GrowNoSpace, ShrinkFrom, Cutting, Calm, device, memory
  <1>1. /\ IsTrunc(t) /\ q \in Objects /\ t.to \in Nat /\ t.left \in Nat /\ t.prev \in Int /\ IsNode(node[q]) /\ node[q].size \in Nat
        /\ (q = ROOT \/ Under[q] \in cached)
    BY <1>0, CuttingFacts
  <1>2. CASE TruncateSame
    BY <1>0, <1>2 DEF TruncateSame, Went, WentSame
  <1>3. CASE GrowFrom
    <2>1. View(q) = node[q]
      BY <1>0, CutView
    <2>2. pc = "truncate" /\ node[q].size < t.to /\ node[q].start # FREE
      BY <1>3 DEF GrowFrom
    <2>3. node[q].size # 0
      BY <1>1, <2>1, <2>2 DEF Starts, Mid
    <2>4. Nth(node[q], node[q].size - 1) \in Clusters
      <3>1. node[q].size - 1 \in Place(q)
        BY <1>1, <2>1, <2>2, <2>3 DEF Place, Length
      <3> QED
        BY <1>1, <2>1, <3>1 DEF Full, At
    <2>5. PICK a : a = Nth(node[q], node[q].size - 1)
      OBVIOUS
    <2>6. t' = [t EXCEPT !.prev = a, !.left = t.to - node[q].size] /\ pc' = "grow"
      BY <1>3, <2>3, <2>4, <2>5 DEF GrowFrom, Valid
    <2>7. t.to - node[q].size \in Nat /\ a \in Int
      BY <1>1, <2>2, <2>4, <2>5, ClusterInt
    <2>8. t'.o = t.o /\ t'.to = t.to /\ t'.left = t.to - node[q].size /\ t'.undo = t.undo /\ t'.k = t.k
      BY <1>1, <2>6, <2>7, TruncMoves
    <2> QED
      BY <1>0, <2>2, <2>6, <2>8 DEF Went, WentOut, On
  <1>4. CASE ShrinkFrom
    <2>1. pc = "truncate" /\ t.to < node[q].size /\ t' = [t EXCEPT !.left = node[q].size - t.to] /\ pc' = "crop"
      BY <1>1, <1>4 DEF ShrinkFrom
    <2>2. node[q].size - t.to \in Nat
      BY <1>1, <2>1
    <2>3. t'.o = t.o /\ t'.to = t.to /\ t'.left = node[q].size - t.to /\ t'.undo = t.undo /\ t'.k = t.k
      BY <1>1, <2>1, <2>2, TruncMovesLeft
    <2> QED
      BY <1>0, <2>1, <2>3 DEF Went, WentOut, On
  <1>5. CASE GrowNoSpace /\ t.to - t.left > node[q].size
    <2>1. pc = "grow" /\ t.left > 0 /\ pc' = "crop"
          /\ t' = [t EXCEPT !.to = node[q].size, !.left = (t.to - t.left) - node[q].size, !.undo = TRUE]
      BY <1>5 DEF GrowNoSpace
    <2>2. (t.to - t.left) - node[q].size \in Nat
      BY <1>1, <1>5
    <2>3. t'.o = t.o /\ t'.to = node[q].size /\ t'.left = (t.to - t.left) - node[q].size /\ t'.k = t.k
      BY <1>1, <2>1, <2>2, TruncUndoes
    <2> QED
      BY <1>0, <1>1, <1>5, <2>1, <2>3 DEF Went, WentOut, On
  <1>6. CASE GrowNoSpace /\ ~(t.to - t.left > node[q].size)
    <2>1. pc = "grow" /\ t.left > 0 /\ pc' = t.kf
      BY <1>6 DEF GrowNoSpace, TruncFailed
    <2>2. t.to - t.left <= node[q].size
      BY <1>1, <1>6
    <2> QED
      BY <1>0, <2>1, <2>2 DEF Went, WentBack
  <1> QED
    BY <1>2, <1>3, <1>4, <1>5, <1>6

(* when it grows,                                                           *)
LEMMA WentGrows ==
    ASSUME Basic, CutNode, ~Fails, GrowFirst \/ GrowOne \/ GrowEnd, NEW q, q = t.o
    PROVE  Went(q)
  <1>0. pc \in Cutting
    BY DEF GrowFirst, GrowOne, GrowEnd, Cutting
  <1>1. /\ IsTrunc(t) /\ q \in Objects /\ t.to \in Nat /\ t.left \in Nat /\ t.prev \in Int /\ IsNode(node[q]) /\ node[q].size \in Nat
        /\ NodesTyped /\ cmap \subseteq Clusters
    BY <1>0, CuttingFacts DEF Basic, Typed, MemoryTyped
  <1>2. CASE GrowFirst
    <2>0. pc = "truncate" /\ node[q].size < t.to /\ node[q].start = FREE /\ fat' = fat /\ dent' = dent
      BY <1>2 DEF GrowFirst, device
    <2>1. CASE Valid(Alloc(0))
      <3>1. PICK c : c = Alloc(0)
        OBVIOUS
      <3>2. c \in Clusters /\ c \in Int
        BY <2>1, <3>1, ClusterInt DEF Valid
      <3>3. SetNode(q, Started(node[q], c)) /\ t' = [t EXCEPT !.prev = c, !.left = t.to - node[q].size - 1] /\ pc' = "grow"
        BY <1>2, <2>1, <3>1 DEF GrowFirst, Started
      <3>4. node'[q] = Started(node[q], c)
        BY <1>1, <3>2, <3>3, NodeStarted, NodeReplaced
      <3>5. node'[q].start \in Clusters /\ node'[q].size = node[q].size
        <4>1. PICK n, m : n = node[q] /\ m = Started(n, c)
          OBVIOUS
        <4>2. m.start = c /\ m.size = n.size
          BY <1>1, <3>2, <4>1, NodeStarted
        <4> QED
          BY <3>2, <3>4, <4>1, <4>2
      <3>6. t.to - node[q].size - 1 \in Nat
        BY <1>1, <2>0
      <3>7. t'.o = t.o /\ t'.to = t.to /\ t'.left = t.to - node[q].size - 1 /\ t'.undo = t.undo /\ t'.k = t.k
        BY <1>1, <3>2, <3>3, <3>6, TruncMoves
      <3> QED
        BY <2>0, <3>3, <3>5, <3>7 DEF Went, WentFirst, On
    <2>2. CASE ~Valid(Alloc(0))
      <3>1. node' = node /\ pc' = t.kf
        BY <1>2, <2>2 DEF GrowFirst, TruncFailed
      <3> QED
        BY <2>0, <3>1 DEF Went, WentBack, Calm
    <2> QED
      BY <2>1, <2>2
  <1>3. CASE GrowOne
    <2>1. PICK c, n : c = Alloc(t.prev + 1) /\ n = (IF c # t.prev + 1 /\ node[q].contig THEN Broken(node[q]) ELSE node[q])
      OBVIOUS
    <2>2. /\ pc = "grow" /\ t.left > 0 /\ c \in Clusters /\ dent' = dent /\ SetNode(q, n) /\ pc' = pc
          /\ t' = [t EXCEPT !.prev = c, !.left = t.left - 1]
      BY <1>3, <2>1 DEF GrowOne, Valid, Broken
    <2>3. IsNode(n) /\ n.start = node[q].start /\ n.size = node[q].size /\ (n.contig => node[q].contig)
      BY <1>1, <2>1, NodeBroken
    <2>4. node'[q] = n
      BY <1>1, <2>2, <2>3, NodeReplaced
    <2>5. t.left - 1 \in Nat /\ c \in Int
      BY <1>1, <2>2, ClusterInt
    <2>6. t'.o = t.o /\ t'.to = t.to /\ t'.left = t.left - 1 /\ t'.undo = t.undo /\ t'.k = t.k /\ t'.prev = c
      BY <1>1, <2>2, <2>5, TruncMoves
    <2> QED
      BY <2>2, <2>3, <2>4, <2>6 DEF Went, WentGrow, On
  <1>4. CASE GrowEnd
    BY <1>4 DEF GrowEnd, Goto, memory, Went, WentEnd, On
  <1> QED
    BY <1>2, <1>3, <1>4

(* and when it cuts, since no chain ends early.                             *)
LEMMA WentShrinks ==
    ASSUME Basic, Space, Full, CutFull, ~Fails, EraseNew \/ Crop \/ FreeOne \/ FreeEnd, NEW q, q = t.o
    PROVE  Went(q)
  <1>0. pc \in Cutting
    BY DEF EraseNew, Crop, FreeOne, FreeEnd, Cutting
  <1>1. /\ IsTrunc(t) /\ q \in Objects /\ t.to \in Nat /\ t.left \in Nat /\ t.prev \in Int /\ IsNode(node[q]) /\ node[q].size \in Nat
        /\ NodesTyped /\ View(q) = node[q] /\ t.undo \in BOOLEAN /\ t.k = t.k
    BY <1>0, CuttingFacts, CutView DEF Basic, Typed, MemoryTyped, IsTrunc
  <1>2. CASE EraseNew
    <2>1. pc = "erasenew" /\ fat' = fat /\ pc' = t.k /\ SetNode(q, Sized(node[q], t.to))
      BY <1>2 DEF EraseNew, Sized
    <2>2. node'[q] = Sized(node[q], t.to)
      BY <1>1, <2>1, NodeSized, NodeReplaced
    <2>3. PICK n, m : n = node[q] /\ m = Sized(n, t.to)
      OBVIOUS
    <2>4. m.start = n.start /\ m.size = t.to /\ m.contig = n.contig
      BY <1>1, <2>3, NodeSized
    <2> QED
      BY <2>1, <2>2, <2>3, <2>4 DEF Went, WentErase
  <1>3. CASE Crop
    <2>1. pc = "crop" /\ dent' = dent
      BY <1>3 DEF Crop
    <2>2. t.to # 0 => Nth(node[q], t.to - 1) \in Clusters
      <3>1. t.to # 0 => t.to - 1 \in Place(q)
        BY <1>1, <2>1 DEF Place, Length
      <3> QED
        BY <1>1, <3>1 DEF Full, At
    <2>3. CutsOff
      BY <1>1, <1>3, <2>2 DEF Crop, CutsOff, Valid, Fails
    <2>4. PICK n, a : n = Cropped(node[q], t.to) /\ a = Nth(node[q], t.to)
      OBVIOUS
    <2>5. a \in Int
      BY <1>1, <2>4, NthInt DEF Basic, Typed
    <2>6. SetNode(q, n) /\ t' = [t EXCEPT !.prev = a]
      BY <2>3, <2>4 DEF CutsOff
    <2>7. /\ IsNode(n) /\ n.size = node[q].size /\ n.contig = node[q].contig
          /\ n.start = IF t.to = 0 THEN FREE ELSE node[q].start
      BY <1>1, <2>4, NodeCropped
    <2>8. node'[q] = n
      BY <1>1, <2>6, <2>7, NodeReplaced
    <2>9. t'.o = t.o /\ t'.to = t.to /\ t'.left = t.left /\ t'.undo = t.undo /\ t'.k = t.k
      BY <1>1, <2>5, <2>6, TruncMovesPrev
    <2> QED
      BY <2>1, <2>3, <2>7, <2>8, <2>9 DEF Went, WentCrop, On
  <1>4. CASE FreeOne
    <2>1. pc = "free" /\ t.left > 0 /\ node' = node /\ dent' = dent
      BY <1>4 DEF FreeOne
    <2>2. t.prev \in Clusters
      <3>1. CutAt(0) = t.prev
        BY CutIs, WalkIs
      <3>2. 0 \in 0 .. t.left - 1
        BY <1>1, <2>1
      <3> QED
        BY <2>1, <3>1, <3>2 DEF CutFull
    <2>3. FreesOne
      BY <1>4, <2>2 DEF FreeOne, FreesOne, Valid
    <2>4. PICK a : a = IF node[q].contig THEN t.prev + 1 ELSE fat[t.prev]
      OBVIOUS
    <2>5. a \in Int /\ t.left - 1 \in Nat
      <3>1. fat[t.prev] \in Int
        BY <2>2, ClusterInt DEF Basic, Typed, DeviceTyped, FREE, END
      <3> QED
        BY <1>1, <2>1, <2>4, <3>1
    <2>6. t' = [t EXCEPT !.prev = a, !.left = t.left - 1]
      BY <2>3, <2>4 DEF FreesOne
    <2>7. t'.o = t.o /\ t'.to = t.to /\ t'.left = t.left - 1 /\ t'.undo = t.undo /\ t'.k = t.k
      BY <1>1, <2>5, <2>6, TruncMoves
    <2> QED
      BY <2>1, <2>3, <2>7 DEF Went, WentFree, On
  <1>5. CASE FreeEnd
    <2>1. PICK n : n = IF t.undo THEN node[q] ELSE Sized(node[q], t.to)
      OBVIOUS
    <2>2. /\ pc = "free" /\ t.left = 0 /\ fat' = fat /\ dent' = dent /\ SetNode(q, n)
          /\ pc' = IF t.undo THEN t.kf ELSE t.k
      BY <1>5, <2>1 DEF FreeEnd, Sized, device
    <2>3. IsNode(n) /\ n.start = node[q].start /\ n.contig = node[q].contig /\ n.size = IF t.undo THEN node[q].size ELSE t.to
      <3>1. PICK m, u : m = node[q] /\ u = Sized(m, t.to)
        OBVIOUS
      <3>2. IsNode(u) /\ u.start = m.start /\ u.size = t.to /\ u.contig = m.contig
        BY <1>1, <3>1, NodeSized
      <3> QED
        BY <1>1, <2>1, <3>1, <3>2
    <2>4. node'[q] = n
      BY <1>1, <2>2, <2>3, NodeReplaced
    <2> QED
      BY <2>2, <2>3, <2>4 DEF Went, WentFreed
  <1> QED
    BY <1>2, <1>3, <1>4, <1>5

(* A step of an exfat_truncate of q that meets no failure. *)
CutStep(q) ==
    /\ IInv /\ IInv' /\ Script /\ Untorn /\ Healthy /\ sound /\ sound' /\ g_initialized /\ g_initialized'
    /\ Cuts /\ CutMove /\ CutNode /\ q = t.o /\ Went(q)

(* What is known of it.                                                     *)
LEMMA CutFacts ==
    ASSUME NEW q, CutStep(q)
    PROVE  /\ Basic /\ Basic' /\ Space /\ Space' /\ pc \in Cutting /\ q = t.o /\ q \in Objects
           /\ obj' = obj /\ cached' = cached /\ obj \in Objs /\ Under[obj] \in cached
           /\ t.to \in Nat /\ t.left \in Nat /\ t.prev \in Int /\ node[q].size \in Nat /\ IsNode(node[q])
           /\ (q = ROOT \/ (q \in Objs /\ Under[q] \in cached))
           /\ View(q) = node[q] /\ View(q)' = node'[q]
           /\ \A p \in Objects : p # q => node'[p] = node[p]
  <1>1. Basic /\ Basic' /\ Space /\ Space' /\ q = t.o /\ CutMove /\ CutNode
    BY DEF CutStep, IInv
  <1>2. pc \in Cutting /\ obj' = obj /\ cached' = cached
    BY <1>1 DEF CutMove, call
  <1>3. /\ q \in Objects /\ t.to \in Nat /\ t.left \in Nat /\ t.prev \in Int /\ node[q].size \in Nat /\ IsNode(node[q])
        /\ (q = ROOT \/ Under[q] \in cached) /\ Placed
    BY <1>1, <1>2, CuttingFacts
  <1>4. q = ROOT \/ (q \in Objs /\ Under[q] \in cached)
    BY <1>3, ObjectSet
  <1>5. View(q) = node[q] /\ View(q)' = node'[q]
    BY <1>2, <1>4, ViewIs
  <1> QED
    BY <1>1, <1>2, <1>3, <1>4, <1>5 DEF CutNode, Placed

(* No link fails to be read, so that it does not hang.                      *)
LEMMA CutReturns ==
    ASSUME NEW q, CutStep(q) PROVE pc' # "bug"
  <1>1. Basic /\ pc \in Cutting
    BY CutFacts
  <1>2. t.k # "bug" /\ t.kf # "bug"
    BY <1>1 DEF Basic, Control, TruncThen, TruncElse
  <1>3. CASE WentSame(q) \/ WentBack(q) \/ WentErase(q) \/ WentFreed(q)
    BY <1>2, <1>3 DEF WentSame, WentBack, WentErase, WentFreed
  <1>4. CASE WentOut(q)
    BY <1>4 DEF WentOut
  <1>5. CASE WentFirst(q) \/ WentGrow(q) \/ WentEnd(q)
    BY <1>5 DEF WentFirst, WentGrow, WentEnd
  <1>6. CASE WentCrop(q) \/ WentFree(q)
    BY <1>6 DEF WentCrop, WentFree, CutsOff, FreesOne
  <1> QED
    BY <1>3, <1>4, <1>5, <1>6 DEF CutStep, Went

(* No entry is being written meanwhile.                                     *)
LEMMA CutIdle ==
    ASSUME NEW q, CutStep(q)
    PROVE  /\ ~Gone /\ ~Gone' /\ (\A o : ~Coming(o) /\ ~Behind(o) /\ ~Coming(o)')
           /\ pc' \notin FlushAt /\ pc # "bitmap" /\ pc' # "bitmap"
           /\ (Fresher <=> t.k = "dirflush")
           /\ pc' \in Cutting \union TruncThen \union TruncElse
  <1>1. pc \in Cutting
    BY CutFacts
  <1>2. pc' \in Cutting \union TruncThen \union TruncElse
    <2>1. pc' # "bug"
      BY CutReturns
    <2> QED
      BY <2>1, CutFacts, CutEnds DEF CutStep
  <1> QED
    BY <1>1, <1>2 DEF Gone, Coming, Behind, FlushAt, Fresher, NewDir, Cutting, TruncThen, TruncElse

(* The clusters that are zeroed hold no entry that matters,                 *)
LEMMA CutFiled ==
    ASSUME NEW q, CutStep(q), NEW o \in Objs, Filed(o) \/ Present(o)
    PROVE  dent'[o] = dent[o]
  <1>1. Basic /\ pc \in Cutting
    BY CutFacts
  <1>2. ~Coming(o) /\ ~(o = obj /\ Gone)
    BY CutIdle
  <1>3. PICK i \in Nat : Counts(Under[o], i) /\ dent[o].at[1] = At(Under[o], i)
    BY <1>1, <1>2, EntrySits DEF CutStep, Healthy
  <1>4. Aside(Under[o], i)
    BY <1>1, <1>3, CountsAside, ObjectSet
  <1>5. At(Under[o], i) \in Clusters
    BY <1>4, ObjectSet DEF CutStep, Healthy, Full, Aside
  <1>6. Leaves(Under[o], i)
    BY <1>4, <1>5, CutLeaves, ObjectSet DEF CutStep
  <1> QED
    BY <1>3, <1>6 DEF Leaves

(* so entries stay, or were none of a node and without clusters.            *)
LEMMA CutDents ==
    ASSUME NEW q, CutStep(q)
    PROVE  /\ Untorn'
           /\ \A o \in Objs : dent'[o] = dent[o] \/ (dent'[o] = NoDent /\ ~Filed(o) /\ ~Present(o))
           /\ \A o \in Objs : dent[o].size \in Nat /\ dent'[o].size = dent[o].size /\ (Filed(o)' <=> Filed(o))
           /\ \A o \in Objs : Filed(o) => Clear(o) /\ dent'[o] = dent[o]
           /\ \A o \in Objs : Clear(o) \/ (Under[o] \notin cached /\ dent'[o] = NoDent)
  <1>1. \A a \in Objs : dent'[a] = dent[a] \/ dent'[a] = NoDent
    BY CutLeaves DEF CutStep
  <1>2. \A o \in Objs : dent'[o] = dent[o] \/ (dent'[o] = NoDent /\ ~Filed(o) /\ ~Present(o))
    BY <1>1, CutFiled
  <1>3. Untorn'
    BY <1>1, UntornSame DEF CutStep
  <1>4. ASSUME NEW o \in Objs PROVE dent[o].size \in Nat /\ dent'[o].size = dent[o].size
    <2>1. dent[o].size \in Nat
      BY CutFacts DEF Basic, Typed, DeviceTyped, DentsTyped, IsDent
    <2> QED
      BY <1>2, <2>1, Blank DEF Filed
  <1>5. \A o \in Objs : Filed(o)' <=> Filed(o)
    BY <1>4 DEF Filed
  <1> QED
    BY <1>1, <1>2, <1>3, <1>4, <1>5, CutFiled DEF Clear

(* No node appears or goes.                                                 *)
LEMMA CutPresent ==
    ASSUME NEW q, CutStep(q), NEW o \in Objects
    PROVE  node'[o].at = node[o].at /\ (Present(o)' <=> Present(o))
  <1>1. node'[o].at = node[o].at
    BY CutFacts DEF CutStep, CutNode, Recast
  <1> QED
    BY <1>1 DEF Present

(* One lemma for each part of Healthy: nodes have their entries,            *)
LEMMA CutEntered ==
    ASSUME NEW q, CutStep(q) PROVE Entered'
  <1> SUFFICES ASSUME NEW o \in Objs, Present(o)' PROVE dent'[o].k = "ok" /\ dent'[o].at = node'[o].at
    BY DEF Entered
  <1>1. Present(o) /\ node'[o].at = node[o].at
    BY CutPresent, ObjectSet
  <1>2. dent'[o] = dent[o]
    BY <1>1, CutFiled
  <1> QED
    BY <1>1, <1>2, CutIdle DEF CutStep, Healthy, Entered

(* what is found is found where it was,                                     *)
LEMMA CutFound ==
    ASSUME NEW q, CutStep(q), NEW o \in Objs, Filed(o) \/ Present(o) PROVE Found(o)'
  <1>1. Found(o) /\ dent'[o] = dent[o] /\ Basic
    BY CutFiled, CutIdle, CutFacts DEF CutStep, Healthy, Lodged
  <1>2. PICK d : d = Under[o]
    OBVIOUS
  <1>3. PICK i \in Nat : Counts(d, i) /\ Within(d, i) /\ View(o).at[1] = At(d, i)
    BY <1>1, <1>2 DEF Found
  <1>4. d \in Objects /\ (d = ROOT \/ (d \in Objs /\ Filed(d)))
    BY <1>1, <1>2, FoundDir, UnderIs, ObjectSet
  <1>5. Clear(d) /\ (d # ROOT => dent'[d] = dent[d])
    BY <1>4, CutDents DEF Clear
  <1>6. Firm(d)
    BY <1>4, <1>5, CutFirm DEF CutStep
  <1>7. Counts(d, i)' /\ At(d, i)' = At(d, i)
    BY <1>3, <1>6 DEF Firm
  <1>8. Within(d, i)'
    BY <1>3, <1>5 DEF Within
  <1>9. View(o)'.at = View(o).at
    <2>1. Clear(o) /\ o \in Objects
      BY <1>1, ObjectSet DEF Clear
    <2>2. CASE o # t.o
      BY <1>1, <2>1, <2>2, CutViews DEF CutStep
    <2>3. CASE o = t.o
      BY <2>1, <2>3, CutFacts, CutPresent
    <2> QED
      BY <2>2, <2>3
  <1> QED
    BY <1>2, <1>3, <1>7, <1>8, <1>9, FoundBy

(* and all is lodged.                                                       *)
LEMMA CutLodged ==
    ASSUME NEW q, CutStep(q) PROVE Lodged'
  <1> SUFFICES ASSUME NEW o \in Objs
               PROVE  /\ Filed(o)' /\ Under[o] \in cached' => Present(o)'
                      /\ Filed(o)' \/ Present(o)' => Found(o)'
    BY DEF Lodged
  <1>1. (Filed(o)' <=> Filed(o)) /\ (Present(o)' <=> Present(o)) /\ cached' = cached
    BY CutDents, CutPresent, CutFacts, ObjectSet
  <1> QED
    BY <1>1, CutFound DEF CutStep, Healthy, Lodged

(* An entry is not longer than the file whose size is about to change.      *)
LEMMA CutShort ==
    ASSUME NEW q, CutStep(q), q \in Objs PROVE dent[q].size <= node[q].size /\ dent[q].size \in Nat
  <1>1. Under[q] \in cached /\ Basic
    BY CutFacts, ObjectSet
  <1>2. dent[q].size \in Nat
    BY <1>1 DEF Basic, Typed, DeviceTyped, DentsTyped, IsDent
  <1> QED
    BY <1>1, <1>2, CutIdle DEF CutStep, Healthy, NotLonger

(* A place that the entry has and that counts, counted before;              *)
LEMMA CutWithin ==
    ASSUME NEW q, CutStep(q), NEW o \in Objs, NEW i \in Nat, Counts(o, i)', i < dent'[o].size
    PROVE  Counts(o, i)
  <1>0. o \in Objects /\ dent'[o].size = dent[o].size /\ Filed(o) /\ q = t.o /\ Basic
    BY CutDents, CutFacts, ObjectSet DEF Filed
  <1>1. CASE o # q
    <2>1. View(o)' = View(o)
      BY <1>0, <1>1, CutDents, CutViews DEF CutStep
    <2> QED
      BY <1>0, <1>1, <2>1 DEF Counts
  <1>2. CASE o = q
    <2>1. i < node[q].size /\ node[q].size \in Nat /\ t.to \in Nat /\ t.left \in Nat /\ View(q) = node[q] /\ View(q)' = node'[q]
      BY <1>0, <1>2, CutShort, CutFacts
    <2>2. i < node'[q].size /\ (pc' \in Cutting /\ t'.o = q => i < t'.to)
      BY <1>2, <2>1 DEF Counts
    <2>3. Progress
      BY <1>0 DEF Basic
    <2>10. i < t.to
      <3>4. CASE WentSame(q)
        BY <2>1, <3>4 DEF WentSame
      <3>5. CASE WentOut(q)
        BY <2>1, <2>2, <3>5 DEF WentOut, On, Cutting
      <3>6. CASE WentBack(q)
        <4>1. pc = "grow" => node[q].size <= t.to - t.left
          BY <1>0, <2>3 DEF Progress
        <4> QED
          BY <2>1, <3>6, <4>1 DEF WentBack
      <3>7. CASE WentFirst(q) \/ WentGrow(q) \/ WentEnd(q) \/ WentCrop(q) \/ WentFree(q)
        <4>1. pc' \in Cutting /\ t'.o = q /\ t'.to = t.to
          BY <3>7 DEF WentFirst, WentGrow, WentEnd, WentCrop, WentFree, CutsOff, FreesOne, On, Cutting
        <4> QED
          BY <2>2, <4>1
      <3>8. CASE WentErase(q)
        BY <2>2, <3>8 DEF WentErase
      <3>9. CASE WentFreed(q)
        <4>1. t.undo => node[q].size = t.to
          BY <1>0, <2>3, <3>9 DEF Progress, WentFreed
        <4> QED
          BY <2>1, <2>2, <3>9, <4>1 DEF WentFreed
      <3> QED
        BY <3>4, <3>5, <3>6, <3>7, <3>8, <3>9 DEF CutStep, Went
    <2> QED
      BY <1>2, <2>1, <2>10 DEF Counts
  <1> QED
    BY <1>1, <1>2

(* the file starts as it did and is contiguous only if it was,              *)
LEMMA CutLinks ==
    ASSUME NEW q, CutStep(q), NEW o \in Objs, NEW i \in Nat, Counts(o, i), Filed(o)
    PROVE  View(o)'.start = View(o).start /\ (View(o)'.contig => View(o).contig)
  <1>0. o \in Objects /\ q = t.o /\ Basic /\ pc \in Cutting /\ Space
    BY CutFacts, ObjectSet
  <1>1. CASE o # q
    BY <1>0, <1>1, CutDents, CutViews DEF CutStep
  <1>2. CASE o = q
    <2>1. i < node[q].size /\ i < t.to /\ node[q].size \in Nat /\ t.to \in Nat /\ View(q) = node[q] /\ View(q)' = node'[q]
      BY <1>0, <1>2, CutFacts DEF Counts
    <2>2. CASE WentSame(q) \/ WentOut(q) \/ WentBack(q) \/ WentEnd(q) \/ WentFree(q)
      BY <1>2, <2>1, <2>2 DEF WentSame, WentOut, WentBack, WentEnd, WentFree, Calm
    <2>3. CASE WentFirst(q)
      <3>1. node[q].start = FREE /\ pc # "free"
        BY <2>3 DEF WentFirst
      <3>2. node[q].size = 0
        BY <1>0, <1>2, <3>1 DEF Space, NoStart
      <3> QED
        BY <2>1, <3>2
    <2>4. CASE WentGrow(q) \/ WentErase(q) \/ WentFreed(q)
      BY <1>2, <2>1, <2>4 DEF WentGrow, WentErase, WentFreed
    <2>5. CASE WentCrop(q)
      <3>1. t.to # 0
        BY <2>1
      <3> QED
        BY <1>2, <2>1, <2>5, <3>1 DEF WentCrop
    <2> QED
      BY <2>2, <2>3, <2>4, <2>5 DEF CutStep, Went
  <1> QED
    BY <1>1, <1>2

(* so it has the same cluster there as the entry,                           *)
LEMMA CutAgrees ==
    ASSUME NEW q, CutStep(q), NEW o \in Objs, NEW i \in Nat, Counts(o, i)', i < dent'[o].size
    PROVE  /\ DiskAt(o, i)' = At(o, i)' /\ SameLinks(o)'
           /\ Counts(o, i) /\ i < dent[o].size /\ At(o, i)' = At(o, i)
  <1>1. Counts(o, i) /\ dent'[o] = dent[o] /\ Filed(o) /\ Clear(o) /\ o \in Objects /\ i < dent[o].size
    BY CutWithin, CutDents, ObjectSet DEF Filed
  <1>2. At(o, i)' = At(o, i)
    BY <1>1, CutFirm DEF CutStep, Firm
  <1>3. DiskAt(o, i) = At(o, i) /\ SameLinks(o)
    BY <1>1 DEF CutStep, Healthy, Agrees
  <1>4. View(o)'.start = View(o).start /\ (View(o)'.contig => View(o).contig)
    BY <1>1, CutLinks
  <1>5. CASE dent[o].contig
    <2>1. PICK ct, s : ct = dent[o].contig /\ s = dent[o].start
      OBVIOUS
    <2>2. WalkIn(fat', ct, s)[i] = WalkIn(fat, ct, s)[i]
      <3>1. ct \/ \A j \in 0 .. i - 1 : WalkIn(fat, ct, s)[j] \in Clusters => fat'[WalkIn(fat, ct, s)[j]] = fat[WalkIn(fat, ct, s)[j]]
        BY <1>5, <2>1
      <3>2. \A j \in 0 .. i : WalkIn(fat', ct, s)[j] = WalkIn(fat, ct, s)[j]
        BY <3>1, WalkSame
      <3> QED
        BY <3>2
    <2>3. DiskAt(o, i)' = DiskAt(o, i)
      BY <1>1, <2>1, <2>2, DiskAtIs
    <2>4. SameLinks(o)'
      BY <1>1, <1>5 DEF SameLinks
    <2> QED
      BY <1>1, <1>2, <1>3, <2>3, <2>4
  <1>6. CASE ~dent[o].contig
    <2>1. ~View(o).contig /\ dent[o].start = View(o).start
      BY <1>3, <1>6 DEF SameLinks
    <2>2. View(o)'.contig \in BOOLEAN /\ dent[o].contig \in BOOLEAN
      BY <1>1, CutFacts, LaterTyped DEF IsNode, Basic, Typed, DeviceTyped, DentsTyped, IsDent
    <2>3. View(o)'.contig = dent'[o].contig /\ View(o)'.start = dent'[o].start
      BY <1>1, <1>4, <1>6, <2>1, <2>2
    <2>4. DiskAt(o, i)' = At(o, i)'
      BY <2>3, DiskAtIs, AtIs
    <2>5. SameLinks(o)'
      BY <1>1, <1>4, <2>1 DEF SameLinks
    <2> QED
      BY <1>1, <1>2, <2>4, <2>5
  <1> QED
    BY <1>5, <1>6

(* the bitmap in memory is marked dirty when it changes,                    *)
LEMMA CutMap ==
    ASSUME Cuts
    PROVE  /\ UNCHANGED <<dmap, vbr, sysents>>
           /\ UNCHANGED <<cmap, cmap_dirty>> \/ cmap_dirty' = TRUE
  <1>1. CASE TruncateSame \/ GrowFrom \/ GrowNoSpace \/ ShrinkFrom
    BY <1>1 DEF TruncateSame, GrowFrom, GrowNoSpace, ShrinkFrom, device, memory
  <1>2. CASE GrowFirst \/ GrowOne \/ GrowEnd
    BY <1>2 DEF GrowFirst, GrowOne, GrowEnd, device, memory
  <1>3. CASE EraseNew \/ Crop \/ FreeEnd
    BY <1>3 DEF EraseNew, Crop, FreeEnd, device
  <1>4. CASE FreeOne
    BY <1>4 DEF FreeOne, Freed
  <1> QED
    BY <1>1, <1>2, <1>3, <1>4 DEF Cuts

(* and the one on the device covers the entries.                            *)
LEMMA CutMapped ==
    ASSUME NEW q, CutStep(q) PROVE Agrees' /\ Mapped'
  <1>1. Agrees'
    BY CutAgrees DEF Agrees
  <1>2. dmap' = dmap /\ (cmap_dirty' = FALSE => cmap' = dmap')
    BY CutMap DEF CutStep, Healthy, Mapped
  <1>3. ASSUME NEW o \in Objs, NEW i \in Nat, Counts(o, i)', i < dent'[o].size PROVE At(o, i)' \in dmap'
    <2>1. Counts(o, i) /\ i < dent[o].size /\ At(o, i)' = At(o, i)
      BY <1>3, CutAgrees
    <2>2. At(o, i) \in dmap
      BY <2>1, CutIdle DEF CutStep, Healthy, Mapped
    <2> QED
      BY <1>2, <2>1, <2>2
  <1> QED
    BY <1>1, <1>2, <1>3 DEF Mapped

(* What it is for, and how it ends.                                         *)
LEMMA CutPlan ==
    ASSUME NEW q, CutStep(q)
    PROVE  /\ CutFor /\ CutSmooth /\ Progress /\ Object
           /\ pc' \in Cutting => t'.o = q /\ t'.k = t.k /\ node'[q].size = node[q].size
           /\ pc' \notin Cutting => \/ pc' = t.k /\ t.undo = FALSE /\ node'[q].size = t.to
                                    \/ pc' = t.kf /\ node'[q].size = node[q].size
           /\ node'[q].size # node[q].size => node'[q].dirty = TRUE
  <1>1. Basic /\ pc \in Cutting /\ q = t.o
    BY CutFacts
  <1>2. CutFor /\ CutSmooth /\ Progress /\ Object
    BY <1>1 DEF CutStep, Script, Course, Healthy, Smooth, Basic
  <1>3. /\ pc' \in Cutting => CutOn
        /\ pc' \notin Cutting => CutDone \/ CutFails
    BY <1>1, CutEnds DEF CutStep
  <1>4. node'[q].size # node[q].size => node'[q].dirty = TRUE
    BY <1>1 DEF CutStep, CutNode, Recast
  <1> QED
    BY <1>1, <1>2, <1>3, <1>4, CutReturns DEF CutOn, CutDone, CutFails, TruncFailed, Hung

(* An entry becomes longer than the node only where it is flushed next.     *)
LEMMA CutNotLonger ==
    ASSUME NEW q, CutStep(q) PROVE NotLonger'
  <1> SUFFICES ASSUME NEW o \in Objs, Under[o] \in cached'
               PROVE  dent'[o].size <= node'[o].size \/ (node'[o].dirty = TRUE /\ Behind(o)')
    BY DEF NotLonger
  <1>1. dent'[o].size = dent[o].size /\ Under[o] \in cached /\ o \in Objects
    BY CutDents, CutFacts, ObjectSet
  <1>2. CASE o # q
    <2>1. node'[o] = node[o]
      BY <1>1, <1>2, CutFacts
    <2> QED
      BY <1>1, <2>1, CutIdle DEF CutStep, Healthy, NotLonger
  <1>3. CASE o = q
    <2>1. dent[q].size <= node[q].size /\ dent[q].size \in Nat /\ node[q].size \in Nat /\ t.to \in Nat /\ q = t.o /\ pc \in Cutting
      BY <1>3, CutShort, CutFacts
    <2>2. CASE node'[q].size = node[q].size
      BY <1>1, <1>3, <2>1, <2>2
    <2>3. CASE node'[q].size # node[q].size
      <3>1. node'[q].dirty = TRUE /\ pc' = t.k /\ node'[q].size = t.to /\ CutFor /\ obj' = obj
        BY <2>3, CutPlan, CutFacts
      <3>2. CASE t.k \in {"data", "delflush"}
        BY <1>3, <2>1, <3>1, <3>2 DEF CutFor, Behind
      <3>3. CASE t.k \in {"commit", "dirflush"}
        <4>0. CutSmooth /\ Object
          BY CutPlan
        <4>1. node[q].size <= t.to
          <5>1. CASE t.k = "commit"
            BY <2>1, <4>0, <5>1 DEF CutSmooth
          <5>2. CASE t.k = "dirflush"
            BY <2>1, <4>0, <5>2 DEF Object
          <5> QED
            BY <3>3, <5>1, <5>2
        <4> QED
          BY <1>1, <1>3, <2>1, <3>1, <4>1
      <3> QED
        BY <3>1, <3>2, <3>3 DEF CutFor
    <2> QED
      BY <2>2, <2>3
  <1> QED
    BY <1>2, <1>3

(* It is a new directory all along, or not.                                 *)
LEMMA CutFresher ==
    ASSUME NEW q, CutStep(q)
    PROVE  Fresher' <=> t.k = "dirflush"
  <1>1. pc' \in Cutting \union TruncThen \union TruncElse /\ CutFor
    BY CutIdle, CutPlan
  <1>2. CASE pc' \in Cutting
    <2>1. t'.k = t.k
      BY <1>2, CutPlan
    <2> QED
      BY <1>2, <2>1 DEF Fresher, NewDir, Cutting, FlushAt
  <1>3. CASE pc' \notin Cutting
    <2>1. pc' = t.k \/ pc' = t.kf
      BY <1>3, CutPlan
    <2> QED
      BY <1>1, <1>3, <2>1 DEF Fresher, NewDir, FlushAt, CutFor, TruncThen, TruncElse
  <1> QED
    BY <1>2, <1>3

(* A directory that has not been read does not grow, except the new one.    *)
LEMMA CutUnread ==
    ASSUME NEW q, CutStep(q) PROVE Unread'
  <1> SUFFICES ASSUME NEW p \in Dirs, Under[p] \in cached', p \notin cached', ~(p = obj' /\ Fresher')
               PROVE  dent'[p].size = node'[p].size
    BY CutIdle DEF Unread
  <1>1. dent'[p].size = dent[p].size /\ Under[p] \in cached /\ p \notin cached /\ p \in Objects /\ obj' = obj /\ q = t.o /\ pc \in Cutting /\ Basic
    BY CutDents, CutFacts, ObjectSet
  <1>2. p # q
    <2> SUFFICES ASSUME p = q PROVE FALSE
      OBVIOUS
    <2>1. t.o = obj /\ t.k = "dirflush"
      BY <1>1, CutNew DEF CutStep
    <2> QED
      BY <1>1, <2>1, CutFresher
  <1>3. node'[p] = node[p]
    BY <1>1, <1>2, CutFacts
  <1>4. ~(p = obj /\ Fresher)
    BY <1>1, CutFresher, CutIdle
  <1> QED
    BY <1>1, <1>3, <1>4 DEF CutStep, Healthy, Unread

(* The new size changes only where a growth is undone.                      *)
LEMMA CutUndo ==
    ASSUME NEW q, CutStep(q), pc' \in Cutting
    PROVE  \/ t'.to = t.to /\ t'.undo = t.undo
           \/ pc = "grow" /\ pc' = "crop" /\ t'.to = node[q].size /\ t.left > 0 /\ node[q].size < t.to - t.left
  <1>1. pc' \notin TruncThen \union TruncElse
    BY DEF Cutting, TruncThen, TruncElse
  <1>2. CutFor
    BY CutPlan
  <1>3. pc' # t.k /\ pc' # t.kf
    BY <1>1, <1>2 DEF CutFor, TruncThen, TruncElse
  <1>4. CASE WentSame(q) \/ WentBack(q) \/ WentErase(q) \/ WentFreed(q)
    BY <1>3, <1>4 DEF WentSame, WentBack, WentErase, WentFreed
  <1>5. CASE WentOut(q)
    BY <1>5 DEF WentOut
  <1>6. CASE WentFirst(q) \/ WentGrow(q) \/ WentEnd(q) \/ WentCrop(q) \/ WentFree(q)
    BY <1>6 DEF WentFirst, WentGrow, WentEnd, WentCrop, WentFree
  <1> QED
    BY <1>4, <1>5, <1>6 DEF CutStep, Went

(* While it grows the size lags behind; what is cut to nothing has no       *)
(* start.                                                                   *)
LEMMA CutStarts ==
    ASSUME NEW q, CutStep(q), pc' \in Cutting
    PROVE  /\ pc' \in {"grow", "erasenew"} => node'[q].size < t'.to
           /\ pc' = "free" /\ t'.to = 0 => node'[q].start = FREE
  <1>0. /\ pc \in {"grow", "erasenew"} => node[q].size < t.to
        /\ pc = "free" /\ t.to = 0 => node[q].start = FREE
        /\ pc' # t.k /\ pc' # t.kf
    <2>1. CutFor /\ CutSmooth /\ q = t.o /\ pc \in Cutting
      BY CutPlan, CutFacts
    <2>2. pc' # t.k /\ pc' # t.kf
      BY <2>1 DEF CutFor, Cutting
    <2> QED
      BY <2>1, <2>2 DEF CutSmooth
  <1>1. node'[q].size = node[q].size
    BY CutPlan
  <1>2. CASE WentSame(q) \/ WentBack(q) \/ WentErase(q) \/ WentFreed(q)
    BY <1>0, <1>2 DEF WentSame, WentBack, WentErase, WentFreed
  <1>3. CASE WentOut(q)
    BY <1>1, <1>3 DEF WentOut
  <1>4. CASE WentFirst(q) \/ WentGrow(q) \/ WentEnd(q)
    BY <1>0, <1>1, <1>4 DEF WentFirst, WentGrow, WentEnd
  <1>5. CASE WentCrop(q)
    BY <1>5 DEF WentCrop, CutsOff
  <1>6. CASE WentFree(q)
    BY <1>0, <1>6 DEF WentFree, FreesOne
  <1> QED
    BY <1>2, <1>3, <1>4, <1>5, <1>6 DEF CutStep, Went

(* The call goes on in order.                                               *)
LEMMA CutCalm ==
    ASSUME NEW q, CutStep(q) PROVE Smooth'
  <1>0. /\ pc' \in Cutting \union TruncThen \union TruncElse /\ CutFor /\ CutSmooth /\ Object /\ obj' = obj /\ q = t.o
        /\ pc \in Cutting /\ obj \in Objects /\ node[q].size \in Nat /\ t.to \in Nat /\ t.left \in Nat
    BY CutIdle, CutPlan, CutFacts, ObjectSet
  <1>1. pc' \notin {"bug", "lastflush", "flush", "detach"} /\ ~Gone'
    BY <1>0, CutIdle DEF TruncThen, TruncElse, Cutting
  <1>2. pc' = "delete" => node'[obj].size = 0
    <2> SUFFICES ASSUME pc' = "delete" PROVE node'[obj].size = 0
      OBVIOUS
    <2>1. t.k = "dirflush" /\ t.o = obj /\ pc' = t.kf /\ pc' # t.k /\ pc' \notin Cutting
      <3>1. pc' \notin Cutting
        BY DEF Cutting
      <3>2. pc' = t.k \/ pc' = t.kf
        BY <3>1, CutPlan
      <3> QED
        BY <1>0, <3>1, <3>2 DEF CutFor
    <2>2. node'[q].size = node[q].size
      BY <2>1, CutPlan
    <2>3. node[q].size = 0
      BY <1>0, <2>1 DEF Object
    <2> QED
      BY <1>0, <2>1, <2>2, <2>3
  <1>3. Fresher' => Present(obj)'
    <2>1. Fresher' => Fresher
      BY CutFresher, CutIdle
    <2>2. Fresher => Present(obj)
      BY DEF CutStep, Healthy, Smooth
    <2> QED
      BY <1>0, <2>1, <2>2, CutPresent
  <1>4. pc' = "dirflush" => node'[obj].dirty = TRUE
    <2> SUFFICES ASSUME pc' = "dirflush" PROVE node'[obj].dirty = TRUE
      OBVIOUS
    <2>1. t.k = "dirflush" /\ t.o = obj /\ pc' # t.kf /\ pc' \notin Cutting
      <3>1. pc' \notin Cutting
        BY DEF Cutting
      <3>2. pc' = t.k \/ pc' = t.kf
        BY <3>1, CutPlan
      <3> QED
        BY <1>0, <3>1, <3>2 DEF CutFor
    <2>2. t.undo = FALSE /\ node'[q].size = t.to
      BY <2>1, CutPlan
    <2>3. node[q].size = 0 /\ t.to = 1
      BY <1>0, <2>1, <2>2 DEF Object
    <2>4. node'[q].size # node[q].size
      BY <2>2, <2>3
    <2>5. node'[q].dirty = TRUE
      BY <2>4, CutPlan
    <2> QED
      BY <1>0, <2>1, <2>5
  <1>5. CutSmooth'
    <2> SUFFICES ASSUME pc' \in Cutting PROVE CutSmooth'
      BY DEF CutSmooth
    <2>1. t'.o = q /\ t'.k = t.k /\ node'[q].size = node[q].size
      BY CutPlan
    <2>2. /\ t.k = "commit" => t.undo = FALSE /\ t.to = node[q].size + 1
          /\ t.k = "delflush" => t.undo = FALSE /\ t.to < node[q].size
          /\ pc = "grow" => node[q].size < t.to
      BY <1>0 DEF CutSmooth
    <2>3. t.k \in {"commit", "delflush"} => t'.to = t.to /\ t'.undo = t.undo
      BY <1>0, <2>2, CutUndo
    <2> QED
      BY <2>1, <2>2, <2>3, CutStarts DEF CutSmooth
  <1> QED
    BY <1>0, <1>1, <1>2, <1>3, <1>4, <1>5 DEF Smooth

(* How long the file is, before a step of exfat_truncate and after it. *)
LEMMA CutLength ==
    ASSUME NEW q, CutStep(q)
    PROVE  /\ pc' \in Mid => t'.o = q
           /\ pc \notin Mid => Length(q) = node[q].size
           /\ pc' \notin Mid => Length(q)' = node'[q].size
           /\ pc = "grow" => Length(q) = t.to - t.left /\ node[q].size <= t.to - t.left /\ 1 <= t.to - t.left
           /\ pc = "crop" => Length(q) = t.to + t.left
           /\ pc \in {"erasenew", "free"} => Length(q) = t.to
           /\ pc' = "grow" => Length(q)' = t'.to - t'.left
           /\ pc' = "crop" => Length(q)' = t'.to + t'.left
           /\ pc' \in {"erasenew", "free"} => Length(q)' = t'.to
  <1>1. q = t.o /\ View(q) = node[q] /\ View(q)' = node'[q] /\ Progress
    BY CutFacts, CutPlan
  <1>2. pc' \in Mid => t'.o = q
    BY CutPlan DEF Mid, Cutting
  <1> QED
    BY <1>1, <1>2, Lengths DEF Length, Mid, Progress

(* Other files keep length and clusters, or had no entry and are gone.      *)
LEMMA CutOther ==
    ASSUME NEW q, CutStep(q), NEW o \in Objects, o # q
    PROVE  /\ \/ View(o)' = View(o) /\ Place(o)' = Place(o) /\ \A i \in Place(o) : At(o, i)' = At(o, i)
              \/ View(o)' = NoNode /\ Place(o)' = {} /\ o # ROOT
           /\ Length(o) = View(o).size /\ Length(o)' = View(o)'.size
  <1>1. Length(o) = View(o).size /\ Length(o)' = View(o)'.size
    BY CutLength, CutFacts, Lengths
  <1>2. CASE Clear(o)
    <2>1. View(o)' = View(o)
      BY <1>2, CutFacts, CutViews DEF CutStep
    <2>2. Place(o)' = Place(o)
      BY <1>1, <2>1 DEF Place
    <2>3. AtAside(o)
      BY <1>2, CutAside DEF CutStep
    <2>4. Length(o) \in Int
      BY CutFacts, ViewTyped
    <2>5. \A i \in Place(o) : At(o, i)' = At(o, i)
      BY <2>3, <2>4, CutFacts DEF AtAside, Aside, Place
    <2> QED
      BY <1>1, <2>1, <2>2, <2>5
  <1>3. CASE ~Clear(o)
    <2>1. o \in Objs /\ o # ROOT
      BY <1>3, ObjectSet DEF Clear
    <2>2. Under[o] \notin cached' /\ dent'[o] = NoDent
      BY <1>3, <2>1, CutDents, CutFacts
    <2>3. View(o)' = NoNode
      BY <2>1, <2>2, ViewIs, Blank
    <2>4. Place(o)' = {}
      BY <1>1, <2>3, Blank DEF Place
    <2> QED
      BY <1>1, <2>1, <2>3, <2>4
  <1> QED
    BY <1>2, <1>3

(* The steps that leave FAT and file as they are. *)
Rests(q) == WentSame(q) \/ WentOut(q) \/ WentBack(q) \/ WentErase(q) \/ WentFreed(q)

(* They keep the length.                                                    *)
LEMMA RestsLength ==
    ASSUME NEW q, CutStep(q), Rests(q)
    PROVE  /\ Length(q)' = Length(q) /\ Length(q) \in Int /\ ~(pc = "grow" /\ t.left = 0) /\ pc' # "free"
           /\ pc' = "grow" => t'.left > 0
           /\ \A i : At(q, i)' = At(q, i)
  <1>0. /\ t.to \in Nat /\ t.left \in Nat /\ node[q].size \in Nat /\ View(q) = node[q] /\ View(q)' = node'[q] /\ CutFor /\ Progress
        /\ Length(q) \in Int /\ q = t.o
    BY CutFacts, CutPlan, ViewTyped
  <1>1. t.k \notin Mid /\ t.kf \notin Mid
    BY <1>0 DEF CutFor, Mid
  <1>2. CASE WentSame(q)
    <2>1. fat' = fat /\ node' = node /\ pc = "truncate" /\ pc' \notin Mid
      BY <1>1, <1>2 DEF WentSame, Calm
    <2> QED
      BY <1>0, <2>1, CutLength, AtIs DEF Mid
  <1>3. CASE WentOut(q)
    <2>1. fat' = fat /\ node' = node
      BY <1>3 DEF WentOut, Calm
    <2>2. Length(q)' = Length(q) /\ ~(pc = "grow" /\ t.left = 0) /\ pc' # "free" /\ (pc' = "grow" => t'.left > 0)
      BY <1>0, <1>3, CutLength DEF WentOut, Mid
    <2> QED
      BY <1>0, <2>1, <2>2, AtIs
  <1>4. CASE WentBack(q)
    <2>1. fat' = fat /\ node' = node /\ pc' \notin Mid
      BY <1>1, <1>4 DEF WentBack, Calm
    <2>2. Length(q) = node[q].size /\ ~(pc = "grow" /\ t.left = 0)
      BY <1>0, <1>4, CutLength DEF WentBack, Mid
    <2> QED
      BY <1>0, <2>1, <2>2, CutLength, AtIs DEF Mid
  <1>5. CASE WentErase(q)
    <2>1. fat' = fat /\ pc' \notin Mid /\ pc = "erasenew" /\ node'[q].start = node[q].start /\ node'[q].contig = node[q].contig
      BY <1>1, <1>5 DEF WentErase
    <2>2. Length(q)' = Length(q)
      BY <1>5, <2>1, CutLength DEF WentErase
    <2> QED
      BY <1>0, <2>1, <2>2, AtIs DEF Mid
  <1>6. CASE WentFreed(q)
    <2>1. fat' = fat /\ pc' \notin Mid /\ pc = "free" /\ node'[q].start = node[q].start /\ node'[q].contig = node[q].contig
      BY <1>1, <1>6 DEF WentFreed
    <2>2. t.undo => node[q].size = t.to
      BY <1>0, <2>1 DEF Progress
    <2>3. Length(q)' = Length(q)
      BY <1>6, <2>1, <2>2, CutLength DEF WentFreed
    <2> QED
      BY <1>0, <2>1, <2>3, AtIs DEF Mid
  <1> QED
    BY <1>2, <1>3, <1>4, <1>5, <1>6 DEF Rests

(* The steps that make the file longer. *)
LEMMA FirstFull ==
    ASSUME NEW q, CutStep(q), WentFirst(q)
    PROVE  \A i \in Place(q)' : At(q, i)' \in Clusters
  <1>0. Space /\ t.to \in Nat /\ node[q].size \in Nat /\ q \in Objects /\ View(q)' = node'[q]
    BY CutFacts
  <1>1. node[q].size = 0
    BY <1>0 DEF WentFirst, Space, NoStart
  <1>2. Length(q)' = 1
    BY <1>0, <1>1, CutLength DEF WentFirst
  <1>3. Place(q)' = 0 .. 0
    BY <1>2 DEF Place
  <1>4. At(q, 0)' \in Clusters
    BY <1>0, AtIs, WalkIs DEF WentFirst
  <1> QED
    BY <1>3, <1>4

(* (by the actions of the model)                                            *)
LEMMA CutWhich ==
    ASSUME NEW q, CutStep(q)
    PROVE  /\ WentGrow(q) => GrowOne
           /\ WentCrop(q) => Crop
  <1>0. Cuts /\ CutFor /\ t.left \in Nat
    BY CutPlan, CutFacts DEF CutStep
  <1>1. ASSUME WentGrow(q) PROVE GrowOne
    <2>1. pc = "grow" /\ pc' = "grow" /\ t.left > 0
      BY <1>1 DEF WentGrow
    <2>2. ~GrowNoSpace
      BY <1>0, <2>1 DEF GrowNoSpace, TruncFailed, CutFor
    <2>3. ~TruncateSame /\ ~GrowFrom /\ ~ShrinkFrom /\ ~GrowFirst
      BY <2>1 DEF TruncateSame, GrowFrom, ShrinkFrom, GrowFirst
    <2>4. ~GrowEnd /\ ~EraseNew /\ ~Crop /\ ~FreeOne /\ ~FreeEnd
      BY <1>0, <2>1 DEF GrowEnd, EraseNew, Crop, FreeOne, FreeEnd
    <2> QED
      BY <1>0, <2>2, <2>3, <2>4 DEF Cuts
  <1>2. ASSUME WentCrop(q) PROVE Crop
    <2>1. pc = "crop"
      BY <1>2 DEF WentCrop
    <2>2. ~TruncateSame /\ ~GrowFrom /\ ~ShrinkFrom /\ ~GrowFirst /\ ~GrowNoSpace /\ ~GrowOne
      BY <2>1 DEF TruncateSame, GrowFrom, ShrinkFrom, GrowFirst, GrowNoSpace, GrowOne
    <2>3. ~GrowEnd /\ ~EraseNew /\ ~FreeOne /\ ~FreeEnd
      BY <2>1 DEF GrowEnd, EraseNew, FreeOne, FreeEnd
    <2> QED
      BY <1>0, <2>2, <2>3 DEF Cuts
  <1> QED
    BY <1>1, <1>2

(* one more, with the links so far written if need be,                      *)
LEMMA GrewKept ==
    ASSUME NEW q, CutStep(q), WentGrow(q)
    PROVE  /\ \A i \in Place(q) : At(q, i)' = At(q, i)
           /\ \A c \in Clusters : fat'[c] = fat[c] \/ \E j \in Place(q) : At(q, j) = c
  <1>1. Basic' /\ sound /\ g_initialized /\ IInv /\ GrowOne /\ pc = "grow" /\ q = t.o
    BY CutWhich, CutFacts DEF CutStep, WentGrow
  <1>2. GrewOne
    BY <1>1, GrowOneBoth
  <1>3. CASE UNCHANGED <<fat, node>>
    BY <1>3, CutFacts, AtIs
  <1>4. CASE \E p, L : p = t.o /\ L = t.to - t.left /\ Regrown(p, L)
    <2>1. PICK L : L = t.to - t.left /\ Regrown(q, L)
      BY <1>1, <1>4
    <2>2. Place(q) = 0 .. L - 1
      BY <1>1, <2>1, CutLength DEF Place
    <2> QED
      BY <2>1, <2>2 DEF Regrown
  <1> QED
    BY <1>2, <1>3, <1>4 DEF GrewOne

(* is at the end of the chain;                                              *)
LEMMA GrowFull ==
    ASSUME NEW q, CutStep(q), WentGrow(q)
    PROVE  \A i \in Place(q)' : At(q, i)' \in Clusters
  <1>1. /\ pc = "grow" /\ pc' = "grow" /\ t'.to = t.to /\ t'.left = t.left - 1 /\ t'.prev \in Clusters /\ t'.o = q /\ t.left > 0
        /\ q \in Objects /\ t.to \in Nat /\ t.left \in Nat /\ Full
    BY CutFacts DEF WentGrow, On, CutStep, Healthy
  <1>2. PICK L : L = t.to - t.left
    OBVIOUS
  <1>3. Place(q) = 0 .. L - 1 /\ Place(q)' = 0 .. L /\ L \in Nat
    <2>1. Length(q) = L /\ Length(q)' = L + 1 /\ 1 <= L
      BY <1>1, <1>2, CutLength
    <2> QED
      BY <1>1, <1>2, <2>1 DEF Place
  <1>4. At(q, L)' = t'.prev
    <2>1. PICK p, k : p = t'.o /\ k = t'.to - t'.left - 1
      OBVIOUS
    <2>2. t'.prev = At(p, k)'
      <3>1. Growing'
        BY CutFacts DEF Space
      <3>2. t'.prev = At(t.o, t.to - t.left - 1)'
        BY <1>1, <3>1 DEF Growing
      <3> QED
        BY <2>1, <3>2, AtIs
    <2>3. k = L /\ p = q
      BY <1>1, <1>2, <2>1
    <2> QED
      BY <2>2, <2>3
  <1>5. \A i \in 0 .. L - 1 : At(q, i)' \in Clusters
    BY <1>1, <1>3, GrewKept DEF Full
  <1> QED
    BY <1>1, <1>3, <1>4, <1>5

(* the end is written behind it;                                            *)
LEMMA EndFull ==
    ASSUME NEW q, CutStep(q), WentEnd(q)
    PROVE  /\ \A i \in Place(q)' : At(q, i)' \in Clusters
           /\ \A c \in Clusters : fat'[c] = fat[c] \/ \E j \in Place(q) : At(q, j) = c
           /\ \A k : q = ROOT /\ k = Length(q)' => At(q, k)' = END
  <1>1. /\ pc = "grow" /\ pc' = "erasenew" /\ t' = t /\ t.left = 0 /\ node' = node /\ q = t.o /\ q \in Objects
        /\ Basic /\ Space /\ Full /\ t.to \in Nat /\ View(q) = node[q] /\ View(q)' = node'[q] /\ View(q)' = View(q)
        /\ fat' = (IF node[q].contig THEN fat ELSE [fat EXCEPT ![t.prev] = END])
        /\ fat \in [Clusters -> Clusters \union {FREE, END}]
    BY CutFacts DEF WentEnd, CutStep, Healthy, Basic, Typed, DeviceTyped
  <1>2. PICK L : L = t.to
    OBVIOUS
  <1>3. L \in Nat /\ L > 0 /\ t.prev \in Clusters /\ t.prev = At(q, L - 1) /\ Place(q) = 0 .. L - 1
    BY <1>1, <1>2, GrownAll
  <1>4. Length(q)' = L /\ Place(q)' = Place(q)
    <2>1. Length(q)' = L
      BY <1>1, <1>2, CutLength
    <2> QED
      BY <1>3, <2>1 DEF Place
  <1>5. \A c \in Clusters : c # At(q, L - 1) => fat'[c] = fat[c]
    BY <1>1, <1>3
  <1>6. L - 1 \in Place(q) /\ L - 1 \in Nat
    BY <1>3
  <1>7. Alike(q)
    BY <1>1 DEF Alike
  <1>8. \A i \in Place(q) : At(q, i)' = At(q, i)
    <2> SUFFICES ASSUME NEW i \in Place(q) PROVE At(q, i)' = At(q, i)
      OBVIOUS
    <2>1. i <= L - 1
      BY <1>3
    <2> QED
      BY <1>1, <1>5, <1>6, <1>7, <2>1, BeforeKept DEF Space
  <1>9. ASSUME q = ROOT PROVE At(q, L)' = END
    <2>1. PICK ct, s : ct = node'[q].contig /\ s = node'[q].start
      OBVIOUS
    <2>2. ct = FALSE
      BY <1>1, <1>9, <2>1, CuttingFacts, CutFacts
    <2>3. \A i : At(q, i)' = WalkIn(fat', ct, s)[i]
      BY <1>1, <2>1, AtIs
    <2>4. WalkIn(fat', ct, s)[(L - 1) + 1] = Step(fat', ct, WalkIn(fat', ct, s)[L - 1])
      BY <1>6, WalkIs
    <2>5. (L - 1) + 1 = L
      BY <1>3
    <2>6. At(q, L)' = Step(fat', ct, t.prev)
      BY <1>3, <1>6, <1>8, <2>3, <2>4, <2>5
    <2>7. fat'[t.prev] = END
      BY <1>1, <1>3, <2>1, <2>2
    <2> QED
      BY <1>3, <2>2, <2>6, <2>7 DEF Step
  <1> QED
    BY <1>1, <1>3, <1>4, <1>5, <1>6, <1>8, <1>9 DEF Full

(* a cut leaves the front complete and the rest to be freed;                *)
LEMMA CropFull ==
    ASSUME NEW q, CutStep(q), WentCrop(q)
    PROVE  /\ \A i \in Place(q)' : At(q, i)' \in Clusters
           /\ CutFull'
           /\ \A c \in Clusters : fat'[c] = fat[c] \/ \E j \in Place(q) : At(q, j) = c
           /\ \A k : q = ROOT /\ k = Length(q)' => At(q, k)' = END
  <1>1. /\ IInv /\ Basic' /\ sound /\ pc = "crop" /\ Crop /\ CutsOff /\ pc' = "free" /\ q = t.o /\ q \in Objects /\ Full
        /\ t'.to = t.to /\ t'.left = t.left /\ t.to \in Nat /\ t.left \in Nat /\ View(q) = node[q]
        /\ fat \in [Clusters -> Clusters \union {FREE, END}] /\ Basic /\ pc \in Cutting
    BY CutFacts, CutWhich DEF WentCrop, CutsOff, CutStep, Healthy, Basic, Typed, DeviceTyped
  <1>2. PICK k, z : k = t.to /\ z = t.left
    OBVIOUS
  <1>3. /\ \A i \in 0 .. z - 1 : CutAt(i)' = At(q, k + i) /\ k + i \in Place(q)
        /\ \A i \in Place(q)' : i \in Place(q) /\ At(q, i)' = At(q, i)
        /\ k > 0 /\ node[q].contig = FALSE => At(q, k)' = END
    BY <1>1, <1>2, CropSpace
  <1>4. \A i \in Place(q)' : At(q, i)' \in Clusters
    BY <1>1, <1>3 DEF Full
  <1>5. \A i \in 0 .. z - 1 : CutAt(i)' \in Clusters
    BY <1>1, <1>3 DEF Full
  <1>6. CutFull'
    BY <1>1, <1>2, <1>5 DEF CutFull, Clusters
  <1>7. \A c \in Clusters : fat'[c] = fat[c] \/ \E j \in Place(q) : At(q, j) = c
    <2>1. CASE k = 0
      BY <1>1, <1>2, <2>1 DEF CutsOff
    <2>2. CASE k > 0
      <3>1. k - 1 \in Place(q)
        BY <1>1, <1>2, <2>2, CutLength DEF Place
      <3>2. At(q, k - 1) = Nth(node[q], k - 1)
        BY <1>1 DEF At
      <3>3. \A c \in Clusters : c # At(q, k - 1) => fat'[c] = fat[c]
        BY <1>1, <1>2, <2>2, <3>2 DEF CutsOff
      <3> QED
        BY <3>1, <3>3
    <2> QED
      BY <1>1, <1>2, <2>1, <2>2
  <1>8. Length(q)' = k
    BY <1>1, <1>2, CutLength
  <1>9. q = ROOT => k > 0 /\ node[q].contig = FALSE
    BY <1>1, <1>2, CuttingFacts
  <1> QED
    BY <1>3, <1>4, <1>6, <1>7, <1>8, <1>9

(* and the rest is freed from its front.                                    *)
LEMMA FreeFull ==
    ASSUME NEW q, CutStep(q), WentFree(q)
    PROVE  /\ \A i \in Place(q)' : At(q, i)' \in Clusters
           /\ CutFull'
           /\ t.prev \in Clusters /\ (\A c \in Clusters : fat'[c] = fat[c] \/ c = t.prev)
           /\ \A o \in Objects : \A j \in Place(o) : At(o, j) # t.prev
           /\ \A k : k = Length(q)' => k = Length(q) /\ At(q, k)' = At(q, k)
  <1>1. /\ IInv /\ Basic' /\ sound /\ pc = "free" /\ t.left > 0 /\ UNCHANGED <<node, dent, cached>> /\ FreesOne /\ pc' = "free"
        /\ q = t.o /\ q \in Objects /\ Full /\ CutFull /\ Basic /\ Space
        /\ t'.to = t.to /\ t'.left = t.left - 1 /\ t.to \in Nat /\ t.left \in Nat
        /\ fat \in [Clusters -> Clusters \union {FREE, END}]
    BY CutFacts DEF WentFree, FreesOne, CutStep, Healthy, Basic, Typed, DeviceTyped
  <1>2. PICK k, z : k = t.to /\ z = t.left
    OBVIOUS
  <1>3. /\ \A i \in 0 .. z - 2 : CutAt(i)' = CutAt(i + 1) /\ i + 1 \in 0 .. z - 1
        /\ \A o \in Objects : Place(o)' = Place(o) /\ \A i \in Place(o) : At(o, i)' = At(o, i)
        /\ At(q, k)' = At(q, k)
    BY <1>1, <1>2, FreesOneSpace
  <1>4. \A i \in Place(q)' : At(q, i)' \in Clusters
    BY <1>1, <1>3 DEF Full
  <1>5. \A i \in 0 .. z - 2 : CutAt(i)' \in Clusters
    BY <1>1, <1>2, <1>3 DEF CutFull
  <1>6. CutFull'
    <2>1. t'.left - 1 = z - 2
      BY <1>1, <1>2
    <2> QED
      BY <1>5, <2>1 DEF CutFull, Clusters
  <1>7. CutAt(0) = t.prev /\ 0 \in 0 .. t.left - 1
    <2>1. CutAt(0) = WalkIn(fat, node[t.o].contig, t.prev)[0]
      BY CutIs
    <2> QED
      BY <1>1, <2>1, WalkIs
  <1>8. t.prev \in Clusters /\ \A o \in Objects : \A j \in Place(o) : At(o, j) # t.prev
    BY <1>1, <1>7 DEF Space, CutOff, FreesOne
  <1>9. \A c \in Clusters : fat'[c] = fat[c] \/ c = t.prev
    BY <1>1 DEF FreesOne, Freed
  <1>10. Length(q)' = k /\ Length(q) = k
    BY <1>1, <1>2, CutLength
  <1> QED
    BY <1>3, <1>4, <1>6, <1>8, <1>9, <1>10

(* So no chain ends early,                                                  *)
LEMMA CutFills ==
    ASSUME NEW q, CutStep(q) PROVE Full' /\ CutFull'
  <1>0. Full /\ q \in Objects
    BY CutFacts DEF CutStep, Healthy
  <1>1. \A o \in Objects : o # q => \A i \in Place(o)' : At(o, i)' \in Clusters
    BY <1>0, CutOther DEF Full
  <1>2. /\ \A i \in Place(q)' : At(q, i)' \in Clusters
        /\ CutFull'
    <2>1. CASE Rests(q)
      <3>1. Place(q)' = Place(q)
        BY <2>1, RestsLength DEF Place
      <3>2. \A i \in Place(q)' : At(q, i)' \in Clusters
        BY <1>0, <2>1, <3>1, RestsLength DEF Full
      <3> QED
        BY <2>1, <3>2, RestsLength DEF CutFull
    <2>2. CASE WentFirst(q)
      BY <2>2, FirstFull DEF CutFull, WentFirst
    <2>3. CASE WentGrow(q)
      BY <2>3, GrowFull DEF CutFull, WentGrow
    <2>4. CASE WentEnd(q)
      BY <2>4, EndFull DEF CutFull, WentEnd
    <2>5. CASE WentCrop(q)
      BY <2>5, CropFull
    <2>6. CASE WentFree(q)
      BY <2>6, FreeFull
    <2> QED
      BY <2>1, <2>2, <2>3, <2>4, <2>5, <2>6 DEF CutStep, Went, Rests
  <1> QED
    BY <1>1, <1>2 DEF Full, Objects, Objs, Clusters

(* a file without clusters has no start,                                    *)
LEMMA CutBegins ==
    ASSUME NEW q, CutStep(q) PROVE Starts'
  <1> SUFFICES ASSUME NEW o \in Objects, View(o)'.size = 0, ~(pc' \in Mid /\ o = t'.o) PROVE View(o)'.start = FREE
    BY DEF Starts, Objects, Objs, FREE
  <1>0. /\ t.to \in Nat /\ t.left \in Nat /\ node[q].size \in Nat /\ View(q) = node[q] /\ View(q)' = node'[q] /\ CutFor /\ Progress
        /\ Starts /\ CutSmooth /\ q = t.o /\ pc \in Cutting
    BY CutFacts, CutPlan DEF CutStep, Healthy
  <1>1. CASE o # q
    <2>1. CASE View(o)' = NoNode
      BY <2>1, Blank
    <2>2. CASE View(o)' = View(o)
      BY <1>0, <1>1, <2>2 DEF Starts
    <2> QED
      BY <1>1, <2>1, <2>2, CutOther
  <1>2. CASE o = q
    <2>0. pc' \notin Mid /\ node'[q].size = 0
      BY <1>0, <1>2, CutLength
    <2>1. CASE WentSame(q)
      <3>1. View(q)' = View(q) /\ pc \notin Mid
        BY <1>0, <2>1 DEF WentSame, Calm, Mid
      <3> QED
        BY <1>0, <1>2, <3>1 DEF Starts
    <2>2. CASE WentBack(q)
      <3>1. node' = node
        BY <2>2 DEF WentBack, Calm
      <3>2. pc = "grow" => 1 <= t.to - t.left
        BY <1>0 DEF Progress
      <3>3. node[q].start = FREE
        BY <1>0, <2>0, <2>2, <3>1, <3>2 DEF WentBack
      <3> QED
        BY <1>0, <1>2, <3>1, <3>3
    <2>3. CASE WentErase(q)
      <3>1. node[q].size < t.to /\ t.to = 0
        BY <1>0, <2>0, <2>3 DEF WentErase, CutSmooth
      <3> QED
        BY <1>0, <3>1
    <2>4. CASE WentFreed(q)
      <3>1. pc = "free" /\ node'[q].start = node[q].start /\ node'[q].size = (IF t.undo THEN node[q].size ELSE t.to)
        BY <2>4 DEF WentFreed
      <3>2. t.undo => node[q].size = t.to
        BY <1>0, <3>1 DEF Progress
      <3>3. t.to = 0
        BY <2>0, <3>1, <3>2
      <3>4. node[q].start = FREE
        BY <1>0, <3>1, <3>3 DEF CutSmooth
      <3> QED
        BY <1>0, <1>2, <3>1, <3>4
    <2>5. ~(WentOut(q) \/ WentFirst(q) \/ WentGrow(q) \/ WentEnd(q) \/ WentCrop(q) \/ WentFree(q))
      BY <2>0 DEF WentOut, WentFirst, WentGrow, WentEnd, WentCrop, WentFree, CutsOff, FreesOne, Mid
    <2> QED
      BY <2>1, <2>2, <2>3, <2>4, <2>5 DEF CutStep, Went
  <1> QED
    BY <1>1, <1>2

(* links of other files stay,                                               *)
LEMMA CutFat ==
    ASSUME NEW q, CutStep(q), NEW o \in Objects, o # q, NEW i \in Place(o), At(o, i) \in Clusters
    PROVE  fat'[At(o, i)] = fat[At(o, i)]
  <1>0. Space /\ q \in Objects
    BY CutFacts
  <1>1. \A j \in Place(q) : At(q, j) # At(o, i)
    BY <1>0 DEF Space, Apart
  <1>2. CASE Rests(q) \/ WentFirst(q)
    BY <1>2 DEF Rests, WentSame, WentOut, WentBack, WentErase, WentFreed, WentFirst, Calm
  <1>3. CASE WentGrow(q)
    BY <1>1, <1>3, GrewKept
  <1>4. CASE WentEnd(q)
    BY <1>1, <1>4, EndFull
  <1>5. CASE WentCrop(q)
    BY <1>1, <1>5, CropFull
  <1>6. CASE WentFree(q)
    BY <1>6, FreeFull
  <1> QED
    BY <1>2, <1>3, <1>4, <1>5, <1>6 DEF CutStep, Went, Rests

(* (a witness for the end of the root)                                      *)
LEMMA EndedBy ==
    ASSUME NEW k, k = Length(ROOT)', At(ROOT, k)' = END PROVE Ended'
  <1>1. At(ROOT, k)' = At(ROOT, Length(ROOT))'
    BY AtIs
  <1> QED
    BY <1>1 DEF Ended

(* the root ends where its size says when it grows by its one cluster or is *)
(* cut,                                                                     *)
LEMMA CutRootEnds ==
    ASSUME NEW q, CutStep(q), q = ROOT PROVE Ended'
  <1>0. /\ t.to \in Nat /\ t.left \in Nat /\ node[q].size \in Nat /\ CutFor /\ CutSmooth /\ Progress /\ Ended
        /\ q = t.o /\ pc \in Cutting /\ Basic /\ obj \in Objs
    BY CutFacts, CutPlan DEF CutStep, Healthy
  <1>1. node[q].start = 4 /\ node[q].contig = FALSE
    BY <1>0, CuttingFacts
  <1>2. PICK k, l : k = Length(ROOT)' /\ l = Length(ROOT)
    OBVIOUS
  <1>3. CASE Rests(q)
    <2>1. k = l /\ At(ROOT, l) = END
      BY <1>0, <1>2, <1>3, RestsLength DEF Ended
    <2> QED
      BY <1>2, <1>3, <2>1, RestsLength, EndedBy
  <1>4. CASE WentFirst(q)
    BY <1>1, <1>4 DEF WentFirst, FREE
  <1>5. CASE WentGrow(q)
    <2>1. pc = "grow" /\ pc' = "grow" /\ t'.left = t.left - 1 /\ t'.o = q /\ t.left > 0
      BY <1>5 DEF WentGrow, On
    <2>2. t.k \in {"commit", "delflush"}
      BY <1>0, ObjectSet DEF CutFor
    <2>3. t.to = node[q].size + 1
      BY <1>0, <2>1, <2>2 DEF CutSmooth
    <2>4. t.left = 1
      BY <1>0, <2>1, <2>3 DEF Progress
    <2> QED
      BY <2>1, <2>4 DEF Ended
  <1>6. CASE WentEnd(q)
    BY <1>2, <1>6, EndFull, EndedBy
  <1>7. CASE WentCrop(q)
    BY <1>2, <1>7, CropFull, EndedBy
  <1>8. CASE WentFree(q)
    <2>1. k = l /\ At(ROOT, k)' = At(ROOT, k)
      BY <1>2, <1>8, FreeFull
    <2>2. At(ROOT, l) = END
      BY <1>0, <1>2, <1>8 DEF Ended, WentFree
    <2> QED
      BY <1>2, <2>1, <2>2, EndedBy
  <1> QED
    BY <1>3, <1>4, <1>5, <1>6, <1>7, <1>8 DEF CutStep, Went, Rests

(* and when another file does.                                              *)
LEMMA CutRootStays ==
    ASSUME NEW q, CutStep(q) PROVE Ended'
  <1>1. CASE q = ROOT
    BY <1>1, CutRootEnds
  <1>2. CASE q # ROOT
    <2>0. Ended /\ Basic /\ q = t.o /\ ROOT \in Objects
      BY CutFacts, ObjectSet DEF CutStep, Healthy
    <2>1. View(ROOT)' = View(ROOT) /\ Length(ROOT)' = Length(ROOT) /\ Length(ROOT) = View(ROOT).size
      BY <1>2, <2>0, CutOther
    <2>2. PICK k : k = Length(ROOT)
      OBVIOUS
    <2>3. k \in Nat /\ Place(ROOT) = 0 .. k - 1
      BY <2>0, <2>1, <2>2, ViewTyped DEF IsNode, Place
    <2>4. At(ROOT, k) = END
      BY <1>2, <2>0, <2>2 DEF Ended
    <2>5. \A i \in 0 .. k - 1 : At(ROOT, i) \in Clusters => fat'[At(ROOT, i)] = fat[At(ROOT, i)]
      BY <1>2, <2>0, <2>3, CutFat
    <2>6. Alike(ROOT)
      BY <2>1 DEF Alike
    <2>7. \A i \in 0 .. k : At(ROOT, i)' = At(ROOT, i)
      BY <2>3, <2>5, <2>6, AtKept
    <2>8. At(ROOT, k)' = END
      BY <2>3, <2>4, <2>7
    <2> QED
      BY <2>1, <2>2, <2>8, EndedBy
  <1> QED
    BY <1>1, <1>2

-----------------------------------------------------------------------------
(* The fourth theorem.                                                      *)

(* Every step of exfat_truncate that does not fail is such a step,          *)
LEMMA CutWent ==
    ASSUME IInv, Script, Healthy, sound, g_initialized, Cuts, ~Fails
    PROVE  CutMove /\ CutNode /\ Went(t.o)
  <1>1. Basic /\ Space /\ Full /\ CutFull /\ Starts /\ Object
    BY DEF IInv, Healthy, Script
  <1>2. CutMove /\ CutNode
    BY <1>1, CutSteps
  <1>3. PICK q : q = t.o
    OBVIOUS
  <1>4. Went(q)
    BY <1>1, <1>2, <1>3, WentQuiet, WentGrows, WentShrinks DEF Cuts
  <1> QED
    BY <1>2, <1>3, <1>4

(* and keeps Healthy.                                                       *)
LEMMA RestCut ==
    ASSUME IInv, IInv', Script, Untorn, Healthy, sound, sound', g_initialized, g_initialized', Cuts, ~Fails
    PROVE  Healthy' /\ Untorn'
  <1>1. PICK q : q = t.o
    OBVIOUS
  <1>2. CutStep(q)
    BY <1>1, CutWent DEF CutStep
  <1>3. Entered' /\ Lodged' /\ Agrees' /\ Mapped' /\ Untorn'
    BY <1>2, CutEntered, CutLodged, CutMapped, CutDents
  <1>4. NotLonger' /\ Unread' /\ Smooth'
    BY <1>2, CutNotLonger, CutUnread, CutCalm
  <1>5. Full' /\ CutFull' /\ Starts' /\ Ended'
    BY <1>2, CutFills, CutBegins, CutRootStays
  <1>6. vbr' = TRUE /\ sysents' = TRUE
    BY CutMap DEF Healthy
  <1> QED
    BY <1>3, <1>4, <1>5, <1>6 DEF Healthy

(* Steps that write no entry.                                               *)
LEMMA GoesKeep ==
    ASSUME Goes, Basic PROVE dent' = dent
  <1>1. CASE FindSlot \/ Created \/ Failed \/ DirFlush \/ DeleteFlush \/ UnmountNode \/ UnmountNodesDone
    BY <1>1 DEF FindSlot, Created, Failed, DirFlush, DeleteFlush, UnmountNode, UnmountNodesDone, device
  <1>2. CASE Unmount \/ WriteDone \/ ReadData \/ FlushNothing \/ FlushBitmap \/ LookUp
    BY <1>2 DEF Unmount, WriteDone, ReadData, FlushNothing, FlushBitmap, LookUp, device
  <1>3. CASE Detach
    BY <1>3, DetachGoes
  <1>4. CASE PathDone \/ \E d \in Dirs : NextComponent(d)
    BY <1>4 DEF PathDone, NextComponent, device
  <1> QED
    BY <1>1, <1>2, <1>3, <1>4 DEF Goes

(* So every step of a call that does not fail keeps Healthy.                *)
LEMMA RestWorks ==
    ASSUME IInv, IInv', Script, Store, Untorn, Healthy, sound, sound', g_initialized, g_initialized', Works, ~Fails
    PROVE  Healthy' /\ Untorn'
  <1>0. Basic /\ Seated
    BY DEF IInv, Store
  <1>1. CASE Opens
    <2>1. dent' = dent
      BY <1>1, OpensOn
    <2> QED
      BY <1>1, <2>1, RestOpens, UntornSame
  <1>2. CASE Goes
    <2>1. dent' = dent
      BY <1>0, <1>2, GoesKeep
    <2>2. Untorn'
      BY <2>1, UntornSame
    <2>3. CASE FindSlot \/ Created \/ Failed \/ PathDone \/ UnmountNode \/ UnmountNodesDone \/ WriteDone \/ ReadData
      BY <2>2, <2>3, RestFindSlot, RestCreated, RestMoves, RestRead
    <2>4. CASE DirFlush \/ DeleteFlush \/ Unmount \/ FlushNothing \/ FlushBitmap
      BY <1>0, <2>2, <2>4, RestDirFlush, RestDeleteFlush, RestUnmount, RestFlushNothing, RestFlushBitmap
    <2>5. CASE LookUp \/ Detach
      BY <2>2, <2>5, RestLookUp, RestDetach
    <2>6. CASE \E d \in Dirs : NextComponent(d)
      BY <2>2, <2>6, RestNext
    <2> QED
      BY <1>2, <2>3, <2>4, <2>5, <2>6 DEF Goes
  <1>3. CASE Edits
    BY <1>3, RestCommit, RestFlushEntry, RestWrite, RestDelete DEF Edits
  <1>4. CASE Cuts
    BY <1>4, RestCut
  <1> QED
    BY <1>1, <1>2, <1>3, <1>4 DEF Works

(* Faults are counted.                                                      *)
LEMMA FaultsGrow ==
    ASSUME Basic, Works, faults' = 0 PROVE faults = 0
  <1>0. faults \in Nat
    BY ExfatAssumption DEF Basic, Typed, CountTyped
  <1> SUFFICES faults' = faults \/ faults' = faults + 1
    BY <1>0
  <1>1. CASE Opens
    <2>1. PICK name, o, n : Call(name, o, n)
      BY <1>1 DEF Opens, exfat_write_file, exfat_create_dir_path, exfat_read_file, exfat_get_file_info
    <2> QED
      BY <2>1 DEF Call
  <1>2. CASE Goes
    <2>1. CASE FindSlot \/ Created \/ Failed \/ DirFlush \/ DeleteFlush \/ UnmountNode \/ UnmountNodesDone
      BY <2>1 DEF FindSlot, Created, Failed, DirFlush, DeleteFlush, UnmountNode, UnmountNodesDone, Ok, Fails, NoMemory
    <2>2. CASE Unmount \/ WriteDone \/ ReadData \/ FlushNothing \/ FlushBitmap
      BY <2>2 DEF Unmount, WriteDone, ReadData, FlushNothing, FlushBitmap, Ok, Fails
    <2>3. CASE LookUp \/ Detach
      BY <2>3 DEF LookUp, Detach, Ok, Fails, NoMemory
    <2>4. CASE PathDone \/ \E d \in Dirs : NextComponent(d)
      BY <2>4 DEF PathDone, NextComponent, Ok
    <2> QED
      BY <1>2, <2>1, <2>2, <2>3, <2>4 DEF Goes
  <1>3. CASE Edits
    BY <1>3 DEF Edits, CommitEntry, FlushEntry, WriteData, DeleteEntry, Ok, Fails, NoMemory
  <1>4. CASE TruncateSame \/ GrowFrom \/ GrowNoSpace \/ ShrinkFrom \/ GrowFirst \/ GrowEnd
    BY <1>4 DEF TruncateSame, GrowFrom, GrowNoSpace, ShrinkFrom, GrowFirst, GrowEnd, Ok, Fails
  <1>5. CASE GrowOne
    BY <1>5 DEF GrowOne, Ok, Fails
  <1>6. CASE EraseNew \/ Crop \/ FreeOne \/ FreeEnd
    BY <1>6 DEF EraseNew, Crop, FreeOne, FreeEnd, Ok, Fails
  <1> QED
    BY <1>1, <1>2, <1>3, <1>4, <1>5, <1>6 DEF Works, Cuts

(* So a step of a call keeps the invariant,                                 *)
LEMMA RInvWorks ==
    ASSUME IInv, IInv', KInv, RInv, Works PROVE RInv'
  <1>0. Basic /\ Basic' /\ Script /\ g_initialized /\ g_initialized' /\ (sound' => sound)
    BY WorksOn DEF IInv, KInv
  <1>1. Formed'
    BY <1>0 DEF Formed, Formatting, Basic, Control
  <1>2. ASSUME Flawless' PROVE Healthy' /\ Untorn'
    <2>1. sound /\ sound' /\ faults = 0 /\ ~Fails
      BY <1>0, <1>2, NoFault, FaultsGrow DEF Flawless
    <2>2. Untorn /\ Healthy /\ Store
      BY <1>0, <2>1 DEF RInv, KInv, Flawless
    <2> QED
      BY <1>0, <2>1, <2>2, RestWorks
  <1> QED
    BY <1>0, <1>1, <1>2 DEF RInv

(* and so does exfat_init.                                                  *)
LEMMA RInvOpen ==
    ASSUME IInv, IInv', RInv, exfat_init PROVE RInv'
  <1>0. /\ pc = "idle" /\ pc' = "mount" /\ UNCHANGED <<fat, dent, dmap, sysents, vbr, sound, faults, g_initialized>>
    BY DEF exfat_init, device, memory
  <1>1. Formed'
    BY <1>0 DEF Formed
  <1>2. ASSUME Flawless' PROVE /\ Untorn'
                               /\ ~g_initialized' /\ vbr' => Laid'
                               /\ g_initialized' => Healthy'
    <2>1. Flawless
      BY <1>0, <1>2 DEF Flawless
    <2>2. Untorn'
      BY <1>0, <2>1, UntornSame DEF RInv
    <2>3. ~g_initialized' /\ vbr' => Laid'
      BY <1>0, <2>1, LaidSame DEF RInv, Formatting
    <2>4. g_initialized' => Healthy'
      BY <1>0, <2>1, RestOpens DEF RInv, Flawless
    <2> QED
      BY <2>2, <2>3, <2>4
  <1> QED
    BY <1>1, <1>2 DEF RInv

(* A step that changes nothing                                              *)
LEMMA StutterSeen ==
    ASSUME UNCHANGED vars
    PROVE  /\ UNCHANGED <<vbr, sysents, fat, dmap, dent, g_initialized, cmap, cmap_dirty, node, cached, pc, obj, t, f, sound, faults>>
           /\ \A o : View(o)' = View(o) /\ Length(o)' = Length(o) /\ Place(o)' = Place(o)
           /\ \A o, i : At(o, i)' = At(o, i) /\ (Counts(o, i)' <=> Counts(o, i))
           /\ \A i : CutAt(i)' = CutAt(i)
           /\ \A o \in Objs : \A i : DiskAt(o, i)' = DiskAt(o, i)
  <1>1. UNCHANGED <<vbr, sysents, fat, dmap, dent, g_initialized, cmap, cmap_dirty, node, cached, pc, obj, t, f, sound, faults>>
    BY DEF vars, device, memory, call, seen
  <1>2. \A o : View(o)' = View(o)
    BY <1>1, SameViews
  <1>3. \A o : Length(o)' = Length(o)
    BY <1>1, <1>2 DEF Length
  <1>4. \A o : Place(o)' = Place(o)
    BY <1>3 DEF Place
  <1>5. \A o, i : At(o, i)' = At(o, i)
    BY <1>1, SameAt
  <1>6. \A o, i : Counts(o, i)' <=> Counts(o, i)
    BY <1>1, <1>2 DEF Counts
  <1>7. \A i : CutAt(i)' = CutAt(i)
    BY <1>1, CutIs
  <1>8. \A o \in Objs : \A i : DiskAt(o, i)' = DiskAt(o, i)
    BY <1>1, StillDisk
  <1> QED
    BY <1>1, <1>2, <1>3, <1>4, <1>5, <1>6, <1>7, <1>8

(* keeps Healthy                                                            *)
LEMMA StutterHealthy ==
    ASSUME UNCHANGED vars, Healthy PROVE Healthy'
  <1>0. /\ UNCHANGED <<vbr, sysents, dmap, dent, cmap, cmap_dirty, node, cached, pc, obj, t, f>>
        /\ \A o : View(o)' = View(o) /\ Length(o)' = Length(o) /\ Place(o)' = Place(o)
        /\ \A o, i : At(o, i)' = At(o, i) /\ (Counts(o, i)' <=> Counts(o, i))
        /\ \A i : CutAt(i)' = CutAt(i)
        /\ \A o \in Objs : \A i : DiskAt(o, i)' = DiskAt(o, i)
    BY StutterSeen
  <1>1. /\ (Gone' <=> Gone) /\ (Fresher' <=> Fresher)
        /\ \A o : (Coming(o)' <=> Coming(o)) /\ (Behind(o)' <=> Behind(o)) /\ (Present(o)' <=> Present(o))
    BY <1>0 DEF Gone, Fresher, NewDir, Coming, Behind, Present
  <1>2. Entered' /\ NotLonger' /\ Unread'
    BY <1>0, <1>1 DEF Healthy, Entered, NotLonger, Unread
  <1>3. ASSUME NEW o \in Objs, Found(o) PROVE Found(o)'
    <2>1. PICK d : d = Under[o]
      OBVIOUS
    <2>2. PICK i \in Nat : Counts(d, i) /\ Within(d, i) /\ View(o).at[1] = At(d, i)
      BY <1>3, <2>1 DEF Found
    <2>3. Counts(d, i)' /\ Within(d, i)' /\ View(o)'.at[1] = At(d, i)'
      BY <1>0, <2>2 DEF Within
    <2> QED
      BY <2>1, <2>3, FoundBy
  <1>4. Lodged'
    BY <1>0, <1>1, <1>3 DEF Healthy, Lodged, Filed
  <1>5. Agrees' /\ Mapped'
    BY <1>0 DEF Healthy, Agrees, Mapped, SameLinks
  <1>6. Full'
    BY <1>0 DEF Healthy, Full, Objects, Objs, Clusters
  <1>7. CutFull'
    BY <1>0 DEF Healthy, CutFull, Clusters
  <1>8. Starts'
    BY <1>0 DEF Healthy, Starts, Mid, Objects, Objs, FREE
  <1>9. Ended'
    <2>1. PICK k : k = Length(ROOT)
      OBVIOUS
    <2>2. At(ROOT, k) = END => Ended'
      BY <1>0, <2>1, EndedBy
    <2> QED
      BY <1>0, <2>1, <2>2 DEF Healthy, Ended
  <1>10. Smooth'
    <2>1. Dirty' = Dirty
      BY <1>0, <1>1 DEF Dirty
    <2>2. CutSmooth'
      BY <1>0 DEF Healthy, Smooth, CutSmooth
    <2> QED
      BY <1>0, <1>1, <2>1, <2>2 DEF Healthy, Smooth
  <1> QED
    BY <1>0, <1>2, <1>4, <1>5, <1>6, <1>7, <1>8, <1>9, <1>10 DEF Healthy

(* and the invariant.                                                       *)
LEMMA RInvStutter ==
    ASSUME RInv, UNCHANGED vars PROVE RInv'
  <1>0. UNCHANGED <<vbr, sysents, fat, dmap, dent, g_initialized, pc, sound, faults>>
    BY StutterSeen
  <1>1. Formed'
    BY <1>0 DEF RInv, Formed
  <1>2. Untorn => Untorn'
    BY <1>0, UntornSame
  <1>3. Laid => Laid'
    BY <1>0, LaidSame
  <1>4. Healthy => Healthy'
    BY StutterHealthy
  <1>5. Flawless' <=> Flawless
    BY <1>0 DEF Flawless
  <1> QED
    BY <1>0, <1>1, <1>2, <1>3, <1>4, <1>5 DEF RInv

(* So it stays in every step.                                               *)
LEMMA RInvStep ==
    IInv /\ IInv' /\ KInv /\ RInv /\ [Next]_vars => RInv'
  <1> SUFFICES ASSUME IInv, IInv', KInv, RInv, [Next]_vars PROVE RInv'
    OBVIOUS
  <1>1. CASE UNCHANGED vars
    BY <1>1, RInvStutter
  <1>2. CASE exfat_format \/ EraseVbr \/ Erase \/ MakeVbr \/ MakeFat \/ MakeBitmap \/ MakeTable \/ MakeRoot
    BY <1>2, RInvFormat
  <1>3. CASE exfat_init
    BY <1>3, RInvOpen
  <1>4. CASE Crash
    BY <1>4, RInvCrash
  <1>5. CASE Mount
    BY <1>5, RInvMount
  <1>6. CASE Works
    BY <1>6, RInvWorks
  <1> QED
    BY <1>1, <1>2, <1>3, <1>4, <1>5, <1>6 DEF Next, Works, Opens, Goes, Edits, Cuts

(* It holds at the start.                                                   *)
LEMMA InitRInv ==
    Init => RInv
  <1> SUFFICES ASSUME Init PROVE RInv
    OBVIOUS
  <1>1. vbr = FALSE /\ g_initialized = FALSE /\ pc = "idle" /\ dent = [o \in Objs |-> NoDent]
    BY DEF Init
  <1>2. Untorn
    BY <1>1, Blank DEF Untorn, Proper
  <1> QED
    BY <1>1, <1>2 DEF RInv, Formed

(* While nothing has failed and no call was cut short, what is on the       *)
(* device between two calls can be mounted, every directory read, and the   *)
(* bitmap covers the clusters of every file and directory below the root;   *)
(* and no exfat_bug is reached: for a volume, a tree and files of any size, *)
(* after any number of calls (node.c:532-677, cluster.c:114-359,            *)
(* mount.c:190-348).                                                        *)
THEOREM VolumeAtRest == Spec => []AtRest
  <1>1. Init => IInv /\ KInv /\ RInv
    BY InitInv, InitKInv, InitRInv
  <1>2. IInv /\ KInv /\ RInv /\ [Next]_vars => IInv' /\ KInv' /\ RInv'
    BY IInvStep, KInvStep, RInvStep
  <1>3. IInv /\ KInv /\ RInv => AtRest
    BY RInvRest
  <1> QED
    BY <1>1, <1>2, <1>3, PTL DEF Spec
=============================================================================
