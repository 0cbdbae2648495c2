---------------------------- MODULE Fat32Proofs ----------------------------
(***************************************************************************)
(* What holds of the FAT32 volume after any number of calls, failed block  *)
(* operations and crashes, for a volume of any size: the variables have    *)
(* their types, the FAT has no cycle, the chains of the directory tree are *)
(* disjoint, files keep their contents and, as long as nothing fails, no   *)
(* cluster is leaked or counted wrongly.                                   *)
(*                                                                         *)
(* The argument for the last three is a map that gives every cluster an    *)
(* owner, such that links stay with their owner.  The map is not a         *)
(* variable: the invariants say that there is one, and for each step the   *)
(* proof says how it changes.                                              *)
(***************************************************************************)
EXTENDS Fat32, FiniteSetTheorems, WellFoundedInduction, TLAPS

(* A non-empty set of naturals has a least element.                         *)
LEMMA Least ==
    ASSUME NEW S, S \subseteq Nat, S # {}
    PROVE  \E x \in S : \A y \in S : x <= y
  <1>1. IsWellFoundedOn(OpToRel(<, Nat), Nat)
    BY NatLessThanWellFounded
  <1>2. IsWellFoundedOn({p \in Nat \X Nat : p[1] < p[2]}, Nat)
    BY <1>1 DEF OpToRel
  <1>3. PICK x \in S : \A y \in S : ~(<<y, x>> \in {p \in Nat \X Nat : p[1] < p[2]})
    BY <1>2, WFMin
  <1>4. \A y \in S : ~(y < x)
    BY <1>3
  <1> QED
    BY <1>4

-----------------------------------------------------------------------------
(* The directory tree.                                                      *)

(* There are TotalClusters clusters, and the root directory's is one of     *)
(* them.                                                                    *)
LEMMA RootCluster == Root \in Clusters /\ IsFiniteSet(Clusters) /\ Cardinality(Clusters) = TotalClusters
  <1>1. Clusters = 2 .. TotalClusters + 1 /\ TotalClusters + 1 \in Int
    BY Fat32Assumption DEF Clusters
  <1>2. IsFiniteSet(2 .. TotalClusters + 1)
        /\ Cardinality(2 .. TotalClusters + 1) = IF 2 > TotalClusters + 1 THEN 0 ELSE (TotalClusters + 1) - 2 + 1
    BY <1>1, FS_Interval
  <1> QED
    BY <1>1, <1>2, Fat32Assumption DEF Root

(* The directory tree of a volume whose clusters hold d: IsDir, Subdirs and *)
(* ReachableDirs of Fat32 as operators of d, so that they can be taken of   *)
(* disk and of disk' alike.                                                 *)
DirIn(d, c) == d[c].kind = "dir"
SubdirsIn(d, p) == {d[p].ents[n].first : n \in {m \in Names : d[p].ents[m].attr = "dir"}}
AddedTo(d, S) == {c \in UNION {SubdirsIn(d, p) : p \in S} : DirIn(d, c)}
ReachIn(d) ==
    LET R[k \in 0 .. TotalClusters] ==
            IF k = 0 THEN {Root} ELSE R[k - 1] \union AddedTo(d, R[k - 1])
    IN R[TotalClusters]

(* They are the same.                                                       *)
LEMMA ReachIs == ReachableDirs = ReachIn(disk) /\ ReachableDirs' = ReachIn(disk')
  BY DEF ReachableDirs, ReachIn, AddedTo, SubdirsIn, Subdirs, DirIn, IsDir, Entry

(* f is the recursive function that defines ReachIn, cut off after n        *)
(* rounds.                                                                  *)
IsSpread(f, d, n) ==
    f = [k \in 0 .. n |-> IF k = 0 THEN {Root} ELSE f[k - 1] \union AddedTo(d, f[k - 1])]

(* Such a function exists. TLA+ defines a recursive function as the one     *)
(* CHOOSE finds, and only a proof that there is one gives its equation; the *)
(* smallest n without one leads to a contradiction.                         *)
LEMMA SpreadExists ==
    ASSUME NEW d, NEW n \in Nat
    PROVE  \E f : IsSpread(f, d, n)
  <1> SUFFICES ASSUME ~ \E f : IsSpread(f, d, n) PROVE FALSE
    OBVIOUS
  <1> DEFINE S == {m \in Nat : ~ \E f : IsSpread(f, d, m)}
  <1>1. PICK m \in S : \A t \in S : m <= t
    <2>1. S \subseteq Nat /\ S # {}
      OBVIOUS
    <2> HIDE DEF S
    <2> QED
      BY <2>1, Least
  <1>2. m \in Nat /\ ~ \E f : IsSpread(f, d, m)
    OBVIOUS
  <1>3. m # 0
    <2> DEFINE f == [k \in 0 .. 0 |-> {Root}]
    <2>1. f = [k \in 0 .. 0 |-> IF k = 0 THEN {Root} ELSE f[k - 1] \union AddedTo(d, f[k - 1])]
      OBVIOUS
    <2>2. IsSpread(f, d, 0)
      BY <2>1 DEF IsSpread
    <2> QED
      BY <1>2, <2>2
  <1>4. m - 1 \in Nat /\ m - 1 \notin S
    BY <1>1, <1>2, <1>3
  <1>5. PICK f : IsSpread(f, d, m - 1)
    BY <1>4
  <1> DEFINE g == [k \in 0 .. m |-> IF k = m THEN f[m - 1] \union AddedTo(d, f[m - 1]) ELSE f[k]]
  <1>6. \A k \in 0 .. m - 1 : f[k] = IF k = 0 THEN {Root} ELSE f[k - 1] \union AddedTo(d, f[k - 1])
    BY <1>5 DEF IsSpread
  <1>7. ASSUME NEW k \in 0 .. m
        PROVE  g[k] = IF k = 0 THEN {Root} ELSE g[k - 1] \union AddedTo(d, g[k - 1])
    <2>1. CASE k = m
      BY <1>2, <1>3, <2>1
    <2>2. CASE k # m /\ k # 0
      <3>1. k \in 0 .. m - 1 /\ k - 1 \in 0 .. m /\ k - 1 # m
        BY <1>2, <2>2
      <3> QED
        BY <1>6, <2>2, <3>1
    <2>3. CASE k # m /\ k = 0
      <3>1. 0 \in 0 .. m - 1 /\ 0 \in 0 .. m
        BY <1>2, <2>3
      <3>2. f[0] = {Root}
        BY <1>6, <3>1, Zenon
      <3>3. g[0] = f[0]
        BY <2>3, <3>1
      <3> HIDE DEF g
      <3> QED
        BY <2>3, <3>2, <3>3, Zenon
    <2> QED
      BY <2>1, <2>2, <2>3
  <1>8. g = [k \in 0 .. m |-> IF k = 0 THEN {Root} ELSE g[k - 1] \union AddedTo(d, g[k - 1])]
    BY <1>7
  <1> HIDE DEF g
  <1>9. IsSpread(g, d, m)
    BY <1>8 DEF IsSpread
  <1> QED
    BY <1>2, <1>9

(* The equation of the recursive function behind ReachIn.                   *)
LEMMA ReachSpread ==
    ASSUME NEW d
    PROVE  \E f : /\ \A k \in 0 .. TotalClusters :
                       f[k] = IF k = 0 THEN {Root} ELSE f[k - 1] \union AddedTo(d, f[k - 1])
                  /\ ReachIn(d) = f[TotalClusters]
  <1>1. PICK g : IsSpread(g, d, TotalClusters)
    BY SpreadExists, Fat32Assumption
  <1> DEFINE f == CHOOSE f : f = [k \in 0 .. TotalClusters |->
                        IF k = 0 THEN {Root} ELSE f[k - 1] \union AddedTo(d, f[k - 1])]
  <1>2. f = [k \in 0 .. TotalClusters |-> IF k = 0 THEN {Root} ELSE f[k - 1] \union AddedTo(d, f[k - 1])]
    BY <1>1 DEF IsSpread
  <1>3. ReachIn(d) = f[TotalClusters]
    BY DEF ReachIn
  <1> HIDE DEF f
  <1>4. \A k \in 0 .. TotalClusters :
            f[k] = IF k = 0 THEN {Root} ELSE f[k - 1] \union AddedTo(d, f[k - 1])
    BY <1>2
  <1> QED
    BY <1>3, <1>4

(* Every subdirectory of a directory in S is in S.                          *)
IsClosed(d, S) ==
    \A p \in S, n \in Names :
        d[p].ents[n].attr = "dir" /\ DirIn(d, d[p].ents[n].first) => d[p].ents[n].first \in S

(* Another round adds nothing to a closed set, and more to a larger set.    *)
LEMMA ClosedAdds ==
    ASSUME NEW d, NEW S
    PROVE  /\ IsClosed(d, S) <=> AddedTo(d, S) \subseteq S
           /\ \A T : T \subseteq S => AddedTo(d, T) \subseteq AddedTo(d, S)
  BY DEF IsClosed, AddedTo, SubdirsIn

(* The reachable directories are in every closed set with the root: what    *)
(* shows, after a step, that it has made no directory reachable.            *)
LEMMA ReachLeast ==
    ASSUME NEW d, NEW S, Root \in S, IsClosed(d, S)
    PROVE  ReachIn(d) \subseteq S
  <1>1. PICK f : /\ \A k \in 0 .. TotalClusters :
                       f[k] = IF k = 0 THEN {Root} ELSE f[k - 1] \union AddedTo(d, f[k - 1])
                 /\ ReachIn(d) = f[TotalClusters]
    BY ReachSpread
  <1> DEFINE Bad == {k \in 0 .. TotalClusters : ~(f[k] \subseteq S)}
  <1>2. Bad = {}
    <2> SUFFICES ASSUME Bad # {} PROVE FALSE
      OBVIOUS
    <2>1. PICK m \in Bad : \A t \in Bad : m <= t
      <3>1. Bad \subseteq Nat
        BY Fat32Assumption
      <3> HIDE DEF Bad
      <3> QED
        BY <3>1, Least
    <2>2. m \in 0 .. TotalClusters /\ ~(f[m] \subseteq S)
      OBVIOUS
    <2>3. m # 0
      BY <1>1, <2>2
    <2>4. m - 1 \in 0 .. TotalClusters /\ m - 1 \notin Bad
      BY <2>1, <2>2, <2>3, Fat32Assumption
    <2>5. f[m - 1] \subseteq S
      BY <2>4
    <2>6. AddedTo(d, f[m - 1]) \subseteq S
      BY <2>5, ClosedAdds
    <2>7. f[m] = f[m - 1] \union AddedTo(d, f[m - 1])
      BY <1>1, <2>2, <2>3
    <2> QED
      BY <2>2, <2>5, <2>6, <2>7
  <1>3. TotalClusters \in 0 .. TotalClusters
    BY Fat32Assumption
  <1> QED
    BY <1>1, <1>2, <1>3

(* No entry has the root's cluster, and that of a directory is a cluster.   *)
GoodEntry(E) == E.first # Root /\ (E.attr = "dir" => E.first \in Clusters)

(* The root is a directory, and the entries of all directories are good.    *)
GoodDirs(d) ==
    /\ DirIn(d, Root)
    /\ \A p \in Clusters : DirIn(d, p) => \A n \in Names : GoodEntry(d[p].ents[n])

(* The reachable directories are directories, the root is one, and they are *)
(* closed: TotalClusters rounds suffice, as each adds a cluster or is the   *)
(* last.                                                                    *)
LEMMA ReachDirs ==
    ASSUME NEW d, GoodDirs(d)
    PROVE  /\ ReachIn(d) \subseteq {c \in Clusters : DirIn(d, c)}
           /\ Root \in ReachIn(d)
           /\ IsClosed(d, ReachIn(d))
  <1> DEFINE Dirs == {c \in Clusters : DirIn(d, c)}
  <1>1. Root \in Dirs /\ IsClosed(d, Dirs)
    BY RootCluster DEF GoodDirs, GoodEntry, IsClosed
  <1>2. ReachIn(d) \subseteq Dirs
    BY <1>1, ReachLeast
  <1>3. PICK f : /\ \A k \in 0 .. TotalClusters :
                       f[k] = IF k = 0 THEN {Root} ELSE f[k - 1] \union AddedTo(d, f[k - 1])
                 /\ ReachIn(d) = f[TotalClusters]
    BY ReachSpread
  (* Every round adds a cluster or has come to an end.                      *)
  <1> DEFINE P(k) == /\ f[k] \subseteq Dirs /\ Root \in f[k]
                     /\ IsClosed(d, f[k]) \/ Cardinality(f[k]) > k
             Bad == {k \in 0 .. TotalClusters : ~P(k)}
  <1>4. Bad = {}
    <2> SUFFICES ASSUME Bad # {} PROVE FALSE
      OBVIOUS
    <2>1. PICK m \in Bad : \A t \in Bad : m <= t
      <3>1. Bad \subseteq Nat
        BY Fat32Assumption
      <3> HIDE DEF Bad
      <3> QED
        BY <3>1, Least
    <2>2. m \in 0 .. TotalClusters /\ ~P(m)
      OBVIOUS
    <2>3. m # 0
      <3>0. 0 \in 0 .. TotalClusters
        BY Fat32Assumption
      <3>1. f[0] = {Root}
        BY <1>3, <3>0, Zenon
      <3>2. Cardinality({Root}) = 1
        BY FS_Singleton
      <3>3. P(0)
        BY <3>1, <3>2, <1>1
      <3> HIDE DEF P
      <3> QED
        BY <3>3, <2>2
    <2>4. m - 1 \in 0 .. TotalClusters /\ m - 1 \notin Bad
      BY <2>1, <2>2, <2>3, Fat32Assumption
    <2>5. P(m - 1)
      BY <2>4
    <2>6. f[m] = f[m - 1] \union AddedTo(d, f[m - 1])
      BY <1>3, <2>2, <2>3
    <2>7. CASE IsClosed(d, f[m - 1])
      <3>1. f[m] = f[m - 1]
        BY <2>6, <2>7, ClosedAdds
      <3> QED
        BY <2>2, <2>5, <2>7, <3>1
    <2>8. CASE ~IsClosed(d, f[m - 1])
      <3>1. PICK c \in AddedTo(d, f[m - 1]) : c \notin f[m - 1]
        BY <2>8, ClosedAdds
      <3>2. AddedTo(d, f[m - 1]) \subseteq Dirs
        BY <2>5, <1>1, ClosedAdds
      <3>3. f[m] \subseteq Dirs /\ Root \in f[m]
        BY <2>5, <2>6, <3>2
      <3>4. IsFiniteSet(f[m]) /\ IsFiniteSet(f[m - 1])
        BY <3>3, <2>5, RootCluster, FS_Subset
      <3>5. f[m - 1] \union {c} \subseteq f[m]
        BY <2>6, <3>1
      <3>6. Cardinality(f[m - 1] \union {c}) = Cardinality(f[m - 1]) + 1
        BY <3>4, <3>1, FS_AddElement
      <3>7. Cardinality(f[m - 1] \union {c}) <= Cardinality(f[m])
        BY <3>4, <3>5, FS_Subset
      <3>8. Cardinality(f[m - 1]) \in Nat /\ Cardinality(f[m]) \in Nat
        BY <3>4, FS_CardinalityType
      <3>9. Cardinality(f[m - 1]) > m - 1
        BY <2>5, <2>8
      <3>10. Cardinality(f[m]) > m
        BY <2>2, <3>6, <3>7, <3>8, <3>9
      <3> QED
        BY <2>2, <3>3, <3>10
    <2> QED
      BY <2>7, <2>8
  <1>5. TotalClusters \in 0 .. TotalClusters
    BY Fat32Assumption
  <1>6. P(TotalClusters)
    BY <1>4, <1>5
  <1>7. ~(Cardinality(f[TotalClusters]) > TotalClusters)
    <2>1. f[TotalClusters] \subseteq Clusters
      BY <1>6
    <2>2. Cardinality(f[TotalClusters]) <= Cardinality(Clusters) /\ IsFiniteSet(f[TotalClusters])
      BY <2>1, RootCluster, FS_Subset
    <2>3. Cardinality(f[TotalClusters]) \in Nat
      BY <2>2, FS_CardinalityType
    <2> QED
      BY <2>2, <2>3, RootCluster, Fat32Assumption
  <1> QED
    BY <1>2, <1>3, <1>6, <1>7

-----------------------------------------------------------------------------
(* Types.                                                                   *)

(* A call is between its directory scan and its directory write.            *)
InCall == pc \in {"free", "alloc", "link", "data", "entry"}

(* The types of the volume; the root's entry in the FAT is never freed and  *)
(* never linked to.                                                         *)
VolOK ==
    /\ fat1 \in [Clusters -> FatValues] /\ fat2 \in [Clusters -> FatValues]
    /\ disk \in [Clusters -> Contents]
    /\ fat1[Root] # FREE /\ \A c \in Clusters : fat1[c] # Root
    /\ GoodDirs(disk)

(* The free counts and the bounded counters.                                *)
CountsOK ==
    /\ fsinfo \in Nat \union {UNKNOWN} /\ g_free_clusters \in Nat \union {UNKNOWN}
    /\ calls \in 0 .. MaxCalls /\ faults \in 0 .. MaxFaults

(* The observations.                                                        *)
FlagsOK ==
    /\ freed \in BOOLEAN /\ broken \in BOOLEAN /\ opfault \in BOOLEAN
    /\ damage \in BOOLEAN /\ clean \in BOOLEAN

(* The call and its arguments, with what each stage knows of them.          *)
CallOK ==
    /\ pc \in {"off", "idle", "free", "alloc", "link", "data", "entry", "fsinfo"}
    /\ op \in {"none", "write", "mkdir", "delete", "rmdir"}
    /\ parent \in Clusters /\ name \in Names \union {NONAME}
    /\ data \in Data \union {LOST} /\ size \in 0 .. MaxSize + 1
    /\ copy \in [Names -> Entries] /\ \A n \in Names : GoodEntry(copy[n])
    /\ pc \in {"off", "idle"} => op = "none" /\ ~freed /\ ~broken /\ ~opfault
    /\ pc \notin {"off", "idle"} => name \in Names
    /\ pc = "free" => op \in {"write", "delete", "rmdir"}
    /\ pc \in {"alloc", "link", "data"} => op \in {"write", "mkdir"}
    /\ pc = "entry" => op # "none"
    /\ op = "write" => size <= MaxSize /\ data \in Data
    /\ op = "mkdir" => size = 1 /\ ~freed
    /\ op \in {"delete", "rmdir"} => size = 0

(* The chain that is being built: prev and first are set as soon as a       *)
(* cluster has been written, and the loop of fat32_allocate_cluster starts  *)
(* over unless an operation of the call failed.                             *)
BuildOK ==
    /\ victim \in FatValues
    /\ scan \in 2 .. TotalClusters + 2
    /\ first \in Clusters \union {0} /\ prev \in Clusters \union {0}
    /\ cluster \in Clusters \union {0} /\ index \in 0 .. MaxSize + 1
    /\ victim # Root /\ first # Root /\ prev # Root /\ cluster # Root
    /\ pc \in {"off", "idle", "free"} =>
         index = 0 /\ first = 0 /\ prev = 0 /\ scan = 2 /\ ~broken
    /\ pc \in {"alloc", "link", "data"} => index < size
    /\ pc \in {"alloc", "link", "data", "entry"} => (prev = 0 <=> index = 0)
    /\ pc = "alloc" => (first = 0 <=> index = 0)
    /\ pc = "link" => prev \in Clusters
    /\ pc \in {"link", "data"} => first \in Clusters /\ cluster \in Clusters
    /\ pc = "entry" => index = size /\ (first = 0 <=> size = 0)
    /\ ~opfault => scan = 2

(* The inductive invariant behind TypeOK.                                   *)
TypeInv == VolOK /\ CountsOK /\ FlagsOK /\ CallOK /\ BuildOK

(* FREE and EOC are no cluster numbers.                                     *)
LEMMA Marks == /\ FREE \notin Clusters /\ EOC \notin Clusters /\ FREE # EOC
               /\ 0 \notin Clusters
               /\ \A c \in Clusters : c # 0
BY DEF FREE, EOC, Clusters

(* A cluster that holds a directory has a map of entries.                   *)
LEMMA DirContents ==
    ASSUME NEW d \in [Clusters -> Contents], NEW c \in Clusters, DirIn(d, c)
    PROVE  d[c].ents \in [Names -> Entries] /\ d[c] = Dir(d[c].ents)
  <1>1. d[c] \in Contents /\ d[c].kind = "dir"
    BY DEF DirIn
  <1>2. d[c] \in [kind : {"dir"}, ents : [Names -> Entries]]
    BY <1>1 DEF Contents, Blank
  <1> QED
    BY <1>2 DEF Dir

(* What an empty directory holds is well typed.                             *)
LEMMA Entryless == NoEntry \in Entries /\ EmptyDir \in [Names -> Entries]
                   /\ GoodEntry(NoEntry) /\ \A n \in Names : GoodEntry(EmptyDir[n])
  BY Fat32Assumption, RootCluster, Marks DEF NoEntry, Entries, EmptyDir, GoodEntry, Root

(* A map of entries makes a directory.                                      *)
LEMMA DirIsContents ==
    ASSUME NEW e \in [Names -> Entries]
    PROVE  Dir(e) \in Contents /\ Dir(e).kind = "dir" /\ Dir(e).ents = e
  BY DEF Dir, Contents

(* Init establishes TypeInv ...                                             *)
LEMMA InitType == Init => TypeInv
  <1> SUFFICES ASSUME Init PROVE TypeInv
    OBVIOUS
  <1> USE DEF Init
  <1>1. VolOK
    <2>1. FormattedFat \in [Clusters -> FatValues] /\ FormattedFat[Root] # FREE
          /\ \A c \in Clusters : FormattedFat[c] # Root
      BY RootCluster, Marks DEF FormattedFat, FatValues, FREE, EOC, Root
    <2>2. fat2 \in [Clusters -> FatValues]
      BY DEF FatValues
    <2> DEFINE b == [c \in Clusters |-> Blank]
    <2>3. b \in [Clusters -> Contents] /\ \A c \in Clusters : ~DirIn(b, c)
      BY DEF Contents, Blank, DirIn
    <2>4. disk = [b EXCEPT ![Root] = Dir(EmptyDir)]
      BY DEF FormattedDisk
    <2> HIDE DEF b
    <2>5. disk \in [Clusters -> Contents] /\ GoodDirs(disk)
      <3>1. Dir(EmptyDir) \in Contents /\ Dir(EmptyDir).kind = "dir" /\ Dir(EmptyDir).ents = EmptyDir
        BY DirIsContents, Entryless
      <3> QED
        BY <2>3, <2>4, <3>1, Entryless, RootCluster DEF GoodDirs, DirIn
    <2> QED
      BY <2>1, <2>2, <2>5 DEF VolOK
  <1>2. CountsOK
    BY Fat32Assumption DEF CountsOK
  <1>3. FlagsOK
    BY DEF FlagsOK
  <1>4. CallOK
    BY Fat32Assumption, RootCluster, Entryless DEF CallOK
  <1>5. BuildOK
    BY Fat32Assumption, RootCluster DEF BuildOK, FatValues, EOC, Root
  <1> QED
    BY <1>1, <1>2, <1>3, <1>4, <1>5 DEF TypeInv

(* ... which implies TypeOK.                                                *)
LEMMA TypeInvTypeOK == TypeInv => TypeOK
  BY DEF TypeInv, VolOK, CountsOK, FlagsOK, CallOK, BuildOK, TypeOK

-----------------------------------------------------------------------------
(* No cycles.                                                               *)

(* What is inductive about the FAT alone.                                   *)
IInv == ChainInv /\ ChainsAcyclic

(* Storing an end mark, or freeing an entry, makes no cycle.                *)
LEMMA MarkAcyclic ==
    ASSUME fat1 \in [Clusters -> FatValues], ChainsAcyclic,
           NEW c \in Clusters, NEW v \in {FREE, EOC},
           fat1' = [fat1 EXCEPT ![c] = v] \/ fat1' = fat1
    PROVE  ChainsAcyclic' /\ fat1' \in [Clusters -> FatValues]
<1>1. ASSUME NEW S \in SUBSET Clusters, S # {}
      PROVE  \E d \in S : fat1'[d] \notin S
  <2>1. CASE c \in S /\ fat1' # fat1
    <3>1. fat1'[c] = v
      BY <2>1
    <3> QED BY <2>1, <3>1, Marks
  <2>2. CASE c \notin S \/ fat1' = fat1
    <3>1. PICK d \in S : fat1[d] \notin S
      BY <1>1 DEF ChainsAcyclic
    <3>2. fat1'[d] = fat1[d]
      BY <2>2, <3>1
    <3> QED BY <3>1, <3>2
  <2> QED BY <2>1, <2>2
<1>2. fat1' \in [Clusters -> FatValues]
  BY DEF FatValues
<1> QED BY <1>1, <1>2 DEF ChainsAcyclic

(* Neither does a link to a cluster whose entry is the end mark.            *)
LEMMA LinkAcyclic ==
    ASSUME fat1 \in [Clusters -> FatValues], ChainsAcyclic,
           NEW c \in Clusters, NEW d \in Clusters, c # d, fat1[d] = EOC,
           fat1' = [fat1 EXCEPT ![c] = d] \/ fat1' = fat1
    PROVE  /\ ChainsAcyclic' /\ fat1' \in [Clusters -> FatValues]
           /\ fat1'[d] = EOC
<1>0. fat1'[d] = EOC
  OBVIOUS
<1>1. ASSUME NEW S \in SUBSET Clusters, S # {}
      PROVE  \E e \in S : fat1'[e] \notin S
  <2>1. CASE d \in S
    BY <2>1, <1>0, Marks
  <2>2. CASE d \notin S
    <3>1. PICK e \in S : fat1[e] \notin S
      BY <1>1 DEF ChainsAcyclic
    <3>2. fat1'[e] \notin S
      BY <2>2, <3>1
    <3> QED BY <3>2
  <2> QED BY <2>1, <2>2
<1>2. fat1' \in [Clusters -> FatValues]
  BY DEF FatValues
<1> QED BY <1>0, <1>1, <1>2 DEF ChainsAcyclic

(* A freshly formatted FAT has no links at all.                             *)
LEMMA FormattedAcyclic ==
    /\ FormattedFat \in [Clusters -> FatValues]
    /\ \A S \in SUBSET Clusters : S # {} => \E c \in S : FormattedFat[c] \notin S
<1>1. \A c \in Clusters : FormattedFat[c] \in {FREE, EOC}
  BY DEF FormattedFat
<1> QED BY <1>1, Marks DEF FormattedFat, FatValues

(* Init establishes it ...                                                  *)
LEMMA InitIInv == Init => IInv
BY FormattedAcyclic DEF Init, IInv, ChainInv, ChainsAcyclic

(* ... and every step keeps it: what the step does to the FAT is nothing, a *)
(* mark or a link.                                                          *)
LEMMA StepIInv == IInv /\ [Next]_vars => IInv'
<1> SUFFICES ASSUME IInv, [Next]_vars PROVE IInv'
  OBVIOUS
<1> USE DEF IInv
<1>1. CASE UNCHANGED vars
  BY <1>1 DEF vars, volume, chain, ChainInv, ChainsAcyclic
(* What a step does to the FAT: nothing, a mark, or a link.                 *)
<1>2. ASSUME fat1' = fat1 PROVE ChainsAcyclic' /\ fat1' \in [Clusters -> FatValues]
  BY <1>2 DEF ChainsAcyclic, ChainInv
<1>3. ASSUME NEW c \in Clusters, NEW v \in {FREE, EOC}, NEW ok,
             fat32_set_next_cluster(c, v, ok)
      PROVE  ChainsAcyclic' /\ fat1' \in [Clusters -> FatValues]
  BY <1>3, MarkAcyclic DEF fat32_set_next_cluster, ChainInv
<1>4. ASSUME NoCall PROVE prev' = 0
  BY <1>4 DEF NoCall
<1>5. CASE fat32_init
  BY <1>5, <1>2 DEF fat32_init, volume, chain, ChainInv
<1>6. ASSUME NEW stage \in FormatStages, fat32_format(stage) PROVE IInv'
  <2>1. CASE fat1' = fat1
    BY <1>6, <1>2, <2>1 DEF fat32_format, chain, ChainInv
  <2>2. CASE fat1' = FormattedFat
    <3>1. ChainsAcyclic' /\ fat1' \in [Clusters -> FatValues]
      BY <2>2, FormattedAcyclic DEF ChainsAcyclic
    <3> QED BY <1>6, <3>1 DEF fat32_format, chain, ChainInv
  <2> QED BY <1>6, <2>1, <2>2 DEF fat32_format
<1>7. CASE Crash
  BY <1>7, <1>2, <1>4 DEF Crash, volume, ChainInv
<1>8. ASSUME NEW p, NEW n, NEW d, NEW s, fat32_write_file_in(p, n, d, s) PROVE IInv'
  BY <1>8, <1>2 DEF fat32_write_file_in, Call, volume, chain, ChainInv
<1>9. ASSUME NEW p, NEW n, fat32_create_directory_in(p, n) PROVE IInv'
  BY <1>9, <1>2 DEF fat32_create_directory_in, Call, volume, chain, ChainInv
<1>10. ASSUME NEW n, fat32_delete_file(n) PROVE IInv'
  BY <1>10, <1>2 DEF fat32_delete_file, Call, volume, chain, ChainInv
<1>11. ASSUME NEW p, NEW n, fat32_delete_directory_in(p, n) PROVE IInv'
  BY <1>11, <1>2 DEF fat32_delete_directory_in, Call, volume, chain, ChainInv
<1>12. CASE fat32_free_cluster
  <2>1. PICK ok \in BOOLEAN : fat32_set_next_cluster(victim, FREE, ok)
    BY <1>12 DEF fat32_free_cluster
  <2>2. ChainsAcyclic' /\ fat1' \in [Clusters -> FatValues]
    BY <1>3, <1>12, <2>1 DEF fat32_free_cluster
  <2> QED BY <1>12, <2>2 DEF fat32_free_cluster, chain, ChainInv
<1>13. CASE FreeDone
  BY <1>13, <1>2 DEF FreeDone, volume, chain, ChainInv
<1>14. ASSUME NEW c \in Clusters, AllocTake(c) PROVE IInv'
  <2>1. fat32_set_next_cluster(c, EOC, TRUE) /\ fat1[c] = FREE /\ pc = "alloc"
    BY <1>14 DEF AllocTake, Taken, IsNextFree, FreeFrom
  <2>2. ChainsAcyclic' /\ fat1' \in [Clusters -> FatValues]
    BY <1>3, <2>1
  <2>3. fat1'[c] = EOC
    BY <2>1 DEF fat32_set_next_cluster, ChainInv
  <2>4. prev # 0 => prev # c
    BY <2>1 DEF ChainInv
  <2> QED BY <1>14, <2>1, <2>2, <2>3, <2>4, Marks DEF AllocTake, Taken, ChainInv
<1>15. ASSUME NEW c \in Clusters, AllocSkip(c) PROVE IInv'
  <2>1. fat32_set_next_cluster(c, EOC, FALSE) /\ fat1[c] = FREE /\ pc = "alloc"
    BY <1>15 DEF AllocSkip, IsNextFree, FreeFrom
  <2>2. ChainsAcyclic' /\ fat1' \in [Clusters -> FatValues]
    BY <1>3, <2>1
  <2>3. prev # 0 => fat1'[prev] # FREE
    BY <2>1 DEF fat32_set_next_cluster, ChainInv
  <2> QED BY <1>15, <2>1, <2>2, <2>3 DEF AllocSkip, ChainInv
<1>16. CASE AllocFull
  BY <1>16, <1>2, <1>4 DEF AllocFull, Fail, ChainInv
<1>17. CASE Link
  <2>1. PICK ok \in BOOLEAN : fat32_set_next_cluster(prev, cluster, ok)
    BY <1>17 DEF Link
  <2>2. /\ prev \in Clusters /\ cluster \in Clusters
        /\ cluster # prev /\ fat1[cluster] = EOC
    BY <1>17 DEF Link, ChainInv
  <2>3. /\ ChainsAcyclic' /\ fat1' \in [Clusters -> FatValues]
        /\ fat1'[cluster] = EOC
    BY <2>1, <2>2, LinkAcyclic DEF fat32_set_next_cluster, ChainInv
  <2> QED BY <1>17, <2>2, <2>3, Marks DEF Link, chain, ChainInv
<1>18. CASE DataWritten
  BY <1>18, <1>2, Marks DEF DataWritten, ChainInv
<1>19. CASE DataFailed
  <2>1. ChainsAcyclic' /\ fat1' \in [Clusters -> FatValues]
    <3>1. cluster \in Clusters
      BY <1>19 DEF DataFailed, ChainInv
    <3>2. CASE UNCHANGED <<fat1, fat2, g_free_clusters>>
      BY <3>2, <1>2
    <3>3. CASE fat32_set_next_cluster(cluster, FREE, TRUE)
      BY <3>1, <3>3, <1>3
    <3>4. CASE fat32_set_next_cluster(cluster, FREE, FALSE)
      BY <3>1, <3>4, <1>3
    <3> QED BY <1>19, <3>2, <3>3, <3>4 DEF DataFailed
  <2> QED BY <1>19, <2>1, <1>4 DEF DataFailed, Fail, ChainInv
<1>20. CASE EntryWritten
  BY <1>20, <1>2 DEF EntryWritten, chain, ChainInv
<1>21. CASE EntryFailed
  BY <1>21, <1>2, <1>4 DEF EntryFailed, Fail, ChainInv
<1>22. CASE fat32_update_fsinfo
  BY <1>22, <1>2, <1>4 DEF fat32_update_fsinfo, ChainInv
<1> QED
  BY <1>1, <1>5, <1>6, <1>7, <1>8, <1>9, <1>10, <1>11, <1>12, <1>13, <1>14,
     <1>15, <1>16, <1>17, <1>18, <1>19, <1>20, <1>21, <1>22 DEF Next

-----------------------------------------------------------------------------
(* Every step keeps the types.                                              *)

(* The two halves of VolOK.                                                 *)
FatOK == /\ fat1 \in [Clusters -> FatValues] /\ fat2 \in [Clusters -> FatValues]
         /\ fat1[Root] # FREE /\ \A c \in Clusters : fat1[c] # Root
DiskOK == disk \in [Clusters -> Contents] /\ GoodDirs(disk)

(* fat32_set_next_cluster keeps the first ...                               *)
LEMMA SetNext ==
    ASSUME FatOK, NEW c \in Clusters, c # Root, NEW v \in FatValues, v # Root, NEW ok,
           fat32_set_next_cluster(c, v, ok)
    PROVE  FatOK'
  <1>1. CASE UNCHANGED <<fat1, fat2>>
    BY <1>1 DEF FatOK
  <1>2. CASE fat1' = [fat1 EXCEPT ![c] = v]
    <2>1. fat1' \in [Clusters -> FatValues] /\ fat1'[Root] = fat1[Root]
          /\ \A d \in Clusters : fat1'[d] # Root
      BY <1>2, RootCluster DEF FatOK
    <2>2. fat2' = fat1' \/ fat2' = fat2
      BY DEF fat32_set_next_cluster
    <2> QED
      BY <2>1, <2>2 DEF FatOK
  <1> QED
    BY <1>1, <1>2 DEF fat32_set_next_cluster

(* ... and fat32_write_cluster the second.                                  *)
LEMMA WriteCluster ==
    ASSUME DiskOK, NEW c \in Clusters, NEW x \in Contents, NEW ok,
           x.kind = "dir" => \A n \in Names : GoodEntry(x.ents[n]),
           c = Root => x.kind = "dir",
           fat32_write_cluster(c, x, ok)
    PROVE  DiskOK'
  <1>1. CASE disk' = disk
    BY <1>1 DEF DiskOK
  <1>2. CASE disk' = [disk EXCEPT ![c] = x]
    <2>1. /\ disk' \in [Clusters -> Contents] /\ disk'[c] = x
          /\ \A d \in Clusters \ {c} : disk'[d] = disk[d]
      BY <1>2 DEF DiskOK
    <2> QED
      BY <2>1, RootCluster DEF DiskOK, GoodDirs, DirIn
  <1> QED
    BY <1>1, <1>2 DEF fat32_write_cluster

(* The directory a call is given holds good entries.                        *)
LEMMA CallDirs ==
    ASSUME VolOK, NEW p \in ReachableDirs
    PROVE  /\ p \in Clusters /\ IsDir(p) /\ disk[p].ents \in [Names -> Entries]
           /\ \A n \in Names : GoodEntry(Entry(p, n)) /\ Entry(p, n) \in Entries
  <1>1. p \in Clusters /\ DirIn(disk, p)
    BY ReachIs, ReachDirs DEF VolOK
  <1>2. disk[p].ents \in [Names -> Entries]
    BY <1>1, DirContents DEF VolOK
  <1> QED
    BY <1>1, <1>2 DEF VolOK, GoodDirs, DirIn, IsDir, Entry

(* So do the entry that write_file_in and create_directory_in make, ...     *)
LEMMA NewEntryGood ==
    ASSUME CallOK, BuildOK, pc = "entry", op \in {"write", "mkdir"}
    PROVE  NewEntry \in Entries /\ GoodEntry(NewEntry)
  <1>1. CASE op = "mkdir"
    <2>1. first \in Clusters
      BY <1>1 DEF CallOK, BuildOK
    <2> QED
      BY <1>1, <2>1, Fat32Assumption DEF NewEntry, Entries, GoodEntry, BuildOK
  <1>2. CASE op = "write"
    <2>1. NewEntry.attr = "file" /\ NewEntry.first = first /\ NewEntry.size = size
          /\ NewEntry.what \in Data \union {LOST}
          /\ NewEntry = [attr |-> "file", first |-> first, size |-> size, what |-> NewEntry.what]
      BY <1>2 DEF NewEntry, CallOK
    <2>2. size \in 0 .. MaxSize
      BY <1>2, Fat32Assumption DEF CallOK
    <2> QED
      BY <2>1, <2>2 DEF Entries, GoodEntry, BuildOK
  <1> QED
    BY <1>1, <1>2

(* ... the cluster they and the deletions write back, ...                   *)
LEMMA NewDirectoryGood ==
    ASSUME VolOK, CallOK, BuildOK, pc = "entry"
    PROVE  /\ NewDirectory \in Contents
           /\ NewDirectory.kind = "dir" => \A n \in Names : GoodEntry(NewDirectory.ents[n])
           /\ parent = Root => NewDirectory.kind = "dir"
  <1>0. parent \in Clusters /\ name \in Names
    BY DEF CallOK
  <1>1. CASE op \in {"write", "mkdir"}
    <2> DEFINE e == [copy EXCEPT ![name] = NewEntry]
    <2>1. e \in [Names -> Entries] /\ \A n \in Names : GoodEntry(e[n])
      BY <1>0, <1>1, NewEntryGood DEF CallOK
    <2>2. NewDirectory = Dir(e)
      BY <1>1 DEF NewDirectory
    <2> HIDE DEF e
    <2> QED
      BY <2>1, <2>2, DirIsContents
  <1>2. CASE op \notin {"write", "mkdir"} /\ IsDir(parent)
    <2> DEFINE e == [disk[parent].ents EXCEPT ![name] = NoEntry]
    <2>1. disk[parent].ents \in [Names -> Entries] /\ \A n \in Names : GoodEntry(disk[parent].ents[n])
      BY <1>0, <1>2, DirContents DEF VolOK, GoodDirs, DirIn, IsDir
    <2>2. e \in [Names -> Entries] /\ \A n \in Names : GoodEntry(e[n])
      BY <1>0, <2>1, Entryless
    <2>3. NewDirectory = Dir(e)
      BY <1>2 DEF NewDirectory
    <2> HIDE DEF e
    <2> QED
      BY <2>2, <2>3, DirIsContents
  <1>3. CASE op \notin {"write", "mkdir"} /\ ~IsDir(parent)
    BY <1>0, <1>3 DEF NewDirectory, VolOK, GoodDirs, DirIn, IsDir
  <1> QED
    BY <1>1, <1>2, <1>3

(* ... the clusters of the new chain ...                                    *)
LEMMA NewContentsGood ==
    ASSUME CallOK, BuildOK, pc = "data"
    PROVE  /\ NewContents \in Contents
           /\ NewContents.kind = "dir" => \A n \in Names : GoodEntry(NewContents.ents[n])
  <1>1. CASE op = "mkdir"
    BY <1>1, DirIsContents, Entryless DEF NewContents
  <1>2. CASE op = "write"
    <2>1. data \in Data /\ index \in 0 .. MaxSize
      BY <1>2, Fat32Assumption DEF CallOK, BuildOK
    <2>2. NewContents = Chunk(data, index)
      BY <1>2 DEF NewContents
    <2> QED
      BY <2>1, <2>2 DEF Chunk, Contents
  <1> QED
    BY <1>1, <1>2 DEF CallOK

(* ... and the directory whose entry is observed to have lost its data.     *)
LEMMA MarkLostGood ==
    ASSUME VolOK, CallOK, MarkLost, name \in Names
    PROVE  DiskOK'
  <1>0. parent \in Clusters
    BY DEF CallOK
  <1>1. CASE freed /\ IsDir(parent)
    <2> DEFINE E == disk[parent].ents[name]
               F == [E EXCEPT !.what = LOST]
               e == [disk[parent].ents EXCEPT ![name] = F]
    <2>1. /\ disk[parent].ents \in [Names -> Entries] /\ disk[parent] = Dir(disk[parent].ents)
          /\ \A n \in Names : GoodEntry(disk[parent].ents[n])
      BY <1>0, <1>1, DirContents DEF VolOK, GoodDirs, DirIn, IsDir
    <2>2. F \in Entries /\ F.first = E.first /\ F.attr = E.attr
      BY <2>1 DEF Entries
    <2>3. e \in [Names -> Entries] /\ \A n \in Names : GoodEntry(e[n])
      BY <2>1, <2>2 DEF GoodEntry
    <2>4. disk' = [disk EXCEPT ![parent] = [disk[parent] EXCEPT !.ents = e]]
      BY <1>1 DEF MarkLost
    <2>5. [disk[parent] EXCEPT !.ents = e] = Dir(e)
      <3> HIDE DEF e
      <3> QED
        BY <2>1 DEF Dir
    <2> HIDE DEF e
    <2>6. Dir(e) \in Contents /\ Dir(e).kind = "dir" /\ Dir(e).ents = e
      BY <2>3, DirIsContents
    <2>7. fat32_write_cluster(parent, Dir(e), TRUE)
      BY <2>4, <2>5 DEF fat32_write_cluster
    <2>8. DiskOK
      BY DEF VolOK, DiskOK
    <2> QED
      BY <1>0, <2>3, <2>6, <2>7, <2>8, WriteCluster
  <1>2. CASE ~(freed /\ IsDir(parent))
    BY <1>2 DEF MarkLost, DiskOK, VolOK
  <1> QED
    BY <1>1, <1>2

(* Every step keeps VolOK, ...                                              *)
LEMMA VolStep == TypeInv /\ Next => VolOK'
  <1> SUFFICES ASSUME TypeInv, Next PROVE VolOK'
    OBVIOUS
  <1> SUFFICES FatOK' /\ DiskOK'
    BY DEF FatOK, DiskOK, VolOK
  <1>0. FatOK /\ DiskOK /\ VolOK /\ CallOK /\ BuildOK
    BY DEF TypeInv, VolOK, FatOK, DiskOK
  <1>a. UNCHANGED <<fat1, fat2>> => FatOK'
    BY <1>0 DEF FatOK
  <1>b. UNCHANGED disk => DiskOK'
    BY <1>0 DEF DiskOK
  <1>m. FREE \in FatValues /\ EOC \in FatValues /\ FREE # Root /\ EOC # Root
    BY DEF FatValues, FREE, EOC, Root
  <1>1. CASE fat32_init \/ Crash \/ FreeDone \/ fat32_update_fsinfo
    <2>1. UNCHANGED <<fat1, fat2, disk>>
      BY <1>1 DEF fat32_init, Crash, FreeDone, fat32_update_fsinfo, volume
    <2> QED
      BY <2>1, <1>a, <1>b
  <1>2. ASSUME NEW stage \in FormatStages, fat32_format(stage) PROVE FatOK' /\ DiskOK'
    <2>1. fat1' = fat1 \/ fat1' = FormattedFat
      BY <1>2 DEF fat32_format
    <2>2. fat2' = fat2 \/ fat2' = [c \in Clusters |-> FREE]
      BY <1>2 DEF fat32_format
    <2>3. disk' = disk \/ disk' = [disk EXCEPT ![Root] = Dir(EmptyDir)]
      BY <1>2 DEF fat32_format, FormattedDisk
    <2>4. FormattedFat \in [Clusters -> FatValues] /\ FormattedFat[Root] # FREE
          /\ \A c \in Clusters : FormattedFat[c] # Root
      BY <1>m, RootCluster, Marks DEF FormattedFat
    <2>5. FatOK'
      BY <1>0, <1>m, <2>1, <2>2, <2>4 DEF FatOK
    <2>6. Dir(EmptyDir) \in Contents /\ Dir(EmptyDir).kind = "dir" /\ Dir(EmptyDir).ents = EmptyDir
      BY DirIsContents, Entryless
    <2>7. CASE disk' = [disk EXCEPT ![Root] = Dir(EmptyDir)]
      <3>1. fat32_write_cluster(Root, Dir(EmptyDir), TRUE)
        BY <2>7 DEF fat32_write_cluster
      <3> QED
        BY <1>0, <2>5, <2>6, <3>1, Entryless, RootCluster, WriteCluster
    <2> QED
      BY <1>b, <2>3, <2>5, <2>7
  <1>3. ASSUME NEW o, NEW p, NEW n, NEW d, NEW s, Call(o, p, n, d, s) PROVE FatOK' /\ DiskOK'
    BY <1>3, <1>a, <1>b DEF Call, volume
  <1>4. CASE fat32_free_cluster
    <2>1. PICK ok : fat32_set_next_cluster(victim, FREE, ok)
      BY <1>4 DEF fat32_free_cluster
    <2>2. victim \in Clusters /\ victim # Root /\ UNCHANGED disk
      BY <1>4, <1>0 DEF fat32_free_cluster, BuildOK
    <2> QED
      BY <1>0, <1>b, <1>m, <2>1, <2>2, SetNext
  <1>5. ASSUME NEW c \in Clusters, AllocTake(c) \/ AllocSkip(c) PROVE FatOK' /\ DiskOK'
    <2>1. \E ok : fat32_set_next_cluster(c, EOC, ok)
      BY <1>5 DEF AllocTake, Taken, AllocSkip
    <2>2. fat1[c] = FREE /\ UNCHANGED disk
      BY <1>5 DEF AllocTake, Taken, AllocSkip, IsNextFree, FreeFrom
    <2>3. c # Root
      BY <2>2, <1>0 DEF FatOK
    <2> QED
      BY <1>0, <1>b, <1>m, <2>1, <2>2, <2>3, SetNext
  <1>6. CASE AllocFull
    <2>1. UNCHANGED <<fat1, fat2>> /\ (UNCHANGED disk \/ MarkLost) /\ name \in Names
      BY <1>6, <1>0 DEF AllocFull, CallOK
    <2> QED
      BY <1>0, <1>a, <1>b, <2>1, MarkLostGood
  <1>7. CASE Link
    <2>1. \E ok : fat32_set_next_cluster(prev, cluster, ok)
      BY <1>7 DEF Link
    <2>2. /\ prev \in Clusters /\ prev # Root /\ cluster \in Clusters /\ cluster # Root
          /\ cluster \in FatValues /\ UNCHANGED disk
      BY <1>0, <1>7 DEF Link, BuildOK, FatValues
    <2> QED
      BY <1>0, <1>b, <2>1, <2>2, SetNext
  <1>8. CASE DataWritten \/ DataFailed
    <2>1. cluster \in Clusters /\ cluster # Root /\ pc = "data"
      BY <1>0, <1>8 DEF DataWritten, DataFailed, BuildOK
    <2>2. \E ok : fat32_write_cluster(cluster, NewContents, ok)
      BY <1>8 DEF DataWritten, DataFailed
    <2>3. DiskOK'
      BY <1>0, <2>1, <2>2, NewContentsGood, WriteCluster
    <2>4. UNCHANGED <<fat1, fat2>> \/ \E ok : fat32_set_next_cluster(cluster, FREE, ok)
      BY <1>8 DEF DataWritten, DataFailed
    <2> QED
      BY <1>0, <1>a, <1>m, <2>1, <2>3, <2>4, SetNext
  <1>9. CASE EntryWritten \/ EntryFailed
    <2>1. pc = "entry" /\ parent \in Clusters /\ UNCHANGED <<fat1, fat2>>
      BY <1>0, <1>9 DEF EntryWritten, EntryFailed, CallOK
    <2>2. \E ok : fat32_write_cluster(parent, NewDirectory, ok)
      BY <1>9 DEF EntryWritten, EntryFailed
    <2> QED
      BY <1>0, <1>a, <2>1, <2>2, NewDirectoryGood, WriteCluster
  <1> QED
    BY <1>1, <1>2, <1>3, <1>4, <1>5, <1>6, <1>7, <1>8, <1>9
    DEF Next, fat32_write_file_in, fat32_create_directory_in, fat32_delete_file,
        fat32_delete_directory_in

(* ... CountsOK, ...                                                        *)
LEMMA CountsStep == TypeInv /\ Next => CountsOK'
  <1> SUFFICES ASSUME TypeInv, Next PROVE CountsOK'
    OBVIOUS
  <1>0. CountsOK
    BY DEF TypeInv
  <1>c. /\ Counted => calls' \in 0 .. MaxCalls
        /\ \A ok : Io(ok) => faults' \in 0 .. MaxFaults
    BY <1>0, Fat32Assumption DEF Counted, Io, CountsOK
  <1>f. TotalClusters - 1 \in Nat
    BY Fat32Assumption
  <1>1. CASE fat32_init
    BY <1>0, <1>1, <1>c DEF fat32_init, volume, CountsOK
  <1>2. ASSUME NEW stage \in FormatStages, fat32_format(stage) PROVE CountsOK'
    BY <1>0, <1>2, <1>c, <1>f DEF fat32_format, CountsOK
  <1>3. CASE Crash
    BY <1>0, <1>3, Fat32Assumption DEF Crash, volume, CountsOK
  <1>4. ASSUME NEW o, NEW p, NEW n, NEW d, NEW s, Call(o, p, n, d, s),
               faults' = faults \/ \E ok : Io(ok)
        PROVE  CountsOK'
    BY <1>0, <1>4, <1>c DEF Call, volume, CountsOK
  <1>5. CASE fat32_free_cluster
    BY <1>0, <1>5, <1>c DEF fat32_free_cluster, CountsOK
  <1>6. CASE FreeDone
    BY <1>0, <1>6 DEF FreeDone, volume, observed, CountsOK
  <1>7. ASSUME NEW c \in Clusters, AllocTake(c) PROVE CountsOK'
    <2>1. CountDown \in Nat \union {UNKNOWN}
      BY <1>0 DEF CountDown, CountsOK
    <2> QED
      BY <1>0, <1>7, <2>1 DEF AllocTake, Taken, observed, CountsOK
  <1>8. ASSUME NEW c \in Clusters, AllocSkip(c) PROVE CountsOK'
    BY <1>0, <1>8, <1>c DEF AllocSkip, CountsOK
  <1>9. CASE AllocFull
    BY <1>0, <1>9 DEF AllocFull, CountsOK
  <1>10. CASE Link
    BY <1>0, <1>10, <1>c DEF Link, CountsOK
  <1>11. CASE DataWritten
    BY <1>0, <1>11 DEF DataWritten, observed, CountsOK
  <1>12. CASE DataFailed
    <2>1. g_free_clusters' \in {g_free_clusters, IF g_free_clusters # UNKNOWN
                                      THEN g_free_clusters + 1 ELSE g_free_clusters}
      BY <1>12 DEF DataFailed
    <2>2. g_free_clusters' \in Nat \union {UNKNOWN}
      BY <1>0, <2>1 DEF CountsOK
    <2> QED
      BY <1>0, <1>12, <1>c, <2>2 DEF DataFailed, CountsOK
  <1>13. CASE EntryWritten
    BY <1>0, <1>13 DEF EntryWritten, CountsOK
  <1>14. CASE EntryFailed
    BY <1>0, <1>14, <1>c DEF EntryFailed, CountsOK
  <1>15. CASE fat32_update_fsinfo
    BY <1>0, <1>15, <1>c DEF fat32_update_fsinfo, CountsOK
  <1> QED
    BY <1>1, <1>2, <1>3, <1>4, <1>5, <1>6, <1>7, <1>8, <1>9, <1>10, <1>11, <1>12,
       <1>13, <1>14, <1>15
    DEF Next, fat32_write_file_in, fat32_create_directory_in, fat32_delete_file,
        fat32_delete_directory_in

(* ... FlagsOK, ...                                                         *)
LEMMA FlagsStep == TypeInv /\ Next => FlagsOK'
  <1> SUFFICES ASSUME TypeInv, Next PROVE FlagsOK'
    OBVIOUS
  <1>0. FlagsOK
    BY DEF TypeInv
  <1>n. NoCall => (freed' \in BOOLEAN /\ broken' \in BOOLEAN /\ opfault' \in BOOLEAN)
    BY DEF NoCall
  <1>1. CASE fat32_init
    BY <1>0, <1>1, Zenon DEF fat32_init, FlagsOK
  <1>2. ASSUME NEW stage \in FormatStages, fat32_format(stage) PROVE FlagsOK'
    BY <1>0, <1>2, Zenon DEF fat32_format, FlagsOK
  <1>3. CASE Crash
    BY <1>0, <1>n, <1>3, Zenon DEF Crash, FlagsOK
  <1>4. ASSUME NEW o, NEW p, NEW n, NEW d, NEW s, Call(o, p, n, d, s),
               UNCHANGED <<opfault, clean>> \/ (opfault' \in BOOLEAN /\ clean' \in BOOLEAN)
        PROVE  FlagsOK'
    BY <1>0, <1>4, Zenon DEF Call, FlagsOK
  <1>5. CASE fat32_free_cluster
    BY <1>0, <1>5, Zenon DEF fat32_free_cluster, FlagsOK
  <1>6. CASE FreeDone
    BY <1>0, <1>6, Zenon DEF FreeDone, observed, FlagsOK
  <1>7. ASSUME NEW c \in Clusters, AllocTake(c) PROVE FlagsOK'
    BY <1>0, <1>7, Zenon DEF AllocTake, Taken, observed, FlagsOK
  <1>8. ASSUME NEW c \in Clusters, AllocSkip(c) PROVE FlagsOK'
    BY <1>0, <1>8, Zenon DEF AllocSkip, FlagsOK
  <1>9. CASE AllocFull
    BY <1>0, <1>n, <1>9, Zenon DEF AllocFull, Fail, FlagsOK
  <1>10. CASE Link
    BY <1>0, <1>10, Zenon DEF Link, FlagsOK
  <1>11. CASE DataWritten
    BY <1>0, <1>11, Zenon DEF DataWritten, observed, FlagsOK
  <1>12. CASE DataFailed
    BY <1>0, <1>n, <1>12, Zenon DEF DataFailed, Fail, FlagsOK
  <1>13. CASE EntryWritten
    BY <1>0, <1>13, Zenon DEF EntryWritten, FlagsOK
  <1>14. CASE EntryFailed
    BY <1>0, <1>n, <1>14, Zenon DEF EntryFailed, Fail, FlagsOK
  <1>15. CASE fat32_update_fsinfo
    BY <1>0, <1>n, <1>15, Zenon DEF fat32_update_fsinfo, FlagsOK
  <1>16. ASSUME NEW p, NEW n, fat32_delete_directory_in(p, n)
         PROVE  opfault' \in BOOLEAN /\ clean' \in BOOLEAN
    BY <1>0, <1>16, Zenon DEF fat32_delete_directory_in, FlagsOK
  <1>17. ASSUME NEW p, NEW n, fat32_delete_directory_in(p, n) PROVE FlagsOK'
    BY <1>4, <1>16, <1>17 DEF fat32_delete_directory_in
  <1> QED
    BY <1>1, <1>2, <1>3, <1>4, <1>5, <1>6, <1>7, <1>8, <1>9, <1>10, <1>11, <1>12,
       <1>13, <1>14, <1>15, <1>17
    DEF Next, fat32_write_file_in, fat32_create_directory_in, fat32_delete_file

(* ... CallOK ...                                                           *)
LEMMA CallStep == TypeInv /\ Next => CallOK'
  <1> SUFFICES ASSUME TypeInv, Next PROVE CallOK'
    OBVIOUS
  <1>0. CallOK /\ BuildOK /\ VolOK
    BY DEF TypeInv
  <1>n. ASSUME NoCall, pc' \in {"off", "idle"} PROVE CallOK'
    BY <1>n, RootCluster, Entryless, Fat32Assumption DEF NoCall, CallOK
  <1>1. CASE fat32_init
    BY <1>0, <1>1 DEF fat32_init, args, CallOK
  <1>2. ASSUME NEW stage \in FormatStages, fat32_format(stage) PROVE CallOK'
    BY <1>0, <1>2 DEF fat32_format, args, CallOK
  <1>3. CASE Crash
    BY <1>3, <1>n DEF Crash
  <1>4. ASSUME NEW p \in ReachableDirs, NEW n \in Names, NEW o, NEW d, NEW s, pc = "idle", pc' # pc,
               Call(o, p, n, d, s), opfault' = FALSE \/ pc' \notin {"off", "idle"},
               \/ o = "write" /\ d \in Data /\ s \in 0 .. MaxSize /\ pc' \in {"free", "alloc", "entry"}
               \/ o = "mkdir" /\ d = LOST /\ s = 1 /\ pc' = "alloc"
               \/ o \in {"delete", "rmdir"} /\ d = LOST /\ s = 0 /\ pc' = "free"
        PROVE  CallOK'
    <2>1. /\ p \in Clusters /\ disk[p].ents \in [Names -> Entries]
          /\ \A m \in Names : GoodEntry(disk[p].ents[m])
      BY <1>0, CallDirs DEF Entry
    <2>2. ~freed
      BY <1>0, <1>4 DEF CallOK
    <2>3. s \in 0 .. MaxSize + 1
      BY <1>4, Fat32Assumption
    <2> QED
      BY <1>4, <2>1, <2>2, <2>3 DEF Call, CallOK
  <1>5. CASE fat32_free_cluster
    BY <1>0, <1>5 DEF fat32_free_cluster, args, CallOK
  <1>6. CASE FreeDone
    BY <1>0, <1>6 DEF FreeDone, args, observed, CallOK
  <1>7. ASSUME NEW c \in Clusters, AllocTake(c) PROVE CallOK'
    BY <1>0, <1>7 DEF AllocTake, Taken, args, observed, CallOK
  <1>8. ASSUME NEW c \in Clusters, AllocSkip(c) PROVE CallOK'
    BY <1>0, <1>8 DEF AllocSkip, args, CallOK
  <1>9. CASE AllocFull
    BY <1>n, <1>9 DEF AllocFull, Fail
  <1>10. CASE Link
    BY <1>0, <1>10 DEF Link, args, CallOK
  <1>11. CASE DataWritten
    BY <1>0, <1>11 DEF DataWritten, args, observed, CallOK
  <1>12. CASE DataFailed
    BY <1>n, <1>12 DEF DataFailed, Fail
  <1>13. CASE EntryWritten
    BY <1>0, <1>13 DEF EntryWritten, args, CallOK
  <1>14. CASE EntryFailed
    BY <1>n, <1>14 DEF EntryFailed, Fail
  <1>15. CASE fat32_update_fsinfo
    BY <1>n, <1>15 DEF fat32_update_fsinfo
  <1>16. ASSUME NEW p \in ReachableDirs, NEW n \in Names, NEW d \in Data, NEW s \in 0 .. MaxSize,
                fat32_write_file_in(p, n, d, s)
         PROVE  CallOK'
    BY <1>4, <1>16 DEF fat32_write_file_in
  <1>17. ASSUME NEW p \in ReachableDirs, NEW n \in Names, fat32_create_directory_in(p, n) PROVE CallOK'
    BY <1>4, <1>17 DEF fat32_create_directory_in
  <1>18. ASSUME NEW n \in Names, fat32_delete_file(n) PROVE CallOK'
    <2>1. Root \in ReachableDirs
      BY <1>0, ReachIs, ReachDirs DEF VolOK
    <2> QED
      BY <1>4, <1>18, <2>1 DEF fat32_delete_file
  <1>19. ASSUME NEW p \in ReachableDirs, NEW n \in Names, fat32_delete_directory_in(p, n) PROVE CallOK'
    BY <1>4, <1>19 DEF fat32_delete_directory_in
  <1> QED
    BY <1>1, <1>2, <1>3, <1>5, <1>6, <1>7, <1>8, <1>9, <1>10, <1>11, <1>12,
       <1>13, <1>14, <1>15, <1>16, <1>17, <1>18, <1>19
    DEF Next

(* ... and BuildOK.                                                         *)
LEMMA BuildStep == TypeInv /\ Next => BuildOK'
  <1> SUFFICES ASSUME TypeInv, Next PROVE BuildOK'
    OBVIOUS
  <1>0. CallOK /\ BuildOK /\ VolOK
    BY DEF TypeInv
  <1>m. FREE \in FatValues /\ EOC \in FatValues /\ FREE # Root /\ EOC # Root
    BY DEF FatValues, FREE, EOC, Root
  <1>n. ASSUME NoCall, pc' \in {"off", "idle"} PROVE BuildOK'
    BY <1>n, <1>m, RootCluster, Marks, Fat32Assumption DEF NoCall, BuildOK
  <1>1. CASE fat32_init
    BY <1>0, <1>1 DEF fat32_init, chain, BuildOK
  <1>2. ASSUME NEW stage \in FormatStages, fat32_format(stage) PROVE BuildOK'
    BY <1>0, <1>2 DEF fat32_format, chain, args, BuildOK
  <1>3. CASE Crash
    BY <1>3, <1>n DEF Crash
  <1>4. ASSUME NEW p \in ReachableDirs, NEW n \in Names, NEW o, NEW d, NEW s, pc = "idle",
               Call(o, p, n, d, s),
               victim' = victim \/ victim' = Entry(p, n).first,
               pc' = "free" \/ (pc' = "entry" /\ s = 0) \/ (pc' = "alloc" /\ s \in Nat /\ s # 0)
        PROVE  BuildOK'
    <2>1. victim' \in FatValues /\ victim' # Root
      BY <1>0, <1>4, CallDirs, Marks DEF Entries, GoodEntry, BuildOK, FatValues, FREE
    <2> QED
      BY <1>0, <1>4, <2>1 DEF Call, chain, BuildOK
  <1>5. CASE fat32_free_cluster
    <2>1. victim' \in FatValues /\ victim' # Root
      BY <1>0, <1>5, <1>m DEF fat32_free_cluster, NextVictim, VolOK
    <2> QED
      BY <1>0, <1>5, <2>1 DEF fat32_free_cluster, chain, args, BuildOK
  <1>6. CASE FreeDone
    BY <1>0, <1>6, Fat32Assumption DEF FreeDone, args, chain, observed, BuildOK, CallOK
  <1>7. ASSUME NEW c \in Clusters, AllocTake(c) PROVE BuildOK'
    <2>1. c # Root
      BY <1>0, <1>7 DEF AllocTake, Taken, IsNextFree, FreeFrom, VolOK
    <2> QED
      BY <1>0, <1>7, <2>1, Marks, Fat32Assumption DEF AllocTake, Taken, args, observed, BuildOK
  <1>8. ASSUME NEW c \in Clusters, AllocSkip(c) PROVE BuildOK'
    <2>1. scan' \in 2 .. TotalClusters + 2
      BY <1>8, Fat32Assumption DEF AllocSkip, Clusters
    <2> QED
      BY <1>0, <1>8, <2>1 DEF AllocSkip, args, BuildOK
  <1>9. CASE AllocFull
    BY <1>n, <1>9 DEF AllocFull, Fail
  <1>10. CASE Link
    BY <1>0, <1>10 DEF Link, args, chain, BuildOK
  <1>11. CASE DataWritten
    BY <1>0, <1>11, Marks, Fat32Assumption DEF DataWritten, args, observed, BuildOK, CallOK
  <1>12. CASE DataFailed
    BY <1>n, <1>12 DEF DataFailed, Fail
  <1>13. CASE EntryWritten
    BY <1>0, <1>13 DEF EntryWritten, args, chain, BuildOK
  <1>14. CASE EntryFailed
    BY <1>n, <1>14 DEF EntryFailed, Fail
  <1>15. CASE fat32_update_fsinfo
    BY <1>n, <1>15 DEF fat32_update_fsinfo
  <1>16. ASSUME NEW p \in ReachableDirs, NEW n \in Names, NEW d \in Data, NEW s \in 0 .. MaxSize,
                fat32_write_file_in(p, n, d, s)
         PROVE  BuildOK'
    BY <1>4, <1>16 DEF fat32_write_file_in
  <1>17. ASSUME NEW p \in ReachableDirs, NEW n \in Names, fat32_create_directory_in(p, n) PROVE BuildOK'
    BY <1>4, <1>17 DEF fat32_create_directory_in
  <1>18. ASSUME NEW n \in Names, fat32_delete_file(n) PROVE BuildOK'
    <2>1. Root \in ReachableDirs
      BY <1>0, ReachIs, ReachDirs DEF VolOK
    <2> QED
      BY <1>4, <1>18, <2>1 DEF fat32_delete_file
  <1>19. ASSUME NEW p \in ReachableDirs, NEW n \in Names, fat32_delete_directory_in(p, n) PROVE BuildOK'
    BY <1>4, <1>19 DEF fat32_delete_directory_in
  <1> QED
    BY <1>1, <1>2, <1>3, <1>5, <1>6, <1>7, <1>8, <1>9, <1>10, <1>11, <1>12,
       <1>13, <1>14, <1>15, <1>16, <1>17, <1>18, <1>19
    DEF Next

-----------------------------------------------------------------------------
(* The owners of the clusters.                                              *)

(* A map own gives every cluster an owner: an entry of a directory, the     *)
(* call that has just allocated it (FRESH), or nobody (the root, free       *)
(* clusters, and clusters that failed calls have leaked). Self is the entry *)
(* the call is about.                                                       *)
NOBODY == <<0, 0>>
FRESH  == <<1, 0>>
Owners == (Clusters \X Names) \union {NOBODY, FRESH}
Self   == <<parent, name>>

(* The next cluster of an owned one has the same owner, and owned clusters  *)
(* are allocated, except those of the entry whose chain is being freed.     *)
Closed(own) ==
    \A c \in Clusters : own[c] # NOBODY =>
        /\ fat1[c] # FREE \/ (pc = "free" /\ freed /\ own[c] = Self)
        /\ fat1[c] \in Clusters => own[fat1[c]] = own[c]

(* The entry whose chain the call has begun to free, and which the          *)
(* directory still holds.                                                   *)
Replaced(p, n) == freed /\ pc # "fsinfo" /\ <<p, n>> = Self

(* An entry owns the first cluster it names.                                *)
Owns(own, p, n) ==
    Entry(p, n).attr # "none" /\ Entry(p, n).first # 0 => own[Entry(p, n).first] = <<p, n>>

(* Its clusters hold the data its writer was given, in order. The order is  *)
(* kept by the chunk a cluster holds and not by the length of the walk that *)
(* leads to it, so a step that changes one cluster is about one cluster.    *)
Keeps(own, p, n) ==
    LET E == Entry(p, n) IN
    E.attr = "file" /\ E.what # LOST /\ E.size > 0 =>
        /\ E.first \in Clusters /\ disk[E.first] = Chunk(E.what, 0)
        /\ \A c \in Clusters, k \in 0 .. E.size - 2 :
              own[c] = <<p, n>> /\ disk[c] = Chunk(E.what, k) =>
                  fat1[c] \in Clusters /\ disk[fat1[c]] = Chunk(E.what, k + 1)

(* The first cluster of the chain the call replaces.                        *)
OldFirst == copy[name].first

(* The old chain. The copy of the directory is current; the next victim     *)
(* belongs to the entry; once freed, nothing does. Without a fault, the     *)
(* first cluster of a freed chain is free or has gone to the new chain, so  *)
(* a call that fails for want of space leaves the entry with a cluster of   *)
(* its own.                                                                 *)
Replacing(own) ==
    /\ pc \in {"off", "idle", "free", "fsinfo"} => \A c \in Clusters : own[c] # FRESH
    /\ InCall => parent \in ReachableDirs /\ copy = disk[parent].ents
    /\ pc = "free" /\ victim \in Clusters => own[victim] = Self
    /\ pc \in {"alloc", "link", "data", "entry"} /\ freed => \A c \in Clusters : own[c] # Self
    /\ pc \in {"free", "alloc", "link", "data"} /\ freed /\ ~opfault =>
          OldFirst \in Clusters /\ (fat1[OldFirst] = FREE \/ own[OldFirst] = FRESH)
    /\ op = "mkdir" /\ InCall => copy[name].attr = "none"
    /\ pc = "free" /\ ~freed /\ ~opfault => victim = OldFirst

(* The new chain: first, prev and cluster are new, and only prev can be     *)
(* linked to the cluster just taken.                                        *)
Building(own) ==
    /\ pc \in {"alloc", "link", "data", "entry"} =>
         /\ first # 0 => own[first] = FRESH
         /\ prev # 0 => own[prev] = FRESH
    /\ pc \in {"link", "data"} =>
         /\ own[cluster] = FRESH
         /\ index = 0 => first = cluster
         /\ index > 0 => first # cluster /\ prev # cluster
         /\ \A c \in Clusters : own[c] = FRESH /\ fat1[c] = cluster => c = prev
    /\ op = "mkdir" /\ pc = "entry" => disk[first] = Dir(EmptyDir)

(* The clusters written so far hold the chunks before index, each linked to *)
(* the next as long as no link was lost; what a new cluster holds that is   *)
(* not yet written is from before, and is not looked at.                    *)
Written(own) ==
    op = "write" /\ ~broken /\ pc \in {"alloc", "link", "data", "entry"} =>
       /\ index > 0 => disk[first] = Chunk(data, 0) /\ disk[prev] = Chunk(data, index - 1)
       /\ \A c \in Clusters, k \in 0 .. MaxSize :
             own[c] = FRESH /\ disk[c] = Chunk(data, k) /\ ~(pc \in {"link", "data"} /\ c = cluster) =>
                 /\ k < index
                 /\ k = index - 1 => c = prev
                 /\ k + 1 < index => fat1[c] \in Clusters /\ disk[fat1[c]] = Chunk(data, k + 1)
       /\ pc = "data" /\ index > 0 => fat1[prev] = cluster

(* Every entry of the directory tree owns its chain and keeps its data, but *)
(* the one being replaced.                                                  *)
EntriesKept(own) ==
    \A p \in ReachableDirs, n \in Names : Replaced(p, n) \/ (Owns(own, p, n) /\ Keeps(own, p, n))

(* The inductive invariant behind ChainsSound and ContentsKept, for a map   *)
(* own.                                                                     *)
Sound(own) ==
    /\ own \in [Clusters -> Owners]
    /\ own[Root] = NOBODY
    /\ Closed(own)
    /\ EntriesKept(own)
    /\ Replacing(own) /\ Building(own) /\ Written(own)

(* The same between calls. *)
AtRest(own) ==
    /\ own \in [Clusters -> Owners]
    /\ own[Root] = NOBODY
    /\ \A c \in Clusters : own[c] # FRESH
    /\ \A c \in Clusters : own[c] # NOBODY =>
          fat1[c] # FREE /\ (fat1[c] \in Clusters => own[fat1[c]] = own[c])
    /\ \A p \in ReachableDirs, n \in Names : Owns(own, p, n) /\ Keeps(own, p, n)

(* The three kinds of owners differ.                                        *)
LEMMA Labels ==
    /\ NOBODY # FRESH
    /\ \A p \in Clusters, n \in Names : <<p, n>> \notin {NOBODY, FRESH}
    /\ \A p, q, m, n : <<p, n>> = <<q, m>> <=> p = q /\ n = m
  BY DEF NOBODY, FRESH, Clusters

(* Between calls AtRest is all of Sound, before a step ...                  *)
LEMMA RestSound ==
    ASSUME pc \in {"off", "idle", "fsinfo"}, freed => pc = "fsinfo", NEW own
    PROVE  Sound(own) <=> AtRest(own)
  BY DEF Sound, AtRest, Closed, EntriesKept, Replaced, Replacing, Building, Written, InCall

(* ... and after it.                                                        *)
LEMMA RestSoundNext ==
    ASSUME pc' \in {"off", "idle", "fsinfo"}, freed' => pc' = "fsinfo", NEW own, AtRest(own)'
    PROVE  Sound(own)'
  BY DEF Sound, AtRest, Closed, EntriesKept, Replaced, Replacing, Building, Written, InCall

(* An entry whose clusters a step leaves alone keeps them and their data.   *)
(* The clusters of a directory are allowed to change.                       *)
LEMMA EntryKept ==
    ASSUME NEW p \in Clusters, NEW n \in Names, Entry(p, n) \in Entries,
           NEW own, NEW o, Closed(own), Owns(own, p, n), Keeps(own, p, n),
           Entry(p, n)' = Entry(p, n),
           \A c \in Clusters : o[c] = <<p, n>> <=> own[c] = <<p, n>>,
           \A c \in Clusters : own[c] = <<p, n>> =>
               fat1'[c] = fat1[c] /\ (Entry(p, n).attr = "file" => disk'[c] = disk[c])
    PROVE  Owns(o, p, n)' /\ Keeps(o, p, n)'
  <1> DEFINE E == Entry(p, n)
  <1>0. Entry(p, n)' = E /\ E.first \in Clusters \union {0} /\ E.size \in Nat
        /\ <<p, n>> # NOBODY
    BY Labels, Fat32Assumption DEF Entries
  <1>1. E.attr # "none" /\ E.first # 0 => own[E.first] = <<p, n>>
    BY DEF Owns
  <1>2. Owns(o, p, n)'
    <2> SUFFICES E.attr # "none" /\ E.first # 0 => o[E.first] = <<p, n>>
      BY <1>0 DEF Owns
    <2> HIDE DEF E
    <2> QED
      BY <1>0, <1>1
  <1>3. ASSUME E.attr = "file", E.what # LOST, E.size > 0
        PROVE  /\ E.first \in Clusters /\ disk'[E.first] = Chunk(E.what, 0)
               /\ \A c \in Clusters, k \in 0 .. E.size - 2 :
                     o[c] = <<p, n>> /\ disk'[c] = Chunk(E.what, k) =>
                         fat1'[c] \in Clusters /\ disk'[fat1'[c]] = Chunk(E.what, k + 1)
    <2>1. /\ E.first \in Clusters /\ disk[E.first] = Chunk(E.what, 0)
          /\ \A c \in Clusters, k \in 0 .. E.size - 2 :
                own[c] = <<p, n>> /\ disk[c] = Chunk(E.what, k) =>
                    fat1[c] \in Clusters /\ disk[fat1[c]] = Chunk(E.what, k + 1)
      BY <1>3 DEF Keeps
    <2>2. \A c \in Clusters : own[c] = <<p, n>> => fat1'[c] = fat1[c] /\ disk'[c] = disk[c]
      BY <1>3
    <2> HIDE DEF E
    <2>3. disk'[E.first] = Chunk(E.what, 0)
      BY <1>1, <1>3, <2>1, <2>2, Marks
    <2>4. ASSUME NEW c \in Clusters, NEW k \in 0 .. E.size - 2,
                 o[c] = <<p, n>>, disk'[c] = Chunk(E.what, k)
          PROVE  fat1'[c] \in Clusters /\ disk'[fat1'[c]] = Chunk(E.what, k + 1)
      <3>1. own[c] = <<p, n>> /\ fat1'[c] = fat1[c] /\ disk'[c] = disk[c]
        BY <2>2, <2>4
      <3>2. fat1[c] \in Clusters /\ disk[fat1[c]] = Chunk(E.what, k + 1)
        BY <2>1, <2>4, <3>1
      <3>3. own[fat1[c]] = <<p, n>>
        BY <1>0, <3>1, <3>2 DEF Closed
      <3> QED
        BY <2>2, <3>1, <3>2, <3>3
    <2> QED
      BY <2>1, <2>3, <2>4
  <1>4. Keeps(o, p, n)'
    BY <1>0, <1>3 DEF Keeps
  <1> QED
    BY <1>2, <1>4

(* A reachable directory other than the root has an entry in another one. *)
LEMMA ReachOwner ==
    ASSUME VolOK, NEW p \in ReachableDirs, p # Root
    PROVE  \E q \in ReachableDirs, m \in Names :
              q # p /\ Entry(q, m).attr = "dir" /\ Entry(q, m).first = p
  <1> SUFFICES ASSUME \A q \in ReachableDirs, m \in Names :
                         q # p => ~(Entry(q, m).attr = "dir" /\ Entry(q, m).first = p)
               PROVE  FALSE
    OBVIOUS
  <1> DEFINE S == ReachableDirs \ {p}
  <1>1. Root \in ReachableDirs /\ IsClosed(disk, ReachableDirs)
    BY ReachIs, ReachDirs DEF VolOK
  <1>2. Root \in S /\ IsClosed(disk, S)
    BY <1>1 DEF IsClosed, Entry
  <1>3. ReachableDirs \subseteq S
    BY <1>2, ReachLeast, ReachIs
  <1> QED
    BY <1>3

(* Nothing a call changes in its data stage is a directory's. *)
LEMMA ReachOwned ==
    ASSUME TypeInv, NEW own, Sound(own), NEW p \in ReachableDirs, p # Root
    PROVE  \/ own[p] \notin {NOBODY, FRESH, Self} /\ \E q \in ReachableDirs, m \in Names :
                 own[p] = <<q, m>> /\ Entry(q, m).attr = "dir"
           \/ \E n \in Names : /\ Entry(parent, n).attr = "dir" /\ Entry(parent, n).first = p /\ p # parent
                               /\ parent \in ReachableDirs
  <1>0. VolOK /\ p \in Clusters
    BY CallDirs DEF TypeInv
  <1>1. PICK q \in ReachableDirs, m \in Names :
              q # p /\ Entry(q, m).attr = "dir" /\ Entry(q, m).first = p
    BY <1>0, ReachOwner
  <1>2. CASE q = parent
    BY <1>1, <1>2
  <1>3. CASE q # parent
    <2>1. ~Replaced(q, m)
      BY <1>3, Labels DEF Replaced, Self
    <2>2. own[p] = <<q, m>>
      BY <1>0, <1>1, <2>1, Marks DEF Sound, EntriesKept, Owns
    <2>3. q \in Clusters
      BY <1>0, CallDirs
    <2> QED
      BY <1>1, <1>3, <2>2, <2>3, Labels DEF Self
  <1> QED
    BY <1>2, <1>3

(* The directory a call works on belongs to an entry of another directory.  *)
LEMMA ParentOwned ==
    ASSUME TypeInv, NEW own, Sound(own), InCall
    PROVE  /\ parent \in ReachableDirs /\ parent \in Clusters /\ name \in Names
           /\ own[parent] \notin {FRESH, Self}
           /\ \A p \in ReachableDirs, n \in Names :
                 own[parent] = <<p, n>> => Entry(p, n).attr = "dir"
  <1>0. VolOK /\ parent \in ReachableDirs /\ parent \in Clusters /\ name \in Names
    BY DEF TypeInv, Sound, Replacing, CallOK, InCall
  <1>1. CASE parent = Root
    BY <1>0, <1>1, Labels, CallDirs DEF Sound, Self
  <1>2. CASE parent # Root
    <2>1. PICK q \in ReachableDirs, m \in Names : own[parent] = <<q, m>> /\ Entry(q, m).attr = "dir"
                                                  /\ own[parent] \notin {NOBODY, FRESH, Self}
      BY <1>0, <1>2, ReachOwned
    <2> QED
      BY <1>0, <2>1, Labels
  <1> QED
    BY <1>1, <1>2

(* A step that writes no cluster leaves the directory tree alone.           *)
LEMMA SameDirs == disk' = disk => ReachableDirs' = ReachableDirs
  BY ReachIs

(* What an entry other than the one being replaced keeps. *)
LEMMA OthersKept ==
    ASSUME TypeInv, NEW own, Sound(own), NEW o,
           NEW p \in ReachableDirs, NEW n \in Names, ~Replaced(p, n),
           Entry(p, n)' = Entry(p, n),
           \A c \in Clusters : o[c] = <<p, n>> <=> own[c] = <<p, n>>,
           \A c \in Clusters : own[c] = <<p, n>> =>
               fat1'[c] = fat1[c] /\ (Entry(p, n).attr = "file" => disk'[c] = disk[c])
    PROVE  Owns(o, p, n)' /\ Keeps(o, p, n)'
  <1>1. p \in Clusters /\ Entry(p, n) \in Entries
    BY CallDirs DEF TypeInv
  <1>2. Closed(own) /\ Owns(own, p, n) /\ Keeps(own, p, n)
    BY DEF Sound, EntriesKept
  <1> QED
    BY <1>1, <1>2, EntryKept

(* The same for steps that leave the clusters alone. *)
LEMMA EntriesSame ==
    ASSUME TypeInv, NEW own, Sound(own), disk' = disk,
           \A p, n : Replaced(p, n) => Replaced(p, n)',
           \A p \in ReachableDirs, n \in Names : ~Replaced(p, n)' =>
               \A c \in Clusters : own[c] = <<p, n>> => fat1'[c] = fat1[c]
    PROVE  EntriesKept(own)'
  <1>1. ReachableDirs' = ReachableDirs
    BY SameDirs
  <1>2. ASSUME NEW p \in ReachableDirs, NEW n \in Names
        PROVE  Replaced(p, n)' \/ (Owns(own, p, n)' /\ Keeps(own, p, n)')
    <2>1. Entry(p, n)' = Entry(p, n)
      BY DEF Entry
    <2> QED
      BY <1>2, <2>1, OthersKept
  <1> QED
    BY <1>1, <1>2 DEF EntriesKept

(* Writing a new cluster adds no directory to the tree, and takes it out of *)
(* the tree if it was in it: then it is the directory whose place a file is *)
(* taking.                                                                  *)
LEMMA FreshWrite ==
    ASSUME TypeInv, NEW own, Sound(own), pc = "data",
           fat32_write_cluster(cluster, NewContents, FALSE)
    PROVE  ReachableDirs' \subseteq ReachableDirs
           /\ (disk' # disk => ReachableDirs' \subseteq ReachableDirs \ {cluster})
           /\ \A c \in Clusters \ {cluster} : disk'[c] = disk[c]
  <1>1. CASE disk' = disk
    BY <1>1, SameDirs
  <1>2. CASE disk' = [disk EXCEPT ![cluster] = NewContents]
    <2>0. /\ cluster \in Clusters /\ cluster # Root /\ own[cluster] = FRESH /\ VolOK
          /\ CallOK /\ op \in {"write", "mkdir"}
      BY DEF TypeInv, BuildOK, CallOK, Sound, Building
    <2>1. /\ disk'[cluster] = NewContents
          /\ \A c \in Clusters \ {cluster} : disk'[c] = disk[c]
      BY <1>2, <2>0 DEF VolOK
    <2> DEFINE S == ReachableDirs \ {cluster}
    <2>2. Root \in S /\ IsClosed(disk, ReachableDirs) /\ ReachableDirs \subseteq Clusters
      BY <2>0, ReachIs, ReachDirs DEF VolOK
    <2>3. ASSUME NEW p \in S, NEW n \in Names, disk'[p].ents[n].attr = "dir",
                 DirIn(disk', disk'[p].ents[n].first)
          PROVE  disk'[p].ents[n].first \in S
      <3>1. disk'[p] = disk[p] /\ p \in ReachableDirs /\ p \in Clusters
        BY <2>1, <2>2
      <3> DEFINE f == disk[p].ents[n].first
      <3>2. f \in Clusters /\ Entry(p, n).first = f /\ Entry(p, n).attr = "dir"
        BY <2>0, <2>3, <3>1, CallDirs DEF Entry, GoodEntry
      <3>3. CASE f = cluster
        <4>1. ~(own[f] = <<p, n>>)
          BY <2>0, <3>1, <3>3, Labels
        <4>2. Replaced(p, n)
          BY <3>1, <3>2, <4>1, Marks DEF Sound, EntriesKept, Owns
        <4>3. op = "write"
          BY <2>0, <4>2 DEF Replaced, CallOK
        <4>4. NewContents.kind = "data"
          BY <4>3 DEF NewContents, Chunk
        <4> QED
          BY <2>1, <2>3, <3>1, <3>3, <4>4 DEF DirIn
      <3>4. CASE f # cluster
        <4>1. DirIn(disk, f)
          BY <2>1, <2>3, <3>1, <3>2, <3>4 DEF DirIn
        <4>2. f \in ReachableDirs
          BY <2>2, <2>3, <3>1, <4>1 DEF IsClosed
        <4> QED
          BY <3>1, <3>4, <4>2
      <3> QED
        BY <3>3, <3>4
    <2>4. IsClosed(disk', S)
      BY <2>3 DEF IsClosed
    <2>5. ReachableDirs' \subseteq S
      BY <2>2, <2>4, ReachLeast, ReachIs
    <2> QED
      BY <2>1, <2>5
  <1> QED
    BY <1>1, <1>2 DEF fat32_write_cluster

(* The directory of the call stays in the tree.                             *)
LEMMA ParentStays ==
    ASSUME TypeInv, VolOK', NEW own, Sound(own), pc = "data",
           disk' = [disk EXCEPT ![cluster] = NewContents]
    PROVE  parent \in ReachableDirs' /\ parent # cluster
  <1>0. /\ cluster \in Clusters /\ cluster # Root /\ own[cluster] = FRESH /\ VolOK /\ InCall
    BY DEF TypeInv, BuildOK, Sound, Building, InCall
  <1>1. parent \in ReachableDirs /\ parent # cluster
    BY <1>0, ParentOwned
  <1>2. ReachableDirs' \subseteq ReachableDirs /\ \A c \in Clusters \ {cluster} : disk'[c] = disk[c]
    BY FreshWrite DEF fat32_write_cluster
  <1>3. Root \in ReachableDirs' /\ IsClosed(disk', ReachableDirs') /\ ReachableDirs \subseteq Clusters
        /\ ReachableDirs' \subseteq {c \in Clusters : DirIn(disk', c)}
    BY <1>0, ReachIs, ReachDirs DEF VolOK
  <1>4. ASSUME parent \notin ReachableDirs' PROVE FALSE
    <2>1. ASSUME NEW p \in ReachableDirs', NEW n \in Names, disk[p].ents[n].attr = "dir",
                 DirIn(disk, disk[p].ents[n].first)
          PROVE  disk[p].ents[n].first \in ReachableDirs'
      <3> DEFINE f == disk[p].ents[n].first
      <3>1. p \in ReachableDirs /\ p # parent /\ p \in Clusters
        BY <1>2, <1>3, <1>4
      <3>2. f \in Clusters /\ Entry(p, n).first = f /\ Entry(p, n).attr = "dir"
        BY <1>0, <2>1, <3>1, CallDirs DEF Entry, GoodEntry
      <3>3. ~Replaced(p, n)
        BY <3>1, Labels DEF Replaced, Self
      <3>4. own[f] = <<p, n>>
        BY <3>1, <3>2, <3>3, Marks DEF Sound, EntriesKept, Owns
      <3>5. f # cluster
        <4> HIDE DEF f
        <4>1. <<p, n>> # FRESH
          BY <3>1, Labels
        <4> QED
          BY <1>0, <3>4, <4>1
      <3>7. p # cluster
        <4> SUFFICES ASSUME p = cluster PROVE FALSE
          OBVIOUS
        <4>2. PICK q \in ReachableDirs, m \in Names :
                  q # p /\ Entry(q, m).attr = "dir" /\ Entry(q, m).first = p
          BY <1>0, <3>1, ReachOwner
        <4>3. Replaced(q, m)
          <5>1. q \in Clusters
            BY <1>3, <4>2
          <5> QED
            BY <1>0, <4>2, <5>1, Labels, Marks DEF Sound, EntriesKept, Owns
        <4>4. op = "write"
          BY <1>0, <4>3 DEF Replaced, TypeInv, CallOK
        <4>5. disk'[cluster].kind = "data"
          BY <1>0, <4>4 DEF NewContents, Chunk, VolOK
        <4> QED
          BY <1>3, <4>5 DEF DirIn
      <3>8. disk'[p] = disk[p] /\ DirIn(disk', f)
        BY <1>2, <2>1, <3>1, <3>2, <3>5, <3>7 DEF DirIn
      <3> QED
        BY <1>3, <2>1, <3>8 DEF IsClosed
    <2>2. IsClosed(disk, ReachableDirs')
      BY <2>1 DEF IsClosed
    <2>3. ReachableDirs \subseteq ReachableDirs'
      BY <1>3, <2>2, ReachLeast, ReachIs
    <2> QED
      BY <1>1, <1>4, <2>3
  <1> QED
    BY <1>1, <1>4

-----------------------------------------------------------------------------
(* One lemma for each step.                                                 *)

(* A call begins. *)
LEMMA SoundCall ==
    ASSUME TypeInv, NEW own, Sound(own), pc = "idle",
           NEW p \in ReachableDirs, NEW n \in Names, NEW o, NEW d, NEW s, Call(o, p, n, d, s),
           \/ pc' = "free" /\ Entry(p, n).attr # "none" /\ victim' = Entry(p, n).first /\ o # "mkdir"
           \/ pc' \in {"alloc", "entry"} /\ Entry(p, n).attr = "none" /\ (o = "mkdir" => pc' = "alloc")
    PROVE  Sound(own)'
  <1>0. /\ AtRest(own) /\ ~freed /\ first = 0 /\ prev = 0 /\ index = 0 /\ VolOK
    BY RestSound DEF TypeInv, CallOK, BuildOK
  <1>1. /\ fat1' = fat1 /\ disk' = disk /\ freed' = freed /\ first' = 0 /\ prev' = 0 /\ index' = 0
        /\ op' = o /\ parent' = p /\ name' = n /\ copy' = disk[p].ents
    BY <1>0 DEF Call, volume, chain
  <1>2. ReachableDirs' = ReachableDirs /\ Self' = <<p, n>> /\ p \in Clusters
    BY <1>0, <1>1, SameDirs, CallDirs DEF Self
  <1>3. Closed(own)'
    BY <1>0, <1>1 DEF AtRest, Closed
  <1>4. EntriesKept(own)'
    <2>1. \A q, m : ~Replaced(q, m) /\ ~Replaced(q, m)'
      BY <1>0, <1>1 DEF Replaced
    <2> QED
      BY <1>1, <2>1, EntriesSame
  <1>5. Replacing(own)'
    <2>1. OldFirst' = Entry(p, n).first /\ copy'[name'].attr = Entry(p, n).attr
      BY <1>1 DEF OldFirst, Entry
    <2>2. pc' = "free" /\ victim' \in Clusters => own[victim'] = <<p, n>>
      BY <1>0, Marks DEF AtRest, Owns
    <2> QED
      BY <1>0, <1>1, <1>2, <2>1, <2>2 DEF Replacing, AtRest, InCall
  <1>6. Building(own)' /\ Written(own)'
    BY <1>0, <1>1 DEF Building, Written, AtRest
  <1> QED
    BY <1>0, <1>3, <1>4, <1>5, <1>6 DEF Sound, AtRest

(* A cluster of the old chain is freed, with or without success.            *)
LEMMA SoundFree ==
    ASSUME TypeInv, NEW own, Sound(own), fat32_free_cluster
    PROVE  Sound(own)'
  <1>0. /\ pc = "free" /\ pc' = "free" /\ victim \in Clusters /\ own[victim] = Self
        /\ disk' = disk /\ fat1 \in [Clusters -> FatValues] /\ op # "mkdir"
        /\ first = 0 /\ prev = 0 /\ index = 0 /\ InCall
    BY DEF fat32_free_cluster, TypeInv, VolOK, BuildOK, CallOK, Sound, Replacing, InCall
  <1>1. /\ first' = 0 /\ prev' = 0 /\ index' = 0 /\ parent' = parent /\ name' = name /\ op' = op
        /\ copy' = copy /\ freed' = (freed \/ fat1' # fat1) /\ data' = data /\ Self' = Self
        /\ OldFirst' = OldFirst
    BY <1>0 DEF fat32_free_cluster, chain, args, Self, OldFirst
  <1>2. fat1' = fat1 \/ fat1' = [fat1 EXCEPT ![victim] = FREE]
    BY DEF fat32_free_cluster, fat32_set_next_cluster
  <1>3. ReachableDirs' = ReachableDirs
    BY <1>0, SameDirs
  <1>4. parent \in Clusters /\ name \in Names /\ Self # NOBODY
    BY <1>0, ParentOwned, Labels DEF Self
  <1>5. Closed(own)'
    <2> SUFFICES ASSUME NEW c \in Clusters, own[c] # NOBODY
                 PROVE  /\ fat1'[c] # FREE \/ (freed' /\ own[c] = Self)
                        /\ fat1'[c] \in Clusters => own[fat1'[c]] = own[c]
      BY <1>0, <1>1 DEF Closed
    <2>1. /\ fat1[c] # FREE \/ (freed /\ own[c] = Self)
          /\ fat1[c] \in Clusters => own[fat1[c]] = own[c]
      BY DEF Sound, Closed
    <2>2. CASE fat1' = fat1
      BY <1>1, <2>1, <2>2
    <2>3. CASE fat1' # fat1 /\ c = victim
      BY <1>0, <1>1, <1>2, <2>3, Marks
    <2>4. CASE fat1' # fat1 /\ c # victim
      <3>1. fat1'[c] = fat1[c]
        BY <1>0, <1>2, <2>4
      <3> QED
        BY <1>1, <2>1, <3>1
    <2> QED
      BY <2>2, <2>3, <2>4
  <1>6. EntriesKept(own)'
    <2>1. \A p, n : Replaced(p, n) => Replaced(p, n)'
      BY <1>0, <1>1 DEF Replaced
    <2>2. ASSUME NEW p \in ReachableDirs, NEW n \in Names, ~Replaced(p, n)',
                 NEW c \in Clusters, own[c] = <<p, n>>
          PROVE  fat1'[c] = fat1[c]
      <3>1. fat1' = fat1 \/ <<p, n>> # Self
        BY <1>0, <1>1, <2>2 DEF Replaced
      <3> QED
        BY <1>0, <1>2, <2>2, <3>1
    <2> QED
      BY <1>0, <2>1, <2>2, EntriesSame
  <1>7. Replacing(own)'
    <2>1. victim' \in Clusters => own[victim'] = Self
      <3>1. victim' \in Clusters => victim' = fat1[victim]
        BY Marks DEF fat32_free_cluster, NextVictim
      <3> QED
        BY <1>0, <1>4, <3>1 DEF Sound, Closed
    <2>2. ASSUME freed', ~opfault' PROVE OldFirst \in Clusters /\ fat1'[OldFirst] = FREE
      <3>1. ~opfault /\ fat1' = [fat1 EXCEPT ![victim] = FREE]
        BY <2>2 DEF fat32_free_cluster, fat32_set_next_cluster
      <3>2. CASE freed
        <4>1. OldFirst \in Clusters /\ fat1[OldFirst] = FREE
          BY <1>0, <3>1, <3>2 DEF Sound, Replacing
        <4> QED
          BY <1>0, <3>1, <4>1
      <3>3. CASE ~freed
        <4>1. victim = OldFirst
          BY <1>0, <3>1, <3>3 DEF Sound, Replacing
        <4> QED
          BY <1>0, <3>1, <4>1
      <3> QED
        BY <3>2, <3>3
    <2>3. ~freed' => opfault'
      <3> SUFFICES ASSUME ~opfault' PROVE freed'
        OBVIOUS
      <3>1. fat1' = [fat1 EXCEPT ![victim] = FREE]
        BY DEF fat32_free_cluster, fat32_set_next_cluster
      <3>2. CASE ~freed
        <4>1. fat1[victim] # FREE
          BY <1>0, <1>4, <3>2 DEF Sound, Closed
        <4>2. fat1'[victim] = FREE
          BY <1>0, <3>1
        <4> QED
          BY <1>1, <4>1, <4>2
      <3> QED
        BY <1>1, <3>2
    <2> QED
      BY <1>0, <1>1, <1>3, <2>1, <2>2, <2>3 DEF Sound, Replacing, InCall
  <1>8. Building(own)' /\ Written(own)'
    BY <1>0, <1>1 DEF Building, Written, Sound
  <1> QED
    BY <1>5, <1>6, <1>7, <1>8 DEF Sound

(* o is own, but what x had belongs to nobody.                              *)
Drop(own, o, x) ==
    /\ o \in [Clusters -> Owners]
    /\ \A c \in Clusters : o[c] = IF own[c] = x THEN NOBODY ELSE own[c]

(* There is such a map.                                                     *)
LEMMA DropExists ==
    ASSUME NEW own \in [Clusters -> Owners], NEW x
    PROVE  \E o : Drop(own, o, x)
  <1> DEFINE o == [c \in Clusters |-> IF own[c] = x THEN NOBODY ELSE own[c]]
  <1>1. Drop(own, o, x)
    BY DEF Drop, Owners
  <1> QED
    BY <1>1

(* The old chain is freed; what is left of it after a fault is leaked.      *)
LEMMA SoundFreeDone ==
    ASSUME TypeInv, NEW own, Sound(own), FreeDone, NEW o,
           IF freed THEN Drop(own, o, Self) ELSE o = own
    PROVE  Sound(o)'
  <1>0. /\ pc = "free" /\ pc' \in {"alloc", "entry"} /\ disk' = disk /\ fat1' = fat1 /\ op # "mkdir"
        /\ first = 0 /\ prev = 0 /\ index = 0 /\ InCall
    BY DEF FreeDone, TypeInv, BuildOK, CallOK, volume, InCall
  <1>1. /\ first' = 0 /\ prev' = 0 /\ index' = 0 /\ op' = op /\ copy' = copy /\ freed' = freed
        /\ Self' = Self /\ OldFirst' = OldFirst /\ parent' = parent /\ name' = name /\ opfault' = opfault
    BY <1>0 DEF FreeDone, chain, args, observed, Self, OldFirst
  <1>2. ReachableDirs' = ReachableDirs
    BY <1>0, SameDirs
  <1>3. parent \in Clusters /\ name \in Names /\ Self # NOBODY /\ Self # FRESH
    BY <1>0, ParentOwned, Labels DEF Self
  <1>4. /\ o \in [Clusters -> Owners] /\ o[Root] = NOBODY
        /\ \A c \in Clusters : o[c] = IF freed /\ own[c] = Self THEN NOBODY ELSE own[c]
    BY RootCluster DEF Sound, Drop
  <1>5. Closed(o)'
    <2> SUFFICES ASSUME NEW c \in Clusters, o[c] # NOBODY
                 PROVE  fat1[c] # FREE /\ (fat1[c] \in Clusters => o[fat1[c]] = o[c])
      BY <1>0, <1>1 DEF Closed
    <2>1. o[c] = own[c] /\ ~(freed /\ own[c] = Self)
      BY <1>4
    <2>2. fat1[c] # FREE /\ (fat1[c] \in Clusters => own[fat1[c]] = own[c])
      BY <2>1 DEF Sound, Closed
    <2> QED
      BY <1>4, <2>1, <2>2
  <1>6. EntriesKept(o)'
    <2>1. ASSUME NEW p \in ReachableDirs, NEW n \in Names, ~Replaced(p, n)'
          PROVE  Owns(o, p, n)' /\ Keeps(o, p, n)'
      <3>1. ~Replaced(p, n) /\ (freed => <<p, n>> # Self)
        BY <1>0, <1>1, <2>1 DEF Replaced
      <3>2. Entry(p, n)' = Entry(p, n) /\ <<p, n>> # NOBODY
        BY <1>0, CallDirs, Labels DEF Entry, TypeInv
      <3>3. \A c \in Clusters : o[c] = <<p, n>> <=> own[c] = <<p, n>>
        BY <1>4, <3>1, <3>2
      <3> QED
        BY <1>0, <3>1, <3>2, <3>3, OthersKept
    <2> QED
      BY <1>2, <2>1 DEF EntriesKept
  <1>7. Replacing(o)'
    <2>1. freed => \A c \in Clusters : o[c] # Self
      BY <1>3, <1>4
    <2>2. \A c \in Clusters : own[c] = FRESH => o[c] = FRESH
      BY <1>3, <1>4
    <2>3. freed /\ ~opfault => OldFirst \in Clusters /\ (fat1[OldFirst] = FREE \/ o[OldFirst] = FRESH)
      BY <1>0, <2>2 DEF Sound, Replacing
    <2> QED
      BY <1>0, <1>1, <1>2, <2>1, <2>3 DEF Sound, Replacing, InCall
  <1>8. Building(o)' /\ Written(o)'
    <2>1. \A c \in Clusters : o[c] # FRESH
      BY <1>0, <1>4, Labels DEF Sound, Replacing
    <2> QED
      BY <1>0, <1>1, <2>1 DEF Building, Written
  <1> QED
    BY <1>4, <1>5, <1>6, <1>7, <1>8 DEF Sound

(* A free cluster, which is nobody's, becomes FRESH.                        *)
LEMMA SoundTake ==
    ASSUME TypeInv, NEW own, Sound(own), NEW c \in Clusters, AllocTake(c),
           NEW o, o = [own EXCEPT ![c] = FRESH]
    PROVE  Sound(o)'
  <1>0. /\ pc = "alloc" /\ pc' = (IF prev # 0 THEN "link" ELSE "data") /\ disk' = disk
        /\ fat1' = [fat1 EXCEPT ![c] = EOC] /\ fat1[c] = FREE
        /\ fat1 \in [Clusters -> FatValues] /\ own \in [Clusters -> Owners]
        /\ InCall /\ c # Root /\ op \in {"write", "mkdir"}
        /\ first \in Clusters \union {0} /\ prev \in Clusters \union {0} /\ index \in Nat
        /\ (first = 0 <=> index = 0) /\ (prev = 0 <=> index = 0)
    BY Fat32Assumption
    DEF AllocTake, Taken, fat32_set_next_cluster, IsNextFree, FreeFrom, TypeInv, VolOK,
        CallOK, BuildOK, Sound, InCall
  <1>1. /\ first' = (IF first = 0 THEN c ELSE first) /\ prev' = prev /\ index' = index /\ op' = op
        /\ cluster' = c /\ copy' = copy /\ freed' = freed /\ data' = data /\ broken' = broken
        /\ Self' = Self /\ OldFirst' = OldFirst /\ parent' = parent /\ name' = name
        /\ opfault' = opfault
    BY <1>0 DEF AllocTake, Taken, args, observed, Self, OldFirst
  <1>2. ReachableDirs' = ReachableDirs
    BY <1>0, SameDirs
  <1>3. /\ Self \notin {NOBODY, FRESH} /\ NOBODY # FRESH /\ FRESH \in Owners
    BY <1>0, ParentOwned, Labels DEF Self, Owners
  <1>4. own[c] = NOBODY
    BY <1>0 DEF Sound, Closed
  <1>5. /\ o \in [Clusters -> Owners] /\ o[c] = FRESH /\ o[Root] = NOBODY
        /\ \A d \in Clusters \ {c} : o[d] = own[d]
    BY <1>0, <1>3, RootCluster DEF Sound
  <1>6. /\ fat1'[c] = EOC /\ \A d \in Clusters \ {c} : fat1'[d] = fat1[d]
    BY <1>0
  <1>7. Closed(o)'
    <2> SUFFICES ASSUME NEW d \in Clusters, o[d] # NOBODY
                 PROVE  fat1'[d] # FREE /\ (fat1'[d] \in Clusters => o[fat1'[d]] = o[d])
      BY DEF Closed
    <2>1. CASE d = c
      BY <1>6, <2>1, Marks
    <2>2. CASE d # c
      <3>1. own[d] # NOBODY /\ fat1'[d] = fat1[d] /\ o[d] = own[d]
        BY <1>5, <1>6, <2>2
      <3>2. fat1[d] # FREE /\ (fat1[d] \in Clusters => own[fat1[d]] = own[d])
        BY <1>0, <3>1 DEF Sound, Closed
      <3> QED
        BY <1>4, <1>5, <3>1, <3>2
    <2> QED
      BY <2>1, <2>2
  <1>8. EntriesKept(o)'
    <2>1. ASSUME NEW p \in ReachableDirs, NEW n \in Names, ~Replaced(p, n)'
          PROVE  Owns(o, p, n)' /\ Keeps(o, p, n)'
      <3>1. ~Replaced(p, n)
        BY <1>0, <1>1, <2>1 DEF Replaced
      <3>2. Entry(p, n)' = Entry(p, n) /\ <<p, n>> # NOBODY /\ <<p, n>> # FRESH
        BY <1>0, CallDirs, Labels DEF Entry, TypeInv
      <3>3. \A d \in Clusters : o[d] = <<p, n>> <=> own[d] = <<p, n>>
        BY <1>4, <1>5, <3>2
      <3>4. \A d \in Clusters : own[d] = <<p, n>> => fat1'[d] = fat1[d]
        BY <1>4, <1>6, <3>2
      <3> QED
        BY <1>0, <3>1, <3>2, <3>3, <3>4, OthersKept
    <2> QED
      BY <1>2, <2>1 DEF EntriesKept
  <1>9. Replacing(o)'
    <2>1. freed => \A d \in Clusters : o[d] # Self
      BY <1>0, <1>3, <1>5 DEF Sound, Replacing
    <2>2. freed /\ ~opfault => OldFirst \in Clusters /\ (fat1'[OldFirst] = FREE \/ o[OldFirst] = FRESH)
      BY <1>0, <1>5, <1>6 DEF Sound, Replacing
    <2> QED
      BY <1>0, <1>1, <1>2, <2>1, <2>2 DEF Sound, Replacing, InCall
  <1>10. /\ first # 0 => own[first] = FRESH /\ first # c
         /\ prev # 0 => own[prev] = FRESH /\ prev # c
    BY <1>0, <1>3, <1>4 DEF Sound, Building
  <1>11. Building(o)'
    <2>1. \A d \in Clusters : o[d] = FRESH => fat1'[d] # c
      <3> SUFFICES ASSUME NEW d \in Clusters, o[d] = FRESH, fat1'[d] = c PROVE FALSE
        OBVIOUS
      <3>1. d # c /\ own[d] = FRESH /\ fat1[d] = c
        BY <1>5, <1>6, Marks
      <3> QED
        BY <1>3, <1>4, <3>1 DEF Sound, Closed
    <2>2. first' # 0 => o[first'] = FRESH
      BY <1>1, <1>5, <1>0, <1>10
    <2>3. prev # 0 => o[prev] = FRESH
      BY <1>5, <1>0, <1>10
    <2>4. /\ index = 0 => first' = c
          /\ index > 0 => first' # c /\ prev # c
      BY <1>0, <1>1, <1>10
    <2> QED
      BY <1>0, <1>1, <1>5, <2>1, <2>2, <2>3, <2>4 DEF Building
  <1>12. Written(o)'
    <2> SUFFICES ASSUME op = "write", ~broken
                 PROVE  /\ index > 0 => disk[first'] = Chunk(data, 0) /\ disk[prev] = Chunk(data, index - 1)
                        /\ \A d \in Clusters, k \in 0 .. MaxSize :
                              o[d] = FRESH /\ disk[d] = Chunk(data, k) /\ d # c =>
                                 /\ k < index
                                 /\ k = index - 1 => d = prev
                                 /\ k + 1 < index => fat1'[d] \in Clusters /\ disk[fat1'[d]] = Chunk(data, k + 1)
                        /\ ~(pc' = "data" /\ index > 0)
      BY <1>0, <1>1 DEF Written
    <2>1. /\ index > 0 => disk[first] = Chunk(data, 0) /\ disk[prev] = Chunk(data, index - 1)
          /\ \A d \in Clusters, k \in 0 .. MaxSize :
                own[d] = FRESH /\ disk[d] = Chunk(data, k) =>
                   /\ k < index
                   /\ k = index - 1 => d = prev
                   /\ k + 1 < index => fat1[d] \in Clusters /\ disk[fat1[d]] = Chunk(data, k + 1)
      BY <1>0 DEF Sound, Written
    <2>2. index > 0 => first' = first /\ pc' = "link"
      BY <1>0, <1>1
    <2> QED
      BY <1>0, <1>5, <1>6, <2>1, <2>2
  <1> QED
    BY <1>5, <1>7, <1>8, <1>9, <1>11, <1>12 DEF Sound

(* A cluster is passed over.                                                *)
LEMMA SoundSkip ==
    ASSUME TypeInv, NEW own, Sound(own), NEW c \in Clusters, AllocSkip(c)
    PROVE  Sound(own)'
  <1>0. /\ pc = "alloc" /\ pc' = "alloc" /\ disk' = disk /\ opfault'
        /\ fat1[c] = FREE /\ fat1 \in [Clusters -> FatValues] /\ InCall
        /\ fat1' = fat1 \/ fat1' = [fat1 EXCEPT ![c] = EOC]
    BY DEF AllocSkip, fat32_set_next_cluster, IsNextFree, FreeFrom, TypeInv, VolOK, InCall
  <1>1. /\ first' = first /\ prev' = prev /\ index' = index /\ op' = op
        /\ cluster' = cluster /\ copy' = copy /\ freed' = freed /\ data' = data /\ broken' = broken
        /\ Self' = Self /\ OldFirst' = OldFirst /\ parent' = parent /\ name' = name
    BY <1>0 DEF AllocSkip, args, Self, OldFirst
  <1>2. ReachableDirs' = ReachableDirs
    BY <1>0, SameDirs
  <1>4. own[c] = NOBODY
    BY <1>0 DEF Sound, Closed
  <1>5. \A d \in Clusters \ {c} : fat1'[d] = fat1[d]
    BY <1>0
  <1>6. \A d \in Clusters : own[d] # NOBODY => fat1'[d] = fat1[d]
    BY <1>4, <1>5
  <1>7. Closed(own)'
    BY <1>0, <1>6 DEF Sound, Closed
  <1>8. EntriesKept(own)'
    <2>1. \A p, n : Replaced(p, n) => Replaced(p, n)'
      BY <1>0, <1>1 DEF Replaced
    <2>2. \A p \in ReachableDirs, n \in Names : <<p, n>> # NOBODY
      BY CallDirs, Labels DEF TypeInv
    <2> QED
      BY <1>0, <1>6, <2>1, <2>2, EntriesSame
  <1>9. Replacing(own)'
    BY <1>0, <1>1, <1>2 DEF Sound, Replacing, InCall
  <1>10. Building(own)'
    BY <1>0, <1>1 DEF Sound, Building
  <1>11. Written(own)'
    BY <1>0, <1>1, <1>6, Labels DEF Sound, Written
  <1> QED
    BY <1>7, <1>8, <1>9, <1>10, <1>11 DEF Sound

(* The previous cluster is linked to the one taken, or the link is lost.    *)
LEMMA SoundLink ==
    ASSUME TypeInv, NEW own, Sound(own), Link
    PROVE  Sound(own)'
  <1>0. /\ pc = "link" /\ pc' = "data" /\ disk' = disk
        /\ fat1 \in [Clusters -> FatValues] /\ InCall
        /\ fat1' = fat1 \/ fat1' = [fat1 EXCEPT ![prev] = cluster]
        /\ prev \in Clusters /\ cluster \in Clusters /\ index \in Nat /\ index > 0
        /\ own[prev] = FRESH /\ own[cluster] = FRESH /\ cluster # prev
        /\ op \in {"write", "mkdir"}
    BY Marks DEF Link, fat32_set_next_cluster, TypeInv, VolOK, BuildOK, CallOK, InCall, Sound, Building
  <1>1. /\ first' = first /\ prev' = prev /\ index' = index /\ op' = op
        /\ cluster' = cluster /\ copy' = copy /\ freed' = freed /\ data' = data
        /\ broken' = (broken \/ fat1'[prev] # cluster)
        /\ Self' = Self /\ OldFirst' = OldFirst /\ parent' = parent /\ name' = name
        /\ (opfault => opfault')
    BY <1>0 DEF Link, args, chain, Self, OldFirst
  <1>2. ReachableDirs' = ReachableDirs
    BY <1>0, SameDirs
  <1>3. \A d \in Clusters \ {prev} : fat1'[d] = fat1[d]
    BY <1>0
  <1>4. fat1'[prev] = fat1[prev] \/ fat1'[prev] = cluster
    BY <1>0
  <1>5. Closed(own)'
    <2> SUFFICES ASSUME NEW d \in Clusters, own[d] # NOBODY
                 PROVE  fat1'[d] # FREE /\ (fat1'[d] \in Clusters => own[fat1'[d]] = own[d])
      BY DEF Closed
    <2>1. fat1[d] # FREE /\ (fat1[d] \in Clusters => own[fat1[d]] = own[d])
      BY <1>0 DEF Sound, Closed
    <2> QED
      BY <1>0, <1>3, <1>4, <2>1, Marks
  <1>6. EntriesKept(own)'
    <2>1. \A p, n : Replaced(p, n) => Replaced(p, n)'
      BY <1>0, <1>1 DEF Replaced
    <2>2. \A p \in ReachableDirs, n \in Names : <<p, n>> # FRESH
      BY CallDirs, Labels DEF TypeInv
    <2> QED
      BY <1>0, <1>3, <2>1, <2>2, EntriesSame
  <1>7. Replacing(own)'
    <2>1. freed /\ ~opfault => OldFirst \in Clusters /\ (fat1'[OldFirst] = FREE \/ own[OldFirst] = FRESH)
      BY <1>0, <1>3 DEF Sound, Replacing
    <2> QED
      BY <1>0, <1>1, <1>2, <2>1 DEF Sound, Replacing, InCall
  <1>8. Building(own)'
    <2>1. \A c \in Clusters : own[c] = FRESH /\ fat1'[c] = cluster => c = prev
      BY <1>0, <1>3 DEF Sound, Building
    <2> QED
      BY <1>0, <1>1, <2>1 DEF Sound, Building
  <1>9. Written(own)'
    <2> SUFFICES ASSUME op = "write", ~broken, fat1'[prev] = cluster
                 PROVE  /\ index > 0 => disk[first] = Chunk(data, 0) /\ disk[prev] = Chunk(data, index - 1)
                        /\ \A d \in Clusters, k \in 0 .. MaxSize :
                              own[d] = FRESH /\ disk[d] = Chunk(data, k) /\ d # cluster =>
                                 /\ k < index
                                 /\ k = index - 1 => d = prev
                                 /\ k + 1 < index => fat1'[d] \in Clusters /\ disk[fat1'[d]] = Chunk(data, k + 1)
      BY <1>0, <1>1 DEF Written
    <2>1. /\ disk[first] = Chunk(data, 0) /\ disk[prev] = Chunk(data, index - 1)
          /\ \A d \in Clusters, k \in 0 .. MaxSize :
                own[d] = FRESH /\ disk[d] = Chunk(data, k) /\ d # cluster =>
                   /\ k < index
                   /\ k = index - 1 => d = prev
                   /\ k + 1 < index => fat1[d] \in Clusters /\ disk[fat1[d]] = Chunk(data, k + 1)
      BY <1>0 DEF Sound, Written
    <2>2. \A k \in 0 .. MaxSize : Chunk(data, index - 1) = Chunk(data, k) => k = index - 1
      BY DEF Chunk
    <2>3. ASSUME NEW d \in Clusters, NEW k \in 0 .. MaxSize,
                 own[d] = FRESH, disk[d] = Chunk(data, k), d # cluster, k + 1 < index
          PROVE  fat1'[d] \in Clusters /\ disk[fat1'[d]] = Chunk(data, k + 1)
      <3>1. d # prev
        BY <1>0, <2>1, <2>2, <2>3
      <3> QED
        BY <1>3, <2>1, <2>3, <3>1
    <2> QED
      BY <2>1, <2>3
  <1> QED
    BY <1>5, <1>6, <1>7, <1>8, <1>9 DEF Sound

(* A new cluster still found in the tree is the directory being replaced.   *)
LEMMA FreshDir ==
    ASSUME TypeInv, NEW own, Sound(own), NEW c \in ReachableDirs, c # Root, own[c] = FRESH
    PROVE  freed /\ op # "mkdir"
  <1>1. PICK q \in ReachableDirs, m \in Names :
            Entry(q, m).attr = "dir" /\ Entry(q, m).first = c
    BY ReachOwner DEF TypeInv
  <1>2. q \in Clusters /\ c \in Clusters
    BY CallDirs DEF TypeInv
  <1>3. <<q, m>> # FRESH /\ c # 0
    BY <1>2, Labels, Marks
  <1>4. ~Owns(own, q, m)
    BY <1>1, <1>3 DEF Owns
  <1>5. Replaced(q, m)
    BY <1>4 DEF Sound, EntriesKept
  <1> QED
    BY <1>5 DEF Replaced, TypeInv, CallOK

(* A cluster of the new chain is written.                                   *)
LEMMA SoundData ==
    ASSUME TypeInv, VolOK', NEW own, Sound(own), DataWritten
    PROVE  Sound(own)'
  <1>0. /\ pc = "data" /\ pc' = (IF index + 1 = size THEN "entry" ELSE "alloc")
        /\ disk' = [disk EXCEPT ![cluster] = NewContents] /\ fat1' = fat1
        /\ cluster \in Clusters /\ index \in Nat /\ index < size /\ size \in Nat
        /\ own[cluster] = FRESH /\ InCall /\ op \in {"write", "mkdir"}
        /\ disk \in [Clusters -> Contents] /\ first \in Clusters
        /\ own[first] = FRESH /\ (prev # 0 => own[prev] = FRESH) /\ index <= MaxSize
        /\ (op = "mkdir" => index = 0)
    BY Marks, Fat32Assumption
    DEF DataWritten, fat32_write_cluster, TypeInv, VolOK, CallOK, BuildOK, InCall, Sound, Building
  <1>1. /\ first' = first /\ prev' = cluster /\ index' = index + 1 /\ op' = op
        /\ cluster' = cluster /\ copy' = copy /\ freed' = freed /\ data' = data /\ broken' = broken
        /\ Self' = Self /\ OldFirst' = OldFirst /\ parent' = parent /\ name' = name
        /\ opfault' = opfault
    BY <1>0 DEF DataWritten, args, observed, Self, OldFirst
  <1>2. /\ ReachableDirs' \subseteq ReachableDirs
        /\ disk'[cluster] = NewContents
        /\ \A c \in Clusters \ {cluster} : disk'[c] = disk[c]
    BY <1>0, FreshWrite DEF fat32_write_cluster
  <1>3. /\ parent \in ReachableDirs' /\ parent # cluster /\ parent \in Clusters
    BY <1>0, ParentStays, ParentOwned
  <1>4. Closed(own)'
    BY <1>0 DEF Sound, Closed
  <1>5. EntriesKept(own)'
    <2>1. ASSUME NEW p \in ReachableDirs', NEW n \in Names, ~Replaced(p, n)'
          PROVE  Owns(own, p, n)' /\ Keeps(own, p, n)'
      <3>1. ~Replaced(p, n) /\ p \in ReachableDirs /\ p \in Clusters /\ <<p, n>> # FRESH
        BY <1>0, <1>1, <1>2, <2>1, CallDirs, Labels DEF Replaced, TypeInv
      <3>2. \A d \in Clusters : own[d] = <<p, n>> => d # cluster
        BY <1>0, <3>1
      <3>3. p # cluster
        <4> SUFFICES ASSUME p = cluster PROVE FALSE
          OBVIOUS
        <4>1. disk' = disk
          BY <1>0, <2>1, FreshWrite DEF fat32_write_cluster
        <4>2. cluster # Root
          BY DEF TypeInv, BuildOK, Sound
        <4>5. op = "write"
          BY <1>0, <3>1, <4>2, FreshDir
        <4>6. disk'[cluster].kind = "data"
          BY <1>2, <4>5 DEF NewContents, Chunk
        <4>7. DirIn(disk', p)
          BY <2>1, ReachIs, ReachDirs DEF VolOK
        <4> QED
          BY <4>6, <4>7 DEF DirIn
      <3>4. Entry(p, n)' = Entry(p, n)
        BY <1>2, <3>1, <3>3 DEF Entry
      <3> QED
        BY <1>0, <1>2, <3>1, <3>2, <3>4, OthersKept
    <2> QED
      BY <2>1 DEF EntriesKept
  <1>6. Replacing(own)'
    <2>1. disk'[parent] = disk[parent]
      BY <1>2, <1>3
    <2> QED
      BY <1>0, <1>1, <1>3, <2>1 DEF Sound, Replacing, InCall
  <1>7. Building(own)'
    <2>1. op = "mkdir" => disk'[first] = Dir(EmptyDir)
      BY <1>0, <1>2 DEF Sound, Building, NewContents
    <2> QED
      BY <1>0, <1>1, <2>1 DEF Building
  <1>8. Written(own)'
    <2> SUFFICES ASSUME op = "write", ~broken
                 PROVE  /\ disk'[first] = Chunk(data, 0) /\ disk'[cluster] = Chunk(data, index)
                        /\ \A d \in Clusters, k \in 0 .. MaxSize :
                              own[d] = FRESH /\ disk'[d] = Chunk(data, k) =>
                                 /\ k < index + 1
                                 /\ k = index => d = cluster
                                 /\ k + 1 < index + 1 =>
                                       fat1[d] \in Clusters /\ disk'[fat1[d]] = Chunk(data, k + 1)
      <3>1. (index + 1) - 1 = index
        BY <1>0
      <3> QED
        BY <1>0, <1>1, <3>1 DEF Written
    <2>1. /\ index > 0 => disk[first] = Chunk(data, 0) /\ disk[prev] = Chunk(data, index - 1)
          /\ \A d \in Clusters, k \in 0 .. MaxSize :
                own[d] = FRESH /\ disk[d] = Chunk(data, k) /\ d # cluster =>
                   /\ k < index
                   /\ k = index - 1 => d = prev
                   /\ k + 1 < index => fat1[d] \in Clusters /\ disk[fat1[d]] = Chunk(data, k + 1)
          /\ index > 0 => fat1[prev] = cluster
      BY <1>0 DEF Sound, Written
    <2>2. disk'[cluster] = Chunk(data, index)
      BY <1>2 DEF NewContents
    <2>3. disk'[first] = Chunk(data, 0)
      <3>1. CASE index = 0
        BY <1>0, <2>2, <3>1 DEF Sound, Building
      <3>2. CASE index > 0
        <4>1. first # cluster
          BY <1>0, <3>2 DEF Sound, Building
        <4> QED
          BY <1>0, <1>2, <2>1, <3>2, <4>1
      <3> QED
        BY <1>0, <3>1, <3>2
    <2>4. ASSUME NEW d \in Clusters, NEW k \in 0 .. MaxSize, own[d] = FRESH, disk'[d] = Chunk(data, k)
          PROVE  /\ k < index + 1
                 /\ k = index => d = cluster
                 /\ k + 1 < index + 1 => fat1[d] \in Clusters /\ disk'[fat1[d]] = Chunk(data, k + 1)
      <3>1. CASE d = cluster
        <4>1. k = index
          BY <2>2, <2>4, <3>1 DEF Chunk
        <4> QED
          BY <1>0, <3>1, <4>1
      <3>2. CASE d # cluster
        <4>1. disk[d] = Chunk(data, k)
          BY <1>2, <2>4, <3>2
        <4>2. /\ k < index
              /\ k = index - 1 => d = prev
              /\ k + 1 < index => fat1[d] \in Clusters /\ disk[fat1[d]] = Chunk(data, k + 1)
          BY <2>1, <2>4, <3>2, <4>1
        <4>3. CASE k + 1 < index
          <5>1. d # prev
            <6>1. \A i \in 0 .. MaxSize : Chunk(data, i) = Chunk(data, index - 1) => i = index - 1
              BY DEF Chunk
            <6> QED
              BY <1>0, <2>1, <4>1, <4>3, <6>1
          <5>2. fat1[d] # cluster
            BY <1>0, <2>4, <5>1 DEF Sound, Building
          <5> QED
            BY <1>0, <1>2, <4>2, <4>3, <5>2
        <4>4. CASE k + 1 = index
          <5>1. d = prev /\ fat1[prev] = cluster
            BY <1>0, <2>1, <4>2, <4>4
          <5> QED
            BY <1>0, <2>2, <4>4, <5>1
        <4> QED
          BY <1>0, <4>2, <4>3, <4>4
      <3> QED
        BY <3>1, <3>2
    <2> QED
      BY <2>2, <2>3, <2>4
  <1> QED
    BY <1>4, <1>5, <1>6, <1>7, <1>8 DEF Sound

(* A call ends without having touched the entry: what it had built belongs  *)
(* to nobody. *)
LEMMA RestDropped ==
    ASSUME TypeInv, NEW own, Sound(own), NEW o, Drop(own, o, FRESH),
           freed => pc = "fsinfo",
           \A c \in Clusters : own[c] \notin {NOBODY, FRESH} => fat1'[c] = fat1[c] /\ disk'[c] = disk[c],
           ReachableDirs' \subseteq ReachableDirs,
           \A p \in ReachableDirs' : disk'[p] = disk[p]
    PROVE  AtRest(o)'
  <1>0. /\ \A p, n : ~Replaced(p, n)
        /\ \A c \in Clusters : o[c] # FRESH /\ (o[c] # NOBODY => o[c] = own[c] /\ own[c] \notin {NOBODY, FRESH})
        /\ o[Root] = NOBODY
    BY Labels, RootCluster DEF Replaced, Drop, Sound
  <1>1. ASSUME NEW c \in Clusters, o[c] # NOBODY
        PROVE  fat1'[c] # FREE /\ (fat1'[c] \in Clusters => o[fat1'[c]] = o[c])
    <2>1. fat1'[c] = fat1[c] /\ o[c] = own[c] /\ own[c] \notin {NOBODY, FRESH}
      BY <1>0, <1>1
    <2>2. fat1[c] # FREE /\ (fat1[c] \in Clusters => own[fat1[c]] = own[c])
      BY <2>1 DEF Sound, Closed
    <2> QED
      BY <2>1, <2>2 DEF Drop
  <1>2. ASSUME NEW p \in ReachableDirs', NEW n \in Names
        PROVE  Owns(o, p, n)' /\ Keeps(o, p, n)'
    <2>1. p \in ReachableDirs /\ p \in Clusters /\ <<p, n>> \notin {NOBODY, FRESH}
      BY <1>2, CallDirs, Labels DEF TypeInv
    <2>2. Entry(p, n)' = Entry(p, n)
      BY <1>2 DEF Entry
    <2>3. \A c \in Clusters : o[c] = <<p, n>> <=> own[c] = <<p, n>>
      BY <2>1 DEF Drop
    <2> QED
      BY <1>0, <2>1, <2>2, <2>3, OthersKept
  <1> QED
    BY <1>0, <1>1, <1>2 DEF AtRest, Drop

(* Writing a cluster failed, and the call had freed nothing.                *)
LEMMA DataFailedRest ==
    ASSUME TypeInv, VolOK', NEW own, Sound(own), DataFailed, ~damage', ~damage,
           NEW o, Drop(own, o, FRESH)
    PROVE  AtRest(o)'
  <1>0. /\ pc = "data" /\ ~freed /\ cluster \in Clusters /\ cluster # Root /\ own[cluster] = FRESH
    BY DEF DataFailed, Fail, TypeInv, BuildOK, Sound, Building
  <1>1. fat32_write_cluster(cluster, NewContents, FALSE)
    BY DEF DataFailed
  <1>2. /\ ReachableDirs' \subseteq ReachableDirs
        /\ \A c \in Clusters \ {cluster} : disk'[c] = disk[c]
    BY <1>0, <1>1, FreshWrite
  <1>3. \A c \in Clusters \ {cluster} : fat1'[c] = fat1[c]
    BY DEF DataFailed, fat32_set_next_cluster, TypeInv, VolOK
  <1>4. cluster \notin ReachableDirs
    BY <1>0, FreshDir
  <1>5. \A p \in ReachableDirs' : disk'[p] = disk[p]
    BY <1>2, <1>4, CallDirs DEF TypeInv
  <1> QED
    BY <1>0, <1>2, <1>3, <1>5, RestDropped

(* o is own, but the new chain belongs to the entry of the call, and what   *)
(* the entry had to nobody.                                                 *)
Give(own, o) ==
    /\ o \in [Clusters -> Owners]
    /\ \A c \in Clusters : o[c] = IF own[c] = FRESH THEN Self
                                  ELSE IF own[c] = Self THEN NOBODY ELSE own[c]

(* There is such a map.                                                     *)
LEMMA GiveExists ==
    ASSUME NEW own \in [Clusters -> Owners], Self \in Owners
    PROVE  \E o : Give(own, o)
  <1> DEFINE o == [c \in Clusters |-> IF own[c] = FRESH THEN Self
                                      ELSE IF own[c] = Self THEN NOBODY ELSE own[c]]
  <1>1. Give(own, o)
    BY DEF Give, Owners
  <1> QED
    BY <1>1

(* A call ends with the new chain in the entry's place.                     *)
LEMMA RestGiven ==
    ASSUME TypeInv, NEW own, Sound(own), InCall, pc # "free", NEW o, Give(own, o), fat1' = fat1,
           \A c \in Clusters \ {parent} : disk'[c] = disk[c],
           \A p \in ReachableDirs' : p \in ReachableDirs \/ \A n \in Names : disk'[p].ents[n].attr = "none",
           \A n \in Names \ {name} : disk'[parent].ents[n] = disk[parent].ents[n],
           NEW q, NEW m, Self = <<q, m>>, Owns(o, q, m)', Keeps(o, q, m)'
    PROVE  AtRest(o)'
  <1>0. /\ parent \in ReachableDirs /\ parent \in Clusters /\ name \in Names
        /\ Self \notin {NOBODY, FRESH} /\ own[parent] \notin {FRESH, Self}
        /\ NOBODY # FRESH
    BY ParentOwned, Labels DEF Self
  <1>1. o[Root] = NOBODY /\ \A c \in Clusters : o[c] # FRESH
    BY <1>0, RootCluster DEF Give, Sound
  <1>2. ASSUME NEW c \in Clusters, o[c] # NOBODY
        PROVE  fat1'[c] # FREE /\ (fat1'[c] \in Clusters => o[fat1'[c]] = o[c])
    <2>1. own[c] # NOBODY
      BY <1>0, <1>2 DEF Give
    <2>2. fat1[c] # FREE /\ (fat1[c] \in Clusters => own[fat1[c]] = own[c])
      BY <2>1 DEF Sound, Closed
    <2> QED
      BY <2>2 DEF Give
  <1>3. ASSUME NEW p \in ReachableDirs', NEW n \in Names
        PROVE  Owns(o, p, n)' /\ Keeps(o, p, n)'
    <2>1. CASE p \notin ReachableDirs
      BY <1>3, <2>1 DEF Owns, Keeps, Entry
    <2>2. CASE p \in ReachableDirs /\ p = parent /\ n = name
      <3>1. p = q /\ n = m
        BY <2>2, Labels DEF Self
      <3> QED
        BY <3>1
    <2>3. CASE p \in ReachableDirs /\ ~(p = parent /\ n = name)
      <3>1. /\ p \in Clusters /\ <<p, n>> \notin {NOBODY, FRESH} /\ <<p, n>> # Self
        BY <2>3, CallDirs, Labels DEF TypeInv, Self
      <3>2. Entry(p, n)' = Entry(p, n)
        BY <2>3, <3>1 DEF Entry
      <3>3. \A c \in Clusters : o[c] = <<p, n>> <=> own[c] = <<p, n>>
        BY <3>1 DEF Give
      <3>4. ~Replaced(p, n)
        BY <3>1 DEF Replaced
      <3>5. \A c \in Clusters : own[c] = <<p, n>> => (Entry(p, n).attr = "file" => disk'[c] = disk[c])
        BY <2>3, ParentOwned
      <3> QED
        BY <2>3, <3>2, <3>3, <3>4, <3>5, OthersKept
    <2> QED
      BY <2>1, <2>2, <2>3
  <1> QED
    BY <1>1, <1>2, <1>3 DEF AtRest, Give

(* What the directory write stores. *)
LEMMA EntryStored ==
    ASSUME TypeInv, VolOK', NEW own, Sound(own), pc = "entry",
           disk' = [disk EXCEPT ![parent] = NewDirectory]
    PROVE  /\ \A c \in Clusters \ {parent} : disk'[c] = disk[c]
           /\ \A n \in Names \ {name} : disk'[parent].ents[n] = disk[parent].ents[n]
           /\ disk'[parent].ents[name] = IF op \in {"write", "mkdir"} THEN NewEntry ELSE NoEntry
           /\ DirIn(disk', parent) /\ DirIn(disk, parent)
  <1>0. InCall /\ parent \in ReachableDirs /\ parent \in Clusters /\ name \in Names /\ VolOK
    BY ParentOwned DEF InCall, TypeInv
  <1>1. IsDir(parent) /\ disk[parent].ents \in [Names -> Entries] /\ copy = disk[parent].ents
    BY <1>0, CallDirs DEF Sound, Replacing
  <1> DEFINE X == IF op \in {"write", "mkdir"} THEN NewEntry ELSE NoEntry
             e == [disk[parent].ents EXCEPT ![name] = X]
  <1>2. NewDirectory = Dir(e)
    BY <1>1 DEF NewDirectory
  <1>3. e[name] = X /\ \A n \in Names \ {name} : e[n] = disk[parent].ents[n]
    BY <1>0, <1>1
  <1> HIDE DEF X, e
  <1>4. disk'[parent] = Dir(e) /\ \A c \in Clusters \ {parent} : disk'[c] = disk[c]
    BY <1>0, <1>2 DEF VolOK
  <1>5. Dir(e).kind = "dir" /\ Dir(e).ents = e
    BY DEF Dir
  <1> QED
    BY <1>1, <1>3, <1>4, <1>5 DEF DirIn, IsDir, X

(* It adds the directory that create_directory_in has made, an empty one,   *)
(* to the tree, and nothing else.                                           *)
LEMMA EntryReach ==
    ASSUME TypeInv, VolOK', NEW own, Sound(own), pc = "entry",
           disk' = [disk EXCEPT ![parent] = NewDirectory]
    PROVE  \A p \in ReachableDirs' : p \in ReachableDirs \/ \A n \in Names : disk'[p].ents[n].attr = "none"
  <1>0. /\ InCall /\ parent \in ReachableDirs /\ parent \in Clusters /\ name \in Names /\ VolOK
        /\ own[parent] # FRESH
    BY ParentOwned DEF InCall, TypeInv
  <1>1. /\ \A c \in Clusters \ {parent} : disk'[c] = disk[c]
        /\ \A n \in Names \ {name} : disk'[parent].ents[n] = disk[parent].ents[n]
        /\ disk'[parent].ents[name] = IF op \in {"write", "mkdir"} THEN NewEntry ELSE NoEntry
        /\ DirIn(disk', parent) /\ DirIn(disk, parent)
    BY EntryStored
  <1>2. Root \in ReachableDirs /\ IsClosed(disk, ReachableDirs) /\ ReachableDirs \subseteq Clusters
    BY <1>0, ReachIs, ReachDirs DEF VolOK
  <1>3. disk'[parent].ents[name].attr = "dir" => op = "mkdir" /\ disk'[parent].ents[name].first = first
    BY <1>1 DEF NewEntry, NoEntry
  <1>4. op = "mkdir" => /\ first \in Clusters /\ first # parent
                        /\ \A n \in Names : disk'[first].ents[n].attr = "none"
    <2> SUFFICES ASSUME op = "mkdir"
                 PROVE  /\ first \in Clusters /\ first # parent
                        /\ \A n \in Names : disk'[first].ents[n].attr = "none"
      OBVIOUS
    <2>1. first \in Clusters /\ first # 0
      BY Marks DEF TypeInv, BuildOK, CallOK
    <2>2. own[first] = FRESH /\ disk[first] = Dir(EmptyDir)
      BY <2>1 DEF Sound, Building
    <2>3. first # parent
      BY <1>0, <2>2
    <2> QED
      BY <1>1, <2>1, <2>2, <2>3 DEF Dir, EmptyDir, NoEntry
  <1> DEFINE S == IF op = "mkdir" THEN ReachableDirs \union {first} ELSE ReachableDirs
  <1>5. ASSUME NEW p \in S, NEW n \in Names, disk'[p].ents[n].attr = "dir",
               DirIn(disk', disk'[p].ents[n].first)
        PROVE  disk'[p].ents[n].first \in S
    <2>1. CASE p \notin ReachableDirs
      BY <1>4, <1>5, <2>1
    <2>2. CASE p = parent /\ n = name
      BY <1>3, <1>5, <2>2
    <2>3. CASE p \in ReachableDirs /\ ~(p = parent /\ n = name)
      <3>1. disk'[p].ents[n] = disk[p].ents[n] /\ p \in Clusters
        BY <1>1, <1>2, <2>3
      <3> DEFINE f == disk[p].ents[n].first
      <3>2. f \in Clusters
        BY <1>0, <1>5, <2>3, <3>1, CallDirs DEF Entry, GoodEntry
      <3>3. DirIn(disk, f)
        BY <1>1, <1>5, <3>1, <3>2 DEF DirIn
      <3> QED
        BY <1>2, <1>5, <2>3, <3>1, <3>3 DEF IsClosed
    <2> QED
      BY <2>1, <2>2, <2>3
  <1>6. IsClosed(disk', S) /\ Root \in S
    BY <1>2, <1>5 DEF IsClosed
  <1>7. ReachableDirs' \subseteq S
    BY <1>6, ReachLeast, ReachIs
  <1> QED
    BY <1>4, <1>7

(* After the directory write the new chain is the entry's.                  *)
LEMMA EntryRest ==
    ASSUME TypeInv, VolOK', NEW own, Sound(own), pc = "entry", fat1' = fat1,
           disk' = [disk EXCEPT ![parent] = NewDirectory], NEW o, Give(own, o)
    PROVE  AtRest(o)'
  <1>0. /\ InCall /\ parent \in Clusters /\ own[parent] # FRESH /\ name \in Names
        /\ Self \notin {NOBODY, FRESH} /\ NOBODY # FRESH
    BY ParentOwned, Labels DEF InCall, Self
  <1>p. PICK q, m : q = parent /\ m = name
    OBVIOUS
  <1>s. Self = <<q, m>>
    BY <1>p DEF Self
  <1>1. /\ \A c \in Clusters \ {parent} : disk'[c] = disk[c]
        /\ \A n \in Names \ {name} : disk'[parent].ents[n] = disk[parent].ents[n]
        /\ disk'[q].ents[m] = IF op \in {"write", "mkdir"} THEN NewEntry ELSE NoEntry
    BY <1>p, EntryStored
  <1>2. first # 0 => own[first] = FRESH /\ o[first] = Self /\ first \in Clusters
    BY DEF Sound, Building, Give, TypeInv, BuildOK
  <1>3. Owns(o, q, m)' /\ Keeps(o, q, m)'
    <2>1. CASE op \notin {"write", "mkdir"}
      BY <1>1, <2>1 DEF Owns, Keeps, Entry, NoEntry
    <2>2. CASE op = "mkdir"
      BY <1>1, <1>2, <1>s, <2>2 DEF Owns, Keeps, Entry, NewEntry
    <2>3. CASE op = "write"
      <3> DEFINE E == disk'[q].ents[m]
      <3>1. E.attr = "file" /\ E.first = first /\ E.size = size /\ E.what = IF broken THEN LOST ELSE data
        BY <1>1, <2>3 DEF NewEntry
      <3>3. Owns(o, q, m)'
        BY <1>2, <1>s, <3>1 DEF Owns, Entry
      <3>4. ASSUME ~broken, size > 0
            PROVE  /\ first \in Clusters /\ disk'[first] = Chunk(data, 0)
                   /\ \A c \in Clusters, k \in 0 .. size - 2 :
                         o[c] = Self /\ disk'[c] = Chunk(data, k) =>
                             fat1[c] \in Clusters /\ disk'[fat1[c]] = Chunk(data, k + 1)
        <4>0. size \in Nat /\ index = size /\ first \in Clusters /\ first # 0 /\ size <= MaxSize
          BY <2>3, <3>4, Fat32Assumption, Marks DEF TypeInv, BuildOK, CallOK
        <4>1. /\ disk[first] = Chunk(data, 0)
              /\ \A d \in Clusters, k \in 0 .. MaxSize :
                    own[d] = FRESH /\ disk[d] = Chunk(data, k) /\ k + 1 < index =>
                        fat1[d] \in Clusters /\ disk[fat1[d]] = Chunk(data, k + 1)
          BY <2>3, <3>4, <4>0 DEF Sound, Written
        <4>2. disk'[first] = Chunk(data, 0)
          BY <1>0, <1>1, <1>2, <4>0, <4>1
        <4>3. ASSUME NEW c \in Clusters, NEW k \in 0 .. size - 2, o[c] = Self, disk'[c] = Chunk(data, k)
              PROVE  fat1[c] \in Clusters /\ disk'[fat1[c]] = Chunk(data, k + 1)
          <5>1. own[c] = FRESH
            BY <1>0, <4>3 DEF Give
          <5>2. disk[c] = Chunk(data, k)
            BY <1>0, <1>1, <4>3, <5>1
          <5>3. k \in 0 .. MaxSize /\ k + 1 < index
            BY <4>0, Fat32Assumption
          <5>4. fat1[c] \in Clusters /\ disk[fat1[c]] = Chunk(data, k + 1)
            BY <4>1, <5>1, <5>2, <5>3
          <5>5. own[fat1[c]] = FRESH
            BY <1>0, <5>1, <5>4 DEF Sound, Closed
          <5> QED
            BY <1>0, <1>1, <5>4, <5>5
        <4> QED
          BY <4>0, <4>2, <4>3
      <3>5. Keeps(o, q, m)'
        <4> HIDE DEF E
        <4> SUFFICES E.attr = "file" /\ E.what # LOST /\ E.size > 0 =>
                /\ E.first \in Clusters /\ disk'[E.first] = Chunk(E.what, 0)
                /\ \A c \in Clusters, k \in 0 .. E.size - 2 :
                      o[c] = Self /\ disk'[c] = Chunk(E.what, k) =>
                          fat1'[c] \in Clusters /\ disk'[fat1'[c]] = Chunk(E.what, k + 1)
          BY <1>s DEF Keeps, Entry, E
        <4> QED
          BY <3>1, <3>4
      <3> QED
        BY <3>3, <3>5
    <2> QED
      BY <2>1, <2>2, <2>3
  <1> QED
    BY <1>0, <1>1, <1>3, <1>s, EntryReach, RestGiven

(* The disk is full: the entry keeps its name, its old first cluster, which *)
(* is now its only one or the beginning of the chain the call has built,    *)
(* and no data.                                                             *)
LEMMA FullRest ==
    ASSUME TypeInv, NEW own, Sound(own), AllocFull, ~damage', ~damage, NEW o,
           IF freed THEN Give(own, o) ELSE Drop(own, o, FRESH)
    PROVE  AtRest(o)'
  <1>0. /\ pc = "alloc" /\ fat1' = fat1 /\ InCall /\ FreeFrom(scan) = {} /\ VolOK
        /\ (freed => ~opfault)
    BY DEF AllocFull, Fail, InCall, TypeInv
  <1>1. CASE ~freed
    <2>1. disk' = disk
      BY <1>1 DEF AllocFull, MarkLost
    <2> QED
      BY <1>0, <1>1, <2>1, SameDirs, RestDropped
  <1>2. CASE freed
    <2>0. /\ ~opfault /\ MarkLost /\ scan = 2
      BY <1>0, <1>2 DEF AllocFull, TypeInv, BuildOK
    <2>1. /\ parent \in ReachableDirs /\ parent \in Clusters /\ name \in Names /\ IsDir(parent)
          /\ disk[parent].ents \in [Names -> Entries] /\ disk[parent] = Dir(disk[parent].ents)
          /\ copy = disk[parent].ents
      BY <1>0, ParentOwned, CallDirs, DirContents DEF VolOK, DirIn, IsDir, Sound, Replacing
    <2> DEFINE E == disk[parent].ents[name]
               F == [E EXCEPT !.what = LOST]
               e == [disk[parent].ents EXCEPT ![name] = F]
    <2>2. F.first = E.first /\ F.attr = E.attr /\ F.what = LOST
      BY <2>1 DEF Entries
    <2>3. disk' = [disk EXCEPT ![parent] = [disk[parent] EXCEPT !.ents = e]]
      BY <1>2, <2>0, <2>1 DEF MarkLost
    <2>4. e[name] = F /\ \A n \in Names \ {name} : e[n] = disk[parent].ents[n]
      BY <2>1
    <2>5. [disk[parent] EXCEPT !.ents = e] = Dir(e)
      <3> HIDE DEF e
      <3> QED
        BY <2>1 DEF Dir
    <2> HIDE DEF e
    <2>6. /\ disk'[parent] = Dir(e) /\ Dir(e).ents = e /\ Dir(e).kind = "dir"
          /\ \A c \in Clusters \ {parent} : disk'[c] = disk[c]
      BY <1>0, <2>1, <2>3, <2>5 DEF VolOK, Dir
    <2>7. /\ disk'[parent].ents[name] = F
          /\ \A n \in Names \ {name} : disk'[parent].ents[n] = disk[parent].ents[n]
      BY <2>4, <2>6
    <2>8. ReachableDirs' \subseteq ReachableDirs
      <3>1. /\ Root \in ReachableDirs /\ IsClosed(disk, ReachableDirs) /\ ReachableDirs \subseteq Clusters
        BY <1>0, ReachIs, ReachDirs DEF VolOK
      <3>2. ASSUME NEW p \in ReachableDirs, NEW n \in Names, disk'[p].ents[n].attr = "dir",
                   DirIn(disk', disk'[p].ents[n].first)
            PROVE  disk'[p].ents[n].first \in ReachableDirs
        <4> DEFINE f == disk[p].ents[n].first
        <4>1. disk'[p].ents[n].attr = disk[p].ents[n].attr /\ disk'[p].ents[n].first = f
          BY <2>2, <2>6, <2>7, <3>1
        <4>2. f \in Clusters
          BY <1>0, <3>2, <4>1, CallDirs DEF Entry, GoodEntry
        <4>3. DirIn(disk, f)
          BY <2>1, <2>6, <3>2, <4>1, <4>2 DEF DirIn, IsDir
        <4> QED
          BY <3>1, <3>2, <4>1, <4>3 DEF IsClosed
      <3>3. IsClosed(disk', ReachableDirs)
        BY <3>2 DEF IsClosed
      <3> QED
        BY <3>1, <3>3, ReachLeast, ReachIs
    <2>9. PICK q, m : q = parent /\ m = name
      OBVIOUS
    <2>10. Self = <<q, m>>
      BY <2>9 DEF Self
    <2>11. OldFirst = E.first /\ OldFirst \in Clusters /\ own[OldFirst] = FRESH
      <3>1. OldFirst = E.first
        BY <2>1 DEF OldFirst
      <3>2. OldFirst \in Clusters /\ (fat1[OldFirst] = FREE \/ own[OldFirst] = FRESH)
        BY <1>0, <1>2, <2>0 DEF Sound, Replacing
      <3>3. fat1[OldFirst] # FREE
        BY <1>0, <2>0, <3>2 DEF FreeFrom, Clusters
      <3> QED
        BY <3>1, <3>2, <3>3
    <2>12. o[E.first] = <<q, m>>
      BY <1>2, <2>10, <2>11 DEF Give
    <2>13. disk'[q].ents[m] = F
      BY <2>7, <2>9
    <2>14. Owns(o, q, m)' /\ Keeps(o, q, m)'
      <3> HIDE DEF E, F
      <3> QED
        BY <2>2, <2>12, <2>13 DEF Owns, Keeps, Entry
    <2> QED
      BY <1>0, <1>2, <2>6, <2>7, <2>8, <2>10, <2>14, RestGiven
  <1> QED
    BY <1>1, <1>2

(* A call ends, or the machine is switched off, with volume and directory   *)
(* as they were.                                                            *)
LEMMA QuietRest ==
    ASSUME TypeInv, NEW own, Sound(own), freed => pc = "fsinfo", fat1' = fat1, disk' = disk,
           NEW o, Drop(own, o, FRESH)
    PROVE  AtRest(o)'
  BY SameDirs, RestDropped

(* A formatted volume has no directory but the root.                        *)
LEMMA FormattedRest ==
    ASSUME NEW d, GoodDirs(d), d[Root] = Dir(EmptyDir)
    PROVE  ReachIn(d) = {Root}
  <1>1. IsClosed(d, {Root})
    BY DEF IsClosed, Dir, EmptyDir, NoEntry
  <1>2. ReachIn(d) \subseteq {Root} /\ Root \in ReachIn(d)
    BY <1>1, ReachLeast, ReachDirs
  <1> QED
    BY <1>2

(* Some map of owners is sound, as long as no fault has hit a call between  *)
(* freeing and its directory write.                                         *)
SoundInv == damage \/ \E own : Sound(own)

(* Init establishes it ...                                                  *)
LEMMA SoundInit == Init => SoundInv
  <1> SUFFICES ASSUME Init PROVE \E own : Sound(own)
    BY DEF SoundInv
  <1> DEFINE own == [c \in Clusters |-> NOBODY]
  <1>1. TypeInv
    BY InitType
  <1>2. disk[Root] = Dir(EmptyDir)
    BY RootCluster DEF Init, FormattedDisk
  <1>3. ReachableDirs = {Root}
    BY <1>1, <1>2, FormattedRest, ReachIs DEF TypeInv, VolOK
  <1>4. \A n \in Names : Entry(Root, n) = NoEntry
    BY <1>2 DEF Entry, Dir, EmptyDir
  <1>5. AtRest(own)
    BY <1>3, <1>4, RootCluster, Labels DEF AtRest, Owners, Owns, Keeps, NoEntry
  <1> QED
    BY <1>5, RestSound DEF Init

(* ... fat32_format keeps or establishes it ...                             *)
LEMMA FormatSound ==
    ASSUME TypeInv, VolOK', SoundInv, NEW stage \in FormatStages, fat32_format(stage)
    PROVE  SoundInv'
  <1> SUFFICES ASSUME ~damage' PROVE \E own : Sound(own)'
    BY DEF SoundInv
  <1>0. pc \in {"off", "idle"} /\ pc' = pc /\ ~freed /\ freed' = freed
    BY DEF fat32_format, TypeInv, CallOK
  <1>1. CASE stage = 4
    <2> DEFINE own == [c \in Clusters |-> NOBODY]
    <2>1. disk'[Root] = Dir(EmptyDir)
      BY <1>1, RootCluster DEF fat32_format, FormattedDisk, TypeInv, VolOK
    <2>2. ReachableDirs' = {Root}
      BY <2>1, FormattedRest, ReachIs DEF VolOK
    <2>3. \A n \in Names : Entry(Root, n)' = NoEntry
      BY <2>1 DEF Entry, Dir, EmptyDir
    <2>4. AtRest(own)'
      BY <2>2, <2>3, RootCluster, Labels DEF AtRest, Owners, Owns, Keeps, NoEntry
    <2> QED
      BY <1>0, <2>4, RestSoundNext
  <1>2. CASE stage # 4
    <2>0. ~damage /\ ~(stage >= 2) /\ stage \in Int
      <3>1. ~(damage \/ stage >= 2)
        BY <1>2, Zenon DEF fat32_format
      <3> QED
        BY <3>1 DEF FormatStages
    <2>1. ~damage /\ fat1' = fat1 /\ disk' = disk
      BY <1>2, <2>0 DEF fat32_format
    <2>2. PICK own : Sound(own)
      BY <2>1 DEF SoundInv
    <2>3. PICK o : Drop(own, o, FRESH)
      BY <2>2, DropExists DEF Sound
    <2>4. AtRest(o)'
      BY <1>0, <2>1, <2>2, <2>3, QuietRest
    <2> QED
      BY <1>0, <2>4, RestSoundNext
  <1> QED
    BY <1>1, <1>2

(* ... and so does every other step.                                        *)
LEMMA SoundStep == TypeInv /\ VolOK' /\ SoundInv /\ Next => SoundInv'
  <1> SUFFICES ASSUME TypeInv, VolOK', SoundInv, Next, ~damage' PROVE \E own : Sound(own)'
    BY DEF SoundInv
  <1>f. ASSUME NEW stage \in FormatStages, fat32_format(stage) PROVE \E own : Sound(own)'
    BY <1>f, FormatSound DEF SoundInv
  <1> SUFFICES ASSUME \A stage \in FormatStages : ~fat32_format(stage) PROVE \E own : Sound(own)'
    BY <1>f
  <1>0. ~damage
    BY DEF Next, fat32_init, Crash, fat32_write_file_in, fat32_create_directory_in,
           fat32_delete_file, fat32_delete_directory_in, Call, fat32_free_cluster, FreeDone,
           AllocTake, Taken, AllocSkip, AllocFull, Link, DataWritten, DataFailed, EntryWritten,
           EntryFailed, fat32_update_fsinfo, Fail, observed
  <1>1. PICK own : Sound(own)
    BY <1>0 DEF SoundInv
  <1>d. PICK drop : Drop(own, drop, FRESH)
    BY <1>1, DropExists DEF Sound
  <1>r. ASSUME NEW o, AtRest(o)', pc' \in {"off", "idle", "fsinfo"}, freed' => pc' = "fsinfo"
        PROVE  \E x : Sound(x)'
    BY <1>r, RestSoundNext
  <1>n. NoCall => ~freed'
    BY DEF NoCall
  <1>2. CASE fat32_init
    <2>1. fat1' = fat1 /\ disk' = disk /\ ~freed /\ freed' = freed /\ pc' = "idle"
      BY <1>2 DEF fat32_init, volume, TypeInv, CallOK
    <2>2. AtRest(drop)'
      BY <1>1, <1>d, <2>1, QuietRest
    <2> QED
      BY <1>r, <2>1, <2>2
  <1>3. CASE Crash
    <2>1. fat1' = fat1 /\ disk' = disk /\ (freed => pc = "fsinfo") /\ ~freed' /\ pc' = "off"
      BY <1>3, <1>n DEF Crash, volume
    <2>2. AtRest(drop)'
      BY <1>1, <1>d, <2>1, QuietRest
    <2> QED
      BY <1>r, <2>1, <2>2
  <1>4. ASSUME NEW p \in ReachableDirs, NEW n \in Names, NEW d \in Data, NEW s \in 0 .. MaxSize,
                fat32_write_file_in(p, n, d, s)
        PROVE  Sound(own)'
    BY <1>1, <1>4, SoundCall DEF fat32_write_file_in
  <1>5. ASSUME NEW p \in ReachableDirs, NEW n \in Names, fat32_create_directory_in(p, n) PROVE Sound(own)'
    BY <1>1, <1>5, SoundCall DEF fat32_create_directory_in
  <1>6. ASSUME NEW n \in Names, fat32_delete_file(n) PROVE Sound(own)'
    <2>1. Root \in ReachableDirs
      BY ReachIs, ReachDirs DEF TypeInv, VolOK
    <2> QED
      BY <1>1, <1>6, <2>1, SoundCall DEF fat32_delete_file
  <1>7. ASSUME NEW p \in ReachableDirs, NEW n \in Names, fat32_delete_directory_in(p, n) PROVE Sound(own)'
    BY <1>1, <1>7, SoundCall DEF fat32_delete_directory_in
  <1>8. CASE fat32_free_cluster
    BY <1>1, <1>8, SoundFree
  <1>9. CASE FreeDone
    <2>1. PICK o : IF freed THEN Drop(own, o, Self) ELSE o = own
      BY <1>1, DropExists DEF Sound
    <2> QED
      BY <1>1, <1>9, <2>1, SoundFreeDone
  <1>10. ASSUME NEW c \in Clusters, AllocTake(c) PROVE \E x : Sound(x)'
    <2>1. PICK o : o = [own EXCEPT ![c] = FRESH]
      OBVIOUS
    <2> QED
      BY <1>1, <1>10, <2>1, SoundTake
  <1>11. ASSUME NEW c \in Clusters, AllocSkip(c) PROVE \E x : Sound(x)'
    BY <1>1, <1>11, SoundSkip
  <1>s. InCall => \E o : Give(own, o)
    <2> SUFFICES ASSUME InCall PROVE \E o : Give(own, o)
      OBVIOUS
    <2>1. Self \in Owners
      BY <1>1, ParentOwned DEF Self, Owners
    <2> QED
      BY <1>1, <2>1, GiveExists DEF Sound
  <1>12. CASE AllocFull
    <2>1. InCall /\ ~freed' /\ pc' = "idle"
      BY <1>12, <1>n DEF AllocFull, Fail, InCall
    <2>2. PICK o : IF freed THEN Give(own, o) ELSE Drop(own, o, FRESH)
      BY <1>d, <1>s, <2>1
    <2>3. AtRest(o)'
      BY <1>0, <1>1, <1>12, <2>2, FullRest
    <2> QED
      BY <1>r, <2>1, <2>3
  <1>13. CASE Link
    BY <1>1, <1>13, SoundLink
  <1>14. CASE DataWritten
    BY <1>1, <1>14, SoundData
  <1>15. CASE DataFailed
    <2>1. ~freed' /\ pc' = "idle"
      BY <1>15, <1>n DEF DataFailed, Fail
    <2>2. AtRest(drop)'
      BY <1>0, <1>1, <1>15, <1>d, DataFailedRest
    <2> QED
      BY <1>r, <2>1, <2>2
  <1>e. ASSUME pc = "entry", fat1' = fat1, disk' = [disk EXCEPT ![parent] = NewDirectory],
               pc' \in {"idle", "fsinfo"}, freed' => pc' = "fsinfo"
        PROVE  \E x : Sound(x)'
    <2>1. PICK o : Give(own, o)
      BY <1>s, <1>e DEF InCall
    <2>2. AtRest(o)'
      BY <1>1, <1>e, <2>1, EntryRest
    <2> QED
      BY <1>e, <1>r, <2>2
  <1>16. CASE EntryWritten
    BY <1>16, <1>e DEF EntryWritten, fat32_write_cluster
  <1>17. CASE EntryFailed
    <2>1. /\ pc = "entry" /\ fat1' = fat1 /\ pc' = "idle" /\ ~freed' /\ (disk' = disk => ~freed)
          /\ disk' = [disk EXCEPT ![parent] = NewDirectory] \/ disk' = disk
      BY <1>17, <1>n DEF EntryFailed, Fail, fat32_write_cluster
    <2>2. CASE disk' = disk
      <3>1. AtRest(drop)'
        BY <1>1, <1>d, <2>1, <2>2, QuietRest
      <3> QED
        BY <1>r, <2>1, <3>1
    <2> QED
      BY <1>e, <2>1, <2>2
  <1>18. CASE fat32_update_fsinfo
    <2>1. fat1' = fat1 /\ disk' = disk /\ ~freed' /\ pc' = "idle" /\ pc = "fsinfo"
      BY <1>18, <1>n DEF fat32_update_fsinfo
    <2>2. AtRest(drop)'
      BY <1>1, <1>d, <2>1, QuietRest
    <2> QED
      BY <1>r, <2>1, <2>2
  <1> QED
    BY <1>2, <1>3, <1>4, <1>5, <1>6, <1>7, <1>8, <1>9, <1>10, <1>11, <1>12, <1>13, <1>14,
       <1>15, <1>16, <1>17, <1>18 DEF Next

-----------------------------------------------------------------------------
(* What follows for chains and contents.                                    *)

(* f follows the links of fat from c for n steps. *)
IsWalk(f, fat, c, n) ==
    f = [k \in 0 .. n |-> IF k = 0 THEN c ELSE IF f[k - 1] \in Clusters THEN fat[f[k - 1]] ELSE EOC]

(* There is such a function.                                                *)
LEMMA WalkExists ==
    ASSUME NEW fat, NEW c, NEW n \in Nat
    PROVE  \E f : IsWalk(f, fat, c, n)
  <1> SUFFICES ASSUME ~ \E f : IsWalk(f, fat, c, n) PROVE FALSE
    OBVIOUS
  <1> DEFINE S == {m \in Nat : ~ \E f : IsWalk(f, fat, c, m)}
             After(x) == IF x \in Clusters THEN fat[x] ELSE EOC
  <1>1. PICK m \in S : \A t \in S : m <= t
    <2>1. S \subseteq Nat /\ S # {}
      OBVIOUS
    <2> HIDE DEF S
    <2> QED
      BY <2>1, Least
  <1>2. m \in Nat /\ ~ \E f : IsWalk(f, fat, c, m)
    OBVIOUS
  <1>a. ASSUME NEW g, NEW t \in Nat, g = [k \in 0 .. t |-> IF k = 0 THEN c ELSE After(g[k - 1])]
        PROVE  IsWalk(g, fat, c, t)
    BY <1>a DEF IsWalk
  <1>b. ASSUME NEW g, NEW t \in Nat, IsWalk(g, fat, c, t)
        PROVE  \A k \in 0 .. t : g[k] = IF k = 0 THEN c ELSE After(g[k - 1])
    BY <1>b DEF IsWalk
  <1> HIDE DEF After
  <1>3. m # 0
    <2> DEFINE f == [k \in 0 .. 0 |-> c]
    <2>1. f = [k \in 0 .. 0 |-> IF k = 0 THEN c ELSE After(f[k - 1])]
      OBVIOUS
    <2> HIDE DEF f
    <2>2. IsWalk(f, fat, c, 0)
      BY <2>1, <1>a
    <2> QED
      BY <1>2, <2>2
  <1>4. m - 1 \in Nat /\ m - 1 \notin S
    BY <1>1, <1>2, <1>3
  <1>5. PICK f : IsWalk(f, fat, c, m - 1)
    BY <1>4
  <1> DEFINE g == [k \in 0 .. m |-> IF k = m THEN After(f[m - 1]) ELSE f[k]]
  <1>6. \A k \in 0 .. m - 1 : f[k] = IF k = 0 THEN c ELSE After(f[k - 1])
    BY <1>4, <1>5, <1>b
  <1>7. ASSUME NEW k \in 0 .. m
        PROVE  g[k] = IF k = 0 THEN c ELSE After(g[k - 1])
    <2>1. CASE k = m
      BY <1>2, <1>3, <2>1
    <2>2. CASE k # m /\ k # 0
      <3>1. k \in 0 .. m - 1 /\ k - 1 \in 0 .. m /\ k - 1 # m
        BY <1>2, <2>2
      <3> QED
        BY <1>6, <2>2, <3>1
    <2>3. CASE k # m /\ k = 0
      <3>1. 0 \in 0 .. m - 1 /\ 0 \in 0 .. m
        BY <1>2, <2>3
      <3>2. f[0] = c
        BY <1>6, <3>1, Zenon
      <3>3. g[0] = f[0]
        BY <2>3, <3>1
      <3> HIDE DEF g
      <3> QED
        BY <2>3, <3>2, <3>3, Zenon
    <2> QED
      BY <2>1, <2>2, <2>3
  <1>8. g = [k \in 0 .. m |-> IF k = 0 THEN c ELSE After(g[k - 1])]
    BY <1>7
  <1> HIDE DEF g
  <1>9. IsWalk(g, fat, c, m)
    BY <1>2, <1>8, <1>a
  <1> QED
    BY <1>2, <1>9

(* The equation of the recursive function Walk.                             *)
LEMMA WalkIs ==
    ASSUME NEW c
    PROVE  /\ Walk(c)[0] = c
           /\ \A k \in 0 .. TotalClusters : k # 0 =>
                 /\ k - 1 \in 0 .. TotalClusters
                 /\ Walk(c)[k - 1] \in Clusters => Walk(c)[k] = fat1[Walk(c)[k - 1]]
                 /\ Walk(c)[k - 1] \notin Clusters => Walk(c)[k] = EOC
  <1>1. PICK g : IsWalk(g, fat1, c, TotalClusters)
    BY WalkExists, Fat32Assumption
  <1> DEFINE w == CHOOSE f : f = [k \in 0 .. TotalClusters |->
                     IF k = 0 THEN c ELSE IF f[k - 1] \in Clusters THEN fat1[f[k - 1]] ELSE EOC]
  <1>2. w = [k \in 0 .. TotalClusters |->
                     IF k = 0 THEN c ELSE IF w[k - 1] \in Clusters THEN fat1[w[k - 1]] ELSE EOC]
    BY <1>1 DEF IsWalk
  <1>3. Walk(c) = w
    BY DEF Walk
  <1> HIDE DEF w
  <1>4. \A k \in 0 .. TotalClusters :
            w[k] = IF k = 0 THEN c ELSE IF w[k - 1] \in Clusters THEN fat1[w[k - 1]] ELSE EOC
    BY <1>2
  <1>5. 0 \in 0 .. TotalClusters /\ \A k \in 0 .. TotalClusters : k # 0 => k - 1 \in 0 .. TotalClusters
    BY Fat32Assumption
  <1>6. w[0] = c
    BY <1>4, <1>5, Zenon
  <1> QED
    BY <1>3, <1>4, <1>5, <1>6, Zenon

(* A walk visits no cluster twice before it leaves the clusters.  *)
LEMMA WalkDistinct ==
    ASSUME ChainsAcyclic, NEW c,
           NEW i \in 0 .. TotalClusters, NEW j \in 0 .. TotalClusters, i < j,
           \A k \in i .. j : Walk(c)[k] \in Clusters
    PROVE  Walk(c)[i] # Walk(c)[j]
  <1> SUFFICES ASSUME Walk(c)[i] = Walk(c)[j] PROVE FALSE
    OBVIOUS
  <1> DEFINE S == {Walk(c)[k] : k \in i .. j - 1}
  <1>1. S \subseteq Clusters /\ S # {}
    BY Fat32Assumption
  <1>2. PICK d \in S : fat1[d] \notin S
    BY <1>1 DEF ChainsAcyclic
  <1>3. PICK k \in i .. j - 1 : d = Walk(c)[k]
    BY <1>2
  <1>4. k + 1 \in 0 .. TotalClusters /\ k + 1 # 0 /\ k \in i .. j /\ (k + 1) - 1 = k
    BY <1>3, Fat32Assumption
  <1>5. Walk(c)[k + 1] = fat1[d]
    BY <1>3, <1>4, WalkIs
  <1>6. CASE k + 1 = j
    <2>1. i \in i .. j - 1
      BY Fat32Assumption
    <2>2. Walk(c)[i] \in S
      BY <2>1
    <2> QED
      BY <1>2, <1>5, <1>6, <2>2
  <1>7. CASE k + 1 # j
    <2>1. k + 1 \in i .. j - 1
      BY <1>3, <1>7, Fat32Assumption
    <2> QED
      BY <1>2, <1>5, <2>1
  <1> QED
    BY <1>6, <1>7

(* A walk from a cluster leaves the clusters, after as many steps as its     *)
(* chain has clusters.                                                       *)
LEMMA WalkEnds ==
    ASSUME ChainsAcyclic, NEW c \in Clusters
    PROVE  LET n == Cardinality(ChainOf(c)) IN
           /\ n \in 1 .. TotalClusters
           /\ ChainOf(c) = {Walk(c)[k] : k \in 0 .. n - 1}
           /\ Walk(c)[n] \notin Clusters
  <1> DEFINE w == Walk(c)
             Out == {k \in 0 .. TotalClusters : w[k] \notin Clusters}
  <1>1. Out # {}
    <2> SUFFICES ASSUME Out = {} PROVE FALSE
      OBVIOUS
    <2>1. \A k \in 0 .. TotalClusters : w[k] \in Clusters
      OBVIOUS
    <2> DEFINE f == [k \in 0 .. TotalClusters |-> w[k]]
    <2>2. f \in [0 .. TotalClusters -> Clusters]
      BY <2>1
    <2>3. IsFiniteSet(0 .. TotalClusters) /\ Cardinality(0 .. TotalClusters) = TotalClusters + 1
      <3>1. 0 \in Int /\ TotalClusters \in Int
        BY Fat32Assumption
      <3>2. IsFiniteSet(0 .. TotalClusters)
            /\ Cardinality(0 .. TotalClusters) = IF 0 > TotalClusters THEN 0 ELSE TotalClusters - 0 + 1
        BY <3>1, FS_Interval
      <3> QED
        BY <3>2, Fat32Assumption
    <2>4. Cardinality(Clusters) < Cardinality(0 .. TotalClusters)
      BY <2>3, RootCluster, Fat32Assumption
    <2> HIDE DEF f
    <2>5. PICK i \in 0 .. TotalClusters, j \in 0 .. TotalClusters : i # j /\ f[i] = f[j]
      <3> DEFINE I == 0 .. TotalClusters
      <3>1. f \in [I -> Clusters] /\ IsFiniteSet(I) /\ IsFiniteSet(Clusters) /\ Cardinality(Clusters) < Cardinality(I)
        BY <2>2, <2>3, <2>4, RootCluster
      <3> HIDE DEF I
      <3>2. \E i, j \in I : i # j /\ f[i] = f[j]
        BY <3>1, FS_PigeonHole, SMT
      <3> QED
        BY <3>2 DEF I
    <2>6. w[i] = w[j]
      BY <2>5 DEF f
    <2>7. (\A k \in i .. j : w[k] \in Clusters) /\ (\A k \in j .. i : w[k] \in Clusters)
      BY <2>1, Fat32Assumption
    <2>8. i < j \/ j < i
      BY <2>5, Fat32Assumption
    <2> QED
      BY <2>6, <2>7, <2>8, WalkDistinct
  <1>2. PICK n \in Out : \A t \in Out : n <= t
    <2>1. Out \subseteq Nat
      BY Fat32Assumption
    <2> HIDE DEF Out
    <2> QED
      BY <1>1, <2>1, Least
  <1>3. n \in 0 .. TotalClusters /\ w[n] \notin Clusters
    OBVIOUS
  <1>4. \A k \in 0 .. n - 1 : k \in 0 .. TotalClusters /\ w[k] \in Clusters
    BY <1>2, <1>3, Fat32Assumption
  <1>5. n # 0
    BY <1>3, WalkIs
  <1>6. \A k \in n .. TotalClusters : w[k] \notin Clusters
    <2> DEFINE K == {k \in n .. TotalClusters : w[k] \in Clusters}
    <2> SUFFICES ASSUME K # {} PROVE FALSE
      OBVIOUS
    <2>1. PICK m \in K : \A t \in K : m <= t
      <3>1. K \subseteq Nat
        BY <1>3, Fat32Assumption
      <3> HIDE DEF K
      <3> QED
        BY <3>1, Least
    <2>2. m \in n .. TotalClusters /\ w[m] \in Clusters /\ m # n
      BY <1>3
    <2>3. m \in 0 .. TotalClusters /\ m # 0 /\ m - 1 \in n .. TotalClusters /\ ~(m <= m - 1)
      BY <1>3, <2>2, Fat32Assumption
    <2>4. w[m - 1] \notin Clusters
      BY <2>1, <2>3
    <2>5. w[m] = EOC
      BY <2>3, <2>4, WalkIs
    <2> QED
      BY <2>2, <2>5, Marks
  <1>7. ChainOf(c) = {w[k] : k \in 0 .. n - 1}
    <2>1. \A k \in 0 .. TotalClusters : k \in 0 .. n - 1 \/ k \in n .. TotalClusters
      BY <1>3, Fat32Assumption
    <2> QED
      BY <1>4, <1>6, <2>1 DEF ChainOf
  <1>8. Cardinality(ChainOf(c)) = n
    <2> DEFINE f == [k \in 0 .. n - 1 |-> w[k]]
    <2>1. ASSUME NEW i \in 0 .. n - 1, NEW j \in 0 .. n - 1, i < j PROVE w[i] # w[j]
      <3>1. \A k \in i .. j : k \in 0 .. n - 1
        BY <1>3, <2>1, Fat32Assumption
      <3> QED
        BY <1>4, <2>1, <3>1, WalkDistinct
    <2>2. \A i, j \in 0 .. n - 1 : i # j => i < j \/ j < i
      BY <1>3, Fat32Assumption
    <2>3. \A i, j \in 0 .. n - 1 : w[i] = w[j] => i = j
      BY <2>1, <2>2, Zenon
    <2>4. f \in [0 .. n - 1 -> ChainOf(c)]
      BY <1>7
    <2>5. f \in Bijection(0 .. n - 1, ChainOf(c))
      BY <1>7, <2>3, <2>4 DEF Bijection, Injection, Surjection, IsInjective
    <2>6. IsFiniteSet(0 .. n - 1) /\ Cardinality(0 .. n - 1) = n
      <3>1. 0 \in Int /\ n - 1 \in Int
        BY <1>3, Fat32Assumption
      <3>2. IsFiniteSet(0 .. n - 1)
            /\ Cardinality(0 .. n - 1) = IF 0 > n - 1 THEN 0 ELSE (n - 1) - 0 + 1
        BY <3>1, FS_Interval
      <3> QED
        BY <3>2, <1>3, <1>5, Fat32Assumption
    <2>7. ExistsBijection(0 .. n - 1, ChainOf(c))
      BY <2>5 DEF ExistsBijection
    <2> QED
      BY <2>6, <2>7, FS_Bijection
  <1>9. n \in 1 .. TotalClusters
    BY <1>3, <1>5, Fat32Assumption
  <1> QED
    BY <1>3, <1>7, <1>8, <1>9

(* Between calls, an entry owns the clusters its walk visits.               *)
LEMMA WalkOwned ==
    ASSUME VolOK, NEW own, AtRest(own), NEW p \in ReachableDirs, NEW n \in Names,
           Entry(p, n).attr # "none",
           NEW k \in 0 .. TotalClusters, Walk(Entry(p, n).first)[k] \in Clusters
    PROVE  own[Walk(Entry(p, n).first)[k]] = <<p, n>>
  <1> DEFINE w == Walk(Entry(p, n).first)
             Bad == {i \in 0 .. TotalClusters : w[i] \in Clusters /\ own[w[i]] # <<p, n>>}
  <1> SUFFICES ASSUME Bad # {} PROVE FALSE
    OBVIOUS
  <1>1. PICK m \in Bad : \A t \in Bad : m <= t
    <2>1. Bad \subseteq Nat
      BY Fat32Assumption
    <2> HIDE DEF Bad
    <2> QED
      BY <2>1, Least
  <1>2. m \in 0 .. TotalClusters /\ w[m] \in Clusters /\ own[w[m]] # <<p, n>>
    OBVIOUS
  <1>3. m # 0
    <2>1. w[0] = Entry(p, n).first
      BY WalkIs
    <2>2. Entry(p, n).first \in Clusters => own[Entry(p, n).first] = <<p, n>>
      BY Marks DEF AtRest, Owns
    <2> HIDE DEF w
    <2> QED
      BY <1>2, <2>1, <2>2
  <1>4. m - 1 \in 0 .. TotalClusters /\ ~(m <= m - 1)
    BY <1>2, <1>3, Fat32Assumption
  <1>5. /\ w[m - 1] \in Clusters => w[m] = fat1[w[m - 1]]
        /\ w[m - 1] \notin Clusters => w[m] = EOC
    BY <1>2, <1>3, WalkIs
  <1>6. w[m - 1] \in Clusters
    BY <1>2, <1>5, Marks
  <1>7. own[w[m - 1]] = <<p, n>>
    BY <1>1, <1>4, <1>6
  <1>8. <<p, n>> # NOBODY
    BY CallDirs, Labels
  <1> HIDE DEF w
  <1> QED
    BY <1>2, <1>5, <1>6, <1>7, <1>8 DEF AtRest

(* So chains end, are disjoint and avoid the root.                          *)
LEMMA RestChains ==
    ASSUME VolOK, ChainsAcyclic, NEW own, AtRest(own)
    PROVE  /\ \A e \in Used :
                /\ EntryAt(e).first # 0 => ChainEnd(EntryAt(e).first) = EOC
                /\ Root \notin ChainOf(EntryAt(e).first)
           /\ \A e, f \in Used :
                e # f => ChainOf(EntryAt(e).first) \cap ChainOf(EntryAt(f).first) = {}
  <1>1. ASSUME NEW e \in Used, NEW c \in ChainOf(EntryAt(e).first)
        PROVE  own[c] = e /\ e # NOBODY /\ c \in Clusters
    <2>1. PICK p \in ReachableDirs, n \in Names : e = <<p, n>> /\ Entry(p, n).attr # "none"
                                                  /\ EntryAt(e) = Entry(p, n)
      BY DEF Used, EntryAt
    <2>2. PICK k \in 0 .. TotalClusters : c = Walk(Entry(p, n).first)[k] /\ c \in Clusters
      BY <1>1, <2>1 DEF ChainOf
    <2>3. own[c] = <<p, n>>
      BY <2>1, <2>2, WalkOwned
    <2>4. <<p, n>> # NOBODY
      BY CallDirs, Labels
    <2> QED
      BY <2>1, <2>2, <2>3, <2>4
  <1>2. ASSUME NEW e \in Used, EntryAt(e).first # 0
        PROVE  ChainEnd(EntryAt(e).first) = EOC
    <2>1. PICK p \in ReachableDirs, n \in Names : e = <<p, n>> /\ Entry(p, n).attr # "none"
                                                  /\ EntryAt(e) = Entry(p, n)
      BY DEF Used, EntryAt
    <2>2. p \in Clusters /\ Entry(p, n) \in Entries
      <3>1. p \in Clusters /\ DirIn(disk, p) /\ disk \in [Clusters -> Contents]
        BY CallDirs, ReachIs, ReachDirs DEF VolOK
      <3> QED
        BY <3>1, DirContents DEF Entry
    <2> DEFINE f == Entry(p, n).first
               w == Walk(f)
               N == Cardinality(ChainOf(f))
    <2>3. f \in Clusters
      BY <1>2, <2>1, <2>2 DEF Entries
    <2> HIDE DEF f
    <2>4. N \in 1 .. TotalClusters /\ ChainOf(f) = {w[k] : k \in 0 .. N - 1} /\ w[N] \notin Clusters
      BY <2>3, WalkEnds
    <2> HIDE DEF N
    <2>5. N \in 0 .. TotalClusters /\ N # 0 /\ N - 1 \in 0 .. N - 1
      BY <2>4, Fat32Assumption
    <2>6. w[N - 1] \in ChainOf(f)
      BY <2>4, <2>5
    <2>7. own[w[N - 1]] # NOBODY /\ w[N - 1] \in Clusters
      BY <1>1, <2>1, <2>6 DEF f
    <2>8. w[N] = fat1[w[N - 1]] /\ fat1[w[N - 1]] # FREE /\ fat1[w[N - 1]] \in FatValues
      <3>1. w[N] = fat1[w[N - 1]]
        BY <2>5, <2>7, WalkIs
      <3> HIDE DEF w
      <3> QED
        BY <2>7, <3>1 DEF AtRest, VolOK
    <2>9. w[N] = EOC
      <3> HIDE DEF w
      <3> QED
        BY <2>4, <2>8 DEF FatValues
    <2>10. ChainEnd(EntryAt(e).first) = w[N]
      BY <2>1 DEF ChainEnd, f, N
    <2> QED
      BY <2>9, <2>10
  <1>3. ASSUME NEW e \in Used PROVE Root \notin ChainOf(EntryAt(e).first)
    BY <1>1 DEF AtRest
  <1>4. ASSUME NEW e \in Used, NEW f \in Used, e # f
        PROVE  ChainOf(EntryAt(e).first) \cap ChainOf(EntryAt(f).first) = {}
    BY <1>1, <1>4
  <1> QED
    BY <1>2, <1>3, <1>4

(* The k-th cluster of the walk holds the k-th chunk. The walk is as long   *)
(* as the volume and the file no longer than that, since its chunks are all *)
(* different.                                                               *)
LEMMA RestContents ==
    ASSUME VolOK, NEW own, AtRest(own), NEW p \in ReachableDirs, NEW n \in Names,
           Entry(p, n).attr = "file", Entry(p, n).what # LOST, NEW k \in 0 .. Entry(p, n).size - 1
    PROVE  /\ Walk(Entry(p, n).first)[k] \in Clusters
           /\ disk[Walk(Entry(p, n).first)[k]] = Chunk(Entry(p, n).what, k)
  <1>0. p \in Clusters /\ Entry(p, n) \in Entries
    <2>1. p \in Clusters /\ DirIn(disk, p) /\ disk \in [Clusters -> Contents]
      BY CallDirs, ReachIs, ReachDirs DEF VolOK
    <2> QED
      BY <2>1, DirContents DEF Entry
  <1> DEFINE E == Entry(p, n)
             w == Walk(E.first)
             Holds(i) == w[i] \in Clusters /\ disk[w[i]] = Chunk(E.what, i)
             Bad == {i \in 0 .. TotalClusters : i < E.size /\ ~Holds(i)}
  <1>1. E.size \in Nat /\ E.size > 0
    BY <1>0, Fat32Assumption DEF Entries
  <1>2. /\ E.first \in Clusters /\ disk[E.first] = Chunk(E.what, 0)
        /\ \A c \in Clusters, i \in 0 .. E.size - 2 :
              own[c] = <<p, n>> /\ disk[c] = Chunk(E.what, i) =>
                  fat1[c] \in Clusters /\ disk[fat1[c]] = Chunk(E.what, i + 1)
    BY <1>1 DEF AtRest, Keeps
  <1>w. /\ w[0] = E.first
        /\ \A i \in 0 .. TotalClusters : i # 0 =>
              i - 1 \in 0 .. TotalClusters /\ (w[i - 1] \in Clusters => w[i] = fat1[w[i - 1]])
        /\ \A i \in 0 .. TotalClusters : w[i] \in Clusters => own[w[i]] = <<p, n>>
    <2>1. \A i \in 0 .. TotalClusters : w[i] \in Clusters => own[w[i]] = <<p, n>>
      BY WalkOwned
    <2> QED
      BY <2>1, WalkIs
  <1> HIDE DEF w, E
  <1>3. Bad = {}
    <2> SUFFICES ASSUME Bad # {} PROVE FALSE
      OBVIOUS
    <2>1. PICK m \in Bad : \A t \in Bad : m <= t
      <3>1. Bad \subseteq Nat
        BY Fat32Assumption
      <3> HIDE DEF Bad
      <3> QED
        BY <3>1, Least
    <2>2. m \in 0 .. TotalClusters /\ m < E.size /\ ~Holds(m)
      OBVIOUS
    <2>3. m # 0
      BY <1>2, <1>w, <2>2
    <2>4. m - 1 \in 0 .. TotalClusters /\ ~(m <= m - 1) /\ m - 1 < E.size /\ m - 1 \in 0 .. E.size - 2
          /\ (m - 1) + 1 = m
      BY <1>1, <2>2, <2>3, Fat32Assumption
    <2>5. Holds(m - 1)
      BY <2>1, <2>4
    <2>6. w[m] = fat1[w[m - 1]] /\ own[w[m - 1]] = <<p, n>>
      BY <1>w, <2>2, <2>3, <2>4, <2>5
    <2>7. fat1[w[m - 1]] \in Clusters /\ disk[fat1[w[m - 1]]] = Chunk(E.what, (m - 1) + 1)
      BY <1>2, <2>4, <2>5, <2>6
    <2> QED
      BY <2>2, <2>4, <2>6, <2>7
  (* A file has no more chunks than there are clusters. *)
  <1>4. E.size <= TotalClusters
    <2> SUFFICES ASSUME E.size > TotalClusters PROVE FALSE
      BY <1>1, Fat32Assumption
    <2>1. \A i \in 0 .. TotalClusters : Holds(i)
      BY <1>1, <1>3, Fat32Assumption
    <2> DEFINE I == 0 .. TotalClusters
               f == [i \in I |-> w[i]]
    <2>2. f \in [I -> Clusters]
      BY <2>1
    <2>3. IsFiniteSet(I) /\ Cardinality(Clusters) < Cardinality(I)
      <3>1. 0 \in Int /\ TotalClusters \in Int
        BY Fat32Assumption
      <3>2. IsFiniteSet(0 .. TotalClusters)
            /\ Cardinality(0 .. TotalClusters) = IF 0 > TotalClusters THEN 0 ELSE TotalClusters - 0 + 1
        BY <3>1, FS_Interval
      <3> QED
        BY <3>2, RootCluster, Fat32Assumption
    <2>4. \A i, j \in I : f[i] = f[j] => i = j
      <3>1. \A i, j \in I : f[i] = f[j] => Chunk(E.what, i) = Chunk(E.what, j)
        BY <2>1
      <3>2. \A i, j \in I : Chunk(E.what, i) = Chunk(E.what, j) => i = j
        BY DEF Chunk
      <3> QED
        BY <3>1, <3>2, Zenon
    <2> HIDE DEF I, f
    <2>5. \E i, j \in I : i # j /\ f[i] = f[j]
      BY <2>2, <2>3, RootCluster, FS_PigeonHole, SMT
    <2> QED
      BY <2>4, <2>5
  <1>5. k \in 0 .. TotalClusters /\ k < E.size
    BY <1>1, <1>4, Fat32Assumption DEF E
  <1>6. Holds(k)
    BY <1>3, <1>5
  <1> QED
    BY <1>6 DEF w, E

(* The inductive invariant.                                                 *)
Inv == TypeInv /\ IInv /\ SoundInv

(* It implies ChainsSound ...                                               *)
LEMMA InvChains == Inv => ChainsSound
  <1> SUFFICES ASSUME Inv, ~damage, pc \in {"idle", "off"}
               PROVE  /\ \A e \in Used :
                           /\ EntryAt(e).first # 0 => ChainEnd(EntryAt(e).first) = EOC
                           /\ Root \notin ChainOf(EntryAt(e).first)
                      /\ \A e, f \in Used :
                           e # f => ChainOf(EntryAt(e).first) \cap ChainOf(EntryAt(f).first) = {}
    BY DEF ChainsSound
  <1>1. PICK own : Sound(own)
    BY DEF Inv, SoundInv
  <1>2. AtRest(own)
    BY <1>1, RestSound DEF Inv, TypeInv, CallOK
  <1> QED
    BY <1>2, RestChains DEF Inv, TypeInv, IInv

(* ... and ContentsKept.                                                    *)
LEMMA InvContents == Inv => ContentsKept
  <1> SUFFICES ASSUME Inv, ~damage, pc \in {"idle", "off"}, NEW e \in Used,
                      EntryAt(e).attr = "file", EntryAt(e).what # LOST,
                      NEW k \in 0 .. EntryAt(e).size - 1
               PROVE  /\ Walk(EntryAt(e).first)[k] \in Clusters
                      /\ disk[Walk(EntryAt(e).first)[k]] = Chunk(EntryAt(e).what, k)
    BY DEF ContentsKept
  <1>1. PICK own : Sound(own)
    BY DEF Inv, SoundInv
  <1>2. AtRest(own)
    BY <1>1, RestSound DEF Inv, TypeInv, CallOK
  <1>3. PICK p \in ReachableDirs, n \in Names : EntryAt(e) = Entry(p, n)
    BY DEF Used, EntryAt
  <1> QED
    BY <1>2, <1>3, RestContents DEF Inv, TypeInv

(* Soundness only depends on vars.                                          *)
LEMMA SoundUnchanged ==
    ASSUME UNCHANGED vars, NEW own, Sound(own)
    PROVE  Sound(own)'
  <1> USE DEF vars, volume, args, chain, observed
  <1>1. ReachableDirs' = ReachableDirs
    BY ReachIs
  <1> QED
    BY <1>1 DEF Sound, Closed, EntriesKept, Replaced, Owns, Keeps, Replacing, Building,
       Written, InCall, OldFirst, Self, Entry

(* It only depends on vars.                                                 *)
LEMMA InvUnchanged == Inv /\ UNCHANGED vars => Inv'
  <1> SUFFICES ASSUME Inv, UNCHANGED vars PROVE Inv'
    OBVIOUS
  <1> USE DEF vars, volume, args, chain, observed
  <1>1. TypeInv'
    BY DEF Inv, TypeInv, VolOK, CountsOK, FlagsOK, CallOK, BuildOK
  <1>2. IInv'
    BY DEF Inv, IInv, ChainInv, ChainsAcyclic
  <1>5. SoundInv'
    BY SoundUnchanged DEF Inv, SoundInv
  <1> QED
    BY <1>1, <1>2, <1>5 DEF Inv

-----------------------------------------------------------------------------
(* Nothing is leaked as long as nothing fails.                              *)

(* A set of clusters each of which is linked to from within the set is      *)
(* empty, as there is no cycle.                                             *)
LEMMA NoLeaders ==
    ASSUME ChainsAcyclic, NEW T, T \subseteq Clusters, \A c \in T : \E d \in T : fat1[d] = c
    PROVE  T = {}
  <1> DEFINE P == {d \in T : fat1[d] \in T}
             f == [d \in P |-> fat1[d]]
  <1>1. f \in Surjection(P, T)
    BY DEF Surjection
  <1>2. P \subseteq T /\ IsFiniteSet(T) /\ IsFiniteSet(P)
    BY RootCluster, FS_Subset
  <1> HIDE DEF P, f
  <1>3. Cardinality(T) <= Cardinality(P)
    BY <1>1, <1>2, FS_Surjection
  <1>4. Cardinality(P) <= Cardinality(T) /\ (Cardinality(P) = Cardinality(T) => P = T)
    BY <1>2, FS_Subset
  <1>5. Cardinality(P) \in Nat /\ Cardinality(T) \in Nat
    BY <1>2, FS_CardinalityType
  <1>6. P = T
    BY <1>3, <1>4, <1>5
  <1> QED
    BY <1>6 DEF ChainsAcyclic, P

(* No owned cluster is linked to c.                                         *)
Head(own, c) == \A d \in Clusters : own[d] # NOBODY => fat1[d] # c

(* Where the chain c belongs to begins; the part of an old chain that has   *)
(* been freed is in pieces.                                                 *)
IsFirst(own, c) ==
    IF own[c] = FRESH THEN c = first \/ (pc = "link" /\ c = cluster)
    ELSE IF own[c] = Self /\ pc = "free" THEN c = victim \/ fat1[c] = FREE
    ELSE \E p \in ReachableDirs, n \in Names : own[c] = <<p, n>> /\ c = Entry(p, n).first

(* The owned clusters that no owned cluster links to are those where chains *)
(* begin. A cluster of a chain that is not where it begins therefore has a  *)
(* predecessor, which the absence of cycles leads back to the beginning     *)
(* (NoLeaders).                                                             *)
Heads(own) ==
    \A c \in Clusters : own[c] # NOBODY => (Head(own, c) <=> IsFirst(own, c))

(* Chains do not join.                                                      *)
Paths(own) ==
    \A c, d \in Clusters :
        own[c] # NOBODY /\ own[d] # NOBODY /\ fat1[c] \in Clusters /\ fat1[c] = fat1[d] => c = d

(* Every owner is an entry that is in use.  A directory has one cluster:    *)
(* fat32_delete_directory_in frees no more.                                 *)
InTree(own) ==
    \A c \in Clusters : own[c] \notin {NOBODY, FRESH} =>
        \E p \in ReachableDirs, n \in Names :
            /\ own[c] = <<p, n>> /\ Entry(p, n).attr # "none"
            /\ Entry(p, n).attr = "dir" => fat1[c] \notin Clusters

(* A cluster nobody owns is free.                                           *)
NothingLeaked(own) == \A c \in Clusters \ {Root} : own[c] = NOBODY => fat1[c] = FREE

(* What a call has done so far.                                             *)
Progress(own) ==
    /\ op = "mkdir" => \A c \in Clusters : own[c] = FRESH => fat1[c] \notin Clusters
    /\ pc \in {"alloc", "link", "data", "entry"} => \A c \in Clusters : own[c] # Self
    /\ pc = "free" /\ victim \in Clusters => fat1[victim] # FREE
    /\ pc \in {"alloc", "link"} /\ prev # 0 => fat1[prev] \notin Clusters
    /\ pc \in {"link", "data"} => fat1[cluster] \notin Clusters
    /\ InCall /\ op = "rmdir" => copy[name].attr = "dir" /\ fat32_is_directory_empty(OldFirst)

(* The count in memory is exact at any time, that of the FSInfo sector      *)
(* between calls.                                                           *)
CountExact ==
    /\ g_free_clusters = Cardinality(FreeFrom(2))
    /\ pc \in {"off", "idle"} => fsinfo = g_free_clusters

(* Every cluster is free or owned, and the count is that of the free ones.  *)
Exact(own) ==
    CountExact /\ Heads(own) /\ Paths(own) /\ InTree(own) /\ NothingLeaked(own) /\ Progress(own)

(* What clean implies of the other observations.                            *)
NoFault == ~damage /\ ~opfault /\ ~broken

(* The invariant behind CleanAccounting. A call that puts a file in the     *)
(* place of a directory in use loses the clusters below, and clean is over  *)
(* with its directory write.                                                *)
CleanInv ==
    clean => /\ NoFault
             /\ (InCall /\ Buries) \/ (\E own : Sound(own) /\ Exact(own))

(* The free count is a number. *)
LEMMA FreeSet ==
    ASSUME NEW S, S \subseteq Clusters
    PROVE  /\ IsFiniteSet(S) /\ Cardinality(S) \in Nat /\ Cardinality(S) # UNKNOWN
           /\ S # {} => Cardinality(S) > 0
           /\ \A c \in Clusters : Cardinality(S \union {c}) = IF c \in S THEN Cardinality(S) ELSE Cardinality(S) + 1
           /\ \A c \in Clusters : Cardinality(S \ {c}) = IF c \in S THEN Cardinality(S) - 1 ELSE Cardinality(S)
  <1>1. IsFiniteSet(S)
    BY RootCluster, FS_Subset
  <1>2. Cardinality(S) \in Nat
    BY <1>1, FS_CardinalityType
  <1>3. S # {} => Cardinality(S) # 0
    BY <1>1, FS_EmptySet
  <1>4. \A c \in Clusters : Cardinality(S \union {c}) = IF c \in S THEN Cardinality(S) ELSE Cardinality(S) + 1
    BY <1>1, FS_AddElement
  <1>5. \A c \in Clusters : Cardinality(S \ {c}) = IF c \in S THEN Cardinality(S) - 1 ELSE Cardinality(S)
    BY <1>1, FS_RemoveElement
  <1>6. Cardinality(S) # UNKNOWN
    BY <1>2, Fat32Assumption
  <1>7. S # {} => Cardinality(S) > 0
    BY <1>2, <1>3
  <1> QED
    BY <1>1, <1>2, <1>4, <1>5, <1>6, <1>7

(* The search of fat32_allocate_cluster from the first cluster sees all     *)
(* free ones.                                                               *)
LEMMA AllFree == FreeFrom(2) = {c \in Clusters : fat1[c] = FREE} /\ FreeFrom(2)' = {c \in Clusters : fat1'[c] = FREE}
  BY DEF FreeFrom, Clusters

(* A call begins. *)
LEMMA ExactCall ==
    ASSUME TypeInv, NEW own, Sound(own), Exact(own), pc = "idle",
           NEW p \in ReachableDirs, NEW n \in Names, NEW o, NEW d, NEW s, Call(o, p, n, d, s),
           \/ pc' = "free" /\ Entry(p, n).attr # "none" /\ victim' = Entry(p, n).first /\ o # "mkdir"
           \/ pc' \in {"alloc", "entry"} /\ Entry(p, n).attr = "none" /\ (o = "mkdir" => pc' = "alloc"),
           o = "rmdir" => Entry(p, n).attr = "dir" /\ fat32_is_directory_empty(Entry(p, n).first)
    PROVE  Exact(own)'
  <1>0. /\ AtRest(own) /\ ~freed /\ first = 0 /\ prev = 0 /\ VolOK
    BY RestSound DEF TypeInv, CallOK, BuildOK
  <1>1. /\ fat1' = fat1 /\ disk' = disk /\ prev' = 0 /\ first' = 0 /\ g_free_clusters' = g_free_clusters
        /\ op' = o /\ parent' = p /\ name' = n /\ copy' = disk[p].ents
    BY <1>0 DEF Call, volume, chain
  <1>2. ReachableDirs' = ReachableDirs /\ Self' = <<p, n>> /\ p \in Clusters /\ \A q, m : Entry(q, m)' = Entry(q, m)
    BY <1>0, <1>1, SameDirs, CallDirs DEF Self, Entry
  <1>3. CountExact'
    BY <1>1, AllFree DEF Exact, CountExact
  <1>4. Paths(own)' /\ NothingLeaked(own)' /\ InTree(own)'
    BY <1>1, <1>2 DEF Exact, Paths, NothingLeaked, InTree
  <1>5. Heads(own)'
    <2> SUFFICES ASSUME NEW c \in Clusters, own[c] # NOBODY PROVE Head(own, c)' <=> IsFirst(own, c)'
      BY DEF Heads
    <2>1. Head(own, c)' <=> Head(own, c)
      BY <1>1 DEF Head
    <2>2. own[c] # FRESH /\ fat1[c] # FREE
      BY <1>0 DEF AtRest
    <2>3. Head(own, c) <=> \E q \in ReachableDirs, m \in Names : own[c] = <<q, m>> /\ c = Entry(q, m).first
      BY <2>2 DEF Exact, Heads, IsFirst
    <2>4. CASE own[c] = <<p, n>> /\ pc' = "free"
      <3>1. IsFirst(own, c)' <=> c = Entry(p, n).first
        BY <1>1, <1>2, <2>2, <2>4 DEF IsFirst
      <3>2. (\E q \in ReachableDirs, m \in Names : own[c] = <<q, m>> /\ c = Entry(q, m).first)
               <=> c = Entry(p, n).first
        <4>1. \A q, m : own[c] = <<q, m>> => q = p /\ m = n
          BY <2>4, Labels
        <4> QED
          BY <2>4, <4>1
      <3> QED
        BY <2>1, <2>3, <3>1, <3>2
    <2>5. CASE ~(own[c] = <<p, n>> /\ pc' = "free")
      <3>1. IsFirst(own, c)' <=> \E q \in ReachableDirs, m \in Names : own[c] = <<q, m>> /\ c = Entry(q, m).first
        BY <1>1, <1>2, <2>2, <2>5 DEF IsFirst
      <3> QED
        BY <2>1, <2>3, <3>1
    <2> QED
      BY <2>4, <2>5
  <1>6. Progress(own)'
    <2>1. \A c \in Clusters : own[c] # FRESH
      BY <1>0 DEF AtRest
    <2>2. pc' # "free" => \A c \in Clusters : own[c] # <<p, n>>
      <3> SUFFICES ASSUME pc' # "free", NEW c \in Clusters, own[c] = <<p, n>> PROVE FALSE
        OBVIOUS
      <3>1. <<p, n>> \notin {NOBODY, FRESH}
        BY <1>2, Labels
      <3>2. PICK q \in ReachableDirs, m \in Names : own[c] = <<q, m>> /\ Entry(q, m).attr # "none"
        BY <3>1 DEF Exact, InTree
      <3>3. q = p /\ m = n
        BY <3>2, Labels
      <3> QED
        BY <3>2, <3>3
    <2>3. pc' = "free" /\ victim' \in Clusters => fat1[victim'] # FREE
      <3> SUFFICES ASSUME pc' = "free", Entry(p, n).first \in Clusters PROVE fat1[Entry(p, n).first] # FREE
        OBVIOUS
      <3>1. own[Entry(p, n).first] = <<p, n>>
        BY <1>0, Marks DEF AtRest, Owns
      <3> QED
        BY <1>0, <1>2, <3>1, Labels DEF AtRest
    <2>4. o = "rmdir" => copy'[name'].attr = "dir" /\ fat32_is_directory_empty(OldFirst)'
      BY <1>1, <1>2 DEF OldFirst, fat32_is_directory_empty, IsDir, Count, Entry
    <2> QED
      BY <1>1, <1>2, <2>1, <2>2, <2>3, <2>4 DEF Progress
  <1> QED
    BY <1>3, <1>4, <1>5, <1>6 DEF Exact

(* A cluster of the old chain is freed and counted; the rest of the chain   *)
(* has lost its first cluster.                                              *)
LEMMA ExactFree ==
    ASSUME TypeInv, NEW own, Sound(own), Exact(own), fat32_free_cluster, ~opfault'
    PROVE  Exact(own)'
  <1>0. /\ pc = "free" /\ pc' = "free" /\ victim \in Clusters /\ own[victim] = Self
        /\ disk' = disk /\ fat1 \in [Clusters -> FatValues] /\ op # "mkdir" /\ InCall
        /\ fat1[victim] # FREE
    BY DEF fat32_free_cluster, TypeInv, VolOK, CallOK, Sound, Replacing, InCall, Exact, Progress
  <1>1. /\ parent' = parent /\ name' = name /\ op' = op /\ first' = first /\ cluster' = cluster
        /\ copy' = copy /\ Self' = Self /\ OldFirst' = OldFirst
    BY <1>0 DEF fat32_free_cluster, chain, args, Self, OldFirst
  <1>2. /\ fat1' = [fat1 EXCEPT ![victim] = FREE]
        /\ victim' = IF op # "rmdir" THEN fat1[victim] ELSE EOC
        /\ g_free_clusters' = IF g_free_clusters # UNKNOWN THEN g_free_clusters + 1 ELSE g_free_clusters
    BY DEF fat32_free_cluster, fat32_set_next_cluster, NextVictim
  <1>3. ReachableDirs' = ReachableDirs /\ \A q, m : Entry(q, m)' = Entry(q, m)
    BY <1>0, SameDirs DEF Entry
  <1>4. parent \in Clusters /\ name \in Names /\ Self \notin {NOBODY, FRESH}
    BY <1>0, ParentOwned, Labels DEF Self
  <1>5. fat1'[victim] = FREE /\ \A c \in Clusters \ {victim} : fat1'[c] = fat1[c]
    BY <1>0, <1>2
  <1>6. CountExact'
    <2> DEFINE S == {c \in Clusters : fat1[c] = FREE}
               R == {c \in Clusters : fat1'[c] = FREE}
    <2>1. R = S \union {victim} /\ victim \notin S /\ S \subseteq Clusters
      BY <1>0, <1>5
    <2>2. g_free_clusters = Cardinality(S)
      BY AllFree DEF Exact, CountExact
    <2> HIDE DEF S, R
    <2>3. Cardinality(R) = Cardinality(S) + 1 /\ Cardinality(S) # UNKNOWN
      BY <1>0, <2>1, FreeSet
    <2>4. FreeFrom(2)' = R
      BY AllFree DEF R
    <2> QED
      BY <1>0, <1>2, <2>2, <2>3, <2>4 DEF CountExact
  <1>7. Paths(own)'
    BY <1>0, <1>5, Marks DEF Exact, Paths
  <1>8. NothingLeaked(own)' /\ InTree(own)'
    <2>1. NothingLeaked(own)'
      BY <1>0, <1>4, <1>5 DEF Exact, NothingLeaked
    <2>2. \A c \in Clusters : fat1'[c] \in Clusters => fat1[c] \in Clusters
      BY <1>5, Marks
    <2> QED
      BY <1>3, <2>1, <2>2 DEF Exact, InTree
  <1>9. Head(own, victim)
    BY <1>0, <1>4 DEF Exact, Heads, IsFirst
  <1>10. op = "rmdir" => fat1[victim] \notin Clusters
    <2> SUFFICES ASSUME op = "rmdir" PROVE fat1[victim] \notin Clusters
      OBVIOUS
    <2>1. PICK p \in ReachableDirs, n \in Names :
            own[victim] = <<p, n>> /\ (Entry(p, n).attr = "dir" => fat1[victim] \notin Clusters)
      BY <1>0, <1>4 DEF Exact, InTree
    <2>2. p = parent /\ n = name
      BY <1>0, <2>1, Labels DEF Self
    <2>3. Entry(parent, name).attr = "dir"
      BY <1>0 DEF Sound, Replacing, Exact, Progress, Entry
    <2> QED
      BY <2>1, <2>2, <2>3
  <1>11. Heads(own)'
    <2> SUFFICES ASSUME NEW c \in Clusters, own[c] # NOBODY PROVE Head(own, c)' <=> IsFirst(own, c)'
      BY DEF Heads
    <2>1. Head(own, c) <=> IsFirst(own, c)
      BY DEF Exact, Heads
    <2>2. Head(own, c)' <=> Head(own, c) \/ fat1[victim] = c
      <3>1. ASSUME fat1[victim] = c PROVE Head(own, c)'
        <4> SUFFICES ASSUME NEW d \in Clusters, own[d] # NOBODY, fat1'[d] = c PROVE FALSE
          BY DEF Head
        <4>1. d # victim /\ fat1[d] = c
          BY <1>5, Marks
        <4> QED
          BY <1>0, <1>4, <3>1, <4>1 DEF Exact, Paths
      <3>2. ASSUME fat1[victim] # c PROVE Head(own, c)' <=> Head(own, c)
        BY <1>0, <1>5, <3>2, Marks DEF Head
      <3>3. Head(own, c) => Head(own, c)'
        BY <1>5, Marks DEF Head
      <3> QED
        BY <3>1, <3>2, <3>3
    <2>3. CASE own[c] = Self
      <3>1. IsFirst(own, c) <=> c = victim \/ fat1[c] = FREE
        BY <1>0, <1>4, <2>3 DEF IsFirst
      <3>2. IsFirst(own, c)' <=> c = victim' \/ fat1'[c] = FREE
        BY <1>0, <1>1, <1>4, <2>3 DEF IsFirst
      <3>3. fat1'[c] = FREE <=> c = victim \/ fat1[c] = FREE
        BY <1>5
      <3>4. c = victim' <=> fat1[victim] = c
        BY <1>2, <1>10, Marks
      <3> QED
        BY <2>1, <2>2, <3>1, <3>2, <3>3, <3>4
    <2>4. CASE own[c] # Self
      <3>1. fat1[victim] # c
        BY <1>0, <1>4, <2>4 DEF Sound, Closed
      <3>2. IsFirst(own, c)' <=> IsFirst(own, c)
        BY <1>0, <1>1, <1>3, <2>4 DEF IsFirst
      <3> QED
        BY <2>1, <2>2, <3>1, <3>2
    <2> QED
      BY <2>3, <2>4
  <1>12. Progress(own)'
    <2>1. victim' \in Clusters => fat1'[victim'] # FREE
      <3> SUFFICES ASSUME fat1[victim] \in Clusters, victim' = fat1[victim] PROVE fat1'[fat1[victim]] # FREE
        BY <1>2, Marks
      <3> DEFINE u == fat1[victim]
      <3>1. own[u] = Self
        BY <1>0, <1>4 DEF Sound, Closed
      <3>2. u # victim
        BY <1>0, <1>4, <1>9 DEF Head
      <3>3. ~Head(own, u)
        BY <1>0, <1>4 DEF Head
      <3>4. ~IsFirst(own, u)
        BY <1>4, <3>1, <3>3 DEF Exact, Heads
      <3>5. fat1[u] # FREE
        <4> HIDE DEF u
        <4> QED
          BY <1>0, <1>4, <3>1, <3>4 DEF IsFirst
      <3> QED
        BY <1>5, <3>2, <3>5
    <2>2. fat32_is_directory_empty(OldFirst)' <=> fat32_is_directory_empty(OldFirst)
      BY <1>0, <1>1 DEF fat32_is_directory_empty, IsDir, Count
    <2> QED
      BY <1>0, <1>1, <2>1, <2>2 DEF Exact, Progress, InCall
  <1> QED
    BY <1>6, <1>7, <1>8, <1>11, <1>12 DEF Exact

(* The whole of the old chain is free. *)
LEMMA OldFreed ==
    ASSUME TypeInv, ChainsAcyclic, NEW own, Sound(own), Exact(own), pc = "free", victim \notin Clusters
    PROVE  \A c \in Clusters : own[c] = Self => fat1[c] = FREE
  <1> DEFINE T == {c \in Clusters : own[c] = Self /\ fat1[c] # FREE}
  <1>0. Self \notin {NOBODY, FRESH} /\ InCall
    BY ParentOwned, Labels DEF Self, InCall
  <1>1. ASSUME NEW c \in T PROVE \E d \in T : fat1[d] = c
    <2>1. c \in Clusters /\ own[c] = Self /\ fat1[c] # FREE
      OBVIOUS
    <2>2. ~IsFirst(own, c)
      BY <1>0, <2>1 DEF IsFirst
    <2>3. ~Head(own, c)
      BY <1>0, <2>1, <2>2 DEF Exact, Heads
    <2>4. PICK d \in Clusters : own[d] # NOBODY /\ fat1[d] = c
      BY <2>3 DEF Head
    <2>5. own[d] = Self
      BY <2>1, <2>4 DEF Sound, Closed
    <2> QED
      BY <2>1, <2>4, <2>5, Marks
  <1>2. T \subseteq Clusters
    OBVIOUS
  <1>3. T = {}
    <2> HIDE DEF T
    <2> QED
      BY <1>1, <1>2, NoLeaders
  <1> QED
    BY <1>3

(* The old chain is free as a whole, and nobody's.                          *)
LEMMA ExactFreeDone ==
    ASSUME TypeInv, ChainsAcyclic, NEW own, Sound(own), Exact(own), FreeDone, NEW o,
           IF freed THEN Drop(own, o, Self) ELSE o = own
    PROVE  Exact(o)'
  <1>0. /\ pc = "free" /\ pc' \in {"alloc", "entry"} /\ disk' = disk /\ fat1' = fat1 /\ op # "mkdir"
        /\ first = 0 /\ prev = 0 /\ InCall /\ victim \notin Clusters
        /\ g_free_clusters' = g_free_clusters /\ fsinfo' = fsinfo
    BY DEF FreeDone, TypeInv, BuildOK, CallOK, volume, InCall
  <1>1. /\ first' = 0 /\ prev' = 0 /\ op' = op /\ copy' = copy /\ Self' = Self /\ OldFirst' = OldFirst
        /\ name' = name
    BY <1>0 DEF FreeDone, chain, args, observed, Self, OldFirst
  <1>2. ReachableDirs' = ReachableDirs /\ \A q, m : Entry(q, m)' = Entry(q, m)
    BY <1>0, SameDirs DEF Entry
  <1>3. Self \notin {NOBODY, FRESH} /\ NOBODY # FRESH
    BY <1>0, ParentOwned, Labels DEF Self
  <1>4. \A c \in Clusters : own[c] = Self => fat1[c] = FREE
    BY <1>0, OldFreed
  <1>5. \A c \in Clusters : o[c] = IF own[c] = Self THEN NOBODY ELSE own[c]
    <2>1. CASE freed
      BY <2>1 DEF Drop
    <2>2. CASE ~freed
      <3>1. \A c \in Clusters : own[c] # Self
        BY <1>3, <1>4, <2>2 DEF Sound, Closed
      <3> QED
        BY <2>2, <3>1
    <2> QED
      BY <2>1, <2>2
  <1>6. \A c \in Clusters : own[c] # FRESH
    BY <1>0 DEF Sound, Replacing
  <1>7. CountExact'
    BY <1>0, AllFree DEF Exact, CountExact
  <1>8. Paths(o)'
    BY <1>0, <1>5 DEF Exact, Paths
  <1>9. NothingLeaked(o)'
    BY <1>0, <1>4, <1>5 DEF Exact, NothingLeaked
  <1>10. InTree(o)'
    <2>1. \A c \in Clusters : o[c] # NOBODY => o[c] = own[c]
      BY <1>5
    <2> QED
      BY <1>0, <1>2, <2>1 DEF Exact, InTree
  <1>11. Heads(o)'
    <2> SUFFICES ASSUME NEW c \in Clusters, o[c] # NOBODY PROVE Head(o, c)' <=> IsFirst(o, c)'
      BY DEF Heads
    <2>1. own[c] # Self /\ o[c] = own[c] /\ own[c] # NOBODY
      BY <1>5
    <2>2. Head(own, c) <=> IsFirst(own, c)
      BY <2>1 DEF Exact, Heads
    <2>3. Head(o, c)' <=> Head(own, c)
      <3>1. \A d \in Clusters : own[d] # NOBODY /\ fat1[d] = c => own[d] # Self
        BY <2>1 DEF Sound, Closed
      <3> QED
        BY <1>0, <1>5, <3>1 DEF Head
    <2>4. IsFirst(o, c)' <=> IsFirst(own, c)
      BY <1>0, <1>1, <1>2, <1>6, <2>1 DEF IsFirst
    <2> QED
      BY <2>2, <2>3, <2>4
  <1>12. Progress(o)'
    <2>1. \A c \in Clusters : o[c] # Self
      BY <1>3, <1>5
    <2>2. fat32_is_directory_empty(OldFirst)' <=> fat32_is_directory_empty(OldFirst)
      BY <1>0, <1>1 DEF fat32_is_directory_empty, IsDir, Count
    <2> QED
      BY <1>0, <1>1, <2>1, <2>2 DEF Exact, Progress
  <1> QED
    BY <1>7, <1>8, <1>9, <1>10, <1>11, <1>12 DEF Exact

(* A free cluster becomes the call's, a chain of its own for now.           *)
LEMMA ExactTake ==
    ASSUME TypeInv, NEW own, Sound(own), Exact(own), NEW c \in Clusters, AllocTake(c),
           NEW o, o = [own EXCEPT ![c] = FRESH]
    PROVE  Exact(o)'
  <1>0. /\ pc = "alloc" /\ pc' = (IF prev # 0 THEN "link" ELSE "data") /\ disk' = disk
        /\ fat1' = [fat1 EXCEPT ![c] = EOC] /\ fat1[c] = FREE
        /\ fat1 \in [Clusters -> FatValues] /\ own \in [Clusters -> Owners]
        /\ InCall /\ c # Root /\ op \in {"write", "mkdir"}
        /\ prev \in Clusters \union {0} /\ (first = 0 <=> prev = 0)
        /\ g_free_clusters' = CountDown
    BY DEF AllocTake, Taken, fat32_set_next_cluster, IsNextFree, FreeFrom, TypeInv, VolOK,
        CallOK, BuildOK, Sound, InCall
  <1>1. /\ first' = (IF first = 0 THEN c ELSE first) /\ prev' = prev /\ op' = op
        /\ cluster' = c /\ Self' = Self
    BY <1>0 DEF AllocTake, Taken, args, Self
  <1>2. ReachableDirs' = ReachableDirs /\ \A q, m : Entry(q, m)' = Entry(q, m)
    BY <1>0, SameDirs DEF Entry
  <1>3. /\ Self \notin {NOBODY, FRESH} /\ NOBODY # FRESH
    BY <1>0, ParentOwned, Labels DEF Self
  <1>4. own[c] = NOBODY
    BY <1>0 DEF Sound, Closed
  <1>5. o[c] = FRESH /\ \A d \in Clusters \ {c} : o[d] = own[d]
    BY <1>0
  <1>6. fat1'[c] = EOC /\ \A d \in Clusters \ {c} : fat1'[d] = fat1[d]
    BY <1>0
  <1>7. CountExact'
    <2> DEFINE S == {d \in Clusters : fat1[d] = FREE}
               R == {d \in Clusters : fat1'[d] = FREE}
    <2>1. R = S \ {c} /\ c \in S /\ S \subseteq Clusters
      BY <1>0, <1>6, Marks
    <2>2. g_free_clusters = Cardinality(S)
      BY AllFree DEF Exact, CountExact
    <2> HIDE DEF S, R
    <2>3. Cardinality(R) = Cardinality(S) - 1 /\ Cardinality(S) # UNKNOWN /\ Cardinality(S) > 0
          /\ Cardinality(S) \in Nat
      BY <2>1, FreeSet
    <2>4. FreeFrom(2)' = R
      BY AllFree DEF R
    <2>5. CountDown = Cardinality(R)
      BY <2>2, <2>3 DEF CountDown
    <2> QED
      BY <1>0, <2>4, <2>5 DEF CountExact
  <1>8. Paths(o)'
    BY <1>5, <1>6, Marks DEF Exact, Paths
  <1>9. NothingLeaked(o)'
    BY <1>3, <1>5, <1>6 DEF Exact, NothingLeaked
  <1>10. InTree(o)'
    <2> SUFFICES ASSUME NEW d \in Clusters, o[d] \notin {NOBODY, FRESH}
                 PROVE  \E p \in ReachableDirs, n \in Names :
                          /\ o[d] = <<p, n>> /\ Entry(p, n).attr # "none"
                          /\ Entry(p, n).attr = "dir" => fat1'[d] \notin Clusters
      BY <1>2 DEF InTree
    <2>1. d # c /\ o[d] = own[d] /\ fat1'[d] = fat1[d]
      BY <1>5, <1>6
    <2> QED
      BY <2>1 DEF Exact, InTree
  <1>11. \A d \in Clusters : own[d] # NOBODY => fat1[d] # c
    BY <1>4 DEF Sound, Closed
  <1>12. Heads(o)'
    <2> SUFFICES ASSUME NEW d \in Clusters, o[d] # NOBODY PROVE Head(o, d)' <=> IsFirst(o, d)'
      BY DEF Heads
    <2>1. CASE d = c
      <3>1. Head(o, d)'
        BY <1>5, <1>6, <1>11, <2>1, Marks DEF Head
      <3>2. IsFirst(o, d)'
        BY <1>0, <1>1, <1>5, <2>1 DEF IsFirst
      <3> QED
        BY <3>1, <3>2
    <2>2. CASE d # c
      <3>1. o[d] = own[d] /\ own[d] # NOBODY
        BY <1>5, <2>2
      <3>2. Head(o, d)' <=> Head(own, d)
        <4>1. \A e \in Clusters \ {c} : (o[e] # NOBODY <=> own[e] # NOBODY) /\ fat1'[e] = fat1[e]
          BY <1>5, <1>6
        <4>2. fat1'[c] # d /\ own[c] = NOBODY
          BY <1>4, <1>6, Marks
        <4> QED
          BY <4>1, <4>2 DEF Head
      <3>3. IsFirst(o, d)' <=> IsFirst(own, d)
        <4>1. CASE own[d] = FRESH
          <5>1. IsFirst(o, d)' <=> d = first' \/ (pc' = "link" /\ d = c)
            BY <1>1, <3>1, <4>1 DEF IsFirst
          <5>2. IsFirst(own, d) <=> d = first
            BY <1>0, <4>1 DEF IsFirst
          <5>3. d = first' <=> d = first
            BY <1>1, <2>2, Marks
          <5> QED
            BY <2>2, <5>1, <5>2, <5>3
        <4>2. CASE own[d] # FRESH
          BY <1>0, <1>1, <1>2, <3>1, <4>2 DEF IsFirst
        <4> QED
          BY <4>1, <4>2
      <3>4. Head(own, d) <=> IsFirst(own, d)
        BY <3>1 DEF Exact, Heads
      <3> QED
        BY <3>2, <3>3, <3>4
    <2> QED
      BY <2>1, <2>2
  <1>13. Progress(o)'
    <2>1. op = "mkdir" => \A d \in Clusters : o[d] = FRESH => fat1'[d] \notin Clusters
      BY <1>5, <1>6, Marks DEF Exact, Progress
    <2>2. \A d \in Clusters : o[d] # Self
      BY <1>0, <1>3, <1>5 DEF Exact, Progress
    <2>3. prev # 0 => fat1'[prev] \notin Clusters
      BY <1>0, <1>6, Marks DEF Exact, Progress
    <2> QED
      BY <1>0, <1>1, <1>6, <2>1, <2>2, <2>3, Marks DEF Progress
  <1> QED
    BY <1>7, <1>8, <1>9, <1>10, <1>12, <1>13 DEF Exact

(* It is appended to the chain the call builds.                             *)
LEMMA ExactLink ==
    ASSUME TypeInv, NEW own, Sound(own), Exact(own), Link, ~opfault'
    PROVE  Exact(own)'
  <1>0. /\ pc = "link" /\ pc' = "data" /\ disk' = disk
        /\ fat1 \in [Clusters -> FatValues] /\ InCall
        /\ fat1' = [fat1 EXCEPT ![prev] = cluster]
        /\ prev \in Clusters /\ cluster \in Clusters /\ index \in Nat /\ index > 0
        /\ own[prev] = FRESH /\ own[cluster] = FRESH /\ cluster # prev /\ first # cluster
        /\ op = "write" /\ g_free_clusters' = g_free_clusters
    <2>1. fat1' = [fat1 EXCEPT ![prev] = cluster]
      BY DEF Link, fat32_set_next_cluster
    <2>2. /\ pc = "link" /\ pc' = "data" /\ disk' = disk /\ InCall /\ g_free_clusters' = g_free_clusters
          /\ fat1 \in [Clusters -> FatValues]
      BY DEF Link, InCall, TypeInv, VolOK
    <2>3. /\ prev \in Clusters /\ cluster \in Clusters /\ prev # 0 /\ index \in Nat /\ index > 0
          /\ index < size /\ op \in {"write", "mkdir"} /\ (op = "mkdir" => size = 1)
      BY <2>2, Marks, Fat32Assumption DEF TypeInv, BuildOK, CallOK
    <2>4. op = "write"
      BY <2>3
    <2>5. own[prev] = FRESH /\ own[cluster] = FRESH /\ cluster # prev /\ first # cluster
      BY <2>2, <2>3 DEF Sound, Building
    <2> QED
      BY <2>1, <2>2, <2>3, <2>4, <2>5
  <1>1. /\ first' = first /\ prev' = prev /\ op' = op /\ cluster' = cluster /\ Self' = Self
    BY <1>0 DEF Link, args, chain, Self
  <1>2. ReachableDirs' = ReachableDirs /\ \A q, m : Entry(q, m)' = Entry(q, m)
    BY <1>0, SameDirs DEF Entry
  <1>3. fat1'[prev] = cluster /\ \A d \in Clusters \ {prev} : fat1'[d] = fat1[d]
    BY <1>0
  <1>4. FRESH # NOBODY
    BY Labels
  <1>5. fat1[prev] \notin Clusters /\ fat1[prev] # FREE /\ fat1[cluster] \notin Clusters
    BY <1>0, <1>4, Marks DEF Exact, Progress, Sound, Closed
  <1>6. Head(own, cluster)
    BY <1>0, <1>4 DEF Exact, Heads, IsFirst
  <1>7. CountExact'
    <2>1. FreeFrom(2)' = FreeFrom(2)
      BY <1>0, <1>3, <1>5, AllFree, Marks
    <2> QED
      BY <1>0, <2>1 DEF Exact, CountExact
  <1>8. Paths(own)'
    <2> SUFFICES ASSUME NEW c \in Clusters, NEW d \in Clusters, own[c] # NOBODY, own[d] # NOBODY,
                        fat1'[c] \in Clusters, fat1'[c] = fat1'[d], c # d
                 PROVE  FALSE
      BY DEF Paths
    <2>1. CASE c = prev \/ d = prev
      BY <1>3, <1>6, <2>1 DEF Head
    <2>2. CASE c # prev /\ d # prev
      BY <1>3, <2>2 DEF Exact, Paths
    <2> QED
      BY <2>1, <2>2
  <1>9. NothingLeaked(own)' /\ InTree(own)'
    <2>1. \A d \in Clusters : own[d] # FRESH => fat1'[d] = fat1[d]
      BY <1>0, <1>3
    <2>2. NothingLeaked(own)'
      BY <1>4, <2>1 DEF Exact, NothingLeaked
    <2> QED
      BY <1>2, <2>1, <2>2 DEF Exact, InTree
  <1>10. Heads(own)'
    <2> SUFFICES ASSUME NEW d \in Clusters, own[d] # NOBODY PROVE Head(own, d)' <=> IsFirst(own, d)'
      BY DEF Heads
    <2>1. Head(own, d) <=> IsFirst(own, d)
      BY DEF Exact, Heads
    <2>2. CASE d = cluster
      <3>1. ~Head(own, d)'
        BY <1>0, <1>3, <1>4, <2>2 DEF Head
      <3>2. ~IsFirst(own, d)'
        BY <1>0, <1>1, <2>2 DEF IsFirst
      <3> QED
        BY <3>1, <3>2
    <2>3. CASE d # cluster
      <3>1. Head(own, d)' <=> Head(own, d)
        BY <1>0, <1>3, <1>5, <2>3 DEF Head
      <3>2. IsFirst(own, d)' <=> IsFirst(own, d)
        BY <1>0, <1>1, <1>2, <2>3 DEF IsFirst
      <3> QED
        BY <2>1, <3>1, <3>2
    <2> QED
      BY <2>2, <2>3
  <1>11. Progress(own)'
    <2>1. \A d \in Clusters : own[d] # Self
      BY <1>0 DEF Exact, Progress
    <2>2. fat1'[cluster] \notin Clusters
      BY <1>0, <1>3, <1>5
    <2> QED
      BY <1>0, <1>1, <2>1, <2>2 DEF Progress
  <1> QED
    BY <1>7, <1>8, <1>9, <1>10, <1>11 DEF Exact

(* Its data is written; if that overwrites a directory, it was free.        *)
LEMMA ExactData ==
    ASSUME TypeInv, VolOK', NEW own, Sound(own), Exact(own), DataWritten, ~Buries'
    PROVE  Exact(own)'
  <1>0. /\ pc = "data" /\ pc' \in {"entry", "alloc"}
        /\ disk' = [disk EXCEPT ![cluster] = NewContents] /\ fat1' = fat1
        /\ cluster \in Clusters /\ cluster # Root
        /\ own[cluster] = FRESH /\ InCall /\ op \in {"write", "mkdir"}
        /\ disk \in [Clusters -> Contents] /\ g_free_clusters' = g_free_clusters
    BY DEF DataWritten, fat32_write_cluster, TypeInv, VolOK, CallOK, BuildOK, InCall, Sound, Building
  <1>1. /\ first' = first /\ prev' = cluster /\ op' = op /\ copy' = copy /\ name' = name /\ Self' = Self
    BY <1>0 DEF DataWritten, args, Self
  <1>2. /\ ReachableDirs' \subseteq ReachableDirs
        /\ disk'[cluster] = NewContents
        /\ \A c \in Clusters \ {cluster} : disk'[c] = disk[c]
    BY <1>0, FreshWrite DEF fat32_write_cluster
  <1>3. VolOK /\ ReachableDirs \subseteq Clusters
    BY CallDirs DEF TypeInv
  (* Only a directory whose place a file is taking can be overwritten. *)
  <1>4. cluster \notin ReachableDirs
    <2> SUFFICES ASSUME cluster \in ReachableDirs PROVE FALSE
      OBVIOUS
    <2>1. PICK q \in ReachableDirs, m \in Names : Entry(q, m).attr = "dir" /\ Entry(q, m).first = cluster
      BY <1>0, <1>3, ReachOwner
    <2>2. <<q, m>> # FRESH
      BY <1>3, <2>1, Labels
    <2>3. Replaced(q, m)
      BY <1>0, <2>1, <2>2, Marks DEF Sound, EntriesKept, Owns
    <2>4. q = parent /\ m = name /\ op = "write"
      BY <1>0, <2>3, Labels DEF Replaced, Self, TypeInv, CallOK
    <2>5. copy[name].attr = "dir" /\ copy[name].first = cluster
      BY <1>0, <2>1, <2>4 DEF Sound, Replacing, Entry
    <2>6. disk'[cluster].kind = "data"
      BY <1>2, <2>4 DEF NewContents, Chunk
    <2>7. Buries'
      BY <1>1, <2>4, <2>5, <2>6 DEF Buries, InUse, IsDir
    <2> QED
      BY <2>7
  <1>5. \A p \in ReachableDirs : disk'[p] = disk[p]
    BY <1>2, <1>3, <1>4
  <1>6. ReachableDirs' = ReachableDirs
    <2>1. Root \in ReachableDirs' /\ IsClosed(disk', ReachableDirs') /\ IsClosed(disk, ReachableDirs)
      BY <1>3, ReachIs, ReachDirs DEF VolOK
    <2>2. ASSUME NEW p \in ReachableDirs', NEW n \in Names, disk[p].ents[n].attr = "dir",
                 DirIn(disk, disk[p].ents[n].first)
          PROVE  disk[p].ents[n].first \in ReachableDirs'
      <3> DEFINE f == disk[p].ents[n].first
      <3>1. p \in ReachableDirs /\ disk'[p] = disk[p]
        BY <1>2, <1>5
      <3>2. f \in ReachableDirs
        BY <2>1, <2>2, <3>1 DEF IsClosed
      <3>3. DirIn(disk', f)
        BY <1>5, <2>2, <3>2 DEF DirIn
      <3> QED
        BY <2>1, <2>2, <3>1, <3>3 DEF IsClosed
    <2>3. IsClosed(disk, ReachableDirs')
      BY <2>2 DEF IsClosed
    <2>4. ReachableDirs \subseteq ReachableDirs'
      BY <2>1, <2>3, ReachLeast, ReachIs
    <2> QED
      BY <1>2, <2>4
  <1>7. \A p \in ReachableDirs, n \in Names : Entry(p, n)' = Entry(p, n)
    BY <1>5 DEF Entry
  <1>8. CountExact'
    BY <1>0, AllFree DEF Exact, CountExact
  <1>9. Paths(own)' /\ NothingLeaked(own)' /\ InTree(own)'
    BY <1>0, <1>6, <1>7 DEF Exact, Paths, NothingLeaked, InTree
  <1>10. Heads(own)'
    <2> SUFFICES ASSUME NEW d \in Clusters, own[d] # NOBODY PROVE Head(own, d)' <=> IsFirst(own, d)'
      BY DEF Heads
    <2>1. Head(own, d) <=> IsFirst(own, d)
      BY DEF Exact, Heads
    <2>2. Head(own, d)' <=> Head(own, d)
      BY <1>0 DEF Head
    <2>3. IsFirst(own, d)' <=> IsFirst(own, d)
      BY <1>0, <1>1, <1>6, <1>7 DEF IsFirst
    <2> QED
      BY <2>1, <2>2, <2>3
  <1>11. Progress(own)'
    BY <1>0, <1>1 DEF Exact, Progress
  <1> QED
    BY <1>8, <1>9, <1>10, <1>11 DEF Exact

(* A directory that has none of its entries in use. *)
LEMMA NoneUsed ==
    ASSUME NEW ents, ~(Count(ents) > 0) \/ Count(ents) = 0, NEW n \in Names
    PROVE  ents[n].attr = "none"
  <1> DEFINE S == {m \in Names : ents[m].attr # "none"}
  <1>1. IsFiniteSet(S)
    BY Fat32Assumption, FS_Subset
  <1>2. Cardinality(S) \in Nat /\ (Cardinality(S) = 0 <=> S = {})
    BY <1>1, FS_CardinalityType, FS_EmptySet
  <1>3. Cardinality(S) = 0
    <2> HIDE DEF S
    <2> QED
      BY <1>2 DEF Count, S
  <1> QED
    BY <1>2, <1>3

(* The directory write of a call that buries nothing loses no directory     *)
(* with entries.                                                            *)
LEMMA TreeKept ==
    ASSUME TypeInv, VolOK', NEW own, Sound(own), Exact(own), pc = "entry", ~Buries,
           disk' = [disk EXCEPT ![parent] = NewDirectory],
           NEW p \in ReachableDirs,
           p = parent \/ \E n \in Names : Entry(p, n).attr # "none"
    PROVE  p \in ReachableDirs'
  <1>0. /\ InCall /\ parent \in ReachableDirs /\ parent \in Clusters /\ name \in Names /\ VolOK
        /\ op \in {"write", "mkdir", "delete", "rmdir"} /\ copy = disk[parent].ents
        /\ ReachableDirs \subseteq Clusters
    BY ParentOwned, CallDirs DEF InCall, TypeInv, CallOK, Sound, Replacing
  <1>1. /\ \A c \in Clusters \ {parent} : disk'[c] = disk[c]
        /\ \A n \in Names \ {name} : disk'[parent].ents[n] = disk[parent].ents[n]
        /\ DirIn(disk', parent) /\ DirIn(disk, parent)
    BY EntryStored
  <1>2. /\ Root \in ReachableDirs' /\ IsClosed(disk', ReachableDirs') /\ ReachableDirs' \subseteq Clusters
    BY ReachIs, ReachDirs DEF VolOK
  <1>3. ASSUME copy[name].attr = "dir", IsDir(copy[name].first), NEW n \in Names
        PROVE  disk[copy[name].first].ents[n].attr = "none"
    <2> DEFINE x == copy[name].first
    <2>1. CASE op \in {"write", "delete"}
      <3>1. ~InUse(x)
        BY <1>3, <2>1 DEF Buries
      <3>2. ~(Count(disk[x].ents) > 0)
        BY <1>3, <3>1 DEF InUse
      <3> QED
        BY <3>2, NoneUsed
    <2>2. CASE op = "rmdir"
      <3>1. fat32_is_directory_empty(x)
        BY <1>0, <2>2 DEF Exact, Progress, OldFirst
      <3>2. Count(disk[x].ents) = 0
        BY <1>3, <3>1 DEF fat32_is_directory_empty
      <3> QED
        BY <3>2, NoneUsed
    <2>3. CASE op = "mkdir"
      BY <1>0, <1>3, <2>3 DEF Sound, Replacing
    <2> QED
      BY <1>0, <2>1, <2>2, <2>3
  <1> DEFINE S == ReachableDirs' \union
                    {c \in Clusters : copy[name].attr = "dir" /\ c = copy[name].first /\ IsDir(c)}
  <1>4. ASSUME NEW q \in S, NEW n \in Names, disk[q].ents[n].attr = "dir",
               DirIn(disk, disk[q].ents[n].first)
        PROVE  disk[q].ents[n].first \in S
    <2> DEFINE f == disk[q].ents[n].first
    <2>1. q \in ReachableDirs'
      BY <1>3, <1>4
    <2>2. q \in ReachableDirs
      <3> SUFFICES ASSUME q \notin ReachableDirs PROVE FALSE
        OBVIOUS
      <3>1. disk'[q].ents[n].attr = "none"
        BY <2>1, EntryReach
      <3>2. disk'[q] = disk[q]
        BY <1>0, <1>1, <1>2, <2>1
      <3> QED
        BY <1>4, <3>1, <3>2
    <2>3. f \in Clusters
      BY <1>0, <1>4, <2>2, CallDirs DEF Entry, GoodEntry
    <2>4. CASE q = parent /\ n = name
      BY <1>0, <1>4, <2>3, <2>4 DEF DirIn, IsDir
    <2>5. CASE ~(q = parent /\ n = name)
      <3>1. disk'[q].ents[n] = disk[q].ents[n]
        BY <1>0, <1>1, <2>2, <2>5
      <3>2. DirIn(disk', f)
        BY <1>1, <1>4, <2>3 DEF DirIn
      <3> QED
        BY <1>2, <1>4, <2>1, <3>1, <3>2 DEF IsClosed
    <2> QED
      BY <2>4, <2>5
  <1>5. IsClosed(disk, S) /\ Root \in S
    BY <1>2, <1>4 DEF IsClosed
  <1>6. p \in S
    BY <1>5, ReachLeast, ReachIs
  <1>7. ASSUME p \notin ReachableDirs' PROVE FALSE
    <2>1. copy[name].attr = "dir" /\ p = copy[name].first /\ IsDir(p)
      BY <1>6, <1>7
    <2>2. \A n \in Names : disk[p].ents[n].attr = "none"
      BY <1>3, <2>1
    <2>3. PICK n \in Names : disk[p].ents[n].attr # "none"
      BY <1>0, <2>1 DEF Entry
    <2> QED
      BY <2>2, <2>3
  <1> QED
    BY <1>7

(* The directory write makes the new chain the entry's.                     *)
LEMMA ExactEntry ==
    ASSUME TypeInv, VolOK', ChainsAcyclic, NEW own, Sound(own), Exact(own), EntryWritten, ~Buries,
           NEW o, Give(own, o)
    PROVE  Exact(o)'
  <1>0. /\ pc = "entry" /\ pc' = "fsinfo" /\ fat1' = fat1 /\ g_free_clusters' = g_free_clusters
        /\ disk' = [disk EXCEPT ![parent] = NewDirectory] /\ InCall
    BY DEF EntryWritten, fat32_write_cluster, InCall
  <1>p. PICK q, m : q = parent /\ m = name
    OBVIOUS
  <1>1. /\ parent \in ReachableDirs /\ parent \in Clusters /\ name \in Names
        /\ Self = <<q, m>> /\ Self \notin {NOBODY, FRESH} /\ NOBODY # FRESH
        /\ q \in ReachableDirs' /\ m \in Names
        /\ op \in {"write", "mkdir", "delete", "rmdir"}
    <2>1. parent \in ReachableDirs /\ parent \in Clusters /\ name \in Names
      BY <1>0, ParentOwned
    <2>2. parent \in ReachableDirs'
      BY <1>0, <2>1, TreeKept
    <2> QED
      BY <1>0, <1>p, <2>1, <2>2, Labels DEF Self, TypeInv, CallOK
  <1>2. /\ \A c \in Clusters \ {parent} : disk'[c] = disk[c]
        /\ \A n \in Names \ {name} : disk'[parent].ents[n] = disk[parent].ents[n]
        /\ disk'[q].ents[m] = IF op \in {"write", "mkdir"} THEN NewEntry ELSE NoEntry
    BY <1>0, <1>p, EntryStored
  <1>3. \A c \in Clusters : own[c] # Self
    BY <1>0 DEF Exact, Progress
  <1>4. \A c \in Clusters : o[c] = IF own[c] = FRESH THEN Self ELSE own[c]
    BY <1>3 DEF Give
  <1>5. ASSUME NEW c \in Clusters, own[c] \notin {NOBODY, FRESH}
        PROVE  \E p \in ReachableDirs, n \in Names :
                 /\ own[c] = <<p, n>> /\ Entry(p, n).attr # "none"
                 /\ Entry(p, n).attr = "dir" => fat1[c] \notin Clusters
                 /\ p \in ReachableDirs' /\ Entry(p, n)' = Entry(p, n)
    <2>1. PICK p \in ReachableDirs, n \in Names :
                 /\ own[c] = <<p, n>> /\ Entry(p, n).attr # "none"
                 /\ Entry(p, n).attr = "dir" => fat1[c] \notin Clusters
      BY <1>5 DEF Exact, InTree
    <2>2. p \in ReachableDirs'
      BY <1>0, <2>1, TreeKept
    <2>3. ~(p = parent /\ n = name)
      BY <1>3, <1>5, <2>1 DEF Self
    <2>4. p \in Clusters
      BY CallDirs DEF TypeInv
    <2>5. Entry(p, n)' = Entry(p, n)
      BY <1>2, <2>3, <2>4 DEF Entry
    <2> QED
      BY <2>1, <2>2, <2>5
  <1>6. ASSUME NEW c \in Clusters, own[c] = FRESH PROVE op \in {"write", "mkdir"}
    <2> SUFFICES ASSUME op \notin {"write", "mkdir"} PROVE FALSE
      OBVIOUS
    <2> DEFINE T == {d \in Clusters : own[d] = FRESH}
    <2>0. first = 0
      BY <1>0, <1>1 DEF TypeInv, CallOK, BuildOK
    <2>1. ASSUME NEW d \in T PROVE \E e \in T : fat1[e] = d
      <3>1. ~IsFirst(own, d)
        BY <1>0, <2>0, Marks DEF IsFirst
      <3>2. ~Head(own, d)
        BY <1>1, <3>1 DEF Exact, Heads
      <3>3. PICK e \in Clusters : own[e] # NOBODY /\ fat1[e] = d
        BY <3>2 DEF Head
      <3>4. own[e] = FRESH
        BY <3>3 DEF Sound, Closed
      <3> QED
        BY <3>3, <3>4
    <2>2. T \subseteq Clusters
      OBVIOUS
    <2>3. T = {}
      <3> HIDE DEF T
      <3> QED
        BY <2>1, <2>2, NoLeaders
    <2> QED
      BY <1>6, <2>3
  <1>7. op \in {"write", "mkdir"} => /\ Entry(q, m)'.attr = (IF op = "mkdir" THEN "dir" ELSE "file")
                                     /\ Entry(q, m)'.first = first
    BY <1>2 DEF Entry, NewEntry
  <1>8. CountExact'
    BY <1>0, AllFree DEF Exact, CountExact
  <1>9. \A c \in Clusters : o[c] = NOBODY <=> own[c] = NOBODY
    BY <1>1, <1>4
  <1>10. Paths(o)' /\ NothingLeaked(o)'
    BY <1>0, <1>9 DEF Exact, Paths, NothingLeaked
  <1>11. InTree(o)'
    <2> SUFFICES ASSUME NEW c \in Clusters, o[c] \notin {NOBODY, FRESH}
                 PROVE  \E p \in ReachableDirs', n \in Names :
                          /\ o[c] = <<p, n>> /\ Entry(p, n)'.attr # "none"
                          /\ Entry(p, n)'.attr = "dir" => fat1'[c] \notin Clusters
      BY DEF InTree
    <2>1. CASE own[c] = FRESH
      <3>1. o[c] = <<q, m>> /\ op \in {"write", "mkdir"}
        BY <1>1, <1>4, <1>6, <2>1
      <3>2. op = "mkdir" => fat1[c] \notin Clusters
        BY <2>1 DEF Exact, Progress
      <3> QED
        BY <1>0, <1>1, <1>7, <3>1, <3>2
    <2>2. CASE own[c] # FRESH
      <3>1. o[c] = own[c] /\ own[c] \notin {NOBODY, FRESH}
        BY <1>4, <2>2
      <3>2. PICK p \in ReachableDirs, n \in Names :
                 /\ own[c] = <<p, n>> /\ Entry(p, n).attr # "none"
                 /\ Entry(p, n).attr = "dir" => fat1[c] \notin Clusters
                 /\ p \in ReachableDirs' /\ Entry(p, n)' = Entry(p, n)
        BY <1>5, <3>1
      <3> QED
        BY <1>0, <3>1, <3>2
    <2> QED
      BY <2>1, <2>2
  <1>12. Heads(o)'
    <2> SUFFICES ASSUME NEW c \in Clusters, o[c] # NOBODY PROVE Head(o, c)' <=> IsFirst(o, c)'
      BY DEF Heads
    <2>1. own[c] # NOBODY /\ (Head(own, c) <=> IsFirst(own, c))
      BY <1>9 DEF Exact, Heads
    <2>2. Head(o, c)' <=> Head(own, c)
      BY <1>0, <1>9 DEF Head
    <2>3. o[c] # FRESH
      BY <1>1, <1>4
    <2>4. IsFirst(o, c)' <=> \E p \in ReachableDirs', n \in Names : o[c] = <<p, n>> /\ c = Entry(p, n)'.first
      BY <1>0, <2>3 DEF IsFirst
    <2>5. CASE own[c] = FRESH
      <3>1. o[c] = <<q, m>> /\ Entry(q, m)'.first = first
        BY <1>1, <1>4, <1>6, <1>7, <2>5
      <3>2. IsFirst(own, c) <=> c = first
        BY <1>0, <2>5 DEF IsFirst
      <3>3. \A p, n : o[c] = <<p, n>> => p = q /\ n = m
        BY <3>1, Labels
      <3>4. (\E p \in ReachableDirs', n \in Names : o[c] = <<p, n>> /\ c = Entry(p, n)'.first) <=> c = first
        BY <1>1, <3>1, <3>3
      <3> QED
        BY <2>1, <2>2, <2>4, <3>2, <3>4
    <2>6. CASE own[c] # FRESH
      <3>1. o[c] = own[c] /\ own[c] \notin {NOBODY, FRESH}
        BY <1>4, <2>1, <2>6
      <3>2. PICK p \in ReachableDirs, n \in Names :
                 own[c] = <<p, n>> /\ p \in ReachableDirs' /\ Entry(p, n)' = Entry(p, n)
        BY <1>5, <3>1
      <3>3. \A x, y : own[c] = <<x, y>> => x = p /\ y = n
        BY <3>2, Labels
      <3>4. IsFirst(own, c) <=> \E x \in ReachableDirs, y \in Names : own[c] = <<x, y>> /\ c = Entry(x, y).first
        BY <1>0, <2>6 DEF IsFirst
      <3>5. IsFirst(own, c) <=> c = Entry(p, n).first
        BY <3>2, <3>3, <3>4
      <3>6. IsFirst(o, c)' <=> c = Entry(p, n)'.first
        BY <2>4, <3>1, <3>2, <3>3
      <3> QED
        BY <2>1, <2>2, <3>2, <3>5, <3>6
    <2> QED
      BY <2>5, <2>6
  <1>13. Progress(o)'
    <2>1. \A c \in Clusters : o[c] # FRESH
      BY <1>1, <1>4
    <2> QED
      BY <1>0, <2>1 DEF Progress, InCall
  <1> QED
    BY <1>8, <1>10, <1>11, <1>12, <1>13 DEF Exact

(* Between calls. *)
LEMMA ExactQuiet ==
    ASSUME TypeInv, NEW own, Sound(own), Exact(own), pc \in {"off", "idle", "fsinfo"}, pc' = "idle",
           fat1' = fat1, disk' = disk, fsinfo' = g_free_clusters', g_free_clusters' = g_free_clusters,
           ~freed'
    PROVE  Sound(own)' /\ Exact(own)'
  <1>0. \A c \in Clusters : own[c] # FRESH
    BY DEF Sound, Replacing
  <1>1. Drop(own, own, FRESH)
    BY <1>0 DEF Drop, Sound
  <1>2. freed => pc = "fsinfo"
    BY DEF TypeInv, CallOK
  <1>3. Sound(own)'
    BY <1>1, <1>2, QuietRest, RestSoundNext
  <1>4. ReachableDirs' = ReachableDirs /\ \A q, m : Entry(q, m)' = Entry(q, m)
    BY SameDirs DEF Entry
  <1>5. CountExact'
    BY AllFree DEF Exact, CountExact
  <1>6. Paths(own)' /\ NothingLeaked(own)' /\ InTree(own)'
    BY <1>4 DEF Exact, Paths, NothingLeaked, InTree
  <1>7. Heads(own)'
    BY <1>0, <1>4 DEF Exact, Heads, Head, IsFirst
  <1>8. Progress(own)'
    BY <1>0 DEF Progress, InCall
  <1> QED
    BY <1>3, <1>5, <1>6, <1>7, <1>8 DEF Exact

(* A formatted volume. *)
LEMMA FormattedCount ==
    Cardinality({c \in Clusters : FormattedFat[c] = FREE}) = TotalClusters - 1
  <1>1. {c \in Clusters : FormattedFat[c] = FREE} = Clusters \ {Root}
    BY Marks DEF FormattedFat
  <1>2. Cardinality(Clusters \ {Root}) = Cardinality(Clusters) - 1
    BY RootCluster, FS_RemoveElement
  <1> QED
    BY <1>1, <1>2, RootCluster

(* Init establishes CleanInv ...                                            *)
LEMMA CleanInit == Init => CleanInv
  <1> SUFFICES ASSUME Init PROVE \E own : Sound(own) /\ Exact(own)
    BY DEF CleanInv, NoFault, Init
  <1> DEFINE own == [c \in Clusters |-> NOBODY]
  <1>1. TypeInv
    BY InitType
  <1>2. disk[Root] = Dir(EmptyDir)
    BY RootCluster DEF Init, FormattedDisk
  <1>3. ReachableDirs = {Root}
    BY <1>1, <1>2, FormattedRest, ReachIs DEF TypeInv, VolOK
  <1>4. \A n \in Names : Entry(Root, n) = NoEntry
    BY <1>2 DEF Entry, Dir, EmptyDir
  <1>5. AtRest(own)
    BY <1>3, <1>4, RootCluster, Labels DEF AtRest, Owners, Owns, Keeps, NoEntry
  <1>6. Sound(own)
    BY <1>5, RestSound DEF Init
  <1>7. \A c \in Clusters : own[c] = NOBODY
    OBVIOUS
  <1> HIDE DEF own
  <1>8. CountExact
    BY AllFree, FormattedCount DEF CountExact, Init
  <1>9. NothingLeaked(own)
    BY DEF NothingLeaked, Init, FormattedFat
  <1>10. Heads(own) /\ Paths(own) /\ InTree(own)
    BY <1>7 DEF Heads, Paths, InTree
  <1>11. Progress(own)
    BY <1>7, Labels DEF Progress, Init, InCall
  <1> QED
    BY <1>6, <1>8, <1>9, <1>10, <1>11 DEF Exact

(* ... and so does a complete fat32_format.                                 *)
LEMMA FormatExact ==
    ASSUME TypeInv, VolOK', fat32_format(4)
    PROVE  \E own : Sound(own)' /\ Exact(own)'
  <1>0. /\ pc \in {"off", "idle"} /\ pc' = pc /\ ~freed /\ freed' = freed /\ fat1' = FormattedFat
        /\ fsinfo' = TotalClusters - 1 /\ g_free_clusters' = TotalClusters - 1
    BY DEF fat32_format, TypeInv, CallOK
  <1> DEFINE own == [c \in Clusters |-> NOBODY]
  <1>1. disk'[Root] = Dir(EmptyDir)
    BY RootCluster DEF fat32_format, FormattedDisk, TypeInv, VolOK
  <1>2. ReachableDirs' = {Root}
    BY <1>1, FormattedRest, ReachIs DEF VolOK
  <1>3. \A n \in Names : Entry(Root, n)' = NoEntry
    BY <1>1 DEF Entry, Dir, EmptyDir
  <1>4. AtRest(own)'
    BY <1>2, <1>3, RootCluster, Labels DEF AtRest, Owners, Owns, Keeps, NoEntry
  <1>5. Sound(own)'
    BY <1>0, <1>4, RestSoundNext
  <1>6. \A c \in Clusters : own[c] = NOBODY
    OBVIOUS
  <1> HIDE DEF own
  <1>7. CountExact'
    BY <1>0, AllFree, FormattedCount DEF CountExact
  <1>8. NothingLeaked(own)'
    BY <1>0 DEF NothingLeaked, FormattedFat
  <1>9. Heads(own)' /\ Paths(own)' /\ InTree(own)'
    BY <1>6 DEF Heads, Paths, InTree
  <1>10. Progress(own)'
    BY <1>0, <1>6, Labels DEF Progress, InCall
  <1> QED
    BY <1>5, <1>7, <1>8, <1>9, <1>10 DEF Exact

(* What a step may do to the observations, if they stay clean. *)
LEMMA CleanFlags ==
    ASSUME TypeInv, clean => NoFault, Next, clean'
    PROVE  NoFault' /\ (clean \/ fat32_format(4))
  <1>c. NoCall => ~opfault' /\ ~broken'
    BY DEF NoCall
  <1>1. CASE fat32_init
    BY <1>1, Zenon DEF fat32_init, NoFault
  <1>2. ASSUME NEW stage \in FormatStages, fat32_format(stage) PROVE NoFault' /\ fat32_format(4)
    <2>1. stage = 4
      BY <1>2, Zenon DEF fat32_format
    <2>2. ~damage' /\ opfault' = opfault /\ broken' = broken /\ pc \in {"off", "idle"}
      BY <1>2, <2>1, Zenon DEF fat32_format
    <2>3. ~opfault /\ ~broken
      BY <2>2 DEF TypeInv, CallOK
    <2> QED
      BY <1>2, <2>1, <2>2, <2>3 DEF NoFault
  <1>3. CASE Crash
    BY <1>3 DEF Crash
  <1>4. ASSUME NEW p, NEW n, NEW d, NEW s, fat32_write_file_in(p, n, d, s) PROVE clean /\ NoFault'
    BY <1>4, Zenon DEF fat32_write_file_in, Call, NoFault
  <1>5. ASSUME NEW p, NEW n, fat32_create_directory_in(p, n) PROVE clean /\ NoFault'
    BY <1>5, Zenon DEF fat32_create_directory_in, Call, NoFault
  <1>6. ASSUME NEW n, fat32_delete_file(n) PROVE clean /\ NoFault'
    BY <1>6, Zenon DEF fat32_delete_file, Call, NoFault
  <1>7. ASSUME NEW p, NEW n, fat32_delete_directory_in(p, n) PROVE clean /\ NoFault'
    BY <1>7, Zenon DEF fat32_delete_directory_in, Call, NoFault
  <1>8. CASE fat32_free_cluster
    BY <1>8, Zenon DEF fat32_free_cluster, NoFault
  <1>9. CASE FreeDone
    BY <1>9, Zenon DEF FreeDone, observed, NoFault
  <1>10. ASSUME NEW c \in Clusters, AllocTake(c) PROVE clean /\ NoFault'
    BY <1>10, Zenon DEF AllocTake, Taken, observed, NoFault
  <1>11. ASSUME NEW c \in Clusters, AllocSkip(c) PROVE FALSE
    BY <1>11, Zenon DEF AllocSkip
  <1>12. CASE AllocFull
    BY <1>12, Zenon DEF AllocFull, Fail
  <1>13. CASE Link
    <2>1. PICK ok \in BOOLEAN : /\ fat32_set_next_cluster(prev, cluster, ok)
                                /\ opfault' = (opfault \/ ~ok) /\ clean' = (clean /\ ok)
      BY <1>13, Zenon DEF Link
    <2>2. clean /\ ok /\ ~opfault' /\ ~broken /\ ~damage
      BY <2>1, Zenon DEF NoFault
    <2>3. fat1' = [fat1 EXCEPT ![prev] = cluster] /\ prev \in Clusters /\ fat1 \in [Clusters -> FatValues]
      BY <1>13, <2>1, <2>2 DEF Link, fat32_set_next_cluster, TypeInv, VolOK, BuildOK
    <2>4. fat1'[prev] = cluster
      BY <2>3
    <2>5. damage' = damage /\ broken' = (broken \/ fat1'[prev] # cluster)
      BY <1>13, Zenon DEF Link
    <2> QED
      BY <2>2, <2>4, <2>5, Zenon DEF NoFault
  <1>14. CASE DataWritten
    BY <1>14, Zenon DEF DataWritten, observed, NoFault
  <1>15. CASE DataFailed
    BY <1>15, Zenon DEF DataFailed, Fail
  <1>16. CASE EntryWritten
    BY <1>16, Zenon DEF EntryWritten, NoFault
  <1>17. CASE EntryFailed
    BY <1>17, Zenon DEF EntryFailed, Fail
  <1>18. CASE fat32_update_fsinfo
    BY <1>18, <1>c, Zenon DEF fat32_update_fsinfo, NoFault
  <1> QED
    BY <1>1, <1>2, <1>3, <1>4, <1>5, <1>6, <1>7, <1>8, <1>9, <1>10, <1>11, <1>12, <1>13, <1>14,
       <1>15, <1>16, <1>17, <1>18 DEF Next

(* What a call buries stays buried. *)
LEMMA StaysBuried ==
    ASSUME TypeInv, Buries,
           op' = op, copy' = copy, name' = name,
           disk' = disk \/ (cluster \in Clusters /\ disk' = [disk EXCEPT ![cluster] = NewContents])
    PROVE  Buries'
  <1> DEFINE x == copy[name].first
  <1>1. op \in {"write", "delete"} /\ copy[name].attr = "dir" /\ InUse(x)
    BY DEF Buries
  <1>2. CASE disk' = disk
    BY <1>1, <1>2 DEF Buries, InUse, IsDir, Count
  <1>3. CASE cluster \in Clusters /\ disk' = [disk EXCEPT ![cluster] = NewContents] /\ x = cluster
    <2>1. NewContents.kind = "data"
      BY <1>1 DEF NewContents, Chunk
    <2>2. disk'[x].kind = "data"
      BY <1>3, <2>1 DEF TypeInv, VolOK
    <2> QED
      BY <1>1, <2>2 DEF Buries, InUse, IsDir
  <1>4. CASE cluster \in Clusters /\ disk' = [disk EXCEPT ![cluster] = NewContents] /\ x # cluster
    <2>1. disk'[x] = disk[x]
      BY <1>4 DEF TypeInv, VolOK
    <2> HIDE DEF x
    <2>2. InUse(x)'
      BY <1>1, <2>1 DEF InUse, IsDir, Count, x
    <2> QED
      BY <1>1, <2>2 DEF Buries, x
  <1> QED
    BY <1>2, <1>3, <1>4

(* Every step keeps it.                                                     *)
LEMMA CleanStep == TypeInv /\ VolOK' /\ ChainsAcyclic /\ CleanInv /\ Next => CleanInv'
  <1> SUFFICES ASSUME TypeInv, VolOK', ChainsAcyclic, CleanInv, Next, clean' PROVE
                 NoFault' /\ ((InCall' /\ Buries') \/ \E own : Sound(own)' /\ Exact(own)')
    BY DEF CleanInv
  <1>1. NoFault' /\ (clean \/ fat32_format(4))
    BY CleanFlags DEF CleanInv
  <1> SUFFICES ASSUME ~(InCall' /\ Buries') PROVE \E own : Sound(own)' /\ Exact(own)'
    BY <1>1
  <1>f. CASE fat32_format(4)
    BY <1>f, FormatExact
  <1> SUFFICES ASSUME clean PROVE \E own : Sound(own)' /\ Exact(own)'
    BY <1>1, <1>f
  <1>n. NoFault /\ ~opfault'
    BY <1>1 DEF CleanInv, NoFault
  <1>2. ASSUME ~(InCall /\ Buries) PROVE \E own : Sound(own) /\ Exact(own)
    BY <1>2 DEF CleanInv
  <1>i. ~InCall => \E own : Sound(own) /\ Exact(own)
    BY <1>2
  <1>b. ASSUME InCall', op' = op, copy' = copy, name' = name, disk' = disk
        PROVE  \E own : Sound(own) /\ Exact(own)
    BY <1>2, <1>b, StaysBuried
  <1>3. CASE fat32_init
    <2>1. PICK own : Sound(own) /\ Exact(own)
      BY <1>3, <1>i DEF fat32_init, InCall
    <2>2. PICK ok \in BOOLEAN : g_free_clusters' = (IF ok THEN fsinfo ELSE UNKNOWN) /\ clean' = (clean /\ ok)
      BY <1>3 DEF fat32_init
    <2>3. g_free_clusters' = fsinfo
      BY <2>2
    <2>4. fsinfo = g_free_clusters
      BY <1>3, <2>1 DEF Exact, CountExact, fat32_init
    <2>5. fat1' = fat1 /\ disk' = disk /\ ~freed' /\ pc' = "idle" /\ pc \in {"off", "idle"} /\ fsinfo' = fsinfo
      BY <1>3 DEF fat32_init, volume, TypeInv, CallOK
    <2> QED
      BY <2>1, <2>3, <2>4, <2>5, ExactQuiet
  <1>4. ASSUME NEW p \in ReachableDirs, NEW n \in Names, NEW d \in Data, NEW s \in 0 .. MaxSize,
                fat32_write_file_in(p, n, d, s)
        PROVE  \E own : Sound(own)' /\ Exact(own)'
    <2>1. PICK own : Sound(own) /\ Exact(own)
      BY <1>4, <1>i DEF fat32_write_file_in, InCall
    <2>2. Sound(own)'
      BY <1>4, <2>1, SoundCall DEF fat32_write_file_in
    <2>3. Exact(own)'
      BY <1>4, <2>1, ExactCall DEF fat32_write_file_in
    <2> QED
      BY <2>2, <2>3
  <1>5. ASSUME NEW p \in ReachableDirs, NEW n \in Names, fat32_create_directory_in(p, n)
        PROVE  \E own : Sound(own)' /\ Exact(own)'
    <2>1. PICK own : Sound(own) /\ Exact(own)
      BY <1>5, <1>i DEF fat32_create_directory_in, InCall
    <2>2. Sound(own)'
      BY <1>5, <2>1, SoundCall DEF fat32_create_directory_in
    <2>3. Exact(own)'
      BY <1>5, <2>1, ExactCall DEF fat32_create_directory_in
    <2> QED
      BY <2>2, <2>3
  <1>6. ASSUME NEW n \in Names, fat32_delete_file(n) PROVE \E own : Sound(own)' /\ Exact(own)'
    <2>0. Root \in ReachableDirs
      BY ReachIs, ReachDirs DEF TypeInv, VolOK
    <2>1. PICK own : Sound(own) /\ Exact(own)
      BY <1>6, <1>i DEF fat32_delete_file, InCall
    <2>2. Sound(own)'
      BY <1>6, <2>0, <2>1, SoundCall DEF fat32_delete_file
    <2>3. Exact(own)'
      BY <1>6, <2>0, <2>1, ExactCall DEF fat32_delete_file
    <2> QED
      BY <2>2, <2>3
  <1>7. ASSUME NEW p \in ReachableDirs, NEW n \in Names, fat32_delete_directory_in(p, n)
        PROVE  \E own : Sound(own)' /\ Exact(own)'
    <2>1. PICK own : Sound(own) /\ Exact(own)
      BY <1>7, <1>i DEF fat32_delete_directory_in, InCall
    <2>2. Sound(own)'
      BY <1>7, <2>1, SoundCall DEF fat32_delete_directory_in
    <2>3. fat32_is_directory_empty(Entry(p, n).first)
      BY <1>7, <1>n DEF fat32_delete_directory_in
    <2>4. Exact(own)'
      BY <1>7, <2>1, <2>3, ExactCall DEF fat32_delete_directory_in
    <2> QED
      BY <2>2, <2>4
  <1>8. CASE fat32_free_cluster
    <2>1. PICK own : Sound(own) /\ Exact(own)
      BY <1>8, <1>b DEF fat32_free_cluster, InCall, args
    <2> QED
      BY <1>8, <1>n, <2>1, SoundFree, ExactFree
  <1>9. CASE FreeDone
    <2>1. PICK own : Sound(own) /\ Exact(own)
      BY <1>9, <1>b DEF FreeDone, InCall, args, volume
    <2>2. PICK o : IF freed THEN Drop(own, o, Self) ELSE o = own
      BY <2>1, DropExists DEF Sound
    <2> QED
      BY <1>9, <2>1, <2>2, SoundFreeDone, ExactFreeDone
  <1>10. ASSUME NEW c \in Clusters, AllocTake(c) PROVE \E own : Sound(own)' /\ Exact(own)'
    <2>1. PICK own : Sound(own) /\ Exact(own)
      BY <1>10, <1>b DEF AllocTake, Taken, InCall, args
    <2>2. PICK o : o = [own EXCEPT ![c] = FRESH]
      OBVIOUS
    <2> QED
      BY <1>10, <2>1, <2>2, SoundTake, ExactTake
  <1>11. CASE Link
    <2>1. PICK own : Sound(own) /\ Exact(own)
      BY <1>11, <1>b DEF Link, InCall, args
    <2> QED
      BY <1>11, <1>n, <2>1, SoundLink, ExactLink
  <1>12. CASE DataWritten
    <2>0. /\ InCall' /\ op' = op /\ copy' = copy /\ name' = name /\ cluster \in Clusters
          /\ disk' = [disk EXCEPT ![cluster] = NewContents]
      BY <1>12 DEF DataWritten, InCall, args, TypeInv, BuildOK, fat32_write_cluster
    <2>1. PICK own : Sound(own) /\ Exact(own)
      BY <1>2, <2>0, StaysBuried
    <2> QED
      BY <1>12, <2>0, <2>1, SoundData, ExactData
  <1>13. CASE EntryWritten
    <2>0. ~Buries
      BY <1>13, Zenon DEF EntryWritten
    <2>1. PICK own : Sound(own) /\ Exact(own)
      BY <1>2, <2>0
    <2>2. Self \in Owners /\ InCall
      BY <1>13, <2>1, ParentOwned DEF Self, Owners, EntryWritten, InCall
    <2>3. PICK o : Give(own, o)
      BY <2>1, <2>2, GiveExists DEF Sound
    <2>4. Exact(o)'
      BY <1>13, <2>0, <2>1, <2>3, ExactEntry
    <2>5. AtRest(o)'
      BY <1>13, <2>1, <2>3, EntryRest DEF EntryWritten, fat32_write_cluster
    <2>6. Sound(o)'
      BY <1>13, <2>5, RestSoundNext DEF EntryWritten
    <2> QED
      BY <2>4, <2>6
  <1>14. CASE fat32_update_fsinfo
    <2>1. PICK own : Sound(own) /\ Exact(own)
      BY <1>14, <1>i DEF fat32_update_fsinfo, InCall
    <2>2. g_free_clusters # UNKNOWN
      <3>1. g_free_clusters = Cardinality(FreeFrom(2)) /\ FreeFrom(2) \subseteq Clusters
        BY <2>1 DEF Exact, CountExact, FreeFrom
      <3> QED
        BY <3>1, FreeSet
    <2>3. PICK ok \in BOOLEAN : /\ clean' = (clean /\ ok)
                                /\ fsinfo' \in {IF g_free_clusters = UNKNOWN THEN fsinfo ELSE g_free_clusters}
                                               \union IF ok THEN {} ELSE {fsinfo}
      BY <1>14 DEF fat32_update_fsinfo
    <2>4. fsinfo' = g_free_clusters
      BY <2>2, <2>3
    <2>5. fat1' = fat1 /\ disk' = disk /\ ~freed' /\ pc' = "idle" /\ pc = "fsinfo" /\ g_free_clusters' = g_free_clusters
      BY <1>14 DEF fat32_update_fsinfo, NoCall
    <2> QED
      BY <2>1, <2>4, <2>5, ExactQuiet
  <1>15. ASSUME NEW stage \in FormatStages, fat32_format(stage) PROVE fat32_format(4)
    <2>1. stage = 4
      BY <1>15, Zenon DEF fat32_format
    <2> QED
      BY <1>15, <2>1
  <1>16. ~Crash /\ ~AllocFull /\ ~DataFailed /\ ~EntryFailed /\ \A c \in Clusters : ~AllocSkip(c)
    BY Zenon DEF Crash, AllocFull, DataFailed, EntryFailed, AllocSkip, Fail
  <1> QED
    BY <1>f, <1>3, <1>4, <1>5, <1>6, <1>7, <1>8, <1>9, <1>10, <1>11, <1>12, <1>13, <1>14,
       <1>15, <1>16 DEF Next

(* Following the FAT does not leave a chain.                                 *)
LEMMA ChainClosed ==
    ASSUME ChainsAcyclic, NEW c \in Clusters, NEW e \in ChainOf(c), fat1[e] \in Clusters
    PROVE  fat1[e] \in ChainOf(c)
  <1> DEFINE w == Walk(c)
             N == Cardinality(ChainOf(c))
  <1>1. N \in 1 .. TotalClusters /\ ChainOf(c) = {w[k] : k \in 0 .. N - 1} /\ w[N] \notin Clusters
    BY WalkEnds
  <1> HIDE DEF N
  <1>2. PICK k \in 0 .. N - 1 : e = w[k]
    BY <1>1
  <1>3. k + 1 \in 0 .. TotalClusters /\ k + 1 # 0 /\ (k + 1) - 1 = k
    BY <1>1, <1>2, Fat32Assumption
  <1>4. e \in Clusters
    BY DEF ChainOf
  <1>5. w[k + 1] = fat1[e]
    BY <1>2, <1>3, <1>4, WalkIs
  <1> QED
    BY <1>3, <1>5 DEF ChainOf

(* A chain has its first cluster.                                           *)
LEMMA ChainStarts == ASSUME NEW c \in Clusters PROVE c \in ChainOf(c)
  <1>1. 0 \in 0 .. TotalClusters
    BY Fat32Assumption
  <1>2. Walk(c)[0] = c
    BY WalkIs
  <1> QED
    BY <1>1, <1>2 DEF ChainOf

(* At rest, a cluster is in the chain of its owner: a set of owned clusters   *)
(* outside it would have no head.                                            *)
LEMMA OwnedInChain ==
    ASSUME VolOK, ChainsAcyclic, pc = "idle", NEW own, AtRest(own), Heads(own),
           NEW p \in ReachableDirs, NEW n \in Names, Entry(p, n).attr # "none",
           NEW c \in Clusters, own[c] = <<p, n>>
    PROVE  c \in ChainOf(Entry(p, n).first)
  <1> DEFINE f == Entry(p, n).first
             T == {d \in Clusters : own[d] = <<p, n>> /\ (f \in Clusters => d \notin ChainOf(f))}
  <1>0. <<p, n>> # NOBODY /\ <<p, n>> # FRESH /\ f \in Clusters \union {0}
    <2>1. p \in Clusters /\ Entry(p, n) \in Entries
      BY CallDirs
    <2> QED
      BY <2>1, Labels DEF Entries
  <1>1. ASSUME NEW d \in T PROVE \E e \in T : fat1[e] = d
    <2>1. d \in Clusters /\ own[d] = <<p, n>> /\ (f \in Clusters => d \notin ChainOf(f))
      BY <1>1
    <2>2. d # f
      BY <2>1, ChainStarts
    <2>3. ~IsFirst(own, d)
      <3>1. \A q \in ReachableDirs, m \in Names : own[d] = <<q, m>> /\ d = Entry(q, m).first => d = f
        BY <2>1, Labels
      <3> HIDE DEF f
      <3> QED
        BY <2>1, <2>2, <3>1, <1>0 DEF IsFirst
    <2>4. ~Head(own, d)
      BY <2>1, <2>3, <1>0 DEF Heads
    <2>5. PICK e \in Clusters : own[e] # NOBODY /\ fat1[e] = d
      BY <2>4 DEF Head
    <2>6. own[e] = <<p, n>>
      BY <2>1, <2>5 DEF AtRest
    <2>7. f \in Clusters => e \notin ChainOf(f)
      BY <2>1, <2>5, ChainClosed
    <2> QED
      BY <2>5, <2>6, <2>7
  <1>2. T \subseteq Clusters
    OBVIOUS
  <1> HIDE DEF T
  <1>3. T = {}
    BY <1>1, <1>2, NoLeaders
  <1> QED
    BY <1>3 DEF T

(* Between calls, the accounting is right.                                   *)
LEMMA CleanAccounts == Inv /\ CleanInv => CleanAccounting
  <1> SUFFICES ASSUME Inv, CleanInv, clean, pc = "idle"
               PROVE  /\ g_free_clusters = Cardinality(FreeFrom(2))
                      /\ fsinfo = g_free_clusters
                      /\ Clusters \ FreeFrom(2) = {Root} \union UNION {ChainOf(EntryAt(e).first) : e \in Used}
    BY DEF CleanAccounting
  <1>0. VolOK /\ ChainsAcyclic /\ ~freed
    BY DEF Inv, TypeInv, IInv, CallOK
  <1>1. PICK own : Sound(own) /\ Exact(own)
    BY DEF CleanInv, InCall
  <1>2. AtRest(own)
    BY <1>0, <1>1, RestSound
  <1>3. g_free_clusters = Cardinality(FreeFrom(2)) /\ fsinfo = g_free_clusters
    BY <1>1 DEF Exact, CountExact
  <1> DEFINE A == {Root} \union UNION {ChainOf(EntryAt(e).first) : e \in Used}
  <1>4. ASSUME NEW c \in Clusters, fat1[c] # FREE PROVE c \in A
    <2>1. CASE c # Root
      <3>1. own[c] # NOBODY /\ own[c] # FRESH
        BY <1>1, <1>2, <1>4, <2>1 DEF Exact, NothingLeaked, AtRest
      <3>2. PICK p \in ReachableDirs, n \in Names : own[c] = <<p, n>> /\ Entry(p, n).attr # "none"
        BY <1>1, <3>1 DEF Exact, InTree
      <3>3. c \in ChainOf(Entry(p, n).first)
        BY <1>0, <1>1, <1>2, <3>2, OwnedInChain DEF Exact
      <3>4. <<p, n>> \in Used /\ EntryAt(<<p, n>>) = Entry(p, n)
        BY <3>2 DEF Used, EntryAt
      <3> QED
        BY <3>3, <3>4
    <2> QED
      BY <2>1
  <1>5. ASSUME NEW c \in A PROVE c \in Clusters /\ fat1[c] # FREE
    <2>1. CASE c # Root
      <3>1. PICK e \in Used : c \in ChainOf(EntryAt(e).first)
        BY <1>5, <2>1
      <3>2. PICK p \in ReachableDirs, n \in Names : e = <<p, n>> /\ Entry(p, n).attr # "none"
                                                    /\ EntryAt(e) = Entry(p, n)
        BY DEF Used, EntryAt
      <3>3. PICK k \in 0 .. TotalClusters : c = Walk(Entry(p, n).first)[k] /\ c \in Clusters
        BY <3>1, <3>2 DEF ChainOf
      <3>4. own[c] = <<p, n>>
        BY <1>0, <1>2, <3>2, <3>3, WalkOwned
      <3>5. <<p, n>> # NOBODY
        BY <1>0, CallDirs, Labels
      <3> QED
        BY <1>2, <3>3, <3>4, <3>5 DEF AtRest
    <2> QED
      BY <1>0, <2>1, RootCluster DEF VolOK
  <1>6. Clusters \ FreeFrom(2) = A
    <2> HIDE DEF A
    <2> QED
      BY <1>4, <1>5, AllFree
  <1> QED
    BY <1>3, <1>6

(* CleanInv only depends on vars.                                           *)
LEMMA CleanUnchanged == CleanInv /\ UNCHANGED vars => CleanInv'
  <1> SUFFICES ASSUME CleanInv, UNCHANGED vars PROVE CleanInv'
    OBVIOUS
  <1> USE DEF vars, volume, args, chain, observed
  <1>3. ReachableDirs' = ReachableDirs
    BY ReachIs
  <1>5. ASSUME NEW own, Exact(own) PROVE Exact(own)'
    <2>1. FreeFrom(2)' = FreeFrom(2)
      BY AllFree
    <2>2. CountExact' /\ NothingLeaked(own)' /\ Paths(own)'
      BY <1>5, <2>1 DEF Exact, CountExact, NothingLeaked, Paths
    <2>3. Heads(own)' /\ InTree(own)'
      BY <1>3, <1>5 DEF Exact, Heads, Head, IsFirst, InTree, Entry, Self
    <2>4. Progress(own)'
      BY <1>5 DEF Exact, Progress, InCall, OldFirst, Self, fat32_is_directory_empty, IsDir, Count
    <2> QED
      BY <2>2, <2>3, <2>4 DEF Exact
  <1>6. NoFault' = NoFault /\ InCall' = InCall /\ Buries' = Buries /\ clean' = clean
    BY DEF NoFault, InCall, Buries, InUse, IsDir, Count
  <1> QED
    BY SoundUnchanged, <1>5, <1>6 DEF CleanInv

-----------------------------------------------------------------------------
(* The theorems.                                                            *)

(* Every step keeps the invariant.                                          *)
LEMMA InvStep == Inv /\ [Next]_vars => Inv'
  <1> SUFFICES ASSUME Inv, [Next]_vars PROVE Inv'
    OBVIOUS
  <1>1. CASE UNCHANGED vars
    BY <1>1, InvUnchanged
  <1>2. CASE Next
    <2>1. TypeInv'
      BY <1>2, VolStep, CountsStep, FlagsStep, CallStep, BuildStep DEF Inv, TypeInv
    <2>2. IInv'
      BY StepIInv DEF Inv
    <2>3. SoundInv'
      BY <1>2, <2>1, SoundStep DEF Inv, TypeInv
    <2> QED
      BY <2>1, <2>2, <2>3 DEF Inv
  <1> QED
    BY <1>1, <1>2

(* The invariant holds throughout.                                          *)
LEMMA Invariance == Spec => []Inv
  <1>1. Init => Inv
    BY InitType, InitIInv, SoundInit DEF Inv
  <1> QED
    BY <1>1, InvStep, PTL DEF Spec

(* The variables of fat32.c and of the volume have their types: the chain a *)
(* call builds is made of cluster numbers, also after failed block          *)
(* operations, and an entry never has the root directory's cluster.         *)
THEOREM TypeCorrect == Spec => []TypeOK
  <1>1. Inv => TypeOK
    BY TypeInvTypeOK DEF Inv
  <1> QED
    BY <1>1, Invariance, PTL

(* No sequence of calls, failed block operations and crashes puts a cycle   *)
(* into the FAT, so the loops of fat32_write_file_in, fat32_delete_file,    *)
(* fat32_read_file_in and fat32_compare_file_in that follow a chain end,    *)
(* on a volume of any size.                                                 *)
THEOREM Acyclic == Spec => []ChainsAcyclic
  <1>1. Inv => ChainsAcyclic
    BY DEF Inv, IInv
  <1> QED
    BY <1>1, Invariance, PTL

(* As long as no fault hits a call of fat32_write_file_in, fat32_delete_file *)
(* or fat32_delete_directory_in between freeing the old chain and the       *)
(* directory write, no two entries share a cluster, whatever else fails,    *)
(* whenever the disk is full and wherever the machine is switched off.      *)
THEOREM ChainsStaySound == Spec => []ChainsSound
  <1> QED
    BY InvChains, Invariance, PTL

(* Under the same condition a file reads as it was written.                 *)
THEOREM ContentsStay == Spec => []ContentsKept
  <1> QED
    BY InvContents, Invariance, PTL

(* After any sequence of calls all of which succeeded, and as long as no    *)
(* file was written over a directory with entries, the free count is exact  *)
(* in memory and in the FSInfo sector, and every allocated cluster belongs  *)
(* to the root or to an entry of the directory tree: what                   *)
(* fat32_write_file_in, fat32_delete_file and fat32_delete_directory_in     *)
(* replace or remove is freed and counted, and nothing else is.             *)
THEOREM Accounting == Spec => []CleanAccounting
  <1>1. Init => CleanInv
    BY CleanInit
  <1>2. Inv /\ Inv' /\ CleanInv /\ [Next]_vars => CleanInv'
    BY CleanStep, CleanUnchanged DEF Inv, TypeInv, IInv
  <1>3. Inv /\ CleanInv => CleanAccounting
    BY CleanAccounts
  <1> QED
    BY <1>1, <1>2, <1>3, Invariance, PTL DEF Spec
=============================================================================
