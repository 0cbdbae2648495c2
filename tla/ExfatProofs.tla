---------------------------- MODULE ExfatProofs ----------------------------
(***************************************************************************)
(* What holds of the exFAT volume after any sequence of calls, failed      *)
(* device operations and crashes, for a volume, a directory tree and files *)
(* of any size: the variables have their types, and no cluster comes to    *)
(* belong to two files, twice to one, or to a file while the bitmap has it *)
(* free.                                                                   *)
(*                                                                         *)
(* The second needs, at every point inside exfat_truncate, which places of *)
(* a file count (Length): those grow_file has linked but not yet counted   *)
(* in the size, and not those shrink_file has cut off.  Of these IInv says *)
(* that they are apart from each other and allocated; of what is cut off,  *)
(* that it is apart from them too, which makes it safe to free; of a       *)
(* contiguous file, that none of its clusters is past the end.  The chains *)
(* are walks through the FAT, so that most of the work is to show which    *)
(* walks a change of one link leaves alone.                                *)
(*                                                                         *)
(* The last part follows a call through the code (Script): what runs, on   *)
(* which name, and what it has done so far.  ExfatContents builds on it.   *)
(***************************************************************************)
EXTENDS Exfat, FiniteSetTheorems, WellFoundedInduction, TLAPS

(* A non-empty set of naturals has a least element.                         *)
LEMMA Least ==
    ASSUME NEW S, S \subseteq Nat, S # {}
    PROVE  \E x \in S : \A y \in S : x <= y
  <1>1. IsWellFoundedOn(OpToRel(<, Nat), Nat)
    BY NatLessThanWellFounded
  <1>2. IsWellFoundedOn({p \in Nat \X Nat : p[1] < p[2]}, Nat)
    BY <1>1 DEF OpToRel
  <1>3. PICK x \in S : \A y \in S : ~(<<y, x>> \in {p \in Nat \X Nat : p[1] < p[2]})
    BY <1>2, WFMin
  <1>4. \A y \in S : ~(y < x)
    BY <1>3
  <1> QED
    BY <1>4

-----------------------------------------------------------------------------
(* Chains as walks through the FAT.                                         *)

(* The names and the root.                                                  *)
Objects == Objs \union {ROOT}

(* There are NumClusters clusters; the ends of a chain are not clusters.    *)
LEMMA ClusterSet ==
    /\ IsFiniteSet(Clusters) /\ Cardinality(Clusters) = NumClusters
    /\ Clusters \subseteq Nat /\ System \subseteq Clusters
    /\ FREE \notin Clusters /\ END \notin Clusters
  <1>1. Clusters = 2 .. NumClusters + 1 /\ NumClusters + 1 \in Int
    BY ExfatAssumption DEF Clusters
  <1>2. IsFiniteSet(2 .. NumClusters + 1)
        /\ Cardinality(2 .. NumClusters + 1) = IF 2 > NumClusters + 1 THEN 0 ELSE (NumClusters + 1) - 2 + 1
    BY <1>1, FS_Interval
  <1> QED
    BY <1>1, <1>2, ExfatAssumption DEF System, FREE, END

(* Where a chain goes from c: fa is the FAT, ct whether the file is         *)
(* contiguous.                                                              *)
Step(fa, ct, c) == IF c \notin Clusters THEN END ELSE IF ct THEN c + 1 ELSE fa[c]

(* g is the recursive function of Follow, for the FAT fa, a file that is    *)
(* contiguous or not (ct) and its start s, up to place n.                   *)
IsWalk(g, fa, ct, s, n) == g = [i \in 0 .. n |-> IF i = 0 THEN s ELSE Step(fa, ct, g[i - 1])]

(* Its equation, place by place.                                            *)
LEMMA WalkEquation ==
    ASSUME NEW g, NEW fa, NEW ct, NEW s, NEW n \in Nat, IsWalk(g, fa, ct, s, n)
    PROVE  /\ g[0] = s
           /\ \A i \in 0 .. n : i # 0 => i - 1 \in 0 .. n /\ g[i] = Step(fa, ct, g[i - 1])
  <1>1. \A i \in 0 .. n : g[i] = IF i = 0 THEN s ELSE Step(fa, ct, g[i - 1])
    BY DEF IsWalk
  <1>2. 0 \in 0 .. n /\ \A i \in 0 .. n : i # 0 => i - 1 \in 0 .. n
    OBVIOUS
  <1> QED
    BY <1>1, <1>2, Zenon

(* There is one. TLA+ defines a recursive function as the one CHOOSE finds, *)
(* so that its equation has to be earned; the smallest n without one leads  *)
(* to a contradiction.                                                      *)
LEMMA WalkExists ==
    ASSUME NEW fa, NEW ct, NEW s, NEW n \in Nat
    PROVE  \E g : IsWalk(g, fa, ct, s, n)
  <1> SUFFICES ASSUME ~ \E g : IsWalk(g, fa, ct, s, n) PROVE FALSE
    OBVIOUS
  <1> DEFINE S == {m \in Nat : ~ \E g : IsWalk(g, fa, ct, s, m)}
  <1>1. PICK m \in S : \A k \in S : m <= k
    <2>1. S \subseteq Nat /\ S # {}
      OBVIOUS
    <2> HIDE DEF S
    <2> QED
      BY <2>1, Least
  <1>2. m \in Nat /\ ~ \E g : IsWalk(g, fa, ct, s, m)
    OBVIOUS
  <1>3. m # 0
    <2> DEFINE g == [i \in 0 .. 0 |-> s]
    <2>1. g = [i \in 0 .. 0 |-> IF i = 0 THEN s ELSE Step(fa, ct, g[i - 1])]
      OBVIOUS
    <2> HIDE DEF g
    <2>2. IsWalk(g, fa, ct, s, 0)
      BY <2>1 DEF IsWalk
    <2> QED
      BY <1>2, <2>2
  <1>4. m - 1 \in Nat /\ m - 1 \notin S
    BY <1>1, <1>2, <1>3
  <1>5. PICK h : IsWalk(h, fa, ct, s, m - 1)
    BY <1>4
  <1> DEFINE g == [i \in 0 .. m |-> IF i = m THEN Step(fa, ct, h[m - 1]) ELSE h[i]]
  <1>6. /\ h[0] = s
        /\ \A i \in 0 .. m - 1 : i # 0 => h[i] = Step(fa, ct, h[i - 1])
    BY <1>4, <1>5, WalkEquation
  <1>7. \A i \in 0 .. m : g[i] = IF i = 0 THEN s ELSE Step(fa, ct, g[i - 1])
    <2> TAKE i \in 0 .. m
    <2>1. CASE i = 0
      BY <1>2, <1>3, <1>6, <2>1
    <2>2. CASE i = m
      <3>1. m - 1 \in 0 .. m /\ m - 1 # m
        BY <1>2, <1>3
      <3> QED
        BY <1>3, <2>2, <3>1
    <2>3. CASE i # 0 /\ i # m
      <3>1. i \in 0 .. m - 1 /\ i - 1 \in 0 .. m /\ i - 1 # m
        BY <1>2, <2>3
      <3> QED
        BY <1>6, <2>3, <3>1
    <2> QED
      BY <2>1, <2>2, <2>3
  <1>8. g = [i \in 0 .. m |-> IF i = 0 THEN s ELSE Step(fa, ct, g[i - 1])]
    <2>1. g = [i \in 0 .. m |-> g[i]]
      OBVIOUS
    <2> HIDE DEF g
    <2> QED
      BY <1>7, <2>1
  <1> HIDE DEF g
  <1> QED
    BY <1>2, <1>8 DEF IsWalk

(* There is only one: two of them agree where both are defined.             *)
LEMMA WalkUnique ==
    ASSUME NEW fa, NEW ct, NEW s, NEW m \in Nat, NEW n \in Nat, m <= n,
           NEW g, IsWalk(g, fa, ct, s, m), NEW h, IsWalk(h, fa, ct, s, n),
           NEW i \in 0 .. m
    PROVE  g[i] = h[i]
  <1> DEFINE Bad == {k \in 0 .. m : g[k] # h[k]}
  <1> SUFFICES ASSUME Bad # {} PROVE FALSE
    OBVIOUS
  <1>1. PICK k \in Bad : \A j \in Bad : k <= j
    <2>1. Bad \subseteq Nat
      OBVIOUS
    <2> HIDE DEF Bad
    <2> QED
      BY <2>1, Least
  <1>2. k \in 0 .. m /\ k \in 0 .. n /\ g[k] # h[k]
    OBVIOUS
  <1>3. k # 0
    BY <1>2, WalkEquation
  <1>4. k - 1 \in 0 .. m /\ k - 1 \notin Bad
    BY <1>1, <1>2, <1>3
  <1>5. g[k - 1] = h[k - 1]
    BY <1>4
  <1>6. g[k] = Step(fa, ct, g[k - 1]) /\ h[k] = Step(fa, ct, h[k - 1])
    BY <1>2, <1>3, WalkEquation
  <1> QED
    BY <1>2, <1>5, <1>6

(* The walk as a function of the FAT, so that it can be taken of fat and of  *)
(* fat' alike.                                                               *)
WalkIn(fa, ct, s) == CHOOSE g : g = [i \in Nat |-> IF i = 0 THEN s ELSE Step(fa, ct, g[i - 1])]

(* The walk starts at s and goes on by Step.                                *)
LEMMA WalkIs ==
    ASSUME NEW fa, NEW ct, NEW s
    PROVE  /\ WalkIn(fa, ct, s)[0] = s
           /\ \A i \in Nat : WalkIn(fa, ct, s)[i + 1] = Step(fa, ct, WalkIn(fa, ct, s)[i])
  <1> DEFINE h(i) == CHOOSE g : IsWalk(g, fa, ct, s, i)
             w == [i \in Nat |-> h(i)[i]]
  <1>1. \A i \in Nat : IsWalk(h(i), fa, ct, s, i)
    BY WalkExists
  <1> HIDE DEF h
  <1>2. ASSUME NEW i \in Nat PROVE w[i] = IF i = 0 THEN s ELSE Step(fa, ct, w[i - 1])
    <2>1. CASE i = 0
      BY <1>1, <2>1, WalkEquation
    <2>2. CASE i # 0
      <3>1. i - 1 \in Nat /\ i - 1 <= i /\ i - 1 \in 0 .. i - 1 /\ i \in 0 .. i
        BY <2>2
      <3>2. IsWalk(h(i), fa, ct, s, i) /\ IsWalk(h(i - 1), fa, ct, s, i - 1)
        BY <1>1, <3>1
      <3>3. h(i - 1)[i - 1] = h(i)[i - 1]
        BY <3>1, <3>2, WalkUnique
      <3>4. h(i)[i] = Step(fa, ct, h(i)[i - 1])
        BY <2>2, <3>1, <3>2, WalkEquation
      <3>5. w[i] = h(i)[i] /\ w[i - 1] = h(i - 1)[i - 1]
        BY <3>1
      <3> QED
        BY <2>2, <3>3, <3>4, <3>5
    <2> QED
      BY <2>1, <2>2
  <1>3. w = [i \in Nat |-> IF i = 0 THEN s ELSE Step(fa, ct, w[i - 1])]
    <2>1. w = [i \in Nat |-> w[i]]
      OBVIOUS
    <2> HIDE DEF w
    <2> QED
      BY <1>2, <2>1
  <1> DEFINE v == WalkIn(fa, ct, s)
  <1>4. v = [i \in Nat |-> IF i = 0 THEN s ELSE Step(fa, ct, v[i - 1])]
    <2> HIDE DEF w
    <2> QED
      BY <1>3 DEF WalkIn
  <1> HIDE DEF v
  <1>5. \A i \in Nat : v[i] = IF i = 0 THEN s ELSE Step(fa, ct, v[i - 1])
    BY <1>4
  <1>6. v[0] = s
    BY <1>5
  <1>7. \A i \in Nat : v[i + 1] = Step(fa, ct, v[i])
    <2> TAKE i \in Nat
    <2>1. i + 1 \in Nat /\ i + 1 # 0 /\ (i + 1) - 1 = i
      OBVIOUS
    <2> QED
      BY <1>5, <2>1
  <1> QED
    BY <1>6, <1>7 DEF v

(* Nth of Exfat is that walk, before and after a step.                      *)
LEMMA NthIs ==
    /\ \A n, i : Nth(n, i) = WalkIn(fat, n.contig, n.start)[i]
    /\ \A n, i : Nth(n, i)' = WalkIn(fat', n.contig, n.start)[i]
  BY DEF Nth, Follow, WalkIn, Step, Valid

(* Two walks that start alike and step alike are alike.                      *)
LEMMA WalksAgree ==
    ASSUME NEW fa, NEW ct, NEW s, NEW fb, NEW cu, NEW r, NEW a \in Nat, NEW k \in Nat,
           WalkIn(fb, cu, r)[0] = WalkIn(fa, ct, s)[a],
           \A i \in 0 .. k - 1 : LET c == WalkIn(fa, ct, s)[a + i] IN Step(fb, cu, c) = Step(fa, ct, c)
    PROVE  \A i \in 0 .. k : WalkIn(fb, cu, r)[i] = WalkIn(fa, ct, s)[a + i]
  <1> DEFINE w == WalkIn(fa, ct, s)
             v == WalkIn(fb, cu, r)
             Bad == {i \in 0 .. k : v[i] # w[a + i]}
  <1>e. /\ \A i \in Nat : w[i + 1] = Step(fa, ct, w[i])
        /\ \A i \in Nat : v[i + 1] = Step(fb, cu, v[i])
        /\ v[0] = w[a]
        /\ \A i \in 0 .. k - 1 : Step(fb, cu, w[a + i]) = Step(fa, ct, w[a + i])
    BY WalkIs
  <1> SUFFICES ASSUME Bad # {} PROVE FALSE
    OBVIOUS
  <1> HIDE DEF w, v
  <1>1. PICK m \in Bad : \A j \in Bad : m <= j
    <2>1. Bad \subseteq Nat
      OBVIOUS
    <2> HIDE DEF Bad
    <2> QED
      BY <2>1, Least
  <1>2. m \in 0 .. k /\ v[m] # w[a + m]
    OBVIOUS
  <1>3. m # 0
    BY <1>2, <1>e
  <1>4. m - 1 \in 0 .. k - 1 /\ m - 1 \in 0 .. k /\ m - 1 \notin Bad /\ (m - 1) + 1 = m
        /\ m - 1 \in Nat /\ a + (m - 1) \in Nat /\ (a + (m - 1)) + 1 = a + m
    BY <1>1, <1>2, <1>3
  <1>5. v[m - 1] = w[a + (m - 1)]
    BY <1>4
  <1>6. v[m] = Step(fb, cu, v[m - 1]) /\ w[a + m] = Step(fa, ct, w[a + (m - 1)])
    BY <1>4, <1>e
  <1>7. Step(fb, cu, w[a + (m - 1)]) = Step(fa, ct, w[a + (m - 1)])
    BY <1>4, <1>e
  <1> QED
    BY <1>2, <1>5, <1>6, <1>7

(* A walk only depends on the links it follows.                              *)
LEMMA WalkSame ==
    ASSUME NEW fa, NEW fb, NEW ct, NEW s, NEW k \in Nat,
           ct \/ \A i \in 0 .. k - 1 :
                    WalkIn(fa, ct, s)[i] \in Clusters => fb[WalkIn(fa, ct, s)[i]] = fa[WalkIn(fa, ct, s)[i]]
    PROVE  \A i \in 0 .. k : WalkIn(fb, ct, s)[i] = WalkIn(fa, ct, s)[i]
  <1> DEFINE w == WalkIn(fa, ct, s)
  <1>1. ASSUME NEW i \in 0 .. k - 1 PROVE Step(fb, ct, w[0 + i]) = Step(fa, ct, w[0 + i])
    <2>1. 0 + i = i
      OBVIOUS
    <2>2. ct \/ (w[i] \in Clusters => fb[w[i]] = fa[w[i]])
      OBVIOUS
    <2> HIDE DEF w
    <2> QED
      BY <2>1, <2>2 DEF Step
  <1>2. WalkIn(fb, ct, s)[0] = w[0]
    BY WalkIs
  <1>3. \A i \in 0 .. k : WalkIn(fb, ct, s)[i] = w[0 + i]
    BY <1>1, <1>2, WalksAgree
  <1>4. \A i \in 0 .. k : 0 + i = i
    OBVIOUS
  <1> QED
    BY <1>3, <1>4

(* What follows a place is a walk.                                           *)
LEMMA WalkTail ==
    ASSUME NEW fa, NEW ct, NEW s, NEW a \in Nat, NEW i \in Nat
    PROVE  WalkIn(fa, ct, WalkIn(fa, ct, s)[a])[i] = WalkIn(fa, ct, s)[a + i]
  <1> DEFINE r == WalkIn(fa, ct, s)[a]
  <1>1. WalkIn(fa, ct, r)[0] = r
    BY WalkIs
  <1>2. \A j \in 0 .. i : WalkIn(fa, ct, r)[j] = WalkIn(fa, ct, s)[a + j]
    BY <1>1, WalksAgree
  <1> QED
    BY <1>2

(* A walk that has left the clusters does not come back.                     *)
LEMMA WalkLeft ==
    ASSUME NEW fa, NEW ct, NEW s, NEW k \in Nat, NEW i \in Nat, k <= i,
           WalkIn(fa, ct, s)[k] \notin Clusters
    PROVE  WalkIn(fa, ct, s)[i] \notin Clusters
  <1> DEFINE w == WalkIn(fa, ct, s)
             Bad == {j \in Nat : k <= j /\ w[j] \in Clusters}
  <1> SUFFICES ASSUME Bad # {} PROVE FALSE
    OBVIOUS
  <1>1. PICK m \in Bad : \A j \in Bad : m <= j
    <2>1. Bad \subseteq Nat
      OBVIOUS
    <2> HIDE DEF Bad
    <2> QED
      BY <2>1, Least
  <1>2. m \in Nat /\ k <= m /\ w[m] \in Clusters /\ w[k] \notin Clusters
    OBVIOUS
  <1>3. m # k
    BY <1>2
  <1>4. m - 1 \in Nat /\ k <= m - 1 /\ m - 1 \notin Bad /\ (m - 1) + 1 = m
    BY <1>1, <1>2, <1>3
  <1>5. w[m - 1] \notin Clusters
    BY <1>4
  <1>6. w[m] = Step(fa, ct, w[m - 1])
    BY <1>4, WalkIs
  <1> HIDE DEF w
  <1> QED
    BY <1>2, <1>5, <1>6, ClusterSet DEF Step

(* Contiguous means contiguous.                                              *)
Straight(fa, ct) == \A c \in Clusters : Step(fa, ct, c) = c + 1
Stays(fa, ct, s, k) == \A i \in 0 .. k - 1 : WalkIn(fa, ct, s)[i] \in Clusters
StepsUp(fb, cu, s, last) == \A c \in Clusters : s <= c /\ c < last => Step(fb, cu, c) = c + 1

(* A walk of a contiguous file that stays within the clusters goes up by    *)
(* one.                                                                     *)
LEMMA WalkContig ==
    ASSUME NEW fa, NEW ct, NEW s \in Int, NEW k \in Nat, Straight(fa, ct), Stays(fa, ct, s, k)
    PROVE  \A i \in 0 .. k : WalkIn(fa, ct, s)[i] = s + i
  <1> DEFINE w == WalkIn(fa, ct, s)
             Bad == {i \in 0 .. k : w[i] # s + i}
  <1>e. /\ w[0] = s /\ \A i \in Nat : w[i + 1] = Step(fa, ct, w[i])
    BY WalkIs
  <1>f. \A i \in 0 .. k - 1 : w[i] \in Clusters
    BY DEF Stays
  <1> SUFFICES ASSUME Bad # {} PROVE FALSE
    OBVIOUS
  <1> HIDE DEF w
  <1>1. PICK m \in Bad : \A j \in Bad : m <= j
    <2>1. Bad \subseteq Nat
      OBVIOUS
    <2> HIDE DEF Bad
    <2> QED
      BY <2>1, Least
  <1>2. m \in 0 .. k /\ w[m] # s + m
    OBVIOUS
  <1>3. m # 0
    BY <1>2, <1>e
  <1>4. m - 1 \in 0 .. k - 1 /\ m - 1 \in 0 .. k /\ m - 1 \notin Bad /\ (m - 1) + 1 = m /\ m - 1 \in Nat
    BY <1>1, <1>2, <1>3
  <1>5. w[m - 1] = s + (m - 1) /\ w[m - 1] \in Clusters
    BY <1>4, <1>f
  <1>6. w[m] = Step(fa, ct, w[m - 1])
    BY <1>4, <1>e
  <1>7. w[m] = s + (m - 1) + 1
    BY <1>5, <1>6 DEF Straight
  <1> QED
    BY <1>2, <1>7

(* When grow_file links a file that was contiguous, its clusters stay.       *)
LEMMA WalkLinked ==
    ASSUME NEW fa, NEW ct, NEW s \in Int, NEW k \in Nat \ {0}, Straight(fa, ct), Stays(fa, ct, s, k),
           NEW last, last = WalkIn(fa, ct, s)[k - 1], NEW fb, NEW cu, StepsUp(fb, cu, s, last)
    PROVE  \A i \in 0 .. k - 1 : WalkIn(fb, cu, s)[i] = WalkIn(fa, ct, s)[i]
  <1> DEFINE w == WalkIn(fa, ct, s)
  <1>1. \A i \in 0 .. k : w[i] = s + i
    BY WalkContig
  <1>2. \A i \in 0 .. k - 1 : w[i] \in Clusters
    BY DEF Stays
  <1>3. last = s + (k - 1)
    <2>1. k - 1 \in 0 .. k
      OBVIOUS
    <2> QED
      BY <1>1, <2>1
  <1>6. k - 1 \in Nat /\ \A i \in 0 .. (k - 1) - 1 : i \in Int /\ 0 <= i /\ i < k - 1
    OBVIOUS
  <1>4. ASSUME NEW i \in 0 .. (k - 1) - 1 PROVE Step(fb, cu, w[0 + i]) = Step(fa, ct, w[0 + i])
    <2>1. i \in 0 .. k /\ i \in 0 .. k - 1 /\ 0 + i = i
      OBVIOUS
    <2>2. w[i] = s + i /\ w[i] \in Clusters
      BY <1>1, <1>2, <2>1
    <2> HIDE DEF w
    <2>3. s <= w[i] /\ w[i] < last
      BY <1>3, <2>1, <2>2, <1>6
    <2> QED
      BY <2>1, <2>2, <2>3 DEF Straight, StepsUp
  <1>5. WalkIn(fb, cu, s)[0] = w[0]
    BY WalkIs
  <1>7. \A i \in 0 .. k - 1 : WalkIn(fb, cu, s)[i] = w[0 + i]
    <2>1. 0 \in Nat
      OBVIOUS
    <2> QED
      BY <1>4, <1>5, <1>6, <2>1, WalksAgree
  <1>8. \A i \in 0 .. k - 1 : 0 + i = i
    OBVIOUS
  <1> QED
    BY <1>7, <1>8

-----------------------------------------------------------------------------
(* The invariant.                                                           *)

(* Records whose field at is any slot.                                      *)
IsNode(n) ==
    /\ n = [at |-> n.at, start |-> n.start, size |-> n.size, contig |-> n.contig,
            dirty |-> n.dirty]
    /\ n.start \in Clusters \union {FREE} /\ n.size \in Nat
    /\ n.contig \in BOOLEAN /\ n.dirty \in BOOLEAN
IsDent(e) ==
    /\ e = [k |-> e.k, at |-> e.at, start |-> e.start, size |-> e.size, contig |-> e.contig]
    /\ e.k \in {"none", "ok", "torn"}
    /\ e.start \in Clusters \union {FREE} /\ e.size \in Nat /\ e.contig \in BOOLEAN

IsTrunc(r) ==
    /\ r = [o |-> r.o, to |-> r.to, prev |-> r.prev, left |-> r.left, undo |-> r.undo,
            k |-> r.k, kf |-> r.kf]
    /\ r.o \in Objects /\ r.to \in Nat /\ r.prev \in Int /\ r.left \in Nat /\ r.undo \in BOOLEAN
IsFlush(r) == r = [o |-> r.o, k |-> r.k, kf |-> r.kf] /\ r.o \in Objects

(* The places in the code, by what is under way there.                      *)
Cutting    == {"truncate", "grow", "erasenew", "crop", "free"}
FlushAt    == {"flush", "bitmap"}
InDir      == {"slot", "commit", "created", "data", "done", "dirflush", "delete", "detach",
               "delflush", "read", "fail"} \union Cutting
Formatting == {"erasevbr", "erase", "mkvbr", "mkfat", "mkcbm", "mkuct", "mkroot"}
Leaving    == {"next", "unmount", "lastflush", "bug"}
Labels     == {"idle", "mount", "lookup"} \union Formatting \union InDir \union FlushAt \union Leaving

(* Where exfat_truncate and exfat_flush_node go on after success and after  *)
(* failure.                                                                 *)
TruncThen == {"data", "commit", "dirflush", "delflush"}
TruncElse == {"fail", "delete", "delflush"}
FlushThen == {"created", "done", "next", "unmount", "detach", "fail"}
FlushElse == {"done", "delete", "fail", "lastflush"}

(* Types, by part of the state.                                             *)
DentsTyped == dent = [o \in Objs |-> dent[o]] /\ \A o \in Objs : IsDent(dent[o])
NodesTyped == node = [o \in Objects |-> node[o]] /\ \A o \in Objects : IsNode(node[o])

DeviceTyped ==
    /\ vbr \in BOOLEAN /\ sysents \in BOOLEAN
    /\ fat \in [Clusters -> Clusters \union {FREE, END}]
    /\ dmap \subseteq Clusters
    /\ DentsTyped
MemoryTyped ==
    /\ g_initialized \in BOOLEAN /\ cmap_dirty \in BOOLEAN
    /\ cmap \subseteq Clusters
    /\ NodesTyped
    /\ cached \subseteq Dirs \union {ROOT} /\ heap \in 0 .. HeapSize
CallTyped ==
    /\ pc \in Labels /\ op \in {"none", "write", "mkdir", "read", "info"}
    /\ obj \in Objects /\ size \in Nat /\ written \in BOOLEAN
    /\ IsTrunc(t) /\ IsFlush(f)
CountTyped ==
    calls \in 0 .. MaxCalls /\ faults \in 0 .. MaxFaults /\ sound \in BOOLEAN
Typed == DeviceTyped /\ MemoryTyped /\ CallTyped /\ CountTyped

(* Which directories are in memory.                                         *)
Tree ==
    /\ IF g_initialized THEN ROOT \in cached ELSE cached = {}
    /\ \A o \in Objs : Under[o] \notin cached => node[o] = NoNode
    /\ \A o \in cached : Present(o)
    /\ g_initialized => node[ROOT].start = 4 /\ node[ROOT].contig = FALSE /\ node[ROOT].size > 0

(* Where a call is, and what it has been given.                             *)
Busy == pc \in InDir \/ (pc \in FlushAt /\ f.kf # "lastflush")
Placed == obj \in Objs /\ Under[obj] \in cached /\ obj \notin cached
Control ==
    /\ pc \in Formatting => ~g_initialized
    /\ pc \in {"lookup"} \union InDir \union FlushAt \union Leaving => g_initialized
    /\ pc = "lookup" => obj \in Objs /\ op # "none"
    /\ pc = "lookup" /\ op = "write" => obj \in Files
    /\ Busy => Placed
    /\ pc \in Cutting => /\ t.o \in {obj, Under[obj]} /\ (t.o = ROOT => t.to > 0)
                         /\ t.k \in TruncThen /\ t.kf \in TruncElse
    /\ pc \in FlushAt => /\ f.o = ROOT \/ Under[f.o] \in cached
                         /\ f.k \in FlushThen /\ f.kf \in FlushElse
                         /\ (f.kf = "lastflush" => f.k = "unmount")
                         /\ (f.kf # "lastflush" => f.o \in {obj, Under[obj]})

(* How far an exfat_truncate is: which part of the work the size already    *)
(* counts.                                                                  *)
Progress ==
    /\ pc = "truncate" => t.undo = FALSE
    /\ pc = "grow" => /\ node[t.o].size <= t.to - t.left /\ 1 <= t.to - t.left
                      /\ t.prev \in Clusters
    /\ pc = "erasenew" => node[t.o].size <= t.to
    /\ pc \in {"crop", "free"} => t.to <= node[t.o].size /\ (t.undo => node[t.o].size = t.to)
    /\ pc = "crop" => node[t.o].size <= t.to + t.left

(* No file is longer than the volume as long as sound holds.                *)
Bounds ==
    /\ ~g_initialized => node[ROOT].size = 0
    /\ sound => /\ \A o \in Objs : dent[o].size <= NumClusters
                /\ \A o \in Objects : node[o].size <= NumClusters
                /\ pc = "erasenew" => t.to <= NumClusters

(* The system area stays allocated, on the device and in memory.            *)
SystemKept ==
    /\ sound /\ sysents => System \subseteq dmap
    /\ pc \in {"mkuct", "mkroot"} => dmap = System
    /\ sound /\ g_initialized => System \subseteq cmap

(* What is needed to follow a call at all, whatever became of the clusters. *)
Basic == Typed /\ Tree /\ Control /\ Progress

(* The places of a file that count, and the cluster at each. In             *)
(* exfat_truncate the size lags behind while the file grows, and is ahead   *)
(* while it is cut.                                                         *)
Length(o) ==
    IF o # t.o THEN View(o).size
    ELSE IF pc = "grow" THEN t.to - t.left
    ELSE IF pc = "crop" THEN t.to + t.left
    ELSE IF pc \in {"erasenew", "free"} THEN t.to ELSE View(o).size
At(o, i) == Nth(View(o), i)
Place(o) == 0 .. Length(o) - 1

(* Clusters are allocated, not foreign, and belong to one place of one      *)
(* file.                                                                    *)
Apart ==
    /\ \A o \in Objects : \A i \in Place(o) : At(o, i) \in Clusters => At(o, i) \in cmap \ Foreign(o)
    /\ \A o, p \in Objects : \A i \in Place(o), j \in Place(p) :
          At(o, i) \in Clusters /\ At(o, i) = At(p, j) => o = p /\ i = j

(* A contiguous file has all its clusters; a file without a start has no    *)
(* size, except while it is cut to nothing.                                 *)
Whole == \A o \in Objects : View(o).contig => \A i \in Place(o) : At(o, i) \in Clusters
NoStart == \A o \in Objects : node[o].start = FREE /\ ~(pc = "free" /\ o = t.o /\ t.to = 0) => node[o].size = 0

(* What was cut off and waits to be freed belongs to nobody, and the file   *)
(* that it was cut from ends before it.                                     *)
CutAt(i) == Nth([start |-> t.prev, contig |-> node[t.o].contig], i)
CutOff ==
    pc = "free" =>
      /\ \A i \in 0 .. t.left - 1 : CutAt(i) \in Clusters =>
            /\ CutAt(i) \notin System
            /\ \A o \in Objects : \A j \in Place(o) : At(o, j) # CutAt(i)
            /\ \A j \in 0 .. t.left - 1 : CutAt(j) = CutAt(i) => i = j
      /\ node[t.o].contig => \A i \in 0 .. t.left - 1 : CutAt(i) \in Clusters
      /\ ~node[t.o].contig \/ t.to = 0 => At(t.o, t.to) \notin Clusters

(* grow_file stands at the last cluster that is linked.                     *)
Growing == /\ pc = "grow" => t.prev = At(t.o, t.to - t.left - 1)
           /\ pc = "erasenew" => node[t.o].start # FREE

(* The invariant.                                                           *)
Space == Apart /\ Whole /\ NoStart /\ CutOff /\ Growing
IInv == /\ Basic /\ Bounds /\ SystemKept
        /\ sound /\ g_initialized => Space

-----------------------------------------------------------------------------
(* Calls and types.                                                         *)

(* Names, files, directories and the root.                                  *)
LEMMA ObjectSet ==
    /\ ROOT \in Objects /\ Objs \subseteq Objects /\ ROOT \notin Objs
    /\ \A o \in Objs : Under[o] \in Objects
    /\ \A o \in Objects : o # ROOT => o \in Objs
    /\ Files \subseteq Objs /\ Dirs \subseteq Objs /\ Files \cap Dirs = {}
  BY ExfatAssumption DEF Objects, Objs

(* The empty records have their types.                                      *)
LEMMA Blank ==
    /\ IsTrunc(NoT) /\ IsFlush(NoF) /\ IsNode(NoNode) /\ IsDent(NoDent)
    /\ NoNode.at = NoSlot /\ NoNode.start = FREE /\ NoNode.size = 0
    /\ NoNode.contig = FALSE /\ NoNode.dirty = FALSE
    /\ NoDent.k = "none" /\ NoDent.size = 0 /\ NoDent.start = FREE
  BY ObjectSet DEF IsTrunc, IsFlush, IsNode, IsDent, NoT, NoF, NoNode, NoDent, EmptyEntry

(* A step of a call other than the first and those of truncate and flush.   *)
LEMMA Arrive ==
    ASSUME CallTyped, UNCHANGED call, IsTrunc(t)', IsFlush(f)',
           pc' \in Labels, pc' # "lookup", pc' \notin Cutting, pc' \notin FlushAt,
           pc' \in Formatting => ~g_initialized',
           pc' \in InDir \union Leaving => g_initialized',
           pc' \in InDir => Placed'
    PROVE  CallTyped' /\ Control'
  <1>1. CallTyped'
    BY DEF CallTyped, call
  <1>2. ~Busy' \/ Placed'
    BY DEF Busy
  <1>3. Control'
    BY <1>2, Zenon DEF Control, Formatting, InDir, Leaving, FlushAt, Cutting
  <1> QED
    BY <1>1, <1>3

(* One lemma for each way a step moves the call on: it returns,             *)
LEMMA ReturnCall ==
    ASSUME Return PROVE CallTyped' /\ Control'
  <1>1. /\ pc' = "idle" /\ op' = "none" /\ obj' = ROOT /\ size' = 0 /\ written' = FALSE
        /\ t' = NoT /\ f' = NoF
    BY DEF Return
  <1>2. IsTrunc(t)' /\ IsFlush(f)'
    BY <1>1, Blank DEF IsTrunc, IsFlush
  <1>3. CallTyped'
    <2>1. pc' \in Labels /\ op' \in {"none", "write", "mkdir", "read", "info"} /\ obj' \in Objects /\ size' \in Nat
      BY <1>1, ObjectSet DEF Labels
    <2>2. written' \in BOOLEAN
      BY <1>1, Zenon
    <2> QED
      BY <1>2, <2>1, <2>2, Zenon DEF CallTyped
  <1>4. Control'
    BY <1>1 DEF Control, Busy, Formatting, InDir, Leaving, FlushAt, Cutting
  <1> QED
    BY <1>3, <1>4

(* goes on somewhere,                                                       *)
LEMMA GotoCall ==
    ASSUME CallTyped, NEW l \in Labels, Goto(l), l # "lookup", l \notin Cutting, l \notin FlushAt,
           l \in Formatting => ~g_initialized',
           l \in InDir \union Leaving => g_initialized',
           l \in InDir => Placed'
    PROVE  CallTyped' /\ Control'
  <1>1. pc' = l /\ UNCHANGED call /\ t' = t /\ f' = f
    BY DEF Goto
  <1>2. IsTrunc(t)' /\ IsFlush(f)'
    BY <1>1 DEF CallTyped, IsTrunc, IsFlush
  <1> QED
    BY <1>1, <1>2, Arrive

(* calls exfat_truncate,                                                    *)
LEMMA TruncatingCall ==
    ASSUME CallTyped, NEW o \in Objects, NEW n \in Nat, NEW k \in TruncThen, NEW kf \in TruncElse,
           Truncating(o, n, k, kf), g_initialized', Placed', o \in {obj, Under[obj]}, o = ROOT => n > 0
    PROVE  CallTyped' /\ Control' /\ Progress'
  <1>1. /\ pc' = "truncate" /\ UNCHANGED call /\ f' = f
        /\ t' = [o |-> o, to |-> n, prev |-> 0, left |-> 0, undo |-> FALSE, k |-> k, kf |-> kf]
    BY DEF Truncating, NoT
  <1>2. IsTrunc(t)' /\ t'.o = o /\ t'.to = n /\ t'.k = k /\ t'.kf = kf /\ t'.undo = FALSE
    BY <1>1 DEF IsTrunc
  <1>3. IsFlush(f)'
    BY <1>1 DEF CallTyped, IsFlush
  <1>4. CallTyped'
    BY <1>1, <1>2, <1>3 DEF CallTyped, call, Labels, InDir, Cutting
  <1>5. obj' = obj
    BY <1>1 DEF call
  <1>6. Control'
    BY <1>1, <1>2, <1>5 DEF Control, Busy, Formatting, InDir, Leaving, FlushAt, Cutting
  <1>7. Progress'
    BY <1>1, <1>2 DEF Progress
  <1> QED
    BY <1>4, <1>6, <1>7

(* calls exfat_flush_node,                                                  *)
LEMMA FlushingCall ==
    ASSUME CallTyped, NEW o \in Objects, NEW k \in FlushThen, NEW kf \in FlushElse,
           Flushing(o, k, kf), g_initialized',
           o = ROOT \/ Under[o] \in cached',
           IF kf = "lastflush" THEN k = "unmount" ELSE Placed' /\ o \in {obj, Under[obj]}
    PROVE  CallTyped' /\ Control'
  <1>1. /\ pc' = "flush" /\ UNCHANGED call /\ t' = t
        /\ f' = [o |-> o, k |-> k, kf |-> kf]
    BY DEF Flushing
  <1>2. IsFlush(f)' /\ f'.o = o /\ f'.k = k /\ f'.kf = kf
    BY <1>1 DEF IsFlush
  <1>3. IsTrunc(t)'
    BY <1>1 DEF CallTyped, IsTrunc
  <1>4. CallTyped'
    BY <1>1, <1>2, <1>3 DEF CallTyped, call, Labels, FlushAt
  <1>5. obj' = obj
    BY <1>1 DEF call
  <1>6. Control'
    BY <1>1, <1>2, <1>5 DEF Control, Busy, Formatting, InDir, Leaving, FlushAt, Cutting
  <1> QED
    BY <1>4, <1>6

(* A step inside exfat_truncate.                                            *)
LEMMA CuttingCall ==
    ASSUME CallTyped, Control, pc \in Cutting, pc' \in Cutting, UNCHANGED <<call, f>>, IsTrunc(t)',
           t'.o = t.o, t'.k = t.k, t'.kf = t.kf, t.o = ROOT => t'.to > 0,
           g_initialized', UNCHANGED cached
    PROVE  CallTyped' /\ Control'
  <1>1. UNCHANGED call /\ f' = f /\ obj' = obj
    BY DEF call
  <1>3. IsFlush(f)'
    BY <1>1 DEF CallTyped, IsFlush
  <1>4. CallTyped'
    BY <1>1, <1>3 DEF CallTyped, call, Labels, InDir
  <1>5. Placed /\ Placed'
    BY <1>1 DEF Control, Busy, InDir, Placed
  <1>6. Control'
    BY <1>1, <1>5 DEF Control, Busy, Formatting, InDir, Leaving, FlushAt, Cutting
  <1> QED
    BY <1>4, <1>6

(* leaves exfat_truncate with an error,                                     *)
LEMMA TruncFailedCall ==
    ASSUME CallTyped, Control, pc \in Cutting, TruncFailed, g_initialized', UNCHANGED cached
    PROVE  CallTyped' /\ Control' /\ pc' \in TruncElse
  <1>1. pc' = t.kf /\ t' = NoT /\ UNCHANGED call /\ f' = f /\ obj' = obj
    BY DEF TruncFailed, call
  <1>2. IsTrunc(t)' /\ IsFlush(f)'
    BY <1>1, Blank DEF CallTyped, IsTrunc, IsFlush
  <1>3. Placed'
    BY <1>1 DEF Control, Busy, InDir, Placed
  <1>4. t.kf \in TruncElse
    BY DEF Control
  <1>5. /\ pc' \in Labels /\ pc' # "lookup" /\ pc' \notin Cutting /\ pc' \notin FlushAt /\ pc' \notin Formatting
    BY <1>1, <1>4 DEF TruncElse, Labels, InDir, Cutting, FlushAt, Formatting
  <1> QED
    BY <1>1, <1>2, <1>3, <1>4, <1>5, Arrive

(* never leaves it,                                                         *)
LEMMA HungCall ==
    ASSUME CallTyped, Control, Hung, g_initialized', UNCHANGED cached
    PROVE  CallTyped' /\ Control' /\ pc' = "bug"
  <1>1. pc' = "bug" /\ t' = NoT /\ UNCHANGED call /\ f' = f
    BY DEF Hung
  <1>2. IsTrunc(t)' /\ IsFlush(f)'
    BY <1>1, Blank DEF CallTyped, IsTrunc, IsFlush
  <1>3. pc' \in Leaving /\ pc' \in Labels /\ pc' # "lookup" /\ pc' \notin Cutting \union FlushAt \union Formatting \union InDir
    BY <1>1 DEF Leaving, Labels, InDir, Cutting, FlushAt, Formatting
  <1> QED
    BY <1>1, <1>2, <1>3, Arrive

(* leaves it without,                                                       *)
LEMMA TruncDoneCall ==
    ASSUME CallTyped, Control, pc \in Cutting, pc' = t.k, t' = NoT, UNCHANGED <<call, f>>,
           g_initialized', UNCHANGED cached
    PROVE  CallTyped' /\ Control' /\ pc' \in TruncThen
  <1>1. UNCHANGED call /\ f' = f /\ obj' = obj
    BY DEF call
  <1>2. IsTrunc(t)' /\ IsFlush(f)'
    BY <1>1, Blank DEF CallTyped, IsTrunc, IsFlush
  <1>3. Placed'
    BY <1>1 DEF Control, Busy, InDir, Placed
  <1>4. t.k \in TruncThen
    BY DEF Control
  <1>5. /\ pc' \in Labels /\ pc' # "lookup" /\ pc' \notin Cutting /\ pc' \notin FlushAt /\ pc' \notin Formatting
    BY <1>1, <1>4 DEF TruncThen, Labels, InDir, Cutting, FlushAt, Formatting
  <1> QED
    BY <1>1, <1>2, <1>3, <1>4, <1>5, Arrive

(* or leaves exfat_flush_node.                                              *)
LEMMA FlushDoneCall ==
    ASSUME CallTyped, Control, pc \in FlushAt, NEW k \in {f.k, f.kf}, FlushDone(k), g_initialized',
           UNCHANGED cached
    PROVE  CallTyped' /\ Control' /\ pc' \in FlushThen \union FlushElse
  <1>1. pc' = k /\ UNCHANGED call /\ t' = t /\ obj' = obj /\ f' = NoF
    BY DEF FlushDone, call
  <1>2. IsTrunc(t)' /\ IsFlush(f)'
    BY <1>1, Blank DEF CallTyped, IsTrunc, IsFlush
  <1>4. k \in FlushThen \union FlushElse
    BY DEF Control
  <1>3. k \in InDir => Placed'
    BY <1>1 DEF Control, Busy, InDir, Cutting, Placed
  <1>5. /\ pc' \in Labels /\ pc' # "lookup" /\ pc' \notin Cutting /\ pc' \notin FlushAt /\ pc' \notin Formatting
    BY <1>1, <1>4 DEF FlushThen, FlushElse, Labels, InDir, Leaving, Cutting, FlushAt, Formatting
  <1> QED
    BY <1>1, <1>2, <1>3, <1>4, <1>5, Arrive

(* Outside exfat_truncate there is no progress to keep.                     *)
LEMMA NotInside ==
    ASSUME pc' \notin Cutting PROVE Progress'
  BY DEF Cutting, Progress

(* A step that leaves device and memory alone keeps their types.            *)
LEMMA Quiet ==
    ASSUME Basic, UNCHANGED <<device, memory>>
    PROVE  DeviceTyped' /\ MemoryTyped' /\ Tree'
  BY DEF Basic, Typed, DeviceTyped, MemoryTyped, DentsTyped, NodesTyped, Tree, Present, device, memory

(* One node is replaced.                                                    *)
LEMMA NodeReplaced ==
    ASSUME NodesTyped, NEW o \in Objects, NEW n, IsNode(n), SetNode(o, n)
    PROVE  NodesTyped' /\ node'[o] = n /\ \A p \in Objects : p # o => node'[p] = node[p]
  BY DEF NodesTyped, SetNode

(* A node is replaced by one in the same slot: the tree stays a tree.       *)
LEMMA TreeReplaced ==
    ASSUME Tree, cached \subseteq Dirs \union {ROOT}, UNCHANGED <<g_initialized, cached>>,
           NEW o \in Objects, o = ROOT \/ Under[o] \in cached,
           \A p \in Objects : p # o => node'[p] = node[p],
           node'[o].at = node[o].at,
           o = ROOT => node'[o].start = 4 /\ node'[o].contig = FALSE /\ node'[o].size > 0
    PROVE  Tree'
  <1>1. \A p \in Objs : p # o \/ Under[p] \in cached
    BY ObjectSet
  <1>2. \A p \in Objs : Under[p] \notin cached' => node'[p] = NoNode
    BY <1>1, ObjectSet DEF Tree
  <1>3. \A p \in cached' : Present(p)'
    <2> TAKE p \in cached'
    <2>1. p \in cached /\ Present(p) /\ p \in Objects
      BY ObjectSet DEF Tree
    <2> QED
      BY <2>1 DEF Present
  <1>4. g_initialized' => node'[ROOT].start = 4 /\ node'[ROOT].contig = FALSE /\ node'[ROOT].size > 0
    BY ObjectSet DEF Tree
  <1>5. IF g_initialized' THEN ROOT \in cached' ELSE cached' = {}
    BY DEF Tree
  <1> QED
    BY <1>2, <1>3, <1>4, <1>5 DEF Tree

(* The directory of a name that a call works on is in memory.               *)
LEMMA PlacedDir ==
    ASSUME Tree, Placed
    PROVE  /\ obj \in Objects /\ Under[obj] \in Objects
           /\ Under[obj] = ROOT \/ Under[Under[obj]] \in cached
  <1>1. obj \in Objects /\ Under[obj] \in Objects
    BY ObjectSet DEF Placed
  <1>2. ASSUME Under[obj] # ROOT PROVE Under[Under[obj]] \in cached
    <2>1. Under[obj] \in Objs /\ Present(Under[obj])
      BY <1>1, <1>2, ObjectSet DEF Placed, Tree
    <2>2. node[Under[obj]] # NoNode
      BY <1>2, <2>1, Blank DEF Present
    <2> QED
      BY <2>1, <2>2 DEF Tree
  <1> QED
    BY <1>1, <1>2

(* Entry sets.                                                              *)
LEMMA EmptyEntries ==
    ASSUME NEW k \in {"none", "ok", "torn"}, NEW at
    PROVE  /\ IsDent(EmptyEntry(k, at)) /\ EmptyEntry(k, at).size = 0 /\ EmptyEntry(k, at).k = k
           /\ EmptyEntry(k, at).at = at /\ EmptyEntry(k, at).start = FREE
  BY DEF EmptyEntry, IsDent

(* Clusters are written over: entries stay as they are or go.               *)
LEMMA OverwrittenDents ==
    ASSUME DentsTyped, NEW S, dent' = Overwritten(S)
    PROVE  DentsTyped' /\ \A o \in Objs : dent'[o] = dent[o] \/ dent'[o] = NoDent
  <1>1. dent' = [o \in Objs |-> IF dent[o].at[1] \in S THEN NoDent ELSE dent[o]]
    BY DEF Overwritten
  <1>2. \A o \in Objs : dent'[o] = dent[o] \/ dent'[o] = NoDent
    BY <1>1
  <1> QED
    BY <1>1, <1>2, Blank DEF DentsTyped

(* A slot is written: its entry is new, others stay or go.                  *)
LEMMA InSlotDents ==
    ASSUME DentsTyped, NEW at, NEW o \in Objs, NEW e, IsDent(e), dent' = InSlot(at, o, e)
    PROVE  /\ DentsTyped' /\ dent'[o] = e
           /\ \A p \in Objs : p # o => dent'[p] = dent[p] \/ dent'[p] = NoDent
  <1>1. dent' = [p \in Objs |-> IF p = o THEN e ELSE IF dent[p].at = at THEN NoDent ELSE dent[p]]
    BY DEF InSlot
  <1>2. dent'[o] = e /\ \A p \in Objs : p # o => dent'[p] = dent[p] \/ dent'[p] = NoDent
    BY <1>1
  <1> QED
    BY <1>1, <1>2, Blank DEF DentsTyped

(* One entry is replaced.                                                   *)
LEMMA DentReplaced ==
    ASSUME DentsTyped, NEW o \in Objs, NEW e, IsDent(e), dent' = [dent EXCEPT ![o] = e]
    PROVE  DentsTyped' /\ dent'[o] = e /\ \A p \in Objs : p # o => dent'[p] = dent[p]
  BY DEF DentsTyped

(* The node read from an entry has its fields.                              *)
LEMMA NodeOfDent ==
    ASSUME NEW e, IsDent(e)
    PROVE  /\ IsNode(NodeOf(e)) /\ NodeOf(e).at = e.at /\ NodeOf(e).start = e.start
           /\ NodeOf(e).size = e.size /\ NodeOf(e).contig = e.contig /\ NodeOf(e).dirty = FALSE
  BY DEF IsDent, IsNode, NodeOf

(* The entry written for a node has its fields.                             *)
LEMMA DentOfNode ==
    ASSUME NEW n, IsNode(n)
    PROVE  /\ IsDent(EntryFor(n)) /\ EntryFor(n).size = n.size /\ EntryFor(n).start = n.start
           /\ EntryFor(n).at = n.at /\ EntryFor(n).k = "ok"
  <1>1. (n.contig /\ n.size # 0) \in BOOLEAN
    OBVIOUS
  <1> QED
    BY <1>1 DEF IsDent, IsNode, EntryFor

(* The tree after a directory has been read.                                *)
LEMMA LoadedNodes ==
    ASSUME DentsTyped, NEW d, NEW n, NEW ns, \A o \in Objects : IsNode(ns[o]), NEW ms, ms = Loaded(ns, d, n)
    PROVE  /\ ms = [o \in Objects |-> ms[o]] /\ \A o \in Objects : IsNode(ms[o])
           /\ ms[ROOT] = ns[ROOT]
           /\ \A o \in Objs : /\ Under[o] # d => ms[o] = ns[o]
                              /\ ms[o] = ns[o] \/ (o \in EntriesIn(n) /\ ms[o] = NodeOf(dent[o]))
  <1>1. ms = [o \in Objects |->
                IF o # ROOT /\ o \in EntriesIn(n) /\ Under[o] = d THEN NodeOf(dent[o]) ELSE ns[o]]
    BY DEF Loaded, Objects, Child
  <1>2. /\ ms[ROOT] = ns[ROOT]
        /\ \A o \in Objs : /\ Under[o] # d => ms[o] = ns[o]
                           /\ ms[o] = ns[o] \/ (o \in EntriesIn(n) /\ ms[o] = NodeOf(dent[o]))
    BY <1>1, ObjectSet
  <1>3. \A o \in Objects : IsNode(ms[o])
    <2> TAKE o \in Objects
    <2>1. CASE o = ROOT
      BY <1>2, <2>1
    <2>2. CASE o # ROOT
      <3>1. o \in Objs /\ IsDent(dent[o])
        BY <2>2, ObjectSet DEF DentsTyped
      <3> QED
        BY <1>2, <3>1, NodeOfDent
    <2> QED
      BY <2>1, <2>2
  <1>4. ms = [o \in Objects |-> ms[o]]
    BY <1>1
  <1> QED
    BY <1>2, <1>3, <1>4

(* Lowest and Highest find what they look for.                              *)
LEMMA LowestIn ==
    ASSUME NEW S, S \subseteq Nat, S # {}
    PROVE  Lowest(S) \in S /\ \A d \in S : Lowest(S) <= d
  <1>1. \E c \in S : \A d \in S : c <= d
    BY Least
  <1> QED
    BY <1>1 DEF Lowest

(* The same for Highest, which needs a bound.                               *)
LEMMA HighestIn ==
    ASSUME NEW m \in Nat, NEW S, S \subseteq 0 .. m, S # {}
    PROVE  Highest(S) \in S /\ \A d \in S : d <= Highest(S)
  <1> DEFINE R == {m - c : c \in S}
  <1>1. R \subseteq Nat /\ R # {}
    OBVIOUS
  <1>2. PICK r \in R : \A q \in R : r <= q
    BY <1>1, Least
  <1>3. PICK c \in S : r = m - c
    OBVIOUS
  <1>4. \A d \in S : d <= c
    <2> TAKE d \in S
    <2>1. r <= m - d
      BY <1>2
    <2> QED
      BY <1>3, <2>1
  <1>5. \E e \in S : \A d \in S : d <= e
    BY <1>4
  <1> QED
    BY <1>5 DEF Highest

(* The allocator hands out a free cluster of the volume.                    *)
LEMMA AllocIs ==
    ASSUME cmap \subseteq Clusters, NEW h \in Int, Valid(Alloc(h))
    PROVE  Alloc(h) \in Clusters /\ Alloc(h) \notin cmap /\ Alloc(h) \in Nat
  <1> DEFINE room == Clusters \ cmap
             up == {c \in room : c >= h}
  <1>1. Alloc(h) = IF room = {} THEN END ELSE IF up # {} THEN Lowest(up) ELSE Lowest(room)
    BY DEF Alloc
  <1>2. room \subseteq Nat /\ up \subseteq Nat /\ up \subseteq room
    BY ClusterSet
  <1>3. room # {}
    BY <1>1, ClusterSet DEF Valid
  <1> HIDE DEF room, up
  <1>4. Alloc(h) \in room
    BY <1>1, <1>2, <1>3, LowestIn
  <1> QED
    BY <1>4, ClusterSet DEF room

(* What mount finds of the root: its chain, which ends.                     *)
LEMMA RootNodeIs ==
    /\ IsNode(RootNode) /\ RootNode.start = 4 /\ RootNode.contig = FALSE /\ RootNode.dirty = FALSE
    /\ RootNode.at = NoSlot
    /\ RootNode.size \in 0 .. NumClusters
    /\ RootNode.size > 0 => /\ Nth(RootNode, RootNode.size) = END
                            /\ \A j \in 0 .. RootNode.size - 1 : Valid(Nth(RootNode, j))
  <1> DEFINE n == RootOf(0)
             L == {i \in 1 .. NumClusters : Nth(n, i) = END /\ \A j \in 0 .. i - 1 : Valid(Nth(n, j))}
             z == IF L = {} THEN 0 ELSE Lowest(L)
  <1>1. n.contig = FALSE /\ n.start = 4
    BY DEF RootOf
  <1>2. RootNode = RootOf(z)
    BY DEF RootNode
  <1>3. RootNode = [at |-> NoSlot, start |-> 4, size |-> z, contig |-> FALSE, dirty |-> FALSE]
    <2> HIDE DEF z, n
    <2> QED
      BY <1>2 DEF RootOf
  <1>4. L \subseteq Nat /\ L \subseteq 1 .. NumClusters
    BY ExfatAssumption
  <1>5. z \in 0 .. NumClusters /\ (z > 0 => z \in L)
    <2>1. CASE L = {}
      BY <2>1, ExfatAssumption
    <2>2. CASE L # {}
      <3> HIDE DEF L
      <3>1. Lowest(L) \in L
        BY <1>4, <2>2, LowestIn
      <3>2. z = Lowest(L)
        BY <2>2
      <3> HIDE DEF z
      <3>3. z \in L /\ z \in 1 .. NumClusters
        BY <1>4, <3>1, <3>2
      <3> QED
        BY <3>3, ExfatAssumption
    <2> QED
      BY <2>1, <2>2
  <1>6. 4 \in Clusters
    BY ClusterSet DEF System
  <1>7. \A i : Nth(RootNode, i) = Nth(n, i)
    <2>1. RootNode.contig = n.contig /\ RootNode.start = n.start
      <3> HIDE DEF z, n
      <3> QED
        BY <1>1, <1>3
    <2> HIDE DEF n
    <2> QED
      BY <2>1, NthIs
  <1>8. z > 0 => Nth(n, z) = END /\ \A j \in 0 .. z - 1 : Valid(Nth(n, j))
    BY <1>5
  <1> HIDE DEF z, n, L
  <1>9. RootNode.start = 4 /\ RootNode.contig = FALSE /\ RootNode.dirty = FALSE /\ RootNode.at = NoSlot
        /\ RootNode.size = z
    BY <1>3
  <1>10. IsNode(RootNode)
    <2>1. z \in Nat
      BY <1>5, ExfatAssumption
    <2> QED
      BY <1>3, <1>6, <2>1 DEF IsNode
  <1> QED
    BY <1>5, <1>7, <1>8, <1>9, <1>10

(* Places on a chain are numbers.                                           *)
LEMMA WalkInt ==
    ASSUME NEW fa \in [Clusters -> Clusters \union {FREE, END}], NEW ct, NEW s \in Int, NEW i \in Nat
    PROVE  WalkIn(fa, ct, s)[i] \in Int
  <1>1. CASE i = 0
    BY <1>1, WalkIs
  <1>2. CASE i # 0
    <2>1. i - 1 \in Nat /\ (i - 1) + 1 = i
      BY <1>2
    <2>2. WalkIn(fa, ct, s)[i] = Step(fa, ct, WalkIn(fa, ct, s)[i - 1])
      BY <2>1, WalkIs
    <2>3. \A c : Step(fa, ct, c) \in Int
      <3> TAKE c
      <3>1. c \in Clusters => c + 1 \in Int /\ fa[c] \in Int
        <4>1. c \in Clusters => c + 1 \in Int
          BY ClusterSet
        <4>2. c \in Clusters => fa[c] \in Clusters \union {FREE, END}
          OBVIOUS
        <4>3. Clusters \union {FREE, END} \subseteq Int
          BY ClusterSet DEF FREE, END
        <4> QED
          BY <4>1, <4>2, <4>3
      <3>2. END \in Int
        BY DEF END
      <3> QED
        BY <3>1, <3>2 DEF Step
    <2> QED
      BY <2>2, <2>3
  <1> QED
    BY <1>1, <1>2

(* Every place of a node holds a number.                                    *)
LEMMA NthInt ==
    ASSUME DeviceTyped, NEW n, IsNode(n), NEW i \in Nat
    PROVE  Nth(n, i) \in Int
  <1>1. n.start \in Int
    BY ClusterSet DEF IsNode, FREE
  <1>2. fat \in [Clusters -> Clusters \union {FREE, END}]
    BY DEF DeviceTyped
  <1> QED
    BY <1>1, <1>2, WalkInt, NthIs

-----------------------------------------------------------------------------
(* Every step keeps the types and the control.                              *)

(* What the memory and the device keep their types by.                      *)
LEMMA MemorySame ==
    ASSUME Basic, UNCHANGED memory
    PROVE  MemoryTyped' /\ Tree'
  BY DEF Basic, Typed, MemoryTyped, NodesTyped, Tree, Present, memory

(* The same for the device.                                                 *)
LEMMA DeviceSame ==
    ASSUME Basic, UNCHANGED device
    PROVE  DeviceTyped'
  BY DEF Basic, Typed, DeviceTyped, DentsTyped, device

(* The counters stay within their bounds.                                   *)
LEMMA Counted ==
    ASSUME Basic, calls' = calls \/ (calls < MaxCalls /\ calls' = calls + 1),
           faults' = faults \/ Fails, sound' = sound
    PROVE  CountTyped'
  <1>1. calls' \in 0 .. MaxCalls /\ faults' \in 0 .. MaxFaults
    BY ExfatAssumption DEF Basic, Typed, CountTyped, Fails
  <1>2. sound' \in BOOLEAN
    BY Zenon DEF Basic, Typed, CountTyped
  <1> QED
    BY <1>1, <1>2 DEF CountTyped

(* Basic, part by part.                                                     *)
LEMMA BasicParts ==
    ASSUME DeviceTyped', MemoryTyped', CountTyped', Tree', CallTyped', Control', Progress'
    PROVE  Basic'
  BY DEF Basic, Typed

(* Formatting.                                                              *)
LEMMA FormatGoes ==
    ASSUME Basic, UNCHANGED g_initialized, pc \in Formatting,
           Return \/ \E l \in Formatting : Goto(l)
    PROVE  CallTyped' /\ Control' /\ Progress'
  <1>1. CASE Return
    <2>1. pc' = "idle"
      BY <1>1 DEF Return
    <2> QED
      BY <1>1, <2>1, ReturnCall, NotInside DEF Cutting
  <1>2. CASE \E l \in Formatting : Goto(l)
    <2>1. PICK l \in Formatting : Goto(l)
      BY <1>2
    <2>2. l \in Labels /\ l # "lookup" /\ l \notin Cutting /\ l \notin FlushAt /\ l \notin Cutting
          /\ l \notin InDir \union Leaving
      BY <2>1 DEF Formatting, Labels, InDir, Leaving, FlushAt, Cutting, Cutting
    <2>3. ~g_initialized'
      BY DEF Basic, Control
    <2>4. CallTyped' /\ Control'
      BY <2>1, <2>2, <2>3, GotoCall DEF Basic, Typed
    <2>5. pc' = l
      BY <2>1 DEF Goto
    <2> QED
      BY <2>2, <2>4, <2>5, NotInside
  <1> QED
    BY <1>1, <1>2

(* Formatting keeps Basic.                                                  *)
LEMMA FormatBasic ==
    ASSUME Basic,
           exfat_format \/ EraseVbr \/ Erase \/ MakeVbr \/ MakeFat \/ MakeBitmap \/ MakeTable \/ MakeRoot
    PROVE  Basic'
  <1>0. DeviceTyped /\ MemoryTyped /\ CallTyped /\ CountTyped /\ Control
    BY DEF Basic, Typed
  <1>d. /\ vbr \in BOOLEAN /\ sysents \in BOOLEAN
        /\ fat \in [Clusters -> Clusters \union {FREE, END}]
        /\ dmap \subseteq Clusters
        /\ DentsTyped
    BY <1>0 DEF DeviceTyped
  <1>1. CASE exfat_format
    <2>1. UNCHANGED <<device, memory, call, t, f>> /\ pc' = "erasevbr" /\ ~g_initialized
          /\ calls < MaxCalls /\ calls' = calls + 1 /\ faults' = faults /\ sound' = sound
      BY <1>1 DEF exfat_format
    <2>2. IsTrunc(t)' /\ IsFlush(f)' /\ g_initialized' = g_initialized /\ UNCHANGED call
      BY <1>0, <2>1 DEF CallTyped, IsTrunc, IsFlush, memory
    <2>3. CallTyped' /\ Control'
      BY <1>0, <2>1, <2>2, Arrive DEF Labels, InDir, Leaving, FlushAt, Cutting, Formatting
    <2>4. Progress'
      BY <2>1, NotInside DEF Cutting
    <2> QED
      BY <2>1, <2>3, <2>4, MemorySame, DeviceSame, Counted, BasicParts
  <1>2. CASE EraseVbr
    <2>1. /\ pc \in Formatting /\ (Return \/ \E l \in Formatting : Goto(l)) /\ UNCHANGED memory
          /\ calls' = calls /\ (faults' = faults \/ Fails) /\ sound' = sound
      BY <1>2 DEF EraseVbr, Formatting, seen, Ok
    <2>2. DeviceTyped'
      BY <1>2, <1>d DEF EraseVbr, DeviceTyped, DentsTyped
    <2>3. g_initialized' = g_initialized
      BY <2>1 DEF memory
    <2> QED
      BY <2>1, <2>2, <2>3, FormatGoes, MemorySame, Counted, BasicParts
  <1>3. CASE Erase
    <2>1. /\ pc \in Formatting /\ (Return \/ \E l \in Formatting : Goto(l)) /\ UNCHANGED memory
          /\ calls' = calls /\ (faults' = faults \/ Fails) /\ sound' = sound
      BY <1>3 DEF Erase, Formatting, seen, Ok
    <2>2. DeviceTyped'
      <3>1. DentsTyped'
        BY <1>3, <1>d, OverwrittenDents DEF Erase
      <3>2. vbr' = vbr /\ sysents' = FALSE /\ dmap' = {} /\ fat' = [c \in Clusters |-> FREE]
        BY <1>3 DEF Erase
      <3>3. sysents' \in BOOLEAN /\ vbr' \in BOOLEAN
        BY <1>d, <3>2, Zenon
      <3> QED
        BY <3>1, <3>2, <3>3 DEF DeviceTyped
    <2>3. g_initialized' = g_initialized
      BY <2>1 DEF memory
    <2> QED
      BY <2>1, <2>2, <2>3, FormatGoes, MemorySame, Counted, BasicParts
  <1>4. CASE MakeVbr
    <2>1. /\ pc \in Formatting /\ (Return \/ \E l \in Formatting : Goto(l)) /\ UNCHANGED memory
          /\ calls' = calls /\ (faults' = faults \/ Fails) /\ sound' = sound
      BY <1>4 DEF MakeVbr, Formatting, seen, Ok
    <2>2. DeviceTyped'
      <3>1. vbr' \in BOOLEAN
        BY <1>4, <1>d, Zenon DEF MakeVbr
      <3> QED
        BY <1>4, <1>d, <3>1 DEF MakeVbr, DeviceTyped, DentsTyped
    <2>3. g_initialized' = g_initialized
      BY <2>1 DEF memory
    <2> QED
      BY <2>1, <2>2, <2>3, FormatGoes, MemorySame, Counted, BasicParts
  <1>5. CASE MakeFat
    <2>1. /\ pc \in Formatting /\ (Return \/ \E l \in Formatting : Goto(l)) /\ UNCHANGED memory
          /\ calls' = calls /\ (faults' = faults \/ Fails) /\ sound' = sound
      BY <1>5 DEF MakeFat, Formatting, seen, Ok
    <2>2. DeviceTyped'
      <3>1. fat' \in [Clusters -> Clusters \union {FREE, END}]
        BY <1>5, <1>d DEF MakeFat
      <3> QED
        BY <1>5, <1>d, <3>1 DEF MakeFat, DeviceTyped, DentsTyped
    <2>3. g_initialized' = g_initialized
      BY <2>1 DEF memory
    <2> QED
      BY <2>1, <2>2, <2>3, FormatGoes, MemorySame, Counted, BasicParts
  <1>6. CASE MakeBitmap
    <2>1. /\ pc \in Formatting /\ (Return \/ \E l \in Formatting : Goto(l)) /\ UNCHANGED memory
          /\ calls' = calls /\ (faults' = faults \/ Fails) /\ sound' = sound
      BY <1>6 DEF MakeBitmap, Formatting, seen, Ok
    <2>2. DeviceTyped'
      <3>1. dmap' \subseteq Clusters
        BY <1>6, <1>d, ClusterSet DEF MakeBitmap
      <3> QED
        BY <1>6, <1>d, <3>1 DEF MakeBitmap, DeviceTyped, DentsTyped
    <2>3. g_initialized' = g_initialized
      BY <2>1 DEF memory
    <2> QED
      BY <2>1, <2>2, <2>3, FormatGoes, MemorySame, Counted, BasicParts
  <1>7. CASE MakeTable
    <2>1. /\ pc \in Formatting /\ (Return \/ \E l \in Formatting : Goto(l)) /\ UNCHANGED memory
          /\ calls' = calls /\ (faults' = faults \/ Fails) /\ sound' = sound /\ UNCHANGED device
      BY <1>7 DEF MakeTable, Formatting, seen, Ok
    <2>3. g_initialized' = g_initialized
      BY <2>1 DEF memory
    <2> QED
      BY <2>1, <2>3, FormatGoes, MemorySame, DeviceSame, Counted, BasicParts
  <1>8. CASE MakeRoot
    <2>1. /\ pc \in Formatting /\ Return /\ UNCHANGED <<vbr, fat, dmap, data, g_initialized, cmap, cmap_dirty, node, cached>>
          /\ calls' = calls /\ (faults' = faults \/ Fails)
          /\ \/ sysents' = TRUE /\ dent' = [o \in Objs |-> NoDent] /\ heap' = 0 /\ sound' = TRUE
             \/ UNCHANGED <<sysents, dent, heap, sound>>
      BY <1>8 DEF MakeRoot, Formatting, seen, Ok
    <2>2. CountTyped'
      <3>1. sound' \in BOOLEAN
        BY <1>0, <2>1, Zenon DEF CountTyped
      <3>2. calls' \in 0 .. MaxCalls /\ faults' \in 0 .. MaxFaults
        BY <1>0, <2>1, ExfatAssumption DEF CountTyped, Fails
      <3> QED
        BY <3>1, <3>2 DEF CountTyped
    <2>3. DeviceTyped'
      <3>1. sysents' \in BOOLEAN
        BY <1>d, <2>1, Zenon
      <3>2. DentsTyped'
        BY <1>d, <2>1, Blank DEF DentsTyped
      <3> QED
        BY <1>d, <2>1, <3>1, <3>2 DEF DeviceTyped
    <2>4. MemoryTyped'
      BY <1>0, <2>1, ExfatAssumption DEF MemoryTyped, NodesTyped
    <2>5. Tree'
      BY <2>1 DEF Basic, Tree, Present
    <2>6. CallTyped' /\ Control' /\ Progress'
      BY <2>1, FormatGoes
    <2> QED
      BY <2>2, <2>3, <2>4, <2>5, <2>6, BasicParts
  <1> QED
    BY <1>1, <1>2, <1>3, <1>4, <1>5, <1>6, <1>7, <1>8

(* So do the steps that start a call,                                       *)
LEMMA StartBasic ==
    ASSUME Basic,
           \/ exfat_init
           \/ \E o \in Files, n \in Sizes : exfat_write_file(o, n)
           \/ \E d \in Dirs : exfat_create_dir_path(d)
           \/ \E o \in Objs : exfat_read_file(o) \/ exfat_get_file_info(o)
    PROVE  Basic'
  <1>0. DeviceTyped /\ MemoryTyped /\ CallTyped /\ CountTyped /\ Control
    BY DEF Basic, Typed
  <1>1. CASE exfat_init
    <2>1. UNCHANGED <<device, memory, call, t, f>> /\ pc' = "mount"
          /\ calls < MaxCalls /\ calls' = calls + 1 /\ faults' = faults /\ sound' = sound
      BY <1>1 DEF exfat_init
    <2>2. IsTrunc(t)' /\ IsFlush(f)' /\ UNCHANGED call
      BY <1>0, <2>1 DEF CallTyped, IsTrunc, IsFlush
    <2>3. CallTyped' /\ Control'
      BY <1>0, <2>1, <2>2, Arrive DEF Labels, InDir, Leaving, FlushAt, Cutting, Formatting
    <2>4. Progress'
      BY <2>1, NotInside DEF Cutting
    <2> QED
      BY <2>1, <2>3, <2>4, MemorySame, DeviceSame, Counted, BasicParts
  <1>2. ASSUME NEW name \in {"write", "mkdir", "read", "info"}, NEW o \in Objs, NEW n \in Nat,
               Call(name, o, n), name = "write" => o \in Files
        PROVE  Basic'
    <2>1. UNCHANGED <<device, memory, t, f, written>> /\ pc' = "lookup" /\ op' = name /\ obj' = o /\ size' = n
          /\ calls < MaxCalls /\ calls' = calls + 1 /\ faults' = faults /\ sound' = sound /\ g_initialized
      BY <1>2 DEF Call
    <2>2. IsTrunc(t)' /\ IsFlush(f)'
      BY <1>0, <2>1 DEF CallTyped, IsTrunc, IsFlush
    <2>3. CallTyped'
      <3>1. written' \in BOOLEAN
        BY <1>0, <2>1, Zenon DEF CallTyped
      <3> QED
        BY <2>1, <2>2, <3>1, ObjectSet DEF CallTyped, Labels
    <2>4. g_initialized'
      BY <2>1 DEF memory
    <2>5. Control'
      BY <1>2, <2>1, <2>4 DEF Control, Busy, InDir, Leaving, FlushAt, Cutting, Formatting
    <2>6. Progress'
      BY <2>1, NotInside DEF Cutting
    <2> QED
      BY <2>1, <2>3, <2>5, <2>6, MemorySame, DeviceSame, Counted, BasicParts
  <1>3. ASSUME NEW o \in Files, NEW n \in Sizes, exfat_write_file(o, n) PROVE Basic'
    BY <1>2, <1>3, ObjectSet, ExfatAssumption DEF exfat_write_file
  <1>4. ASSUME NEW d \in Dirs, exfat_create_dir_path(d) PROVE Basic'
    BY <1>2, <1>4, ObjectSet DEF exfat_create_dir_path
  <1>5. ASSUME NEW o \in Objs, exfat_read_file(o) \/ exfat_get_file_info(o) PROVE Basic'
    BY <1>2, <1>5 DEF exfat_read_file, exfat_get_file_info
  <1> QED
    BY <1>1, <1>3, <1>4, <1>5

(* The memory after a failed mount or a crash.                              *)
LEMMA Empty ==
    ASSUME MemoryTyped, g_initialized' = FALSE, cmap' = {}, cmap_dirty' = FALSE, cached' = {},
           node' = [o \in Objs \union {ROOT} |-> NoNode], heap' = heap \/ heap' = 0
    PROVE  MemoryTyped' /\ Tree' /\ ~g_initialized'
  <1>1. node' = [o \in Objects |-> NoNode]
    BY DEF Objects
  <1>2. NodesTyped'
    BY <1>1, Blank DEF NodesTyped
  <1>3. g_initialized' \in BOOLEAN /\ cmap_dirty' \in BOOLEAN
    BY Zenon
  <1>4. MemoryTyped'
    BY <1>2, <1>3, ExfatAssumption DEF MemoryTyped
  <1>5. Tree'
    BY <1>1, ObjectSet DEF Tree
  <1> QED
    BY <1>4, <1>5

(* a crash,                                                                 *)
LEMMA CrashBasic ==
    ASSUME Basic, Crash PROVE Basic'
  <1>0. DeviceTyped /\ MemoryTyped /\ CallTyped /\ CountTyped /\ Control
    BY DEF Basic, Typed
  <1>1. /\ Return /\ UNCHANGED device /\ calls' = calls /\ sound' = sound /\ (faults' = faults \/ Fails)
        /\ g_initialized' = FALSE /\ cmap' = {} /\ cmap_dirty' = FALSE
        /\ node' = [o \in Objs \union {ROOT} |-> NoNode] /\ cached' = {} /\ heap' = 0
    BY DEF Crash, Ok
  <1>2. MemoryTyped' /\ Tree'
    BY <1>0, <1>1, Empty
  <1>3. pc' = "idle"
    BY <1>1 DEF Return
  <1> QED
    BY <1>1, <1>2, <1>3, ReturnCall, NotInside, DeviceSame, Counted, BasicParts DEF Cutting

(* a mount,                                                                 *)
LEMMA MountBasic ==
    ASSUME Basic, Mount PROVE Basic'
  <1>0. DeviceTyped /\ MemoryTyped /\ CallTyped /\ CountTyped /\ Control /\ DentsTyped
    BY DEF Basic, Typed, DeviceTyped
  <1>1. /\ Return /\ UNCHANGED device /\ calls' = calls /\ (faults' = faults \/ Fails)
        /\ sound' = sound \/ sound' = (sound /\ Consistent)
    BY DEF Mount, Ok
  <1>2. pc' = "idle"
    BY <1>1 DEF Return
  <1>3. CountTyped'
    <2>1. sound' \in BOOLEAN
      BY <1>0, <1>1, Zenon DEF CountTyped
    <2>2. calls' \in 0 .. MaxCalls /\ faults' \in 0 .. MaxFaults
      BY <1>0, <1>1, ExfatAssumption DEF CountTyped, Fails
    <2> QED
      BY <2>1, <2>2 DEF CountTyped
  <1>4. MemoryTyped' /\ Tree'
    <2>1. CASE /\ g_initialized' = FALSE /\ cmap' = {} /\ cmap_dirty' = FALSE /\ cached' = {}
               /\ node' = [o \in Objs \union {ROOT} |-> NoNode] /\ heap' = heap
      BY <1>0, <2>1, Empty
    <2>2. CASE /\ Mountable /\ heap < HeapSize
               /\ g_initialized' = TRUE /\ cmap' = dmap /\ cmap_dirty' = FALSE
               /\ node' = Loaded([o \in Objs \union {ROOT} |->
                               IF o = ROOT THEN RootNode ELSE NoNode], ROOT, RootNode)
               /\ cached' = {ROOT} /\ heap' = heap + 1
      <3> DEFINE ns == [o \in Objects |-> IF o = ROOT THEN RootNode ELSE NoNode]
      <3>1. node' = Loaded(ns, ROOT, RootNode)
        BY <2>2 DEF Objects
      <3>2. ns[ROOT] = RootNode /\ \A o \in Objs : ns[o] = NoNode
        BY ObjectSet
      <3>3. \A o \in Objects : IsNode(ns[o])
        BY Blank, RootNodeIs
      <3> HIDE DEF ns
      <3>4. /\ NodesTyped' /\ node'[ROOT] = RootNode
            /\ \A o \in Objs : Under[o] # ROOT => node'[o] = NoNode
        BY <1>0, <3>1, <3>2, <3>3, LoadedNodes DEF NodesTyped
      <3>5. MemoryTyped'
        <4>1. g_initialized' \in BOOLEAN /\ cmap_dirty' \in BOOLEAN
          BY <2>2, Zenon
        <4>2. heap' \in 0 .. HeapSize
          BY <1>0, <2>2, ExfatAssumption DEF MemoryTyped
        <4>3. cmap' \subseteq Clusters /\ cached' \subseteq Dirs \union {ROOT}
          BY <1>0, <2>2 DEF DeviceTyped
        <4> QED
          BY <3>4, <4>1, <4>2, <4>3 DEF MemoryTyped
      <3>6. RootNode.size > 0
        BY <2>2 DEF Mountable
      <3>7. Tree'
        <4>1. \A o \in Objs : Under[o] \notin cached' => node'[o] = NoNode
          BY <2>2, <3>4
        <4>2. \A o \in cached' : Present(o)'
          BY <2>2 DEF Present
        <4>3. ROOT \in cached'
          BY <2>2
        <4> QED
          BY <2>2, <3>4, <3>6, <4>1, <4>2, <4>3, RootNodeIs DEF Tree
      <3> QED
        BY <3>5, <3>7
    <2> QED
      BY <2>1, <2>2 DEF Mount
  <1> QED
    BY <1>1, <1>2, <1>3, <1>4, ReturnCall, NotInside, DeviceSame, BasicParts DEF Cutting

(* the look-up,                                                             *)
LEMMA LookUpBasic ==
    ASSUME Basic, LookUp PROVE Basic'
  <1> DEFINE p == Under[obj]
             ns == IF p \in cached THEN node ELSE Loaded(node, p, node[p])
  <1>0. DeviceTyped /\ MemoryTyped /\ CallTyped /\ CountTyped /\ Control /\ DentsTyped /\ NodesTyped /\ Tree
        /\ cached \subseteq Dirs \union {ROOT}
    BY DEF Basic, Typed, DeviceTyped, MemoryTyped
  <1>1. /\ pc = "lookup" /\ UNCHANGED device /\ calls' = calls /\ (faults' = faults \/ Fails) /\ sound' = sound
        /\ UNCHANGED <<g_initialized, cmap, cmap_dirty, heap>>
    BY DEF LookUp, Ok, NoMemory, seen
  <1>2. g_initialized /\ obj \in Objs /\ (op = "write" => obj \in Files) /\ p \in Objects /\ p \in Dirs \union {ROOT}
    BY <1>0, <1>1, ObjectSet, ExfatAssumption DEF Control
  <1>3. g_initialized'
    BY <1>1, <1>2
  <1>4. DeviceTyped' /\ CountTyped'
    BY <1>1, DeviceSame, Counted
  <1>5. CASE Return /\ UNCHANGED <<node, cached>>
    <2>1. pc' = "idle"
      BY <1>5 DEF Return
    <2>2. UNCHANGED memory
      BY <1>1, <1>5 DEF memory
    <2> QED
      BY <1>4, <1>5, <2>1, <2>2, MemorySame, ReturnCall, NotInside, BasicParts DEF Cutting
  <1>6. CASE /\ Present(p) /\ cached' = cached \union {p} /\ node' = ns
             /\ CASE op = "info" \/ (op = "read" /\ (ns[obj].at = NoSlot \/ obj \in Dirs)) -> Return
                   [] op = "read" /\ ns[obj].at # NoSlot /\ obj \in Files -> Goto("read")
                   [] op \in {"write", "mkdir"} /\ ns[obj].at = NoSlot -> Goto("slot")
                   [] op = "mkdir" /\ ns[obj].at # NoSlot -> Goto("next")
                   [] op = "write" /\ ns[obj].at # NoSlot -> Truncating(obj, size, "data", "fail")
    <2>1. /\ ns = [o \in Objects |-> ns[o]] /\ \A o \in Objects : IsNode(ns[o])
          /\ ns[ROOT] = node[ROOT] /\ \A o \in Objs : Under[o] # p => ns[o] = node[o]
      <3>1. CASE p \in cached
        BY <1>0, <3>1 DEF NodesTyped
      <3>2. CASE p \notin cached
        BY <1>0, <3>2, LoadedNodes DEF NodesTyped
      <3> QED
        BY <3>1, <3>2
    <2> HIDE DEF ns
    <2>2. NodesTyped'
      BY <1>6, <2>1 DEF NodesTyped
    <2>3. MemoryTyped'
      BY <1>0, <1>1, <1>2, <1>6, <2>2 DEF MemoryTyped
    <2>4. \A o \in cached' : Present(o)'
      <3> TAKE o \in cached'
      <3>1. CASE o = ROOT
        BY <3>1 DEF Present
      <3>2. CASE o # ROOT
        <4>1. o \in Objs /\ Present(o)
          BY <1>0, <1>2, <1>6, <3>2, ObjectSet DEF Tree
        <4>2. node[o].at # NoSlot
          BY <3>2, <4>1 DEF Present
        <4>3. Under[o] \in cached
          BY <1>0, <4>1, <4>2, Blank DEF Tree
        <4>4. ns[o] = node[o]
          <5>1. CASE p \in cached
            BY <5>1 DEF ns
          <5>2. CASE p \notin cached
            BY <2>1, <4>1, <4>3, <5>2
          <5> QED
            BY <5>1, <5>2
        <4> QED
          BY <1>6, <4>2, <4>4 DEF Present
      <3> QED
        BY <3>1, <3>2
    <2>5. Tree'
      <3>1. \A o \in Objs : Under[o] \notin cached' => node'[o] = NoNode
        BY <1>0, <1>6, <2>1 DEF Tree
      <3>2. ROOT \in cached' /\ node'[ROOT] = node[ROOT]
        BY <1>0, <1>2, <1>6, <2>1 DEF Tree
      <3>3. node[ROOT].start = 4 /\ node[ROOT].contig = FALSE /\ node[ROOT].size > 0
        BY <1>0, <1>2 DEF Tree
      <3> QED
        BY <1>3, <2>4, <3>1, <3>2, <3>3 DEF Tree
    <2>6. ASSUME ns[obj].at = NoSlot \/ obj \in Files
          PROVE  obj \notin cached'
      <3>1. CASE obj \in Files
        <4>1. cached' \subseteq Dirs \union {ROOT}
          BY <2>3 DEF MemoryTyped
        <4> QED
          BY <3>1, <4>1, ObjectSet
      <3>2. CASE ns[obj].at = NoSlot
        BY <1>2, <1>6, <2>4, <3>2, ObjectSet DEF Present
      <3> QED
        BY <2>6, <3>1, <3>2
    <2>7. UNCHANGED call => obj' = obj
      BY DEF call
    <2>8. ASSUME UNCHANGED call, ns[obj].at = NoSlot \/ obj \in Files
          PROVE  Placed'
      BY <1>2, <1>6, <2>6, <2>7, <2>8 DEF Placed
    <2>9. CASE Return
      <3>1. pc' = "idle"
        BY <2>9 DEF Return
      <3> QED
        BY <1>4, <2>3, <2>5, <2>9, <3>1, ReturnCall, NotInside, BasicParts DEF Cutting
    <2>10. CASE (ns[obj].at = NoSlot \/ obj \in Files) /\ (Goto("read") \/ Goto("slot"))
      <3>1. PICK l \in {"read", "slot"} : Goto(l)
        BY <2>10
      <3>2. Placed' /\ pc' = l
        BY <2>8, <2>10, <3>1 DEF Goto
      <3>3. CallTyped' /\ Control'
        BY <1>0, <1>3, <3>1, <3>2, GotoCall DEF Labels, InDir, Leaving, FlushAt, Cutting, Formatting
      <3> QED
        BY <1>4, <2>3, <2>5, <3>2, <3>3, NotInside, BasicParts DEF Cutting
    <2>11. CASE Goto("next")
      <3>1. pc' = "next"
        BY <2>11 DEF Goto
      <3>3. CallTyped' /\ Control'
        BY <1>0, <1>3, <2>11, GotoCall DEF Labels, InDir, Leaving, FlushAt, Cutting, Formatting
      <3> QED
        BY <1>4, <2>3, <2>5, <3>1, <3>3, NotInside, BasicParts DEF Cutting
    <2>12. CASE obj \in Files /\ Truncating(obj, size, "data", "fail")
      <3>1. Placed' /\ obj \in Objects /\ obj # ROOT /\ size \in Nat
        BY <1>0, <1>2, <2>8, <2>12, ObjectSet DEF Truncating, CallTyped
      <3>3. CallTyped' /\ Control' /\ Progress'
        BY <1>0, <1>3, <2>12, <3>1, TruncatingCall DEF TruncThen, TruncElse
      <3> QED
        BY <1>4, <2>3, <2>5, <3>3, BasicParts
    <2>13. op \in {"write", "mkdir", "read", "info"}
      BY <1>0, <1>1 DEF Control, CallTyped
    <2>14. CASE op = "info"
      BY <1>6, <2>9, <2>14
    <2>15. CASE op = "read"
      BY <1>2, <1>6, <2>9, <2>10, <2>15, ObjectSet DEF Objs
    <2>16. CASE op = "mkdir"
      BY <1>6, <2>10, <2>11, <2>16
    <2>17. CASE op = "write"
      BY <1>2, <1>6, <2>10, <2>12, <2>17
    <2> QED
      BY <2>13, <2>14, <2>15, <2>16, <2>17
  <1> QED
    BY <1>5, <1>6 DEF LookUp

(* and a read.                                                              *)
LEMMA ReadDataBasic ==
    ASSUME Basic, ReadData PROVE Basic'
  <1>0. DeviceTyped /\ MemoryTyped /\ CallTyped /\ CountTyped /\ Control /\ NodesTyped /\ Tree
        /\ cached \subseteq Dirs \union {ROOT}
    BY DEF Basic, Typed, MemoryTyped
  <1>1. /\ pc = "read" /\ Return /\ UNCHANGED device /\ calls' = calls /\ (faults' = faults \/ Fails) /\ sound' = sound
        /\ UNCHANGED <<g_initialized, cmap, cmap_dirty, cached, heap>>
    BY DEF ReadData, Ok, seen
  <1>2. pc' = "idle"
    BY <1>1 DEF Return
  <1>3. Placed /\ obj \in Objects
    BY <1>0, <1>1, ObjectSet DEF Control, Busy, InDir, Placed
  <1> DEFINE n == node[obj]
             d == n.dirty \/ (n.size > 0 /\ \A c \in ChainOf(n) : Valid(c))
  <1>4. MemoryTyped' /\ Tree'
    <2>1. CASE UNCHANGED node
      BY <1>1, <2>1, MemorySame DEF memory
    <2>2. CASE node' = [node EXCEPT ![obj].dirty = d]
      <3>1. d \in BOOLEAN
        OBVIOUS
      <3>2. IsNode(n)
        BY <1>0, <1>3 DEF NodesTyped
      <3> DEFINE m == [at |-> n.at, start |-> n.start, size |-> n.size, contig |-> n.contig, dirty |-> d]
      <3> HIDE DEF d
      <3>3. IsNode(m) /\ m.at = n.at /\ m.start = n.start /\ m.size = n.size /\ m.contig = n.contig
        BY <3>1, <3>2 DEF IsNode
      <3>4. [n EXCEPT !.dirty = d] = m
        BY <3>2 DEF IsNode
      <3>5. node' = [node EXCEPT ![obj] = [n EXCEPT !.dirty = d]]
        BY <2>2
      <3>6. SetNode(obj, m)
        BY <3>4, <3>5 DEF SetNode
      <3> HIDE DEF m
      <3>7. NodesTyped' /\ node'[obj] = m /\ \A q \in Objects : q # obj => node'[q] = node[q]
        BY <1>0, <1>3, <3>3, <3>6, NodeReplaced
      <3>8. obj # ROOT /\ Under[obj] \in cached
        BY <1>3, ObjectSet DEF Placed
      <3>9. Tree'
        BY <1>0, <1>1, <1>3, <3>3, <3>7, <3>8, TreeReplaced
      <3> QED
        BY <1>0, <1>1, <3>7, <3>9 DEF MemoryTyped
    <2> QED
      BY <2>1, <2>2 DEF ReadData
  <1> QED
    BY <1>1, <1>2, <1>4, ReturnCall, NotInside, DeviceSame, Counted, BasicParts DEF Cutting

(* What is known while a call works in a directory.                         *)
LEMMA BusyFacts ==
    ASSUME Basic, pc \in InDir
    PROVE  /\ g_initialized /\ Placed /\ obj \in Objs /\ obj \in Objects /\ obj # ROOT /\ Under[obj] \in Objects
           /\ Under[obj] \in cached /\ (Under[obj] = ROOT \/ Under[Under[obj]] \in cached)
           /\ IsNode(node[obj]) /\ IsNode(node[Under[obj]]) /\ size \in Nat
  <1>1. g_initialized /\ Placed /\ Tree /\ NodesTyped /\ CallTyped
    BY DEF Basic, Control, Busy, Typed, MemoryTyped
  <1> QED
    BY <1>1, PlacedDir, ObjectSet DEF Placed, NodesTyped, CallTyped

(* What is known inside exfat_truncate.                                     *)
LEMMA CuttingFacts ==
    ASSUME Basic, pc \in Cutting
    PROVE  /\ g_initialized /\ Placed /\ IsTrunc(t) /\ t.o \in Objects /\ t.to \in Nat /\ t.left \in Nat
           /\ t.prev \in Int
           /\ t.o = ROOT \/ Under[t.o] \in cached
           /\ t.o = ROOT => t.to > 0
           /\ IsNode(node[t.o]) /\ node[t.o].size \in Nat /\ node[t.o].start \in Clusters \union {FREE}
           /\ t.o = ROOT => node[t.o].start = 4 /\ node[t.o].contig = FALSE /\ node[t.o].size > 0
  <1>1. pc \in InDir
    BY DEF InDir
  <1>2. g_initialized /\ Placed /\ obj \in Objs /\ Under[obj] \in cached /\ (Under[obj] = ROOT \/ Under[Under[obj]] \in cached)
    BY <1>1, BusyFacts
  <1>3. t.o \in {obj, Under[obj]} /\ (t.o = ROOT => t.to > 0)
    BY DEF Basic, Control
  <1>4. IsTrunc(t) /\ NodesTyped /\ Tree
    BY DEF Basic, Typed, CallTyped, MemoryTyped
  <1>5. t.o \in Objects /\ t.to \in Nat /\ t.left \in Nat /\ t.prev \in Int
    BY <1>4 DEF IsTrunc
  <1>6. IsNode(node[t.o])
    BY <1>4, <1>5 DEF NodesTyped
  <1>7. node[t.o].size \in Nat /\ node[t.o].start \in Clusters \union {FREE}
    BY <1>6 DEF IsNode
  <1>8. t.o = ROOT \/ Under[t.o] \in cached
    BY <1>2, <1>3
  <1>9. t.o = ROOT => node[t.o].start = 4 /\ node[t.o].contig = FALSE /\ node[t.o].size > 0
    BY <1>2, <1>4 DEF Tree
  <1> QED
    BY <1>2, <1>3, <1>4, <1>5, <1>6, <1>7, <1>8, <1>9

(* The record of exfat_truncate after an update, field by field: the cursor *)
(* and the count,                                                           *)
LEMMA TruncMoves ==
    ASSUME IsTrunc(t), NEW a \in Int, NEW b \in Nat, t' = [t EXCEPT !.prev = a, !.left = b]
    PROVE  /\ IsTrunc(t)' /\ t'.o = t.o /\ t'.to = t.to /\ t'.prev = a /\ t'.left = b
           /\ t'.undo = t.undo /\ t'.k = t.k /\ t'.kf = t.kf
  <1>1. t' = [o |-> t.o, to |-> t.to, prev |-> a, left |-> b, undo |-> t.undo, k |-> t.k, kf |-> t.kf]
    BY DEF IsTrunc
  <1> QED
    BY <1>1 DEF IsTrunc

(* the count alone,                                                         *)
LEMMA TruncMovesLeft ==
    ASSUME IsTrunc(t), NEW b \in Nat, t' = [t EXCEPT !.left = b]
    PROVE  /\ IsTrunc(t)' /\ t'.o = t.o /\ t'.to = t.to /\ t'.prev = t.prev /\ t'.left = b
           /\ t'.undo = t.undo /\ t'.k = t.k /\ t'.kf = t.kf
  <1>1. t' = [o |-> t.o, to |-> t.to, prev |-> t.prev, left |-> b, undo |-> t.undo, k |-> t.k, kf |-> t.kf]
    BY DEF IsTrunc
  <1> QED
    BY <1>1 DEF IsTrunc

(* the cursor alone,                                                        *)
LEMMA TruncMovesPrev ==
    ASSUME IsTrunc(t), NEW a \in Int, t' = [t EXCEPT !.prev = a]
    PROVE  /\ IsTrunc(t)' /\ t'.o = t.o /\ t'.to = t.to /\ t'.prev = a /\ t'.left = t.left
           /\ t'.undo = t.undo /\ t'.k = t.k /\ t'.kf = t.kf
  <1>1. t' = [o |-> t.o, to |-> t.to, prev |-> a, left |-> t.left, undo |-> t.undo, k |-> t.k, kf |-> t.kf]
    BY DEF IsTrunc
  <1> QED
    BY <1>1 DEF IsTrunc

(* and the turn to undo a growth.                                           *)
LEMMA TruncUndoes ==
    ASSUME IsTrunc(t), NEW a \in Nat, NEW b \in Nat,
           t' = [t EXCEPT !.to = a, !.left = b, !.undo = TRUE]
    PROVE  /\ IsTrunc(t)' /\ t'.o = t.o /\ t'.to = a /\ t'.prev = t.prev /\ t'.left = b
           /\ t'.undo = TRUE /\ t'.k = t.k /\ t'.kf = t.kf
  <1>1. t' = [o |-> t.o, to |-> a, prev |-> t.prev, left |-> b, undo |-> TRUE, k |-> t.k, kf |-> t.kf]
    BY DEF IsTrunc
  <1> QED
    BY <1>1 DEF IsTrunc

(* Steps that leave device and memory alone keep Basic if the call does.    *)
LEMMA QuietBasic ==
    ASSUME Basic, UNCHANGED <<device, memory, calls, sound>>, faults' = faults \/ Fails,
           CallTyped', Control', Progress'
    PROVE  Basic'
  BY MemorySame, DeviceSame, Counted, BasicParts

(* The steps that only move the call on.                                    *)
LEMMA CreateBasic ==
    ASSUME Basic, FindSlot \/ Created \/ Failed \/ WriteDone \/ DirFlush \/ DeleteFlush
    PROVE  Basic'
  <1>0. CallTyped /\ Control /\ Tree
    BY DEF Basic, Typed
  <1>1. /\ pc \in InDir /\ UNCHANGED <<device, memory, calls, sound>> /\ (faults' = faults \/ Fails)
    BY DEF FindSlot, Created, Failed, WriteDone, DirFlush, DeleteFlush, InDir, Ok, NoMemory, seen
  <1>2. g_initialized' = g_initialized /\ cached' = cached
    BY <1>1 DEF memory
  <1>3. /\ g_initialized' /\ Placed /\ obj \in Objs /\ obj \in Objects /\ obj # ROOT /\ Under[obj] \in Objects
        /\ Under[obj] \in cached' /\ (Under[obj] = ROOT \/ Under[Under[obj]] \in cached')
        /\ IsNode(node[obj]) /\ IsNode(node[Under[obj]]) /\ size \in Nat
    BY <1>1, <1>2, BusyFacts
  <1>4. UNCHANGED call => Placed'
    BY <1>2, <1>3 DEF Placed, call
  <1>5. ASSUME Return PROVE Basic'
    <2>1. pc' = "idle"
      BY <1>5 DEF Return
    <2> QED
      BY <1>1, <1>5, <2>1, ReturnCall, NotInside, QuietBasic DEF Cutting
  <1>6. ASSUME NEW l \in {"commit", "fail"}, Goto(l) PROVE Basic'
    <2>1. pc' = l /\ Placed'
      BY <1>4, <1>6 DEF Goto
    <2>2. CallTyped' /\ Control'
      BY <1>0, <1>3, <1>6, <2>1, GotoCall DEF Labels, InDir, Leaving, FlushAt, Cutting, Formatting
    <2> QED
      BY <1>1, <2>1, <2>2, NotInside, QuietBasic DEF Cutting
  <1>7. ASSUME NEW o \in {obj, Under[obj]}, NEW n \in Nat, NEW k \in TruncThen, NEW kf \in TruncElse,
               Truncating(o, n, k, kf), o = ROOT => n > 0
        PROVE  Basic'
    <2>1. Placed' /\ o \in Objects
      BY <1>3, <1>4, <1>7 DEF Truncating
    <2>2. CallTyped' /\ Control' /\ Progress'
      BY <1>0, <1>3, <1>7, <2>1, TruncatingCall
    <2> QED
      BY <1>1, <2>2, QuietBasic
  <1>8. ASSUME NEW o \in {obj, Under[obj]}, NEW k \in FlushThen, NEW kf \in FlushElse, kf # "lastflush",
               Flushing(o, k, kf)
        PROVE  Basic'
    <2>1. Placed' /\ o \in Objects /\ (o = ROOT \/ Under[o] \in cached') /\ pc' = "flush"
      BY <1>3, <1>4, <1>8 DEF Flushing
    <2>2. CallTyped' /\ Control'
      BY <1>0, <1>3, <1>8, <2>1, FlushingCall
    <2> QED
      BY <1>1, <2>1, <2>2, NotInside, QuietBasic DEF Cutting
  <1>9. CASE FindSlot
    <2>1. node[Under[obj]].size + 1 \in Nat /\ node[Under[obj]].size + 1 > 0
      BY <1>3 DEF IsNode
    <2> QED
      BY <1>6, <1>7, <1>9, <2>1 DEF FindSlot, TruncThen, TruncElse
  <1>10. CASE Created
    BY <1>3, <1>7, <1>10 DEF Created, TruncThen, TruncElse
  <1>11. CASE Failed
    BY <1>5, <1>11 DEF Failed
  <1>12. CASE WriteDone
    BY <1>5, <1>12 DEF WriteDone
  <1>13. CASE DirFlush
    BY <1>8, <1>13 DEF DirFlush, FlushThen, FlushElse
  <1>14. CASE DeleteFlush
    BY <1>8, <1>14 DEF DeleteFlush, FlushThen, FlushElse
  <1> QED
    BY <1>9, <1>10, <1>11, <1>12, <1>13, <1>14

(* The steps from one component of a path to the next.                      *)
LEMMA PathBasic ==
    ASSUME Basic, (\E d \in Dirs : NextComponent(d)) \/ PathDone
    PROVE  Basic'
  <1>0. CallTyped /\ Control /\ Tree
    BY DEF Basic, Typed
  <1>1. pc = "next" /\ UNCHANGED <<device, memory, calls, sound>> /\ faults' = faults
    BY DEF NextComponent, PathDone, Ok, seen
  <1>2. g_initialized /\ g_initialized'
    BY <1>0, <1>1 DEF Control, Leaving, memory
  <1>3. CASE PathDone
    <2>1. Goto("unmount") /\ pc' = "unmount"
      BY <1>3 DEF PathDone, Goto
    <2>2. CallTyped' /\ Control'
      BY <1>0, <1>2, <2>1, GotoCall DEF Labels, InDir, Leaving, FlushAt, Cutting, Formatting
    <2> QED
      BY <1>1, <2>1, <2>2, NotInside, QuietBasic DEF Cutting
  <1>4. CASE \E d \in Dirs : NextComponent(d)
    <2>1. PICK d \in Dirs : NextComponent(d)
      BY <1>4
    <2>2. obj' = d /\ pc' = "lookup" /\ UNCHANGED <<op, size, written, t, f>>
      BY <2>1 DEF NextComponent
    <2>3. d \in Objs /\ d \in Objects
      BY <2>1, ObjectSet DEF Objs
    <2>4. CallTyped'
      BY <1>0, <2>2, <2>3 DEF CallTyped, Labels, IsTrunc, IsFlush
    <2>5. op = "mkdir"
      BY <2>1 DEF NextComponent
    <2>6. Control'
      BY <1>2, <2>2, <2>3, <2>5 DEF Control, Busy, Formatting, InDir, Leaving, FlushAt, Cutting
    <2> QED
      BY <1>1, <2>2, <2>4, <2>6, NotInside, QuietBasic DEF Cutting
  <1> QED
    BY <1>3, <1>4

(* The steps of exfat_unmount and the ends of exfat_flush_node.             *)
LEMMA UnmountBasic ==
    ASSUME Basic, UnmountNode \/ UnmountNodesDone \/ Unmount \/ FlushNothing \/ FlushBitmap
    PROVE  Basic'
  <1>0. CallTyped /\ Control /\ Tree /\ NodesTyped /\ DeviceTyped /\ MemoryTyped
    BY DEF Basic, Typed, MemoryTyped
  <1>1. /\ pc \in FlushAt \union Leaving /\ UNCHANGED <<g_initialized, cmap, node, cached, heap, calls, sound>>
        /\ (faults' = faults \/ Fails)
    BY DEF UnmountNode, UnmountNodesDone, Unmount, FlushNothing, FlushBitmap, Leaving, FlushAt, Ok, seen, memory
  <1>2. g_initialized'
    BY <1>0, <1>1 DEF Control
  <1>3. DeviceTyped' /\ MemoryTyped' /\ Tree'
    <2>1. CASE UnmountNode \/ UnmountNodesDone \/ FlushNothing
      <3>1. UNCHANGED <<device, memory>>
        BY <2>1 DEF UnmountNode, UnmountNodesDone, FlushNothing
      <3> QED
        BY <3>1, Quiet
    <2>2. CASE Unmount \/ FlushBitmap
      <3>1. /\ UNCHANGED <<vbr, sysents, fat, data, dent, g_initialized, cmap, node, cached, heap>>
            /\ dmap' \in {dmap, cmap} /\ cmap_dirty' \in {FALSE, cmap_dirty}
        BY <2>2 DEF Unmount, FlushBitmap, WriteBitmap
      <3>2. cmap_dirty' \in BOOLEAN
        BY <1>0, <3>1, Zenon DEF MemoryTyped
      <3>3. dmap' \subseteq Clusters
        BY <1>0, <3>1 DEF DeviceTyped, MemoryTyped
      <3> QED
        BY <1>0, <3>1, <3>2, <3>3 DEF DeviceTyped, MemoryTyped, DentsTyped, NodesTyped, Tree, Present
    <2> QED
      BY <2>1, <2>2
  <1>4. CountTyped'
    BY <1>1, Counted
  <1>5. CallTyped' /\ Control' /\ pc' \notin Cutting
    <2>1. CASE UnmountNode
      <3>1. PICK o \in Dirty : Flushing(o, "unmount", "lastflush")
        BY <2>1 DEF UnmountNode
      <3>2. o \in Objs /\ node[o].at # NoSlot
        BY <3>1, ObjectSet DEF Dirty, Present
      <3>3. Under[o] \in cached'
        BY <1>0, <1>1, <3>2, Blank DEF Tree
      <3>4. o \in Objects /\ pc' = "flush"
        BY <3>1, <3>2, ObjectSet DEF Flushing
      <3> QED
        BY <1>0, <1>2, <3>1, <3>3, <3>4, FlushingCall DEF FlushThen, FlushElse, Cutting
    <2>2. CASE UnmountNodesDone
      <3>1. Goto("lastflush") /\ pc' = "lastflush"
        BY <2>2 DEF UnmountNodesDone, Goto
      <3> QED
        BY <1>0, <1>2, <3>1, GotoCall DEF Labels, InDir, Leaving, FlushAt, Cutting, Formatting, Cutting
    <2>3. CASE Unmount
      <3>1. PICK l \in {"mount", "bug"} : Goto(l)
        BY <2>3 DEF Unmount
      <3>2. pc' = l
        BY <3>1 DEF Goto
      <3> QED
        BY <1>0, <1>2, <3>1, <3>2, GotoCall DEF Labels, InDir, Leaving, FlushAt, Cutting, Formatting, Cutting
    <2>4. CASE FlushNothing \/ FlushBitmap
      <3>1. pc \in FlushAt /\ (FlushDone(f.k) \/ FlushDone(f.kf))
        BY <2>4 DEF FlushNothing, FlushBitmap, FlushAt
      <3>2. CallTyped' /\ Control' /\ pc' \in FlushThen \union FlushElse
        BY <1>0, <1>1, <1>2, <3>1, FlushDoneCall
      <3> QED
        BY <3>2 DEF FlushThen, FlushElse, Cutting
    <2> QED
      BY <2>1, <2>2, <2>3, <2>4
  <1> QED
    BY <1>3, <1>4, <1>5, NotInside, BasicParts

(* The forms in which a node is updated.                                    *)
Started(n, c) == [n EXCEPT !.start = c, !.contig = TRUE]
Broken(n)     == [n EXCEPT !.contig = FALSE, !.dirty = TRUE]
Sized(n, z)   == [n EXCEPT !.size = z, !.dirty = TRUE]

(* Their fields: a file gets its first cluster,                             *)
LEMMA NodeStarted ==
    ASSUME NEW n, IsNode(n), NEW c \in Clusters
    PROVE  /\ IsNode(Started(n, c)) /\ Started(n, c).at = n.at /\ Started(n, c).start = c
           /\ Started(n, c).size = n.size /\ Started(n, c).contig = TRUE /\ Started(n, c).dirty = n.dirty
  <1> DEFINE m == Started(n, c)
  <1>1. m = [n EXCEPT !.start = c, !.contig = TRUE]
    BY DEF Started
  <1> HIDE DEF m
  <1>2. m = [at |-> n.at, start |-> c, size |-> n.size, contig |-> TRUE, dirty |-> n.dirty]
    BY <1>1 DEF IsNode
  <1>3. IsNode(m) /\ m.at = n.at /\ m.start = c /\ m.size = n.size /\ m.contig = TRUE /\ m.dirty = n.dirty
    BY <1>2 DEF IsNode
  <1> QED
    BY <1>3 DEF m

(* is no longer contiguous,                                                 *)
LEMMA NodeBroken ==
    ASSUME NEW n, IsNode(n)
    PROVE  /\ IsNode(Broken(n)) /\ Broken(n).at = n.at /\ Broken(n).start = n.start
           /\ Broken(n).size = n.size /\ Broken(n).contig = FALSE /\ Broken(n).dirty = TRUE
  <1> DEFINE m == Broken(n)
  <1>1. m = [n EXCEPT !.contig = FALSE, !.dirty = TRUE]
    BY DEF Broken
  <1> HIDE DEF m
  <1>2. m = [at |-> n.at, start |-> n.start, size |-> n.size, contig |-> FALSE, dirty |-> TRUE]
    BY <1>1 DEF IsNode
  <1>3. IsNode(m) /\ m.at = n.at /\ m.start = n.start /\ m.size = n.size /\ m.contig = FALSE /\ m.dirty = TRUE
    BY <1>2 DEF IsNode
  <1> QED
    BY <1>3 DEF m

(* has a new size,                                                          *)
LEMMA NodeSized ==
    ASSUME NEW n, IsNode(n), NEW z \in Nat
    PROVE  /\ IsNode(Sized(n, z)) /\ Sized(n, z).at = n.at /\ Sized(n, z).start = n.start
           /\ Sized(n, z).size = z /\ Sized(n, z).contig = n.contig /\ Sized(n, z).dirty = TRUE
  <1> DEFINE m == Sized(n, z)
  <1>1. m = [n EXCEPT !.size = z, !.dirty = TRUE]
    BY DEF Sized
  <1> HIDE DEF m
  <1>2. m = [at |-> n.at, start |-> n.start, size |-> z, contig |-> n.contig, dirty |-> TRUE]
    BY <1>1 DEF IsNode
  <1>3. IsNode(m) /\ m.at = n.at /\ m.start = n.start /\ m.size = z /\ m.contig = n.contig /\ m.dirty = TRUE
    BY <1>2 DEF IsNode
  <1> QED
    BY <1>3 DEF m

(* or is cut, possibly to nothing.                                          *)
LEMMA NodeCropped ==
    ASSUME NEW n, IsNode(n), NEW to, NEW m, m = Cropped(n, to)
    PROVE  /\ IsNode(m) /\ m.at = n.at /\ m.size = n.size /\ m.contig = n.contig
           /\ m.start = IF to = 0 THEN FREE ELSE n.start
  <1>1. CASE to = 0
    <2>1. m = [n EXCEPT !.start = FREE, !.dirty = TRUE]
      BY <1>1 DEF Cropped
    <2>2. m = [at |-> n.at, start |-> FREE, size |-> n.size, contig |-> n.contig, dirty |-> TRUE]
      BY <2>1 DEF IsNode
    <2>3. IsNode(m) /\ m.at = n.at /\ m.size = n.size /\ m.contig = n.contig /\ m.start = FREE
      BY <2>2 DEF IsNode
    <2> QED
      BY <1>1, <2>3
  <1>2. CASE to # 0
    BY <1>2 DEF Cropped
  <1> QED
    BY <1>1, <1>2

(* A dirty mark is set or taken away.                                       *)
LEMMA NodeDirtied ==
    ASSUME NEW n, IsNode(n), NEW b \in BOOLEAN, NEW m, m = [n EXCEPT !.dirty = b]
    PROVE  /\ IsNode(m) /\ m.at = n.at /\ m.start = n.start /\ m.size = n.size /\ m.contig = n.contig /\ m.dirty = b
  <1>1. m = [at |-> n.at, start |-> n.start, size |-> n.size, contig |-> n.contig, dirty |-> b]
    BY DEF IsNode
  <1> QED
    BY <1>1 DEF IsNode

(* The steps of exfat_truncate that only look.                              *)
LEMMA TruncateBasic ==
    ASSUME Basic, TruncateSame \/ GrowFrom \/ GrowNoSpace \/ ShrinkFrom
    PROVE  Basic'
  <1>0. CallTyped /\ Control /\ Progress /\ DeviceTyped
    BY DEF Basic, Typed
  <1>1. /\ pc \in Cutting /\ UNCHANGED <<device, memory, calls, sound>> /\ (faults' = faults \/ Fails)
    BY DEF TruncateSame, GrowFrom, GrowNoSpace, ShrinkFrom, Cutting, Ok, seen
  <1>2. g_initialized' = g_initialized /\ cached' = cached /\ node' = node
    BY <1>1 DEF memory
  <1>3. /\ g_initialized' /\ IsTrunc(t) /\ t.o \in Objects /\ t.to \in Nat /\ t.left \in Nat
        /\ t.prev \in Int /\ (t.o = ROOT => t.to > 0)
        /\ IsNode(node[t.o]) /\ node[t.o].size \in Nat /\ (t.o = ROOT => node[t.o].size > 0)
    BY <1>1, <1>2, CuttingFacts
  <1>4. ASSUME TruncFailed PROVE Basic'
    <2>1. CallTyped' /\ Control' /\ pc' \in TruncElse
      BY <1>0, <1>1, <1>2, <1>3, <1>4, TruncFailedCall
    <2> QED
      BY <1>1, <2>1, NotInside, QuietBasic DEF TruncElse, Cutting
  <1>5. ASSUME pc' \in Cutting, UNCHANGED <<call, f>>, IsTrunc(t)',
               t'.o = t.o, t'.k = t.k, t'.kf = t.kf, t.o = ROOT => t'.to > 0, Progress'
        PROVE  Basic'
    <2>1. CallTyped' /\ Control'
      BY <1>0, <1>1, <1>2, <1>3, <1>5, CuttingCall
    <2> QED
      BY <1>1, <1>5, <2>1, QuietBasic
  <1>6. CASE TruncateSame
    <2>1. CallTyped' /\ Control' /\ pc' \in TruncThen
      BY <1>0, <1>1, <1>2, <1>3, <1>6, TruncDoneCall DEF TruncateSame
    <2> QED
      BY <1>1, <2>1, NotInside, QuietBasic DEF TruncThen, Cutting
  <1>7. CASE GrowFrom
    <2> DEFINE n == node[t.o]
               last == IF n.size = 0 THEN END ELSE Nth(n, n.size - 1)
    <2>1. CASE TruncFailed
      BY <1>4, <2>1
    <2>2. CASE Valid(last) /\ t' = [t EXCEPT !.prev = last, !.left = t.to - n.size] /\ pc' = "grow" /\ UNCHANGED <<call, f>>
      <3>1. n.size < t.to /\ t.to - n.size \in Nat
        BY <1>3, <1>7 DEF GrowFrom
      <3>2. n.size # 0 /\ last \in Clusters /\ last \in Int
        BY <2>2, ClusterSet DEF Valid
      <3> HIDE DEF last
      <3>3. /\ IsTrunc(t)' /\ t'.o = t.o /\ t'.to = t.to /\ t'.prev = last /\ t'.left = t.to - n.size
            /\ t'.k = t.k /\ t'.kf = t.kf
        BY <1>3, <2>2, <3>1, <3>2, TruncMoves
      <3>4. Progress'
        BY <1>2, <1>3, <2>2, <3>1, <3>2, <3>3 DEF Progress
      <3> QED
        BY <1>3, <1>5, <2>2, <3>3, <3>4 DEF Cutting
    <2> QED
      BY <1>7, <2>1, <2>2 DEF GrowFrom
  <1>8. CASE GrowNoSpace
    <2> DEFINE old == node[t.o].size
               now == t.to - t.left
    <2>1. CASE TruncFailed
      BY <1>4, <2>1
    <2>2. CASE now > old /\ pc' = "crop" /\ UNCHANGED <<call, f>> /\ t' = [t EXCEPT !.to = old, !.left = now - old, !.undo = TRUE]
      <3>1. old \in Nat /\ now - old \in Nat
        BY <1>3, <2>2
      <3>2. /\ IsTrunc(t)' /\ t'.o = t.o /\ t'.to = old /\ t'.left = now - old
            /\ t'.k = t.k /\ t'.kf = t.kf
        BY <1>3, <2>2, <3>1, TruncUndoes
      <3>3. Progress'
        BY <1>2, <1>3, <2>2, <3>1, <3>2 DEF Progress
      <3> QED
        BY <1>3, <1>5, <2>2, <3>2, <3>3 DEF Cutting
    <2> QED
      BY <1>8, <2>1, <2>2 DEF GrowNoSpace
  <1>9. CASE ShrinkFrom
    <2>1. node[t.o].size > t.to /\ t' = [t EXCEPT !.left = node[t.o].size - t.to] /\ pc' = "crop" /\ UNCHANGED <<call, f>> /\ pc = "truncate"
      BY <1>9 DEF ShrinkFrom
    <2>2. node[t.o].size - t.to \in Nat
      BY <1>3, <2>1
    <2>3. /\ IsTrunc(t)' /\ t'.o = t.o /\ t'.to = t.to /\ t'.left = node[t.o].size - t.to /\ t'.undo = t.undo
          /\ t'.k = t.k /\ t'.kf = t.kf
      BY <1>3, <2>1, <2>2, TruncMovesLeft
    <2>4. Progress'
      <3>1. t.undo = FALSE
        BY <1>0, <2>1 DEF Progress
      <3> QED
        BY <1>2, <1>3, <2>1, <2>2, <2>3, <3>1 DEF Progress
    <2> QED
      BY <1>3, <1>5, <2>1, <2>3, <2>4 DEF Cutting
  <1> QED
    BY <1>6, <1>7, <1>8, <1>9

(* Setting one entry of the FAT keeps its type.                             *)
LEMMA FatSet ==
    ASSUME NEW fa \in [Clusters -> Clusters \union {FREE, END}], NEW c, NEW v \in Clusters \union {FREE, END}
    PROVE  [fa EXCEPT ![c] = v] \in [Clusters -> Clusters \union {FREE, END}]
  OBVIOUS

(* So does writing the links of a contiguous file; this is what they are    *)
(* then.                                                                    *)
LEMMA LinkedTyped ==
    ASSUME DeviceTyped, NEW first, NEW last \in Int, last <= NumClusters + 1
    PROVE  /\ Linked(first, last) \in [Clusters -> Clusters \union {FREE, END}]
           /\ \A c \in Clusters : Linked(first, last)[c] = IF first <= c /\ c < last THEN c + 1 ELSE fat[c]
  <1>1. ASSUME NEW c \in Clusters, c < last PROVE c + 1 \in Clusters
    BY <1>1, ExfatAssumption DEF Clusters
  <1> QED
    BY <1>1 DEF Linked, DeviceTyped

(* The node of the file that is truncated is replaced.                      *)
LEMMA CutReplaced ==
    ASSUME Basic, pc \in Cutting, NEW m, IsNode(m), SetNode(t.o, m), m.at = node[t.o].at,
           t.o = ROOT => m.start = 4 /\ m.contig = FALSE /\ m.size > 0,
           UNCHANGED <<g_initialized, cached, heap>>, cmap' \subseteq Clusters, cmap_dirty' \in BOOLEAN
    PROVE  /\ MemoryTyped' /\ Tree' /\ node'[t.o] = m
           /\ \A p \in Objects : p # t.o => node'[p] = node[p]
  <1>0. MemoryTyped /\ NodesTyped /\ Tree /\ cached \subseteq Dirs \union {ROOT}
    BY DEF Basic, Typed, MemoryTyped
  <1>1. t.o \in Objects /\ (t.o = ROOT \/ Under[t.o] \in cached)
    BY CuttingFacts
  <1>2. NodesTyped' /\ node'[t.o] = m /\ \A p \in Objects : p # t.o => node'[p] = node[p]
    BY <1>0, <1>1, NodeReplaced
  <1>3. MemoryTyped'
    BY <1>0, <1>2 DEF MemoryTyped
  <1>4. Tree'
    BY <1>0, <1>1, <1>2, TreeReplaced
  <1> QED
    BY <1>2, <1>3, <1>4

(* The tree stays as it is while the bitmap changes.                        *)
LEMMA CutSame ==
    ASSUME Basic, UNCHANGED <<g_initialized, node, cached, heap>>, cmap' \subseteq Clusters, cmap_dirty' \in BOOLEAN
    PROVE  MemoryTyped' /\ Tree'
  BY DEF Basic, Typed, MemoryTyped, NodesTyped, Tree, Present

(* Each step of exfat_truncate keeps Basic: the first cluster,              *)
LEMMA GrowFirstBasic ==
    ASSUME Basic, GrowFirst PROVE Basic'
  <1>0. CallTyped /\ Control /\ Progress /\ DeviceTyped /\ cmap \subseteq Clusters
    BY DEF Basic, Typed, MemoryTyped
  <1> DEFINE c == Alloc(0)
             n == node[t.o]
             m == Started(n, c)
  <1>1. /\ pc = "truncate" /\ n.size < t.to /\ n.start = FREE
        /\ UNCHANGED <<device, g_initialized, cached, heap, calls, sound>> /\ faults' = faults
    BY DEF GrowFirst, Ok, seen
  <1>2. pc \in Cutting
    BY <1>1 DEF Cutting
  <1>3. /\ g_initialized' /\ IsTrunc(t) /\ t.o \in Objects /\ t.to \in Nat /\ t.left \in Nat
        /\ (t.o = ROOT => t.to > 0) /\ IsNode(n) /\ n.size \in Nat /\ t.o # ROOT
    <2>1. g_initialized /\ IsTrunc(t) /\ t.o \in Objects /\ t.to \in Nat /\ t.left \in Nat
          /\ (t.o = ROOT => t.to > 0) /\ IsNode(n) /\ n.size \in Nat /\ (t.o = ROOT => n.start = 4)
      BY <1>2, CuttingFacts
    <2>2. t.o # ROOT
      BY <1>1, <2>1 DEF FREE
    <2> QED
      BY <1>1, <2>1, <2>2
  <1>4. DeviceTyped' /\ CountTyped'
    BY <1>1, DeviceSame, Counted
  <1>5. CASE Valid(c) /\ cmap' = cmap \union {c} /\ cmap_dirty' = TRUE /\ SetNode(t.o, m)
             /\ t' = [t EXCEPT !.prev = c, !.left = t.to - n.size - 1] /\ pc' = "grow" /\ UNCHANGED <<call, f>>
    <2>1. c \in Clusters /\ c \in Nat /\ c \in Int
      BY <1>0, <1>5, AllocIs
    <2> HIDE DEF c
    <2>2. IsNode(m) /\ m.at = n.at /\ m.start = c /\ m.size = n.size /\ m.contig = TRUE
      BY <1>3, <2>1, NodeStarted
    <2> HIDE DEF m
    <2>3. cmap' \subseteq Clusters /\ cmap_dirty' \in BOOLEAN
      BY <1>0, <1>5, <2>1
    <2>4. MemoryTyped' /\ Tree' /\ node'[t.o] = m
      BY <1>1, <1>2, <1>3, <1>5, <2>2, <2>3, CutReplaced
    <2>5. t.to - n.size - 1 \in Nat
      BY <1>1, <1>3
    <2>6. /\ IsTrunc(t)' /\ t'.o = t.o /\ t'.to = t.to /\ t'.prev = c /\ t'.left = t.to - n.size - 1
          /\ t'.k = t.k /\ t'.kf = t.kf
      BY <1>3, <1>5, <2>1, <2>5, TruncMoves
    <2>7. Progress'
      BY <1>3, <1>5, <2>1, <2>2, <2>4, <2>5, <2>6 DEF Progress
    <2>8. pc' \in Cutting
      BY <1>5 DEF Cutting
    <2>9. CallTyped' /\ Control'
      BY <1>0, <1>1, <1>2, <1>3, <1>5, <2>6, <2>8, CuttingCall
    <2> QED
      BY <1>4, <2>4, <2>7, <2>9, BasicParts
  <1>6. CASE TruncFailed /\ UNCHANGED <<cmap, cmap_dirty, node>>
    <2>1. CallTyped' /\ Control' /\ pc' \in TruncElse
      BY <1>0, <1>1, <1>2, <1>3, <1>6, TruncFailedCall
    <2>2. UNCHANGED memory
      BY <1>1, <1>6 DEF memory
    <2>3. Progress'
      BY <2>1, NotInside DEF TruncElse, Cutting
    <2> QED
      BY <1>4, <2>1, <2>2, <2>3, MemorySame, BasicParts
  <1> QED
    BY <1>5, <1>6 DEF GrowFirst, Started

(* a further one,                                                           *)
LEMMA GrowOneBasic ==
    ASSUME Basic, GrowOne PROVE Basic'
  <1>0. CallTyped /\ Control /\ Progress /\ DeviceTyped /\ DentsTyped /\ cmap \subseteq Clusters
        /\ fat \in [Clusters -> Clusters \union {FREE, END}]
    BY DEF Basic, Typed, MemoryTyped, DeviceTyped
  <1> DEFINE n == node[t.o]
             next == Alloc(t.prev + 1)
             break == next # t.prev + 1 /\ n.contig
             n2 == IF break THEN Broken(n) ELSE n
             f2 == IF break THEN Linked(n.start, t.prev) ELSE fat
  <1>1. /\ pc = "grow" /\ t.left > 0 /\ Valid(next) /\ cmap' = cmap \union {next} /\ cmap_dirty' = TRUE
        /\ UNCHANGED <<vbr, sysents, dmap, data, dent, g_initialized, cached, heap, calls, sound>> /\ (faults' = faults \/ Fails)
    BY DEF GrowOne, Ok, seen
  <1>2. pc \in Cutting
    BY <1>1 DEF Cutting
  <1>3. /\ g_initialized /\ IsTrunc(t) /\ t.o \in Objects /\ t.to \in Nat /\ t.left \in Nat
        /\ (t.o = ROOT => t.to > 0) /\ IsNode(n) /\ n.size \in Nat
        /\ t.o = ROOT => n.start = 4 /\ n.contig = FALSE /\ n.size > 0
    BY <1>2, CuttingFacts
  <1>4. t.prev \in Clusters /\ t.prev \in Nat /\ t.prev + 1 \in Int /\ t.prev <= NumClusters + 1 /\ n.size <= t.to - t.left /\ 1 <= t.to - t.left
    <2>1. t.prev \in Clusters /\ n.size <= t.to - t.left /\ 1 <= t.to - t.left
      BY <1>0, <1>1 DEF Progress
    <2> QED
      BY <2>1, ClusterSet, ExfatAssumption DEF Clusters
  <1>5. next \in Clusters /\ next \in Int
    BY <1>0, <1>1, <1>4, AllocIs
  <1>6. g_initialized'
    BY <1>1, <1>3
  <1>7. CountTyped'
    BY <1>1, Counted
  <1>8. f2 \in [Clusters -> Clusters \union {FREE, END}]
    BY <1>0, <1>4, LinkedTyped
  <1>9. /\ IsNode(n2) /\ n2.at = n.at /\ n2.start = n.start /\ n2.size = n.size
        /\ (t.o = ROOT => n2.contig = FALSE)
    <2>1. CASE break
      <3> HIDE DEF break
      <3>1. n2 = Broken(n)
        BY <2>1
      <3> HIDE DEF n2
      <3> QED
        BY <1>3, <3>1, NodeBroken
    <2>2. CASE ~break
      BY <1>3, <2>2
    <2> QED
      BY <2>1, <2>2
  <1>10. cmap' \subseteq Clusters /\ cmap_dirty' \in BOOLEAN
    BY <1>0, <1>1, <1>5
  <1>11. ASSUME fat' \in [Clusters -> Clusters \union {FREE, END}] PROVE DeviceTyped'
    BY <1>0, <1>1, <1>11 DEF DeviceTyped, DentsTyped
  <1> HIDE DEF next, f2
  <1>12. ASSUME SetNode(t.o, n2)
         PROVE  MemoryTyped' /\ Tree' /\ node'[t.o] = n2
    <2> HIDE DEF n2
    <2> QED
      BY <1>1, <1>2, <1>3, <1>9, <1>10, <1>12, CutReplaced
  <1>13. CASE /\ SetNode(t.o, n2)
              /\ fat' = IF n2.contig THEN f2 ELSE [f2 EXCEPT ![t.prev] = next]
              /\ t' = [t EXCEPT !.prev = next, !.left = t.left - 1]
              /\ UNCHANGED <<pc, call, f>>
    <2> HIDE DEF n2
    <2>1. DeviceTyped'
      BY <1>5, <1>8, <1>11, <1>13, FatSet
    <2>2. t.left - 1 \in Nat
      BY <1>1, <1>3
    <2>3. /\ IsTrunc(t)' /\ t'.o = t.o /\ t'.to = t.to /\ t'.prev = next /\ t'.left = t.left - 1
          /\ t'.k = t.k /\ t'.kf = t.kf
      BY <1>3, <1>5, <1>13, <2>2, TruncMoves
    <2>4. Progress'
      BY <1>1, <1>3, <1>4, <1>5, <1>9, <1>12, <1>13, <2>2, <2>3 DEF Progress
    <2>5. CallTyped' /\ Control'
      BY <1>0, <1>1, <1>2, <1>3, <1>6, <1>13, <2>3, CuttingCall
    <2> QED
      BY <1>7, <1>12, <1>13, <2>1, <2>4, <2>5, BasicParts
  <1>14. ASSUME TruncFailed PROVE CallTyped' /\ Control' /\ Progress'
    <2>1. CallTyped' /\ Control' /\ pc' \in TruncElse
      BY <1>0, <1>1, <1>2, <1>6, <1>14, TruncFailedCall
    <2> QED
      BY <2>1, NotInside DEF TruncElse, Cutting
  <1>15. CASE fat' = f2 /\ SetNode(t.o, n2) /\ TruncFailed
    BY <1>7, <1>8, <1>11, <1>12, <1>14, <1>15, BasicParts
  <1>16. CASE UNCHANGED node /\ TruncFailed /\ \E c \in n.start .. t.prev - 1 : fat' = Linked(n.start, c)
    <2>1. PICK c \in n.start .. t.prev - 1 : fat' = Linked(n.start, c)
      BY <1>16
    <2>2. c \in Int /\ c <= NumClusters + 1
      BY <1>4, ExfatAssumption
    <2>3. DeviceTyped'
      BY <1>0, <1>11, <2>1, <2>2, LinkedTyped
    <2>4. MemoryTyped' /\ Tree'
      BY <1>1, <1>10, <1>16, CutSame
    <2> QED
      BY <1>7, <1>14, <1>16, <2>3, <2>4, BasicParts
  <1> QED
    BY <1>13, <1>15, <1>16 DEF GrowOne, next, f2, Broken

(* the end of the chain,                                                    *)
LEMMA GrowEndBasic ==
    ASSUME Basic, GrowEnd PROVE Basic'
  <1>0. CallTyped /\ Control /\ Progress /\ DeviceTyped /\ DentsTyped
        /\ fat \in [Clusters -> Clusters \union {FREE, END}]
    BY DEF Basic, Typed, DeviceTyped
  <1>1. /\ pc = "grow" /\ t.left = 0 /\ UNCHANGED <<vbr, sysents, dmap, data, dent, memory, calls, sound>> /\ (faults' = faults \/ Fails)
    BY DEF GrowEnd, Ok, seen
  <1>2. pc \in Cutting /\ g_initialized' = g_initialized /\ cached' = cached /\ node' = node
    BY <1>1 DEF Cutting, memory
  <1>3. g_initialized' /\ IsTrunc(t) /\ (t.o = ROOT => t.to > 0) /\ t.to \in Nat
    BY <1>2, CuttingFacts
  <1>4. fat' \in [Clusters -> Clusters \union {FREE, END}]
    BY <1>0, FatSet DEF GrowEnd
  <1>5. DeviceTyped'
    BY <1>0, <1>1, <1>4 DEF DeviceTyped, DentsTyped
  <1>6. MemoryTyped' /\ Tree' /\ CountTyped'
    BY <1>1, MemorySame, Counted
  <1>7. CASE Goto("erasenew")
    <2>1. pc' = "erasenew" /\ UNCHANGED <<call, f>> /\ t' = t
      BY <1>7 DEF Goto
    <2>2. IsTrunc(t)' /\ pc' \in Cutting
      BY <1>3, <2>1 DEF IsTrunc, Cutting
    <2>3. CallTyped' /\ Control'
      BY <1>0, <1>2, <1>3, <2>1, <2>2, CuttingCall
    <2>4. Progress'
      BY <1>0, <1>1, <1>2, <1>3, <2>1 DEF Progress
    <2> QED
      BY <1>5, <1>6, <2>3, <2>4, BasicParts
  <1>8. CASE TruncFailed
    <2>1. CallTyped' /\ Control' /\ pc' \in TruncElse
      BY <1>0, <1>2, <1>3, <1>8, TruncFailedCall
    <2> QED
      BY <1>5, <1>6, <2>1, NotInside, BasicParts DEF TruncElse, Cutting
  <1> QED
    BY <1>7, <1>8 DEF GrowEnd

(* zeroing the new clusters,                                                *)
LEMMA EraseNewBasic ==
    ASSUME Basic, EraseNew PROVE Basic'
  <1>0. CallTyped /\ Control /\ Progress /\ DeviceTyped /\ DentsTyped /\ MemoryTyped /\ cmap \subseteq Clusters
        /\ cmap_dirty \in BOOLEAN
    BY DEF Basic, Typed, DeviceTyped, MemoryTyped
  <1> DEFINE n == node[t.o]
             m == Sized(n, t.to)
  <1>1. /\ pc = "erasenew" /\ UNCHANGED <<vbr, sysents, fat, dmap, g_initialized, cmap, cmap_dirty, cached,
                   heap, calls, sound>> /\ (faults' = faults \/ Fails)
        /\ \E S : dent' = Overwritten(S)
        /\ \/ SetNode(t.o, m) /\ pc' = t.k /\ t' = NoT /\ UNCHANGED <<call, f>>
           \/ UNCHANGED node /\ (TruncFailed \/ Hung)
    <2>1. \E S : dent' = Overwritten(S)
      BY DEF EraseNew
    <2> QED
      BY <2>1 DEF EraseNew, Ok, seen, Sized
  <1>2. pc \in Cutting
    BY <1>1 DEF Cutting
  <1>3. /\ g_initialized /\ IsNode(n) /\ (t.o = ROOT => t.to > 0) /\ t.to \in Nat
        /\ (t.o = ROOT => n.start = 4 /\ n.contig = FALSE)
    BY <1>2, CuttingFacts
  <1>4. g_initialized' /\ cmap' \subseteq Clusters /\ cmap_dirty' \in BOOLEAN
    BY <1>0, <1>1, <1>3
  <1>5. DeviceTyped'
    <2>1. DentsTyped'
      BY <1>0, <1>1, OverwrittenDents
    <2> QED
      BY <1>0, <1>1, <2>1 DEF DeviceTyped
  <1>6. CountTyped'
    BY <1>1, Counted
  <1>7. CASE SetNode(t.o, m) /\ pc' = t.k /\ t' = NoT /\ UNCHANGED <<call, f>>
    <2>1. IsNode(m) /\ m.at = n.at /\ m.start = n.start /\ m.size = t.to /\ m.contig = n.contig
      BY <1>3, NodeSized
    <2> HIDE DEF m
    <2>2. MemoryTyped' /\ Tree'
      BY <1>1, <1>2, <1>3, <1>4, <1>7, <2>1, CutReplaced
    <2>3. CallTyped' /\ Control' /\ pc' \in TruncThen
      BY <1>0, <1>1, <1>2, <1>4, <1>7, TruncDoneCall
    <2> QED
      BY <1>5, <1>6, <2>2, <2>3, NotInside, BasicParts DEF TruncThen, Cutting
  <1>8. CASE UNCHANGED node /\ (TruncFailed \/ Hung)
    <2>1. MemoryTyped' /\ Tree'
      BY <1>1, <1>4, <1>8, CutSame
    <2>2. CallTyped' /\ Control' /\ (pc' \in TruncElse \/ pc' = "bug")
      BY <1>0, <1>1, <1>2, <1>4, <1>8, TruncFailedCall, HungCall
    <2> QED
      BY <1>5, <1>6, <2>1, <2>2, NotInside, BasicParts DEF TruncElse, Cutting
  <1> QED
    BY <1>1, <1>7, <1>8

(* cutting the chain,                                                       *)
LEMMA CropBasic ==
    ASSUME Basic, Crop PROVE Basic'
  <1>0. CallTyped /\ Control /\ Progress /\ DeviceTyped /\ DentsTyped /\ MemoryTyped /\ cmap \subseteq Clusters
        /\ cmap_dirty \in BOOLEAN /\ fat \in [Clusters -> Clusters \union {FREE, END}] /\ CountTyped
    BY DEF Basic, Typed, DeviceTyped, MemoryTyped
  <1> DEFINE n == node[t.o]
             m == Cropped(n, t.to)
             last == IF t.to = 0 THEN FREE ELSE Nth(n, t.to - 1)
  <1>1. /\ pc = "crop" /\ UNCHANGED <<vbr, sysents, dmap, data, dent, g_initialized, cmap, cmap_dirty,
                   cached, heap, calls, sound>> /\ (faults' = faults \/ (faults < MaxFaults /\ faults' = faults + 1))
        /\ \/ /\ SetNode(t.o, m)
              /\ fat' = IF t.to = 0 \/ n.contig THEN fat ELSE [fat EXCEPT ![last] = END]
              /\ t' = [t EXCEPT !.prev = Nth(n, t.to)] /\ pc' = "free" /\ UNCHANGED <<call, f>>
           \/ UNCHANGED <<fat, node>> /\ TruncFailed
    BY DEF Crop, Ok, seen
  <1>2. pc \in Cutting
    BY <1>1 DEF Cutting
  <1>3. /\ g_initialized /\ IsNode(n) /\ (t.o = ROOT => t.to > 0) /\ t.to \in Nat /\ n.size \in Nat /\ IsTrunc(t) /\ t.left \in Nat
        /\ (t.o = ROOT => n.start = 4 /\ n.contig = FALSE /\ n.size > 0)
    BY <1>2, CuttingFacts
  <1>4. g_initialized' /\ cmap' \subseteq Clusters /\ cmap_dirty' \in BOOLEAN
    BY <1>0, <1>1, <1>3
  <1>5. DeviceTyped'
    <2> HIDE DEF last, m
    <2>1. fat' \in [Clusters -> Clusters \union {FREE, END}]
      BY <1>0, <1>1, FatSet
    <2> QED
      BY <1>0, <1>1, <2>1 DEF DeviceTyped, DentsTyped
  <1>6. CountTyped'
    <2>1. faults' = faults \/ Fails
      BY <1>1 DEF Fails
    <2> QED
      BY <1>1, <2>1, Counted
  <1>7. CASE SetNode(t.o, m) /\ t' = [t EXCEPT !.prev = Nth(n, t.to)] /\ pc' = "free" /\ UNCHANGED <<call, f>>
    <2>m. m = Cropped(n, t.to)
      OBVIOUS
    <2> HIDE DEF m
    <2>1. IsNode(m) /\ m.at = n.at /\ m.size = n.size /\ m.contig = n.contig /\ (t.to # 0 => m.start = n.start)
      BY <1>3, <2>m, NodeCropped
    <2>0. t.o = ROOT => m.start = 4 /\ m.contig = FALSE /\ m.size > 0
      BY <1>3, <2>1
    <2>2. MemoryTyped' /\ Tree' /\ node'[t.o] = m
      BY <1>1, <1>2, <1>4, <1>7, <2>0, <2>1, CutReplaced
    <2>3. Nth(n, t.to) \in Int
      BY <1>0, <1>3, NthInt
    <2>4. /\ IsTrunc(t)' /\ t'.o = t.o /\ t'.to = t.to /\ t'.undo = t.undo /\ t'.k = t.k /\ t'.kf = t.kf
      BY <1>3, <1>7, <2>3, TruncMovesPrev
    <2>5. pc' \in Cutting
      BY <1>7 DEF Cutting
    <2>6. CallTyped' /\ Control'
      BY <1>0, <1>1, <1>2, <1>3, <1>4, <1>7, <2>4, <2>5, CuttingCall
    <2>7. Progress'
      BY <1>0, <1>1, <1>3, <1>7, <2>1, <2>2, <2>4 DEF Progress
    <2> QED
      BY <1>5, <1>6, <2>2, <2>6, <2>7, BasicParts
  <1>8. CASE UNCHANGED node /\ TruncFailed
    <2>1. MemoryTyped' /\ Tree'
      BY <1>1, <1>4, <1>8, CutSame
    <2>2. CallTyped' /\ Control' /\ pc' \in TruncElse
      BY <1>0, <1>1, <1>2, <1>4, <1>8, TruncFailedCall
    <2> QED
      BY <1>5, <1>6, <2>1, <2>2, NotInside, BasicParts DEF TruncElse, Cutting
  <1> QED
    BY <1>1, <1>7, <1>8

(* freeing a cluster,                                                       *)
LEMMA FreeOneBasic ==
    ASSUME Basic, FreeOne PROVE Basic'
  <1>0. CallTyped /\ Control /\ Progress /\ DeviceTyped /\ DentsTyped /\ MemoryTyped /\ cmap \subseteq Clusters
        /\ cmap_dirty \in BOOLEAN /\ fat \in [Clusters -> Clusters \union {FREE, END}] /\ CountTyped
    BY DEF Basic, Typed, DeviceTyped, MemoryTyped
  <1> DEFINE next == IF node[t.o].contig THEN t.prev + 1 ELSE fat[t.prev]
  <1>1. /\ pc = "free" /\ t.left > 0
        /\ UNCHANGED <<vbr, sysents, dmap, data, dent, g_initialized, node, cached, heap, calls>> /\ (faults' = faults \/ Fails)
        /\ Freed \/ UNCHANGED <<fat, cmap, cmap_dirty>>
        /\ \/ Valid(t.prev) /\ t' = [t EXCEPT !.prev = next, !.left = t.left - 1] /\ UNCHANGED <<pc, call, f, sound>>
           \/ TruncFailed /\ sound' = (sound /\ node[t.o].start # FREE)
    BY DEF FreeOne, Ok
  <1>2. pc \in Cutting
    BY <1>1 DEF Cutting
  <1>3. /\ g_initialized /\ (t.o = ROOT => t.to > 0) /\ t.to \in Nat /\ IsTrunc(t) /\ t.left \in Nat /\ t.prev \in Int
    BY <1>2, CuttingFacts
  <1>4. /\ g_initialized' /\ cmap' \subseteq Clusters /\ cmap_dirty' \in BOOLEAN
        /\ fat' \in [Clusters -> Clusters \union {FREE, END}]
    <2>1. g_initialized'
      BY <1>1, <1>3
    <2>2. cmap' \subseteq Clusters
      BY <1>0, <1>1 DEF Freed
    <2>3. cmap_dirty' \in BOOLEAN
      BY <1>0, <1>1, Zenon DEF Freed
    <2>4. fat' \in [Clusters -> Clusters \union {FREE, END}]
      BY <1>0, <1>1, FatSet DEF Freed
    <2> QED
      BY <2>1, <2>2, <2>3, <2>4
  <1>5. DeviceTyped'
    BY <1>0, <1>1, <1>4 DEF DeviceTyped, DentsTyped
  <1>6. CountTyped'
    <2>1. sound' \in BOOLEAN
      BY <1>0, <1>1, Zenon DEF CountTyped
    <2>2. calls' \in 0 .. MaxCalls /\ faults' \in 0 .. MaxFaults
      BY <1>0, <1>1, ExfatAssumption DEF CountTyped, Fails
    <2> QED
      BY <2>1, <2>2 DEF CountTyped
  <1>7. MemoryTyped' /\ Tree'
    BY <1>1, <1>4, CutSame
  <1>8. CASE Valid(t.prev) /\ t' = [t EXCEPT !.prev = next, !.left = t.left - 1] /\ UNCHANGED <<pc, call, f>>
    <2>1. next \in Int /\ t.left - 1 \in Nat
      <3>1. fat[t.prev] \in Clusters \union {FREE, END}
        BY <1>0, <1>8 DEF Valid
      <3>2. Clusters \union {FREE, END} \subseteq Int
        BY ClusterSet DEF FREE, END
      <3> QED
        BY <1>1, <1>3, <3>1, <3>2
    <2> HIDE DEF next
    <2>2. /\ IsTrunc(t)' /\ t'.o = t.o /\ t'.to = t.to /\ t'.undo = t.undo /\ t'.k = t.k /\ t'.kf = t.kf
      BY <1>3, <1>8, <2>1, TruncMoves
    <2>3. pc' = pc
      BY <1>8
    <2>4. CallTyped' /\ Control'
      BY <1>0, <1>1, <1>2, <1>3, <1>4, <1>8, <2>2, <2>3, CuttingCall
    <2>5. Progress'
      BY <1>0, <1>1, <2>2, <2>3 DEF Progress
    <2> QED
      BY <1>5, <1>6, <1>7, <2>4, <2>5, BasicParts
  <1>9. CASE TruncFailed
    <2>2. CallTyped' /\ Control' /\ pc' \in TruncElse
      BY <1>0, <1>1, <1>2, <1>4, <1>9, TruncFailedCall
    <2> QED
      BY <1>5, <1>6, <1>7, <2>2, NotInside, BasicParts DEF TruncElse, Cutting
  <1> QED
    BY <1>1, <1>8, <1>9

(* and the new size.                                                        *)
LEMMA FreeEndBasic ==
    ASSUME Basic, FreeEnd PROVE Basic'
  <1>0. CallTyped /\ Control /\ Progress /\ DeviceTyped /\ MemoryTyped /\ cmap \subseteq Clusters
        /\ cmap_dirty \in BOOLEAN
    BY DEF Basic, Typed, DeviceTyped, MemoryTyped
  <1> DEFINE n == node[t.o]
             m == Sized(n, t.to)
  <1>1. /\ pc = "free" /\ UNCHANGED <<device, g_initialized, cmap, cmap_dirty, cached, heap, calls, sound>> /\ faults' = faults
        /\ SetNode(t.o, IF t.undo THEN n ELSE m) /\ pc' = (IF t.undo THEN t.kf ELSE t.k) /\ t' = NoT /\ UNCHANGED <<call, f>>
    BY DEF FreeEnd, Ok, seen, Sized
  <1>2. pc \in Cutting
    BY <1>1 DEF Cutting
  <1>3. /\ g_initialized /\ IsNode(n) /\ (t.o = ROOT => t.to > 0) /\ t.to \in Nat
        /\ (t.o = ROOT => n.start = 4 /\ n.contig = FALSE /\ n.size > 0)
    BY <1>2, CuttingFacts
  <1>4. g_initialized' /\ cmap' \subseteq Clusters /\ cmap_dirty' \in BOOLEAN
    BY <1>0, <1>1, <1>3
  <1>5. DeviceTyped' /\ CountTyped'
    BY <1>1, DeviceSame, Counted
  <1>6. CASE t.undo
    <2>1. SetNode(t.o, n) /\ TruncFailed
      BY <1>1, <1>6 DEF TruncFailed
    <2>2. MemoryTyped' /\ Tree'
      BY <1>1, <1>2, <1>3, <1>4, <2>1, CutReplaced
    <2>3. CallTyped' /\ Control' /\ pc' \in TruncElse
      BY <1>0, <1>1, <1>2, <1>4, <2>1, TruncFailedCall
    <2> QED
      BY <1>5, <2>2, <2>3, NotInside, BasicParts DEF TruncElse, Cutting
  <1>7. CASE ~t.undo
    <2>0. SetNode(t.o, m) /\ pc' = t.k
      BY <1>1, <1>7
    <2>1. IsNode(m) /\ m.at = n.at /\ m.start = n.start /\ m.size = t.to /\ m.contig = n.contig
      BY <1>3, NodeSized
    <2> HIDE DEF m
    <2>2. MemoryTyped' /\ Tree'
      BY <1>1, <1>2, <1>3, <1>4, <2>0, <2>1, CutReplaced
    <2>3. CallTyped' /\ Control' /\ pc' \in TruncThen
      BY <1>0, <1>1, <1>2, <1>4, <2>0, TruncDoneCall
    <2> QED
      BY <1>5, <2>2, <2>3, NotInside, BasicParts DEF TruncThen, Cutting
  <1> QED
    BY <1>6, <1>7

(* A node becomes dirty or clean and stays the same otherwise.              *)
LEMMA NodeTouched ==
    ASSUME NEW n, IsNode(n), NEW m, m = [n EXCEPT !.dirty = TRUE] \/ m = [n EXCEPT !.dirty = FALSE]
    PROVE  /\ IsNode(m) /\ m.at = n.at /\ m.start = n.start /\ m.size = n.size /\ m.contig = n.contig
  <1>1. CASE m = [n EXCEPT !.dirty = TRUE]
    <2>1. m = [at |-> n.at, start |-> n.start, size |-> n.size, contig |-> n.contig, dirty |-> TRUE]
      BY <1>1 DEF IsNode
    <2> QED
      BY <2>1 DEF IsNode
  <1>2. CASE m = [n EXCEPT !.dirty = FALSE]
    <2>1. m = [at |-> n.at, start |-> n.start, size |-> n.size, contig |-> n.contig, dirty |-> FALSE]
      BY <1>2 DEF IsNode
    <2> QED
      BY <2>1 DEF IsNode
  <1> QED
    BY <1>1, <1>2

(* create and tree_detach: the name's own node, and the dirty bit of its     *)
(* directory.                                                               *)
LEMMA WorkedAs ==
    ASSUME Basic, pc \in InDir, NEW n, IsNode(n), NEW b \in BOOLEAN,
           node' = [node EXCEPT ![obj] = n, ![Under[obj]].dirty = b],
           UNCHANGED <<g_initialized, cmap, cmap_dirty, cached, heap>>
    PROVE  /\ MemoryTyped' /\ Tree' /\ node'[obj] = n
           /\ LET d == Under[obj] IN
                /\ d # obj /\ node'[d].at = node[d].at /\ node'[d].start = node[d].start
                /\ node'[d].size = node[d].size /\ node'[d].contig = node[d].contig
           /\ \A p \in Objects : p # obj /\ p # Under[obj] => node'[p] = node[p]
  <1> DEFINE d == Under[obj]
             m == [node[d] EXCEPT !.dirty = b]
  <1>1. /\ g_initialized /\ obj \in Objs /\ obj \in Objects /\ obj # ROOT /\ d \in Objects /\ d \in cached /\ obj \notin cached
        /\ (d = ROOT \/ Under[d] \in cached) /\ IsNode(node[d])
    BY BusyFacts DEF Placed
  <1>2. d # obj
    BY <1>1
  <1>3. node = [o \in Objects |-> node[o]] /\ \A o \in Objects : IsNode(node[o])
    BY DEF Basic, Typed, MemoryTyped, NodesTyped
  <1>4. IsNode(m) /\ m.at = node[d].at /\ m.start = node[d].start /\ m.size = node[d].size /\ m.contig = node[d].contig
    <2>0. b = TRUE \/ b = FALSE
      BY Zenon
    <2>1. m = [node[d] EXCEPT !.dirty = TRUE] \/ m = [node[d] EXCEPT !.dirty = FALSE]
      BY <2>0, Zenon
    <2> HIDE DEF m
    <2> QED
      BY <1>1, <2>1, NodeTouched
  <1>5. node' = [o \in Objects |-> IF o = d THEN m ELSE IF o = obj THEN n ELSE node[o]]
    BY <1>1, <1>2, <1>3
  <1> HIDE DEF m
  <1>6. /\ node'[obj] = n /\ node'[d] = m
        /\ \A p \in Objects : p # obj /\ p # d => node'[p] = node[p]
    BY <1>1, <1>2, <1>5
  <1>7. node' = [o \in Objects |-> node'[o]] /\ \A o \in Objects : IsNode(node'[o])
    BY <1>3, <1>4, <1>5
  <1>8. MemoryTyped'
    <2>1. NodesTyped'
      BY <1>7 DEF NodesTyped
    <2> QED
      BY <2>1 DEF Basic, Typed, MemoryTyped
  <1>9. Tree'
    <2>0. Tree /\ cached' = cached /\ g_initialized' = g_initialized
      BY DEF Basic
    <2>1. IF g_initialized' THEN ROOT \in cached' ELSE cached' = {}
      BY <2>0 DEF Tree
    <2>2. \A o \in Objs : Under[o] \notin cached' => node'[o] = NoNode
      BY <1>1, <1>6, <2>0, ObjectSet DEF Tree
    <2>3. \A o \in cached' : Present(o)'
      <3> TAKE o \in cached'
      <3>1. o \in cached /\ o \in Objects /\ o # obj /\ Present(o)
        BY <1>1, <2>0, ObjectSet DEF Basic, Typed, MemoryTyped, Tree, Objects
      <3> QED
        BY <1>4, <1>6, <3>1 DEF Present
    <2>4. g_initialized' => node'[ROOT].start = 4 /\ node'[ROOT].contig = FALSE /\ node'[ROOT].size > 0
      BY <1>1, <1>4, <1>6, <2>0, ObjectSet DEF Tree
    <2> QED
      BY <2>1, <2>2, <2>3, <2>4 DEF Tree
  <1> QED
    BY <1>2, <1>4, <1>6, <1>8, <1>9

LEMMA WorkedIn ==
    ASSUME Basic, pc \in InDir, NEW n, IsNode(n), node' = [node EXCEPT ![obj] = n, ![Under[obj]].dirty = TRUE],
           UNCHANGED <<g_initialized, cmap, cmap_dirty, cached, heap>>
    PROVE  /\ MemoryTyped' /\ Tree' /\ node'[obj] = n
           /\ LET d == Under[obj] IN
                /\ d # obj /\ node'[d].at = node[d].at /\ node'[d].start = node[d].start
                /\ node'[d].size = node[d].size /\ node'[d].contig = node[d].contig
           /\ \A p \in Objects : p # obj /\ p # Under[obj] => node'[p] = node[p]
  <1>1. PICK b \in BOOLEAN : b = TRUE
    BY Zenon
  <1>2. node' = [node EXCEPT ![obj] = n, ![Under[obj]].dirty = b]
    BY <1>1, Zenon
  <1> QED
    BY <1>2, WorkedAs

(* commit_entry keeps Basic,                                                *)
LEMMA CommitEntryBasic ==
    ASSUME Basic, CommitEntry PROVE Basic'
  <1> DEFINE d == Under[obj]
             at == SlotIn(d)
             e == EmptyEntry("ok", at)
  <1>0. CallTyped /\ Control /\ DeviceTyped /\ DentsTyped
    BY DEF Basic, Typed, DeviceTyped
  <1>1. /\ pc = "commit" /\ UNCHANGED <<vbr, sysents, fat, dmap, data, g_initialized, cmap, cmap_dirty, cached, heap, calls, sound>>
        /\ (faults' = faults \/ Fails)
        /\ \/ dent' = InSlot(at, obj, e) /\ node' = [node EXCEPT ![obj] = NodeOf(e), ![d].dirty = TRUE] /\ Flushing(d, "created", "fail")
           \/ dent' = InSlot(at, obj, e) /\ UNCHANGED node /\ Goto("fail")
           \/ dent' \in {dent, InSlot(at, obj, Torn(at))} /\ UNCHANGED node /\ Goto("fail")
    BY DEF CommitEntry, Ok, NoMemory, seen
  <1>2. pc \in InDir
    BY <1>1 DEF InDir
  <1>3. /\ g_initialized /\ Placed /\ obj \in Objs /\ d \in Objects /\ d \in cached /\ (d = ROOT \/ Under[d] \in cached)
    BY <1>2, BusyFacts
  <1>4. IsDent(e) /\ IsDent(Torn(at))
    BY EmptyEntries DEF Torn
  <1> HIDE DEF at, e
  <1>5. DentsTyped'
    <2>1. CASE dent' = dent
      BY <1>0, <2>1 DEF DentsTyped
    <2> QED
      BY <1>0, <1>1, <1>3, <1>4, <2>1, InSlotDents
  <1>6. DeviceTyped' /\ CountTyped'
    BY <1>0, <1>1, <1>5, Counted DEF DeviceTyped
  <1>7. ASSUME UNCHANGED node, Goto("fail") PROVE Basic'
    <2>1. MemoryTyped' /\ Tree'
      BY <1>1, <1>7, MemorySame DEF memory
    <2>2. Placed' /\ g_initialized'
      BY <1>1, <1>3, <1>7 DEF Placed, Goto, call
    <2>3. CallTyped' /\ Control'
      BY <1>0, <1>7, <2>2, GotoCall DEF Labels, InDir, Cutting, FlushAt, Formatting, Leaving
    <2>4. Progress'
      BY <1>7, NotInside DEF Goto, Cutting
    <2> QED
      BY <1>6, <2>1, <2>3, <2>4, BasicParts
  <1>8. ASSUME node' = [node EXCEPT ![obj] = NodeOf(e), ![d].dirty = TRUE], Flushing(d, "created", "fail") PROVE Basic'
    <2>1. IsNode(NodeOf(e))
      BY <1>4, NodeOfDent
    <2>2. MemoryTyped' /\ Tree'
      BY <1>1, <1>2, <1>8, <2>1, WorkedIn
    <2>3. Placed' /\ g_initialized' /\ (d = ROOT \/ Under[d] \in cached')
      BY <1>1, <1>3, <1>8 DEF Placed, Flushing, call
    <2>4. CallTyped' /\ Control'
      BY <1>0, <1>3, <1>8, <2>3, FlushingCall DEF FlushThen, FlushElse
    <2>5. Progress'
      BY <1>8, NotInside DEF Flushing, Cutting
    <2> QED
      BY <1>6, <2>2, <2>4, <2>5, BasicParts
  <1> QED
    BY <1>1, <1>7, <1>8

(* as do exfat_flush_node's entry,                                          *)
LEMMA FlushEntryBasic ==
    ASSUME Basic, FlushEntry PROVE Basic'
  <1> DEFINE n == node[f.o]
             m == [n EXCEPT !.dirty = FALSE]
  <1>0. CallTyped /\ Control /\ DeviceTyped /\ DentsTyped /\ MemoryTyped /\ NodesTyped /\ Tree
    BY DEF Basic, Typed, DeviceTyped, MemoryTyped
  <1>1. /\ pc = "flush" /\ f.o # ROOT
        /\ UNCHANGED <<vbr, sysents, fat, dmap, data, g_initialized, cmap, cmap_dirty, cached, heap, calls, sound>>
        /\ (faults' = faults \/ Fails)
        /\ \/ dent' = [dent EXCEPT ![f.o] = EntryFor(n)] /\ SetNode(f.o, m) /\ Goto("bitmap")
           \/ UNCHANGED node /\ FlushDone(f.kf) /\ dent' \in {dent, [dent EXCEPT ![f.o] = Torn(n.at)]}
    BY DEF FlushEntry, Ok, seen
  <1>2. /\ f.o \in Objs /\ f.o \in Objects /\ Under[f.o] \in cached /\ g_initialized /\ IsNode(n) /\ pc \in FlushAt
    BY <1>0, <1>1, ObjectSet DEF CallTyped, IsFlush, Control, FlushAt, NodesTyped
  <1>3. IsDent(EntryFor(n)) /\ IsDent(Torn(n.at))
    BY <1>2, DentOfNode, EmptyEntries DEF Torn
  <1>4. DentsTyped'
    <2>1. CASE dent' = dent
      BY <1>0, <2>1 DEF DentsTyped
    <2> QED
      BY <1>0, <1>1, <1>2, <1>3, <2>1, DentReplaced
  <1>5. DeviceTyped' /\ CountTyped'
    BY <1>0, <1>1, <1>4, Counted DEF DeviceTyped
  <1>6. ASSUME SetNode(f.o, m), Goto("bitmap") PROVE Basic'
    <2>1. IsNode(m) /\ m.at = n.at
      <3>1. m = [n EXCEPT !.dirty = FALSE]
        OBVIOUS
      <3> HIDE DEF m
      <3> QED
        BY <1>2, <3>1, NodeTouched
    <2> HIDE DEF m
    <2>2. NodesTyped' /\ node'[f.o] = m /\ \A p \in Objects : p # f.o => node'[p] = node[p]
      BY <1>0, <1>2, <1>6, <2>1, NodeReplaced
    <2>3. MemoryTyped'
      BY <1>0, <1>1, <2>2 DEF MemoryTyped
    <2>4. Tree'
      BY <1>0, <1>1, <1>2, <2>1, <2>2, TreeReplaced DEF MemoryTyped
    <2>5. pc' = "bitmap" /\ UNCHANGED call /\ obj' = obj /\ t' = t /\ f' = f
      BY <1>6 DEF Goto, call
    <2>6. CallTyped'
      BY <1>0, <2>5 DEF CallTyped, call, IsTrunc, IsFlush, Labels, FlushAt
    <2>7. Control'
      <3>1. Busy' => Placed'
        BY <1>0, <1>1, <2>5 DEF Control, Busy, Placed, FlushAt, InDir, Cutting
      <3> QED
        BY <1>0, <1>1, <2>5, <3>1 DEF Control, Formatting, InDir, Leaving, FlushAt, Cutting
    <2>8. Progress'
      BY <2>5, NotInside DEF Cutting
    <2> QED
      BY <1>5, <2>3, <2>4, <2>6, <2>7, <2>8, BasicParts
  <1>7. ASSUME UNCHANGED node, FlushDone(f.kf) PROVE Basic'
    <2>1. MemoryTyped' /\ Tree'
      BY <1>1, <1>7, MemorySame DEF memory
    <2>2. CallTyped' /\ Control' /\ pc' \in FlushThen \union FlushElse
      BY <1>0, <1>1, <1>2, <1>7, FlushDoneCall
    <2>3. Progress'
      BY <2>2, NotInside DEF FlushThen, FlushElse, Cutting
    <2> QED
      BY <1>5, <2>1, <2>2, <2>3, BasicParts
  <1> QED
    BY <1>1, <1>6, <1>7

(* the data,                                                                *)
LEMMA WriteDataBasic ==
    ASSUME Basic, WriteData PROVE Basic'
  <1> DEFINE n == node[obj]
             m == [n EXCEPT !.dirty = n.dirty \/ size > 0]
  <1>0. CallTyped /\ Control /\ DeviceTyped /\ DentsTyped /\ MemoryTyped /\ NodesTyped /\ Tree /\ CountTyped
    BY DEF Basic, Typed, DeviceTyped, MemoryTyped
  <1>1. /\ pc = "data"
        /\ UNCHANGED <<vbr, sysents, fat, dmap, g_initialized, cmap, cmap_dirty, cached, heap, op, obj, size, t, calls, sound>>
        /\ (faults' = faults \/ (faults < MaxFaults /\ faults' = faults + 1))
        /\ \E S : dent' = Overwritten(S)
        /\ SetNode(obj, m) \/ UNCHANGED node
        /\ written' \in BOOLEAN
        /\ pc' = "flush" /\ f' = [o |-> obj, k |-> "done", kf |-> "done"]
    <2>1. \E S : dent' = Overwritten(S)
      BY DEF WriteData
    <2>2. written' = TRUE \/ written' = FALSE
      BY DEF WriteData
    <2>3. written' \in BOOLEAN
      BY <2>2, Zenon
    <2> QED
      BY <2>1, <2>3 DEF WriteData, Ok, seen
  <1>2. pc \in InDir
    BY <1>1 DEF InDir
  <1>3. /\ g_initialized /\ Placed /\ obj \in Objs /\ obj \in Objects /\ obj # ROOT /\ Under[obj] \in cached /\ IsNode(n)
        /\ IsNode(node[obj])
    BY <1>2, BusyFacts
  <1>4. DentsTyped'
    BY <1>0, <1>1, OverwrittenDents
  <1>5. DeviceTyped'
    BY <1>0, <1>1, <1>4 DEF DeviceTyped
  <1>6. CountTyped'
    BY <1>1, Counted DEF Fails
  <1>7. MemoryTyped' /\ Tree'
    <2>1. CASE UNCHANGED node
      BY <1>1, <2>1, MemorySame DEF memory
    <2>2. CASE SetNode(obj, m)
      <3>0. (n.dirty \/ size > 0) = TRUE \/ (n.dirty \/ size > 0) = FALSE
        BY Zenon
      <3>x. m = [n EXCEPT !.dirty = TRUE] \/ m = [n EXCEPT !.dirty = FALSE]
        BY <3>0, Zenon
      <3>1. IsNode(m) /\ m.at = n.at
        <4> HIDE DEF m
        <4> QED
          BY <1>3, <3>x, NodeTouched
      <3> HIDE DEF m
      <3>2. NodesTyped' /\ node'[obj] = m /\ \A p \in Objects : p # obj => node'[p] = node[p]
        BY <1>0, <1>3, <2>2, <3>1, NodeReplaced
      <3>3. MemoryTyped'
        BY <1>0, <1>1, <3>2 DEF MemoryTyped
      <3>4. Tree'
        BY <1>0, <1>1, <1>3, <3>1, <3>2, TreeReplaced DEF MemoryTyped
      <3> QED
        BY <3>3, <3>4
    <2> QED
      BY <1>1, <2>1, <2>2
  <1>8. CallTyped'
    <2>1. IsTrunc(t)'
      BY <1>0, <1>1 DEF CallTyped, IsTrunc
    <2>2. f'.o = obj /\ f'.k = "done" /\ f'.kf = "done" /\ IsFlush(f)'
      BY <1>1, <1>3 DEF IsFlush
    <2> QED
      BY <1>0, <1>1, <2>1, <2>2 DEF CallTyped, Labels, FlushAt
  <1>9. Control'
    <2>1. f'.o = obj /\ f'.k = "done" /\ f'.kf = "done" /\ obj' = obj /\ g_initialized' /\ cached' = cached
      BY <1>1, <1>3
    <2>2. Placed'
      BY <1>1, <1>3 DEF Placed
    <2> QED
      BY <1>1, <1>3, <2>1, <2>2 DEF Control, Busy, Formatting, InDir, Leaving, FlushAt, Cutting, FlushThen, FlushElse
  <1>10. Progress'
    BY <1>1, NotInside DEF Cutting
  <1> QED
    BY <1>5, <1>6, <1>7, <1>8, <1>9, <1>10, BasicParts

(* the deletion of an entry,                                                *)
LEMMA DeleteEntryBasic ==
    ASSUME Basic, DeleteEntry PROVE Basic'
  <1> DEFINE d == Under[obj]
             at == node[obj].at
  <1>0. CallTyped /\ Control /\ DeviceTyped /\ DentsTyped
    BY DEF Basic, Typed, DeviceTyped
  <1>1. /\ pc = "delete" /\ UNCHANGED <<vbr, sysents, fat, dmap, data, memory, calls, sound>>
        /\ (faults' = faults \/ Fails)
        /\ \/ dent' = [dent EXCEPT ![obj] = NoDent] /\ Flushing(d, "detach", "fail")
           \/ dent' \in {dent, [dent EXCEPT ![obj] = Torn(at)]} /\ Goto("fail")
    BY DEF DeleteEntry, Ok, seen
  <1>2. pc \in InDir /\ g_initialized' = g_initialized /\ cached' = cached
    BY <1>1 DEF InDir, memory
  <1>3. /\ g_initialized /\ Placed /\ obj \in Objs /\ d \in Objects /\ d \in cached /\ (d = ROOT \/ Under[d] \in cached)
    BY <1>2, BusyFacts
  <1>4. IsDent(NoDent) /\ IsDent(Torn(at))
    BY EmptyEntries, Blank DEF Torn
  <1> HIDE DEF at
  <1>5. DentsTyped'
    <2>1. CASE dent' = dent
      BY <1>0, <2>1 DEF DentsTyped
    <2> QED
      BY <1>0, <1>1, <1>3, <1>4, <2>1, DentReplaced
  <1>6. DeviceTyped' /\ CountTyped'
    BY <1>0, <1>1, <1>5, Counted DEF DeviceTyped
  <1>7. MemoryTyped' /\ Tree'
    BY <1>1, MemorySame
  <1>8. CASE Goto("fail")
    <2>2. Placed' /\ g_initialized'
      BY <1>2, <1>3, <1>8 DEF Placed, Goto, call
    <2>3. CallTyped' /\ Control'
      BY <1>0, <1>8, <2>2, GotoCall DEF Labels, InDir, Cutting, FlushAt, Formatting, Leaving
    <2>4. Progress'
      BY <1>8, NotInside DEF Goto, Cutting
    <2> QED
      BY <1>6, <1>7, <2>3, <2>4, BasicParts
  <1>9. CASE Flushing(d, "detach", "fail")
    <2>3. Placed' /\ g_initialized' /\ (d = ROOT \/ Under[d] \in cached')
      BY <1>2, <1>3, <1>9 DEF Placed, Flushing, call
    <2>4. CallTyped' /\ Control'
      BY <1>0, <1>3, <1>9, <2>3, FlushingCall DEF FlushThen, FlushElse
    <2>5. Progress'
      BY <1>9, NotInside DEF Flushing, Cutting
    <2> QED
      BY <1>6, <1>7, <2>4, <2>5, BasicParts
  <1> QED
    BY <1>1, <1>8, <1>9

(* What tree_detach and shrink_directory make of the two nodes: a parent    *)
(* that is not cut is dirty.                                                *)
LEMMA DetachNode ==
    ASSUME Basic, Detach
    PROVE  \E b \in BOOLEAN :
              /\ node' = [node EXCEPT ![obj] = NoNode, ![Under[obj]].dirty = b]
              /\ b = TRUE \/ (b = node[Under[obj]].dirty /\ pc' = "truncate")
  <1> DEFINE d == Under[obj]
  <1>1. pc \in InDir
    BY DEF Detach, InDir
  <1>2. obj \in Objects /\ d \in Objects /\ d # obj /\ IsNode(node[d])
    BY <1>1, BusyFacts DEF Placed
  <1>3. node = [o \in Objects |-> node[o]]
    BY DEF Basic, Typed, MemoryTyped, NodesTyped
  <1>4. CASE node' = [node EXCEPT ![obj] = NoNode, ![d].dirty = TRUE]
    BY <1>4, Zenon
  <1>5. CASE node' = [node EXCEPT ![obj] = NoNode] /\ pc' = "truncate"
    <2>1. node[d].dirty \in BOOLEAN
      BY <1>2 DEF IsNode
    <2>2. [node[d] EXCEPT !.dirty = node[d].dirty] = node[d]
      BY <1>2 DEF IsNode
    <2>3. node' = [o \in Objects |-> IF o = obj THEN NoNode ELSE node[o]]
      BY <1>2, <1>3, <1>5
    <2> DEFINE m == [node[d] EXCEPT !.dirty = node[d].dirty]
    <2>4. [node EXCEPT ![obj] = NoNode, ![d].dirty = node[d].dirty]
              = [o \in Objects |-> IF o = d THEN m ELSE IF o = obj THEN NoNode ELSE node[o]]
      BY <1>2, <1>3
    <2>5. node' = [node EXCEPT ![obj] = NoNode, ![d].dirty = node[d].dirty]
      BY <1>2, <2>2, <2>3, <2>4
    <2> QED
      BY <1>5, <2>1, <2>5, Zenon
  <1>6. \/ node' = [node EXCEPT ![obj] = NoNode, ![d].dirty = TRUE]
        \/ node' = [node EXCEPT ![obj] = NoNode] /\ pc' = "truncate"
    BY DEF Detach, Truncating
  <1> QED
    BY <1>4, <1>5, <1>6

(* and of a node.                                                           *)
LEMMA DetachBasic ==
    ASSUME Basic, Detach PROVE Basic'
  <1> DEFINE d == Under[obj]
             rest == {o \in Objs \ {obj} : Child(o, d) /\ Present(o)}
             new == Highest({1} \union {p[1] + 1 : p \in OffsetsOf(d, rest)})
  <1>0. CallTyped /\ Control /\ DeviceTyped
    BY DEF Basic, Typed
  <1>1. /\ pc = "detach" /\ faults' = faults /\ UNCHANGED <<device, g_initialized, cmap, cmap_dirty, heap, calls, sound>>
        /\ cached' = cached \ {obj}
        /\ Truncating(d, new, "delflush", "delflush") \/ Goto("delflush")
    BY DEF Detach, Ok, seen
  <1>1a. PICK b \in BOOLEAN : node' = [node EXCEPT ![obj] = NoNode, ![d].dirty = b]
    BY DetachNode
  <1>2. pc \in InDir
    BY <1>1 DEF InDir
  <1>3. /\ g_initialized /\ Placed /\ obj \in Objs /\ obj \notin cached /\ d \in Objects /\ d \in cached
        /\ (d = ROOT \/ Under[d] \in cached) /\ IsNode(node[d])
    BY <1>2, BusyFacts DEF Placed
  <1>4. cached' = cached
    BY <1>1, <1>3
  <1>5. new \in Nat /\ new > 0
    <2> DEFINE S == {1} \union {p[1] + 1 : p \in OffsetsOf(d, rest)}
               z == node[d].size
    <2>1. z \in Nat
      BY <1>3 DEF IsNode
    <2>2. \A p \in OffsetsOf(d, rest) : p[1] \in 0 .. z - 1
      BY DEF OffsetsOf, Offsets
    <2>3. S \subseteq 1 .. z + 1
      <3>1. 1 \in 1 .. z + 1
        BY <2>1
      <3>2. ASSUME NEW p \in OffsetsOf(d, rest) PROVE p[1] + 1 \in 1 .. z + 1
        BY <2>1, <2>2
      <3> QED
        BY <3>1, <3>2
    <2>4. S \subseteq 0 .. z + 1 /\ S # {} /\ z + 1 \in Nat
      <3>1. 1 \in S
        OBVIOUS
      <3> HIDE DEF S
      <3> QED
        BY <2>1, <2>3, <3>1
    <2> HIDE DEF S
    <2>5. Highest(S) \in S
      BY <2>4, HighestIn
    <2>6. Highest(S) \in 1 .. z + 1
      BY <2>3, <2>5
    <2> QED
      BY <2>1, <2>6 DEF S
  <1> HIDE DEF new
  <1>6. DeviceTyped' /\ CountTyped'
    BY <1>1, DeviceSame, Counted
  <1>7. MemoryTyped' /\ Tree'
    BY <1>1, <1>1a, <1>2, <1>4, Blank, WorkedAs
  <1>8. CASE Goto("delflush")
    <2>2. Placed' /\ g_initialized'
      BY <1>1, <1>3, <1>4, <1>8 DEF Placed, Goto, call
    <2>3. CallTyped' /\ Control'
      BY <1>0, <1>8, <2>2, GotoCall DEF Labels, InDir, Cutting, FlushAt, Formatting, Leaving
    <2>4. Progress'
      BY <1>8, NotInside DEF Goto, Cutting
    <2> QED
      BY <1>6, <1>7, <2>3, <2>4, BasicParts
  <1>9. CASE Truncating(d, new, "delflush", "delflush")
    <2>3. Placed' /\ g_initialized'
      BY <1>1, <1>3, <1>4, <1>9 DEF Placed, Truncating, call
    <2>4. CallTyped' /\ Control' /\ Progress'
      BY <1>0, <1>3, <1>5, <1>9, <2>3, TruncatingCall DEF TruncThen, TruncElse
    <2> QED
      BY <1>6, <1>7, <2>4, BasicParts
  <1> QED
    BY <1>1, <1>8, <1>9

(* Basic holds at the start,                                                *)
LEMMA InitBasic ==
    ASSUME Init PROVE Basic
  <1>1. /\ vbr = FALSE /\ sysents = FALSE /\ fat = [c \in Clusters |-> FREE] /\ dmap = {}
        /\ dent = [o \in Objs |-> NoDent] /\ g_initialized = FALSE /\ cmap = {} /\ cmap_dirty = FALSE
        /\ node = [o \in Objects |-> NoNode] /\ cached = {} /\ heap = 0
        /\ pc = "idle" /\ op = "none" /\ obj = ROOT /\ size = 0 /\ written = FALSE
        /\ t = NoT /\ f = NoF /\ calls = 0 /\ faults = 0 /\ sound = TRUE
    BY DEF Init, Objects
  <1>2. DeviceTyped
    <2>1. vbr \in BOOLEAN /\ sysents \in BOOLEAN
      BY <1>1, Zenon
    <2>2. DentsTyped
      BY <1>1, Blank DEF DentsTyped
    <2> QED
      BY <1>1, <2>1, <2>2 DEF DeviceTyped
  <1>3. MemoryTyped
    <2>1. g_initialized \in BOOLEAN /\ cmap_dirty \in BOOLEAN
      BY <1>1, Zenon
    <2>2. NodesTyped
      BY <1>1, Blank DEF NodesTyped
    <2> QED
      BY <1>1, <2>1, <2>2, ExfatAssumption DEF MemoryTyped
  <1>4. CallTyped
    <2>1. written \in BOOLEAN
      BY <1>1, Zenon
    <2>2. IsTrunc(t) /\ IsFlush(f)
      BY <1>1, Blank
    <2> QED
      BY <1>1, <2>1, <2>2, ObjectSet DEF CallTyped, Labels
  <1>5. CountTyped
    <2>1. sound \in BOOLEAN
      BY <1>1, Zenon
    <2> QED
      BY <1>1, <2>1, ExfatAssumption DEF CountTyped
  <1>6. Tree
    BY <1>1, ObjectSet DEF Tree
  <1>7. Control /\ Progress
    BY <1>1 DEF Control, Progress, Busy, Formatting, InDir, Leaving, FlushAt, Cutting
  <1> QED
    BY <1>2, <1>3, <1>4, <1>5, <1>6, <1>7 DEF Basic, Typed

(* when nothing happens,                                                    *)
LEMMA StutterBasic ==
    ASSUME Basic, UNCHANGED vars PROVE Basic'
  <1>1. UNCHANGED <<device, memory, calls, sound>> /\ faults' = faults
    BY DEF vars, seen
  <1>2. UNCHANGED <<pc, op, obj, size, written, t, f, node, cached, g_initialized>>
    BY DEF vars, call, memory
  <1>3. CallTyped'
    BY <1>2 DEF Basic, Typed, CallTyped, IsTrunc, IsFlush
  <1>4. Control' /\ Progress'
    BY <1>2 DEF Basic, Control, Progress, Busy, Placed
  <1> QED
    BY <1>1, <1>3, <1>4, QuietBasic

(* and after every step.                                                    *)
LEMMA BasicStep ==
    ASSUME Basic, [Next]_vars PROVE Basic'
  <1>1. CASE UNCHANGED vars
    BY <1>1, StutterBasic
  <1>2. CASE Next
    BY <1>2, FormatBasic, StartBasic, CrashBasic, MountBasic, LookUpBasic, ReadDataBasic, CreateBasic,
       PathBasic, UnmountBasic, TruncateBasic, GrowFirstBasic, GrowOneBasic, GrowEndBasic, EraseNewBasic, CropBasic,
       FreeOneBasic, FreeEndBasic, CommitEntryBasic, FlushEntryBasic, WriteDataBasic, DeleteEntryBasic, DetachBasic
       DEF Next
  <1> QED
    BY <1>1, <1>2

-----------------------------------------------------------------------------
(* What steps do to chains.                                                 *)

(* What the program sees of a file is a node.                               *)
LEMMA ViewTyped ==
    Basic => \A o \in Objects : IsNode(View(o)) /\ Length(o) \in Int
  <1> SUFFICES ASSUME Basic, NEW o \in Objects PROVE IsNode(View(o)) /\ Length(o) \in Int
    OBVIOUS
  <1>1. IsNode(View(o))
    <2>1. IsNode(node[o]) /\ (o # ROOT => o \in Objs /\ IsDent(dent[o]))
      BY ObjectSet DEF Basic, Typed, MemoryTyped, DeviceTyped, NodesTyped, DentsTyped
    <2> QED
      BY <2>1, NodeOfDent, Blank DEF View
  <1>2. t.to \in Nat /\ t.left \in Nat
    BY DEF Basic, Typed, CallTyped, IsTrunc
  <1>3. View(o).size \in Nat
    BY <1>1 DEF IsNode
  <1> QED
    BY <1>1, <1>2, <1>3 DEF Length

(* The same after a step.                                                   *)
LEMMA LaterTyped ==
    ASSUME Basic' PROVE \A o \in Objects : IsNode(View(o))' /\ Length(o)' \in Int
  <1>1. (Basic => \A o \in Objects : IsNode(View(o)) /\ Length(o) \in Int)'
    BY ViewTyped, PTL
  <1> QED
    BY <1>1 DEF Objects, Objs

(* The clusters of a file as a walk, before and after a step.               *)
LEMMA AtIs ==
    /\ \A o, i : At(o, i) = WalkIn(fat, View(o).contig, View(o).start)[i]
    /\ \A o, i : At(o, i)' = WalkIn(fat', View(o)'.contig, View(o)'.start)[i]
  <1>1. \A o, i : At(o, i) = WalkIn(fat, View(o).contig, View(o).start)[i]
    BY NthIs DEF At
  <1>2. ASSUME NEW o, NEW i PROVE At(o, i)' = WalkIn(fat', View(o)'.contig, View(o)'.start)[i]
    <2>1. PICK w : w = View(o)'
      OBVIOUS
    <2>2. At(o, i)' = Nth(w, i)'
      BY <2>1 DEF At, Nth, Follow
    <2> QED
      BY <2>1, <2>2, NthIs
  <1> QED
    BY <1>1, <1>2

(* A file that keeps its start and whose links stay keeps its clusters.     *)
Alike(o) == View(o)'.start = View(o).start /\ View(o)'.contig = View(o).contig

(* This is what it takes for the first k places of a file.                  *)
LEMMA AtKept ==
    ASSUME NEW o, NEW k \in Nat, Alike(o),
           View(o).contig \/ \A i \in 0 .. k - 1 : At(o, i) \in Clusters => fat'[At(o, i)] = fat[At(o, i)]
    PROVE  \A i \in 0 .. k : At(o, i)' = At(o, i)
  <1> DEFINE ct == View(o).contig
             s == View(o).start
  <1>1. \A i : At(o, i) = WalkIn(fat, ct, s)[i] /\ At(o, i)' = WalkIn(fat', ct, s)[i]
    BY AtIs DEF Alike
  <1>2. ct \/ \A i \in 0 .. k - 1 :
                  WalkIn(fat, ct, s)[i] \in Clusters => fat'[WalkIn(fat, ct, s)[i]] = fat[WalkIn(fat, ct, s)[i]]
    BY <1>1
  <1> HIDE DEF ct, s
  <1>3. \A i \in 0 .. k : WalkIn(fat', ct, s)[i] = WalkIn(fat, ct, s)[i]
    BY <1>2, WalkSame
  <1> QED
    BY <1>1, <1>3

(* If no file gains a cluster, all stay apart.                              *)
LEMMA Kept ==
    ASSUME Apart, Whole,
           \A o \in Objects : \A i \in Place(o)' : At(o, i)' \in Clusters =>
               i \in Place(o) /\ At(o, i)' = At(o, i) /\ At(o, i) \in cmap',
           \A o \in Objects : View(o)'.contig =>
               \A i \in Place(o)' : View(o).contig /\ i \in Place(o) /\ At(o, i)' = At(o, i)
    PROVE  Apart' /\ Whole'
  <1>1. \A o \in Objects : \A i \in Place(o)' : At(o, i)' \in Clusters => At(o, i)' \in cmap' \ Foreign(o)
    BY DEF Apart
  <1>2. \A o, p \in Objects : \A i \in Place(o)', j \in Place(p)' :
           At(o, i)' \in Clusters /\ At(o, i)' = At(p, j)' => o = p /\ i = j
    <2> SUFFICES ASSUME NEW o \in Objects, NEW p \in Objects, NEW i \in Place(o)', NEW j \in Place(p)',
                        At(o, i)' \in Clusters, At(o, i)' = At(p, j)'
                 PROVE  o = p /\ i = j
      OBVIOUS
    <2>1. i \in Place(o) /\ j \in Place(p) /\ At(o, i) = At(p, j) /\ At(o, i) \in Clusters
      OBVIOUS
    <2> QED
      BY <2>1 DEF Apart
  <1>3. \A o \in Objects : View(o)'.contig => \A i \in Place(o)' : At(o, i)' \in Clusters
    BY DEF Whole
  <1>4. Apart'
    BY <1>1, <1>2 DEF Apart, Foreign, System, Clusters, Objects, Objs
  <1> QED
    BY <1>3, <1>4 DEF Whole, Clusters, Objects, Objs

(* Steps that do not touch the FAT.                                         *)
LEMMA KeptViews ==
    ASSUME Basic, Basic', Apart, Whole, fat' = fat, cmap \subseteq cmap',
           \A o \in Objects : Length(o)' <= 0 \/ (Alike(o) /\ Length(o)' <= Length(o))
    PROVE  Apart' /\ Whole'
  <1>1. ASSUME NEW o \in Objects, NEW i \in Place(o)'
        PROVE  i \in Place(o) /\ At(o, i)' = At(o, i) /\ View(o)'.contig = View(o).contig
    <2>1. Length(o) \in Int /\ Length(o)' \in Int
      BY ViewTyped, LaterTyped
    <2>2. i \in 0 .. Length(o)' - 1
      BY <1>1 DEF Place
    <2>3. i \in Nat /\ Alike(o) /\ i \in 0 .. Length(o) - 1
      BY <2>1, <2>2
    <2>4. At(o, i)' = At(o, i)
      BY <2>3, AtKept
    <2> QED
      BY <2>3, <2>4 DEF Place, Alike
  <1>2. \A o \in Objects : \A i \in Place(o) : At(o, i) \in Clusters => At(o, i) \in cmap
    BY DEF Apart
  <1> QED
    BY <1>1, <1>2, Kept

-----------------------------------------------------------------------------
(* Steps that leave the clusters where they are.                            *)

(* Where the length of a file differs from its size.                        *)
Mid == {"grow", "crop", "erasenew", "free"}

(* Elsewhere it does not.                                                   *)
LEMMA Lengths ==
    /\ \A o : pc \notin Mid \/ o # t.o => Length(o) = View(o).size
    /\ \A o : pc' \notin Mid \/ o # t'.o => Length(o)' = View(o)'.size
  BY DEF Length, Mid

(* The object that exfat_truncate works on is seen through its node.        *)
LEMMA CutView ==
    ASSUME Basic, pc \in Cutting
    PROVE  View(t.o) = node[t.o]
  <1>1. t.o = ROOT \/ Under[t.o] \in cached
    BY CuttingFacts
  <1> QED
    BY <1>1 DEF View

(* Except while it is cut, the size never counts more than is there.        *)
LEMMA Longer ==
    ASSUME Basic, pc # "free", NEW o \in Objects PROVE View(o).size <= Length(o) /\ View(o).size \in Nat
  <1>1. View(o).size \in Nat
    BY ViewTyped DEF IsNode
  <1>2. CASE pc \notin Mid \/ o # t.o
    BY <1>1, <1>2, Lengths
  <1>3. CASE pc \in Mid /\ o = t.o
    <2>1. pc \in Cutting
      BY <1>3 DEF Mid, Cutting
    <2>2. View(o) = node[t.o]
      BY <1>3, <2>1, CutView
    <2>3. t.to \in Nat /\ t.left \in Nat /\ Progress
      BY <2>1, CuttingFacts DEF Basic
    <2> QED
      BY <1>1, <1>3, <2>2, <2>3 DEF Length, Progress, Mid
  <1> QED
    BY <1>1, <1>2, <1>3

(* Steps that leave nodes and entries alone.                                *)
LEMMA SameViews ==
    ASSUME UNCHANGED <<node, dent, cached>>, NEW o PROVE View(o)' = View(o) /\ Alike(o)
  BY DEF View, Alike

(* Steps after which no exfat_truncate is at work.                          *)
LEMMA Ends ==
    ASSUME IInv, Basic', sound, g_initialized, fat' = fat, cmap \subseteq cmap', pc' \notin Mid,
           \A o \in Objects : View(o)'.size = 0 \/ (Alike(o) /\ View(o)'.size <= Length(o)),
           NoStart'
    PROVE  Space'
  <1>1. Space /\ Basic
    BY DEF IInv
  <1>2. \A o \in Objects : Length(o)' <= 0 \/ (Alike(o) /\ Length(o)' <= Length(o))
    BY Lengths
  <1>3. Apart' /\ Whole'
    BY <1>1, <1>2, KeptViews DEF Space
  <1>4. CutOff' /\ Growing'
    BY DEF CutOff, Growing, Mid
  <1> QED
    BY <1>3, <1>4 DEF Space

(* In particular when no node changes.                                      *)
LEMMA EndsSame ==
    ASSUME IInv, Basic', sound, g_initialized, UNCHANGED <<fat, node, dent, cached>>, cmap \subseteq cmap',
           pc # "free", pc' \notin Mid
    PROVE  Space'
  <1>1. Space /\ Basic
    BY DEF IInv
  <1>2. \A o \in Objects : Alike(o) /\ View(o)'.size <= Length(o)
    BY <1>1, SameViews, Longer
  <1>3. NoStart'
    BY <1>1 DEF Space, NoStart, Mid, Objects, Objs
  <1> QED
    BY <1>2, <1>3, Ends

(* The system area stays allocated if the bitmaps only grow.                *)
LEMMA SystemSame ==
    ASSUME SystemKept, UNCHANGED <<g_initialized, dmap, sysents, sound>>, cmap \subseteq cmap',
           pc' \notin {"mkuct", "mkroot"}
    PROVE  SystemKept'
  BY DEF SystemKept, System

(* Sizes stay bounded if they stay the same.                                *)
LEMMA BoundsSame ==
    ASSUME Bounds, UNCHANGED <<g_initialized, node, dent, sound>>, pc' # "erasenew"
    PROVE  Bounds'
  BY DEF Bounds, Objects, Objs

(* The invariant, part by part.                                             *)
LEMMA IInvParts ==
    ASSUME Basic', Bounds', SystemKept', sound' /\ g_initialized' => Space'
    PROVE  IInv'
  BY DEF IInv

(* Steps that only look, or that write the bitmap.                          *)
LEMMA QuietInv ==
    ASSUME IInv, Basic', UNCHANGED <<fat, node, dent, cached, cmap, g_initialized, sound, sysents>>,
           dmap' = dmap \/ (dmap' = cmap /\ g_initialized),
           pc # "free", pc' \notin Mid, pc' \notin {"mkuct", "mkroot"}
    PROVE  IInv'
  <1>1. Bounds'
    BY BoundsSame DEF IInv, Mid
  <1>2. SystemKept'
    BY DEF IInv, SystemKept, System
  <1>3. sound' /\ g_initialized' => Space'
    BY EndsSame
  <1> QED
    BY <1>1, <1>2, <1>3, IInvParts

(* These are most steps of the calls.                                       *)
LEMMA QuietSteps ==
    ASSUME IInv, Basic',
           \/ exfat_init
           \/ \E o \in Files, n \in Sizes : exfat_write_file(o, n)
           \/ \E d \in Dirs : exfat_create_dir_path(d)
           \/ \E o \in Objs : exfat_read_file(o) \/ exfat_get_file_info(o)
           \/ FindSlot \/ Created \/ Failed \/ WriteDone \/ DirFlush \/ DeleteFlush
           \/ (\E d \in Dirs : NextComponent(d)) \/ PathDone
           \/ UnmountNode \/ UnmountNodesDone \/ Unmount \/ FlushNothing \/ FlushBitmap \/ TruncateSame
    PROVE  IInv'
  <1>0. Basic /\ Control
    BY DEF IInv, Basic
  <1>1. ASSUME \/ exfat_init
               \/ \E o \in Files, n \in Sizes : exfat_write_file(o, n)
               \/ \E d \in Dirs : exfat_create_dir_path(d)
               \/ \E o \in Objs : exfat_read_file(o) \/ exfat_get_file_info(o)
        PROVE  IInv'
    <2>1. /\ UNCHANGED <<device, memory, sound>> /\ pc = "idle" /\ pc' \in {"mount", "lookup"}
      BY <1>1 DEF exfat_init, exfat_write_file, exfat_create_dir_path, exfat_read_file, exfat_get_file_info, Call
    <2> QED
      BY <2>1, QuietInv DEF device, memory, Mid
  <1>2. ASSUME \/ FindSlot \/ Created \/ Failed \/ WriteDone \/ DirFlush \/ DeleteFlush \/ UnmountNode \/ UnmountNodesDone
               \/ (\E d \in Dirs : NextComponent(d)) \/ PathDone
        PROVE  IInv'
    <2>1. /\ UNCHANGED <<device, memory, sound>> /\ pc \notin Mid /\ pc' \notin Mid /\ pc' \notin {"mkuct", "mkroot"}
      BY <1>2 DEF FindSlot, Created, Failed, WriteDone, DirFlush, DeleteFlush, UnmountNode, UnmountNodesDone, NextComponent, PathDone,
         Return, Goto, Truncating, Flushing, seen, Mid
    <2> QED
      BY <2>1, QuietInv DEF device, memory, Mid
  <1>3. ASSUME FlushNothing PROVE IInv'
    <2>1. f.k \in FlushThen /\ pc = "flush"
      BY <1>0, <1>3 DEF FlushNothing, Control, FlushAt
    <2>2. /\ UNCHANGED <<device, memory, sound>> /\ pc' \notin Mid /\ pc' \notin {"mkuct", "mkroot"}
      BY <1>3, <2>1 DEF FlushNothing, FlushDone, seen, Mid, FlushThen
    <2> QED
      BY <2>1, <2>2, QuietInv DEF device, memory, Mid
  <1>4. ASSUME TruncateSame PROVE IInv'
    <2>1. t.k \in TruncThen /\ pc = "truncate"
      BY <1>0, <1>4 DEF TruncateSame, Control, Cutting
    <2>2. /\ UNCHANGED <<device, memory, sound>> /\ pc' \notin Mid /\ pc' \notin {"mkuct", "mkroot"}
      BY <1>4, <2>1 DEF TruncateSame, seen, Mid, TruncThen
    <2> QED
      BY <2>1, <2>2, QuietInv DEF device, memory, Mid
  <1>5. ASSUME FlushBitmap PROVE IInv'
    <2>1. f.k \in FlushThen /\ f.kf \in FlushElse /\ pc = "bitmap" /\ g_initialized
      BY <1>0, <1>5 DEF FlushBitmap, Control, FlushAt
    <2>2. /\ UNCHANGED <<fat, node, dent, cached, cmap, g_initialized, sound, sysents>> /\ (dmap' = dmap \/ dmap' = cmap)
          /\ pc' \notin Mid /\ pc' \notin {"mkuct", "mkroot"}
      BY <1>5, <2>1 DEF FlushBitmap, FlushDone, WriteBitmap, seen, Mid, FlushThen, FlushElse
    <2> QED
      BY <2>1, <2>2, QuietInv
  <1>6. ASSUME Unmount PROVE IInv'
    <2>1. pc = "lastflush" /\ g_initialized
      BY <1>0, <1>6 DEF Unmount, Control, Leaving
    <2>2. /\ UNCHANGED <<fat, node, dent, cached, cmap, g_initialized, sound, sysents>> /\ (dmap' = dmap \/ dmap' = cmap)
          /\ pc' \notin Mid /\ pc' \notin {"mkuct", "mkroot"}
      BY <1>6, <2>1 DEF Unmount, Goto, WriteBitmap, seen, Mid
    <2> QED
      BY <2>1, <2>2, QuietInv
  <1> QED
    BY <1>1, <1>2, <1>3, <1>4, <1>5, <1>6

(* Formatting and power loss: afterwards nothing is mounted.                *)
LEMMA OffSteps ==
    ASSUME IInv, Basic',
           \/ exfat_format \/ EraseVbr \/ Erase \/ MakeVbr \/ MakeFat \/ MakeBitmap \/ MakeTable \/ MakeRoot \/ Crash
    PROVE  IInv'
  <1>0. Basic /\ Control /\ Bounds /\ SystemKept /\ Tree /\ DentsTyped
    BY DEF IInv, Basic, Typed, DeviceTyped
  <1>1. CASE Crash
    <2>1. /\ ~g_initialized' /\ node' = [o \in Objects |-> NoNode] /\ UNCHANGED <<dent, dmap, sysents, sound>> /\ pc' = "idle"
      BY <1>1 DEF Crash, Return, device, Objects
    <2>2. Bounds'
      BY <1>0, <2>1, ObjectSet, Blank, ExfatAssumption DEF Bounds
    <2>3. SystemKept'
      BY <1>0, <2>1 DEF SystemKept, System
    <2> QED
      BY <2>1, <2>2, <2>3, IInvParts
  <1>2. CASE exfat_format \/ EraseVbr \/ MakeVbr \/ MakeFat \/ MakeTable
    <2>1. ~g_initialized /\ UNCHANGED memory
      BY <1>0, <1>2 DEF exfat_format, EraseVbr, MakeVbr, MakeFat, MakeTable, Control, Formatting
    <2>2. UNCHANGED <<dent, dmap, sysents, sound>>
      BY <1>2 DEF exfat_format, EraseVbr, MakeVbr, MakeFat, MakeTable, device, seen
    <2>3. pc' # "erasenew" /\ (pc' \in {"mkuct", "mkroot"} => pc \in {"mkuct", "mkroot"})
      BY <1>2 DEF exfat_format, EraseVbr, MakeVbr, MakeFat, MakeTable, Goto, Return
    <2>4. Bounds'
      BY <1>0, <2>1, <2>2, <2>3, BoundsSame DEF memory
    <2>5. SystemKept'
      BY <1>0, <2>1, <2>2, <2>3 DEF SystemKept, System, memory
    <2> QED
      BY <2>1, <2>4, <2>5, IInvParts DEF memory
  <1>3. CASE Erase
    <2>1. ~g_initialized /\ UNCHANGED memory /\ pc' \in {"mkvbr", "idle"} /\ sysents' = FALSE /\ sound' = sound
          /\ dent' = Overwritten(System)
      BY <1>0, <1>3 DEF Erase, Control, Formatting, Goto, Return, seen
    <2>2. \A o \in Objs : dent'[o].size = dent[o].size \/ dent'[o].size = 0
      BY <1>0, <2>1, OverwrittenDents, Blank
    <2>3. Bounds'
      BY <1>0, <2>1, <2>2, ExfatAssumption DEF Bounds, memory, Objects, Objs
    <2>4. SystemKept'
      BY <2>1 DEF SystemKept, memory
    <2> QED
      BY <2>1, <2>3, <2>4, IInvParts DEF memory
  <1>4. CASE MakeBitmap
    <2>1. ~g_initialized /\ UNCHANGED memory /\ UNCHANGED <<dent, sysents, sound>>
          /\ \/ pc' = "mkuct" /\ dmap' = System
             \/ pc' = "idle" /\ dmap' = dmap
      BY <1>0, <1>4 DEF MakeBitmap, Control, Formatting, Goto, Return, seen
    <2>2. Bounds'
      BY <1>0, <2>1, BoundsSame DEF memory
    <2>3. SystemKept'
      BY <1>0, <2>1 DEF SystemKept, System, memory
    <2> QED
      BY <2>1, <2>2, <2>3, IInvParts DEF memory
  <1>5. CASE MakeRoot
    <2>1. pc = "mkroot" /\ ~g_initialized /\ UNCHANGED <<node, g_initialized, cached, dmap>> /\ pc' = "idle"
          /\ \/ dent' = [o \in Objs |-> NoDent]
             \/ UNCHANGED <<sysents, dent, sound>>
      BY <1>0, <1>5 DEF MakeRoot, Control, Formatting, Return, seen
    <2>2. dmap = System
      BY <1>0, <2>1 DEF SystemKept
    <2>3. \A o \in Objects : node[o].size = 0
      <3>1. cached = {} /\ node[ROOT].size = 0
        BY <1>0, <2>1 DEF Tree, Bounds
      <3> QED
        BY <1>0, <3>1, ObjectSet, Blank DEF Tree
    <2>4. Bounds'
      <3>1. CASE dent' = [o \in Objs |-> NoDent]
        BY <2>1, <2>3, <3>1, Blank, ObjectSet, ExfatAssumption DEF Bounds, Objects, Objs
      <3>2. CASE UNCHANGED <<sysents, dent, sound>>
        BY <1>0, <2>1, <3>2, BoundsSame
      <3> QED
        BY <2>1, <3>1, <3>2
    <2>5. SystemKept'
      BY <2>1, <2>2 DEF SystemKept, System
    <2> QED
      BY <2>1, <2>4, <2>5, IInvParts
  <1> QED
    BY <1>1, <1>2, <1>3, <1>4, <1>5

(* Steps that mark nodes, empty them, write entries of directories that are *)
(* in memory, or overwrite entries.                                         *)
LEMMA EntriesInv ==
    ASSUME IInv, Basic', UNCHANGED <<fat, cached, cmap, dmap, g_initialized, sound, sysents>>, g_initialized,
           pc # "free", pc' \notin Mid, pc' \notin {"mkuct", "mkroot"},
           \A o \in Objects : \/ node'[o].size = 0
                              \/ /\ node'[o].size = node[o].size /\ node'[o].start = node[o].start
                                 /\ node'[o].contig = node[o].contig,
           \A o \in Objs : \/ dent'[o] = dent[o] \/ dent'[o].size = 0
                           \/ Under[o] \in cached /\ dent'[o].size = node[o].size
    PROVE  IInv'
  <1>0. Basic /\ Bounds /\ SystemKept
    BY DEF IInv
  <1>1. Bounds'
    BY <1>0, ExfatAssumption, ObjectSet DEF Bounds, Mid, Objects, Objs
  <1>2. SystemKept'
    BY <1>0, SystemSame
  <1>3. ASSUME sound', g_initialized' PROVE Space'
    <2>1. Space
      BY <1>3 DEF IInv
    <2>2. ASSUME NEW o \in Objects PROVE View(o)'.size = 0 \/ (Alike(o) /\ View(o)'.size <= Length(o))
      <3>1. View(o).size <= Length(o) /\ View(o).size \in Nat
        BY <1>0, Longer
      <3>2. CASE o = ROOT \/ Under[o] \in cached
        <4>1. View(o) = node[o] /\ View(o)' = node'[o]
          BY <3>2 DEF View
        <4> QED
          BY <3>1, <4>1 DEF Alike
      <3>3. CASE o # ROOT /\ Under[o] \notin cached
        <4>1. o \in Objs
          BY <3>3, ObjectSet
        <4>2. View(o) = (IF dent[o].k = "ok" THEN NodeOf(dent[o]) ELSE NoNode)
          BY <3>3 DEF View
        <4>3. PICK e : e = dent'[o]
          OBVIOUS
        <4>4. View(o)' = IF e.k = "ok" THEN NodeOf(e) ELSE NoNode
          BY <3>3, <4>3 DEF View, NodeOf
        <4>5. CASE e.size = 0
          BY <4>4, <4>5, Blank DEF NodeOf
        <4>6. CASE e = dent[o]
          BY <3>1, <4>2, <4>4, <4>6 DEF Alike
        <4> QED
          BY <3>3, <4>1, <4>3, <4>5, <4>6
      <3> QED
        BY <3>2, <3>3
    <2>3. NoStart'
      BY <2>1 DEF Space, NoStart, Mid, Objects, Objs
    <2> QED
      BY <1>3, <2>2, <2>3, Ends
  <1> QED
    BY <1>1, <1>2, <1>3, IInvParts

(* One lemma for each step: exfat_generic_pread,                            *)
LEMMA ReadDataInv ==
    ASSUME IInv, Basic', ReadData PROVE IInv'
  <1>0. Basic
    BY DEF IInv
  <1>1. /\ pc = "read" /\ pc' = "idle" /\ UNCHANGED <<device, g_initialized, cmap, cached, sound>>
    BY DEF ReadData, Return, seen
  <1>2. pc \in InDir
    BY <1>1 DEF InDir
  <1>3. g_initialized /\ obj \in Objects /\ IsNode(node[obj]) /\ NodesTyped
    BY <1>0, <1>2, BusyFacts DEF Basic, Typed, MemoryTyped
  <1>4. \A o \in Objects : /\ node'[o].size = node[o].size /\ node'[o].start = node[o].start
                           /\ node'[o].contig = node[o].contig
    <2>1. CASE UNCHANGED node
      BY <2>1
    <2>2. CASE ~UNCHANGED node
      <3>1. PICK b : node' = [node EXCEPT ![obj].dirty = b]
        BY <2>2 DEF ReadData
      <3>2. PICK m : m = [node[obj] EXCEPT !.dirty = b]
        OBVIOUS
      <3>3. node' = [node EXCEPT ![obj] = m]
        BY <3>1, <3>2
      <3>4. m.size = node[obj].size /\ m.start = node[obj].start /\ m.contig = node[obj].contig
        BY <1>3, <3>2 DEF IsNode
      <3>5. node = [o \in Objects |-> node[o]]
        BY <1>3 DEF NodesTyped
      <3>6. \A o \in Objects : node'[o] = IF o = obj THEN m ELSE node[o]
        BY <3>3, <3>5
      <3> QED
        BY <3>4, <3>6
    <2> QED
      BY <2>1, <2>2
  <1> QED
    BY <1>1, <1>3, <1>4, EntriesInv DEF device, Mid

(* commit_entry,                                                            *)
LEMMA CommitEntryInv ==
    ASSUME IInv, Basic', CommitEntry PROVE IInv'
  <1>0. Basic /\ DentsTyped
    BY DEF IInv, Basic, Typed, DeviceTyped
  <1> DEFINE d == Under[obj]
             at == SlotIn(d)
             e == EmptyEntry("ok", at)
  <1>1. /\ pc = "commit" /\ UNCHANGED <<sysents, fat, dmap, g_initialized, cmap, cached, sound>>
        /\ pc' \in {"flush", "fail"}
        /\ \/ dent' = dent \/ dent' = InSlot(at, obj, e) \/ dent' = InSlot(at, obj, Torn(at))
        /\ \/ node' = [node EXCEPT ![obj] = NodeOf(e), ![d].dirty = TRUE] /\ UNCHANGED <<g_initialized, cmap, cmap_dirty, cached, heap>>
           \/ UNCHANGED node
    BY DEF CommitEntry, Flushing, Goto, seen
  <1>2. pc \in InDir
    BY <1>1 DEF InDir
  <1>3. g_initialized /\ obj \in Objs
    BY <1>0, <1>2, BusyFacts
  <1>4. IsDent(e) /\ e.size = 0 /\ IsDent(Torn(at)) /\ Torn(at).size = 0
    BY EmptyEntries DEF Torn
  <1> HIDE DEF at, e
  <1>5. \A o \in Objs : dent'[o] = dent[o] \/ dent'[o].size = 0
    BY <1>0, <1>1, <1>3, <1>4, InSlotDents, Blank
  <1>6. \A o \in Objects : \/ node'[o].size = 0
                           \/ /\ node'[o].size = node[o].size /\ node'[o].start = node[o].start
                              /\ node'[o].contig = node[o].contig
    <2>1. IsNode(NodeOf(e)) /\ NodeOf(e).size = 0
      BY <1>4, NodeOfDent
    <2>2. CASE UNCHANGED node
      BY <2>2
    <2>3. CASE node' = [node EXCEPT ![obj] = NodeOf(e), ![d].dirty = TRUE] /\ UNCHANGED <<g_initialized, cmap, cmap_dirty, cached, heap>>
      <3> HIDE DEF d
      <3>1. /\ node'[obj] = NodeOf(e)
            /\ node'[d].start = node[d].start /\ node'[d].size = node[d].size /\ node'[d].contig = node[d].contig
            /\ \A p \in Objects : p # obj /\ p # d => node'[p] = node[p]
        BY <1>0, <1>2, <2>1, <2>3, WorkedIn DEF d
      <3> QED
        BY <2>1, <3>1
    <2> QED
      BY <1>1, <2>2, <2>3
  <1> QED
    BY <1>1, <1>3, <1>5, <1>6, EntriesInv DEF Mid

(* exfat_flush_node,                                                        *)
LEMMA FlushEntryInv ==
    ASSUME IInv, Basic', FlushEntry PROVE IInv'
  <1>0. Basic /\ DentsTyped /\ NodesTyped /\ Control /\ CallTyped
    BY DEF IInv, Basic, Typed, DeviceTyped, MemoryTyped
  <1> DEFINE n == node[f.o]
             m == [n EXCEPT !.dirty = FALSE]
  <1>1. /\ pc = "flush" /\ f.o # ROOT /\ UNCHANGED <<sysents, fat, dmap, g_initialized, cmap, cached, sound>>
        /\ pc' \in {"bitmap", f.kf}
        /\ \/ dent' = dent \/ dent' = [dent EXCEPT ![f.o] = EntryFor(n)] \/ dent' = [dent EXCEPT ![f.o] = Torn(n.at)]
        /\ SetNode(f.o, m) \/ UNCHANGED node
    BY DEF FlushEntry, FlushDone, Goto, seen
  <1>2. /\ f.o \in Objs /\ f.o \in Objects /\ Under[f.o] \in cached /\ g_initialized /\ IsNode(n) /\ f.kf \in FlushElse
    BY <1>0, <1>1, ObjectSet DEF CallTyped, IsFlush, Control, FlushAt, NodesTyped
  <1>3. IsDent(EntryFor(n)) /\ IsDent(Torn(n.at)) /\ EntryFor(n).size = n.size /\ Torn(n.at).size = 0
    BY <1>2, DentOfNode, EmptyEntries DEF Torn
  <1>4. \A o \in Objs : \/ dent'[o] = dent[o] \/ dent'[o].size = 0
                        \/ Under[o] \in cached /\ dent'[o].size = node[o].size
    BY <1>0, <1>1, <1>2, <1>3, DentReplaced
  <1>5. \A o \in Objects : /\ node'[o].size = node[o].size /\ node'[o].start = node[o].start
                           /\ node'[o].contig = node[o].contig
    <2>1. m = [n EXCEPT !.dirty = FALSE]
      OBVIOUS
    <2> HIDE DEF m
    <2>2. IsNode(m) /\ m.start = n.start /\ m.size = n.size /\ m.contig = n.contig
      BY <1>2, <2>1, NodeTouched
    <2>3. CASE SetNode(f.o, m)
      BY <1>0, <1>2, <2>2, <2>3, NodeReplaced
    <2> QED
      BY <1>1, <2>3
  <1>6. pc' \notin Mid /\ pc' \notin {"mkuct", "mkroot"}
    BY <1>1, <1>2 DEF FlushElse, Mid
  <1> QED
    BY <1>1, <1>2, <1>4, <1>5, <1>6, EntriesInv

(* the write of the data,                                                   *)
LEMMA WriteDataInv ==
    ASSUME IInv, Basic', WriteData PROVE IInv'
  <1>0. Basic /\ DentsTyped /\ NodesTyped
    BY DEF IInv, Basic, Typed, DeviceTyped, MemoryTyped
  <1> DEFINE n == node[obj]
             m == [n EXCEPT !.dirty = n.dirty \/ size > 0]
  <1>1. /\ pc = "data" /\ UNCHANGED <<sysents, fat, dmap, g_initialized, cmap, cached, sound>>
        /\ pc' = "flush"
        /\ \E S : dent' = Overwritten(S)
        /\ SetNode(obj, m) \/ UNCHANGED node
    <2>1. \E S : dent' = Overwritten(S)
      BY DEF WriteData
    <2> QED
      BY <2>1 DEF WriteData, seen
  <1>2. pc \in InDir
    BY <1>1 DEF InDir
  <1>3. g_initialized /\ obj \in Objects /\ IsNode(n)
    BY <1>0, <1>2, BusyFacts
  <1>4. \A o \in Objs : dent'[o] = dent[o] \/ dent'[o].size = 0
    BY <1>0, <1>1, OverwrittenDents, Blank
  <1>5. \A o \in Objects : /\ node'[o].size = node[o].size /\ node'[o].start = node[o].start
                           /\ node'[o].contig = node[o].contig
    <2>0. (n.dirty \/ size > 0) = TRUE \/ (n.dirty \/ size > 0) = FALSE
      BY Zenon
    <2>1. m = [n EXCEPT !.dirty = TRUE] \/ m = [n EXCEPT !.dirty = FALSE]
      BY <2>0, Zenon
    <2> HIDE DEF m
    <2>2. IsNode(m) /\ m.start = n.start /\ m.size = n.size /\ m.contig = n.contig
      BY <1>3, <2>1, NodeTouched
    <2>3. CASE SetNode(obj, m)
      BY <1>0, <1>3, <2>2, <2>3, NodeReplaced
    <2> QED
      BY <1>1, <2>3
  <1> QED
    BY <1>1, <1>3, <1>4, <1>5, EntriesInv DEF Mid

(* erase_entry,                                                             *)
LEMMA DeleteEntryInv ==
    ASSUME IInv, Basic', DeleteEntry PROVE IInv'
  <1>0. Basic /\ DentsTyped
    BY DEF IInv, Basic, Typed, DeviceTyped
  <1> DEFINE at == node[obj].at
  <1>1. /\ pc = "delete" /\ UNCHANGED <<sysents, fat, dmap, memory, sound>>
        /\ pc' \in {"flush", "fail"}
        /\ \/ dent' = dent \/ dent' = [dent EXCEPT ![obj] = NoDent] \/ dent' = [dent EXCEPT ![obj] = Torn(at)]
    BY DEF DeleteEntry, Flushing, Goto, seen
  <1>2. pc \in InDir
    BY <1>1 DEF InDir
  <1>3. g_initialized /\ obj \in Objs
    BY <1>0, <1>2, BusyFacts
  <1>4. IsDent(Torn(at)) /\ Torn(at).size = 0
    BY EmptyEntries DEF Torn
  <1> HIDE DEF at
  <1>5. \A o \in Objs : dent'[o] = dent[o] \/ dent'[o].size = 0
    BY <1>0, <1>1, <1>3, <1>4, DentReplaced, Blank
  <1> QED
    BY <1>1, <1>3, <1>5, EntriesInv DEF Mid, memory

(* and tree_detach.                                                         *)
LEMMA DetachInv ==
    ASSUME IInv, Basic', Detach PROVE IInv'
  <1>0. Basic
    BY DEF IInv
  <1> DEFINE d == Under[obj]
  <1>1. /\ pc = "detach" /\ UNCHANGED <<device, g_initialized, cmap, cmap_dirty, heap, sound>>
        /\ pc' \in {"truncate", "delflush"} /\ cached' = cached \ {obj}
    BY DEF Detach, Truncating, Goto, seen
  <1>1a. PICK b \in BOOLEAN : node' = [node EXCEPT ![obj] = NoNode, ![d].dirty = b]
    BY <1>0, DetachNode
  <1>2. pc \in InDir
    BY <1>1 DEF InDir
  <1>3. g_initialized /\ obj \in Objs /\ obj \notin cached
    BY <1>0, <1>2, BusyFacts DEF Placed
  <1>4. cached' = cached
    BY <1>1, <1>3
  <1>5. \A o \in Objects : \/ node'[o].size = 0
                           \/ /\ node'[o].size = node[o].size /\ node'[o].start = node[o].start
                              /\ node'[o].contig = node[o].contig
    <2> HIDE DEF d
    <2>1. /\ node'[obj] = NoNode
          /\ node'[d].start = node[d].start /\ node'[d].size = node[d].size /\ node'[d].contig = node[d].contig
          /\ \A p \in Objects : p # obj /\ p # d => node'[p] = node[p]
      BY <1>0, <1>1, <1>1a, <1>2, <1>4, Blank, WorkedAs DEF d
    <2> QED
      BY <2>1, Blank
  <1> QED
    BY <1>1, <1>3, <1>4, <1>5, EntriesInv DEF Mid, device

(* readdir accepts only entries that are whole and whose start goes with    *)
(* their size.                                                              *)
LEMMA ReadEntry ==
    ASSUME DentsTyped, NEW n, Readable(n), NEW o \in EntriesIn(n)
    PROVE  o \in Objs /\ dent[o].k = "ok" /\ ((dent[o].size = 0) <=> (dent[o].start = FREE))
  <1>1. o \in Objs /\ dent[o].k # "none" /\ ~Damaged(o) /\ IsDent(dent[o])
    BY DEF Readable, EntriesIn, DentsTyped
  <1> QED
    BY <1>1 DEF Damaged, ChecksumWrong, StartWrong, IsDent

(* Node and entry have the same chain.                                      *)
LEMMA NodeOfFields ==
    \A e : NodeOf(e).size = e.size /\ NodeOf(e).start = e.start /\ NodeOf(e).contig = e.contig
  BY DEF NodeOf

(* Reading a directory into memory: the nodes are what the entries were.    *)
LEMMA LookUpInv ==
    ASSUME IInv, Basic', LookUp PROVE IInv'
  <1> DEFINE p == Under[obj]
             ns == IF p \in cached THEN node ELSE Loaded(node, p, node[p])
  <1>0. Basic /\ Bounds /\ SystemKept /\ DentsTyped /\ NodesTyped /\ Tree /\ Control
    BY DEF IInv, Basic, Typed, DeviceTyped, MemoryTyped
  <1>1. /\ pc = "lookup" /\ UNCHANGED device /\ sound' = sound /\ UNCHANGED <<g_initialized, cmap>>
        /\ pc' \in {"idle", "read", "slot", "next", "truncate"}
        /\ \/ UNCHANGED <<node, cached>>
           \/ cached' = cached \union {p} /\ node' = ns /\ (p \in cached \/ Readable(node[p]))
    <2>1. op \in {"write", "mkdir", "read", "info"} /\ (op = "write" => obj \in Files) /\ obj \in Objs /\ pc = "lookup"
      BY <1>0 DEF LookUp, Control, Basic, Typed, CallTyped
    <2>2. pc' \in {"idle", "read", "slot", "next", "truncate"}
      <3>1. obj \in Files \/ obj \in Dirs
        BY <2>1 DEF Objs
      <3>2. CASE Return
        BY <3>2 DEF Return
      <3>3. CASE Goto("read") \/ Goto("slot") \/ Goto("next")
        BY <3>3 DEF Goto
      <3>4. CASE Truncating(obj, size, "data", "fail")
        BY <3>4 DEF Truncating
      <3>5. Return \/ Goto("read") \/ Goto("slot") \/ Goto("next") \/ Truncating(obj, size, "data", "fail")
        <4> HIDE DEF ns
        <4>1. CASE Return
          BY <4>1
        <4>2. CASE CASE op = "info" \/ (op = "read" /\ (ns[obj].at = NoSlot \/ obj \in Dirs)) -> Return
                   [] op = "read" /\ ns[obj].at # NoSlot /\ obj \in Files -> Goto("read")
                   [] op \in {"write", "mkdir"} /\ ns[obj].at = NoSlot -> Goto("slot")
                   [] op = "mkdir" /\ ns[obj].at # NoSlot -> Goto("next")
                   [] op = "write" /\ ns[obj].at # NoSlot -> Truncating(obj, size, "data", "fail")
          BY <2>1, <3>1, <4>2
        <4> QED
          BY <4>1, <4>2 DEF LookUp, ns
      <3> QED
        BY <3>2, <3>3, <3>4, <3>5
    <2> QED
      BY <2>1, <2>2 DEF LookUp, seen
  <1>2. g_initialized /\ obj \in Objs /\ p \in Objects
    BY <1>0, <1>1, ObjectSet DEF Control
  <1>3. pc \notin Mid /\ pc' \notin Mid /\ pc' \notin {"mkuct", "mkroot"}
    BY <1>1 DEF Mid
  <1>4. CASE UNCHANGED <<node, cached>>
    BY <1>1, <1>3, <1>4, QuietInv DEF device, Mid
  <1>5. CASE cached' = cached \union {p} /\ node' = ns /\ p \in cached
    <2>1. UNCHANGED <<node, cached>>
      BY <1>5
    <2> QED
      BY <1>4, <2>1
  <1>6. CASE cached' = cached \union {p} /\ node' = ns /\ p \notin cached /\ Readable(node[p])
    <2>1. node' = Loaded(node, p, node[p])
      BY <1>6
    <2> HIDE DEF ns
    <2>2. /\ node'[ROOT] = node[ROOT]
          /\ \A o \in Objs : /\ Under[o] # p => node'[o] = node[o]
                             /\ node'[o] = node[o] \/ (o \in EntriesIn(node[p]) /\ node'[o] = NodeOf(dent[o]))
      BY <1>0, <2>1, LoadedNodes DEF NodesTyped
    <2>3. \A o \in Objs : \/ node'[o] = node[o]
                          \/ /\ Under[o] = p /\ dent[o].k = "ok" /\ ((dent[o].size = 0) <=> (dent[o].start = FREE))
                             /\ node'[o] = NodeOf(dent[o])
      BY <1>0, <1>6, <2>2, ReadEntry
    <2>4. \A o \in Objs : node'[o].size = node[o].size \/ node'[o].size = dent[o].size
      BY <2>3, NodeOfFields
    <2>5. Bounds'
      <3>1. UNCHANGED <<g_initialized, sound, dent>> /\ pc' # "erasenew"
        BY <1>1 DEF device
      <3>2. \A o \in Objects : node'[o].size = node[o].size \/ (o \in Objs /\ node'[o].size = dent[o].size)
        BY <2>2, <2>4, ObjectSet
      <3>3. sound' => \A o \in Objects : node'[o].size <= NumClusters
        BY <1>0, <3>1, <3>2 DEF Bounds
      <3> QED
        BY <1>0, <2>2, <3>1, <3>3 DEF Bounds, Objects, Objs
    <2>6. SystemKept'
      BY <1>0, <1>1, <1>3, SystemSame DEF device
    <2>7. ASSUME sound', g_initialized' PROVE Space'
      <3>0. Space /\ sound
        BY <1>1, <2>7 DEF IInv
      <3>1. ASSUME NEW o \in Objects PROVE View(o)'.size = 0 \/ (Alike(o) /\ View(o)'.size <= Length(o))
        <4>1. View(o).size <= Length(o) /\ View(o).size \in Nat
          BY <1>0, <1>3, Longer DEF Mid
        <4>2. CASE o = ROOT
          BY <2>2, <4>1, <4>2 DEF View, Alike
        <4>3. CASE o # ROOT /\ Under[o] # p
          <5>1. node'[o] = node[o] /\ (Under[o] \in cached' <=> Under[o] \in cached) /\ dent' = dent
            BY <1>1, <1>6, <2>2, <4>3, ObjectSet DEF device
          <5>2. View(o)' = View(o)
            BY <5>1 DEF View
          <5> QED
            BY <4>1, <5>2 DEF Alike
        <4>4. CASE o # ROOT /\ Under[o] = p
          <5>1. o \in Objs /\ Under[o] \notin cached /\ Under[o] \in cached'
            BY <1>6, <4>4, ObjectSet
          <5>2. node[o] = NoNode /\ View(o)' = node'[o]
            BY <1>0, <5>1 DEF Tree, View
          <5>3. CASE node'[o] = node[o]
            BY <5>2, <5>3, Blank
          <5>4. CASE dent[o].k = "ok" /\ node'[o] = NodeOf(dent[o])
            <6>1. View(o) = NodeOf(dent[o])
              BY <4>4, <5>1, <5>4 DEF View
            <6> QED
              BY <4>1, <5>2, <5>4, <6>1 DEF Alike
          <5> QED
            BY <2>3, <5>1, <5>3, <5>4
        <4> QED
          BY <4>2, <4>3, <4>4
      <3>2. NoStart'
        <4>1. \A o \in Objects : node[o].start = FREE => node[o].size = 0
          BY <1>3, <3>0 DEF Space, NoStart, Mid
        <4>2. \A o \in Objs : node'[o].start = FREE => node'[o].size = 0
          BY <2>3, <4>1, ObjectSet, NodeOfFields
        <4>3. \A o \in Objects : node'[o].start = FREE => node'[o].size = 0
          BY <2>2, <4>1, <4>2, ObjectSet
        <4> QED
          BY <4>3 DEF NoStart, Objects, Objs, FREE
      <3> QED
        BY <1>1, <1>2, <1>3, <3>0, <3>1, <3>2, Ends DEF device
    <2> QED
      BY <2>5, <2>6, <2>7, IInvParts
  <1> QED
    BY <1>1, <1>4, <1>5, <1>6

(* Mounting: as far as the volume found was Consistent, its bitmap and its  *)
(* chains are what the invariant asks for.                                  *)
LEMMA MountInv ==
    ASSUME IInv, Basic', Mount PROVE IInv'
  <1>0. Basic /\ Bounds /\ SystemKept /\ DentsTyped /\ dmap \subseteq Clusters
    BY DEF IInv, Basic, Typed, DeviceTyped
  <1>1. pc = "mount" /\ pc' = "idle" /\ UNCHANGED device
    BY DEF Mount, Return
  <1>2. CASE g_initialized' = FALSE /\ node' = [o \in Objs \union {ROOT} |-> NoNode] /\ sound' = sound
    <2>1. node' = [o \in Objects |-> NoNode]
      BY <1>2 DEF Objects
    <2>2. Bounds'
      BY <1>0, <1>1, <1>2, <2>1, ObjectSet, Blank, ExfatAssumption DEF Bounds, device
    <2>3. SystemKept'
      BY <1>0, <1>1, <1>2 DEF SystemKept, System, device
    <2> QED
      BY <1>2, <2>2, <2>3, IInvParts
  <1>3. CASE /\ Mountable /\ g_initialized' = TRUE /\ cmap' = dmap
             /\ node' = Loaded([o \in Objs \union {ROOT} |-> IF o = ROOT THEN RootNode ELSE NoNode], ROOT, RootNode)
             /\ cached' = {ROOT} /\ sound' = (sound /\ Consistent)
    <2> DEFINE ns == [o \in Objects |-> IF o = ROOT THEN RootNode ELSE NoNode]
    <2>1. node' = Loaded(ns, ROOT, RootNode)
      BY <1>3 DEF Objects
    <2>2. ns[ROOT] = RootNode /\ \A o \in Objs : ns[o] = NoNode
      BY ObjectSet
    <2>3. \A o \in Objects : IsNode(ns[o])
      BY Blank, RootNodeIs
    <2> HIDE DEF ns
    <2>4. /\ node'[ROOT] = RootNode
          /\ \A o \in Objs : /\ Under[o] # ROOT => node'[o] = NoNode
                             /\ node'[o] = NoNode \/ (o \in EntriesIn(RootNode) /\ node'[o] = NodeOf(dent[o]))
      BY <1>0, <2>1, <2>2, <2>3, LoadedNodes
    <2>5. \A o \in Objs : \/ node'[o] = NoNode
                          \/ /\ dent[o].k = "ok" /\ ((dent[o].size = 0) <=> (dent[o].start = FREE))
                             /\ node'[o] = NodeOf(dent[o])
      BY <1>0, <1>3, <2>4, ReadEntry DEF Mountable
    <2>6. Bounds'
      <3>1. dent' = dent /\ pc' # "erasenew" /\ (sound' => sound)
        BY <1>1, <1>3 DEF device
      <3>2. \A o \in Objs : node'[o].size = 0 \/ node'[o].size = dent[o].size
        BY <2>5, Blank, NodeOfFields
      <3>3. sound => \A o \in Objs : node'[o].size <= NumClusters
        BY <1>0, <3>2, ExfatAssumption DEF Bounds
      <3>4. node'[ROOT].size <= NumClusters
        BY <2>4, RootNodeIs, ExfatAssumption
      <3>5. sound => \A o \in Objects : node'[o].size <= NumClusters
        BY <3>3, <3>4, ObjectSet
      <3> QED
        BY <1>0, <1>3, <3>1, <3>5 DEF Bounds, Objects, Objs
    <2>7. SystemKept'
      BY <1>0, <1>1, <1>3 DEF SystemKept, System, device, Mountable
    <2>8. ASSUME sound' PROVE Space'
      <3>0. sound /\ Consistent
        BY <1>3, <2>8
      <3>1. ASSUME NEW o \in Objects
            PROVE  \/ View(o)'.size = 0
                   \/ /\ View(o)'.size = OnDevice(o).size /\ View(o)'.start = OnDevice(o).start
                      /\ View(o)'.contig = OnDevice(o).contig
        <4>1. CASE o = ROOT
          BY <2>4, <4>1 DEF View, OnDevice
        <4>2. CASE o # ROOT /\ Under[o] = ROOT
          <5>1. o \in Objs /\ View(o)' = node'[o]
            BY <1>3, <4>2, ObjectSet DEF View
          <5>2. CASE node'[o] = NoNode
            BY <5>1, <5>2, Blank
          <5>3. CASE dent[o].k = "ok" /\ node'[o] = NodeOf(dent[o])
            BY <4>2, <5>1, <5>3 DEF OnDevice, NodeOf
          <5> QED
            BY <2>5, <5>1, <5>2, <5>3
        <4>3. CASE o # ROOT /\ Under[o] # ROOT
          <5>1. o \in Objs /\ dent' = dent /\ Under[o] \notin cached'
            BY <1>1, <1>3, <4>3, ObjectSet DEF device
          <5>2. View(o)' = IF dent[o].k = "ok" THEN NodeOf(dent[o]) ELSE NoNode
            BY <4>3, <5>1 DEF View, NodeOf
          <5> QED
            BY <4>3, <5>2, Blank DEF OnDevice, NodeOf
        <4> QED
          BY <4>1, <4>2, <4>3
      <3>2. ASSUME NEW o \in Objects, NEW i \in Place(o)'
            PROVE  i \in 0 .. OnDevice(o).size - 1 /\ At(o, i)' = Nth(OnDevice(o), i)
        <4>1. Length(o)' = View(o)'.size /\ Length(o)' \in Int
          BY <1>1, Lengths, LaterTyped DEF Mid
        <4>2. i \in 0 .. View(o)'.size - 1 /\ View(o)'.size \in Int
          BY <3>2, <4>1 DEF Place
        <4>3. View(o)'.size = OnDevice(o).size /\ View(o)'.start = OnDevice(o).start
              /\ View(o)'.contig = OnDevice(o).contig
          BY <3>1, <4>2
        <4>4. fat' = fat
          BY <1>1 DEF device
        <4> QED
          BY <4>2, <4>3, <4>4, AtIs, NthIs
      <3>3. ASSUME NEW o \in Objects, NEW i \in Place(o)' PROVE At(o, i)' \in dmap \ Foreign(o)
        <4>1. ChainOf(OnDevice(o)) \subseteq dmap \ Foreign(o)
          BY <3>0 DEF Consistent, Objects
        <4>2. Nth(OnDevice(o), i) \in ChainOf(OnDevice(o))
          BY <3>2, <3>3 DEF ChainOf
        <4> QED
          BY <3>2, <3>3, <4>1, <4>2
      <3>4. ASSUME NEW o \in Objects, NEW p \in Objects, NEW i \in Place(o)', NEW j \in Place(p)',
                   At(o, i)' = At(p, j)'
            PROVE  o = p /\ i = j
        <4>1. Nth(OnDevice(o), i) = Nth(OnDevice(p), j)
          BY <3>2, <3>4
        <4>2. i \in 0 .. OnDevice(o).size - 1 /\ j \in 0 .. OnDevice(p).size - 1
          BY <3>2, <3>4
        <4> QED
          BY <3>0, <4>1, <4>2 DEF Consistent, Objects
      <3>5. Apart'
        BY <1>3, <3>3, <3>4 DEF Apart, Foreign, System, Objects, Objs
      <3>6. Whole'
        BY <1>0, <3>3 DEF Whole, Clusters, Objects, Objs
      <3>7. NoStart'
        <4>1. \A o \in Objs : node'[o].start = FREE => node'[o].size = 0
          BY <2>5, Blank, NodeOfFields
        <4>2. node'[ROOT].start # FREE
          BY <2>4, RootNodeIs DEF FREE
        <4> QED
          BY <4>1, <4>2, ObjectSet DEF NoStart, Objects, Objs, FREE
      <3>8. CutOff' /\ Growing'
        BY <1>1 DEF CutOff, Growing
      <3> QED
        BY <3>5, <3>6, <3>7, <3>8 DEF Space
    <2> QED
      BY <2>6, <2>7, <2>8, IInvParts
  <1> QED
    BY <1>2, <1>3 DEF Mount

-----------------------------------------------------------------------------
(* exfat_truncate.                                                          *)

(* Chains stay if neither links nor nodes change.                           *)
LEMMA SameAt ==
    ASSUME UNCHANGED <<fat, node, dent, cached>>
    PROVE  \A o, i : At(o, i)' = At(o, i)
  <1>1. \A o : View(o)' = View(o)
    BY SameViews
  <1> QED
    BY <1>1, AtIs

(* Steps of exfat_truncate that only set out.                               *)
LEMMA SetsOut ==
    ASSUME IInv, Basic', UNCHANGED <<device, memory, sound>>, pc \in Cutting, pc # "free",
           pc' \in {"grow", "crop"}, t'.o = t.o, Length(t.o)' <= Length(t.o),
           NEW w, pc' = "grow" => t'.prev = At(t.o, w) /\ w = t'.to - t'.left - 1
    PROVE  IInv'
  <1>0. Basic /\ Bounds /\ SystemKept
    BY DEF IInv
  <1>1. UNCHANGED <<fat, node, dent, cached, cmap, dmap, g_initialized, sysents, sound>>
    BY DEF device, memory
  <1>2. Bounds'
    BY <1>0, <1>1, BoundsSame
  <1>3. SystemKept'
    BY <1>0, <1>1, SystemSame
  <1>4. ASSUME sound', g_initialized' PROVE Space'
    <2>0. Space
      BY <1>1, <1>4 DEF IInv
    <2>1. ASSUME NEW o \in Objects PROVE Alike(o) /\ Length(o)' <= Length(o)
      <3>1. View(o)' = View(o) /\ Alike(o)
        BY <1>1, SameViews
      <3>2. View(o).size <= Length(o) /\ View(o).size \in Nat
        BY <1>0, Longer
      <3>3. CASE o # t.o
        BY <3>1, <3>2, <3>3, Lengths
      <3>4. CASE o = t.o
        <4>1. Length(t.o)' = Length(o)'
          BY <3>4 DEF Length
        <4> QED
          BY <3>1, <3>4, <4>1
      <3> QED
        BY <3>3, <3>4
    <2>2. Apart' /\ Whole'
      BY <1>0, <1>1, <2>0, <2>1, KeptViews DEF Space
    <2>3. NoStart'
      BY <1>1, <2>0 DEF Space, NoStart, Objects, Objs, FREE
    <2>4. CutOff'
      BY DEF CutOff
    <2>5. Growing'
      <3>1. \A o, i : At(o, i)' = At(o, i)
        BY <1>1, SameAt
      <3>2. PICK p : p = t'.o
        OBVIOUS
      <3>3. PICK v : v = t'.to - t'.left - 1
        OBVIOUS
      <3>4. At(t.o, t.to - t.left - 1)' = At(p, v)'
        BY <3>2, <3>3 DEF At
      <3>5. pc' = "grow" => t'.prev = At(p, v)
        BY <3>2, <3>3
      <3> QED
        BY <3>1, <3>4, <3>5 DEF Growing
    <2> QED
      BY <2>2, <2>3, <2>4, <2>5 DEF Space
  <1> QED
    BY <1>2, <1>3, <1>4, IInvParts

(* A failure inside exfat_truncate: what was linked beyond the size no      *)
(* longer counts, and stays allocated.                                      *)
LEMMA TruncFailedInv ==
    ASSUME IInv, Basic', TruncFailed, pc \in Cutting, pc # "free",
           UNCHANGED <<fat, node, dent, cached, cmap, dmap, g_initialized, sysents, sound>>
    PROVE  IInv'
  <1>1. t.kf \in TruncElse /\ pc' = t.kf
    BY DEF IInv, Basic, Control, TruncFailed
  <1>2. pc' \notin Mid /\ pc' \notin {"mkuct", "mkroot"}
    BY <1>1 DEF TruncElse, Mid
  <1> QED
    BY <1>2, QuietInv

(* Starting to grow and to shrink, and turning back when there is no space. *)
LEMMA SetOutInv ==
    ASSUME IInv, Basic', GrowFrom \/ GrowNoSpace \/ ShrinkFrom
    PROVE  IInv'
  <1>0. Basic /\ Progress
    BY DEF IInv, Basic
  <1>1. /\ pc \in Cutting /\ UNCHANGED <<device, memory, calls, sound>>
    BY DEF GrowFrom, GrowNoSpace, ShrinkFrom, Cutting, seen
  <1>2. UNCHANGED <<fat, node, dent, cached, cmap, dmap, g_initialized, sysents, sound>>
    BY <1>1 DEF device, memory
  <1>3. /\ IsTrunc(t) /\ t.o \in Objects /\ t.to \in Nat /\ t.left \in Nat /\ t.prev \in Int
        /\ IsNode(node[t.o]) /\ node[t.o].size \in Nat /\ View(t.o) = node[t.o]
    BY <1>0, <1>1, CuttingFacts, CutView
  <1>4. ASSUME TruncFailed, pc # "free" PROVE IInv'
    BY <1>1, <1>2, <1>4, TruncFailedInv
  <1>7. CASE GrowFrom
    <2> DEFINE n == node[t.o]
               last == IF n.size = 0 THEN END ELSE Nth(n, n.size - 1)
    <2>0. pc = "truncate" /\ n.size < t.to
      BY <1>7 DEF GrowFrom
    <2>1. CASE TruncFailed
      BY <1>4, <2>0, <2>1
    <2>2. CASE Valid(last) /\ t' = [t EXCEPT !.prev = last, !.left = t.to - n.size] /\ pc' = "grow"
      <3>1. t.to - n.size \in Nat
        BY <1>3, <2>0
      <3>x. last \in Clusters /\ n.size # 0
        BY <2>2, ClusterSet DEF Valid
      <3>y. last = At(t.o, n.size - 1)
        BY <1>3, <3>x DEF At
      <3> HIDE DEF last
      <3>2. n.size # 0 /\ last \in Int /\ last = At(t.o, n.size - 1)
        BY <3>x, <3>y, ClusterSet
      <3>3. /\ t'.o = t.o /\ t'.to = t.to /\ t'.prev = last /\ t'.left = t.to - n.size
        BY <1>3, <2>2, <3>1, <3>2, TruncMoves
      <3>4. n.size - 1 = t'.to - t'.left - 1 /\ t'.to - t'.left = n.size
        BY <1>3, <3>3
      <3>5. Length(t.o)' = n.size
        BY <2>2, <3>3, <3>4 DEF Length
      <3>6. Length(t.o) = n.size
        BY <1>3, <2>0, Lengths DEF Mid
      <3>7. Length(t.o)' <= Length(t.o)
        BY <1>3, <3>5, <3>6
      <3> QED
        BY <1>1, <2>0, <2>2, <3>2, <3>3, <3>4, <3>7, SetsOut
    <2> QED
      BY <1>7, <2>1, <2>2 DEF GrowFrom
  <1>8. CASE GrowNoSpace
    <2> DEFINE old == node[t.o].size
               now == t.to - t.left
    <2>0. pc = "grow"
      BY <1>8 DEF GrowNoSpace
    <2>1. CASE TruncFailed
      BY <1>4, <2>0, <2>1
    <2>2. CASE now > old /\ pc' = "crop" /\ t' = [t EXCEPT !.to = old, !.left = now - old, !.undo = TRUE]
      <3>1. old \in Nat /\ now - old \in Nat
        BY <1>3, <2>2
      <3>2. /\ t'.o = t.o /\ t'.to = old /\ t'.left = now - old
        BY <1>3, <2>2, <3>1, TruncUndoes
      <3>3. t'.to + t'.left = now
        BY <1>3, <3>1, <3>2
      <3>4. Length(t.o)' = now
        BY <2>2, <3>2, <3>3 DEF Length
      <3>5. Length(t.o) = now
        BY <2>0 DEF Length
      <3>6. Length(t.o)' <= Length(t.o)
        BY <1>3, <3>4, <3>5
      <3> QED
        BY <1>1, <2>0, <2>2, <3>2, <3>6, SetsOut
    <2> QED
      BY <1>8, <2>1, <2>2 DEF GrowNoSpace
  <1>9. CASE ShrinkFrom
    <2>1. node[t.o].size > t.to /\ t' = [t EXCEPT !.left = node[t.o].size - t.to] /\ pc' = "crop" /\ pc = "truncate"
      BY <1>9 DEF ShrinkFrom
    <2>2. node[t.o].size - t.to \in Nat
      BY <1>3, <2>1
    <2>3. /\ t'.o = t.o /\ t'.to = t.to /\ t'.left = node[t.o].size - t.to
      BY <1>3, <2>1, <2>2, TruncMovesLeft
    <2>4. t'.to + t'.left = node[t.o].size
      BY <1>3, <2>3
    <2>5. Length(t.o)' = node[t.o].size
      BY <2>1, <2>3, <2>4 DEF Length
    <2>6. Length(t.o) = node[t.o].size
      BY <1>3, <2>1, Lengths DEF Mid
    <2>7. Length(t.o)' <= Length(t.o)
      BY <1>3, <2>5, <2>6
    <2> QED
      BY <1>1, <2>1, <2>3, <2>7, SetsOut
  <1> QED
    BY <1>7, <1>8, <1>9

(* The new clusters are zeroed and belong to the file.                      *)
LEMMA EraseNewInv ==
    ASSUME IInv, Basic', EraseNew PROVE IInv'
  <1>0. Basic /\ Bounds /\ SystemKept /\ DentsTyped /\ NodesTyped /\ Control
    BY DEF IInv, Basic, Typed, DeviceTyped, MemoryTyped
  <1> DEFINE n == node[t.o]
             m == Sized(n, t.to)
  <1>1. /\ pc = "erasenew" /\ UNCHANGED <<sysents, fat, dmap, g_initialized, cmap, cached, sound>>
        /\ \E S : dent' = Overwritten(S)
        /\ \/ SetNode(t.o, m) /\ pc' = t.k
           \/ UNCHANGED node /\ (pc' = t.kf \/ pc' = "bug")
    <2>1. \E S : dent' = Overwritten(S)
      BY DEF EraseNew
    <2> QED
      BY <2>1 DEF EraseNew, TruncFailed, Hung, seen, Sized
  <1>2. pc \in Cutting
    BY <1>1 DEF Cutting
  <1>3. /\ g_initialized /\ IsNode(n) /\ t.to \in Nat /\ t.o \in Objects /\ View(t.o) = n
        /\ t.k \in TruncThen /\ t.kf \in TruncElse
    BY <1>0, <1>2, CuttingFacts, CutView DEF Control
  <1>4. \A o \in Objs : dent'[o] = dent[o] \/ dent'[o].size = 0
    BY <1>0, <1>1, OverwrittenDents, Blank
  <1>5. pc' \notin Mid /\ pc' \notin {"mkuct", "mkroot"}
    BY <1>1, <1>3 DEF TruncThen, TruncElse, Mid
  <1>6. CASE UNCHANGED node
    BY <1>1, <1>3, <1>4, <1>5, <1>6, EntriesInv
  <1>7. CASE SetNode(t.o, m)
    <2>1. IsNode(m) /\ m.start = n.start /\ m.size = t.to /\ m.contig = n.contig
      BY <1>3, NodeSized
    <2> HIDE DEF m
    <2>2. node'[t.o] = m /\ \A p \in Objects : p # t.o => node'[p] = node[p]
      BY <1>0, <1>3, <1>7, <2>1, NodeReplaced
    <2>3. Bounds'
      <3>1. sound => t.to <= NumClusters
        BY <1>0, <1>1 DEF Bounds
      <3>2. sound => \A o \in Objects : node'[o].size <= NumClusters
        BY <1>0, <2>1, <2>2, <3>1 DEF Bounds
      <3>3. sound => \A o \in Objs : dent'[o].size <= NumClusters
        BY <1>0, <1>4, ExfatAssumption DEF Bounds
      <3> QED
        BY <1>1, <1>3, <1>5, <3>2, <3>3 DEF Bounds, Mid, Objects, Objs
    <2>4. SystemKept'
      BY <1>0, <1>1, <1>5, SystemSame
    <2>5. ASSUME sound', g_initialized' PROVE Space'
      <3>0. Space /\ sound
        BY <1>1, <1>3, <2>5 DEF IInv
      <3>1. n.start # FREE
        BY <1>1, <3>0 DEF Space, Growing
      <3>2. ASSUME NEW o \in Objects PROVE View(o)'.size = 0 \/ (Alike(o) /\ View(o)'.size <= Length(o))
        <4>1. CASE o = t.o
          <5>1. View(o)' = m
            <6>1. View(o)' = node'[o]
              <7>1. t.o = ROOT \/ Under[t.o] \in cached
                BY <1>0, <1>2, CuttingFacts
              <7> QED
                BY <1>1, <4>1, <7>1 DEF View
            <6> QED
              BY <2>2, <4>1, <6>1
          <5>2. Length(o) = t.to
            BY <1>1, <4>1 DEF Length
          <5> QED
            BY <1>3, <2>1, <4>1, <5>1, <5>2 DEF Alike
        <4>2. CASE o # t.o
          <5>1. View(o).size <= Length(o) /\ View(o).size \in Nat
            BY <1>0, <1>1, Longer
          <5>2. CASE o = ROOT \/ Under[o] \in cached
            <6>1. View(o) = node[o] /\ View(o)' = node'[o]
              BY <1>1, <5>2 DEF View
            <6> QED
              BY <2>2, <4>2, <5>1, <6>1 DEF Alike
          <5>3. CASE o # ROOT /\ Under[o] \notin cached
            <6>1. o \in Objs
              BY <5>3, ObjectSet
            <6>2. PICK e : e = dent'[o]
              OBVIOUS
            <6>3. View(o)' = IF e.k = "ok" THEN NodeOf(e) ELSE NoNode
              BY <1>1, <5>3, <6>2 DEF View, NodeOf
            <6>4. View(o) = (IF dent[o].k = "ok" THEN NodeOf(dent[o]) ELSE NoNode)
              BY <5>3 DEF View
            <6>5. CASE e.size = 0
              BY <6>3, <6>5, Blank, NodeOfFields
            <6>6. CASE e = dent[o]
              BY <5>1, <6>3, <6>4, <6>6 DEF Alike
            <6> QED
              BY <1>4, <6>1, <6>2, <6>5, <6>6
          <5> QED
            BY <5>2, <5>3
        <4> QED
          BY <4>1, <4>2
      <3>3. NoStart'
        <4>1. \A o \in Objects : node[o].start = FREE => node[o].size = 0
          BY <1>1, <3>0 DEF Space, NoStart
        <4>2. \A o \in Objects : node'[o].start = FREE => node'[o].size = 0
          BY <2>1, <2>2, <3>1, <4>1
        <4> QED
          BY <4>2 DEF NoStart, Objects, Objs, FREE
      <3> QED
        BY <1>1, <1>3, <1>5, <3>0, <3>2, <3>3, Ends
    <2> QED
      BY <2>3, <2>4, <2>5, IInvParts
  <1> QED
    BY <1>1, <1>6, <1>7

(* The size after a cut is what is left.                                    *)
LEMMA FreeEndInv ==
    ASSUME IInv, Basic', FreeEnd PROVE IInv'
  <1>0. Basic /\ Bounds /\ SystemKept /\ NodesTyped /\ Control /\ Progress
    BY DEF IInv, Basic, Typed, DeviceTyped, MemoryTyped
  <1> DEFINE n == node[t.o]
             m == IF t.undo THEN n ELSE Sized(n, t.to)
  <1>1. /\ pc = "free" /\ UNCHANGED <<device, g_initialized, cmap, cached, sound>>
        /\ SetNode(t.o, m) /\ pc' \in {t.kf, t.k}
    BY DEF FreeEnd, seen, Sized
  <1>2. pc \in Cutting
    BY <1>1 DEF Cutting
  <1>3. /\ g_initialized /\ IsNode(n) /\ t.to \in Nat /\ t.o \in Objects /\ View(t.o) = n
        /\ t.k \in TruncThen /\ t.kf \in TruncElse /\ t.to <= n.size /\ (t.undo => n.size = t.to)
        /\ (t.o = ROOT \/ Under[t.o] \in cached)
    BY <1>0, <1>1, <1>2, CuttingFacts, CutView DEF Control, Progress
  <1>5. pc' \notin Mid /\ pc' \notin {"mkuct", "mkroot"}
    BY <1>1, <1>3 DEF TruncThen, TruncElse, Mid
  <1>6. IsNode(m) /\ m.start = n.start /\ m.size = t.to /\ m.contig = n.contig
    BY <1>3, NodeSized
  <1> HIDE DEF m
  <1>7. node'[t.o] = m /\ \A p \in Objects : p # t.o => node'[p] = node[p]
    BY <1>0, <1>1, <1>3, <1>6, NodeReplaced
  <1>8. Bounds'
    <2>1. n.size \in Nat
      BY <1>3 DEF IsNode
    <2>2. sound => \A o \in Objects : node'[o].size <= NumClusters
      BY <1>0, <1>3, <1>6, <1>7, <2>1, ExfatAssumption DEF Bounds
    <2> QED
      BY <1>0, <1>1, <1>3, <1>5, <2>2 DEF Bounds, Mid, device, Objects, Objs
  <1>9. SystemKept'
    BY <1>0, <1>1, <1>5, SystemSame DEF device
  <1>10. ASSUME sound', g_initialized' PROVE Space'
    <2>0. Space /\ sound
      BY <1>1, <1>3, <1>10 DEF IInv
    <2>1. ASSUME NEW o \in Objects PROVE Alike(o) /\ View(o)'.size <= Length(o)
      <3>1. CASE o = t.o
        <4>1. View(o)' = m
          <5>1. View(o)' = node'[o]
            BY <1>1, <1>3, <3>1 DEF View
          <5> QED
            BY <1>7, <3>1, <5>1
        <4>2. Length(o) = t.to
          BY <1>1, <3>1 DEF Length
        <4> QED
          BY <1>3, <1>6, <3>1, <4>1, <4>2 DEF Alike
      <3>2. CASE o # t.o
        <4>1. View(o)' = View(o)
          BY <1>1, <1>7, <3>2 DEF View, device
        <4>2. View(o).size = Length(o) /\ View(o).size \in Nat
          BY <1>0, <3>2, Lengths, ViewTyped DEF IsNode
        <4> QED
          BY <4>1, <4>2 DEF Alike
      <3> QED
        BY <3>1, <3>2
    <2>2. NoStart'
      <3>1. \A o \in Objects : o # t.o /\ node[o].start = FREE => node[o].size = 0
        BY <2>0 DEF Space, NoStart
      <3>2. m.start = FREE => m.size = 0
        <4>1. n.start = FREE /\ t.to # 0 => n.size = 0
          BY <1>3, <2>0 DEF Space, NoStart
        <4>2. n.size \in Nat
          BY <1>3 DEF IsNode
        <4> QED
          BY <1>3, <1>6, <4>1, <4>2
      <3>3. \A o \in Objects : node'[o].start = FREE => node'[o].size = 0
        BY <1>7, <3>1, <3>2
      <3> QED
        BY <3>3 DEF NoStart, Objects, Objs, FREE
    <2> QED
      BY <1>1, <1>3, <1>5, <2>0, <2>1, <2>2, Ends DEF device
  <1> QED
    BY <1>8, <1>9, <1>10, IInvParts

(* A cluster that was free is put at the end of a file.                     *)
LEMMA Glued ==
    ASSUME Apart, Whole, System \subseteq cmap, NEW c, c \notin cmap, c \in cmap', cmap \subseteq cmap',
           NEW q \in Objects, NEW w,
           \A o \in Objects : \A i \in Place(o)' : At(o, i)' \in Clusters =>
               \/ i \in Place(o) /\ At(o, i)' = At(o, i)
               \/ o = q /\ i = w /\ At(o, i)' = c,
           \A o \in Objects : View(o)'.contig => \A i \in Place(o)' :
               \/ View(o).contig /\ i \in Place(o) /\ At(o, i)' = At(o, i)
               \/ At(o, i)' \in Clusters
    PROVE  Apart' /\ Whole'
  <1>1. \A o \in Objects : \A i \in Place(o)' : At(o, i)' \in Clusters => At(o, i)' \in cmap' \ Foreign(o)
    <2> SUFFICES ASSUME NEW o \in Objects, NEW i \in Place(o)', At(o, i)' \in Clusters
                 PROVE  At(o, i)' \in cmap' \ Foreign(o)
      OBVIOUS
    <2>1. CASE i \in Place(o) /\ At(o, i)' = At(o, i)
      BY <2>1 DEF Apart
    <2>2. CASE At(o, i)' = c
      BY <2>2 DEF Foreign
    <2> QED
      BY <2>1, <2>2
  <1>2. \A o, p \in Objects : \A i \in Place(o)', j \in Place(p)' :
           At(o, i)' \in Clusters /\ At(o, i)' = At(p, j)' => o = p /\ i = j
    <2> SUFFICES ASSUME NEW o \in Objects, NEW p \in Objects, NEW i \in Place(o)', NEW j \in Place(p)',
                        At(o, i)' \in Clusters, At(o, i)' = At(p, j)'
                 PROVE  o = p /\ i = j
      OBVIOUS
    <2>0. At(p, j)' \in Clusters
      OBVIOUS
    <2>1. CASE At(o, i)' = c
      <3>1. ~(j \in Place(p) /\ At(p, j)' = At(p, j))
        BY <2>0, <2>1 DEF Apart
      <3>2. ~(i \in Place(o) /\ At(o, i)' = At(o, i))
        BY <2>1 DEF Apart
      <3> QED
        BY <2>0, <3>1, <3>2
    <2>2. CASE At(o, i)' # c
      <3>1. i \in Place(o) /\ At(o, i)' = At(o, i) /\ j \in Place(p) /\ At(p, j)' = At(p, j)
        BY <2>0, <2>2
      <3> QED
        BY <3>1 DEF Apart
    <2> QED
      BY <2>1, <2>2
  <1>3. \A o \in Objects : View(o)'.contig => \A i \in Place(o)' : At(o, i)' \in Clusters
    BY DEF Whole
  <1>4. Apart'
    BY <1>1, <1>2 DEF Apart, Foreign, System, Clusters, Objects, Objs
  <1> QED
    BY <1>3, <1>4 DEF Whole, Clusters, Objects, Objs

(* Links of one file are set: the others stay as they are.                  *)
LEMMA OthersKept ==
    ASSUME Basic, Apart, NEW q \in Objects,
           \A c \in Clusters : fat'[c] = fat[c] \/ \E j \in Place(q) : At(q, j) = c,
           NEW o \in Objects, o # q, Alike(o), NEW i \in Place(o)
    PROVE  At(o, i)' = At(o, i)
  <1>1. Length(o) \in Int
    BY ViewTyped
  <1>2. i \in Nat /\ 0 .. i - 1 \subseteq Place(o)
    BY <1>1 DEF Place
  <1>3. \A j \in 0 .. i - 1 : At(o, j) \in Clusters => fat'[At(o, j)] = fat[At(o, j)]
    <2> SUFFICES ASSUME NEW j \in 0 .. i - 1, At(o, j) \in Clusters PROVE fat'[At(o, j)] = fat[At(o, j)]
      OBVIOUS
    <2>1. \A h \in Place(q) : At(q, h) # At(o, j)
      BY <1>2 DEF Apart
    <2> QED
      BY <2>1
  <1>4. \A j \in 0 .. i : At(o, j)' = At(o, j)
    BY <1>2, <1>3, AtKept
  <1> QED
    BY <1>2, <1>4

(* The link out of one place of a file is set: what is before stays.        *)
LEMMA BeforeKept ==
    ASSUME Basic, Apart, NEW q \in Objects, NEW w \in Place(q),
           \A c \in Clusters : c # At(q, w) => fat'[c] = fat[c],
           NEW o \in Objects, Alike(o), NEW i \in Place(o), o = q => i <= w
    PROVE  At(o, i)' = At(o, i)
  <1>1. Length(o) \in Int /\ Length(q) \in Int
    BY ViewTyped
  <1>2. i \in Nat /\ 0 .. i - 1 \subseteq Place(o) /\ w \in Nat
    BY <1>1 DEF Place
  <1>3. \A j \in 0 .. i - 1 : At(o, j) \in Clusters => fat'[At(o, j)] = fat[At(o, j)]
    <2> SUFFICES ASSUME NEW j \in 0 .. i - 1, At(o, j) \in Clusters PROVE fat'[At(o, j)] = fat[At(o, j)]
      OBVIOUS
    <2>1. At(q, w) # At(o, j)
      <3>1. o = q => j # w
        BY <1>2
      <3> QED
        BY <1>2, <3>1 DEF Apart
    <2> QED
      BY <2>1
  <1>4. \A j \in 0 .. i : At(o, j)' = At(o, j)
    BY <1>2, <1>3, AtKept
  <1> QED
    BY <1>2, <1>4

(* The first cluster of a file.                                             *)
LEMMA GrowFirstInv ==
    ASSUME IInv, Basic', GrowFirst PROVE IInv'
  <1>0. Basic /\ Bounds /\ SystemKept /\ NodesTyped /\ cmap \subseteq Clusters
    BY DEF IInv, Basic, Typed, MemoryTyped
  <1> DEFINE c == Alloc(0)
             n == node[t.o]
             m == Started(n, c)
  <1>1. /\ pc = "truncate" /\ n.size < t.to /\ n.start = FREE
        /\ UNCHANGED <<device, g_initialized, cached, heap, sound>>
    BY DEF GrowFirst, seen
  <1>2. pc \in Cutting
    BY <1>1 DEF Cutting
  <1>3. /\ g_initialized /\ IsTrunc(t) /\ t.o \in Objects /\ t.to \in Nat /\ IsNode(n) /\ n.size \in Nat
        /\ (t.o = ROOT \/ Under[t.o] \in cached) /\ View(t.o) = n
    BY <1>0, <1>2, CuttingFacts, CutView
  <1>4. CASE TruncFailed /\ UNCHANGED <<cmap, cmap_dirty, node>>
    BY <1>1, <1>2, <1>4, TruncFailedInv DEF device
  <1>5. CASE Valid(c) /\ cmap' = cmap \union {c} /\ SetNode(t.o, m)
             /\ t' = [t EXCEPT !.prev = c, !.left = t.to - n.size - 1] /\ pc' = "grow"
    <2>1. c \in Clusters /\ c \in Int /\ c \notin cmap /\ c # FREE
      BY <1>0, <1>5, AllocIs, ClusterSet
    <2> HIDE DEF c
    <2>2. IsNode(m) /\ m.start = c /\ m.size = n.size /\ m.contig = TRUE
      BY <1>3, <2>1, NodeStarted
    <2> HIDE DEF m
    <2>3. node'[t.o] = m /\ \A p \in Objects : p # t.o => node'[p] = node[p]
      BY <1>0, <1>3, <1>5, <2>2, NodeReplaced
    <2>4. t.to - n.size - 1 \in Nat
      BY <1>1, <1>3
    <2>5. t'.o = t.o /\ t'.to = t.to /\ t'.prev = c /\ t'.left = t.to - n.size - 1
      BY <1>3, <1>5, <2>1, <2>4, TruncMoves
    <2>6. Bounds'
      BY <1>0, <1>1, <1>3, <1>5, <2>2, <2>3 DEF Bounds, device, Objects, Objs
    <2>7. SystemKept'
      BY <1>0, <1>1, <1>5, SystemSame DEF device
    <2>8. ASSUME sound', g_initialized' PROVE Space'
      <3>0. Space /\ sound /\ System \subseteq cmap
        BY <1>0, <1>1, <1>3, <2>8 DEF IInv, SystemKept
      <3>1. n.size = 0
        BY <1>1, <1>3, <3>0 DEF Space, NoStart
      <3>3. PICK q : q = t.o
        OBVIOUS
      <3>4. View(q)' = m /\ Length(q)' = 1 /\ Place(q)' = {0} /\ At(q, 0)' = c
        <4>1. View(q)' = m
          BY <1>1, <1>3, <2>3, <3>3 DEF View
        <4>2. Length(q)' = t.to - (t.to - n.size - 1)
          BY <1>5, <2>5, <3>3 DEF Length
        <4>3. Length(q)' = 1
          BY <1>3, <3>1, <4>2
        <4>4. At(q, 0)' = c
          <5>1. PICK ct : ct = m.contig
            OBVIOUS
          <5>2. At(q, 0)' = WalkIn(fat', ct, c)[0]
            BY <2>2, <4>1, <5>1, AtIs
          <5> QED
            BY <5>2, WalkIs
        <4> QED
          BY <4>1, <4>3, <4>4 DEF Place
      <3>5. ASSUME NEW o \in Objects, o # q, NEW i \in Place(o)'
            PROVE  i \in Place(o) /\ At(o, i)' = At(o, i) /\ View(o)'.contig = View(o).contig
        <4>1. View(o)' = View(o) /\ Alike(o)
          BY <1>1, <2>3, <3>3, <3>5 DEF View, Alike, device
        <4>2. Length(o)' = Length(o) /\ Length(o) \in Int
          BY <1>0, <2>5, <3>3, <3>5, <4>1, Lengths, ViewTyped
        <4>3. i \in Nat /\ i \in Place(o)
          BY <3>5, <4>2 DEF Place
        <4> QED
          BY <1>1, <4>1, <4>3, AtKept DEF device
      <3>6. Apart' /\ Whole'
        <4>1. \A o \in Objects : \A i \in Place(o)' : At(o, i)' \in Clusters =>
                 \/ i \in Place(o) /\ At(o, i)' = At(o, i)
                 \/ o = q /\ i = 0 /\ At(o, i)' = c
          BY <3>4, <3>5
        <4>2. \A o \in Objects : View(o)'.contig => \A i \in Place(o)' :
                 \/ View(o).contig /\ i \in Place(o) /\ At(o, i)' = At(o, i)
                 \/ At(o, i)' \in Clusters
          BY <2>1, <3>4, <3>5
        <4> QED
          BY <1>3, <1>5, <2>1, <3>0, <3>3, <4>1, <4>2, Glued DEF Space
      <3>7. NoStart'
        <4>1. \A o \in Objects : node[o].start = FREE => node[o].size = 0
          BY <1>1, <3>0 DEF Space, NoStart
        <4>2. \A o \in Objects : node'[o].start = FREE => node'[o].size = 0
          BY <2>1, <2>2, <2>3, <4>1
        <4> QED
          BY <4>2 DEF NoStart, Objects, Objs, FREE
      <3>8. CutOff'
        BY <1>5 DEF CutOff
      <3>9. Growing'
        <4>1. t'.to - t'.left - 1 = 0
          BY <1>3, <2>5, <3>1
        <4>2. At(t.o, t.to - t.left - 1)' = At(q, 0)'
          BY <2>5, <3>3, <4>1 DEF At
        <4> QED
          BY <1>5, <2>5, <3>4, <4>2 DEF Growing
      <3> QED
        BY <3>6, <3>7, <3>8, <3>9 DEF Space
    <2> QED
      BY <2>6, <2>7, <2>8, IInvParts
  <1> QED
    BY <1>4, <1>5 DEF GrowFirst, Started

(* All clusters that grow_file counts are there, so that they cannot be     *)
(* more than the volume has.                                                *)
LEMMA GrownAll ==
    ASSUME Basic, Space, pc = "grow"
    PROVE  LET L == t.to - t.left IN
           /\ L \in Nat /\ L > 0 /\ t.prev \in Clusters /\ t.prev = At(t.o, L - 1)
           /\ Place(t.o) = 0 .. L - 1
           /\ \A i \in 0 .. L - 1 : At(t.o, i) \in Clusters
           /\ L <= NumClusters
  <1> DEFINE L == t.to - t.left
             q == t.o
  <1>1. pc \in Cutting
    BY DEF Cutting
  <1>2. t.to \in Nat /\ t.left \in Nat /\ q \in Objects
    BY <1>1, CuttingFacts
  <1>3. L \in Nat /\ L > 0 /\ t.prev \in Clusters
    BY <1>2 DEF Basic, Progress
  <1>4. t.prev = At(q, L - 1) /\ Place(q) = 0 .. L - 1
    BY DEF Space, Growing, Place, Length
  <1> HIDE DEF L, q
  <1>5. \A i \in 0 .. L - 1 : At(q, i) \in Clusters
    <2> SUFFICES ASSUME NEW i \in 0 .. L - 1, At(q, i) \notin Clusters PROVE FALSE
      OBVIOUS
    <2>1. PICK ct, s : \A j : At(q, j) = WalkIn(fat, ct, s)[j]
      BY AtIs
    <2>2. WalkIn(fat, ct, s)[L - 1] \notin Clusters
      <3>1. i \in Nat /\ L - 1 \in Nat /\ i <= L - 1 /\ WalkIn(fat, ct, s)[i] \notin Clusters
        BY <1>3, <2>1
      <3> QED
        BY <3>1, WalkLeft
    <2> QED
      BY <1>3, <1>4, <2>1, <2>2
  <1>6. \A i, j \in 0 .. L - 1 : At(q, i) = At(q, j) => i = j
    BY <1>2, <1>4, <1>5 DEF Space, Apart
  <1>7. L <= NumClusters
    <2> SUFFICES ASSUME NumClusters < L PROVE FALSE
      BY <1>3, ExfatAssumption
    <2> DEFINE S == 0 .. L - 1
               g == [i \in S |-> At(q, i)]
    <2>1. IsFiniteSet(S) /\ Cardinality(S) = L
      <3>1. L - 1 \in Int /\ 0 \in Int /\ ~(0 > L - 1) /\ L - 1 - 0 + 1 = L
        BY <1>3
      <3> QED
        BY <3>1, FS_Interval
    <2>2. g \in [S -> Clusters] /\ \A i, j \in S : g[i] = g[j] => i = j
      BY <1>5, <1>6
    <2>3. IsFiniteSet(Clusters) /\ Cardinality(Clusters) < Cardinality(S)
      BY <2>1, ClusterSet
    <2> HIDE DEF S, g
    <2>4. \E x, y \in S : x # y /\ g[x] = g[y]
      BY <2>1, <2>2, <2>3, FS_PigeonHole, SMT
    <2> QED
      BY <2>2, <2>4
  <1> QED
    BY <1>3, <1>4, <1>5, <1>7 DEF L, q

(* The end of the chain is marked.                                          *)
LEMMA GrowEndInv ==
    ASSUME IInv, Basic', GrowEnd PROVE IInv'
  <1>0. Basic /\ Bounds /\ SystemKept /\ fat \in [Clusters -> Clusters \union {FREE, END}]
    BY DEF IInv, Basic, Typed, DeviceTyped
  <1>1. pc = "grow" /\ t.left = 0 /\ UNCHANGED <<vbr, sysents, dmap, data, dent, memory, sound>>
    BY DEF GrowEnd, seen
  <1>2. pc \in Cutting /\ UNCHANGED <<g_initialized, cmap, node, cached>>
    BY <1>1 DEF Cutting, memory
  <1>3. g_initialized /\ t.o \in Objects /\ t.to \in Nat /\ View(t.o) = node[t.o]
    BY <1>0, <1>2, CuttingFacts, CutView
  <1>4. CASE TruncFailed /\ UNCHANGED fat
    BY <1>1, <1>2, <1>4, TruncFailedInv
  <1>5. CASE Goto("erasenew") /\ fat' = IF node[t.o].contig THEN fat ELSE [fat EXCEPT ![t.prev] = END]
    <2>1. pc' = "erasenew" /\ t' = t
      BY <1>5 DEF Goto
    <2>2. ASSUME sound PROVE t.to <= NumClusters /\ Space'
      <3>0. Space
        BY <1>3, <2>2 DEF IInv
      <3> DEFINE L == t.to - t.left
      <3>1. /\ L \in Nat /\ L > 0 /\ t.prev \in Clusters /\ t.prev = At(t.o, L - 1)
            /\ Place(t.o) = 0 .. L - 1
            /\ \A i \in 0 .. L - 1 : At(t.o, i) \in Clusters
            /\ L <= NumClusters
        BY <1>0, <1>1, <3>0, GrownAll
      <3>2. L = t.to
        BY <1>1, <1>3
      <3> HIDE DEF L
      <3>3. PICK q : q = t.o
        OBVIOUS
      <3>4. ASSUME NEW o \in Objects, NEW i \in Place(o)'
            PROVE  i \in Place(o) /\ At(o, i)' = At(o, i) /\ View(o)' = View(o)
        <4>1. View(o)' = View(o) /\ Alike(o)
          BY <1>1, <1>2, SameViews
        <4>2. Length(o)' = Length(o) /\ Length(o) \in Int
          <5>1. Length(o) \in Int
            BY <1>0, ViewTyped
          <5>2. CASE o # t.o
            BY <2>1, <4>1, <5>1, <5>2, Lengths
          <5>3. CASE o = t.o
            <6>1. Length(o)' = t.to /\ Length(o) = t.to - t.left
              BY <1>1, <2>1, <5>3 DEF Length
            <6> QED
              BY <1>1, <1>3, <6>1
          <5> QED
            BY <5>1, <5>2, <5>3
        <4>3. i \in Place(o) /\ i \in Nat
          BY <3>4, <4>2 DEF Place
        <4>4. o = q => i <= L - 1
          BY <3>1, <3>3, <4>3
        <4>5. \A c \in Clusters : c # At(q, L - 1) => fat'[c] = fat[c]
          BY <1>0, <1>5, <3>1, <3>3
        <4>6. L - 1 \in Place(q)
          BY <3>1, <3>3
        <4> QED
          BY <1>0, <1>3, <3>0, <3>3, <4>1, <4>3, <4>4, <4>5, <4>6, BeforeKept DEF Space
      <3>5. Apart' /\ Whole'
        <4>1. \A o \in Objects : \A i \in Place(o) : At(o, i) \in Clusters => At(o, i) \in cmap'
          BY <1>2, <3>0 DEF Space, Apart
        <4> QED
          BY <3>0, <3>4, <4>1, Kept DEF Space
      <3>6. NoStart'
        BY <1>1, <1>2, <2>1, <3>0 DEF Space, NoStart, Objects, Objs, FREE
      <3>7. CutOff'
        BY <2>1 DEF CutOff
      <3>8. Growing'
        <4>1. node[t.o].start # FREE
          <5>1. At(t.o, 0) \in Clusters
            <6>1. 0 \in 0 .. L - 1
              BY <3>1
            <6> QED
              BY <3>1, <6>1
          <5>2. At(t.o, 0) = node[t.o].start
            <6>1. PICK ct, s : s = node[t.o].start /\ At(t.o, 0) = WalkIn(fat, ct, s)[0]
              BY <1>3, AtIs
            <6> QED
              BY <6>1, WalkIs
          <5> QED
            BY <5>1, <5>2, ClusterSet
        <4> QED
          BY <1>2, <2>1, <4>1 DEF Growing, FREE
      <3> QED
        BY <3>1, <3>2, <3>5, <3>6, <3>7, <3>8 DEF Space
    <2>3. Bounds'
      BY <1>0, <1>1, <1>2, <1>3, <2>1, <2>2 DEF Bounds, Objects, Objs
    <2>4. SystemKept'
      BY <1>0, <1>1, <1>2, <2>1, SystemSame
    <2> QED
      BY <1>1, <2>2, <2>3, <2>4, IInvParts
  <1> QED
    BY <1>4, <1>5 DEF GrowEnd

(* The links after a place stay: so does the walk from there.               *)
LinksStay(fa, fb, ct, s, a, z) ==
    \A i \in 0 .. z - 1 : LET c == WalkIn(fa, ct, s)[a + i] IN c \in Clusters => ct \/ fb[c] = fa[c]

(* Then so do the places from there on.                                     *)
LEMMA WalkOn ==
    ASSUME NEW fa, NEW fb, NEW ct, NEW s, NEW a \in Nat, NEW z \in Nat, LinksStay(fa, fb, ct, s, a, z)
    PROVE  \A i \in 0 .. z : WalkIn(fb, ct, WalkIn(fa, ct, s)[a])[i] = WalkIn(fa, ct, s)[a + i]
  <1> DEFINE r == WalkIn(fa, ct, s)[a]
  <1>1. WalkIn(fb, ct, r)[0] = WalkIn(fa, ct, s)[a]
    BY WalkIs
  <1>2. \A i \in 0 .. z - 1 : LET c == WalkIn(fa, ct, s)[a + i] IN Step(fb, ct, c) = Step(fa, ct, c)
    BY DEF Step, LinksStay
  <1> HIDE DEF r
  <1>3. \A i \in 0 .. z : WalkIn(fb, ct, r)[i] = WalkIn(fa, ct, s)[a + i]
    BY <1>1, <1>2, WalksAgree
  <1> QED
    BY <1>3 DEF r

(* What was cut off as a walk, before and after a step.                     *)
LEMMA CutIs ==
    /\ \A i : CutAt(i) = WalkIn(fat, node[t.o].contig, t.prev)[i]
    /\ \A i : CutAt(i)' = WalkIn(fat', node'[t'.o].contig, t'.prev)[i]
  <1> DEFINE r(p, ct) == [start |-> p, contig |-> ct]
  <1>1. \A p, ct, i : Nth(r(p, ct), i) = WalkIn(fat, ct, p)[i] /\ Nth(r(p, ct), i)' = WalkIn(fat', ct, p)[i]
    <2>1. \A p, ct : r(p, ct).start = p /\ r(p, ct).contig = ct
      OBVIOUS
    <2> HIDE DEF r
    <2> QED
      BY <2>1, NthIs
  <1>2. \A i : CutAt(i) = Nth(r(t.prev, node[t.o].contig), i)
    BY DEF CutAt
  <1>3. ASSUME NEW i PROVE CutAt(i)' = WalkIn(fat', node'[t'.o].contig, t'.prev)[i]
    <2>1. PICK w, p, ct : w = [start |-> p, contig |-> ct] /\ p = t'.prev /\ ct = node'[t'.o].contig
      OBVIOUS
    <2>2. CutAt(i)' = Nth(w, i)'
      BY <2>1 DEF CutAt, Nth, Follow
    <2>3. Nth(w, i)' = WalkIn(fat', ct, p)[i]
      BY <1>1, <2>1
    <2> QED
      BY <2>1, <2>2, <2>3
  <1> HIDE DEF r
  <1> QED
    BY <1>1, <1>2, <1>3

(* The cut itself: what is cut off is disjoint from what stays.             *)
CutsOff ==
    /\ t.to = 0 \/ Nth(node[t.o], t.to - 1) \in Clusters
    /\ SetNode(t.o, Cropped(node[t.o], t.to))
    /\ fat' = (IF t.to = 0 \/ node[t.o].contig THEN fat ELSE [fat EXCEPT ![Nth(node[t.o], t.to - 1)] = END])
    /\ t' = [t EXCEPT !.prev = Nth(node[t.o], t.to)]
    /\ pc' = "free"

(* What is cut off is the end of the file's walk: apart from all that       *)
(* stays, and not in the system area, as the root keeps its first cluster.  *)
LEMMA CropSpace ==
    ASSUME IInv, Basic', sound, pc = "crop", Crop, CutsOff
    PROVE  /\ Space'
           /\ \A q, k : q = t.o /\ k = t.to =>
                 /\ \A i \in 0 .. t.left - 1 : CutAt(i)' = At(q, k + i) /\ k + i \in Place(q)
                 /\ \A i \in Place(q)' : i \in Place(q) /\ At(q, i)' = At(q, i)
                 /\ k > 0 /\ node[q].contig = FALSE => At(q, k)' = END
  <1>0. Basic /\ NodesTyped /\ Progress /\ DeviceTyped /\ fat \in [Clusters -> Clusters \union {FREE, END}] /\ Tree
    BY DEF IInv, Basic, Typed, MemoryTyped, DeviceTyped
  <1>1. UNCHANGED <<dent, cmap, cached, g_initialized>> /\ pc \in Cutting
    BY DEF Crop, Cutting
  <1>c. pc' = "free"
    BY DEF CutsOff
  <1>4. PICK q, n, k, z : q = t.o /\ n = node[t.o] /\ k = t.to /\ z = t.left
    OBVIOUS
  <1>m. PICK m : m = Cropped(n, k)
    OBVIOUS
  <1>2. /\ g_initialized /\ IsTrunc(t) /\ t.o \in Objects /\ k \in Nat /\ z \in Nat /\ IsNode(n)
        /\ (t.o = ROOT => k > 0 /\ n.start = 4)
        /\ (t.o = ROOT \/ Under[t.o] \in cached) /\ View(t.o) = n /\ q \in Objects
    BY <1>0, <1>1, <1>2, <1>4, CuttingFacts, CutView
  <1>3. Space
    BY <1>2 DEF IInv
  <1>5. /\ IsNode(m) /\ m.size = n.size /\ m.contig = n.contig /\ m.start = (IF k = 0 THEN FREE ELSE n.start)
    BY <1>2, <1>m, NodeCropped
  <1>6. node'[q] = m /\ \A p \in Objects : p # q => node'[p] = node[p]
    <2>1. SetNode(t.o, m)
      BY <1>2, <1>4, <1>m DEF CutsOff
    <2> QED
      BY <1>0, <1>2, <1>4, <1>5, <2>1, NodeReplaced
  <1>7. Nth(n, k) \in Int /\ Nth(n, k) = At(q, k)
    BY <1>0, <1>2, <1>4, NthInt DEF At
  <1>8. t'.o = q /\ t'.to = k /\ t'.left = z /\ t'.prev = At(q, k)
    BY <1>2, <1>4, <1>7, TruncMovesPrev DEF CutsOff
  <1>9. k > 0 => At(q, k - 1) \in Clusters /\ At(q, k - 1) = Nth(n, k - 1)
    BY <1>2, <1>4 DEF At, CutsOff
  <1>10. /\ n.contig \/ k = 0 => fat' = fat
         /\ ~(n.contig \/ k = 0) => /\ \A c \in Clusters : c # At(q, k - 1) => fat'[c] = fat[c]
                                    /\ fat'[At(q, k - 1)] = END
    BY <1>0, <1>2, <1>4, <1>9 DEF CutsOff
  <1>11. Place(q) = 0 .. k + z - 1 /\ Place(q)' = 0 .. k - 1
    BY <1>2, <1>4, <1>8, <1>c DEF Place, Length
  <1>12. View(q)' = m /\ View(q) = n /\ \A o \in Objects : o # q => View(o)' = View(o)
    BY <1>1, <1>2, <1>4, <1>6 DEF View
  <1>13. ASSUME NEW o \in Objects, NEW i \in Place(o)'
         PROVE  i \in Place(o) /\ At(o, i)' = At(o, i) /\ View(o)'.contig = View(o).contig
    <2>1. i \in Place(o) /\ i \in Nat
      <3>1. CASE o = q
        BY <1>2, <1>11, <1>13, <3>1
      <3>2. CASE o # q
        <4>1. Length(o)' = Length(o) /\ Length(o) \in Int
          BY <1>0, <1>2, <1>4, <1>8, <1>12, <3>2, Lengths, ViewTyped
        <4> QED
          BY <1>13, <4>1 DEF Place
      <3> QED
        BY <3>1, <3>2
    <2>2. o = q => k > 0 /\ i <= k - 1
      BY <1>2, <1>11, <1>13
    <2>3. Alike(o)
      <3>1. CASE o = q
        BY <1>2, <1>5, <1>12, <2>2, <3>1 DEF Alike
      <3>2. CASE o # q
        BY <1>12, <3>2 DEF Alike
      <3> QED
        BY <3>1, <3>2
    <2>4. CASE n.contig \/ k = 0
      <3>1. At(o, i)' = At(o, i)
        BY <1>10, <2>1, <2>3, <2>4, AtKept
      <3> QED
        BY <2>1, <2>3, <3>1 DEF Alike
    <2>5. CASE ~(n.contig \/ k = 0)
      <3>1. k - 1 \in Place(q) /\ \A c \in Clusters : c # At(q, k - 1) => fat'[c] = fat[c]
        BY <1>2, <1>10, <1>11, <2>5
      <3>2. At(o, i)' = At(o, i)
        BY <1>0, <1>3, <1>2, <1>4, <2>1, <2>2, <2>3, <3>1, BeforeKept DEF Space
      <3> QED
        BY <2>1, <2>3, <3>2 DEF Alike
    <2> QED
      BY <2>4, <2>5
  <1>14. Apart' /\ Whole'
    <2>1. \A o \in Objects : \A i \in Place(o) : At(o, i) \in Clusters => At(o, i) \in cmap'
      BY <1>1, <1>3 DEF Space, Apart
    <2> QED
      BY <1>3, <1>13, <2>1, Kept DEF Space
  <1>15. NoStart'
    <2>1. \A o \in Objects : node[o].start = FREE => node[o].size = 0
      BY <1>3 DEF Space, NoStart
    <2>2. n.start = FREE => n.size = 0
      BY <1>2, <1>4, <2>1
    <2>3. m.start = FREE /\ k # 0 => m.size = 0
      BY <1>5, <2>2
    <2>4. \A o \in Objects : node'[o].start = FREE /\ ~(o = q /\ k = 0) => node'[o].size = 0
      BY <1>6, <2>1, <2>3
    <2> QED
      BY <1>8, <1>c, <2>4 DEF NoStart, Objects, Objs, FREE
  <1>16. \A i \in 0 .. z - 1 : CutAt(i)' = At(q, k + i) /\ k + i \in Place(q)
    <2>1. CASE z = 0
      BY <2>1
    <2>2. CASE z > 0
      <3>1. PICK ct, s : ct = n.contig /\ s = n.start
        OBVIOUS
      <3>2. \A i : At(q, i) = WalkIn(fat, ct, s)[i]
        BY <1>12, <3>1, AtIs
      <3>3. \A i : CutAt(i)' = WalkIn(fat', ct, At(q, k))[i]
        BY <1>5, <1>6, <1>8, <3>1, CutIs
      <3>4. PICK fb, y : fb = fat' /\ y = z - 1
        OBVIOUS
      <3>5. y \in Nat /\ k \in Nat
        BY <1>2, <2>2, <3>4
      <3>6. LinksStay(fat, fb, ct, s, k, y)
        <4> SUFFICES ASSUME NEW i \in 0 .. y - 1, NEW c, c = WalkIn(fat, ct, s)[k + i], c \in Clusters, ~ct
                     PROVE  fb[c] = fat[c]
          BY DEF LinksStay
        <4>1. c = At(q, k + i) /\ k + i \in Place(q)
          BY <1>2, <1>11, <3>2, <3>4
        <4>2. CASE k = 0
          BY <1>10, <3>4, <4>2
        <4>3. CASE k > 0
          <5>1. k - 1 \in Place(q) /\ k - 1 # k + i
            BY <1>2, <1>11, <4>3
          <5>2. At(q, k - 1) # c
            BY <1>2, <1>3, <1>4, <4>1, <5>1 DEF Space, Apart
          <5> QED
            BY <1>10, <3>1, <3>4, <4>3, <5>2
        <4> QED
          BY <1>2, <4>2, <4>3
      <3>7. \A i \in 0 .. y : WalkIn(fb, ct, At(q, k))[i] = At(q, k + i)
        <4>1. \A i \in 0 .. y : WalkIn(fb, ct, WalkIn(fat, ct, s)[k])[i] = WalkIn(fat, ct, s)[k + i]
          BY <3>5, <3>6, WalkOn
        <4> QED
          BY <3>2, <4>1
      <3>8. \A i \in 0 .. z - 1 : k + i \in Place(q)
        BY <1>2, <1>11
      <3> QED
        BY <3>3, <3>4, <3>7, <3>8
    <2> QED
      BY <1>2, <2>1, <2>2
  <1>e. k > 0 /\ n.contig = FALSE => At(q, k)' = END
    <2> SUFFICES ASSUME k > 0, n.contig = FALSE PROVE At(q, k)' = END
      OBVIOUS
    <2>1. PICK ct, s : ct = m.contig /\ s = m.start
      OBVIOUS
    <2>2. \A i : At(q, i)' = WalkIn(fat', ct, s)[i]
      BY <1>12, <2>1, AtIs
    <2>3. k - 1 \in Nat /\ (k - 1) + 1 = k /\ k - 1 \in Place(q)'
      BY <1>2, <1>11
    <2>4. At(q, k)' = Step(fat', ct, At(q, k - 1)')
      <3>1. WalkIn(fat', ct, s)[(k - 1) + 1] = Step(fat', ct, WalkIn(fat', ct, s)[k - 1])
        BY <2>3, WalkIs
      <3> QED
        BY <2>2, <2>3, <3>1
    <2>5. At(q, k - 1)' = At(q, k - 1)
      BY <1>2, <1>4, <1>13, <2>3
    <2>6. ct = FALSE
      BY <1>5, <2>1
    <2> QED
      BY <1>9, <1>10, <2>4, <2>5, <2>6 DEF Step
  <1>17. CutOff'
    <2>1. ASSUME NEW i \in 0 .. z - 1, CutAt(i)' \in Clusters
          PROVE  /\ CutAt(i)' \notin System
                 /\ \A o \in Objects : \A j \in Place(o)' : At(o, j)' # CutAt(i)'
                 /\ \A j \in 0 .. z - 1 : CutAt(j)' = CutAt(i)' => i = j
      <3>1. CutAt(i)' = At(q, k + i) /\ k + i \in Place(q) /\ At(q, k + i) \in Clusters
        BY <1>16, <2>1
      <3>2. At(q, k + i) \notin System
        <4>1. At(q, k + i) \notin Foreign(q)
          BY <1>3, <1>2, <1>4, <3>1 DEF Space, Apart
        <4>2. CASE q # ROOT
          BY <4>1, <4>2 DEF Foreign
        <4>3. CASE q = ROOT
          <5>1. At(q, 0) = 4
            <6>1. PICK ct, s : s = n.start /\ At(q, 0) = WalkIn(fat, ct, s)[0]
              BY <1>12, AtIs
            <6>2. At(q, 0) = s
              BY <6>1, WalkIs
            <6> QED
              BY <1>2, <1>4, <4>3, <6>1, <6>2
          <5>2. k > 0 /\ 0 \in Place(q) /\ k + i # 0
            BY <1>2, <1>4, <1>11, <3>1, <4>3
          <5>3. At(q, k + i) # 4
            BY <1>3, <1>2, <1>4, <3>1, <5>1, <5>2 DEF Space, Apart
          <5> QED
            BY <4>1, <4>3, <5>3 DEF Foreign
        <4> QED
          BY <4>2, <4>3
      <3>3. ASSUME NEW o \in Objects, NEW j \in Place(o)' PROVE At(o, j)' # CutAt(i)'
        <4>1. j \in Place(o) /\ At(o, j)' = At(o, j)
          BY <1>13, <3>3
        <4>2. ~(o = q /\ j = k + i)
          BY <1>2, <1>11, <2>1, <3>3
        <4> QED
          BY <1>3, <1>2, <1>4, <3>1, <4>1, <4>2 DEF Space, Apart
      <3>4. ASSUME NEW j \in 0 .. z - 1, CutAt(j)' = CutAt(i)' PROVE i = j
        <4>1. At(q, k + j) = At(q, k + i) /\ k + j \in Place(q)
          BY <1>16, <3>1, <3>4
        <4>2. k + j = k + i
          BY <1>3, <1>2, <1>4, <3>1, <4>1 DEF Space, Apart
        <4> QED
          BY <1>2, <2>1, <3>4, <4>2
      <3> QED
        BY <3>1, <3>2, <3>3, <3>4
    <2>2. m.contig => \A i \in 0 .. z - 1 : CutAt(i)' \in Clusters
      BY <1>3, <1>2, <1>4, <1>5, <1>12, <1>16 DEF Space, Whole
    <2>3. ASSUME ~m.contig \/ k = 0 PROVE At(q, k)' \notin Clusters
      <3>1. PICK ct, s : ct = m.contig /\ s = m.start
        OBVIOUS
      <3>2. \A i : At(q, i)' = WalkIn(fat', ct, s)[i]
        BY <1>12, <3>1, AtIs
      <3>3. CASE k = 0
        BY <1>5, <3>1, <3>2, <3>3, WalkIs, ClusterSet
      <3>4. CASE k > 0 /\ ~ct
        <4>4. At(q, k)' = END
          BY <1>2, <1>5, <1>e, <3>1, <3>4 DEF IsNode
        <4> QED
          BY <4>4, ClusterSet
      <3> QED
        BY <1>2, <2>3, <3>1, <3>3, <3>4
    <2>4. At(t.o, t.to)' = At(q, k)'
      BY <1>8 DEF At
    <2> QED
      BY <1>6, <1>8, <2>1, <2>2, <2>3, <2>4 DEF CutOff, System, Clusters, Objects, Objs
  <1>18. Growing'
    BY <1>c DEF Growing
  <1> QED
    BY <1>2, <1>4, <1>13, <1>14, <1>15, <1>16, <1>17, <1>18, <1>e DEF Space

(* The cut keeps the invariant.                                             *)
LEMMA CropInv ==
    ASSUME IInv, Basic', Crop PROVE IInv'
  <1>0. Basic /\ Bounds /\ SystemKept /\ NodesTyped
    BY DEF IInv, Basic, Typed, MemoryTyped
  <1>1. /\ pc = "crop" /\ UNCHANGED <<vbr, sysents, dmap, data, dent, g_initialized, cmap, cached, sound>>
    BY DEF Crop, seen
  <1>2. pc \in Cutting
    BY <1>1 DEF Cutting
  <1>3. CASE TruncFailed /\ UNCHANGED <<fat, node>>
    BY <1>1, <1>2, <1>3, TruncFailedInv
  <1>4. CASE CutsOff
    <2>1. IsNode(node[t.o]) /\ t.o \in Objects /\ g_initialized
      BY <1>0, <1>2, CuttingFacts
    <2>2. PICK m : m = Cropped(node[t.o], t.to)
      OBVIOUS
    <2>3. IsNode(m) /\ m.size = node[t.o].size
      BY <2>1, <2>2, NodeCropped
    <2>4. \A o \in Objects : node'[o].size = node[o].size
      <3>1. SetNode(t.o, m)
        BY <1>4, <2>2 DEF CutsOff
      <3> QED
        BY <1>0, <2>1, <2>3, <3>1, NodeReplaced
    <2>5. Bounds'
      BY <1>0, <1>1, <1>4, <2>1, <2>4 DEF CutsOff, Bounds, Objects, Objs
    <2>6. SystemKept'
      BY <1>0, <1>1, <1>4, SystemSame DEF CutsOff
    <2>7. sound => Space'
      BY <1>1, <1>4, CropSpace
    <2> QED
      BY <1>1, <2>5, <2>6, <2>7, IInvParts
  <1> QED
    BY <1>3, <1>4 DEF Crop, Valid, CutsOff

(* A cluster that is given back belongs to no file and not to the system.   *)
LEMMA FreedKept ==
    ASSUME Basic, Space, pc = "free", t.left > 0, UNCHANGED <<node, dent, cached>>,
           (t.prev \in Clusters /\ Freed) \/ UNCHANGED <<fat, cmap>>
    PROVE  /\ t.prev \in Clusters => t.prev \notin System
           /\ \A c \in Clusters : c # t.prev => fat'[c] = fat[c]
           /\ \A o \in Objects : \A i \in Place(o) :
                 At(o, i)' = At(o, i) /\ (At(o, i) \in Clusters => At(o, i) \in cmap')
           /\ \A q, k : q = t.o /\ k = t.to => At(q, k)' = At(q, k)
  <1>0. fat \in [Clusters -> Clusters \union {FREE, END}] /\ t.o \in Objects /\ t.to \in Nat /\ t.left \in Nat
    BY DEF Basic, Typed, DeviceTyped, CallTyped, IsTrunc
  <1>1. CutAt(0) = t.prev /\ 0 \in 0 .. t.left - 1
    <2>1. CutAt(0) = WalkIn(fat, node[t.o].contig, t.prev)[0]
      BY CutIs
    <2> QED
      BY <1>0, <2>1, WalkIs
  <1>2. t.prev \in Clusters => t.prev \notin System /\ \A o \in Objects : \A j \in Place(o) : At(o, j) # t.prev
    BY <1>1 DEF Space, CutOff
  <1>3. /\ \A c \in Clusters : c # t.prev => fat'[c] = fat[c]
        /\ \A c \in cmap : c # t.prev => c \in cmap'
        /\ t.prev \notin Clusters => cmap' = cmap
    BY <1>0 DEF Freed
  <1>4. ASSUME NEW o \in Objects, NEW k \in Nat, 0 .. k - 1 \subseteq Place(o)
        PROVE  \A i \in 0 .. k : At(o, i)' = At(o, i)
    <2>1. \A i \in 0 .. k - 1 : At(o, i) \in Clusters => fat'[At(o, i)] = fat[At(o, i)]
      BY <1>2, <1>3, <1>4
    <2>2. Alike(o)
      BY SameViews
    <2> QED
      BY <2>1, <2>2, AtKept
  <1>5. ASSUME NEW o \in Objects, NEW i \in Place(o)
        PROVE  At(o, i)' = At(o, i) /\ (At(o, i) \in Clusters => At(o, i) \in cmap')
    <2>1. i \in Nat /\ 0 .. i - 1 \subseteq Place(o) /\ i \in 0 .. i
      <3>1. Length(o) \in Int
        BY ViewTyped
      <3> QED
        BY <3>1 DEF Place
    <2>2. At(o, i)' = At(o, i)
      BY <1>4, <2>1
    <2>3. At(o, i) \in Clusters => At(o, i) \in cmap
      BY DEF Space, Apart
    <2> QED
      BY <1>2, <1>3, <2>2, <2>3
  <1>6. ASSUME NEW q, NEW k, q = t.o, k = t.to PROVE At(q, k)' = At(q, k)
    <2>1. Place(q) = 0 .. k - 1
      BY <1>6 DEF Place, Length
    <2>2. k \in 0 .. k
      BY <1>0, <1>6
    <2> QED
      BY <1>0, <1>4, <1>6, <2>1, <2>2
  <1> QED
    BY <1>2, <1>3, <1>5, <1>6

(* One cluster is freed and the next found.                                 *)
FreesOne ==
    /\ t.prev \in Clusters /\ Freed
    /\ t' = [t EXCEPT !.prev = IF node[t.o].contig THEN t.prev + 1 ELSE fat[t.prev], !.left = t.left - 1]
    /\ pc' = pc

(* The rest of what was cut off is one place shorter, and otherwise as      *)
(* before.                                                                  *)
LEMMA FreesOneSpace ==
    ASSUME IInv, Basic', sound, pc = "free", t.left > 0, UNCHANGED <<node, dent, cached>>, FreesOne
    PROVE  /\ Space'
           /\ \A i \in 0 .. t.left - 2 : CutAt(i)' = CutAt(i + 1) /\ i + 1 \in 0 .. t.left - 1
           /\ \A o \in Objects : Place(o)' = Place(o) /\ \A i \in Place(o) : At(o, i)' = At(o, i)
           /\ \A q, k : q = t.o /\ k = t.to => At(q, k)' = At(q, k)
  <1>0. Basic /\ fat \in [Clusters -> Clusters \union {FREE, END}] /\ IsTrunc(t) /\ pc \in Cutting
    BY DEF IInv, Basic, Typed, DeviceTyped, CallTyped, Cutting
  <1>c. pc' = "free" /\ t.prev \in Clusters /\ Freed
    BY DEF FreesOne
  <1>1. Space
    BY <1>0, CuttingFacts DEF IInv
  <1>2. PICK q, n, k, z, pr, ct : q = t.o /\ n = node[t.o] /\ k = t.to /\ z = t.left /\ pr = t.prev /\ ct = n.contig
    OBVIOUS
  <1>3. /\ q \in Objects /\ k \in Nat /\ z \in Nat /\ z > 0 /\ pr \in Clusters
    BY <1>0, <1>2, <1>c DEF IsTrunc
  <1>4. PICK nx : nx = (IF ct THEN pr + 1 ELSE fat[pr])
    OBVIOUS
  <1>5. nx \in Int /\ nx = Step(fat, ct, pr)
    BY <1>0, <1>3, <1>4, ClusterSet DEF Step, FREE, END
  <1>6. t'.o = q /\ t'.to = k /\ t'.left = z - 1 /\ t'.prev = nx
    <2>1. t' = [t EXCEPT !.prev = nx, !.left = z - 1]
      BY <1>2, <1>4 DEF FreesOne
    <2>2. z - 1 \in Nat
      BY <1>3
    <2> QED
      BY <1>0, <1>2, <1>5, <2>1, <2>2, TruncMoves
  <1>7. /\ pr \notin System
        /\ \A c \in Clusters : c # pr => fat'[c] = fat[c]
        /\ \A o \in Objects : \A i \in Place(o) :
              At(o, i)' = At(o, i) /\ (At(o, i) \in Clusters => At(o, i) \in cmap')
        /\ At(q, k)' = At(q, k)
    BY <1>0, <1>1, <1>2, <1>c, FreedKept
  <1>8. \A o \in Objects : View(o)' = View(o) /\ Place(o)' = Place(o)
    <2> SUFFICES ASSUME NEW o \in Objects PROVE View(o)' = View(o) /\ Place(o)' = Place(o)
      OBVIOUS
    <2>1. View(o)' = View(o)
      BY SameViews
    <2>2. CASE o = q
      BY <1>2, <1>6, <1>c, <2>1, <2>2 DEF Place, Length
    <2>3. CASE o # q
      <3>1. Length(o)' = Length(o)
        BY <1>2, <1>6, <2>1, <2>3, Lengths
      <3> QED
        BY <2>1, <3>1 DEF Place
    <2> QED
      BY <2>2, <2>3
  <1>9. Apart' /\ Whole'
    BY <1>1, <1>7, <1>8, Kept DEF Space
  <1>10. NoStart'
    BY <1>1, <1>2, <1>6, <1>c DEF Space, NoStart, Objects, Objs, FREE
  <1>11. Growing'
    BY <1>c DEF Growing
  <1>12. /\ \A i : CutAt(i) = WalkIn(fat, ct, pr)[i]
         /\ \A i : CutAt(i)' = WalkIn(fat', ct, nx)[i]
    BY <1>2, <1>6, CutIs
  <1>13. \A i \in 0 .. z - 2 : CutAt(i)' = CutAt(i + 1) /\ i + 1 \in 0 .. z - 1
    <2>1. CASE z = 1
      BY <2>1
    <2>2. CASE z > 1
      <3>1. PICK fb, y, a : fb = fat' /\ y = z - 2 /\ a = 1
        OBVIOUS
      <3>2. y \in Nat /\ a \in Nat
        BY <1>3, <2>2, <3>1
      <3>3. WalkIn(fat, ct, pr)[1] = nx
        <4>1. WalkIn(fat, ct, pr)[0 + 1] = Step(fat, ct, WalkIn(fat, ct, pr)[0])
          BY WalkIs
        <4> QED
          BY <1>5, <4>1, WalkIs
      <3>4. LinksStay(fat, fb, ct, pr, a, y)
        <4> SUFFICES ASSUME NEW i \in 0 .. y - 1, NEW c, c = WalkIn(fat, ct, pr)[a + i], c \in Clusters
                     PROVE  fb[c] = fat[c]
          BY DEF LinksStay
        <4>1. c = CutAt(1 + i) /\ 1 + i \in 0 .. z - 1 /\ 0 \in 0 .. z - 1 /\ 1 + i # 0
          BY <1>3, <1>12, <3>1
        <4>2. CutAt(0) = pr
          BY <1>12, WalkIs
        <4>3. c # pr
          BY <1>1, <1>2, <1>3, <4>1, <4>2 DEF Space, CutOff
        <4> QED
          BY <1>7, <3>1, <4>3
      <3>5. \A i \in 0 .. y : WalkIn(fb, ct, WalkIn(fat, ct, pr)[a])[i] = WalkIn(fat, ct, pr)[a + i]
        BY <3>2, <3>4, WalkOn
      <3>6. \A i \in 0 .. y : CutAt(i)' = CutAt(1 + i)
        BY <1>12, <3>1, <3>3, <3>5
      <3>7. \A i \in 0 .. z - 2 : 1 + i = i + 1 /\ i + 1 \in 0 .. z - 1
        BY <1>3
      <3> QED
        BY <3>1, <3>6, <3>7
    <2> QED
      BY <1>3, <2>1, <2>2
  <1>14. CutOff'
    <2>0. (z - 1) - 1 = z - 2
      BY <1>3
    <2>1. ASSUME NEW i \in 0 .. z - 2, CutAt(i)' \in Clusters
          PROVE  /\ CutAt(i)' \notin System
                 /\ \A o \in Objects : \A j \in Place(o)' : At(o, j)' # CutAt(i)'
                 /\ \A j \in 0 .. z - 2 : CutAt(j)' = CutAt(i)' => i = j
      <3>1. CutAt(i)' = CutAt(i + 1) /\ i + 1 \in 0 .. z - 1 /\ CutAt(i + 1) \in Clusters
        BY <1>13, <2>1
      <3>2. /\ CutAt(i + 1) \notin System
            /\ \A o \in Objects : \A j \in Place(o) : At(o, j) # CutAt(i + 1)
            /\ \A j \in 0 .. z - 1 : CutAt(j) = CutAt(i + 1) => i + 1 = j
        BY <1>1, <1>2, <3>1 DEF Space, CutOff
      <3>3. \A j \in 0 .. z - 2 : CutAt(j)' = CutAt(i)' => i + 1 = j + 1
        BY <1>13, <3>1, <3>2
      <3>4. \A j \in 0 .. z - 2 : CutAt(j)' = CutAt(i)' => i = j
        BY <1>3, <3>3
      <3> QED
        BY <1>7, <1>8, <3>1, <3>2, <3>4
    <2>2. ct => \A i \in 0 .. z - 2 : CutAt(i)' \in Clusters
      <3>1. ct => \A i \in 0 .. z - 1 : CutAt(i) \in Clusters
        BY <1>1, <1>2 DEF Space, CutOff
      <3> QED
        BY <1>13, <3>1
    <2>3. ~ct \/ k = 0 => At(q, k)' \notin Clusters
      BY <1>1, <1>2, <1>7 DEF Space, CutOff
    <2>4. At(t.o, t.to)' = At(q, k)'
      BY <1>6 DEF At
    <2>5. node'[t'.o].contig = ct
      BY <1>2, <1>6
    <2> QED
      BY <1>6, <2>0, <2>1, <2>2, <2>3, <2>4, <2>5 DEF CutOff, System, Clusters, Objects, Objs
  <1> QED
    BY <1>2, <1>7, <1>8, <1>9, <1>10, <1>11, <1>13, <1>14 DEF Space

(* The device fails while clusters are freed, and the old size stays.       *)
FreeStops ==
    /\ node[t.o].start # FREE
    /\ (t.prev \in Clusters /\ ~node[t.o].contig /\ Freed) \/ UNCHANGED <<fat, cmap>>
    /\ t.prev \notin Clusters \/ ~node[t.o].contig

(* The old size then counts places again that were cut off. They hold no    *)
(* cluster: a file that is not contiguous ends where it was cut. A          *)
(* contiguous file never fails here, and one that was cut to nothing makes  *)
(* the volume unsound.                                                      *)
LEMMA FreeStopsSpace ==
    ASSUME IInv, Basic', sound, pc = "free", t.left > 0, UNCHANGED <<node, dent, cached>>, FreeStops, pc' \notin Mid
    PROVE  Space'
  <1>0. Basic /\ fat \in [Clusters -> Clusters \union {FREE, END}] /\ IsTrunc(t) /\ pc \in Cutting /\ Progress
    BY DEF IInv, Basic, Typed, DeviceTyped, CallTyped, Cutting
  <1>1. Space
    BY <1>0, CuttingFacts DEF IInv
  <1>2. PICK q, n, k : q = t.o /\ n = node[t.o] /\ k = t.to
    OBVIOUS
  <1>3. /\ q \in Objects /\ k \in Nat /\ n.start # FREE /\ View(q) = n /\ n.size \in Nat /\ k <= n.size
    BY <1>0, <1>2, CuttingFacts, CutView DEF FreeStops, Progress, IsNode
  <1>4. ~n.contig
    <2>1. 0 \in 0 .. t.left - 1
      BY <1>0 DEF IsTrunc
    <2>2. CutAt(0) = t.prev
      BY CutIs, WalkIs
    <2>3. n.contig => t.prev \in Clusters
      BY <1>1, <1>2, <2>1, <2>2 DEF Space, CutOff
    <2> QED
      BY <1>2, <2>3 DEF FreeStops
  <1>5. At(q, k) \notin Clusters
    BY <1>1, <1>2, <1>4 DEF Space, CutOff
  <1>6. /\ \A o \in Objects : \A i \in Place(o) :
              At(o, i)' = At(o, i) /\ (At(o, i) \in Clusters => At(o, i) \in cmap')
        /\ At(q, k)' = At(q, k)
    <2>1. (t.prev \in Clusters /\ Freed) \/ UNCHANGED <<fat, cmap>>
      BY DEF FreeStops
    <2> QED
      BY <1>0, <1>1, <1>2, <2>1, FreedKept
  <1>7. \A o \in Objects : View(o)' = View(o) /\ Length(o)' = View(o).size
    BY SameViews, Lengths
  <1>8. Place(q) = 0 .. k - 1 /\ \A o \in Objects : o # q => Length(o) = View(o).size
    BY <1>2, Lengths DEF Place, Length
  <1>9. ASSUME NEW i \in Place(q)', i \notin Place(q) PROVE At(q, i)' \notin Clusters
    <2>1. i \in Nat /\ k <= i
      <3>1. i \in 0 .. n.size - 1
        BY <1>3, <1>7, <1>9 DEF Place
      <3> QED
        BY <1>3, <1>8, <1>9, <3>1
    <2>2. PICK ct, s : \A j : At(q, j)' = WalkIn(fat', ct, s)[j]
      BY AtIs
    <2> QED
      BY <1>3, <1>5, <1>6, <2>1, <2>2, WalkLeft
  <1>10. \A o \in Objects : \A i \in Place(o)' : At(o, i)' \in Clusters =>
            i \in Place(o) /\ At(o, i)' = At(o, i) /\ At(o, i) \in cmap'
    <2> SUFFICES ASSUME NEW o \in Objects, NEW i \in Place(o)', At(o, i)' \in Clusters
                 PROVE  i \in Place(o) /\ At(o, i)' = At(o, i) /\ At(o, i) \in cmap'
      OBVIOUS
    <2>1. i \in Place(o)
      <3>1. CASE o = q
        BY <1>9, <3>1
      <3>2. CASE o # q
        BY <1>7, <1>8, <3>2 DEF Place
      <3> QED
        BY <3>1, <3>2
    <2> QED
      BY <1>6, <2>1
  <1>11. \A o \in Objects : View(o)'.contig =>
            \A i \in Place(o)' : View(o).contig /\ i \in Place(o) /\ At(o, i)' = At(o, i)
    <2> SUFFICES ASSUME NEW o \in Objects, View(o)'.contig, NEW i \in Place(o)'
                 PROVE  View(o).contig /\ i \in Place(o) /\ At(o, i)' = At(o, i)
      OBVIOUS
    <2>1. View(o).contig /\ o # q
      BY <1>3, <1>4, <1>7
    <2>2. i \in Place(o)
      BY <1>7, <1>8, <2>1 DEF Place
    <2> QED
      BY <1>6, <2>1, <2>2
  <1>12. Apart' /\ Whole'
    BY <1>1, <1>10, <1>11, Kept DEF Space
  <1>13. NoStart'
    <2>1. \A o \in Objects : node[o].start = FREE => node[o].size = 0
      BY <1>1, <1>2, <1>3 DEF Space, NoStart
    <2> QED
      BY <2>1 DEF NoStart, Objects, Objs, FREE
  <1>14. CutOff' /\ Growing'
    BY DEF CutOff, Growing, Mid
  <1> QED
    BY <1>12, <1>13, <1>14 DEF Space

(* Freeing a cluster keeps the invariant.                                   *)
LEMMA FreeOneInv ==
    ASSUME IInv, Basic', FreeOne PROVE IInv'
  <1>0. Basic /\ Bounds /\ SystemKept /\ Control /\ CountTyped
    BY DEF IInv, Basic, Typed
  <1>1. /\ pc = "free" /\ t.left > 0 /\ UNCHANGED <<sysents, dmap, dent, g_initialized, node, cached>>
    BY DEF FreeOne
  <1>2. pc \in Cutting
    BY <1>1 DEF Cutting
  <1>3. \/ FreesOne /\ sound' = sound
        \/ TruncFailed /\ sound' = (sound /\ node[t.o].start # FREE)
           /\ ((t.prev \in Clusters /\ ~node[t.o].contig /\ Freed) \/ UNCHANGED <<fat, cmap>>)
           /\ (t.prev \notin Clusters \/ ~node[t.o].contig)
    BY DEF FreeOne, FreesOne, Valid
  <1>4. sound' => sound
    BY <1>0, <1>3 DEF CountTyped
  <1>5. pc' \notin {"erasenew", "mkuct", "mkroot"} /\ (TruncFailed => pc' \notin Mid)
    <2>1. t.kf \in TruncElse
      BY <1>0, <1>2 DEF Control
    <2> QED
      BY <1>1, <1>3, <2>1 DEF TruncFailed, TruncElse, FreesOne, Mid
  <1>6. Bounds'
    BY <1>0, <1>1, <1>4, <1>5 DEF Bounds, Objects, Objs
  <1>7. ASSUME sound', g_initialized' PROVE Space'
    <2>1. CASE FreesOne
      BY <1>1, <1>4, <1>7, <2>1, FreesOneSpace
    <2>2. CASE TruncFailed /\ FreeStops
      BY <1>1, <1>4, <1>5, <1>7, <2>2, FreeStopsSpace
    <2> QED
      BY <1>3, <1>7, <2>1, <2>2 DEF FreeStops
  <1>8. SystemKept'
    <2>1. ASSUME sound', g_initialized' PROVE System \subseteq cmap'
      <3>1. Space /\ System \subseteq cmap
        BY <1>0, <1>1, <1>4, <2>1 DEF IInv, SystemKept
      <3>2. (t.prev \in Clusters /\ Freed) \/ UNCHANGED <<fat, cmap>>
        BY <1>3 DEF FreesOne
      <3>3. t.prev \in Clusters => t.prev \notin System
        BY <1>0, <1>1, <3>1, <3>2, FreedKept
      <3> QED
        BY <3>1, <3>2, <3>3 DEF Freed
    <2> QED
      BY <1>0, <1>1, <1>4, <1>5, <2>1 DEF SystemKept, System
  <1> QED
    BY <1>6, <1>7, <1>8, IInvParts

(* What a turn of grow_file's loop does to the links and nodes.             *)
Regrown(q, L) ==
    /\ \A d \in Clusters : fat'[d] = fat[d] \/ \E j \in Place(q) : At(q, j) = d
    /\ \A p \in Objects : p # q => node'[p] = node[p]
    /\ node'[q].start = node[q].start /\ node'[q].size = node[q].size
    /\ \A i \in 0 .. L - 1 : At(q, i)' = At(q, i)

(* It leaves other files alone,                                             *)
LEMMA RegrownOthers ==
    ASSUME Basic, Space, pc = "grow", UNCHANGED <<dent, cached>>, NEW q, q = t.o, NEW L, Regrown(q, L),
           pc' \notin Mid \/ t'.o = q, NEW o \in Objects, o # q
    PROVE  /\ View(o)' = View(o) /\ Place(o)' = Place(o)
           /\ \A i \in Place(o) : At(o, i)' = At(o, i)
  <1>1. View(o)' = View(o) /\ Alike(o)
    BY DEF View, Alike, Regrown
  <1>2. q \in Objects
    BY DEF Basic, Typed, CallTyped, IsTrunc
  <1>3. Length(o)' = Length(o)
    BY <1>1, Lengths
  <1>4. \A d \in Clusters : fat'[d] = fat[d] \/ \E j \in Place(q) : At(q, j) = d
    BY DEF Regrown
  <1> QED
    BY <1>1, <1>2, <1>3, <1>4, OthersKept DEF Space, Place

(* and no file without a start has a size.                                  *)
LEMMA RegrownStart ==
    ASSUME Basic, Space, pc = "grow", NEW q, q = t.o, NEW L, Regrown(q, L)
    PROVE  NoStart'
  <1>1. \A o \in Objects : node[o].start = FREE => node[o].size = 0
    BY DEF Space, NoStart
  <1>2. q \in Objects
    BY DEF Basic, Typed, CallTyped, IsTrunc
  <1>3. \A o \in Objects : node'[o].start = FREE => node'[o].size = 0
    BY <1>1, <1>2 DEF Regrown
  <1> QED
    BY <1>3 DEF NoStart, Objects, Objs, FREE

(* The cluster that was allocated is linked to the file.                    *)
LEMMA GrownSpace ==
    ASSUME Basic, Space, System \subseteq cmap, pc = "grow", pc' = "grow", UNCHANGED <<dent, cached>>,
           NEW q, q = t.o, NEW L, L = t.to - t.left, Regrown(q, L),
           NEW c \in Clusters, c \notin cmap, cmap' = cmap \union {c},
           t'.o = q, t'.to - t'.left = L + 1, t'.prev = c, At(q, L)' = c
    PROVE  Space'
  <1>1. /\ L \in Nat /\ L > 0 /\ Place(q) = 0 .. L - 1
        /\ \A i \in 0 .. L - 1 : At(q, i) \in Clusters
    BY GrownAll
  <1>2. q \in Objects
    BY DEF Basic, Typed, CallTyped, IsTrunc
  <1>3. Place(q)' = 0 .. L
    <2>1. Length(q)' = L + 1
      BY DEF Length
    <2> QED
      BY <1>1, <2>1 DEF Place
  <1>4. \A i \in 0 .. L : i = L \/ i \in 0 .. L - 1
    BY <1>1
  <1>5. ASSUME NEW o \in Objects, o # q
        PROVE  /\ View(o)' = View(o) /\ Place(o)' = Place(o)
               /\ \A i \in Place(o) : At(o, i)' = At(o, i)
    BY <1>5, RegrownOthers
  <1>6. \A i \in 0 .. L - 1 : At(q, i)' = At(q, i)
    BY DEF Regrown
  <1>7. Apart' /\ Whole'
    <2>1. ASSUME NEW o \in Objects, NEW i \in Place(o)', At(o, i)' \in Clusters
          PROVE  \/ i \in Place(o) /\ At(o, i)' = At(o, i)
                 \/ o = q /\ i = L /\ At(o, i)' = c
      <3>1. CASE o # q
        BY <1>5, <2>1, <3>1
      <3>2. CASE o = q
        BY <1>1, <1>3, <1>4, <1>6, <2>1, <3>2
      <3> QED
        BY <3>1, <3>2
    <2>2. ASSUME NEW o \in Objects, View(o)'.contig, NEW i \in Place(o)'
          PROVE  \/ View(o).contig /\ i \in Place(o) /\ At(o, i)' = At(o, i)
                 \/ At(o, i)' \in Clusters
      <3>1. CASE o # q
        BY <1>5, <2>2, <3>1
      <3>2. CASE o = q
        BY <1>1, <1>3, <1>4, <1>6, <2>2, <3>2
      <3> QED
        BY <3>1, <3>2
    <2> QED
      BY <1>2, <2>1, <2>2, Glued DEF Space
  <1>8. NoStart'
    BY RegrownStart
  <1>9. CutOff'
    BY DEF CutOff
  <1>10. Growing'
    <2>1. t'.to - t'.left - 1 = L
      BY <1>1
    <2>2. At(t.o, t.to - t.left - 1)' = At(q, L)'
      BY <2>1 DEF At
    <2> QED
      BY <2>2 DEF Growing
  <1> QED
    BY <1>7, <1>8, <1>9, <1>10 DEF Space

(* It was not: the file is as long as before.                               *)
LEMMA GrowStopsSpace ==
    ASSUME Basic, Space, pc = "grow", pc' \notin Mid, UNCHANGED <<dent, cached>>, cmap \subseteq cmap',
           NEW q, q = t.o, NEW L, L = t.to - t.left, Regrown(q, L), node'[q].contig => node[q].contig
    PROVE  Space'
  <1>1. /\ L \in Nat /\ L > 0 /\ Place(q) = 0 .. L - 1
        /\ \A i \in 0 .. L - 1 : At(q, i) \in Clusters
    BY GrownAll
  <1>2. q \in Objects /\ Progress /\ pc \in Cutting
    BY DEF Basic, Typed, CallTyped, IsTrunc, Cutting
  <1>3. Place(q)' \subseteq 0 .. L - 1 /\ View(q)' = node'[q] /\ View(q) = node[q]
    <2>1. q = ROOT \/ Under[q] \in cached
      BY <1>2, CuttingFacts
    <2>2. View(q)' = node'[q] /\ View(q) = node[q]
      BY <2>1 DEF View
    <2>3. Length(q)' = node[q].size
      BY <2>2, Lengths DEF Regrown
    <2>4. node[q].size <= L /\ node[q].size \in Nat
      BY <1>2, CuttingFacts DEF Progress, IsNode
    <2> QED
      BY <1>1, <2>2, <2>3, <2>4 DEF Place
  <1>5. ASSUME NEW o \in Objects, o # q
        PROVE  /\ View(o)' = View(o) /\ Place(o)' = Place(o)
               /\ \A i \in Place(o) : At(o, i)' = At(o, i)
    BY <1>5, RegrownOthers
  <1>6. \A i \in 0 .. L - 1 : At(q, i)' = At(q, i)
    BY DEF Regrown
  <1>7. ASSUME NEW o \in Objects, NEW i \in Place(o)'
        PROVE  i \in Place(o) /\ At(o, i)' = At(o, i) /\ (View(o)'.contig => View(o).contig)
    <2>1. CASE o # q
      BY <1>5, <1>7, <2>1
    <2>2. CASE o = q
      BY <1>1, <1>3, <1>6, <1>7, <2>2
    <2> QED
      BY <2>1, <2>2
  <1>8. Apart' /\ Whole'
    <2>1. \A o \in Objects : \A i \in Place(o) : At(o, i) \in Clusters => At(o, i) \in cmap'
      BY DEF Space, Apart
    <2> QED
      BY <1>7, <2>1, Kept DEF Space
  <1>9. NoStart'
    BY RegrownStart
  <1>10. CutOff' /\ Growing'
    BY DEF CutOff, Growing, Mid
  <1> QED
    BY <1>8, <1>9, <1>10 DEF Space

(* Writing out the links of a file that was contiguous leaves it where it   *)
(* was.                                                                     *)
LinksIn(fb, s, pr) == \A d \in Clusters : fb[d] = fat[d] \/ (s <= d /\ d <= pr)

(* The links written are those of the file, and it can be walked by them as *)
(* before.                                                                  *)
LEMMA LinkedSame ==
    ASSUME Basic, Space, pc = "grow", NEW q, q = t.o, NEW L, L = t.to - t.left,
           NEW ct, NEW s, ct = node[q].contig, s = node[q].start,
           Straight(fat, ct), NEW fb, LinksIn(fb, s, t.prev)
    PROVE  /\ \A d \in Clusters : fb[d] = fat[d] \/ \E j \in Place(q) : At(q, j) = d
           /\ \A cu : StepsUp(fb, cu, s, t.prev) =>
                 \A i \in 0 .. L - 1 : WalkIn(fb, cu, s)[i] = At(q, i)
  <1>1. /\ L \in Nat /\ L > 0 /\ t.prev \in Clusters /\ t.prev = At(q, L - 1) /\ Place(q) = 0 .. L - 1
        /\ \A i \in 0 .. L - 1 : At(q, i) \in Clusters
    BY GrownAll
  <1>2. pc \in Cutting
    BY DEF Cutting
  <1>3. View(q) = node[q]
    BY <1>2, CutView
  <1>4. PICK k : k = L
    OBVIOUS
  <1>5. /\ \A i : At(q, i) = WalkIn(fat, ct, s)[i]
        /\ k \in Nat \ {0}
    BY <1>1, <1>3, <1>4, AtIs
  <1>6. s \in Int
    <2>1. 0 \in 0 .. L - 1
      BY <1>1
    <2>2. At(q, 0) = s
      BY <1>5, WalkIs
    <2>3. At(q, 0) \in Clusters
      BY <1>1, <2>1
    <2> QED
      BY <2>2, <2>3, ClusterSet
  <1>7. Stays(fat, ct, s, k)
    BY <1>1, <1>4, <1>5 DEF Stays
  <1>8. \A i \in 0 .. k : WalkIn(fat, ct, s)[i] = s + i
    BY <1>5, <1>6, <1>7, WalkContig
  <1>9. t.prev = s + (L - 1)
    <2>1. L - 1 \in 0 .. k
      BY <1>1, <1>4
    <2> QED
      BY <1>1, <1>5, <1>8, <2>1
  <1>10. ASSUME NEW d \in Clusters PROVE fb[d] = fat[d] \/ \E j \in Place(q) : At(q, j) = d
    <2>1. CASE s <= d /\ d <= t.prev
      <3>0. d \in Int /\ d <= s + (L - 1) /\ s <= d
        BY <1>9, <2>1, ClusterSet
      <3>1. d - s \in 0 .. L - 1 /\ d - s \in 0 .. k /\ s + (d - s) = d
        BY <1>1, <1>4, <1>6, <3>0
      <3>2. At(q, d - s) = d
        BY <1>5, <1>8, <3>1
      <3> QED
        BY <1>1, <3>1, <3>2
    <2>2. CASE ~(s <= d /\ d <= t.prev)
      BY <2>2 DEF LinksIn
    <2> QED
      BY <2>1, <2>2
  <1>11. ASSUME NEW cu, StepsUp(fb, cu, s, t.prev) PROVE \A i \in 0 .. L - 1 : WalkIn(fb, cu, s)[i] = At(q, i)
    <2>0. PICK last : last = t.prev
      OBVIOUS
    <2>1. StepsUp(fb, cu, s, last)
      BY <1>11, <2>0
    <2>2. last = WalkIn(fat, ct, s)[k - 1]
      BY <1>1, <1>4, <1>5, <2>0
    <2>3. \A i \in 0 .. k - 1 : WalkIn(fb, cu, s)[i] = WalkIn(fat, ct, s)[i]
      BY <1>5, <1>6, <1>7, <2>1, <2>2, WalkLinked
    <2> QED
      BY <1>4, <1>5, <2>3
  <1> QED
    BY <1>10, <1>11

(* The link to the new cluster, of a file that is not contiguous.           *)
Plainly(q, c) ==
    fat' = (IF node[q].contig THEN fat ELSE [fat EXCEPT ![t.prev] = c])

(* The file stays as it is, contiguous or not.                              *)
LEMMA GrowsPlainly ==
    ASSUME Basic, Space, pc = "grow", UNCHANGED <<dent, cached, node>>,
           NEW q, q = t.o, NEW L, L = t.to - t.left, NEW c \in Clusters,
           node[q].contig => c = t.prev + 1, Plainly(q, c)
    PROVE  Regrown(q, L) /\ At(q, L)' = c
  <1>1. /\ L \in Nat /\ L > 0 /\ t.prev \in Clusters /\ t.prev = At(q, L - 1) /\ Place(q) = 0 .. L - 1
        /\ \A i \in 0 .. L - 1 : At(q, i) \in Clusters
    BY GrownAll
  <1>0. fat \in [Clusters -> Clusters \union {FREE, END}] /\ q \in Objects
    BY DEF Basic, Typed, DeviceTyped, CallTyped, IsTrunc
  <1>2. /\ \A d \in Clusters : d # At(q, L - 1) => fat'[d] = fat[d]
        /\ ~node[q].contig => fat'[t.prev] = c
    BY <1>0, <1>1 DEF Plainly
  <1>3. L - 1 \in Place(q) /\ L - 1 \in Nat /\ (L - 1) + 1 = L
    BY <1>1
  <1>4. ASSUME NEW i \in 0 .. L - 1 PROVE At(q, i)' = At(q, i)
    <2>1. Alike(q)
      BY SameViews
    <2>2. i \in Place(q) /\ i <= L - 1
      BY <1>1, <1>4
    <2> QED
      BY <1>0, <1>2, <1>3, <2>1, <2>2, BeforeKept DEF Space
  <1>5. Regrown(q, L)
    BY <1>2, <1>3, <1>4 DEF Regrown
  <1>6. At(q, L)' = c
    <2>1. pc \in Cutting
      BY DEF Cutting
    <2>2. View(q)' = node[q]
      BY <2>1, CutView, SameViews
    <2>3. PICK ct, s, fb : ct = node[q].contig /\ s = node[q].start /\ fb = fat'
      OBVIOUS
    <2>4. \A i : At(q, i)' = WalkIn(fb, ct, s)[i]
      BY <2>2, <2>3, AtIs
    <2>5. WalkIn(fb, ct, s)[(L - 1) + 1] = Step(fb, ct, WalkIn(fb, ct, s)[L - 1])
      BY <1>3, WalkIs
    <2>6. At(q, L)' = Step(fb, ct, t.prev)
      <3>1. At(q, L - 1)' = t.prev
        BY <1>1, <1>3, <1>4
      <3> QED
        BY <1>3, <2>4, <2>5, <3>1
    <2>7. Step(fb, ct, t.prev) = c
      BY <1>1, <1>2, <2>3 DEF Step
    <2> QED
      BY <2>6, <2>7
  <1> QED
    BY <1>5, <1>6

(* The file was contiguous and its links are being written.                 *)
Links(q) ==
    /\ node[q].contig /\ LinksIn(fat', node[q].start, t.prev)
    /\ \A p \in Objects : p # q => node'[p] = node[p]
    /\ node'[q].start = node[q].start /\ node'[q].size = node[q].size
    /\ \/ node'[q].contig = node[q].contig
       \/ node'[q].contig = FALSE /\ StepsUp(fat', node'[q].contig, node[q].start, t.prev)

(* Writing them does to the file what a turn of the loop does.              *)
LEMMA GrowsLinks ==
    ASSUME Basic, Space, pc = "grow", UNCHANGED <<dent, cached>>,
           NEW q, q = t.o, NEW L, L = t.to - t.left, Links(q)
    PROVE  /\ Regrown(q, L)
           /\ ~node'[q].contig => At(q, L)' = fat'[t.prev]
  <1>1. /\ L \in Nat /\ L > 0 /\ t.prev \in Clusters /\ t.prev = At(q, L - 1) /\ Place(q) = 0 .. L - 1
        /\ \A i \in 0 .. L - 1 : At(q, i) \in Clusters
    BY GrownAll
  <1>2. pc \in Cutting /\ q \in Objects
    BY DEF Cutting, Basic, Typed, CallTyped, IsTrunc
  <1>3. View(q) = node[q] /\ View(q)' = node'[q]
    <2>1. q = ROOT \/ Under[q] \in cached
      BY <1>2, CuttingFacts
    <2> QED
      BY <2>1 DEF View
  <1>4. PICK ct, s, fb, cu : ct = node[q].contig /\ s = node[q].start /\ fb = fat' /\ cu = node'[q].contig
    OBVIOUS
  <1>5. Straight(fat, ct) /\ LinksIn(fb, s, t.prev) /\ node'[q].start = s
    BY <1>4 DEF Straight, Step, Links
  <1>6. /\ \A d \in Clusters : fb[d] = fat[d] \/ \E j \in Place(q) : At(q, j) = d
        /\ StepsUp(fb, cu, s, t.prev) => \A i \in 0 .. L - 1 : WalkIn(fb, cu, s)[i] = At(q, i)
    BY <1>4, <1>5, LinkedSame
  <1>7. \A i : At(q, i) = WalkIn(fat, ct, s)[i] /\ At(q, i)' = WalkIn(fb, cu, s)[i]
    BY <1>3, <1>4, <1>5, AtIs
  <1>8. \A i \in 0 .. L - 1 : At(q, i)' = At(q, i)
    <2>1. CASE cu = ct
      <3>1. Alike(q) /\ View(q).contig
        BY <1>3, <1>4, <1>5, <2>1 DEF Alike, Links
      <3>2. \A i \in 0 .. L : At(q, i)' = At(q, i)
        BY <1>1, <3>1, AtKept
      <3>3. 0 .. L - 1 \subseteq 0 .. L
        BY <1>1
      <3> QED
        BY <3>2, <3>3
    <2>2. CASE StepsUp(fb, cu, s, t.prev)
      BY <1>6, <1>7, <2>2
    <2> QED
      BY <1>4, <2>1, <2>2 DEF Links
  <1>9. Regrown(q, L)
    BY <1>4, <1>6, <1>8 DEF Regrown, Links
  <1>10. ASSUME ~node'[q].contig PROVE At(q, L)' = fat'[t.prev]
    <2>1. L - 1 \in Nat /\ (L - 1) + 1 = L /\ L - 1 \in 0 .. L - 1
      BY <1>1
    <2>2. WalkIn(fb, cu, s)[(L - 1) + 1] = Step(fb, cu, WalkIn(fb, cu, s)[L - 1])
      BY <2>1, WalkIs
    <2>3. At(q, L)' = Step(fb, cu, t.prev)
      <3>1. At(q, L - 1)' = t.prev
        BY <1>1, <1>8, <2>1
      <3> QED
        BY <1>7, <2>1, <2>2, <3>1
    <2> QED
      BY <1>1, <1>4, <1>10, <2>3 DEF Step
  <1> QED
    BY <1>9, <1>10

(* What Linked writes, and the link to the new cluster on top.              *)
Chained(fb, s, last, c) == fb = [Linked(s, last) EXCEPT ![t.prev] = c]

(* All links written are within the file.                                   *)
LEMMA LinkedLinks ==
    ASSUME DeviceTyped, NEW s \in Int, NEW last \in Int, last <= t.prev, t.prev \in Clusters, NEW c \in Clusters,
           NEW fb, fb = Linked(s, last) \/ Chained(fb, s, last, c)
    PROVE  /\ LinksIn(fb, s, t.prev) \/ t.prev < s
           /\ \A cu : cu = FALSE /\ last = t.prev => StepsUp(fb, cu, s, t.prev)
           /\ Chained(fb, s, last, c) => fb[t.prev] = c
  <1>1. t.prev \in Int /\ last <= NumClusters + 1 /\ \A d \in Clusters : d \in Int
    <2>1. t.prev \in Int /\ t.prev <= NumClusters + 1 /\ NumClusters + 1 \in Int
      BY ExfatAssumption DEF Clusters
    <2> QED
      BY <2>1, ClusterSet
  <1> DEFINE g == Linked(s, last)
  <1>2. /\ g \in [Clusters -> Clusters \union {FREE, END}]
        /\ \A d \in Clusters : g[d] = IF s <= d /\ d < last THEN d + 1 ELSE fat[d]
    BY <1>1, LinkedTyped
  <1> HIDE DEF g
  <1>3. /\ \A d \in Clusters : d # t.prev => fb[d] = g[d]
        /\ fb[t.prev] = g[t.prev] \/ s <= t.prev \/ t.prev < s
        /\ Chained(fb, s, last, c) => fb[t.prev] = c
    BY <1>1, <1>2 DEF g, Chained
  <1>4. ASSUME ~(t.prev < s) PROVE LinksIn(fb, s, t.prev)
    <2> SUFFICES ASSUME NEW d \in Clusters PROVE fb[d] = fat[d] \/ (s <= d /\ d <= t.prev)
      BY DEF LinksIn
    <2>1. CASE d = t.prev
      BY <1>1, <1>4, <2>1
    <2>2. CASE d # t.prev
      <3>1. fb[d] = IF s <= d /\ d < last THEN d + 1 ELSE fat[d]
        BY <1>2, <1>3, <2>2
      <3>2. s <= d /\ d < last => d <= t.prev
        BY <1>1
      <3> QED
        BY <3>1, <3>2
    <2> QED
      BY <2>1, <2>2
  <1>5. ASSUME NEW cu, cu = FALSE, last = t.prev PROVE StepsUp(fb, cu, s, t.prev)
    <2> SUFFICES ASSUME NEW d \in Clusters, s <= d, d < t.prev PROVE Step(fb, cu, d) = d + 1
      BY DEF StepsUp
    <2>1. fb[d] = d + 1
      BY <1>1, <1>2, <1>3, <1>5
    <2> QED
      BY <1>5, <2>1 DEF Step
  <1> QED
    BY <1>3, <1>4, <1>5

(* Clusters are numbers.                                                    *)
LEMMA ClusterInt ==
    \A c \in Clusters : c \in Int
  BY ClusterSet

(* A contiguous file's last cluster is not before its first.                *)
LEMMA StartFirst ==
    ASSUME Basic, Space, pc = "grow", node[t.o].contig
    PROVE  node[t.o].start \in Int /\ node[t.o].start <= t.prev
  <1> DEFINE L == t.to - t.left
  <1>1. /\ L \in Nat /\ L > 0 /\ t.prev \in Clusters /\ t.prev = At(t.o, L - 1) /\ Place(t.o) = 0 .. L - 1
        /\ \A i \in 0 .. L - 1 : At(t.o, i) \in Clusters
    BY GrownAll
  <1> HIDE DEF L
  <1>2. PICK ct, s, k : ct = node[t.o].contig /\ s = node[t.o].start /\ k = L - 1
    OBVIOUS
  <1>3. pc \in Cutting
    BY DEF Cutting
  <1>4. \A i : At(t.o, i) = WalkIn(fat, ct, s)[i]
    BY <1>2, <1>3, CutView, AtIs
  <1>5. k \in Nat /\ k \in 0 .. k /\ 0 \in 0 .. L - 1 /\ 0 .. k - 1 \subseteq 0 .. L - 1
    BY <1>1, <1>2
  <1>6. s \in Int
    <2>1. At(t.o, 0) = s
      BY <1>4, WalkIs
    <2>2. At(t.o, 0) \in Clusters
      BY <1>1, <1>5
    <2>3. At(t.o, 0) \in Int
      BY <2>2, ClusterInt, Zenon
    <2> QED
      BY <2>1, <2>3
  <1>7. Straight(fat, ct) /\ Stays(fat, ct, s, k)
    BY <1>1, <1>2, <1>4, <1>5 DEF Straight, Stays, Step
  <1>8. \A i \in 0 .. k : WalkIn(fat, ct, s)[i] = s + i
    BY <1>5, <1>6, <1>7, WalkContig
  <1>9. t.prev = s + k
    BY <1>1, <1>2, <1>4, <1>5, <1>8
  <1> QED
    BY <1>2, <1>5, <1>6, <1>9

(* What a turn of the loop does to the chains, besides adding a place to    *)
(* the file that grows.                                                     *)
GrewOne == UNCHANGED <<fat, node>> \/ \E q, L : q = t.o /\ L = t.to - t.left /\ Regrown(q, L)

(* A turn of grow_file's loop keeps the invariant, and does no more than    *)
(* that: the new cluster was free and becomes the last place of this file;  *)
(* the device may fail before it is linked, and halfway through the links   *)
(* of a file that becomes non-contiguous.                                   *)
LEMMA GrowOneBoth ==
    ASSUME IInv, Basic', GrowOne PROVE IInv' /\ (sound /\ g_initialized => GrewOne)
  <1>0. Basic /\ Bounds /\ SystemKept /\ NodesTyped /\ DeviceTyped /\ cmap \subseteq Clusters /\ Control
    BY DEF IInv, Basic, Typed, MemoryTyped
  <1> DEFINE n == node[t.o]
             next == Alloc(t.prev + 1)
             break == next # t.prev + 1 /\ n.contig
             n2 == IF break THEN Broken(n) ELSE n
             f2 == IF break THEN Linked(n.start, t.prev) ELSE fat
             Grows == /\ SetNode(t.o, n2)
                      /\ fat' = IF n2.contig THEN f2 ELSE [f2 EXCEPT ![t.prev] = next]
                      /\ t' = [t EXCEPT !.prev = next, !.left = t.left - 1]
                      /\ pc' = pc
             Stops == ~n2.contig /\ fat' = f2 /\ SetNode(t.o, n2) /\ TruncFailed
             Breaks == /\ break /\ UNCHANGED node /\ TruncFailed
                       /\ \E c \in n.start .. t.prev - 1 : fat' = Linked(n.start, c)
  <1>1. /\ pc = "grow" /\ t.left > 0 /\ Valid(next) /\ cmap' = cmap \union {next}
        /\ UNCHANGED <<sysents, dmap, dent, g_initialized, cached, sound>>
        /\ Grows \/ Stops \/ Breaks
    BY DEF GrowOne, seen, Broken
  <1>2. pc \in Cutting
    BY <1>1 DEF Cutting
  <1>3. /\ g_initialized /\ IsTrunc(t) /\ t.o \in Objects /\ t.to \in Nat /\ t.left \in Nat /\ IsNode(n)
        /\ t.prev \in Clusters /\ t.prev \in Int
    BY <1>0, <1>1, <1>2, CuttingFacts, ClusterSet DEF Basic, Progress
  <1>4. next \in Clusters /\ next \notin cmap /\ next \in Int
    BY <1>0, <1>1, <1>3, AllocIs
  <1>5. /\ IsNode(n2) /\ n2.start = n.start /\ n2.size = n.size
        /\ break => n2.contig = FALSE
        /\ ~break => n2 = n
    <2>1. CASE break
      <3>1. n2 = Broken(n)
        BY <2>1
      <3> HIDE DEF n2, break
      <3> QED
        BY <1>3, <2>1, <3>1, NodeBroken
    <2>2. CASE ~break
      BY <1>3, <2>2
    <2> QED
      BY <2>1, <2>2
  <1>x. /\ break => f2 = Linked(n.start, t.prev) /\ n.contig
        /\ ~break => f2 = fat /\ (n.contig => next = t.prev + 1)
    OBVIOUS
  <1> HIDE DEF n2, f2, next, break
  <1>6. ASSUME SetNode(t.o, n2)
        PROVE  node'[t.o] = n2 /\ (\A p \in Objects : p # t.o => node'[p] = node[p]) /\ (n2 = n => node' = node)
    <2>1. NodesTyped' /\ node'[t.o] = n2 /\ (\A p \in Objects : p # t.o => node'[p] = node[p])
      BY <1>0, <1>3, <1>5, <1>6, NodeReplaced
    <2>2. n2 = n => node' = node
      BY <1>0, <2>1 DEF NodesTyped, Objects, Objs
    <2> QED
      BY <2>1, <2>2
  <1>7. \A o \in Objects : node'[o].size = node[o].size
    <2>1. CASE SetNode(t.o, n2)
      BY <1>3, <1>5, <1>6, <2>1
    <2>2. CASE UNCHANGED node
      BY <2>2
    <2> QED
      BY <1>1, <2>1, <2>2
  <1>8. pc' \notin {"erasenew", "mkuct", "mkroot"} /\ (TruncFailed => pc' \notin Mid)
    <2>1. t.kf \in TruncElse
      BY <1>0, <1>2 DEF Control
    <2> QED
      BY <1>1, <2>1 DEF TruncFailed, TruncElse, Mid
  <1>9. Bounds'
    BY <1>0, <1>1, <1>7, <1>8 DEF Bounds, Objects, Objs
  <1>10. SystemKept'
    BY <1>0, <1>1, <1>8, SystemSame
  <1>11. ASSUME sound', g_initialized' PROVE Space' /\ GrewOne
    <2>0. Space /\ System \subseteq cmap
      BY <1>0, <1>1, <1>11 DEF IInv, SystemKept
    <2>1. PICK q, L, c, z : q = t.o /\ L = t.to - t.left /\ c = next /\ z = t.left
      OBVIOUS
    <2>2. cmap \subseteq cmap' /\ c \in Clusters /\ c \notin cmap /\ q \in Objects
      BY <1>1, <1>3, <1>4, <2>1
    <2>3. ASSUME break PROVE n.contig /\ n.start \in Int /\ n.start <= t.prev
      BY <1>0, <1>1, <1>x, <2>0, <2>3, StartFirst
    <2>4. ASSUME Grows PROVE t'.o = q /\ t'.to - t'.left = L + 1 /\ t'.prev = c /\ pc' = "grow"
      <3>1. z - 1 \in Nat
        BY <1>1, <1>3, <2>1
      <3>2. t' = [t EXCEPT !.prev = c, !.left = z - 1] /\ pc' = "grow"
        BY <1>1, <2>1, <2>4
      <3>3. t'.o = t.o /\ t'.to = t.to /\ t'.prev = c /\ t'.left = z - 1
        BY <1>3, <1>4, <2>1, <3>1, <3>2, TruncMoves
      <3> QED
        BY <1>3, <2>1, <3>2, <3>3
    <2>5. ASSUME break, SetNode(t.o, n2), NEW d \in Clusters,
                 fat' = f2 \/ fat' = [f2 EXCEPT ![t.prev] = d]
          PROVE  /\ Regrown(q, L) /\ node'[q].contig = FALSE
                 /\ fat' = [f2 EXCEPT ![t.prev] = d] => At(q, L)' = d
      <3>1. PICK fb : fb = fat'
        OBVIOUS
      <3>2. PICK s : s = n.start
        OBVIOUS
      <3>3. f2 = Linked(s, t.prev)
        BY <1>x, <2>5, <3>2
      <3>4. /\ LinksIn(fb, s, t.prev)
            /\ \A cu : cu = FALSE => StepsUp(fb, cu, s, t.prev)
            /\ fat' = [f2 EXCEPT ![t.prev] = d] => fat'[t.prev] = d
        <4>1. /\ LinksIn(fb, s, t.prev) \/ t.prev < s
              /\ \A cu : cu = FALSE => StepsUp(fb, cu, s, t.prev)
              /\ Chained(fb, s, t.prev, d) => fb[t.prev] = d
          <5>1. PICK last : last = t.prev
            OBVIOUS
          <5>2. fb = Linked(s, last) \/ Chained(fb, s, last, d)
            BY <2>5, <3>1, <3>3, <5>1 DEF Chained
          <5>3. s \in Int /\ last \in Int /\ last <= t.prev
            BY <1>3, <2>3, <2>5, <3>2, <5>1
          <5>4. /\ LinksIn(fb, s, t.prev) \/ t.prev < s
                /\ \A cu : cu = FALSE /\ last = t.prev => StepsUp(fb, cu, s, t.prev)
                /\ Chained(fb, s, last, d) => fb[t.prev] = d
            BY <1>0, <1>3, <5>2, <5>3, LinkedLinks
          <5> QED
            BY <5>1, <5>4
        <4>2. ~(t.prev < s)
          BY <1>3, <2>3, <2>5, <3>2
        <4> QED
          BY <3>1, <3>3, <4>1, <4>2 DEF Chained
      <3>5. node'[q] = n2 /\ n2.contig = FALSE /\ (\A p \in Objects : p # q => node'[p] = node[p])
        BY <1>5, <1>6, <2>1, <2>5
      <3>6. Links(q)
        <4>1. node[q].contig
          BY <2>1, <2>3, <2>5
        <4>2. LinksIn(fat', node[q].start, t.prev) /\ node'[q].start = node[q].start /\ node'[q].size = node[q].size
          BY <1>5, <2>1, <3>1, <3>2, <3>4, <3>5
        <4>3. node'[q].contig = FALSE /\ StepsUp(fat', node'[q].contig, node[q].start, t.prev)
          BY <2>1, <3>1, <3>2, <3>4, <3>5
        <4> QED
          BY <3>5, <4>1, <4>2, <4>3 DEF Links
      <3>7. Regrown(q, L) /\ (~node'[q].contig => At(q, L)' = fat'[t.prev])
        BY <1>0, <1>1, <2>0, <2>1, <3>6, GrowsLinks
      <3> QED
        BY <3>4, <3>5, <3>7
    <2>6. CASE Grows
      <3>1. Regrown(q, L) /\ At(q, L)' = c
        <4>1. CASE break
          <5>1. SetNode(t.o, n2) /\ fat' = [f2 EXCEPT ![t.prev] = c]
            BY <1>5, <2>1, <2>6, <4>1
          <5> QED
            BY <2>2, <2>5, <4>1, <5>1
        <4>2. CASE ~break
          <5>1. node' = node /\ n2 = n /\ f2 = fat
            BY <1>5, <1>6, <1>x, <2>6, <4>2
          <5>2. Plainly(q, c) /\ (node[q].contig => c = t.prev + 1)
            BY <1>x, <2>1, <2>6, <4>2, <5>1 DEF Plainly
          <5> QED
            BY <1>0, <1>1, <2>0, <2>1, <2>2, <5>1, <5>2, GrowsPlainly
        <4> QED
          BY <4>1, <4>2
      <3> QED
        BY <1>0, <1>1, <2>0, <2>1, <2>2, <2>4, <2>6, <3>1, GrownSpace DEF GrewOne
    <2>7. CASE Stops
      <3>0. pc' \notin Mid
        BY <1>8, <2>7
      <3>1. CASE break
        <4>1. Regrown(q, L) /\ node'[q].contig = FALSE
          BY <2>2, <2>5, <2>7, <3>1
        <4> QED
          BY <1>0, <1>1, <2>0, <2>1, <2>2, <3>0, <4>1, GrowStopsSpace DEF GrewOne
      <3>2. CASE ~break
        <4>1. UNCHANGED <<fat, node, dent, cached>>
          BY <1>1, <1>5, <1>6, <1>x, <2>7, <3>2
        <4>2. sound /\ g_initialized /\ pc # "free"
          BY <1>1, <1>11
        <4> QED
          BY <2>2, <3>0, <4>1, <4>2, EndsSame DEF GrewOne
      <3> QED
        BY <3>1, <3>2
    <2>8. CASE Breaks
      <3>0. pc' \notin Mid /\ node' = node /\ break
        BY <1>8, <2>8
      <3>1. PICK d \in n.start .. t.prev - 1 : fat' = Linked(n.start, d)
        BY <2>8
      <3>2. PICK fb, s : fb = fat' /\ s = n.start
        OBVIOUS
      <3>3. d \in Int /\ d <= t.prev /\ s \in Int /\ ~(t.prev < s) /\ fb = Linked(s, d)
        BY <1>3, <2>3, <3>0, <3>1, <3>2
      <3>4. LinksIn(fb, s, t.prev)
        BY <1>0, <1>3, <1>4, <3>3, LinkedLinks
      <3>5. Links(q)
        BY <2>1, <2>3, <3>0, <3>2, <3>4 DEF Links
      <3>6. Regrown(q, L)
        BY <1>0, <1>1, <2>0, <2>1, <3>5, GrowsLinks
      <3> QED
        BY <1>0, <1>1, <2>0, <2>1, <2>2, <3>0, <3>6, GrowStopsSpace DEF GrewOne
    <2> QED
      BY <1>1, <2>6, <2>7, <2>8
  <1> QED
    BY <1>1, <1>9, <1>10, <1>11, IInvParts

(* So it keeps the invariant.                                               *)
LEMMA GrowOneInv ==
    ASSUME IInv, Basic', GrowOne PROVE IInv'
  BY GrowOneBoth

-----------------------------------------------------------------------------
(* The first two theorems.                                                  *)

(* The invariant holds at the start,                                        *)
LEMMA InitInv ==
    Init => IInv
  <1> SUFFICES ASSUME Init PROVE IInv
    OBVIOUS
  <1>1. Basic
    BY InitBasic
  <1>2. Bounds
    BY ExfatAssumption, ObjectSet, Blank DEF Init, Bounds, Objects
  <1>3. SystemKept
    BY DEF Init, SystemKept
  <1> QED
    BY <1>1, <1>2, <1>3 DEF Init, IInv

(* when nothing happens,                                                    *)
LEMMA StutterInv ==
    ASSUME IInv, Basic', UNCHANGED vars PROVE IInv'
  <1>1. UNCHANGED <<fat, node, dent, cached, cmap, dmap, g_initialized, sysents, sound, pc, t>>
    BY DEF vars, device, memory, seen
  <1>2. Bounds' /\ SystemKept'
    BY <1>1 DEF IInv, Bounds, SystemKept, Objects, Objs, System
  <1>3. ASSUME sound', g_initialized' PROVE Space'
    <2>1. Space /\ Basic
      BY <1>1, <1>3 DEF IInv
    <2>2. \A o : View(o)' = View(o) /\ Length(o)' = Length(o) /\ Place(o)' = Place(o)
      BY <1>1 DEF View, Length, Place
    <2>3. \A o, i : At(o, i)' = At(o, i)
      BY <1>1, SameAt
    <2>4. Apart' /\ Whole'
      <3>1. \A o \in Objects : \A i \in Place(o) : At(o, i) \in Clusters => At(o, i) \in cmap'
        BY <1>1, <2>1 DEF Space, Apart
      <3> QED
        BY <2>1, <2>2, <2>3, <3>1, Kept DEF Space
    <2>5. NoStart'
      BY <1>1, <2>1 DEF Space, NoStart, Objects, Objs, FREE
    <2>6. \A i : CutAt(i)' = CutAt(i)
      BY <1>1, CutIs
    <2>7. At(t.o, t.to)' = At(t.o, t.to) /\ At(t.o, t.to - t.left - 1)' = At(t.o, t.to - t.left - 1)
      BY <1>1 DEF At, View, Nth, Follow
    <2>8. CutOff'
      BY <1>1, <2>1, <2>2, <2>3, <2>6, <2>7 DEF Space, CutOff, System, Clusters, Objects, Objs
    <2>9. Growing'
      BY <1>1, <2>1, <2>7 DEF Space, Growing, FREE
    <2> QED
      BY <2>4, <2>5, <2>8, <2>9 DEF Space
  <1> QED
    BY <1>2, <1>3, IInvParts

(* and after every step.                                                    *)
LEMMA IInvStep ==
    IInv /\ [Next]_vars => IInv'
  <1> SUFFICES ASSUME IInv, [Next]_vars PROVE IInv'
    OBVIOUS
  <1>1. Basic'
    BY BasicStep DEF IInv
  <1>2. CASE UNCHANGED vars
    BY <1>1, <1>2, StutterInv
  <1>3. CASE Next
    BY <1>1, <1>3, QuietSteps, OffSteps, MountInv, LookUpInv, ReadDataInv, CommitEntryInv, GrowFirstInv,
       GrowOneInv, SetOutInv, GrowEndInv, EraseNewInv, CropInv, FreeOneInv, FreeEndInv, FlushEntryInv,
       WriteDataInv, DeleteEntryInv, DetachInv DEF Next
  <1> QED
    BY <1>2, <1>3

(* It implies the types                                                     *)
LEMMA IInvType ==
    IInv => TypeOK
  BY DEF IInv, Basic, Typed, DeviceTyped, MemoryTyped, CountTyped, DentsTyped, NodesTyped, IsDent, IsNode, Bounds,
     Objects, TypeOK

(* and the property: what counts of a file is at least its size.            *)
LEMMA IInvApart ==
    IInv => NoCrossLink
  <1> SUFFICES ASSUME IInv, sound, g_initialized
               PROVE  /\ \A o \in Objects : Owned(o) \subseteq cmap \ Foreign(o)
                      /\ \A o, p \in Objects :
                            \A i \in 0 .. Held(o).size - 1, j \in 0 .. Held(p).size - 1 :
                               Valid(Nth(Held(o), i)) /\ Nth(Held(o), i) = Nth(Held(p), j) => o = p /\ i = j
    BY DEF NoCrossLink, Objects
  <1>1. Space /\ Basic
    BY DEF IInv
  <1>2. ASSUME NEW o \in Objects
        PROVE  (\A i : Nth(Held(o), i) = At(o, i)) /\ 0 .. Held(o).size - 1 \subseteq Place(o)
    <2>0. IsNode(View(o))
      BY <1>1, ViewTyped
    <2>1. CASE pc = "free" /\ o = t.o
      <3>1. PICK m, k, v : m = Held(o) /\ k = t.to /\ v = View(o)
        OBVIOUS
      <3>2. m = [v EXCEPT !.size = k]
        BY <2>1, <3>1 DEF Held
      <3>3. m.start = v.start /\ m.contig = v.contig /\ m.size = k
        BY <2>0, <3>1, <3>2 DEF IsNode
      <3>4. \A i : Nth(m, i) = Nth(v, i)
        BY <3>3, NthIs
      <3>5. Place(o) = 0 .. k - 1
        BY <2>1, <3>1 DEF Place, Length
      <3> QED
        BY <3>1, <3>3, <3>4, <3>5 DEF At
    <2>2. CASE ~(pc = "free" /\ o = t.o)
      <3>1. Held(o) = View(o)
        BY <2>2 DEF Held
      <3>2. View(o).size <= Length(o) /\ View(o).size \in Nat
        <4>1. CASE pc # "free"
          BY <1>1, <4>1, Longer
        <4>2. CASE o # t.o
          BY <2>0, <4>2, Lengths DEF IsNode
        <4> QED
          BY <2>2, <4>1, <4>2
      <3>3. Length(o) \in Int
        BY <1>1, ViewTyped
      <3> QED
        BY <3>1, <3>2, <3>3 DEF At, Place
    <2> QED
      BY <2>1, <2>2
  <1>3. \A o \in Objects : Owned(o) \subseteq cmap \ Foreign(o)
    BY <1>1, <1>2 DEF Owned, ChainOf, Space, Apart
  <1>4. \A o, p \in Objects :
           \A i \in 0 .. Held(o).size - 1, j \in 0 .. Held(p).size - 1 :
              Valid(Nth(Held(o), i)) /\ Nth(Held(o), i) = Nth(Held(p), j) => o = p /\ i = j
    BY <1>1, <1>2 DEF Valid, Space, Apart
  <1> QED
    BY <1>3, <1>4

(* The state has its type, for a volume of any size, any tree of names and  *)
(* any number of calls and faults; the allocator only hands out and frees   *)
(* clusters of the volume (cluster.c:114-178, 333-358).                     *)
THEOREM TypeCorrect == Spec => []TypeOK
  BY InitInv, IInvStep, IInvType, PTL DEF Spec

(* No cluster is ever held by two files, by two places of one, by a file    *)
(* and the system area, or by a file while it is free, whatever device      *)
(* operations fail and wherever the machine stops, as long as the volume    *)
(* was consistent when mounted and no cut to nothing stopped halfway        *)
(* (cluster.c:114-359, node.c:829-951).                                     *)
THEOREM ClustersApart == Spec => []NoCrossLink
  BY InitInv, IInvStep, IInvApart, PTL DEF Spec

-----------------------------------------------------------------------------
(* What call is under way and how far it is.                                *)

(* Where the call under way has the node of obj. *)
WithNode == \/ pc \in {"created", "data", "done"}
            \/ pc \in Cutting /\ t.k = "data"
            \/ pc \in FlushAt /\ f.k \in {"created", "done"}

(* Where the call has yet to make the node of obj, has just made it, or has *)
(* made a directory.                                                        *)
Unborn == pc \in {"slot", "commit"} \/ (pc \in Cutting /\ t.k = "commit")
Newborn == pc = "created" \/ (pc \in FlushAt /\ f.k = "created")

(* Whose exfat_truncate and exfat_flush_node are under way, and for whom.   *)
CutFor ==
    \/ t.k = "data" /\ t.kf = "fail" /\ t.o = obj /\ op = "write" /\ (t.undo = TRUE \/ t.to = size)
    \/ t.k = "commit" /\ t.kf = "fail" /\ t.o = Under[obj]
    \/ t.k = "dirflush" /\ t.kf = "delete" /\ t.o = obj /\ op = "mkdir"
    \/ t.k = "delflush" /\ t.kf = "delflush" /\ t.o = Under[obj] /\ op = "mkdir"
FlushFor ==
    \/ f.k = "created" /\ f.kf = "fail" /\ f.o = Under[obj]
    \/ f.k = "done" /\ f.kf = "done" /\ f.o = obj /\ op = "write"
    \/ f.k = "next" /\ f.kf = "delete" /\ f.o = obj /\ op = "mkdir"
    \/ f.k = "unmount" /\ f.kf = "lastflush" /\ op = "mkdir"
    \/ f.k = "detach" /\ f.kf = "fail" /\ f.o = Under[obj] /\ op = "mkdir"
    \/ f.k = "fail" /\ f.kf = "fail" /\ f.o = Under[obj] /\ op = "mkdir"

(* Where only exfat_write_file, and only exfat_mkdir, can be.               *)
Writing == {"data", "done"}
Making  == {"dirflush", "delete", "detach", "delflush", "next", "unmount", "lastflush"}

(* Which call is under way, given where it is in the code.                  *)
Course ==
    /\ pc # "idle" => calls > 0
    /\ op = "mkdir" => obj \in Dirs
    /\ op = "write" => obj \in Files
    /\ pc \in {"slot", "commit", "created", "fail"} \union Cutting \union FlushAt => op \in {"write", "mkdir"}
    /\ pc \in Making => op = "mkdir"
    /\ pc \in Writing => op = "write"
    /\ pc = "read" => op = "read"
    /\ pc \in Cutting => CutFor
    /\ pc \in FlushAt => FlushFor
    /\ written = TRUE => pc = "done" \/ (pc \in FlushAt /\ f.k = "done")

(* What has become of obj by then, and how far its growth is.               *)
Object ==
    /\ WithNode => Present(obj)
    /\ Unborn => ~Present(obj)
    /\ Newborn => node[obj].size = 0
    /\ pc = "data" => node[obj].size = size
    /\ pc \in {"grow", "erasenew"} => t.undo = FALSE
    /\ pc \in Cutting /\ t.k = "commit" => t.undo = TRUE \/ node[t.o].size < t.to
    /\ pc \in Cutting /\ t.k = "dirflush" => node[t.o].size = 0 /\ (t.undo = TRUE \/ t.to = 1)

(* The file being written is not promised to hold anything, and no file is  *)
(* while the volume is formatted.                                           *)
Wanted ==
    /\ op = "write" => want[obj] = ANY
    /\ pc \in Formatting => \A o \in Files : want[o] = ANY

(* What is promised of a file is nothing, its absence, or the contents of a *)
(* call; a file promised absent is neither on the device nor in memory.     *)
WantTyped == want = [o \in Files |-> want[o]]
             /\ \A o \in Files : want[o] = ANY \/ want[o] = ABSENT \/ want[o].call > 0
Absent == \A o \in Files : want[o] = ABSENT => dent[o] = NoDent /\ node[o] = NoNode

(* The part of the invariant about the call.                                *)
Script == Course /\ Object /\ Wanted /\ WantTyped /\ Absent

(* One lemma for each way a step moves the call on: it returns,             *)
LEMMA CourseIdle ==
    ASSUME Return PROVE Course'
  <1>1. pc' = "idle" /\ op' = "none" /\ written' = FALSE
    BY DEF Return
  <1>2. written' # TRUE
    BY <1>1, Zenon
  <1> QED
    BY <1>1, <1>2 DEF Course, Making, Writing, Cutting, FlushAt, Leaving

(* goes on somewhere,                                                       *)
LEMMA CourseOff ==
    ASSUME Course, pc \notin Cutting \union FlushAt, pc # "done",
           UNCHANGED call, calls' = calls, pc # "idle",
           pc' \in Formatting \union {"slot", "commit", "created", "fail", "data", "read", "bug"} \union Making,
           pc' \in {"slot", "commit", "created", "fail"} => op \in {"write", "mkdir"},
           pc' \in Making => op = "mkdir",
           pc' = "data" => op = "write",
           pc' = "read" => op = "read"
    PROVE  Course'
  <1>1. UNCHANGED <<op, obj, size>> /\ written' = written
    BY DEF call
  <1>2. written # TRUE
    BY DEF Course
  <1>3. written' # TRUE
    BY <1>1, <1>2
  <1>4. pc' \notin Cutting \union FlushAt /\ pc' \notin {"idle", "done"} /\ (pc' \in Writing => pc' = "data")
    BY DEF Formatting, Making, Writing, Cutting, FlushAt, Leaving
  <1> QED
    BY <1>1, <1>3, <1>4 DEF Course

(* calls exfat_truncate,                                                    *)
LEMMA CourseTruncating ==
    ASSUME Course, pc \notin Cutting \union FlushAt, pc # "done", calls' = calls, pc # "idle",
           NEW o, NEW n, NEW k, NEW kf, Truncating(o, n, k, kf),
           \/ k = "data" /\ kf = "fail" /\ o = obj /\ op = "write" /\ n = size
           \/ k = "commit" /\ kf = "fail" /\ o = Under[obj] /\ op \in {"write", "mkdir"}
           \/ k = "dirflush" /\ kf = "delete" /\ o = obj /\ op = "mkdir"
           \/ k = "delflush" /\ kf = "delflush" /\ o = Under[obj] /\ op = "mkdir"
    PROVE  Course'
  <1>1. /\ pc' = "truncate" /\ UNCHANGED <<op, obj, size>> /\ written' = written /\ f' = f
        /\ t' = [o |-> o, to |-> n, prev |-> 0, left |-> 0, undo |-> FALSE, k |-> k, kf |-> kf]
    BY DEF Truncating, NoT, call
  <1>2. t'.o = o /\ t'.to = n /\ t'.k = k /\ t'.kf = kf
    BY <1>1
  <1>3. written # TRUE
    BY DEF Course
  <1>4. written' # TRUE
    BY <1>1, <1>3
  <1>5. CutFor'
    BY <1>1, <1>2 DEF CutFor
  <1> QED
    BY <1>1, <1>4, <1>5 DEF Course, Making, Writing, Cutting, FlushAt, Leaving

(* calls exfat_flush_node,                                                  *)
LEMMA CourseFlushing ==
    ASSUME Course, pc \notin Cutting \union FlushAt, pc # "done", calls' = calls, pc # "idle",
           NEW o, NEW k, NEW kf, Flushing(o, k, kf), op \in {"write", "mkdir"},
           \/ k = "created" /\ kf = "fail" /\ o = Under[obj]
           \/ k = "next" /\ kf = "delete" /\ o = obj /\ op = "mkdir"
           \/ k = "unmount" /\ kf = "lastflush" /\ op = "mkdir"
           \/ k = "detach" /\ kf = "fail" /\ o = Under[obj] /\ op = "mkdir"
           \/ k = "fail" /\ kf = "fail" /\ o = Under[obj] /\ op = "mkdir"
    PROVE  Course'
  <1>1. /\ pc' = "flush" /\ UNCHANGED <<op, obj, size>> /\ written' = written /\ t' = t
        /\ f' = [o |-> o, k |-> k, kf |-> kf]
    BY DEF Flushing, call
  <1>2. f'.o = o /\ f'.k = k /\ f'.kf = kf
    BY <1>1
  <1>3. written # TRUE
    BY DEF Course
  <1>4. written' # TRUE
    BY <1>1, <1>3
  <1>5. FlushFor'
    BY <1>1, <1>2 DEF FlushFor
  <1> QED
    BY <1>1, <1>4, <1>5 DEF Course, Making, Writing, Cutting, FlushAt, Leaving

(* How a step of exfat_truncate goes on. *)
CutOn == /\ pc' \in Cutting /\ t'.o = t.o /\ t'.k = t.k /\ t'.kf = t.kf
         /\ (t.undo = TRUE => t'.undo = TRUE) /\ (t'.undo = TRUE \/ t'.to = t.to)
         /\ (pc' \in {"grow", "erasenew"} => t'.undo = FALSE)
         /\ node'[t.o].size = node[t.o].size

(* returns from it with success,                                            *)
CutDone == pc' = t.k /\ t' = NoT /\ t.undo = FALSE /\ node'[t.o].size = t.to

(* or without;                                                              *)
CutFails == (TruncFailed \/ Hung) /\ node'[t.o].size = node[t.o].size

(* each of these leaves the rest of the call alone,                         *)
CutMove == /\ pc \in Cutting /\ UNCHANGED <<call, f, calls, want, cached, g_initialized>>
           /\ CutOn \/ CutDone \/ CutFails

(* so the call keeps its course.                                            *)
LEMMA CourseCut ==
    ASSUME Course, CutMove PROVE Course'
  <1>1. UNCHANGED <<op, obj, size>> /\ written' = written /\ calls' = calls /\ f' = f
    BY DEF call, CutMove
  <1>2. pc \notin FlushAt /\ pc # "done" /\ pc # "idle" /\ pc \in Cutting
    BY DEF CutMove, Cutting, FlushAt
  <1>3. written # TRUE
    BY <1>2 DEF Course
  <1>4. written' # TRUE /\ calls > 0 /\ CutFor /\ op \in {"write", "mkdir"}
    BY <1>1, <1>2, <1>3 DEF Course
  <1>5. CASE CutOn
    <2>1. CutFor'
      BY <1>1, <1>4, <1>5 DEF CutOn, CutFor
    <2>2. pc' \in Cutting /\ pc' \notin Making \union Writing \union FlushAt /\ pc' # "read"
      BY <1>5 DEF CutOn, Cutting, Making, Writing, FlushAt, Leaving
    <2> QED
      BY <1>1, <1>2, <1>4, <2>1, <2>2 DEF Course
  <1>6. ASSUME NEW l, pc' = l, \/ l = "data" /\ op = "write"
                               \/ l = "commit" \/ l = "fail" \/ l = "bug"
                               \/ l \in {"dirflush", "delete", "delflush"} /\ op = "mkdir"
        PROVE  Course'
    <2>1. pc' \notin Cutting \union FlushAt /\ pc' # "read"
      BY <1>6 DEF Cutting, FlushAt
    <2> QED
      BY <1>1, <1>2, <1>4, <1>6, <2>1 DEF Course, Making, Writing, Leaving
  <1>7. CASE CutDone
    BY <1>4, <1>6, <1>7 DEF CutDone, CutFor
  <1>8. CASE CutFails
    BY <1>4, <1>6, <1>8 DEF CutFails, TruncFailed, Hung, CutFor
  <1> QED
    BY <1>5, <1>7, <1>8 DEF CutMove

(* How a step of exfat_flush_node goes on. *)
FlushMove == /\ pc \in FlushAt /\ UNCHANGED <<calls, want, cached, g_initialized>>
             /\ FlushDone(f.k) \/ FlushDone(f.kf) \/ Goto("bitmap")

(* The same for exfat_flush_node.                                           *)
LEMMA CourseFlush ==
    ASSUME Course, FlushMove PROVE Course'
  <1>1. UNCHANGED <<op, obj, size>> /\ written' = written /\ calls' = calls /\ t' = t
    BY DEF call, FlushMove, FlushDone, Goto
  <1>2. pc \notin Cutting /\ pc # "done" /\ pc # "idle" /\ pc \in FlushAt
    BY DEF FlushMove, Cutting, FlushAt
  <1>3. calls > 0 /\ FlushFor /\ op \in {"write", "mkdir"} /\ (written => f.k = "done")
    BY <1>2 DEF Course
  <1>4. CASE Goto("bitmap")
    <2>1. FlushFor' /\ f' = f /\ pc' = "bitmap"
      BY <1>1, <1>3, <1>4 DEF Goto, FlushFor
    <2> QED
      BY <1>1, <1>2, <1>3, <2>1 DEF Course, Making, Writing, Cutting, FlushAt, Leaving
  <1>5. ASSUME NEW l, pc' = l, \/ l = "done" /\ op = "write"
                               \/ l \in {"created", "fail"} /\ written # TRUE
                               \/ l \in {"next", "unmount", "delete", "lastflush", "detach"} /\ op = "mkdir" /\ written # TRUE
        PROVE  Course'
    <2>1. pc' \notin Cutting \union FlushAt /\ pc' # "read"
      BY <1>5 DEF Cutting, FlushAt
    <2> QED
      BY <1>1, <1>2, <1>3, <1>5, <2>1 DEF Course, Making, Writing, Leaving
  <1>6. CASE FlushDone(f.k)
    <2>1. pc' = f.k
      BY <1>6 DEF FlushDone
    <2> QED
      BY <1>3, <1>5, <2>1 DEF FlushFor
  <1>7. CASE FlushDone(f.kf)
    <2>1. pc' = f.kf
      BY <1>7 DEF FlushDone
    <2> QED
      BY <1>3, <1>5, <2>1 DEF FlushFor
  <1> QED
    BY <1>4, <1>6, <1>7 DEF FlushMove

(* What a step of exfat_truncate does to nodes. *)
Recast(n, m) == /\ m.at = n.at /\ (n.dirty = TRUE => m.dirty = TRUE)
                /\ \/ m = n \/ m.dirty = TRUE
                   \/ m.size = n.size /\ n.start = FREE /\ pc = "truncate"

(* What exfat_truncate does to nodes: only that of its file changes, its    *)
(* slot stays, and what changes is marked dirty, except a start given to a  *)
(* file that had none.                                                      *)
CutNode == (\A p \in Objects : p # t.o => node'[p] = node[p]) /\ Recast(node[t.o], node'[t.o])

(* Steps that leave the nodes alone are like that,                          *)
LEMMA CutNodeSame ==
    ASSUME node' = node PROVE CutNode /\ node'[t.o].size = node[t.o].size
  BY DEF CutNode, Recast

(* these do,                                                                *)
LEMMA CutSteps1 ==
    ASSUME Basic, Object, TruncateSame \/ GrowFrom \/ GrowNoSpace \/ ShrinkFrom
    PROVE  CutMove /\ CutNode
  <1>0. Progress
    BY DEF Basic
  <1>1. pc \in {"truncate", "grow"} /\ pc \in Cutting
    BY DEF TruncateSame, GrowFrom, GrowNoSpace, ShrinkFrom, Cutting
  <1>2. /\ IsTrunc(t) /\ t.o \in Objects /\ t.to \in Nat /\ t.left \in Nat
        /\ node[t.o].size \in Nat
    BY <1>1, CuttingFacts
  <1>3. UNCHANGED <<call, f, calls, want, cached, g_initialized>> /\ node' = node
    BY DEF TruncateSame, GrowFrom, GrowNoSpace, ShrinkFrom, memory, seen, TruncFailed
  <1>4. CutNode /\ node'[t.o].size = node[t.o].size
    BY <1>3, CutNodeSame
  <1>5. t.undo = FALSE
    BY <1>0, <1>1 DEF Progress, Object
  <1>6. ASSUME TruncFailed PROVE CutMove
    BY <1>1, <1>3, <1>4, <1>6 DEF CutMove, CutFails
  <1>7. CASE TruncateSame
    BY <1>1, <1>3, <1>4, <1>5, <1>7 DEF TruncateSame, CutMove, CutDone
  <1>8. CASE GrowFrom
    <2> DEFINE n == node[t.o]
               last == IF n.size = 0 THEN END ELSE Nth(n, n.size - 1)
    <2>1. CASE Valid(last) /\ t' = [t EXCEPT !.prev = last, !.left = t.to - n.size] /\ pc' = "grow"
      <3>1. t.to - n.size \in Nat /\ last \in Int
        BY <1>2, <1>8, <2>1, ClusterSet DEF GrowFrom, Valid
      <3> HIDE DEF last
      <3>2. t'.o = t.o /\ t'.to = t.to /\ t'.undo = t.undo /\ t'.k = t.k /\ t'.kf = t.kf
        BY <1>2, <2>1, <3>1, TruncMoves
      <3> QED
        BY <1>1, <1>3, <1>4, <1>5, <2>1, <3>2 DEF CutMove, CutOn, Cutting
    <2> QED
      BY <1>4, <1>6, <1>8, <2>1 DEF GrowFrom
  <1>9. CASE GrowNoSpace
    <2> DEFINE old == node[t.o].size
               now == t.to - t.left
    <2>1. CASE now > old /\ pc' = "crop" /\ t' = [t EXCEPT !.to = old, !.left = now - old, !.undo = TRUE]
      <3>1. old \in Nat /\ now - old \in Nat
        BY <1>2, <2>1
      <3>2. t'.o = t.o /\ t'.undo = TRUE /\ t'.k = t.k /\ t'.kf = t.kf
        BY <1>2, <2>1, <3>1, TruncUndoes
      <3> QED
        BY <1>1, <1>3, <1>4, <2>1, <3>2 DEF CutMove, CutOn, Cutting
    <2> QED
      BY <1>4, <1>6, <1>9, <2>1 DEF GrowNoSpace
  <1>10. CASE ShrinkFrom
    <2>1. node[t.o].size - t.to \in Nat /\ t' = [t EXCEPT !.left = node[t.o].size - t.to] /\ pc' = "crop"
      BY <1>2, <1>10 DEF ShrinkFrom
    <2>2. t'.o = t.o /\ t'.to = t.to /\ t'.undo = t.undo /\ t'.k = t.k /\ t'.kf = t.kf
      BY <1>2, <2>1, TruncMovesLeft
    <2> QED
      BY <1>1, <1>3, <1>4, <1>5, <2>1, <2>2 DEF CutMove, CutOn, Cutting
  <1> QED
    BY <1>4, <1>7, <1>8, <1>9, <1>10

(* and so are steps that set the node of its file:                          *)
LEMMA CutNodeSet ==
    ASSUME Basic, pc \in Cutting, NEW m, IsNode(m), SetNode(t.o, m), Recast(node[t.o], m)
    PROVE  CutNode /\ node'[t.o] = m
  <1>1. NodesTyped /\ t.o \in Objects
    BY CuttingFacts DEF Basic, Typed, MemoryTyped
  <1>2. node'[t.o] = m /\ \A p \in Objects : p # t.o => node'[p] = node[p]
    BY <1>1, NodeReplaced
  <1> QED
    BY <1>2 DEF CutNode

(* those that grow,                                                         *)
LEMMA CutSteps2 ==
    ASSUME Basic, Object, GrowFirst \/ GrowOne \/ GrowEnd
    PROVE  CutMove /\ CutNode
  <1>0. Progress /\ cmap \subseteq Clusters
    BY DEF Basic, Typed, MemoryTyped
  <1>1. pc \in {"truncate", "grow"} /\ pc \in Cutting
    BY DEF GrowFirst, GrowOne, GrowEnd, Cutting
  <1>2. /\ IsTrunc(t) /\ t.o \in Objects /\ t.to \in Nat /\ t.left \in Nat /\ t.prev \in Int
        /\ node[t.o].size \in Nat /\ IsNode(node[t.o])
    BY <1>1, CuttingFacts
  <1>3. UNCHANGED <<call, f, calls, want, cached, g_initialized>>
    BY DEF GrowFirst, GrowOne, GrowEnd, memory, seen, TruncFailed, Goto
  <1>5. t.undo = FALSE
    BY <1>0, <1>1 DEF Progress, Object
  <1>6. ASSUME CutNode, node'[t.o].size = node[t.o].size, TruncFailed PROVE CutMove
    BY <1>1, <1>3, <1>6 DEF CutMove, CutFails
  <1>7. CASE GrowFirst
    <2> DEFINE c == Alloc(0)
    <2>1. CASE ~Valid(c)
      BY <1>6, <1>7, <2>1, CutNodeSame DEF GrowFirst
    <2>2. CASE Valid(c)
      <3>1. pc = "truncate" /\ node[t.o].size < t.to /\ node[t.o].start = FREE
        BY <1>7 DEF GrowFirst
      <3>2. /\ SetNode(t.o, Started(node[t.o], c)) /\ pc' = "grow"
            /\ t' = [t EXCEPT !.prev = c, !.left = t.to - node[t.o].size - 1]
        BY <1>7, <2>2 DEF GrowFirst, Started
      <3>3. c \in Clusters /\ c \in Int /\ t.to - node[t.o].size - 1 \in Nat
        BY <1>0, <1>2, <2>2, <3>1, AllocIs
      <3> HIDE DEF c
      <3>4. PICK m : m = Started(node[t.o], c)
        OBVIOUS
      <3>5. IsNode(m) /\ m.at = node[t.o].at /\ m.size = node[t.o].size /\ m.dirty = node[t.o].dirty
        BY <1>2, <3>3, <3>4, NodeStarted
      <3>6. Recast(node[t.o], m)
        BY <3>1, <3>5 DEF Recast
      <3>7. CutNode /\ node'[t.o] = m
        BY <1>1, <3>2, <3>4, <3>5, <3>6, CutNodeSet
      <3>8. t'.o = t.o /\ t'.to = t.to /\ t'.undo = t.undo /\ t'.k = t.k /\ t'.kf = t.kf
        BY <1>2, <3>2, <3>3, TruncMoves
      <3> QED
        BY <1>1, <1>3, <1>5, <3>2, <3>5, <3>7, <3>8 DEF CutMove, CutOn, Cutting
    <2> QED
      BY <2>1, <2>2
  <1>8. CASE GrowOne
    <2> DEFINE n == node[t.o]
               next == Alloc(t.prev + 1)
               break == next # t.prev + 1 /\ n.contig
               n2 == IF break THEN Broken(n) ELSE n
    <2>1. /\ Valid(next) /\ t.left > 0 /\ pc = "grow"
          /\ \/ SetNode(t.o, n2) /\ t' = [t EXCEPT !.prev = next, !.left = t.left - 1] /\ pc' = pc
             \/ SetNode(t.o, n2) /\ TruncFailed
             \/ UNCHANGED node /\ TruncFailed
      BY <1>8 DEF GrowOne, Broken
    <2>2. next \in Clusters /\ next \in Int /\ t.left - 1 \in Nat
      BY <1>0, <1>2, <2>1, AllocIs
    <2>3. IsNode(n2) /\ n2.size = n.size /\ Recast(n, n2)
      <3>1. CASE break
        <4>1. n2 = Broken(n)
          BY <3>1
        <4> HIDE DEF n2, break
        <4> QED
          BY <1>2, <4>1, NodeBroken DEF Recast
      <3>2. CASE ~break
        BY <1>2, <3>2 DEF Recast
      <3> QED
        BY <3>1, <3>2
    <2> HIDE DEF n2, break, next
    <2>4. SetNode(t.o, n2) => CutNode /\ node'[t.o].size = node[t.o].size
      BY <1>1, <2>3, CutNodeSet
    <2>5. CASE SetNode(t.o, n2) /\ t' = [t EXCEPT !.prev = next, !.left = t.left - 1] /\ pc' = pc
      <3>1. PICK z : z = t.left
        OBVIOUS
      <3>2. z - 1 \in Nat /\ t' = [t EXCEPT !.prev = next, !.left = z - 1]
        BY <2>2, <2>5, <3>1
      <3>3. t'.o = t.o /\ t'.to = t.to /\ t'.undo = t.undo /\ t'.k = t.k /\ t'.kf = t.kf
        BY <1>2, <2>2, <3>2, TruncMoves
      <3> QED
        BY <1>1, <1>3, <1>5, <2>1, <2>4, <2>5, <3>3 DEF CutMove, CutOn, Cutting
    <2> QED
      BY <1>6, <2>1, <2>4, <2>5, CutNodeSame
  <1>9. CASE GrowEnd
    <2>1. node' = node /\ (TruncFailed \/ Goto("erasenew")) /\ pc = "grow"
      BY <1>9 DEF GrowEnd, memory
    <2>2. CASE Goto("erasenew")
      <3>1. t' = t /\ pc' = "erasenew"
        BY <2>2 DEF Goto
      <3>2. CutOn
        BY <1>5, <2>1, <3>1 DEF CutOn, Cutting
      <3> QED
        BY <1>1, <1>3, <2>1, <3>2, CutNodeSame DEF CutMove
    <2> QED
      BY <1>6, <2>1, <2>2, CutNodeSame
  <1> QED
    BY <1>7, <1>8, <1>9

(* A crop that changes the node marks it dirty.                             *)
LEMMA CroppedDirty ==
    ASSUME NEW n, IsNode(n), NEW to, NEW m, m = Cropped(n, to)
    PROVE  m = n \/ m.dirty = TRUE
  <1>1. CASE to = 0
    <2>1. m = [n EXCEPT !.start = FREE, !.dirty = TRUE]
      BY <1>1 DEF Cropped
    <2>2. m = [at |-> n.at, start |-> FREE, size |-> n.size, contig |-> n.contig, dirty |-> TRUE]
      BY <2>1 DEF IsNode
    <2> QED
      BY <2>2
  <1>2. CASE to # 0
    BY <1>2 DEF Cropped
  <1> QED
    BY <1>1, <1>2

(* those that erase, crop and free.                                         *)
LEMMA CutSteps3 ==
    ASSUME Basic, Object, EraseNew \/ Crop \/ FreeOne \/ FreeEnd
    PROVE  CutMove /\ CutNode
  <1>0. Progress /\ DeviceTyped
    BY DEF Basic, Typed
  <1>1. pc \in {"erasenew", "crop", "free"} /\ pc \in Cutting
    BY DEF EraseNew, Crop, FreeOne, FreeEnd, Cutting
  <1>2. /\ IsTrunc(t) /\ t.o \in Objects /\ t.to \in Nat /\ t.left \in Nat /\ t.prev \in Int
        /\ node[t.o].size \in Nat /\ IsNode(node[t.o]) /\ t.undo \in BOOLEAN
    BY <1>1, CuttingFacts DEF IsTrunc
  <1>3. UNCHANGED <<call, f, calls, want, cached, g_initialized>>
    BY DEF EraseNew, Crop, FreeOne, FreeEnd, memory, seen, TruncFailed, Hung, Goto
  <1>6. ASSUME CutNode, node'[t.o].size = node[t.o].size, TruncFailed \/ Hung PROVE CutMove
    BY <1>1, <1>3, <1>6 DEF CutMove, CutFails
  <1>7. CASE EraseNew
    <2> DEFINE n == node[t.o]
    <2>1. \/ SetNode(t.o, Sized(n, t.to)) /\ pc' = t.k /\ t' = NoT
          \/ UNCHANGED node /\ (TruncFailed \/ Hung)
      BY <1>7 DEF EraseNew, Sized
    <2>2. CASE SetNode(t.o, Sized(n, t.to)) /\ pc' = t.k /\ t' = NoT
      <3>1. PICK m : m = Sized(n, t.to)
        OBVIOUS
      <3>2. IsNode(m) /\ m.at = n.at /\ m.size = t.to /\ m.dirty = TRUE
        BY <1>2, <3>1, NodeSized
      <3>3. Recast(n, m)
        BY <3>2 DEF Recast
      <3>4. CutNode /\ node'[t.o] = m
        BY <1>1, <2>2, <3>1, <3>2, <3>3, CutNodeSet
      <3>5. t.undo = FALSE
        BY <1>7 DEF EraseNew, Object
      <3> QED
        BY <1>1, <1>3, <2>2, <3>2, <3>4, <3>5 DEF CutMove, CutDone
    <2> QED
      BY <1>6, <2>1, <2>2, CutNodeSame
  <1>8. CASE Crop
    <2> DEFINE n == node[t.o]
    <2>1. \/ SetNode(t.o, Cropped(n, t.to)) /\ pc' = "free" /\ t' = [t EXCEPT !.prev = Nth(n, t.to)]
          \/ UNCHANGED node /\ TruncFailed
      BY <1>8 DEF Crop
    <2>2. CASE SetNode(t.o, Cropped(n, t.to)) /\ pc' = "free" /\ t' = [t EXCEPT !.prev = Nth(n, t.to)]
      <3>1. PICK m : m = Cropped(n, t.to)
        OBVIOUS
      <3>a. IsNode(m) /\ m.at = n.at /\ m.size = n.size
        BY <1>2, <3>1, NodeCropped
      <3>b. m = n \/ m.dirty = TRUE
        BY <1>2, <3>1, CroppedDirty
      <3>2. IsNode(m) /\ m.at = n.at /\ m.size = n.size /\ (m = n \/ m.dirty = TRUE)
        BY <3>a, <3>b
      <3>3. Recast(n, m)
        BY <3>2 DEF Recast
      <3>4. CutNode /\ node'[t.o] = m
        BY <1>1, <2>2, <3>1, <3>2, <3>3, CutNodeSet
      <3>5. PICK x : x = Nth(n, t.to)
        OBVIOUS
      <3>6. x \in Int
        BY <1>0, <1>2, <3>5, NthInt
      <3>7. t'.o = t.o /\ t'.to = t.to /\ t'.undo = t.undo /\ t'.k = t.k /\ t'.kf = t.kf
        BY <1>2, <2>2, <3>5, <3>6, TruncMovesPrev
      <3> QED
        BY <1>1, <1>3, <2>2, <3>2, <3>4, <3>7 DEF CutMove, CutOn, Cutting
    <2> QED
      BY <1>6, <2>1, <2>2, CutNodeSame
  <1>9. CASE FreeOne
    <2> DEFINE next == IF node[t.o].contig THEN t.prev + 1 ELSE fat[t.prev]
    <2>1. /\ node' = node /\ pc = "free" /\ t.left > 0
          /\ \/ t' = [t EXCEPT !.prev = next, !.left = t.left - 1] /\ pc' = pc /\ Valid(t.prev)
             \/ TruncFailed
      BY <1>9 DEF FreeOne
    <2>2. CASE t' = [t EXCEPT !.prev = next, !.left = t.left - 1] /\ pc' = pc /\ Valid(t.prev)
      <3>1. next \in Int
        <4>1. fat[t.prev] \in Clusters \union {FREE, END}
          BY <1>0, <2>2 DEF DeviceTyped, Valid
        <4>2. fat[t.prev] \in Int
          BY <4>1, ClusterSet DEF FREE, END
        <4> QED
          BY <1>2, <4>2
      <3> HIDE DEF next
      <3>2. PICK z : z = t.left - 1
        OBVIOUS
      <3>3. z \in Nat /\ t' = [t EXCEPT !.prev = next, !.left = z]
        BY <1>2, <2>1, <2>2, <3>2
      <3>4. t'.o = t.o /\ t'.to = t.to /\ t'.undo = t.undo /\ t'.k = t.k /\ t'.kf = t.kf
        BY <1>2, <3>1, <3>3, TruncMoves
      <3>5. CutOn
        BY <2>1, <2>2, <3>4 DEF CutOn, Cutting
      <3> QED
        BY <1>1, <1>3, <2>1, <3>5, CutNodeSame DEF CutMove
    <2> QED
      BY <1>6, <2>1, <2>2, CutNodeSame
  <1>10. CASE FreeEnd
    <2> DEFINE n == node[t.o]
    <2>1. CASE t.undo = TRUE
      <3>1. SetNode(t.o, n) /\ pc' = t.kf /\ t' = NoT /\ UNCHANGED <<call, f>>
        BY <1>10, <2>1 DEF FreeEnd
      <3>2. CutNode /\ node'[t.o] = n /\ TruncFailed
        BY <1>1, <1>2, <3>1, CutNodeSet DEF Recast, TruncFailed
      <3> QED
        BY <1>6, <3>2
    <2>2. CASE t.undo = FALSE
      <3>1. SetNode(t.o, Sized(n, t.to)) /\ pc' = t.k /\ t' = NoT
        BY <1>10, <2>2 DEF FreeEnd, Sized
      <3>2. PICK m : m = Sized(n, t.to)
        OBVIOUS
      <3>3. IsNode(m) /\ m.at = n.at /\ m.size = t.to /\ m.dirty = TRUE
        BY <1>2, <3>2, NodeSized
      <3>4. Recast(n, m)
        BY <3>3 DEF Recast
      <3>5. CutNode /\ node'[t.o] = m
        BY <1>1, <3>1, <3>2, <3>3, <3>4, CutNodeSet
      <3> QED
        BY <1>1, <1>3, <2>2, <3>1, <3>3, <3>5 DEF CutMove, CutDone
    <2> QED
      BY <1>2, <2>1, <2>2
  <1> QED
    BY <1>7, <1>8, <1>9, <1>10

(* The steps of exfat_truncate.                                             *)
Cuts == \/ TruncateSame \/ GrowFrom \/ GrowNoSpace \/ ShrinkFrom \/ GrowFirst \/ GrowOne \/ GrowEnd
        \/ EraseNew \/ Crop \/ FreeOne \/ FreeEnd

(* All of them are like that.                                               *)
LEMMA CutSteps ==
    ASSUME Basic, Object, Cuts PROVE CutMove /\ CutNode
  BY CutSteps1, CutSteps2, CutSteps3 DEF Cuts

(* What obj has, while an exfat_truncate runs. *)
LEMMA ObjectCut ==
    ASSUME Basic, Basic', Course, Object, CutMove, CutNode PROVE Object'
  <1>1. /\ UNCHANGED <<op, obj, size>> /\ pc \in Cutting /\ CutFor
        /\ IsTrunc(t) /\ t.o \in Objects /\ obj \in Objs /\ obj \in Objects /\ obj # ROOT /\ obj \notin cached
        /\ Under[obj] \in cached /\ node[t.o].size \in Nat /\ t.to \in Nat
    BY CuttingFacts, ObjectSet DEF CutMove, call, Course, Placed
  <1>2. pc \notin FlushAt /\ pc \notin {"created", "data", "done", "slot", "commit"}
    BY <1>1 DEF FlushAt, Cutting
  <1>3. obj # Under[obj]
    BY <1>1
  <1>4. Present(obj)' <=> Present(obj)
    <2>1. node'[obj].at = node[obj].at
      BY <1>1 DEF CutNode, Recast
    <2> QED
      BY <1>1, <2>1 DEF Present
  <1>5. CASE CutOn
    <2>1. pc' \in Cutting /\ t'.k = t.k /\ t'.o = t.o /\ node'[t.o].size = node[t.o].size
          /\ pc' \notin FlushAt /\ pc' \notin {"created", "data", "done", "slot", "commit"}
      BY <1>5 DEF CutOn, Cutting, FlushAt
    <2>2. (WithNode' => WithNode) /\ (Unborn' => Unborn) /\ ~Newborn'
      BY <1>1, <2>1 DEF WithNode, Unborn, Newborn
    <2> QED
      BY <1>1, <1>4, <1>5, <2>1, <2>2 DEF Object, CutOn
  <1>6. CASE CutDone
    <2>1. pc' = t.k /\ t.undo = FALSE /\ node'[t.o].size = t.to
      BY <1>6 DEF CutDone
    <2>2. t.k \in {"data", "commit", "dirflush", "delflush"}
      BY <1>1 DEF CutFor
    <2>3. (WithNode' => WithNode) /\ (Unborn' => Unborn) /\ ~Newborn' /\ pc' \notin Cutting
      BY <1>1, <2>1, <2>2 DEF WithNode, Unborn, Newborn, Cutting, FlushAt
    <2>4. pc' = "data" => t.o = obj /\ t.to = size
      BY <1>1, <2>1 DEF CutFor
    <2> QED
      BY <1>1, <1>4, <2>1, <2>3, <2>4 DEF Object, Cutting
  <1>7. CASE CutFails
    <2>1. pc' \in {"fail", "delete", "delflush", "bug"}
      BY <1>1, <1>7 DEF CutFails, TruncFailed, Hung, CutFor
    <2> QED
      BY <2>1 DEF Object, WithNode, Unborn, Newborn, Cutting, FlushAt
  <1> QED
    BY <1>5, <1>6, <1>7 DEF CutMove

(* A file promised absent stays absent when no step makes it.               *)
LEMMA AbsentKept ==
    ASSUME Absent, \A o \in Files : want'[o] = ABSENT => want[o] = ABSENT,
           \A o \in Files : want[o] = ABSENT => (dent'[o] = dent[o] \/ dent'[o] = NoDent) /\ node'[o] = node[o]
    PROVE  Absent'
  <1> SUFFICES ASSUME NEW o \in Files, want'[o] = ABSENT PROVE dent'[o] = NoDent /\ node'[o] = NoNode
    BY DEF Absent
  <1> QED
    BY DEF Absent

(* No promise and the promise of absence are not the contents of a call.    *)
LEMMA AnyCall ==
    ANY # ABSENT /\ ~(ANY.call > 0) /\ ~(ABSENT.call > 0) /\ ABSENT.call = 0
  BY DEF ANY, ABSENT

(* exfat_truncate keeps the part about the call.                            *)
LEMMA ScriptCut ==
    ASSUME IInv, IInv', Script, Cuts PROVE Script' /\ CutMove /\ CutNode
  <1>1. Basic /\ Basic' /\ Course /\ Object /\ Wanted /\ WantTyped /\ Absent /\ DentsTyped
    BY DEF IInv, Script, Basic, Typed, DeviceTyped
  <1>2. CutMove /\ CutNode
    BY <1>1, CutSteps
  <1>3. Course' /\ Object'
    BY <1>1, <1>2, CourseCut, ObjectCut
  <1>4. want' = want /\ UNCHANGED <<op, obj, size>> /\ pc \in Cutting
    BY <1>2 DEF CutMove, call
  <1>5. pc' \notin Formatting
    <2>1. g_initialized /\ g_initialized' = g_initialized
      BY <1>1, <1>2, <1>4, CuttingFacts DEF CutMove
    <2> QED
      BY <1>1, <2>1 DEF Basic, Control
  <1>6. \A o \in Objs : dent'[o] = dent[o] \/ dent'[o] = NoDent
    <2>1. CASE EraseNew
      BY <1>1, <2>1, OverwrittenDents DEF EraseNew
    <2>2. CASE ~EraseNew
      <3>1. dent' = dent
        BY <2>2 DEF Cuts, TruncateSame, GrowFrom, GrowNoSpace, ShrinkFrom, GrowFirst, GrowOne, GrowEnd, Crop,
           FreeOne, FreeEnd, device
      <3> QED
        BY <3>1
    <2> QED
      BY <2>1, <2>2
  <1>7. Absent'
    <2>1. \A o \in Files : want[o] = ABSENT => o # t.o
      <3> SUFFICES ASSUME NEW o \in Files, want[o] = ABSENT, o = t.o PROVE FALSE
        OBVIOUS
      <3>1. CutFor /\ (op = "mkdir" => obj \in Dirs) /\ (op = "write" => want[obj] = ANY) /\ op \in {"write", "mkdir"}
        BY <1>1, <1>4 DEF Course, Wanted
      <3>2. obj \in Objs /\ Under[obj] \in Dirs \union {ROOT} /\ o \notin Dirs \union {ROOT}
        BY <1>1, <1>4, CuttingFacts, ExfatAssumption, ObjectSet DEF Placed
      <3>3. ANY # ABSENT
        BY AnyCall
      <3> QED
        BY <3>1, <3>2, <3>3 DEF CutFor
    <2>2. Files \subseteq Objs /\ Files \subseteq Objects
      BY ObjectSet
    <2> QED
      BY <1>1, <1>2, <1>4, <1>6, <2>1, <2>2, AbsentKept DEF CutNode
  <1> QED
    BY <1>1, <1>2, <1>3, <1>4, <1>5, <1>7 DEF Script, Wanted, WantTyped

(* Nodes that may differ in the dirty mark only.                            *)
NodesAlike == \A p \in Objects : /\ node'[p].at = node[p].at /\ node'[p].start = node[p].start
                                 /\ node'[p].size = node[p].size /\ node'[p].contig = node[p].contig

(* The steps of exfat_flush_node.                                           *)
Flushes == FlushNothing \/ FlushEntry \/ FlushBitmap

(* They change nodes in the dirty mark, and only the entry of a dirty node  *)
(* that is flushed.                                                         *)
LEMMA FlushSteps ==
    ASSUME Basic, Flushes
    PROVE  /\ FlushMove /\ NodesAlike
           /\ \A p \in Objects : p # f.o \/ node[p].dirty # TRUE => node'[p] = node[p]
           /\ \A p \in Objs : p # f.o \/ node[p].dirty # TRUE => dent'[p] = dent[p]
  <1>1. pc \in FlushAt /\ UNCHANGED <<calls, want, cached, g_initialized>>
    BY DEF Flushes, FlushNothing, FlushEntry, FlushBitmap, FlushAt, memory, seen
  <1>2. CASE FlushNothing \/ FlushBitmap
    <2>1. node' = node /\ dent' = dent /\ (FlushDone(f.k) \/ FlushDone(f.kf))
      BY <1>2 DEF FlushNothing, FlushBitmap, memory, device
    <2> QED
      BY <1>1, <2>1 DEF FlushMove, NodesAlike
  <1>3. CASE FlushEntry
    <2> DEFINE n == node[f.o]
               m == [n EXCEPT !.dirty = FALSE]
    <2>0. f.o \in Objs /\ f.o \in Objects /\ IsNode(n) /\ NodesTyped /\ DentsTyped /\ node[f.o].dirty = TRUE
      <3>1. IsFlush(f) /\ f.o # ROOT /\ node[f.o].dirty
        BY <1>3 DEF FlushEntry, Basic, Typed, CallTyped
      <3>2. f.o \in Objects /\ f.o \in Objs
        BY <3>1, ObjectSet DEF IsFlush
      <3>3. NodesTyped /\ IsNode(n) /\ DentsTyped
        BY <3>2 DEF Basic, Typed, MemoryTyped, NodesTyped, DeviceTyped
      <3> QED
        BY <3>1, <3>2, <3>3 DEF IsNode
    <2>1. FlushMove
      BY <1>1, <1>3 DEF FlushEntry, FlushMove
    <2>2. SetNode(f.o, m) \/ node' = node
      BY <1>3 DEF FlushEntry
    <2>3. /\ IsNode(m) /\ m.at = n.at /\ m.start = n.start /\ m.size = n.size /\ m.contig = n.contig
      BY <2>0, NodeTouched
    <2> HIDE DEF m
    <2>4. NodesAlike /\ \A p \in Objects : p # f.o => node'[p] = node[p]
      <3>1. CASE SetNode(f.o, m)
        <4>1. node'[f.o] = m /\ \A p \in Objects : p # f.o => node'[p] = node[p]
          BY <2>0, <2>3, <3>1, NodeReplaced
        <4> QED
          BY <2>3, <4>1 DEF NodesAlike
      <3>2. CASE node' = node
        BY <3>2 DEF NodesAlike
      <3> QED
        BY <2>2, <3>1, <3>2
    <2>5. \A p \in Objs : p # f.o => dent'[p] = dent[p]
      <3>1. \/ dent' = dent \/ dent' = [dent EXCEPT ![f.o] = EntryFor(n)]
            \/ dent' = [dent EXCEPT ![f.o] = Torn(n.at)]
        BY <1>3 DEF FlushEntry
      <3>2. IsDent(EntryFor(n)) /\ IsDent(Torn(n.at))
        BY <2>0, DentOfNode, EmptyEntries DEF Torn
      <3> QED
        BY <2>0, <3>1, <3>2, DentReplaced
    <2> QED
      BY <2>0, <2>1, <2>4, <2>5
  <1> QED
    BY <1>2, <1>3 DEF Flushes

(* They keep what is known of obj,                                          *)
LEMMA ObjectFlush ==
    ASSUME Basic, Course, Object, FlushMove, NodesAlike PROVE Object'
  <1>1. /\ UNCHANGED <<op, obj, size>> /\ pc \in FlushAt /\ FlushFor /\ obj \in Objects
    BY ObjectSet DEF FlushMove, FlushDone, Goto, call, Course, Basic, Typed, CallTyped
  <1>2. Present(obj)' <=> Present(obj)
    BY <1>1 DEF Present, NodesAlike
  <1>3. node'[obj].size = node[obj].size
    BY <1>1 DEF NodesAlike
  <1>4. CASE Goto("bitmap")
    <2>1. f' = f /\ pc' = "bitmap"
      BY <1>4 DEF Goto
    <2> QED
      BY <1>1, <1>2, <1>3, <2>1 DEF Object, WithNode, Unborn, Newborn, Cutting, FlushAt
  <1>5. ASSUME NEW l, pc' = l, l = f.k \/ l = f.kf PROVE Object'
    <2>1. /\ l \in {"created", "done", "next", "unmount", "detach", "fail", "delete", "lastflush"}
          /\ l = "created" => f.k = "created"
          /\ l = "done" => f.k = "done"
      BY <1>1, <1>5 DEF FlushFor
    <2> QED
      BY <1>1, <1>2, <1>3, <1>5, <2>1 DEF Object, WithNode, Unborn, Newborn, Cutting, FlushAt
  <1> QED
    BY <1>4, <1>5 DEF FlushMove, FlushDone

(* and the part about the call.                                             *)
LEMMA ScriptFlush ==
    ASSUME IInv, IInv', Script, Flushes PROVE Script'
  <1>1. Basic /\ Basic' /\ Course /\ Object /\ Wanted /\ WantTyped /\ Absent
    BY DEF IInv, Script
  <1>2. FlushMove /\ NodesAlike
    BY <1>1, FlushSteps
  <1>3. Course' /\ Object'
    BY <1>1, <1>2, CourseFlush, ObjectFlush
  <1>4. want' = want /\ UNCHANGED <<op, obj, size>> /\ pc \in FlushAt
    BY <1>2 DEF FlushMove, FlushDone, Goto, call
  <1>5. pc' \notin Formatting
    <2>1. g_initialized /\ g_initialized' = g_initialized
      BY <1>1, <1>2, <1>4 DEF FlushMove, Basic, Control
    <2> QED
      BY <1>1, <2>1 DEF Basic, Control
  <1>6. Absent'
    <2>1. Files \subseteq Objs /\ Files \subseteq Objects
      BY ObjectSet
    <2>2. \A o \in Files : want[o] = ABSENT => node[o].dirty = FALSE
      BY <1>1, Blank DEF Absent
    <2>3. \A o \in Files : want[o] = ABSENT => dent'[o] = dent[o] /\ node'[o] = node[o]
      BY <1>1, <2>1, <2>2, FlushSteps
    <2> QED
      BY <1>1, <1>4, <2>3, AbsentKept
  <1> QED
    BY <1>1, <1>3, <1>4, <1>5, <1>6 DEF Script, Wanted, WantTyped

(* Where nothing is required of obj. *)
LEMMA ObjectFree ==
    ASSUME pc' \notin {"created", "data", "done", "slot", "commit"} \union Cutting \union FlushAt
    PROVE  Object'
  BY DEF Object, WithNode, Unborn, Newborn, Cutting, FlushAt

(* Formatting keeps the part about the call:                                *)
LEMMA ScriptFormat ==
    ASSUME IInv, IInv', Script,
           exfat_format \/ EraseVbr \/ Erase \/ MakeVbr \/ MakeFat \/ MakeBitmap \/ MakeTable \/ MakeRoot
    PROVE  Script'
  <1>1. Basic /\ Course /\ Wanted /\ WantTyped /\ Absent /\ DentsTyped /\ calls \in Nat
    BY DEF IInv, Script, Basic, Typed, DeviceTyped, CountTyped
  <1>2. CASE exfat_format
    <2>1. /\ pc = "idle" /\ pc' = "erasevbr" /\ calls' = calls + 1 /\ want' = [o \in Files |-> ANY]
          /\ UNCHANGED <<op, obj, written, f, t>>
      BY <1>2 DEF exfat_format, call
    <2>2. Course'
      BY <1>1, <2>1 DEF Course, Cutting, FlushAt, Making, Writing, Leaving
    <2>3. Object'
      BY <2>1, ObjectFree DEF Cutting, FlushAt
    <2>4. \A o \in Files : want'[o] = ANY
      BY <2>1
    <2>5. Wanted'
      BY <1>1, <2>1, <2>4 DEF Wanted, Course
    <2>6. WantTyped' /\ Absent'
      BY <2>1, <2>4, AnyCall DEF WantTyped, Absent
    <2> QED
      BY <2>2, <2>3, <2>5, <2>6 DEF Script
  <1>3. CASE ~exfat_format
    <2>1. /\ pc \in Formatting /\ calls' = calls /\ (Return \/ \E l \in Formatting : Goto(l))
          /\ node' = node
      BY <1>3 DEF EraseVbr, Erase, MakeVbr, MakeFat, MakeBitmap, MakeTable, MakeRoot, Formatting, memory
    <2>2. \A o \in Files : want[o] = ANY
      BY <1>1, <2>1 DEF Wanted
    <2>3. CASE want' = want
      <3>1. Absent' /\ WantTyped'
        BY <1>1, <2>2, <2>3, AnyCall DEF Absent, WantTyped
      <3>2. CASE Return
        <4>1. Course'
          BY <3>2, CourseIdle
        <4>2. pc' = "idle" /\ op' = "none"
          BY <3>2 DEF Return
        <4>3. Object' /\ Wanted'
          BY <4>2, ObjectFree DEF Cutting, FlushAt, Wanted, Formatting
        <4> QED
          BY <3>1, <4>1, <4>3 DEF Script
      <3>3. CASE \E l \in Formatting : Goto(l)
        <4>1. pc' \in Formatting /\ UNCHANGED call /\ UNCHANGED <<op, obj>>
          BY <3>3 DEF Goto, call
        <4>2. pc \notin Cutting \union FlushAt /\ pc \notin {"done", "idle"}
          BY <2>1 DEF Formatting, Cutting, FlushAt
        <4>3. pc' \notin Making /\ pc' \notin {"slot", "commit", "created", "fail", "data", "read", "done"}
              /\ pc' \notin Cutting \union FlushAt
          BY <4>1 DEF Formatting, Making, Leaving, Cutting, FlushAt
        <4>4. Course'
          BY <1>1, <2>1, <4>1, <4>2, <4>3, CourseOff
        <4>5. Object'
          BY <4>3, ObjectFree
        <4>6. Wanted'
          BY <1>1, <2>2, <2>3, <4>1 DEF Wanted
        <4> QED
          BY <3>1, <4>4, <4>5, <4>6 DEF Script
      <3> QED
        BY <2>1, <3>2, <3>3
    <2>4. CASE want' # want
      <3>1. Return /\ dent' = [o \in Objs |-> NoDent] /\ want' = [o \in Files |-> ABSENT] /\ pc = "mkroot"
        BY <1>3, <2>4 DEF EraseVbr, Erase, MakeVbr, MakeFat, MakeBitmap, MakeTable, MakeRoot, seen
      <3>2. ~g_initialized /\ cached = {}
        BY <1>1, <3>1 DEF Basic, Control, Tree, Formatting
      <3>3. \A o \in Files : o \in Objs /\ node'[o] = NoNode /\ dent'[o] = NoDent
        <4>1. \A o \in Files : o \in Objs
          BY ObjectSet
        <4>2. \A o \in Objs : node[o] = NoNode
          BY <1>1, <3>2 DEF Basic, Tree
        <4> QED
          BY <2>1, <3>1, <4>1, <4>2
      <3>4. Course'
        BY <3>1, CourseIdle
      <3>5. pc' = "idle" /\ op' = "none"
        BY <3>1 DEF Return
      <3>6. Object' /\ Wanted'
        BY <3>5, ObjectFree DEF Cutting, FlushAt, Wanted, Formatting
      <3>7. Absent'
        BY <3>3 DEF Absent
      <3>8. WantTyped'
        BY <3>1 DEF WantTyped
      <3> QED
        BY <3>4, <3>6, <3>7, <3>8 DEF Script
    <2> QED
      BY <2>3, <2>4
  <1> QED
    BY <1>2, <1>3

(* A promise survives the loss of memory only for a file that was flushed.  *)
LEMMA ForgottenIs ==
    ASSUME WantTyped, NEW w, w = Forgotten
    PROVE  /\ w = [o \in Files |-> w[o]]
           /\ \A o \in Files : w[o] = ANY \/ (w[o] = want[o] /\ Flushed(o))
  BY DEF Forgotten

(* so do the starts and ends of calls,                                      *)
LEMMA ScriptEnds ==
    ASSUME IInv, IInv', Script, exfat_init \/ Crash \/ Mount \/ Failed \/ ReadData
    PROVE  Script'
  <1>1. Basic /\ Course /\ Wanted /\ WantTyped /\ Absent /\ calls \in Nat /\ NodesTyped
    BY DEF IInv, Script, Basic, Typed, MemoryTyped, CountTyped
  <1>2. dent' = dent
    BY DEF exfat_init, Crash, Mount, Failed, ReadData, device
  <1>3. CASE exfat_init
    <2>1. pc = "idle" /\ pc' = "mount" /\ calls' = calls + 1 /\ want' = Forgotten /\ UNCHANGED <<op, obj, written, f, t, node>>
      BY <1>3 DEF exfat_init, call, memory
    <2>2. Course'
      BY <1>1, <2>1 DEF Course, Cutting, FlushAt, Making, Writing, Leaving
    <2>3. Object'
      BY <2>1, ObjectFree DEF Cutting, FlushAt
    <2>4. /\ want' = [o \in Files |-> want'[o]]
          /\ \A o \in Files : want'[o] = ANY \/ want'[o] = want[o]
      BY <1>1, <2>1, ForgottenIs
    <2>5. WantTyped'
      BY <1>1, <2>4 DEF WantTyped
    <2>6. Wanted'
      BY <1>1, <2>1, <2>4 DEF Wanted, Course, Formatting
    <2>7. Absent'
      BY <1>1, <1>2, <2>1, <2>4, AnyCall, AbsentKept
    <2> QED
      BY <2>2, <2>3, <2>5, <2>6, <2>7 DEF Script
  <1>4. CASE ~exfat_init
    <2>1. Return /\ (want' = want \/ want' = Forgotten)
      BY <1>4 DEF Crash, Mount, Failed, ReadData, seen
    <2>2. Course'
      BY <2>1, CourseIdle
    <2>3. pc' = "idle" /\ op' = "none"
      BY <2>1 DEF Return
    <2>4. Object' /\ Wanted'
      BY <2>3, ObjectFree DEF Cutting, FlushAt, Wanted, Formatting
    <2>5. /\ want' = [o \in Files |-> want'[o]]
          /\ \A o \in Files : want'[o] = ANY \/ want'[o] = want[o]
      BY <1>1, <2>1, ForgottenIs DEF WantTyped
    <2>6. WantTyped'
      BY <1>1, <2>5 DEF WantTyped
    <2>7. \A o \in Files : want[o] = ABSENT => dent[o] = NoDent /\ node[o] = NoNode /\ o \in Objs /\ o # ROOT /\ o \in Objects
      BY <1>1, ObjectSet DEF Absent
    <2>8. \A o \in Files : want[o] = ABSENT => node'[o] = NoNode
      <3>1. CASE node' = [o \in Objs \union {ROOT} |-> NoNode]
        BY <2>7, <3>1
      <3>2. CASE node' = node
        BY <2>7, <3>2
      <3>3. CASE node' = Loaded([o \in Objs \union {ROOT} |-> IF o = ROOT THEN RootNode ELSE NoNode], ROOT, RootNode)
        <4> SUFFICES ASSUME NEW o \in Files, want[o] = ABSENT PROVE node'[o] = NoNode
          OBVIOUS
        <4>1. o \in Objs /\ o # ROOT /\ dent[o] = NoDent
          BY <2>7
        <4>2. o \notin EntriesIn(RootNode)
          BY <4>1, Blank DEF EntriesIn
        <4> QED
          BY <3>3, <4>1, <4>2 DEF Loaded
      <3>4. CASE ReadData
        <4>1. obj \in Objects /\ IsNode(node[obj])
          BY <1>1 DEF Basic, Typed, CallTyped, NodesTyped
        <4>2. PICK n : n = node[obj]
          OBVIOUS
        <4>3. CASE UNCHANGED node
          BY <3>2, <4>3
        <4>4. CASE node' = [node EXCEPT ![obj].dirty = @ \/ (n.size > 0 /\ \A c \in ChainOf(n) : Valid(c))]
          <5> SUFFICES ASSUME NEW o \in Files, want[o] = ABSENT PROVE node'[o] = NoNode
            OBVIOUS
          <5>1. o \in Objects /\ node[o] = NoNode
            BY <2>7
          <5>2. CASE o # obj
            BY <1>1, <4>4, <5>1, <5>2 DEF NodesTyped
          <5>3. CASE o = obj
            <6>1. n = NoNode /\ n.size = 0 /\ n.dirty = FALSE
              BY <4>2, <5>1, <5>3, Blank
            <6>2. ~(n.size > 0 /\ \A c \in ChainOf(n) : Valid(c))
              BY <6>1
            <6>3. node' = [node EXCEPT ![obj].dirty = FALSE]
              BY <4>2, <4>4, <6>1, <6>2
            <6>4. node'[obj] = [node[obj] EXCEPT !.dirty = FALSE]
              BY <1>1, <4>1, <6>3 DEF NodesTyped
            <6> QED
              BY <4>2, <5>3, <6>1, <6>4 DEF NoNode
          <5> QED
            BY <5>2, <5>3
        <4> QED
          BY <3>4, <4>2, <4>3, <4>4 DEF ReadData
      <3> QED
        BY <1>4, <3>1, <3>2, <3>3, <3>4 DEF Crash, Mount, Failed, memory
    <2>9. Absent'
      BY <1>1, <1>2, <2>5, <2>7, <2>8, AnyCall, AbsentKept
    <2> QED
      BY <2>2, <2>4, <2>6, <2>9 DEF Script
  <1> QED
    BY <1>3, <1>4

(* the calls on a mounted volume,                                           *)
LEMMA ScriptCalls ==
    ASSUME IInv, IInv', Script,
           \/ \E o \in Files, n \in Sizes : exfat_write_file(o, n)
           \/ \E d \in Dirs : exfat_create_dir_path(d)
           \/ \E o \in Objs : exfat_read_file(o) \/ exfat_get_file_info(o)
    PROVE  Script'
  <1>1. Basic /\ Course /\ Wanted /\ WantTyped /\ Absent /\ calls \in Nat
    BY DEF IInv, Script, Basic, Typed, CountTyped
  <1>2. /\ pc = "idle" /\ pc' = "lookup" /\ calls' = calls + 1 /\ written' = written
        /\ UNCHANGED <<dent, node>>
        /\ \/ op' = "write" /\ obj' \in Files /\ want' = [want EXCEPT ![obj'] = ANY]
           \/ op' = "mkdir" /\ obj' \in Dirs /\ want' = want
           \/ op' \in {"read", "info"} /\ want' = want
    BY DEF exfat_write_file, exfat_create_dir_path, exfat_read_file, exfat_get_file_info, Call, memory, device
  <1>3. Course'
    BY <1>1, <1>2 DEF Course, Cutting, FlushAt, Making, Writing, Leaving
  <1>4. Object'
    BY <1>2, ObjectFree DEF Cutting, FlushAt
  <1>5. /\ want' = [o \in Files |-> want'[o]]
        /\ \A o \in Files : want'[o] = ANY \/ want'[o] = want[o]
        /\ op' = "write" => want'[obj'] = ANY
    <2>1. CASE want' = want /\ op' # "write"
      BY <1>1, <2>1 DEF WantTyped
    <2>2. CASE obj' \in Files /\ want' = [want EXCEPT ![obj'] = ANY]
      <3>1. PICK w, q : w = want /\ q = obj'
        OBVIOUS
      <3>2. q \in Files /\ w = [o \in Files |-> w[o]] /\ want' = [w EXCEPT ![q] = ANY]
        BY <1>1, <2>2, <3>1 DEF WantTyped
      <3>3. want' = [o \in Files |-> IF o = q THEN ANY ELSE w[o]]
        BY <3>2
      <3> QED
        BY <3>1, <3>2, <3>3
    <2> QED
      BY <1>2, <2>1, <2>2
  <1>6. WantTyped'
    BY <1>1, <1>5 DEF WantTyped
  <1>7. Wanted'
    BY <1>2, <1>5 DEF Wanted, Formatting
  <1>8. Absent'
    BY <1>1, <1>2, <1>5, AnyCall, AbsentKept
  <1> QED
    BY <1>3, <1>4, <1>6, <1>7, <1>8 DEF Script

(* Marking dirty marks dirty.                                               *)
LEMMA DirtyIs ==
    ASSUME NEW n, IsNode(n) PROVE [n EXCEPT !.dirty = TRUE].dirty = TRUE
  <1>1. PICK m : m = [n EXCEPT !.dirty = TRUE]
    OBVIOUS
  <1>2. m = [at |-> n.at, start |-> n.start, size |-> n.size, contig |-> n.contig, dirty |-> TRUE]
    BY <1>1 DEF IsNode
  <1>3. m.dirty = TRUE
    BY <1>2
  <1> QED
    BY <1>1, <1>3

(* create and delete mark the directory dirty.                              *)
LEMMA WorkedDirty ==
    ASSUME Basic, pc \in InDir, NEW n, node' = [node EXCEPT ![obj] = n, ![Under[obj]].dirty = TRUE]
    PROVE  node'[Under[obj]].dirty = TRUE
  <1> DEFINE d == Under[obj]
             m == [node[d] EXCEPT !.dirty = TRUE]
  <1>1. obj \in Objects /\ d \in Objects /\ d # obj /\ IsNode(node[d])
    BY BusyFacts DEF Placed
  <1>2. m.dirty = TRUE
    BY <1>1, DirtyIs
  <1>3. node = [o \in Objects |-> node[o]]
    BY DEF Basic, Typed, MemoryTyped, NodesTyped
  <1>4. node'[d] = m
    BY <1>1, <1>3
  <1> QED
    BY <1>2, <1>4

(* What exfat_lookup does. *)
FoundIn(p) == /\ Present(p) /\ (p \in cached \/ Readable(node[p])) /\ cached' = cached \union {p}
              /\ node' = IF p \in cached THEN node ELSE Loaded(node, p, node[p])

(* and where it goes on.                                                    *)
LookedUp == \/ Return
            \/ Goto("read") /\ op = "read"
            \/ Goto("slot") /\ op \in {"write", "mkdir"} /\ node'[obj].at = NoSlot
            \/ Goto("next") /\ op = "mkdir"
            \/ Truncating(obj, size, "data", "fail") /\ op = "write" /\ node'[obj].at # NoSlot

(* A look-up succeeds in one of these ways, or fails and changes nothing.   *)
LEMMA LookUpIs ==
    ASSUME Basic, LookUp
    PROVE  \/ Return /\ UNCHANGED <<node, cached>>
           \/ FoundIn(Under[obj]) /\ LookedUp
  <1> DEFINE p == Under[obj]
             ns == IF p \in cached THEN node ELSE Loaded(node, p, node[p])
  <1>1. pc = "lookup"
    BY DEF LookUp
  <1>2. op \in {"write", "mkdir", "read", "info"} /\ (obj \in Dirs \/ obj \in Files)
    BY <1>1 DEF Basic, Typed, CallTyped, Control, Objs
  <1>3. CASE /\ Present(p) /\ (p \in cached \/ Readable(node[p])) /\ cached' = cached \union {p} /\ node' = ns
             /\ CASE op = "info" \/ (op = "read" /\ (ns[obj].at = NoSlot \/ obj \in Dirs)) -> Return
                   [] op = "read" /\ ns[obj].at # NoSlot /\ obj \in Files -> Goto("read")
                   [] op \in {"write", "mkdir"} /\ ns[obj].at = NoSlot -> Goto("slot")
                   [] op = "mkdir" /\ ns[obj].at # NoSlot -> Goto("next")
                   [] op = "write" /\ ns[obj].at # NoSlot -> Truncating(obj, size, "data", "fail")
    <2>1. FoundIn(p)
      BY <1>3 DEF FoundIn
    <2> HIDE DEF ns
    <2>2. LookedUp
      <3>1. CASE op = "info" \/ (op = "read" /\ (ns[obj].at = NoSlot \/ obj \in Dirs))
        BY <1>3, <3>1 DEF LookedUp
      <3>2. CASE op = "read" /\ ns[obj].at # NoSlot /\ obj \in Files
        BY <1>3, <3>2, ExfatAssumption DEF LookedUp
      <3>3. CASE op \in {"write", "mkdir"} /\ ns[obj].at = NoSlot
        BY <1>3, <3>3 DEF LookedUp
      <3>4. CASE op = "mkdir" /\ ns[obj].at # NoSlot
        BY <1>3, <3>4 DEF LookedUp
      <3>5. CASE op = "write" /\ ns[obj].at # NoSlot
        BY <1>3, <3>5 DEF LookedUp
      <3> QED
        BY <1>2, <3>1, <3>2, <3>3, <3>4, <3>5
    <2> QED
      BY <2>1, <2>2
  <1>4. CASE Return /\ UNCHANGED <<node, cached>>
    BY <1>4
  <1> QED
    BY <1>3, <1>4 DEF LookUp

(* Wanted and Absent while want, op and obj stay. *)
LEMMA ScriptSame ==
    ASSUME Wanted, WantTyped, Absent, UNCHANGED <<op, obj, want>>, pc' \notin Formatting,
           \A o \in Files : want[o] = ABSENT => (dent'[o] = dent[o] \/ dent'[o] = NoDent) /\ node'[o] = node[o],
           Course', Object'
    PROVE  Script'
  <1>1. Absent'
    BY AbsentKept
  <1> QED
    BY <1>1 DEF Script, Wanted, WantTyped

(* the look-up,                                                             *)
LEMMA ScriptLookUp ==
    ASSUME IInv, IInv', Script, LookUp PROVE Script'
  <1>1. Basic /\ Basic' /\ Course /\ Wanted /\ WantTyped /\ Absent
    BY DEF IInv, Script
  <1> DEFINE p == Under[obj]
  <1>2. /\ pc = "lookup" /\ want' = want /\ dent' = dent /\ calls' = calls
        /\ node' = node \/ node' = Loaded(node, p, node[p])
        /\ LookedUp
    <2>1. pc = "lookup" /\ want' = want /\ dent' = dent /\ calls' = calls
      BY DEF LookUp, device, seen
    <2> QED
      BY <1>1, <2>1, LookUpIs DEF FoundIn, LookedUp
  <1>3. \A o \in Files : want[o] = ABSENT => node'[o] = node[o]
    <2> SUFFICES ASSUME NEW o \in Files, want[o] = ABSENT PROVE node'[o] = node[o]
      OBVIOUS
    <2>1. o \in Objs /\ o # ROOT /\ dent[o] = NoDent
      BY <1>1, ObjectSet DEF Absent
    <2>2. o \notin EntriesIn(node[p])
      BY <2>1, Blank DEF EntriesIn
    <2> QED
      BY <1>2, <2>1, <2>2 DEF Loaded
  <1>4. pc \notin Cutting \union FlushAt /\ pc # "done" /\ pc # "idle" /\ obj # ROOT
    BY <1>1, <1>2, ObjectSet DEF Cutting, FlushAt, Basic, Control
  <1>5. CASE Return
    <2>1. Course'
      BY <1>5, CourseIdle
    <2>2. pc' = "idle" /\ op' = "none"
      BY <1>5 DEF Return
    <2>3. Object' /\ Wanted'
      BY <2>2, ObjectFree DEF Cutting, FlushAt, Wanted, Formatting
    <2>4. Absent'
      BY <1>1, <1>2, <1>3, AbsentKept
    <2> QED
      BY <1>1, <1>2, <2>1, <2>3, <2>4 DEF Script, WantTyped
  <1>6. CASE \E l \in {"read", "slot", "next"} : Goto(l) /\ (l = "read" => op = "read") /\ (l = "next" => op = "mkdir")
                  /\ (l = "slot" => op \in {"write", "mkdir"} /\ node'[obj].at = NoSlot)
    <2>1. PICK l \in {"read", "slot", "next"} :
               /\ Goto(l) /\ (l = "read" => op = "read") /\ (l = "next" => op = "mkdir")
               /\ (l = "slot" => op \in {"write", "mkdir"} /\ node'[obj].at = NoSlot)
      BY <1>6
    <2>2. UNCHANGED call /\ UNCHANGED <<op, obj, size>> /\ pc' = l
      BY <2>1 DEF Goto, call
    <2>3. Course'
      BY <1>1, <1>2, <1>4, <2>1, <2>2, CourseOff DEF Making, Leaving
    <2>4. Object'
      BY <1>4, <2>1, <2>2 DEF Object, WithNode, Unborn, Newborn, Cutting, FlushAt, Present
    <2>5. pc' \notin Formatting
      BY <2>1, <2>2 DEF Formatting
    <2> QED
      BY <1>1, <1>2, <1>3, <2>2, <2>3, <2>4, <2>5, ScriptSame
  <1>7. CASE Truncating(obj, size, "data", "fail") /\ op = "write" /\ node'[obj].at # NoSlot
    <2>1. Course'
      BY <1>1, <1>2, <1>4, <1>7, CourseTruncating
    <2>2. UNCHANGED <<op, obj, size>> /\ pc' = "truncate" /\ t'.k = "data"
      BY <1>7 DEF Truncating, NoT, call
    <2>3. Object'
      BY <1>4, <1>7, <2>2 DEF Object, WithNode, Unborn, Newborn, Cutting, FlushAt, Present
    <2>4. pc' \notin Formatting
      BY <2>2 DEF Formatting
    <2> QED
      BY <1>1, <1>2, <1>3, <2>1, <2>2, <2>3, <2>4, ScriptSame
  <1> QED
    BY <1>2, <1>5, <1>6, <1>7 DEF LookedUp

(* The steps that do nothing but go on. *)
LEMMA ScriptMoves ==
    ASSUME IInv, IInv', Script,
           FindSlot \/ Created \/ DirFlush \/ DeleteFlush \/ PathDone \/ UnmountNode \/ UnmountNodesDone \/ Unmount
    PROVE  Script'
  <1>1. Basic /\ Basic' /\ Course /\ Object /\ Wanted /\ WantTyped /\ Absent
    BY DEF IInv, Script
  <1>2. UNCHANGED <<want, dent, node, calls>>
    BY DEF FindSlot, Created, DirFlush, DeleteFlush, PathDone, UnmountNode, UnmountNodesDone, Unmount, device, memory, seen
  <1>3. pc \in {"slot", "created", "dirflush", "delflush", "next", "unmount", "lastflush"}
    BY DEF FindSlot, Created, DirFlush, DeleteFlush, PathDone, UnmountNode, UnmountNodesDone, Unmount
  <1>4. /\ pc \notin Cutting \union FlushAt /\ pc # "done" /\ pc # "idle" /\ op \in {"write", "mkdir"}
        /\ pc \notin {"slot", "created"} => op = "mkdir"
    BY <1>1, <1>3 DEF Cutting, FlushAt, Course, Making, Leaving
  <1>5. ASSUME NEW l \in {"commit", "fail", "unmount", "lastflush", "mount", "bug"}, Goto(l), l = "commit" => pc = "slot",
               l \notin {"commit", "fail"} => op = "mkdir"
        PROVE  Script'
    <2>1. UNCHANGED call /\ UNCHANGED <<op, obj, size>> /\ pc' = l
      BY <1>5 DEF Goto, call
    <2>2. Course'
      <3>1. l # "mount" => Course'
        BY <1>1, <1>2, <1>4, <1>5, <2>1, CourseOff DEF Making, Leaving
      <3>2. ASSUME l = "mount" PROVE Course'
        <4>1. written # TRUE /\ written' = written
          BY <1>1, <1>4, <2>1 DEF Course, call
        <4> QED
          BY <1>1, <1>2, <1>4, <2>1, <3>2, <4>1 DEF Course, Making, Writing, Leaving, Cutting, FlushAt
      <3> QED
        BY <3>1, <3>2
    <2>3. Unborn' => Unborn
      BY <1>5, <2>1 DEF Unborn, Cutting
    <2>4. Object'
      BY <1>1, <1>2, <1>5, <2>1, <2>3 DEF Object, WithNode, Unborn, Newborn, Cutting, FlushAt, Present
    <2>5. pc' \notin Formatting
      BY <1>5, <2>1 DEF Formatting
    <2> QED
      BY <1>1, <1>2, <2>1, <2>2, <2>4, <2>5, ScriptSame
  <1>6. ASSUME NEW o, NEW n, NEW k, NEW kf, Truncating(o, n, k, kf),
               \/ pc = "slot" /\ k = "commit" /\ kf = "fail" /\ o = Under[obj] /\ node[o].size < n
               \/ pc = "created" /\ k = "data" /\ kf = "fail" /\ o = obj /\ op = "write" /\ n = size
               \/ pc = "created" /\ k = "dirflush" /\ kf = "delete" /\ o = obj /\ op = "mkdir" /\ n = 1
        PROVE  Script'
    <2>1. Course'
      BY <1>1, <1>2, <1>4, <1>6, CourseTruncating
    <2>2. UNCHANGED <<op, obj, size>> /\ pc' = "truncate" /\ t'.k = k /\ t'.o = o /\ t'.to = n
      BY <1>6 DEF Truncating, NoT, call
    <2>3. /\ k = "data" => WithNode
          /\ k = "commit" => Unborn
          /\ k = "dirflush" => Newborn
      BY <1>6 DEF WithNode, Unborn, Newborn
    <2>4. Object'
      BY <1>1, <1>2, <1>6, <2>2, <2>3 DEF Object, WithNode, Unborn, Newborn, Cutting, FlushAt, Present
    <2>5. pc' \notin Formatting
      BY <2>2 DEF Formatting
    <2> QED
      BY <1>1, <1>2, <2>1, <2>2, <2>4, <2>5, ScriptSame
  <1>7. ASSUME NEW o, NEW k, NEW kf, Flushing(o, k, kf),
               \/ k = "next" /\ kf = "delete" /\ o = obj /\ op = "mkdir"
               \/ k = "unmount" /\ kf = "lastflush" /\ op = "mkdir"
               \/ k = "fail" /\ kf = "fail" /\ o = Under[obj] /\ op = "mkdir"
        PROVE  Script'
    <2>1. Course'
      BY <1>1, <1>2, <1>4, <1>7, CourseFlushing
    <2>2. UNCHANGED <<op, obj, size>> /\ pc' = "flush" /\ f'.k = k
      BY <1>7 DEF Flushing, call
    <2>3. Object'
      BY <1>7, <2>2 DEF Object, WithNode, Unborn, Newborn, Cutting, FlushAt
    <2>4. pc' \notin Formatting
      BY <2>2 DEF Formatting
    <2> QED
      BY <1>1, <1>2, <2>1, <2>2, <2>3, <2>4, ScriptSame
  <1>8. CASE FindSlot
    <2>1. node[Under[obj]].size \in Nat
      <3>1. pc \in InDir
        BY <1>8 DEF FindSlot, InDir
      <3> QED
        BY <1>1, <3>1, BusyFacts DEF IsNode
    <2>2. PICK n : n = node[Under[obj]].size + 1
      OBVIOUS
    <2>3. pc = "slot" /\ (Goto("commit") \/ Goto("fail") \/ Truncating(Under[obj], n, "commit", "fail"))
      BY <1>8, <2>2 DEF FindSlot
    <2>4. node[Under[obj]].size < n
      BY <2>1, <2>2
    <2> QED
      BY <1>5, <1>6, <2>3, <2>4
  <1>9. CASE Created
    BY <1>4, <1>6, <1>9 DEF Created
  <1>10. CASE DirFlush \/ DeleteFlush \/ UnmountNode
    BY <1>4, <1>7, <1>10 DEF DirFlush, DeleteFlush, UnmountNode
  <1>11. CASE PathDone \/ UnmountNodesDone \/ Unmount
    BY <1>4, <1>5, <1>11 DEF PathDone, UnmountNodesDone, Unmount
  <1> QED
    BY <1>8, <1>9, <1>10, <1>11

(* A slot in a cluster is a slot.                                           *)
LEMMA NotNoSlot ==
    ASSUME NEW at, at[1] \in Clusters PROVE at # NoSlot
  BY ClusterSet DEF NoSlot, FREE

(* A file promised absent is not the one at work on.                        *)
LEMMA NotWanted ==
    ASSUME Basic, Course, Wanted, pc \in InDir, op \in {"write", "mkdir"}
    PROVE  \A o \in Files : want[o] = ABSENT => o # obj /\ o # Under[obj] /\ o \in Objs /\ o \in Objects
  <1>1. obj \in Objs /\ Under[obj] \in Dirs \union {ROOT}
    BY BusyFacts, ExfatAssumption
  <1>2. Files \subseteq Objs /\ Files \subseteq Objects /\ Files \cap Dirs = {} /\ ROOT \notin Files
    BY ObjectSet
  <1>3. obj \in Dirs \/ want[obj] = ANY
    BY DEF Course, Wanted
  <1> QED
    BY <1>1, <1>2, <1>3, AnyCall

(* commit_entry,                                                            *)
LEMMA ScriptCommit ==
    ASSUME IInv, IInv', Script, CommitEntry PROVE Script'
  <1>1. Basic /\ Basic' /\ Course /\ Object /\ Wanted /\ WantTyped /\ Absent /\ DentsTyped
    BY DEF IInv, Script, Basic, Typed, DeviceTyped
  <1> DEFINE d == Under[obj]
             at == SlotIn(d)
             e == EmptyEntry("ok", at)
  <1>2. pc = "commit" /\ pc \in InDir /\ want' = want /\ calls' = calls
    BY DEF CommitEntry, InDir, seen
  <1>3. /\ pc \notin Cutting \union FlushAt /\ pc # "done" /\ pc # "idle" /\ op \in {"write", "mkdir"}
        /\ obj \in Objs /\ obj \in Objects /\ d \in Objects /\ obj # ROOT
    BY <1>1, <1>2, BusyFacts DEF Cutting, FlushAt, Course
  <1>4. \/ /\ Valid(at[1]) /\ dent' = InSlot(at, obj, e) /\ Flushing(d, "created", "fail")
           /\ node' = [node EXCEPT ![obj] = NodeOf(e), ![d].dirty = TRUE]
        \/ dent' = InSlot(at, obj, e) /\ UNCHANGED node /\ Goto("fail")
        \/ dent' = InSlot(at, obj, Torn(at)) /\ UNCHANGED node /\ Goto("fail")
        \/ dent' = dent /\ UNCHANGED node /\ Goto("fail")
    BY DEF CommitEntry
  <1>5. IsDent(e) /\ e.at = at /\ e.size = 0 /\ IsDent(Torn(at))
    BY EmptyEntries DEF Torn
  <1>6. IsNode(NodeOf(e)) /\ NodeOf(e).at = at /\ NodeOf(e).size = 0
    BY <1>5, NodeOfDent
  <1>g. UNCHANGED <<g_initialized, cmap, cmap_dirty, cached, heap>>
    BY DEF CommitEntry
  <1> HIDE DEF e, at
  <1>7. \A p \in Objs : p # obj => dent'[p] = dent[p] \/ dent'[p] = NoDent
    BY <1>1, <1>3, <1>4, <1>5, InSlotDents
  <1>8. \A o \in Files : want[o] = ABSENT => o # obj /\ o # d /\ o \in Objs /\ o \in Objects
    BY <1>1, <1>2, <1>3, NotWanted
  <1>9. CASE UNCHANGED node /\ Goto("fail")
    <2>1. UNCHANGED call /\ UNCHANGED <<op, obj, size>> /\ pc' = "fail"
      BY <1>9 DEF Goto, call
    <2>2. Course'
      BY <1>1, <1>2, <1>3, <2>1, CourseOff DEF Making, Leaving
    <2>3. Object'
      BY <2>1, ObjectFree DEF Cutting, FlushAt
    <2>4. pc' \notin Formatting
      BY <2>1 DEF Formatting
    <2>5. \A o \in Files : want[o] = ABSENT => (dent'[o] = dent[o] \/ dent'[o] = NoDent) /\ node'[o] = node[o]
      BY <1>7, <1>8, <1>9
    <2> QED
      BY <1>1, <1>2, <2>1, <2>2, <2>3, <2>4, <2>5, ScriptSame
  <1>10. CASE /\ Valid(at[1]) /\ Flushing(d, "created", "fail")
              /\ node' = [node EXCEPT ![obj] = NodeOf(e), ![d].dirty = TRUE]
    <2>1. UNCHANGED <<op, obj, size>> /\ pc' = "flush" /\ f'.k = "created"
      BY <1>10 DEF Flushing, call
    <2>2. Course'
      BY <1>1, <1>2, <1>3, <1>10, CourseFlushing
    <2>3. node'[obj] = NodeOf(e) /\ \A p \in Objects : p # obj /\ p # d => node'[p] = node[p]
      BY <1>1, <1>2, <1>6, <1>10, <1>g, WorkedIn
    <2>4. at # NoSlot
      BY <1>10, NotNoSlot DEF Valid
    <2>5. Object'
      BY <1>6, <2>1, <2>3, <2>4 DEF Object, WithNode, Unborn, Newborn, Cutting, FlushAt, Present
    <2>6. pc' \notin Formatting
      BY <2>1 DEF Formatting
    <2>7. \A o \in Files : want[o] = ABSENT => (dent'[o] = dent[o] \/ dent'[o] = NoDent) /\ node'[o] = node[o]
      BY <1>7, <1>8, <2>3
    <2> QED
      BY <1>1, <1>2, <2>1, <2>2, <2>5, <2>6, <2>7, ScriptSame
  <1> QED
    BY <1>4, <1>9, <1>10

(* the write,                                                               *)
LEMMA ScriptWrite ==
    ASSUME IInv, IInv', Script, WriteData \/ WriteDone PROVE Script'
  <1>1. Basic /\ Basic' /\ Course /\ Object /\ Wanted /\ WantTyped /\ Absent /\ DentsTyped /\ NodesTyped
    BY DEF IInv, Script, Basic, Typed, DeviceTyped, MemoryTyped
  <1>2. pc \in {"data", "done"} /\ pc \in InDir /\ calls' = calls
    BY DEF WriteData, WriteDone, InDir
  <1>3. /\ op = "write" /\ obj \in Files /\ obj \in Objs /\ obj \in Objects /\ want[obj] = ANY /\ Present(obj) /\ calls > 0
        /\ IsNode(node[obj])
    BY <1>1, <1>2, BusyFacts DEF Course, Writing, Wanted, Object, WithNode
  <1>4. CASE WriteDone
    <2>1. Return /\ UNCHANGED <<dent, node>> /\ (want' = [want EXCEPT ![obj] = ANY] \/ want' = [want EXCEPT ![obj] = [call |-> calls, size |-> size]])
      BY <1>4 DEF WriteDone, device, memory
    <2>2. Course'
      BY <2>1, CourseIdle
    <2>3. pc' = "idle" /\ op' = "none"
      BY <2>1 DEF Return
    <2>4. Object' /\ Wanted'
      BY <2>3, ObjectFree DEF Cutting, FlushAt, Wanted, Formatting
    <2>5. PICK w, q, v : w = want /\ q = obj /\ want' = [w EXCEPT ![q] = v] /\ (v = ANY \/ v.call > 0)
      <3>1. PICK v : want' = [want EXCEPT ![obj] = v] /\ (v = ANY \/ v = [call |-> calls, size |-> size])
        BY <2>1
      <3>2. v = ANY \/ v.call > 0
        BY <1>3, <3>1
      <3> QED
        BY <3>1, <3>2
    <2>6. q \in Files /\ w = [o \in Files |-> w[o]]
      BY <1>1, <1>3, <2>5 DEF WantTyped
    <2>7. want' = [o \in Files |-> IF o = q THEN v ELSE w[o]]
      BY <2>5, <2>6
    <2>8. want' = [o \in Files |-> want'[o]] /\ \A o \in Files : IF o = q THEN want'[o] = v ELSE want'[o] = want[o]
      BY <2>5, <2>6, <2>7
    <2>9. WantTyped'
      BY <1>1, <2>5, <2>8 DEF WantTyped
    <2>10. Absent'
      <3>1. v # ABSENT
        BY <2>5, AnyCall
      <3> QED
        BY <1>1, <2>1, <2>8, <3>1, AbsentKept
    <2> QED
      BY <2>2, <2>4, <2>9, <2>10 DEF Script
  <1>5. CASE WriteData
    <2>1. /\ pc = "data" /\ pc' = "flush" /\ f' = [o |-> obj, k |-> "done", kf |-> "done"]
          /\ UNCHANGED <<op, obj, size, want, t>> /\ \E S : dent' = Overwritten(S)
          /\ node' = node \/ \E b \in BOOLEAN : SetNode(obj, [node[obj] EXCEPT !.dirty = b])
      <3>1. \A b : (node[obj].dirty \/ b) \in BOOLEAN
        BY Zenon
      <3> QED
        BY <1>5, <3>1 DEF WriteData, seen
    <2>2. \A p \in Objs : dent'[p] = dent[p] \/ dent'[p] = NoDent
      BY <1>1, <2>1, OverwrittenDents
    <2>3. node'[obj].at = node[obj].at /\ \A p \in Objects : p # obj => node'[p] = node[p]
      <3>1. CASE node' = node
        BY <3>1
      <3>2. CASE \E b \in BOOLEAN : SetNode(obj, [node[obj] EXCEPT !.dirty = b])
        <4>1. PICK b, m : b \in BOOLEAN /\ m = [node[obj] EXCEPT !.dirty = b] /\ SetNode(obj, m)
          BY <3>2
        <4>2. IsNode(m) /\ m.at = node[obj].at
          BY <1>3, <4>1, NodeDirtied
        <4> QED
          BY <1>1, <1>3, <4>1, <4>2, NodeReplaced
      <3> QED
        BY <2>1, <3>1, <3>2
    <2>4. f'.o = obj /\ f'.k = "done" /\ f'.kf = "done"
      BY <2>1
    <2>5. Course'
      BY <1>2, <1>3, <2>1, <2>4 DEF Course, FlushFor, Cutting, FlushAt, Making, Writing, Leaving
    <2>6. Object'
      BY <1>3, <2>1, <2>3, <2>4 DEF Object, WithNode, Unborn, Newborn, Cutting, FlushAt, Present
    <2>7. pc' \notin Formatting
      BY <2>1 DEF Formatting
    <2>8. \A o \in Files : want[o] = ABSENT => (dent'[o] = dent[o] \/ dent'[o] = NoDent) /\ node'[o] = node[o]
      BY <1>3, <2>2, <2>3, ObjectSet, AnyCall
    <2> QED
      BY <1>1, <2>1, <2>5, <2>6, <2>7, <2>8, ScriptSame
  <1> QED
    BY <1>4, <1>5

(* the next component of a path,                                            *)
LEMMA ScriptNext ==
    ASSUME IInv, IInv', Script, NEW d \in Dirs, NextComponent(d) PROVE Script'
  <1>1. Basic' /\ Course /\ Wanted /\ WantTyped /\ Absent
    BY DEF IInv, Script
  <1>2. /\ pc = "next" /\ pc' = "lookup" /\ op = "mkdir" /\ obj' = d
        /\ UNCHANGED <<op, size, written, t, f, want, dent, node, calls>>
    BY DEF NextComponent, device, memory, seen
  <1>3. Course'
    BY <1>1, <1>2 DEF Course, Making, Writing, Leaving, Cutting, FlushAt
  <1>4. Object'
    BY <1>2, ObjectFree DEF Cutting, FlushAt
  <1>5. WantTyped' /\ Wanted'
    BY <1>1, <1>2 DEF WantTyped, Wanted, Formatting
  <1>6. Absent'
    BY <1>1, <1>2, AbsentKept
  <1> QED
    BY <1>3, <1>4, <1>5, <1>6 DEF Script

(* the removal of a new directory,                                          *)
LEMMA ScriptDelete ==
    ASSUME IInv, IInv', Script, DeleteEntry \/ Detach PROVE Script'
  <1>1. Basic /\ Basic' /\ Course /\ Object /\ Wanted /\ WantTyped /\ Absent /\ DentsTyped
    BY DEF IInv, Script, Basic, Typed, DeviceTyped
  <1>2. pc \in {"delete", "detach"} /\ pc \in InDir /\ calls' = calls /\ want' = want
    BY DEF DeleteEntry, Detach, InDir, seen
  <1>3. /\ pc \notin Cutting \union FlushAt /\ pc # "done" /\ pc # "idle" /\ op = "mkdir"
        /\ obj \in Objs /\ obj \in Objects /\ Under[obj] \in Objects /\ obj # ROOT
    BY <1>1, <1>2, BusyFacts DEF Cutting, FlushAt, Course, Making
  <1>4. \A o \in Files : want[o] = ABSENT => o # obj /\ o # Under[obj] /\ o \in Objs /\ o \in Objects
    BY <1>1, <1>2, <1>3, NotWanted
  <1>5. ASSUME NEW l \in {"fail", "delflush"}, Goto(l) PROVE Course' /\ Object' /\ UNCHANGED <<op, obj>> /\ pc' \notin Formatting
    <2>1. UNCHANGED call /\ UNCHANGED <<op, obj, size>> /\ pc' = l
      BY <1>5 DEF Goto, call
    <2>2. Course'
      BY <1>1, <1>2, <1>3, <1>5, <2>1, CourseOff DEF Making, Leaving
    <2>3. Object'
      BY <2>1, ObjectFree DEF Cutting, FlushAt
    <2> QED
      BY <2>1, <2>2, <2>3 DEF Formatting
  <1>6. CASE DeleteEntry
    <2>1. node' = node
      BY <1>6 DEF DeleteEntry, memory
    <2>2. \A p \in Objs : p # obj => dent'[p] = dent[p]
      <3>1. dent' = dent \/ dent' = [dent EXCEPT ![obj] = NoDent] \/ dent' = [dent EXCEPT ![obj] = Torn(node[obj].at)]
        BY <1>6 DEF DeleteEntry
      <3> QED
        BY <1>1, <3>1 DEF DentsTyped
    <2>3. Course' /\ Object' /\ UNCHANGED <<op, obj>> /\ pc' \notin Formatting
      <3>1. CASE Flushing(Under[obj], "detach", "fail")
        <4>1. Course'
          BY <1>1, <1>2, <1>3, <3>1, CourseFlushing
        <4>2. UNCHANGED <<op, obj, size>> /\ pc' = "flush" /\ f'.k = "detach"
          BY <3>1 DEF Flushing, call
        <4> QED
          BY <4>1, <4>2 DEF Object, WithNode, Unborn, Newborn, Cutting, FlushAt, Formatting
      <3> QED
        BY <1>5, <1>6, <3>1 DEF DeleteEntry
    <2> QED
      BY <1>1, <1>2, <1>4, <2>1, <2>2, <2>3, ScriptSame
  <1>7. CASE Detach
    <2>1. dent' = dent
      BY <1>7 DEF Detach, device
    <2>1a. PICK b \in BOOLEAN : node' = [node EXCEPT ![obj] = NoNode, ![Under[obj]].dirty = b]
      BY <1>1, <1>7, DetachNode
    <2>2. \A p \in Objects : p # obj /\ p # Under[obj] => node'[p] = node[p]
      <3>1. NodesTyped
        BY <1>1 DEF Basic, Typed, MemoryTyped
      <3> QED
        BY <2>1a, <3>1 DEF NodesTyped
    <2>3. Course' /\ Object' /\ UNCHANGED <<op, obj>> /\ pc' \notin Formatting
      <3>1. CASE \E n : Truncating(Under[obj], n, "delflush", "delflush")
        <4>0. PICK n : Truncating(Under[obj], n, "delflush", "delflush")
          BY <3>1
        <4>1. Course'
          BY <1>1, <1>2, <1>3, <4>0, CourseTruncating
        <4>2. UNCHANGED <<op, obj, size>> /\ pc' = "truncate" /\ t'.k = "delflush"
          BY <4>0 DEF Truncating, NoT, call
        <4> QED
          BY <4>1, <4>2 DEF Object, WithNode, Unborn, Newborn, Cutting, FlushAt, Formatting
      <3> QED
        BY <1>5, <1>7, <3>1 DEF Detach
    <2> QED
      BY <1>1, <1>2, <1>4, <2>1, <2>2, <2>3, ScriptSame
  <1> QED
    BY <1>6, <1>7

(* and so every step.                                                       *)
LEMMA ScriptStep ==
    ASSUME IInv, IInv', Script, [Next]_vars PROVE Script'
  <1>1. CASE UNCHANGED vars
    <2>1. UNCHANGED <<pc, op, obj, size, written, t, f, calls, want, dent, node, cached>>
      BY <1>1 DEF vars, device, memory, call, seen
    <2> QED
      BY <2>1 DEF Script, Course, Object, Wanted, WantTyped, Absent, CutFor, FlushFor, WithNode, Unborn, Newborn, Present
  <1>2. CASE Cuts
    BY <1>2, ScriptCut
  <1>3. CASE Flushes
    BY <1>3, ScriptFlush
  <1>4. CASE exfat_format \/ EraseVbr \/ Erase \/ MakeVbr \/ MakeFat \/ MakeBitmap \/ MakeTable \/ MakeRoot
    BY <1>4, ScriptFormat
  <1>5. CASE exfat_init \/ Crash \/ Mount \/ Failed \/ ReadData
    BY <1>5, ScriptEnds
  <1>6. CASE \/ \E o \in Files, n \in Sizes : exfat_write_file(o, n)
             \/ \E d \in Dirs : exfat_create_dir_path(d)
             \/ \E o \in Objs : exfat_read_file(o) \/ exfat_get_file_info(o)
    BY <1>6, ScriptCalls
  <1>7. CASE LookUp
    BY <1>7, ScriptLookUp
  <1>8. CASE FindSlot \/ Created \/ DirFlush \/ DeleteFlush \/ PathDone \/ UnmountNode \/ UnmountNodesDone \/ Unmount
    BY <1>8, ScriptMoves
  <1>9. CASE CommitEntry
    BY <1>9, ScriptCommit
  <1>10. CASE WriteData \/ WriteDone
    BY <1>10, ScriptWrite
  <1>11. CASE DeleteEntry \/ Detach
    BY <1>11, ScriptDelete
  <1>12. CASE \E d \in Dirs : NextComponent(d)
    BY <1>12, ScriptNext
  <1> QED
    BY <1>1, <1>2, <1>3, <1>4, <1>5, <1>6, <1>7, <1>8, <1>9, <1>10, <1>11, <1>12 DEF Next, Cuts, Flushes
=============================================================================
