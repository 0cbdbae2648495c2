------------------------------ MODULE GuiProofs ------------------------------
(***************************************************************************)
(* Proofs about Ps2 and Gui, for rings of every size, every screen, every  *)
(* mouse and every keyboard: the pointer stays on the screen and the rings *)
(* in bounds, packets keep their framing while no byte is lost, frames in  *)
(* a row that report the button down act on one button of the screen, and  *)
(* no key is overwritten unseen.                                           *)
(***************************************************************************)
EXTENDS Gui, SequenceTheorems, WellFoundedInduction, TLAPS

(* A non-empty set of naturals has a least element.                         *)
LEMMA Least ==
    ASSUME NEW S, S \subseteq Nat, S # {}
    PROVE  \E x \in S : \A y \in S : x <= y
  <1>1. IsWellFoundedOn(OpToRel(<, Nat), Nat)
    BY NatLessThanWellFounded
  <1>2. IsWellFoundedOn({p \in Nat \X Nat : p[1] < p[2]}, Nat)
    BY <1>1 DEF OpToRel
  <1>3. PICK x \in S : \A y \in S : ~(<<y, x>> \in {p \in Nat \X Nat : p[1] < p[2]})
    BY <1>2, WFMin
  <1>4. \A y \in S : ~(y < x)
    BY <1>3
  <1> QED
    BY <1>4

N == PS2_BUF_SIZE

LEMMA NType == N \in Nat \ {0}
  BY Ps2Assumption DEF N

-----------------------------------------------------------------------------
(* Ring arithmetic.                                                         *)

(* Taking a remainder of less than twice the ring's size is subtracting it  *)
(* or not.                                                                  *)
LEMMA Wrap ==
    ASSUME NEW x \in Nat, x < 2 * N
    PROVE  x % N = IF x < N THEN x ELSE x - N
  <1> USE NType
  <1>1. CASE x < N
    BY <1>1
  <1>2. CASE ~(x < N)
    BY <1>2
  <1> QED
    BY <1>1, <1>2

Ring == [buf : [0 .. N - 1 -> Bytes], head : 0 .. N - 1, tail : 0 .. N - 1]

Dist(a, b) == IF a >= b THEN a - b ELSE a + N - b
Place(a, k) == IF a + k < N THEN a + k ELSE a + k - N

LEMMA DistIs ==
    ASSUME NEW a \in 0 .. N - 1, NEW b \in 0 .. N - 1
    PROVE  (a + N - b) % N = Dist(a, b)
  <1>1. a + N - b \in Nat /\ a + N - b < 2 * N
    BY NType
  <1> QED
    BY <1>1, Wrap, NType DEF Dist

LEMMA PlaceIs ==
    ASSUME NEW a \in 0 .. N - 1, NEW k \in 0 .. N
    PROVE  (a + k) % N = Place(a, k)
  <1>1. a + k \in Nat /\ a + k < 2 * N
    BY NType
  <1> QED
    BY <1>1, Wrap, NType DEF Place

LEMMA Around ==
    ASSUME NEW h \in 0 .. N - 1, NEW t \in 0 .. N - 1
    PROVE  /\ Dist(h, t) \in 0 .. N - 1
           /\ \A k \in 0 .. N - 1 : Place(t, k) \in 0 .. N - 1 /\ Dist(Place(t, k), t) = k
           /\ Place(h, 1) \in 0 .. N - 1
           /\ Place(h, 1) = t <=> Dist(h, t) = N - 1
           /\ Dist(h, t) < N - 1 => Dist(Place(h, 1), t) = Dist(h, t) + 1
           /\ \A k \in 0 .. Dist(h, t) : Dist(h, Place(t, k)) = Dist(h, t) - k
  BY NType DEF Dist, Place

LEMMA Inside ==
    ASSUME NEW h \in 0 .. N - 1, NEW t \in 0 .. N - 1, NEW k \in 0 .. N - 1
    PROVE  /\ k < Dist(h, t) => Place(t, k) # h
           /\ k = Dist(h, t) => Place(t, k) = h
           /\ Place(t, k) \in 0 .. N - 1
           /\ Dist(Place(t, k), t) = k
  BY NType DEF Dist, Place

LEMMA PlaceTwice ==
    ASSUME NEW t \in 0 .. N - 1, NEW k \in 0 .. N - 1, NEW j \in 0 .. N - 1, j + k < N
    PROVE  Place(Place(t, k), j) = Place(t, j + k)
  BY NType DEF Place

LEMMA RingFields ==
    ASSUME NEW r \in Ring
    PROVE  /\ r.buf \in [0 .. N - 1 -> Bytes] /\ r.head \in 0 .. N - 1 /\ r.tail \in 0 .. N - 1
           /\ r = [buf |-> r.buf, head |-> r.head, tail |-> r.tail]
           /\ Count(r) = Dist(r.head, r.tail)
           /\ Count(r) \in 0 .. N - 1
           /\ \A k \in 0 .. N : At(r, k) = r.buf[Place(r.tail, k)]
           /\ \A k \in 0 .. N - 1 : At(r, k) \in Bytes
  <1>1. /\ r.buf \in [0 .. N - 1 -> Bytes] /\ r.head \in 0 .. N - 1 /\ r.tail \in 0 .. N - 1
        /\ r = [buf |-> r.buf, head |-> r.head, tail |-> r.tail]
    BY DEF Ring
  <1>2. Count(r) = Dist(r.head, r.tail)
    BY <1>1, DistIs DEF Count, N
  <1>3. Count(r) \in 0 .. N - 1
    BY <1>1, <1>2, NType DEF Dist
  <1>4. \A k \in 0 .. N : At(r, k) = r.buf[Place(r.tail, k)]
    BY <1>1, PlaceIs DEF At, N
  <1>5. \A k \in 0 .. N - 1 : Place(r.tail, k) \in 0 .. N - 1
    BY <1>1, NType DEF Place
  <1>6. \A k \in 0 .. N - 1 : At(r, k) \in Bytes
    BY <1>1, <1>4, <1>5, NType
  <1> QED
    BY <1>1, <1>2, <1>3, <1>4, <1>6

(* ring_push adds a byte at the end, or drops it when the ring is full.     *)
LEMMA Push ==
    ASSUME NEW r \in Ring, NEW b \in Bytes
    PROVE  /\ ring_push(r, b) \in Ring
           /\ Count(r) = N - 1 => ring_push(r, b) = r
           /\ Count(r) < N - 1 =>
                /\ Count(ring_push(r, b)) = Count(r) + 1
                /\ \A k \in 0 .. Count(r) - 1 : At(ring_push(r, b), k) = At(r, k)
                /\ At(ring_push(r, b), Count(r)) = b
  <1> DEFINE next == (r.head + 1) % N
             s    == [buf |-> [r.buf EXCEPT ![r.head] = b], head |-> next, tail |-> r.tail]
  <1>1. next = Place(r.head, 1) /\ next \in 0 .. N - 1
    <2>1. r.head \in 0 .. N - 1 /\ 1 \in 0 .. N
      BY RingFields, NType
    <2>2. (r.head + 1) % N = Place(r.head, 1)
      BY <2>1, PlaceIs
    <2>3. Place(r.head, 1) \in 0 .. N - 1
      BY <2>1, Around
    <2> QED
      BY <2>2, <2>3
  <1>2. ring_push(r, b) = IF next = r.tail THEN r ELSE s
    BY DEF ring_push, N
  <1> HIDE DEF next
  <1>3. s \in Ring
    BY <1>1, RingFields DEF Ring
  <1>4. next = r.tail <=> Count(r) = N - 1
    BY <1>1, RingFields, Around
  <1>5. ASSUME Count(r) < N - 1
        PROVE  /\ Count(s) = Count(r) + 1
               /\ \A k \in 0 .. Count(r) - 1 : At(s, k) = At(r, k)
               /\ At(s, Count(r)) = b
    <2>1. s.head = next /\ s.tail = r.tail /\ s.buf = [r.buf EXCEPT ![r.head] = b]
      OBVIOUS
    <2> HIDE DEF s
    <2>2. Count(s) = Dist(next, r.tail) /\ \A k \in 0 .. N : At(s, k) = s.buf[Place(r.tail, k)]
      BY <1>3, <2>1, RingFields
    <2>3. Count(s) = Count(r) + 1
      BY <1>1, <1>5, <2>2, RingFields, Around
    <2>4. ASSUME NEW k \in 0 .. Count(r) - 1
          PROVE  At(s, k) = At(r, k)
      <3>1. Place(r.tail, k) \in 0 .. N - 1 /\ Place(r.tail, k) # r.head /\ k \in 0 .. N
        <4>1. /\ r.head \in 0 .. N - 1 /\ r.tail \in 0 .. N - 1
              /\ Count(r) = Dist(r.head, r.tail) /\ Count(r) \in 0 .. N - 1
          BY RingFields
        <4>2. k \in 0 .. N - 1 /\ k \in 0 .. N /\ k < Dist(r.head, r.tail)
          BY <4>1, NType
        <4> QED
          BY <4>1, <4>2, Inside
      <3> QED
        BY <2>1, <2>2, <3>1, RingFields
    <2>5. At(s, Count(r)) = b
      <3>1. Place(r.tail, Count(r)) = r.head /\ Count(r) \in 0 .. N
        <4>1. /\ r.head \in 0 .. N - 1 /\ r.tail \in 0 .. N - 1
              /\ Count(r) = Dist(r.head, r.tail) /\ Count(r) \in 0 .. N - 1
          BY RingFields
        <4>2. Place(r.tail, Dist(r.head, r.tail)) = r.head
          BY <4>1, Inside
        <4> QED
          BY <4>1, <4>2, NType
      <3> QED
        BY <2>1, <2>2, <3>1, RingFields
    <2> QED
      BY <2>3, <2>4, <2>5
  <1> HIDE DEF s
  <1>6. CASE next = r.tail
    <2>1. ring_push(r, b) = r /\ Count(r) = N - 1
      BY <1>2, <1>4, <1>6
    <2> QED
      BY <2>1, NType
  <1>7. CASE next # r.tail
    <2>1. ring_push(r, b) = s /\ Count(r) # N - 1
      BY <1>2, <1>4, <1>7
    <2> QED
      BY <1>3, <1>5, <2>1
  <1> QED
    BY <1>6, <1>7

(* ring_pop, k times.                                                       *)
LEMMA Pop ==
    ASSUME NEW r \in Ring, NEW k \in 0 .. Count(r)
    PROVE  /\ Popped(r, k) \in Ring
           /\ Count(Popped(r, k)) = Count(r) - k
           /\ \A j \in 0 .. Count(r) - k - 1 : At(Popped(r, k), j) = At(r, j + k)
  <1> DEFINE t == (r.tail + k) % N
             s == Popped(r, k)
  <1>1. k \in 0 .. N - 1 /\ t = Place(r.tail, k) /\ t \in 0 .. N - 1
    <2>1. k \in 0 .. N - 1 /\ k \in 0 .. N /\ r.tail \in 0 .. N - 1
      BY RingFields, NType
    <2>2. (r.tail + k) % N = Place(r.tail, k)
      BY <2>1, PlaceIs
    <2>3. Place(r.tail, k) \in 0 .. N - 1
      BY <2>1, Around
    <2> QED
      BY <2>1, <2>2, <2>3
  <1>2. s = [buf |-> [p \in 0 .. N - 1 |-> IF (p + N - r.tail) % N < k THEN Zero ELSE r.buf[p]],
             head |-> r.head, tail |-> t]
    BY DEF Popped, N
  <1>3. Zero \in Bytes
    BY DEF Zero, Byte, Bytes, ANSWER
  <1>4. s \in Ring
    BY <1>1, <1>2, <1>3, RingFields DEF Ring
  <1>5. s.head = r.head /\ s.tail = t
        /\ \A p \in 0 .. N - 1 : s.buf[p] = IF (p + N - r.tail) % N < k THEN Zero ELSE r.buf[p]
    BY <1>2
  <1> HIDE DEF t, s
  <1>6. Count(s) = Count(r) - k
    BY <1>1, <1>4, <1>5, RingFields, Around
  <1>7. ASSUME NEW j \in 0 .. Count(r) - k - 1
        PROVE  At(s, j) = At(r, j + k)
    <2>1. Place(t, j) = Place(r.tail, j + k) /\ Place(t, j) \in 0 .. N - 1
          /\ j \in 0 .. N /\ j + k \in 0 .. N
      <3>1. /\ r.head \in 0 .. N - 1 /\ r.tail \in 0 .. N - 1
            /\ Count(r) = Dist(r.head, r.tail) /\ Count(r) \in 0 .. N - 1
        BY RingFields
      <3>2. j \in 0 .. N /\ j \in 0 .. N - 1 /\ j + k \in 0 .. N /\ j + k < N
        BY <1>1, <3>1, NType
      <3>3. Place(Place(r.tail, k), j) = Place(r.tail, j + k)
        BY <1>1, <3>1, <3>2, PlaceTwice
      <3>4. Place(t, j) \in 0 .. N - 1
        BY <1>1, <3>2, Around
      <3> QED
        BY <1>1, <3>2, <3>3, <3>4
    <2>2. Dist(Place(t, j), r.tail) = j + k
      <3>1. /\ r.head \in 0 .. N - 1 /\ r.tail \in 0 .. N - 1
            /\ Count(r) = Dist(r.head, r.tail) /\ Count(r) \in 0 .. N - 1
        BY RingFields
      <3>2. j + k \in 0 .. N - 1
        BY <1>1, <3>1, NType
      <3>3. Dist(Place(r.tail, j + k), r.tail) = j + k
        BY <3>1, <3>2, Inside
      <3> QED
        BY <2>1, <3>3
    <2>3. (Place(t, j) + N - r.tail) % N = j + k
      BY <2>1, <2>2, DistIs, RingFields
    <2>4. s.buf[Place(t, j)] = r.buf[Place(t, j)]
      BY <1>1, <1>5, <2>1, <2>3
    <2> QED
      BY <1>4, <1>5, <2>1, <2>4, RingFields
  <1> QED
    BY <1>4, <1>6, <1>7 DEF s

-----------------------------------------------------------------------------
(* ps2_process_incoming pushes byte after byte.  The sequence of rings is   *)
(* defined by recursion; the first length for which there is none would     *)
(* extend one that exists.                                                  *)
IsFilling(f, r, bytes, n) ==
    /\ f = [k \in 0 .. n |-> IF k = 0 THEN r ELSE ring_push(f[k - 1], bytes[k])]

LEMMA FillingExists ==
    ASSUME NEW r, NEW bytes, NEW n \in Nat
    PROVE  \E f : IsFilling(f, r, bytes, n)
  <1> SUFFICES ASSUME ~ \E f : IsFilling(f, r, bytes, n) PROVE FALSE
    OBVIOUS
  <1> DEFINE S == {m \in Nat : ~ \E f : IsFilling(f, r, bytes, m)}
  <1>1. PICK m \in S : \A t \in S : m <= t
    <2>1. S \subseteq Nat /\ S # {}
      OBVIOUS
    <2> HIDE DEF S
    <2> QED
      BY <2>1, Least
  <1>2. m \in Nat /\ ~ \E f : IsFilling(f, r, bytes, m)
    OBVIOUS
  <1>3. m # 0
    <2> DEFINE f == [k \in 0 .. 0 |-> r]
    <2>1. f = [k \in 0 .. 0 |-> IF k = 0 THEN r ELSE ring_push(f[k - 1], bytes[k])]
      OBVIOUS
    <2>2. IsFilling(f, r, bytes, 0)
      BY <2>1 DEF IsFilling
    <2> QED
      BY <1>2, <2>2
  <1>4. m - 1 \in Nat /\ m - 1 \notin S
    BY <1>1, <1>2, <1>3
  <1>5. PICK f : IsFilling(f, r, bytes, m - 1)
    BY <1>4
  <1> DEFINE g == [k \in 0 .. m |-> IF k = m THEN ring_push(f[m - 1], bytes[m]) ELSE f[k]]
  <1>6. \A k \in 0 .. m - 1 : f[k] = IF k = 0 THEN r ELSE ring_push(f[k - 1], bytes[k])
    BY <1>5 DEF IsFilling
  <1>7. ASSUME NEW k \in 0 .. m
        PROVE  g[k] = IF k = 0 THEN r ELSE ring_push(g[k - 1], bytes[k])
    <2>1. CASE k = m
      BY <1>2, <1>3, <2>1
    <2>2. CASE k # m /\ k # 0
      <3>1. k \in 0 .. m - 1 /\ k - 1 \in 0 .. m /\ k - 1 # m
        BY <1>2, <2>2
      <3> QED
        BY <1>6, <2>2, <3>1
    <2>3. CASE k # m /\ k = 0
      BY <1>6, <1>2, <2>3
    <2> QED
      BY <2>1, <2>2, <2>3
  <1>8. g = [k \in 0 .. m |-> IF k = 0 THEN r ELSE ring_push(g[k - 1], bytes[k])]
    BY <1>7
  <1> HIDE DEF g
  <1>9. IsFilling(g, r, bytes, m)
    BY <1>8 DEF IsFilling
  <1> QED
    BY <1>2, <1>9

LEMMA FilledIs ==
    ASSUME NEW r, NEW bytes, Len(bytes) \in Nat
    PROVE  \E f : IsFilling(f, r, bytes, Len(bytes)) /\ Filled(r, bytes) = f[Len(bytes)]
  <1>1. PICK g : IsFilling(g, r, bytes, Len(bytes))
    BY FillingExists
  <1> DEFINE f == CHOOSE f : f = [k \in 0 .. Len(bytes) |->
                                     IF k = 0 THEN r ELSE ring_push(f[k - 1], bytes[k])]
  <1>2. f = [k \in 0 .. Len(bytes) |-> IF k = 0 THEN r ELSE ring_push(f[k - 1], bytes[k])]
    BY <1>1 DEF IsFilling
  <1>3. Filled(r, bytes) = f[Len(bytes)]
    BY DEF Filled
  <1> HIDE DEF f
  <1>4. IsFilling(f, r, bytes, Len(bytes))
    BY <1>2 DEF IsFilling
  <1> QED
    BY <1>3, <1>4

(* After k bytes: the ring is a ring, and if there was room for them they   *)
(* follow what was there.                                                   *)
Holds(s, r, bytes, k) ==
    /\ s \in Ring
    /\ Count(r) + k < N =>
         /\ Count(s) = Count(r) + k
         /\ \A j \in 0 .. Count(r) - 1 : At(s, j) = At(r, j)
         /\ \A j \in 1 .. k : At(s, Count(r) + j - 1) = bytes[j]

LEMMA HoldsNext ==
    ASSUME NEW r \in Ring, NEW bytes, NEW k \in Nat, NEW s, Holds(s, r, bytes, k),
           bytes[k + 1] \in Bytes
    PROVE  Holds(ring_push(s, bytes[k + 1]), r, bytes, k + 1)
  <1> DEFINE u == ring_push(s, bytes[k + 1])
  <1>1. s \in Ring /\ Count(r) \in Nat /\ Count(s) \in 0 .. N - 1
    BY RingFields, NType DEF Holds
  <1>2. u \in Ring
    BY <1>1, Push
  <1>3. ASSUME Count(r) + (k + 1) < N
        PROVE  /\ Count(u) = Count(r) + (k + 1)
               /\ \A j \in 0 .. Count(r) - 1 : At(u, j) = At(r, j)
               /\ \A j \in 1 .. k + 1 : At(u, Count(r) + j - 1) = bytes[j]
    <2>1. /\ Count(s) = Count(r) + k
          /\ \A j \in 0 .. Count(r) - 1 : At(s, j) = At(r, j)
          /\ \A j \in 1 .. k : At(s, Count(r) + j - 1) = bytes[j]
      BY <1>1, <1>3, NType DEF Holds
    <2>2. /\ Count(u) = Count(s) + 1
          /\ \A j \in 0 .. Count(s) - 1 : At(u, j) = At(s, j)
          /\ At(u, Count(s)) = bytes[k + 1]
      BY <1>1, <1>3, <2>1, Push, NType
    <2> HIDE DEF u
    <2>3. ASSUME NEW j \in 0 .. Count(r) - 1 PROVE At(u, j) = At(r, j)
      <3>1. j \in 0 .. Count(s) - 1
        BY <1>1, <2>1
      <3> QED
        BY <2>1, <2>2, <3>1
    <2>4. ASSUME NEW j \in 1 .. k + 1 PROVE At(u, Count(r) + j - 1) = bytes[j]
      <3>1. CASE j = k + 1
        <4>1. Count(r) + j - 1 = Count(s)
          BY <1>1, <2>1, <3>1
        <4> QED
          BY <2>2, <3>1, <4>1
      <3>2. CASE j # k + 1
        <4>1. j \in 1 .. k /\ Count(r) + j - 1 \in 0 .. Count(s) - 1
          BY <1>1, <2>1, <3>2
        <4> QED
          BY <2>1, <2>2, <4>1
      <3> QED
        BY <3>1, <3>2
    <2>5. Count(u) = Count(r) + (k + 1)
      BY <1>1, <2>1, <2>2
    <2> QED
      BY <2>3, <2>4, <2>5
  <1> QED
    BY <1>2, <1>3 DEF Holds

LEMMA Fill ==
    ASSUME NEW r \in Ring, NEW bytes \in Seq(Bytes)
    PROVE  Holds(Filled(r, bytes), r, bytes, Len(bytes))
  <1>1. Len(bytes) \in Nat /\ \A k \in 1 .. Len(bytes) : bytes[k] \in Bytes
    OBVIOUS
  <1>2. PICK f : IsFilling(f, r, bytes, Len(bytes)) /\ Filled(r, bytes) = f[Len(bytes)]
    BY <1>1, FilledIs
  <1>3. \A k \in 0 .. Len(bytes) : f[k] = IF k = 0 THEN r ELSE ring_push(f[k - 1], bytes[k])
    BY <1>2 DEF IsFilling
  <1> DEFINE S == {k \in 0 .. Len(bytes) : ~ Holds(f[k], r, bytes, k)}
  <1>4. S = {}
    <2> SUFFICES ASSUME S # {} PROVE FALSE
      OBVIOUS
    <2>1. PICK m \in S : \A t \in S : m <= t
      <3>1. S \subseteq Nat
        BY <1>1
      <3> HIDE DEF S
      <3> QED
        BY <3>1, Least
    <2>2. m \in 0 .. Len(bytes) /\ ~ Holds(f[m], r, bytes, m)
      OBVIOUS
    <2>3. m # 0
      <3>1. f[0] = r
        BY <1>1, <1>3
      <3>2. Holds(r, r, bytes, 0)
        BY RingFields, NType DEF Holds
      <3> QED
        BY <2>2, <3>1, <3>2
    <2>4. m - 1 \in Nat /\ m - 1 \in 0 .. Len(bytes) /\ m - 1 \notin S
      BY <1>1, <2>1, <2>2, <2>3
    <2>5. Holds(f[m - 1], r, bytes, m - 1)
      BY <2>4
    <2>6. f[m] = ring_push(f[m - 1], bytes[m]) /\ bytes[m] \in Bytes
      BY <1>1, <1>3, <2>2, <2>3
    <2>7. (m - 1) + 1 = m
      BY <2>2
    <2>8. Holds(ring_push(f[m - 1], bytes[m]), r, bytes, m)
      BY <2>4, <2>5, <2>6, <2>7, HoldsNext
    <2> QED
      BY <2>2, <2>6, <2>8
  <1>5. Holds(f[Len(bytes)], r, bytes, Len(bytes))
    BY <1>1, <1>4
  <1> QED
    BY <1>2, <1>5

-----------------------------------------------------------------------------
(* The motion a poll adds up is a number, whatever is in the ring.          *)
IsSum(f, R, delta, n) ==
    f = [g \in 0 .. n |-> IF g = 0 THEN 0 ELSE f[g - 1] + (IF g - 1 \in R THEN delta[g - 1] ELSE 0)]

LEMMA SumExists ==
    ASSUME NEW R, NEW delta, NEW n \in Nat
    PROVE  \E f : IsSum(f, R, delta, n)
  <1> SUFFICES ASSUME ~ \E f : IsSum(f, R, delta, n) PROVE FALSE
    OBVIOUS
  <1> DEFINE S == {m \in Nat : ~ \E f : IsSum(f, R, delta, m)}
  <1>1. PICK m \in S : \A t \in S : m <= t
    <2>1. S \subseteq Nat /\ S # {}
      OBVIOUS
    <2> HIDE DEF S
    <2> QED
      BY <2>1, Least
  <1>2. m \in Nat /\ ~ \E f : IsSum(f, R, delta, m)
    OBVIOUS
  <1>3. m # 0
    <2> DEFINE f == [k \in 0 .. 0 |-> 0]
    <2>1. f = [g \in 0 .. 0 |-> IF g = 0 THEN 0
                                ELSE f[g - 1] + (IF g - 1 \in R THEN delta[g - 1] ELSE 0)]
      OBVIOUS
    <2>2. IsSum(f, R, delta, 0)
      BY <2>1 DEF IsSum
    <2> QED
      BY <1>2, <2>2
  <1>4. m - 1 \in Nat /\ m - 1 \notin S
    BY <1>1, <1>2, <1>3
  <1>5. PICK f : IsSum(f, R, delta, m - 1)
    BY <1>4
  <1> DEFINE d(k) == IF k - 1 \in R THEN delta[k - 1] ELSE 0
             h == [k \in 0 .. m |-> IF k = m THEN f[m - 1] + d(m) ELSE f[k]]
  <1>6. \A k \in 0 .. m - 1 : f[k] = IF k = 0 THEN 0 ELSE f[k - 1] + d(k)
    BY <1>5 DEF IsSum
  <1>7. ASSUME NEW k \in 0 .. m
        PROVE  h[k] = IF k = 0 THEN 0 ELSE h[k - 1] + d(k)
    <2> HIDE DEF d
    <2>1. CASE k = m
      BY <1>2, <1>3, <2>1
    <2>2. CASE k # m /\ k # 0
      <3>1. k \in 0 .. m - 1 /\ k - 1 \in 0 .. m /\ k - 1 # m
        BY <1>2, <2>2
      <3> QED
        BY <1>6, <2>2, <3>1
    <2>3. CASE k # m /\ k = 0
      BY <1>6, <1>2, <2>3
    <2> QED
      BY <2>1, <2>2, <2>3
  <1>8. h = [k \in 0 .. m |-> IF k = 0 THEN 0 ELSE h[k - 1] + d(k)]
    <2> HIDE DEF d
    <2> QED
      BY <1>7
  <1>9. IsSum(h, R, delta, m)
    <2> HIDE DEF h
    <2> QED
      BY <1>8 DEF IsSum
  <1> QED
    BY <1>2, <1>9

LEMMA TotalType ==
    ASSUME NEW r \in Ring, NEW delta \in [Groups(r) -> Int]
    PROVE  Total(r, delta) \in -128 .. 127
  <1> DEFINE n == Count(r) \div 3
             R == Reports(r)
  <1>1. n \in Nat
    BY RingFields, NType
  <1>2. R \subseteq 0 .. n - 1 /\ \A g \in R : delta[g] \in Int
    BY DEF Reports, Groups
  <1> DEFINE f == CHOOSE f : f = [g \in 0 .. n |->
                    IF g = 0 THEN 0 ELSE f[g - 1] + (IF g - 1 \in R THEN delta[g - 1] ELSE 0)]
  <1>3. Total(r, delta) = Clamp(f[n], -128, 127)
    BY DEF Total
  <1> HIDE DEF n, R
  <1>4. f = [g \in 0 .. n |-> IF g = 0 THEN 0
                              ELSE f[g - 1] + (IF g - 1 \in R THEN delta[g - 1] ELSE 0)]
    <2>1. PICK h : IsSum(h, R, delta, n)
      BY <1>1, SumExists
    <2> QED
      BY <2>1 DEF IsSum
  <1> HIDE DEF f
  <1>5. \A k \in 0 .. n : f[k] = IF k = 0 THEN 0
                                 ELSE f[k - 1] + (IF k - 1 \in R THEN delta[k - 1] ELSE 0)
    BY <1>4
  <1> DEFINE S == {k \in 0 .. n : f[k] \notin Int}
  <1>6. S = {}
    <2> SUFFICES ASSUME S # {} PROVE FALSE
      OBVIOUS
    <2>1. PICK m \in S : \A t \in S : m <= t
      <3>1. S \subseteq Nat
        BY <1>1
      <3> HIDE DEF S
      <3> QED
        BY <3>1, Least
    <2>2. m \in 0 .. n /\ f[m] \notin Int
      OBVIOUS
    <2>3. m # 0
      BY <1>1, <1>5, <2>2
    <2>4. m - 1 \in 0 .. n /\ m - 1 \notin S
      BY <1>1, <2>1, <2>2, <2>3
    <2>5. f[m - 1] \in Int
      BY <2>4
    <2>6. (IF m - 1 \in R THEN delta[m - 1] ELSE 0) \in Int
      BY <1>2
    <2> QED
      BY <1>5, <2>2, <2>3, <2>5, <2>6
  <1>7. f[n] \in Int
    BY <1>1, <1>6
  <1> QED
    BY <1>3, <1>7 DEF Clamp

-----------------------------------------------------------------------------
(* Framing, for a ring r, the bytes q on their way to it, whether the mouse *)
(* reports, and clean.  Answers are ahead of all packets; the packets       *)
(* on their way end with a last byte; and as long as the driver is clean    *)
(* ring and queue are one sequence of packets, or nothing but answers was   *)
(* ever sent and the ring is empty.                                         *)
AnswersFirst(q) ==
    \A i, j \in 1 .. Len(q) : i < j /\ q[j].pos = ANSWER => q[i].pos = ANSWER

EndsWhole(q, rep) ==
    \A j \in 1 .. Len(q) : q[j].pos = ANSWER \/ (rep /\ q[j].pos = 2 - ((Len(q) - j) % 3))

NoAnswer(q) == \A j \in 1 .. Len(q) : q[j].pos # ANSWER

Aligned(r) == \A k \in 0 .. Count(r) - 1 : At(r, k).pos = k % 3

Framing(r, q, rep, c) ==
    /\ AnswersFirst(q)
    /\ EndsWhole(q, rep)
    /\ c => Aligned(r)
    /\ c /\ rep /\ NoAnswer(q) => (Count(r) + Len(q)) % 3 = 0
    /\ c /\ ~(rep /\ NoAnswer(q)) => Count(r) = 0

LEMMA Phase ==
    ASSUME NEW x \in Nat, NEW y \in Nat, (x + y) % 3 = 0
    PROVE  /\ \A j \in 1 .. y : 2 - ((y - j) % 3) = (x + j - 1) % 3
           /\ \A z \in 0 .. x : z % 3 = 0 => (x - z + y) % 3 = 0
  OBVIOUS

(* What has not arrived of a queue is a queue in the same sense.            *)
LEMMA Rest ==
    ASSUME NEW q \in Seq(Bytes), NEW m \in 0 .. Len(q), NEW rep,
           AnswersFirst(q), EndsWhole(q, rep)
    PROVE  LET t == SubSeq(q, m + 1, Len(q))
           IN  /\ t \in Seq(Bytes) /\ Len(t) = Len(q) - m
               /\ \A j \in 1 .. Len(q) - m : t[j] = q[j + m]
               /\ AnswersFirst(t) /\ EndsWhole(t, rep)
               /\ NoAnswer(q) => NoAnswer(t)
  <1> DEFINE t == SubSeq(q, m + 1, Len(q))
  <1>1. Len(q) \in Nat
    OBVIOUS
  <1>2. t \in Seq(Bytes) /\ Len(t) = Len(q) - m
    BY <1>1, SubSeqProperties
  <1>3. \A j \in 1 .. Len(q) - m : t[j] = q[j + m]
    BY <1>1, <1>2, SubSeqProperties
  <1> HIDE DEF t
  <1>4. AnswersFirst(t)
    <2> SUFFICES ASSUME NEW i \in 1 .. Len(t), NEW j \in 1 .. Len(t), i < j, t[j].pos = ANSWER
                 PROVE  t[i].pos = ANSWER
      BY DEF AnswersFirst
    <2>1. i + m \in 1 .. Len(q) /\ j + m \in 1 .. Len(q) /\ i + m < j + m
      BY <1>1, <1>2
    <2> QED
      BY <1>2, <1>3, <2>1 DEF AnswersFirst
  <1>5. EndsWhole(t, rep)
    <2> SUFFICES ASSUME NEW j \in 1 .. Len(t)
                 PROVE  t[j].pos = ANSWER \/ (rep /\ t[j].pos = 2 - ((Len(t) - j) % 3))
      BY DEF EndsWhole
    <2>1. j + m \in 1 .. Len(q) /\ Len(t) - j = Len(q) - (j + m)
      BY <1>1, <1>2
    <2> QED
      BY <1>2, <1>3, <2>1 DEF EndsWhole
  <1>6. NoAnswer(q) => NoAnswer(t)
    <2> SUFFICES ASSUME NoAnswer(q), NEW j \in 1 .. Len(t) PROVE t[j].pos # ANSWER
      BY DEF NoAnswer
    <2>1. j + m \in 1 .. Len(q)
      BY <1>1, <1>2
    <2> QED
      BY <1>2, <1>3, <2>1 DEF NoAnswer
  <1> QED
    BY <1>2, <1>3, <1>4, <1>5, <1>6 DEF t

(* m bytes arrive.                                                          *)
LEMMA Arrive ==
    ASSUME NEW r \in Ring, NEW q \in Seq(Bytes), NEW m \in 0 .. Len(q),
           NEW rep \in BOOLEAN, NEW c \in BOOLEAN, Framing(r, q, rep, c),
           NEW d, d = (/\ c
                       /\ Count(r) + m < N
                       /\ \A j \in 1 .. m : q[j].pos # ANSWER)
    PROVE  LET s == Filled(r, SubSeq(q, 1, m))
               t == SubSeq(q, m + 1, Len(q))
           IN  s \in Ring /\ t \in Seq(Bytes) /\ Framing(s, t, rep, d)
  <1> DEFINE b == SubSeq(q, 1, m)
             s == Filled(r, b)
             t == SubSeq(q, m + 1, Len(q))
  <1>1. Len(q) \in Nat /\ Count(r) \in 0 .. N - 1
    BY RingFields
  <1>2. b \in Seq(Bytes) /\ Len(b) = m /\ \A j \in 1 .. m : b[j] = q[j]
    <2>1. b \in Seq(Bytes) /\ Len(b) = m
      BY <1>1, SubSeqProperties
    <2> QED
      BY <1>1, <2>1, SubSeqProperties
  <1>3. Holds(s, r, b, m)
    BY <1>2, Fill
  <1>4. /\ t \in Seq(Bytes) /\ Len(t) = Len(q) - m
        /\ \A j \in 1 .. Len(q) - m : t[j] = q[j + m]
        /\ AnswersFirst(t) /\ EndsWhole(t, rep)
        /\ NoAnswer(q) => NoAnswer(t)
    BY Rest DEF Framing
  <1> HIDE DEF b, s, t
  <1>5. s \in Ring
    BY <1>3 DEF Holds
  <1>6. ASSUME d
        PROVE  /\ Aligned(s)
               /\ rep /\ NoAnswer(t) => (Count(s) + Len(t)) % 3 = 0
               /\ ~(rep /\ NoAnswer(t)) => Count(s) = 0
    <2>1. c /\ Count(r) + m < N /\ \A j \in 1 .. m : q[j].pos # ANSWER
      BY <1>6
    <2>2. /\ Count(s) = Count(r) + m
          /\ \A j \in 0 .. Count(r) - 1 : At(s, j) = At(r, j)
          /\ \A j \in 1 .. m : At(s, Count(r) + j - 1) = b[j]
      BY <1>3, <2>1 DEF Holds
    <2>3. Aligned(r)
      BY <2>1 DEF Framing
    <2>4. CASE rep /\ NoAnswer(q)
      <3>1. (Count(r) + Len(q)) % 3 = 0
        BY <2>1, <2>4 DEF Framing
      <3>2. ASSUME NEW k \in 0 .. Count(s) - 1 PROVE At(s, k).pos = k % 3
        <4>1. CASE k < Count(r)
          <5>1. k \in 0 .. Count(r) - 1
            BY <1>1, <4>1
          <5> QED
            BY <2>2, <2>3, <5>1 DEF Aligned
        <4>2. CASE ~(k < Count(r))
          <5> DEFINE j == k - Count(r) + 1
          <5>1. j \in 1 .. m /\ j \in 1 .. Len(q) /\ k = Count(r) + j - 1
            BY <1>1, <2>2, <4>2
          <5>2. At(s, k) = q[j]
            BY <1>2, <2>2, <5>1
          <5>3. q[j].pos = 2 - ((Len(q) - j) % 3)
            BY <2>4, <5>1 DEF Framing, EndsWhole, NoAnswer
          <5>4. 2 - ((Len(q) - j) % 3) = k % 3
            <6>1. Count(r) \in Nat /\ Len(q) \in Nat
              BY <1>1
            <6>2. 2 - ((Len(q) - j) % 3) = (Count(r) + j - 1) % 3
              BY <3>1, <5>1, <6>1, Phase
            <6> QED
              BY <5>1, <6>2
          <5> QED
            BY <5>2, <5>3, <5>4
        <4> QED
          BY <1>1, <4>1, <4>2
      <3>3. (Count(s) + Len(t)) % 3 = 0
        BY <1>1, <1>4, <2>2, <3>1
      <3> QED
        BY <1>4, <2>4, <3>2, <3>3 DEF Aligned
    <2>5. CASE ~(rep /\ NoAnswer(q))
      <3>1. Count(r) = 0
        BY <2>1, <2>5 DEF Framing
      <3>2. Len(q) # 0 => q[1].pos = ANSWER
        <4>1. CASE ~rep
          BY <1>1, <4>1 DEF Framing, EndsWhole
        <4>2. CASE ~NoAnswer(q)
          <5>1. PICK j \in 1 .. Len(q) : q[j].pos = ANSWER
            BY <4>2 DEF NoAnswer
          <5>2. 1 \in 1 .. Len(q) /\ (j = 1 \/ 1 < j)
            BY <1>1
          <5> QED
            BY <5>1, <5>2 DEF Framing, AnswersFirst
        <4> QED
          BY <2>5, <4>1, <4>2
      <3>3. m = 0
        BY <1>1, <2>1, <3>2
      <3>4. Count(s) = 0
        BY <2>2, <3>1, <3>3
      <3>5. Aligned(s)
        BY <3>4 DEF Aligned
      <3>6. (rep /\ NoAnswer(t)) => Len(t) = 0
        <4> SUFFICES ASSUME rep, NoAnswer(t) PROVE Len(t) = 0
          OBVIOUS
        <4>1. Len(q) # 0 => t[1] = q[1] /\ 1 \in 1 .. Len(t)
          BY <1>1, <1>4, <3>3
        <4>2. Len(q) = 0
          BY <3>2, <4>1 DEF NoAnswer
        <4> QED
          BY <1>4, <3>3, <4>2
      <3>7. (rep /\ NoAnswer(t)) => (Count(s) + Len(t)) % 3 = 0
        BY <3>4, <3>6
      <3> QED
        BY <3>4, <3>5, <3>7
    <2> QED
      BY <2>4, <2>5
  <1>7. Framing(s, t, rep, d)
    BY <1>4, <1>6 DEF Framing
  <1> QED
    BY <1>4, <1>5, <1>7 DEF b, s, t

(* touchpad_poll takes whole groups of three out.                           *)
LEMMA Polled ==
    ASSUME NEW r \in Ring, NEW q \in Seq(Bytes), NEW rep \in BOOLEAN, NEW c \in BOOLEAN,
           Framing(r, q, rep, c)
    PROVE  Popped(r, Consumed(r)) \in Ring /\ Framing(Popped(r, Consumed(r)), q, rep, c)
  <1> DEFINE n == Consumed(r)
             s == Popped(r, n)
  <1>1. Count(r) \in 0 .. N - 1 /\ Len(q) \in Nat
    BY RingFields
  <1>2. n \in 0 .. Count(r) /\ n % 3 = 0 /\ n \in Nat
    BY <1>1, NType DEF Consumed
  <1> HIDE DEF n
  <1>3. /\ s \in Ring /\ Count(s) = Count(r) - n
        /\ \A j \in 0 .. Count(r) - n - 1 : At(s, j) = At(r, j + n)
    BY <1>2, Pop
  <1> HIDE DEF s
  <1>4. ASSUME c PROVE Aligned(s)
    <2> SUFFICES ASSUME NEW k \in 0 .. Count(s) - 1 PROVE At(s, k).pos = k % 3
      BY DEF Aligned
    <2>1. k + n \in 0 .. Count(r) - 1 /\ k \in 0 .. Count(r) - n - 1 /\ (k + n) % 3 = k % 3
      BY <1>1, <1>2, <1>3
    <2> QED
      BY <1>3, <1>4, <2>1 DEF Framing, Aligned
  <1>5. c /\ rep /\ NoAnswer(q) => (Count(s) + Len(q)) % 3 = 0
    <2>1. c /\ rep /\ NoAnswer(q) => (Count(r) + Len(q)) % 3 = 0
      BY DEF Framing
    <2>2. (Count(r) + Len(q)) % 3 = 0 => (Count(r) - n + Len(q)) % 3 = 0
      <3>1. Count(r) \in Nat /\ Len(q) \in Nat /\ n \in 0 .. Count(r) /\ n % 3 = 0
        BY <1>1, <1>2
      <3> QED
        BY <3>1, Phase
    <2> QED
      BY <1>3, <2>1, <2>2
  <1>6. c /\ ~(rep /\ NoAnswer(q)) => Count(s) = 0
    <2>1. c /\ ~(rep /\ NoAnswer(q)) => Count(r) = 0
      BY DEF Framing
    <2> QED
      BY <1>1, <1>2, <1>3, <2>1
  <1> QED
    BY <1>3, <1>4, <1>5, <1>6 DEF Framing, n, s

-----------------------------------------------------------------------------
(* The inductive invariant.                                                 *)

(* The drivers: queues, rings and their framing, and what is decoded.       *)
RingInv ==
    /\ fromCtl \in Seq(Bytes) /\ fromMouse \in Seq(Bytes) /\ fromKeys \in Seq(Bytes)
    /\ mouse \in Ring /\ kbd \in Ring
    /\ hasMouse \in BOOLEAN /\ reporting \in BOOLEAN /\ clean \in BOOLEAN
    /\ Framing(mouse, fromMouse, reporting, clean)

DecodedInv ==
    /\ abs_pos_x \in 0 .. AbsMax /\ abs_pos_y \in 0 .. AbsMax
    /\ g_last_scancode \in 0 .. 127

(* The mouse is quiet until it has been initialised, and a key is only      *)
(* there in the part of a frame after the tasks.                            *)
PhaseInv ==
    /\ pc \in {"init", "config", "defaults", "reporting"} => ~reporting
    /\ g_last_scancode # 0 => pc \in {"poll", "poll ps2", "draw", "click", "off"}

(* The pointer, on the screen.                                              *)
PointerInv ==
    /\ cursor_x \in 0 .. W - 1 /\ cursor_y \in 0 .. H - 1
    /\ g_cursor_x \in 0 .. W - ICON_SIZE /\ g_cursor_y \in 0 .. H - ICON_SIZE
    /\ buttons \subseteq 0 .. 2 /\ g_buttons \subseteq 0 .. 2
    /\ tries \in 0 .. 1 /\ sat_count \in 0 .. SatPolls

(* A button that has acted is remembered until the press is reported over.  *)
PressInv ==
    /\ fired \in {0, 1}
    /\ fired = 1 => pressed = TRUE /\ LEFT \in g_buttons

Inv == RingInv /\ DecodedInv /\ PhaseInv /\ PointerInv /\ PressInv

LEMMA ClampType ==
    ASSUME NEW v \in Int, NEW low \in Int, NEW high \in Int, low <= high
    PROVE  Clamp(v, low, high) \in low .. high
  BY DEF Clamp

LEMMA ClampNat ==
    ASSUME NEW v \in Int, NEW high \in Nat
    PROVE  Clamp(v, 0, high) \in 0 .. high
  BY ClampType

LEMMA RestSeq ==
    ASSUME NEW q \in Seq(Bytes), NEW m \in 0 .. Len(q)
    PROVE  SubSeq(q, m + 1, Len(q)) \in Seq(Bytes)
  <1>1. Len(q) \in Nat
    OBVIOUS
  <1> QED
    BY <1>1, SubSeqProperties

LEMMA Arrived ==
    ASSUME RingInv, NEW a \in Arrivals, ps2_process_incoming(a)
    PROVE  /\ fromCtl' \in Seq(Bytes) /\ fromMouse' \in Seq(Bytes) /\ fromKeys' \in Seq(Bytes)
           /\ MouseIn(a) \in Ring /\ KeysIn(a) \in Ring
           /\ hasMouse' \in BOOLEAN /\ reporting' = reporting /\ clean' \in BOOLEAN
           /\ Framing(MouseIn(a), fromMouse', reporting, clean')
  <1>1. /\ fromCtl \in Seq(Bytes) /\ fromMouse \in Seq(Bytes) /\ fromKeys \in Seq(Bytes)
        /\ mouse \in Ring /\ kbd \in Ring
        /\ hasMouse \in BOOLEAN /\ reporting \in BOOLEAN /\ clean \in BOOLEAN
        /\ Framing(mouse, fromMouse, reporting, clean)
    BY DEF RingInv
  <1>2. a.m \in 0 .. Len(fromMouse) /\ a.c \in 0 .. Len(fromCtl) /\ a.k \in 0 .. Len(fromKeys)
    BY DEF Arrivals
  <1>3. /\ fromMouse' = SubSeq(fromMouse, a.m + 1, Len(fromMouse))
        /\ fromCtl' = SubSeq(fromCtl, a.c + 1, Len(fromCtl))
        /\ fromKeys' = SubSeq(fromKeys, a.k + 1, Len(fromKeys))
        /\ reporting' = reporting /\ hasMouse' = hasMouse
    BY DEF ps2_process_incoming, state
  <1>4. clean' = (/\ clean
                  /\ Count(mouse) + a.m < N
                  /\ \A j \in 1 .. a.m : fromMouse[j].pos # ANSWER)
    BY Zenon DEF ps2_process_incoming, N
  <1>5. clean' \in BOOLEAN
    BY <1>4
  <1>6. /\ Filled(mouse, SubSeq(fromMouse, 1, a.m)) \in Ring
        /\ SubSeq(fromMouse, a.m + 1, Len(fromMouse)) \in Seq(Bytes)
        /\ Framing(Filled(mouse, SubSeq(fromMouse, 1, a.m)),
                   SubSeq(fromMouse, a.m + 1, Len(fromMouse)), reporting, clean')
    BY <1>1, <1>2, <1>4, Arrive
  <1>7. fromCtl' \in Seq(Bytes) /\ fromKeys' \in Seq(Bytes)
    BY <1>1, <1>2, <1>3, RestSeq
  <1>8. KeysIn(a) \in Ring
    <2>1. SubSeq(fromCtl, 1, a.c) \in Seq(Bytes) /\ SubSeq(fromKeys, 1, a.k) \in Seq(Bytes)
      BY <1>1, <1>2, SubSeqProperties
    <2>2. SubSeq(fromCtl, 1, a.c) \o SubSeq(fromKeys, 1, a.k) \in Seq(Bytes)
      BY <2>1, ConcatProperties
    <2> QED
      BY <1>1, <2>2, Fill DEF KeysIn, Holds
  <1> QED
    BY <1>1, <1>3, <1>5, <1>6, <1>7, <1>8 DEF MouseIn

(* What a poll reports.                                                     *)
LEMMA PollType ==
    ASSUME NEW r \in Ring
    PROVE  /\ Poll(r).dx \in -128 .. 127 /\ Poll(r).dy \in -128 .. 127
           /\ Poll(r).buttons \subseteq 0 .. 2
  <1>1. CASE Reports(r) = {}
    BY <1>1 DEF Poll
  <1>2. CASE Reports(r) # {}
    <2>1. \A g \in Groups(r) : /\ 3 * g \in 0 .. N - 1 /\ 3 * g + 1 \in 0 .. N - 1
                               /\ 3 * g + 2 \in 0 .. N - 1
      BY RingFields, NType DEF Groups
    <2>2. \A g \in Groups(r) : DeltaX(r, g) \in Int /\ DeltaY(r, g) \in Int
      <3> SUFFICES ASSUME NEW g \in Groups(r) PROVE DeltaX(r, g) \in Int /\ DeltaY(r, g) \in Int
        OBVIOUS
      <3>1. At(r, 3 * g + 1) \in Bytes /\ At(r, 3 * g + 2) \in Bytes
        BY <2>1, RingFields
      <3>2. At(r, 3 * g + 1).v \in Int /\ At(r, 3 * g + 2).v \in Int
        BY <3>1 DEF Bytes
      <3> QED
        BY <3>2 DEF DeltaX, DeltaY
    <2>3. /\ [g \in Groups(r) |-> DeltaX(r, g)] \in [Groups(r) -> Int]
          /\ [g \in Groups(r) |-> DeltaY(r, g)] \in [Groups(r) -> Int]
      BY <2>2
    <2>4. /\ Total(r, [g \in Groups(r) |-> DeltaX(r, g)]) \in -128 .. 127
          /\ Total(r, [g \in Groups(r) |-> DeltaY(r, g)]) \in -128 .. 127
      BY <2>3, TotalType
    <2> QED
      BY <1>2, <2>4 DEF Poll
  <1> QED
    BY <1>1, <1>2

LEMMA AbsType == AbsMax \in Nat \ {0}
  BY DEF AbsMax

LEMMA AbsMoved ==
    ASSUME DecodedInv, NEW sx \in Int, NEW sy \in Int,
           abs_pos_x' = Clamp(abs_pos_x + sx, 0, AbsMax),
           abs_pos_y' = Clamp(abs_pos_y - sy, 0, AbsMax),
           g_last_scancode' = g_last_scancode
    PROVE  DecodedInv'
  BY AbsType DEF DecodedInv, Clamp

LEMMA TouchpadPolled ==
    ASSUME RingInv, DecodedInv, NEW a \in Arrivals, ps2_process_incoming(a),
           touchpad_poll(a, MouseIn(a), Poll(MouseIn(a)))
    PROVE  RingInv' /\ DecodedInv' /\ reporting' = reporting /\ g_last_scancode' = g_last_scancode
  <1>1. /\ fromCtl' \in Seq(Bytes) /\ fromMouse' \in Seq(Bytes) /\ fromKeys' \in Seq(Bytes)
        /\ MouseIn(a) \in Ring /\ KeysIn(a) \in Ring
        /\ hasMouse' \in BOOLEAN /\ reporting' = reporting /\ clean' \in BOOLEAN
        /\ Framing(MouseIn(a), fromMouse', reporting, clean')
    BY Arrived
  <1> DEFINE r == MouseIn(a)
             p == Poll(r)
  <1>2. /\ mouse' = Popped(r, Consumed(r)) /\ kbd' = KeysIn(a)
        /\ abs_pos_x' = Clamp(abs_pos_x + p.dx * 512, 0, AbsMax)
        /\ abs_pos_y' = Clamp(abs_pos_y - p.dy * 512, 0, AbsMax)
        /\ g_last_scancode' = g_last_scancode
    BY DEF touchpad_poll
  <1>3. p.dx \in -128 .. 127 /\ p.dy \in -128 .. 127
    BY <1>1, PollType
  <1> HIDE DEF r, p
  <1>4. reporting \in BOOLEAN
    BY DEF RingInv
  <1>5. DecodedInv'
    <2>1. PICK sx \in Int : sx = p.dx * 512
      BY <1>3
    <2>2. PICK sy \in Int : sy = p.dy * 512
      BY <1>3
    <2>3. abs_pos_x' = Clamp(abs_pos_x + sx, 0, AbsMax)
      BY <1>2, <2>1
    <2>4. abs_pos_y' = Clamp(abs_pos_y - sy, 0, AbsMax)
      BY <1>2, <2>2
    <2>5. g_last_scancode' = g_last_scancode
      BY <1>2
    <2> QED
      BY <2>3, <2>4, <2>5, AbsMoved
  <1>6. mouse' \in Ring /\ Framing(mouse', fromMouse', reporting, clean')
    BY <1>1, <1>2, <1>4, Polled DEF r
  <1> QED
    BY <1>1, <1>2, <1>4, <1>5, <1>6 DEF RingInv

LEMMA KeyboardTask ==
    ASSUME RingInv, DecodedInv, NEW a \in Arrivals, keyboard_task(a)
    PROVE  RingInv' /\ DecodedInv' /\ reporting' = reporting
  <1>1. /\ fromCtl' \in Seq(Bytes) /\ fromMouse' \in Seq(Bytes) /\ fromKeys' \in Seq(Bytes)
        /\ MouseIn(a) \in Ring /\ KeysIn(a) \in Ring
        /\ hasMouse' \in BOOLEAN /\ reporting' = reporting /\ clean' \in BOOLEAN
        /\ Framing(MouseIn(a), fromMouse', reporting, clean')
    BY Arrived DEF keyboard_task
  <1> DEFINE r == KeysIn(a)
  <1>2. /\ mouse' = MouseIn(a)
        /\ IF Makes(r) # {}
           THEN /\ kbd' = Popped(r, FirstMake(r) + 1)
                /\ g_last_scancode' = At(r, FirstMake(r)).v
           ELSE kbd' = Popped(r, Skipped(r)) /\ UNCHANGED g_last_scancode
        /\ UNCHANGED <<abs_pos_x, abs_pos_y>>
    BY DEF keyboard_task
  <1> HIDE DEF r
  <1>3. r \in Ring
    BY <1>1 DEF r
  <1>4. Count(r) \in 0 .. N - 1 /\ Count(r) \in Nat
    BY <1>3, RingFields, NType
  <1>5. g_last_scancode \in 0 .. 127
    BY DEF DecodedInv
  <1>6. kbd' \in Ring /\ g_last_scancode' \in 0 .. 127
    <2>1. CASE Makes(r) = {}
      <3>1. kbd' = Popped(r, Count(r)) /\ g_last_scancode' = g_last_scancode
        BY <1>2, <2>1 DEF Skipped
      <3>2. Count(r) \in 0 .. Count(r)
        BY <1>4
      <3> QED
        BY <1>3, <1>5, <3>1, <3>2, Pop
    <2>2. CASE Makes(r) # {}
      <3>1. Makes(r) \subseteq Nat
        BY <1>4 DEF Makes
      <3>2. \E k \in Makes(r) : \A h \in Makes(r) : k <= h
        BY <2>2, <3>1, Least
      <3>3. FirstMake(r) \in Makes(r)
        BY <3>2 DEF FirstMake
      <3> DEFINE k == FirstMake(r)
      <3>4. k \in 0 .. Count(r) - 1 /\ ~Bit(At(r, k).v, 128)
        BY <3>3 DEF Makes
      <3>5. kbd' = Popped(r, k + 1) /\ g_last_scancode' = At(r, k).v
        BY <1>2, <2>2
      <3> HIDE DEF k
      <3>6. k \in 0 .. N - 1 /\ k + 1 \in 0 .. Count(r)
        BY <1>4, <3>4, NType
      <3>7. At(r, k).v \in 0 .. 255
        BY <1>3, <3>6, RingFields DEF Bytes
      <3>8. At(r, k).v \in 0 .. 127
        BY <3>4, <3>7 DEF Bit
      <3> QED
        BY <1>3, <3>5, <3>6, <3>8, Pop
    <2> QED
      BY <2>1, <2>2
  <1>7. DecodedInv'
    BY <1>2, <1>6 DEF DecodedInv
  <1>8. reporting' \in BOOLEAN
    BY <1>1 DEF RingInv
  <1>9. RingInv'
    BY <1>1, <1>2, <1>6, <1>8 DEF RingInv
  <1> QED
    BY <1>1, <1>7, <1>9

-----------------------------------------------------------------------------
(* The devices and ps2_touchpad_init.                                       *)
AllAnswers(q) == \A j \in 1 .. Len(q) : q[j].pos = ANSWER

(* While the mouse does not report all it sends are answers, and when it    *)
(* begins to report it does so after them.                                  *)
LEMMA Quiet ==
    ASSUME RingInv, ~reporting
    PROVE  AllAnswers(fromMouse) /\ (clean => Count(mouse) = 0)
  BY DEF RingInv, Framing, EndsWhole, AllAnswers

LEMMA StaysQuiet ==
    ASSUME RingInv, ~reporting,
           fromCtl' \in Seq(Bytes), fromMouse' \in Seq(Bytes), fromKeys' \in Seq(Bytes),
           AllAnswers(fromMouse'), mouse' = mouse, kbd' = kbd, clean' = clean,
           hasMouse' = hasMouse, reporting' \in BOOLEAN
    PROVE  RingInv'
  <1> DEFINE q == fromMouse'
  <1>1. AnswersFirst(q) /\ EndsWhole(q, reporting')
    BY DEF AnswersFirst, EndsWhole, AllAnswers
  <1>2. clean => Count(mouse) = 0
    BY Quiet
  <1>3. clean => Aligned(mouse)
    BY <1>2 DEF Aligned
  <1>4. NoAnswer(q) => Len(q) = 0
    <2> SUFFICES ASSUME NoAnswer(q), Len(q) # 0 PROVE FALSE
      OBVIOUS
    <2>1. 1 \in 1 .. Len(q)
      OBVIOUS
    <2> QED
      BY <2>1 DEF NoAnswer, AllAnswers
  <1>5. clean /\ reporting' /\ NoAnswer(q) => (Count(mouse) + Len(q)) % 3 = 0
    BY <1>2, <1>4
  <1>6. Framing(mouse, q, reporting', clean)
    BY <1>1, <1>2, <1>3, <1>5 DEF Framing
  <1> HIDE DEF q
  <1> QED
    BY <1>6 DEF RingInv, q

LEMMA AnswersKept ==
    ASSUME NEW q \in Seq(Bytes), AllAnswers(q)
    PROVE  /\ Append(q, ACK) \in Seq(Bytes) /\ AllAnswers(Append(q, ACK))
           /\ q # <<>> => Tail(q) \in Seq(Bytes) /\ AllAnswers(Tail(q))
  <1>1. ACK \in Bytes /\ ACK.pos = ANSWER
    BY DEF ACK, Byte, Bytes, ANSWER
  <1>2. /\ Append(q, ACK) \in Seq(Bytes) /\ Len(Append(q, ACK)) = Len(q) + 1
        /\ \A j \in 1 .. Len(q) : Append(q, ACK)[j] = q[j]
        /\ Append(q, ACK)[Len(q) + 1] = ACK
    BY <1>1, AppendProperties
  <1>3. AllAnswers(Append(q, ACK))
    <2> SUFFICES ASSUME NEW j \in 1 .. Len(q) + 1 PROVE Append(q, ACK)[j].pos = ANSWER
      BY <1>2 DEF AllAnswers
    <2>1. Len(q) \in Nat
      OBVIOUS
    <2>2. CASE j = Len(q) + 1
      BY <1>1, <1>2, <2>2
    <2>3. CASE j \in 1 .. Len(q)
      BY <1>2, <2>3 DEF AllAnswers
    <2> QED
      BY <2>1, <2>2, <2>3
  <1>4. ASSUME q # <<>> PROVE Tail(q) \in Seq(Bytes) /\ AllAnswers(Tail(q))
    <2>1. /\ Tail(q) \in Seq(Bytes) /\ Len(Tail(q)) = Len(q) - 1 /\ Len(q) \in Nat
          /\ \A j \in 1 .. Len(Tail(q)) : Tail(q)[j] = q[j + 1]
      BY <1>4, HeadTailProperties
    <2>2. \A j \in 1 .. Len(Tail(q)) : j + 1 \in 1 .. Len(q)
      BY <2>1
    <2> QED
      BY <2>1, <2>2 DEF AllAnswers
  <1> QED
    BY <1>2, <1>3, <1>4

LEMMA InitSteps ==
    ASSUME RingInv, ~reporting, AskConfig \/ WriteConfig \/ SetDefaults \/ EnableReporting
    PROVE  /\ RingInv'
           /\ abs_pos_x' = abs_pos_x /\ abs_pos_y' = abs_pos_y
           /\ ~EnableReporting => ~reporting'
  <1>0. /\ fromCtl \in Seq(Bytes) /\ fromMouse \in Seq(Bytes) /\ fromKeys \in Seq(Bytes)
        /\ AllAnswers(fromMouse) /\ hasMouse \in BOOLEAN /\ reporting \in BOOLEAN
    BY Quiet DEF RingInv
  <1>1. /\ fromCtl # <<>> => Tail(fromCtl) \in Seq(Bytes)
        /\ fromKeys # <<>> => Tail(fromKeys) \in Seq(Bytes)
    BY <1>0
  <1>2. mouse' = mouse /\ kbd' = kbd /\ clean' = clean /\ hasMouse' = hasMouse
        /\ abs_pos_x' = abs_pos_x /\ abs_pos_y' = abs_pos_y
    BY DEF AskConfig, WriteConfig, SetDefaults, EnableReporting, driver, state
  <1>3. /\ Answers(fromMouse) \in Seq(Bytes) /\ AllAnswers(Answers(fromMouse))
    BY <1>0, AnswersKept DEF Answers
  <1>4. ASSUME NEW mq \in Seq(Bytes), AllAnswers(mq), AwaitAck(mq)
        PROVE  /\ fromCtl' \in Seq(Bytes) /\ fromMouse' \in Seq(Bytes)
               /\ fromKeys' \in Seq(Bytes) /\ AllAnswers(fromMouse')
    <2>1. mq # <<>> => Tail(mq) \in Seq(Bytes) /\ AllAnswers(Tail(mq))
      BY <1>4, AnswersKept
    <2> QED
      BY <1>0, <1>1, <1>4, <2>1 DEF AwaitAck
  <1>5. CASE AskConfig
    <2>1. Byte(ConfigByte, ANSWER) \in Bytes
      BY Ps2Assumption DEF Byte, Bytes, ANSWER
    <2>2. fromCtl' \in Seq(Bytes)
      BY <1>0, <1>5, <2>1, AppendProperties DEF AskConfig
    <2>3. fromMouse' = fromMouse /\ fromKeys' = fromKeys /\ reporting' = reporting
      BY <1>5 DEF AskConfig, state
    <2>4. RingInv'
      BY <1>0, <1>2, <2>2, <2>3, StaysQuiet
    <2> QED
      BY <1>2, <2>3, <2>4
  <1>6. CASE WriteConfig
    <2>1. fromMouse' = Answers(fromMouse) /\ reporting' = reporting
      BY <1>6 DEF WriteConfig
    <2>2. fromCtl' \in Seq(Bytes) /\ fromKeys' \in Seq(Bytes)
      BY <1>0, <1>1, <1>6 DEF WriteConfig
    <2>3. RingInv'
      BY <1>0, <1>2, <1>3, <2>1, <2>2, StaysQuiet
    <2> QED
      BY <1>2, <2>1, <2>3
  <1>7. CASE SetDefaults
    <2>1. AwaitAck(fromMouse) /\ reporting' = reporting
      BY <1>7 DEF SetDefaults, state
    <2>2. RingInv'
      BY <1>0, <1>2, <1>4, <2>1, StaysQuiet
    <2> QED
      BY <1>2, <2>1, <2>2
  <1>8. CASE EnableReporting
    <2>1. AwaitAck(Answers(fromMouse)) /\ reporting' = hasMouse
      BY <1>8 DEF EnableReporting
    <2>2. RingInv'
      BY <1>0, <1>2, <1>3, <1>4, <2>1, StaysQuiet
    <2> QED
      BY <1>2, <1>8, <2>2
  <1> QED
    BY <1>5, <1>6, <1>7, <1>8

(* A packet follows what is on its way.                                     *)
LEMMA MouseSends ==
    ASSUME RingInv, NEW p \in Packets, MouseReports(p), UNCHANGED driver
    PROVE  RingInv' /\ reporting' = reporting
  <1> DEFINE t == [k \in 1 .. 3 |-> Byte(p[k], k - 1)]
             q == fromMouse
  <1>1. t \in Seq(Bytes) /\ Len(t) = 3 /\ \A k \in 1 .. 3 : t[k].pos = k - 1
    <2>1. \A k \in 1 .. 3 : t[k] \in Bytes /\ t[k].pos = k - 1
      <3>1. \A k \in 1 .. 3 : p[k] \in 0 .. 255 /\ k - 1 \in 0 .. 3
        BY Ps2Assumption
      <3> QED
        BY <3>1 DEF Byte, Bytes
    <2>2. t \in [1 .. 3 -> Bytes]
      BY <2>1
    <2>3. t \in Seq(Bytes) /\ Len(t) = 3
      BY <2>2
    <2> QED
      BY <2>1, <2>3
  <1>2. /\ fromMouse' = q \o t /\ reporting' = reporting /\ reporting
        /\ fromCtl' = fromCtl /\ fromKeys' = fromKeys /\ hasMouse' = hasMouse
        /\ mouse' = mouse /\ kbd' = kbd /\ clean' = clean
    BY DEF MouseReports, driver
  <1>3. q \in Seq(Bytes) /\ Len(q) \in Nat
    BY DEF RingInv
  <1> HIDE DEF t
  <1> DEFINE n == q \o t
  <1>4. /\ n \in Seq(Bytes) /\ Len(n) = Len(q) + 3
        /\ \A j \in 1 .. Len(q) : n[j] = q[j]
        /\ \A j \in 1 .. 3 : n[Len(q) + j] = t[j]
    <2>1. n \in Seq(Bytes) /\ Len(n) = Len(q) + Len(t)
      BY <1>1, <1>3, ConcatProperties
    <2>2. \A j \in 1 .. Len(q) + Len(t) :
            n[j] = IF j <= Len(q) THEN q[j] ELSE t[j - Len(q)]
      BY <1>1, <1>3, ConcatProperties
    <2>3. \A j \in 1 .. Len(q) : j \in 1 .. Len(q) + Len(t) /\ j <= Len(q)
      BY <1>1, <1>3
    <2>4. \A j \in 1 .. 3 : /\ Len(q) + j \in 1 .. Len(q) + Len(t)
                            /\ ~(Len(q) + j <= Len(q)) /\ Len(q) + j - Len(q) = j
      BY <1>1, <1>3
    <2> HIDE DEF n
    <2> QED
      BY <1>1, <2>1, <2>2, <2>3, <2>4
  <1> HIDE DEF n
  <1>5. Framing(mouse, q, TRUE, clean)
    BY <1>2 DEF RingInv
  <1>6. ASSUME NEW j \in 1 .. Len(n), j > Len(q)
        PROVE  n[j].pos = j - Len(q) - 1 /\ n[j].pos # ANSWER
               /\ n[j].pos = 2 - ((Len(n) - j) % 3)
    <2> DEFINE k == j - Len(q)
    <2>1. k \in 1 .. 3 /\ j = Len(q) + k /\ Len(n) - j = 3 - k
      BY <1>3, <1>4, <1>6
    <2>2. n[j].pos = k - 1
      BY <1>1, <1>4, <2>1
    <2> HIDE DEF k
    <2>3. k - 1 = 2 - ((3 - k) % 3)
      BY <2>1
    <2> QED
      BY <2>1, <2>2, <2>3 DEF ANSWER, k
  <1>7. AnswersFirst(n)
    <2> SUFFICES ASSUME NEW i \in 1 .. Len(n), NEW j \in 1 .. Len(n), i < j, n[j].pos = ANSWER
                 PROVE  n[i].pos = ANSWER
      BY DEF AnswersFirst
    <2>1. ~(j > Len(q))
      BY <1>6
    <2>2. i \in 1 .. Len(q) /\ j \in 1 .. Len(q)
      BY <1>3, <2>1
    <2> QED
      BY <1>4, <1>5, <2>2 DEF Framing, AnswersFirst
  <1>8. EndsWhole(n, TRUE)
    <2> SUFFICES ASSUME NEW j \in 1 .. Len(n)
                 PROVE  n[j].pos = ANSWER \/ n[j].pos = 2 - ((Len(n) - j) % 3)
      BY DEF EndsWhole
    <2>1. CASE j > Len(q)
      BY <1>6, <2>1
    <2>2. CASE ~(j > Len(q))
      <3>1. j \in 1 .. Len(q)
        BY <1>3, <2>2
      <3>2. q[j].pos = ANSWER \/ q[j].pos = 2 - ((Len(q) - j) % 3)
        BY <1>5, <3>1 DEF Framing, EndsWhole
      <3>3. (Len(q) + 3 - j) % 3 = (Len(q) - j) % 3
        BY <1>3, <3>1
      <3>4. n[j] = q[j] /\ (Len(n) - j) % 3 = (Len(q) - j) % 3
        BY <1>4, <3>1, <3>3
      <3> QED
        BY <3>2, <3>4
    <2> QED
      BY <2>1, <2>2
  <1>9. NoAnswer(n) <=> NoAnswer(q)
    <2>1. ASSUME NoAnswer(n) PROVE NoAnswer(q)
      <3>1. \A j \in 1 .. Len(q) : j \in 1 .. Len(n)
        BY <1>3, <1>4
      <3> QED
        BY <1>4, <2>1, <3>1 DEF NoAnswer
    <2>2. ASSUME NoAnswer(q) PROVE NoAnswer(n)
      <3>1. \A j \in 1 .. Len(n) : j > Len(q) \/ j \in 1 .. Len(q)
        BY <1>3, <1>4
      <3> QED
        BY <1>4, <1>6, <2>2, <3>1 DEF NoAnswer
    <2> QED
      BY <2>1, <2>2
  <1>10. clean => Aligned(mouse)
    BY <1>5 DEF Framing
  <1>11. clean /\ NoAnswer(n) => (Count(mouse) + Len(n)) % 3 = 0
    <2>1. clean /\ NoAnswer(n) => (Count(mouse) + Len(q)) % 3 = 0
      BY <1>5, <1>9 DEF Framing
    <2>2. Count(mouse) \in Nat
      BY RingFields, NType DEF RingInv
    <2>3. (Count(mouse) + Len(q)) % 3 = 0 => (Count(mouse) + (Len(q) + 3)) % 3 = 0
      BY <1>3, <2>2
    <2> QED
      BY <1>4, <2>1, <2>3
  <1>12. clean /\ ~NoAnswer(n) => Count(mouse) = 0
    BY <1>5, <1>9 DEF Framing
  <1>13. Framing(mouse, n, TRUE, clean)
    BY <1>7, <1>8, <1>10, <1>11, <1>12 DEF Framing
  <1>14. reporting = TRUE
    BY <1>2 DEF RingInv
  <1> QED
    BY <1>2, <1>4, <1>13, <1>14 DEF RingInv, n

LEMMA KeySent ==
    ASSUME RingInv, NEW v \in KeyBytes, KeySends(v), UNCHANGED driver
    PROVE  RingInv' /\ reporting' = reporting
  <1>1. Byte(v, ANSWER) \in Bytes
    BY Ps2Assumption DEF Byte, Bytes, ANSWER
  <1>2. fromKeys' = Append(fromKeys, Byte(v, ANSWER)) /\ fromKeys \in Seq(Bytes)
    BY DEF KeySends, RingInv
  <1>3. fromKeys' \in Seq(Bytes)
    BY <1>1, <1>2, AppendProperties
  <1>4. /\ fromMouse' = fromMouse /\ reporting' = reporting
        /\ fromCtl' = fromCtl /\ hasMouse' = hasMouse
        /\ mouse' = mouse /\ kbd' = kbd /\ clean' = clean
    BY DEF KeySends, driver
  <1> QED
    BY <1>3, <1>4 DEF RingInv

-----------------------------------------------------------------------------
(* The pointer.                                                             *)
LEMMA Sizes ==
    /\ W \in Nat \ {0} /\ H \in Nat \ {0} /\ ICON_SIZE \in Nat \ {0}
    /\ MaxStep \in Nat \ {0} /\ SatPolls \in Nat \ {0}
    /\ W - ICON_SIZE \in Nat /\ H - ICON_SIZE \in Nat
  <1>1. /\ W \in Nat \ {0} /\ H \in Nat \ {0} /\ ICON_SIZE \in Nat \ {0}
        /\ MaxStep \in Nat \ {0} /\ SatPolls \in Nat \ {0} /\ Pad \in Nat \ {0}
        /\ W >= ICON_SIZE /\ H >= ICON_SIZE + Pad
    BY GuiAssumption
  <1> QED
    BY <1>1

(* OnX and OnY keep a position on the screen.                               *)
LEMMA OnScreen ==
    ASSUME NEW v \in Int
    PROVE  OnX(v) \in 0 .. W - 1 /\ OnY(v) \in 0 .. H - 1
  <1> DEFINE w == W - 1
             h == H - 1
  <1>1. w \in Nat /\ h \in Nat
    BY Sizes
  <1>2. OnX(v) = Clamp(v, 0, w) /\ OnY(v) = Clamp(v, 0, h)
    BY Zenon DEF OnX, OnY
  <1> HIDE DEF w, h
  <1>3. OnX(v) \in 0 .. w /\ OnY(v) \in 0 .. h
    BY <1>1, <1>2, ClampNat
  <1> QED
    BY <1>3 DEF w, h

LEMMA Saturation ==
    ASSUME sat_count \in 0 .. SatPolls, NEW p, Saturate(p)
    PROVE  sat_count' \in 0 .. SatPolls
  <1>1. sat_count + 1 \in Int /\ 0 <= SatPolls /\ SatPolls \in Int /\ 0 \in 0 .. SatPolls
    BY Sizes
  <1>2. Clamp(sat_count + 1, 0, SatPolls) \in 0 .. SatPolls
    BY <1>1, ClampType
  <1>3. sat_count' \in {Clamp(sat_count + 1, 0, SatPolls), 0}
    BY DEF Saturate
  <1> QED
    BY <1>1, <1>2, <1>3

LEMMA Moved ==
    ASSUME PointerInv, DecodedInv', NEW p,
           p.dx \in -128 .. 127, p.dy \in -128 .. 127, p.buttons \subseteq 0 .. 2,
           MoveAbsolute(p) \/ MoveRelative(p), UNCHANGED <<tries, clicked>>
    PROVE  PointerInv'
  <1>1. /\ g_cursor_x' \in 0 .. W - ICON_SIZE /\ g_cursor_y' \in 0 .. H - ICON_SIZE
        /\ g_buttons' \subseteq 0 .. 2 /\ tries' \in 0 .. 1
    BY DEF PointerInv, clicked
  <1>2. buttons' \subseteq 0 .. 2
    BY DEF MoveAbsolute, MoveRelative
  <1>3. sat_count' \in 0 .. SatPolls
    <2>1. sat_count \in 0 .. SatPolls
      BY DEF PointerInv
    <2>2. CASE MoveAbsolute(p)
      BY <2>1, <2>2 DEF MoveAbsolute, saturation
    <2>3. CASE MoveRelative(p)
      BY <2>1, <2>3, Saturation DEF MoveRelative
    <2> QED
      BY <2>2, <2>3
  <1>4. cursor_x' \in 0 .. W - 1 /\ cursor_y' \in 0 .. H - 1
    <2>1. CASE MoveAbsolute(p)
      <3>1. abs_pos_x' \in Int /\ abs_pos_y' \in Int
        BY AbsType DEF DecodedInv
      <3>2. (abs_pos_x' * W) \div AbsMax \in Int /\ (abs_pos_y' * H) \div AbsMax \in Int
        BY <3>1, Sizes, AbsType
      <3> QED
        BY <2>1, <3>2, OnScreen DEF MoveAbsolute
    <2>2. CASE MoveRelative(p) /\ absolute_mode'
      BY <2>2 DEF MoveRelative, PointerInv
    <2>3. CASE MoveRelative(p) /\ ~absolute_mode'
      <3>1. /\ cursor_x' = OnX(cursor_x + Clamp(p.dx, -MaxStep, MaxStep))
            /\ cursor_y' = OnY(cursor_y - Clamp(p.dy, -MaxStep, MaxStep))
        BY <2>3 DEF MoveRelative
      <3>2. -MaxStep \in Int /\ MaxStep \in Int /\ -MaxStep <= MaxStep
            /\ p.dx \in Int /\ p.dy \in Int
        BY Sizes
      <3>3. /\ Clamp(p.dx, -MaxStep, MaxStep) \in -MaxStep .. MaxStep
            /\ Clamp(p.dy, -MaxStep, MaxStep) \in -MaxStep .. MaxStep
        BY <3>2, ClampType
      <3>4. /\ cursor_x + Clamp(p.dx, -MaxStep, MaxStep) \in Int
            /\ cursor_y - Clamp(p.dy, -MaxStep, MaxStep) \in Int
        <4>1. cursor_x \in Int /\ cursor_y \in Int
          BY Sizes DEF PointerInv
        <4> QED
          BY <3>2, <3>3, <4>1
      <3> QED
        BY <3>1, <3>4, OnScreen
    <2> QED
      BY <2>1, <2>2, <2>3
  <1> QED
    BY <1>1, <1>2, <1>3, <1>4 DEF PointerInv

-----------------------------------------------------------------------------
(* The buttons: with the left button up none acts, and with it down one     *)
(* that acts is remembered in the shared flag, which keeps the others, and  *)
(* itself in the frames to come, from acting.                               *)
Pressed(s) == s.fired \in {0, 1} /\ (s.fired = 1 => s.pressed = TRUE /\ LEFT \in g_buttons)

LEMMA DrawOne ==
    ASSUME NEW s, Pressed(s), NEW x, NEW y, NEW cb
    PROVE  Pressed(drawButton(s, x, y, cb))
  <1> DEFINE inside == In(g_cursor_x, g_cursor_y, x, y, Button, Button)
             left   == LEFT \in g_buttons
             hit    == inside /\ left /\ ~s.pressed
  <1>1. CASE s.ends
    BY <1>1 DEF drawButton
  <1>2. CASE ~s.ends
    <2>1. /\ drawButton(s, x, y, cb).pressed = ((s.pressed \/ hit) /\ ~ ~left)
          /\ drawButton(s, x, y, cb).fired = IF hit /\ s.fired < 2 THEN s.fired + 1 ELSE s.fired
      BY <1>2 DEF drawButton, Released
    <2> HIDE DEF inside
    <2>2. CASE hit
      <3>1. s.fired = 0
        BY <2>2 DEF Pressed
      <3>2. drawButton(s, x, y, cb).fired = 1
        BY <2>1, <2>2, <3>1
      <3>3. drawButton(s, x, y, cb).pressed = TRUE
        BY <2>1, <2>2
      <3> QED
        BY <2>2, <3>2, <3>3 DEF Pressed
    <2>3. CASE ~hit
      <3>1. drawButton(s, x, y, cb).fired = s.fired
        BY <2>1, <2>3
      <3>2. s.fired = 1 => drawButton(s, x, y, cb).pressed = TRUE
        BY <2>1 DEF Pressed
      <3> QED
        BY <3>1, <3>2 DEF Pressed
    <2> QED
      BY <2>2, <2>3
  <1> QED
    BY <1>1, <1>2

LEMMA DrawAll ==
    ASSUME PressInv
    PROVE  Pressed(Reboot(Shutdown(Taskbar)))
  <1>1. Pressed([pressed |-> pressed, toggled |-> g_button_toggled, ends |-> FALSE,
                 fired |-> fired])
    BY DEF Pressed, PressInv
  <1>2. Pressed(Taskbar)
    BY <1>1, DrawOne DEF Taskbar
  <1>3. Pressed(Shutdown(Taskbar))
    BY <1>2, DrawOne DEF Shutdown
  <1> QED
    BY <1>3, DrawOne DEF Reboot

-----------------------------------------------------------------------------
(* The invariant is inductive: one lemma for each group of actions.         *)
LEMMA InitInv == Init => Inv
  <1> SUFFICES ASSUME Init PROVE Inv
    OBVIOUS
  <1>1. EmptyRing \in Ring /\ EmptyRing.head = EmptyRing.tail
    <2>1. Zero \in Bytes
      BY DEF Zero, Byte, Bytes, ANSWER
    <2>2. [k \in 0 .. N - 1 |-> Zero] \in [0 .. N - 1 -> Bytes] /\ 0 \in 0 .. N - 1
      BY <2>1, NType
    <2> QED
      BY <2>2 DEF EmptyRing, Ring, N
  <1>2. Count(EmptyRing) = 0
    BY <1>1, RingFields DEF Dist
  <1>3. Framing(EmptyRing, <<>>, FALSE, TRUE)
    <2>1. Len(<<>>) = 0
      OBVIOUS
    <2>2. Aligned(EmptyRing)
      BY <1>2 DEF Aligned
    <2>3. AnswersFirst(<<>>) /\ EndsWhole(<<>>, FALSE)
      BY <2>1 DEF AnswersFirst, EndsWhole
    <2> QED
      BY <1>2, <2>2, <2>3 DEF Framing
  <1>4. <<>> \in Seq(Bytes)
    OBVIOUS
  <1>5. RingInv
    <2>1. /\ fromCtl = <<>> /\ fromMouse = <<>> /\ fromKeys = <<>>
          /\ mouse = EmptyRing /\ kbd = EmptyRing
      BY DEF Init, Ps2Init
    <2>2. reporting = FALSE /\ clean = TRUE
      BY DEF Init, Ps2Init
    <2>3. hasMouse \in BOOLEAN
      BY DEF Init, Ps2Init
    <2> QED
      BY <1>1, <1>3, <1>4, <2>1, <2>2, <2>3, Zenon DEF RingInv
  <1>6. DecodedInv
    BY DEF Init, Ps2Init, DecodedInv, AbsMax
  <1>7. PhaseInv
    BY DEF Init, Ps2Init, PhaseInv
  <1>8. PointerInv
    <2>1. W \div 2 \in 0 .. W - 1 /\ H \div 2 \in 0 .. H - 1
      BY Sizes
    <2>2. 0 \in 0 .. W - ICON_SIZE /\ 0 \in 0 .. H - ICON_SIZE /\ 0 \in 0 .. SatPolls
      BY Sizes
    <2> QED
      BY <2>1, <2>2 DEF Init, PointerInv
  <1>9. PressInv
    BY DEF Init, PressInv
  <1> QED
    BY <1>5, <1>6, <1>7, <1>8, <1>9 DEF Inv

(* Actions that leave the GUI alone.                                        *)
LEMMA GuiKept ==
    ASSUME PointerInv, PressInv, UNCHANGED gui, tries' \in 0 .. 1
    PROVE  PointerInv' /\ PressInv'
  BY DEF PointerInv, PressInv, gui, pointer, saturation, ui, clicked

LEMMA DeviceInv ==
    ASSUME Inv, DeviceStep
    PROVE  Inv'
  <1>1. RingInv' /\ reporting' = reporting
    <2>1. UNCHANGED driver
      BY DEF DeviceStep
    <2>2. CASE \E p \in Packets : MouseReports(p)
      BY <2>1, <2>2, MouseSends DEF Inv
    <2>3. CASE \E v \in KeyBytes : KeySends(v)
      BY <2>1, <2>3, KeySent DEF Inv
    <2> QED
      BY <2>2, <2>3 DEF DeviceStep
  <1>2. UNCHANGED <<driver, g_using_usb, g_last_scancode, pc, tries, gui>>
    BY DEF DeviceStep
  <1>3. DecodedInv'
    BY <1>2 DEF Inv, DecodedInv, driver
  <1>4. PhaseInv'
    BY <1>1, <1>2 DEF Inv, PhaseInv
  <1>5. PointerInv' /\ PressInv'
    <2>1. tries' \in 0 .. 1
      BY <1>2 DEF Inv, PointerInv
    <2> QED
      BY <1>2, <2>1, GuiKept DEF Inv
  <1> QED
    BY <1>1, <1>3, <1>4, <1>5 DEF Inv

LEMMA StartInv ==
    ASSUME Inv, InitAsk \/ InitConfig \/ InitDefaults \/ InitReporting
    PROVE  Inv'
  <1>1. /\ pc \in {"init", "config", "defaults", "reporting"}
        /\ AskConfig \/ WriteConfig \/ SetDefaults \/ EnableReporting
        /\ pc' \in {"config", "defaults", "reporting", "tasks"}
        /\ pc' # "tasks" => AskConfig \/ WriteConfig \/ SetDefaults
        /\ UNCHANGED <<g_last_scancode, gui>>
        /\ tries' \in {tries, 0}
    BY DEF InitAsk, InitConfig, InitDefaults, InitReporting
  <1>2. ~reporting
    BY <1>1 DEF Inv, PhaseInv
  <1>3. RingInv' /\ abs_pos_x' = abs_pos_x /\ abs_pos_y' = abs_pos_y
    BY <1>1, <1>2, InitSteps DEF Inv
  <1>4. pc' # "tasks" => ~reporting'
    BY <1>1, <1>2 DEF AskConfig, WriteConfig, SetDefaults, state
  <1>5. DecodedInv'
    BY <1>1, <1>3 DEF Inv, DecodedInv
  <1>6. PhaseInv'
    BY <1>1, <1>4 DEF Inv, PhaseInv
  <1>7. PointerInv' /\ PressInv'
    <2>1. tries' \in 0 .. 1
      BY <1>1 DEF Inv, PointerInv
    <2> QED
      BY <1>1, <2>1, GuiKept DEF Inv
  <1> QED
    BY <1>3, <1>5, <1>6, <1>7 DEF Inv

LEMMA FailInv ==
    ASSUME Inv, InitFails
    PROVE  Inv'
  <1>1. /\ UNCHANGED <<ps2Vars, gui>> /\ pc = "config" /\ pc' \in {"tasks", "init"}
        /\ tries' \in 0 .. 1
    BY DEF InitFails, Inv, PointerInv
  <1>2. RingInv' /\ DecodedInv'
    BY <1>1 DEF Inv, RingInv, DecodedInv, ps2Vars, devices, driver, state
  <1>3. PhaseInv'
    BY <1>1 DEF Inv, PhaseInv, ps2Vars, devices, state
  <1>4. PointerInv' /\ PressInv'
    BY <1>1, GuiKept DEF Inv
  <1> QED
    BY <1>2, <1>3, <1>4 DEF Inv

LEMMA TasksInv ==
    ASSUME Inv, RunTasks
    PROVE  Inv'
  <1>1. pc = "tasks" /\ pc' = "poll" /\ UNCHANGED <<tries, gui>>
    BY DEF RunTasks
  <1>2. RingInv' /\ DecodedInv'
    <2>1. CASE keyboardTask
      BY <2>1, KeyboardTask DEF Inv, RunTasks
    <2>2. CASE ~keyboardTask
      BY <2>2 DEF RunTasks, Inv, RingInv, DecodedInv, ps2Vars, devices, driver, state
    <2> QED
      BY <2>1, <2>2
  <1>3. PhaseInv'
    BY <1>1 DEF PhaseInv
  <1>4. PointerInv' /\ PressInv'
    <2>1. tries' \in 0 .. 1
      BY <1>1 DEF Inv, PointerInv
    <2> QED
      BY <1>1, <2>1, GuiKept DEF Inv
  <1> QED
    BY <1>2, <1>3, <1>4 DEF Inv

LEMMA PollInv ==
    ASSUME Inv, PollMoved \/ PollNothing
    PROVE  Inv'
  <1>1. PICK a \in Arrivals :
            /\ ps2_process_incoming(a)
            /\ touchpad_poll(a, MouseIn(a), Poll(MouseIn(a)))
            /\ \/ MoveAbsolute(Poll(MouseIn(a))) \/ MoveRelative(Poll(MouseIn(a)))
               \/ PollNothing
    BY DEF PollMoved, PollNothing
  <1>2. RingInv' /\ DecodedInv' /\ reporting' = reporting /\ g_last_scancode' = g_last_scancode
    BY <1>1, TouchpadPolled DEF Inv
  <1>3. /\ pc \in {"poll", "poll ps2"} /\ pc' \in {"poll ps2", "draw"}
        /\ UNCHANGED <<tries, keyboardTask, ui, clicked>>
    BY DEF PollMoved, PollNothing
  <1>4. PhaseInv'
    BY <1>3 DEF PhaseInv
  <1>5. PressInv'
    BY <1>3 DEF Inv, PressInv, ui, clicked
  <1>6. PointerInv'
    <2>1. CASE PollNothing
      <3>1. UNCHANGED pointer \/ NoMove
        BY <2>1 DEF PollNothing
      <3> QED
        BY <1>3, <3>1 DEF Inv, PointerInv, pointer, saturation, NoMove, clicked
    <2>2. CASE ~PollNothing
      <3> DEFINE p == Poll(MouseIn(a))
      <3>1. p.dx \in -128 .. 127 /\ p.dy \in -128 .. 127 /\ p.buttons \subseteq 0 .. 2
        BY <1>1, Arrived, PollType DEF Inv
      <3>2. MoveAbsolute(p) \/ MoveRelative(p)
        BY <1>1, <2>2
      <3> HIDE DEF p
      <3> QED
        BY <1>2, <1>3, <3>1, <3>2, Moved DEF Inv
    <2> QED
      BY <2>1, <2>2
  <1> QED
    BY <1>2, <1>4, <1>5, <1>6 DEF Inv

LEMMA DrawInv ==
    ASSUME Inv, Draw
    PROVE  Inv'
  <1> DEFINE s == Reboot(Shutdown(Taskbar))
  <1>1. /\ pc = "draw" /\ pc' \in {"off", "click"}
        /\ pressed' = s.pressed /\ fired' = s.fired
        /\ UNCHANGED <<ps2Vars, tries, keyboardTask, pointer, clicked>>
    BY DEF Draw
  <1>2. Pressed(s)
    BY DrawAll DEF Inv
  <1> HIDE DEF s
  <1>3. PressInv'
    BY <1>1, <1>2 DEF PressInv, Pressed, clicked
  <1>4. RingInv' /\ DecodedInv'
    BY <1>1 DEF Inv, RingInv, DecodedInv, ps2Vars, devices, driver, state
  <1>5. PhaseInv'
    BY <1>1 DEF PhaseInv
  <1>6. PointerInv'
    BY <1>1 DEF Inv, PointerInv, pointer, saturation, clicked
  <1> QED
    BY <1>3, <1>4, <1>5, <1>6 DEF Inv

LEMMA ClickInv ==
    ASSUME Inv, ClickHidden \/ Click
    PROVE  Inv'
  <1>1. /\ TakeKey /\ pc' = "tasks" /\ buttons' = {} /\ UNCHANGED <<tries, saturation, pressed>>
    BY DEF ClickHidden, Click, NextFrame, ui
  <1>2. RingInv'
    BY <1>1 DEF Inv, RingInv, TakeKey, devices, driver, state
  <1>3. DecodedInv'
    BY <1>1, AbsType DEF Inv, DecodedInv, TakeKey, driver
  <1>4. PhaseInv'
    BY <1>1 DEF PhaseInv, TakeKey
  <1>5. tries' \in 0 .. 1 /\ sat_count' \in 0 .. SatPolls /\ buttons' \subseteq 0 .. 2
    BY <1>1 DEF Inv, PointerInv, saturation
  <1>6. CASE ClickHidden
    <2>1. PressInv'
      BY <1>6 DEF ClickHidden, ui, Inv, PressInv
    <2>2. PointerInv'
      BY <1>5, <1>6 DEF ClickHidden, Inv, PointerInv
    <2> QED
      BY <1>2, <1>3, <1>4, <2>1, <2>2 DEF Inv
  <1>7. CASE Click
    <2>1. /\ fired' = IF LEFT \in buttons THEN fired ELSE 0
          /\ g_buttons' = buttons
      BY <1>7 DEF Click
    <2>2. PressInv'
      BY <1>1, <2>1 DEF Inv, PressInv
    <2> DEFINE x == Clamp(cursor_x, 0, W - ICON_SIZE)
               y == Clamp(cursor_y, 0, H - ICON_SIZE)
    <2>3. cursor_x' = x /\ cursor_y' = y /\ g_cursor_x' = x /\ g_cursor_y' = y
      BY <1>7 DEF Click
    <2>4. x \in 0 .. W - ICON_SIZE /\ y \in 0 .. H - ICON_SIZE
      <3>1. cursor_x \in Int /\ cursor_y \in Int
        BY Sizes DEF Inv, PointerInv
      <3> DEFINE w == W - ICON_SIZE
                 h == H - ICON_SIZE
      <3>2. w \in Nat /\ h \in Nat
        BY Sizes
      <3> HIDE DEF w, h
      <3>3. Clamp(cursor_x, 0, w) \in 0 .. w /\ Clamp(cursor_y, 0, h) \in 0 .. h
        BY <3>1, <3>2, ClampNat
      <3> QED
        BY <3>3 DEF w, h
    <2> HIDE DEF x, y
    <2>5. x \in 0 .. W - 1 /\ y \in 0 .. H - 1
      BY <2>4, Sizes
    <2>6. g_buttons' \subseteq 0 .. 2
      BY <2>1 DEF Inv, PointerInv
    <2>7. PointerInv'
      BY <1>5, <2>3, <2>4, <2>5, <2>6 DEF PointerInv
    <2> QED
      BY <1>2, <1>3, <1>4, <2>2, <2>7 DEF Inv
  <1> QED
    BY <1>6, <1>7

LEMMA NextInv == Inv /\ [Next]_vars => Inv'
  <1> SUFFICES ASSUME Inv, [Next]_vars PROVE Inv'
    OBVIOUS
  <1>1. CASE DeviceStep
    BY <1>1, DeviceInv
  <1>2. CASE InitAsk \/ InitConfig \/ InitDefaults \/ InitReporting
    BY <1>2, StartInv
  <1>3. CASE InitFails
    BY <1>3, FailInv
  <1>4. CASE RunTasks
    BY <1>4, TasksInv
  <1>5. CASE PollMoved \/ PollNothing
    BY <1>5, PollInv
  <1>6. CASE Draw
    BY <1>6, DrawInv
  <1>7. CASE ClickHidden \/ Click
    BY <1>7, ClickInv
  <1>8. CASE UNCHANGED vars
    <2>1. UNCHANGED <<ps2Vars, gui, pc, tries>>
      BY <1>8 DEF vars, gui
    <2>2. RingInv' /\ DecodedInv'
      BY <2>1 DEF Inv, RingInv, DecodedInv, ps2Vars, devices, driver, state
    <2>3. PhaseInv'
      BY <2>1 DEF Inv, PhaseInv, ps2Vars, devices, state
    <2>4. PointerInv' /\ PressInv'
      <3>1. tries' \in 0 .. 1
        BY <2>1 DEF Inv, PointerInv
      <3> QED
        BY <2>1, <3>1, GuiKept DEF Inv
    <2> QED
      BY <2>2, <2>3, <2>4 DEF Inv
  <1> QED
    BY <1>1, <1>2, <1>3, <1>4, <1>5, <1>6, <1>7, <1>8 DEF Next, KernelStep

-----------------------------------------------------------------------------
(* The invariant is an invariant.                                           *)
THEOREM Invariance == Spec => []Inv
  BY InitInv, NextInv, PTL DEF Spec

(* The pointer stays on the screen and every ring index in its buffer, for  *)
(* all sizes and whatever bytes the devices send, even packets that are     *)
(* decoded out of step (ps2.c:82-105, graphics_init.c's pointer update).    *)
THEOREM TypeCorrect == Spec => []TypeOK
  <1>1. Inv => TypeOK
    <2> SUFFICES ASSUME Inv PROVE TypeOK
      OBVIOUS
    <2>1. \A r \in Ring : /\ r.buf \in [0 .. PS2_BUF_SIZE - 1 -> Bytes]
                          /\ {r.head, r.tail} \subseteq 0 .. PS2_BUF_SIZE - 1
      BY RingFields DEF N
    <2>2. mouse \in Ring /\ kbd \in Ring
      BY DEF Inv, RingInv
    <2>3. Ps2TypeOK
      BY <2>1, <2>2 DEF Inv, DecodedInv, Ps2TypeOK
    <2> QED
      BY <2>3 DEF Inv, PointerInv, TypeOK
  <1> QED
    BY <1>1, Invariance, PTL

(* For a ring of every size and every pattern of arrivals: as long as no    *)
(* byte of the mouse is lost and no late answer gets in, every packet       *)
(* decoded is one that the mouse sent (ps2.c:178-219).                      *)
THEOREM FramingKept == Spec => []InStep
  <1>1. Inv => InStep
    BY DEF Inv, RingInv, Framing, Aligned, InStep
  <1> QED
    BY <1>1, Invariance, PTL

(* For every screen, menu and pointer path: as long as frame after frame    *)
(* reports the left button down, at most one button of the screen acts      *)
(* (button.c:80-96).                                                        *)
THEOREM OneButton == Spec => []OncePerStreak
  <1>1. Inv => OncePerStreak
    BY DEF Inv, PressInv, OncePerStreak
  <1> QED
    BY <1>1, Invariance, PTL

(* A key that was taken from the ring is seen by the GUI before another     *)
(* takes its place (keyboard.c:41-72).                                      *)
THEOREM KeysSeen == Spec => KeyNotOverwritten
  <1>1. Inv /\ [Next]_vars
          => [g_last_scancode # 0 => g_last_scancode' \in {0, g_last_scancode}]_vars
    <2> SUFFICES ASSUME Inv, Next, g_last_scancode # 0
                 PROVE  g_last_scancode' \in {0, g_last_scancode}
      OBVIOUS
    <2>1. pc \in {"poll", "poll ps2", "draw", "click", "off"}
      BY DEF Inv, PhaseInv
    <2>2. CASE PollMoved \/ PollNothing
      BY <2>2 DEF PollMoved, PollNothing, touchpad_poll
    <2>3. CASE Draw
      BY <2>3 DEF Draw, ps2Vars
    <2>4. CASE ClickHidden \/ Click
      BY <2>4 DEF ClickHidden, Click, TakeKey
    <2> QED
      BY <2>1, <2>2, <2>3, <2>4 DEF Next, KernelStep, DeviceStep, InitAsk, InitConfig,
         InitFails, InitDefaults, InitReporting, RunTasks
  <1> QED
    BY <1>1, Invariance, PTL DEF Spec, KeyNotOverwritten
=============================================================================
