--------------------------- MODULE IoUringProofs ----------------------------
(***************************************************************************)
(* What IoUring promises for every size of the two rings, every modulus of *)
(* the counters, every kind of ring and kernel, and with system calls that *)
(* fail or are cut short: the counters and arrays are sound, they keep the *)
(* three queues of UringQueues, and the waits return what is documented.   *)
(*                                                                         *)
(* First what the counters and arrays come to -- the arithmetic behind the *)
(* head, tail and mask of liburing.h; then what the parts of IoUring's     *)
(* steps do to the two rings, seen as queues: entries prepared and taken,  *)
(* completions posted, moved from the kernel's own list into the ring and  *)
(* given back; then the invariant, step by step.                           *)
(***************************************************************************)
EXTENDS IoUring, SequenceTheorems, FiniteSetTheorems, TLAPS

(***************************************************************************)
(* Remainders.                                                             *)
(***************************************************************************)

LEMMA DivMod ==
  ASSUME NEW x \in Int, NEW w \in Nat \ {0}
  PROVE  /\ x % w \in 0 .. w - 1
         /\ x \div w \in Int
         /\ x = w * (x \div w) + (x % w)
OBVIOUS

LEMMA Quotient ==
  ASSUME NEW x \in Int, NEW w \in Nat \ {0}
  PROVE  \E q \in Int : x = w * q + (x % w)
BY DivMod

LEMMA Remainder ==
  ASSUME NEW w \in Nat \ {0}, NEW q \in Int, NEW r \in 0 .. w - 1
  PROVE  (w * q + r) % w = r
OBVIOUS

LEMMA Within ==
  ASSUME NEW w \in Nat \ {0}, NEW x \in 0 .. w - 1
  PROVE  x % w = x
OBVIOUS

LEMMA Multiples ==
  ASSUME NEW w \in Int, NEW q \in Int, NEW p \in Int
  PROVE  /\ w * q \in Int /\ w * p \in Int
         /\ q - p \in Int /\ w * (q - p) = w * q - w * p
         /\ q + p \in Int /\ w * (q + p) = w * q + w * p
         /\ -q \in Int /\ w * (-q) = -(w * q)
OBVIOUS

(* A remainder is known from any multiple below. *)
LEMMA Congruent ==
  ASSUME NEW w \in Nat \ {0}, NEW q \in Int, NEW r \in 0 .. w - 1, NEW x \in Int,
         x = w * q + r
  PROVE  x % w = r
BY Remainder

(***************************************************************************)
(* Counters that wrap around.                                              *)
(***************************************************************************)

LEMMA WrapPositive == Wrap \in Nat \ {0}
BY IoUringAssumption

LEMMA AdvanceType ==
  ASSUME NEW c \in Int, NEW n \in Int
  PROVE  Advance(c, n) \in Int
BY WrapPositive, DivMod DEF Advance

LEMMA DistanceType ==
  ASSUME NEW c \in Int, NEW t \in Int
  PROVE  Distance(c, t) \in Nat /\ Distance(c, t) < Wrap
BY WrapPositive, DivMod DEF Distance

LEMMA DistanceGrows ==
  ASSUME NEW c \in Int, NEW t \in Int, NEW n \in Nat, Distance(c, t) + n < Wrap
  PROVE  Distance(c, Advance(t, n)) = Distance(c, t) + n
<1> DEFINE w == Wrap
           d == Distance(c, t)
           a == Advance(t, n)
           x == t - c
           y == t + n
<1>0. w \in Nat \ {0} /\ d \in Nat /\ d < w /\ a \in Int
  BY WrapPositive, DistanceType, AdvanceType
<1>1. /\ w \in Nat \ {0} /\ d \in Nat /\ d + n \in 0 .. w - 1 /\ a \in Int
      /\ x \in Int /\ y \in Int
  BY <1>0
<1>2. x = t - c /\ y = t + n /\ d = x % w /\ a = y % w
  BY DEF Distance, Advance
<1> HIDE DEF w, d, a, x, y
<1>3. PICK q \in Int : x = w * q + d
  BY <1>1, <1>2, Quotient
<1>4. PICK p \in Int : y = w * p + a
  BY <1>1, <1>2, Quotient
<1> DEFINE xs == w * q
           ys == w * p
           zs == w * (q - p)
<1>5. /\ q - p \in Int /\ xs \in Int /\ ys \in Int /\ zs \in Int
      /\ zs = xs - ys /\ x = xs + d /\ y = ys + a
  BY <1>1, <1>3, <1>4, Multiples
<1> HIDE DEF xs, ys, zs
<1> DEFINE v == a - c
           r == d + n
<1>6. v = zs + r /\ v \in Int /\ r \in 0 .. w - 1
  BY <1>1, <1>2, <1>5
<1> HIDE DEF v, r
<1>7. v % w = r
  BY <1>1, <1>5, <1>6, Congruent DEF zs
<1> QED
  BY <1>7 DEF w, d, a, v, r, Distance

LEMMA DistanceShrinks ==
  ASSUME NEW c \in Int, NEW t \in Int, NEW n \in Nat, n <= Distance(c, t)
  PROVE  Distance(Advance(c, n), t) = Distance(c, t) - n
<1> DEFINE w == Wrap
           d == Distance(c, t)
           a == Advance(c, n)
           x == t - c
           y == c + n
<1>0. w \in Nat \ {0} /\ d \in Nat /\ d < w /\ a \in Int
  BY WrapPositive, DistanceType, AdvanceType
<1>1. /\ w \in Nat \ {0} /\ d \in Nat /\ d - n \in 0 .. w - 1 /\ a \in Int
      /\ x \in Int /\ y \in Int
  BY <1>0
<1>2. x = t - c /\ y = c + n /\ d = x % w /\ a = y % w
  BY DEF Distance, Advance
<1> HIDE DEF w, d, a, x, y
<1>3. PICK q \in Int : x = w * q + d
  BY <1>1, <1>2, Quotient
<1>4. PICK p \in Int : y = w * p + a
  BY <1>1, <1>2, Quotient
<1> DEFINE xs == w * q
           ys == w * p
           zs == w * (q + p)
<1>5. /\ q + p \in Int /\ xs \in Int /\ ys \in Int /\ zs \in Int
      /\ zs = xs + ys /\ x = xs + d /\ y = ys + a
  BY <1>1, <1>3, <1>4, Multiples
<1> HIDE DEF xs, ys, zs
<1> DEFINE v == t - a
           r == d - n
<1>6. v = zs + r /\ v \in Int /\ r \in 0 .. w - 1
  BY <1>1, <1>2, <1>5
<1> HIDE DEF v, r
<1>7. v % w = r
  BY <1>1, <1>5, <1>6, Congruent DEF zs
<1> QED
  BY <1>7 DEF w, d, a, v, r, Distance

(***************************************************************************)
(* Slots of an array of e entries, e dividing the modulus of the counters. *)
(***************************************************************************)

Divides(e) == e + 1 < Wrap /\ Wrap % e = 0

LEMMA RingsDivide ==
  /\ SqEntries \in Nat \ {0} /\ Divides(SqEntries)
  /\ CqEntries \in Nat \ {0} /\ Divides(CqEntries)
BY IoUringAssumption DEF Divides

LEMMA SlotType ==
  ASSUME NEW e \in Nat \ {0}, Divides(e), NEW c \in Int
  PROVE  c % e \in 0 .. e - 1
BY DivMod DEF Divides

(* Counters that are the same modulo Wrap name the same slot. *)
LEMMA SameSlot ==
  ASSUME NEW e \in Nat \ {0}, Divides(e), NEW x \in Int, NEW y \in Int, NEW p \in Int,
         x = Wrap * p + y
  PROVE  x % e = y % e
<1> DEFINE w == Wrap
           r == x % e
           k == w \div e
<1>1. w \in Nat \ {0} /\ e \in Nat \ {0} /\ w % e = 0
  BY WrapPositive DEF Divides
<1>2. k \in Int /\ w = e * k
  BY <1>1, DivMod
<1>3. r \in 0 .. e - 1 /\ r = x % e /\ x = w * p + y
  BY <1>1, DivMod
<1> HIDE DEF w, k, r
<1>4. PICK q \in Int : x = e * q + r
  BY <1>1, <1>3, Quotient
<1>5. k * p \in Int /\ w * p = e * (k * p)
  BY <1>1, <1>2
<1> DEFINE m == k * p
<1>6. m \in Int /\ w * p = e * m
  BY <1>5
<1> HIDE DEF m
<1> DEFINE xs == e * q
           ms == e * m
           ys == e * (q - m)
<1>7. /\ q - m \in Int /\ xs \in Int /\ ms \in Int /\ ys \in Int
      /\ ys = xs - ms /\ x = xs + r /\ x = ms + y
  BY <1>1, <1>3, <1>4, <1>6, Multiples
<1> HIDE DEF xs, ms, ys
<1> DEFINE n == q - m
<1>a. r \in Int
  BY <1>3
<1>8. y = ys + r
  BY <1>7, <1>a
<1>9. ys = e * n /\ n \in Int
  BY <1>7 DEF ys
<1> HIDE DEF n
<1>10. y = e * n + r
  BY <1>8, <1>9
<1>11. e \in Nat \ {0} /\ r \in 0 .. e - 1
  BY <1>1, <1>3
<1>12. y % e = r
  BY <1>9, <1>10, <1>11, Congruent
<1> QED
  BY <1>12 DEF r

(* The slot of an advanced counter. *)
LEMMA SlotAdvanced ==
  ASSUME NEW e \in Nat \ {0}, Divides(e), NEW c \in Int, NEW n \in Int, NEW j \in Int
  PROVE  (Advance(c, n) + j) % e = (c + n + j) % e
<1> DEFINE a == Advance(c, n)
           y == c + n
<1>1. a \in Int /\ y \in Int /\ y = c + n /\ a = y % Wrap /\ Wrap \in Nat \ {0}
  BY AdvanceType, WrapPositive DEF Advance
<1> HIDE DEF a, y
<1>2. PICK p \in Int : y = Wrap * p + a
  BY <1>1, Quotient
<1> DEFINE v == c + n + j
           u == a + j
           xs == Wrap * p
<1>3. xs \in Int /\ y = xs + a /\ v = y + j /\ u = a + j /\ v \in Int /\ u \in Int
  BY <1>1, <1>2, Multiples
<1> HIDE DEF v, u, xs
<1>4. v = xs + u
  BY <1>1, <1>3
<1>5. v % e = u % e
  BY <1>3, <1>4, SameSlot DEF xs
<1> QED
  BY <1>5 DEF a, u, v

(* The slot of a tail, counted from its head. *)
LEMMA SlotOfTail ==
  ASSUME NEW e \in Nat \ {0}, Divides(e), NEW c \in Int, NEW t \in Int, NEW j \in Int
  PROVE  (c + Distance(c, t) + j) % e = (t + j) % e
<1> DEFINE d == Distance(c, t)
           y == t - c
<1>1. d \in Int /\ y \in Int /\ y = t - c /\ d = y % Wrap /\ Wrap \in Nat \ {0}
  BY DistanceType, WrapPositive DEF Distance
<1> HIDE DEF d, y
<1>2. PICK p \in Int : y = Wrap * p + d
  BY <1>1, Quotient
<1> DEFINE v == t + j
           u == c + d + j
           xs == Wrap * p
<1>a. d \in Int /\ y \in Int /\ y = t - c /\ Wrap \in Int
  BY <1>1
<1>b. xs \in Int
  BY <1>a
<1>3. xs \in Int /\ y = xs + d /\ v = y + c + j /\ u = c + d + j /\ v \in Int /\ u \in Int
  BY <1>2, <1>a, <1>b
<1> HIDE DEF v, u, xs
<1>4. v = xs + u
  BY <1>1, <1>3
<1>5. v % e = u % e
  BY <1>3, <1>4, SameSlot DEF xs
<1> QED
  BY <1>5 DEF d, u, v

(* How far a slot is from a counter. *)
LEMMA SlotDistance ==
  ASSUME NEW e \in Nat \ {0}, Divides(e), NEW c \in Int, NEW j \in 0 .. e - 1
  PROVE  (((c + j) % e) - c) % e = j
<1> DEFINE y == c + j
           s == y % e
<1>1. e \in Nat \ {0} /\ y \in Int /\ y = c + j /\ s = y % e /\ j \in Int
  BY DEF Divides
<1>2. s \in Int
  BY <1>1, DivMod
<1> HIDE DEF s, y
<1>3. PICK q \in Int : y = e * q + s
  BY <1>1, Quotient
<1> DEFINE ys == e * q
           zs == e * (-q)
<1>4. -q \in Int /\ ys \in Int /\ zs \in Int /\ zs = -ys /\ y = ys + s
  BY <1>1, <1>3, Multiples
<1> HIDE DEF ys, zs
<1> DEFINE v == s - c
<1>5. v = zs + j /\ v \in Int
  BY <1>1, <1>2, <1>4
<1> HIDE DEF v
<1>6. v % e = j
  <2> DEFINE p == -q
  <2>1. v = e * p + j
    BY <1>5 DEF zs
  <2>4. p \in Int
    BY <1>4
  <2>2. j \in 0 .. e - 1
    OBVIOUS
  <2> HIDE DEF p
  <2>3. (e * p + j) % e = j
    BY ONLY <2>2, <2>4, e \in Nat \ {0}, Remainder
  <2> QED
    BY ONLY <2>1, <2>3
<1> QED
  BY <1>6 DEF s, y, v

LEMMA SlotsDiffer ==
  ASSUME NEW e \in Nat \ {0}, Divides(e), NEW c \in Int, NEW i \in 0 .. e - 1, NEW j \in 0 .. e - 1,
         (c + i) % e = (c + j) % e
  PROVE  i = j
<1>1. (((c + i) % e) - c) % e = i
  BY SlotDistance
<1>2. (((c + j) % e) - c) % e = j
  BY SlotDistance
<1> QED
  BY <1>1, <1>2

(***************************************************************************)
(* The entries of a ring as a sequence.                                    *)
(***************************************************************************)

Arrays(S, e) == [0 .. e - 1 -> S]

(* The n entries from counter c on, in order. *)
SliceFrom(u, S, array, e, c, n) ==
  /\ u \in Seq(S) /\ Len(u) = n
  /\ \A i \in 1 .. n : u[i] = array[(c + i - 1) % e]

LEMMA SliceType ==
  ASSUME NEW S, NEW e \in Nat \ {0}, Divides(e), NEW array \in Arrays(S, e), NEW c \in Int, NEW n \in Nat
  PROVE  SliceFrom(Slice(array, e, c, n), S, array, e, c, n)
<1>1. ASSUME NEW i \in 1 .. n
      PROVE  array[(c + i - 1) % e] \in S
  <2>1. c + i - 1 \in Int
    OBVIOUS
  <2>2. (c + i - 1) % e \in 0 .. e - 1
    BY <2>1, SlotType
  <2> QED
    BY <2>2 DEF Arrays
<1> QED
  BY <1>1 DEF Slice, SliceFrom

(* The first entries of a slice are a slice. *)
LEMMA SlicePrefix ==
  ASSUME NEW S, NEW e \in Nat \ {0}, Divides(e), NEW array \in Arrays(S, e), NEW c \in Int,
         NEW n \in Nat, NEW m \in 0 .. n
  PROVE  SubSeq(Slice(array, e, c, n), 1, m) = Slice(array, e, c, m)
<1> DEFINE s == Slice(array, e, c, n)
           t == Slice(array, e, c, m)
<1>0. m \in Nat
  OBVIOUS
<1>a. SliceFrom(s, S, array, e, c, n)
  BY SliceType
<1>b. SliceFrom(t, S, array, e, c, m)
  BY <1>0, SliceType
<1>1. /\ s \in Seq(S) /\ Len(s) = n /\ m \in Nat
      /\ \A i \in 1 .. n : s[i] = array[(c + i - 1) % e]
  BY <1>0, <1>a DEF SliceFrom
<1>2. /\ t \in Seq(S) /\ Len(t) = m
      /\ \A i \in 1 .. m : t[i] = array[(c + i - 1) % e]
  BY <1>b DEF SliceFrom
<1> HIDE DEF s, t
<1>3. \A i \in 1 .. m : s[i] \in S
  BY <1>1, ElementOfSeq
<1>4. /\ SubSeq(s, 1, m) \in Seq(S) /\ Len(SubSeq(s, 1, m)) = m
      /\ \A i \in 1 .. m : SubSeq(s, 1, m)[i] = s[i]
  BY <1>1, <1>3, SubSeqProperties
<1>5. ASSUME NEW i \in 1 .. m
      PROVE  SubSeq(s, 1, m)[i] = t[i]
  <2>1. i \in 1 .. n
    BY <1>0
  <2>2. s[i] = array[(c + i - 1) % e]
    BY <1>1, <2>1
  <2>3. t[i] = array[(c + i - 1) % e]
    BY <1>2
  <2> QED
    BY <1>4, <2>2, <2>3
<1>6. SubSeq(s, 1, m) = t
  BY <1>2, <1>4, <1>5, SeqEqual
<1> QED
  BY <1>6 DEF s, t

(* Slices agree where their arrays do. *)
Agree(e, array, other, c, n) == \A i \in 0 .. n - 1 : array[(c + i) % e] = other[(c + i) % e]

LEMMA SliceSame ==
  ASSUME NEW S, NEW e \in Nat \ {0}, Divides(e), NEW array \in Arrays(S, e), NEW other \in Arrays(S, e),
         NEW c \in Int, NEW n \in Nat, Agree(e, array, other, c, n)
  PROVE  Slice(array, e, c, n) = Slice(other, e, c, n)
<1>1. ASSUME NEW i \in 1 .. n
      PROVE  array[(c + i - 1) % e] = other[(c + i - 1) % e]
  <2>1. i - 1 \in 0 .. n - 1 /\ c + i - 1 = c + (i - 1)
    OBVIOUS
  <2> QED
    BY <2>1 DEF Agree
<1> QED
  BY <1>1 DEF Slice

(* A counter may be advanced without its wrapping. *)
LEMMA SliceAdvanced ==
  ASSUME NEW S, NEW e \in Nat \ {0}, Divides(e), NEW array \in Arrays(S, e), NEW c \in Int,
         NEW m \in Nat, NEW n \in Nat
  PROVE  Slice(array, e, Advance(c, m), n) = Slice(array, e, c + m, n)
<1>1. ASSUME NEW i \in 1 .. n
      PROVE  (Advance(c, m) + i - 1) % e = (c + m + i - 1) % e
  <2> DEFINE j == i - 1
  <2>1. /\ j \in Int /\ Advance(c, m) \in Int
    BY AdvanceType
  <2>2. (Advance(c, m) + j) % e = (c + m + j) % e
    BY <2>1, SlotAdvanced
  <2>3. Advance(c, m) + i - 1 = Advance(c, m) + j /\ c + m + i - 1 = c + m + j
    BY <2>1
  <2> QED
    BY <2>2, <2>3
<1> QED
  BY <1>1 DEF Slice

(* What follows the first m entries. *)
SuffixFollows(e, array, c, n, m) ==
  SubSeq(Slice(array, e, c, n), m + 1, n) = Slice(array, e, c + m, n - m)

LEMMA SliceSuffix ==
  ASSUME NEW S, NEW e \in Nat \ {0}, Divides(e), NEW array \in Arrays(S, e), NEW c \in Int,
         NEW n \in Nat, NEW m \in 0 .. n
  PROVE  SuffixFollows(e, array, c, n, m)
<1> DEFINE s == Slice(array, e, c, n)
           t == Slice(array, e, c + m, n - m)
           u == SubSeq(s, m + 1, n)
<1>0. c + m \in Int /\ n - m \in Nat /\ m \in Nat
  OBVIOUS
<1>b. SliceFrom(s, S, array, e, c, n)
  BY SliceType
<1>c. SliceFrom(t, S, array, e, c + m, n - m)
  <2> DEFINE d == c + m
             k == n - m
  <2>1. d \in Int /\ k \in Nat
    BY <1>0
  <2> HIDE DEF d, k
  <2>2. SliceFrom(Slice(array, e, d, k), S, array, e, d, k)
    BY <2>1, SliceType
  <2> QED
    BY <2>2 DEF d, k
<1>1. /\ s \in Seq(S) /\ Len(s) = n
      /\ \A i \in 1 .. n : s[i] = array[(c + i - 1) % e]
  BY <1>b DEF SliceFrom
<1>2. /\ t \in Seq(S) /\ Len(t) = n - m
      /\ \A i \in 1 .. n - m : t[i] = array[(c + m + i - 1) % e]
  BY <1>c DEF SliceFrom
<1> HIDE DEF s, t
<1>3. \A i \in m + 1 .. n : s[i] \in S
  BY <1>0, <1>1, ElementOfSeq
<1>a. /\ u \in Seq(S) /\ Len(u) = IF m + 1 <= n THEN n - (m + 1) + 1 ELSE 0
      /\ \A i \in 1 .. n - (m + 1) + 1 : u[i] = s[m + 1 + i - 1]
  BY <1>0, <1>3, SubSeqProperties
<1>4. /\ u \in Seq(S) /\ Len(u) = n - m
      /\ \A i \in 1 .. n - m : u[i] = s[m + i]
  BY <1>0, <1>a
<1> HIDE DEF u
<1>5. ASSUME NEW i \in 1 .. n - m
      PROVE  u[i] = t[i]
  <2>1. m + i \in 1 .. n /\ c + (m + i) - 1 = c + m + i - 1
    BY <1>0
  <2> QED
    <3>1. u[i] = s[m + i]
      BY <1>4
    <3>2. s[m + i] = array[(c + (m + i) - 1) % e]
      BY <1>1, <2>1
    <3>3. t[i] = array[(c + m + i - 1) % e]
      BY <1>2
    <3> QED
      BY <2>1, <3>1, <3>2, <3>3
<1>6. u = t
  BY <1>2, <1>4, <1>5, SeqEqual
<1> QED
  BY <1>6 DEF s, t, u, SuffixFollows

LEMMA MarkType ==
  ASSUME NEW S, NEW e \in Nat \ {0}, Divides(e), NEW array \in Arrays(S, e), NEW stale \in S,
         NEW c \in Int, NEW m \in Nat
  PROVE  Mark(stale, array, e, c, m) \in Arrays(S, e)
BY DEF Mark, Arrays

(* Marking the first m entries leaves those that follow. *)
MarkDrops(S, e, array, stale, c, n, m) ==
  /\ Mark(stale, array, e, c, m) \in Arrays(S, e)
  /\ Slice(Mark(stale, array, e, c, m), e, Advance(c, m), n - m)
       = SubSeq(Slice(array, e, c, n), m + 1, n)

LEMMA DropMarked ==
  ASSUME NEW S, NEW e \in Nat \ {0}, Divides(e), NEW array \in Arrays(S, e), NEW stale \in S,
         NEW c \in Int, NEW n \in 0 .. e, NEW m \in 0 .. n
  PROVE  MarkDrops(S, e, array, stale, c, n, m)
<1> DEFINE marked == Mark(stale, array, e, c, m)
           h == c + m
           k == n - m
<1>1. /\ marked \in Arrays(S, e) /\ h \in Int /\ k \in Nat /\ m \in Nat /\ n \in Nat
      /\ e \in Nat
  BY MarkType DEF Divides
<1>2. ASSUME NEW i \in 0 .. k - 1
      PROVE  marked[(h + i) % e] = array[(h + i) % e]
  <2> DEFINE j == m + i
             slot == (c + j) % e
  <2>1. j \in 0 .. e - 1 /\ c + j \in Int /\ h + i = c + j /\ j >= m
    BY <1>1
  <2>2. (slot - c) % e = j /\ slot \in 0 .. e - 1
    BY <2>1, SlotDistance, SlotType
  <2> HIDE DEF j, slot
  <2>3. marked[slot] = array[slot]
    BY <1>1, <2>1, <2>2 DEF Mark
  <2> QED
    BY <2>1, <2>3 DEF slot
<1> HIDE DEF marked, h, k
<1>3. Slice(marked, e, h, k) = Slice(array, e, h, k)
  <2>1. Agree(e, marked, array, h, k)
    BY <1>2 DEF Agree
  <2>2. array \in Arrays(S, e)
    OBVIOUS
  <2> QED
    BY <1>1, <2>1, <2>2, SliceSame
<1>4. Slice(marked, e, Advance(c, m), k) = Slice(marked, e, c + m, k)
  BY <1>1, SliceAdvanced
<1>5. SubSeq(Slice(array, e, c, n), m + 1, n) = Slice(array, e, c + m, n - m)
  <2>1. n \in Nat
    BY <1>1
  <2> QED
    <3>1. SuffixFollows(e, array, c, n, m)
      BY ONLY SliceSuffix, <2>1, e \in Nat \ {0}, Divides(e), array \in Arrays(S, e), c \in Int,
         m \in 0 .. n
    <3> QED
      BY <3>1 DEF SuffixFollows
<1> QED
  BY <1>1, <1>3, <1>4, <1>5 DEF MarkDrops, marked, h, k

(* An entry put at the tail of a ring that has room comes last. *)
PutAppends(S, e, array, x, c, t) ==
  LET after == [array EXCEPT ![t % e] = x]
  IN  /\ after \in Arrays(S, e)
      /\ Slice(after, e, c, Distance(c, t) + 1) = Append(Slice(array, e, c, Distance(c, t)), x)

LEMMA SlicePut ==
  ASSUME NEW S, NEW e \in Nat \ {0}, Divides(e), NEW array \in Arrays(S, e), NEW x \in S,
         NEW c \in Int, NEW t \in Int, Distance(c, t) < e
  PROVE  PutAppends(S, e, array, x, c, t)
<1> DEFINE after == [array EXCEPT ![t % e] = x]
           n == Distance(c, t)
           s == Slice(array, e, c, n)
           u == Slice(after, e, c, n + 1)
           slot == (c + n) % e
<1>a. n \in Nat /\ e \in Nat /\ n < e
  BY DistanceType DEF Divides
<1> HIDE DEF n
<1>1. n \in 0 .. e - 1 /\ n \in Nat /\ n + 1 \in Nat /\ c + n \in Int /\ e \in Nat
  BY <1>a
<1>2. slot = t % e /\ slot \in 0 .. e - 1
  <2>1. (c + n + 0) % e = (t + 0) % e
    BY SlotOfTail DEF n
  <2>2. c + n + 0 = c + n /\ t + 0 = t
    BY <1>1
  <2> QED
    BY <1>1, <2>1, <2>2, SlotType
<1>3. after \in Arrays(S, e) /\ after = [array EXCEPT ![slot] = x]
  BY <1>2 DEF Arrays
<1>4. /\ s \in Seq(S) /\ Len(s) = n
      /\ \A i \in 1 .. n : s[i] = array[(c + i - 1) % e]
  <2>1. SliceFrom(s, S, array, e, c, n)
    BY <1>a, SliceType
  <2> QED
    BY <2>1 DEF SliceFrom
<1> HIDE DEF after
<1>5. /\ u \in Seq(S) /\ Len(u) = n + 1
      /\ \A i \in 1 .. n + 1 : u[i] = after[(c + i - 1) % e]
  <2> DEFINE k == n + 1
  <2>1. k \in Nat /\ after \in Arrays(S, e)
    BY <1>1, <1>3
  <2> HIDE DEF k
  <2>2. SliceFrom(Slice(after, e, c, k), S, after, e, c, k)
    BY <2>1, SliceType
  <2>3. SliceFrom(u, S, after, e, c, n + 1)
    BY <2>2 DEF k
  <2> QED
    BY <2>3 DEF SliceFrom
<1> HIDE DEF s, u, slot
<1>6. /\ Append(s, x) \in Seq(S) /\ Len(Append(s, x)) = n + 1
      /\ \A i \in 1 .. n : Append(s, x)[i] = s[i]
      /\ Append(s, x)[n + 1] = x
  BY <1>1, <1>4, AppendProperties
<1>7. ASSUME NEW i \in 1 .. n
      PROVE  u[i] = s[i]
  <2> DEFINE j == i - 1
             other == (c + j) % e
  <2>1. j \in 0 .. e - 1 /\ j # n /\ c + j \in Int /\ c + i - 1 = c + j /\ i \in 1 .. n + 1
    BY <1>1
  <2>2. other \in 0 .. e - 1
    BY <2>1, SlotType
  <2>3. other # slot
    BY <1>1, <2>1, SlotsDiffer DEF slot
  <2> HIDE DEF j, other
  <2>4. after[other] = array[other]
    BY <1>3, <2>2, <2>3 DEF Arrays
  <2> QED
    BY <1>4, <1>5, <2>1, <2>4 DEF other
<1>8. u[n + 1] = x
  <2>1. c + (n + 1) - 1 = c + n /\ n + 1 \in 1 .. n + 1
    BY <1>1
  <2>2. u[n + 1] = after[slot]
    BY <1>5, <2>1 DEF slot
  <2> QED
    BY <1>2, <1>3, <2>2 DEF Arrays
<1>9. \A i \in 1 .. n + 1 : u[i] = Append(s, x)[i]
  BY <1>1, <1>6, <1>7, <1>8
<1>10. u = Append(s, x)
  BY <1>5, <1>6, <1>9, SeqEqual
<1> QED
  BY <1>3, <1>10 DEF PutAppends, u, s, n, after

(* A slot is the same after once around the array. *)
LEMMA SlotAround ==
  ASSUME NEW e \in Nat \ {0}, NEW x \in Int
  PROVE  (x + e) % e = x % e
<1> DEFINE r == x % e
           y == x + e
<1>1. r \in 0 .. e - 1
  BY DivMod
<1>2. PICK q \in Int : x = e * q + r
  BY Quotient
<1> DEFINE k == q + 1
           xs == e * q
           ys == e * k
<1>3. k \in Int /\ xs \in Int /\ ys \in Int /\ ys = xs + e
  OBVIOUS
<1>4. y \in Int /\ y = x + e /\ x = xs + r /\ r \in Int
  BY <1>1, <1>2
<1> HIDE DEF r, y, k, xs, ys
<1>5. y = ys + r
  BY <1>3, <1>4
<1>6. y = e * k + r
  BY <1>5 DEF ys
<1>7. k \in Int /\ y \in Int /\ r \in 0 .. e - 1
  BY <1>1, <1>3, <1>4
<1>8. y % e = r
  BY <1>6, <1>7, Congruent
<1> QED
  BY <1>8 DEF y, r

(* Writing m elements behind the tail, as far as there is room, appends    *)
(* them.                                                                   *)
Written(array, e, t, m, values) ==
  [slot \in 0 .. e - 1 |-> LET n == ((slot - t) % e) + 1
                            IN  IF n <= m THEN values[n] ELSE array[slot]]

LEMMA WrittenSlots ==
  ASSUME NEW S, NEW e \in Nat \ {0}, Divides(e), NEW array \in Arrays(S, e),
         NEW c \in Int, NEW t \in Int, Distance(c, t) <= e,
         NEW values \in Seq(S), NEW m \in Nat, m <= Len(values), m <= e - Distance(c, t)
  PROVE  LET after == Written(array, e, t, m, values)
             r     == Distance(c, t)
         IN  /\ after \in Arrays(S, e)
             /\ \A i \in 0 .. r - 1 : after[(c + i) % e] = array[(c + i) % e]
             /\ \A i \in 0 .. m - 1 : after[(c + r + i) % e] = values[i + 1]
<1> DEFINE after == Written(array, e, t, m, values)
           r == Distance(c, t)
<1>1. r \in Nat /\ Len(values) \in Nat /\ r <= e /\ m <= e - r /\ e \in Nat
  BY DistanceType, LenProperties
<1>2. ASSUME NEW slot \in 0 .. e - 1
      PROVE  /\ (slot - t) % e \in 0 .. e - 1
             /\ after[slot] = IF ((slot - t) % e) + 1 <= m THEN values[((slot - t) % e) + 1]
                                                        ELSE array[slot]
  <2>1. slot - t \in Int
    OBVIOUS
  <2>2. (slot - t) % e \in 0 .. e - 1
    BY <2>1, SlotType
  <2> QED
    BY <2>2 DEF Written
<1>3. after \in Arrays(S, e)
  <2>1. ASSUME NEW slot \in 0 .. e - 1 PROVE after[slot] \in S
    <3> DEFINE n == ((slot - t) % e) + 1
    <3>1. n \in Nat /\ 1 <= n
      BY <1>2
    <3> HIDE DEF n
    <3>2. n <= m => n \in 1 .. Len(values)
      BY <1>1, <3>1
    <3>3. n <= m => values[n] \in S
      BY <3>2, ElementOfSeq
    <3> QED
      BY <1>2, <3>3 DEF n, Arrays
  <2> QED
    BY <2>1 DEF Written, Arrays
<1> HIDE DEF after, r
<1>4. ASSUME NEW i \in 0 .. r - 1
      PROVE  after[(c + i) % e] = array[(c + i) % e]
  <2> DEFINE j == i - r
             k == j + e
             slot == (c + i) % e
             x == t + j
  <2>1. /\ j \in Int /\ k \in 0 .. e - 1 /\ x \in Int /\ c + i \in Int
        /\ c + r + j = c + i /\ x + e = t + k /\ k + 1 > m /\ x = t + j
    BY <1>1
  <2>2. slot \in 0 .. e - 1
    BY <2>1, SlotType
  <2>3. (c + r + j) % e = (t + j) % e
    <3> HIDE DEF j
    <3>1. (c + Distance(c, t) + j) % e = (t + j) % e
      BY <2>1, SlotOfTail
    <3> QED
      BY <3>1 DEF r
  <2> HIDE DEF j, k, slot, x
  <2>4. (x + e) % e = x % e
    BY <2>1, SlotAround
  <2>5. slot = (t + k) % e
    BY <2>1, <2>3, <2>4 DEF slot
  <2>6. (((t + k) % e) - t) % e = k
    BY <2>1, SlotDistance
  <2>7. (slot - t) % e = k
    BY <2>5, <2>6
  <2>8. after[slot] = array[slot]
    BY <1>2, <2>1, <2>2, <2>7
  <2> QED
    BY <2>8 DEF slot
<1>5. ASSUME NEW i \in 0 .. m - 1
      PROVE  after[(c + r + i) % e] = values[i + 1]
  <2> DEFINE slot == (c + r + i) % e
  <2>1. i \in 0 .. e - 1 /\ i \in Int /\ c + r + i \in Int /\ i + 1 <= m
    BY <1>1
  <2>2. slot \in 0 .. e - 1
    BY <2>1, SlotType
  <2>3. slot = (t + i) % e
    BY <2>1, SlotOfTail DEF r
  <2> HIDE DEF slot
  <2>4. (((t + i) % e) - t) % e = i
    BY <2>1, SlotDistance
  <2>5. (slot - t) % e = i
    BY <2>3, <2>4
  <2>6. after[slot] = values[i + 1]
    BY <1>2, <2>1, <2>2, <2>5
  <2> QED
    BY <2>6 DEF slot
<1> QED
  BY <1>3, <1>4, <1>5 DEF after, r

WrittenAppends(S, e, array, c, t, values, m) ==
  LET after == Written(array, e, t, m, values)
  IN  /\ after \in Arrays(S, e)
      /\ Slice(after, e, c, Distance(c, t) + m)
           = Slice(array, e, c, Distance(c, t)) \o SubSeq(values, 1, m)

LEMMA SliceWritten ==
  ASSUME NEW S, NEW e \in Nat \ {0}, Divides(e), NEW array \in Arrays(S, e),
         NEW c \in Int, NEW t \in Int, Distance(c, t) <= e,
         NEW values \in Seq(S), NEW m \in Nat, m <= Len(values), m <= e - Distance(c, t)
  PROVE  WrittenAppends(S, e, array, c, t, values, m)
<1> DEFINE after == Written(array, e, t, m, values)
           r == Distance(c, t)
           n == r + m
           s == Slice(array, e, c, r)
           v == SubSeq(values, 1, m)
           u == Slice(after, e, c, n)
<1>1. /\ after \in Arrays(S, e)
      /\ \A i \in 0 .. r - 1 : after[(c + i) % e] = array[(c + i) % e]
      /\ \A i \in 0 .. m - 1 : after[(c + r + i) % e] = values[i + 1]
  BY WrittenSlots
<1>2. r \in Nat
  BY DistanceType
<1> HIDE DEF after, r
<1>3. n \in Nat /\ Len(values) \in Nat
  BY <1>2, LenProperties
<1> HIDE DEF n
<1>4. s \in Seq(S) /\ Len(s) = r /\ \A i \in 1 .. r : s[i] = array[(c + i - 1) % e]
  <2> DEFINE k == r
  <2>1. k \in Nat
    BY <1>2
  <2> HIDE DEF k
  <2>2. SliceFrom(Slice(array, e, c, k), S, array, e, c, k)
    BY <2>1, SliceType
  <2>3. SliceFrom(s, S, array, e, c, r)
    BY <2>2 DEF k
  <2> QED
    BY <2>3 DEF SliceFrom
<1>5. u \in Seq(S) /\ Len(u) = n /\ \A i \in 1 .. n : u[i] = after[(c + i - 1) % e]
  <2>1. SliceFrom(u, S, after, e, c, n)
    BY <1>1, <1>3, SliceType
  <2> QED
    BY <2>1 DEF SliceFrom
<1> HIDE DEF s, u
<1>6. \A i \in 1 .. m : values[i] \in S
  BY <1>3, ElementOfSeq
<1>7. v \in Seq(S) /\ Len(v) = m /\ \A i \in 1 .. m : v[i] = values[i]
  BY <1>6, SubSeqProperties
<1> HIDE DEF v
<1>8. /\ s \o v \in Seq(S) /\ Len(s \o v) = n
      /\ \A i \in 1 .. n : (s \o v)[i] = IF i <= r THEN s[i] ELSE v[i - r]
  <2>1. /\ s \o v \in Seq(S) /\ Len(s \o v) = Len(s) + Len(v)
        /\ \A i \in 1 .. Len(s) + Len(v) : (s \o v)[i] = IF i <= Len(s) THEN s[i] ELSE v[i - Len(s)]
    BY <1>4, <1>7, ConcatProperties
  <2>2. Len(s) = r /\ Len(v) = m /\ n = r + m
    BY <1>4, <1>7 DEF n
  <2> QED
    BY <2>1, <2>2
<1>9. ASSUME NEW i \in 1 .. n
      PROVE  u[i] = (s \o v)[i]
  <2>1. CASE i <= r
    <3> DEFINE j == i - 1
    <3>1. j \in 0 .. r - 1 /\ c + i - 1 = c + j /\ i \in 1 .. r
      BY <1>2, <2>1
    <3>2. after[(c + j) % e] = array[(c + j) % e]
      BY <1>1, <3>1
    <3> QED
      BY <1>4, <1>5, <1>8, <2>1, <3>1, <3>2
  <2>2. CASE ~(i <= r)
    <3> DEFINE j == i - r - 1
    <3>1. /\ j \in 0 .. m - 1 /\ c + i - 1 = c + r + j /\ i - r \in 1 .. m
          /\ j + 1 = i - r
      BY <1>2, <2>2 DEF n
    <3>2. after[(c + r + j) % e] = values[j + 1]
      BY <1>1, <3>1
    <3> QED
      BY <1>5, <1>7, <1>8, <2>2, <3>1, <3>2
  <2> QED
    BY <2>1, <2>2
<1>10. u = s \o v
  BY <1>5, <1>8, <1>9, SeqEqual
<1> QED
  BY <1>1, <1>10 DEF WrittenAppends, after, r, n, s, v, u

(***************************************************************************)
(* The parts of steps, as operations on queues.                            *)
(***************************************************************************)

AnyData == Int
AnyCqe == [data : AnyData, res : Int]
GetCalls == {"peek", "wait", "wait_timeout", "submit_and_wait"}
CallTypes == GetCalls \cup {"none", "submit", "submit_timeout", "batch"}
DataType ==
  [call : CallTypes, submit : Nat, wait_nr : Nat, has_ts : BOOLEAN, looped : BOOLEAN,
   err : Int, cqe : BOOLEAN, getevents : BOOLEAN, wakeup : BOOLEAN, entered : Nat]

SqTypes ==
  /\ sqe_head \in Int /\ sqe_tail \in Int /\ sq_khead \in Int /\ sq_ktail \in Int
  /\ sqes \in Arrays(AnyData, SqEntries)
CqTypes ==
  /\ cq_khead \in Int /\ cq_ktail \in Int
  /\ cqes \in Arrays(AnyCqe, CqEntries)
  /\ overflow \in Seq(AnyCqe)

(* How full the submission ring is, and how much of it the kernel may see. *)
SqSound ==
  /\ sqe_head = sq_ktail
  /\ Distance(sq_khead, sqe_tail) <= SqEntries
  /\ Distance(sq_khead, sq_ktail) <= Distance(sq_khead, sqe_tail)
CqSound == io_uring_cq_ready <= CqEntries

SqInv == SqTypes /\ SqSound
CqInv == CqTypes /\ CqSound

(* The completions in the ring, and those the kernel has kept back.        *)
Completions == Ready \o overflow

LEMMA SqFacts ==
  ASSUME SqInv
  PROVE  /\ Distance(sq_khead, sqe_tail) \in Nat /\ Distance(sq_khead, sq_ktail) \in Nat
         /\ sq \in Seq(AnyData) /\ Len(sq) = Distance(sq_khead, sqe_tail)
         /\ Len(Published) = Distance(sq_khead, sq_ktail)
         /\ Published = SubSeq(sq, 1, Distance(sq_khead, sq_ktail))
<1>1. /\ SqTypes /\ SqSound /\ sqes \in Arrays(AnyData, SqEntries)
      /\ sq_khead \in Int /\ sqe_tail \in Int /\ sq_ktail \in Int
  BY DEF SqInv, SqTypes
<1>2. Distance(sq_khead, sqe_tail) \in Nat /\ Distance(sq_khead, sq_ktail) \in Nat
  BY <1>1, DistanceType
<1> DEFINE n == Distance(sq_khead, sqe_tail)
           m == Distance(sq_khead, sq_ktail)
<1>3. n \in Nat /\ m \in 0 .. n /\ m \in Nat
  BY <1>1, <1>2 DEF SqSound
<1> HIDE DEF n, m
<1>4. /\ Slice(sqes, SqEntries, sq_khead, n) \in Seq(AnyData)
      /\ Len(Slice(sqes, SqEntries, sq_khead, n)) = n
      /\ Len(Slice(sqes, SqEntries, sq_khead, m)) = m
  BY <1>1, <1>3, RingsDivide, SliceType DEF SliceFrom
<1>5. SubSeq(Slice(sqes, SqEntries, sq_khead, n), 1, m) = Slice(sqes, SqEntries, sq_khead, m)
  BY <1>1, <1>3, RingsDivide, SlicePrefix
<1> QED
  BY <1>2, <1>4, <1>5 DEF sq, Published, n, m

LEMMA CqFacts ==
  ASSUME CqInv
  PROVE  /\ io_uring_cq_ready \in Nat
         /\ Ready \in Seq(AnyCqe) /\ Len(Ready) = io_uring_cq_ready
         /\ Completions \in Seq(AnyCqe)
         /\ Len(Completions) = Len(Ready) + Len(overflow) /\ Len(overflow) \in Nat
         /\ CqData \in Seq(AnyData) /\ Len(CqData) = Len(Completions)
         /\ \A i \in 1 .. Len(Completions) : CqData[i] = Completions[i].data
<1>1. /\ cqes \in Arrays(AnyCqe, CqEntries) /\ overflow \in Seq(AnyCqe)
      /\ cq_khead \in Int /\ cq_ktail \in Int
  BY DEF CqInv, CqTypes
<1>2. io_uring_cq_ready \in Nat
  BY <1>1, DistanceType DEF io_uring_cq_ready
<1>3. Ready \in Seq(AnyCqe) /\ Len(Ready) = io_uring_cq_ready
  BY <1>1, <1>2, RingsDivide, SliceType DEF Ready, SliceFrom
<1>4. /\ Completions \in Seq(AnyCqe) /\ Len(overflow) \in Nat
      /\ Len(Completions) = Len(Ready) + Len(overflow)
  BY <1>1, <1>3, ConcatProperties, LenProperties DEF Completions
<1> DEFINE n == Len(Completions)
<1>5. n \in Nat /\ DOMAIN Completions = 1 .. n
  BY <1>4, LenProperties
<1>6. ASSUME NEW i \in 1 .. n
      PROVE  Completions[i].data \in AnyData
  <2>1. Completions[i] \in AnyCqe
    BY <1>4, ElementOfSeq
  <2> QED
    BY <2>1 DEF AnyCqe
<1>7. CqData = [i \in 1 .. n |-> Completions[i].data]
  BY <1>5 DEF CqData, Completions
<1> HIDE DEF n
<1>8. CqData \in Seq(AnyData) /\ Len(CqData) = n /\ \A i \in 1 .. n : CqData[i] = Completions[i].data
  BY <1>5, <1>6, <1>7
<1> QED
  BY <1>2, <1>3, <1>4, <1>8 DEF n

(***************************************************************************)
(* What the parts of steps do to the queues.                               *)
(***************************************************************************)

(* An entry is free exactly when there is room (liburing.h:1477).          *)
LEMMA AvailableMeansRoom ==
  ASSUME SqInv
  PROVE  /\ Distance(sq_khead, Advance(sqe_tail, 1)) = Distance(sq_khead, sqe_tail) + 1
         /\ SqeAvailable <=> Distance(sq_khead, sqe_tail) < SqEntries
         /\ SqeAvailable <=> io_uring_sq_space_left > 0
<1>1. /\ sq_khead \in Int /\ sqe_tail \in Int /\ SqEntries \in Nat
      /\ SqEntries + 1 < Wrap /\ Wrap \in Nat
  BY RingsDivide, WrapPositive DEF SqInv, SqTypes, Divides
<1>2. /\ Distance(sq_khead, sqe_tail) \in Nat /\ Distance(sq_khead, sqe_tail) <= SqEntries
  BY SqFacts DEF SqInv, SqSound
<1>3. Distance(sq_khead, sqe_tail) + 1 < Wrap
  BY <1>1, <1>2
<1>4. Distance(sq_khead, Advance(sqe_tail, 1)) = Distance(sq_khead, sqe_tail) + 1
  BY <1>1, <1>3, DistanceGrows
<1> QED
  BY <1>1, <1>2, <1>4 DEF SqeAvailable, io_uring_sq_space_left

LEMMA PutSqeQueues ==
  ASSUME SqInv, SqeAvailable, NEW op \in AnyData, PutSqe(op), UNCHANGED sq_khead
  PROVE  /\ sq' = Append(sq, op) /\ Len(sq) < SqEntries
         /\ sqe_tail' \in Int /\ sqes' \in Arrays(AnyData, SqEntries)
         /\ Distance(sq_khead', sqe_tail') = Distance(sq_khead, sqe_tail) + 1
         /\ Distance(sq_khead', sqe_tail') <= SqEntries
<1> DEFINE n == Distance(sq_khead, sqe_tail)
<1>1. /\ sq_khead \in Int /\ sqe_tail \in Int /\ sqes \in Arrays(AnyData, SqEntries)
  BY DEF SqInv, SqTypes
<1>2. n < SqEntries /\ Distance(sq_khead, Advance(sqe_tail, 1)) = n + 1 /\ n \in Nat
      /\ SqEntries \in Nat
  BY AvailableMeansRoom, SqFacts, RingsDivide
<1>3. /\ sqes' = [sqes EXCEPT ![sqe_tail % SqEntries] = op]
      /\ sqe_tail' = Advance(sqe_tail, 1) /\ sqe_tail' \in Int
  BY <1>1, AdvanceType DEF PutSqe
<1>4. /\ sqes' \in Arrays(AnyData, SqEntries)
      /\ Slice(sqes', SqEntries, sq_khead, n + 1)
           = Append(Slice(sqes, SqEntries, sq_khead, n), op)
  <2>1. n < SqEntries
    BY <1>2
  <2>2. PutAppends(AnyData, SqEntries, sqes, op, sq_khead, sqe_tail)
    BY <1>1, <2>1, RingsDivide, SlicePut
  <2> QED
    BY <1>3, <2>2 DEF PutAppends
<1>5. sq_khead' = sq_khead /\ Distance(sq_khead', sqe_tail') = n + 1
  BY <1>2, <1>3
<1>6. sq' = Append(sq, op)
  BY <1>4, <1>5 DEF sq
<1>7. Len(sq) < SqEntries
  BY <1>2, SqFacts
<1> QED
  BY <1>2, <1>3, <1>4, <1>5, <1>6, <1>7

LEMMA TakeEntriesQueues ==
  ASSUME SqInv, kernel \in Seq(AnyData), NEW n \in 0 .. Distance(sq_khead, sq_ktail),
         TakeEntries(n), UNCHANGED <<sqe_head, sqe_tail, sq_ktail>>
  PROVE  /\ kernel' = kernel \o SubSeq(sq, 1, n) /\ sq' = SubSeq(sq, n + 1, Len(sq))
         /\ kernel' \in Seq(AnyData) /\ SqInv'
         /\ Distance(sq_khead', sq_ktail') = Distance(sq_khead, sq_ktail) - n
<1> DEFINE d == Distance(sq_khead, sqe_tail)
           p == Distance(sq_khead, sq_ktail)
           h == Advance(sq_khead, n)
<1>1. /\ sq_khead \in Int /\ sqe_tail \in Int /\ sq_ktail \in Int
      /\ sqes \in Arrays(AnyData, SqEntries) /\ sqe_head \in Int /\ sqe_head = sq_ktail
      /\ d <= SqEntries /\ p <= d
  BY DEF SqInv, SqTypes, SqSound
<1>2. d \in Nat /\ p \in Nat /\ Len(sq) = d /\ sq \in Seq(AnyData) /\ Published = SubSeq(sq, 1, p)
  BY SqFacts
<1>3. n \in Nat /\ n <= p /\ n <= d
  BY <1>1, <1>2
<1>4. Distance(h, sqe_tail) = d - n /\ Distance(h, sq_ktail) = p - n /\ h \in Int
  BY <1>1, <1>3, DistanceShrinks, AdvanceType
<1>5. /\ sq_khead' = h /\ kernel' = kernel \o SubSeq(Published, 1, n)
      /\ sqes' = Mark(StaleSqe, sqes, SqEntries, sq_khead, n)
  BY DEF TakeEntries
<1> HIDE DEF d, p, h
<1>6. SubSeq(Published, 1, n) = SubSeq(sq, 1, n) /\ SubSeq(sq, 1, n) \in Seq(AnyData)
  <2>1. \A i \in 1 .. p : sq[i] \in AnyData
    BY <1>1, <1>2, ElementOfSeq
  <2>2. /\ Published \in Seq(AnyData) /\ Len(Published) = p
        /\ \A i \in 1 .. p : Published[i] = sq[i]
    BY <1>2, <2>1, SubSeqProperties
  <2>3. \A i \in 1 .. n : Published[i] \in AnyData /\ sq[i] \in AnyData
    BY <1>2, <1>3, <2>1, <2>2
  <2>4. /\ SubSeq(Published, 1, n) \in Seq(AnyData) /\ Len(SubSeq(Published, 1, n)) = n
        /\ \A i \in 1 .. n : SubSeq(Published, 1, n)[i] = Published[i]
    BY <1>3, <2>3, SubSeqProperties
  <2>5. /\ SubSeq(sq, 1, n) \in Seq(AnyData) /\ Len(SubSeq(sq, 1, n)) = n
        /\ \A i \in 1 .. n : SubSeq(sq, 1, n)[i] = sq[i]
    BY <1>3, <2>3, SubSeqProperties
  <2>6. \A i \in 1 .. n : SubSeq(Published, 1, n)[i] = SubSeq(sq, 1, n)[i]
    BY <1>2, <1>3, <2>2, <2>4, <2>5
  <2> QED
    BY <2>4, <2>5, <2>6, SeqEqual
<1>7. kernel' \in Seq(AnyData) /\ kernel' = kernel \o SubSeq(sq, 1, n)
  BY <1>5, <1>6, ConcatProperties
<1>8. sqes' \in Arrays(AnyData, SqEntries)
  <2>1. StaleSqe \in AnyData
    BY DEF StaleSqe, AnyData
  <2> QED
    BY <2>1, <1>1, <1>3, <1>5, RingsDivide, MarkType
<1>9. sq' = SubSeq(sq, n + 1, Len(sq))
  <2>1. d \in 0 .. SqEntries /\ n \in 0 .. d
    BY <1>1, <1>2, <1>3, RingsDivide
  <2>2. StaleSqe \in AnyData
    BY DEF StaleSqe, AnyData
  <2>3. MarkDrops(AnyData, SqEntries, sqes, StaleSqe, sq_khead, d, n)
    BY <1>1, <2>1, <2>2, RingsDivide, DropMarked
  <2> QED
    BY <1>2, <1>4, <1>5, <2>3 DEF MarkDrops, sq, d, h
<1>10. SqInv'
  BY <1>1, <1>2, <1>3, <1>4, <1>5, <1>8, RingsDivide DEF SqInv, SqTypes, SqSound
<1> QED
  BY <1>4, <1>5, <1>7, <1>9, <1>10 DEF p

(***************************************************************************)
(* Sequences.                                                              *)
(***************************************************************************)

LEMMA SuffixType ==
  ASSUME NEW S, NEW s \in Seq(S), NEW n \in 0 .. Len(s)
  PROVE  /\ SubSeq(s, n + 1, Len(s)) \in Seq(S)
         /\ Len(SubSeq(s, n + 1, Len(s))) = Len(s) - n
         /\ \A i \in 1 .. Len(s) - n : SubSeq(s, n + 1, Len(s))[i] = s[n + i]
<1> DEFINE m == Len(s)
           u == SubSeq(s, n + 1, m)
<1>1. m \in Nat /\ n \in Nat /\ n <= m
  BY LenProperties
<1>2. \A i \in 1 .. m : s[i] \in S
  BY ElementOfSeq
<1> HIDE DEF m
<1>3. \A i \in n + 1 .. m : s[i] \in S
  BY <1>1, <1>2
<1>4. /\ u \in Seq(S) /\ Len(u) = IF n + 1 <= m THEN m - (n + 1) + 1 ELSE 0
      /\ \A i \in 1 .. m - (n + 1) + 1 : u[i] = s[n + 1 + i - 1]
  BY <1>1, <1>3, SubSeqProperties
<1> HIDE DEF u
<1>5. Len(u) = m - n /\ \A i \in 1 .. m - n : u[i] = s[n + i]
  BY <1>1, <1>4
<1> QED
  BY <1>4, <1>5 DEF u, m

LEMMA PrefixType ==
  ASSUME NEW S, NEW s \in Seq(S), NEW n \in 0 .. Len(s)
  PROVE  /\ SubSeq(s, 1, n) \in Seq(S) /\ Len(SubSeq(s, 1, n)) = n
         /\ \A i \in 1 .. n : SubSeq(s, 1, n)[i] = s[i]
<1>1. Len(s) \in Nat /\ n \in Nat /\ n <= Len(s)
  BY LenProperties
<1>2. \A i \in 1 .. n : s[i] \in S
  BY <1>1, ElementOfSeq
<1> QED
  BY <1>1, <1>2, SubSeqProperties

(* What is dropped from the front of a sequence is dropped from its first  *)
(* part.                                                                   *)
LEMMA DropFront ==
  ASSUME NEW S, NEW s \in Seq(S), NEW t \in Seq(S), NEW n \in 0 .. Len(s)
  PROVE  SubSeq(s \o t, n + 1, Len(s \o t)) = SubSeq(s, n + 1, Len(s)) \o t
<1> DEFINE c == s \o t
           u == SubSeq(c, n + 1, Len(c))
           f == SubSeq(s, n + 1, Len(s))
           v == f \o t
<1>1. Len(s) \in Nat /\ Len(t) \in Nat /\ n \in Nat /\ n <= Len(s)
  BY LenProperties
<1>2. /\ c \in Seq(S) /\ Len(c) = Len(s) + Len(t)
      /\ \A i \in 1 .. Len(s) + Len(t) : c[i] = IF i <= Len(s) THEN s[i] ELSE t[i - Len(s)]
  BY ConcatProperties
<1>3. f \in Seq(S) /\ Len(f) = Len(s) - n /\ \A i \in 1 .. Len(s) - n : f[i] = s[n + i]
  BY SuffixType
<1> HIDE DEF c, f
<1>4. n \in 0 .. Len(c)
  BY <1>1, <1>2
<1>5. u \in Seq(S) /\ Len(u) = Len(c) - n /\ \A i \in 1 .. Len(c) - n : u[i] = c[n + i]
  BY <1>2, <1>4, SuffixType
<1>6. /\ v \in Seq(S) /\ Len(v) = Len(f) + Len(t)
      /\ \A i \in 1 .. Len(f) + Len(t) : v[i] = IF i <= Len(f) THEN f[i] ELSE t[i - Len(f)]
  BY <1>3, ConcatProperties
<1> HIDE DEF u, v
<1>7. Len(u) = Len(v)
  BY <1>1, <1>2, <1>3, <1>5, <1>6
<1>8. ASSUME NEW i \in 1 .. Len(u)
      PROVE  u[i] = v[i]
  <2>1. i \in 1 .. Len(c) - n /\ n + i \in 1 .. Len(s) + Len(t) /\ i \in 1 .. Len(f) + Len(t)
    BY <1>1, <1>2, <1>3, <1>5, <1>6, <1>7
  <2>2. u[i] = c[n + i]
    BY <1>5, <2>1
  <2>3. CASE i <= Len(f)
    <3>1. n + i <= Len(s) /\ i \in 1 .. Len(s) - n
      BY <1>1, <1>3, <2>1, <2>3
    <3>2. c[n + i] = s[n + i] /\ f[i] = s[n + i] /\ v[i] = f[i]
      BY <1>2, <1>3, <1>6, <2>1, <2>3, <3>1
    <3> QED
      BY <2>2, <3>2
  <2>4. CASE ~(i <= Len(f))
    <3>1. n + i - Len(s) = i - Len(f) /\ ~(n + i <= Len(s))
      BY <1>1, <1>3, <2>1, <2>4
    <3>2. c[n + i] = t[n + i - Len(s)]
      BY <1>2, <2>1, <3>1
    <3>3. v[i] = t[i - Len(f)]
      BY <1>6, <2>1, <2>4
    <3> QED
      BY <2>2, <3>1, <3>2, <3>3
  <2> QED
    BY <2>3, <2>4
<1>9. u = v
  BY <1>5, <1>6, <1>7, <1>8, SeqEqual
<1> QED
  BY <1>9 DEF u, v, c, f

LEMMA AppendBehind ==
  ASSUME NEW S, NEW s \in Seq(S), NEW t \in Seq(S), NEW x \in S
  PROVE  s \o Append(t, x) = Append(s \o t, x)
<1>1. <<x>> \in Seq(S) /\ s \o t \in Seq(S)
  BY ConcatProperties
<1>2. Append(t, x) = t \o <<x>> /\ Append(s \o t, x) = (s \o t) \o <<x>>
  BY <1>1, AppendIsConcat
<1> QED
  BY <1>1, <1>2, ConcatAssociative

LEMMA RemoveAtType ==
  ASSUME NEW S, NEW s \in Seq(S), NEW k \in 1 .. Len(s)
  PROVE  RemoveAt(s, k) \in Seq(S)
<1>1. Len(s) \in Nat /\ k - 1 \in 0 .. Len(s) /\ k \in 0 .. Len(s)
  BY LenProperties
<1>2. SubSeq(s, 1, k - 1) \in Seq(S) /\ SubSeq(s, k + 1, Len(s)) \in Seq(S)
  BY <1>1, PrefixType, SuffixType
<1> QED
  BY <1>2, ConcatProperties DEF RemoveAt

(* The user_data of a sequence of completions.                             *)
DataOf(s) == [i \in 1 .. Len(s) |-> s[i].data]

LEMMA DataOfType ==
  ASSUME NEW s \in Seq(AnyCqe)
  PROVE  /\ DataOf(s) \in Seq(AnyData) /\ Len(DataOf(s)) = Len(s) /\ Len(s) \in Nat
         /\ \A i \in 1 .. Len(s) : DataOf(s)[i] = s[i].data
<1> DEFINE n == Len(s)
<1>1. n \in Nat
  BY LenProperties
<1>2. ASSUME NEW i \in 1 .. n
      PROVE  s[i].data \in AnyData
  <2>1. s[i] \in AnyCqe
    BY ElementOfSeq
  <2> QED
    BY <2>1 DEF AnyCqe
<1>3. DataOf(s) = [i \in 1 .. n |-> s[i].data]
  BY DEF DataOf
<1> HIDE DEF n
<1>4. DataOf(s) \in Seq(AnyData) /\ Len(DataOf(s)) = n /\ \A i \in 1 .. n : DataOf(s)[i] = s[i].data
  BY <1>1, <1>2, <1>3
<1> QED
  BY <1>1, <1>4 DEF n

LEMMA DataOfAppend ==
  ASSUME NEW s \in Seq(AnyCqe), NEW cqe \in AnyCqe
  PROVE  DataOf(Append(s, cqe)) = Append(DataOf(s), cqe.data)
<1> DEFINE a == Append(s, cqe)
           u == DataOf(a)
           v == Append(DataOf(s), cqe.data)
<1>1. /\ a \in Seq(AnyCqe) /\ Len(a) = Len(s) + 1
      /\ \A i \in 1 .. Len(s) : a[i] = s[i]
      /\ a[Len(s) + 1] = cqe
  BY AppendProperties
<1>2. /\ DataOf(s) \in Seq(AnyData) /\ Len(DataOf(s)) = Len(s) /\ Len(s) \in Nat
      /\ \A i \in 1 .. Len(s) : DataOf(s)[i] = s[i].data
  BY DataOfType
<1> HIDE DEF a
<1>3. u \in Seq(AnyData) /\ Len(u) = Len(a) /\ \A i \in 1 .. Len(a) : u[i] = a[i].data
  BY <1>1, DataOfType
<1>4. cqe.data \in AnyData
  BY DEF AnyCqe
<1>5. /\ v \in Seq(AnyData) /\ Len(v) = Len(s) + 1
      /\ \A i \in 1 .. Len(s) : v[i] = DataOf(s)[i]
      /\ v[Len(s) + 1] = cqe.data
  BY <1>2, <1>4, AppendProperties
<1> HIDE DEF u, v
<1>6. \A i \in 1 .. Len(u) : u[i] = v[i]
  <2> SUFFICES ASSUME NEW i \in 1 .. Len(u) PROVE u[i] = v[i]
    OBVIOUS
  <2>1. i \in 1 .. Len(a) /\ u[i] = a[i].data
    BY <1>3
  <2>2. CASE i = Len(s) + 1
    BY <1>1, <1>5, <2>1, <2>2
  <2>3. CASE i # Len(s) + 1
    <3>1. i \in 1 .. Len(s)
      BY <1>1, <1>2, <2>1, <2>3
    <3> QED
      BY <1>1, <1>2, <1>5, <2>1, <3>1
  <2> QED
    BY <2>2, <2>3
<1>7. u = v
  BY <1>1, <1>3, <1>5, <1>6, SeqEqual
<1> QED
  BY <1>7 DEF u, v, a

LEMMA DataOfSuffix ==
  ASSUME NEW s \in Seq(AnyCqe), NEW n \in 0 .. Len(s)
  PROVE  DataOf(SubSeq(s, n + 1, Len(s))) = SubSeq(DataOf(s), n + 1, Len(DataOf(s)))
<1> DEFINE r == SubSeq(s, n + 1, Len(s))
           u == DataOf(r)
           d == DataOf(s)
           v == SubSeq(d, n + 1, Len(d))
<1>1. r \in Seq(AnyCqe) /\ Len(r) = Len(s) - n /\ \A i \in 1 .. Len(s) - n : r[i] = s[n + i]
  BY SuffixType
<1>2. /\ d \in Seq(AnyData) /\ Len(d) = Len(s) /\ Len(s) \in Nat
      /\ \A i \in 1 .. Len(s) : d[i] = s[i].data
  BY DataOfType
<1> HIDE DEF r, d
<1>3. u \in Seq(AnyData) /\ Len(u) = Len(r) /\ \A i \in 1 .. Len(r) : u[i] = r[i].data
  BY <1>1, DataOfType
<1>4. v \in Seq(AnyData) /\ Len(v) = Len(d) - n /\ \A i \in 1 .. Len(d) - n : v[i] = d[n + i]
  BY <1>2, SuffixType
<1> HIDE DEF u, v
<1>5. ASSUME NEW i \in 1 .. Len(u)
      PROVE  u[i] = v[i]
  <2>1. i \in 1 .. Len(s) - n /\ n + i \in 1 .. Len(s)
    BY <1>1, <1>2, <1>3
  <2> QED
    BY <1>1, <1>2, <1>3, <1>4, <2>1
<1>6. u = v
  BY <1>1, <1>2, <1>3, <1>4, <1>5, SeqEqual
<1> QED
  BY <1>6 DEF u, v, d, r

(***************************************************************************)
(* What the parts of steps do to the completions.                          *)
(***************************************************************************)

LEMMA CqDataOfCompletions ==
  ASSUME CqInv
  PROVE  CqData = DataOf(Completions)
<1>1. Completions \in Seq(AnyCqe)
  BY CqFacts
<1>2. DOMAIN Completions = 1 .. Len(Completions)
  BY <1>1, LenProperties
<1> QED
  BY <1>2 DEF CqData, Completions, DataOf

LEMMA ReadyCounted ==
  ASSUME CqInv
  PROVE  Len(Ready) \in Nat
BY CqFacts

LEMMA ReadyAfter ==
  ASSUME CqInv'
  PROVE  Len(Ready') \in Nat
<1>1. (CqInv => Len(Ready) \in Nat)'
  BY ReadyCounted, PTL
<1> QED
  BY <1>1

LEMMA CqDataAfter ==
  ASSUME CqInv'
  PROVE  CqData' = DataOf(Completions')
<1>1. (CqInv => CqData = DataOf(Completions))'
  BY CqDataOfCompletions, PTL
<1> QED
  BY <1>1 DEF DataOf

(* What a step leaves alone, or only shows to the kernel. *)
LEMMA SqUnchanged ==
  ASSUME SqInv, UNCHANGED sqVars
  PROVE  /\ SqInv' /\ sq' = sq
         /\ Distance(sq_khead', sq_ktail') = Distance(sq_khead, sq_ktail)
BY DEF SqInv, SqTypes, SqSound, sqVars, sq

LEMMA SqFlushed ==
  ASSUME SqInv, FlushSq, UNCHANGED <<sqe_tail, sq_khead, sqes>>
  PROVE  /\ SqInv' /\ sq' = sq
         /\ Distance(sq_khead', sq_ktail') = Distance(sq_khead, sqe_tail)
<1>1. /\ sqe_head' = sqe_tail /\ sq_ktail' = sqe_tail /\ sqe_tail' = sqe_tail
      /\ sq_khead' = sq_khead /\ sqes' = sqes
  BY DEF FlushSq
<1>2. Distance(sq_khead, sqe_tail) \in Nat
  BY SqFacts
<1> QED
  BY <1>1, <1>2 DEF SqInv, SqTypes, SqSound, sq

LEMMA ShownCounted ==
  ASSUME SqInv
  PROVE  Distance(sq_khead, sq_ktail) \in Nat
BY SqFacts

LEMMA CqUnchanged ==
  ASSUME CqInv, UNCHANGED cqVars
  PROVE  CqInv' /\ CqData' = CqData /\ Ready' = Ready
BY DEF CqInv, CqTypes, CqSound, cqVars, io_uring_cq_ready, Ready, CqData

(* Giving back: Skip and CqAdvance. *)
GivesBack(n) ==
  /\ cq_khead' = Advance(cq_khead, n)
  /\ cqes' = Mark(StaleCqe, cqes, CqEntries, cq_khead, n)

LEMMA GiveBackQueues ==
  ASSUME CqInv, NEW n \in 0 .. Len(Ready), GivesBack(n), UNCHANGED <<cq_ktail, overflow>>
  PROVE  /\ CqInv' /\ Ready' = SubSeq(Ready, n + 1, Len(Ready))
         /\ CqData' = SubSeq(CqData, n + 1, Len(CqData))
         /\ n \in 0 .. Len(CqData) /\ Len(CqData) \in Nat
<1> DEFINE d == Distance(cq_khead, cq_ktail)
           h == Advance(cq_khead, n)
<1>1. /\ cq_khead \in Int /\ cq_ktail \in Int /\ cqes \in Arrays(AnyCqe, CqEntries)
      /\ overflow \in Seq(AnyCqe) /\ d <= CqEntries
  BY DEF CqInv, CqTypes, CqSound, io_uring_cq_ready
<1>2. d \in Nat /\ Len(Ready) = d /\ Ready \in Seq(AnyCqe) /\ Completions \in Seq(AnyCqe)
      /\ Len(Completions) = d + Len(overflow) /\ Len(overflow) \in Nat
  BY CqFacts DEF io_uring_cq_ready
<1>3. n \in Nat /\ n <= d /\ n \in 0 .. d
  BY <1>2
<1>4. Distance(h, cq_ktail) = d - n /\ h \in Int
  BY <1>1, <1>3, DistanceShrinks, AdvanceType
<1>5. cq_khead' = h /\ cqes' = Mark(StaleCqe, cqes, CqEntries, cq_khead, n)
  BY DEF GivesBack
<1> HIDE DEF d, h
<1>6. MarkDrops(AnyCqe, CqEntries, cqes, StaleCqe, cq_khead, d, n)
  <2>1. StaleCqe \in AnyCqe
    BY DEF StaleCqe, AnyCqe, AnyData
  <2>2. d \in 0 .. CqEntries
    BY <1>1, <1>2, RingsDivide
  <2> QED
    BY <1>1, <1>3, <2>1, <2>2, RingsDivide, DropMarked
<1>7. Ready' = SubSeq(Ready, n + 1, Len(Ready)) /\ cqes' \in Arrays(AnyCqe, CqEntries)
  <2>1. cq_ktail' = cq_ktail
    OBVIOUS
  <2>2. Ready' = Slice(cqes', CqEntries, h, d - n)
    BY <1>4, <1>5, <2>1 DEF Ready, io_uring_cq_ready
  <2>3. Ready = Slice(cqes, CqEntries, cq_khead, d)
    BY DEF Ready, io_uring_cq_ready, d
  <2> QED
    BY <1>2, <1>5, <1>6, <2>2, <2>3 DEF MarkDrops, h
<1>8. CqInv'
  <2>1. d - n <= CqEntries
    BY <1>1, <1>2, <1>3, RingsDivide
  <2> QED
    BY <1>1, <1>4, <1>5, <1>7, <2>1 DEF CqInv, CqTypes, CqSound, io_uring_cq_ready
<1>9. Completions' = SubSeq(Completions, n + 1, Len(Completions))
  <2>1. n \in 0 .. Len(Ready)
    OBVIOUS
  <2>2. SubSeq(Ready \o overflow, n + 1, Len(Ready \o overflow))
          = SubSeq(Ready, n + 1, Len(Ready)) \o overflow
    BY <1>1, <1>2, <2>1, DropFront
  <2> QED
    BY <1>7, <2>2 DEF Completions
<1>10. CqData' = DataOf(Completions')
  BY <1>8, CqDataAfter
<1>11. n \in 0 .. Len(Completions) /\ Len(Completions) \in Nat
  BY <1>2, <1>3
<1>12. CqData = DataOf(Completions) /\ Len(CqData) = Len(Completions)
  BY <1>2, CqDataOfCompletions, DataOfType
<1>13. DataOf(SubSeq(Completions, n + 1, Len(Completions)))
         = SubSeq(DataOf(Completions), n + 1, Len(DataOf(Completions)))
  BY <1>2, <1>11, DataOfSuffix
<1> QED
  BY <1>7, <1>8, <1>9, <1>10, <1>11, <1>12, <1>13

(* The ring as the program sees it only grows.                             *)
ReadyGrows ==
  /\ Len(Ready) <= Len(Ready')
  /\ \A i \in 1 .. Len(Ready) : Ready'[i] = Ready[i]

LEMMA PostQueues ==
  ASSUME CqInv, NEW cqe \in AnyCqe, Post(cqe), UNCHANGED cq_khead
  PROVE  CqInv' /\ CqData' = Append(CqData, cqe.data) /\ ReadyGrows
<1> DEFINE n == Distance(cq_khead, cq_ktail)
<1>1. /\ cq_khead \in Int /\ cq_ktail \in Int /\ cqes \in Arrays(AnyCqe, CqEntries)
      /\ overflow \in Seq(AnyCqe) /\ n <= CqEntries
  BY DEF CqInv, CqTypes, CqSound, io_uring_cq_ready
<1>2. /\ n \in Nat /\ Ready \in Seq(AnyCqe) /\ Len(Ready) = n
      /\ Completions \in Seq(AnyCqe)
      /\ Ready = Slice(cqes, CqEntries, cq_khead, n)
  BY CqFacts DEF Ready, io_uring_cq_ready
<1>3. cq_khead' = cq_khead
  OBVIOUS
<1>4. CASE overflow = <<>> /\ io_uring_cq_ready < CqEntries
  <2>1. /\ cqes' = [cqes EXCEPT ![cq_ktail % CqEntries] = cqe]
        /\ cq_ktail' = Advance(cq_ktail, 1) /\ overflow' = overflow /\ n < CqEntries
    BY <1>4 DEF Post, io_uring_cq_ready
  <2>2. Distance(cq_khead, Advance(cq_ktail, 1)) = n + 1 /\ cq_ktail' \in Int
    <3>1. n + 1 < Wrap
      BY <1>1, <1>2, <2>1, RingsDivide, WrapPositive DEF Divides
    <3> QED
      BY <1>1, <2>1, <3>1, DistanceGrows, AdvanceType
  <2>3. PutAppends(AnyCqe, CqEntries, cqes, cqe, cq_khead, cq_ktail)
    BY <1>1, <2>1, RingsDivide, SlicePut
  <2>4. /\ cqes' \in Arrays(AnyCqe, CqEntries)
        /\ Slice(cqes', CqEntries, cq_khead, n + 1) = Append(Ready, cqe)
    BY <1>2, <2>1, <2>3 DEF PutAppends
  <2>5. Ready' = Append(Ready, cqe)
    BY <1>3, <2>1, <2>2, <2>4 DEF Ready, io_uring_cq_ready
  <2>6. CqInv'
    BY <1>1, <1>2, <1>3, <2>1, <2>2, <2>4, RingsDivide DEF CqInv, CqTypes, CqSound, io_uring_cq_ready
  <2>7. Completions' = Append(Completions, cqe)
    BY <1>2, <1>4, <2>1, <2>5, ConcatEmptySeq, AppendProperties DEF Completions
  <2>8. ReadyGrows
    BY <1>2, <2>5, AppendProperties DEF ReadyGrows
  <2> QED
    BY <2>6, <2>7, <2>8, <1>2, DataOfAppend, CqDataOfCompletions, CqDataAfter
<1>5. CASE ~(overflow = <<>> /\ io_uring_cq_ready < CqEntries)
  <2>1. overflow' = Append(overflow, cqe) /\ cqes' = cqes /\ cq_ktail' = cq_ktail
    BY <1>5 DEF Post
  <2>2. Ready' = Ready
    BY <1>3, <2>1 DEF Ready, io_uring_cq_ready
  <2>3. CqInv'
    BY <1>1, <1>3, <2>1, AppendProperties DEF CqInv, CqTypes, CqSound, io_uring_cq_ready
  <2>4. Completions' = Append(Completions, cqe)
    <3>1. Completions' = Ready \o Append(overflow, cqe)
      BY <2>1, <2>2 DEF Completions
    <3>2. Ready \in Seq(AnyCqe) /\ overflow \in Seq(AnyCqe)
      BY <1>1, <1>2
    <3>3. Ready \o Append(overflow, cqe) = Append(Ready \o overflow, cqe)
      BY ONLY <3>2, AppendBehind, cqe \in AnyCqe
    <3> QED
      BY <3>1, <3>3 DEF Completions
  <2>5. ReadyGrows
    BY <1>2, <2>2 DEF ReadyGrows
  <2> QED
    BY <2>3, <2>4, <2>5, <1>2, DataOfAppend, CqDataOfCompletions, CqDataAfter
<1> QED
  BY <1>4, <1>5

LEMMA FlushOverflowQueues ==
  ASSUME CqInv, FlushOverflow, UNCHANGED cq_khead
  PROVE  CqInv' /\ CqData' = CqData /\ ReadyGrows
<1> DEFINE n == Distance(cq_khead, cq_ktail)
           m == Moved
           moved == SubSeq(overflow, 1, m)
           rest == SubSeq(overflow, m + 1, Len(overflow))
<1>1. /\ cq_khead \in Int /\ cq_ktail \in Int /\ cqes \in Arrays(AnyCqe, CqEntries)
      /\ overflow \in Seq(AnyCqe) /\ n <= CqEntries
  BY DEF CqInv, CqTypes, CqSound, io_uring_cq_ready
<1>2. /\ n \in Nat /\ Ready \in Seq(AnyCqe) /\ Len(Ready) = n /\ Len(overflow) \in Nat
      /\ Completions \in Seq(AnyCqe)
      /\ Ready = Slice(cqes, CqEntries, cq_khead, n)
  BY CqFacts DEF Ready, io_uring_cq_ready
<1>3. m \in Nat /\ m <= Len(overflow) /\ m <= CqEntries - n /\ m \in 0 .. Len(overflow)
  BY <1>1, <1>2, RingsDivide DEF Moved, Room, io_uring_cq_ready
<1>4. /\ cqes' = Written(cqes, CqEntries, cq_ktail, m, overflow)
      /\ cq_ktail' = Advance(cq_ktail, m) /\ overflow' = rest /\ cq_khead' = cq_khead
  BY DEF FlushOverflow, Written
<1> HIDE DEF n, m
<1>5. Distance(cq_khead, Advance(cq_ktail, m)) = n + m /\ cq_ktail' \in Int
  <2>1. n + m < Wrap
    BY <1>1, <1>2, <1>3, RingsDivide, WrapPositive DEF Divides
  <2> QED
    BY <1>1, <1>3, <1>4, <2>1, DistanceGrows, AdvanceType DEF n
<1>6. WrittenAppends(AnyCqe, CqEntries, cqes, cq_khead, cq_ktail, overflow, m)
  BY <1>1, <1>3, RingsDivide, SliceWritten DEF n
<1>7. /\ cqes' \in Arrays(AnyCqe, CqEntries)
      /\ Slice(cqes', CqEntries, cq_khead, n + m) = Ready \o moved
  BY <1>2, <1>4, <1>6 DEF WrittenAppends, n
<1>8. Ready' = Ready \o moved
  BY <1>4, <1>5, <1>7 DEF Ready, io_uring_cq_ready
<1>9. moved \in Seq(AnyCqe) /\ rest \in Seq(AnyCqe) /\ moved \o rest = overflow
  <2>1. moved \in Seq(AnyCqe) /\ rest \in Seq(AnyCqe)
    BY <1>1, <1>3, PrefixType, SuffixType
  <2>2. SubSeq(overflow, 1, m) \o SubSeq(overflow, m + 1, Len(overflow))
          = SubSeq(overflow, 1, Len(overflow))
    <3>1. /\ 1 \in 1 .. Len(overflow) + 1 /\ m \in 1 - 1 .. Len(overflow)
          /\ Len(overflow) \in m .. Len(overflow)
      BY <1>2, <1>3
    <3> QED
      BY <1>1, <3>1, ConcatAdjacentSubSeq
  <2>3. SubSeq(overflow, 1, Len(overflow)) = overflow
    BY <1>1, SubSeqFull
  <2> QED
    BY <2>1, <2>2, <2>3
<1> HIDE DEF moved, rest
<1>10. CqInv'
  <2>1. n + m <= CqEntries
    BY <1>2, <1>3, RingsDivide
  <2> QED
    BY <1>1, <1>4, <1>5, <1>7, <1>9, <2>1 DEF CqInv, CqTypes, CqSound, io_uring_cq_ready
<1>11. Completions' = Completions
  <2>1. Completions' = (Ready \o moved) \o rest
    BY <1>4, <1>8 DEF Completions
  <2>2. (Ready \o moved) \o rest = Ready \o (moved \o rest)
    <3>1. Ready \in Seq(AnyCqe) /\ moved \in Seq(AnyCqe) /\ rest \in Seq(AnyCqe)
      BY <1>2, <1>9
    <3> QED
      BY <3>1, ConcatAssociative
  <2> QED
    BY <1>9, <2>1, <2>2 DEF Completions
<1>12. ReadyGrows
  BY <1>2, <1>8, <1>9, ConcatProperties, LenProperties DEF ReadyGrows
<1> QED
  BY <1>10, <1>11, <1>12, CqDataOfCompletions, CqDataAfter

(* What __io_uring_peek_cqe passes over is in the ring, and none of it     *)
(* where the kernel takes timeouts.                                        *)
LEMMA SkippedInRing ==
  ASSUME CqInv
  PROVE  /\ Skipped \in 0 .. Len(Ready) /\ (ext_arg => Skipped = 0 /\ ~Expired)
         /\ Skipped > 0 => ~ext_arg /\ Len(Ready) >= 1 /\ Ready[1].data = TIMEOUT
<1> DEFINE S == {n \in DOMAIN Ready :
                   \A i \in 1 .. n : IsTimeout(Ready[i]) /\ (i < n => Ready[i].res = 0)}
           r == Len(Ready)
<1>1. r \in Nat /\ DOMAIN Ready = 1 .. r
  BY CqFacts, LenProperties
<1>3. S \in SUBSET (1 .. r)
  BY <1>1
<1>4. Skipped = Cardinality(S)
  BY DEF Skipped
<1>5. S # {} => ~ext_arg /\ r >= 1 /\ Ready[1].data = TIMEOUT
  <2>1. SUFFICES ASSUME NEW n \in S
                 PROVE  ~ext_arg /\ r >= 1 /\ Ready[1].data = TIMEOUT
    OBVIOUS
  <2>2. n \in 1 .. r /\ 1 \in 1 .. n
    BY <1>1
  <2>3. IsTimeout(Ready[1])
    BY <2>2
  <2> QED
    BY <1>1, <2>2, <2>3 DEF IsTimeout
<1> HIDE DEF S, r
<1>2. IsFiniteSet(1 .. r) /\ Cardinality(1 .. r) = r
  <2>1. 1 \in Int /\ r \in Int
    BY <1>1
  <2>2. IsFiniteSet(1 .. r) /\ Cardinality(1 .. r) = IF 1 > r THEN 0 ELSE r - 1 + 1
    BY <2>1, FS_Interval
  <2> QED
    BY <1>1, <2>2
<1>6. IsFiniteSet(S) /\ Cardinality(S) <= Cardinality(1 .. r) /\ Cardinality(S) \in Nat
  BY <1>2, <1>3, FS_Subset, FS_CardinalityType
<1>7. Skipped \in 0 .. r
  BY <1>1, <1>2, <1>4, <1>6
<1>8. Skipped > 0 => S # {}
  BY <1>4, FS_EmptySet
<1>9. Skipped > 0 => ~ext_arg /\ r >= 1 /\ Ready[1].data = TIMEOUT
  BY <1>5, <1>8
<1> QED
  BY <1>1, <1>7, <1>9 DEF r, Expired

(***************************************************************************)
(* The inductive invariant.                                                *)
(***************************************************************************)

Submitting == {"submit", "submit_timeout"}
Documented == {"peek", "wait", "wait_timeout"}

(* What the program holds is the front of the ring.                        *)
HandedInv ==
  /\ handed \in Seq(AnyCqe) /\ Len(handed) <= Len(Ready)
  /\ \A i \in 1 .. Len(handed) : handed[i] = Ready[i]

QueueInv == SqInv /\ CqInv /\ kernel \in Seq(AnyData) /\ HandedInv

LEMMA QueuesShown ==
  ASSUME QueueInv
  PROVE  Distance(sq_khead, sq_ktail) \in Nat
BY ShownCounted DEF QueueInv

LEMMA ShownAfter ==
  ASSUME QueueInv'
  PROVE  Distance(sq_khead', sq_ktail') \in Nat
<1>1. (QueueInv => Distance(sq_khead, sq_ktail) \in Nat)'
  BY QueuesShown, PTL
<1> QED
  BY <1>1 DEF Distance

(* Which calls may be where. *)
CallFits ==
  /\ pc \in {"idle", "sqwait"} => data = NoCall
  /\ pc = "flags" => data.call \in Submitting
  /\ pc = "look" => data.call \in GetCalls
  /\ pc = "batch" => data.call = "batch"
  /\ pc \in {"enter", "in_kernel"} => data.call # "none"

(* Without a polling thread no call asks the kernel for more entries than  *)
(* it has been shown.                                                      *)
SubmitBound ==
  /\ data.call = "batch" => data.submit = 0
  /\ pc \in {"flags", "look", "enter"} /\ ~sqpoll => data.submit <= Distance(sq_khead, sq_ktail)
  /\ pc = "in_kernel" =>
       /\ data.entered <= data.submit
       /\ ~sqpoll => data.submit - data.entered <= Distance(sq_khead, sq_ktail)

(* A completion that a call has found stays in the ring, and none of those *)
(* the program holds is passed over as an internal timeout.                *)
CompletionHeld ==
  /\ data.cqe => pc \in {"enter", "in_kernel"} /\ data.call \in GetCalls /\ Len(Ready) >= 1
  /\ data.call \in GetCalls \cup {"submit_timeout"} => ext_arg \/ HoldsNoTimeout

(* Where the kernel takes timeouts the waits submit nothing.               *)
NothingSubmitted ==
  /\ ext_arg => data.call # "submit_timeout"
  /\ ext_arg /\ data.call \in Documented => data.submit = 0 /\ data.entered = 0 /\ data.err <= 0

ControlInv ==
  /\ data \in DataType /\ sqpoll \in BOOLEAN /\ ext_arg \in BOOLEAN
  /\ CallFits /\ SubmitBound /\ CompletionHeld /\ NothingSubmitted

Inv == QueueInv /\ ControlInv /\ ReturnsCqeOrError

(***************************************************************************)
(* The queues, step by step.                                               *)
(***************************************************************************)

(* A step of the three queues, or none. *)
Mapped == Queues!Next \/ UNCHANGED <<sq, kernel, CqData>>

LEMMA HandedKept ==
  ASSUME QueueInv, ReadyGrows, UNCHANGED handed, Len(Ready') \in Nat
  PROVE  HandedInv'
<1>1. /\ handed \in Seq(AnyCqe) /\ Len(handed) <= Len(Ready) /\ handed' = handed
      /\ \A i \in 1 .. Len(handed) : handed[i] = Ready[i]
  BY DEF QueueInv, HandedInv
<1>2. Len(handed) \in Nat /\ Len(Ready) \in Nat
  BY <1>1, CqFacts, LenProperties DEF QueueInv
<1>3. Len(Ready) <= Len(Ready') /\ \A i \in 1 .. Len(Ready) : Ready'[i] = Ready[i]
  BY DEF ReadyGrows
<1> QED
  BY <1>1, <1>2, <1>3 DEF HandedInv

LEMMA QuietQueues ==
  ASSUME QueueInv, UNCHANGED <<cqVars, kernelVars, handed>>,
         \/ UNCHANGED sqVars
         \/ FlushSq /\ UNCHANGED <<sqe_tail, sq_khead, sqes>>
  PROVE  QueueInv' /\ Mapped
<1>1. SqInv' /\ sq' = sq
  BY SqUnchanged, SqFlushed DEF QueueInv
<1>2. CqInv' /\ CqData' = CqData /\ Ready' = Ready
  BY CqUnchanged DEF QueueInv
<1> QED
  BY <1>1, <1>2 DEF QueueInv, HandedInv, Mapped, kernelVars

LEMMA GetSqeStep ==
  ASSUME QueueInv, NEW op \in Data, GetSqe(op)
  PROVE  QueueInv' /\ Mapped
<1>1. op \in AnyData
  BY IoUringAssumption DEF AnyData
<1>2. SqeAvailable /\ PutSqe(op)
      /\ UNCHANGED <<sqe_head, sq_khead, sq_ktail, cqVars, kernelVars, handed>>
  BY DEF GetSqe
<1>3. /\ sq' = Append(sq, op) /\ Len(sq) < SqEntries
      /\ sqe_tail' \in Int /\ sqes' \in Arrays(AnyData, SqEntries)
      /\ Distance(sq_khead', sqe_tail') = Distance(sq_khead, sqe_tail) + 1
      /\ Distance(sq_khead', sqe_tail') <= SqEntries
  BY <1>1, <1>2, PutSqeQueues DEF QueueInv
<1>4. SqInv'
  <2>1. Distance(sq_khead, sqe_tail) \in Nat /\ Distance(sq_khead, sq_ktail) \in Nat
    BY SqFacts DEF QueueInv
  <2> QED
    BY <1>2, <1>3, <2>1 DEF QueueInv, SqInv, SqTypes, SqSound
<1>5. CqInv' /\ CqData' = CqData /\ Ready' = Ready
  BY <1>2, CqUnchanged DEF QueueInv
<1>6. QueueInv'
  BY <1>2, <1>4, <1>5 DEF QueueInv, HandedInv, kernelVars
<1>7. Queues!Prepare(op)
  BY <1>2, <1>3, <1>5 DEF Queues!Prepare, kernelVars
<1>8. op \in Operations
  BY DEF Operations
<1> QED
  BY <1>6, <1>7, <1>8 DEF Mapped, Queues!Next

(* A timeout of the library's own is prepared and shown to the kernel.     *)
LEMMA SubmitTimeoutQueues ==
  ASSUME QueueInv, SubmitTimeout, UNCHANGED <<sq_khead, kernel, CqData>>
  PROVE  SqInv' /\ Mapped
<1>1. CASE SqeAvailable
  <2>1. TIMEOUT \in AnyData /\ TIMEOUT \in Operations
    BY DEF TIMEOUT, AnyData, Operations
  <2>2. PutSqe(TIMEOUT) /\ sqe_head' = sqe_tail' /\ sq_ktail' = sqe_tail' /\ sq_khead' = sq_khead
    BY <1>1 DEF SubmitTimeout
  <2>3. /\ sq' = Append(sq, TIMEOUT) /\ Len(sq) < SqEntries
        /\ sqe_tail' \in Int /\ sqes' \in Arrays(AnyData, SqEntries)
        /\ Distance(sq_khead', sqe_tail') = Distance(sq_khead, sqe_tail) + 1
        /\ Distance(sq_khead', sqe_tail') <= SqEntries
    BY <1>1, <2>1, <2>2, PutSqeQueues DEF QueueInv
  <2>4. Distance(sq_khead, sqe_tail) \in Nat
    BY SqFacts DEF QueueInv
  <2>5. SqInv'
    BY <2>2, <2>3, <2>4 DEF QueueInv, SqInv, SqTypes, SqSound
  <2>6. Queues!Prepare(TIMEOUT)
    BY <2>3 DEF Queues!Prepare
  <2> QED
    BY <2>1, <2>5, <2>6 DEF Mapped, Queues!Next
<1>2. CASE ~SqeAvailable
  <2>1. UNCHANGED sqVars
    BY <1>2 DEF SubmitTimeout, sqVars
  <2> QED
    BY <2>1, SqUnchanged DEF QueueInv, Mapped
<1> QED
  BY <1>1, <1>2

(* The kernel takes entries. *)
LEMMA TakeQueues ==
  ASSUME QueueInv, NEW n \in 0 .. Distance(sq_khead, sq_ktail), TakeEntries(n),
         UNCHANGED <<sqe_head, sqe_tail, sq_ktail, CqData>>
  PROVE  SqInv' /\ kernel' \in Seq(AnyData) /\ Mapped
<1>1. /\ kernel' = kernel \o SubSeq(sq, 1, n) /\ sq' = SubSeq(sq, n + 1, Len(sq))
      /\ kernel' \in Seq(AnyData) /\ SqInv'
  BY TakeEntriesQueues DEF QueueInv
<1>2. Queues!Take(n)
  BY <1>1 DEF Queues!Take
<1>3. /\ Distance(sq_khead, sq_ktail) \in Nat /\ Distance(sq_khead, sqe_tail) \in Nat
      /\ Len(sq) = Distance(sq_khead, sqe_tail) /\ sq \in Seq(AnyData)
      /\ Distance(sq_khead, sq_ktail) <= Distance(sq_khead, sqe_tail)
  BY SqFacts DEF QueueInv, SqInv, SqSound
<1>4. CASE n = 0
  <2>1. SubSeq(sq, 1, 0) = <<>>
    BY SubSeqEmpty
  <2>2. SubSeq(sq, 0 + 1, Len(sq)) = sq
    BY <1>3, SubSeqFull
  <2>3. kernel \o <<>> = kernel
    BY ConcatEmptySeq DEF QueueInv
  <2> QED
    BY <1>1, <1>4, <2>1, <2>2, <2>3 DEF Mapped
<1>5. CASE n # 0
  <2>1. n \in DOMAIN sq
    BY <1>3, <1>5, LenProperties
  <2> QED
    BY <1>1, <1>2, <2>1 DEF Mapped, Queues!Next
<1> QED
  BY <1>4, <1>5

LEMMA SqThreadTakesStep ==
  ASSUME QueueInv, SqThreadTakes
  PROVE  QueueInv' /\ Mapped
<1>1. CqInv' /\ CqData' = CqData /\ Ready' = Ready
  BY CqUnchanged DEF QueueInv, SqThreadTakes
<1>2. PICK n \in DOMAIN Published : TakeEntries(n)
  BY DEF SqThreadTakes
<1>3. Published \in Seq(AnyData) /\ Len(Published) = Distance(sq_khead, sq_ktail)
  <2>1. sq_khead \in Int /\ Distance(sq_khead, sq_ktail) \in Nat /\ sqes \in Arrays(AnyData, SqEntries)
    BY SqFacts DEF QueueInv, SqInv, SqTypes
  <2> QED
    BY <2>1, RingsDivide, SliceType DEF Published, SliceFrom
<1>4. n \in 0 .. Distance(sq_khead, sq_ktail)
  BY <1>3, LenProperties
<1>5. SqInv' /\ kernel' \in Seq(AnyData) /\ Mapped
  BY <1>1, <1>2, <1>4, TakeQueues DEF SqThreadTakes
<1> QED
  BY <1>1, <1>5 DEF QueueInv, HandedInv, SqThreadTakes

LEMMA CompleteStep ==
  ASSUME QueueInv, NEW k \in DOMAIN kernel, Complete(k)
  PROVE  QueueInv' /\ Mapped /\ ReadyGrows
<1>1. kernel \in Seq(AnyData) /\ k \in 1 .. Len(kernel) /\ kernel[k] \in AnyData
  BY LenProperties, ElementOfSeq DEF QueueInv
<1>2. PICK res \in Int : Post([data |-> kernel[k], res |-> res])
  BY DEF Complete, ETIME
<1>3. [data |-> kernel[k], res |-> res] \in AnyCqe
  BY <1>1 DEF AnyCqe
<1>4. CqInv' /\ CqData' = Append(CqData, kernel[k]) /\ ReadyGrows
  BY <1>2, <1>3, PostQueues DEF QueueInv, Complete
<1>5. SqInv' /\ sq' = sq
  BY SqUnchanged DEF QueueInv, Complete
<1>6. kernel' = RemoveAt(kernel, k) /\ kernel' \in Seq(AnyData)
  BY <1>1, RemoveAtType DEF Complete
<1>8. HandedInv'
  BY <1>4, ReadyAfter, HandedKept DEF Complete
<1>9. Queues!Complete(k)
  BY <1>4, <1>5, <1>6 DEF Queues!Complete, Queues!RemoveAt, RemoveAt
<1> QED
  BY <1>4, <1>5, <1>6, <1>8, <1>9 DEF QueueInv, Mapped, Queues!Next

(* Completions leave the ring in front. *)
LEMMA GiveBackMapped ==
  ASSUME QueueInv, NEW n \in 0 .. Len(Ready), GivesBack(n),
         UNCHANGED <<cq_ktail, overflow, sqVars, kernelVars>>
  PROVE  /\ SqInv' /\ CqInv' /\ kernel' \in Seq(AnyData) /\ Mapped
         /\ Ready' \in Seq(AnyCqe) /\ Len(Ready') = Len(Ready) - n
         /\ \A i \in 1 .. Len(Ready) - n : Ready'[i] = Ready[n + i]
<1>1. /\ CqInv' /\ Ready' = SubSeq(Ready, n + 1, Len(Ready))
      /\ CqData' = SubSeq(CqData, n + 1, Len(CqData))
      /\ n \in 0 .. Len(CqData) /\ Len(CqData) \in Nat
  BY GiveBackQueues DEF QueueInv
<1>2. SqInv' /\ sq' = sq /\ kernel' = kernel
  BY SqUnchanged DEF QueueInv, kernelVars
<1>3. Ready \in Seq(AnyCqe) /\ CqData \in Seq(AnyData)
  BY CqFacts DEF QueueInv
<1>4. /\ Ready' \in Seq(AnyCqe) /\ Len(Ready') = Len(Ready) - n
      /\ \A i \in 1 .. Len(Ready) - n : Ready'[i] = Ready[n + i]
  BY <1>1, <1>3, SuffixType
<1>5. Mapped
  <2>1. CASE n = 0
    <3>1. CqData' = CqData
      BY <1>1, <1>3, <2>1, SubSeqFull
    <3> QED
      BY <1>2, <3>1 DEF Mapped
  <2>2. CASE n # 0
    <3>1. n \in DOMAIN CqData
      BY <1>1, <1>3, <2>2, LenProperties
    <3>2. Queues!GiveBack(n)
      BY <1>1, <1>2 DEF Queues!GiveBack
    <3> QED
      BY <3>1, <3>2 DEF Mapped, Queues!Next
  <2> QED
    BY <2>1, <2>2
<1> QED
  BY <1>1, <1>2, <1>4, <1>5 DEF QueueInv

LEMMA CqAdvanceStep ==
  ASSUME QueueInv, NEW n \in 1 .. CqEntries, CqAdvance(n)
  PROVE  QueueInv' /\ Mapped
<1>1. /\ n <= Len(handed) /\ GivesBack(n) /\ handed' = SubSeq(handed, n + 1, Len(handed))
      /\ UNCHANGED <<cq_ktail, overflow, sqVars, kernelVars>>
  BY DEF CqAdvance, GivesBack
<1>2. /\ handed \in Seq(AnyCqe) /\ Len(handed) \in Nat /\ Len(handed) <= Len(Ready)
      /\ \A i \in 1 .. Len(handed) : handed[i] = Ready[i]
      /\ Len(Ready) \in Nat
  BY LenProperties, ReadyCounted DEF QueueInv, HandedInv
<1>3. n \in 0 .. Len(handed) /\ n \in 0 .. Len(Ready)
  BY <1>1, <1>2
<1>4. /\ SqInv' /\ CqInv' /\ kernel' \in Seq(AnyData) /\ Mapped
      /\ Ready' \in Seq(AnyCqe) /\ Len(Ready') = Len(Ready) - n
      /\ \A i \in 1 .. Len(Ready) - n : Ready'[i] = Ready[n + i]
  BY <1>1, <1>3, GiveBackMapped
<1>5. /\ handed' \in Seq(AnyCqe) /\ Len(handed') = Len(handed) - n
      /\ \A i \in 1 .. Len(handed) - n : handed'[i] = handed[n + i]
  BY <1>1, <1>2, <1>3, SuffixType
<1>6. ASSUME NEW i \in 1 .. Len(handed')
      PROVE  handed'[i] = Ready'[i]
  <2>1. i \in 1 .. Len(handed) - n /\ i \in 1 .. Len(Ready) - n /\ n + i \in 1 .. Len(handed)
    BY <1>2, <1>3, <1>5
  <2> QED
    BY <1>2, <1>4, <1>5, <2>1
<1>7. Len(handed') <= Len(Ready')
  BY <1>2, <1>3, <1>4, <1>5
<1> QED
  BY <1>4, <1>5, <1>6, <1>7 DEF QueueInv, HandedInv

(* Passing over internal timeouts, the calls take the first of the others. *)
LEMMA SkipStep ==
  ASSUME QueueInv, ext_arg \/ HoldsNoTimeout, Skip,
         UNCHANGED <<cq_ktail, overflow, sqVars, kernelVars>>,
         UNCHANGED handed \/ (Available > 0 /\ Hand(1))
  PROVE  QueueInv' /\ Mapped /\ Len(Ready') = Available
<1> DEFINE n == Skipped
<1>1. n \in 0 .. Len(Ready) /\ (n > 0 => ~ext_arg /\ Len(Ready) >= 1 /\ Ready[1].data = TIMEOUT)
  BY SkippedInRing DEF QueueInv
<1>2. GivesBack(n)
  BY DEF Skip, GivesBack
<1>3. /\ SqInv' /\ CqInv' /\ kernel' \in Seq(AnyData) /\ Mapped
      /\ Ready' \in Seq(AnyCqe) /\ Len(Ready') = Len(Ready) - n
      /\ \A i \in 1 .. Len(Ready) - n : Ready'[i] = Ready[n + i]
  BY <1>1, <1>2, GiveBackMapped
<1>4. /\ handed \in Seq(AnyCqe) /\ Len(handed) \in Nat /\ Len(handed) <= Len(Ready)
      /\ \A i \in 1 .. Len(handed) : handed[i] = Ready[i]
      /\ Len(Ready) \in Nat /\ Ready \in Seq(AnyCqe)
  BY LenProperties, CqFacts DEF QueueInv, HandedInv
<1>5. n > 0 => Len(handed) = 0
  <2>1. SUFFICES ASSUME n > 0, 1 \in 1 .. Len(handed)
                 PROVE  FALSE
    BY <1>4
  <2>2. handed[1].data = TIMEOUT /\ ~ext_arg
    BY <1>1, <1>4, <2>1
  <2>3. handed[1] \in Range(handed)
    BY <1>4, <2>1, LenProperties DEF Range
  <2> QED
    BY <2>2, <2>3 DEF HoldsNoTimeout
<1>6. Available = Len(Ready) - n
  BY DEF Available
<1> HIDE DEF n
<1>7. CASE UNCHANGED handed
  <2>1. n \in Nat /\ handed' = handed
    BY <1>1, <1>7
  <2>2. HandedInv'
    <3>1. CASE n = 0
      <4>1. Len(Ready') = Len(Ready) /\ \A i \in 1 .. Len(Ready) : Ready'[i] = Ready[i]
        BY <1>3, <1>4, <3>1
      <4>2. \A i \in 1 .. Len(handed) : handed[i] = Ready'[i]
        BY <1>4, <4>1
      <4> QED
        BY <1>4, <2>1, <4>1, <4>2 DEF HandedInv
    <3>2. CASE n # 0
      <4>1. Len(handed) = 0 /\ Len(Ready') \in Nat
        BY <1>3, <1>5, <2>1, <3>2, LenProperties
      <4> QED
        BY <1>4, <2>1, <4>1 DEF HandedInv
    <3> QED
      BY <3>1, <3>2
  <2> QED
    BY <1>3, <1>6, <2>2 DEF QueueInv
<1>8. CASE Available > 0 /\ Hand(1)
  <2>1. CASE 1 <= Len(handed)
    <3>1. UNCHANGED handed
      BY <1>8, <2>1 DEF Hand
    <3> QED
      BY <3>1, <1>7
  <2>2. CASE ~(1 <= Len(handed))
    <3> DEFINE m == n + 1
    <3>1. handed' = SubSeq(Ready, m, m)
      BY <1>8, <2>2 DEF Hand, n
    <3>2. m \in Int /\ m \in 1 .. Len(Ready) /\ Len(Ready) - n >= 1
      BY <1>1, <1>4, <1>6, <1>8
    <3> HIDE DEF m
    <3>3. \A i \in m .. m : Ready[i] \in AnyCqe
      BY <1>4, <3>2, ElementOfSeq
    <3>4. /\ handed' \in Seq(AnyCqe) /\ Len(handed') = IF m <= m THEN m - m + 1 ELSE 0
          /\ \A i \in 1 .. m - m + 1 : handed'[i] = Ready[m + i - 1]
      BY <3>1, <3>2, <3>3, SubSeqProperties
    <3>5. Len(handed') = 1 /\ handed'[1] = Ready[m]
      <4>1. m <= m /\ m - m + 1 = 1 /\ m + 1 - 1 = m /\ 1 \in 1 .. 1
        BY <3>2
      <4>2. Len(handed') = 1
        BY <3>4, <4>1
      <4>3. handed'[1] = Ready[m + 1 - 1]
        BY <3>4, <4>1
      <4> QED
        BY <4>1, <4>2, <4>3
    <3>6. Ready'[1] = Ready[m]
      BY <1>3, <3>2 DEF m
    <3> QED
      BY <1>3, <1>6, <3>2, <3>4, <3>5, <3>6 DEF QueueInv, HandedInv
  <2> QED
    BY <2>1, <2>2
<1> QED
  BY <1>7, <1>8

(* A batch hands the program the front of the ring. *)
LEMMA BatchQueues ==
  ASSUME QueueInv, data \in DataType, Batch
  PROVE  QueueInv' /\ Mapped
<1>1. UNCHANGED <<sqVars, cqVars, kernelVars>>
  BY DEF Batch
<1>2. CASE UNCHANGED handed
  BY <1>1, <1>2, QuietQueues
<1>3. CASE ~UNCHANGED handed
  <2> DEFINE n == IF data.wait_nr < Len(Ready) THEN data.wait_nr ELSE Len(Ready)
  <2>1. handed' = SubSeq(Ready, 1, n)
    BY <1>3 DEF Batch
  <2>2. Len(Ready) \in Nat /\ Ready \in Seq(AnyCqe) /\ data.wait_nr \in Nat
    BY CqFacts DEF QueueInv, DataType
  <2>3. n \in 0 .. Len(Ready)
    BY <2>2
  <2> HIDE DEF n
  <2>4. handed' \in Seq(AnyCqe) /\ Len(handed') = n /\ \A i \in 1 .. n : handed'[i] = Ready[i]
    BY <2>1, <2>2, <2>3, PrefixType
  <2>5. SqInv' /\ sq' = sq
    BY <1>1, SqUnchanged DEF QueueInv
  <2>6. CqInv' /\ CqData' = CqData /\ Ready' = Ready
    BY <1>1, CqUnchanged DEF QueueInv
  <2>7. HandedInv'
    BY <2>2, <2>3, <2>4, <2>6 DEF HandedInv
  <2> QED
    BY <1>1, <2>5, <2>6, <2>7 DEF QueueInv, Mapped, kernelVars
<1> QED
  BY <1>2, <1>3

(* Entering the kernel. *)
LEMMA EnterQueues ==
  ASSUME QueueInv, data \in DataType, SubmitBound, sqpoll \in BOOLEAN, Enter
  PROVE  /\ QueueInv' /\ Mapped /\ ReadyGrows /\ pc' = "in_kernel" /\ UNCHANGED <<modeVars, handed>>
         /\ \E n \in 0 .. data.submit :
              /\ data' = [data EXCEPT !.entered = n]
              /\ ~sqpoll => Distance(sq_khead', sq_ktail') = Distance(sq_khead, sq_ktail) - n
<1>1. PICK n \in (IF sqpoll \/ ~faulty \/ data.submit = 0 THEN {data.submit} ELSE 1 .. data.submit) :
       /\ data' = [data EXCEPT !.entered = n]
       /\ IF sqpoll THEN UNCHANGED <<kernel, sq_khead, sqes>> ELSE TakeEntries(n)
       /\ IF data.getevents /\ n = data.submit THEN FlushOverflow
                                              ELSE UNCHANGED <<cqes, cq_ktail, overflow>>
  BY DEF Enter
<1>2. /\ pc = "enter" /\ pc' = "in_kernel"
      /\ UNCHANGED <<modeVars, sqe_head, sqe_tail, sq_ktail, cq_khead, met, handed>>
  BY DEF Enter
<1>3. data.submit \in Nat /\ n \in 0 .. data.submit
  BY <1>1 DEF DataType
<1>4. Distance(sq_khead, sq_ktail) \in Nat /\ (~sqpoll => n \in 0 .. Distance(sq_khead, sq_ktail))
  BY <1>2, <1>3, SqFacts DEF QueueInv, SubmitBound
<1>5. CqInv' /\ CqData' = CqData /\ ReadyGrows
  <2>1. CASE FlushOverflow
    BY <1>2, <2>1, FlushOverflowQueues DEF QueueInv
  <2>2. CASE UNCHANGED <<cqes, cq_ktail, overflow>>
    <3>1. UNCHANGED cqVars
      BY <1>2, <2>2 DEF cqVars
    <3>2. Len(Ready) \in Nat
      BY ReadyCounted DEF QueueInv
    <3> QED
      BY <3>1, <3>2, CqUnchanged DEF QueueInv, ReadyGrows
  <2> QED
    BY <1>1, <2>1, <2>2
<1>6. SqInv' /\ kernel' \in Seq(AnyData) /\ Mapped
  <2>1. CASE sqpoll
    <3>1. UNCHANGED sqVars /\ kernel' = kernel
      BY <1>1, <1>2, <2>1 DEF sqVars
    <3> QED
      BY <1>5, <3>1, SqUnchanged DEF QueueInv, Mapped
  <2>2. CASE ~sqpoll
    BY <1>1, <1>2, <1>4, <1>5, <2>2, TakeQueues
  <2> QED
    BY <2>1, <2>2
<1>7. ~sqpoll => Distance(sq_khead', sq_ktail') = Distance(sq_khead, sq_ktail) - n
  BY <1>1, <1>2, <1>4, TakeEntriesQueues DEF QueueInv
<1>8. HandedInv'
  BY <1>2, <1>5, ReadyAfter, HandedKept
<1> QED
  BY <1>1, <1>2, <1>3, <1>5, <1>6, <1>7, <1>8 DEF QueueInv

(* What a call does after the kernel has returned. *)
LEMMA ContinueQueues ==
  ASSUME QueueInv, NEW ret, Continue(ret), data.cqe => Len(Ready) >= 1,
         UNCHANGED <<sq_khead, cqVars, kernelVars>>
  PROVE  QueueInv' /\ Mapped
<1>1. CqInv' /\ CqData' = CqData /\ Ready' = Ready
  BY CqUnchanged DEF QueueInv
<1>2. SqInv' /\ Mapped
  <2>1. CASE SubmitTimeout
    BY <1>1, <2>1, SubmitTimeoutQueues DEF kernelVars
  <2>2. CASE UNCHANGED <<sqe_head, sqe_tail, sq_ktail, sqes>>
    BY <1>1, <2>2, SqUnchanged DEF QueueInv, Mapped, sqVars, kernelVars
  <2> QED
    BY <2>1, <2>2 DEF Continue
<1>3. HandedInv'
  <2>1. CASE data.cqe /\ handed = <<>>
    <3>1. handed' = SubSeq(Ready, 1, 1)
      BY <2>1 DEF Continue
    <3>2. Ready \in Seq(AnyCqe) /\ 1 \in 0 .. Len(Ready) /\ Len(Ready) \in Nat
      BY <2>1, CqFacts DEF QueueInv
    <3>3. handed' \in Seq(AnyCqe) /\ Len(handed') = 1 /\ \A i \in 1 .. 1 : handed'[i] = Ready[i]
      BY <3>1, <3>2, PrefixType
    <3> QED
      BY <1>1, <3>2, <3>3 DEF HandedInv
  <2>2. CASE ~(data.cqe /\ handed = <<>>)
    <3>1. handed' = handed
      BY <2>2 DEF Continue
    <3> QED
      BY <1>1, <3>1 DEF QueueInv, HandedInv
  <2> QED
    BY <2>1, <2>2
<1> QED
  BY <1>1, <1>2, <1>3 DEF QueueInv, kernelVars

(***************************************************************************)
(* The calls, step by step.                                                *)
(***************************************************************************)

LEMMA NoCallType ==
  /\ NoCall \in DataType /\ NoCall.call = "none" /\ NoCall.submit = 0 /\ ~NoCall.cqe
  /\ NoCall.entered = 0 /\ NoCall.err = 0
  /\ \A call \in CallTypes :
       /\ Begin(call) \in DataType /\ Begin(call).call = call /\ Begin(call).submit = 0
       /\ ~Begin(call).cqe /\ Begin(call).entered = 0 /\ Begin(call).err = 0
<1> DEFINE d == NoCall
<1>1. "none" \in CallTypes
  BY DEF CallTypes
<1>2. /\ d \in DataType /\ d.call = "none" /\ d.submit = 0 /\ ~d.cqe /\ d.entered = 0 /\ d.err = 0
  <2>1. d = [call |-> "none", submit |-> 0, wait_nr |-> 0, has_ts |-> FALSE, looped |-> FALSE,
             err |-> 0, cqe |-> FALSE, getevents |-> FALSE, wakeup |-> FALSE, entered |-> 0]
    BY DEF NoCall
  <2> HIDE DEF d
  <2>2. d.call = "none" /\ d.submit = 0 /\ ~d.cqe /\ d.entered = 0 /\ d.err = 0
    BY <2>1
  <2>3. d \in DataType
    BY <1>1, <2>1 DEF DataType
  <2> QED
    BY <2>2, <2>3
<1>3. ASSUME NEW call \in CallTypes
      PROVE  /\ Begin(call) \in DataType /\ Begin(call).call = call /\ Begin(call).submit = 0
             /\ ~Begin(call).cqe /\ Begin(call).entered = 0 /\ Begin(call).err = 0
  <2>1. Begin(call) = [d EXCEPT !.call = call]
    BY DEF Begin
  <2> HIDE DEF d
  <2> QED
    BY <1>2, <2>1 DEF DataType
<1> QED
  BY <1>2, <1>3

(* A call has returned. *)
LEMMA ReturnControl ==
  ASSUME ControlInv, UNCHANGED modeVars, pc' \in {"idle", "sqwait"}, data' = NoCall
  PROVE  ControlInv'
BY NoCallType DEF ControlInv, modeVars, CallFits, SubmitBound, CompletionHeld, NothingSubmitted,
     Submitting, Documented, GetCalls

(* A call begins, or goes on to look at the ring. *)
LEMMA LooksControl ==
  ASSUME ControlInv, UNCHANGED modeVars, pc' = "look",
         data' \in DataType, data'.call \in GetCalls, ~data'.cqe,
         ext_arg \/ HoldsNoTimeout',
         ~sqpoll => data'.submit <= Distance(sq_khead', sq_ktail'),
         ext_arg /\ data'.call \in Documented =>
           data'.submit = 0 /\ data'.entered = 0 /\ data'.err <= 0
  PROVE  ControlInv'
BY DEF ControlInv, modeVars, CallFits, SubmitBound, CompletionHeld, NothingSubmitted,
     Submitting, Documented, GetCalls

LEMMA SubmitTimeoutControl ==
  ASSUME ControlInv, QueueInv, SubmitTimeout, UNCHANGED <<modeVars, sq_khead, handed>>,
         ~ext_arg, HoldsNoTimeout
  PROVE  ControlInv' /\ ReturnsCqeOrError'
<1>1. ReturnsCqeOrError'
  BY DEF ReturnsCqeOrError, modeVars
<1>2. CASE SqeAvailable
  <2> DEFINE d == Distance(sq_khead, sqe_tail')
  <2>1. /\ PutSqe(TIMEOUT) /\ sq_ktail' = sqe_tail' /\ pc' = "look"
        /\ data' = [Begin("wait_timeout") EXCEPT !.wait_nr = 1, !.submit = d]
    BY <1>2 DEF SubmitTimeout
  <2>2. d \in Nat
    <3>1. sqe_tail \in Int /\ sq_khead \in Int
      BY DEF QueueInv, SqInv, SqTypes
    <3> QED
      BY <2>1, <3>1, AdvanceType, DistanceType DEF PutSqe
  <2> HIDE DEF d
  <2>3. /\ data' \in DataType /\ data'.call = "wait_timeout" /\ ~data'.cqe /\ data'.submit = d
    <3> DEFINE b == Begin("wait_timeout")
    <3>1. "wait_timeout" \in CallTypes
      BY DEF CallTypes, GetCalls
    <3>2. b \in DataType /\ b.call = "wait_timeout" /\ ~b.cqe
      BY <3>1, NoCallType
    <3>3. data' = [b EXCEPT !.wait_nr = 1, !.submit = d]
      BY <2>1
    <3> HIDE DEF b
    <3> QED
      BY <2>2, <3>2, <3>3 DEF DataType
  <2>4. d = Distance(sq_khead', sq_ktail')
    BY <2>1 DEF d
  <2>5. HoldsNoTimeout' /\ d <= Distance(sq_khead', sq_ktail')
    BY <2>2, <2>4 DEF HoldsNoTimeout
  <2> QED
    BY <1>1, <2>1, <2>3, <2>5, LooksControl DEF GetCalls
<1>3. CASE ~SqeAvailable
  BY <1>1, <1>3, ReturnControl DEF SubmitTimeout, Return
<1> QED
  BY <1>2, <1>3

LEMMA ContinueControl ==
  ASSUME Inv, NEW ret \in Int, Continue(ret), pc \in {"flags", "enter", "in_kernel"},
         UNCHANGED <<modeVars, sq_khead, cqVars, kernelVars>>,
         data.call \in GetCalls /\ ret >= 0 =>
           /\ ret <= data.submit
           /\ ~sqpoll => data.submit - ret <= Distance(sq_khead, sq_ktail)
           /\ ext_arg /\ data.call \in Documented => ret = 0
  PROVE  ControlInv' /\ ReturnsCqeOrError'
<1>1. /\ ControlInv /\ QueueInv /\ data \in DataType /\ data.call \in CallTypes /\ data.submit \in Nat
      /\ data.err \in Int /\ sqpoll' = sqpoll /\ ext_arg' = ext_arg
  BY DEF Inv, ControlInv, DataType, modeVars
<1>2. data.call \in Submitting \cup {"batch"} \cup GetCalls
  BY <1>1 DEF ControlInv, CallFits, CallTypes, Submitting
<1>3. data.call \notin GetCalls => ~data.cqe /\ handed' = handed
  BY <1>1 DEF ControlInv, CompletionHeld, Continue
<1>4. CASE data.call = "submit_timeout" /\ ret >= 0
  <2>1. SubmitTimeout
    BY <1>4 DEF Continue
  <2>2. ~ext_arg /\ HoldsNoTimeout
    BY <1>1, <1>4 DEF ControlInv, NothingSubmitted, CompletionHeld
  <2>3. handed' = handed
    BY <1>3, <1>4 DEF GetCalls
  <2> QED
    BY <1>1, <2>1, <2>2, <2>3, SubmitTimeoutControl
<1>5. CASE data.call = "submit"
  <2>1. Return("submit", ret, FALSE)
    BY <1>5 DEF Continue
  <2> QED
    BY <1>1, <2>1, ReturnControl DEF Return, ReturnsCqeOrError
<1>6. CASE data.call = "submit_timeout" /\ ~(ret >= 0)
  <2>1. Return("wait_timeout", ret, FALSE)
    BY <1>6 DEF Continue
  <2>2. ~ext_arg
    BY <1>1, <1>6 DEF ControlInv, NothingSubmitted
  <2> QED
    BY <1>1, <2>1, <2>2, ReturnControl DEF Return, ReturnsCqeOrError
<1>7. CASE data.call = "batch"
  <2>1. pc' = "batch" /\ data' = [data EXCEPT !.looped = TRUE, !.getevents = FALSE] /\ reply' = reply
    BY <1>7 DEF Continue
  <2>2. /\ data' \in DataType /\ data'.call = "batch" /\ data'.submit = data.submit
        /\ data'.cqe = data.cqe
    BY <1>1, <1>7, <2>1 DEF DataType
  <2>3. data.submit = 0 /\ ~data.cqe
    BY <1>1, <1>3, <1>7 DEF ControlInv, SubmitBound, GetCalls
  <2>4. ControlInv'
    BY <1>1, <2>1, <2>2, <2>3 DEF ControlInv, CallFits, SubmitBound, CompletionHeld, NothingSubmitted,
         Submitting, Documented, GetCalls
  <2> QED
    BY <1>1, <2>1, <2>4 DEF ReturnsCqeOrError, Inv
<1>8. CASE data.call \in GetCalls
  <2>1. GetCqeContinues(ret) /\ UNCHANGED <<sq_ktail>>
    BY <1>8 DEF Continue, GetCalls
  <2>2. ext_arg /\ data.call \in Documented => data.submit = 0 /\ data.err <= 0
    BY <1>1 DEF ControlInv, NothingSubmitted
  <2>3. CASE ret < 0
    <3> DEFINE r == IF data.err = 0 THEN ret ELSE data.err
    <3>a. ~(ret >= 0)
      BY <2>3
    <3>1. Return(data.call, r, data.cqe)
      BY <2>1, <2>3, <3>a, Zenon DEF GetCqeContinues
    <3>2. ext_arg /\ data.call \in Documented => r < 0 /\ r \in Int
      BY <1>1, <2>2, <2>3
    <3> HIDE DEF r
    <3>3. reply' = [call |-> data.call, ret |-> Sign(r), cqe |-> data.cqe]
      BY <3>1 DEF Return
    <3>4. ReturnsCqeOrError'
      BY <1>1, <3>2, <3>3 DEF ReturnsCqeOrError, Documented, Sign
    <3> QED
      BY <1>1, <3>1, <3>4, ReturnControl DEF Return
  <2>4. CASE ret >= 0 /\ data.cqe
    <3>a. ~(ret < 0)
      BY <2>4
    <3>1. Return(data.call, data.err, TRUE)
      BY <2>1, <2>4, <3>a, Zenon DEF GetCqeContinues
    <3>2. reply' = [call |-> data.call, ret |-> Sign(data.err), cqe |-> TRUE]
      BY <3>1 DEF Return
    <3>3. ReturnsCqeOrError'
      BY <1>1, <2>2, <3>2 DEF ReturnsCqeOrError, Documented, Sign
    <3> QED
      BY <1>1, <3>1, <3>3, ReturnControl DEF Return
  <2>5. CASE ret >= 0 /\ ~data.cqe
    <3>1. /\ pc' = "look" /\ reply' = reply
          /\ data' = [data EXCEPT !.submit = @ - ret, !.looped = TRUE, !.entered = 0,
                                  !.err = IF data.looped THEN @ ELSE ret]
      BY <2>1, <2>5 DEF GetCqeContinues
    <3>2. data.submit - ret \in Nat /\ (~sqpoll => data.submit - ret <= Distance(sq_khead, sq_ktail))
      BY <1>1, <1>8, <2>5
    <3>3. ext_arg /\ data.call \in Documented => ret = 0
      BY <1>8, <2>5
    <3> DEFINE e == IF data.looped THEN data.err ELSE ret
    <3>4. e \in Int /\ (ext_arg /\ data.call \in Documented => e <= 0)
      BY <1>1, <2>2, <3>3
    <3>5. data' = [data EXCEPT !.submit = data.submit - ret, !.looped = TRUE, !.entered = 0, !.err = e]
      BY <3>1
    <3> HIDE DEF e
    <3>6. /\ data' \in DataType /\ data'.call = data.call /\ data'.cqe = data.cqe
          /\ data'.submit = data.submit - ret /\ data'.entered = 0 /\ data'.err = e
      BY <1>1, <3>2, <3>4, <3>5 DEF DataType
    <3>7. handed' = handed
      BY <2>5 DEF Continue
    <3>8. ext_arg \/ HoldsNoTimeout'
      BY <1>1, <1>8, <3>7 DEF ControlInv, CompletionHeld, HoldsNoTimeout
    <3>9. ext_arg /\ data.call \in Documented => data.submit - ret = 0
      BY <1>1, <2>2, <3>3
    <3>10. ControlInv'
      BY <1>1, <1>8, <2>1, <2>5, <3>1, <3>2, <3>4, <3>6, <3>8, <3>9, LooksControl
    <3> QED
      BY <1>1, <3>1, <3>10 DEF ReturnsCqeOrError, Inv
  <2> QED
    BY <2>3, <2>4, <2>5
<1> QED
  BY <1>2, <1>4, <1>5, <1>6, <1>7, <1>8 DEF Submitting

(* Steps of the kernel and of its thread leave the calls alone. *)
LEMMA KernelControl ==
  ASSUME Inv, UNCHANGED <<modeVars, pc, data, reply, handed>>, ReadyGrows, CqInv',
         ~sqpoll => Distance(sq_khead', sq_ktail') = Distance(sq_khead, sq_ktail)
  PROVE  ControlInv' /\ ReturnsCqeOrError'
<1>1. Len(Ready) \in Nat /\ Len(Ready') \in Nat /\ Len(Ready) <= Len(Ready')
  BY ReadyCounted, ReadyAfter DEF Inv, QueueInv, ReadyGrows
<1>2. /\ pc' = pc /\ data' = data /\ sqpoll' = sqpoll /\ ext_arg' = ext_arg /\ handed' = handed
      /\ ControlInv
  BY DEF Inv, modeVars
<1>3. ReturnsCqeOrError'
  BY <1>2 DEF Inv, ReturnsCqeOrError
<1>4. HoldsNoTimeout' = HoldsNoTimeout
  BY <1>2 DEF HoldsNoTimeout
<1>5. CallFits' /\ NothingSubmitted' /\ SubmitBound'
  BY <1>2 DEF ControlInv, CallFits, NothingSubmitted, SubmitBound
<1>6. CompletionHeld'
  BY <1>1, <1>2, <1>4 DEF ControlInv, CompletionHeld
<1> QED
  BY <1>2, <1>3, <1>5, <1>6 DEF ControlInv

(* The program gets an entry or gives completions back. *)
LEMMA ProgramControl ==
  ASSUME Inv, pc = "idle", UNCHANGED <<modeVars, pc, data>>, reply' = NoReply
  PROVE  ControlInv' /\ ReturnsCqeOrError'
<1>1. data' = NoCall /\ pc' = "idle" /\ ControlInv
  BY DEF Inv, ControlInv, CallFits
<1> QED
  BY <1>1, ReturnControl DEF ReturnsCqeOrError, NoReply

LEMMA BeginPlain ==
  ASSUME NEW call \in CallTypes, NEW wait_nr \in Nat
  PROVE  /\ [Begin(call) EXCEPT !.wait_nr = wait_nr]
              = [Begin(call) EXCEPT !.wait_nr = wait_nr, !.has_ts = FALSE, !.submit = 0]
         /\ [Begin(call) EXCEPT !.wait_nr = wait_nr, !.has_ts = TRUE]
              = [Begin(call) EXCEPT !.wait_nr = wait_nr, !.has_ts = TRUE, !.submit = 0]
<1> DEFINE b == Begin(call)
<1>1. b \in DataType /\ b.submit = 0
  BY NoCallType
<1>2. b.has_ts = FALSE
  BY DEF Begin, NoCall
<1> HIDE DEF b
<1> QED
  BY <1>1, <1>2 DEF b, DataType

(* Calls that begin with looking at the ring. *)
LEMMA BeginLooking ==
  ASSUME Inv, NEW call \in GetCalls, NEW wait_nr \in Nat, NEW has_ts \in BOOLEAN, NEW submit \in Nat,
         data' = [Begin(call) EXCEPT !.wait_nr = wait_nr, !.has_ts = has_ts, !.submit = submit],
         pc' = "look", reply' = NoReply, UNCHANGED <<modeVars, handed>>,
         ext_arg \/ HoldsNoTimeout,
         submit <= Distance(sq_khead', sq_ktail') \/ (submit = 0 /\ Distance(sq_khead', sq_ktail') \in Nat),
         submit = 0 \/ call \notin Documented
  PROVE  ControlInv' /\ ReturnsCqeOrError'
<1> DEFINE b == Begin(call)
<1>1. /\ b \in DataType /\ b.call = call /\ ~b.cqe /\ b.entered = 0 /\ b.err = 0
  BY NoCallType DEF CallTypes
<1>2. data' = [b EXCEPT !.wait_nr = wait_nr, !.has_ts = has_ts, !.submit = submit]
  OBVIOUS
<1> HIDE DEF b
<1>3. /\ data' \in DataType /\ data'.call = call /\ ~data'.cqe /\ data'.submit = submit
      /\ data'.entered = 0 /\ data'.err = 0
  BY <1>1, <1>2 DEF DataType
<1>4. ext_arg \/ HoldsNoTimeout'
  BY DEF HoldsNoTimeout
<1>5. ControlInv'
  BY <1>3, <1>4, LooksControl DEF Inv
<1> QED
  BY <1>5 DEF ReturnsCqeOrError, NoReply

(***************************************************************************)
(* Every step.                                                             *)
(***************************************************************************)

LEMMA SubmitStep ==
  ASSUME Inv, NEW wait_nr \in {0, 1}, NEW getevents \in BOOLEAN, Submit(wait_nr, getevents)
  PROVE  Inv' /\ Mapped
<1> DEFINE d == Distance(sq_khead, sqe_tail)
<1>1. /\ FlushSq /\ UNCHANGED <<modeVars, sqe_tail, sq_khead, sqes, cqVars, kernelVars, handed>>
      /\ pc' = "flags" /\ reply' = NoReply /\ pc = "idle"
      /\ data' = [NoCall EXCEPT !.call = "submit", !.submit = d,
                                !.wait_nr = wait_nr, !.getevents = getevents]
  BY DEF Submit
<1>2. QueueInv' /\ Mapped
  BY <1>1, QuietQueues DEF Inv
<1>3. d \in Nat /\ Distance(sq_khead', sq_ktail') = d
  BY <1>1, SqFacts, SqFlushed DEF Inv, QueueInv
<1> HIDE DEF d
<1>4. data' \in DataType /\ data'.call = "submit" /\ ~data'.cqe /\ data'.submit = d
  <2> DEFINE b == NoCall
  <2>1. b \in DataType /\ ~b.cqe
    BY NoCallType
  <2>2. /\ data' = [b EXCEPT !.call = "submit", !.submit = d,
                              !.wait_nr = wait_nr, !.getevents = getevents]
        /\ wait_nr \in Nat
    BY <1>1
  <2> HIDE DEF b
  <2> QED
    BY <1>3, <2>1, <2>2 DEF DataType, CallTypes
<1>5. ControlInv'
  BY <1>1, <1>3, <1>4 DEF Inv, ControlInv, modeVars, CallFits, SubmitBound, CompletionHeld,
     NothingSubmitted, Submitting, Documented, GetCalls
<1> QED
  BY <1>1, <1>2, <1>5 DEF Inv, ReturnsCqeOrError, NoReply

LEMMA SqringWaitStep ==
  ASSUME Inv, SqringWait \/ SqringWaitReturns
  PROVE  Inv' /\ Mapped
<1>1. QueueInv' /\ Mapped
  BY QuietQueues DEF Inv, SqringWait, SqringWaitReturns
<1>2. pc \in {"idle", "sqwait"} /\ pc' \in {"idle", "sqwait"} /\ UNCHANGED modeVars /\ data' = NoCall
  BY DEF Inv, ControlInv, CallFits, SqringWait, SqringWaitReturns, Return
<1>3. ReturnsCqeOrError'
  BY DEF SqringWait, SqringWaitReturns, Return, ReturnsCqeOrError, NoReply
<1> QED
  BY <1>1, <1>2, <1>3, ReturnControl DEF Inv

LEMMA WaitTimeoutNewStep ==
  ASSUME Inv, WaitTimeoutNew
  PROVE  Inv' /\ Mapped
<1>1. QueueInv' /\ Mapped
  BY QuietQueues DEF Inv, WaitTimeoutNew
<1>2. Distance(sq_khead', sq_ktail') \in Nat
  BY ONLY <1>1, ShownAfter
<1>3. data' = [Begin("wait_timeout") EXCEPT !.wait_nr = 1, !.has_ts = TRUE, !.submit = 0]
  BY BeginPlain, Zenon DEF WaitTimeoutNew, CallTypes, GetCalls
<1>4. ControlInv' /\ ReturnsCqeOrError'
  BY <1>2, <1>3, BeginLooking DEF WaitTimeoutNew, GetCalls
<1> QED
  BY <1>1, <1>4 DEF Inv

LEMMA SubmitAndWaitStep ==
  ASSUME Inv, NEW has_ts \in BOOLEAN, SubmitAndWait(has_ts)
  PROVE  Inv' /\ Mapped
<1> DEFINE d == Distance(sq_khead, sqe_tail)
<1>1. /\ FlushSq /\ UNCHANGED <<modeVars, sqe_tail, sq_khead, sqes, cqVars, kernelVars, handed>>
      /\ pc' = "look" /\ reply' = NoReply /\ HoldsNoTimeout
      /\ data' = [Begin("submit_and_wait") EXCEPT !.wait_nr = 1, !.has_ts = has_ts, !.submit = d]
  BY DEF SubmitAndWait
<1>2. QueueInv' /\ Mapped
  BY <1>1, QuietQueues DEF Inv
<1>3. d \in Nat /\ Distance(sq_khead', sq_ktail') = d
  BY <1>1, SqFacts, SqFlushed DEF Inv, QueueInv
<1> HIDE DEF d
<1>4. d <= Distance(sq_khead', sq_ktail')
  BY <1>3
<1>5. "submit_and_wait" \in GetCalls /\ "submit_and_wait" \notin Documented
  BY DEF GetCalls, Documented
<1>6. ControlInv' /\ ReturnsCqeOrError'
  BY <1>1, <1>3, <1>4, <1>5, BeginLooking
<1> QED
  BY <1>2, <1>6 DEF Inv

LEMMA WaitTimeoutOldStep ==
  ASSUME Inv, WaitTimeoutOld
  PROVE  Inv' /\ Mapped
<1>1. /\ UNCHANGED <<modeVars, sq_khead, cqVars, kernelVars, handed>> /\ ~ext_arg /\ HoldsNoTimeout
      /\ ControlInv /\ QueueInv /\ pc = "idle"
  BY DEF Inv, WaitTimeoutOld
<1>2. CqInv' /\ CqData' = CqData /\ Ready' = Ready
  BY <1>1, CqUnchanged DEF QueueInv
<1>3. CASE SqeAvailable
  <2>1. SubmitTimeout
    BY <1>3 DEF WaitTimeoutOld
  <2>2. SqInv' /\ Mapped
    BY <1>1, <1>2, <2>1, SubmitTimeoutQueues DEF kernelVars
  <2>3. ControlInv' /\ ReturnsCqeOrError'
    BY <1>1, <2>1, SubmitTimeoutControl
  <2> QED
    BY <1>1, <1>2, <2>2, <2>3 DEF Inv, QueueInv, HandedInv, kernelVars
<1>4. CASE ~SqeAvailable
  <2> DEFINE d == Distance(sq_khead, sqe_tail)
  <2>1. /\ FlushSq /\ UNCHANGED <<sqe_tail, sqes>> /\ pc' = "flags" /\ reply' = NoReply
        /\ data' = [Begin("submit_timeout") EXCEPT !.submit = d]
    BY <1>4 DEF WaitTimeoutOld
  <2>2. QueueInv' /\ Mapped
    BY <1>1, <2>1, QuietQueues
  <2>3. d \in Nat /\ Distance(sq_khead', sq_ktail') = d
    BY <1>1, <2>1, SqFacts, SqFlushed DEF QueueInv
  <2> HIDE DEF d
  <2>4. data' \in DataType /\ data'.call = "submit_timeout" /\ ~data'.cqe /\ data'.submit = d
    <3> DEFINE b == Begin("submit_timeout")
    <3>1. b \in DataType /\ ~b.cqe /\ b.call = "submit_timeout"
      BY NoCallType DEF CallTypes
    <3>2. data' = [b EXCEPT !.submit = d]
      BY <2>1
    <3> HIDE DEF b
    <3> QED
      BY <2>3, <3>1, <3>2 DEF DataType
  <2>5. HoldsNoTimeout'
    BY <1>1 DEF HoldsNoTimeout
  <2>6. ControlInv'
    BY <1>1, <2>1, <2>3, <2>4, <2>5 DEF ControlInv, modeVars, CallFits, SubmitBound, CompletionHeld,
       NothingSubmitted, Submitting, Documented, GetCalls
  <2> QED
    BY <2>1, <2>2, <2>6 DEF Inv, ReturnsCqeOrError, NoReply
<1> QED
  BY <1>3, <1>4

LEMMA PeekOrWaitStep ==
  ASSUME Inv, NEW call \in {"peek", "wait"}, NEW wait_nr \in {0, 1}, PeekOrWait(call, wait_nr)
  PROVE  Inv' /\ Mapped
<1>1. /\ Skip /\ HoldsNoTimeout /\ QueueInv /\ ControlInv
      /\ UNCHANGED <<modeVars, sqVars, cq_ktail, overflow, kernelVars>>
  BY DEF Inv, PeekOrWait
<1>2. call \in GetCalls /\ call \in CallTypes /\ wait_nr \in Nat
  BY DEF GetCalls, CallTypes
<1>3. CASE Found
  <2>1. Return(call, 0, TRUE) /\ Hand(1)
    BY <1>3 DEF PeekOrWait
  <2>2. Available > 0
    BY <1>3 DEF Found
  <2>3. QueueInv' /\ Mapped
    BY <1>1, <2>1, <2>2, SkipStep
  <2>4. reply' = [call |-> call, ret |-> Sign(0), cqe |-> TRUE]
    BY <2>1 DEF Return
  <2>5. Sign(0) = 0
    BY DEF Sign
  <2>6. ReturnsCqeOrError'
    BY <2>4, <2>5 DEF ReturnsCqeOrError
  <2> QED
    BY <1>1, <2>1, <2>3, <2>6, ReturnControl DEF Return, Inv
<1>4. CASE ~Found
  <2>1. /\ pc' = "look" /\ data' = [Begin(call) EXCEPT !.wait_nr = wait_nr]
        /\ reply' = NoReply /\ UNCHANGED handed
    BY <1>4 DEF PeekOrWait
  <2>2. QueueInv' /\ Mapped
    BY <1>1, <2>1, SkipStep
  <2>3. Distance(sq_khead', sq_ktail') \in Nat
    BY ONLY <2>2, ShownAfter
  <2>4. data' = [Begin(call) EXCEPT !.wait_nr = wait_nr, !.has_ts = FALSE, !.submit = 0]
    BY <1>2, <2>1, BeginPlain, Zenon
  <2>5. ControlInv' /\ ReturnsCqeOrError'
    BY <1>1, <1>2, <2>1, <2>3, <2>4, BeginLooking
  <2> QED
    BY <2>2, <2>5 DEF Inv
<1> QED
  BY <1>3, <1>4

LEMMA LookStep ==
  ASSUME Inv, Look
  PROVE  Inv' /\ Mapped
<1> DEFINE nothing == ~Found /\ data.wait_nr = 0 /\ data.submit = 0
           getevents == nothing \/ data.wait_nr > Available
           wakes == sq_ring_needs_enter(data.submit)
           Or(err) == IF data.err = 0 THEN err ELSE data.err
           last == IF Found THEN data.err ELSE Or(-ETIME)
           n == IF Found THEN 1 ELSE 0
           expired == Expired /\ Return(data.call, Or(-ETIME), FALSE) /\ UNCHANGED handed
           empty == Return(data.call, Or(-EAGAIN), FALSE) /\ UNCHANGED handed
           enough == /\ ~Expired /\ ~nothing /\ ~getevents
                     /\ Return(data.call, data.err, Found) /\ Hand(n)
           timed == Return(data.call, last, Found) /\ Hand(n)
           enters == /\ pc' = "enter"
                     /\ data' = [data EXCEPT !.getevents = getevents, !.wakeup = sqpoll /\ wakes,
                                             !.cqe = Found]
                     /\ UNCHANGED <<reply, handed>>
<1>1. /\ Skip /\ QueueInv /\ ControlInv /\ pc = "look"
      /\ UNCHANGED <<modeVars, sqVars, cq_ktail, overflow, kernelVars>>
  BY DEF Inv, Look
<1>2. expired \/ empty \/ enough \/ timed \/ enters
  BY Zenon DEF Look
<1>3. /\ data \in DataType /\ data.call \in GetCalls /\ ~data.cqe
      /\ data.err \in Int /\ data.wait_nr \in Nat /\ data.submit \in Nat
      /\ ext_arg \/ HoldsNoTimeout
      /\ ext_arg /\ data.call \in Documented => data.submit = 0 /\ data.err <= 0
      /\ sqpoll' = sqpoll /\ ext_arg' = ext_arg
  BY <1>1 DEF ControlInv, DataType, CallFits, CompletionHeld, NothingSubmitted, modeVars
<1>4. Available \in Int /\ (Found => Available > 0) /\ (~Expired /\ Available > 0 => Found)
  <2>1. Len(Ready) \in Nat /\ Skipped \in 0 .. Len(Ready)
    BY <1>1, ReadyCounted, SkippedInRing DEF QueueInv
  <2> QED
    BY <2>1 DEF Found, Available
<1>5. QueueInv' /\ Mapped /\ Len(Ready') = Available
  <2>1. Hand(0) => UNCHANGED handed
    <3>1. 0 <= Len(handed)
      BY <1>1, LenProperties DEF QueueInv, HandedInv
    <3> QED
      BY <3>1 DEF Hand
  <2>2. Hand(n) => UNCHANGED handed \/ (Available > 0 /\ Hand(1))
    BY <1>4, <2>1
  <2>3. UNCHANGED handed \/ (Available > 0 /\ Hand(1))
    BY <1>2, <2>2
  <2> QED
    BY <1>1, <1>3, <2>3, SkipStep
<1>6. ASSUME NEW ret, NEW cqe \in BOOLEAN, Return(data.call, ret, cqe),
             ext_arg /\ data.call \in Documented => ret \in Int /\ ret <= 0 /\ (ret < 0 \/ cqe = TRUE)
      PROVE  Inv' /\ Mapped
  <2>1. ControlInv'
    BY <1>1, <1>6, ReturnControl DEF Return
  <2>2. reply' = [call |-> data.call, ret |-> Sign(ret), cqe |-> cqe]
    BY <1>6 DEF Return
  <2>3. ReturnsCqeOrError'
    BY <1>3, <1>6, <2>2 DEF ReturnsCqeOrError, Documented, Sign
  <2> QED
    BY <1>5, <2>1, <2>3 DEF Inv
<1>7. ext_arg /\ data.call \in Documented =>
        /\ Or(-ETIME) \in Int /\ Or(-ETIME) < 0 /\ Or(-EAGAIN) \in Int /\ Or(-EAGAIN) < 0
        /\ last \in Int /\ last <= 0 /\ (last < 0 \/ Found = TRUE)
  BY <1>3 DEF ETIME, EAGAIN
<1>8. CASE expired
  <2> DEFINE ret == Or(-ETIME)
             cqe == FALSE
  <2>1. Return(data.call, ret, cqe)
    BY <1>8, Zenon
  <2>2. ext_arg /\ data.call \in Documented => ret \in Int /\ ret < 0 /\ ret <= 0
    BY <1>7
  <2>3. cqe \in BOOLEAN
    OBVIOUS
  <2> HIDE DEF ret, cqe
  <2> QED
    BY <1>6, <2>1, <2>2, <2>3
<1>9. CASE empty
  <2> DEFINE ret == Or(-EAGAIN)
             cqe == FALSE
  <2>1. Return(data.call, ret, cqe)
    BY <1>9, Zenon
  <2>2. ext_arg /\ data.call \in Documented => ret \in Int /\ ret < 0 /\ ret <= 0
    BY <1>7
  <2>3. cqe \in BOOLEAN
    OBVIOUS
  <2> HIDE DEF ret, cqe
  <2> QED
    BY <1>6, <2>1, <2>2, <2>3
<1>10. CASE enough
  <2>1. ext_arg /\ data.call \in Documented => Found
    BY <1>3, <1>4, <1>10
  <2> DEFINE cqe == Found
             ret == data.err
  <2>2. Return(data.call, ret, cqe) /\ cqe \in BOOLEAN
    BY <1>10 DEF Found
  <2>3. ext_arg /\ data.call \in Documented => ret \in Int /\ ret <= 0 /\ cqe = TRUE
    BY <1>3, <2>1
  <2> HIDE DEF ret, cqe
  <2> QED
    BY <1>6, <2>2, <2>3
<1>11. CASE timed
  <2> DEFINE cqe == Found
             ret == last
  <2>1. Return(data.call, ret, cqe) /\ cqe \in BOOLEAN
    BY <1>11 DEF Found
  <2>2. ext_arg /\ data.call \in Documented => ret \in Int /\ ret <= 0 /\ (ret < 0 \/ cqe = TRUE)
    BY <1>7
  <2> HIDE DEF ret, cqe
  <2> QED
    BY <1>6, <2>1, <2>2
<1>12. CASE enters
  <2> DEFINE g == getevents
             w == sqpoll /\ wakes
             f == Found
  <2>1. /\ pc' = "enter" /\ reply' = reply /\ handed' = handed
        /\ data' = [data EXCEPT !.getevents = g, !.wakeup = w, !.cqe = f]
        /\ g \in BOOLEAN /\ w \in BOOLEAN /\ f \in BOOLEAN
    BY <1>12 DEF Found
  <2>2. f => Len(Ready') >= 1
    BY <1>4, <1>5
  <2> HIDE DEF g, w, f
  <2>3. /\ data' \in DataType /\ data'.call = data.call /\ data'.cqe = f /\ data'.submit = data.submit
        /\ data'.entered = data.entered /\ data'.err = data.err
    BY <1>3, <2>1 DEF DataType
  <2>4. Distance(sq_khead', sq_ktail') = Distance(sq_khead, sq_ktail)
    BY <1>1 DEF sqVars
  <2>5. HoldsNoTimeout' = HoldsNoTimeout
    BY <2>1 DEF HoldsNoTimeout
  <2>6. CallFits' /\ SubmitBound'
    BY <1>1, <1>3, <2>1, <2>3, <2>4 DEF ControlInv, CallFits, SubmitBound, GetCalls, Submitting
  <2>7. CompletionHeld' /\ NothingSubmitted'
    BY <1>1, <1>3, <2>1, <2>2, <2>3, <2>5 DEF ControlInv, CompletionHeld, NothingSubmitted
  <2>8. ControlInv'
    BY <1>1, <1>3, <2>3, <2>6, <2>7 DEF ControlInv
  <2>9. ReturnsCqeOrError'
    BY <1>3, <2>1 DEF Inv, ReturnsCqeOrError
  <2> QED
    BY <1>5, <2>8, <2>9 DEF Inv
<1> QED
  BY <1>2, <1>8, <1>9, <1>10, <1>11, <1>12

LEMMA PeekBatchStep ==
  ASSUME Inv, NEW count \in 1 .. CqEntries, PeekBatch(count)
  PROVE  Inv' /\ Mapped
<1> DEFINE b == Begin("batch")
<1>1. QueueInv' /\ Mapped
  BY QuietQueues DEF Inv, PeekBatch
<1>2. /\ pc' = "batch" /\ data' = [b EXCEPT !.wait_nr = count] /\ reply' = NoReply
      /\ UNCHANGED modeVars
  BY DEF PeekBatch
<1>3. b \in DataType /\ b.call = "batch" /\ b.submit = 0 /\ ~b.cqe
  BY NoCallType DEF CallTypes
<1>4. count \in Nat
  OBVIOUS
<1> HIDE DEF b
<1>5. data' \in DataType /\ data'.call = "batch" /\ data'.submit = 0 /\ ~data'.cqe
  BY <1>2, <1>3, <1>4 DEF DataType
<1>6. ControlInv'
  BY <1>2, <1>5 DEF Inv, ControlInv, modeVars, CallFits, SubmitBound, CompletionHeld,
     NothingSubmitted, Submitting, Documented, GetCalls
<1> QED
  BY <1>1, <1>2, <1>6 DEF Inv, ReturnsCqeOrError, NoReply

LEMMA BatchStep ==
  ASSUME Inv, Batch
  PROVE  Inv' /\ Mapped
<1>1. /\ ControlInv /\ QueueInv /\ data \in DataType /\ data.call = "batch" /\ data.submit = 0
      /\ ~data.cqe /\ UNCHANGED modeVars
  BY DEF Inv, ControlInv, CallFits, SubmitBound, CompletionHeld, GetCalls, Batch
<1>2. QueueInv' /\ Mapped
  BY <1>1, BatchQueues
<1>3. CASE Ready = <<>> /\ ~data.looped /\ cq_ring_needs_flush
  <2>1. /\ pc' = "enter" /\ data' = [data EXCEPT !.wait_nr = 0, !.getevents = TRUE]
        /\ UNCHANGED <<reply, handed>>
    BY <1>3 DEF Batch
  <2>2. data' \in DataType /\ data'.call = "batch" /\ data'.submit = 0 /\ ~data'.cqe
    BY <1>1, <2>1 DEF DataType
  <2>3. Distance(sq_khead', sq_ktail') \in Nat
    BY ONLY <1>2, ShownAfter
  <2>4. ControlInv'
    BY <1>1, <2>1, <2>2, <2>3 DEF ControlInv, modeVars, CallFits, SubmitBound, CompletionHeld,
       NothingSubmitted, Submitting, Documented, GetCalls
  <2> QED
    BY <1>1, <1>2, <2>1, <2>4 DEF Inv, ReturnsCqeOrError, modeVars
<1>4. CASE ~(Ready = <<>> /\ ~data.looped /\ cq_ring_needs_flush)
  <2>1. /\ pc' = "idle" /\ data' = NoCall /\ reply'.call = "batch"
    BY <1>4 DEF Batch, Return
  <2> QED
    BY <1>1, <1>2, <2>1, ReturnControl DEF Inv, ReturnsCqeOrError
<1> QED
  BY <1>3, <1>4

LEMMA EnterStep ==
  ASSUME Inv, Enter
  PROVE  Inv' /\ Mapped
<1>1. /\ ControlInv /\ QueueInv /\ data \in DataType /\ SubmitBound /\ sqpoll \in BOOLEAN
      /\ pc = "enter" /\ reply' = reply /\ data.submit \in Nat
  BY DEF Inv, ControlInv, Enter, DataType
<1>2. /\ QueueInv' /\ Mapped /\ ReadyGrows /\ pc' = "in_kernel" /\ UNCHANGED <<modeVars, handed>>
      /\ \E n \in 0 .. data.submit :
           /\ data' = [data EXCEPT !.entered = n]
           /\ ~sqpoll => Distance(sq_khead', sq_ktail') = Distance(sq_khead, sq_ktail) - n
  BY <1>1, EnterQueues
<1>3. PICK n \in 0 .. data.submit :
           /\ data' = [data EXCEPT !.entered = n]
           /\ ~sqpoll => Distance(sq_khead', sq_ktail') = Distance(sq_khead, sq_ktail) - n
  BY <1>2
<1>4. /\ data' \in DataType /\ data'.call = data.call /\ data'.cqe = data.cqe
      /\ data'.submit = data.submit /\ data'.entered = n /\ data'.err = data.err
      /\ n \in Nat /\ n <= data.submit
  BY <1>1, <1>3 DEF DataType
<1>5. /\ sqpoll' = sqpoll /\ ext_arg' = ext_arg /\ HoldsNoTimeout' = HoldsNoTimeout
  BY <1>2 DEF modeVars, HoldsNoTimeout
<1>6. Len(Ready) \in Nat /\ Len(Ready') \in Nat /\ Len(Ready) <= Len(Ready')
  BY <1>1, <1>2, ReadyCounted, ReadyAfter DEF QueueInv, ReadyGrows
<1>7. CallFits' /\ CompletionHeld'
  BY <1>1, <1>2, <1>4, <1>5, <1>6 DEF ControlInv, CallFits, CompletionHeld, Submitting, GetCalls
<1>8. Distance(sq_khead, sq_ktail) \in Nat
  BY <1>1, ShownCounted DEF QueueInv
<1>9. ~sqpoll => data.submit <= Distance(sq_khead, sq_ktail)
  BY <1>1 DEF SubmitBound
<1>10. ~sqpoll => data'.submit - data'.entered <= Distance(sq_khead', sq_ktail')
  BY <1>1, <1>3, <1>4, <1>8, <1>9
<1>11. SubmitBound'
  BY <1>1, <1>2, <1>4, <1>5, <1>10 DEF SubmitBound
<1>12. NothingSubmitted'
  BY <1>1, <1>4, <1>5 DEF ControlInv, NothingSubmitted
<1> QED
  BY <1>1, <1>2, <1>4, <1>5, <1>7, <1>11, <1>12 DEF Inv, ControlInv, ReturnsCqeOrError

LEMMA SubmitFlagsStep ==
  ASSUME Inv, SubmitFlags
  PROVE  Inv' /\ Mapped
<1>1. /\ pc = "flags" /\ ControlInv /\ QueueInv /\ data \in DataType /\ data.submit \in Nat
      /\ data.call \in Submitting /\ ~data.cqe
      /\ UNCHANGED <<modeVars, sq_khead, cqVars, kernelVars>>
  BY DEF Inv, ControlInv, CallFits, CompletionHeld, SubmitFlags, DataType
<1>2. CASE Continue(data.submit)
  <2>1. QueueInv' /\ Mapped
    BY <1>1, <1>2, ContinueQueues
  <2>2. data.call \notin GetCalls /\ data.submit \in Int
    BY <1>1 DEF Submitting, GetCalls
  <2>3. ControlInv' /\ ReturnsCqeOrError'
    BY <1>1, <1>2, <2>2, ContinueControl
  <2> QED
    BY <2>1, <2>3 DEF Inv
<1>3. CASE ~Continue(data.submit)
  <2> DEFINE g == data.getevents \/ data.wait_nr > 0 \/ cq_ring_needs_flush
             w == sqpoll /\ sq_ring_needs_enter(data.submit)
  <2>1. /\ pc' = "enter" /\ data' = [data EXCEPT !.getevents = g, !.wakeup = w]
        /\ UNCHANGED <<sqe_head, sqe_tail, sq_ktail, sqes, reply, handed>>
    BY <1>3 DEF SubmitFlags
  <2>2. QueueInv' /\ Mapped
    BY <1>1, <2>1, QuietQueues DEF sqVars
  <2>3. g \in BOOLEAN /\ w \in BOOLEAN
    OBVIOUS
  <2> HIDE DEF g, w
  <2>4. /\ data' \in DataType /\ data'.call = data.call /\ data'.cqe = data.cqe
        /\ data'.submit = data.submit /\ data'.entered = data.entered /\ data'.err = data.err
    BY <1>1, <2>1, <2>3 DEF DataType
  <2>5. /\ sqpoll' = sqpoll /\ ext_arg' = ext_arg /\ HoldsNoTimeout' = HoldsNoTimeout
        /\ sq_khead' = sq_khead /\ sq_ktail' = sq_ktail /\ reply' = reply
    BY <1>1, <2>1 DEF modeVars, HoldsNoTimeout
  <2>6. CallFits' /\ SubmitBound'
    BY <1>1, <2>1, <2>4, <2>5 DEF ControlInv, CallFits, SubmitBound, Submitting
  <2>7. CompletionHeld' /\ NothingSubmitted'
    BY <1>1, <2>4, <2>5 DEF ControlInv, CompletionHeld, NothingSubmitted
  <2> QED
    BY <1>1, <2>2, <2>4, <2>5, <2>6, <2>7 DEF Inv, ControlInv, ReturnsCqeOrError
<1> QED
  BY <1>2, <1>3

LEMMA EnterReturnsStep ==
  ASSUME Inv, EnterReturns
  PROVE  Inv' /\ Mapped
<1>1. /\ pc \in {"enter", "in_kernel"} /\ ControlInv /\ QueueInv /\ data \in DataType
      /\ data.submit \in Nat /\ data.entered \in Nat
      /\ UNCHANGED <<modeVars, sq_khead, cqVars, kernelVars>>
      /\ data.cqe => Len(Ready) >= 1
  BY DEF Inv, ControlInv, CompletionHeld, EnterReturns, DataType
<1>2. ASSUME NEW ret \in Int, Continue(ret), ret < 0 \/ (pc = "in_kernel" /\ ret = data.entered)
      PROVE  Inv' /\ Mapped
  <2>1. QueueInv' /\ Mapped
    BY <1>1, <1>2, ContinueQueues
  <2>2. ASSUME data.call \in GetCalls, ret >= 0
        PROVE  /\ ret <= data.submit
               /\ ~sqpoll => data.submit - ret <= Distance(sq_khead, sq_ktail)
               /\ ext_arg /\ data.call \in Documented => ret = 0
    <3>1. pc = "in_kernel" /\ ret = data.entered
      BY <1>2, <2>2
    <3> QED
      BY <1>1, <3>1 DEF ControlInv, SubmitBound, NothingSubmitted
  <2>3. ControlInv' /\ ReturnsCqeOrError'
    BY <1>1, <1>2, <2>2, ContinueControl
  <2> QED
    BY <2>1, <2>3 DEF Inv
<1>3. CASE Continue(-EAGAIN)
  <2>1. -EAGAIN \in Int /\ -EAGAIN < 0
    BY DEF EAGAIN
  <2> QED
    BY <1>2, <1>3, <2>1
<1>4. CASE pc = "in_kernel" /\ Continue(data.entered)
  BY <1>1, <1>2, <1>4
<1>5. ASSUME NEW err \in {ETIME, EINTR}, pc = "in_kernel", Continue(Interrupted(err))
      PROVE  Inv' /\ Mapped
  <2> DEFINE r == Interrupted(err)
  <2>1. r \in Int /\ (r < 0 \/ r = data.entered)
    BY <1>1 DEF Interrupted, ETIME, EINTR
  <2>2. Continue(r)
    BY <1>5
  <2> HIDE DEF r
  <2> QED
    BY <1>2, <1>5, <2>1, <2>2
<1> QED
  BY <1>3, <1>4, <1>5 DEF EnterReturns

LEMMA SqThreadStep ==
  ASSUME Inv, SqThread
  PROVE  Inv' /\ Mapped
<1>1. QueueInv /\ sqpoll /\ UNCHANGED <<modeVars, pc, data, reply, handed>> /\ UNCHANGED cqVars
  BY DEF Inv, SqThread, SqThreadTakes, SqThreadIdles
<1>2. CqInv' /\ Ready' = Ready
  BY <1>1, CqUnchanged DEF QueueInv
<1>3. ReadyGrows
  BY <1>1, <1>2, ReadyCounted DEF QueueInv, ReadyGrows
<1>4. ControlInv' /\ ReturnsCqeOrError'
  BY <1>1, <1>2, <1>3, KernelControl
<1>5. QueueInv' /\ Mapped
  <2>1. CASE SqThreadTakes
    BY <1>1, <2>1, SqThreadTakesStep
  <2>2. CASE SqThreadIdles
    BY <1>1, <2>2, QuietQueues DEF SqThreadIdles
  <2> QED
    BY <2>1, <2>2 DEF SqThread
<1> QED
  BY <1>4, <1>5 DEF Inv

LEMMA CompletesStep ==
  ASSUME Inv, NEW k \in DOMAIN kernel, Complete(k)
  PROVE  Inv' /\ Mapped
<1>1. QueueInv' /\ Mapped /\ ReadyGrows
  BY CompleteStep DEF Inv
<1>2. UNCHANGED <<modeVars, pc, data, reply, handed>> /\ UNCHANGED sqVars
  BY DEF Complete
<1>3. Distance(sq_khead', sq_ktail') = Distance(sq_khead, sq_ktail)
  BY <1>2 DEF sqVars
<1>4. ControlInv' /\ ReturnsCqeOrError'
  BY <1>1, <1>2, <1>3, KernelControl DEF QueueInv
<1> QED
  BY <1>1, <1>4 DEF Inv

LEMMA InvInit ==
  ASSUME Init
  PROVE  Inv /\ Queues!Init
<1>1. /\ sqe_head = 0 /\ sqe_tail = 0 /\ sq_khead = 0 /\ sq_ktail = 0
      /\ cq_khead = 0 /\ cq_ktail = 0
      /\ sqes = [slot \in 0 .. SqEntries - 1 |-> StaleSqe]
      /\ cqes = [slot \in 0 .. CqEntries - 1 |-> StaleCqe]
      /\ kernel = <<>> /\ overflow = <<>> /\ handed = <<>>
      /\ pc = "idle" /\ data = NoCall /\ reply = NoReply
  BY DEF Init
<1>a. sqpoll \in BOOLEAN /\ ext_arg \in BOOLEAN
  <2>1. PICK kind \in Kinds \cup FaultyKinds :
          /\ sqpoll = (kind \in {"sqpoll", "old sqpoll"})
          /\ ext_arg = (kind \in {"plain", "sqpoll"})
    BY DEF Init
  <2>2. (kind \in {"sqpoll", "old sqpoll"}) \in BOOLEAN /\ (kind \in {"plain", "sqpoll"}) \in BOOLEAN
    OBVIOUS
  <2> QED
    BY <2>1, <2>2, Zenon
<1>2. Distance(0, 0) = 0
  <2>1. 0 \in 0 .. Wrap - 1 /\ 0 - 0 = 0
    BY WrapPositive
  <2>2. 0 % Wrap = 0
    BY <2>1, WrapPositive, Within
  <2> QED
    BY <2>1, <2>2 DEF Distance
<1>3. SqInv
  <2>1. sqes \in Arrays(AnyData, SqEntries)
    BY <1>1 DEF Arrays, AnyData, StaleSqe
  <2> QED
    BY <1>1, <1>2, <2>1, RingsDivide DEF SqInv, SqTypes, SqSound
<1>4. CqInv
  <2>1. cqes \in Arrays(AnyCqe, CqEntries)
    BY <1>1 DEF Arrays, AnyCqe, AnyData, StaleCqe
  <2>2. overflow \in Seq(AnyCqe)
    BY <1>1
  <2> QED
    BY <1>1, <1>2, <2>1, <2>2, RingsDivide DEF CqInv, CqTypes, CqSound, io_uring_cq_ready
<1>5. sq = <<>> /\ CqData = <<>> /\ Len(Ready) = 0
  <2>1. sq \in Seq(AnyData) /\ Len(sq) = 0
    BY <1>1, <1>2, <1>3, SqFacts
  <2>2. Len(Ready) = 0 /\ CqData \in Seq(AnyData) /\ Len(CqData) = 0
    BY <1>1, <1>2, <1>4, CqFacts DEF io_uring_cq_ready
  <2> QED
    BY <2>1, <2>2, EmptySeq
<1>6. QueueInv
  BY <1>1, <1>3, <1>4, <1>5 DEF QueueInv, HandedInv
<1>7. ControlInv
  BY <1>1, <1>a, NoCallType DEF ControlInv, CallFits, SubmitBound, CompletionHeld, NothingSubmitted,
     Submitting, Documented, GetCalls
<1>8. ReturnsCqeOrError
  BY <1>1 DEF ReturnsCqeOrError, NoReply
<1> QED
  BY <1>1, <1>5, <1>6, <1>7, <1>8 DEF Inv, Queues!Init

LEMMA InvNext ==
  ASSUME Inv, [Next]_vars
  PROVE  Inv' /\ Mapped
<1>1. ASSUME NEW op \in Data, GetSqe(op) PROVE Inv' /\ Mapped
  BY <1>1, GetSqeStep, ProgramControl DEF Inv, GetSqe
<1>2. ASSUME NEW n \in 1 .. CqEntries, CqAdvance(n) PROVE Inv' /\ Mapped
  BY <1>2, CqAdvanceStep, ProgramControl DEF Inv, CqAdvance
<1>3. CASE Library
  BY <1>3, SubmitFlagsStep, SqringWaitStep, LookStep, BatchStep, EnterStep, EnterReturnsStep
  DEF Library
<1>4. CASE Peek \/ Wait
  BY <1>4, PeekOrWaitStep DEF Peek, Wait
<1>5. CASE Program
  BY <1>1, <1>2, <1>4, <1>5, SubmitStep, SqringWaitStep, WaitTimeoutNewStep, WaitTimeoutOldStep,
     SubmitAndWaitStep, PeekBatchStep
  DEF Program
<1>6. CASE UNCHANGED vars
  <2>1. /\ UNCHANGED <<modeVars, sqVars, cqVars, kernelVars, pc, data, reply, handed>>
    BY <1>6 DEF vars
  <2>2. QueueInv' /\ Mapped
    BY <2>1, QuietQueues DEF Inv
  <2>3. Ready' = Ready /\ Len(Ready) \in Nat
    BY <2>1, CqUnchanged, ReadyCounted DEF Inv, QueueInv
  <2>4. ReadyGrows
    BY <2>3 DEF ReadyGrows
  <2>5. Distance(sq_khead', sq_ktail') = Distance(sq_khead, sq_ktail)
    BY <2>1 DEF sqVars
  <2>6. ControlInv' /\ ReturnsCqeOrError'
    BY <2>1, <2>2, <2>4, <2>5, KernelControl DEF QueueInv
  <2> QED
    BY <2>2, <2>6 DEF Inv
<1> QED
  BY <1>3, <1>5, <1>6, CompletesStep, SqThreadStep DEF Next

(***************************************************************************)
(* The theorems.                                                           *)
(***************************************************************************)

LEMMA InvAlways == Spec => []Inv
<1>1. Init => Inv
  BY InvInit
<1>2. Inv /\ [Next]_vars => Inv'
  BY InvNext
<1> QED
  BY <1>1, <1>2, PTL DEF Spec

(* Whatever the sizes of the rings and wherever the counters wrap around,  *)
(* the head, tail and slot arithmetic of io_uring_get_sqe, io_uring_submit *)
(* and io_uring_cq_advance is sound, and a completion the program holds    *)
(* stays in its place until it is given back.                              *)
THEOREM RingSoundAlways == Spec => []RingSound
<1>1. Inv => RingSound
  <2> SUFFICES ASSUME Inv PROVE RingSound
    OBVIOUS
  <2>1. /\ sqe_head = sq_ktail
        /\ Distance(sq_khead, sqe_tail) <= SqEntries
        /\ Distance(sq_khead, sq_ktail) <= Distance(sq_khead, sqe_tail)
        /\ io_uring_cq_ready <= CqEntries
    BY DEF Inv, QueueInv, SqInv, SqSound, CqInv, CqSound
  <2>2. SqeAvailable <=> io_uring_sq_space_left > 0
    BY AvailableMeansRoom DEF Inv, QueueInv
  <2>3. Len(handed) <= Len(Ready) /\ handed = SubSeq(Ready, 1, Len(handed))
    <3>1. /\ handed \in Seq(AnyCqe) /\ Len(handed) <= Len(Ready) /\ Len(handed) \in Nat
          /\ \A i \in 1 .. Len(handed) : handed[i] = Ready[i]
          /\ Ready \in Seq(AnyCqe) /\ Len(Ready) \in Nat
      BY CqFacts, LenProperties DEF Inv, QueueInv, HandedInv
    <3> DEFINE n == Len(handed)
               u == SubSeq(Ready, 1, n)
    <3>2. n \in 0 .. Len(Ready)
      BY <3>1
    <3>3. u \in Seq(AnyCqe) /\ Len(u) = n /\ \A i \in 1 .. n : u[i] = Ready[i]
      BY <3>1, <3>2, PrefixType
    <3> HIDE DEF u
    <3>4. \A i \in 1 .. Len(handed) : handed[i] = u[i]
      BY <3>1, <3>3
    <3>5. handed = u
      BY <3>1, <3>3, <3>4, SeqEqual
    <3> QED
      BY <3>1, <3>5 DEF u
  <2> QED
    BY <2>1, <2>2, <2>3 DEF RingSound
<1> QED
  BY <1>1, InvAlways, PTL

(* Where the kernel takes timeouts, io_uring_peek_cqe, io_uring_wait_cqe   *)
(* and io_uring_wait_cqe_timeout return a completion or an error, in every *)
(* pass of _io_uring_get_cqe and with any system call interrupted.         *)
THEOREM ReturnsAlways == Spec => []ReturnsCqeOrError
<1>1. Inv => ReturnsCqeOrError
  BY DEF Inv
<1> QED
  BY <1>1, InvAlways, PTL

(* liburing keeps three queues: entries are taken in the order in which    *)
(* they were prepared, and every operation that the kernel has taken       *)
(* completes once and is given back once.                                  *)
THEOREM RingImplementsQueues == Spec => Implements
<1>1. Init => Queues!Init
  BY InvInit
<1>2. Inv /\ [Next]_vars => [Queues!Next]_(Queues!queues)
  BY InvNext DEF Mapped, Queues!queues
<1> QED
  BY <1>1, <1>2, InvAlways, PTL DEF Spec, Implements, Queues!Spec
=============================================================================
