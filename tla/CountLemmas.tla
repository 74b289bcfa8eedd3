---------------------------- MODULE CountLemmas -----------------------------
(***************************************************************************)
(* Counting the elements of a queue that belong to a set T: what the       *)
(* operations that the models use on their queues do to such a count.  The *)
(* rings of the client and of the server move operations from queue to     *)
(* queue, and their invariants are about how many there are of a kind.     *)
(* At the end, vectors written in one place, the arithmetic of descriptors *)
(* and of round robin, and sums.                                           *)
(***************************************************************************)
EXTENDS Counting, Integers, SequencesExt, SequenceTheorems, FiniteSetTheorems,
        WellFoundedInduction, TLAPS

(* 1 if x is counted, 0 if it is not. *)
One(x, T) == IF x \in T THEN 1 ELSE 0

(* The positions counted are finitely many, at most all.                   *)
LEMMA CountType ==
  ASSUME NEW S, NEW s \in Seq(S), NEW T
  PROVE  /\ Count(s, T) \in Nat
         /\ Count(s, T) <= Len(s)
         /\ IsFiniteSet({i \in DOMAIN s : s[i] \in T})
<1>1. Len(s) \in Nat /\ DOMAIN s = 1 .. Len(s)
  BY LenProperties
<1>2. IsFiniteSet(DOMAIN s) /\ Cardinality(DOMAIN s) = Len(s)
  <2>1. /\ IsFiniteSet(1 .. Len(s))
        /\ Cardinality(1 .. Len(s)) = IF 1 > Len(s) THEN 0 ELSE Len(s) - 1 + 1
    <3>1. 1 \in Int /\ Len(s) \in Int
      BY ONLY <1>1
    <3> QED
      BY ONLY <3>1, FS_Interval, Zenon
  <2> QED
    BY ONLY <1>1, <2>1
<1> DEFINE P == {i \in DOMAIN s : s[i] \in T}
<1>3. P \in SUBSET DOMAIN s
  OBVIOUS
<1> HIDE DEF P
<1>4. IsFiniteSet(P) /\ Cardinality(P) <= Len(s)
  BY <1>2, <1>3, FS_Subset
<1>5. Cardinality(P) \in Nat
  BY <1>4, FS_CardinalityType
<1> QED
  BY <1>4, <1>5 DEF Count, P

LEMMA CountEmpty ==
  ASSUME NEW T
  PROVE  Count(<<>>, T) = 0
<1>1. {i \in DOMAIN <<>> : (<<>>)[i] \in T} = {}
  OBVIOUS
<1> QED
  BY <1>1, FS_EmptySet DEF Count

LEMMA CountSingleton ==
  ASSUME NEW x, NEW T
  PROVE  Count(<<x>>, T) = One(x, T)
<1>1. {i \in DOMAIN <<x>> : (<<x>>)[i] \in T} = IF x \in T THEN {1} ELSE {}
  OBVIOUS
<1> QED
  BY <1>1, FS_EmptySet, FS_Singleton DEF Count, One

(* Shifting a set of numbers does not change its size.                     *)
LEMMA ShiftedSize ==
  ASSUME NEW P \in SUBSET Int, IsFiniteSet(P), NEW d \in Int
  PROVE  /\ IsFiniteSet({i + d : i \in P})
         /\ Cardinality({i + d : i \in P}) = Cardinality(P)
<1> DEFINE Q == {i + d : i \in P}
           f == [i \in P |-> i + d]
<1>1. f \in Bijection(P, Q)
  BY DEF Bijection, Injection, Surjection, IsInjective
<1>2. ExistsBijection(P, Q)
  BY <1>1 DEF ExistsBijection
<1> QED
  BY <1>2, FS_Bijection

LEMMA CountConcat ==
  ASSUME NEW S, NEW s \in Seq(S), NEW t \in Seq(S), NEW T
  PROVE  Count(s \o t, T) = Count(s, T) + Count(t, T)
<1> DEFINE P == {i \in DOMAIN s : s[i] \in T}
           Q == {i \in DOMAIN t : t[i] \in T}
           n == Len(s)
           R == {i + n : i \in Q}
           A == {i \in DOMAIN (s \o t) : (s \o t)[i] \in T}
<1>1. /\ n \in Nat /\ DOMAIN s = 1 .. n
      /\ Len(t) \in Nat /\ DOMAIN t = 1 .. Len(t)
  BY LenProperties
<1>2. /\ DOMAIN (s \o t) = 1 .. n + Len(t)
      /\ \A i \in 1 .. n + Len(t) : (s \o t)[i] = IF i <= n THEN s[i] ELSE t[i - n]
  BY ConcatProperties, LenProperties
<1>3. IsFiniteSet(P) /\ IsFiniteSet(Q)
  BY CountType
<1>4. IsFiniteSet(R) /\ Cardinality(R) = Cardinality(Q)
  <2>1. Q \in SUBSET Int /\ n \in Int
    BY <1>1
  <2> HIDE DEF Q, n
  <2> QED
    BY <1>3, <2>1, ShiftedSize
<1>5. A = P \cup R
  <2> HIDE DEF n
  <2>1. ASSUME NEW i \in A PROVE i \in P \cup R
    <3>1. i \in 1 .. n + Len(t) /\ (s \o t)[i] \in T
      BY <1>2
    <3>2. CASE i <= n
      BY <1>1, <1>2, <3>1, <3>2
    <3>3. CASE i > n
      <4>1. i - n \in DOMAIN t /\ t[i - n] \in T /\ i = (i - n) + n
        BY <1>1, <1>2, <3>1, <3>3
      <4> QED
        BY <4>1
    <3> QED
      BY <1>1, <3>1, <3>2, <3>3
  <2>2. ASSUME NEW i \in P PROVE i \in A
    BY <1>1, <1>2
  <2>3. ASSUME NEW i \in R PROVE i \in A
    <3>1. PICK j \in Q : i = j + n
      OBVIOUS
    <3>2. j \in 1 .. Len(t) /\ t[j] \in T
      BY <1>1
    <3>3. i \in 1 .. n + Len(t) /\ ~(i <= n) /\ i - n = j
      BY <1>1, <3>1, <3>2
    <3> QED
      BY <1>2, <3>2, <3>3
  <2> QED
    BY <2>1, <2>2, <2>3
<1>6. P \cap R = {}
  BY <1>1
<1> HIDE DEF P, R, A, Q
<1>7. Cardinality(A) = Cardinality(P) + Cardinality(R)
  <2>1. Cardinality(P) \in Nat /\ Cardinality(R) \in Nat
    BY <1>3, <1>4, FS_CardinalityType
  <2>2. Cardinality(P \cup R) = Cardinality(P) + Cardinality(R) - Cardinality(P \cap R)
    BY <1>3, <1>4, FS_Union
  <2>3. Cardinality(P \cap R) = 0
    BY <1>6, FS_EmptySet
  <2> QED
    BY <1>5, <2>1, <2>2, <2>3
<1> QED
  BY <1>4, <1>7 DEF Count, A, P, Q

LEMMA CountAppend ==
  ASSUME NEW S, NEW s \in Seq(S), NEW x \in S, NEW T
  PROVE  Count(Append(s, x), T) = Count(s, T) + One(x, T)
<1> DEFINE one == <<x>>
<1>1. one \in Seq(S) /\ Count(one, T) = One(x, T) /\ Append(s, x) = s \o one
  BY AppendIsConcat, CountSingleton
<1> HIDE DEF one
<1>2. Count(s \o one, T) = Count(s, T) + Count(one, T)
  BY <1>1, CountConcat
<1> QED
  BY <1>1, <1>2

(* Cutting a queue in two. *)
LEMMA CountSplit ==
  ASSUME NEW S, NEW s \in Seq(S), NEW k \in 0 .. Len(s), NEW T
  PROVE  /\ SubSeq(s, 1, k) \in Seq(S) /\ SubSeq(s, k + 1, Len(s)) \in Seq(S)
         /\ Count(s, T) = Count(SubSeq(s, 1, k), T) + Count(SubSeq(s, k + 1, Len(s)), T)
<1>1. Len(s) \in Nat
  BY LenProperties
<1>2. \A i \in 1 .. Len(s) : s[i] \in S
  BY ElementOfSeq
<1>3. SubSeq(s, 1, k) \in Seq(S) /\ SubSeq(s, k + 1, Len(s)) \in Seq(S)
  BY <1>1, <1>2, SubSeqProperties
<1>4. SubSeq(s, 1, k) \o SubSeq(s, k + 1, Len(s)) = SubSeq(s, 1, Len(s))
  <2>1. 1 \in 1 .. Len(s) + 1 /\ k \in 1 - 1 .. Len(s) /\ Len(s) \in k .. Len(s)
    BY <1>1
  <2> QED
    BY ONLY <2>1, s \in Seq(S), ConcatAdjacentSubSeq
<1> DEFINE x == SubSeq(s, 1, k)
           y == SubSeq(s, k + 1, Len(s))
<1>5. x \in Seq(S) /\ y \in Seq(S) /\ x \o y = s
  BY <1>3, <1>4, SubSeqFull
<1> HIDE DEF x, y
<1>6. Count(x \o y, T) = Count(x, T) + Count(y, T)
  BY <1>5, CountConcat
<1> QED
  BY <1>5, <1>6 DEF x, y

LEMMA CountTail ==
  ASSUME NEW S, NEW s \in Seq(S), s # <<>>, NEW T
  PROVE  Count(s, T) = One(Head(s), T) + Count(Tail(s), T)
<1>1. Len(s) \in Nat \ {0} /\ Head(s) = s[1]
  BY EmptySeq
<1>2. Tail(s) = SubSeq(s, 2, Len(s))
  BY TailIsSubSeq
<1>3. SubSeq(s, 1, 1) = <<s[1]>>
  <2>1. SubSeq(s, 1, 1) = <<s[1]>> \o SubSeq(s, 2, 1)
    BY <1>1, SubSeqRecursiveFirst
  <2>2. SubSeq(s, 2, 1) = <<>>
    BY SubSeqEmpty
  <2>3. <<s[1]>> \in Seq(S)
    BY <1>1, ElementOfSeq
  <2> QED
    BY <2>1, <2>2, <2>3, ConcatEmptySeq
<1>4. Count(s, T) = Count(SubSeq(s, 1, 1), T) + Count(SubSeq(s, 2, Len(s)), T)
  BY <1>1, CountSplit
<1> QED
  BY <1>1, <1>2, <1>3, <1>4, CountSingleton

LEMMA CountRemoveAt ==
  ASSUME NEW S, NEW s \in Seq(S), NEW i \in DOMAIN s, NEW T
  PROVE  /\ RemoveAt(s, i) \in Seq(S)
         /\ Count(s, T) = Count(RemoveAt(s, i), T) + One(s[i], T)
<1>1. Len(s) \in Nat /\ i \in 1 .. Len(s)
  BY LenProperties
<1> DEFINE front == SubSeq(s, 1, i - 1)
           back == SubSeq(s, i, Len(s))
           rest == SubSeq(s, i + 1, Len(s))
<1>2. i - 1 \in 0 .. Len(s) /\ (i - 1) + 1 = i
  BY <1>1
<1>3. /\ front \in Seq(S) /\ back \in Seq(S)
      /\ Count(s, T) = Count(front, T) + Count(back, T)
  BY <1>2, CountSplit
<1> DEFINE one == <<s[i]>>
<1>4. back = one \o rest
  <2>1. Len(s) \in i .. Len(s)
    BY <1>1
  <2> QED
    BY <1>1, <2>1, SubSeqRecursiveFirst
<1>5. rest \in Seq(S)
  <2>1. \A j \in i + 1 .. Len(s) : s[j] \in S
    BY <1>1, ElementOfSeq
  <2> QED
    BY <1>1, <2>1, SubSeqProperties
<1>6. one \in Seq(S) /\ Count(one, T) = One(s[i], T)
  BY <1>1, ElementOfSeq, CountSingleton
<1>7. Count(back, T) = One(s[i], T) + Count(rest, T)
  <2> HIDE DEF one, rest, back
  <2>1. Count(one \o rest, T) = Count(one, T) + Count(rest, T)
    BY <1>5, <1>6, CountConcat
  <2> QED
    BY <1>4, <1>6, <2>1
<1>8. RemoveAt(s, i) = front \o rest
  BY DEF RemoveAt
<1> HIDE DEF front, back, rest
<1>9. /\ front \o rest \in Seq(S)
      /\ Count(front \o rest, T) = Count(front, T) + Count(rest, T)
  BY <1>3, <1>5, ConcatProperties, CountConcat
<1>10. /\ Count(front, T) \in Nat /\ Count(rest, T) \in Nat /\ One(s[i], T) \in Nat
  BY <1>3, <1>5, CountType DEF One
<1> QED
  BY <1>3, <1>7, <1>8, <1>9, <1>10

(* Another element in the place of one. *)
LEMMA CountReplace ==
  ASSUME NEW S, NEW s \in Seq(S), NEW i \in DOMAIN s, NEW x \in S, NEW T
  PROVE  /\ [s EXCEPT ![i] = x] \in Seq(S)
         /\ Count([s EXCEPT ![i] = x], T) + One(s[i], T) = Count(s, T) + One(x, T)
<1>1. Len(s) \in Nat /\ i \in 1 .. Len(s) /\ DOMAIN s = 1 .. Len(s)
  BY LenProperties
<1> DEFINE t == [s EXCEPT ![i] = x]
           P == {j \in DOMAIN s : s[j] \in T}
           Q == {j \in DOMAIN t : t[j] \in T}
<1>2. /\ t \in Seq(S) /\ Len(t) = Len(s) /\ DOMAIN t = 1 .. Len(s)
      /\ \A j \in 1 .. Len(s) : t[j] = IF j = i THEN x ELSE s[j]
  BY <1>1, ExceptSeq
<1>3. P \ {i} = Q \ {i} /\ (i \in P <=> s[i] \in T) /\ (i \in Q <=> x \in T)
  <2> HIDE DEF t
  <2> QED
    BY <1>1, <1>2
<1>4. IsFiniteSet(P) /\ IsFiniteSet(Q) /\ Cardinality(P) \in Nat /\ Cardinality(Q) \in Nat
  <2>1. t \in Seq(S)
    BY <1>2
  <2> HIDE DEF t
  <2> QED
    BY <2>1, CountType DEF Count
<1> HIDE DEF P, Q, t
<1>5. /\ Cardinality(P \ {i}) = IF i \in P THEN Cardinality(P) - 1 ELSE Cardinality(P)
      /\ Cardinality(Q \ {i}) = IF i \in Q THEN Cardinality(Q) - 1 ELSE Cardinality(Q)
  BY <1>4, FS_RemoveElement
<1>6. Cardinality(Q) + One(s[i], T) = Cardinality(P) + One(x, T)
  <2>1. Cardinality(P \ {i}) = Cardinality(Q \ {i})
    BY <1>3
  <2>2. One(s[i], T) = IF i \in P THEN 1 ELSE 0
    BY <1>3 DEF One
  <2>3. One(x, T) = IF i \in Q THEN 1 ELSE 0
    BY <1>3 DEF One
  <2> QED
    BY <1>4, <1>5, <2>1, <2>2, <2>3
<1> QED
  BY <1>2, <1>6 DEF Count, P, Q, t

(* A larger set counts more. *)
LEMMA CountMonotonic ==
  ASSUME NEW S, NEW s \in Seq(S), NEW T, NEW U, \A x \in S : x \in T => x \in U
  PROVE  Count(s, T) <= Count(s, U)
<1> DEFINE P == {i \in DOMAIN s : s[i] \in T}
           Q == {i \in DOMAIN s : s[i] \in U}
<1>1. P \in SUBSET Q
  BY LenProperties, ElementOfSeq
<1>2. IsFiniteSet(Q)
  BY CountType
<1> HIDE DEF P, Q
<1>3. Cardinality(P) <= Cardinality(Q)
  BY <1>1, <1>2, FS_Subset
<1> QED
  BY <1>3 DEF Count, P, Q

(* Counting everything. *)
LEMMA CountAll ==
  ASSUME NEW S, NEW s \in Seq(S), NEW T, S \subseteq T
  PROVE  Count(s, T) = Len(s)
<1>1. Len(s) \in Nat /\ DOMAIN s = 1 .. Len(s)
  BY LenProperties
<1>2. {i \in DOMAIN s : s[i] \in T} = 1 .. Len(s)
  BY <1>1, ElementOfSeq
<1>3. Cardinality(1 .. Len(s)) = Len(s)
  <2>1. Cardinality(1 .. Len(s)) = IF 1 > Len(s) THEN 0 ELSE Len(s) - 1 + 1
    <3>1. 1 \in Int /\ Len(s) \in Int
      BY ONLY <1>1
    <3> QED
      BY ONLY <3>1, FS_Interval, Zenon
  <2> QED
    BY ONLY <1>1, <2>1
<1> QED
  BY <1>2, <1>3 DEF Count

(* Nothing is counted where there is nothing of the kind. *)
LEMMA CountNone ==
  ASSUME NEW S, NEW s \in Seq(S), NEW T, \A x \in S : x \notin T
  PROVE  Count(s, T) = 0
<1>1. {i \in DOMAIN s : s[i] \in T} = {}
  BY LenProperties, ElementOfSeq
<1> QED
  BY <1>1, FS_EmptySet DEF Count

(* To count one at most is to have no two of the kind.                     *)
LEMMA CountAtMostOne ==
  ASSUME NEW S, NEW s \in Seq(S), NEW T
  PROVE  Count(s, T) <= 1 <=>
           \A i, j \in DOMAIN s : s[i] \in T /\ s[j] \in T => i = j
<1> DEFINE P == {i \in DOMAIN s : s[i] \in T}
<1>1. IsFiniteSet(P) /\ Cardinality(P) \in Nat
  BY CountType DEF Count
<1>2. ASSUME Cardinality(P) <= 1, NEW i \in P, NEW j \in P
      PROVE  i = j
  <2> HIDE DEF P
  <2>1. CASE Cardinality(P) = 0
    BY <1>1, <2>1, FS_EmptySet
  <2>2. CASE Cardinality(P) = 1
    <3>1. PICK x : P = {x}
      BY <1>1, <2>2, FS_Singleton
    <3> QED
      BY <3>1
  <2> QED
    BY <1>1, <1>2, <2>1, <2>2
<1>3. ASSUME \A i, j \in P : i = j
      PROVE  Cardinality(P) <= 1
  <2> HIDE DEF P
  <2>1. CASE P = {}
    BY <2>1, FS_EmptySet
  <2>2. CASE P # {}
    <3>1. PICK x : x \in P
      BY <2>2
    <3>2. P = {x}
      BY <1>3, <3>1
    <3>3. Cardinality({x}) = 1
      BY FS_Singleton
    <3> QED
      BY <3>2, <3>3
  <2> QED
    BY <2>1, <2>2
<1> QED
  BY <1>2, <1>3 DEF Count

(* One entry of one of several vectors is written. *)
LEMMA EntryWritten ==
  ASSUME NEW D, NEW S, NEW F \in [D -> Seq(S)], NEW t \in D, NEW n \in 1 .. Len(F[t]),
         NEW x \in S
  PROVE  LET G == [F EXCEPT ![t][n] = x]
         IN  /\ G \in [D -> Seq(S)]
             /\ \A u \in D : Len(G[u]) = Len(F[u]) /\ (u # t => G[u] = F[u])
             /\ \A m \in 1 .. Len(F[t]) : G[t][m] = IF m = n THEN x ELSE F[t][m]
<1> DEFINE s == [F[t] EXCEPT ![n] = x]
           G == [F EXCEPT ![t] = s]
<1>1. F[t] \in Seq(S)
  OBVIOUS
<1>2. /\ s \in Seq(S) /\ Len(s) = Len(F[t])
      /\ \A m \in 1 .. Len(F[t]) : s[m] = IF m = n THEN x ELSE F[t][m]
  BY <1>1, ExceptSeq
<1> HIDE DEF s
<1>3. G \in [D -> Seq(S)] /\ G[t] = s /\ \A u \in D : u # t => G[u] = F[u]
  BY <1>2
<1>4. [F EXCEPT ![t][n] = x] = G
  BY DEF s
<1> HIDE DEF G
<1> QED
  BY <1>2, <1>3, <1>4

(* The lowest descriptor that is free: a set of numbers has a smallest one. *)
LEMMA SmallestOf ==
  ASSUME NEW S \in SUBSET Nat, S # {}
  PROVE  \E m \in S : \A n \in S : m <= n
<1> DEFINE R == OpToRel(<, Nat)
<1>1. IsWellFoundedOn(R, Nat)
  BY NatLessThanWellFounded
<1>2. \A m, n \in Nat : m < n => <<m, n>> \in R
  BY DEF OpToRel
<1> HIDE DEF R
<1>3. PICK m \in S : \A n \in S : ~ (<<n, m>> \in R)
  BY <1>1, WFMin
<1>4. ASSUME NEW n \in S PROVE m <= n
  <2>1. m \in Nat /\ n \in Nat
    OBVIOUS
  <2>2. ~(n < m)
    BY <1>2, <1>3, <2>1
  <2> QED
    BY <2>1, <2>2
<1> QED
  BY <1>4

(***************************************************************************)
(* Remainders.                                                             *)
(***************************************************************************)

(* What % and \div are, for the counter of the acceptor. *)
LEMMA Residue ==
  ASSUME NEW T \in Nat \ {0}, NEW n \in Nat
  PROVE  /\ n % T \in 0 .. T - 1
         /\ n \div T \in Nat
         /\ n = T * (n \div T) + (n % T)
OBVIOUS

(* Two multiples of T less than T apart are the same. *)
LEMMA SameMultiple ==
  ASSUME NEW T \in Nat \ {0}, NEW a \in Int, NEW b \in Int,
         T * a >= T * b, T * a <= T * b + T - 1
  PROVE  a = b
<1>1. T * (a - b) >= 0 /\ T * (a - b) < T
  OBVIOUS
<1>2. CASE a - b >= 1
  BY <1>1, <1>2
<1>3. CASE a - b <= -1
  BY <1>1, <1>3
<1> QED
  BY <1>2, <1>3

(* The remainder is the only number below T that leaves a multiple of T. *)
LEMMA UniqueResidue ==
  ASSUME NEW T \in Nat \ {0}, NEW q \in Nat, NEW t \in 0 .. T - 1
  PROVE  (T * q + t) % T = t
<1> DEFINE n == T * q + t
<1>1. n \in Nat
  OBVIOUS
<1>2. PICK p \in Nat, r \in 0 .. T - 1 : n = T * p + r /\ n % T = r
  BY <1>1, Residue
<1>3. T * q + t = T * p + r
  BY <1>2
<1> HIDE DEF n
<1>4. t \in Int /\ r \in Int /\ t >= 0 /\ r >= 0 /\ t <= T - 1 /\ r <= T - 1
  OBVIOUS
<1>5. T * p \in Int /\ T * q \in Int
  OBVIOUS
<1>6. CASE t >= r
  <2>1. T * p >= T * q /\ T * p <= T * q + T - 1
    BY <1>3, <1>4, <1>5, <1>6
  <2>2. p = q
    BY <2>1, SameMultiple
  <2> QED
    BY <2>2, <1>2, <1>3, <1>4 DEF n
<1>7. CASE t < r
  <2>1. T * q >= T * p /\ T * q <= T * p + T - 1
    BY <1>3, <1>4, <1>5, <1>7
  <2>2. p = q
    BY <2>1, SameMultiple
  <2> QED
    BY <2>2, <1>2, <1>3, <1>4 DEF n
<1> QED
  BY <1>4, <1>6, <1>7

(* One more connection is dealt: the thread picked gets it, and for the    *)
(* others the bounds move by one without being broken.                     *)
LEMMA DealOne ==
  ASSUME NEW T \in Nat \ {0}, NEW n \in Nat, NEW t \in 0 .. T - 1, NEW L \in Nat,
         n - t <= T * L, T * L <= n - t + T - 1
  PROVE  /\ t = n % T => (n + 1) - t <= T * (L + 1) /\ T * (L + 1) <= (n + 1) - t + T - 1
         /\ t # n % T => (n + 1) - t <= T * L /\ T * L <= (n + 1) - t + T - 1
<1>1. T * L \in Int /\ t \in Int /\ T * (L + 1) = T * L + T
  OBVIOUS
<1>2. ASSUME t = n % T
      PROVE  T * L = n - t
  <2>1. PICK q \in Nat : n = T * q + t
    BY <1>2, Residue
  <2>2. T * q \in Int
    OBVIOUS
  <2>3. T * L >= T * q /\ T * L <= T * q + T - 1
    BY <1>1, <2>1, <2>2
  <2>4. L = q
    BY <2>3, SameMultiple
  <2> QED
    BY <2>1, <2>2, <2>4, <1>1
<1>3. ASSUME T * L = n - t
      PROVE  t = n % T
  <2>1. n = T * L + t
    BY <1>1, <1>3
  <2> QED
    BY <2>1, UniqueResidue
<1> QED
  BY <1>1, <1>2, <1>3

(* With at most T * C connections dealt no thread has more than C. *)
LEMMA DealtAtMost ==
  ASSUME NEW T \in Nat \ {0}, NEW n \in Nat, NEW t \in 0 .. T - 1, NEW L \in Nat,
         NEW C \in Nat, n <= T * C, T * L <= n - t + T - 1
  PROVE  L <= C
<1>1. T * L <= T * C + T - 1
  OBVIOUS
<1> QED
  BY <1>1

(***************************************************************************)
(* What numbers add up to.                                                 *)
(***************************************************************************)

LEMMA AllNumbers ==
  ASSUME NEW Good \in SUBSET Nat, 0 \in Good, \A n \in Good : n + 1 \in Good
  PROVE  \A n \in Nat : n \in Good
<1> SUFFICES ASSUME Nat \ Good # {} PROVE FALSE
  OBVIOUS
<1>1. PICK m \in Nat \ Good : \A n \in Nat \ Good : m <= n
  BY SmallestOf
<1>2. m # 0 /\ m - 1 \in Nat /\ ~(m <= m - 1) /\ (m - 1) + 1 = m
  OBVIOUS
<1>3. m - 1 \in Good
  BY <1>1, <1>2
<1> QED
  BY <1>1, <1>2, <1>3

Picked(s) == CHOOSE x \in s : TRUE

LEMMA PickedIn ==
  ASSUME NEW s, s # {}
  PROVE  Picked(s) \in s
BY DEF Picked

(* Every finite set is emptied by picking its elements one by one.         *)
LEMMA Emptied ==
  ASSUME NEW D, IsFiniteSet(D), NEW Good, {} \in Good,
         \A s \in SUBSET D : s # {} /\ s \ {Picked(s)} \in Good => s \in Good
  PROVE  D \in Good
<1> DEFINE Sized == {n \in Nat : \A s \in SUBSET D : Cardinality(s) = n => s \in Good}
<1>1. \A s \in SUBSET D : IsFiniteSet(s) /\ Cardinality(s) \in Nat
  BY FS_Subset, FS_CardinalityType
<1>2. 0 \in Sized
  BY <1>1, FS_EmptySet
<1>3. ASSUME NEW n \in Sized
      PROVE  n + 1 \in Sized
  <2> SUFFICES ASSUME NEW s \in SUBSET D, Cardinality(s) = n + 1
               PROVE  s \in Good
    OBVIOUS
  <2>1. s # {}
    BY FS_EmptySet
  <2>2. Cardinality(s \ {Picked(s)}) = n
    BY <1>1, <2>1, PickedIn, FS_RemoveElement
  <2> QED
    BY <2>1, <2>2
<1>4. Sized \in SUBSET Nat
  OBVIOUS
<1> HIDE DEF Sized
<1>5. \A n \in Nat : n \in Sized
  BY <1>2, <1>3, <1>4, AllNumbers
<1>6. Cardinality(D) \in Sized /\ D \in SUBSET D
  BY <1>1, <1>5
<1> QED
  BY <1>6 DEF Sized

(* The sums over the subsets of f's domain, each from that without the     *)
(* element picked.                                                         *)
Sums(g, f) ==
  g = [s \in SUBSET DOMAIN f |->
         IF s = {} THEN 0 ELSE f[Picked(s)] + g[s \ {Picked(s)}]]

SmallSubsets(D, n) == {s \in SUBSET D : Cardinality(s) <= n}

SumsOfSmall(g, f, n) ==
  g = [s \in SmallSubsets(DOMAIN f, n) |->
         IF s = {} THEN 0 ELSE f[Picked(s)] + g[s \ {Picked(s)}]]

LEMMA SumsOfLarger ==
  ASSUME NEW f, IsFiniteSet(DOMAIN f), NEW n \in Nat, NEW g, SumsOfSmall(g, f, n)
  PROVE  \E h : SumsOfSmall(h, f, n + 1)
<1> DEFINE Small(m) == SmallSubsets(DOMAIN f, m)
           h == [s \in Small(n + 1) |->
                   IF s = {} THEN 0 ELSE f[Picked(s)] + g[s \ {Picked(s)}]]
<1>1. \A s \in SUBSET DOMAIN f : IsFiniteSet(s) /\ Cardinality(s) \in Nat
  BY FS_Subset, FS_CardinalityType
<1>2. \A s \in Small(n + 1) : s # {} => s \ {Picked(s)} \in Small(n)
  <2> SUFFICES ASSUME NEW s \in Small(n + 1), s # {}
               PROVE  s \ {Picked(s)} \in Small(n)
    OBVIOUS
  <2>1. s \in SUBSET DOMAIN f /\ Cardinality(s) <= n + 1
    BY DEF SmallSubsets
  <2>2. Cardinality(s \ {Picked(s)}) = Cardinality(s) - 1 /\ Cardinality(s) \in Nat
    BY <1>1, <2>1, PickedIn, FS_RemoveElement
  <2> QED
    BY <2>1, <2>2 DEF SmallSubsets
<1>3. \A s \in Small(n) : s \in Small(n + 1) /\ h[s] = g[s]
  <2>1. \A s \in Small(n) : s \in Small(n + 1)
    BY <1>1 DEF SmallSubsets
  <2>2. \A s \in Small(n) : g[s] = IF s = {} THEN 0 ELSE f[Picked(s)] + g[s \ {Picked(s)}]
    BY DEF SumsOfSmall
  <2> QED
    BY <2>1, <2>2
<1>4. h = [s \in Small(n + 1) |->
             IF s = {} THEN 0 ELSE f[Picked(s)] + h[s \ {Picked(s)}]]
  <2> HIDE DEF Small
  <2> QED
    BY <1>2, <1>3
<1> HIDE DEF h
<1>5. SumsOfSmall(h, f, n + 1)
  BY <1>4 DEF SumsOfSmall
<1> QED
  BY <1>5

LEMMA SumsExist ==
  ASSUME NEW f, IsFiniteSet(DOMAIN f)
  PROVE  \E g : Sums(g, f)
<1> DEFINE Known == {n \in Nat : \E g : SumsOfSmall(g, f, n)}
<1>1. \A s \in SUBSET DOMAIN f : IsFiniteSet(s) /\ Cardinality(s) \in Nat
                                 /\ Cardinality(s) <= Cardinality(DOMAIN f)
  BY FS_Subset, FS_CardinalityType
<1>2. 0 \in Known
  <2> DEFINE g == [s \in SmallSubsets(DOMAIN f, 0) |-> 0]
  <2>1. \A s \in SmallSubsets(DOMAIN f, 0) : s = {}
    BY <1>1, FS_EmptySet DEF SmallSubsets
  <2>2. SumsOfSmall(g, f, 0)
    BY <2>1 DEF SumsOfSmall
  <2> QED
    BY <2>2
<1>3. \A n \in Known : n + 1 \in Known
  BY SumsOfLarger
<1>4. Known \in SUBSET Nat
  OBVIOUS
<1> HIDE DEF Known
<1>5. \A n \in Nat : n \in Known
  BY <1>2, <1>3, <1>4, AllNumbers
<1>6. Cardinality(DOMAIN f) \in Known
  BY <1>5, FS_CardinalityType
<1>7. PICK g : SumsOfSmall(g, f, Cardinality(DOMAIN f))
  BY <1>6 DEF Known
<1>8. SmallSubsets(DOMAIN f, Cardinality(DOMAIN f)) = SUBSET DOMAIN f
  BY <1>1 DEF SmallSubsets
<1> QED
  BY <1>7, <1>8 DEF Sums, SumsOfSmall

LEMMA TotalUnfolds ==
  ASSUME NEW f
  PROVE  Total(f) = (CHOOSE g : Sums(g, f))[DOMAIN f]
BY DEF Total, FoldFunction, FoldFunctionOnSet, MapThenFoldSet, Sums, Picked

LEMMA TotalSums ==
  ASSUME NEW f, IsFiniteSet(DOMAIN f)
  PROVE  \E g : Sums(g, f) /\ Total(f) = g[DOMAIN f]
BY SumsExist, TotalUnfolds

(* One value is changed.                                                   *)
LEMMA TotalChanged ==
  ASSUME NEW D, IsFiniteSet(D), NEW f \in [D -> Int], NEW h \in [D -> Int], NEW d \in D,
         \A e \in D \ {d} : h[e] = f[e]
  PROVE  Total(h) = Total(f) + h[d] - f[d] /\ Total(f) \in Int
<1>0. DOMAIN f = D /\ DOMAIN h = D /\ IsFiniteSet(DOMAIN f) /\ IsFiniteSet(DOMAIN h)
  OBVIOUS
<1>1. PICK g : Sums(g, f) /\ Total(f) = g[DOMAIN f]
  BY <1>0, TotalSums
<1>2. /\ Total(f) = g[D] /\ g[{}] = 0
      /\ \A s \in SUBSET D : s # {} => g[s] = f[Picked(s)] + g[s \ {Picked(s)}]
  BY ONLY <1>0, <1>1 DEF Sums
<1>3. PICK k : Sums(k, h) /\ Total(h) = k[DOMAIN h]
  BY <1>0, TotalSums
<1>4. /\ Total(h) = k[D] /\ k[{}] = 0
      /\ \A s \in SUBSET D : s # {} => k[s] = h[Picked(s)] + k[s \ {Picked(s)}]
  BY ONLY <1>0, <1>3 DEF Sums
<1> DEFINE Good == {s \in SUBSET D : /\ g[s] \in Int
                                     /\ k[s] = g[s] + IF d \in s THEN h[d] - f[d] ELSE 0}
<1>5. {} \in Good
  BY <1>2, <1>4
<1>6. ASSUME NEW s \in SUBSET D, s # {}, s \ {Picked(s)} \in Good
      PROVE  s \in Good
  <2> DEFINE p == Picked(s)
             r == s \ {p}
  <2>1. p \in s /\ p \in D /\ f[p] \in Int /\ h[p] \in Int /\ f[d] \in Int /\ h[d] \in Int
    BY <1>6, PickedIn
  <2>2. g[s] = f[p] + g[r] /\ k[s] = h[p] + k[r]
    BY <1>2, <1>4, <1>6
  <2>3. g[r] \in Int /\ k[r] = g[r] + IF d \in r THEN h[d] - f[d] ELSE 0
    BY <1>6
  <2> HIDE DEF p
  <2>4. CASE p = d
    BY <2>1, <2>2, <2>3, <2>4
  <2>5. CASE p # d
    <3>1. h[p] = f[p] /\ (d \in r <=> d \in s)
      BY <2>1, <2>5
    <3> QED
      BY <2>1, <2>2, <2>3, <3>1
  <2> QED
    BY <2>4, <2>5
<1> HIDE DEF Good
<1>7. D \in Good
  BY <1>5, <1>6, Emptied
<1> QED
  BY <1>2, <1>4, <1>7 DEF Good

(* The larger the values, the larger the sum.                              *)
LEMMA TotalGrows ==
  ASSUME NEW D, IsFiniteSet(D), NEW f \in [D -> Int], NEW h \in [D -> Int],
         \A e \in D : f[e] <= h[e]
  PROVE  Total(f) <= Total(h) /\ Total(f) \in Int /\ Total(h) \in Int
<1>0. DOMAIN f = D /\ DOMAIN h = D /\ IsFiniteSet(DOMAIN f) /\ IsFiniteSet(DOMAIN h)
  OBVIOUS
<1>1. PICK g : Sums(g, f) /\ Total(f) = g[DOMAIN f]
  BY <1>0, TotalSums
<1>2. /\ Total(f) = g[D] /\ g[{}] = 0
      /\ \A s \in SUBSET D : s # {} => g[s] = f[Picked(s)] + g[s \ {Picked(s)}]
  BY ONLY <1>0, <1>1 DEF Sums
<1>3. PICK k : Sums(k, h) /\ Total(h) = k[DOMAIN h]
  BY <1>0, TotalSums
<1>4. /\ Total(h) = k[D] /\ k[{}] = 0
      /\ \A s \in SUBSET D : s # {} => k[s] = h[Picked(s)] + k[s \ {Picked(s)}]
  BY ONLY <1>0, <1>3 DEF Sums
<1> DEFINE Good == {s \in SUBSET D : g[s] \in Int /\ k[s] \in Int /\ g[s] <= k[s]}
<1>5. {} \in Good
  BY <1>2, <1>4
<1>6. ASSUME NEW s \in SUBSET D, s # {}, s \ {Picked(s)} \in Good
      PROVE  s \in Good
  <2> DEFINE p == Picked(s)
             r == s \ {p}
  <2>1. p \in s /\ p \in D /\ f[p] \in Int /\ h[p] \in Int /\ f[p] <= h[p]
    BY <1>6, PickedIn
  <2>2. g[s] = f[p] + g[r] /\ k[s] = h[p] + k[r]
    BY <1>2, <1>4, <1>6
  <2>3. g[r] \in Int /\ k[r] \in Int /\ g[r] <= k[r]
    BY <1>6
  <2> QED
    BY <2>1, <2>2, <2>3
<1> HIDE DEF Good
<1>7. D \in Good
  BY <1>5, <1>6, Emptied
<1> QED
  BY <1>2, <1>4, <1>7 DEF Good

LEMMA TotalZero ==
  ASSUME NEW D, IsFiniteSet(D), NEW f \in [D -> {0}]
  PROVE  Total(f) = 0
<1>0. DOMAIN f = D /\ IsFiniteSet(DOMAIN f)
  OBVIOUS
<1>1. PICK g : Sums(g, f) /\ Total(f) = g[DOMAIN f]
  BY <1>0, TotalSums
<1>2. /\ Total(f) = g[D] /\ g[{}] = 0
      /\ \A s \in SUBSET D : s # {} => g[s] = f[Picked(s)] + g[s \ {Picked(s)}]
  BY ONLY <1>0, <1>1 DEF Sums
<1> DEFINE Good == {s \in SUBSET D : g[s] = 0}
<1>3. {} \in Good
  BY <1>2
<1>4. ASSUME NEW s \in SUBSET D, s # {}, s \ {Picked(s)} \in Good
      PROVE  s \in Good
  <2>1. Picked(s) \in D /\ f[Picked(s)] = 0
    BY <1>4, PickedIn
  <2> QED
    BY <1>2, <1>4, <2>1
<1> HIDE DEF Good
<1>5. D \in Good
  BY <1>3, <1>4, Emptied
<1> QED
  BY <1>2, <1>5 DEF Good
=============================================================================
