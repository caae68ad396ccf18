--------------------------- MODULE SetInduction ---------------------------
(***************************************************************************)
(* Induction over numbers and the recursive functions that stand for the    *)
(* code's loops, stated over sets, and the insertion sort that stands for   *)
(* its calls of std::sort.  The other proof modules cite it.                *)
(***************************************************************************)
EXTENDS Integers, Sequences, FiniteSets, NaturalsInduction, WellFoundedInduction,
        FiniteSetTheorems, SequenceTheorems, TLAPS

(* Every set of naturals that is not empty has a least member. *)
LEMMA LeastExists ==
  ASSUME NEW S \in SUBSET Nat, S # {}
  PROVE  \E i \in S : \A j \in S : i <= j
<1>1. PICK i \in S : \A j \in S : ~ (<<j, i>> \in OpToRel(<, Nat))
  BY NatLessThanWellFounded, WFMin
<1>2. ASSUME NEW j \in S, j < i
      PROVE  FALSE
  <2>1. <<j, i>> \in Nat \X Nat /\ <<j, i>>[1] < <<j, i>>[2]
    BY <1>2
  <2>2. <<j, i>> \in OpToRel(<, Nat)
    BY <2>1, Zenon DEF OpToRel
  <2> QED BY <1>1, <2>2
<1> QED BY <1>2

(* Induction over 0 .. n, by the set of the numbers a fact holds of: the  *)
(* provers take a set as a parameter where they do not take a predicate.   *)
LEMMA UpTo ==
  ASSUME NEW n \in Nat, NEW S, 0 \in S, \A m \in 1 .. n : m - 1 \in S => m \in S
  PROVE  \A m \in 0 .. n : m \in S
<1> DEFINE Bad == {m \in 0 .. n : m \notin S}
<1> SUFFICES ASSUME Bad # {} PROVE FALSE
  OBVIOUS
<1>1. Bad \in SUBSET Nat
  OBVIOUS
<1>2. PICK m \in Bad : \A k \in Bad : m <= k
  <2> HIDE DEF Bad
  <2> QED BY <1>1, LeastExists
<1>3. m \in 1 .. n /\ m - 1 \in 0 .. n /\ m - 1 \notin Bad
  BY <1>2
<1> QED BY <1>2, <1>3

(* The first m values of a computation: from base, step i makes the next    *)
(* value of the one before it.                                              *)
Runs(T, base, step, m) ==
  {f \in [0 .. m -> T] : f[0] = base /\ \A i \in 1 .. m : f[i] = step[i][f[i - 1]]}

(* Such a computation exists for every length, so that a recursive function *)
(* that describes it satisfies its own equation.                            *)
LEMMA Scans ==
  ASSUME NEW T, NEW base \in T, NEW n \in Nat, NEW step \in [1 .. n -> [T -> T]]
  PROVE  Runs(T, base, step, n) # {}
<1> DEFINE S == {m \in 0 .. n : Runs(T, base, step, m) # {}}
<1>1. 0 \in S
  <2> DEFINE f == [i \in 0 .. 0 |-> base]
  <2>1. f \in Runs(T, base, step, 0)
    BY DEF Runs
  <2> QED BY <2>1
<1>2. ASSUME NEW m \in 1 .. n, m - 1 \in S PROVE m \in S
  <2>1. PICK f : f \in Runs(T, base, step, m - 1)
    BY <1>2
  <2>2. f \in [0 .. m - 1 -> T] /\ f[0] = base /\ \A i \in 1 .. m - 1 : f[i] = step[i][f[i - 1]]
    BY <2>1 DEF Runs
  <2> DEFINE g == [i \in 0 .. m |-> IF i = m THEN step[m][f[m - 1]] ELSE f[i]]
  <2>4. step[m] \in [T -> T] /\ f[m - 1] \in T
    BY <2>2
  <2>5. g \in [0 .. m -> T]
    BY <2>2, <2>4
  <2>6. g[0] = base
    BY <2>2
  <2>7. ASSUME NEW i \in 1 .. m PROVE g[i] = step[i][g[i - 1]]
    BY <2>2
  <2>8. g \in Runs(T, base, step, m)
    BY <2>5, <2>6, <2>7 DEF Runs
  <2> QED BY <2>8
<1>3. \A m \in 0 .. n : m \in S
  <2> HIDE DEF S
  <2> QED BY <1>1, <1>2, UpTo
<1> QED BY <1>3

(* A product grows with its first factor. *)
LEMMA ProductGrows ==
  ASSUME NEW a \in Nat, NEW b \in Nat, NEW c \in Nat, a <= b
  PROVE  a * c \in Nat /\ b * c \in Nat /\ a * c <= b * c
<1>1. b - a \in Nat /\ b = a + (b - a)
  OBVIOUS
<1>2. (a + (b - a)) * c = a * c + (b - a) * c
  BY <1>1
<1>3. a * c \in Nat /\ b * c \in Nat /\ (b - a) * c \in Nat
  BY <1>1
<1> QED BY <1>1, <1>2, <1>3

(* One more factor is one more summand. *)
LEMMA ProductStep ==
  ASSUME NEW a \in Nat, NEW c \in Nat
  PROVE  (a + 1) * c = a * c + c
OBVIOUS

-----------------------------------------------------------------------------
(* Insertion into a sequence *)

\* The sequence with x put behind its first b elements.
Placed(q, b, x) == SubSeq(q, 1, b) \o <<x>> \o SubSeq(q, b + 1, Len(q))

\* The sequence with x put behind its first b elements, element by element.
IsPlaced(p, q, b, x) ==
    /\ Len(p) = Len(q) + 1
    /\ \A i \in 1 .. b : p[i] = q[i]
    /\ p[b + 1] = x
    /\ \A i \in b + 2 .. Len(q) + 1 : p[i] = q[i - 1]

\* Putting x behind the first b elements leaves the others in their order.
LEMMA PlacedIs ==
  ASSUME NEW X, NEW q \in Seq(X), NEW x \in X, NEW b \in 0 .. Len(q)
  PROVE  Placed(q, b, x) \in Seq(X) /\ IsPlaced(Placed(q, b, x), q, b, x)
<1> DEFINE l == SubSeq(q, 1, b)
           m == <<x>>
           r == SubSeq(q, b + 1, Len(q))
           lm == l \o m
           p == lm \o r
<1>1. Len(q) \in Nat /\ b \in Nat /\ b <= Len(q)
  OBVIOUS
<1>2. l \in Seq(X) /\ Len(l) = b /\ \A i \in 1 .. b : l[i] = q[i]
  BY <1>1
<1>3. r \in Seq(X) /\ Len(r) = Len(q) - b /\ \A i \in 1 .. Len(q) - b : r[i] = q[b + i]
  BY <1>1
<1>4. m \in Seq(X) /\ Len(m) = 1 /\ m[1] = x
  OBVIOUS
<1>5. Placed(q, b, x) = p
  BY DEF Placed
<1> HIDE DEF l, m, r
<1>6. /\ lm \in Seq(X) /\ Len(lm) = b + 1
      /\ \A i \in 1 .. b : lm[i] = q[i]
      /\ lm[b + 1] = x
  <2>1. /\ lm \in Seq(X) /\ Len(lm) = Len(l) + Len(m)
        /\ \A i \in 1 .. Len(l) + Len(m) : lm[i] = IF i <= Len(l) THEN l[i] ELSE m[i - Len(l)]
    <3>1. l \in Seq(X) /\ m \in Seq(X)
      BY <1>2, <1>4
    <3> QED BY <3>1, ConcatProperties
  <2> HIDE DEF lm
  <2>2. lm[b + 1] = m[1]
    BY <1>1, <1>2, <1>4, <2>1
  <2> QED BY <1>1, <1>2, <1>4, <2>1, <2>2
<1> HIDE DEF lm
<1>7. /\ p \in Seq(X) /\ Len(p) = Len(lm) + Len(r)
      /\ \A i \in 1 .. Len(lm) + Len(r) : p[i] = IF i <= Len(lm) THEN lm[i] ELSE r[i - Len(lm)]
  <2>1. lm \in Seq(X) /\ r \in Seq(X)
    BY <1>3, <1>6
  <2> QED BY <2>1, ConcatProperties
<1> HIDE DEF p
<1>8. Len(p) = Len(q) + 1
  BY <1>1, <1>3, <1>6, <1>7
<1>9. \A i \in 1 .. b : p[i] = q[i]
  BY <1>1, <1>6, <1>7
<1>10. p[b + 1] = x
  BY <1>1, <1>6, <1>7
<1>11. ASSUME NEW i \in b + 2 .. Len(q) + 1 PROVE p[i] = q[i - 1]
  <2> DEFINE j == i - (b + 1)
  <2>1. j \in 1 .. Len(q) - b /\ i = (b + 1) + j /\ b + j = i - 1
    BY <1>1
  <2> HIDE DEF j
  <2>2. p[(b + 1) + j] = r[j]
    <3>1. (b + 1) + j \in 1 .. Len(lm) + Len(r) /\ ~((b + 1) + j <= Len(lm))
          /\ ((b + 1) + j) - Len(lm) = j
      BY <1>1, <1>3, <1>6, <2>1
    <3> QED BY <1>7, <3>1
  <2>3. r[j] = q[b + j]
    BY <1>3, <2>1
  <2> QED BY <2>1, <2>2, <2>3
<1> QED BY <1>5, <1>7, <1>8, <1>9, <1>10, <1>11 DEF IsPlaced

\* There are no more places than the sequence has.
LEMMA PlacesCounted ==
  ASSUME NEW n \in Nat, NEW B \in SUBSET (1 .. n)
  PROVE  IsFiniteSet(B) /\ Cardinality(B) \in 0 .. n
<1>1. IsFiniteSet(1 .. n) /\ Cardinality(1 .. n) = n
  BY FS_Interval
<1>2. IsFiniteSet(B) /\ Cardinality(B) <= Cardinality(1 .. n)
  BY <1>1, FS_Subset
<1> QED BY <1>1, <1>2, FS_CardinalityType

\* A set of positions without gaps, counted from the first.
LEMMA PrefixCounted ==
  ASSUME NEW n \in Nat, NEW B \in SUBSET (1 .. n),
         \A i \in B : \A j \in 1 .. n : j < i => j \in B
  PROVE  Cardinality(B) \in 0 .. n /\ B = 1 .. Cardinality(B)
<1> DEFINE Out == (1 .. n + 1) \ B
<1>1. Out \in SUBSET Nat /\ n + 1 \in Out
  OBVIOUS
<1>2. PICK m \in Out : \A j \in Out : m <= j
  <2> HIDE DEF Out
  <2> QED BY <1>1, LeastExists
<1>3. m \in Nat /\ m >= 1 /\ m <= n + 1 /\ m - 1 \in 0 .. n
  BY <1>1, <1>2
<1>4. B = 1 .. m - 1
  <2>1. ASSUME NEW j \in B PROVE j \in 1 .. m - 1
    <3>1. j \in 1 .. n
      OBVIOUS
    <3>2. m < j => FALSE
      BY <1>2, <1>3, <3>1
    <3>3. m # j
      BY <1>2
    <3> QED BY <1>3, <3>1, <3>2, <3>3
  <2>2. ASSUME NEW j \in 1 .. m - 1 PROVE j \in B
    <3>1. j \in 1 .. n + 1 /\ j < m
      BY <1>3
    <3> QED BY <1>2, <1>3, <3>1
  <2> QED BY <2>1, <2>2
<1>5. Cardinality(1 .. m - 1) = m - 1
  BY <1>3, FS_Interval
<1> QED BY <1>3, <1>4, <1>5

\* A sequence is in the order R of pairs.
Ascends(q, R) == \A i, j \in DOMAIN q : i < j => <<q[i], q[j]>> \in R

Before(q, R, x) == {i \in DOMAIN q : <<q[i], x>> \in R}
IsOrder(R, X) ==
    /\ \A u, v \in X : <<u, v>> \in R \/ <<v, u>> \in R
    /\ \A u, v, t \in X : <<u, v>> \in R /\ <<v, t>> \in R => <<u, t>> \in R

\* A sequence in the order of a relation stays so when an element is put behind
\* those that the relation has before it.
LEMMA PlacedAscends ==
  ASSUME NEW X, NEW R, IsOrder(R, X), NEW q \in Seq(X), NEW x \in X, Ascends(q, R),
         NEW b, b = Cardinality(Before(q, R, x))
  PROVE  b \in 0 .. Len(q) /\ Ascends(Placed(q, b, x), R)
<1> DEFINE B == Before(q, R, x)
           p == Placed(q, b, x)
<1>1. /\ Len(q) \in Nat /\ DOMAIN q = 1 .. Len(q)
      /\ \A i \in 1 .. Len(q) : q[i] \in X
  OBVIOUS
<1>2. B \in SUBSET (1 .. Len(q))
  BY <1>1 DEF Before
<1>3. ASSUME NEW i \in B, NEW j \in 1 .. Len(q), j < i PROVE j \in B
  <2>1. <<q[j], q[i]>> \in R /\ <<q[i], x>> \in R
    BY <1>1, <1>3 DEF Ascends, Before
  <2>2. <<q[j], x>> \in R
    BY <1>1, <1>2, <2>1 DEF IsOrder
  <2> QED BY <1>1, <2>2 DEF Before
<1>4. b \in 0 .. Len(q) /\ B = 1 .. b
  <2> HIDE DEF B
  <2>1. b = Cardinality(B)
    BY DEF B
  <2> QED BY <1>1, <1>2, <1>3, <2>1, PrefixCounted
<1>5. \A i \in 1 .. b : <<q[i], x>> \in R
  BY <1>4 DEF Before
<1>6. ASSUME NEW i \in b + 1 .. Len(q) PROVE <<x, q[i]>> \in R
  <2>1. i \in 1 .. Len(q) /\ i \notin 1 .. b
    BY <1>1, <1>4
  <2>2. i \notin Before(q, R, x)
    BY <1>4, <2>1
  <2> QED BY <1>1, <2>1, <2>2 DEF IsOrder, Before
<1> HIDE DEF B
<1>10. p \in Seq(X) /\ IsPlaced(p, q, b, x)
  BY <1>4, PlacedIs
<1> HIDE DEF p
<1>7. /\ p \in Seq(X) /\ Len(p) = Len(q) + 1
      /\ \A i \in 1 .. b : p[i] = q[i]
      /\ p[b + 1] = x
      /\ \A i \in b + 2 .. Len(q) + 1 : p[i] = q[i - 1]
  BY <1>10 DEF IsPlaced
<1>8. ASSUME NEW i \in 1 .. Len(q) + 1, NEW j \in 1 .. Len(q) + 1, i < j
      PROVE  <<p[i], p[j]>> \in R
  <2>0. /\ b \in Nat /\ b <= Len(q)
        /\ \A u, v \in 1 .. Len(q) : u < v => <<q[u], q[v]>> \in R
    <3>1. b \in Nat /\ b <= Len(q)
      BY <1>1, <1>4
    <3> QED BY <1>1, <3>1 DEF Ascends
  <2>1. CASE j <= b
    <3>1. i \in 1 .. b /\ j \in 1 .. b /\ i \in 1 .. Len(q) /\ j \in 1 .. Len(q)
      BY <1>1, <1>8, <2>0, <2>1
    <3>2. <<q[i], q[j]>> \in R
      BY <1>8, <2>0, <3>1
    <3> QED BY <1>7, <3>1, <3>2
  <2>2. CASE j = b + 1
    <3>1. i \in 1 .. b
      BY <1>1, <1>8, <2>0, <2>2
    <3> QED BY <1>5, <1>7, <2>2, <3>1
  <2>3. CASE j > b + 1
    <3>1. p[j] = q[j - 1] /\ j - 1 \in 1 .. Len(q) /\ j - 1 \in b + 1 .. Len(q)
      BY <1>1, <1>7, <2>0, <2>3
    <3>2. CASE i <= b
      <4>1. i \in 1 .. Len(q) /\ i < j - 1 /\ p[i] = q[i]
        BY <1>1, <1>7, <2>0, <2>3, <3>2
      <4> QED BY <2>0, <3>1, <4>1
    <3>3. CASE i = b + 1
      BY <1>6, <1>7, <3>1, <3>3
    <3>4. CASE i > b + 1
      <4>1. i - 1 \in 1 .. Len(q) /\ i - 1 < j - 1 /\ i \in b + 2 .. Len(q) + 1
        BY <1>1, <1>8, <2>0, <3>4
      <4>2. p[i] = q[i - 1]
        BY <1>7, <4>1
      <4> QED BY <2>0, <3>1, <4>1, <4>2
    <3> QED BY <1>1, <2>0, <3>2, <3>3, <3>4
  <2> QED BY <1>1, <2>0, <2>1, <2>2, <2>3
<1>9. DOMAIN p = 1 .. Len(q) + 1
  BY <1>7
<1> QED BY <1>4, <1>8, <1>9 DEF Ascends, p

\* Elements of q are among the first m of all, and the other way round.
SomeOf(q, all, m) == \A i \in DOMAIN q : \E j \in 1 .. m : q[i] = all[j]
AllOf(q, all, m) == \A j \in 1 .. m : \E i \in DOMAIN q : q[i] = all[j]

\* Any two elements are in the relation D.
Pairwise(q, D) == \A i, j \in DOMAIN q : i # j => <<q[i], q[j]>> \in D

\* w is the insertion sort of q, one element after the other.
Sorts(w, q, R) ==
    /\ w[0] = <<>>
    /\ \A i \in 1 .. Len(q) : w[i] = Placed(w[i - 1], Cardinality(Before(w[i - 1], R, q[i])), q[i])

Sorted(s, q, R) ==
    /\ Len(s) = Len(q)
    /\ Ascends(s, R)
    /\ SomeOf(s, q, Len(q))
    /\ AllOf(s, q, Len(q))

\* An insertion sort puts the elements of a sequence in order: they are as many,
\* the same ones, and what holds of any two of them still does.
LEMMA InsertionSorts ==
  ASSUME NEW X, NEW R, IsOrder(R, X), NEW all \in Seq(X), NEW D, Pairwise(all, D),
         NEW w \in [0 .. Len(all) -> Seq(X)], Sorts(w, all, R)
  PROVE  Sorted(w[Len(all)], all, R) /\ Pairwise(w[Len(all)], D)
<1> DEFINE n == Len(all)
<1>1. n \in Nat /\ DOMAIN all = 1 .. n /\ \A i \in 1 .. n : all[i] \in X
  OBVIOUS
<1>2. /\ w[0] = <<>>
      /\ \A i \in 1 .. n : w[i] = Placed(w[i - 1], Cardinality(Before(w[i - 1], R, all[i])), all[i])
      /\ w \in [0 .. n -> Seq(X)]
  BY DEF Sorts
<1> HIDE DEF n
<1> DEFINE I(q, m) == /\ Len(q) = m /\ Ascends(q, R) /\ Pairwise(q, D)
                      /\ SomeOf(q, all, m) /\ AllOf(q, all, m)
           S == {m \in 0 .. n : I(w[m], m)}
<1>3. 0 \in S
  <2> DEFINE none == <<>>
  <2>1. w[0] = none /\ DOMAIN none = {} /\ Len(none) = 0
    BY <1>2
  <2> HIDE DEF none
  <2> QED BY <1>1, <2>1 DEF Ascends, Pairwise, SomeOf, AllOf
<1>4. ASSUME NEW m \in 1 .. n, m - 1 \in S PROVE m \in S
  <2> DEFINE q == w[m - 1]
             x == all[m]
             b == Cardinality(Before(q, R, x))
             p == Placed(q, b, x)
  <2>1. /\ q \in Seq(X) /\ x \in X /\ Len(q) = m - 1 /\ DOMAIN q = 1 .. Len(q) /\ Len(q) \in Nat
        /\ Ascends(q, R) /\ Pairwise(q, D) /\ SomeOf(q, all, m - 1) /\ AllOf(q, all, m - 1)
    <3>1. I(q, m - 1)
      <4> HIDE DEF I
      <4> QED BY <1>4
    <3>2. q \in Seq(X) /\ x \in X
      <4>1. m - 1 \in 0 .. n
        BY <1>1
      <4> QED BY <1>1, <1>2, <4>1
    <3> HIDE DEF q, x
    <3>3. DOMAIN q = 1 .. Len(q) /\ Len(q) \in Nat
      BY <3>2
    <3> QED BY <3>1, <3>2, <3>3
  <2>5. w[m] = p
    BY <1>2
  <2> HIDE DEF q, x
  <2>4. b \in 0 .. Len(q) /\ Ascends(p, R)
    <3> HIDE DEF b
    <3>1. b = Cardinality(Before(q, R, x))
      BY DEF b
    <3>2. q \in Seq(X) /\ x \in X /\ Ascends(q, R)
      BY <2>1
    <3> QED BY <3>1, <3>2, PlacedAscends
  <2> HIDE DEF b
  <2>20. p \in Seq(X) /\ IsPlaced(p, q, b, x)
    BY <2>1, <2>4, PlacedIs
  <2> HIDE DEF p
  <2>6. /\ p \in Seq(X) /\ Len(p) = Len(q) + 1
        /\ \A i \in 1 .. b : p[i] = q[i]
        /\ p[b + 1] = x
        /\ \A i \in b + 2 .. Len(q) + 1 : p[i] = q[i - 1]
    BY <2>20 DEF IsPlaced
  <2>7. DOMAIN p = 1 .. Len(q) + 1 /\ b \in Nat /\ b <= Len(q)
    BY <2>1, <2>4, <2>6
  <2> DEFINE at(i) == IF i <= b THEN i ELSE i - 1
  <2>8. \A i \in DOMAIN p : i # b + 1 => at(i) \in 1 .. Len(q) /\ p[i] = q[at(i)]
    <3> SUFFICES ASSUME NEW i \in DOMAIN p, i # b + 1
                 PROVE  at(i) \in 1 .. Len(q) /\ p[i] = q[at(i)]
      OBVIOUS
    <3>1. CASE i <= b
      <4>1. i \in 1 .. b /\ i \in 1 .. Len(q)
        BY <2>1, <2>7, <3>1
      <4> QED BY <2>6, <3>1, <4>1
    <3>2. CASE ~(i <= b)
      <4>1. i \in b + 2 .. Len(q) + 1 /\ i - 1 \in 1 .. Len(q)
        BY <2>1, <2>7, <3>2
      <4> QED BY <2>6, <3>2, <4>1
    <3> QED BY <3>1, <3>2
  <2>9. \A i, j \in DOMAIN p : i # b + 1 /\ j # b + 1 /\ i # j => at(i) # at(j)
    BY <2>1, <2>7
  <2>10. \A i \in 1 .. Len(q) : \E j \in DOMAIN p : p[j] = q[i]
    <3> SUFFICES ASSUME NEW i \in 1 .. Len(q) PROVE \E j \in DOMAIN p : p[j] = q[i]
      OBVIOUS
    <3>1. CASE i <= b
      <4>1. i \in 1 .. b /\ i \in DOMAIN p
        BY <2>1, <2>7, <3>1
      <4> QED BY <2>6, <4>1
    <3>2. CASE ~(i <= b)
      <4>1. i + 1 \in b + 2 .. Len(q) + 1 /\ (i + 1) - 1 = i /\ i + 1 \in DOMAIN p
        BY <2>1, <2>7, <3>2
      <4> QED BY <2>6, <4>1
    <3> QED BY <3>1, <3>2
  <2> HIDE DEF at
  <2>11. \A i \in DOMAIN q : <<q[i], x>> \in D /\ <<x, q[i]>> \in D
    <3> SUFFICES ASSUME NEW i \in DOMAIN q PROVE <<q[i], x>> \in D /\ <<x, q[i]>> \in D
      OBVIOUS
    <3>1. PICK j \in 1 .. m - 1 : q[i] = all[j]
      BY <2>1 DEF SomeOf
    <3>2. j \in DOMAIN all /\ m \in DOMAIN all /\ j # m
      BY <1>1
    <3> QED BY <3>1, <3>2 DEF Pairwise, x
  <2>12. Pairwise(p, D)
    <3> SUFFICES ASSUME NEW i \in DOMAIN p, NEW j \in DOMAIN p, i # j
                 PROVE  <<p[i], p[j]>> \in D
      BY DEF Pairwise
    <3>1. CASE i # b + 1 /\ j # b + 1
      <4>1. at(i) \in DOMAIN q /\ at(j) \in DOMAIN q /\ at(i) # at(j)
        BY <2>1, <2>8, <2>9, <3>1
      <4> QED BY <2>1, <2>8, <3>1, <4>1 DEF Pairwise
    <3>2. CASE i = b + 1
      <4>1. at(j) \in DOMAIN q /\ p[j] = q[at(j)] /\ p[i] = x
        BY <2>1, <2>6, <2>8, <3>2
      <4> QED BY <2>11, <4>1
    <3>3. CASE j = b + 1
      <4>1. at(i) \in DOMAIN q /\ p[i] = q[at(i)] /\ p[j] = x
        BY <2>1, <2>6, <2>8, <3>3
      <4> QED BY <2>11, <4>1
    <3> QED BY <3>1, <3>2, <3>3
  <2>13. SomeOf(p, all, m)
    <3> SUFFICES ASSUME NEW i \in DOMAIN p PROVE \E j \in 1 .. m : p[i] = all[j]
      BY DEF SomeOf
    <3>1. CASE i = b + 1
      <4>1. p[i] = all[m] /\ m \in 1 .. m
        BY <1>1, <2>6, <3>1 DEF x
      <4> QED BY <4>1
    <3>2. CASE i # b + 1
      <4>1. at(i) \in DOMAIN q /\ p[i] = q[at(i)]
        BY <2>1, <2>8, <3>2
      <4>2. PICK j \in 1 .. m - 1 : q[at(i)] = all[j]
        BY <2>1, <4>1 DEF SomeOf
      <4>3. j \in 1 .. m
        BY <1>1
      <4> QED BY <4>1, <4>2, <4>3
    <3> QED BY <3>1, <3>2
  <2>14. AllOf(p, all, m)
    <3> SUFFICES ASSUME NEW j \in 1 .. m PROVE \E i \in DOMAIN p : p[i] = all[j]
      BY DEF AllOf
    <3>1. CASE j = m
      <4>1. b + 1 \in DOMAIN p /\ p[b + 1] = all[m]
        BY <2>1, <2>6, <2>7 DEF x
      <4> QED BY <3>1, <4>1
    <3>2. CASE j # m
      <4>1. j \in 1 .. m - 1
        BY <1>1, <3>2
      <4>2. PICK i \in DOMAIN q : q[i] = all[j]
        BY <2>1, <4>1 DEF AllOf
      <4> QED BY <2>1, <2>10, <4>2
    <3> QED BY <3>1, <3>2
  <2>15. Len(p) = m
    BY <1>1, <2>1, <2>6
  <2>16. I(p, m) /\ m \in 0 .. n
    BY <1>1, <2>4, <2>12, <2>13, <2>14, <2>15
  <2> HIDE DEF I
  <2> QED BY <2>5, <2>16
<1>5. \A m \in 0 .. n : m \in S
  <2> HIDE DEF S
  <2> QED BY <1>1, <1>3, <1>4, UpTo
<1>6. I(w[n], n)
  BY <1>1, <1>5
<1> QED BY <1>6 DEF Sorted, n
=============================================================================
