------------------------ MODULE RewardTrackerProofs ------------------------
(***************************************************************************)
(* What holds of the reward tracker for every number of decisions, every    *)
(* window, every length of the lists and every growth of the edge count.    *)
(***************************************************************************)
EXTENDS RewardTracker, SetInduction, FiniteSetTheorems, FunctionTheorems,
        SequenceTheorems, TLAPS

USE RewardAssumption DEF RewardAssumption

Entries == [id : Decisions, ts : Nat, credit : Nat, applied : Nat]

Types ==
  /\ decisions \in Seq(Entries)
  /\ haveBaseline \in BOOLEAN /\ lastEdges \in Nat
  /\ clock \in Nat /\ climbed \in Nat
  /\ file \in [edges : Nat, ts : Nat]
  /\ paid \subseteq [id : Decisions, at : Nat]
  /\ prompt \in [good : SUBSET Decisions, bad : SUBSET Decisions]

(* Decisions are recorded once each, in the order of the clock. *)
Recorded ==
  /\ \A i, j \in DOMAIN decisions :
       decisions[i].id = decisions[j].id => i = j
  /\ \A i, j \in DOMAIN decisions :
       i <= j => decisions[i].ts <= decisions[j].ts
  /\ \A i \in DOMAIN decisions : decisions[i].ts <= clock

(* Edges in the file that the tracker has not seen yet. *)
Pending ==
  IF haveBaseline /\ file.edges > lastEdges THEN file.edges - lastEdges ELSE 0

(* Every credit was paid for growth, and none for growth still to be seen. *)
Balanced ==
  /\ TotalCredit + Pending * Unit <= Unit * climbed
  /\ \A i \in DOMAIN decisions :
       decisions[i].credit > 0 <=> decisions[i].applied > 0
  /\ ~ haveBaseline => TotalCredit = 0

(* Whoever was paid was deployed in the window before the sample. *)
PaidInWindow ==
  \A p \in paid : \E i \in DOMAIN decisions :
    decisions[i].id = p.id /\ p.at <= decisions[i].ts + Window

(* A prompt lists only decisions that were credited. *)
PromptEarned == prompt.good # {} => K > 0 /\ Applied # {}

TrackerInv == Types /\ Recorded /\ Balanced /\ PaidInWindow /\ PromptEarned

-----------------------------------------------------------------------------
(* Shares and sums *)

(* Every sharer gets something, and together they get no more than the delta *)
(* is worth.                                                                  *)
LEMMA ShareBounds ==
  ASSUME NEW delta \in Nat \ {0}, NEW n \in 1 .. Cardinality(Decisions)
  PROVE  /\ Share(delta, n) \in Nat /\ Share(delta, n) >= 1
         /\ n * Share(delta, n) \in Nat /\ n * Share(delta, n) <= delta * Unit
<1> DEFINE a == delta * Unit
           s == a \div n
<1>1. n \in Nat \ {0} /\ Unit \in Nat \ {0} /\ Unit % n = 0
  BY FS_CardinalityType
<1>2. Unit >= n
  <2>1. Unit < n => Unit % n = Unit
    BY <1>1
  <2> QED BY <1>1, <2>1
<1>3. a \in Nat /\ a >= Unit
  <2>1. (delta - 1) * Unit \in Nat /\ delta * Unit = (delta - 1) * Unit + Unit
    BY <1>1
  <2> DEFINE b == (delta - 1) * Unit
  <2>2. b \in Nat /\ a = b + Unit
    BY <2>1
  <2> HIDE DEF a, b
  <2> QED BY <1>1, <2>2
<1>4. s \in Nat /\ s >= 1 /\ n * s \in Nat /\ n * s <= a
  <2> HIDE DEF a
  <2>1. s \in Nat /\ n * s <= a
    BY <1>1, <1>3
  <2>2. s >= 1
    BY <1>1, <1>2, <1>3
  <2>3. n * s \in Nat
    BY <1>1, <2>1
  <2> QED BY <2>1, <2>2, <2>3
<1>5. Share(delta, n) = s
  BY DEF Share
<1> QED BY <1>4, <1>5

(* TotalCredit's function, of any list of entries. *)
Sums(ds) ==
  CHOOSE f : f = [i \in 0 .. Len(ds) |-> IF i = 0 THEN 0 ELSE f[i - 1] + ds[i].credit]

(* It satisfies its own equation. *)
LEMMA SumsDef ==
  ASSUME NEW ds \in Seq(Entries)
  PROVE  /\ Sums(ds) \in [0 .. Len(ds) -> Nat]
         /\ Sums(ds)[0] = 0
         /\ \A i \in 1 .. Len(ds) : Sums(ds)[i] = Sums(ds)[i - 1] + ds[i].credit
<1> DEFINE n == Len(ds)
           step == [i \in 1 .. n |-> [x \in Nat |-> x + ds[i].credit]]
           body(g) == [i \in 0 .. n |-> IF i = 0 THEN 0 ELSE g[i - 1] + ds[i].credit]
<1>1. n \in Nat /\ 0 \in Nat /\ \A i \in 1 .. n : ds[i].credit \in Nat
  <2>1. \A i \in 1 .. n : ds[i] \in Entries
    OBVIOUS
  <2> QED BY <2>1 DEF Entries
<1>2. step \in [1 .. n -> [Nat -> Nat]]
  <2> HIDE DEF n
  <2> QED BY <1>1
<1>3. PICK f : f \in Runs(Nat, 0, step, n)
  <2> HIDE DEF step, n
  <2>1. Runs(Nat, 0, step, n) # {}
    BY <1>1, <1>2, Scans
  <2> QED BY <2>1
<1>4. /\ f \in [0 .. n -> Nat] /\ f[0] = 0
      /\ \A i \in 1 .. n : f[i] = step[i][f[i - 1]]
  BY <1>3 DEF Runs
<1>5. ASSUME NEW i \in 1 .. n PROVE f[i] = f[i - 1] + ds[i].credit
  <2> HIDE DEF n
  <2>1. i - 1 \in 0 .. n
    BY <1>1
  <2>2. f[i - 1] \in Nat
    BY <1>4, <2>1
  <2> QED BY <1>4, <2>2
<1>6. f = body(f)
  <2> HIDE DEF n
  <2> QED BY <1>1, <1>4, <1>5
<1>7. Sums(ds) = body(Sums(ds))
  BY <1>6 DEF Sums
<1> DEFINE S == {m \in 0 .. n : Sums(ds)[m] \in Nat}
<1> HIDE DEF n
<1>8. 0 \in S
  BY <1>1, <1>7
<1>9. ASSUME NEW m \in 1 .. n, m - 1 \in S PROVE m \in S
  <2>1. m \in 0 .. n /\ m # 0
    BY <1>1
  <2>2. Sums(ds)[m] = Sums(ds)[m - 1] + ds[m].credit
    BY <1>7, <2>1
  <2> QED BY <1>1, <1>9, <2>1, <2>2
<1>10. \A m \in 0 .. n : m \in S
  <2> HIDE DEF S
  <2> QED BY <1>1, <1>8, <1>9, UpTo
<1>11. Sums(ds) \in [0 .. n -> Nat]
  BY <1>7, <1>10
<1>12. \A i \in 1 .. n : Sums(ds)[i] = Sums(ds)[i - 1] + ds[i].credit
  BY <1>1, <1>7
<1>13. Sums(ds)[0] = 0
  BY <1>1, <1>7
<1> QED BY <1>11, <1>12, <1>13 DEF n

(* TotalCredit is the last of the sums. *)
LEMMA TotalIsLast ==
  /\ TotalCredit = Sums(decisions)[Len(decisions)]
  /\ TotalCredit' = Sums(decisions')[Len(decisions')]
BY DEF TotalCredit, Sums

(* When every member of S earns s more, the sum grows by s for each of them. *)
LEMMA SumsDiffer ==
  ASSUME NEW ds \in Seq(Entries), NEW es \in Seq(Entries), Len(ds) <= Len(es),
         NEW S \in SUBSET (1 .. Len(ds)), NEW s \in Nat,
         \A i \in 1 .. Len(ds) :
           es[i].credit = IF i \in S THEN ds[i].credit + s ELSE ds[i].credit
  PROVE  /\ IsFiniteSet(S)
         /\ Sums(es)[Len(ds)] = Sums(ds)[Len(ds)] + Cardinality(S) * s
<1> DEFINE n == Len(ds)
           Part(m) == S \cap (1 .. m)
           Same == {m \in 0 .. n : Sums(es)[m] = Sums(ds)[m] + Cardinality(Part(m)) * s}
<1>1. n \in Nat /\ Len(es) \in Nat /\ n <= Len(es)
  OBVIOUS
<1>2. ASSUME NEW m \in 0 .. n
      PROVE  IsFiniteSet(Part(m)) /\ Cardinality(Part(m)) \in Nat
  <2>1. IsFiniteSet(1 .. m)
    BY <1>1, FS_Interval
  <2>2. IsFiniteSet(Part(m))
    BY <2>1, FS_Intersection
  <2> QED BY <2>2, FS_CardinalityType
<1>3. 0 \in Same
  <2>1. Part(0) = {}
    OBVIOUS
  <2>2. Cardinality(Part(0)) = 0
    BY <2>1, FS_EmptySet
  <2>3. Sums(es)[0] = 0 /\ Sums(ds)[0] = 0
    BY SumsDef
  <2> HIDE DEF Part, n
  <2>4. 0 = 0 + 0 * s
    OBVIOUS
  <2> QED BY <1>1, <2>2, <2>3, <2>4
<1>4. ASSUME NEW m \in 1 .. n, m - 1 \in Same PROVE m \in Same
  <2> DEFINE c == Cardinality(Part(m - 1))
             x == Sums(ds)[m - 1]
  <2>1. m - 1 \in 0 .. n /\ m \in 0 .. n /\ m \in 1 .. Len(es)
    BY <1>1
  <2>2. c \in Nat
    BY <1>2, <2>1
  <2>3. x \in Nat /\ ds[m].credit \in Nat
    <3>1. ds[m] \in Entries
      OBVIOUS
    <3>2. ds[m].credit \in Nat
      BY <3>1 DEF Entries
    <3> HIDE DEF n
    <3> QED BY <2>1, <3>2, SumsDef DEF n
  <2>4. Sums(es)[m] = Sums(es)[m - 1] + es[m].credit
    BY <2>1, SumsDef
  <2>5. Sums(ds)[m] = x + ds[m].credit
    BY <2>1, SumsDef
  <2>6. Sums(es)[m - 1] = x + c * s
    BY <1>4
  <2>7. c * s \in Nat /\ (c + 1) * s = c * s + s
    BY <2>2
  <2>8. CASE m \in S
    <3>1. Part(m) = Part(m - 1) \cup {m} /\ m \notin Part(m - 1)
      BY <2>8
    <3>2. Cardinality(Part(m)) = c + 1
      <4>1. IsFiniteSet(Part(m - 1))
        BY <1>2, <2>1
      <4> HIDE DEF Part
      <4> QED BY <3>1, <4>1, FS_AddElement
    <3>3. es[m].credit = ds[m].credit + s
      BY <2>8
    <3> DEFINE p == c * s
    <3>4. Sums(es)[m] = Sums(ds)[m] + (p + s)
      <4>1. p \in Nat /\ Sums(es)[m - 1] = x + p
        BY <2>6, <2>7
      <4> HIDE DEF p, x
      <4> QED BY <2>3, <2>4, <2>5, <3>3, <4>1
    <3> HIDE DEF Part, n
    <3> QED BY <2>1, <2>7, <3>2, <3>4
  <2>9. CASE m \notin S
    <3>1. Part(m) = Part(m - 1)
      BY <2>9
    <3>2. es[m].credit = ds[m].credit
      BY <2>9
    <3> DEFINE p == c * s
    <3>3. Sums(es)[m] = Sums(ds)[m] + p
      <4>1. p \in Nat /\ Sums(es)[m - 1] = x + p
        BY <2>6, <2>7
      <4> HIDE DEF p, x
      <4> QED BY <2>3, <2>4, <2>5, <3>2, <4>1
    <3> HIDE DEF Part, n
    <3> QED BY <2>1, <3>1, <3>3
  <2> QED BY <2>8, <2>9
<1>5. \A m \in 0 .. n : m \in Same
  <2> HIDE DEF Same, n
  <2> QED BY <1>1, <1>3, <1>4, UpTo
<1>6. Part(n) = S /\ n \in 0 .. n
  <2>1. n \in 0 .. n
    <3> HIDE DEF n
    <3> QED BY <1>1
  <2> QED BY <2>1
<1>7. IsFiniteSet(S)
  BY <1>2, <1>6
<1>8. n \in Same
  BY <1>5, <1>6
<1> QED BY <1>6, <1>7, <1>8

(* What each entry of a list is made of. *)
LEMMA EntryTypes ==
  ASSUME NEW ds \in Seq(Entries), NEW i \in 1 .. Len(ds)
  PROVE  /\ ds[i] \in Entries /\ ds[i].id \in Decisions /\ ds[i].ts \in Nat
         /\ ds[i].credit \in Nat /\ ds[i].applied \in Nat
<1>1. ds[i] \in Entries
  OBVIOUS
<1> QED BY <1>1 DEF Entries

(* A decision that is recorded once counts once. *)
LEMMA KnownCount ==
  ASSUME Types, Recorded
  PROVE  /\ Cardinality(Known) = Len(decisions)
         /\ Len(decisions) <= Cardinality(Decisions)
<1> DEFINE n == Len(decisions)
           f == [i \in 1 .. n |-> decisions[i].id]
<1>1. decisions \in Seq(Entries) /\ n \in Nat /\ DOMAIN decisions = 1 .. n
  BY DEF Types
<1>2. f \in [1 .. n -> Known] /\ \A k \in Known : \E i \in 1 .. n : f[i] = k
  BY <1>1 DEF Known
<1>3. \A i, j \in 1 .. n : f[i] = f[j] => i = j
  BY <1>1 DEF Recorded
<1>4. f \in Surjection(1 .. n, Known) /\ f \in Injection(1 .. n, Known)
  <2> HIDE DEF f
  <2> QED BY <1>2, <1>3, Fun_IsInj, Fun_IsSurj
<1>5. IsFiniteSet(1 .. n) /\ Cardinality(1 .. n) = n
  BY <1>1, FS_Interval
<1>6. Cardinality(Known) = n
  BY <1>4, <1>5, FS_Surjection
<1>7. Known \subseteq Decisions
  BY <1>1, EntryTypes DEF Known
<1>8. Cardinality(Known) <= Cardinality(Decisions)
  BY <1>7, FS_Subset
<1> QED BY <1>6, <1>8

(* What a sample with growth does: every eligible decision earns something,  *)
(* all of them together no more than the growth is worth.                    *)
LEMMA Growth ==
  ASSUME Types, Recorded, Observe(file.edges, file.ts),
         haveBaseline, file.edges > lastEdges
  PROVE  /\ decisions' \in Seq(Entries) /\ Len(decisions') = Len(decisions)
         /\ \A i \in 1 .. Len(decisions) :
              /\ decisions'[i].id = decisions[i].id
              /\ decisions'[i].ts = decisions[i].ts
              /\ IF i \in Eligible(file.ts)
                   THEN /\ decisions'[i].credit > decisions[i].credit
                        /\ decisions'[i].applied = decisions[i].applied + 1
                   ELSE decisions'[i] = decisions[i]
         /\ TotalCredit \in Nat /\ TotalCredit' \in Nat
         /\ TotalCredit' <= TotalCredit + (file.edges - lastEdges) * Unit
<1> DEFINE n == Len(decisions)
           delta == file.edges - lastEdges
           sharers == Eligible(file.ts)
           share == Share(delta, Cardinality(sharers))
           paidEntry(i) == [decisions[i] EXCEPT !.credit = @ + share, !.applied = @ + 1]
<1>1. decisions \in Seq(Entries) /\ n \in Nat /\ DOMAIN decisions = 1 .. n
  BY DEF Types
<1>2. delta \in Nat \ {0} /\ delta * Unit \in Nat
  <2>1. delta \in Nat \ {0}
    BY DEF Types
  <2> HIDE DEF delta
  <2> QED BY <2>1
<1>3. sharers \in SUBSET (1 .. n)
  BY <1>1 DEF Eligible
<1>4. decisions' = [i \in 1 .. n |-> IF i \in sharers THEN paidEntry(i) ELSE decisions[i]]
  BY <1>1 DEF Observe
<1> HIDE DEF sharers
<1>5. TotalCredit \in Nat
  BY <1>1, SumsDef, TotalIsLast
<1>6. CASE sharers = {}
  <2>1. decisions' = [i \in 1 .. n |-> decisions[i]]
    BY <1>4, <1>6
  <2>2. decisions' = decisions
    BY <1>1, <2>1
  <2>3. TotalCredit' = TotalCredit
    BY <2>2, TotalIsLast
  <2>4. TotalCredit' <= TotalCredit + delta * Unit
    <3> DEFINE d == delta * Unit
    <3> HIDE DEF d
    <3>1. d \in Nat
      BY <1>2 DEF d
    <3>2. TotalCredit <= TotalCredit + d
      BY <1>5, <3>1
    <3> QED BY <2>3, <3>2 DEF d
  <2> QED BY <1>1, <1>5, <1>6, <2>2, <2>3, <2>4 DEF sharers
<1>7. CASE sharers # {}
  <2> DEFINE c == Cardinality(sharers)
  <2>1. c \in 1 .. Cardinality(Decisions)
    <3>1. IsFiniteSet(1 .. n) /\ Cardinality(1 .. n) = n
      BY <1>1, FS_Interval
    <3>2. IsFiniteSet(sharers) /\ c <= n
      BY <1>3, <3>1, FS_Subset
    <3>3. c \in Nat /\ c # 0
      BY <1>7, <3>2, FS_CardinalityType, FS_EmptySet
    <3>4. n <= Cardinality(Decisions) /\ Cardinality(Decisions) \in Nat
      BY KnownCount, FS_CardinalityType
    <3> HIDE DEF c, n
    <3> QED BY <1>1, <3>2, <3>3, <3>4
  <2>2. share \in Nat /\ share >= 1 /\ c * share \in Nat /\ c * share <= delta * Unit
    <3> HIDE DEF c, delta
    <3> QED BY <1>2, <2>1, ShareBounds DEF c
  <2> HIDE DEF share
  <2>3. ASSUME NEW i \in 1 .. n
        PROVE  /\ paidEntry(i) \in Entries
               /\ paidEntry(i).id = decisions[i].id /\ paidEntry(i).ts = decisions[i].ts
               /\ paidEntry(i).credit = decisions[i].credit + share
               /\ paidEntry(i).applied = decisions[i].applied + 1
               /\ paidEntry(i).credit > decisions[i].credit
    <3>1. decisions[i] \in Entries /\ decisions[i].credit \in Nat /\ decisions[i].applied \in Nat
      BY <1>1, EntryTypes
    <3>2. decisions[i].credit + share \in Nat /\ decisions[i].applied + 1 \in Nat
          /\ decisions[i].credit + share > decisions[i].credit
      BY <2>2, <3>1
    <3> QED BY <3>1, <3>2 DEF Entries
  <2> HIDE DEF paidEntry
  <2>4. decisions' \in [1 .. n -> Entries]
    <3>1. \A i \in 1 .. n : decisions[i] \in Entries
      BY <1>1, EntryTypes
    <3> HIDE DEF n
    <3> QED BY <1>4, <2>3, <3>1
  <2>5. decisions' \in Seq(Entries) /\ Len(decisions') = n
    <3>1. decisions' \in Seq(Entries)
      BY <1>1, <2>4, SeqDef
    <3> HIDE DEF n
    <3> QED BY <1>1, <2>4, <3>1, LenProperties
  <2>6. \A i \in 1 .. n :
          decisions'[i].credit = IF i \in sharers THEN decisions[i].credit + share
                                 ELSE decisions[i].credit
    <3> HIDE DEF n
    <3> QED BY <1>4, <2>3
  <2>7. Sums(decisions')[n] = Sums(decisions)[n] + Cardinality(sharers) * share
    <3>1. Len(decisions) <= Len(decisions')
      BY <1>1, <2>5
    <3> HIDE DEF c
    <3> QED BY <1>1, <1>3, <2>2, <2>5, <2>6, <3>1, SumsDiffer
  <2>8. TotalCredit' = TotalCredit + c * share
    BY <2>5, <2>7, TotalIsLast
  <2>9. TotalCredit' \in Nat /\ TotalCredit' <= TotalCredit + delta * Unit
    <3> DEFINE p == c * share
               d == delta * Unit
    <3>1. p \in Nat /\ d \in Nat /\ p <= d /\ TotalCredit' = TotalCredit + p
      BY <1>2, <2>2, <2>8
    <3> HIDE DEF p, d
    <3>2. TotalCredit' \in Nat /\ TotalCredit' <= TotalCredit + d
      BY <1>5, <3>1
    <3> QED BY <3>2 DEF d
  <2>10. \A i \in 1 .. n :
           /\ decisions'[i].id = decisions[i].id
           /\ decisions'[i].ts = decisions[i].ts
           /\ IF i \in sharers
                THEN /\ decisions'[i].credit > decisions[i].credit
                     /\ decisions'[i].applied = decisions[i].applied + 1
                ELSE decisions'[i] = decisions[i]
    <3> HIDE DEF n
    <3> QED BY <1>4, <2>3
  <2> QED BY <1>5, <2>5, <2>9, <2>10 DEF sharers
<1> QED BY <1>6, <1>7

-----------------------------------------------------------------------------
(* Every step preserves the invariant *)

(* Nothing is recorded at the start. *)
LEMMA InitTracker == Init => TrackerInv
<1> SUFFICES ASSUME Init PROVE TrackerInv
  OBVIOUS
<1> USE DEF Init
<1>1. Types
  <2>1. decisions \in Seq(Entries) /\ paid \subseteq [id : Decisions, at : Nat]
    OBVIOUS
  <2>2. file \in [edges : Nat, ts : Nat] /\ clock \in Nat /\ climbed \in Nat
    OBVIOUS
  <2>3. prompt \in [good : SUBSET Decisions, bad : SUBSET Decisions]
    OBVIOUS
  <2>4. haveBaseline \in BOOLEAN /\ lastEdges \in Nat
    OBVIOUS
  <2> HIDE DEF Init
  <2> QED BY <2>1, <2>2, <2>3, <2>4 DEF Types
<1>2. TotalCredit = 0
  BY <1>1, SumsDef, TotalIsLast DEF Types
<1>3. Recorded /\ PaidInWindow /\ PromptEarned
  BY DEF Recorded, PaidInWindow, PromptEarned
<1>4. Balanced
  <2>1. 0 * Unit = 0 /\ Unit * 0 = 0
    OBVIOUS
  <2>2. Pending = 0 /\ climbed = 0
    BY DEF Pending
  <2> QED BY <1>2, <2>1, <2>2 DEF Balanced
<1> QED BY <1>1, <1>3, <1>4 DEF TrackerInv

(* A new decision begins without credit and is the newest. *)
LEMMA DeployStep ==
  ASSUME TrackerInv, NEW d \in Decisions, RecordDeploy(d)
  PROVE  TrackerInv'
<1> DEFINE e == [id |-> d, ts |-> clock, credit |-> 0, applied |-> 0]
           n == Len(decisions)
<1> USE DEF aflVars
<1>1. Types /\ decisions \in Seq(Entries) /\ n \in Nat /\ DOMAIN decisions = 1 .. n
  BY DEF TrackerInv, Types
<1>2. UNCHANGED <<haveBaseline, lastEdges, paid, prompt, clock, file, climbed>>
  BY DEF RecordDeploy
<1>3. CASE ~ IsNew(d)
  <2>1. decisions' = decisions
    BY <1>3 DEF RecordDeploy
  <2>2. Types' /\ Recorded' /\ PaidInWindow' /\ PromptEarned'
    BY <1>2, <2>1 DEF TrackerInv, Types, Recorded, PaidInWindow, PromptEarned, Applied
  <2>3. TotalCredit' = TotalCredit /\ Pending' = Pending
    BY <1>2, <2>1, TotalIsLast DEF Pending
  <2>4. Balanced'
    BY <1>2, <2>1, <2>3 DEF TrackerInv, Balanced
  <2> QED BY <2>2, <2>4 DEF TrackerInv
<1>4. CASE IsNew(d)
  <2>1. decisions' = Append(decisions, e)
    BY <1>4 DEF RecordDeploy
  <2>2. e \in Entries
    BY <1>1 DEF Entries, Types
  <2>3. /\ decisions' \in Seq(Entries) /\ Len(decisions') = n + 1
        /\ \A i \in 1 .. n : decisions'[i] = decisions[i]
        /\ decisions'[n + 1] = e
    BY <1>1, <2>1, <2>2, AppendProperties
  <2>4. DOMAIN decisions' = 1 .. n + 1
    BY <2>3
  <2>5. \A i \in 1 .. n : decisions[i].id # d /\ decisions[i].ts <= clock /\ decisions[i].ts \in Nat
    BY <1>1, <1>4, EntryTypes DEF IsNew, Known, TrackerInv, Recorded
  <2> HIDE DEF n, e
  <2>6. e.id = d /\ e.ts = clock /\ e.credit = 0 /\ e.applied = 0 /\ clock \in Nat
    BY <1>1 DEF e, Types
  <2>7. Types'
    BY <1>1, <1>2, <2>3 DEF Types
  <2>8. Recorded'
    <3>1. ASSUME NEW i \in 1 .. n + 1 PROVE i \in 1 .. n \/ i = n + 1
      BY <1>1
    <3>2. ASSUME NEW i \in 1 .. n + 1, NEW j \in 1 .. n + 1, decisions'[i].id = decisions'[j].id
          PROVE  i = j
      BY <1>1, <2>3, <2>5, <2>6, <3>1, <3>2 DEF TrackerInv, Recorded
    <3>3. ASSUME NEW i \in 1 .. n + 1, NEW j \in 1 .. n + 1, i <= j
          PROVE  decisions'[i].ts <= decisions'[j].ts
      <4>1. CASE j \in 1 .. n
        <5>1. i \in 1 .. n
          BY <1>1, <3>3, <4>1
        <5> QED BY <1>1, <2>3, <3>3, <4>1, <5>1 DEF TrackerInv, Recorded
      <4>2. CASE j = n + 1
        BY <2>3, <2>5, <2>6, <3>1, <4>2
      <4> QED BY <3>1, <4>1, <4>2
    <3>4. ASSUME NEW i \in 1 .. n + 1 PROVE decisions'[i].ts <= clock'
      BY <1>2, <2>3, <2>5, <2>6, <3>1
    <3> QED BY <2>4, <3>2, <3>3, <3>4 DEF Recorded
  <2>9. Balanced'
    <3>1. TotalCredit' = TotalCredit
      <4>1. Sums(decisions')[n] = Sums(decisions)[n] + Cardinality({}) * 0
        <5> DEFINE S == {}
        <5>1. \A i \in 1 .. n : decisions'[i].credit = IF i \in S THEN decisions[i].credit + 0
                                                      ELSE decisions[i].credit
          BY <2>3
        <5>2. S \in SUBSET (1 .. n) /\ 0 \in Nat /\ n <= Len(decisions')
          BY <1>1, <2>3
        <5> HIDE DEF S
        <5>3. Sums(decisions')[n] = Sums(decisions)[n] + Cardinality(S) * 0
          BY <1>1, <2>3, <5>1, <5>2, SumsDiffer DEF n
        <5> QED BY <5>3 DEF S
      <4>2. Cardinality({}) = 0 /\ 0 * 0 = 0
        BY FS_EmptySet
      <4>3. Sums(decisions)[n] \in Nat
        BY <1>1, SumsDef DEF n
      <4>4. n + 1 \in 1 .. Len(decisions') /\ (n + 1) - 1 = n
        BY <1>1, <2>3
      <4>5. Sums(decisions')[n + 1] = Sums(decisions')[n] + 0
        BY <2>3, <2>6, <4>4, SumsDef
      <4> QED BY <2>3, <4>1, <4>2, <4>3, <4>5, TotalIsLast DEF n
    <3>2. Pending' = Pending
      BY <1>2 DEF Pending
    <3>3. \A i \in 1 .. n + 1 : decisions'[i].credit > 0 <=> decisions'[i].applied > 0
      <4>1. \A i \in 1 .. n + 1 : i \in 1 .. n \/ i = n + 1
        BY <1>1
      <4> QED BY <1>1, <2>3, <2>6, <4>1 DEF TrackerInv, Balanced
    <3> QED BY <1>2, <2>4, <3>1, <3>2, <3>3 DEF TrackerInv, Balanced
  <2>10. PaidInWindow'
    <3>1. \A i \in 1 .. n : i \in 1 .. n + 1
      BY <1>1
    <3> QED BY <1>1, <1>2, <2>3, <2>4, <3>1 DEF TrackerInv, PaidInWindow
  <2>11. PromptEarned'
    <3>1. \A i \in 1 .. n : i \in 1 .. n + 1
      BY <1>1
    <3> QED BY <1>1, <1>2, <2>3, <2>4, <3>1 DEF TrackerInv, PromptEarned, Applied
  <2> QED BY <2>7, <2>8, <2>9, <2>10, <2>11 DEF TrackerInv
<1> QED BY <1>3, <1>4

(* A sample pays for what AFL++ found since the one before it. *)
LEMMA SampleStep == ASSUME TrackerInv, Sample PROVE TrackerInv'
<1> DEFINE n == Len(decisions)
           delta == file.edges - lastEdges
<1>1. Types /\ Recorded /\ decisions \in Seq(Entries) /\ n \in Nat /\ DOMAIN decisions = 1 .. n
  BY DEF TrackerInv, Types
<1>2. /\ Observe(file.edges, file.ts)
      /\ UNCHANGED <<prompt, clock, file, climbed>>
  BY DEF Sample, aflVars
<1>3. haveBaseline' = TRUE /\ lastEdges' = file.edges
  BY <1>2 DEF Observe
<1>4. Pending' = 0
  BY <1>1, <1>2, <1>3 DEF Pending, Types
<1>5. CASE haveBaseline /\ file.edges > lastEdges
  <2>1. /\ decisions' \in Seq(Entries) /\ Len(decisions') = n
        /\ \A i \in 1 .. n :
             /\ decisions'[i].id = decisions[i].id
             /\ decisions'[i].ts = decisions[i].ts
             /\ IF i \in Eligible(file.ts)
                  THEN /\ decisions'[i].credit > decisions[i].credit
                       /\ decisions'[i].applied = decisions[i].applied + 1
                  ELSE decisions'[i] = decisions[i]
        /\ TotalCredit \in Nat /\ TotalCredit' \in Nat
        /\ TotalCredit' <= TotalCredit + delta * Unit
    BY <1>1, <1>2, <1>5, Growth
  <2>2. DOMAIN decisions' = 1 .. n
    BY <2>1
  <2>3. paid' = paid \cup {[id |-> decisions[i].id, at |-> file.ts] : i \in Eligible(file.ts)}
    BY <1>2, <1>5 DEF Observe
  <2>4. Eligible(file.ts) \subseteq 1 .. n
    BY <1>1 DEF Eligible
  <2>5. file \in [edges : Nat, ts : Nat]
    BY <1>1 DEF Types
  <2> HIDE DEF n
  <2>6. Types'
    <3>1. paid' \subseteq [id : Decisions, at : Nat]
      BY <1>1, <2>3, <2>4, <2>5, EntryTypes DEF Types, n
    <3> QED BY <1>1, <1>2, <1>3, <2>1, <2>5, <3>1 DEF Types
  <2>7. Recorded'
    BY <1>1, <1>2, <2>1, <2>2 DEF Recorded
  <2>8. Balanced'
    <3>1. Pending = delta
      BY <1>5 DEF Pending
    <3>2. \A i \in 1 .. n : decisions'[i].credit > 0 <=> decisions'[i].applied > 0
      <4> SUFFICES ASSUME NEW i \in 1 .. n
                   PROVE  decisions'[i].credit > 0 <=> decisions'[i].applied > 0
        OBVIOUS
      <4>1. decisions[i].credit \in Nat /\ decisions[i].applied \in Nat /\ decisions'[i].credit \in Nat
        BY <1>1, <2>1, EntryTypes DEF n
      <4>2. CASE i \in Eligible(file.ts)
        BY <2>1, <4>1, <4>2
      <4>3. CASE i \notin Eligible(file.ts)
        BY <1>1, <2>1, <4>3 DEF TrackerInv, Balanced
      <4> QED BY <4>2, <4>3
    <3>3. TotalCredit' + Pending' * Unit <= Unit * climbed'
      <4> DEFINE d == delta * Unit
                 w == Unit * climbed
      <4>1. TotalCredit + d <= w /\ 0 * Unit = 0
        BY <3>1 DEF TrackerInv, Balanced
      <4>2. d \in Nat /\ w \in Nat
        <5>1. delta \in Nat /\ climbed \in Nat
          BY <1>1, <1>5 DEF Types
        <5> HIDE DEF delta
        <5> QED BY <5>1
      <4>3. TotalCredit' <= TotalCredit + d
        BY <2>1
      <4>4. Unit * climbed' = w
        BY <1>2
      <4> HIDE DEF d, w
      <4> QED BY <1>4, <2>1, <4>1, <4>2, <4>3, <4>4
    <3> QED BY <1>3, <2>2, <3>2, <3>3 DEF Balanced
  <2>9. PaidInWindow'
    <3> SUFFICES ASSUME NEW p \in paid'
                 PROVE  \E i \in 1 .. n : decisions'[i].id = p.id /\ p.at <= decisions'[i].ts + Window
      BY <2>2 DEF PaidInWindow
    <3>1. CASE p \in paid
      BY <1>1, <2>1, <3>1 DEF TrackerInv, PaidInWindow
    <3>2. CASE p \notin paid
      <4>1. PICK i \in Eligible(file.ts) : p = [id |-> decisions[i].id, at |-> file.ts]
        BY <2>3, <3>2
      <4>2. i \in 1 .. n /\ decisions[i].ts >= Lower(file.ts) /\ decisions[i].ts \in Nat
        <5>1. i \in 1 .. n /\ i \in i .. n
          BY <1>1, <2>4
        <5> QED BY <1>1, <5>1, EntryTypes DEF Eligible, n
      <4>3. file.ts <= decisions[i].ts + Window
        BY <2>5, <4>2 DEF Lower
      <4> QED BY <2>1, <4>1, <4>2, <4>3
    <3> QED BY <3>1, <3>2
  <2>10. PromptEarned'
    <3>1. ASSUME NEW i \in 1 .. n, decisions[i].applied > 0 PROVE decisions'[i].applied > 0
      <4>1. decisions[i].applied \in Nat
        BY <1>1, EntryTypes DEF n
      <4> QED BY <2>1, <3>1, <4>1
    <3> QED BY <1>1, <1>2, <2>2, <3>1 DEF TrackerInv, PromptEarned, Applied
  <2> QED BY <2>6, <2>7, <2>8, <2>9, <2>10 DEF TrackerInv
<1>6. CASE ~ (haveBaseline /\ file.edges > lastEdges)
  <2>1. UNCHANGED <<decisions, paid>>
    BY <1>2, <1>6 DEF Observe
  <2>2. TotalCredit' = TotalCredit
    BY <2>1, TotalIsLast
  <2>3. Types' /\ Recorded' /\ PaidInWindow' /\ PromptEarned'
    BY <1>2, <1>3, <2>1 DEF TrackerInv, Types, Recorded, PaidInWindow, PromptEarned, Applied
  <2>4. Balanced'
    <3>1. climbed' = climbed /\ climbed \in Nat /\ TotalCredit \in Nat
      BY <1>1, <1>2, SumsDef, TotalIsLast DEF Types
    <3>2. TotalCredit <= Unit * climbed
      <4> DEFINE w == Unit * climbed
                 q == Pending * Unit
      <4>1. w \in Nat /\ q \in Nat
        <5>1. Pending \in Nat
          BY <1>1 DEF Pending, Types
        <5> QED BY <3>1, <5>1
      <4>2. TotalCredit + q <= w
        BY DEF TrackerInv, Balanced
      <4> HIDE DEF w, q
      <4>3. TotalCredit <= w
        BY <3>1, <4>1, <4>2
      <4> QED BY <4>3 DEF w
    <3>3. 0 * Unit = 0
      OBVIOUS
    <3> DEFINE w == Unit * climbed
    <3>4. TotalCredit' + Pending' * Unit <= Unit * climbed'
      <4>1. TotalCredit <= w /\ Unit * climbed' = w
        BY <3>1, <3>2
      <4> HIDE DEF w
      <4> QED BY <1>4, <2>2, <3>1, <3>3, <4>1
    <3> QED BY <1>3, <2>1, <3>4 DEF TrackerInv, Balanced
  <2> QED BY <2>3, <2>4 DEF TrackerInv
<1> QED BY <1>5, <1>6

(* The ids of decisions are known ids. *)
LEMMA IdsTyped == ASSUME Types, NEW I \in SUBSET DOMAIN decisions PROVE Ids(I) \in SUBSET Decisions
<1>1. decisions \in Seq(Entries) /\ DOMAIN decisions = 1 .. Len(decisions)
  BY DEF Types
<1> QED BY <1>1, EntryTypes DEF Ids

(* The best decisions include one that was credited, if there is one. *)
LEMMA TopEarned ==
  ASSUME TrackerInv, K > 0, Applied # {}, NEW top \in TopK(K)
  PROVE  top \cap Applied # {}
<1> DEFINE n == Len(decisions)
<1>1. decisions \in Seq(Entries) /\ DOMAIN decisions = 1 .. n /\ n \in Nat
  BY DEF TrackerInv, Types
<1>2. /\ top \subseteq 1 .. n
      /\ Cardinality(top) = (IF Cardinality(1 .. n) < K THEN Cardinality(1 .. n) ELSE K)
      /\ \A i \in top, j \in (1 .. n) \ top : ~ MoreCredit(j, i)
  BY <1>1 DEF TopK, FirstOf
<1>3. PICK j \in 1 .. n : decisions[j].applied > 0
  BY <1>1 DEF Applied
<1>4. top # {}
  <2>1. Cardinality(1 .. n) = n /\ n > 0
    <3> HIDE DEF n
    <3> QED BY <1>1, <1>3, FS_Interval
  <2>2. Cardinality(top) # 0
    BY <1>1, <1>2, <2>1
  <2> QED BY <2>2, FS_EmptySet
<1>5. PICK i \in top : TRUE
  BY <1>4
<1>6. CASE i \in Applied
  BY <1>6
<1>7. CASE j \in top
  BY <1>1, <1>3, <1>7 DEF Applied
<1>8. CASE i \notin Applied /\ j \notin top
  <2>1. i \in 1 .. n
    BY <1>2
  <2>2. decisions[i].credit \in Nat /\ decisions[j].credit \in Nat /\ ~ (decisions[i].applied > 0)
    BY <1>1, <1>8, <2>1, EntryTypes DEF Applied
  <2>3. decisions[j].credit > 0 /\ ~ (decisions[i].credit > 0)
    BY <1>1, <1>3, <2>1, <2>2 DEF TrackerInv, Balanced
  <2>4. MoreCredit(j, i)
    BY <2>2, <2>3 DEF MoreCredit
  <2> QED BY <1>2, <1>8, <2>4
<1> QED BY <1>6, <1>7, <1>8

(* A prompt is built from what is recorded. *)
LEMMA PromptStep ==
  ASSUME TrackerInv, BuildPrompt
  PROVE  TrackerInv' /\ (prompt.good # {} => prompt'.good # {})
<1>1. UNCHANGED <<decisions, haveBaseline, lastEdges, paid, clock, file, climbed>>
  BY DEF BuildPrompt, trackerVars, aflVars
<1>2. PICK top \in TopK(K), bottom \in BottomK(K) :
        prompt' = IF top \cap Applied = {}
                   THEN [good |-> {}, bad |-> {}]
                   ELSE [good |-> Ids(top \cap Applied), bad |-> Ids(bottom)]
  BY DEF BuildPrompt
<1>3. Types /\ DOMAIN decisions = 1 .. Len(decisions) /\ Len(decisions) \in Nat
  BY DEF TrackerInv, Types
<1>4. top \subseteq DOMAIN decisions /\ bottom \subseteq Applied /\ Applied \subseteq DOMAIN decisions
  BY DEF TopK, BottomK, FirstOf, Applied
<1>5. prompt' \in [good : SUBSET Decisions, bad : SUBSET Decisions]
  BY <1>2, <1>3, <1>4, IdsTyped
<1>6. prompt'.good # {} => top \cap Applied # {}
  BY <1>2
<1>7. top \cap Applied # {} => prompt'.good # {}
  BY <1>2 DEF Ids
<1>8. top # {} => K > 0
  <2>1. IsFiniteSet(DOMAIN decisions)
    BY <1>3, FS_Interval
  <2>2. IsFiniteSet(top)
    BY <1>4, <2>1, FS_Subset
  <2>3. Cardinality(top) <= K
    <3>1. Cardinality(top) = (IF Cardinality(DOMAIN decisions) < K
                               THEN Cardinality(DOMAIN decisions) ELSE K)
      BY DEF TopK, FirstOf
    <3>2. Cardinality(DOMAIN decisions) \in Nat
      BY <2>1, FS_CardinalityType
    <3> QED BY <3>1, <3>2
  <2> QED BY <2>2, <2>3, FS_EmptySet, FS_CardinalityType
<1>9. PromptEarned'
  BY <1>1, <1>6, <1>8 DEF PromptEarned, Applied
<1>10. Types' /\ Recorded' /\ PaidInWindow'
  BY <1>1, <1>3, <1>5 DEF TrackerInv, Types, Recorded, PaidInWindow
<1>11. Balanced'
  <2>1. TotalCredit' = TotalCredit /\ Pending' = Pending
    BY <1>1, TotalIsLast DEF Pending
  <2> QED BY <1>1, <2>1 DEF TrackerInv, Balanced
<1>12. prompt.good # {} => prompt'.good # {}
  BY <1>7, TopEarned DEF TrackerInv, PromptEarned
<1> QED BY <1>9, <1>10, <1>11, <1>12 DEF TrackerInv

(* AFL++ and the clock go on: edges found are pending before they are paid. *)
LEMMA WorldStep ==
  ASSUME TrackerInv, Tick \/ AflWrites \/ AflRestarts
  PROVE  TrackerInv'
<1>1. UNCHANGED <<decisions, haveBaseline, lastEdges, paid, prompt>>
  BY DEF Tick, AflWrites, AflRestarts, trackerVars
<1>2. Types /\ file.edges \in Nat /\ file.ts \in Nat /\ clock \in Nat
      /\ climbed \in Nat /\ lastEdges \in Nat
  BY DEF TrackerInv, Types
<1>3. clock' \in Nat /\ clock <= clock'
  BY <1>2 DEF Tick, AflWrites, AflRestarts
<1>4. PaidInWindow' /\ PromptEarned'
  BY <1>1 DEF TrackerInv, PaidInWindow, PromptEarned, Applied
<1>5. Recorded'
  <2>1. decisions \in Seq(Entries) /\ DOMAIN decisions = 1 .. Len(decisions)
    BY <1>2 DEF Types
  <2>2. \A i \in DOMAIN decisions : decisions[i].ts \in Nat /\ decisions[i].ts <= clock
    BY <2>1, EntryTypes DEF TrackerInv, Recorded
  <2>3. \A i \in DOMAIN decisions : decisions[i].ts <= clock'
    BY <1>2, <1>3, <2>2
  <2> QED BY <1>1, <2>3 DEF TrackerInv, Recorded
<1>6. TotalCredit' = TotalCredit /\ TotalCredit \in Nat
  BY <1>1, <1>2, SumsDef, TotalIsLast DEF Types
<1>7. file' \in [edges : Nat, ts : Nat] /\ climbed' \in Nat /\ Pending \in Nat
      /\ \E d \in Nat : climbed' = climbed + d /\ Pending' \in 0 .. Pending + d
  <2>0. Pending \in Nat
    BY <1>2 DEF Pending
  <2>1. CASE Tick
    <3>1. file' = file /\ climbed' = climbed /\ Pending' = Pending
      BY <1>1, <2>1 DEF Tick, aflVars, Pending
    <3> QED BY <1>2, <2>0, <3>1 DEF Types
  <2>2. CASE AflRestarts
    <3>1. file' = [edges |-> 0, ts |-> clock] /\ climbed' = climbed
      BY <2>2 DEF AflRestarts
    <3>2. Pending' = 0
      BY <1>1, <1>2, <3>1 DEF Pending
    <3> QED BY <1>2, <2>0, <3>1, <3>2
  <2>3. CASE AflWrites
    <3>1. PICK e \in file.edges .. MaxEdges :
            file' = [edges |-> e, ts |-> clock] /\ climbed' = climbed + (e - file.edges)
      BY <2>3 DEF AflWrites
    <3> DEFINE d == e - file.edges
    <3>2. d \in Nat /\ e \in Nat /\ climbed' = climbed + d /\ file'.edges = e
      BY <1>2, <3>1
    <3>3. Pending' \in 0 .. Pending + d
      BY <1>1, <1>2, <3>2 DEF Pending
    <3> HIDE DEF d
    <3> QED BY <1>2, <2>0, <3>1, <3>2, <3>3
  <2> QED BY <2>1, <2>2, <2>3
<1>8. Types'
  BY <1>1, <1>2, <1>3, <1>7 DEF Types
<1>9. Balanced'
  <2>1. PICK d \in Nat : climbed' = climbed + d /\ Pending' \in 0 .. Pending + d
    BY <1>7
  <2> DEFINE p == Pending * Unit
             q == Pending' * Unit
             w == Unit * climbed
             v == Unit * climbed'
             x == d * Unit
  <2>2. p \in Nat /\ q \in Nat /\ w \in Nat /\ v \in Nat /\ x \in Nat
    <3>1. {Pending, Pending', climbed, climbed', d} \subseteq Nat
      BY <1>2, <1>7, <2>1
    <3>2. Unit \in Nat
      OBVIOUS
    <3> QED BY <3>1, <3>2, ProductGrows
  <2>3. v = w + x
    BY <1>2, <2>1
  <2>4. q <= p + x
    <3>1. (Pending + d) * Unit = p + x
      BY <1>7
    <3>2. Pending' \in Nat /\ Pending + d \in Nat /\ Pending' <= Pending + d
      BY <1>7, <2>1
    <3>3. q <= (Pending + d) * Unit
      <4> HIDE DEF p, x
      <4> QED BY <3>2, ProductGrows
    <3> QED BY <3>1, <3>3
  <2>5. TotalCredit + p <= w
    BY DEF TrackerInv, Balanced
  <2>6. TotalCredit + q <= v
    <3> HIDE DEF p, q, w, v, x
    <3> QED BY <1>6, <2>2, <2>3, <2>4, <2>5
  <2> QED BY <1>1, <1>6, <2>6 DEF TrackerInv, Balanced
<1> QED BY <1>4, <1>5, <1>8, <1>9 DEF TrackerInv

(* The invariant is inductive. *)
LEMMA TrackerStep == TrackerInv /\ [Next]_vars => TrackerInv'
<1> SUFFICES ASSUME TrackerInv, [Next]_vars PROVE TrackerInv'
  OBVIOUS
<1>1. CASE UNCHANGED vars
  <2> USE <1>1 DEF vars, trackerVars, aflVars
  <2>1. TotalCredit' = TotalCredit /\ Pending' = Pending
    BY TotalIsLast DEF Pending
  <2>2. Types' /\ Recorded' /\ PaidInWindow' /\ PromptEarned'
    BY DEF TrackerInv, Types, Recorded, PaidInWindow, PromptEarned, Applied
  <2>3. Balanced'
    BY <2>1 DEF TrackerInv, Balanced
  <2> QED BY <2>2, <2>3 DEF TrackerInv
<1>2. CASE Next
  BY <1>2, DeployStep, SampleStep, PromptStep, WorldStep DEF Next
<1> QED BY <1>1, <1>2

-----------------------------------------------------------------------------
(* Theorems *)

(* The books of the tracker balance in every reachable state. *)
THEOREM TrackerInvariant == Spec => []TrackerInv
<1> QED BY InitTracker, TrackerStep, PTL DEF Spec

(* The credit of all decisions together never exceeds the growth of           *)
(* edges_found over all AFL++ processes, each of which counts from the start,  *)
(* and nobody is paid for a sample after the window, for any number of         *)
(* decisions and of restarts.  (Within one AFL++ that is: no edge is paid      *)
(* twice; an edge found again after a restart is growth again.)                *)
THEOREM CreditsAreBounded == Spec => []CreditBounded
<1>1. ASSUME TrackerInv PROVE CreditBounded
  <2>1. Types /\ Recorded /\ decisions \in Seq(Entries) /\ DOMAIN decisions = 1 .. Len(decisions)
    BY <1>1 DEF TrackerInv, Types
  <2>2. TotalCredit <= Unit * climbed
    <3> DEFINE p == Pending * Unit
               w == Unit * climbed
    <3>1. p \in Nat /\ w \in Nat
      <4>1. Pending \in Nat /\ climbed \in Nat
        BY <2>1 DEF Pending, Types
      <4> QED BY <4>1
    <3>2. TotalCredit \in Nat
      BY <2>1, SumsDef, TotalIsLast
    <3>3. TotalCredit + p <= w
      BY <1>1 DEF TrackerInv, Balanced
    <3> HIDE DEF p, w
    <3>4. TotalCredit <= w
      BY <3>1, <3>2, <3>3
    <3> QED BY <3>4 DEF w
  <2>3. ASSUME NEW p \in paid PROVE p.at <= DeployTs(p.id) + Window
    <3>1. PICK i \in DOMAIN decisions : decisions[i].id = p.id /\ p.at <= decisions[i].ts + Window
      BY <1>1 DEF TrackerInv, PaidInWindow
    <3> DEFINE j == CHOOSE k \in DOMAIN decisions : decisions[k].id = p.id
    <3>2. j \in DOMAIN decisions /\ decisions[j].id = p.id
      BY <3>1
    <3> HIDE DEF j
    <3>3. j = i
      BY <2>1, <3>1, <3>2 DEF Recorded
    <3> QED BY <3>1, <3>3 DEF DeployTs, j
  <2>4. Cardinality(Known) = Len(decisions)
    BY <2>1, KnownCount
  <2> QED BY <2>2, <2>3, <2>4 DEF CreditBounded
<1> QED BY <1>1, TrackerInvariant, PTL

(* The walk from the back that stops at the first decision that is too old   *)
(* misses none that is not, because decisions are recorded in order.         *)
THEOREM NobodyIsSkipped == Spec => NoOneSkipped
<1>1. ASSUME TrackerInv, [Next]_vars, haveBaseline, lastEdges' > lastEdges,
             NEW i \in DOMAIN decisions, decisions[i].ts \in file.ts - Window .. file.ts
      PROVE  decisions'[i].credit > decisions[i].credit
  <2>1. Types /\ Recorded /\ decisions \in Seq(Entries) /\ DOMAIN decisions = 1 .. Len(decisions)
    BY <1>1 DEF TrackerInv, Types
  <2>2. Sample
    <3>1. lastEdges' # lastEdges
      BY <1>1, <2>1 DEF Types
    <3>2. ~ (BuildPrompt \/ Tick \/ AflWrites \/ AflRestarts \/ UNCHANGED vars)
      BY <3>1 DEF BuildPrompt, Tick, AflWrites, AflRestarts, trackerVars, vars
    <3>3. ~ (\E d \in Decisions : RecordDeploy(d))
      BY <3>1 DEF RecordDeploy
    <3> QED BY <1>1, <3>2, <3>3 DEF Next
  <2>3. Observe(file.edges, file.ts) /\ lastEdges' = file.edges
    BY <2>2 DEF Sample, Observe
  <2>4. i \in Eligible(file.ts)
    <3>1. ASSUME NEW j \in i .. Len(decisions) PROVE decisions[j].ts >= Lower(file.ts)
      <4>1. j \in 1 .. Len(decisions) /\ i \in 1 .. Len(decisions) /\ i <= j
        BY <2>1
      <4>2. decisions[i].ts \in Nat /\ decisions[j].ts \in Nat /\ decisions[i].ts <= decisions[j].ts
        BY <2>1, <4>1, EntryTypes DEF Recorded
      <4>3. file.ts \in Nat /\ decisions[i].ts >= file.ts - Window
        BY <1>1, <2>1, <4>2 DEF Types
      <4> QED BY <4>2, <4>3 DEF Lower
    <3> QED BY <3>1 DEF Eligible
  <2> QED BY <1>1, <2>1, <2>3, <2>4, Growth
<1>2. TrackerInv /\ [Next]_vars =>
        (haveBaseline /\ lastEdges' > lastEdges =>
           \A i \in DOMAIN decisions :
             decisions[i].ts \in file.ts - Window .. file.ts =>
               decisions'[i].credit > decisions[i].credit)
  BY <1>1
<1> QED BY <1>2, TrackerInvariant, PTL DEF Spec, NoOneSkipped

(* Once a prompt lists decisions that earned something, every later one does. *)
THEOREM HistoryIsKept == Spec => HistoryStays
<1>1. TrackerInv /\ [Next]_vars => (prompt.good # {} => prompt'.good # {})
  <2> SUFFICES ASSUME TrackerInv, [Next]_vars PROVE prompt.good # {} => prompt'.good # {}
    OBVIOUS
  <2>1. CASE BuildPrompt
    BY <2>1, PromptStep
  <2>2. CASE prompt' = prompt
    BY <2>2
  <2> QED BY <2>1, <2>2 DEF Next, vars, RecordDeploy, Sample, Tick, AflWrites, AflRestarts
<1> QED BY <1>1, TrackerInvariant, PTL DEF Spec, HistoryStays
=============================================================================
