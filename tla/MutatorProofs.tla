---- MODULE MutatorProofs ----
(***************************************************************************)
(* What holds of the exchange of recipes between the writer and the        *)
(* mutator, for every set of strategies, every batch, every cap of the     *)
(* caches and every order of the two programs' steps; and of its single    *)
(* calls, for arguments of every size: where in an input it writes, and    *)
(* which recipes a load keeps.                                             *)
(***************************************************************************)
EXTENDS Mutator, SetInduction, FiniteSetTheorems, SequenceTheorems, TLAPS

Recipes == {Recipe(s) : s \in Strategies}
Keys == {Key[s] : s \in Strategies}
PartialOf(K, S) == UNION {[L -> S] : L \in SUBSET K}
Partial(S) == PartialOf(Keys, S)

Operations == {"reset_index", "header", "open_global", "fill_global", "fill_recipe",
               "append_line"}
Places == {"down", "global", "index", "lines", "stat", "loaded", "idle"}
Steps == [op : Operations, id : Strategies \cup {Torn}]
Counters == [hits : Nat, misses : Nat, count : Nat]
Hashes == {HashOf[e] : e \in Entries} \cup {NoEntry}

Disks == [exists : BOOLEAN, global : Int, gtime : Nat, indexed : BOOLEAN,
          index : Seq(Strategies), itime : Nat, filled : SUBSET Strategies]
\* Caches of recipes in X, which are for seeds in K.
CachesOf(K, X) ==
    [global : Int, named : Seq(X), byName : PartialOf(K, Nat), hashed : PartialOf(K, X),
     loaded : BOOLEAN, tracked : BOOLEAN, gtime : Nat, itime : Nat]
Caches == CachesOf(Keys, Recipes)
KeyedBy(X, K) == \A r \in X : r.key \in K
Loads == [pc : Places, lines : Seq(Strategies), began : Nat, checked : Nat]

StoreTypes ==
    /\ disk \in Disks
    /\ todo \in Seq(Steps)
    /\ batches \in Nat /\ clock \in Nat

CacheTypes == cache \in Caches /\ load \in Loads

MutatorTypes ==
    /\ ring \in Counters /\ lines \in Seq(Counters)
    /\ mutator \in [seed : Entries \cup {NoEntry}, hash : Hashes, valid : BOOLEAN]
    /\ entry \in Entries \cup {NoEntry} /\ pending \in Entries \cup {NoEntry}
    /\ done \in [ever : Nat, sinceGet : Nat, before : Nat]

\* The writer: a file is complete before a line names it, and a store that is
\* not there has nothing.
InOrder(q, filled) ==
    \A i \in DOMAIN q :
        /\ q[i].op \in {"fill_global", "fill_recipe", "append_line"} => q[i].id \in Strategies
        /\ q[i].op = "append_line" =>
             \/ q[i].id \in filled
             \/ \E j \in 1 .. i - 1 : q[j] = Operation("fill_recipe", q[i].id)

Writing ==
    /\ InOrder(todo, disk.filled)
    /\ todo # <<>> => disk.exists
    /\ ~disk.exists => disk.global = Absent
    /\ load.pc = "index" => disk.exists
    /\ (cache.tracked \/ load.pc = "lines") => (disk.exists /\ disk.indexed)

\* Every line, on the disk and in the reader's buffer, names a complete file.
LinesWhole ==
    /\ \A i \in DOMAIN disk.index : disk.index[i] \in disk.filled
    /\ \A i \in DOMAIN load.lines : load.lines[i] \in disk.filled

\* What the index of the names points at was written for the name.
Matching(c) ==
    \A k \in DOMAIN c.byName :
        c.byName[k] \in DOMAIN c.named /\ c.named[c.byName[k]].key = k

NamesMatch == Matching(cache)

\* Nothing happens at a time that is yet to come.
Stamps ==
    /\ disk.gtime <= clock /\ disk.itime <= clock
    /\ load.began <= load.checked /\ load.checked <= clock

\* What reading some lines of an index makes of an empty cache, and all of them.
Read(index, n) == {Contents(c) : c \in Filled(OfIndex(index), EmptyCache)[n]}
Final(index) == OutcomesFrom(index, EmptyCache)

\* A file that was last written before the load began was read as it is.
GlobalRead ==
    /\ load.pc \notin {"down", "global"}
    /\ disk.gtime < load.began
    /\ disk.global # Absent
    => cache.global = disk.global

IndexRead ==
    /\ load.pc \in {"global", "index"} => Contents(cache) = Contents(EmptyCache)
    /\ load.pc = "lines" => cache.byName = <<>>
    /\ load.pc = "lines" /\ disk.itime < load.began =>
         \E n \in 0 .. Len(disk.index) :
             /\ load.lines = SubSeq(disk.index, n + 1, Len(disk.index))
             /\ Contents(cache) \in Read(disk.index, n)
    /\ load.pc \in {"stat", "loaded", "idle"} /\ cache.tracked /\ disk.itime < load.began =>
         Contents(cache) \in Final(disk.index)

\* A file that was last written before the last look at it has the time the
\* mutator remembers.
TimesKnown ==
    cache.tracked =>
        /\ load.pc \in {"stat", "loaded", "idle"} /\ disk.gtime < load.checked =>
             cache.gtime = disk.gtime
        /\ load.pc \in {"loaded", "idle"} /\ disk.itime < load.checked =>
             cache.itime = disk.itime

\* The hash that is remembered is that of the buffer.
HashKept == mutator.hash # NoEntry => mutator.hash = HashOf[entry]

\* What was counted since the last line of this process.
LastOwn == IF done.before < Len(lines) THEN lines[Len(lines)].count ELSE 0

Unflushed ==
    /\ done.before <= Len(lines)
    /\ load.pc = "down" => ring = Zero
    /\ load.pc # "down" => ring.count <= done.sinceGet + LastOwn

ExchangeInv ==
    /\ StoreTypes /\ CacheTypes
    /\ Writing /\ LinesWhole /\ NamesMatch /\ Stamps
    /\ GlobalRead /\ IndexRead /\ TimesKnown

CountInv == MutatorTypes /\ HashKept /\ Unflushed

MutatorInv == ExchangeInv /\ CountInv

-----------------------------------------------------------------------------
(* The writer's operations *)

\* Among these operations a file is filled before a line names it.
Ordered(q) ==
    \A i \in DOMAIN q :
        /\ q[i].op \in {"fill_global", "fill_recipe", "append_line"} => q[i].id \in Strategies
        /\ q[i].op = "append_line" =>
             \E j \in 1 .. i - 1 : q[j] = Operation("fill_recipe", q[i].id)

\* One recipe is two operations, in order.
LEMMA WritesOfOne ==
  ASSUME NEW s \in Strategies
  PROVE  WritesOf(s) \in Seq(Steps) /\ Ordered(WritesOf(s))
<1>1. \A op \in Operations : Operation(op, s) \in Steps
  BY DEF Operation, Steps
<1>2. CASE Mode[s] = "global"
  <2>1. WritesOf(s) = <<Operation("open_global", s), Operation("fill_global", s)>>
    BY <1>2 DEF WritesOf
  <2>2. WritesOf(s) \in Seq(Steps)
    BY <1>1, <2>1 DEF Operations
  <2>3. Ordered(WritesOf(s))
    BY <2>1 DEF Ordered, Operation
  <2> QED BY <2>2, <2>3
<1>3. CASE Mode[s] # "global"
  <2>1. WritesOf(s) = <<Operation("fill_recipe", s), Operation("append_line", s)>>
    BY <1>3 DEF WritesOf
  <2>2. WritesOf(s) \in Seq(Steps)
    BY <1>1, <2>1 DEF Operations
  <2>3. Ordered(WritesOf(s))
    BY <2>1 DEF Ordered, Operation
  <2> QED BY <2>2, <2>3
<1> QED BY <1>2, <1>3

\* Two ordered sequences of operations are ordered one after the other.
LEMMA OrderedTogether ==
  ASSUME NEW p \in Seq(Steps), NEW q \in Seq(Steps), Ordered(p), Ordered(q)
  PROVE  p \o q \in Seq(Steps) /\ Ordered(p \o q)
<1> DEFINE pq == p \o q
<1>1. pq \in Seq(Steps) /\ Len(pq) = Len(p) + Len(q) /\ Len(p) \in Nat /\ Len(q) \in Nat
  OBVIOUS
<1>2. \A i \in 1 .. Len(p) : pq[i] = p[i]
  OBVIOUS
<1>3. \A i \in 1 .. Len(q) : pq[Len(p) + i] = q[i]
  OBVIOUS
<1>4. DOMAIN pq = 1 .. Len(pq) /\ DOMAIN p = 1 .. Len(p) /\ DOMAIN q = 1 .. Len(q)
  BY <1>1
<1> HIDE DEF pq
<1>5. ASSUME NEW i \in DOMAIN pq
      PROVE  /\ pq[i].op \in {"fill_global", "fill_recipe", "append_line"} =>
                  pq[i].id \in Strategies
             /\ pq[i].op = "append_line" =>
                  \E j \in 1 .. i - 1 : pq[j] = Operation("fill_recipe", pq[i].id)
  <2>1. CASE i \in 1 .. Len(p)
    <3>1. \A j \in 1 .. i - 1 : pq[j] = p[j]
      BY <1>1, <1>2, <2>1
    <3>2. pq[i] = p[i] /\ i \in DOMAIN p
      BY <1>2, <1>4, <2>1
    <3> QED BY <3>1, <3>2 DEF Ordered
  <2>2. CASE i \notin 1 .. Len(p)
    <3> DEFINE k == i - Len(p)
    <3>1. k \in DOMAIN q /\ k \in Nat /\ i = Len(p) + k
      BY <1>1, <1>4, <2>2
    <3> HIDE DEF k
    <3>2. pq[i] = q[k]
      BY <1>3, <1>4, <3>1
    <3>3. ASSUME NEW j \in 1 .. k - 1
          PROVE  Len(p) + j \in 1 .. i - 1 /\ pq[Len(p) + j] = q[j]
      BY <1>1, <1>3, <1>4, <3>1
    <3> QED BY <3>1, <3>2, <3>3 DEF Ordered
  <2> QED BY <2>1, <2>2
<1> QED BY <1>1, <1>5 DEF Ordered, pq

\* What write_compact_recipes is about to do, in terms of its equations.
LEMMA WritesAre ==
  ASSUME NEW batch \in Seq(Strategies)
  PROVE  /\ WritesUpTo(batch)[0] = <<Operation("reset_index", Torn), Operation("header", Torn)>>
         /\ \A i \in 1 .. Len(batch) :
               WritesUpTo(batch)[i] = WritesUpTo(batch)[i - 1] \o WritesOf(batch[i])
         /\ \A i \in 0 .. Len(batch) :
               WritesUpTo(batch)[i] \in Seq(Steps) /\ Ordered(WritesUpTo(batch)[i])
<1> DEFINE n == Len(batch)
           first == <<Operation("reset_index", Torn), Operation("header", Torn)>>
           T == {q \in Seq(Steps) : Ordered(q)}
           step == [i \in 1 .. n |-> [q \in T |-> q \o WritesOf(batch[i])]]
<1>1. n \in Nat /\ \A i \in 1 .. n : batch[i] \in Strategies
  OBVIOUS
<1>2. first \in T
  BY DEF Ordered, Operation, Steps, Operations
<1>3. \A i \in 1 .. n : \A q \in T : q \o WritesOf(batch[i]) \in T
  <2> HIDE DEF n
  <2> QED BY <1>1, WritesOfOne, OrderedTogether
<1>4. step \in [1 .. n -> [T -> T]]
  <2> HIDE DEF T, n
  <2> QED BY <1>3
<1>5. PICK f : f \in Runs(T, first, step, n)
  <2> HIDE DEF T, step, first, n
  <2> QED BY <1>1, <1>2, <1>4, Scans
<1> HIDE DEF T, first
<1>6. f \in [0 .. n -> T] /\ f[0] = first /\ \A i \in 1 .. n : f[i] = step[i][f[i - 1]]
  BY <1>5 DEF Runs
<1>7. ASSUME NEW i \in 1 .. n PROVE f[i] = f[i - 1] \o WritesOf(batch[i])
  <2>1. f[i - 1] \in T
    BY <1>1, <1>6
  <2>2. f[i] = step[i][f[i - 1]]
    BY <1>6
  <2> QED BY <2>1, <2>2
<1>8. f = [i \in 0 .. n |-> IF i = 0 THEN first ELSE f[i - 1] \o WritesOf(batch[i])]
  BY <1>1, <1>6, <1>7
<1> DEFINE w == CHOOSE g : g = [i \in 0 .. n |-> IF i = 0 THEN first ELSE g[i - 1] \o WritesOf(batch[i])]
<1>9. w = [i \in 0 .. n |-> IF i = 0 THEN first ELSE w[i - 1] \o WritesOf(batch[i])]
  BY <1>8
<1>10. WritesUpTo(batch) = w
  BY DEF WritesUpTo, first
<1> HIDE DEF w
<1> DEFINE S == {i \in 0 .. n : w[i] \in T}
<1>11. 0 \in S
  BY <1>1, <1>2, <1>9
<1>12. ASSUME NEW m \in 1 .. n, m - 1 \in S PROVE m \in S
  <2>1. m \in 0 .. n /\ m # 0 /\ w[m] = w[m - 1] \o WritesOf(batch[m])
    BY <1>1, <1>9
  <2> QED BY <1>3, <1>12, <2>1
<1>13. \A i \in 0 .. n : i \in S
  <2> HIDE DEF S, n
  <2> QED BY <1>1, <1>11, <1>12, UpTo
<1>14. w[0] = first /\ \A i \in 1 .. n : w[i] = w[i - 1] \o WritesOf(batch[i])
  BY <1>1, <1>9
<1> QED BY <1>10, <1>13, <1>14 DEF T, first

\* Whatever the batch, its operations are in order.
LEMMA WritesOrdered ==
  ASSUME NEW batch \in Seq(Strategies)
  PROVE  WritesOfBatch(batch) \in Seq(Steps) /\ Ordered(WritesOfBatch(batch))
<1>1. Len(batch) \in 0 .. Len(batch)
  OBVIOUS
<1> QED BY <1>1, WritesAre DEF WritesOfBatch

\* The index of a batch grows by its recipes for seeds, and by no others.
LEMMA IndexIs ==
  ASSUME NEW batch \in Seq(Strategies)
  PROVE  /\ IndexUpTo(batch)[0] = <<>> /\ DOMAIN IndexUpTo(batch) = 0 .. Len(batch)
         /\ \A i \in 1 .. Len(batch) :
               IndexUpTo(batch)[i] = IF IsSeedRecipe(batch[i])
                                     THEN Append(IndexUpTo(batch)[i - 1], batch[i])
                                     ELSE IndexUpTo(batch)[i - 1]
         /\ \A i \in 0 .. Len(batch) :
               IndexUpTo(batch)[i] \in Seq({s \in Range(batch) : IsSeedRecipe(s)})
<1> DEFINE n == Len(batch)
           R == {s \in Range(batch) : IsSeedRecipe(s)}
           T == Seq(R)
           next(i, q) == IF IsSeedRecipe(batch[i]) THEN Append(q, batch[i]) ELSE q
           step == [i \in 1 .. n |-> [q \in T |-> next(i, q)]]
<1>1. n \in Nat /\ \A i \in 1 .. n : batch[i] \in Range(batch)
  BY DEF Range
<1>2. <<>> \in T
  OBVIOUS
<1>3. \A i \in 1 .. n : \A q \in T : next(i, q) \in T
  <2> HIDE DEF n
  <2>1. \A i \in 1 .. n : IsSeedRecipe(batch[i]) => batch[i] \in R
    BY <1>1
  <2> HIDE DEF R
  <2> QED BY <2>1
<1>4. step \in [1 .. n -> [T -> T]]
  <2> HIDE DEF T, n, next
  <2> QED BY <1>3
<1>5. PICK f : f \in Runs(T, <<>>, step, n)
  <2> HIDE DEF T, step, n
  <2> QED BY <1>1, <1>2, <1>4, Scans
<1> HIDE DEF T
<1>6. f \in [0 .. n -> T] /\ f[0] = <<>> /\ \A i \in 1 .. n : f[i] = step[i][f[i - 1]]
  BY <1>5 DEF Runs
<1>7. ASSUME NEW i \in 1 .. n PROVE f[i] = next(i, f[i - 1])
  <2> HIDE DEF next
  <2>1. f[i - 1] \in T
    BY <1>1, <1>6
  <2>2. f[i] = step[i][f[i - 1]]
    BY <1>6
  <2> QED BY <2>1, <2>2
<1>8. f = [i \in 0 .. n |-> IF i = 0 THEN <<>> ELSE next(i, f[i - 1])]
  <2> HIDE DEF next
  <2> QED BY <1>1, <1>6, <1>7
<1> DEFINE w == CHOOSE g : g = [i \in 0 .. n |-> IF i = 0 THEN <<>> ELSE next(i, g[i - 1])]
<1>9. w = [i \in 0 .. n |-> IF i = 0 THEN <<>> ELSE next(i, w[i - 1])]
  <2> HIDE DEF next
  <2> QED BY <1>8
<1>10. IndexUpTo(batch) = w
  BY DEF IndexUpTo
<1>14. w[0] = <<>> /\ DOMAIN w = 0 .. n /\ \A i \in 1 .. n : w[i] = next(i, w[i - 1])
  <2> HIDE DEF w, next
  <2> QED BY <1>1, <1>9
<1> HIDE DEF w, next
<1> DEFINE S == {i \in 0 .. n : w[i] \in T}
<1>11. 0 \in S
  BY <1>1, <1>2, <1>9
<1>12. ASSUME NEW m \in 1 .. n, m - 1 \in S PROVE m \in S
  <2>1. m \in 0 .. n /\ m # 0 /\ w[m] = next(m, w[m - 1])
    BY <1>1, <1>9
  <2> QED BY <1>3, <1>12, <2>1
<1>13. \A i \in 0 .. n : i \in S
  <2> HIDE DEF S, n
  <2> QED BY <1>1, <1>11, <1>12, UpTo
<1> QED BY <1>10, <1>13, <1>14 DEF T, next

\* The index a batch leaves.
LEMMA IndexNames ==
  ASSUME NEW batch \in Seq(Strategies)
  PROVE  IndexFor(batch) \in Seq({s \in Range(batch) : IsSeedRecipe(s)})
<1>1. Len(batch) \in 0 .. Len(batch)
  OBVIOUS
<1> QED BY <1>1, IndexIs DEF IndexFor

\* A set of places in a sequence has a last one.
LEMMA LastPlace ==
  ASSUME NEW n \in Nat, NEW S \in SUBSET (1 .. n), S # {}
  PROVE  Max(S) \in S /\ \A i \in S : Max(S) >= i
<1> DEFINE D == {n - i : i \in S}
<1>1. D \in SUBSET Nat /\ D # {}
  <2>1. \A i \in S : n - i \in Nat
    OBVIOUS
  <2> QED BY <2>1
<1>2. PICK d \in D : \A e \in D : d <= e
  <2> HIDE DEF D
  <2> QED BY <1>1, LeastExists
<1>3. PICK i \in S : d = n - i
  OBVIOUS
<1>4. \A j \in S : i >= j
  <2> SUFFICES ASSUME NEW j \in S PROVE i >= j
    OBVIOUS
  <2>1. d <= n - j
    BY <1>2
  <2> QED BY <1>3, <2>1
<1> QED BY <1>4 DEF Max

\* The lesser of two numbers.
LEMMA MinOfTwo ==
  ASSUME NEW a \in Int, NEW b \in Int
  PROVE  Min({a, b}) = IF a <= b THEN a ELSE b
<1> DEFINE S == {a, b}
           m == IF a <= b THEN a ELSE b
<1>1. m \in S /\ \A y \in S : m <= y
  OBVIOUS
<1>2. \A x \in S : (\A y \in S : x <= y) => x = m
  OBVIOUS
<1> HIDE DEF S, m
<1>3. Min(S) = m
  BY <1>1, <1>2 DEF Min
<1> QED BY <1>3 DEF S, m

\* The stores a campaign may begin with.
LEMMA StoresBegin ==
  ASSUME StoreInit
  PROVE  /\ disk \in Disks /\ todo = <<>> /\ batches = 0 /\ clock = 1
         /\ disk.gtime <= clock /\ disk.itime <= clock
         /\ ~disk.exists => disk.global = Absent
         /\ \A i \in DOMAIN disk.index : disk.index[i] \in disk.filled
<1> DEFINE R == {s \in Range(FirstBatch) : IsSeedRecipe(s)}
<1>1. FirstBatch \in Seq(Strategies) /\ Strategies \subseteq Nat
  BY StoreAssumption
<1>2. R \subseteq Strategies
  BY <1>1 DEF Range
<1>3. IndexFor(FirstBatch) \in Seq(R) /\ IndexFor(FirstBatch) \in Seq(Strategies)
  <2>1. IndexFor(FirstBatch) \in Seq(R)
    BY <1>1, IndexNames
  <2> HIDE DEF R
  <2> QED BY <1>2, <2>1
<1>4. Prepared.global \in Int
  <2>1. CASE Globals(FirstBatch) = {}
    BY <2>1 DEF Prepared, Absent
  <2>2. CASE Globals(FirstBatch) # {}
    <3>1. Globals(FirstBatch) \in SUBSET (1 .. Len(FirstBatch)) /\ Len(FirstBatch) \in Nat
      BY <1>1 DEF Globals
    <3>2. Max(Globals(FirstBatch)) \in Globals(FirstBatch)
      BY <2>2, <3>1, LastPlace
    <3> DEFINE m == Max(Globals(FirstBatch))
    <3>3. m \in 1 .. Len(FirstBatch)
      BY <3>1, <3>2
    <3>4. Prepared.global = FirstBatch[m]
      BY <2>2 DEF Prepared
    <3> HIDE DEF m
    <3>5. \A i \in 1 .. Len(FirstBatch) : FirstBatch[i] \in Strategies
      BY <1>1
    <3>6. FirstBatch[m] \in Nat
      BY <1>1, <3>3, <3>5
    <3> QED BY <3>4, <3>6
  <2> QED BY <2>1, <2>2
<1>5. Prepared \in Disks /\ Prepared.gtime <= 1 /\ Prepared.itime <= 1 /\ Prepared.exists
  BY <1>2, <1>3, <1>4 DEF Prepared, Disks
<1>6. \A i \in DOMAIN Prepared.index : Prepared.index[i] \in Prepared.filled
  <2>1. Prepared.index = IndexFor(FirstBatch) /\ Prepared.filled = R
    BY DEF Prepared
  <2> HIDE DEF R
  <2> QED BY <1>3, <2>1
<1>7. NoStore \in Disks
  <2>1. <<>> \in Seq(Strategies) /\ {} \in SUBSET Strategies /\ Absent \in Int
    BY DEF Absent
  <2>2. \A g \in Int, q \in Seq(Strategies), f \in SUBSET Strategies :
          [exists |-> FALSE, global |-> g, gtime |-> 0, indexed |-> FALSE, index |-> q,
           itime |-> 0, filled |-> f] \in Disks
    BY DEF Disks
  <2> QED BY <2>1, <2>2 DEF NoStore
<1>8. LoneGlobal \in Disks /\ LoneGlobal.gtime <= 1 /\ LoneGlobal.itime <= 1
      /\ LoneGlobal.index = <<>> /\ LoneGlobal.exists
  <2>1. \A g \in Int, t \in Nat, q \in Seq(Strategies), f \in SUBSET Strategies :
          [exists |-> TRUE, global |-> g, gtime |-> t, indexed |-> FALSE, index |-> q,
           itime |-> 0, filled |-> f] \in Disks
    BY DEF Disks
  <2>2. <<>> \in Seq(Strategies) /\ {} \in SUBSET Strategies
    OBVIOUS
  <2>3. Prepared.global \in Int /\ Prepared.gtime \in Nat
    BY <1>5 DEF Disks
  <2>4. LoneGlobal \in Disks
    BY <2>1, <2>2, <2>3 DEF LoneGlobal
  <2> QED BY <1>5, <2>4 DEF LoneGlobal
<1>9. CASE disk = NoStore
  BY <1>7, <1>9 DEF StoreInit, NoStore
<1>10. CASE disk = LoneGlobal
  BY <1>8, <1>10 DEF StoreInit
<1>11. CASE disk = Prepared
  <2> HIDE DEF R
  <2> QED BY <1>5, <1>6, <1>11 DEF StoreInit
<1> QED BY <1>9, <1>10, <1>11 DEF StoreInit

-----------------------------------------------------------------------------
(* The reader's operations *)

\* A recipe has a key, and the id of a strategy, which is not that of a torn file.
LEMMA RecipesWhole ==
  ASSUME NEW r \in Recipes
  PROVE  r.key \in Keys /\ r.id \in Strategies /\ r.id # Torn
<1>1. PICK s \in Strategies : r = Recipe(s)
  BY DEF Recipes
<1>2. r.key = Key[s] /\ r.id = s
  BY <1>1 DEF Recipe
<1> QED BY <1>2, StoreAssumption DEF Keys

\* Caches have the same contents when these three members agree.
LEMMA SameContents ==
  ASSUME NEW c, NEW d
  PROVE  Contents(c) = Contents(d) <=>
           c.named = d.named /\ c.byName = d.byName /\ c.hashed = d.hashed
<1>1. ASSUME Contents(c) = Contents(d)
      PROVE  c.named = d.named /\ c.byName = d.byName /\ c.hashed = d.hashed
  <2>1. /\ Contents(c).named = c.named /\ Contents(d).named = d.named
        /\ Contents(c).byName = c.byName /\ Contents(d).byName = d.byName
        /\ Contents(c).hashed = c.hashed /\ Contents(d).hashed = d.hashed
    BY DEF Contents
  <2> QED BY <1>1, <2>1
<1> QED BY <1>1 DEF Contents

\* The map of the hashes stays a map of keys to recipes.
LEMMA HashedKept ==
  ASSUME NEW K, NEW X, KeyedBy(X, K),
         NEW f \in PartialOf(K, X), NEW r \in X, NEW h \in Capped(HashedWith(f, r))
  PROVE  h \in PartialOf(K, X)
<1>1. PICK M \in SUBSET K : f \in [M -> X]
  BY DEF PartialOf
<1>2. r.key \in K
  BY DEF KeyedBy
<1>3. HashedWith(f, r) \in PartialOf(K, X)
  <2>1. CASE r.key \in DOMAIN f /\ ~Stronger(r, f[r.key])
    BY <2>1 DEF HashedWith
  <2>2. CASE ~(r.key \in DOMAIN f /\ ~Stronger(r, f[r.key]))
    <3>1. HashedWith(f, r) = [k \in DOMAIN f \union {r.key} |-> IF k = r.key THEN r ELSE f[k]]
      BY <2>2 DEF HashedWith
    <3>2. HashedWith(f, r) \in [M \union {r.key} -> X]
      BY <1>1, <3>1
    <3>3. M \union {r.key} \in SUBSET K
      BY <1>2
    <3> QED BY <3>2, <3>3 DEF PartialOf
  <2> QED BY <2>1, <2>2
<1> DEFINE g == HashedWith(f, r)
<1>4. PICK L \in SUBSET K : g \in [L -> X]
  BY <1>3 DEF PartialOf
<1>5. CASE h = g
  BY <1>3, <1>5
<1>6. CASE \E v \in Victims(g) : h = Restrict(g, DOMAIN g \ {v})
  <2> HIDE DEF g
  <2>1. PICK v \in Victims(g) : h = Restrict(g, DOMAIN g \ {v})
    BY <1>6
  <2>2. h \in [L \ {v} -> X]
    BY <1>4, <2>1 DEF Restrict
  <2>3. L \ {v} \in SUBSET K
    OBVIOUS
  <2> QED BY <2>2, <2>3 DEF PartialOf
<1> HIDE DEF g
<1>7. h \in Capped(g)
  BY DEF g
<1> QED BY <1>5, <1>6, <1>7 DEF Capped

\* add_recipe changes what is kept of recipes for seeds, in one of two ways.
LEMMA AddKeepsOf ==
  ASSUME NEW K, NEW X, KeyedBy(X, K),
         NEW c \in CachesOf(K, X), NEW r \in X, NEW d \in AddRecipe(c, r)
  PROVE  /\ d \in CachesOf(K, X)
         /\ d = [c EXCEPT !.named = d.named, !.hashed = d.hashed]
         /\ d.byName = c.byName /\ d.global = c.global /\ d.tracked = c.tracked
         /\ d.gtime = c.gtime /\ d.itime = c.itime
         /\ r.mode = "seed_id" => d.named = Append(c.named, r) /\ d.hashed = c.hashed
         /\ r.mode # "seed_id" => d.named = c.named /\ d.hashed \in Capped(HashedWith(c.hashed, r))
<1>0. c.named \in Seq(X) /\ c.hashed \in PartialOf(K, X)
  BY DEF CachesOf
<1>1. CASE r.mode = "seed_id"
  <2>1. d = [c EXCEPT !.named = Append(c.named, r)]
    BY <1>1 DEF AddRecipe
  <2>2. Append(c.named, r) \in Seq(X)
    BY <1>0
  <2>3. ASSUME NEW q \in Seq(X), d = [c EXCEPT !.named = q]
        PROVE  /\ d \in CachesOf(K, X)
               /\ d = [c EXCEPT !.named = d.named, !.hashed = d.hashed]
               /\ d.byName = c.byName /\ d.global = c.global /\ d.tracked = c.tracked
               /\ d.gtime = c.gtime /\ d.itime = c.itime
               /\ d.named = q /\ d.hashed = c.hashed
    BY <2>3 DEF CachesOf
  <2> QED BY <1>1, <2>1, <2>2, <2>3
<1>2. CASE r.mode # "seed_id"
  <2>1. PICK h \in Capped(HashedWith(c.hashed, r)) : d = [c EXCEPT !.hashed = h]
    BY <1>2 DEF AddRecipe
  <2>2. h \in PartialOf(K, X)
    BY <1>0, HashedKept
  <2>3. /\ d \in CachesOf(K, X)
        /\ d = [c EXCEPT !.named = d.named, !.hashed = d.hashed]
        /\ d.byName = c.byName /\ d.global = c.global /\ d.tracked = c.tracked
        /\ d.gtime = c.gtime /\ d.itime = c.itime
        /\ d.named = c.named /\ d.hashed = h
    BY <2>1, <2>2 DEF CachesOf
  <2> QED BY <1>2, <2>1, <2>3
<1> QED BY <1>1, <1>2

\* The writer's recipes are for its seeds.
LEMMA RecipesKeyed == KeyedBy(Recipes, Keys)
BY RecipesWhole DEF KeyedBy

\* What add_recipe does to the cache of the writer's recipes.
LEMMA AddKeeps ==
  ASSUME NEW c \in Caches, NEW r \in Recipes, NEW d \in AddRecipe(c, r)
  PROVE  /\ d \in Caches
         /\ d = [c EXCEPT !.named = d.named, !.hashed = d.hashed]
         /\ d.byName = c.byName /\ d.global = c.global /\ d.tracked = c.tracked
         /\ d.gtime = c.gtime /\ d.itime = c.itime
         /\ r.mode = "seed_id" => d.named = Append(c.named, r) /\ d.hashed = c.hashed
         /\ r.mode # "seed_id" => d.named = c.named /\ d.hashed \in Capped(HashedWith(c.hashed, r))
BY RecipesKeyed, AddKeepsOf DEF Caches

\* It does the same to caches with the same contents.
LEMMA AddSame ==
  ASSUME NEW c \in Caches, NEW e \in Caches, Contents(c) = Contents(e),
         NEW r \in Recipes, NEW d \in AddRecipe(c, r)
  PROVE  \E g \in AddRecipe(e, r) : Contents(g) = Contents(d)
<1>1. c.named = e.named /\ c.byName = e.byName /\ c.hashed = e.hashed
  BY SameContents
<1>2. CASE r.mode = "seed_id"
  <2> DEFINE g == [e EXCEPT !.named = Append(e.named, r)]
  <2>1. g \in AddRecipe(e, r)
    BY <1>2 DEF AddRecipe
  <2>2. d.named = Append(c.named, r) /\ d.hashed = c.hashed /\ d.byName = c.byName
    BY ZenonT(40), <1>2, AddKeeps
  <2>3. g.named = Append(e.named, r) /\ g.hashed = e.hashed /\ g.byName = e.byName
    BY ZenonT(40), <1>2, <2>1, AddKeeps
  <2> HIDE DEF g
  <2>4. Contents(g) = Contents(d)
    BY <1>1, <2>2, <2>3, SameContents
  <2> QED BY <2>1, <2>4
<1>3. CASE r.mode # "seed_id"
  <2>1. d.named = c.named /\ d.hashed \in Capped(HashedWith(c.hashed, r)) /\ d.byName = c.byName
    BY <1>3, AddKeeps
  <2> DEFINE g == [e EXCEPT !.hashed = d.hashed]
  <2>2. g \in AddRecipe(e, r)
    BY <1>1, <1>3, <2>1 DEF AddRecipe
  <2>3. g.named = e.named /\ g.hashed = d.hashed /\ g.byName = e.byName
    BY DEF Caches, CachesOf
  <2>4. Contents(g) = Contents(d)
    BY <1>1, <2>1, <2>3, SameContents
  <2> QED BY <2>2, <2>4
<1> QED BY <1>2, <1>3

\* Reading a sequence of recipes, one after the other, in terms of its equations.
LEMMA FilledDefOf ==
  ASSUME NEW K, NEW X, KeyedBy(X, K), NEW recipes \in Seq(X), NEW c \in CachesOf(K, X)
  PROVE  /\ Filled(recipes, c) \in [0 .. Len(recipes) -> SUBSET CachesOf(K, X)]
         /\ Filled(recipes, c)[0] = {c}
         /\ \A i \in 1 .. Len(recipes) :
               Filled(recipes, c)[i] =
                 UNION {AddRecipe(d, recipes[i]) : d \in Filled(recipes, c)[i - 1]}
<1> DEFINE n == Len(recipes)
           T == SUBSET CachesOf(K, X)
           first == {c}
           next(i, x) == UNION {AddRecipe(d, recipes[i]) : d \in x}
           step == [i \in 1 .. n |-> [x \in T |-> next(i, x)]]
<1>1. n \in Nat /\ \A i \in 1 .. n : recipes[i] \in X
  OBVIOUS
<1>2. first \in T
  OBVIOUS
<1>3. ASSUME NEW i \in 1 .. n, NEW x \in T PROVE next(i, x) \in T
  <2>1. \A d \in x : \A e \in AddRecipe(d, recipes[i]) : e \in CachesOf(K, X)
    BY <1>1, AddKeepsOf
  <2> QED BY <2>1
<1>4. step \in [1 .. n -> [T -> T]]
  <2> HIDE DEF T, n, next
  <2> QED BY <1>3
<1>5. PICK f : f \in Runs(T, first, step, n)
  <2> HIDE DEF T, step, n, first
  <2> QED BY <1>1, <1>2, <1>4, Scans
<1> HIDE DEF T, first
<1>6. f \in [0 .. n -> T] /\ f[0] = first /\ \A i \in 1 .. n : f[i] = step[i][f[i - 1]]
  BY <1>5 DEF Runs
<1>7. ASSUME NEW i \in 1 .. n PROVE f[i] = next(i, f[i - 1])
  <2> HIDE DEF next
  <2>1. f[i - 1] \in T
    BY <1>1, <1>6
  <2>2. f[i] = step[i][f[i - 1]]
    BY <1>6
  <2> QED BY <2>1, <2>2
<1>8. f = [i \in 0 .. n |-> IF i = 0 THEN first ELSE next(i, f[i - 1])]
  <2> HIDE DEF next
  <2> QED BY <1>1, <1>6, <1>7
<1> DEFINE w == CHOOSE g : g = [i \in 0 .. n |-> IF i = 0 THEN first ELSE next(i, g[i - 1])]
<1>9. w = [i \in 0 .. n |-> IF i = 0 THEN first ELSE next(i, w[i - 1])]
  <2> HIDE DEF next
  <2> QED BY <1>8
<1>10. Filled(recipes, c) = w
  BY DEF Filled, first, next
<1> HIDE DEF w, next
<1> DEFINE S == {i \in 0 .. n : w[i] \in T}
<1>11. 0 \in S
  BY <1>1, <1>2, <1>9
<1>12. ASSUME NEW m \in 1 .. n, m - 1 \in S PROVE m \in S
  <2> HIDE DEF n
  <2>1. m \in 0 .. n /\ m # 0 /\ w[m] = next(m, w[m - 1])
    BY <1>1, <1>9
  <2>2. w[m - 1] \in T
    BY <1>12
  <2>3. next(m, w[m - 1]) \in T
    BY <1>3, <2>2
  <2> QED BY <2>1, <2>3
<1>13. \A i \in 0 .. n : i \in S
  <2> HIDE DEF S, n
  <2> QED BY <1>1, <1>11, <1>12, UpTo
<1>14. w \in [0 .. n -> T]
  BY <1>9, <1>13
<1>15. w[0] = first /\ \A i \in 1 .. n : w[i] = next(i, w[i - 1])
  BY <1>1, <1>9
<1> QED BY <1>10, <1>14, <1>15 DEF T, next, first

\* Reading the writer's recipes.
LEMMA FilledDef ==
  ASSUME NEW recipes \in Seq(Recipes), NEW c \in Caches
  PROVE  /\ Filled(recipes, c) \in [0 .. Len(recipes) -> SUBSET Caches]
         /\ Filled(recipes, c)[0] = {c}
         /\ \A i \in 1 .. Len(recipes) :
               Filled(recipes, c)[i] =
                 UNION {AddRecipe(d, recipes[i]) : d \in Filled(recipes, c)[i - 1]}
BY RecipesKeyed, FilledDefOf DEF Caches

\* The stable sort by strength: r may stand before q unless q is stronger.
StrengthOrder(X) == {p \in X \X X : ~Stronger(p[2], p[1])}

\* Sorting in a recipe puts it behind the recipes it is not stronger than.
LEMMA InsertedIs ==
  ASSUME NEW X, NEW q \in Seq(X), NEW r \in X
  PROVE  Inserted(q, r) = Placed(q, Cardinality(Before(q, StrengthOrder(X), r)), r)
<1>1. \A i \in DOMAIN q : q[i] \in X
  OBVIOUS
<1>2. Before(q, StrengthOrder(X), r) = {i \in DOMAIN q : ~Stronger(r, q[i])}
  BY <1>1 DEF Before, StrengthOrder
<1> QED BY <1>2 DEF Inserted, Placed

\* Sorting the recipes for names is an insertion sort.
LEMMA SortedNamedIs ==
  ASSUME NEW X, NEW named \in Seq(X)
  PROVE  \E w \in [0 .. Len(named) -> Seq(X)] :
           /\ Sorts(w, named, StrengthOrder(X))
           /\ SortedNamed(named) = w[Len(named)]
<1> DEFINE n == Len(named)
           T == Seq(X)
           none == <<>>
           next(i, q) == Inserted(q, named[i])
           step == [i \in 1 .. n |-> [q \in T |-> next(i, q)]]
           at(i, q) == Cardinality(Before(q, StrengthOrder(X), named[i]))
<1>1. n \in Nat /\ \A i \in 1 .. n : named[i] \in X
  OBVIOUS
<1>2. none \in T
  OBVIOUS
<1>3. ASSUME NEW i \in 1 .. n, NEW q \in T
      PROVE  next(i, q) \in T /\ next(i, q) = Placed(q, at(i, q), named[i])
  <2>1. q \in Seq(X) /\ named[i] \in X /\ Len(q) \in Nat
    BY <1>1, <1>3
  <2>2. next(i, q) = Placed(q, at(i, q), named[i])
    BY <2>1, InsertedIs
  <2>3. at(i, q) \in 0 .. Len(q)
    <3>1. Before(q, StrengthOrder(X), named[i]) \in SUBSET (1 .. Len(q))
      BY <2>1 DEF Before
    <3> QED BY <2>1, <3>1, PlacesCounted
  <2> HIDE DEF at, next
  <2>4. Placed(q, at(i, q), named[i]) \in Seq(X)
    BY <2>1, <2>3, PlacedIs
  <2> QED BY <2>2, <2>4
<1>4. step \in [1 .. n -> [T -> T]]
  <2> HIDE DEF T, n, next, at
  <2> QED BY <1>3
<1>5. PICK f : f \in Runs(T, none, step, n)
  <2> HIDE DEF T, step, n, none
  <2> QED BY <1>1, <1>2, <1>4, Scans
<1> HIDE DEF T
<1>6. f \in [0 .. n -> T] /\ f[0] = none /\ \A i \in 1 .. n : f[i] = step[i][f[i - 1]]
  BY <1>5 DEF Runs
<1>7. ASSUME NEW i \in 1 .. n PROVE f[i] = next(i, f[i - 1])
  <2> HIDE DEF next
  <2>1. f[i - 1] \in T
    BY <1>1, <1>6
  <2>2. f[i] = step[i][f[i - 1]]
    BY <1>6
  <2> QED BY <2>1, <2>2
<1>8. f = [i \in 0 .. n |-> IF i = 0 THEN none ELSE next(i, f[i - 1])]
  <2> HIDE DEF next
  <2> QED BY <1>1, <1>6, <1>7
<1> DEFINE w == CHOOSE g : g = [i \in 0 .. n |-> IF i = 0 THEN none ELSE next(i, g[i - 1])]
<1>9. w = [i \in 0 .. n |-> IF i = 0 THEN none ELSE next(i, w[i - 1])]
  <2> HIDE DEF next
  <2> QED BY <1>8
<1>10. SortedNamed(named) = w[n]
  BY DEF SortedNamed
<1> HIDE DEF w, next, none, at
<1> DEFINE S == {i \in 0 .. n : w[i] \in T}
<1>11. 0 \in S
  BY <1>1, <1>2, <1>9
<1>12. ASSUME NEW m \in 1 .. n, m - 1 \in S PROVE m \in S
  <2>1. m \in 0 .. n /\ m # 0 /\ w[m] = next(m, w[m - 1])
    BY <1>1, <1>9
  <2> QED BY <1>3, <1>12, <2>1
<1>13. \A i \in 0 .. n : i \in S
  <2> HIDE DEF S, n
  <2> QED BY <1>1, <1>11, <1>12, UpTo
<1>14. w \in [0 .. n -> T]
  BY <1>9, <1>13
<1>15. w[0] = none
  BY <1>1, <1>9
<1>16. ASSUME NEW i \in 1 .. n PROVE w[i] = Placed(w[i - 1], at(i, w[i - 1]), named[i])
  <2>1. w[i - 1] \in T /\ w[i] = next(i, w[i - 1])
    BY <1>1, <1>9, <1>14
  <2> QED BY <1>3, <2>1
<1>17. Sorts(w, named, StrengthOrder(X))
  BY <1>15, <1>16 DEF Sorts, none, at
<1> QED BY <1>10, <1>14, <1>17 DEF T

\* An index points every name at the first recipe with this name.
Indexes(b, named) ==
    /\ DOMAIN b = {named[i].key : i \in DOMAIN named}
    /\ \A k \in DOMAIN b :
          /\ b[k] \in DOMAIN named
          /\ named[b[k]].key = k
          /\ \A i \in DOMAIN named : named[i].key = k => b[k] <= i

\* The index of the names is one.
LEMMA IndexMatches ==
  ASSUME NEW K, NEW X, KeyedBy(X, K), NEW named \in Seq(X)
  PROVE  IndexOf(named) \in PartialOf(K, Nat) /\ Indexes(IndexOf(named), named)
<1> DEFINE L == {named[i].key : i \in DOMAIN named}
           At(k) == {i \in DOMAIN named : named[i].key = k}
<1>1. IndexOf(named) = [k \in L |-> Min(At(k))]
  BY DEF IndexOf
<1>2. L \in SUBSET K
  <2>1. \A i \in DOMAIN named : named[i] \in X
    OBVIOUS
  <2> QED BY <2>1 DEF KeyedBy
<1>3. ASSUME NEW k \in L PROVE Min(At(k)) \in At(k) /\ \A j \in At(k) : Min(At(k)) <= j
  <2>1. At(k) \in SUBSET Nat /\ At(k) # {}
    OBVIOUS
  <2>2. PICK i \in At(k) : \A j \in At(k) : i <= j
    <3> HIDE DEF At
    <3> QED BY <2>1, LeastExists
  <2> HIDE DEF At
  <2> QED BY <2>2 DEF Min
<1>4. \A k \in L : /\ Min(At(k)) \in DOMAIN named /\ named[Min(At(k))].key = k
                   /\ \A i \in DOMAIN named : named[i].key = k => Min(At(k)) <= i
  BY <1>3
<1>5. \A i \in DOMAIN named : i \in Nat
  OBVIOUS
<1>7. DOMAIN IndexOf(named) = L
  BY <1>1
<1> HIDE DEF L, At
<1>6. IndexOf(named) \in [L -> Nat]
  BY <1>1, <1>4, <1>5
<1>8. IndexOf(named) \in PartialOf(K, Nat)
  BY <1>2, <1>6 DEF PartialOf
<1> QED BY <1>1, <1>4, <1>7, <1>8 DEF L, Indexes

\* Recipes are compared by numbers.
Ranked(X) == \A r \in X : r.id \in Int /\ r.priority \in Int

\* Strength is an order, in which recipes may be equally strong.
LEMMA StrengthOrders ==
  ASSUME NEW X, Ranked(X)
  PROVE  IsOrder(StrengthOrder(X), X)
BY DEF Ranked, StrengthOrder, Stronger, IsOrder

\* What is left of the recipes for names is the head of them, sorted.
LEMMA KeptAre ==
  ASSUME NEW X, Ranked(X), NEW named \in Seq(X), NEW D, Pairwise(named, D)
  PROVE  \E s \in Seq(X) :
           /\ Sorted(s, named, StrengthOrder(X))
           /\ Pairwise(s, D)
           /\ NamedKept(named) =
                SubSeq(s, 1, IF Len(named) <= MaxNamed THEN Len(named) ELSE MaxNamed)
<1>1. PICK w \in [0 .. Len(named) -> Seq(X)] :
        Sorts(w, named, StrengthOrder(X)) /\ SortedNamed(named) = w[Len(named)]
  BY SortedNamedIs
<1>2. Len(named) \in Nat /\ MaxNamed \in Nat /\ w[Len(named)] \in Seq(X)
  BY CacheAssumption
<1>3. Sorted(w[Len(named)], named, StrengthOrder(X)) /\ Pairwise(w[Len(named)], D)
  BY <1>1, StrengthOrders, InsertionSorts
<1>4. Min({Len(named), MaxNamed}) = IF Len(named) <= MaxNamed THEN Len(named) ELSE MaxNamed
  BY SMTT(30), <1>2, MinOfTwo
<1> QED BY <1>1, <1>2, <1>3, <1>4 DEF NamedKept

\* The writer's recipes are compared by their ids and priorities.
LEMMA RecipesRanked == Ranked(Recipes)
<1> SUFFICES ASSUME NEW r \in Recipes PROVE r.id \in Int /\ r.priority \in Int
  BY DEF Ranked
<1>1. PICK s \in Strategies : r = Recipe(s)
  BY DEF Recipes
<1>2. r.id = s /\ r.priority = Priority[s]
  BY <1>1 DEF Recipe
<1> QED BY <1>2, StoreAssumption

\* What is left of them is some of them.
LEMMA KeptKeeps ==
  ASSUME NEW named \in Seq(Recipes)
  PROVE  NamedKept(named) \in Seq(Recipes)
<1>1. Pairwise(named, Recipes \X Recipes)
  <2>1. \A i \in DOMAIN named : named[i] \in Recipes
    OBVIOUS
  <2> QED BY <2>1 DEF Pairwise
<1>2. PICK s \in Seq(Recipes) :
        /\ Sorted(s, named, StrengthOrder(Recipes))
        /\ NamedKept(named) =
             SubSeq(s, 1, IF Len(named) <= MaxNamed THEN Len(named) ELSE MaxNamed)
  BY <1>1, RecipesRanked, KeptAre
<1> DEFINE m == IF Len(named) <= MaxNamed THEN Len(named) ELSE MaxNamed
<1>3. m \in 0 .. Len(s)
  <2>1. Len(s) = Len(named) /\ Len(named) \in Nat /\ MaxNamed \in Nat
    BY <1>2, CacheAssumption DEF Sorted
  <2> QED BY <2>1
<1> HIDE DEF m
<1>4. SubSeq(s, 1, m) \in Seq(Recipes)
  BY <1>3
<1> QED BY <1>2, <1>4 DEF m

\* The end of a load: the names are matched, and the rest is as it was read.
LEMMA FinishKeeps ==
  ASSUME NEW c \in Caches, c.byName = <<>>
  PROVE  /\ FinishNamed(c) \in Caches /\ Matching(FinishNamed(c))
         /\ FinishNamed(c).global = c.global
<1>1. CASE c.named = <<>>
  <2>1. FinishNamed(c) = c
    BY <1>1 DEF FinishNamed
  <2> QED BY <2>1 DEF Matching
<1>2. CASE c.named # <<>>
  <2> DEFINE k == NamedKept(c.named)
             b == IndexOf(k)
  <2>1. k \in Seq(Recipes)
    <3>1. c.named \in Seq(Recipes)
      BY DEF Caches, CachesOf
    <3> QED BY <3>1, KeptKeeps
  <2>2. b \in Partial(Nat) /\ \A i \in DOMAIN b : b[i] \in DOMAIN k /\ k[b[i]].key = i
    <3> HIDE DEF k
    <3>1. KeyedBy(Recipes, Keys)
      BY RecipesKeyed
    <3>2. IndexOf(k) \in PartialOf(Keys, Nat) /\ Indexes(IndexOf(k), k)
      BY <2>1, <3>1, IndexMatches
    <3> QED BY <3>2 DEF Partial, Indexes
  <2>3. FinishNamed(c) = [c EXCEPT !.named = k, !.byName = b]
    BY <1>2 DEF FinishNamed
  <2> HIDE DEF k, b
  <2>4. /\ FinishNamed(c) \in Caches
        /\ FinishNamed(c).named = k /\ FinishNamed(c).byName = b
        /\ FinishNamed(c).global = c.global
    BY <2>1, <2>2, <2>3 DEF Caches, CachesOf, Partial
  <2> QED BY <2>2, <2>4 DEF Matching
<1> QED BY <1>1, <1>2

\* The end of a load does the same to caches with the same contents.
LEMMA FinishSame ==
  ASSUME NEW c \in Caches, NEW d \in Caches, Contents(c) = Contents(d)
  PROVE  Contents(FinishNamed(c)) = Contents(FinishNamed(d))
<1>1. c.named = d.named /\ c.byName = d.byName /\ c.hashed = d.hashed
  BY SameContents
<1>2. CASE c.named = <<>>
  BY <1>1, <1>2 DEF FinishNamed
<1>3. CASE c.named # <<>>
  <2> DEFINE k == NamedKept(c.named)
             b == IndexOf(k)
  <2>1. /\ FinishNamed(c) = [c EXCEPT !.named = k, !.byName = b]
        /\ FinishNamed(d) = [d EXCEPT !.named = k, !.byName = b]
    BY <1>1, <1>3 DEF FinishNamed
  <2> HIDE DEF k, b
  <2>2. \A e \in Caches :
          /\ [e EXCEPT !.named = k, !.byName = b].named = k
          /\ [e EXCEPT !.named = k, !.byName = b].byName = b
          /\ [e EXCEPT !.named = k, !.byName = b].hashed = e.hashed
    BY DEF Caches, CachesOf
  <2>3. FinishNamed(c).named = k /\ FinishNamed(c).byName = b /\ FinishNamed(c).hashed = c.hashed
    BY <2>1, <2>2
  <2>4. FinishNamed(d).named = k /\ FinishNamed(d).byName = b /\ FinishNamed(d).hashed = d.hashed
    BY <2>1, <2>2
  <2> QED BY <1>1, <2>3, <2>4, SameContents
<1> QED BY <1>2, <1>3

\* An empty cache is one, of whichever recipes.
LEMMA EmptyIsCacheOf ==
  ASSUME NEW K, NEW X
  PROVE  EmptyCache \in CachesOf(K, X)
<1>1. <<>> \in Seq(X)
  OBVIOUS
<1>2. ASSUME NEW T PROVE <<>> \in PartialOf(K, T)
  <2>1. <<>> = [k \in {} |-> 0]
    OBVIOUS
  <2>2. [k \in {} |-> 0] \in [{} -> T]
    OBVIOUS
  <2>3. {} \in SUBSET K
    OBVIOUS
  <2> QED BY <2>1, <2>2, <2>3 DEF PartialOf
<1>3. \A q \in Seq(X), b \in PartialOf(K, Nat), h \in PartialOf(K, X) :
        [global |-> Builtin, named |-> q, byName |-> b, hashed |-> h, loaded |-> FALSE,
         tracked |-> FALSE, gtime |-> 0, itime |-> 0] \in CachesOf(K, X)
  BY DEF CachesOf, Builtin
<1> QED BY <1>1, <1>2, <1>3 DEF EmptyCache

\* So is one of the writer's recipes.
LEMMA EmptyIsCache == EmptyCache \in Caches
BY EmptyIsCacheOf DEF Caches

\* The recipes of an index are those of its lines.
LEMMA OfIndexIs ==
  ASSUME NEW index \in Seq(Strategies)
  PROVE  /\ OfIndex(index) \in Seq(Recipes) /\ Len(OfIndex(index)) = Len(index)
         /\ \A i \in 1 .. Len(index) : OfIndex(index)[i] = Recipe(index[i])
<1>1. Len(index) \in Nat /\ DOMAIN index = 1 .. Len(index)
  OBVIOUS
<1>2. \A i \in 1 .. Len(index) : Recipe(index[i]) \in Recipes
  BY DEF Recipes
<1> QED BY <1>1, <1>2 DEF OfIndex

\* A load begins with an empty cache ...
LEMMA ReadStarts ==
  ASSUME NEW index \in Seq(Strategies), NEW c, Contents(c) = Contents(EmptyCache)
  PROVE  Contents(c) \in Read(index, 0)
<1>1. Filled(OfIndex(index), EmptyCache)[0] = {EmptyCache}
  BY OfIndexIs, EmptyIsCache, FilledDef
<1> QED BY <1>1 DEF Read

\* ... adds the recipe of one line after the other ...
LEMMA ReadGoesOn ==
  ASSUME NEW index \in Seq(Strategies), NEW n \in 1 .. Len(index), NEW c \in Caches,
         Contents(c) \in Read(index, n - 1), NEW d \in AddRecipe(c, Recipe(index[n]))
  PROVE  Contents(d) \in Read(index, n)
<1> DEFINE q == OfIndex(index)
           F == Filled(q, EmptyCache)
<1>1. /\ q \in Seq(Recipes) /\ Len(q) = Len(index) /\ q[n] = Recipe(index[n])
      /\ Len(index) \in Nat /\ Recipe(index[n]) \in Recipes
  <2>1. index[n] \in Strategies /\ Len(index) \in Nat
    OBVIOUS
  <2>2. Recipe(index[n]) \in Recipes
    BY <2>1 DEF Recipes
  <2> QED BY <2>1, <2>2, OfIndexIs
<1>2. /\ F \in [0 .. Len(index) -> SUBSET Caches]
      /\ F[n] = UNION {AddRecipe(e, q[n]) : e \in F[n - 1]}
  <2> HIDE DEF q
  <2> QED BY <1>1, EmptyIsCache, FilledDef
<1>3. PICK e \in F[n - 1] : Contents(e) = Contents(c)
  BY DEF Read
<1> HIDE DEF q, F
<1>4. e \in Caches
  BY <1>1, <1>2, <1>3
<1>5. PICK g \in AddRecipe(e, Recipe(index[n])) : Contents(g) = Contents(d)
  BY <1>1, <1>3, <1>4, AddSame
<1>6. g \in F[n]
  BY <1>1, <1>2, <1>5
<1> QED BY <1>5, <1>6 DEF Read, F, q

\* ... and ends with the names sorted and indexed.
LEMMA ReadEnds ==
  ASSUME NEW index \in Seq(Strategies), NEW c \in Caches,
         Contents(c) \in Read(index, Len(index))
  PROVE  Contents(FinishNamed(c)) \in Final(index)
<1> DEFINE q == OfIndex(index)
           F == Filled(q, EmptyCache)
<1>1. q \in Seq(Recipes) /\ Len(q) = Len(index) /\ Len(index) \in Nat
  BY OfIndexIs
<1>2. F \in [0 .. Len(index) -> SUBSET Caches]
  <2> HIDE DEF q
  <2> QED BY <1>1, EmptyIsCache, FilledDef
<1>3. PICK e \in F[Len(index)] : Contents(e) = Contents(c)
  BY DEF Read
<1>4. e \in Caches
  <2> HIDE DEF F, q
  <2> QED BY <1>1, <1>2, <1>3
<1>5. Contents(FinishNamed(e)) = Contents(FinishNamed(c))
  BY <1>3, <1>4, FinishSame
<1>6. FinishNamed(e) \in LoadedFrom(q, EmptyCache)
  <2>1. e \in Filled(q, EmptyCache)[Len(q)]
    BY <1>1, <1>3
  <2> HIDE DEF q
  <2> QED BY <2>1 DEF LoadedFrom
<1> QED BY <1>5, <1>6 DEF Final, OutcomesFrom, q

-----------------------------------------------------------------------------
(* The steps of the writer *)

\* Without the first operation, of which only the filling of a file counts.
LEMMA InOrderTail ==
  ASSUME NEW q \in Seq(Steps), q # <<>>, NEW filled, NEW after, InOrder(q, filled),
         filled \subseteq after, Head(q).op = "fill_recipe" => Head(q).id \in after
  PROVE  Tail(q) \in Seq(Steps) /\ InOrder(Tail(q), after)
<1> DEFINE t == Tail(q)
<1>1. /\ t \in Seq(Steps) /\ Len(q) \in Nat /\ Len(t) = Len(q) - 1
      /\ \A i \in 1 .. Len(t) : t[i] = q[i + 1]
      /\ DOMAIN t = 1 .. Len(t) /\ DOMAIN q = 1 .. Len(q) /\ Head(q) = q[1]
  OBVIOUS
<1> HIDE DEF t
<1>2. ASSUME NEW i \in DOMAIN t
      PROVE  /\ t[i].op \in {"fill_global", "fill_recipe", "append_line"} => t[i].id \in Strategies
             /\ t[i].op = "append_line" =>
                  \/ t[i].id \in after
                  \/ \E j \in 1 .. i - 1 : t[j] = Operation("fill_recipe", t[i].id)
  <2>1. i + 1 \in DOMAIN q /\ t[i] = q[i + 1] /\ i \in Nat /\ (i + 1) - 1 = i
    BY <1>1
  <2>2. t[i].op \in {"fill_global", "fill_recipe", "append_line"} => t[i].id \in Strategies
    BY <2>1 DEF InOrder
  <2>3. ASSUME t[i].op = "append_line", t[i].id \notin after
        PROVE  \E j \in 1 .. i - 1 : t[j] = Operation("fill_recipe", t[i].id)
    <3>1. t[i].id \notin filled
      BY <2>3
    <3>2. \E j \in 1 .. (i + 1) - 1 : q[j] = Operation("fill_recipe", q[i + 1].id)
      BY <2>1, <2>3, <3>1 DEF InOrder
    <3>3. PICK j \in 1 .. i : q[j] = Operation("fill_recipe", t[i].id)
      BY <2>1, <3>2
    <3>4. j # 1
      <4>1. Head(q) = q[1] /\ Operation("fill_recipe", t[i].id).op = "fill_recipe"
            /\ Operation("fill_recipe", t[i].id).id = t[i].id
        BY <1>1 DEF Operation
      <4> QED BY <2>3, <3>3, <4>1
    <3>5. j - 1 \in 1 .. i - 1 /\ j - 1 \in 1 .. Len(t) /\ (j - 1) + 1 = j
      BY <1>1, <2>1, <3>4
    <3>6. t[j - 1] = q[j]
      BY <1>1, <3>5
    <3> QED BY <3>3, <3>5, <3>6
  <2> QED BY <2>2, <2>3
<1> QED BY <1>1, <1>2 DEF InOrder, t

\* Whatever is written is stamped with the time of writing, and nothing that is
\* complete is taken back: a reader that began later is not concerned.
LEMMA StoreChanges ==
  ASSUME ExchangeInv, cache' = cache, load' = load,
         disk' \in Disks, todo' \in Seq(Steps), batches' \in Nat, clock' \in Nat, clock <= clock',
         InOrder(todo', disk'.filled), todo' # <<>> => disk'.exists,
         ~disk'.exists => disk'.global = Absent,
         disk.exists => disk'.exists, disk.indexed => disk'.indexed,
         disk.filled \subseteq disk'.filled,
         disk'.gtime = clock \/ (disk'.gtime = disk.gtime /\ disk'.global = disk.global),
         disk'.itime = clock \/ (disk'.itime = disk.itime /\ disk'.index = disk.index),
         \A i \in DOMAIN disk'.index : disk'.index[i] \in disk'.filled
  PROVE  ExchangeInv'
<1>0. /\ disk \in Disks /\ clock \in Nat /\ load \in Loads
      /\ load.began \in Nat /\ load.checked \in Nat
      /\ disk.gtime \in Nat /\ disk.itime \in Nat
  BY DEF ExchangeInv, StoreTypes, CacheTypes, Disks, Loads
<1>1. StoreTypes' /\ CacheTypes'
  BY DEF ExchangeInv, StoreTypes, CacheTypes
<1>2. Writing'
  BY DEF ExchangeInv, Writing, InOrder
<1>3. LinesWhole'
  BY DEF ExchangeInv, LinesWhole
<1>4. NamesMatch'
  BY DEF ExchangeInv, NamesMatch, Matching
<1>5. Stamps'
  BY <1>0 DEF ExchangeInv, Stamps
<1>6. load.began <= clock /\ load.checked <= clock
  BY <1>0 DEF ExchangeInv, Stamps
<1>7. GlobalRead'
  <2> SUFFICES ASSUME load.pc \notin {"down", "global"}, disk'.gtime < load.began,
                      disk'.global # Absent
               PROVE  cache.global = disk'.global
    BY DEF GlobalRead
  <2>1. disk'.gtime # clock
    BY <1>0, <1>6
  <2> QED BY <2>1 DEF ExchangeInv, GlobalRead
<1>8. IndexRead'
  <2>1. disk'.itime < load.began => disk'.itime = disk.itime /\ disk'.index = disk.index
    BY <1>0, <1>6
  <2>2. /\ load'.pc \in {"global", "index"} => Contents(cache') = Contents(EmptyCache)
        /\ load'.pc = "lines" => cache'.byName = <<>>
    BY DEF ExchangeInv, IndexRead
  <2>3. load'.pc = "lines" /\ disk'.itime < load'.began =>
         \E n \in 0 .. Len(disk'.index) :
             /\ load'.lines = SubSeq(disk'.index, n + 1, Len(disk'.index))
             /\ Contents(cache') \in Read(disk'.index, n)
    BY <2>1 DEF ExchangeInv, IndexRead
  <2>4. load'.pc \in {"stat", "loaded", "idle"} /\ cache'.tracked /\ disk'.itime < load'.began =>
         Contents(cache') \in Final(disk'.index)
    BY <2>1 DEF ExchangeInv, IndexRead
  <2> QED BY <2>2, <2>3, <2>4 DEF IndexRead
<1>9. TimesKnown'
  <2>1. disk'.gtime < load.checked => disk'.gtime = disk.gtime
    BY <1>0, <1>6
  <2>2. disk'.itime < load.checked => disk'.itime = disk.itime
    BY <1>0, <1>6
  <2> QED BY <2>1, <2>2 DEF ExchangeInv, TimesKnown
<1> QED BY <1>1, <1>2, <1>3, <1>4, <1>5, <1>7, <1>8, <1>9 DEF ExchangeInv

\* No step of the writer takes anything back, nor names what is not complete.
LEMMA WriterKeeps ==
  ASSUME ExchangeInv, StoreStep, cache' = cache, load' = load
  PROVE  ExchangeInv'
<1>0. /\ disk \in Disks /\ clock \in Nat /\ batches \in Nat /\ todo \in Seq(Steps)
      /\ InOrder(todo, disk.filled) /\ (todo # <<>> => disk.exists)
      /\ (~disk.exists => disk.global = Absent)
      /\ \A i \in DOMAIN disk.index : disk.index[i] \in disk.filled
  BY DEF ExchangeInv, StoreTypes, Writing, LinesWhole
<1>1. ASSUME NEW op \in Operations, Doing(op)
      PROVE  /\ todo # <<>> /\ todo' = Tail(todo) /\ batches' = batches /\ clock' = clock
             /\ Head(todo) = todo[1] /\ Head(todo) \in Steps /\ 1 \in DOMAIN todo
             /\ Head(todo).op = op /\ todo' \in Seq(Steps) /\ disk.exists
             /\ op \in {"fill_global", "fill_recipe", "append_line"} => Head(todo).id \in Strategies
             /\ op = "append_line" => Head(todo).id \in disk.filled
  <2>1. /\ todo # <<>> /\ todo' = Tail(todo) /\ batches' = batches /\ clock' = clock
        /\ Head(todo).op = op
    BY <1>1 DEF Doing
  <2>2. Head(todo) = todo[1] /\ 1 \in DOMAIN todo /\ Head(todo) \in Steps /\ todo' \in Seq(Steps)
    BY <1>0, <2>1
  <2>3. op \in {"fill_global", "fill_recipe", "append_line"} => Head(todo).id \in Strategies
    BY <1>0, <2>1, <2>2 DEF InOrder
  <2>4. op = "append_line" => Head(todo).id \in disk.filled
    <3>1. ~ \E j \in 1 .. 1 - 1 : todo[j] = Operation("fill_recipe", todo[1].id)
      OBVIOUS
    <3> QED BY <1>0, <2>1, <2>2, <3>1 DEF InOrder
  <2> QED BY <1>0, <2>1, <2>2, <2>3, <2>4
<1>2. ASSUME NEW batch \in Batches, BeginBatch(batch) PROVE ExchangeInv'
  <2>1. /\ todo' = WritesOfBatch(batch) /\ batches' = batches + 1 /\ clock' = clock
        /\ disk' = [disk EXCEPT !.exists = TRUE]
    BY <1>2 DEF BeginBatch
  <2>2. todo' \in Seq(Steps) /\ InOrder(todo', disk'.filled)
    <3>1. batch \in Seq(Strategies)
      BY StoreAssumption
    <3>2. todo' \in Seq(Steps) /\ Ordered(todo')
      BY <2>1, <3>1, WritesOrdered
    <3> QED BY <3>2 DEF Ordered, InOrder
  <2>3. /\ disk' \in Disks /\ disk'.filled = disk.filled /\ disk'.exists
        /\ disk'.gtime = disk.gtime /\ disk'.global = disk.global /\ disk'.indexed = disk.indexed
        /\ disk'.itime = disk.itime /\ disk'.index = disk.index
    BY <1>0, <2>1 DEF Disks
  <2> QED BY <1>0, <2>1, <2>2, <2>3, StoreChanges
<1>3. CASE ResetIndex
  <2>1. Doing("reset_index") /\ disk' = [disk EXCEPT !.indexed = TRUE, !.index = <<>>, !.itime = clock]
    BY <1>3 DEF ResetIndex
  <2>2. "reset_index" \in Operations
    BY DEF Operations
  <2> DEFINE none == <<>>
  <2>5. none \in Seq(Strategies) /\ DOMAIN none = {}
    OBVIOUS
  <2>6. disk' = [disk EXCEPT !.indexed = TRUE, !.index = none, !.itime = clock]
    BY <2>1
  <2> HIDE DEF none
  <2>3. disk' \in Disks /\ disk'.filled = disk.filled /\ disk'.exists = disk.exists
        /\ disk'.gtime = disk.gtime /\ disk'.global = disk.global /\ disk'.indexed
        /\ disk'.itime = clock /\ disk'.index = none
    BY <1>0, <2>5, <2>6 DEF Disks
  <2>4. InOrder(todo', disk'.filled)
    BY <1>0, <1>1, <2>1, <2>2, <2>3, InOrderTail
  <2>10. /\ disk'.exists /\ todo' \in Seq(Steps) /\ batches' \in Nat /\ clock' \in Nat
         /\ clock <= clock'
    BY <1>0, <1>1, <2>1, <2>2, <2>3
  <2>11. \A i \in DOMAIN disk'.index : disk'.index[i] \in disk'.filled
    BY <2>3, <2>5
  <2>12. disk.filled \subseteq disk'.filled /\ (disk.indexed => disk'.indexed)
    BY <2>3
  <2>13. disk'.gtime = clock \/ (disk'.gtime = disk.gtime /\ disk'.global = disk.global)
    BY <2>3
  <2>14. disk'.itime = clock \/ (disk'.itime = disk.itime /\ disk'.index = disk.index)
    BY <2>3
  <2> QED BY <2>3, <2>4, <2>10, <2>11, <2>12, <2>13, <2>14, StoreChanges
<1>4. CASE WriteHeader
  <2>1. Doing("header") /\ disk' = [disk EXCEPT !.itime = clock]
    BY <1>4 DEF WriteHeader
  <2>2. "header" \in Operations
    BY DEF Operations
  <2>3. disk' \in Disks /\ disk'.filled = disk.filled /\ disk'.exists = disk.exists
        /\ disk'.gtime = disk.gtime /\ disk'.global = disk.global /\ disk'.indexed = disk.indexed
        /\ disk'.itime = clock /\ disk'.index = disk.index
    BY <1>0, <2>1 DEF Disks
  <2>4. InOrder(todo', disk'.filled)
    BY <1>0, <1>1, <2>1, <2>2, <2>3, InOrderTail
  <2>10. /\ disk'.exists /\ todo' \in Seq(Steps) /\ batches' \in Nat /\ clock' \in Nat
         /\ clock <= clock'
    BY <1>0, <1>1, <2>1, <2>2, <2>3
  <2>11. \A i \in DOMAIN disk'.index : disk'.index[i] \in disk'.filled
    BY <1>0, <2>3
  <2>12. disk.filled \subseteq disk'.filled /\ (disk.indexed => disk'.indexed)
    BY <2>3
  <2>13. disk'.gtime = clock \/ (disk'.gtime = disk.gtime /\ disk'.global = disk.global)
    BY <2>3
  <2>14. disk'.itime = clock \/ (disk'.itime = disk.itime /\ disk'.index = disk.index)
    BY <2>3
  <2> QED BY <2>3, <2>4, <2>10, <2>11, <2>12, <2>13, <2>14, StoreChanges
<1>5. CASE OpenGlobal
  <2>1. Doing("open_global") /\ disk' = [disk EXCEPT !.global = Torn, !.gtime = clock] /\ Torn \in Int
    BY <1>5 DEF OpenGlobal, Torn
  <2>2. "open_global" \in Operations
    BY DEF Operations
  <2>3. disk' \in Disks /\ disk'.filled = disk.filled /\ disk'.exists = disk.exists
        /\ disk'.gtime = clock /\ disk'.indexed = disk.indexed
        /\ disk'.itime = disk.itime /\ disk'.index = disk.index
    BY <1>0, <2>1 DEF Disks
  <2>4. InOrder(todo', disk'.filled)
    BY <1>0, <1>1, <2>1, <2>2, <2>3, InOrderTail
  <2>10. /\ disk'.exists /\ todo' \in Seq(Steps) /\ batches' \in Nat /\ clock' \in Nat
         /\ clock <= clock'
    BY <1>0, <1>1, <2>1, <2>2, <2>3
  <2>11. \A i \in DOMAIN disk'.index : disk'.index[i] \in disk'.filled
    BY <1>0, <2>3
  <2>12. disk.filled \subseteq disk'.filled /\ (disk.indexed => disk'.indexed)
    BY <2>3
  <2>13. disk'.gtime = clock \/ (disk'.gtime = disk.gtime /\ disk'.global = disk.global)
    BY <2>3
  <2>14. disk'.itime = clock \/ (disk'.itime = disk.itime /\ disk'.index = disk.index)
    BY <2>3
  <2> QED BY <2>3, <2>4, <2>10, <2>11, <2>12, <2>13, <2>14, StoreChanges
<1>6. CASE FillGlobal
  <2>1. Doing("fill_global") /\ disk' = [disk EXCEPT !.global = Head(todo).id, !.gtime = clock]
    BY <1>6 DEF FillGlobal
  <2>2. "fill_global" \in Operations
    BY DEF Operations
  <2>5. Head(todo).id \in Int
    BY <1>1, <2>1, <2>2, StoreAssumption
  <2>3. disk' \in Disks /\ disk'.filled = disk.filled /\ disk'.exists = disk.exists
        /\ disk'.gtime = clock /\ disk'.indexed = disk.indexed
        /\ disk'.itime = disk.itime /\ disk'.index = disk.index
    BY <1>0, <2>1, <2>5 DEF Disks
  <2>4. InOrder(todo', disk'.filled)
    BY <1>0, <1>1, <2>1, <2>2, <2>3, InOrderTail
  <2>10. /\ disk'.exists /\ todo' \in Seq(Steps) /\ batches' \in Nat /\ clock' \in Nat
         /\ clock <= clock'
    BY <1>0, <1>1, <2>1, <2>2, <2>3
  <2>11. \A i \in DOMAIN disk'.index : disk'.index[i] \in disk'.filled
    BY <1>0, <2>3
  <2>12. disk.filled \subseteq disk'.filled /\ (disk.indexed => disk'.indexed)
    BY <2>3
  <2>13. disk'.gtime = clock \/ (disk'.gtime = disk.gtime /\ disk'.global = disk.global)
    BY <2>3
  <2>14. disk'.itime = clock \/ (disk'.itime = disk.itime /\ disk'.index = disk.index)
    BY <2>3
  <2> QED BY <2>3, <2>4, <2>10, <2>11, <2>12, <2>13, <2>14, StoreChanges
<1>7. CASE FillRecipe
  <2>1. Doing("fill_recipe") /\ disk' = [disk EXCEPT !.filled = @ \union {Head(todo).id}]
    BY <1>7 DEF FillRecipe
  <2>2. "fill_recipe" \in Operations
    BY DEF Operations
  <2>5. Head(todo).id \in Strategies
    BY <1>1, <2>1, <2>2
  <2>3. disk' \in Disks /\ disk'.filled = disk.filled \union {Head(todo).id}
        /\ disk'.exists = disk.exists
        /\ disk'.gtime = disk.gtime /\ disk'.global = disk.global /\ disk'.indexed = disk.indexed
        /\ disk'.itime = disk.itime /\ disk'.index = disk.index
    BY <1>0, <2>1, <2>5 DEF Disks
  <2>4. InOrder(todo', disk'.filled)
    BY ZenonT(40), <1>0, <1>1, <2>1, <2>2, <2>3, InOrderTail
  <2>10. /\ disk'.exists /\ todo' \in Seq(Steps) /\ batches' \in Nat /\ clock' \in Nat
         /\ clock <= clock'
    BY <1>0, <1>1, <2>1, <2>2, <2>3
  <2>11. \A i \in DOMAIN disk'.index : disk'.index[i] \in disk'.filled
    BY <1>0, <2>3
  <2>12. disk.filled \subseteq disk'.filled /\ (disk.indexed => disk'.indexed)
    BY <2>3
  <2>13. disk'.gtime = clock \/ (disk'.gtime = disk.gtime /\ disk'.global = disk.global)
    BY <2>3
  <2>14. disk'.itime = clock \/ (disk'.itime = disk.itime /\ disk'.index = disk.index)
    BY <2>3
  <2> QED BY <2>3, <2>4, <2>10, <2>11, <2>12, <2>13, <2>14, StoreChanges
<1>8. CASE AppendLine
  <2>1. Doing("append_line") /\ disk' = [disk EXCEPT !.index = Append(@, Head(todo).id), !.itime = clock]
    BY <1>8 DEF AppendLine
  <2>2. "append_line" \in Operations
    BY DEF Operations
  <2> DEFINE s == Head(todo).id
  <2>5. s \in Strategies /\ s \in disk.filled
    BY <1>1, <2>1, <2>2
  <2>6. disk.index \in Seq(Strategies)
    BY <1>0 DEF Disks
  <2> HIDE DEF s
  <2>7. Append(disk.index, s) \in Seq(Strategies)
        /\ \A i \in DOMAIN Append(disk.index, s) : Append(disk.index, s)[i] \in disk.filled
    BY <1>0, <2>5, <2>6
  <2> DEFINE longer == Append(disk.index, s)
  <2>8. disk' = [disk EXCEPT !.index = longer, !.itime = clock]
    BY <2>1 DEF s
  <2> HIDE DEF longer
  <2>3. disk' \in Disks /\ disk'.filled = disk.filled /\ disk'.exists = disk.exists
        /\ disk'.gtime = disk.gtime /\ disk'.global = disk.global /\ disk'.indexed = disk.indexed
        /\ disk'.itime = clock /\ disk'.index = longer
    BY <1>0, <2>7, <2>8 DEF Disks, longer
  <2>4. InOrder(todo', disk'.filled)
    BY <1>0, <1>1, <2>1, <2>2, <2>3, InOrderTail
  <2>10. /\ disk'.exists /\ todo' \in Seq(Steps) /\ batches' \in Nat /\ clock' \in Nat
         /\ clock <= clock'
    BY <1>0, <1>1, <2>1, <2>2, <2>3
  <2>11. \A i \in DOMAIN disk'.index : disk'.index[i] \in disk'.filled
    BY <2>3, <2>7 DEF longer
  <2>12. disk.filled \subseteq disk'.filled /\ (disk.indexed => disk'.indexed)
    BY <2>3
  <2>13. disk'.gtime = clock \/ (disk'.gtime = disk.gtime /\ disk'.global = disk.global)
    BY <2>3
  <2>14. disk'.itime = clock \/ (disk'.itime = disk.itime /\ disk'.index = disk.index)
    BY <2>3
  <2> QED BY <2>3, <2>4, <2>10, <2>11, <2>12, <2>13, <2>14, StoreChanges
<1>9. CASE WriterStops
  <2>1. todo' = <<>> /\ disk' = disk /\ batches' = batches /\ clock' = clock
    BY <1>9 DEF WriterStops
  <2>2. InOrder(todo', disk'.filled) /\ todo' \in Seq(Steps)
    BY <2>1 DEF InOrder
  <2> QED BY <1>0, <2>1, <2>2, StoreChanges
<1>10. CASE Tick
  <2>1. todo' = todo /\ disk' = disk /\ batches' = batches /\ clock' = clock + 1
    BY <1>10 DEF Tick
  <2> QED BY <1>0, <2>1, StoreChanges
<1> QED BY <1>2, <1>3, <1>4, <1>5, <1>6, <1>7, <1>8, <1>9, <1>10 DEF StoreStep

-----------------------------------------------------------------------------
(* The steps of the reader *)

\* The writer's part of the invariant concerns the reader only in what it tracks.
LEMMA WritingStays ==
  ASSUME ExchangeInv, UNCHANGED storeVars, load'.pc = "index" => disk.exists,
         (cache'.tracked \/ load'.pc = "lines") => (disk.exists /\ disk.indexed)
  PROVE  StoreTypes' /\ Writing'
BY DEF ExchangeInv, StoreTypes, Writing, InOrder, storeVars

\* The types of what the reader looks at.
LEMMA ReaderTypes ==
  ASSUME ExchangeInv
  PROVE  /\ disk \in Disks /\ cache \in Caches /\ load \in Loads /\ clock \in Nat
         /\ disk.global \in Int /\ disk.gtime \in Nat /\ disk.itime \in Nat
         /\ disk.index \in Seq(Strategies) /\ load.lines \in Seq(Strategies)
         /\ load.began \in Nat /\ load.checked \in Nat /\ load.pc \in Places
         /\ disk.gtime <= clock /\ disk.itime <= clock
         /\ load.began <= load.checked /\ load.checked <= clock
BY DEF ExchangeInv, StoreTypes, CacheTypes, Stamps, Disks, Loads

\* The mutator is constructed with an empty cache.
LEMMA ConstructKeeps ==
  ASSUME ExchangeInv, ConstructCache, UNCHANGED storeVars
  PROVE  ExchangeInv'
<1>1. cache' = EmptyCache /\ disk' = disk /\ clock' = clock
      /\ load' = [pc |-> "global", lines |-> <<>>, began |-> clock, checked |-> clock]
  BY DEF ConstructCache, storeVars
<1>2. /\ cache'.byName = <<>> /\ ~cache'.tracked /\ load'.pc = "global" /\ load'.lines = <<>>
      /\ load'.began = clock /\ load'.checked = clock
  BY <1>1 DEF EmptyCache
<1>3. StoreTypes' /\ Writing'
  BY <1>2, WritingStays
<1>4. CacheTypes'
  <2>1. <<>> \in Seq(Strategies) /\ clock \in Nat
    BY ReaderTypes
  <2>2. load' \in Loads
    BY <1>1, <2>1 DEF Loads, Places
  <2> QED BY <1>1, <2>2, EmptyIsCache DEF CacheTypes
<1>5. LinesWhole'
  BY <1>1, <1>2 DEF ExchangeInv, LinesWhole
<1>6. NamesMatch'
  BY <1>2 DEF NamesMatch, Matching
<1>7. Stamps'
  BY <1>1, <1>2, ReaderTypes DEF Stamps
<1>8. GlobalRead' /\ TimesKnown'
  BY <1>2 DEF GlobalRead, TimesKnown
<1>9. IndexRead'
  BY <1>1, <1>2 DEF IndexRead
<1> QED BY <1>3, <1>4, <1>5, <1>6, <1>7, <1>8, <1>9 DEF ExchangeInv

\* global.recipe is read as it is.
LEMMA LoadGlobalKeeps ==
  ASSUME ExchangeInv, LoadGlobal, UNCHANGED storeVars
  PROVE  ExchangeInv'
<1>1. disk' = disk /\ clock' = clock /\ load.pc = "global"
  BY DEF LoadGlobal, storeVars
<1>2. /\ cache \in Caches /\ load \in Loads /\ disk.global \in Int
      /\ Contents(cache) = Contents(EmptyCache) /\ cache.byName = <<>>
      /\ (~disk.exists => disk.global = Absent) /\ (cache.tracked => disk.exists /\ disk.indexed)
  <2>1. Contents(cache) = Contents(EmptyCache)
    BY <1>1 DEF ExchangeInv, IndexRead
  <2>2. cache.byName = EmptyCache.byName
    BY <2>1, SameContents
  <2> QED BY <2>1, <2>2, ReaderTypes DEF ExchangeInv, Writing, EmptyCache
<1>3. /\ load' \in Loads /\ load'.lines = load.lines /\ load'.began = load.began
      /\ load'.checked = load.checked
      /\ load'.pc = IF disk.exists THEN "index" ELSE "loaded"
  BY <1>2 DEF LoadGlobal, Loads, Places
<1>4. /\ cache' \in Caches /\ cache'.named = cache.named /\ cache'.byName = cache.byName
      /\ cache'.hashed = cache.hashed /\ cache'.tracked = cache.tracked
      /\ cache'.gtime = cache.gtime /\ cache'.itime = cache.itime
      /\ disk.global # Absent => cache'.global = disk.global
  <2>1. CASE ~disk.exists
    BY <1>2, <2>1 DEF LoadGlobal
  <2>2. CASE disk.exists /\ disk.global = Absent
    BY <1>2, <2>2 DEF LoadGlobal
  <2>3. CASE disk.exists /\ disk.global # Absent
    <3>1. cache' = [cache EXCEPT !.global = disk.global, !.loaded = TRUE]
      BY <2>3 DEF LoadGlobal
    <3> QED BY <1>2, <3>1 DEF Caches, CachesOf
  <2> QED BY <2>1, <2>2, <2>3
<1>5. StoreTypes' /\ Writing'
  BY <1>2, <1>3, <1>4, WritingStays
<1>6. CacheTypes'
  BY <1>3, <1>4 DEF CacheTypes
<1>7. LinesWhole'
  BY <1>1, <1>3 DEF ExchangeInv, LinesWhole
<1>8. NamesMatch'
  BY <1>2, <1>4 DEF NamesMatch, Matching
<1>9. Stamps'
  BY <1>1, <1>3 DEF ExchangeInv, Stamps
<1>10. GlobalRead'
  BY <1>1, <1>4 DEF GlobalRead
<1>11. IndexRead'
  <2>1. Contents(cache') = Contents(EmptyCache)
    BY <1>2, <1>4, SameContents
  <2>2. load'.pc = "loaded" => ~cache'.tracked
    BY <1>2, <1>3, <1>4
  <2>3. load'.pc \in {"index", "loaded"}
    BY <1>3
  <2> QED BY <2>1, <2>2, <2>3 DEF IndexRead
<1>12. TimesKnown'
  BY <1>2, <1>3, <1>4 DEF TimesKnown
<1> QED BY <1>5, <1>6, <1>7, <1>8, <1>9, <1>10, <1>11, <1>12 DEF ExchangeInv

\* The index is read as it is, and nothing of it is in the cache yet.
LEMMA OpenIndexKeeps ==
  ASSUME ExchangeInv, OpenIndex, UNCHANGED storeVars
  PROVE  ExchangeInv'
<1>1. disk' = disk /\ clock' = clock /\ load.pc = "index" /\ cache' = cache
  BY DEF OpenIndex, storeVars
<1>2. /\ cache \in Caches /\ load \in Loads /\ disk.index \in Seq(Strategies)
      /\ Contents(cache) = Contents(EmptyCache) /\ cache.byName = <<>>
      /\ disk.exists /\ (cache.tracked => disk.indexed)
  <2>1. Contents(cache) = Contents(EmptyCache)
    BY <1>1 DEF ExchangeInv, IndexRead
  <2>2. cache.byName = EmptyCache.byName
    BY <2>1, SameContents
  <2> QED BY <1>1, <2>1, <2>2, ReaderTypes DEF ExchangeInv, Writing, EmptyCache
<1>3. /\ load' \in Loads /\ load'.began = load.began /\ load'.checked = load.checked
      /\ load'.pc = IF disk.indexed THEN "lines" ELSE "loaded"
      /\ load'.lines = IF disk.indexed THEN disk.index ELSE load.lines
  <2>1. CASE disk.indexed
    <3>1. load' = [load EXCEPT !.pc = "lines", !.lines = disk.index]
      BY <2>1 DEF OpenIndex
    <3> QED BY <1>2, <2>1, <3>1 DEF Loads, Places
  <2>2. CASE ~disk.indexed
    <3>1. load' = [load EXCEPT !.pc = "loaded"]
      BY <2>2 DEF OpenIndex
    <3> QED BY <1>2, <2>2, <3>1 DEF Loads, Places
  <2> QED BY <2>1, <2>2
<1>4. StoreTypes' /\ Writing'
  BY <1>1, <1>2, <1>3, WritingStays
<1>5. CacheTypes'
  BY <1>1, <1>2, <1>3 DEF CacheTypes
<1>6. LinesWhole'
  BY <1>1, <1>3 DEF ExchangeInv, LinesWhole
<1>7. NamesMatch' /\ Stamps'
  BY <1>1, <1>3 DEF ExchangeInv, NamesMatch, Matching, Stamps
<1>8. GlobalRead'
  BY <1>1, <1>3 DEF ExchangeInv, GlobalRead
<1>9. IndexRead'
  <2>1. load'.pc = "loaded" => ~cache'.tracked
    BY <1>1, <1>2, <1>3
  <2>2. ASSUME load'.pc = "lines"
        PROVE  \E n \in 0 .. Len(disk.index) :
                 /\ load'.lines = SubSeq(disk.index, n + 1, Len(disk.index))
                 /\ Contents(cache) \in Read(disk.index, n)
    <3>1. load'.lines = disk.index
      BY <1>3, <2>2
    <3>2. disk.index = SubSeq(disk.index, 0 + 1, Len(disk.index)) /\ 0 \in 0 .. Len(disk.index)
      BY <1>2
    <3>3. Contents(cache) \in Read(disk.index, 0)
      BY <1>2, ReadStarts
    <3> QED BY <3>1, <3>2, <3>3
  <2>3. load'.pc \in {"lines", "loaded"}
    BY <1>3
  <2> QED BY <1>1, <1>2, <2>1, <2>2, <2>3 DEF IndexRead
<1>10. TimesKnown'
  BY <1>1, <1>2, <1>3 DEF TimesKnown
<1> QED BY <1>4, <1>5, <1>6, <1>7, <1>8, <1>9, <1>10 DEF ExchangeInv

\* A line is read with the complete recipe it names, and the lines that are left
\* are still the last ones of the index, if that was not written meanwhile.
LEMMA LoadLineKeeps ==
  ASSUME ExchangeInv, LoadLine, UNCHANGED storeVars
  PROVE  ExchangeInv'
<1> DEFINE s == Head(load.lines)
<1>1. /\ disk' = disk /\ clock' = clock /\ load.pc = "lines" /\ load.lines # <<>>
      /\ load' = [load EXCEPT !.lines = Tail(@)]
  BY DEF LoadLine, storeVars
<1>2. /\ cache \in Caches /\ load \in Loads /\ load.lines \in Seq(Strategies)
      /\ disk.index \in Seq(Strategies) /\ cache.byName = <<>>
      /\ disk.exists /\ disk.indexed
  BY <1>1, ReaderTypes DEF ExchangeInv, IndexRead, Writing
<1>3. /\ s \in Strategies /\ s \in disk.filled
      /\ Tail(load.lines) \in Seq(Strategies)
      /\ \A i \in DOMAIN Tail(load.lines) : Tail(load.lines)[i] \in disk.filled
  <2>1. \A i \in DOMAIN load.lines : load.lines[i] \in disk.filled
    BY DEF ExchangeInv, LinesWhole
  <2>2. s = load.lines[1] /\ 1 \in DOMAIN load.lines
    BY <1>1, <1>2
  <2>3. Tail(load.lines) \in Seq(Strategies)
        /\ \A i \in DOMAIN Tail(load.lines) :
              i + 1 \in DOMAIN load.lines /\ Tail(load.lines)[i] = load.lines[i + 1]
    BY <1>1, <1>2
  <2> QED BY <1>1, <1>2, <2>1, <2>2, <2>3
<1>4. RecipeOf(s) = Recipe(s) /\ Recipe(s) \in Recipes
  BY <1>3 DEF RecipeOf, Recipe, Recipes
<1>5. PICK d \in AddRecipe(cache, Recipe(s)) : cache' = [d EXCEPT !.loaded = TRUE]
  BY <1>4 DEF LoadLine
<1>6. /\ d \in Caches /\ d.byName = cache.byName /\ d.global = cache.global
      /\ d.tracked = cache.tracked /\ d.gtime = cache.gtime /\ d.itime = cache.itime
  BY <1>2, <1>4, AddKeeps
<1>7. /\ cache' \in Caches /\ cache'.named = d.named /\ cache'.byName = <<>>
      /\ cache'.hashed = d.hashed /\ cache'.global = cache.global
      /\ cache'.tracked = cache.tracked
  BY <1>2, <1>5, <1>6 DEF Caches, CachesOf
<1>8. /\ load' \in Loads /\ load'.pc = "lines" /\ load'.lines = Tail(load.lines)
      /\ load'.began = load.began /\ load'.checked = load.checked
  BY <1>1, <1>2, <1>3 DEF Loads
<1>9. StoreTypes' /\ Writing'
  BY <1>2, <1>8, WritingStays
<1>10. CacheTypes'
  BY <1>7, <1>8 DEF CacheTypes
<1>11. LinesWhole'
  BY <1>1, <1>3, <1>8 DEF ExchangeInv, LinesWhole
<1>12. NamesMatch'
  BY <1>7 DEF NamesMatch, Matching
<1>13. Stamps'
  BY <1>1, <1>8 DEF ExchangeInv, Stamps
<1>14. GlobalRead'
  BY <1>1, <1>7, <1>8 DEF ExchangeInv, GlobalRead
<1>15. IndexRead'
  <2>1. ASSUME disk.itime < load.began
        PROVE  \E n \in 0 .. Len(disk.index) :
                 /\ load'.lines = SubSeq(disk.index, n + 1, Len(disk.index))
                 /\ Contents(cache') \in Read(disk.index, n)
    <3>1. PICK n \in 0 .. Len(disk.index) :
            /\ load.lines = SubSeq(disk.index, n + 1, Len(disk.index))
            /\ Contents(cache) \in Read(disk.index, n)
      BY <1>1, <2>1 DEF ExchangeInv, IndexRead
    <3>2. Len(disk.index) \in Nat /\ n \in Nat /\ n # Len(disk.index)
      <4>1. Len(disk.index) \in Nat /\ n \in Nat
        BY <1>2
      <4>2. n = Len(disk.index) => load.lines = <<>>
        BY <1>2, <3>1, <4>1
      <4> QED BY <1>1, <4>1, <4>2
    <3> DEFINE m == n + 1
    <3>3. /\ m \in 1 .. Len(disk.index) /\ m \in 0 .. Len(disk.index) /\ m - 1 = n
          /\ load.lines = SubSeq(disk.index, m, Len(disk.index))
      BY <3>1, <3>2
    <3> HIDE DEF m
    <3>4. s = disk.index[m] /\ Tail(load.lines) = SubSeq(disk.index, m + 1, Len(disk.index))
      BY <1>2, <3>2, <3>3, HeadTailOfSubSeq
    <3>5. Contents(d) \in Read(disk.index, m)
      <4>1. Contents(cache) \in Read(disk.index, m - 1)
        BY <3>1, <3>3
      <4>2. d \in AddRecipe(cache, Recipe(disk.index[m]))
        BY <3>4
      <4> QED BY <1>2, <3>3, <4>1, <4>2, ReadGoesOn
    <3>6. Contents(cache') = Contents(d)
      BY <1>2, <1>6, <1>7, SameContents
    <3> QED BY <1>8, <3>3, <3>4, <3>5, <3>6
  <2> QED BY <1>1, <1>7, <1>8, <2>1 DEF IndexRead
<1>16. TimesKnown'
  BY <1>8 DEF TimesKnown
<1> QED BY <1>9, <1>10, <1>11, <1>12, <1>13, <1>14, <1>15, <1>16 DEF ExchangeInv

\* When all lines are read the cache holds what the index asks for, and its time
\* of global.recipe is that of the file.
LEMMA StatGlobalKeeps ==
  ASSUME ExchangeInv, StatGlobal, UNCHANGED storeVars
  PROVE  ExchangeInv'
<1> DEFINE d == FinishNamed(cache)
<1>1. /\ disk' = disk /\ clock' = clock /\ load.pc = "lines" /\ load.lines = <<>>
      /\ cache' = [d EXCEPT !.tracked = TRUE, !.gtime = disk.gtime]
      /\ load' = [load EXCEPT !.pc = "stat"]
  BY DEF StatGlobal, storeVars
<1>2. /\ cache \in Caches /\ load \in Loads /\ disk.gtime \in Nat
      /\ disk.index \in Seq(Strategies) /\ cache.byName = <<>>
      /\ disk.exists /\ disk.indexed
  BY <1>1, ReaderTypes DEF ExchangeInv, IndexRead, Writing
<1>3. d \in Caches /\ Matching(d) /\ d.global = cache.global
  BY <1>2, FinishKeeps
<1> HIDE DEF d
<1>4. /\ cache' \in Caches /\ cache'.named = d.named /\ cache'.byName = d.byName
      /\ cache'.hashed = d.hashed /\ cache'.global = cache.global
      /\ cache'.tracked /\ cache'.gtime = disk.gtime
  BY <1>1, <1>2, <1>3 DEF Caches, CachesOf
<1>5. /\ load' \in Loads /\ load'.pc = "stat" /\ load'.lines = load.lines
      /\ load'.began = load.began /\ load'.checked = load.checked
  BY <1>1, <1>2 DEF Loads, Places
<1>6. StoreTypes' /\ Writing'
  BY <1>2, <1>5, WritingStays
<1>7. CacheTypes'
  BY <1>4, <1>5 DEF CacheTypes
<1>8. LinesWhole'
  BY <1>1, <1>5 DEF ExchangeInv, LinesWhole
<1>9. NamesMatch'
  BY <1>3, <1>4 DEF NamesMatch, Matching
<1>10. Stamps'
  BY <1>1, <1>5 DEF ExchangeInv, Stamps
<1>11. GlobalRead'
  BY <1>1, <1>4, <1>5 DEF ExchangeInv, GlobalRead
<1>12. IndexRead'
  <2>1. ASSUME disk.itime < load.began
        PROVE  Contents(cache') \in Final(disk.index)
    <3>1. PICK n \in 0 .. Len(disk.index) :
            /\ load.lines = SubSeq(disk.index, n + 1, Len(disk.index))
            /\ Contents(cache) \in Read(disk.index, n)
      BY <1>1, <2>1 DEF ExchangeInv, IndexRead
    <3>2. n = Len(disk.index)
      <4>1. Len(disk.index) \in Nat /\ n \in Nat /\ n <= Len(disk.index)
        BY <1>2
      <4>2. n < Len(disk.index) => Len(SubSeq(disk.index, n + 1, Len(disk.index))) # 0
        BY <1>2, <4>1
      <4>3. Len(load.lines) = 0
        BY <1>1
      <4> QED BY <3>1, <4>1, <4>2, <4>3
    <3>3. Contents(d) \in Final(disk.index)
      BY <1>2, <3>1, <3>2, ReadEnds DEF d
    <3>4. Contents(cache') = Contents(d)
      BY <1>3, <1>4, SameContents
    <3> QED BY <3>3, <3>4
  <2> QED BY <1>1, <1>5, <2>1 DEF IndexRead
<1>13. TimesKnown'
  BY <1>1, <1>4, <1>5 DEF TimesKnown
<1> QED BY <1>6, <1>7, <1>8, <1>9, <1>10, <1>11, <1>12, <1>13 DEF ExchangeInv

\* The last step of a load remembers the time of the index.
LEMMA StatIndexKeeps ==
  ASSUME ExchangeInv, StatIndex, UNCHANGED storeVars
  PROVE  ExchangeInv'
<1>1. /\ disk' = disk /\ clock' = clock /\ load.pc = "stat"
      /\ cache' = [cache EXCEPT !.itime = disk.itime]
      /\ load' = [load EXCEPT !.pc = "loaded"]
  BY DEF StatIndex, storeVars
<1>2. /\ cache \in Caches /\ load \in Loads /\ disk.itime \in Nat
      /\ (cache.tracked => disk.exists /\ disk.indexed)
  BY ReaderTypes DEF ExchangeInv, Writing
<1>3. /\ cache' \in Caches /\ cache'.named = cache.named /\ cache'.byName = cache.byName
      /\ cache'.hashed = cache.hashed /\ cache'.global = cache.global
      /\ cache'.tracked = cache.tracked /\ cache'.gtime = cache.gtime
      /\ cache'.itime = disk.itime
  BY <1>1, <1>2 DEF Caches, CachesOf
<1>4. /\ load' \in Loads /\ load'.pc = "loaded" /\ load'.lines = load.lines
      /\ load'.began = load.began /\ load'.checked = load.checked
  BY <1>1, <1>2 DEF Loads, Places
<1>5. StoreTypes' /\ Writing'
  BY <1>2, <1>3, <1>4, WritingStays
<1>6. CacheTypes'
  BY <1>3, <1>4 DEF CacheTypes
<1>7. LinesWhole' /\ Stamps'
  BY <1>1, <1>4 DEF ExchangeInv, LinesWhole, Stamps
<1>8. NamesMatch'
  BY <1>3 DEF ExchangeInv, NamesMatch, Matching
<1>9. GlobalRead'
  BY <1>1, <1>3, <1>4 DEF ExchangeInv, GlobalRead
<1>10. IndexRead'
  <2>1. Contents(cache') = Contents(cache)
    BY <1>2, <1>3, SameContents
  <2> QED BY <1>1, <1>3, <1>4, <2>1 DEF ExchangeInv, IndexRead
<1>11. TimesKnown'
  BY <1>1, <1>3, <1>4 DEF ExchangeInv, TimesKnown
<1> QED BY <1>5, <1>6, <1>7, <1>8, <1>9, <1>10, <1>11 DEF ExchangeInv

\* One step of a load keeps the invariant of the exchange.
LEMMA LoadStepKeeps ==
  ASSUME ExchangeInv, LoadStep, UNCHANGED storeVars
  PROVE  ExchangeInv'
BY LoadGlobalKeeps, OpenIndexKeeps, LoadLineKeeps, StatGlobalKeeps, StatIndexKeeps DEF LoadStep

\* The call a load belongs to returns.
LEMMA ReturnKeeps ==
  ASSUME ExchangeInv, UNCHANGED storeVars, load.pc = "loaded", cache' = cache,
         load' = [load EXCEPT !.pc = "idle"]
  PROVE  ExchangeInv'
<1>1. disk' = disk /\ clock' = clock
  BY DEF storeVars
<1>2. cache \in Caches /\ load \in Loads /\ (cache.tracked => disk.exists /\ disk.indexed)
  BY ReaderTypes DEF ExchangeInv, Writing
<1>3. /\ load' \in Loads /\ load'.pc = "idle" /\ load'.lines = load.lines
      /\ load'.began = load.began /\ load'.checked = load.checked
  BY <1>2 DEF Loads, Places
<1>4. StoreTypes' /\ Writing'
  BY <1>2, <1>3, WritingStays
<1>5. CacheTypes'
  BY <1>2, <1>3 DEF CacheTypes
<1>6. LinesWhole' /\ Stamps' /\ NamesMatch'
  BY <1>1, <1>3 DEF ExchangeInv, LinesWhole, Stamps, NamesMatch, Matching
<1>7. GlobalRead'
  BY <1>1, <1>3 DEF ExchangeInv, GlobalRead
<1>8. IndexRead'
  BY <1>1, <1>3 DEF ExchangeInv, IndexRead
<1>9. TimesKnown'
  BY <1>1, <1>3 DEF ExchangeInv, TimesKnown
<1> QED BY <1>4, <1>5, <1>6, <1>7, <1>8, <1>9 DEF ExchangeInv

\* A stale cache is emptied before it is loaded again; one that is not has the
\* times of the files.
LEMMA ReloadKeeps ==
  ASSUME ExchangeInv, UNCHANGED storeVars, load.pc = "idle", ReloadIfStale
  PROVE  ExchangeInv'
<1>1. disk' = disk /\ clock' = clock
  BY DEF storeVars
<1>2. /\ cache \in Caches /\ load \in Loads /\ clock \in Nat
      /\ (cache.tracked => disk.exists /\ disk.indexed)
      /\ disk.gtime <= clock /\ disk.itime <= clock
      /\ load.began \in Nat /\ load.checked \in Nat
      /\ load.began <= load.checked /\ load.checked <= clock
  BY ReaderTypes DEF ExchangeInv, Writing
<1>3. CASE IsStale
  <2> DEFINE none == <<>>
  <2>1. none \in Seq(Recipes) /\ none \in Partial(Nat) /\ none \in Partial(Recipes)
        /\ none \in Seq(Strategies) /\ DOMAIN none = {}
        /\ EmptyCache.named = none /\ EmptyCache.byName = none /\ EmptyCache.hashed = none
    <3>1. EmptyCache.named = none /\ EmptyCache.byName = none /\ EmptyCache.hashed = none
      BY DEF EmptyCache
    <3>2. EmptyCache.byName \in Partial(Nat) /\ EmptyCache.hashed \in Partial(Recipes)
      BY EmptyIsCache DEF Caches, CachesOf, Partial
    <3> QED BY <3>1, <3>2
  <2>2. /\ cache' = [cache EXCEPT !.named = none, !.byName = none, !.hashed = none]
        /\ load' = [pc |-> "global", lines |-> none, began |-> clock, checked |-> clock]
    BY <1>3 DEF ReloadIfStale
  <2> HIDE DEF none
  <2>3. /\ cache' \in Caches /\ cache'.named = none /\ cache'.byName = none
        /\ cache'.hashed = none /\ cache'.tracked = cache.tracked
    BY <1>2, <2>1, <2>2 DEF Caches, CachesOf, Partial
  <2>4. /\ load' \in Loads /\ load'.pc = "global" /\ load'.lines = none
        /\ load'.began = clock /\ load'.checked = clock
    BY <1>2, <2>1, <2>2 DEF Loads, Places
  <2>5. StoreTypes' /\ Writing'
    BY <1>2, <2>3, <2>4, WritingStays
  <2>6. CacheTypes'
    BY <2>3, <2>4 DEF CacheTypes
  <2>7. LinesWhole'
    BY <1>1, <2>1, <2>4 DEF ExchangeInv, LinesWhole
  <2>8. NamesMatch'
    BY <2>1, <2>3 DEF NamesMatch, Matching
  <2>9. Stamps'
    BY <1>1, <1>2, <2>4 DEF Stamps
  <2>10. GlobalRead' /\ TimesKnown'
    BY <2>4 DEF GlobalRead, TimesKnown
  <2>11. IndexRead'
    <3>1. Contents(cache') = Contents(EmptyCache)
      BY <2>1, <2>3 DEF Contents
    <3> QED BY <2>4, <3>1 DEF IndexRead
  <2> QED BY <2>5, <2>6, <2>7, <2>8, <2>9, <2>10, <2>11 DEF ExchangeInv
<1>4. CASE ~IsStale
  <2>1. cache' = cache /\ load' = [load EXCEPT !.pc = "loaded", !.checked = clock]
    BY <1>4 DEF ReloadIfStale
  <2>2. cache.tracked => disk.gtime = cache.gtime /\ disk.itime = cache.itime
    BY <1>4 DEF IsStale
  <2>3. /\ load' \in Loads /\ load'.pc = "loaded" /\ load'.lines = load.lines
        /\ load'.began = load.began /\ load'.checked = clock
    BY <1>2, <2>1 DEF Loads, Places
  <2>4. StoreTypes' /\ Writing'
    BY <1>2, <2>1, <2>3, WritingStays
  <2>5. CacheTypes'
    BY <1>2, <2>1, <2>3 DEF CacheTypes
  <2>6. LinesWhole' /\ NamesMatch'
    BY <1>1, <2>1, <2>3 DEF ExchangeInv, LinesWhole, NamesMatch, Matching
  <2>7. Stamps'
    BY <1>1, <1>2, <2>3 DEF Stamps
  <2>8. GlobalRead'
    BY <1>1, <2>1, <2>3 DEF ExchangeInv, GlobalRead
  <2>9. IndexRead'
    BY <1>1, <2>1, <2>3 DEF ExchangeInv, IndexRead
  <2>10. TimesKnown'
    BY <1>1, <2>1, <2>2, <2>3 DEF TimesKnown
  <2> QED BY <2>4, <2>5, <2>6, <2>7, <2>8, <2>9, <2>10 DEF ExchangeInv
<1> QED BY <1>3, <1>4

\* With the process goes what it had read.
LEMMA EndKeeps ==
  ASSUME ExchangeInv, UNCHANGED storeVars, cache' = EmptyCache, load' = NoLoad
  PROVE  ExchangeInv'
<1>1. disk' = disk /\ clock' = clock /\ clock \in Nat
  BY ReaderTypes DEF storeVars
<1>2. /\ cache'.byName = <<>> /\ ~cache'.tracked /\ load'.pc = "down" /\ load'.lines = <<>>
      /\ load'.began = 0 /\ load'.checked = 0
  BY DEF EmptyCache, NoLoad
<1>3. StoreTypes' /\ Writing'
  BY <1>2, WritingStays
<1>4. CacheTypes'
  <2>1. <<>> \in Seq(Strategies)
    OBVIOUS
  <2>2. load' \in Loads
    BY <2>1 DEF Loads, Places, NoLoad
  <2> QED BY <2>2, EmptyIsCache DEF CacheTypes
<1>5. LinesWhole'
  BY <1>1, <1>2 DEF ExchangeInv, LinesWhole
<1>6. NamesMatch'
  BY <1>2 DEF NamesMatch, Matching
<1>7. Stamps'
  BY <1>1, <1>2 DEF ExchangeInv, Stamps
<1>8. GlobalRead' /\ TimesKnown' /\ IndexRead'
  BY <1>2 DEF GlobalRead, TimesKnown, IndexRead
<1> QED BY <1>3, <1>4, <1>5, <1>6, <1>7, <1>8 DEF ExchangeInv

\* AFL++'s other calls do not touch the exchange.
LEMMA ElsewhereKeeps ==
  ASSUME ExchangeInv, UNCHANGED <<storeVars, cacheVars>>
  PROVE  ExchangeInv'
<1>1. /\ disk' = disk /\ todo' = todo /\ batches' = batches /\ clock' = clock
      /\ cache' = cache /\ load' = load
  BY DEF storeVars, cacheVars
<1>2. StoreTypes' /\ CacheTypes' /\ Writing'
  BY <1>1 DEF ExchangeInv, StoreTypes, CacheTypes, Writing, InOrder
<1>3. LinesWhole' /\ NamesMatch' /\ Stamps' /\ GlobalRead' /\ IndexRead' /\ TimesKnown'
  BY <1>1 DEF ExchangeInv, LinesWhole, NamesMatch, Matching, Stamps, GlobalRead, IndexRead, TimesKnown
<1> QED BY <1>2, <1>3 DEF ExchangeInv

-----------------------------------------------------------------------------
(* What is counted *)

\* The parts of the counters' invariant a step that counts nothing keeps.
LEMMA NotCounting ==
  ASSUME CountInv, ring' = ring, lines' = lines, done' = done,
         mutator' = mutator, entry' = entry, pending' \in Entries \cup {NoEntry},
         load.pc = "down" <=> load'.pc = "down"
  PROVE  CountInv'
<1>1. MutatorTypes' /\ HashKept'
  BY DEF CountInv, MutatorTypes, HashKept
<1>2. Unflushed'
  BY DEF CountInv, Unflushed, LastOwn
<1> QED BY <1>1, <1>2 DEF CountInv

\* A flush repeats the counters as they stand.
LEMMA FlushAppends ==
  ASSUME MutatorTypes, FlushFromEnvironment
  PROVE  /\ lines' \in Seq(Counters) /\ Len(lines') = Len(lines) + 1
         /\ lines'[Len(lines')] = ring /\ Len(lines) \in Nat
<1>1. ring \in Counters /\ lines \in Seq(Counters) /\ lines' = Append(lines, ring)
  BY DEF MutatorTypes, FlushFromEnvironment
<1> QED BY <1>1

\* The process ends, with or without a last line.
LEMMA EndCounts ==
  ASSUME CountInv, ProcessEnds, done' = done, lines' \in Seq(Counters), Len(lines) <= Len(lines')
  PROVE  CountInv'
<1>1. /\ load'.pc = "down" /\ ring' = Zero /\ mutator' = NoSeed /\ entry' = NoEntry
      /\ pending' = NoEntry
  BY DEF ProcessEnds, NoLoad
<1>2. Zero \in Counters /\ NoSeed \in [seed : Entries \cup {NoEntry}, hash : Hashes, valid : BOOLEAN]
      /\ NoSeed.hash = NoEntry
  BY DEF Zero, Counters, NoSeed, Hashes
<1>3. MutatorTypes'
  BY <1>1, <1>2 DEF CountInv, MutatorTypes
<1>4. HashKept'
  BY <1>1, <1>2 DEF HashKept
<1>5. Unflushed'
  <2>1. done.before \in Nat /\ Len(lines) \in Nat /\ Len(lines') \in Nat /\ done.before <= Len(lines)
    BY DEF CountInv, MutatorTypes, Unflushed
  <2>2. done.before <= Len(lines')
    BY <2>1
  <2> QED BY <1>1, <2>2 DEF Unflushed
<1> QED BY <1>3, <1>4, <1>5 DEF CountInv

\* Every step keeps the counters' invariant.
LEMMA CountKeeps ==
  ASSUME MutatorInv, Next
  PROVE  CountInv'
<1>0. /\ CountInv /\ MutatorTypes /\ HashKept /\ Unflushed /\ load \in Loads
      /\ ring \in Counters /\ lines \in Seq(Counters) /\ Len(lines) \in Nat
      /\ done \in [ever : Nat, sinceGet : Nat, before : Nat]
      /\ mutator \in [seed : Entries \cup {NoEntry}, hash : Hashes, valid : BOOLEAN]
      /\ entry \in Entries \cup {NoEntry} /\ pending \in Entries \cup {NoEntry}
  BY DEF MutatorInv, CountInv, MutatorTypes, ExchangeInv, CacheTypes
<1>1. CASE Launch
  <2>1. /\ load.pc = "down" /\ load'.pc # "down" /\ ring' = ring /\ lines' = lines
        /\ mutator' = mutator /\ entry' = entry /\ pending' = pending
        /\ done' = [done EXCEPT !.sinceGet = 0, !.before = Len(lines)]
    BY <1>1 DEF Launch, ConstructCache, telemetryVars
  <2>2. /\ done' \in [ever : Nat, sinceGet : Nat, before : Nat]
        /\ done'.sinceGet = 0 /\ done'.before = Len(lines)
    BY <1>0, <2>1
  <2>3. MutatorTypes' /\ HashKept'
    BY <1>0, <2>1, <2>2 DEF MutatorTypes, HashKept
  <2>4. Unflushed'
    <3>1. ring = Zero /\ ring.count = 0
      BY <1>0, <2>1 DEF Unflushed, Zero
    <3>2. LastOwn' = 0
      BY <1>0, <2>1, <2>2 DEF LastOwn
    <3> QED BY <1>0, <2>1, <2>2, <3>1, <3>2 DEF Unflushed
  <2> QED BY <2>3, <2>4 DEF CountInv
<1>2. CASE LoadOne
  <2>1. /\ ring' = ring /\ lines' = lines /\ mutator' = mutator /\ entry' = entry
        /\ pending' = pending /\ done' = done
    BY <1>2 DEF LoadOne, telemetryVars, fuzzVars
  <2>2. load.pc # "down" /\ load'.pc # "down"
    <3>1. CASE LoadGlobal
      BY <1>0, <3>1 DEF LoadGlobal, Loads
    <3>2. CASE OpenIndex
      BY <1>0, <3>2 DEF OpenIndex, Loads
    <3>3. CASE LoadLine
      BY <1>0, <3>3 DEF LoadLine, Loads
    <3>4. CASE StatGlobal
      BY <1>0, <3>4 DEF StatGlobal, Loads
    <3>5. CASE StatIndex
      BY <1>0, <3>5 DEF StatIndex, Loads
    <3> QED BY <1>2, <3>1, <3>2, <3>3, <3>4, <3>5 DEF LoadOne, LoadStep
  <2> QED BY <1>0, <2>1, <2>2, NotCounting
<1>3. CASE InitReturns
  <2>1. /\ ring' = ring /\ lines' = lines /\ mutator' = mutator /\ entry' = entry
        /\ pending' = pending /\ done' = done /\ load.pc = "loaded"
        /\ load' = [load EXCEPT !.pc = "idle"]
    BY <1>3 DEF InitReturns, telemetryVars, fuzzVars
  <2>2. load'.pc = "idle"
    BY <1>0, <2>1 DEF Loads
  <2> QED BY <1>0, <2>1, <2>2, NotCounting
<1>4. ASSUME NEW e \in Entries, QueueGet(e) PROVE CountInv'
  <2>1. /\ ring' = ring /\ lines' = lines /\ mutator' = mutator /\ entry' = entry
        /\ pending' = e /\ done' = done /\ load.pc = "idle" /\ ReloadIfStale
    BY <1>4 DEF QueueGet, telemetryVars
  <2>2. load'.pc # "down"
    <3>1. CASE IsStale
      <4>1. load' = [pc |-> "global", lines |-> <<>>, began |-> clock, checked |-> clock]
        BY <2>1, <3>1 DEF ReloadIfStale
      <4> QED BY <4>1
    <3>2. CASE ~IsStale
      <4>1. load' = [load EXCEPT !.pc = "loaded", !.checked = clock]
        BY <2>1, <3>2 DEF ReloadIfStale
      <4> QED BY <1>0, <4>1 DEF Loads
    <3> QED BY <3>1, <3>2
  <2> QED BY <1>0, <1>4, <2>1, <2>2, NotCounting
<1>5. ASSUME NEW e \in Entries, QueueNewEntry(e) PROVE CountInv'
  <2>1. /\ ring' = ring /\ lines' = lines /\ entry' = entry
        /\ pending' = pending /\ done' = done /\ load' = load /\ mutator' = Fresh(e)
    BY <1>5 DEF QueueNewEntry, telemetryVars, cacheVars
  <2>2. mutator'.hash = NoEntry
        /\ mutator' \in [seed : Entries \cup {NoEntry}, hash : Hashes, valid : BOOLEAN]
    BY <1>5, <2>1 DEF Fresh, Hashes
  <2>3. MutatorTypes' /\ HashKept' /\ Unflushed'
    BY <1>0, <2>1, <2>2 DEF MutatorTypes, HashKept, Unflushed, LastOwn
  <2> QED BY <2>3 DEF CountInv
<1>6. CASE QueueGetReturns
  <2>1. /\ load.pc = "loaded" /\ load' = [load EXCEPT !.pc = "idle"] /\ FlushFromEnvironment
        /\ mutator' = Fresh(pending) /\ entry' = pending /\ pending' = NoEntry
        /\ done' = [done EXCEPT !.sinceGet = 0] /\ ring' = ring
    BY <1>6 DEF QueueGetReturns
  <2>2. /\ load'.pc = "idle" /\ done' \in [ever : Nat, sinceGet : Nat, before : Nat]
        /\ done'.sinceGet = 0 /\ done'.before = done.before
    BY <1>0, <2>1 DEF Loads
  <2>3. mutator'.hash = NoEntry
        /\ mutator' \in [seed : Entries \cup {NoEntry}, hash : Hashes, valid : BOOLEAN]
    BY <1>0, <2>1 DEF Fresh, Hashes
  <2>4. /\ lines' \in Seq(Counters) /\ Len(lines') = Len(lines) + 1
        /\ lines'[Len(lines')] = ring
    BY <1>0, <2>1, FlushAppends
  <2>5. MutatorTypes' /\ HashKept'
    BY <1>0, <2>1, <2>2, <2>3, <2>4 DEF MutatorTypes, HashKept
  <2>6. Unflushed'
    <3>1. done.before \in Nat /\ done.before <= Len(lines) /\ ring.count \in Nat
      BY <1>0 DEF Unflushed, Counters
    <3>2. done'.before < Len(lines') /\ done'.before <= Len(lines')
      BY <1>0, <2>2, <2>4, <3>1
    <3>3. LastOwn' = ring.count
      BY <2>4, <3>2 DEF LastOwn
    <3>4. ring'.count <= done'.sinceGet + LastOwn'
      BY <2>1, <2>2, <3>1, <3>3
    <3> QED BY <2>2, <3>2, <3>4 DEF Unflushed
  <2> QED BY <2>5, <2>6 DEF CountInv
<1>7. CASE Fuzz
  <2>1. /\ load' = load /\ load.pc = "idle" /\ lines' = lines /\ entry' = entry
        /\ pending' = pending /\ mutator' = Hashed /\ entry \in Entries
        /\ done' = [done EXCEPT !.ever = @ + 1, !.sinceGet = @ + 1]
    BY <1>0, <1>7 DEF Fuzz, cacheVars
  <2>2. PICK changed \in BOOLEAN :
          ring' = Counted(IsHit(cache, mutator.seed, HashUsed),
                          Records(changed) + FallbackRecords(changed))
    BY <1>7 DEF Fuzz
  <2>3. ring' \in Counters /\ ring'.count = ring.count + 1
    <3>1. Records(changed) + FallbackRecords(changed) = 1
      BY DEF Records, FallbackRecords
    <3> DEFINE hit == IsHit(cache, mutator.seed, HashUsed)
    <3>2. ring' = [hits |-> ring.hits + (IF hit THEN 1 ELSE 0),
                   misses |-> ring.misses + (IF hit THEN 0 ELSE 1), count |-> ring.count + 1]
      BY <2>2, <3>1 DEF Counted
    <3> HIDE DEF hit
    <3> QED BY <1>0, <3>2 DEF Counters
  <2>4. /\ done' \in [ever : Nat, sinceGet : Nat, before : Nat]
        /\ done'.sinceGet = done.sinceGet + 1 /\ done'.before = done.before
    <3>1. /\ done \in [ever : Nat, sinceGet : Nat, before : Nat]
          /\ done' = [done EXCEPT !.ever = done.ever + 1, !.sinceGet = done.sinceGet + 1]
      BY <1>0, <2>1
    <3>2. done.ever + 1 \in Nat /\ done.sinceGet + 1 \in Nat
      BY <3>1
    <3> QED BY <3>1, <3>2
  <2>5. /\ mutator' \in [seed : Entries \cup {NoEntry}, hash : Hashes, valid : BOOLEAN]
        /\ mutator'.hash \in {mutator.hash, HashOf[entry]}
    <3>1. CASE HasSeedSpecific /\ ~mutator.valid
      <4>1. mutator' = [mutator EXCEPT !.hash = HashOf[entry], !.valid = TRUE]
        BY <2>1, <3>1 DEF Hashed
      <4>2. HashOf[entry] \in Hashes
        BY <2>1 DEF Hashes
      <4> QED BY <1>0, <4>1, <4>2
    <3>2. CASE ~(HasSeedSpecific /\ ~mutator.valid)
      BY <1>0, <2>1, <3>2 DEF Hashed
    <3> QED BY <3>1, <3>2
  <2>6. MutatorTypes'
    BY <1>0, <2>1, <2>3, <2>4, <2>5 DEF MutatorTypes
  <2>7. HashKept'
    BY <1>0, <2>1, <2>5 DEF HashKept
  <2>8. Unflushed'
    <3>1. LastOwn' = LastOwn
      BY <2>1, <2>4 DEF LastOwn
    <3>2. ring.count <= done.sinceGet + LastOwn /\ done.before <= Len(lines)
      BY <1>0, <2>1 DEF Unflushed
    <3>3. ring.count \in Nat /\ done.sinceGet \in Nat /\ LastOwn \in Nat
      <4>1. done.before \in Nat
        BY <1>0
      <4>2. CASE done.before < Len(lines)
        <5>1. Len(lines) \in 1 .. Len(lines)
          BY <1>0, <4>1, <4>2
        <5>2. lines[Len(lines)] \in Counters
          BY <1>0, <5>1
        <5> QED BY <1>0, <4>2, <5>2 DEF LastOwn, Counters
      <4>3. CASE ~(done.before < Len(lines))
        BY <1>0, <4>3 DEF LastOwn, Counters
      <4> QED BY <4>2, <4>3
    <3>4. ring'.count <= done'.sinceGet + LastOwn'
      BY <2>3, <2>4, <3>1, <3>2, <3>3
    <3> QED BY <2>1, <2>4, <3>2, <3>4 DEF Unflushed
  <2> QED BY <2>6, <2>7, <2>8 DEF CountInv
<1>8. CASE Deinit
  <2>1. FlushFromEnvironment /\ ProcessEnds /\ done' = done
    BY <1>8 DEF Deinit
  <2>2. lines' \in Seq(Counters) /\ Len(lines) <= Len(lines')
    BY <1>0, <2>1, FlushAppends
  <2> QED BY <1>0, <2>1, <2>2, EndCounts
<1>9. CASE Killed
  <2>1. ProcessEnds /\ done' = done /\ lines' = lines
    BY <1>9 DEF Killed
  <2> QED BY <1>0, <2>1, EndCounts
<1>10. CASE Write
  <2>1. /\ ring' = ring /\ lines' = lines /\ mutator' = mutator /\ entry' = entry
        /\ pending' = pending /\ done' = done /\ load' = load
    BY <1>10 DEF Write, telemetryVars, fuzzVars, cacheVars
  <2> QED BY <1>0, <2>1, NotCounting
<1>11. CASE Sample
  <2>1. /\ ring' = ring /\ lines' = lines /\ mutator' = mutator /\ entry' = entry
        /\ pending' = pending /\ done' = done /\ load' = load
    BY <1>11 DEF Sample, Collect, fuzzVars, cacheVars
  <2> QED BY <1>0, <2>1, NotCounting
<1> QED BY <1>1, <1>2, <1>3, <1>4, <1>5, <1>6, <1>7, <1>8, <1>9, <1>10, <1>11 DEF Next

-----------------------------------------------------------------------------
(* The exchange as a whole *)

\* A campaign begins with the invariant.
LEMMA BeginsWell == ASSUME Init PROVE MutatorInv
<1>1. StoreInit /\ CacheInit /\ TelemetryInit /\ mutator = NoSeed /\ entry = NoEntry
      /\ pending = NoEntry /\ done = [ever |-> 0, sinceGet |-> 0, before |-> 0]
  BY DEF Init
<1>2. /\ disk \in Disks /\ todo = <<>> /\ batches = 0 /\ clock = 1
      /\ disk.gtime <= clock /\ disk.itime <= clock
      /\ ~disk.exists => disk.global = Absent
      /\ \A i \in DOMAIN disk.index : disk.index[i] \in disk.filled
  BY <1>1, StoresBegin
<1>3. /\ cache = EmptyCache /\ cache \in Caches /\ cache.byName = <<>> /\ ~cache.tracked
      /\ load = NoLoad /\ load.pc = "down" /\ load.lines = <<>>
      /\ load.began = 0 /\ load.checked = 0
  BY <1>1, EmptyIsCache DEF CacheInit, EmptyCache, NoLoad
<1>4. load \in Loads
  <2>1. <<>> \in Seq(Strategies)
    OBVIOUS
  <2> QED BY <1>3, <2>1 DEF NoLoad, Loads, Places
<1>5. StoreTypes /\ CacheTypes
  BY <1>2, <1>3, <1>4 DEF StoreTypes, CacheTypes
<1>6. Writing
  BY <1>2, <1>3 DEF Writing, InOrder
<1>7. LinesWhole /\ NamesMatch /\ Stamps
  BY <1>2, <1>3 DEF LinesWhole, NamesMatch, Matching, Stamps
<1>8. GlobalRead /\ IndexRead /\ TimesKnown
  BY <1>3 DEF GlobalRead, IndexRead, TimesKnown
<1>9. MutatorTypes
  <2>1. ring = Zero /\ lines = <<>> /\ Zero \in Counters
    BY <1>1 DEF TelemetryInit, Zero, Counters
  <2>2. mutator \in [seed : Entries \cup {NoEntry}, hash : Hashes, valid : BOOLEAN]
    BY <1>1 DEF NoSeed, Hashes
  <2> QED BY <1>1, <2>1, <2>2 DEF MutatorTypes
<1>10. HashKept /\ Unflushed
  <2>1. mutator.hash = NoEntry
    BY <1>1 DEF NoSeed
  <2>2. lines = <<>> /\ ring = Zero /\ done.before = 0
    BY <1>1 DEF TelemetryInit
  <2>3. done.before <= Len(lines)
    BY <2>2
  <2> QED BY <1>3, <2>1, <2>2, <2>3 DEF HashKept, Unflushed
<1> QED BY <1>5, <1>6, <1>7, <1>8, <1>9, <1>10 DEF MutatorInv, ExchangeInv, CountInv

\* Every step of the writer, the mutator and the collector keeps it.
LEMMA StepsKeep == ASSUME MutatorInv, [Next]_vars PROVE MutatorInv'
<1>1. ExchangeInv
  BY DEF MutatorInv
<1>2. ASSUME Next PROVE ExchangeInv'
  <2>1. CASE Launch
    BY <1>1, <2>1, ConstructKeeps DEF Launch
  <2>2. CASE LoadOne
    BY <1>1, <2>2, LoadStepKeeps DEF LoadOne
  <2>3. CASE InitReturns
    BY <1>1, <2>3, ReturnKeeps DEF InitReturns
  <2>4. ASSUME NEW e \in Entries, QueueGet(e) PROVE ExchangeInv'
    BY <1>1, <2>4, ReloadKeeps DEF QueueGet
  <2>5. ASSUME NEW e \in Entries, QueueNewEntry(e) PROVE ExchangeInv'
    BY <1>1, <2>5, ElsewhereKeeps DEF QueueNewEntry
  <2>6. CASE QueueGetReturns
    BY <1>1, <2>6, ReturnKeeps DEF QueueGetReturns
  <2>7. CASE Fuzz
    BY <1>1, <2>7, ElsewhereKeeps DEF Fuzz
  <2>8. CASE Deinit \/ Killed
    BY <1>1, <2>8, EndKeeps DEF Deinit, Killed, ProcessEnds
  <2>9. CASE Write
    BY <1>1, <2>9, WriterKeeps DEF Write, cacheVars
  <2>10. CASE Sample
    BY <1>1, <2>10, ElsewhereKeeps DEF Sample
  <2> QED BY <1>2, <2>1, <2>2, <2>3, <2>4, <2>5, <2>6, <2>7, <2>8, <2>9, <2>10 DEF Next
<1>3. CASE Next
  BY <1>2, <1>3, CountKeeps DEF MutatorInv
<1>4. CASE UNCHANGED vars
  <2>1. /\ disk' = disk /\ todo' = todo /\ batches' = batches /\ clock' = clock
        /\ cache' = cache /\ load' = load /\ ring' = ring /\ lines' = lines
        /\ mutator' = mutator /\ entry' = entry /\ pending' = pending /\ done' = done
    BY <1>4 DEF vars
  <2>2. ExchangeInv'
    BY <1>1, <2>1, ElsewhereKeeps DEF storeVars, cacheVars
  <2>3. pending \in Entries \cup {NoEntry} /\ CountInv
    BY DEF MutatorInv, CountInv, MutatorTypes
  <2> QED BY <2>1, <2>2, <2>3, NotCounting DEF MutatorInv
<1> QED BY <1>3, <1>4

\* Throughout an exchange of recipes, files are complete before lines name them,
\* the cache is a reading of files that were not written meanwhile, and its
\* index is of what it holds (recipe_store.cpp, recipe_cache.cpp).
THEOREM MutatorInvariant == Spec => []MutatorInv
<1>1. Init => MutatorInv
  BY BeginsWell
<1>2. MutatorInv /\ [Next]_vars => MutatorInv'
  BY StepsKeep
<1> QED BY <1>1, <1>2, PTL DEF Spec

\* No seed is ever mutated with the recipe a torn file parses to, however the
\* loads of the mutator and the writer's operations fall
\* (recipe_store.cpp:157-172).
THEOREM TornIsNeverSeen == Spec => []NoTornSeedRecipe
<1>1. ASSUME MutatorInv PROVE NoTornSeedRecipe
  <2>1. cache \in Caches
    BY <1>1, ReaderTypes DEF MutatorInv
  <2>2. \A r \in Recipes : r.id # Torn
    BY StoreAssumption DEF Recipes, Recipe
  <2>3. \A i \in DOMAIN cache.named : cache.named[i] \in Recipes
    BY <2>1 DEF Caches, CachesOf
  <2>4. \A k \in DOMAIN cache.hashed : cache.hashed[k] \in Recipes
    BY <2>1 DEF Caches, CachesOf, Partial, PartialOf
  <2> QED BY <2>2, <2>3, <2>4 DEF NoTornSeedRecipe
<1> QED BY <1>1, MutatorInvariant, PTL

\* The recipe lookup finds for a name was written for that name
\* (recipe_cache.cpp:345-424).
THEOREM NamesAreTheirs == Spec => []NameFindsItsRecipe
<1>1. MutatorInv => NameFindsItsRecipe
  BY DEF MutatorInv, ExchangeInv, NamesMatch, Matching, NameFindsItsRecipe
<1> QED BY <1>1, MutatorInvariant, PTL

\* The hash a recipe is looked up by is that of the bytes being mutated
\* (mutator_core.cpp:294-303).
THEOREM HashesAreOfTheBuffer == Spec => []HashIsOfTheBuffer
<1>1. ASSUME MutatorInv PROVE HashIsOfTheBuffer
  <2> SUFFICES ASSUME entry # NoEntry PROVE HashUsed = HashOf[entry]
    BY DEF HashIsOfTheBuffer
  <2>1. HashKept /\ mutator \in [seed : Entries \cup {NoEntry}, hash : Hashes, valid : BOOLEAN]
    BY <1>1 DEF MutatorInv, CountInv, MutatorTypes
  <2>2. CASE HasSeedSpecific /\ ~mutator.valid
    <3>1. Hashed.hash = HashOf[entry]
      BY <2>1, <2>2 DEF Hashed
    <3> QED BY <3>1 DEF HashUsed
  <2>3. CASE ~(HasSeedSpecific /\ ~mutator.valid)
    <3>1. Hashed = mutator
      BY <2>3 DEF Hashed
    <3> QED BY <2>1, <3>1 DEF HashUsed, HashKept
  <2> QED BY <2>2, <2>3
<1> QED BY <1>1, MutatorInvariant, PTL

\* A SIGKILL loses no more than was counted since the last queue_get
\* (mutator_core.cpp:366-370).
THEOREM KillsLoseOneEntry == Spec => []KillLosesOneEntry
<1>1. ASSUME MutatorInv PROVE KillLosesOneEntry
  <2> SUFFICES ASSUME load.pc = "idle" PROVE KillLosesOneEntry
    BY DEF KillLosesOneEntry
  <2> DEFINE own == SubSeq(lines, done.before + 1, Len(lines))
  <2>1. /\ lines \in Seq(Counters) /\ done.before \in Nat /\ done.sinceGet \in Nat
        /\ ring.count \in Nat /\ Len(lines) \in Nat
    BY <1>1 DEF MutatorInv, CountInv, MutatorTypes, Counters
  <2>2. ring.count <= done.sinceGet + LastOwn /\ done.before <= Len(lines)
    BY <1>1 DEF MutatorInv, CountInv, Unflushed
  <2>3. CASE done.before < Len(lines)
    <3>1. Len(own) = Len(lines) - done.before /\ Len(own) \in Nat /\ Len(own) >= 1
      BY <2>1, <2>3
    <3>2. own[Len(own)] = lines[Len(lines)]
      <4>1. \A i \in 1 .. Len(own) : own[i] = lines[done.before + i]
        BY SMTT(30), <2>1, <2>3
      <4> HIDE DEF own
      <4> QED BY SMTT(30), <2>1, <3>1, <4>1
    <3>3. own # <<>>
      <4> HIDE DEF own
      <4> QED BY <3>1
    <3>4. LastOwn = lines[Len(lines)].count /\ lines[Len(lines)] \in Counters
      BY <2>1, <2>3 DEF LastOwn
    <3>5. (IF own = <<>> THEN 0 ELSE Last(own).count) = LastOwn /\ LastOwn \in Nat
      <4> HIDE DEF own
      <4> QED BY <3>2, <3>3, <3>4 DEF Last, Counters
    <3>6. ring.count - LastOwn <= done.sinceGet
      BY <2>1, <2>2, <3>5
    <3> QED BY <3>5, <3>6 DEF KillLosesOneEntry
  <2>4. CASE ~(done.before < Len(lines))
    <3>1. own = <<>> /\ LastOwn = 0
      BY <2>1, <2>4 DEF LastOwn
    <3>2. (IF own = <<>> THEN 0 ELSE Last(own).count) = 0
      <4> HIDE DEF own
      <4> QED BY <3>1
    <3>3. ring.count - 0 <= done.sinceGet
      BY <2>1, <2>2, <3>1
    <3> QED BY <3>2, <3>3 DEF KillLosesOneEntry
  <2> QED BY <2>3, <2>4
<1> QED BY <1>1, MutatorInvariant, PTL

\* Of two numbers the greater.
LEMMA MaxOfTwo ==
  ASSUME NEW a \in Nat, NEW b \in Nat, NEW c \in Nat, Max({a, b}) < c
  PROVE  a < c /\ b < c
<1> DEFINE S == {a, b}
<1>1. \E x \in S : \A y \in S : x >= y
  BY SMT
<1>2. Max(S) \in S /\ \A y \in S : Max(S) >= y
  <2> HIDE DEF S
  <2> QED BY <1>1 DEF Max
<1>3. Max(S) \in Nat /\ Max(S) >= a /\ Max(S) >= b
  BY <1>2
<1> HIDE DEF S
<1>4. Max(S) < c
  BY DEF S
<1> QED BY <1>3, <1>4

\* A mutator whose load was not raced, and who has looked at the store since it
\* was last written, has what the store holds (recipe_cache.cpp:301-342).
THEOREM CacheInSync == Spec => []InSync
<1>1. ASSUME MutatorInv PROVE InSync
  <2> SUFFICES ASSUME load.pc = "idle", cache.tracked,
                      Max({cache.gtime, cache.itime}) < load.began,
                      Max({disk.gtime, disk.itime}) < load.checked
               PROVE  /\ disk.global # Absent => cache.global = disk.global
                      /\ \E c \in LoadedFrom([i \in DOMAIN disk.index |-> RecipeOf(disk.index[i])],
                                             EmptyCache) : Contents(c) = Contents(cache)
    BY DEF InSync
  <2>1. ExchangeInv /\ cache \in Caches /\ load \in Loads /\ disk \in Disks
    BY <1>1, ReaderTypes DEF MutatorInv
  <2>2. /\ cache.gtime \in Nat /\ cache.itime \in Nat /\ disk.gtime \in Nat /\ disk.itime \in Nat
        /\ load.began \in Nat /\ load.checked \in Nat
    BY <2>1 DEF Caches, CachesOf, Disks, Loads
  <2>3. cache.gtime < load.began /\ cache.itime < load.began
    BY <2>2, MaxOfTwo
  <2>4. disk.gtime < load.checked /\ disk.itime < load.checked
    BY <2>2, MaxOfTwo
  <2>5. cache.gtime = disk.gtime /\ cache.itime = disk.itime
    BY <2>1, <2>4 DEF ExchangeInv, TimesKnown
  <2>6. disk.global # Absent => cache.global = disk.global
    BY <2>1, <2>3, <2>5 DEF ExchangeInv, GlobalRead
  <2>7. Contents(cache) \in Final(disk.index)
    BY <2>1, <2>3, <2>5 DEF ExchangeInv, IndexRead
  <2>8. [i \in DOMAIN disk.index |-> RecipeOf(disk.index[i])] = OfIndex(disk.index)
    <3>1. \A i \in DOMAIN disk.index : disk.index[i] \in disk.filled
      BY <2>1 DEF ExchangeInv, LinesWhole
    <3>2. \A i \in DOMAIN disk.index : RecipeOf(disk.index[i]) = Recipe(disk.index[i])
      BY <3>1 DEF RecipeOf, Recipe
    <3> QED BY <3>2 DEF OfIndex
  <2> QED BY <2>6, <2>7, <2>8 DEF Final, OutcomesFrom
<1> QED BY <1>1, MutatorInvariant, PTL

-----------------------------------------------------------------------------
(* The refinement of RecipeExchange *)

\* What is left of the writes of a batch after the first k operations, and the
\* index that these have left.
WrittenOf(batch, k) ==
    /\ todo \in Seq(Steps) /\ Len(todo) = Len(WritesOfBatch(batch)) - k
    /\ \A i \in 1 .. Len(todo) : todo[i] = WritesOfBatch(batch)[k + i]
    /\ k # 0 =>
         \E n \in 0 .. Len(batch) :
             /\ k = 2 * n + 2 \/ k = 2 * n + 3 \/ (k = 1 /\ n = 0)
             /\ disk.index = IndexUpTo(batch)[n]

\* The index is the beginning of one of a batch, and grows to be all of it.
Batching ==
    /\ disk.index \in Drafts
    /\ todo # <<>> => \E batch \in Batches : \E k \in Nat : WrittenOf(batch, k)

\* Two operations for every recipe of a batch follow the two that empty the index.
LEMMA WritesPlaced ==
  ASSUME NEW batch \in Seq(Strategies)
  PROVE  LET W == WritesOfBatch(batch)
         IN  /\ W \in Seq(Steps) /\ Len(W) = 2 * Len(batch) + 2
             /\ W[1] = Operation("reset_index", Torn) /\ W[2] = Operation("header", Torn)
             /\ \A n \in 1 .. Len(batch) :
                   W[2 * n + 1] = WritesOf(batch[n])[1] /\ W[2 * n + 2] = WritesOf(batch[n])[2]
<1> DEFINE U == WritesUpTo(batch)
           L == Len(batch)
           P(i) == /\ Len(U[i]) = 2 * i + 2
                   /\ U[i][1] = Operation("reset_index", Torn)
                   /\ U[i][2] = Operation("header", Torn)
                   /\ \A n \in 1 .. i : /\ U[i][2 * n + 1] = WritesOf(batch[n])[1]
                                        /\ U[i][2 * n + 2] = WritesOf(batch[n])[2]
           S == {i \in 0 .. L : P(i)}
<1>1. L \in Nat /\ \A i \in 1 .. L : batch[i] \in Strategies
  OBVIOUS
<1>2. /\ U[0] = <<Operation("reset_index", Torn), Operation("header", Torn)>>
      /\ \A i \in 1 .. L : U[i] = U[i - 1] \o WritesOf(batch[i])
      /\ \A i \in 0 .. L : U[i] \in Seq(Steps)
  BY WritesAre
<1>3. \A s \in Strategies : WritesOf(s) \in Seq(Steps) /\ Len(WritesOf(s)) = 2
  <2> SUFFICES ASSUME NEW s \in Strategies PROVE WritesOf(s) \in Seq(Steps) /\ Len(WritesOf(s)) = 2
    OBVIOUS
  <2>1. Len(WritesOf(s)) = 2
    BY DEF WritesOf
  <2> QED BY <2>1, WritesOfOne
<1> HIDE DEF U, L
<1>4. 0 \in S
  <2>1. Len(U[0]) = 2 /\ U[0][1] = Operation("reset_index", Torn) /\ U[0][2] = Operation("header", Torn)
    BY <1>2
  <2> QED BY <1>1, <2>1
<1>5. ASSUME NEW m \in 1 .. L, m - 1 \in S PROVE m \in S
  <2> DEFINE p == U[m - 1]
             w == WritesOf(batch[m])
  <2>1. m \in Nat /\ m - 1 \in Nat /\ m - 1 \in 0 .. L /\ m \in 0 .. L
    BY <1>1
  <2>2. p \in Seq(Steps) /\ w \in Seq(Steps) /\ Len(w) = 2 /\ U[m] = p \o w
    BY <1>1, <1>2, <1>3, <2>1
  <2>3. Len(p) = 2 * (m - 1) + 2
    BY <1>5
  <2> HIDE DEF p, w
  <2>4. /\ Len(U[m]) = 2 * m + 2
        /\ \A j \in 1 .. 2 * m : U[m][j] = p[j]
        /\ U[m][2 * m + 1] = w[1] /\ U[m][2 * m + 2] = w[2]
    <3> DEFINE l == Len(p)
    <3>1. l = 2 * m /\ l \in Nat
      BY <2>1, <2>3
    <3> HIDE DEF l
    <3>2. /\ Len(p \o w) = l + 2
          /\ \A j \in 1 .. l : (p \o w)[j] = p[j]
          /\ (p \o w)[l + 1] = w[1] /\ (p \o w)[l + 2] = w[2]
      <4>1. /\ Len(p \o w) = l + 2
            /\ \A i \in 1 .. l + 2 : (p \o w)[i] = IF i <= l THEN p[i] ELSE w[i - l]
        <5>1. /\ Len(p \o w) = Len(p) + Len(w)
              /\ \A i \in 1 .. Len(p) + Len(w) :
                    (p \o w)[i] = IF i <= Len(p) THEN p[i] ELSE w[i - Len(p)]
          BY <2>2, ConcatProperties
        <5> QED BY <2>2, <5>1 DEF l
      <4>2. /\ l + 1 \in 1 .. l + 2 /\ ~ (l + 1 <= l) /\ (l + 1) - l = 1
            /\ l + 2 \in 1 .. l + 2 /\ ~ (l + 2 <= l) /\ (l + 2) - l = 2
            /\ \A j \in 1 .. l : j \in 1 .. l + 2 /\ j <= l
        BY <3>1
      <4> QED BY <4>1, <4>2
    <3> QED BY <2>1, <2>2, <3>1, <3>2
  <2>5. U[m][1] = p[1] /\ U[m][2] = p[2]
    BY <2>1, <2>4
  <2>6. ASSUME NEW n \in 1 .. m
        PROVE  U[m][2 * n + 1] = WritesOf(batch[n])[1] /\ U[m][2 * n + 2] = WritesOf(batch[n])[2]
    <3>1. CASE n = m
      BY <2>4, <3>1 DEF w
    <3>2. CASE n # m
      <4>1. n \in 1 .. m - 1 /\ 2 * n + 1 \in 1 .. 2 * m /\ 2 * n + 2 \in 1 .. 2 * m
        BY <2>1, <3>2
      <4> QED BY <1>5, <2>4, <4>1 DEF p
    <3> QED BY <3>1, <3>2
  <2>7. p[1] = Operation("reset_index", Torn) /\ p[2] = Operation("header", Torn)
    BY <1>5 DEF p
  <2> QED BY <2>1, <2>4, <2>5, <2>6, <2>7
<1>6. L \in S
  <2>1. \A m \in 0 .. L : m \in S
    <3> HIDE DEF S
    <3> QED BY <1>1, <1>4, <1>5, UpTo
  <2> QED BY <1>1, <2>1
<1>7. WritesOfBatch(batch) = U[L] /\ L \in 0 .. L
  BY <1>1 DEF WritesOfBatch, U, L
<1> QED BY <1>2, <1>6, <1>7 DEF L

\* What an operation does to the index.
IndexAfter(step, index) ==
    IF step.op = "reset_index" THEN <<>>
    ELSE IF step.op = "append_line" THEN Append(index, step.id)
    ELSE index

\* The writer begins a batch, goes on with the next operation, stops, or waits.
LEMMA StoreMoves ==
  ASSUME disk \in Disks, StoreStep
  PROVE  \/ todo' = todo /\ disk'.index = disk.index
         \/ \E batch \in Batches : todo' = WritesOfBatch(batch) /\ disk'.index = disk.index
         \/ todo' = <<>> /\ disk'.index = disk.index
         \/ /\ todo # <<>> /\ todo' = Tail(todo)
            /\ disk'.index = IndexAfter(Head(todo), disk.index)
<1> DEFINE Goal == \/ todo' = todo /\ disk'.index = disk.index
                   \/ \E batch \in Batches : todo' = WritesOfBatch(batch) /\ disk'.index = disk.index
                   \/ todo' = <<>> /\ disk'.index = disk.index
                   \/ /\ todo # <<>> /\ todo' = Tail(todo)
                      /\ disk'.index = IndexAfter(Head(todo), disk.index)
<1>1. ASSUME NEW batch \in Batches, BeginBatch(batch) PROVE Goal
  <2>1. todo' = WritesOfBatch(batch) /\ disk'.index = disk.index
    BY <1>1 DEF BeginBatch, Disks
  <2> QED BY <2>1
<1>2. CASE ResetIndex
  <2>1. disk'.index = <<>> /\ todo # <<>> /\ Head(todo).op = "reset_index" /\ todo' = Tail(todo)
    BY <1>2 DEF ResetIndex, Doing, Disks
  <2> QED BY <2>1 DEF IndexAfter
<1>3. CASE AppendLine
  <2>1. /\ disk'.index = Append(disk.index, Head(todo).id)
        /\ todo # <<>> /\ Head(todo).op = "append_line" /\ todo' = Tail(todo)
    BY <1>3 DEF AppendLine, Doing, Disks
  <2> QED BY <2>1 DEF IndexAfter
<1>4. CASE WriteHeader \/ OpenGlobal \/ FillGlobal \/ FillRecipe
  <2>1. disk'.index = disk.index
    BY <1>4 DEF WriteHeader, OpenGlobal, FillGlobal, FillRecipe, Disks
  <2>2. /\ todo # <<>> /\ todo' = Tail(todo)
        /\ Head(todo).op \in {"header", "open_global", "fill_global", "fill_recipe"}
    BY <1>4 DEF WriteHeader, OpenGlobal, FillGlobal, FillRecipe, Doing
  <2> QED BY <2>1, <2>2 DEF IndexAfter
<1>5. CASE WriterStops
  BY <1>5 DEF WriterStops
<1>6. CASE Tick
  BY <1>6 DEF Tick
<1> QED BY <1>1, <1>2, <1>3, <1>4, <1>5, <1>6 DEF StoreStep

\* Of the two operations of a recipe only the second touches the index, and only
\* if the recipe is for a seed.
LEMMA OperationsIndex ==
  ASSUME NEW s \in Strategies, NEW index
  PROVE  /\ IndexAfter(WritesOf(s)[1], index) = index
         /\ IndexAfter(WritesOf(s)[2], index) = IF IsSeedRecipe(s) THEN Append(index, s) ELSE index
<1>1. CASE Mode[s] = "global"
  <2>1. WritesOf(s)[1].op = "open_global" /\ WritesOf(s)[2].op = "fill_global"
    BY <1>1 DEF WritesOf, Operation
  <2> QED BY <1>1, <2>1 DEF IndexAfter, IsSeedRecipe
<1>2. CASE Mode[s] # "global"
  <2>1. /\ WritesOf(s)[1].op = "fill_recipe" /\ WritesOf(s)[2].op = "append_line"
        /\ WritesOf(s)[2].id = s
    BY <1>2 DEF WritesOf, Operation
  <2> QED BY <1>2, <2>1 DEF IndexAfter, IsSeedRecipe
<1> QED BY <1>1, <1>2

\* The next operation of a batch leaves the index with the recipes so far.
LEMMA NextWritten ==
  ASSUME NEW batch \in Batches, NEW k \in Nat, WrittenOf(batch, k),
         todo # <<>>, todo' = Tail(todo), disk'.index = IndexAfter(Head(todo), disk.index)
  PROVE  /\ WrittenOf(batch, k + 1)'
         /\ \/ disk'.index = disk.index \/ disk'.index = <<>>
            \/ \E line \in Strategies : disk'.index = Append(disk.index, line)
<1> DEFINE W == WritesOfBatch(batch)
           L == Len(batch)
           I == IndexUpTo(batch)
<1>1. batch \in Seq(Strategies)
  BY StoreAssumption
<1>2. L \in Nat /\ \A n \in 1 .. L : batch[n] \in Strategies
  BY <1>1
<1>3. /\ Len(W) = 2 * L + 2
      /\ W[1] = Operation("reset_index", Torn) /\ W[2] = Operation("header", Torn)
      /\ \A n \in 1 .. L : W[2 * n + 1] = WritesOf(batch[n])[1] /\ W[2 * n + 2] = WritesOf(batch[n])[2]
  BY <1>1, WritesPlaced
<1>4. /\ I[0] = <<>>
      /\ \A n \in 1 .. L : I[n] = IF IsSeedRecipe(batch[n]) THEN Append(I[n - 1], batch[n]) ELSE I[n - 1]
  BY <1>1, IndexIs
<1>5. /\ todo \in Seq(Steps) /\ Len(todo) = Len(W) - k
      /\ \A i \in 1 .. Len(todo) : todo[i] = W[k + i]
  BY DEF WrittenOf
<1> HIDE DEF W, I, L
<1>6. /\ todo' \in Seq(Steps) /\ Len(todo') = Len(W) - (k + 1)
      /\ \A i \in 1 .. Len(todo') : todo'[i] = W[(k + 1) + i]
      /\ Head(todo) = W[k + 1] /\ k + 1 <= 2 * L + 2
  <2>1. /\ Tail(todo) \in Seq(Steps) /\ Len(todo) \in Nat /\ Len(todo) >= 1
        /\ Len(Tail(todo)) = Len(todo) - 1 /\ Head(todo) = todo[1]
        /\ \A i \in 1 .. Len(Tail(todo)) : Tail(todo)[i] = todo[i + 1]
    BY <1>5
  <2>2. \A i \in 1 .. Len(Tail(todo)) : i + 1 \in 1 .. Len(todo) /\ k + (i + 1) = (k + 1) + i
    BY <2>1
  <2>3. 1 \in 1 .. Len(todo)
    BY <2>1
  <2>4. \A i \in 1 .. Len(Tail(todo)) : Tail(todo)[i] = W[(k + 1) + i]
    BY <1>5, <2>1, <2>2
  <2>5. Head(todo) = W[k + 1]
    BY <1>5, <2>1, <2>3
  <2>6. Len(todo') = Len(W) - (k + 1) /\ k + 1 <= 2 * L + 2
    BY <1>2, <1>3, <1>5, <2>1
  <2> QED BY <2>1, <2>4, <2>5, <2>6
<1>7. ASSUME NEW n \in 0 .. L, disk'.index = I[n],
             k + 1 = 2 * n + 2 \/ k + 1 = 2 * n + 3 \/ (k + 1 = 1 /\ n = 0)
      PROVE  WrittenOf(batch, k + 1)'
  BY <1>6, <1>7 DEF WrittenOf, W, I, L
<1>8. CASE k = 0
  <2>1. Head(todo).op = "reset_index"
    BY <1>3, <1>6, <1>8 DEF Operation
  <2>2. disk'.index = I[0] /\ disk'.index = <<>> /\ 0 \in 0 .. L
    BY <1>2, <1>4, <2>1 DEF IndexAfter
  <2>3. k + 1 = 1 /\ 0 = 0
    BY <1>8
  <2>4. WrittenOf(batch, k + 1)'
    BY <1>7, <2>2, <2>3
  <2> QED BY <2>2, <2>4
<1>9. CASE k # 0
  <2>1. PICK n \in 0 .. L :
          /\ k = 2 * n + 2 \/ k = 2 * n + 3 \/ (k = 1 /\ n = 0)
          /\ disk.index = I[n]
    BY <1>9 DEF WrittenOf, I, L
  <2>2. CASE k = 1 /\ n = 0
    <3>1. Head(todo).op = "header"
      BY <1>3, <1>6, <2>2 DEF Operation
    <3>2. disk'.index = disk.index
      BY <3>1 DEF IndexAfter
    <3> QED BY <1>7, <2>1, <2>2, <3>2
  <2>3. CASE k = 2 * n + 2
    <3>1. n + 1 \in 1 .. L /\ k + 1 = 2 * (n + 1) + 1
      BY <1>2, <1>6, <2>1, <2>3
    <3>2. Head(todo) = WritesOf(batch[n + 1])[1] /\ batch[n + 1] \in Strategies
      BY <1>2, <1>3, <1>6, <3>1
    <3>3. disk'.index = disk.index
      BY <3>2, OperationsIndex
    <3>4. k + 1 = 2 * n + 3
      BY <2>1, <2>3
    <3> QED BY <1>7, <2>1, <3>3, <3>4
  <2>4. CASE k = 2 * n + 3
    <3>1. n + 1 \in 1 .. L /\ n + 1 \in 0 .. L /\ k + 1 = 2 * (n + 1) + 2 /\ (n + 1) - 1 = n
      BY <1>2, <1>6, <2>1, <2>4
    <3>2. Head(todo) = WritesOf(batch[n + 1])[2] /\ batch[n + 1] \in Strategies
      BY <1>2, <1>3, <1>6, <3>1
    <3>3. disk'.index = IF IsSeedRecipe(batch[n + 1]) THEN Append(disk.index, batch[n + 1]) ELSE disk.index
      BY <3>2, OperationsIndex
    <3>4. disk'.index = I[n + 1]
      BY <1>4, <2>1, <3>1, <3>3
    <3> QED BY <1>7, <3>1, <3>2, <3>3, <3>4
  <2> QED BY <2>1, <2>2, <2>3, <2>4
<1> QED BY <1>8, <1>9

\* Every state of the index of a batch is a draft.
LEMMA DraftsOf ==
  ASSUME NEW batch \in Batches \union {FirstBatch}, NEW n \in 0 .. Len(batch)
  PROVE  IndexUpTo(batch)[n] \in Drafts
<1>1. batch \in Seq(Strategies)
  BY StoreAssumption
<1>2. n \in DOMAIN IndexUpTo(batch)
  BY <1>1, IndexIs
<1>3. IndexUpTo(batch)[n] \in Range(IndexUpTo(batch))
  BY <1>2 DEF Range
<1> QED BY <1>3 DEF Drafts

\* The writer publishes one batch after the other, each from its beginning.
LEMMA WriterPublishes ==
  ASSUME ExchangeInv, Batching, StoreStep
  PROVE  /\ Batching'
         /\ \/ disk'.index = disk.index \/ disk'.index = <<>>
            \/ \E line \in Strategies : disk'.index = Append(disk.index, line)
<1>1. disk \in Disks
  BY ReaderTypes
<1>2. CASE todo' = todo /\ disk'.index = disk.index
  <2>1. \A batch, k : WrittenOf(batch, k) => WrittenOf(batch, k)'
    BY <1>2 DEF WrittenOf
  <2> QED BY <1>2, <2>1 DEF Batching
<1>3. ASSUME NEW batch \in Batches, todo' = WritesOfBatch(batch), disk'.index = disk.index
      PROVE  Batching'
  <2>1. batch \in Seq(Strategies)
    BY StoreAssumption
  <2>2. WritesOfBatch(batch) \in Seq(Steps)
    BY <2>1, WritesOrdered
  <2>3. \A i \in 1 .. Len(todo') : todo'[i] = WritesOfBatch(batch)[0 + i]
    BY <1>3, <2>2
  <2>4. WrittenOf(batch, 0)'
    BY <1>3, <2>2, <2>3 DEF WrittenOf
  <2> QED BY <1>3, <2>4 DEF Batching
<1>4. CASE todo' = <<>> /\ disk'.index = disk.index
  BY <1>4 DEF Batching
<1>5. CASE /\ todo # <<>> /\ todo' = Tail(todo)
           /\ disk'.index = IndexAfter(Head(todo), disk.index)
  <2>1. PICK batch \in Batches, k \in Nat : WrittenOf(batch, k)
    BY <1>5 DEF Batching
  <2>2. WrittenOf(batch, k + 1)'
    BY <1>5, <2>1, NextWritten
  <2>3. \/ disk'.index = disk.index \/ disk'.index = <<>>
        \/ \E line \in Strategies : disk'.index = Append(disk.index, line)
    BY <1>5, <2>1, NextWritten
  <2>4. k + 1 \in Nat /\ k + 1 # 0
    OBVIOUS
  <2>5. PICK n \in 0 .. Len(batch) : disk'.index = IndexUpTo(batch)[n]
    BY <2>2, <2>4 DEF WrittenOf
  <2>6. disk'.index \in Drafts
    BY <2>5, DraftsOf
  <2> QED BY <2>2, <2>3, <2>4, <2>6 DEF Batching
<1> QED BY <1>1, <1>2, <1>3, <1>4, <1>5, StoreMoves

\* Sequence p is what follows the first k places of q.
RestOf(q, p, k) == Len(q) = k + Len(p) /\ \A i \in 1 .. Len(p) : p[i] = q[k + i]

\* To go on from a place in a sequence of recipes, with a cache that has what was
\* made of it so far, makes only what the whole sequence may make.
LEMMA FilledFrom ==
  ASSUME NEW q \in Seq(Recipes), NEW p \in Seq(Recipes), NEW k \in Nat, RestOf(q, p, k),
         NEW c \in Caches, NEW d \in Filled(q, c)[k], NEW e \in Caches, Contents(e) = Contents(d)
  PROVE  \A i \in 0 .. Len(p) : \A g \in Filled(p, e)[i] :
            \E h \in Filled(q, c)[k + i] : Contents(h) = Contents(g)
<1> DEFINE P == Filled(p, e)
           Q == Filled(q, c)
           n == Len(p)
           S == {i \in 0 .. n : \A g \in P[i] : \E h \in Q[k + i] : Contents(h) = Contents(g)}
<1>1. n \in Nat /\ Len(q) = k + n /\ \A i \in 1 .. n : p[i] \in Recipes /\ p[i] = q[k + i]
  BY DEF RestOf
<1>2. /\ P \in [0 .. n -> SUBSET Caches] /\ P[0] = {e}
      /\ \A i \in 1 .. n : P[i] = UNION {AddRecipe(g, p[i]) : g \in P[i - 1]}
  BY FilledDef
<1>3. /\ Q \in [0 .. k + n -> SUBSET Caches]
      /\ \A i \in 1 .. k + n : Q[i] = UNION {AddRecipe(g, q[i]) : g \in Q[i - 1]}
  <2>1. /\ Q \in [0 .. Len(q) -> SUBSET Caches]
        /\ \A i \in 1 .. Len(q) : Q[i] = UNION {AddRecipe(g, q[i]) : g \in Q[i - 1]}
    BY FilledDef
  <2> QED BY <1>1, <2>1
<1>4. d \in Q[k] /\ Contents(d) = Contents(e)
  OBVIOUS
<1> HIDE DEF P, Q, n
<1>5. 0 \in S
  <2>1. k + 0 = k /\ 0 \in 0 .. n
    BY <1>1
  <2> QED BY <1>2, <1>4, <2>1
<1>6. ASSUME NEW m \in 1 .. n, m - 1 \in S PROVE m \in S
  <2>1. /\ m \in 0 .. n /\ m - 1 \in 0 .. n /\ k + m \in 1 .. k + n
        /\ (k + m) - 1 = k + (m - 1) /\ k + (m - 1) \in 0 .. k + n
    BY <1>1
  <2>2. ASSUME NEW g \in P[m] PROVE \E h \in Q[k + m] : Contents(h) = Contents(g)
    <3>1. PICK f \in P[m - 1] : g \in AddRecipe(f, p[m])
      BY <1>2, <2>2
    <3>2. PICK b \in Q[k + (m - 1)] : Contents(b) = Contents(f)
      BY <1>6, <3>1
    <3>3. f \in Caches /\ b \in Caches
      BY <1>2, <1>3, <2>1, <3>1, <3>2
    <3>4. PICK h \in AddRecipe(b, p[m]) : Contents(h) = Contents(g)
      BY <1>1, <3>1, <3>2, <3>3, AddSame
    <3>5. h \in AddRecipe(b, q[k + m]) /\ b \in Q[(k + m) - 1]
      BY <1>1, <2>1, <3>2, <3>4
    <3>6. h \in Q[k + m]
      BY <1>3, <2>1, <3>5
    <3> QED BY <3>4, <3>6
  <2> QED BY <2>1, <2>2
<1>7. \A i \in 0 .. n : i \in S
  <2> HIDE DEF S
  <2> QED BY <1>1, <1>5, <1>6, UpTo
<1> QED BY <1>7 DEF P, Q, n

\* So does the load that goes on from there.
LEMMA LoadedFromThere ==
  ASSUME NEW q \in Seq(Recipes), NEW p \in Seq(Recipes), NEW k \in Nat, RestOf(q, p, k),
         NEW c \in Caches, NEW d \in Filled(q, c)[k], NEW e \in Caches, Contents(e) = Contents(d)
  PROVE  {Contents(g) : g \in LoadedFrom(p, e)} \subseteq {Contents(g) : g \in LoadedFrom(q, c)}
<1> DEFINE P == Filled(p, e)
           Q == Filled(q, c)
<1>1. /\ Len(p) \in Nat /\ P \in [0 .. Len(p) -> SUBSET Caches]
      /\ Q \in [0 .. Len(q) -> SUBSET Caches]
  <2>1. Filled(p, e) \in [0 .. Len(p) -> SUBSET Caches]
    BY FilledDef
  <2>2. Filled(q, c) \in [0 .. Len(q) -> SUBSET Caches]
    BY FilledDef
  <2>3. Len(p) \in Nat
    OBVIOUS
  <2> QED BY <2>1, <2>2, <2>3
<1>2. ASSUME NEW g \in LoadedFrom(p, e)
      PROVE  Contents(g) \in {Contents(b) : b \in LoadedFrom(q, c)}
  <2>1. PICK f \in P[Len(p)] : g = FinishNamed(f)
    BY DEF LoadedFrom
  <2>2. Len(p) \in 0 .. Len(p) /\ k + Len(p) = Len(q) /\ Len(q) \in 0 .. Len(q)
    BY <1>1 DEF RestOf
  <2>3. \E h \in Q[k + Len(p)] : Contents(h) = Contents(f)
    <3>1. \A i \in 0 .. Len(p) : \A b \in Filled(p, e)[i] :
            \E h \in Filled(q, c)[k + i] : Contents(h) = Contents(b)
      BY FilledFrom
    <3> QED BY <2>1, <2>2, <3>1
  <2>4. PICK h \in Q[Len(q)] : Contents(h) = Contents(f)
    BY <2>2, <2>3
  <2> HIDE DEF P, Q
  <2>5. f \in Caches /\ h \in Caches
    BY <1>1, <2>1, <2>2, <2>4
  <2>6. Contents(FinishNamed(h)) = Contents(g)
    BY <2>1, <2>4, <2>5, FinishSame
  <2>7. FinishNamed(h) \in LoadedFrom(q, c)
    BY <2>4 DEF LoadedFrom, Q
  <2> QED BY <2>6, <2>7
<1> QED BY <1>2

\* What becomes of an index depends on the contents of the cache only ...
LEMMA OutcomesSame ==
  ASSUME NEW index \in Seq(Strategies), NEW c \in Caches, NEW e \in Caches,
         Contents(e) = Contents(c)
  PROVE  OutcomesFrom(index, e) = OutcomesFrom(index, c)
<1> DEFINE q == OfIndex(index)
<1>1. q \in Seq(Recipes)
  BY OfIndexIs
<1> HIDE DEF q
<1>2. RestOf(q, q, 0) /\ 0 \in Nat
  BY <1>1 DEF RestOf
<1>3. c \in Filled(q, c)[0] /\ e \in Filled(q, e)[0]
  BY <1>1, FilledDef
<1>4. {Contents(g) : g \in LoadedFrom(q, e)} \subseteq {Contents(g) : g \in LoadedFrom(q, c)}
  BY <1>1, <1>2, <1>3, LoadedFromThere
<1>5. {Contents(g) : g \in LoadedFrom(q, c)} \subseteq {Contents(g) : g \in LoadedFrom(q, e)}
  BY <1>1, <1>2, <1>3, LoadedFromThere
<1> QED BY <1>4, <1>5 DEF OutcomesFrom, q

\* ... is settled further with every line ...
LEMMA OutcomesNarrow ==
  ASSUME NEW index \in Seq(Strategies), index # <<>>, NEW c \in Caches,
         NEW d \in AddRecipe(c, Recipe(Head(index))), NEW e \in Caches, Contents(e) = Contents(d)
  PROVE  OutcomesFrom(Tail(index), e) \subseteq OutcomesFrom(index, c)
<1> DEFINE q == OfIndex(index)
           p == OfIndex(Tail(index))
<1>1. /\ Tail(index) \in Seq(Strategies) /\ Len(index) \in Nat /\ Len(index) >= 1
      /\ Len(index) = 1 + Len(Tail(index)) /\ Head(index) = index[1]
      /\ \A i \in 1 .. Len(Tail(index)) : Tail(index)[i] = index[i + 1]
  OBVIOUS
<1>2. /\ q \in Seq(Recipes) /\ Len(q) = Len(index)
      /\ \A i \in 1 .. Len(index) : q[i] = Recipe(index[i])
  BY OfIndexIs
<1>3. /\ p \in Seq(Recipes) /\ Len(p) = Len(Tail(index))
      /\ \A i \in 1 .. Len(Tail(index)) : p[i] = Recipe(Tail(index)[i])
  BY <1>1, OfIndexIs
<1> HIDE DEF q, p
<1>4. Len(q) = 1 + Len(p) /\ 1 \in Nat /\ 1 \in 1 .. Len(q) /\ q[1] = Recipe(Head(index))
  BY <1>1, <1>2, <1>3
<1>5. ASSUME NEW i \in 1 .. Len(p) PROVE p[i] = q[1 + i]
  <2>1. i \in 1 .. Len(Tail(index)) /\ 1 + i \in 1 .. Len(index) /\ i + 1 = 1 + i
    BY <1>1, <1>3
  <2> QED BY <1>1, <1>2, <1>3, <2>1
<1>6. d \in Filled(q, c)[1]
  <2>1. /\ Filled(q, c)[0] = {c}
        /\ \A i \in 1 .. Len(q) :
              Filled(q, c)[i] = UNION {AddRecipe(b, q[i]) : b \in Filled(q, c)[i - 1]}
    BY <1>2, FilledDef
  <2>2. 1 - 1 = 0
    OBVIOUS
  <2>3. Filled(q, c)[1] = UNION {AddRecipe(b, q[1]) : b \in Filled(q, c)[0]}
    BY <1>4, <2>1, <2>2
  <2>4. c \in Filled(q, c)[0] /\ d \in AddRecipe(c, q[1])
    BY <1>4, <2>1
  <2> QED BY <2>3, <2>4
<1>7. RestOf(q, p, 1)
  BY <1>4, <1>5 DEF RestOf
<1>8. {Contents(g) : g \in LoadedFrom(p, e)} \subseteq {Contents(g) : g \in LoadedFrom(q, c)}
  BY <1>2, <1>3, <1>4, <1>6, <1>7, LoadedFromThere
<1> QED BY <1>8 DEF OutcomesFrom, q, p

\* ... and is what the end of the load leaves when there are no more.
LEMMA OutcomesEnd ==
  ASSUME NEW c \in Caches
  PROVE  OutcomesFrom(<<>>, c) = {Contents(FinishNamed(c))}
<1> DEFINE q == OfIndex(<<>>)
<1>1. q \in Seq(Recipes) /\ Len(q) = 0
  <2>1. <<>> \in Seq(Strategies) /\ Len(<<>>) = 0
    OBVIOUS
  <2> QED BY <2>1, OfIndexIs
<1> HIDE DEF q
<1>2. Filled(q, c)[Len(q)] = {c}
  BY <1>1, FilledDef
<1>3. LoadedFrom(q, c) = {FinishNamed(c)}
  BY <1>2 DEF LoadedFrom
<1> QED BY <1>3 DEF OutcomesFrom, q

\* What a step does to the exchange, in terms of the index, of what the load in
\* progress may become, and of what the mutator works with.
LEMMA Exchanges ==
  ASSUME disk.index \in Drafts, disk'.index \in Drafts,
         \/ /\ disk'.index = <<>> \/ \E line \in Strategies : disk'.index = Append(disk.index, line)
            /\ Reading' = Reading /\ View' = View
         \/ /\ disk'.index = disk.index
            /\ \/ /\ Reading = {} /\ View = Contents(EmptyCache)
                  /\ Reading' = OutcomesFrom(disk.index, EmptyCache) /\ View' = View
               \/ Reading' \subseteq Reading /\ View' = View
               \/ View' \in Reading /\ Reading' = {}
               \/ Reading' = {} /\ View' = Contents(EmptyCache)
  PROVE  RecipeExchange!ExchangeNext
<1>1. CASE /\ disk'.index = <<>> \/ \E line \in Strategies : disk'.index = Append(disk.index, line)
           /\ Reading' = Reading /\ View' = View
  BY <1>1 DEF RecipeExchange!Publish, RecipeExchange!ExchangeNext
<1>2. CASE /\ disk'.index = disk.index
           /\ Reading = {} /\ View = Contents(EmptyCache)
           /\ Reading' = OutcomesFrom(disk.index, EmptyCache) /\ View' = View
  BY <1>2 DEF RecipeExchange!Read, RecipeExchange!ExchangeNext
<1>3. CASE disk'.index = disk.index /\ Reading' \subseteq Reading /\ View' = View
  BY <1>3 DEF RecipeExchange!Settle, RecipeExchange!ExchangeNext
<1>4. CASE disk'.index = disk.index /\ View' \in Reading /\ Reading' = {}
  BY <1>4 DEF RecipeExchange!Take, RecipeExchange!ExchangeNext
<1>5. CASE disk'.index = disk.index /\ Reading' = {} /\ View' = Contents(EmptyCache)
  BY <1>5 DEF RecipeExchange!Forget, RecipeExchange!ExchangeNext
<1> QED BY <1>1, <1>2, <1>3, <1>4, <1>5

\* Where nothing is being read, what the mutator works with is what it holds.
LEMMA Viewed ==
  ASSUME load.pc # "lines"
  PROVE  /\ Reading = {}
         /\ load.pc \in {"global", "index"} => View = Contents(EmptyCache)
         /\ load.pc \notin {"global", "index"} => View = Contents(cache)
BY DEF Reading, View

\* The same after a step.
LEMMA ViewedNext ==
  ASSUME load'.pc # "lines"
  PROVE  /\ Reading' = {}
         /\ load'.pc \in {"global", "index"} => View' = Contents(EmptyCache)
         /\ load'.pc \notin {"global", "index"} => View' = Contents(cache')
BY DEF Reading, View

\* A load opens the index: all its lines are read, and nothing else of it is.
LEMMA OpeningReads ==
  ASSUME ExchangeInv, OpenIndex, UNCHANGED storeVars
  PROVE  \/ /\ Reading = {} /\ View = Contents(EmptyCache)
            /\ Reading' = OutcomesFrom(disk.index, EmptyCache) /\ View' = View
         \/ Reading' \subseteq Reading /\ View' = View
<1>1. load.pc = "index" /\ cache' = cache /\ load \in Loads /\ cache \in Caches
      /\ disk.index \in Seq(Strategies) /\ Contents(cache) = Contents(EmptyCache)
  BY ReaderTypes DEF OpenIndex, ExchangeInv, IndexRead
<1>2. Reading = {} /\ View = Contents(EmptyCache)
  BY <1>1, Viewed
<1>3. CASE disk.indexed
  <2>1. load' = [load EXCEPT !.pc = "lines", !.lines = disk.index]
    BY <1>3 DEF OpenIndex
  <2>2. load'.pc = "lines" /\ load'.lines = disk.index
    BY <1>1, <2>1 DEF Loads
  <2>3. Reading' = OutcomesFrom(disk.index, cache)
    BY <1>1, <2>2 DEF Reading
  <2>4. View' = Contents(EmptyCache)
    BY <2>2 DEF View
  <2>5. OutcomesFrom(disk.index, cache) = OutcomesFrom(disk.index, EmptyCache)
    BY <1>1, EmptyIsCache, OutcomesSame
  <2> QED BY <1>2, <2>3, <2>4, <2>5
<1>4. CASE ~disk.indexed
  <2>1. load' = [load EXCEPT !.pc = "loaded"]
    BY <1>4 DEF OpenIndex
  <2>2. load'.pc = "loaded"
    BY <1>1, <2>1 DEF Loads
  <2>3. Reading' = {} /\ View' = Contents(cache)
    BY <1>1, <2>2, ViewedNext
  <2> QED BY <1>1, <1>2, <2>3
<1> QED BY <1>3, <1>4

\* A line is read with its complete recipe, and adds it to one of the caches the
\* rest was to be added to.
LEMMA LineSettles ==
  ASSUME ExchangeInv, LoadLine, UNCHANGED storeVars
  PROVE  Reading' \subseteq Reading /\ View' = View
<1>1. /\ load.pc = "lines" /\ load.lines # <<>> /\ load \in Loads /\ cache \in Caches
      /\ load.lines \in Seq(Strategies) /\ load' = [load EXCEPT !.lines = Tail(@)]
  BY ReaderTypes DEF LoadLine
<1>2. load'.pc = "lines" /\ load'.lines = Tail(load.lines)
  BY <1>1 DEF Loads
<1>3. /\ Head(load.lines) \in Strategies
      /\ RecipeOf(Head(load.lines)) = Recipe(Head(load.lines))
  <2>1. Head(load.lines) = load.lines[1] /\ 1 \in DOMAIN load.lines /\ Head(load.lines) \in Strategies
    BY <1>1
  <2>2. Head(load.lines) \in disk.filled
    BY <2>1 DEF ExchangeInv, LinesWhole
  <2> QED BY <2>1, <2>2 DEF RecipeOf
<1>4. PICK c \in AddRecipe(cache, Recipe(Head(load.lines))) : cache' = [c EXCEPT !.loaded = TRUE]
  BY <1>3 DEF LoadLine
<1>5. c \in Caches
  <2>1. Recipe(Head(load.lines)) \in Recipes
    BY <1>3 DEF Recipes
  <2> QED BY <1>1, <1>4, <2>1, AddKeeps
<1>6. /\ cache' \in Caches /\ cache'.named = c.named /\ cache'.byName = c.byName
      /\ cache'.hashed = c.hashed
  BY <1>4, <1>5 DEF Caches, CachesOf
<1>7. Contents(cache') = Contents(c)
  BY <1>6, SameContents
<1>8. OutcomesFrom(Tail(load.lines), cache') \subseteq OutcomesFrom(load.lines, cache)
  BY <1>1, <1>4, <1>6, <1>7, OutcomesNarrow
<1>9. Reading = OutcomesFrom(load.lines, cache) /\ Reading' = OutcomesFrom(Tail(load.lines), cache')
  BY <1>1, <1>2 DEF Reading
<1>10. View = Contents(EmptyCache) /\ View' = Contents(EmptyCache)
  BY <1>1, <1>2 DEF View
<1> QED BY <1>8, <1>9, <1>10

\* The end of a load leaves what is settled by then.
LEMMA EndTakes ==
  ASSUME ExchangeInv, StatGlobal
  PROVE  View' \in Reading /\ Reading' = {}
<1> DEFINE d == FinishNamed(cache)
<1>1. /\ load.pc = "lines" /\ load.lines = <<>> /\ load \in Loads /\ cache \in Caches
      /\ load' = [load EXCEPT !.pc = "stat"]
      /\ cache' = [d EXCEPT !.tracked = TRUE, !.gtime = disk.gtime]
  BY ReaderTypes DEF StatGlobal
<1>2. load'.pc = "stat"
  BY <1>1 DEF Loads
<1>3. d \in Caches
  BY <1>1, FinishKeeps DEF ExchangeInv, IndexRead
<1>4. Reading = {Contents(d)}
  BY <1>1, OutcomesEnd DEF Reading
<1> HIDE DEF d
<1>5. cache'.named = d.named /\ cache'.byName = d.byName /\ cache'.hashed = d.hashed
  BY <1>1, <1>3 DEF Caches, CachesOf
<1>6. Contents(cache') = Contents(d)
  BY <1>5, SameContents
<1>7. View' = Contents(cache') /\ Reading' = {}
  BY <1>2, ViewedNext
<1> QED BY <1>4, <1>6, <1>7

\* A step of a load is a step of the exchange.
LEMMA LoadExchanges ==
  ASSUME ExchangeInv, LoadStep, UNCHANGED storeVars
  PROVE  \/ /\ Reading = {} /\ View = Contents(EmptyCache)
            /\ Reading' = OutcomesFrom(disk.index, EmptyCache) /\ View' = View
         \/ Reading' \subseteq Reading /\ View' = View
         \/ View' \in Reading /\ Reading' = {}
<1>1. load \in Loads /\ cache \in Caches
  BY ReaderTypes
<1>2. CASE LoadGlobal
  <2>1. load.pc = "global" /\ Contents(cache) = Contents(EmptyCache)
    BY <1>2 DEF LoadGlobal, ExchangeInv, IndexRead
  <2>2. load'.pc \in {"index", "loaded"}
    BY <1>1, <1>2 DEF LoadGlobal, Loads
  <2>3. cache'.named = cache.named /\ cache'.byName = cache.byName /\ cache'.hashed = cache.hashed
    BY <1>1, <1>2 DEF LoadGlobal, Caches, CachesOf
  <2>4. Contents(cache') = Contents(cache)
    BY <2>3, SameContents
  <2>5. Reading' = {} /\ View' = Contents(EmptyCache)
    BY <2>1, <2>2, <2>4, ViewedNext
  <2>6. View = Contents(EmptyCache)
    BY <2>1, Viewed
  <2> QED BY <2>5, <2>6
<1>3. CASE OpenIndex
  BY <1>3, OpeningReads
<1>4. CASE LoadLine
  BY <1>4, LineSettles
<1>5. CASE StatGlobal
  BY <1>5, EndTakes
<1>6. CASE StatIndex
  <2>1. load.pc = "stat" /\ load'.pc = "loaded"
    BY <1>1, <1>6 DEF StatIndex, Loads
  <2>2. cache'.named = cache.named /\ cache'.byName = cache.byName /\ cache'.hashed = cache.hashed
    BY <1>1, <1>6 DEF StatIndex, Caches, CachesOf
  <2>3. Contents(cache') = Contents(cache)
    BY <2>2, SameContents
  <2>4. Reading' = {} /\ View' = Contents(cache)
    BY <2>1, <2>3, ViewedNext
  <2>5. View = Contents(cache)
    BY <2>1, Viewed
  <2> QED BY <2>4, <2>5
<1> QED BY <1>2, <1>3, <1>4, <1>5, <1>6 DEF LoadStep

\* A call that returns, or finds nothing to load, changes nothing.
LEMMA ReturnsStill ==
  ASSUME ExchangeInv, cache' = cache, load.pc \in {"idle", "loaded"},
         load'.pc \in {"idle", "loaded"}
  PROVE  Reading' \subseteq Reading /\ View' = View
<1>1. View = Contents(cache)
  BY Viewed
<1>2. Reading' = {} /\ View' = Contents(cache')
  BY ViewedNext
<1> QED BY <1>1, <1>2

\* The index a campaign begins with is that of its first batch, or none.
LEMMA BeginsBatching == ASSUME Init PROVE Batching /\ RecipeExchange!ExchangeInit
<1>1. todo = <<>> /\ disk \in {NoStore, LoneGlobal, Prepared} /\ cache = EmptyCache /\ load = NoLoad
  BY DEF Init, StoreInit, CacheInit
<1>2. FirstBatch \in Batches \union {FirstBatch} /\ FirstBatch \in Seq(Strategies)
  BY StoreAssumption
<1>3. 0 \in 0 .. Len(FirstBatch) /\ Len(FirstBatch) \in 0 .. Len(FirstBatch)
  BY <1>2
<1>4. IndexUpTo(FirstBatch)[0] \in Drafts /\ IndexUpTo(FirstBatch)[Len(FirstBatch)] \in Drafts
  BY <1>2, <1>3, DraftsOf
<1>5. <<>> \in Drafts /\ IndexFor(FirstBatch) \in Drafts
  <2>1. IndexUpTo(FirstBatch)[0] = <<>>
    BY <1>2, IndexIs
  <2> QED BY <1>4, <2>1 DEF IndexFor
<1>6. disk.index \in {<<>>, IndexFor(FirstBatch)}
  <2>1. NoStore.index = <<>> /\ LoneGlobal.index = <<>> /\ Prepared.index = IndexFor(FirstBatch)
    BY DEF NoStore, LoneGlobal, Prepared
  <2> QED BY <1>1, <2>1
<1>7. load.pc = "down"
  BY <1>1 DEF NoLoad
<1>8. Reading = {} /\ View = Contents(EmptyCache)
  BY <1>1, <1>7, Viewed
<1> QED BY <1>1, <1>5, <1>6, <1>8 DEF Batching, RecipeExchange!ExchangeInit

\* The writer's steps, and no others, concern the batch.
LEMMA BatchingStays ==
  ASSUME Batching, UNCHANGED storeVars
  PROVE  Batching' /\ disk'.index = disk.index
<1>1. disk' = disk /\ todo' = todo
  BY DEF storeVars
<1>2. \A batch, k : WrittenOf(batch, k) => WrittenOf(batch, k)'
  BY <1>1 DEF WrittenOf
<1> QED BY <1>1, <1>2 DEF Batching

\* Every step of the writer, the mutator and the collector is one of the exchange.
LEMMA StepsExchange ==
  ASSUME ExchangeInv, Batching, [Next]_vars
  PROVE  Batching' /\ RecipeExchange!ExchangeNext
<1>1. disk.index \in Drafts /\ load \in Loads
  BY ReaderTypes DEF Batching
<1>2. ASSUME UNCHANGED storeVars,
             \/ /\ Reading = {} /\ View = Contents(EmptyCache)
                /\ Reading' = OutcomesFrom(disk.index, EmptyCache) /\ View' = View
             \/ Reading' \subseteq Reading /\ View' = View
             \/ View' \in Reading /\ Reading' = {}
             \/ Reading' = {} /\ View' = Contents(EmptyCache)
      PROVE  Batching' /\ RecipeExchange!ExchangeNext
  <2>1. Batching' /\ disk'.index = disk.index
    BY <1>2, BatchingStays
  <2>2. disk'.index \in Drafts
    BY <1>1, <2>1
  <2> QED BY <1>1, <1>2, <2>1, <2>2, Exchanges
<1>3. ASSUME UNCHANGED storeVars, cache' = cache, load' = load
      PROVE  Batching' /\ RecipeExchange!ExchangeNext
  <2>1. Reading' \subseteq Reading /\ View' = View
    BY <1>3 DEF Reading, View
  <2> QED BY <1>2, <1>3, <2>1
<1>4. ASSUME UNCHANGED storeVars, load'.pc \in {"global", "down"}, load'.pc = "down" => cache' = EmptyCache
      PROVE  Batching' /\ RecipeExchange!ExchangeNext
  <2>1. Reading' = {} /\ View' = Contents(EmptyCache)
    BY <1>4, ViewedNext
  <2> QED BY <1>2, <1>4, <2>1
<1>5. ASSUME UNCHANGED storeVars, cache' = cache, load.pc \in {"idle", "loaded"},
             load'.pc \in {"idle", "loaded"}
      PROVE  Batching' /\ RecipeExchange!ExchangeNext
  BY <1>2, <1>5, ReturnsStill
<1>6. CASE Launch
  <2>1. load'.pc = "global"
    BY <1>6 DEF Launch, ConstructCache
  <2> QED BY <1>4, <1>6, <2>1 DEF Launch
<1>7. CASE LoadOne
  BY <1>2, <1>7, LoadExchanges DEF LoadOne
<1>8. CASE InitReturns
  <2>1. load.pc = "loaded" /\ load'.pc = "idle" /\ cache' = cache /\ UNCHANGED storeVars
    BY <1>1, <1>8 DEF InitReturns, Loads
  <2> QED BY <1>5, <2>1
<1>9. ASSUME NEW e \in Entries, QueueGet(e) PROVE Batching' /\ RecipeExchange!ExchangeNext
  <2>1. load.pc = "idle" /\ ReloadIfStale /\ UNCHANGED storeVars
    BY <1>9 DEF QueueGet
  <2>2. CASE IsStale
    <3>1. load'.pc = "global"
      BY <2>1, <2>2 DEF ReloadIfStale
    <3> QED BY <1>4, <2>1, <3>1
  <2>3. CASE ~IsStale
    <3>1. cache' = cache /\ load'.pc = "loaded"
      BY <1>1, <2>1, <2>3 DEF ReloadIfStale, Loads
    <3> QED BY <1>5, <2>1, <3>1
  <2> QED BY <2>2, <2>3
<1>10. ASSUME NEW e \in Entries, QueueNewEntry(e) PROVE Batching' /\ RecipeExchange!ExchangeNext
  BY <1>3, <1>10 DEF QueueNewEntry, cacheVars
<1>11. CASE QueueGetReturns
  <2>1. load.pc = "loaded" /\ load'.pc = "idle" /\ cache' = cache /\ UNCHANGED storeVars
    BY <1>1, <1>11 DEF QueueGetReturns, Loads
  <2> QED BY <1>5, <2>1
<1>12. CASE Fuzz
  BY <1>3, <1>12 DEF Fuzz, cacheVars
<1>13. CASE Deinit \/ Killed
  <2>1. load'.pc = "down" /\ cache' = EmptyCache /\ UNCHANGED storeVars
    BY <1>13 DEF Deinit, Killed, ProcessEnds, NoLoad
  <2> QED BY <1>4, <2>1
<1>14. CASE Write
  <2>1. StoreStep /\ cache' = cache /\ load' = load
    BY <1>14 DEF Write, cacheVars
  <2>2. Reading' = Reading /\ View' = View
    BY <2>1 DEF Reading, View
  <2>3. /\ Batching'
        /\ \/ disk'.index = disk.index \/ disk'.index = <<>>
           \/ \E line \in Strategies : disk'.index = Append(disk.index, line)
    BY <2>1, WriterPublishes
  <2>4. disk'.index \in Drafts
    BY <2>3 DEF Batching
  <2> QED BY <1>1, <2>2, <2>3, <2>4, Exchanges
<1>15. CASE Sample
  BY <1>3, <1>15 DEF Sample, cacheVars
<1>16. CASE UNCHANGED vars
  BY <1>3, <1>16 DEF vars, storeVars
<1> QED BY <1>6, <1>7, <1>8, <1>9, <1>10, <1>11, <1>12, <1>13, <1>14, <1>15, <1>16 DEF Next

\* Whatever the writer does while the mutator loads, the mutator works with what
\* complete recipes make of the index as it was at one moment, the beginning of
\* one batch (recipe_cache.cpp:230-342, recipe_store.cpp:157-192).
THEOREM ImplementsExchange == Spec => LoadsAreSnapshots
<1>1. Init => Batching /\ RecipeExchange!ExchangeInit
  BY BeginsBatching
<1>2. MutatorInv /\ Batching /\ [Next]_vars => Batching'
  BY StepsExchange DEF MutatorInv
<1>3. Spec => [](MutatorInv /\ Batching)
  BY <1>1, <1>2, MutatorInvariant, PTL DEF Spec
<1>4. MutatorInv /\ Batching /\ [Next]_vars
        => [RecipeExchange!ExchangeNext]_(RecipeExchange!exchangeVars)
  BY StepsExchange DEF MutatorInv
<1> QED BY <1>1, <1>3, <1>4, PTL DEF Spec, LoadsAreSnapshots, RecipeExchange!ExchangeSpec

\* What is loaded, and what the load in progress may become, was made of a draft.
OfOneDraft ==
    /\ disk.index \in Drafts
    /\ \E draft \in Drafts : Reading \subseteq OutcomesFrom(draft, EmptyCache)
    /\ \/ View = Contents(EmptyCache)
       \/ \E draft \in Drafts : View \in OutcomesFrom(draft, EmptyCache)

\* So that the recipes for seeds are never a mixture of two batches: the mutator has
\* none, or those of one beginning of one batch (recipe_cache.cpp:230-342).  Only the
\* global recipe, which is read before the index, may be of another.
THEOREM NeverAMixture == Spec => []OfOneDraft
<1>1. RecipeExchange!ExchangeInit => OfOneDraft
  BY DEF RecipeExchange!ExchangeInit, OfOneDraft
<1>2. ASSUME OfOneDraft, [RecipeExchange!ExchangeNext]_(RecipeExchange!exchangeVars)
      PROVE  OfOneDraft'
  <2>1. PICK draft \in Drafts : Reading \subseteq OutcomesFrom(draft, EmptyCache)
    BY <1>2 DEF OfOneDraft
  <2>2. CASE RecipeExchange!Publish
    BY <1>2, <2>2 DEF RecipeExchange!Publish, OfOneDraft
  <2>3. CASE RecipeExchange!Read
    <3>1. Reading' = OutcomesFrom(disk.index, EmptyCache) /\ View' = View /\ disk'.index = disk.index
      BY <1>2, <2>3 DEF RecipeExchange!Read, OfOneDraft
    <3> QED BY <1>2, <3>1 DEF OfOneDraft
  <2>4. CASE RecipeExchange!Settle
    <3>1. Reading' \subseteq OutcomesFrom(draft, EmptyCache) /\ View' = View /\ disk'.index = disk.index
      BY <2>1, <2>4 DEF RecipeExchange!Settle
    <3> QED BY <1>2, <3>1 DEF OfOneDraft
  <2>5. CASE RecipeExchange!Take
    <3>1. View' \in OutcomesFrom(draft, EmptyCache) /\ Reading' = {} /\ disk'.index = disk.index
      BY <2>1, <2>5 DEF RecipeExchange!Take
    <3> QED BY <1>2, <3>1 DEF OfOneDraft
  <2>6. CASE RecipeExchange!Forget
    BY <1>2, <2>6 DEF RecipeExchange!Forget, OfOneDraft
  <2>7. CASE UNCHANGED RecipeExchange!exchangeVars
    BY <1>2, <2>7 DEF RecipeExchange!exchangeVars, OfOneDraft
  <2> QED BY <1>2, <2>2, <2>3, <2>4, <2>5, <2>6, <2>7 DEF RecipeExchange!ExchangeNext
<1>3. OfOneDraft /\ [RecipeExchange!ExchangeNext]_(RecipeExchange!exchangeVars) => OfOneDraft'
  BY <1>2
<1> QED BY <1>1, <1>3, ImplementsExchange, PTL DEF LoadsAreSnapshots, RecipeExchange!ExchangeSpec

-----------------------------------------------------------------------------
(* The ranges of a recipe *)

ByteRanges == {r \in [begin : Nat, end : Nat] : r.begin < r.end}

Disjoint(r, o) == r.end <= o.begin \/ o.end <= r.begin
\* No two of the ranges overlap.
NoOverlap(q) == \A i, j \in DOMAIN q : i # j => Disjoint(q[i], q[j])

Earlier == {p \in ByteRanges \X ByteRanges : p[1].begin <= p[2].begin}

\* Sorting the ranges one after the other.
LEMMA RangesSorted ==
  ASSUME NEW ranges \in Seq(ByteRanges)
  PROVE  \E w \in [0 .. Len(ranges) -> Seq(ByteRanges)] :
           /\ w[0] = <<>>
           /\ \A i \in 1 .. Len(ranges) : w[i] = RangeInserted(w[i - 1], ranges[i])
           /\ SortedRanges(ranges) = w[Len(ranges)]
<1> DEFINE n == Len(ranges)
           T == Seq(ByteRanges)
           none == <<>>
           next(i, q) == RangeInserted(q, ranges[i])
           step == [i \in 1 .. n |-> [q \in T |-> next(i, q)]]
<1>1. n \in Nat /\ \A i \in 1 .. n : ranges[i] \in ByteRanges
  OBVIOUS
<1>2. none \in T
  OBVIOUS
<1>3. ASSUME NEW i \in 1 .. n, NEW q \in T PROVE next(i, q) \in T
  <2> DEFINE B == {j \in DOMAIN q : q[j].begin <= ranges[i].begin}
             b == Cardinality(B)
  <2>4. b \in 0 .. Len(q)
    <3>1. B \in SUBSET (1 .. Len(q)) /\ Len(q) \in Nat
      OBVIOUS
    <3> HIDE DEF B
    <3> QED BY <3>1, PlacesCounted
  <2>5. next(i, q) = Placed(q, b, ranges[i])
    BY DEF RangeInserted, Placed
  <2> HIDE DEF b, next
  <2>6. q \in Seq(ByteRanges) /\ ranges[i] \in ByteRanges
    BY <1>1, <1>3
  <2>7. Placed(q, b, ranges[i]) \in Seq(ByteRanges)
    BY <2>4, <2>6, PlacedIs
  <2> QED BY <2>5, <2>7
<1>4. step \in [1 .. n -> [T -> T]]
  <2> HIDE DEF T, n, next
  <2> QED BY <1>3
<1>5. PICK f : f \in Runs(T, none, step, n)
  <2> HIDE DEF T, step, n, none
  <2> QED BY <1>1, <1>2, <1>4, Scans
<1> HIDE DEF T
<1>6. f \in [0 .. n -> T] /\ f[0] = none /\ \A i \in 1 .. n : f[i] = step[i][f[i - 1]]
  BY <1>5 DEF Runs
<1>7. ASSUME NEW i \in 1 .. n PROVE f[i] = next(i, f[i - 1])
  <2> HIDE DEF next
  <2>1. f[i - 1] \in T
    BY <1>1, <1>6
  <2>2. f[i] = step[i][f[i - 1]]
    BY <1>6
  <2> QED BY <2>1, <2>2
<1>8. f = [i \in 0 .. n |-> IF i = 0 THEN none ELSE next(i, f[i - 1])]
  <2> HIDE DEF next
  <2> QED BY <1>1, <1>6, <1>7
<1> DEFINE w == CHOOSE g : g = [i \in 0 .. n |-> IF i = 0 THEN none ELSE next(i, g[i - 1])]
<1>9. w = [i \in 0 .. n |-> IF i = 0 THEN none ELSE next(i, w[i - 1])]
  <2> HIDE DEF next
  <2> QED BY <1>8
<1>10. SortedRanges(ranges) = w[n]
  BY DEF SortedRanges
<1> HIDE DEF w, next, none
<1> DEFINE S == {i \in 0 .. n : w[i] \in T}
<1>11. 0 \in S
  BY <1>1, <1>2, <1>9
<1>12. ASSUME NEW m \in 1 .. n, m - 1 \in S PROVE m \in S
  <2>1. m \in 0 .. n /\ m # 0 /\ w[m] = next(m, w[m - 1])
    BY <1>1, <1>9
  <2> QED BY <1>3, <1>12, <2>1
<1>13. \A i \in 0 .. n : i \in S
  <2> HIDE DEF S, n
  <2> QED BY <1>1, <1>11, <1>12, UpTo
<1>14. w \in [0 .. n -> T]
  BY <1>9, <1>13
<1>15. w[0] = none /\ \A i \in 1 .. n : w[i] = next(i, w[i - 1])
  BY <1>1, <1>9
<1> QED BY <1>10, <1>14, <1>15 DEF T, next, none

\* Sorted ranges are in order and the same ones.
LEMMA SortedAre ==
  ASSUME NEW ranges \in Seq(ByteRanges), NoOverlap(ranges)
  PROVE  /\ SortedRanges(ranges) \in Seq(ByteRanges)
         /\ Ascends(SortedRanges(ranges), Earlier)
         /\ NoOverlap(SortedRanges(ranges))
         /\ \A i \in DOMAIN SortedRanges(ranges) :
               \E j \in DOMAIN ranges : SortedRanges(ranges)[i] = ranges[j]
         /\ \A j \in DOMAIN ranges :
               \E i \in DOMAIN SortedRanges(ranges) : SortedRanges(ranges)[i] = ranges[j]
<1> DEFINE n == Len(ranges)
           D == {p \in ByteRanges \X ByteRanges : Disjoint(p[1], p[2])}
<1>1. /\ n \in Nat /\ DOMAIN ranges = 1 .. n
      /\ \A i \in 1 .. n : ranges[i] \in ByteRanges
      /\ \A r \in ByteRanges : r.begin \in Nat /\ r.end \in Nat
  BY DEF ByteRanges
<1>2. PICK w \in [0 .. n -> Seq(ByteRanges)] :
        /\ w[0] = <<>>
        /\ \A i \in 1 .. n : w[i] = RangeInserted(w[i - 1], ranges[i])
        /\ SortedRanges(ranges) = w[n]
  BY RangesSorted
<1>3. IsOrder(Earlier, ByteRanges)
  <2>1. \A u, v \in ByteRanges : <<u, v>> \in Earlier \/ <<v, u>> \in Earlier
    BY <1>1 DEF Earlier
  <2>2. \A u, v, t \in ByteRanges :
          <<u, v>> \in Earlier /\ <<v, t>> \in Earlier => <<u, t>> \in Earlier
    BY <1>1 DEF Earlier
  <2> QED BY <2>1, <2>2 DEF IsOrder
<1>4. Pairwise(ranges, D)
  BY <1>1 DEF Pairwise, NoOverlap
<1>5. Sorts(w, ranges, Earlier)
  <2>1. ASSUME NEW i \in 1 .. n
        PROVE  w[i] = Placed(w[i - 1], Cardinality(Before(w[i - 1], Earlier, ranges[i])), ranges[i])
    <3> DEFINE q == w[i - 1]
               x == ranges[i]
    <3>1. q \in Seq(ByteRanges) /\ x \in ByteRanges /\ w[i] = RangeInserted(q, x)
      <4> HIDE DEF n, D
      <4>1. n \in Nat /\ i \in 1 .. n
        BY <1>1
      <4>2. i - 1 \in 0 .. n
        BY <4>1
      <4>3. w[i - 1] \in Seq(ByteRanges)
        BY <4>2
      <4>4. ranges[i] \in ByteRanges
        BY <1>1, <4>1
      <4>5. w[i] = RangeInserted(w[i - 1], ranges[i])
        BY <1>2, <4>1
      <4> QED BY <4>3, <4>4, <4>5
    <3> HIDE DEF q, x
    <3>2. \A j \in DOMAIN q : q[j] \in ByteRanges
      BY <3>1
    <3>3. Before(q, Earlier, x) = {j \in DOMAIN q : q[j].begin <= x.begin}
      BY <3>1, <3>2 DEF Earlier, Before
    <3>4. w[i] = Placed(q, Cardinality(Before(q, Earlier, x)), x)
      BY <3>1, <3>3 DEF RangeInserted, Placed
    <3> QED BY <3>4 DEF q, x
  <2> QED BY <1>2, <2>1 DEF Sorts
<1> DEFINE s == SortedRanges(ranges)
<1>6. s \in Seq(ByteRanges) /\ Sorted(s, ranges, Earlier) /\ Pairwise(s, D)
  <2> HIDE DEF D
  <2>1. Sorted(w[Len(ranges)], ranges, Earlier) /\ Pairwise(w[Len(ranges)], D)
    BY <1>2, <1>3, <1>4, <1>5, InsertionSorts
  <2> QED BY <1>1, <1>2, <2>1
<1> HIDE DEF s
<1>7. NoOverlap(s)
  BY <1>6 DEF Pairwise, NoOverlap
<1>8. Ascends(s, Earlier) /\ SomeOf(s, ranges, n) /\ AllOf(s, ranges, n)
  BY <1>6 DEF Sorted
<1>9. \A i \in DOMAIN s : \E j \in DOMAIN ranges : s[i] = ranges[j]
  BY <1>1, <1>8 DEF SomeOf
<1>10. \A j \in DOMAIN ranges : \E i \in DOMAIN s : s[i] = ranges[j]
  BY <1>1, <1>8 DEF AllOf
<1> QED BY <1>6, <1>7, <1>8, <1>9, <1>10 DEF s

\* The binary search over sorted ranges decides what the ranges mean.
LEMMA SearchDecides ==
  ASSUME NEW ranges \in Seq(ByteRanges), NoOverlap(ranges), NEW o \in Nat
  PROVE  IsProtected(SortedRanges(ranges), o) <=> Covered(ranges, o)
<1> DEFINE s == SortedRanges(ranges)
           B == {i \in DOMAIN s : s[i].begin <= o}
<1>1. /\ s \in Seq(ByteRanges) /\ Ascends(s, Earlier) /\ NoOverlap(s)
      /\ \A i \in DOMAIN s : \E j \in DOMAIN ranges : s[i] = ranges[j]
      /\ \A j \in DOMAIN ranges : \E i \in DOMAIN s : s[i] = ranges[j]
  BY SortedAre
<1>2. IsProtected(s, o) <=> (B # {} /\ InRange(o, s[Max(B)]))
  BY DEF IsProtected
<1> HIDE DEF s
<1>3. /\ Len(s) \in Nat /\ DOMAIN s = 1 .. Len(s)
      /\ \A i \in 1 .. Len(s) : s[i] \in ByteRanges
      /\ \A r \in ByteRanges : r.begin \in Nat /\ r.end \in Nat /\ r.begin < r.end
  BY <1>1 DEF ByteRanges
<1>4. B \in SUBSET (1 .. Len(s))
  BY <1>3
<1>5. ASSUME B # {} PROVE Max(B) \in B /\ \A i \in B : Max(B) >= i
  <2> HIDE DEF B
  <2> QED BY <1>3, <1>4, <1>5, LastPlace
<1>6. ASSUME IsProtected(s, o) PROVE Covered(ranges, o)
  <2>1. Max(B) \in DOMAIN s /\ InRange(o, s[Max(B)])
    BY <1>2, <1>5, <1>6
  <2>2. PICK j \in DOMAIN ranges : s[Max(B)] = ranges[j]
    BY <1>1, <2>1
  <2> QED BY <2>1, <2>2 DEF Covered
<1>7. ASSUME Covered(ranges, o) PROVE IsProtected(s, o)
  <2>1. PICK j \in DOMAIN ranges : InRange(o, ranges[j])
    BY <1>7 DEF Covered
  <2>2. PICK i \in DOMAIN s : s[i] = ranges[j]
    BY <1>1
  <2>3. o >= s[i].begin /\ o < s[i].end /\ s[i].begin \in Nat /\ s[i].end \in Nat
    BY <1>3, <2>1, <2>2 DEF InRange
  <2>4. i \in B
    BY <2>3
  <2> DEFINE m == Max(B)
  <2>5. m \in DOMAIN s /\ m >= i /\ s[m].begin <= o
    BY <1>5, <2>4
  <2> HIDE DEF m
  <2>6. m = i
    <3> SUFFICES ASSUME m # i PROVE FALSE
      OBVIOUS
    <3>1. Disjoint(s[i], s[m])
      BY <1>1, <2>5 DEF NoOverlap
    <3>2. s[m].begin \in Nat /\ s[m].end \in Nat /\ s[m].begin < s[m].end
      BY <1>3, <2>5
    <3>3. s[i].begin <= s[m].begin
      <4>1. i < m
        BY <1>3, <2>5
      <4>2. <<s[i], s[m]>> \in Earlier
        BY <1>1, <2>5, <4>1 DEF Ascends
      <4> QED BY <4>2 DEF Earlier
    <3> QED BY <2>3, <2>5, <3>1, <3>2, <3>3 DEF Disjoint
  <2>7. InRange(o, s[m]) /\ B # {}
    BY <2>3, <2>4, <2>6 DEF InRange
  <2> QED BY <1>2, <2>7 DEF m
<1> QED BY <1>6, <1>7 DEF s

-----------------------------------------------------------------------------
(* Where a mutation is made *)

\* The greater of two numbers.
LEMMA MaxIsOfTwo ==
  ASSUME NEW a \in Int, NEW b \in Int
  PROVE  Max({a, b}) = IF a >= b THEN a ELSE b
<1> DEFINE S == {a, b}
           m == IF a >= b THEN a ELSE b
<1>1. m \in S /\ \A y \in S : m >= y
  OBVIOUS
<1>2. \A x \in S : (\A y \in S : x >= y) => x = m
  OBVIOUS
<1> HIDE DEF S, m
<1>3. Max(S) = m
  BY <1>1, <1>2 DEF Max
<1> QED BY <1>3 DEF S, m

\* Every attempt is at a byte of the input, and there is one.
LEMMA AttemptsInside ==
  ASSUME NEW focus \in Seq(ByteRanges), NEW size \in Nat \ {0}
  PROVE  Attempts(focus, size) # {} /\ Attempts(focus, size) \subseteq 0 .. size - 1
<1>1. CASE focus = <<>>
  <2>1. Attempts(focus, size) = 0 .. size - 1
    BY <1>1 DEF Attempts
  <2>2. 0 \in 0 .. size - 1
    OBVIOUS
  <2> QED BY <2>1, <2>2
<1>2. CASE focus # <<>>
  <2> DEFINE Of(r) == Min({r.begin, size - 1}) ..
                        (Min({Max({r.end, r.begin + 1}), size}) - 1)
  <2>1. Attempts(focus, size) = UNION {Of(r) : r \in Range(focus)}
    BY <1>2 DEF Attempts
  <2>2. ASSUME NEW r \in ByteRanges
        PROVE  Of(r) # {} /\ Of(r) \subseteq 0 .. size - 1
    <3>1. r.begin \in Nat /\ r.end \in Nat /\ r.begin < r.end
      BY DEF ByteRanges
    <3>2. Max({r.end, r.begin + 1}) = r.end
      BY <3>1, MaxIsOfTwo
    <3>3. Min({r.begin, size - 1}) = IF r.begin <= size - 1 THEN r.begin ELSE size - 1
      BY <3>1, MinOfTwo
    <3>4. Min({r.end, size}) = IF r.end <= size THEN r.end ELSE size
      BY <3>1, MinOfTwo
    <3> DEFINE l == Min({r.begin, size - 1})
               h == Min({r.end, size}) - 1
    <3>5. l \in Nat /\ h \in Nat /\ l <= h /\ h <= size - 1
      BY <3>1, <3>3, <3>4
    <3>6. Of(r) = l .. h
      BY <3>2
    <3> HIDE DEF l, h
    <3>7. l \in l .. h /\ l .. h \subseteq 0 .. size - 1
      BY <3>5
    <3> QED BY <3>6, <3>7
  <2> HIDE DEF Of
  <2>3. Range(focus) \subseteq ByteRanges /\ Range(focus) # {}
    <3>1. 1 \in DOMAIN focus /\ \A i \in DOMAIN focus : focus[i] \in ByteRanges
      BY <1>2
    <3> QED BY <3>1 DEF Range
  <2> QED BY <2>1, <2>2, <2>3
<1> QED BY <1>1, <1>2

\* Going round the input once comes by every byte.
LEMMA OnceRound ==
  ASSUME NEW size \in Nat \ {0}, NEW start \in 0 .. size - 1
  PROVE  /\ \A i \in 0 .. size - 1 : (start + i) % size \in 0 .. size - 1
         /\ \A o \in 0 .. size - 1 : \E i \in 0 .. size - 1 : (start + i) % size = o
<1>1. \A k \in Nat : k < size => k % size = k
  BY SMT
<1>2. \A k \in Nat : k >= size /\ k < 2 * size => k % size = k - size
  BY SMT
<1>3. \A i \in 0 .. size - 1 : (start + i) % size \in 0 .. size - 1
  BY <1>1, <1>2
<1>4. ASSUME NEW o \in 0 .. size - 1 PROVE \E i \in 0 .. size - 1 : (start + i) % size = o
  <2>1. CASE o >= start
    <3>1. o - start \in 0 .. size - 1 /\ start + (o - start) = o /\ o \in Nat /\ o < size
      BY <2>1
    <3> QED BY <1>1, <3>1
  <2>2. CASE o < start
    <3>1. /\ (o - start) + size \in 0 .. size - 1 /\ start + ((o - start) + size) = o + size
          /\ o + size \in Nat /\ o + size >= size /\ o + size < 2 * size
          /\ (o + size) - size = o
      BY <2>2
    <3> QED BY <1>2, <3>1
  <2> QED BY <2>1, <2>2
<1> QED BY <1>3, <1>4

\* The scan from a random start finds an unprotected byte if there is one.
LEMMA NextIsFree ==
  ASSUME NEW protect, NEW size \in Nat \ {0}, NEW start \in 0 .. size - 1
  PROVE  /\ NextFree(protect, size, start) \in 0 .. size - 1
         /\ IsProtected(protect, NextFree(protect, size, start)) =>
              \A o \in 0 .. size - 1 : IsProtected(protect, o)
<1> DEFINE at(i) == (start + i) % size
           free == {i \in 0 .. size - 1 : ~IsProtected(protect, at(i))}
<1>1. NextFree(protect, size, start) = IF free = {} THEN 0 ELSE at(Min(free))
  BY DEF NextFree
<1>2. /\ \A i \in 0 .. size - 1 : at(i) \in 0 .. size - 1
      /\ \A o \in 0 .. size - 1 : \E i \in 0 .. size - 1 : at(i) = o
  BY OnceRound
<1> HIDE DEF at
<1>3. CASE free = {}
  <2>1. \A o \in 0 .. size - 1 : IsProtected(protect, o)
    BY <1>2, <1>3
  <2> QED BY <1>1, <1>3, <2>1
<1>4. CASE free # {}
  <2>1. free \in SUBSET Nat
    OBVIOUS
  <2>2. PICK i \in free : \A j \in free : i <= j
    <3> HIDE DEF free
    <3> QED BY <1>4, <2>1, LeastExists
  <2>3. Min(free) \in free
    <3> HIDE DEF free
    <3> QED BY <2>2 DEF Min
  <2>4. at(Min(free)) \in 0 .. size - 1 /\ ~IsProtected(protect, at(Min(free)))
    <3>1. \A j \in free : at(j) \in 0 .. size - 1 /\ ~IsProtected(protect, at(j))
      BY <1>2
    <3> QED BY <2>3, <3>1
  <2>5. NextFree(protect, size, start) = at(Min(free))
    BY <1>1, <1>4
  <2> QED BY <2>4, <2>5
<1> QED BY <1>3, <1>4

\* For inputs of every size, any number of protected ranges that do not overlap,
\* sorted as add_recipe leaves them, and any ranges to focus on:
\* choose_focus_offset finds a byte, it lies in the input, and it is protected
\* only when all bytes are (mutator_core.cpp:40-74).  It is the byte of a flip,
\* an overwriting or an addition and the first one of a deletion; insertion and
\* splicing do not ask.
THEOREM OffsetsRespectProtection ==
  ASSUME NEW protect \in Seq(ByteRanges), NoOverlap(protect), NEW focus \in Seq(ByteRanges),
         NEW size \in Nat \ {0}
  PROVE  /\ Offsets(focus, SortedRanges(protect), size) # {}
         /\ Offsets(focus, SortedRanges(protect), size) \subseteq 0 .. size - 1
         /\ (\E o \in Offsets(focus, SortedRanges(protect), size) : Covered(protect, o)) =>
              \A o \in 0 .. size - 1 : Covered(protect, o)
<1> DEFINE s == SortedRanges(protect)
           A == Attempts(focus, size)
           Scan == {NextFree(s, size, start) : start \in 0 .. size - 1}
           chosen == Offsets(focus, s, size)
<1>1. chosen = {o \in A : ~IsProtected(s, o)}
                 \union (IF \E o \in A : IsProtected(s, o) THEN Scan ELSE {})
  BY DEF Offsets
<1>2. A # {} /\ A \subseteq 0 .. size - 1
  BY AttemptsInside
<1>3. Scan # {} /\ Scan \subseteq 0 .. size - 1
  <2>1. 0 \in 0 .. size - 1
    OBVIOUS
  <2>2. \A start \in 0 .. size - 1 : NextFree(s, size, start) \in 0 .. size - 1
    BY NextIsFree
  <2> QED BY <2>1, <2>2
<1>4. \A o \in 0 .. size - 1 : IsProtected(s, o) <=> Covered(protect, o)
  <2>1. \A o \in 0 .. size - 1 : o \in Nat
    OBVIOUS
  <2> QED BY <2>1, SearchDecides
<1>5. \A o \in Scan : IsProtected(s, o) => \A u \in 0 .. size - 1 : IsProtected(s, u)
  BY NextIsFree
<1> HIDE DEF s, A, Scan, chosen
<1>6. chosen # {} /\ chosen \subseteq 0 .. size - 1
  BY <1>1, <1>2, <1>3
<1>7. ASSUME NEW o \in chosen, Covered(protect, o)
      PROVE  \A u \in 0 .. size - 1 : Covered(protect, u)
  <2>1. IsProtected(s, o)
    BY <1>4, <1>6, <1>7
  <2>2. o \in Scan
    BY <1>1, <2>1
  <2> QED BY <1>4, <1>5, <2>1, <2>2
<1> QED BY <1>6, <1>7 DEF s, chosen

-----------------------------------------------------------------------------
(* What a load keeps *)

\* No two of the recipes are equally strong.
Distinct(A) == \A u, v \in A : u # v => Stronger(u, v) \/ Stronger(v, u)

\* The pairs of recipes of which one is stronger.
Differ(X) == {p \in X \X X : Stronger(p[1], p[2]) \/ Stronger(p[2], p[1])}

\* b is the strongest recipe of A for its key.
IsBest(A, b) == b \in A /\ \A u \in A : u.key = b.key /\ u # b => Stronger(b, u)
BestOf(A) == {b \in A : IsBest(A, b)}

\* The map holds, of the best recipes of A for their keys, at most MaxHashed, and
\* the stronger ones.
Holds(h, A) ==
    /\ IsFiniteSet(DOMAIN h) /\ Cardinality(DOMAIN h) <= MaxHashed
    /\ \A k \in DOMAIN h : h[k].key = k /\ IsBest(A, h[k])
    /\ \A o \in A : o.key \notin DOMAIN h =>
          /\ Cardinality(DOMAIN h) = MaxHashed
          /\ \A k \in DOMAIN h : Stronger(h[k], o)
    /\ \A o \in A : \E b \in A : b.key = o.key /\ IsBest(A, b)

\* Being stronger is a strict order.
LEMMA StrongerIsStrict ==
  ASSUME NEW X, Ranked(X)
  PROVE  /\ \A u \in X, v \in X : Stronger(u, v) => ~Stronger(v, u) /\ u # v
         /\ \A u \in X, v \in X, t \in X : Stronger(u, v) /\ Stronger(v, t) => Stronger(u, t)
<1>1. \A u \in X : u.id \in Int /\ u.priority \in Int
  BY DEF Ranked
<1>2. ASSUME NEW u \in X, NEW v \in X, Stronger(u, v) PROVE ~Stronger(v, u) /\ u # v
  BY <1>1, <1>2 DEF Stronger
<1>3. ASSUME NEW u \in X, NEW v \in X, NEW t \in X, Stronger(u, v), Stronger(v, t)
      PROVE  Stronger(u, t)
  BY <1>1, <1>3 DEF Stronger
<1> QED BY <1>2, <1>3

\* One more recipe makes it the best for its key, or leaves the best as it is.
LEMMA BestOfMore ==
  ASSUME NEW X, Ranked(X), NEW A \in SUBSET X, NEW r \in X, Distinct(A \union {r}),
         \A o \in A : \E b \in A : b.key = o.key /\ IsBest(A, b)
  PROVE  \A o \in A \union {r} : \E b \in A \union {r} : b.key = o.key /\ IsBest(A \union {r}, b)
<1> DEFINE B == A \union {r}
<1>1. /\ \A u \in X, v \in X, t \in X : Stronger(u, v) /\ Stronger(v, t) => Stronger(u, t)
      /\ \A u \in B, v \in B : u # v => Stronger(u, v) \/ Stronger(v, u)
      /\ B \subseteq X
  BY StrongerIsStrict DEF Distinct
<1>2. ASSUME NEW b \in A, IsBest(A, b) PROVE b.key # r.key \/ Stronger(b, r) \/ b = r => IsBest(B, b)
  BY <1>2 DEF IsBest
<1>3. ASSUME NEW b \in A, IsBest(A, b), b.key = r.key, Stronger(r, b) PROVE IsBest(B, r)
  BY <1>1, <1>3 DEF IsBest
<1>4. ASSUME \A b \in A : b.key # r.key PROVE IsBest(B, r)
  BY <1>4 DEF IsBest
<1>5. \E b \in B : b.key = r.key /\ IsBest(B, b)
  <2>1. CASE \E o \in A : o.key = r.key
    <3>1. PICK b \in A : b.key = r.key /\ IsBest(A, b)
      BY <2>1
    <3>2. b = r \/ Stronger(b, r) \/ Stronger(r, b)
      BY <1>1
    <3> QED BY <1>2, <1>3, <3>1, <3>2
  <2>2. CASE \A o \in A : o.key # r.key
    BY <1>4, <2>2
  <2> QED BY <2>1, <2>2
<1>6. ASSUME NEW o \in A, o.key # r.key PROVE \E b \in B : b.key = o.key /\ IsBest(B, b)
  <2>1. PICK b \in A : b.key = o.key /\ IsBest(A, b)
    OBVIOUS
  <2> QED BY <1>2, <1>6, <2>1
<1>7. ASSUME NEW o \in B, o.key = r.key PROVE \E b \in B : b.key = o.key /\ IsBest(B, b)
  BY <1>5, <1>7
<1> QED BY <1>6, <1>7

\* HashedWith and the eviction that may follow keep the stronger ones of the best,
\* also when a recipe comes for a key that was evicted before.
LEMMA HoldsMore ==
  ASSUME NEW K, NEW X, KeyedBy(X, K), Ranked(X),
         NEW A \in SUBSET X, NEW r \in X, Distinct(A \union {r}),
         NEW f \in PartialOf(K, X), Holds(f, A), NEW h \in Capped(HashedWith(f, r))
  PROVE  Holds(h, A \union {r})
<1> DEFINE B == A \union {r}
           g == HashedWith(f, r)
           D == DOMAIN f
<1>1. /\ \A u \in X, v \in X : Stronger(u, v) => ~Stronger(v, u) /\ u # v
      /\ \A u \in X, v \in X, t \in X : Stronger(u, v) /\ Stronger(v, t) => Stronger(u, t)
  BY StrongerIsStrict
<1>2. /\ \A u \in B, v \in B : u # v => Stronger(u, v) \/ Stronger(v, u)
      /\ B \subseteq X
  BY DEF Distinct
<1>3. /\ IsFiniteSet(D) /\ Cardinality(D) <= MaxHashed
      /\ \A k \in D : f[k].key = k /\ IsBest(A, f[k])
      /\ \A o \in A : o.key \notin D => Cardinality(D) = MaxHashed /\ \A k \in D : Stronger(f[k], o)
      /\ \A o \in A : \E b \in A : b.key = o.key /\ IsBest(A, b)
  BY DEF Holds
<1>4. Cardinality(D) \in Nat /\ MaxHashed \in Nat
  BY <1>3, FS_CardinalityType, CacheAssumption
<1>5. \A k \in D : f[k] \in A /\ f[k] \in X /\ f[k] \in B
  BY <1>3 DEF IsBest
<1>6. \A o \in B : \E b \in B : b.key = o.key /\ IsBest(B, b)
  BY <1>3, BestOfMore
<1>7. ASSUME NEW k \in D, k # r.key \/ f[k] = r \/ Stronger(f[k], r) PROVE IsBest(B, f[k])
  BY <1>3, <1>7 DEF IsBest
<1>8. h \in IF Cardinality(DOMAIN g) <= MaxHashed THEN {g}
             ELSE {Restrict(g, DOMAIN g \ {v}) : v \in Victims(g)}
  BY DEF Capped
<1>9. CASE r.key \in D /\ ~Stronger(r, f[r.key])
  <2>1. g = f
    BY <1>9 DEF HashedWith
  <2>2. h = f
    BY <1>3, <1>8, <2>1
  <2>3. f[r.key] = r \/ Stronger(f[r.key], r)
    BY <1>2, <1>5, <1>9
  <2>4. \A k \in D : f[k].key = k /\ IsBest(B, f[k])
    BY <1>3, <1>7, <2>3
  <2>5. \A o \in B : o.key \notin D => Cardinality(D) = MaxHashed /\ \A k \in D : Stronger(f[k], o)
    BY <1>3, <1>9
  <2> QED BY <1>3, <1>6, <2>2, <2>4, <2>5 DEF Holds
<1>10. CASE r.key \in D /\ Stronger(r, f[r.key])
  <2>1. g = [k \in D |-> IF k = r.key THEN r ELSE f[k]]
    <3>1. D \union {r.key} = D
      BY <1>10
    <3> QED BY <1>10, <3>1 DEF HashedWith
  <2>2. DOMAIN g = D /\ \A k \in D : g[k] = IF k = r.key THEN r ELSE f[k]
    BY <2>1
  <2> HIDE DEF g
  <2>3. h = g
    BY <1>3, <1>8, <2>2
  <2>4. IsBest(B, r)
    BY <1>1, <1>2, <1>3, <1>5, <1>10 DEF IsBest
  <2>5. \A k \in D : g[k].key = k /\ IsBest(B, g[k])
    BY <1>3, <1>7, <2>2, <2>4
  <2>6. ASSUME NEW o \in B, o.key \notin D
        PROVE  Cardinality(D) = MaxHashed /\ \A k \in D : Stronger(g[k], o)
    <3>1. o \in A /\ o \in X
      BY <1>2, <1>10, <2>6
    <3>2. Cardinality(D) = MaxHashed /\ \A k \in D : Stronger(f[k], o)
      BY <1>3, <2>6, <3>1
    <3>3. Stronger(r, o)
      BY <1>1, <1>5, <1>10, <3>1, <3>2
    <3> QED BY <2>2, <3>2, <3>3
  <2> QED BY <1>3, <1>6, <2>2, <2>3, <2>5, <2>6 DEF Holds
<1>11. CASE r.key \notin D
  <2>1. g = [k \in D \union {r.key} |-> IF k = r.key THEN r ELSE f[k]]
    BY <1>11 DEF HashedWith
  <2>2. /\ DOMAIN g = D \union {r.key} /\ g[r.key] = r
        /\ \A k \in D : g[k] = f[k]
    BY <1>11, <2>1
  <2>3. Cardinality(DOMAIN g) = Cardinality(D) + 1 /\ IsFiniteSet(DOMAIN g)
    BY <1>3, <1>11, <2>2, FS_AddElement
  <2>4. \A k \in D : g[k].key = k /\ IsBest(B, g[k])
    BY <1>3, <1>7, <1>11, <2>2
  <2> HIDE DEF g
  <2>5. CASE Cardinality(D) < MaxHashed
    <3>1. h = g
      BY <1>4, <1>8, <2>3, <2>5
    <3>2. \A o \in A : o.key \in D
      BY <1>3, <1>4, <2>5
    <3>3. IsBest(B, r)
      BY <1>11, <3>2 DEF IsBest
    <3>4. \A k \in DOMAIN g : g[k].key = k /\ IsBest(B, g[k])
      BY <2>2, <2>4, <3>3
    <3>5. \A o \in B : o.key \in DOMAIN g
      BY <2>2, <3>2
    <3>6. Cardinality(DOMAIN g) <= MaxHashed
      BY <1>4, <2>3, <2>5
    <3> QED BY <1>6, <2>3, <3>1, <3>4, <3>5, <3>6 DEF Holds
  <2>6. CASE Cardinality(D) = MaxHashed
    <3>1. PICK v \in Victims(g) : h = Restrict(g, DOMAIN g \ {v})
      BY <1>4, <1>8, <2>3, <2>6
    <3>2. DOMAIN h = DOMAIN g \ {v} /\ \A k \in DOMAIN g \ {v} : h[k] = g[k]
      BY <3>1 DEF Restrict
    <3>3. v \in DOMAIN g /\ \A j \in DOMAIN g : ~Stronger(g[v], g[j])
      BY <3>1 DEF Victims
    <3>4. \A j \in DOMAIN g : g[j] \in B /\ g[j] \in X /\ g[j].key = j
      BY <1>2, <1>3, <1>5, <2>2
    <3>5. \A j \in DOMAIN g \ {v} : Stronger(g[j], g[v])
      BY <1>2, <3>3, <3>4
    <3>6. IsFiniteSet(DOMAIN h) /\ Cardinality(DOMAIN h) = MaxHashed
      <4>1. DOMAIN h = DOMAIN g \ {v}
        BY <3>2
      <4>2. /\ IsFiniteSet(DOMAIN g \ {v})
            /\ Cardinality(DOMAIN g \ {v}) = Cardinality(DOMAIN g) - 1
        BY <2>3, <3>3, FS_RemoveElement
      <4> QED BY <1>4, <2>3, <2>6, <4>1, <4>2
    <3>7. CASE v = r.key
      <4>1. DOMAIN h = D /\ \A k \in D : h[k] = f[k]
        BY <1>11, <2>2, <3>2, <3>7
      <4>2. \A k \in D : Stronger(f[k], r)
        BY <1>11, <2>2, <3>5, <3>7
      <4>3. ASSUME NEW o \in B, o.key \notin D PROVE \A k \in D : Stronger(f[k], o)
        BY <1>3, <4>2, <4>3
      <4>4. \A k \in D : f[k].key = k /\ IsBest(B, f[k])
        BY <2>2, <2>4
      <4> QED BY <1>6, <3>6, <4>1, <4>3, <4>4 DEF Holds
    <3>8. CASE v # r.key
      <4>1. v \in D /\ Stronger(r, f[v]) /\ g[v] = f[v] /\ r.key \in DOMAIN h /\ h[r.key] = r
        BY <2>2, <3>2, <3>3, <3>5, <3>8
      <4>2. \A o \in A : o.key \notin D => Stronger(r, o)
        BY <1>1, <1>2, <1>3, <1>5, <4>1
      <4>3. IsBest(B, r)
        BY <1>11, <4>2 DEF IsBest
      <4>4. \A k \in DOMAIN h : h[k].key = k /\ IsBest(B, h[k])
        BY <2>2, <2>4, <3>2, <3>4, <4>3
      <4>5. ASSUME NEW o \in B, o.key \notin DOMAIN h, NEW k \in DOMAIN h
            PROVE  Stronger(h[k], o)
        <5>1. o.key # r.key /\ o \in A /\ o \in X
          BY <1>2, <4>1, <4>5
        <5>2. h[k] = g[k] /\ k \in DOMAIN g /\ k # v /\ Stronger(g[k], f[v]) /\ g[k] \in X
          BY <3>2, <3>4, <3>5, <4>1
        <5>3. CASE o.key = v
          <6>1. o = f[v] \/ Stronger(f[v], o)
            BY <1>3, <4>1, <5>1, <5>3 DEF IsBest
          <6> QED BY <1>1, <1>5, <4>1, <5>1, <5>2, <6>1
        <5>4. CASE o.key # v
          <6>1. o.key \notin D
            BY <2>2, <3>2, <4>5, <5>4
          <6>2. Stronger(f[v], o)
            BY <1>3, <4>1, <5>1, <6>1
          <6> QED BY <1>1, <1>5, <4>1, <5>1, <5>2, <6>2
        <5> QED BY <5>3, <5>4
      <4>6. \A o \in B : o.key \notin DOMAIN h =>
              Cardinality(DOMAIN h) = MaxHashed /\ \A k \in DOMAIN h : Stronger(h[k], o)
        BY <3>6, <4>5
      <4>7. Cardinality(DOMAIN h) <= MaxHashed
        BY <1>4, <3>6
      <4> QED BY <1>6, <3>6, <4>4, <4>6, <4>7 DEF Holds
    <3> QED BY <3>7, <3>8
  <2> QED BY <1>3, <1>4, <2>5, <2>6
<1> QED BY <1>9, <1>10, <1>11

\* A set of at most n recipes, each stronger than every other one, when there are
\* others, is what Top takes.
LEMMA TopIs ==
  ASSUME NEW X, Ranked(X), NEW B \in SUBSET X, NEW H \in SUBSET B, NEW n \in Nat,
         IsFiniteSet(B), Cardinality(H) <= n,
         \A o \in B \ H : Cardinality(H) = n /\ \A b \in H : Stronger(b, o)
  PROVE  Top(B, n) = H
<1> DEFINE above(r) == {o \in B : Stronger(o, r)}
<1>1. /\ \A u \in X, v \in X : Stronger(u, v) => ~Stronger(v, u) /\ u # v
      /\ \A u \in B : u \in X
  BY StrongerIsStrict
<1>2. IsFiniteSet(H) /\ Cardinality(H) \in Nat
  BY FS_Subset, FS_CardinalityType
<1>3. ASSUME NEW r \in H PROVE Cardinality(above(r)) < n
  <2>1. above(r) \subseteq H \ {r}
    <3> SUFFICES ASSUME NEW o \in B, Stronger(o, r) PROVE o \in H /\ o # r
      OBVIOUS
    <3>1. o \in X /\ r \in X
      BY <1>1
    <3>2. ~Stronger(r, o) /\ o # r
      BY <1>1, <3>1
    <3> QED BY <3>2
  <2>2. IsFiniteSet(H \ {r}) /\ Cardinality(H \ {r}) = Cardinality(H) - 1
    BY <1>2, FS_RemoveElement
  <2> HIDE DEF above
  <2>3. IsFiniteSet(above(r)) /\ Cardinality(above(r)) <= Cardinality(H \ {r})
    BY <2>1, <2>2, FS_Subset
  <2>4. Cardinality(above(r)) \in Nat
    BY <2>3, FS_CardinalityType
  <2> QED BY <1>2, <2>2, <2>3, <2>4
<1>4. ASSUME NEW r \in B \ H PROVE ~(Cardinality(above(r)) < n)
  <2>1. Cardinality(H) = n /\ H \subseteq above(r)
    BY <1>4
  <2> HIDE DEF above
  <2>2. IsFiniteSet(above(r))
    <3>1. above(r) \in SUBSET B
      BY DEF above
    <3> QED BY <3>1, FS_Subset
  <2>3. Cardinality(H) <= Cardinality(above(r)) /\ Cardinality(above(r)) \in Nat
    BY <2>1, <2>2, FS_Subset, FS_CardinalityType
  <2> QED BY <2>1, <2>3
<1> HIDE DEF above
<1>5. \A r \in B : r \in H <=> Cardinality(above(r)) < n
  BY <1>3, <1>4
<1>6. Top(B, n) = {r \in B : Cardinality(above(r)) < n}
  BY DEF Top, above
<1> QED BY <1>5, <1>6

\* The strongest recipe for a key is the one recipe that is best for it.
LEMMA StrongestIs ==
  ASSUME NEW X, Ranked(X), NEW A \in SUBSET X, NEW b, IsBest(A, b)
  PROVE  StrongestFor(A, b.key) = b
<1> DEFINE Is(r) == r.key = b.key /\ \A o \in A : o.key = b.key /\ o # r => Stronger(r, o)
<1>1. b \in A /\ Is(b)
  BY DEF IsBest
<1>2. \A u \in A, v \in A : Stronger(u, v) => ~Stronger(v, u)
  BY StrongerIsStrict
<1>3. \A r \in A : Is(r) => r = b
  BY <1>1, <1>2
<1>4. StrongestFor(A, b.key) = CHOOSE r \in A : Is(r)
  BY DEF StrongestFor
<1> HIDE DEF Is
<1> QED BY <1>1, <1>3, <1>4

\* So the map holds the strongest of the strongest recipes for the keys.
LEMMA HoldsTop ==
  ASSUME NEW K, NEW X, Ranked(X), NEW A \in SUBSET X, IsFiniteSet(A),
         NEW h \in PartialOf(K, X), Holds(h, A)
  PROVE  LET best == {StrongestFor(A, k) : k \in {r.key : r \in A}}
         IN  /\ DOMAIN h = {r.key : r \in Top(best, MaxHashed)}
             /\ Range(h) = Top(best, MaxHashed)
<1> DEFINE best == {StrongestFor(A, k) : k \in {r.key : r \in A}}
           D == DOMAIN h
           H == Range(h)
<1>1. /\ IsFiniteSet(D) /\ Cardinality(D) <= MaxHashed
      /\ \A k \in D : h[k].key = k /\ IsBest(A, h[k])
      /\ \A o \in A : o.key \notin D => Cardinality(D) = MaxHashed /\ \A k \in D : Stronger(h[k], o)
      /\ \A o \in A : \E b \in A : b.key = o.key /\ IsBest(A, b)
  BY DEF Holds
<1>2. best = BestOf(A)
  <2>1. \A b \in BestOf(A) : b \in A /\ StrongestFor(A, b.key) = b
    BY StrongestIs DEF BestOf
  <2>2. \A o \in A : \E b \in BestOf(A) : b.key = o.key
    BY <1>1 DEF BestOf
  <2>3. \A o \in A : StrongestFor(A, o.key) \in BestOf(A)
    BY <2>1, <2>2
  <2> QED BY <2>1, <2>3
<1>3. H = {h[k] : k \in D}
  BY DEF Range
<1>4. H \in SUBSET BestOf(A)
  BY <1>1, <1>3 DEF BestOf, IsBest
<1>5. BestOf(A) \in SUBSET X /\ IsFiniteSet(BestOf(A))
  <2>1. BestOf(A) \in SUBSET A
    BY DEF BestOf
  <2> QED BY <2>1, FS_Subset
<1>6. Cardinality(H) = Cardinality(D)
  <2>1. h \in Bijection(D, H)
    <3>1. h \in [D -> H] /\ D = DOMAIN h
      <4>1. h = [k \in D |-> h[k]]
        BY DEF PartialOf
      <4> QED BY <1>3, <4>1
    <3>2. \A a \in D, b \in D : h[a] = h[b] => a = b
      BY <1>1
    <3>3. \A t \in H : \E a \in D : h[a] = t
      BY <1>3
    <3> HIDE DEF D, H
    <3>4. IsInjective(h)
      BY <3>1, <3>2 DEF IsInjective
    <3> QED BY <3>1, <3>3, <3>4 DEF Bijection, Injection, Surjection
  <2>2. ExistsBijection(D, H)
    BY <2>1 DEF ExistsBijection
  <2> QED BY <1>1, <2>2, FS_Bijection
<1>7. ASSUME NEW o \in BestOf(A) \ H
      PROVE  Cardinality(H) = MaxHashed /\ \A b \in H : Stronger(b, o)
  <2>1. o \in A /\ IsBest(A, o)
    BY DEF BestOf
  <2>2. o.key \notin D
    <3> SUFFICES ASSUME o.key \in D PROVE FALSE
      OBVIOUS
    <3>1. h[o.key].key = o.key /\ IsBest(A, h[o.key])
      BY <1>1
    <3>2. StrongestFor(A, o.key) = o /\ StrongestFor(A, h[o.key].key) = h[o.key]
      BY <2>1, <3>1, StrongestIs
    <3> QED BY <1>3, <3>1, <3>2
  <2> QED BY <1>1, <1>3, <1>6, <2>1, <2>2
<1>8. MaxHashed \in Nat
  BY CacheAssumption
<1>9. Top(BestOf(A), MaxHashed) = H
  <2> HIDE DEF H
  <2>1. Cardinality(H) <= MaxHashed
    BY <1>1, <1>6
  <2> QED BY <1>4, <1>5, <1>7, <1>8, <2>1, TopIs
<1>10. D = {r.key : r \in H}
  <2> HIDE DEF D, H
  <2>1. \A k \in D : h[k] \in H /\ h[k].key = k
    BY <1>1, <1>3
  <2>2. \A r \in H : \E k \in D : r = h[k]
    BY <1>3
  <2> QED BY <2>1, <2>2
<1> HIDE DEF best, H
<1> QED BY <1>2, <1>9, <1>10 DEF best, H

\* What is kept of sorted recipes for names are the strongest, and the first of
\* them for a name is the one for that name.
LEMMA NamedTop ==
  ASSUME NEW K, NEW X, KeyedBy(X, K), Ranked(X), NEW named \in Seq(X),
         Pairwise(named, Differ(X))
  PROVE  /\ NamedKept(named) \in Seq(X)
         /\ Range(NamedKept(named)) = Top(Range(named), MaxNamed)
         /\ \A r \in Range(NamedKept(named)) :
              /\ r.key \in DOMAIN IndexOf(NamedKept(named))
              /\ IndexOf(NamedKept(named))[r.key] \in DOMAIN NamedKept(named)
              /\ NamedKept(named)[IndexOf(NamedKept(named))[r.key]] =
                   StrongestFor(Range(NamedKept(named)), r.key)
<1> DEFINE n == Len(named)
           m == IF n <= MaxNamed THEN n ELSE MaxNamed
           kept == NamedKept(named)
           H == Range(kept)
           B == Range(named)
<1>1. PICK s \in Seq(X) :
        /\ Sorted(s, named, StrengthOrder(X))
        /\ Pairwise(s, Differ(X))
        /\ kept = SubSeq(s, 1, m)
  BY KeptAre
<1>2. /\ Len(s) = n /\ DOMAIN s = 1 .. n /\ n \in Nat /\ MaxNamed \in Nat
      /\ \A i \in 1 .. n : s[i] \in X
      /\ DOMAIN named = 1 .. n
  <2>1. Len(s) = n
    BY <1>1 DEF Sorted
  <2> QED BY <1>1, <2>1, CacheAssumption
<1>3. m \in 0 .. n /\ m <= MaxNamed
  BY <1>2
<1>4. /\ kept \in Seq(X) /\ Len(kept) = m /\ DOMAIN kept = 1 .. m
      /\ \A i \in 1 .. m : kept[i] = s[i]
  <2>1. SubSeq(s, 1, m) \in Seq(X) /\ Len(SubSeq(s, 1, m)) = m
        /\ \A i \in 1 .. m : SubSeq(s, 1, m)[i] = s[i]
    <3> HIDE DEF m, n
    <3> QED BY <1>2, <1>3
  <2> HIDE DEF m, kept
  <2>2. kept \in Seq(X) /\ Len(kept) = m /\ \A i \in 1 .. m : kept[i] = s[i]
    BY <1>1, <2>1
  <2> QED BY <2>2
<1>5. \A u \in X, v \in X : Stronger(u, v) => ~Stronger(v, u) /\ u # v
  BY StrongerIsStrict
<1>6. ASSUME NEW i \in 1 .. n, NEW j \in 1 .. n, i < j PROVE Stronger(s[i], s[j])
  <2>1. <<s[i], s[j]>> \in StrengthOrder(X) /\ <<s[i], s[j]>> \in Differ(X)
    <3>1. i \in DOMAIN s /\ j \in DOMAIN s /\ i # j
      BY <1>2, <1>6
    <3> QED BY <1>1, <1>6, <3>1 DEF Sorted, Ascends, Pairwise
  <2> QED BY <2>1 DEF StrengthOrder, Differ
<1> HIDE DEF m, kept
<1>7. B = {s[i] : i \in 1 .. n}
  <2>1. SomeOf(s, named, n) /\ AllOf(s, named, n)
    BY <1>1 DEF Sorted
  <2>2. B = {named[i] : i \in 1 .. n}
    BY <1>2 DEF Range
  <2>3. \A i \in 1 .. n : \E j \in 1 .. n : s[i] = named[j]
    BY <1>2, <2>1 DEF SomeOf
  <2>4. \A j \in 1 .. n : \E i \in 1 .. n : s[i] = named[j]
    BY <1>2, <2>1 DEF AllOf
  <2> HIDE DEF B, n
  <2>5. \A b \in B : \E i \in 1 .. n : b = s[i]
    <3>1. \A b \in B : \E j \in 1 .. n : b = named[j]
      BY <2>2
    <3> QED BY <2>4, <3>1
  <2>6. \A i \in 1 .. n : s[i] \in B
    BY <2>2, <2>3
  <2> QED BY <2>5, <2>6
<1>8. H = {s[i] : i \in 1 .. m}
  BY <1>4 DEF Range
<1> HIDE DEF n, H, B
<1>9. \A i \in 1 .. m : i \in 1 .. n
  BY <1>2, <1>3
<1>10. H \in SUBSET B /\ B \in SUBSET X
  BY <1>2, <1>7, <1>8, <1>9
<1>11. IsFiniteSet(B)
  <2> DEFINE f == [i \in 1 .. n |-> s[i]]
  <2>1. f \in Surjection(1 .. n, B)
    BY <1>7 DEF Surjection
  <2>2. IsFiniteSet(1 .. n)
    BY <1>2, FS_Interval
  <2> HIDE DEF f
  <2> QED BY <2>1, <2>2, FS_Surjection
<1>12. Cardinality(H) = m
  <2> DEFINE f == [i \in 1 .. m |-> s[i]]
  <2>1. f \in [1 .. m -> H] /\ DOMAIN f = 1 .. m
    BY <1>8
  <2>2. \A i \in 1 .. m, j \in 1 .. m : f[i] = f[j] => i = j
    <3>1. ASSUME NEW i \in 1 .. m, NEW j \in 1 .. m, i < j PROVE s[i] # s[j]
      <4>1. Stronger(s[i], s[j]) /\ s[i] \in X /\ s[j] \in X
        BY <1>2, <1>6, <1>9, <3>1
      <4> QED BY <1>5, <4>1
    <3> QED BY <1>2, <1>3, <3>1
  <2>3. \A t \in H : \E i \in 1 .. m : f[i] = t
    BY <1>8
  <2> HIDE DEF f
  <2>4. f \in Bijection(1 .. m, H)
    <3>1. IsInjective(f)
      BY <2>1, <2>2 DEF IsInjective
    <3> QED BY <2>1, <2>3, <3>1 DEF Bijection, Injection, Surjection
  <2>5. IsFiniteSet(1 .. m) /\ Cardinality(1 .. m) = m
    BY <1>2, <1>3, FS_Interval
  <2>6. ExistsBijection(1 .. m, H)
    BY <2>4 DEF ExistsBijection
  <2> QED BY <2>5, <2>6, FS_Bijection
<1>13. ASSUME NEW o \in B \ H
       PROVE  Cardinality(H) = MaxNamed /\ \A b \in H : Stronger(b, o)
  <2>1. PICK j \in 1 .. n : o = s[j]
    BY <1>7
  <2>2. j > m
    BY <1>2, <1>3, <1>8, <2>1
  <2>3. m = MaxNamed
    BY <1>2, <1>3, <2>2 DEF m
  <2>4. \A i \in 1 .. m : Stronger(s[i], s[j])
    BY <1>2, <1>3, <1>6, <1>9, <2>2
  <2> QED BY <1>8, <1>12, <2>1, <2>3, <2>4
<1>14. Top(B, MaxNamed) = H
  <2>1. Cardinality(H) <= MaxNamed
    BY <1>3, <1>12
  <2> QED BY <1>2, <1>10, <1>11, <1>13, <2>1, TopIs
<1>15. ASSUME NEW r \in H
       PROVE  /\ r.key \in DOMAIN IndexOf(kept)
              /\ IndexOf(kept)[r.key] \in DOMAIN kept
              /\ kept[IndexOf(kept)[r.key]] = StrongestFor(H, r.key)
  <2> DEFINE b == IndexOf(kept)
  <2>1. Indexes(b, kept)
    BY <1>4, IndexMatches
  <2> HIDE DEF b
  <2>2. /\ DOMAIN b = {kept[i].key : i \in DOMAIN kept}
        /\ \A k \in DOMAIN b :
              /\ b[k] \in DOMAIN kept
              /\ kept[b[k]].key = k
              /\ \A i \in DOMAIN kept : kept[i].key = k => b[k] <= i
    BY <2>1 DEF Indexes
  <2>3. PICK l \in 1 .. m : r = s[l]
    BY <1>8
  <2>4. r.key \in DOMAIN b
    BY <1>4, <2>2, <2>3
  <2> DEFINE i == b[r.key]
             t == kept[i]
  <2>5. /\ i \in 1 .. m /\ t = s[i] /\ t.key = r.key
        /\ \A j \in 1 .. m : s[j].key = r.key => i <= j
    BY <1>4, <2>2, <2>4
  <2> HIDE DEF i, t
  <2>6. ASSUME NEW u \in H, u.key = t.key, u # t PROVE Stronger(t, u)
    <3>1. PICK j \in 1 .. m : u = s[j]
      BY <1>8
    <3>2. i <= j /\ i # j
      BY <2>5, <2>6, <3>1
    <3>3. i < j /\ i \in 1 .. n /\ j \in 1 .. n
      BY <1>2, <1>3, <1>9, <2>5, <3>2
    <3> QED BY <1>6, <2>5, <3>1, <3>3
  <2>7. t \in H
    BY <1>8, <2>5
  <2>8. IsBest(H, t)
    BY <2>6, <2>7 DEF IsBest
  <2>9. StrongestFor(H, t.key) = t
    <3>1. H \in SUBSET X
      BY <1>10
    <3> QED BY <2>8, <3>1, StrongestIs
  <2>10. i \in DOMAIN kept
    BY <1>4, <2>5
  <2> QED BY <2>4, <2>5, <2>9, <2>10 DEF b, i, t
<1> QED BY <1>4, <1>14, <1>15 DEF kept, H, B

\* What was read of a sequence of recipes after its first i.
ForNames(recipes, i) ==
    {r \in Range(recipes) : r.mode = "seed_id" /\ \E j \in 1 .. i : recipes[j] = r}
ForHashes(recipes, i) ==
    {r \in Range(recipes) : r.mode # "seed_id" /\ \E j \in 1 .. i : recipes[j] = r}

\* The next recipe is for a name or for a hash.
LEMMA ReadOneMore ==
  ASSUME NEW X, NEW recipes \in Seq(X), NEW i \in 1 .. Len(recipes)
  PROVE  /\ recipes[i].mode = "seed_id" =>
              /\ ForNames(recipes, i) = ForNames(recipes, i - 1) \union {recipes[i]}
              /\ ForHashes(recipes, i) = ForHashes(recipes, i - 1)
         /\ recipes[i].mode # "seed_id" =>
              /\ ForNames(recipes, i) = ForNames(recipes, i - 1)
              /\ ForHashes(recipes, i) = ForHashes(recipes, i - 1) \union {recipes[i]}
<1> DEFINE A == Range(recipes)
<1>1. recipes[i] \in A /\ i \in Nat
  BY DEF Range
<1>2. \A r : (\E j \in 1 .. i : recipes[j] = r)
             <=> (r = recipes[i] \/ \E j \in 1 .. i - 1 : recipes[j] = r)
  <2>1. \A j : j \in 1 .. i <=> j = i \/ j \in 1 .. i - 1
    BY <1>1
  <2> QED BY <2>1
<1> HIDE DEF A
<1> QED BY <1>1, <1>2 DEF ForNames, ForHashes, A

\* What a load has gathered after i recipes.
Gathered(d, recipes, i, X) ==
    /\ Pairwise(d.named, Differ(X))
    /\ Range(d.named) = ForNames(recipes, i)
    /\ Holds(d.hashed, ForHashes(recipes, i))

\* A load begins with nothing ...
LEMMA GathersNothing ==
  ASSUME NEW X, NEW recipes \in Seq(X)
  PROVE  Gathered(EmptyCache, recipes, 0, X)
<1> DEFINE none == <<>>
<1>1. EmptyCache.named = none /\ EmptyCache.hashed = none /\ DOMAIN none = {}
  BY DEF EmptyCache
<1>2. ForNames(recipes, 0) = {} /\ ForHashes(recipes, 0) = {}
  BY DEF ForNames, ForHashes
<1> HIDE DEF none
<1>3. Range(none) = {} /\ Pairwise(none, Differ(X))
  BY <1>1 DEF Range, Pairwise
<1>4. IsFiniteSet(DOMAIN none) /\ Cardinality(DOMAIN none) <= MaxHashed
  <2>1. IsFiniteSet({}) /\ Cardinality({}) = 0 /\ MaxHashed \in Nat
    BY FS_EmptySet, CacheAssumption
  <2> QED BY <1>1, <2>1
<1>5. Holds(none, {})
  BY <1>1, <1>4 DEF Holds
<1> QED BY <1>1, <1>2, <1>3, <1>5 DEF Gathered

\* ... and goes on with one recipe after the other.
LEMMA GathersOne ==
  ASSUME NEW K, NEW X, KeyedBy(X, K), Ranked(X), NEW recipes \in Seq(X),
         Pairwise(recipes, Differ(X)), NEW i \in 1 .. Len(recipes),
         NEW c \in CachesOf(K, X), Gathered(c, recipes, i - 1, X),
         NEW d \in AddRecipe(c, recipes[i])
  PROVE  d \in CachesOf(K, X) /\ Gathered(d, recipes, i, X)
<1> DEFINE r == recipes[i]
<1>1. /\ r \in X /\ DOMAIN recipes = 1 .. Len(recipes) /\ i \in Nat /\ Len(recipes) \in Nat
      /\ \A j \in 1 .. Len(recipes) : recipes[j] \in X
      /\ c.named \in Seq(X) /\ c.hashed \in PartialOf(K, X)
  BY DEF CachesOf
<1>2. /\ Pairwise(c.named, Differ(X))
      /\ Range(c.named) = ForNames(recipes, i - 1)
      /\ Holds(c.hashed, ForHashes(recipes, i - 1))
  BY DEF Gathered
<1>3. /\ d \in CachesOf(K, X)
      /\ r.mode = "seed_id" => d.named = Append(c.named, r) /\ d.hashed = c.hashed
      /\ r.mode # "seed_id" => d.named = c.named /\ d.hashed \in Capped(HashedWith(c.hashed, r))
  <2>1. d \in AddRecipe(c, r) /\ r \in X /\ c \in CachesOf(K, X)
    BY <1>1
  <2> HIDE DEF r
  <2>2. /\ d \in CachesOf(K, X)
        /\ d = [c EXCEPT !.named = d.named, !.hashed = d.hashed]
        /\ d.byName = c.byName /\ d.global = c.global /\ d.tracked = c.tracked
        /\ d.gtime = c.gtime /\ d.itime = c.itime
        /\ r.mode = "seed_id" => d.named = Append(c.named, r) /\ d.hashed = c.hashed
        /\ r.mode # "seed_id" => d.named = c.named /\ d.hashed \in Capped(HashedWith(c.hashed, r))
    BY <2>1, AddKeepsOf, Zenon
  <2> QED BY <2>2
<1>4. /\ r.mode = "seed_id" =>
            /\ ForNames(recipes, i) = ForNames(recipes, i - 1) \union {r}
            /\ ForHashes(recipes, i) = ForHashes(recipes, i - 1)
      /\ r.mode # "seed_id" =>
            /\ ForNames(recipes, i) = ForNames(recipes, i - 1)
            /\ ForHashes(recipes, i) = ForHashes(recipes, i - 1) \union {r}
  BY ReadOneMore
<1>5. CASE r.mode = "seed_id"
  <2> DEFINE q == c.named
             p == Append(q, r)
  <2>1. /\ q \in Seq(X) /\ Len(q) \in Nat /\ DOMAIN q = 1 .. Len(q)
        /\ DOMAIN p = 1 .. Len(q) + 1 /\ p[Len(q) + 1] = r
        /\ \A j \in 1 .. Len(q) : p[j] = q[j]
    BY <1>1
  <2>2. d.named = p /\ d.hashed = c.hashed
    BY <1>3, <1>5
  <2> HIDE DEF p
  <2>3. \A j \in 1 .. Len(q) : \E l \in 1 .. i - 1 : q[j] = recipes[l]
    <3>1. \A j \in 1 .. Len(q) : q[j] \in ForNames(recipes, i - 1)
      BY <1>2, <2>1 DEF Range
    <3> QED BY <3>1 DEF ForNames
  <2>4. \A l \in 1 .. i - 1 : <<recipes[l], r>> \in Differ(X) /\ <<r, recipes[l]>> \in Differ(X)
    <3> SUFFICES ASSUME NEW l \in 1 .. i - 1
                 PROVE  <<recipes[l], r>> \in Differ(X) /\ <<r, recipes[l]>> \in Differ(X)
      OBVIOUS
    <3>1. l \in DOMAIN recipes /\ i \in DOMAIN recipes /\ l # i
      BY <1>1
    <3> QED BY <3>1 DEF Pairwise
  <2>5. Pairwise(p, Differ(X))
    <3> SUFFICES ASSUME NEW a \in 1 .. Len(q) + 1, NEW b \in 1 .. Len(q) + 1, a # b
                 PROVE  <<p[a], p[b]>> \in Differ(X)
      BY <2>1 DEF Pairwise
    <3>1. CASE a = Len(q) + 1
      <4>1. b \in 1 .. Len(q)
        BY <2>1, <3>1
      <4> QED BY <2>1, <2>3, <2>4, <3>1, <4>1
    <3>2. CASE b = Len(q) + 1
      <4>1. a \in 1 .. Len(q)
        BY <2>1, <3>2
      <4> QED BY <2>1, <2>3, <2>4, <3>2, <4>1
    <3>3. CASE a \in 1 .. Len(q) /\ b \in 1 .. Len(q)
      <4>1. <<q[a], q[b]>> \in Differ(X)
        BY <1>2, <2>1, <3>3 DEF Pairwise
      <4> QED BY <2>1, <3>3, <4>1
    <3>4. (a \in 1 .. Len(q) \/ a = Len(q) + 1) /\ (b \in 1 .. Len(q) \/ b = Len(q) + 1)
      <4> HIDE DEF q
      <4> QED BY <2>1
    <3> HIDE DEF q
    <3> QED BY <3>1, <3>2, <3>3, <3>4
  <2>6. Range(p) = Range(q) \union {r}
    <3> HIDE DEF q
    <3>1. Range(p) = {p[j] : j \in 1 .. Len(q) + 1} /\ Range(q) = {q[j] : j \in 1 .. Len(q)}
      BY <2>1 DEF Range
    <3>2. \A j \in 1 .. Len(q) + 1 : p[j] \in Range(q) \union {r}
      <4>1. \A j \in 1 .. Len(q) + 1 : j \in 1 .. Len(q) \/ j = Len(q) + 1
        BY <2>1
      <4> QED BY <2>1, <3>1, <4>1
    <3>3. r \in Range(p)
      <4>1. Len(q) + 1 \in 1 .. Len(q) + 1
        BY <2>1
      <4> QED BY <2>1, <3>1, <4>1
    <3>4. \A j \in 1 .. Len(q) : q[j] \in Range(p)
      <4>1. \A j \in 1 .. Len(q) : j \in 1 .. Len(q) + 1
        BY <2>1
      <4> QED BY <2>1, <3>1, <4>1
    <3> QED BY <3>1, <3>2, <3>3, <3>4
  <2> QED BY <1>2, <1>3, <1>4, <1>5, <2>2, <2>5, <2>6 DEF Gathered
<1>6. CASE r.mode # "seed_id"
  <2> DEFINE A == ForHashes(recipes, i - 1)
  <2>1. A \in SUBSET X
    BY <1>1 DEF ForHashes, Range
  <2>2. Distinct(A \union {r})
    <3>1. \A u \in A \union {r} : \E j \in 1 .. Len(recipes) : recipes[j] = u
      BY <1>1 DEF ForHashes, Range
    <3> SUFFICES ASSUME NEW u \in A \union {r}, NEW v \in A \union {r}, u # v
                 PROVE  Stronger(u, v) \/ Stronger(v, u)
      BY DEF Distinct
    <3>2. PICK j \in 1 .. Len(recipes), l \in 1 .. Len(recipes) : recipes[j] = u /\ recipes[l] = v
      BY <3>1
    <3>3. <<recipes[j], recipes[l]>> \in Differ(X)
      BY <1>1, <3>2 DEF Pairwise
    <3> QED BY <3>2, <3>3 DEF Differ
  <2>3. d.named = c.named /\ d.hashed \in Capped(HashedWith(c.hashed, r))
    BY <1>3, <1>6
  <2>4. Holds(c.hashed, A)
    BY <1>2
  <2> HIDE DEF A, r
  <2>5. Holds(d.hashed, A \union {r})
    BY <1>1, <2>1, <2>2, <2>3, <2>4, HoldsMore
  <2>6. ForHashes(recipes, i) = A \union {r} /\ ForNames(recipes, i) = ForNames(recipes, i - 1)
    BY <1>4, <1>6 DEF A
  <2> QED BY <1>2, <1>3, <2>3, <2>5, <2>6 DEF Gathered
<1> QED BY <1>5, <1>6

\* What any load of recipes, in any order, of which no two are equally strong, can
\* leave in the cache: of the recipes for names the MaxNamed strongest, found under
\* their names; of the best recipes for each hash the MaxHashed strongest, whatever
\* was evicted on the way (recipe_cache.cpp:340-380).
KeptIs(c, all) ==
    LET names == {r \in all : r.mode = "seed_id"}
        hashes == {r \in all : r.mode # "seed_id"}
        named == Top(names, MaxNamed)
        best == {StrongestFor(hashes, k) : k \in {r.key : r \in hashes}}
    IN  /\ Range(c.named) = named
        /\ \A r \in named : \A hash :
              Lookup(c, r.key, hash) = StrongestFor(named, r.key).id
        /\ DOMAIN c.hashed = {r.key : r \in Top(best, MaxHashed)}
        /\ Range(c.hashed) = Top(best, MaxHashed)

\* The load ends by sorting what it gathered.
LEMMA GatheredIsKept ==
  ASSUME NEW K, NEW X, KeyedBy(X, K), Ranked(X), NEW recipes \in Seq(X),
         NEW d \in CachesOf(K, X), Gathered(d, recipes, Len(recipes), X)
  PROVE  KeptIs(FinishNamed(d), Range(recipes))
<1> DEFINE all == Range(recipes)
           names == {r \in all : r.mode = "seed_id"}
           hashes == {r \in all : r.mode # "seed_id"}
           c == FinishNamed(d)
<1>1. /\ d.named \in Seq(X) /\ d.hashed \in PartialOf(K, X)
      /\ DOMAIN recipes = 1 .. Len(recipes) /\ Len(recipes) \in Nat
      /\ \A j \in 1 .. Len(recipes) : recipes[j] \in X
  BY DEF CachesOf
<1>2. ForNames(recipes, Len(recipes)) = names /\ ForHashes(recipes, Len(recipes)) = hashes
  <2>1. \A r \in all : \E j \in 1 .. Len(recipes) : recipes[j] = r
    BY <1>1 DEF Range
  <2> HIDE DEF all
  <2> QED BY <2>1 DEF ForNames, ForHashes, all
<1>3. Pairwise(d.named, Differ(X)) /\ Range(d.named) = names /\ Holds(d.hashed, hashes)
  BY <1>2 DEF Gathered
<1>4. hashes \in SUBSET X /\ IsFiniteSet(hashes)
  <2>1. recipes \in Surjection(1 .. Len(recipes), all)
    <3>1. recipes \in [1 .. Len(recipes) -> all]
      BY <1>1 DEF Range
    <3>2. \A t \in all : \E j \in 1 .. Len(recipes) : recipes[j] = t
      BY <1>1 DEF Range
    <3> HIDE DEF all
    <3> QED BY <3>1, <3>2 DEF Surjection
  <2>2. IsFiniteSet(1 .. Len(recipes))
    BY <1>1, FS_Interval
  <2>3. IsFiniteSet(all)
    <3> HIDE DEF all
    <3> QED BY <2>1, <2>2, FS_Surjection
  <2>4. hashes \in SUBSET all /\ all \subseteq X
    BY <1>1 DEF Range
  <2> HIDE DEF all, hashes
  <2> QED BY <2>3, <2>4, FS_Subset
<1> HIDE DEF hashes, names
<1>5. LET best == {StrongestFor(hashes, k) : k \in {r.key : r \in hashes}}
      IN  /\ DOMAIN d.hashed = {r.key : r \in Top(best, MaxHashed)}
          /\ Range(d.hashed) = Top(best, MaxHashed)
  BY <1>1, <1>3, <1>4, HoldsTop
<1> DEFINE kept == NamedKept(d.named)
<1>6. /\ kept \in Seq(X)
      /\ Range(kept) = Top(names, MaxNamed)
      /\ \A r \in Range(kept) :
           /\ r.key \in DOMAIN IndexOf(kept)
           /\ IndexOf(kept)[r.key] \in DOMAIN kept
           /\ kept[IndexOf(kept)[r.key]] = StrongestFor(Range(kept), r.key)
  <2>1. /\ NamedKept(d.named) \in Seq(X)
        /\ Range(NamedKept(d.named)) = Top(Range(d.named), MaxNamed)
        /\ \A r \in Range(NamedKept(d.named)) :
             /\ r.key \in DOMAIN IndexOf(NamedKept(d.named))
             /\ IndexOf(NamedKept(d.named))[r.key] \in DOMAIN NamedKept(d.named)
             /\ NamedKept(d.named)[IndexOf(NamedKept(d.named))[r.key]] =
                  StrongestFor(Range(NamedKept(d.named)), r.key)
    BY <1>1, <1>3, NamedTop
  <2> QED BY <1>3, <2>1
<1> HIDE DEF kept
<1>7. c.hashed = d.hashed /\ Range(c.named) = Top(names, MaxNamed)
      /\ \A r \in Top(names, MaxNamed) : \A hash :
            Lookup(c, r.key, hash) = StrongestFor(Top(names, MaxNamed), r.key).id
  <2>1. CASE d.named = <<>>
    <3>1. c = d
      BY <2>1 DEF FinishNamed
    <3>2. Range(d.named) = {}
      BY <2>1 DEF Range
    <3>3. Top(names, MaxNamed) = {}
      BY <1>3, <3>2 DEF Top
    <3> QED BY <3>1, <3>2, <3>3
  <2>2. CASE d.named # <<>>
    <3> DEFINE b == IndexOf(kept)
    <3>1. c = [d EXCEPT !.named = kept, !.byName = b]
      BY <2>2 DEF FinishNamed, kept
    <3> HIDE DEF b, c
    <3>2. c.hashed = d.hashed /\ c.named = kept /\ c.byName = b
      BY <3>1 DEF CachesOf
    <3>3. ASSUME NEW r \in Top(names, MaxNamed), NEW hash
          PROVE  Lookup(c, r.key, hash) = StrongestFor(Top(names, MaxNamed), r.key).id
      <4>1. /\ r.key \in DOMAIN b /\ b[r.key] \in DOMAIN kept
            /\ kept[b[r.key]] = StrongestFor(Top(names, MaxNamed), r.key)
        BY <1>6 DEF b
      <4>2. b[r.key] <= Len(kept)
        <5>1. DOMAIN kept = 1 .. Len(kept) /\ Len(kept) \in Nat
          BY <1>6
        <5> QED BY <4>1, <5>1
      <4>3. Lookup(c, r.key, hash) = c.named[c.byName[r.key]].id
        BY <3>2, <4>1, <4>2 DEF Lookup
      <4> QED BY <3>2, <4>1, <4>3
    <3> QED BY <1>6, <3>2, <3>3
  <2> QED BY <2>1, <2>2
<1> HIDE DEF c, all
<1> QED BY <1>5, <1>7 DEF KeptIs, names, hashes, c, all

\* Whatever a load may gather is gathered so.
LEMMA AllGathered ==
  ASSUME NEW K, NEW X, KeyedBy(X, K), Ranked(X), NEW recipes \in Seq(X),
         Pairwise(recipes, Differ(X)), NEW d \in Filled(recipes, EmptyCache)[Len(recipes)]
  PROVE  d \in CachesOf(K, X) /\ Gathered(d, recipes, Len(recipes), X)
<1> DEFINE n == Len(recipes)
           F == Filled(recipes, EmptyCache)
           S == {i \in 0 .. n : \A e \in F[i] : e \in CachesOf(K, X) /\ Gathered(e, recipes, i, X)}
<1>1. n \in Nat
  OBVIOUS
<1>2. /\ F \in [0 .. n -> SUBSET CachesOf(K, X)]
      /\ F[0] = {EmptyCache}
      /\ \A i \in 1 .. n : F[i] = UNION {AddRecipe(e, recipes[i]) : e \in F[i - 1]}
  BY EmptyIsCacheOf, FilledDefOf
<1>3. 0 \in S
  BY <1>1, <1>2, EmptyIsCacheOf, GathersNothing
<1>4. ASSUME NEW i \in 1 .. n, i - 1 \in S PROVE i \in S
  <2>1. ASSUME NEW e \in F[i] PROVE e \in CachesOf(K, X) /\ Gathered(e, recipes, i, X)
    <3>1. PICK c \in F[i - 1] : e \in AddRecipe(c, recipes[i])
      BY <1>2, <2>1
    <3>2. c \in CachesOf(K, X) /\ Gathered(c, recipes, i - 1, X)
      BY <1>4
    <3> QED BY <3>1, <3>2, GathersOne
  <2> QED BY <1>1, <2>1
<1>5. \A i \in 0 .. n : i \in S
  <2> HIDE DEF S, n
  <2> QED BY <1>1, <1>3, <1>4, UpTo
<1>6. n \in S
  BY <1>1, <1>5
<1> QED BY <1>6

\* For every load of any number of recipes, of which no two are equally strong, and
\* every cap of the two parts of the cache (recipe_cache.cpp:340-380).
THEOREM StrongestAreKept ==
  ASSUME NEW K, NEW X, KeyedBy(X, K), Ranked(X), NEW recipes \in Seq(X),
         Pairwise(recipes, Differ(X)), NEW c \in LoadedFrom(recipes, EmptyCache)
  PROVE  KeptIs(c, Range(recipes))
<1>1. PICK d \in Filled(recipes, EmptyCache)[Len(recipes)] : c = FinishNamed(d)
  BY DEF LoadedFrom
<1>2. d \in CachesOf(K, X) /\ Gathered(d, recipes, Len(recipes), X)
  BY AllGathered
<1> QED BY <1>1, <1>2, GatheredIsKept

\* A cache filled by a load holds the strongest of what was read, which is the
\* property of the loads of three recipes.
THEOREM CacheKeepsTheStrongest == Spec => []CacheKeepsStrongest
<1>1. KeepsStrongest
  <2> DEFINE Ks == {"x", "y"}
             Ms == {"seed_id", "seed_hash"}
             X == [id : 1 .. 3, mode : Ms, key : Ks, priority : 1 .. 2]
  <2>1. KeyedBy(X, Ks) /\ Ranked(X)
    BY DEF KeyedBy, Ranked
  <2>2. ASSUME NEW recipes \in SmallLoads, NEW c \in LoadedFrom(recipes, EmptyCache)
        PROVE  LET all == Range(recipes)
                   keys == {r.key : r \in all}
                   named == Top(all, MaxNamed)
                   best == {StrongestFor(all, k) : k \in keys}
               IN  IF recipes[1].mode = "seed_id"
                   THEN /\ Range(c.named) = named
                        /\ \A r \in named :
                              Lookup(c, r.key, "") = StrongestFor(named, r.key).id
                   ELSE /\ DOMAIN c.hashed = {r.key : r \in Top(best, MaxHashed)}
                        /\ Range(c.hashed) = Top(best, MaxHashed)
    <3>1. PICK p \in Orders, m \in Ms, k \in [1 .. 3 -> Ks], q \in [1 .. 3 -> 1 .. 2] :
            recipes = [i \in 1 .. 3 |-> [id |-> p[i], mode |-> m, key |-> k[i], priority |-> q[i]]]
      BY DEF SmallLoads
    <3>2. p \in [1 .. 3 -> 1 .. 3] /\ \A i \in 1 .. 3, j \in 1 .. 3 : p[i] = p[j] => i = j
      BY DEF Orders, IsInjective
    <3>3. /\ DOMAIN recipes = 1 .. 3
          /\ \A i \in 1 .. 3 : /\ recipes[i] \in X /\ recipes[i].mode = m
                               /\ recipes[i].id = p[i] /\ recipes[i].priority = q[i]
      BY <3>1, <3>2
    <3>4. recipes \in [1 .. 3 -> X]
      BY <3>1, <3>2
    <3> HIDE DEF X
    <3>5. recipes \in Seq(X)
      <4>1. [1 .. 3 -> X] \in {[1 .. n -> X] : n \in Nat}
        OBVIOUS
      <4> QED BY <3>4, <4>1, SeqDef, Zenon
    <3>6. Pairwise(recipes, Differ(X))
      <4> SUFFICES ASSUME NEW i \in 1 .. 3, NEW j \in 1 .. 3, i # j
                   PROVE  <<recipes[i], recipes[j]>> \in Differ(X)
        BY <3>3 DEF Pairwise
      <4>1. p[i] # p[j] /\ p[i] \in Int /\ p[j] \in Int /\ q[i] \in Int /\ q[j] \in Int
        BY <3>2
      <4>2. Stronger(recipes[i], recipes[j]) \/ Stronger(recipes[j], recipes[i])
        BY <3>3, <4>1 DEF Stronger
      <4> QED BY <3>3, <4>2 DEF Differ
    <3>7. KeptIs(c, Range(recipes))
      BY <2>1, <3>5, <3>6, StrongestAreKept
    <3> DEFINE all == Range(recipes)
               names == {r \in all : r.mode = "seed_id"}
               hashes == {r \in all : r.mode # "seed_id"}
    <3>8. \A r \in all : r.mode = m
      BY <3>3 DEF Range
    <3>9. recipes[1].mode = m
      BY <3>3
    <3> HIDE DEF all
    <3>10. CASE m = "seed_id"
      <4>1. names = all
        BY <3>8, <3>10
      <4> HIDE DEF names
      <4>2. /\ Range(c.named) = Top(names, MaxNamed)
            /\ \A r \in Top(names, MaxNamed) : \A hash :
                  Lookup(c, r.key, hash) = StrongestFor(Top(names, MaxNamed), r.key).id
        BY <3>7 DEF KeptIs, names, all
      <4> QED BY <3>9, <3>10, <4>1, <4>2 DEF all
    <3>11. CASE m # "seed_id"
      <4>1. hashes = all
        BY <3>8, <3>11
      <4> HIDE DEF hashes
      <4> DEFINE best == {StrongestFor(hashes, l) : l \in {r.key : r \in hashes}}
      <4>2. /\ DOMAIN c.hashed = {r.key : r \in Top(best, MaxHashed)}
            /\ Range(c.hashed) = Top(best, MaxHashed)
        BY <3>7 DEF KeptIs, hashes, all
      <4> QED BY <3>9, <3>11, <4>1, <4>2 DEF all
    <3> QED BY <3>10, <3>11
  <2> QED BY <2>2 DEF KeepsStrongest
<1>2. CacheKeepsStrongest
  BY <1>1 DEF CacheKeepsStrongest
<1> QED BY <1>2, PTL
=============================================================================
