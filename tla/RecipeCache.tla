---- MODULE RecipeCache ----
(***************************************************************************)
(* The mutator's copy of the recipe store                                  *)
(* (src/mutators/fuzzpilot/recipe_cache.cpp).                              *)
(*                                                                         *)
(* load_from_environment reads global.recipe, then the lines of the index  *)
(* and the recipe each names, and only then asks for the mtimes of the two *)
(* files; each is a step of its own here, and the writer of RecipeStore    *)
(* may act between any two.  reload_if_stale compares the mtimes and loads *)
(* again when one of them changed.                                         *)
(*                                                                         *)
(* A recipe is its id, the key it is selected by and its priority; what it *)
(* tells the mutator to do to an input is in OffsetChoice.  A file that is *)
(* missing or still empty is parsed to the recipe "fallback": Torn.        *)
(***************************************************************************)
EXTENDS RecipeStore, FiniteSets, FiniteSetsExt, Functions

CONSTANTS
    MaxNamed,     \* kMaxSeedIdRecipes
    MaxHashed     \* kMaxHashEntries

Builtin == -2     \* the global recipe the constructor makes; its id is "fallback"

ASSUME CacheAssumption == {MaxNamed, MaxHashed} \subseteq Nat \ {0}

VARIABLES
    cache,        \* the members of RecipeCache
    load          \* where load_from_environment is

cacheVars == <<cache, load>>

-----------------------------------------------------------------------------
\* What a complete file for strategy s is parsed to, and what the file a line
\* of the index names is.
Recipe(s) == [id |-> s, mode |-> Mode[s], key |-> Key[s], priority |-> Priority[s]]

RecipeOf(s) == IF s \in disk.filled THEN Recipe(s) ELSE [Recipe(s) EXCEPT !.id = Torn]

Stronger(r, q) ==
    \/ r.priority > q.priority
    \/ r.priority = q.priority /\ r.id < q.id

\* A recipe for a hash replaces a weaker one for the same hash; when the map
\* grows past its cap a weakest entry goes, and which one of several equally
\* weak ones depends on the order of the map.
HashedWith(hashed, r) ==
    IF r.key \in DOMAIN hashed /\ ~Stronger(r, hashed[r.key]) THEN hashed
    ELSE [k \in DOMAIN hashed \union {r.key} |-> IF k = r.key THEN r ELSE hashed[k]]

\* Mutant: the strongest entry goes.
StrongestVictims(hashed) ==
    {k \in DOMAIN hashed : \A j \in DOMAIN hashed : ~Stronger(hashed[j], hashed[k])}

Victims(hashed) ==
    {k \in DOMAIN hashed : \A j \in DOMAIN hashed : ~Stronger(hashed[k], hashed[j])}

Capped(hashed) ==
    IF Cardinality(DOMAIN hashed) <= MaxHashed THEN {hashed}
    ELSE {Restrict(hashed, DOMAIN hashed \ {v}) : v \in Victims(hashed)}

\* add_recipe: the caches it may leave.
AddRecipe(c, r) ==
    IF r.mode = "seed_id" THEN {[c EXCEPT !.named = Append(@, r)]}
    ELSE {[c EXCEPT !.hashed = h] : h \in Capped(HashedWith(c.hashed, r))}

\* The end of a load: the stable sort, the cap and rebuild_seed_id_index.
Inserted(sorted, r) ==
    LET before == Cardinality({i \in DOMAIN sorted : ~Stronger(r, sorted[i])})
    IN  SubSeq(sorted, 1, before) \o <<r>> \o SubSeq(sorted, before + 1, Len(sorted))

SortedNamed(named) ==
    LET sorted[n \in 0 .. Len(named)] ==
          IF n = 0 THEN <<>> ELSE Inserted(sorted[n - 1], named[n])
    IN  sorted[Len(named)]

NamedKept(named) == SubSeq(SortedNamed(named), 1, Min({Len(named), MaxNamed}))

IndexOf(named) ==
    [k \in {named[i].key : i \in DOMAIN named} |->
        Min({i \in DOMAIN named : named[i].key = k})]

FinishNamed(c) ==
    IF c.named = <<>> THEN c
    ELSE [c EXCEPT !.named = NamedKept(c.named), !.byName = IndexOf(NamedKept(c.named))]

\* lookup: by the name of the seed, then by its hash, then the global recipe.
\* A global recipe is represented by its id.
HasSeedSpecific == cache.named # <<>> \/ DOMAIN cache.hashed # {}

Lookup(c, name, hash) ==
    IF name \in DOMAIN c.byName /\ c.byName[name] <= Len(c.named)
    THEN c.named[c.byName[name]].id
    ELSE IF hash \in DOMAIN c.hashed THEN c.hashed[hash].id
    ELSE c.global

\* A recipe for the seed is a hit whatever its id; the global recipe is one
\* unless its id is "fallback", and never before anything was loaded.
IsHit(c, name, hash) ==
    \/ name \in DOMAIN c.byName /\ c.byName[name] <= Len(c.named)
    \/ hash \in DOMAIN c.hashed
    \/ c.loaded /\ c.global \notin {Builtin, Torn}

-----------------------------------------------------------------------------
EmptyCache ==
    [global |-> Builtin, named |-> <<>>, byName |-> <<>>, hashed |-> <<>>,
     loaded |-> FALSE, tracked |-> FALSE, gtime |-> 0, itime |-> 0]

\* `began' is the tick the load that filled the cache started in, `checked' the
\* one of the last call of reload_if_stale; both are kept for the properties.
NoLoad == [pc |-> "down", lines |-> <<>>, began |-> 0, checked |-> 0]

CacheInit == cache = EmptyCache /\ load = NoLoad

Loading == load.pc \in {"global", "index", "lines", "stat"}

\* The mutator is constructed: an empty cache, and a first load.
ConstructCache ==
    /\ cache' = EmptyCache
    /\ load' = [pc |-> "global", lines |-> <<>>, began |-> clock, checked |-> clock]

\* The store must be a directory; then global.recipe, if there is one.
LoadGlobal ==
    /\ load.pc = "global"
    /\ IF ~disk.exists
       THEN cache' = cache /\ load' = [load EXCEPT !.pc = "loaded"]
       ELSE /\ cache' = IF disk.global = Absent THEN cache
                        ELSE [cache EXCEPT !.global = disk.global, !.loaded = TRUE]
            /\ load' = [load EXCEPT !.pc = "index"]

\* Without an index the load returns at once, before it remembers the store.
\* A small index is read with the first line.
OpenIndex ==
    /\ load.pc = "index"
    /\ load' = IF disk.indexed
               THEN [load EXCEPT !.pc = "lines", !.lines = disk.index]
               ELSE [load EXCEPT !.pc = "loaded"]
    /\ UNCHANGED cache

LoadLine ==
    /\ load.pc = "lines"
    /\ load.lines # <<>>
    /\ \E c \in AddRecipe(cache, RecipeOf(Head(load.lines))) :
          cache' = [c EXCEPT !.loaded = TRUE]
    /\ load' = [load EXCEPT !.lines = Tail(@)]

\* All lines are read: sort, cap, index, and the mtime of global.recipe ...
StatGlobal ==
    /\ load.pc = "lines"
    /\ load.lines = <<>>
    /\ cache' = [FinishNamed(cache) EXCEPT !.tracked = TRUE, !.gtime = disk.gtime]
    /\ load' = [load EXCEPT !.pc = "stat"]

\* ... and then that of the index.
StatIndex ==
    /\ load.pc = "stat"
    /\ cache' = [cache EXCEPT !.itime = disk.itime]
    /\ load' = [load EXCEPT !.pc = "loaded"]

LoadStep == LoadGlobal \/ OpenIndex \/ LoadLine \/ StatGlobal \/ StatIndex

\* Mutant: only global.recipe is looked at.
IsGlobalStale == cache.tracked /\ disk.gtime # cache.gtime

\* reload_if_stale up to the load it may start.  The two mtimes are taken in
\* one step: a change between them is seen by the next call.
IsStale == cache.tracked /\ (disk.gtime # cache.gtime \/ disk.itime # cache.itime)

\* Mutant: the index of the names outlives the recipes it points at.
ReloadKeepingIndex ==
    IF IsStale
    THEN /\ cache' = [cache EXCEPT !.named = <<>>, !.hashed = <<>>]
         /\ load' = [pc |-> "global", lines |-> <<>>, began |-> clock, checked |-> clock]
    ELSE /\ cache' = cache
         /\ load' = [load EXCEPT !.pc = "loaded", !.checked = clock]

ReloadIfStale ==
    IF IsStale
    THEN /\ cache' = [cache EXCEPT !.named = <<>>, !.byName = <<>>, !.hashed = <<>>]
         /\ load' = [pc |-> "global", lines |-> <<>>, began |-> clock, checked |-> clock]
    ELSE /\ cache' = cache
         /\ load' = [load EXCEPT !.pc = "loaded", !.checked = clock]

-----------------------------------------------------------------------------
\* What a load of these recipes, in this order, may leave in cache c.
Filled(recipes, c) ==
    LET after[i \in 0..Len(recipes)] ==
          IF i = 0 THEN {c}
          ELSE UNION {AddRecipe(d, recipes[i]) : d \in after[i - 1]}
    IN  after

LoadedFrom(recipes, c) == {FinishNamed(d) : d \in Filled(recipes, c)[Len(recipes)]}

Contents(c) == [named |-> c.named, byName |-> c.byName, hashed |-> c.hashed]

\* Three recipes of one kind, for two seeds, in every order of their ids and
\* with every order of their priorities.
Orders == {p \in [1..3 -> 1..3] : IsInjective(p)}
SmallLoads ==
    {[i \in 1..3 |-> [id |-> p[i], mode |-> m, key |-> k[i], priority |-> q[i]]]
       : p \in Orders, m \in {"seed_id", "seed_hash"},
         k \in [1..3 -> {"x", "y"}], q \in [1..3 -> 1..2]}

StrongestFor(recipes, k) ==
    CHOOSE r \in recipes :
        r.key = k /\ \A o \in recipes : o.key = k /\ o # r => Stronger(r, o)

Top(recipes, n) ==
    {r \in recipes : Cardinality({o \in recipes : Stronger(o, r)}) < n}

\* Against the recipes a full cache should hold: of all recipes for names the
\* strongest, and of the best recipes for each hash the strongest.
KeepsStrongest ==
    \A recipes \in SmallLoads : \A c \in LoadedFrom(recipes, EmptyCache) :
        LET all == Range(recipes)
            keys == {r.key : r \in all}
            named == Top(all, MaxNamed)
            best == {StrongestFor(all, k) : k \in keys}
        IN  IF recipes[1].mode = "seed_id"
            THEN /\ Range(c.named) = named
                 /\ \A r \in named :
                       Lookup(c, r.key, "") = StrongestFor(named, r.key).id
            ELSE /\ DOMAIN c.hashed = {r.key : r \in Top(best, MaxHashed)}
                 /\ Range(c.hashed) = Top(best, MaxHashed)
====
