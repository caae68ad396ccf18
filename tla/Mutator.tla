---- MODULE Mutator ----
(***************************************************************************)
(* The custom mutator inside AFL++ (src/mutators/fuzzpilot/mutator_core.cpp *)
(* and afl_custom_mutator.c), composed with the recipe store its writer    *)
(* changes meanwhile and with the telemetry file the collector reads.      *)
(*                                                                         *)
(* AFL++ is the caller: it takes an entry from its queue (queue_get), has  *)
(* it mutated any number of times (fuzz), tells of entries it found on the *)
(* way (queue_new_entry), and ends (deinit) or is killed.  It may then be  *)
(* launched again on the same files.  The mutator has one thread, so while *)
(* a load runs nothing else of it does; the writer and the collector do.   *)
(***************************************************************************)
EXTENDS RecipeCache, TelemetryRing, OffsetChoice

CONSTANTS
    Entries,        \* entries of AFL++'s queue
    HashOf,         \* HashOf[e]: the hash of the bytes of entry e
    MaxMutations,   \* bound: calls of fuzz in a behaviour
    MaxLines        \* bound: lines of telemetry

NoEntry == "no entry"

VARIABLES
    mutator,        \* current_seed, seed_hash_cache and seed_hash_valid
    entry,          \* the entry AFL++ is fuzzing
    pending,        \* the entry a queue_get in progress was called for
    done            \* for the bound and the properties: mutations ever made,
                    \* those since the last queue_get of this process, and
                    \* the lines there were when it was launched

vars == <<disk, todo, batches, clock, cache, load, ring, lines, collected,
          mutator, entry, pending, done>>
fuzzVars == <<mutator, entry, pending, done>>

NoSeed == [seed |-> NoEntry, hash |-> NoEntry, valid |-> FALSE]

\* Mutant: the hash of the last seed is kept.
Renamed(e) == [mutator EXCEPT !.seed = e]

Fresh(e) == [seed |-> e, hash |-> NoEntry, valid |-> FALSE]

Init ==
    /\ StoreInit
    /\ CacheInit
    /\ TelemetryInit
    /\ mutator = NoSeed
    /\ entry = NoEntry
    /\ pending = NoEntry
    /\ done = [ever |-> 0, sinceGet |-> 0, before |-> 0]

-----------------------------------------------------------------------------
\* AFL++ is launched: afl_custom_init, with the first load.
Launch ==
    /\ load.pc = "down"
    /\ Len(lines) < MaxLines
    /\ ConstructCache
    /\ done' = [done EXCEPT !.sinceGet = 0, !.before = Len(lines)]
    /\ UNCHANGED <<storeVars, telemetryVars, mutator, entry, pending>>

LoadOne ==
    /\ LoadStep
    /\ UNCHANGED <<storeVars, telemetryVars, fuzzVars>>

InitReturns ==
    /\ load.pc = "loaded"
    /\ pending = NoEntry
    /\ load' = [load EXCEPT !.pc = "idle"]
    /\ UNCHANGED <<storeVars, cache, telemetryVars, fuzzVars>>

\* afl_custom_queue_get: reload_if_stale; when its load, if any, is done,
\* the counters are flushed and the hash of the last seed is forgotten.
QueueGet(e) ==
    /\ load.pc = "idle"
    /\ Len(lines) < MaxLines
    /\ ReloadIfStale
    /\ pending' = e
    /\ UNCHANGED <<storeVars, telemetryVars, mutator, entry, done>>

\* Mutant: the counters are flushed at the end of AFL++ only.
QueueGetReturnsUnflushed ==
    /\ load.pc = "loaded"
    /\ pending # NoEntry
    /\ load' = [load EXCEPT !.pc = "idle"]
    /\ mutator' = Fresh(pending)
    /\ entry' = pending
    /\ pending' = NoEntry
    /\ done' = [done EXCEPT !.sinceGet = 0]
    /\ UNCHANGED <<storeVars, cache, telemetryVars>>

QueueGetReturns ==
    /\ load.pc = "loaded"
    /\ pending # NoEntry
    /\ load' = [load EXCEPT !.pc = "idle"]
    /\ FlushFromEnvironment
    /\ mutator' = Fresh(pending)
    /\ entry' = pending
    /\ pending' = NoEntry
    /\ done' = [done EXCEPT !.sinceGet = 0]
    /\ UNCHANGED <<storeVars, cache, ring, collected>>

\* AFL++ found a new entry while it was fuzzing another, which it goes on with.
QueueNewEntry(e) ==
    /\ load.pc = "idle"
    /\ entry # NoEntry
    /\ mutator' = Fresh(e)
    /\ UNCHANGED <<storeVars, cacheVars, telemetryVars, entry, pending, done>>

\* The hash of the buffer is computed once per seed, when there is a recipe
\* for some seed; without it lookup computes one of its own.
Hashed ==
    IF HasSeedSpecific /\ ~mutator.valid
    THEN [mutator EXCEPT !.hash = HashOf[entry], !.valid = TRUE]
    ELSE mutator

HashUsed == IF Hashed.hash = NoEntry THEN HashOf[entry] ELSE Hashed.hash

\* An operator records the one mutation it makes; one that cannot make any
\* (no token, nothing to splice, an input too short or too long) records
\* nothing, and a bit flip is made and recorded in its place.
Records(changed) == IF changed THEN 1 ELSE 0
FallbackRecords(changed) == IF changed THEN 0 ELSE 1

Fuzz ==
    /\ load.pc = "idle"
    /\ entry # NoEntry
    /\ done.ever < MaxMutations
    /\ mutator' = Hashed
    /\ \E changed \in BOOLEAN :
          ring' = Counted(IsHit(cache, mutator.seed, HashUsed),
                          Records(changed) + FallbackRecords(changed))
    /\ done' = [done EXCEPT !.ever = @ + 1, !.sinceGet = @ + 1]
    /\ UNCHANGED <<storeVars, cacheVars, lines, collected, entry, pending>>

\* With the process go the cache, the counters and the mutator.
ProcessEnds ==
    /\ cache' = EmptyCache
    /\ load' = NoLoad
    /\ ring' = Zero
    /\ mutator' = NoSeed
    /\ entry' = NoEntry
    /\ pending' = NoEntry

\* afl_custom_deinit flushes; a killed AFL++ does not.
Deinit ==
    /\ load.pc = "idle"
    /\ Len(lines) < MaxLines
    /\ FlushFromEnvironment
    /\ ProcessEnds
    /\ UNCHANGED <<storeVars, collected, done>>

Killed ==
    /\ load.pc # "down"
    /\ ProcessEnds
    /\ UNCHANGED <<storeVars, lines, collected, done>>

Write ==
    /\ StoreStep
    /\ UNCHANGED <<cacheVars, telemetryVars, fuzzVars>>

Sample ==
    /\ Collect
    /\ UNCHANGED <<storeVars, cacheVars, fuzzVars>>

Next ==
    \/ Launch
    \/ LoadOne
    \/ InitReturns
    \/ \E e \in Entries : QueueGet(e) \/ QueueNewEntry(e)
    \/ QueueGetReturns
    \/ Fuzz
    \/ Deinit
    \/ Killed
    \/ Write
    \/ Sample

Spec == Init /\ [][Next]_vars

-----------------------------------------------------------------------------
\* When a load was not raced - both files were last written in a tick before it
\* began - and nothing was written since the tick before the last queue_get,
\* the mutator works with what the store holds, whatever half-written rewrite it
\* may have loaded before (recipe_cache.cpp:301-342).  Without these conditions
\* it is not so: a recipe written between its reading and the stat that ends the
\* load, or in the same tick as that stat, is never loaded.
InSync ==
    (/\ load.pc = "idle"
     /\ cache.tracked
     /\ Max({cache.gtime, cache.itime}) < load.began
     /\ Max({disk.gtime, disk.itime}) < load.checked) =>
        /\ disk.global # Absent => cache.global = disk.global
        /\ \E c \in LoadedFrom([i \in DOMAIN disk.index |-> RecipeOf(disk.index[i])], EmptyCache) :
              Contents(c) = Contents(cache)

\* A line of the index is only ever seen with the file it names complete, so
\* that no seed is mutated with the empty recipe a torn file parses to
\* (recipe_store.cpp:157-172).
NoTornSeedRecipe ==
    /\ \A i \in DOMAIN cache.named : cache.named[i].id # Torn
    /\ \A k \in DOMAIN cache.hashed : cache.hashed[k].id # Torn

\* lookup never follows an index entry that belongs to another load: the recipe
\* it finds for a name was written for that name (recipe_cache.cpp:345-424).
NameFindsItsRecipe ==
    load.pc = "idle" =>
        \A k \in DOMAIN cache.byName :
            /\ cache.byName[k] \in DOMAIN cache.named
            /\ cache.named[cache.byName[k]].key = k

\* The beginnings of the indexes the writer writes, and what may be made of one.
Drafts == UNION {Range(IndexUpTo(batch)) : batch \in Batches \union {FirstBatch}}

OfIndex(index) == [i \in DOMAIN index |-> Recipe(index[i])]

OutcomesFrom(index, c) == {Contents(d) : d \in LoadedFrom(OfIndex(index), c)}

\* What the load in progress may become, and what the mutator works with: nothing
\* before the load is complete.
Reading == IF load.pc = "lines" THEN OutcomesFrom(load.lines, cache) ELSE {}

View ==
    IF load.pc \in {"global", "index", "lines"} THEN Contents(EmptyCache) ELSE Contents(cache)

RecipeExchange == INSTANCE RecipeExchange WITH
    Lines <- Strategies, Outcomes <- [draft \in Drafts |-> OutcomesFrom(draft, EmptyCache)],
    Nothing <- Contents(EmptyCache),
    published <- disk.index, reading <- Reading, view <- View

\* However the writer's operations fall between the steps of a load, the recipes
\* for seeds that it leaves are what complete files make of the index as it was
\* at one moment: the beginning of one batch, never parts of two, never a name
\* that outlived its recipe (recipe_cache.cpp:230-342, recipe_store.cpp:157-192).
LoadsAreSnapshots == RecipeExchange!ExchangeSpec

\* The hash a lookup is given is that of the bytes being mutated, however the
\* seed changed and whenever recipes for hashes came and went
\* (mutator_core.cpp:294-303).
HashIsOfTheBuffer ==
    (load.pc = "idle" /\ entry # NoEntry) => HashUsed = HashOf[entry]

\* What a SIGKILL loses is at most what was counted since the last queue_get
\* (mutator_core.cpp:366-370).
KillLosesOneEntry ==
    load.pc = "idle" =>
        LET own == SubSeq(lines, done.before + 1, Len(lines))
        IN  ring.count - (IF own = <<>> THEN 0 ELSE Last(own).count) <= done.sinceGet

\* A property of a single call, for all small arguments; `Init' has it
\* evaluated once.  Whatever the order of the index, a full cache holds the
\* strongest recipes, though these replace and evict one another a line at a
\* time, and a seed is mutated with the strongest one kept for it
\* (recipe_cache.cpp:285-299, 365-395, 416-424).
CacheKeepsStrongest == Init => KeepsStrongest

\* The totals never exceed what was done: "Reset accumulator ... so we don't
\* double-count nor lose data" (mutation_events.cpp:131).  The code violates
\* it: every flush repeats the counts of the flushes before it.
TotalsAreHonest == collected.totals.count <= done.ever
====
