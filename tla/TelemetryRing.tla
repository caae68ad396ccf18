---- MODULE TelemetryRing ----
(***************************************************************************)
(* The counters of the mutator, the file it appends them to and the reader *)
(* of that file (src/mutators/fuzzpilot/telemetry_ring.cpp and             *)
(* src/telemetry/mutation_events.cpp).                                     *)
(*                                                                         *)
(* A flush appends one line with the counters as they stand and leaves     *)
(* them as they are; the counters die with the AFL++ process, the file     *)
(* outlives it.  The reader adds up the lines it has not seen yet.         *)
(***************************************************************************)
EXTENDS Integers, Sequences

VARIABLES
    ring,         \* the counters: recipe_hits_, recipe_misses_, mutation_count_
    lines,        \* mutator_telemetry.jsonl
    collected     \* the collector: its offset, in lines, and its totals

telemetryVars == <<ring, lines, collected>>

Zero == [hits |-> 0, misses |-> 0, count |-> 0]

TelemetryInit ==
    /\ ring = Zero
    /\ lines = <<>>
    /\ collected = [offset |-> 0, totals |-> Zero]

\* hit() or miss(), and one record() for each mutation made.
Counted(hit, records) ==
    [hits   |-> ring.hits + (IF hit THEN 1 ELSE 0),
     misses |-> ring.misses + (IF hit THEN 0 ELSE 1),
     count  |-> ring.count + records]

FlushFromEnvironment == lines' = Append(lines, ring)

\* parse_mutator_telemetry_incremental, from sample(): every line after the
\* offset is added to the totals.
Added(totals, line) ==
    [hits   |-> totals.hits + line.hits,
     misses |-> totals.misses + line.misses,
     count  |-> totals.count + line.count]

TotalsOver(from) ==
    LET total[i \in 0..Len(lines)] ==
          IF i <= from THEN collected.totals ELSE Added(total[i - 1], lines[i])
    IN  total[Len(lines)]

Collect ==
    /\ collected.offset < Len(lines)
    /\ collected' = [offset |-> Len(lines), totals |-> TotalsOver(collected.offset)]
    /\ UNCHANGED <<ring, lines>>

====
