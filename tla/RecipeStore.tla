---- MODULE RecipeStore ----
(***************************************************************************)
(* The directory through which the controller, or the command line, hands  *)
(* mutation recipes to the mutator that runs inside AFL++                  *)
(* (src/mutation/recipe_store.cpp).                                        *)
(*                                                                         *)
(* Nothing locks the directory: write_compact_recipes is a sequence of     *)
(* file operations that a reader may see between any two.  `todo' holds    *)
(* the operations still to come; an ofstream empties its file when it is   *)
(* opened and writes its buffer when it is closed, two operations a reader *)
(* can come between.  `clock' is the time the file system stamps on files: *)
(* many operations fall into one tick.                                     *)
(***************************************************************************)
EXTENDS Integers, Sequences, SequencesExt

CONSTANTS
    Strategies,   \* ids of strategies, ordered as the code compares them
    Mode,         \* Mode[s]: "global", "seed_id" or "seed_hash"
    Key,          \* Key[s]: the seed, or the hash of a seed, s is meant for
    Priority,     \* Priority[s]
    FirstBatch,   \* what the store holds when the campaign is prepared
    Batches,      \* what is written to it later: promotions
    MaxBatches,   \* bound: batches written while the model runs
    MaxClock      \* bound: ticks of the file system's clock

Absent == -1      \* there is no such file
Torn   == 0       \* the file was opened for writing and is still empty

ASSUME StoreAssumption ==
    /\ Strategies \subseteq Nat \ {Torn}
    /\ Mode \in [Strategies -> {"global", "seed_id", "seed_hash"}]
    /\ Priority \in [Strategies -> Nat]
    /\ Batches \subseteq Seq(Strategies)
    /\ FirstBatch \in Seq(Strategies)
    /\ {MaxBatches, MaxClock} \subseteq Nat

VARIABLES
    disk,         \* global.recipe, recipe_index.tsv, their mtimes, compact/
    todo,         \* file operations write_compact_recipes has still to do
    batches,      \* batches begun (only for the bound)
    clock

storeVars == <<disk, todo, batches, clock>>

-----------------------------------------------------------------------------
\* The file operations of write_compact_recipes, in their order.
Operation(op, s) == [op |-> op, id |-> s]

\* Mutant: the index names the file before it is written.
LineFirst(s) ==
    IF Mode[s] = "global"
    THEN <<Operation("open_global", s), Operation("fill_global", s)>>
    ELSE <<Operation("append_line", s), Operation("fill_recipe", s)>>

WritesOf(s) ==
    IF Mode[s] = "global"
    THEN <<Operation("open_global", s), Operation("fill_global", s)>>
    ELSE <<Operation("fill_recipe", s), Operation("append_line", s)>>

WritesUpTo(batch) ==
    LET writes[n \in 0 .. Len(batch)] ==
          IF n = 0 THEN <<Operation("reset_index", Torn), Operation("header", Torn)>>
          ELSE writes[n - 1] \o WritesOf(batch[n])
    IN  writes

WritesOfBatch(batch) == WritesUpTo(batch)[Len(batch)]

\* The store before anything was written to it, and with FirstBatch in it.
NoStore ==
    [exists |-> FALSE, global |-> Absent, gtime |-> 0,
     indexed |-> FALSE, index |-> <<>>, itime |-> 0, filled |-> {}]

IsSeedRecipe(s) == Mode[s] # "global"

\* The index after the first n recipes of the batch, and after all of them.
IndexUpTo(batch) ==
    LET index[n \in 0 .. Len(batch)] ==
          IF n = 0 THEN <<>>
          ELSE IF IsSeedRecipe(batch[n]) THEN Append(index[n - 1], batch[n])
          ELSE index[n - 1]
    IN  index

IndexFor(batch) == IndexUpTo(batch)[Len(batch)]

Globals(batch) == {i \in DOMAIN batch : ~IsSeedRecipe(batch[i])}

Prepared ==
    [exists |-> TRUE,
     global |-> IF Globals(FirstBatch) = {} THEN Absent
                ELSE FirstBatch[Max(Globals(FirstBatch))],
     gtime |-> IF Globals(FirstBatch) = {} THEN 0 ELSE 1,
     indexed |-> TRUE, index |-> IndexFor(FirstBatch), itime |-> 1,
     filled |-> {s \in Range(FirstBatch) : IsSeedRecipe(s)}]

\* What `write-default-recipe' leaves: a global recipe and no index.
LoneGlobal ==
    [exists |-> TRUE, global |-> Prepared.global, gtime |-> Prepared.gtime,
     indexed |-> FALSE, index |-> <<>>, itime |-> 0, filled |-> {}]

StoreInit ==
    /\ disk \in {NoStore, LoneGlobal, Prepared}
    /\ todo = <<>>
    /\ batches = 0
    /\ clock = 1

-----------------------------------------------------------------------------
\* write_compact_recipes is called; ensure_layout makes the directories.
BeginBatch(batch) ==
    /\ todo = <<>>
    /\ batches < MaxBatches
    /\ batches' = batches + 1
    /\ todo' = WritesOfBatch(batch)
    /\ disk' = [disk EXCEPT !.exists = TRUE]
    /\ UNCHANGED clock

Doing(op) ==
    /\ todo # <<>>
    /\ Head(todo).op = op
    /\ todo' = Tail(todo)
    /\ UNCHANGED <<batches, clock>>

ResetIndex ==
    /\ Doing("reset_index")
    /\ disk' = [disk EXCEPT !.indexed = TRUE, !.index = <<>>, !.itime = clock]

\* The header is a comment line: only the mtime changes for a reader.
WriteHeader ==
    /\ Doing("header")
    /\ disk' = [disk EXCEPT !.itime = clock]

OpenGlobal ==
    /\ Doing("open_global")
    /\ disk' = [disk EXCEPT !.global = Torn, !.gtime = clock]

FillGlobal ==
    /\ Doing("fill_global")
    /\ disk' = [disk EXCEPT !.global = Head(todo).id, !.gtime = clock]

\* Every strategy has an id of its own (make_id) and no line names the file yet,
\* so that nobody sees it between open and close.
FillRecipe ==
    /\ Doing("fill_recipe")
    /\ disk' = [disk EXCEPT !.filled = @ \union {Head(todo).id}]

AppendLine ==
    /\ Doing("append_line")
    /\ disk' = [disk EXCEPT !.index = Append(@, Head(todo).id), !.itime = clock]

\* An invalid strategy, a full disk or the end of the writer's process: what
\* was done stays done and the rest is never written.
WriterStops ==
    /\ todo # <<>>
    /\ todo' = <<>>
    /\ UNCHANGED <<disk, batches, clock>>

Tick ==
    /\ clock < MaxClock
    /\ clock' = clock + 1
    /\ UNCHANGED <<disk, todo, batches>>

StoreStep ==
    \/ \E batch \in Batches : BeginBatch(batch)
    \/ ResetIndex
    \/ WriteHeader
    \/ OpenGlobal
    \/ FillGlobal
    \/ FillRecipe
    \/ AppendLine
    \/ WriterStops
    \/ Tick

====
