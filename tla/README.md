# fuzzpilot: TLA+ models, model checking and proofs

fuzzpilot drives an AFL++ campaign: it starts AFL++, samples its statistics,
recognises plateaus, asks language-model agents for mutation strategies, tries
their proposals in short *micro-campaigns* and promotes a winner.  This directory
holds TLA+ modules of the parts whose correctness depends on order, time or
failure, TLC configurations that check them, and TLAPS proofs.

## Inventory

| Part | Source | State | Operations | Hard behaviour |
|---|---|---|---|---|
| Plateau detector | `src/plateau/detector.cpp` | window of samples, latch | `add_sample`, `reset` | unsigned time arithmetic, exact span of the window, one event per reset |
| Telemetry collection | `src/telemetry/collector.cpp`, `afl_stats.cpp`, `mutation_events.cpp` | cached copy of `fuzzer_stats`, mtime | `sample`, `reset_incremental_state` | a file rewritten by somebody else, staleness, duplicates |
| Run controller | `src/controller/run.cpp` | pids, loop counters, plateau id, rows | `run_mvp` | AFL++ may die and a signal may arrive at any step; exceptions; restarts |
| Reward tracker | `src/mutation/recipe_reward_tracker.cpp` | decisions with credit, edge baseline | `record_deploy`, `observe_edges`, `topk`, `bottomk` | two clocks, counter resets, sharing |
| Winner selection | `src/micro/evaluator.cpp` | none (pure) | `select_micro_winner_against_control` | order of results, failed control, two margins |
| Micro planner and spiral | `src/micro/manager.cpp`, the rounds in `run.cpp` | queues of files, snapshot, specs | `plan_micro_campaigns`, `prepare_micro_campaigns`, `snapshot_corpus`, merging, restart | coalescing, stages that fail, files skipped without a word, exceptions between two statements |
| Recipe store | `src/mutation/recipe_store.cpp`, `strategy.cpp`, ... | files | `write_compact_recipes` | concurrent reader |
| Custom mutator | `mutators/fuzzpilot/` | recipe cache, counters | reload, mutate, flush | reload during a rewrite, eviction, protected ranges |
| Agent runtime | `src/agents/agent_runtime.cpp` | decisions of the round | `run_agent_tasks` | deadline against slow calls |
| Model gateway | `src/model/gateway.cpp` | time of the last call | `complete_json` | spacing, retries, two time limits |
| Process runner | `src/runner/process_posix.cpp` | child processes, signal flag | spawn, wait, capture | escalation, process groups |
| Storage | `src/storage/db.cpp` | SQLite tables | insert/finish/read rows | every statement commits alone: nobody calls `begin_transaction` |
| JSON | `src/json_utils.cpp` | position, depth | validate, extract, escape | nesting cap, escapes, texts cut anywhere, several parsers of one text |
| The rest | `config.cpp`, `env.cpp`, `string_util.cpp`, `cli/main.cpp`, `experiments/`, `scripts/`, `docker/` | | parsing, dispatch, experiment runners | none to model |

How they interact: `run_mvp` is single-threaded.  Once a second it asks the
collector for a sample, gives it to the reward tracker and the detector, and on a
plateau (or heartbeat) runs the agents, which call the gateway, whose answers are
checked as JSON, stored, and turned by the planner into micro-campaigns; their results
go to winner selection.  Concurrent
with it are the AFL++ processes (with the custom mutator inside them, which reads the
recipe files the controller writes) and the operator's signal.  All communication with
AFL++ is through files (`fuzzer_stats`, recipes, queues), process states and signals.

What makes each part correct is stated as properties in its module; the places
where it could go wrong are listed with their lines in `PROJECT.json` ("hazards").

## Modules

**`PlateauDetector`** is `PlateauDetector::add_sample` and `reset`.  `window`,
`emitted`, `lastEmitTs` and `disabled` are the members of the same names; `event` is
the returned `std::optional`.  Each gate of the code is an operator (`EnoughSamples`,
`FullWindow`, `Live`, `NoJump`, `Executing`, `NoGrowth`, `LastPathOld`), and
`Plateaued` their conjunction.  `KeepPoints` is the eviction test with the cast to
`uint64_t`: a negative difference is huge, hence outside `0 .. WindowSec`.  A sample
carries the fields the detector reads; `busy` stands for
`execs_per_sec >= min_execs_per_sec`.

**`PlateauPipeline`** composes it with an AFL++ that rewrites `fuzzer_stats` (or hangs),
with `TelemetryCollector::sample` (`Collected`: the file as it is, flagged stale against
the wall clock) and with the controller's polls and interventions.  That the collector
may re-use its cached parse makes no difference to what it returns except for the flag,
which it recomputes in both cases; the mtime granularity of the file system is not
modelled.

**`RunController`** is `run_mvp` on the live path, one action per step between which
something else can happen.  `pc` names the place; `mainPid` is `summary.main_pid` (0 for
-1); `mains` and `micros` are the processes that are really alive, which the code does
not know; `elapsed`, `lastTrigger`, `plateau`, `early`, `received`, `rows`, `runRow` are
the variables and columns of similar names.  `Faults` is the set of places at which a
call may throw: `prepare` (static scan, gateway construction), `agents`, `inline` (inside
an intervention, after AFL++ was stopped), `snapshot` and `spawn` (in the final round).
The environment consists of `AflWritesStats`, `AflDies` and `Signal`.  The three modes
are the distinctions `ablation_mode` makes for the control flow.  The detector is
reduced here to its latch: it may fire at any sample when it is not latched.  `abandoned`
are the micro-campaigns that were running, or had an open row, when an exception left their
intervention: the code has forgotten them, and the properties name them as the exception.

**`MachineTurns`** is the abstract specification: the machine is used by the main AFL++
or by micro-campaigns, hands over only through idle, and a closed run starts nothing.
`RunController` is shown to implement it (`TurnsRespected == Machine!TurnSpec`, with
`turn` computed from the living processes that are not abandoned and `closed` from the run's
row).

**`RewardTracker`** is `recipe_reward_tracker.cpp` with the two callers in `run_mvp`
(`process_stats`, the agent rounds) and the few-shot block.  Credit is a real number in
the code; here an edge is worth `Unit`, divisible by every number of sharers.  AFL++
writes its counter and its own clock into `file`; the controller reads them later.  The
history variable `climbed` is the growth of the counter over all AFL++ processes, each of
which starts anew: what one of them replays from its corpus it climbs again.
`std::sort` leaves ties in any order, hence `FirstOf` is a set of possible answers.

**`WinnerSelection`** is `select_micro_winner_against_control`, the collection of its
inputs and the mapping of its answer to the winner status.  `rel_margin` is
`1 / RelParts`.  It has no `Next` of its own: `MicroRound` says when its steps happen.

**`Storage`** has the statements of `db.cpp` that a round of micro-campaigns makes, as
operators on tables; a table is a set of rows with ids.  `INSERT OR REPLACE`, `UPDATE` and
the ordered, limited reads are told apart; reads skip what is not usable, may order rows of
one second in any way, and may return a prefix when a step of the statement fails.

**`MicroPlanner`** is `plan_micro_campaigns` and `prepare_micro_campaigns`: the recent
decisions become interventions, these are merged into at most one per spiral stage, and a
stage gets its recipe store.  A plan is a function of the stages it has.

**`MicroRound`** composes the three into the life of a corpus: sampling, the inline spiral
of `trigger_inline_agent`, the restart of the main AFL++, the final round and its rows.  A
queue is the set of the seeds it has files of; a campaign's id is `<<round, stage>>`.  No step
makes more than one statement on the database, so that what a crash leaves behind is always a
state of the model: decisions and interventions are saved one by one (`unsaved`), a stage is
recorded, launched, closed, saved and merged in five steps (`RecordStage`, `LaunchStage`,
`StageEnds`, `StageResult`, `MergeStage`), a final result is saved and its campaign closed in
two.  Copying may leave out any file without a word, as `snapshot_corpus` does with files that
are too large, unreadable or beyond `kMaxSnapshotFiles`, and the merge with those that fail to
copy, or with all when a directory is missing (`SkippedBySnapshot`, `SkippedByMerge`).  An
exception may end an intervention at each of these places (`Interrupted`), and the run in the
final round (`Throws`).  AFL++ is the environment: a campaign finds one seed or none
(`AfterCampaign`), and the reward is what `evaluate_micro_result` makes of it in the modes
`edges_only` and `edge_weighted`, the latter with an `extra` that stands for crashes and
recipe counts.  `ids` connects the campaigns of `WinnerSelection` with the rows.  History
variables: `considered` are the proposals of a plan, `found` what the stages of a round added,
`kept` the seeds the main AFL++ had or a result was counted for, and `lost` those of them an
accident has taken since.

**`JsonText`** is `json_utils.cpp` and the brace scanner of the planner.  The parser is
recursive descent; its call stack is the stack of containers of a configuration and the
place in a function its `mode`, and one step reads one character.  Its entry points differ
in what they do at the top level, what they count as depth and where they stop: `doc`, `keys`,
`member`, `list` and `raw` (which reads what `json_escape` made of the text).  They read
the same text in lock-step with `split`, so that what they make of it can be compared.
Above them are their compositions: the schema check of an answer, `json_value_or_raw`,
the pieces of an array.  A number, `true`, `false` or `null` is the one character
`"lit"`; `"ctl"` is any character below 0x20, `"n"` one that is an escape after a backslash.
The history variable `verdict` remembers of the full parser that it has come to the end of a
document, or that it gave up for the depth and nothing else.

**`RecipeStore`, `RecipeCache`, `OffsetChoice`, `TelemetryRing`, `Mutator`** are the custom
mutator and what it shares with the controller.  `RecipeStore` writes the store as
`write_compact_recipes` does, one file operation a step (`WritesOf`): create, fill, append a line
to the index.  `clock` is the file system's, so two operations may carry one mtime.  `RecipeCache`
is `load_from_environment`, `reload_if_stale`, `add_recipe` and `lookup`; a load is a sequence of
steps (`load.pc`) between which the writer may go on.  Recipes are records of a seed, a name, a
hash, a strength and a completeness. `OffsetChoice` is `is_protected` with its binary search and
`choose_focus_offset`, as operators; insertion and splicing take any offset and are not in it.
`TelemetryRing` is `record`, `flush_from_environment` and the incremental reader in the
controller.  `Mutator` composes them into the entry points that AFL++ calls (`Init`, `QueueGet`,
`QueueNewEntry`, `Fuzz`, `Deinit`), with AFL++ being killed and launched again; `entry` is the
buffer AFL++ is fuzzing, `mutator` the members of `FpMutator`.  What an operator does to the bytes
at its offset is left out.

**`RecipeExchange`** is the abstract specification of this exchange, without files and times:
an index is published line by line, all that a load reads of it is read at once, what becomes of
it is settled recipe by recipe, and seen when it is complete.  `Mutator` implements it
(`LoadsAreSnapshots`): the index is `disk.index`, what a load may still become is
`OutcomesFrom(load.lines, cache)`, and nothing is seen while a load runs, because the mutator
has one thread.  That an index is read at once is the stream buffer of `recipe_cache.cpp:254`,
which holds a short index whole; a longer one, read in blocks while it is rewritten, is outside
the model.  Only recipes for seeds are in it: the global recipe is read before the index, and may be
of another batch.

**`ModelGateway`** is one `complete_json`: the request slot (`lastSlot` is
`last_request_time_`), curl with its own time limit and the capture's longer one, the
retries.  The phase of `call` says where it is; what a request returns is an outcome,
and `kept` the one that is reported.  **`AgentRound`** puts `run_agent_tasks` and the
rounds that `run_mvp` makes of it on top: filter, budget, deadline before each task,
stagger after it, verdicts.  The clock is in seconds and restarts with each round (what
is kept of the past, `lastSlot`, is shifted), so that rounds can be compared and the
state stays finite.  The endpoint answers, fails, is busy or hangs as it likes.
**`RollCall`** is what a round promises once clocks, slots and requests in flight are hidden:
everybody on the roll gets one decision, in the order of the roll, on the first clean outcome
of its own call or the first of all; or is left out of a limited round, and then so is
everybody after it.  `AgentRound` implements it (`EveryoneHasADecision`).

**`ChildProcess`** is the life of one child: `run_process_capture` pass by pass (read
until there is nothing, `waitpid`, count of empty reads, time limit) or
`stop_afl_process` with its three signals and waits.  The child may write, fork a
worker that inherits the pipe, end, or do nothing.  A time limit is an event that comes
sooner or later (`Expire`).  SIGKILL is taken to end a process before the next poll; a
process that the kernel cannot end in a second is outside the model.

`MC...` modules give constants and symmetry, and `MCJsonText` the grammar of JSON as sets
of texts, the reference the parsers are compared with.  `SetInduction` holds the lemmas that
all proofs share; `RunControllerProofs` (controller, refinement, detector, pipeline),
`RewardTrackerProofs`, `AgentRoundProofs` (with the gateway), `MicroRoundProofs` (with
planner, storage and winner selection), `MutatorProofs` (with store, cache and offsets),
`ChildProcessProofs` and `JsonTextProofs` hold the theorems.

## Runs

| Run | Question | Bounds |
|---|---|---|
| `MCRunController` | with AFL++ deaths, signals and exceptions at all five places: do main and micro AFL++ ever get the machine together (`MachineTurns`), is a returned run clean, is AFL++ tracked, every plateau answered, an early exit true, a signal obeyed, does the run end? | budget 2 passes, heartbeat 1, 2 micro-campaigns a round |
| `MCPlateauPipeline` | are events true, fresh, backed by a whole window and apart, and aligned plateaus detected? | 6 seconds, window 2, rewrites and polls at most 2 apart |
| `MCRewardTracker` | is credit bounded by growth and paid within the window, is nobody skipped, does the prompt keep its history? | 3 decisions, window 1, lists of 2, 5 seconds, 2 edges, restarts |
| `MCMutator` | does the mutator end up with what the store holds, never with half a recipe nor with parts of two batches (`RecipeExchange`); are hashes, evictions and counters right? | 1 batch of recipes (`MaxBatches`), 3 clock ticks, 2 mutations, 2 lines of counters, caches of 2 named and 1 hashed recipes |
| `MCMicroRound` | do proposals reach a campaign, does the spiral climb, do only accidents take seeds, and how much may they cost the final control, do rows fit together after every statement, is a promoted probe clearly the best? | 2 inline rounds and the final one, 2 seeds, 3 answers of which 2 decisions are read, margins 1 and 1/5, together 1 failure, silent loss or extra (`MaxOdd`) |
| `MCAgentRound` | is everybody asked, is the deadline kept, are requests apart, does everybody get one decision on its own answer (`RollCall`), does a round end? | 3 agents of which one may be disabled, timeout 1, grace 1, backoffs 1 and 2, 2 inline rounds at most 1 apart |
| `ChildProcess` | is all output kept, the child collected, the call over in time? | output of 2 reads, pipe of 2, writes counted to 3 |
| `MCJsonText` | do the parsers accept the grammar and nothing else, is an answer that was cut ever let pass, are the planner's pieces objects, does raw text read back? | texts of up to 12 characters, the grammar up to 10 (`GrammarLen`), nesting 2 |

Why the bounds suffice.  A budget of two passes with heartbeat 1 gives an intervention
in each pass, so every order of stop, micro, restart, failure, signal and second
intervention occurs, and the final round after them; two specs distinguish "the next"
from "the last" micro-campaign.  The pipeline's 6 seconds hold
a whole window, a reset and a second window, with rewrites inside, at and beyond its edges;
time that steps back is covered by the detector's theorems only.  Three decisions and lists
of two are the smallest case in which a decision falls out of a list; window 1 in 5 seconds
lets deployments expire.

Two inline rounds are needed for a second snapshot of a merged queue, and for a winner of an
earlier round to meet a later one.  The answers hold a proposal for every kind of treatment: a
stage of its own, the control's stage, a stage nobody runs, no action, and a decision that is not
usable.  One failure, or one copying that leaves out any set of files, at any place, is what the
code handles as one; a second one at another place meets the same branches again, and the theorems
know no bound.  With 2 seeds a stage can find what an earlier one found, or something new. A text
of 12 characters holds an object of two members with a nested value, nesting beyond the cap,
escapes of quotes and of backslashes, and every way of cutting these off.

One batch is
enough for a load to meet every half-written state of the store, and a clock of 3 for a
write in the tick of the stat, before it and after it; two mutations and two lines make
counters that are flushed twice.  Three agents give a first, a middle and a last task;
with a timeout of 1 a call may take from 0 to 10 seconds, so that the budget of 2 + 3 * 2
is met, missed by one and missed by far.  A child that writes more than the limit and
more than the pipe holds needs 3 writes.

`MCRewardTracker` uses symmetry over decisions: nothing distinguishes them but the record they
carry.  Deadlock is checked in the runs of the controller, the micro rounds, the agent rounds and
the child process, whose end is an explicit stuttering action; the other models stop at their
bounds and say `CHECK_DEADLOCK FALSE`.

Fairness.  `RunController` has `WF_vars(Controller)`: the controller's thread
keeps running.  The code justifies it: every wait in `run_mvp` has a timeout
(`wait_process`, `stop_afl_process` with SIGKILL at the end, a deadline for the agent
block).  Nothing is assumed of AFL++ or the operator, so `RunEnds` holds whether or not
AFL++ ever writes a statistic.  `AgentRound` has `WF_vars(Runtime)`, the same thread, and
`WF_vars(Tick)`, time goes on; nothing is assumed of the endpoint, whose `Answer` need
never come.  `ChildProcess` has `WF_vars(Controller)` and `WF_vars(Expire)`; nothing is
assumed of the child.  There `ReturnsInTime` speaks of the behaviours in which writing
stops at some time, because the code does not promise more: the inner read loop
(`process_posix.cpp:192`) never looks at the clock while there is data.

### Disagreements between code and documents

Each is a run in which TLC finds one property violated; the details are in
`PROJECT.json` ("findings").

| Run | What it shows |
|---|---|
| `PlateauMissed` | eviction and the span gate together require a sample exactly `window_sec` old; a flat campaign whose rewrites never line up is not reported |
| `SignalCleansUp` | a signal before the first sample ends in the throw of `run.cpp:1490`: AFL++ runs on, the run row stays open |
| `ControlNeverPromoted` | the final selection knows the controls of the final round only (`evaluator.cpp:95`): the `default_control` of an inline round is promoted when a merge skipped what it found, or with an extra for crashes, against `run.cpp:1875-1878` |
| `TotalsAreHonest` | the collector adds up counters that are themselves running totals: after two flushes the first mutations count twice |

Seen while modelling and not made runs:

- *Run controller.*  An AFL++ that dies after its first statistics is not noticed: the test for a
  dead AFL++ (`run.cpp:1450`) is only reached when there are no statistics, the file the dead one
  left is read until the budget is used up, and the run is reported as `loop_budget`, "loop ran to
  completion normally".  `run.hpp:90-92` has `early_exit` for "AFL died and P0.3 broke the loop",
  so that the words are kept and a reader misled. `EarlyExitMeansGone` is therefore one direction
  only.  An exception inside an intervention leaves its micro AFL++ running (`abandoned`) and the
  loop sampling without any AFL++ (`run.cpp:1119`, `:1439`).  A gateway that cannot be constructed
  (`run.cpp:952`) leaves the AFL++ just launched running.  The status `kAllFailed` (`run.hpp:47`)
  cannot be reported, because a failed campaign never enters `micro_results` and an empty list is
  `kNoCandidates`.
- *Rewards and winner.*  After a restart the counter falls and climbs again while AFL++ replays
  its corpus; the tracker takes the lower value as its new baseline
  (`recipe_reward_tracker.cpp:43`) and pays for the climb once more, although the comment above
  says that "counter resets / corpus replays shouldn't credit anyone".  A decision may be credited
  by a sample older than its deployment (`recipe_reward_tracker.cpp:53`), against the `[ts -
  credit_window_sec, ts]` of `recipe_reward_tracker.hpp:46-48`, and may be listed under GOOD and
  BAD in one prompt (`run.cpp:919`).  Decisions of skipped or failed agents are recorded too and
  share credit.
- *Recipes.*  A recipe written between the read and the stat, or in the stat's tick, is never
  loaded (`recipe_cache.cpp:305`); an index missing at launch is never looked at again (`:255`);
  `queue_new_entry` changes the seed while the old buffer is still being fuzzed
  (`mutator_core.cpp:385`); inserting and splicing do not look at protected ranges and a deletion
  goes on past the byte it chose, against "so we respect protection unless EVERY byte is
  protected" (`mutator_core.cpp:60-65`); overlapping protected ranges defeat the binary search;
  the ranges of the global recipe are not sorted.
- *Agents and gateway.*  `process_capture_text` never returns an empty string, so that the
  tests of `raw.empty()` (`gateway.cpp:235`, `:475`) are dead and a curl that fails
  silently with one of the codes it does not print is not retried.  Retries reserve no
  slot and rounds use different gateways, so requests of different rounds may be closer
  than the second of the comment at `gateway.cpp:417`.  Retries are not in the budget of
  the deadline, so that a slow endpoint costs the last agents their turn.
- *Rounds of micro-campaigns.*  In direct mode an inline promotion followed by a final round
  without a candidate leaves `winner_intervention_id` set beside the status `no_candidates`
  (`run.cpp:1692`).  Recipes of the later stages are written for the seeds of the snapshot while
  the stage runs on the queue of the one before.  Every merge copies the files of a queue once
  more, so that after a few interventions the cap of a snapshot drops files of the main corpus in
  no particular order at the restart; files over 16 MiB, or that cannot be read or copied, are
  left out of snapshots and merges without a word, and a stage whose result was counted may so
  leave nothing behind; a snapshot that fails restarts from `target.input_dir`, without what was
  found.  A `depends_on` given by the model is kept unchecked, and the key meant to drop equal
  interventions contains their index.  A retry after a failed intervention uses its directories
  again (`run.cpp:1413`).  A bonus for crashes, a file that was not merged, or a final control
  that fails, lets an inline campaign win.  The final results are written, winner included, before
  the campaigns they belong to are closed.  `elapsed_sec` counts passes of the loop, so that an
  intervention of minutes costs one second of the budget (`run.cpp:1350`).
- *Storage.*  `begin_transaction`, `commit` and `rollback` have no caller.  The readers stop
  without a word at the first step that fails, after which the planner falls back to its
  defaults.  `run_mvp` does not validate its configuration.
- *JSON.*  The schema check accepts trailing text and one more level of nesting than the
  document check, so that an accepted proposal may be stored as a raw string.  At the depth
  cap even a number is refused.  `extract_string_array_field` keeps the items before an error,
  while a malformed `required` weakens the check to the key `agent`.
- *Processes.*  A child that writes without a pause is never timed out
  (`process_posix.cpp:192`).  Output of exactly the limit is reported as truncated
  (`process_posix.cpp:200`).  A capture that times out kills the child and not its group;
  `stop_afl_process` returns as soon as the leader has ended, so that workers of the group
  may outlive it, against the comments at `process_posix.cpp:94` and `run.cpp:381`.

## Proofs

All theorems hold for every value of the constants allowed by the named assumptions:
`ControllerAssumption`, `ConfigAssumption`, `SamplesAssumption`, `NoEventAssumption`,
`PipelineAssumption`, `RewardAssumption`, `GatewayAssumption`, the `RoundAssumption`s of
`AgentRound` and `MicroRound`, `PlannerAssumption`, `SelectionAssumption`, `StoreAssumption`,
`CacheAssumption`, `ChildAssumption` and `TextAssumption`. They give the constants their types
and little else. What they add: sets of seeds, decisions and one answer's proposals are finite;
a backoff is positive (`gateway.cpp:456` waits one and two seconds), as are the bounds of a
round's budget (60 and 1800 in `run.cpp`, without which "no deadline" and "no time" are one
number); credit is worth a multiple
of every number of sharers, which replaces the code's `double`; a window, a budget and a cap is
what its type allows. Three theorems have hypotheses of their own. `AlignedPlateausDetected`
needs `WindowSec > 0`, which `config.cpp:496-497` enforces, since an empty window is never full
of two samples. `OffsetsRespectProtection` needs ranges that do not overlap, as the binary
search of the code does. `StrongestAreKept` needs that no two recipes of the load are equally
strong: which of equals the code keeps depends on the order of the index and on `std::sort`.
`TurnsWithoutExceptions` assumes `"inline" \notin Faults`; the remarks above show what happens
otherwise.

Every safety invariant of the runs is a theorem, but for two of `MCJsonText`, and so are the
three refinements.  Type invariants,
and properties that the prover has for every value, need no run of their own: `TypeOK`s are
conjuncts of the inductive invariants, and `MicrosRunAlone`, `SamplingHasMain`,
`OneEventPerReset` and the like are proved and not run.

*Loops and sorts* (`SetInduction`).  The code's loops are recursive functions, and the prover
cannot instantiate an induction theorem with a formula.  The lemmas here speak of sets:
`UpTo` is induction over `0 .. n` by the set of the numbers a fact holds of, `LeastExists` the
least counterexample, and `Scans` says that a computation of any length exists, from which a
recursive function gets its own equation.  `InsertionSorts` says what an insertion sort
returns: the same elements, as many, in order; what holds of any two of them still does.

*Run controller* (`RunControllerProofs`).  Each invariant is part of one inductive
invariant, `ControllerInvariant`; the theorems `ControllerTypes`, `MainAlwaysTracked`,
`CompletionIsClean`, `PlateauAlwaysAnswered`, `EarlyExitIsTrue` and `SignalIsPrompt`
are its corollaries.  None of them is inductive alone.  The invariant adds, per place of
the controller, what has been done there (`MainHeld`: no main AFL++ is tracked while
micro-campaigns run and after the loop, without which `RestartMain` could start a second
one and `SelectAndFinish` close a run that still has one), that the detector is armed
wherever a sample is taken (`PlateauOpen`), which marks the ways out of the loop leave
(`ExitKnown`: `early`, `received` and a used-up budget exclude each other), and that no
pass has begun since the signal (`SignalKept`).  `TurnsWithoutExceptions` proves
`MicrosRunAlone` and `SamplingHasMain` under the assumption `"inline" \notin Faults`,
with a second invariant about which micro-campaigns are alive at which place
(`MicrosHeld`) and where a main AFL++ is tracked (`MainThere`); without the assumption
both are false, as the remarks above say.

*Refinement* (`RunControllerProofs`).  Whatever throws, `ReturnsClean` proves
`ReturnIsClean` and `ImplementsTurns` proves `TurnsRespected`, both of the micro-campaigns that
no exception has abandoned; with `"inline" \notin Faults` none ever is.  `RowsHeld` adds which
campaign rows may be open at which place; `TurnStep` shows that every step releases the
machine, starts on an idle one, closes the run or stutters, by three lemmas that say
what a step must do to `mains`, `micros` and `runRow` for each.

*Detector and pipeline* (`RunControllerProofs`).  `DetectorInvariant` proves types,
`WindowBounded` and `EventBacked` by induction over calls, on lemmas about `Evict`: it returns
a non-empty suffix that starts at a kept position and ends with the new sample.
`DetectorLatch` proves `OneEventPerReset`.  The properties of the composition with AFL++ and
the collector are not inductive.  That an event tells the truth about rewrites nobody saw
(`EventsAreTrue`) needs `History` (all that AFL++ wrote only grows, and `last_path` is when it
grew) and `WindowHolds` (the window is made of what was written, in the order of its clock).
`EventsKeepApart` needs `Apart`: nothing in the window of an armed detector is older than the
last event.  `AlignedPlateausDetected` needs `Reported`: no plateau is in the window of an
armed detector, because the call that completed it would have reported it.

*Reward tracker* (`RewardTrackerProofs`).  `CreditsAreBounded` rests on `Balanced`, a balance:
the credit given, and a `Unit` for every edge that is in the file and not yet seen, are no
more than what `edges_found` has grown since the tracker began, in every AFL++ anew: a bound on
reported growth, which says nothing of replays.  A sample moves from the second part
to the first; `ShareBounds` says that the shares of a delta never exceed it.  `Recorded`
(decisions in the order of the clock, each once) makes the walk from the back right
(`NobodyIsSkipped`), `PaidInWindow` remembers of every payment when it was made, and
`HistoryIsKept`, an action property, follows from `PromptEarned` and from credit never
being taken back.

*Agent rounds* (`AgentRoundProofs`).  `RoundInv` says of every phase of a call how late it may
be.  `WithinBlock` counts from the deadline: after k retries a request is sent no later
than the limits and backoffs of k tries after it (`Reach`), and what comes after the last try is
within `LongestCall`; `BlocksAreBounded` is its last line.  `Accounted` counts from the start
of the round: without a skipped agent the time used is at most a share for every decision
and what calls overran (`overtime`), so that `Budgeted` (the budget has a share for each, unless it
was capped) gives `NobodyUnaskedInTime`.  `Clock` relates the slot reserved last, the request
sent last and the time, through slot, backoff and stagger, and yields `RequestsKeepApart`;
`KeptSoFar` yields `CleanAnswersAreKept`, which the run does not check by itself: it is part of
what `RollCall` says of an entry.  `ImplementsRollCall` adds `OnRoll`, which says where in
the roll the round is: the decisions and the tasks still to come together are as many as the
roll, each task is the agent of its place, nothing is reported of a call to which nothing came
back, and a call that is answered has met a clean outcome or used up its tries (`Exhausted`).
Every step is then one of `RollCall` or hidden from it.

*Micro rounds* (`MicroRoundProofs`).  `RoundInv` is the bookkeeping that the corpus, the plans,
the campaigns and the rows share.  `Phases` says what is planned, running and collected at
each place; `IdsApart` that an id is never used twice, also across rounds, without which
`INSERT OR REPLACE` would overwrite a row of an earlier one; `Climbing` which queue the next stage
will start with (`EveryStageClimbs`).  `SeedsSurvive` is inductive by itself (`NoSeedIsLost`): each
step that takes seeds from the active queue must be an accident that adds them to `lost`.
`Filed`, `Tracked` and `Listed` say which interventions, campaigns and results have their rows at
each place, between any two statements (`TrailIsReadable`).  `Rewarded` says that by coverage
alone an inline campaign has at most what is kept, and a final one at least the snapshot, which
has what is kept but for what is lost: so the lead of an inline campaign is at most the edges of
the lost seeds (`FinalControlLeads`), and where nothing is lost none is promoted
(`FinalRoundPromotes`).  The pass over
the results is proved for any number of them in any order (`TheClearlyBestWins`): what it carries
along is the best contender of those seen.  `PlansAreTraced` does the same for the
proposals, by the lemmas on how a plan grows one decision at a time.

*Mutator* (`MutatorProofs`).  `ExchangeInv` relates three parties that never wait for
each other: the writer, the load in progress and the cache.  The writer's order
(`InOrder`: a recipe is complete before a line names it) makes every line, on the disk and in
the reader's buffer, name a whole file (`LinesWhole`), which is `TornIsNeverSeen`.
`CacheInSync` needs to know of every step of a load what has been read: a file last written
before the load began was read as it is (`GlobalRead`, and `IndexRead`, which follows the lines
still to be read), and a file last written before the stat has the time the mutator
remembers (`TimesKnown`); `Stamps` keeps the times in order.  A write in the same tick of the
clock is excluded by `<` in all three, as it is by `InSync`: its mtime does not tell it from what was
read.  `NamesMatch`
(`NamesAreTheirs`, which the run has as part of the refinement) is kept by each insertion, the
sort and the cut.  `CountInv` has the hash
of the buffer (`HashesAreOfTheBuffer`) and the counts of this process that no line has yet
(`KillsLoseOneEntry`).

*Recipe exchange* (`MutatorProofs`).  `ImplementsExchange` says that writer and mutator implement
`RecipeExchange`, for any batches and any interleaving.  It needs two things that
`ExchangeInv` does not say.  `Batching` places the writer in its batch: what is still to do is
what follows the first k operations of one batch, and the index is what these have left, so that
every index anybody can see is a beginning of one batch (`NextWritten`, by the three kinds of
places).  The other is about the reader: to go on from a line with what was made of the lines
before it makes only what the whole index may make (`FilledFrom`, an induction over the
lines that are left, on caches with equal contents), hence each line narrows what the load
may become (`OutcomesNarrow`) and the end leaves the one outcome that is left (`OutcomesEnd`).
That lines name complete files (`LinesWhole`) is what lets the abstract specification speak of
recipes and not of files.  `NeverAMixture` follows from the abstract specification alone.

*Cache and offsets* (`MutatorProofs`).  `StrongestAreKept` is about one load of any number of
recipes and any caps.  The part for hashes evicts while it fills, so the invariant
(`Holds`) speaks of what was evicted: the map has the best recipe of each of its keys, and
a key that is missing has only recipes weaker than all that are kept.  A later, stronger
recipe of an evicted key then comes back by itself.  `OffsetsRespectProtection` proves of
inputs and ranges of any size that the binary search over the sorted ranges answers what the
ranges mean, if they do not overlap, and that the byte chosen lies in the input and is
protected only if all bytes are; no run evaluates it.  `CacheKeepsTheStrongest` is the instance of
`StrongestAreKept` that the run evaluates.

*Child process* (`ChildProcessProofs`).  `ChildHolds` proves `ChildInvariant`, of which
`CaptureKeepsOutput` (`AllOutputKept`) and `ReturnReaps` (`ChildIsReaped`) are
corollaries.  That the output is complete when the pipe is closed needs `Accounted`
(what was written before the child's end is in the output or still in the pipe) and
`ReadDry`: once the loop knows of the end, a read that finds nothing means that nothing
was left, and the second counted empty read is at least one of those.  The first is
not, because it may lie before the end: the reason why the code counts.

*JSON* (`JsonTextProofs`).  `ParsersInv` proves the invariant `IInv` of the parsers that read one
text, for every text and every cap.  The comparison of two parsers is not inductive: that the full
parser has read a whole document when the parser of the keys returns needs that they have walked
the same text in the same way all along.  `Agree` says so, as long as neither has given up,
`MemberAgrees` the same of the parser of a member, which stops earlier, `RefusesLate` that as long
as the parser of the keys goes on the full parser has given up only behind a whole document or at
its cap (`CheckedIsWhole`: what the schema check lets pass begins with a whole object, or one too
deep; text behind it is not looked at), and `Shape` (what the place in a function says of the open
containers) makes all of them inductive.  `DepthOK` bounds the recursion, `ScannerInPlace` is the
agreement of the brace scanner, which counts the finite set of open objects where the parser has a
stack, and `RawInside` gives `RawAlwaysReadsBack`.  The theorems are about `Spec`, whose alphabet
is any subset of the characters and whose length bound is any number.

Only model-checked: liveness (`RunEnds`, `RoundEnds`, `ReturnsInTime`, out of the prover's
reach), and `DocumentExact` and `PiecesAreObjects`, which compare the parsers with the grammar of
JSON.  The grammar is a recursive definition of sets of texts, and that a parser accepts a
text of it is an induction over the tree of the document.

## Not modelled

- `config.cpp` (a line-oriented subset of YAML, read once at start), `env.cpp` and
  `string_util.cpp`: sequential parsing, whose values are the CONSTANTS here.  The command line,
  the experiment matrix and the scripts have no state that lasts.
- `dry_run`; the rotation of the mutator's counters file; several AFL++ instances
  (`sample_all`); `rank_micro_bandit_candidates`, which only tests call; the reward modes
  `paths_only` and `random`.
- As data: the contents of prompts, reports and recipes; hypotheses, priorities and
  `params_json` of interventions; the syntax of numbers and the `\u` escapes; what an operator
  of the mutator does to the bytes at its offset.
- The file system under `MicroRound` (directories an intervention reuses after a failure; which
  files of a seed are skipped, as a queue is a set of seeds) and under the collector (mtime
  granularity); wall-clock time inside `RunController`, where a pass is a unit however long it
  takes; in `RunController`, calls that throw after the final micro-campaigns were awaited
  (`MicroRound` has them).

`PROJECT.json` lists every component with its status.

## Plan

Done: detector and pipeline, run controller with its refinement, reward tracker, the mutator
with its store, agent rounds on the gateway, child processes, the rounds of micro-campaigns
with planner, storage and winner selection, and the JSON of the answers.

The abstract specifications (`MachineTurns`, `RollCall`, `RecipeExchange`) are stated and the
refinements proved.  What is left, in the order of its worth:

1. `DocumentExact` and `PiecesAreObjects` as theorems: they need an induction over documents, for
   which the grammar would have to be given as derivations instead of sets of texts.
2. An abstract specification of a round of micro-campaigns (a corpus that only grows, a winner
   that is one of its candidates) that `MicroRound` implements.
3. The configuration file: which texts `load_config` accepts, and with which defaults.
