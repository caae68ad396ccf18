---------------------------- MODULE RunController ----------------------------
(***************************************************************************)
(* The life of one live campaign: run_mvp (src/src/controller/run.cpp).     *)
(* The controller launches the main AFL++ process, samples its telemetry    *)
(* once per second, runs the agents and their micro-campaigns inline when a *)
(* plateau is detected or the heartbeat is due, and after the loop stops    *)
(* AFL++, runs a last round of agents and micro-campaigns, writes the       *)
(* report and closes the database rows.                                     *)
(* Around it: AFL++ processes that write statistics or die when they        *)
(* like, an operator who may send a termination signal at any time, and     *)
(* calls that fail.  Modelled is the live path (dry_run = false).           *)
(***************************************************************************)
EXTENDS Integers

CONSTANTS
  LoopBudget,         \* loop_budget_sec: passes of the sampling loop
  Heartbeat,          \* agent_heartbeat_sec; 0 switches the heartbeat off
  MaxSpecs,           \* bound: micro-campaigns planned per round (4 in the code)
  Faults              \* the places at which an exception may be thrown

FaultPoints == {"prepare", "agents", "inline", "snapshot", "spawn"}

Modes == {"afl_only",      \* micro_campaign.enabled is false
          "full",          \* micro-campaigns validate what agents propose
          "direct"}        \* ai-direct: the proposal is promoted unvalidated

ASSUME ControllerAssumption ==
  /\ LoopBudget \in Nat
  /\ Heartbeat \in Nat
  /\ MaxSpecs \in Nat \ {0}
  /\ Faults \subseteq FaultPoints

VARIABLES
  mode,               \* the configuration, fixed for the run
  pc,                 \* where run_mvp is
  outcome,            \* active, returned or threw
  mainPid,            \* summary.main_pid; 0 stands for -1
  spawned,            \* main AFL instances started so far
  mains,              \* main AFL instances that are alive
  micros,             \* micro AFL instances that are alive
  statsReadable,      \* the active output directory has a fuzzer_stats
  hasSamples,         \* ~ main_samples.empty()
  latched,            \* the plateau detector has fired since its last reset
  plateau,            \* summary.plateau_id: none or what set it
  elapsed,            \* elapsed_sec
  lastTrigger,        \* last_agent_trigger_at_sec
  failed,             \* the running intervention threw
  early,              \* early_exit_reason is set
  term,               \* g_termination_signal is set
  received,           \* received_term_signal
  round,              \* rounds of micro-campaigns begun (inline and final)
  todo,               \* micro-campaigns of the round not yet handled
  rows,               \* campaign rows of the database: micro id -> status
  runRow,             \* runs.status
  exitReason,         \* summary.main_afl_exit_reason
  report,             \* report.md was written
  signalAt,           \* history: elapsed when the first signal arrived,
  abandoned           \* micro-campaigns whose intervention threw under them

processVars == <<mainPid, spawned, mains, micros, statsReadable>>
loopVars == <<hasSamples, latched, plateau, elapsed, lastTrigger>>
exitVars == <<failed, early, term, received, exitReason, signalAt, abandoned>>
dbVars == <<round, todo, rows, runRow, report>>
vars == <<mode, pc, outcome, processVars, loopVars, exitVars, dbVars>>

InlineEnabled == mode # "afl_only"

\* The id of the micro-campaign being handled.
Current == <<round, todo>>

Throw == outcome' = "threw" /\ pc' = "done"
Return == outcome' = "returned" /\ pc' = "done"

\* insert_campaign: a row for the micro-campaign being handled.
Record(status) ==
  [m \in DOMAIN rows \cup {Current} |-> IF m = Current THEN status ELSE rows[m]]

\* Mutant: the pid is forgotten, the process group is not signalled.
StopMainNoKill ==
  /\ mainPid' = 0
  /\ UNCHANGED mains

\* stop_afl_process(main_pid): SIGINT, SIGTERM, SIGKILL until it is gone.
StopMain ==
  /\ mains' = mains \ {mainPid}
  /\ mainPid' = 0

Init ==
  /\ mode \in Modes
  /\ pc = "launch" /\ outcome = "active"
  /\ mainPid = 0 /\ spawned = 0 /\ mains = {} /\ micros = {}
  /\ statsReadable = FALSE
  /\ hasSamples = FALSE /\ latched = FALSE /\ plateau = "none"
  /\ elapsed = 0 /\ lastTrigger = 0
  /\ failed = FALSE /\ early = FALSE /\ term = FALSE /\ received = FALSE
  /\ exitReason = "none" /\ signalAt = 0 /\ report = FALSE /\ abandoned = {}
  /\ round = 0 /\ todo = 0 /\ rows = [m \in {} |-> "running"]
  /\ runRow = "running"

-----------------------------------------------------------------------------
(* Before the loop *)

\* spawn_process succeeds: the new main instance is the one being tracked.
SpawnMain ==
  /\ spawned' = spawned + 1
  /\ mains' = mains \cup {spawned'}
  /\ mainPid' = spawned'
  /\ statsReadable' = FALSE
  /\ UNCHANGED micros

Launch ==
  /\ pc = "launch"
  /\ \/ /\ SpawnMain
        /\ pc' = "prepare"
        /\ UNCHANGED outcome
     \/ /\ Throw
        /\ UNCHANGED processVars
  /\ UNCHANGED <<mode, loopVars, exitVars, dbVars>>

\* The static scan and the construction of the model gateway.
Prepare ==
  /\ pc = "prepare"
  /\ \/ /\ pc' = "loop"
        /\ UNCHANGED outcome
     \/ /\ "prepare" \in Faults
        /\ Throw
  /\ UNCHANGED <<mode, processVars, loopVars, exitVars, dbVars>>

-----------------------------------------------------------------------------
(* The sampling loop *)

BudgetLeft == elapsed < LoopBudget

\* Mutant: passes without statistics are not counted.
PassesSampled == IF hasSamples THEN elapsed + 1 ELSE elapsed

Passes == elapsed + 1

\* Mutant: the flag is looked at only after the first sample.
SignalSeenSampling == term /\ hasSamples

SignalSeen == term

LoopEnds ==
  /\ pc = "loop"
  /\ ~ BudgetLeft
  /\ pc' = "stop"
  /\ UNCHANGED <<mode, outcome, processVars, loopVars, exitVars, dbVars>>

\* Sleep for a second, then look at the signal flag.
Sleep ==
  /\ pc = "loop"
  /\ BudgetLeft
  /\ elapsed' = Passes
  /\ IF SignalSeen
       THEN pc' = "stop" /\ received' = TRUE
       ELSE pc' = "sample" /\ UNCHANGED received
  /\ UNCHANGED <<mode, outcome, processVars, hasSamples, latched, plateau,
                 lastTrigger, failed, early, term, exitReason, signalAt,
                 abandoned, dbVars>>

HeartbeatDue ==
  /\ InlineEnabled
  /\ Heartbeat > 0
  /\ elapsed - lastTrigger >= Heartbeat

\* collector.sample returned statistics: process_stats, the heartbeat, and
\* the decision whether to intervene.
Sampled ==
  /\ pc = "sample"
  /\ statsReadable
  /\ hasSamples' = TRUE
  /\ \E detected \in (IF latched THEN {FALSE} ELSE BOOLEAN) :
       /\ latched' = (latched \/ detected)
       /\ plateau' = IF plateau = "none" /\ detected THEN "natural"
                     ELSE IF plateau = "none" /\ HeartbeatDue THEN "heartbeat"
                     ELSE plateau
  /\ pc' = IF InlineEnabled /\ plateau' # "none" THEN "agents" ELSE "loop"
  /\ UNCHANGED <<mode, outcome, processVars, elapsed, lastTrigger, exitVars,
                 dbVars>>

\* Mutant: a main AFL++ without statistics is given up.
NoStatsYet == mainPid # 0

\* wait_process finds that the main AFL++ has exited.
MainGone == mainPid # 0 /\ mainPid \notin mains

\* No statistics: break when the main process turns out to be gone.
NotSampled ==
  /\ pc = "sample"
  /\ ~ statsReadable
  /\ IF MainGone
       THEN /\ early' = TRUE
            /\ mainPid' = 0
            /\ pc' = "stop"
       ELSE /\ pc' = "loop"
            /\ UNCHANGED <<early, mainPid>>
  /\ UNCHANGED <<mode, outcome, spawned, mains, micros, statsReadable,
                 loopVars, failed, term, received, exitReason, signalAt,
                 abandoned, dbVars>>

-----------------------------------------------------------------------------
(* An inline intervention: trigger_inline_agent *)

\* The handler of exceptions around trigger_inline_agent takes over; nobody
\* cares for the micro-campaigns left any more.
Interrupted(left) ==
  /\ failed' = TRUE
  /\ abandoned' = abandoned \cup left
  /\ pc' = "rearm"
  /\ UNCHANGED <<early, term, received, exitReason, signalAt>>

\* The agents answer.  In full mode their proposals become specs, unless the
\* corpus snapshot failed or nothing was planned (n = 0).
InlineAgents ==
  /\ pc = "agents"
  /\ \/ \E n \in 0 .. MaxSpecs :
          /\ n > 0 => mode = "full"
          /\ todo' = n
          /\ round' = IF n > 0 THEN round + 1 ELSE round
          /\ pc' = IF n > 0 THEN "pause" ELSE "rearm"
          /\ UNCHANGED exitVars
     \/ /\ "agents" \in Faults
        /\ Interrupted({})
        /\ UNCHANGED <<todo, round>>
  /\ UNCHANGED <<mode, outcome, processVars, loopVars, rows, runRow, report>>

\* The main AFL is stopped before the first micro-campaign.
PauseMain ==
  /\ pc = "pause"
  /\ IF mainPid # 0 THEN StopMain ELSE UNCHANGED <<mains, mainPid>>
  /\ pc' = "micro"
  /\ UNCHANGED <<mode, outcome, spawned, micros, statsReadable,
                 loopVars, exitVars, dbVars>>

\* The next micro-campaign of the spiral is recorded and launched.
InlineMicro ==
  /\ pc = "micro"
  /\ todo > 0
  /\ \/ /\ micros' = micros \cup {Current}
        /\ rows' = Record("running")
        /\ pc' = "await_micro"
        /\ UNCHANGED <<todo, exitVars>>
     \/ /\ rows' = Record("failed")
        /\ todo' = todo - 1
        /\ UNCHANGED <<micros, pc, exitVars>>
     \/ /\ "inline" \in Faults
        /\ Interrupted({Current})
        /\ rows' = Record("running")
        /\ UNCHANGED <<micros, todo>>
  /\ UNCHANGED <<mode, outcome, mainPid, spawned, mains, statsReadable, loopVars, round, runRow, report>>

\* It ends by its own budget or is stopped; its statistics may be unreadable.
InlineMicroEnds ==
  /\ pc = "await_micro"
  /\ \/ /\ micros' = micros \ {Current}
        /\ \E status \in {"completed", "failed"} :
             rows' = [rows EXCEPT ![Current] = status]
        /\ todo' = todo - 1
        /\ pc' = "micro"
        /\ UNCHANGED exitVars
     \/ /\ "inline" \in Faults
        /\ Interrupted({Current})
        /\ UNCHANGED <<micros, rows, todo>>
  /\ UNCHANGED <<mode, outcome, mainPid, spawned, mains, statsReadable, loopVars, round, runRow, report>>

\* After the last stage a fresh main AFL is started in a fresh directory.
RestartMain ==
  /\ pc = "micro"
  /\ todo = 0
  /\ \/ /\ SpawnMain
        /\ pc' = "await_restart"
        /\ UNCHANGED exitVars
     \/ /\ early' = TRUE
        /\ pc' = "rearm"
        /\ UNCHANGED <<processVars, failed, term, received, exitReason, signalAt, abandoned>>
     \/ /\ "inline" \in Faults
        /\ Interrupted({})
        /\ UNCHANGED processVars
  /\ UNCHANGED <<mode, outcome, loopVars, dbVars>>

\* Five seconds of polling: dead at a poll, or taken as restarted.
RestartPolled ==
  /\ pc = "await_restart"
  /\ IF MainGone
       THEN early' = TRUE /\ mainPid' = 0
       ELSE UNCHANGED <<early, mainPid>>
  /\ pc' = "rearm"
  /\ UNCHANGED <<mode, outcome, spawned, mains, micros, statsReadable,
                 loopVars, failed, term, received, exitReason, signalAt,
                 abandoned, dbVars>>

\* Mutant: the detector is reset only after a success.
ForgetPlateauOnSuccess ==
  /\ latched' = (latched /\ failed)
  /\ plateau' = "none"

ForgetPlateau ==
  /\ latched' = FALSE
  /\ plateau' = "none"

AfterRearm == IF early THEN "stop" ELSE "loop"

\* Whether it returned or threw, the detector is reset and the plateau is
\* forgotten; only a success counts as a trigger.
Rearm ==
  /\ pc = "rearm"
  /\ ForgetPlateau
  /\ lastTrigger' = IF failed THEN lastTrigger ELSE elapsed
  /\ failed' = FALSE
  /\ pc' = AfterRearm
  /\ UNCHANGED <<mode, outcome, processVars, hasSamples, elapsed, early, term,
                 received, exitReason, signalAt, abandoned, dbVars>>

-----------------------------------------------------------------------------
(* After the loop *)

\* "real run finished without any AFL++ telemetry samples"
NoSamples ==
  /\ pc = "stop"
  /\ ~ hasSamples
  /\ Throw
  /\ UNCHANGED <<mode, processVars, loopVars, exitVars, dbVars>>

ExitReason ==
  IF early THEN "early_exit"
  ELSE IF received THEN "signal_term" ELSE "loop_budget"

StopForAnalysis ==
  /\ pc = "stop"
  /\ hasSamples
  /\ IF mainPid # 0 THEN StopMain ELSE UNCHANGED <<mains, mainPid>>
  /\ exitReason' = ExitReason
  /\ pc' = "analyse"
  /\ UNCHANGED <<mode, outcome, spawned, micros, statsReadable,
                 loopVars, failed, early, term, received, signalAt, abandoned, dbVars>>

\* write_report, finish_campaign, finish_run, return
Finish ==
  /\ report' = TRUE
  /\ runRow' = "completed"
  /\ Return

\* Micro-campaigns disabled: nothing is left but the report.
FinishAflOnly ==
  /\ pc = "analyse"
  /\ mode = "afl_only"
  /\ Finish
  /\ UNCHANGED <<mode, processVars, loopVars, exitVars, round, todo, rows>>

\* The forced plateau, the corpus snapshot and the last round of agents; the
\* ai-direct ablation ends there.
FinalAgents ==
  /\ pc = "analyse"
  /\ mode # "afl_only"
  /\ plateau' = IF plateau = "none" THEN "forced" ELSE plateau
  /\ \/ /\ mode = "direct"
        /\ Finish
        /\ UNCHANGED <<round, todo>>
     \/ /\ mode = "full"
        /\ pc' = "spawn"
        /\ round' = round + 1
        /\ todo' \in 1 .. MaxSpecs
        /\ UNCHANGED <<outcome, report, runRow>>
     \/ /\ "snapshot" \in Faults
        /\ Throw
        /\ UNCHANGED <<round, todo, report, runRow>>
  /\ UNCHANGED <<mode, processVars, hasSamples, latched, elapsed, lastTrigger,
                 exitVars, rows>>

\* Loop 1: all final micro-campaigns are spawned, none is waited for.
\* "pending" stands for a row still running whose process failed to spawn.
SpawnMicro ==
  /\ pc = "spawn"
  /\ todo > 0
  /\ \/ /\ micros' = micros \cup {Current}
        /\ rows' = Record("running")
        /\ todo' = todo - 1
        /\ UNCHANGED <<pc, outcome>>
     \/ /\ rows' = Record("pending")
        /\ todo' = todo - 1
        /\ UNCHANGED <<pc, outcome, micros>>
     \/ /\ "spawn" \in Faults
        /\ rows' = Record("running")
        /\ Throw
        /\ UNCHANGED <<todo, micros>>
  /\ UNCHANGED <<mode, mainPid, spawned, mains, statsReadable,
                 loopVars, exitVars, round, runRow, report>>

AllSpawned ==
  /\ pc = "spawn"
  /\ todo = 0
  /\ pc' = "await"
  /\ UNCHANGED <<mode, outcome, processVars, loopVars, exitVars, dbVars>>

\* Mutant: Loop 2 skips the micro-campaigns that failed to spawn.
UnsettledSpawned ==
  {m \in DOMAIN rows : m[1] = round /\ rows[m] = "running"}

\* The final micro-campaigns Loop 2 has still to handle.
Unsettled ==
  {m \in DOMAIN rows : m[1] = round /\ rows[m] \in {"running", "pending"}}

\* Loop 2, in spawn order: each process is waited for or stopped and its
\* result kept, or its row is closed as failed.
AwaitMicro ==
  /\ pc = "await"
  /\ \E m \in Unsettled :
       /\ \A k \in Unsettled : k[2] <= m[2]
       /\ \/ /\ rows[m] = "running"
             /\ micros' = micros \ {m}
             /\ \E status \in {"result", "failed"} :
                  rows' = [rows EXCEPT ![m] = status]
          \/ /\ rows[m] = "pending"
             /\ rows' = [rows EXCEPT ![m] = "failed"]
             /\ UNCHANGED micros
  /\ UNCHANGED <<mode, pc, outcome, mainPid, spawned, mains, statsReadable, loopVars, exitVars, round, todo, runRow, report>>

\* The winner is selected, the rows of the results are closed, the result
\* analysis agent runs, the winner is promoted, and the run is finished.
SelectAndFinish ==
  /\ pc = "await"
  /\ Unsettled = {}
  /\ rows' = [m \in DOMAIN rows |->
                IF rows[m] = "result" THEN "completed" ELSE rows[m]]
  /\ Finish
  /\ IF mainPid # 0 THEN StopMain ELSE UNCHANGED <<mains, mainPid>>
  /\ UNCHANGED <<mode, spawned, micros, statsReadable, loopVars,
                 exitVars, round, todo>>

-----------------------------------------------------------------------------
(* The environment *)

\* A tracked AFL writes fuzzer_stats.
AflWritesStats ==
  /\ outcome = "active"
  /\ mainPid \in mains
  /\ ~ statsReadable
  /\ statsReadable' = TRUE
  /\ UNCHANGED <<mode, pc, outcome, mainPid, spawned, mains, micros,
                 loopVars, exitVars, dbVars>>

\* A main AFL crashes, is killed or runs out of its own budget.
AflDies ==
  /\ outcome = "active"
  /\ \E p \in mains : mains' = mains \ {p}
  /\ UNCHANGED <<mode, pc, outcome, mainPid, spawned, micros, statsReadable,
                 loopVars, exitVars, dbVars>>

Signal ==
  /\ outcome = "active"
  /\ ~ term
  /\ term' = TRUE
  /\ signalAt' = elapsed
  /\ UNCHANGED <<mode, pc, outcome, processVars, loopVars, failed, early,
                 received, exitReason, abandoned, dbVars>>

-----------------------------------------------------------------------------

Controller ==
  \/ Launch \/ Prepare
  \/ LoopEnds \/ Sleep \/ Sampled \/ NotSampled
  \/ InlineAgents \/ PauseMain \/ InlineMicro \/ InlineMicroEnds
  \/ RestartMain \/ RestartPolled \/ Rearm
  \/ NoSamples \/ StopForAnalysis \/ FinishAflOnly \/ FinalAgents
  \/ SpawnMicro \/ AllSpawned \/ AwaitMicro \/ SelectAndFinish

Environment == AflWritesStats \/ AflDies \/ Signal

Ended == pc = "done" /\ UNCHANGED vars

Next == Controller \/ Environment \/ Ended

\* The controller keeps running: its waits are bounded by timeouts and the
\* agent block by a deadline.  Nothing is assumed of AFL or the operator.
Spec == Init /\ [][Next]_vars /\ WF_vars(Controller)

-----------------------------------------------------------------------------
(* Properties *)

Statuses == {"running", "pending", "result", "completed", "failed"}
Points == {"launch", "prepare", "loop", "sample", "agents", "pause", "micro",
           "await_micro", "await_restart", "rearm", "stop", "analyse",
           "spawn", "await", "done"}

NamesOK ==
  /\ mode \in Modes
  /\ pc \in Points
  /\ outcome \in {"active", "returned", "threw"}
  /\ plateau \in {"none", "natural", "heartbeat", "forced"}
  /\ runRow \in {"running", "completed"}
  /\ exitReason \in {"none", "early_exit", "signal_term", "loop_budget"}

ProcessesOK ==
  /\ mainPid \in Nat /\ spawned \in Nat
  /\ mains \subseteq 1 .. spawned
  /\ micros \subseteq Nat \X Nat

FlagsOK ==
  /\ statsReadable \in BOOLEAN /\ hasSamples \in BOOLEAN
  /\ latched \in BOOLEAN /\ failed \in BOOLEAN /\ early \in BOOLEAN
  /\ term \in BOOLEAN /\ received \in BOOLEAN /\ report \in BOOLEAN

CountersOK ==
  /\ elapsed \in 0 .. LoopBudget
  /\ lastTrigger \in 0 .. LoopBudget
  /\ signalAt \in 0 .. LoopBudget
  /\ round \in Nat
  /\ todo \in 0 .. MaxSpecs

RowsOK ==
  /\ DOMAIN rows \cup abandoned \subseteq Nat \X Nat
  /\ \A m \in DOMAIN rows : rows[m] \in Statuses

\* Types of the controller's state.
TypeOK == NamesOK /\ ProcessesOK /\ FlagsOK /\ CountersOK /\ RowsOK

\* Never two main AFL++ instances, and never one the controller has lost
\* track of while the run is going on: pauses, restarts, restart failures and
\* exceptions inside an intervention included.
MainIsTracked == mains \subseteq {mainPid}

\* The micro-campaigns the controller takes care of.
Waited == micros \ abandoned

\* Which kind of AFL++ the controller gave the machine to, and whether the run
\* is closed.
Turn == IF mains # {} THEN "main" ELSE IF Waited # {} THEN "micro" ELSE "idle"
Closed == runRow = "completed"

Machine == INSTANCE MachineTurns WITH turn <- Turn, closed <- Closed

\* The controller hands the machine from one kind of AFL++ to the other, never
\* to both, and closes the run when nobody has it: it implements MachineTurns,
\* also after interventions that threw.  A micro-campaign such an intervention
\* abandoned has left the game, though its AFL++ may still be running.
TurnsRespected == Machine!TurnSpec

\* A run whose database row says completed has stopped its main AFL++ and
\* written its report.
CompletedIsStopped == runRow = "completed" => mains = {} /\ report

\* A plateau is answered and forgotten: whenever the loop goes on with inline
\* agents, no plateau is pending and the detector is armed again, also after
\* an intervention that threw.
PlateauAnswered ==
  InlineEnabled /\ pc = "loop" => plateau = "none" /\ ~ latched

\* The loop is given up for an early exit only when no main AFL++ is left, and
\* not because of a signal: a slow start, statistics that cannot be read and a
\* death in the middle of a restart are told apart.  (The converse is not so: a
\* main AFL++ that dies after its first statistics is never looked at again.)
EarlyExitMeansGone == early => mains = {} /\ mainPid = 0 /\ ~ received

\* A termination signal ends the sampling loop within one pass, however long
\* the intervention during which it arrived.
SignalEndsLoop == term => elapsed <= signalAt + 1

\* Micro-campaigns have the machine for themselves: no main AFL++ runs beside
\* them, neither inline nor after the loop.
MicrosRunAlone == micros # {} => mains = {}

\* A run that returns leaves no AFL++ process and no open campaign row, except
\* those of micro-campaigns whose intervention threw under them.
ReturnIsClean ==
  outcome = "returned" =>
    /\ mains = {} /\ micros \subseteq abandoned
    /\ \A m \in DOMAIN rows \ abandoned : rows[m] \in {"completed", "failed"}

\* "AFL keeps running in the background": while the controller samples, there
\* is a main AFL++ it launched and has not itself taken away.
SamplingHasMain == pc \in {"loop", "sample", "agents"} => mainPid # 0

\* Every run comes to its end: it returns or throws.
RunEnds == <>(outcome # "active")

\* After a signal the run still does its "normal cleanup (DB finish_run,
\* report writing)" and tears AFL++ down.
SignalCleansUp ==
  received /\ outcome # "active" =>
    runRow = "completed" /\ report /\ mains = {}

=============================================================================
