------------------------- MODULE RunControllerProofs -------------------------
(***************************************************************************)
(* Proofs about RunController for every budget, heartbeat, number of        *)
(* micro-campaigns and set of calls that may throw.  The safety properties  *)
(* are not inductive: they need to know which main AFL++ is tracked where   *)
(* in run_mvp, what each way out of the loop leaves behind, and that the    *)
(* detector is armed where a sample is taken.  Inv collects these facts,    *)
(* one lemma shows for each of its parts that no step breaks it, and the    *)
(* theorems follow.  The second half is about the plateau detector that the *)
(* loop feeds: PlateauDetector for every configuration and every sequence   *)
(* of samples, PlateauPipeline for every way AFL writes its statistics and  *)
(* every timing of the polls.                                               *)
(***************************************************************************)
EXTENDS RunController, PlateauPipeline, SetInduction, SequenceTheorems, TLAPS

\* Where run_mvp is after the sampling loop.
AfterLoop == {"stop", "analyse", "spawn", "await", "done"}

\* No main AFL++ is tracked where micro-campaigns run and after the loop.
MainHeld ==
  /\ pc = "launch" => mains = {}
  /\ pc \in {"micro", "await_micro", "analyse", "spawn", "await"} => mainPid = 0

\* There is something to tick off when a micro-campaign ends.
TodoHeld == pc = "await_micro" => todo > 0

\* The last step closes the run, and only it.
Closing ==
  /\ pc = "done" <=> outcome # "active"
  /\ runRow = "completed" => pc = "done" /\ mains = {} /\ report

\* The detector is armed and no plateau is pending where a sample is taken.
PlateauOpen ==
  InlineEnabled /\ pc \in {"launch", "prepare", "loop", "sample"} =>
    plateau = "none" /\ ~ latched

\* The marks of the ways out of the loop exclude each other, and an early exit
\* has no main AFL++ left.
ExitKnown ==
  /\ pc \notin AfterLoop => ~ received
  /\ early => pc \in AfterLoop \cup {"rearm"}
  /\ received => term /\ ~ early
  /\ EarlyExitMeansGone

\* No pass has begun since the signal, or it was the one that ended the loop.
SignalKept ==
  /\ term /\ pc \notin AfterLoop => elapsed = signalAt
  /\ term => elapsed <= signalAt + 1

\* The inductive invariant.
Inv ==
  /\ TypeOK
  /\ TodoHeld
  /\ MainIsTracked
  /\ MainHeld
  /\ Closing
  /\ PlateauOpen
  /\ ExitKnown
  /\ SignalKept

\* Micro-campaigns are cared for only where they are waited for, and there no
\* main AFL++ runs.
MicrosHeld ==
  /\ pc \notin {"await_micro", "spawn", "await", "done"} => Waited = {}
  /\ pc = "await_micro" => Waited \subseteq {Current}
  /\ Waited # {} => mains = {}

\* A main AFL++ is tracked where the controller samples, and on its way there,
\* and no micro-campaign is abandoned.  (Holds as long as no exception leaves an
\* intervention.)
MainThere ==
  /\ abandoned = {}
  /\ pc \in {"prepare", "loop", "sample", "agents", "await_restart"} => mainPid # 0
  /\ pc = "rearm" /\ ~ early => mainPid # 0

-----------------------------------------------------------------------------
(* Every step preserves every part *)

\* The symbolic state stays within its types.
LEMMA NamesOKStep == Inv /\ [Next]_vars => NamesOK'
<1> SUFFICES ASSUME Inv, [Next]_vars PROVE NamesOK'
  OBVIOUS
<1> USE ControllerAssumption DEF ControllerAssumption, Inv, TypeOK, NamesOK,
   AfterLoop
<1> USE DEF processVars, loopVars, exitVars, dbVars, MainGone
<1>1. CASE Launch \/ Prepare
  BY <1>1 DEF Launch, SpawnMain, Throw, Prepare, Modes, Points
<1>2. CASE LoopEnds \/ Sleep \/ Sampled \/ NotSampled
  BY ZenonT(40), <1>2 DEF LoopEnds, BudgetLeft, Sleep, Passes, SignalSeen, Sampled,
     HeartbeatDue, InlineEnabled, NotSampled, Modes, Points
<1>3. CASE InlineAgents \/ PauseMain
  BY <1>3 DEF InlineAgents, Interrupted, PauseMain, StopMain, Modes, Points
<1>4. CASE InlineMicro \/ InlineMicroEnds
  BY <1>4 DEF InlineMicro, Interrupted, Record, Current, InlineMicroEnds,
     Modes, Points
<1>5. CASE RestartMain \/ RestartPolled \/ Rearm
  BY <1>5 DEF RestartMain, SpawnMain, Interrupted, RestartPolled, Rearm,
     ForgetPlateau, AfterRearm, Modes, Points
<1>6. CASE NoSamples \/ StopForAnalysis \/ FinishAflOnly \/ FinalAgents
  BY <1>6 DEF NoSamples, Throw, StopForAnalysis, StopMain, ExitReason,
     FinishAflOnly, Finish, Return, FinalAgents, Modes, Points
<1>7. CASE SpawnMicro \/ AllSpawned \/ AwaitMicro \/ SelectAndFinish
  BY <1>7 DEF SpawnMicro, Throw, Record, Current, AllSpawned, AwaitMicro,
     Unsettled, SelectAndFinish, Finish, Return, StopMain, Modes, Points
<1>8. CASE AflWritesStats \/ AflDies \/ Signal
  BY <1>8 DEF AflWritesStats, AflDies, BudgetLeft, Signal, Modes, Points
<1>9. CASE UNCHANGED vars
  BY <1>9 DEF vars, Modes, Points
<1> QED
  BY <1>1, <1>2, <1>3, <1>4, <1>5, <1>6, <1>7, <1>8, <1>9 DEF Next,
     Controller, Environment, Ended

\* Process identifiers are counted up and only ever removed again.
LEMMA ProcessesOKStep == Inv /\ [Next]_vars => ProcessesOK'
<1> SUFFICES ASSUME Inv, [Next]_vars PROVE ProcessesOK'
  OBVIOUS
<1> USE ControllerAssumption DEF ControllerAssumption, Inv, TypeOK,
   ProcessesOK, CountersOK, AfterLoop
<1> USE DEF processVars, loopVars, exitVars, dbVars, MainGone
<1>1. CASE Launch
  <2>1. CASE SpawnMain
    <3>1. spawned' = spawned + 1 /\ mains' = mains \cup {spawned'} /\ mainPid' = spawned'
      BY <2>1 DEF SpawnMain
    <3>2. micros' = micros
      BY <2>1 DEF SpawnMain
    <3>3. mains' \subseteq 1 .. spawned'
      BY <3>1, <3>2
    <3> QED
      BY <3>1, <3>2, <3>3
  <2>2. CASE UNCHANGED processVars
    BY <2>2 DEF processVars
  <2> QED
    BY <1>1, <2>1, <2>2 DEF Launch
<1>2. CASE NotSampled
  BY <1>2 DEF NotSampled
<1>3. CASE PauseMain
  <2>1. UNCHANGED <<spawned, micros>>
    BY <1>3 DEF PauseMain
  <2>2. mains' \subseteq mains /\ mainPid' \in {0, mainPid}
    BY <1>3 DEF PauseMain, StopMain
  <2> QED
    BY <2>1, <2>2
<1>4. CASE InlineMicro
  BY <1>4 DEF InlineMicro, Interrupted, Record, Current
<1>5. CASE InlineMicroEnds
  BY <1>5 DEF InlineMicroEnds, Interrupted, Current
<1>6. CASE RestartMain
  <2>1. CASE SpawnMain
    <3>1. spawned' = spawned + 1 /\ mains' = mains \cup {spawned'} /\ mainPid' = spawned'
      BY <2>1 DEF SpawnMain
    <3>2. micros' = micros
      BY <2>1 DEF SpawnMain
    <3>3. mains' \subseteq 1 .. spawned'
      BY <3>1, <3>2
    <3> QED
      BY <3>1, <3>2, <3>3
  <2>2. CASE UNCHANGED processVars
    BY <2>2 DEF processVars
  <2> QED
    BY <1>6, <2>1, <2>2 DEF RestartMain
<1>7. CASE RestartPolled
  BY <1>7 DEF RestartPolled
<1>8. CASE StopForAnalysis
  <2>1. UNCHANGED <<spawned, micros>>
    BY <1>8 DEF StopForAnalysis
  <2>2. mains' \subseteq mains /\ mainPid' \in {0, mainPid}
    BY <1>8 DEF StopForAnalysis, StopMain
  <2> QED
    BY <2>1, <2>2
<1>9. CASE SpawnMicro
  BY <1>9 DEF SpawnMicro, Throw, Record, Current
<1>10. CASE AwaitMicro
  BY <1>10 DEF AwaitMicro, Unsettled
<1>11. CASE SelectAndFinish
  <2>1. UNCHANGED <<spawned, micros>>
    BY <1>11 DEF SelectAndFinish
  <2>2. mains' \subseteq mains /\ mainPid' \in {0, mainPid}
    BY <1>11 DEF SelectAndFinish, StopMain
  <2> QED
    BY <2>1, <2>2
<1>12. CASE AflDies
  BY <1>12 DEF AflDies, BudgetLeft
<1>13. CASE Prepare \/ LoopEnds \/ Sleep \/ Sampled \/ InlineAgents \/ Rearm
   \/ NoSamples \/ FinishAflOnly \/ FinalAgents \/ AllSpawned \/
   AflWritesStats \/ Signal
  BY <1>13 DEF Prepare, Throw, LoopEnds, BudgetLeft, Sleep, Passes,
     SignalSeen, Sampled, HeartbeatDue, InlineEnabled, InlineAgents,
     Interrupted, Rearm, ForgetPlateau, AfterRearm, NoSamples, FinishAflOnly,
     Finish, Return, FinalAgents, AllSpawned, AflWritesStats, Signal
<1>14. CASE UNCHANGED vars
  BY <1>14 DEF vars
<1> QED
  BY <1>1, <1>2, <1>3, <1>4, <1>5, <1>6, <1>7, <1>8, <1>9, <1>10, <1>11,
     <1>12, <1>13, <1>14 DEF Next, Controller, Environment, Ended

\* The flags stay Boolean.
LEMMA FlagsOKStep == Inv /\ [Next]_vars => FlagsOK'
<1> SUFFICES ASSUME Inv, [Next]_vars PROVE FlagsOK'
  OBVIOUS
<1> USE ControllerAssumption DEF ControllerAssumption, Inv, TypeOK, FlagsOK,
   AfterLoop
<1> USE DEF processVars, loopVars, exitVars, dbVars, MainGone
<1>1. CASE Launch
  BY <1>1 DEF Launch, SpawnMain, Throw
<1>2. CASE Sleep \/ Sampled \/ NotSampled
  BY <1>2 DEF Sleep, BudgetLeft, Passes, SignalSeen, Sampled, HeartbeatDue,
     InlineEnabled, NotSampled
<1>3. CASE InlineAgents
  BY <1>3 DEF InlineAgents, Interrupted
<1>4. CASE InlineMicro \/ InlineMicroEnds
  BY <1>4 DEF InlineMicro, Interrupted, Record, Current, InlineMicroEnds
<1>5. CASE RestartMain \/ RestartPolled \/ Rearm
  BY <1>5 DEF RestartMain, SpawnMain, Interrupted, RestartPolled, Rearm,
     ForgetPlateau, AfterRearm
<1>6. CASE FinishAflOnly \/ FinalAgents
  BY <1>6 DEF FinishAflOnly, Finish, Return, FinalAgents, Throw
<1>7. CASE SelectAndFinish
  BY <1>7 DEF SelectAndFinish, Finish, Return, StopMain, Unsettled
<1>8. CASE AflWritesStats \/ Signal
  BY <1>8 DEF AflWritesStats, Signal
<1>9. CASE Prepare \/ LoopEnds \/ PauseMain \/ NoSamples \/ StopForAnalysis \/
   SpawnMicro \/ AllSpawned \/ AwaitMicro \/ AflDies
  BY <1>9 DEF Prepare, Throw, LoopEnds, BudgetLeft, PauseMain, StopMain,
     NoSamples, StopForAnalysis, ExitReason, SpawnMicro, Record, Current,
     AllSpawned, AwaitMicro, Unsettled, AflDies
<1>10. CASE UNCHANGED vars
  BY <1>10 DEF vars
<1> QED
  BY <1>1, <1>2, <1>3, <1>4, <1>5, <1>6, <1>7, <1>8, <1>9, <1>10 DEF Next,
     Controller, Environment, Ended

\* The counters stay within their bounds: a pass is begun only while budget is
\* left, and a micro-campaign is ticked off only when one is left.
LEMMA CountersOKStep == Inv /\ [Next]_vars => CountersOK'
<1> SUFFICES ASSUME Inv, [Next]_vars PROVE CountersOK'
  OBVIOUS
<1> USE ControllerAssumption DEF ControllerAssumption, Inv, TypeOK,
   CountersOK, TodoHeld, AfterLoop
<1> USE DEF processVars, loopVars, exitVars, dbVars, MainGone
<1>1. CASE Sleep
  BY <1>1 DEF Sleep, BudgetLeft, Passes, SignalSeen
<1>2. CASE InlineAgents
  BY <1>2 DEF InlineAgents, Interrupted
<1>3. CASE InlineMicro \/ InlineMicroEnds
  BY <1>3 DEF InlineMicro, Interrupted, Record, Current, InlineMicroEnds
<1>4. CASE Rearm
  BY <1>4 DEF Rearm, ForgetPlateau, AfterRearm
<1>5. CASE FinalAgents
  BY <1>5 DEF FinalAgents, Finish, Return, Throw
<1>6. CASE SpawnMicro
  BY <1>6 DEF SpawnMicro, Throw, Record, Current
<1>7. CASE Signal
  BY <1>7 DEF Signal
<1>8. CASE Launch \/ Prepare \/ LoopEnds \/ Sampled \/ NotSampled \/ PauseMain
   \/ RestartMain \/ RestartPolled \/ NoSamples \/ StopForAnalysis \/
   FinishAflOnly \/ AllSpawned \/ AwaitMicro \/ SelectAndFinish \/
   AflWritesStats \/ AflDies
  BY <1>8 DEF Launch, SpawnMain, Throw, Prepare, LoopEnds, BudgetLeft,
     Sampled, HeartbeatDue, InlineEnabled, NotSampled, PauseMain, StopMain,
     RestartMain, Interrupted, RestartPolled, NoSamples, StopForAnalysis,
     ExitReason, FinishAflOnly, Finish, Return, AllSpawned, AwaitMicro,
     Unsettled, SelectAndFinish, AflWritesStats, AflDies
<1>9. CASE UNCHANGED vars
  BY <1>9 DEF vars
<1> QED
  BY <1>1, <1>2, <1>3, <1>4, <1>5, <1>6, <1>7, <1>8, <1>9 DEF Next,
     Controller, Environment, Ended

\* The campaign rows keep legal statuses.
LEMMA RowsOKStep == Inv /\ [Next]_vars => RowsOK'
<1> SUFFICES ASSUME Inv, [Next]_vars PROVE RowsOK'
  OBVIOUS
<1> USE ControllerAssumption DEF ControllerAssumption, Inv, TypeOK,
   CountersOK, RowsOK, AfterLoop
<1> USE DEF processVars, loopVars, exitVars, dbVars, MainGone
<1>1. CASE InlineMicro \/ InlineMicroEnds
  BY <1>1 DEF InlineMicro, Interrupted, Record, Current, InlineMicroEnds,
     Statuses
<1>2. CASE SpawnMicro \/ AwaitMicro \/ SelectAndFinish
  BY <1>2 DEF SpawnMicro, Throw, Record, Current, AwaitMicro, Unsettled,
     SelectAndFinish, Finish, Return, StopMain, Statuses
<1>3. CASE Launch \/ Prepare \/ LoopEnds \/ Sleep \/ Sampled \/ NotSampled \/
   InlineAgents \/ PauseMain \/ RestartMain \/ RestartPolled \/ Rearm \/
   NoSamples \/ StopForAnalysis \/ FinishAflOnly \/ FinalAgents \/ AllSpawned
   \/ AflWritesStats \/ AflDies \/ Signal
  BY <1>3 DEF Launch, SpawnMain, Throw, Prepare, LoopEnds, BudgetLeft, Sleep,
     Passes, SignalSeen, Sampled, HeartbeatDue, InlineEnabled, NotSampled,
     InlineAgents, Interrupted, PauseMain, StopMain, RestartMain,
     RestartPolled, Rearm, ForgetPlateau, AfterRearm, NoSamples,
     StopForAnalysis, ExitReason, FinishAflOnly, Finish, Return, FinalAgents,
     AllSpawned, AflWritesStats, AflDies, Signal, Statuses
<1>4. CASE UNCHANGED vars
  BY <1>4 DEF vars, Statuses
<1> QED
  BY <1>1, <1>2, <1>3, <1>4 DEF Next, Controller, Environment, Ended

\* A micro-campaign that is waited for has not been ticked off.
LEMMA TodoHeldStep == Inv /\ [Next]_vars => TodoHeld'
<1> SUFFICES ASSUME Inv, [Next]_vars PROVE TodoHeld'
  OBVIOUS
<1> USE ControllerAssumption DEF ControllerAssumption, Inv, TypeOK, NamesOK,
   TodoHeld, AfterLoop
<1> USE DEF processVars, loopVars, exitVars, dbVars, MainGone
<1>1. CASE Launch \/ Prepare
  BY <1>1 DEF Launch, SpawnMain, Throw, Prepare
<1>2. CASE LoopEnds \/ Sleep \/ Sampled \/ NotSampled
  BY <1>2 DEF LoopEnds, BudgetLeft, Sleep, Passes, SignalSeen, Sampled,
     HeartbeatDue, InlineEnabled, NotSampled
<1>3. CASE InlineAgents \/ PauseMain
  BY <1>3 DEF InlineAgents, Interrupted, PauseMain, StopMain
<1>4. CASE InlineMicro \/ InlineMicroEnds
  BY <1>4 DEF InlineMicro, Interrupted, Record, Current, InlineMicroEnds
<1>5. CASE RestartMain \/ RestartPolled \/ Rearm
  BY <1>5 DEF RestartMain, SpawnMain, Interrupted, RestartPolled, Rearm,
     ForgetPlateau, AfterRearm
<1>6. CASE NoSamples \/ StopForAnalysis \/ FinishAflOnly \/ FinalAgents
  BY <1>6 DEF NoSamples, Throw, StopForAnalysis, StopMain, ExitReason,
     FinishAflOnly, Finish, Return, FinalAgents
<1>7. CASE SpawnMicro \/ AllSpawned \/ AwaitMicro \/ SelectAndFinish
  BY <1>7 DEF SpawnMicro, Throw, Record, Current, AllSpawned, AwaitMicro,
     Unsettled, SelectAndFinish, Finish, Return, StopMain
<1>8. CASE AflWritesStats \/ AflDies \/ Signal
  BY <1>8 DEF AflWritesStats, AflDies, BudgetLeft, Signal
<1>9. CASE UNCHANGED vars
  BY <1>9 DEF vars
<1> QED
  BY <1>1, <1>2, <1>3, <1>4, <1>5, <1>6, <1>7, <1>8, <1>9 DEF Next,
     Controller, Environment, Ended

\* A main AFL++ is started only where none is running, and every other step
\* only removes main AFL++s.
LEMMA MainIsTrackedStep == Inv /\ [Next]_vars => MainIsTracked'
<1> SUFFICES ASSUME Inv, [Next]_vars PROVE MainIsTracked'
  OBVIOUS
<1> USE ControllerAssumption DEF ControllerAssumption, Inv, TypeOK, NamesOK,
   MainIsTracked, MainHeld, AfterLoop
<1> USE DEF processVars, loopVars, exitVars, dbVars, MainGone
<1> mainPid = 0 => mains = {}
  BY DEF ProcessesOK
<1>1. CASE Launch
  BY <1>1 DEF Launch, SpawnMain, Throw
<1>2. CASE NotSampled
  BY <1>2 DEF NotSampled
<1>3. CASE PauseMain
  BY <1>3 DEF PauseMain, StopMain
<1>4. CASE RestartMain \/ RestartPolled
  BY <1>4 DEF RestartMain, SpawnMain, Interrupted, RestartPolled
<1>5. CASE StopForAnalysis
  BY <1>5 DEF StopForAnalysis, StopMain, ExitReason
<1>6. CASE SelectAndFinish
  BY <1>6 DEF SelectAndFinish, Finish, Return, StopMain, Unsettled
<1>7. CASE AflDies
  BY <1>7 DEF AflDies, BudgetLeft
<1>8. CASE Prepare \/ LoopEnds \/ Sleep \/ Sampled \/ InlineAgents \/
   InlineMicro \/ InlineMicroEnds \/ Rearm \/ NoSamples \/ FinishAflOnly \/
   FinalAgents \/ SpawnMicro \/ AllSpawned \/ AwaitMicro \/ AflWritesStats \/
   Signal
  BY <1>8 DEF Prepare, Throw, LoopEnds, BudgetLeft, Sleep, Passes, SignalSeen,
     Sampled, HeartbeatDue, InlineEnabled, InlineAgents, Interrupted,
     InlineMicro, Record, Current, InlineMicroEnds, Rearm, ForgetPlateau,
     AfterRearm, NoSamples, FinishAflOnly, Finish, Return, FinalAgents,
     SpawnMicro, AllSpawned, AwaitMicro, Unsettled, AflWritesStats, Signal
<1>9. CASE UNCHANGED vars
  BY <1>9 DEF vars
<1> QED
  BY <1>1, <1>2, <1>3, <1>4, <1>5, <1>6, <1>7, <1>8, <1>9 DEF Next,
     Controller, Environment, Ended

\* No main AFL++ is tracked while micro-campaigns run or after the loop.
LEMMA MainHeldStep == Inv /\ [Next]_vars => MainHeld'
<1> SUFFICES ASSUME Inv, [Next]_vars PROVE MainHeld'
  OBVIOUS
<1> USE ControllerAssumption DEF ControllerAssumption, Inv, TypeOK, NamesOK,
   MainIsTracked, MainHeld, Closing, AfterLoop
<1> USE DEF processVars, loopVars, exitVars, dbVars, MainGone
<1> mainPid = 0 => mains = {}
  BY DEF ProcessesOK
<1>1. CASE Launch \/ Prepare
  BY <1>1 DEF Launch, SpawnMain, Throw, Prepare
<1>2. CASE LoopEnds \/ Sleep \/ Sampled \/ NotSampled
  BY <1>2 DEF LoopEnds, BudgetLeft, Sleep, Passes, SignalSeen, Sampled,
     HeartbeatDue, InlineEnabled, NotSampled
<1>3. CASE InlineAgents \/ PauseMain
  BY <1>3 DEF InlineAgents, Interrupted, PauseMain, StopMain
<1>4. CASE InlineMicro \/ InlineMicroEnds
  BY <1>4 DEF InlineMicro, Interrupted, Record, Current, InlineMicroEnds
<1>5. CASE RestartMain \/ RestartPolled \/ Rearm
  BY <1>5 DEF RestartMain, SpawnMain, Interrupted, RestartPolled, Rearm,
     ForgetPlateau, AfterRearm
<1>6. CASE NoSamples \/ StopForAnalysis \/ FinishAflOnly \/ FinalAgents
  BY <1>6 DEF NoSamples, Throw, StopForAnalysis, StopMain, ExitReason,
     FinishAflOnly, Finish, Return, FinalAgents
<1>7. CASE SpawnMicro \/ AllSpawned \/ AwaitMicro \/ SelectAndFinish
  BY <1>7 DEF SpawnMicro, Throw, Record, Current, AllSpawned, AwaitMicro,
     Unsettled, SelectAndFinish, Finish, Return, StopMain
<1>8. CASE AflDies
  BY <1>8 DEF AflDies, BudgetLeft
<1>9. CASE AflWritesStats \/ Signal
  BY <1>9 DEF AflWritesStats, Signal
<1>10. CASE UNCHANGED vars
  BY <1>10 DEF vars
<1> QED
  BY <1>1, <1>2, <1>3, <1>4, <1>5, <1>6, <1>7, <1>8, <1>9, <1>10 DEF Next,
     Controller, Environment, Ended

\* The run is recorded as completed only by its last step, with AFL++ stopped
\* and the report written; nothing happens afterwards.
LEMMA ClosingStep == Inv /\ [Next]_vars => Closing'
<1> SUFFICES ASSUME Inv, [Next]_vars PROVE Closing'
  OBVIOUS
<1> USE ControllerAssumption DEF ControllerAssumption, Inv, TypeOK, NamesOK,
   MainIsTracked, MainHeld, Closing, AfterLoop
<1> USE DEF processVars, loopVars, exitVars, dbVars, MainGone
<1> mainPid = 0 => mains = {}
  BY DEF ProcessesOK
<1>1. CASE Launch \/ Prepare
  BY <1>1 DEF Launch, SpawnMain, Throw, Prepare
<1>2. CASE LoopEnds \/ Sleep \/ Sampled \/ NotSampled
  BY <1>2 DEF LoopEnds, BudgetLeft, Sleep, Passes, SignalSeen, Sampled,
     HeartbeatDue, InlineEnabled, NotSampled
<1>3. CASE InlineAgents \/ PauseMain
  BY <1>3 DEF InlineAgents, Interrupted, PauseMain, StopMain
<1>4. CASE InlineMicro \/ InlineMicroEnds
  BY <1>4 DEF InlineMicro, Interrupted, Record, Current, InlineMicroEnds
<1>5. CASE RestartMain \/ RestartPolled \/ Rearm
  BY <1>5 DEF RestartMain, SpawnMain, Interrupted, RestartPolled, Rearm,
     ForgetPlateau, AfterRearm
<1>6. CASE NoSamples \/ StopForAnalysis \/ FinishAflOnly \/ FinalAgents
  BY <1>6 DEF NoSamples, Throw, StopForAnalysis, StopMain, ExitReason,
     FinishAflOnly, Finish, Return, FinalAgents
<1>7. CASE SpawnMicro \/ AllSpawned \/ AwaitMicro \/ SelectAndFinish
  BY <1>7 DEF SpawnMicro, Throw, Record, Current, AllSpawned, AwaitMicro,
     Unsettled, SelectAndFinish, Finish, Return, StopMain
<1>8. CASE AflDies
  BY <1>8 DEF AflDies, BudgetLeft
<1>9. CASE AflWritesStats \/ Signal
  BY <1>9 DEF AflWritesStats, Signal
<1>10. CASE UNCHANGED vars
  BY <1>10 DEF vars
<1> QED
  BY <1>1, <1>2, <1>3, <1>4, <1>5, <1>6, <1>7, <1>8, <1>9, <1>10 DEF Next,
     Controller, Environment, Ended

\* A plateau that is set leaves the sampling points for the agents at once,
\* and the way back to them passes the reset.
LEMMA PlateauOpenStep == Inv /\ [Next]_vars => PlateauOpen'
<1> SUFFICES ASSUME Inv, [Next]_vars PROVE PlateauOpen'
  OBVIOUS
<1> USE ControllerAssumption DEF ControllerAssumption, Inv, TypeOK, NamesOK,
   PlateauOpen, AfterLoop
<1> USE DEF processVars, loopVars, exitVars, dbVars, MainGone
<1>1. CASE Launch \/ Prepare
  BY <1>1 DEF Launch, SpawnMain, Throw, Prepare, InlineEnabled
<1>2. CASE LoopEnds \/ Sleep \/ Sampled \/ NotSampled
  BY <1>2 DEF LoopEnds, BudgetLeft, Sleep, Passes, SignalSeen, Sampled,
     HeartbeatDue, InlineEnabled, NotSampled
<1>3. CASE InlineAgents \/ PauseMain
  BY <1>3 DEF InlineAgents, Interrupted, PauseMain, StopMain, InlineEnabled
<1>4. CASE InlineMicro \/ InlineMicroEnds
  BY <1>4 DEF InlineMicro, Interrupted, Record, Current, InlineMicroEnds,
     InlineEnabled
<1>5. CASE RestartMain \/ RestartPolled \/ Rearm
  BY <1>5 DEF RestartMain, SpawnMain, Interrupted, RestartPolled, Rearm,
     ForgetPlateau, AfterRearm, InlineEnabled
<1>6. CASE NoSamples \/ StopForAnalysis \/ FinishAflOnly \/ FinalAgents
  BY <1>6 DEF NoSamples, Throw, StopForAnalysis, StopMain, ExitReason,
     FinishAflOnly, Finish, Return, FinalAgents, InlineEnabled
<1>7. CASE SpawnMicro \/ AllSpawned \/ AwaitMicro \/ SelectAndFinish
  BY <1>7 DEF SpawnMicro, Throw, Record, Current, AllSpawned, AwaitMicro,
     Unsettled, SelectAndFinish, Finish, Return, StopMain, InlineEnabled
<1>8. CASE AflWritesStats \/ AflDies \/ Signal
  BY <1>8 DEF AflWritesStats, AflDies, BudgetLeft, Signal, InlineEnabled
<1>9. CASE UNCHANGED vars
  BY <1>9 DEF vars, InlineEnabled
<1> QED
  BY <1>1, <1>2, <1>3, <1>4, <1>5, <1>6, <1>7, <1>8, <1>9 DEF Next,
     Controller, Environment, Ended

\* Each way out of the loop leaves its own mark, and no two are left.
LEMMA ExitKnownStep == Inv /\ [Next]_vars => ExitKnown'
<1> SUFFICES ASSUME Inv, [Next]_vars PROVE ExitKnown'
  OBVIOUS
<1> USE ControllerAssumption DEF ControllerAssumption, Inv, TypeOK, NamesOK,
   ProcessesOK, MainIsTracked, MainHeld, ExitKnown, AfterLoop
<1> USE DEF processVars, loopVars, exitVars, dbVars, MainGone
<1>1. CASE Launch \/ Prepare
  BY <1>1 DEF Launch, SpawnMain, Throw, Prepare, EarlyExitMeansGone
<1>2. CASE LoopEnds
  BY <1>2 DEF LoopEnds, BudgetLeft, EarlyExitMeansGone
<1>3. CASE Sleep
  BY <1>3 DEF Sleep, BudgetLeft, Passes, SignalSeen, EarlyExitMeansGone
<1>4. CASE Sampled
  BY <1>4 DEF Sampled, HeartbeatDue, InlineEnabled, EarlyExitMeansGone
<1>5. CASE NotSampled
  BY <1>5 DEF NotSampled, EarlyExitMeansGone
<1>6. CASE InlineAgents \/ PauseMain
  BY <1>6 DEF InlineAgents, Interrupted, PauseMain, StopMain, EarlyExitMeansGone
<1>7. CASE InlineMicro \/ InlineMicroEnds
  BY <1>7 DEF InlineMicro, Interrupted, Record, Current, InlineMicroEnds,
     EarlyExitMeansGone
<1>8. CASE RestartMain \/ RestartPolled \/ Rearm
  <2>1. CASE RestartMain
    <3>1. mainPid = 0 /\ mains = {} /\ ~ early /\ ~ received
      BY <2>1 DEF RestartMain
    <3>2. received' = received /\ term' = term
          /\ pc' \in {"await_restart", "rearm"}
      BY <2>1 DEF RestartMain, Interrupted
    <3>3. early' => UNCHANGED <<mains, mainPid>>
      BY <2>1, <3>1 DEF RestartMain, Interrupted
    <3>4. early' => pc' = "rearm"
      BY <2>1, <3>1 DEF RestartMain, Interrupted
    <3> QED
      BY <3>1, <3>2, <3>3, <3>4 DEF EarlyExitMeansGone
  <2>2. CASE RestartPolled
    BY <2>2 DEF RestartPolled, EarlyExitMeansGone
  <2>3. CASE Rearm
    BY <2>3 DEF Rearm, ForgetPlateau, AfterRearm, EarlyExitMeansGone
  <2> QED
    BY <1>8, <2>1, <2>2, <2>3
<1>9. CASE NoSamples \/ StopForAnalysis \/ FinishAflOnly \/ FinalAgents
  <2>1. CASE NoSamples
    BY <2>1 DEF NoSamples, Throw, EarlyExitMeansGone
  <2>2. CASE StopForAnalysis
    <3>1. mains' \subseteq mains /\ mainPid' \in {0, mainPid}
      BY <2>2 DEF StopForAnalysis, StopMain
    <3> QED
      BY <2>2, <3>1 DEF StopForAnalysis, EarlyExitMeansGone
  <2>3. CASE FinishAflOnly \/ FinalAgents
    <3>1. UNCHANGED <<early, received, term, mains, mainPid>>
      BY <2>3 DEF FinishAflOnly, FinalAgents
    <3>2. pc' \in {"done", "spawn"}
      BY <2>3 DEF FinishAflOnly, Finish, Return, Throw, FinalAgents
    <3>3. pc = "analyse"
      BY <2>3 DEF FinishAflOnly, FinalAgents
    <3> QED
      BY <3>1, <3>2, <3>3 DEF EarlyExitMeansGone
  <2> QED
    BY <1>9, <2>1, <2>2, <2>3
<1>10. CASE SpawnMicro \/ AllSpawned \/ AwaitMicro \/ SelectAndFinish
  BY <1>10 DEF SpawnMicro, Throw, Record, Current, AllSpawned, AwaitMicro,
     Unsettled, SelectAndFinish, Finish, Return, StopMain, EarlyExitMeansGone
<1>11. CASE Signal
  BY <1>11 DEF Signal, EarlyExitMeansGone
<1>12. CASE AflWritesStats \/ AflDies
  BY <1>12 DEF AflWritesStats, AflDies, BudgetLeft, EarlyExitMeansGone
<1>13. CASE UNCHANGED vars
  BY <1>13 DEF vars, EarlyExitMeansGone
<1> QED
  BY <1>1, <1>2, <1>3, <1>4, <1>5, <1>6, <1>7, <1>8, <1>9, <1>10, <1>11,
     <1>12, <1>13 DEF Next, Controller, Environment, Ended

\* Micro-campaigns run only where the controller waits for them, except those
\* an exception abandoned, and there no main AFL++ runs.
LEMMA MicrosHeldStep == Inv /\ MicrosHeld /\ [Next]_vars => MicrosHeld'
<1> SUFFICES ASSUME Inv, MicrosHeld, [Next]_vars PROVE MicrosHeld'
  OBVIOUS
<1> USE ControllerAssumption DEF ControllerAssumption, Inv, TypeOK, NamesOK,
   ProcessesOK, CountersOK, RowsOK, MainIsTracked, MainHeld, Closing,
   MicrosHeld, Waited, AfterLoop
<1> USE DEF processVars, loopVars, exitVars, dbVars, MainGone
<1> mainPid = 0 => mains = {}
  BY DEF ProcessesOK
<1>1. CASE Launch \/ Prepare
  BY <1>1 DEF Launch, SpawnMain, Throw, Prepare, Current
<1>2. CASE LoopEnds \/ Sleep \/ Sampled \/ NotSampled
  BY <1>2 DEF LoopEnds, BudgetLeft, Sleep, Passes, SignalSeen, Sampled,
     HeartbeatDue, InlineEnabled, NotSampled, Current
<1>3. CASE InlineAgents \/ PauseMain
  BY <1>3 DEF InlineAgents, Interrupted, PauseMain, StopMain, Current
<1>4. CASE InlineMicro \/ InlineMicroEnds
  BY <1>4 DEF InlineMicro, Interrupted, Record, Current, InlineMicroEnds
<1>5. CASE RestartMain \/ RestartPolled \/ Rearm
  BY <1>5 DEF RestartMain, SpawnMain, Interrupted, RestartPolled, Rearm,
     ForgetPlateau, AfterRearm, Current
<1>6. CASE NoSamples \/ StopForAnalysis \/ FinishAflOnly \/ FinalAgents
  BY <1>6 DEF NoSamples, Throw, StopForAnalysis, StopMain, ExitReason,
     FinishAflOnly, Finish, Return, FinalAgents, Current
<1>7. CASE SpawnMicro \/ AllSpawned \/ AwaitMicro \/ SelectAndFinish
  BY <1>7 DEF SpawnMicro, Throw, Record, Current, AllSpawned, AwaitMicro,
     Unsettled, SelectAndFinish, Finish, Return, StopMain
<1>8. CASE AflDies
  BY <1>8 DEF AflDies, BudgetLeft, Current
<1>9. CASE AflWritesStats \/ Signal
  BY <1>9 DEF AflWritesStats, Signal, Current
<1>10. CASE UNCHANGED vars
  BY <1>10 DEF vars, Current
<1> QED
  BY <1>1, <1>2, <1>3, <1>4, <1>5, <1>6, <1>7, <1>8, <1>9, <1>10 DEF Next,
     Controller, Environment, Ended

\* Without exceptions inside an intervention, the way back to the sampling
\* points passes a restart, or the end of the loop.
LEMMA MainThereStep ==
  ASSUME "inline" \notin Faults
  PROVE  Inv /\ MainThere /\ [Next]_vars => MainThere'
<1> SUFFICES ASSUME Inv, MainThere, [Next]_vars PROVE MainThere'
  OBVIOUS
<1> USE ControllerAssumption DEF ControllerAssumption, Inv, TypeOK, NamesOK,
   ProcessesOK, ExitKnown, MainThere, AfterLoop
<1> USE DEF processVars, loopVars, exitVars, dbVars, MainGone
<1>1. CASE Launch \/ Prepare
  BY <1>1 DEF Launch, SpawnMain, Throw, Prepare
<1>2. CASE LoopEnds \/ Sleep \/ Sampled \/ NotSampled
  BY <1>2 DEF LoopEnds, BudgetLeft, Sleep, Passes, SignalSeen, Sampled,
     HeartbeatDue, InlineEnabled, NotSampled
<1>3. CASE InlineAgents \/ PauseMain
  BY <1>3 DEF InlineAgents, Interrupted, PauseMain, StopMain
<1>4. CASE InlineMicro \/ InlineMicroEnds
  BY <1>4 DEF InlineMicro, Interrupted, Record, Current, InlineMicroEnds
<1>5. CASE RestartMain \/ RestartPolled \/ Rearm
  BY <1>5 DEF RestartMain, SpawnMain, Interrupted, RestartPolled, Rearm,
     ForgetPlateau, AfterRearm
<1>6. CASE NoSamples \/ StopForAnalysis \/ FinishAflOnly \/ FinalAgents
  BY <1>6 DEF NoSamples, Throw, StopForAnalysis, StopMain, ExitReason,
     FinishAflOnly, Finish, Return, FinalAgents
<1>7. CASE SpawnMicro \/ AllSpawned \/ AwaitMicro \/ SelectAndFinish
  BY <1>7 DEF SpawnMicro, Throw, Record, Current, AllSpawned, AwaitMicro,
     Unsettled, SelectAndFinish, Finish, Return, StopMain
<1>8. CASE AflDies
  BY <1>8 DEF AflDies, BudgetLeft
<1>9. CASE AflWritesStats \/ Signal
  BY <1>9 DEF AflWritesStats, Signal
<1>10. CASE UNCHANGED vars
  BY <1>10 DEF vars
<1> QED
  BY <1>1, <1>2, <1>3, <1>4, <1>5, <1>6, <1>7, <1>8, <1>9, <1>10 DEF Next,
     Controller, Environment, Ended

\* No pass is begun between a signal and the end of the loop, except one.
LEMMA SignalKeptStep == Inv /\ [Next]_vars => SignalKept'
<1> SUFFICES ASSUME Inv, [Next]_vars PROVE SignalKept'
  OBVIOUS
<1> USE ControllerAssumption DEF ControllerAssumption, Inv, TypeOK, NamesOK,
   CountersOK, SignalKept, ExitKnown, AfterLoop
<1> USE DEF processVars, loopVars, exitVars, dbVars, MainGone
<1>1. CASE Launch \/ Prepare
  BY <1>1 DEF Launch, SpawnMain, Throw, Prepare
<1>2. CASE LoopEnds
  BY <1>2 DEF LoopEnds, BudgetLeft
<1>3. CASE Sleep
  BY <1>3 DEF Sleep, BudgetLeft, Passes, SignalSeen
<1>4. CASE Sampled
  BY <1>4 DEF Sampled, HeartbeatDue, InlineEnabled
<1>5. CASE NotSampled
  BY <1>5 DEF NotSampled
<1>6. CASE InlineAgents \/ PauseMain
  BY <1>6 DEF InlineAgents, Interrupted, PauseMain, StopMain
<1>7. CASE InlineMicro \/ InlineMicroEnds
  BY <1>7 DEF InlineMicro, Interrupted, Record, Current, InlineMicroEnds
<1>8. CASE RestartMain \/ RestartPolled \/ Rearm
  BY <1>8 DEF RestartMain, SpawnMain, Interrupted, RestartPolled, Rearm,
     ForgetPlateau, AfterRearm
<1>9. CASE NoSamples \/ StopForAnalysis \/ FinishAflOnly \/ FinalAgents
  BY <1>9 DEF NoSamples, Throw, StopForAnalysis, StopMain, ExitReason,
     FinishAflOnly, Finish, Return, FinalAgents
<1>10. CASE SpawnMicro \/ AllSpawned \/ AwaitMicro \/ SelectAndFinish
  BY <1>10 DEF SpawnMicro, Throw, Record, Current, AllSpawned, AwaitMicro,
     Unsettled, SelectAndFinish, Finish, Return, StopMain
<1>11. CASE Signal
  BY <1>11 DEF Signal
<1>12. CASE AflWritesStats \/ AflDies
  BY <1>12 DEF AflWritesStats, AflDies, BudgetLeft
<1>13. CASE UNCHANGED vars
  BY <1>13 DEF vars
<1> QED
  BY <1>1, <1>2, <1>3, <1>4, <1>5, <1>6, <1>7, <1>8, <1>9, <1>10, <1>11,
     <1>12, <1>13 DEF Next, Controller, Environment, Ended

-----------------------------------------------------------------------------
(* The theorems *)

\* The initial states satisfy all parts.
LEMMA InvInit == Init => Inv /\ MicrosHeld /\ MainThere
<1> SUFFICES ASSUME Init PROVE Inv /\ MicrosHeld /\ MainThere
  OBVIOUS
<1> USE ControllerAssumption DEF ControllerAssumption, Init, AfterLoop
<1>1. TypeOK
  <2>1. NamesOK
    BY DEF NamesOK, Points
  <2>2. ProcessesOK /\ CountersOK
    BY DEF ProcessesOK, CountersOK
  <2>3. FlagsOK
    BY DEF FlagsOK
  <2>4. RowsOK
    BY DEF RowsOK
  <2> QED
    BY <2>1, <2>2, <2>3, <2>4 DEF TypeOK
<1>2. MainIsTracked /\ MainHeld /\ TodoHeld
  BY DEF MainIsTracked, MainHeld, TodoHeld
<1>5. Closing
  BY DEF Closing
<1>3. PlateauOpen /\ ExitKnown /\ SignalKept
  BY DEF PlateauOpen, ExitKnown, EarlyExitMeansGone, SignalKept
<1>4. MicrosHeld /\ MainThere
  BY DEF MicrosHeld, Waited, MainThere
<1> QED
  BY <1>1, <1>2, <1>3, <1>4, <1>5 DEF Inv

\* No step leaves the inductive invariant.
LEMMA InvStep == Inv /\ [Next]_vars => Inv'
<1> SUFFICES ASSUME Inv, [Next]_vars PROVE Inv'
  OBVIOUS
<1>1. TypeOK'
  BY NamesOKStep, ProcessesOKStep, FlagsOKStep, CountersOKStep, RowsOKStep
     DEF TypeOK
<1> QED
  BY <1>1, TodoHeldStep, MainIsTrackedStep, MainHeldStep, ClosingStep,
     PlateauOpenStep, ExitKnownStep, SignalKeptStep DEF Inv

\* Inv holds throughout every run.
THEOREM ControllerInvariant == Spec => []Inv
<1>1. Init => Inv
  BY InvInit
<1>2. Inv /\ [Next]_vars => Inv'
  BY InvStep
<1> QED
  BY <1>1, <1>2, PTL DEF Spec

\* The controller's state stays within its types.
THEOREM ControllerTypes == Spec => []TypeOK
<1>1. Inv => TypeOK
  BY DEF Inv
<1> QED
  BY <1>1, ControllerInvariant, PTL

\* Whatever fails, there is never a second main AFL++ nor a forgotten one while
\* the controller runs: spawn_process and stop_afl_process are paired.
THEOREM MainAlwaysTracked == Spec => []MainIsTracked
<1>1. Inv => MainIsTracked
  BY DEF Inv
<1> QED
  BY <1>1, ControllerInvariant, PTL

\* finish_run("completed") is reached only with AFL++ stopped and the report
\* written.
THEOREM CompletionIsClean == Spec => []CompletedIsStopped
<1>1. Inv => CompletedIsStopped
  BY DEF Inv, Closing, CompletedIsStopped
<1> QED
  BY <1>1, ControllerInvariant, PTL

\* After every intervention, one that threw included, the loop goes on with
\* the plateau forgotten and the detector armed.
THEOREM PlateauAlwaysAnswered == Spec => []PlateauAnswered
<1>1. Inv => PlateauAnswered
  BY DEF Inv, PlateauOpen, PlateauAnswered
<1> QED
  BY <1>1, ControllerInvariant, PTL

\* early_exit_reason is set only when AFL++ has died or could not be restarted,
\* and never together with a signal.
THEOREM EarlyExitIsTrue == Spec => []EarlyExitMeansGone
<1>1. Inv => EarlyExitMeansGone
  BY DEF Inv, ExitKnown
<1> QED
  BY <1>1, ControllerInvariant, PTL

\* A termination signal ends the loop within one pass.
THEOREM SignalIsPrompt == Spec => []SignalEndsLoop
<1>1. Inv => SignalEndsLoop
  BY DEF Inv, SignalKept, SignalEndsLoop
<1> QED
  BY <1>1, ControllerInvariant, PTL

\* As long as no exception leaves an intervention, main and micro-campaigns
\* never compete for the machine, and there is a main AFL++ to be sampled.
THEOREM TurnsWithoutExceptions ==
  ASSUME "inline" \notin Faults
  PROVE  Spec => [](MicrosRunAlone /\ SamplingHasMain)
<1>1. Init => Inv /\ MicrosHeld /\ MainThere
  BY InvInit
<1>2. (Inv /\ MicrosHeld /\ MainThere) /\ [Next]_vars
        => (Inv /\ MicrosHeld /\ MainThere)'
  BY InvStep, MicrosHeldStep, MainThereStep
<1>3. Inv /\ MicrosHeld /\ MainThere => MicrosRunAlone /\ SamplingHasMain
  BY DEF MicrosHeld, Waited, MicrosRunAlone, MainThere, SamplingHasMain
<1> QED
  BY <1>1, <1>2, <1>3, PTL DEF Spec

-----------------------------------------------------------------------------
(* A run that returns leaves nothing behind, and RunController implements     *)
(* MachineTurns, whatever fails, once the micro-campaigns an exception        *)
(* abandoned are left out.                                                    *)

Settled == {"completed", "failed"}

\* Which campaign rows may be open, and which micro-campaigns may be alive,
\* where.
RowsHeld ==
  /\ pc \notin {"await_micro", "spawn", "await", "done"} =>
       \A m \in DOMAIN rows \ abandoned : rows[m] \in Settled
  /\ pc = "await_micro" =>
       \A m \in DOMAIN rows \ (abandoned \cup {Current}) : rows[m] \in Settled
  /\ pc \in {"spawn", "await"} =>
       /\ \A m \in DOMAIN rows \ abandoned : m[1] # round => rows[m] \in Settled
       /\ \A m \in Waited : m \in Unsettled /\ rows[m] = "running"
  /\ pc = "spawn" => \A m \in Waited : m[2] > todo
  /\ ReturnIsClean

\* The strengthened invariant.
CleanInv == Inv /\ MicrosHeld /\ RowsHeld

\* Rows are closed in the order in which the micro-campaigns end, and all of
\* them are when run_mvp returns.
LEMMA RowsHeldStep == CleanInv /\ [Next]_vars => RowsHeld'
<1> SUFFICES ASSUME CleanInv, [Next]_vars PROVE RowsHeld'
  OBVIOUS
<1>1. Closing'
  BY InvStep DEF CleanInv, Inv
<1> USE <1>1, ControllerAssumption DEF ControllerAssumption, CleanInv, Inv,
   TypeOK, NamesOK, ProcessesOK, CountersOK, RowsOK, Closing, MicrosHeld,
   RowsHeld, ReturnIsClean, Waited, Settled, Statuses, AfterLoop
<1> USE DEF processVars, loopVars, exitVars, dbVars, MainGone
<1>2. CASE Launch \/ Prepare
  BY <1>2 DEF Launch, SpawnMain, Throw, Prepare
<1>3. CASE LoopEnds \/ Sleep \/ Sampled \/ NotSampled
  BY <1>3 DEF LoopEnds, BudgetLeft, Sleep, Passes, SignalSeen, Sampled,
     HeartbeatDue, InlineEnabled, NotSampled
<1>4. CASE InlineAgents \/ PauseMain
  BY <1>4 DEF InlineAgents, Interrupted, PauseMain, StopMain
<1>5. CASE InlineMicro
  BY <1>5 DEF InlineMicro, Interrupted, Record, Current
<1>6. CASE InlineMicroEnds
  BY <1>6 DEF InlineMicroEnds, Interrupted, Current
<1>7. CASE RestartMain \/ RestartPolled \/ Rearm
  BY <1>7 DEF RestartMain, SpawnMain, Interrupted, RestartPolled, Rearm,
     ForgetPlateau, AfterRearm
<1>8. CASE NoSamples \/ StopForAnalysis \/ FinishAflOnly
  BY <1>8 DEF NoSamples, Throw, StopForAnalysis, StopMain, FinishAflOnly,
     Finish, Return
<1>9. CASE FinalAgents
  BY <1>9 DEF FinalAgents, Finish, Return, Throw, Unsettled
<1>10. CASE SpawnMicro
  BY <1>10 DEF SpawnMicro, Record, Current, Throw, Unsettled
<1>11. CASE AllSpawned
  BY <1>11 DEF AllSpawned, Unsettled
<1>12. CASE AwaitMicro
  BY <1>12 DEF AwaitMicro, Unsettled
<1>13. CASE SelectAndFinish
  BY <1>13 DEF SelectAndFinish, Finish, Return, StopMain, Unsettled
<1>14. CASE AflWritesStats \/ AflDies \/ Signal
  BY <1>14 DEF AflWritesStats, AflDies, Signal, Unsettled, Current
<1>15. CASE UNCHANGED vars
  BY <1>15 DEF vars, Unsettled, Current
<1> QED
  BY <1>2, <1>3, <1>4, <1>5, <1>6, <1>7, <1>8, <1>9, <1>10, <1>11, <1>12,
     <1>13, <1>14, <1>15 DEF Next, Controller, Environment, Ended

(* The strengthened invariant holds at the start ... *)
LEMMA CleanInvInit == Init => CleanInv
<1> SUFFICES ASSUME Init PROVE CleanInv
  OBVIOUS
<1>1. Inv /\ MicrosHeld
  BY InvInit
<1>2. RowsHeld
  BY DEF Init, RowsHeld, ReturnIsClean, Waited
<1> QED
  BY <1>1, <1>2 DEF CleanInv

(* ... and is kept by every step. *)
LEMMA CleanInvStep == CleanInv /\ [Next]_vars => CleanInv'
<1> SUFFICES ASSUME CleanInv, [Next]_vars PROVE CleanInv'
  OBVIOUS
<1>1. Inv' /\ MicrosHeld'
  BY InvStep, MicrosHeldStep DEF CleanInv
<1>2. RowsHeld'
  BY RowsHeldStep
<1> QED
  BY <1>1, <1>2 DEF CleanInv

\* Whatever fails, a run that returns has stopped every AFL++ process, main and
\* micro, and closed every campaign row, but for the micro-campaigns that an
\* exception in their intervention abandoned.
THEOREM ReturnsClean == Spec => []ReturnIsClean
<1>1. Init => CleanInv
  BY CleanInvInit
<1>2. CleanInv /\ [Next]_vars => CleanInv'
  BY CleanInvStep
<1>3. CleanInv => ReturnIsClean
  BY DEF CleanInv, RowsHeld
<1> QED
  BY <1>1, <1>2, <1>3, PTL DEF Spec

-----------------------------------------------------------------------------
(* The refinement *)

\* The three ways in which a step of the controller changes who has the
\* machine: processes only go, the first process comes, the run is closed.
LEMMA GoingReleases ==
  ASSUME Waited # {} => mains = {}, mains' \subseteq mains, Waited' \subseteq Waited,
         runRow' = runRow
  PROVE  [Machine!TurnNext]_<<Turn, Closed>>
<1>1. Closed' = Closed
  BY DEF Closed
<1>2. CASE mains # {}
  BY <1>1, <1>2 DEF Turn, Machine!TurnNext, Machine!Release
<1>3. CASE mains = {}
  BY <1>1, <1>3 DEF Turn, Machine!TurnNext, Machine!Release
<1> QED
  BY <1>2, <1>3

(* A main AFL++ that comes to a free machine is a step of MachineTurns ... *)
LEMMA ComingStarts ==
  ASSUME mains = {}, Waited = {}, runRow # "completed", runRow' = runRow
  PROVE  [Machine!TurnNext]_<<Turn, Closed>>
BY DEF Turn, Closed, Machine!TurnNext, Machine!Start

(* ... and so is the end of a run that left nothing behind. *)
LEMMA EndingCloses ==
  ASSUME mains = {}, Waited = {}, mains' = {}, Waited' = {},
         runRow # "completed", runRow' = "completed"
  PROVE  [Machine!TurnNext]_<<Turn, Closed>>
BY DEF Turn, Closed, Machine!TurnNext, Machine!Close

\* Every step of the controller is a step of MachineTurns or a stutter.
LEMMA TurnStep ==
  CleanInv /\ [Next]_vars => [Machine!TurnNext]_<<Turn, Closed>>
<1> SUFFICES ASSUME CleanInv, [Next]_vars
             PROVE  [Machine!TurnNext]_<<Turn, Closed>>
  OBVIOUS
<1> USE DEF CleanInv, Inv, TypeOK, NamesOK, ProcessesOK
<1> USE DEF processVars, loopVars, exitVars, dbVars, MainGone
<1>a. Waited # {} => mains = {}
  BY DEF MicrosHeld
<1>b. pc # "done" => runRow # "completed"
  BY DEF Closing
<1>c. mainPid = 0 => mains = {}
  BY DEF MainIsTracked
<1>1. CASE Launch
  <2>1. mains = {} /\ Waited = {} /\ runRow # "completed" /\ runRow' = runRow
    BY <1>1, <1>b DEF Waited, Launch, MainHeld, MicrosHeld
  <2> QED
    BY <2>1, ComingStarts
<1>2. CASE InlineMicro
  <2>1. mains = {} /\ Waited = {} /\ runRow # "completed" /\ runRow' = runRow
    BY <1>2, <1>b, <1>c DEF Waited, InlineMicro, MainHeld, MicrosHeld
  <2> QED
    BY <2>1, ComingStarts
<1>3. CASE RestartMain
  <2>1. mains = {} /\ Waited = {} /\ runRow # "completed" /\ runRow' = runRow
    BY <1>3, <1>b, <1>c DEF Waited, RestartMain, MainHeld, MicrosHeld
  <2> QED
    BY <2>1, ComingStarts
<1>4. CASE SpawnMicro
  <2>1. mains = {} /\ mains' = {} /\ Waited \subseteq Waited'
        /\ runRow # "completed" /\ runRow' = runRow
    BY <1>4, <1>b, <1>c DEF Waited, SpawnMicro, MainHeld
  <2>2. CASE Waited = {}
    BY <2>1, <2>2, ComingStarts
  <2>3. CASE Waited # {}
    BY <2>1, <2>3 DEF Turn, Closed
  <2> QED
    BY <2>2, <2>3
<1>5. CASE FinishAflOnly \/ (FinalAgents /\ Finish)
  <2>1. pc = "analyse" /\ runRow' = "completed" /\ mains' = mains /\ Waited' = Waited
    BY <1>5 DEF Waited, FinishAflOnly, FinalAgents, Finish
  <2>2. mains = {} /\ Waited = {} /\ runRow # "completed"
    BY <2>1, <1>b, <1>c DEF MainHeld, MicrosHeld
  <2> QED
    BY <2>1, <2>2, EndingCloses
<1>6. CASE FinalAgents /\ ~ Finish
  <2>1. mains' = mains /\ Waited' = Waited /\ runRow' = runRow
    BY <1>6 DEF Waited, FinalAgents
  <2> QED
    BY <2>1, <1>a, GoingReleases
<1>7. CASE SelectAndFinish
  <2>1. /\ pc = "await" /\ Unsettled = {} /\ runRow' = "completed"
        /\ Waited' = Waited /\ mains' \subseteq mains
    BY <1>7 DEF Waited, SelectAndFinish, Finish, StopMain
  <2>2. mains = {} /\ Waited = {} /\ runRow # "completed"
    BY <2>1, <1>b, <1>c DEF MainHeld, RowsHeld
  <2> QED
    BY <2>1, <2>2, EndingCloses
<1>8. CASE Prepare \/ LoopEnds \/ Sleep \/ Sampled \/ NotSampled \/ InlineAgents
  <2>1. mains' = mains /\ Waited' = Waited /\ runRow' = runRow
    BY <1>8 DEF Waited, Prepare, LoopEnds, Sleep, Sampled, NotSampled,
       InlineAgents, Interrupted
  <2> QED
    BY <2>1, <1>a, GoingReleases
<1>9. CASE RestartPolled \/ Rearm \/ NoSamples \/ AllSpawned \/ AflWritesStats
           \/ Signal \/ UNCHANGED vars
  <2>1. mains' = mains /\ Waited' = Waited /\ runRow' = runRow
    BY <1>9 DEF Waited, RestartPolled, Rearm, NoSamples, AllSpawned, AflWritesStats,
       Signal, vars
  <2> QED
    BY <2>1, <1>a, GoingReleases
<1>10. CASE PauseMain \/ InlineMicroEnds \/ StopForAnalysis \/ AwaitMicro \/ AflDies
  <2>1. mains' \subseteq mains /\ Waited' \subseteq Waited /\ runRow' = runRow
    BY <1>10 DEF Waited, PauseMain, StopMain, InlineMicroEnds, Interrupted,
       StopForAnalysis,
       AwaitMicro, AflDies
  <2> QED
    BY <2>1, <1>a, GoingReleases
<1> QED
  BY <1>1, <1>2, <1>3, <1>4, <1>5, <1>6, <1>7, <1>8, <1>9, <1>10 DEF Next,
     Controller, Environment, Ended

\* Whatever fails, run_mvp implements MachineTurns: main and micro AFL++ hand
\* the machine over, through idle, and nothing starts once the run is closed.
\* Micro-campaigns that an exception abandoned are out of the game.
THEOREM ImplementsTurns == Spec => TurnsRespected
<1>1. Init => CleanInv
  BY CleanInvInit
<1>2. CleanInv /\ [Next]_vars => CleanInv'
  BY CleanInvStep
<1>3. Init => Machine!TurnInit
  BY DEF Init, Turn, Waited, Closed, Machine!TurnInit
<1>4. CleanInv /\ [Next]_vars => [Machine!TurnNext]_<<Turn, Closed>>
  BY TurnStep
<1> QED
  BY <1>1, <1>2, <1>3, <1>4, PTL
     DEF Spec, TurnsRespected, Machine!TurnSpec, Machine!turnVars

-----------------------------------------------------------------------------
(* The plateau detector by itself *)

USE SamplesAssumption, ConfigAssumption, NoEventAssumption
    DEF SamplesAssumption, ConfigAssumption, NoEventAssumption

\* What eviction leaves: a nonempty suffix with the same newest sample, no
\* longer than the window in time; it starts at some position k of before.
LEMMA EvictBounds ==
  ASSUME NEW w \in Seq(Sample), w # <<>>
  PROVE  /\ Evict(w) \in Seq(Sample)
         /\ Evict(w) # <<>>
         /\ Newest(Evict(w)) = Newest(w)
         /\ Newest(w).ts - Oldest(Evict(w)).ts \in 0 .. WindowSec
         /\ \E k \in 1 .. Len(w) :
              /\ Len(Evict(w)) = Len(w) - k + 1
              /\ \A i \in 1 .. Len(w) - k + 1 : Evict(w)[i] = w[k + i - 1]
<1> DEFINE first == CHOOSE i \in KeepPoints(w) : \A j \in KeepPoints(w) : i <= j
<1>1. Len(w) \in 1 .. Len(w) /\ Newest(w) \in Sample
  BY DEF Newest
<1>2. Len(w) \in KeepPoints(w)
  <2>1. Newest(w).ts - w[Len(w)].ts = 0
    <3>1. Newest(w).ts \in Nat
      BY <1>1 DEF Sample
    <3> QED BY <3>1 DEF Newest
  <2> QED BY <1>1, <2>1 DEF KeepPoints
<1>3. KeepPoints(w) \in SUBSET Nat
  BY DEF KeepPoints
<1>4. first \in KeepPoints(w)
  BY <1>2, <1>3, LeastExists
<1>5. /\ first \in 1 .. Len(w)
      /\ Newest(w).ts - w[first].ts \in 0 .. WindowSec
  BY SMTT(30), <1>4 DEF KeepPoints
<1> HIDE DEF first
<1>6. \A i \in first .. Len(w) : w[i] \in Sample
  BY <1>5
<1> DEFINE e == SubSeq(w, first, Len(w))
<1>7. /\ e \in Seq(Sample)
      /\ Len(e) = Len(w) - first + 1
      /\ \A i \in 1 .. Len(w) - first + 1 : e[i] = w[first + i - 1]
  BY <1>5, <1>6, SubSeqProperties
<1>8. Evict(w) = e
  BY DEF Evict, first
<1> HIDE DEF e
<1>9. e # <<>> /\ e[Len(e)] = w[Len(w)] /\ e[1] = w[first]
  <2>1. Len(w) \in Nat /\ first \in Nat /\ 1 <= first /\ first <= Len(w)
    BY <1>5
  <2>2. Len(e) \in 1 .. Len(w) - first + 1 /\ 1 \in 1 .. Len(w) - first + 1
    BY <1>7, <2>1
  <2>3. first + Len(e) - 1 = Len(w) /\ first + 1 - 1 = first
    BY <1>7, <2>1
  <2>4. e # <<>>
    BY <2>2
  <2> QED BY <1>7, <2>2, <2>3, <2>4
<1> QED BY <1>5, <1>7, <1>8, <1>9 DEF Newest, Oldest

\* The saturating difference of two counters is a counter.
LEMMA GainType ==
  ASSUME NEW a \in Nat, NEW b \in Nat
  PROVE  Gain(a, b) \in Nat
BY DEF Gain

\* The event computed from a nonempty window has the fields of PlateauEvent.
LEMMA EventOfType ==
  ASSUME NEW w \in Seq(Sample), w # <<>>
  PROVE  EventOf(w) \in Event
<1>1. Newest(w) \in Sample /\ Oldest(w) \in Sample
  BY DEF Newest, Oldest
<1>2. /\ Gain(Oldest(w).execs, Newest(w).execs) \in Nat
      /\ Gain(Oldest(w).paths, Newest(w).paths) \in Nat
      /\ Gain(Oldest(w).edges, Newest(w).edges) \in Nat
      /\ Gain(Oldest(w).crashes, Newest(w).crashes) \in Nat
  BY <1>1, GainType DEF Sample
<1>3. Newest(w).ts \in Nat /\ Len(w) \in Nat
  BY <1>1 DEF Sample
<1> QED BY <1>2, <1>3 DEF EventOf, Event

-----------------------------------------------------------------------------

DetectorInv == DetectorTypeOK /\ WindowBounded /\ EventBacked

\* The effect of a detecting call on the window.
LEMMA DetectWindow ==
  ASSUME DetectorInv, NEW s \in Sample, Detect(s)
  PROVE  /\ window' \in Seq(Sample)
         /\ window' # <<>>
         /\ Newest(window') = s
         /\ s.ts - Oldest(window').ts \in 0 .. WindowSec
         /\ \E k \in 1 .. Len(window) + 1 :
              /\ Len(window') = Len(window) - k + 2
              /\ \A i \in 1 .. Len(window) - k + 2 :
                   window'[i] = Append(window, s)[k + i - 1]
<1> DEFINE w == Append(window, s)
<1>1. w \in Seq(Sample) /\ w # <<>> /\ Newest(w) = s
  BY DEF DetectorInv, DetectorTypeOK, Newest
<1>2. Len(w) = Len(window) + 1 /\ Len(window) \in Nat
  BY DEF DetectorInv, DetectorTypeOK
<1>3. window' = Evict(w)
  BY DEF Detect, MayEmit
<1> HIDE DEF w
<1>4. PICK k \in 1 .. Len(w) :
        /\ Len(window') = Len(w) - k + 1
        /\ \A i \in 1 .. Len(w) - k + 1 : window'[i] = w[k + i - 1]
  BY <1>1, <1>3, EvictBounds
<1>5. Len(w) - k + 1 = Len(window) - k + 2 /\ k \in 1 .. Len(window) + 1
  BY <1>2, <1>4
<1>6. \E j \in 1 .. Len(window) + 1 :
        /\ Len(window') = Len(window) - j + 2
        /\ \A i \in 1 .. Len(window) - j + 2 : window'[i] = w[j + i - 1]
  BY <1>4, <1>5
<1>7. /\ window' \in Seq(Sample) /\ window' # <<>> /\ Newest(window') = s
      /\ s.ts - Oldest(window').ts \in 0 .. WindowSec
  BY <1>1, <1>3, EvictBounds
<1> QED BY <1>6, <1>7 DEF w

\* Every call keeps the types, the bound on the window and the tie between an
\* event and its window.
LEMMA CallKeeps ==
  ASSUME DetectorInv, Reset \/ (\E s \in Sample : AddSample(s)) \/ UNCHANGED detectorVars
  PROVE  DetectorInv'
<1>1. CASE Reset
  <2>1. window' \in Seq(Sample) /\ lastEmitTs' \in Nat
    BY <1>1 DEF Reset
  <2>2. disabled' \in BOOLEAN /\ emitted' \in BOOLEAN
    BY <1>1 DEF Reset, DetectorInv, DetectorTypeOK
  <2> QED BY <1>1, <2>1, <2>2 DEF Reset, DetectorInv, DetectorTypeOK, WindowBounded,
                                   EventBacked
<1>2. CASE Skip
  BY <1>2 DEF Skip, DetectorInv, DetectorTypeOK, WindowBounded, EventBacked, Newest, Oldest
<1>3. ASSUME NEW s \in Sample, Detect(s)
      PROVE  DetectorInv'
  <2>1. /\ window' \in Seq(Sample)
        /\ window' # <<>>
        /\ Newest(window') = s
        /\ s.ts - Oldest(window').ts \in 0 .. WindowSec
    BY <1>3, DetectWindow
  <2>2. s.ts \in Nat /\ Oldest(window').ts \in Nat
    <3>1. Oldest(window') \in Sample
      BY <2>1 DEF Oldest
    <3> QED BY <2>1, <3>1 DEF Sample
  <2>3. WindowBounded'
    BY <2>1 DEF WindowBounded, Newest, Oldest
  <2>4. CASE ~ emitted /\ Plateaued(window')
    <3>1. /\ emitted' = TRUE /\ lastEmitTs' = s.ts
          /\ event' = EventOf(window') /\ disabled' = disabled
      BY <1>3, <2>4 DEF Detect, MayEmit
    <3>2. event' \in Event
      BY <2>1, <3>1, EventOfType
    <3>3. DetectorTypeOK'
      BY <2>1, <2>2, <3>1, <3>2 DEF DetectorInv, DetectorTypeOK
    <3>4. /\ event'.ts = s.ts
          /\ event'.samples = Len(window')
          /\ event'.execs = Gain(Oldest(window').execs, Newest(window').execs)
          /\ event'.crashes = Gain(Oldest(window').crashes, Newest(window').crashes)
      BY <2>1, <3>1 DEF EventOf
    <3>5. /\ s.ts - Oldest(window').ts >= WindowSec
          /\ Len(window') >= MinSamples
          /\ Gain(Oldest(window').execs, Newest(window').execs) >= MinExecsDelta
          /\ Gain(Oldest(window').crashes, Newest(window').crashes) = 0
      BY <2>1, <2>4 DEF Plateaued, EnoughSamples, FullWindow, Executing, NoGrowth
    <3>6. Oldest(window').ts = s.ts - WindowSec
      BY <2>1, <2>2, <3>5
    <3>7. EventBacked'
      BY <2>1, <3>4, <3>5, <3>6 DEF EventBacked, Newest, Oldest
    <3> QED BY <2>3, <3>3, <3>7 DEF DetectorInv
  <2>5. CASE ~ (~ emitted /\ Plateaued(window'))
    <3>1. /\ event' = NoEvent /\ emitted' = emitted
          /\ lastEmitTs' = lastEmitTs /\ disabled' = disabled
      BY <1>3, <2>5 DEF Detect, MayEmit
    <3> QED BY <2>1, <2>3, <3>1 DEF DetectorInv, DetectorTypeOK, EventBacked
  <2> QED BY <2>4, <2>5
<1>4. CASE UNCHANGED detectorVars
  BY <1>4 DEF detectorVars, DetectorInv, DetectorTypeOK, WindowBounded, EventBacked,
              Newest, Oldest
<1> QED BY <1>1, <1>2, <1>3, <1>4 DEF AddSample

\* So does every step of the detector.
LEMMA DetectorInvStep ==
  ASSUME DetectorInv, [DetectorNext]_detectorVars
  PROVE  DetectorInv'
<1>1. Samples \subseteq Sample
  OBVIOUS
<1> QED BY <1>1, CallKeeps DEF DetectorNext

\* The state of a new detector.
LEMMA DetectorInvInit == DetectorInit => DetectorInv
<1>1. DetectorInit => window \in Seq(Sample) /\ lastEmitTs \in Nat
  BY DEF DetectorInit
<1>2. DetectorInit => disabled \in BOOLEAN /\ emitted \in BOOLEAN
  BY DEF DetectorInit
<1> QED BY <1>1, <1>2 DEF DetectorInit, DetectorInv, DetectorTypeOK, WindowBounded,
                           EventBacked

\* For every configuration and every sequence of calls, the detector's state
\* is well typed, its window spans at most WindowSec with its front no newer
\* than its back, and an event it returns is backed by a window of exactly
\* WindowSec.
THEOREM DetectorInvariant ==
  DetectorSpec => [](DetectorTypeOK /\ WindowBounded /\ EventBacked)
<1>1. DetectorInit => DetectorInv
  BY DetectorInvInit
<1>2. DetectorInv /\ [DetectorNext]_detectorVars => DetectorInv'
  BY DetectorInvStep
<1> QED BY <1>1, <1>2, PTL DEF DetectorSpec, DetectorInv

\* At most one event between two resets, whatever the caller passes.
THEOREM DetectorLatch == DetectorSpec => OneEventPerReset
<1> DEFINE Latch == /\ emitted => event' = NoEvent
                    /\ (emitted' /\ ~ emitted) <=> (event' # NoEvent)
<1>1. ASSUME DetectorInv, [DetectorNext]_detectorVars
      PROVE  [Latch]_detectorVars
  <2>1. CASE Reset
    BY <2>1 DEF Reset
  <2>2. CASE Skip
    BY <2>2 DEF Skip
  <2>3. ASSUME NEW s \in Samples, Detect(s)
        PROVE  Latch
    <3>1. window' \in Seq(Sample) /\ window' # <<>>
      <4>1. s \in Sample
        OBVIOUS
      <4> QED BY <1>1, <2>3, <4>1, DetectWindow
    <3>2. EventOf(window') # NoEvent
      BY <3>1, EventOfType
    <3>3. CASE ~ emitted /\ Plateaued(window')
      BY <2>3, <3>2, <3>3 DEF Detect, MayEmit
    <3>4. CASE ~ (~ emitted /\ Plateaued(window'))
      BY <2>3, <3>4 DEF Detect, MayEmit
    <3> QED BY <3>3, <3>4
  <2>4. CASE UNCHANGED detectorVars
    BY <2>4
  <2> QED BY <1>1, <2>1, <2>2, <2>3, <2>4 DEF DetectorNext, AddSample
<1>2. DetectorInit => DetectorInv
  BY DetectorInvInit
<1>3. DetectorInv /\ [DetectorNext]_detectorVars => DetectorInv'
  BY DetectorInvStep
<1> HIDE DEF Latch
<1>4. DetectorSpec => [][Latch]_detectorVars
  BY <1>1, <1>2, <1>3, PTL DEF DetectorSpec
<1> QED BY <1>4 DEF OneEventPerReset, Latch

-----------------------------------------------------------------------------
(* The pipeline                                                              *)
(* The properties of the events are not inductive: that an event tells the   *)
(* truth about all that AFL wrote needs that its counters only grow and that *)
(* the window holds what it wrote, in order; that events are apart needs     *)
(* that nothing of before the last event survives a reset.                   *)

Growths == [execs : Nat, paths : Nat, edges : Nat, crashes : Nat]

\* A sample as AFL wrote it, before the collector flags it.
Plain(s) == [s EXCEPT !.stale = FALSE]

PipelineTypes ==
  /\ clock \in Nat /\ polledAt \in Nat /\ resetAt \in Nat
  /\ running \in BOOLEAN
  /\ file \in Sample /\ written \subseteq Sample
  /\ lastEvent \in Event \cup {NoEvent}

\* What AFL writes only grows, and last_path is when the newest path was found.
History ==
  /\ file \in written
  /\ file.ts <= clock
  /\ \A h \in written : ~ h.stale /\ h.ts <= file.ts
  /\ \A g, h \in written :
       g.ts <= h.ts => g.paths <= h.paths /\ g.edges <= h.edges /\ g.crashes <= h.crashes
  /\ \A g, h \in written : g.ts = h.ts => g = h
  /\ file.lastPath <= file.ts
  /\ \A g \in written : g.ts < file.lastPath => g.paths < file.paths

\* The window holds what AFL wrote since its start, in the order of its clock.
WindowHolds ==
  /\ \A i \in DOMAIN window : Plain(window[i]) \in written
  /\ \A i, j \in DOMAIN window : i <= j => window[i].ts <= window[j].ts

\* Nothing in the window of an armed detector is older than the last event.
Apart ==
  lastEvent # NoEvent =>
    /\ lastEvent.ts <= file.ts
    /\ ~ emitted => \A i \in DOMAIN window : window[i].ts >= lastEvent.ts

\* A plateau in the window of an armed detector has been reported.
Reported == ~ emitted /\ window # <<>> => ~ Plateaued(window)

PipelineInv ==
  DetectorInv /\ PipelineTypes /\ History /\ WindowHolds /\ Apart /\ Reported /\ EventIsQuiet

\* A call with a sample latches the detector exactly when it returns an event.
LEMMA CallLatches ==
  ASSUME DetectorInv, NEW s \in Sample, AddSample(s)
  PROVE  /\ emitted => event' = NoEvent
         /\ (emitted' /\ ~ emitted) <=> (event' # NoEvent)
<1>1. CASE Skip
  BY <1>1 DEF Skip
<1>2. CASE Detect(s)
  <2>1. window' \in Seq(Sample) /\ window' # <<>>
    BY <1>2, DetectWindow
  <2>2. EventOf(window') # NoEvent
    BY <2>1, EventOfType
  <2>3. CASE MayEmit(window')
    BY <1>2, <2>2, <2>3 DEF Detect, MayEmit
  <2>4. CASE ~ MayEmit(window')
    BY <1>2, <2>4 DEF Detect, MayEmit
  <2> QED BY <2>3, <2>4
<1> QED BY <1>1, <1>2 DEF AddSample

\* What the collector hands over is what AFL wrote but for the flag.
LEMMA CollectedFacts ==
  ASSUME PipelineTypes, History
  PROVE  /\ Collected \in Sample /\ Plain(Collected) = file
         /\ Collected.ts = file.ts /\ Collected.paths = file.paths
         /\ Collected.edges = file.edges /\ Collected.crashes = file.crashes
         /\ Collected.stale = (clock - file.ts > MaxStaleness)
<1>1. file \in Sample /\ file.stale = FALSE
  BY DEF PipelineTypes, History, Sample
<1>2. (clock - file.ts > MaxStaleness) \in BOOLEAN
  OBVIOUS
<1>3. Collected = [file EXCEPT !.stale = clock - file.ts > MaxStaleness]
  BY DEF Collected
<1> DEFINE b == clock - file.ts > MaxStaleness
<1>4. b \in BOOLEAN /\ Collected = [file EXCEPT !.stale = b]
  BY <1>2, <1>3
<1> HIDE DEF b
<1>5. Collected \in Sample /\ Collected.stale = b
  BY <1>1, <1>4 DEF Sample
<1>6. Plain(Collected) = file
  BY <1>1, <1>4 DEF Plain, Sample
<1>7. /\ Collected.ts = file.ts /\ Collected.paths = file.paths
      /\ Collected.edges = file.edges /\ Collected.crashes = file.crashes
  BY <1>1, <1>4 DEF Sample
<1> QED BY <1>5, <1>6, <1>7 DEF b

\* The fields of a sample of the window are those of what AFL wrote.
LEMMA PlainFacts ==
  ASSUME NEW s \in Sample
  PROVE  /\ Plain(s) \in Sample
         /\ Plain(s).ts = s.ts /\ Plain(s).execs = s.execs /\ Plain(s).busy = s.busy
         /\ Plain(s).paths = s.paths /\ Plain(s).edges = s.edges
         /\ Plain(s).crashes = s.crashes
BY DEF Plain, Sample

\* A poll leaves in the window what was in it, or the file.
LEMMA PollWindow ==
  ASSUME DetectorInv, PipelineTypes, History, Detect(Collected), NEW i \in DOMAIN window'
  PROVE  window'[i] = Collected \/ \E j \in DOMAIN window : window'[i] = window[j]
<1>1. Collected \in Sample
  BY CollectedFacts
<1>2. PICK k \in 1 .. Len(window) + 1 :
        /\ Len(window') = Len(window) - k + 2
        /\ \A n \in 1 .. Len(window) - k + 2 : window'[n] = Append(window, Collected)[k + n - 1]
  BY <1>1, DetectWindow
<1>3. window \in Seq(Sample) /\ window' \in Seq(Sample) /\ Len(window) \in Nat
  BY <1>1, DetectWindow DEF DetectorInv, DetectorTypeOK
<1>4. i \in 1 .. Len(window) - k + 2 /\ k + i - 1 \in 1 .. Len(window) + 1
  BY <1>2, <1>3
<1>5. window'[i] = Append(window, Collected)[k + i - 1]
  BY <1>2, <1>4
<1>6. CASE k + i - 1 = Len(window) + 1
  BY <1>3, <1>5, <1>6
<1>7. CASE k + i - 1 \in 1 .. Len(window)
  BY <1>3, <1>5, <1>7
<1> QED BY <1>3, <1>4, <1>6, <1>7

\* The window still holds what AFL wrote, in order, after a poll.
LEMMA PollSampled ==
  ASSUME DetectorInv, PipelineTypes, History, WindowHolds, Detect(Collected), written' = written
  PROVE  WindowHolds'
<1> DEFINE s == Collected
<1>1. /\ s \in Sample /\ Plain(s) = file /\ s.ts = file.ts
  BY CollectedFacts
<1>2. window \in Seq(Sample) /\ Len(window) \in Nat
  BY DEF DetectorInv, DetectorTypeOK
<1>3. \A i \in DOMAIN window : Plain(window[i]) \in written /\ window[i].ts <= s.ts
  <2> SUFFICES ASSUME NEW i \in DOMAIN window
               PROVE  Plain(window[i]) \in written /\ window[i].ts <= s.ts
    OBVIOUS
  <2>1. Plain(window[i]) \in written /\ window[i] \in Sample
    BY <1>2 DEF WindowHolds
  <2>2. Plain(window[i]).ts = window[i].ts
    BY <2>1, PlainFacts
  <2> QED BY <1>1, <2>1, <2>2 DEF History
<1>4. ASSUME NEW i \in DOMAIN window' PROVE Plain(window'[i]) \in written
  <2>1. window'[i] = s \/ \E j \in DOMAIN window : window'[i] = window[j]
    BY PollWindow
  <2> HIDE DEF s
  <2> QED BY <1>1, <1>3, <2>1 DEF History
<1>5. PICK k \in 1 .. Len(window) + 1 :
        /\ Len(window') = Len(window) - k + 2
        /\ \A n \in 1 .. Len(window) - k + 2 : window'[n] = Append(window, s)[k + n - 1]
  BY <1>1, DetectWindow
<1>6. window' \in Seq(Sample)
  BY <1>1, DetectWindow
<1> HIDE DEF s
<1>7. \A m, n \in 1 .. Len(window) + 1 :
        m <= n => Append(window, s)[m].ts <= Append(window, s)[n].ts
  <2> SUFFICES ASSUME NEW m \in 1 .. Len(window) + 1, NEW n \in 1 .. Len(window) + 1, m <= n
               PROVE  Append(window, s)[m].ts <= Append(window, s)[n].ts
    OBVIOUS
  <2>1. CASE n \in 1 .. Len(window)
    <3>1. m \in 1 .. Len(window)
      BY <1>2, <2>1
    <3>2. Append(window, s)[m] = window[m] /\ Append(window, s)[n] = window[n]
      BY <1>1, <1>2, <2>1, <3>1
    <3>3. m \in DOMAIN window /\ n \in DOMAIN window
      BY <1>2, <2>1, <3>1
    <3> QED BY <3>2, <3>3 DEF WindowHolds
  <2>2. CASE n = Len(window) + 1 /\ m \in 1 .. Len(window)
    <3>1. Append(window, s)[n] = s /\ Append(window, s)[m] = window[m]
      BY <1>1, <1>2, <2>2
    <3> QED BY <1>2, <1>3, <2>2, <3>1
  <2>3. CASE n = Len(window) + 1 /\ m = Len(window) + 1
    <3>1. Append(window, s)[n] = s /\ s.ts \in Nat
      BY <1>1, <1>2, <2>3 DEF Sample
    <3> QED BY <2>3, <3>1
  <2> QED BY <1>2, <2>1, <2>2, <2>3
<1>8. ASSUME NEW i \in DOMAIN window', NEW j \in DOMAIN window', i <= j
      PROVE  window'[i].ts <= window'[j].ts
  <2>1. i \in 1 .. Len(window) - k + 2 /\ j \in 1 .. Len(window) - k + 2
    BY <1>5, <1>6
  <2>2. /\ k + i - 1 \in 1 .. Len(window) + 1 /\ k + j - 1 \in 1 .. Len(window) + 1
        /\ k + i - 1 <= k + j - 1
    BY <1>2, <1>8, <2>1
  <2>3. /\ window'[i] = Append(window, s)[k + i - 1]
        /\ window'[j] = Append(window, s)[k + j - 1]
    BY <1>5, <2>1
  <2> QED BY <1>7, <2>2, <2>3
<1> QED BY <1>4, <1>8 DEF WindowHolds

\* An event that a poll returns tells the truth about all AFL wrote.
LEMMA PollQuiet ==
  ASSUME DetectorInv, PipelineTypes, History, WindowHolds, Detect(Collected), DetectorInv', WindowHolds',
         polledAt' = clock, written' = written
  PROVE  EventIsQuiet'
<1> SUFFICES ASSUME event' # NoEvent PROVE EventIsQuiet'
  BY DEF EventIsQuiet
<1> DEFINE s == Collected
           o == Oldest(window')
<1>1. /\ s \in Sample /\ s.ts = file.ts /\ s.paths = file.paths
      /\ s.edges = file.edges /\ s.crashes = file.crashes
      /\ s.stale = (clock - file.ts > MaxStaleness)
  BY CollectedFacts
<1>2. /\ window' \in Seq(Sample) /\ window' # <<>> /\ Newest(window') = s
  BY <1>1, DetectWindow
<1>3. MayEmit(window') /\ event' = EventOf(window')
  BY DEF Detect
<1>4. /\ ~ s.stale /\ event'.ts = s.ts
      /\ Gain(o.paths, s.paths) <= MaxNewPaths
      /\ Gain(o.edges, s.edges) <= EdgeCap(o.edges)
      /\ Gain(o.crashes, s.crashes) = 0
  BY <1>2, <1>3 DEF MayEmit, Plateaued, Live, NoGrowth, EventOf
<1>5. o \in Sample /\ 1 \in DOMAIN window' /\ o = window'[1]
  BY <1>2 DEF Oldest
<1>6. o.ts = event'.ts - WindowSec
  BY DEF DetectorInv, EventBacked
<1>7. Plain(o) \in written
  BY <1>5 DEF WindowHolds
<1>8. /\ Plain(o).ts = o.ts /\ Plain(o).paths = o.paths /\ Plain(o).edges = o.edges
      /\ Plain(o).crashes = o.crashes
  BY <1>5, PlainFacts
<1>9. file.ts \in Nat /\ clock \in Nat /\ file \in Sample
  BY DEF PipelineTypes, Sample
<1>10. clock - event'.ts <= MaxStaleness
  <2> HIDE DEF s
  <2>1. ~ (clock - file.ts > MaxStaleness)
    BY <1>1, <1>4
  <2>2. MaxStaleness \in Nat
    BY PipelineAssumption
  <2> QED BY <1>1, <1>4, <1>9, <2>1, <2>2
<1>11. Newest(window') = s /\ Oldest(window') = o
  BY <1>2
<1> HIDE DEF s, o
<1>12. ASSUME NEW h \in written, h.ts \in event'.ts - WindowSec .. event'.ts
       PROVE  /\ s.paths - h.paths <= MaxNewPaths
              /\ s.edges - h.edges <= EdgeCap(o.edges)
              /\ s.crashes = h.crashes
  <2>1. h \in Sample
    BY DEF PipelineTypes
  <2>2. o.ts <= h.ts /\ h.ts <= file.ts
    BY <1>1, <1>4, <1>6, <1>9, <1>12
  <2>3. o.paths <= h.paths /\ o.edges <= h.edges /\ o.crashes <= h.crashes
    BY <1>7, <1>8, <2>2 DEF History
  <2>4. h.paths <= s.paths /\ h.edges <= s.edges /\ h.crashes <= s.crashes
    BY <1>1, <2>2 DEF History
  <2>5. /\ o.paths \in Nat /\ h.paths \in Nat /\ s.paths \in Nat
        /\ o.edges \in Nat /\ h.edges \in Nat /\ s.edges \in Nat
        /\ o.crashes \in Nat /\ h.crashes \in Nat /\ s.crashes \in Nat
    BY <1>1, <1>5, <2>1 DEF Sample
  <2>6. s.paths - h.paths <= MaxNewPaths
    BY <1>4, <2>3, <2>4, <2>5 DEF Gain
  <2>7. s.crashes = h.crashes
    BY <1>4, <2>3, <2>4, <2>5 DEF Gain
  <2>8. EdgeCap(o.edges) \in Int
    <3>1. (o.edges * EdgesPct) \div 100 \in Int
      BY <2>5
    <3> QED BY <3>1 DEF EdgeCap, Larger
  <2> DEFINE c == EdgeCap(o.edges)
  <2>9. c \in Int /\ Gain(o.edges, s.edges) <= c
    BY <1>4, <2>8
  <2> HIDE DEF c
  <2>10. s.edges - h.edges <= c
    BY <2>3, <2>4, <2>5, <2>9 DEF Gain
  <2> QED BY <2>6, <2>7, <2>10 DEF c
<1>13. /\ Newest(window)' = s /\ Oldest(window)' = o
  BY <1>11
<1>14. \A h \in WrittenIn(event.ts - WindowSec, event.ts)' :
          h \in written /\ h.ts \in event'.ts - WindowSec .. event'.ts
  BY DEF WrittenIn
<1>15. EdgeCap(Oldest(window).edges)' = EdgeCap(o.edges)
  BY <1>13 DEF EdgeCap
<1> QED BY <1>10, <1>12, <1>13, <1>14, <1>15 DEF EventIsQuiet

\* What a poll leaves for the next event.
LEMMA PollApart ==
  ASSUME DetectorInv, PipelineTypes, History, Apart, DetectorInv', Detect(Collected), file' = file,
         lastEvent' = IF event' = NoEvent THEN lastEvent ELSE event'
  PROVE  /\ Apart'
         /\ lastEvent # NoEvent /\ lastEvent' # lastEvent =>
              lastEvent'.ts >= lastEvent.ts + WindowSec
<1> DEFINE s == Collected
<1>1. s \in Sample /\ s.ts = file.ts /\ file.ts \in Nat
  BY CollectedFacts DEF PipelineTypes, Sample
<1>2. /\ emitted => event' = NoEvent
      /\ (emitted' /\ ~ emitted) <=> (event' # NoEvent)
  BY <1>1, CallLatches DEF AddSample
<1>3. ASSUME lastEvent # NoEvent, ~ emitted, NEW i \in DOMAIN window'
      PROVE  window'[i].ts >= lastEvent.ts
  <2>1. window'[i] = s \/ \E j \in DOMAIN window : window'[i] = window[j]
    BY PollWindow
  <2>2. lastEvent.ts <= s.ts /\ \A j \in DOMAIN window : window[j].ts >= lastEvent.ts
    BY <1>1, <1>3 DEF Apart
  <2>3. lastEvent.ts \in Nat
    BY <1>3 DEF PipelineTypes, Event
  <2> HIDE DEF s
  <2> QED BY <1>1, <2>1, <2>2, <2>3
<1>4. CASE event' = NoEvent
  <2>1. lastEvent' = lastEvent /\ (~ emitted' => ~ emitted)
    BY <1>2, <1>4 DEF Detect
  <2> QED BY <1>3, <2>1 DEF Apart
<1>5. CASE event' # NoEvent
  <2>1. lastEvent' = event' /\ emitted' /\ ~ emitted
    BY <1>2, <1>5
  <2>2. /\ window' \in Seq(Sample) /\ window' # <<>> /\ Newest(window') = s
    BY <1>1, DetectWindow
  <2>3. event'.ts = s.ts /\ Oldest(window').ts = event'.ts - WindowSec
    BY <1>5, <2>2 DEF DetectorInv, EventBacked
  <2>4. 1 \in DOMAIN window' /\ Oldest(window') = window'[1]
    BY <2>2 DEF Oldest
  <2>5. lastEvent # NoEvent => event'.ts - WindowSec >= lastEvent.ts
    BY <1>3, <2>1, <2>3, <2>4
  <2>6. lastEvent # NoEvent => lastEvent.ts \in Nat
    BY DEF PipelineTypes, Event
  <2>7. event'.ts \in Nat
    BY <1>1, <2>3
  <2> HIDE DEF s
  <2>8. lastEvent # NoEvent => event'.ts >= lastEvent.ts + WindowSec
    BY <2>5, <2>6, <2>7
  <2>9. Apart'
    BY <1>1, <2>1, <2>3, <2>7 DEF Apart
  <2> QED BY <2>1, <2>8, <2>9
<1> QED BY <1>4, <1>5

\* What AFL writes next is larger than all before it and keeps the history.
LEMMA WritesKeeps ==
  ASSUME PipelineInv, NEW g \in Growth, AflWrites(g)
  PROVE  PipelineInv'
<1>1. /\ file.ts < clock
      /\ file' = [file EXCEPT !.ts = clock, !.execs = @ + g.execs,
                              !.busy = g.execs > 0, !.paths = @ + g.paths,
                              !.edges = @ + g.edges, !.crashes = @ + g.crashes,
                              !.lastPath = IF g.paths > 0 THEN clock ELSE @]
      /\ written' = written \cup {file'}
      /\ UNCHANGED <<disabled, window, emitted, lastEmitTs, event>>
      /\ UNCHANGED <<clock, running, polledAt, lastEvent, resetAt>>
  BY DEF AflWrites, detectorVars
<1>2. g \in Growths
  BY PipelineAssumption DEF Growths
<1>3. DetectorInv /\ PipelineTypes /\ History /\ WindowHolds /\ Apart /\ Reported /\ EventIsQuiet
  BY DEF PipelineInv
<1>4. file \in Sample /\ file.stale = FALSE /\ clock \in Nat
  BY <1>3 DEF PipelineTypes, History, Sample
<1>5. /\ file'.ts = clock /\ file'.paths = file.paths + g.paths
      /\ file'.edges = file.edges + g.edges /\ file'.crashes = file.crashes + g.crashes
      /\ file'.lastPath = (IF g.paths > 0 THEN clock ELSE file.lastPath)
      /\ file'.stale = FALSE
  BY <1>1, <1>4 DEF Sample
<1>6. file' \in Sample
  <2>1. (g.execs > 0) \in BOOLEAN
    OBVIOUS
  <2>2. /\ file.execs + g.execs \in Nat /\ file.paths + g.paths \in Nat
        /\ file.edges + g.edges \in Nat /\ file.crashes + g.crashes \in Nat
        /\ (IF g.paths > 0 THEN clock ELSE file.lastPath) \in Nat
    BY <1>2, <1>4 DEF Growths, Sample
  <2> DEFINE b == g.execs > 0
             x == file.execs + g.execs
             y == file.paths + g.paths
             z == file.edges + g.edges
             c == file.crashes + g.crashes
             l == IF g.paths > 0 THEN clock ELSE file.lastPath
  <2>3. b \in BOOLEAN /\ x \in Nat /\ y \in Nat /\ z \in Nat /\ c \in Nat /\ l \in Nat
    BY <2>1, <2>2
  <2>4. file' = [file EXCEPT !.ts = clock, !.execs = x, !.busy = b, !.paths = y,
                             !.edges = z, !.crashes = c, !.lastPath = l]
    BY <1>1
  <2> HIDE DEF b, x, y, z, c, l
  <2> QED BY <1>4, <2>3, <2>4 DEF Sample
<1>7. \A h \in written : h \in Sample /\ h.ts < clock
  <2>1. \A h \in written : h \in Sample /\ h.ts <= file.ts
    BY <1>3 DEF PipelineTypes, History
  <2>2. \A h \in written : h.ts \in Nat
    BY <2>1 DEF Sample
  <2>3. file.ts \in Nat
    BY <1>4 DEF Sample
  <2> QED BY <1>1, <1>4, <2>1, <2>2, <2>3
<1>8. /\ \A h \in written : h.paths <= file'.paths /\ h.edges <= file'.edges
                            /\ h.crashes <= file'.crashes
      /\ \A h \in written : g.paths > 0 => h.paths < file'.paths
  <2> SUFFICES ASSUME NEW h \in written
               PROVE  /\ h.paths <= file'.paths /\ h.edges <= file'.edges
                      /\ h.crashes <= file'.crashes
                      /\ g.paths > 0 => h.paths < file'.paths
    OBVIOUS
  <2>1. h.paths <= file.paths /\ h.edges <= file.edges /\ h.crashes <= file.crashes
    BY <1>3 DEF History
  <2>2. /\ h.paths \in Nat /\ file.paths \in Nat /\ g.paths \in Nat
        /\ h.edges \in Nat /\ file.edges \in Nat /\ g.edges \in Nat
        /\ h.crashes \in Nat /\ file.crashes \in Nat /\ g.crashes \in Nat
    BY <1>2, <1>4, <1>7 DEF Sample, Growths
  <2> QED BY <1>5, <2>1, <2>2
<1>9. PipelineTypes'
  BY <1>1, <1>3, <1>6 DEF PipelineTypes
<1>10. History'
  <2>1. /\ file' \in written' /\ file'.ts <= clock'
        /\ \A h \in written' : ~ h.stale /\ h.ts <= file'.ts
    <3>1. \A h \in written : ~ h.stale /\ h.ts <= clock
      <4>1. \A h \in written : h.ts \in Nat /\ h.ts < clock
        BY <1>7 DEF Sample
      <4> QED BY <1>3, <1>4, <4>1 DEF History
    <3>2. file'.stale = FALSE /\ file'.ts <= clock
      BY <1>4, <1>5
    <3> QED BY <1>1, <1>5, <3>1, <3>2
  <2>2. ASSUME NEW a \in written', NEW h \in written', a.ts <= h.ts
        PROVE  a.paths <= h.paths /\ a.edges <= h.edges /\ a.crashes <= h.crashes
    <3>1. CASE a \in written /\ h \in written
      BY <1>3, <2>2, <3>1 DEF History
    <3>2. CASE a \in written /\ h = file'
      BY <1>8, <3>2
    <3>3. CASE a = file' /\ h = file'
      BY <1>6, <3>3 DEF Sample
    <3>4. CASE a = file' /\ h \in written
      <4>1. h.ts \in Nat /\ h.ts < clock
        BY <1>7, <3>4 DEF Sample
      <4> QED BY <1>4, <1>5, <2>2, <3>4, <4>1
    <3> QED BY <1>1, <3>1, <3>2, <3>3, <3>4
  <2>3. ASSUME NEW a \in written', NEW h \in written', a.ts = h.ts
        PROVE  a = h
    <3>1. CASE a \in written /\ h \in written
      BY <1>3, <2>3, <3>1 DEF History
    <3>2. \A x \in written : x.ts # clock
      <4>1. \A x \in written : x.ts \in Nat /\ x.ts < clock
        BY <1>7 DEF Sample
      <4> QED BY <1>4, <4>1
    <3> QED BY <1>1, <1>5, <2>3, <3>1, <3>2
  <2>4. /\ file'.lastPath <= file'.ts
        /\ \A a \in written' : a.ts < file'.lastPath => a.paths < file'.paths
    <3>1. CASE g.paths > 0
      <4>1. file'.lastPath = clock
        BY <1>5, <3>1
      <4>2. ~ (file'.ts < clock)
        BY <1>4, <1>5
      <4>3. file'.lastPath <= file'.ts
        BY <1>4, <1>5, <4>1
      <4>4. \A a \in written : a.paths < file'.paths
        BY <1>8, <3>1
      <4>5. \A a \in written' : a.ts < file'.lastPath => a.paths < file'.paths
        BY <1>1, <4>1, <4>2, <4>4
      <4> QED BY <4>3, <4>5
    <3>2. CASE ~ (g.paths > 0)
      <4>1. file'.lastPath = file.lastPath /\ file'.paths = file.paths
        BY <1>2, <1>4, <1>5, <3>2 DEF Growths, Sample
      <4>2. file.lastPath <= file.ts /\ file.lastPath \in Nat /\ file.ts \in Nat
        BY <1>3, <1>4 DEF History, Sample
      <4>3. file.lastPath <= clock /\ ~ (clock < file.lastPath)
        BY <1>1, <1>4, <4>2
      <4>4. \A a \in written : a.ts < file.lastPath => a.paths < file.paths
        BY <1>3 DEF History
      <4> QED BY <1>1, <1>5, <4>1, <4>3, <4>4
    <3> QED BY <3>1, <3>2
  <2> QED BY <2>1, <2>2, <2>3, <2>4 DEF History
<1>11. DetectorInv' /\ WindowHolds' /\ Reported'
  BY <1>1, <1>3, CallKeeps DEF WindowHolds, Reported, detectorVars, Plain, DetectorInv
<1>12. Apart'
  <2>1. lastEvent # NoEvent => lastEvent.ts <= file.ts /\ lastEvent.ts \in Nat
    BY <1>3 DEF Apart, PipelineTypes, Event
  <2>2. file.ts \in Nat
    BY <1>4 DEF Sample
  <2>3. lastEvent # NoEvent => lastEvent.ts <= file'.ts
    BY <1>1, <1>4, <1>5, <2>1, <2>2
  <2> QED BY <1>1, <1>3, <2>3 DEF Apart
<1>13. EventIsQuiet'
  <2>1. ASSUME event # NoEvent
        PROVE  \A h \in written' : h.ts \in event.ts - WindowSec .. event.ts => h \in written
    <3>1. window # <<>> /\ window \in Seq(Sample) /\ Newest(window).ts = event.ts
      BY <1>3, <2>1 DEF DetectorInv, DetectorTypeOK, EventBacked
    <3>2. Len(window) \in DOMAIN window /\ Newest(window) = window[Len(window)]
      BY <3>1 DEF Newest
    <3>3. Plain(Newest(window)) \in written /\ Newest(window) \in Sample
      BY <1>3, <3>1, <3>2 DEF WindowHolds
    <3>4. event.ts < clock /\ event.ts \in Nat
      BY <1>7, <3>1, <3>3, PlainFacts DEF Sample
    <3>5. ~ (file'.ts \in event.ts - WindowSec .. event.ts)
      BY <1>4, <1>5, <3>4
    <3> QED BY <1>1, <3>5
  <2>2. event # NoEvent =>
          WrittenIn(event.ts - WindowSec, event.ts)' \subseteq WrittenIn(event.ts - WindowSec, event.ts)
    BY <1>1, <2>1 DEF WrittenIn
  <2>3. Newest(window)' = Newest(window) /\ Oldest(window)' = Oldest(window)
    BY <1>1
  <2>4. EdgeCap(Oldest(window).edges)' = EdgeCap(Oldest(window).edges)
    BY <2>3 DEF EdgeCap
  <2> QED BY <1>1, <1>3, <2>2, <2>3, <2>4 DEF EventIsQuiet
<1> QED BY <1>9, <1>10, <1>11, <1>12, <1>13 DEF PipelineInv

\* A step that leaves the detector and what AFL wrote alone: AFL freezes, time
\* passes, or nothing happens.
LEMMA QuietStepKeeps ==
  ASSUME PipelineInv,
         UNCHANGED <<detectorVars, file, polledAt, written, lastEvent, resetAt>>,
         clock' \in Nat, clock <= clock', running' \in BOOLEAN
  PROVE  PipelineInv'
<1>1. /\ UNCHANGED <<disabled, window, emitted, lastEmitTs, event>>
      /\ UNCHANGED <<file, polledAt, written, lastEvent, resetAt>>
  BY DEF detectorVars
<1>2. DetectorInv /\ PipelineTypes /\ History /\ WindowHolds /\ Apart /\ Reported /\ EventIsQuiet
  BY DEF PipelineInv
<1>3. DetectorInv'
  BY <1>2, CallKeeps
<1>4. PipelineTypes'
  BY <1>1, <1>2 DEF PipelineTypes
<1>5. History'
  <2>1. file.ts \in Nat /\ clock \in Nat /\ file.ts <= clock
    BY <1>2 DEF PipelineTypes, History, Sample
  <2>2. file'.ts <= clock'
    BY <1>1, <2>1
  <2> QED BY <1>1, <1>2, <2>2 DEF History
<1>6. WindowHolds' /\ Apart' /\ Reported'
  BY <1>1, <1>2 DEF WindowHolds, Apart, Reported, Plain
<1>7. EventIsQuiet'
  <2>1. WrittenIn(event.ts - WindowSec, event.ts)' = WrittenIn(event.ts - WindowSec, event.ts)
    BY <1>1 DEF WrittenIn
  <2>2. Newest(window)' = Newest(window) /\ Oldest(window)' = Oldest(window)
    BY <1>1
  <2>3. EdgeCap(Oldest(window).edges)' = EdgeCap(Oldest(window).edges)
    BY <2>2 DEF EdgeCap
  <2> QED BY <1>1, <1>2, <2>1, <2>2, <2>3 DEF EventIsQuiet
<1> QED BY <1>3, <1>4, <1>5, <1>6, <1>7 DEF PipelineInv

\* A poll: an armed detector that stays armed has seen no plateau.
LEMMA PollKeeps ==
  ASSUME PipelineInv, Poll
  PROVE  /\ PipelineInv'
         /\ lastEvent # NoEvent /\ lastEvent' # lastEvent =>
              lastEvent'.ts >= lastEvent.ts + WindowSec
<1>1. /\ polledAt' = clock /\ AddSample(Collected)
      /\ lastEvent' = IF event' = NoEvent THEN lastEvent ELSE event'
      /\ clock' = clock /\ running' = running /\ file' = file /\ written' = written
      /\ resetAt' = resetAt
  BY DEF Poll
<1>2. DetectorInv /\ PipelineTypes /\ History /\ WindowHolds /\ Apart /\ Reported /\ EventIsQuiet
  BY DEF PipelineInv
<1>3. Collected \in Sample
  BY <1>2, CollectedFacts
<1>4. DetectorInv'
  BY <1>1, <1>2, <1>3, CallKeeps
<1>5. PipelineTypes' /\ History'
  BY <1>1, <1>2, <1>4 DEF PipelineTypes, History, DetectorInv, DetectorTypeOK
<1>6. CASE Skip
  <2>1. /\ event' = NoEvent /\ UNCHANGED <<window, emitted>> /\ lastEvent' = lastEvent
    BY <1>1, <1>6 DEF Skip
  <2>2. WindowHolds' /\ Apart' /\ Reported' /\ EventIsQuiet'
    BY <1>1, <1>2, <2>1 DEF WindowHolds, Apart, Reported, EventIsQuiet, Plain
  <2> QED BY <1>4, <1>5, <2>1, <2>2 DEF PipelineInv
<1>7. CASE Detect(Collected)
  <2>1. WindowHolds'
    BY <1>1, <1>2, <1>7, PollSampled
  <2>2. EventIsQuiet'
    BY <1>1, <1>2, <1>4, <1>7, <2>1, PollQuiet
  <2>3. /\ Apart'
        /\ lastEvent # NoEvent /\ lastEvent' # lastEvent =>
             lastEvent'.ts >= lastEvent.ts + WindowSec
    BY <1>1, <1>2, <1>4, <1>7, PollApart
  <2>4. Reported'
    BY <1>7 DEF Detect, MayEmit, Reported
  <2> QED BY <1>4, <1>5, <2>1, <2>2, <2>3, <2>4 DEF PipelineInv
<1> QED BY <1>1, <1>6, <1>7 DEF AddSample

\* An intervention leaves the detector empty, and AFL either goes on with its
\* statistics or starts new ones.
LEMMA InterveneKeeps ==
  ASSUME PipelineInv, NEW restart \in BOOLEAN, Intervene(restart)
  PROVE  PipelineInv' /\ lastEvent' = lastEvent
<1>1. /\ Reset /\ window' = <<>> /\ event' = NoEvent
      /\ clock' = clock /\ polledAt' = polledAt /\ lastEvent' = lastEvent /\ resetAt' = clock
  BY DEF Intervene, Reset
<1>2. DetectorInv /\ PipelineTypes /\ History /\ Apart
  BY DEF PipelineInv
<1>3. DetectorInv'
  BY <1>1, <1>2, CallKeeps
<1>4. WindowHolds' /\ Reported' /\ EventIsQuiet'
  <2>1. DOMAIN window' = {}
    BY <1>1
  <2> QED BY <1>1, <2>1 DEF WindowHolds, Reported, EventIsQuiet
<1>5. file.ts \in Nat /\ clock \in Nat /\ file.ts <= clock
  BY <1>2 DEF PipelineTypes, History, Sample
<1>6. lastEvent # NoEvent => lastEvent.ts \in Nat /\ lastEvent.ts <= file.ts
  BY <1>2 DEF Apart, PipelineTypes, Event
<1>7. CASE restart
  <2>1. /\ running' = TRUE /\ file' = [FirstFile EXCEPT !.ts = clock] /\ written' = {file'}
    BY <1>7 DEF Intervene
  <2>2. file' \in Sample /\ file'.ts = clock /\ file'.stale = FALSE /\ file'.lastPath = 0
    BY <1>5, <2>1, PipelineAssumption DEF FirstFile, Sample
  <2>3. PipelineTypes'
    BY <1>1, <1>2, <1>5, <2>1, <2>2 DEF PipelineTypes
  <2>4. History'
    <3>1. /\ file' \in written' /\ file'.ts <= clock'
          /\ file'.lastPath <= file'.ts /\ ~ (file'.ts < file'.lastPath)
      BY <1>1, <1>5, <2>1, <2>2
    <3>2. /\ file'.ts <= file'.ts /\ file'.paths <= file'.paths
          /\ file'.edges <= file'.edges /\ file'.crashes <= file'.crashes
      BY <2>2 DEF Sample
    <3>3. \A h \in written' : h = file' /\ h.stale = FALSE
      BY <2>1, <2>2
    <3> QED BY <3>1, <3>2, <3>3 DEF History
  <2>5. lastEvent # NoEvent => lastEvent.ts <= file'.ts
    BY <1>5, <1>6, <2>2
  <2>6. Apart'
    BY <1>1, <2>5 DEF Apart
  <2> QED BY <1>1, <1>3, <1>4, <2>3, <2>4, <2>6 DEF PipelineInv
<1>8. CASE ~ restart
  <2>1. running' = running /\ file' = file /\ written' = written
    BY <1>8 DEF Intervene
  <2>2. PipelineTypes' /\ History' /\ Apart'
    BY <1>1, <1>2, <1>5, <1>6, <2>1 DEF PipelineTypes, History, Apart
  <2> QED BY <1>1, <1>3, <1>4, <2>2 DEF PipelineInv
<1> QED BY <1>7, <1>8

\* AFL has just written its first statistics, and no poll has seen them.
LEMMA PipelineInvInit == PipelineInit => PipelineInv
<1> SUFFICES ASSUME PipelineInit PROVE PipelineInv
  OBVIOUS
<1>1. /\ DetectorInit /\ window = <<>> /\ event = NoEvent
      /\ clock = 1 /\ running = TRUE /\ file = FirstFile /\ polledAt = 0
      /\ written = {FirstFile} /\ lastEvent = NoEvent /\ resetAt = 0
  BY DEF PipelineInit, DetectorInit
<1>2. DetectorInv
  BY <1>1, DetectorInvInit
<1>3. FirstFile \in Sample /\ FirstFile.ts = 1 /\ FirstFile.stale = FALSE /\ FirstFile.lastPath = 0
  BY PipelineAssumption DEF FirstFile, Sample
<1>4. PipelineTypes
  BY <1>1, <1>3 DEF PipelineTypes
<1>5. History
  BY <1>1, <1>3 DEF History, Sample
<1>6. WindowHolds /\ Apart /\ Reported /\ EventIsQuiet
  <2>1. DOMAIN window = {}
    BY <1>1
  <2> QED BY <1>1, <2>1 DEF WindowHolds, Apart, Reported, EventIsQuiet
<1> QED BY <1>2, <1>4, <1>5, <1>6 DEF PipelineInv

\* Every step of the pipeline keeps the invariant and the events apart.
LEMMA PipelineStep ==
  ASSUME PipelineInv, [PipelineNext]_pipelineVars
  PROVE  /\ PipelineInv'
         /\ lastEvent # NoEvent /\ lastEvent' # lastEvent =>
              lastEvent'.ts >= lastEvent.ts + WindowSec
<1>1. ASSUME NEW g \in Growth, AflWrites(g) PROVE PipelineInv' /\ lastEvent' = lastEvent
  BY <1>1, WritesKeeps DEF AflWrites
<1>2. PipelineTypes
  BY DEF PipelineInv
<1>3. CASE AflFreezes \/ Tick \/ UNCHANGED pipelineVars
  <2>1. UNCHANGED <<detectorVars, file, polledAt, written, lastEvent, resetAt>>
    BY <1>3 DEF AflFreezes, Tick, pipelineVars
  <2>2. clock' \in Nat /\ clock <= clock' /\ running' \in BOOLEAN
    <3>1. clock' = clock \/ clock' = clock + 1
      BY <1>3 DEF AflFreezes, Tick, pipelineVars
    <3>2. running' = running \/ running' = FALSE
      BY <1>3 DEF AflFreezes, Tick, pipelineVars
    <3>3. clock \in Nat /\ running \in BOOLEAN
      BY <1>2 DEF PipelineTypes
    <3>4. clock' \in Nat /\ clock <= clock'
      BY <3>1, <3>3
    <3>5. running' \in BOOLEAN
      BY <3>2, <3>3, Zenon
    <3> QED BY <3>4, <3>5
  <2> QED BY <2>1, <2>2, QuietStepKeeps
<1>4. CASE Poll
  BY <1>4, PollKeeps
<1>5. ASSUME NEW restart \in BOOLEAN, Intervene(restart) PROVE PipelineInv' /\ lastEvent' = lastEvent
  BY <1>5, InterveneKeeps
<1> QED BY <1>1, <1>3, <1>4, <1>5 DEF PipelineNext

\* Whenever AFL writes, hangs or is restarted and whenever the controller
\* polls, the window and the events agree with what AFL wrote.
THEOREM PipelineInvariant == PipelineSpec => []PipelineInv
BY PipelineInvInit, PipelineStep, PTL DEF PipelineSpec

\* An event tells the truth about everything AFL wrote over the window, the
\* rewrites no poll saw included, and it tells it of an AFL that is alive.
THEOREM EventsAreTrue == PipelineSpec => [](EventIsQuiet /\ EventBacked)
<1>1. PipelineInv => EventIsQuiet /\ EventBacked
  BY DEF PipelineInv, DetectorInv
<1> QED BY <1>1, PipelineInvariant, PTL

\* Two events are at least a window apart, although interventions reset the
\* detector and the collector may return the same cached file again.
THEOREM EventsKeepApart == PipelineSpec => EventsApart
<1> DEFINE Apart2 == lastEvent # NoEvent /\ lastEvent' # lastEvent =>
                       lastEvent'.ts >= lastEvent.ts + WindowSec
<1>1. PipelineInv /\ [PipelineNext]_pipelineVars => PipelineInv' /\ [Apart2]_pipelineVars
  BY PipelineStep
<1> HIDE DEF Apart2
<1>2. PipelineSpec => [][Apart2]_pipelineVars
  BY <1>1, PipelineInvInit, PTL DEF PipelineSpec
<1> QED BY <1>2 DEF EventsApart, Apart2

\* Flat means that two samples of the window differ in nothing the detector
\* looks at but the executions.
LEMMA FlatWindow ==
  ASSUME PipelineInv, FlatSince(file.ts - WindowSec),
         NEW i \in DOMAIN window, NEW j \in DOMAIN window,
         window[i].ts >= file.ts - WindowSec, window[j].ts >= file.ts - WindowSec
  PROVE  /\ window[i] \in Sample /\ window[j] \in Sample /\ window[i].busy
         /\ window[i].paths = window[j].paths /\ window[i].edges = window[j].edges
         /\ window[i].crashes = window[j].crashes
         /\ window[i].ts < window[j].ts =>
              window[j].execs - window[i].execs >= MinExecsDelta
<1> DEFINE g == Plain(window[i])
           h == Plain(window[j])
<1>1. /\ window \in Seq(Sample) /\ file.ts \in Nat /\ clock \in Nat /\ file.ts <= clock
      /\ g \in written /\ h \in written /\ g.ts <= file.ts /\ h.ts <= file.ts
  BY DEF PipelineInv, DetectorInv, DetectorTypeOK, PipelineTypes, Sample, History, WindowHolds
<1>2. window[i] \in Sample /\ window[j] \in Sample
  BY <1>1
<1>3. /\ g.ts = window[i].ts /\ g.execs = window[i].execs /\ g.busy = window[i].busy
      /\ g.paths = window[i].paths /\ g.edges = window[i].edges
      /\ g.crashes = window[i].crashes
      /\ h.ts = window[j].ts /\ h.execs = window[j].execs
      /\ h.paths = window[j].paths /\ h.edges = window[j].edges
      /\ h.crashes = window[j].crashes
  BY <1>2, PlainFacts
<1>4. window[i].ts \in Nat /\ window[j].ts \in Nat
  BY <1>2 DEF Sample
<1> HIDE DEF g, h
<1>5. g.ts \in file.ts - WindowSec .. clock /\ h.ts \in file.ts - WindowSec .. clock
  BY <1>1, <1>3, <1>4
<1>6. /\ g.busy
      /\ g.ts < h.ts => h.execs - g.execs >= MinExecsDelta
      /\ g.paths = h.paths /\ g.edges = h.edges /\ g.crashes = h.crashes
  BY <1>1, <1>5 DEF FlatSince, WrittenIn
<1> QED BY <1>2, <1>3, <1>6

\* What does not differ is no growth, and caps are not negative.
LEMMA NoGain ==
  ASSUME NEW a \in Nat, NEW b \in Nat
  PROVE  /\ Gain(a, a) = 0
         /\ EdgeCap(b) >= 0 /\ JumpCap(b) >= 0
<1>1. Gain(a, a) = 0
  BY DEF Gain
<1>2. (b * EdgesPct) \div 100 \in Int /\ b \div 100 \in Int
  OBVIOUS
<1>3. EdgeCap(b) >= 0
  BY <1>2 DEF EdgeCap, Larger
<1>4. JumpCap(b) >= 0
  BY <1>2 DEF JumpCap, Larger, Smaller
<1> QED BY <1>1, <1>3, <1>4

\* With a sample at each end of a flat window, no gate holds the event back,
\* not the one on last_path either: a path found within the window would be
\* one more than the oldest sample has.  (validate_config asks for a window
\* that is not empty.)
LEMMA FlatIsPlateau ==
  ASSUME PipelineInv, WindowSec > 0,
         Len(window) >= MinSamples, Newest(window) = file,
         NEW n \in DOMAIN window, window[n].ts = file.ts - WindowSec,
         FlatSince(file.ts - WindowSec)
  PROVE  window # <<>> /\ Plateaued(window)
<1> DEFINE start == file.ts - WindowSec
           o == Oldest(window)
           last == Len(window)
<1>1. /\ window \in Seq(Sample) /\ file \in Sample /\ file.ts \in Nat
      /\ ~ file.stale /\ WindowBounded
  BY DEF PipelineInv, DetectorInv, DetectorTypeOK, PipelineTypes, Sample, History
<1>2. /\ window # <<>> /\ 1 \in DOMAIN window /\ last \in DOMAIN window /\ last \in Nat
      /\ o = window[1] /\ file = window[last] /\ o \in Sample
  BY <1>1 DEF Oldest, Newest
<1>3. o.ts = start
  <2>1. o.ts <= start
    BY <1>1, <1>2 DEF PipelineInv, WindowHolds
  <2>2. file.ts - o.ts \in 0 .. WindowSec /\ o.ts \in Nat
    BY <1>1, <1>2 DEF WindowBounded, Sample
  <2> QED BY <1>1, <2>1, <2>2
<1> HIDE DEF o, last
<1>4. ASSUME NEW i \in DOMAIN window PROVE window[i].ts >= start
  <2>1. window[1].ts <= window[i].ts
    BY <1>1, <1>2 DEF PipelineInv, WindowHolds
  <2> QED BY <1>2, <1>3, <2>1
<1>5. ASSUME NEW i \in DOMAIN window, NEW j \in DOMAIN window
      PROVE  /\ window[i] \in Sample /\ window[j] \in Sample /\ window[i].busy
             /\ window[i].paths = window[j].paths /\ window[i].edges = window[j].edges
             /\ window[i].crashes = window[j].crashes
             /\ window[i].ts < window[j].ts =>
                  window[j].execs - window[i].execs >= MinExecsDelta
  BY <1>4, FlatWindow
<1>6. FullWindow(window)
  BY <1>1, <1>2, <1>3 DEF FullWindow, o
<1>7. Live(window)
  BY <1>1 DEF Live
<1>8. NoJump(window)
  <2> SUFFICES ASSUME NEW i \in 2 .. Len(window)
               PROVE  /\ Gain(window[i-1].paths, window[i].paths) <= MaxNewPaths
                      /\ Gain(window[i-1].edges, window[i].edges) <= JumpCap(o.edges)
    BY DEF NoJump, o
  <2>1. i \in DOMAIN window /\ i - 1 \in DOMAIN window
    BY <1>1
  <2>2. /\ window[i] \in Sample
        /\ window[i-1].paths = window[i].paths /\ window[i-1].edges = window[i].edges
    BY <1>5, <2>1
  <2>3. window[i].paths \in Nat /\ window[i].edges \in Nat /\ o.edges \in Nat
    BY <1>2, <2>2 DEF Sample
  <2>4. /\ Gain(window[i-1].paths, window[i].paths) = 0
        /\ Gain(window[i-1].edges, window[i].edges) = 0 /\ JumpCap(o.edges) >= 0
    BY <2>2, <2>3, NoGain
  <2> QED BY <2>4
<1>9. Executing(window)
  <2>1. o.ts < file.ts
    BY <1>1, <1>3
  <2>2. file.busy /\ file.execs - o.execs >= MinExecsDelta
    BY <1>2, <1>5, <2>1
  <2>3. file.execs \in Nat /\ o.execs \in Nat
    BY <1>1, <1>2 DEF Sample
  <2>4. Gain(o.execs, file.execs) >= MinExecsDelta
    BY <2>2, <2>3 DEF Gain
  <2> QED BY <2>2, <2>4 DEF Executing, o
<1>10. o.paths = file.paths /\ o.edges = file.edges /\ o.crashes = file.crashes
  BY <1>2, <1>5
<1>11. NoGrowth(window)
  <2>1. o.paths \in Nat /\ o.edges \in Nat /\ o.crashes \in Nat
    BY <1>2 DEF Sample
  <2>2. /\ Gain(o.paths, file.paths) = 0 /\ Gain(o.edges, file.edges) = 0
        /\ Gain(o.crashes, file.crashes) = 0 /\ EdgeCap(o.edges) >= 0
    BY <1>10, <2>1, NoGain
  <2>3. /\ Gain(o.paths, file.paths) <= MaxNewPaths
        /\ Gain(o.edges, file.edges) <= EdgeCap(o.edges)
    BY <2>2
  <2> QED BY <2>2, <2>3 DEF NoGrowth, o
<1>12. LastPathOld(window)
  <2>1. file.lastPath \in Nat
    BY <1>1 DEF Sample
  <2>2. file.lastPath <= start
    <3> SUFFICES ASSUME start < file.lastPath PROVE FALSE
      BY <1>1, <2>1
    <3>1. Plain(o) \in written /\ Plain(o).ts = o.ts /\ Plain(o).paths = o.paths
      BY <1>2, PlainFacts DEF PipelineInv, WindowHolds
    <3>2. o.paths < file.paths
      BY <1>3, <3>1 DEF PipelineInv, History
    <3>3. o.paths \in Nat
      BY <1>2 DEF Sample
    <3> QED BY <1>10, <3>2, <3>3
  <2>3. file.ts >= file.lastPath /\ file.ts - file.lastPath >= WindowSec
    BY <1>1, <2>1, <2>2
  <2> QED BY <2>3 DEF LastPathOld
<1> QED BY <1>2, <1>6, <1>7, <1>8, <1>9, <1>11, <1>12 DEF Plateaued, EnoughSamples

\* For every configuration with a window that is not empty, an AFL that is
\* flat from one sample of a full window to the other is reported, whatever
\* else happened before and at whatever times.
THEOREM AlignedPlateausDetected ==
  ASSUME WindowSec > 0
  PROVE  PipelineSpec => []AlignedPlateauDetected
<1>1. ASSUME PipelineInv PROVE AlignedPlateauDetected
  <2> SUFFICES ASSUME Len(window) >= MinSamples, Newest(window) = file,
                      NEW n \in DOMAIN window, window[n].ts = file.ts - WindowSec,
                      FlatSince(file.ts - WindowSec), ~ emitted
               PROVE  FALSE
    BY DEF AlignedPlateauDetected
  <2>1. window # <<>> /\ Plateaued(window)
    BY <1>1, FlatIsPlateau
  <2> QED BY <1>1, <2>1 DEF PipelineInv, Reported
<1> QED BY <1>1, PipelineInvariant, PTL

=============================================================================
