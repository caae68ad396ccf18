----------------------------- MODULE MachineTurns -----------------------------
(***************************************************************************)
(* What a live campaign promises about the machine it runs on: either the   *)
(* main AFL++ has it or the micro-campaigns have it, a change of turn goes  *)
(* through an idle machine, and a run that was closed starts nothing more.  *)
(* RunController implements this specification.                             *)
(***************************************************************************)

VARIABLES
  turn,               \* who is fuzzing: idle, main or micro
  closed              \* the run is recorded as completed

turnVars == <<turn, closed>>

TurnInit ==
  /\ turn = "idle"
  /\ closed = FALSE

\* An AFL++ of either kind starts on an idle machine.
Start ==
  /\ turn = "idle"
  /\ ~ closed
  /\ turn' \in {"main", "micro"}
  /\ UNCHANGED closed

\* The last AFL++ of a kind is stopped, ends or dies.
Release ==
  /\ turn # "idle"
  /\ turn' = "idle"
  /\ UNCHANGED closed

\* The run is recorded as completed.
Close ==
  /\ turn = "idle"
  /\ ~ closed
  /\ closed' = TRUE
  /\ UNCHANGED turn

TurnNext == Start \/ Release \/ Close

TurnSpec == TurnInit /\ [][TurnNext]_turnVars

=============================================================================
