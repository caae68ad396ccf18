---------------------------- MODULE ChildProcess ----------------------------
(***************************************************************************)
(* The life of one child of the controller (src/src/runner/                 *)
(* process_posix.cpp).  A child is either captured, run_process_capture     *)
(* reading its output from a pipe until it ends or times out, or stopped,   *)
(* stop_afl_process (src/src/controller/run.cpp) sending SIGINT, SIGTERM    *)
(* and SIGKILL in turn with a wait_process after each.  The child may fork  *)
(* a worker, which inherits the pipe and the process group.  Limits of time *)
(* are one event, Expire, which comes sooner or later.                      *)
(***************************************************************************)
EXTENDS Naturals

CONSTANTS
  MaxOutput,          \* max_output_bytes, in units of a read
  PipeSize,           \* what the pipe holds
  MaxWritten          \* bound: how far what they wrote is counted

ASSUME ChildAssumption ==
  /\ MaxOutput \in Nat \ {0}
  /\ PipeSize \in Nat \ {0}
  /\ MaxWritten \in Nat
  /\ MaxOutput <= MaxWritten

VARIABLES
  use,                \* "capture" or "stop"
  limited,            \* timeout_ms >= 0; a stop is always limited
  pc,                 \* where the controller is
  child,              \* "running", "zombie" or "reaped"
  worker,             \* "none", "running" or "gone"
  pipe,               \* unread data in the pipe
  written,            \* how much was written, MaxWritten for more
  output,             \* result.output
  error,              \* result.error
  exited,             \* waitpid gave the status: result.exited or signaled
  childDone,          \* child_done
  pipeDone,           \* pipe_done
  progress,           \* read_progress
  empties,            \* post_child_empty_reads
  expired,            \* the time limit in force is over
  polled,             \* the wait has found the child running
  owed                \* history: written when the child ended

captureVars == <<pipe, written, output, error, exited, childDone,
                 pipeDone, progress, empties, owed>>
waitVars == <<expired, polled>>
vars == <<use, limited, pc, child, worker, waitVars, captureVars>>

StopPlaces == {"interrupt", "wait_interrupt", "terminate", "wait_terminate",
               "kill", "wait_kill"}
Places == StopPlaces \cup {"read", "reap", "limit", "done"}

Smaller(a, b) == IF a <= b THEN a ELSE b

\* posix_spawnp has just succeeded.
Init ==
  /\ use \in {"capture", "stop"}
  /\ limited \in BOOLEAN
  /\ use = "stop" => limited
  /\ pc = IF use = "capture" THEN "read" ELSE "interrupt"
  /\ child = "running"
  /\ worker = "none"
  /\ pipe = 0
  /\ written = 0
  /\ output = 0
  /\ error = "none"
  /\ exited = FALSE
  /\ childDone = FALSE
  /\ pipeDone = FALSE
  /\ progress = FALSE
  /\ empties = 0
  /\ expired = FALSE
  /\ polled = FALSE
  /\ owed = 0

-----------------------------------------------------------------------------
(* The child and its worker *)

Fork ==
  /\ child = "running"
  /\ worker = "none"
  /\ worker' = "running"
  /\ UNCHANGED <<use, limited, pc, child, waitVars, captureVars>>

Write ==
  /\ use = "capture"
  /\ "running" \in {child, worker}
  /\ pipe < PipeSize
  /\ pipe' = pipe + 1
  /\ written' = Smaller(MaxWritten, written + 1)
  /\ UNCHANGED <<use, limited, pc, child, worker, waitVars, output, error,
                 exited, childDone, pipeDone, progress, empties, owed>>

\* Of its own accord, or in answer to a signal it handles.
ChildEnds ==
  /\ child = "running"
  /\ child' = "zombie"
  /\ owed' = written
  /\ UNCHANGED <<use, limited, pc, worker, waitVars, pipe, written, output,
                 error, exited, childDone, pipeDone, progress, empties>>

WorkerEnds ==
  /\ worker = "running"
  /\ worker' = "gone"
  /\ UNCHANGED <<use, limited, pc, child, waitVars, captureVars>>

Expire ==
  /\ limited
  /\ ~expired
  /\ pc # "done"
  /\ expired' = TRUE
  /\ UNCHANGED <<use, limited, pc, child, worker, polled, captureVars>>

-----------------------------------------------------------------------------
(* run_process_capture *)

\* read returns data: all of it is taken from the pipe, what fits is kept.
ReadData ==
  /\ pc = "read"
  /\ ~pipeDone
  /\ pipe > 0
  /\ pipe' = pipe - 1
  /\ progress' = TRUE
  /\ output' = Smaller(MaxOutput, output + 1)
  /\ error' = IF output < MaxOutput /\ output' = MaxOutput /\ error = "none"
              THEN "truncated" ELSE error
  /\ UNCHANGED <<use, limited, pc, child, worker, waitVars, written, exited, childDone,
                 pipeDone, empties, owed>>

\* read returns 0 when nobody can write any more, EAGAIN otherwise.
ReadNothing ==
  /\ pc = "read"
  /\ pipe = 0 \/ pipeDone
  /\ pipeDone' = (pipeDone \/ "running" \notin {child, worker})
  /\ pc' = "reap"
  /\ UNCHANGED <<use, limited, child, worker, waitVars, pipe, written, output,
                 error, exited, childDone, progress, empties, owed>>

\* Mutant: the first empty read after the child's end ends the capture.
OneEmptyRead == 1

\* post_child_empty_reads at which somebody else is taken to hold the pipe.
EmptyReads == 3

\* Mutant: the count begins again with every pass.
EmptiesForgotten(empty) == IF empty THEN 1 ELSE 0

EmptiesAfter(empty) == IF empty THEN empties + 1 ELSE IF progress THEN 0 ELSE empties

\* waitpid without waiting, then the count of empty reads.
Reap ==
  /\ pc = "reap"
  /\ childDone' = (childDone \/ child = "zombie")
  /\ child' = IF child = "zombie" THEN "reaped" ELSE child
  /\ exited' = (exited \/ child = "zombie")
  /\ LET empty == childDone' /\ ~pipeDone /\ ~progress
     IN  /\ empties' = EmptiesAfter(empty)
         /\ pipeDone' = (pipeDone \/ (empty /\ empties' >= EmptyReads))
  /\ pc' = "limit"
  /\ UNCHANGED <<use, limited, worker, waitVars, pipe, written, output, error,
                 progress, owed>>

\* After 10 ms the loop begins again.
NextPass(ended) ==
  /\ pc' = IF pipeDone /\ ended THEN "done" ELSE "read"
  /\ progress' = FALSE

InTime ==
  /\ pc = "limit"
  /\ childDone \/ ~expired
  /\ NextPass(childDone)
  /\ UNCHANGED <<use, limited, child, worker, waitVars, pipe, written, output,
                 error, exited, childDone, pipeDone, empties, owed>>

\* Only the child itself is killed, and waited for.
TimeOut ==
  /\ pc = "limit"
  /\ ~childDone
  /\ expired
  /\ child' = "reaped"
  /\ owed' = IF child = "running" THEN written ELSE owed
  /\ childDone' = TRUE
  /\ error' = "timed_out"
  /\ NextPass(TRUE)
  /\ UNCHANGED <<use, limited, worker, waitVars, pipe, written, output, exited,
                 pipeDone, empties>>

-----------------------------------------------------------------------------
(* stop_afl_process and wait_process *)

\* interrupt_process reaches the leader, terminate_process_group everybody;
\* whoever handles the signal may take its time.  Each starts a new wait.
Ask(from, to) ==
  /\ pc = from
  /\ pc' = to
  /\ expired' = FALSE
  /\ polled' = FALSE
  /\ UNCHANGED <<use, limited, child, worker, captureVars>>

Interrupt == Ask("interrupt", "wait_interrupt")
Terminate == Ask("terminate", "wait_terminate")

\* kill(-pid, SIGKILL): the group of the child, unless a worker left it.
Kill ==
  /\ pc = "kill"
  /\ child' = "zombie"
  /\ worker' \in IF worker = "running" THEN {"running", "gone"} ELSE {worker}
  /\ pc' = "wait_kill"
  /\ expired' = FALSE
  /\ polled' = FALSE
  /\ UNCHANGED <<use, limited, captureVars>>

Waits == {"wait_interrupt", "wait_terminate", "wait_kill"}

\* A poll finds the child ended: stop_afl_process returns.
Waited ==
  /\ pc \in Waits
  /\ child = "zombie"
  /\ child' = "reaped"
  /\ pc' = "done"
  /\ UNCHANGED <<use, limited, worker, waitVars, captureVars>>

\* Mutant: the last escalation is forgotten.
EscalationStopsShort(place) == IF place = "wait_interrupt" THEN "terminate" ELSE "done"

Escalation(place) ==
  CASE place = "wait_interrupt" -> "terminate"
    [] place = "wait_terminate" -> "kill"
    [] place = "wait_kill"      -> "done"

WaitOn ==
  /\ pc \in Waits
  /\ child = "running"
  /\ polled' = TRUE
  /\ UNCHANGED <<use, limited, pc, child, worker, expired, captureVars>>

\* The time is over.  The last sleep is not followed by a poll: the child may
\* have ended in it.
WaitedInVain ==
  /\ pc \in Waits
  /\ polled
  /\ expired
  /\ pc' = Escalation(pc)
  /\ UNCHANGED <<use, limited, child, worker, waitVars, captureVars>>

Controller ==
  \/ ReadData \/ ReadNothing \/ Reap \/ InTime \/ TimeOut
  \/ Interrupt \/ Terminate \/ Kill \/ Waited \/ WaitOn \/ WaitedInVain

Done == pc = "done" /\ UNCHANGED vars

Next == Fork \/ Write \/ ChildEnds \/ WorkerEnds \/ Expire \/ Controller \/ Done

Spec == Init /\ [][Next]_vars /\ WF_vars(Controller) /\ WF_vars(Expire)
-----------------------------------------------------------------------------
(* Properties *)

TypeOK ==
  /\ use \in {"capture", "stop"}
  /\ pc \in Places
  /\ pc \in StopPlaces => use = "stop"
  /\ child \in {"running", "zombie", "reaped"}
  /\ worker \in {"none", "running", "gone"}
  /\ limited \in BOOLEAN /\ expired \in BOOLEAN /\ polled \in BOOLEAN
  /\ childDone \in BOOLEAN /\ pipeDone \in BOOLEAN
  /\ exited \in BOOLEAN /\ progress \in BOOLEAN
  /\ written \in 0 .. MaxWritten
  /\ owed \in 0 .. MaxWritten
  /\ pipe \in 0 .. PipeSize
  /\ output \in 0 .. MaxOutput
  /\ error \in {"none", "truncated", "timed_out"}
  /\ empties \in 0 .. EmptyReads

\* When a capture returns, it holds all that the child wrote, up to the limit:
\* although the end may be seen before the last data, although a worker may keep
\* the pipe open, and also when the child was killed.
AllOutputKept ==
  use = "capture" /\ pc = "done" => output >= Smaller(MaxOutput, owed)

\* Whatever the child does with its signals, nobody returns leaving it running
\* or a zombie.
ChildIsReaped == pc = "done" => child = "reaped"

\* A capture with a timeout and every stop come to an end, also when a worker
\* keeps the pipe open for ever; but not when somebody keeps writing, since the
\* inner loop reads as long as there is data and never looks at the clock.
ReturnsInTime == <>[][~Write]_vars => (limited ~> pc = "done")

=============================================================================
