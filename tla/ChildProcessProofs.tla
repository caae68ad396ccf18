------------------------- MODULE ChildProcessProofs -------------------------
(***************************************************************************)
(* What ChildProcess guarantees for every limit and every size of the pipe: *)
(* a capture returns all output, and no child is left behind.               *)
(***************************************************************************)
EXTENDS ChildProcess, TLAPS

\* All that the child wrote before its end is in the output, or the output is
\* full.
Drained == output = MaxOutput \/ owed <= output

\* What was written is in the output or still in the pipe.
Accounted ==
  /\ output < MaxOutput => written <= output + pipe
  /\ use = "capture" /\ child # "running" /\ output < MaxOutput =>
       owed <= output + pipe

\* The end of the child and of the pipe, as the loop knows them.
EndsKnown ==
  /\ childDone => use = "capture" /\ child = "reaped"
  /\ use = "capture" /\ child = "reaped" => childDone
  /\ ~childDone => empties = 0
  /\ ~pipeDone => empties < EmptyReads
  /\ pipeDone => child # "running" /\ Drained

\* Once the loop knows that the child has ended, an empty read means that the
\* output is complete: the child's last data were in the pipe before its end.
ReadDry ==
  /\ pc = "reap" /\ childDone => Drained
  /\ empties >= 2 => Drained

\* Where a stop is, the child has not been collected; after SIGKILL it is dead.
StopHeld ==
  /\ pc \in {"read", "reap", "limit"} => use = "capture"
  /\ pc \in StopPlaces => child # "reaped"
  /\ pc = "wait_kill" => child = "zombie" /\ ~polled
  /\ pc = "done" => child = "reaped"
  /\ use = "capture" /\ pc = "done" => pipeDone

ChildInvariant ==
  TypeOK /\ Accounted /\ EndsKnown /\ ReadDry /\ StopHeld

-----------------------------------------------------------------------------
\* The invariant holds when posix_spawnp returns.
LEMMA ChildStarts == Init => ChildInvariant
<1> SUFFICES ASSUME Init PROVE ChildInvariant
  OBVIOUS
<1> USE ChildAssumption
    DEF ChildAssumption, Init, Drained, Places, StopPlaces, EmptyReads
<1>1. TypeOK
  <2>1. /\ use \in {"capture", "stop"} /\ pc \in Places
        /\ pc \in StopPlaces => use = "stop"
    OBVIOUS
  <2>2. /\ child \in {"running", "zombie", "reaped"}
        /\ worker \in {"none", "running", "gone"}
        /\ error \in {"none", "truncated", "timed_out"}
    OBVIOUS
  <2>3. /\ limited \in BOOLEAN /\ expired \in BOOLEAN /\ polled \in BOOLEAN
        /\ childDone \in BOOLEAN /\ pipeDone \in BOOLEAN
        /\ exited \in BOOLEAN /\ progress \in BOOLEAN
    OBVIOUS
  <2>4. /\ written \in 0 .. MaxWritten /\ owed \in 0 .. MaxWritten
        /\ pipe \in 0 .. PipeSize /\ output \in 0 .. MaxOutput
        /\ empties \in 0 .. EmptyReads
    OBVIOUS
  <2> QED
    BY <2>1, <2>2, <2>3, <2>4 DEF TypeOK
<1>2. Accounted
  BY DEF Accounted
<1>3. EndsKnown
  BY DEF EndsKnown
<1>4. ReadDry
  BY DEF ReadDry
<1>5. StopHeld
  BY DEF StopHeld
<1> QED
  BY <1>1, <1>2, <1>3, <1>4, <1>5 DEF ChildInvariant

\* Every step of child, worker and controller preserves it.
LEMMA ChildSteps ==
  ASSUME ChildInvariant, [Next]_vars
  PROVE  ChildInvariant'
<1> USE ChildAssumption
    DEF ChildAssumption, ChildInvariant, TypeOK, Accounted, EndsKnown, ReadDry,
        StopHeld, Drained, Places, StopPlaces, EmptyReads, captureVars, waitVars,
        Smaller
<1>1. CASE Fork
  BY <1>1 DEF Fork
<1>2. CASE Write
  BY <1>2 DEF Write
<1>3. CASE ChildEnds
  BY <1>3 DEF ChildEnds
<1>4. CASE WorkerEnds
  BY <1>4 DEF WorkerEnds
<1>5. CASE Expire
  BY <1>5 DEF Expire
<1>6. CASE ReadData
  BY <1>6 DEF ReadData
<1>7. CASE ReadNothing
  BY <1>7 DEF ReadNothing
<1>8. CASE Reap
  <2>1. TypeOK'
    BY <1>8 DEF Reap, EmptiesAfter
  <2>2. Accounted'
    BY <1>8 DEF Reap, EmptiesAfter
  <2>3. EndsKnown'
    <3>1. CASE childDone
      <4>1. childDone' /\ child' = child /\ child = "reaped"
        BY <1>8, <3>1 DEF Reap
      <4>2. Drained /\ use = "capture"
        BY <1>8, <3>1 DEF Reap
      <4>3. Drained' /\ pc' = "limit" /\ use' = use
        BY <1>8, <4>2 DEF Reap
      <4>4. ~pipeDone' => empties' < EmptyReads
        BY <1>8 DEF Reap, EmptiesAfter
      <4> QED
        BY <4>1, <4>2, <4>3, <4>4
    <3>2. CASE ~childDone /\ child = "zombie"
      <4>1. childDone' /\ child' = "reaped" /\ pc' = "limit" /\ use' = "capture"
        BY <1>8, <3>2 DEF Reap
      <4>2. empties' < EmptyReads /\ pipeDone' = pipeDone
        BY <1>8, <3>2 DEF Reap, EmptiesAfter
      <4>3. output' = output /\ owed' = owed
        BY <1>8 DEF Reap
      <4> QED
        BY <4>1, <4>2, <4>3
    <3>3. CASE ~childDone /\ child # "zombie"
      BY <1>8, <3>3 DEF Reap, EmptiesAfter
    <3> QED
      BY <3>1, <3>2, <3>3
  <2>4. ReadDry'
    BY <1>8 DEF Reap, EmptiesAfter
  <2>5. StopHeld'
    BY <1>8 DEF Reap, EmptiesAfter
  <2> QED
    BY <2>1, <2>2, <2>3, <2>4, <2>5
<1>9. CASE InTime
  <2>1. TypeOK'
    BY <1>9 DEF InTime, NextPass
  <2>2. Accounted'
    BY <1>9 DEF InTime, NextPass
  <2>3. EndsKnown'
    BY <1>9 DEF InTime, NextPass
  <2>4. ReadDry'
    BY <1>9 DEF InTime, NextPass
  <2>5. StopHeld'
    BY <1>9 DEF InTime, NextPass
  <2> QED
    BY <2>1, <2>2, <2>3, <2>4, <2>5
<1>10. CASE TimeOut
  <2>1. TypeOK'
    BY <1>10 DEF TimeOut, NextPass
  <2>2. Accounted'
    BY <1>10 DEF TimeOut, NextPass
  <2>3. EndsKnown'
    BY <1>10 DEF TimeOut, NextPass
  <2>4. ReadDry'
    BY <1>10 DEF TimeOut, NextPass
  <2>5. StopHeld'
    BY <1>10 DEF TimeOut, NextPass
  <2> QED
    BY <2>1, <2>2, <2>3, <2>4, <2>5
<1>11. CASE Interrupt
  <2>1. TypeOK'
    BY <1>11 DEF Interrupt, Ask
  <2>2. Accounted'
    BY <1>11 DEF Interrupt, Ask
  <2>3. EndsKnown'
    BY <1>11 DEF Interrupt, Ask
  <2>4. ReadDry'
    BY <1>11 DEF Interrupt, Ask
  <2>5. StopHeld'
    BY <1>11 DEF Interrupt, Ask
  <2> QED
    BY <2>1, <2>2, <2>3, <2>4, <2>5
<1>12. CASE Terminate
  <2>1. TypeOK'
    BY <1>12 DEF Terminate, Ask
  <2>2. Accounted'
    BY <1>12 DEF Terminate, Ask
  <2>3. EndsKnown'
    BY <1>12 DEF Terminate, Ask
  <2>4. ReadDry'
    BY <1>12 DEF Terminate, Ask
  <2>5. StopHeld'
    BY <1>12 DEF Terminate, Ask
  <2> QED
    BY <2>1, <2>2, <2>3, <2>4, <2>5
<1>13. CASE Kill
  <2>1. TypeOK'
    BY <1>13 DEF Kill
  <2>2. Accounted'
    BY <1>13 DEF Kill
  <2>3. EndsKnown'
    BY <1>13 DEF Kill
  <2>4. ReadDry'
    BY <1>13 DEF Kill
  <2>5. StopHeld'
    BY <1>13 DEF Kill
  <2> QED
    BY <2>1, <2>2, <2>3, <2>4, <2>5
<1>14. CASE Waited
  <2>1. TypeOK'
    BY <1>14 DEF Waited, Waits
  <2>2. Accounted'
    BY <1>14 DEF Waited, Waits
  <2>3. EndsKnown'
    BY <1>14 DEF Waited, Waits
  <2>4. ReadDry'
    BY <1>14 DEF Waited, Waits
  <2>5. StopHeld'
    BY <1>14 DEF Waited, Waits
  <2> QED
    BY <2>1, <2>2, <2>3, <2>4, <2>5
<1>15. CASE WaitOn
  BY <1>15 DEF WaitOn, Waits
<1>16. CASE WaitedInVain
  BY <1>16 DEF WaitedInVain, Waits, Escalation
<1>17. CASE UNCHANGED vars
  BY <1>17 DEF vars
<1> QED
  BY <1>1, <1>2, <1>3, <1>4, <1>5, <1>6, <1>7, <1>8, <1>9, <1>10, <1>11, <1>12, <1>13,
     <1>14, <1>15, <1>16, <1>17
  DEF Next, Controller, Done

\* The inductive invariant of a child's life.
THEOREM ChildHolds == Spec => []ChildInvariant
  BY ChildStarts, ChildSteps, PTL DEF Spec

\* Every variable keeps its type; the counts stay within their bounds.
THEOREM ChildTypes == Spec => []TypeOK
<1>1. ChildInvariant => TypeOK
  BY DEF ChildInvariant
<1> QED
  BY <1>1, ChildHolds, PTL

\* A capture that returns holds all that its child wrote, up to the limit.
THEOREM CaptureKeepsOutput == Spec => []AllOutputKept
<1>1. ChildInvariant => AllOutputKept
  BY ChildAssumption
  DEF ChildAssumption, ChildInvariant, TypeOK, StopHeld, EndsKnown, Drained,
      AllOutputKept, Smaller
<1> QED
  BY <1>1, ChildHolds, PTL

\* A capture or a stop that returns has collected its child.
THEOREM ReturnReaps == Spec => []ChildIsReaped
<1>1. ChildInvariant => ChildIsReaped
  BY DEF ChildInvariant, StopHeld, ChildIsReaped
<1> QED
  BY <1>1, ChildHolds, PTL

=============================================================================
