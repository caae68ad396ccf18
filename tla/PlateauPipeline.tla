--------------------------- MODULE PlateauPipeline ---------------------------
(***************************************************************************)
(* From AFL++ to a plateau event: a running AFL++ that rewrites its         *)
(* fuzzer_stats file now and then, the telemetry collector that reads (or   *)
(* re-uses) it once per controller tick and marks it stale                  *)
(* (src/src/telemetry/collector.cpp), and the plateau detector those        *)
(* samples are fed to (src/src/controller/run.cpp).                         *)
(***************************************************************************)
EXTENDS PlateauDetector

CONSTANTS
  MaxStaleness,       \* kDefaultMaxStalenessSec
  MaxWriteGap,        \* AFL rewrites its stats at least this often
  MaxPollGap,         \* the controller samples at least this often
  Growth,             \* what the counters may grow by between two rewrites
  InitialEdges,
  MaxClock            \* bound of the model: seconds of campaign explored

ASSUME PipelineAssumption ==
  /\ MaxStaleness \in Nat
  /\ MaxWriteGap \in Nat \ {0}
  /\ MaxPollGap \in Nat \ {0}
  /\ MaxClock \in Nat
  /\ Growth \subseteq [execs : Nat, paths : Nat, edges : Nat, crashes : Nat]
  /\ InitialEdges \in Nat

VARIABLES
  clock,              \* wall-clock seconds
  running,            \* AFL is fuzzing (not hung, not dead)
  file,               \* the contents of fuzzer_stats: a sample
  polledAt,           \* when the controller last sampled
  written,            \* history: every sample AFL wrote
  lastEvent,          \* history: the newest event, across resets
  resetAt             \* when the detector was last reset

pipelineVars == <<detectorVars, clock, running, file, polledAt, written,
                  lastEvent, resetAt>>

FirstFile ==
  [ts |-> 1, execs |-> 0, busy |-> TRUE, paths |-> 0, edges |-> InitialEdges,
   crashes |-> 0, lastPath |-> 0, stale |-> FALSE]

PipelineInit ==
  /\ DetectorInit
  /\ clock = 1
  /\ running = TRUE
  /\ file = FirstFile
  /\ polledAt = 0
  /\ written = {FirstFile}
  /\ lastEvent = NoEvent
  /\ resetAt = 0

\* AFL rewrites fuzzer_stats: its counters only grow, last_update is now, and
\* last_find is the time of the newest path.
AflWrites(g) ==
  /\ running
  /\ file.ts < clock
  /\ file' = [file EXCEPT !.ts = clock, !.execs = @ + g.execs,
                          !.busy = g.execs > 0, !.paths = @ + g.paths,
                          !.edges = @ + g.edges, !.crashes = @ + g.crashes,
                          !.lastPath = IF g.paths > 0 THEN clock ELSE @]
  /\ written' = written \cup {file'}
  /\ UNCHANGED <<detectorVars, clock, running, polledAt, lastEvent,
                 resetAt>>

\* AFL hangs or dies: the file stays where it is.
AflFreezes ==
  /\ running
  /\ running' = FALSE
  /\ UNCHANGED <<detectorVars, clock, file, polledAt, written, lastEvent,
                 resetAt>>

Tick ==
  /\ clock < MaxClock
  /\ running => clock - file.ts < MaxWriteGap
  /\ clock - polledAt < MaxPollGap
  /\ clock' = clock + 1
  /\ UNCHANGED <<detectorVars, running, file, polledAt, written, lastEvent,
                 resetAt>>

\* TelemetryCollector::sample: the file as it is, parsed or from the cache,
\* flagged stale against the wall clock of this very call.
Collected == [file EXCEPT !.stale = clock - file.ts > MaxStaleness]

\* One pass of the main loop that finds stats: collector.sample and
\* process_stats.
Poll ==
  /\ polledAt < clock
  /\ polledAt' = clock
  /\ AddSample(Collected)
  /\ lastEvent' = IF event' = NoEvent THEN lastEvent ELSE event'
  /\ UNCHANGED <<clock, running, file, written, resetAt>>

\* An inline intervention ends with detector.reset(); it may have stopped
\* AFL and started a fresh instance with a fresh stats file.
Intervene(restart) ==
  /\ polledAt = clock
  /\ resetAt < clock
  /\ Reset
  /\ resetAt' = clock
  /\ IF restart
       THEN /\ running' = TRUE
            /\ file' = [FirstFile EXCEPT !.ts = clock]
            /\ written' = {file'}
       ELSE UNCHANGED <<running, file, written>>
  /\ UNCHANGED <<clock, polledAt, lastEvent>>

PipelineNext ==
  \/ \E g \in Growth : AflWrites(g)
  \/ AflFreezes
  \/ Tick
  \/ Poll
  \/ \E restart \in BOOLEAN : Intervene(restart)

PipelineSpec == PipelineInit /\ [][PipelineNext]_pipelineVars

-----------------------------------------------------------------------------
(* Properties *)

WrittenIn(from, to) == {h \in written : h.ts \in from .. to}

\* A plateau event tells the truth about AFL's whole history over the window,
\* rewrites of fuzzer_stats that no poll ever saw included: against every one
\* of them the growth up to the event stays within the configured caps and no
\* crash was found.  And it tells it of a live AFL, which had written its
\* statistics within the staleness limit, never of frozen ones.
EventIsQuiet ==
  event # NoEvent =>
    /\ polledAt - event.ts <= MaxStaleness
    /\ \A h \in WrittenIn(event.ts - WindowSec, event.ts) :
         LET now == Newest(window)
         IN  /\ now.paths - h.paths <= MaxNewPaths
             /\ now.edges - h.edges <= EdgeCap(Oldest(window).edges)
             /\ now.crashes = h.crashes

\* Plateau events are at least one window apart, although every intervention
\* re-arms the detector and the collector may hand it the same cached file
\* again: the statistics an intervention answered do not trigger the next one.
EventsApart ==
  [][lastEvent # NoEvent /\ lastEvent' # lastEvent =>
       lastEvent'.ts >= lastEvent.ts + WindowSec]_pipelineVars

\* AFL executed but found nothing new since time t.
FlatSince(t) ==
  \A g, h \in WrittenIn(t, clock) :
    /\ g.busy
    /\ g.ts < h.ts => h.execs - g.execs >= MinExecsDelta
    /\ g.paths = h.paths /\ g.edges = h.edges /\ g.crashes = h.crashes

\* When the window has a sample at each of its two ends and AFL was flat in
\* between, the event has been returned: no other gate (last_path, monotonic
\* jumps, the sample count) holds it back.
AlignedPlateauDetected ==
  LET start == file.ts - WindowSec
  IN  /\ ~ disabled
      /\ running
      /\ polledAt = clock
      /\ Len(window) >= MinSamples
      /\ Newest(window) = file
      /\ \E i \in DOMAIN window : window[i].ts = start
      /\ FlatSince(start)
      => emitted

\* "Plateau: a period where execution continues but coverage growth slows or
\* stops" (README): an AFL that executes without any growth for three whole
\* windows, sampled every second, has been reported.
PlateauDetected ==
  LET start == clock - 3 * WindowSec
  IN  /\ ~ disabled
      /\ running
      /\ polledAt = clock
      /\ resetAt <= start
      /\ \E h \in written : h.ts <= start
      /\ FlatSince(start)
      => emitted

=============================================================================
