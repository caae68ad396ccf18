--------------------------- MODULE PlateauDetector ---------------------------
(***************************************************************************)
(* The sliding-window plateau detector: PlateauDetector::add_sample and     *)
(* PlateauDetector::reset (src/src/plateau/detector.cpp).  The controller   *)
(* feeds it one AflStats record per sampling tick; a call either returns    *)
(* nothing or returns one plateau event and latches until reset().          *)
(***************************************************************************)
EXTENDS Integers, Sequences

CONSTANTS
  Samples,            \* the AflStats records a caller may pass
  NoEvent,            \* the empty std::optional
  WindowSec,          \* PlateauConfig, field by field
  MinSamples,
  MinExecsDelta,
  MaxNewPaths,
  EdgesFloor,
  EdgesPct,
  RequireMonotonic,
  JumpFloor,
  JumpCeiling

\* The fields of AflStats the detector reads.  busy is execs_per_sec >=
\* min_execs_per_sec; lastPath is 0 when AFL never found a path.
Sample == [ts : Nat, execs : Nat, busy : BOOLEAN, paths : Nat, edges : Nat,
           crashes : Nat, lastPath : Nat, stale : BOOLEAN]

Event == [ts : Nat, execs : Nat, paths : Nat, edges : Nat, crashes : Nat,
          samples : Nat]

ASSUME SamplesAssumption == Samples \subseteq Sample
ASSUME ConfigAssumption ==
  /\ RequireMonotonic \in BOOLEAN
  /\ WindowSec \in Nat
  /\ MinSamples \in Nat
  /\ MinExecsDelta \in Nat
  /\ MaxNewPaths \in Nat
  /\ EdgesFloor \in Nat
  /\ EdgesPct \in Nat
  /\ JumpFloor \in Nat
  /\ JumpCeiling \in Nat
ASSUME NoEventAssumption == NoEvent \notin Event

VARIABLES
  disabled,           \* config_.disabled, chosen at construction
  window,             \* window_, oldest sample first
  emitted,            \* emitted_
  lastEmitTs,         \* last_emit_ts_
  event               \* what the last call returned

detectorVars == <<disabled, window, emitted, lastEmitTs, event>>

-----------------------------------------------------------------------------
(* The sampled window *)

Oldest(w) == w[1]
Newest(w) == w[Len(w)]

Larger(a, b) == IF a >= b THEN a ELSE b
Smaller(a, b) == IF a <= b THEN a ELSE b

\* Counters are compared with saturation at zero.
Gain(old, new) == IF new >= old THEN new - old ELSE 0

\* The positions at which the eviction loop would stop.  The code casts the
\* difference to uint64_t, so a front sample NEWER than the new one looks
\* ages old and is evicted too.
KeepPoints(w) == {i \in DOMAIN w : Newest(w).ts - w[i].ts \in 0 .. WindowSec}

\* Pop from the front until the front is within the window.
Evict(w) ==
  LET first == CHOOSE i \in KeepPoints(w) : \A j \in KeepPoints(w) : i <= j
  IN  SubSeq(w, first, Len(w))

-----------------------------------------------------------------------------
(* The gates, in the order the code applies them *)

\* Mutant: one sample more is asked for.
EnoughSamplesStrict(w) == Len(w) > MinSamples

EnoughSamples(w) == Len(w) >= MinSamples

\* Mutant: off by one.
FullWindowShort(w) == Newest(w).ts - Oldest(w).ts >= WindowSec - 1

FullWindow(w) == Newest(w).ts - Oldest(w).ts >= WindowSec

Live(w) == ~ Newest(w).stale

JumpCap(edges) ==
  Smaller(JumpCeiling, Larger(JumpFloor, Larger(1, edges \div 100)))

\* No single step inside the window grew more than the caps allow.
NoJump(w) ==
  RequireMonotonic /\ Len(w) >= 3 =>
    \A i \in 2 .. Len(w) :
      /\ Gain(w[i-1].paths, w[i].paths) <= MaxNewPaths
      /\ Oldest(w).edges > 0 =>
           Gain(w[i-1].edges, w[i].edges) <= JumpCap(Oldest(w).edges)

Executing(w) ==
  /\ Gain(Oldest(w).execs, Newest(w).execs) >= MinExecsDelta
  /\ Newest(w).busy

EdgeCap(edges) == Larger(EdgesFloor, (edges * EdgesPct) \div 100)

\* Mutant: the growth of the edges is not looked at.
NoGrowthOfPaths(w) ==
  /\ Gain(Oldest(w).paths, Newest(w).paths) <= MaxNewPaths
  /\ Gain(Oldest(w).crashes, Newest(w).crashes) = 0

NoGrowth(w) ==
  /\ Gain(Oldest(w).paths, Newest(w).paths) <= MaxNewPaths
  /\ Gain(Oldest(w).edges, Newest(w).edges) <= EdgeCap(Oldest(w).edges)
  /\ Gain(Oldest(w).crashes, Newest(w).crashes) = 0

LastPathOld(w) ==
  LET s == Newest(w)
  IN  s.lastPath = 0 \/ (s.ts >= s.lastPath /\ s.ts - s.lastPath >= WindowSec)

Plateaued(w) ==
  /\ EnoughSamples(w)
  /\ FullWindow(w)
  /\ Live(w)
  /\ NoJump(w)
  /\ Executing(w)
  /\ NoGrowth(w)
  /\ LastPathOld(w)

EventOf(w) ==
  [ts |-> Newest(w).ts,
   execs |-> Gain(Oldest(w).execs, Newest(w).execs),
   paths |-> Gain(Oldest(w).paths, Newest(w).paths),
   edges |-> Gain(Oldest(w).edges, Newest(w).edges),
   crashes |-> Gain(Oldest(w).crashes, Newest(w).crashes),
   samples |-> Len(w)]

-----------------------------------------------------------------------------
(* The two operations *)

DetectorInit ==
  /\ disabled \in BOOLEAN
  /\ window = <<>>
  /\ emitted = FALSE
  /\ lastEmitTs = 0
  /\ event = NoEvent

Skip ==
  /\ disabled
  /\ event' = NoEvent
  /\ UNCHANGED <<disabled, window, emitted, lastEmitTs>>

MayEmit(w) == ~ emitted /\ Plateaued(w)

Detect(s) ==
  /\ ~ disabled
  /\ UNCHANGED disabled
  /\ window' = Evict(Append(window, s))
  /\ IF MayEmit(window')
       THEN /\ emitted' = TRUE
            /\ lastEmitTs' = s.ts
            /\ event' = EventOf(window')
       ELSE /\ event' = NoEvent
            /\ UNCHANGED <<emitted, lastEmitTs>>

AddSample(s) == Skip \/ Detect(s)

\* Mutant: the window survives the reset.
ResetKeepsWindow ==
  /\ UNCHANGED <<disabled, window>>
  /\ emitted' = FALSE
  /\ lastEmitTs' = 0
  /\ event' = NoEvent

Reset ==
  /\ UNCHANGED disabled
  /\ window' = <<>>
  /\ emitted' = FALSE
  /\ lastEmitTs' = 0
  /\ event' = NoEvent

DetectorNext == Reset \/ \E s \in Samples : AddSample(s)

DetectorSpec == DetectorInit /\ [][DetectorNext]_detectorVars

-----------------------------------------------------------------------------
(* Properties *)

\* Types of the detector's state.
DetectorTypeOK ==
  /\ disabled \in BOOLEAN
  /\ window \in Seq(Sample)
  /\ emitted \in BOOLEAN
  /\ lastEmitTs \in Nat
  /\ event \in Event \cup {NoEvent}

\* The window never covers more than WindowSec of AFL time, and its front is
\* never newer than its back, whatever timestamps the caller passes: a wall
\* clock that steps back makes the unsigned subtraction wrap, and the wrap
\* must drop the samples from "the future" and not keep them for ever.
WindowBounded ==
  window # <<>> => Newest(window).ts - Oldest(window).ts \in 0 .. WindowSec

\* An event is backed by the window it was computed from: it spans the whole
\* configured window (neither less, which would be noise, nor more, which
\* would be history that should have been evicted), ends at detected_ts, and
\* no crash was found and enough executions were done in it.
EventBacked ==
  event # NoEvent =>
    /\ window # <<>>
    /\ Newest(window).ts = event.ts
    /\ Oldest(window).ts = event.ts - WindowSec
    /\ event.samples >= MinSamples
    /\ event.execs >= MinExecsDelta
    /\ event.crashes = 0

\* One event per reset: while latched, no call returns another event, and
\* only a returned event latches the detector.
OneEventPerReset ==
  [][ /\ emitted => event' = NoEvent
      /\ (emitted' /\ ~ emitted) <=> (event' # NoEvent) ]_detectorVars

=============================================================================
