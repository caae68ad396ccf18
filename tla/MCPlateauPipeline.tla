------------------------- MODULE MCPlateauPipeline -------------------------
(* PlateauPipeline with the five ways a rewrite of fuzzer_stats can differ.  *)
EXTENDS PlateauPipeline

Grow(x, p, e, c) == [execs |-> x, paths |-> p, edges |-> e, crashes |-> c]

\* Idle, executing without growth, a new path, a new edge only, a crash.
MCGrowth == {Grow(0, 0, 0, 0), Grow(1, 0, 0, 0), Grow(1, 1, 1, 0),
             Grow(1, 0, 1, 0), Grow(1, 0, 0, 1)}

\* Executing without any growth.
MCFlat == {Grow(1, 0, 0, 0)}
=============================================================================
