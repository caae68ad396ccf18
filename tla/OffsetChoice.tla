---- MODULE OffsetChoice ----
(***************************************************************************)
(* Where in an input the operators that flip, overwrite and add begin, and *)
(* where a deletion begins (src/mutators/fuzzpilot/mutator_core.cpp).      *)
(* Insertion and splicing take any offset, and a deletion goes on from the *)
(* one chosen here without a look at what is protected.                    *)
(*                                                                         *)
(* A range is [begin, end); the offsets of an input of `size' bytes are    *)
(* 0..size-1.  A random choice is the set of its outcomes, and sixteen     *)
(* attempts that may all fail are one attempt that may fail.               *)
(***************************************************************************)
EXTENDS Integers, Sequences, SequencesExt, FiniteSets, FiniteSetsExt

InRange(offset, r) == offset >= r.begin /\ offset < r.end

\* What the ranges of a recipe mean.
Covered(ranges, offset) == \E i \in DOMAIN ranges : InRange(offset, ranges[i])

\* add_recipe sorts the ranges of a seed recipe by their beginning.
RangeInserted(sorted, r) ==
    LET before == Cardinality({i \in DOMAIN sorted : sorted[i].begin <= r.begin})
    IN  SubSeq(sorted, 1, before) \o <<r>> \o SubSeq(sorted, before + 1, Len(sorted))

SortedRanges(ranges) ==
    LET sorted[n \in 0 .. Len(ranges)] ==
          IF n = 0 THEN <<>> ELSE RangeInserted(sorted[n - 1], ranges[n])
    IN  sorted[Len(ranges)]

\* is_protected: a binary search for the last range that begins at or before
\* the offset, and that range alone decides.
IsProtected(ranges, offset) ==
    LET starting == {i \in DOMAIN ranges : ranges[i].begin <= offset}
    IN  starting # {} /\ InRange(offset, ranges[Max(starting)])

\* One attempt: an offset of a focus range clamped to the input, or any.
Attempts(focus, size) ==
    IF focus = <<>> THEN 0..(size - 1)
    ELSE UNION {Min({r.begin, size - 1})..(Min({Max({r.end, r.begin + 1}), size}) - 1)
                 : r \in Range(focus)}

\* choose_focus_offset: an attempt that is not protected, or, when all sixteen
\* failed, the first unprotected offset from a random start, or 0.
NextFree(protect, size, start) ==
    LET at(i) == (start + i) % size
        free == {i \in 0..(size - 1) : ~IsProtected(protect, at(i))}
    IN  IF free = {} THEN 0 ELSE at(Min(free))

Offsets(focus, protect, size) ==
    {o \in Attempts(focus, size) : ~IsProtected(protect, o)}
      \union (IF \E o \in Attempts(focus, size) : IsProtected(protect, o)
              THEN {NextFree(protect, size, start) : start \in 0..(size - 1)}
              ELSE {})
====
