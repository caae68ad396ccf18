--------------------------- MODULE MCRewardTracker ---------------------------
(* RewardTracker with interchangeable decisions.                            *)
EXTENDS RewardTracker, TLC

Symmetry == Permutations(Decisions)
=============================================================================
