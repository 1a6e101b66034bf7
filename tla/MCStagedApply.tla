--------------------------- MODULE MCStagedApply ---------------------------
(* StagedApply with two sessions and two processes.                          *)
EXTENDS StagedApply, TLC

CONSTANTS c1, c2, p1, p2

MCCaptures == {c1, c2}
MCWriters == {p1, p2}
Symmetry == Permutations(MCCaptures) \cup Permutations(MCWriters)
=============================================================================
