--------------------------- MODULE MCMemoryWorker ---------------------------
(* MemoryWorker with two sessions, or one, and two worker processes.         *)
EXTENDS MemoryWorker, TLC

CONSTANTS c1, c2, w1, w2

MCCaptures == {c1, c2}
OneCapture == {c1}
MCOwners == {w1, w2}
TwoEach == [p \in MCOwners |-> 2]
\* smaller: only one of the processes shares its writer lock
TwoAndOne == [p \in MCOwners |-> IF p = w1 THEN 2 ELSE 1]
CaptureSymmetry == Permutations(MCCaptures)
Symmetry == CaptureSymmetry \cup Permutations(MCOwners)
=============================================================================
