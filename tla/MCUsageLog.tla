----------------------------- MODULE MCUsageLog -----------------------------
(* UsageLog with two processes, three attempts and one foreground record.     *)
EXTENDS UsageLog, TLC

CONSTANTS p1, p2, n1

MCProcs == {p1, p2}
MCNotes == {n1}
MCSymmetry == Permutations(MCProcs)
=============================================================================
