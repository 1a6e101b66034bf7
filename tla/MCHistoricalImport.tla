------------------------- MODULE MCHistoricalImport -------------------------
(* HistoricalImport on a small instance: two imports of the same two         *)
(* sessions, one of which costs what an import may spend, the other nothing. *)
EXTENDS HistoricalImport, TLC

CONSTANTS c1, c2, o1, i1, i2

MCCaptures == {c1, c2}
MCLegacy == {c2}
MCOwners == {o1}
MCImports == {i1, i2}
MCWanted == [i \in MCImports |-> MCCaptures]
MCProcessed == {c1}
Symmetry == Permutations(MCImports)
MCCost == (c1 :> 1) @@ (c2 :> 0)
=============================================================================
