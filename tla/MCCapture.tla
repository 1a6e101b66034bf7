------------------------------ MODULE MCCapture ------------------------------
(* Capture with hooks on transcripts of Claude and Codex.                     *)
EXTENDS Capture, TLC

CONSTANTS h1, h2, h3, k1, k2

MCHooks == {h1, h2, h3}
MCContents == {k1, k2}
MCCodex == {k2}
MCSymmetry == Permutations(MCHooks)
==============================================================================
