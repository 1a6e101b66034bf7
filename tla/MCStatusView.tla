---------------------------- MODULE MCStatusView ----------------------------
(* StatusView with three hooks, of which two have failed before the dashboard *)
(* is started.                                                                *)
EXTENDS StatusView, TLC

CONSTANTS h1, h2, h3

MCHooks == {h1, h2, h3}

\* The state of the hooks when two of them have recorded their failures.
AfterFailures ==
  /\ report = [h \in Hooks |-> [pc |-> IF h = h3 THEN "busy" ELSE "over",
                                event |-> None, late |-> FALSE]]
  /\ log = (h1 :> "capture_failed" @@ h2 :> "input_failed" @@ h3 :> None)
  /\ runs = (h1 :> 1 @@ h2 :> 2 @@ h3 :> 0)
  /\ mishaps = 0
  /\ ViewInit

AfterFailuresSpec == AfterFailures /\ [][Next]_vars
=============================================================================
