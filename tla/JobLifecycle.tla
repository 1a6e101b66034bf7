---------------------------- MODULE JobLifecycle ----------------------------
(***************************************************************************)
(* What the capture queue promises about one job, without leases, owners,  *)
(* clocks or status rows: a submitted capture is worked on by one holder   *)
(* at a time, at most MaxAttempts times, until it succeeds or its attempts *)
(* are used up, and then nothing happens to it any more.                   *)
(***************************************************************************)
EXTENDS Naturals

CONSTANTS Captures, MaxAttempts

VARIABLES stage, tries

lifeVars == <<stage, tries>>

Init ==
  /\ stage \in [Captures -> {"absent", "waiting", "held", "succeeded", "dead"}]
  /\ tries \in [Captures -> 0..MaxAttempts]
  /\ \A c \in Captures : /\ stage[c] = "absent" => tries[c] = 0
                         /\ stage[c] = "waiting" => tries[c] < MaxAttempts
                         /\ stage[c] = "dead" => tries[c] = MaxAttempts

Submit(c) ==
  /\ stage[c] = "absent"
  /\ stage' = [stage EXCEPT ![c] = "waiting"]
  /\ UNCHANGED tries

Begin(c) ==
  /\ stage[c] = "waiting"
  /\ stage' = [stage EXCEPT ![c] = "held"]
  /\ tries' = [tries EXCEPT ![c] = @ + 1]

Finish(c) ==
  /\ stage[c] = "held"
  /\ stage' = [stage EXCEPT ![c] = "succeeded"]
  /\ UNCHANGED tries

\* The holders of S give up, or are found gone.
GiveBack(S) ==
  /\ \A c \in S : stage[c] = "held"
  /\ stage' = [c \in Captures |->
                 IF c \notin S THEN stage[c]
                 ELSE IF tries[c] = MaxAttempts THEN "dead" ELSE "waiting"]
  /\ UNCHANGED tries

Next ==
  \/ \E c \in Captures : Submit(c) \/ Begin(c) \/ Finish(c)
  \/ \E S \in SUBSET Captures : GiveBack(S)

Spec == Init /\ [][Next]_lifeVars
=============================================================================
