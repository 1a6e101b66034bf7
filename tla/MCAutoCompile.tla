---------------------------- MODULE MCAutoCompile ----------------------------
(* AutoCompile with small sets of numbers for its logs, tokens and runs.      *)
(*                                                                            *)
(* The definitions below say what the documentation and the tests of the      *)
(* repository say of automatic compilation and what the code does not keep:   *)
(* each is violated by the specification, and none is checked by a run.  The  *)
(* README names the code and the shortest way to each violation.              *)
EXTENDS AutoCompile

\* A request that is watched ends, or fails for good.
Settles == Watched ~> (row = None \/ row.status = "failed")

\* A watchdog that was registered with an idle queue joins its request.
ReplacementJoins ==
  [][\A t \in Tokens :
       /\ proc[t].pc = "boot" /\ proc'[t].pc # "boot" /\ faults' = faults
       /\ row # None /\ row.watcher = t /\ row.status # "failed" /\ ~busy
       => proc'[t].pc = "watch"]_vars

\* Every request that has not failed has a watchdog.
Attended ==
  row # None /\ row.status # "failed" =>
    row.watcher # None /\ proc[row.watcher].pc # "none"

\* A failure that leaves the generation as it is keeps the required prefix.
FailureKeepsPrefix ==
  [][\A t \in Tokens :
       /\ proc[t].pc = "fail" /\ proc'[t].pc # "fail"
       /\ row # None /\ row' # None /\ row'.fp = row.fp
       => row'.pre = row.pre]_vars

\* An open status run is the active or the pending run of the request.
OpenIsLinked == \A i \in RunIds : Open(DB, i) => i \in Links(DB)

\* A status run ends once (violated with three captures).
EndsOnce == \A i \in RunIds : runs[i] # None => runs[i].ends <= 1

\* A run is dead only after its generation has failed MaxAttempts times.
DeadAfterAttempts ==
  \A i \in RunIds : runs[i] # None /\ runs[i].state = "dead" => runs[i].fails = MaxAttempts

\* The fingerprint of a request is that of its own log.
FingerprintOfItsLog == row # None => OfItsLog(row.fp)
==============================================================================
