---------------------------- MODULE HookReports ----------------------------
(***************************************************************************)
(* How a hook reports what became of it (scripts/hook_logging.py and       *)
(* scripts/status_health.py): one line in hooks.log and, for the failures  *)
(* of Diagnostic, a failed status run with a key of its own.  What a hook  *)
(* does before that is the matter of Capture.                              *)
(***************************************************************************)
EXTENDS Naturals, FiniteSets

CONSTANTS
  Hooks,      \* hook processes
  None,
  Mishaps,    \* the mishaps that may happen
  MaxMishaps  \* bound: mishaps together

VARIABLES
  report,  \* how far each hook is with its report
  log,     \* its line in hooks.log
  runs,    \* the status run of its failure: its id, or 0
  mishaps  \* mishaps so far

reportVars == <<report, log, runs, mishaps>>

\* Failures that are recorded as a status run too, besides their log line;
\* "input_failed" stands for malformed_input, transcript_missing and
\* transcript_unreadable.
Diagnostic == {"input_failed", "capture_failed"}
Failure == Diagnostic \cup {"queue_unavailable"}
Event == Failure \cup {"capture_succeeded"}

ASSUME HooksAssumption == /\ IsFiniteSet(Hooks) /\ None \notin Hooks \cup Event
                          /\ MaxMishaps \in Nat

Report == [pc : {"busy", "report", "diagnose", "over", "killed"},
           event : Event \cup {None}, late : BOOLEAN]

Mishap(f) == /\ f \in Mishaps /\ mishaps < MaxMishaps
             /\ mishaps' = mishaps + 1
NoMishap == UNCHANGED mishaps
Recorded == {h \in Hooks : runs[h] # 0}

Busy(h) == report[h].pc = "busy"
Over(h) == report[h].pc \in {"over", "killed"}
Ends(h, pc) == report' = [report EXCEPT ![h] = [pc |-> pc, event |-> None, late |-> FALSE]]

\* The hook is done, with an event to report.
Concludes(h, e, late) ==
  /\ Busy(h)
  /\ late => e = "capture_failed"
  /\ report' = [report EXCEPT ![h] = [pc |-> "report", event |-> e, late |-> late]]
  /\ UNCHANGED <<log, runs>>

\* There was nothing to capture.
Skips(h) == Busy(h) /\ Ends(h, "over") /\ UNCHANGED <<log, runs, mishaps>>

\* _HookLogHandler.emit writes one line, or drops it.
Emits(h) == \/ log' = [log EXCEPT ![h] = report[h].event] /\ NoMishap
            \/ Mishap("log") /\ UNCHANGED log

\* log_hook_event, then the diagnostic.  Once the deadline has passed there
\* is no time left for the diagnostic child.
Logs(h) ==
  /\ report[h].pc = "report"
  /\ IF report[h].event \in Diagnostic /\ ~report[h].late
     THEN report' = [report EXCEPT ![h].pc = "diagnose"]
     ELSE Ends(h, "over")
  /\ Emits(h)
  /\ UNCHANGED runs

\* Mutant: the diagnostic is tried again after its commit, and has no key.
DiagnosesAgain(h) ==
  /\ report[h].pc = "diagnose"
  /\ UNCHANGED report
  /\ runs' = [runs EXCEPT ![h] = Cardinality(Recorded) + 1]
  /\ UNCHANGED <<log, mishaps>>

\* record_hook_diagnostic in a child, which commits the run, ...
Diagnoses(h) ==
  /\ report[h].pc = "diagnose"
  /\ Ends(h, "over")
  /\ runs' = [runs EXCEPT ![h] = Cardinality(Recorded) + 1]
  /\ UNCHANGED <<log, mishaps>>

\* ... or fails, or is killed at the deadline.
DiagnosisFails(h) ==
  /\ report[h].pc = "diagnose"
  /\ Ends(h, "over")
  /\ UNCHANGED <<log, runs, mishaps>>

\* The hook is killed.
HookDies(h) ==
  ~Over(h) /\ Mishap("hook") /\ Ends(h, "killed") /\ UNCHANGED <<log, runs>>

ReportInit ==
  /\ report = [h \in Hooks |-> [pc |-> "busy", event |-> None, late |-> FALSE]]
  /\ log = [h \in Hooks |-> None]
  /\ runs = [h \in Hooks |-> 0]
  /\ mishaps = 0

ReportNext ==
  \E h \in Hooks :
    \/ \E e \in Event, late \in BOOLEAN : Concludes(h, e, late) /\ NoMishap
    \/ Skips(h) \/ Logs(h) \/ Diagnoses(h) \/ DiagnosisFails(h) \/ HookDies(h)

ReportSpec == ReportInit /\ [][ReportNext]_reportVars

ReportTypeOK ==
  /\ report \in [Hooks -> Report]
  /\ log \in [Hooks -> Event \cup {None}]
  /\ runs \in [Hooks -> 0 .. Cardinality(Hooks)]
  /\ mishaps \in 0 .. MaxMishaps
=============================================================================
