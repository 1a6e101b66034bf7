---------------------------- MODULE Capture_proofs ----------------------------
(***************************************************************************)
(* Proofs about Capture, for any number of hooks and contents.  Each hook  *)
(* and its child are followed by an invariant of their own (CaptureOf);    *)
(* what the others can do to it is Others: they take jobs that nobody has, *)
(* and leave a snapshot alone that is whole or that this hook publishes.   *)
(***************************************************************************)
EXTENDS Capture, FiniteSetTheorems, TLAPS

-----------------------------------------------------------------------------
(* What a hook reports.                                                      *)

\* What one hook has reported.
ReportOf(h) ==
  /\ report[h].pc \in {"busy", "report"} => log[h] = None
  /\ report[h].pc = "report" => report[h].event \in Event
  /\ report[h].pc = "diagnose" => log[h] \in Diagnostic \cup {None}
  /\ runs[h] # 0 => Over(h) /\ log[h] \in Diagnostic \cup {None}

ReportInv == ReportTypeOK /\ \A h \in Hooks : ReportOf(h)

-----------------------------------------------------------------------------

LEMMA ReportInitially == ReportInit => ReportInv
<1> SUFFICES ASSUME ReportInit PROVE ReportInv
  OBVIOUS
<1>1. Recorded = {} /\ \A h \in Hooks : runs[h] = 0
  BY DEF ReportInit, Recorded
<1>2. Cardinality(Recorded) = 0 /\ Cardinality(Hooks) \in Nat
  BY <1>1, FS_EmptySet, HooksAssumption, FS_CardinalityType
<1>3. ReportTypeOK
  BY <1>2, HooksAssumption DEF ReportInit, ReportTypeOK, Report
<1>4. \A h \in Hooks : ReportOf(h)
  BY DEF ReportInit, ReportOf
<1> QED BY <1>3, <1>4 DEF ReportInv

\* A step that adds no run and changes the report of one hook.
LEMMA OneReport ==
  ASSUME ReportInv, NEW h \in Hooks, NEW r \in Report, NEW l \in Event \cup {None},
         report' = [report EXCEPT ![h] = r], log' = [log EXCEPT ![h] = l],
         UNCHANGED runs, mishaps' \in 0 .. MaxMishaps, ReportOf(h)'
  PROVE  ReportInv'
<1>1. ReportTypeOK'
  BY DEF ReportInv, ReportTypeOK
<1>2. ASSUME NEW g \in Hooks, g # h PROVE ReportOf(g)'
  <2>1. report'[g] = report[g] /\ log'[g] = log[g] /\ runs'[g] = runs[g] /\ ReportOf(g)
    BY <1>2 DEF ReportInv, ReportTypeOK
  <2> QED BY <2>1 DEF ReportOf, Over
<1> QED BY <1>1, <1>2 DEF ReportInv

LEMMA SameReport ==
  ASSUME ReportInv, UNCHANGED <<report, log, runs>>, mishaps' \in 0 .. MaxMishaps
  PROVE  ReportInv'
BY DEF ReportInv, ReportTypeOK, ReportOf, Over

LEMMA MishapCounts ==
  ASSUME ReportInv, NEW f, NoMishap \/ Mishap(f)
  PROVE  mishaps' \in 0 .. MaxMishaps
<1>1. mishaps \in 0 .. MaxMishaps /\ MaxMishaps \in Nat
  BY HooksAssumption DEF ReportInv, ReportTypeOK
<1>2. CASE NoMishap
  BY <1>1, <1>2 DEF NoMishap
<1>3. CASE Mishap(f)
  BY <1>1, <1>3 DEF Mishap
<1> QED BY <1>2, <1>3

LEMMA ConcludesKeeps ==
  ASSUME ReportInv, NEW h \in Hooks, NEW e \in Event, NEW late \in BOOLEAN,
         Concludes(h, e, late), mishaps' \in 0 .. MaxMishaps
  PROVE  ReportInv'
<1> DEFINE r == [pc |-> "report", event |-> e, late |-> late]
<1>1. report' = [report EXCEPT ![h] = r] /\ UNCHANGED <<log, runs>> /\ report[h].pc = "busy"
  BY DEF Concludes, Busy
<1>2. r \in Report /\ r.pc = "report" /\ r.event = e
  BY DEF Report
<1>3. ReportTypeOK /\ ReportOf(h)
  BY DEF ReportInv
<1> HIDE DEF r
<1>4. report'[h] = r /\ log' = [log EXCEPT ![h] = log[h]] /\ log[h] \in Event \cup {None}
  BY <1>1, <1>3 DEF ReportTypeOK
<1>5. ReportOf(h)'
  BY <1>1, <1>2, <1>3, <1>4 DEF ReportOf, Over
<1> QED BY <1>1, <1>2, <1>4, <1>5, OneReport

LEMMA LogsKeeps ==
  ASSUME ReportInv, NEW h \in Hooks, Logs(h)
  PROVE  ReportInv'
<1>1. /\ ReportTypeOK /\ ReportOf(h) /\ report[h] \in Report /\ report[h].pc = "report"
      /\ log[h] = None /\ report[h].event \in Event
  BY DEF ReportInv, ReportTypeOK, Logs, ReportOf
<1>2. runs[h] = 0 /\ UNCHANGED runs
  BY <1>1 DEF ReportOf, Over, Logs
<1>3. /\ mishaps' \in 0 .. MaxMishaps
      /\ log' = [log EXCEPT ![h] = report[h].event] \/ log' = [log EXCEPT ![h] = None]
  BY <1>1, HooksAssumption DEF Logs, Emits, NoMishap, Mishap, ReportTypeOK
<1>4. PICK l \in {report[h].event, None} : log' = [log EXCEPT ![h] = l]
  BY <1>3
<1>5. l \in Event \cup {None} /\ log'[h] = l
  BY <1>1, <1>4 DEF ReportTypeOK
<1>6. CASE report[h].event \in Diagnostic /\ ~report[h].late
  <2> DEFINE r == [report[h] EXCEPT !.pc = "diagnose"]
  <2>1. report' = [report EXCEPT ![h] = r]
    BY <1>6 DEF Logs
  <2>2. r \in Report /\ r.pc = "diagnose"
    BY <1>1 DEF Report
  <2> HIDE DEF r
  <2>3. report'[h] = r
    BY <1>1, <2>1 DEF ReportTypeOK
  <2>4. ReportOf(h)'
    BY <1>2, <1>4, <1>5, <1>6, <2>2, <2>3 DEF ReportOf
  <2> QED BY <1>2, <1>3, <1>4, <1>5, <2>1, <2>2, <2>4, OneReport
<1>7. CASE ~(report[h].event \in Diagnostic /\ ~report[h].late)
  <2> DEFINE r == [pc |-> "over", event |-> None, late |-> FALSE]
  <2>1. report' = [report EXCEPT ![h] = r]
    BY <1>7 DEF Logs, Ends
  <2>2. r \in Report /\ r.pc = "over"
    BY DEF Report
  <2> HIDE DEF r
  <2>3. report'[h] = r
    BY <1>1, <2>1 DEF ReportTypeOK
  <2>4. ReportOf(h)'
    BY <1>2, <2>2, <2>3 DEF ReportOf
  <2> QED BY <1>2, <1>3, <1>4, <1>5, <2>1, <2>2, <2>4, OneReport
<1> QED BY <1>6, <1>7

\* A hook that ends without a run of its own.
LEMMA EndsKeeps ==
  ASSUME ReportInv, NEW h \in Hooks, NEW pc \in {"over", "killed"}, Ends(h, pc),
         UNCHANGED <<log, runs>>, mishaps' \in 0 .. MaxMishaps
  PROVE  ReportInv'
<1> DEFINE r == [pc |-> pc, event |-> None, late |-> FALSE]
<1>1. report' = [report EXCEPT ![h] = r]
  BY DEF Ends
<1>2. r \in Report /\ r.pc = pc
  BY DEF Report
<1>3. ReportTypeOK /\ ReportOf(h)
  BY DEF ReportInv
<1> HIDE DEF r
<1>4. report'[h] = r /\ log' = [log EXCEPT ![h] = log[h]] /\ log[h] \in Event \cup {None}
  BY <1>1, <1>3 DEF ReportTypeOK
<1>5. ReportOf(h)'
  BY <1>2, <1>3, <1>4 DEF ReportOf, Over
<1> QED BY <1>1, <1>2, <1>4, <1>5, OneReport

LEMMA DiagnosesKeeps ==
  ASSUME ReportInv, NEW h \in Hooks, Diagnoses(h)
  PROVE  ReportInv'
<1>1. ReportTypeOK /\ ReportOf(h) /\ report[h].pc = "diagnose" /\ UNCHANGED <<log, mishaps>>
  BY DEF ReportInv, Diagnoses
<1>2. h \notin Recorded /\ log[h] \in Diagnostic \cup {None}
  BY <1>1 DEF ReportOf, Over, Recorded
<1> DEFINE n == Cardinality(Recorded)
<1>3. n \in Nat /\ n + 1 <= Cardinality(Hooks) /\ Cardinality(Hooks) \in Nat
  <2>1. IsFiniteSet(Recorded) /\ Recorded \cup {h} \subseteq Hooks
    BY HooksAssumption, FS_Subset DEF Recorded
  <2>2. Cardinality(Recorded \cup {h}) = n + 1
    BY <1>2, <2>1, FS_AddElement
  <2> QED BY <2>1, <2>2, HooksAssumption, FS_Subset, FS_CardinalityType
<1>4. runs' = [runs EXCEPT ![h] = n + 1]
  BY DEF Diagnoses
<1> HIDE DEF n
<1>5. report' = [report EXCEPT ![h] = [pc |-> "over", event |-> None, late |-> FALSE]]
  BY DEF Diagnoses, Ends
<1>6. report'[h].pc = "over" /\ ReportTypeOK'
  BY <1>1, <1>3, <1>4, <1>5 DEF ReportTypeOK, Report
<1>7. ASSUME NEW g \in Hooks PROVE ReportOf(g)'
  <2>1. CASE g = h
    BY <1>1, <1>2, <1>6, <2>1 DEF ReportOf, Over
  <2>2. CASE g # h
    <3>1. report'[g] = report[g] /\ log'[g] = log[g] /\ runs'[g] = runs[g] /\ ReportOf(g)
      BY <1>1, <1>4, <1>5, <2>2 DEF ReportInv, ReportTypeOK
    <3> QED BY <3>1 DEF ReportOf, Over
  <2> QED BY <2>1, <2>2
<1> QED BY <1>6, <1>7 DEF ReportInv

-----------------------------------------------------------------------------
(* What a hook and its child do.                                             *)

HookPart(h) ==
  /\ hook[h].pc \in {"ready", "select"} => child[h].pc = "none"
  /\ hook[h].pc \notin {"ready", "select"} => hook[h].k \in Contents
  /\ hook[h].pc \in {"clean", "remove"} => child[h].pc = "gone"
  /\ hook[h].pc \in {"ready", "select", "wait"} => hook[h].late = "no"
  /\ hook[h].pc = "remove" => ~Referenced(h)

ChildPart(h) ==
  /\ child[h].pc \in {"none", "start"} => temp[h] = "none"
  /\ child[h].pc \in {"prepare", "enqueue", "duplicate", "publish", "compare", "copying",
                      "unlink"} => temp[h] = "whole"
  /\ child[h].pc = "wake" => temp[h] = "none" \/ Referenced(h)
  /\ child[h].pc = "over" /\ temp[h] # "none" => Referenced(h) \/ child[h].kept
  /\ child[h].pc \in {"publish", "compare", "copying", "unlink"} => child[h].kept
  /\ child[h].pc \in {"publish", "compare", "copying", "unlink", "over"} =>
       child[h].event \in Event
  /\ child[h].kept =>
       child[h].pc \in {"publish", "compare", "copying", "unlink", "over", "gone"}

PublishedWhole(k) == failed[k] # None /\ failed[k].whole

FailedPart(h) ==
  /\ child[h].pc = "copying" => /\ failed[hook[h].k] # None /\ failed[hook[h].k].by = h
                                /\ ~failed[hook[h].k].whole
  /\ child[h].pc = "unlink" => PublishedWhole(hook[h].k)
  /\ child[h].pc = "over" /\ child[h].kept => temp[h] = "whole" \/ PublishedWhole(hook[h].k)

JobPart(h) ==
  \A k \in Contents :
    jobs[k] = h => /\ hook[h].k = k /\ temp[h] = "whole"
                   /\ child[h].pc \in {"wake", "over", "gone"}

Excused(h) == \/ hook[h].late = "no" /\ (child[h].kept \/ ChildAt(h, "gone"))
              \/ hook[h].late = "unreadable"

ReportPart(h) ==
  report[h].pc \in {"report", "diagnose", "over"} =>
    /\ child[h].pc \in {"none", "over", "gone"}
    /\ temp[h] # "none" /\ ~Referenced(h) => Excused(h)

CaptureOf(h) == HookPart(h) /\ ChildPart(h) /\ FailedPart(h) /\ JobPart(h) /\ ReportPart(h)
CaptureInv == ReportInv /\ TypeOK /\ \A h \in Hooks : CaptureOf(h)

\* What a step of g may do to the jobs and the published snapshots.
Others(g) ==
  /\ jobs' \in [Contents -> Hooks \cup {None}]
  /\ failed' \in [Contents -> Published \cup {None}]
  /\ \A k \in Contents :
       /\ jobs'[k] = jobs[k] \/ (jobs[k] = None /\ jobs'[k] = g)
       /\ failed[k] # None /\ (failed[k].whole \/ failed[k].by # g) => failed'[k] = failed[k]

-----------------------------------------------------------------------------

LEMMA OneProcess ==
  ASSUME CaptureInv, ReportInv', NEW g \in Hooks, NEW p \in Hook, NEW c \in Child,
         NEW t \in {"none", "part", "whole"},
         hook' = [hook EXCEPT ![g] = p], child' = [child EXCEPT ![g] = c],
         temp' = [temp EXCEPT ![g] = t],
         \A h \in Hooks \ {g} : report'[h] = report[h],
         Others(g), CaptureOf(g)'
  PROVE  CaptureInv'
<1>1. TypeOK'
  BY DEF CaptureInv, TypeOK, Others, ReportInv
<1>2. ASSUME NEW h \in Hooks, h # g PROVE CaptureOf(h)'
  <2>1. /\ hook'[h] = hook[h] /\ child'[h] = child[h] /\ temp'[h] = temp[h]
        /\ report'[h] = report[h] /\ hook[h] \in Hook
    BY <1>2 DEF CaptureInv, TypeOK
  <2>2. CaptureOf(h) /\ h # None
    BY HooksAssumption DEF CaptureInv
  <2>3. \A k \in Contents : jobs'[k] = h <=> jobs[k] = h
    BY <1>2, <2>2 DEF Others
  <2>4. hook[h].pc \notin {"ready", "select"} => (Referenced(h)' <=> Referenced(h))
    BY <2>1, <2>2, <2>3 DEF CaptureOf, HookPart, Referenced
  <2>5. HookPart(h)'
    BY <2>1, <2>2, <2>4 DEF CaptureOf, HookPart
  <2>6. ChildPart(h)'
    BY <2>1, <2>2, <2>4 DEF CaptureOf, ChildPart, HookPart
  <2>7. FailedPart(h)'
    BY <1>2, <2>1, <2>2 DEF CaptureOf, FailedPart, HookPart, Others, PublishedWhole
  <2>8. JobPart(h)'
    BY <2>1, <2>2, <2>3 DEF CaptureOf, JobPart
  <2>9. ReportPart(h)'
    BY <2>1, <2>2, <2>4 DEF CaptureOf, ReportPart, ChildPart, HookPart, Excused, ChildAt
  <2> QED BY <2>5, <2>6, <2>7, <2>8, <2>9 DEF CaptureOf
<1> QED BY <1>1, <1>2 DEF CaptureInv

\* A step of a child.
LEMMA OneChild ==
  ASSUME CaptureInv, NEW g \in Hooks, NEW c \in Child, NEW t \in {"none", "part", "whole"},
         child' = [child EXCEPT ![g] = c], temp' = [temp EXCEPT ![g] = t],
         ChildStep, mishaps' \in 0 .. MaxMishaps, Others(g), CaptureOf(g)'
  PROVE  CaptureInv'
<1>1. UNCHANGED <<hook, report, log, runs>> /\ hook[g] \in Hook
  BY DEF ChildStep, CaptureInv, TypeOK
<1>2. hook' = [hook EXCEPT ![g] = hook[g]]
  BY <1>1 DEF CaptureInv, TypeOK
<1>3. ReportInv'
  BY <1>1, SameReport DEF CaptureInv
<1> QED BY <1>1, <1>2, <1>3, OneProcess

\* The ways in which the record of a child changes.
LEMMA Goes ==
  ASSUME CaptureInv, NEW h \in Hooks,
         NEW pc \in {"start", "copy", "prepare", "enqueue", "duplicate", "wake", "publish",
                     "compare", "copying", "unlink", "over", "gone"},
         ChildGoes(h, pc)
  PROVE  \E c \in Child : /\ child' = [child EXCEPT ![h] = c] /\ child'[h] = c
                          /\ c.pc = pc /\ c.event = child[h].event /\ c.kept = child[h].kept
<1> DEFINE c == [child[h] EXCEPT !.pc = pc]
<1>1. child[h] \in Child /\ DOMAIN child = Hooks
  BY DEF CaptureInv, TypeOK
<1>2. c \in Child /\ c.pc = pc /\ c.event = child[h].event /\ c.kept = child[h].kept
  BY <1>1 DEF Child
<1>3. child' = [child EXCEPT ![h] = c]
  BY DEF ChildGoes
<1> HIDE DEF c
<1> QED BY <1>1, <1>2, <1>3

LEMMA AnswersWith ==
  ASSUME CaptureInv, NEW h \in Hooks, NEW e \in Event, Answers(h, e)
  PROVE  \E c \in Child : /\ child' = [child EXCEPT ![h] = c] /\ child'[h] = c
                          /\ c.pc = "over" /\ c.event = e /\ c.kept = child[h].kept
<1> DEFINE c == [child[h] EXCEPT !.pc = "over", !.event = e]
<1>1. child[h] \in Child /\ DOMAIN child = Hooks
  BY DEF CaptureInv, TypeOK
<1>2. c \in Child /\ c.pc = "over" /\ c.event = e /\ c.kept = child[h].kept
  BY <1>1 DEF Child
<1>3. child' = [child EXCEPT ![h] = c]
  BY DEF Answers
<1> HIDE DEF c
<1> QED BY <1>1, <1>2, <1>3

\* Steps that leave jobs and published snapshots alone.
LEMMA NothingShared ==
  ASSUME CaptureInv, NEW g \in Hooks, UNCHANGED <<failed, jobs>>
  PROVE  Others(g)
BY DEF CaptureInv, TypeOK, Others

LEMMA NothingHappens ==
  ASSUME CaptureInv, NoMishap
  PROVE  mishaps' \in 0 .. MaxMishaps
BY MishapCounts DEF CaptureInv

-----------------------------------------------------------------------------
(* The child.                                                              *)

LEMMA DiscardsKeeps ==
  ASSUME CaptureInv, NEW h \in Hooks, child[h].pc \in {"copy", "prepare", "enqueue"},
         Discards(h), ChildStep, NoMishap
  PROVE  CaptureInv'
<1>1. PICK c \in Child : /\ child' = [child EXCEPT ![h] = c] /\ child'[h] = c
                         /\ c.pc = "over" /\ c.event = "capture_failed"
                         /\ c.kept = child[h].kept
  BY AnswersWith DEF Discards, Event, Failure, Diagnostic
<1>2. CaptureOf(h) /\ temp' = [temp EXCEPT ![h] = "none"] /\ temp'[h] = "none"
  BY DEF CaptureInv, TypeOK, Discards
<1>3. UNCHANGED <<hook, report, failed, jobs>>
  BY DEF ChildStep, Discards
<1>4. \A k \in Contents : jobs[k] # h
  BY <1>2 DEF CaptureOf, JobPart
<1>5. ~c.kept /\ "capture_failed" \in Event
  BY <1>1, <1>2 DEF CaptureOf, ChildPart, Event, Failure, Diagnostic
<1>6. HookPart(h)'
  BY <1>1, <1>2, <1>3 DEF CaptureOf, HookPart, Referenced
<1>7. ChildPart(h)' /\ FailedPart(h)'
  BY <1>1, <1>2, <1>3, <1>5 DEF ChildPart, FailedPart
<1>8. JobPart(h)' /\ ReportPart(h)'
  BY <1>1, <1>2, <1>3, <1>4 DEF JobPart, ReportPart
<1>9. CaptureOf(h)'
  BY <1>6, <1>7, <1>8 DEF CaptureOf
<1> QED BY <1>1, <1>2, <1>3, <1>9, NothingShared, NothingHappens, OneChild

\* Only what was kept may be published.
LEMMA RetainsKeeps ==
  ASSUME CaptureInv, NEW h \in Hooks, NEW e \in Event,
         child[h].pc \in {"prepare", "enqueue"}, Retains(h, e), ChildStep, NoMishap
  PROVE  CaptureInv'
<1>1. PICK c : c = [child[h] EXCEPT !.pc = "publish", !.event = e, !.kept = TRUE]
  OBVIOUS
<1>2. child[h] \in Child /\ child' = [child EXCEPT ![h] = c] /\ child'[h] = c
  BY <1>1 DEF CaptureInv, TypeOK, Retains
<1>3. c \in Child /\ c.pc = "publish" /\ c.event = e /\ c.kept
  BY <1>1, <1>2 DEF Child
<1>4. CaptureOf(h) /\ temp' = [temp EXCEPT ![h] = temp[h]] /\ temp'[h] = temp[h]
      /\ temp[h] = "whole"
  BY DEF CaptureInv, TypeOK, Retains, spool, CaptureOf, ChildPart
<1>5. UNCHANGED <<hook, report, failed, jobs>>
  BY DEF ChildStep, Retains, spool
<1>6. \A k \in Contents : jobs[k] # h
  BY <1>4 DEF CaptureOf, JobPart
<1>7. HookPart(h)'
  BY <1>2, <1>3, <1>4, <1>5 DEF CaptureOf, HookPart, Referenced
<1>8. ChildPart(h)' /\ FailedPart(h)'
  BY <1>2, <1>3, <1>4, <1>5 DEF ChildPart, FailedPart
<1>9. JobPart(h)' /\ ReportPart(h)'
  BY <1>2, <1>3, <1>4, <1>5, <1>6 DEF JobPart, ReportPart, CaptureOf
<1>10. CaptureOf(h)'
  BY <1>7, <1>8, <1>9 DEF CaptureOf
<1> QED BY <1>2, <1>3, <1>4, <1>5, <1>10, NothingShared, NothingHappens, OneChild

LEMMA ChildStartsKeeps ==
  ASSUME CaptureInv, NEW h \in Hooks, ChildStarts(h)
  PROVE  CaptureInv'
<1>1. /\ CaptureOf(h) /\ child[h].pc = "start" /\ temp[h] = "none" /\ ~child[h].kept
      /\ UNCHANGED <<hook, report, failed, jobs>> /\ ChildStep /\ NoMishap
  BY DEF CaptureInv, ChildStarts, ChildAt, CaptureOf, ChildPart, ChildStep, spool
<1>2. \A k \in Contents : jobs[k] # h
  BY <1>1 DEF CaptureOf, JobPart
<1>3. report[h].pc \notin {"report", "diagnose", "over"}
  BY <1>1 DEF CaptureOf, ReportPart
<1>4. CASE temp' = [temp EXCEPT ![h] = "part"] /\ ChildGoes(h, "copy")
  <2>1. PICK c \in Child : /\ child' = [child EXCEPT ![h] = c] /\ child'[h] = c
                           /\ c.pc = "copy" /\ c.kept = child[h].kept
    BY <1>4, Goes
  <2>2. temp'[h] = "part"
    BY <1>4 DEF CaptureInv, TypeOK
  <2>3. HookPart(h)'
    BY <1>1, <2>1 DEF CaptureOf, HookPart, Referenced
  <2>4. CaptureOf(h)'
    BY <1>1, <1>2, <1>3, <2>1, <2>2, <2>3
       DEF CaptureOf, ChildPart, FailedPart, JobPart, ReportPart
  <2> QED BY <1>1, <1>4, <2>1, <2>4, NothingShared, NothingHappens, OneChild
<1>5. ASSUME NEW e \in {"capture_failed", "queue_unavailable"}, Answers(h, e), UNCHANGED spool
      PROVE  CaptureInv'
  <2>1. e \in Event
    BY DEF Event, Failure, Diagnostic
  <2>2. PICK c \in Child : /\ child' = [child EXCEPT ![h] = c] /\ child'[h] = c
                           /\ c.pc = "over" /\ c.event = e /\ c.kept = child[h].kept
    BY <1>5, <2>1, AnswersWith
  <2>3. temp' = [temp EXCEPT ![h] = "none"] /\ temp'[h] = "none"
    BY <1>1, <1>5 DEF CaptureInv, TypeOK, spool
  <2>4. HookPart(h)'
    BY <1>1, <2>2 DEF CaptureOf, HookPart, Referenced
  <2>5. CaptureOf(h)'
    BY <1>1, <1>2, <1>3, <2>1, <2>2, <2>3, <2>4
       DEF CaptureOf, ChildPart, FailedPart, JobPart, ReportPart
  <2> QED BY <1>1, <2>2, <2>3, <2>5, NothingShared, NothingHappens, OneChild
<1> QED BY <1>4, <1>5 DEF ChildStarts

LEMMA CopiesKeeps ==
  ASSUME CaptureInv, NEW h \in Hooks, Copies(h)
  PROVE  CaptureInv'
<1>1. /\ CaptureOf(h) /\ child[h].pc = "copy" /\ ~child[h].kept /\ ChildStep /\ NoMishap
      /\ UNCHANGED <<hook, report>>
  BY DEF CaptureInv, Copies, ChildAt, CaptureOf, ChildPart, ChildStep
<1>2. CASE temp' = [temp EXCEPT ![h] = "whole"] /\ ChildGoes(h, "prepare")
           /\ UNCHANGED <<failed, jobs>>
  <2>1. PICK c \in Child : /\ child' = [child EXCEPT ![h] = c] /\ child'[h] = c
                           /\ c.pc = "prepare" /\ c.kept = child[h].kept
    BY <1>2, Goes
  <2>2. temp'[h] = "whole"
    BY <1>2 DEF CaptureInv, TypeOK
  <2>3. HookPart(h)'
    BY <1>1, <1>2, <2>1 DEF CaptureOf, HookPart, Referenced
  <2>4. CaptureOf(h)'
    BY <1>1, <1>2, <2>1, <2>2, <2>3
       DEF CaptureOf, ChildPart, FailedPart, JobPart, ReportPart
  <2> QED BY <1>1, <1>2, <2>1, <2>4, NothingShared, NothingHappens, OneChild
<1> QED BY <1>1, <1>2, DiscardsKeeps DEF Copies

LEMMA PreparesKeeps ==
  ASSUME CaptureInv, NEW h \in Hooks, Prepares(h)
  PROVE  CaptureInv'
<1>1. /\ CaptureOf(h) /\ child[h].pc = "prepare" /\ ~child[h].kept /\ ChildStep /\ NoMishap
      /\ UNCHANGED <<hook, report>>
  BY DEF CaptureInv, Prepares, ChildAt, CaptureOf, ChildPart, ChildStep
<1>2. CASE ChildGoes(h, "enqueue") /\ UNCHANGED <<spool, jobs>>
  <2>1. PICK c \in Child : /\ child' = [child EXCEPT ![h] = c] /\ child'[h] = c
                           /\ c.pc = "enqueue" /\ c.kept = child[h].kept
    BY <1>2, Goes
  <2>2. /\ UNCHANGED <<failed, jobs>> /\ temp[h] \in {"none", "part", "whole"}
        /\ temp' = [temp EXCEPT ![h] = temp[h]] /\ temp'[h] = temp[h]
    BY <1>2 DEF CaptureInv, TypeOK, spool
  <2>3. HookPart(h)'
    BY <1>1, <2>1, <2>2 DEF CaptureOf, HookPart, Referenced
  <2>4. CaptureOf(h)'
    BY <1>1, <2>1, <2>2, <2>3
       DEF CaptureOf, ChildPart, FailedPart, JobPart, ReportPart
  <2> QED BY <1>1, <2>1, <2>2, <2>4, NothingShared, NothingHappens, OneChild
<1>3. ASSUME NEW e \in {"capture_failed", "queue_unavailable"}, Retains(h, e)
      PROVE  CaptureInv'
  BY <1>1, <1>3, RetainsKeeps DEF Event, Failure, Diagnostic
<1> QED BY <1>1, <1>2, <1>3, DiscardsKeeps DEF Prepares

LEMMA EnqueuesKeeps ==
  ASSUME CaptureInv, NEW h \in Hooks, Enqueues(h)
  PROVE  CaptureInv'
<1>1. /\ CaptureOf(h) /\ child[h].pc = "enqueue" /\ temp[h] = "whole" /\ ~child[h].kept
      /\ ChildStep /\ NoMishap /\ UNCHANGED <<hook, report>>
  BY DEF CaptureInv, Enqueues, ChildAt, CaptureOf, ChildPart, ChildStep
<1>2. /\ temp' = [temp EXCEPT ![h] = temp[h]] \/ Discards(h) \/ Retains(h, "queue_unavailable")
      /\ \A k \in Contents : jobs[k] # h
      /\ hook[h].k \in Contents /\ hook[h].pc \notin {"ready", "select", "clean", "remove"}
      /\ report[h].pc \notin {"report", "diagnose", "over"}
  BY <1>1 DEF CaptureInv, TypeOK, Enqueues, spool, CaptureOf, HookPart, JobPart, ReportPart
<1>3. CASE /\ jobs[hook[h].k] = None /\ jobs' = [jobs EXCEPT ![hook[h].k] = h]
           /\ ChildGoes(h, "wake") /\ UNCHANGED spool
  <2>1. PICK c \in Child : /\ child' = [child EXCEPT ![h] = c] /\ child'[h] = c
                           /\ c.pc = "wake" /\ c.kept = child[h].kept
    BY <1>3, Goes
  <2>2. /\ temp' = [temp EXCEPT ![h] = temp[h]] /\ temp'[h] = temp[h] /\ UNCHANGED failed
    BY <1>3 DEF CaptureInv, TypeOK, spool
  <2>3. \A k \in Contents : jobs'[k] = IF k = hook[h].k THEN h ELSE jobs[k]
    BY <1>3 DEF CaptureInv, TypeOK
  <2>4. Others(h)
    BY <1>2, <1>3, <2>2, <2>3 DEF Others, CaptureInv, TypeOK
  <2>5. Referenced(h)' /\ JobPart(h)'
    BY <1>1, <1>2, <2>1, <2>2, <2>3 DEF Referenced, JobPart
  <2>6. HookPart(h)'
    BY <1>1, <1>2, <2>1 DEF CaptureOf, HookPart
  <2>7. CaptureOf(h)'
    BY <1>1, <1>2, <2>1, <2>2, <2>5, <2>6 DEF CaptureOf, ChildPart, FailedPart, ReportPart
  <2> QED BY <1>1, <2>1, <2>2, <2>4, <2>7, NothingHappens, OneChild
<1>4. CASE ChildGoes(h, "duplicate") /\ UNCHANGED <<spool, jobs>>
  <2>1. PICK c \in Child : /\ child' = [child EXCEPT ![h] = c] /\ child'[h] = c
                           /\ c.pc = "duplicate" /\ c.kept = child[h].kept
    BY <1>4, Goes
  <2>2. /\ UNCHANGED <<failed, jobs>>
        /\ temp' = [temp EXCEPT ![h] = temp[h]] /\ temp'[h] = temp[h]
    BY <1>4 DEF CaptureInv, TypeOK, spool
  <2>3. HookPart(h)'
    BY <1>1, <2>1, <2>2 DEF CaptureOf, HookPart, Referenced
  <2>4. CaptureOf(h)'
    BY <1>1, <1>2, <2>1, <2>2, <2>3 DEF CaptureOf, ChildPart, FailedPart, JobPart, ReportPart
  <2> QED BY <1>1, <2>1, <2>2, <2>4, NothingShared, NothingHappens, OneChild
<1>5. CASE Retains(h, "queue_unavailable")
  BY <1>1, <1>5, RetainsKeeps DEF Event, Failure
<1> QED BY <1>1, <1>3, <1>4, <1>5, DiscardsKeeps DEF Enqueues

LEMMA RemovesDuplicateKeeps ==
  ASSUME CaptureInv, NEW h \in Hooks, RemovesDuplicate(h)
  PROVE  CaptureInv'
<1>1. /\ CaptureOf(h) /\ child[h].pc = "duplicate" /\ ~child[h].kept
      /\ ChildStep /\ NoMishap /\ UNCHANGED <<hook, report, failed, jobs>>
      /\ temp' = [temp EXCEPT ![h] = "none"] /\ temp'[h] = "none"
  BY DEF CaptureInv, TypeOK, RemovesDuplicate, ChildAt, CaptureOf, ChildPart, ChildStep
<1>2. PICK c \in Child : /\ child' = [child EXCEPT ![h] = c] /\ child'[h] = c
                         /\ c.pc = "wake" /\ c.kept = child[h].kept
  BY Goes DEF RemovesDuplicate
<1>3. \A k \in Contents : jobs[k] # h
  BY <1>1 DEF CaptureOf, JobPart
<1>4. HookPart(h)'
  BY <1>1, <1>2 DEF CaptureOf, HookPart, Referenced
<1>5. CaptureOf(h)'
  BY <1>1, <1>2, <1>3, <1>4 DEF CaptureOf, ChildPart, FailedPart, JobPart, ReportPart
<1> QED BY <1>1, <1>2, <1>5, NothingShared, NothingHappens, OneChild

LEMMA WakesKeeps ==
  ASSUME CaptureInv, NEW h \in Hooks, Wakes(h)
  PROVE  CaptureInv'
<1>1. /\ CaptureOf(h) /\ child[h].pc = "wake" /\ ~child[h].kept
      /\ ChildStep /\ NoMishap /\ UNCHANGED <<hook, report, failed, jobs>>
      /\ temp' = [temp EXCEPT ![h] = temp[h]] /\ temp'[h] = temp[h]
      /\ temp[h] \in {"none", "part", "whole"}
  BY DEF CaptureInv, TypeOK, Wakes, ChildAt, CaptureOf, ChildPart, ChildStep, spool
<1>2. "capture_succeeded" \in Event
  BY DEF Event
<1>3. PICK c \in Child : /\ child' = [child EXCEPT ![h] = c] /\ child'[h] = c
                         /\ c.pc = "over" /\ c.event = "capture_succeeded"
                         /\ c.kept = child[h].kept
  BY <1>2, AnswersWith DEF Wakes
<1>4. HookPart(h)' /\ (Referenced(h)' <=> Referenced(h))
  BY <1>1, <1>3 DEF CaptureOf, HookPart, Referenced
<1>5. ChildPart(h)' /\ FailedPart(h)' /\ JobPart(h)' /\ ReportPart(h)'
  BY <1>1, <1>2, <1>3, <1>4 DEF CaptureOf, ChildPart, FailedPart, JobPart, ReportPart
<1>6. CaptureOf(h)'
  BY <1>4, <1>5 DEF CaptureOf
<1> QED BY <1>1, <1>3, <1>6, NothingShared, NothingHappens, OneChild

\* A name that is taken stays as it is.
LEMMA PublishesKeeps ==
  ASSUME CaptureInv, NEW h \in Hooks, Publishes(h)
  PROVE  CaptureInv'
<1> DEFINE k == hook[h].k
<1>1. /\ CaptureOf(h) /\ child[h].pc = "publish" /\ ChildStep
      /\ UNCHANGED <<hook, report, jobs>>
      /\ temp' = [temp EXCEPT ![h] = temp[h]] /\ temp'[h] = temp[h] /\ temp[h] = "whole"
      /\ failed \in [Contents -> Published \cup {None}]
  BY DEF CaptureInv, TypeOK, Publishes, ChildAt, CaptureOf, ChildPart, ChildStep
<1>2. /\ child[h].kept /\ child[h].event \in Event /\ k \in Contents
      /\ report[h].pc \notin {"report", "diagnose", "over"}
      /\ \A j \in Contents : jobs[j] # h
  BY <1>1 DEF CaptureOf, ChildPart, HookPart, JobPart, ReportPart
<1>3. mishaps' \in 0 .. MaxMishaps
  BY MishapCounts DEF Publishes, CaptureInv
<1>4. PICK pc \in {"unlink", "copying", "compare"} :
        /\ ChildGoes(h, pc)
        /\ pc = "compare" => UNCHANGED failed
        /\ pc # "compare" => failed[k] = None
        /\ pc = "unlink" =>
             failed' = [failed EXCEPT ![k] = [by |-> h, linked |-> TRUE, whole |-> TRUE]]
        /\ pc = "copying" =>
             failed' = [failed EXCEPT ![k] = [by |-> h, linked |-> FALSE, whole |-> FALSE]]
  BY DEF Publishes
<1>5. PICK c \in Child : /\ child' = [child EXCEPT ![h] = c] /\ child'[h] = c
                         /\ c.pc = pc /\ c.kept = child[h].kept /\ c.event = child[h].event
  BY <1>4, Goes
<1>6. PICK f \in Published \cup {None} :
        /\ failed' = [failed EXCEPT ![k] = f]
        /\ pc = "compare" => f = failed[k]
        /\ pc = "unlink" => f # None /\ f.whole
        /\ pc = "copying" => f # None /\ f.by = h /\ ~f.whole
  <2>1. failed = [failed EXCEPT ![k] = failed[k]] /\ failed[k] \in Published \cup {None}
    BY <1>1, <1>2
  <2>2. \A b \in BOOLEAN : [by |-> h, linked |-> b, whole |-> b] \in Published
    BY DEF Published
  <2>3. \A b \in BOOLEAN : [by |-> h, linked |-> b, whole |-> b] # None
    BY <2>2, CaptureAssumption
  <2>4. CASE pc = "compare"
    BY <1>4, <2>1, <2>4
  <2>5. CASE pc # "compare"
    <3>1. PICK b \in BOOLEAN :
            /\ failed' = [failed EXCEPT ![k] = [by |-> h, linked |-> b, whole |-> b]]
            /\ pc = "unlink" => b
            /\ pc = "copying" => ~b
      BY <1>4, <2>5
    <3> DEFINE f == [by |-> h, linked |-> b, whole |-> b]
    <3>2. f \in Published /\ f # None /\ f.by = h /\ f.whole = b
      BY <2>2, <2>3
    <3>3. failed' = [failed EXCEPT ![k] = f]
      BY <3>1
    <3> HIDE DEF f
    <3> QED BY <2>5, <3>1, <3>2, <3>3
  <2> QED BY <2>4, <2>5
<1>7. /\ failed'[k] = f /\ k' = k /\ \A j \in Contents \ {k} : failed'[j] = failed[j]
      /\ failed' \in [Contents -> Published \cup {None}]
  BY <1>1, <1>2, <1>6
<1>8. Others(h)
  BY <1>1, <1>4, <1>6, <1>7 DEF Others, CaptureInv, TypeOK
<1>9. HookPart(h)'
  BY <1>1, <1>5 DEF CaptureOf, HookPart, Referenced
<1>10. ChildPart(h)' /\ JobPart(h)' /\ ReportPart(h)'
  BY <1>1, <1>2, <1>5 DEF ChildPart, JobPart, ReportPart
<1>11. FailedPart(h)'
  BY <1>5, <1>6, <1>7 DEF FailedPart, PublishedWhole
<1>12. CaptureOf(h)'
  BY <1>9, <1>10, <1>11 DEF CaptureOf
<1> QED BY <1>1, <1>3, <1>5, <1>8, <1>12, OneChild

LEMMA CopyPublishedKeeps ==
  ASSUME CaptureInv, NEW h \in Hooks, CopyPublished(h)
  PROVE  CaptureInv'
<1>1. /\ CaptureOf(h) /\ child[h].pc = "copying" /\ ChildStep /\ NoMishap
      /\ UNCHANGED <<hook, report, jobs>>
      /\ temp' = [temp EXCEPT ![h] = temp[h]] /\ temp'[h] = temp[h] /\ temp[h] = "whole"
      /\ failed \in [Contents -> Published \cup {None}]
  BY DEF CaptureInv, TypeOK, CopyPublished, ChildAt, CaptureOf, ChildPart, ChildStep
<1>2. PICK k \in Contents : k = hook[h].k
  BY <1>1 DEF CaptureOf, HookPart
<1>3. /\ child[h].kept /\ child[h].event \in Event
      /\ failed[k] \in Published /\ failed[k].by = h /\ ~failed[k].whole
      /\ report[h].pc \notin {"report", "diagnose", "over"}
      /\ \A j \in Contents : jobs[j] # h
  BY <1>1, <1>2 DEF CaptureOf, ChildPart, FailedPart, JobPart, ReportPart
<1>4. PICK pc \in {"unlink", "over"}, f \in Published \cup {None} :
        /\ ChildGoes(h, pc)
        /\ failed' = [failed EXCEPT ![k] = f]
        /\ pc = "unlink" => f # None /\ f.whole
  <2>1. CASE failed' = [failed EXCEPT ![k].whole = TRUE] /\ ChildGoes(h, "unlink")
    <3> DEFINE f == [failed[k] EXCEPT !.whole = TRUE]
    <3>1. f \in Published /\ f.whole
      BY <1>3 DEF Published
    <3>2. failed' = [failed EXCEPT ![k] = f]
      BY <2>1
    <3> HIDE DEF f
    <3> QED BY <2>1, <3>1, <3>2, CaptureAssumption
  <2>2. CASE failed' = [failed EXCEPT ![k] = None] /\ ChildGoes(h, "over")
    BY <2>2
  <2> QED BY <1>2, <2>1, <2>2 DEF CopyPublished
<1>5. PICK c \in Child : /\ child' = [child EXCEPT ![h] = c] /\ child'[h] = c
                         /\ c.pc = pc /\ c.kept = child[h].kept /\ c.event = child[h].event
  BY <1>4, Goes
<1>6. /\ failed'[k] = f /\ hook'[h].k = k
      /\ \A j \in Contents \ {k} : failed'[j] = failed[j]
      /\ failed' \in [Contents -> Published \cup {None}]
  BY <1>1, <1>2, <1>4
<1>7. Others(h)
  BY <1>1, <1>3, <1>6 DEF Others, CaptureInv, TypeOK
<1>8. HookPart(h)'
  BY <1>1, <1>4, <1>5 DEF CaptureOf, HookPart, Referenced
<1>9. ChildPart(h)' /\ JobPart(h)' /\ ReportPart(h)'
  BY <1>1, <1>3, <1>4, <1>5 DEF ChildPart, JobPart, ReportPart
<1>10. FailedPart(h)'
  BY <1>1, <1>4, <1>5, <1>6 DEF FailedPart, PublishedWhole
<1>11. CaptureOf(h)'
  BY <1>8, <1>9, <1>10 DEF CaptureOf
<1> QED BY <1>1, <1>5, <1>7, <1>11, NothingHappens, OneChild

LEMMA ComparesKeeps ==
  ASSUME CaptureInv, NEW h \in Hooks, Compares(h)
  PROVE  CaptureInv'
<1>1. /\ CaptureOf(h) /\ child[h].pc = "compare" /\ ChildStep /\ NoMishap
      /\ UNCHANGED <<hook, report, failed, jobs>>
      /\ temp' = [temp EXCEPT ![h] = temp[h]] /\ temp'[h] = temp[h] /\ temp[h] = "whole"
  BY DEF CaptureInv, TypeOK, Compares, ChildAt, CaptureOf, ChildPart, ChildStep, spool
<1>2. PICK pc \in {"unlink", "over"} :
        ChildGoes(h, pc) /\ (pc = "unlink" => PublishedWhole(hook[h].k))
  BY DEF Compares, Valid, PublishedWhole
<1>3. PICK c \in Child : /\ child' = [child EXCEPT ![h] = c] /\ child'[h] = c
                         /\ c.pc = pc /\ c.kept = child[h].kept /\ c.event = child[h].event
  BY <1>2, Goes
<1>4. /\ child[h].kept /\ child[h].event \in Event
      /\ report[h].pc \notin {"report", "diagnose", "over"}
      /\ \A j \in Contents : jobs[j] # h
  BY <1>1 DEF CaptureOf, ChildPart, JobPart, ReportPart
<1>5. HookPart(h)'
  BY <1>1, <1>2, <1>3 DEF CaptureOf, HookPart, Referenced
<1>6. ChildPart(h)' /\ JobPart(h)' /\ ReportPart(h)'
  BY <1>1, <1>2, <1>3, <1>4 DEF ChildPart, JobPart, ReportPart
<1>7. FailedPart(h)'
  BY <1>1, <1>2, <1>3 DEF FailedPart, PublishedWhole
<1>8. CaptureOf(h)'
  BY <1>5, <1>6, <1>7 DEF CaptureOf
<1> QED BY <1>1, <1>3, <1>8, NothingShared, NothingHappens, OneChild

LEMMA UnlinksKeeps ==
  ASSUME CaptureInv, NEW h \in Hooks, Unlinks(h)
  PROVE  CaptureInv'
<1>1. /\ CaptureOf(h) /\ child[h].pc = "unlink" /\ ChildStep /\ NoMishap
      /\ UNCHANGED <<hook, report, failed, jobs>>
      /\ temp' = [temp EXCEPT ![h] = "none"] /\ temp'[h] = "none"
  BY DEF CaptureInv, TypeOK, Unlinks, ChildAt, CaptureOf, ChildPart, ChildStep
<1>2. PICK c \in Child : /\ child' = [child EXCEPT ![h] = c] /\ child'[h] = c
                         /\ c.pc = "over" /\ c.kept = child[h].kept
                         /\ c.event = child[h].event
  BY Goes DEF Unlinks
<1>3. /\ child[h].kept /\ child[h].event \in Event /\ PublishedWhole(hook[h].k)
      /\ \A j \in Contents : jobs[j] # h
  BY <1>1 DEF CaptureOf, ChildPart, FailedPart, JobPart
<1>4. HookPart(h)'
  BY <1>1, <1>2 DEF CaptureOf, HookPart, Referenced
<1>5. ChildPart(h)' /\ JobPart(h)' /\ ReportPart(h)'
  BY <1>1, <1>2, <1>3 DEF ChildPart, JobPart, ReportPart
<1>6. FailedPart(h)'
  BY <1>1, <1>2, <1>3 DEF FailedPart, PublishedWhole
<1>7. CaptureOf(h)'
  BY <1>4, <1>5, <1>6 DEF CaptureOf
<1> QED BY <1>1, <1>2, <1>7, NothingShared, NothingHappens, OneChild

LEMMA ChildKeeps ==
  ASSUME CaptureInv, NEW h \in Hooks, ChildWorks(h)
  PROVE  CaptureInv'
BY ChildStartsKeeps, CopiesKeeps, PreparesKeeps, EnqueuesKeeps, RemovesDuplicateKeeps,
   WakesKeeps, PublishesKeeps, CopyPublishedKeeps, ComparesKeeps, UnlinksKeeps
   DEF ChildWorks

-----------------------------------------------------------------------------
(* The hooks.                                                              *)

LEMMA Concluded ==
  ASSUME CaptureInv, NEW h \in Hooks, NEW e \in Event, NEW late \in BOOLEAN,
         Concludes(h, e, late), mishaps' \in 0 .. MaxMishaps
  PROVE  /\ ReportInv' /\ report[h].pc = "busy"
         /\ \A g \in Hooks \ {h} : report'[g] = report[g]
<1>1. ReportInv'
  BY ConcludesKeeps DEF CaptureInv
<1> QED BY <1>1 DEF Concludes, Busy, CaptureInv, ReportInv, ReportTypeOK

\* A step of the report alone.
LEMMA OneReporter ==
  ASSUME CaptureInv, NEW h \in Hooks, UNCHANGED captureVars, ReportInv',
         \A g \in Hooks \ {h} : report'[g] = report[g],
         report'[h].pc \in {"report", "diagnose", "over"} =>
           /\ child[h].pc \in {"none", "over", "gone"}
           /\ temp[h] # "none" /\ ~Referenced(h) => Excused(h)
  PROVE  CaptureInv'
<1>1. /\ hook[h] \in Hook /\ hook' = [hook EXCEPT ![h] = hook[h]]
      /\ child[h] \in Child /\ child' = [child EXCEPT ![h] = child[h]]
      /\ temp[h] \in {"none", "part", "whole"} /\ temp' = [temp EXCEPT ![h] = temp[h]]
      /\ UNCHANGED <<hook, child, temp, failed, jobs>> /\ CaptureOf(h)
  BY DEF CaptureInv, TypeOK, captureVars
<1>2. HookPart(h)' /\ ChildPart(h)' /\ FailedPart(h)' /\ JobPart(h)'
  BY <1>1 DEF CaptureOf, HookPart, ChildPart, FailedPart, JobPart, PublishedWhole, Referenced
<1>3. ReportPart(h)'
  BY <1>1 DEF ReportPart, Referenced, Excused, ChildAt
<1>4. CaptureOf(h)'
  BY <1>2, <1>3 DEF CaptureOf
<1> QED BY <1>1, <1>4, NothingShared, OneProcess

\* A step of the hook that leaves its child, its report and the spool alone.
LEMMA OneHook ==
  ASSUME CaptureInv, NEW h \in Hooks, NEW p \in Hook, hook' = [hook EXCEPT ![h] = p],
         UNCHANGED <<child, temp, failed, jobs, reportVars>>, CaptureOf(h)'
  PROVE  CaptureInv'
<1>1. /\ child[h] \in Child /\ child' = [child EXCEPT ![h] = child[h]]
      /\ temp[h] \in {"none", "part", "whole"} /\ temp' = [temp EXCEPT ![h] = temp[h]]
  BY DEF CaptureInv, TypeOK
<1>2. UNCHANGED <<report, log, runs, mishaps>>
  BY DEF reportVars
<1>3. ReportInv'
  BY <1>2, SameReport DEF CaptureInv, ReportInv, ReportTypeOK
<1> QED BY <1>1, <1>2, <1>3, NothingShared, OneProcess

LEMMA BeginsKeeps ==
  ASSUME CaptureInv, NEW h \in Hooks, NEW codex \in BOOLEAN, Begins(h, codex)
  PROVE  CaptureInv'
<1>1. /\ CaptureOf(h) /\ report[h].pc = "busy" /\ hook[h].pc = "ready" /\ hook[h] \in Hook
      /\ child[h].pc = "none" /\ temp[h] = "none"
      /\ UNCHANGED <<child, temp, failed, jobs>>
  BY DEF CaptureInv, TypeOK, Begins, HookAt, Busy, CaptureOf, HookPart, ChildPart, spool
<1>2. ASSUME NEW e \in {"input_failed", "queue_unavailable"}, Concludes(h, e, FALSE),
             NoMishap, UNCHANGED hook
      PROVE  CaptureInv'
  <2>1. e \in Event /\ UNCHANGED captureVars
    BY <1>1, <1>2 DEF Event, Failure, Diagnostic, captureVars
  <2> QED BY <1>1, <1>2, <2>1, NothingHappens, Concluded, OneReporter
<1>3. CASE /\ hook' = [hook EXCEPT ![h].pc = "select", ![h].codex = codex]
           /\ UNCHANGED reportVars
  <2> DEFINE q == [hook[h] EXCEPT !.pc = "select", !.codex = codex]
  <2>1. q \in Hook /\ q.pc = "select" /\ q.late = hook[h].late
    BY <1>1 DEF Hook
  <2>2. hook' = [hook EXCEPT ![h] = q]
    BY <1>3
  <2> HIDE DEF q
  <2>3. PICK p \in Hook : /\ hook' = [hook EXCEPT ![h] = p] /\ hook'[h] = p
                          /\ p.pc = "select" /\ p.late = hook[h].late
    BY <2>1, <2>2 DEF CaptureInv, TypeOK
  <2>4. \A k \in Contents : jobs[k] # h
    BY <1>1 DEF CaptureOf, JobPart
  <2>5. HookPart(h)'
    BY <1>1, <2>3 DEF CaptureOf, HookPart
  <2>6. ChildPart(h)' /\ FailedPart(h)' /\ JobPart(h)'
    BY <1>1, <2>4 DEF CaptureOf, ChildPart, FailedPart, JobPart
  <2>7. ReportPart(h)'
    BY <1>1 DEF ReportPart
  <2>8. CaptureOf(h)'
    BY <2>5, <2>6, <2>7 DEF CaptureOf
  <2> QED BY <1>1, <1>3, <2>3, <2>8, OneHook
<1> QED BY <1>2, <1>3 DEF Begins

LEMMA SelectsNothingKeeps ==
  ASSUME CaptureInv, NEW h \in Hooks, SelectsNothing(h)
  PROVE  CaptureInv'
<1>1. /\ UNCHANGED captureVars /\ child[h].pc = "none" /\ temp[h] = "none"
  BY DEF CaptureInv, SelectsNothing, HookAt, CaptureOf, HookPart, ChildPart
<1>2. CASE Skips(h)
  <2>1. Ends(h, "over") /\ UNCHANGED <<log, runs>> /\ NoMishap
    BY <1>2 DEF Skips, NoMishap
  <2>2. ReportInv'
    BY <2>1, EndsKeeps, NothingHappens DEF CaptureInv
  <2>3. \A g \in Hooks \ {h} : report'[g] = report[g]
    BY <2>1 DEF Ends, CaptureInv, ReportInv, ReportTypeOK
  <2> QED BY <1>1, <2>2, <2>3, OneReporter
<1>3. CASE Concludes(h, "capture_failed", FALSE) /\ NoMishap
  <2>1. "capture_failed" \in Event
    BY DEF Event, Failure, Diagnostic
  <2> QED BY <1>1, <1>3, <2>1, NothingHappens, Concluded, OneReporter
<1> QED BY <1>2, <1>3 DEF SelectsNothing

LEMMA StartsChildKeeps ==
  ASSUME CaptureInv, NEW h \in Hooks, StartsChild(h)
  PROVE  CaptureInv'
<1>1. /\ CaptureOf(h) /\ report[h].pc = "busy" /\ hook[h].pc = "select" /\ hook[h] \in Hook
      /\ child[h].pc = "none" /\ temp[h] = "none" /\ temp' = [temp EXCEPT ![h] = "none"]
      /\ ~child[h].kept /\ hook[h].late = "no"
      /\ UNCHANGED <<temp, failed, jobs, report, log, runs, mishaps>>
  BY DEF CaptureInv, TypeOK, StartsChild, HookAt, Busy, CaptureOf, HookPart, ChildPart,
         spool, reportVars
<1>2. PICK k \in Contents : hook' = [hook EXCEPT ![h].pc = "wait", ![h].k = k]
  BY DEF StartsChild
<1>3. PICK p \in Hook : /\ hook' = [hook EXCEPT ![h] = p] /\ hook'[h] = p
                        /\ p.pc = "wait" /\ p.k = k /\ p.late = hook[h].late
  <2> DEFINE q == [hook[h] EXCEPT !.pc = "wait", !.k = k]
  <2>1. q \in Hook /\ q.pc = "wait" /\ q.k = k /\ q.late = hook[h].late
    BY <1>1 DEF Hook
  <2>2. hook' = [hook EXCEPT ![h] = q]
    BY <1>2
  <2> HIDE DEF q
  <2> QED BY <2>1, <2>2 DEF CaptureInv, TypeOK
<1>4. PICK c \in Child : /\ child' = [child EXCEPT ![h] = c] /\ child'[h] = c
                         /\ c.pc = "start" /\ c.kept = child[h].kept
  BY Goes DEF StartsChild
<1>5. \A j \in Contents : jobs[j] # h
  BY <1>1 DEF CaptureOf, JobPart
<1>6. HookPart(h)' /\ ChildPart(h)'
  BY <1>1, <1>3, <1>4 DEF HookPart, ChildPart
<1>7. FailedPart(h)' /\ JobPart(h)' /\ ReportPart(h)'
  BY <1>1, <1>4, <1>5 DEF FailedPart, JobPart, ReportPart
<1>8. CaptureOf(h)'
  BY <1>6, <1>7 DEF CaptureOf
<1>9. ReportInv'
  BY <1>1, SameReport DEF CaptureInv, ReportInv, ReportTypeOK
<1> QED BY <1>1, <1>3, <1>4, <1>8, <1>9, NothingShared, OneProcess

LEMMA ReceivesKeeps ==
  ASSUME CaptureInv, NEW h \in Hooks, Receives(h)
  PROVE  CaptureInv'
<1>1. /\ CaptureOf(h) /\ child[h].pc = "over" /\ hook[h].pc = "wait"
      /\ UNCHANGED captureVars /\ Concludes(h, child[h].event, FALSE) /\ NoMishap
  BY DEF CaptureInv, Receives, HookAt, ChildAt
<1>2. /\ child[h].event \in Event /\ hook[h].late = "no"
      /\ temp[h] # "none" /\ ~Referenced(h) => child[h].kept
  BY <1>1 DEF CaptureOf, HookPart, ChildPart
<1>3. temp[h] # "none" /\ ~Referenced(h) => Excused(h)
  BY <1>2 DEF Excused
<1> QED BY <1>1, <1>2, <1>3, NothingHappens, Concluded, OneReporter

LEMMA KillsKeeps ==
  ASSUME CaptureInv, NEW h \in Hooks, Kills(h)
  PROVE  CaptureInv'
<1>1. /\ CaptureOf(h) /\ report[h].pc = "busy" /\ hook[h].pc = "wait" /\ hook[h] \in Hook
      /\ hook[h].k \in Contents /\ child[h].pc \notin {"none", "over", "gone"}
      /\ temp[h] \in {"none", "part", "whole"} /\ temp' = [temp EXCEPT ![h] = temp[h]]
      /\ UNCHANGED <<temp, failed, jobs, report, log, runs, mishaps>>
  BY DEF CaptureInv, TypeOK, Kills, HookAt, Busy, Alive, CaptureOf, HookPart, spool, reportVars
<1>2. PICK p \in Hook : /\ hook' = [hook EXCEPT ![h] = p] /\ hook'[h] = p
                        /\ p.pc = "clean" /\ p.k = hook[h].k
  <2> DEFINE q == [hook[h] EXCEPT !.pc = "clean", !.late = "timeout"]
  <2>1. q \in Hook /\ q.pc = "clean" /\ q.k = hook[h].k
    BY <1>1 DEF Hook
  <2>2. hook' = [hook EXCEPT ![h] = q]
    BY DEF Kills
  <2> HIDE DEF q
  <2> QED BY <2>1, <2>2 DEF CaptureInv, TypeOK
<1>3. PICK c \in Child : /\ child' = [child EXCEPT ![h] = c] /\ child'[h] = c
                         /\ c.pc = "gone"
  BY Goes DEF Kills
<1>4. HookPart(h)' /\ ChildPart(h)'
  BY <1>1, <1>2, <1>3 DEF HookPart, ChildPart
<1>5. FailedPart(h)' /\ JobPart(h)' /\ ReportPart(h)'
  BY <1>1, <1>2, <1>3 DEF FailedPart, JobPart, ReportPart, CaptureOf
<1>6. CaptureOf(h)'
  BY <1>4, <1>5 DEF CaptureOf
<1>7. ReportInv'
  BY <1>1, SameReport DEF CaptureInv, ReportInv, ReportTypeOK
<1> QED BY <1>1, <1>2, <1>3, <1>6, <1>7, NothingShared, OneProcess

\* What is removed was not referenced when the hook looked, and its child is gone.
LEMMA LooksKeeps ==
  ASSUME CaptureInv, NEW h \in Hooks, Looks(h)
  PROVE  CaptureInv'
<1>1. /\ CaptureOf(h) /\ report[h].pc = "busy" /\ hook[h].pc = "clean" /\ hook[h] \in Hook
      /\ hook[h].k \in Contents /\ child[h].pc = "gone"
      /\ child[h] \in Child /\ child' = [child EXCEPT ![h] = child[h]]
      /\ temp[h] \in {"none", "part", "whole"} /\ temp' = [temp EXCEPT ![h] = temp[h]]
      /\ UNCHANGED <<child, temp, failed, jobs>> /\ "capture_failed" \in Event
  BY DEF CaptureInv, TypeOK, Looks, HookAt, Busy, CaptureOf, HookPart, spool, Event, Failure,
         Diagnostic
<1>2. CASE /\ ~Referenced(h) /\ hook' = [hook EXCEPT ![h].pc = "remove"]
           /\ UNCHANGED reportVars
  <2> DEFINE q == [hook[h] EXCEPT !.pc = "remove"]
  <2>1. q \in Hook /\ q.pc = "remove" /\ q.k = hook[h].k
    BY <1>1 DEF Hook
  <2>2. hook' = [hook EXCEPT ![h] = q]
    BY <1>2
  <2> HIDE DEF q
  <2>3. PICK p \in Hook : /\ hook' = [hook EXCEPT ![h] = p] /\ hook'[h] = p
                          /\ p.pc = "remove" /\ p.k = hook[h].k
    BY <2>1, <2>2 DEF CaptureInv, TypeOK
  <2>4. HookPart(h)' /\ ChildPart(h)'
    BY <1>1, <1>2, <2>3 DEF HookPart, ChildPart, Referenced, CaptureOf
  <2>5. FailedPart(h)' /\ JobPart(h)'
    BY <1>1, <2>3 DEF FailedPart, JobPart, CaptureOf
  <2>6. ReportPart(h)'
    BY <1>1, <1>2 DEF ReportPart, reportVars
  <2>7. CaptureOf(h)'
    BY <2>4, <2>5, <2>6 DEF CaptureOf
  <2> QED BY <1>1, <1>2, <2>3, <2>7, OneHook
<1>3. CASE /\ temp[h] = "none" \/ Referenced(h)
           /\ TimesOut(h) /\ NoMishap /\ UNCHANGED hook
  <2>1. UNCHANGED captureVars
    BY <1>1, <1>3 DEF captureVars
  <2> QED BY <1>1, <1>3, <2>1, NothingHappens, Concluded, OneReporter DEF TimesOut
<1>4. CASE TimesOut(h) /\ Mishap("unreadable") /\ hook' = [hook EXCEPT ![h].late = "unreadable"]
  <2> DEFINE q == [hook[h] EXCEPT !.late = "unreadable"]
  <2>1. q \in Hook /\ q.pc = "clean" /\ q.k = hook[h].k /\ q.late = "unreadable"
    BY <1>1 DEF Hook
  <2>2. hook' = [hook EXCEPT ![h] = q]
    BY <1>4
  <2> HIDE DEF q
  <2>3. PICK p \in Hook : /\ hook' = [hook EXCEPT ![h] = p] /\ hook'[h] = p
                          /\ p.pc = "clean" /\ p.k = hook[h].k /\ p.late = "unreadable"
    BY <2>1, <2>2 DEF CaptureInv, TypeOK
  <2>4. mishaps' \in 0 .. MaxMishaps
    BY <1>4, MishapCounts DEF CaptureInv
  <2>5. ReportInv' /\ \A g \in Hooks \ {h} : report'[g] = report[g]
    BY <1>1, <1>4, <2>4, Concluded DEF TimesOut
  <2>6. HookPart(h)' /\ ChildPart(h)'
    BY <1>1, <2>3 DEF HookPart, ChildPart, CaptureOf
  <2>7. FailedPart(h)' /\ JobPart(h)' /\ ReportPart(h)'
    BY <1>1, <2>3 DEF FailedPart, JobPart, ReportPart, Excused, CaptureOf
  <2>8. CaptureOf(h)'
    BY <2>6, <2>7 DEF CaptureOf
  <2> QED BY <1>1, <2>3, <2>5, <2>8, NothingShared, OneProcess
<1> QED BY <1>2, <1>3, <1>4 DEF Looks

LEMMA RemovesKeeps ==
  ASSUME CaptureInv, NEW h \in Hooks, Removes(h)
  PROVE  CaptureInv'
<1>1. /\ CaptureOf(h) /\ hook[h].pc = "remove" /\ hook[h] \in Hook
      /\ hook' = [hook EXCEPT ![h] = hook[h]] /\ child[h].pc = "gone" /\ ~Referenced(h)
      /\ child[h] \in Child /\ child' = [child EXCEPT ![h] = child[h]]
      /\ temp' = [temp EXCEPT ![h] = "none"] /\ temp'[h] = "none"
      /\ UNCHANGED <<hook, child, failed, jobs>> /\ "capture_failed" \in Event
      /\ TimesOut(h) /\ NoMishap
  BY DEF CaptureInv, TypeOK, Removes, HookAt, CaptureOf, HookPart, Event, Failure, Diagnostic
<1>2. \A k \in Contents : jobs[k] # h
  BY <1>1 DEF CaptureOf, JobPart, Referenced
<1>3. ReportInv' /\ \A g \in Hooks \ {h} : report'[g] = report[g]
  BY <1>1, Concluded, NothingHappens DEF TimesOut
<1>4. HookPart(h)' /\ ChildPart(h)'
  BY <1>1 DEF HookPart, ChildPart, CaptureOf, Referenced
<1>5. FailedPart(h)' /\ JobPart(h)' /\ ReportPart(h)'
  BY <1>1, <1>2 DEF FailedPart, JobPart, ReportPart
<1>6. CaptureOf(h)'
  BY <1>4, <1>5 DEF CaptureOf
<1> QED BY <1>1, <1>3, <1>6, NothingShared, OneProcess

LEMMA ChildDiesKeeps ==
  ASSUME CaptureInv, NEW h \in Hooks, ChildDies(h)
  PROVE  CaptureInv'
<1>1. /\ CaptureOf(h) /\ hook[h].pc = "wait" /\ hook[h] \in Hook /\ hook[h].late = "no"
      /\ hook' = [hook EXCEPT ![h] = hook[h]] /\ child[h].pc \notin {"none", "over", "gone"}
      /\ temp[h] \in {"none", "part", "whole"} /\ temp' = [temp EXCEPT ![h] = temp[h]]
      /\ UNCHANGED <<hook, temp, failed, jobs>> /\ "capture_failed" \in Event
      /\ Concludes(h, "capture_failed", FALSE) /\ Mishap("child")
  BY DEF CaptureInv, TypeOK, ChildDies, HookAt, Alive, CaptureOf, HookPart, spool, Event,
         Failure, Diagnostic
<1>2. PICK c \in Child : /\ child' = [child EXCEPT ![h] = c] /\ child'[h] = c
                         /\ c.pc = "gone"
  BY Goes DEF ChildDies
<1>3. mishaps' \in 0 .. MaxMishaps
  BY <1>1, MishapCounts DEF CaptureInv
<1>4. ReportInv' /\ \A g \in Hooks \ {h} : report'[g] = report[g]
  BY <1>1, <1>3, Concluded
<1>5. HookPart(h)' /\ ChildPart(h)'
  BY <1>1, <1>2 DEF HookPart, ChildPart, CaptureOf, Referenced
<1>6. FailedPart(h)' /\ JobPart(h)' /\ ReportPart(h)'
  BY <1>1, <1>2 DEF FailedPart, JobPart, ReportPart, Excused, ChildAt, CaptureOf
<1>7. CaptureOf(h)'
  BY <1>5, <1>6 DEF CaptureOf
<1> QED BY <1>1, <1>2, <1>4, <1>7, NothingShared, OneProcess

LEMMA ReportingKeeps ==
  ASSUME CaptureInv, NEW h \in Hooks, Reporting(h)
  PROVE  CaptureInv'
<1>1. /\ UNCHANGED captureVars /\ CaptureOf(h) /\ ReportInv
      /\ report \in [Hooks -> Report]
  BY DEF Reporting, CaptureInv, ReportInv, ReportTypeOK
<1>2. ASSUME report[h].pc \in {"report", "diagnose"}, ReportInv',
             \A g \in Hooks \ {h} : report'[g] = report[g]
      PROVE  CaptureInv'
  <2>1. /\ child[h].pc \in {"none", "over", "gone"}
        /\ temp[h] # "none" /\ ~Referenced(h) => Excused(h)
    BY <1>1, <1>2 DEF CaptureOf, ReportPart
  <2> QED BY <1>1, <1>2, <2>1, OneReporter
<1>3. CASE Logs(h)
  <2>1. ReportInv' /\ report[h].pc = "report"
    BY <1>1, <1>3, LogsKeeps DEF Logs
  <2>2. \A g \in Hooks \ {h} : report'[g] = report[g]
    BY <1>1, <1>3 DEF Logs, Ends
  <2> QED BY <1>2, <2>1, <2>2
<1>4. CASE Diagnoses(h)
  <2>1. ReportInv' /\ report[h].pc = "diagnose"
    BY <1>1, <1>4, DiagnosesKeeps DEF Diagnoses
  <2>2. \A g \in Hooks \ {h} : report'[g] = report[g]
    BY <1>1, <1>4 DEF Diagnoses, Ends
  <2> QED BY <1>2, <2>1, <2>2
<1>5. CASE DiagnosisFails(h)
  <2>1. Ends(h, "over") /\ UNCHANGED <<log, runs>> /\ NoMishap /\ report[h].pc = "diagnose"
    BY <1>5 DEF DiagnosisFails, NoMishap
  <2>2. ReportInv'
    BY <1>1, <2>1, EndsKeeps, NothingHappens
  <2>3. \A g \in Hooks \ {h} : report'[g] = report[g]
    BY <1>1, <2>1 DEF Ends
  <2> QED BY <1>2, <2>1, <2>2, <2>3
<1>6. CASE HookDies(h)
  <2>1. Ends(h, "killed") /\ UNCHANGED <<log, runs>> /\ Mishap("hook")
    BY <1>6 DEF HookDies
  <2>2. ReportInv'
    BY <1>1, <2>1, EndsKeeps, MishapCounts
  <2>3. /\ \A g \in Hooks \ {h} : report'[g] = report[g]
        /\ report'[h].pc = "killed"
    BY <1>1, <2>1 DEF Ends
  <2> QED BY <1>1, <2>2, <2>3, OneReporter
<1> QED BY <1>3, <1>4, <1>5, <1>6 DEF Reporting

-----------------------------------------------------------------------------

LEMMA CaptureInitially == Init => CaptureInv
<1> SUFFICES ASSUME Init PROVE CaptureInv
  OBVIOUS
<1>1. ReportInv
  BY ReportInitially DEF Init
<1>2. TypeOK
  BY <1>1 DEF Init, TypeOK, ReportInv, Hook, Child
<1>3. ASSUME NEW h \in Hooks PROVE CaptureOf(h)
  <2>1. h # None
    BY HooksAssumption
  <2>2. /\ hook[h].pc = "ready" /\ hook[h].late = "no" /\ child[h].pc = "none"
        /\ ~child[h].kept /\ temp[h] = "none" /\ report[h].pc = "busy"
        /\ \A k \in Contents : jobs[k] = None
    BY DEF Init, ReportInit
  <2> QED BY <2>1, <2>2
          DEF CaptureOf, HookPart, ChildPart, FailedPart, JobPart, ReportPart
<1> QED BY <1>1, <1>2, <1>3 DEF CaptureInv

LEMMA CaptureStep ==
  ASSUME CaptureInv, [Next]_vars
  PROVE  CaptureInv'
<1>1. ASSUME NEW h \in Hooks, HookWorks(h) PROVE CaptureInv'
  BY <1>1, BeginsKeeps, SelectsNothingKeeps, StartsChildKeeps, ReceivesKeeps, KillsKeeps,
     LooksKeeps, RemovesKeeps DEF HookWorks, SessionEnd, PreCompact, CodexSessionEnd
<1>2. ASSUME NEW h \in Hooks, ChildWorks(h) \/ ChildDies(h) \/ Reporting(h) PROVE CaptureInv'
  BY <1>2, ChildKeeps, ChildDiesKeeps, ReportingKeeps
<1>3. CASE UNCHANGED vars
  BY <1>3 DEF vars, reportVars, captureVars, CaptureInv, ReportInv, ReportTypeOK,
              ReportOf, Over, TypeOK, CaptureOf, HookPart, ChildPart, FailedPart,
              JobPart, ReportPart, Referenced, PublishedWhole, Excused, ChildAt
<1> QED BY <1>1, <1>2, <1>3 DEF Next, Rest

\* The invariant of every hook and its child, from which the rest follows.
THEOREM CaptureIsConsistent == Spec => []CaptureInv
BY CaptureInitially, CaptureStep, PTL DEF Spec

\* The hooks, their children, the spool and the jobs keep their types.
THEOREM CaptureIsTyped == Spec => []TypeOK
<1>1. CaptureInv => TypeOK
  BY DEF CaptureInv
<1> QED BY <1>1, CaptureIsConsistent, PTL

\* The snapshot that a committed job names is complete and stays in the spool, whoever
\* cleans up.
THEOREM SnapshotsAreKept == Spec => []SnapshotKept
<1>1. CaptureInv => SnapshotKept
  <2> SUFFICES ASSUME CaptureInv, NEW k \in Contents, jobs[k] # None
               PROVE  temp[jobs[k]] = "whole"
    BY DEF SnapshotKept
  <2>1. PICK h \in Hooks : h = jobs[k]
    BY DEF CaptureInv, TypeOK
  <2>2. temp[h] = "whole"
    BY <2>1 DEF CaptureInv, CaptureOf, JobPart
  <2> QED BY <2>1, <2>2
<1> QED BY <1>1, CaptureIsConsistent, PTL

\* What a capture had read when it failed is in the spool, complete, under one name or
\* the other, however many equivalent captures fail together.
THEOREM FailuresAreKept == Spec => []FailureKept
<1>1. CaptureInv => FailureKept
  BY DEF CaptureInv, CaptureOf, FailedPart, PublishedWhole, FailureKept, ChildAt
<1> QED BY <1>1, CaptureIsConsistent, PTL

\* A hook that ends by itself leaves no snapshot behind that nobody accounts for.
THEOREM NothingIsLeftBehind == Spec => []NothingLeftBehind
<1>1. CaptureInv => NothingLeftBehind
  BY DEF CaptureInv, CaptureOf, ReportPart, Excused, NothingLeftBehind
<1> QED BY <1>1, CaptureIsConsistent, PTL
===============================================================================
