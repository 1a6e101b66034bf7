--------------------------- MODULE StatusView_proofs ---------------------------
(***************************************************************************)
(* Proofs about StatusView, for any number of hooks, refreshes and         *)
(* acknowledgements.  What a refresh has read grows old while hooks write: *)
(* RefreshOf says what of it stays true.  A line stays in the log, a run   *)
(* keeps its id, and an id given later is larger than every id before.     *)
(***************************************************************************)
EXTENDS StatusView, FiniteSetTheorems, TLAPS

-----------------------------------------------------------------------------
(* The hooks.  A hook writes its line once and its run after it, and each run *)
(* has an id of its own.                                                      *)

\* What one hook has reported.
ReportOf(h) ==
  /\ report[h].pc \in {"busy", "report"} => log[h] = None
  /\ report[h].pc = "report" => report[h].event \in Event
  /\ report[h].pc = "diagnose" => log[h] \in Diagnostic \cup {None}
  /\ runs[h] # 0 => Over(h) /\ log[h] \in Diagnostic \cup {None}

\* Ids are given in their order, one to each failure.
IdsInOrder ==
  /\ \A h \in Hooks : runs[h] <= Cardinality(Recorded)
  /\ \A g, h \in Recorded : runs[g] = runs[h] => g = h

ReportInv == ReportTypeOK /\ IdsInOrder /\ \A h \in Hooks : ReportOf(h)

LEMMA RecordedFinite ==
  ASSUME ReportTypeOK
  PROVE  /\ IsFiniteSet(Recorded) /\ Cardinality(Recorded) \in Nat
         /\ Cardinality(Hooks) \in Nat
         /\ Cardinality(Recorded) <= Cardinality(Hooks)
<1>1. Recorded \subseteq Hooks /\ IsFiniteSet(Hooks)
  BY HooksAssumption DEF Recorded
<1> QED BY <1>1, FS_Subset, FS_CardinalityType

LEMMA ReportInitially == ReportInit => ReportInv
<1> SUFFICES ASSUME ReportInit PROVE ReportInv
  OBVIOUS
<1>1. Recorded = {} /\ \A h \in Hooks : runs[h] = 0
  BY DEF ReportInit, Recorded
<1>2. Cardinality(Recorded) = 0 /\ Cardinality(Hooks) \in Nat
  BY <1>1, FS_EmptySet, HooksAssumption, FS_CardinalityType
<1>3. ReportTypeOK
  BY <1>2, HooksAssumption DEF ReportInit, ReportTypeOK, Report
<1>4. \A h \in Hooks : ReportOf(h)
  BY DEF ReportInit, ReportOf
<1>5. IdsInOrder
  BY <1>1, <1>2 DEF IdsInOrder
<1> QED BY <1>3, <1>4, <1>5 DEF ReportInv

\* A step that gives no id and changes the report of one hook.
LEMMA OneReport ==
  ASSUME ReportInv, NEW h \in Hooks, NEW r \in Report, NEW l \in Event \cup {None},
         report' = [report EXCEPT ![h] = r], log' = [log EXCEPT ![h] = l],
         UNCHANGED runs, mishaps' \in 0 .. MaxMishaps, ReportOf(h)'
  PROVE  ReportInv'
<1>1. ReportTypeOK'
  BY DEF ReportInv, ReportTypeOK
<1>2. IdsInOrder'
  BY DEF ReportInv, IdsInOrder, Recorded
<1>3. ASSUME NEW g \in Hooks, g # h PROVE ReportOf(g)'
  <2>1. report'[g] = report[g] /\ log'[g] = log[g] /\ runs'[g] = runs[g] /\ ReportOf(g)
    BY <1>3 DEF ReportInv, ReportTypeOK
  <2> QED BY <2>1 DEF ReportOf, Over
<1> QED BY <1>1, <1>2, <1>3 DEF ReportInv

LEMMA SameReport ==
  ASSUME ReportInv, UNCHANGED <<report, log, runs>>, mishaps' \in 0 .. MaxMishaps
  PROVE  ReportInv'
BY DEF ReportInv, ReportTypeOK, IdsInOrder, Recorded, ReportOf, Over

LEMMA MishapCounts ==
  ASSUME ReportInv, NEW f, NoMishap \/ Mishap(f)
  PROVE  mishaps' \in 0 .. MaxMishaps
<1>1. mishaps \in 0 .. MaxMishaps /\ MaxMishaps \in Nat
  BY HooksAssumption DEF ReportInv, ReportTypeOK
<1>2. CASE NoMishap
  BY <1>1, <1>2 DEF NoMishap
<1>3. CASE Mishap(f)
  BY <1>1, <1>3 DEF Mishap
<1> QED BY <1>2, <1>3

LEMMA ConcludesKeeps ==
  ASSUME ReportInv, NEW h \in Hooks, NEW e \in Event, NEW late \in BOOLEAN,
         Concludes(h, e, late), mishaps' \in 0 .. MaxMishaps
  PROVE  ReportInv'
<1> DEFINE r == [pc |-> "report", event |-> e, late |-> late]
<1>1. report' = [report EXCEPT ![h] = r] /\ UNCHANGED <<log, runs>> /\ report[h].pc = "busy"
  BY DEF Concludes, Busy
<1>2. r \in Report /\ r.pc = "report" /\ r.event = e
  BY DEF Report
<1>3. ReportTypeOK /\ ReportOf(h)
  BY DEF ReportInv
<1> HIDE DEF r
<1>4. report'[h] = r /\ log' = [log EXCEPT ![h] = log[h]] /\ log[h] \in Event \cup {None}
  BY <1>1, <1>3 DEF ReportTypeOK
<1>5. ReportOf(h)'
  BY <1>1, <1>2, <1>3, <1>4 DEF ReportOf, Over
<1> QED BY <1>1, <1>2, <1>4, <1>5, OneReport

LEMMA LogsKeeps ==
  ASSUME ReportInv, NEW h \in Hooks, Logs(h)
  PROVE  ReportInv'
<1>1. /\ ReportTypeOK /\ ReportOf(h) /\ report[h] \in Report /\ report[h].pc = "report"
      /\ log[h] = None /\ report[h].event \in Event
  BY DEF ReportInv, ReportTypeOK, Logs, ReportOf
<1>2. runs[h] = 0 /\ UNCHANGED runs
  BY <1>1 DEF ReportOf, Over, Logs
<1>3. /\ mishaps' \in 0 .. MaxMishaps
      /\ log' = [log EXCEPT ![h] = report[h].event] \/ log' = [log EXCEPT ![h] = None]
  BY <1>1, HooksAssumption DEF Logs, Emits, NoMishap, Mishap, ReportTypeOK
<1>4. PICK l \in {report[h].event, None} : log' = [log EXCEPT ![h] = l]
  BY <1>3
<1>5. l \in Event \cup {None} /\ log'[h] = l
  BY <1>1, <1>4 DEF ReportTypeOK
<1>6. CASE report[h].event \in Diagnostic /\ ~report[h].late
  <2> DEFINE r == [report[h] EXCEPT !.pc = "diagnose"]
  <2>1. report' = [report EXCEPT ![h] = r]
    BY <1>6 DEF Logs
  <2>2. r \in Report /\ r.pc = "diagnose"
    BY <1>1 DEF Report
  <2> HIDE DEF r
  <2>3. report'[h] = r
    BY <1>1, <2>1 DEF ReportTypeOK
  <2>4. ReportOf(h)'
    BY <1>2, <1>4, <1>5, <1>6, <2>2, <2>3 DEF ReportOf
  <2> QED BY <1>2, <1>3, <1>4, <1>5, <2>1, <2>2, <2>4, OneReport
<1>7. CASE ~(report[h].event \in Diagnostic /\ ~report[h].late)
  <2> DEFINE r == [pc |-> "over", event |-> None, late |-> FALSE]
  <2>1. report' = [report EXCEPT ![h] = r]
    BY <1>7 DEF Logs, Ends
  <2>2. r \in Report /\ r.pc = "over"
    BY DEF Report
  <2> HIDE DEF r
  <2>3. report'[h] = r
    BY <1>1, <2>1 DEF ReportTypeOK
  <2>4. ReportOf(h)'
    BY <1>2, <2>2, <2>3 DEF ReportOf
  <2> QED BY <1>2, <1>3, <1>4, <1>5, <2>1, <2>2, <2>4, OneReport
<1> QED BY <1>6, <1>7

\* A hook that ends without a run of its own.
LEMMA EndsKeeps ==
  ASSUME ReportInv, NEW h \in Hooks, NEW pc \in {"over", "killed"}, Ends(h, pc),
         UNCHANGED <<log, runs>>, mishaps' \in 0 .. MaxMishaps
  PROVE  ReportInv'
<1> DEFINE r == [pc |-> pc, event |-> None, late |-> FALSE]
<1>1. report' = [report EXCEPT ![h] = r]
  BY DEF Ends
<1>2. r \in Report /\ r.pc = pc
  BY DEF Report
<1>3. ReportTypeOK /\ ReportOf(h)
  BY DEF ReportInv
<1> HIDE DEF r
<1>4. report'[h] = r /\ log' = [log EXCEPT ![h] = log[h]] /\ log[h] \in Event \cup {None}
  BY <1>1, <1>3 DEF ReportTypeOK
<1>5. ReportOf(h)'
  BY <1>2, <1>3, <1>4 DEF ReportOf, Over
<1> QED BY <1>1, <1>2, <1>4, <1>5, OneReport

\* The next id is one that no hook has.
LEMMA DiagnosesKeeps ==
  ASSUME ReportInv, NEW h \in Hooks, Diagnoses(h)
  PROVE  /\ ReportInv'
         /\ Recorded' = Recorded \cup {h} /\ h \notin Recorded
         /\ runs'[h] = Cardinality(Recorded) + 1
         /\ Cardinality(Recorded') = Cardinality(Recorded) + 1
<1>1. /\ ReportTypeOK /\ ReportOf(h) /\ IdsInOrder
      /\ report[h].pc = "diagnose" /\ UNCHANGED <<log, mishaps>>
  BY DEF ReportInv, Diagnoses
<1>2. h \notin Recorded /\ log[h] \in Diagnostic \cup {None}
  BY <1>1 DEF ReportOf, Over, Recorded
<1> DEFINE n == Cardinality(Recorded)
<1>3. n \in Nat /\ IsFiniteSet(Recorded)
  BY <1>1, RecordedFinite
<1>4. \A g \in Hooks : runs'[g] = IF g = h THEN n + 1 ELSE runs[g]
  BY <1>1 DEF Diagnoses, ReportTypeOK
<1> HIDE DEF n
<1>5. \A g \in Hooks : runs[g] \in Nat
  BY <1>1 DEF ReportTypeOK
<1>6. Recorded' = Recorded \cup {h}
  BY <1>3, <1>4 DEF Recorded
<1>7. Cardinality(Recorded') = n + 1
  BY <1>2, <1>3, <1>6, FS_AddElement DEF n
<1>8. n + 1 <= Cardinality(Hooks) /\ Cardinality(Hooks) \in Nat
  <2>1. Recorded \cup {h} \subseteq Hooks
    BY DEF Recorded
  <2> QED BY <1>6, <1>7, <2>1, HooksAssumption, FS_Subset, FS_CardinalityType
<1>9. IdsInOrder'
  <2>1. \A g \in Hooks : runs[g] <= n
    BY <1>1 DEF IdsInOrder, n
  <2>2. \A g \in Hooks : runs'[g] <= n + 1
    BY <1>3, <1>4, <1>5, <2>1
  <2>3. \A g, f \in Recorded' : runs'[g] = runs'[f] => g = f
    <3>1. \A g \in Recorded : g \in Hooks /\ g # h /\ runs'[g] = runs[g] /\ runs[g] # n + 1
      BY <1>2, <1>3, <1>4, <1>5, <2>1 DEF Recorded
    <3>2. runs'[h] = n + 1
      BY <1>4
    <3> QED BY <1>1, <1>6, <3>1, <3>2 DEF IdsInOrder
  <2> QED BY <1>7, <2>2, <2>3 DEF IdsInOrder
<1>10. report' = [report EXCEPT ![h] = [pc |-> "over", event |-> None, late |-> FALSE]]
  BY DEF Diagnoses, Ends
<1>11. report'[h].pc = "over" /\ report' \in [Hooks -> Report]
  BY <1>1, <1>10 DEF ReportTypeOK, Report
<1>12. runs' \in [Hooks -> 0 .. Cardinality(Hooks)]
  <2>1. \A g \in Hooks : runs'[g] \in 0 .. Cardinality(Hooks)
    BY <1>1, <1>3, <1>4, <1>8 DEF ReportTypeOK
  <2>2. DOMAIN runs' = Hooks /\ runs' = [g \in Hooks |-> runs'[g]]
    BY <1>1 DEF Diagnoses, ReportTypeOK
  <2> QED BY <2>1, <2>2
<1>13. ReportTypeOK'
  BY <1>1, <1>11, <1>12 DEF ReportTypeOK
<1>14. ASSUME NEW g \in Hooks PROVE ReportOf(g)'
  <2>1. CASE g = h
    BY <1>1, <1>2, <1>11, <2>1 DEF ReportOf, Over
  <2>2. CASE g # h
    <3>1. report'[g] = report[g] /\ log'[g] = log[g] /\ runs'[g] = runs[g] /\ ReportOf(g)
      BY <1>1, <1>4, <1>10, <2>2 DEF ReportInv, ReportTypeOK
    <3> QED BY <3>1 DEF ReportOf, Over
  <2> QED BY <2>1, <2>2
<1>15. runs'[h] = n + 1
  BY <1>4
<1> QED BY <1>2, <1>6, <1>7, <1>9, <1>13, <1>14, <1>15 DEF ReportInv, n

-----------------------------------------------------------------------------
(* The refreshes.                                                            *)

IsRefresh(r) ==
  r \in [pc : {"none", "log", "keys", "pass", "runs", "install"},
        observer : {r.observer}, base : Nat, blind : BOOLEAN,
        lines : SUBSET Hooks, alerts : SUBSET Hooks, ids : SUBSET Nat]

\* What a refresh has read so far, and how that compares with log and runs now.
RefreshOf(g) ==
  /\ IsRefresh(refresh[g])
  /\ refresh[g].pc # "none" => g <= generation
  /\ refresh[g].base <= Cardinality(Recorded)
  /\ refresh[g].pc # "none" => \A h \in refresh[g].lines : log[h] \in Failure
  /\ refresh[g].pc \in {"pass", "runs", "install"} =>
       \A h \in refresh[g].lines : h \in refresh[g].alerts \/ runs[h] # 0
  /\ refresh[g].pc \in {"pass", "runs", "install"} /\ ~refresh[g].blind =>
       \A h \in refresh[g].alerts : runs[h] # 0 => runs[h] > refresh[g].base
  /\ refresh[g].pc = "install" =>
       /\ refresh[g].ids \subseteq RunIds
       /\ \A h \in refresh[g].lines : h \in refresh[g].alerts \/ runs[h] \in refresh[g].ids
  /\ refresh[g].pc \in {"runs", "install"} /\ g = generation =>
       refresh[g].observer = observer

ViewInv ==
  /\ ReportInv
  /\ generation \in 0 .. MaxRefreshes
  /\ DOMAIN refresh = Refreshes
  /\ \A g \in Refreshes : RefreshOf(g)

\* What steps of hooks may do to the log and the runs.
Grows ==
  /\ ReportInv'
  /\ \A h \in Hooks : /\ log[h] # None => log'[h] = log[h]
                      /\ runs[h] # 0 => runs'[h] = runs[h]
                      /\ runs[h] = 0 /\ runs'[h] # 0 => runs'[h] > Cardinality(Recorded)
  /\ Cardinality(Recorded') >= Cardinality(Recorded)

-----------------------------------------------------------------------------

\* A run is known by its id.
LEMMA HookOfRun ==
  ASSUME ReportInv, NEW i \in RunIds
  PROVE  HookOf(i) \in Recorded /\ runs[HookOf(i)] = i
<1>1. \E h \in Hooks : runs[h] = i
  BY DEF RunIds, Recorded
<1>2. HookOf(i) \in Hooks /\ runs[HookOf(i)] = i
  BY <1>1 DEF HookOf
<1>3. i # 0
  BY DEF RunIds, Recorded
<1> QED BY <1>2, <1>3 DEF Recorded

LEMMA RunOfHook ==
  ASSUME ReportInv, NEW h \in Hooks, runs[h] # 0
  PROVE  runs[h] \in RunIds /\ HookOf(runs[h]) = h
<1>1. runs[h] \in RunIds /\ h \in Recorded
  BY DEF RunIds, Recorded
<1>2. HookOf(runs[h]) \in Recorded /\ runs[HookOf(runs[h])] = runs[h]
  BY <1>1, HookOfRun
<1> QED BY <1>1, <1>2 DEF ReportInv, IdsInOrder

LEMMA SameGrows ==
  ASSUME ReportInv, UNCHANGED <<log, runs>>, ReportInv'
  PROVE  Grows
<1>1. Recorded' = Recorded /\ Cardinality(Recorded) \in Nat
  BY RecordedFinite DEF Recorded, ReportInv
<1> QED BY <1>1 DEF Grows

LEMMA ReportGrows ==
  ASSUME ReportInv, ReportNext
  PROVE  Grows
<1>1. PICK h \in Hooks :
        \/ \E e \in Event, late \in BOOLEAN : Concludes(h, e, late) /\ NoMishap
        \/ Skips(h) \/ Logs(h) \/ Diagnoses(h) \/ DiagnosisFails(h) \/ HookDies(h)
  BY DEF ReportNext
<1>2. ASSUME NEW e \in Event, NEW late \in BOOLEAN, Concludes(h, e, late), NoMishap PROVE Grows
  BY <1>2, MishapCounts, ConcludesKeeps, SameGrows DEF Concludes
<1>3. CASE Skips(h) \/ DiagnosisFails(h)
  <2>1. Ends(h, "over") /\ UNCHANGED <<log, runs>> /\ NoMishap
    BY <1>3 DEF Skips, DiagnosisFails, NoMishap
  <2> QED BY <2>1, MishapCounts, EndsKeeps, SameGrows
<1>4. CASE HookDies(h)
  <2>1. Ends(h, "killed") /\ UNCHANGED <<log, runs>> /\ Mishap("hook")
    BY <1>4 DEF HookDies
  <2> QED BY <2>1, MishapCounts, EndsKeeps, SameGrows
<1>5. CASE Logs(h)
  <2>1. UNCHANGED runs /\ log[h] = None
    BY <1>5 DEF Logs, ReportInv, ReportOf
  <2>2. \A g \in Hooks : log[g] # None => log'[g] = log[g]
    BY <1>5, <2>1 DEF Logs, Emits, ReportInv, ReportTypeOK
  <2>3. Recorded' = Recorded /\ Cardinality(Recorded) \in Nat
    BY <2>1, RecordedFinite DEF Recorded, ReportInv
  <2> QED BY <1>5, <2>1, <2>2, <2>3, LogsKeeps DEF Grows
<1>6. CASE Diagnoses(h)
  <2>1. /\ ReportInv' /\ runs'[h] = Cardinality(Recorded) + 1
        /\ Cardinality(Recorded') = Cardinality(Recorded) + 1
    BY <1>6, DiagnosesKeeps
  <2>2. /\ UNCHANGED log /\ Cardinality(Recorded) \in Nat
        /\ \A g \in Hooks \ {h} : runs'[g] = runs[g]
    BY <1>6, RecordedFinite DEF Diagnoses, ReportInv, ReportTypeOK
  <2>3. runs[h] = 0
    BY <1>6 DEF Diagnoses, ReportInv, ReportOf, Over
  <2> QED BY <2>1, <2>2, <2>3 DEF Grows
<1> QED BY <1>1, <1>2, <1>3, <1>4, <1>5, <1>6

\* A refresh that does not move keeps what it knows, whatever the hooks write.
LEMMA OldRefresh ==
  ASSUME ViewInv, Grows, NEW g \in Refreshes, refresh'[g] = refresh[g],
         generation' \in 0 .. MaxRefreshes, generation' >= generation,
         observer' = observer \/ generation' > generation
  PROVE  RefreshOf(g)'
<1> DEFINE r == refresh[g]
<1>1. RefreshOf(g) /\ generation \in Int /\ g \in Int
  BY DEF ViewInv, Refreshes
<1>2. Cardinality(Recorded) \in Nat /\ Cardinality(Recorded') \in Nat /\ r.base \in Nat
  <2>1. Recorded \subseteq Hooks /\ Recorded' \subseteq Hooks
    BY DEF Recorded
  <2>2. r.base \in Nat
    BY <1>1 DEF RefreshOf, IsRefresh
  <2> QED BY <2>1, <2>2, HooksAssumption, FS_Subset, FS_CardinalityType
<1>3. \A h \in Hooks : runs[h] \in Nat /\ runs'[h] \in Nat
  BY DEF ViewInv, ReportInv, ReportTypeOK, Grows
<1>4. r.lines \subseteq Hooks /\ r.alerts \subseteq Hooks
  BY <1>1 DEF RefreshOf, IsRefresh
<1>5. r.base <= Cardinality(Recorded')
  BY <1>1, <1>2 DEF RefreshOf, Grows
<1>6. r.pc # "none" => \A h \in r.lines : log'[h] \in Failure
  BY <1>1, <1>4, HooksAssumption DEF RefreshOf, Grows, Event
<1>7. r.pc # "none" => g <= generation'
  BY <1>1 DEF RefreshOf, IsRefresh
<1>8. \A h \in Hooks : runs[h] # 0 => runs'[h] # 0 /\ runs'[h] = runs[h]
  BY DEF Grows
<1>9. ASSUME r.pc \in {"pass", "runs", "install"}, ~r.blind, NEW h \in r.alerts, runs'[h] # 0
      PROVE  runs'[h] > r.base
  <2>1. CASE runs[h] # 0
    BY <1>1, <1>4, <1>8, <1>9, <2>1 DEF RefreshOf
  <2>2. CASE runs[h] = 0
    <3>1. runs'[h] > Cardinality(Recorded) /\ r.base <= Cardinality(Recorded)
      BY <1>1, <1>4, <1>9, <2>2 DEF Grows, RefreshOf
    <3> QED BY <1>2, <1>3, <1>4, <3>1
  <2> QED BY <2>1, <2>2
<1>10. RunIds \subseteq RunIds'
  BY <1>8 DEF RunIds, Recorded
<1>11. ASSUME r.pc = "install", NEW h \in r.lines, h \notin r.alerts
       PROVE  runs'[h] \in r.ids
  <2>1. runs[h] # 0 /\ runs[h] \in r.ids
    BY <1>1, <1>11 DEF RefreshOf
  <2> QED BY <1>4, <1>8, <2>1
<1>12. r.pc \in {"runs", "install"} /\ g = generation' => r.observer = observer'
  BY <1>1 DEF RefreshOf, IsRefresh
<1>13. r.pc \in {"pass", "runs", "install"} =>
         \A h \in r.lines : h \in r.alerts \/ runs'[h] # 0
  BY <1>1, <1>4, <1>8 DEF RefreshOf
<1> HIDE DEF r
<1>14. refresh'[g] = r /\ refresh[g] = r
  BY DEF r
<1> QED BY <1>1, <1>5, <1>6, <1>7, <1>9, <1>10, <1>11, <1>12, <1>13, <1>14 DEF RefreshOf

\* A step of one refresh, while hooks may write.
LEMMA OneRefresh ==
  ASSUME ViewInv, Grows, NEW g \in Refreshes, DOMAIN refresh' = Refreshes,
         \A f \in Refreshes \ {g} : refresh'[f] = refresh[f],
         generation' \in 0 .. MaxRefreshes, generation' >= generation,
         observer' = observer \/ generation' > generation, RefreshOf(g)'
  PROVE  ViewInv'
<1>1. ASSUME NEW f \in Refreshes \ {g} PROVE RefreshOf(f)'
  BY OldRefresh
<1>2. \A f \in Refreshes : RefreshOf(f)'
  BY <1>1
<1>3. Refreshes' = Refreshes
  BY DEF Refreshes
<1> QED BY <1>2, <1>3 DEF ViewInv, Grows

\* A step of one refresh that leaves the hooks, the acknowledgements and the
\* generation alone.
LEMMA OneReader ==
  ASSUME ViewInv, NEW g \in Refreshes, NEW r, refresh' = [refresh EXCEPT ![g] = r],
         UNCHANGED <<report, log, runs, generation, observer>>,
         mishaps' \in 0 .. MaxMishaps, RefreshOf(g)'
  PROVE  ViewInv'
<1>1. ReportInv' /\ Grows
  BY SameReport, SameGrows DEF ViewInv
<1>2. generation' \in 0 .. MaxRefreshes /\ generation' >= generation
  BY DEF ViewInv
<1>3. DOMAIN refresh' = Refreshes /\ \A f \in Refreshes \ {g} : refresh'[f] = refresh[f]
  BY DEF ViewInv
<1> QED BY <1>1, <1>2, <1>3, OneRefresh

\* A new refresh has read nothing, and counts the runs that are there.
LEMMA NewRefresh ==
  ASSUME ViewInv, MayRefresh, generation' = generation + 1, refresh' = Refreshed,
         UNCHANGED reportVars
  PROVE  ViewInv'
<1>1. ReportInv' /\ Grows
  <2>1. ReportInv'
    BY DEF ViewInv, ReportInv, ReportTypeOK, IdsInOrder, Recorded, ReportOf, Over, reportVars
  <2> QED BY <2>1, SameGrows DEF ViewInv, reportVars
<1>2. generation \in Nat /\ generation + 1 \in Refreshes
  BY ViewAssumption DEF ViewInv, MayRefresh, Refreshes
<1>3. PICK g \in Refreshes : g = generation + 1
  BY <1>2
<1>4. /\ g > generation /\ generation' = g /\ g \in 0 .. MaxRefreshes
      /\ Cardinality(Recorded) \in Nat /\ Recorded' = Recorded
  BY <1>2, <1>3, RecordedFinite DEF ViewInv, ReportInv, Recorded, reportVars, Refreshes
<1>5. PICK r :
        /\ refresh' = [refresh EXCEPT ![g] = r]
        /\ r.pc = "log" /\ r.base = Cardinality(Recorded) /\ r.lines = {}
        /\ IsRefresh(r)
  <2> DEFINE new == [NoRefresh EXCEPT !.pc = "log", !.base = Cardinality(Recorded)]
  <2>1. refresh' = [refresh EXCEPT ![g] = new]
    BY <1>3 DEF Refreshed
  <2>2. new.pc = "log" /\ new.base = Cardinality(Recorded) /\ new.lines = {}
    BY DEF NoRefresh
  <2>3. IsRefresh(new)
    BY <1>4 DEF NoRefresh, IsRefresh
  <2> HIDE DEF new
  <2> QED BY <2>1, <2>2, <2>3
<1>6. /\ refresh'[g] = r /\ DOMAIN refresh' = Refreshes
      /\ \A f \in Refreshes \ {g} : refresh'[f] = refresh[f]
  BY <1>5 DEF ViewInv
<1>7. RefreshOf(g)'
  <2>1. r.pc # "none" => g <= generation'
    BY <1>4
  <2>2. r.base <= Cardinality(Recorded')
    BY <1>4, <1>5
  <2>3. r.pc \notin {"pass", "runs", "install"} /\ \A h \in r.lines : log'[h] \in Failure
    BY <1>5
  <2> QED BY <1>5, <1>6, <2>1, <2>2, <2>3 DEF RefreshOf
<1>8. generation' >= generation /\ generation' > generation
  BY <1>2, <1>4
<1> QED BY <1>1, <1>4, <1>6, <1>7, <1>8, OneRefresh

-----------------------------------------------------------------------------

LEMMA ViewInitially == Init => ViewInv
<1> SUFFICES ASSUME Init PROVE ViewInv
  OBVIOUS
<1>1. ReportInv
  BY ReportInitially DEF Init
<1>2. generation \in 0 .. MaxRefreshes
  BY ViewAssumption DEF Init, ViewInit
<1>3. ASSUME NEW g \in Refreshes PROVE RefreshOf(g)
  <2>1. refresh[g] = NoRefresh /\ Cardinality(Recorded) \in Nat
    BY RecordedFinite, <1>1 DEF Init, ViewInit, ReportInv
  <2> QED BY <2>1 DEF RefreshOf, IsRefresh, NoRefresh
<1> QED BY <1>1, <1>2, <1>3 DEF ViewInv, Init, ViewInit

LEMMA ReportKeeps ==
  ASSUME ViewInv, ReportNext, UNCHANGED viewVars
  PROVE  ViewInv'
<1>1. Grows
  BY ReportGrows DEF ViewInv
<1>2. UNCHANGED <<generation, refresh, observer>>
  BY DEF viewVars
<1>3. generation' \in 0 .. MaxRefreshes /\ generation' >= generation
  BY <1>2 DEF ViewInv
<1>4. ASSUME NEW g \in Refreshes PROVE RefreshOf(g)'
  BY <1>1, <1>2, <1>3, OldRefresh
<1>5. Refreshes' = Refreshes
  BY DEF Refreshes
<1> QED BY <1>1, <1>2, <1>3, <1>4, <1>5 DEF ViewInv, Grows

\* Steps that leave the refreshes, the log and the runs alone.
LEMMA SameView ==
  ASSUME ViewInv, UNCHANGED <<report, log, runs, generation, refresh, observer>>,
         mishaps' \in 0 .. MaxMishaps
  PROVE  ViewInv'
<1>1. ReportInv' /\ Recorded' = Recorded /\ RunIds' = RunIds
  BY SameReport DEF ViewInv, Recorded, RunIds
<1>2. ASSUME NEW g \in Refreshes PROVE RefreshOf(g)'
  BY <1>1 DEF ViewInv, RefreshOf
<1> QED BY <1>1, <1>2 DEF ViewInv, Refreshes

LEMMA ReadsLogKeeps ==
  ASSUME ViewInv, NEW g \in Refreshes, ReadsLog(g)
  PROVE  ViewInv'
<1>1. PICK lines : lines = {h \in Hooks : log[h] \in Failure}
  OBVIOUS
<1>2. PICK r : r = [refresh[g] EXCEPT !.pc = "keys", !.lines = lines]
  OBVIOUS
<1>3. refresh' = [refresh EXCEPT ![g] = r] /\ refresh[g].pc = "log"
  BY <1>1, <1>2 DEF ReadsLog
<1>4. /\ UNCHANGED <<report, log, runs, mishaps, generation, observer>>
      /\ Recorded' = Recorded /\ RunIds' = RunIds
  BY DEF ReadsLog, reportVars, Recorded, RunIds
<1>5. RefreshOf(g) /\ refresh'[g] = r
  BY <1>3 DEF ViewInv
<1>6. IsRefresh(r) /\ r.pc = "keys" /\ r.lines = lines /\ r.base = refresh[g].base
  BY <1>1, <1>2, <1>5 DEF RefreshOf, IsRefresh
<1>7. RefreshOf(g)'
  BY <1>1, <1>3, <1>4, <1>5, <1>6 DEF RefreshOf
<1>8. mishaps' \in 0 .. MaxMishaps
  BY <1>4 DEF ViewInv, ReportInv, ReportTypeOK
<1> QED BY <1>3, <1>4, <1>7, <1>8, OneReader

\* A line without an alert has a run by now, and an alert has none unless the
\* durable failures could not be read.
LEMMA ReadsKeysKeeps ==
  ASSUME ViewInv, NEW g \in Refreshes, ReadsKeys(g)
  PROVE  ViewInv'
<1>1. /\ UNCHANGED <<report, log, runs, generation, observer>>
      /\ Recorded' = Recorded /\ RunIds' = RunIds
  BY DEF ReadsKeys, Recorded, RunIds
<1>2. mishaps' \in 0 .. MaxMishaps
  BY MishapCounts DEF ReadsKeys, ViewInv
<1>3. RefreshOf(g) /\ refresh[g].pc = "keys" /\ DOMAIN refresh = Refreshes
  BY DEF ViewInv, ReadsKeys
<1>4. IsRefresh(refresh[g])
  BY <1>3 DEF RefreshOf
<1>5. PICK r :
        /\ refresh' = [refresh EXCEPT ![g] = r]
        /\ IsRefresh(r) /\ r.pc = "pass" /\ r.base = refresh[g].base
        /\ r.lines = refresh[g].lines
        /\ (r.blind /\ r.alerts = r.lines) \/ r.alerts = r.lines \ Durable
  <2>1. CASE refresh' = [refresh EXCEPT ![g].pc = "pass",
                                        ![g].alerts = refresh[g].lines \ Durable]
    <3> DEFINE new == [refresh[g] EXCEPT !.pc = "pass", !.alerts = refresh[g].lines \ Durable]
    <3>1. /\ IsRefresh(new) /\ new.pc = "pass" /\ new.base = refresh[g].base
          /\ new.lines = refresh[g].lines /\ new.alerts = refresh[g].lines \ Durable
      BY <1>4 DEF IsRefresh
    <3>2. refresh' = [refresh EXCEPT ![g] = new]
      BY <2>1
    <3> HIDE DEF new
    <3> QED BY <3>1, <3>2
  <2>2. CASE refresh' = [refresh EXCEPT ![g].pc = "pass", ![g].alerts = refresh[g].lines,
                                        ![g].blind = TRUE]
    <3> DEFINE new == [refresh[g] EXCEPT !.pc = "pass", !.alerts = refresh[g].lines,
                                         !.blind = TRUE]
    <3>1. /\ IsRefresh(new) /\ new.pc = "pass" /\ new.base = refresh[g].base
          /\ new.lines = refresh[g].lines /\ new.alerts = refresh[g].lines /\ new.blind
      BY <1>4 DEF IsRefresh
    <3>2. refresh' = [refresh EXCEPT ![g] = new]
      BY <2>2
    <3> HIDE DEF new
    <3> QED BY <3>1, <3>2
  <2> QED BY <2>1, <2>2 DEF ReadsKeys
<1>6. refresh'[g] = r /\ r.lines \subseteq Hooks
  BY <1>3, <1>5 DEF IsRefresh
<1>7. \A h \in r.lines : log[h] \in Failure
  BY <1>3, <1>5 DEF RefreshOf
<1>8. \A h \in r.lines : h \in r.alerts \/ runs[h] # 0
  BY <1>5 DEF Durable, Recorded
<1>9. ASSUME ~r.blind, NEW h \in r.alerts PROVE runs[h] = 0
  <2>1. h \in r.lines /\ h \notin Durable /\ h \in Hooks /\ log[h] \in Failure
    BY <1>5, <1>6, <1>7, <1>9
  <2>2. runs[h] # 0 => log[h] \in Diagnostic \cup {None}
    BY <2>1 DEF ViewInv, ReportInv, ReportOf
  <2>3. log[h] # None
    BY <2>1, HooksAssumption DEF Event
  <2> QED BY <2>1, <2>2, <2>3 DEF Durable, Recorded
<1>10. RefreshOf(g)'
  BY <1>1, <1>3, <1>5, <1>6, <1>7, <1>8, <1>9 DEF RefreshOf
<1> QED BY <1>1, <1>2, <1>5, <1>10, OneReader

LEMMA PassesObserverKeeps ==
  ASSUME ViewInv, NEW g \in Refreshes, PassesObserver(g)
  PROVE  ViewInv'
<1>1. PICK r : r = [refresh[g] EXCEPT !.pc = "runs", !.observer = observer]
  OBVIOUS
<1>2. refresh' = [refresh EXCEPT ![g] = r] /\ refresh[g].pc = "pass"
  BY <1>1 DEF PassesObserver
<1>3. /\ UNCHANGED <<report, log, runs, mishaps, generation, observer>>
      /\ Recorded' = Recorded /\ RunIds' = RunIds
  BY DEF PassesObserver, reportVars, Recorded, RunIds
<1>4. RefreshOf(g) /\ refresh'[g] = r /\ IsRefresh(refresh[g])
  BY <1>2 DEF ViewInv, RefreshOf
<1>5. /\ IsRefresh(r) /\ r.pc = "runs" /\ r.observer = observer
      /\ r.base = refresh[g].base /\ r.lines = refresh[g].lines
      /\ r.alerts = refresh[g].alerts /\ r.blind = refresh[g].blind
  BY <1>1, <1>4 DEF IsRefresh
<1>6. RefreshOf(g)'
  BY <1>2, <1>3, <1>4, <1>5 DEF RefreshOf
<1>7. mishaps' \in 0 .. MaxMishaps
  BY <1>3 DEF ViewInv, ReportInv, ReportTypeOK
<1> QED BY <1>2, <1>3, <1>6, <1>7, OneReader

LEMMA ReadsRunsKeeps ==
  ASSUME ViewInv, NEW g \in Refreshes, ReadsRuns(g)
  PROVE  ViewInv'
<1>1. PICK ids : ids = RunIds
  OBVIOUS
<1>2. PICK r : r = [refresh[g] EXCEPT !.pc = "install", !.ids = ids]
  OBVIOUS
<1>3. refresh' = [refresh EXCEPT ![g] = r] /\ refresh[g].pc = "runs"
  BY <1>1, <1>2 DEF ReadsRuns
<1>4. /\ UNCHANGED <<report, log, runs, mishaps, generation, observer>>
      /\ Recorded' = Recorded /\ RunIds' = RunIds
  BY DEF ReadsRuns, reportVars, Recorded, RunIds
<1>5. RefreshOf(g) /\ refresh'[g] = r /\ IsRefresh(refresh[g])
  BY <1>3 DEF ViewInv, RefreshOf
<1>6. ids \subseteq Nat /\ refresh[g].lines \subseteq Hooks
  BY <1>1, <1>5 DEF RunIds, Recorded, ViewInv, ReportInv, ReportTypeOK, IsRefresh
<1>7. /\ IsRefresh(r) /\ r.pc = "install" /\ r.ids = ids /\ r.observer = refresh[g].observer
      /\ r.base = refresh[g].base /\ r.lines = refresh[g].lines
      /\ r.alerts = refresh[g].alerts /\ r.blind = refresh[g].blind
  BY <1>2, <1>5, <1>6 DEF IsRefresh
<1>8. \A h \in r.lines : h \in r.alerts \/ runs[h] \in r.ids
  BY <1>1, <1>3, <1>5, <1>6, <1>7 DEF RefreshOf, RunIds, Recorded
<1>9. RefreshOf(g)'
  BY <1>1, <1>3, <1>4, <1>5, <1>7, <1>8 DEF RefreshOf
<1>10. mishaps' \in 0 .. MaxMishaps
  BY <1>4 DEF ViewInv, ReportInv, ReportTypeOK
<1> QED BY <1>3, <1>4, <1>9, <1>10, OneReader

\* A refresh that is over, shown or not.
LEMMA RefreshEnds ==
  ASSUME ViewInv, NEW g \in Refreshes, Installs(g) \/ RefreshFails(g)
  PROVE  ViewInv'
<1>1. /\ refresh' = [refresh EXCEPT ![g] = NoRefresh]
      /\ UNCHANGED <<report, log, runs, generation, observer>>
  BY DEF Installs, RefreshFails, reportVars
<1>2. mishaps' \in 0 .. MaxMishaps
  BY MishapCounts DEF Installs, RefreshFails, reportVars, ViewInv, NoMishap
<1>3. refresh'[g] = NoRefresh /\ Recorded' = Recorded /\ Cardinality(Recorded) \in Nat
  BY <1>1, RecordedFinite DEF ViewInv, ReportInv, Recorded
<1>4. RefreshOf(g)'
  BY <1>3 DEF RefreshOf, IsRefresh, NoRefresh
<1> QED BY <1>1, <1>2, <1>4, OneReader

LEMMA AddsCounts ==
  ASSUME ViewInv, NEW i, Adds(i)
  PROVE  mishaps' \in 0 .. MaxMishaps
BY MishapCounts DEF Adds, Loads, ViewInv

LEMMA ViewStep ==
  ASSUME ViewInv, [Next]_vars
  PROVE  ViewInv'
<1>1. CASE ReportNext /\ UNCHANGED viewVars
  BY <1>1, ReportKeeps
<1>2. CASE RefreshStarts \/ Acknowledged
  <2>1. MayRefresh /\ generation' = generation + 1 /\ refresh' = Refreshed /\ UNCHANGED reportVars
    BY <1>2 DEF RefreshStarts, Acknowledged
  <2> QED BY <2>1, NewRefresh
<1>3. ASSUME NEW g \in Refreshes,
             ReadsLog(g) \/ ReadsKeys(g) \/ PassesObserver(g) \/ ReadsRuns(g)
               \/ Installs(g) \/ RefreshFails(g)
      PROVE  ViewInv'
  BY <1>3, ReadsLogKeeps, ReadsKeysKeeps, PassesObserverKeeps, ReadsRunsKeeps, RefreshEnds
<1>4. ASSUME NEW i \in Ids, Acknowledges(i) \/ OtherAcknowledges(i)
      PROVE  ViewInv'
  <2>1. Adds(i) /\ UNCHANGED <<report, log, runs, generation, refresh, observer>>
    BY <1>4 DEF Acknowledges, OtherAcknowledges
  <2> QED BY <2>1, AddsCounts, SameView
<1>5. CASE UNCHANGED vars
  <2>1. UNCHANGED <<report, log, runs, generation, refresh, observer, mishaps>>
    BY <1>5 DEF vars, viewVars, reportVars
  <2> QED BY <2>1, SameView DEF ViewInv, ReportInv, ReportTypeOK
<1> QED BY <1>1, <1>2, <1>3, <1>4, <1>5 DEF Next, ViewNext, Rest

-----------------------------------------------------------------------------

\* The invariant behind the others.
THEOREM ViewIsConsistent == Spec => []ViewInv
BY ViewInitially, ViewStep, PTL DEF Spec

\* A failure that a refresh has read in the log is shown by it, as an alert or as a
\* run, whatever the hooks write while it reads.
THEOREM FailuresAreShown == Spec => []NoFailureHidden
<1>1. ASSUME ViewInv PROVE NoFailureHidden
  <2>1. ASSUME NEW g \in Refreshes, ReadyToShow(g), NEW h \in refresh[g].lines,
               h \notin refresh[g].alerts
        PROVE  h \in {HookOf(i) : i \in refresh[g].ids}
    <3>1. RefreshOf(g) /\ refresh[g].pc = "install" /\ ReportInv
      BY <1>1, <2>1 DEF ViewInv, ReadyToShow
    <3>2. runs[h] \in refresh[g].ids /\ h \in Hooks
      BY <2>1, <3>1 DEF RefreshOf, IsRefresh
    <3>3. runs[h] \in RunIds
      <4>1. refresh[g].ids \subseteq RunIds
        BY <3>1 DEF RefreshOf
      <4> QED BY <3>2, <4>1
    <3>4. runs[h] # 0
      BY <3>3 DEF RunIds, Recorded
    <3>5. HookOf(runs[h]) = h
      BY <3>1, <3>2, <3>4, RunOfHook
    <3> QED BY <3>2, <3>5
  <2> QED BY <2>1 DEF NoFailureHidden
<1> QED BY <1>1, ViewIsConsistent, PTL

\* It is shown as both only when its run came after the refresh had begun, or the
\* durable failures could not be read.
THEOREM FailuresAreShownOnce == Spec => []NoFailureTwice
<1>1. ASSUME ViewInv PROVE NoFailureTwice
  <2>1. ASSUME NEW g \in Refreshes, ReadyToShow(g), ~refresh[g].blind,
               NEW i \in refresh[g].ids, HookOf(i) \in refresh[g].alerts
        PROVE  i > refresh[g].base
    <3>1. RefreshOf(g) /\ refresh[g].pc = "install" /\ ReportInv
      BY <1>1, <2>1 DEF ViewInv, ReadyToShow
    <3>2. i \in RunIds
      <4>1. refresh[g].ids \subseteq RunIds
        BY <3>1 DEF RefreshOf
      <4> QED BY <2>1, <4>1
    <3>3. runs[HookOf(i)] = i /\ i # 0
      BY <3>1, <3>2, HookOfRun DEF RunIds, Recorded
    <3> QED BY <2>1, <3>1, <3>3 DEF RefreshOf
  <2> QED BY <2>1 DEF NoFailureTwice
<1> QED BY <1>1, ViewIsConsistent, PTL

-----------------------------------------------------------------------------
(* The acknowledgements.  A file has one entry too many at most, so that a  *)
(* pruning leaves everything, or leaves out the smallest of the others.     *)

RefreshEmpty(g) == refresh[g].pc = "none" => refresh[g] = NoRefresh

AckInv ==
  /\ ViewInv
  /\ \A g \in Refreshes : RefreshEmpty(g)
  /\ shown # None => /\ shown.attention \cap shown.recent = {}
                     /\ shown.attention \subseteq RunIds
  /\ acks \subseteq RunIds /\ observer \subseteq RunIds
  /\ Cardinality(acks) <= MaxAcks
  /\ acking # None => acking.run \in acking.ids /\ acking.ids \subseteq RunIds

\* A set of finite sets has one that includes no other: the library's subset ordering
\* is well-founded.
LEMMA SmallestSet ==
  ASSUME NEW S, NEW F \in SUBSET FiniteSubsetsOf(S), F # {}
  PROVE  \E A \in F : \A B \in F : B \subseteq A => B = A
<1> DEFINE R == StrictSubsetOrdering(S)
           G == FiniteSubsetsOf(S)
<1>1. IsWellFoundedOn(R, G)
  BY FS_StrictSubsetOrderingWellFounded
<1>2. F \subseteq G /\ F \subseteq SUBSET S
  BY DEF FiniteSubsetsOf
<1>3. \A A, B \in F : <<B, A>> \in R <=> B \subseteq A /\ B # A
  BY <1>2 DEF StrictSubsetOrdering
<1> HIDE DEF R, G
<1>4. \E A \in F : \A B \in F : ~ (<<B, A>> \in R)
  BY <1>1, <1>2, WFMin
<1> QED BY <1>3, <1>4

LEMMA LeastNat ==
  ASSUME NEW T \in SUBSET Nat, T # {}
  PROVE  \E m \in T : \A n \in T : m <= n
<1> DEFINE F == {0 .. n : n \in T}
<1>1. F # {} /\ F \in SUBSET FiniteSubsetsOf(Nat)
  <2> SUFFICES ASSUME NEW n \in T PROVE 0 .. n \in FiniteSubsetsOf(Nat)
    OBVIOUS
  <2>1. IsFiniteSet(0 .. n) /\ 0 .. n \subseteq Nat
    BY FS_Interval
  <2> QED BY <2>1 DEF FiniteSubsetsOf
<1>2. /\ \A B \in F : \E m \in T : B = 0 .. m
      /\ \A n \in T : 0 .. n \in F
  OBVIOUS
<1> HIDE DEF F
<1>3. PICK A \in F : \A B \in F : B \subseteq A => B = A
  BY <1>1, SmallestSet
<1>4. PICK m \in T : A = 0 .. m
  BY <1>2
<1>5. ASSUME NEW n \in T, ~(m <= n) PROVE FALSE
  <2>1. 0 .. n \subseteq 0 .. m /\ m \notin 0 .. n /\ m \in 0 .. m
    BY <1>5
  <2> QED BY <1>2, <1>3, <1>4, <2>1
<1> QED BY <1>5

\* The pruning of a set with one element too many keeps the run at hand and the newest.
LEMMA PrunedShape ==
  ASSUME NEW ids \in SUBSET Nat, IsFiniteSet(ids), Cardinality(ids) <= MaxAcks + 1,
         NEW now \in ids
  PROVE  /\ Pruned(ids, now) \subseteq ids /\ now \in Pruned(ids, now)
         /\ \A m \in Pruned(ids, now), j \in ids \ Pruned(ids, now) : m = now \/ m > j
         /\ \/ Cardinality(Pruned(ids, now)) = MaxAcks
            \/ Cardinality(Pruned(ids, now)) = Cardinality(ids)
         /\ Cardinality(Pruned(ids, now)) <= MaxAcks
<1> DEFINE k == Min({MaxAcks, Cardinality(ids)})
           Keeps(kept) == \A i \in kept, j \in ids \ kept : j # now /\ (i = now \/ i > j)
<1>1. MaxAcks \in Nat \ {0} /\ Cardinality(ids) \in Nat
  BY ViewAssumption, FS_CardinalityType
<1>2. /\ k \in {MaxAcks, Cardinality(ids)} /\ k <= MaxAcks /\ k <= Cardinality(ids)
  BY <1>1 DEF Min
<1>3. \E kept \in kSubset(k, ids) : Keeps(kept)
  <2>1. CASE Cardinality(ids) <= MaxAcks
    <3>1. k = Cardinality(ids)
      BY <1>1, <1>2, <2>1
    <3>2. ids \in kSubset(k, ids)
      BY <3>1 DEF kSubset
    <3> QED BY <3>2
  <2>2. CASE Cardinality(ids) > MaxAcks
    <3>1. Cardinality(ids) = MaxAcks + 1 /\ k = MaxAcks
      BY <1>1, <1>2, <2>2
    <3> DEFINE others == ids \ {now}
    <3>2. others # {}
      <4>1. Cardinality(others) = MaxAcks /\ MaxAcks # 0
        BY <1>1, <3>1, FS_RemoveElement
      <4> QED BY <4>1, FS_EmptySet
    <3>3. PICK m \in others : \A n \in others : m <= n
      BY <3>2, LeastNat
    <3>4. ids \ {m} \in kSubset(k, ids)
      <4>1. Cardinality(ids \ {m}) = MaxAcks
        BY <1>1, <3>1, FS_RemoveElement
      <4> QED BY <3>1, <4>1 DEF kSubset
    <3>5. Keeps(ids \ {m})
      BY <3>3
    <3> QED BY <3>4, <3>5
  <2>3. Cardinality(ids) <= MaxAcks \/ Cardinality(ids) > MaxAcks
    BY <1>1
  <2> HIDE DEF k, Keeps
  <2> QED BY <2>1, <2>2, <2>3
<1>4. Pruned(ids, now) \in kSubset(k, ids) /\ Keeps(Pruned(ids, now))
  BY <1>3 DEF Pruned
<1>5. Pruned(ids, now) \subseteq ids /\ Cardinality(Pruned(ids, now)) = k
  BY <1>4 DEF kSubset
<1>6. now \in Pruned(ids, now)
  <2>1. k # 0
    <3>1. Cardinality(ids) # 0
      BY FS_EmptySet
    <3> QED BY <1>1, <1>2, <3>1
  <2>2. Pruned(ids, now) # {}
    BY <1>5, <2>1, FS_EmptySet
  <2>3. PICK i \in Pruned(ids, now) : TRUE
    BY <2>2
  <2> QED BY <1>4, <2>3
<1> QED BY <1>2, <1>4, <1>5, <1>6

LEMMA AcksFinite ==
  ASSUME AckInv
  PROVE  IsFiniteSet(acks)
<1>1. RunIds \subseteq 0 .. Cardinality(Recorded) /\ Cardinality(Recorded) \in Nat
  <2>1. /\ ReportInv /\ RunIds \subseteq Nat
    BY DEF AckInv, ViewInv, RunIds, Recorded, ReportInv, ReportTypeOK
  <2>2. Cardinality(Recorded) \in Nat /\ \A h \in Hooks : runs[h] <= Cardinality(Recorded)
    BY <2>1, RecordedFinite DEF ReportInv, IdsInOrder
  <2> QED BY <2>1, <2>2 DEF RunIds, Recorded
<1>2. IsFiniteSet(0 .. Cardinality(Recorded))
  BY <1>1, FS_Interval
<1>3. acks \in SUBSET (0 .. Cardinality(Recorded))
  BY <1>1 DEF AckInv
<1> QED BY <1>2, <1>3, FS_Subset

LEMMA AddsKeeps ==
  ASSUME AckInv, NEW i \in RunIds, Adds(i)
  PROVE  /\ acks' \subseteq RunIds /\ i \in acks'
         /\ Cardinality(acks') <= MaxAcks
<1>1. PICK ids \in {acks, {}} : acks' = Pruned(ids \cup {i}, i)
  BY DEF Adds
<1>2. ReportInv /\ RunIds \subseteq Nat
  BY DEF AckInv, ViewInv, RunIds, Recorded, ReportInv, ReportTypeOK
<1>3. IsFiniteSet(acks) /\ Cardinality(acks) \in Nat
  BY AcksFinite, FS_CardinalityType
<1>4. IsFiniteSet(ids) /\ Cardinality(ids) \in Nat /\ Cardinality(ids) <= MaxAcks
  BY <1>1, <1>3, FS_EmptySet, ViewAssumption DEF AckInv
<1> DEFINE new == ids \cup {i}
<1>5. /\ IsFiniteSet(new) /\ Cardinality(new) <= MaxAcks + 1
      /\ new \subseteq RunIds /\ i \in new
  BY <1>1, <1>4, FS_AddElement, ViewAssumption DEF AckInv
<1>6. new \in SUBSET Nat /\ acks' = Pruned(new, i)
  BY <1>1, <1>2, <1>5
<1> HIDE DEF new
<1> QED BY <1>5, <1>6, PrunedShape

LEMMA AckInitially == Init => AckInv
<1> SUFFICES ASSUME Init PROVE AckInv
  OBVIOUS
<1>1. ViewInv
  BY ViewInitially
<1>2. \A g \in Refreshes : RefreshEmpty(g)
  BY DEF Init, ViewInit, RefreshEmpty
<1>3. Cardinality({}) <= MaxAcks
  BY FS_EmptySet, ViewAssumption
<1> QED BY <1>1, <1>2, <1>3 DEF Init, ViewInit, AckInv

\* A refresh has left "none" or is untouched.
LEMMA RefreshEmptyStep ==
  ASSUME AckInv, [Next]_vars, NEW g \in Refreshes
  PROVE  RefreshEmpty(g)'
<1>1. RefreshEmpty(g) /\ DOMAIN refresh = Refreshes
  BY DEF AckInv, ViewInv
<1>2. CASE RefreshStarts \/ Acknowledged
  <2>1. refresh' = Refreshed
    BY <1>2 DEF RefreshStarts, Acknowledged
  <2>2. refresh'[g] = refresh[g] \/ refresh'[g].pc = "log"
    BY <1>1, <2>1 DEF Refreshed, NoRefresh
  <2> QED BY <1>1, <2>2 DEF RefreshEmpty
<1>3. ASSUME NEW f \in Refreshes,
             ReadsLog(f) \/ ReadsKeys(f) \/ PassesObserver(f) \/ ReadsRuns(f)
      PROVE  RefreshEmpty(g)'
  <2>1. IsRefresh(refresh[f])
    BY DEF AckInv, ViewInv, RefreshOf
  <2>2. g # f => refresh'[g] = refresh[g]
    BY <1>1, <1>3 DEF ReadsLog, ReadsKeys, PassesObserver, ReadsRuns
  <2>3. refresh'[f].pc \in {"keys", "pass", "runs", "install"}
    <3>1. CASE ReadsLog(f)
      BY <1>1, <2>1, <3>1 DEF ReadsLog, IsRefresh
    <3>2. CASE ReadsKeys(f)
      BY <1>1, <2>1, <3>2 DEF ReadsKeys, IsRefresh
    <3>3. CASE PassesObserver(f) \/ ReadsRuns(f)
      BY <1>1, <2>1, <3>3 DEF PassesObserver, ReadsRuns, IsRefresh
    <3> QED BY <1>3, <3>1, <3>2, <3>3
  <2> QED BY <1>1, <2>2, <2>3 DEF RefreshEmpty
<1>4. ASSUME NEW f \in Refreshes, Installs(f) \/ RefreshFails(f)
      PROVE  RefreshEmpty(g)'
  BY <1>1, <1>4 DEF Installs, RefreshFails, RefreshEmpty
<1>5. CASE UNCHANGED refresh
  BY <1>1, <1>5 DEF RefreshEmpty
<1> QED BY <1>2, <1>3, <1>4, <1>5 DEF Next, ViewNext, Rest, vars, viewVars, Acknowledges,
                                       OtherAcknowledges

LEMMA RunIdsGrow ==
  ASSUME AckInv, [Next]_vars
  PROVE  RunIds \subseteq RunIds'
<1>1. CASE ReportNext
  <2>1. \A h \in Hooks : runs[h] # 0 => runs'[h] = runs[h]
    BY <1>1, ReportGrows DEF AckInv, ViewInv, Grows
  <2> QED BY <2>1 DEF RunIds, Recorded
<1>2. CASE UNCHANGED runs
  BY <1>2 DEF RunIds, Recorded
<1> QED BY <1>1, <1>2 DEF Next, ViewNext, Rest, vars, reportVars, RefreshStarts, Acknowledged,
                          ReadsLog, ReadsKeys, PassesObserver, ReadsRuns, Installs,
                          RefreshFails, Acknowledges, OtherAcknowledges

\* What the acknowledgements and the screen say, by the step that changes them.
LEMMA AckStep ==
  ASSUME AckInv, [Next]_vars
  PROVE  AckInv'
<1>1. ViewInv' /\ \A g \in Refreshes : RefreshEmpty(g)'
  BY ViewStep, RefreshEmptyStep DEF AckInv
<1>2. RunIds \subseteq RunIds' /\ Refreshes' = Refreshes
  BY RunIdsGrow DEF Refreshes
<1>3. CASE UNCHANGED <<shown, observer, acks, acking>>
  BY <1>1, <1>2, <1>3 DEF AckInv
<1>4. CASE Acknowledged
  BY <1>1, <1>2, <1>4 DEF AckInv, Acknowledged
<1>5. ASSUME NEW g \in Refreshes, Installs(g), Latest(g)
      PROVE  AckInv'
  <2>1. shown' = Snapshot(g) /\ UNCHANGED <<observer, acks, acking>>
    BY <1>5 DEF Installs
  <2>2. refresh[g].ids \subseteq RunIds
    BY <1>5 DEF AckInv, ViewInv, RefreshOf, Installs
  <2>3. shown'.attention \cap shown'.recent = {} /\ shown'.attention \subseteq RunIds
    BY <2>1, <2>2 DEF Snapshot
  <2> QED BY <1>1, <1>2, <2>1, <2>3 DEF AckInv
<1>6. ASSUME NEW i \in Ids, Acknowledges(i)
      PROVE  AckInv'
  <2>1. i \in RunIds /\ Adds(i) /\ UNCHANGED <<shown, observer>>
    BY <1>6 DEF Acknowledges, AckInv
  <2>2. acks' \subseteq RunIds /\ i \in acks' /\ Cardinality(acks') <= MaxAcks
    BY <2>1, AddsKeeps
  <2>3. acking'.run = i /\ acking'.ids = acks'
    BY <1>6 DEF Acknowledges
  <2> QED BY <1>1, <1>2, <2>1, <2>2, <2>3 DEF AckInv
<1>7. ASSUME NEW i \in Ids, OtherAcknowledges(i)
      PROVE  AckInv'
  <2>1. i \in RunIds /\ Adds(i) /\ UNCHANGED <<shown, observer, acking>>
    BY <1>7 DEF OtherAcknowledges
  <2>2. acks' \subseteq RunIds /\ i \in acks' /\ Cardinality(acks') <= MaxAcks
    BY <2>1, AddsKeeps
  <2> QED BY <1>1, <1>2, <2>1, <2>2 DEF AckInv
<1> QED BY <1>3, <1>4, <1>5, <1>6, <1>7
       DEF Next, ViewNext, Rest, vars, viewVars, RefreshStarts, ReadsLog, ReadsKeys,
           PassesObserver, ReadsRuns, Installs, RefreshFails

\* The acknowledgements are ids of runs, never more than the file may hold, and a run
\* is not shown as needing attention and as recent together.
THEOREM ViewIsTyped == Spec => []ViewTypeOK
<1>1. Spec => []AckInv
  BY AckInitially, AckStep, PTL DEF Spec
<1>2. AckInv => ViewTypeOK
  <2> SUFFICES ASSUME AckInv PROVE ViewTypeOK
    OBVIOUS
  <2>1. \A g \in Refreshes : refresh[g] # NoRefresh => g <= generation
    BY DEF AckInv, ViewInv, RefreshOf, RefreshEmpty
  <2> QED BY <2>1 DEF AckInv, ViewInv, ViewTypeOK
<1> QED BY <1>1, <1>2, PTL

\* However full the file is, the run that was just acknowledged stays acknowledged.
THEOREM LatestStays == Spec => LatestIsKept
<1>1. Spec => []AckInv
  BY AckInitially, AckStep, PTL DEF Spec
<1>2. ASSUME AckInv, [Next]_vars, acking # None, acking' = None
      PROVE  acking.run \in observer'
  <2>1. Acknowledged
    BY <1>2 DEF Next, ViewNext, Rest, vars, viewVars, RefreshStarts, ReadsLog, ReadsKeys,
                PassesObserver, ReadsRuns, Installs, RefreshFails, Acknowledges,
                OtherAcknowledges
  <2> QED BY <1>2, <2>1 DEF Acknowledged, AckInv
<1>3. ASSUME AckInv, [Next]_vars
      PROVE  [acking # None /\ acking' = None => acking.run \in observer']_vars
  BY <1>2, <1>3
<1> QED BY <1>1, <1>3, PTL DEF Spec, LatestIsKept

-----------------------------------------------------------------------------
(* What becomes of an acknowledgement.  Once an id is pruned, newer ones    *)
(* fill the file up to one place, which is the place of the run at hand.    *)

\* An id is in a set of acknowledgements, or as many newer ones are as a pruning keeps.
Outlives(i, ids) == i \in ids \/ Cardinality(Newer(i, ids)) >= MaxAcks - 1

KeptInv ==
  /\ AckInv
  /\ observer \subseteq told /\ told \subseteq RunIds
  /\ forgotten \in BOOLEAN
  /\ ~forgotten =>
       /\ \A i \in told : Outlives(i, observer) /\ Outlives(i, acks)
       /\ acking # None => /\ \A i \in told : Outlives(i, acking.ids)
                           /\ \A i \in acking.ids : Outlives(i, acks)

LEMMA NewerFinite ==
  ASSUME NEW ids, IsFiniteSet(ids), NEW i
  PROVE  IsFiniteSet(Newer(i, ids)) /\ Cardinality(Newer(i, ids)) \in Nat
<1>1. Newer(i, ids) \subseteq ids
  BY DEF Newer
<1> QED BY <1>1, FS_Subset, FS_CardinalityType

\* A pruning drops an id only for newer ones and the run at hand.
LEMMA PrunedOutlives ==
  ASSUME NEW ids \in SUBSET Nat, IsFiniteSet(ids), Cardinality(ids) <= MaxAcks,
         NEW now \in Nat, NEW i \in Nat, Outlives(i, ids)
  PROVE  Outlives(i, Pruned(ids \cup {now}, now))
<1> DEFINE new == ids \cup {now}
           kept == Pruned(new, now)
<1>a. MaxAcks \in Nat \ {0} /\ Cardinality(ids) \in Nat
  BY FS_CardinalityType, ViewAssumption
<1>b. IsFiniteSet(new) /\ Cardinality(new) <= MaxAcks + 1
  <2>1. IsFiniteSet(new) /\ Cardinality(new) \in {Cardinality(ids), Cardinality(ids) + 1}
    BY FS_AddElement
  <2> HIDE DEF new
  <2> QED BY <1>a, <2>1
<1>1. /\ IsFiniteSet(new) /\ Cardinality(new) <= MaxAcks + 1 /\ new \in SUBSET Nat
      /\ now \in new /\ ids \subseteq new
      /\ MaxAcks \in Nat \ {0} /\ Cardinality(ids) \in Nat
  BY <1>a, <1>b
<1> HIDE DEF new
<1>2. /\ kept \subseteq new /\ now \in kept /\ IsFiniteSet(kept) /\ Cardinality(new) \in Nat
      /\ \A m \in kept, j \in new \ kept : m = now \/ m > j
      /\ Cardinality(kept) = Cardinality(new) \/ Cardinality(kept) = MaxAcks
  BY <1>1, PrunedShape, FS_Subset, FS_CardinalityType
<1> HIDE DEF kept
\* A dropped id leaves a full file behind, all of it newer but for the run at hand.
<1>3. ASSUME NEW d \in new, d \notin kept
      PROVE  Cardinality(Newer(d, kept)) >= MaxAcks - 1
  <2>1. Cardinality(kept) = MaxAcks
    <3>1. Cardinality(kept) # Cardinality(new)
      <4>1. kept # new
        BY <1>3
      <4> QED BY <1>1, <1>2, <4>1, FS_Subset
    <3> QED BY <1>2, <3>1
  <2>2. kept \ {now} \subseteq Newer(d, kept)
    BY <1>2, <1>3 DEF Newer
  <2>3. Cardinality(kept \ {now}) = MaxAcks - 1
    BY <1>2, <2>1, FS_RemoveElement
  <2>4. /\ Cardinality(kept \ {now}) <= Cardinality(Newer(d, kept))
        /\ Cardinality(Newer(d, kept)) \in Nat
    BY <1>2, <2>2, NewerFinite, FS_Subset
  <2> QED BY <1>1, <2>3, <2>4
<1>4. ASSUME i \in ids PROVE Outlives(i, kept)
  BY <1>1, <1>3, <1>4 DEF Outlives
<1>5. ASSUME Cardinality(Newer(i, ids)) >= MaxAcks - 1 PROVE Outlives(i, kept)
  <2>1. CASE Newer(i, ids) \subseteq kept
    <3>1. Newer(i, ids) \subseteq Newer(i, kept)
      BY <2>1 DEF Newer
    <3>2. /\ Cardinality(Newer(i, ids)) <= Cardinality(Newer(i, kept))
          /\ Cardinality(Newer(i, kept)) \in Nat /\ Cardinality(Newer(i, ids)) \in Nat
      BY <1>2, <3>1, NewerFinite, FS_Subset
    <3> QED BY <1>1, <1>5, <3>2 DEF Outlives
  <2>2. CASE ~(Newer(i, ids) \subseteq kept)
    <3>1. PICK d \in Newer(i, ids) : d \notin kept
      BY <2>2
    <3>2. d \in new /\ d > i /\ d \in Nat
      BY <1>1, <3>1 DEF Newer
    <3>3. Newer(d, kept) \subseteq Newer(i, kept)
      <4>1. kept \subseteq Nat
        BY <1>1, <1>2
      <4>2. ASSUME NEW j \in kept, j > d PROVE j > i
        BY <3>2, <4>1, <4>2
      <4> QED BY <4>2 DEF Newer
    <3>4. /\ Cardinality(Newer(d, kept)) <= Cardinality(Newer(i, kept))
          /\ Cardinality(Newer(i, kept)) \in Nat /\ Cardinality(Newer(d, kept)) \in Nat
      BY <1>2, <3>3, NewerFinite, FS_Subset
    <3> QED BY <1>1, <1>3, <3>1, <3>2, <3>4 DEF Outlives
  <2> QED BY <2>1, <2>2
<1>6. Outlives(i, kept)
  BY <1>4, <1>5 DEF Outlives
<1> QED BY <1>6 DEF new, kept

\* What the file holds outlives an acknowledgement that could read the file.
LEMMA AddsOutlives ==
  ASSUME KeptInv, NEW now \in RunIds, Adds(now), ~forgotten', NEW i \in RunIds,
         Outlives(i, acks)
  PROVE  Outlives(i, acks')
<1>1. acks' = Pruned(acks \cup {now}, now)
  BY DEF Adds, Loads
<1>2. RunIds \subseteq Nat /\ acks \subseteq RunIds /\ Cardinality(acks) <= MaxAcks
  BY DEF KeptInv, AckInv, ViewInv, RunIds, Recorded, ReportInv, ReportTypeOK
<1>3. IsFiniteSet(acks)
  BY AcksFinite DEF KeptInv
<1> QED BY <1>1, <1>2, <1>3, PrunedOutlives

LEMMA AddsForgets ==
  ASSUME NEW i, Adds(i), forgotten \in BOOLEAN
  PROVE  forgotten' \in BOOLEAN /\ (~forgotten' => ~forgotten)
<1>1. forgotten' = forgotten \/ forgotten' = TRUE
  BY DEF Adds, Loads
<1> QED BY <1>1

LEMMA KeptInitially == Init => KeptInv
BY AckInitially DEF Init, ViewInit, KeptInv

LEMMA KeptStep ==
  ASSUME KeptInv, [Next]_vars
  PROVE  KeptInv'
<1>1. AckInv' /\ RunIds \subseteq RunIds' /\ AckInv
  BY AckStep, RunIdsGrow DEF KeptInv
<1>2. CASE UNCHANGED <<observer, acks, acking, histVars>>
  BY <1>1, <1>2 DEF KeptInv, Outlives, Newer, histVars
<1>3. CASE Acknowledged
  <2>1. /\ acking # None /\ acking' = None /\ observer' = acking.ids
        /\ told' = told \cup acking.ids /\ UNCHANGED <<acks, forgotten>>
    BY <1>3 DEF Acknowledged
  <2>2. acking.ids \subseteq RunIds
    BY <1>1, <2>1 DEF AckInv
  <2>3. observer' \subseteq told' /\ told' \subseteq RunIds' /\ forgotten' \in BOOLEAN
    BY <1>1, <2>1, <2>2 DEF KeptInv
  <2>4. ASSUME ~forgotten', NEW i \in told'
        PROVE  Outlives(i, observer') /\ Outlives(i, acks')
    <3>1. CASE i \in told
      BY <2>1, <2>4, <3>1 DEF KeptInv
    <3>2. CASE i \in acking.ids
      BY <2>1, <2>4, <3>2 DEF KeptInv, Outlives
    <3> QED BY <2>1, <2>4, <3>1, <3>2
  <2> QED BY <1>1, <2>1, <2>3, <2>4 DEF KeptInv, Outlives, Newer
<1>4. ASSUME NEW now \in Ids, Acknowledges(now)
      PROVE  KeptInv'
  <2>1. /\ now \in RunIds /\ Adds(now) /\ UNCHANGED <<observer, told>>
        /\ acking'.ids = acks'
    BY <1>1, <1>4 DEF Acknowledges, AckInv
  <2>2. forgotten' \in BOOLEAN /\ (~forgotten' => ~forgotten)
    BY <2>1, AddsForgets DEF KeptInv
  <2>3. ASSUME ~forgotten', NEW i \in told
        PROVE  Outlives(i, observer) /\ Outlives(i, acks')
    <3>1. Outlives(i, observer) /\ Outlives(i, acks) /\ i \in RunIds
      BY <2>2, <2>3 DEF KeptInv
    <3> QED BY <2>1, <2>3, <3>1, AddsOutlives
  <2> QED BY <1>1, <2>1, <2>2, <2>3 DEF KeptInv, Outlives, Newer
<1>5. ASSUME NEW now \in Ids, OtherAcknowledges(now)
      PROVE  KeptInv'
  <2>1. now \in RunIds /\ Adds(now) /\ UNCHANGED <<observer, told, acking>>
    BY <1>5 DEF OtherAcknowledges
  <2>2. forgotten' \in BOOLEAN /\ (~forgotten' => ~forgotten)
    BY <2>1, AddsForgets DEF KeptInv
  <2>3. ASSUME ~forgotten', NEW i \in RunIds, Outlives(i, acks)
        PROVE  Outlives(i, acks')
    BY <2>1, <2>3, AddsOutlives
  <2>4. acking # None => acking.ids \subseteq RunIds
    BY <1>1 DEF AckInv
  <2> QED BY <1>1, <2>1, <2>2, <2>3, <2>4 DEF KeptInv, Outlives, Newer
<1> QED BY <1>2, <1>3, <1>4, <1>5
       DEF Next, ViewNext, Rest, vars, viewVars, RefreshStarts, ReadsLog, ReadsKeys,
           PassesObserver, ReadsRuns, Installs, RefreshFails

\* A failure the dashboard once knew as acknowledged needs attention again only when
\* newer acknowledgements fill the file up to one place, or the file could not be read.
THEOREM AcknowledgedStays == Spec => AcknowledgedIsRecent
<1>1. Spec => []KeptInv
  BY KeptInitially, KeptStep, PTL DEF Spec
<1>2. ASSUME KeptInv, [Next]_vars, shown' # shown, ~forgotten,
             NEW i \in shown'.attention \cap told
      PROVE  Cardinality(Newer(i, observer)) >= MaxAcks - 1
  <2>1. PICK g \in Refreshes : Installs(g)
    BY <1>2 DEF Next, ViewNext, Rest, vars, viewVars, RefreshStarts, Acknowledged, ReadsLog,
                ReadsKeys, PassesObserver, ReadsRuns, RefreshFails, Acknowledges,
                OtherAcknowledges
  <2>2. g = generation /\ refresh[g].pc = "install" /\ shown' = Snapshot(g)
    BY <1>2, <2>1 DEF Installs, Latest
  <2>3. refresh[g].observer = observer
    BY <1>2, <2>2 DEF KeptInv, AckInv, ViewInv, RefreshOf
  <2>4. i \notin observer /\ Outlives(i, observer)
    BY <1>2, <2>2, <2>3 DEF Snapshot, KeptInv
  <2> QED BY <2>4 DEF Outlives
<1>3. ASSUME KeptInv, [Next]_vars
      PROVE  [shown' # shown /\ ~forgotten =>
                \A i \in shown'.attention \cap told :
                   Cardinality(Newer(i, observer)) >= MaxAcks - 1]_vars
  BY <1>2, <1>3
<1> QED BY <1>1, <1>3, PTL DEF Spec, AcknowledgedIsRecent
=============================================================================
