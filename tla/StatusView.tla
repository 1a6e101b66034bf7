----------------------------- MODULE StatusView -----------------------------
(***************************************************************************)
(* The status dashboard (scripts/status_app.py) as it shows what the hooks *)
(* report: alerts from hooks.log (scripts/status_health.py),               *)
(* failed status runs, and the acknowledgements that are kept in           *)
(* status-view.json and shared with other dashboards                       *)
(* (scripts/status_store.py).                                              *)
(*                                                                         *)
(* A refresh is known by its generation.  It reads the log, the keys of    *)
(* the durable failures and the runs one after the other in threads, so    *)
(* that refreshes overlap, and the hooks go on in between.                 *)
(***************************************************************************)
EXTENDS HookReports, FiniteSetsExt

CONSTANTS
  MaxAcks,      \* MAX_ACKNOWLEDGED_RUN_IDS
  MaxRefreshes, \* bound: refreshes of the dashboard
  MaxOverlap    \* bound: refreshes under way together

ASSUME ViewAssumption == /\ MaxAcks \in Nat \ {0}
                         /\ MaxRefreshes \in Nat /\ MaxOverlap \in Nat

VARIABLES
  generation,  \* _refresh_generation
  refresh,     \* what each refresh has read so far
  shown,       \* the snapshot on the screen, or None
  observer,    \* the acknowledgements this dashboard knows of
  acks,        \* the acknowledgements in the file
  acking,      \* the acknowledgement this dashboard waits for, or None
  told,        \* history: every acknowledgement this dashboard has known of
  forgotten    \* history: an acknowledgement found the file unreadable

histVars == <<told, forgotten>>
viewVars == <<generation, refresh, shown, observer, acks, acking, histVars>>
vars == <<reportVars, viewVars>>

Refreshes == 1 .. MaxRefreshes
Ids == 1 .. Cardinality(Hooks)

NoRefresh == [pc |-> "none", observer |-> {}, base |-> 0, blind |-> FALSE,
              lines |-> {}, alerts |-> {}, ids |-> {}]
RunIds == {runs[h] : h \in Recorded}
HookOf(i) == CHOOSE h \in Hooks : runs[h] = i

UnderWay == {g \in Refreshes : refresh[g] # NoRefresh}
MayRefresh == generation < MaxRefreshes /\ Cardinality(UnderWay) < MaxOverlap

\* A new generation of the snapshot.
Refreshed ==
  [refresh EXCEPT ![generation + 1] =
     [NoRefresh EXCEPT !.pc = "log", !.base = Cardinality(Recorded)]]

RefreshStarts ==
  /\ MayRefresh
  /\ generation' = generation + 1
  /\ refresh' = Refreshed
  /\ UNCHANGED <<reportVars, shown, observer, acks, acking, histVars>>

\* read_recent_hook_alerts: the error lines of the log ...
ReadsLog(g) ==
  /\ refresh[g].pc = "log"
  /\ refresh' = [refresh EXCEPT ![g].pc = "keys",
                                ![g].lines = {h \in Hooks : log[h] \in Failure}]
  /\ UNCHANGED <<reportVars, generation, shown, observer, acks, acking, histVars>>

\* ... without those that have a durable run, if the queue can be read.
\* Mutant: only the failures of a capture are looked up.
DurableCaptures == {h \in Recorded : log[h] = "capture_failed"}
Durable == {h \in Recorded : log[h] \in Diagnostic}

ReadsKeys(g) ==
  /\ refresh[g].pc = "keys"
  /\ \/ /\ refresh' = [refresh EXCEPT ![g].pc = "pass", ![g].alerts = refresh[g].lines \ Durable]
        /\ NoMishap
     \/ /\ refresh' = [refresh EXCEPT ![g].pc = "pass", ![g].alerts = refresh[g].lines,
                                      ![g].blind = TRUE]
        /\ Mishap("unreadable")
  /\ UNCHANGED <<report, log, runs, generation, shown, observer, acks, acking, histVars>>

\* The dashboard hands the acknowledgements it knows now to the reader of the runs.
PassesObserver(g) ==
  /\ refresh[g].pc = "pass"
  /\ refresh' = [refresh EXCEPT ![g].pc = "runs", ![g].observer = observer]
  /\ UNCHANGED <<reportVars, generation, shown, observer, acks, acking, histVars>>

\* Mutant: the runs are those from before the refresh began.
ReadsRunsFirst(g) ==
  /\ refresh[g].pc = "runs"
  /\ refresh' = [refresh EXCEPT ![g].pc = "install", ![g].ids = 1 .. refresh[g].base]
  /\ UNCHANGED <<reportVars, generation, shown, observer, acks, acking, histVars>>

\* read_snapshot
ReadsRuns(g) ==
  /\ refresh[g].pc = "runs"
  /\ refresh' = [refresh EXCEPT ![g].pc = "install", ![g].ids = RunIds]
  /\ UNCHANGED <<reportVars, generation, shown, observer, acks, acking, histVars>>

\* Mutant: the result of an older refresh is shown too.
LatestOrOlder(g) == g <= generation
Latest(g) == g = generation

\* A failed run needs attention until it is acknowledged, and is recent after that.
Snapshot(g) == [alerts |-> refresh[g].alerts,
                attention |-> refresh[g].ids \ refresh[g].observer,
                recent |-> refresh[g].ids \cap refresh[g].observer]

\* Only the latest refresh is shown.
Installs(g) ==
  /\ refresh[g].pc = "install"
  /\ refresh' = [refresh EXCEPT ![g] = NoRefresh]
  /\ shown' = IF Latest(g) THEN Snapshot(g) ELSE shown
  /\ UNCHANGED <<reportVars, generation, observer, acks, acking, histVars>>

\* The reader raises: the queue is busy or unreadable.
RefreshFails(g) ==
  /\ refresh[g].pc = "runs" /\ Mishap("unreadable")
  /\ refresh' = [refresh EXCEPT ![g] = NoRefresh]
  /\ UNCHANGED <<report, log, runs, generation, shown, observer, acks, acking, histVars>>

\* Mutant: at the limit the newest runs are kept, whatever was acknowledged now.
PrunedByAge(ids, now) ==
  CHOOSE kept \in kSubset(Min({MaxAcks, Cardinality(ids)}), ids) :
    \A i \in kept, j \in ids \ kept : i > j

\* Mutant: nothing is pruned.
PrunedNever(ids, now) == ids

\* _prune_acknowledged_run_ids keeps the newest runs, and the one at hand.
Pruned(ids, now) ==
  CHOOSE kept \in kSubset(Min({MaxAcks, Cardinality(ids)}), ids) :
    \A i \in kept, j \in ids \ kept : j # now /\ (i = now \/ i > j)

\* _load_observer_state_unlocked: a file that cannot be read counts as empty.
Loads(ids) == \/ ids = acks /\ NoMishap /\ UNCHANGED forgotten
              \/ ids = {} /\ Mishap("unreadable") /\ forgotten' = TRUE

\* acknowledge_run, under the lock of the file
Adds(i) == \E ids \in {acks, {}} : Loads(ids) /\ acks' = Pruned(ids \cup {i}, i)

\* action_acknowledge: acknowledge_run in a thread ...
Acknowledges(i) ==
  /\ acking = None /\ shown # None /\ i \in shown.attention
  /\ Adds(i)
  /\ acking' = [run |-> i, ids |-> acks']
  /\ UNCHANGED <<report, log, runs, generation, refresh, shown, observer, told>>

\* ... then the dashboard takes over what was written, and refreshes.
Acknowledged ==
  /\ acking # None /\ MayRefresh
  /\ observer' = acking.ids /\ acking' = None
  /\ told' = told \cup acking.ids
  /\ generation' = generation + 1
  /\ refresh' = Refreshed
  /\ UNCHANGED <<reportVars, shown, acks, forgotten>>

\* Another dashboard acknowledges a run.
OtherAcknowledges(i) ==
  /\ i \in RunIds \ acks
  /\ Adds(i)
  /\ UNCHANGED <<report, log, runs, generation, refresh, shown, observer, acking, told>>

ViewNext == \/ RefreshStarts \/ Acknowledged
            \/ \E g \in Refreshes : \/ ReadsLog(g) \/ ReadsKeys(g)
                                    \/ PassesObserver(g) \/ ReadsRuns(g)
                                    \/ Installs(g) \/ RefreshFails(g)
            \/ \E i \in Ids : Acknowledges(i) \/ OtherAcknowledges(i)

ViewInit ==
  /\ generation = 0
  /\ refresh = [g \in Refreshes |-> NoRefresh]
  /\ shown = None
  /\ observer = {} /\ acks = {} /\ acking = None
  /\ told = {} /\ forgotten = FALSE

Init == ReportInit /\ ViewInit

\* Every hook is over and the dashboard is closed.
Rest == (\A h \in Hooks : Over(h)) /\ UNCHANGED vars

Next == \/ ReportNext /\ UNCHANGED viewVars
        \/ ViewNext
        \/ Rest

Spec == Init /\ [][Next]_vars

-----------------------------------------------------------------------------
ViewTypeOK ==
  /\ generation \in 0 .. MaxRefreshes
  /\ \A g \in Refreshes : refresh[g] # NoRefresh => g <= generation
  /\ shown # None => shown.attention \cap shown.recent = {}
  /\ acks \subseteq RunIds /\ observer \subseteq RunIds
  /\ Cardinality(acks) <= MaxAcks
  /\ acking # None => acking.run \in RunIds

ReadyToShow(g) == refresh[g].pc = "install"

\* A failure that is in the log when a refresh reads it is shown by this refresh, as
\* an alert or as a run, although its run may be written while the refresh reads.
NoFailureHidden ==
  \A g \in Refreshes :
    ReadyToShow(g) => refresh[g].lines \subseteq
                        refresh[g].alerts \cup {HookOf(i) : i \in refresh[g].ids}

\* It is shown as both only when its run was written after the refresh had begun, or
\* the queue could not be read for a moment.
NoFailureTwice ==
  \A g \in Refreshes :
    ReadyToShow(g) /\ ~refresh[g].blind =>
      \A i \in refresh[g].ids : HookOf(i) \in refresh[g].alerts => i > refresh[g].base

Newer(i, ids) == {j \in ids : j > i}

\* A failure that this dashboard has once known as acknowledged is put on the screen as
\* needing attention again only when as many newer failures as the limit leaves room for
\* are acknowledged, so that its id was pruned, or when the file could not be read.
\* Neither a refresh that began before the acknowledgement nor the acknowledgements of
\* other dashboards bring it back.
AcknowledgedIsRecent ==
  [][shown' # shown /\ ~forgotten =>
       \A i \in shown'.attention \cap told : Cardinality(Newer(i, observer)) >= MaxAcks - 1]_vars

\* The run that was just acknowledged is among those that are kept.
LatestIsKept ==
  [][acking # None /\ acking' = None => acking.run \in observer']_vars
=============================================================================
