-------------------------- MODULE HistoricalImport --------------------------
(***************************************************************************)
(* The historical import of scripts/batch-flush.py on top of the capture   *)
(* queue.  `batch-flush` reads old transcripts, gives their sessions to    *)
(* the queue the live captures use, drains that queue itself, and keeps    *)
(* the books of what its Claude sessions cost in scripts/state.json: the   *)
(* sessions already accounted for, their total, and the reservations that  *)
(* keep several imports with --max-cost from spending the same money.      *)
(*                                                                         *)
(* The books are read, changed and replaced under memory-writer.lock, so   *)
(* that is one action (it reads the statuses of the jobs one by one, but   *)
(* what it does with one does not depend on the others); the queue changes *)
(* in between.  An import may be killed between any two actions and run    *)
(* again.  All costs are counted in FLUSH_COST_ESTIMATE.                   *)
(*                                                                         *)
(* An import drains without the singleton lock of the live worker, beside  *)
(* it and beside other imports, and its lease owners are historical-0, ..  *)
(* in every process: an owner does not say who works.  So anyone may take  *)
(* any step of a worker, for any owner, at any time.                       *)
(***************************************************************************)
EXTENDS JobQueue, FiniteSets, FiniteSetsExt

CONSTANTS
  Imports,           \* processes that run execute_historical_import
  Wanted,            \* the sessions an import finds and its options select
  Processed,         \* sessions the import of an older version has recorded as done
  MaxCost,           \* the value of --max-cost
  Cost,              \* what Claude reports for a session, zero when Codex served it
  ReservationTicks   \* thirty minutes, in ticks

ASSUME ImportAssumption ==
  /\ IsFiniteSet(Captures)  \* every session is a transcript on the disk
  /\ Wanted \in [Imports -> SUBSET Captures]
  /\ Processed \subseteq Captures
  /\ MaxCost \in Nat
  /\ Cost \in [Captures -> 0..1]
  /\ ReservationTicks \in Nat \ {0}

VARIABLES
  imp,        \* [Imports -> Import]
  reserved,   \* historical_cost_reservations: session -> ticks until it expires
  accounted,  \* accounted_historical_jobs
  total,      \* total_cost
  granted     \* history: the sessions imports with a limit may spend money on, unless
              \* their reservation was given up since

importVars == <<imp, reserved, accounted, total, granted>>
vars == <<jobs, runs, imp, reserved, accounted, total, granted>>

\* `sessions` is what the import still works with; `found` the succeeded ones among
\* them, or, while it enqueues, the ones it has not given to the queue yet.
Import ==
  [pc : {"idle", "looks", "settles", "reserves", "plans", "enqueues", "drains",
         "looksAgain", "settlesAgain"},
   sessions : SUBSET Captures, found : SUBSET Captures]

Idle == [pc |-> "idle", sessions |-> {}, found |-> {}]

Init ==
  /\ QueueInit
  /\ imp = [i \in Imports |-> Idle]
  /\ reserved = << >>
  /\ accounted = {}
  /\ total = 0
  /\ granted = {}

At(i, pc) == imp[i].pc = pc

-----------------------------------------------------------------------------
(* The books.                                                              *)

Reserved == DOMAIN reserved
InStatus(c, S) == jobs[c].status \in S

CostOf(S) == MapThenSumSet(LAMBDA c : Cost[c], S)

\* Mutant: a reservation only lasts until the session is in the queue.
KeepsUntilQueued(c) == InStatus(c, {"absent"}) /\ reserved[c] > 0

\* A reservation that is kept: its job is on its way, or there is no job yet and it has
\* not expired.
Keeps(c) ==
  \/ InStatus(c, {"pending", "leased"})
  \/ InStatus(c, {"absent"}) /\ reserved[c] > 0

\* Mutant: reservations are dropped when they are paid, and at no other time.
KeptUntilPaid == {c \in Reserved : ~InStatus(c, {"succeeded"})}

Kept == {c \in Reserved : Keeps(c)}

\* Given up: reserved for a job that waits for its next attempt, or expired before there
\* was a job.
GivenUp ==
  {c \in Reserved : InStatus(c, {"failed"}) \/ (InStatus(c, {"absent"}) /\ reserved[c] = 0)}

\* The reserved sessions that succeeded.
Paid == {c \in Reserved : InStatus(c, {"succeeded"})}

\* Mutant: what a session cost is added each time its success is seen.
UnaccountedAll(S) == S

Unaccounted(S) == S \ accounted

\* A kept reservation that another import may take over: nobody works on its job.
MayTakeOver(c) ==
  \/ InStatus(c, {"pending"}) /\ reserved[c] = 0
  \/ Stale(c)

\* Mutant: the reservations another import holds are not counted.
LeftToSpendUnreserved(spent, held) == MaxCost - spent

LeftToSpend(spent, held) == MaxCost - spent - Cardinality(held)

-----------------------------------------------------------------------------
(* An import.                                                              *)

Start(i) ==
  /\ At(i, "idle")
  /\ imp' = [imp EXCEPT ![i] = [pc |-> "looks", sessions |-> Wanted[i], found |-> {}]]
  /\ UNCHANGED <<jobs, runs, reserved, accounted, total, granted>>

\* _reconcile_legacy_claude_cost before it has the lock: which sessions succeeded.
Looks(i, from, to) ==
  /\ At(i, from)
  /\ imp' = [imp EXCEPT ![i] =
       [@ EXCEPT !.pc = to, !.found = {c \in imp[i].sessions : InStatus(c, {"succeeded"})}]]
  /\ UNCHANGED <<jobs, runs, reserved, accounted, total, granted>>

\* .. and under the lock: successes are accounted for, reservations kept or dropped.  An
\* import without sessions does nothing.
Settles(i, from, to) ==
  /\ At(i, from)
  /\ imp' = [imp EXCEPT ![i] =
       IF to = "idle" THEN Idle ELSE [@ EXCEPT !.pc = to, !.found = {}]]
  /\ IF imp[i].sessions = {} THEN UNCHANGED <<reserved, accounted, total, granted>>
     ELSE LET new == Unaccounted(imp[i].found \cup Paid)
          IN  /\ accounted' = accounted \cup new
              /\ total' = total + CostOf(new)
              /\ reserved' = [c \in Kept |-> reserved[c]]
              /\ granted' = granted \ GivenUp
  /\ UNCHANGED <<jobs, runs>>

\* _reserve_claude_cost: the sessions this import may spend money on.
Reserves(i) ==
  /\ At(i, "reserves")
  /\ LET new == Unaccounted(Paid)
         free == imp[i].sessions \ (accounted \cup new \cup Kept)
         spare == LeftToSpend(total + CostOf(new), Kept)
         over == {c \in imp[i].sessions \cap Kept : MayTakeOver(c)}
     IN  \E chosen \in SUBSET free :
           /\ Cardinality(chosen) = Max({0, Min({spare, Cardinality(free)})})
           /\ imp' = [imp EXCEPT ![i] =
                        [@ EXCEPT !.pc = "plans", !.sessions = over \cup chosen]]
           /\ reserved' = [c \in Kept \cup chosen |->
                             IF c \in over \cup chosen THEN ReservationTicks ELSE reserved[c]]
           /\ granted' = (granted \ GivenUp) \cup over \cup chosen
         /\ accounted' = accounted \cup new
         /\ total' = total + CostOf(new)
  /\ UNCHANGED <<jobs, runs>>

\* _dedup_plan: with --resume an import leaves out what an import has done before.  The
\* status of the jobs is read from a copy of the database; one that cannot be read is empty.
Plans(i) ==
  /\ At(i, "plans")
  /\ \E resume \in BOOLEAN, done \in {{}, {c \in Captures : InStatus(c, {"succeeded"})}} :
       LET plan == imp[i].sessions \ (IF resume THEN done \cup Processed ELSE {})
       IN  imp' = [imp EXCEPT ![i] =
             [@ EXCEPT !.pc = IF plan = {} THEN "looksAgain" ELSE "enqueues", !.found = plan]]
  /\ UNCHANGED <<jobs, runs, reserved, accounted, total, granted>>

Enqueues(i, c) ==
  /\ At(i, "enqueues")
  /\ c \in imp[i].found
  /\ EnqueueCapture(c)
  /\ imp' = [imp EXCEPT ![i] =
       [@ EXCEPT !.pc = IF imp[i].found = {c} THEN "drains" ELSE "enqueues",
                 !.found = imp[i].found \ {c}]]
  /\ UNCHANGED <<reserved, accounted, total, granted>>

\* Mutant: drain ends when no job can be claimed now, whatever the others wait for.
QuietNow == \A c \in Captures : ~Ready(c)

\* drain ends when next_wake_at has nothing to wait for.
Quiet == \A c \in Captures : jobs[c].status \in {"absent"} \cup Terminal

DrainEnds(i) ==
  /\ At(i, "drains")
  /\ Quiet
  /\ imp' = [imp EXCEPT ![i].pc = "looksAgain"]
  /\ UNCHANGED <<jobs, runs, reserved, accounted, total, granted>>

\* Killed, or an error no handler takes.
Dies(i) ==
  /\ ~At(i, "idle")
  /\ imp' = [imp EXCEPT ![i] = Idle]
  /\ UNCHANGED <<jobs, runs, reserved, accounted, total, granted>>

-----------------------------------------------------------------------------

\* A live capture gives a session to the queue; an import or the live worker drains it.
Captured ==
  /\ \E c \in Captures : EnqueueCapture(c)
  /\ UNCHANGED importVars

Drained ==
  /\ \/ RecoverStale
     \/ \E o \in Owners, c \in Captures :
          \/ ClaimNext(o, c)
          \/ Renew(c, o)
          \/ Complete(c, o)
          \/ \E d \in 0..MaxDelay : Retry(c, o, d)
          \/ \E n \in 1..MaxAttempts : AppendJobEvent(c, o, n)
  /\ UNCHANGED importVars

TimePasses ==
  /\ Tick
  /\ reserved' = [c \in Reserved |-> IF reserved[c] > 0 THEN reserved[c] - 1 ELSE 0]
  /\ UNCHANGED <<imp, accounted, total, granted>>

Next ==
  \/ \E i \in Imports :
       \/ Start(i)
       \/ Looks(i, "looks", "settles")
       \/ Settles(i, "settles", "reserves")  \* with --max-cost
       \/ Settles(i, "settles", "plans")     \* without
       \/ Reserves(i)
       \/ Plans(i)
       \/ \E c \in Captures : Enqueues(i, c)
       \/ DrainEnds(i)
       \/ Looks(i, "looksAgain", "settlesAgain")
       \/ Settles(i, "settlesAgain", "idle")
       \/ Dies(i)
  \/ Captured
  \/ Drained
  \/ TimePasses

ImportSpec == Init /\ [][Next]_vars

-----------------------------------------------------------------------------
(* Properties, beside those of JobQueue, which hold whoever drains.        *)

\* Types of the import's state.
ImportTypeOK ==
  /\ TypeOK
  /\ imp \in [Imports -> Import]
  /\ Reserved \subseteq Captures
  /\ \A c \in Reserved : reserved[c] \in 0..ReservationTicks
  /\ accounted \subseteq Captures
  /\ total \in Nat
  /\ granted \subseteq Captures

\* The books are right: the total is what the accounted sessions cost, each counted once,
\* and only sessions whose job succeeded are accounted for - with several imports that
\* look at the queue before they have the lock, are killed, and are run again.
TotalIsExact ==
  /\ total = CostOf(accounted)
  /\ \A c \in accounted : InStatus(c, {"succeeded"})

\* Imports with --max-cost never spend more together than the limit ("Stop after
\* spending this much"), counting what the jobs they were granted cost or may still
\* cost, as long as no reservation was given up in between.
MayCost(c) ==
  IF InStatus(c, {"succeeded"}) THEN Cost[c] ELSE IF InStatus(c, {"dead"}) THEN 0 ELSE 1

LimitKept == MapThenSumSet(MayCost, granted) <= MaxCost

\* An import that runs to its end leaves no money reserved for the sessions it has
\* imported: other imports may use it.
EndsReserveNothing ==
  [][\A i \in Imports :
       Settles(i, "settlesAgain", "idle")
         => (imp[i].sessions \ Processed) \cap DOMAIN reserved' = {}]_vars
=============================================================================
