------------------------------ MODULE JobQueue ------------------------------
(***************************************************************************)
(* The durable capture queue of scripts/queue.py: the table `jobs` (one    *)
(* row per captured session, unique on its identity) and the table         *)
(* `status_runs` that mirrors every job for the dashboard, with the part   *)
(* of its event timeline that matters here.  Every action is one           *)
(* BEGIN IMMEDIATE .. COMMIT transaction of QueueRepository, so it is      *)
(* atomic towards every other process that uses the database.              *)
(*                                                                         *)
(* Time is relative: `lease` is the number of clock ticks before           *)
(* lease_expires_at, `due` the number of ticks before available_at (zero   *)
(* or less: the job may be claimed).  Tick moves both towards the past.    *)
(* Two jobs with the same `due` became available within the same tick, in  *)
(* either order.                                                           *)
(***************************************************************************)
EXTENDS Integers

CONSTANTS
  Captures,     \* capture identities: (kind, source_agent, session_id, source_hash)
  Legacy,       \* the captures that may have a row written before schema version 3
  Owners,       \* lease owners: one uuid per worker process
  NoOwner,      \* lease_owner IS NULL
  MaxAttempts,  \* QueueRepository(max_attempts=...)
  LeaseTicks,   \* lease_seconds, in ticks
  MaxDelay,     \* bound: the longest retry backoff, in ticks
  MaxAge        \* bound: how long ago available_at may lie, in ticks

ASSUME QueueAssumption ==
  /\ Legacy \subseteq Captures
  /\ NoOwner \notin Owners
  /\ MaxAttempts \in Nat \ {0}
  /\ LeaseTicks \in Nat \ {0}
  /\ MaxDelay \in Nat
  /\ MaxAge \in Nat

VARIABLES
  jobs,  \* [Captures -> Job], status "absent" while there is no row
  runs   \* [Captures -> Run], state "none" while there is no row

queueVars == <<jobs, runs>>

-----------------------------------------------------------------------------
(* Rows.                                                                   *)

Claimable == {"pending", "failed"}
Terminal  == {"succeeded", "dead"}
Status    == {"absent", "leased"} \cup Claimable \cup Terminal
RunState  == {"none", "queued", "running", "retrying"} \cup Terminal

Job == [status : Status, attempts : 0..MaxAttempts, owner : Owners \cup {NoOwner},
        lease : 0..LeaseTicks, due : (-MaxAge)..MaxDelay]

\* `ends` counts the terminal events of the timeline, `attempt` is the attempt
\* number of its latest event that carries one.
Run == [state : RunState, ends : Nat, attempt : 0..MaxAttempts]

Row(s, n, o, l) == [status |-> s, attempts |-> n, owner |-> o, lease |-> l, due |-> 0]

NoJob == Row("absent", 0, NoOwner, 0)
NoRun == [state |-> "none", ends |-> 0, attempt |-> 0]

\* _SYNTHESIZED_JOB_STATUS: the run state that stands for a job status.
SynthesizedStatus ==
  [pending |-> "queued", leased |-> "running", failed |-> "retrying",
   succeeded |-> "succeeded", dead |-> "dead"]

\* A row of schema version 2, which had no status tables.
LegacyJobs ==
  {Row("pending", 0, NoOwner, 0), Row("dead", MaxAttempts, NoOwner, 0)}
  \cup {Row("failed", n, NoOwner, 0) : n \in 1..(MaxAttempts - 1)}
  \cup {Row("succeeded", n, NoOwner, 0) : n \in 1..MaxAttempts}
  \cup {Row("leased", n, o, LeaseTicks) : n \in 1..MaxAttempts, o \in Owners}

InitJobs == [Captures -> {NoJob} \cup LegacyJobs]

QueueInit ==
  /\ jobs \in InitJobs
  /\ \A c \in Captures \ Legacy : jobs[c] = NoJob
  /\ runs = [c \in Captures |-> NoRun]

-----------------------------------------------------------------------------
(* What one transaction does to a run.                                     *)

\* transition_run_unlocked: the new state and one event of the timeline.
Transitioned(run, state) ==
  [run EXCEPT !.state = state,
              !.ends = IF state \in Terminal THEN @ + 1 ELSE @]

\* The run a pre-v3 job gets: its state and one coarse event.
Synthesized(job) ==
  [Transitioned(NoRun, SynthesizedStatus[job.status]) EXCEPT !.attempt = job.attempts]

\* _ensure_job_run_unlocked
EnsuredRun(c) == IF runs[c].state = "none" THEN Synthesized(jobs[c]) ELSE runs[c]

\* Mutant: the budget compared with > instead of >=.
ExhaustedLate(job) == job.attempts > MaxAttempts

Exhausted(job) == job.attempts >= MaxAttempts

HeldBy(c, o) == jobs[c].status = "leased" /\ jobs[c].owner = o

\* Mutant: the returned job keeps its lease owner.
ReturnedKeepsOwner(job, delay) ==
  [job EXCEPT !.status = IF Exhausted(job) THEN "dead" ELSE "failed",
              !.lease = 0, !.due = delay]

\* A job that lost or gave back its lease: dead once its attempts are used up.
Returned(job, delay) ==
  [job EXCEPT !.status = IF Exhausted(job) THEN "dead" ELSE "failed",
              !.owner = NoOwner, !.lease = 0, !.due = delay]

\* Mutant: the dead branch forgets the run.
ReturnedRunAlwaysRetrying(c) == Transitioned(EnsuredRun(c), "retrying")

ReturnedRun(c) ==
  Transitioned(EnsuredRun(c), IF Exhausted(jobs[c]) THEN "dead" ELSE "retrying")

-----------------------------------------------------------------------------
(* The operations.                                                         *)

\* Mutant: INSERT OR REPLACE instead of INSERT OR IGNORE.
EnqueueReplaces(c) ==
  /\ jobs' = [jobs EXCEPT ![c] = Row("pending", 0, NoOwner, 0)]
  /\ runs' = [runs EXCEPT ![c] = [Transitioned(NoRun, "queued") EXCEPT !.attempt = runs[c].attempt]]

\* INSERT OR IGNORE: a capture seen before only gets its missing run.
EnqueueCapture(c) ==
  IF jobs[c].status = "absent"
  THEN /\ jobs' = [jobs EXCEPT ![c] = Row("pending", 0, NoOwner, 0)]
       /\ runs' = [runs EXCEPT ![c] = Transitioned(NoRun, "queued")]
  ELSE /\ runs' = [runs EXCEPT ![c] = EnsuredRun(c)]
       /\ UNCHANGED jobs

Ready(c) == jobs[c].status \in Claimable /\ jobs[c].due <= 0

ClaimNext(o, c) ==
  /\ Ready(c)
  /\ \A d \in Captures : Ready(d) => jobs[c].due <= jobs[d].due
  /\ jobs' = [jobs EXCEPT ![c] =
       [@ EXCEPT !.status = "leased", !.attempts = jobs[c].attempts + 1, !.owner = o,
                 !.lease = LeaseTicks]]
  /\ runs' = [runs EXCEPT ![c] = Transitioned(EnsuredRun(c), "running")]

\* Neither the expiry nor the attempt is compared: only status and owner.
Renew(c, o) ==
  /\ HeldBy(c, o)
  /\ jobs' = [jobs EXCEPT ![c] = [@ EXCEPT !.lease = LeaseTicks]]
  /\ UNCHANGED runs

Complete(c, o) ==
  /\ HeldBy(c, o)
  /\ jobs' = [jobs EXCEPT ![c] = [@ EXCEPT !.status = "succeeded", !.owner = NoOwner,
                                           !.lease = 0]]
  /\ runs' = [runs EXCEPT ![c] = Transitioned(EnsuredRun(c), "succeeded")]

Retry(c, o, delay) ==
  /\ HeldBy(c, o)
  /\ jobs' = [jobs EXCEPT ![c] = Returned(@, delay)]
  /\ runs' = [runs EXCEPT ![c] = ReturnedRun(c)]

\* Mutant: settled rows are taken for expired leases (no status in the WHERE clause).
StaleAnyStatus(c) == jobs[c].status # "absent" /\ jobs[c].lease <= 0

Stale(c) == jobs[c].status = "leased" /\ jobs[c].lease <= 0

\* One transaction returns every expired lease.
RecoverStale ==
  /\ jobs' = [c \in Captures |-> IF Stale(c) THEN Returned(jobs[c], 0) ELSE jobs[c]]
  /\ runs' = [c \in Captures |-> IF Stale(c) THEN ReturnedRun(c) ELSE runs[c]]

\* Mutant: the event guard without the attempt.
AppendWithoutAttempt(c, o, n) ==
  /\ HeldBy(c, o)
  /\ runs[c].state = "running"
  /\ runs' = [runs EXCEPT ![c].attempt = n]
  /\ UNCHANGED jobs

\* An informative event of attempt n; refused when the job has moved on.
AppendJobEvent(c, o, n) ==
  /\ HeldBy(c, o)
  /\ jobs[c].attempts = n
  /\ runs[c].state = "running"
  /\ runs' = [runs EXCEPT ![c] = [@ EXCEPT !.attempt = n]]
  /\ UNCHANGED jobs

\* Time passes.
Earlier(due) == IF due > -MaxAge THEN due - 1 ELSE due

Tick ==
  /\ jobs' = [c \in Captures |->
                IF jobs[c].status \in {"absent"} \cup Terminal THEN jobs[c]
                ELSE [jobs[c] EXCEPT !.lease = IF @ > 0 THEN @ - 1 ELSE 0,
                                     !.due = Earlier(@)]]
  /\ UNCHANGED runs

QueueNext ==
  \/ \E c \in Captures : EnqueueCapture(c)
  \/ \E o \in Owners, c \in Captures : ClaimNext(o, c)
  \/ \E o \in Owners, c \in Captures : Renew(c, o)
  \/ \E o \in Owners, c \in Captures : Complete(c, o)
  \/ \E o \in Owners, c \in Captures, d \in 0..MaxDelay : Retry(c, o, d)
  \/ RecoverStale
  \/ \E o \in Owners, c \in Captures, n \in 1..MaxAttempts : AppendJobEvent(c, o, n)
  \/ Tick

QueueSpec == QueueInit /\ [][QueueNext]_queueVars

-----------------------------------------------------------------------------
(* Properties.                                                             *)

\* Types of the two tables.
TypeOK ==
  /\ jobs \in [Captures -> Job]
  /\ runs \in [Captures -> Run]

\* The dashboard never disagrees with the queue: whatever the interleaving of
\* transactions, a run that exists is in the state that stands for its job's
\* status (queue.py writes both in each transaction, in seven places).
RunMirrorsJob ==
  \A c \in Captures :
    \/ runs[c].state = "none"
    \/ /\ jobs[c].status # "absent"
       /\ runs[c].state = SynthesizedStatus[jobs[c].status]

\* A job that can still be claimed has an attempt left, and a dead job used all
\* of them: neither a retry nor a recovered lease can exceed max_attempts
\* (README: "A dead job has exhausted its attempts").
RetryBudget ==
  \A c \in Captures :
    /\ jobs[c].status \in Claimable => jobs[c].attempts < MaxAttempts
    /\ jobs[c].status = "dead" => jobs[c].attempts = MaxAttempts

\* A lease has an owner exactly while the job is leased.
LeaseOwned ==
  \A c \in Captures : jobs[c].status = "leased" <=> jobs[c].owner # NoOwner

\* The timeline of a job ends once: one terminal event, there exactly when the
\* run is terminal (late completions, repeated recovery and the synthesis of
\* pre-v3 runs never add another).
OneTerminalEvent ==
  \A c \in Captures :
    runs[c].ends = IF runs[c].state \in Terminal THEN 1 ELSE 0

\* A succeeded or dead job is never reopened, retried or rewritten, not even by
\* capturing the same session again.
TerminalIsFinal ==
  [][\A c \in Captures : jobs[c].status \in Terminal => jobs'[c] = jobs[c]]_queueVars

\* An attempt that lost its job cannot write into the timeline of a later one:
\* the attempt numbers of a job's timeline never go back.
TimelineNeverGoesBack ==
  [][\A c \in Captures : runs'[c].attempt >= runs[c].attempt]_queueVars

\* The tables implement the life of a job as JobLifecycle promises it: leases,
\* owners, clocks and status rows change nothing about it.
StageOf(job) ==
  CASE job.status \in Claimable -> "waiting"
    [] job.status = "leased" -> "held"
    [] OTHER -> job.status

Lifecycle == INSTANCE JobLifecycle WITH
  stage <- [c \in Captures |-> StageOf(jobs[c])],
  tries <- [c \in Captures |-> jobs[c].attempts]

ImplementsLifecycle == Lifecycle!Spec
=============================================================================
