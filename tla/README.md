# A verification development for claude-memory-compiler

The repository captures coding sessions of Claude and Codex, extracts what is worth
remembering with a language model, appends it to a daily log, and compiles daily logs
into a wiki of articles. Many short-lived processes do this together: hooks, detached
capture processes, drain workers, compilers, their watchdogs, imports and dashboards. They
share one SQLite database, one directory tree and a few lock files, and each may be killed
at any moment. The modules here model that cooperation in TLA+, check it with TLC and prove
part of it with TLAPS.

## The system

| Part | State it keeps | Operations | Interacts with |
|---|---|---|---|
| Capture queue (`scripts/queue.py`, `scripts/status_store.py`) | tables `jobs`, `status_runs`, `status_events`, `provider_attempts` | enqueue, claim, renew, complete, retry, recover, append event | every process; one `BEGIN IMMEDIATE` transaction per operation |
| Drain worker (`scripts/worker.py`) | singleton lock `memory-worker.lock`; main loop; one asyncio task per attempt; a writer lock of the process; append threads | recover, claim, wait, sleep, release; provider calls, heartbeat, append, complete, retry | queue, router, daily log |
| Capture (`scripts/capture.py`) | spool snapshots, private and published | copy, enqueue, remove a duplicate, publish what failed, wake a worker | queue, worker, hooks |
| Capture hooks (`hooks/session-end.py`, `pre-compact.py`, `codex-session-end.py`, `scripts/hook_logging.py`) | their capture child, its deadline | select, start the child, wait or kill, clean up, report | capture, `hooks.log`, status runs |
| Staged apply (`scripts/staging.py`) | journal directory, `memory-writer.lock` | prepare, replace files, complete, roll back, recover | all writers of the knowledge base |
| Daily log (`append_daily_entry` in `scripts/utils.py`) | `daily/*.md` | append one entry per capture-id | worker, compiler |
| Compiler (`scripts/compile.py`) | stage directory, baselines | read, stage, edit, validate, apply | staged apply, state.json |
| Automatic compilation (`scripts/queue.py` 1450-3759, `scripts/flush.py`) | one reservation row and its status runs; owner, watchdogs, `memory-auto-compile.lock` | schedule, bootstrap, poll, take over, promote, launch, reap, fail, hand over | worker, compiler |
| Provider router (`scripts/providers.py`) | attempts of one request | Codex first, then Claude | worker, compiler, query |
| Historical import (`scripts/batch-flush.py`) | cost reservations and accounted sessions in state.json | settle, reserve, plan, enqueue, drain, settle again | queue, worker, other imports |
| Usage log (`scripts/usage.py`) | `logs/usage.jsonl` and its archives, an index in each process | append, rotate, recover, synchronise with the queue | queue, compiler, query |
| Status dashboard (`scripts/status_app.py`, `status_health.py`, `status_store.py`) | snapshot on the screen, acknowledgements in `status-view.json` | refresh, acknowledge | hooks, queue, other dashboards |
| Session-start hooks, query, connections, lint, reconcile, configuration | little or none | read, or apply through the parts above | |

What is hard in it:

- the worker decides that the queue is idle and lets its lock go while a capture commits
  and its own worker finds the lock still taken;
- leases expire under a suspended or slow process, and are identified by their owner only;
- a cancelled task leaves a thread behind that still appends;
- a process dies between two file replacements, or between the daily append and the
  completion of its job;
- a compilation reads its inputs without a lock, minutes before it applies;
- the journal of an interrupted apply is recovered by *some* later writer, and not by all
  of them;
- a request for a compilation is one row that workers, owners, watchdogs and contenders
  change in turn, each on what it read of a daily log outside the transaction, while new
  entries, manual compilations and edits change that log;
- a capture is killed at a deadline that may fall on either side of its commit;
- several imports spend one budget, look at the queue before they lock the books, and drain
  under owner names they share;
- the usage log is read, rotated and recovered while another process is in the middle of a
  line;
- the dashboard reads three sources one after another, in refreshes that overlap.

`PROJECT.json` lists these and others at their lines under "hazards", with the properties
that cover them or the reason that none does.

## Modules

| Module | Models | Checked by |
|---|---|---|
| `JobLifecycle` | abstract: what the queue promises about one job | property of `import` |
| `JobQueue` | the transactions on jobs and their status runs | through the two modules that extend it |
| `MemoryWorker` (EXTENDS `JobQueue`) | worker processes, tasks, heartbeats, append threads, wakes, crashes | `MCMemoryWorker` |
| `HistoricalImport` (EXTENDS `JobQueue`) | imports and their books, beside live captures and workers | `MCHistoricalImport` |
| `KnowledgeBase` | abstract: atomic appends and compilations | property of `staged_apply` |
| `StagedApply` | journal, recovery and rollback; append, compilation and state update as its writers | `MCStagedApply` |
| `AutoCompile` | the reservation of automatic compilation, its processes and its runs | `MCAutoCompile` |
| `HookReports` | how a hook reports its outcome | through the two modules that extend it |
| `Capture` (EXTENDS `HookReports`) | hooks, their children, the spool | `MCCapture` |
| `StatusView` (EXTENDS `HookReports`) | the dashboard's view of hook failures | `MCStatusView` |
| `UsageLog` | the usage ledger | `MCUsageLog` |
| `JobQueue_proofs` | theorems about `JobQueue` | tlapm |
| `MemoryWorker_proofs` | theorems about `MemoryWorker`, over the invariant of the queue | tlapm |
| `HistoricalImport_proofs` | theorems about `HistoricalImport`, over the same invariant | tlapm |
| `Capture_proofs`, `StatusView_proofs` | theorems about the spool and about the dashboard | tlapm |
| `StagedApply_proofs` | theorems about `StagedApply`, whatever fails, and the refinement of `KnowledgeBase`, while journals can be removed | tlapm |
| `UsageLog_proofs` | theorems about `UsageLog` | tlapm |
| `AutoCompile_proofs` | theorems about `AutoCompile` | tlapm |

Definitions whose comment begins with "Mutant" are plausible bugs of the code. No
specification uses them; they show that a property would notice the bug.

### JobQueue

`jobs[c]` is the row of capture identity `c` (kind, agent, session, hash); `runs[c]` is its
row in `status_runs` with two facts about its timeline: how many terminal events it has and
which attempt its latest attempt-carrying event names. Every action is one transaction and
carries the name of its method: `EnqueueCapture`, `ClaimNext`, `Renew`, `Complete`, `Retry`,
`RecoverStale`, `AppendJobEvent`. `EnsuredRun` is `_ensure_job_run_unlocked`, with which the
first operation on a row of schema version 2 synthesizes the run it lacks; such rows are
initial states for the captures in `Legacy`. Rows of identities not seen yet have status
"absent". An operation that raises rolls its transaction back, which is a step that changes
nothing.

Time is relative: a lease counts the ticks it has left and a job the ticks until (or since)
`available_at`. `Tick` moves both. `claim_next` takes the least `available_at`; within one
tick the order is free, because the clock has a finer resolution than the model.

### MemoryWorker

An element of `Owners` is one worker process, named by the uuid it uses as lease owner. Its
main loop (`_drain`) is `proc[p]`; the steps of the loop are `LoopRecover`, `LoopClaim`,
`LoopClaimed`, `LoopWake`, `LoopIdle`, `LoopSleep`, `LoopRelease`. A claimed attempt is a
record in `tasks` whose `pc` is the await it has reached in `process`. asyncio runs one
coroutine at a time up to its next await, so tasks step only while the main loop is in
"wait" (`Running`), and a step of a task is one such stretch of code: `SaveStarts` is lease
renewal and status event, `SaveEnds` is renewal and completion. `WriterFree` is the asyncio
lock that serializes provider events, appends and retries; "writing" and "written" hold it.

The append runs in a thread of its own (`threads`), which goes on when its task is cancelled
(`HeartbeatLoses`, `Abort`). It works on the log of the day it began (`today`, `Midnight`): it
takes memory-writer.lock and looks for its capture-id in every log (`ReadsLog`, `Found`), and
replaces its own log by what it read and one entry more (`ReplacesLog`, `Commits`). Between the
two, anything else may happen. `AppendRaises` is an append that fails, before its replacement
or after it. That the replacement itself is atomic is what `StagedApply` shows. `Capture` is
the enqueue of the capture side; the wake it makes is pending until the woken process takes the
lock, finds it taken, or is lost.

`Crash` kills a process (its threads die, its lock is dropped by the system); `Abort` is an
exception that leaves `_drain` for a reason of its own. Both and `WakeLost` count towards
`MaxFaults`. With `DbErrors` every database call of a task may also raise. A lost status event
lets the task go on (`_append_status_event`); a lost attempt record, completion or retry sends
it to the exception handler of `process` ("failing"), which looks at the job and retries once
more ("rescue"); an error in there leaves `process` ("raised"), and the main loop, which waits
for the task, ends with it (`LoopRaises`). Errors of the main loop's own calls are `Abort`.

### HistoricalImport

An element of `Imports` is a process that runs `execute_historical_import`; `imp[i]` is
where it stands and the sessions it still works with. Its steps are `Looks` and `Settles`
(`_reconcile_legacy_claude_cost`, before and under the lock of the books), `Reserves`
(`_reserve_claude_cost`), `Plans` (`_dedup_plan`), `Enqueues` one session at a time,
`DrainEnds`, and `Looks` and `Settles` again. Whether an import has `--max-cost` is the
choice between two disjuncts, whether it has `--resume` a choice within `Plans`. `reserved`,
`accounted` and `total` are the books in state.json, with costs in units of
`FLUSH_COST_ESTIMATE`; `granted` is a history of the sessions that may spend money because
an import with a limit was granted them.

`Dies` kills an import anywhere; `Start` runs it again. An import drains beside the live
worker, and its lease owners `historical-0`, ... are the same in every process. So the owner
in the queue does not say who works, and `Drained` lets anyone take any step of a worker for
any owner.

### StagedApply

`disk` has three files that stand for the classes an apply touches, in the order in which
`_commit_replacements_unlocked` replaces them: the daily log, the articles, state.json. A
log is the set of entries before its last compiled-through marker, the set after it, and the
number of markers; the articles are the set of entries they were compiled from; state.json
holds the log whose hash it has, and whether a lint has been recorded. So "compiled",
"marked" and "up to date" can be compared.

A writer takes `memory-writer.lock`, recovers the journals that are there, checks
(`CheckAppend`: capture-id; `CheckCompile`: the exact baselines), publishes its journal
(`Prepare`, `BeginApply`), replaces one file a step (`Replace`), marks the journal complete
and removes it. An exception leads to the rollback, an exception in there leaves the journal
behind (`OperationFails`), and a crash leaves everything as it is. A compilation reads state,
log and articles in three steps without the lock, so it may read the middle of another
apply. `UpdateState` is `update_state` as the linter uses it.

### AutoCompile

`row` is the reservation: the generation it asks for (`fp`, the log it names and a fingerprint
of the uncompiled end of a daily log), the marker history that a compilation of it must extend (`pre`), the
lease of its owner, its watchdog, a contender for the watchdog's place, a pending generation
and the two status runs it links. A generation is (name, log, entries
compiled, entries written), a marker history (log and edits by the user, number of markers),
which is what names and texts let one tell apart: name and log differ only after a failure
that stored the fingerprint of the pending log (see below), and all empty histories are equal. A transaction is a function on the record `DB` of row, runs and taken
operation keys, composed of the unlocked helpers of `queue.py` (`EnsuredRun`, `Created`,
`Moved`, `Deleted`, ...) and committed by one action.

`proc[t]` is the process with token `t`: an owner (`find` .. `defer` are the places of
`run_auto_compile_coordinator`), a watchdog or a contender (`boot`, `contend`, `watch`).
`child[t]` is the `compile.py` it launched, which holds `memory-auto-compile.lock`, survives
its parent and applies log by log. What a process read of a log before a transaction is in
its record, so the log may change in between. Owner, watchdog and contender leases may expire
at any time while the process lives (it was suspended); the fault kinds are a killed owner or
watchdog, a child that raises, a probe of the child's lock, an unreadable log, an edit of the
markers, a manual compilation, an exception after a spawn, and an old session still open.

### HookReports, Capture, StatusView

`HookReports` is what every hook does at its end: one line in `hooks.log` (or none, when the
write fails), then, for a failure in `Diagnostic` and with time left, a failed status run
from a child of its own. `Capture` puts the hooks and their capture children before it, `StatusView`
a dashboard behind it.

In `Capture` a hook is also its capture token. `temp[h]` is the snapshot its child works on,
`failed[k]` the snapshot published under the digest of content `k`, `jobs[k]` the hook whose
snapshot the job of `k` names. A deadline passes when it will: each check of one may go
either way, and `Kills` may come at any step of the child.

In `StatusView` a refresh is known by its generation and reads log (`ReadsLog`), keys of the
recorded failures (`ReadsKeys`), acknowledgements (`PassesObserver`) and runs (`ReadsRuns`)
in separate steps; `Installs` puts it on the screen if it is the latest. Acknowledging is a
thread (`Acknowledges`) and its continuation (`Acknowledged`). `told` and `forgotten` are a
history: what the dashboard has ever known as acknowledged, and whether an acknowledgement has
found status-view.json unreadable, which counts as empty.

### UsageLog

`rows` counts the provider attempts in the queue, `active` is `usage.jsonl` line by line,
`archives` what it was rotated into. A line knows whose text it has, whether that is a part,
a whole record or a mixture, and whether it ends in a newline: a write may stop inside a
record or just before its newline. `cache` is the `_ATTEMPT_INDEX` of a process while the
signature of the files matches. The steps of `synchronize_attempt_usage` that hold the lock,
and those that do not (looking before a recovery, listing, reading), are separate.

## Properties and runs

Each run checks the properties of its configuration; bounds are constants of the module.

| Run | Instance | Shows |
|---|---|---|
| `worker_faults` | 2 captures, a process of 2 tasks and one of 1 task, 2 days, 1 fault | a capture is written once, in one log (`AtMostOneEntry`), and no replacement of a log loses another's entry (`EntriesStay`); `SucceededIsWritten`, `NoLostWakeup`, `TimelineNeverGoesBack` |
| `worker_db_errors` | 1 capture, a process of 2 tasks and one of 1 task, 2 days, 1 fault, database calls may raise, fairness | on every path through the error handlers, every open capture is settled, or the faults have left nobody to drain (`EveryCaptureSettles`) |
| `import` | 2 imports of 2 sessions (one of schema version 2), budget 1, costs 1 and 0 | the dashboard's runs stay in step with the jobs, timelines do not go back and jobs live the life of `JobLifecycle` under shared owners (`RunMirrorsJob`, `TimelineNeverGoesBack`, `ImplementsLifecycle`); the books are exact (`TotalIsExact`), the limit holds (`LimitKept`), nothing stays reserved (`EndsReserveNothing`) |
| `staged_apply` | 2 captures, 2 processes, 2 markers, 2 faults | `AckedIsWritten`, `NothingSkipped`, `UpToDateIsCompiled`, and the refinement of `KnowledgeBase` |
| `auto_compile` | 2 logs, 4 tokens, 5 runs, 2 captures, 2 attempts, 1 fault of any kind | a request never ends uncompiled (`RequestHonoured`), a run succeeds only for compiled entries (`SucceededIsCompiled`), the required history only grows (`HistoryKept`), the watchdog's place is handed over (`WatchKept`), the active run is one of the request's fingerprint (`RunOfGeneration`) |
| `auto_progress` | 1 log, otherwise the same, 1 fault of owner, child or session, fairness | a watched request does not leave its log uncompiled for ever, unless it fails (`Compiles`) |
| `capture` | 3 hooks, 2 contents (one of Codex), 1 mishap | a committed job keeps its snapshot (`SnapshotKept`), a failed capture keeps its evidence (`FailureKept`), nothing else stays (`NothingLeftBehind`) |
| `status_view` | 2 recorded failures and a third hook, 3 refreshes, 2 at a time, 2 acknowledgements kept, 1 mishap | no failure is hidden (`NoFailureHidden`) or shown twice without a reason (`NoFailureTwice`); one that was known as acknowledged needs attention again only when it was pruned for newer ones or the file could not be read (`AcknowledgedIsRecent`); the newest acknowledgement is kept (`LatestIsKept`) |
| `usage` | 2 processes, 3 attempts, 1 foreground record, files of 2 lines, 2 faults | `LoggedOnce`, `NothingQuarantined`, `NothingForgotten`, and an undisturbed synchronisation repairs whatever a crash left (`SyncRepairs`) |
| `stale_attempt` | 2 captures, 2 processes of 2 tasks, 2 days, 1 fault | violated: finding 1 |
| `torn_apply` | 1 marker, the unlink of a journal may raise | violated: finding 2 |
| `lost_update` | 1 marker | violated: finding 3 |

**Why the bounds are enough.** Two captures and two processes give every pair of conflicting
operations; two attempts (three in the code) reach both branches of the budget, and the second
attempt is the one that meets the leftovers of the first. A lease of one tick can expire at any
await, since `Tick` may come between any two steps. Two markers let a compilation follow another
(the incremental case). Two faults in `StagedApply` let a recovery or a rollback fail in turn.
In `MemoryWorker` one fault keeps the runs within minutes; one process with two tasks has what
two of them share, the writer lock, and a thread of each process is what the file lock is for.
Two days give a retry that appends to another log than the attempt before it. With failing
database calls there is one capture, since two are too many states for the liveness property;
two attempts of it, a stale one and the next, share the writer lock of the process of two tasks.
`MaxDelay` is 0 for the worker: a longer backoff only delays a claim that `LoopSleep` and `Tick`
may delay anyway.

In `AutoCompile` two logs are the least for a request that moves to another day, four tokens for
an owner, a watchdog, a contender and the successor of one of them, and two captures for entries
that arrive while a request is open. A token is used again once nobody can know it, and a run
identity once no link, child or key can name it, so that these sets bound what exists together
and not what happens. A transaction that finds no identity free for a new run (`full`) is not
taken: `RunIds` is a bound, and five are enough for this never to happen. In `import`, one
budget unit for two sessions is where imports compete; the second session costs nothing (Codex
served it), so that its reservation is freed. The job lease (17 minutes) and the reservation (30
minutes) are both one tick, since `Drained` may renew one and `Reserves` the other. In `capture`
three hooks are two of one content, that share a published snapshot, and one that interferes. In
`usage` two lines a file give rotation, and three attempts an archive and a ledger that both
matter. In `status_view` a file of two ids is the least that keeps one beside the run at hand,
and three failures the least that overfill it; the run begins after two of them, as a dashboard
does that is opened later. Hooks do not interact but for the order of the ids, so one that still
writes is enough.

Symmetry is used where processes (and captures) are interchangeable, and in no run of a liveness
property. Deadlock is checked in every run; clock ticks, idle writers or `Rest` steps can always
be taken where nothing is left to do, so what "nobody is stuck" means is said by the liveness
properties.

**Fairness.** `MemoryWorker`: weak fairness of every main loop (a process that is not killed is
scheduled), of the tasks of a process together (the event loop runs whatever is ready, and
providers have a timeout, so a task that can step does), of append threads together (the file
lock is held for one replacement), of pending wakes (the operating system starts a process it
was asked for), and of time. Crashes, aborts, heartbeats, errors of database calls or appends,
and new captures are not fair: no error has to happen for a task to get on.
`EveryCaptureSettles` has the exception `Stranded`: after a lost wake or a crash, or when a
database error ends a process, the code has no timer that would start another worker, and says
so ("best effort"); the next capture does. It also covers the end of every process in `Owners`,
since one that died does not come back: the next worker would have another uuid. `AutoCompile`:
weak fairness of every process and every child (they poll or wait with a timeout), of the three
expiries (a lease that is not renewed runs out), of the drain (a capture wakes a worker) and of
a log becoming readable. That a compilation succeeds is not assumed: a failing provider ends in
a failed request after its attempts, which `Compiles` allows.

## Findings

1. **A stale attempt can return the live one** (`stale_attempt`). `retry`, `renew` and
   `complete` compare the owner of a lease and not its attempt. A process that was suspended
   past its lease recovers its own job and claims it again under the same uuid, while the
   old attempt still runs as a task. When the old one fails, it returns or dead-letters the
   new one's lease. `append_job_event` does compare the attempt, and the tests expect that.
2. **An apply can be torn** (`torn_apply`). If removing the journal raises after it was
   published as complete, the files are rolled back under a journal that says complete; a
   crash or error within that rollback leaves some files new and some old, and the recovery
   deletes the journal. The run ends with a log whose marker covers entries no article has:
   they will never be compiled.
3. **A state update can be lost** (`lost_update`). `update_state` does not recover an
   interrupted apply before it writes state.json; the next writer does, with the old bytes.
   The books of the historical import are written the same way.

## Departures that no run records

These were met while modelling. The models do what the code does; the properties above are
stated so that they are true of it. Those of automatic compilation are definitions of
`MCAutoCompile` that TLC violates.

Automatic compilation:

- A watchdog that boots while the queue is busy leaves (`queue.py:2279-2281`), against
  `README.md:30`. One that is spawned for a request which already has an owner brings an
  owner token of its own (`flush.py:739-751`), is compared with the row's
  (`queue.py:2297-2307`) and leaves, against `README.md:28`. Either way the request has no
  watchdog until a later capture schedules again (`ReplacementJoins`, `Attended`). This is
  why `Compiles` speaks of watched requests.
- A pending run that is replaced, or whose generation is promoted under another key, may stay
  open with no link to it (`queue.py:2680`, `queue.py:3574`; `OpenIsLinked`), and a run that two
  links share is ended twice (`queue.py:2647-2664`; `EndsOnce`, with three
  captures), against what `test_auto_compile_status.py:527` expects of one generation.
- The count of failed attempts is carried over to another generation of the same log
  (`queue.py:2715`), so a run may be dead before its own generation failed three times
  (`DeadAfterAttempts`); a failure after an apply advances the required prefix
  (`queue.py:2774-2806`; `FailureKeepsPrefix`).
- When a log is covered while the row still has a pending generation of that log, and a
  failure has advanced the required prefix to its last marker, each coordinator that takes
  over finds the pending generation gone and returns (`flush.py:1062-1063`); its successor
  does the same, for ever (`Settles`). The entries are compiled, so `Compiles` is not
  violated.

- A coordinator that could not read the pending log records a failure, which reads it again
  (`flush.py:1060`, `queue.py:2813`). If it can be read now, its fingerprint is stored under the
  name and beside the history of the active log (`FingerprintOfItsLog`). Such a request may end,
  or its run succeed, with the log of its fingerprint uncompiled, and its required prefix be
  reset; that takes three captures, a failed read and a manual compilation.
  `RequestHonoured`, `SucceededIsCompiled` and `HistoryKept` are about the others (`OfItsLog`).

Historical import:

- A failed job that waits for its retry frees its reservation (`batch-flush.py:929-937`,
  `1023-1036`), so two imports may spend more than "Stop after spending this much"
  (`batch-flush.py:1803`) says. `granted` leaves out what was given up in this way, and a
  reservation that expired before its job was queued; `LimitKept` is about the rest.
- No caller passes the reported cost of a session today, so `total` grows by nothing in
  production and the limit bounds only reservations that exist together. The model lets a
  session cost what was reserved or nothing. A corrupt state.json counts as empty books.
- With `--resume`, sessions that an older version processed are reserved and then left out
  by `_dedup_plan`. Their reservations block the budget for thirty minutes: a small limit
  with such sessions first makes no progress. `EndsReserveNothing` excepts them
  (`Processed`).

Capture:

- The clean-up pattern `failed-<agent>-<token>-*` matches no name that
  `_retain_failed_snapshot` makes; a child that exits with an error is not cleaned up after.
- Where there are no hard links, a snapshot is published by an exclusive copy. If the copy cannot
  be opened, the code removes the published name all the same (`capture.py:333-335`), which
  another capture may have made since. The model's copy removes only what it made itself, so
  `FailureKept` is about the rest; this takes two errors, and no docstring speaks of it.
- A child that is killed just after its commit is reported as a failed capture, though its
  job is queued; after a timeout there is no time for the diagnostic, so that the log line is
  all that reports it.

Usage log:

- A record that lost nothing but its newline counts as logged; the next record is written
  behind it and both are one malformed line. A reader without the lock may then remember an
  index that leaves out the torn line, append an attempt again, or rotate the line into an
  archive. The next synchronisation repairs this from the queue (`SyncRepairs`), for attempts;
  a foreground record that is mixed up with another stays in `usage.corrupt-*` only, though
  the docstring (`usage.py:571`) says "retain every recoverable valid record".

## Theorems

The runs show a property for a small instance; the theorems show it for any sets of captures,
processes and imports and any bounds, from the named assumptions on the constants alone. Each
module has an inductive invariant, or layers of them, kept by one lemma per action.

**`JobQueue_proofs`: `IInv`** (types, mirrored runs, budget, owned leases, single terminal
event). `RunMirrorsJob` alone is not inductive: whether a claimable job has a run that is not
terminal, and so whether the next terminal event is the first, depends on the other
conjuncts. From it follow all invariants of `JobQueue`; the two action properties and
`LifecycleImplemented`, the refinement of `JobLifecycle`, follow from the same step lemmas.
`TypeOK`, `LeaseOwned`, `RetryBudget`, `OneTerminalEvent` and `TerminalIsFinal` are proved
here and no longer repeated by a run.

**`MemoryWorker_proofs`: `WInv`.** A step of the worker is a queue transaction, which keeps
`IInv` by the lemmas above, together with a change of locks, tasks and entries. What the
worker needs to know of a transaction is `Quiet`: it leases nothing, opens nothing and
settles only what is in the log. `DrainerHasLock` carries `NoLostWakeup` and
`LeaseHeldByDrainer`. `AtMostOneEntry` and `EntriesStay` need to know of an append thread what
is true while it has the file lock: no other thread has it (`OneHolds`), and its log is still
what it read and no log has its capture-id (`ReadIsFresh`), although tasks are cancelled,
processes end and the day changes in between. `Unique` (an attempt is worked on by one task)
and `Numbered` (its number is not later than the job's) say which attempt a task is. The
proof of `TimelineNeverGoesBack` shows that every step is a transaction of the queue or leaves
the timelines alone. One theorem has a hypothesis: `WakeupCorrect` assumes no rows of schema
version 2, since a job such a database brings along waits for the first capture that wakes a
worker.

**`HistoricalImport_proofs`: `ProgressInv`.** `ImportIsQueue` says that every step of the
composition is a step of the queue or leaves it alone, whoever takes it and under whatever
owner name; the theorems about the queue follow for imports in one line each. `EndCorrect`
needs to know how far an import has come, in terms of what others may do meanwhile: `ProgressOf`
says that the sessions it enqueued have rows and that they have ended when its drain has.
That survives the others because rows are not deleted and ended jobs not touched
(`RowsStay`, from the refinement of `JobLifecycle`).

`BooksInv` adds what the books are worth. `LimitKept` is not inductive: whether a new
reservation fits depends on the total and on the reservations, so these must bound what the
sessions granted before may cost. They do because a granted session is reserved, accounted for
or dead (`Backed`), unless it was given up, and because what is reserved was granted: a
reservation that is taken over grants nothing new. A session moves from one to the other
without being counted twice or not at all (`GrantedAfter`). The bound is on the sessions that
were granted alone: the total itself may exceed the limit, since sessions of live captures
and of imports without a limit are accounted for too. Costs are 0 or 1 of
`FLUSH_COST_ESTIMATE`, so a sum counts ones: `AddsUpOnes` shows that the recursive sum
of the community modules is this number.

**`Capture_proofs`: `CaptureInv`.** Each hook and its child are followed by `CaptureOf`: what
the snapshot is at each point of the child (`ChildPart`), that a job names a whole snapshot of
that content whose child has committed (`JobPart`), and what a hook that reports has left
(`ReportPart`). `SnapshotKept` is not inductive alone: who may remove a snapshot depends on the
child being gone and on the job having been looked for before (`HookPart`). The other hooks
come in through `Others` only: a step takes a job nobody has, and leaves alone a published
snapshot that is whole or that another one is copying (`FailedPart`). `OneProcess` says that
this keeps every `CaptureOf`, so that each action is about its own hook alone. That a published
record is not `None` is the assumption `CaptureAssumption` adds.

**`StatusView_proofs`: `ViewInv`.** What a refresh has read grows old while hooks write.
`RefreshOf` says what of it stays true: a line that was read is still in the log, an alert has
no run but one whose id was given after the refresh began, and the latest refresh carries the
acknowledgements the dashboard knows of. `NoFailureHidden` is not inductive without the middle of
this: between the keys and the runs, a line without an alert must still have a run. That
needs of the hooks (`ReportInv`) that a run is committed after its log
line and keeps its id, and that ids are given in their order (`Grows`). The last uses
that `None` is no event, which `HooksAssumption` says. `AckInv` follows the acknowledgements
that are kept, their type and their number. `Pruned` chooses among the subsets of a size, and
the proof shows that one of them keeps the newest runs and the one at hand (`PrunedKeeps`),
which is what `LatestIsKept` needs. `KeptInv` follows what becomes of an acknowledgement whose
id is pruned: it `Outlives` the pruning as an id of the file, or newer ids fill the file up to one
place, which is the place of the run at hand; the latter, too, survives every later pruning
(`PrunedOutlives`), whichever dashboard does it.

**`StagedApply_proofs`: `AInv`.** Only the holder of the lock changes files, journals and
`acked`, so what it knows at each point of an apply, a recovery or a rollback (`Knows`)
stays true while the others step. `Recovered` is `View`, a function of files and journals;
with one journal it is that journal's old content for its files (`ViewBy`). A replacement
therefore changes nothing a recovery shows (`ReplaceKeeps`), and neither does the restoring
of a file of an incomplete journal. `OneJournal` and `AckedIsWritten` need no assumption
about the removal of journals: what a torn apply can lose is a compilation, never an
acknowledged append.

The refinement has **`BInv`** in the same module, which adds that journals can be removed, what the next
compilation relies on (`Good`) and that the planned files of an apply are one step of
`KnowledgeBase` away (`Plans`). Every action is `Invisible`, or it is `CompleteApply`, which
is an `Append` or a `Compile` (`CompleteApplyVisible`). Without the assumption the theorems
are false: that is finding 2.

**`UsageLog_proofs`**, in layers. `LocalInv` says who holds the lock, what a process carries
along, and that a ledger whose last line is not ended has a writer. `KeptInv` adds that what a
rewriting will drop is in the quarantine (`Saved`), which is all `NothingForgotten` needs: the
quarantine was written under the lock that the rewriting still holds. `IndexInv` says what an
index is good for. It covers at least the archives without a malformed line and, if the ledger
is not malformed, the ledger (`Covers`); that survives a crash in the middle of a line, because
a line that is not ended is no record until the next recovery, which makes every index stale.
`Undisturbed` then follows a process between its steps without the lock, as long as nobody has
written: every row is in the files, in its list of rows still to do or in its hands. That is
`SyncRepairs`, after any crashes. `FaultlessInv` is about runs without a fault: the archives,
the ledger and the line under way together hold what was appended and have no record in common
(`Holds`), so that nothing is ever malformed for those who look under the lock
(`NothingQuarantined`) and nothing is there twice (`LoggedOnce`). A foreground note is in the
hands of one process only (`NotesOnce`); an attempt is not, and is kept from being written twice
by the index, which is consulted again under the lock.

**`AutoCompile_proofs`: `AutoInv`, `ContentInv`, `Apart` and `HistoryInv`.** A transaction on the reservation is computed on a record of
the row, the runs and the taken keys (`DB`), so most lemmas are about such records and not about
states. `Good` is what a record must be: its row is sound (`Sound`), and the row says what the runs
say (`Says`): the active run is one of the active generation, the pending run, if there is one, of
the pending generation. Between the statements of a transaction that is not so; what carries
through is that runs that exist keep their fingerprints (`Retells`) and that the run just created
or found is one of the fingerprint that was asked for (`Finds`). One lemma for each function of
`queue.py` puts these together, and a transaction that finds no free id (`full`) is not taken.
`RunOfGeneration` is a part of `Good`. The rest of `AutoInv` bounds what the model counts: a
capture is still to come, in the queue, due or an entry (`WorldInv`); a process carries what its
step will need (`ProcInv`); and the owner of a request that has failed is gone (`QuietInv`), which
is why a registration may put another request in its place.

`RequestHonoured` and `SucceededIsCompiled` need to know what each fingerprint was read from, and
what happened to the log since. A log changes in three ways only (`Grows`): entries are added, all
of it is compiled, or its markers are removed. So a fingerprint keeps telling that its entries were
written (`Written`); and once they are compiled, they stay so or the markers are gone (`Done`).
A coordinator launches its child with a marker history, and until the markers go beyond it
nothing was compiled (`Stands`); one that sees them advance has therefore seen its entries compiled
(`ProgressIsDone`), and since there are markers at the moment it commits, they still are
(`FinishSees`). That chain breaks when a coordinator looks at another log than the one it was
asked for, which the code lets it do after a request took over the fingerprint of its pending log;
`Stray` says that the row then is one of those that the properties are not about, and `Awaits` that a
watchdog that puts a lost registration back does not make it another one again. `Fulfils` is what
every step does (`NextFulfils`, from one lemma for each action): it keeps `ContentInv`, and it ends
a request or a status run only as the properties say (`Delivers`).

`WatchKept` needs little of that: a row's watcher and its lease are left alone by everything but
watchdogs and registrations (`Guards`), and a watchdog that ends its loop, or is put in another's
place, is not the one the row names. The one fact this misses is that a watchdog that is still
contending is not yet the registered one (`Apart`); `Relays` is what every step does.

`HistoryKept` is about takeovers, failures, promotions and handovers, which read the log at one time
and write what they require from it at another. A history read together with a fingerprint `Tells` as
long as the log still has the marker the fingerprint starts after: it goes on from the markers the
log has. So whoever finds the fingerprint in the log and the log's markers beyond the row's, as a
promotion does, may put that history in the row. Two things make this less than an invariant of
every history. A takeover reads the pending log again but leaves the history it required, which may
be the older one (`_observe_auto_compile_content`); and a registration that is lost with its row is
put back later with the history of that time. `Recounts` therefore asks it only of pending
generations of the active log, and of requests whose owner a booting watchdog still names
(`Expected`); of the other fingerprints it asks that they count entries at all (`Counts`), which is
what a deferral needs that finds the log covered. A coordinator that may still write its history to
the row (`Owes`) holds one that goes on from the row's (`Bears`), since nobody else advances the row
of an owner. `Remembers` is what every step does.

**Assumptions.** The theorems use the named assumptions of the modules and nothing else. They
are types and bounds of the constants; those that say more are `CaptureAssumption` (a published
record is not `None`), `HooksAssumption` (`None` is no event), `AutoAssumption` (`None` is no
generation, history, run, row or status), and that there are finitely many sessions
(`ImportAssumption`: they are transcripts on a disk).

**Induction over data** has no rule here that the provers can instantiate, since the library's
take an operator as a parameter. Where a fact about a recursive definition is needed - a sum, the
least of a set of numbers - the proof takes a least counterexample instead: the subsets of a
finite set are well-founded (`FS_StrictSubsetOrderingWellFounded`, `WFMin`).

Only model-checked: liveness (`EveryCaptureSettles`, `Compiles`), which is out of the provers' reach.

## Not modelled

- Provider calls themselves, parsing of transcripts, prompts, validation of staged articles,
  file modes and identities (a refused path is an operation that raises), formatting,
  redaction and platform permissions.
- The semantic slicing of long transcripts and the reading of their text: `Capture` has its
  outcomes. A capture without a deadline, which nothing in production calls.
- Status runs of query, connections and lint: one process writes them in a fixed order. The
  session-start hooks, which format context and write nothing. Reconcile and setup tools,
  which run once and alone.
- In automatic compilation, the release when `compile.py` is missing, rows of its older
  format, and functions that nothing calls.
- In the historical import, the dry run and the older extraction path, and the reading of
  state.json through an interrupted apply (finding 3).
- On the dashboard, every panel but alerts and failed runs, alerts that do not come from
  `hooks.log`, the filter, and the bounds on what is shown (`MAX_RENDERED_RUNS`, 100 alerts, alerts
  of one day, runs of seven): the properties are about what is within them.

Smaller simplifications:

- In `AutoCompile` whether a child holds its lock is looked up in the transaction that acts on
  it; the code samples it just before (`flush.py:1184`, `flush.py:1403`).
- In `HistoricalImport` the plan is made after the reconciliation; without `--max-cost` the code
  makes it before (`batch-flush.py:1150`).
- In `UsageLog` a recovery mends ledger and archives; when there was no ledger as it looked, the
  code mends the archives only (`usage.py:578-584`). Archives are read in one step; when one
  vanishes between two of them, the code starts its index again.

One daily log stands for all of them in `StagedApply`; `MemoryWorker` has one for each day. Orphaned temporary files
of the journal directory are never read and are left out. The wall clock does not go
backwards.

## Plan

Done, in this order: `JobQueue`, `JobLifecycle`, `MemoryWorker`, `StagedApply`,
`KnowledgeBase` with their proofs; `AutoCompile`; `HookReports`, `Capture`, `StatusView`;
`UsageLog`; `HistoricalImport` with its proofs; the proofs about `Capture`, `StatusView` and
`UsageLog`; the books of `HistoricalImport`; the types and runs of `AutoCompile`, then what its
requests and status runs promise, the watch over them and the history they require.

Left:

1. An abstract specification of automatic compilation, "what is registered is compiled or its
   request has failed", to state `RequestHonoured` and `SucceededIsCompiled` as a refinement.
