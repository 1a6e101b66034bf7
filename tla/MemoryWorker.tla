---------------------------- MODULE MemoryWorker ----------------------------
(***************************************************************************)
(* The drain worker of scripts/worker.py over the queue of JobQueue: the   *)
(* singleton lock, the main loop, the asyncio task of each claimed         *)
(* attempt with its heartbeat, the thread that appends to a daily log, and *)
(* the capture side that enqueues a session and wakes a worker.            *)
(*                                                                         *)
(* A worker process is an element of Owners: its uuid is its lease owner.  *)
(* Inside a process only one piece of code runs at a time, up to the next  *)
(* await: tasks step only while the main loop waits.  What runs outside    *)
(* that event loop is the thread that appends to the daily log: it reads   *)
(* the logs and replaces one of them, and goes on when its task is         *)
(* cancelled.                                                              *)
(***************************************************************************)
EXTENDS JobQueue, FiniteSets

CONSTANTS
  Concurrency,  \* AI_MEMORY_WORKER_CONCURRENCY of each process
  MaxFaults,    \* bound: crashes, aborts and lost wakes together
  LastDay,      \* bound: the days a behaviour takes, one daily log each
  DbErrors      \* whether a single database call of a task may fail

ASSUME WorkerAssumption ==
  /\ Concurrency \in [Owners -> Nat \ {0}]
  /\ MaxFaults \in Nat
  /\ LastDay \in Nat \ {0}
  /\ DbErrors \in BOOLEAN

VARIABLES
  proc,       \* where the main loop of each process is
  lock,       \* memory-worker.lock: the process that holds it, or NoOwner
  tasks,      \* the attempts a live process is working on
  threads,    \* the append threads, whether their task still waits or not
  entries,    \* daily/*.md: how often each day's log holds each capture-id
  today,      \* the local date
  wakes,      \* captures whose capture process has yet to start a worker
  faults,     \* crashes, aborts and lost wakes so far
  abandoned   \* a fault happened since a worker last took the lock

workerVars == <<proc, lock, tasks, threads, entries, today, wakes, faults, abandoned>>
vars == <<queueVars, workerVars>>

-----------------------------------------------------------------------------
(* Processes and tasks.                                                    *)

\* "down": not running; "dead": ended without a clean release.
ProcPc == {"down", "recover", "claim", "wait", "idle", "sleep", "release", "dead"}

Days == 1..LastDay

\* The awaits of MemoryWorker.process.  "save", "giveup" and "rescue" wait for the
\* writer lock of the process; "writing" and "written" hold it, before and after
\* the append returned.  "giveup" is _retry_failure in the body of process, "rescue"
\* the one of its exception handler; out of "raised" the exception leaves process.
TaskPc == {"codex_start", "codex", "claude_start", "claude", "save", "writing",
           "written", "giveup", "failing", "rescue", "raised", "done"}

Task == [proc : Owners, job : Captures, attempt : 1..MaxAttempts, pc : TaskPc]

\* "waits": for memory-writer.lock; "holds": it, with what it read of its log.
Thread == [proc : Owners, job : Captures, attempt : 1..MaxAttempts, log : Days,
           pc : {"waits", "holds"}, seen : [Captures -> Nat]]

Open(c) == jobs[c].status \in Claimable \cup {"leased"}
Idle == \A c \in Captures : ~Open(c)

TasksOf(p) == {t \in tasks : t.proc = p}
Running(t) == t \in tasks /\ proc[t.proc] = "wait"
Held(t) == HeldBy(t.job, t.proc)
Current(t) == Held(t) /\ jobs[t.job].attempts = t.attempt

\* Mutant: the exception handler of process runs with the writer lock held, which is
\* not reentrant.
WriterHeldByRescue(p) == \A t \in TasksOf(p) : t.pc \notin {"writing", "written", "rescue"}

\* MemoryWorker._writer_lock, an asyncio.Lock of the process
WriterFree(p) == \A t \in TasksOf(p) : t.pc \notin {"writing", "written"}

Moved(t, pc) == (tasks \ {t}) \cup {[t EXCEPT !.pc = pc]}
Goto(t, pc) == tasks' = Moved(t, pc)

\* A log without entries.
Nothing == [c \in Captures |-> 0]

Init ==
  /\ QueueInit
  /\ proc = [p \in Owners |-> "down"]
  /\ lock = NoOwner
  /\ tasks = {}
  /\ threads = {}
  /\ entries = [d \in Days |-> Nothing]
  /\ today = 1
  /\ wakes = [c \in Captures |-> FALSE]
  /\ faults = 0
  /\ abandoned = FALSE

-----------------------------------------------------------------------------
(* The capture side (scripts/capture.py).                                  *)

\* capture_transcript commits the job; a wake follows, also for a duplicate.
Capture(c) ==
  /\ EnqueueCapture(c)
  /\ wakes' = [wakes EXCEPT ![c] = TRUE]
  /\ UNCHANGED <<proc, lock, tasks, threads, entries, today, faults, abandoned>>

\* The woken process finds the lock taken and exits.
WakeLoses(c) ==
  /\ wakes[c] /\ lock # NoOwner
  /\ wakes' = [wakes EXCEPT ![c] = FALSE]
  /\ UNCHANGED <<queueVars, proc, lock, tasks, threads, entries, today, faults, abandoned>>

\* Mutant: the singleton lock excludes nobody.
WakeStartsAnyway(c, p) ==
  /\ wakes[c]
  /\ proc[p] = "down" /\ \A h \in threads : h.proc # p
  /\ lock' = p
  /\ proc' = [proc EXCEPT ![p] = "recover"]
  /\ wakes' = [wakes EXCEPT ![c] = FALSE]
  /\ abandoned' = FALSE
  /\ UNCHANGED <<queueVars, tasks, threads, entries, today, faults>>

\* The woken process takes the lock and starts to drain.
WakeStarts(c, p) ==
  /\ wakes[c] /\ lock = NoOwner
  /\ proc[p] = "down" /\ \A h \in threads : h.proc # p
  /\ lock' = p
  /\ proc' = [proc EXCEPT ![p] = "recover"]
  /\ wakes' = [wakes EXCEPT ![c] = FALSE]
  /\ abandoned' = FALSE
  /\ UNCHANGED <<queueVars, tasks, threads, entries, today, faults>>

\* The wake is best effort: the launcher may fail, the new process may die.
WakeLost(c) ==
  /\ wakes[c] /\ faults < MaxFaults
  /\ wakes' = [wakes EXCEPT ![c] = FALSE]
  /\ faults' = faults + 1
  /\ abandoned' = TRUE
  /\ UNCHANGED <<queueVars, proc, lock, tasks, threads, entries, today>>

-----------------------------------------------------------------------------
(* The main loop (MemoryWorker._drain).                                    *)

At(p, pc) == proc[p] = pc
Loop(p, pc) == proc' = [proc EXCEPT ![p] = pc]
loopRest == <<threads, entries, today, wakes, faults, abandoned>>

LoopRecover(p) ==
  /\ At(p, "recover") /\ Loop(p, "claim")
  /\ RecoverStale
  /\ UNCHANGED <<lock, tasks, loopRest>>

\* Mutant: the task is given the attempt number from before the claim.
LoopClaimOldAttempt(p, c) ==
  /\ At(p, "claim")
  /\ Cardinality(TasksOf(p)) < Concurrency[p]
  /\ ClaimNext(p, c)
  /\ tasks' = tasks \cup {[proc |-> p, job |-> c, attempt |-> jobs[c].attempts,
                           pc |-> "codex_start"]}
  /\ UNCHANGED <<proc, lock, loopRest>>

LoopClaim(p, c) ==
  /\ At(p, "claim")
  /\ Cardinality(TasksOf(p)) < Concurrency[p]
  /\ ClaimNext(p, c)
  /\ tasks' = tasks \cup {[proc |-> p, job |-> c, attempt |-> jobs[c].attempts + 1,
                           pc |-> "codex_start"]}
  /\ UNCHANGED <<proc, lock, loopRest>>

\* Mutant: after a recovery the main loop waits although nothing is active.
LoopClaimedWaits(p) ==
  /\ At(p, "claim")
  /\ Cardinality(TasksOf(p)) >= Concurrency[p] \/ \A c \in Captures : ~Ready(c)
  /\ Loop(p, "wait")
  /\ UNCHANGED <<queueVars, lock, tasks, loopRest>>

LoopClaimed(p) ==
  /\ At(p, "claim")
  /\ Cardinality(TasksOf(p)) >= Concurrency[p] \/ \A c \in Captures : ~Ready(c)
  /\ Loop(p, IF TasksOf(p) # {} THEN "wait" ELSE "idle")
  /\ UNCHANGED <<queueVars, lock, tasks, loopRest>>

Raised(p) == \E t \in TasksOf(p) : t.pc = "raised"

\* asyncio.wait(active, FIRST_COMPLETED) returns
LoopWake(p) ==
  /\ At(p, "wait") /\ Loop(p, "recover")
  /\ \E t \in TasksOf(p) : t.pc = "done"
  /\ ~Raised(p)
  /\ tasks' = {t \in tasks : t.proc # p \/ t.pc # "done"}
  /\ UNCHANGED <<queueVars, lock, loopRest>>

\* next_wake_at: None, or a moment to sleep towards
LoopIdle(p) ==
  /\ At(p, "idle") /\ Loop(p, IF Idle THEN "release" ELSE "sleep")
  /\ UNCHANGED <<queueVars, lock, tasks, loopRest>>

LoopSleep(p) ==
  /\ At(p, "sleep") /\ Loop(p, "recover")
  /\ UNCHANGED <<queueVars, lock, tasks, loopRest>>

\* Mutant: the lock is released whenever the earlier look at the queue found it idle.
ReleaseUntested(p) ==
  /\ At(p, "release")
  /\ lock' = NoOwner /\ Loop(p, "down")
  /\ UNCHANGED <<queueVars, tasks, loopRest>>

\* release_worker_lock_if_idle: test and release in one transaction, which
\* no enqueue can overtake
LoopRelease(p) ==
  /\ At(p, "release")
  /\ IF Idle THEN lock' = NoOwner /\ Loop(p, "down")
             ELSE Loop(p, "recover") /\ UNCHANGED lock
  /\ UNCHANGED <<queueVars, tasks, loopRest>>

-----------------------------------------------------------------------------
(* One attempt (MemoryWorker.process and the coroutines it awaits).        *)

taskRest == <<proc, lock, today, wakes, faults, abandoned>>

\* _append_status_event: the event is written and the task goes on; or the job
\* is not this attempt's any more and the task ends; or the transaction fails
\* before it can tell, and the task goes on without the event.
StatusEvent(t, next) ==
  \/ AppendJobEvent(t.job, t.proc, t.attempt) /\ Goto(t, next)
  \/ ~Current(t) /\ UNCHANGED queueVars /\ Goto(t, "done")
  \/ DbErrors /\ UNCHANGED queueVars /\ Goto(t, next)

\* _provider_started
ProviderStarted(t) ==
  /\ Running(t) /\ WriterFree(t.proc)
  /\ \/ t.pc = "codex_start" /\ StatusEvent(t, "codex")
     \/ t.pc = "claude_start" /\ StatusEvent(t, "claude")
  /\ UNCHANGED <<taskRest, threads, entries>>

\* _provider_ended with success: on to the daily log
ProviderSucceeded(t) ==
  /\ Running(t) /\ WriterFree(t.proc)
  /\ t.pc \in {"codex", "claude"} /\ StatusEvent(t, "save")
  /\ UNCHANGED <<taskRest, threads, entries>>

\* _provider_ended with a failure: Claude after Codex, then a retry
ProviderFailed(t) ==
  /\ Running(t) /\ WriterFree(t.proc)
  /\ \/ t.pc = "codex" /\ StatusEvent(t, "claude_start")
     \/ t.pc = "claude" /\ StatusEvent(t, "giveup")
  /\ UNCHANGED <<taskRest, threads, entries>>

\* record_attempt raises, with or without the event before it: the error leaves
\* the router and reaches process.
RecordAttemptFails(t) ==
  /\ Running(t) /\ WriterFree(t.proc) /\ DbErrors
  /\ t.pc \in {"codex", "claude"} /\ Goto(t, "failing")
  /\ AppendJobEvent(t.job, t.proc, t.attempt) \/ UNCHANGED queueVars
  /\ UNCHANGED <<taskRest, threads, entries>>

\* Where a new thread begins; the name of its log is that of the day.
NewThread(t) ==
  [proc |-> t.proc, job |-> t.job, attempt |-> t.attempt, log |-> today,
   pc |-> "waits", seen |-> Nothing]

Starts(t) == Goto(t, "writing") /\ threads' = threads \cup {NewThread(t)}
Stops(t) == Goto(t, "done") /\ UNCHANGED threads

\* _complete_success up to the append: renew the lease, then the event
\* daily_log_write_started, then the thread
SaveStarts(t) ==
  /\ Running(t) /\ WriterFree(t.proc) /\ t.pc = "save"
  /\ \/ ~Held(t) /\ Stops(t) /\ UNCHANGED queueVars
     \/ /\ Held(t)
        /\ jobs' = [jobs EXCEPT ![t.job].lease = LeaseTicks]
        /\ \/ Current(t) /\ Starts(t)
              /\ runs' = [runs EXCEPT ![t.job].attempt = t.attempt]
           \/ ~Current(t) /\ Stops(t) /\ UNCHANGED runs
           \/ DbErrors /\ Starts(t) /\ UNCHANGED runs
  /\ UNCHANGED <<taskRest, entries>>

\* _complete_success after the append
SaveEnds(t) ==
  /\ Running(t) /\ t.pc = "written"
  /\ \/ Complete(t.job, t.proc) /\ Goto(t, "done")
     \/ ~Held(t) /\ UNCHANGED queueVars /\ Goto(t, "done")
     \/ DbErrors /\ UNCHANGED queueVars /\ Goto(t, "failing")
  /\ UNCHANGED <<taskRest, threads, entries>>

\* `except Exception` of process: retry whatever attempt this owner now holds; an
\* error of get_job leaves process.
Failing(t) ==
  /\ Running(t) /\ t.pc = "failing"
  /\ \/ Goto(t, IF Held(t) THEN "rescue" ELSE "done")
     \/ DbErrors /\ Goto(t, "raised")
  /\ UNCHANGED <<queueVars, taskRest, threads, entries>>

\* Mutant: the error path completes the job instead of retrying it.
GiveUpCompletes(t) ==
  /\ Running(t) /\ WriterFree(t.proc) /\ t.pc \in {"giveup", "rescue"} /\ Goto(t, "done")
  /\ \/ Complete(t.job, t.proc)
     \/ ~Held(t) /\ UNCHANGED queueVars
  /\ UNCHANGED <<taskRest, threads, entries>>

\* _retry_failure; an error of its transaction goes to the handler of process, or
\* out of it.
GiveUp(t) ==
  /\ Running(t) /\ WriterFree(t.proc) /\ t.pc \in {"giveup", "rescue"}
  /\ \/ (\E d \in 0..MaxDelay : Retry(t.job, t.proc, d)) /\ Goto(t, "done")
     \/ ~Held(t) /\ UNCHANGED queueVars /\ Goto(t, "done")
     \/ /\ DbErrors /\ UNCHANGED queueVars
        /\ Goto(t, IF t.pc = "giveup" THEN "failing" ELSE "raised")
  /\ UNCHANGED <<taskRest, threads, entries>>

\* _heartbeat: every await of an attempt runs under one.
Guarded(t) == t.pc \notin {"failing", "raised", "done"}

Heartbeat(t) ==
  /\ Running(t) /\ Guarded(t)
  /\ Renew(t.job, t.proc)
  /\ UNCHANGED workerVars

\* _run_with_lease cancels the operation, and with it the wait for an append
\* thread, but not the thread.
Cancelled(t) ==
  /\ Running(t) /\ Guarded(t) /\ Goto(t, "done")
  /\ UNCHANGED <<queueVars, taskRest, threads, entries>>

\* The renewal finds the lease lost, or raises.
HeartbeatLoses(t) == ~Held(t) /\ Cancelled(t)
HeartbeatFails(t) == DbErrors /\ Cancelled(t)

-----------------------------------------------------------------------------
(* One append thread (append_daily_entry).                                 *)

\* The thread ends; a task that still waits for it learns how.
WaitsFor(t, h) ==
  t.pc = "writing" /\ t.proc = h.proc /\ t.job = h.job /\ t.attempt = h.attempt

Returns(h, pc) ==
  /\ threads' = threads \ {h}
  /\ tasks' = {IF WaitsFor(t, h) THEN [t EXCEPT !.pc = pc] ELSE t : t \in tasks}

\* Mutant: a lock between the threads of one process only.
LockFreeInProcess(h) == \A g \in threads : g.proc = h.proc => g.pc = "waits"

\* memory-writer.lock, a file lock that every thread opens for itself
LockFree(h) == \A g \in threads : g.pc = "waits"

Written(c) == \E d \in Days : entries[d][c] > 0

\* Mutant: only the log that is appended to is searched for the capture-id.
FoundInLog(h) == entries[h.log][h.job] > 0

\* The scan of all daily logs for the capture-id
Found(h) == Written(h.job)

\* With the lock: the scan, then the bytes of the log that is to be replaced.
ReadsLog(h) ==
  /\ h.pc = "waits" /\ LockFree(h)
  /\ IF Found(h)
     THEN Returns(h, "written")
     ELSE /\ threads' = (threads \ {h}) \cup {[h EXCEPT !.pc = "holds", !.seen = entries[h.log]]}
          /\ UNCHANGED tasks
  /\ UNCHANGED <<queueVars, taskRest, entries>>

\* The log is replaced as a whole: what was read, and one entry more.
Commits(h) == entries' = [entries EXCEPT ![h.log] = [h.seen EXCEPT ![h.job] = @ + 1]]

ReplacesLog(h) ==
  /\ h.pc = "holds" /\ Commits(h) /\ Returns(h, "written")
  /\ UNCHANGED <<queueVars, taskRest>>

\* The append raises, before its commit or after it (a directory fsync).
AppendRaises(h) ==
  /\ Returns(h, "failing")
  /\ UNCHANGED entries \/ (h.pc = "holds" /\ Commits(h))
  /\ UNCHANGED <<queueVars, taskRest>>

ThreadGoesOn(h) == ReadsLog(h) \/ ReplacesLog(h)
ThreadStep(h) == ThreadGoesOn(h) \/ AppendRaises(h)

-----------------------------------------------------------------------------
(* Faults.                                                                 *)

\* The process is over, and its lock is free.
Ends(p) ==
  /\ lock = p /\ lock' = NoOwner
  /\ Loop(p, "dead")
  /\ tasks' = tasks \ TasksOf(p)
  /\ abandoned' = TRUE
  /\ UNCHANGED <<queueVars, entries, today, wakes>>

Fault == faults < MaxFaults /\ faults' = faults + 1

\* The process is killed; the operating system drops its locks.
Crash(p) == Ends(p) /\ Fault /\ threads' = {h \in threads : h.proc # p}

\* An exception leaves _drain: tasks are cancelled, the lock is released, and
\* the append threads run to their end before the process does.
Abort(p) == Ends(p) /\ Fault /\ UNCHANGED threads

\* So does the exception of a task when the main loop fetches its result.
LoopRaises(p) ==
  /\ At(p, "wait") /\ Raised(p)
  /\ Ends(p)
  /\ UNCHANGED <<threads, faults>>

Time == Tick /\ UNCHANGED workerVars

Midnight ==
  /\ today < LastDay /\ today' = today + 1
  /\ UNCHANGED <<queueVars, proc, lock, tasks, threads, entries, wakes, faults, abandoned>>

-----------------------------------------------------------------------------

MainLoop(p) ==
  \/ LoopRecover(p) \/ LoopClaimed(p) \/ LoopWake(p)
  \/ LoopIdle(p) \/ LoopSleep(p) \/ LoopRelease(p)
  \/ LoopRaises(p)
  \/ \E c \in Captures : LoopClaim(p, c)

TaskStep(t) ==
  \/ ProviderStarted(t) \/ ProviderSucceeded(t) \/ ProviderFailed(t)
  \/ RecordAttemptFails(t) \/ SaveStarts(t) \/ SaveEnds(t)
  \/ Failing(t) \/ GiveUp(t) \/ HeartbeatLoses(t)

Wake(c) == WakeLoses(c) \/ \E p \in Owners : WakeStarts(c, p)

Next ==
  \/ \E c \in Captures : Capture(c) \/ Wake(c) \/ WakeLost(c)
  \/ \E p \in Owners : MainLoop(p) \/ Crash(p) \/ Abort(p)
  \/ \E t \in tasks : TaskStep(t) \/ Heartbeat(t) \/ HeartbeatFails(t)
  \/ \E h \in threads : ThreadStep(h)
  \/ Time \/ Midnight

\* Every process that can run does run, commands of the event loop end, and
\* provider calls have a timeout: an attempt that can step does, without an error
\* having to happen.  A process that was woken gets to try the lock, and time passes.
Fairness ==
  /\ \A c \in Captures : WF_vars(Wake(c))
  /\ \A p \in Owners : WF_vars(MainLoop(p)) /\ WF_vars(\E t \in TasksOf(p) : TaskStep(t))
  /\ WF_vars(\E h \in threads : ThreadGoesOn(h))
  /\ WF_vars(Time)

Spec == Init /\ [][Next]_vars
FairSpec == Spec /\ Fairness

-----------------------------------------------------------------------------
(* Properties.                                                             *)

\* Types of the state this module adds.
WorkerTypeOK ==
  /\ proc \in [Owners -> ProcPc]
  /\ lock \in Owners \cup {NoOwner}
  /\ tasks \subseteq Task
  /\ threads \subseteq Thread
  /\ entries \in [Days -> [Captures -> Nat]]
  /\ today \in Days
  /\ wakes \in [Captures -> BOOLEAN]
  /\ faults \in 0..MaxFaults
  /\ abandoned \in BOOLEAN

\* A capture enters the daily logs at most once, whatever is retried and on whatever
\* day: crashes between append and completion, appends that raise after their
\* commit, cancelled attempts and aborted processes whose threads go on, two attempts
\* of one job in the same process.
AtMostOneEntry ==
  \A c \in Captures, d \in Days :
    /\ entries[d][c] <= 1
    /\ \A e \in Days : entries[d][c] > 0 /\ entries[e][c] > 0 => d = e

\* No entry is lost again: an append that replaces a log by what it read and its own
\* entry leaves out nothing that another thread, of this process or of one that
\* took over from it, has written meanwhile.
EntriesStay ==
  [][\A c \in Captures, d \in Days : entries'[d][c] >= entries[d][c]]_vars

\* A job is reported as succeeded only when its entry is in a daily log.
SucceededIsWritten ==
  \A c \in Captures \ Legacy : jobs[c].status = "succeeded" => Written(c)

\* Only the process that holds the singleton lock works under a lease; any
\* other lease is what a process left that is no more.
LeaseHeldByDrainer ==
  \A c \in Captures \ Legacy :
    jobs[c].status = "leased" =>
      jobs[c].owner = lock \/ proc[jobs[c].owner] = "dead"

\* No lost wakeup: while a job is open, a worker holds the lock or a woken one
\* has yet to try it, unless a fault took that worker away.  A release that
\* overlooks a concurrent enqueue, whose own worker has just found the lock
\* taken, would leave the job with nobody.
NoLostWakeup ==
  ~Idle => \/ lock # NoOwner
           \/ \E c \in Captures : wakes[c]
           \/ abandoned

\* An attempt that has lost its job to a later attempt does not return it: no
\* job goes back to the queue, or to the dead letters, by a stale attempt.
StaleAttemptNeverRetries ==
  [][\A t \in tasks :
       /\ t.pc = "giveup" /\ t \notin tasks'
       /\ jobs[t.job].status = "leased" /\ jobs'[t.job].status \in {"failed", "dead"}
       => jobs[t.job].attempts = t.attempt]_vars

\* Every captured session is settled in the end, as long as somebody drains:
\* extracted into the daily log or dead-lettered.
Stranded ==
  lock = NoOwner /\ ((\A c \in Captures : ~wakes[c]) \/ \A p \in Owners : proc[p] = "dead")
EveryCaptureSettles ==
  \A c \in Captures : Open(c) ~> (jobs[c].status \in Terminal \/ Stranded)
=============================================================================
