------------------------- MODULE MemoryWorker_proofs -------------------------
(***************************************************************************)
(* Proofs about MemoryWorker, for any sets of captures and processes, any  *)
(* concurrency and any number of faults, with failing database calls or    *)
(* without.  The worker is proved over the invariant IInv of the queue: a  *)
(* worker step is a queue transaction that keeps IInv, by the lemmas of    *)
(* JobQueue_proofs, together with a change of locks, tasks and entries.    *)
(***************************************************************************)
EXTENDS MemoryWorker, JobQueue_proofs

\* A process past "down" and not dead holds the singleton lock.
DrainerHasLock == \A p \in Owners : proc[p] \notin {"down", "dead"} => lock = p

\* What the daily logs hold while attempts are under way.
EntryInv ==
  /\ \A t \in tasks : t.pc = "written" => Written(t.job)
  /\ SucceededIsWritten

\* The append threads of all processes exclude each other: one at most holds the
\* lock, and while it does the log it replaces is what it read, and no log has the
\* entry it adds.
OneHolds == \A h, g \in threads : h.pc = "holds" /\ g.pc = "holds" => h = g
ReadIsFresh ==
  \A h \in threads : h.pc = "holds" => h.seen = entries[h.log] /\ ~Written(h.job)
LogInv == AtMostOneEntry /\ OneHolds /\ ReadIsFresh

\* An attempt of a job is worked on by one task, even when its process works on
\* several attempts of that job.
Numbered == \A t \in tasks : t.attempt <= jobs[t.job].attempts
Unique == \A t, u \in tasks : t.job = u.job /\ t.attempt = u.attempt => t = u

\* Jobs of an older version wait for the first capture that wakes a worker.
WokenInv == Legacy = {} => NoLostWakeup

\* The inductive invariant.
WInv ==
  /\ IInv /\ WorkerTypeOK
  /\ DrainerHasLock /\ LeaseHeldByDrainer /\ WokenInv
  /\ EntryInv /\ LogInv
  /\ Numbered /\ Unique

-----------------------------------------------------------------------------
(* What the transactions of a worker do to the jobs, as the worker sees it. *)

\* A transaction other than a claim or a capture: it leases nothing, opens
\* nothing, and settles only what is in the daily log.
Quiet ==
  \A c \in Captures :
    /\ jobs'[c].attempts = jobs[c].attempts
    /\ jobs'[c].status = "succeeded" => jobs[c].status = "succeeded" \/ Written(c)
    /\ jobs'[c].status = "leased" =>
         jobs[c].status = "leased" /\ jobs'[c].owner = jobs[c].owner
    /\ jobs'[c].status \in Claimable \cup {"leased"} => Open(c)

LEMMA QuietUnchanged == jobs' = jobs => Quiet
  BY DEF Quiet, Open

LEMMA ReturnedFields ==
  ASSUME NEW j \in Job, NEW d
  PROVE  /\ Returned(j, d).attempts = j.attempts
         /\ Returned(j, d).status \in {"dead", "failed"}
<1> DEFINE st == IF Exhausted(j) THEN "dead" ELSE "failed"
<1>1. Returned(j, d) = [j EXCEPT !.status = st, !.owner = NoOwner, !.lease = 0, !.due = d]
  BY DEF Returned
<1>2. st \in {"dead", "failed"}
  OBVIOUS
<1> HIDE DEF st
<1> QED BY <1>1, <1>2 DEF Job

LEMMA QuietRecover == ASSUME IInv, RecoverStale PROVE Quiet /\ IInv'
<1>1. \A c \in Captures : jobs[c] \in Job
  BY DEF IInv, TypeOK
<1>2. ASSUME NEW c \in Captures
      PROVE  \/ jobs'[c] = jobs[c]
             \/ jobs[c].status = "leased" /\ jobs'[c] = Returned(jobs[c], 0)
  BY DEF RecoverStale, Stale
<1>3. Quiet
  BY <1>1, <1>2, ReturnedFields DEF Quiet, Open
<1> QED BY <1>3, RecoverStep DEF Step

LEMMA QuietRetry ==
  ASSUME IInv, NEW c \in Captures, NEW o \in Owners, NEW d \in 0..MaxDelay, Retry(c, o, d)
  PROVE  Quiet /\ IInv'
<1>1. \A e \in Captures : jobs[e] \in Job
  BY DEF IInv, TypeOK
<1>2. ASSUME NEW e \in Captures
      PROVE  \/ jobs'[e] = jobs[e]
             \/ jobs[e].status = "leased" /\ jobs'[e] = Returned(jobs[e], d)
  BY DEF Retry, HeldBy, IInv, TypeOK
<1>3. Quiet
  BY <1>1, <1>2, ReturnedFields DEF Quiet, Open
<1> QED BY <1>3, RetryStep DEF Step

LEMMA QuietRenew ==
  ASSUME IInv, NEW c \in Captures, NEW o \in Owners, Renew(c, o)
  PROVE  Quiet /\ IInv'
<1>1. Quiet
  BY DEF Renew, HeldBy, IInv, TypeOK, Job, Quiet, Open
<1> QED BY <1>1, RenewStep DEF Step

LEMMA QuietComplete ==
  ASSUME IInv, NEW c \in Captures, NEW o \in Owners, Complete(c, o), Written(c)
  PROVE  Quiet /\ IInv'
<1>1. Quiet
  BY DEF Complete, HeldBy, IInv, TypeOK, Job, Quiet, Open
<1> QED BY <1>1, CompleteStep DEF Step

LEMMA QuietEvent ==
  ASSUME IInv, NEW c \in Captures, NEW o \in Owners, NEW n \in 1..MaxAttempts,
         AppendJobEvent(c, o, n)
  PROVE  Quiet /\ IInv'
<1>1. Quiet
  BY QuietUnchanged DEF AppendJobEvent
<1> QED BY <1>1, EventStep DEF Step

LEMMA QuietTick == ASSUME IInv, Tick PROVE Quiet /\ IInv'
<1>1. Quiet
  BY DEF Tick, IInv, TypeOK, Job, Quiet, Open
<1> QED BY <1>1, TickStep DEF Step

\* The renewal before a daily append and its event, in one step.
LEMMA QuietRenewEvent ==
  ASSUME IInv, NEW c \in Captures, NEW n \in 1..MaxAttempts,
         jobs[c].status = "leased", jobs[c].attempts = n,
         jobs' = [jobs EXCEPT ![c].lease = LeaseTicks],
         runs' = [runs EXCEPT ![c].attempt = n]
  PROVE  Quiet /\ IInv'
<1> DEFINE j == [jobs[c] EXCEPT !.lease = LeaseTicks]
<1> DEFINE r == [runs[c] EXCEPT !.attempt = n]
<1>1. /\ TypeOK /\ Rows /\ jobs[c] \in Job /\ runs[c] \in Run
      /\ RowInv(jobs[c], runs[c])
  BY DEF IInv, TypeOK, Rows
<1>2. jobs' = [jobs EXCEPT ![c] = j] /\ runs' = [runs EXCEPT ![c] = r]
  OBVIOUS
<1>3. /\ j \in Job /\ j.status = jobs[c].status /\ j.attempts = jobs[c].attempts
      /\ j.owner = jobs[c].owner
  BY <1>1, QueueAssumption DEF Job
<1>4. /\ r \in Run /\ r.state = runs[c].state /\ r.ends = runs[c].ends /\ r.attempt = n
      /\ r.attempt >= runs[c].attempt
  BY <1>1, QueueAssumption DEF Run, RowInv
<1>5. RowInv(j, r)
  BY <1>1, <1>3, <1>4 DEF RowInv
<1> HIDE DEF j, r
<1>6. IInv'
  <2>1. jobs[c].status \notin Terminal
    BY DEF Terminal
  <2> QED BY <1>1, <1>2, <1>3, <1>4, <1>5, <2>1, OneRow
<1>7. Quiet
  BY <1>1, <1>2, <1>3 DEF Quiet, Open, TypeOK
<1> QED BY <1>6, <1>7

-----------------------------------------------------------------------------
(* What a step does to tasks, entries and processes.                       *)

\* Every task was there before, and has its append behind it only if it had or
\* if the entry is there.
TasksKept ==
  \A u \in tasks' : \E t \in tasks :
    /\ t.job = u.job /\ t.attempt = u.attempt
    /\ u.pc = "written" => t.pc = "written" \/ Written(u.job)'

EntriesKept == \A c \in Captures : Written(c) => Written(c)'

LEMMA MovedTask ==
  ASSUME tasks \subseteq Task, Unique, NEW t \in tasks, NEW pc \in TaskPc, Goto(t, pc),
         pc # "written"
  PROVE  TasksKept /\ Unique' /\ tasks' \subseteq Task
<1> DEFINE m == [t EXCEPT !.pc = pc]
<1>1. tasks' = (tasks \ {t}) \cup {m}
  BY DEF Goto, Moved
<1>2. m \in Task /\ m.job = t.job /\ m.attempt = t.attempt /\ m.pc = pc
  BY DEF Task
<1> HIDE DEF m
<1>3. tasks' \subseteq Task
  BY <1>1, <1>2
<1>4. TasksKept
  BY <1>1, <1>2 DEF TasksKept
<1>5. Unique'
  <2> SUFFICES ASSUME NEW u \in tasks', NEW v \in tasks', u.job = v.job, u.attempt = v.attempt
               PROVE  u = v
    BY DEF Unique
  <2>1. CASE u = m \/ v = m
    BY <1>1, <1>2, <2>1 DEF Unique
  <2>2. CASE u # m /\ v # m
    BY <1>1, <2>2 DEF Unique
  <2> QED BY <2>1, <2>2
<1> QED BY <1>3, <1>4, <1>5

LEMMA FewerTasks ==
  ASSUME Unique, tasks' \subseteq tasks
  PROVE  TasksKept /\ Unique'
  BY DEF Unique, TasksKept

\* The result of a thread moves the task that waits for it, if there is one.
LEMMA ReturnedTask ==
  ASSUME tasks \subseteq Task, Unique, NEW h \in Thread, NEW pc \in {"written", "failing"},
         Returns(h, pc), pc = "written" => Written(h.job)'
  PROVE  TasksKept /\ Unique' /\ tasks' \subseteq Task
<1> DEFINE m(t) == IF WaitsFor(t, h) THEN [t EXCEPT !.pc = pc] ELSE t
<1>1. tasks' = {m(t) : t \in tasks}
  BY DEF Returns
<1>2. ASSUME NEW t \in tasks
      PROVE  /\ m(t) \in Task /\ m(t).job = t.job /\ m(t).attempt = t.attempt
             /\ m(t).pc = "written" => t.pc = "written" \/ Written(t.job)'
  <2>1. t \in Task /\ pc \in TaskPc
    BY DEF TaskPc
  <2>2. CASE WaitsFor(t, h)
    BY <2>1, <2>2 DEF Task, WaitsFor
  <2>3. CASE ~WaitsFor(t, h)
    BY <2>1, <2>3
  <2> QED BY <2>2, <2>3
<1> HIDE DEF m
<1>3. tasks' \subseteq Task
  BY <1>1, <1>2
<1>4. TasksKept
  BY <1>1, <1>2 DEF TasksKept
<1>5. Unique'
  <2> SUFFICES ASSUME NEW u \in tasks', NEW v \in tasks', u.job = v.job, u.attempt = v.attempt
               PROVE  u = v
    BY DEF Unique
  <2>1. PICK t \in tasks : u = m(t)
    BY <1>1
  <2>2. PICK w \in tasks : v = m(w)
    BY <1>1
  <2>3. t = w
    BY <1>2, <2>1, <2>2 DEF Unique
  <2> QED BY <2>1, <2>2, <2>3
<1> QED BY <1>3, <1>4, <1>5

LogType == entries \in [Days -> [Captures -> Nat]]

\* The log that is replaced keeps its entries and gets one that no log had.
LEMMA CommittedEntry ==
  ASSUME LogType, AtMostOneEntry, NEW h \in Thread, Commits(h),
         h.seen = entries[h.log], ~Written(h.job)
  PROVE  /\ LogType' /\ AtMostOneEntry' /\ EntriesKept /\ Written(h.job)'
         /\ \A c \in Captures, d \in Days : entries'[d][c] >= entries[d][c]
<1>1. h.log \in Days /\ h.job \in Captures /\ h.seen \in [Captures -> Nat]
  BY DEF Thread
<1>2. \A d \in Days : entries[d] \in [Captures -> Nat]
  BY DEF LogType
<1>3. \A d \in Days : entries[d][h.job] = 0
  <2>1. \A d \in Days : entries[d][h.job] \in Nat
    BY <1>1, <1>2
  <2>2. \A d \in Days : ~(entries[d][h.job] > 0)
    BY DEF Written
  <2> QED BY <2>1, <2>2
<1> DEFINE new == [h.seen EXCEPT ![h.job] = @ + 1]
<1>4. new \in [Captures -> Nat] /\ new[h.job] = 1
      /\ \A c \in Captures : c # h.job => new[c] = entries[h.log][c]
  <2>1. h.seen[h.job] = 0
    BY <1>1, <1>3
  <2> QED BY <1>1, <2>1
<1>5. entries' = [entries EXCEPT ![h.log] = new]
  BY DEF Commits
<1> HIDE DEF new
<1>6. LogType'
  BY <1>4, <1>5 DEF LogType
<1>7. ASSUME NEW c \in Captures, NEW d \in Days
      PROVE  entries'[d][c] = IF d = h.log /\ c = h.job THEN 1 ELSE entries[d][c]
  <2>1. CASE d = h.log
    BY <1>1, <1>4, <1>5, <2>1 DEF LogType
  <2>2. CASE d # h.log
    BY <1>5, <2>2 DEF LogType
  <2> QED BY <2>1, <2>2
<1>8. \A c \in Captures, d \in Days : entries'[d][c] >= entries[d][c]
  BY <1>2, <1>3, <1>7
<1>9. AtMostOneEntry'
  <2> SUFFICES ASSUME NEW c \in Captures, NEW d \in Days
               PROVE  /\ entries'[d][c] <= 1
                      /\ \A e \in Days : entries'[d][c] > 0 /\ entries'[e][c] > 0 => d = e
    BY DEF AtMostOneEntry
  <2>1. CASE c = h.job
    BY <1>1, <1>3, <1>7, <2>1
  <2>2. CASE c # h.job
    BY <1>7, <2>2 DEF AtMostOneEntry
  <2> QED BY <2>1, <2>2
<1>10. EntriesKept
  BY <1>2, <1>6, <1>8 DEF EntriesKept, Written, LogType
<1>11. Written(h.job)'
  BY <1>1, <1>7 DEF Written
<1> QED BY <1>6, <1>8, <1>9, <1>10, <1>11

\* Nothing is written, and a thread that is new has not read anything yet.
LEMMA LogStep ==
  ASSUME LogInv, entries' = entries, \A h \in threads' : h \in threads \/ h.pc = "waits"
  PROVE  LogInv'
<1>1. AtMostOneEntry'
  BY DEF LogInv, AtMostOneEntry
<1>2. OneHolds'
  BY DEF LogInv, OneHolds
<1>3. ReadIsFresh'
  BY DEF LogInv, ReadIsFresh, Written
<1> QED BY <1>1, <1>2, <1>3 DEF LogInv

LEMMA EntriesUnchanged == ASSUME entries' = entries PROVE EntriesKept
  BY DEF EntriesKept, Written

\* Processes may move inside the main loop; none takes or leaves the lock.
ProcsKept ==
  \A p \in Owners : \/ proc'[p] = proc[p]
                    \/ /\ proc[p] \notin {"down", "dead"}
                       /\ proc'[p] \notin {"down", "dead"}

\* Appends and settled captures stay consistent through a quiet step.
LEMMA EntriesStep ==
  ASSUME EntryInv, tasks \subseteq Task, tasks' \subseteq Task, Quiet, TasksKept, EntriesKept
  PROVE  EntryInv'
<1>1. \A u \in tasks' : u.pc = "written" => Written(u.job)'
  BY DEF EntryInv, TasksKept, EntriesKept, Task
<1>2. SucceededIsWritten'
  BY DEF EntryInv, SucceededIsWritten, Quiet, EntriesKept
<1> QED BY <1>1, <1>2 DEF EntryInv

LEMMA NumberedStep ==
  ASSUME Numbered, tasks \subseteq Task, Quiet, TasksKept
  PROVE  Numbered'
  BY DEF Numbered, Quiet, TasksKept, Task

\* A quiet step that leaves the lock, the wakes and the faults' trace alone.
LEMMA QuietStep ==
  ASSUME WInv, IInv', WorkerTypeOK', Quiet, TasksKept, Unique', EntriesKept, LogInv', ProcsKept,
         UNCHANGED <<lock, wakes, abandoned>>
  PROVE  WInv'
<1>1. tasks \subseteq Task /\ tasks' \subseteq Task
  BY DEF WInv, WorkerTypeOK
<1>2. EntryInv' /\ Numbered'
  BY <1>1, EntriesStep, NumberedStep DEF WInv
<1>3. DrainerHasLock'
  BY DEF WInv, DrainerHasLock, ProcsKept
<1>4. LeaseHeldByDrainer'
  <2>1. \A c \in Captures : jobs[c].status = "leased" => jobs[c].owner \in Owners
    BY DEF WInv, IInv, TypeOK, Rows, RowInv, Job
  <2> QED BY <2>1 DEF WInv, LeaseHeldByDrainer, ProcsKept, Quiet
<1>5. WokenInv'
  BY DEF WInv, WokenInv, NoLostWakeup, Idle, Open, Quiet
<1> QED BY <1>2, <1>3, <1>4, <1>5 DEF WInv

-----------------------------------------------------------------------------
(* The steps of one attempt.                                               *)

LEMMA TaskMoves ==
  ASSUME WInv, NEW t \in tasks, NEW pc \in TaskPc \ {"written"}, Goto(t, pc), Quiet, IInv',
         UNCHANGED <<taskRest, entries>>, threads' \subseteq Thread,
         \A h \in threads' : h \in threads \/ h.pc = "waits"
  PROVE  WInv'
<1>1. tasks \subseteq Task /\ Unique /\ WorkerTypeOK /\ LogInv
  BY DEF WInv, WorkerTypeOK
<1>2. TasksKept /\ Unique' /\ tasks' \subseteq Task
  BY <1>1, MovedTask
<1>3. WorkerTypeOK'
  BY <1>1, <1>2 DEF WorkerTypeOK, taskRest
<1>4. ProcsKept /\ UNCHANGED <<lock, wakes, abandoned>>
  BY DEF ProcsKept, taskRest
<1>5. EntriesKept /\ LogInv'
  BY <1>1, EntriesUnchanged, LogStep
<1> QED BY <1>2, <1>3, <1>4, <1>5, QuietStep

LEMMA QuietStutter == ASSUME IInv, UNCHANGED queueVars PROVE Quiet /\ IInv'
  BY QuietUnchanged DEF queueVars, IInv, TypeOK, Rows

LEMMA StatusEventStep ==
  ASSUME IInv, NEW t \in Task, NEW next, StatusEvent(t, next)
  PROVE  Quiet /\ IInv' /\ (Goto(t, next) \/ Goto(t, "done"))
<1>1. t.job \in Captures /\ t.proc \in Owners /\ t.attempt \in 1..MaxAttempts
  BY DEF Task
<1>2. CASE AppendJobEvent(t.job, t.proc, t.attempt) /\ Goto(t, next)
  BY <1>1, <1>2, QuietEvent
<1>3. CASE UNCHANGED queueVars /\ (Goto(t, next) \/ Goto(t, "done"))
  BY <1>3, QuietStutter
<1> QED BY <1>2, <1>3 DEF StatusEvent

\* Every step of a task keeps the invariant.
LEMMA TaskStepKeeps ==
  ASSUME WInv, NEW t \in tasks, TaskStep(t) \/ HeartbeatFails(t)
  PROVE  WInv'
<1>1. /\ IInv /\ t \in Task /\ threads \subseteq Thread
      /\ t.job \in Captures /\ t.proc \in Owners /\ t.attempt \in 1..MaxAttempts
  BY DEF WInv, WorkerTypeOK, Task
<1>2. {"codex_start", "codex", "claude_start", "claude", "save", "writing", "giveup",
       "failing", "rescue", "raised", "done"} = TaskPc \ {"written"}
  BY DEF TaskPc
<1>3. ASSUME NEW pc \in TaskPc \ {"written"}, Goto(t, pc), Quiet, IInv',
             UNCHANGED <<taskRest, threads, entries>>
      PROVE  WInv'
  BY <1>1, <1>3, TaskMoves
<1>4. ASSUME NEW next \in TaskPc \ {"written"}, StatusEvent(t, next),
             UNCHANGED <<taskRest, threads, entries>>
      PROVE  WInv'
  <2>1. Quiet /\ IInv'
    BY <1>1, <1>4, StatusEventStep
  <2>2. PICK pc \in {next, "done"} : Goto(t, pc)
    BY <1>1, <1>4, StatusEventStep
  <2>3. pc \in TaskPc \ {"written"}
    BY <1>2
  <2> QED BY <1>3, <1>4, <2>1, <2>2, <2>3
<1>5. CASE ProviderStarted(t)
  BY <1>2, <1>4, <1>5 DEF ProviderStarted
<1>6. CASE ProviderSucceeded(t)
  BY <1>2, <1>4, <1>6 DEF ProviderSucceeded
<1>7. CASE ProviderFailed(t)
  BY <1>2, <1>4, <1>7 DEF ProviderFailed
<1>8. CASE RecordAttemptFails(t)
  <2>1. Quiet /\ IInv'
    <3>1. CASE AppendJobEvent(t.job, t.proc, t.attempt)
      BY <1>1, <3>1, QuietEvent
    <3>2. CASE UNCHANGED queueVars
      BY <1>1, <3>2, QuietStutter
    <3> QED BY <1>8, <3>1, <3>2 DEF RecordAttemptFails
  <2> QED BY <1>2, <1>3, <1>8, <2>1 DEF RecordAttemptFails
<1>9. CASE SaveStarts(t)
  <2>1. UNCHANGED <<taskRest, entries>> /\ (Stops(t) \/ Starts(t))
    BY <1>9 DEF SaveStarts
  <2>2. Quiet /\ IInv'
    <3>1. CASE UNCHANGED queueVars
      BY <1>1, <3>1, QuietStutter
    <3>2. CASE Held(t) /\ jobs' = [jobs EXCEPT ![t.job].lease = LeaseTicks] /\ UNCHANGED runs
      <4>1. Renew(t.job, t.proc)
        BY <3>2 DEF Renew, Held
      <4> QED BY <1>1, <4>1, QuietRenew
    <3>3. CASE /\ Held(t) /\ Current(t)
               /\ jobs' = [jobs EXCEPT ![t.job].lease = LeaseTicks]
               /\ runs' = [runs EXCEPT ![t.job].attempt = t.attempt]
      BY <1>1, <3>3, QuietRenewEvent DEF Held, HeldBy, Current
    <3> QED BY <1>9, <3>1, <3>2, <3>3 DEF SaveStarts
  <2>3. CASE Stops(t)
    BY <1>2, <1>3, <2>1, <2>2, <2>3 DEF Stops
  <2>4. CASE Starts(t)
    <3>1. NewThread(t) \in Thread /\ NewThread(t).pc = "waits"
      <4>1. today \in Days /\ Nothing \in [Captures -> Nat]
        BY DEF WInv, WorkerTypeOK, Nothing
      <4> QED BY <1>1, <4>1 DEF NewThread, Thread
    <3>2. threads' = threads \cup {NewThread(t)} /\ Goto(t, "writing")
      BY <2>4 DEF Starts
    <3> QED BY <1>1, <1>2, <2>1, <2>2, <3>1, <3>2, TaskMoves
  <2> QED BY <2>1, <2>3, <2>4
<1>10. CASE SaveEnds(t)
  <2>1. UNCHANGED <<taskRest, threads, entries>> /\ (Goto(t, "done") \/ Goto(t, "failing"))
    BY <1>10 DEF SaveEnds
  <2>2. Written(t.job)
    BY <1>10 DEF SaveEnds, WInv, EntryInv
  <2>3. Quiet /\ IInv'
    <3>1. CASE Complete(t.job, t.proc)
      BY <1>1, <2>2, <3>1, QuietComplete
    <3>2. CASE UNCHANGED queueVars
      BY <1>1, <3>2, QuietStutter
    <3> QED BY <1>10, <3>1, <3>2 DEF SaveEnds
  <2> QED BY <1>2, <1>3, <2>1, <2>3
<1>11. CASE Failing(t)
  <2>1. Quiet /\ IInv'
    BY <1>1, <1>11, QuietStutter DEF Failing
  <2>2. \/ Goto(t, "rescue") \/ Goto(t, "done") \/ Goto(t, "raised")
    BY <1>11 DEF Failing
  <2> QED BY <1>2, <1>3, <1>11, <2>1, <2>2 DEF Failing
<1>12. CASE GiveUp(t)
  <2>1. Quiet /\ IInv'
    <3>1. CASE UNCHANGED queueVars
      BY <1>1, <3>1, QuietStutter
    <3>2. ASSUME NEW d \in 0..MaxDelay, Retry(t.job, t.proc, d) PROVE Quiet /\ IInv'
      BY <1>1, <3>2, QuietRetry
    <3> QED BY <1>12, <3>1, <3>2 DEF GiveUp
  <2>2. \/ Goto(t, "done") \/ Goto(t, "failing") \/ Goto(t, "raised")
    BY <1>12 DEF GiveUp
  <2> QED BY <1>2, <1>3, <1>12, <2>1, <2>2 DEF GiveUp
<1>13. CASE HeartbeatLoses(t) \/ HeartbeatFails(t)
  <2>1. Cancelled(t)
    BY <1>13 DEF HeartbeatLoses, HeartbeatFails
  <2>2. Quiet /\ IInv'
    BY <1>1, <2>1, QuietStutter DEF Cancelled
  <2> QED BY <1>2, <1>3, <2>1, <2>2 DEF Cancelled
<1> QED BY <1>5, <1>6, <1>7, <1>8, <1>9, <1>10, <1>11, <1>12, <1>13 DEF TaskStep

\* Every step of an append thread keeps the invariant, and touches no job.
LEMMA ThreadKeeps ==
  ASSUME WInv, NEW h \in threads, ThreadStep(h)
  PROVE  WInv' /\ UNCHANGED queueVars
         /\ \A c \in Captures, d \in Days : entries'[d][c] >= entries[d][c]
<1>1. /\ IInv /\ h \in Thread /\ threads \subseteq Thread /\ tasks \subseteq Task /\ Unique
      /\ LogType /\ LogInv /\ WorkerTypeOK /\ h.job \in Captures
  BY DEF WInv, WorkerTypeOK, LogType, Thread
<1>2. UNCHANGED <<queueVars, taskRest>>
  BY DEF ThreadStep, ThreadGoesOn, ReadsLog, ReplacesLog, AppendRaises
<1>3. Quiet /\ IInv' /\ ProcsKept /\ UNCHANGED <<lock, wakes, abandoned>>
  BY <1>1, <1>2, QuietStutter DEF ProcsKept, taskRest
<1>4. ASSUME tasks' \subseteq Task, TasksKept, Unique', threads' \subseteq Thread, LogType',
             LogInv', EntriesKept
      PROVE  WInv'
  <2>1. WorkerTypeOK'
    BY <1>1, <1>2, <1>4 DEF WorkerTypeOK, taskRest, LogType
  <2> QED BY <1>3, <1>4, <2>1, QuietStep
<1>5. entries' = entries => /\ EntriesKept /\ LogType'
                            /\ \A c \in Captures, d \in Days : entries'[d][c] >= entries[d][c]
  <2>1. ASSUME NEW c \in Captures, NEW d \in Days PROVE entries[d][c] \in Nat
    BY <1>1 DEF LogType
  <2> QED BY <1>1, <2>1, EntriesUnchanged DEF LogType
<1>6. CASE h.pc = "waits" /\ LockFree(h) /\ ~Found(h) /\ UNCHANGED <<tasks, entries>>
           /\ threads' = (threads \ {h}) \cup {[h EXCEPT !.pc = "holds", !.seen = entries[h.log]]}
  <2>0. PICK g : g = [h EXCEPT !.pc = "holds", !.seen = entries[h.log]]
    OBVIOUS
  <2>1. g \in Thread /\ g.job = h.job /\ g.log = h.log /\ g.seen = entries[h.log]
    BY <1>1, <2>0 DEF Thread, LogType
  <2>2. threads' = (threads \ {h}) \cup {g}
    BY <1>6, <2>0
  <2>3. TasksKept /\ Unique' /\ tasks' \subseteq Task
    BY <1>1, <1>6, FewerTasks
  <2>4. LogInv'
    <3>1. AtMostOneEntry'
      BY <1>1, <1>6 DEF LogInv, AtMostOneEntry
    <3>2. \A k \in threads' : k.pc = "holds" => k = g
      BY <1>6, <2>2 DEF LockFree
    <3>3. g.seen = entries'[g.log] /\ ~Written(g.job)'
      BY <1>6, <2>1 DEF Found, Written
    <3> QED BY <3>1, <3>2, <3>3 DEF LogInv, OneHolds, ReadIsFresh
  <2>5. threads' \subseteq Thread
    BY <1>1, <2>1, <2>2
  <2> QED BY <1>2, <1>4, <1>5, <1>6, <2>3, <2>4, <2>5
<1>7. ASSUME NEW pc \in {"written", "failing"}, Returns(h, pc), entries' = entries,
             pc = "written" => Written(h.job)
      PROVE  WInv'
  <2>1. threads' \subseteq threads
    BY <1>7 DEF Returns
  <2>2. Written(h.job) => Written(h.job)'
    BY <1>7 DEF Written
  <2>3. TasksKept /\ Unique' /\ tasks' \subseteq Task
    BY <1>1, <1>7, <2>2, ReturnedTask
  <2>4. LogInv'
    BY <1>1, <1>7, <2>1, LogStep
  <2> QED BY <1>1, <1>4, <1>5, <1>7, <2>1, <2>3, <2>4
<1>8. ASSUME NEW pc \in {"written", "failing"}, Returns(h, pc), h.pc = "holds", Commits(h)
      PROVE  WInv' /\ \A c \in Captures, d \in Days : entries'[d][c] >= entries[d][c]
  <2>1. h.seen = entries[h.log] /\ ~Written(h.job) /\ AtMostOneEntry
    BY <1>1, <1>8 DEF LogInv, ReadIsFresh
  <2>2. /\ LogType' /\ AtMostOneEntry' /\ EntriesKept /\ Written(h.job)'
        /\ \A c \in Captures, d \in Days : entries'[d][c] >= entries[d][c]
    BY <1>1, <1>8, <2>1, CommittedEntry
  <2>3. threads' = threads \ {h}
    BY <1>8 DEF Returns
  <2>4. TasksKept /\ Unique' /\ tasks' \subseteq Task
    BY <1>1, <1>8, <2>2, ReturnedTask
  <2>5. \A k \in threads' : k.pc # "holds"
    BY <1>1, <1>8, <2>3 DEF LogInv, OneHolds
  <2>6. LogInv'
    BY <2>2, <2>5 DEF LogInv, OneHolds, ReadIsFresh
  <2> QED BY <1>1, <1>4, <2>2, <2>3, <2>4, <2>6
<1>9. CASE ReadsLog(h)
  <2>1. CASE Found(h)
    BY <1>2, <1>5, <1>7, <1>9, <2>1 DEF ReadsLog, Found
  <2>2. CASE ~Found(h)
    BY <1>6, <1>9, <2>2 DEF ReadsLog
  <2> QED BY <2>1, <2>2
<1>10. CASE ReplacesLog(h)
  BY <1>2, <1>8, <1>10 DEF ReplacesLog
<1>11. CASE AppendRaises(h)
  BY <1>2, <1>5, <1>7, <1>8, <1>11 DEF AppendRaises
<1> QED BY <1>9, <1>10, <1>11 DEF ThreadStep, ThreadGoesOn

-----------------------------------------------------------------------------
(* The capture side, the main loop and the faults.                         *)

LEMMA CaptureKeeps == ASSUME WInv, NEW c \in Captures, Capture(c) PROVE WInv'
<1>1. IInv /\ IInv' /\ TypeOK /\ TypeOK' /\ wakes \in [Captures -> BOOLEAN]
  BY EnqueueStep DEF Capture, WInv, WorkerTypeOK, Step, IInv
<1>2. WorkerTypeOK' /\ wakes'[c]
  BY <1>1 DEF Capture, WInv, WorkerTypeOK
<1>3. \A d \in Captures :
        \/ jobs'[d] = jobs[d]
        \/ d = c /\ jobs[d].status = "absent" /\ jobs'[d] = Row("pending", 0, NoOwner, 0)
  BY <1>1 DEF Capture, EnqueueCapture, TypeOK
<1>4. Row("pending", 0, NoOwner, 0).status = "pending"
      /\ Row("pending", 0, NoOwner, 0).attempts = 0
  BY DEF Row
<1>5. DrainerHasLock' /\ Unique'
  BY DEF Capture, WInv, DrainerHasLock, Unique
<1>6. LeaseHeldByDrainer'
  BY <1>3, <1>4 DEF Capture, WInv, LeaseHeldByDrainer
<1>7. WokenInv'
  BY <1>2 DEF WokenInv, NoLostWakeup
<1>8. EntryInv'
  BY <1>3, <1>4 DEF Capture, WInv, EntryInv, SucceededIsWritten, Written
<1>10. LogInv'
  BY LogStep DEF Capture, WInv
<1>9. Numbered'
  <2>1. \A d \in Captures : jobs'[d].attempts = jobs[d].attempts
    BY <1>1, <1>3, <1>4 DEF IInv, Rows, RowInv
  <2> QED BY <2>1 DEF Capture, WInv, WorkerTypeOK, Task, Numbered
<1> QED BY <1>1, <1>2, <1>5, <1>6, <1>7, <1>8, <1>9, <1>10 DEF WInv

LEMMA WakeKeeps ==
  ASSUME WInv, NEW c \in Captures, Wake(c) \/ WakeLost(c)
  PROVE  WInv'
<1>1. UNCHANGED <<queueVars, tasks, threads, entries, today>> /\ IInv /\ WorkerTypeOK
  BY DEF Wake, WakeLoses, WakeStarts, WakeLost, WInv
<1>2. Quiet /\ IInv'
  BY <1>1, QuietStutter
<1>3. EntryInv' /\ LogInv' /\ Numbered' /\ Unique'
  BY <1>1, LogStep DEF WInv, EntryInv, SucceededIsWritten, Written, Numbered, Unique, queueVars
<1>4. CASE WakeLoses(c)
  BY <1>1, <1>2, <1>3, <1>4 DEF WakeLoses, WInv, WorkerTypeOK, DrainerHasLock,
     LeaseHeldByDrainer, WokenInv, NoLostWakeup, queueVars
<1>5. CASE WakeLost(c)
  <2>1. WorkerTypeOK'
    BY <1>1, <1>5, WorkerAssumption DEF WakeLost, WorkerTypeOK
  <2> QED BY <1>1, <1>2, <1>3, <1>5, <2>1 DEF WakeLost, WInv, DrainerHasLock,
          LeaseHeldByDrainer, WokenInv, NoLostWakeup, queueVars
<1>6. ASSUME NEW p \in Owners, WakeStarts(c, p) PROVE WInv'
  <2>1. WorkerTypeOK'
    BY <1>1, <1>6 DEF WakeStarts, WorkerTypeOK, ProcPc
  <2>2. DrainerHasLock'
    <3>1. \A q \in Owners : proc[q] \in {"down", "dead"}
      BY <1>6, QueueAssumption DEF WakeStarts, WInv, DrainerHasLock
    <3> QED BY <1>1, <1>6, <3>1 DEF WakeStarts, DrainerHasLock, WorkerTypeOK
  <2>3. LeaseHeldByDrainer'
    <3>1. \A d \in Captures : jobs[d].status = "leased" => jobs[d].owner \in Owners
      BY DEF WInv, IInv, TypeOK, Rows, RowInv, Job
    <3>2. proc[p] = "down" /\ lock = NoOwner /\ proc' = [proc EXCEPT ![p] = "recover"]
      BY <1>6 DEF WakeStarts
    <3> QED BY <1>1, <3>1, <3>2, QueueAssumption DEF WInv, LeaseHeldByDrainer, queueVars,
            WorkerTypeOK
  <2>4. WokenInv'
    BY <1>6, QueueAssumption DEF WakeStarts, WokenInv, NoLostWakeup
  <2> QED BY <1>2, <1>3, <2>1, <2>2, <2>3, <2>4 DEF WInv
<1> QED BY <1>4, <1>5, <1>6 DEF Wake

LEMMA ClaimKeeps ==
  ASSUME WInv, NEW p \in Owners, NEW c \in Captures, LoopClaim(p, c)
  PROVE  WInv'
<1> DEFINE t == [proc |-> p, job |-> c, attempt |-> jobs[c].attempts + 1, pc |-> "codex_start"]
<1>1. /\ IInv /\ WorkerTypeOK /\ jobs[c] \in Job /\ jobs[c].status \in Claimable
      /\ jobs[c].attempts \in 0..MaxAttempts /\ jobs[c].attempts < MaxAttempts
      /\ tasks \subseteq Task
  BY DEF LoopClaim, ClaimNext, Ready, WInv, IInv, TypeOK, Rows, RowInv, Job, WorkerTypeOK
<1>2. IInv'
  BY <1>1, ClaimStep DEF LoopClaim, Step
<1>3. t \in Task /\ t.job = c /\ t.attempt = jobs[c].attempts + 1 /\ t.pc = "codex_start"
  BY <1>1, QueueAssumption DEF Task, TaskPc
<1>4. tasks' = tasks \cup {t} /\ UNCHANGED <<proc, lock, threads, entries, today, wakes, faults, abandoned>>
  BY DEF LoopClaim, loopRest
<1>5. /\ \A d \in Captures : d # c => jobs'[d] = jobs[d]
      /\ jobs'[c].status = "leased" /\ jobs'[c].owner = p
      /\ jobs'[c].attempts = jobs[c].attempts + 1
  BY <1>1 DEF LoopClaim, ClaimNext, IInv, TypeOK, Job
<1> HIDE DEF t
<1>6. WorkerTypeOK'
  BY <1>1, <1>3, <1>4 DEF WorkerTypeOK
<1>7. lock = p /\ DrainerHasLock'
  BY <1>4 DEF LoopClaim, At, WInv, DrainerHasLock
<1>8. LeaseHeldByDrainer'
  BY <1>4, <1>5, <1>7 DEF WInv, LeaseHeldByDrainer
<1>9. WokenInv'
  BY <1>4, <1>7, QueueAssumption DEF WokenInv, NoLostWakeup
<1>10. EntryInv' /\ LogInv'
  BY <1>3, <1>4, <1>5, LogStep DEF WInv, EntryInv, SucceededIsWritten, Written
<1>11. \A u \in tasks : u.attempt \in Int /\ u.job \in Captures
       /\ u.attempt <= jobs[u.job].attempts
  BY <1>1 DEF Task, WInv, Numbered
<1>12. Numbered'
  <2>1. \A d \in Captures : jobs'[d].attempts >= jobs[d].attempts /\ jobs[d].attempts \in Int
    BY <1>1, <1>5 DEF IInv, TypeOK, Job
  <2>2. \A d \in Captures : jobs'[d].attempts \in Int
    BY <1>2 DEF IInv, TypeOK, Job
  <2> QED BY <1>1, <1>3, <1>4, <1>5, <1>11, <2>1, <2>2 DEF Numbered
<1>13. Unique'
  <2>1. \A u \in tasks : ~(u.job = t.job /\ u.attempt = t.attempt)
    BY <1>1, <1>3, <1>11
  <2> QED BY <1>4, <2>1 DEF WInv, Unique
<1> QED BY <1>2, <1>6, <1>7, <1>8, <1>9, <1>10, <1>12, <1>13 DEF WInv

\* The quiet steps of the main loop.
LEMMA LoopMoves ==
  ASSUME WInv, NEW p \in Owners, NEW pc \in ProcPc \ {"down", "dead"}, Loop(p, pc),
         proc[p] \notin {"down", "dead"}, Quiet, IInv', tasks' \subseteq tasks,
         UNCHANGED <<lock, loopRest>>
  PROVE  WInv'
<1>1. WorkerTypeOK /\ Unique
  BY DEF WInv
<1>2. WorkerTypeOK'
  BY <1>1 DEF WorkerTypeOK, Loop, loopRest
<1>3. ProcsKept
  BY <1>1 DEF ProcsKept, Loop, WorkerTypeOK
<1>4. EntriesKept /\ LogInv' /\ UNCHANGED <<lock, wakes, abandoned>>
  BY EntriesUnchanged, LogStep DEF WInv, loopRest
<1>5. TasksKept /\ Unique'
  BY <1>1, FewerTasks
<1> QED BY <1>2, <1>3, <1>4, <1>5, QuietStep

LEMMA ReleaseKeeps ==
  ASSUME WInv, NEW p \in Owners, LoopRelease(p), Idle, lock' = NoOwner, Loop(p, "down")
  PROVE  WInv'
<1>1. UNCHANGED <<queueVars, tasks, threads, entries, today, wakes, faults, abandoned>> /\ IInv
  BY DEF LoopRelease, loopRest, WInv
<1>2. IInv'
  BY <1>1, QuietStutter
<1>3. WorkerTypeOK'
  BY <1>1 DEF WInv, WorkerTypeOK, Loop, ProcPc
<1>4. lock = p
  BY DEF LoopRelease, At, WInv, DrainerHasLock
<1>5. DrainerHasLock'
  BY <1>4 DEF WInv, DrainerHasLock, Loop, WorkerTypeOK
<1>6. \A c \in Captures : jobs'[c].status \notin Claimable \cup {"leased"}
  BY <1>1 DEF Idle, Open, queueVars
<1>7. LeaseHeldByDrainer' /\ WokenInv'
  BY <1>6 DEF LeaseHeldByDrainer, WokenInv, NoLostWakeup, Idle, Open
<1>8. EntryInv' /\ LogInv' /\ Numbered' /\ Unique'
  BY <1>1, LogStep DEF WInv, EntryInv, SucceededIsWritten, Written, Numbered, Unique, queueVars
<1> QED BY <1>2, <1>3, <1>5, <1>7, <1>8 DEF WInv

LEMMA EndsKeeps ==
  ASSUME WInv, NEW p \in Owners, Ends(p), threads' \subseteq threads, faults' \in 0..MaxFaults
  PROVE  WInv'
<1>1. UNCHANGED <<queueVars, entries, today, wakes>> /\ IInv /\ Unique /\ WorkerTypeOK
  BY DEF Ends, WInv
<1>2. Quiet /\ IInv'
  BY <1>1, QuietStutter
<1>3. tasks' \subseteq tasks /\ lock = p /\ lock' = NoOwner /\ abandoned'
      /\ proc' = [proc EXCEPT ![p] = "dead"]
  BY DEF Ends, Loop
<1>4. WorkerTypeOK'
  BY <1>1, <1>3 DEF Ends, WorkerTypeOK, ProcPc
<1>5. TasksKept /\ Unique' /\ EntriesKept /\ tasks \subseteq Task /\ tasks' \subseteq Task
  BY <1>1, <1>3, <1>4, FewerTasks, EntriesUnchanged DEF WorkerTypeOK
<1>6. EntryInv' /\ LogInv' /\ Numbered'
  BY <1>1, <1>2, <1>5, EntriesStep, LogStep, NumberedStep DEF WInv
<1>7. DrainerHasLock'
  BY <1>1, <1>3 DEF WInv, DrainerHasLock, WorkerTypeOK
<1>8. LeaseHeldByDrainer'
  BY <1>1, <1>3 DEF WInv, LeaseHeldByDrainer, queueVars, WorkerTypeOK
<1>9. WokenInv'
  BY <1>3 DEF WokenInv, NoLostWakeup
<1> QED BY <1>2, <1>4, <1>5, <1>6, <1>7, <1>8, <1>9 DEF WInv

LEMMA MainLoopKeeps == ASSUME WInv, NEW p \in Owners, MainLoop(p) PROVE WInv'
<1>1. IInv /\ (queueVars' = queueVars => Quiet /\ IInv')
  BY QuietStutter DEF WInv
<1>2. /\ {"recover", "claim", "wait", "idle", "sleep", "release"} = ProcPc \ {"down", "dead"}
  BY DEF ProcPc
<1>3. CASE LoopRecover(p)
  <2>1. Quiet /\ IInv'
    BY <1>1, <1>3, QuietRecover DEF LoopRecover
  <2> QED BY <1>2, <1>3, <2>1, LoopMoves DEF LoopRecover, At
<1>4. CASE LoopClaimed(p)
  BY <1>1, <1>2, <1>4, LoopMoves DEF LoopClaimed, At
<1>5. CASE LoopWake(p)
  BY <1>1, <1>2, <1>5, LoopMoves DEF LoopWake, At
<1>6. CASE LoopIdle(p)
  BY <1>1, <1>2, <1>6, LoopMoves DEF LoopIdle, At
<1>7. CASE LoopSleep(p)
  BY <1>1, <1>2, <1>7, LoopMoves DEF LoopSleep, At
<1>8. CASE LoopRelease(p)
  <2>1. CASE Idle
    BY <1>8, <2>1, ReleaseKeeps DEF LoopRelease
  <2>2. CASE ~Idle
    BY <1>1, <1>2, <1>8, <2>2, LoopMoves DEF LoopRelease, At
  <2> QED BY <2>1, <2>2
<1>9. ASSUME NEW c \in Captures, LoopClaim(p, c) PROVE WInv'
  BY <1>9, ClaimKeeps
<1>10. CASE LoopRaises(p)
  BY <1>10, EndsKeeps DEF LoopRaises, WInv, WorkerTypeOK
<1> QED BY <1>3, <1>4, <1>5, <1>6, <1>7, <1>8, <1>9, <1>10 DEF MainLoop

LEMMA OthersKeep ==
  ASSUME WInv, UNCHANGED <<proc, lock, wakes, faults, abandoned, tasks, threads, entries>>,
         today' \in Days, Quiet, IInv'
  PROVE  WInv'
<1>1. WorkerTypeOK' /\ ProcsKept
  BY DEF WInv, WorkerTypeOK, ProcsKept
<1>2. TasksKept /\ Unique' /\ EntriesKept /\ LogInv'
  BY FewerTasks, EntriesUnchanged, LogStep DEF WInv
<1> QED BY <1>1, <1>2, QuietStep

LEMMA WorkerNext == ASSUME WInv, [Next]_vars PROVE WInv'
<1>1. /\ IInv /\ threads \subseteq Thread /\ tasks \subseteq Task /\ today \in Days
      /\ faults \in 0..MaxFaults
  BY DEF WInv, WorkerTypeOK
<1>2. Fault => faults' \in 0..MaxFaults
  BY <1>1, WorkerAssumption DEF Fault
<1>3. ASSUME NEW c \in Captures, Capture(c) PROVE WInv'
  BY <1>3, CaptureKeeps
<1>4. ASSUME NEW c \in Captures, Wake(c) \/ WakeLost(c) PROVE WInv'
  BY <1>4, WakeKeeps
<1>5. ASSUME NEW p \in Owners, MainLoop(p) PROVE WInv'
  BY <1>5, MainLoopKeeps
<1>6. ASSUME NEW p \in Owners, Crash(p) PROVE WInv'
  BY <1>2, <1>6, EndsKeeps DEF Crash
<1>7. ASSUME NEW p \in Owners, Abort(p) PROVE WInv'
  BY <1>2, <1>7, EndsKeeps DEF Abort
<1>8. ASSUME NEW t \in tasks, TaskStep(t) \/ HeartbeatFails(t) PROVE WInv'
  BY <1>8, TaskStepKeeps
<1>9. ASSUME NEW t \in tasks, Heartbeat(t) PROVE WInv'
  <2>1. Quiet /\ IInv'
    BY <1>1, <1>9, QuietRenew DEF Heartbeat, Task
  <2> QED BY <1>1, <1>9, <2>1, OthersKeep DEF Heartbeat, workerVars
<1>10. ASSUME NEW h \in threads, ThreadStep(h) PROVE WInv'
  BY <1>10, ThreadKeeps
<1>11. CASE Time
  <2>1. Quiet /\ IInv'
    BY <1>1, <1>11, QuietTick DEF Time
  <2> QED BY <1>1, <1>11, <2>1, OthersKeep DEF Time, workerVars
<1>12. CASE Midnight
  <2>1. Quiet /\ IInv'
    BY <1>1, <1>12, QuietStutter DEF Midnight
  <2>2. today' \in Days
    BY <1>1, <1>12, WorkerAssumption DEF Midnight, Days
  <2> QED BY <1>12, <2>1, <2>2, OthersKeep DEF Midnight
<1>13. CASE UNCHANGED vars
  <2>1. Quiet /\ IInv'
    BY <1>1, <1>13, QuietStutter DEF vars
  <2> QED BY <1>1, <1>13, <2>1, OthersKeep DEF vars, workerVars
<1> QED BY <1>3, <1>4, <1>5, <1>6, <1>7, <1>8, <1>9, <1>10, <1>11, <1>12, <1>13 DEF Next

LEMMA WorkerInit == Init => WInv
<1> SUFFICES ASSUME Init PROVE WInv
  OBVIOUS
<1>1. IInv
  BY InitRows DEF Init
<1>2. WorkerTypeOK
  <2>1. 0 \in 0..MaxFaults /\ 1 \in Days
    BY WorkerAssumption DEF Days
  <2>2. Nothing \in [Captures -> Nat]
    BY DEF Nothing
  <2>3. /\ proc \in [Owners -> ProcPc] /\ entries \in [Days -> [Captures -> Nat]]
        /\ wakes \in [Captures -> BOOLEAN]
    BY <2>2 DEF Init, ProcPc
  <2> QED BY <2>1, <2>3 DEF Init, WorkerTypeOK
<1>3. DrainerHasLock /\ Numbered /\ Unique
  BY DEF Init, DrainerHasLock, Numbered, Unique
<1>4. \A c \in Captures \ Legacy : jobs[c].status = "absent"
  <2>1. \A c \in Captures \ Legacy : jobs[c] = NoJob
    BY DEF Init, QueueInit
  <2>2. NoJob.status = "absent"
    BY DEF NoJob, Row
  <2> QED BY <2>1, <2>2
<1>5. EntryInv /\ LeaseHeldByDrainer
  BY <1>4 DEF Init, EntryInv, SucceededIsWritten, LeaseHeldByDrainer
<1>7. LogInv
  <2>1. \A c \in Captures, d \in Days : entries[d][c] = 0
    BY DEF Init, Nothing
  <2> QED BY <2>1 DEF Init, LogInv, AtMostOneEntry, OneHolds, ReadIsFresh
<1>6. WokenInv
  <2>1. Legacy = {} => \A c \in Captures : jobs[c].status = "absent"
    BY <1>4
  <2> QED BY <2>1 DEF WokenInv, NoLostWakeup, Idle, Open, Claimable
<1> QED BY <1>1, <1>2, <1>3, <1>5, <1>6, <1>7 DEF WInv

-----------------------------------------------------------------------------
(* What the worker does to the queue.                                      *)

\* Every step but those of the tasks takes a step of the queue, or none.
LEMMA OthersQueue ==
  ASSUME WInv, [Next]_vars, \A t \in tasks : ~(TaskStep(t) \/ HeartbeatFails(t))
  PROVE  [QueueNext]_queueVars
<1>1. tasks \subseteq Task
  BY DEF WInv, WorkerTypeOK
<1>3. ASSUME NEW c \in Captures, Capture(c) PROVE [QueueNext]_queueVars
  BY <1>3 DEF Capture, QueueNext
<1>4. ASSUME NEW c \in Captures, Wake(c) \/ WakeLost(c) PROVE [QueueNext]_queueVars
  BY <1>4 DEF Wake, WakeLoses, WakeStarts, WakeLost
<1>5. ASSUME NEW p \in Owners, MainLoop(p) PROVE [QueueNext]_queueVars
  BY <1>5 DEF MainLoop, LoopRecover, LoopClaim, LoopClaimed, LoopWake, LoopIdle, LoopSleep,
     LoopRelease, LoopRaises, Ends, QueueNext
<1>6. ASSUME NEW p \in Owners, Crash(p) \/ Abort(p) PROVE [QueueNext]_queueVars
  BY <1>6 DEF Crash, Abort, Ends
<1>7. ASSUME NEW t \in tasks, Heartbeat(t) PROVE [QueueNext]_queueVars
  BY <1>1, <1>7 DEF Heartbeat, QueueNext, Task
<1>8. ASSUME NEW h \in threads, ThreadStep(h) PROVE [QueueNext]_queueVars
  BY <1>8, ThreadKeeps
<1>9. Time \/ Midnight => [QueueNext]_queueVars
  BY DEF Time, Midnight, QueueNext
<1>10. UNCHANGED vars => [QueueNext]_queueVars
  BY DEF vars
<1> QED BY <1>3, <1>4, <1>5, <1>6, <1>7, <1>8, <1>9, <1>10 DEF Next

-----------------------------------------------------------------------------
(* The queue under the worker still implements JobLifecycle.               *)

LEMMA TaskLife ==
  ASSUME WInv, NEW t \in tasks, TaskStep(t) \/ HeartbeatFails(t)
  PROVE  [Lifecycle!Next]_(Lifecycle!lifeVars)
<1>1. IInv /\ t.job \in Captures /\ t.proc \in Owners /\ t.attempt \in 1..MaxAttempts
  BY DEF WInv, WorkerTypeOK, Task
<1>2. [QueueNext]_queueVars => [Lifecycle!Next]_(Lifecycle!lifeVars)
  BY <1>1, LifeNext
<1>3. ASSUME NEW next, StatusEvent(t, next) PROVE [QueueNext]_queueVars
  BY <1>1, <1>3 DEF StatusEvent, QueueNext
<1>4. CASE ProviderStarted(t) \/ ProviderSucceeded(t) \/ ProviderFailed(t)
  BY <1>2, <1>3, <1>4 DEF ProviderStarted, ProviderSucceeded, ProviderFailed
<1>5. CASE RecordAttemptFails(t) \/ Failing(t) \/ HeartbeatLoses(t) \/ HeartbeatFails(t)
  BY <1>1, <1>2, <1>5 DEF RecordAttemptFails, Failing, HeartbeatLoses, HeartbeatFails, Cancelled,
                           QueueNext
<1>6. CASE SaveStarts(t)
  <2>1. UNCHANGED queueVars \/ jobs' = [jobs EXCEPT ![t.job].lease = LeaseTicks]
    BY <1>6 DEF SaveStarts
  <2>2. \A c \in Captures : /\ jobs'[c].status = jobs[c].status
                            /\ jobs'[c].attempts = jobs[c].attempts
    BY <1>1, <2>1 DEF queueVars, IInv, TypeOK, Job
  <2> QED BY <2>2, SameStage
<1>7. CASE SaveEnds(t)
  BY <1>1, <1>2, <1>7 DEF SaveEnds, QueueNext
<1>8. CASE GiveUp(t)
  BY <1>1, <1>2, <1>8 DEF GiveUp, QueueNext
<1> QED BY <1>4, <1>5, <1>6, <1>7, <1>8 DEF TaskStep

LEMMA WorkerLife ==
  ASSUME WInv, [Next]_vars
  PROVE  [Lifecycle!Next]_(Lifecycle!lifeVars)
<1>1. [QueueNext]_queueVars => [Lifecycle!Next]_(Lifecycle!lifeVars)
  BY LifeNext DEF WInv
<1>2. CASE \E t \in tasks : TaskStep(t) \/ HeartbeatFails(t)
  BY <1>2, TaskLife
<1>3. CASE \A t \in tasks : ~(TaskStep(t) \/ HeartbeatFails(t))
  BY <1>1, <1>3, OthersQueue
<1> QED BY <1>2, <1>3

-----------------------------------------------------------------------------
(* Timelines and logs only grow.                                           *)

Onward == \A c \in Captures : runs'[c].attempt >= runs[c].attempt

LEMMA OnwardStep == ASSUME IInv, [QueueNext]_queueVars PROVE Onward
<1>1. CASE QueueNext
  BY <1>1, NextStep DEF Step, Onward
<1>2. CASE UNCHANGED queueVars
  <2>1. \A c \in Captures : runs[c].attempt \in Nat
    BY QueueAssumption DEF IInv, TypeOK, Run
  <2> QED BY <1>2, <2>1 DEF queueVars, Onward
<1> QED BY <1>1, <1>2

LEMMA TaskOnward == ASSUME WInv, NEW t \in tasks, TaskStep(t) \/ HeartbeatFails(t) PROVE Onward
<1>1. IInv /\ t.job \in Captures /\ t.proc \in Owners /\ t.attempt \in 1..MaxAttempts
  BY DEF WInv, WorkerTypeOK, Task
<1>2. CASE ProviderStarted(t) \/ ProviderSucceeded(t) \/ ProviderFailed(t)
  <2>1. [QueueNext]_queueVars
    BY <1>1, <1>2 DEF ProviderStarted, ProviderSucceeded, ProviderFailed, StatusEvent, QueueNext
  <2> QED BY <1>1, <2>1, OnwardStep
<1>3. CASE \/ RecordAttemptFails(t) \/ Failing(t) \/ SaveEnds(t) \/ GiveUp(t)
           \/ HeartbeatLoses(t) \/ HeartbeatFails(t)
  <2>1. [QueueNext]_queueVars
    BY <1>1, <1>3 DEF RecordAttemptFails, Failing, HeartbeatLoses, HeartbeatFails, Cancelled,
                           SaveEnds, GiveUp, QueueNext
  <2> QED BY <1>1, <2>1, OnwardStep
<1>4. CASE SaveStarts(t)
  <2>1. CASE UNCHANGED runs
    <3>1. \A c \in Captures : runs[c].attempt \in Nat
      BY <1>1, QueueAssumption DEF IInv, TypeOK, Run
    <3> QED BY <2>1, <3>1 DEF Onward
  <2>2. CASE Current(t) /\ runs' = [runs EXCEPT ![t.job].attempt = t.attempt]
    <3>1. \A c \in Captures : runs[c] \in Run /\ runs[c].attempt \in Nat
      BY <1>1, QueueAssumption DEF IInv, TypeOK, Run
    <3>2. t.attempt >= runs[t.job].attempt
      BY <1>1, <2>2 DEF Current, IInv, Rows, RowInv
    <3>3. \A c \in Captures : runs'[c].attempt =
                               IF c = t.job THEN t.attempt ELSE runs[c].attempt
      BY <1>1, <2>2, <3>1 DEF IInv, TypeOK, Run
    <3> QED BY <3>1, <3>2, <3>3 DEF Onward
  <2> QED BY <1>4, <2>1, <2>2 DEF SaveStarts, queueVars
<1> QED BY <1>2, <1>3, <1>4 DEF TaskStep

LEMMA WorkerOnward == ASSUME WInv, [Next]_vars PROVE Onward
<1>1. CASE \E t \in tasks : TaskStep(t) \/ HeartbeatFails(t)
  BY <1>1, TaskOnward
<1>2. CASE \A t \in tasks : ~(TaskStep(t) \/ HeartbeatFails(t))
  BY <1>2, OthersQueue, OnwardStep DEF WInv
<1> QED BY <1>1, <1>2

\* Only the append threads write to the daily logs.
Grown == \A c \in Captures, d \in Days : entries'[d][c] >= entries[d][c]

LEMMA GrownStep == ASSUME WInv, [Next]_vars PROVE Grown
<1>1. ASSUME entries' = entries PROVE Grown
  <2>1. ASSUME NEW c \in Captures, NEW d \in Days PROVE entries[d][c] \in Nat
    BY DEF WInv, WorkerTypeOK
  <2> QED BY <1>1, <2>1 DEF Grown
<1>2. ASSUME NEW h \in threads, ThreadStep(h) PROVE Grown
  BY <1>2, ThreadKeeps DEF Grown
<1>3. ASSUME NEW c \in Captures, Capture(c) \/ Wake(c) \/ WakeLost(c) PROVE Grown
  BY <1>1, <1>3 DEF Capture, Wake, WakeLoses, WakeStarts, WakeLost
<1>4. ASSUME NEW p \in Owners, MainLoop(p) \/ Crash(p) \/ Abort(p) PROVE Grown
  BY <1>1, <1>4 DEF MainLoop, LoopRecover, LoopClaim, LoopClaimed, LoopWake, LoopIdle, LoopSleep,
     LoopRelease, LoopRaises, loopRest, Crash, Abort, Ends
<1>5. ASSUME NEW t \in tasks, TaskStep(t) \/ HeartbeatFails(t) \/ Heartbeat(t) PROVE Grown
  BY <1>1, <1>5 DEF TaskStep, ProviderStarted, ProviderSucceeded, ProviderFailed,
     RecordAttemptFails, SaveStarts, SaveEnds, Failing, GiveUp, HeartbeatLoses, HeartbeatFails,
     Cancelled, Heartbeat, workerVars
<1>6. CASE Time \/ Midnight \/ UNCHANGED vars
  BY <1>1, <1>6 DEF Time, Midnight, vars, workerVars
<1> QED BY <1>2, <1>3, <1>4, <1>5, <1>6 DEF Next

-----------------------------------------------------------------------------
(* The theorems.                                                           *)

\* The inductive invariant holds in every reachable state.
THEOREM WorkerInvariance == Spec => []WInv
<1>1. WInv /\ [Next]_vars => WInv'
  BY WorkerNext
<1> QED BY <1>1, WorkerInit, PTL DEF Spec

\* Type correctness of the worker's state.
THEOREM WorkerTypeCorrect == Spec => []WorkerTypeOK
<1>1. WInv => WorkerTypeOK
  BY DEF WInv
<1> QED BY <1>1, WorkerInvariance, PTL

\* No capture enters the daily logs twice, whatever crashes, is cancelled or is
\* retried, on the same day or on another.
THEOREM OneEntryCorrect == Spec => []AtMostOneEntry
<1>1. WInv => AtMostOneEntry
  BY DEF WInv, LogInv
<1> QED BY <1>1, WorkerInvariance, PTL

\* A succeeded job has its entry in the daily log.
THEOREM SucceededCorrect == Spec => []SucceededIsWritten
<1>1. WInv => SucceededIsWritten
  BY DEF WInv, EntryInv
<1> QED BY <1>1, WorkerInvariance, PTL

\* Leases belong to the process that holds the singleton lock, or to a dead one.
THEOREM LeaseHolderCorrect == Spec => []LeaseHeldByDrainer
<1>1. WInv => LeaseHeldByDrainer
  BY DEF WInv
<1> QED BY <1>1, WorkerInvariance, PTL

\* No wakeup is lost when no job is left over from an older version: an open job
\* has a worker, or a worker about to try the lock, unless a fault took it away.
THEOREM WakeupCorrect ==
  ASSUME Legacy = {}
  PROVE  Spec => []NoLostWakeup
<1>1. WInv => NoLostWakeup
  BY DEF WInv, WokenInv
<1> QED BY <1>1, WorkerInvariance, PTL

\* No append takes an entry out of a log again, although a log is replaced as a whole
\* and the threads of cancelled attempts and aborted processes still append.
THEOREM EntriesStayCorrect == Spec => EntriesStay
<1>1. WInv /\ [Next]_vars => [Grown]_vars
  BY GrownStep
<1> QED BY <1>1, WorkerInvariance, PTL DEF Spec, EntriesStay, Grown

\* An attempt that lost its job writes no event into the timeline of a later attempt,
\* even if both run in one process, whatever database calls fail.
THEOREM WorkerTimeline == Spec => TimelineNeverGoesBack
<1>1. WInv /\ [Next]_vars => [Onward]_queueVars
  BY WorkerOnward
<1> QED BY <1>1, WorkerInvariance, PTL DEF Spec, TimelineNeverGoesBack, Onward

\* Under any interleaving of workers, attempts, captures and faults the queue
\* implements the life of a job.
THEOREM WorkerImplementsLifecycle == Spec => ImplementsLifecycle
<1>1. Init => Lifecycle!Init
  BY LifeInit DEF Init
<1>2. WInv /\ [Next]_vars => [Lifecycle!Next]_(Lifecycle!lifeVars)
  BY WorkerLife
<1> QED BY <1>1, <1>2, WorkerInvariance, PTL DEF Spec, ImplementsLifecycle, Lifecycle!Spec
=============================================================================
