------------------------------ MODULE AutoCompile ------------------------------
(***************************************************************************)
(* Automatic compilation: a drained worker registers a request for the     *)
(* uncompiled end of today's log in one row of queue_metadata; an owner    *)
(* launches compile.py for it, and watchdogs take over from one another.   *)
(* Every transaction on the row is one action (BEGIN IMMEDIATE).           *)
(*                                                                         *)
(* A daily log has n entries; its compiled-through markers are m in        *)
(* number, the last one after entry c.  Its fingerprint is what stands     *)
(* after that marker; its marker history is the m markers that follow the  *)
(* user's edit e, who may remove them.  All empty histories are equal.     *)
(***************************************************************************)
EXTENDS Integers, FiniteSets

CONSTANTS Logs,         \* the daily logs, 1 .. k, in the order of their days
          Tokens,       \* identities of owners and watchdogs, 1 .. k
          RunIds,       \* ids of rows of status_runs, 1 .. k
          None,
          MaxJobs,      \* bound on captures that reach the queue
          MaxAttempts,  \* AUTO_COMPILE_MAX_ATTEMPTS
          Faults,       \* the kinds of faults that may happen ...
          MaxFaults     \* ... and how many of them in all

Terminal == {"succeeded", "failed", "dead"}
Waits == {"queue_wait", "retry_wait", "read_wait"}

\* A generation <<a, l, c, n>> is the log name a of a request with the fingerprint
\* of log l; a marker history <<<<l, e>>, m>> has the log its markers are from.
Generations == Logs \X Logs \X Nat \X Nat
Histories == (Nat \X Nat) \X Nat

Run == [fp : Generations, plain : BOOLEAN, state : {"queued", "running", "retrying"} \cup Terminal,
        ends : Nat, fails : 0 .. MaxAttempts]

\* The columns of the row.
Row ==
  [token : Tokens, live : BOOLEAN, fp : Generations, pre : Histories, run : RunIds \cup {None},
   watcher : Tokens \cup {None}, wlive : BOOLEAN,
   cont : Tokens \cup {None}, cpred : Tokens \cup {None}, clive : BOOLEAN,
   pend : Generations \cup {None}, ppre : Histories \cup {None}, prun : RunIds \cup {None},
   status : Waits \cup {"failed", None}, tries : 0 .. MaxAttempts]

ASSUME AutoAssumption ==
  /\ Logs # {} /\ Logs \subseteq Nat
  /\ Tokens \subseteq Nat /\ RunIds \subseteq Nat
  /\ None \notin Logs \cup Tokens \cup RunIds \cup Generations \cup Histories
  /\ None \notin Run \cup Row \cup Waits \cup {"failed"}
  /\ MaxJobs \in Nat /\ MaxFaults \in Nat
  /\ MaxAttempts \in Nat \ {0}

VARIABLES
  log,      \* daily logs
  today,    \* the log that entries go to
  busy,     \* the queue has a pending, failed or leased job
  jobs,     \* captures still to come
  due,      \* drains that wrote an entry and have not scheduled yet
  sched,    \* reads of today's log that are about to be registered
  row,      \* the reservation
  runs,     \* status_runs of automatic compilations
  keys,     \* fingerprints whose plain operation key is taken
  proc,     \* owners and watchdogs, by token
  child,    \* the compile.py each of them launched
  faults

vars == <<log, today, busy, jobs, due, sched, row, runs, keys, proc, child, faults>>
world == <<log, today, busy, jobs, due, sched>>

Least(S) == CHOOSE x \in S : \A y \in S : x <= y

------------------------------------------------------------------------------
\* Reading a daily log.

Status(l) == IF ~log[l].ok THEN "unreadable"
             ELSE IF log[l].c = log[l].n THEN "covered" ELSE "uncompiled"
Filed(a, l) == <<a, l, log[l].c, log[l].n>>  \* the fingerprint of l under the name of a
Stamp(l) == Filed(l, l)
Alike(f, g) == <<f[2], f[3], f[4]>> = <<g[2], g[3], g[4]>>  \* equal fingerprints
Marks(l) == IF log[l].ok /\ log[l].m > 0 THEN <<<<l, log[l].e>>, log[l].m>> ELSE <<<<0, 0>>, 0>>
Shows(l, f) == Status(l) = "uncompiled" /\ Alike(Stamp(l), f)

\* The marker history new continues old, and goes beyond it.
Extends(new, old) == old[2] = 0 \/ (new[1] = old[1] /\ new[2] >= old[2])
Advances(new, old) == Extends(new, old) /\ new[2] > old[2]
\* Mutant: an exit of zero is progress.
ProgressedAlways(l, pre) == TRUE
Progressed(l, pre) == Advances(Marks(l), pre)
\* Mutant: the markers of the latest reading are the required ones.
RequiredLatest(l, pre) == Marks(l)
Required(l, pre) == IF Advances(Marks(l), pre) THEN Marks(l) ELSE pre

------------------------------------------------------------------------------
\* The row and its status runs.  A transaction is computed on a record db of the
\* row, the runs and the taken keys; id is the run that was created last.  RunIds is
\* a bound: a transaction that finds none free for a new run (full) is not taken.

DB == [row |-> row, runs |-> runs, keys |-> keys, id |-> None, full |-> FALSE]

Commit(d) == ~d.full /\ row' = d.row /\ runs' = d.runs /\ keys' = d.keys

Links(d) == IF d.row = None THEN {} ELSE {d.row.run, d.row.prun}
HeldByChild(i) == \E t \in Tokens : child[t].run = i \/ proc[t].rid = i
\* Nothing reaches an ended run any more, or one that is not linked and not found
\* by its key: the id may stand for another run.
Reusable(run) == run.state \in Terminal \/ ~run.plain
FreeRuns(d) == {i \in RunIds : /\ i \notin Links(d) \cup {d.id}
                               /\ ~HeldByChild(i)
                               /\ d.runs[i] = None \/ Reusable(d.runs[i])}

Open(d, i) == i # None /\ d.runs[i] # None /\ d.runs[i].state \notin Terminal
Matches(d, i, f) == i # None /\ d.runs[i].fp = f

\* _create_auto_compile_run_unlocked: the open run with the plain key of the
\* generation, or a new one, with a suffix if the key is taken.
SameOpen(d, f) == {i \in RunIds : Open(d, i) /\ d.runs[i].fp = f /\ d.runs[i].plain}
CreatedAs(d, f, i) ==
  [d EXCEPT !.id = i, !.keys = @ \cup {f},
            !.runs[i] = [fp |-> f, plain |-> f \notin d.keys,
                         state |-> "queued", ends |-> 0, fails |-> 0]]
Created(d, f) ==
  IF SameOpen(d, f) # {} THEN [d EXCEPT !.id = Least(SameOpen(d, f))]
  ELSE IF FreeRuns(d) = {} THEN [d EXCEPT !.full = TRUE]
  ELSE CreatedAs(d, f, Least(FreeRuns(d)))

Activated(d) == [d EXCEPT !.row.run = d.id]
Pended(d) == [d EXCEPT !.row.prun = d.id]

\* transition_run_unlocked, which appends an event whatever the state was.
Forced(d, i, s) ==
  [d EXCEPT !.runs[i].state = s, !.runs[i].ends = IF s \in Terminal THEN @ + 1 ELSE @]

\* _transition_auto_compile_run_unlocked: a terminal run stays as it is.
Moved(d, i, s) == IF Open(d, i) THEN Forced(d, i, s) ELSE d

Dropped(d, i) == Moved(d, i, "failed")

\* _ensure_auto_compile_links_unlocked
EnsuredRun(d) ==
  IF Open(d, d.row.run) /\ Matches(d, d.row.run, d.row.fp) THEN d
  ELSE Activated(Created(d, d.row.fp))
EnsuredPending(d) ==
  IF d.row.pend = None \/ (Open(d, d.row.prun) /\ Matches(d, d.row.prun, d.row.pend)) THEN d
  ELSE Pended(Created(d, d.row.pend))
Ensured(d) == IF d.row = None THEN d ELSE EnsuredPending(EnsuredRun(d))

\* _delete_auto_compile_reservation_unlocked
DroppedPending(d) == IF d.row.prun = d.row.run THEN d ELSE Dropped(d, d.row.prun)
Deleted(d, succeeded) ==
  [DroppedPending(Moved(d, d.row.run, IF succeeded THEN "succeeded" ELSE "failed"))
     EXCEPT !.row = None]

NoContender(r) == [r EXCEPT !.cont = None, !.cpred = None, !.clive = FALSE]
NoPending(r) == [r EXCEPT !.pend = None, !.ppre = None]
OtherPending(r) == r.pend # None /\ r.pend[1] # r.fp[1]

Request(owner, live, dog, f, pre, run) ==
  [token |-> owner, live |-> live, fp |-> f, pre |-> pre, run |-> run,
   watcher |-> dog, wlive |-> TRUE, cont |-> None, cpred |-> None, clive |-> FALSE,
   pend |-> None, ppre |-> None, prun |-> None, status |-> None, tries |-> 0]

------------------------------------------------------------------------------
\* Processes.  pc is where an owner or a watchdog stands:
\*   owner, boot, contend  - started, waiting for its registration
\*   watch                 - the loop of run_auto_compile_watcher
\*   find, promote, owned, launch, wait, fail, finish, defer
\*                         - run_auto_compile_coordinator

Nobody == [pc |-> "none", pred |-> None, reg |-> FALSE, own |-> None, fp |-> None, pre |-> None,
           lp |-> None, rid |-> None, pend |-> None, reset |-> FALSE]
NoChild == [pc |-> "none", run |-> None, todo |-> {}, read |-> None]

Coordinating == {"find", "promote", "owned", "launch", "wait", "fail", "finish", "defer"}

Proc ==
  [pc : {"none", "owner", "boot", "contend", "watch"} \cup Coordinating,
   pred : Tokens \cup {None}, reg : BOOLEAN, own : Tokens \cup {None},
   fp : Generations \cup {None}, pre : Histories \cup {None}, lp : Logs \cup {None},
   rid : RunIds \cup {None}, pend : Generations \cup {None}, reset : BOOLEAN]

Compilation == [pc : {"none", "start", "work", "ok", "bad", "held"}, run : RunIds \cup {None},
                todo : SUBSET Logs, read : Generations \cup {None}]

Watcher(pc, pred) == [Nobody EXCEPT !.pc = pc, !.pred = pred]
Coordinator(pc, f, l) == [Nobody EXCEPT !.pc = pc, !.fp = f, !.lp = l]
Failing(f, l, reset, pre) == [Coordinator("fail", f, l) EXCEPT !.reset = reset, !.pre = pre]

Fresh == {t \in Tokens : /\ proc[t].pc = "none" /\ child[t].pc = "none"
                         /\ row # None => t \notin {row.token, row.watcher, row.cont, row.cpred}
                         /\ \A u \in Tokens : t \notin {proc[u].pred, proc[u].own}}
Fresh1 == Least(Fresh)
Fresh2 == Least(Fresh \ {Fresh1})

LockHeld == \E t \in Tokens : child[t].pc = "work"

Fault(kind) == kind \in Faults /\ faults < MaxFaults /\ faults' = faults + 1
NoFault == UNCHANGED faults
OwnedBy(t) == row # None /\ row.token = t /\ Alike(row.fp, proc[t].fp)
Holds(t) == OwnedBy(t) /\ row.live

------------------------------------------------------------------------------
\* The world: captures, drains, days, the user.

Enqueue == /\ ~busy /\ jobs > 0
           /\ busy' = TRUE /\ jobs' = jobs - 1
           /\ UNCHANGED <<log, today, due, sched, row, runs, keys, proc, child, faults>>

\* A worker drains the queue.  Only one that wrote an entry will schedule.
Drain(wrote) ==
  /\ busy
  /\ busy' = FALSE
  /\ due' = IF wrote THEN due + 1 ELSE due
  /\ log' = IF wrote THEN [log EXCEPT ![today].n = @ + 1] ELSE log
  /\ UNCHANGED <<today, jobs, sched, row, runs, keys, proc, child, faults>>

NewDay == /\ today + 1 \in Logs
          /\ today' = today + 1
          /\ UNCHANGED <<log, busy, jobs, due, sched, row, runs, keys, proc, child, faults>>

\* A manual compile.py, without the lock of the automatic one.
ManualCompile(l) ==
  /\ "manual" \in Faults /\ Status(l) = "uncompiled"
  /\ log' = [log EXCEPT ![l].c = log[l].n, ![l].m = @ + 1]
  /\ UNCHANGED <<today, busy, jobs, due, sched, row, runs, keys, proc, child, faults>>

\* The user removes the markers of a log, or the log cannot be read for a while.
RemoveMarkers(l) ==
  /\ log[l].m > 0 /\ Fault("edit")
  /\ log' = [log EXCEPT ![l].c = 0, ![l].m = 0, ![l].e = @ + 1]
  /\ UNCHANGED <<today, busy, jobs, due, sched, row, runs, keys, proc, child>>

Unreadable(l) ==
  /\ log[l].ok /\ log[l].n > 0 /\ Fault("read")
  /\ log' = [log EXCEPT ![l].ok = FALSE]
  /\ UNCHANGED <<today, busy, jobs, due, sched, row, runs, keys, proc, child>>

Readable(l) ==
  /\ ~log[l].ok
  /\ log' = [log EXCEPT ![l].ok = TRUE]
  /\ UNCHANGED <<today, busy, jobs, due, sched, row, runs, keys, proc, child, faults>>

\* maybe_trigger_compilation: its reading of today's log, ...
Trigger(asks) ==
  /\ due > 0
  /\ due' = due - 1
  /\ sched' = IF asks /\ Status(today) = "uncompiled"
              THEN sched \cup {<<Stamp(today), Marks(today)>>} ELSE sched
  /\ UNCHANGED <<log, today, busy, jobs, row, runs, keys, proc, child, faults>>

\* Mutant: the expiry is compared the wrong way round.
HasWatcherExpired(r) == r.watcher # None /\ ~r.wlive
HasWatcher(r) == r.watcher # None /\ r.wlive

\* ... and the registration, which spawns the watchdog first, the owner second.
Roles(r) ==
  IF r = None THEN {"watchdog", "owner"}
  ELSE IF ~HasWatcher(r) THEN {"watchdog"}
  ELSE IF r.status \in Waits /\ ~(r.cont # None /\ r.clive) THEN {"contender"}
  ELSE {}

\* The row when the registration starts.
Scheduling == IF row # None /\ row.status = "failed" THEN Deleted(DB, FALSE) ELSE Ensured(DB)

NewRequest(d, f, pre, owner, dog) ==
  [d EXCEPT !.row = Request(owner, TRUE, dog, f, pre, d.id)]
Asked(d, f, pre) ==
  [IF d.row.prun \in {None, d.id} THEN d ELSE Dropped(d, d.row.prun)
     EXCEPT !.row.pend = f, !.row.ppre = pre, !.row.prun = d.id]
Watches(r, dog) ==
  CASE Roles(r) = {"contender"} -> [r EXCEPT !.cont = dog, !.cpred = r.watcher, !.clive = TRUE]
    [] Roles(r) = {"watchdog"} -> [NoContender(r) EXCEPT !.watcher = dog, !.wlive = TRUE]
    [] OTHER -> r
WithWatcher(d, dog) == [d EXCEPT !.row = Watches(d.row, dog)]

Registered(d, f, pre, owner, dog) ==
  IF d.row = None THEN NewRequest(Created(d, f), f, pre, owner, dog)
  ELSE WithWatcher(Asked(IF Alike(d.row.fp, f) THEN [d EXCEPT !.id = d.row.run] ELSE Created(d, f),
                      f, pre), dog)

\* launch_roles, as far as it got.
Spawned(roles, f, pre, owner, dog) ==
  [t \in Tokens |->
     IF t = dog /\ "watchdog" \in roles
       THEN [Nobody EXCEPT !.pc = "boot", !.own = owner, !.fp = f, !.pre = pre]
     ELSE IF t = dog /\ "contender" \in roles THEN Watcher("contend", row.watcher)
     ELSE IF t = owner /\ "owner" \in roles THEN Coordinator("owner", f, None)
     ELSE proc[t]]

Schedule(s) ==
  /\ s \in sched
  /\ Cardinality(Fresh) >= 2
  /\ sched' = sched \ {s}
  /\ IF busy THEN UNCHANGED <<row, runs, keys, proc>>
     ELSE \E d \in {Scheduling} :
            /\ Commit(Registered(d, s[1], s[2], Fresh1, Fresh2))
            /\ proc' = Spawned(Roles(d.row), s[1], s[2], Fresh1, Fresh2)
  /\ UNCHANGED <<log, today, busy, jobs, due, child, faults>>

\* A spawn or the commit fails, or the worker dies, after some roles have started.
ScheduleAborts(s) ==
  /\ s \in sched /\ ~busy
  /\ Cardinality(Fresh) >= 2
  /\ Fault("abort")
  /\ sched' = sched \ {s}
  /\ \E d \in {Scheduling}, unborn \in {{}, {"owner"}, {"watchdog", "owner", "contender"}} :
       proc' = Spawned(Roles(d.row) \ unborn, s[1], s[2], Fresh1, Fresh2)
  /\ UNCHANGED <<log, today, busy, jobs, due, row, runs, keys, child>>

------------------------------------------------------------------------------
\* Leases run out.  A process that is scheduled renews its lease long before, so
\* a lease ends because its holder is gone, waits for nothing but time, or slept.

OwnerExpires ==
  /\ row # None /\ row.live
  /\ IF proc[row.token].pc \in Coordinating \cup {"owner"} THEN Fault("sleep") ELSE NoFault
  /\ row' = [row EXCEPT !.live = FALSE]
  /\ UNCHANGED <<world, runs, keys, proc, child>>

WatcherExpires ==
  /\ row # None /\ row.watcher # None /\ row.wlive
  /\ IF proc[row.watcher].pc = "none" THEN NoFault ELSE Fault("sleep")
  /\ row' = [row EXCEPT !.wlive = FALSE]
  /\ UNCHANGED <<world, runs, keys, proc, child>>

ContenderExpires ==
  /\ row # None /\ row.cont # None /\ row.clive
  /\ IF proc[row.cont].pc = "none" THEN NoFault ELSE Fault("sleep")
  /\ row' = [row EXCEPT !.clive = FALSE]
  /\ UNCHANGED <<world, runs, keys, proc, child>>

------------------------------------------------------------------------------
\* Start of the roles.

Becomes(t, p) == proc' = [proc EXCEPT ![t] = p]
Exits(t) == Becomes(t, Nobody)
ReadsRow == UNCHANGED <<row, runs, keys>>

OwnerStarts(t) ==
  /\ proc[t].pc = "owner"
  /\ IF row # None /\ row.token = t THEN Becomes(t, Coordinator("find", proc[t].fp, None))
     ELSE Exits(t)
  /\ ReadsRow /\ UNCHANGED <<world, child, faults>>

ContenderStarts(t) ==
  /\ proc[t].pc = "contend"
  /\ IF row # None /\ row.cont = t /\ row.cpred = proc[t].pred
     THEN Becomes(t, [Watcher("watch", proc[t].pred) EXCEPT !.reg = TRUE]) ELSE Exits(t)
  /\ ReadsRow /\ UNCHANGED <<world, child, faults>>

\* bootstrap_auto_compile_watchdog: join the committed row if it is exactly the
\* one this watchdog was spawned for, or put back one that was rolled back.
Bootstrap(t) ==
  LET p == proc[t]
      exact == /\ row.token = p.own /\ row.watcher = t
               /\ row.fp = p.fp /\ row.pre = p.pre
      same == Shows(p.fp[1], p.fp) /\ Marks(p.fp[1]) = p.pre
      d == Created(DB, p.fp)
  IN /\ p.pc = "boot"
     /\ \/ /\ busy \/ (row # None /\ ~exact) \/ (row = None /\ ~same)
           /\ Exits(t) /\ ReadsRow
        \/ /\ ~busy /\ row # None /\ exact
           /\ Becomes(t, Watcher("watch", None)) /\ ReadsRow
        \/ /\ ~busy /\ row = None /\ same
           /\ Commit([d EXCEPT !.row = Request(p.own, FALSE, t, p.fp, p.pre, d.id)])
           /\ Becomes(t, Watcher("watch", None))
     /\ UNCHANGED <<world, child, faults>>

------------------------------------------------------------------------------
\* poll_auto_compile_watcher

\* Who polls: the registered watcher, one that takes its predecessor's place
\* (entitled), one that has to wait for that (queued), or nobody's watcher.
\* Takes(t) is the row after a contender has taken over its predecessor's entry.
Inherits(t) == proc[t].pred # None /\ row.cont = proc[t].pred
Takes(t) == IF Inherits(t) THEN [row EXCEPT !.cont = t, !.clive = TRUE] ELSE row
Follows(t) == IF Inherits(t) THEN row.cpred = row.watcher
              ELSE proc[t].pred # None /\ row.watcher = proc[t].pred

Standing(t) ==
  IF row = None THEN "none"
  ELSE IF row.watcher = t THEN "registered"
  ELSE IF proc[t].reg /\ row.cont # t THEN "none"
  ELSE IF Inherits(t) /\ row.clive THEN "later"
  ELSE IF ~Follows(t) \/ Takes(t).cont \notin {None, t} THEN "none"
  ELSE IF row.wlive THEN "queued" ELSE "entitled"

\* The row as the registered watcher, old or new, goes on with it.
Polled(t) == IF Standing(t) = "registered" THEN row
             ELSE [NoContender(row) EXCEPT !.watcher = t]

\* _observe_auto_compile_content: what is left to compile of a request r
Retained(r) == [fp |-> r.fp, pre |-> r.pre, pend |-> r.pend, ppre |-> r.ppre]

Observed(r) ==
  LET a == r.fp[1]
      ended == Status(a) = "covered"
      rest == r.pend # None /\ Status(r.pend[1]) = "uncompiled"
      other == rest /\ r.pend[1] # a
  IN IF ~Extends(Marks(a), r.pre) \/ (ended /\ ~Progressed(a, r.pre)) THEN Retained(r)
     ELSE IF ended THEN [fp |-> Stamp(r.pend[1]), pre |-> r.ppre, pend |-> None, ppre |-> None]
     ELSE [fp |-> Stamp(a), pre |-> Required(a, r.pre),
           pend |-> IF other THEN Stamp(r.pend[1]) ELSE None,
           ppre |-> IF other THEN r.ppre ELSE None]

CannotRead(r) == \/ Status(r.fp[1]) = "unreadable"
                 \/ r.pend # None /\ Status(r.pend[1]) = "unreadable"
\* Mutant: the pending generation is forgotten.
CoveredActive(r) == Status(r.fp[1]) = "covered" /\ Progressed(r.fp[1], r.pre)
Covered(r) == /\ Status(r.fp[1]) = "covered" /\ Progressed(r.fp[1], r.pre)
              /\ \A f \in {r.pend} \ {None} : Status(f[1]) = "covered"

\* The generation's run after the takeover.  An aliased run is failed twice: the
\* states were read before the first of the two transitions.
Reused(d, f) == Open(d, d.row.prun) /\ Matches(d, d.row.prun, f)
Discarded(d, was, i) == IF Open(was, i) THEN Forced(d, i, "failed") ELSE d
Superseded(d, f) ==
  IF Reused(d, f) THEN [Discarded(d, d, d.row.run) EXCEPT !.id = d.row.prun]
  ELSE Created(Discarded(Discarded(d, d, d.row.run), d, d.row.prun), f)

WithRequest(d, t, successor, seen, tries) ==
  [d EXCEPT !.row = [Request(t, TRUE, successor, seen.fp, seen.pre, d.id) EXCEPT
                       !.pend = seen.pend, !.ppre = seen.ppre, !.tries = tries]]
Recovered(d) == Moved(d, d.row.run, "running")
Claimed(t, d, successor, seen) ==
  Recovered(IF ~Alike(seen.fp, d.row.fp)
            THEN WithRequest(Superseded(d, seen.fp), t, successor, seen, 0)
            ELSE WithRequest([d EXCEPT !.id = d.row.run], t, successor, seen, d.row.tries))

PollKeeps(t) ==       \* not this watcher's turn, or nothing to watch any more
  /\ proc[t].pc = "watch"
  /\ \/ /\ Standing(t) = "none"
        /\ Exits(t) /\ ReadsRow
     \/ /\ Standing(t) = "queued" /\ Takes(t).cont = t
        /\ row' = [Takes(t) EXCEPT !.clive = TRUE]
        /\ row' # row
        /\ UNCHANGED <<runs, keys, proc>>
  /\ UNCHANGED <<world, child, faults>>

PollWaits(t) ==       \* the heartbeat of the watcher
  LET r == Polled(t)
      wait == busy \/ r.live \/ LockHeld \/ CannotRead(r)
  IN /\ proc[t].pc = "watch" /\ row # None
     /\ Standing(t) \in {"registered", "entitled"}
     /\ \/ /\ r.status = "failed"
           /\ row' = [r EXCEPT !.watcher = None, !.wlive = FALSE]
           /\ Exits(t) /\ UNCHANGED <<runs, keys>>
        \/ /\ r.status # "failed" /\ wait
           /\ row' = [r EXCEPT !.wlive = TRUE,
                               !.status = IF busy \/ r.live \/ LockHeld THEN @ ELSE "read_wait"]
           /\ row' # row
           /\ UNCHANGED <<runs, keys, proc>>
     /\ UNCHANGED <<world, child, faults>>

CanClaim(t) == /\ proc[t].pc = "watch" /\ row # None
               /\ Standing(t) \in {"registered", "entitled"}
               /\ ~busy /\ ~LockHeld /\ Fresh # {}
               /\ LET r == Polled(t) IN r.status # "failed" /\ ~r.live /\ ~CannotRead(r)

PollClaims(t) ==
  /\ CanClaim(t)
  /\ \E d \in {[DB EXCEPT !.row = Polled(t)]} :
       \/ /\ Covered(d.row)
          /\ Commit(Deleted(d, TRUE)) /\ Exits(t)
       \/ /\ ~Covered(d.row)
          /\ \E seen \in {Observed(d.row)} :
               /\ Commit(Claimed(t, d, Fresh1, seen))
               /\ proc' = [proc EXCEPT ![t] = Coordinator("find", seen.fp, None),
                                       ![Fresh1] = Watcher("watch", t)]
  /\ UNCHANGED <<world, child, faults>>

\* The successor has been spawned, and the transaction rolls back, or its process
\* dies before the commit.
ClaimAborts(t) ==
  /\ CanClaim(t) /\ ~Covered(Polled(t))
  /\ \E self \in {proc[t], Nobody} :
       /\ Fault(IF self = Nobody THEN "watcher" ELSE "abort")
       /\ proc' = [proc EXCEPT ![t] = self, ![Fresh1] = Watcher("watch", t)]
  /\ ReadsRow /\ UNCHANGED <<world, child>>

------------------------------------------------------------------------------
\* run_auto_compile_coordinator

NoProgress(f, a, pre) == Failing(f, a, FALSE, pre)

\* The log of the generation, or what the row says about it.  A coordinator that
\* returns leaves a process whose next poll, if any, answers "done".
Lost(t, d) == d.row = None \/ d.row.token # t \/ ~d.row.live \/ ~Alike(d.row.fp, proc[t].fp)
Looks(f, a, r) ==       \* the row is still this owner's, and its log a has other content
  CASE Status(a) = "unreadable" -> Failing(f, a, TRUE, None)
    [] Status(a) = "covered" /\ r.pend = None ->
         IF Progressed(a, r.pre) THEN [Coordinator("finish", f, a) EXCEPT !.reset = TRUE]
         ELSE NoProgress(f, a, r.pre)
    [] Status(a) = "uncompiled" /\ r.pend = None -> Nobody
    [] OTHER ->
         CASE Status(r.pend[1]) = "unreadable" -> Failing(f, r.pend[1], TRUE, None)
           [] Shows(r.pend[1], r.pend) -> [Coordinator("promote", f, a) EXCEPT !.pend = r.pend]
           [] OTHER -> Nobody

Find(t) ==
  LET f == proc[t].fp
  IN /\ proc[t].pc = "find"
     /\ \/ Shows(f[2], f) /\ ReadsRow /\ Becomes(t, Coordinator("owned", f, f[2]))
        \/ /\ ~Shows(f[2], f)
           /\ \E d \in {Ensured(DB)} :
                /\ Commit(d)
                /\ Becomes(t, IF Lost(t, d) THEN Nobody ELSE Looks(f, d.row.fp[1], d.row))
     /\ UNCHANGED <<world, child, faults>>

\* promote_pending_auto_compile.  Mutant: the status run of the old generation stays.
PromotedKeepsRun(d) ==
  [d EXCEPT !.row = [NoPending(d.row) EXCEPT !.fp = d.row.pend, !.prun = None, !.live = TRUE]]
PromotedRun(d) ==
  IF d.row.prun # None THEN [d EXCEPT !.id = d.row.prun] ELSE Created(d, d.row.pend)
WithPromotion(d) ==
  [d EXCEPT !.row = [NoPending(d.row) EXCEPT
     !.fp = d.row.pend, !.pre = d.row.ppre, !.run = d.id, !.prun = None, !.live = TRUE]]
Promoted(d) == WithPromotion(PromotedRun(Dropped(d, d.row.run)))

\* A transaction that gives its lease up and leaves the reason in the row.
Yields(reason) == /\ row' = [row EXCEPT !.live = FALSE, !.status = reason]
                  /\ UNCHANGED <<runs, keys>>

Promote(t) ==
  LET p == proc[t]
      a == p.lp
      same == row.pend[1] = row.fp[1]
      fits == /\ Extends(Marks(a), row.pre)
              /\ IF same THEN Shows(a, p.pend)
                 ELSE Status(a) = "covered" /\ Progressed(a, row.pre)
      mine == Holds(t) /\ row.pend = p.pend
      again == Becomes(t, Coordinator("find", p.fp, None))
  IN /\ p.pc = "promote"
     /\ \/ ~mine /\ ReadsRow /\ again
        \/ mine /\ busy /\ Yields("queue_wait") /\ again
        \/ mine /\ ~busy /\ ~fits /\ Yields("read_wait") /\ again
        \/ /\ mine /\ ~busy /\ fits
           /\ Commit(Promoted(DB))
           /\ Becomes(t, Coordinator("owned", p.pend, p.pend[1]))
     /\ UNCHANGED <<world, child, faults>>

\* No interactive session is open, and the reservation is still owned.
Owned(t) ==
  LET p == proc[t]
  IN /\ p.pc = "owned"
     /\ \E d \in {Ensured(DB)} :
          /\ Commit(d)
          /\ Becomes(t, IF Lost(t, d) THEN Nobody
                        ELSE [Coordinator("launch", p.fp, p.lp) EXCEPT
                                !.pre = d.row.pre, !.rid = d.row.run])
     /\ UNCHANGED <<world, child, faults>>

SessionOpen(t) == /\ proc[t].pc = "owned" /\ Fault("session")
                  /\ Exits(t)
                  /\ ReadsRow /\ UNCHANGED <<world, child>>

\* launch_reserved_auto_compile and the callback of the coordinator
MayLaunch(t) == proc[t].pc = "launch" /\ Holds(t) /\ ~busy
Fits(t) == /\ Extends(Marks(proc[t].lp), proc[t].pre)
           /\ Shows(proc[t].lp, proc[t].fp)
Started(t) == [child EXCEPT ![t] = [NoChild EXCEPT !.pc = "start", !.run = proc[t].rid]]

Launch(t) ==
  LET p == proc[t]
  IN /\ MayLaunch(t) /\ Status(p.lp) # "unreadable" /\ Fits(t)
     /\ Commit(Moved(DB, row.run, "running"))
     /\ child' = Started(t)
     /\ Becomes(t, [Coordinator("wait", p.fp, p.lp) EXCEPT !.pre = Marks(p.lp), !.rid = p.rid])
     /\ UNCHANGED <<world, faults>>

LaunchRefused(t) ==
  LET p == proc[t]
  IN /\ p.pc = "launch"
     /\ \/ /\ ~Holds(t)
           /\ Exits(t) /\ ReadsRow
        \/ /\ Holds(t) /\ busy
           /\ Yields("queue_wait") /\ Exits(t)
        \/ /\ MayLaunch(t) /\ ReadsRow
           /\ Becomes(t, CASE Status(p.lp) = "unreadable" -> Failing(p.fp, p.lp, TRUE, None)
                           [] Status(p.lp) # "unreadable" /\ ~Extends(Marks(p.lp), p.pre) ->
                                Failing(p.fp, p.lp, FALSE, p.pre)
                           [] OTHER -> Coordinator("find", p.fp, None))
           /\ ~Fits(t)
     /\ UNCHANGED <<world, child, faults>>

\* The child cannot be started, or it runs and the commit fails, or nobody is
\* left to commit.
LaunchAborts(t) ==
  LET p == proc[t]
  IN /\ MayLaunch(t) /\ Fits(t)
     /\ child' \in {child, Started(t)}
     /\ \E self \in {Failing(p.fp, p.lp, TRUE, None), Nobody} :
          /\ Fault(IF self = Nobody THEN "owner" ELSE "abort")
          /\ Becomes(t, self)
     /\ ReadsRow /\ UNCHANGED world

\* The child ends.
Reap(t) ==
  LET p == proc[t]
      l == p.lp
      code == child[t].pc
  IN /\ p.pc = "wait" /\ code \in {"ok", "bad", "held"}
     /\ Becomes(t,
          CASE code = "held" -> Coordinator("defer", p.fp, l)
            [] code = "bad" \/ (code = "ok" /\ Status(l) = "unreadable") ->
                 Failing(p.fp, l, TRUE, None)
            [] code = "ok" /\ Status(l) # "unreadable" /\ ~Progressed(l, p.pre) ->
                 Failing(p.fp, l, Marks(l) = p.pre,
                         IF Status(l) = "covered" THEN p.pre ELSE None)
            [] OTHER -> Coordinator("finish", p.fp, l))
     /\ child' = [child EXCEPT ![t] = NoChild]
     /\ ReadsRow /\ UNCHANGED <<world, faults>>

\* renew_auto_compile fails: the child is terminated.  (A renewal that succeeds
\* leaves the lease running.)
RenewalLost(t) ==
  /\ proc[t].pc = "wait"
  /\ ~Holds(t)
  /\ child' = [child EXCEPT ![t] = NoChild]
  /\ Exits(t)
  /\ ReadsRow /\ UNCHANGED <<world, faults>>

\* Mutant: every failure clears the count.
TriesForgotten(r, fresh) == 0
Tries(r, fresh) == IF fresh THEN 0 ELSE r.tries + 1
\* Mutant: one attempt too many.
OverLate(fresh, tries) == ~fresh /\ tries > MaxAttempts
Over(fresh, tries) == ~fresh /\ tries >= MaxAttempts

\* record_auto_compile_failure.  A generation seen in the log comes with the prefix
\* that is required from then on.
Generation(f, pre) == [fp |-> f, pre |-> pre]
Switches(l, r) == Status(l) = "covered" /\ OtherPending(r)
SeenAtFailure(l, r, pre) ==
  CASE pre # None -> Generation(r.fp, pre)
    [] pre = None /\ Switches(l, r) /\ Extends(Marks(l), r.pre) -> Generation(r.pend, r.ppre)
    [] OTHER -> Generation(IF Status(l) = "uncompiled" /\ Extends(Marks(l), r.pre)
                           THEN Filed(r.fp[1], l) ELSE r.fp, Required(l, r.pre))

WithTries(r, fresh, tries) ==
  [r EXCEPT !.tries = tries,
            !.status = IF Over(fresh, tries) THEN "failed" ELSE "retry_wait",
            !.live = ~fresh /\ ~Over(fresh, tries),
            !.wlive = @ \/ ~Over(fresh, tries)]
Retried(r, seen, fresh) ==
  WithTries([r EXCEPT !.fp = IF Alike(seen.fp, @) THEN @ ELSE seen.fp, !.pre = seen.pre],
            fresh, Tries(r, fresh))
Tidied(l, old, r) ==
  IF r.fp = old \/ (Status(l) = "uncompiled" /\ OtherPending(r)) THEN r ELSE NoPending(r)

Counted(d) ==
  [d EXCEPT !.runs[d.row.run].fails = IF @ < MaxAttempts THEN @ + 1 ELSE @]
Told(d) ==
  IF Open(d, d.row.run)
  THEN Counted(Moved(d, d.row.run, IF d.row.status = "failed" THEN "dead" ELSE "retrying"))
  ELSE d
WithFailure(d, r) ==
  IF r.fp = d.row.fp THEN Told([d EXCEPT !.row = r])
  ELSE Activated(Created(Dropped([d EXCEPT !.row = r], d.row.run), r.fp))
Failed(d, l, seen, reset) ==
  WithFailure(d, Tidied(l, d.row.fp, Retried(d.row, seen, reset /\ ~Alike(seen.fp, d.row.fp))))

Fail(t) ==
  /\ proc[t].pc = "fail"
  /\ IF OwnedBy(t)
     THEN \E seen \in {SeenAtFailure(proc[t].lp, row, proc[t].pre)} :
            \E d \in {Failed(DB, proc[t].lp, seen, proc[t].reset)} : Commit(d)
     ELSE ReadsRow
  /\ Exits(t)
  /\ UNCHANGED <<world, child, faults>>

\* finish_auto_compile_generation: hand over to the content that is left, or end.
Handed(l, r) == IF Switches(l, r) THEN Generation(r.pend, r.ppre)
                ELSE Generation(Filed(r.fp[1], l), Marks(l))
Linked(d, f) == IF Matches(d, d.row.prun, f) THEN [d EXCEPT !.id = d.row.prun] ELSE Created(d, f)
Unlinked(r) == [NoPending(r) EXCEPT !.prun = None]
WithNext(d, next, r) ==
  [d EXCEPT !.row = [r EXCEPT !.fp = next.fp, !.pre = next.pre, !.run = d.id, !.live = TRUE]]
Succeeded(d) == Moved(d, d.row.run, "succeeded")

Finished(d, l, next) ==
  IF (Switches(l, d.row) \/ Status(l) = "uncompiled") /\ ~Alike(next.fp, d.row.fp)
  THEN WithNext(Linked(Succeeded(d), next.fp), next,
                IF Status(l) = "uncompiled" /\ (d.row.pend = None \/ d.row.pend[1] # next.fp[1])
                THEN d.row ELSE Unlinked(d.row))
  ELSE Deleted(Succeeded(d), TRUE)

Finish(t) ==
  LET p == proc[t]
      onward(f) == IF p.reset THEN Coordinator("owned", f, p.lp)
                   ELSE Coordinator("find", f, None)
  IN /\ p.pc = "finish"
     /\ \/ ~OwnedBy(t) /\ ReadsRow /\ Exits(t)
        \/ OwnedBy(t) /\ busy /\ Yields("queue_wait") /\ Exits(t)
        \/ /\ OwnedBy(t) /\ ~busy /\ ~Progressed(p.lp, row.pre)
           /\ Yields("read_wait") /\ Becomes(t, onward(p.fp))
        \/ /\ OwnedBy(t) /\ ~busy /\ Progressed(p.lp, row.pre)
           /\ \E d \in {Finished(DB, p.lp, Handed(p.lp, row))} :
                /\ Commit(d)
                /\ Becomes(t, IF d.row = None THEN Nobody ELSE onward(d.row.fp))
     /\ UNCHANGED <<world, child, faults>>

\* defer_auto_compile_generation, after exit code 75
SeenAtDefer(l, r) == IF Switches(l, r) THEN Generation(r.pend, r.ppre)
                     ELSE Generation(Filed(r.fp[1], l), Required(l, r.pre))
Replaced(d, was, f) ==
  IF Reused(was, f) THEN [d EXCEPT !.id = d.row.prun] ELSE Created(Dropped(d, d.row.prun), f)
Deferred(d, l, next) ==
  CASE Status(l) = "covered" /\ ~OtherPending(d.row) -> Deleted(Succeeded(d), TRUE)
    [] Status(l) = "covered" /\ OtherPending(d.row) /\ ~Alike(next.fp, d.row.fp) ->
         WithNext(Replaced(Succeeded(d), Succeeded(d), next.fp), next, Unlinked(d.row))
    [] Status(l) # "covered" /\ ~Alike(next.fp, d.row.fp) ->
         WithNext(Replaced(Dropped(d, d.row.run), d, next.fp), next,
                  IF OtherPending([d.row EXCEPT !.fp = next.fp])
                  THEN [d.row EXCEPT !.prun = None] ELSE Unlinked(d.row))
    [] OTHER -> [d EXCEPT !.row.fp = next.fp, !.row.pre = next.pre, !.row.live = TRUE]

Defer(t) ==
  LET p == proc[t]
      clear == /\ Extends(Marks(p.lp), row.pre) /\ Status(p.lp) # "unreadable"
               /\ Status(p.lp) = "covered" => Progressed(p.lp, row.pre)
      retry(f) == Becomes(t, Coordinator("find", f, None))
  IN /\ p.pc = "defer"
     /\ \/ ~OwnedBy(t) /\ ReadsRow /\ Exits(t)
        \/ /\ OwnedBy(t) /\ LockHeld
           /\ row' = [row EXCEPT !.live = TRUE] /\ row' # row
           /\ UNCHANGED <<runs, keys, proc>>
        \/ /\ OwnedBy(t) /\ ~LockHeld /\ ~clear
           /\ row' = [row EXCEPT !.live = TRUE, !.status = "read_wait"]
           /\ UNCHANGED <<runs, keys>> /\ retry(p.fp)
        \/ /\ OwnedBy(t) /\ ~LockHeld /\ clear
           /\ \E d \in {Deferred(DB, p.lp, SeenAtDefer(p.lp, row))} :
                /\ Commit(d)
                /\ Becomes(t, IF d.row = None THEN Nobody ELSE Coordinator("find", d.row.fp, None))
     /\ UNCHANGED <<world, child, faults>>

------------------------------------------------------------------------------
\* compile.py.  It holds memory-auto-compile.lock and survives its coordinator.

ChildBecomes(t, c) == child' = [child EXCEPT ![t] = c]
\* Nobody waits for the exit code of an orphan.
Ends(t, code) == ChildBecomes(t, IF proc[t].pc = "wait" THEN [NoChild EXCEPT !.pc = code]
                                 ELSE NoChild)

ChildStarts(t) ==
  /\ child[t].pc = "start"
  /\ IF LockHeld THEN Ends(t, "held")
     ELSE ChildBecomes(t, [child[t] EXCEPT !.pc = "work",
                             !.todo = {l \in Logs : Status(l) = "uncompiled"}])
  /\ UNCHANGED <<world, row, runs, keys, proc, faults>>

\* The lock is taken for a moment by a process that probes it.
ChildMeetsProbe(t) ==
  /\ child[t].pc = "start" /\ ~LockHeld
  /\ \E u \in Tokens : proc[u].pc = "watch"
  /\ Fault("probe")
  /\ Ends(t, "held")
  /\ UNCHANGED <<world, row, runs, keys, proc>>

\* Baseline, stage and phases of the next log.  A phase is recorded while the
\* reservation is the one the child was started for (record_active_auto_compile_phase).
ChildReads(t) ==
  LET c == child[t]
      l == Least(c.todo)
      active == row # None /\ row.live /\ row.run = c.run
  IN /\ c.pc = "work" /\ c.read = None /\ c.todo # {}
     /\ ChildBecomes(t, [c EXCEPT !.read = IF Status(l) = "uncompiled" THEN Stamp(l) ELSE None,
                                  !.todo = IF Status(l) = "uncompiled" THEN @ ELSE @ \ {l}])
     /\ IF active /\ Status(l) = "uncompiled" THEN Commit(Moved(DB, c.run, "running"))
        ELSE ReadsRow
     /\ UNCHANGED <<world, proc, faults>>

\* The apply compares the exact baselines; a provider that fails and an apply that
\* is deferred both leave the log as it is.
ChildApplies(t, succeeds) ==
  LET c == child[t]
      l == c.read[1]
  IN /\ c.pc = "work" /\ c.read # None
     /\ log' = IF succeeds /\ Shows(l, c.read)
               THEN [log EXCEPT ![l].c = log[l].n, ![l].m = @ + 1] ELSE log
     /\ ChildBecomes(t, [c EXCEPT !.read = None, !.todo = @ \ {l}])
     /\ UNCHANGED <<today, busy, jobs, due, sched, row, runs, keys, proc, faults>>

ChildEnds(t) == /\ child[t].pc = "work" /\ child[t].read = None /\ child[t].todo = {}
                /\ Ends(t, "ok")
                /\ UNCHANGED <<world, row, runs, keys, proc, faults>>

ChildRaises(t) == /\ child[t].pc \in {"start", "work"} /\ Fault("child")
                  /\ Ends(t, "bad")
                  /\ UNCHANGED <<world, row, runs, keys, proc>>

------------------------------------------------------------------------------
\* A process dies; the child of a coordinator goes on.
Crash(t) ==
  /\ proc[t].pc # "none"
  /\ Fault(IF proc[t].pc \in Coordinating \cup {"owner"} THEN "owner" ELSE "watcher")
  /\ Exits(t)
  /\ child' = [child EXCEPT ![t] = IF @.pc \in {"start", "work"} THEN @ ELSE NoChild]
  /\ ReadsRow /\ UNCHANGED world

Process(t) == \/ OwnerStarts(t) \/ ContenderStarts(t) \/ Bootstrap(t)
              \/ PollKeeps(t) \/ PollWaits(t) \/ PollClaims(t)
              \/ Find(t) \/ Promote(t) \/ Owned(t) \/ Launch(t) \/ LaunchRefused(t)
              \/ Reap(t) \/ RenewalLost(t) \/ Fail(t) \/ Finish(t) \/ Defer(t)
Child(t) == \/ ChildStarts(t) \/ ChildReads(t) \/ ChildEnds(t)
            \/ \E ok \in BOOLEAN : ChildApplies(t, ok)
Expiry == OwnerExpires \/ WatcherExpires \/ ContenderExpires
Worker == \/ Enqueue
          \/ \E wrote \in BOOLEAN : Drain(wrote)
          \/ \E asks \in BOOLEAN : Trigger(asks)
          \/ \E s \in sched : Schedule(s) \/ ScheduleAborts(s)
User == \/ NewDay
        \/ \E l \in Logs : ManualCompile(l) \/ RemoveMarkers(l) \/ Unreadable(l) \/ Readable(l)
Mishap(t) == \/ ClaimAborts(t) \/ SessionOpen(t) \/ LaunchAborts(t)
             \/ ChildMeetsProbe(t) \/ ChildRaises(t) \/ Crash(t)

Init ==
  /\ log = [l \in Logs |-> [n |-> 0, c |-> 0, m |-> 0, e |-> 0, ok |-> TRUE]]
  /\ today = Least(Logs) /\ busy = FALSE /\ jobs = MaxJobs /\ due = 0 /\ sched = {}
  /\ row = None /\ runs = [i \in RunIds |-> None] /\ keys = {}
  /\ proc = [t \in Tokens |-> Nobody] /\ child = [t \in Tokens |-> NoChild]
  /\ faults = 0

\* Captures may stop and every process may be done.
Rest == jobs = 0 /\ UNCHANGED vars

Next == \/ Worker \/ User \/ Expiry \/ Rest
        \/ \E t \in Tokens : Process(t) \/ Child(t) \/ Mishap(t)

Spec == Init /\ [][Next]_vars

\* Processes and children are scheduled, leases run out, a capture starts a worker
\* that drains the queue, and a log that cannot be read can be read again.
Fairness == /\ \A t \in Tokens : WF_vars(Process(t)) /\ WF_vars(Child(t))
            /\ WF_vars(OwnerExpires) /\ WF_vars(WatcherExpires) /\ WF_vars(ContenderExpires)
            /\ WF_vars(\E wrote \in BOOLEAN : Drain(wrote))
            /\ \A l \in Logs : WF_vars(Readable(l))

FairSpec == Spec /\ Fairness

------------------------------------------------------------------------------
\* Types of the state.  A row has a pending generation with its required markers, or
\* neither, and a contender with its predecessor, or neither; nobody succeeds itself.
TypeOK ==
  /\ log \in [Logs -> [n : 0 .. MaxJobs, c : 0 .. MaxJobs, m : Nat, e : Nat, ok : BOOLEAN]]
  /\ \A l \in Logs : log[l].c <= log[l].n
  /\ today \in Logs /\ busy \in BOOLEAN /\ jobs \in 0 .. MaxJobs /\ due \in 0 .. MaxJobs
  /\ sched \subseteq Generations \X Histories
  /\ row # None => /\ row \in Row /\ row.run \in RunIds
                   /\ (row.pend = None) = (row.ppre = None)
                   /\ (row.cont = None) = (row.cpred = None)
  /\ runs \in [RunIds -> Run \cup {None}] /\ keys \subseteq Generations
  /\ proc \in [Tokens -> Proc] /\ \A t \in Tokens : proc[t].pred # t
  /\ child \in [Tokens -> Compilation]
  /\ faults \in 0 .. MaxFaults

\* After a failure that could not read a log, a request may hold the fingerprint of
\* its pending log (queue.py:2813).  What the properties promise, they promise of a
\* request whose fingerprint is the one of its own log.
OfItsLog(f) == f[1] = f[2]

\* A request ends only when everything that was registered with it, the active
\* generation and the pending one, has been compiled.
RequestHonoured ==
  [][row # None /\ row' = None /\ OfItsLog(row.fp) =>
       \A f \in {row.fp, row.pend} \ {None} : log[f[2]].c >= f[4]]_vars

\* A status run succeeds only when the entries of its generation are compiled.
SucceededIsCompiled ==
  [][\A i \in RunIds :
       /\ runs[i] # None /\ runs[i].state \notin Terminal
       /\ runs'[i].state = "succeeded" /\ OfItsLog(row.fp)
       => log[runs[i].fp[2]].c >= runs[i].fp[4]]_vars

\* As long as a request stays with a log, the marker history it requires grows.
HistoryKept ==
  [][/\ row # None /\ row.status # "failed" /\ row' # None /\ row'.fp[1] = row.fp[1]
     /\ OfItsLog(row.fp) /\ OfItsLog(row'.fp)
     => \/ row.pre[2] = 0
        \/ row'.pre[1] = row.pre[1] /\ row'.pre[2] >= row.pre[2]]_vars

\* The watchdogs hand over to one another: as long as none of them is killed, the
\* request that one of them watches is watched after every step.
Watched == /\ row # None /\ row.status # "failed" /\ row.watcher # None /\ row.wlive
           /\ proc[row.watcher].pc \in {"watch", "contend"}
WatchKept ==
  [][Watched /\ faults' = faults /\ row' # None /\ row'.status # "failed" => Watched']_vars

\* A request that is watched does not leave its log uncompiled, unless it fails.
Compiles ==
  Watched ~> (row = None \/ row.status = "failed" \/ Status(row.fp[1]) = "covered")

\* The active run of a request is a run of its fingerprint.
RunOfGeneration == row # None => runs[row.run] # None /\ Alike(runs[row.run].fp, row.fp)
=============================================================================
