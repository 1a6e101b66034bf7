---------------------------- MODULE StagedApply ----------------------------
(***************************************************************************)
(* The crash-safe writes of scripts/staging.py: a set of files is replaced *)
(* under memory-writer.lock with a recovery journal.  The writers modelled *)
(* are append_daily_entry (scripts/utils.py), the compilation of the daily *)
(* log (scripts/compile.py), the bare recovery that a starting worker or   *)
(* compiler runs, and update_state, which takes the same lock but writes   *)
(* state.json on its own.                                                  *)
(*                                                                         *)
(* Every replacement of one file (write a temporary, os.replace) and every *)
(* unlink is a step; a process may crash, and an operation may raise,      *)
(* before any of them.  The reads of a compilation take no lock, so they   *)
(* may see the files in the middle of another writer's apply.              *)
(***************************************************************************)
EXTENDS Integers

CONSTANTS
  Captures,       \* capture identities
  Writers,        \* processes
  NoWriter,       \* memory-writer.lock is free
  RemoveMayFail,  \* whether the unlink of a journal may raise
  MaxMarks,       \* bound: compiled-through markers in the log
  MaxFaults       \* bound: crashes and raised operations

ASSUME ApplyAssumption ==
  /\ NoWriter \notin Writers
  /\ RemoveMayFail \in BOOLEAN
  /\ MaxMarks \in Nat
  /\ MaxFaults \in Nat

VARIABLES
  disk,     \* the files
  journal,  \* the journal file each writer has published, or NoJournal
  lock,     \* who holds memory-writer.lock
  work,     \* what each writer is doing
  acked,    \* captures whose append has returned
  linted,   \* whether an update_state of the linter has returned
  faults    \* crashes and raised operations so far

vars == <<disk, journal, lock, work, acked, linted, faults>>

-----------------------------------------------------------------------------
(* Files.                                                                  *)

\* daily/<date>.md, knowledge/... and scripts/state.json; an apply replaces them
\* in the order of their paths and restores them in the reverse order.
Files == {"daily", "article", "state"}
Rank == [daily |-> 1, article |-> 2, state |-> 3]
FirstOf(S) == CHOOSE f \in S : \A g \in S : Rank[f] <= Rank[g]
LastOf(S) == CHOOSE f \in S : \A g \in S : Rank[f] >= Rank[g]

\* A daily log: the entries before its last compiled-through marker, the
\* entries after it, and how many markers it has.
Log == [done : SUBSET Captures, new : SUBSET Captures, marks : 0..MaxMarks]
NoLog == [done |-> {}, new |-> {}, marks |-> 0]
Entries(log) == log.done \cup log.new
Marked(log) == [done |-> Entries(log), new |-> {}, marks |-> log.marks + 1]

\* state.json: the log whose hash it holds, and whether it has a last_lint.
State == [of : Log, linted : BOOLEAN]

\* `article` is the set of entries the articles were compiled from.
Disk == [daily : Log, article : SUBSET Captures, state : State]

\* Mutant: a log without markers counts as compiled once state.json knows it.
NothingNewByName(d) == d.daily.new = {} \/ (d.daily.marks = 0 /\ d.state.of # NoLog)

\* compile_daily_log has nothing to send to a provider.
NothingNew(d) == d.daily.new = {} \/ (d.daily.marks = 0 /\ d.state.of = d.daily)

NoJournal == [state |-> "none"]
Journal == [state : {"prepared", "applying", "complete"}, old : Disk, files : SUBSET Files]

-----------------------------------------------------------------------------
(* Writers.                                                                *)

Pc == {"idle", "read", "stage", "edit", "lock", "recover", "restore", "check",
       "prepare", "begin", "replace", "remove", "rollback"}

\* `entry`: what an append appends; `base`: what a compilation has read; `new`:
\* the files after the apply; `left`: the files still to replace or restore;
\* `of`: whose journal is recovered.
Work == [pc : Pc, kind : {"append", "compile", "mark", "recover"}, entry : SUBSET Captures,
         base : Disk, new : Disk, left : SUBSET Files, of : Writers]

NoState == [of |-> NoLog, linted |-> FALSE]
NoFiles == [daily |-> NoLog, article |-> {}, state |-> NoState]
NoWork(p) == [pc |-> "idle", kind |-> "recover", entry |-> {}, base |-> NoFiles,
              new |-> NoFiles, left |-> {}, of |-> p]

At(p, pc) == work[p].pc = pc
Goto(p, pc) == work' = [work EXCEPT ![p].pc = pc]
Process(p, pc, left) == work' = [work EXCEPT ![p].pc = pc, ![p].left = left]

\* `with ExclusiveFileLock(...)` is left and the operation ends.
Leave(p) == lock' = NoWriter /\ work' = [work EXCEPT ![p] = NoWork(p)]

Faulty == faults < MaxFaults /\ faults' = faults + 1

Init ==
  /\ \E old \in SUBSET Captures :
       LET log == [NoLog EXCEPT !.new = old] IN
       disk \in {[daily |-> log, article |-> {}, state |-> NoState],
                 [daily |-> log, article |-> old, state |-> [NoState EXCEPT !.of = log]]}
  /\ journal = [p \in Writers |-> NoJournal]
  /\ lock = NoWriter
  /\ work = [p \in Writers |-> NoWork(p)]
  /\ acked = {}
  /\ linted = FALSE
  /\ faults = 0

\* append_daily_entry, up to its lock
StartAppend(p, c) ==
  /\ At(p, "idle")
  /\ work' = [work EXCEPT ![p].pc = "lock", ![p].kind = "append", ![p].entry = {c}]
  /\ UNCHANGED <<disk, journal, lock, acked, linted, faults>>

\* recover_incomplete_apply, up to its lock
StartRecovery(p) ==
  /\ At(p, "idle") /\ Goto(p, "lock")
  /\ UNCHANGED <<disk, journal, lock, acked, linted, faults>>

\* load_state_with_baseline
StartCompile(p) ==
  /\ At(p, "idle")
  /\ work' = [work EXCEPT ![p].pc = "read", ![p].base.state = disk.state]
  /\ UNCHANGED <<disk, journal, lock, acked, linted, faults>>

\* read_text_with_baseline(log_path): with nothing new only marker and state
\* are written; a log that does not exist ends the compilation.
ReadLog(p) ==
  /\ At(p, "read")
  /\ IF disk.daily = NoLog \/ disk.daily.marks >= MaxMarks
     THEN work' = [work EXCEPT ![p] = NoWork(p)]
     ELSE LET base == [work[p].base EXCEPT !.daily = disk.daily] IN
          work' = [work EXCEPT ![p].base = base,
                     ![p].pc = IF NothingNew(base) THEN "lock" ELSE "stage",
                     ![p].kind = IF NothingNew(base) THEN "mark" ELSE "compile"]
  /\ UNCHANGED <<disk, journal, lock, acked, linted, faults>>

\* create_stage copies the articles and takes their manifest.
CreateStage(p) ==
  /\ At(p, "stage")
  /\ work' = [work EXCEPT ![p].pc = "edit", ![p].base.article = disk.article]
  /\ UNCHANGED <<disk, journal, lock, acked, linted, faults>>

\* A provider edits the stage and it validates, or the compilation gives up.
EditStage(p) ==
  /\ At(p, "edit")
  /\ Goto(p, "lock") \/ work' = [work EXCEPT ![p] = NoWork(p)]
  /\ UNCHANGED <<disk, journal, lock, acked, linted, faults>>

Acquire(p) ==
  /\ At(p, "lock") /\ lock = NoWriter
  /\ lock' = p /\ Goto(p, "recover")
  /\ UNCHANGED <<disk, journal, acked, linted, faults>>

\* update_state, with the only mutation it is used for: under the lock, but
\* whatever journal there is stays.
UpdateState(p) ==
  /\ At(p, "idle") /\ lock = NoWriter
  /\ disk' = [disk EXCEPT !.state.linted = TRUE]
  /\ linted' = TRUE
  /\ UNCHANGED <<journal, lock, work, acked, faults>>

-----------------------------------------------------------------------------
(* recover_incomplete_apply_unlocked, and the restoring of a rollback.     *)

Published(q) == journal[q] # NoJournal

\* Mutant: only a journal that was never applied is restored.
RecoverOnlyPrepared(p, q) ==
  /\ At(p, "recover") /\ Published(q)
  /\ work' = [work EXCEPT ![p].pc = "restore", ![p].of = q,
       ![p].left = IF journal[q].state # "prepared" THEN {} ELSE journal[q].files]
  /\ UNCHANGED <<disk, journal, lock, acked, linted, faults>>

\* The next journal: a complete one is only dropped.
RecoverJournal(p, q) ==
  /\ At(p, "recover") /\ Published(q)
  /\ work' = [work EXCEPT ![p].pc = "restore", ![p].of = q,
       ![p].left = IF journal[q].state = "complete" THEN {} ELSE journal[q].files]
  /\ UNCHANGED <<disk, journal, lock, acked, linted, faults>>

\* _restore_operations, one file
Restore(p) ==
  /\ At(p, "restore") \/ At(p, "rollback")
  /\ work[p].left # {}
  /\ LET f == LastOf(work[p].left) IN
     /\ disk' = [disk EXCEPT ![f] = journal[work[p].of].old[f]]
     /\ work' = [work EXCEPT ![p].left = @ \ {f}]
  /\ UNCHANGED <<journal, lock, acked, linted, faults>>

Drop(q) == journal' = [journal EXCEPT ![q] = NoJournal]

\* A recovered journal is removed; on to the next.
RecoverDrop(p) ==
  /\ At(p, "restore") /\ work[p].left = {}
  /\ Drop(work[p].of) /\ Goto(p, "recover")
  /\ UNCHANGED <<disk, lock, acked, linted, faults>>

\* Mutant: the writer does not wait for the journals to be recovered.
RecoverySkipped(p) ==
  /\ At(p, "recover")
  /\ IF work[p].kind = "recover" THEN Leave(p)
     ELSE Goto(p, "check") /\ UNCHANGED lock
  /\ UNCHANGED <<disk, journal, acked, linted, faults>>

RecoveryEnds(p) ==
  /\ At(p, "recover") /\ \A q \in Writers : ~Published(q)
  /\ IF work[p].kind = "recover" THEN Leave(p)
     ELSE Goto(p, "check") /\ UNCHANGED lock
  /\ UNCHANGED <<disk, journal, acked, linted, faults>>

-----------------------------------------------------------------------------
(* One apply.                                                              *)

\* Mutant: the daily log may have changed since it was read.
BaselinesWithoutLog(p) ==
  /\ disk.state = work[p].base.state
  /\ work[p].kind = "compile" => disk.article = work[p].base.article

\* The exact baselines of marker, state and staged articles.
BaselinesHold(p) ==
  /\ disk.daily = work[p].base.daily
  /\ disk.state = work[p].base.state
  /\ work[p].kind = "compile" => disk.article = work[p].base.article

Planned(p, new, files) ==
  work' = [work EXCEPT ![p].pc = "prepare", ![p].new = new, ![p].left = files, ![p].of = p]

\* append_daily_entry: an entry whose capture-id is in the log is not repeated.
CheckAppend(p) ==
  /\ At(p, "check") /\ work[p].kind = "append"
  /\ IF work[p].entry \subseteq Entries(disk.daily)
     THEN Leave(p) /\ acked' = acked \cup work[p].entry
     ELSE /\ Planned(p, [disk EXCEPT !.daily.new = @ \cup work[p].entry], {"daily"})
          /\ UNCHANGED <<lock, acked>>
  /\ UNCHANGED <<disk, journal, linted, faults>>

\* apply_validated_stage and apply_host_bookkeeping: refused on a changed
\* baseline; the hash in the new state is that of the marked log.
CheckCompile(p) ==
  /\ At(p, "check") /\ work[p].kind \in {"compile", "mark"}
  /\ LET log == Marked(disk.daily)
         staged == work[p].base.article \cup work[p].base.daily.new IN
     IF BaselinesHold(p)
     THEN /\ Planned(p, [daily |-> log, article |-> staged,
                         state |-> [work[p].base.state EXCEPT !.of = log]],
                     IF work[p].kind = "compile" THEN Files ELSE {"daily", "state"})
          /\ UNCHANGED lock
     ELSE Leave(p)
  /\ UNCHANGED <<disk, journal, acked, linted, faults>>

JournalState(p, s) == journal' = [journal EXCEPT ![p].state = s]

\* Mutant: the first journal state is not written.
PrepareUnpublished(p) ==
  /\ At(p, "prepare") /\ Goto(p, "begin")
  /\ UNCHANGED <<disk, journal, lock, acked, linted, faults>>

Prepare(p) ==
  /\ At(p, "prepare") /\ Goto(p, "begin")
  /\ journal' = [journal EXCEPT ![p] =
       [state |-> "prepared", old |-> disk, files |-> work[p].left]]
  /\ UNCHANGED <<disk, lock, acked, linted, faults>>

BeginApply(p) ==
  /\ At(p, "begin") /\ Goto(p, "replace") /\ JournalState(p, "applying")
  /\ UNCHANGED <<disk, lock, acked, linted, faults>>

Replace(p) ==
  /\ At(p, "replace") /\ work[p].left # {}
  /\ LET f == FirstOf(work[p].left) IN
     /\ disk' = [disk EXCEPT ![f] = work[p].new[f]]
     /\ work' = [work EXCEPT ![p].left = @ \ {f}]
  /\ UNCHANGED <<journal, lock, acked, linted, faults>>

CompleteApply(p) ==
  /\ At(p, "replace") /\ work[p].left = {}
  /\ Goto(p, "remove") /\ JournalState(p, "complete")
  /\ UNCHANGED <<disk, lock, acked, linted, faults>>

\* The journal is removed and the caller gets its result.
RemoveJournal(p) ==
  /\ At(p, "remove") /\ Drop(p) /\ Leave(p)
  /\ acked' = acked \cup work[p].entry
  /\ UNCHANGED <<disk, linted, faults>>

\* Mutant: the caller of a rolled back apply gets its result all the same.
RollbackReturns(p) ==
  /\ At(p, "rollback") /\ work[p].left = {}
  /\ Drop(p) /\ Leave(p)
  /\ acked' = acked \cup work[p].entry
  /\ UNCHANGED <<disk, linted, faults>>

RollbackEnds(p) ==
  /\ At(p, "rollback") /\ work[p].left = {}
  /\ Drop(p) /\ Leave(p)
  /\ UNCHANGED <<disk, acked, linted, faults>>

-----------------------------------------------------------------------------
(* Failures.                                                               *)

\* An operation of the apply raises: everything is to be restored.
ApplyFails(p) ==
  /\ At(p, "begin") \/ At(p, "replace") \/ (At(p, "remove") /\ RemoveMayFail)
  /\ Faulty
  /\ Process(p, "rollback", journal[p].files)
  /\ UNCHANGED <<disk, journal, lock, acked, linted>>

\* Publishing the journal, a recovery or a rollback raises: the error leaves
\* the lock, and the journal stays.
OperationFails(p) ==
  /\ \/ At(p, "prepare")
     \/ (At(p, "restore") \/ At(p, "rollback")) /\ (work[p].left = {} => RemoveMayFail)
  /\ Faulty
  /\ Leave(p)
  /\ UNCHANGED <<disk, journal, acked, linted>>

\* The process ends; the operating system drops its lock.
Crash(p) ==
  /\ ~At(p, "idle") /\ Faulty
  /\ lock' = IF lock = p THEN NoWriter ELSE lock
  /\ work' = [work EXCEPT ![p] = NoWork(p)]
  /\ UNCHANGED <<disk, journal, acked, linted>>

-----------------------------------------------------------------------------

Outside(p) ==
  \/ \E c \in Captures : StartAppend(p, c)
  \/ StartRecovery(p) \/ StartCompile(p) \/ ReadLog(p) \/ CreateStage(p) \/ EditStage(p)
  \/ Acquire(p) \/ UpdateState(p)

Recovery(p) ==
  (\E q \in Writers : RecoverJournal(p, q)) \/ Restore(p) \/ RecoverDrop(p) \/ RecoveryEnds(p)

Apply(p) ==
  \/ CheckAppend(p) \/ CheckCompile(p) \/ Prepare(p) \/ BeginApply(p) \/ Replace(p)
  \/ CompleteApply(p) \/ RemoveJournal(p) \/ RollbackEnds(p)

Failure(p) == ApplyFails(p) \/ OperationFails(p) \/ Crash(p)

Next == \E p \in Writers : Outside(p) \/ Recovery(p) \/ Apply(p) \/ Failure(p)

Spec == Init /\ [][Next]_vars

-----------------------------------------------------------------------------
(* Properties.                                                             *)

\* Types of the state; a writer beyond its lock has it.
ApplyTypeOK ==
  /\ disk \in Disk
  /\ journal \in [Writers -> Journal \cup {NoJournal}]
  /\ lock \in Writers \cup {NoWriter}
  /\ work \in [Writers -> Work]
  /\ acked \in SUBSET Captures
  /\ linted \in BOOLEAN
  /\ faults \in 0..MaxFaults

\* What a recovery would make of the files now.
Unfinished(q) == journal[q] # NoJournal /\ journal[q].state # "complete"
Recovered(f) ==
  IF \E q \in Writers : Unfinished(q) /\ f \in journal[q].files
  THEN journal[CHOOSE q \in Writers : Unfinished(q) /\ f \in journal[q].files].old[f]
  ELSE disk[f]

\* At most one journal exists, so the order in which a recovery takes them (by
\* their random names) can never undo a newer apply with an older one.
OneJournal ==
  \A p, q \in Writers : Published(p) /\ Published(q) => p = q

\* An entry whose append has returned is in the daily log for good, whatever
\* crashes or is rolled back, and whatever a compilation that has read an older
\* log wants to write.
AckedIsWritten == acked \subseteq Entries(Recovered("daily"))

\* The entries before the last compiled-through marker were compiled: what is
\* appended while a provider edits is never marked with the rest.
NothingSkipped == Recovered("daily").done \subseteq Recovered("article")

\* A log that the next compilation passes over, because state.json has its
\* hash, has been compiled to its end.
UpToDateIsCompiled ==
  Recovered("state").of = Recovered("daily") => Entries(Recovered("daily")) \subseteq Recovered("article")

\* All of it together: the writers implement atomic appends and compilations.
Promise == INSTANCE KnowledgeBase WITH
  daily <- Recovered("daily"), article <- Recovered("article"), state <- Recovered("state").of

ImplementsKnowledgeBase == Promise!Spec

\* An apply is applied or it is not: with no writer and no journal left, no
\* log is marked as compiled whose entries the articles lack.
AppliedWhole ==
  lock = NoWriter /\ (\A q \in Writers : ~Published(q)) => disk.daily.done \subseteq disk.article

\* A returned update of state.json stays: no recovery of an apply that was
\* interrupted before it takes it back.
UpdatesAreKept ==
  linted /\ lock = NoWriter /\ (\A q \in Writers : ~Published(q)) => disk.state.linted
=============================================================================
