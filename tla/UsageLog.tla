------------------------------ MODULE UsageLog ------------------------------
(***************************************************************************)
(* The usage ledger of scripts/usage.py, and the part of scripts/queue.py  *)
(* that projects provider attempts into it.                                *)
(*                                                                         *)
(* Attempts are rows of the queue and have an identity; the ledger is      *)
(* usage.jsonl and the archives it was rotated into.  Foreground           *)
(* operations append records without identity, which no database has.      *)
(* Writers hold memory-writer.lock; looking before a recovery, and reading *)
(* what is logged already, happens without it.  A write may stop anywhere: *)
(* inside a record, or just before its newline.                            *)
(***************************************************************************)
EXTENDS Naturals, FiniteSets, Sequences, SequencesExt

CONSTANTS
  Procs,     \* processes
  Notes,     \* the records of foreground operations
  None,
  MaxRows,   \* bound: attempts
  MaxLines,  \* MAX_USAGE_BYTES, in lines
  MaxFaults  \* bound: crashes and failed writes

ASSUME UsageAssumption == /\ MaxRows \in Nat /\ MaxFaults \in Nat
                          /\ MaxLines \in Nat \ {0}
                          /\ None \notin Notes \cup Procs \cup (1 .. MaxRows)
                          /\ Notes \cap (1 .. MaxRows) = {}

VARIABLES
  rows,        \* provider_attempts: how many there are
  active,      \* usage.jsonl, line by line
  archives,    \* the contents of the archives
  quarantine,  \* the lines in usage.corrupt-*.jsonl
  lock,        \* who holds memory-writer.lock
  proc,        \* each process
  cache,       \* its entry of _ATTEMPT_INDEX while the signature matches, or None
  acked,       \* the records whose append has returned
  faults       \* crashes and failed writes so far

files == <<active, archives, quarantine>>
vars == <<rows, files, lock, proc, cache, acked, faults>>

Ids == 1 .. MaxRows
Records == Ids \cup Notes
Rows == 1 .. rows

\* A line is the beginning of a record, a record, or no longer either because the
\* next record was written behind a line without newline; "of" is whose text it has.
Line == [of : SUBSET Records, kind : {"part", "whole", "mixed"}, ended : BOOLEAN]

\* "calm": nothing but this process has touched queue or ledger since it looked.
Proc == [pc : {"idle", "recover", "archives", "mend", "rewrite", "list", "read", "ready",
               "append", "write", "rest"},
         home : {"idle", "ready"}, rec : Records \cup {None}, todo : SUBSET Ids,
         known : SUBSET Ids, sig : BOOLEAN, saw : BOOLEAN, calm : BOOLEAN]

Idle == [pc |-> "idle", home |-> "idle", rec |-> None, todo |-> {}, known |-> {},
         sig |-> FALSE, saw |-> FALSE, calm |-> FALSE]

At(p, pc) == proc[p].pc = pc

-----------------------------------------------------------------------------
(* Reading.                                                                *)

\* _valid_usage_records: the lines that are records, the first of each attempt.
Valid(file) ==
  {i \in DOMAIN file :
     /\ file[i].kind = "whole"
     /\ \A j \in 1 .. i - 1 : file[j].kind = "whole" => file[j].of \cap file[i].of \cap Ids = {}}
Corrupt(file) == Valid(file) # DOMAIN file
Rank(file, i) == Cardinality({j \in Valid(file) : j <= i})
Canonical(file) ==
  [n \in 1 .. Cardinality(Valid(file)) |->
     [file[CHOOSE i \in Valid(file) : Rank(file, i) = n] EXCEPT !.ended = TRUE]]
Attempts(file) == Ids \cap UNION {file[i].of : i \in Valid(file)}

BadArchives == {a \in archives : Corrupt(a)}
Archived == UNION {Attempts(a) : a \in archives}

\* A write to the ledger changes the signature for everybody.
Touched(p, new) == [q \in Procs |-> IF q = p THEN new
                                    ELSE [proc[q] EXCEPT !.sig = FALSE, !.calm = FALSE]]
Forgotten == [q \in Procs |-> None]

-----------------------------------------------------------------------------
(* recover_usage_log                                                       *)

\* Mutant: a ledger that can be read is taken to be well-formed.
NeedsRecoveryOnlyCorrupt == archives # {} \/ Corrupt(active)

NeedsRecovery == archives # {} \/ Canonical(active) # active

\* The look without the lock.
Syncs(p) ==
  /\ proc[p].pc \in {"idle", "ready"} /\ proc[p].todo = {}
  /\ proc' = [proc EXCEPT ![p] =
                [Idle EXCEPT !.pc = IF NeedsRecovery THEN "recover" ELSE "list",
                             !.home = "ready", !.calm = (lock = None)]]
  /\ UNCHANGED <<rows, files, lock, cache, acked, faults>>

\* Mutant: the recovery does not wait for the writer.
RecoversUnlocked(p) ==
  /\ At(p, "recover")
  /\ lock' = p
  /\ proc' = [proc EXCEPT ![p].pc = "archives"]
  /\ UNCHANGED <<rows, files, cache, acked, faults>>

Recovers(p) ==
  /\ At(p, "recover") /\ lock = None
  /\ lock' = p
  /\ proc' = [proc EXCEPT ![p].pc = "archives"]
  /\ UNCHANGED <<rows, files, cache, acked, faults>>

\* _recover_archives_unlocked: an archive with a malformed line goes as a whole.
MendsArchives(p) ==
  /\ At(p, "archives")
  /\ IF BadArchives = {}
     THEN proc' = [proc EXCEPT ![p].pc = "mend"] /\ UNCHANGED <<files, cache>>
     ELSE \E a \in BadArchives :
            /\ archives' = archives \ {a}
            /\ quarantine' = quarantine \cup Range(a)
            /\ proc' = Touched(p, proc[p]) /\ cache' = Forgotten
            /\ UNCHANGED active
  /\ UNCHANGED <<rows, lock, acked, faults>>

\* Mutant: the corrupt lines are not saved before the ledger is replaced.
MendsWithoutQuarantine(p) ==
  /\ At(p, "mend")
  /\ proc' = [proc EXCEPT ![p].pc = "rewrite"]
  /\ UNCHANGED <<rows, files, lock, cache, acked, faults>>

\* _recover_usage_unlocked: first the corrupt lines are quarantined, ...
Mends(p) ==
  /\ At(p, "mend")
  /\ quarantine' = quarantine \cup {active[i] : i \in DOMAIN active \ Valid(active)}
  /\ proc' = IF Corrupt(active)
             THEN Touched(p, [proc[p] EXCEPT !.pc = "rewrite"])
             ELSE [proc EXCEPT ![p].pc = "rewrite"]
  /\ cache' = IF Corrupt(active) THEN Forgotten ELSE cache
  /\ UNCHANGED <<rows, active, archives, lock, acked, faults>>

\* ... then the ledger is replaced by its valid records.
Rewrites(p) ==
  /\ At(p, "rewrite")
  /\ active' = Canonical(active)
  /\ LET new == [proc[p] EXCEPT !.pc = IF proc[p].rec = None THEN "list" ELSE "append"]
     IN  proc' = IF active' # active THEN Touched(p, new) ELSE [proc EXCEPT ![p] = new]
  /\ cache' = IF active' # active THEN Forgotten ELSE [cache EXCEPT ![p] = None]
  /\ lock' = IF proc[p].rec = None THEN None ELSE p
  /\ UNCHANGED <<rows, archives, quarantine, acked, faults>>

-----------------------------------------------------------------------------
(* _sync_usage_records                                                     *)

\* The rows that are missing in the ledger, as far as this process can see.
Missing(p, known) == [proc[p] EXCEPT !.pc = "ready", !.todo = Rows \ known,
                                     !.sig = FALSE, !.saw = FALSE, !.known = {}]

\* _indexed_attempts of a reader: the signature, then the archives, ...
Lists(p) ==
  /\ At(p, "list")
  /\ proc' = [proc EXCEPT ![p] =
       IF cache[p] # None THEN Missing(p, cache[p])
       ELSE IF BadArchives # {} THEN Missing(p, {})
       ELSE [@ EXCEPT !.pc = "read", !.sig = TRUE, !.saw = (active # <<>>),
                      !.known = Archived]]
  /\ UNCHANGED <<rows, files, lock, cache, acked, faults>>

\* ... then the ledger, left out when it has a malformed line.
Reads(p) ==
  /\ At(p, "read")
  /\ LET known == IF ~proc[p].saw \/ Corrupt(active) THEN proc[p].known
                  ELSE proc[p].known \cup Attempts(active)
     IN  IF proc[p].saw /\ active = <<>>
         THEN proc' = [proc EXCEPT ![p] = Missing(p, {})] /\ UNCHANGED cache
         ELSE /\ proc' = [proc EXCEPT ![p] = Missing(p, known)]
              /\ cache' = [cache EXCEPT ![p] = IF proc[p].sig THEN known ELSE None]
  /\ UNCHANGED <<rows, files, lock, acked, faults>>

\* _append_attempt_usage of the next row that seemed to be missing.
Projects(p) ==
  /\ At(p, "ready") /\ proc[p].todo # {}
  /\ LET i == CHOOSE i \in proc[p].todo : \A j \in proc[p].todo : i <= j
     IN  proc' = [proc EXCEPT ![p].pc = "append", ![p].rec = i]
  /\ UNCHANGED <<rows, files, lock, cache, acked, faults>>

\* record_attempt: the row is committed, then its record is appended.
RecordsAttempt(p) ==
  /\ At(p, "ready") /\ proc[p].todo = {} /\ rows < MaxRows
  /\ rows' = rows + 1
  /\ proc' = Touched(p, [proc[p] EXCEPT !.pc = "append", !.rec = rows'])
  /\ UNCHANGED <<files, lock, cache, acked, faults>>

\* record_routed_usage of a foreground operation.
RecordsNote(p) ==
  /\ At(p, "idle")
  /\ \E n \in Notes \ acked : /\ \A q \in Procs : proc[q].rec # n
                              /\ proc' = [proc EXCEPT ![p].pc = "append", ![p].rec = n]
  /\ UNCHANGED <<rows, files, lock, cache, acked, faults>>

-----------------------------------------------------------------------------
(* append_usage_record                                                     *)

Finished(p) == [proc[p] EXCEPT !.pc = proc[p].home, !.rec = None,
                               !.todo = @ \ {proc[p].rec}, !.known = {}]

\* Mutant: the archives are not indexed.
LoggedInActive(p) == IF cache[p] # None THEN cache[p] ELSE Attempts(active)

Logged(p) == IF cache[p] # None THEN cache[p] ELSE Archived \cup Attempts(active)

\* _indexed_attempts under the lock: the cached index, a malformed archive, a
\* malformed ledger to recover first, or the attempts of all files.
Appends(p) ==
  /\ At(p, "append") /\ lock \in {None, p}
  /\ IF cache[p] = None /\ BadArchives # {}
     THEN /\ proc' = [proc EXCEPT ![p] = Finished(p)]
          /\ lock' = None /\ UNCHANGED cache
     ELSE IF cache[p] = None /\ Corrupt(active)
     THEN /\ proc' = [proc EXCEPT ![p].pc = "mend"]
          /\ lock' = p /\ UNCHANGED cache
     ELSE /\ cache' = [cache EXCEPT ![p] = Logged(p)]
          /\ IF proc[p].rec \in Logged(p)
             THEN proc' = [proc EXCEPT ![p] = Finished(p)] /\ lock' = None
             ELSE /\ proc' = [proc EXCEPT ![p].pc = "write", ![p].known = Logged(p)]
                  /\ lock' = p
  /\ UNCHANGED <<rows, files, acked, faults>>

\* Mutant: the record to be written is not counted.
FullLate == Len(active) > MaxLines

Full == Len(active) >= MaxLines

\* _rotate_usage_log
Rotates(p) ==
  /\ At(p, "write") /\ Full
  /\ archives' = archives \cup {active} /\ active' = <<>>
  /\ proc' = Touched(p, proc[p]) /\ cache' = Forgotten
  /\ UNCHANGED <<rows, quarantine, lock, acked, faults>>

\* What is written joins the last line if that one has no newline.
Written(text) ==
  IF active # <<>> /\ ~Last(active).ended
  THEN [active EXCEPT ![Len(active)] = [of |-> @.of \cup text.of, kind |-> "mixed",
                                        ended |-> FALSE]]
  ELSE Append(active, text)

\* _append_private: the beginning of the record, or all of it but the newline, ...
Writes(p) ==
  /\ At(p, "write") /\ ~Full
  /\ \E text \in {[of |-> {}, kind |-> "part", ended |-> FALSE],
                  [of |-> {proc[p].rec}, kind |-> "whole", ended |-> FALSE]} :
       active' = Written(text)
  /\ proc' = Touched(p, [proc[p] EXCEPT !.pc = "rest"]) /\ cache' = Forgotten
  /\ UNCHANGED <<rows, archives, quarantine, lock, acked, faults>>

\* ... and the rest; then the index is brought up to date.
Completes(p) ==
  /\ At(p, "rest")
  /\ active' = [active EXCEPT ![Len(active)] =
                  [of |-> @.of \cup {proc[p].rec}, ended |-> TRUE,
                   kind |-> IF @.kind = "mixed" THEN "mixed" ELSE "whole"]]
  /\ acked' = acked \cup {proc[p].rec}
  /\ proc' = Touched(p, Finished(p))
  /\ cache' = [Forgotten EXCEPT ![p] = proc[p].known \cup ({proc[p].rec} \cap Ids)]
  /\ lock' = None
  /\ UNCHANGED <<rows, archives, quarantine, faults>>

-----------------------------------------------------------------------------
(* Faults.                                                                 *)

Fault == faults < MaxFaults /\ faults' = faults + 1

\* The write raises: the attempt is projected again by the next synchronisation.
Fails(p) ==
  /\ At(p, "rest") /\ Fault
  /\ proc' = [proc EXCEPT ![p] = [Finished(p) EXCEPT !.calm = FALSE]]
  /\ lock' = None
  /\ UNCHANGED <<rows, files, cache, acked>>

\* The process ends, wherever it is, and its index with it.
Crashes(p) ==
  /\ ~At(p, "idle") /\ Fault
  /\ proc' = [proc EXCEPT ![p] = Idle] /\ cache' = [cache EXCEPT ![p] = None]
  /\ lock' = IF lock = p THEN None ELSE lock
  /\ UNCHANGED <<rows, files, acked>>

Leaves(p) ==
  /\ At(p, "ready") /\ proc[p].todo = {}
  /\ proc' = [proc EXCEPT ![p] = Idle] /\ cache' = [cache EXCEPT ![p] = None]
  /\ UNCHANGED <<rows, files, lock, acked, faults>>

-----------------------------------------------------------------------------
Init ==
  /\ rows = 0 /\ active = <<>> /\ archives = {} /\ quarantine = {}
  /\ lock = None
  /\ proc = [p \in Procs |-> Idle]
  /\ cache = Forgotten
  /\ acked = {} /\ faults = 0

Next == \E p \in Procs :
  \/ Syncs(p) \/ Recovers(p) \/ MendsArchives(p) \/ Mends(p) \/ Rewrites(p)
  \/ Lists(p) \/ Reads(p) \/ Projects(p) \/ RecordsAttempt(p) \/ RecordsNote(p)
  \/ Appends(p) \/ Rotates(p) \/ Writes(p) \/ Completes(p)
  \/ Fails(p) \/ Crashes(p) \/ Leaves(p)

Spec == Init /\ [][Next]_vars

-----------------------------------------------------------------------------
UsageTypeOK ==
  /\ rows \in 0 .. MaxRows /\ faults \in 0 .. MaxFaults
  /\ active \in Seq(Line) /\ Len(active) <= MaxLines
  /\ \A a \in archives : a \in Seq(Line)
  /\ quarantine \subseteq Line /\ acked \subseteq Records
  /\ lock \in Procs \cup {None}
  /\ proc \in [Procs -> Proc]
  /\ cache \in [Procs -> (SUBSET Ids) \cup {None}]

\* In how many places of the ledger a record is.
Places(r) == UNION {{a} \X {i \in DOMAIN a : a[i].kind = "whole" /\ a[i].of = {r}} :
                      a \in archives \cup {active}}

\* Without a crash or a failed write, what is appended is in the ledger exactly once,
\* whoever synchronises, recovers or rotates meanwhile.
LoggedOnce ==
  faults = 0 => \A r \in acked : Cardinality(Places(r)) = 1

\* ... and nobody who looks at the ledger in the middle of a write takes the record
\* for a corrupt one.
NothingQuarantined == faults = 0 => quarantine = {}

\* A record whose append has returned never leaves the disk, although it may be in a
\* malformed line: no crash comes between saving it and replacing the ledger.
NothingForgotten ==
  \A r \in acked :
    \/ \E line \in quarantine : r \in line.of
    \/ \E a \in archives \cup {active} : \E i \in DOMAIN a : r \in a[i].of

\* A synchronisation that nobody disturbs leaves every attempt in the ledger exactly
\* once and nothing malformed, whatever has happened before.
SyncRepairs ==
  \A p \in Procs :
    At(p, "ready") /\ proc[p].todo = {} /\ proc[p].calm =>
      /\ BadArchives = {} /\ ~Corrupt(active)
      /\ \A i \in Rows : Cardinality(Places(i)) = 1
=============================================================================
