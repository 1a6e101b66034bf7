------------------------- MODULE StagedApply_proofs -------------------------
(***************************************************************************)
(* Proofs about StagedApply, for any sets of captures and writers and any  *)
(* bounds.  A step of one writer leaves the others' knowledge about the    *)
(* files intact because only the holder of the lock changes the files, the *)
(* journals and `acked`; what the holder knows at each point of an apply,  *)
(* a recovery or a rollback is Knows.                                      *)
(***************************************************************************)
EXTENDS StagedApply, TLAPS

\* Where a writer holds the lock, and where its own journal is published.
Section == {"recover", "restore", "check", "prepare", "begin", "replace", "remove", "rollback"}
Applying == {"begin", "replace", "remove", "rollback"}

In(p, S) == work[p].pc \in S

Mutex == \A p \in Writers : In(p, Section) <=> lock = p

\* What a writer carries along, wherever it is.
Local(p) ==
  /\ In(p, {"idle", "read"}) => work[p].kind = "recover"
  /\ work[p].kind = "append" => \E c \in Captures : work[p].entry = {c}
  /\ work[p].kind # "append" => work[p].entry = {}
  /\ work[p].kind \in {"compile", "mark"} => work[p].base.daily.marks < MaxMarks
  /\ work[p].kind = "mark" => NothingNew(work[p].base)

\* The files of the journal that are done agree with what it kept.
Restored(p) ==
  \A f \in journal[work[p].of].files \ work[p].left : disk[f] = journal[work[p].of].old[f]

\* The new log of the apply has everything that `log` has, and the entry.
Extends(p, log) == Entries(log) \cup work[p].entry \subseteq Entries(work[p].new.daily)

\* What the holder of the lock knows.
Knows(p) ==
  /\ In(p, {"check", "prepare"}) => \A q \in Writers : ~Published(q)
  /\ In(p, {"prepare"}) =>
       work[p].of = p /\ "daily" \in work[p].left /\ Extends(p, disk.daily)
  /\ In(p, {"restore"}) =>
       /\ Published(work[p].of)
       /\ IF journal[work[p].of].state = "complete" THEN work[p].left = {} ELSE Restored(p)
  /\ In(p, Applying) =>
       /\ Published(p) /\ work[p].of = p
       /\ acked \subseteq Entries(journal[p].old.daily)
  /\ In(p, {"begin", "replace"}) =>
       /\ journal[p].state # "complete" /\ "daily" \in journal[p].files
       /\ Extends(p, journal[p].old.daily)
  /\ In(p, {"restore", "begin", "replace", "rollback"}) =>
       work[p].left \subseteq journal[work[p].of].files
  /\ In(p, {"begin"}) => work[p].left = journal[p].files
  /\ In(p, {"replace"}) => \A f \in journal[p].files \ work[p].left : disk[f] = work[p].new[f]
  /\ In(p, {"remove"}) => journal[p].state = "complete" /\ work[p].entry \subseteq Entries(disk.daily)
  /\ In(p, {"rollback"}) => Restored(p)

\* The inductive invariant.
AInv ==
  /\ ApplyTypeOK /\ Mutex
  /\ \A p \in Writers : Local(p)
  /\ \A p \in Writers : lock = p => Knows(p)
  /\ OneJournal /\ AckedIsWritten

-----------------------------------------------------------------------------
(* Files.                                                                  *)

LEMMA FileIsOne == \A f \in Files : f = "daily" \/ f = "article" \/ f = "state"
  BY DEF Files

LEMMA OrderedFiles ==
  ASSUME NEW S \in SUBSET Files, S # {}
  PROVE  FirstOf(S) \in S /\ LastOf(S) \in S
<1>1. Rank["daily"] = 1 /\ Rank["article"] = 2 /\ Rank["state"] = 3
  BY DEF Rank
<1>2. \E f \in S : \A g \in S : Rank[f] <= Rank[g]
  <2>1. CASE "daily" \in S
    BY <1>1, <2>1, FileIsOne
  <2>2. CASE "daily" \notin S /\ "article" \in S
    BY <1>1, <2>2, FileIsOne
  <2>3. CASE "daily" \notin S /\ "article" \notin S
    BY <1>1, <2>3, FileIsOne
  <2> QED BY <2>1, <2>2, <2>3
<1>3. \E f \in S : \A g \in S : Rank[f] >= Rank[g]
  <2>1. CASE "state" \in S
    BY <1>1, <2>1, FileIsOne
  <2>2. CASE "state" \notin S /\ "article" \in S
    BY <1>1, <2>2, FileIsOne
  <2>3. CASE "state" \notin S /\ "article" \notin S
    BY <1>1, <2>3, FileIsOne
  <2> QED BY <2>1, <2>2, <2>3
<1> QED BY <1>2, <1>3 DEF FirstOf, LastOf

LEMMA ReplacedFile ==
  ASSUME NEW d \in Disk, NEW f \in Files, NEW e \in Disk
  PROVE  /\ [d EXCEPT ![f] = e[f]] \in Disk
         /\ \A g \in Files : [d EXCEPT ![f] = e[f]][g] = IF g = f THEN e[g] ELSE d[g]
  BY DEF Disk, Files

\* The view after a recovery, as a function of files and journals.
Incomplete(j, q) == j[q] # NoJournal /\ j[q].state # "complete"
View(d, j, f) ==
  IF \E q \in Writers : Incomplete(j, q) /\ f \in j[q].files
  THEN j[CHOOSE q \in Writers : Incomplete(j, q) /\ f \in j[q].files].old[f]
  ELSE d[f]
Single(j) == \A p, q \in Writers : j[p] # NoJournal /\ j[q] # NoJournal => p = q

LEMMA RecoveredIsView ==
  ASSUME NEW f
  PROVE  /\ Recovered(f) = View(disk, journal, f)
         /\ Recovered(f)' = View(disk', journal', f)
         /\ OneJournal <=> Single(journal)
         /\ OneJournal' <=> Single(journal')
  BY DEF Recovered, Unfinished, View, Incomplete, OneJournal, Published, Single

\* With one journal, a recovery would restore its files and no others.
LEMMA ViewBy ==
  ASSUME NEW d, NEW j, Single(j), NEW q \in Writers, Incomplete(j, q), NEW f
  PROVE  View(d, j, f) = IF f \in j[q].files THEN j[q].old[f] ELSE d[f]
<1>1. \A r \in Writers : Incomplete(j, r) => r = q
  BY DEF Single, Incomplete
<1>2. CASE f \in j[q].files
  <2>1. (CHOOSE r \in Writers : Incomplete(j, r) /\ f \in j[r].files) = q
    BY <1>1, <1>2
  <2> QED BY <1>2, <2>1 DEF View
<1>3. CASE f \notin j[q].files
  BY <1>1, <1>3 DEF View
<1> QED BY <1>2, <1>3

LEMMA ViewPlain ==
  ASSUME NEW d, NEW j, \A q \in Writers : ~Incomplete(j, q), NEW f
  PROVE  View(d, j, f) = d[f]
  BY DEF View

\* A step after which a recovery would give the same files.
SameFiles == \A f \in Files : Recovered(f)' = Recovered(f)

\* A step that changes neither files nor journals.
LEMMA SameView ==
  ASSUME UNCHANGED <<disk, journal>>, NEW f
  PROVE  Recovered(f)' = Recovered(f)
  BY DEF Recovered, Unfinished

-----------------------------------------------------------------------------
(* Updates of `work`.                                                      *)

\* p moves on to pc; what it carries along stays.
Moved(p, pc, new, left, of) ==
  /\ work' \in [Writers -> Work]
  /\ \A q \in Writers : q # p => work'[q] = work[q]
  /\ work'[p].pc = pc /\ work'[p].new = new /\ work'[p].left = left /\ work'[p].of = of
  /\ work'[p].kind = work[p].kind /\ work'[p].entry = work[p].entry
  /\ work'[p].base = work[p].base

LEMMA GotoMoves ==
  ASSUME ApplyTypeOK, NEW p \in Writers, NEW pc \in Pc, Goto(p, pc)
  PROVE  Moved(p, pc, work[p].new, work[p].left, work[p].of)
  BY DEF ApplyTypeOK, Goto, Moved, Work

LEMMA LeftMoves ==
  ASSUME ApplyTypeOK, NEW p \in Writers, NEW left \in SUBSET Files,
         work' = [work EXCEPT ![p].left = left]
  PROVE  Moved(p, work[p].pc, work[p].new, left, work[p].of)
  BY DEF ApplyTypeOK, Moved, Work

LEMMA ProcessMoves ==
  ASSUME ApplyTypeOK, NEW p \in Writers, NEW pc \in Pc, NEW left \in SUBSET Files,
         Process(p, pc, left)
  PROVE  Moved(p, pc, work[p].new, left, work[p].of)
<1> DEFINE w == [work[p] EXCEPT !.pc = pc, !.left = left]
<1>1. work[p] \in Work /\ work \in [Writers -> Work]
  BY DEF ApplyTypeOK
<1>2. w \in Work /\ w.pc = pc /\ w.left = left /\ w.new = work[p].new /\ w.of = work[p].of
      /\ w.kind = work[p].kind /\ w.entry = work[p].entry /\ w.base = work[p].base
  BY <1>1 DEF Work
<1>3. work' = [work EXCEPT ![p] = w]
  BY DEF Process
<1> HIDE DEF w
<1> QED BY <1>1, <1>2, <1>3 DEF Moved

Restores(p, q, left) ==
  work' = [work EXCEPT ![p].pc = "restore", ![p].of = q, ![p].left = left]

LEMMA RecoverMoves ==
  ASSUME ApplyTypeOK, NEW p \in Writers, NEW q \in Writers, NEW left \in SUBSET Files,
         Restores(p, q, left)
  PROVE  Moved(p, "restore", work[p].new, left, q)
<1> DEFINE w == [work[p] EXCEPT !.pc = "restore", !.of = q, !.left = left]
<1>1. work[p] \in Work /\ work \in [Writers -> Work] /\ "restore" \in Pc
  BY DEF ApplyTypeOK, Pc
<1>2. w \in Work /\ w.pc = "restore" /\ w.left = left /\ w.new = work[p].new /\ w.of = q
      /\ w.kind = work[p].kind /\ w.entry = work[p].entry /\ w.base = work[p].base
  BY <1>1 DEF Work
<1>3. work' = [work EXCEPT ![p] = w]
  BY DEF Restores
<1> HIDE DEF w
<1> QED BY <1>1, <1>2, <1>3 DEF Moved

LEMMA PlannedMoves ==
  ASSUME ApplyTypeOK, NEW p \in Writers, NEW new \in Disk, NEW files \in SUBSET Files,
         Planned(p, new, files)
  PROVE  Moved(p, "prepare", new, files, p)
<1> DEFINE w == [work[p] EXCEPT !.pc = "prepare", !.new = new, !.left = files, !.of = p]
<1>1. work[p] \in Work /\ work \in [Writers -> Work] /\ "prepare" \in Pc
  BY DEF ApplyTypeOK, Pc
<1>2. w \in Work /\ w.pc = "prepare" /\ w.left = files /\ w.new = new /\ w.of = p
      /\ w.kind = work[p].kind /\ w.entry = work[p].entry /\ w.base = work[p].base
  BY <1>1 DEF Work
<1>3. work' = [work EXCEPT ![p] = w]
  BY DEF Planned
<1> HIDE DEF w
<1> QED BY <1>1, <1>2, <1>3 DEF Moved

LEMMA NoWorkType ==
  ASSUME NEW p \in Writers
  PROVE  /\ NoWork(p) \in Work
         /\ NoWork(p).pc = "idle" /\ NoWork(p).kind = "recover" /\ NoWork(p).entry = {}
<1>1. NoLog \in Log
  BY ApplyAssumption DEF NoLog, Log
<1>2. NoState \in State
  BY <1>1 DEF NoState, State
<1>3. NoFiles \in Disk
  BY <1>1, <1>2 DEF NoFiles, Disk
<1> QED BY <1>3 DEF NoWork, Work, Pc

-----------------------------------------------------------------------------
(* Frames: what has to be shown of a step.                                 *)

\* A step of p without the lock: only its own work changes.
LEMMA OutsideFrame ==
  ASSUME AInv, NEW p \in Writers, lock # p, UNCHANGED <<disk, journal, lock, acked>>,
         ApplyTypeOK', Local(p)', ~In(p, Section)',
         \A q \in Writers : q # p => work'[q] = work[q]
  PROVE  AInv'
<1>1. Mutex'
  BY DEF AInv, Mutex, In
<1>2. ASSUME NEW q \in Writers PROVE Local(q)'
  BY DEF AInv, Local, In
<1>3. ASSUME NEW q \in Writers, lock' = q PROVE Knows(q)'
  <2>1. q # p /\ work'[q] = work[q] /\ Knows(q)
    BY <1>3 DEF AInv
  <2>2. (Restored(q) <=> Restored(q)') /\ (\A r \in Writers : Published(r)' <=> Published(r))
    BY <2>1 DEF Restored, Published
  <2>3. work[q].of \in Writers
    BY DEF AInv, ApplyTypeOK, Work
  <2> QED BY <2>1, <2>2, <2>3 DEF Knows, In, Extends
<1>4. OneJournal' /\ AckedIsWritten'
  BY SameView DEF AInv, OneJournal, Published, AckedIsWritten
<1> QED BY <1>1, <1>2, <1>3, <1>4 DEF AInv

\* A step of the holder of the lock that keeps it.
LEMMA SectionFrame ==
  ASSUME AInv, NEW p \in Writers, lock = p, UNCHANGED lock,
         NEW pc, NEW new, NEW left, NEW of, Moved(p, pc, new, left, of), pc \in Section,
         ApplyTypeOK', Knows(p)', OneJournal', AckedIsWritten'
  PROVE  AInv'
<1>1. Mutex'
  BY DEF AInv, Mutex, In, Moved
<1>2. ASSUME NEW q \in Writers PROVE Local(q)'
  <2>1. CASE q = p
    BY <2>1 DEF AInv, Local, In, Moved, Section
  <2>2. CASE q # p
    BY <2>2 DEF AInv, Local, In, Moved
  <2> QED BY <2>1, <2>2
<1> QED BY <1>1, <1>2 DEF AInv

\* A step of the holder of the lock that gives it back.
LEMMA LeaveFrame ==
  ASSUME AInv, NEW p \in Writers, lock = p, Leave(p),
         disk' \in Disk, journal' \in [Writers -> Journal \cup {NoJournal}],
         acked' \in SUBSET Captures, linted' \in BOOLEAN, faults' \in 0..MaxFaults,
         OneJournal', AckedIsWritten'
  PROVE  AInv'
<1>1. work' \in [Writers -> Work] /\ work'[p] = NoWork(p)
      /\ \A q \in Writers : q # p => work'[q] = work[q]
  BY NoWorkType DEF AInv, ApplyTypeOK, Leave
<1>2. ApplyTypeOK' /\ lock' = NoWriter
  BY <1>1 DEF Leave, ApplyTypeOK
<1>3. Mutex'
  <2>1. \A q \in Writers : ~In(q, Section)'
    BY <1>1, NoWorkType DEF AInv, Mutex, In, Section
  <2> QED BY <1>2, <2>1, ApplyAssumption DEF Mutex
<1>4. ASSUME NEW q \in Writers PROVE Local(q)'
  <2>1. CASE q = p
    BY <1>1, <2>1, NoWorkType DEF Local, In
  <2>2. CASE q # p
    BY <1>1, <2>2 DEF AInv, Local, In
  <2> QED BY <2>1, <2>2
<1> QED BY <1>2, <1>3, <1>4, ApplyAssumption DEF AInv

-----------------------------------------------------------------------------
(* Steps without the lock, and the way into it.                            *)

\* The steps of p that only change its own work.
LEMMA OwnWork ==
  ASSUME AInv, NEW p \in Writers, lock # p, UNCHANGED <<disk, journal, lock, acked, linted>>,
         faults' \in 0..MaxFaults, NEW w \in Work, work' = [work EXCEPT ![p] = w],
         w.pc \notin Section, Local(p)'
  PROVE  AInv'
<1>1. ApplyTypeOK' /\ work'[p] = w /\ \A q \in Writers : q # p => work'[q] = work[q]
  BY DEF AInv, ApplyTypeOK
<1>2. ~In(p, Section)'
  BY <1>1 DEF In
<1> QED BY <1>1, <1>2, OutsideFrame

LEMMA StartKeeps ==
  ASSUME AInv, NEW p \in Writers,
         (\E c \in Captures : StartAppend(p, c)) \/ StartRecovery(p) \/ StartCompile(p)
  PROVE  AInv'
<1>1. /\ work \in [Writers -> Work] /\ work[p] \in Work /\ work[p].pc = "idle" /\ disk \in Disk
      /\ Local(p) /\ faults \in 0..MaxFaults
  BY DEF AInv, ApplyTypeOK, StartAppend, StartRecovery, StartCompile, At
<1>2. lock # p
  BY <1>1 DEF AInv, Mutex, In, Section
<1>3. ASSUME NEW c \in Captures, StartAppend(p, c) PROVE AInv'
  <2> DEFINE w == [work[p] EXCEPT !.pc = "lock", !.kind = "append", !.entry = {c}]
  <2>1. w \in Work /\ w.pc = "lock" /\ w.kind = "append" /\ w.entry = {c}
    BY <1>1 DEF Work, Pc
  <2>2. work' = [work EXCEPT ![p] = w]
    BY <1>3 DEF StartAppend
  <2> HIDE DEF w
  <2>3. Local(p)'
    BY <1>1, <2>1, <2>2 DEF Local, In
  <2> QED BY <1>1, <1>2, <1>3, <2>1, <2>2, <2>3, OwnWork DEF StartAppend, Section
<1>4. CASE StartRecovery(p)
  <2> DEFINE w == [work[p] EXCEPT !.pc = "lock"]
  <2>1. w \in Work /\ w.pc = "lock" /\ w.kind = work[p].kind /\ w.entry = work[p].entry
        /\ w.base = work[p].base
    BY <1>1 DEF Work, Pc
  <2>2. work' = [work EXCEPT ![p] = w]
    BY <1>4 DEF StartRecovery, Goto
  <2> HIDE DEF w
  <2>3. Local(p)'
    BY <1>1, <2>1, <2>2 DEF Local, In
  <2> QED BY <1>1, <1>2, <1>4, <2>1, <2>2, <2>3, OwnWork DEF StartRecovery, Section
<1>5. CASE StartCompile(p)
  <2> DEFINE b == [work[p].base EXCEPT !.state = disk.state]
  <2> DEFINE w == [work[p] EXCEPT !.pc = "read", !.base = b]
  <2>1. b \in Disk
    BY <1>1 DEF Work, Disk
  <2>2. work' = [work EXCEPT ![p] = w]
    BY <1>5 DEF StartCompile
  <2> HIDE DEF b
  <2>3. w \in Work /\ w.pc = "read" /\ w.kind = work[p].kind /\ w.entry = work[p].entry
    BY <1>1, <2>1 DEF Work, Pc
  <2> HIDE DEF w
  <2>4. Local(p)'
    BY <1>1, <2>2, <2>3 DEF Local, In
  <2> QED BY <1>1, <1>2, <1>5, <2>2, <2>3, <2>4, OwnWork DEF StartCompile, Section
<1> QED BY <1>3, <1>4, <1>5

LEMMA ReadKeeps == ASSUME AInv, NEW p \in Writers, ReadLog(p) PROVE AInv'
<1>1. /\ work \in [Writers -> Work] /\ work[p] \in Work /\ work[p].pc = "read" /\ disk \in Disk
      /\ Local(p) /\ faults \in 0..MaxFaults
  BY DEF AInv, ApplyTypeOK, ReadLog, At
<1>2. lock # p
  BY <1>1 DEF AInv, Mutex, In, Section
<1>3. CASE work' = [work EXCEPT ![p] = NoWork(p)]
  <2>1. Local(p)'
    BY <1>1, <1>3, NoWorkType DEF Local, In
  <2> QED BY <1>1, <1>2, <1>3, <2>1, NoWorkType, OwnWork DEF ReadLog, Section
<1>4. CASE ~(disk.daily = NoLog \/ disk.daily.marks >= MaxMarks)
  <2> DEFINE b == [work[p].base EXCEPT !.daily = disk.daily]
  <2> DEFINE k == IF NothingNew(b) THEN "mark" ELSE "compile"
  <2> DEFINE c == IF NothingNew(b) THEN "lock" ELSE "stage"
  <2> DEFINE w == [work[p] EXCEPT !.base = b, !.pc = c, !.kind = k]
  <2>1. b \in Disk /\ b.daily = disk.daily /\ disk.daily.marks \in 0..MaxMarks
    BY <1>1 DEF Work, Disk, Log
  <2>2. b.daily.marks < MaxMarks
    BY <1>4, <2>1, ApplyAssumption
  <2>3. work' = [work EXCEPT ![p] = w]
    BY <1>4 DEF ReadLog
  <2>4. (k = "mark" => NothingNew(b)) /\ k \in {"mark", "compile"} /\ c \in {"lock", "stage"}
    OBVIOUS
  <2> HIDE DEF b, k, c
  <2>5. w \in Work /\ w.pc = c /\ w.kind = k /\ w.base = b /\ w.entry = work[p].entry
    BY <1>1, <2>1, <2>4 DEF Work, Pc
  <2> HIDE DEF w
  <2>6. Local(p)'
    <3>1. work'[p] = w /\ w.entry = {}
      BY <1>1, <2>3, <2>5 DEF Local, In
    <3> QED BY <2>2, <2>4, <2>5, <3>1 DEF Local, In
  <2> QED BY <1>1, <1>2, <2>3, <2>4, <2>5, <2>6, OwnWork DEF ReadLog, Section
<1> QED BY <1>3, <1>4 DEF ReadLog

LEMMA StageKeeps ==
  ASSUME AInv, NEW p \in Writers, CreateStage(p) \/ EditStage(p)
  PROVE  AInv'
<1>1. /\ work \in [Writers -> Work] /\ work[p] \in Work /\ work[p].pc \in {"stage", "edit"}
      /\ disk \in Disk /\ Local(p) /\ faults \in 0..MaxFaults
  BY DEF AInv, ApplyTypeOK, CreateStage, EditStage, At
<1>2. lock # p
  BY <1>1 DEF AInv, Mutex, In, Section
<1>4. CASE CreateStage(p)
  <2> DEFINE b == [work[p].base EXCEPT !.article = disk.article]
  <2> DEFINE w == [work[p] EXCEPT !.pc = "edit", !.base = b]
  <2>1. b \in Disk /\ b.daily = work[p].base.daily /\ b.state = work[p].base.state
    BY <1>1 DEF Work, Disk
  <2>2. work' = [work EXCEPT ![p] = w]
    BY <1>4 DEF CreateStage
  <2> HIDE DEF b
  <2>3. w \in Work /\ w.pc = "edit" /\ w.kind = work[p].kind /\ w.entry = work[p].entry
        /\ w.base = b
    BY <1>1, <2>1 DEF Work, Pc
  <2> HIDE DEF w
  <2>4. Local(p)'
    BY <1>1, <2>1, <2>2, <2>3 DEF Local, In, NothingNew
  <2> QED BY <1>1, <1>2, <1>4, <2>2, <2>3, <2>4, OwnWork DEF CreateStage, Section
<1>5. CASE EditStage(p) /\ Goto(p, "lock")
  <2> DEFINE w == [work[p] EXCEPT !.pc = "lock"]
  <2>1. w \in Work /\ w.pc = "lock" /\ w.kind = work[p].kind /\ w.entry = work[p].entry
        /\ w.base = work[p].base
    BY <1>1 DEF Work, Pc
  <2>2. work' = [work EXCEPT ![p] = w]
    BY <1>5 DEF Goto
  <2> HIDE DEF w
  <2>3. Local(p)'
    BY <1>1, <2>1, <2>2 DEF Local, In
  <2> QED BY <1>1, <1>2, <1>5, <2>1, <2>2, <2>3, OwnWork DEF EditStage, Section
<1>6. CASE EditStage(p) /\ work' = [work EXCEPT ![p] = NoWork(p)]
  <2>1. Local(p)'
    BY <1>1, <1>6, NoWorkType DEF Local, In
  <2> QED BY <1>1, <1>2, <1>6, <2>1, NoWorkType, OwnWork DEF EditStage, Section
<1> QED BY <1>4, <1>5, <1>6 DEF EditStage

LEMMA AcquireKeeps == ASSUME AInv, NEW p \in Writers, Acquire(p) PROVE AInv'
<1>1. Moved(p, "recover", work[p].new, work[p].left, work[p].of)
  BY GotoMoves DEF AInv, Acquire, Pc
<1>2. ApplyTypeOK'
  BY <1>1 DEF AInv, ApplyTypeOK, Acquire, Moved
<1>3. Mutex'
  <2>1. \A q \in Writers : ~In(q, Section)
    BY ApplyAssumption DEF AInv, Mutex, Acquire
  <2> QED BY <1>1, <2>1 DEF Acquire, Mutex, In, Moved, Section
<1>4. ASSUME NEW q \in Writers PROVE Local(q)'
  <2>1. CASE q = p
    BY <1>1, <2>1 DEF AInv, Local, In, Moved
  <2>2. CASE q # p
    BY <1>1, <2>2 DEF AInv, Local, In, Moved
  <2> QED BY <2>1, <2>2
<1>5. Knows(p)' /\ lock' = p
  BY <1>1 DEF Acquire, Knows, In, Moved, Applying
<1>6. OneJournal' /\ AckedIsWritten'
  BY SameView DEF AInv, Acquire, OneJournal, Published, AckedIsWritten
<1> QED BY <1>2, <1>3, <1>4, <1>5, <1>6 DEF AInv

LEMMA UpdateKeeps == ASSUME AInv, NEW p \in Writers, UpdateState(p) PROVE AInv'
<1>1. disk \in Disk /\ UNCHANGED <<journal, lock, work, acked, faults>> /\ lock = NoWriter
      /\ linted' = TRUE /\ disk' = [disk EXCEPT !.state.linted = TRUE]
  BY DEF AInv, ApplyTypeOK, UpdateState
<1>2. disk' \in Disk /\ disk'["daily"] = disk["daily"]
  BY <1>1 DEF Disk, State
<1>3. ApplyTypeOK' /\ Mutex' /\ OneJournal'
  BY <1>1, <1>2 DEF AInv, ApplyTypeOK, Mutex, In, OneJournal, Published
<1>4. \A q \in Writers : Local(q)' /\ lock' # q
  BY <1>1, ApplyAssumption DEF AInv, Local, In
<1>5. AckedIsWritten'
  BY <1>1, <1>2 DEF AInv, AckedIsWritten, Recovered, Unfinished
<1> QED BY <1>3, <1>4, <1>5 DEF AInv

LEMMA CrashKeeps == ASSUME AInv, NEW p \in Writers, Crash(p) PROVE AInv'
<1>1. faults' \in 0..MaxFaults /\ UNCHANGED <<disk, journal, acked, linted>>
      /\ work' = [work EXCEPT ![p] = NoWork(p)] /\ work \in [Writers -> Work]
  BY ApplyAssumption DEF AInv, ApplyTypeOK, Crash, Faulty
<1>2. CASE lock = p
  <2>1. Leave(p)
    BY <1>2 DEF Crash, Leave
  <2>2. OneJournal' /\ AckedIsWritten'
    BY <1>1, SameView DEF AInv, OneJournal, Published, AckedIsWritten
  <2> QED BY <1>1, <1>2, <2>1, <2>2, LeaveFrame DEF AInv, ApplyTypeOK
<1>3. CASE lock # p
  <2>1. Local(p)'
    BY <1>1, NoWorkType DEF Local, In
  <2> QED BY <1>1, <1>3, <2>1, NoWorkType, OwnWork DEF Crash, Section
<1> QED BY <1>2, <1>3

-----------------------------------------------------------------------------
(* Recovery.                                                               *)

LEMMA Inside ==
  ASSUME AInv, NEW p \in Writers, In(p, Section)
  PROVE  /\ lock = p /\ Knows(p) /\ Local(p) /\ ApplyTypeOK /\ work[p] \in Work
         /\ work[p].of \in Writers /\ work[p].left \in SUBSET Files /\ work[p].new \in Disk
         /\ work[p].entry \in SUBSET Captures
  BY DEF AInv, Mutex, ApplyTypeOK, Work

LEMMA JournalType ==
  ASSUME ApplyTypeOK, NEW q \in Writers, Published(q)
  PROVE  journal[q] \in Journal /\ journal[q].old \in Disk /\ journal[q].files \in SUBSET Files
  BY DEF ApplyTypeOK, Published, Journal

LEMMA RecoverJournalKeeps ==
  ASSUME AInv, NEW p \in Writers, NEW q \in Writers, RecoverJournal(p, q)
  PROVE  AInv'
<1> DEFINE left == IF journal[q].state = "complete" THEN {} ELSE journal[q].files
<1>1. lock = p /\ ApplyTypeOK /\ Published(q)
  BY Inside DEF RecoverJournal, At, In, Section
<1>2. left \in SUBSET Files /\ left \subseteq journal[q].files
      /\ (journal[q].state = "complete" => left = {})
      /\ (journal[q].state # "complete" => left = journal[q].files)
  BY <1>1, JournalType
<1>3. Restores(p, q, left)
  BY DEF RecoverJournal, Restores
<1> HIDE DEF left
<1>4. Moved(p, "restore", work[p].new, left, q)
  BY <1>1, <1>2, <1>3, RecoverMoves
<1>5. UNCHANGED <<disk, journal, lock, acked, linted, faults>>
  BY DEF RecoverJournal
<1>6. ApplyTypeOK'
  BY <1>1, <1>4, <1>5 DEF ApplyTypeOK, Moved
<1>7. Knows(p)'
  <2>1. work'[p].pc = "restore" /\ work'[p].of = q /\ work'[p].left = left
    BY <1>4 DEF Moved
  <2> QED BY <1>1, <1>2, <1>5, <2>1 DEF Knows, In, Applying, Restored, Published
<1>8. OneJournal' /\ AckedIsWritten'
  BY <1>5, SameView DEF AInv, OneJournal, Published, AckedIsWritten
<1> QED BY <1>1, <1>4, <1>5, <1>6, <1>7, <1>8, SectionFrame DEF Section

\* Restoring one file of a journal leaves what a recovery gives as it is, or, of
\* a complete journal that is rolled back, the acknowledged entries in it.
LEMMA RestoredView ==
  ASSUME OneJournal, AckedIsWritten, UNCHANGED <<journal, acked>>, NEW q \in Writers,
         Published(q), NEW f \in Files, f \in journal[q].files,
         \A g \in Files : disk'[g] = IF g = f THEN journal[q].old[g] ELSE disk[g],
         journal[q].state = "complete" => acked \subseteq Entries(journal[q].old["daily"])
  PROVE  AckedIsWritten' /\ (Incomplete(journal, q) => SameFiles)
<1>1. Single(journal) /\ Single(journal') /\ "daily" \in Files
  BY RecoveredIsView DEF Files
<1>2. CASE Incomplete(journal, q)
  <2>1. \A g \in Files : View(disk', journal', g) = View(disk, journal, g)
    BY <1>1, <1>2, ViewBy
  <2>2. SameFiles
    BY <2>1, RecoveredIsView DEF SameFiles
  <2>3. Recovered("daily")' = Recovered("daily")
    BY <1>1, <2>2 DEF SameFiles
  <2>4. AckedIsWritten'
    BY <2>3 DEF AckedIsWritten
  <2> QED BY <2>2, <2>4
<1>3. CASE ~Incomplete(journal, q)
  <2>1. \A r \in Writers : ~Incomplete(journal, r)
    BY <1>1, <1>3 DEF Single, Incomplete, Published
  <2>2. View(disk', journal', "daily") = disk'["daily"] /\ View(disk, journal, "daily") = disk["daily"]
    BY <2>1, ViewPlain
  <2>3. acked \subseteq Entries(disk'["daily"])
    BY <1>1, <1>3, <2>2, RecoveredIsView DEF AckedIsWritten, Incomplete, Published
  <2>4. AckedIsWritten'
    BY <2>2, <2>3, RecoveredIsView DEF AckedIsWritten
  <2> QED BY <1>3, <2>4
<1> QED BY <1>2, <1>3

LEMMA RestoreKeeps ==
  ASSUME AInv, NEW p \in Writers, Restore(p)
  PROVE  AInv' /\ (Incomplete(journal, work[p].of) => SameFiles)
<1>1. In(p, {"restore", "rollback"}) /\ work[p].left # {}
      /\ UNCHANGED <<journal, lock, acked, linted, faults>>
  BY DEF Restore, At, In
<1>2. lock = p /\ Knows(p) /\ ApplyTypeOK /\ work[p].of \in Writers
      /\ work[p].left \in SUBSET Files /\ disk \in Disk
  BY <1>1, Inside DEF In, Section, ApplyTypeOK
<1>3. PICK q \in Writers : q = work[p].of
  BY <1>2
<1>4. PICK f \in Files : f = LastOf(work[p].left) /\ f \in work[p].left
  BY <1>1, <1>2, OrderedFiles
<1>5. PICK left \in SUBSET Files : left = work[p].left \ {f}
  BY <1>2
<1>6. Published(q) /\ f \in journal[q].files
  BY <1>1, <1>2, <1>3, <1>4 DEF Knows, In, Applying
<1>7. journal[q].old \in Disk /\ journal[q].files \subseteq Files
  BY <1>2, <1>6, JournalType
<1>8. disk' \in Disk /\ \A g \in Files : disk'[g] = IF g = f THEN journal[q].old[g] ELSE disk[g]
  <2>1. disk' = [disk EXCEPT ![f] = journal[q].old[f]]
    BY <1>3, <1>4 DEF Restore
  <2>2. /\ [disk EXCEPT ![f] = journal[q].old[f]] \in Disk
        /\ \A g \in Files : [disk EXCEPT ![f] = journal[q].old[f]][g] =
                              IF g = f THEN journal[q].old[g] ELSE disk[g]
    BY <1>2, <1>7, ReplacedFile
  <2> QED BY <2>1, <2>2
<1>9. Moved(p, work[p].pc, work[p].new, left, q)
  <2>1. work' = [work EXCEPT ![p].left = left]
    BY <1>4, <1>5 DEF Restore
  <2> QED BY <1>2, <1>3, <2>1, LeftMoves
<1>10. ApplyTypeOK'
  BY <1>1, <1>2, <1>8, <1>9 DEF ApplyTypeOK, Moved
<1>11. OneJournal'
  BY <1>1 DEF AInv, OneJournal, Published
<1>12. work'[p].pc = work[p].pc /\ work'[p].of = q /\ work'[p].left = left
       /\ work'[p].entry = work[p].entry /\ work'[p].new = work[p].new
  BY <1>9 DEF Moved
<1>13. Restored(p)'
  <2>1. Restored(p)
    BY <1>1, <1>2, <1>4 DEF Knows, In
  <2>2. ASSUME NEW g \in journal[q].files \ left PROVE disk'[g] = journal[q].old[g]
    BY <1>3, <1>5, <1>7, <1>8, <2>1, <2>2 DEF Restored
  <2> QED BY <1>1, <1>12, <2>2 DEF Restored
<1>14. Knows(p)'
  BY <1>1, <1>2, <1>3, <1>4, <1>5, <1>12, <1>13 DEF Knows, In, Applying, Published
<1>15. AckedIsWritten' /\ (Incomplete(journal, q) => SameFiles)
  <2>1. journal[q].state = "complete" => acked \subseteq Entries(journal[q].old["daily"])
    BY <1>1, <1>2, <1>3, <1>4 DEF Knows, In, Applying
  <2> QED BY <1>1, <1>6, <1>8, <2>1, RestoredView DEF AInv
<1>16. work[p].pc \in Section
  BY <1>1 DEF In, Section
<1> QED BY <1>1, <1>2, <1>3, <1>9, <1>10, <1>11, <1>14, <1>15, <1>16, SectionFrame

\* A journal is removed when what it kept is in place, or it is complete.
LEMMA DroppedView ==
  ASSUME OneJournal, UNCHANGED disk, NEW q \in Writers, Published(q), Drop(q),
         journal \in [Writers -> Journal \cup {NoJournal}],
         Incomplete(journal, q) => \A f \in journal[q].files : disk[f] = journal[q].old[f], NEW f
  PROVE  /\ Recovered(f)' = Recovered(f) /\ OneJournal'
         /\ \A r \in Writers : ~Published(r)'
         /\ journal' \in [Writers -> Journal \cup {NoJournal}]
<1>1. \A r \in Writers : journal'[r] = NoJournal
  BY DEF Drop, OneJournal, Published
<1>2. View(disk', journal', f) = disk[f]
  BY <1>1, ViewPlain DEF Incomplete
<1>3. View(disk, journal, f) = disk[f]
  <2>1. CASE Incomplete(journal, q)
    BY <2>1, ViewBy, RecoveredIsView
  <2>2. CASE ~Incomplete(journal, q)
    <3>1. \A r \in Writers : ~Incomplete(journal, r)
      BY <2>2 DEF OneJournal, Published, Incomplete
    <3> QED BY <3>1, ViewPlain
  <2> QED BY <2>1, <2>2
<1>4. Recovered(f)' = Recovered(f)
  BY <1>2, <1>3, RecoveredIsView
<1> QED BY <1>1, <1>4 DEF OneJournal, Published, Drop

LEMMA RecoverDropKeeps == ASSUME AInv, NEW p \in Writers, RecoverDrop(p) PROVE AInv'
<1>1. In(p, {"restore"}) /\ work[p].left = {} /\ UNCHANGED <<disk, lock, acked, linted, faults>>
      /\ Drop(work[p].of) /\ Goto(p, "recover")
  BY DEF RecoverDrop, At, In
<1>2. lock = p /\ Knows(p) /\ ApplyTypeOK /\ work[p].of \in Writers
  BY <1>1, Inside DEF In, Section
<1>3. Published(work[p].of)
      /\ (Incomplete(journal, work[p].of) =>
            \A f \in journal[work[p].of].files : disk[f] = journal[work[p].of].old[f])
  BY <1>1, <1>2 DEF Knows, In, Restored, Incomplete
<1>4. /\ Recovered("daily")' = Recovered("daily") /\ OneJournal'
      /\ journal' \in [Writers -> Journal \cup {NoJournal}]
  BY <1>1, <1>2, <1>3, DroppedView DEF AInv, ApplyTypeOK
<1>5. Moved(p, "recover", work[p].new, work[p].left, work[p].of)
  BY <1>1, <1>2, GotoMoves DEF Pc
<1>6. ApplyTypeOK' /\ AckedIsWritten'
  BY <1>1, <1>2, <1>4, <1>5 DEF AInv, ApplyTypeOK, Moved, AckedIsWritten
<1>7. Knows(p)'
  BY <1>5 DEF Moved, Knows, In, Applying
<1> QED BY <1>1, <1>2, <1>4, <1>5, <1>6, <1>7, SectionFrame DEF Section

LEMMA RecoveryEndsKeeps == ASSUME AInv, NEW p \in Writers, RecoveryEnds(p) PROVE AInv'
<1>1. In(p, {"recover"}) /\ (\A q \in Writers : ~Published(q))
      /\ UNCHANGED <<disk, journal, acked, linted, faults>>
  BY DEF RecoveryEnds, At, In
<1>2. lock = p /\ ApplyTypeOK
  BY <1>1, Inside DEF In, Section
<1>3. OneJournal' /\ AckedIsWritten'
  BY <1>1, SameView DEF AInv, OneJournal, Published, AckedIsWritten
<1>4. CASE Leave(p)
  BY <1>1, <1>2, <1>3, <1>4, LeaveFrame DEF ApplyTypeOK
<1>5. CASE Goto(p, "check") /\ UNCHANGED lock
  <2>1. Moved(p, "check", work[p].new, work[p].left, work[p].of)
    BY <1>2, <1>5, GotoMoves DEF Pc
  <2>2. ApplyTypeOK'
    BY <1>1, <1>2, <1>5, <2>1 DEF ApplyTypeOK, Moved
  <2>3. Knows(p)'
    BY <1>1, <2>1 DEF Moved, Knows, In, Applying, Published
  <2> QED BY <1>2, <1>3, <1>5, <2>1, <2>2, <2>3, SectionFrame DEF Section
<1> QED BY <1>4, <1>5 DEF RecoveryEnds

-----------------------------------------------------------------------------
(* One apply.                                                              *)

\* Without a journal the files are what a recovery gives.
LEMMA NoJournalView ==
  ASSUME \A q \in Writers : ~Published(q), NEW f
  PROVE  Recovered(f) = disk[f]
  BY ViewPlain, RecoveredIsView DEF Incomplete, Published

LEMMA CheckAppendKeeps == ASSUME AInv, NEW p \in Writers, CheckAppend(p) PROVE AInv'
<1>1. In(p, {"check"}) /\ UNCHANGED <<disk, journal, linted, faults>>
  BY DEF CheckAppend, At, In
<1>2. lock = p /\ ApplyTypeOK /\ work[p].entry \in SUBSET Captures
      /\ (\A q \in Writers : ~Published(q))
  BY <1>1, Inside DEF In, Section, Knows
<1>3. Recovered("daily")' = Recovered("daily") /\ Recovered("daily") = disk["daily"] /\ OneJournal'
  BY <1>1, <1>2, SameView, NoJournalView DEF AInv, OneJournal, Published
<1>4. CASE work[p].entry \subseteq Entries(disk.daily)
  <2>1. Leave(p) /\ acked' = acked \cup work[p].entry
    BY <1>4 DEF CheckAppend
  <2>2. acked' \in SUBSET Captures /\ AckedIsWritten'
    BY <1>2, <1>3, <1>4, <2>1 DEF AInv, AckedIsWritten, ApplyTypeOK
  <2> QED BY <1>1, <1>2, <1>3, <2>1, <2>2, LeaveFrame DEF ApplyTypeOK
<1>5. CASE ~(work[p].entry \subseteq Entries(disk.daily))
  <2> DEFINE log == [disk.daily EXCEPT !.new = disk.daily.new \cup work[p].entry]
  <2> DEFINE new == [disk EXCEPT !.daily = log]
  <2>1. Planned(p, new, {"daily"}) /\ UNCHANGED <<lock, acked>>
    BY <1>5 DEF CheckAppend
  <2>2. disk \in Disk /\ disk.daily \in Log
    BY <1>2 DEF ApplyTypeOK, Disk
  <2>3. log \in Log /\ Entries(log) = Entries(disk.daily) \cup work[p].entry
    BY <1>2, <2>2 DEF Log, Entries
  <2> HIDE DEF log
  <2>4. new \in Disk /\ new.daily = log
    BY <2>2, <2>3 DEF Disk
  <2> HIDE DEF new
  <2>5. Moved(p, "prepare", new, {"daily"}, p)
    BY <1>2, <2>1, <2>4, PlannedMoves DEF Files
  <2>6. ApplyTypeOK' /\ AckedIsWritten'
    BY <1>1, <1>2, <1>3, <2>1, <2>5 DEF AInv, ApplyTypeOK, AckedIsWritten, Moved
  <2>7. Knows(p)'
    <3>1. work'[p].pc = "prepare" /\ work'[p].left = {"daily"} /\ work'[p].new = new
          /\ work'[p].of = p
          /\ work'[p].entry = work[p].entry
      BY <2>5 DEF Moved
    <3>2. Extends(p, disk.daily)'
      BY <1>1, <2>3, <2>4, <3>1 DEF Extends
    <3> QED BY <1>1, <1>2, <3>1, <3>2 DEF Knows, In, Applying, Published
  <2> QED BY <1>2, <1>3, <2>1, <2>5, <2>6, <2>7, SectionFrame DEF Section
<1> QED BY <1>4, <1>5

LEMMA CheckCompileKeeps == ASSUME AInv, NEW p \in Writers, CheckCompile(p) PROVE AInv'
<1>1. In(p, {"check"}) /\ work[p].kind \in {"compile", "mark"}
      /\ UNCHANGED <<disk, journal, acked, linted, faults>>
  BY DEF CheckCompile, At, In
<1>2. lock = p /\ ApplyTypeOK /\ work[p] \in Work /\ Local(p)
      /\ (\A q \in Writers : ~Published(q))
  BY <1>1, Inside DEF In, Section, Knows
<1>3. OneJournal' /\ AckedIsWritten'
  BY <1>1, SameView DEF AInv, OneJournal, Published, AckedIsWritten
<1>4. CASE ~BaselinesHold(p)
  <2>1. Leave(p)
    BY <1>4 DEF CheckCompile
  <2> QED BY <1>1, <1>2, <1>3, <2>1, LeaveFrame DEF ApplyTypeOK
<1>5. CASE BaselinesHold(p)
  <2> DEFINE log == Marked(disk.daily)
  <2> DEFINE art == work[p].base.article \cup work[p].base.daily.new
  <2> DEFINE st == [work[p].base.state EXCEPT !.of = log]
  <2> DEFINE new == [daily |-> log, article |-> art, state |-> st]
  <2> DEFINE files == IF work[p].kind = "compile" THEN Files ELSE {"daily", "state"}
  <2>1. Planned(p, new, files) /\ UNCHANGED lock
    BY <1>5 DEF CheckCompile
  <2>2. disk.daily \in Log /\ disk.daily.marks < MaxMarks /\ work[p].base \in Disk
    BY <1>1, <1>2, <1>5 DEF ApplyTypeOK, Disk, Work, Local, BaselinesHold
  <2>3. log \in Log /\ Entries(log) = Entries(disk.daily)
    BY <2>2, ApplyAssumption DEF Log, Marked, Entries
  <2> HIDE DEF log
  <2>4. art \in SUBSET Captures /\ st \in State
    BY <2>2, <2>3 DEF Disk, Log, State
  <2> HIDE DEF art, st
  <2>5. new \in Disk /\ new.daily = log
    BY <2>3, <2>4 DEF Disk
  <2> HIDE DEF new
  <2>6. files \in SUBSET Files /\ "daily" \in files
    BY DEF Files
  <2> HIDE DEF files
  <2>7. Moved(p, "prepare", new, files, p)
    BY <1>2, <2>1, <2>5, <2>6, PlannedMoves
  <2>8. ApplyTypeOK'
    BY <1>1, <1>2, <2>1, <2>7 DEF ApplyTypeOK, Moved
  <2>9. Knows(p)'
    <3>1. work'[p].pc = "prepare" /\ work'[p].left = files /\ work'[p].new = new
          /\ work'[p].of = p
          /\ work'[p].entry = {}
      BY <1>1, <1>2, <2>7 DEF Moved, Local
    <3>2. Extends(p, disk.daily)'
      BY <1>1, <2>3, <2>5, <3>1 DEF Extends
    <3> QED BY <1>1, <1>2, <2>6, <3>1, <3>2 DEF Knows, In, Applying, Published
  <2> QED BY <1>2, <1>3, <2>1, <2>7, <2>8, <2>9, SectionFrame DEF Section
<1> QED BY <1>4, <1>5

LEMMA PrepareKeeps ==
  ASSUME AInv, NEW p \in Writers, Prepare(p)
  PROVE  AInv' /\ SameFiles
<1> DEFINE j == [state |-> "prepared", old |-> disk, files |-> work[p].left]
<1>1. In(p, {"prepare"}) /\ UNCHANGED <<disk, lock, acked, linted, faults>>
      /\ Goto(p, "begin") /\ journal' = [journal EXCEPT ![p] = j]
  BY DEF Prepare, At, In
<1>2. /\ lock = p /\ ApplyTypeOK /\ work[p].left \in SUBSET Files /\ disk \in Disk
      /\ journal \in [Writers -> Journal \cup {NoJournal}]
      /\ (\A q \in Writers : ~Published(q)) /\ "daily" \in work[p].left /\ Extends(p, disk.daily)
      /\ work[p].of = p
  BY <1>1, Inside DEF In, Section, Knows, ApplyTypeOK
<1>3. j \in Journal /\ j # NoJournal /\ j.state = "prepared" /\ j.old = disk
      /\ j.files = work[p].left
  BY <1>2 DEF Journal, NoJournal
<1> HIDE DEF j
<1>4. /\ journal' \in [Writers -> Journal \cup {NoJournal}] /\ journal'[p] = j
      /\ \A q \in Writers : q # p => journal'[q] = NoJournal
  BY <1>1, <1>2, <1>3 DEF Published
<1>5. Single(journal') /\ Incomplete(journal', p)
  BY <1>3, <1>4 DEF Single, Incomplete
<1>6. SameFiles
  <2> SUFFICES ASSUME NEW f \in Files PROVE Recovered(f)' = Recovered(f)
    BY DEF SameFiles
  <2>1. View(disk', journal', f) =
          IF f \in journal'[p].files THEN journal'[p].old[f] ELSE disk'[f]
    BY <1>5, ViewBy
  <2>2. Recovered(f)' = disk[f]
    BY <1>1, <1>3, <1>4, <2>1, RecoveredIsView
  <2> QED BY <1>2, <2>2, NoJournalView
<1>7. Moved(p, "begin", work[p].new, work[p].left, work[p].of)
  BY <1>1, <1>2, GotoMoves DEF Pc
<1>8. ApplyTypeOK' /\ OneJournal' /\ AckedIsWritten'
  BY <1>1, <1>2, <1>4, <1>5, <1>6, <1>7, RecoveredIsView
     DEF AInv, ApplyTypeOK, Moved, AckedIsWritten, SameFiles, Files
<1>9. acked \subseteq Entries(disk.daily)
  BY <1>2, NoJournalView DEF AInv, AckedIsWritten
<1>10. Knows(p)'
  <2>1. work'[p].pc = "begin" /\ work'[p].left = work[p].left /\ work'[p].new = work[p].new
        /\ work'[p].entry = work[p].entry /\ work'[p].of = p
    BY <1>2, <1>7 DEF Moved
  <2>2. Extends(p, journal[p].old.daily)'
    BY <1>2, <1>3, <1>4, <2>1 DEF Extends
  <2> QED BY <1>1, <1>2, <1>3, <1>4, <1>9, <2>1, <2>2 DEF Knows, In, Applying, Published
<1> QED BY <1>1, <1>2, <1>6, <1>7, <1>8, <1>10, SectionFrame DEF Section

\* The steps of an apply once its journal exists.
LEMMA AppliesInside ==
  ASSUME AInv, NEW p \in Writers, In(p, Applying)
  PROVE  /\ lock = p /\ Knows(p) /\ ApplyTypeOK /\ Published(p) /\ work[p].of = p
         /\ work[p].left \in SUBSET Files /\ work[p].new \in Disk /\ work[p].entry \in SUBSET Captures
         /\ disk \in Disk /\ journal[p] \in Journal /\ journal[p].files \in SUBSET Files
         /\ journal[p].old \in Disk
         /\ journal \in [Writers -> Journal \cup {NoJournal}]
         /\ (\A q \in Writers : q # p => journal[q] = NoJournal)
<1>1. lock = p /\ Knows(p) /\ ApplyTypeOK /\ work[p].left \in SUBSET Files /\ work[p].new \in Disk
      /\ work[p].entry \in SUBSET Captures
  BY Inside DEF In, Section, Applying
<1>2. Published(p) /\ work[p].of = p
  BY <1>1 DEF Knows
<1>3. \A q \in Writers : q # p => journal[q] = NoJournal
  BY <1>2 DEF AInv, OneJournal, Published
<1> QED BY <1>1, <1>2, <1>3, JournalType DEF ApplyTypeOK

\* A change of the journal's state, by its publisher.
LEMMA StateChanged ==
  ASSUME AInv, NEW p \in Writers, In(p, Applying), UNCHANGED disk,
         NEW s \in {"applying", "complete"}, JournalState(p, s), journal[p].state # "complete"
  PROVE  /\ journal' \in [Writers -> Journal \cup {NoJournal}] /\ OneJournal'
         /\ Published(p)' /\ journal'[p].state = s /\ journal'[p].old = journal[p].old
         /\ journal'[p].files = journal[p].files
         /\ \A f : Recovered(f) = IF f \in journal[p].files THEN journal[p].old[f] ELSE disk[f]
         /\ \A f : Recovered(f)' = IF s = "complete" THEN disk[f] ELSE Recovered(f)
<1> DEFINE j == [journal[p] EXCEPT !.state = s]
<1>1. /\ journal[p] \in Journal /\ Published(p) /\ journal \in [Writers -> Journal \cup {NoJournal}]
      /\ (\A q \in Writers : q # p => journal[q] = NoJournal)
  BY AppliesInside
<1>2. j \in Journal /\ j # NoJournal /\ j.state = s /\ j.old = journal[p].old
      /\ j.files = journal[p].files
  BY <1>1 DEF Journal, NoJournal
<1>3. journal' = [journal EXCEPT ![p] = j]
  BY DEF JournalState
<1> HIDE DEF j
<1>4. /\ journal' \in [Writers -> Journal \cup {NoJournal}] /\ journal'[p] = j
      /\ \A q \in Writers : q # p => journal'[q] = NoJournal
  BY <1>1, <1>2, <1>3
<1>5. Single(journal) /\ Single(journal') /\ Incomplete(journal, p)
  BY <1>1, <1>4 DEF Single, Incomplete, Published
<1>6. ASSUME NEW f
      PROVE  Recovered(f) = IF f \in journal[p].files THEN journal[p].old[f] ELSE disk[f]
  BY <1>5, ViewBy, RecoveredIsView
<1>7. ASSUME NEW f
      PROVE  Recovered(f)' = IF s = "complete" THEN disk[f] ELSE Recovered(f)
  <2>1. CASE s = "complete"
    <3>1. \A q \in Writers : ~Incomplete(journal', q)
      BY <1>2, <1>4, <2>1 DEF Incomplete
    <3>2. View(disk', journal', f) = disk'[f]
      BY <3>1, ViewPlain
    <3> QED BY <2>1, <3>2, RecoveredIsView
  <2>2. CASE s # "complete"
    <3>1. Incomplete(journal', p)
      BY <1>2, <1>4, <2>2 DEF Incomplete
    <3>2. View(disk', journal', f) =
            IF f \in journal'[p].files THEN journal'[p].old[f] ELSE disk'[f]
      BY <1>5, <3>1, ViewBy
    <3> QED BY <1>2, <1>4, <1>6, <2>2, <3>2, RecoveredIsView
  <2> QED BY <2>1, <2>2
<1> QED BY <1>2, <1>4, <1>5, <1>6, <1>7, RecoveredIsView DEF Published

LEMMA BeginApplyKeeps == ASSUME AInv, NEW p \in Writers, BeginApply(p) PROVE AInv'
<1>1. In(p, {"begin"}) /\ In(p, Applying) /\ UNCHANGED <<disk, lock, acked, linted, faults>>
      /\ Goto(p, "replace") /\ JournalState(p, "applying")
  BY DEF BeginApply, At, In, Applying
<1>2. lock = p /\ Knows(p) /\ ApplyTypeOK /\ work[p].of = p /\ journal[p].state # "complete"
      /\ work[p].left = journal[p].files
  BY <1>1, AppliesInside DEF Knows, In
<1>3. /\ journal' \in [Writers -> Journal \cup {NoJournal}] /\ OneJournal'
      /\ Published(p)' /\ journal'[p].state = "applying" /\ journal'[p].old = journal[p].old
      /\ journal'[p].files = journal[p].files
      /\ Recovered("daily")' = Recovered("daily")
  BY <1>1, <1>2, StateChanged
<1>4. Moved(p, "replace", work[p].new, work[p].left, work[p].of)
  BY <1>1, <1>2, GotoMoves DEF Pc
<1>5. ApplyTypeOK' /\ AckedIsWritten'
  BY <1>1, <1>2, <1>3, <1>4 DEF AInv, ApplyTypeOK, Moved, AckedIsWritten
<1>6. Knows(p)'
  <2>1. work'[p].pc = "replace" /\ work'[p].left = work[p].left /\ work'[p].new = work[p].new
        /\ work'[p].entry = work[p].entry /\ work'[p].of = p
    BY <1>2, <1>4 DEF Moved
  <2> QED BY <1>1, <1>2, <1>3, <2>1 DEF Knows, In, Applying, Extends
<1> QED BY <1>1, <1>2, <1>3, <1>4, <1>5, <1>6, SectionFrame DEF Section

\* A file that the journal keeps may be replaced: recovery does not show it.
LEMMA ReplaceKeeps ==
  ASSUME AInv, NEW p \in Writers, Replace(p)
  PROVE  AInv' /\ SameFiles
<1>1. In(p, {"replace"}) /\ In(p, Applying) /\ work[p].left # {}
      /\ UNCHANGED <<journal, lock, acked, linted, faults>>
  BY DEF Replace, At, In, Applying
<1>2. /\ lock = p /\ Knows(p) /\ ApplyTypeOK /\ work[p].of = p /\ journal[p].state # "complete"
      /\ disk \in Disk /\ work[p].new \in Disk /\ work[p].left \in SUBSET Files /\ Published(p)
      /\ work[p].left \subseteq journal[p].files /\ journal[p].files \subseteq Files
  BY <1>1, AppliesInside DEF Knows, In
<1>3. PICK f \in Files : f = FirstOf(work[p].left) /\ f \in work[p].left
  BY <1>1, <1>2, OrderedFiles
<1>4. PICK left \in SUBSET Files : left = work[p].left \ {f}
  BY <1>2
<1>5. disk' \in Disk /\ \A g \in Files : disk'[g] = IF g = f THEN work[p].new[g] ELSE disk[g]
  <2>1. disk' = [disk EXCEPT ![f] = work[p].new[f]]
    BY <1>3 DEF Replace
  <2>2. /\ [disk EXCEPT ![f] = work[p].new[f]] \in Disk
        /\ \A g \in Files : [disk EXCEPT ![f] = work[p].new[f]][g] =
                              IF g = f THEN work[p].new[g] ELSE disk[g]
    BY <1>2, ReplacedFile
  <2> QED BY <2>1, <2>2
<1>6. Moved(p, work[p].pc, work[p].new, left, work[p].of)
  <2>1. work' = [work EXCEPT ![p].left = left]
    BY <1>3, <1>4 DEF Replace
  <2> QED BY <1>2, <2>1, LeftMoves
<1>7. ApplyTypeOK' /\ OneJournal'
  BY <1>1, <1>2, <1>5, <1>6 DEF AInv, ApplyTypeOK, Moved, OneJournal, Published
<1>8. AckedIsWritten' /\ SameFiles
  <2>1. Single(journal) /\ Single(journal') /\ Incomplete(journal, p) /\ journal' = journal
    BY <1>1, <1>2, <1>7, RecoveredIsView DEF AInv, Incomplete, Published
  <2>2. \A g \in Files : View(disk', journal', g) = View(disk, journal, g)
    BY <1>2, <1>3, <1>5, <2>1, ViewBy
  <2>3. SameFiles
    BY <2>2, RecoveredIsView DEF SameFiles
  <2> QED BY <1>1, <2>3 DEF AInv, AckedIsWritten, SameFiles, Files
<1>9. work'[p].pc = "replace" /\ work'[p].of = p /\ work'[p].left = left
      /\ work'[p].entry = work[p].entry /\ work'[p].new = work[p].new
  BY <1>1, <1>2, <1>6 DEF Moved, In
<1>10. \A g \in journal[p].files \ left : disk'[g] = work[p].new[g]
  <2>1. \A g \in journal[p].files \ work[p].left : disk[g] = work[p].new[g]
    BY <1>1, <1>2 DEF Knows
  <2> QED BY <1>2, <1>4, <1>5, <2>1
<1>11. Knows(p)'
  BY <1>1, <1>2, <1>4, <1>9, <1>10 DEF Knows, In, Applying, Published, Extends
<1> QED BY <1>1, <1>2, <1>6, <1>7, <1>8, <1>11, SectionFrame DEF Section, In

\* The apply takes effect when its journal is complete.
LEMMA CompleteApplyKeeps == ASSUME AInv, NEW p \in Writers, CompleteApply(p) PROVE AInv'
<1>1. In(p, {"replace"}) /\ In(p, Applying) /\ work[p].left = {}
      /\ UNCHANGED <<disk, lock, acked, linted, faults>>
      /\ Goto(p, "remove") /\ JournalState(p, "complete")
  BY DEF CompleteApply, At, In, Applying
<1>2. lock = p /\ Knows(p) /\ ApplyTypeOK /\ work[p].of = p /\ journal[p].state # "complete"
  BY <1>1, AppliesInside DEF Knows, In
<1>3. /\ journal' \in [Writers -> Journal \cup {NoJournal}] /\ OneJournal'
      /\ Published(p)' /\ journal'[p].state = "complete" /\ journal'[p].old = journal[p].old
      /\ journal'[p].files = journal[p].files
      /\ Recovered("daily")' = disk["daily"]
  BY <1>1, <1>2, StateChanged
<1>4. /\ disk["daily"] = work[p].new["daily"] /\ Extends(p, journal[p].old.daily)
      /\ acked \subseteq Entries(journal[p].old.daily)
  BY <1>1, <1>2 DEF Knows, In
<1>5. acked \cup work[p].entry \subseteq Entries(disk["daily"])
  BY <1>4 DEF Extends
<1>6. Moved(p, "remove", work[p].new, work[p].left, work[p].of)
  BY <1>1, <1>2, GotoMoves DEF Pc
<1>7. ApplyTypeOK' /\ AckedIsWritten'
  BY <1>1, <1>2, <1>3, <1>5, <1>6 DEF ApplyTypeOK, Moved, AckedIsWritten
<1>8. Knows(p)'
  <2>1. work'[p].pc = "remove" /\ work'[p].entry = work[p].entry /\ work'[p].of = p
    BY <1>2, <1>6 DEF Moved
  <2> QED BY <1>1, <1>2, <1>3, <1>4, <1>5, <2>1 DEF Knows, In, Applying
<1> QED BY <1>1, <1>2, <1>3, <1>6, <1>7, <1>8, SectionFrame DEF Section

LEMMA RemoveJournalKeeps == ASSUME AInv, NEW p \in Writers, RemoveJournal(p) PROVE AInv'
<1>1. In(p, {"remove"}) /\ In(p, Applying) /\ UNCHANGED <<disk, linted, faults>>
      /\ Drop(p) /\ Leave(p) /\ acked' = acked \cup work[p].entry
  BY DEF RemoveJournal, At, In, Applying
<1>2. /\ lock = p /\ ApplyTypeOK /\ Published(p) /\ journal[p].state = "complete"
      /\ work[p].entry \subseteq Entries(disk.daily) /\ work[p].entry \in SUBSET Captures
      /\ journal \in [Writers -> Journal \cup {NoJournal}]
      /\ (\A q \in Writers : q # p => journal[q] = NoJournal)
  BY <1>1, AppliesInside DEF Knows, In
<1>3. Recovered("daily") = disk["daily"]
  BY <1>2, ViewPlain, RecoveredIsView DEF Incomplete
<1>4. /\ Recovered("daily")' = Recovered("daily") /\ OneJournal'
      /\ journal' \in [Writers -> Journal \cup {NoJournal}]
  BY <1>1, <1>2, DroppedView DEF AInv, Incomplete
<1>5. acked' \in SUBSET Captures /\ AckedIsWritten'
  BY <1>1, <1>2, <1>3, <1>4 DEF AInv, AckedIsWritten, ApplyTypeOK
<1> QED BY <1>1, <1>2, <1>4, <1>5, LeaveFrame DEF ApplyTypeOK

LEMMA RollbackEndsKeeps == ASSUME AInv, NEW p \in Writers, RollbackEnds(p) PROVE AInv'
<1>1. In(p, {"rollback"}) /\ In(p, Applying) /\ UNCHANGED <<disk, acked, linted, faults>>
      /\ Drop(p) /\ Leave(p) /\ work[p].left = {}
  BY DEF RollbackEnds, At, In, Applying
<1>2. /\ lock = p /\ ApplyTypeOK /\ Published(p)
      /\ (\A f \in journal[p].files : disk[f] = journal[p].old[f])
      /\ journal \in [Writers -> Journal \cup {NoJournal}]
  BY <1>1, AppliesInside DEF Knows, In, Restored
<1>3. /\ Recovered("daily")' = Recovered("daily") /\ OneJournal'
      /\ journal' \in [Writers -> Journal \cup {NoJournal}]
  BY <1>1, <1>2, DroppedView DEF AInv
<1>4. AckedIsWritten'
  BY <1>1, <1>3 DEF AInv, AckedIsWritten
<1> QED BY <1>1, <1>2, <1>3, <1>4, LeaveFrame DEF ApplyTypeOK

-----------------------------------------------------------------------------
(* Failures, and the invariant.                                            *)

LEMMA ApplyFailsKeeps == ASSUME AInv, NEW p \in Writers, ApplyFails(p) PROVE AInv'
<1>1. In(p, {"begin", "replace", "remove"}) /\ In(p, Applying)
      /\ UNCHANGED <<disk, journal, lock, acked, linted>>
      /\ Faulty /\ Process(p, "rollback", journal[p].files)
  BY DEF ApplyFails, At, In, Applying
<1>2. /\ lock = p /\ ApplyTypeOK /\ Knows(p) /\ Published(p) /\ work[p].of = p
      /\ journal[p].files \in SUBSET Files
  BY <1>1, AppliesInside
<1>3. Moved(p, "rollback", work[p].new, journal[p].files, work[p].of)
  BY <1>1, <1>2, ProcessMoves DEF Pc
<1>4. faults' \in 0..MaxFaults
  BY <1>1, <1>2, ApplyAssumption DEF Faulty, ApplyTypeOK
<1>5. ApplyTypeOK' /\ OneJournal' /\ AckedIsWritten'
  BY <1>1, <1>2, <1>3, <1>4, SameView
     DEF AInv, ApplyTypeOK, Moved, OneJournal, Published, AckedIsWritten
<1>6. Knows(p)'
  <2>1. work'[p].pc = "rollback" /\ work'[p].left = journal[p].files /\ work'[p].of = p
    BY <1>2, <1>3 DEF Moved
  <2> QED BY <1>1, <1>2, <2>1 DEF Knows, In, Applying, Restored, Published
<1> QED BY <1>1, <1>2, <1>3, <1>5, <1>6, SectionFrame DEF Section

LEMMA OperationFailsKeeps == ASSUME AInv, NEW p \in Writers, OperationFails(p) PROVE AInv'
<1>1. In(p, {"prepare", "restore", "rollback"}) /\ UNCHANGED <<disk, journal, acked, linted>>
      /\ Leave(p) /\ Faulty
  BY DEF OperationFails, At, In
<1>2. lock = p /\ ApplyTypeOK
  BY <1>1, Inside DEF In, Section
<1>3. faults' \in 0..MaxFaults
  BY <1>1, <1>2, ApplyAssumption DEF Faulty, ApplyTypeOK
<1>4. OneJournal' /\ AckedIsWritten'
  BY <1>1, SameView DEF AInv, OneJournal, Published, AckedIsWritten
<1> QED BY <1>1, <1>2, <1>3, <1>4, LeaveFrame DEF ApplyTypeOK

LEMMA ApplyNext == ASSUME AInv, [Next]_vars PROVE AInv'
<1>1. ASSUME NEW p \in Writers, Outside(p) PROVE AInv'
  BY <1>1, StartKeeps, ReadKeeps, StageKeeps, AcquireKeeps, UpdateKeeps DEF Outside
<1>2. ASSUME NEW p \in Writers, Recovery(p) PROVE AInv'
  BY <1>2, RecoverJournalKeeps, RestoreKeeps, RecoverDropKeeps, RecoveryEndsKeeps DEF Recovery
<1>3. ASSUME NEW p \in Writers, Apply(p) PROVE AInv'
  BY <1>3, CheckAppendKeeps, CheckCompileKeeps, PrepareKeeps, BeginApplyKeeps, ReplaceKeeps,
     CompleteApplyKeeps, RemoveJournalKeeps, RollbackEndsKeeps DEF Apply
<1>4. ASSUME NEW p \in Writers, Failure(p) PROVE AInv'
  BY <1>4, ApplyFailsKeeps, OperationFailsKeeps, CrashKeeps DEF Failure
<1>5. CASE UNCHANGED vars
  BY <1>5 DEF vars, AInv, ApplyTypeOK, Mutex, In, Local, Knows, Published, Restored, Extends,
     OneJournal, AckedIsWritten, Recovered, Unfinished
<1> QED BY <1>1, <1>2, <1>3, <1>4, <1>5 DEF Next

LEMMA ApplyInit == Init => AInv
<1> SUFFICES ASSUME Init PROVE AInv
  OBVIOUS
<1>1. disk \in Disk
  <2>1. PICK old \in SUBSET Captures :
          LET log == [NoLog EXCEPT !.new = old] IN
          disk \in {[daily |-> log, article |-> {}, state |-> NoState],
                    [daily |-> log, article |-> old, state |-> [NoState EXCEPT !.of = log]]}
    BY DEF Init
  <2> DEFINE log == [NoLog EXCEPT !.new = old]
  <2>2. log \in Log /\ NoLog \in Log
    BY ApplyAssumption DEF NoLog, Log
  <2>3. disk \in {[daily |-> log, article |-> {}, state |-> NoState],
                  [daily |-> log, article |-> old, state |-> [NoState EXCEPT !.of = log]]}
    BY <2>1
  <2> HIDE DEF log
  <2>4. NoState \in State /\ [NoState EXCEPT !.of = log] \in State
    BY <2>2 DEF NoState, State
  <2> QED BY <2>2, <2>3, <2>4 DEF Disk
<1>2. ApplyTypeOK
  <2>1. work \in [Writers -> Work]
    BY NoWorkType DEF Init
  <2>2. journal \in [Writers -> Journal \cup {NoJournal}]
    BY DEF Init
  <2>3. 0 \in 0..MaxFaults
    BY ApplyAssumption
  <2> QED BY <1>1, <2>1, <2>2, <2>3 DEF Init, ApplyTypeOK
<1>3. \A p \in Writers : ~In(p, Section) /\ Local(p)
  BY NoWorkType DEF Init, In, Section, Local
<1>4. Mutex /\ \A p \in Writers : lock # p
  BY <1>3, ApplyAssumption DEF Init, Mutex
<1>5. OneJournal /\ AckedIsWritten
  BY DEF Init, OneJournal, Published, AckedIsWritten
<1> QED BY <1>2, <1>3, <1>4, <1>5 DEF AInv

\* The inductive invariant holds in every reachable state.
THEOREM ApplyInvariance == Spec => []AInv
<1>1. AInv /\ [Next]_vars => AInv'
  BY ApplyNext
<1> QED BY <1>1, ApplyInit, PTL DEF Spec

\* Type correctness of files, journals and writers.
THEOREM ApplyTypeCorrect == Spec => []ApplyTypeOK
<1>1. AInv => ApplyTypeOK
  BY DEF AInv
<1> QED BY <1>1, ApplyInvariance, PTL

\* There is never more than one journal, even when journals cannot be removed.
THEOREM OneJournalCorrect == Spec => []OneJournal
<1>1. AInv => OneJournal
  BY DEF AInv
<1> QED BY <1>1, ApplyInvariance, PTL

\* No crash, failure, recovery or compilation loses an entry whose append has
\* returned, even when journals cannot be removed.
THEOREM AckedCorrect == Spec => []AckedIsWritten
<1>1. AInv => AckedIsWritten
  BY DEF AInv
<1> QED BY <1>1, ApplyInvariance, PTL

-----------------------------------------------------------------------------
(* StagedApply implements KnowledgeBase, and keeps what a compilation must not *)
(* skip, as long as a journal can always be removed (the runs torn_apply and   *)
(* apply_unlink_fails show what happens otherwise).  The files of              *)
(* KnowledgeBase are those a recovery would give; they change in one step,     *)
(* CompleteApply, which turns the plan of the apply into the files.            *)

\* The files after a recovery.
Daily == Recovered("daily")
Article == Recovered("article")
Known == Recovered("state").of

\* What the next compilation may rely on.
Good ==
  /\ NothingSkipped /\ UpToDateIsCompiled
  /\ Entries(Known) \subseteq Entries(Daily)

PlanFiles(p) == IF work[p].pc = "prepare" THEN work[p].left ELSE journal[p].files

\* The plan of an apply is one step of KnowledgeBase away from the files.
PlanAppends(p) ==
  /\ work[p].kind = "append" /\ PlanFiles(p) = {"daily"}
  /\ \E c \in Captures \ Entries(Daily) :
       work[p].new.daily = [Daily EXCEPT !.new = Daily.new \cup {c}]

PlanCompiles(p) ==
  /\ "state" \in PlanFiles(p) /\ "daily" \in PlanFiles(p)
  /\ work[p].new.daily = Marked(Daily) /\ work[p].new.state.of = Marked(Daily)
  /\ IF "article" \in PlanFiles(p) THEN work[p].new.article = Article \cup Daily.new
                                   ELSE Daily.new \subseteq Article

Planning == {"prepare", "begin", "replace"}

Plans(p) ==
  /\ In(p, Planning) => PlanAppends(p) \/ PlanCompiles(p)
  /\ In(p, {"rollback"}) => journal[p].state # "complete"

\* The inductive invariant.
BInv ==
  /\ AInv /\ ~RemoveMayFail
  /\ Good
  /\ \A p \in Writers : lock = p => Plans(p)

SameKnowledge == Daily' = Daily /\ Article' = Article /\ Known' = Known

LEMMA SameFilesKnow == SameFiles => SameKnowledge
  BY DEF SameFiles, Files, SameKnowledge, Daily, Article, Known

LEMMA SameViewKnows == UNCHANGED <<disk, journal>> => SameKnowledge
  BY SameView DEF SameKnowledge, Daily, Article, Known

LEMMA ViewType ==
  ASSUME AInv
  PROVE  /\ \A f \in Files : \E d \in Disk : Recovered(f) = d[f]
         /\ Daily \in Log /\ Article \in SUBSET Captures /\ Known \in Log
<1>1. \A f \in Files : \E d \in Disk : Recovered(f) = d[f]
  <2> SUFFICES ASSUME NEW f \in Files PROVE \E d \in Disk : Recovered(f) = d[f]
    OBVIOUS
  <2>1. disk \in Disk /\ ApplyTypeOK /\ Single(journal)
    BY RecoveredIsView DEF AInv, ApplyTypeOK
  <2>2. ASSUME NEW q \in Writers, Incomplete(journal, q) PROVE \E d \in Disk : Recovered(f) = d[f]
    <3>1. journal[q].old \in Disk
      BY <2>1, <2>2, JournalType DEF Incomplete, Published
    <3>2. Recovered(f) = IF f \in journal[q].files THEN journal[q].old[f] ELSE disk[f]
      BY <2>1, <2>2, ViewBy, RecoveredIsView
    <3> QED BY <2>1, <3>1, <3>2
  <2>3. CASE \A q \in Writers : ~Incomplete(journal, q)
    BY <2>1, <2>3, ViewPlain, RecoveredIsView
  <2> QED BY <2>2, <2>3
<1>2. "daily" \in Files /\ "article" \in Files /\ "state" \in Files
  BY DEF Files
<1>3. Daily \in Log /\ Article \in SUBSET Captures /\ Recovered("state") \in State
  BY <1>1, <1>2 DEF Disk, Daily, Article
<1> QED BY <1>1, <1>3 DEF Known, State

-----------------------------------------------------------------------------
(* The abstract steps keep what a compilation relies on.                   *)

LEMMA AppendIsGood ==
  ASSUME Good, Daily \in Log, NEW c \in Captures, c \notin Entries(Daily),
         Daily' = [Daily EXCEPT !.new = Daily.new \cup {c}], UNCHANGED <<Article, Known>>
  PROVE  Good' /\ Promise!Append(c)
<1>1. Daily'.done = Daily.done /\ Daily'.new = Daily.new \cup {c}
  BY DEF Log
<1>2. Entries(Daily') = Entries(Daily) \cup {c}
  BY <1>1 DEF Entries
<1>3. Known' # Daily'
  BY <1>2 DEF Good
<1>4. Good'
  BY <1>1, <1>2, <1>3 DEF Good, NothingSkipped, UpToDateIsCompiled, Daily, Article, Known
<1>5. Promise!Append(c)
  BY DEF Promise!Append, Promise!Entries, Entries, Daily, Article, Known
<1> QED BY <1>4, <1>5

LEMMA CompileIsGood ==
  ASSUME Good, Daily \in Log, Article' = Article \cup Daily.new,
         Daily' = Marked(Daily), Known' = Marked(Daily)
  PROVE  Good' /\ Promise!Compile
<1>1. Entries(Daily') = Entries(Daily) /\ Daily'.done = Entries(Daily)
  BY DEF Marked, Entries
<1>2. Entries(Daily) \subseteq Article'
  BY DEF Good, NothingSkipped, Daily, Article, Entries
<1>3. Good'
  BY <1>1, <1>2 DEF Good, NothingSkipped, UpToDateIsCompiled, Daily, Article, Known
<1>4. Promise!Compile
  BY DEF Promise!Compile, Promise!Marked, Promise!Entries, Marked, Entries, Daily, Article, Known
<1> QED BY <1>3, <1>4

LEMMA SameIsGood ==
  ASSUME Good, SameKnowledge
  PROVE  Good' /\ UNCHANGED Promise!kbVars
  BY DEF Good, SameKnowledge, NothingSkipped, UpToDateIsCompiled, Daily, Article, Known,
     Promise!kbVars

-----------------------------------------------------------------------------
(* The steps of which a recovery does not see anything.                    *)

HolderPlans == \A q \in Writers : lock' = q => Plans(q)'
Invisible == SameKnowledge /\ HolderPlans

LEMMA OwnPlans ==
  ASSUME NEW p \in Writers, lock' = p \/ lock' = NoWriter, Plans(p)'
  PROVE  HolderPlans
  BY ApplyAssumption DEF HolderPlans

LEMMA NoPlans ==
  ASSUME NEW p \in Writers, ~In(p, Planning)', ~In(p, {"rollback"})'
  PROVE  Plans(p)'
  BY DEF Plans

LEMMA LeavePlans == ASSUME NEW p \in Writers, Leave(p) PROVE HolderPlans
  BY ApplyAssumption DEF Leave, HolderPlans

LEMMA OthersPlan ==
  ASSUME BInv, NEW p \in Writers, lock # p, UNCHANGED <<disk, journal, lock>>,
         \A q \in Writers : q # p => work'[q] = work[q]
  PROVE  Invisible
<1>1. SameKnowledge
  BY SameViewKnows
<1>2. ASSUME NEW q \in Writers, lock' = q PROVE Plans(q)'
  <2>1. work'[q] = work[q] /\ Plans(q)
    BY <1>2 DEF BInv
  <2> QED BY <1>1, <2>1
      DEF Plans, In, PlanAppends, PlanCompiles, PlanFiles, SameKnowledge, Marked, Entries
<1> QED BY <1>1, <1>2 DEF Invisible, HolderPlans

LEMMA OutsideInvisible == ASSUME BInv, NEW p \in Writers, Outside(p) PROVE Invisible
<1>1. work \in [Writers -> Work]
  BY DEF BInv, AInv, ApplyTypeOK
<1>2. CASE \/ \E c \in Captures : StartAppend(p, c)
           \/ StartRecovery(p) \/ StartCompile(p) \/ ReadLog(p) \/ CreateStage(p) \/ EditStage(p)
  <2>1. lock # p
    BY <1>2 DEF BInv, AInv, Mutex, In, Section, At, StartAppend, StartRecovery, StartCompile,
       ReadLog, CreateStage, EditStage
  <2>2. UNCHANGED <<disk, journal, lock>> /\ \A q \in Writers : q # p => work'[q] = work[q]
    BY <1>1, <1>2 DEF Goto, StartAppend, StartRecovery, StartCompile, ReadLog, CreateStage, EditStage
  <2> QED BY <2>1, <2>2, OthersPlan
<1>3. CASE Acquire(p)
  <2>1. Plans(p)' /\ lock' = p
    BY <1>1, <1>3, NoPlans DEF Acquire, Goto, In, Planning
  <2> QED BY <1>3, <2>1, OwnPlans, SameViewKnows DEF Acquire, Invisible
<1>4. CASE UpdateState(p)
  <2>1. /\ journal' = journal /\ lock' = NoWriter
        /\ disk \in Disk /\ disk' = [disk EXCEPT !.state.linted = TRUE]
    BY <1>4 DEF UpdateState, BInv, AInv, ApplyTypeOK
  <2>2. disk'["daily"] = disk["daily"] /\ disk'["article"] = disk["article"]
        /\ disk'["state"].of = disk["state"].of
    BY <2>1 DEF Disk, State
  <2>3. SameKnowledge
    BY <2>1, <2>2 DEF SameKnowledge, Daily, Article, Known, Recovered, Unfinished
  <2> QED BY <2>1, <2>3, ApplyAssumption DEF Invisible, HolderPlans
<1> QED BY <1>2, <1>3, <1>4 DEF Outside

LEMMA RecoveryInvisible == ASSUME BInv, NEW p \in Writers, Recovery(p) PROVE Invisible
<1>1. AInv /\ work \in [Writers -> Work]
  BY DEF BInv, AInv, ApplyTypeOK
<1>2. ASSUME NEW q \in Writers, RecoverJournal(p, q) PROVE Invisible
  <2>1. lock = p
    BY <1>1, <1>2, Inside DEF RecoverJournal, At, In, Section
  <2>2. work'[p].pc = "restore"
    BY <1>1, <1>2 DEF RecoverJournal, Work
  <2>3. Plans(p)'
    BY <2>2, NoPlans DEF In, Planning
  <2> QED BY <1>2, <2>1, <2>3, OwnPlans, SameViewKnows DEF RecoverJournal, Invisible
<1>3. CASE Restore(p)
  <2>1. In(p, {"restore", "rollback"}) /\ work[p].left # {} /\ UNCHANGED <<journal, lock>>
    BY <1>3 DEF Restore, At, In
  <2>2. lock = p /\ Knows(p) /\ Plans(p)
    BY <1>1, <2>1, Inside DEF In, Section, BInv
  <2>3. Incomplete(journal, work[p].of)
    BY <2>1, <2>2 DEF In, Knows, Plans, Applying, Incomplete, Published
  <2>4. SameKnowledge
    BY <1>1, <1>3, <2>3, RestoreKeeps, SameFilesKnow
  <2>5. work'[p].pc = work[p].pc
    BY <1>1, <1>3 DEF Restore, Work
  <2>6. Plans(p)'
    BY <2>1, <2>2, <2>5 DEF Plans, In, Planning
  <2> QED BY <2>1, <2>2, <2>4, <2>6, OwnPlans DEF Invisible
<1>4. CASE RecoverDrop(p)
  <2>1. In(p, {"restore"}) /\ work[p].left = {} /\ UNCHANGED <<disk, lock>>
        /\ Drop(work[p].of) /\ Goto(p, "recover")
    BY <1>4 DEF RecoverDrop, At, In
  <2>2. lock = p /\ Knows(p) /\ ApplyTypeOK /\ work[p].of \in Writers
    BY <1>1, <2>1, Inside DEF In, Section
  <2>3. Published(work[p].of)
        /\ (Incomplete(journal, work[p].of) =>
              \A f \in journal[work[p].of].files : disk[f] = journal[work[p].of].old[f])
    BY <2>1, <2>2 DEF Knows, In, Restored, Incomplete
  <2>4. PICK q \in Writers : q = work[p].of
    BY <2>2
  <2>5. ASSUME NEW f PROVE Recovered(f)' = Recovered(f)
    BY <1>1, <2>1, <2>2, <2>3, <2>4, DroppedView DEF AInv, ApplyTypeOK
  <2>6. Plans(p)'
    BY <1>1, <2>1, NoPlans DEF Goto, In, Planning
  <2> QED BY <2>1, <2>2, <2>5, <2>6, OwnPlans DEF Invisible, SameKnowledge, Daily, Article, Known
<1>5. CASE RecoveryEnds(p)
  <2>1. SameKnowledge /\ lock = p
    BY <1>1, <1>5, SameViewKnows, Inside DEF RecoveryEnds, At, In, Section
  <2>2. CASE Leave(p)
    BY <2>1, <2>2, LeavePlans DEF Invisible
  <2>3. CASE Goto(p, "check") /\ UNCHANGED lock
    <3>1. Plans(p)'
      BY <1>1, <2>3, NoPlans DEF Goto, In, Planning
    <3> QED BY <2>1, <2>3, <3>1, OwnPlans DEF Invisible
  <2> QED BY <1>5, <2>2, <2>3 DEF RecoveryEnds
<1> QED BY <1>2, <1>3, <1>4, <1>5 DEF Recovery

LEMMA FailureInvisible == ASSUME BInv, NEW p \in Writers, Failure(p) PROVE Invisible
<1>1. AInv /\ work \in [Writers -> Work] /\ ~RemoveMayFail
  BY DEF BInv, AInv, ApplyTypeOK
<1>2. SameKnowledge
  BY SameViewKnows DEF Failure, ApplyFails, OperationFails, Crash
<1>3. CASE ApplyFails(p)
  <2>1. In(p, {"begin", "replace"}) /\ In(p, Applying) /\ UNCHANGED <<journal, lock>>
        /\ Process(p, "rollback", journal[p].files)
    BY <1>1, <1>3 DEF ApplyFails, At, In, Applying
  <2>2. lock = p /\ journal[p].state # "complete"
    BY <1>1, <2>1, AppliesInside DEF Knows, In
  <2>3. work'[p].pc = "rollback"
    BY <1>1, <2>1 DEF Process, Work
  <2>4. Plans(p)'
    BY <2>1, <2>2, <2>3 DEF Plans, In, Planning
  <2> QED BY <1>2, <2>1, <2>2, <2>4, OwnPlans DEF Invisible
<1>4. CASE OperationFails(p)
  BY <1>2, <1>4, LeavePlans DEF OperationFails, Invisible
<1>5. CASE Crash(p)
  <2>1. CASE lock = p
    BY <1>2, <1>5, <2>1, ApplyAssumption DEF Crash, Invisible, HolderPlans
  <2>2. CASE lock # p
    BY <1>1, <1>5, <2>2, OthersPlan DEF Crash
  <2> QED BY <2>1, <2>2
<1> QED BY <1>3, <1>4, <1>5 DEF Failure

-----------------------------------------------------------------------------
(* One apply.                                                              *)

LEMMA CheckAppendInvisible == ASSUME BInv, NEW p \in Writers, CheckAppend(p) PROVE Invisible
<1>1. AInv /\ ApplyTypeOK /\ In(p, {"check"}) /\ work[p].kind = "append"
      /\ UNCHANGED <<disk, journal>>
  BY DEF BInv, AInv, CheckAppend, At, In
<1>2. lock = p /\ Local(p) /\ \A q \in Writers : ~Published(q)
  BY <1>1, Inside DEF In, Section, Knows
<1>3. SameKnowledge /\ Daily = disk["daily"] /\ disk.daily \in Log /\ disk \in Disk
  BY <1>1, <1>2, SameViewKnows, NoJournalView DEF Daily, ApplyTypeOK, Disk
<1>4. PICK c \in Captures : work[p].entry = {c}
  BY <1>1, <1>2 DEF Local
<1>5. CASE work[p].entry \subseteq Entries(disk.daily)
  BY <1>3, <1>5, LeavePlans DEF CheckAppend, Invisible
<1>6. CASE ~(work[p].entry \subseteq Entries(disk.daily))
  <2> DEFINE log == [disk.daily EXCEPT !.new = disk.daily.new \cup work[p].entry]
  <2> DEFINE new == [disk EXCEPT !.daily = log]
  <2>1. Planned(p, new, {"daily"}) /\ UNCHANGED lock
    BY <1>6 DEF CheckAppend
  <2>2. log \in Log /\ log = [Daily EXCEPT !.new = Daily.new \cup {c}]
    BY <1>3, <1>4 DEF Log
  <2> HIDE DEF log
  <2>3. new \in Disk /\ new.daily = log
    BY <1>3, <2>2 DEF Disk
  <2> HIDE DEF new
  <2>4. Moved(p, "prepare", new, {"daily"}, p)
    BY <1>1, <2>1, <2>3, PlannedMoves DEF Files
  <2>5. work'[p].pc = "prepare" /\ work'[p].left = {"daily"} /\ work'[p].new = new
        /\ work'[p].kind = "append"
    BY <1>1, <2>4 DEF Moved
  <2>6. c \in Captures \ Entries(Daily)
    BY <1>3, <1>4, <1>6
  <2>7. PlanAppends(p)'
    BY <1>3, <2>2, <2>3, <2>5, <2>6 DEF PlanAppends, PlanFiles, SameKnowledge, Entries
  <2>8. Plans(p)'
    BY <2>5, <2>7 DEF Plans, In
  <2> QED BY <1>2, <1>3, <2>1, <2>8, OwnPlans DEF Invisible
<1> QED BY <1>5, <1>6

\* A log that needs no provider has nothing that the articles lack.
LEMMA NothingNewIsCompiled ==
  ASSUME Good, NEW d, NothingNew(d), d.daily = Daily, d.state.of = Known
  PROVE  Daily.new \subseteq Article
  BY DEF Good, NothingNew, UpToDateIsCompiled, Entries, Daily, Article, Known

LEMMA CheckCompileInvisible == ASSUME BInv, NEW p \in Writers, CheckCompile(p) PROVE Invisible
<1>1. AInv /\ ApplyTypeOK /\ Good /\ In(p, {"check"}) /\ work[p].kind \in {"compile", "mark"}
      /\ UNCHANGED <<disk, journal>>
  BY DEF BInv, AInv, CheckCompile, At, In
<1>2. lock = p /\ Local(p) /\ work[p] \in Work /\ \A q \in Writers : ~Published(q)
  BY <1>1, Inside DEF In, Section, Knows
<1>3. SameKnowledge /\ Daily = disk["daily"] /\ Article = disk["article"]
      /\ Known = disk["state"].of /\ disk \in Disk
  BY <1>1, <1>2, SameViewKnows, NoJournalView DEF Daily, Article, Known, ApplyTypeOK
<1>4. CASE ~BaselinesHold(p)
  BY <1>3, <1>4, LeavePlans DEF CheckCompile, Invisible
<1>5. CASE BaselinesHold(p)
  <2> DEFINE log == Marked(disk.daily)
  <2> DEFINE art == work[p].base.article \cup work[p].base.daily.new
  <2> DEFINE st == [work[p].base.state EXCEPT !.of = log]
  <2> DEFINE new == [daily |-> log, article |-> art, state |-> st]
  <2> DEFINE files == IF work[p].kind = "compile" THEN Files ELSE {"daily", "state"}
  <2>1. Planned(p, new, files) /\ UNCHANGED lock
    BY <1>5 DEF CheckCompile
  <2>2. /\ disk.daily \in Log /\ disk.daily.marks < MaxMarks /\ work[p].base \in Disk
        /\ work[p].base.daily = Daily /\ work[p].base.state.of = Known
    BY <1>1, <1>2, <1>3, <1>5 DEF Disk, Work, Local, BaselinesHold
  <2>3. log \in Log /\ log = Marked(Daily)
    BY <1>3, <2>2, ApplyAssumption DEF Log, Marked, Entries
  <2> HIDE DEF log
  <2>4. art \in SUBSET Captures /\ st \in State /\ st.of = log
        /\ (work[p].kind = "compile" => art = Article \cup Daily.new)
    BY <1>3, <1>5, <2>2, <2>3 DEF Disk, Log, State, BaselinesHold
  <2> HIDE DEF art, st
  <2>5. new \in Disk /\ new.daily = log /\ new.state = st /\ new.article = art
    BY <2>3, <2>4 DEF Disk
  <2> HIDE DEF new
  <2>6. files \in SUBSET Files /\ "daily" \in files /\ "state" \in files
        /\ ("article" \in files <=> work[p].kind = "compile")
    BY DEF Files
  <2> HIDE DEF files
  <2>7. Moved(p, "prepare", new, files, p)
    BY <1>1, <2>1, <2>5, <2>6, PlannedMoves
  <2>8. work'[p].pc = "prepare" /\ work'[p].left = files /\ work'[p].new = new
    BY <2>7 DEF Moved
  <2>9. work[p].kind = "mark" => Daily.new \subseteq Article
    BY <1>1, <1>2, <2>2, NothingNewIsCompiled DEF Local
  <2>10. PlanCompiles(p)'
    <3>1. /\ work'[p].new.daily = Marked(Daily') /\ work'[p].new.state.of = Marked(Daily')
          /\ PlanFiles(p)' = files
      BY <1>3, <2>3, <2>4, <2>5, <2>8 DEF SameKnowledge, PlanFiles
    <3>2. IF "article" \in files THEN work'[p].new.article = Article' \cup Daily'.new
                                  ELSE Daily'.new \subseteq Article'
      BY <1>1, <1>3, <2>4, <2>5, <2>6, <2>8, <2>9 DEF SameKnowledge
    <3> QED BY <2>6, <3>1, <3>2 DEF PlanCompiles, Marked, Entries
  <2>11. Plans(p)'
    BY <2>8, <2>10 DEF Plans, In
  <2> QED BY <1>2, <1>3, <2>1, <2>11, OwnPlans DEF Invisible
<1> QED BY <1>4, <1>5

\* A plan stays one while the apply goes on and recovery sees nothing of it.
LEMMA PlanStays ==
  ASSUME NEW p \in Writers, Plans(p), In(p, Planning), SameKnowledge, UNCHANGED lock,
         lock = p, In(p, Planning)', work'[p].new = work[p].new, work'[p].kind = work[p].kind,
         PlanFiles(p)' = PlanFiles(p)
  PROVE  Invisible
<1>1. PlanAppends(p) => PlanAppends(p)'
  BY DEF PlanAppends, SameKnowledge, Entries
<1>2. PlanCompiles(p) => PlanCompiles(p)'
  BY DEF PlanCompiles, SameKnowledge, Marked, Entries
<1>3. Plans(p)'
  BY <1>1, <1>2 DEF Plans, In, Planning
<1> QED BY <1>3, OwnPlans DEF Invisible

LEMMA PrepareInvisible == ASSUME BInv, NEW p \in Writers, Prepare(p) PROVE Invisible
<1>1. AInv /\ ApplyTypeOK /\ In(p, {"prepare"}) /\ Goto(p, "begin") /\ UNCHANGED lock
      /\ journal' = [journal EXCEPT ![p] =
           [state |-> "prepared", old |-> disk, files |-> work[p].left]]
  BY DEF BInv, AInv, Prepare, At, In
<1>2. lock = p /\ Plans(p) /\ SameKnowledge /\ journal'[p].files = work[p].left
  BY <1>1, Inside, PrepareKeeps, SameFilesKnow DEF In, Section, BInv, ApplyTypeOK
<1>3. Moved(p, "begin", work[p].new, work[p].left, work[p].of)
  BY <1>1, GotoMoves DEF Pc
<1>4. work'[p].pc = "begin" /\ work'[p].new = work[p].new /\ work'[p].kind = work[p].kind
  BY <1>3 DEF Moved
<1>5. PlanFiles(p)' = PlanFiles(p)
  BY <1>1, <1>2, <1>4 DEF PlanFiles, In
<1> QED BY <1>1, <1>2, <1>4, <1>5, PlanStays DEF In, Planning

LEMMA BeginApplyInvisible == ASSUME BInv, NEW p \in Writers, BeginApply(p) PROVE Invisible
<1>1. AInv /\ ApplyTypeOK /\ In(p, {"begin"}) /\ In(p, Applying) /\ Goto(p, "replace")
      /\ UNCHANGED <<disk, lock>> /\ JournalState(p, "applying")
  BY DEF BInv, AInv, BeginApply, At, In, Applying
<1>2. lock = p /\ Knows(p) /\ Plans(p) /\ journal[p].state # "complete"
  BY <1>1, AppliesInside DEF BInv, Knows, In
<1>3. journal'[p].files = journal[p].files /\ \A f : Recovered(f)' = Recovered(f)
  BY <1>1, <1>2, StateChanged
<1>4. Moved(p, "replace", work[p].new, work[p].left, work[p].of)
  BY <1>1, GotoMoves DEF Pc
<1>5. work'[p].pc = "replace" /\ work'[p].new = work[p].new /\ work'[p].kind = work[p].kind
  BY <1>4 DEF Moved
<1>6. PlanFiles(p)' = PlanFiles(p) /\ SameKnowledge
  BY <1>1, <1>3, <1>5 DEF PlanFiles, In, SameKnowledge, Daily, Article, Known
<1> QED BY <1>1, <1>2, <1>5, <1>6, PlanStays DEF In, Planning

LEMMA ReplaceInvisible == ASSUME BInv, NEW p \in Writers, Replace(p) PROVE Invisible
<1>1. AInv /\ ApplyTypeOK /\ In(p, {"replace"}) /\ In(p, Applying) /\ UNCHANGED <<journal, lock>>
      /\ work' = [work EXCEPT ![p].left = work[p].left \ {FirstOf(work[p].left)}]
  BY DEF BInv, AInv, Replace, At, In, Applying
<1>2. lock = p /\ Plans(p) /\ SameKnowledge /\ work[p].left \in SUBSET Files
  BY <1>1, AppliesInside, ReplaceKeeps, SameFilesKnow DEF BInv
<1>3. PICK left \in SUBSET Files : left = work[p].left \ {FirstOf(work[p].left)}
  BY <1>2
<1>4. Moved(p, work[p].pc, work[p].new, left, work[p].of)
  BY <1>1, <1>3, LeftMoves
<1>5. work'[p].pc = "replace" /\ work'[p].new = work[p].new /\ work'[p].kind = work[p].kind
  BY <1>1, <1>4 DEF Moved, In
<1>6. PlanFiles(p)' = PlanFiles(p)
  BY <1>1, <1>5 DEF PlanFiles, In
<1> QED BY <1>1, <1>2, <1>5, <1>6, PlanStays DEF In, Planning

LEMMA DroppedInvisible ==
  ASSUME BInv, NEW p \in Writers, RemoveJournal(p) \/ RollbackEnds(p)
  PROVE  Invisible
<1>1. AInv /\ In(p, Applying) /\ In(p, {"remove", "rollback"}) /\ UNCHANGED disk
      /\ Drop(p) /\ Leave(p) /\ (In(p, {"rollback"}) => work[p].left = {})
  BY DEF BInv, RemoveJournal, RollbackEnds, At, In, Applying
<1>2. /\ Knows(p) /\ Published(p) /\ work[p].of = p
      /\ journal \in [Writers -> Journal \cup {NoJournal}]
  BY <1>1, AppliesInside
<1>3. Incomplete(journal, p) => \A f \in journal[p].files : disk[f] = journal[p].old[f]
  BY <1>1, <1>2 DEF Knows, In, Restored, Incomplete
<1>4. ASSUME NEW f PROVE Recovered(f)' = Recovered(f)
  BY <1>1, <1>2, <1>3, DroppedView DEF AInv
<1> QED BY <1>1, <1>4, LeavePlans DEF Invisible, SameKnowledge, Daily, Article, Known

\* The step at which recovery sees all of an apply at once.
LEMMA CompleteApplyVisible ==
  ASSUME BInv, NEW p \in Writers, CompleteApply(p)
  PROVE  HolderPlans /\ Good' /\ Promise!Next
<1>1. AInv /\ ApplyTypeOK /\ Good /\ In(p, {"replace"}) /\ In(p, Applying) /\ work[p].left = {}
      /\ UNCHANGED <<disk, lock>> /\ Goto(p, "remove") /\ JournalState(p, "complete")
  BY DEF BInv, AInv, CompleteApply, At, In, Applying
<1>2. /\ lock = p /\ Knows(p) /\ Plans(p) /\ journal[p].state # "complete" /\ disk \in Disk
      /\ work[p].new \in Disk /\ journal[p].files \in SUBSET Files
  BY <1>1, AppliesInside DEF BInv, Knows, In
<1>3. PICK files \in SUBSET Files : files = journal[p].files
  BY <1>2
<1>4. \A f \in Files : Recovered(f)' = IF f \in files THEN work[p].new[f] ELSE Recovered(f)
  <2>1. \A f \in files : disk[f] = work[p].new[f]
    BY <1>1, <1>2, <1>3 DEF Knows, In
  <2>2. \A f : Recovered(f)' = disk[f]
    BY <1>1, <1>2, StateChanged
  <2>3. \A f : f \notin files => Recovered(f) = disk[f]
    BY <1>1, <1>2, <1>3, StateChanged
  <2> QED BY <2>1, <2>2, <2>3
<1>5. /\ Daily' = IF "daily" \in files THEN work[p].new.daily ELSE Daily
      /\ Article' = IF "article" \in files THEN work[p].new.article ELSE Article
      /\ Known' = IF "state" \in files THEN work[p].new.state.of ELSE Known
  BY <1>4 DEF Files, Daily, Article, Known
<1>6. PlanFiles(p) = files /\ Daily \in Log
  BY <1>1, <1>3, ViewType DEF PlanFiles, In
<1>7. HolderPlans
  <2>1. Plans(p)'
    BY <1>1, NoPlans DEF Goto, In, Planning, ApplyTypeOK
  <2> QED BY <1>1, <1>2, <2>1, OwnPlans
<1>8. CASE PlanAppends(p)
  <2>1. PICK c \in Captures \ Entries(Daily) :
          work[p].new.daily = [Daily EXCEPT !.new = Daily.new \cup {c}]
    BY <1>8 DEF PlanAppends
  <2>2. Daily' = [Daily EXCEPT !.new = Daily.new \cup {c}] /\ UNCHANGED <<Article, Known>>
    BY <1>5, <1>6, <1>8, <2>1 DEF PlanAppends
  <2>3. Good' /\ Promise!Append(c)
    BY <1>1, <1>6, <2>2, AppendIsGood
  <2> QED BY <1>7, <2>3 DEF Promise!Next
<1>9. CASE PlanCompiles(p)
  <2>1. Daily' = Marked(Daily) /\ Known' = Marked(Daily) /\ Article' = Article \cup Daily.new
    BY <1>5, <1>6, <1>9 DEF PlanCompiles
  <2>2. Good' /\ Promise!Compile
    BY <1>1, <1>6, <2>1, CompileIsGood
  <2> QED BY <1>7, <2>2 DEF Promise!Next
<1>10. PlanAppends(p) \/ PlanCompiles(p)
  BY <1>1, <1>2 DEF Plans, In, Planning
<1> QED BY <1>8, <1>9, <1>10

-----------------------------------------------------------------------------
(* The invariant and the refinement.                                       *)

LEMMA InvisibleKeeps ==
  ASSUME BInv, Invisible, AInv'
  PROVE  BInv' /\ UNCHANGED Promise!kbVars
BY SameIsGood DEF BInv, Invisible, HolderPlans

LEMMA PromisedNext == ASSUME BInv, [Next]_vars PROVE BInv' /\ [Promise!Next]_Promise!kbVars
<1>1. AInv'
  BY ApplyNext DEF BInv
<1>2. ASSUME NEW p \in Writers, CompleteApply(p) PROVE BInv' /\ Promise!Next
  BY <1>1, <1>2, CompleteApplyVisible DEF BInv, HolderPlans
<1>3. CASE Invisible
  BY <1>1, <1>3, InvisibleKeeps
<1>4. ASSUME NEW p \in Writers, Apply(p) PROVE CompleteApply(p) \/ Invisible
  BY <1>4, CheckAppendInvisible, CheckCompileInvisible, PrepareInvisible, BeginApplyInvisible,
     ReplaceInvisible, DroppedInvisible DEF Apply
<1>5. ASSUME UNCHANGED vars PROVE Invisible
  <2>1. UNCHANGED <<disk, journal, lock, work>>
    BY <1>5 DEF vars
  <2>2. SameKnowledge
    BY <2>1, SameViewKnows
  <2>3. ASSUME NEW q \in Writers, lock' = q PROVE Plans(q)'
    <3>1. Plans(q) /\ lock = q
      BY <2>1, <2>3 DEF BInv
    <3> QED BY <2>1, <2>2, <3>1
        DEF Plans, In, PlanAppends, PlanCompiles, PlanFiles, SameKnowledge, Marked, Entries
  <2> QED BY <2>2, <2>3 DEF Invisible, HolderPlans
<1> QED BY <1>2, <1>3, <1>4, <1>5, OutsideInvisible, RecoveryInvisible, FailureInvisible DEF Next

LEMMA PromisedInit ==
  ASSUME Init, ~RemoveMayFail
  PROVE  BInv /\ Promise!Init
<1>1. AInv
  BY ApplyInit
<1>2. \A f : Recovered(f) = disk[f]
  BY NoJournalView DEF Init, Published
<1>3. Daily = disk["daily"] /\ Article = disk["article"] /\ Known = disk["state"].of
  BY <1>2 DEF Daily, Article, Known
<1>4. PICK old \in SUBSET Captures :
        LET log == [NoLog EXCEPT !.new = old] IN
        disk \in {[daily |-> log, article |-> {}, state |-> NoState],
                  [daily |-> log, article |-> old, state |-> [NoState EXCEPT !.of = log]]}
  BY DEF Init
<1> DEFINE log == [NoLog EXCEPT !.new = old]
<1>5. log.done = {} /\ log.new = old /\ Entries(log) = old
  BY DEF NoLog, Entries
<1>6. /\ Daily = log
      /\ \/ Article = {} /\ Known = NoLog
         \/ Article = old /\ Known = log
  BY <1>3, <1>4 DEF NoState
<1>7. Entries(NoLog) = {} /\ NoLog.done = {} /\ NoLog.new = {}
  BY DEF NoLog, Entries
<1>8. log = NoLog => old = {}
  BY <1>5, <1>7
<1>9. Promise!Init
  <2>1. log \in {[Promise!NoLog EXCEPT !.new = o] : o \in SUBSET Captures} /\ Promise!NoLog = NoLog
    BY DEF Promise!NoLog, NoLog
  <2> HIDE DEF log
  <2> QED BY <1>5, <1>6, <2>1 DEF Promise!Init, Daily, Article, Known
<1> HIDE DEF log
<1>10. Good
  <2>1. NothingSkipped
    BY <1>5, <1>6 DEF NothingSkipped, Daily
  <2>2. UpToDateIsCompiled
    BY <1>5, <1>6, <1>8 DEF UpToDateIsCompiled, Daily, Article, Known
  <2>3. Entries(Known) \subseteq Entries(Daily)
    BY <1>5, <1>6, <1>7
  <2> QED BY <2>1, <2>2, <2>3 DEF Good
<1>11. \A p \in Writers : lock # p
  BY ApplyAssumption DEF Init
<1> QED BY <1>1, <1>9, <1>10, <1>11 DEF BInv

\* While journals can be removed, the inductive invariant holds in every
\* reachable state.
THEOREM PlanInvariance == ~RemoveMayFail /\ Spec => []BInv
<1>1. BInv /\ [Next]_vars => BInv'
  BY PromisedNext
<1>2. ~RemoveMayFail /\ Init => BInv
  BY PromisedInit
<1> QED BY <1>1, <1>2, PTL DEF Spec

\* While journals can be removed, no compilation marks an entry as compiled that
\* was appended after it read the log.
THEOREM NothingSkippedCorrect == ~RemoveMayFail /\ Spec => []NothingSkipped
<1>1. BInv => NothingSkipped
  BY DEF BInv, Good
<1> QED BY <1>1, PlanInvariance, PTL

\* While journals can be removed, a log that the next compilation passes over has
\* been compiled to its end.
THEOREM UpToDateCorrect == ~RemoveMayFail /\ Spec => []UpToDateIsCompiled
<1>1. BInv => UpToDateIsCompiled
  BY DEF BInv, Good
<1> QED BY <1>1, PlanInvariance, PTL

\* While journals can be removed, the writers implement atomic appends and
\* compilations: the files a recovery would give change as KnowledgeBase says.
THEOREM KnowledgeBaseImplemented == ~RemoveMayFail /\ Spec => ImplementsKnowledgeBase
<1>1. BInv /\ [Next]_vars => [Promise!Next]_Promise!kbVars
  BY PromisedNext
<1>2. ~RemoveMayFail /\ Init => Promise!Init
  BY PromisedInit
<1> QED BY <1>1, <1>2, PlanInvariance, PTL DEF Spec, ImplementsKnowledgeBase, Promise!Spec
=============================================================================
