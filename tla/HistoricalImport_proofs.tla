----------------------- MODULE HistoricalImport_proofs -----------------------
(***************************************************************************)
(* Proofs about HistoricalImport, for any imports, sessions and limits.    *)
(* Whatever imports do, what they do to the queue are the queue's own      *)
(* operations: ImportIsQueue brings every theorem of JobQueue_proofs to    *)
(* the composition.  ProgressInv then follows one import through its run:  *)
(* the sessions it reported as succeeded stay so, the ones it gave to the  *)
(* queue keep their rows, and after its drain they have ended.  BooksInv   *)
(* says what the books are worth: every session an import may spend money  *)
(* on is reserved, accounted for or dead, so the reservations and the      *)
(* total bound what the granted sessions may cost.                         *)
(***************************************************************************)
EXTENDS HistoricalImport, FiniteSetTheorems, JobQueue_proofs

USE DEF Claimable, Terminal

-----------------------------------------------------------------------------
(* The composition only does what the queue allows.                        *)

LEMMA ImportStep == [Next]_vars => [QueueNext]_queueVars
<1> SUFFICES ASSUME [Next]_vars PROVE [QueueNext]_queueVars
  OBVIOUS
<1>1. CASE UNCHANGED vars
  BY <1>1 DEF vars, queueVars
<1>2. CASE \E i \in Imports :
             \/ Start(i)
             \/ Looks(i, "looks", "settles") \/ Looks(i, "looksAgain", "settlesAgain")
             \/ Settles(i, "settles", "reserves") \/ Settles(i, "settles", "plans")
             \/ Settles(i, "settlesAgain", "idle")
             \/ Reserves(i) \/ Plans(i) \/ DrainEnds(i) \/ Dies(i)
  <2>1. UNCHANGED <<jobs, runs>>
    BY <1>2 DEF Start, Looks, Settles, Reserves, Plans, DrainEnds, Dies
  <2> QED BY <2>1 DEF queueVars
<1>3. CASE \E i \in Imports, c \in Captures : Enqueues(i, c)
  BY <1>3 DEF Enqueues, QueueNext
<1>4. CASE Captured
  BY <1>4 DEF Captured, QueueNext
<1>5. CASE Drained
  BY <1>5 DEF Drained, QueueNext
<1>6. CASE TimePasses
  BY <1>6 DEF TimePasses, QueueNext
<1> QED BY <1>1, <1>2, <1>3, <1>4, <1>5, <1>6 DEF Next

\* Imports that drain without the singleton lock, beside live captures and a live
\* worker, never take a step the queue does not have.
THEOREM ImportIsQueue == ImportSpec => QueueSpec
<1>1. Init => QueueInit
  BY DEF Init
<1> QED BY <1>1, ImportStep, PTL DEF ImportSpec, QueueSpec

\* The dashboard's run of a job shows the job's status, with imports too.
THEOREM ImportMirrors == ImportSpec => []RunMirrorsJob
BY ImportIsQueue, MirrorCorrect, PTL

\* Attempts of two imports under one owner name never write into a later attempt's
\* timeline.
THEOREM ImportTimeline == ImportSpec => TimelineNeverGoesBack
BY ImportIsQueue, TimelineCorrect, PTL

\* Jobs that imports drain live the life JobLifecycle promises.
THEOREM ImportLifecycle == ImportSpec => ImplementsLifecycle
BY ImportIsQueue, LifecycleImplemented, PTL

-----------------------------------------------------------------------------
(* How far an import has come.                                             *)

HasRow(c) == jobs[c].status # "absent"
Ended(c) == jobs[c].status \in Terminal
Own(i) == imp[i].sessions \ Processed

\* What is known of the sessions of import i at each of its places.
ProgressOf(i) ==
  /\ imp[i].pc \in {"settles", "settlesAgain"} =>
       \A c \in imp[i].found : InStatus(c, {"succeeded"})
  /\ imp[i].pc = "enqueues" => \A c \in Own(i) \ imp[i].found : HasRow(c)
  /\ imp[i].pc = "drains" => \A c \in Own(i) : HasRow(c)
  /\ imp[i].pc \in {"looksAgain", "settlesAgain"} => \A c \in Own(i) : Ended(c)

ProgressInv ==
  /\ IInv
  /\ imp \in [Imports -> Import]
  /\ Reserved \subseteq Captures
  /\ \A c \in accounted : c \in Captures /\ InStatus(c, {"succeeded"})
  /\ \A i \in Imports : ProgressOf(i)

\* Rows are not deleted, and a job that ended stays as it is.
LEMMA RowsStay ==
  ASSUME IInv, [QueueNext]_queueVars, NEW c \in Captures
  PROVE  /\ HasRow(c) => HasRow(c)'
         /\ Ended(c) => Ended(c)'
         /\ InStatus(c, {"succeeded"}) => InStatus(c, {"succeeded"})'
<1>1. IInv' /\ (jobs[c].status \in Terminal => jobs'[c] = jobs[c])
  <2>1. CASE QueueNext
    BY <2>1, NextStep DEF Step
  <2>2. CASE UNCHANGED queueVars
    BY <2>2 DEF queueVars, IInv, TypeOK, Rows
  <2> QED BY <2>1, <2>2
<1>2. jobs[c] \in Job /\ jobs'[c] \in Job
  BY <1>1 DEF IInv, TypeOK
<1>3. HasRow(c) => HasRow(c)'
  <2>1. stages[c] # "absent" => stages'[c] # "absent"
    <3>1. [Lifecycle!Next]_(Lifecycle!lifeVars)
      BY LifeNext
    <3>2. [Lifecycle!Next]_<<stages, attempts>>
      BY <3>1 DEF Lifecycle!lifeVars, stages, attempts
    <3>3. CASE UNCHANGED <<stages, attempts>>
      BY <3>3
    <3>4. ASSUME NEW d \in Captures,
                 Lifecycle!Submit(d) \/ Lifecycle!Begin(d) \/ Lifecycle!Finish(d)
          PROVE  stages[c] # "absent" => stages'[c] # "absent"
      BY <3>4 DEF Lifecycle!Submit, Lifecycle!Begin, Lifecycle!Finish, stages
    <3>5. ASSUME NEW S \in SUBSET Captures, Lifecycle!GiveBack(S)
          PROVE  stages[c] # "absent" => stages'[c] # "absent"
      BY <3>5 DEF Lifecycle!GiveBack, stages
    <3> QED BY <3>2, <3>3, <3>4, <3>5 DEF Lifecycle!Next
  <2> QED BY <1>2, <2>1, StageOfStatus DEF HasRow, stages
<1> QED BY <1>1, <1>3 DEF Ended, InStatus

-----------------------------------------------------------------------------
(* One lemma per operation of an import.                                   *)

LEMMA PathInit == Init => ProgressInv
<1> SUFFICES ASSUME Init PROVE ProgressInv
  OBVIOUS
<1>1. IInv
  BY InitRows DEF Init
<1>2. Idle \in Import
  BY DEF Idle, Import
<1>3. imp \in [Imports -> Import] /\ \A i \in Imports : ProgressOf(i)
  BY <1>2 DEF Init, Idle, ProgressOf
<1>4. Reserved = {} /\ accounted = {}
  BY DEF Init, Reserved
<1> QED BY <1>1, <1>3, <1>4 DEF ProgressInv

\* A step that changes one import at most keeps what is known of the others.
LEMMA OneImport ==
  ASSUME ProgressInv, [QueueNext]_queueVars, NEW i \in Imports, NEW r \in Import,
         imp' = [imp EXCEPT ![i] = r], ProgressOf(i)'
  PROVE  imp' \in [Imports -> Import] /\ \A k \in Imports : ProgressOf(k)'
<1>1. imp' \in [Imports -> Import]
  BY DEF ProgressInv
<1>2. ASSUME NEW k \in Imports, k # i
      PROVE  ProgressOf(k)'
  <2>1. imp'[k] = imp[k] /\ imp[k] \in Import /\ ProgressOf(k) /\ IInv
    BY <1>2 DEF ProgressInv
  <2>2. imp[k].sessions \subseteq Captures /\ imp[k].found \subseteq Captures
    BY <2>1 DEF Import
  <2>3. Own(k)' = Own(k) /\ Own(k) \subseteq Captures
    BY <2>1, <2>2 DEF Own
  <2> QED BY <2>1, <2>2, <2>3, RowsStay DEF ProgressOf
<1> QED BY <1>1, <1>2

\* A step that changes no import keeps what is known of all of them.
LEMMA NoImport ==
  ASSUME ProgressInv, [QueueNext]_queueVars, imp' = imp
  PROVE  imp' \in [Imports -> Import] /\ \A k \in Imports : ProgressOf(k)'
<1>1. ASSUME NEW k \in Imports
      PROVE  ProgressOf(k)'
  <2>1. imp'[k] = imp[k] /\ imp[k] \in Import /\ ProgressOf(k) /\ IInv
    BY DEF ProgressInv
  <2>2. imp[k].sessions \subseteq Captures /\ imp[k].found \subseteq Captures
    BY <2>1 DEF Import
  <2>3. Own(k)' = Own(k) /\ Own(k) \subseteq Captures
    BY <2>1, <2>2 DEF Own
  <2> QED BY <2>1, <2>2, <2>3, RowsStay DEF ProgressOf
<1> QED BY <1>1 DEF ProgressInv

\* The books: what a step leaves in them.
Books ==
  /\ Reserved \subseteq Captures
  /\ \A c \in accounted : c \in Captures /\ InStatus(c, {"succeeded"})

LEMMA SameBooks ==
  ASSUME ProgressInv, [QueueNext]_queueVars,
         DOMAIN reserved' = DOMAIN reserved, accounted' = accounted
  PROVE  Books'
<1>1. \A c \in Captures : InStatus(c, {"succeeded"}) => InStatus(c, {"succeeded"})'
  BY RowsStay DEF ProgressInv
<1> QED BY <1>1 DEF Books, ProgressInv, Reserved

LEMMA StartPath ==
  ASSUME ProgressInv, NEW i \in Imports, Start(i)
  PROVE  Books' /\ imp' \in [Imports -> Import] /\ \A k \in Imports : ProgressOf(k)'
<1> DEFINE r == [pc |-> "looks", sessions |-> Wanted[i], found |-> {}]
<1>1. imp' = [imp EXCEPT ![i] = r] /\ UNCHANGED queueVars
  BY DEF Start, queueVars
<1>2. r \in Import
  BY ImportAssumption DEF Import
<1>3. ProgressOf(i)'
  BY <1>1 DEF ProgressOf, ProgressInv
<1> HIDE DEF r
<1>4. Books'
  BY <1>1, SameBooks DEF Start
<1> QED BY <1>1, <1>2, <1>3, <1>4, OneImport

LEMMA LooksPath ==
  ASSUME ProgressInv, NEW i \in Imports, NEW from, NEW to,
         <<from, to>> \in {<<"looks", "settles">>, <<"looksAgain", "settlesAgain">>},
         Looks(i, from, to)
  PROVE  Books' /\ imp' \in [Imports -> Import] /\ \A k \in Imports : ProgressOf(k)'
<1> DEFINE F == {c \in imp[i].sessions : InStatus(c, {"succeeded"})}
<1> DEFINE r == [imp[i] EXCEPT !.pc = to, !.found = F]
<1>1. imp' = [imp EXCEPT ![i] = r] /\ UNCHANGED queueVars /\ imp[i].pc = from
  BY DEF Looks, queueVars, At
<1>2. imp[i] \in Import /\ ProgressOf(i)
  BY DEF ProgressInv
<1>3. F \subseteq imp[i].sessions /\ \A c \in F : InStatus(c, {"succeeded"})
  OBVIOUS
<1> HIDE DEF F
<1>4. to \in {"settles", "settlesAgain"} /\ (to = "settlesAgain" => from = "looksAgain")
  OBVIOUS
<1>5. r \in Import /\ r.pc = to /\ r.sessions = imp[i].sessions /\ r.found = F
  BY <1>2, <1>3, <1>4 DEF Import
<1> HIDE DEF r
<1>6. imp'[i] = r
  BY <1>1 DEF ProgressInv
<1>7. jobs' = jobs /\ Own(i)' = Own(i)
  BY <1>1, <1>5, <1>6 DEF queueVars, Own
<1>8. ProgressOf(i)'
  BY <1>1, <1>2, <1>3, <1>4, <1>5, <1>6, <1>7 DEF ProgressOf, InStatus, Ended
<1>9. Books'
  BY <1>1, SameBooks DEF Looks
<1> QED BY <1>1, <1>5, <1>8, <1>9, OneImport

\* The sessions a settlement or a reservation accounts for have succeeded.
LEMMA BooksSettled ==
  ASSUME ProgressInv, NEW F, \A c \in F : c \in Captures /\ InStatus(c, {"succeeded"}),
         jobs' = jobs, accounted' = accounted \cup Unaccounted(F \cup Paid),
         DOMAIN reserved' \subseteq Captures
  PROVE  Books'
<1>1. \A c \in Paid : c \in Captures /\ InStatus(c, {"succeeded"})
  BY DEF Paid, ProgressInv
<1>2. \A c \in accounted' : c \in Captures /\ InStatus(c, {"succeeded"})
  BY <1>1 DEF Unaccounted, ProgressInv
<1> QED BY <1>2 DEF Books, InStatus, Reserved

LEMMA SettlesPath ==
  ASSUME ProgressInv, NEW i \in Imports, NEW from, NEW to,
         <<from, to>> \in {<<"settles", "reserves">>, <<"settles", "plans">>,
                           <<"settlesAgain", "idle">>},
         Settles(i, from, to)
  PROVE  Books' /\ imp' \in [Imports -> Import] /\ \A k \in Imports : ProgressOf(k)'
<1> DEFINE r == IF to = "idle" THEN Idle ELSE [imp[i] EXCEPT !.pc = to, !.found = {}]
<1>1. imp' = [imp EXCEPT ![i] = r] /\ UNCHANGED queueVars /\ jobs' = jobs
  BY DEF Settles, queueVars
<1>2. imp[i] \in Import /\ ProgressOf(i) /\ imp[i].pc = from
  BY DEF ProgressInv, Settles, At
<1>3. r \in Import /\ r.pc \in {"reserves", "plans", "idle"}
  <2>1. CASE to = "idle"
    BY <2>1 DEF Idle, Import
  <2>2. CASE to # "idle"
    <3>1. to \in {"reserves", "plans"}
      BY <2>2
    <3> QED BY <1>2, <2>2, <3>1 DEF Import
  <2> QED BY <2>1, <2>2
<1> HIDE DEF r
<1>4. imp'[i] = r
  BY <1>1 DEF ProgressInv
<1>5. ProgressOf(i)'
  BY <1>3, <1>4 DEF ProgressOf
<1>6. Books'
  <2>1. CASE imp[i].sessions = {}
    <3>1. UNCHANGED <<reserved, accounted>>
      BY <2>1 DEF Settles
    <3> QED BY <1>1, <3>1, SameBooks
  <2>2. CASE imp[i].sessions # {}
    <3> DEFINE F == imp[i].found
    <3>1. \A c \in F : c \in Captures /\ InStatus(c, {"succeeded"})
      BY <1>2 DEF ProgressOf, Import
    <3>2. /\ accounted' = accounted \cup Unaccounted(F \cup Paid)
          /\ DOMAIN reserved' = Kept
      BY <2>2 DEF Settles
    <3>3. Kept \subseteq Captures
      BY DEF Kept, ProgressInv
    <3> HIDE DEF F
    <3> QED BY <1>1, <3>1, <3>2, <3>3, BooksSettled
  <2> QED BY <2>1, <2>2
<1> QED BY <1>1, <1>3, <1>5, <1>6, OneImport

LEMMA ReservesPath ==
  ASSUME ProgressInv, NEW i \in Imports, Reserves(i)
  PROVE  Books' /\ imp' \in [Imports -> Import] /\ \A k \in Imports : ProgressOf(k)'
<1> DEFINE new == Unaccounted(Paid)
<1> DEFINE free == imp[i].sessions \ (accounted \cup new \cup Kept)
<1> DEFINE over == {c \in imp[i].sessions \cap Kept : MayTakeOver(c)}
<1>1. PICK chosen \in SUBSET free :
        /\ imp' = [imp EXCEPT ![i] = [imp[i] EXCEPT !.pc = "plans",
                                                    !.sessions = over \cup chosen]]
        /\ reserved' = [c \in Kept \cup chosen |->
                          IF c \in over \cup chosen THEN ReservationTicks ELSE reserved[c]]
  BY DEF Reserves
<1>2. UNCHANGED queueVars /\ jobs' = jobs /\ accounted' = accounted \cup new
  BY DEF Reserves, queueVars
<1>3. imp[i] \in Import /\ imp[i].sessions \subseteq Captures
  BY DEF ProgressInv, Import
<1>4. over \cup chosen \subseteq Captures
  BY <1>3
<1> DEFINE S == over \cup chosen
<1> DEFINE r == [imp[i] EXCEPT !.pc = "plans", !.sessions = S]
<1>5. imp' = [imp EXCEPT ![i] = r]
  BY <1>1
<1>6. Kept \cup chosen \subseteq Captures
  BY <1>3 DEF Kept, ProgressInv
<1>7. DOMAIN reserved' \subseteq Captures
  BY <1>1, <1>6
<1> HIDE DEF S
<1>8. r \in Import /\ r.pc = "plans"
  BY <1>3, <1>4 DEF Import, S
<1> HIDE DEF r
<1>9. imp'[i] = r
  BY <1>5 DEF ProgressInv
<1>10. ProgressOf(i)'
  BY <1>8, <1>9 DEF ProgressOf
<1>11. Books'
  <2>1. accounted' = accounted \cup Unaccounted({} \cup Paid)
    BY <1>2
  <2> DEFINE F == {}
  <2>2. accounted' = accounted \cup Unaccounted(F \cup Paid)
    BY <2>1
  <2>3. \A c \in F : c \in Captures /\ InStatus(c, {"succeeded"})
    OBVIOUS
  <2> HIDE DEF new, F
  <2> QED BY <1>2, <1>7, <2>2, <2>3, BooksSettled
<1> QED BY <1>2, <1>5, <1>8, <1>10, <1>11, OneImport

LEMMA PlansPath ==
  ASSUME ProgressInv, NEW i \in Imports, Plans(i)
  PROVE  Books' /\ imp' \in [Imports -> Import] /\ \A k \in Imports : ProgressOf(k)'
<1>1. PICK resume \in BOOLEAN, done \in {{}, {c \in Captures : InStatus(c, {"succeeded"})}} :
        LET plan == imp[i].sessions \ (IF resume THEN done \cup Processed ELSE {})
        IN  imp' = [imp EXCEPT ![i] = [imp[i] EXCEPT
              !.pc = IF plan = {} THEN "looksAgain" ELSE "enqueues", !.found = plan]]
  BY DEF Plans
<1> DEFINE plan == imp[i].sessions \ (IF resume THEN done \cup Processed ELSE {})
<1> DEFINE to == IF plan = {} THEN "looksAgain" ELSE "enqueues"
<1>2. imp[i] \in Import /\ imp[i].sessions \subseteq Captures
  BY DEF ProgressInv, Import
<1>3. plan \subseteq Captures /\ \A c \in Own(i) \ plan : InStatus(c, {"succeeded"})
  BY <1>2 DEF Own
<1>4. to \in {"looksAgain", "enqueues"} /\ (to = "looksAgain" => plan = {})
  OBVIOUS
<1> DEFINE r == [imp[i] EXCEPT !.pc = to, !.found = plan]
<1>5. imp' = [imp EXCEPT ![i] = r]
  BY <1>1
<1> HIDE DEF plan, to
<1>6. r \in Import /\ r.pc = to /\ r.sessions = imp[i].sessions /\ r.found = plan
  BY <1>2, <1>3, <1>4 DEF Import
<1> HIDE DEF r
<1>7. UNCHANGED queueVars /\ jobs' = jobs
  BY DEF Plans, queueVars
<1>8. imp'[i] = r /\ Own(i)' = Own(i)
  BY <1>5, <1>6 DEF ProgressInv, Own
<1>9. ProgressOf(i)'
  BY <1>3, <1>4, <1>6, <1>7, <1>8 DEF ProgressOf, InStatus, Ended, HasRow
<1>10. Books'
  BY <1>7, SameBooks DEF Plans
<1> QED BY <1>5, <1>6, <1>7, <1>9, <1>10, OneImport

LEMMA EnqueuesPath ==
  ASSUME ProgressInv, NEW i \in Imports, NEW c \in Captures, Enqueues(i, c)
  PROVE  Books' /\ imp' \in [Imports -> Import] /\ \A k \in Imports : ProgressOf(k)'
<1> DEFINE to == IF imp[i].found = {c} THEN "drains" ELSE "enqueues"
<1> DEFINE F == imp[i].found \ {c}
<1> DEFINE r == [imp[i] EXCEPT !.pc = to, !.found = F]
<1>1. imp' = [imp EXCEPT ![i] = r] /\ imp[i].pc = "enqueues"
  BY DEF Enqueues, At
<1>2. [QueueNext]_queueVars
  BY DEF Enqueues, QueueNext
<1>3. imp[i] \in Import /\ imp[i].sessions \subseteq Captures /\ imp[i].found \subseteq Captures
  BY DEF ProgressInv, Import
<1>4. /\ to \in {"drains", "enqueues"}
      /\ to = "drains" => F = {}
      /\ F \subseteq Captures
  BY <1>3
<1>5. HasRow(c)'
  <2>1. TypeOK
    BY DEF ProgressInv, IInv
  <2>2. CASE jobs[c].status = "absent"
    <3>1. jobs'[c] = Row("pending", 0, NoOwner, 0)
      BY <2>1, <2>2 DEF Enqueues, EnqueueCapture, TypeOK
    <3> QED BY <3>1 DEF HasRow, Row
  <2>3. CASE jobs[c].status # "absent"
    BY <2>3 DEF Enqueues, EnqueueCapture, HasRow
  <2> QED BY <2>2, <2>3
<1>6. \A d \in Captures : HasRow(d) => HasRow(d)'
  BY <1>2, RowsStay DEF ProgressInv
<1>7. \A d \in Own(i) \ F : HasRow(d)'
  <2>1. \A d \in Own(i) \ imp[i].found : HasRow(d)
    BY <1>1 DEF ProgressInv, ProgressOf
  <2> QED BY <1>3, <1>5, <1>6, <2>1 DEF Own
<1> HIDE DEF to, F
<1>8. r \in Import /\ r.pc = to /\ r.sessions = imp[i].sessions /\ r.found = F
  BY <1>3, <1>4 DEF Import
<1> HIDE DEF r
<1>9. imp'[i] = r /\ Own(i)' = Own(i)
  BY <1>1, <1>8 DEF ProgressInv, Own
<1>10. ProgressOf(i)'
  BY <1>4, <1>7, <1>8, <1>9 DEF ProgressOf
<1>11. Books'
  BY <1>2, SameBooks DEF Enqueues
<1> QED BY <1>1, <1>2, <1>8, <1>10, <1>11, OneImport

LEMMA DrainEndsPath ==
  ASSUME ProgressInv, NEW i \in Imports, DrainEnds(i)
  PROVE  Books' /\ imp' \in [Imports -> Import] /\ \A k \in Imports : ProgressOf(k)'
<1> DEFINE r == [imp[i] EXCEPT !.pc = "looksAgain"]
<1>1. imp' = [imp EXCEPT ![i] = r] /\ UNCHANGED queueVars /\ jobs' = jobs
  BY DEF DrainEnds, queueVars
<1>2. imp[i] \in Import /\ imp[i].sessions \subseteq Captures /\ imp[i].pc = "drains"
  BY DEF ProgressInv, Import, DrainEnds, At
<1>3. \A c \in Own(i) : Ended(c)
  <2>1. \A c \in Own(i) : HasRow(c) /\ c \in Captures
    BY <1>2 DEF ProgressInv, ProgressOf, Own
  <2> QED BY <2>1 DEF DrainEnds, Quiet, HasRow, Ended
<1>4. r \in Import /\ r.pc = "looksAgain" /\ r.sessions = imp[i].sessions
  BY <1>2 DEF Import
<1> HIDE DEF r
<1>5. imp'[i] = r /\ Own(i)' = Own(i)
  BY <1>1, <1>4 DEF ProgressInv, Own
<1>6. ProgressOf(i)'
  BY <1>1, <1>3, <1>4, <1>5 DEF ProgressOf, Ended
<1>7. Books'
  BY <1>1, SameBooks DEF DrainEnds
<1> QED BY <1>1, <1>4, <1>6, <1>7, OneImport

LEMMA DiesPath ==
  ASSUME ProgressInv, NEW i \in Imports, Dies(i)
  PROVE  Books' /\ imp' \in [Imports -> Import] /\ \A k \in Imports : ProgressOf(k)'
<1>1. imp' = [imp EXCEPT ![i] = Idle] /\ UNCHANGED queueVars
  BY DEF Dies, queueVars
<1>2. Idle \in Import /\ Idle.pc = "idle"
  BY DEF Idle, Import
<1>3. imp'[i] = Idle
  BY <1>1 DEF ProgressInv
<1>4. ProgressOf(i)'
  BY <1>2, <1>3 DEF ProgressOf
<1>5. Books'
  BY <1>1, SameBooks DEF Dies
<1> QED BY <1>1, <1>2, <1>4, <1>5, OneImport

\* Captures, drains and the clock go on beside the imports.
LEMMA OthersPath ==
  ASSUME ProgressInv, Captured \/ Drained \/ TimePasses
  PROVE  Books' /\ imp' \in [Imports -> Import] /\ \A k \in Imports : ProgressOf(k)'
<1>1. [QueueNext]_queueVars
  BY ImportStep DEF Next
<1>2. imp' = imp /\ accounted' = accounted /\ DOMAIN reserved' = DOMAIN reserved
  BY DEF Captured, Drained, TimePasses, importVars, Reserved
<1> QED BY <1>1, <1>2, NoImport, SameBooks

LEMMA ProgressStep == ProgressInv /\ [Next]_vars => ProgressInv'
<1> SUFFICES ASSUME ProgressInv, [Next]_vars PROVE ProgressInv'
  OBVIOUS
<1> DEFINE Kept2 == Books' /\ imp' \in [Imports -> Import] /\ \A k \in Imports : ProgressOf(k)'
<1>0. IInv'
  <2>1. [QueueNext]_queueVars
    BY ImportStep
  <2>2. CASE QueueNext
    BY <2>2, NextStep DEF ProgressInv, Step
  <2>3. CASE UNCHANGED queueVars
    BY <2>3 DEF queueVars, ProgressInv, IInv, TypeOK, Rows
  <2> QED BY <2>1, <2>2, <2>3
<1>1. ASSUME UNCHANGED vars PROVE Kept2
  <2>1. UNCHANGED queueVars /\ imp' = imp /\ reserved' = reserved /\ accounted' = accounted
    BY <1>1 DEF vars, queueVars
  <2> QED BY <2>1, NoImport, SameBooks
<1>2. ASSUME NEW i \in Imports, Start(i) PROVE Kept2
  BY <1>2, StartPath
<1>3. ASSUME NEW i \in Imports,
             Looks(i, "looks", "settles") \/ Looks(i, "looksAgain", "settlesAgain")
      PROVE  Kept2
  BY <1>3, LooksPath
<1>4. ASSUME NEW i \in Imports,
             \/ Settles(i, "settles", "reserves")
             \/ Settles(i, "settles", "plans")
             \/ Settles(i, "settlesAgain", "idle")
      PROVE  Kept2
  BY <1>4, SettlesPath
<1>5. ASSUME NEW i \in Imports, Reserves(i) PROVE Kept2
  BY <1>5, ReservesPath
<1>6. ASSUME NEW i \in Imports, Plans(i) PROVE Kept2
  BY <1>6, PlansPath
<1>7. ASSUME NEW i \in Imports, NEW c \in Captures, Enqueues(i, c) PROVE Kept2
  BY <1>7, EnqueuesPath
<1>8. ASSUME NEW i \in Imports, DrainEnds(i) PROVE Kept2
  BY <1>8, DrainEndsPath
<1>9. ASSUME NEW i \in Imports, Dies(i) PROVE Kept2
  BY <1>9, DiesPath
<1>10. ASSUME Captured \/ Drained \/ TimePasses PROVE Kept2
  BY <1>10, OthersPath
<1>11. Kept2
  <2> HIDE DEF Kept2
  <2> QED BY <1>1, <1>2, <1>3, <1>4, <1>5, <1>6, <1>7, <1>8, <1>9, <1>10 DEF Next
<1> QED BY <1>0, <1>11 DEF ProgressInv, Books

-----------------------------------------------------------------------------

\* What is known of each import, and of the books, holds in every reachable state.
THEOREM ProgressCorrect == ImportSpec => []ProgressInv
BY PathInit, ProgressStep, PTL DEF ImportSpec

\* An import that runs to its end leaves no money reserved for a session it imported,
\* whatever other imports, captures and drains did meanwhile.
THEOREM EndCorrect == ImportSpec => EndsReserveNothing
<1> DEFINE A == \A i \in Imports :
                  Settles(i, "settlesAgain", "idle")
                    => (imp[i].sessions \ Processed) \cap DOMAIN reserved' = {}
<1>1. ASSUME ProgressInv, NEW i \in Imports, Settles(i, "settlesAgain", "idle")
      PROVE  (imp[i].sessions \ Processed) \cap DOMAIN reserved' = {}
  <2>1. CASE imp[i].sessions = {}
    BY <2>1
  <2>2. CASE imp[i].sessions # {}
    <3>1. DOMAIN reserved' = Kept
      BY <1>1, <2>2 DEF Settles
    <3>2. \A c \in Own(i) : Ended(c)
      BY <1>1 DEF ProgressInv, ProgressOf, Settles, At
    <3>3. \A c \in Kept : ~Ended(c)
      BY DEF Kept, Keeps, Ended, InStatus
    <3> QED BY <3>1, <3>2, <3>3 DEF Own
  <2> QED BY <2>1, <2>2
<1>2. ProgressInv /\ [Next]_vars => [A]_vars
  BY <1>1
<1> QED BY <1>2, ProgressCorrect, PTL DEF ImportSpec, EndsReserveNothing

-----------------------------------------------------------------------------
(* Sums.  The community modules define a sum over a set as the fold that     *)
(* some recursive function computes.  Here every summand is 0 or 1, so it    *)
(* is the number of ones: that number satisfies the recursion, and by        *)
(* induction over the subsets nothing else does.                             *)

Ones(f, S) == {c \in S : f[c] = 1}

AnElement(S) == CHOOSE x \in S : TRUE

\* g adds up f over the subsets of S, the way MapThenFoldSet does.
AddsUp(g, f, S) ==
  g = [s \in SUBSET S |->
         IF s = {} THEN 0 ELSE f[AnElement(s)] + g[s \ {AnElement(s)}]]

\* Without one of its elements a set has as many ones less as the element counts.
LEMMA OneLess ==
  ASSUME NEW S, IsFiniteSet(S), NEW f \in [S -> 0..1], NEW s \in SUBSET S, NEW x \in s
  PROVE  Cardinality(Ones(f, s)) = f[x] + Cardinality(Ones(f, s \ {x}))
<1> DEFINE A == Ones(f, s)
<1>1. IsFiniteSet(A) /\ Cardinality(A) \in Nat
  <2>1. A \in SUBSET S
    BY DEF Ones
  <2> HIDE DEF A
  <2> QED BY <2>1, FS_Subset, FS_CardinalityType
<1>2. f[x] \in {0, 1} /\ Ones(f, s \ {x}) = A \ {x} /\ (x \in A <=> f[x] = 1)
  BY DEF Ones
<1> HIDE DEF A
<1>3. Cardinality(A \ {x}) = IF x \in A THEN Cardinality(A) - 1 ELSE Cardinality(A)
  BY <1>1, FS_RemoveElement
<1>4. Cardinality(A) = f[x] + Cardinality(A \ {x})
  BY <1>1, <1>2, <1>3
<1> QED BY <1>2, <1>4 DEF A

LEMMA OnesAddUp ==
  ASSUME NEW S, IsFiniteSet(S), NEW f \in [S -> 0..1]
  PROVE  AddsUp([s \in SUBSET S |-> Cardinality(Ones(f, s))], f, S)
<1> DEFINE g == [s \in SUBSET S |-> Cardinality(Ones(f, s))]
<1>1. ASSUME NEW s \in SUBSET S
      PROVE  g[s] = IF s = {} THEN 0 ELSE f[AnElement(s)] + g[s \ {AnElement(s)}]
  <2>1. CASE s = {}
    <3>1. Ones(f, s) = {}
      BY <2>1 DEF Ones
    <3> QED BY <2>1, <3>1, FS_EmptySet
  <2>2. CASE s # {}
    <3>1. AnElement(s) \in s
      BY <2>2 DEF AnElement
    <3>2. PICK x \in s : x = AnElement(s)
      BY <3>1
    <3>3. g[s \ {x}] = Cardinality(Ones(f, s \ {x})) /\ g[s] = Cardinality(Ones(f, s))
      OBVIOUS
    <3> HIDE DEF g
    <3>4. g[s] = f[x] + g[s \ {x}]
      BY <3>3, OneLess
    <3> QED BY <2>2, <3>2, <3>4
  <2> QED BY <2>1, <2>2
<1>2. g = [s \in SUBSET S |-> g[s]]
  OBVIOUS
<1> HIDE DEF g
<1>3. AddsUp(g, f, S)
  BY <1>1, <1>2 DEF AddsUp
<1> QED BY <1>3 DEF g

\* Whatever adds up f counts the ones: take a least subset where it does not.
LEMMA AddsUpOnes ==
  ASSUME NEW S, IsFiniteSet(S), NEW f \in [S -> 0..1], NEW g, AddsUp(g, f, S)
  PROVE  g[S] = Cardinality(Ones(f, S))
<1> DEFINE Bad == {s \in SUBSET S : g[s] # Cardinality(Ones(f, s))}
           R == StrictSubsetOrdering(S)
           F == FiniteSubsetsOf(S)
<1>1. IsWellFoundedOn(R, F)
  BY FS_StrictSubsetOrderingWellFounded
<1>2. Bad \subseteq F
  <2> SUFFICES ASSUME NEW s \in SUBSET S PROVE s \in FiniteSubsetsOf(S)
    OBVIOUS
  <2> QED BY FS_Subset DEF FiniteSubsetsOf
<1>3. ASSUME Bad # {} PROVE FALSE
  <2>0. \A s, t : <<t, s>> \in R <=> s \in SUBSET S /\ t \in SUBSET s /\ t # s
    BY DEF StrictSubsetOrdering
  <2> HIDE DEF Bad, R, F
  <2>1. PICK s \in Bad : \A t \in Bad : ~ (<<t, s>> \in R)
    BY <1>1, <1>2, <1>3, WFMin
  <2>2. s \in SUBSET S /\ g[s] # Cardinality(Ones(f, s))
    BY <2>1 DEF Bad
  <2>3. g[s] = IF s = {} THEN 0 ELSE f[AnElement(s)] + g[s \ {AnElement(s)}]
    BY <2>2 DEF AddsUp
  <2>4. CASE s = {}
    <3>1. Ones(f, s) = {}
      BY <2>4 DEF Ones
    <3> QED BY <2>2, <2>3, <2>4, <3>1, FS_EmptySet
  <2>5. CASE s # {}
    <3>1. AnElement(s) \in s
      BY <2>5 DEF AnElement
    <3>2. PICK x \in s : x = AnElement(s)
      BY <3>1
    <3>3. <<s \ {x}, s>> \in R /\ s \ {x} \in SUBSET S
      BY <2>0, <2>2
    <3>4. g[s \ {x}] = Cardinality(Ones(f, s \ {x}))
      BY <2>1, <3>3 DEF Bad
    <3>5. Cardinality(Ones(f, s)) = f[x] + Cardinality(Ones(f, s \ {x}))
      BY <2>2, OneLess
    <3> QED BY <2>2, <2>3, <2>5, <3>2, <3>4, <3>5
  <2> QED BY <2>4, <2>5
<1> QED BY <1>3

\* What a set of sessions cost is the number of those that cost anything.
LEMMA CostIsCount ==
  ASSUME NEW S \in SUBSET Captures
  PROVE  CostOf(S) = Cardinality(Ones(Cost, S))
<1>1. IsFiniteSet(S)
  BY ImportAssumption, FS_Subset
<1> DEFINE f == [c \in S |-> Cost[c]]
           P(g) == g = [s \in SUBSET S |-> IF s = {} THEN 0
                          ELSE Cost[CHOOSE x \in s : TRUE] + g[s \ {CHOOSE x \in s : TRUE}]]
<1>2. CostOf(S) = (CHOOSE g : P(g))[S]
  BY DEF CostOf, MapThenSumSet, MapThenFoldSet
<1>3. f \in [S -> 0..1]
  BY ImportAssumption
<1>4. ASSUME NEW g PROVE P(g) <=> AddsUp(g, f, S)
  <2>1. \A s \in SUBSET S : s # {} => f[AnElement(s)] = Cost[AnElement(s)]
    BY DEF AnElement
  <2> QED BY <2>1 DEF AddsUp, AnElement
<1>5. Ones(f, S) = Ones(Cost, S)
  BY DEF Ones
<1> HIDE DEF f, P
<1>6. \E g : P(g)
  BY <1>1, <1>3, <1>4, OnesAddUp
<1>7. P(CHOOSE g : P(g))
  BY <1>6
<1> QED BY <1>1, <1>2, <1>3, <1>4, <1>5, <1>7, AddsUpOnes

\* What they may cost, the same way.
MayCosts == [c \in Captures |-> MayCost(c)]

LEMMA MayCostIsCount ==
  ASSUME NEW S \in SUBSET Captures
  PROVE  MapThenSumSet(MayCost, S) = Cardinality(Ones(MayCosts, S))
<1>1. IsFiniteSet(S)
  BY ImportAssumption, FS_Subset
<1> DEFINE f == [c \in S |-> MayCost(c)]
           P(g) == g = [s \in SUBSET S |-> IF s = {} THEN 0
                          ELSE MayCost(CHOOSE x \in s : TRUE) + g[s \ {CHOOSE x \in s : TRUE}]]
<1>2. MapThenSumSet(MayCost, S) = (CHOOSE g : P(g))[S]
  BY DEF MapThenSumSet, MapThenFoldSet
<1>3. f \in [S -> 0..1]
  BY ImportAssumption DEF MayCost
<1>4. ASSUME NEW g PROVE P(g) <=> AddsUp(g, f, S)
  <2>1. \A s \in SUBSET S : s # {} => f[AnElement(s)] = MayCost(AnElement(s))
    BY DEF AnElement
  <2> QED BY <2>1 DEF AddsUp, AnElement
<1>5. Ones(f, S) = Ones(MayCosts, S)
  BY DEF Ones, MayCosts
<1> HIDE DEF f, P
<1>6. \E g : P(g)
  BY <1>1, <1>3, <1>4, OnesAddUp
<1>7. P(CHOOSE g : P(g))
  BY <1>6
<1> QED BY <1>1, <1>2, <1>3, <1>4, <1>5, <1>7, AddsUpOnes

-----------------------------------------------------------------------------
(* The books.  A session an import may spend money on is reserved, accounted *)
(* for, or dead, and what is reserved was granted: so what a reservation is  *)
(* refused or granted by is never less than what the granted sessions may    *)
(* cost.                                                                     *)

Backed == \A c \in granted : c \in Reserved \/ c \in accounted \/ InStatus(c, {"dead"})
WithinLimit == Cardinality(Ones(MayCosts, granted)) <= MaxCost

BooksInv ==
  /\ ProgressInv
  /\ \A c \in Reserved : reserved[c] \in 0..ReservationTicks
  /\ granted \subseteq Captures
  /\ total = Cardinality(Ones(Cost, accounted))
  /\ Backed
  /\ Reserved \subseteq granted
  /\ WithinLimit

LEMMA CountOnes ==
  ASSUME NEW f, NEW S \in SUBSET Captures
  PROVE  /\ IsFiniteSet(Ones(f, S)) /\ Cardinality(Ones(f, S)) \in Nat
         /\ \A T \in SUBSET Captures :
              Ones(f, S) \subseteq Ones(f, T) =>
                Cardinality(Ones(f, S)) <= Cardinality(Ones(f, T))
<1>1. \A T \in SUBSET Captures : IsFiniteSet(Ones(f, T))
  <2> SUFFICES ASSUME NEW T \in SUBSET Captures PROVE IsFiniteSet(Ones(f, T))
    OBVIOUS
  <2>1. Ones(f, T) \in SUBSET Captures
    BY DEF Ones
  <2> QED BY <2>1, ImportAssumption, FS_Subset
<1>2. Cardinality(Ones(f, S)) \in Nat
  BY <1>1, FS_CardinalityType
<1>3. ASSUME NEW T \in SUBSET Captures, Ones(f, S) \subseteq Ones(f, T)
      PROVE  Cardinality(Ones(f, S)) <= Cardinality(Ones(f, T))
  BY <1>1, <1>3, FS_Subset
<1> QED BY <1>1, <1>2, <1>3

\* Sessions that are newly accounted for add what they cost, once.
LEMMA Adds ==
  ASSUME BooksInv, NEW new \in SUBSET Captures, new \cap accounted = {},
         accounted' = accounted \cup new, total' = total + CostOf(new)
  PROVE  /\ total' = Cardinality(Ones(Cost, accounted'))
         /\ total' \in Nat
<1> DEFINE A == Ones(Cost, accounted)
           N == Ones(Cost, new)
<1>1. accounted \in SUBSET Captures /\ total = Cardinality(A)
  BY DEF BooksInv, ProgressInv
<1>2. CostOf(new) = Cardinality(N)
  BY CostIsCount
<1>3. /\ IsFiniteSet(A) /\ IsFiniteSet(N)
      /\ Cardinality(A) \in Nat /\ Cardinality(N) \in Nat
  BY <1>1, CountOnes
<1>4. Ones(Cost, accounted') = A \cup N /\ A \cap N = {}
  BY DEF Ones
<1> HIDE DEF A, N
<1>5. Cardinality(A \cup N) = Cardinality(A) + Cardinality(N)
  <2>1. Cardinality(A \cap N) = 0
    BY <1>4, FS_EmptySet
  <2>2. Cardinality(A \cup N) = Cardinality(A) + Cardinality(N) - Cardinality(A \cap N)
    BY <1>3, FS_Union
  <2> QED BY <1>3, <2>1, <2>2
<1>6. total' = Cardinality(A) + Cardinality(N)
  BY <1>1, <1>2 DEF N
<1> QED BY <1>3, <1>4, <1>5, <1>6

\* What a session may cost never grows, and a dead one stays dead.
LEMMA CostsFall ==
  ASSUME IInv, [QueueNext]_queueVars, NEW c \in Captures
  PROVE  /\ MayCosts'[c] = 1 => MayCosts[c] = 1
         /\ InStatus(c, {"dead"}) => InStatus(c, {"dead"})'
<1>1. jobs[c].status \in Terminal => jobs'[c] = jobs[c]
  <2>1. CASE QueueNext
    BY <2>1, NextStep DEF Step
  <2>2. CASE UNCHANGED queueVars
    BY <2>2 DEF queueVars
  <2> QED BY <2>1, <2>2
<1>2. MayCosts[c] = MayCost(c) /\ MayCosts'[c] = MayCost(c)'
  BY DEF MayCosts
<1>3. CASE jobs[c].status \in Terminal
  BY <1>1, <1>2, <1>3 DEF MayCost, InStatus
<1>4. CASE jobs[c].status \notin Terminal
  BY <1>2, <1>4 DEF MayCost, InStatus
<1> QED BY <1>3, <1>4

\* A step that does not touch the books.
LEMMA BooksStay ==
  ASSUME BooksInv, [QueueNext]_queueVars, UNCHANGED <<accounted, total, granted>>,
         DOMAIN reserved' = DOMAIN reserved,
         \A c \in Reserved : reserved'[c] \in 0..ReservationTicks,
         ProgressInv'
  PROVE  BooksInv'
<1>1. IInv /\ granted \subseteq Captures /\ Reserved' = Reserved
  BY DEF BooksInv, ProgressInv, Reserved
<1>2. Backed'
  BY <1>1, CostsFall DEF BooksInv, Backed
<1>3. Ones(MayCosts', granted) \subseteq Ones(MayCosts, granted)
  BY <1>1, CostsFall DEF Ones
<1>4. WithinLimit'
  <2>1. /\ Cardinality(Ones(MayCosts', granted)) \in Nat
        /\ Cardinality(Ones(MayCosts, granted)) \in Nat
        /\ IsFiniteSet(Ones(MayCosts, granted))
    BY <1>1, CountOnes
  <2>2. Cardinality(Ones(MayCosts', granted)) <= Cardinality(Ones(MayCosts, granted))
    BY <1>3, <2>1, FS_Subset
  <2>3. WithinLimit /\ MaxCost \in Nat
    BY ImportAssumption DEF BooksInv
  <2>4. Cardinality(Ones(MayCosts', granted)) <= MaxCost
    BY <2>1, <2>2, <2>3 DEF WithinLimit
  <2> QED BY <2>4 DEF WithinLimit
<1>5. total' = Cardinality(Ones(Cost, accounted'))
  BY DEF BooksInv
<1> QED BY <1>1, <1>2, <1>4, <1>5 DEF BooksInv, Reserved

\* A granted session that may still cost something is accounted for after the books are
\* read, or its reservation is kept, unless it was given up.
LEMMA GrantedAfter ==
  ASSUME BooksInv, NEW c \in granted \ GivenUp, ~InStatus(c, {"dead"})
  PROVE  c \in accounted \cup Unaccounted(Paid) \/ c \in Kept
<1>1. c \in Captures /\ (c \in Reserved \/ c \in accounted)
  BY DEF BooksInv, Backed
<1>2. TypeOK /\ jobs[c] \in Job
  BY <1>1 DEF BooksInv, ProgressInv, IInv, TypeOK
<1>3. jobs[c].status \in {"absent", "pending", "leased", "succeeded", "failed", "dead"}
  BY <1>2 DEF Job, Status, Terminal
<1>4. c \in Reserved => reserved[c] \in 0..ReservationTicks
  BY DEF BooksInv
<1>5. c \in Reserved => reserved[c] = 0 \/ reserved[c] > 0
  BY <1>4, ImportAssumption
<1> QED BY <1>1, <1>3, <1>5 DEF GivenUp, Kept, Keeps, Paid, Unaccounted, InStatus

LEMMA SettlesBooks ==
  ASSUME BooksInv, NEW i \in Imports, NEW from, NEW to, Settles(i, from, to),
         from \in {"settles", "settlesAgain"}, ProgressInv'
  PROVE  BooksInv'
<1>1. jobs' = jobs /\ UNCHANGED queueVars
  BY DEF Settles, queueVars
<1>2. CASE imp[i].sessions = {}
  <2>1. UNCHANGED <<reserved, accounted, total, granted>>
    BY <1>2 DEF Settles
  <2> QED BY <1>1, <2>1, BooksStay DEF BooksInv, Reserved
<1>3. CASE imp[i].sessions # {}
  <2> DEFINE new == Unaccounted(imp[i].found \cup Paid)
  <2>1. /\ accounted' = accounted \cup new
        /\ total' = total + CostOf(new)
        /\ reserved' = [c \in Kept |-> reserved[c]]
        /\ granted' = granted \ GivenUp
    BY <1>3 DEF Settles
  <2>2. imp[i] \in Import /\ imp[i].found \subseteq Captures /\ Reserved \subseteq Captures
    BY DEF BooksInv, ProgressInv, Import
  <2>3. new \in SUBSET Captures /\ new \cap accounted = {}
    BY <2>2 DEF Unaccounted, Paid
  <2>4. Unaccounted(Paid) \subseteq new
    BY DEF Unaccounted
  <2> HIDE DEF new
  <2>5. total' = Cardinality(Ones(Cost, accounted'))
    BY <2>1, <2>3, Adds
  <2>6. Kept \subseteq Reserved /\ Kept \cap GivenUp = {}
    BY DEF Kept, Keeps, GivenUp, InStatus
  <2>7. granted' \subseteq granted /\ granted' \subseteq Captures /\ Reserved' = Kept
    BY <2>1 DEF BooksInv, Reserved
  <2>8. Backed'
    BY <1>1, <2>1, <2>4, <2>7, GrantedAfter DEF Backed, InStatus
  <2>9. WithinLimit'
    <3>1. MayCosts' = MayCosts
      BY <1>1 DEF MayCosts, MayCost, InStatus
    <3>2. Ones(MayCosts, granted') \subseteq Ones(MayCosts, granted)
      BY <2>7 DEF Ones
    <3>3. granted \in SUBSET Captures /\ granted' \in SUBSET Captures
      BY <2>7 DEF BooksInv
    <3>4. /\ Cardinality(Ones(MayCosts, granted')) \in Nat
          /\ Cardinality(Ones(MayCosts, granted)) \in Nat
          /\ Cardinality(Ones(MayCosts, granted')) <= Cardinality(Ones(MayCosts, granted))
      BY <3>2, <3>3, CountOnes
    <3>5. WithinLimit /\ MaxCost \in Nat
      BY ImportAssumption DEF BooksInv
    <3>6. Cardinality(Ones(MayCosts, granted')) <= MaxCost
      BY <3>4, <3>5 DEF WithinLimit
    <3> QED BY <3>1, <3>6 DEF WithinLimit
  <2>10. \A c \in Reserved' : reserved'[c] \in 0..ReservationTicks
    BY <2>1, <2>6, <2>7 DEF BooksInv
  <2>11. Reserved' \subseteq granted'
    BY <2>1, <2>6, <2>7 DEF BooksInv
  <2> QED BY <2>5, <2>7, <2>8, <2>9, <2>10, <2>11 DEF BooksInv
<1> QED BY <1>2, <1>3

\* How many sessions a reservation grants: no more than there is money for.
LEMMA GrantedNumber ==
  ASSUME NEW a \in Int, NEW b \in Nat
  PROVE  /\ Max({0, Min({a, b})}) \in Nat
         /\ Max({0, Min({a, b})}) = 0 \/ Max({0, Min({a, b})}) <= a
<1>1. PICK m \in {a, b} : m = Min({a, b}) /\ m <= a /\ m <= b
  <2>1. \E m \in {a, b} : \A y \in {a, b} : m <= y
    BY DEF Min
  <2> QED BY <2>1 DEF Min
<1>2. PICK x \in {0, m} : x = Max({0, m}) /\ x >= 0 /\ x >= m
  <2>1. \E x \in {0, m} : \A y \in {0, m} : x >= y
    OBVIOUS
  <2> QED BY <2>1 DEF Max
<1>3. m \in Int
  BY <1>1
<1>4. x \in Nat /\ (x = 0 \/ x <= a)
  BY <1>1, <1>2, <1>3
<1> QED BY <1>1, <1>2, <1>4

\* The size of three sets together.
LEMMA ThreeSets ==
  ASSUME NEW A, NEW B, NEW C, IsFiniteSet(A), IsFiniteSet(B), IsFiniteSet(C),
         NEW G, G \subseteq A \cup B \cup C
  PROVE  /\ Cardinality(G) \in Nat /\ Cardinality(A) \in Nat
         /\ Cardinality(B) \in Nat /\ Cardinality(C) \in Nat
         /\ Cardinality(G) <= Cardinality(A) + Cardinality(B) + Cardinality(C)
<1>1. /\ IsFiniteSet(A \cup B) /\ IsFiniteSet(A \cap B) /\ IsFiniteSet((A \cup B) \cap C)
      /\ IsFiniteSet((A \cup B) \cup C)
  BY FS_Union, FS_Intersection
<1>2. /\ Cardinality(A \cup B) = Cardinality(A) + Cardinality(B) - Cardinality(A \cap B)
      /\ Cardinality((A \cup B) \cup C)
           = Cardinality(A \cup B) + Cardinality(C) - Cardinality((A \cup B) \cap C)
  BY <1>1, FS_Union
<1>3. IsFiniteSet(G) /\ Cardinality(G) <= Cardinality((A \cup B) \cup C)
  BY <1>1, FS_Subset
<1>4. /\ Cardinality(A) \in Nat /\ Cardinality(B) \in Nat /\ Cardinality(C) \in Nat
      /\ Cardinality(A \cup B) \in Nat /\ Cardinality(A \cap B) \in Nat
      /\ Cardinality((A \cup B) \cup C) \in Nat /\ Cardinality((A \cup B) \cap C) \in Nat
      /\ Cardinality(G) \in Nat
  BY <1>1, <1>3, FS_CardinalityType
<1> QED BY <1>2, <1>3, <1>4

LEMMA ReservesBooks ==
  ASSUME BooksInv, NEW i \in Imports, Reserves(i), ProgressInv'
  PROVE  BooksInv'
<1> DEFINE new == Unaccounted(Paid)
           free == imp[i].sessions \ (accounted \cup new \cup Kept)
           spare == LeftToSpend(total + CostOf(new), Kept)
           over == {c \in imp[i].sessions \cap Kept : MayTakeOver(c)}
<1>1. /\ accounted' = accounted \cup new /\ total' = total + CostOf(new)
      /\ jobs' = jobs
  BY DEF Reserves
<1>2. PICK chosen \in SUBSET free :
        /\ Cardinality(chosen) = Max({0, Min({spare, Cardinality(free)})})
        /\ reserved' = [c \in Kept \cup chosen |->
                          IF c \in over \cup chosen THEN ReservationTicks ELSE reserved[c]]
        /\ granted' = (granted \ GivenUp) \cup over \cup chosen
  BY DEF Reserves
<1>3. /\ imp[i].sessions \subseteq Captures /\ Reserved \subseteq Captures
      /\ Reserved \subseteq granted /\ granted \subseteq Captures
  BY DEF BooksInv, ProgressInv, Import
<1>4. /\ free \in SUBSET Captures /\ over \subseteq Kept
      /\ new \in SUBSET Captures /\ new \cap accounted = {}
  BY <1>3 DEF Unaccounted, Paid
<1>5. /\ Kept \subseteq Reserved /\ Kept \in SUBSET Captures /\ Kept \cap GivenUp = {}
  BY <1>3 DEF Kept, Keeps, GivenUp, InStatus
<1>6. spare = MaxCost - (total + CostOf(new)) - Cardinality(Kept)
  BY DEF LeftToSpend
<1> HIDE DEF free, spare, over
<1>7. chosen \in SUBSET Captures /\ Reserved' = Kept \cup chosen
  BY <1>2, <1>4 DEF Reserved
<1>8. total' = Cardinality(Ones(Cost, accounted')) /\ total' \in Nat
  <2> HIDE DEF new
  <2> QED BY <1>1, <1>4, Adds
<1>9. granted' \subseteq Captures /\ Reserved' \subseteq granted'
  BY <1>2, <1>3, <1>4, <1>5, <1>7
<1>10. \A c \in granted' : ~InStatus(c, {"dead"}) => c \in accounted' \/ c \in Kept \cup chosen
  BY <1>1, <1>2, <1>4, GrantedAfter
<1>11. Backed'
  BY <1>1, <1>7, <1>10 DEF Backed, InStatus
<1>12. \A c \in Reserved' : reserved'[c] \in 0..ReservationTicks
  BY <1>2, <1>5, <1>7, ImportAssumption DEF BooksInv
<1>13. MayCosts' = MayCosts
  BY <1>1 DEF MayCosts, MayCost, InStatus
<1>14. Cardinality(Ones(MayCosts, granted')) <= MaxCost
  <2>1. CASE chosen = {}
    <3>1. Ones(MayCosts, granted') \subseteq Ones(MayCosts, granted)
      BY <1>2, <1>3, <1>4, <1>5, <2>1 DEF Ones
    <3>2. /\ Cardinality(Ones(MayCosts, granted')) \in Nat
          /\ Cardinality(Ones(MayCosts, granted)) \in Nat
          /\ Cardinality(Ones(MayCosts, granted')) <= Cardinality(Ones(MayCosts, granted))
      BY <1>3, <1>9, <3>1, CountOnes
    <3>3. WithinLimit /\ MaxCost \in Nat
      BY ImportAssumption DEF BooksInv
    <3> QED BY <3>2, <3>3 DEF WithinLimit
  <2>2. CASE chosen # {}
    <3> DEFINE A == Ones(Cost, accounted')
               G == Ones(MayCosts, granted')
    <3>1. G \subseteq A \cup Kept \cup chosen
      <4> SUFFICES ASSUME NEW c \in granted', MayCosts[c] = 1, c \notin Kept \cup chosen
                   PROVE  c \in accounted' /\ Cost[c] = 1
        BY DEF Ones
      <4>1. c \in Captures /\ MayCost(c) = 1
        BY <1>9 DEF MayCosts
      <4>2. ~InStatus(c, {"dead"})
        BY <4>1 DEF MayCost, InStatus
      <4>3. c \in accounted'
        BY <1>10, <4>2
      <4>4. InStatus(c, {"succeeded"})
        BY <1>1, <4>3 DEF ProgressInv, InStatus
      <4> QED BY <4>1, <4>3, <4>4 DEF MayCost
    <3>2. IsFiniteSet(A) /\ IsFiniteSet(Kept) /\ IsFiniteSet(chosen) /\ IsFiniteSet(free)
      <4>1. accounted' \in SUBSET Captures
        BY DEF ProgressInv
      <4> HIDE DEF A
      <4>2. IsFiniteSet(A)
        BY <4>1, CountOnes DEF A
      <4> QED BY <1>4, <1>5, <1>7, <4>2, ImportAssumption, FS_Subset
    <3> HIDE DEF A, G
    <3>3. /\ Cardinality(G) \in Nat /\ Cardinality(A) \in Nat
          /\ Cardinality(Kept) \in Nat /\ Cardinality(chosen) \in Nat
          /\ Cardinality(G) <= Cardinality(A) + Cardinality(Kept) + Cardinality(chosen)
      BY <3>1, <3>2, ThreeSets
    <3>4. Cardinality(A) = total' /\ total' = total + CostOf(new)
      BY <1>1, <1>8 DEF A
    <3>5. spare = MaxCost - total' - Cardinality(Kept) /\ spare \in Int
      BY <1>6, <1>8, <3>3, <3>4, ImportAssumption
    <3>6. Cardinality(chosen) # 0
      BY <2>2, <3>2, FS_EmptySet
    <3>7. Cardinality(chosen) <= spare
      <4>1. Cardinality(free) \in Nat
        BY <3>2, FS_CardinalityType
      <4> QED BY <1>2, <3>5, <3>6, <4>1, GrantedNumber
    <3>8. Cardinality(G) <= MaxCost
      <4>1. MaxCost \in Nat
        BY ImportAssumption
      <4> QED BY <1>8, <3>3, <3>4, <3>5, <3>7, <4>1
    <3> QED BY <3>8 DEF G
  <2> QED BY <2>1, <2>2
<1>15. WithinLimit'
  BY <1>13, <1>14 DEF WithinLimit
<1> QED BY <1>8, <1>9, <1>11, <1>12, <1>15 DEF BooksInv

LEMMA BooksInit == Init => BooksInv
<1> SUFFICES ASSUME Init PROVE BooksInv
  OBVIOUS
<1>1. ProgressInv
  BY PathInit
<1>2. Reserved = {} /\ accounted = {} /\ granted = {} /\ total = 0
  BY DEF Init, Reserved
<1>3. Ones(Cost, accounted) = {} /\ Ones(MayCosts, granted) = {}
  BY <1>2 DEF Ones
<1>4. MaxCost \in Nat /\ Cardinality({}) = 0
  BY ImportAssumption, FS_EmptySet
<1> QED BY <1>1, <1>2, <1>3, <1>4 DEF BooksInv, Backed, WithinLimit

LEMMA BooksStep == BooksInv /\ [Next]_vars => BooksInv'
<1> SUFFICES ASSUME BooksInv, [Next]_vars PROVE BooksInv'
  OBVIOUS
<1>1. ProgressInv' /\ [QueueNext]_queueVars
  BY ProgressStep, ImportStep DEF BooksInv
<1>2. \A c \in Reserved : reserved[c] \in 0..ReservationTicks
  BY DEF BooksInv
<1>3. ASSUME UNCHANGED <<reserved, accounted, total, granted>>
      PROVE  BooksInv'
  BY <1>1, <1>2, <1>3, BooksStay
<1>4. ASSUME TimePasses PROVE BooksInv'
  <2>1. /\ reserved' = [c \in Reserved |-> IF reserved[c] > 0 THEN reserved[c] - 1 ELSE 0]
        /\ UNCHANGED <<accounted, total, granted>>
    BY <1>4 DEF TimePasses
  <2>2. DOMAIN reserved' = DOMAIN reserved
    BY <2>1 DEF Reserved
  <2>3. \A c \in Reserved : reserved'[c] \in 0..ReservationTicks
    BY <1>2, <2>1, ImportAssumption
  <2> QED BY <1>1, <2>1, <2>2, <2>3, BooksStay
<1>5. ASSUME NEW i \in Imports,
             \/ Settles(i, "settles", "reserves")
             \/ Settles(i, "settles", "plans")
             \/ Settles(i, "settlesAgain", "idle")
      PROVE  BooksInv'
  BY <1>1, <1>5, SettlesBooks
<1>6. ASSUME NEW i \in Imports, Reserves(i) PROVE BooksInv'
  BY <1>1, <1>6, ReservesBooks
<1>7. CASE UNCHANGED vars
  BY <1>3, <1>7 DEF vars
<1>8. ASSUME NEW i \in Imports,
             \/ Start(i)
             \/ Looks(i, "looks", "settles") \/ Looks(i, "looksAgain", "settlesAgain")
             \/ Plans(i) \/ DrainEnds(i) \/ Dies(i)
             \/ \E c \in Captures : Enqueues(i, c)
      PROVE  BooksInv'
  BY <1>3, <1>8 DEF Start, Looks, Plans, DrainEnds, Dies, Enqueues
<1>9. CASE Captured \/ Drained
  BY <1>3, <1>9 DEF Captured, Drained, importVars
<1> QED BY <1>4, <1>5, <1>6, <1>7, <1>8, <1>9 DEF Next

\* What the books say holds in every reachable state.
THEOREM BooksCorrect == ImportSpec => []BooksInv
BY BooksInit, BooksStep, PTL DEF ImportSpec

\* The import's state stays within its types.
THEOREM ImportTypeCorrect == ImportSpec => []ImportTypeOK
<1>1. BooksInv => ImportTypeOK
  <2> SUFFICES ASSUME BooksInv PROVE ImportTypeOK
    OBVIOUS
  <2>1. accounted \in SUBSET Captures
    BY DEF BooksInv, ProgressInv
  <2>2. total \in Nat
    BY <2>1, CountOnes DEF BooksInv
  <2> QED BY <2>1, <2>2 DEF BooksInv, ProgressInv, IInv, ImportTypeOK
<1> QED BY <1>1, BooksCorrect, PTL

\* The total in state.json is what the accounted sessions cost, each counted once, and
\* all of them succeeded: however many imports settle from what they saw before they had
\* the lock, are killed in between, and run again.
THEOREM TotalCorrect == ImportSpec => []TotalIsExact
<1>1. BooksInv => TotalIsExact
  <2> SUFFICES ASSUME BooksInv PROVE TotalIsExact
    OBVIOUS
  <2>1. accounted \in SUBSET Captures
    BY DEF BooksInv, ProgressInv
  <2> QED BY <2>1, CostIsCount DEF BooksInv, ProgressInv, TotalIsExact
<1> QED BY <1>1, BooksCorrect, PTL

\* Imports with --max-cost together stay within the limit, whatever their sessions may
\* still cost, unless a reservation was given up.
THEOREM LimitCorrect == ImportSpec => []LimitKept
<1>1. BooksInv => LimitKept
  BY MayCostIsCount DEF BooksInv, WithinLimit, LimitKept
<1> QED BY <1>1, BooksCorrect, PTL
=============================================================================
