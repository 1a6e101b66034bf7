--------------------------- MODULE JobQueue_proofs ---------------------------
(***************************************************************************)
(* Proofs about JobQueue, for any sets of captures and owners and any      *)
(* bounds.  The invariants of the module are not inductive one by one: a   *)
(* retry keeps "one terminal event" only because the run of a leased job   *)
(* is running, and keeps the mirror only because runs and jobs are changed *)
(* together.  RowInv puts them side by side for one row of each table; the *)
(* lemmas say that each kind of update keeps it.                           *)
(***************************************************************************)
EXTENDS JobQueue, TLAPS

USE DEF Claimable, Terminal

\* The inductive invariant, for the job j and the run r of one capture.
RowInv(j, r) ==
  /\ r.state # "none" => j.status # "absent" /\ r.state = SynthesizedStatus[j.status]
  /\ r.ends = IF r.state \in Terminal THEN 1 ELSE 0
  /\ r.attempt <= j.attempts
  /\ j.status \in Claimable => j.attempts < MaxAttempts
  /\ j.status = "dead" => j.attempts = MaxAttempts
  /\ j.status = "absent" => j.attempts = 0
  /\ j.status = "leased" <=> j.owner # NoOwner

Rows == \A c \in Captures : RowInv(jobs[c], runs[c])
IInv == TypeOK /\ Rows

-----------------------------------------------------------------------------
(* Updates of one run.                                                     *)

LEMMA SynthesizedType ==
  ASSUME NEW s \in Status, s # "absent"
  PROVE  /\ SynthesizedStatus[s] \in RunState \ {"none"}
         /\ SynthesizedStatus[s] \in Terminal <=> s \in Terminal
  BY DEF SynthesizedStatus, Status, RunState

LEMMA TransitionedRun ==
  ASSUME NEW r \in Run, NEW s \in RunState
  PROVE  /\ Transitioned(r, s) \in Run
         /\ Transitioned(r, s).state = s
         /\ Transitioned(r, s).attempt = r.attempt
         /\ Transitioned(r, s).ends = IF s \in Terminal THEN r.ends + 1 ELSE r.ends
<1> DEFINE e == IF s \in Terminal THEN r.ends + 1 ELSE r.ends
<1>1. Transitioned(r, s) = [r EXCEPT !.state = s, !.ends = e]
  BY DEF Transitioned
<1>2. e \in Nat
  BY DEF Run
<1> HIDE DEF e
<1> DEFINE x == [r EXCEPT !.state = s, !.ends = e]
<1>3. x \in Run /\ x.state = s /\ x.attempt = r.attempt /\ x.ends = e
  BY <1>2 DEF Run
<1> QED BY <1>1, <1>3 DEF e

LEMMA NoRunType == NoRun \in Run
  BY QueueAssumption DEF NoRun, Run, RunState

\* _ensure_job_run_unlocked yields a run that mirrors the job, and never one
\* with an older attempt than the run that was there.
LEMMA EnsuredRunMirrors ==
  ASSUME TypeOK, Rows, NEW c \in Captures, jobs[c].status # "absent"
  PROVE  /\ EnsuredRun(c) \in Run
         /\ RowInv(jobs[c], EnsuredRun(c))
         /\ EnsuredRun(c).state = SynthesizedStatus[jobs[c].status]
         /\ EnsuredRun(c).attempt >= runs[c].attempt
<1> DEFINE j == jobs[c]
<1> DEFINE s == SynthesizedStatus[j.status]
<1>1. j \in Job /\ runs[c] \in Run /\ RowInv(j, runs[c])
  BY DEF TypeOK, Rows
<1>2. s \in RunState \ {"none"} /\ (s \in Terminal <=> j.status \in Terminal)
  BY <1>1, SynthesizedType DEF Job
<1>3. CASE runs[c].state = "none"
  <2>1. Transitioned(NoRun, s) \in Run
        /\ Transitioned(NoRun, s).state = s
        /\ Transitioned(NoRun, s).ends = IF s \in Terminal THEN 1 ELSE 0
    BY <1>2, NoRunType, TransitionedRun DEF NoRun
  <2>2. EnsuredRun(c) = [Transitioned(NoRun, s) EXCEPT !.attempt = j.attempts]
    BY <1>3 DEF EnsuredRun, Synthesized
  <2>3. j.attempts \in 0..MaxAttempts
    BY <1>1 DEF Job
  <2>4. /\ EnsuredRun(c) \in Run
        /\ EnsuredRun(c).state = s
        /\ EnsuredRun(c).ends = IF s \in Terminal THEN 1 ELSE 0
        /\ EnsuredRun(c).attempt = j.attempts
    BY <2>1, <2>2, <2>3 DEF Run
  <2>5. EnsuredRun(c).attempt >= runs[c].attempt
    BY <2>3, <2>4, <1>1 DEF RowInv, Run
  <2> QED BY <1>1, <2>3, <2>4, <2>5, QueueAssumption DEF RowInv
<1>4. CASE runs[c].state # "none"
  <2>1. EnsuredRun(c) = runs[c]
    BY <1>4 DEF EnsuredRun
  <2>2. runs[c].attempt \in Int
    BY <1>1 DEF Run
  <2> QED BY <1>1, <1>4, <2>1, <2>2 DEF RowInv
<1> QED BY <1>3, <1>4

\* A leased job that is returned, by a retry or by recovery, keeps its row
\* consistent: its budget decides between another attempt and death.
LEMMA ReturnedRow ==
  ASSUME TypeOK, Rows, NEW c \in Captures, jobs[c].status = "leased",
         NEW d \in 0..MaxDelay
  PROVE  /\ Returned(jobs[c], d) \in Job
         /\ ReturnedRun(c) \in Run
         /\ RowInv(Returned(jobs[c], d), ReturnedRun(c))
         /\ ReturnedRun(c).attempt >= runs[c].attempt
<1> DEFINE j == jobs[c]
<1> DEFINE s == IF Exhausted(j) THEN "dead" ELSE "retrying"
<1>1. j \in Job /\ RowInv(j, EnsuredRun(c)) /\ EnsuredRun(c) \in Run
      /\ EnsuredRun(c).state = "running" /\ EnsuredRun(c).attempt >= runs[c].attempt
  BY EnsuredRunMirrors DEF TypeOK, SynthesizedStatus
<1>2. s \in RunState
  BY DEF RunState
<1>3. /\ ReturnedRun(c) \in Run
      /\ ReturnedRun(c).state = s
      /\ ReturnedRun(c).attempt = EnsuredRun(c).attempt
      /\ ReturnedRun(c).ends = IF s \in Terminal THEN EnsuredRun(c).ends + 1
                               ELSE EnsuredRun(c).ends
  BY <1>1, <1>2, TransitionedRun DEF ReturnedRun
<1>4. EnsuredRun(c).ends = 0
  BY <1>1 DEF RowInv
<1>5. /\ Returned(j, d) \in Job
      /\ Returned(j, d).status = IF Exhausted(j) THEN "dead" ELSE "failed"
      /\ Returned(j, d).attempts = j.attempts
      /\ Returned(j, d).owner = NoOwner
  <2> DEFINE st == IF Exhausted(j) THEN "dead" ELSE "failed"
  <2>1. Returned(j, d) = [j EXCEPT !.status = st, !.owner = NoOwner, !.lease = 0, !.due = d]
    BY DEF Returned
  <2>2. st \in Status
    BY DEF Status
  <2>3. d \in (-MaxAge)..MaxDelay /\ 0 \in 0..LeaseTicks
    BY QueueAssumption
  <2> HIDE DEF st
  <2> DEFINE x == [j EXCEPT !.status = st, !.owner = NoOwner, !.lease = 0, !.due = d]
  <2>4. x \in Job /\ x.status = st /\ x.attempts = j.attempts /\ x.owner = NoOwner
    BY <1>1, <2>2, <2>3 DEF Job
  <2> QED BY <2>1, <2>4 DEF st
<1>6. j.attempts \in 0..MaxAttempts
  BY <1>1 DEF Job
<1>7. RowInv(Returned(j, d), ReturnedRun(c))
  <2>1. CASE Exhausted(j)
    BY <2>1, <1>1, <1>3, <1>4, <1>5, <1>6, QueueAssumption
       DEF RowInv, SynthesizedStatus, Exhausted
  <2>2. CASE ~Exhausted(j)
    BY <2>2, <1>1, <1>3, <1>4, <1>5, <1>6, QueueAssumption
       DEF RowInv, SynthesizedStatus, Exhausted
  <2> QED BY <2>1, <2>2
<1> QED BY <1>1, <1>3, <1>5, <1>7

\* A step that rewrites the rows of one capture, consistently.
LEMMA OneRow ==
  ASSUME TypeOK, Rows, NEW c \in Captures, NEW j \in Job, NEW r \in Run,
         RowInv(j, r), r.attempt >= runs[c].attempt,
         jobs[c].status \in Terminal => j = jobs[c],
         jobs' = [jobs EXCEPT ![c] = j], runs' = [runs EXCEPT ![c] = r]
  PROVE  /\ IInv'
         /\ \A d \in Captures : /\ jobs[d].status \in Terminal => jobs'[d] = jobs[d]
                                /\ runs'[d].attempt >= runs[d].attempt
<1>1. TypeOK'
  BY DEF TypeOK
<1>2. \A d \in Captures : /\ jobs'[d] = IF d = c THEN j ELSE jobs[d]
                          /\ runs'[d] = IF d = c THEN r ELSE runs[d]
  BY DEF TypeOK
<1>3. Rows'
  BY <1>2 DEF Rows
<1>4. \A d \in Captures : runs[d].attempt \in Int
  BY DEF TypeOK, Run
<1>5. \A d \in Captures : /\ jobs[d].status \in Terminal => jobs'[d] = jobs[d]
                          /\ runs'[d].attempt >= runs[d].attempt
  BY <1>2, <1>4
<1> QED BY <1>1, <1>3, <1>5 DEF IInv

\* What every step of the queue does.
Step ==
  /\ IInv'
  /\ \A d \in Captures : /\ jobs[d].status \in Terminal => jobs'[d] = jobs[d]
                         /\ runs'[d].attempt >= runs[d].attempt

-----------------------------------------------------------------------------
(* The operations, one lemma each.                                         *)

LEMMA EnqueueStep ==
  ASSUME IInv, NEW c \in Captures, EnqueueCapture(c)
  PROVE  Step
<1>0. TypeOK /\ Rows /\ jobs[c] \in Job /\ runs[c] \in Run /\ RowInv(jobs[c], runs[c])
  BY DEF IInv, TypeOK, Rows
<1>1. CASE jobs[c].status = "absent"
  <2> DEFINE j == Row("pending", 0, NoOwner, 0)
  <2> DEFINE r == Transitioned(NoRun, "queued")
  <2>1. jobs' = [jobs EXCEPT ![c] = j] /\ runs' = [runs EXCEPT ![c] = r]
    BY <1>1 DEF EnqueueCapture
  <2>2. j \in Job /\ j.status = "pending" /\ j.attempts = 0 /\ j.owner = NoOwner
    BY QueueAssumption DEF Row, Job, Status
  <2>3. r \in Run /\ r.state = "queued" /\ r.attempt = 0 /\ r.ends = 0
    BY NoRunType, TransitionedRun DEF NoRun, RunState
  <2>4. RowInv(j, r)
    BY <2>2, <2>3, QueueAssumption DEF RowInv, SynthesizedStatus
  <2>5. runs[c].attempt = 0
    BY <1>0, <1>1 DEF RowInv, Run, Job, TypeOK
  <2>6. r.attempt >= runs[c].attempt /\ jobs[c].status \notin Terminal
    BY <2>3, <2>5, <1>1
  <2> HIDE DEF j, r
  <2> QED BY <1>0, <2>1, <2>2, <2>3, <2>4, <2>6, OneRow DEF Step
<1>2. CASE jobs[c].status # "absent"
  <2> DEFINE r == EnsuredRun(c)
  <2>1. jobs' = [jobs EXCEPT ![c] = jobs[c]] /\ runs' = [runs EXCEPT ![c] = r]
    BY <1>0, <1>2 DEF EnqueueCapture, TypeOK
  <2>2. r \in Run /\ RowInv(jobs[c], r) /\ r.attempt >= runs[c].attempt
    BY <1>0, <1>2, EnsuredRunMirrors
  <2> QED BY <1>0, <2>1, <2>2, OneRow DEF Step
<1> QED BY <1>1, <1>2

LEMMA ClaimStep ==
  ASSUME IInv, NEW o \in Owners, NEW c \in Captures, ClaimNext(o, c)
  PROVE  Step
<1> DEFINE j == [jobs[c] EXCEPT !.status = "leased", !.attempts = jobs[c].attempts + 1,
                                !.owner = o, !.lease = LeaseTicks]
<1> DEFINE r == Transitioned(EnsuredRun(c), "running")
<1>1. /\ TypeOK /\ Rows
      /\ jobs[c] \in Job /\ RowInv(jobs[c], runs[c]) /\ jobs[c].status \in Claimable
  BY DEF IInv, TypeOK, Rows, ClaimNext, Ready
<1>2. jobs' = [jobs EXCEPT ![c] = j] /\ runs' = [runs EXCEPT ![c] = r]
  BY DEF ClaimNext
<1>3. /\ EnsuredRun(c) \in Run /\ RowInv(jobs[c], EnsuredRun(c))
      /\ EnsuredRun(c).attempt >= runs[c].attempt
      /\ EnsuredRun(c).state = SynthesizedStatus[jobs[c].status]
  BY <1>1, EnsuredRunMirrors
<1>4. jobs[c].attempts < MaxAttempts /\ jobs[c].attempts \in 0..MaxAttempts
  BY <1>1 DEF RowInv, Job
<1>5. j \in Job /\ j.status = "leased" /\ j.attempts = jobs[c].attempts + 1 /\ j.owner = o
  <2>1. "leased" \in Status /\ jobs[c].attempts + 1 \in 0..MaxAttempts /\ LeaseTicks \in 0..LeaseTicks
    BY <1>4, QueueAssumption DEF Status
  <2> QED BY <1>1, <2>1 DEF Job
<1>6. /\ r \in Run /\ r.state = "running" /\ r.attempt = EnsuredRun(c).attempt
      /\ r.ends = EnsuredRun(c).ends
  BY <1>3, TransitionedRun DEF RunState
<1>7. EnsuredRun(c).ends = 0 /\ EnsuredRun(c).attempt \in Int
  BY <1>1, <1>3 DEF RowInv, SynthesizedStatus, Run
<1>8. RowInv(j, r)
  BY <1>3, <1>4, <1>5, <1>6, <1>7, QueueAssumption DEF RowInv, SynthesizedStatus
<1> HIDE DEF j, r
<1> QED BY <1>1, <1>2, <1>3, <1>5, <1>6, <1>8, OneRow DEF Step

LEMMA RenewStep ==
  ASSUME IInv, NEW o \in Owners, NEW c \in Captures, Renew(c, o)
  PROVE  Step
<1> DEFINE j == [jobs[c] EXCEPT !.lease = LeaseTicks]
<1>1. /\ TypeOK /\ Rows /\ jobs[c] \in Job /\ runs[c] \in Run
      /\ RowInv(jobs[c], runs[c]) /\ jobs[c].status = "leased"
  BY DEF IInv, TypeOK, Rows, Renew, HeldBy
<1>2. jobs' = [jobs EXCEPT ![c] = j] /\ runs' = [runs EXCEPT ![c] = runs[c]]
  BY <1>1 DEF Renew, TypeOK
<1>3. /\ j \in Job /\ j.status = jobs[c].status /\ j.attempts = jobs[c].attempts
      /\ j.owner = jobs[c].owner
  BY <1>1, QueueAssumption DEF Job
<1>4. RowInv(j, runs[c]) /\ runs[c].attempt >= runs[c].attempt
  BY <1>1, <1>3 DEF RowInv, Run
<1> HIDE DEF j
<1> QED BY <1>1, <1>2, <1>3, <1>4, OneRow DEF Step

LEMMA CompleteStep ==
  ASSUME IInv, NEW o \in Owners, NEW c \in Captures, Complete(c, o)
  PROVE  Step
<1> DEFINE j == [jobs[c] EXCEPT !.status = "succeeded", !.owner = NoOwner, !.lease = 0]
<1> DEFINE r == Transitioned(EnsuredRun(c), "succeeded")
<1>1. /\ TypeOK /\ Rows /\ jobs[c] \in Job /\ runs[c] \in Run
      /\ RowInv(jobs[c], runs[c]) /\ jobs[c].status = "leased"
  BY DEF IInv, TypeOK, Rows, Complete, HeldBy
<1>2. jobs' = [jobs EXCEPT ![c] = j] /\ runs' = [runs EXCEPT ![c] = r]
  BY DEF Complete
<1>3. /\ EnsuredRun(c) \in Run /\ RowInv(jobs[c], EnsuredRun(c))
      /\ EnsuredRun(c).attempt >= runs[c].attempt
      /\ EnsuredRun(c).state = "running"
  BY <1>1, EnsuredRunMirrors DEF SynthesizedStatus
<1>4. /\ j \in Job /\ j.status = "succeeded" /\ j.attempts = jobs[c].attempts
      /\ j.owner = NoOwner
  <2>1. "succeeded" \in Status /\ 0 \in 0..LeaseTicks
    BY QueueAssumption DEF Status
  <2> QED BY <1>1, <2>1 DEF Job
<1>5. /\ r \in Run /\ r.state = "succeeded" /\ r.attempt = EnsuredRun(c).attempt
      /\ r.ends = 1
  BY <1>3, TransitionedRun DEF RunState, RowInv
<1>6. RowInv(j, r)
  BY <1>3, <1>4, <1>5 DEF RowInv, SynthesizedStatus
<1> HIDE DEF j, r
<1> QED BY <1>1, <1>2, <1>3, <1>4, <1>5, <1>6, OneRow DEF Step

LEMMA RetryStep ==
  ASSUME IInv, NEW o \in Owners, NEW c \in Captures, NEW d \in 0..MaxDelay, Retry(c, o, d)
  PROVE  Step
<1>1. TypeOK /\ Rows /\ jobs[c].status = "leased"
  BY DEF IInv, Retry, HeldBy
<1>2. /\ jobs' = [jobs EXCEPT ![c] = Returned(jobs[c], d)]
      /\ runs' = [runs EXCEPT ![c] = ReturnedRun(c)]
  BY DEF Retry
<1> QED BY <1>1, <1>2, ReturnedRow, OneRow DEF Step

LEMMA RecoverStep ==
  ASSUME IInv, RecoverStale
  PROVE  Step
<1>1. TypeOK /\ Rows /\ 0 \in 0..MaxDelay
  BY QueueAssumption DEF IInv
<1>2. ASSUME NEW c \in Captures
      PROVE  /\ jobs'[c] \in Job /\ runs'[c] \in Run /\ RowInv(jobs'[c], runs'[c])
             /\ jobs[c].status \in Terminal => jobs'[c] = jobs[c]
             /\ runs'[c].attempt >= runs[c].attempt
  <2>1. CASE Stale(c)
    <3>1. jobs[c].status = "leased"
      BY <2>1 DEF Stale
    <3>2. jobs'[c] = Returned(jobs[c], 0) /\ runs'[c] = ReturnedRun(c)
      BY <2>1 DEF RecoverStale
    <3> QED BY <1>1, <3>1, <3>2, ReturnedRow
  <2>2. CASE ~Stale(c)
    <3>1. jobs'[c] = jobs[c] /\ runs'[c] = runs[c]
      BY <2>2 DEF RecoverStale
    <3> QED BY <1>1, <3>1 DEF TypeOK, Rows, Run
  <2> QED BY <2>1, <2>2
<1>3. TypeOK'
  <2>1. DOMAIN jobs' = Captures /\ DOMAIN runs' = Captures
        /\ jobs' = [c \in Captures |-> jobs'[c]] /\ runs' = [c \in Captures |-> runs'[c]]
    BY DEF RecoverStale
  <2> QED BY <1>2, <2>1 DEF TypeOK
<1> QED BY <1>2, <1>3 DEF Step, IInv, Rows

LEMMA EventStep ==
  ASSUME IInv, NEW o \in Owners, NEW c \in Captures, NEW n \in 1..MaxAttempts,
         AppendJobEvent(c, o, n)
  PROVE  Step
<1> DEFINE r == [runs[c] EXCEPT !.attempt = n]
<1>1. /\ TypeOK /\ Rows /\ jobs[c] \in Job /\ runs[c] \in Run
      /\ RowInv(jobs[c], runs[c]) /\ jobs[c].attempts = n
  BY DEF IInv, TypeOK, Rows, AppendJobEvent
<1>2. jobs' = [jobs EXCEPT ![c] = jobs[c]] /\ runs' = [runs EXCEPT ![c] = r]
  BY <1>1 DEF AppendJobEvent, TypeOK
<1>3. /\ r \in Run /\ r.state = runs[c].state /\ r.ends = runs[c].ends /\ r.attempt = n
      /\ r.attempt >= runs[c].attempt
  BY <1>1, QueueAssumption DEF Run, RowInv
<1>4. RowInv(jobs[c], r)
  BY <1>1, <1>3 DEF RowInv
<1> HIDE DEF r
<1> QED BY <1>1, <1>2, <1>3, <1>4, OneRow DEF Step

LEMMA TickStep ==
  ASSUME IInv, Tick
  PROVE  Step
<1>1. TypeOK /\ Rows /\ runs' = runs
  BY DEF IInv, Tick
<1>2. ASSUME NEW c \in Captures
      PROVE  /\ jobs'[c] \in Job /\ RowInv(jobs'[c], runs[c])
             /\ jobs[c].status \in Terminal => jobs'[c] = jobs[c]
  <2> DEFINE l == IF jobs[c].lease > 0 THEN jobs[c].lease - 1 ELSE 0
  <2> DEFINE j == [jobs[c] EXCEPT !.lease = l, !.due = Earlier(jobs[c].due)]
  <2>1. jobs[c] \in Job /\ RowInv(jobs[c], runs[c])
    BY <1>1 DEF TypeOK, Rows
  <2>2. CASE jobs[c].status \in {"absent"} \cup Terminal
    BY <2>1, <2>2 DEF Tick
  <2>3. CASE jobs[c].status \notin {"absent"} \cup Terminal
    <3>1. jobs'[c] = j
      BY <2>3 DEF Tick
    <3>2. l \in 0..LeaseTicks /\ Earlier(jobs[c].due) \in (-MaxAge)..MaxDelay
      BY <2>1, QueueAssumption DEF Job, Earlier
    <3> HIDE DEF l
    <3>3. /\ j \in Job /\ j.status = jobs[c].status /\ j.attempts = jobs[c].attempts
          /\ j.owner = jobs[c].owner
      BY <2>1, <3>2 DEF Job
    <3> HIDE DEF j
    <3> QED BY <2>1, <2>3, <3>1, <3>3 DEF RowInv
  <2> QED BY <2>2, <2>3
<1>3. TypeOK'
  <2>1. jobs' = [c \in Captures |-> jobs'[c]]
    BY DEF Tick
  <2> QED BY <1>1, <1>2, <2>1 DEF TypeOK
<1>4. \A c \in Captures : runs[c].attempt >= runs[c].attempt
  BY <1>1 DEF TypeOK, Run
<1> QED BY <1>1, <1>2, <1>3, <1>4 DEF Step, IInv, Rows

-----------------------------------------------------------------------------
(* The theorems.                                                           *)

LEMMA InitRows == QueueInit => IInv
<1> SUFFICES ASSUME QueueInit PROVE IInv
  OBVIOUS
<1>1. {NoJob} \cup LegacyJobs \subseteq {j \in Job : RowInv(j, NoRun)}
  <2> SUFFICES ASSUME NEW j \in {NoJob} \cup LegacyJobs
               PROVE  j \in Job /\ RowInv(j, NoRun)
    OBVIOUS
  <2> DEFINE Legal(t, n, o, l) ==
               /\ t \in Status /\ n \in 0..MaxAttempts
               /\ o \in Owners \cup {NoOwner} /\ l \in 0..LeaseTicks
               /\ t \in Claimable => n < MaxAttempts
               /\ t = "dead" => n = MaxAttempts
               /\ t = "absent" => n = 0
               /\ t = "leased" <=> o # NoOwner
  <2>1. \E t, n, o, l : j = Row(t, n, o, l) /\ Legal(t, n, o, l)
    <3>1. 0 \in 0..MaxAttempts /\ 0 \in 0..LeaseTicks /\ LeaseTicks \in 0..LeaseTicks
          /\ MaxAttempts \in 0..MaxAttempts /\ 0 < MaxAttempts
      BY QueueAssumption
    <3>2. {"absent", "pending", "failed", "leased", "succeeded", "dead"} = Status
      BY DEF Status
    <3>3. CASE j = NoJob
      <4>1. Legal("absent", 0, NoOwner, 0)
        BY <3>1, <3>2, QueueAssumption
      <4> QED BY <3>3, <4>1 DEF NoJob
    <3>4. CASE j = Row("pending", 0, NoOwner, 0)
      <4>1. Legal("pending", 0, NoOwner, 0)
        BY <3>1, <3>2, QueueAssumption
      <4> QED BY <3>4, <4>1
    <3>5. CASE j = Row("dead", MaxAttempts, NoOwner, 0)
      <4>1. Legal("dead", MaxAttempts, NoOwner, 0)
        BY <3>1, <3>2, QueueAssumption
      <4> QED BY <3>5, <4>1
    <3>6. ASSUME NEW n \in 1..(MaxAttempts - 1), j = Row("failed", n, NoOwner, 0)
          PROVE  \E t, m, o, l : j = Row(t, m, o, l) /\ Legal(t, m, o, l)
      <4>1. Legal("failed", n, NoOwner, 0)
        BY <3>1, <3>2, QueueAssumption
      <4> HIDE DEF Legal
      <4> QED BY <3>6, <4>1
    <3>7. ASSUME NEW n \in 1..MaxAttempts, j = Row("succeeded", n, NoOwner, 0)
          PROVE  \E t, m, o, l : j = Row(t, m, o, l) /\ Legal(t, m, o, l)
      <4>1. Legal("succeeded", n, NoOwner, 0)
        BY <3>1, <3>2, QueueAssumption
      <4> HIDE DEF Legal
      <4> QED BY <3>7, <4>1
    <3>8. ASSUME NEW n \in 1..MaxAttempts, NEW w \in Owners, j = Row("leased", n, w, LeaseTicks)
          PROVE  \E t, m, o, l : j = Row(t, m, o, l) /\ Legal(t, m, o, l)
      <4>1. Legal("leased", n, w, LeaseTicks)
        BY <3>1, <3>2, QueueAssumption
      <4> HIDE DEF Legal
      <4> QED BY <3>8, <4>1
    <3> HIDE DEF Legal
    <3>9. j = NoJob \/ j \in LegacyJobs
      OBVIOUS
    <3> QED BY <3>3, <3>4, <3>5, <3>6, <3>7, <3>8, <3>9 DEF LegacyJobs
  <2>2. PICK t, n, o, l : j = Row(t, n, o, l) /\ Legal(t, n, o, l)
    BY <2>1
  <2>3. j \in Job
    BY <2>2, QueueAssumption DEF Row, Job
  <2> QED BY <2>2, <2>3 DEF RowInv, NoRun, Row
<1>2. jobs \in [Captures -> {NoJob} \cup LegacyJobs] /\ runs = [c \in Captures |-> NoRun]
  BY DEF QueueInit, InitJobs
<1>3. TypeOK
  BY <1>1, <1>2, NoRunType DEF TypeOK
<1> QED BY <1>1, <1>2, <1>3 DEF IInv, Rows

LEMMA NextStep == IInv /\ QueueNext => Step
<1> SUFFICES ASSUME IInv, QueueNext PROVE Step
  OBVIOUS
<1>1. ASSUME NEW c \in Captures, EnqueueCapture(c) PROVE Step
  BY <1>1, EnqueueStep
<1>2. ASSUME NEW o \in Owners, NEW c \in Captures, ClaimNext(o, c) PROVE Step
  BY <1>2, ClaimStep
<1>3. ASSUME NEW o \in Owners, NEW c \in Captures, Renew(c, o) PROVE Step
  BY <1>3, RenewStep
<1>4. ASSUME NEW o \in Owners, NEW c \in Captures, Complete(c, o) PROVE Step
  BY <1>4, CompleteStep
<1>5. ASSUME NEW o \in Owners, NEW c \in Captures, NEW d \in 0..MaxDelay, Retry(c, o, d)
      PROVE  Step
  BY <1>5, RetryStep
<1>6. ASSUME RecoverStale PROVE Step
  BY <1>6, RecoverStep
<1>7. ASSUME NEW o \in Owners, NEW c \in Captures, NEW n \in 1..MaxAttempts,
             AppendJobEvent(c, o, n)
      PROVE  Step
  BY <1>7, EventStep
<1>8. ASSUME Tick PROVE Step
  BY <1>8, TickStep
<1> QED BY <1>1, <1>2, <1>3, <1>4, <1>5, <1>6, <1>7, <1>8 DEF QueueNext

\* The inductive invariant holds in every reachable state.
THEOREM Invariance == QueueSpec => []IInv
<1>1. QueueInit => IInv
  BY InitRows
<1>2. IInv /\ [QueueNext]_queueVars => IInv'
  <2>1. ASSUME IInv, UNCHANGED queueVars PROVE IInv'
    BY <2>1 DEF queueVars, IInv, TypeOK, Rows
  <2> QED BY <2>1, NextStep DEF Step
<1> QED BY <1>1, <1>2, PTL DEF QueueSpec

\* Type correctness of the jobs and status_runs tables.
THEOREM TypeCorrect == QueueSpec => []TypeOK
<1>1. IInv => TypeOK
  BY DEF IInv
<1> QED BY <1>1, Invariance, PTL

\* The status run of a job always shows the job's status.
THEOREM MirrorCorrect == QueueSpec => []RunMirrorsJob
<1>1. IInv => RunMirrorsJob
  BY DEF IInv, Rows, RowInv, RunMirrorsJob
<1> QED BY <1>1, Invariance, PTL

\* Attempts stay within the budget, and only the budget kills a job.
THEOREM BudgetCorrect == QueueSpec => []RetryBudget
<1>1. IInv => RetryBudget
  BY DEF IInv, Rows, RowInv, RetryBudget
<1> QED BY <1>1, Invariance, PTL

\* A lease has an owner exactly while the job is leased.
THEOREM LeaseCorrect == QueueSpec => []LeaseOwned
<1>1. IInv => LeaseOwned
  BY DEF IInv, Rows, RowInv, LeaseOwned
<1> QED BY <1>1, Invariance, PTL

\* Each timeline ends once.
THEOREM TimelineEndsOnce == QueueSpec => []OneTerminalEvent
<1>1. IInv => OneTerminalEvent
  BY DEF IInv, Rows, RowInv, OneTerminalEvent
<1> QED BY <1>1, Invariance, PTL

\* Succeeded and dead jobs are never touched again.
THEOREM TerminalCorrect == QueueSpec => TerminalIsFinal
<1>1. IInv /\ [QueueNext]_queueVars
        => [\A c \in Captures : jobs[c].status \in Terminal => jobs'[c] = jobs[c]]_queueVars
  BY NextStep DEF Step
<1> QED BY <1>1, Invariance, PTL DEF QueueSpec, TerminalIsFinal

\* Attempt numbers in a timeline never go back.
THEOREM TimelineCorrect == QueueSpec => TimelineNeverGoesBack
<1>1. IInv /\ [QueueNext]_queueVars
        => [\A c \in Captures : runs'[c].attempt >= runs[c].attempt]_queueVars
  BY NextStep DEF Step
<1> QED BY <1>1, Invariance, PTL DEF QueueSpec, TimelineNeverGoesBack

-----------------------------------------------------------------------------
(* The refinement: the tables implement JobLifecycle.                      *)

stages == [c \in Captures |-> StageOf(jobs[c])]
attempts == [c \in Captures |-> jobs[c].attempts]

\* The mapping, one status at a time.
LEMMA StageOfStatus ==
  ASSUME NEW j \in Job
  PROVE  /\ j.status \in Claimable <=> StageOf(j) = "waiting"
         /\ j.status = "leased" <=> StageOf(j) = "held"
         /\ j.status = "absent" <=> StageOf(j) = "absent"
         /\ j.status = "succeeded" <=> StageOf(j) = "succeeded"
         /\ j.status = "dead" <=> StageOf(j) = "dead"
  BY DEF StageOf, Job, Status

\* Rows that keep their status and attempts keep the abstract state.
LEMMA SameStage ==
  ASSUME \A c \in Captures : /\ jobs'[c].status = jobs[c].status
                             /\ jobs'[c].attempts = jobs[c].attempts
  PROVE  UNCHANGED Lifecycle!lifeVars
<1>1. \A c \in Captures : StageOf(jobs'[c]) = StageOf(jobs[c])
  BY DEF StageOf
<1>2. stages' = stages /\ attempts' = attempts
  BY <1>1 DEF stages, attempts
<1> QED BY <1>2 DEF Lifecycle!lifeVars, stages, attempts

\* A rewrite of one row changes the abstract state of that capture only.
LEMMA OneStage ==
  ASSUME TypeOK, NEW c \in Captures, NEW j \in Job, jobs' = [jobs EXCEPT ![c] = j]
  PROVE  /\ stages' = [stages EXCEPT ![c] = StageOf(j)]
         /\ attempts' = [attempts EXCEPT ![c] = j.attempts]
<1>1. \A d \in Captures : jobs'[d] = IF d = c THEN j ELSE jobs[d]
  BY DEF TypeOK
<1>2. stages' = [d \in Captures |-> IF d = c THEN StageOf(j) ELSE StageOf(jobs[d])]
  BY <1>1 DEF stages, StageOf
<1>3. attempts' = [d \in Captures |-> IF d = c THEN j.attempts ELSE jobs[d].attempts]
  BY <1>1 DEF attempts
<1> QED BY <1>2, <1>3 DEF stages, attempts

LEMMA LifeInit == QueueInit => Lifecycle!Init
<1> SUFFICES ASSUME QueueInit PROVE Lifecycle!Init
  OBVIOUS
<1>1. TypeOK /\ Rows
  BY InitRows DEF IInv
<1>2. \A c \in Captures : /\ jobs[c] \in Job /\ jobs[c].attempts \in 0..MaxAttempts
                          /\ jobs[c].status \in Status
  BY <1>1 DEF TypeOK, Job
<1>3. \A c \in Captures :
         StageOf(jobs[c]) \in {"absent", "waiting", "held", "succeeded", "dead"}
  BY <1>2 DEF StageOf, Status
<1>4. \A c \in Captures :
         /\ stages[c] = "absent" => attempts[c] = 0
         /\ stages[c] = "waiting" => attempts[c] < MaxAttempts
         /\ stages[c] = "dead" => attempts[c] = MaxAttempts
  BY <1>1, <1>2, StageOfStatus DEF stages, attempts, Rows, RowInv
<1>5. /\ stages \in [Captures -> {"absent", "waiting", "held", "succeeded", "dead"}]
      /\ attempts \in [Captures -> 0..MaxAttempts]
  BY <1>2, <1>3 DEF stages, attempts
<1> QED BY <1>4, <1>5 DEF Lifecycle!Init, stages, attempts

LEMMA LifeEnqueue ==
  ASSUME IInv, NEW c \in Captures, EnqueueCapture(c)
  PROVE  [Lifecycle!Next]_(Lifecycle!lifeVars)
<1>0. TypeOK /\ Rows /\ jobs[c] \in Job
  BY DEF IInv, TypeOK
<1>1. CASE jobs[c].status = "absent"
  <2> DEFINE j == Row("pending", 0, NoOwner, 0)
  <2>1. jobs' = [jobs EXCEPT ![c] = j]
    BY <1>1 DEF EnqueueCapture
  <2>2. j \in Job /\ StageOf(j) = "waiting" /\ j.attempts = 0
    BY QueueAssumption DEF Row, Job, Status, StageOf
  <2> HIDE DEF j
  <2>3. stages' = [stages EXCEPT ![c] = "waiting"] /\ attempts' = [attempts EXCEPT ![c] = 0]
    BY <1>0, <2>1, <2>2, OneStage
  <2>4. stages[c] = "absent" /\ attempts[c] = 0
    BY <1>0, <1>1, StageOfStatus DEF stages, attempts, Rows, RowInv
  <2>5. attempts' = attempts
    BY <2>3, <2>4 DEF attempts
  <2>6. Lifecycle!Submit(c)
    BY <2>3, <2>4, <2>5 DEF Lifecycle!Submit, stages, attempts
  <2> QED BY <2>6 DEF Lifecycle!Next
<1>2. CASE jobs[c].status # "absent"
  BY <1>2, SameStage DEF EnqueueCapture
<1> QED BY <1>1, <1>2

LEMMA LifeClaim ==
  ASSUME IInv, NEW o \in Owners, NEW c \in Captures, ClaimNext(o, c)
  PROVE  [Lifecycle!Next]_(Lifecycle!lifeVars)
<1> DEFINE j == [jobs[c] EXCEPT !.status = "leased", !.attempts = jobs[c].attempts + 1,
                                !.owner = o, !.lease = LeaseTicks]
<1>1. TypeOK /\ Rows /\ jobs[c] \in Job /\ jobs[c].status \in Claimable
  BY DEF IInv, TypeOK, ClaimNext, Ready
<1>2. jobs' = [jobs EXCEPT ![c] = j]
  BY DEF ClaimNext
<1>3. jobs[c].attempts < MaxAttempts /\ jobs[c].attempts \in 0..MaxAttempts
  BY <1>1 DEF Rows, RowInv, Job
<1>4. j \in Job /\ j.status = "leased" /\ j.attempts = jobs[c].attempts + 1
  <2>1. "leased" \in Status /\ jobs[c].attempts + 1 \in 0..MaxAttempts /\ LeaseTicks \in 0..LeaseTicks
    BY <1>3, QueueAssumption DEF Status
  <2> QED BY <1>1, <2>1 DEF Job
<1> HIDE DEF j
<1>5. StageOf(j) = "held" /\ StageOf(jobs[c]) = "waiting"
  BY <1>1, <1>4, StageOfStatus
<1>6. /\ stages' = [stages EXCEPT ![c] = "held"]
      /\ attempts' = [attempts EXCEPT ![c] = jobs[c].attempts + 1]
  BY <1>1, <1>2, <1>4, <1>5, OneStage
<1>7. stages[c] = "waiting" /\ attempts[c] = jobs[c].attempts
  BY <1>5 DEF stages, attempts
<1>8. Lifecycle!Begin(c)
  BY <1>6, <1>7 DEF Lifecycle!Begin, stages, attempts
<1> QED BY <1>8 DEF Lifecycle!Next

LEMMA LifeComplete ==
  ASSUME IInv, NEW o \in Owners, NEW c \in Captures, Complete(c, o)
  PROVE  [Lifecycle!Next]_(Lifecycle!lifeVars)
<1> DEFINE j == [jobs[c] EXCEPT !.status = "succeeded", !.owner = NoOwner, !.lease = 0]
<1>1. TypeOK /\ jobs[c] \in Job /\ jobs[c].status = "leased"
  BY DEF IInv, TypeOK, Complete, HeldBy
<1>2. jobs' = [jobs EXCEPT ![c] = j]
  BY DEF Complete
<1>3. j \in Job /\ j.status = "succeeded" /\ j.attempts = jobs[c].attempts
  <2>1. "succeeded" \in Status /\ 0 \in 0..LeaseTicks
    BY QueueAssumption DEF Status
  <2> QED BY <1>1, <2>1 DEF Job
<1> HIDE DEF j
<1>4. StageOf(j) = "succeeded" /\ StageOf(jobs[c]) = "held"
  BY <1>1, <1>3, StageOfStatus
<1>5. /\ stages' = [stages EXCEPT ![c] = "succeeded"]
      /\ attempts' = [attempts EXCEPT ![c] = jobs[c].attempts]
  BY <1>1, <1>2, <1>3, <1>4, OneStage
<1>6. stages[c] = "held" /\ attempts' = attempts
  BY <1>4, <1>5 DEF stages, attempts
<1>7. Lifecycle!Finish(c)
  BY <1>5, <1>6 DEF Lifecycle!Finish, stages, attempts
<1> QED BY <1>7 DEF Lifecycle!Next

\* Leased jobs returned together are one GiveBack.
LEMMA LifeReturn ==
  ASSUME IInv, NEW S \in SUBSET Captures, NEW d \in 0..MaxDelay,
         \A c \in S : jobs[c].status = "leased",
         \A c \in Captures : jobs'[c] = IF c \in S THEN Returned(jobs[c], d) ELSE jobs[c]
  PROVE  [Lifecycle!Next]_(Lifecycle!lifeVars)
<1>1. TypeOK /\ Rows /\ (\A c \in Captures : jobs[c] \in Job)
  BY DEF IInv, TypeOK
<1>2. \A c \in S : stages[c] = "held"
  BY <1>1, StageOfStatus DEF stages
<1>3. ASSUME NEW c \in Captures
      PROVE  /\ StageOf(jobs'[c]) = IF c \notin S THEN StageOf(jobs[c])
                                    ELSE IF jobs[c].attempts = MaxAttempts THEN "dead"
                                    ELSE "waiting"
             /\ jobs'[c].attempts = jobs[c].attempts
  <2>1. CASE c \notin S
    BY <2>1
  <2>2. CASE c \in S
    <3>1. jobs'[c] = Returned(jobs[c], d) /\ jobs'[c] \in Job
      BY <2>2, <1>1, ReturnedRow
    <3>2. /\ jobs'[c].status = IF Exhausted(jobs[c]) THEN "dead" ELSE "failed"
          /\ jobs'[c].attempts = jobs[c].attempts
      <4> DEFINE st == IF Exhausted(jobs[c]) THEN "dead" ELSE "failed"
      <4>1. jobs'[c] = [jobs[c] EXCEPT !.status = st, !.owner = NoOwner, !.lease = 0, !.due = d]
        BY <3>1 DEF Returned
      <4> HIDE DEF st
      <4>2. jobs'[c].status = st /\ jobs'[c].attempts = jobs[c].attempts
        BY <4>1, <1>1 DEF Job
      <4> QED BY <4>2 DEF st
    <3>3. Exhausted(jobs[c]) <=> jobs[c].attempts = MaxAttempts
      BY <1>1, QueueAssumption DEF Exhausted, Job
    <3> QED BY <2>2, <3>1, <3>2, <3>3, StageOfStatus
  <2> QED BY <2>1, <2>2
<1>4. stages' = [c \in Captures |-> IF c \notin S THEN stages[c]
                                    ELSE IF attempts[c] = MaxAttempts THEN "dead"
                                    ELSE "waiting"]
  BY <1>3 DEF stages, attempts
<1>5. attempts' = attempts
  BY <1>3 DEF attempts
<1>6. Lifecycle!GiveBack(S)
  BY <1>2, <1>4, <1>5 DEF Lifecycle!GiveBack, stages, attempts
<1> QED BY <1>6 DEF Lifecycle!Next

LEMMA LifeNext ==
  ASSUME IInv, [QueueNext]_queueVars
  PROVE  [Lifecycle!Next]_(Lifecycle!lifeVars)
<1>0. TypeOK /\ (\A c \in Captures : jobs[c] \in Job)
  BY DEF IInv, TypeOK
<1>1. ASSUME NEW c \in Captures, EnqueueCapture(c) PROVE [Lifecycle!Next]_(Lifecycle!lifeVars)
  BY <1>1, LifeEnqueue
<1>2. ASSUME NEW o \in Owners, NEW c \in Captures, ClaimNext(o, c) PROVE [Lifecycle!Next]_(Lifecycle!lifeVars)
  BY <1>2, LifeClaim
<1>3. ASSUME NEW o \in Owners, NEW c \in Captures, Renew(c, o) PROVE [Lifecycle!Next]_(Lifecycle!lifeVars)
  <2>1. \A e \in Captures : /\ jobs'[e].status = jobs[e].status
                            /\ jobs'[e].attempts = jobs[e].attempts
    BY <1>0, <1>3 DEF Renew, TypeOK, Job
  <2> QED BY <2>1, SameStage
<1>4. ASSUME NEW o \in Owners, NEW c \in Captures, Complete(c, o) PROVE [Lifecycle!Next]_(Lifecycle!lifeVars)
  BY <1>4, LifeComplete
<1>5. ASSUME NEW o \in Owners, NEW c \in Captures, NEW d \in 0..MaxDelay, Retry(c, o, d)
      PROVE  [Lifecycle!Next]_(Lifecycle!lifeVars)
  <2>1. \A e \in Captures : jobs'[e] = IF e \in {c} THEN Returned(jobs[e], d) ELSE jobs[e]
    BY <1>0, <1>5 DEF Retry, TypeOK
  <2>2. \A e \in {c} : jobs[e].status = "leased"
    BY <1>5 DEF Retry, HeldBy
  <2> QED BY <2>1, <2>2, LifeReturn
<1>6. ASSUME RecoverStale PROVE [Lifecycle!Next]_(Lifecycle!lifeVars)
  <2> DEFINE S == {c \in Captures : Stale(c)}
  <2>1. \A c \in Captures : jobs'[c] = IF c \in S THEN Returned(jobs[c], 0) ELSE jobs[c]
    BY <1>6 DEF RecoverStale
  <2>2. \A c \in S : jobs[c].status = "leased"
    BY DEF Stale
  <2>3. S \in SUBSET Captures /\ 0 \in 0..MaxDelay
    BY QueueAssumption
  <2> HIDE DEF S
  <2> QED BY <2>1, <2>2, <2>3, LifeReturn
<1>7. ASSUME NEW o \in Owners, NEW c \in Captures, NEW n \in 1..MaxAttempts,
             AppendJobEvent(c, o, n)
      PROVE  [Lifecycle!Next]_(Lifecycle!lifeVars)
  BY <1>7, SameStage DEF AppendJobEvent
<1>8. ASSUME Tick PROVE [Lifecycle!Next]_(Lifecycle!lifeVars)
  <2>1. \A c \in Captures : /\ jobs'[c].status = jobs[c].status
                            /\ jobs'[c].attempts = jobs[c].attempts
    BY <1>0, <1>8 DEF Tick, Job
  <2> QED BY <2>1, SameStage
<1>9. ASSUME UNCHANGED queueVars PROVE [Lifecycle!Next]_(Lifecycle!lifeVars)
  BY <1>9, SameStage DEF queueVars
<1>10. CASE QueueNext
  BY <1>10, <1>1, <1>2, <1>3, <1>4, <1>5, <1>6, <1>7, <1>8 DEF QueueNext
<1> QED BY <1>9, <1>10

\* The durable queue implements the life of a job that JobLifecycle promises.
THEOREM LifecycleImplemented == QueueSpec => ImplementsLifecycle
<1>1. QueueInit => Lifecycle!Init
  BY LifeInit
<1>2. IInv /\ [QueueNext]_queueVars => [Lifecycle!Next]_(Lifecycle!lifeVars)
  BY LifeNext
<1> QED BY <1>1, <1>2, Invariance, PTL DEF QueueSpec, ImplementsLifecycle, Lifecycle!Spec
=============================================================================
