------------------------------ MODULE Capture ------------------------------
(***************************************************************************)
(* The hooks that capture a session (hooks/session-end.py, pre-compact.py, *)
(* codex-session-end.py), the child process in which each of them runs     *)
(* scripts/capture.py under a deadline, and what they leave behind: private*)
(* snapshots in scripts/spool, jobs of the queue, lines of hooks.log and   *)
(* failed status runs.                                                     *)
(*                                                                         *)
(* A hook is one process and its capture token.  Its child works on a      *)
(* snapshot of its own, capture-<token>-*.jsonl, which becomes the         *)
(* source_path of the job it inserts.  The snapshot of a capture that      *)
(* fails is published under a name derived from its content,               *)
(* failed-<agent>-<digest>.jsonl, which equivalent captures share.  A      *)
(* deadline passes when it will: every check of one may succeed or fail.   *)
(***************************************************************************)
EXTENDS HookReports

CONSTANTS
  Contents,   \* what the transcripts hold: one capture identity each
  Codex       \* the contents that come from Codex, the others from Claude

VARIABLES
  hook,     \* each hook, until it reports
  child,    \* its capture child
  temp,     \* its own snapshot in the spool
  failed,   \* the published snapshot of each content that failed
  jobs      \* the hook whose snapshot the job of each content names

captureVars == <<hook, child, temp, failed, jobs>>
spool == <<temp, failed>>
vars == <<reportVars, captureVars>>

Hook == [pc : {"ready", "select", "wait", "clean", "remove"}, codex : BOOLEAN,
         k : Contents \cup {None}, late : {"no", "timeout", "unreadable"}]
Child == [pc : {"none", "start", "copy", "prepare", "enqueue", "duplicate", "wake",
                "publish", "compare", "copying", "unlink", "over", "gone"},
          event : Event \cup {None}, kept : BOOLEAN]

\* A hard link to the snapshot of hook "by", or a copy of it.
Published == [by : Hooks, linked : BOOLEAN, whole : BOOLEAN]

ASSUME CaptureAssumption == Codex \subseteq Contents /\ None \notin Published

HookAt(h, pc) == Busy(h) /\ hook[h].pc = pc
ChildAt(h, pc) == child[h].pc = pc
ChildGoes(h, pc) == child' = [child EXCEPT ![h].pc = pc]

-----------------------------------------------------------------------------
(* The hooks, up to the start of the child.                                *)

\* A queue path that is not absolute, input that is no JSON object, and a
\* transcript that is missing, no private file or unreadable end the hook.
Begins(h, codex) ==
  /\ HookAt(h, "ready")
  /\ \/ \E e \in {"input_failed", "queue_unavailable"} :
          Concludes(h, e, FALSE) /\ NoMishap /\ UNCHANGED hook
     \/ /\ hook' = [hook EXCEPT ![h].pc = "select", ![h].codex = codex]
        /\ UNCHANGED reportVars
  /\ UNCHANGED <<child, spool, jobs>>

SessionEnd(h) == Begins(h, FALSE)
PreCompact(h) == Begins(h, FALSE)
CodexSessionEnd(h) == Begins(h, TRUE)

\* bounded_transcript_slice found nothing to capture, refused the transcript, or
\* had too little time left.
SelectsNothing(h) ==
  /\ HookAt(h, "select")
  /\ \/ Skips(h)
     \/ Concludes(h, "capture_failed", FALSE) /\ NoMishap
  /\ UNCHANGED captureVars

\* ... or yields the slice that the child is started with.
StartsChild(h) ==
  /\ HookAt(h, "select")
  /\ \E k \in Contents :
       /\ (k \in Codex) = hook[h].codex
       /\ hook' = [hook EXCEPT ![h].pc = "wait", ![h].k = k]
  /\ ChildGoes(h, "start")
  /\ UNCHANGED <<spool, jobs, reportVars>>

-----------------------------------------------------------------------------
(* The child: capture_transcript with a deadline.                          *)

ChildStep == UNCHANGED <<hook, report, log, runs>>

Answers(h, e) == child' = [child EXCEPT ![h].pc = "over", ![h].event = e]

\* An exception that is not about the deadline: _retain_failed_snapshot.
Retains(h, e) ==
  /\ child' = [child EXCEPT ![h].pc = "publish", ![h].event = e, ![h].kept = TRUE]
  /\ UNCHANGED <<spool, jobs>>

\* Mutant: what was copied is left where it is.
DiscardsNothing(h) == Answers(h, "capture_failed") /\ UNCHANGED <<spool, jobs>>

\* CaptureDeadlineExceeded before the commit.
Discards(h) ==
  /\ temp' = [temp EXCEPT ![h] = "none"]
  /\ Answers(h, "capture_failed")
  /\ UNCHANGED <<failed, jobs>>

ChildStarts(h) ==
  /\ ChildAt(h, "start")
  /\ \/ /\ temp' = [temp EXCEPT ![h] = "part"] /\ ChildGoes(h, "copy")
        /\ UNCHANGED <<failed, jobs>>
     \/ \E e \in {"capture_failed", "queue_unavailable"} :
          Answers(h, e) /\ UNCHANGED <<spool, jobs>>
  /\ ChildStep /\ NoMishap

\* _private_spool_copy removes what it could not complete.
Copies(h) ==
  /\ ChildAt(h, "copy")
  /\ \/ /\ temp' = [temp EXCEPT ![h] = "whole"] /\ ChildGoes(h, "prepare")
        /\ UNCHANGED <<failed, jobs>>
     \/ Discards(h)
  /\ ChildStep /\ NoMishap

\* Digest, parse, make the spool durable and open the queue.
Prepares(h) ==
  /\ ChildAt(h, "prepare")
  /\ \/ ChildGoes(h, "enqueue") /\ UNCHANGED <<spool, jobs>>
     \/ Discards(h)
     \/ \E e \in {"capture_failed", "queue_unavailable"} : Retains(h, e)
  /\ ChildStep /\ NoMishap

\* enqueue_capture keeps the job that has the same identity.
Enqueues(h) ==
  /\ ChildAt(h, "enqueue")
  /\ \/ /\ jobs[hook[h].k] = None
        /\ jobs' = [jobs EXCEPT ![hook[h].k] = h]
        /\ ChildGoes(h, "wake") /\ UNCHANGED spool
     \/ /\ jobs[hook[h].k] # None
        /\ ChildGoes(h, "duplicate") /\ UNCHANGED <<spool, jobs>>
     \/ Discards(h)
     \/ Retains(h, "queue_unavailable")
  /\ ChildStep /\ NoMishap

RemovesDuplicate(h) ==
  /\ ChildAt(h, "duplicate")
  /\ temp' = [temp EXCEPT ![h] = "none"]
  /\ ChildGoes(h, "wake")
  /\ UNCHANGED <<failed, jobs>> /\ ChildStep /\ NoMishap

\* _wake_after_commit, which cannot fail the capture, and the answer to the hook.
Wakes(h) ==
  /\ ChildAt(h, "wake")
  /\ Answers(h, "capture_succeeded")
  /\ UNCHANGED <<spool, jobs>> /\ ChildStep /\ NoMishap

-----------------------------------------------------------------------------
(* The child: _publish_snapshot of what has failed.                        *)

\* os.link, or where there are no hard links an exclusive copy; a name that is
\* taken is compared with the snapshot.
Publishes(h) ==
  /\ ChildAt(h, "publish")
  /\ \/ /\ failed[hook[h].k] = None
        /\ \/ /\ failed' = [failed EXCEPT ![hook[h].k] =
                              [by |-> h, linked |-> TRUE, whole |-> TRUE]]
              /\ ChildGoes(h, "unlink") /\ NoMishap
           \/ /\ failed' = [failed EXCEPT ![hook[h].k] =
                              [by |-> h, linked |-> FALSE, whole |-> FALSE]]
              /\ ChildGoes(h, "copying") /\ Mishap("link")
     \/ /\ failed[hook[h].k] # None
        /\ ChildGoes(h, "compare") /\ UNCHANGED failed /\ NoMishap
  /\ UNCHANGED <<temp, jobs>> /\ ChildStep

CopyPublished(h) ==
  /\ ChildAt(h, "copying")
  /\ \/ /\ failed' = [failed EXCEPT ![hook[h].k].whole = TRUE]
        /\ ChildGoes(h, "unlink")
     \/ /\ failed' = [failed EXCEPT ![hook[h].k] = None]
        /\ ChildGoes(h, "over")
  /\ UNCHANGED <<temp, jobs>> /\ ChildStep /\ NoMishap

\* st_nlink of the published name
Links(k) == IF failed[k].linked /\ temp[failed[k].by] # "none" THEN 2 ELSE 1

\* Mutant: whatever has the name is taken for the snapshot.
ValidUnchecked(k) == failed[k] # None
Valid(k) == failed[k] # None /\ failed[k].whole /\ Links(k) = 1

\* _validate_existing_snapshot: it waits for another capture to remove the second
\* link, but not for ever, and then keeps its own snapshot.
Compares(h) ==
  /\ ChildAt(h, "compare")
  /\ \/ Valid(hook[h].k) /\ ChildGoes(h, "unlink")
     \/ ~Valid(hook[h].k) /\ ChildGoes(h, "over")
  /\ UNCHANGED <<spool, jobs>> /\ ChildStep /\ NoMishap

Unlinks(h) ==
  /\ ChildAt(h, "unlink")
  /\ temp' = [temp EXCEPT ![h] = "none"]
  /\ ChildGoes(h, "over")
  /\ UNCHANGED <<failed, jobs>> /\ ChildStep /\ NoMishap

ChildWorks(h) == \/ ChildStarts(h) \/ Copies(h) \/ Prepares(h) \/ Enqueues(h)
                 \/ RemovesDuplicate(h) \/ Wakes(h) \/ Publishes(h)
                 \/ CopyPublished(h) \/ Compares(h) \/ Unlinks(h)

-----------------------------------------------------------------------------
(* The hooks, once the child was started.                                  *)

Alive(h) == child[h].pc \notin {"none", "over", "gone"}

Receives(h) ==
  /\ HookAt(h, "wait") /\ ChildAt(h, "over")
  /\ Concludes(h, child[h].event, FALSE) /\ NoMishap
  /\ UNCHANGED captureVars

\* Mutant: the hook does not wait for the end of the child that it kills.
KillsAndGoes(h) ==
  /\ HookAt(h, "wait") /\ Alive(h)
  /\ hook' = [hook EXCEPT ![h].pc = "clean", ![h].late = "timeout"]
  /\ UNCHANGED <<child, spool, jobs, reportVars>>

\* run_process_until_deadline: kill, wait for the end, clean up.
Kills(h) ==
  /\ HookAt(h, "wait") /\ Alive(h)
  /\ hook' = [hook EXCEPT ![h].pc = "clean", ![h].late = "timeout"]
  /\ ChildGoes(h, "gone")
  /\ UNCHANGED <<spool, jobs, reportVars>>

Referenced(h) == jobs[hook[h].k] = h
TimesOut(h) == Concludes(h, "capture_failed", TRUE)

\* cleanup_uncommitted_capture removes what is proven absent from the queue.
Looks(h) ==
  /\ HookAt(h, "clean")
  /\ \/ /\ temp[h] # "none" /\ ~Referenced(h)
        /\ hook' = [hook EXCEPT ![h].pc = "remove"] /\ UNCHANGED reportVars
     \/ /\ temp[h] = "none" \/ Referenced(h)
        /\ TimesOut(h) /\ NoMishap /\ UNCHANGED hook
     \/ /\ temp[h] # "none"
        /\ TimesOut(h) /\ Mishap("unreadable")
        /\ hook' = [hook EXCEPT ![h].late = "unreadable"]
  /\ UNCHANGED <<child, spool, jobs>>

Removes(h) ==
  /\ HookAt(h, "remove")
  /\ temp' = [temp EXCEPT ![h] = "none"]
  /\ TimesOut(h) /\ NoMishap
  /\ UNCHANGED <<hook, child, failed, jobs>>

\* The child ends without an answer, and its hook cleans nothing up.  (That the child
\* of a dead hook dies too is not a step of its own: it stops.)
ChildDies(h) ==
  /\ HookAt(h, "wait") /\ Alive(h) /\ Mishap("child")
  /\ ChildGoes(h, "gone")
  /\ Concludes(h, "capture_failed", FALSE)
  /\ UNCHANGED <<hook, spool, jobs>>

HookWorks(h) == \/ SessionEnd(h) \/ PreCompact(h) \/ CodexSessionEnd(h)
                \/ SelectsNothing(h) \/ StartsChild(h) \/ Receives(h) \/ Kills(h)
                \/ Looks(h) \/ Removes(h)

Init ==
  /\ ReportInit
  /\ hook = [h \in Hooks |-> [pc |-> "ready", k |-> None, codex |-> FALSE, late |-> "no"]]
  /\ child = [h \in Hooks |-> [pc |-> "none", event |-> None, kept |-> FALSE]]
  /\ temp = [h \in Hooks |-> "none"]
  /\ failed = [k \in Contents |-> None]
  /\ jobs = [k \in Contents |-> None]

\* A hook that is killed leaves its child at work.
Reporting(h) == /\ Logs(h) \/ Diagnoses(h) \/ DiagnosisFails(h) \/ HookDies(h)
                /\ UNCHANGED captureVars

\* All hooks and children have ended.
Rest == /\ \A h \in Hooks : Over(h) /\ ~Alive(h)
        /\ UNCHANGED vars

Next == \/ \E h \in Hooks : HookWorks(h) \/ ChildWorks(h) \/ ChildDies(h) \/ Reporting(h)
        \/ Rest

Spec == Init /\ [][Next]_vars

-----------------------------------------------------------------------------
TypeOK ==
  /\ ReportTypeOK
  /\ hook \in [Hooks -> Hook]
  /\ child \in [Hooks -> Child]
  /\ temp \in [Hooks -> {"none", "part", "whole"}]
  /\ failed \in [Contents -> Published \cup {None}]
  /\ jobs \in [Contents -> Hooks \cup {None}]

\* The snapshot that a committed job names is complete and stays in the spool.
SnapshotKept == \A k \in Contents : jobs[k] # None => temp[jobs[k]] = "whole"

\* A capture that fails for another reason than its deadline leaves what it had
\* read in the spool, complete, under one name or the other, and it stays there.
FailureKept ==
  \A h \in Hooks :
    child[h].kept /\ ChildAt(h, "over") =>
      \/ temp[h] = "whole"
      \/ failed[hook[h].k] # None /\ failed[hook[h].k].whole

\* A hook that ends by itself leaves a snapshot that no job names only when the
\* capture failed and kept it, the child died without an answer, or the queue could
\* not be read at the deadline.
NothingLeftBehind ==
  \A h \in Hooks :
    report[h].pc = "over" /\ temp[h] # "none" /\ ~Referenced(h) =>
      \/ hook[h].late = "no" /\ (child[h].kept \/ ChildAt(h, "gone"))
      \/ hook[h].late = "unreadable"
=============================================================================
