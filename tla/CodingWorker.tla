----------------------------- MODULE CodingWorker -----------------------------
(***************************************************************************)
(* The handler of repository_edit jobs: _execute_coding_worker,            *)
(* _resume_archived_worker_run and _propose_repository_patch of            *)
(* src/src/oracle_lab/services.py, run by the processes of                 *)
(* AutomationRunner, with the write-once archive of worker_archive.py and  *)
(* the event store's checks of worker events.                              *)
(*                                                                         *)
(* A job stands for its task event: enqueue_repository_edit appends one    *)
(* and enqueues the other in one transaction.  A run is named by the job   *)
(* and its attempt, so no two handlers have the same run.  Every append is *)
(* a transaction and every directory write is a step of its own; the       *)
(* process may die, raise, or lose its lease between any two.              *)
(***************************************************************************)
EXTENDS AutomationRunner

CONSTANTS
  Signature       \* the failure signatures that are told apart

ASSUME CodingAssumption ==
  /\ Archivable = Job /\ PerAttempt = Job /\ RetryModes = {}
  /\ Retryable = BOOLEAN
  /\ "none" \notin Signature /\ "recovered" \notin Signature

VARIABLES
  hand,           \* what each runner's handler does and has read
  runs            \* the start, archive, end and patch of every run of a job

codingVars == <<hand, runs>>
codingAllVars == <<allVars, codingVars>>

\* One attempt beyond the limit is the recovery lease.
Attempts(j) == 1 .. (MaxAttempts[j] + 1)

Steps == {"idle", "list", "resume", "prior", "recovery", "start", "agent",
          "archive", "files", "judge", "fail", "complete", "look", "offer",
          "return"}

\* `orphans` are the attempts whose runs are left to resume, `target` the
\* attempt whose patch is proposed; `result` is what the agent came back with
\* and `final` makes an error one that is not retried.
HandState ==
  [step : Steps, orphans : SUBSET Nat, target : Nat,
   result : {"none", "completed", "failed", "error"},
   signature : Signature \cup {"none"}, final : BOOLEAN]

IdleHand == [step |-> "idle", orphans |-> {}, target |-> 0, result |-> "none",
             signature |-> "none", final |-> FALSE]

\* `archive` tells whether the run's directory loads; `offered` are its
\* worker.patch_proposed and worker.patch_security_rejected events.
RunRecord ==
  [started : BOOLEAN,
   archive : {"none", "partial", "completed", "failed"},
   ended : {"none", "completed", "failed"},
   failure : Signature \cup {"none", "recovered"},
   offered : SUBSET {"proposed", "rejected"}]

NoRun == [started |-> FALSE, archive |-> "none", ended |-> "none",
          failure |-> "none", offered |-> {}]

\* What a handler has read are attempts of its job.
ReadAttempts(w) ==
  hand[w].step # "idle" => /\ hand[w].orphans \subseteq Attempts(run[w].job)
                           /\ hand[w].target \in Attempts(run[w].job) \cup {0}

\* A new lease looks for the archive of the present attempt.
ArchivedIsPresent ==
  archived = {j \in Job : /\ rows[j].attempts > 0
                          /\ runs[j][rows[j].attempts].archive
                               \in {"completed", "failed"}}

CodingTypeOK ==
  /\ RunnerTypeOK
  /\ hand \in [Runner -> HandState]
  /\ \A w \in Runner : ReadAttempts(w)
  /\ DOMAIN runs = Job
  /\ \A j \in Job : runs[j] \in [Attempts(j) -> RunRecord]
  /\ ArchivedIsPresent

CodingInit ==
  /\ RunnerInit
  /\ hand = [w \in Runner |-> IdleHand]
  /\ runs = [j \in Job |-> [a \in Attempts(j) |-> NoRun]]

Handling(w, step) == run[w].pc = "working" /\ hand[w].step = step
Proceed(w, h) == hand' = [hand EXCEPT ![w] = h]
GoTo(w, step) == Proceed(w, [hand[w] EXCEPT !.step = step])
RunsOf(w) == runs[run[w].job]
OwnRun(w) == RunsOf(w)[run[w].attempt]
WriteRun(j, a, r) == runs' = [runs EXCEPT ![j][a] = r]
WriteOwnRun(w, r) == WriteRun(run[w].job, run[w].attempt, r)

\* The handler raises an error, retryable or not.
RaiseAs(w, final) ==
  HandlerRaises(w) /\ Proceed(w, [IdleHand EXCEPT !.final = final])

Raise(w) == RaiseAs(w, FALSE)

(***************************************************************************)
(* _resume_archived_worker_run                                             *)
(***************************************************************************)
Begin(w) ==
  /\ CheckRecovery(w)
  /\ Proceed(w, [IdleHand EXCEPT !.step = "list"])
  /\ UNCHANGED runs

StartedRuns(w) ==
  {a \in Attempts(run[w].job) : /\ RunsOf(w)[a].started
                                /\ RunsOf(w)[a].ended = "none"}

ListOrphans(w) ==
  /\ Handling(w, "list")
  /\ Proceed(w, [hand[w] EXCEPT !.step = "resume", !.orphans = StartedRuns(w)])
  /\ UNCHANGED <<allVars, runs>>

\* The store refuses a second terminal event of a run: the append raises.
EndRun(w, a, r) ==
  IF RunsOf(w)[a].ended = "none"
  THEN WriteRun(run[w].job, a, r)
  ELSE Raise(w) /\ UNCHANGED runs

\* The runs are tried in the order of their starts, which need not be that of
\* their attempts.  A run without a directory is passed over; an incomplete
\* directory raises; an archived failure is recorded and passed over; an
\* archived success is recorded and its patch proposed.
ResumeOne(w, a) ==
  LET r == RunsOf(w)[a]
      rest == [hand[w] EXCEPT !.orphans = @ \ {a}]
  IN /\ Handling(w, "resume")
     /\ \/ /\ r.archive = "none"
           /\ Proceed(w, rest) /\ UNCHANGED <<allVars, runs>>
        \/ /\ r.archive = "partial"
           /\ Raise(w) /\ UNCHANGED runs
        \/ /\ r.archive = "failed"
           /\ EndRun(w, a, [r EXCEPT !.ended = "failed", !.failure = "recovered"])
           /\ r.ended = "none" => Proceed(w, rest) /\ UNCHANGED allVars
        \/ /\ r.archive = "completed"
           /\ EndRun(w, a, [r EXCEPT !.ended = "completed"])
           /\ r.ended = "none" =>
                /\ Proceed(w, [hand[w] EXCEPT !.step = "look", !.target = a,
                                              !.orphans = {}])
                /\ UNCHANGED allVars

NothingToResume(w) ==
  /\ Handling(w, "resume") /\ hand[w].orphans = {}
  /\ GoTo(w, "prior")
  /\ UNCHANGED <<allVars, runs>>

(***************************************************************************)
(* _execute_coding_worker                                                  *)
(***************************************************************************)
CompletedRuns(j) == {a \in Attempts(j) : runs[j][a].ended = "completed"}

\* A faulty variant, for mutation: a completed run is not looked for.
ReadPriorSkipped(w) ==
  /\ Handling(w, "prior")
  /\ GoTo(w, "recovery")
  /\ UNCHANGED <<allVars, runs>>

\* A run of an earlier attempt completed: its patch is proposed, or returned.
\* A terminal event of this attempt's own run cannot exist yet.
ReadPrior(w) ==
  /\ Handling(w, "prior")
  /\ LET completed == CompletedRuns(run[w].job)
     IN \/ /\ completed = {} /\ GoTo(w, "recovery")
        \/ \E a \in completed :
             Proceed(w, [hand[w] EXCEPT !.step = "look", !.target = a])
  /\ UNCHANGED <<allVars, runs>>

\* The queue is asked once more what kind of lease this is, without a worker
\* id and after the heartbeat thread has started.
CheckStillRecovery(w) ==
  /\ Handling(w, "recovery")
  /\ LET j == run[w].job
     IN IF rows[j].status = "leased" /\ LeasedAsArchiveRecovery(log[j])
        THEN RaiseAs(w, TRUE)
        ELSE GoTo(w, "start") /\ UNCHANGED allVars
  /\ UNCHANGED runs

StartRun(w) ==
  /\ Handling(w, "start")
  /\ WriteOwnRun(w, [OwnRun(w) EXCEPT !.started = TRUE])
  /\ GoTo(w, "agent")
  /\ UNCHANGED allVars

\* Some earlier run of the task failed with this signature.
IsRepeated(w, signature) ==
  \E a \in Attempts(run[w].job) : RunsOf(w)[a].failure = signature

\* The agent succeeds, fails, or its adapter raises; in the last case earlier
\* failures are compared before the archive is written, else after.
AgentEnds(w) ==
  /\ Handling(w, "agent")
  /\ \/ Proceed(w, [hand[w] EXCEPT !.step = "archive", !.result = "completed"])
     \/ \E s \in Signature, kind \in {"failed", "error"} :
          Proceed(w, [hand[w] EXCEPT !.step = "archive", !.result = kind,
                                     !.signature = s,
                                     !.final = kind = "error" /\ IsRepeated(w, s)])
  /\ UNCHANGED <<allVars, runs>>

\* The directory, then its files, the last of which makes it loadable.  What
\* the process that dies in between leaves behind stays incomplete.
MakeArchive(w) ==
  /\ Handling(w, "archive")
  /\ WriteOwnRun(w, [OwnRun(w) EXCEPT !.archive = "partial"])
  /\ GoTo(w, "files")
  /\ UNCHANGED allVars

\* A lease that verifies archives looks at the row's present attempt.
NoteArchive(w) ==
  IF rows[run[w].job].attempts = run[w].attempt
  THEN ArchiveRun(w) ELSE UNCHANGED allVars

FinishArchive(w) ==
  /\ Handling(w, "files")
  /\ LET completed == hand[w].result = "completed"
     IN /\ WriteOwnRun(w, [OwnRun(w) EXCEPT
                             !.archive = IF completed THEN "completed" ELSE "failed"])
        /\ GoTo(w, IF completed THEN "complete"
                   ELSE IF hand[w].result = "failed" THEN "judge" ELSE "fail")
  /\ NoteArchive(w)

Judge(w) ==
  /\ Handling(w, "judge")
  /\ Proceed(w, [hand[w] EXCEPT !.step = "fail",
                                !.final = IsRepeated(w, hand[w].signature)])
  /\ UNCHANGED <<allVars, runs>>

\* The failure is recorded, or refused because another process ended the run;
\* either way the handler raises, for good when the failure is a repeated one.
RecordFailure(w) ==
  /\ Handling(w, "fail")
  /\ \/ /\ OwnRun(w).ended = "none"
        /\ WriteOwnRun(w, [OwnRun(w) EXCEPT !.ended = "failed",
                                            !.failure = hand[w].signature])
        /\ RaiseAs(w, hand[w].final)
     \/ OwnRun(w).ended # "none" /\ Raise(w) /\ UNCHANGED runs

RecordCompletion(w) ==
  /\ Handling(w, "complete")
  /\ EndRun(w, run[w].attempt, [OwnRun(w) EXCEPT !.ended = "completed"])
  /\ OwnRun(w).ended = "none" =>
       /\ Proceed(w, [hand[w] EXCEPT !.step = "look", !.target = run[w].attempt])
       /\ UNCHANGED allVars

(***************************************************************************)
(* _propose_repository_patch                                               *)
(***************************************************************************)
\* A faulty variant, for mutation: a run that ended needs nothing more.
LookForPatchEnded(w) ==
  /\ Handling(w, "look")
  /\ GoTo(w, IF hand[w].target # run[w].attempt THEN "return" ELSE "offer")
  /\ UNCHANGED <<allVars, runs>>

LookForPatch(w) ==
  /\ Handling(w, "look")
  /\ GoTo(w, IF RunsOf(w)[hand[w].target].offered # {} THEN "return" ELSE "offer")
  /\ UNCHANGED <<allVars, runs>>

\* The candidate is inspected against the target repository and proposed or
\* rejected.  The store refuses a second proposal of a run.
OfferPatch(w, kind) ==
  LET r == RunsOf(w)[hand[w].target]
  IN /\ Handling(w, "offer")
     /\ IF kind = "proposed" /\ "proposed" \in r.offered
        THEN Raise(w) /\ UNCHANGED runs
        ELSE /\ WriteRun(run[w].job, hand[w].target,
                         [r EXCEPT !.offered = @ \cup {kind}])
             /\ GoTo(w, "return")
             /\ UNCHANGED allVars

Return(w) ==
  /\ Handling(w, "return")
  /\ HandlerReturns(w) /\ Proceed(w, IdleHand)
  /\ UNCHANGED runs

\* Any read, append or file write may raise; a directory that was not finished
\* is removed.  An error of the agent is an outcome of the run instead.
StepRaises(w) ==
  /\ hand[w].step \notin {"idle", "agent"}
  /\ Raise(w)
  /\ IF hand[w].step = "files"
     THEN WriteOwnRun(w, [OwnRun(w) EXCEPT !.archive = "none"])
     ELSE UNCHANGED runs

-------------------------------------------------------------------------------
CodingStep(w) ==
  \/ Begin(w) \/ ListOrphans(w) \/ NothingToResume(w)
  \/ \E a \in hand[w].orphans : ResumeOne(w, a)
  \/ ReadPrior(w) \/ CheckStillRecovery(w)
  \/ StartRun(w) \/ AgentEnds(w) \/ MakeArchive(w) \/ FinishArchive(w)
  \/ Judge(w) \/ RecordFailure(w) \/ RecordCompletion(w)
  \/ LookForPatch(w)
  \/ \E kind \in {"proposed", "rejected"} : OfferPatch(w, kind)
  \/ Return(w) \/ StepRaises(w)

\* Everything the runner does outside the handler.
LoopStep(w) ==
  /\ \/ Start(w) \/ ReadPauses(w) \/ ReadGate(w) \/ ReadArchives(w)
     \/ \E j \in Job, late \in ClockLag : TakeJob(w, j, late)
     \/ \E late \in ClockLag : TakeNothing(w, late)
     \/ Beat(w) \/ Acknowledge(w) \/ FailJobAs(w, ~hand[w].final)
  /\ UNCHANGED codingVars

Die(w) ==
  /\ Crash(w) /\ Proceed(w, IdleHand)
  /\ UNCHANGED runs

CodingNext ==
  \/ \E w \in Runner : LoopStep(w) \/ CodingStep(w) \/ Die(w)
  \/ (QueueCommand \/ TimePasses) /\ UNCHANGED codingVars

CodingSpec == CodingInit /\ [][CodingNext]_codingAllVars

(***************************************************************************)
(* Properties                                                              *)
(***************************************************************************)
AgentRuns(w) == Handling(w, "agent")

\* A job is completed only when a run of it has its candidate patch proposed
\* or rejected, also if the process that ran the agent died before it could
\* do that, or the run was resumed from its archive by another one.
CompletedHasPatch ==
  \A j \in Job : rows[j].status = "completed" =>
    \E a \in Attempts(j) : runs[j][a].offered # {}

\* What is recorded of a task is typed, and enough for its job's end.
CodingInv == CodingTypeOK /\ CompletedHasPatch

\* As long as all heartbeats have been on time, the agent is never at work on a
\* task one of whose other runs completed or left the complete archive of a
\* success.
NoReinvocation ==
  ~overdue => \A w \in Runner : AgentRuns(w) =>
    \A a \in Attempts(run[w].job) \ {run[w].attempt} :
      /\ RunsOf(w)[a].archive # "completed"
      /\ RunsOf(w)[a].ended # "completed"

\* A task gets at most one candidate patch for the human to judge, however
\* often it is leased.
OnePatchPerTask ==
  \A j \in Job :
    Cardinality({a \in Attempts(j) : "proposed" \in runs[j][a].offered}) <= 1

\* What heartbeats on time buy: no agent after a success, and one patch.
OneRunOnTime == NoReinvocation /\ (~overdue => OnePatchPerTask)

(***************************************************************************)
(* The inductive invariant of the proofs.                                  *)
(***************************************************************************)
\* Nobody retries a dead job, so attempts are only counted up: to the limit,
\* and by the recovery lease.
Counted ==
  \A j \in Job :
    /\ log[j].type # "retried"
    /\ rows[j].attempts <= MaxAttempts[j] + recoveryLeases[j]
    /\ rows[j].status = "absent" => rows[j].attempts = 0

\* No two handlers have the same run, overdue or not.
RunsApart ==
  /\ \A w \in Runner : InHandler(w) =>
       run[w].attempt \in 1 .. rows[run[w].job].attempts
  /\ \A v, w \in Runner :
       (/\ v # w /\ InHandler(v) /\ InHandler(w)
        /\ run[v].job = run[w].job) => run[v].attempt # run[w].attempt

\* The order in which a run is recorded: it starts, is archived, ends as its
\* archive says, and only then is a patch of it offered.
RunInOrder(j, a) ==
  LET r == runs[j][a]
  IN /\ r.archive # "none" => r.started
     /\ r.ended # "none" => r.ended = r.archive
     /\ r.offered # {} => r.ended = "completed"
     /\ a > rows[j].attempts => r = NoRun

Successes(j) == {a \in Attempts(j) : runs[j][a].archive = "completed"}

OneSuccess == ~overdue => \A j \in Job : \A a, b \in Successes(j) : a = b

\* Where a handler is tells how far its own run has come, whatever the others
\* have recorded of it.
BeforeStart == {"list", "resume", "prior", "recovery", "start"}

HandAtWork(w) ==
  /\ ReadAttempts(w)
  /\ hand[w].step # "idle" => run[w].pc = "working"
  /\ run[w].pc = "leased" \/ hand[w].step \in BeforeStart => ~OwnRun(w).started
  /\ hand[w].step \in {"agent", "archive"} =>
       OwnRun(w).started /\ OwnRun(w).archive = "none"
  /\ hand[w].step = "files" => OwnRun(w).archive = "partial"
  /\ hand[w].step \in {"judge", "fail"} => OwnRun(w).archive = "failed"
  /\ hand[w].step = "complete" => OwnRun(w).archive = "completed"
  /\ hand[w].step \in {"look", "offer"} =>
       hand[w].target \in CompletedRuns(run[w].job)
  /\ hand[w].step = "return" \/ run[w].pc = "returned" =>
       \E a \in Attempts(run[w].job) : RunsOf(w)[a].offered # {}

\* On time, a handler knows of every success of its task's earlier runs.
SuccessAsRead(w) ==
  ~overdue =>
    /\ hand[w].step \in {"resume", "prior"} =>
         Successes(run[w].job) \subseteq
           hand[w].orphans \cup CompletedRuns(run[w].job)
    /\ hand[w].step = "prior" => hand[w].orphans = {}
    /\ hand[w].step \in {"recovery", "start", "agent", "archive", "files"} =>
         Successes(run[w].job) = {}

CodingStory ==
  /\ Counted /\ RunsApart
  /\ \A j \in Job : \A a \in Attempts(j) : RunInOrder(j, a)
  /\ ArchivedIsPresent /\ OneSuccess /\ CompletedHasPatch
  /\ \A w \in Runner : HandAtWork(w) /\ SuccessAsRead(w)

===============================================================================
