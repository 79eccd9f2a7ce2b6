---------------------------- MODULE PatchPipeline ----------------------------
(***************************************************************************)
(* Candidate patches after their proposal: approve_patch, reject_patch,    *)
(* retry_jobs, _execute_patch_application_job and                          *)
(* _execute_patch_validation_job of src/src/oracle_lab/services.py, with   *)
(* the staging clones of git_control.py, the archive of                    *)
(* validation_archive.py, and the checks of the store and of               *)
(* worker_projection.py, run by the processes of AutomationRunner.         *)
(*                                                                         *)
(* A patch has one staging directory, shared by all jobs that apply or     *)
(* validate it; an archive belongs to one validation job.  Every append,   *)
(* every look at the directory and every write to it is a step.            *)
(***************************************************************************)
EXTENDS AutomationRunner

CONSTANTS
  Patch,
  Validated,      \* the patches whose task has validation commands
  PatchOf,        \* Job -> Patch
  Applies,        \* the jobs of kind worker.patch.apply; the others validate
  RetryOf         \* Job -> the job it is an explicit retry of, or NoJob

ASSUME PatchAssumption ==
  /\ Validated \subseteq Patch
  /\ PatchOf \in [Job -> Patch]
  /\ Applies \subseteq Job /\ Archivable = Job \ Applies /\ PerAttempt = {}
  /\ RetryOf \in [Job -> Job \cup {NoJob}]
  /\ RetryModes = {} /\ Retryable = BOOLEAN

\* All jobs of a patch are enqueued with the branch of the patch, serialized, and
\* a retry takes kind and payload over.  There is a job for the validation of
\* every patch that has validation commands.
ASSUME JobsOfPatchAssumption ==
  /\ Serialized = Job
  /\ \A j, k \in Job : PatchOf[j] = PatchOf[k] => BranchOf[j] = BranchOf[k]
  /\ \A j, k \in Job : RetryOf[k] = j =>
       PatchOf[k] = PatchOf[j] /\ (k \in Applies <=> j \in Applies)
  /\ \A p \in Validated :
       \E j \in Job \ Applies : PatchOf[j] = p /\ RetryOf[j] = NoJob

VARIABLES
  hand,           \* what each runner's handler does and has read
  status,         \* candidate_patches.status
  verdict,        \* candidate_patches.validation_status
  staging,        \* the staging directory of each patch
  records,        \* the archive directory of each validation job
  refused         \* history: patches the source repository does not match, or
                  \* that a git command failed on

patchVars == <<hand, status, verdict, staging, records, refused>>
patchAllVars == <<allVars, patchVars>>

Review == INSTANCE PatchReview

Steps == {"idle", "look", "discard", "preflight", "clone", "bundled", "cloning",
          "inspect", "patch", "commit", "clean", "conflict",
          "find", "tree", "record", "sandbox", "mkdir", "files", "verdict",
          "return"}

HandState == [step : Steps, outcome : Review!Verdict \cup {"none"},
              final : BOOLEAN]

IdleHand == [step |-> "idle", outcome |-> "none", final |-> FALSE]

PatchTypeOK ==
  /\ RunnerTypeOK
  /\ hand \in [Runner -> HandState]
  /\ status \in [Patch -> {"pending_human", "approved", "rejected"}
                            \cup Review!Result]
  /\ verdict \in [Patch -> Review!Verdict \cup {"none"}]
  /\ refused \subseteq Patch
  /\ staging \in [Patch -> {"none", "partial", "clone", "patched"}]
  /\ records \in [Job -> Review!Verdict \cup {"none", "partial"}]
  /\ archived = {j \in Job : records[j] \in Review!Verdict}

PatchInit ==
  /\ RunnerInit
  /\ Review!ReviewInit
  /\ hand = [w \in Runner |-> IdleHand]
  /\ refused = {}
  /\ staging = [p \in Patch |-> "none"]
  /\ records = [j \in Job |-> "none"]

Handling(w, step) == run[w].pc = "working" /\ hand[w].step = step
Mine(w) == PatchOf[run[w].job]
Proceed(w, h) == hand' = [hand EXCEPT ![w] = h]
GoTo(w, step) == Proceed(w, [hand[w] EXCEPT !.step = step])
RaiseAs(w, final) ==
  HandlerRaises(w) /\ Proceed(w, [IdleHand EXCEPT !.final = final])
Raise(w) == RaiseAs(w, FALSE)

\* A step of the handler that leaves the queue and the loop alone.
Quietly(w, step) == GoTo(w, step) /\ UNCHANGED allVars

(***************************************************************************)
(* The operator's commands                                                 *)
(***************************************************************************)
\* Approval and apply job are one transaction.
ApprovePatch(p) ==
  /\ status[p] = "pending_human"
  /\ status' = [status EXCEPT ![p] = "approved"]
  /\ \E j \in Applies, created \in ClockReading :
       PatchOf[j] = p /\ RetryOf[j] = NoJob /\ Enqueue(j, created)
  /\ UNCHANGED <<runnerVars, hand, verdict, staging, records, refused>>

\* A faulty variant, for mutation: what was read is trusted.
RejectionStandsAsRead(p) == status[p] # "rejected"

\* A rejection is appended after the row was read, and every patch could once
\* be read as awaiting judgment: the store refuses the rejection when the patch
\* has been judged by now.
RejectionStands(p) == status[p] = "pending_human"

RejectPatch(p) ==
  /\ RejectionStands(p)
  /\ status' = [status EXCEPT ![p] = "rejected"]
  /\ UNCHANGED <<allVars, hand, verdict, staging, records, refused>>

\* A job of this kind gets a new job with its payload, once, whatever its own
\* status is.
RetryJob(j, k, created) ==
  /\ rows[j].status # "absent" /\ RetryOf[k] = j
  /\ Enqueue(k, created)
  /\ UNCHANGED <<runnerVars, patchVars>>

(***************************************************************************)
(* _execute_patch_application_job                                          *)
(***************************************************************************)
Begin(w) ==
  /\ CheckRecovery(w)
  /\ Proceed(w, [IdleHand EXCEPT
                   !.step = IF run[w].job \in Applies THEN "look" ELSE "find"])
  /\ UNCHANGED <<status, verdict, staging, records, refused>>

HasResult(p) == status[p] \in Review!Result

\* The key of the validation job makes a second enqueue return the first row.
EnqueuePatchValidation(p) ==
  LET waiting == {j \in Job \ Applies : /\ PatchOf[j] = p /\ RetryOf[j] = NoJob
                                        /\ rows[j].status = "absent"}
  IN IF p \in Validated /\ waiting # {}
     THEN \E j \in waiting, created \in ClockReading : Enqueue(j, created)
     ELSE UNCHANGED vars

\* A result that is there is returned, once the validation job is enqueued.
LookForResult(w) ==
  /\ Handling(w, "look")
  /\ GoTo(w, IF HasResult(Mine(w)) THEN "return" ELSE "discard")
  /\ IF status[Mine(w)] = "applied"
     THEN EnqueuePatchValidation(Mine(w)) ELSE UNCHANGED vars
  /\ UNCHANGED <<runnerVars, status, verdict, staging, records, refused>>

\* A faulty variant, for mutation: the clone of a dead process is gone on with.
DiscardStagingReused(w) ==
  /\ Handling(w, "discard")
  /\ Quietly(w, IF staging[Mine(w)] = "none" THEN "preflight" ELSE "inspect")
  /\ UNCHANGED <<status, verdict, staging, records, refused>>

DiscardStaging(w) ==
  /\ Handling(w, "discard")
  /\ staging' = [staging EXCEPT ![Mine(w)] = "none"]
  /\ Quietly(w, "preflight")
  /\ UNCHANGED <<status, verdict, records, refused>>

RefusedBy(p) == refused' = refused \cup {p}

\* The preconditions are checked against the source repository as it is now.
\* That they do not hold, or cannot be checked, is a conflict.
PreflightSource(w) ==
  /\ Handling(w, "preflight")
  /\ \/ Quietly(w, "clone") /\ UNCHANGED refused
     \/ Quietly(w, "conflict") /\ RefusedBy(Mine(w))
  /\ UNCHANGED <<status, verdict, staging, records>>

\* create_standalone_clone refuses a destination that exists, makes a bundle of
\* the source, and clones it.  A clone that fails, as it does when the
\* destination has appeared meanwhile, removes the destination.
CloneBegins(w) ==
  /\ Handling(w, "clone")
  /\ IF staging[Mine(w)] = "none" THEN Quietly(w, "bundled") ELSE Raise(w)
  /\ UNCHANGED <<status, verdict, staging, records, refused>>

CloneFails(w) ==
  /\ hand[w].step \in {"bundled", "cloning"}
  /\ staging' = [staging EXCEPT ![Mine(w)] = "none"]
  /\ Raise(w)
  /\ UNCHANGED <<status, verdict, records, refused>>

CloneGrows(w) ==
  /\ Handling(w, "bundled") /\ staging[Mine(w)] = "none"
  /\ staging' = [staging EXCEPT ![Mine(w)] = "partial"]
  /\ Quietly(w, "cloning")
  /\ UNCHANGED <<status, verdict, records, refused>>

\* The checkout is forced, so that it undoes what another process has applied.
CloneEnds(w) ==
  /\ Handling(w, "cloning") /\ staging[Mine(w)] # "none"
  /\ staging' = [staging EXCEPT ![Mine(w)] = "clone"]
  /\ Quietly(w, "inspect")
  /\ UNCHANGED <<status, verdict, records, refused>>

\* Head, preconditions and cleanliness of the clone.  A directory that is gone
\* makes the first command raise and a later one give a reason to refuse, as
\* does any command that fails.
InspectStaging(w) ==
  /\ Handling(w, "inspect")
  /\ \/ staging[Mine(w)] = "clone" /\ Quietly(w, "patch") /\ UNCHANGED refused
     \/ staging[Mine(w)] = "clone" /\ Quietly(w, "clean") /\ RefusedBy(Mine(w))
     \/ staging[Mine(w)] # "clone" /\ Quietly(w, "clean") /\ UNCHANGED refused
     \/ staging[Mine(w)] = "none" /\ Raise(w) /\ UNCHANGED refused
  /\ UNCHANGED <<status, verdict, staging, records>>

\* git apply, on a clone that was clean a moment ago; a tree that holds exactly
\* the approved patch counts as patched.
ApplyToStaging(w) ==
  /\ Handling(w, "patch")
  /\ \/ /\ staging[Mine(w)] \in {"clone", "patched"}
        /\ \/ /\ staging' = [staging EXCEPT ![Mine(w)] = "patched"]
              /\ Quietly(w, "commit") /\ UNCHANGED refused
           \/ Quietly(w, "clean") /\ RefusedBy(Mine(w)) /\ UNCHANGED staging
     \/ /\ staging[Mine(w)] \in {"none", "partial"}
        /\ Quietly(w, "clean") \/ Raise(w)
        /\ UNCHANGED <<staging, refused>>
  /\ UNCHANGED <<status, verdict, records>>

\* The staged diff must be the approved one; result and validation job are one
\* transaction, refused when the patch has a result.
RecordApplication(w) ==
  /\ Handling(w, "commit")
  /\ IF staging[Mine(w)] = "patched" /\ status[Mine(w)] = "approved"
     THEN /\ status' = [status EXCEPT ![Mine(w)] = "applied"]
          /\ GoTo(w, "return")
          /\ EnqueuePatchValidation(Mine(w))
          /\ UNCHANGED runnerVars
     ELSE Raise(w) /\ UNCHANGED status
  /\ UNCHANGED <<verdict, staging, records, refused>>

\* With a reason to refuse, whatever the directory holds is removed.
CleanStaging(w) ==
  /\ Handling(w, "clean")
  /\ staging' = [staging EXCEPT ![Mine(w)] = "none"]
  /\ Quietly(w, "conflict")
  /\ UNCHANGED <<status, verdict, records, refused>>

RecordConflict(w) ==
  /\ Handling(w, "conflict")
  /\ IF status[Mine(w)] = "approved"
     THEN /\ status' = [status EXCEPT ![Mine(w)] = "conflicted"]
          /\ Quietly(w, "return")
     ELSE Raise(w) /\ UNCHANGED status
  /\ UNCHANGED <<verdict, staging, records, refused>>

(***************************************************************************)
(* _execute_patch_validation_job                                           *)
(***************************************************************************)
FindVerdict(w) ==
  /\ Handling(w, "find")
  /\ Quietly(w, IF verdict[Mine(w)] # "none" THEN "return" ELSE "tree")
  /\ UNCHANGED <<status, verdict, staging, records, refused>>

\* The tree must be the one that was applied.
CheckTree(w) ==
  /\ Handling(w, "tree")
  /\ IF staging[Mine(w)] = "patched" THEN Quietly(w, "record") ELSE Raise(w)
  /\ UNCHANGED <<status, verdict, staging, records, refused>>

Recovering(w) == /\ rows[run[w].job].status = "leased"
                 /\ LeasedAsArchiveRecovery(log[run[w].job])

\* A faulty variant, for mutation: only a lease that still looks like a
\* recovery looks for the archive.
LookForRecordOnRecovery(w) ==
  /\ Handling(w, "record")
  /\ LET record == records[run[w].job]
     IN \/ /\ Recovering(w) /\ record \in Review!Verdict
           /\ Proceed(w, [hand[w] EXCEPT !.step = "verdict", !.outcome = record])
           /\ UNCHANGED allVars
        \/ ~Recovering(w) /\ Quietly(w, "sandbox")
  /\ UNCHANGED <<status, verdict, staging, records, refused>>

\* An archive of the job is taken for its result, and an incomplete one is an
\* error; without one a lease that is recovery-only ends here.
LookForRecord(w) ==
  /\ Handling(w, "record")
  /\ LET record == records[run[w].job]
     IN \/ /\ record \in Review!Verdict
           /\ Proceed(w, [hand[w] EXCEPT !.step = "verdict", !.outcome = record])
           /\ UNCHANGED allVars
        \/ record = "partial" /\ Raise(w)
        \/ record = "none" /\ Recovering(w) /\ RaiseAs(w, TRUE)
        \/ record = "none" /\ ~Recovering(w) /\ Quietly(w, "sandbox")
  /\ UNCHANGED <<status, verdict, staging, records, refused>>

\* A faulty variant, for mutation: the verdict comes before the archive.
RunSandboxUnarchived(w, outcome) ==
  /\ Handling(w, "sandbox")
  /\ Proceed(w, [hand[w] EXCEPT !.step = "verdict", !.outcome = outcome])
  /\ UNCHANGED <<allVars, status, verdict, staging, records, refused>>

RunSandbox(w, outcome) ==
  /\ Handling(w, "sandbox")
  /\ Proceed(w, [hand[w] EXCEPT !.step = "mkdir", !.outcome = outcome])
  /\ UNCHANGED <<allVars, status, verdict, staging, records, refused>>

\* A directory that has appeared meanwhile holds another run, other bytes.
MakeRecord(w) ==
  /\ Handling(w, "mkdir")
  /\ IF records[run[w].job] = "none"
     THEN /\ records' = [records EXCEPT ![run[w].job] = "partial"]
          /\ Quietly(w, "files")
     ELSE Raise(w) /\ UNCHANGED records
  /\ UNCHANGED <<status, verdict, staging, refused>>

FinishRecord(w) ==
  /\ Handling(w, "files")
  /\ records' = [records EXCEPT ![run[w].job] = hand[w].outcome]
  /\ ArchiveRun(w)
  /\ GoTo(w, "verdict")
  /\ UNCHANGED <<status, verdict, staging, refused>>

VerdictStands(w) == verdict[Mine(w)] = "none"

RecordVerdict(w) ==
  /\ Handling(w, "verdict")
  /\ IF VerdictStands(w)
     THEN /\ verdict' = [verdict EXCEPT ![Mine(w)] = hand[w].outcome]
          /\ Quietly(w, "return")
     ELSE Raise(w) /\ UNCHANGED verdict
  /\ UNCHANGED <<status, staging, records, refused>>

Return(w) ==
  /\ Handling(w, "return")
  /\ HandlerReturns(w) /\ Proceed(w, IdleHand)
  /\ UNCHANGED <<status, verdict, staging, records, refused>>

\* Any read, append, file write or sandbox run may raise; an archive that is
\* not finished is removed, and so is a clone.
StepRaises(w) ==
  /\ hand[w].step \notin {"idle", "return", "bundled", "cloning"}
  /\ Raise(w)
  /\ records' = IF hand[w].step = "files"
                THEN [records EXCEPT ![run[w].job] = "none"] ELSE records
  /\ UNCHANGED <<status, verdict, staging, refused>>

-------------------------------------------------------------------------------
ApplyStep(w) ==
  \/ LookForResult(w) \/ DiscardStaging(w) \/ PreflightSource(w)
  \/ CloneBegins(w) \/ CloneGrows(w) \/ CloneEnds(w) \/ CloneFails(w)
  \/ InspectStaging(w) \/ ApplyToStaging(w)
  \/ RecordApplication(w) \/ CleanStaging(w) \/ RecordConflict(w)

ValidateStep(w) ==
  \/ FindVerdict(w) \/ CheckTree(w) \/ LookForRecord(w)
  \/ \E outcome \in Review!Verdict : RunSandbox(w, outcome)
  \/ MakeRecord(w) \/ FinishRecord(w) \/ RecordVerdict(w)

\* Everything the runner does outside the handler.
LoopStep(w) ==
  /\ \/ Start(w) \/ ReadPauses(w) \/ ReadGate(w) \/ ReadArchives(w)
     \/ \E j \in Job, late \in ClockLag : TakeJob(w, j, late)
     \/ \E late \in ClockLag : TakeNothing(w, late)
     \/ Beat(w) \/ Acknowledge(w) \/ FailJobAs(w, ~hand[w].final)
  /\ UNCHANGED patchVars

Die(w) ==
  /\ Crash(w) /\ Proceed(w, IdleHand)
  /\ UNCHANGED <<status, verdict, staging, records, refused>>

OperatorStep ==
  \/ \E p \in Patch : \/ ApprovePatch(p) \/ RejectPatch(p)
  \/ \E j, k \in Job, created \in ClockReading : RetryJob(j, k, created)

PatchNext ==
  \/ \E w \in Runner : \/ LoopStep(w) \/ Begin(w) \/ ApplyStep(w)
                       \/ ValidateStep(w) \/ Return(w) \/ StepRaises(w) \/ Die(w)
  \/ OperatorStep
  \/ TimePasses /\ UNCHANGED patchVars

PatchSpec == PatchInit /\ [][PatchNext]_patchAllVars

(***************************************************************************)
(* Properties                                                              *)
(***************************************************************************)
\* Whatever overlaps, dies or is retried: one judgment, one result of an
\* approved patch, one verdict on an applied one, nothing taken back.
ImplementsReview == Review!ReviewSpec

\* As long as all heartbeats have been on time, the staging directory of an
\* applied patch holds the patch, also while a retry of its job runs
\* (the staging is kept for inspection after validation, the execution plan).
AppliedIsStaged ==
  ~overdue => \A p \in Patch : status[p] = "applied" => staging[p] = "patched"

\* As long as all heartbeats have been on time, a conflict, which is final,
\* comes from the source repository or a failing git, never from what an
\* earlier attempt left in the staging directory.
ConflictIsReal ==
  ~overdue => \A p \in Patch : status[p] = "conflicted" => p \in refused

\* The two together: on time, the directory that all jobs of a patch share is no
\* way for one attempt to spoil another.
StagingOnTime == AppliedIsStaged /\ ConflictIsReal

\* A completed application has a result, and its validation job; a completed
\* validation has a verdict.
CompletedHasResult ==
  \A j \in Job : rows[j].status = "completed" =>
    IF j \in Applies
    THEN /\ HasResult(PatchOf[j])
         /\ (status[PatchOf[j]] = "applied" /\ PatchOf[j] \in Validated) =>
              \E k \in Job \ Applies : /\ PatchOf[k] = PatchOf[j]
                                      /\ rows[k].status # "absent"
    ELSE verdict[PatchOf[j]] # "none"

\* A verdict is that of an archived sandbox run, also when it was recorded by
\* a process that did not run the sandbox.
VerdictIsArchived ==
  \A p \in Patch : verdict[p] # "none" =>
    \E j \in Job \ Applies : PatchOf[j] = p /\ records[j] = verdict[p]

\* A lease that was granted to recover an archive never runs the sandbox while it
\* is held: what kind it is is read once, in a second call after the lease and
\* before the heartbeats hide it from the lifecycle log.
RecoveryRunsNoSandbox ==
  \A w \in Runner :
    Handling(w, "sandbox") /\ Owns(w, run[w].job) => run[w].job \notin onRecovery

\* What is recorded of a patch is typed, enough for its jobs' ends, and archived.
PatchInv == PatchTypeOK /\ CompletedHasResult /\ VerdictIsArchived

(***************************************************************************)
(* The inductive invariant of the proofs.                                  *)
(***************************************************************************)
\* There is an application for what was approved only, and a validation for what
\* was applied only.
JobsAreDue ==
  \A j \in Job : rows[j].status # "absent" =>
    IF j \in Applies THEN HasResult(PatchOf[j]) \/ status[PatchOf[j]] = "approved"
    ELSE status[PatchOf[j]] = "applied"

\* What is recorded once the job may complete.
Ended(j) ==
  IF j \in Applies
  THEN /\ HasResult(PatchOf[j])
       /\ (status[PatchOf[j]] = "applied" /\ PatchOf[j] \in Validated) =>
            \E k \in Job \ Applies : /\ PatchOf[k] = PatchOf[j]
                                    /\ rows[k].status # "absent"
  ELSE verdict[PatchOf[j]] # "none"

\* The steps that decide what is recorded of a patch, in their order.
Applying == {"discard", "preflight", "clone", "bundled", "cloning",
             "inspect", "patch", "commit", "clean", "conflict"}
Validating == {"find", "tree", "record", "sandbox", "mkdir", "files", "verdict"}

\* A handler takes the steps of its job's kind, with what it has found.
HandAtWork(w) ==
  /\ InHandler(w) => rows[run[w].job].status # "absent"
  /\ hand[w].step # "idle" => run[w].pc = "working"
  /\ hand[w].step \in Applying \cup {"look"} => run[w].job \in Applies
  /\ hand[w].step \in Validating => run[w].job \notin Applies
  /\ hand[w].step \in {"mkdir", "files", "verdict"} =>
       hand[w].outcome \in Review!Verdict
  /\ hand[w].step = "files" => records[run[w].job] = "partial"
  /\ hand[w].step = "verdict" => records[run[w].job] = hand[w].outcome
  /\ \A j \in Job : (run[w].job = j /\ (hand[w].step = "return"
                                        \/ run[w].pc = "returned")) => Ended(j)

\* An archive is written by one handler at a time: the directory is made once.
OneWriter ==
  \A v, w \in Runner :
    (v # w /\ hand[v].step = "files" /\ hand[w].step = "files") =>
      run[v].job # run[w].job

\* What is read, granted and leased as a recovery has its archive, which stays.
RecoveriesArchived ==
  /\ archived = {j \in Job : records[j] \in Review!Verdict}
  /\ \A w \in Runner : run[w].pc = "lease" => run[w].recover \subseteq archived
  /\ \A j \in Job : PendingArchiveRecovery(log[j]) => j \in archived
  /\ onRecovery \subseteq archived

\* On time an attempt finds the staging directory as it left it, since no other
\* job of the patch has a handler, and knows that the patch has no result.
StagingAsLeft(w) ==
  ~overdue =>
    /\ hand[w].step \in Applying => status[Mine(w)] = "approved"
    /\ hand[w].step \in {"preflight", "clone", "bundled"} =>
         staging[Mine(w)] = "none"
    /\ hand[w].step = "cloning" => staging[Mine(w)] = "partial"
    /\ hand[w].step \in {"inspect", "patch"} => staging[Mine(w)] = "clone"
    /\ hand[w].step = "commit" => staging[Mine(w)] = "patched"
    /\ hand[w].step \in {"clean", "conflict"} => Mine(w) \in refused

PatchStory ==
  /\ JobsAreDue /\ CompletedHasResult /\ VerdictIsArchived
  /\ OneWriter /\ RecoveriesArchived /\ RecoveryRunsNoSandbox
  /\ StagingOnTime
  /\ \A w \in Runner : HandAtWork(w) /\ StagingAsLeft(w)

===============================================================================
