-------------------------- MODULE PatchPipelineProofs --------------------------
(***************************************************************************)
(* Proofs about PatchPipeline for every set of patches, jobs and processes:*)
(* its steps are steps of the automation loop, it implements the review of *)
(* patches, a recovery runs no sandbox, and on time the staging directory  *)
(* that the jobs of a patch share holds what was applied.                  *)
(***************************************************************************)
EXTENDS PatchPipeline, QueueProofs

(***************************************************************************)
(* The handlers' steps are steps of the loop                               *)
(***************************************************************************)
\* The result of an application enqueues a validation of its patch, or nothing.
LEMMA EnqueueValidation ==
  ASSUME NEW p, EnqueuePatchValidation(p)
  PROVE  \/ UNCHANGED vars
         \/ \E j \in Job \ Applies, created \in ClockReading :
              PatchOf[j] = p /\ Enqueue(j, created)
BY DEF EnqueuePatchValidation

\* Every step outside the handler is one of RunStep.
LEMMA LoopStepIsRunStep ==
  ASSUME NEW w \in Runner, LoopStep(w) \/ Begin(w)
  PROVE  RunStep(w)
<1>1. FailJobAs(w, ~hand[w].final) => FailJob(w)
  <2>1. (~hand[w].final) \in Retryable
    BY PatchAssumption
  <2>2. QED
    BY <2>1 DEF FailJob
<1>2. QED
  BY <1>1 DEF LoopStep, Begin, RunStep

\* A step of the handler leaves the loop alone, ends the handler, archives its
\* run or enqueues the validation of its patch.
LEMMA HandlerStepIsLoopStep ==
  ASSUME NEW w \in Runner, ApplyStep(w) \/ ValidateStep(w) \/ StepRaises(w) \/ Return(w)
  PROVE  \/ UNCHANGED allVars
         \/ HandlerRaises(w) \/ HandlerReturns(w) \/ ArchiveRun(w)
         \/ QueueCommand
<1>1. ASSUME NEW p, EnqueuePatchValidation(p), UNCHANGED runnerVars
      PROVE  UNCHANGED allVars \/ QueueCommand
  <2>1. CASE UNCHANGED vars
    BY <1>1, <2>1 DEF allVars
  <2>2. CASE \E j \in Job, created \in ClockReading : Enqueue(j, created)
    BY <1>1, <2>2 DEF QueueCommand
  <2>3. QED
    BY <1>1, <2>1, <2>2, EnqueueValidation
<1>2. CASE LookForResult(w)
  BY <1>1, <1>2 DEF LookForResult, allVars
<1>3. CASE RecordApplication(w)
  BY <1>1, <1>3 DEF RecordApplication, Raise, RaiseAs
<1>4. CASE \/ DiscardStaging(w) \/ PreflightSource(w) \/ CloneBegins(w)
           \/ CloneGrows(w) \/ CloneEnds(w) \/ CloneFails(w) \/ InspectStaging(w)
           \/ ApplyToStaging(w) \/ CleanStaging(w) \/ RecordConflict(w)
  BY <1>4 DEF DiscardStaging, PreflightSource, CloneBegins, CloneGrows,
              CloneEnds, CloneFails, InspectStaging, ApplyToStaging,
              CleanStaging, RecordConflict, Quietly, Raise, RaiseAs
<1>5. CASE ValidateStep(w)
  BY <1>5 DEF ValidateStep, FindVerdict, CheckTree, LookForRecord, RunSandbox,
              MakeRecord, FinishRecord, RecordVerdict, Quietly, Raise, RaiseAs
<1>6. CASE StepRaises(w) \/ Return(w)
  BY <1>6 DEF StepRaises, Return, Raise, RaiseAs
<1>7. QED
  BY <1>2, <1>3, <1>4, <1>5, <1>6 DEF ApplyStep

\* So do the commands of the operator.
LEMMA OperatorStepIsLoopStep ==
  ASSUME OperatorStep
  PROVE  UNCHANGED allVars \/ QueueCommand
<1>1. ASSUME NEW p \in Patch, ApprovePatch(p)
      PROVE  QueueCommand
  BY <1>1, PatchAssumption DEF ApprovePatch, QueueCommand
<1>2. ASSUME NEW p \in Patch, RejectPatch(p)
      PROVE  UNCHANGED allVars
  BY <1>2 DEF RejectPatch
<1>3. ASSUME NEW j \in Job, NEW k \in Job, NEW created \in ClockReading,
             RetryJob(j, k, created)
      PROVE  QueueCommand
  BY <1>3 DEF RetryJob, QueueCommand
<1>4. QED
  BY <1>1, <1>2, <1>3 DEF OperatorStep

\* Every step of the system is one of the automation loop's, or leaves it alone.
LEMMA PatchStepIsRunnerStep ==
  ASSUME [PatchNext]_patchAllVars
  PROVE  [RunnerNext]_allVars
<1>1. ASSUME NEW w \in Runner, LoopStep(w) \/ Begin(w)
      PROVE  RunnerNext
  BY <1>1, LoopStepIsRunStep DEF RunnerNext
<1>2. ASSUME NEW w \in Runner,
             ApplyStep(w) \/ ValidateStep(w) \/ StepRaises(w) \/ Return(w)
      PROVE  [RunnerNext]_allVars
  BY <1>2, HandlerStepIsLoopStep DEF RunnerNext, RunStep
<1>3. ASSUME NEW w \in Runner, Die(w)
      PROVE  RunnerNext
  BY <1>3 DEF Die, RunnerNext
<1>4. CASE OperatorStep
  BY <1>4, OperatorStepIsLoopStep DEF RunnerNext
<1>5. CASE TimePasses
  BY <1>5 DEF RunnerNext
<1>6. CASE UNCHANGED patchAllVars
  BY <1>6 DEF patchAllVars
<1>7. QED
  BY <1>1, <1>2, <1>3, <1>4, <1>5, <1>6 DEF PatchNext

\* The handlers, their directories and the judgments are invisible to the loop:
\* the theorems about AutomationRunner and JobQueue hold of the patch pipeline.
THEOREM PatchUsesLoop == PatchSpec => RunnerSpec
<1>1. PatchInit => RunnerInit
  BY DEF PatchInit
<1>2. [PatchNext]_patchAllVars => [RunnerNext]_allVars
  BY PatchStepIsRunnerStep
<1>3. QED
  BY <1>1, <1>2, PTL DEF PatchSpec, RunnerSpec

(***************************************************************************)
(* Types                                                                   *)
(***************************************************************************)
\* Everything but the loop's own state.
OwnTypeOK ==
  /\ hand \in [Runner -> HandState]
  /\ status \in [Patch -> {"pending_human", "approved", "rejected"}
                            \cup Review!Result]
  /\ verdict \in [Patch -> Review!Verdict \cup {"none"}]
  /\ refused \subseteq Patch
  /\ staging \in [Patch -> {"none", "partial", "clone", "patched"}]
  /\ records \in [Job -> Review!Verdict \cup {"none", "partial"}]

\* The type invariant says this, and that archives are what the runner sees.
LEMMA PatchTypes ==
  PatchTypeOK <=> /\ RunnerTypeOK /\ OwnTypeOK
                  /\ archived = {j \in Job : records[j] \in Review!Verdict}
BY DEF PatchTypeOK, OwnTypeOK

\* No handler.
LEMMA NoHandler == IdleHand \in HandState /\ IdleHand.step = "idle"
BY DEF IdleHand, HandState, Steps

\* What a handler knows at first, at its end and from step to step.
LEMMA HandTypes ==
  /\ IdleHand \in HandState
  /\ IdleHand.step = "idle"
  /\ \A final \in BOOLEAN :
       /\ [IdleHand EXCEPT !.final = final] \in HandState
       /\ [IdleHand EXCEPT !.final = final].step = "idle"
  /\ \A step \in Steps :
       /\ [IdleHand EXCEPT !.step = step] \in HandState
       /\ [IdleHand EXCEPT !.step = step].step = step
  /\ \A h \in HandState, step \in Steps :
       /\ [h EXCEPT !.step = step] \in HandState
       /\ [h EXCEPT !.step = step].step = step
       /\ [h EXCEPT !.step = step].outcome = h.outcome
  /\ \A h \in HandState, step \in Steps, outcome \in Review!Verdict :
       /\ [h EXCEPT !.step = step, !.outcome = outcome] \in HandState
       /\ [h EXCEPT !.step = step, !.outcome = outcome].step = step
       /\ [h EXCEPT !.step = step, !.outcome = outcome].outcome = outcome
<1>1. QED
  BY NoHandler DEF HandState

\* A handler that goes on leaves the others where they are.
LEMMA Proceeds ==
  ASSUME hand \in [Runner -> HandState], NEW w \in Runner, NEW h \in HandState,
         Proceed(w, h)
  PROVE  /\ hand' \in [Runner -> HandState] /\ hand'[w] = h
         /\ \A v \in Runner \ {w} : hand'[v] = hand[v]
BY DEF Proceed

\* A handler that goes to a step keeps what it has found.
LEMMA GoesTo ==
  ASSUME hand \in [Runner -> HandState], NEW w \in Runner, NEW step \in Steps,
         GoTo(w, step)
  PROVE  /\ hand' \in [Runner -> HandState]
         /\ hand'[w].step = step /\ hand'[w].outcome = hand[w].outcome
         /\ \A v \in Runner \ {w} : hand'[v] = hand[v]
<1> DEFINE h == [hand[w] EXCEPT !.step = step]
<1>1. hand[w] \in HandState
  OBVIOUS
<1>2. h \in HandState /\ h.step = step /\ h.outcome = hand[w].outcome
  BY <1>1, NoHandler DEF HandState
<1>3. Proceed(w, h)
  BY DEF GoTo
<1> HIDE DEF h
<1>4. QED
  BY <1>2, <1>3, Proceeds

\* A handler that raises ends.
LEMMA RaisesIdle ==
  ASSUME hand \in [Runner -> HandState], NEW w \in Runner, NEW final \in BOOLEAN,
         RaiseAs(w, final)
  PROVE  /\ hand' \in [Runner -> HandState] /\ hand'[w].step = "idle"
         /\ \A v \in Runner \ {w} : hand'[v] = hand[v]
         /\ HandlerRaises(w)
<1> DEFINE h == [IdleHand EXCEPT !.final = final]
<1>1. h \in HandState /\ h.step = "idle"
  BY HandTypes
<1>2. Proceed(w, h) /\ HandlerRaises(w)
  BY DEF RaiseAs
<1> HIDE DEF h
<1>3. QED
  BY <1>1, <1>2, Proceeds

\* The steps of a handler that goes on.
LEMMA StepNames ==
  /\ \A step \in Applying \cup Validating \cup {"look", "idle", "return"} :
       step \in Steps
  /\ Review!Verdict = {"passed", "failed"}
  /\ Review!Result = {"applied", "conflicted"}
BY DEF Applying, Validating, Steps, Review!Verdict, Review!Result

(***************************************************************************)
(* What no step takes back                                                 *)
(***************************************************************************)
\* Jobs stay, and so do results, verdicts, finished archives and reasons to
\* refuse; an approved patch stays approved until it has its result.
NothingTakenBack ==
  /\ \A j \in Job : rows[j].status # "absent" => rows'[j].status # "absent"
  /\ \A p \in Patch : HasResult(p) => status'[p] = status[p]
  /\ \A p \in Patch : status[p] = "approved" =>
       status'[p] = "approved" \/ HasResult(p)'
  /\ \A p \in Patch : verdict[p] # "none" => verdict'[p] = verdict[p]
  /\ \A j \in Job : records[j] \in Review!Verdict => records'[j] = records[j]
  /\ refused \subseteq refused'
  /\ overdue => overdue'

\* What a job needs for its end stays.
LEMMA EndedStays ==
  ASSUME NothingTakenBack, NEW j \in Job, Ended(j)
  PROVE  Ended(j)'
<1>0. PatchOf[j] \in Patch
  BY PatchAssumption
<1>1. CASE j \in Applies
  <2>1. HasResult(PatchOf[j]) /\ status'[PatchOf[j]] = status[PatchOf[j]]
    BY <1>0, <1>1 DEF Ended, NothingTakenBack
  <2>2. HasResult(PatchOf[j])'
    BY <2>1 DEF HasResult
  <2>3. ASSUME status'[PatchOf[j]] = "applied", PatchOf[j] \in Validated
        PROVE  \E k \in Job \ Applies : /\ PatchOf[k] = PatchOf[j]
                                        /\ rows'[k].status # "absent"
    BY <1>1, <2>1, <2>3 DEF Ended, NothingTakenBack
  <2>4. QED
    BY <1>1, <2>2, <2>3 DEF Ended
<1>2. CASE j \notin Applies
  BY <1>0, <1>2 DEF Ended, NothingTakenBack
<1>3. QED
  BY <1>1, <1>2

\* A job that is due stays due, and so is a new one that is due.
LEMMA DueStays ==
  ASSUME NothingTakenBack, JobsAreDue,
         \A j \in Job :
           rows[j].status = "absent" /\ rows'[j].status # "absent" =>
             IF j \in Applies
             THEN HasResult(PatchOf[j])' \/ status'[PatchOf[j]] = "approved"
             ELSE status'[PatchOf[j]] = "applied"
  PROVE  JobsAreDue'
<1> SUFFICES ASSUME NEW j \in Job, rows'[j].status # "absent"
             PROVE  IF j \in Applies
                    THEN \/ HasResult(PatchOf[j])'
                         \/ status'[PatchOf[j]] = "approved"
                    ELSE status'[PatchOf[j]] = "applied"
  BY DEF JobsAreDue
<1>0. PatchOf[j] \in Patch
  BY PatchAssumption
<1>1. CASE rows[j].status = "absent"
  BY <1>1
<1>2. CASE rows[j].status # "absent"
  <2>1. IF j \in Applies
        THEN HasResult(PatchOf[j]) \/ status[PatchOf[j]] = "approved"
        ELSE status[PatchOf[j]] = "applied"
    BY <1>2 DEF JobsAreDue
  <2>2. HasResult(PatchOf[j]) =>
          status'[PatchOf[j]] = status[PatchOf[j]] /\ HasResult(PatchOf[j])'
    BY <1>0 DEF NothingTakenBack, HasResult
  <2>3. status[PatchOf[j]] = "applied" => HasResult(PatchOf[j])
    BY StepNames DEF HasResult
  <2>4. status[PatchOf[j]] = "approved" =>
          status'[PatchOf[j]] = "approved" \/ HasResult(PatchOf[j])'
    BY <1>0 DEF NothingTakenBack
  <2>5. QED
    BY <2>1, <2>2, <2>3, <2>4
<1>3. QED
  BY <1>1, <1>2

\* A job is completed by the handler that has returned from it, only.
LEMMA CompletedStays ==
  ASSUME NothingTakenBack, CompletedHasResult,
         \A v \in Runner : HandAtWork(v),
         \A j \in Job : rows'[j].status = "completed" =>
           \/ rows[j].status = "completed"
           \/ \E v \in Runner : run[v].pc = "returned" /\ run[v].job = j
  PROVE  CompletedHasResult'
<1> SUFFICES ASSUME NEW j \in Job, rows'[j].status = "completed"
             PROVE  Ended(j)'
  BY DEF CompletedHasResult, Ended
<1>1. Ended(j)
  <2>1. CASE rows[j].status = "completed"
    BY <2>1 DEF CompletedHasResult, Ended
  <2>2. CASE \E v \in Runner : run[v].pc = "returned" /\ run[v].job = j
    BY <2>2 DEF HandAtWork
  <2>3. QED
    BY <2>1, <2>2
<1>2. QED
  BY <1>1, EndedStays

\* A recorded verdict is that of its archive, which stays.
LEMMA VerdictStays ==
  ASSUME NothingTakenBack, VerdictIsArchived,
         verdict \in [Patch -> Review!Verdict \cup {"none"}],
         \A p \in Patch : verdict'[p] # verdict[p] =>
           \E j \in Job \ Applies : PatchOf[j] = p /\ records'[j] = verdict'[p]
  PROVE  VerdictIsArchived'
<1> SUFFICES ASSUME NEW p \in Patch, verdict'[p] # "none"
             PROVE  \E j \in Job \ Applies :
                      PatchOf[j] = p /\ records'[j] = verdict'[p]
  BY DEF VerdictIsArchived
<1>1. CASE verdict'[p] = verdict[p]
  <2>1. PICK j \in Job \ Applies : PatchOf[j] = p /\ records[j] = verdict[p]
    BY <1>1 DEF VerdictIsArchived
  <2>2. records'[j] = records[j]
    BY <1>1, <2>1 DEF NothingTakenBack
  <2>3. QED
    BY <1>1, <2>1, <2>2
<1>2. QED
  BY <1>1

\* A handler that others do not touch is where it was.
LEMMA HandStays ==
  ASSUME NothingTakenBack, NEW v \in Runner, HandAtWork(v), HandlerHasJob,
         run'[v].pc = run[v].pc, run'[v].job = run[v].job,
         hand'[v] = hand[v],
         hand[v].step = "files" =>
           records'[run[v].job] = records[run[v].job]
  PROVE  HandAtWork(v)'
<1>1. InHandler(v)' = InHandler(v)
  BY DEF InHandler
<1>2. InHandler(v) => run[v].job \in Job
  BY DEF HandlerHasJob
<1>3. InHandler(v) => rows'[run'[v].job].status # "absent"
  BY <1>2 DEF HandAtWork, NothingTakenBack
<1>4. hand[v].step # "idle" => InHandler(v)
  BY DEF HandAtWork, InHandler
<1>5. ASSUME NEW j \in Job, run[v].job = j,
             hand[v].step = "return" \/ run[v].pc = "returned"
      PROVE  Ended(j)'
  BY <1>5, EndedStays DEF HandAtWork
<1>6. hand[v].step = "verdict" => records'[run[v].job] = hand[v].outcome
  BY <1>2, <1>4 DEF HandAtWork, NothingTakenBack
<1>7. QED
  BY <1>1, <1>3, <1>5, <1>6 DEF HandAtWork

\* A handler that goes on without its heartbeat in the way finds its patch as it
\* left it.
LEMMA StagingStays ==
  ASSUME NothingTakenBack, NEW v \in Runner, StagingAsLeft(v),
         run'[v].job = run[v].job, hand'[v] = hand[v],
         ~overdue' /\ hand[v].step \in Applying =>
           /\ status'[Mine(v)] = status[Mine(v)]
           /\ staging'[Mine(v)] = staging[Mine(v)]
  PROVE  StagingAsLeft(v)'
<1> SUFFICES ASSUME ~overdue', hand[v].step \in Applying
             PROVE  StagingAsLeft(v)'
  BY DEF StagingAsLeft, Applying
<1>1. ~overdue /\ refused \subseteq refused'
  BY DEF NothingTakenBack
<1>2. PICK p : p = Mine(v)
  OBVIOUS
<1>3. PatchOf[run'[v].job] = p /\ PatchOf[run[v].job] = p
  BY <1>2 DEF Mine
<1>4. status'[p] = status[p] /\ staging'[p] = staging[p]
  BY <1>2
<1>5. QED
  BY <1>1, <1>3, <1>4 DEF StagingAsLeft, Mine

\* On time no two handlers work on jobs of one patch: they have their leases,
\* and the queue leases the jobs of a branch one at a time.
LEMMA AloneOnTime ==
  ASSUME QueueInv, RunnerInv, ~overdue, NEW v \in Runner, NEW w \in Runner \ {v},
         InHandler(v), InHandler(w)
  PROVE  Mine(v) # Mine(w)
<1>1. /\ run[v].job \in Job /\ run[w].job \in Job
      /\ Owns(v, run[v].job) /\ Owns(w, run[w].job)
  BY DEF RunnerInv, HandlerHasJob, LeaseOnTime
<1>2. run[v].job # run[w].job
  BY <1>1 DEF Owns
<1>3. BranchOf[run[v].job] # BranchOf[run[w].job]
  BY <1>1, <1>2, JobsOfPatchAssumption DEF QueueInv, Exclusive, Owns
<1>4. QED
  BY <1>1, <1>3, JobsOfPatchAssumption DEF Mine

(***************************************************************************)
(* The steps of the handlers                                               *)
(***************************************************************************)
\* What the loop of w shows of a handler's step: the queue may get a new job,
\* the validation of the patch, and nothing else happens to it.
LoopMoves(w) ==
  /\ run'[w].job = run[w].job
  /\ \A v \in Runner \ {w} : run'[v] = run[v]
  /\ overdue' = overdue
  /\ \A j \in Job : rows[j].status # "absent" => rows'[j] = rows[j]
  /\ \A j \in Job : rows'[j] # rows[j] =>
       rows'[j].status = "pending" /\ rows'[j].worker = NoRunner
  /\ \A j \in Job :
       PendingArchiveRecovery(log'[j]) => PendingArchiveRecovery(log[j])
  /\ onRecovery' = onRecovery

\* What the step does to w, its patch and its job.
HandMoves(w) ==
  /\ \A v \in Runner \ {w} : hand'[v] = hand[v]
  /\ HandAtWork(w)' /\ StagingAsLeft(w)'
  /\ \A j \in Job :
       rows[j].status = "absent" /\ rows'[j].status # "absent" =>
         j \notin Applies /\ status'[PatchOf[j]] = "applied"
  /\ \A p \in Patch : p # Mine(w) =>
       /\ status'[p] = status[p] /\ staging'[p] = staging[p]
       /\ verdict'[p] = verdict[p]
  /\ \A j \in Job : records'[j] # records[j] =>
       j = run[w].job /\ (records[j] = "none" \/ hand[w].step = "files")
  /\ hand'[w].step = "files" => records[run[w].job] # "partial"
  /\ hand'[w].step = "sandbox" => run[w].job \notin onRecovery
  /\ verdict' # verdict =>
       run[w].job \notin Applies /\ records'[run[w].job] = verdict'[Mine(w)]
  /\ archived \subseteq archived'
  /\ archived' = {j \in Job : records'[j] \in Review!Verdict}
  /\ ~overdue /\ status'[Mine(w)] = "applied" => staging'[Mine(w)] = "patched"
  /\ ~overdue /\ status'[Mine(w)] = "conflicted" => Mine(w) \in refused'

\* A step of a handler that moves like this keeps the invariant.
LEMMA HandlerMoves ==
  ASSUME RunnerTypeOK, OwnTypeOK, QueueInv, RunnerInv, PatchStory,
         NEW w \in Runner, run[w].pc = "working", run'[w].pc # "lease",
         NothingTakenBack, LoopMoves(w), HandMoves(w)
  PROVE  PatchStory'
<1>0. /\ HandlerHasJob /\ InHandler(w) /\ run[w].job \in Job
      /\ Mine(w) \in Patch
  BY PatchAssumption DEF RunnerInv, HandlerHasJob, InHandler, Mine
<1>1. \A v \in Runner : HandAtWork(v) /\ StagingAsLeft(v)
  BY DEF PatchStory
<1>2. JobsAreDue'
  BY DueStays DEF PatchStory, HandMoves
<1>3. CompletedHasResult'
  <2>1. \A j \in Job : rows'[j].status = "completed" =>
          \/ rows[j].status = "completed"
          \/ \E v \in Runner : run[v].pc = "returned" /\ run[v].job = j
    BY DEF LoopMoves
  <2>2. QED
    BY <1>1, <2>1, CompletedStays DEF PatchStory
<1>4. VerdictIsArchived'
  <2>1. \A p \in Patch : verdict'[p] # verdict[p] =>
          \E j \in Job \ Applies : PatchOf[j] = p /\ records'[j] = verdict'[p]
    BY <1>0 DEF HandMoves, Mine
  <2>2. QED
    BY <2>1, VerdictStays DEF PatchStory, OwnTypeOK
<1>5. OneWriter'
  <2>1. \A u, v \in Runner \ {w} :
          (u # v /\ hand'[u].step = "files" /\ hand'[v].step = "files") =>
            run'[u].job # run'[v].job
    BY DEF PatchStory, OneWriter, HandMoves, LoopMoves
  <2>2. \A v \in Runner \ {w} :
          hand'[v].step = "files" /\ hand'[w].step = "files" =>
            run'[v].job # run'[w].job
    BY <1>1 DEF HandAtWork, HandMoves, LoopMoves
  <2>3. QED
    BY <2>1, <2>2 DEF OneWriter
<1>6. RecoveriesArchived'
  <2>1. archived \subseteq archived' /\ onRecovery' \subseteq archived'
    BY DEF PatchStory, RecoveriesArchived, HandMoves, LoopMoves
  <2>2. \A j \in Job : PendingArchiveRecovery(log'[j]) => j \in archived'
    BY <2>1 DEF PatchStory, RecoveriesArchived, LoopMoves
  <2>3. \A v \in Runner : run'[v].pc = "lease" => run'[v].recover \subseteq archived'
    BY <2>1 DEF PatchStory, RecoveriesArchived, LoopMoves
  <2>4. archived' = {j \in Job : records'[j] \in Review!Verdict}
    BY DEF HandMoves
  <2>5. QED
    BY <2>1, <2>2, <2>3, <2>4 DEF RecoveriesArchived
<1>7. RecoveryRunsNoSandbox'
  <2> SUFFICES ASSUME NEW v \in Runner, Handling(v, "sandbox")',
                      rows'[run'[v].job].worker = v,
                      rows'[run'[v].job].status = "leased"
               PROVE  run'[v].job \notin onRecovery'
    BY DEF RecoveryRunsNoSandbox, Owns
  <2>1. CASE v = w
    BY <2>1 DEF HandMoves, LoopMoves, Handling
  <2>2. CASE v # w
    <3>1. run[v].pc = "working" /\ hand[v].step = "sandbox"
          /\ run'[v].job = run[v].job /\ run[v].job \in Job
      BY <1>0, <2>2
         DEF HandMoves, LoopMoves, Handling, HandlerHasJob, InHandler
    <3>2. rows'[run[v].job] = rows[run[v].job]
      BY <3>1 DEF LoopMoves
    <3>3. QED
      BY <3>1, <3>2
         DEF PatchStory, RecoveryRunsNoSandbox, Handling, Owns, LoopMoves
  <2>3. QED
    BY <2>1, <2>2
<1>8. ASSUME NEW v \in Runner
      PROVE  HandAtWork(v)' /\ StagingAsLeft(v)'
  <2>1. CASE v = w
    BY <2>1 DEF HandMoves
  <2>2. CASE v # w
    <3>1. run'[v] = run[v] /\ hand'[v] = hand[v]
      BY <2>2 DEF LoopMoves, HandMoves
    <3>2. HandAtWork(v) /\ StagingAsLeft(v)
      BY <1>1
    <3>3. hand[v].step = "files" => records'[run[v].job] = records[run[v].job]
      <4>1. hand[v].step = "files" =>
              records[run[v].job] = "partial" /\ run[v].job \in Job
        BY <1>0, <3>2 DEF HandAtWork, HandlerHasJob, InHandler
      <4>2. hand[v].step = "files" /\ hand[w].step = "files" =>
              run[v].job # run[w].job
        BY <2>2 DEF PatchStory, OneWriter
      <4>3. QED
        BY <4>1, <4>2 DEF HandMoves
    <3>4. HandAtWork(v)'
      BY <1>0, <3>1, <3>2, <3>3, HandStays
    <3>5. ~overdue' /\ hand[v].step \in Applying =>
            /\ status'[Mine(v)] = status[Mine(v)]
            /\ staging'[Mine(v)] = staging[Mine(v)]
      <4> SUFFICES ASSUME ~overdue', hand[v].step \in Applying
                   PROVE  /\ status'[Mine(v)] = status[Mine(v)]
                          /\ staging'[Mine(v)] = staging[Mine(v)]
        OBVIOUS
      <4>1. InHandler(v) /\ run[v].job \in Job /\ ~overdue
        BY <1>0, <3>2
           DEF HandAtWork, Applying, HandlerHasJob, InHandler, LoopMoves
      <4>2. Mine(v) # Mine(w) /\ Mine(v) \in Patch
        BY <1>0, <2>2, <4>1, AloneOnTime, PatchAssumption DEF Mine
      <4>3. QED
        BY <4>2 DEF HandMoves
    <3>6. StagingAsLeft(v)'
      BY <3>1, <3>2, <3>5, StagingStays
    <3>7. QED
      BY <3>4, <3>6
  <2>3. QED
    BY <2>1, <2>2
<1>9. StagingOnTime'
  <2>1. ASSUME ~overdue, NEW p \in Patch
        PROVE  /\ status'[p] = "applied" => staging'[p] = "patched"
               /\ status'[p] = "conflicted" => p \in refused'
    BY <1>0, <2>1 DEF PatchStory, StagingOnTime, AppliedIsStaged,
                      ConflictIsReal, HandMoves, NothingTakenBack
  <2>2. QED
    BY <2>1 DEF StagingOnTime, AppliedIsStaged, ConflictIsReal, LoopMoves
<1>10. QED
  BY <1>2, <1>3, <1>4, <1>5, <1>6, <1>7, <1>8, <1>9 DEF PatchStory

\* A step that the loop does not see, or one that ends the handler.
LEMMA QuietLoop ==
  ASSUME RunnerTypeOK, NEW w \in Runner, run[w].pc = "working",
         UNCHANGED allVars \/ HandlerRaises(w) \/ HandlerReturns(w)
  PROVE  /\ LoopMoves(w)
         /\ rows' = rows /\ archived' = archived /\ overdue' = overdue
         /\ onRecovery' = onRecovery
         /\ run'[w].job = run[w].job
         /\ UNCHANGED allVars => run'[w].pc = "working"
         /\ HandlerRaises(w) => run'[w].pc = "raised"
         /\ HandlerReturns(w) => run'[w].pc \in {"returned", "raised"}
         /\ run'[w].pc # "lease"
<1>0. run[w] \in RunState /\ run \in [Runner -> RunState]
  BY DEF RunnerTypeOK
<1>1. CASE UNCHANGED allVars
  <2>1. /\ run' = run /\ rows' = rows /\ log' = log /\ overdue' = overdue
        /\ onRecovery' = onRecovery /\ archived' = archived
    BY <1>1 DEF allVars, vars, runnerVars, history
  <2>2. HandlerRaises(w) => run'[w].pc = "raised"
    BY <1>0 DEF HandlerRaises, Privately, RunState
  <2>3. HandlerReturns(w) => run'[w].pc \in {"returned", "raised"}
    BY <1>0 DEF HandlerReturns, Privately, RunState
  <2>4. QED
    BY <2>1, <2>2, <2>3 DEF LoopMoves
<1>2. ASSUME NEW pc \in {"returned", "raised"},
             Privately(w, [run[w] EXCEPT !.pc = pc])
      PROVE  /\ LoopMoves(w)
             /\ rows' = rows /\ archived' = archived /\ overdue' = overdue
             /\ onRecovery' = onRecovery
             /\ run'[w].job = run[w].job /\ run'[w].pc = pc
  <2>1. /\ rows' = rows /\ log' = log /\ overdue' = overdue
        /\ onRecovery' = onRecovery /\ archived' = archived
    BY <1>2 DEF Privately, vars, history
  <2>2. /\ run'[w].job = run[w].job /\ run'[w].pc = pc
        /\ \A v \in Runner \ {w} : run'[v] = run[v]
    BY <1>0, <1>2 DEF Privately, RunState
  <2>3. QED
    BY <2>1, <2>2 DEF LoopMoves
<1>3. CASE HandlerRaises(w)
  <2>1. Privately(w, [run[w] EXCEPT !.pc = "raised"])
    BY <1>3 DEF HandlerRaises
  <2>2. run'[w].pc = "raised" /\ ~UNCHANGED allVars
    BY <1>2, <2>1 DEF allVars, runnerVars
  <2>3. QED
    BY <1>2, <2>1, <2>2
<1>4. CASE HandlerReturns(w)
  <2>1. \E pc \in {"returned", "raised"} :
          /\ Privately(w, [run[w] EXCEPT !.pc = pc])
    BY <1>4 DEF HandlerReturns
  <2>2. PICK pc \in {"returned", "raised"} :
          /\ Privately(w, [run[w] EXCEPT !.pc = pc])
    BY <2>1
  <2>3. run'[w].pc = pc /\ ~UNCHANGED allVars
    BY <1>2, <2>2 DEF allVars, runnerVars
  <2>4. HandlerRaises(w) => run'[w].pc = "raised"
    BY <1>0 DEF HandlerRaises, Privately, RunState
  <2>5. QED
    BY <1>2, <2>2, <2>3, <2>4
<1>5. QED
  BY <1>1, <1>3, <1>4

\* A step of an application on the staging directory.
LEMMA StagingMoves ==
  ASSUME RunnerTypeOK, OwnTypeOK, QueueInv, RunnerInv, PatchStory,
         NEW w \in Runner, run[w].pc = "working", hand[w].step \in Applying,
         \/ UNCHANGED allVars /\ hand'[w].step \in Applying
         \/ HandlerRaises(w) /\ hand'[w].step = "idle",
         \A v \in Runner \ {w} : hand'[v] = hand[v],
         StagingAsLeft(w)',
         UNCHANGED <<status, verdict, records>>, refused \subseteq refused',
         \A p \in Patch : p # Mine(w) => staging'[p] = staging[p]
  PROVE  PatchStory'
<1>0. /\ run[w].job \in Job /\ Mine(w) \in Patch
      /\ HandAtWork(w) /\ StagingAsLeft(w) /\ InHandler(w)
  BY PatchAssumption
     DEF RunnerInv, HandlerHasJob, InHandler, Mine, PatchStory
<1>1. /\ LoopMoves(w) /\ rows' = rows /\ archived' = archived
      /\ run'[w].job = run[w].job /\ run'[w].pc # "lease"
      /\ overdue' = overdue
      /\ hand'[w].step # "idle" => run'[w].pc = "working"
      /\ run'[w].pc \in {"working", "raised"}
  BY QuietLoop DEF Applying
<1>2. NothingTakenBack
  BY <1>1 DEF NothingTakenBack, HasResult
<1>3. HandAtWork(w)'
  BY <1>0, <1>1 DEF HandAtWork, Applying, Validating, InHandler
<1>4. ~overdue => status[Mine(w)] = "approved"
  BY <1>0 DEF StagingAsLeft
<1>5. HandMoves(w)
  <2>1. archived' = {j \in Job : records'[j] \in Review!Verdict}
    BY <1>1 DEF PatchStory, RecoveriesArchived
  <2>2. hand'[w].step \notin {"files", "sandbox"}
    BY DEF Applying
  <2>3. QED
    BY <1>1, <1>3, <1>4, <2>1, <2>2 DEF HandMoves
<1>6. QED
  BY <1>1, <1>2, <1>5, HandlerMoves

\* A step of a validation.
LEMMA ValidationMoves ==
  ASSUME RunnerTypeOK, OwnTypeOK, QueueInv, RunnerInv, PatchStory,
         NEW w \in Runner, run[w].pc = "working", run'[w].pc # "lease",
         hand'[w].step \notin Applying,
         LoopMoves(w), \A v \in Runner \ {w} : hand'[v] = hand[v],
         HandAtWork(w)',
         UNCHANGED <<rows, status, staging, refused>>,
         \A j \in Job : records'[j] # records[j] =>
           /\ j = run[w].job /\ records[j] \notin Review!Verdict
           /\ records[j] = "none" \/ hand[w].step = "files",
         hand'[w].step = "files" => records[run[w].job] # "partial",
         hand'[w].step = "sandbox" => run[w].job \notin onRecovery,
         verdict' = verdict \/
           /\ verdict[Mine(w)] = "none"
           /\ verdict' = [verdict EXCEPT ![Mine(w)] = hand[w].outcome]
           /\ run[w].job \notin Applies /\ records'[run[w].job] = hand[w].outcome,
         archived \subseteq archived',
         archived' = {j \in Job : records'[j] \in Review!Verdict}
  PROVE  PatchStory'
<1>0. /\ run[w].job \in Job /\ Mine(w) \in Patch /\ InHandler(w)
  BY PatchAssumption DEF RunnerInv, HandlerHasJob, InHandler, Mine
<1>1. StagingAsLeft(w)'
  BY DEF StagingAsLeft, Applying
<1>2. \A p \in Patch : verdict'[p] # verdict[p] =>
        /\ p = Mine(w) /\ verdict[p] = "none" /\ run[w].job \notin Applies
        /\ records'[run[w].job] = verdict'[p]
  BY <1>0 DEF OwnTypeOK
<1>3. NothingTakenBack
  BY <1>2 DEF NothingTakenBack, HasResult, LoopMoves
<1>4. verdict' # verdict =>
        run[w].job \notin Applies /\ records'[run[w].job] = verdict'[Mine(w)]
  BY <1>0 DEF OwnTypeOK
<1>5. ~overdue => /\ status'[Mine(w)] = "applied" => staging'[Mine(w)] = "patched"
                  /\ status'[Mine(w)] = "conflicted" => Mine(w) \in refused'
  BY <1>0 DEF PatchStory, StagingOnTime, AppliedIsStaged, ConflictIsReal
<1>6. HandMoves(w)
  BY <1>1, <1>2, <1>4, <1>5 DEF HandMoves
<1>7. QED
  BY <1>3, <1>6, HandlerMoves

\* What is known of a handler that applies a patch.
LEMMA ApplyingFacts ==
  ASSUME RunnerInv, PatchStory, OwnTypeOK, NEW w \in Runner,
         run[w].pc = "working", hand[w].step \in Applying \cup {"look"}
  PROVE  /\ run[w].job \in Job /\ Mine(w) \in Patch /\ InHandler(w)
         /\ run[w].job \in Applies /\ HandAtWork(w) /\ StagingAsLeft(w)
         /\ hand \in [Runner -> HandState]
         /\ staging \in [Patch -> {"none", "partial", "clone", "patched"}]
         /\ HasResult(Mine(w)) \/ status[Mine(w)] = "approved"
<1>1. /\ run[w].job \in Job /\ Mine(w) \in Patch /\ InHandler(w)
      /\ HandAtWork(w) /\ StagingAsLeft(w)
  BY PatchAssumption
     DEF RunnerInv, HandlerHasJob, InHandler, Mine, PatchStory
<1>2. run[w].job \in Applies /\ rows[run[w].job].status # "absent"
  BY <1>1 DEF HandAtWork
<1>3. HasResult(Mine(w)) \/ status[Mine(w)] = "approved"
  BY <1>1, <1>2 DEF PatchStory, JobsAreDue, Mine
<1>4. QED
  BY <1>1, <1>2, <1>3 DEF OwnTypeOK

\* On time, a step to `step` finds what the rest of the attempt needs.
LEMMA NextStaging ==
  ASSUME RunnerTypeOK, NEW w \in Runner, NEW step \in Applying \cup {"idle"},
         (UNCHANGED allVars /\ run[w].pc = "working") \/ step = "idle",
         hand'[w].step = step,
         ~overdue /\ step # "idle" =>
           /\ status'[Mine(w)] = "approved"
           /\ step \in {"preflight", "clone", "bundled"} =>
                staging'[Mine(w)] = "none"
           /\ step = "cloning" => staging'[Mine(w)] = "partial"
           /\ step \in {"inspect", "patch"} => staging'[Mine(w)] = "clone"
           /\ step = "commit" => staging'[Mine(w)] = "patched"
           /\ step \in {"clean", "conflict"} => Mine(w) \in refused'
  PROVE  StagingAsLeft(w)'
<1>1. CASE step = "idle"
  BY <1>1 DEF StagingAsLeft, Applying
<1>2. CASE step # "idle"
  <2>1. run' = run /\ overdue' = overdue
    BY <1>2 DEF allVars, runnerVars, history
  <2>2. PICK p : p = Mine(w)
    OBVIOUS
  <2>3. PatchOf[run'[w].job] = p
    BY <2>1, <2>2 DEF Mine
  <2>4. QED
    BY <1>2, <2>1, <2>2, <2>3 DEF StagingAsLeft, Mine
<1>3. QED
  BY <1>1, <1>2

\* An application that goes on from one step on the staging directory to another.
LEMMA GoesOnStaging ==
  ASSUME RunnerTypeOK, OwnTypeOK, QueueInv, RunnerInv, PatchStory,
         NEW w \in Runner, run[w].pc = "working", hand[w].step \in Applying,
         NEW step \in Applying, Quietly(w, step),
         UNCHANGED <<status, verdict, records>>, refused \subseteq refused',
         \A p \in Patch : p # Mine(w) => staging'[p] = staging[p],
         ~overdue =>
           /\ step \in {"preflight", "clone", "bundled"} =>
                staging'[Mine(w)] = "none"
           /\ step = "cloning" => staging'[Mine(w)] = "partial"
           /\ step \in {"inspect", "patch"} => staging'[Mine(w)] = "clone"
           /\ step = "commit" => staging'[Mine(w)] = "patched"
           /\ step \in {"clean", "conflict"} => Mine(w) \in refused'
  PROVE  PatchStory'
<1>0. UNCHANGED allVars /\ GoTo(w, step) /\ step \in Steps
  BY StepNames DEF Quietly
<1>1. StagingAsLeft(w) /\ hand \in [Runner -> HandState]
  BY ApplyingFacts
<1>2. hand'[w].step = step /\ \A v \in Runner \ {w} : hand'[v] = hand[v]
  BY <1>0, <1>1, GoesTo
<1>3. ~overdue => status'[Mine(w)] = "approved"
  BY <1>1 DEF StagingAsLeft
<1>4. StagingAsLeft(w)'
  BY <1>0, <1>2, <1>3, NextStaging
<1>5. QED
  BY <1>0, <1>2, <1>4, StagingMoves

\* An application that raises, and what it removes before.
LEMMA RaisesOnStaging ==
  ASSUME RunnerTypeOK, OwnTypeOK, QueueInv, RunnerInv, PatchStory,
         NEW w \in Runner, run[w].pc = "working", hand[w].step \in Applying,
         Raise(w),
         UNCHANGED <<status, verdict, records, refused>>,
         \A p \in Patch : p # Mine(w) => staging'[p] = staging[p]
  PROVE  PatchStory'
<1>1. StagingAsLeft(w) /\ hand \in [Runner -> HandState]
  BY ApplyingFacts
<1>2. /\ hand'[w].step = "idle" /\ \A v \in Runner \ {w} : hand'[v] = hand[v]
      /\ HandlerRaises(w)
  <2>1. RaiseAs(w, FALSE) /\ FALSE \in BOOLEAN
    BY DEF Raise
  <2>2. QED
    BY <1>1, <2>1, RaisesIdle
<1>3. StagingAsLeft(w)'
  BY <1>2 DEF StagingAsLeft, Applying
<1>4. QED
  BY <1>2, <1>3, StagingMoves

\* The steps of an application that touch nothing but the staging directory.
LEMMA StagingStory ==
  ASSUME RunnerTypeOK, OwnTypeOK, QueueInv, RunnerInv, PatchStory,
         NEW w \in Runner,
         \/ DiscardStaging(w) \/ PreflightSource(w) \/ CloneBegins(w)
         \/ CloneGrows(w) \/ CloneEnds(w) \/ CloneFails(w)
         \/ InspectStaging(w) \/ ApplyToStaging(w) \/ CleanStaging(w)
  PROVE  PatchStory'
<1>s. /\ "preflight" \in Applying /\ "clone" \in Applying
      /\ "bundled" \in Applying /\ "cloning" \in Applying
      /\ "inspect" \in Applying /\ "patch" \in Applying
      /\ "commit" \in Applying /\ "clean" \in Applying
      /\ "conflict" \in Applying
  BY DEF Applying
<1>0. /\ run[w].pc = "working" /\ hand[w].step \in Applying
      /\ UNCHANGED <<status, verdict, records>>
  BY DEF DiscardStaging, PreflightSource, CloneBegins, CloneGrows, CloneEnds,
         CloneFails, InspectStaging, ApplyToStaging, CleanStaging, Handling,
         Raise, RaiseAs, HandlerRaises, Applying
<1>1. /\ Mine(w) \in Patch
      /\ staging \in [Patch -> {"none", "partial", "clone", "patched"}]
  BY <1>0, ApplyingFacts
<1>2. ~overdue =>
        /\ hand[w].step \in {"preflight", "clone", "bundled"} =>
             staging[Mine(w)] = "none"
        /\ hand[w].step = "cloning" => staging[Mine(w)] = "partial"
        /\ hand[w].step \in {"inspect", "patch"} => staging[Mine(w)] = "clone"
        /\ hand[w].step = "commit" => staging[Mine(w)] = "patched"
        /\ hand[w].step \in {"clean", "conflict"} => Mine(w) \in refused
  BY <1>0, ApplyingFacts DEF StagingAsLeft
<1>3. RefusedBy(Mine(w)) => refused \subseteq refused' /\ Mine(w) \in refused'
  BY DEF RefusedBy
<1>4. ASSUME NEW s, staging' = [staging EXCEPT ![Mine(w)] = s]
      PROVE  /\ staging'[Mine(w)] = s
             /\ \A p \in Patch : p # Mine(w) => staging'[p] = staging[p]
  BY <1>1, <1>4
<1>5. CASE DiscardStaging(w)
  <2>1. /\ staging'[Mine(w)] = "none" /\ refused' = refused
        /\ \A p \in Patch : p # Mine(w) => staging'[p] = staging[p]
        /\ Quietly(w, "preflight")
    BY <1>4, <1>5 DEF DiscardStaging
  <2>2. QED
    BY <1>s, <1>0, <2>1, GoesOnStaging
<1>6. CASE PreflightSource(w)
  <2>1. hand[w].step = "preflight" /\ staging' = staging
    BY <1>6 DEF PreflightSource, Handling
  <2>2. CASE Quietly(w, "clone") /\ UNCHANGED refused
    BY <1>s, <1>0, <1>2, <2>1, <2>2, GoesOnStaging
  <2>3. CASE Quietly(w, "conflict") /\ RefusedBy(Mine(w))
    BY <1>s, <1>0, <1>3, <2>1, <2>3, GoesOnStaging
  <2>4. QED
    BY <1>6, <2>2, <2>3 DEF PreflightSource
<1>7. CASE CloneBegins(w)
  <2>1. staging' = staging /\ refused' = refused
    BY <1>7 DEF CloneBegins
  <2>2. CASE staging[Mine(w)] = "none" /\ Quietly(w, "bundled")
    BY <1>s, <1>0, <2>1, <2>2, GoesOnStaging
  <2>3. CASE Raise(w)
    BY <1>0, <2>1, <2>3, RaisesOnStaging
  <2>4. QED
    BY <1>7, <2>2, <2>3 DEF CloneBegins
<1>8. CASE CloneGrows(w)
  <2>1. /\ staging'[Mine(w)] = "partial" /\ refused' = refused
        /\ \A p \in Patch : p # Mine(w) => staging'[p] = staging[p]
        /\ Quietly(w, "cloning")
    BY <1>4, <1>8 DEF CloneGrows
  <2>2. QED
    BY <1>s, <1>0, <2>1, GoesOnStaging
<1>9. CASE CloneEnds(w)
  <2>1. /\ staging'[Mine(w)] = "clone" /\ refused' = refused
        /\ \A p \in Patch : p # Mine(w) => staging'[p] = staging[p]
        /\ Quietly(w, "inspect")
    BY <1>4, <1>9 DEF CloneEnds
  <2>2. QED
    BY <1>s, <1>0, <2>1, GoesOnStaging
<1>10. CASE CloneFails(w)
  <2>1. /\ \A p \in Patch : p # Mine(w) => staging'[p] = staging[p]
        /\ Raise(w) /\ refused' = refused
    BY <1>4, <1>10 DEF CloneFails
  <2>2. QED
    BY <1>0, <2>1, RaisesOnStaging
<1>11. CASE InspectStaging(w)
  <2>1. hand[w].step = "inspect" /\ staging' = staging
    BY <1>11 DEF InspectStaging, Handling
  <2>2. CASE staging[Mine(w)] = "clone" /\ Quietly(w, "patch") /\ UNCHANGED refused
    BY <1>s, <1>0, <2>1, <2>2, GoesOnStaging
  <2>3. CASE Quietly(w, "clean") /\ RefusedBy(Mine(w))
    BY <1>s, <1>0, <1>3, <2>1, <2>3, GoesOnStaging
  <2>4. CASE staging[Mine(w)] # "clone" /\ Quietly(w, "clean") /\ UNCHANGED refused
    BY <1>s, <1>0, <1>2, <2>1, <2>4, GoesOnStaging
  <2>5. CASE Raise(w) /\ UNCHANGED refused
    BY <1>0, <2>1, <2>5, RaisesOnStaging
  <2>6. QED
    BY <1>11, <2>2, <2>3, <2>4, <2>5 DEF InspectStaging
<1>12. CASE ApplyToStaging(w)
  <2>1. hand[w].step = "patch"
    BY <1>12 DEF ApplyToStaging, Handling
  <2>2. CASE /\ staging' = [staging EXCEPT ![Mine(w)] = "patched"]
             /\ Quietly(w, "commit") /\ UNCHANGED refused
    <3>1. /\ staging'[Mine(w)] = "patched"
          /\ \A p \in Patch : p # Mine(w) => staging'[p] = staging[p]
      BY <1>4, <2>2
    <3>2. QED
      BY <1>s, <1>0, <2>2, <3>1, GoesOnStaging
  <2>3. CASE Quietly(w, "clean") /\ RefusedBy(Mine(w)) /\ UNCHANGED staging
    BY <1>s, <1>0, <1>3, <2>3, GoesOnStaging
  <2>4. CASE /\ staging[Mine(w)] \in {"none", "partial"}
             /\ Quietly(w, "clean") /\ UNCHANGED <<staging, refused>>
    BY <1>s, <1>0, <1>2, <2>1, <2>4, GoesOnStaging
  <2>5. CASE Raise(w) /\ UNCHANGED <<staging, refused>>
    BY <1>0, <2>5, RaisesOnStaging
  <2>6. QED
    BY <1>12, <2>2, <2>3, <2>4, <2>5 DEF ApplyToStaging
<1>13. CASE CleanStaging(w)
  <2>1. /\ staging'[Mine(w)] = "none" /\ refused' = refused
        /\ \A p \in Patch : p # Mine(w) => staging'[p] = staging[p]
        /\ Quietly(w, "conflict") /\ hand[w].step = "clean"
    BY <1>4, <1>13 DEF CleanStaging, Handling
  <2>2. QED
    BY <1>s, <1>0, <1>2, <2>1, GoesOnStaging
<1>14. QED
  BY <1>5, <1>6, <1>7, <1>8, <1>9, <1>10, <1>11, <1>12, <1>13

\* A validation that is enqueued, or was before, is all that the queue shows.
LEMMA EnqueueMoves ==
  ASSUME RunnerTypeOK, NEW w \in Runner, NEW p \in Patch,
         EnqueuePatchValidation(p), UNCHANGED runnerVars
  PROVE  /\ LoopMoves(w) /\ run' = run /\ archived' = archived
         /\ \A k \in Job : rows[k].status # "absent" => rows'[k].status # "absent"
         /\ \A k \in Job :
              rows[k].status = "absent" /\ rows'[k].status # "absent" =>
                k \notin Applies /\ PatchOf[k] = p
         /\ p \in Validated =>
              \E k \in Job \ Applies :
                PatchOf[k] = p /\ rows'[k].status # "absent"
<1>0. /\ run' = run /\ archived' = archived /\ overdue' = overdue
      /\ rows \in [Job -> Row] /\ log \in [Job -> LogView]
  BY DEF runnerVars, history, RunnerTypeOK, TypeOK
<1>1. ASSUME NEW j \in Job \ Applies, NEW created, PatchOf[j] = p,
             Enqueue(j, created)
      PROVE  /\ LoopMoves(w)
             /\ \A k \in Job \ {j} : rows'[k] = rows[k]
             /\ rows[j].status = "absent" /\ rows'[j].status = "pending"
  <2>1. /\ rows[j].status = "absent" /\ rows'[j].status = "pending"
        /\ rows'[j].worker = NoRunner
        /\ \A k \in Job \ {j} : rows'[k] = rows[k]
        /\ onRecovery' = onRecovery
    BY <1>0, <1>1 DEF Enqueue
  <2>2. \A k \in Job :
          PendingArchiveRecovery(log'[k]) => PendingArchiveRecovery(log[k])
    <3>1. log' = [log EXCEPT ![j] = Recorded(log[j], "enqueued", "none")]
      BY <1>0, <1>1 DEF Enqueue
    <3>2. ~PendingArchiveRecovery(Recorded(log[j], "enqueued", "none"))
      BY DEF Recorded, PendingArchiveRecovery
    <3>3. QED
      BY <1>0, <3>1, <3>2
  <2>3. QED
    BY <1>0, <2>1, <2>2 DEF LoopMoves
<1>2. CASE p \in Validated /\ UNCHANGED vars
  <2>1. LoopMoves(w) /\ rows' = rows
    BY <1>0, <1>2 DEF LoopMoves, vars
  <2>2. PICK k \in Job \ Applies : PatchOf[k] = p /\ RetryOf[k] = NoJob
    BY <1>2, JobsOfPatchAssumption
  <2>3. \/ rows'[k].status # "absent"
        \/ \E j \in Job \ Applies, created \in ClockReading :
             PatchOf[j] = p /\ Enqueue(j, created)
    BY <1>2, <2>1, <2>2 DEF EnqueuePatchValidation
  <2>4. rows'[k].status # "absent"
    BY <1>1, <2>1, <2>3
  <2>5. QED
    BY <1>0, <2>1, <2>2, <2>4
<1>3. CASE p \notin Validated /\ UNCHANGED vars
  BY <1>0, <1>3 DEF LoopMoves, vars
<1>4. CASE \E j \in Job \ Applies, created \in ClockReading :
             PatchOf[j] = p /\ Enqueue(j, created)
  <2>1. PICK j \in Job \ Applies, created \in ClockReading :
             PatchOf[j] = p /\ Enqueue(j, created)
    BY <1>4
  <2>2. /\ LoopMoves(w)
        /\ \A k \in Job \ {j} : rows'[k] = rows[k]
        /\ rows[j].status = "absent" /\ rows'[j].status = "pending"
    BY <1>1, <2>1
  <2>3. QED
    BY <1>0, <2>1, <2>2
<1>5. QED
  BY <1>2, <1>3, <1>4, EnqueueValidation

\* A handler whose work is done is at its end when its job may end.
LEMMA ReturnAtWork ==
  ASSUME NEW w \in Runner, hand'[w].step = "return", run'[w].pc = "working",
         NEW j \in Job, run'[w].job = j, rows'[j].status # "absent", Ended(j)'
  PROVE  HandAtWork(w)'
BY DEF HandAtWork, Applying, Validating

\* Looking for a result, which enqueues the validation of what was applied.
LEMMA LookForResultStory ==
  ASSUME RunnerTypeOK, OwnTypeOK, QueueInv, RunnerInv, PatchStory,
         NEW w \in Runner, LookForResult(w)
  PROVE  PatchStory'
<1> DEFINE p == Mine(w)
<1>0. /\ run[w].pc = "working" /\ hand[w].step = "look"
      /\ UNCHANGED <<runnerVars, status, verdict, staging, records, refused>>
  BY DEF LookForResult, Handling
<1>1. /\ run[w].job \in Job /\ p \in Patch /\ InHandler(w)
      /\ run[w].job \in Applies /\ HandAtWork(w)
      /\ hand \in [Runner -> HandState]
      /\ HasResult(p) \/ status[p] = "approved"
  BY <1>0, ApplyingFacts
<1>2. PatchOf[run[w].job] = p
  BY DEF Mine
<1> HIDE DEF p
<1>3. /\ hand'[w].step = IF HasResult(p) THEN "return" ELSE "discard"
      /\ \A v \in Runner \ {w} : hand'[v] = hand[v]
  <2>1. (IF HasResult(p) THEN "return" ELSE "discard") \in Steps
    BY DEF Steps
  <2>2. GoTo(w, IF HasResult(p) THEN "return" ELSE "discard")
    BY DEF LookForResult, p
  <2>3. QED
    BY <1>1, <2>1, <2>2, GoesTo
<1>4. /\ LoopMoves(w) /\ run' = run /\ archived' = archived
      /\ \A k \in Job : rows[k].status # "absent" => rows'[k].status # "absent"
      /\ \A k \in Job :
           rows[k].status = "absent" /\ rows'[k].status # "absent" =>
             k \notin Applies /\ PatchOf[k] = p /\ status[p] = "applied"
      /\ status[p] = "applied" /\ p \in Validated =>
           \E k \in Job \ Applies : PatchOf[k] = p /\ rows'[k].status # "absent"
  <2>1. CASE status[p] = "applied"
    <3>1. EnqueuePatchValidation(p)
      BY <2>1 DEF LookForResult, p
    <3>2. QED
      BY <1>0, <1>1, <2>1, <3>1, EnqueueMoves
  <2>2. CASE status[p] # "applied"
    <3>1. UNCHANGED allVars
      BY <1>0, <2>2 DEF LookForResult, allVars, p
    <3>2. /\ run' = run /\ archived' = archived /\ rows' = rows
      BY <3>1 DEF allVars, vars, runnerVars
    <3>3. QED
      BY <1>0, <2>2, <3>1, <3>2, QuietLoop
  <2>3. QED
    BY <2>1, <2>2
<1>5. NothingTakenBack
  BY <1>0, <1>4 DEF NothingTakenBack, HasResult, LoopMoves
<1>6. HandAtWork(w)'
  <2>1. rows'[run[w].job].status # "absent"
    BY <1>1, <1>4 DEF HandAtWork
  <2>2. CASE HasResult(p)
    <3>1. PICK j \in Job : j = run[w].job
      BY <1>1
    <3>2. HasResult(PatchOf[j])'
      BY <1>0, <1>2, <2>2, <3>1 DEF HasResult
    <3>3. Ended(j)'
      BY <1>0, <1>1, <1>2, <1>4, <3>1, <3>2 DEF Ended
    <3>4. QED
      BY <1>0, <1>3, <1>4, <2>1, <2>2, <3>1, <3>3, ReturnAtWork
  <2>3. CASE ~HasResult(p)
    BY <1>0, <1>1, <1>3, <1>4, <2>1, <2>3
       DEF HandAtWork, Applying, Validating, InHandler
  <2>4. QED
    BY <2>2, <2>3
<1>7. StagingAsLeft(w)'
  BY <1>0, <1>1, <1>2, <1>3, <1>4 DEF StagingAsLeft, Mine, Applying
<1>8. HandMoves(w)
  <2>1. archived' = {j \in Job : records'[j] \in Review!Verdict}
    BY <1>0, <1>4 DEF PatchStory, RecoveriesArchived
  <2>2. hand'[w].step \notin {"files", "sandbox"}
    BY <1>3
  <2>3. ~overdue => /\ status'[p] = "applied" => staging'[p] = "patched"
                    /\ status'[p] = "conflicted" => p \in refused'
    BY <1>0, <1>1 DEF PatchStory, StagingOnTime, AppliedIsStaged, ConflictIsReal
  <2>4. QED
    BY <1>0, <1>3, <1>4, <1>6, <1>7, <2>1, <2>2, <2>3 DEF HandMoves, p
<1>9. run'[w].pc # "lease"
  BY <1>0, <1>4
<1>10. QED
  BY <1>0, <1>4, <1>5, <1>8, <1>9, HandlerMoves

\* An application that has its result returns.
LEMMA AppliedAtWork ==
  ASSUME NEW w \in Runner, NEW j \in Job, run[w].job = j, j \in Applies,
         run' = run, run[w].pc = "working", hand'[w].step = "return",
         rows'[j].status # "absent", HasResult(PatchOf[j])',
         status'[PatchOf[j]] = "applied" /\ PatchOf[j] \in Validated =>
           \E k \in Job \ Applies : /\ PatchOf[k] = PatchOf[j]
                                    /\ rows'[k].status # "absent"
  PROVE  HandAtWork(w)' /\ StagingAsLeft(w)'
<1>1. Ended(j)'
  BY DEF Ended
<1>2. StagingAsLeft(w)'
  BY DEF StagingAsLeft, Applying
<1>3. QED
  BY <1>1, <1>2, ReturnAtWork

\* The result of an application, with the validation it enqueues.
LEMMA RecordApplicationStory ==
  ASSUME RunnerTypeOK, OwnTypeOK, QueueInv, RunnerInv, PatchStory,
         NEW w \in Runner, RecordApplication(w)
  PROVE  PatchStory'
<1>0. /\ run[w].pc = "working" /\ hand[w].step = "commit"
      /\ UNCHANGED <<verdict, staging, records, refused>>
      /\ hand[w].step \in Applying
  BY DEF RecordApplication, Handling, Applying
<1>1. /\ run[w].job \in Job /\ Mine(w) \in Patch /\ InHandler(w)
      /\ run[w].job \in Applies /\ HandAtWork(w)
      /\ hand \in [Runner -> HandState]
  BY <1>0, ApplyingFacts
<1>2. PICK p \in Patch : p = Mine(w) /\ PatchOf[run[w].job] = p
  BY <1>1 DEF Mine
<1>3. CASE Raise(w) /\ UNCHANGED status
  BY <1>0, <1>3, RaisesOnStaging
<1>4. CASE ~(Raise(w) /\ UNCHANGED status)
  <2>1. /\ staging[p] = "patched" /\ status[p] = "approved"
        /\ status' = [status EXCEPT ![p] = "applied"]
        /\ GoTo(w, "return") /\ EnqueuePatchValidation(p) /\ UNCHANGED runnerVars
    BY <1>2, <1>4 DEF RecordApplication
  <2>2. /\ hand'[w].step = "return"
        /\ \A v \in Runner \ {w} : hand'[v] = hand[v]
    BY <1>1, <2>1, GoesTo DEF Steps
  <2>3. /\ LoopMoves(w) /\ run' = run /\ archived' = archived
        /\ \A k \in Job : rows[k].status # "absent" => rows'[k].status # "absent"
        /\ \A k \in Job :
             rows[k].status = "absent" /\ rows'[k].status # "absent" =>
               k \notin Applies /\ PatchOf[k] = p
        /\ p \in Validated =>
             \E k \in Job \ Applies : PatchOf[k] = p /\ rows'[k].status # "absent"
    BY <1>1, <2>1, EnqueueMoves
  <2>4. /\ status'[p] = "applied"
        /\ \A q \in Patch : q # p => status'[q] = status[q]
    BY <1>1, <2>1 DEF OwnTypeOK
  <2>5. HasResult(p)' /\ ~HasResult(p)
    BY <2>1, <2>4, StepNames DEF HasResult
  <2>6. NothingTakenBack
    BY <1>0, <2>3, <2>4, <2>5 DEF NothingTakenBack, HasResult, LoopMoves
  <2>7. HandAtWork(w)' /\ StagingAsLeft(w)'
    <3>1. PICK j \in Job : j = run[w].job
      BY <1>1
    <3>2. rows'[j].status # "absent"
      BY <1>1, <2>3, <3>1 DEF HandAtWork
    <3>3. HasResult(PatchOf[j])'
      BY <1>2, <2>5, <3>1 DEF HasResult
    <3>4. QED
      BY <1>0, <1>1, <1>2, <2>2, <2>3, <3>1, <3>2, <3>3, AppliedAtWork
  <2>8. HandMoves(w)
    <3>1. archived' = {j \in Job : records'[j] \in Review!Verdict}
      BY <1>0, <2>3 DEF PatchStory, RecoveriesArchived
    <3>2. QED
      BY <1>0, <1>2, <2>1, <2>2, <2>3, <2>4, <2>7, <3>1 DEF HandMoves
  <2>9. run'[w].pc # "lease"
    BY <1>0, <2>3
  <2>10. QED
    BY <1>0, <2>3, <2>6, <2>8, <2>9, HandlerMoves
<1>5. QED
  BY <1>3, <1>4

\* A conflict, for which there is a reason on time.
LEMMA RecordConflictStory ==
  ASSUME RunnerTypeOK, OwnTypeOK, QueueInv, RunnerInv, PatchStory,
         NEW w \in Runner, RecordConflict(w)
  PROVE  PatchStory'
<1>0. /\ run[w].pc = "working" /\ hand[w].step = "conflict"
      /\ UNCHANGED <<verdict, staging, records, refused>>
      /\ hand[w].step \in Applying
  BY DEF RecordConflict, Handling, Applying
<1>1. /\ run[w].job \in Job /\ Mine(w) \in Patch /\ InHandler(w)
      /\ run[w].job \in Applies /\ HandAtWork(w)
      /\ hand \in [Runner -> HandState]
      /\ ~overdue => Mine(w) \in refused
  BY <1>0, ApplyingFacts DEF StagingAsLeft
<1>2. PICK p \in Patch : p = Mine(w) /\ PatchOf[run[w].job] = p
  BY <1>1 DEF Mine
<1>3. CASE Raise(w) /\ UNCHANGED status
  BY <1>0, <1>3, RaisesOnStaging
<1>4. CASE ~(Raise(w) /\ UNCHANGED status)
  <2>1. /\ status[p] = "approved"
        /\ status' = [status EXCEPT ![p] = "conflicted"]
        /\ GoTo(w, "return") /\ UNCHANGED allVars
    BY <1>2, <1>4 DEF RecordConflict, Quietly
  <2>2. /\ hand'[w].step = "return"
        /\ \A v \in Runner \ {w} : hand'[v] = hand[v]
    BY <1>1, <2>1, GoesTo DEF Steps
  <2>3. /\ LoopMoves(w) /\ run' = run /\ archived' = archived /\ rows' = rows
    BY <1>0, <2>1, QuietLoop DEF allVars, runnerVars
  <2>4. /\ status'[p] = "conflicted"
        /\ \A q \in Patch : q # p => status'[q] = status[q]
    BY <1>1, <2>1 DEF OwnTypeOK
  <2>5. HasResult(p)' /\ ~HasResult(p)
    BY <2>1, <2>4, StepNames DEF HasResult
  <2>6. NothingTakenBack
    BY <1>0, <2>3, <2>4, <2>5 DEF NothingTakenBack, HasResult, LoopMoves
  <2>7. HandAtWork(w)' /\ StagingAsLeft(w)'
    <3>1. PICK j \in Job : j = run[w].job
      BY <1>1
    <3>2. rows'[j].status # "absent"
      BY <1>1, <2>3, <3>1 DEF HandAtWork
    <3>3. HasResult(PatchOf[j])' /\ status'[PatchOf[j]] # "applied"
      BY <1>2, <2>4, <2>5, <3>1 DEF HasResult
    <3>4. QED
      BY <1>0, <1>1, <1>2, <2>2, <2>3, <3>1, <3>2, <3>3, AppliedAtWork
  <2>8. HandMoves(w)
    <3>1. archived' = {j \in Job : records'[j] \in Review!Verdict}
      BY <1>0, <2>3 DEF PatchStory, RecoveriesArchived
    <3>2. QED
      BY <1>0, <1>1, <1>2, <2>2, <2>3, <2>4, <2>7, <3>1 DEF HandMoves
  <2>9. run'[w].pc # "lease"
    BY <1>0, <2>3
  <2>10. QED
    BY <1>0, <2>3, <2>6, <2>8, <2>9, HandlerMoves
<1>5. QED
  BY <1>3, <1>4

\* What is known of a handler that validates a patch.
LEMMA ValidatingFacts ==
  ASSUME RunnerInv, PatchStory, OwnTypeOK, NEW w \in Runner,
         run[w].pc = "working", hand[w].step \in Validating
  PROVE  /\ run[w].job \in Job /\ Mine(w) \in Patch /\ InHandler(w)
         /\ PatchOf[run[w].job] = Mine(w)
         /\ run[w].job \notin Applies /\ HandAtWork(w)
         /\ rows[run[w].job].status # "absent"
         /\ status[Mine(w)] = "applied"
         /\ hand \in [Runner -> HandState] /\ hand[w] \in HandState
         /\ records \in [Job -> Review!Verdict \cup {"none", "partial"}]
         /\ verdict \in [Patch -> Review!Verdict \cup {"none"}]
         /\ archived = {j \in Job : records[j] \in Review!Verdict}
         /\ onRecovery \subseteq archived
<1>1. /\ run[w].job \in Job /\ Mine(w) \in Patch /\ InHandler(w)
      /\ PatchOf[run[w].job] = Mine(w) /\ HandAtWork(w)
  BY PatchAssumption
     DEF RunnerInv, HandlerHasJob, InHandler, Mine, PatchStory
<1>2. run[w].job \notin Applies /\ rows[run[w].job].status # "absent"
  BY <1>1 DEF HandAtWork
<1>3. status[Mine(w)] = "applied"
  BY <1>1, <1>2 DEF PatchStory, JobsAreDue
<1>4. QED
  BY <1>1, <1>2, <1>3 DEF OwnTypeOK, PatchStory, RecoveriesArchived

\* A handler that raises keeps the invariant, when it removes at most its own
\* half-made archive.
LEMMA RaisingMoves ==
  ASSUME RunnerTypeOK, OwnTypeOK, QueueInv, RunnerInv, PatchStory,
         NEW w \in Runner, NEW final \in BOOLEAN, RaiseAs(w, final),
         UNCHANGED <<status, verdict, staging, refused>>,
         \/ records' = records
         \/ /\ hand[w].step = "files"
            /\ records' = [records EXCEPT ![run[w].job] = "none"]
  PROVE  PatchStory'
<1>0. /\ run[w].pc = "working" /\ hand \in [Runner -> HandState]
      /\ HandlerRaises(w)
      /\ records \in [Job -> Review!Verdict \cup {"none", "partial"}]
      /\ archived = {j \in Job : records[j] \in Review!Verdict}
  BY DEF RaiseAs, HandlerRaises, OwnTypeOK, PatchStory, RecoveriesArchived
<1>1. /\ run[w].job \in Job /\ InHandler(w) /\ HandAtWork(w)
      /\ rows[run[w].job].status # "absent"
  BY <1>0 DEF RunnerInv, HandlerHasJob, InHandler, PatchStory, HandAtWork
<1>2. hand'[w].step = "idle" /\ \A v \in Runner \ {w} : hand'[v] = hand[v]
  BY <1>0, RaisesIdle
<1>3. /\ LoopMoves(w) /\ rows' = rows /\ archived' = archived
      /\ run'[w].job = run[w].job /\ run'[w].pc = "raised"
  BY <1>0, QuietLoop
<1>4. HandAtWork(w)'
  BY <1>1, <1>2, <1>3 DEF HandAtWork, Applying, Validating, InHandler
<1>5. /\ \A j \in Job : records'[j] # records[j] =>
           /\ j = run[w].job /\ records[j] \notin Review!Verdict
           /\ hand[w].step = "files"
      /\ archived' = {j \in Job : records'[j] \in Review!Verdict}
  <2>1. CASE records' = records
    BY <1>0, <1>3, <2>1
  <2>2. CASE /\ hand[w].step = "files"
             /\ records' = [records EXCEPT ![run[w].job] = "none"]
    <3>1. records[run[w].job] = "partial"
      BY <1>1, <2>2 DEF HandAtWork
    <3>2. "none" \notin Review!Verdict /\ "partial" \notin Review!Verdict
      BY StepNames
    <3>3. QED
      BY <1>0, <1>1, <1>3, <2>2, <3>1, <3>2
  <2>3. QED
    BY <2>1, <2>2
<1>6. hand'[w].step \notin Applying /\ run'[w].pc # "lease"
  BY <1>2, <1>3 DEF Applying
<1>7. QED
  BY <1>0, <1>2, <1>3, <1>4, <1>5, <1>6, ValidationMoves

\* A validation that goes on, reads what is recorded, and writes nothing.
LEMMA ValidationReads ==
  ASSUME RunnerTypeOK, OwnTypeOK, QueueInv, RunnerInv, PatchStory,
         NEW w \in Runner, run[w].pc = "working", hand[w].step \in Validating,
         NEW h \in HandState, Proceed(w, h), UNCHANGED allVars,
         UNCHANGED <<status, verdict, staging, records, refused>>,
         h.step \in {"return", "tree", "record", "sandbox", "mkdir", "verdict"},
         h.step = "return" => verdict[Mine(w)] # "none",
         h.step = "sandbox" => records[run[w].job] = "none",
         h.step \in {"mkdir", "verdict"} => h.outcome \in Review!Verdict,
         h.step = "verdict" => records[run[w].job] = h.outcome
  PROVE  PatchStory'
<1>0. /\ run[w].job \in Job /\ Mine(w) \in Patch /\ InHandler(w)
      /\ PatchOf[run[w].job] = Mine(w)
      /\ run[w].job \notin Applies /\ rows[run[w].job].status # "absent"
      /\ hand \in [Runner -> HandState]
      /\ archived = {j \in Job : records[j] \in Review!Verdict}
      /\ onRecovery \subseteq archived
  BY ValidatingFacts
<1>1. hand'[w] = h /\ \A v \in Runner \ {w} : hand'[v] = hand[v]
  BY <1>0, Proceeds
<1>2. /\ LoopMoves(w) /\ rows' = rows /\ archived' = archived
      /\ run'[w].job = run[w].job /\ run'[w].pc = "working"
  BY QuietLoop
<1>3. HandAtWork(w)'
  <2>1. CASE h.step = "return"
    <3>1. PICK j \in Job : j = run[w].job
      BY <1>0
    <3>2. Ended(j)'
      BY <1>0, <2>1, <3>1 DEF Ended
    <3>3. QED
      BY <1>0, <1>1, <1>2, <2>1, <3>1, <3>2, ReturnAtWork
  <2>2. CASE h.step # "return"
    BY <1>0, <1>1, <1>2, <2>2 DEF HandAtWork, Applying, Validating, InHandler
  <2>3. QED
    BY <2>1, <2>2
<1>4. h.step = "sandbox" => run[w].job \notin onRecovery
  BY <1>0, StepNames
<1>5. /\ hand'[w].step \notin Applying /\ hand'[w].step # "files"
      /\ run'[w].pc # "lease"
  BY <1>1, <1>2 DEF Applying
<1>6. QED
  BY <1>0, <1>1, <1>2, <1>3, <1>4, <1>5, ValidationMoves

\* What a handler goes on with, as a state it may be in.
LEMMA GoesOnWith ==
  ASSUME hand \in [Runner -> HandState], NEW w \in Runner, NEW step \in Steps,
         GoTo(w, step)
  PROVE  \E h \in HandState :
           Proceed(w, h) /\ h.step = step /\ h.outcome = hand[w].outcome
<1> DEFINE h == [hand[w] EXCEPT !.step = step]
<1>0. hand[w] \in HandState
  OBVIOUS
<1>1. h \in HandState /\ h.step = step /\ h.outcome = hand[w].outcome
  BY <1>0 DEF HandState
<1>2. Proceed(w, h)
  BY DEF GoTo
<1> HIDE DEF h
<1>3. QED
  BY <1>1, <1>2

\* A handler has an outcome of the sandbox, and goes to a step with it.
Finds(w, step, outcome) ==
  Proceed(w, [hand[w] EXCEPT !.step = step, !.outcome = outcome])

\* An outcome is what the handler knows from then on.
LEMMA FindsOutcome ==
  ASSUME hand \in [Runner -> HandState], NEW w \in Runner, NEW step \in Steps,
         NEW outcome \in Review!Verdict, Finds(w, step, outcome)
  PROVE  \E h \in HandState :
           Proceed(w, h) /\ h.step = step /\ h.outcome = outcome
<1> DEFINE h == [hand[w] EXCEPT !.step = step, !.outcome = outcome]
<1>0. hand[w] \in HandState
  OBVIOUS
<1>1. h \in HandState /\ h.step = step /\ h.outcome = outcome
  BY <1>0 DEF HandState
<1>2. Proceed(w, h)
  BY DEF Finds
<1> HIDE DEF h
<1>3. QED
  BY <1>1, <1>2

\* The steps of a validation.
LEMMA ValidationStory ==
  ASSUME RunnerTypeOK, OwnTypeOK, QueueInv, RunnerInv, PatchStory,
         NEW w \in Runner, ValidateStep(w)
  PROVE  PatchStory'
<1>0. /\ run[w].pc = "working" /\ hand[w].step \in Validating
      /\ UNCHANGED <<status, staging, refused>>
  BY DEF ValidateStep, FindVerdict, CheckTree, LookForRecord, RunSandbox,
         MakeRecord, FinishRecord, RecordVerdict, Handling, Validating
<1>1. /\ run[w].job \in Job /\ Mine(w) \in Patch /\ InHandler(w)
      /\ PatchOf[run[w].job] = Mine(w)
      /\ run[w].job \notin Applies /\ HandAtWork(w)
      /\ rows[run[w].job].status # "absent"
      /\ hand \in [Runner -> HandState] /\ hand[w] \in HandState
      /\ records \in [Job -> Review!Verdict \cup {"none", "partial"}]
      /\ verdict \in [Patch -> Review!Verdict \cup {"none"}]
      /\ archived = {j \in Job : records[j] \in Review!Verdict}
      /\ onRecovery \subseteq archived
  BY <1>0, ValidatingFacts
<1>2. ASSUME NEW step \in Steps, GoTo(w, step)
      PROVE  \E h \in HandState :
               Proceed(w, h) /\ h.step = step /\ h.outcome = hand[w].outcome
  BY <1>1, <1>2, GoesOnWith
<1>3. ASSUME Raise(w), UNCHANGED <<verdict, records>>
      PROVE  PatchStory'
  <2>1. RaiseAs(w, FALSE) /\ FALSE \in BOOLEAN
    BY <1>3 DEF Raise
  <2>2. QED
    BY <1>0, <1>3, <2>1, RaisingMoves
<1>4. CASE FindVerdict(w)
  <2>1. CASE verdict[Mine(w)] # "none"
    <3>1. PICK h \in HandState : Proceed(w, h) /\ h.step = "return"
      BY <1>2, <1>4, <2>1 DEF FindVerdict, Quietly, Steps
    <3>2. QED
      BY <1>0, <1>4, <2>1, <3>1, ValidationReads DEF FindVerdict, Quietly
  <2>2. CASE verdict[Mine(w)] = "none"
    <3>1. PICK h \in HandState : Proceed(w, h) /\ h.step = "tree"
      BY <1>2, <1>4, <2>2 DEF FindVerdict, Quietly, Steps
    <3>2. QED
      BY <1>0, <1>4, <3>1, ValidationReads DEF FindVerdict, Quietly
  <2>3. QED
    BY <2>1, <2>2
<1>5. CASE CheckTree(w)
  <2>1. UNCHANGED <<verdict, records>>
    BY <1>5 DEF CheckTree
  <2>2. CASE Quietly(w, "record")
    <3>1. PICK h \in HandState : Proceed(w, h) /\ h.step = "record"
      BY <1>2, <2>2 DEF Quietly, Steps
    <3>2. QED
      BY <1>0, <2>1, <2>2, <3>1, ValidationReads DEF Quietly
  <2>3. QED
    BY <1>3, <1>5, <2>1, <2>2 DEF CheckTree
<1>6. CASE LookForRecord(w)
  <2>0. UNCHANGED <<verdict, records>>
    BY <1>6 DEF LookForRecord
  <2>1. CASE /\ records[run[w].job] \in Review!Verdict
             /\ Proceed(w, [hand[w] EXCEPT !.step = "verdict",
                                           !.outcome = records[run[w].job]])
             /\ UNCHANGED allVars
    <3>1. PICK r \in Review!Verdict : r = records[run[w].job]
      BY <2>1
    <3>2. Finds(w, "verdict", r) /\ "verdict" \in Steps
      BY <2>1, <3>1 DEF Finds, Steps
    <3>3. PICK h \in HandState :
            Proceed(w, h) /\ h.step = "verdict" /\ h.outcome = r
      <4>1. hand \in [Runner -> HandState]
        BY <1>1
      <4>2. QED
        BY <3>1, <3>2, <4>1, FindsOutcome
    <3>4. QED
      BY <1>0, <2>0, <2>1, <3>1, <3>3, ValidationReads
  <2>2. CASE Raise(w)
    BY <1>3, <2>0, <2>2
  <2>3. CASE RaiseAs(w, TRUE)
    <3>1. TRUE \in BOOLEAN
      OBVIOUS
    <3>2. QED
      BY <1>0, <2>0, <2>3, <3>1, RaisingMoves
  <2>4. CASE records[run[w].job] = "none" /\ Quietly(w, "sandbox")
    <3>1. PICK h \in HandState : Proceed(w, h) /\ h.step = "sandbox"
      BY <1>2, <2>4 DEF Quietly, Steps
    <3>2. QED
      BY <1>0, <2>0, <2>4, <3>1, ValidationReads DEF Quietly
  <2>5. QED
    BY <1>6, <2>1, <2>2, <2>3, <2>4 DEF LookForRecord
<1>7. ASSUME NEW outcome \in Review!Verdict, RunSandbox(w, outcome)
      PROVE  PatchStory'
  <2>1. /\ Finds(w, "mkdir", outcome) /\ "mkdir" \in Steps
        /\ UNCHANGED allVars /\ UNCHANGED <<verdict, records>>
    BY <1>7 DEF RunSandbox, Finds, Steps
  <2>2. PICK h \in HandState :
          Proceed(w, h) /\ h.step = "mkdir" /\ h.outcome = outcome
    <3>1. hand \in [Runner -> HandState]
      BY <1>1
    <3>2. QED
      BY <1>7, <2>1, <3>1, FindsOutcome
  <2>3. QED
    BY <1>0, <2>1, <2>2, ValidationReads
<1>8. CASE MakeRecord(w)
  <2>1. CASE Raise(w) /\ UNCHANGED records
    BY <1>3, <1>8, <2>1 DEF MakeRecord
  <2>2. CASE /\ records[run[w].job] = "none"
             /\ records' = [records EXCEPT ![run[w].job] = "partial"]
             /\ Quietly(w, "files")
    <3>1. /\ hand'[w].step = "files" /\ hand'[w].outcome = hand[w].outcome
          /\ \A v \in Runner \ {w} : hand'[v] = hand[v]
      BY <1>1, <2>2, GoesTo DEF Quietly, Steps
    <3>2. /\ LoopMoves(w) /\ rows' = rows /\ archived' = archived
          /\ run'[w].job = run[w].job /\ run'[w].pc = "working"
      BY <1>0, <2>2, QuietLoop DEF Quietly
    <3>3. hand[w].step = "mkdir" /\ hand[w].outcome \in Review!Verdict
          /\ verdict' = verdict
      BY <1>1, <1>8 DEF MakeRecord, Handling, HandAtWork
    <3>4. /\ records'[run[w].job] = "partial"
          /\ \A j \in Job : j # run[w].job => records'[j] = records[j]
          /\ "none" \notin Review!Verdict /\ "partial" \notin Review!Verdict
      BY <1>1, <2>2, StepNames
    <3>5. HandAtWork(w)'
      BY <1>1, <3>1, <3>2, <3>3, <3>4
         DEF HandAtWork, Applying, Validating, InHandler
    <3>6. archived' = {j \in Job : records'[j] \in Review!Verdict}
      BY <1>1, <2>2, <3>2, <3>4
    <3>7. hand'[w].step \notin Applying /\ run'[w].pc # "lease"
      BY <3>1, <3>2 DEF Applying
    <3>8. QED
      BY <1>0, <2>2, <3>1, <3>2, <3>3, <3>4, <3>5, <3>6, <3>7, ValidationMoves
  <2>3. QED
    BY <1>8, <2>1, <2>2 DEF MakeRecord
<1>9. CASE FinishRecord(w)
  <2>1. /\ hand[w].step = "files" /\ hand[w].outcome \in Review!Verdict
        /\ records[run[w].job] = "partial"
        /\ verdict' = verdict /\ GoTo(w, "verdict") /\ ArchiveRun(w)
        /\ records' = [records EXCEPT ![run[w].job] = hand[w].outcome]
    BY <1>1, <1>9 DEF FinishRecord, Handling, HandAtWork
  <2>2. /\ hand'[w].step = "verdict" /\ hand'[w].outcome = hand[w].outcome
        /\ \A v \in Runner \ {w} : hand'[v] = hand[v]
    BY <1>1, <2>1, GoesTo DEF Steps
  <2>3. /\ run' = run /\ rows' = rows /\ log' = log /\ overdue' = overdue
        /\ onRecovery' = onRecovery
        /\ archived' = archived \cup {run[w].job}
    BY <2>1 DEF ArchiveRun, vars, history
  <2>4. LoopMoves(w)
    BY <2>3 DEF LoopMoves
  <2>5. /\ records'[run[w].job] = hand[w].outcome
        /\ \A j \in Job : j # run[w].job => records'[j] = records[j]
        /\ "partial" \notin Review!Verdict
    BY <1>1, <2>1, StepNames
  <2>6. HandAtWork(w)'
    BY <1>0, <1>1, <2>1, <2>2, <2>3, <2>5
       DEF HandAtWork, Applying, Validating, InHandler
  <2>7. archived' = {j \in Job : records'[j] \in Review!Verdict}
    BY <1>1, <2>1, <2>3, <2>5
  <2>8. hand'[w].step \notin Applying /\ run'[w].pc # "lease"
    BY <1>0, <2>2, <2>3 DEF Applying
  <2>9. QED
    BY <1>0, <2>1, <2>2, <2>3, <2>4, <2>5, <2>6, <2>7, <2>8, ValidationMoves
<1>10. CASE RecordVerdict(w)
  <2>0. records' = records
    BY <1>10 DEF RecordVerdict
  <2>1. CASE Raise(w) /\ UNCHANGED verdict
    BY <1>3, <2>0, <2>1
  <2>2. CASE /\ VerdictStands(w)
             /\ verdict' = [verdict EXCEPT ![Mine(w)] = hand[w].outcome]
             /\ Quietly(w, "return")
    <3>1. /\ hand'[w].step = "return"
          /\ \A v \in Runner \ {w} : hand'[v] = hand[v]
      BY <1>1, <2>2, GoesTo DEF Quietly, Steps
    <3>2. /\ LoopMoves(w) /\ rows' = rows /\ archived' = archived
          /\ run'[w].job = run[w].job /\ run'[w].pc = "working"
      BY <1>0, <2>2, QuietLoop DEF Quietly
    <3>3. /\ hand[w].outcome \in Review!Verdict
          /\ records[run[w].job] = hand[w].outcome
          /\ verdict[Mine(w)] = "none"
      BY <1>1, <1>10, <2>2 DEF RecordVerdict, Handling, HandAtWork, VerdictStands
    <3>4. HandAtWork(w)'
      <4>1. PICK j \in Job : j = run[w].job
        BY <1>1
      <4>2. verdict'[PatchOf[j]] # "none"
        BY <1>1, <2>2, <3>3, <4>1, StepNames
      <4>3. Ended(j)'
        BY <1>1, <4>1, <4>2 DEF Ended
      <4>4. QED
        BY <1>1, <3>1, <3>2, <4>1, <4>3, ReturnAtWork
    <3>5. /\ hand'[w].step \notin Applying \cup {"files", "sandbox"}
          /\ run'[w].pc # "lease"
      BY <3>1, <3>2 DEF Applying
    <3>6. QED
      BY <1>0, <1>1, <2>0, <2>2, <3>1, <3>2, <3>3, <3>4, <3>5, ValidationMoves
  <2>3. QED
    BY <1>10, <2>1, <2>2 DEF RecordVerdict
<1>11. QED
  BY <1>4, <1>5, <1>6, <1>7, <1>8, <1>9, <1>10 DEF ValidateStep

\* Returning, and raising at any step.
LEMMA EndingStory ==
  ASSUME RunnerTypeOK, OwnTypeOK, QueueInv, RunnerInv, PatchStory,
         NEW w \in Runner, Return(w) \/ StepRaises(w)
  PROVE  PatchStory'
<1>1. CASE StepRaises(w)
  <2>1. RaiseAs(w, FALSE) /\ FALSE \in BOOLEAN
    BY <1>1 DEF StepRaises, Raise
  <2>2. \/ records' = records
        \/ /\ hand[w].step = "files"
           /\ records' = [records EXCEPT ![run[w].job] = "none"]
    BY <1>1 DEF StepRaises
  <2>3. UNCHANGED <<status, verdict, staging, refused>>
    BY <1>1 DEF StepRaises
  <2>4. QED
    BY <2>1, <2>2, <2>3, RaisingMoves
<1>2. CASE Return(w)
  <2>0. /\ run[w].pc = "working" /\ hand[w].step = "return"
        /\ HandlerReturns(w) /\ Proceed(w, IdleHand)
        /\ UNCHANGED <<status, verdict, staging, records, refused>>
        /\ hand \in [Runner -> HandState]
        /\ archived = {j \in Job : records[j] \in Review!Verdict}
    BY <1>2 DEF Return, Handling, OwnTypeOK, PatchStory, RecoveriesArchived
  <2>1. /\ run[w].job \in Job /\ InHandler(w) /\ HandAtWork(w)
    BY <2>0 DEF RunnerInv, HandlerHasJob, InHandler, PatchStory
  <2>2. hand'[w].step = "idle" /\ \A v \in Runner \ {w} : hand'[v] = hand[v]
    BY <2>0, Proceeds, NoHandler
  <2>3. /\ LoopMoves(w) /\ rows' = rows /\ archived' = archived
        /\ run'[w].job = run[w].job /\ run'[w].pc \in {"returned", "raised"}
    BY <2>0, QuietLoop
  <2>4. NothingTakenBack
    BY <2>0, <2>3 DEF NothingTakenBack, HasResult, LoopMoves
  <2>5. HandAtWork(w)'
    <3>1. PICK j \in Job : j = run[w].job
      BY <2>1
    <3>2. Ended(j)'
      BY <2>0, <2>1, <2>4, <3>1, EndedStays DEF HandAtWork
    <3>3. rows'[j].status # "absent"
      BY <2>1, <2>3, <3>1 DEF HandAtWork
    <3>4. QED
      BY <2>2, <2>3, <3>1, <3>2, <3>3 DEF HandAtWork, Applying, Validating
  <2>6. hand'[w].step \notin Applying /\ run'[w].pc # "lease"
    BY <2>2, <2>3 DEF Applying
  <2>7. QED
    BY <2>0, <2>2, <2>3, <2>5, <2>6, ValidationMoves
<1>3. QED
  BY <1>1, <1>2

(***************************************************************************)
(* The steps of the loop, the operator and the clock                       *)
(***************************************************************************)
\* A requeue makes no job absent or present, and grants a recovery only where
\* it was told of an archive.
LEMMA RequeueKeeps ==
  ASSUME TypeOK, NEW late, NEW recover, NEW k \in Job
  PROVE  /\ RequeuedRows(late, recover)[k].status = "absent" <=>
              rows[k].status = "absent"
         /\ PendingArchiveRecovery(RequeuedLog(late, recover)[k]) =>
              PendingArchiveRecovery(log[k]) \/ k \in recover
<1>1. CASE k \in Expired(late)
  <2>1. RequeuedRows(late, recover)[k].status \in {"pending", "dead_letter"}
    BY <1>1, RequeueFields
  <2>2. rows[k].status = "leased"
    BY <1>1 DEF Expired
  <2>3. \E mark : /\ mark = "grant" => k \in recover
                  /\ RequeuedLog(late, recover)[k]
                       = Recorded(log[k], "requeued", mark)
    BY <1>1 DEF RequeuedLog, Granted
  <2>4. PICK mark : /\ mark = "grant" => k \in recover
                    /\ RequeuedLog(late, recover)[k]
                         = Recorded(log[k], "requeued", mark)
    BY <2>3
  <2>5. RequeuedLog(late, recover)[k].recovery = mark
    BY <2>4, RecordedFields
  <2>6. QED
    BY <2>1, <2>2, <2>4, <2>5 DEF PendingArchiveRecovery
<1>2. CASE k \notin Expired(late)
  BY <1>2 DEF RequeuedRows, RequeuedLog
<1>3. QED
  BY <1>1, <1>2

\* What an operation of the queue keeps that was told of the archives `recover`
\* and leases the jobs `taken`.
QueueKeeps(recover, taken) ==
  /\ \A k \in Job : rows'[k].status = "absent" <=> rows[k].status = "absent"
  /\ \A k \in Job :
       PendingArchiveRecovery(log'[k]) =>
         PendingArchiveRecovery(log[k]) \/ k \in recover
  /\ \A k \in onRecovery' \ onRecovery :
       k \in taken /\ (PendingArchiveRecovery(log[k]) \/ k \in recover)

\* An event that is no requeue grants nothing.
LEMMA NoGrant ==
  ASSUME NEW l, NEW type, NEW mark, type # "requeued"
  PROVE  ~PendingArchiveRecovery(Recorded(l, type, mark))
BY RecordedFields DEF PendingArchiveRecovery

\* Taking a job recovers archives that were read, and takes that one job.
LEMMA TakeKeeps ==
  ASSUME TypeOK, NEW w \in Runner, NEW j \in Job, NEW late, TakeJob(w, j, late)
  PROVE  QueueKeeps(run[w].recover, {j})
<1> DEFINE recover == run[w].recover
           rs == RequeuedRows(late, recover)
           lg == RequeuedLog(late, recover)
<1>1. /\ rows' = [rs EXCEPT ![j] = LeasedTo(@, w)]
      /\ \E mark : log' = [lg EXCEPT ![j] = Recorded(@, "leased", mark)]
      /\ onRecovery' = (onRecovery \ (Expired(late) \cup {j}))
                        \cup (IF PendingArchiveRecovery(lg[j]) THEN {j} ELSE {})
      /\ rs[j].status = "pending"
  BY DEF TakeJob, Lease, Eligible
<1>2. /\ \A k \in Job : rs[k].status = "absent" <=> rows[k].status = "absent"
      /\ \A k \in Job : PendingArchiveRecovery(lg[k]) =>
           PendingArchiveRecovery(log[k]) \/ k \in recover
  BY RequeueKeeps
<1>3. rs \in [Job -> Row] /\ lg \in [Job -> LogView]
  BY RequeueType
<1> HIDE DEF recover, rs, lg
<1>4. \A k \in Job : rows'[k].status = "absent" <=> rows[k].status = "absent"
  <2>1. rows'[j].status = "leased"
    BY TakeFields
  <2>2. \A k \in Job \ {j} : rows'[k] = rs[k]
    BY <1>1, <1>3
  <2>3. QED
    BY <1>1, <1>2, <2>1, <2>2
<1>5. \A k \in Job : PendingArchiveRecovery(log'[k]) =>
        PendingArchiveRecovery(log[k]) \/ k \in recover
  <2>1. PICK mark : log' = [lg EXCEPT ![j] = Recorded(@, "leased", mark)]
    BY <1>1
  <2>2. log'[j] = Recorded(lg[j], "leased", mark)
    BY <1>3, <2>1
  <2>3. ~PendingArchiveRecovery(log'[j])
    BY <2>2, NoGrant
  <2>4. \A k \in Job \ {j} : log'[k] = lg[k]
    BY <1>3, <2>1
  <2>5. QED
    BY <1>2, <2>3, <2>4
<1>6. \A k \in onRecovery' \ onRecovery :
        k \in {j} /\ (PendingArchiveRecovery(log[k]) \/ k \in recover)
  BY <1>1, <1>2
<1>7. QED
  BY <1>4, <1>5, <1>6 DEF QueueKeeps, recover

\* A call of lease that finds nothing may recover, and takes no job.
LEMMA NothingKeeps ==
  ASSUME TypeOK, NEW w \in Runner, NEW late, TakeNothing(w, late)
  PROVE  QueueKeeps(run[w].recover, {})
<1>1. CASE UNCHANGED vars
  BY <1>1 DEF QueueKeeps, vars
<1>2. CASE LeaseNothing(late, Job, run[w].excluded, run[w].recover, TRUE)
  <2>1. /\ rows' = RequeuedRows(late, run[w].recover)
        /\ log' = RequeuedLog(late, run[w].recover)
        /\ onRecovery' \subseteq onRecovery
    BY <1>2 DEF LeaseNothing, RequeueExpired
  <2>2. QED
    BY <2>1, RequeueKeeps DEF QueueKeeps
<1>3. QED
  BY <1>1, <1>2 DEF TakeNothing, NothingToLease

\* The owner's operations, and the clock.
LEMMA OwnerKeeps ==
  ASSUME TypeOK, NEW w \in Runner, NEW j \in Job, NEW retryable,
         \/ UNCHANGED vars \/ Tick
         \/ Heartbeat(w, j) \/ Complete(w, j) \/ Fail(w, j, retryable)
  PROVE  QueueKeeps({}, {})
<1>1. ASSUME NEW type, type # "requeued",
             log' = [log EXCEPT ![j] = Recorded(@, type, "none")],
             onRecovery' \subseteq onRecovery,
             rows[j].status # "absent", rows'[j].status # "absent",
             \A k \in Job \ {j} : rows'[k] = rows[k]
      PROVE  QueueKeeps({}, {})
  <2>1. log'[j] = Recorded(log[j], type, "none")
    BY <1>1 DEF TypeOK
  <2>2. ~PendingArchiveRecovery(log'[j])
    BY <1>1, <2>1, NoGrant
  <2>3. \A k \in Job \ {j} : log'[k] = log[k]
    BY <1>1 DEF TypeOK
  <2>4. QED
    BY <1>1, <2>2, <2>3 DEF QueueKeeps
<1>2. CASE Heartbeat(w, j)
  <2>1. /\ rows[j].status = "leased" /\ rows'[j].status = "leased"
        /\ \A k \in Job \ {j} : rows'[k] = rows[k]
    BY <1>2, HeartbeatFields DEF Owns
  <2>2. /\ log' = [log EXCEPT ![j] = Recorded(@, "heartbeat", "none")]
        /\ onRecovery' = onRecovery
    BY <1>2 DEF Heartbeat
  <2>3. QED
    BY <1>1, <2>1, <2>2
<1>3. CASE Complete(w, j)
  <2>1. /\ rows[j].status = "leased" /\ rows'[j].status = "completed"
        /\ \A k \in Job \ {j} : rows'[k] = rows[k]
    BY <1>3, CompleteFields DEF Owns
  <2>2. /\ log' = [log EXCEPT ![j] = Recorded(@, "completed", "none")]
        /\ onRecovery' \subseteq onRecovery
    BY <1>3 DEF Complete
  <2>3. QED
    BY <1>1, <2>1, <2>2
<1>4. CASE Fail(w, j, retryable)
  <2>1. /\ rows[j].status = "leased" /\ rows'[j].status # "absent"
        /\ \A k \in Job \ {j} : rows'[k] = rows[k]
    BY <1>4, FailFields DEF Owns
  <2>2. /\ log' = [log EXCEPT ![j] = Recorded(@, "failed", "none")]
        /\ onRecovery' \subseteq onRecovery
    BY <1>4 DEF Fail
  <2>3. QED
    BY <1>1, <2>1, <2>2
<1>5. CASE UNCHANGED vars
  BY <1>5 DEF QueueKeeps, vars
<1>6. CASE Tick
  <2>1. log' = log /\ onRecovery' = onRecovery
    BY <1>6 DEF Tick
  <2>2. \A k \in Job : rows'[k].status = rows[k].status
    BY <1>6, TickFields
  <2>3. QED
    BY <2>1, <2>2 DEF QueueKeeps
<1>7. QED
  BY <1>2, <1>3, <1>4, <1>5, <1>6

\* What is seen of a step outside the handlers: jobs stay or come due, judgments
\* concern what awaits one, no recovery is granted without an archive, and only
\* a lease makes a job a recovery.
LoopKeeps ==
  /\ \A k \in Job : rows[k].status # "absent" => rows'[k].status # "absent"
  /\ \A k \in Job :
       rows[k].status = "absent" /\ rows'[k].status # "absent" =>
         IF k \in Applies
         THEN HasResult(PatchOf[k])' \/ status'[PatchOf[k]] = "approved"
         ELSE status'[PatchOf[k]] = "applied"
  /\ \A p \in Patch : status'[p] # status[p] =>
       status[p] = "pending_human" /\ status'[p] \in {"approved", "rejected"}
  /\ UNCHANGED <<verdict, staging, records, refused, archived>>
  /\ overdue => overdue'
  /\ \A v \in Runner : run'[v].pc = "lease" => run'[v].recover \subseteq archived
  /\ \A k \in Job : PendingArchiveRecovery(log'[k]) => k \in archived
  /\ \A k \in onRecovery' \ onRecovery :
       /\ k \in archived
       /\ \E u \in Runner : run[u].pc = "lease" /\ rows'[k].worker = u

\* What a runner's handler does in such a step: it stays where it is, there is
\* none any more or not yet, or it begins.
Stays(v) ==
  run'[v].pc = run[v].pc /\ run'[v].job = run[v].job /\ hand'[v] = hand[v]

Leaves(v) ==
  /\ hand'[v].step = "idle" /\ run'[v].pc \notin {"working", "returned"}
  /\ InHandler(v)' => rows'[run'[v].job].status # "absent"

Begins(v) ==
  /\ run[v].pc = "leased" /\ run'[v].pc = "working" /\ run'[v].job = run[v].job
  /\ hand'[v].step = IF run[v].job \in Applies THEN "look" ELSE "find"

\* Who completes a job has returned from it, and who works does not take a job.
LEMMA LoopSees ==
  ASSUME RunnerTypeOK, QueueInv, RunnerInv, [RunnerNext]_allVars
  PROVE  /\ \A j \in Job : rows'[j].status = "completed" =>
              \/ rows[j].status = "completed"
              \/ \E v \in Runner : run[v].pc = "returned" /\ run[v].job = j
         /\ \A v \in Runner, j \in Job :
              run[v].pc # "lease" /\ rows'[j].worker = v => rows[j].worker = v
<1>0. HandlerHasJob
  BY DEF RunnerInv
<1>1. CASE UNCHANGED allVars
  BY <1>1 DEF allVars, vars
<1>2. CASE RunnerNext
  <2>1. ASSUME NEW j \in Job, rows'[j].status = "completed",
               rows[j].status # "completed"
        PROVE  \E v \in Runner : run[v].pc = "returned" /\ run[v].job = j
    BY <1>0, <1>2, <2>1, OnlyAcknowledged
  <2>2. ASSUME NEW v \in Runner, NEW j \in Job, run[v].pc # "lease",
               rows'[j].worker = v, rows[j].worker # v
        PROVE  FALSE
    <3>1. Takes(v, j)
      BY <2>2 DEF Takes
    <3>2. \E late \in ClockLag : TakeJob(v, j, late)
      BY <1>0, <1>2, <3>1, OnlyTaken
    <3>3. QED
      BY <2>2, <3>2 DEF TakeJob
  <2>3. QED
    BY <2>1, <2>2
<1>3. QED
  BY <1>1, <1>2

\* What is leased to a process has it as its worker, and nothing else has.
LEMMA WorkersOwn ==
  ASSUME QueueInv, NEW v \in Runner, NEW j \in Job, rows[j].worker = v
  PROVE  Owns(v, j)
BY QueueAssumption DEF QueueInv, Held, Owns

\* A step outside the handlers' own keeps the invariant.
LEMMA LoopStory ==
  ASSUME RunnerTypeOK, OwnTypeOK, QueueInv, RunnerInv, PatchStory,
         [RunnerNext]_allVars, LoopKeeps,
         \A v \in Runner : Stays(v) \/ Leaves(v) \/ Begins(v)
  PROVE  PatchStory'
<1>0. /\ HandlerHasJob /\ \A v \in Runner : HandAtWork(v) /\ StagingAsLeft(v)
      /\ \A v \in Runner : InHandler(v) => run[v].job \in Job
      /\ \A v \in Runner : InHandler(v) => Mine(v) \in Patch
  BY PatchAssumption DEF RunnerInv, HandlerHasJob, PatchStory, Mine
<1>1. NothingTakenBack
  <2>1. \A p \in Patch :
          /\ HasResult(p) => status[p] # "pending_human"
          /\ status[p] = "approved" => status[p] # "pending_human"
    BY StepNames DEF HasResult
  <2>2. \A p \in Patch : HasResult(p) => status'[p] = status[p]
    BY <2>1 DEF LoopKeeps
  <2>3. \A p \in Patch : status[p] = "approved" => status'[p] = "approved"
    BY <2>1 DEF LoopKeeps
  <2>4. QED
    BY <2>2, <2>3 DEF NothingTakenBack, LoopKeeps
<1>2. JobsAreDue'
  BY <1>1, DueStays DEF PatchStory, LoopKeeps
<1>3. CompletedHasResult'
  BY <1>0, <1>1, CompletedStays, LoopSees DEF PatchStory
<1>4. VerdictIsArchived'
  BY <1>1, VerdictStays DEF PatchStory, OwnTypeOK, LoopKeeps
<1>5. \A v \in Runner :
        hand'[v].step \in Applying \cup Validating \cup {"return"} =>
          Stays(v) \/ (hand'[v].step = "find" /\ Begins(v))
  BY DEF Leaves, Begins, Applying, Validating
<1>6. OneWriter'
  <2>1. \A v \in Runner : hand'[v].step = "files" =>
          hand[v].step = "files" /\ run'[v].job = run[v].job
    BY <1>5 DEF Stays, Validating
  <2>2. QED
    BY <2>1 DEF PatchStory, OneWriter
<1>7. RecoveriesArchived'
  <2>1. onRecovery' \subseteq archived'
    BY DEF PatchStory, RecoveriesArchived, LoopKeeps
  <2>2. archived' = {j \in Job : records'[j] \in Review!Verdict}
    BY DEF PatchStory, RecoveriesArchived, LoopKeeps
  <2>3. QED
    BY <2>1, <2>2 DEF RecoveriesArchived, LoopKeeps
<1>8. RecoveryRunsNoSandbox'
  <2> SUFFICES ASSUME NEW v \in Runner, Handling(v, "sandbox")',
                      Owns(v, run[v].job)'
               PROVE  run'[v].job \notin onRecovery'
    BY DEF RecoveryRunsNoSandbox
  <2>1. Stays(v) /\ hand[v].step = "sandbox" /\ run[v].pc = "working"
    BY <1>5 DEF Handling, Stays, Validating
  <2>2. PICK j \in Job : j = run[v].job /\ j = run'[v].job
    BY <1>0, <2>1 DEF Stays, InHandler
  <2>3. rows'[j].worker = v
    BY <2>2 DEF Owns
  <2>4. Owns(v, j) /\ Handling(v, "sandbox")
    BY <2>1, <2>3, LoopSees, WorkersOwn DEF Handling
  <2>5. j \notin onRecovery
    BY <2>2, <2>4 DEF PatchStory, RecoveryRunsNoSandbox
  <2>6. j \notin onRecovery'
    BY <2>1, <2>3, <2>5 DEF LoopKeeps
  <2>7. QED
    BY <2>2, <2>6
<1>9. StagingOnTime'
  <2>1. \A p \in Patch : status'[p] \in {"applied", "conflicted"} =>
          status'[p] = status[p]
    BY DEF LoopKeeps
  <2>2. QED
    BY <2>1 DEF PatchStory, StagingOnTime, AppliedIsStaged, ConflictIsReal,
                LoopKeeps
<1>10. ASSUME NEW v \in Runner
       PROVE  HandAtWork(v)' /\ StagingAsLeft(v)'
  <2>1. CASE Stays(v)
    <3>1. HandAtWork(v)'
      BY <1>0, <1>1, <2>1, HandStays DEF Stays, LoopKeeps
    <3>2. ~overdue' /\ hand[v].step \in Applying =>
            /\ status'[Mine(v)] = status[Mine(v)]
            /\ staging'[Mine(v)] = staging[Mine(v)]
      <4>1. ~overdue' /\ hand[v].step \in Applying =>
              status[Mine(v)] = "approved" /\ Mine(v) \in Patch
        BY <1>0 DEF StagingAsLeft, HandAtWork, InHandler, Applying, LoopKeeps
      <4>2. QED
        BY <4>1 DEF LoopKeeps
    <3>3. StagingAsLeft(v)'
      BY <1>0, <1>1, <2>1, <3>2, StagingStays DEF Stays
    <3>4. QED
      BY <3>1, <3>3
  <2>2. CASE Leaves(v)
    BY <2>2 DEF Leaves, HandAtWork, StagingAsLeft, Applying, Validating
  <2>3. CASE Begins(v)
    <3>1. hand'[v].step \in {"look", "find"}
      BY <2>3 DEF Begins
    <3>2. rows[run[v].job].status # "absent" /\ run[v].job \in Job
      BY <1>0, <2>3 DEF Begins, HandAtWork, InHandler
    <3>3. rows'[run'[v].job].status # "absent"
      BY <2>3, <3>2 DEF Begins, LoopKeeps
    <3>4. HandAtWork(v)'
      BY <2>3, <3>1, <3>3 DEF Begins, HandAtWork, Applying, Validating
    <3>5. StagingAsLeft(v)'
      BY <3>1 DEF StagingAsLeft, Applying
    <3>6. QED
      BY <3>4, <3>5
  <2>4. QED
    BY <2>1, <2>2, <2>3
<1>11. QED
  BY <1>2, <1>3, <1>4, <1>6, <1>7, <1>8, <1>9, <1>10 DEF PatchStory

\* What the loop of w does in one step, with the archives it has read.
LoopGoes(w) ==
  /\ archived' = archived
  /\ \E recover \in SUBSET archived, taken \in SUBSET Job :
       /\ QueueKeeps(recover, taken)
       /\ \A k \in taken : run[w].pc = "lease" /\ rows'[k].worker = w
  /\ run'[w].pc = "lease" => run'[w].recover \subseteq archived
  /\ Stays(w) \/ Leaves(w) \/ Begins(w)

\* A step that leaves the queue alone.
LEMMA PrivateGoes ==
  ASSUME RunnerTypeOK, NEW w \in Runner, NEW r, Privately(w, r),
         r.pc = "lease" => r.recover \subseteq archived,
         \/ r.pc = "working" /\ run[w].pc = "leased" /\ r.job = run[w].job
            /\ hand'[w].step = IF run[w].job \in Applies THEN "look" ELSE "find"
         \/ r.pc \in {"off", "pauses", "gate", "archives", "lease"}
            /\ hand'[w].step = "idle"
  PROVE  LoopGoes(w)
<1>1. run'[w] = r /\ UNCHANGED vars /\ archived' = archived
  BY DEF Privately, RunnerTypeOK
<1>2. QueueKeeps({}, {})
  BY <1>1 DEF QueueKeeps, vars
<1>3. Stays(w) \/ Leaves(w) \/ Begins(w)
  BY <1>1 DEF Leaves, Begins, InHandler
<1>4. QED
  BY <1>1, <1>2, <1>3 DEF LoopGoes

\* Reading the boundaries and the archives.
LEMMA ReadingGoes ==
  ASSUME RunnerTypeOK, NEW w \in Runner, hand'[w].step = "idle",
         Start(w) \/ ReadPauses(w) \/ ReadGate(w) \/ ReadArchives(w)
  PROVE  LoopGoes(w)
<1>0. run[w] \in RunState
  BY DEF RunnerTypeOK
<1>1. ASSUME NEW r, Privately(w, r), r.pc \in {"off", "pauses", "gate", "archives"}
      PROVE  LoopGoes(w)
  BY <1>1, PrivateGoes
<1>2. CASE Start(w)
  <2> DEFINE r == [Off EXCEPT !.pc = "pauses"]
  <2>1. Privately(w, r) /\ r.pc = "pauses"
    BY <1>2 DEF Start, Off
  <2> HIDE DEF r
  <2>2. QED
    BY <1>1, <2>1
<1>3. CASE ReadPauses(w)
  <2> DEFINE r == [run[w] EXCEPT !.pc = "gate", !.excluded = PausedJobBranches]
  <2>1. Privately(w, r)
    BY <1>3 DEF ReadPauses
  <2>2. r.pc = "gate"
    BY <1>0 DEF RunState
  <2> HIDE DEF r
  <2>3. QED
    BY <1>1, <2>1, <2>2
<1>4. CASE ReadGate(w)
  <2> DEFINE r == IF UntilHuman /\ gate THEN Off
                  ELSE [run[w] EXCEPT !.pc = "archives"]
  <2>1. Privately(w, r)
    BY <1>4 DEF ReadGate
  <2>2. r.pc \in {"off", "archives"}
    BY <1>0 DEF RunState, Off
  <2> HIDE DEF r
  <2>3. QED
    BY <1>1, <2>1, <2>2
<1>5. CASE ReadArchives(w)
  <2> DEFINE r == [run[w] EXCEPT !.pc = "lease",
                                 !.recover = Expired({}) \cap archived]
  <2>1. Privately(w, r)
    BY <1>5 DEF ReadArchives
  <2>2. r.pc = "lease" /\ r.recover \subseteq archived
    BY <1>0 DEF RunState
  <2> HIDE DEF r
  <2>3. QED
    BY <2>1, <2>2, PrivateGoes
<1>6. QED
  BY <1>2, <1>3, <1>4, <1>5

\* Taking a job, with the archives that were read.
LEMMA TakeGoes ==
  ASSUME RunnerTypeOK, PatchStory, NEW w \in Runner, hand'[w].step = "idle",
         NEW j \in Job, NEW late, TakeJob(w, j, late)
  PROVE  LoopGoes(w)
<1>0. /\ TypeOK /\ run \in [Runner -> RunState]
      /\ run[w].pc = "lease"
  BY DEF RunnerTypeOK, TakeJob
<1>1. archived' = archived
  BY PatchAssumption DEF TakeJob
<1>2. run[w].recover \in SUBSET archived /\ {j} \in SUBSET Job
  BY <1>0 DEF PatchStory, RecoveriesArchived
<1>3. QueueKeeps(run[w].recover, {j})
  BY <1>0, TakeKeeps
<1>4. rows'[j].status = "leased" /\ rows'[j].worker = w
  BY <1>0, TakeFields
<1>5. run'[w].pc = "leased" /\ run'[w].job = j
  <2>1. run' = [run EXCEPT ![w] =
                  [run[w] EXCEPT !.pc = "leased", !.job = j,
                     !.attempt = rows'[j].attempts, !.since = 0,
                     !.excluded = {}, !.recover = {}]]
    BY <1>0 DEF TakeJob
  <2>2. QED
    BY <1>0, <2>1 DEF RunState
<1>6. Leaves(w)
  BY <1>4, <1>5 DEF Leaves
<1>7. \E recover \in SUBSET archived, taken \in SUBSET Job :
        /\ QueueKeeps(recover, taken)
        /\ \A k \in taken : run[w].pc = "lease" /\ rows'[k].worker = w
  BY <1>0, <1>2, <1>3, <1>4
<1>8. QED
  BY <1>1, <1>5, <1>6, <1>7 DEF LoopGoes

\* A step of the queue that leases nothing.
LEMMA LeasingNothingGoes ==
  ASSUME PatchStory, NEW w \in Runner, archived' = archived,
         NEW recover \in SUBSET archived, QueueKeeps(recover, {}),
         \/ run'[w].pc \in {"off", "pauses"} /\ hand'[w].step = "idle"
         \/ run[w].pc # "lease" /\ Stays(w)
  PROVE  LoopGoes(w)
<1>1. \E rec \in SUBSET archived, taken \in SUBSET Job :
        /\ QueueKeeps(rec, taken)
        /\ \A k \in taken : run[w].pc = "lease" /\ rows'[k].worker = w
  OBVIOUS
<1>2. Stays(w) \/ Leaves(w)
  BY DEF Leaves, InHandler
<1>3. run'[w].pc # "lease"
  BY DEF Stays
<1>4. QED
  BY <1>1, <1>2, <1>3 DEF LoopGoes

\* A call of lease that finds nothing.
LEMMA NothingGoes ==
  ASSUME RunnerTypeOK, PatchStory, NEW w \in Runner, hand'[w].step = "idle",
         NEW late, TakeNothing(w, late)
  PROVE  LoopGoes(w)
<1>1. /\ TypeOK /\ run[w].pc = "lease" /\ archived' = archived
      /\ run'[w] = Off /\ Off.pc = "off"
  BY DEF RunnerTypeOK, TakeNothing, Off
<1>2. run[w].recover \in SUBSET archived
  BY <1>1 DEF PatchStory, RecoveriesArchived
<1>3. QueueKeeps(run[w].recover, {})
  BY <1>1, NothingKeeps
<1>4. QED
  BY <1>1, <1>2, <1>3, LeasingNothingGoes

\* A heartbeat, on time or not.
LEMMA BeatGoes ==
  ASSUME RunnerTypeOK, RunnerInv, PatchStory, NEW w \in Runner,
         hand'[w] = hand[w], Beat(w)
  PROVE  LoopGoes(w)
<1>0. /\ TypeOK /\ run \in [Runner -> RunState]
      /\ run[w].job \in Job /\ run[w].pc # "lease" /\ archived' = archived
  BY DEF RunnerTypeOK, RunnerInv, HandlerHasJob, Beat, InHandler
<1>1. CASE /\ Heartbeat(w, run[w].job)
           /\ run' = [run EXCEPT ![w].since = 0]
  <2>1. run'[w].pc = run[w].pc /\ run'[w].job = run[w].job
    BY <1>0, <1>1 DEF RunState
  <2>2. QueueKeeps({}, {})
    BY <1>0, <1>1, OwnerKeeps
  <2>3. QED
    BY <1>0, <2>1, <2>2, LeasingNothingGoes DEF Stays
<1>2. CASE /\ run' = [run EXCEPT ![w].beat = "failed"]
           /\ UNCHANGED vars
  <2>1. run'[w].pc = run[w].pc /\ run'[w].job = run[w].job
    BY <1>0, <1>2 DEF RunState
  <2>2. QueueKeeps({}, {})
    BY <1>2 DEF QueueKeeps, vars
  <2>3. QED
    BY <1>0, <2>1, <2>2, LeasingNothingGoes DEF Stays
<1>3. QED
  BY <1>1, <1>2 DEF Beat

\* An acknowledgement, or a lease that is lost.
LEMMA SettlingGoes ==
  ASSUME RunnerTypeOK, RunnerInv, PatchStory, NEW w \in Runner,
         hand'[w].step = "idle", NEW retryable,
         Acknowledge(w) \/ FailJobAs(w, retryable)
  PROVE  LoopGoes(w)
<1>0. /\ TypeOK /\ run \in [Runner -> RunState]
      /\ run[w].job \in Job /\ archived' = archived
  BY DEF RunnerTypeOK, RunnerInv, HandlerHasJob, Acknowledge, FailJobAs, InHandler
<1>1. ASSUME QueueKeeps({}, {}), NEW r \in NextIteration(run[w]) \cup {Off},
             run' = [run EXCEPT ![w] = r]
      PROVE  LoopGoes(w)
  <2>1. run'[w] = r /\ r.pc \in {"off", "pauses"}
    BY <1>0, <1>1, NextIterationType DEF Off
  <2>2. QED
    BY <1>0, <1>1, <2>1, LeasingNothingGoes
<1>2. CASE LeaseLost(w)
  <2>1. QueueKeeps({}, {})
    BY <1>2 DEF LeaseLost, QueueKeeps, vars
  <2>2. QED
    BY <1>1, <1>2, <2>1 DEF LeaseLost
<1>3. CASE /\ Complete(w, run[w].job)
           /\ \E r \in NextIteration(run[w]) : run' = [run EXCEPT ![w] = r]
  <2>1. QueueKeeps({}, {})
    BY <1>0, <1>3, OwnerKeeps
  <2>2. QED
    BY <1>1, <1>3, <2>1
<1>4. ASSUME NEW again, Fail(w, run[w].job, again),
             \E r \in NextIteration(run[w]) : run' = [run EXCEPT ![w] = r]
      PROVE  LoopGoes(w)
  <2>1. QueueKeeps({}, {})
    BY <1>0, <1>4, OwnerKeeps
  <2>2. QED
    BY <1>1, <1>4, <2>1
<1>5. QED
  BY <1>2, <1>3, <1>4 DEF Acknowledge, FailJobAs

\* The processes' steps outside the handlers keep the invariant.
LEMMA ProcessStory ==
  ASSUME RunnerTypeOK, OwnTypeOK, QueueInv, RunnerInv, PatchStory,
         NEW w \in Runner, LoopStep(w) \/ Begin(w) \/ Die(w)
  PROVE  PatchStory'
<1>0. /\ HandAtWork(w) /\ hand \in [Runner -> HandState]
      /\ run \in [Runner -> RunState] /\ run[w] \in RunState
      /\ [RunnerNext]_allVars
      /\ UNCHANGED <<status, verdict, staging, records, refused>>
  BY PatchStepIsRunnerStep
     DEF PatchStory, OwnTypeOK, RunnerTypeOK, PatchNext, LoopStep, Begin, Die,
         patchVars
<1>1. \A v \in Runner \ {w} : run'[v] = run[v] /\ hand'[v] = hand[v]
  <2>1. CASE LoopStep(w)
    <3>1. \A v \in Runner \ {w} : run'[v] = run[v]
      BY <2>1, LoopStepIsRunStep, OthersRuns
    <3>2. QED
      BY <2>1, <3>1 DEF LoopStep, patchVars
  <2>2. CASE Begin(w)
    <3>1. \A v \in Runner \ {w} : run'[v] = run[v]
      BY <2>2, LoopStepIsRunStep, OthersRuns
    <3>2. \A v \in Runner \ {w} : hand'[v] = hand[v]
      BY <1>0, <2>2 DEF Begin, Proceed
    <3>3. QED
      BY <3>1, <3>2
  <2>3. CASE Die(w)
    BY <1>0, <2>3 DEF Die, Crash, Proceed
  <2>4. QED
    BY <2>1, <2>2, <2>3
<1>2. overdue => overdue'
  <2>1. CASE LoopStep(w) \/ Begin(w)
    BY <2>1, LoopStepIsRunStep, OthersRuns
  <2>2. CASE Die(w)
    BY <2>2 DEF Die, Crash
  <2>3. QED
    BY <2>1, <2>2
<1>3. LoopGoes(w)
  <2>1. CASE LoopStep(w)
    <3>1. hand' = hand
      BY <2>1 DEF LoopStep, patchVars
    <3>2. run[w].pc # "working" => hand'[w].step = "idle"
      BY <1>0, <3>1 DEF HandAtWork
    <3>3. CASE Start(w) \/ ReadPauses(w) \/ ReadGate(w) \/ ReadArchives(w)
      <4>1. run[w].pc # "working"
        BY <3>3 DEF Start, ReadPauses, ReadGate, ReadArchives
      <4>2. QED
        BY <3>2, <3>3, <4>1, ReadingGoes
    <3>4. ASSUME NEW j \in Job, NEW late, TakeJob(w, j, late)
          PROVE  LoopGoes(w)
      <4>1. run[w].pc # "working"
        BY <3>4 DEF TakeJob
      <4>2. QED
        BY <3>2, <3>4, <4>1, TakeGoes
    <3>5. ASSUME NEW late, TakeNothing(w, late)
          PROVE  LoopGoes(w)
      <4>1. run[w].pc # "working"
        BY <3>5 DEF TakeNothing
      <4>2. QED
        BY <3>2, <3>5, <4>1, NothingGoes
    <3>6. CASE Beat(w)
      BY <3>1, <3>6, BeatGoes
    <3>7. CASE Acknowledge(w) \/ FailJobAs(w, ~hand[w].final)
      <4>1. run[w].pc # "working"
        BY <3>7 DEF Acknowledge, FailJobAs
      <4>2. PICK retryable : Acknowledge(w) \/ FailJobAs(w, retryable)
        BY <3>7
      <4>3. QED
        BY <3>2, <4>1, <4>2, SettlingGoes
    <3>8. QED
      BY <2>1, <3>3, <3>4, <3>5, <3>6, <3>7 DEF LoopStep
  <2>2. CASE Begin(w)
    <3> DEFINE r == [run[w] EXCEPT
                       !.pc = "working", !.beat = "on",
                       !.recoveryOnly = IsArchiveRecoveryLease(run[w].job, w)]
               step == IF run[w].job \in Applies THEN "look" ELSE "find"
               h == [IdleHand EXCEPT !.step = step]
    <3>1. Privately(w, r) /\ run[w].pc = "leased" /\ Proceed(w, h)
      BY <2>2 DEF Begin, CheckRecovery
    <3>2. r.pc = "working" /\ r.job = run[w].job
      BY <1>0 DEF RunState
    <3>3. h.step = step
      BY DEF IdleHand
    <3> HIDE DEF r, h
    <3>4. hand'[w] = h
      BY <1>0, <3>1 DEF Proceed
    <3>5. QED
      BY <3>1, <3>2, <3>3, <3>4, PrivateGoes
  <2>3. CASE Die(w)
    <3>1. /\ run'[w] = Off /\ Off.pc = "off" /\ UNCHANGED vars
          /\ archived' = archived
      BY <1>0, <2>3 DEF Die, Crash, Off
    <3>2. hand'[w].step = "idle"
      BY <1>0, <2>3, NoHandler, Proceeds DEF Die
    <3>3. QueueKeeps({}, {})
      BY <3>1 DEF QueueKeeps, vars
    <3>4. QED
      BY <3>1, <3>2, <3>3, LeasingNothingGoes
  <2>4. QED
    BY <2>1, <2>2, <2>3
<1>4. LoopKeeps
  <2>1. PICK recover \in SUBSET archived, taken \in SUBSET Job :
          /\ QueueKeeps(recover, taken)
          /\ \A k \in taken : run[w].pc = "lease" /\ rows'[k].worker = w
    BY <1>3 DEF LoopGoes
  <2>2. \A v \in Runner : run'[v].pc = "lease" => run'[v].recover \subseteq archived
    BY <1>1, <1>3 DEF LoopGoes, PatchStory, RecoveriesArchived
  <2>3. \A k \in Job : PendingArchiveRecovery(log[k]) \/ k \in recover =>
          k \in archived
    BY DEF PatchStory, RecoveriesArchived
  <2>4. onRecovery' \ onRecovery \subseteq taken
    BY <2>1 DEF QueueKeeps
  <2>5. \A k \in Job :
          /\ rows'[k].status = "absent" <=> rows[k].status = "absent"
          /\ PendingArchiveRecovery(log'[k]) => k \in archived
          /\ k \in onRecovery' \ onRecovery => k \in archived
    BY <2>1, <2>3 DEF QueueKeeps
  <2>6. archived' = archived
    BY <1>3 DEF LoopGoes
  <2>7. QED
    BY <1>0, <1>2, <2>1, <2>2, <2>4, <2>5, <2>6 DEF LoopKeeps
<1>5. \A v \in Runner : Stays(v) \/ Leaves(v) \/ Begins(v)
  BY <1>1, <1>3 DEF LoopGoes, Stays
<1>6. QED
  BY <1>0, <1>4, <1>5, LoopStory

\* An operator enqueues a job whose time has come.
LEMMA EnqueueStory ==
  ASSUME RunnerTypeOK, OwnTypeOK, QueueInv, RunnerInv, PatchStory,
         [RunnerNext]_allVars,
         NEW k \in Job, NEW created, Enqueue(k, created), UNCHANGED runnerVars,
         UNCHANGED <<hand, verdict, staging, records, refused>>,
         \A p \in Patch : status'[p] # status[p] =>
           status[p] = "pending_human" /\ status'[p] \in {"approved", "rejected"},
         IF k \in Applies
         THEN HasResult(PatchOf[k])' \/ status'[PatchOf[k]] = "approved"
         ELSE status'[PatchOf[k]] = "applied"
  PROVE  PatchStory'
<1>0. /\ rows \in [Job -> Row] /\ log \in [Job -> LogView]
      /\ run' = run /\ archived' = archived /\ overdue' = overdue
  BY DEF RunnerTypeOK, TypeOK, runnerVars, history
<1>1. /\ rows[k].status = "absent" /\ rows'[k].status = "pending"
      /\ \A j \in Job \ {k} : rows'[j] = rows[j]
  BY <1>0 DEF Enqueue
<1>2. /\ log'[k] = Recorded(log[k], "enqueued", "none")
      /\ \A j \in Job \ {k} : log'[j] = log[j]
      /\ onRecovery' = onRecovery
  BY <1>0 DEF Enqueue
<1>3. ~PendingArchiveRecovery(log'[k])
  BY <1>2, NoGrant
<1>4. \A j \in Job :
        /\ rows[j].status # "absent" => rows'[j].status # "absent"
        /\ rows[j].status = "absent" /\ rows'[j].status # "absent" => j = k
        /\ PendingArchiveRecovery(log'[j]) => j \in archived
  BY <1>1, <1>2, <1>3 DEF PatchStory, RecoveriesArchived
<1>5. LoopKeeps
  BY <1>0, <1>2, <1>4 DEF LoopKeeps, PatchStory, RecoveriesArchived
<1>6. \A v \in Runner : Stays(v)
  BY <1>0 DEF Stays
<1>7. QED
  BY <1>5, <1>6, LoopStory

\* The operator's commands and the clock keep the invariant.
LEMMA OutsideStory ==
  ASSUME RunnerTypeOK, OwnTypeOK, QueueInv, RunnerInv, PatchStory,
         OperatorStep \/ (TimePasses /\ UNCHANGED patchVars)
           \/ UNCHANGED patchAllVars
  PROVE  PatchStory'
<1>0. /\ [RunnerNext]_allVars
      /\ status \in [Patch -> {"pending_human", "approved", "rejected"}
                                \cup Review!Result]
  BY PatchStepIsRunnerStep DEF PatchNext, OwnTypeOK
<1>1. ASSUME NEW p \in Patch, ApprovePatch(p)
      PROVE  PatchStory'
  <2>1. PICK j \in Applies, created \in ClockReading :
          PatchOf[j] = p /\ Enqueue(j, created)
    BY <1>1 DEF ApprovePatch
  <2>2. j \in Job
    BY PatchAssumption
  <2>3. /\ status'[p] = "approved" /\ status[p] = "pending_human"
        /\ \A q \in Patch \ {p} : status'[q] = status[q]
        /\ UNCHANGED runnerVars
        /\ UNCHANGED <<hand, verdict, staging, records, refused>>
    BY <1>0, <1>1 DEF ApprovePatch
  <2>4. QED
    BY <1>0, <2>1, <2>2, <2>3, EnqueueStory
<1>2. ASSUME UNCHANGED <<rows, log, onRecovery, archived>>, overdue => overdue',
             \A v \in Runner : /\ run'[v].pc = run[v].pc
                               /\ run'[v].job = run[v].job
                               /\ run'[v].recover = run[v].recover,
             UNCHANGED <<hand, verdict, staging, records, refused>>,
             \A p \in Patch : status'[p] # status[p] =>
               /\ status[p] = "pending_human"
               /\ status'[p] \in {"approved", "rejected"}
      PROVE  PatchStory'
  <2>1. LoopKeeps
    BY <1>2 DEF LoopKeeps, PatchStory, RecoveriesArchived
  <2>2. \A v \in Runner : Stays(v)
    BY <1>2 DEF Stays
  <2>3. QED
    BY <1>0, <2>1, <2>2, LoopStory
<1>3. ASSUME NEW p \in Patch, RejectPatch(p)
      PROVE  PatchStory'
  <2>1. /\ UNCHANGED <<rows, log, onRecovery, archived, overdue, run>>
        /\ UNCHANGED <<hand, verdict, staging, records, refused>>
    BY <1>3 DEF RejectPatch, allVars, vars, runnerVars, history
  <2>2. /\ status[p] = "pending_human" /\ status'[p] = "rejected"
        /\ \A q \in Patch \ {p} : status'[q] = status[q]
    BY <1>0, <1>3 DEF RejectPatch, RejectionStands
  <2>3. QED
    BY <1>2, <2>1, <2>2
<1>4. ASSUME NEW j \in Job, NEW k \in Job, NEW created \in ClockReading,
             RetryJob(j, k, created)
      PROVE  PatchStory'
  <2>1. /\ Enqueue(k, created) /\ UNCHANGED runnerVars
        /\ UNCHANGED <<hand, status, verdict, staging, records, refused>>
        /\ rows[j].status # "absent"
        /\ PatchOf[k] = PatchOf[j] /\ (k \in Applies <=> j \in Applies)
    BY <1>4, JobsOfPatchAssumption DEF RetryJob, patchVars
  <2>2. IF k \in Applies
        THEN HasResult(PatchOf[k]) \/ status[PatchOf[k]] = "approved"
        ELSE status[PatchOf[k]] = "applied"
    BY <2>1 DEF PatchStory, JobsAreDue
  <2>3. IF k \in Applies
        THEN HasResult(PatchOf[k])' \/ status'[PatchOf[k]] = "approved"
        ELSE status'[PatchOf[k]] = "applied"
    BY <2>1, <2>2 DEF HasResult
  <2>4. QED
    BY <1>0, <1>4, <2>1, <2>3, EnqueueStory
<1>5. CASE TimePasses /\ UNCHANGED patchVars
  <2>0. /\ TypeOK /\ run \in [Runner -> RunState] /\ Tick
        /\ UNCHANGED <<archived, log, onRecovery>> /\ (overdue => overdue')
        /\ UNCHANGED <<hand, status, verdict, staging, records, refused>>
    BY <1>5 DEF RunnerTypeOK, TimePasses, Tick, patchVars
  <2>1. \A v \in Runner : /\ run'[v].pc = run[v].pc
                          /\ run'[v].job = run[v].job
                          /\ run'[v].recover = run[v].recover
    BY <1>5, <2>0 DEF TimePasses, RunState
  <2>2. \A k \in Job : rows'[k].status = rows[k].status
    BY <2>0, TickFields
  <2>3. LoopKeeps
    BY <2>0, <2>1, <2>2 DEF LoopKeeps, PatchStory, RecoveriesArchived
  <2>4. \A v \in Runner : Stays(v)
    BY <2>0, <2>1 DEF Stays
  <2>5. QED
    BY <1>0, <2>3, <2>4, LoopStory
<1>6. CASE UNCHANGED patchAllVars
  <2>1. /\ UNCHANGED <<rows, log, onRecovery, archived, overdue, run>>
        /\ UNCHANGED <<hand, status, verdict, staging, records, refused>>
    BY <1>6 DEF patchAllVars, patchVars, allVars, vars, runnerVars, history
  <2>2. QED
    BY <1>2, <2>1
<1>7. QED
  BY <1>1, <1>3, <1>4, <1>5, <1>6 DEF OperatorStep

(***************************************************************************)
(* The theorems                                                            *)
(***************************************************************************)
\* A handler goes from one of its states to another.
LEMMA HandsStay ==
  ASSUME OwnTypeOK, NEW w \in Runner,
         Begin(w) \/ ApplyStep(w) \/ ValidateStep(w) \/ Return(w)
           \/ StepRaises(w) \/ Die(w)
  PROVE  hand' \in [Runner -> HandState]
<1>0. hand \in [Runner -> HandState]
      /\ records \in [Job -> Review!Verdict \cup {"none", "partial"}]
  BY DEF OwnTypeOK
<1>1. ASSUME NEW step \in Steps, Quietly(w, step) \/ GoTo(w, step)
      PROVE  hand' \in [Runner -> HandState]
  BY <1>0, <1>1, GoesTo DEF Quietly
<1>2. ASSUME Raise(w) \/ \E final \in BOOLEAN : RaiseAs(w, final)
      PROVE  hand' \in [Runner -> HandState]
  <2>1. PICK final \in BOOLEAN : RaiseAs(w, final)
    BY <1>2 DEF Raise
  <2>2. QED
    BY <1>0, <2>1, RaisesIdle
<1>3. ASSUME NEW step \in Steps, NEW outcome \in Review!Verdict,
             Finds(w, step, outcome)
      PROVE  hand' \in [Runner -> HandState]
  <2>1. PICK h \in HandState : Proceed(w, h)
    BY <1>0, <1>3, FindsOutcome
  <2>2. QED
    BY <1>0, <2>1, Proceeds
<1>4. \A step \in {"look", "discard", "preflight", "clone", "bundled",
                   "cloning", "inspect", "patch", "commit", "clean", "conflict",
                   "find", "tree", "record", "sandbox", "mkdir", "files",
                   "verdict", "return"} : step \in Steps
  BY DEF Steps
<1>5. CASE Begin(w)
  <2> DEFINE step == IF run[w].job \in Applies THEN "look" ELSE "find"
             h == [IdleHand EXCEPT !.step = step]
  <2>1. h \in HandState
    BY DEF IdleHand, HandState, Steps
  <2>2. Proceed(w, h)
    BY <1>5 DEF Begin
  <2> HIDE DEF h
  <2>3. QED
    BY <1>0, <2>1, <2>2, Proceeds
<1>6. CASE ApplyStep(w)
  BY <1>1, <1>2, <1>4, <1>6
     DEF ApplyStep, LookForResult, DiscardStaging, PreflightSource, CloneBegins,
         CloneGrows, CloneEnds, CloneFails, InspectStaging, ApplyToStaging,
         RecordApplication, CleanStaging, RecordConflict
<1>7. CASE LookForRecord(w)
  <2>1. \/ \E r \in Review!Verdict : Finds(w, "verdict", r)
        \/ Raise(w) \/ RaiseAs(w, TRUE) \/ Quietly(w, "sandbox")
    BY <1>7 DEF LookForRecord, Finds
  <2>2. QED
    BY <1>1, <1>2, <1>3, <1>4, <2>1
<1>8. ASSUME NEW outcome \in Review!Verdict, RunSandbox(w, outcome)
      PROVE  hand' \in [Runner -> HandState]
  <2>1. Finds(w, "mkdir", outcome)
    BY <1>8 DEF RunSandbox, Finds
  <2>2. QED
    BY <1>3, <1>4, <1>8, <2>1
<1>9. CASE FindVerdict(w) \/ CheckTree(w) \/ MakeRecord(w) \/ FinishRecord(w)
             \/ RecordVerdict(w)
  BY <1>1, <1>2, <1>4, <1>9
     DEF FindVerdict, CheckTree, MakeRecord, FinishRecord, RecordVerdict
<1>10. CASE Return(w) \/ Die(w)
  BY <1>0, <1>10, NoHandler, Proceeds DEF Return, Die
<1>11. CASE StepRaises(w)
  BY <1>2, <1>11 DEF StepRaises
<1>12. QED
  BY <1>5, <1>6, <1>7, <1>8, <1>9, <1>10, <1>11 DEF ValidateStep

\* Every step keeps the types.
LEMMA OwnNextType ==
  ASSUME OwnTypeOK, HandlerHasJob, [PatchNext]_patchAllVars
  PROVE  OwnTypeOK'
<1>0. /\ hand \in [Runner -> HandState]
      /\ status \in [Patch -> {"pending_human", "approved", "rejected"}
                                \cup Review!Result]
      /\ verdict \in [Patch -> Review!Verdict \cup {"none"}]
      /\ refused \subseteq Patch
      /\ staging \in [Patch -> {"none", "partial", "clone", "patched"}]
      /\ records \in [Job -> Review!Verdict \cup {"none", "partial"}]
      /\ Review!Result = {"applied", "conflicted"}
  BY StepNames DEF OwnTypeOK
<1>1. ASSUME NEW w \in Runner, ApplyStep(w)
      PROVE  OwnTypeOK'
  <2>1. UNCHANGED <<verdict, records>>
    BY <1>1
       DEF ApplyStep, LookForResult, DiscardStaging, PreflightSource,
           CloneBegins, CloneGrows, CloneEnds, CloneFails, InspectStaging,
           ApplyToStaging, RecordApplication, CleanStaging, RecordConflict
  <2>2. \/ status' = status
        \/ \E result \in Review!Result :
             status' = [status EXCEPT ![Mine(w)] = result]
    BY <1>0, <1>1
       DEF ApplyStep, LookForResult, DiscardStaging, PreflightSource,
           CloneBegins, CloneGrows, CloneEnds, CloneFails, InspectStaging,
           ApplyToStaging, RecordApplication, CleanStaging, RecordConflict
  <2>3. \/ staging' = staging
        \/ \E content \in {"none", "partial", "clone", "patched"} :
             staging' = [staging EXCEPT ![Mine(w)] = content]
    BY <1>1
       DEF ApplyStep, LookForResult, DiscardStaging, PreflightSource,
           CloneBegins, CloneGrows, CloneEnds, CloneFails, InspectStaging,
           ApplyToStaging, RecordApplication, CleanStaging, RecordConflict
  <2>4. refused' \subseteq Patch
    <3>1. CASE refused' = refused
      BY <1>0, <3>1
    <3>2. CASE /\ refused' = refused \cup {Mine(w)}
               /\ run[w].pc = "working"
      BY <1>0, <3>2, PatchAssumption DEF HandlerHasJob, InHandler, Mine
    <3>3. refused' = refused \/
            (refused' = refused \cup {Mine(w)} /\ run[w].pc = "working")
      BY <1>1
         DEF ApplyStep, LookForResult, DiscardStaging, PreflightSource,
             CloneBegins, CloneGrows, CloneEnds, CloneFails, InspectStaging,
             ApplyToStaging, RecordApplication, CleanStaging, RecordConflict,
             RefusedBy, Handling
    <3>4. QED
      BY <3>1, <3>2, <3>3
  <2>5. status' \in [Patch -> {"pending_human", "approved", "rejected"}
                                \cup Review!Result]
    BY <1>0, <2>2
  <2>6. staging' \in [Patch -> {"none", "partial", "clone", "patched"}]
    BY <1>0, <2>3
  <2>7. hand' \in [Runner -> HandState]
    BY <1>1, HandsStay
  <2>8. QED
    BY <1>0, <2>1, <2>4, <2>5, <2>6, <2>7 DEF OwnTypeOK
<1>2. ASSUME NEW w \in Runner,
             ValidateStep(w) \/ Return(w) \/ StepRaises(w)
      PROVE  OwnTypeOK'
  <2>1. UNCHANGED <<status, staging, refused>>
    BY <1>2
       DEF ValidateStep, FindVerdict, CheckTree, LookForRecord, RunSandbox,
           MakeRecord, FinishRecord, RecordVerdict, Return, StepRaises
  <2>2. PICK r \in Review!Verdict \cup {"none"} : r = hand[w].outcome
    BY <1>0 DEF HandState
  <2>3. verdict' = verdict \/ verdict' = [verdict EXCEPT ![Mine(w)] = r]
    BY <1>2, <2>2
       DEF ValidateStep, FindVerdict, CheckTree, LookForRecord, RunSandbox,
           MakeRecord, FinishRecord, RecordVerdict, Return, StepRaises
  <2>4. \/ records' = records
        \/ \E content \in {"none", "partial", r} :
             records' = [records EXCEPT ![run[w].job] = content]
    BY <1>2, <2>2
       DEF ValidateStep, FindVerdict, CheckTree, LookForRecord, RunSandbox,
           MakeRecord, FinishRecord, RecordVerdict, Return, StepRaises
  <2>5. verdict' \in [Patch -> Review!Verdict \cup {"none"}]
    BY <1>0, <2>3
  <2>6. records' \in [Job -> Review!Verdict \cup {"none", "partial"}]
    BY <1>0, <2>4
  <2>7. hand' \in [Runner -> HandState]
    BY <1>2, HandsStay
  <2>8. QED
    BY <1>0, <2>1, <2>5, <2>6, <2>7 DEF OwnTypeOK
<1>3. ASSUME NEW w \in Runner, LoopStep(w) \/ Begin(w) \/ Die(w)
      PROVE  OwnTypeOK'
  <2>1. UNCHANGED <<status, verdict, staging, records, refused>>
    BY <1>3 DEF LoopStep, Begin, Die, patchVars
  <2>2. hand' \in [Runner -> HandState]
    BY <1>0, <1>3, HandsStay DEF LoopStep, patchVars
  <2>3. QED
    BY <2>1, <2>2 DEF OwnTypeOK
<1>4. CASE OperatorStep
  <2>1. UNCHANGED <<hand, verdict, staging, records, refused>>
    BY <1>4 DEF OperatorStep, ApprovePatch, RejectPatch, RetryJob, patchVars
  <2>2. \/ status' = status
        \/ \E p \in Patch, judgment \in {"approved", "rejected"} :
             status' = [status EXCEPT ![p] = judgment]
    BY <1>4 DEF OperatorStep, ApprovePatch, RejectPatch, RetryJob, patchVars
  <2>3. status' \in [Patch -> {"pending_human", "approved", "rejected"}
                                \cup Review!Result]
    BY <1>0, <2>2
  <2>4. QED
    BY <2>1, <2>3 DEF OwnTypeOK
<1>5. CASE UNCHANGED patchVars
  BY <1>5 DEF patchVars, OwnTypeOK
<1>6. QED
  BY <1>1, <1>2, <1>3, <1>4, <1>5 DEF PatchNext, patchAllVars

\* No patch is judged at first, and no job enqueued.
LEMMA PatchInitStory == PatchInit => OwnTypeOK /\ PatchStory
<1> SUFFICES ASSUME PatchInit
             PROVE  OwnTypeOK /\ PatchStory
  OBVIOUS
<1>1. /\ hand = [w \in Runner |-> IdleHand]
      /\ status = [p \in Patch |-> "pending_human"]
      /\ verdict = [p \in Patch |-> "none"]
      /\ refused = {} /\ archived = {} /\ onRecovery = {}
      /\ staging = [p \in Patch |-> "none"]
      /\ records = [j \in Job |-> "none"]
      /\ run = [w \in Runner |-> Off]
  BY DEF PatchInit, Review!ReviewInit, RunnerInit, Init
<1>2. /\ \A j \in Job : rows[j].status = "absent"
      /\ \A j \in Job : ~PendingArchiveRecovery(log[j])
  BY DEF PatchInit, RunnerInit, Init, PendingArchiveRecovery
<1>3. OwnTypeOK
  BY <1>1, NoHandler DEF OwnTypeOK
<1>4. \A w \in Runner : hand[w].step = "idle" /\ run[w].pc = "off"
  BY <1>1, NoHandler DEF Off
<1>5. "none" \notin Review!Verdict
  BY StepNames
<1>6. JobsAreDue /\ CompletedHasResult /\ VerdictIsArchived
  BY <1>1, <1>2 DEF JobsAreDue, CompletedHasResult, VerdictIsArchived
<1>7. OneWriter /\ RecoveriesArchived /\ RecoveryRunsNoSandbox
  BY <1>1, <1>2, <1>4, <1>5
     DEF OneWriter, RecoveriesArchived, RecoveryRunsNoSandbox
<1>8. StagingOnTime
  BY <1>1 DEF StagingOnTime, AppliedIsStaged, ConflictIsReal
<1>9. \A w \in Runner : HandAtWork(w) /\ StagingAsLeft(w)
  BY <1>4 DEF HandAtWork, StagingAsLeft, InHandler, Applying, Validating
<1>10. QED
  BY <1>3, <1>6, <1>7, <1>8, <1>9 DEF PatchStory

\* PatchStory is inductive, relative to the invariants of the queue and the loop.
LEMMA PatchNextStory ==
  ASSUME RunnerTypeOK, OwnTypeOK, QueueInv, RunnerInv, PatchStory,
         [PatchNext]_patchAllVars
  PROVE  PatchStory'
<1>1. ASSUME NEW w \in Runner, LoopStep(w) \/ Begin(w) \/ Die(w)
      PROVE  PatchStory'
  BY <1>1, ProcessStory
<1>2. ASSUME NEW w \in Runner, ApplyStep(w)
      PROVE  PatchStory'
  BY <1>2, StagingStory, LookForResultStory, RecordApplicationStory,
     RecordConflictStory DEF ApplyStep
<1>3. ASSUME NEW w \in Runner, ValidateStep(w)
      PROVE  PatchStory'
  BY <1>3, ValidationStory
<1>4. ASSUME NEW w \in Runner, Return(w) \/ StepRaises(w)
      PROVE  PatchStory'
  BY <1>4, EndingStory
<1>5. CASE OperatorStep \/ (TimePasses /\ UNCHANGED patchVars)
             \/ UNCHANGED patchAllVars
  BY <1>5, OutsideStory
<1>6. QED
  BY <1>1, <1>2, <1>3, <1>4, <1>5 DEF PatchNext

\* In every reachable state of the patch pipeline the invariants of the queue
\* and the loop hold, and the story of each patch is told consistently by its
\* status, its jobs, its archives and, on time, its staging directory.
THEOREM PatchInvariant ==
  PatchSpec => [](RunnerTypeOK /\ OwnTypeOK /\ QueueInv /\ RunnerInv /\ PatchStory)
<1> DEFINE Loop == RunnerTypeOK /\ QueueInv /\ RunnerInv
<1>1. PatchSpec => []Loop
  BY PatchUsesLoop, RunnerInvariant, PTL
<1>2. PatchInit => OwnTypeOK /\ PatchStory
  BY PatchInitStory
<1>3. Loop /\ OwnTypeOK /\ PatchStory /\ [PatchNext]_patchAllVars =>
        OwnTypeOK' /\ PatchStory'
  BY PatchNextStory, OwnNextType DEF RunnerInv
<1>4. QED
  BY <1>1, <1>2, <1>3, PTL DEF PatchSpec

\* Whatever is recorded of a patch is of its type, what completes has its result
\* and, where it is owed, its validation job, and a verdict has its archive.
THEOREM PatchesHold == PatchSpec => []PatchInv
<1>1. RunnerTypeOK /\ OwnTypeOK /\ PatchStory => PatchInv
  BY PatchTypes DEF PatchInv, PatchStory, RecoveriesArchived
<1>2. QED
  BY <1>1, PatchInvariant, PTL

\* A lease that was granted to recover an archive never runs the sandbox while it
\* is held, although its kind is read once, after the lease.
THEOREM RecoveriesRunNothing == PatchSpec => []RecoveryRunsNoSandbox
<1>1. PatchStory => RecoveryRunsNoSandbox
  BY DEF PatchStory
<1>2. QED
  BY <1>1, PatchInvariant, PTL

\* On time the directory that all jobs of a patch share is no way for one attempt
\* to spoil another: what is applied is staged, and a conflict is a real one.
THEOREM StagingHolds == PatchSpec => []StagingOnTime
<1>1. PatchStory => StagingOnTime
  BY DEF PatchStory
<1>2. QED
  BY <1>1, PatchInvariant, PTL

\* A step of the pipeline judges, settles or verifies one patch, or none.
LEMMA StepReviews ==
  ASSUME OwnTypeOK, RunnerInv, PatchStory, [PatchNext]_patchAllVars
  PROVE  [Review!ReviewNext]_<<status, verdict>>
<1>1. ASSUME NEW p \in Patch, ApprovePatch(p) \/ RejectPatch(p)
      PROVE  Review!Judge(p)
  BY <1>1 DEF ApprovePatch, RejectPatch, RejectionStands, Review!Judge
<1>2. ASSUME NEW w \in Runner, RecordApplication(w) \/ RecordConflict(w)
      PROVE  UNCHANGED <<status, verdict>> \/ Review!Settle(Mine(w))
  BY <1>2, StepNames DEF RecordApplication, RecordConflict, Review!Settle
<1>3. ASSUME NEW w \in Runner, RecordVerdict(w)
      PROVE  UNCHANGED <<status, verdict>> \/ Review!Verify(Mine(w))
  <2>1. hand[w].outcome \in Review!Verdict /\ status[Mine(w)] = "applied"
    <3>1. run[w].pc = "working" /\ hand[w].step = "verdict"
      BY <1>3 DEF RecordVerdict, Handling
    <3>2. HandAtWork(w)
      BY DEF PatchStory
    <3>3. hand[w].outcome \in Review!Verdict
      BY <3>1, <3>2 DEF HandAtWork
    <3>4. status[Mine(w)] = "applied"
      BY <3>1, ValidatingFacts DEF Validating
    <3>5. QED
      BY <3>3, <3>4
  <2>2. QED
    BY <1>3, <2>1 DEF RecordVerdict, VerdictStands, Review!Verify
<1>4. ASSUME NEW w \in Runner, Handling(w, "commit") \/ Handling(w, "conflict")
                                 \/ Handling(w, "verdict")
      PROVE  Mine(w) \in Patch
  BY <1>4, PatchAssumption DEF RunnerInv, HandlerHasJob, InHandler, Handling, Mine
<1>5. ASSUME NEW w \in Runner, ApplyStep(w)
      PROVE  \/ UNCHANGED <<status, verdict>>
             \/ RecordApplication(w) \/ RecordConflict(w)
  BY <1>5
     DEF ApplyStep, LookForResult, DiscardStaging, PreflightSource,
         CloneBegins, CloneGrows, CloneEnds, CloneFails, InspectStaging,
         ApplyToStaging, CleanStaging
<1>6. ASSUME NEW w \in Runner, ValidateStep(w)
      PROVE  UNCHANGED <<status, verdict>> \/ RecordVerdict(w)
  BY <1>6
     DEF ValidateStep, FindVerdict, CheckTree, LookForRecord, RunSandbox,
         MakeRecord, FinishRecord
<1>7. ASSUME NEW w \in Runner,
             LoopStep(w) \/ Begin(w) \/ Return(w) \/ StepRaises(w) \/ Die(w)
      PROVE  UNCHANGED <<status, verdict>>
  BY <1>7 DEF LoopStep, Begin, Return, StepRaises, Die, patchVars
<1>8. ASSUME NEW w \in Runner, ApplyStep(w)
      PROVE  [Review!ReviewNext]_<<status, verdict>>
  BY <1>2, <1>4, <1>5, <1>8
     DEF RecordApplication, RecordConflict, Review!ReviewNext
<1>9. ASSUME NEW w \in Runner, ValidateStep(w)
      PROVE  [Review!ReviewNext]_<<status, verdict>>
  BY <1>3, <1>4, <1>6, <1>9 DEF RecordVerdict, Review!ReviewNext
<1>10. CASE OperatorStep
  BY <1>1, <1>10 DEF OperatorStep, RetryJob, patchVars, Review!ReviewNext
<1>11. CASE UNCHANGED patchVars
  BY <1>11 DEF patchVars
<1>12. QED
  BY <1>7, <1>8, <1>9, <1>10, <1>11 DEF PatchNext, patchAllVars

\* Whatever overlaps, dies or is retried, a patch gets one judgment, one result
\* if it is approved and one verdict if it is applied, and none is taken back.
THEOREM PipelineImplementsReview == PatchSpec => ImplementsReview
<1>1. PatchInit => Review!ReviewInit
  BY DEF PatchInit
<1>2. OwnTypeOK /\ RunnerInv /\ PatchStory /\ [PatchNext]_patchAllVars =>
        [Review!ReviewNext]_<<status, verdict>>
  BY StepReviews
<1>3. QED
  BY <1>1, <1>2, PatchInvariant, PTL
     DEF PatchSpec, ImplementsReview, Review!ReviewSpec

===============================================================================
