-------------------------- MODULE CodingWorkerProofs --------------------------
(***************************************************************************)
(* Proofs about CodingWorker for every set of tasks, processes and failure *)
(* signatures: its steps are steps of the automation loop, a completed     *)
(* task has its patch, and on time the agent is never at work on a task    *)
(* that already has a success, so that a task gets at most one patch.  At *)
(* the end, about WorkerRun: WorkerStory is an invariant, and with it the  *)
(* properties of a run that are not about what must happen.                *)
(***************************************************************************)
EXTENDS CodingWorker, WorkerRun, QueueProofs, FiniteSetTheorems

(***************************************************************************)
(* The handlers' steps are steps of the loop                               *)
(***************************************************************************)
\* Every step outside the handler is one of RunStep.
LEMMA LoopStepIsRunStep ==
  ASSUME NEW w \in Runner, LoopStep(w) \/ Begin(w)
  PROVE  RunStep(w)
<1>1. FailJobAs(w, ~hand[w].final) => FailJob(w)
  <2>1. (~hand[w].final) \in Retryable
    BY CodingAssumption
  <2>2. QED
    BY <2>1 DEF FailJob
<1>2. QED
  BY <1>1 DEF LoopStep, Begin, RunStep

\* The steps of the handler once it has begun.
HandlerStep(w) ==
  \/ ListOrphans(w) \/ NothingToResume(w)
  \/ \E a \in hand[w].orphans : ResumeOne(w, a)
  \/ ReadPrior(w) \/ CheckStillRecovery(w)
  \/ StartRun(w) \/ AgentEnds(w) \/ MakeArchive(w) \/ FinishArchive(w)
  \/ Judge(w) \/ RecordFailure(w) \/ RecordCompletion(w)
  \/ LookForPatch(w)
  \/ \E kind \in {"proposed", "rejected"} : OfferPatch(w, kind)
  \/ Return(w) \/ StepRaises(w)

\* A step of the handler leaves the loop alone, ends the handler, or finishes
\* the archive of its run.
LEMMA HandlerStepIsLoopStep ==
  ASSUME NEW w \in Runner, HandlerStep(w)
  PROVE  \/ UNCHANGED allVars
         \/ HandlerRaises(w) \/ HandlerReturns(w) \/ ArchiveRun(w)
<1>1. CASE \/ ListOrphans(w) \/ NothingToResume(w) \/ ReadPrior(w)
           \/ StartRun(w) \/ MakeArchive(w) \/ Judge(w) \/ LookForPatch(w)
  BY <1>1, Zenon DEF ListOrphans, NothingToResume, ReadPrior, StartRun,
                     MakeArchive, Judge, LookForPatch
<1>a. CASE AgentEnds(w)
  BY <1>a, Zenon DEF AgentEnds
<1>r. CASE CheckStillRecovery(w)
  <2>1. RaiseAs(w, TRUE) \/ UNCHANGED allVars
    BY <1>r, Zenon DEF CheckStillRecovery
  <2>2. QED
    BY <2>1, Zenon DEF RaiseAs
<1>f. CASE RecordFailure(w)
  BY <1>f, Zenon DEF RecordFailure, Raise, RaiseAs
<1>2. ASSUME NEW a \in hand[w].orphans, ResumeOne(w, a)
      PROVE  UNCHANGED allVars \/ HandlerRaises(w)
  BY <1>2 DEF ResumeOne, EndRun, Raise, RaiseAs
<1>3. CASE RecordCompletion(w)
  BY <1>3, Zenon DEF RecordCompletion, EndRun, OwnRun, Raise, RaiseAs
<1>4. ASSUME NEW kind, OfferPatch(w, kind)
      PROVE  UNCHANGED allVars \/ HandlerRaises(w)
  BY <1>4 DEF OfferPatch, Raise, RaiseAs
<1>5. CASE FinishArchive(w)
  BY <1>5 DEF FinishArchive, NoteArchive
<1>6. CASE Return(w) \/ StepRaises(w)
  BY <1>6 DEF Return, StepRaises, Raise, RaiseAs
<1>7. QED
  BY <1>1, <1>a, <1>r, <1>f, <1>2, <1>3, <1>4, <1>5, <1>6, Zenon
     DEF HandlerStep

\* Every step of the system is one of the automation loop's, or leaves it alone.
LEMMA CodingStepIsRunnerStep ==
  ASSUME [CodingNext]_codingAllVars
  PROVE  [RunnerNext]_allVars
<1>1. ASSUME NEW w \in Runner, LoopStep(w) \/ Begin(w)
      PROVE  RunnerNext
  BY <1>1, LoopStepIsRunStep DEF RunnerNext
<1>2. ASSUME NEW w \in Runner, HandlerStep(w)
      PROVE  [RunnerNext]_allVars
  BY <1>2, HandlerStepIsLoopStep DEF RunnerNext, RunStep
<1>3. ASSUME NEW w \in Runner, CodingStep(w)
      PROVE  [RunnerNext]_allVars
  BY <1>1, <1>2, <1>3 DEF CodingStep, HandlerStep
<1>4. ASSUME NEW w \in Runner, Die(w)
      PROVE  RunnerNext
  BY <1>4 DEF Die, RunnerNext
<1>5. CASE QueueCommand \/ TimePasses
  BY <1>5 DEF RunnerNext
<1>6. CASE UNCHANGED codingAllVars
  BY <1>6 DEF codingAllVars
<1>7. QED
  BY <1>1, <1>3, <1>4, <1>5, <1>6 DEF CodingNext

\* The runs and what the handlers know are invisible to the loop: the theorems
\* about AutomationRunner and JobQueue hold of the coding worker.
THEOREM CodingUsesLoop == CodingSpec => RunnerSpec
<1>1. CodingInit => RunnerInit
  BY DEF CodingInit
<1>2. [CodingNext]_codingAllVars => [RunnerNext]_allVars
  BY CodingStepIsRunnerStep
<1>3. QED
  BY <1>1, <1>2, PTL DEF CodingSpec, RunnerSpec

(***************************************************************************)
(* Attempts are counted                                                    *)
(***************************************************************************)
\* One row and one event change, and the attempts are what they were.
LEMMA OneRowCounted ==
  ASSUME TypeOK, Counted, NEW j \in Job, NEW type \in EventType \ {"retried"},
         NEW mark,
         log' = [log EXCEPT ![j] = Recorded(log[j], type, mark)],
         rows'[j].attempts = rows[j].attempts, rows'[j].status # "absent",
         \A k \in Job \ {j} : rows'[k] = rows[k],
         recoveryLeases' = recoveryLeases
  PROVE  Counted'
<1>1. /\ log'[j] = Recorded(log[j], type, mark)
      /\ \A k \in Job \ {j} : log'[k] = log[k]
  BY DEF TypeOK
<1>2. log'[j].type # "retried"
  BY <1>1, RecordedFields
<1>3. QED
  BY <1>1, <1>2 DEF Counted

\* A requeue counts nothing and is no retry.
LEMMA RequeueCounted ==
  ASSUME TypeOK, Counted, NEW late, NEW recover, NEW k \in Job
  PROVE  /\ RequeuedRows(late, recover)[k].attempts = rows[k].attempts
         /\ RequeuedRows(late, recover)[k].status = "absent" =>
              rows[k].attempts = 0
         /\ RequeuedLog(late, recover)[k].type # "retried"
<1>1. CASE k \in Expired(late)
  <2>1. \E mark : RequeuedLog(late, recover)[k]
                    = Recorded(log[k], "requeued", mark)
    BY <1>1 DEF RequeuedLog
  <2>2. RequeuedLog(late, recover)[k].type = "requeued"
    BY <2>1, RecordedFields
  <2>3. QED
    BY <1>1, <2>2, RequeueFields
<1>2. CASE k \notin Expired(late)
  <2>1. RequeuedLog(late, recover)[k] = log[k]
    BY <1>2 DEF RequeuedLog
  <2>2. QED
    BY <1>2, <2>1, RequeueFields DEF Counted
<1>3. QED
  BY <1>1, <1>2

\* Who takes a job counts an attempt of it: within the limit, or it is the
\* job's recovery.
LEMMA TakeCounted ==
  ASSUME TypeOK, QueueInv, Counted, NEW w \in Runner, NEW j \in Job, NEW late,
         TakeJob(w, j, late)
  PROVE  Counted'
<1> DEFINE recover == run[w].recover
           rs == RequeuedRows(late, recover)
           lg == RequeuedLog(late, recover)
<1>1. /\ \E mark : log' = [lg EXCEPT ![j] = Recorded(@, "leased", mark)]
      /\ recoveryLeases' = IF PendingArchiveRecovery(lg[j])
                           THEN [recoveryLeases EXCEPT ![j] = @ + 1]
                           ELSE recoveryLeases
      /\ rs[j].status = "pending"
  BY DEF TakeJob, Lease, Eligible
<1>2. \A k \in Job : /\ rs[k].attempts = rows[k].attempts
                     /\ lg[k].type # "retried"
  BY RequeueCounted
<1>3. rs \in [Job -> Row] /\ lg \in [Job -> LogView]
  BY RequeueType
<1>4. Budgeted(j, rs[j], lg[j])
  BY RequeueInv
<1> HIDE DEF recover, rs, lg
<1>5. PICK mark : log' = [lg EXCEPT ![j] = Recorded(@, "leased", mark)]
  BY <1>1
<1>6. \A k \in Job : log'[k].type # "retried"
  <2>1. log'[j] = Recorded(lg[j], "leased", mark)
    BY <1>3, <1>5
  <2>2. log'[j].type # "retried"
    BY <2>1, RecordedFields
  <2>3. \A k \in Job \ {j} : log'[k] = lg[k]
    BY <1>3, <1>5
  <2>4. QED
    BY <1>2, <2>2, <2>3
<1>7. rows'[j].attempts = rows[j].attempts + 1 /\ rows'[j].status = "leased"
  BY TakeFields
<1>8. \A k \in Job \ {j} :
        /\ rows'[k].attempts = rows[k].attempts
        /\ rows'[k].status = "absent" => rows[k].status = "absent"
        /\ recoveryLeases'[k] = recoveryLeases[k]
  <2>1. \A k \in Job \ {j} :
          /\ rows'[k].attempts = rows[k].attempts
          /\ rows'[k].status = "absent" => rows[k].status = "absent"
    BY TakeFields
  <2>2. \A k \in Job \ {j} : recoveryLeases'[k] = recoveryLeases[k]
    BY <1>1 DEF TypeOK
  <2>3. QED
    BY <2>1, <2>2
<1>9. rows[j].attempts + 1 <= MaxAttempts[j] + recoveryLeases'[j]
  <2>0. /\ rows[j].attempts \in Nat /\ recoveryLeases[j] \in Nat
        /\ MaxAttempts[j] \in Nat
        /\ rows[j].attempts <= MaxAttempts[j] + recoveryLeases[j]
    BY QueueAssumption DEF TypeOK, Row, Counted
  <2>1. CASE PendingArchiveRecovery(lg[j])
    <3>1. recoveryLeases'[j] = recoveryLeases[j] + 1
      BY <1>1, <2>1 DEF TypeOK
    <3>2. QED
      BY <2>0, <3>1
  <2>2. CASE ~PendingArchiveRecovery(lg[j])
    <3>1. ~(rows[j].attempts >= MaxAttempts[j])
      BY <1>1, <1>2, <1>4, <2>2 DEF Budgeted
    <3>2. recoveryLeases'[j] = recoveryLeases[j]
      BY <1>1, <2>2
    <3>3. QED
      BY <2>0, <3>1, <3>2
  <2>3. QED
    BY <2>1, <2>2
<1>10. QED
  BY <1>6, <1>7, <1>8, <1>9 DEF Counted

\* A step that attempts nothing, and respects the count.
CountsNothing ==
  Counted' /\ \A k \in Job : rows'[k].attempts = rows[k].attempts

\* A call of lease that finds nothing.
LEMMA NothingCounted ==
  ASSUME TypeOK, Counted, NEW w \in Runner, NEW late, TakeNothing(w, late)
  PROVE  CountsNothing
<1>1. CASE UNCHANGED vars
  BY <1>1 DEF CountsNothing, Counted, vars
<1>2. CASE LeaseNothing(late, Job, run[w].excluded, run[w].recover, TRUE)
  <2>1. /\ rows' = RequeuedRows(late, run[w].recover)
        /\ log' = RequeuedLog(late, run[w].recover)
        /\ recoveryLeases' = recoveryLeases
    BY <1>2 DEF LeaseNothing, RequeueExpired
  <2>2. QED
    BY <2>1, RequeueCounted DEF CountsNothing, Counted
<1>3. QED
  BY <1>1, <1>2 DEF TakeNothing, NothingToLease

\* The owner's operations, and the clock.
LEMMA OwnerCounted ==
  ASSUME TypeOK, Counted, NEW w \in Runner, NEW j \in Job, NEW retryable,
         \/ UNCHANGED vars \/ Tick
         \/ Heartbeat(w, j) \/ Complete(w, j) \/ Fail(w, j, retryable)
  PROVE  CountsNothing
<1>1. ASSUME NEW type \in EventType \ {"retried"},
             log' = [log EXCEPT ![j] = Recorded(@, type, "none")],
             rows'[j].attempts = rows[j].attempts, rows'[j].status # "absent",
             \A k \in Job \ {j} : rows'[k] = rows[k],
             recoveryLeases' = recoveryLeases
      PROVE  CountsNothing
  BY <1>1, OneRowCounted DEF CountsNothing, TypeOK
<1>2. CASE Heartbeat(w, j)
  <2>1. log' = [log EXCEPT ![j] = Recorded(@, "heartbeat", "none")]
        /\ recoveryLeases' = recoveryLeases
    BY <1>2 DEF Heartbeat
  <2>2. QED
    BY <1>1, <1>2, <2>1, HeartbeatFields DEF EventType, Owns
<1>3. CASE Complete(w, j)
  <2>1. log' = [log EXCEPT ![j] = Recorded(@, "completed", "none")]
        /\ recoveryLeases' = recoveryLeases
    BY <1>3 DEF Complete
  <2>2. QED
    BY <1>1, <1>3, <2>1, CompleteFields DEF EventType
<1>4. CASE Fail(w, j, retryable)
  <2>1. log' = [log EXCEPT ![j] = Recorded(@, "failed", "none")]
        /\ recoveryLeases' = recoveryLeases
    BY <1>4 DEF Fail
  <2>2. QED
    BY <1>1, <1>4, <2>1, FailFields DEF EventType
<1>5. CASE UNCHANGED vars
  BY <1>5 DEF CountsNothing, Counted, vars
<1>6. CASE Tick
  <2>1. log' = log /\ recoveryLeases' = recoveryLeases
    BY <1>6 DEF Tick
  <2>2. \A k \in Job : /\ rows'[k].status = rows[k].status
                       /\ rows'[k].attempts = rows[k].attempts
    BY <1>6, TickFields
  <2>3. QED
    BY <2>1, <2>2 DEF CountsNothing, Counted
<1>7. QED
  BY <1>2, <1>3, <1>4, <1>5, <1>6

\* The operator enqueues a job that was never attempted, and retries none.
LEMMA CommandCounted ==
  ASSUME TypeOK, Counted, QueueCommand
  PROVE  CountsNothing
<1>1. PICK j \in Job, created \in ClockReading : Enqueue(j, created)
  BY CodingAssumption DEF QueueCommand
<1>2. /\ rows[j].attempts = 0 /\ rows'[j].attempts = 0
      /\ rows'[j].status = "pending"
      /\ \A k \in Job \ {j} : rows'[k] = rows[k]
  BY <1>1 DEF Enqueue, Counted, TypeOK
<1>3. log' = [log EXCEPT ![j] = Recorded(log[j], "enqueued", "none")]
      /\ recoveryLeases' = recoveryLeases
  BY <1>1 DEF Enqueue
<1>4. Counted'
  BY <1>2, <1>3, OneRowCounted DEF EventType
<1>5. QED
  BY <1>2, <1>4 DEF CountsNothing

\* Whatever a process of the loop does attempts nothing, or takes a job.
LEMMA RunStepCounted ==
  ASSUME RunnerTypeOK, QueueInv, RunnerInv, Counted, NEW w \in Runner,
         RunStep(w)
  PROVE  \/ CountsNothing
         \/ /\ Counted'
            /\ \E j \in Job, late \in ClockLag : TakeJob(w, j, late)
<1>0. TypeOK /\ HandlerHasJob
  BY DEF RunnerTypeOK, RunnerInv
<1>1. CASE \/ Start(w) \/ ReadPauses(w) \/ ReadGate(w) \/ ReadArchives(w)
           \/ CheckRecovery(w) \/ HandlerReturns(w) \/ HandlerRaises(w)
           \/ ArchiveRun(w)
  <2>1. UNCHANGED vars
    BY <1>1 DEF Start, ReadPauses, ReadGate, ReadArchives, CheckRecovery,
                HandlerReturns, HandlerRaises, ArchiveRun, Privately
  <2>2. QED
    BY <2>1 DEF CountsNothing, Counted, vars
<1>2. ASSUME NEW j \in Job, NEW late \in ClockLag, TakeJob(w, j, late)
      PROVE  Counted'
  BY <1>0, <1>2, TakeCounted
<1>3. ASSUME NEW late \in ClockLag, TakeNothing(w, late)
      PROVE  CountsNothing
  BY <1>0, <1>3, NothingCounted
<1>4. CASE Beat(w)
  BY <1>0, <1>4, OwnerCounted DEF Beat, HandlerHasJob
<1>5. CASE Acknowledge(w)
  BY <1>0, <1>5, OwnerCounted DEF Acknowledge, LeaseLost, HandlerHasJob, InHandler
<1>6. CASE FailJob(w)
  BY <1>0, <1>6, OwnerCounted
     DEF FailJob, FailJobAs, LeaseLost, HandlerHasJob, InHandler
<1>7. QED
  BY <1>1, <1>2, <1>3, <1>4, <1>5, <1>6, Zenon DEF RunStep

(***************************************************************************)
(* Types                                                                   *)
(***************************************************************************)
\* Everything but the loop's own state.
OwnTypeOK ==
  /\ hand \in [Runner -> HandState]
  /\ DOMAIN runs = Job
  /\ \A j \in Job : runs[j] \in [Attempts(j) -> RunRecord]

\* The type invariant says this, and what the inductive invariant says of the
\* archives and of what handlers have read.
LEMMA CodingTypes ==
  CodingTypeOK <=> /\ RunnerTypeOK /\ OwnTypeOK /\ ArchivedIsPresent
                   /\ \A w \in Runner : ReadAttempts(w)
BY DEF CodingTypeOK, OwnTypeOK

\* Attempts are numbers from one to one more than the limit.
LEMMA AttemptNumbers ==
  ASSUME NEW j \in Job
  PROVE  /\ Attempts(j) \subseteq Nat
         /\ \A a \in Nat : a \in Attempts(j) <=> 1 <= a /\ a <= MaxAttempts[j] + 1
BY QueueAssumption DEF Attempts

\* No handler.
LEMMA NoHandler ==
  /\ IdleHand \in HandState
  /\ IdleHand.step = "idle" /\ IdleHand.orphans = {} /\ IdleHand.target = 0
BY DEF IdleHand, HandState, Steps

\* What a handler knows when it begins and when it ends.
LEMMA FirstHands ==
  /\ \A final \in BOOLEAN :
       /\ [IdleHand EXCEPT !.final = final] \in HandState
       /\ [IdleHand EXCEPT !.final = final].step = "idle"
  /\ \A step \in Steps :
       /\ [IdleHand EXCEPT !.step = step] \in HandState
       /\ [IdleHand EXCEPT !.step = step].step = step
       /\ [IdleHand EXCEPT !.step = step].orphans = {}
       /\ [IdleHand EXCEPT !.step = step].target = 0
BY NoHandler DEF HandState

\* A handler that goes on leaves the others where they are.
LEMMA Proceeds ==
  ASSUME hand \in [Runner -> HandState], NEW w \in Runner, NEW h \in HandState,
         Proceed(w, h)
  PROVE  /\ hand' \in [Runner -> HandState] /\ hand'[w] = h
         /\ \A v \in Runner \ {w} : hand'[v] = hand[v]
BY DEF Proceed

\* What a handler still knows when it has gone to a step: what is left to
\* resume, whose patch it is about, and what the agent came back with.
GoesOn(w, step, orphans, target) ==
  /\ hand' \in [Runner -> HandState]
  /\ \A v \in Runner \ {w} : hand'[v] = hand[v]
  /\ hand'[w].step = step
  /\ hand'[w].orphans = orphans /\ hand'[w].target = target

\* The ways in which handlers go on.
LEMMA HandGoesOn ==
  ASSUME hand \in [Runner -> HandState], NEW w \in Runner, NEW step \in Steps
  PROVE  /\ GoTo(w, step) =>
              /\ GoesOn(w, step, hand[w].orphans, hand[w].target)
              /\ hand'[w].result = hand[w].result
         /\ \A orphans \in SUBSET Nat :
              Proceed(w, [hand[w] EXCEPT !.step = step, !.orphans = orphans])
                => GoesOn(w, step, orphans, hand[w].target)
         /\ \A target \in Nat :
              Proceed(w, [hand[w] EXCEPT !.step = step, !.target = target])
                => GoesOn(w, step, hand[w].orphans, target)
         /\ \A target \in Nat :
              Proceed(w, [hand[w] EXCEPT !.step = step, !.target = target,
                                         !.orphans = {}])
                => GoesOn(w, step, {}, target)
<1>1. ASSUME NEW h \in HandState, Proceed(w, h), h.step = step
      PROVE  GoesOn(w, step, h.orphans, h.target) /\ hand'[w] = h
  BY <1>1, Proceeds DEF GoesOn
<1>2. hand[w] \in HandState
  OBVIOUS
<1>3. ASSUME GoTo(w, step)
      PROVE  /\ GoesOn(w, step, hand[w].orphans, hand[w].target)
             /\ hand'[w].result = hand[w].result
  <2> DEFINE h == [hand[w] EXCEPT !.step = step]
  <2>1. /\ h \in HandState /\ h.step = step /\ h.result = hand[w].result
        /\ h.orphans = hand[w].orphans /\ h.target = hand[w].target
    BY <1>2 DEF HandState
  <2>2. Proceed(w, h)
    BY <1>3 DEF GoTo
  <2> HIDE DEF h
  <2>3. QED
    BY <1>1, <2>1, <2>2
<1>4. ASSUME NEW orphans \in SUBSET Nat,
             Proceed(w, [hand[w] EXCEPT !.step = step, !.orphans = orphans])
      PROVE  GoesOn(w, step, orphans, hand[w].target)
  <2> DEFINE h == [hand[w] EXCEPT !.step = step, !.orphans = orphans]
  <2>1. /\ h \in HandState /\ h.step = step
        /\ h.orphans = orphans /\ h.target = hand[w].target
    BY <1>2 DEF HandState
  <2>2. Proceed(w, h)
    BY <1>4
  <2> HIDE DEF h
  <2>3. QED
    BY <1>1, <2>1, <2>2
<1>5. ASSUME NEW target \in Nat,
             Proceed(w, [hand[w] EXCEPT !.step = step, !.target = target])
      PROVE  GoesOn(w, step, hand[w].orphans, target)
  <2> DEFINE h == [hand[w] EXCEPT !.step = step, !.target = target]
  <2>1. /\ h \in HandState /\ h.step = step
        /\ h.orphans = hand[w].orphans /\ h.target = target
    BY <1>2 DEF HandState
  <2>2. Proceed(w, h)
    BY <1>5
  <2> HIDE DEF h
  <2>3. QED
    BY <1>1, <2>1, <2>2
<1>6. ASSUME NEW target \in Nat,
             Proceed(w, [hand[w] EXCEPT !.step = step, !.target = target,
                                        !.orphans = {}])
      PROVE  GoesOn(w, step, {}, target)
  <2> DEFINE h == [hand[w] EXCEPT !.step = step, !.target = target,
                                  !.orphans = {}]
  <2>1. /\ h \in HandState /\ h.step = step
        /\ h.orphans = {} /\ h.target = target
    BY <1>2 DEF HandState
  <2>2. Proceed(w, h)
    BY <1>6
  <2> HIDE DEF h
  <2>3. QED
    BY <1>1, <2>1, <2>2
<1>7. QED
  BY <1>3, <1>4, <1>5, <1>6, Zenon

\* A handler that raises ends.
LEMMA RaisesIdle ==
  ASSUME hand \in [Runner -> HandState], NEW w \in Runner, NEW final \in BOOLEAN,
         RaiseAs(w, final)
  PROVE  /\ hand' \in [Runner -> HandState] /\ hand'[w].step = "idle"
         /\ \A v \in Runner \ {w} : hand'[v] = hand[v]
         /\ HandlerRaises(w)
<1> DEFINE h == [IdleHand EXCEPT !.final = final]
<1>1. h \in HandState /\ h.step = "idle"
  BY FirstHands
<1>2. Proceed(w, h) /\ HandlerRaises(w)
  BY DEF RaiseAs
<1> HIDE DEF h
<1>3. QED
  BY <1>1, <1>2, Proceeds

(***************************************************************************)
(* What a handler's step does to the runs of its task                      *)
(***************************************************************************)
\* One run is recorded anew.
RunWritten(j, a, r) ==
  /\ DOMAIN runs' = Job
  /\ \A k \in Job : runs'[k] \in [Attempts(k) -> RunRecord]
  /\ \A k \in Job \ {j} : runs'[k] = runs[k]
  /\ \A b \in Attempts(j) \ {a} : runs'[j][b] = runs[j][b]
  /\ runs'[j][a] = r

\* Writing a record of a run changes that run only.
LEMMA Writing ==
  ASSUME OwnTypeOK, NEW j \in Job, NEW a \in Attempts(j), NEW r \in RunRecord,
         WriteRun(j, a, r)
  PROVE  RunWritten(j, a, r)
<1> DEFINE task == [runs[j] EXCEPT ![a] = r]
<1>1. /\ task \in [Attempts(j) -> RunRecord] /\ task[a] = r
      /\ \A b \in Attempts(j) \ {a} : task[b] = runs[j][b]
  BY DEF OwnTypeOK
<1>2. runs' = [runs EXCEPT ![j] = task]
  BY DEF WriteRun
<1> HIDE DEF task
<1>3. QED
  BY <1>1, <1>2 DEF OwnTypeOK, RunWritten

\* The run is in a record's order, whatever was attempted.
InOrder(r) ==
  /\ r.archive # "none" => r.started
  /\ r.ended # "none" => r.ended = r.archive
  /\ r.offered # {} => r.ended = "completed"

\* The process does not leave its lease, and nothing of the queue changes.
LoopMoves(w) ==
  /\ UNCHANGED <<vars, overdue>>
  /\ \A v \in Runner \ {w} : run'[v] = run[v]
  /\ run'[w].job = run[w].job /\ run'[w].attempt = run[w].attempt
  /\ run'[w].pc \in {"working", "returned", "raised"}

\* What a step of the handler is to the loop.
LEMMA HandlerMoves ==
  ASSUME RunnerTypeOK, NEW w \in Runner, run[w].pc = "working"
  PROVE  /\ UNCHANGED allVars =>
              /\ LoopMoves(w) /\ run'[w].pc = "working" /\ archived' = archived
         /\ ArchiveRun(w) =>
              /\ LoopMoves(w) /\ run'[w].pc = "working"
              /\ archived' = archived \cup {run[w].job}
         /\ HandlerRaises(w) =>
              /\ LoopMoves(w) /\ run'[w].pc = "raised" /\ archived' = archived
         /\ HandlerReturns(w) =>
              LoopMoves(w) /\ run'[w].pc # "working" /\ archived' = archived
<1>0. run \in [Runner -> RunState] /\ run[w] \in RunState
  BY DEF RunnerTypeOK
<1>1. ASSUME NEW pc \in {"returned", "raised"},
             Privately(w, [run[w] EXCEPT !.pc = pc])
      PROVE  LoopMoves(w) /\ run'[w].pc = pc /\ archived' = archived
  BY <1>0, <1>1 DEF Privately, LoopMoves, history, RunState
<1>2. ASSUME UNCHANGED allVars
      PROVE  LoopMoves(w) /\ run'[w].pc = "working" /\ archived' = archived
  BY <1>2 DEF allVars, runnerVars, history, LoopMoves
<1>3. ASSUME ArchiveRun(w)
      PROVE  /\ LoopMoves(w) /\ run'[w].pc = "working"
             /\ archived' = archived \cup {run[w].job}
  BY <1>3 DEF ArchiveRun, history, LoopMoves
<1>4. ASSUME HandlerReturns(w)
      PROVE  LoopMoves(w) /\ run'[w].pc # "working" /\ archived' = archived
  <2> DEFINE pc == IF run[w].beat = "failed" THEN "raised" ELSE "returned"
  <2>1. Privately(w, [run[w] EXCEPT !.pc = pc])
    BY <1>4 DEF HandlerReturns
  <2>2. pc \in {"returned", "raised"}
    OBVIOUS
  <2> HIDE DEF pc
  <2>3. QED
    BY <1>1, <2>1, <2>2
<1>5. QED
  BY <1>1, <1>2, <1>3, <1>4 DEF HandlerRaises

\* What a handler of j does to the runs: it starts and archives its own only;
\* what has ended stays so, what is offered stays; and each run is in order.
RunsGoOn(w, j) ==
  /\ \A k \in Job \ {j} : runs'[k] = runs[k]
  /\ \A b \in Attempts(j) :
       /\ b # run[w].attempt =>
            /\ runs'[j][b].started = runs[j][b].started
            /\ runs'[j][b].archive = runs[j][b].archive
       /\ runs[j][b].ended # "none" => runs'[j][b].ended = runs[j][b].ended
       /\ runs[j][b].offered # {} => runs'[j][b].offered # {}
       /\ InOrder(runs'[j][b])
       /\ b > rows[j].attempts => runs'[j][b] = NoRun

\* Where v is in its handler is what it was, if its own run is as far as it was.
LEMMA HandStays ==
  ASSUME NEW v \in Runner, HandAtWork(v),
         run'[v].pc = run[v].pc, run'[v].job = run[v].job,
         run'[v].attempt = run[v].attempt, hand'[v] = hand[v],
         InHandler(v) =>
           /\ run[v].job \in Job /\ run[v].attempt \in Attempts(run[v].job)
           /\ runs'[run[v].job][run[v].attempt].started = OwnRun(v).started
           /\ runs'[run[v].job][run[v].attempt].archive = OwnRun(v).archive
           /\ \A b \in Attempts(run[v].job) :
                /\ RunsOf(v)[b].ended # "none" =>
                     runs'[run[v].job][b].ended = RunsOf(v)[b].ended
                /\ RunsOf(v)[b].offered # {} =>
                     runs'[run[v].job][b].offered # {}
  PROVE  HandAtWork(v)'
<1>1. ReadAttempts(v)'
  BY DEF HandAtWork, ReadAttempts
<1>2. OwnRun(v)' = runs'[run[v].job][run[v].attempt]
  BY DEF OwnRun, RunsOf
<1>3. hand[v].step # "idle" \/ run[v].pc \in {"leased", "returned"} => InHandler(v)
  BY DEF HandAtWork, InHandler
<1>4. /\ run'[v].pc = "leased" \/ hand'[v].step \in BeforeStart =>
           ~OwnRun(v)'.started
      /\ hand'[v].step \in {"agent", "archive"} =>
           OwnRun(v)'.started /\ OwnRun(v)'.archive = "none"
      /\ hand'[v].step = "files" => OwnRun(v)'.archive = "partial"
      /\ hand'[v].step \in {"judge", "fail"} => OwnRun(v)'.archive = "failed"
      /\ hand'[v].step = "complete" => OwnRun(v)'.archive = "completed"
  BY <1>2, <1>3 DEF HandAtWork, BeforeStart
<1>5. hand'[v].step \in {"look", "offer"} =>
        hand'[v].target \in CompletedRuns(run[v].job)'
  <2>1. hand[v].step \in {"look", "offer"} =>
          hand[v].target \in CompletedRuns(run[v].job)
    BY DEF HandAtWork
  <2>2. CompletedRuns(run[v].job)' =
          {a \in Attempts(run[v].job) : runs'[run[v].job][a].ended = "completed"}
    BY DEF CompletedRuns
  <2>3. QED
    BY <1>3, <2>1, <2>2 DEF CompletedRuns, RunsOf
<1>6. (hand[v].step = "return" \/ run[v].pc = "returned" =>
         \E a \in Attempts(run[v].job) : RunsOf(v)[a].offered # {})'
  BY <1>3 DEF HandAtWork, RunsOf
<1>7. QED
  BY <1>1, <1>4, <1>5, <1>6 DEF HandAtWork

\* A handler's attempt is one of its job, and has been counted.
LEMMA OwnAttempt ==
  ASSUME RunnerTypeOK, QueueInv, RunnerInv, Counted, RunsApart,
         NEW v \in Runner, InHandler(v)
  PROVE  /\ run[v].job \in Job
         /\ run[v].attempt \in Attempts(run[v].job)
         /\ run[v].attempt <= rows[run[v].job].attempts
         /\ rows[run[v].job].attempts > 0
<1>1. PICK j \in Job : j = run[v].job
  BY DEF RunnerInv, HandlerHasJob
<1>2. /\ rows[j].attempts \in Nat /\ MaxAttempts[j] \in Nat
      /\ recoveryLeases[j] \in {0, 1}
      /\ rows[j].attempts <= MaxAttempts[j] + recoveryLeases[j]
  BY QueueAssumption DEF RunnerTypeOK, TypeOK, Row, QueueInv, OneGrant, Counted
<1>3. run[v].attempt \in 1 .. rows[j].attempts
  BY <1>1 DEF RunsApart
<1>4. run[v].attempt \in 1 .. (MaxAttempts[j] + 1)
  BY <1>2, <1>3
<1>5. QED
  BY <1>1, <1>2, <1>3, <1>4 DEF Attempts

\* The same of every job's latest attempt.
LEMMA PresentAttempt ==
  ASSUME RunnerTypeOK, QueueInv, Counted, NEW j \in Job, rows[j].attempts > 0
  PROVE  rows[j].attempts \in Attempts(j)
<1>1. /\ rows[j].attempts \in Nat /\ MaxAttempts[j] \in Nat
      /\ recoveryLeases[j] \in {0, 1}
      /\ rows[j].attempts <= MaxAttempts[j] + recoveryLeases[j]
  BY QueueAssumption DEF RunnerTypeOK, TypeOK, Row, QueueInv, OneGrant, Counted
<1>2. QED
  BY <1>1 DEF Attempts

\* A handler's step keeps the invariant, if what it does is told by the above.
LEMMA HandlerStory ==
  ASSUME RunnerTypeOK, QueueInv, RunnerInv, CodingStory,
         NEW w \in Runner, NEW j \in Job, run[w].pc = "working",
         run[w].job = j, LoopMoves(w), RunsGoOn(w, j),
         \A v \in Runner \ {w} : hand'[v] = hand[v],
         ArchivedIsPresent', OneSuccess', HandAtWork(w)', SuccessAsRead(w)'
  PROVE  CodingStory'
<1>0. /\ Counted /\ RunsApart /\ CompletedHasPatch /\ InHandler(w)
      /\ \A v \in Runner : HandAtWork(v) /\ SuccessAsRead(v)
      /\ rows' = rows /\ log' = log /\ recoveryLeases' = recoveryLeases
      /\ overdue' = overdue
      /\ \A v \in Runner \ {w} : run'[v] = run[v]
      /\ run'[w].job = run[w].job /\ run'[w].attempt = run[w].attempt
      /\ \A v \in Runner : InHandler(v)' => InHandler(v)
  BY DEF CodingStory, LoopMoves, vars, InHandler
<1>1. Counted'
  BY <1>0 DEF Counted
<1>2. \A v \in Runner : run'[v].job = run[v].job /\ run'[v].attempt = run[v].attempt
  BY <1>0
<1>3. RunsApart'
  <2>1. ASSUME NEW v \in Runner, InHandler(v)'
        PROVE  run'[v].attempt \in 1 .. rows'[run'[v].job].attempts
    BY <1>0, <1>2, <2>1 DEF RunsApart
  <2>2. ASSUME NEW u \in Runner, NEW v \in Runner, u # v, InHandler(u)',
               InHandler(v)', run'[u].job = run'[v].job
        PROVE  run'[u].attempt # run'[v].attempt
    BY <1>0, <1>2, <2>2 DEF RunsApart
  <2>3. QED
    BY <2>1, <2>2 DEF RunsApart
<1>4. ASSUME NEW k \in Job, NEW a \in Attempts(k)
      PROVE  RunInOrder(k, a)'
  <2>1. CASE k = j
    BY <1>0, <2>1 DEF RunsGoOn, RunInOrder, InOrder
  <2>2. CASE k # j
    <3>1. runs'[k][a] = runs[k][a] /\ RunInOrder(k, a)
      BY <2>2 DEF RunsGoOn, CodingStory
    <3>2. QED
      BY <1>0, <3>1 DEF RunInOrder
  <2>3. QED
    BY <2>1, <2>2
<1>5. CompletedHasPatch'
  <2> SUFFICES ASSUME NEW k \in Job, rows'[k].status = "completed"
               PROVE  \E a \in Attempts(k) : runs'[k][a].offered # {}
    BY DEF CompletedHasPatch
  <2>1. PICK a \in Attempts(k) : runs[k][a].offered # {}
    BY <1>0 DEF CompletedHasPatch
  <2>2. runs'[k][a].offered # {}
    BY <2>1 DEF RunsGoOn
  <2>3. QED
    BY <2>2
<1>6. ASSUME NEW v \in Runner \ {w}
      PROVE  HandAtWork(v)' /\ SuccessAsRead(v)'
  <2>0. /\ run'[v] = run[v] /\ hand'[v] = hand[v]
        /\ HandAtWork(v) /\ SuccessAsRead(v)
    BY <1>0
  <2>1. ASSUME InHandler(v)
        PROVE  /\ run[v].job \in Job /\ run[v].attempt \in Attempts(run[v].job)
               /\ run[v].job = j => run[v].attempt # run[w].attempt
    BY <1>0, <2>1, OwnAttempt DEF RunsApart
  <2>2. ASSUME InHandler(v)
        PROVE  /\ runs'[run[v].job][run[v].attempt].started = OwnRun(v).started
               /\ runs'[run[v].job][run[v].attempt].archive = OwnRun(v).archive
               /\ \A b \in Attempts(run[v].job) :
                    /\ RunsOf(v)[b].ended # "none" =>
                         runs'[run[v].job][b].ended = RunsOf(v)[b].ended
                    /\ RunsOf(v)[b].offered # {} =>
                         runs'[run[v].job][b].offered # {}
    <3>1. CASE run[v].job = j
      BY <2>1, <2>2, <3>1 DEF RunsGoOn, OwnRun, RunsOf
    <3>2. CASE run[v].job # j
      BY <2>1, <2>2, <3>2 DEF RunsGoOn, OwnRun, RunsOf
    <3>3. QED
      BY <3>1, <3>2
  <2>3. HandAtWork(v)'
    BY <2>0, <2>1, <2>2, HandStays
  <2>4. SuccessAsRead(v)'
    <3> SUFFICES ASSUME ~overdue, hand[v].step # "idle"
                 PROVE  SuccessAsRead(v)'
      BY <1>0, <2>0 DEF SuccessAsRead
    <3>1. InHandler(v)
      BY <2>0 DEF HandAtWork, InHandler
    <3>2. OneHandler
      BY DEF RunnerInv, HandlerHasJob, LeaseOnTime, Owns, OneHandler
    <3>3. run[v].job # j
      BY <1>0, <3>1, <3>2 DEF OneHandler
    <3>4. runs'[run[v].job] = runs[run[v].job]
      BY <2>1, <3>1, <3>3 DEF RunsGoOn
    <3>5. QED
      BY <1>0, <2>0, <3>4 DEF SuccessAsRead, Successes, CompletedRuns
  <2>5. QED
    BY <2>3, <2>4
<1>7. QED
  BY <1>1, <1>3, <1>4, <1>5, <1>6 DEF CodingStory

\* What is recorded of a task is in order.
LEMMA TaskInOrder ==
  ASSUME CodingStory, NEW j \in Job, NEW a \in Attempts(j)
  PROVE  /\ InOrder(runs[j][a])
         /\ a > rows[j].attempts => runs[j][a] = NoRun
BY DEF CodingStory, RunInOrder, InOrder

\* A step that records nothing.
LEMMA QuietStory ==
  ASSUME RunnerTypeOK, QueueInv, RunnerInv, CodingStory,
         NEW w \in Runner, run[w].pc = "working", LoopMoves(w),
         \A v \in Runner \ {w} : hand'[v] = hand[v],
         runs' = runs, archived' = archived,
         HandAtWork(w)', SuccessAsRead(w)'
  PROVE  CodingStory'
<1>1. PICK j \in Job : run[w].job = j
  BY DEF RunnerInv, HandlerHasJob, InHandler
<1>2. rows' = rows /\ overdue' = overdue
  BY DEF LoopMoves, vars
<1>3. RunsGoOn(w, j)
  BY TaskInOrder DEF RunsGoOn
<1>4. ArchivedIsPresent' /\ OneSuccess'
  BY <1>2 DEF CodingStory, ArchivedIsPresent, OneSuccess, Successes
<1>5. QED
  BY <1>1, <1>3, <1>4, HandlerStory

\* What may be recorded of the run a of j by a handler that does not complete
\* the archive of its own.
MayRecord(w, j, a, r) ==
  /\ InOrder(r)
  /\ a # run[w].attempt =>
       r.started = runs[j][a].started /\ r.archive = runs[j][a].archive
  /\ \/ r.archive = runs[j][a].archive
     \/ r.archive \in {"none", "partial"}
          /\ runs[j][a].archive \in {"none", "partial"}
  /\ runs[j][a].ended # "none" => r.ended = runs[j][a].ended
  /\ runs[j][a].offered # {} => r.offered # {}
  /\ a <= rows[j].attempts

\* Successes and archives are then what they were.
LEMMA SameArchives ==
  ASSUME RunnerTypeOK, QueueInv, CodingStory, NEW w \in Runner,
         NEW j \in Job, NEW a \in Attempts(j), NEW r,
         RunWritten(j, a, r), MayRecord(w, j, a, r)
  PROVE  \A k \in Job :
           /\ \A b \in Attempts(k) :
                \/ runs'[k][b].archive = runs[k][b].archive
                \/ runs'[k][b].archive \in {"none", "partial"}
                     /\ runs[k][b].archive \in {"none", "partial"}
           /\ Successes(k)' = Successes(k)
<1>1. ASSUME NEW k \in Job, NEW b \in Attempts(k)
      PROVE  \/ runs'[k][b].archive = runs[k][b].archive
             \/ runs'[k][b].archive \in {"none", "partial"}
                  /\ runs[k][b].archive \in {"none", "partial"}
  BY <1>1 DEF RunWritten, MayRecord
<1>2. QED
  BY <1>1 DEF Successes

\* A step that records something of one run of the task.
LEMMA WrittenStory ==
  ASSUME RunnerTypeOK, QueueInv, RunnerInv, CodingStory,
         NEW w \in Runner, run[w].pc = "working", LoopMoves(w),
         \A v \in Runner \ {w} : hand'[v] = hand[v],
         NEW j \in Job, run[w].job = j, NEW a \in Attempts(j), NEW r,
         RunWritten(j, a, r), MayRecord(w, j, a, r), archived' = archived,
         HandAtWork(w)', SuccessAsRead(w)'
  PROVE  CodingStory'
<1>1. rows' = rows /\ overdue' = overdue
  BY DEF LoopMoves, vars
<1>2. a \in Nat /\ rows[j].attempts \in Nat
  BY AttemptNumbers DEF RunnerTypeOK, TypeOK, Row
<1>3. RunsGoOn(w, j)
  <2>1. ASSUME NEW b \in Attempts(j)
        PROVE  /\ b # run[w].attempt =>
                    /\ runs'[j][b].started = runs[j][b].started
                    /\ runs'[j][b].archive = runs[j][b].archive
               /\ runs[j][b].ended # "none" =>
                    runs'[j][b].ended = runs[j][b].ended
               /\ runs[j][b].offered # {} => runs'[j][b].offered # {}
               /\ InOrder(runs'[j][b])
               /\ b > rows[j].attempts => runs'[j][b] = NoRun
    <3>1. CASE b = a
      BY <1>2, <3>1 DEF RunWritten, MayRecord
    <3>2. CASE b # a
      BY <3>2, TaskInOrder DEF RunWritten
    <3>3. QED
      BY <3>1, <3>2
  <2>2. QED
    BY <2>1 DEF RunsGoOn, RunWritten
<1>4. ArchivedIsPresent'
  <2>1. ASSUME NEW k \in Job, rows[k].attempts > 0
        PROVE  runs'[k][rows[k].attempts].archive \in {"completed", "failed"}
                 <=> runs[k][rows[k].attempts].archive \in {"completed", "failed"}
    <3>1. rows[k].attempts \in Attempts(k)
      BY <2>1, PresentAttempt DEF CodingStory
    <3>2. QED
      BY <3>1, SameArchives
  <2>2. QED
    BY <1>1, <2>1 DEF CodingStory, ArchivedIsPresent
<1>5. OneSuccess'
  <2>1. \A k \in Job : Successes(k)' = Successes(k)
    BY SameArchives
  <2>2. QED
    BY <1>1, <2>1 DEF CodingStory, OneSuccess
<1>6. QED
  BY <1>3, <1>4, <1>5, HandlerStory

(***************************************************************************)
(* The handler's steps                                                     *)
(***************************************************************************)
\* What the invariant asks of a handler of j that is now at `step`, of the runs
\* as they are now.
Fits(w, j, step, orphans, target) ==
  LET own == runs'[j][run[w].attempt]
  IN /\ orphans \subseteq Attempts(j) /\ target \in Attempts(j) \cup {0}
     /\ step \in BeforeStart => ~own.started
     /\ step \in {"agent", "archive"} => own.started /\ own.archive = "none"
     /\ step = "files" => own.archive = "partial"
     /\ step \in {"judge", "fail"} => own.archive = "failed"
     /\ step = "complete" => own.archive = "completed"
     /\ step \in {"look", "offer"} =>
          target \in Attempts(j) /\ runs'[j][target].ended = "completed"
     /\ step = "return" => \E b \in Attempts(j) : runs'[j][b].offered # {}

\* What it asks as long as heartbeats are on time.
FitsOnTime(j, step, orphans) ==
  /\ step \in {"resume", "prior"} =>
       \A b \in Attempts(j) : runs'[j][b].archive = "completed" =>
         b \in orphans \/ runs'[j][b].ended = "completed"
  /\ step = "prior" => orphans = {}
  /\ step \in {"recovery", "start", "agent", "archive", "files"} =>
       \A b \in Attempts(j) : runs'[j][b].archive # "completed"

\* A handler that goes on where the above fits is as the invariant tells.
LEMMA NextAtWork ==
  ASSUME NEW w \in Runner, NEW j \in Job, run[w].job = j,
         LoopMoves(w), run'[w].pc = "working",
         NEW step, NEW orphans, NEW target, GoesOn(w, step, orphans, target),
         Fits(w, j, step, orphans, target),
         ~overdue => FitsOnTime(j, step, orphans)
  PROVE  HandAtWork(w)' /\ SuccessAsRead(w)'
<1>1. /\ run'[w].job = j /\ run'[w].attempt = run[w].attempt
      /\ overdue' = overdue
      /\ hand'[w].step = step
      /\ hand'[w].orphans = orphans /\ hand'[w].target = target
  BY DEF LoopMoves, GoesOn
<1>2. /\ OwnRun(w)' = runs'[j][run[w].attempt] /\ RunsOf(w)' = runs'[j]
      /\ CompletedRuns(run[w].job)' =
           {b \in Attempts(j) : runs'[j][b].ended = "completed"}
      /\ Successes(run[w].job)' =
           {b \in Attempts(j) : runs'[j][b].archive = "completed"}
      /\ Attempts(run[w].job)' = Attempts(j)
  BY <1>1 DEF OwnRun, RunsOf, CompletedRuns, Successes, Attempts
<1>3. ReadAttempts(w)'
  BY <1>1, <1>2 DEF Fits, ReadAttempts
<1>4. HandAtWork(w)'
  BY <1>1, <1>2, <1>3 DEF Fits, HandAtWork, BeforeStart
<1>5. SuccessAsRead(w)'
  BY <1>1, <1>2 DEF FitsOnTime, SuccessAsRead
<1>6. QED
  BY <1>4, <1>5

\* A handler that ends, and does not return.
LEMMA EndsAtWork ==
  ASSUME NEW w \in Runner, hand'[w].step = "idle",
         run'[w].pc \notin {"leased", "returned"}
  PROVE  HandAtWork(w)' /\ SuccessAsRead(w)'
BY DEF HandAtWork, ReadAttempts, SuccessAsRead, BeforeStart

\* Where a handler is at work.
LEMMA AtWork ==
  ASSUME RunnerTypeOK, OwnTypeOK, QueueInv, RunnerInv, CodingStory,
         NEW w \in Runner, NEW j, j = run[w].job, run[w].pc = "working"
  PROVE  /\ j \in Job /\ run[w].attempt \in Attempts(j)
         /\ run[w].attempt <= rows[j].attempts
         /\ hand \in [Runner -> HandState]
         /\ RunsOf(w) = runs[j] /\ OwnRun(w) = runs[j][run[w].attempt]
         /\ OwnRun(w) \in RunRecord /\ InOrder(OwnRun(w))
         /\ HandAtWork(w) /\ SuccessAsRead(w)
         /\ hand[w].step # "idle" => /\ hand[w].orphans \subseteq Attempts(j)
                                     /\ hand[w].target \in Attempts(j) \cup {0}
         /\ ~overdue => \A a, b \in Successes(j) : a = b
<1>1. InHandler(w) /\ Counted /\ RunsApart
  BY DEF InHandler, CodingStory
<1>2. /\ j \in Job /\ run[w].attempt \in Attempts(j)
      /\ run[w].attempt <= rows[j].attempts
  BY <1>1, OwnAttempt
<1>3. /\ RunsOf(w) = runs[j] /\ OwnRun(w) = runs[j][run[w].attempt]
      /\ OwnRun(w) \in RunRecord /\ InOrder(OwnRun(w))
  BY <1>2, TaskInOrder DEF RunsOf, OwnRun, OwnTypeOK
<1>4. /\ HandAtWork(w) /\ SuccessAsRead(w)
      /\ hand[w].step # "idle" => /\ hand[w].orphans \subseteq Attempts(j)
                                  /\ hand[w].target \in Attempts(j) \cup {0}
      /\ ~overdue => \A a, b \in Successes(j) : a = b
  BY <1>2 DEF CodingStory, HandAtWork, ReadAttempts, OneSuccess
<1>5. QED
  BY <1>2, <1>3, <1>4 DEF OwnTypeOK

\* A handler that raises without recording anything.
LEMMA RaiseStory ==
  ASSUME RunnerTypeOK, OwnTypeOK, QueueInv, RunnerInv, CodingStory,
         NEW w \in Runner, NEW final \in BOOLEAN, RaiseAs(w, final),
         runs' = runs
  PROVE  OwnTypeOK' /\ CodingStory'
<1>1. run[w].pc = "working"
  BY DEF RaiseAs, HandlerRaises
<1>2. /\ hand' \in [Runner -> HandState] /\ hand'[w].step = "idle"
      /\ \A v \in Runner \ {w} : hand'[v] = hand[v]
      /\ HandlerRaises(w)
  BY RaisesIdle DEF OwnTypeOK
<1>3. LoopMoves(w) /\ run'[w].pc = "raised" /\ archived' = archived
  BY <1>1, <1>2, HandlerMoves
<1>4. HandAtWork(w)' /\ SuccessAsRead(w)'
  BY <1>2, <1>3, EndsAtWork
<1>5. CodingStory'
  BY <1>1, <1>2, <1>3, <1>4, QuietStory
<1>6. QED
  BY <1>2, <1>5 DEF OwnTypeOK

\* A handler that goes on without recording anything.
LEMMA GoesOnStory ==
  ASSUME RunnerTypeOK, OwnTypeOK, QueueInv, RunnerInv, CodingStory,
         NEW w \in Runner, NEW j, j = run[w].job, run[w].pc = "working",
         UNCHANGED allVars, runs' = runs,
         NEW step, NEW orphans, NEW target, GoesOn(w, step, orphans, target),
         Fits(w, j, step, orphans, target),
         ~overdue => FitsOnTime(j, step, orphans)
  PROVE  OwnTypeOK' /\ CodingStory'
<1>1. LoopMoves(w) /\ run'[w].pc = "working" /\ archived' = archived
  BY HandlerMoves
<1>2. j \in Job
  BY AtWork
<1>3. HandAtWork(w)' /\ SuccessAsRead(w)'
  BY <1>1, <1>2, NextAtWork
<1>4. CodingStory'
  BY <1>1, <1>3, QuietStory DEF GoesOn
<1>5. QED
  BY <1>4 DEF OwnTypeOK, GoesOn

\* A handler that goes on and records something of the run a.
LEMMA RecordsStory ==
  ASSUME RunnerTypeOK, OwnTypeOK, QueueInv, RunnerInv, CodingStory,
         NEW w \in Runner, NEW j, j = run[w].job, run[w].pc = "working",
         UNCHANGED allVars,
         NEW a \in Attempts(j), NEW r,
         RunWritten(j, a, r), MayRecord(w, j, a, r),
         NEW step, NEW orphans, NEW target, GoesOn(w, step, orphans, target),
         Fits(w, j, step, orphans, target),
         ~overdue => FitsOnTime(j, step, orphans)
  PROVE  OwnTypeOK' /\ CodingStory'
<1>1. LoopMoves(w) /\ run'[w].pc = "working" /\ archived' = archived
  BY HandlerMoves
<1>2. j \in Job
  BY AtWork
<1>3. HandAtWork(w)' /\ SuccessAsRead(w)'
  BY <1>1, <1>2, NextAtWork
<1>4. CodingStory'
  BY <1>1, <1>2, <1>3, WrittenStory DEF GoesOn
<1>5. QED
  BY <1>4 DEF OwnTypeOK, GoesOn, RunWritten

\* A handler that raises and records something of its own run.
LEMMA RaisesAndRecords ==
  ASSUME RunnerTypeOK, OwnTypeOK, QueueInv, RunnerInv, CodingStory,
         NEW w \in Runner, NEW j, j = run[w].job,
         NEW final \in BOOLEAN, RaiseAs(w, final),
         NEW r, RunWritten(j, run[w].attempt, r),
         MayRecord(w, j, run[w].attempt, r)
  PROVE  OwnTypeOK' /\ CodingStory'
<1>1. run[w].pc = "working"
  BY DEF RaiseAs, HandlerRaises
<1>2. /\ hand' \in [Runner -> HandState] /\ hand'[w].step = "idle"
      /\ \A v \in Runner \ {w} : hand'[v] = hand[v]
      /\ HandlerRaises(w)
  BY RaisesIdle DEF OwnTypeOK
<1>3. LoopMoves(w) /\ run'[w].pc = "raised" /\ archived' = archived
  BY <1>1, <1>2, HandlerMoves
<1>4. HandAtWork(w)' /\ SuccessAsRead(w)'
  BY <1>2, <1>3, EndsAtWork
<1>5. j \in Job /\ run[w].attempt \in Attempts(j)
  BY <1>1, AtWork
<1>6. CodingStory'
  BY <1>1, <1>2, <1>3, <1>4, <1>5, WrittenStory
<1>7. QED
  BY <1>2, <1>6 DEF OwnTypeOK, RunWritten

\* _resume_archived_worker_run reads which runs are left to resume ...
LEMMA ListOrphansStory ==
  ASSUME RunnerTypeOK, OwnTypeOK, QueueInv, RunnerInv, CodingStory,
         NEW w \in Runner, ListOrphans(w)
  PROVE  OwnTypeOK' /\ CodingStory'
<1>0. PICK j : j = run[w].job
  OBVIOUS
<1>1. /\ run[w].pc = "working" /\ hand[w].step = "list"
      /\ UNCHANGED allVars /\ runs' = runs
      /\ Proceed(w, [hand[w] EXCEPT !.step = "resume",
                                    !.orphans = StartedRuns(w)])
  BY DEF ListOrphans, Handling
<1>2. /\ j \in Job /\ hand \in [Runner -> HandState]
      /\ RunsOf(w) = runs[j] /\ HandAtWork(w)
      /\ OwnRun(w) = runs[j][run[w].attempt]
      /\ hand[w].target \in Attempts(j) \cup {0}
  BY <1>0, <1>1, AtWork
<1>3. StartedRuns(w) = {a \in Attempts(j) : /\ runs[j][a].started
                                            /\ runs[j][a].ended = "none"}
  BY <1>0, <1>2 DEF StartedRuns
<1>4. StartedRuns(w) \subseteq Attempts(j) /\ StartedRuns(w) \in SUBSET Nat
  BY <1>2, <1>3, AttemptNumbers
<1>5. GoesOn(w, "resume", StartedRuns(w), hand[w].target)
  BY <1>1, <1>2, <1>4, HandGoesOn DEF Steps
<1>6. Fits(w, j, "resume", StartedRuns(w), hand[w].target)
  BY <1>1, <1>2, <1>4 DEF Fits, HandAtWork, BeforeStart
<1>7. FitsOnTime(j, "resume", StartedRuns(w))
  <2>1. ASSUME NEW b \in Attempts(j), runs[j][b].archive = "completed"
        PROVE  b \in StartedRuns(w) \/ runs[j][b].ended = "completed"
    <3>1. InOrder(runs[j][b])
      BY <1>2, TaskInOrder
    <3>2. QED
      BY <1>3, <2>1, <3>1 DEF InOrder
  <2>2. QED
    BY <1>1, <2>1 DEF FitsOnTime
<1>8. QED
  BY <1>0, <1>1, <1>5, <1>6, <1>7, GoesOnStory

\* ... and has tried them all.
LEMMA NothingToResumeStory ==
  ASSUME RunnerTypeOK, OwnTypeOK, QueueInv, RunnerInv, CodingStory,
         NEW w \in Runner, NothingToResume(w)
  PROVE  OwnTypeOK' /\ CodingStory'
<1>0. PICK j : j = run[w].job
  OBVIOUS
<1>1. /\ run[w].pc = "working" /\ hand[w].step = "resume"
      /\ UNCHANGED allVars /\ runs' = runs /\ hand[w].orphans = {}
      /\ GoTo(w, "prior")
  BY DEF NothingToResume, Handling
<1>2. /\ j \in Job /\ hand \in [Runner -> HandState]
      /\ HandAtWork(w) /\ SuccessAsRead(w)
      /\ OwnRun(w) = runs[j][run[w].attempt]
      /\ hand[w].target \in Attempts(j) \cup {0}
  BY <1>0, <1>1, AtWork
<1>3. GoesOn(w, "prior", {}, hand[w].target)
  BY <1>1, <1>2, HandGoesOn DEF Steps
<1>4. Fits(w, j, "prior", {}, hand[w].target)
  BY <1>1, <1>2 DEF Fits, HandAtWork, BeforeStart
<1>5. ~overdue => FitsOnTime(j, "prior", {})
  BY <1>0, <1>1, <1>2 DEF FitsOnTime, SuccessAsRead, Successes, CompletedRuns
<1>6. QED
  BY <1>0, <1>1, <1>3, <1>4, <1>5, GoesOnStory

\* A run is left as it is: it has no archive.
LEMMA PassOverStory ==
  ASSUME RunnerTypeOK, OwnTypeOK, QueueInv, RunnerInv, CodingStory,
         NEW w \in Runner, NEW a \in hand[w].orphans, NEW j, j = run[w].job,
         run[w].pc = "working", hand[w].step = "resume",
         runs[j][a].archive # "completed",
         UNCHANGED allVars, runs' = runs,
         Proceed(w, [hand[w] EXCEPT !.orphans = @ \ {a}])
  PROVE  OwnTypeOK' /\ CodingStory'
<1> DEFINE rest == hand[w].orphans \ {a}
<1>1. /\ j \in Job /\ hand \in [Runner -> HandState]
      /\ OwnRun(w) = runs[j][run[w].attempt]
      /\ HandAtWork(w) /\ SuccessAsRead(w)
      /\ hand[w].orphans \subseteq Attempts(j)
      /\ hand[w].target \in Attempts(j) \cup {0}
  BY AtWork
<1>2. /\ Proceed(w, [hand[w] EXCEPT !.step = "resume", !.orphans = rest])
      /\ rest \in SUBSET Nat /\ rest \subseteq Attempts(j)
  <2>1. hand[w] \in HandState /\ rest \subseteq Attempts(j)
    BY <1>1
  <2>2. [hand[w] EXCEPT !.step = "resume", !.orphans = rest]
          = [hand[w] EXCEPT !.orphans = @ \ {a}]
    BY <2>1 DEF HandState
  <2>3. QED
    BY <1>1, <2>1, <2>2, AttemptNumbers
<1> HIDE DEF rest
<1>3. GoesOn(w, "resume", rest, hand[w].target)
  BY <1>1, <1>2, HandGoesOn DEF Steps
<1>4. Fits(w, j, "resume", rest, hand[w].target)
  BY <1>1, <1>2 DEF Fits, HandAtWork, BeforeStart
<1>5. ~overdue => FitsOnTime(j, "resume", rest)
  BY <1>1 DEF FitsOnTime, SuccessAsRead, Successes, CompletedRuns, rest
<1>6. QED
  BY <1>3, <1>4, <1>5, GoesOnStory

\* q is a record of a run with the fields of r, whatever failed.
Same(q, r) ==
  /\ q \in RunRecord
  /\ q.started = r.started /\ q.archive = r.archive
  /\ q.ended = r.ended /\ q.offered = r.offered

\* What is recorded of a run, field by field.
LEMMA Records ==
  ASSUME NEW r \in RunRecord
  PROVE  /\ Same([r EXCEPT !.started = TRUE],
                 [started |-> TRUE, archive |-> r.archive, ended |-> r.ended,
                  offered |-> r.offered])
         /\ \A archive \in {"none", "partial", "completed", "failed"} :
              Same([r EXCEPT !.archive = archive],
                   [started |-> r.started, archive |-> archive,
                    ended |-> r.ended, offered |-> r.offered])
         /\ Same([r EXCEPT !.ended = "completed"],
                 [started |-> r.started, archive |-> r.archive,
                  ended |-> "completed", offered |-> r.offered])
         /\ \A signature \in Signature \cup {"none", "recovered"} :
              Same([r EXCEPT !.ended = "failed", !.failure = signature],
                   [started |-> r.started, archive |-> r.archive,
                    ended |-> "failed", offered |-> r.offered])
         /\ \A kind \in {"proposed", "rejected"} :
              Same([r EXCEPT !.offered = @ \cup {kind}],
                   [started |-> r.started, archive |-> r.archive,
                    ended |-> r.ended, offered |-> r.offered \cup {kind}])
BY DEF Same, RunRecord

\* What has started was attempted.
LEMMA StartedCounted ==
  ASSUME RunnerTypeOK, CodingStory, NEW j \in Job, NEW a \in Attempts(j),
         runs[j][a].started
  PROVE  a <= rows[j].attempts
<1>1. a \in Nat /\ rows[j].attempts \in Nat
  BY AttemptNumbers DEF RunnerTypeOK, TypeOK, Row
<1>2. ~(a > rows[j].attempts)
  BY TaskInOrder DEF NoRun
<1>3. QED
  BY <1>1, <1>2

\* q is the run a of j, ended as its archive says.
Ended(j, a, q) ==
  /\ runs[j][a].ended = "none" /\ runs[j][a].archive \in {"completed", "failed"}
  /\ q \in RunRecord /\ q.started = runs[j][a].started
  /\ q.archive = runs[j][a].archive /\ q.ended = runs[j][a].archive
  /\ q.offered = runs[j][a].offered

\* A run's end is recorded as its archive says, by whoever gets to it.
LEMMA EndsAsArchived ==
  ASSUME RunnerTypeOK, OwnTypeOK, QueueInv, RunnerInv, CodingStory,
         NEW w \in Runner, NEW j, j = run[w].job, run[w].pc = "working",
         NEW a \in Attempts(j), NEW q, WriteRun(j, a, q), Ended(j, a, q)
  PROVE  RunWritten(j, a, q) /\ MayRecord(w, j, a, q)
<1>0. j \in Job
  BY AtWork
<1>1. j \in Job /\ InOrder(runs[j][a])
  BY <1>0, TaskInOrder
<1>2. q \in RunRecord
  BY DEF Ended
<1>3. RunWritten(j, a, q)
  BY <1>0, <1>2, Writing, Zenon
<1>4. runs[j][a].started
  BY <1>1 DEF InOrder, Ended
<1>5. a <= rows[j].attempts
  BY <1>1, <1>4, StartedCounted
<1>6. MayRecord(w, j, a, q)
  BY <1>1, <1>5 DEF MayRecord, InOrder, Ended
<1>7. QED
  BY <1>3, <1>6

\* An archived failure is recorded and passed over, ...
LEMMA ResumeFailedStory ==
  ASSUME RunnerTypeOK, OwnTypeOK, QueueInv, RunnerInv, CodingStory,
         NEW w \in Runner, NEW a \in hand[w].orphans, NEW j, j = run[w].job,
         run[w].pc = "working", hand[w].step = "resume",
         runs[j][a].archive = "failed", runs[j][a].ended = "none",
         UNCHANGED allVars,
         WriteRun(j, a, [runs[j][a] EXCEPT !.ended = "failed",
                                           !.failure = "recovered"]),
         Proceed(w, [hand[w] EXCEPT !.orphans = @ \ {a}])
  PROVE  OwnTypeOK' /\ CodingStory'
<1> DEFINE rest == hand[w].orphans \ {a}
           q == [runs[j][a] EXCEPT !.ended = "failed", !.failure = "recovered"]
<1>1. /\ j \in Job /\ hand \in [Runner -> HandState]
      /\ run[w].attempt \in Attempts(j)
      /\ OwnRun(w) = runs[j][run[w].attempt]
      /\ HandAtWork(w) /\ SuccessAsRead(w)
      /\ hand[w].orphans \subseteq Attempts(j)
      /\ hand[w].target \in Attempts(j) \cup {0}
  BY AtWork
<1>2. /\ Proceed(w, [hand[w] EXCEPT !.step = "resume", !.orphans = rest])
      /\ rest \in SUBSET Nat /\ rest \subseteq Attempts(j)
  <2>1. hand[w] \in HandState /\ rest \subseteq Attempts(j)
    BY <1>1
  <2>2. [hand[w] EXCEPT !.step = "resume", !.orphans = rest]
          = [hand[w] EXCEPT !.orphans = @ \ {a}]
    BY <2>1 DEF HandState
  <2>3. QED
    BY <1>1, <2>1, <2>2, AttemptNumbers
<1>3. a \in Attempts(j) /\ runs[j][a] \in RunRecord
  BY <1>1 DEF OwnTypeOK
<1>4. Same(q, [started |-> runs[j][a].started, archive |-> "failed",
               ended |-> "failed", offered |-> runs[j][a].offered])
  BY <1>3, Records
<1>5. /\ WriteRun(j, a, q) /\ Ended(j, a, q)
  BY <1>4 DEF Same, Ended
<1> HIDE DEF rest, q
<1>a. RunWritten(j, a, q) /\ MayRecord(w, j, a, q)
  BY <1>3, <1>5, EndsAsArchived
<1>6. \A b \in Attempts(j) :
        /\ runs'[j][b].started = runs[j][b].started
        /\ runs'[j][b].archive = runs[j][b].archive
        /\ b # a => runs'[j][b].ended = runs[j][b].ended
  BY <1>5, <1>a DEF RunWritten, Ended
<1>7. GoesOn(w, "resume", rest, hand[w].target)
  BY <1>1, <1>2, HandGoesOn DEF Steps
<1>8. Fits(w, j, "resume", rest, hand[w].target)
  BY <1>1, <1>2, <1>6 DEF Fits, HandAtWork, BeforeStart
<1>9. ~overdue => FitsOnTime(j, "resume", rest)
  <2> SUFFICES ASSUME ~overdue, NEW b \in Attempts(j),
                      runs'[j][b].archive = "completed"
               PROVE  b \in rest \/ runs'[j][b].ended = "completed"
    BY DEF FitsOnTime
  <2>1. b # a /\ runs[j][b].archive = "completed"
    BY <1>6
  <2>2. b \in hand[w].orphans \/ runs[j][b].ended = "completed"
    BY <2>1, <1>1 DEF SuccessAsRead, Successes, CompletedRuns
  <2>3. QED
    BY <1>6, <2>1, <2>2 DEF rest
<1>10. QED
  BY <1>3, <1>a, <1>7, <1>8, <1>9, RecordsStory

\* ... and an archived success, whoever finds it, is what is proposed next.
LEMMA CompletesStory ==
  ASSUME RunnerTypeOK, OwnTypeOK, QueueInv, RunnerInv, CodingStory,
         NEW w \in Runner, NEW j, j = run[w].job, NEW a \in Attempts(j),
         run[w].pc = "working", NEW orphans \in SUBSET Attempts(j),
         runs[j][a].archive = "completed", runs[j][a].ended = "none",
         UNCHANGED allVars,
         WriteRun(j, a, [runs[j][a] EXCEPT !.ended = "completed"]),
         GoesOn(w, "look", orphans, a)
  PROVE  OwnTypeOK' /\ CodingStory'
<1> DEFINE q == [runs[j][a] EXCEPT !.ended = "completed"]
<1>1. j \in Job
  BY AtWork
<1>2. runs[j][a] \in RunRecord
  BY <1>1 DEF OwnTypeOK
<1>3. Same(q, [started |-> runs[j][a].started, archive |-> "completed",
               ended |-> "completed", offered |-> runs[j][a].offered])
  BY <1>2, Records
<1>4. /\ WriteRun(j, a, q) /\ Ended(j, a, q)
  BY <1>3 DEF Same, Ended
<1> HIDE DEF q
<1>a. RunWritten(j, a, q) /\ MayRecord(w, j, a, q)
  BY <1>4, EndsAsArchived
<1>5. runs'[j][a].ended = "completed"
  BY <1>3, <1>a DEF RunWritten, Same
<1>6. Fits(w, j, "look", orphans, a) /\ FitsOnTime(j, "look", orphans)
  BY <1>5 DEF Fits, FitsOnTime, BeforeStart
<1>7. QED
  BY <1>a, <1>6, RecordsStory

\* One of the runs that are left is tried.
LEMMA ResumeOneStory ==
  ASSUME RunnerTypeOK, OwnTypeOK, QueueInv, RunnerInv, CodingStory,
         NEW w \in Runner, NEW a \in hand[w].orphans, ResumeOne(w, a)
  PROVE  OwnTypeOK' /\ CodingStory'
<1>0. PICK j : j = run[w].job
  OBVIOUS
<1>1. run[w].pc = "working" /\ hand[w].step = "resume"
  BY DEF ResumeOne, Handling
<1>2. /\ j \in Job /\ RunsOf(w) = runs[j] /\ hand \in [Runner -> HandState]
      /\ hand[w].orphans \subseteq Attempts(j) /\ a \in Attempts(j) /\ a \in Nat
  BY <1>0, <1>1, AtWork, AttemptNumbers
<1>3. CASE \/ runs[j][a].archive = "partial"
           \/ /\ runs[j][a].archive \in {"failed", "completed"}
              /\ runs[j][a].ended # "none"
  <2>1. Raise(w) /\ runs' = runs
    BY <1>2, <1>3 DEF ResumeOne, EndRun
  <2>2. QED
    BY <2>1, RaiseStory DEF Raise
<1>4. CASE runs[j][a].archive = "none"
  <2>1. /\ UNCHANGED allVars /\ runs' = runs
        /\ Proceed(w, [hand[w] EXCEPT !.orphans = @ \ {a}])
    BY <1>2, <1>4 DEF ResumeOne
  <2>2. QED
    BY <1>0, <1>1, <1>4, <2>1, PassOverStory
<1>5. CASE runs[j][a].archive = "failed" /\ runs[j][a].ended = "none"
  <2>1. /\ UNCHANGED allVars
        /\ WriteRun(j, a, [runs[j][a] EXCEPT !.ended = "failed",
                                             !.failure = "recovered"])
        /\ Proceed(w, [hand[w] EXCEPT !.orphans = @ \ {a}])
    BY <1>0, <1>2, <1>5 DEF ResumeOne, EndRun
  <2>2. QED
    BY <1>0, <1>1, <1>5, <2>1, ResumeFailedStory
<1>6. CASE runs[j][a].archive = "completed" /\ runs[j][a].ended = "none"
  <2>1. /\ UNCHANGED allVars
        /\ WriteRun(j, a, [runs[j][a] EXCEPT !.ended = "completed"])
        /\ Proceed(w, [hand[w] EXCEPT !.step = "look", !.target = a,
                                      !.orphans = {}])
    BY <1>0, <1>2, <1>6 DEF ResumeOne, EndRun
  <2>2. GoesOn(w, "look", {}, a)
    BY <1>2, <2>1, HandGoesOn DEF Steps
  <2>3. QED
    BY <1>0, <1>1, <1>2, <1>6, <2>1, <2>2, CompletesStory
<1>7. QED
  BY <1>2, <1>3, <1>4, <1>5, <1>6 DEF ResumeOne

\* Nothing of the task is left to resume: an earlier success is taken up, ...
LEMMA ReadPriorStory ==
  ASSUME RunnerTypeOK, OwnTypeOK, QueueInv, RunnerInv, CodingStory,
         NEW w \in Runner, ReadPrior(w)
  PROVE  OwnTypeOK' /\ CodingStory'
<1>0. PICK j : j = run[w].job
  OBVIOUS
<1> DEFINE Chosen(a) ==
             Proceed(w, [hand[w] EXCEPT !.step = "look", !.target = a])
<1>1. /\ run[w].pc = "working" /\ hand[w].step = "prior"
      /\ UNCHANGED allVars /\ runs' = runs
      /\ \/ CompletedRuns(j) = {} /\ GoTo(w, "recovery")
         \/ \E a \in CompletedRuns(j) : Chosen(a)
  BY <1>0 DEF ReadPrior, Handling
<1>2. /\ j \in Job /\ hand \in [Runner -> HandState]
      /\ HandAtWork(w) /\ SuccessAsRead(w)
      /\ OwnRun(w) = runs[j][run[w].attempt]
      /\ hand[w].orphans \subseteq Attempts(j)
      /\ hand[w].target \in Attempts(j) \cup {0}
  BY <1>0, <1>1, AtWork
<1>3. CASE CompletedRuns(j) = {} /\ GoTo(w, "recovery")
  <2>1. GoesOn(w, "recovery", hand[w].orphans, hand[w].target)
    BY <1>2, <1>3, HandGoesOn DEF Steps
  <2>2. Fits(w, j, "recovery", hand[w].orphans, hand[w].target)
    BY <1>1, <1>2 DEF Fits, HandAtWork, BeforeStart
  <2>3. ~overdue => Successes(j) = {}
    BY <1>0, <1>1, <1>2, <1>3 DEF SuccessAsRead
  <2>4. ~overdue => FitsOnTime(j, "recovery", hand[w].orphans)
    BY <1>1, <2>3 DEF FitsOnTime, Successes
  <2>5. QED
    BY <1>0, <1>1, <2>1, <2>2, <2>4, GoesOnStory
<1>4. ASSUME NEW a \in CompletedRuns(j), Chosen(a)
      PROVE  OwnTypeOK' /\ CodingStory'
  <2>1. a \in Attempts(j) /\ runs[j][a].ended = "completed" /\ a \in Nat
    BY <1>2, AttemptNumbers DEF CompletedRuns
  <2>2. GoesOn(w, "look", hand[w].orphans, a)
    BY <1>2, <1>4, <2>1, HandGoesOn DEF Steps
  <2>3. Fits(w, j, "look", hand[w].orphans, a)
    BY <1>1, <1>2, <2>1 DEF Fits, BeforeStart
  <2>4. FitsOnTime(j, "look", hand[w].orphans)
    BY DEF FitsOnTime
  <2>5. QED
    BY <1>0, <1>1, <2>2, <2>3, <2>4, GoesOnStory
<1> HIDE DEF Chosen
<1>5. QED
  BY <1>1, <1>3, <1>4

\* ... or, unless the lease turns out to be for recovery only, a run begins.
LEMMA CheckStillRecoveryStory ==
  ASSUME RunnerTypeOK, OwnTypeOK, QueueInv, RunnerInv, CodingStory,
         NEW w \in Runner, CheckStillRecovery(w)
  PROVE  OwnTypeOK' /\ CodingStory'
<1>0. PICK j : j = run[w].job
  OBVIOUS
<1>1. /\ run[w].pc = "working" /\ hand[w].step = "recovery" /\ runs' = runs
      /\ RaiseAs(w, TRUE) \/ (GoTo(w, "start") /\ UNCHANGED allVars)
  BY DEF CheckStillRecovery, Handling
<1>2. CASE RaiseAs(w, TRUE)
  BY <1>1, <1>2, RaiseStory
<1>3. CASE GoTo(w, "start") /\ UNCHANGED allVars
  <2>1. /\ j \in Job /\ hand \in [Runner -> HandState]
        /\ HandAtWork(w) /\ SuccessAsRead(w)
        /\ OwnRun(w) = runs[j][run[w].attempt]
        /\ hand[w].orphans \subseteq Attempts(j)
        /\ hand[w].target \in Attempts(j) \cup {0}
    BY <1>0, <1>1, AtWork
  <2>2. GoesOn(w, "start", hand[w].orphans, hand[w].target)
    BY <1>3, <2>1, HandGoesOn DEF Steps
  <2>3. Fits(w, j, "start", hand[w].orphans, hand[w].target)
    BY <1>1, <2>1 DEF Fits, HandAtWork, BeforeStart
  <2>4. ~overdue => FitsOnTime(j, "start", hand[w].orphans)
    BY <1>0, <1>1, <2>1 DEF FitsOnTime, SuccessAsRead, Successes
  <2>5. QED
    BY <1>0, <1>1, <1>3, <2>2, <2>3, <2>4, GoesOnStory
<1>4. QED
  BY <1>1, <1>2, <1>3

\* A run records something of itself.
LEMMA WritingOwn ==
  ASSUME RunnerTypeOK, OwnTypeOK, QueueInv, RunnerInv, CodingStory,
         NEW w \in Runner, NEW j, j = run[w].job, run[w].pc = "working",
         NEW q \in RunRecord, WriteOwnRun(w, q)
  PROVE  RunWritten(j, run[w].attempt, q)
<1>1. j \in Job /\ run[w].attempt \in Attempts(j)
  BY AtWork
<1>2. WriteRun(j, run[w].attempt, q)
  BY DEF WriteOwnRun
<1>3. QED
  BY <1>1, <1>2, Writing

\* The run's start is recorded before the agent is invoked.
LEMMA StartRunStory ==
  ASSUME RunnerTypeOK, OwnTypeOK, QueueInv, RunnerInv, CodingStory,
         NEW w \in Runner, StartRun(w)
  PROVE  OwnTypeOK' /\ CodingStory'
<1>0. PICK j : j = run[w].job
  OBVIOUS
<1> DEFINE own == OwnRun(w)
           q == [own EXCEPT !.started = TRUE]
<1>1. /\ run[w].pc = "working" /\ hand[w].step = "start"
      /\ WriteOwnRun(w, q) /\ GoTo(w, "agent") /\ UNCHANGED allVars
  BY DEF StartRun, Handling
<1>2. /\ j \in Job /\ hand \in [Runner -> HandState]
      /\ run[w].attempt \in Attempts(j) /\ run[w].attempt <= rows[j].attempts
      /\ HandAtWork(w) /\ SuccessAsRead(w)
      /\ own = runs[j][run[w].attempt] /\ own \in RunRecord /\ InOrder(own)
      /\ hand[w].orphans \subseteq Attempts(j)
      /\ hand[w].target \in Attempts(j) \cup {0}
  BY <1>0, <1>1, AtWork
<1>3. Same(q, [started |-> TRUE, archive |-> own.archive, ended |-> own.ended,
               offered |-> own.offered])
  BY <1>2, Records
<1>4. ~own.started /\ own.archive = "none"
  BY <1>1, <1>2 DEF HandAtWork, BeforeStart, InOrder
<1>5. /\ q.started /\ q.archive = own.archive /\ q.ended = own.ended
      /\ q.offered = own.offered /\ q \in RunRecord
  BY <1>3 DEF Same
<1> HIDE DEF own, q
<1>6. RunWritten(j, run[w].attempt, q)
  BY <1>0, <1>1, <1>5, WritingOwn
<1>7. MayRecord(w, j, run[w].attempt, q)
  BY <1>2, <1>4, <1>5 DEF MayRecord, InOrder
<1>8. GoesOn(w, "agent", hand[w].orphans, hand[w].target)
  BY <1>1, <1>2, HandGoesOn DEF Steps
<1>9. Fits(w, j, "agent", hand[w].orphans, hand[w].target)
  BY <1>2, <1>4, <1>5, <1>6 DEF Fits, RunWritten, BeforeStart
<1>10. ~overdue => FitsOnTime(j, "agent", hand[w].orphans)
  <2>1. ~overdue => \A b \in Attempts(j) : runs[j][b].archive # "completed"
    BY <1>0, <1>1, <1>2 DEF SuccessAsRead, Successes
  <2>2. QED
    BY <1>2, <1>4, <1>5, <1>6, <2>1 DEF FitsOnTime, RunWritten
<1>11. QED
  BY <1>0, <1>1, <1>2, <1>6, <1>7, <1>8, <1>9, <1>10, RecordsStory

\* The archive's directory is made.
LEMMA MakeArchiveStory ==
  ASSUME RunnerTypeOK, OwnTypeOK, QueueInv, RunnerInv, CodingStory,
         NEW w \in Runner, MakeArchive(w)
  PROVE  OwnTypeOK' /\ CodingStory'
<1>0. PICK j : j = run[w].job
  OBVIOUS
<1> DEFINE own == OwnRun(w)
           q == [own EXCEPT !.archive = "partial"]
<1>1. /\ run[w].pc = "working" /\ hand[w].step = "archive"
      /\ WriteOwnRun(w, q) /\ GoTo(w, "files") /\ UNCHANGED allVars
  BY DEF MakeArchive, Handling
<1>2. /\ j \in Job /\ hand \in [Runner -> HandState]
      /\ run[w].attempt \in Attempts(j) /\ run[w].attempt <= rows[j].attempts
      /\ HandAtWork(w) /\ SuccessAsRead(w)
      /\ own = runs[j][run[w].attempt] /\ own \in RunRecord /\ InOrder(own)
      /\ hand[w].orphans \subseteq Attempts(j)
      /\ hand[w].target \in Attempts(j) \cup {0}
  BY <1>0, <1>1, AtWork
<1>3. Same(q, [started |-> own.started, archive |-> "partial",
               ended |-> own.ended, offered |-> own.offered])
  BY <1>2, Records
<1>4. own.started /\ own.archive = "none"
  BY <1>1, <1>2 DEF HandAtWork, BeforeStart
<1>5. /\ q.started = own.started /\ q.archive = "partial"
      /\ q.ended = own.ended /\ q.offered = own.offered /\ q \in RunRecord
  BY <1>3 DEF Same
<1> HIDE DEF own, q
<1>6. RunWritten(j, run[w].attempt, q)
  BY <1>0, <1>1, <1>5, WritingOwn
<1>7. MayRecord(w, j, run[w].attempt, q)
  BY <1>2, <1>4, <1>5 DEF MayRecord, InOrder
<1>8. GoesOn(w, "files", hand[w].orphans, hand[w].target)
  BY <1>1, <1>2, HandGoesOn DEF Steps
<1>9. Fits(w, j, "files", hand[w].orphans, hand[w].target)
  BY <1>2, <1>5, <1>6 DEF Fits, RunWritten, BeforeStart
<1>10. ~overdue => FitsOnTime(j, "files", hand[w].orphans)
  <2>1. ~overdue => \A b \in Attempts(j) : runs[j][b].archive # "completed"
    BY <1>0, <1>1, <1>2 DEF SuccessAsRead, Successes
  <2>2. QED
    BY <1>2, <1>5, <1>6, <2>1 DEF FitsOnTime, RunWritten
<1>11. QED
  BY <1>0, <1>1, <1>2, <1>6, <1>7, <1>8, <1>9, <1>10, RecordsStory

\* The agent's outcome, and whether it is final, is what the handler learns.
LEMMA HandLearns ==
  ASSUME hand \in [Runner -> HandState], NEW w \in Runner
  PROVE  /\ AgentEnds(w) => GoesOn(w, "archive", hand[w].orphans, hand[w].target)
         /\ Judge(w) => GoesOn(w, "fail", hand[w].orphans, hand[w].target)
<1>1. ASSUME NEW h \in HandState, Proceed(w, h),
             h.orphans = hand[w].orphans, h.target = hand[w].target
      PROVE  GoesOn(w, h.step, hand[w].orphans, hand[w].target)
  BY <1>1, Proceeds DEF GoesOn
<1>2. hand[w] \in HandState
  OBVIOUS
<1>3. ASSUME NEW final \in BOOLEAN, Proceed(w, [hand[w] EXCEPT !.step = "fail",
                                                               !.final = final])
      PROVE  GoesOn(w, "fail", hand[w].orphans, hand[w].target)
  <2> DEFINE h == [hand[w] EXCEPT !.step = "fail", !.final = final]
  <2>1. /\ h \in HandState /\ h.step = "fail"
        /\ h.orphans = hand[w].orphans /\ h.target = hand[w].target
    BY <1>2 DEF HandState, Steps
  <2>2. Proceed(w, h)
    BY <1>3
  <2> HIDE DEF h
  <2>3. QED
    BY <1>1, <2>1, <2>2
<1>4. ASSUME Proceed(w, [hand[w] EXCEPT !.step = "archive",
                                        !.result = "completed"])
      PROVE  GoesOn(w, "archive", hand[w].orphans, hand[w].target)
  <2> DEFINE h == [hand[w] EXCEPT !.step = "archive", !.result = "completed"]
  <2>1. /\ h \in HandState /\ h.step = "archive"
        /\ h.orphans = hand[w].orphans /\ h.target = hand[w].target
    BY <1>2 DEF HandState, Steps
  <2>2. Proceed(w, h)
    BY <1>4
  <2> HIDE DEF h
  <2>3. QED
    BY <1>1, <2>1, <2>2
<1>5. ASSUME NEW s \in Signature, NEW kind \in {"failed", "error"},
             NEW final \in BOOLEAN,
             Proceed(w, [hand[w] EXCEPT !.step = "archive", !.result = kind,
                                        !.signature = s, !.final = final])
      PROVE  GoesOn(w, "archive", hand[w].orphans, hand[w].target)
  <2> DEFINE h == [hand[w] EXCEPT !.step = "archive", !.result = kind,
                                  !.signature = s, !.final = final]
  <2>1. /\ h \in HandState /\ h.step = "archive"
        /\ h.orphans = hand[w].orphans /\ h.target = hand[w].target
    BY <1>2 DEF HandState, Steps
  <2>2. Proceed(w, h)
    BY <1>5
  <2> HIDE DEF h
  <2>3. QED
    BY <1>1, <2>1, <2>2
<1>6. ASSUME Judge(w)
      PROVE  GoesOn(w, "fail", hand[w].orphans, hand[w].target)
  <2>1. PICK final : final = IsRepeated(w, hand[w].signature)
    OBVIOUS
  <2>2. final \in BOOLEAN
    BY <2>1 DEF IsRepeated
  <2>3. Proceed(w, [hand[w] EXCEPT !.step = "fail", !.final = final])
    BY <1>6, <2>1 DEF Judge
  <2>4. QED
    BY <1>3, <2>2, <2>3
<1>7. ASSUME NEW s \in Signature, NEW kind \in {"failed", "error"},
             Proceed(w, [hand[w] EXCEPT !.step = "archive", !.result = kind,
                                        !.signature = s,
                                        !.final = kind = "error" /\ IsRepeated(w, s)])
      PROVE  GoesOn(w, "archive", hand[w].orphans, hand[w].target)
  <2>1. PICK final : final = (kind = "error" /\ IsRepeated(w, s))
    OBVIOUS
  <2>2. final \in BOOLEAN
    BY <2>1
  <2>3. Proceed(w, [hand[w] EXCEPT !.step = "archive", !.result = kind,
                                   !.signature = s, !.final = final])
    BY <1>7, <2>1
  <2>4. QED
    BY <1>5, <2>2, <2>3
<1>8. ASSUME AgentEnds(w)
      PROVE  GoesOn(w, "archive", hand[w].orphans, hand[w].target)
  BY <1>4, <1>7, <1>8, Zenon DEF AgentEnds
<1>9. QED
  BY <1>6, <1>8

\* The agent ends, whatever came of it.
LEMMA AgentEndsStory ==
  ASSUME RunnerTypeOK, OwnTypeOK, QueueInv, RunnerInv, CodingStory,
         NEW w \in Runner, AgentEnds(w)
  PROVE  OwnTypeOK' /\ CodingStory'
<1>0. PICK j : j = run[w].job
  OBVIOUS
<1>1. /\ run[w].pc = "working" /\ hand[w].step = "agent"
      /\ UNCHANGED allVars /\ runs' = runs
  BY DEF AgentEnds, Handling
<1>2. /\ j \in Job /\ hand \in [Runner -> HandState]
      /\ HandAtWork(w) /\ SuccessAsRead(w)
      /\ OwnRun(w) = runs[j][run[w].attempt]
      /\ hand[w].orphans \subseteq Attempts(j)
      /\ hand[w].target \in Attempts(j) \cup {0}
  BY <1>0, <1>1, AtWork
<1>3. GoesOn(w, "archive", hand[w].orphans, hand[w].target)
  BY <1>2, HandLearns
<1>4. Fits(w, j, "archive", hand[w].orphans, hand[w].target)
  BY <1>1, <1>2 DEF Fits, HandAtWork, BeforeStart
<1>5. ~overdue => FitsOnTime(j, "archive", hand[w].orphans)
  BY <1>0, <1>1, <1>2 DEF FitsOnTime, SuccessAsRead, Successes
<1>6. QED
  BY <1>0, <1>1, <1>3, <1>4, <1>5, GoesOnStory

\* A failed run is compared with the earlier ones.
LEMMA JudgeStory ==
  ASSUME RunnerTypeOK, OwnTypeOK, QueueInv, RunnerInv, CodingStory,
         NEW w \in Runner, Judge(w)
  PROVE  OwnTypeOK' /\ CodingStory'
<1>0. PICK j : j = run[w].job
  OBVIOUS
<1>1. /\ run[w].pc = "working" /\ hand[w].step = "judge"
      /\ UNCHANGED allVars /\ runs' = runs
  BY DEF Judge, Handling
<1>2. /\ j \in Job /\ hand \in [Runner -> HandState] /\ HandAtWork(w)
      /\ OwnRun(w) = runs[j][run[w].attempt]
      /\ hand[w].orphans \subseteq Attempts(j)
      /\ hand[w].target \in Attempts(j) \cup {0}
  BY <1>0, <1>1, AtWork
<1>3. GoesOn(w, "fail", hand[w].orphans, hand[w].target)
  BY <1>2, HandLearns
<1>4. Fits(w, j, "fail", hand[w].orphans, hand[w].target)
  BY <1>1, <1>2 DEF Fits, HandAtWork, BeforeStart
<1>5. FitsOnTime(j, "fail", hand[w].orphans)
  BY DEF FitsOnTime
<1>6. QED
  BY <1>0, <1>1, <1>3, <1>4, <1>5, GoesOnStory

\* The archive loads from now on: what a new lease of the present attempt
\* looks for, and on time the task's only success.
LEMMA FinishArchiveStory ==
  ASSUME RunnerTypeOK, OwnTypeOK, QueueInv, RunnerInv, CodingStory,
         NEW w \in Runner, FinishArchive(w)
  PROVE  OwnTypeOK' /\ CodingStory'
<1>0. PICK j : j = run[w].job
  OBVIOUS
<1> DEFINE own == OwnRun(w)
           a == run[w].attempt
<1>1. PICK archive \in {"completed", "failed"}, step \in {"complete", "judge", "fail"} :
        /\ WriteOwnRun(w, [own EXCEPT !.archive = archive])
        /\ GoTo(w, step)
        /\ step = "complete" <=> archive = "completed"
  BY DEF FinishArchive
<1> DEFINE q == [own EXCEPT !.archive = archive]
<1>2. /\ run[w].pc = "working" /\ hand[w].step = "files"
      /\ IF rows[j].attempts = a THEN ArchiveRun(w) ELSE UNCHANGED allVars
  BY <1>0 DEF FinishArchive, Handling, NoteArchive
<1>3. /\ j \in Job /\ hand \in [Runner -> HandState]
      /\ a \in Attempts(j) /\ a <= rows[j].attempts
      /\ HandAtWork(w) /\ SuccessAsRead(w)
      /\ own = runs[j][a] /\ own \in RunRecord /\ InOrder(own)
      /\ hand[w].orphans \subseteq Attempts(j)
      /\ hand[w].target \in Attempts(j) \cup {0}
  BY <1>0, <1>2, AtWork
<1>4. Same(q, [started |-> own.started, archive |-> archive,
               ended |-> own.ended, offered |-> own.offered])
  BY <1>3, Records
<1>5. /\ q.started = own.started /\ q.archive = archive
      /\ q.ended = own.ended /\ q.offered = own.offered /\ q \in RunRecord
  BY <1>4 DEF Same
<1>6. own.archive = "partial"
  BY <1>2, <1>3 DEF HandAtWork
<1>7. own.started /\ own.ended = "none" /\ own.offered = {}
  BY <1>3, <1>6 DEF InOrder, RunRecord
<1>8. WriteOwnRun(w, q)
  BY <1>1
<1> HIDE DEF own, q, a
<1>9. RunWritten(j, a, q)
  BY <1>0, <1>2, <1>5, <1>8, WritingOwn DEF a
<1>10. /\ LoopMoves(w) /\ run'[w].pc = "working"
       /\ archived' = IF rows[j].attempts = a THEN archived \cup {j} ELSE archived
  BY <1>0, <1>2, HandlerMoves
<1>11. rows' = rows /\ overdue' = overdue
  BY <1>10 DEF LoopMoves, vars
<1>12. a \in Nat /\ rows[j].attempts \in Nat
  BY <1>3, AttemptNumbers DEF RunnerTypeOK, TypeOK, Row
<1>13. RunsGoOn(w, j)
  <2>1. ASSUME NEW b \in Attempts(j)
        PROVE  /\ b # a => /\ runs'[j][b].started = runs[j][b].started
                           /\ runs'[j][b].archive = runs[j][b].archive
               /\ runs[j][b].ended # "none" =>
                    runs'[j][b].ended = runs[j][b].ended
               /\ runs[j][b].offered # {} => runs'[j][b].offered # {}
               /\ InOrder(runs'[j][b])
               /\ b > rows[j].attempts => runs'[j][b] = NoRun
    <3>1. CASE b = a
      <4>1. runs'[j][b] = q /\ runs[j][b] = own
        BY <1>3, <1>9, <3>1 DEF RunWritten
      <4>2. InOrder(q)
        BY <1>5, <1>7 DEF InOrder
      <4>3. QED
        BY <1>3, <1>7, <1>12, <3>1, <4>1, <4>2
    <3>2. CASE b # a
      BY <1>3, <1>9, <3>2, TaskInOrder DEF RunWritten
    <3>3. QED
      BY <3>1, <3>2
  <2>2. QED
    BY <1>9, <2>1 DEF RunsGoOn, RunWritten, a
<1>14. ArchivedIsPresent'
  <2>1. ASSUME NEW k \in Job
        PROVE  k \in archived' <=>
                 /\ rows[k].attempts > 0
                 /\ runs'[k][rows[k].attempts].archive \in {"completed", "failed"}
    <3>0. k \in archived <=>
                 /\ rows[k].attempts > 0
                 /\ runs[k][rows[k].attempts].archive \in {"completed", "failed"}
      BY DEF CodingStory, ArchivedIsPresent
    <3>1. CASE k # j
      BY <1>9, <1>10, <3>0, <3>1 DEF RunWritten
    <3>2. CASE k = j /\ rows[j].attempts = a
      <4>1. a > 0
        BY <1>3 DEF Attempts
      <4>2. runs'[j][a].archive \in {"completed", "failed"}
        BY <1>5, <1>9 DEF RunWritten
      <4>3. QED
        BY <1>10, <3>2, <4>1, <4>2
    <3>3. CASE k = j /\ rows[j].attempts # a
      <4>1. rows[j].attempts > 0 => rows[j].attempts \in Attempts(j) \ {a}
        BY <1>3, <3>3, PresentAttempt DEF CodingStory
      <4>2. rows[j].attempts > 0 =>
              runs'[j][rows[j].attempts] = runs[j][rows[j].attempts]
        BY <1>9, <4>1 DEF RunWritten
      <4>3. QED
        BY <1>10, <3>0, <3>3, <4>2
    <3>4. QED
      BY <3>1, <3>2, <3>3
  <2>2. archived' \subseteq Job
    BY <1>3, <1>10 DEF RunnerTypeOK
  <2>3. QED
    BY <1>11, <2>1, <2>2 DEF ArchivedIsPresent
<1>15. OneSuccess'
  <2> SUFFICES ASSUME ~overdue, NEW k \in Job,
                      NEW b \in Successes(k)', NEW c \in Successes(k)'
               PROVE  b = c
    BY <1>11 DEF OneSuccess
  <2>0. /\ b \in Attempts(k) /\ runs'[k][b].archive = "completed"
        /\ c \in Attempts(k) /\ runs'[k][c].archive = "completed"
    BY DEF Successes
  <2>1. CASE k # j
    <3>1. b \in Successes(k) /\ c \in Successes(k)
      BY <1>9, <2>0, <2>1 DEF Successes, RunWritten
    <3>2. QED
      BY <3>1 DEF CodingStory, OneSuccess
  <2>2. CASE k = j
    <3>1. \A d \in Attempts(j) : runs[j][d].archive # "completed"
      BY <1>0, <1>2, <1>3 DEF SuccessAsRead, Successes
    <3>2. b = a /\ c = a
      BY <1>9, <2>0, <2>2, <3>1 DEF RunWritten
    <3>3. QED
      BY <3>2
  <2>3. QED
    BY <2>1, <2>2
<1>16. GoesOn(w, step, hand[w].orphans, hand[w].target)
  BY <1>1, <1>3, HandGoesOn DEF Steps
<1>17. Fits(w, j, step, hand[w].orphans, hand[w].target)
  BY <1>1, <1>3, <1>5, <1>9 DEF Fits, RunWritten, BeforeStart, a
<1>18. FitsOnTime(j, step, hand[w].orphans)
  BY <1>1 DEF FitsOnTime
<1>19. HandAtWork(w)' /\ SuccessAsRead(w)'
  BY <1>0, <1>3, <1>10, <1>16, <1>17, <1>18, NextAtWork
<1>20. CodingStory'
  BY <1>0, <1>2, <1>3, <1>10, <1>13, <1>14, <1>15, <1>16, <1>19, HandlerStory
     DEF GoesOn
<1>21. QED
  BY <1>9, <1>16, <1>20 DEF OwnTypeOK, GoesOn, RunWritten

\* A failure is recorded unless another process was first; the handler raises.
LEMMA RecordFailureStory ==
  ASSUME RunnerTypeOK, OwnTypeOK, QueueInv, RunnerInv, CodingStory,
         NEW w \in Runner, RecordFailure(w)
  PROVE  OwnTypeOK' /\ CodingStory'
<1>0. PICK j : j = run[w].job
  OBVIOUS
<1> DEFINE own == OwnRun(w)
           q == [own EXCEPT !.ended = "failed", !.failure = hand[w].signature]
<1>1. run[w].pc = "working" /\ hand[w].step = "fail"
  BY DEF RecordFailure, Handling
<1>2. \/ own.ended = "none" /\ WriteOwnRun(w, q) /\ RaiseAs(w, hand[w].final)
      \/ Raise(w) /\ runs' = runs
  BY DEF RecordFailure
<1>3. CASE Raise(w) /\ runs' = runs
  BY <1>3, RaiseStory DEF Raise
<1>4. CASE own.ended = "none" /\ WriteOwnRun(w, q) /\ RaiseAs(w, hand[w].final)
  <2>1. /\ j \in Job /\ hand \in [Runner -> HandState]
        /\ run[w].attempt \in Attempts(j) /\ HandAtWork(w)
        /\ own = runs[j][run[w].attempt] /\ own \in RunRecord
    BY <1>0, <1>1, AtWork
  <2>2. own.archive = "failed"
    BY <1>1, <2>1 DEF HandAtWork
  <2>3. hand[w].final \in BOOLEAN /\ hand[w].signature \in Signature \cup {"none"}
    <3>1. hand[w] \in HandState
      BY <2>1
    <3>2. QED
      BY <3>1 DEF HandState
  <2>4. Same(q, [started |-> own.started, archive |-> own.archive,
                 ended |-> "failed", offered |-> own.offered])
    BY <2>1, <2>3, Records
  <2>5. /\ q \in RunRecord /\ q.started = own.started /\ q.archive = own.archive
        /\ q.ended = own.archive /\ q.offered = own.offered
    BY <2>2, <2>4 DEF Same
  <2>6. WriteRun(j, run[w].attempt, q)
    BY <1>0, <1>4 DEF WriteOwnRun
  <2> HIDE DEF q
  <2>a. run[w].attempt \in Attempts(j) /\ own = runs[j][run[w].attempt]
    BY <1>1, <1>4, <2>1
  <2>7. RunWritten(j, run[w].attempt, q) /\ MayRecord(w, j, run[w].attempt, q)
    <3>1. PICK a : a = run[w].attempt
      OBVIOUS
    <3>2. /\ a \in Attempts(j) /\ own = runs[j][a] /\ WriteRun(j, a, q)
          /\ own.ended = "none"
      BY <1>4, <2>6, <2>a, <3>1
    <3>3. Ended(j, a, q)
      BY <2>2, <2>5, <3>2 DEF Ended
    <3>4. RunWritten(j, a, q) /\ MayRecord(w, j, a, q)
      BY <1>0, <1>1, <3>2, <3>3, EndsAsArchived
    <3>5. QED
      BY <3>1, <3>4
  <2>8. QED
    BY <1>0, <1>4, <2>3, <2>7, RaisesAndRecords
<1>5. QED
  BY <1>2, <1>3, <1>4

\* A success is recorded unless another process was first.
LEMMA RecordCompletionStory ==
  ASSUME RunnerTypeOK, OwnTypeOK, QueueInv, RunnerInv, CodingStory,
         NEW w \in Runner, RecordCompletion(w)
  PROVE  OwnTypeOK' /\ CodingStory'
<1>0. PICK j : j = run[w].job
  OBVIOUS
<1> DEFINE a == run[w].attempt
<1>1. run[w].pc = "working" /\ hand[w].step = "complete"
  BY DEF RecordCompletion, Handling
<1>2. /\ j \in Job /\ hand \in [Runner -> HandState] /\ HandAtWork(w)
      /\ a \in Attempts(j) /\ a \in Nat /\ OwnRun(w) = runs[j][a]
      /\ RunsOf(w) = runs[j]
      /\ hand[w].orphans \subseteq Attempts(j)
  BY <1>0, <1>1, AtWork, AttemptNumbers
<1>3. CASE runs[j][a].ended # "none"
  <2>1. Raise(w) /\ runs' = runs
    BY <1>2, <1>3 DEF RecordCompletion, EndRun
  <2>2. QED
    BY <2>1, RaiseStory DEF Raise
<1>4. CASE runs[j][a].ended = "none"
  <2>1. /\ UNCHANGED allVars
        /\ WriteRun(j, a, [runs[j][a] EXCEPT !.ended = "completed"])
        /\ Proceed(w, [hand[w] EXCEPT !.step = "look", !.target = a])
    BY <1>0, <1>2, <1>4 DEF RecordCompletion, EndRun
  <2>2. runs[j][a].archive = "completed"
    BY <1>1, <1>2 DEF HandAtWork
  <2> HIDE DEF a
  <2>3. GoesOn(w, "look", hand[w].orphans, a)
    BY <1>2, <2>1, HandGoesOn DEF Steps
  <2>4. QED
    BY <1>0, <1>1, <1>2, <1>4, <2>1, <2>2, <2>3, CompletesStory
<1>5. QED
  BY <1>3, <1>4

\* A patch that was offered before is returned.
LEMMA LookForPatchStory ==
  ASSUME RunnerTypeOK, OwnTypeOK, QueueInv, RunnerInv, CodingStory,
         NEW w \in Runner, LookForPatch(w)
  PROVE  OwnTypeOK' /\ CodingStory'
<1>0. PICK j : j = run[w].job
  OBVIOUS
<1>1. /\ run[w].pc = "working" /\ hand[w].step = "look"
      /\ UNCHANGED allVars /\ runs' = runs
  BY DEF LookForPatch, Handling
<1>2. /\ j \in Job /\ hand \in [Runner -> HandState] /\ HandAtWork(w)
      /\ RunsOf(w) = runs[j]
      /\ hand[w].orphans \subseteq Attempts(j)
      /\ hand[w].target \in Attempts(j) \cup {0}
  BY <1>0, <1>1, AtWork
<1>3. hand[w].target \in Attempts(j) /\ runs[j][hand[w].target].ended = "completed"
  BY <1>0, <1>1, <1>2 DEF HandAtWork, CompletedRuns
<1>4. PICK step \in {"return", "offer"} :
        /\ GoTo(w, step)
        /\ step = "return" => runs[j][hand[w].target].offered # {}
  BY <1>2 DEF LookForPatch
<1>5. GoesOn(w, step, hand[w].orphans, hand[w].target)
  BY <1>2, <1>4, HandGoesOn DEF Steps
<1>6. Fits(w, j, step, hand[w].orphans, hand[w].target)
  BY <1>1, <1>2, <1>3, <1>4 DEF Fits, BeforeStart
<1>7. FitsOnTime(j, step, hand[w].orphans)
  BY <1>4 DEF FitsOnTime
<1>8. QED
  BY <1>0, <1>1, <1>5, <1>6, <1>7, GoesOnStory

\* The candidate is proposed or rejected, unless another process was first.
LEMMA OfferPatchStory ==
  ASSUME RunnerTypeOK, OwnTypeOK, QueueInv, RunnerInv, CodingStory,
         NEW w \in Runner, NEW kind \in {"proposed", "rejected"},
         OfferPatch(w, kind)
  PROVE  OwnTypeOK' /\ CodingStory'
<1>0. PICK j : j = run[w].job
  OBVIOUS
<1>1. run[w].pc = "working" /\ hand[w].step = "offer"
  BY DEF OfferPatch, Handling
<1>2. /\ j \in Job /\ hand \in [Runner -> HandState] /\ HandAtWork(w)
      /\ run[w].attempt \in Attempts(j)
      /\ RunsOf(w) = runs[j]
      /\ hand[w].orphans \subseteq Attempts(j)
      /\ hand[w].target \in Attempts(j) \cup {0}
  BY <1>0, <1>1, AtWork
<1>3. PICK t : t = hand[w].target
  OBVIOUS
<1>4. t \in Attempts(j) /\ runs[j][t].ended = "completed"
  BY <1>0, <1>1, <1>2, <1>3 DEF HandAtWork, CompletedRuns
<1> DEFINE q == [runs[j][t] EXCEPT !.offered = @ \cup {kind}]
<1>5. \/ Raise(w) /\ runs' = runs
      \/ WriteRun(j, t, q) /\ GoTo(w, "return") /\ UNCHANGED allVars
  BY <1>0, <1>2, <1>3 DEF OfferPatch
<1>6. CASE Raise(w) /\ runs' = runs
  BY <1>6, RaiseStory DEF Raise
<1>7. CASE WriteRun(j, t, q) /\ GoTo(w, "return") /\ UNCHANGED allVars
  <2>1. runs[j][t] \in RunRecord /\ InOrder(runs[j][t])
    BY <1>2, <1>4, TaskInOrder DEF OwnTypeOK
  <2>2. Same(q, [started |-> runs[j][t].started, archive |-> runs[j][t].archive,
                 ended |-> runs[j][t].ended,
                 offered |-> runs[j][t].offered \cup {kind}])
    BY <2>1, Records
  <2> HIDE DEF q
  <2>3. /\ q.started = runs[j][t].started /\ q.archive = runs[j][t].archive
        /\ q.ended = runs[j][t].ended /\ q.offered # {} /\ q \in RunRecord
    BY <2>2 DEF Same
  <2>4. runs[j][t].started
    BY <1>4, <2>1 DEF InOrder
  <2>5. t <= rows[j].attempts
    BY <1>2, <1>4, <2>4, StartedCounted
  <2>6. RunWritten(j, t, q)
    BY <1>2, <1>4, <1>7, <2>3, Writing
  <2>7. MayRecord(w, j, t, q)
    BY <1>4, <2>1, <2>3, <2>5 DEF MayRecord, InOrder
  <2>8. GoesOn(w, "return", hand[w].orphans, hand[w].target)
    BY <1>2, <1>7, HandGoesOn DEF Steps
  <2>9. Fits(w, j, "return", hand[w].orphans, hand[w].target)
    BY <1>2, <1>4, <2>3, <2>6 DEF Fits, RunWritten, BeforeStart
  <2>10. FitsOnTime(j, "return", hand[w].orphans)
    BY DEF FitsOnTime
  <2>11. QED
    BY <1>0, <1>1, <1>4, <1>7, <2>6, <2>7, <2>8, <2>9, <2>10, RecordsStory
<1>8. QED
  BY <1>5, <1>6, <1>7

\* The handler returns once a patch of its task is offered.
LEMMA ReturnStory ==
  ASSUME RunnerTypeOK, OwnTypeOK, QueueInv, RunnerInv, CodingStory,
         NEW w \in Runner, Return(w)
  PROVE  OwnTypeOK' /\ CodingStory'
<1>0. PICK j : j = run[w].job
  OBVIOUS
<1>1. /\ run[w].pc = "working" /\ hand[w].step = "return" /\ runs' = runs
      /\ HandlerReturns(w) /\ Proceed(w, IdleHand)
  BY DEF Return, Handling
<1>2. /\ j \in Job /\ hand \in [Runner -> HandState] /\ HandAtWork(w)
      /\ RunsOf(w) = runs[j]
  BY <1>0, <1>1, AtWork
<1>3. PICK b \in Attempts(j) : runs[j][b].offered # {}
  BY <1>0, <1>1, <1>2 DEF HandAtWork
<1>4. LoopMoves(w) /\ run'[w].pc # "working" /\ archived' = archived
  BY <1>1, HandlerMoves
<1>5. /\ run'[w].job = j /\ run'[w].pc \in {"returned", "raised"}
  BY <1>0, <1>4 DEF LoopMoves
<1>6. /\ hand' \in [Runner -> HandState] /\ hand'[w] = IdleHand
      /\ \A v \in Runner \ {w} : hand'[v] = hand[v]
  BY <1>1, <1>2, NoHandler, Proceeds
<1>7. hand'[w].step = "idle"
  BY <1>6, NoHandler
<1>8. HandAtWork(w)' /\ SuccessAsRead(w)'
  BY <1>1, <1>3, <1>5, <1>7
     DEF HandAtWork, ReadAttempts, SuccessAsRead, BeforeStart, RunsOf, Attempts
<1>9. CodingStory'
  BY <1>1, <1>4, <1>6, <1>8, QuietStory
<1>10. QED
  BY <1>1, <1>6, <1>9 DEF OwnTypeOK

\* Any step may raise; a directory that was not finished is removed.
LEMMA StepRaisesStory ==
  ASSUME RunnerTypeOK, OwnTypeOK, QueueInv, RunnerInv, CodingStory,
         NEW w \in Runner, StepRaises(w)
  PROVE  OwnTypeOK' /\ CodingStory'
<1>0. PICK j : j = run[w].job
  OBVIOUS
<1> DEFINE own == OwnRun(w)
           q == [own EXCEPT !.archive = "none"]
<1>1. /\ RaiseAs(w, FALSE) /\ run[w].pc = "working"
      /\ IF hand[w].step = "files" THEN WriteOwnRun(w, q) ELSE runs' = runs
  BY DEF StepRaises, Raise, RaiseAs, HandlerRaises
<1>2. CASE hand[w].step # "files"
  BY <1>1, <1>2, RaiseStory
<1>3. CASE hand[w].step = "files"
  <2>1. /\ j \in Job /\ run[w].attempt <= rows[j].attempts
        /\ HandAtWork(w) /\ own \in RunRecord /\ InOrder(own)
        /\ own = runs[j][run[w].attempt]
    BY <1>0, <1>1, AtWork
  <2>2. own.archive = "partial"
    BY <1>3, <2>1 DEF HandAtWork
  <2>3. own.ended = "none" /\ own.offered = {}
    BY <2>1, <2>2 DEF InOrder, RunRecord
  <2>4. Same(q, [started |-> own.started, archive |-> "none",
                 ended |-> own.ended, offered |-> own.offered])
    BY <2>1, Records
  <2>5. /\ q.started = own.started /\ q.archive = "none"
        /\ q.ended = own.ended /\ q.offered = own.offered /\ q \in RunRecord
    BY <2>4 DEF Same
  <2>6. WriteOwnRun(w, q)
    BY <1>1, <1>3
  <2> HIDE DEF own, q
  <2>7. RunWritten(j, run[w].attempt, q)
    BY <1>0, <1>1, <2>5, <2>6, WritingOwn
  <2>8. MayRecord(w, j, run[w].attempt, q)
    BY <2>1, <2>2, <2>3, <2>5 DEF MayRecord, InOrder
  <2>9. QED
    BY <1>0, <1>1, <2>7, <2>8, RaisesAndRecords
<1>4. QED
  BY <1>2, <1>3

\* Whatever the handler does once it has begun keeps the invariant.
LEMMA HandlerStepStory ==
  ASSUME RunnerTypeOK, OwnTypeOK, QueueInv, RunnerInv, CodingStory,
         NEW w \in Runner, HandlerStep(w)
  PROVE  OwnTypeOK' /\ CodingStory'
<1>1. CASE \/ ListOrphans(w) \/ NothingToResume(w)
           \/ \E a \in hand[w].orphans : ResumeOne(w, a)
           \/ ReadPrior(w) \/ CheckStillRecovery(w)
  BY <1>1, ListOrphansStory, NothingToResumeStory, ResumeOneStory,
     ReadPriorStory, CheckStillRecoveryStory
<1>2. CASE \/ StartRun(w) \/ AgentEnds(w) \/ MakeArchive(w) \/ FinishArchive(w)
           \/ Judge(w) \/ RecordFailure(w) \/ RecordCompletion(w)
  BY <1>2, StartRunStory, AgentEndsStory, MakeArchiveStory, FinishArchiveStory,
     JudgeStory, RecordFailureStory, RecordCompletionStory
<1>3. CASE \/ LookForPatch(w)
           \/ \E kind \in {"proposed", "rejected"} : OfferPatch(w, kind)
           \/ Return(w) \/ StepRaises(w)
  BY <1>3, LookForPatchStory, OfferPatchStory, ReturnStory, StepRaisesStory
<1>4. QED
  BY <1>1, <1>2, <1>3, Zenon DEF HandlerStep

(***************************************************************************)
(* The loop's steps                                                        *)
(***************************************************************************)
\* What a step outside the handlers' own is to a process: it goes on, is not in
\* a handler, begins its handler, or has leased a job.
Stays(v) ==
  /\ run'[v].pc = run[v].pc /\ run'[v].job = run[v].job
  /\ run'[v].attempt = run[v].attempt
  /\ hand'[v] = hand[v]

Leaves(v) ==
  run'[v].pc \in {"off", "pauses", "gate", "archives", "lease"}
    /\ hand'[v].step = "idle"

Begins(v) ==
  /\ run[v].pc = "leased" /\ run'[v].pc = "working"
  /\ run'[v].job = run[v].job /\ run'[v].attempt = run[v].attempt
  /\ hand'[v].step = "list" /\ hand'[v].orphans = {} /\ hand'[v].target = 0

Obtains(v, j) ==
  /\ run'[v].pc = "leased" /\ run'[v].job = j
  /\ run'[v].attempt = rows[j].attempts + 1
  /\ hand'[v].step = "idle"

\* What such a step is to the tasks: those taken are attempted once more, and
\* nothing is archived of the new attempt.
LoopKeeps(taken) ==
  /\ runs' = runs /\ (overdue => overdue')
  /\ Counted'
  /\ \A k \in Job : rows'[k].attempts = IF k \in taken THEN rows[k].attempts + 1
                                        ELSE rows[k].attempts
  /\ archived' = archived \ taken

\* Such a step keeps the invariant.
LEMMA LoopStory ==
  ASSUME RunnerTypeOK, OwnTypeOK, QueueInv, RunnerInv, CodingStory,
         RunnerTypeOK', QueueInv', [RunnerNext]_allVars,
         NEW taken \in SUBSET Job, LoopKeeps(taken),
         \A v \in Runner : \/ Stays(v) \/ Leaves(v) \/ Begins(v)
                           \/ \E j \in taken : Obtains(v, j),
         \A u, v \in Runner : u # v => Stays(u) \/ Stays(v)
  PROVE  CodingStory'
<1>0. /\ HandlerHasJob /\ Counted /\ RunsApart
      /\ \A v \in Runner : HandAtWork(v) /\ SuccessAsRead(v)
      /\ runs' = runs /\ (overdue => overdue')
      /\ \A k \in Job : rows[k].attempts \in Nat /\ rows'[k].attempts \in Nat
      /\ \A k \in Job : rows'[k].attempts = IF k \in taken
                                            THEN rows[k].attempts + 1
                                            ELSE rows[k].attempts
  BY DEF RunnerInv, CodingStory, LoopKeeps, RunnerTypeOK, TypeOK, Row
<1>1. Counted'
  BY DEF LoopKeeps
<1>2. \A k \in Job : rows[k].attempts <= rows'[k].attempts
  BY <1>0
<1>3. \A v \in Runner : Stays(v) \/ Begins(v) =>
        /\ run'[v].job = run[v].job /\ run'[v].attempt = run[v].attempt
        /\ InHandler(v)' => InHandler(v)
  BY DEF Stays, Begins, InHandler
<1>4. \A v \in Runner : InHandler(v) => /\ run[v].job \in Job
                                        /\ run[v].attempt \in Attempts(run[v].job)
                                        /\ run[v].attempt \in Nat /\ run[v].attempt > 0
                                        /\ run[v].attempt <= rows[run[v].job].attempts
  BY <1>0, OwnAttempt DEF RunsApart
<1>5. \A v \in Runner : InHandler(v)' =>
        Stays(v) \/ Begins(v) \/ \E j \in taken : Obtains(v, j)
  BY DEF Leaves, InHandler
<1>6. ASSUME NEW v \in Runner, InHandler(v)'
      PROVE  run'[v].attempt \in 1 .. rows'[run'[v].job].attempts
  <2>1. CASE Stays(v) \/ Begins(v)
    <3>1. PICK k \in Job : k = run[v].job /\ k = run'[v].job
      BY <1>3, <1>4, <1>6, <2>1
    <3>2. /\ run[v].attempt \in Nat /\ run[v].attempt > 0
          /\ run[v].attempt <= rows[k].attempts
          /\ run'[v].attempt = run[v].attempt
      BY <1>3, <1>4, <1>6, <2>1, <3>1
    <3>3. rows[k].attempts <= rows'[k].attempts /\ rows[k].attempts \in Nat
          /\ rows'[k].attempts \in Nat
      BY <1>0, <1>2
    <3>4. run[v].attempt \in 1 .. rows'[k].attempts
      BY <3>2, <3>3
    <3>5. QED
      BY <3>1, <3>2, <3>4
  <2>2. ASSUME NEW j \in taken, Obtains(v, j)
        PROVE  run'[v].attempt \in 1 .. rows'[run'[v].job].attempts
    <3>1. /\ run'[v].job = j /\ run'[v].attempt = rows[j].attempts + 1
          /\ rows'[j].attempts = rows[j].attempts + 1 /\ rows[j].attempts \in Nat
      BY <1>0, <2>2 DEF Obtains
    <3>2. rows[j].attempts + 1 \in 1 .. (rows[j].attempts + 1)
      BY <3>1
    <3>3. QED
      BY <3>1, <3>2
  <2>3. QED
    BY <1>5, <1>6, <2>1, <2>2
<1>7. ASSUME NEW u \in Runner, NEW v \in Runner, u # v, Stays(u),
             InHandler(u)', InHandler(v)', run'[u].job = run'[v].job
      PROVE  run'[u].attempt # run'[v].attempt
  <2>1. CASE Stays(v) \/ Begins(v)
    BY <1>0, <1>3, <1>7, <2>1 DEF RunsApart
  <2>2. ASSUME NEW j \in taken, Obtains(v, j)
        PROVE  run'[u].attempt # run'[v].attempt
    <3>1. /\ run[u].job = j /\ run'[u].attempt = run[u].attempt /\ InHandler(u)
          /\ run'[v].attempt = rows[j].attempts + 1
      BY <1>3, <1>7, <2>2 DEF Obtains
    <3>2. /\ run[u].attempt \in Nat /\ run[u].attempt <= rows[j].attempts
          /\ rows[j].attempts \in Nat
      BY <1>0, <1>4, <3>1
    <3>3. QED
      BY <3>1, <3>2
  <2>3. QED
    BY <1>5, <1>7, <2>1, <2>2
<1>8. RunsApart'
  BY <1>6, <1>7 DEF RunsApart
<1>9. ASSUME NEW j \in Job, NEW a \in Attempts(j)
      PROVE  RunInOrder(j, a)'
  <2>1. a \in Nat /\ RunInOrder(j, a)
    BY AttemptNumbers DEF CodingStory
  <2>2. a > rows'[j].attempts => a > rows[j].attempts
    BY <1>0, <1>2, <2>1
  <2>3. QED
    BY <1>0, <2>1, <2>2 DEF RunInOrder
<1>10. ASSUME NEW k \in taken
       PROVE  /\ rows[k].attempts + 1 \in Attempts(k)
              /\ runs[k][rows[k].attempts + 1] = NoRun
  <2>1. rows'[k].attempts > 0 /\ rows'[k].attempts = rows[k].attempts + 1
        /\ rows[k].attempts + 1 > rows[k].attempts
    BY <1>0
  <2>2. rows'[k].attempts \in Attempts(k)
    <3>1. /\ rows'[k].attempts \in Nat /\ MaxAttempts[k] \in Nat
          /\ recoveryLeases'[k] \in {0, 1}
          /\ rows'[k].attempts <= MaxAttempts[k] + recoveryLeases'[k]
      BY <1>0, <1>1, QueueAssumption DEF QueueInv, OneGrant, Counted
    <3>2. QED
      BY <2>1, <3>1 DEF Attempts
  <2>3. QED
    BY <2>1, <2>2, TaskInOrder
<1>11. ArchivedIsPresent'
  <2>1. ASSUME NEW k \in Job
        PROVE  k \in archived' <=>
                 /\ rows'[k].attempts > 0
                 /\ runs'[k][rows'[k].attempts].archive \in {"completed", "failed"}
    <3>0. k \in archived <=>
                 /\ rows[k].attempts > 0
                 /\ runs[k][rows[k].attempts].archive \in {"completed", "failed"}
      BY DEF CodingStory, ArchivedIsPresent
    <3>1. CASE k \in taken
      BY <1>0, <1>10, <3>1 DEF LoopKeeps, NoRun
    <3>2. CASE k \notin taken
      BY <1>0, <3>0, <3>2 DEF LoopKeeps
    <3>3. QED
      BY <3>1, <3>2
  <2>2. archived' \subseteq Job
    BY DEF RunnerTypeOK
  <2>3. QED
    BY <2>1, <2>2 DEF ArchivedIsPresent
<1>12. OneSuccess'
  BY <1>0 DEF CodingStory, OneSuccess, Successes
<1>13. CompletedHasPatch'
  <2> SUFFICES ASSUME NEW k \in Job, rows'[k].status = "completed"
               PROVE  \E a \in Attempts(k) : runs[k][a].offered # {}
    BY <1>0 DEF CompletedHasPatch
  <2>1. CASE rows[k].status = "completed"
    BY <2>1 DEF CodingStory, CompletedHasPatch
  <2>2. CASE rows[k].status # "completed"
    <3>1. RunnerNext
      BY <2>2 DEF allVars, vars
    <3>2. PICK v \in Runner : run[v].pc = "returned" /\ run[v].job = k
      BY <1>0, <2>2, <3>1, OnlyAcknowledged
    <3>3. QED
      BY <1>0, <3>2 DEF HandAtWork, RunsOf
  <2>3. QED
    BY <2>1, <2>2
<1>14. ASSUME NEW v \in Runner
       PROVE  HandAtWork(v)' /\ SuccessAsRead(v)'
  <2>1. CASE Stays(v)
    <3>1. InHandler(v) => /\ run[v].job \in Job
                          /\ run[v].attempt \in Attempts(run[v].job)
                          /\ runs'[run[v].job] = RunsOf(v)
                          /\ runs'[run[v].job][run[v].attempt] = OwnRun(v)
      BY <1>0, <1>4 DEF RunsOf, OwnRun
    <3>2. HandAtWork(v)'
      BY <1>0, <2>1, <3>1, HandStays DEF Stays
    <3>3. SuccessAsRead(v)'
      BY <1>0, <2>1 DEF SuccessAsRead, Successes, CompletedRuns, Stays
    <3>4. QED
      BY <3>2, <3>3
  <2>2. CASE Leaves(v)
    BY <2>2, EndsAtWork DEF Leaves
  <2>3. CASE Begins(v)
    <3>1. ReadAttempts(v)'
      BY <2>3 DEF Begins, ReadAttempts
    <3>2. ~OwnRun(v)'.started
      BY <1>0, <2>3 DEF Begins, HandAtWork, OwnRun, RunsOf
    <3>3. HandAtWork(v)'
      BY <2>3, <3>1, <3>2 DEF Begins, HandAtWork
    <3>4. SuccessAsRead(v)'
      BY <2>3 DEF Begins, SuccessAsRead
    <3>5. QED
      BY <3>3, <3>4
  <2>4. ASSUME NEW j \in taken, Obtains(v, j)
        PROVE  HandAtWork(v)' /\ SuccessAsRead(v)'
    <3>1. OwnRun(v)' = NoRun
      BY <1>0, <1>10, <2>4 DEF Obtains, OwnRun, RunsOf
    <3>2. ReadAttempts(v)' /\ ~OwnRun(v)'.started
      BY <2>4, <3>1 DEF Obtains, ReadAttempts, NoRun
    <3>3. HandAtWork(v)'
      BY <2>4, <3>2 DEF Obtains, HandAtWork
    <3>4. SuccessAsRead(v)'
      BY <2>4 DEF Obtains, SuccessAsRead
    <3>5. QED
      BY <3>3, <3>4
  <2>5. QED
    BY <2>1, <2>2, <2>3, <2>4
<1>15. QED
  BY <1>1, <1>8, <1>9, <1>11, <1>12, <1>13, <1>14 DEF CodingStory

\* A process that reads its boundaries or looks for a job is in no handler.
LEMMA ReadingTurns ==
  ASSUME RunnerTypeOK, NEW w \in Runner, hand'[w].step = "idle",
         \/ Start(w) \/ ReadPauses(w) \/ ReadGate(w) \/ ReadArchives(w)
         \/ \E late \in ClockLag : TakeNothing(w, late)
  PROVE  Leaves(w) /\ archived' = archived
<1>0. run \in [Runner -> RunState] /\ run[w] \in RunState
  BY DEF RunnerTypeOK
<1>1. ASSUME NEW r, Privately(w, r),
             r.pc \in {"off", "pauses", "gate", "archives", "lease"}
      PROVE  Leaves(w) /\ archived' = archived
  <2>1. run'[w] = r
    BY <1>0, <1>1 DEF Privately
  <2>2. QED
    BY <1>1, <2>1 DEF Leaves, Privately
<1>2. CASE Start(w)
  <2> DEFINE r == [Off EXCEPT !.pc = "pauses"]
  <2>1. Privately(w, r) /\ r.pc = "pauses"
    BY <1>2 DEF Start, Off
  <2> HIDE DEF r
  <2>2. QED
    BY <1>1, <2>1
<1>3. CASE ReadPauses(w)
  <2> DEFINE r == [run[w] EXCEPT !.pc = "gate", !.excluded = PausedJobBranches]
  <2>1. Privately(w, r) /\ r.pc = "gate"
    BY <1>0, <1>3 DEF ReadPauses, RunState
  <2> HIDE DEF r
  <2>2. QED
    BY <1>1, <2>1
<1>4. CASE ReadGate(w)
  <2> DEFINE r == IF UntilHuman /\ gate THEN Off
                  ELSE [run[w] EXCEPT !.pc = "archives"]
  <2>1. Privately(w, r) /\ r.pc \in {"off", "archives"}
    BY <1>0, <1>4 DEF ReadGate, RunState, Off
  <2> HIDE DEF r
  <2>2. QED
    BY <1>1, <2>1
<1>5. CASE ReadArchives(w)
  <2> DEFINE r == [run[w] EXCEPT !.pc = "lease",
                                 !.recover = Expired({}) \cap archived]
  <2>1. Privately(w, r) /\ r.pc = "lease"
    BY <1>0, <1>5 DEF ReadArchives, RunState
  <2> HIDE DEF r
  <2>2. QED
    BY <1>1, <2>1
<1>6. CASE \E late \in ClockLag : TakeNothing(w, late)
  BY <1>0, <1>6 DEF TakeNothing, Leaves, Off
<1>7. QED
  BY <1>2, <1>3, <1>4, <1>5, <1>6

\* A process that takes a job has its next attempt.
LEMMA TakeTurns ==
  ASSUME RunnerTypeOK, NEW w \in Runner, hand'[w].step = "idle",
         NEW j \in Job, NEW late, TakeJob(w, j, late)
  PROVE  /\ Obtains(w, j) /\ archived' = archived \ {j}
         /\ \A k \in Job : rows'[k].attempts = IF k = j THEN rows[k].attempts + 1
                                               ELSE rows[k].attempts
<1>0. TypeOK /\ run \in [Runner -> RunState]
  BY DEF RunnerTypeOK
<1>1. \A k \in Job : rows'[k].attempts = IF k = j THEN rows[k].attempts + 1
                                         ELSE rows[k].attempts
  BY <1>0, TakeFields
<1>2. run' = [run EXCEPT ![w] =
                [run[w] EXCEPT !.pc = "leased", !.job = j,
                   !.attempt = rows'[j].attempts, !.since = 0,
                   !.excluded = {}, !.recover = {}]]
  BY <1>0 DEF TakeJob
<1>3. /\ run'[w].pc = "leased" /\ run'[w].job = j
      /\ run'[w].attempt = rows'[j].attempts
  BY <1>0, <1>2 DEF RunState
<1>4. archived' = archived \ {j}
  BY CodingAssumption DEF TakeJob
<1>5. QED
  BY <1>1, <1>3, <1>4 DEF Obtains

\* A heartbeat leaves a handler where it is.
LEMMA BeatTurns ==
  ASSUME RunnerTypeOK, NEW w \in Runner, Beat(w), hand' = hand
  PROVE  Stays(w) /\ archived' = archived
<1>0. run \in [Runner -> RunState] /\ archived' = archived
  BY DEF RunnerTypeOK, Beat
<1>1. CASE run' = [run EXCEPT ![w].since = 0]
  BY <1>0, <1>1 DEF Stays, RunState
<1>2. CASE run' = [run EXCEPT ![w].beat = "failed"]
  BY <1>0, <1>2 DEF Stays, RunState
<1>3. QED
  BY <1>0, <1>1, <1>2 DEF Beat

\* An acknowledgement ends the iteration.
LEMMA SettlingTurns ==
  ASSUME RunnerTypeOK, NEW w \in Runner, hand'[w].step = "idle", NEW retryable,
         Acknowledge(w) \/ FailJobAs(w, retryable)
  PROVE  Leaves(w) /\ archived' = archived
<1>0. run \in [Runner -> RunState] /\ archived' = archived
  BY DEF RunnerTypeOK, Acknowledge, FailJobAs
<1>1. \E r \in NextIteration(run[w]) \cup {Off} : run' = [run EXCEPT ![w] = r]
  BY DEF Acknowledge, FailJobAs, LeaseLost
<1>2. PICK r \in NextIteration(run[w]) \cup {Off} : run' = [run EXCEPT ![w] = r]
  BY <1>1
<1>3. run'[w] = r /\ r.pc \in {"off", "pauses"}
  BY <1>0, <1>2, NextIterationType DEF Off
<1>4. QED
  BY <1>0, <1>3 DEF Leaves

\* The processes' steps outside the handlers, but for taking a job.
LEMMA LoopTurns ==
  ASSUME RunnerTypeOK, OwnTypeOK, CodingStory, NEW w \in Runner,
         LoopStep(w) \/ Begin(w) \/ Die(w)
  PROVE  \/ archived' = archived /\ (Stays(w) \/ Leaves(w) \/ Begins(w))
         \/ \E j \in Job, late \in ClockLag : TakeJob(w, j, late) /\ hand' = hand
<1>0. /\ HandAtWork(w) /\ hand \in [Runner -> HandState]
      /\ run \in [Runner -> RunState] /\ run[w] \in RunState
  BY DEF CodingStory, OwnTypeOK, RunnerTypeOK
<1>1. CASE LoopStep(w)
  <2>0. hand' = hand
    BY <1>1 DEF LoopStep, codingVars
  <2>1. run[w].pc # "working" => hand'[w].step = "idle"
    BY <1>0, <2>0 DEF HandAtWork
  <2>2. CASE \/ Start(w) \/ ReadPauses(w) \/ ReadGate(w) \/ ReadArchives(w)
             \/ \E late \in ClockLag : TakeNothing(w, late)
    <3>1. run[w].pc # "working"
      BY <2>2 DEF Start, ReadPauses, ReadGate, ReadArchives, TakeNothing
    <3>2. QED
      BY <2>1, <2>2, <3>1, ReadingTurns
  <2>3. CASE Beat(w)
    BY <2>0, <2>3, BeatTurns
  <2>4. CASE Acknowledge(w) \/ FailJobAs(w, ~hand[w].final)
    <3>1. run[w].pc # "working"
      BY <2>4 DEF Acknowledge, FailJobAs
    <3>2. PICK retryable : Acknowledge(w) \/ FailJobAs(w, retryable)
      BY <2>4
    <3>3. QED
      BY <2>1, <3>1, <3>2, SettlingTurns
  <2>5. QED
    BY <1>1, <2>0, <2>2, <2>3, <2>4 DEF LoopStep
<1>2. CASE Begin(w)
  <2> DEFINE r == [run[w] EXCEPT
                     !.pc = "working", !.beat = "on",
                     !.recoveryOnly = IsArchiveRecoveryLease(run[w].job, w)]
             h == [IdleHand EXCEPT !.step = "list"]
  <2>1. Privately(w, r) /\ run[w].pc = "leased" /\ Proceed(w, h)
    BY <1>2 DEF Begin, CheckRecovery
  <2>2. r.pc = "working" /\ r.job = run[w].job /\ r.attempt = run[w].attempt
    BY <1>0 DEF RunState
  <2>3. h.step = "list" /\ h.orphans = {} /\ h.target = 0
    BY FirstHands DEF Steps
  <2> HIDE DEF r, h
  <2>4. hand'[w] = h /\ run'[w] = r /\ archived' = archived
    BY <1>0, <2>1 DEF Proceed, Privately
  <2>5. QED
    BY <2>1, <2>2, <2>3, <2>4 DEF Begins
<1>3. CASE Die(w)
  <2>1. run'[w] = Off /\ Off.pc = "off" /\ archived' = archived
    BY <1>0, <1>3 DEF Die, Crash, Off
  <2>2. hand'[w].step = "idle"
    BY <1>0, <1>3, NoHandler, Proceeds DEF Die
  <2>3. QED
    BY <2>1, <2>2 DEF Leaves
<1>4. QED
  BY <1>1, <1>2, <1>3

\* They leave the others and the runs where they are.
LEMMA LoopAlone ==
  ASSUME RunnerTypeOK, OwnTypeOK, NEW w \in Runner,
         LoopStep(w) \/ Begin(w) \/ Die(w)
  PROVE  /\ runs' = runs /\ (overdue => overdue')
         /\ hand' \in [Runner -> HandState]
         /\ \A v \in Runner \ {w} : Stays(v)
<1>0. /\ hand \in [Runner -> HandState] /\ run \in [Runner -> RunState]
      /\ runs' = runs
  BY DEF OwnTypeOK, RunnerTypeOK, LoopStep, Begin, Die, codingVars
<1>1. CASE LoopStep(w)
  <2>1. (overdue => overdue') /\ \A v \in Runner \ {w} : run'[v] = run[v]
    BY <1>1, LoopStepIsRunStep, OthersRuns
  <2>2. hand' = hand
    BY <1>1 DEF LoopStep, codingVars
  <2>3. QED
    BY <1>0, <2>1, <2>2 DEF Stays
<1>2. CASE Begin(w)
  <2>1. (overdue => overdue') /\ \A v \in Runner \ {w} : run'[v] = run[v]
    BY <1>2, LoopStepIsRunStep, OthersRuns
  <2> DEFINE h == [IdleHand EXCEPT !.step = "list"]
  <2>2. h \in HandState /\ Proceed(w, h)
    BY <1>2, FirstHands DEF Begin, Steps
  <2> HIDE DEF h
  <2>3. QED
    BY <1>0, <2>1, <2>2, Proceeds DEF Stays
<1>3. CASE Die(w)
  BY <1>0, <1>3, NoHandler, Proceeds DEF Die, Crash, Stays
<1>4. QED
  BY <1>1, <1>2, <1>3

\* The processes' steps outside the handlers keep the invariant.
LEMMA ProcessStory ==
  ASSUME RunnerTypeOK, OwnTypeOK, QueueInv, RunnerInv, CodingStory,
         RunnerTypeOK', QueueInv',
         NEW w \in Runner, LoopStep(w) \/ Begin(w) \/ Die(w)
  PROVE  OwnTypeOK' /\ CodingStory'
<1>0. /\ Counted /\ HandAtWork(w) /\ [RunnerNext]_allVars
      /\ runs' = runs /\ (overdue => overdue')
      /\ hand' \in [Runner -> HandState]
      /\ \A v \in Runner \ {w} : Stays(v)
  BY LoopAlone, CodingStepIsRunnerStep DEF CodingStory, CodingNext, CodingStep
<1>1. OwnTypeOK'
  BY <1>0 DEF OwnTypeOK
<1>2. ASSUME NEW j \in Job, NEW late \in ClockLag, TakeJob(w, j, late), hand' = hand
      PROVE  CodingStory'
  <2>1. hand'[w].step = "idle"
    BY <1>0, <1>2 DEF HandAtWork, TakeJob
  <2>2. /\ Obtains(w, j) /\ archived' = archived \ {j}
        /\ \A k \in Job : rows'[k].attempts = IF k = j THEN rows[k].attempts + 1
                                              ELSE rows[k].attempts
    BY <1>2, <2>1, TakeTurns
  <2>3. Counted'
    BY <1>0, <1>2, TakeCounted DEF RunnerTypeOK
  <2>4. LoopKeeps({j})
    BY <1>0, <2>2, <2>3 DEF LoopKeeps
  <2>5. \A v \in Runner : \/ Stays(v) \/ Leaves(v) \/ Begins(v)
                          \/ \E k \in {j} : Obtains(v, k)
    BY <1>0, <2>2
  <2>6. {j} \in SUBSET Job
    OBVIOUS
  <2>7. QED
    BY <1>0, <2>4, <2>5, <2>6, LoopStory
<1>3. ASSUME archived' = archived, Stays(w) \/ Leaves(w) \/ Begins(w)
      PROVE  CodingStory'
  <2>1. CountsNothing \/ \E j \in Job, late \in ClockLag : TakeJob(w, j, late)
    <3>1. CASE LoopStep(w) \/ Begin(w)
      BY <1>0, <3>1, LoopStepIsRunStep, RunStepCounted
    <3>2. CASE Die(w)
      BY <1>0, <3>2 DEF Die, Crash, CountsNothing, Counted, vars
    <3>3. QED
      BY <3>1, <3>2
  <2>2. CASE CountsNothing
    <3>1. LoopKeeps({})
      BY <1>0, <1>3, <2>2 DEF LoopKeeps, CountsNothing
    <3>2. \A v \in Runner : \/ Stays(v) \/ Leaves(v) \/ Begins(v)
                            \/ \E k \in {} : Obtains(v, k)
      BY <1>0, <1>3
    <3>3. {} \in SUBSET Job
      OBVIOUS
    <3>4. QED
      BY <1>0, <3>1, <3>2, <3>3, LoopStory
  <2>3. ASSUME NEW j \in Job, NEW late \in ClockLag, TakeJob(w, j, late)
        PROVE  CodingStory'
    <3>1. run'[w].pc = "leased" /\ run[w].pc = "lease"
      <4>1. PICK attempt :
              /\ run' = [run EXCEPT ![w].pc = "leased", ![w].job = j,
                                    ![w].attempt = attempt, ![w].since = 0,
                                    ![w].excluded = {}, ![w].recover = {}]
              /\ run[w].pc = "lease"
        BY <2>3, Zenon DEF TakeJob
      <4>2. run \in [Runner -> RunState]
        BY <1>0 DEF RunnerTypeOK
      <4>3. QED
        BY <4>1, <4>2 DEF RunState
    <3>2. FALSE
      BY <1>3, <3>1 DEF Stays, Leaves, Begins
    <3>3. QED
      BY <3>2
  <2>4. QED
    BY <2>1, <2>2, <2>3
<1>4. QED
  BY <1>1, <1>2, <1>3, LoopTurns

\* So do the operator's commands and the clock.
LEMMA OutsideStory ==
  ASSUME RunnerTypeOK, OwnTypeOK, QueueInv, RunnerInv, CodingStory,
         RunnerTypeOK', QueueInv', [RunnerNext]_allVars, UNCHANGED codingVars,
         QueueCommand \/ TimePasses \/ UNCHANGED allVars
  PROVE  OwnTypeOK' /\ CodingStory'
<1>0. /\ TypeOK /\ Counted /\ run \in [Runner -> RunState]
      /\ hand' = hand /\ runs' = runs
  BY DEF RunnerTypeOK, CodingStory, codingVars
<1>1. OwnTypeOK'
  BY <1>0 DEF OwnTypeOK
<1>2. CountsNothing /\ archived' = archived /\ (overdue => overdue')
  <2>1. CASE QueueCommand
    <3>1. CountsNothing
      BY <1>0, <2>1, CommandCounted
    <3>2. archived' = archived /\ overdue' = overdue
      BY <2>1 DEF QueueCommand, runnerVars, history
    <3>3. QED
      BY <3>1, <3>2
  <2>2. CASE TimePasses
    <3>1. Tick /\ archived' = archived /\ (overdue => overdue')
      BY <2>2 DEF TimePasses
    <3>2. log' = log /\ recoveryLeases' = recoveryLeases
      BY <3>1 DEF Tick
    <3>3. \A k \in Job : /\ rows'[k].status = rows[k].status
                         /\ rows'[k].attempts = rows[k].attempts
      BY <1>0, <3>1, TickFields
    <3>4. QED
      BY <1>0, <3>1, <3>2, <3>3 DEF CountsNothing, Counted
  <2>3. CASE UNCHANGED allVars
    BY <1>0, <2>3 DEF allVars, vars, runnerVars, history, CountsNothing, Counted
  <2>4. QED
    BY <2>1, <2>2, <2>3
<1>3. \A v \in Runner : Stays(v)
  <2>1. CASE QueueCommand
    BY <1>0, <2>1 DEF QueueCommand, runnerVars, Stays
  <2>2. CASE TimePasses
    BY <1>0, <2>2 DEF TimePasses, RunState, Stays
  <2>3. CASE UNCHANGED allVars
    BY <1>0, <2>3 DEF allVars, runnerVars, Stays
  <2>4. QED
    BY <2>1, <2>2, <2>3
<1>4. LoopKeeps({}) /\ {} \in SUBSET Job
  BY <1>0, <1>2 DEF LoopKeeps, CountsNothing
<1>5. CodingStory'
  BY <1>3, <1>4, LoopStory
<1>6. QED
  BY <1>1, <1>5

(***************************************************************************)
(* The theorems                                                            *)
(***************************************************************************)
\* No job was enqueued at first, and no run is recorded.
LEMMA CodingInitStory == CodingInit => OwnTypeOK /\ CodingStory
<1> SUFFICES ASSUME CodingInit
             PROVE  OwnTypeOK /\ CodingStory
  OBVIOUS
<1>1. /\ hand = [w \in Runner |-> IdleHand]
      /\ runs = [j \in Job |-> [a \in Attempts(j) |-> NoRun]]
      /\ run = [w \in Runner |-> Off] /\ Off.pc = "off"
      /\ archived = {} /\ recoveryLeases = [j \in Job |-> 0]
  BY DEF CodingInit, RunnerInit, Init, Off
<1>2. \A j \in Job : /\ rows[j].status = "absent" /\ rows[j].attempts = 0
                     /\ log[j].type # "retried" /\ MaxAttempts[j] \in Nat
  BY QueueAssumption DEF CodingInit, RunnerInit, Init
<1>3. NoRun \in RunRecord
  BY DEF NoRun, RunRecord
<1>4. OwnTypeOK
  BY <1>1, <1>3, NoHandler DEF OwnTypeOK
<1>5. \A j \in Job : \A a \in Attempts(j) : runs[j][a] = NoRun
  BY <1>1
<1>6. \A w \in Runner : hand[w].step = "idle" /\ run[w].pc = "off"
  BY <1>1, NoHandler
<1>7. Counted
  BY <1>1, <1>2 DEF Counted
<1>8. RunsApart
  BY <1>6 DEF RunsApart, InHandler
<1>9. \A j \in Job : \A a \in Attempts(j) : RunInOrder(j, a)
  BY <1>5 DEF RunInOrder, NoRun
<1>10. ArchivedIsPresent /\ CompletedHasPatch
  BY <1>1, <1>2 DEF ArchivedIsPresent, CompletedHasPatch
<1>11. OneSuccess
  BY <1>5 DEF OneSuccess, Successes, NoRun
<1>12. \A w \in Runner : HandAtWork(w) /\ SuccessAsRead(w)
  BY <1>6 DEF HandAtWork, ReadAttempts, SuccessAsRead, BeforeStart
<1>13. QED
  BY <1>4, <1>7, <1>8, <1>9, <1>10, <1>11, <1>12 DEF CodingStory

\* CodingStory is inductive, relative to the invariants of the queue and the
\* loop before and after the step.
LEMMA CodingNextStory ==
  ASSUME RunnerTypeOK, OwnTypeOK, QueueInv, RunnerInv, CodingStory,
         RunnerTypeOK', QueueInv', [CodingNext]_codingAllVars
  PROVE  OwnTypeOK' /\ CodingStory'
<1>1. ASSUME NEW w \in Runner, LoopStep(w) \/ Begin(w) \/ Die(w)
      PROVE  OwnTypeOK' /\ CodingStory'
  BY <1>1, ProcessStory
<1>2. ASSUME NEW w \in Runner, HandlerStep(w)
      PROVE  OwnTypeOK' /\ CodingStory'
  BY <1>2, HandlerStepStory
<1>3. ASSUME NEW w \in Runner, CodingStep(w)
      PROVE  Begin(w) \/ HandlerStep(w)
  BY <1>3, Zenon DEF CodingStep, HandlerStep
<1>4. CASE (QueueCommand \/ TimePasses) /\ UNCHANGED codingVars
  BY <1>4, OutsideStory, CodingStepIsRunnerStep
<1>5. CASE UNCHANGED codingAllVars
  <2>1. UNCHANGED codingVars /\ UNCHANGED allVars
    BY <1>5 DEF codingAllVars
  <2>2. QED
    BY <2>1, OutsideStory
<1>6. QED
  BY <1>1, <1>2, <1>3, <1>4, <1>5 DEF CodingNext

\* In every reachable state of the coding worker the invariants of the queue and
\* the loop hold, and each run of each task is as far as its process is.
THEOREM CodingInvariant ==
  CodingSpec =>
    [](RunnerTypeOK /\ OwnTypeOK /\ QueueInv /\ RunnerInv /\ CodingStory)
<1> DEFINE Loop == RunnerTypeOK /\ QueueInv /\ RunnerInv
<1>1. CodingSpec => []Loop
  BY CodingUsesLoop, RunnerInvariant, PTL
<1>2. CodingInit => OwnTypeOK /\ CodingStory
  BY CodingInitStory
<1>3. Loop /\ Loop' /\ OwnTypeOK /\ CodingStory /\ [CodingNext]_codingAllVars =>
        OwnTypeOK' /\ CodingStory'
  BY CodingNextStory
<1>4. QED
  BY <1>1, <1>2, <1>3, PTL DEF CodingSpec

\* What is recorded of a task is typed, and a completed job has its patch:
\* whoever ran the agent, died, or resumed the run from its archive.
THEOREM CodingHolds == CodingSpec => []CodingInv
<1>1. RunnerTypeOK /\ OwnTypeOK /\ CodingStory => CodingInv
  BY CodingTypes DEF CodingInv, CodingStory, HandAtWork
<1>2. QED
  BY <1>1, CodingInvariant, PTL

\* No two live processes ever work on the same run of a task, overdue or not.
THEOREM HandlersApart == CodingSpec => []RunsApart
<1>1. CodingStory => RunsApart
  BY DEF CodingStory
<1>2. QED
  BY <1>1, CodingInvariant, PTL

\* On time, only one run of a task has a patch.
LEMMA OnePatch ==
  ASSUME OwnTypeOK, CodingStory, ~overdue
  PROVE  OnePatchPerTask
<1> SUFFICES ASSUME NEW j \in Job
             PROVE  Cardinality({a \in Attempts(j) :
                                   "proposed" \in runs[j][a].offered}) <= 1
  BY DEF OnePatchPerTask
<1> DEFINE Patched == {a \in Attempts(j) : "proposed" \in runs[j][a].offered}
<1>1. Patched \subseteq Successes(j)
  <2>1. ASSUME NEW a \in Patched
        PROVE  runs[j][a].archive = "completed"
    BY <2>1, TaskInOrder DEF InOrder
  <2>2. QED
    BY <2>1 DEF Successes
<1>2. \A a, b \in Patched : a = b
  BY <1>1 DEF CodingStory, OneSuccess
<1> SUFFICES Cardinality(Patched) <= 1
  OBVIOUS
<1> HIDE DEF Patched
<1>3. CASE Patched = {}
  BY <1>3, FS_EmptySet
<1>4. CASE Patched # {}
  <2>1. PICK a : Patched = {a}
    BY <1>2, <1>4
  <2>2. Cardinality({a}) = 1
    BY FS_Singleton
  <2>3. QED
    BY <2>1, <2>2
<1>5. QED
  BY <1>3, <1>4

\* As long as all heartbeats are on time the agent is never at work on a task
\* that has a success, and a task gets at most one patch, however often it is
\* leased and whoever dies.
THEOREM OneRunHolds == CodingSpec => []OneRunOnTime
<1>1. RunnerTypeOK /\ OwnTypeOK /\ QueueInv /\ RunnerInv /\ CodingStory =>
        NoReinvocation
  <2> SUFFICES ASSUME RunnerTypeOK, OwnTypeOK, QueueInv, RunnerInv, CodingStory,
                      ~overdue, NEW w \in Runner, AgentRuns(w),
                      NEW a \in Attempts(run[w].job)
               PROVE  /\ RunsOf(w)[a].archive # "completed"
                      /\ RunsOf(w)[a].ended # "completed"
    BY DEF NoReinvocation
  <2>1. PICK j : j = run[w].job
    OBVIOUS
  <2>2. run[w].pc = "working" /\ hand[w].step = "agent"
    BY DEF AgentRuns, Handling
  <2>3. j \in Job /\ RunsOf(w) = runs[j] /\ SuccessAsRead(w)
    BY <2>1, <2>2, AtWork
  <2>4. runs[j][a].archive # "completed"
    BY <2>1, <2>2, <2>3 DEF SuccessAsRead, Successes
  <2>5. runs[j][a].ended # "completed"
    BY <2>1, <2>3, <2>4, TaskInOrder DEF InOrder
  <2>6. QED
    BY <2>3, <2>4, <2>5
<1>2. OwnTypeOK /\ CodingStory => (~overdue => OnePatchPerTask)
  BY OnePatch
<1>3. QED
  BY <1>1, <1>2, CodingInvariant, PTL DEF OneRunOnTime

(***************************************************************************)
(* A run of the worker                                                     *)
(***************************************************************************)
-----------------------------------------------------------------------------
(* The supervisor of a command *)

\* A command that starts has put nothing out.
LEMMA NoCommandSound ==
  /\ NoCommand \in Command /\ NoCommand.step = "none"
  /\ NoCommand.main = "gone" /\ NoCommand.rest = "gone"
BY SupervisorAssumption DEF NoCommand, Command

\* A worker that starts, likewise.
LEMMA StartedSound ==
  ASSUME NEW owned \in BOOLEAN, cmd' = Started(owned)
  PROVE  cmd' \in Command /\ SupervisorInv' /\ cmd'.owned = owned
<1>1. cmd' = [step |-> "loop", owned |-> owned, main |-> "open", rest |-> "gone",
              written |-> 0, piped |-> 0, captured |-> 0, late |-> FALSE,
              timedOut |-> FALSE, limited |-> FALSE, ok |-> FALSE]
  BY DEF Started, NoCommand
<1>2. /\ cmd' \in Command /\ cmd'.step = "loop" /\ cmd'.owned = owned
      /\ cmd'.written = 0 /\ cmd'.piped = 0 /\ cmd'.captured = 0
  BY <1>1, SupervisorAssumption DEF Command
<1> QED
  BY <1>2 DEF SupervisorInv, NoOutputInvented, EndsInOrder, GroupStopped, Returned

\* What the command does: it writes into the pipe as long as somebody holds it.
LEMMA CommandStepSound ==
  ASSUME cmd \in Command, SupervisorInv, CommandStep
  PROVE  /\ cmd' \in Command /\ SupervisorInv'
         /\ cmd'.step = cmd.step /\ cmd'.owned = cmd.owned /\ Alive
<1> DEFINE Kept == /\ cmd'.step = cmd.step /\ cmd'.owned = cmd.owned
                   /\ cmd'.captured = cmd.captured /\ cmd'.timedOut = cmd.timedOut
                   /\ cmd'.limited = cmd.limited
<1>1. CASE Outputs
  <2>0. /\ cmd.written \in 0 .. MaxOutput /\ cmd.piped \in 0 .. MaxOutput
        /\ cmd.written < MaxOutput /\ cmd.piped <= cmd.written
    BY <1>1 DEF Outputs, Command, SupervisorInv, NoOutputInvented
  <2>a. cmd.written + 1 \in 0 .. MaxOutput /\ cmd.piped + 1 \in 0 .. MaxOutput
    BY <2>0, SupervisorAssumption
  <2>b. cmd' = [cmd EXCEPT !.written = cmd.written + 1, !.piped = cmd.piped + 1]
    BY <1>1 DEF Outputs
  <2>1. cmd' \in Command
    BY <2>a, <2>b DEF Command
  <2>2. /\ Kept /\ cmd'.main = cmd.main /\ cmd'.rest = cmd.rest
        /\ cmd'.written = cmd.written + 1 /\ cmd'.piped = cmd.piped + 1
    BY <1>1 DEF Outputs, Command
  <2>3. HoldsPipe /\ Alive
    BY <1>1 DEF Outputs, HoldsPipe, Alive
  <2> QED
    BY <2>1, <2>2, <2>3, SupervisorAssumption
       DEF Command, SupervisorInv, NoOutputInvented, EndsInOrder, GroupStopped, Returned,
           HoldsPipe, Alive
<1>2. ASSUME Spawns \/ ClosesOutput \/ Exits
      PROVE  /\ cmd' \in Command /\ SupervisorInv' /\ Alive
             /\ cmd'.step = cmd.step /\ cmd'.owned = cmd.owned
  <2>1. cmd' \in Command
    <3>1. CASE Spawns
      BY <3>1 DEF Spawns, Command
    <3>2. CASE ClosesOutput
      BY <3>2 DEF ClosesOutput, Command
    <3>3. CASE Exits
      BY <3>3 DEF Exits, Command
    <3> QED
      BY <1>2, <3>1, <3>2, <3>3
  <2>2. Kept /\ cmd'.written = cmd.written /\ cmd'.piped = cmd.piped
    BY <1>2 DEF Spawns, ClosesOutput, Exits, Command
  <2>3. Alive /\ (HoldsPipe' => HoldsPipe)
    BY <1>2 DEF Spawns, ClosesOutput, Exits, Command, HoldsPipe, Alive
  <2> QED
    BY <2>1, <2>2, <2>3
       DEF SupervisorInv, NoOutputInvented, EndsInOrder, GroupStopped, Returned
<1> QED
  BY <1>1, <1>2 DEF CommandStep

\* What the supervisor does: it moves output, and decides how the command ends.
LEMMA SupervisorStepSound ==
  ASSUME cmd \in Command, SupervisorInv, SupervisorStep \/ Deadline
  PROVE  /\ cmd' \in Command /\ SupervisorInv' /\ cmd'.owned = cmd.owned
         /\ Alive' => Alive
<1> DEFINE Kept == /\ cmd'.owned = cmd.owned /\ cmd'.written = cmd.written
                   /\ cmd'.ok = cmd.ok
           GroupStays == /\ cmd'.main = cmd.main /\ cmd'.rest = cmd.rest
           Output == cmd'.piped = cmd.piped /\ cmd'.captured = cmd.captured
                       /\ cmd'.limited = cmd.limited
<1> DEFINE Goal == /\ cmd' \in Command /\ SupervisorInv' /\ cmd'.owned = cmd.owned
                   /\ Alive' => Alive
<1>1. CASE Read
  <2> DEFINE full == cmd.captured = OutputCap
  <2>1. /\ cmd.piped \in Nat /\ cmd.piped > 0 /\ cmd.written \in 0 .. MaxOutput
        /\ cmd.piped \in 0 .. MaxOutput /\ cmd.captured \in 0 .. OutputCap
        /\ cmd.step \in {"loop", "drain"}
    BY <1>1, SupervisorAssumption DEF Read, Command
  <2>a. cmd.piped - 1 \in 0 .. MaxOutput
    BY <2>1, SupervisorAssumption
  <2>b. ~ full => cmd.captured + 1 \in 0 .. OutputCap
    BY <2>1, SupervisorAssumption
  <2>2. CASE full
    <3>1. cmd' = [cmd EXCEPT !.piped = cmd.piped - 1, !.limited = TRUE,
                             !.step = IF cmd.step = "loop" THEN "kill" ELSE cmd.step]
      <4>1. Consumed = [cmd EXCEPT !.piped = cmd.piped - 1, !.limited = TRUE]
        BY <2>2 DEF Consumed
      <4>2. Consumed.limited = TRUE /\ Consumed.step = cmd.step
        BY <4>1 DEF Command
      <4> QED
        BY <1>1, <4>1, <4>2 DEF Read, Command
    <3>2. cmd' \in Command
      BY <2>a, <3>1 DEF Command
    <3>3. /\ Kept /\ GroupStays /\ cmd'.piped = cmd.piped - 1 /\ cmd'.captured = cmd.captured
          /\ cmd'.limited = TRUE /\ cmd'.step \in {"kill", "drain"}
          /\ cmd'.step = "drain" => cmd.step = "drain"
      BY <2>1, <3>1 DEF Command
    <3>7. NoOutputInvented'
      BY <2>1, <3>2, <3>3, SupervisorAssumption DEF SupervisorInv, NoOutputInvented
    <3>8. EndsInOrder' /\ GroupStopped'
      BY <2>1, <3>2, <3>3 DEF SupervisorInv, EndsInOrder, GroupStopped, Returned, HoldsPipe, Alive
    <3> QED
      BY <2>1, <3>2, <3>3, <3>7, <3>8 DEF SupervisorInv, Alive
  <2>3. CASE ~ full
    <3>1. CASE cmd.step = "loop" /\ cmd.limited
      <4>1. cmd' = [cmd EXCEPT !.piped = cmd.piped - 1, !.captured = cmd.captured + 1,
                               !.step = "kill"]
        <5>1. Consumed = [cmd EXCEPT !.piped = cmd.piped - 1, !.captured = cmd.captured + 1]
          BY <2>3 DEF Consumed
        <5>2. Consumed.limited = cmd.limited /\ Consumed.step = cmd.step
          BY <5>1 DEF Command
        <5> QED
          BY <1>1, <5>1, <5>2, <3>1 DEF Read, Command
      <4>2. cmd' \in Command
        BY <2>a, <2>b, <2>3, <4>1 DEF Command
      <4>3. /\ Kept /\ GroupStays /\ cmd'.piped = cmd.piped - 1 /\ cmd'.limited
            /\ cmd'.step = "kill"
        BY <3>1, <4>1 DEF Command
      <4>7. NoOutputInvented'
        BY <2>1, <4>2, <4>3, SupervisorAssumption DEF SupervisorInv, NoOutputInvented
      <4>8. EndsInOrder' /\ GroupStopped'
        BY <2>1, <4>2, <4>3 DEF SupervisorInv, EndsInOrder, GroupStopped, Returned, HoldsPipe, Alive
      <4> QED
        BY <2>1, <4>2, <4>3, <4>7, <4>8 DEF SupervisorInv, Alive
    <3>2. CASE ~ (cmd.step = "loop" /\ cmd.limited)
      <4>1. cmd' = [cmd EXCEPT !.piped = cmd.piped - 1, !.captured = cmd.captured + 1]
        <5>1. Consumed = [cmd EXCEPT !.piped = cmd.piped - 1, !.captured = cmd.captured + 1]
          BY <2>3 DEF Consumed
        <5>2. Consumed.limited = cmd.limited /\ Consumed.step = cmd.step
          BY <5>1 DEF Command
        <5>3. cmd' = [Consumed EXCEPT !.step = Consumed.step]
          BY <1>1, <5>2, <3>2 DEF Read
        <5> QED
          BY <5>1, <5>3 DEF Command
      <4>2. cmd' \in Command
        BY <2>a, <2>b, <2>3, <4>1 DEF Command
      <4>3. /\ Kept /\ GroupStays /\ cmd'.piped = cmd.piped - 1
            /\ cmd'.captured = cmd.captured + 1 /\ cmd'.limited = cmd.limited
            /\ cmd'.step = cmd.step /\ cmd'.timedOut = cmd.timedOut
        BY <4>1 DEF Command
      <4>7. NoOutputInvented'
        BY <2>1, <4>2, <4>3, SupervisorAssumption DEF SupervisorInv, NoOutputInvented
      <4>8. EndsInOrder' /\ GroupStopped'
        BY <2>1, <4>2, <4>3 DEF SupervisorInv, EndsInOrder, GroupStopped, Returned, HoldsPipe, Alive
      <4> QED
        BY <2>1, <4>2, <4>3, <4>7, <4>8 DEF SupervisorInv, Alive
    <3> QED
      BY <3>1, <3>2
  <2> QED
    BY <2>2, <2>3
<1>2. ASSUME EndOfFile \/ Deadline \/ TimesOut \/ Reap \/ DrainIsOver
      PROVE  Goal
  <2>1. cmd' \in Command /\ Kept /\ GroupStays /\ Output
    BY <1>2 DEF EndOfFile, Deadline, TimesOut, Reap, DrainIsOver, Command
  <2>2. NoOutputInvented'
    BY <2>1 DEF SupervisorInv, NoOutputInvented
  <2>3. EndsInOrder' /\ GroupStopped'
    <3>1. CASE EndOfFile
      <4>1. /\ cmd'.timedOut = cmd.timedOut /\ cmd.piped = 0 /\ ~ HoldsPipe
            /\ \/ cmd.step = "loop" /\ cmd'.step = "wait"
               \/ cmd.step = "drain" /\ cmd'.step = "done"
        BY <3>1 DEF EndOfFile, Command
      <4> QED
        BY <2>1, <4>1 DEF SupervisorInv, EndsInOrder, GroupStopped, Returned, HoldsPipe, Alive
    <3>2. CASE Deadline
      <4>1. cmd'.timedOut = cmd.timedOut /\ cmd'.step = cmd.step
        BY <3>2 DEF Deadline, Command
      <4> QED
        BY <2>1, <4>1 DEF SupervisorInv, EndsInOrder, GroupStopped, Returned, HoldsPipe, Alive
    <3>3. CASE TimesOut
      <4>1. cmd'.timedOut = TRUE /\ cmd'.step = "kill"
        BY <3>3 DEF TimesOut, Command
      <4> QED
        BY <2>1, <4>1 DEF SupervisorInv, EndsInOrder, GroupStopped, Returned, HoldsPipe, Alive
    <3>4. CASE Reap
      <4>1. /\ cmd'.timedOut = cmd.timedOut /\ cmd.step = "wait"
            /\ IF cmd.owned THEN cmd'.step = "group" ELSE cmd'.step = "done"
        BY <3>4 DEF Reap, Command
      <4> QED
        BY <2>1, <4>1 DEF SupervisorInv, EndsInOrder, GroupStopped, Returned, HoldsPipe, Alive
    <3>5. CASE DrainIsOver
      <4>1. /\ cmd'.timedOut = cmd.timedOut /\ cmd.step = "drain" /\ cmd'.step = "done"
        BY <3>5 DEF DrainIsOver, Command
      <4> QED
        BY <2>1, <4>1 DEF SupervisorInv, EndsInOrder, GroupStopped, Returned, HoldsPipe, Alive
    <3> QED
      BY <1>2, <3>1, <3>2, <3>3, <3>4, <3>5
  <2> QED
    BY <2>1, <2>2, <2>3 DEF SupervisorInv, Alive
<1>3. CASE StopGroup
  <2>1. cmd' = [cmd EXCEPT !.main = "gone", !.rest = "gone",
                           !.step = IF cmd.step = "kill" THEN "drain" ELSE "done"]
    BY <1>3 DEF StopGroup
  <2>2. cmd' \in Command
    BY <2>1 DEF Command
  <2>3. /\ Kept /\ Output /\ cmd'.main = "gone" /\ cmd'.rest = "gone"
        /\ cmd'.timedOut = cmd.timedOut
        /\ \/ cmd.step = "kill" /\ cmd'.step = "drain"
           \/ cmd.step = "group" /\ cmd'.step = "done"
    BY <1>3, <2>1 DEF StopGroup, Command
  <2> QED
    BY <2>2, <2>3
       DEF SupervisorInv, NoOutputInvented, EndsInOrder, GroupStopped, Returned, HoldsPipe,
           Alive
<1> QED
  BY <1>1, <1>2, <1>3 DEF SupervisorStep

-----------------------------------------------------------------------------
(* The work of the process, field by field *)

\* What a step of a run leaves alone: which run it is, its looks at the source, the files
\* it has, what it hands on, and its end.
SameRun == /\ work'.isolated = work.isolated /\ work'.probe = work.probe
           /\ work'.name = work.name /\ work'.bound = work.bound
SameAudits == work'.seen = work.seen /\ work'.now = work.now
SameFiles == /\ work'.tree = work.tree /\ work'.committed = work.committed
             /\ work'.spoiled = work.spoiled
SameHand == work'.exported = work.exported /\ work'.patch = work.patch
SameEnd == work'.failed = work.failed /\ work'.outcome = work.outcome

SameWork == /\ SameRun /\ SameAudits /\ SameFiles /\ SameHand /\ SameEnd
            /\ work'.owns = work.owns

\* A step that only goes on keeps all the rest.
LEMMA GoesToFields ==
  ASSUME NEW s \in RunSteps, work \in WorkRecord, GoesTo(s)
  PROVE  work' \in WorkRecord /\ work'.step = s /\ SameWork /\ work'.error = work.error
BY DEF WorkRecord, GoesTo, SameWork, SameRun, SameAudits, SameFiles, SameHand, SameEnd

\* So does one that raises, but for the error.
LEMMA RaisesFields ==
  ASSUME NEW s \in RunSteps, work \in WorkRecord,
         work' = [work EXCEPT !.error = TRUE, !.step = s]
  PROVE  work' \in WorkRecord /\ work'.step = s /\ SameWork /\ work'.error = TRUE
BY DEF WorkRecord, SameWork, SameRun, SameAudits, SameFiles, SameHand, SameEnd

\* A run that starts has nothing yet.
StartsAs(n, isolated, probe, v, s) ==
  \/ work' = [NewWork(n, isolated, probe, v) EXCEPT !.step = s]
  \/ s = "idle" /\ work' = NewWork(n, isolated, probe, v)

\* What a fresh attempt has of its own.
LEMMA NewWorkFields ==
  \A n \in Name, isolated \in BOOLEAN, probe \in BOOLEAN, v \in Version, s \in RunSteps :
    StartsAs(n, isolated, probe, v, s) =>
      /\ work' \in WorkRecord /\ work'.step = s
      /\ work'.isolated = isolated /\ work'.probe = probe /\ work'.name = n
      /\ work'.bound = v /\ work'.owns = FALSE
      /\ work'.seen = NoAudit /\ work'.now = NoAudit
      /\ work'.committed = FALSE /\ work'.spoiled = FALSE
      /\ work'.exported = Nothing /\ work'.patch = Nothing
      /\ work'.failed = FALSE /\ work'.error = FALSE /\ work'.outcome = "none"
<1> TAKE n \in Name, isolated \in BOOLEAN, probe \in BOOLEAN, v \in Version, s \in RunSteps
<1> DEFINE w == [step |-> s, isolated |-> isolated, probe |-> probe, name |-> n, bound |-> v,
                 owns |-> FALSE, seen |-> NoAudit, now |-> NoAudit, tree |-> 0,
                 committed |-> FALSE, spoiled |-> FALSE, exported |-> Nothing,
                 patch |-> Nothing, failed |-> FALSE, error |-> FALSE, outcome |-> "none"]
<1>1. ASSUME StartsAs(n, isolated, probe, v, s)
      PROVE  work' = w
  BY <1>1 DEF StartsAs, NewWork
<1>2. NoAudit \in Audit
  BY DEF NoAudit, Audit, Unread
<1>3. 0 \in Change
  BY WorkerRunAssumption DEF Change
<1>4. w \in WorkRecord
  BY <1>2, <1>3 DEF WorkRecord
<1> SUFFICES ASSUME StartsAs(n, isolated, probe, v, s)
             PROVE  /\ work' \in WorkRecord /\ work'.step = s
                    /\ work'.isolated = isolated /\ work'.probe = probe /\ work'.name = n
                    /\ work'.bound = v /\ work'.owns = FALSE
                    /\ work'.seen = NoAudit /\ work'.now = NoAudit
                    /\ work'.committed = FALSE /\ work'.spoiled = FALSE
                    /\ work'.exported = Nothing /\ work'.patch = Nothing
                    /\ work'.failed = FALSE /\ work'.error = FALSE /\ work'.outcome = "none"
  OBVIOUS
<1>5. work' \in WorkRecord
  BY <1>1, <1>4
<1>6. work' = w
  BY <1>1
<1> QED
  BY <1>5, <1>6

-----------------------------------------------------------------------------
(* The steps of the broker *)

WorkerHolds == WorkerTypeOK /\ WorkerStory

\* Nothing that is said of a command changes while it does not.
LEMMA CommandStill ==
  ASSUME UNCHANGED cmd
  PROVE  /\ cmd' = cmd /\ SupervisorInv' = SupervisorInv /\ Alive' = Alive
BY DEF SupervisorInv, NoOutputInvented, EndsInOrder, GroupStopped, Returned, HoldsPipe, Alive

\* A command that is not there says nothing.
LEMMA NoCommandInv ==
  ASSUME cmd' = NoCommand
  PROVE  cmd' \in Command /\ SupervisorInv' /\ ~ Alive'
<1>1. /\ cmd'.step = "none" /\ cmd'.piped = 0 /\ cmd'.written = 0 /\ cmd'.captured = 0
      /\ cmd'.main = "gone" /\ cmd'.rest = "gone"
  BY DEF NoCommand
<1> QED
  BY <1>1, NoCommandSound
     DEF SupervisorInv, NoOutputInvented, EndsInOrder, GroupStopped, Returned, Alive

\* The policy is verified when the sandbox is about to be left.
LEMMA VerifyPolicyHolds == WorkerHolds /\ VerifyPolicy => WorkerHolds'
<1> SUFFICES ASSUME WorkerHolds, VerifyPolicy PROVE WorkerHolds'
  OBVIOUS
<1>1. /\ WorkerTypeOK /\ WorkerStory /\ At("policy") /\ work \in WorkRecord
      /\ UNCHANGED <<sandboxRest, cmd, boxes, guest, temp, historyVars>>
      /\ faults' \in 0 .. MaxFaults
  BY WorkerRunAssumption DEF WorkerHolds, VerifyPolicy, WorkerTypeOK, NoFault, Fault
<1>2. /\ work' \in WorkRecord /\ work'.step = "leave" /\ SameWork
      /\ work'.error = work.error \/ work'.error = TRUE
  <2>1. GoesTo("leave") \/ BrokerRaises
    BY DEF VerifyPolicy
  <2> QED
    BY <1>1, <2>1, GoesToFields, RaisesFields DEF BrokerRaises, Goes, RunSteps
<1>3. WorkerTypeOK'
  BY <1>1, <1>2 DEF WorkerTypeOK, sandboxRest, hostVars, countVars, historyVars
<1>4. SupervisorInv' /\ Alive' = Alive /\ cmd' = cmd
  BY <1>1, CommandStill DEF WorkerStory
<1>5. WorkerStory'
  BY <1>1, <1>2, <1>4
     DEF WorkerStory, RunsInOrder, WorkerSupervised, BoxIsOwn, BoxesReported, DirectoriesInUse,
         LastAudit, SourceAsFound, ChangesHandedOn, BoxIsGone, CloseIsTrue, ResultIsTrue,
         ResultHolds, FailedExportsNothing, At, Early, Holding, Late, Succeeded, SameWork,
         SameRun, SameAudits, SameFiles, SameHand, SameEnd, sandboxRest, hostVars, countVars,
         historyVars
<1> QED
  BY <1>3, <1>5 DEF WorkerHolds

\* What the broker hands back keeps everything but its place.
LEMMA HandedFields ==
  ASSUME work \in WorkRecord, Goes(Handed(work))
  PROVE  /\ work' \in WorkRecord /\ SameWork /\ work'.error = work.error
         /\ work'.step = IF work.probe THEN "idle" ELSE IF work.error THEN "close"
                         ELSE IF work.failed THEN "inspect" ELSE "import"
<1> DEFINE s == IF work.probe THEN "idle" ELSE IF work.error THEN "close"
                ELSE IF work.failed THEN "inspect" ELSE "import"
<1>1. GoesTo(s) /\ s \in RunSteps
  BY DEF Goes, GoesTo, Handed, RunSteps
<1> QED
  BY <1>1, GoesToFields

\* An error that it hands back ends the run.
LEMMA HandedErrorFields ==
  work \in WorkRecord /\ Goes(Handed([work EXCEPT !.error = TRUE])) =>
    /\ work' \in WorkRecord /\ SameWork /\ work'.error = TRUE
    /\ work'.step = IF work.probe THEN "idle" ELSE "close"
<1> DEFINE w == [work EXCEPT !.error = TRUE]
<1>1. work \in WorkRecord => w.probe = work.probe /\ w.error = TRUE
  BY DEF WorkRecord
<1>2. Goes(Handed(w)) /\ w.error = TRUE =>
        work' = [w EXCEPT !.step = IF w.probe THEN "idle" ELSE "close"]
  BY DEF Goes, Handed
<1>3. work \in WorkRecord /\ work' = [w EXCEPT !.step = "idle"] =>
        work' \in WorkRecord /\ work'.step = "idle" /\ SameWork /\ work'.error = TRUE
  BY RaisesFields DEF RunSteps
<1>4. work \in WorkRecord /\ work' = [w EXCEPT !.step = "close"] =>
        work' \in WorkRecord /\ work'.step = "close" /\ SameWork /\ work'.error = TRUE
  BY RaisesFields DEF RunSteps
<1> HIDE DEF w
<1>5. ASSUME work \in WorkRecord, Goes(Handed(w))
      PROVE  /\ work' \in WorkRecord /\ SameWork /\ work'.error = TRUE
             /\ work'.step = IF work.probe THEN "idle" ELSE "close"
  BY <1>1, <1>2, <1>3, <1>4, <1>5
<1> QED
  BY <1>5 DEF w

\* A probe starts from nothing.
LEMMA BindHolds ==
  ASSUME NEW n \in Name
  PROVE  WorkerHolds /\ Bind(n) => WorkerHolds'
<1> SUFFICES ASSUME WorkerHolds, Bind(n) PROVE WorkerHolds'
  OBVIOUS
<1>1. /\ WorkerTypeOK /\ WorkerStory /\ work \in WorkRecord
      /\ At("idle") /\ robbed' = FALSE
      /\ UNCHANGED <<sandboxRest, cmd, boxes, guest, temp, faults, unclean, touched>>
  BY WorkerRunAssumption
     DEF WorkerHolds, WorkerTypeOK, NoFault, Fault, Bind
<1>2. /\ work' \in WorkRecord /\ work'.step = "copy" /\ work'.isolated /\ work'.probe
      /\ work'.name = n /\ work'.owns = FALSE /\ work'.seen = NoAudit
      /\ work'.committed = FALSE /\ work'.exported = Nothing /\ work'.patch = Nothing
      /\ work'.failed = FALSE /\ work'.error = FALSE /\ work'.outcome = "none"
  <2>1. StartsAs(n, TRUE, TRUE, tool, "copy") /\ tool \in Version
    BY DEF Bind, Goes, StartsAs, WorkerHolds, WorkerTypeOK
  <2>2. TRUE \in BOOLEAN /\ "copy" \in RunSteps
    BY DEF RunSteps
  <2> QED
    BY <2>1, <2>2, NewWorkFields
<1>3. WorkerTypeOK'
  BY <1>1, <1>2
     DEF WorkerTypeOK, sandboxRest, adapterRest, hostVars, countVars, historyVars
<1>4. SupervisorInv' /\ Alive' = Alive /\ cmd' = cmd
  BY <1>1, CommandStill DEF WorkerStory, adapterRest
<1>5. WorkerStory'
  BY <1>1, <1>2, <1>4
     DEF WorkerStory, RunsInOrder, WorkerSupervised, BoxIsOwn, BoxesReported, DirectoriesInUse,
         LastAudit, SourceAsFound, ChangesHandedOn, BoxIsGone, CloseIsTrue, ResultIsTrue,
         ResultHolds, FailedExportsNothing, At, Early, Holding, Late, Succeeded, SameWork,
         SameRun, SameAudits, SameFiles, SameHand, SameEnd, sandboxRest, adapterRest, hostVars,
         countVars, historyVars
<1> QED
  BY <1>3, <1>5 DEF WorkerHolds

\* Before there is a sandbox, an error ends the run.
LEMMA RequireIdentityHolds ==
  WorkerHolds /\ RequireIdentity => WorkerHolds'
<1> SUFFICES ASSUME WorkerHolds, RequireIdentity PROVE WorkerHolds'
  OBVIOUS
<1>1. /\ WorkerTypeOK /\ WorkerStory /\ work \in WorkRecord
      /\ At("identity")
      /\ UNCHANGED <<sandboxRest, cmd, boxes, guest, temp, historyVars>>
      /\ faults' \in 0 .. MaxFaults
  BY WorkerRunAssumption
     DEF WorkerHolds, WorkerTypeOK, NoFault, Fault, RequireIdentity
<1>2. /\ work' \in WorkRecord /\ SameWork
      /\ \/ work'.step = "copy" /\ work'.error = work.error
         \/ work'.step = "close" /\ work'.error = TRUE
  <2>1. GoesTo("copy") \/ CloseRun([work EXCEPT !.error = TRUE])
    BY DEF RequireIdentity
  <2> QED
    BY <1>1, <2>1, GoesToFields, RaisesFields DEF CloseRun, Goes, RunSteps
<1>3. WorkerTypeOK'
  BY <1>1, <1>2
     DEF WorkerTypeOK, sandboxRest, adapterRest, hostVars, countVars, historyVars
<1>4. SupervisorInv' /\ Alive' = Alive /\ cmd' = cmd
  BY <1>1, CommandStill DEF WorkerStory, adapterRest
<1>5. WorkerStory'
  BY <1>1, <1>2, <1>4
     DEF WorkerStory, RunsInOrder, WorkerSupervised, BoxIsOwn, BoxesReported, DirectoriesInUse,
         LastAudit, SourceAsFound, ChangesHandedOn, BoxIsGone, CloseIsTrue, ResultIsTrue,
         ResultHolds, FailedExportsNothing, At, Early, Holding, Late, Succeeded, SameWork,
         SameRun, SameAudits, SameFiles, SameHand, SameEnd, sandboxRest, adapterRest, hostVars,
         countVars, historyVars
<1> QED
  BY <1>3, <1>5 DEF WorkerHolds

\* The copy is in the carrier.
LEMMA CopyCarrierHolds ==
  WorkerHolds /\ CopyCarrier => WorkerHolds'
<1> SUFFICES ASSUME WorkerHolds, CopyCarrier PROVE WorkerHolds'
  OBVIOUS
<1>1. /\ WorkerTypeOK /\ WorkerStory /\ work \in WorkRecord
      /\ At("copy")
      /\ UNCHANGED <<sandboxRest, cmd, boxes, guest, faults, historyVars>>
      /\ temp' = temp \cup {"carrier"}
  BY WorkerRunAssumption
     DEF WorkerHolds, WorkerTypeOK, NoFault, Fault, CopyCarrier
<1>2. /\ work' \in WorkRecord /\ work'.step = "name" /\ SameWork
      /\ work'.error = work.error
  BY <1>1, GoesToFields DEF CopyCarrier, RunSteps
<1>3. WorkerTypeOK'
  BY <1>1, <1>2
     DEF WorkerTypeOK, sandboxRest, adapterRest, hostVars, countVars, historyVars
<1>4. SupervisorInv' /\ Alive' = Alive /\ cmd' = cmd
  BY <1>1, CommandStill DEF WorkerStory, adapterRest
<1>5. WorkerStory'
  BY <1>1, <1>2, <1>4
     DEF WorkerStory, RunsInOrder, WorkerSupervised, BoxIsOwn, BoxesReported, DirectoriesInUse,
         LastAudit, SourceAsFound, ChangesHandedOn, BoxIsGone, CloseIsTrue, ResultIsTrue,
         ResultHolds, FailedExportsNothing, At, Early, Holding, Late, Succeeded, SameWork,
         SameRun, SameAudits, SameFiles, SameHand, SameEnd, sandboxRest, adapterRest, hostVars,
         countVars, historyVars
<1> QED
  BY <1>3, <1>5 DEF WorkerHolds

\* A name that is taken is not used.
LEMMA RequireNameHolds ==
  WorkerHolds /\ RequireName => WorkerHolds'
<1> SUFFICES ASSUME WorkerHolds, RequireName PROVE WorkerHolds'
  OBVIOUS
<1>1. /\ WorkerTypeOK /\ WorkerStory /\ work \in WorkRecord
      /\ At("name")
      /\ UNCHANGED <<sandboxRest, cmd, boxes, guest, temp, historyVars>>
      /\ faults' \in 0 .. MaxFaults
  BY WorkerRunAssumption
     DEF WorkerHolds, WorkerTypeOK, NoFault, Fault, RequireName
<1>2. /\ work' \in WorkRecord /\ SameWork
      /\ \/ work'.step = "create" /\ work'.error = work.error
         \/ work'.step = "leave" /\ work'.error = TRUE
  <2>1. GoesTo("create") \/ BrokerRaises
    BY DEF RequireName
  <2> QED
    BY <1>1, <2>1, GoesToFields, RaisesFields DEF BrokerRaises, Goes, RunSteps
<1>3. WorkerTypeOK'
  BY <1>1, <1>2
     DEF WorkerTypeOK, sandboxRest, adapterRest, hostVars, countVars, historyVars
<1>4. SupervisorInv' /\ Alive' = Alive /\ cmd' = cmd
  BY <1>1, CommandStill DEF WorkerStory, adapterRest
<1>5. WorkerStory'
  BY <1>1, <1>2, <1>4
     DEF WorkerStory, RunsInOrder, WorkerSupervised, BoxIsOwn, BoxesReported, DirectoriesInUse,
         LastAudit, SourceAsFound, ChangesHandedOn, BoxIsGone, CloseIsTrue, ResultIsTrue,
         ResultHolds, FailedExportsNothing, At, Early, Holding, Late, Succeeded, SameWork,
         SameRun, SameAudits, SameFiles, SameHand, SameEnd, sandboxRest, adapterRest, hostVars,
         countVars, historyVars
<1> QED
  BY <1>3, <1>5 DEF WorkerHolds

\* The rules of the sandbox are allowed, or it is left.
LEMMA AllowHolds ==
  WorkerHolds /\ Allow => WorkerHolds'
<1> SUFFICES ASSUME WorkerHolds, Allow PROVE WorkerHolds'
  OBVIOUS
<1>1. /\ WorkerTypeOK /\ WorkerStory /\ work \in WorkRecord
      /\ At("allow")
      /\ UNCHANGED <<sandboxRest, cmd, boxes, guest, temp, historyVars>>
      /\ faults' \in 0 .. MaxFaults
  BY WorkerRunAssumption
     DEF WorkerHolds, WorkerTypeOK, NoFault, Fault, Allow
<1>2. /\ work' \in WorkRecord /\ SameWork
      /\ \/ work'.step = "exec" /\ work'.error = work.error
         \/ work'.step = "leave" /\ work'.error = TRUE
  <2>1. GoesTo("exec") \/ BrokerRaises
    BY DEF Allow
  <2> QED
    BY <1>1, <2>1, GoesToFields, RaisesFields DEF BrokerRaises, Goes, RunSteps
<1>3. WorkerTypeOK'
  BY <1>1, <1>2
     DEF WorkerTypeOK, sandboxRest, adapterRest, hostVars, countVars, historyVars
<1>4. SupervisorInv' /\ Alive' = Alive /\ cmd' = cmd
  BY <1>1, CommandStill DEF WorkerStory, adapterRest
<1>5. WorkerStory'
  BY <1>1, <1>2, <1>4
     DEF WorkerStory, RunsInOrder, WorkerSupervised, BoxIsOwn, BoxesReported, DirectoriesInUse,
         LastAudit, SourceAsFound, ChangesHandedOn, BoxIsGone, CloseIsTrue, ResultIsTrue,
         ResultHolds, FailedExportsNothing, At, Early, Holding, Late, Succeeded, SameWork,
         SameRun, SameAudits, SameFiles, SameHand, SameEnd, sandboxRest, adapterRest, hostVars,
         countVars, historyVars
<1> QED
  BY <1>3, <1>5 DEF WorkerHolds

\* The files of the sandbox come out of it, or it is left.
LEMMA ExportHolds ==
  WorkerHolds /\ Export => WorkerHolds'
<1> SUFFICES ASSUME WorkerHolds, Export PROVE WorkerHolds'
  OBVIOUS
<1>1. /\ WorkerTypeOK /\ WorkerStory /\ work \in WorkRecord
      /\ At("export")
      /\ UNCHANGED <<sandboxRest, cmd, boxes, guest, temp, historyVars>>
      /\ faults' \in 0 .. MaxFaults
      /\ guest \in Change
  BY WorkerRunAssumption
     DEF WorkerHolds, WorkerTypeOK, NoFault, Fault, Export
<1>2. /\ work' \in WorkRecord /\ SameRun /\ SameAudits /\ SameFiles /\ SameEnd
      /\ work'.owns = work.owns /\ work'.patch = work.patch
      /\ \/ /\ work'.step = "policy" /\ work'.error = work.error
            /\ work'.exported = guest
         \/ /\ work'.step = "leave" /\ work'.error = TRUE
            /\ work'.exported = work.exported
  <2>1. CASE Goes([work EXCEPT !.step = "policy", !.exported = guest])
    BY <1>1, <2>1
       DEF Goes, WorkRecord, RunSteps, SameRun, SameAudits, SameFiles, SameEnd
  <2>2. CASE BrokerRaises
    BY <1>1, <2>2, RaisesFields DEF BrokerRaises, Goes, RunSteps, SameWork, SameHand
  <2> QED
    BY <2>1, <2>2 DEF Export
<1>a. guest # Nothing
  BY <1>1, WorkerRunAssumption DEF Change, Nothing
<1>3. WorkerTypeOK'
  BY <1>1, <1>2
     DEF WorkerTypeOK, sandboxRest, adapterRest, hostVars, countVars, historyVars
<1>4. SupervisorInv' /\ Alive' = Alive /\ cmd' = cmd
  BY <1>1, CommandStill DEF WorkerStory, adapterRest
<1>5. WorkerStory'
  BY <1>1, <1>2, <1>a, <1>4
     DEF WorkerStory, RunsInOrder, WorkerSupervised, BoxIsOwn, BoxesReported, DirectoriesInUse,
         LastAudit, SourceAsFound, ChangesHandedOn, BoxIsGone, CloseIsTrue, ResultIsTrue,
         ResultHolds, FailedExportsNothing, At, Early, Holding, Late, Succeeded, SameWork,
         SameRun, SameAudits, SameFiles, SameHand, SameEnd, sandboxRest, adapterRest, hostVars,
         countVars, historyVars
<1> QED
  BY <1>3, <1>5 DEF WorkerHolds

\* A run without a sandbox of its own has an error to hand back.
LEMMA LeaveHolds ==
  WorkerHolds /\ Leave => WorkerHolds'
<1> SUFFICES ASSUME WorkerHolds, Leave PROVE WorkerHolds'
  OBVIOUS
<1>1. /\ WorkerTypeOK /\ WorkerStory /\ work \in WorkRecord
      /\ At("leave")
      /\ UNCHANGED <<sandboxRest, cmd, boxes, guest, faults, historyVars>>
      /\ temp' = temp \ {"carrier"}
  BY WorkerRunAssumption
     DEF WorkerHolds, WorkerTypeOK, NoFault, Fault, Leave
<1>2. /\ work' \in WorkRecord /\ SameWork /\ work'.error = work.error
      /\ \/ work.owns /\ work'.step = "remove"
         \/ /\ ~ work.owns
            /\ work'.step = IF work.probe THEN "idle" ELSE IF work.error THEN "close"
                            ELSE IF work.failed THEN "inspect" ELSE "import"
  <2>1. \/ work.owns /\ GoesTo("remove")
        \/ ~ work.owns /\ Goes(Handed(work))
    BY DEF Leave, Goes, GoesTo
  <2> QED
    BY <1>1, <2>1, GoesToFields, HandedFields DEF RunSteps
<1>3. WorkerTypeOK'
  BY <1>1, <1>2
     DEF WorkerTypeOK, sandboxRest, adapterRest, hostVars, countVars, historyVars
<1>4. SupervisorInv' /\ Alive' = Alive /\ cmd' = cmd
  BY <1>1, CommandStill DEF WorkerStory, adapterRest
<1>5. WorkerStory'
  BY <1>1, <1>2, <1>4
     DEF WorkerStory, RunsInOrder, WorkerSupervised, BoxIsOwn, BoxesReported, DirectoriesInUse,
         LastAudit, SourceAsFound, ChangesHandedOn, BoxIsGone, CloseIsTrue, ResultIsTrue,
         ResultHolds, FailedExportsNothing, At, Early, Holding, Late, Succeeded, SameWork,
         SameRun, SameAudits, SameFiles, SameHand, SameEnd, sandboxRest, adapterRest, hostVars,
         countVars, historyVars
<1> QED
  BY <1>3, <1>5 DEF WorkerHolds

\* The tool is looked at again when the sandbox is gone.
LEMMA RecheckHolds ==
  WorkerHolds /\ Recheck => WorkerHolds'
<1> SUFFICES ASSUME WorkerHolds, Recheck PROVE WorkerHolds'
  OBVIOUS
<1>1. /\ WorkerTypeOK /\ WorkerStory /\ work \in WorkRecord
      /\ At("recheck")
      /\ UNCHANGED <<sandboxRest, cmd, boxes, guest, temp, historyVars>>
      /\ faults' \in 0 .. MaxFaults
  BY WorkerRunAssumption
     DEF WorkerHolds, WorkerTypeOK, NoFault, Fault, Recheck
<1>2. /\ work' \in WorkRecord /\ SameWork
      /\ \/ /\ work'.error = work.error
            /\ work'.step = IF work.probe THEN "idle" ELSE IF work.error THEN "close"
                            ELSE IF work.failed THEN "inspect" ELSE "import"
         \/ /\ work'.error = TRUE
            /\ work'.step = IF work.probe THEN "idle" ELSE "close"
  <2>1. Goes(Handed(work)) \/ Goes(Handed([work EXCEPT !.error = TRUE]))
    BY DEF Recheck
  <2> QED
    BY <1>1, <2>1, HandedFields, HandedErrorFields
<1>3. WorkerTypeOK'
  BY <1>1, <1>2
     DEF WorkerTypeOK, sandboxRest, adapterRest, hostVars, countVars, historyVars
<1>4. SupervisorInv' /\ Alive' = Alive /\ cmd' = cmd
  BY <1>1, CommandStill DEF WorkerStory, adapterRest
<1>5. WorkerStory'
  BY <1>1, <1>2, <1>4
     DEF WorkerStory, RunsInOrder, WorkerSupervised, BoxIsOwn, BoxesReported, DirectoriesInUse,
         LastAudit, SourceAsFound, ChangesHandedOn, BoxIsGone, CloseIsTrue, ResultIsTrue,
         ResultHolds, FailedExportsNothing, At, Early, Holding, Late, Succeeded, SameWork,
         SameRun, SameAudits, SameFiles, SameHand, SameEnd, sandboxRest, adapterRest, hostVars,
         countVars, historyVars
<1> QED
  BY <1>3, <1>5 DEF WorkerHolds

\* A sandbox that is made is the run's, or its name is reported.
LEMMA CreateHolds ==
  WorkerHolds /\ Create => WorkerHolds'
<1> SUFFICES ASSUME WorkerHolds, Create PROVE WorkerHolds'
  OBVIOUS
<1>1. /\ WorkerTypeOK /\ WorkerStory /\ work \in WorkRecord
      /\ At("create")
      /\ UNCHANGED <<sandboxRest, cmd, temp, touched, robbed>>
      /\ faults' \in 0 .. MaxFaults
      /\ guest' \in Change
      /\ boxes \in [Name -> {"none", "foreign", "ours"}]
      /\ work.name \in Name /\ unclean \subseteq Name
  BY WorkerRunAssumption
     DEF WorkerHolds, WorkerTypeOK, NoFault, Fault, Create, Change, WorkRecord
<1>2. /\ work' \in WorkRecord /\ SameRun /\ SameAudits /\ SameFiles /\ SameHand /\ SameEnd
      /\ \/ /\ work'.step = "allow" /\ work'.error = work.error /\ work'.owns = TRUE
            /\ boxes' = Made /\ unclean' = unclean
         \/ /\ work'.step = "leave" /\ work'.error = TRUE /\ work'.owns = work.owns
            /\ \/ boxes' = boxes /\ unclean' = unclean
               \/ boxes' = Made /\ unclean' = unclean \cup {work.name}
  <2>1. CASE /\ Goes([work EXCEPT !.step = "allow", !.owns = TRUE])
             /\ boxes' = Made /\ unclean' = unclean
    BY <1>1, <2>1
       DEF Goes, WorkRecord, RunSteps, SameRun, SameAudits, SameFiles, SameHand, SameEnd
  <2>2. CASE /\ BrokerRaises
             /\ \/ boxes' = boxes /\ unclean' = unclean
                \/ boxes' = Made /\ unclean' = unclean \cup {work.name}
    BY <1>1, <2>2, RaisesFields DEF BrokerRaises, Goes, RunSteps, SameWork
  <2> QED
    BY <2>1, <2>2 DEF Create
<1>a. Made \in [Name -> {"none", "foreign", "ours"}]
  BY <1>1 DEF Made
<1>b. \A m \in Name : Made[m] = "ours" => m = work.name \/ boxes[m] = "ours"
  BY <1>1 DEF Made
<1>c. Made[work.name] = "ours"
  BY <1>1 DEF Made
<1>3. WorkerTypeOK'
  BY <1>1, <1>2, <1>a
     DEF WorkerTypeOK, sandboxRest, adapterRest, hostVars, countVars, historyVars
<1>4. SupervisorInv' /\ Alive' = Alive /\ cmd' = cmd
  BY <1>1, CommandStill DEF WorkerStory, adapterRest
<1>5. WorkerStory'
  BY <1>1, <1>2, <1>b, <1>c, <1>4
     DEF WorkerStory, RunsInOrder, WorkerSupervised, BoxIsOwn, BoxesReported, DirectoriesInUse,
         LastAudit, SourceAsFound, ChangesHandedOn, BoxIsGone, CloseIsTrue, ResultIsTrue,
         ResultHolds, FailedExportsNothing, At, Early, Holding, Late, Succeeded, SameWork,
         SameRun, SameAudits, SameFiles, SameHand, SameEnd, sandboxRest, adapterRest, hostVars,
         countVars, historyVars
<1> QED
  BY <1>3, <1>5 DEF WorkerHolds

\* A worker is started with a supervisor, a probe is a call.
LEMMA ExecHolds ==
  WorkerHolds /\ Exec => WorkerHolds'
<1> SUFFICES ASSUME WorkerHolds, Exec PROVE WorkerHolds'
  OBVIOUS
<1>1. /\ WorkerTypeOK /\ WorkerStory /\ work \in WorkRecord
      /\ At("exec")
      /\ UNCHANGED <<sandboxRest, boxes, guest, temp, historyVars>>
      /\ faults' \in 0 .. MaxFaults
      /\ work.isolated \in BOOLEAN
  BY WorkerRunAssumption
     DEF WorkerHolds, WorkerTypeOK, NoFault, Fault, Exec, WorkRecord
<1>2. /\ work' \in WorkRecord /\ SameWork
      /\ \/ /\ UNCHANGED cmd
            /\ \/ work.probe /\ work'.step = "export" /\ work'.error = work.error
               \/ work.isolated /\ work'.step = "leave" /\ work'.error = TRUE
               \/ ~ work.isolated /\ work'.step = "close" /\ work'.error = TRUE
         \/ /\ ~ work.probe /\ work'.step = "running" /\ work'.error = work.error
            /\ cmd' = Started(~ work.isolated)
  <2>0. work.probe => work.isolated
    BY <1>1 DEF WorkerStory, RunsInOrder
  <2>1. CASE work.probe /\ UNCHANGED cmd /\ GoesTo("export")
    BY <1>1, <2>1, GoesToFields DEF RunSteps
  <2>2. CASE ~ work.probe /\ cmd' = Started(~ work.isolated) /\ GoesTo("running")
    BY <1>1, <2>2, GoesToFields DEF RunSteps
  <2>3. CASE work.isolated /\ UNCHANGED cmd /\ BrokerRaises
    BY <1>1, <2>3, RaisesFields DEF BrokerRaises, Goes, RunSteps
  <2>4. CASE ~ work.isolated /\ UNCHANGED cmd /\ CloseRun([work EXCEPT !.error = TRUE])
    BY <1>1, <2>4, RaisesFields DEF CloseRun, Goes, RunSteps
  <2> QED
    BY <2>0, <2>1, <2>2, <2>3, <2>4 DEF Exec
<1>4. /\ cmd' \in Command /\ SupervisorInv'
      /\ work'.step = "running" => cmd'.owned = ~ work.isolated
  <2>1. ASSUME UNCHANGED cmd
        PROVE  cmd' \in Command /\ SupervisorInv'
    BY <1>1, <2>1, CommandStill DEF WorkerStory, WorkerTypeOK
  <2>2. ASSUME NEW owned \in BOOLEAN, owned = ~ work.isolated, cmd' = Started(owned)
        PROVE  cmd' \in Command /\ SupervisorInv' /\ cmd'.owned = owned
    BY <2>2, StartedSound
  <2>3. (~ work.isolated) \in BOOLEAN
    OBVIOUS
  <2> QED
    BY <1>2, <2>1, <2>2, <2>3
<1>3. WorkerTypeOK'
  BY <1>1, <1>2, <1>4
     DEF WorkerTypeOK, sandboxRest, adapterRest, hostVars, countVars, historyVars
<1>5. WorkerStory'
  BY <1>1, <1>2, <1>4
     DEF WorkerStory, RunsInOrder, WorkerSupervised, BoxIsOwn, BoxesReported, DirectoriesInUse,
         LastAudit, SourceAsFound, ChangesHandedOn, BoxIsGone, CloseIsTrue, ResultIsTrue,
         ResultHolds, FailedExportsNothing, At, Early, Holding, Late, Succeeded, SameWork,
         SameRun, SameAudits, SameFiles, SameHand, SameEnd, sandboxRest, adapterRest, hostVars,
         countVars, historyVars
<1> QED
  BY <1>3, <1>5 DEF WorkerHolds

\* A worker that ended is over, and whether it failed is known.
LEMMA ExecEndsHolds ==
  WorkerHolds /\ ExecEnds => WorkerHolds'
<1> SUFFICES ASSUME WorkerHolds, ExecEnds PROVE WorkerHolds'
  OBVIOUS
<1>1. /\ WorkerTypeOK /\ WorkerStory /\ work \in WorkRecord
      /\ At("running") /\ Returned /\ cmd' = LeftOver
      /\ UNCHANGED <<sandboxRest, boxes, guest, temp, faults, historyVars>>
      /\ cmd \in Command
  BY WorkerRunAssumption
     DEF WorkerHolds, WorkerTypeOK, NoFault, Fault, ExecEnds
<1>2. /\ work' \in WorkRecord /\ SameRun /\ SameAudits /\ SameFiles /\ SameHand
      /\ work'.owns = work.owns /\ work'.error = work.error
      /\ work'.outcome = work.outcome /\ work'.failed = ~ Completed
      /\ work'.step = IF ~ work.isolated THEN "inspect"
                      ELSE IF Completed THEN "export" ELSE "policy"
  <2> DEFINE s == IF ~ work.isolated THEN "inspect"
                  ELSE IF Completed THEN "export" ELSE "policy"
             f == ~ Completed
  <2>1. work' = [work EXCEPT !.failed = f, !.step = s]
    BY DEF ExecEnds, Goes
  <2>2. f \in BOOLEAN /\ s \in RunSteps
    BY DEF RunSteps
  <2>3. f = ~ Completed /\ s = IF ~ work.isolated THEN "inspect"
                              ELSE IF Completed THEN "export" ELSE "policy"
    OBVIOUS
  <2> HIDE DEF f, s
  <2>4. /\ work' \in WorkRecord /\ SameRun /\ SameAudits /\ SameFiles /\ SameHand
        /\ work'.owns = work.owns /\ work'.error = work.error
        /\ work'.outcome = work.outcome /\ work'.failed = f /\ work'.step = s
    BY <1>1, <2>1, <2>2 DEF WorkRecord, SameRun, SameAudits, SameFiles, SameHand
  <2> QED
    BY <2>3, <2>4
<1>4. /\ cmd' \in Command /\ SupervisorInv' /\ ~ Alive'
  <2>1. ~ work.isolated => ~ Alive
    BY <1>1 DEF WorkerStory, WorkerSupervised, SupervisorInv, GroupStopped, At
  <2>2. work.isolated => cmd' = NoCommand
    BY <1>1 DEF LeftOver
  <2>3. ~ work.isolated => cmd' = [NoCommand EXCEPT !.main = "gone", !.rest = "gone"]
    BY <1>1, <2>1 DEF LeftOver, Alive
  <2>4. [NoCommand EXCEPT !.main = "gone", !.rest = "gone"] = NoCommand
    BY NoCommandSound DEF Command
  <2>5. cmd' = NoCommand
    BY <2>2, <2>3, <2>4
  <2> QED
    BY <2>5, NoCommandInv
<1>3. WorkerTypeOK'
  BY <1>1, <1>2, <1>4
     DEF WorkerTypeOK, sandboxRest, adapterRest, hostVars, countVars, historyVars
<1>5. WorkerStory'
  BY <1>1, <1>2, <1>4, ZenonT(60)
     DEF WorkerStory, RunsInOrder, WorkerSupervised, BoxIsOwn, BoxesReported, DirectoriesInUse,
         LastAudit, SourceAsFound, ChangesHandedOn, BoxIsGone, CloseIsTrue, ResultIsTrue,
         ResultHolds, FailedExportsNothing, At, Early, Holding, Late, Succeeded, SameWork,
         SameRun, SameAudits, SameFiles, SameHand, SameEnd, sandboxRest, adapterRest, hostVars,
         countVars, historyVars
<1> QED
  BY <1>3, <1>5 DEF WorkerHolds

\* The removal may fail; it is the run's own sandbox that goes.
LEMMA RemoveHolds ==
  WorkerHolds /\ Remove => WorkerHolds'
<1> SUFFICES ASSUME WorkerHolds, Remove PROVE WorkerHolds'
  OBVIOUS
<1>1. /\ WorkerTypeOK /\ WorkerStory /\ work \in WorkRecord
      /\ At("remove")
      /\ UNCHANGED <<sandboxRest, cmd, guest, temp, historyVars>>
      /\ faults' \in 0 .. MaxFaults
      /\ boxes \in [Name -> {"none", "foreign", "ours"}] /\ work.name \in Name
      /\ boxes' \in [Name -> {"none", "foreign", "ours"}]
      /\ \A m \in Name : boxes'[m] = "ours" => boxes[m] = "ours"
  BY WorkerRunAssumption
     DEF WorkerHolds, WorkerTypeOK, NoFault, Fault, Remove, WorkRecord
<1>2. /\ work' \in WorkRecord /\ work'.step = "confirm" /\ SameWork
      /\ work'.error = work.error
  BY <1>1, GoesToFields DEF Remove, RunSteps
<1>3. WorkerTypeOK'
  BY <1>1, <1>2
     DEF WorkerTypeOK, sandboxRest, adapterRest, hostVars, countVars, historyVars
<1>4. SupervisorInv' /\ Alive' = Alive /\ cmd' = cmd
  BY <1>1, CommandStill DEF WorkerStory, adapterRest
<1>5. WorkerStory'
  BY <1>1, <1>2, <1>4
     DEF WorkerStory, RunsInOrder, WorkerSupervised, BoxIsOwn, BoxesReported, DirectoriesInUse,
         LastAudit, SourceAsFound, ChangesHandedOn, BoxIsGone, CloseIsTrue, ResultIsTrue,
         ResultHolds, FailedExportsNothing, At, Early, Holding, Late, Succeeded, SameWork,
         SameRun, SameAudits, SameFiles, SameHand, SameEnd, sandboxRest, adapterRest, hostVars,
         countVars, historyVars
<1> QED
  BY <1>3, <1>5 DEF WorkerHolds

\* A removal that is not confirmed is reported.
LEMMA ConfirmHolds ==
  WorkerHolds /\ Confirm => WorkerHolds'
<1> SUFFICES ASSUME WorkerHolds, Confirm PROVE WorkerHolds'
  OBVIOUS
<1>1. /\ WorkerTypeOK /\ WorkerStory /\ work \in WorkRecord
      /\ At("confirm")
      /\ UNCHANGED <<hostVars, countVars, cmd, boxes, guest, temp, touched, robbed>>
      /\ faults' \in 0 .. MaxFaults
      /\ binding' \in Version \cup {Unbound}
      /\ work.name \in Name /\ unclean \subseteq Name
  BY WorkerRunAssumption
     DEF WorkerHolds, WorkerTypeOK, NoFault, Fault, Confirm, WorkRecord
<1>2. /\ work' \in WorkRecord /\ SameWork
      /\ \/ /\ work'.error = work.error /\ boxes[work.name] = "none" /\ unclean' = unclean
            /\ work'.step = IF work.probe THEN "idle" ELSE "recheck"
         \/ /\ work'.error = TRUE /\ unclean' = unclean \cup {work.name}
            /\ work'.step = IF work.probe THEN "idle" ELSE "close"
  <2>1. CASE /\ boxes[work.name] = "none" /\ unclean' = unclean
             /\ Goes(IF work.probe THEN Handed(work) ELSE [work EXCEPT !.step = "recheck"])
    <3>1. CASE work.probe
      BY <1>1, <2>1, <3>1, HandedFields
    <3>2. CASE ~ work.probe
      <4>1. GoesTo("recheck")
        BY <2>1, <3>2 DEF Goes, GoesTo
      <4> QED
        BY <1>1, <2>1, <3>2, <4>1, GoesToFields DEF RunSteps
    <3> QED
      BY <3>1, <3>2
  <2>2. CASE /\ Goes(Handed([work EXCEPT !.error = TRUE]))
             /\ unclean' = unclean \cup {work.name}
    BY <1>1, <2>2, HandedErrorFields
  <2> QED
    BY <2>1, <2>2 DEF Confirm
<1>3. WorkerTypeOK'
  BY <1>1, <1>2
     DEF WorkerTypeOK, sandboxRest, adapterRest, hostVars, countVars, historyVars
<1>4. SupervisorInv' /\ Alive' = Alive /\ cmd' = cmd
  BY <1>1, CommandStill DEF WorkerStory, adapterRest
<1>5. WorkerStory'
  BY <1>1, <1>2, <1>4
     DEF WorkerStory, RunsInOrder, WorkerSupervised, BoxIsOwn, BoxesReported, DirectoriesInUse,
         LastAudit, SourceAsFound, ChangesHandedOn, BoxIsGone, CloseIsTrue, ResultIsTrue,
         ResultHolds, FailedExportsNothing, At, Early, Holding, Late, Succeeded, SameWork,
         SameRun, SameAudits, SameFiles, SameHand, SameEnd, sandboxRest, adapterRest, hostVars,
         countVars, historyVars
<1> QED
  BY <1>3, <1>5 DEF WorkerHolds

-----------------------------------------------------------------------------
(* The steps of the adapter *)

\* A look at one part of the source leaves the other part of the audit alone.
LEMMA LookFields ==
  ASSUME work \in WorkRecord, source \in Source
  PROVE  /\ [work.seen EXCEPT !["tree"] = source["tree"]] \in Audit
         /\ [work.seen EXCEPT !["tree"] = source["tree"]]["tree"] = source["tree"]
         /\ [work.seen EXCEPT !["tree"] = source["tree"]]["control"] = work.seen["control"]
         /\ [work.seen EXCEPT !["control"] = source["control"]] \in Audit
         /\ [work.seen EXCEPT !["control"] = source["control"]]["control"] = source["control"]
         /\ [work.seen EXCEPT !["control"] = source["control"]]["tree"] = work.seen["tree"]
         /\ [work.now EXCEPT !["tree"] = source["tree"]] \in Audit
         /\ [work.now EXCEPT !["tree"] = source["tree"]]["tree"] = source["tree"]
         /\ [work.now EXCEPT !["tree"] = source["tree"]]["control"] = work.now["control"]
         /\ [work.now EXCEPT !["control"] = source["control"]] \in Audit
         /\ [work.now EXCEPT !["control"] = source["control"]]["control"] = source["control"]
         /\ [work.now EXCEPT !["control"] = source["control"]]["tree"] = work.now["tree"]
         /\ work.seen \in Audit /\ work.now \in Audit
<1>1. work.seen \in Audit /\ work.now \in Audit
  BY DEF WorkRecord
<1> QED
  BY <1>1 DEF Source, Audit, Part

\* A task starts from nothing, and what was watched before is forgotten.
LEMMA BeginHolds ==
  ASSUME NEW n \in Name, NEW isolated \in BOOLEAN
  PROVE  WorkerHolds /\ BeginRun(n, isolated) => WorkerHolds'
<1> SUFFICES ASSUME WorkerHolds, BeginRun(n, isolated) PROVE WorkerHolds'
  OBVIOUS
<1>1. /\ WorkerTypeOK /\ WorkerStory /\ work \in WorkRecord
      /\ At("idle") /\ touched' = {} /\ robbed' = FALSE
      /\ UNCHANGED <<hostVars, binding, boxes, guest, crashes, faults, unclean, temp, cmd>>
      /\ binding \in Version /\ runCount' \in 0 .. MaxRuns
      /\ source \in Source
  BY WorkerRunAssumption
     DEF WorkerHolds, WorkerTypeOK, NoFault, Fault, BeginRun, Source
<1>2. /\ work' \in WorkRecord /\ work'.step = "watch" /\ work'.isolated = isolated
      /\ work'.probe = FALSE /\ work'.name = n /\ work'.owns = FALSE
      /\ work'.seen = NoAudit
      /\ work'.committed = FALSE /\ work'.exported = Nothing /\ work'.patch = Nothing
      /\ work'.failed = FALSE /\ work'.error = FALSE /\ work'.outcome = "none"
  <2>1. StartsAs(n, isolated, FALSE, binding, "watch")
    BY DEF BeginRun, Goes, StartsAs
  <2>2. FALSE \in BOOLEAN /\ "watch" \in RunSteps
    BY DEF RunSteps
  <2> QED
    BY <1>1, <2>1, <2>2, NewWorkFields
<1>3. WorkerTypeOK'
  BY <1>1, <1>2
     DEF WorkerTypeOK, sandboxRest, adapterRest, hostVars, countVars, historyVars
<1>4. SupervisorInv' /\ Alive' = Alive /\ cmd' = cmd
  BY <1>1, CommandStill DEF WorkerStory, adapterRest
<1>5. WorkerStory'
  BY <1>1, <1>2, <1>4
     DEF WorkerStory, RunsInOrder, WorkerSupervised, BoxIsOwn, BoxesReported, DirectoriesInUse,
         LastAudit, SourceAsFound, ChangesHandedOn, BoxIsGone, CloseIsTrue, ResultIsTrue,
         ResultHolds, FailedExportsNothing, At, Early, Holding, Late, Succeeded, SameWork,
         SameRun, SameAudits, SameFiles, SameHand, SameEnd, sandboxRest, adapterRest, hostVars,
         countVars, historyVars
<1> QED
  BY <1>3, <1>5 DEF WorkerHolds

\* The source is looked at before the clone.
LEMMA WatchHolds ==
  WorkerHolds /\ Watch => WorkerHolds'
<1> SUFFICES ASSUME WorkerHolds, Watch PROVE WorkerHolds'
  OBVIOUS
<1>1. /\ WorkerTypeOK /\ WorkerStory /\ work \in WorkRecord
      /\ UNCHANGED <<adapterRest, runCount, temp, cmd>>
      /\ source \in Source
  BY WorkerRunAssumption
     DEF WorkerHolds, WorkerTypeOK, NoFault, Fault, Watch, Source
<1>2. /\ work' \in WorkRecord /\ SameRun /\ SameFiles /\ SameHand /\ SameEnd
      /\ work'.owns = work.owns /\ work'.error = work.error
      /\ \/ /\ At("watch") /\ work'.step = "watchControl" /\ work'.now = work.now
            /\ work'.seen["tree"] = source["tree"]
            /\ work'.seen["control"] = work.seen["control"]
         \/ /\ At("watchControl") /\ work'.step = "clone" /\ work'.now = work.now
            /\ work'.seen["control"] = source["control"]
            /\ work'.seen["tree"] = work.seen["tree"]
  <2>1. CASE /\ At("watch")
             /\ Goes([work EXCEPT !.seen["tree"] = source["tree"], !.step = "watchControl"])
    <3> DEFINE a == [work.seen EXCEPT !["tree"] = source["tree"]]
    <3>1. work' = [work EXCEPT !.seen = a, !.step = "watchControl"] /\ a \in Audit
      BY <1>1, <2>1, LookFields DEF Goes
    <3>2. a["tree"] = source["tree"] /\ a["control"] = work.seen["control"]
      BY <1>1, LookFields
    <3> HIDE DEF a
    <3>3. /\ work' \in WorkRecord /\ SameRun /\ SameFiles /\ SameHand /\ SameEnd
          /\ work'.owns = work.owns /\ work'.error = work.error
          /\ work'.step = "watchControl" /\ work'.now = work.now /\ work'.seen = a
      BY <1>1, <3>1 DEF WorkRecord, RunSteps, SameRun, SameFiles, SameHand, SameEnd
    <3> QED
      BY <2>1, <3>2, <3>3
  <2>2. CASE /\ At("watchControl")
             /\ Goes([work EXCEPT !.seen["control"] = source["control"], !.step = "clone"])
    <3> DEFINE a == [work.seen EXCEPT !["control"] = source["control"]]
    <3>1. work' = [work EXCEPT !.seen = a, !.step = "clone"] /\ a \in Audit
      BY <1>1, <2>2, LookFields DEF Goes
    <3>2. a["control"] = source["control"] /\ a["tree"] = work.seen["tree"]
      BY <1>1, LookFields
    <3> HIDE DEF a
    <3>3. /\ work' \in WorkRecord /\ SameRun /\ SameFiles /\ SameHand /\ SameEnd
          /\ work'.owns = work.owns /\ work'.error = work.error
          /\ work'.step = "clone" /\ work'.now = work.now /\ work'.seen = a
      BY <1>1, <3>1 DEF WorkRecord, RunSteps, SameRun, SameFiles, SameHand, SameEnd
    <3> QED
      BY <2>2, <3>2, <3>3
  <2> QED
    BY <2>1, <2>2 DEF Watch
<1>3. WorkerTypeOK'
  BY <1>1, <1>2
     DEF WorkerTypeOK, sandboxRest, adapterRest, hostVars, countVars, historyVars
<1>4. SupervisorInv' /\ Alive' = Alive /\ cmd' = cmd
  BY <1>1, CommandStill DEF WorkerStory, adapterRest
<1>5. WorkerStory'
  BY <1>1, <1>2, <1>4
     DEF WorkerStory, RunsInOrder, WorkerSupervised, BoxIsOwn, BoxesReported, DirectoriesInUse,
         LastAudit, SourceAsFound, ChangesHandedOn, BoxIsGone, CloseIsTrue, ResultIsTrue,
         ResultHolds, FailedExportsNothing, At, Early, Holding, Late, Succeeded, SameWork,
         SameRun, SameAudits, SameFiles, SameHand, SameEnd, sandboxRest, adapterRest, hostVars,
         countVars, historyVars
<1> QED
  BY <1>3, <1>5 DEF WorkerHolds

\* The source is looked at again when the patch is there.
LEMMA InspectAgainHolds ==
  WorkerHolds /\ InspectAgain => WorkerHolds'
<1> SUFFICES ASSUME WorkerHolds, InspectAgain PROVE WorkerHolds'
  OBVIOUS
<1>1. /\ WorkerTypeOK /\ WorkerStory /\ work \in WorkRecord
      /\ UNCHANGED <<adapterRest, runCount, temp, cmd>>
      /\ source \in Source
  BY WorkerRunAssumption
     DEF WorkerHolds, WorkerTypeOK, NoFault, Fault, InspectAgain, Source
<1>2. /\ work' \in WorkRecord /\ SameRun /\ SameFiles /\ SameHand /\ SameEnd
      /\ work'.owns = work.owns /\ work'.error = work.error
      /\ \/ /\ At("inspectAgain") /\ work'.step = "compareAgain" /\ work'.seen = work.seen
            /\ work'.now["control"] = source["control"]
            /\ work'.now["tree"] = work.now["tree"]
         \/ /\ At("compareAgain") /\ work'.step = "close" /\ work'.seen = work.seen
            /\ work'.now["tree"] = source["tree"]
            /\ work'.now["control"] = work.now["control"]
  <2>1. CASE /\ At("inspectAgain")
             /\ Goes([work EXCEPT !.now["control"] = source["control"], !.step = "compareAgain"])
    <3> DEFINE a == [work.now EXCEPT !["control"] = source["control"]]
    <3>1. work' = [work EXCEPT !.now = a, !.step = "compareAgain"] /\ a \in Audit
      BY <1>1, <2>1, LookFields DEF Goes
    <3>2. a["control"] = source["control"] /\ a["tree"] = work.now["tree"]
      BY <1>1, LookFields
    <3> HIDE DEF a
    <3>3. /\ work' \in WorkRecord /\ SameRun /\ SameFiles /\ SameHand /\ SameEnd
          /\ work'.owns = work.owns /\ work'.error = work.error
          /\ work'.step = "compareAgain" /\ work'.seen = work.seen /\ work'.now = a
      BY <1>1, <3>1 DEF WorkRecord, RunSteps, SameRun, SameFiles, SameHand, SameEnd
    <3> QED
      BY <2>1, <3>2, <3>3
  <2>2. CASE /\ At("compareAgain")
             /\ Goes([work EXCEPT !.now["tree"] = source["tree"], !.step = "close"])
    <3> DEFINE a == [work.now EXCEPT !["tree"] = source["tree"]]
    <3>1. work' = [work EXCEPT !.now = a, !.step = "close"] /\ a \in Audit
      BY <1>1, <2>2, LookFields DEF Goes
    <3>2. a["tree"] = source["tree"] /\ a["control"] = work.now["control"]
      BY <1>1, LookFields
    <3> HIDE DEF a
    <3>3. /\ work' \in WorkRecord /\ SameRun /\ SameFiles /\ SameHand /\ SameEnd
          /\ work'.owns = work.owns /\ work'.error = work.error
          /\ work'.step = "close" /\ work'.seen = work.seen /\ work'.now = a
      BY <1>1, <3>1 DEF WorkRecord, RunSteps, SameRun, SameFiles, SameHand, SameEnd
    <3> QED
      BY <2>2, <3>2, <3>3
  <2> QED
    BY <2>1, <2>2 DEF InspectAgain
<1>a. work'.step = "close" /\ work'.seen = work'.now => SourceAsFound'
  <2> SUFFICES ASSUME work'.step = "close", work'.seen = work'.now
               PROVE  SourceAsFound'
    OBVIOUS
  <2>1. source["control"] # work.now["control"] => "control" \in touched
    BY <1>1, <1>2 DEF WorkerStory, LastAudit, At
  <2>2. work'.seen["tree"] = source["tree"] /\ work'.seen["control"] = work.now["control"]
    BY <1>2 DEF At
  <2>3. source' = source /\ touched' = touched
    BY <1>1 DEF adapterRest, hostVars, historyVars
  <2> QED
    BY <2>1, <2>2, <2>3 DEF SourceAsFound, Part
<1>3. WorkerTypeOK'
  BY <1>1, <1>2
     DEF WorkerTypeOK, sandboxRest, adapterRest, hostVars, countVars, historyVars
<1>4. SupervisorInv' /\ Alive' = Alive /\ cmd' = cmd
  BY <1>1, CommandStill DEF WorkerStory, adapterRest
<1>5. WorkerStory'
  BY <1>1, <1>2, <1>a, <1>4
     DEF WorkerStory, RunsInOrder, WorkerSupervised, BoxIsOwn, BoxesReported, DirectoriesInUse,
         LastAudit, ChangesHandedOn, BoxIsGone, CloseIsTrue, ResultIsTrue, ResultHolds,
         FailedExportsNothing, At, Early, Holding, Late, Succeeded, SameWork, SameRun,
         SameAudits, SameFiles, SameHand, SameEnd, sandboxRest, adapterRest, hostVars, countVars,
         historyVars
<1> QED
  BY <1>3, <1>5 DEF WorkerHolds

\* The clone is there.
LEMMA CloneHolds ==
  WorkerHolds /\ Clone => WorkerHolds'
<1> SUFFICES ASSUME WorkerHolds, Clone PROVE WorkerHolds'
  OBVIOUS
<1>1. /\ WorkerTypeOK /\ WorkerStory /\ work \in WorkRecord
      /\ At("clone")
      /\ UNCHANGED <<adapterRest, runCount, cmd>>
      /\ temp' = temp \cup {"clone"}
  BY WorkerRunAssumption
     DEF WorkerHolds, WorkerTypeOK, NoFault, Fault, Clone
<1>2. /\ work' \in WorkRecord /\ SameWork /\ work'.error = work.error
      /\ work'.step = IF work.isolated THEN "identity" ELSE "exec"
  BY <1>1, GoesToFields DEF Clone, RunSteps
<1>3. WorkerTypeOK'
  BY <1>1, <1>2
     DEF WorkerTypeOK, sandboxRest, adapterRest, hostVars, countVars, historyVars
<1>4. SupervisorInv' /\ Alive' = Alive /\ cmd' = cmd
  BY <1>1, CommandStill DEF WorkerStory, adapterRest
<1>5. WorkerStory'
  BY <1>1, <1>2, <1>4
     DEF WorkerStory, RunsInOrder, WorkerSupervised, BoxIsOwn, BoxesReported, DirectoriesInUse,
         LastAudit, SourceAsFound, ChangesHandedOn, BoxIsGone, CloseIsTrue, ResultIsTrue,
         ResultHolds, FailedExportsNothing, At, Early, Holding, Late, Succeeded, SameWork,
         SameRun, SameAudits, SameFiles, SameHand, SameEnd, sandboxRest, adapterRest, hostVars,
         countVars, historyVars
<1> QED
  BY <1>3, <1>5 DEF WorkerHolds

\* What came out of the sandbox is what the clone has.
LEMMA ImportHolds ==
  WorkerHolds /\ ImportWorkspace => WorkerHolds'
<1> SUFFICES ASSUME WorkerHolds, ImportWorkspace PROVE WorkerHolds'
  OBVIOUS
<1>1. /\ WorkerTypeOK /\ WorkerStory /\ work \in WorkRecord
      /\ At("import")
      /\ UNCHANGED <<adapterRest, runCount, temp, cmd>>
  BY WorkerRunAssumption
     DEF WorkerHolds, WorkerTypeOK, NoFault, Fault, ImportWorkspace
<1>2. /\ work' \in WorkRecord /\ SameRun /\ SameAudits /\ SameHand /\ SameEnd
      /\ work'.owns = work.owns /\ work'.error = work.error
      /\ work'.committed = work.committed /\ work'.step = "inspect"
      /\ work'.tree = work.exported
  <2>1. work.exported \in Change
    BY <1>1 DEF WorkerStory, ChangesHandedOn, At, WorkRecord
  <2> QED
    BY <1>1, <2>1
       DEF ImportWorkspace, Goes, WorkRecord, RunSteps, SameRun, SameAudits, SameHand, SameEnd
<1>3. WorkerTypeOK'
  BY <1>1, <1>2
     DEF WorkerTypeOK, sandboxRest, adapterRest, hostVars, countVars, historyVars
<1>4. SupervisorInv' /\ Alive' = Alive /\ cmd' = cmd
  BY <1>1, CommandStill DEF WorkerStory, adapterRest
<1>5. WorkerStory'
  BY <1>1, <1>2, <1>4
     DEF WorkerStory, RunsInOrder, WorkerSupervised, BoxIsOwn, BoxesReported, DirectoriesInUse,
         LastAudit, SourceAsFound, ChangesHandedOn, BoxIsGone, CloseIsTrue, ResultIsTrue,
         ResultHolds, FailedExportsNothing, At, Early, Holding, Late, Succeeded, SameWork,
         SameRun, SameAudits, SameFiles, SameHand, SameEnd, sandboxRest, adapterRest, hostVars,
         countVars, historyVars
<1> QED
  BY <1>3, <1>5 DEF WorkerHolds

\* The control data of clone and source are read.
LEMMA InspectHolds ==
  WorkerHolds /\ Inspect => WorkerHolds'
<1> SUFFICES ASSUME WorkerHolds, Inspect PROVE WorkerHolds'
  OBVIOUS
<1>1. /\ WorkerTypeOK /\ WorkerStory /\ work \in WorkRecord
      /\ At("inspect")
      /\ UNCHANGED <<adapterRest, runCount, temp, cmd>>
      /\ source \in Source
  BY WorkerRunAssumption
     DEF WorkerHolds, WorkerTypeOK, NoFault, Fault, Inspect
<1>2. /\ work' \in WorkRecord /\ SameRun /\ SameHand /\ SameEnd /\ work'.seen = work.seen
      /\ work'.owns = work.owns /\ work'.error = work.error
      /\ work'.committed = work.committed /\ work'.spoiled = work.committed
      /\ work'.step = "compare" /\ work'.tree = work.tree
  <2> DEFINE a == [work.now EXCEPT !["control"] = source["control"]]
  <2>1. /\ work' = [work EXCEPT !.spoiled = work.committed, !.now = a, !.step = "compare"]
        /\ a \in Audit
    BY <1>1, LookFields DEF Inspect, Goes
  <2> HIDE DEF a
  <2> QED
    BY <1>1, <2>1 DEF WorkRecord, RunSteps, SameRun, SameHand, SameEnd
<1>3. WorkerTypeOK'
  BY <1>1, <1>2
     DEF WorkerTypeOK, sandboxRest, adapterRest, hostVars, countVars, historyVars
<1>4. SupervisorInv' /\ Alive' = Alive /\ cmd' = cmd
  BY <1>1, CommandStill DEF WorkerStory, adapterRest
<1>5. WorkerStory'
  BY <1>1, <1>2, <1>4
     DEF WorkerStory, RunsInOrder, WorkerSupervised, BoxIsOwn, BoxesReported, DirectoriesInUse,
         LastAudit, SourceAsFound, ChangesHandedOn, BoxIsGone, CloseIsTrue, ResultIsTrue,
         ResultHolds, FailedExportsNothing, At, Early, Holding, Late, Succeeded, SameWork,
         SameRun, SameAudits, SameFiles, SameHand, SameEnd, sandboxRest, adapterRest, hostVars,
         countVars, historyVars
<1> QED
  BY <1>3, <1>5 DEF WorkerHolds

\* A source that changed, or a sandboxed worker that failed, makes no patch.
LEMMA CompareHolds ==
  WorkerHolds /\ Compare => WorkerHolds'
<1> SUFFICES ASSUME WorkerHolds, Compare PROVE WorkerHolds'
  OBVIOUS
<1>1. /\ WorkerTypeOK /\ WorkerStory /\ work \in WorkRecord
      /\ At("compare")
      /\ UNCHANGED <<adapterRest, runCount, temp, cmd>>
      /\ source \in Source
  BY WorkerRunAssumption
     DEF WorkerHolds, WorkerTypeOK, NoFault, Fault, Compare
<1>2. /\ work' \in WorkRecord /\ SameRun /\ SameFiles /\ SameHand /\ SameEnd
      /\ work'.owns = work.owns /\ work'.error = work.error /\ work'.seen = work.seen
      /\ work'.now["control"] = work.now["control"]
      /\ \/ /\ work'.step = "capture" /\ work.now["control"] = work.seen["control"]
            /\ ~ (work.failed /\ work.isolated)
         \/ /\ work'.step = "close"
            /\ work.now["control"] # work.seen["control"] \/ work.failed
  <2> DEFINE a == [work.now EXCEPT !["tree"] = source["tree"]]
             s == IF SourceControlSafe /\ ~ (work.failed /\ work.isolated)
                  THEN "capture" ELSE "close"
  <2>1. work' = [work EXCEPT !.now = a, !.step = s] /\ a \in Audit
    BY <1>1, LookFields DEF Compare, Goes
  <2>2. a["control"] = work.now["control"]
    BY <1>1, LookFields
  <2>3. \/ s = "capture" /\ SourceControlSafe /\ ~ (work.failed /\ work.isolated)
        \/ s = "close" /\ (~ SourceControlSafe \/ work.failed)
    OBVIOUS
  <2> HIDE DEF a, s
  <2>4. /\ work' \in WorkRecord /\ SameRun /\ SameFiles /\ SameHand /\ SameEnd
        /\ work'.owns = work.owns /\ work'.error = work.error /\ work'.seen = work.seen
        /\ work'.now = a /\ work'.step = s
    BY <1>1, <2>1, <2>3 DEF WorkRecord, RunSteps, SameRun, SameFiles, SameHand, SameEnd
  <2> QED
    BY <2>2, <2>3, <2>4 DEF SourceControlSafe
<1>a. work'.seen \in Audit /\ work'.now \in Audit
  BY <1>2 DEF WorkRecord
<1>3. WorkerTypeOK'
  BY <1>1, <1>2
     DEF WorkerTypeOK, sandboxRest, adapterRest, hostVars, countVars, historyVars
<1>4. SupervisorInv' /\ Alive' = Alive /\ cmd' = cmd
  BY <1>1, CommandStill DEF WorkerStory, adapterRest
<1>5. WorkerStory'
  BY <1>1, <1>2, <1>a, <1>4
     DEF WorkerStory, RunsInOrder, WorkerSupervised, BoxIsOwn, BoxesReported, DirectoriesInUse,
         LastAudit, SourceAsFound, ChangesHandedOn, BoxIsGone, CloseIsTrue, ResultIsTrue,
         ResultHolds, FailedExportsNothing, At, Early, Holding, Late, Succeeded, SameWork,
         SameRun, SameAudits, SameFiles, SameHand, SameEnd, sandboxRest, adapterRest, hostVars,
         countVars, historyVars
<1> QED
  BY <1>3, <1>5 DEF WorkerHolds

\* The patch is what the clone holds.
LEMMA CaptureHolds ==
  WorkerHolds /\ Capture => WorkerHolds'
<1> SUFFICES ASSUME WorkerHolds, Capture PROVE WorkerHolds'
  OBVIOUS
<1>1. /\ WorkerTypeOK /\ WorkerStory /\ work \in WorkRecord
      /\ UNCHANGED <<adapterRest, runCount, temp, cmd>>
  BY WorkerRunAssumption
     DEF WorkerHolds, WorkerTypeOK, NoFault, Fault, Capture
<1>2. /\ work' \in WorkRecord /\ SameRun /\ SameAudits /\ SameEnd
      /\ work'.owns = work.owns /\ work'.error = work.error
      /\ work'.tree = work.tree /\ work'.committed = work.committed
      /\ work'.exported = work.exported
      /\ \/ /\ At("capture") /\ work'.step = "compareTree"
            /\ work'.patch = work.tree /\ work'.spoiled = work.spoiled
         \/ /\ At("compareTree") /\ work'.step = "inspectAgain"
            /\ work'.patch = work.patch /\ (work.spoiled => work'.spoiled)
  <2>1. CASE At("capture") /\ Goes([work EXCEPT !.patch = work.tree, !.step = "compareTree"])
    BY <1>1, <2>1
       DEF Goes, WorkRecord, RunSteps, SameRun, SameAudits, SameEnd
  <2>2. CASE /\ At("compareTree")
             /\ Goes([work EXCEPT !.spoiled = @ \/ work.tree # work.patch,
                                  !.step = "inspectAgain"])
    <3> DEFINE sp == work.spoiled \/ work.tree # work.patch
    <3>1. work' = [work EXCEPT !.spoiled = sp, !.step = "inspectAgain"]
      BY <2>2 DEF Goes
    <3>2. sp \in BOOLEAN /\ (work.spoiled => sp)
      OBVIOUS
    <3> HIDE DEF sp
    <3>3. /\ work' \in WorkRecord /\ SameRun /\ SameAudits /\ SameEnd
          /\ work'.owns = work.owns /\ work'.error = work.error
          /\ work'.tree = work.tree /\ work'.committed = work.committed
          /\ work'.exported = work.exported /\ work'.step = "inspectAgain"
          /\ work'.patch = work.patch /\ work'.spoiled = sp
      BY <1>1, <3>1, <3>2, ZenonT(60) DEF WorkRecord, RunSteps, SameRun, SameAudits, SameEnd
    <3> QED
      BY <2>2, <3>2, <3>3
  <2> QED
    BY <2>1, <2>2 DEF Capture
<1>3. WorkerTypeOK'
  BY <1>1, <1>2
     DEF WorkerTypeOK, sandboxRest, adapterRest, hostVars, countVars, historyVars
<1>4. SupervisorInv' /\ Alive' = Alive /\ cmd' = cmd
  BY <1>1, CommandStill DEF WorkerStory, adapterRest
<1>5. WorkerStory'
  BY <1>1, <1>2, <1>4
     DEF WorkerStory, RunsInOrder, WorkerSupervised, BoxIsOwn, BoxesReported, DirectoriesInUse,
         LastAudit, SourceAsFound, ChangesHandedOn, BoxIsGone, CloseIsTrue, ResultIsTrue,
         ResultHolds, FailedExportsNothing, At, Early, Holding, Late, Succeeded, SameWork,
         SameRun, SameAudits, SameFiles, SameHand, SameEnd, sandboxRest, adapterRest, hostVars,
         countVars, historyVars
<1> QED
  BY <1>3, <1>5 DEF WorkerHolds

\* A run ends with the outcome of what it has seen.
LEMMA CloseHolds ==
  WorkerHolds /\ Close => WorkerHolds'
<1> SUFFICES ASSUME WorkerHolds, Close PROVE WorkerHolds'
  OBVIOUS
<1>1. /\ WorkerTypeOK /\ WorkerStory /\ work \in WorkRecord
      /\ At("close")
      /\ UNCHANGED <<adapterRest, runCount, cmd>>
      /\ temp' = temp \ {"clone"}
  BY WorkerRunAssumption
     DEF WorkerHolds, WorkerTypeOK, NoFault, Fault, Close
<1>2. /\ work' \in WorkRecord /\ SameRun /\ SameAudits /\ SameFiles /\ SameHand
      /\ work'.owns = work.owns /\ work'.error = work.error /\ work'.failed = work.failed
      /\ work'.step = "idle"
      /\ work'.outcome = "succeeded" => ~ work.error /\ Succeeded
  <2> DEFINE r == IF work.error THEN "raised" ELSE IF Succeeded THEN "succeeded" ELSE "failed"
  <2>1. work' = [work EXCEPT !.step = "idle", !.outcome = r]
    BY DEF Close, Goes
  <2>2. /\ r \in {"none", "succeeded", "failed", "raised"}
        /\ r = "succeeded" => ~ work.error /\ Succeeded
    OBVIOUS
  <2> HIDE DEF r
  <2>3. /\ work' \in WorkRecord /\ SameRun /\ SameAudits /\ SameFiles /\ SameHand
        /\ work'.owns = work.owns /\ work'.error = work.error /\ work'.failed = work.failed
        /\ work'.step = "idle" /\ work'.outcome = r
    BY <1>1, <2>1, <2>2 DEF WorkRecord, RunSteps, SameRun, SameAudits, SameFiles, SameHand
  <2> QED
    BY <2>2, <2>3
<1>3. WorkerTypeOK'
  BY <1>1, <1>2
     DEF WorkerTypeOK, sandboxRest, adapterRest, hostVars, countVars, historyVars
<1>4. SupervisorInv' /\ Alive' = Alive /\ cmd' = cmd
  BY <1>1, CommandStill DEF WorkerStory, adapterRest
<1>5. WorkerStory'
  BY <1>1, <1>2, <1>4
     DEF WorkerStory, RunsInOrder, WorkerSupervised, BoxIsOwn, BoxesReported, DirectoriesInUse,
         LastAudit, SourceAsFound, ChangesHandedOn, BoxIsGone, CloseIsTrue, ResultIsTrue,
         ResultHolds, FailedExportsNothing, At, Early, Holding, Late, Succeeded, SameWork,
         SameRun, SameAudits, SameFiles, SameHand, SameEnd, sandboxRest, adapterRest, hostVars,
         countVars, historyVars
<1> QED
  BY <1>3, <1>5 DEF WorkerHolds

\* What the adapter raises ends the run.
LEMMA AdapterRaisesHolds ==
  WorkerHolds /\ AdapterRaises => WorkerHolds'
<1> SUFFICES ASSUME WorkerHolds, AdapterRaises PROVE WorkerHolds'
  OBVIOUS
<1>1. /\ WorkerTypeOK /\ WorkerStory /\ work \in WorkRecord
      /\ work.step \in {"watch", "watchControl", "clone"} \cup {"import"} \cup Late
      /\ UNCHANGED <<hostVars, binding, boxes, guest, countVars, historyVars, temp, cmd>>
      /\ faults' \in 0 .. MaxFaults
  BY WorkerRunAssumption
     DEF WorkerHolds, WorkerTypeOK, NoFault, Fault, AdapterRaises, Late
<1>2. /\ work' \in WorkRecord /\ work'.step = "close" /\ SameWork
      /\ work'.error = TRUE
  BY <1>1, RaisesFields DEF AdapterRaises, CloseRun, Goes, RunSteps
<1>3. WorkerTypeOK'
  BY <1>1, <1>2
     DEF WorkerTypeOK, sandboxRest, adapterRest, hostVars, countVars, historyVars
<1>4. SupervisorInv' /\ Alive' = Alive /\ cmd' = cmd
  BY <1>1, CommandStill DEF WorkerStory, adapterRest
<1>5. WorkerStory'
  BY <1>1, <1>2, <1>4
     DEF WorkerStory, RunsInOrder, WorkerSupervised, BoxIsOwn, BoxesReported, DirectoriesInUse,
         LastAudit, SourceAsFound, ChangesHandedOn, BoxIsGone, CloseIsTrue, ResultIsTrue,
         ResultHolds, FailedExportsNothing, At, Early, Holding, Late, Succeeded, SameWork,
         SameRun, SameAudits, SameFiles, SameHand, SameEnd, sandboxRest, adapterRest, hostVars,
         countVars, historyVars
<1> QED
  BY <1>3, <1>5 DEF WorkerHolds

-----------------------------------------------------------------------------
(* Everybody else *)

\* A work that stays as it is.
LEMMA WorkStill ==
  ASSUME UNCHANGED work
  PROVE  /\ SameWork /\ work'.step = work.step /\ work'.error = work.error
         /\ work' = work
BY DEF SameWork, SameRun, SameAudits, SameFiles, SameHand, SameEnd

\* An edit since the patch was made is known, and one before it is for the last audit.
LEMMA EditHolds ==
  WorkerHolds /\ Edit => WorkerHolds'
<1> SUFFICES ASSUME WorkerHolds, Edit PROVE WorkerHolds'
  OBVIOUS
<1>1. /\ WorkerTypeOK /\ WorkerStory /\ work \in WorkRecord
      /\ UNCHANGED <<cmd, tool, boxes, guest, temp, binding, work, faults, countVars, unclean,
                    robbed>>
      /\ source \in Source /\ touched \subseteq Part
  BY DEF WorkerHolds, WorkerTypeOK, Edit
<1>2. PICK part \in Part, c \in Content :
        /\ source' = [source EXCEPT ![part] = c]
        /\ touched' = IF work.patch = Nothing THEN touched ELSE touched \cup {part}
  BY DEF Edit
<1>b. source' \in Source /\ \A p \in Part \ {part} : source'[p] = source[p]
  BY <1>1, <1>2 DEF Source
<1>c. /\ touched' \subseteq Part /\ touched \subseteq touched'
      /\ work.patch # Nothing => part \in touched'
  BY <1>1, <1>2
<1>a. SameWork /\ work'.step = work.step /\ work'.error = work.error /\ work' = work
  BY <1>1, WorkStill
<1>d. work.patch # Nothing /\ SourceAsFound => SourceAsFound'
  BY <1>a, <1>b, <1>c DEF SourceAsFound
<1>e. \A ch \in Change : ch # Nothing
  BY WorkerRunAssumption DEF Change, Nothing
<1>f. work.tree \in Change
  BY <1>1 DEF WorkRecord
<1>g. At("compareAgain") => work.patch = work.tree
  BY <1>1 DEF WorkerStory, ChangesHandedOn, At
<1>h. LastAudit'
  BY <1>1, <1>a, <1>b, <1>c, <1>e, <1>f, <1>g DEF WorkerStory, LastAudit, At, Part
<1>3. WorkerTypeOK'
  BY <1>1, <1>a, <1>b, <1>c DEF WorkerTypeOK, hostVars, countVars, historyVars
<1>4. SupervisorInv' /\ Alive' = Alive /\ cmd' = cmd
  BY <1>1, CommandStill DEF WorkerStory
<1>5. WorkerStory'
  BY <1>1, <1>a, <1>d, <1>e, <1>f, <1>h, <1>4
     DEF WorkerStory, RunsInOrder, WorkerSupervised, BoxIsOwn, BoxesReported, DirectoriesInUse,
         ChangesHandedOn, BoxIsGone, CloseIsTrue, ResultIsTrue, ResultHolds,
         FailedExportsNothing, At, Early, Holding, Late, Succeeded, countVars
<1> QED
  BY <1>3, <1>5 DEF WorkerHolds

\* The tool may change at any time.
LEMMA DriftHolds ==
  WorkerHolds /\ Drift => WorkerHolds'
<1> SUFFICES ASSUME WorkerHolds, Drift PROVE WorkerHolds'
  OBVIOUS
<1>1. /\ WorkerTypeOK /\ WorkerStory /\ work \in WorkRecord
      /\ UNCHANGED <<cmd, source, boxes, guest, temp, binding, work, faults, countVars,
                     historyVars>>
  BY WorkerRunAssumption
     DEF WorkerHolds, WorkerTypeOK, NoFault, Fault, Drift
<1>2. /\ SameWork /\ work'.step = work.step
      /\ work'.error = work.error /\ work' = work
  BY <1>1, WorkStill
<1>3. WorkerTypeOK'
  BY WorkerRunAssumption, <1>1, <1>2
     DEF WorkerTypeOK, sandboxRest, adapterRest, hostVars, countVars, historyVars, Drift, Version
<1>4. SupervisorInv' /\ Alive' = Alive /\ cmd' = cmd
  BY <1>1, CommandStill DEF WorkerStory, adapterRest
<1>5. WorkerStory'
  BY <1>1, <1>2, <1>4
     DEF WorkerStory, RunsInOrder, WorkerSupervised, BoxIsOwn, BoxesReported, DirectoriesInUse,
         LastAudit, SourceAsFound, ChangesHandedOn, BoxIsGone, CloseIsTrue, ResultIsTrue,
         ResultHolds, FailedExportsNothing, At, Early, Holding, Late, Succeeded, SameWork,
         SameRun, SameAudits, SameFiles, SameHand, SameEnd, sandboxRest, adapterRest, hostVars,
         countVars, historyVars
<1> QED
  BY <1>3, <1>5 DEF WorkerHolds

\* Another's sandbox is made where there is none.
LEMMA ForeignHolds ==
  ASSUME NEW n \in Name
  PROVE  WorkerHolds /\ ForeignSandbox(n) => WorkerHolds'
<1> SUFFICES ASSUME WorkerHolds, ForeignSandbox(n) PROVE WorkerHolds'
  OBVIOUS
<1>1. /\ WorkerTypeOK /\ WorkerStory /\ work \in WorkRecord
      /\ UNCHANGED <<cmd, hostVars, temp, binding, work, faults, countVars, historyVars>>
      /\ boxes \in [Name -> {"none", "foreign", "ours"}] /\ work.name \in Name
      /\ guest' \in Change /\ boxes[n] = "none" /\ boxes' = [boxes EXCEPT ![n] = "foreign"]
  BY WorkerRunAssumption
     DEF WorkerHolds, WorkerTypeOK, NoFault, Fault, ForeignSandbox, WorkRecord
<1>2. /\ SameWork /\ work'.step = work.step
      /\ work'.error = work.error /\ work' = work
  BY <1>1, WorkStill
<1>a. /\ boxes' \in [Name -> {"none", "foreign", "ours"}]
      /\ \A m \in Name : boxes'[m] = "ours" <=> boxes[m] = "ours"
  BY <1>1
<1>3. WorkerTypeOK'
  BY <1>1, <1>2, <1>a
     DEF WorkerTypeOK, sandboxRest, adapterRest, hostVars, countVars, historyVars
<1>4. SupervisorInv' /\ Alive' = Alive /\ cmd' = cmd
  BY <1>1, CommandStill DEF WorkerStory, adapterRest
<1>5. WorkerStory'
  BY <1>1, <1>2, <1>a, <1>4
     DEF WorkerStory, RunsInOrder, WorkerSupervised, BoxIsOwn, BoxesReported, DirectoriesInUse,
         LastAudit, SourceAsFound, ChangesHandedOn, BoxIsGone, CloseIsTrue, ResultIsTrue,
         ResultHolds, FailedExportsNothing, At, Early, Holding, Late, Succeeded, SameWork,
         SameRun, SameAudits, SameFiles, SameHand, SameEnd, sandboxRest, adapterRest, hostVars,
         countVars, historyVars
<1> QED
  BY <1>3, <1>5 DEF WorkerHolds

\* A sandbox of the run's that is taken away is known to be.
LEMMA TakeHolds ==
  ASSUME NEW n \in Name
  PROVE  WorkerHolds /\ TakeSandbox(n) => WorkerHolds'
<1> SUFFICES ASSUME WorkerHolds, TakeSandbox(n) PROVE WorkerHolds'
  OBVIOUS
<1>1. /\ WorkerTypeOK /\ WorkerStory /\ work \in WorkRecord
      /\ UNCHANGED <<cmd, hostVars, guest, temp, binding, work, faults, countVars, unclean,
                    touched>>
      /\ boxes \in [Name -> {"none", "foreign", "ours"}] /\ work.name \in Name
      /\ boxes[n] = "ours" /\ boxes' = [boxes EXCEPT ![n] = "none"]
      /\ robbed' = (robbed \/ (work.owns /\ n = work.name)) /\ robbed \in BOOLEAN
  BY WorkerRunAssumption
     DEF WorkerHolds, WorkerTypeOK, NoFault, Fault, TakeSandbox, WorkRecord
<1>2. /\ SameWork /\ work'.step = work.step
      /\ work'.error = work.error /\ work' = work
  BY <1>1, WorkStill
<1>a. /\ boxes' \in [Name -> {"none", "foreign", "ours"}]
      /\ \A m \in Name : boxes'[m] = "ours" => boxes[m] = "ours"
      /\ \A m \in Name : m # n => boxes'[m] = boxes[m]
      /\ robbed' \in BOOLEAN /\ (robbed => robbed')
  BY <1>1
<1>b. BoxIsOwn'
  <2>1. work.owns /\ boxes[work.name] = "ours" => boxes'[work.name] = "ours" \/ robbed'
    BY <1>1, <1>a
  <2>2. BoxIsOwn /\ work' = work
    BY <1>1, <1>2 DEF WorkerStory
  <2> QED
    BY <1>a, <2>1, <2>2 DEF BoxIsOwn, At
<1>3. WorkerTypeOK'
  BY <1>1, <1>2, <1>a
     DEF WorkerTypeOK, sandboxRest, adapterRest, hostVars, countVars, historyVars
<1>4. SupervisorInv' /\ Alive' = Alive /\ cmd' = cmd
  BY <1>1, CommandStill DEF WorkerStory, adapterRest
<1>5. WorkerStory'
  BY <1>1, <1>2, <1>a, <1>b, <1>4
     DEF WorkerStory, RunsInOrder, WorkerSupervised, BoxesReported, DirectoriesInUse, LastAudit,
         SourceAsFound, ChangesHandedOn, BoxIsGone, CloseIsTrue, ResultIsTrue, ResultHolds,
         FailedExportsNothing, At, Early, Holding, Late, Succeeded, SameWork, SameRun,
         SameAudits, SameFiles, SameHand, SameEnd, sandboxRest, adapterRest, hostVars, countVars,
         historyVars
<1> QED
  BY <1>3, <1>5 DEF WorkerHolds

\* The worker's files change only while it runs, or inside its sandbox.
LEMMA ChangesHolds ==
  WorkerHolds /\ Changes => WorkerHolds'
<1> SUFFICES ASSUME WorkerHolds, Changes PROVE WorkerHolds'
  OBVIOUS
<1>1. /\ WorkerTypeOK /\ WorkerStory /\ work \in WorkRecord
      /\ UNCHANGED <<cmd, hostVars, boxes, temp, binding, faults, countVars, historyVars>>
      /\ guest' \in Change
  BY WorkerRunAssumption
     DEF WorkerHolds, WorkerTypeOK, NoFault, Fault, Changes, Change
<1>2. /\ work' \in WorkRecord /\ SameRun /\ SameAudits /\ SameHand /\ SameEnd
      /\ work'.spoiled = work.spoiled
      /\ work'.owns = work.owns /\ work'.error = work.error
      /\ work'.step = work.step
      /\ \/ work'.tree = work.tree /\ work'.committed = work.committed
         \/ At("running") /\ ~ work.isolated
  <2>1. CASE UNCHANGED work
    BY <1>1, <2>1, WorkStill DEF SameWork, SameFiles
  <2>0. ~ work.isolated /\ Alive /\ work.step \in {"running"} \cup Late => At("running")
    BY <1>1 DEF WorkerStory, WorkerSupervised, At
  <2>2. CASE /\ ~ work.isolated /\ Alive /\ work.tree < MaxChanges
             /\ work.step \in {"running"} \cup Late
             /\ work' = [work EXCEPT !.tree = @ + 1]
    <3>1. work.tree + 1 \in Change
      BY <1>1, <2>2, WorkerRunAssumption DEF WorkRecord, Change
    <3>2. At("running")
      BY <2>0, <2>2
    <3> QED
      BY <1>1, <2>2, <3>1, <3>2 DEF WorkRecord, SameRun, SameAudits, SameHand, SameEnd
  <2>3. CASE /\ ~ work.isolated /\ Alive /\ work.step \in {"running"} \cup Late
             /\ work' = [work EXCEPT !.committed = TRUE]
    <3>1. At("running")
      BY <2>0, <2>3
    <3> QED
      BY <1>1, <2>3, <3>1 DEF WorkRecord, SameRun, SameAudits, SameHand, SameEnd
  <2> QED
    BY <2>1, <2>2, <2>3 DEF Changes
<1>3. WorkerTypeOK'
  BY <1>1, <1>2
     DEF WorkerTypeOK, sandboxRest, adapterRest, hostVars, countVars, historyVars
<1>4. SupervisorInv' /\ Alive' = Alive /\ cmd' = cmd
  BY <1>1, CommandStill DEF WorkerStory, adapterRest
<1>5. WorkerStory'
  BY <1>1, <1>2, <1>4
     DEF WorkerStory, RunsInOrder, WorkerSupervised, BoxIsOwn, BoxesReported, DirectoriesInUse,
         LastAudit, SourceAsFound, ChangesHandedOn, BoxIsGone, CloseIsTrue, ResultIsTrue,
         ResultHolds, FailedExportsNothing, At, Early, Holding, Late, Succeeded, SameWork,
         SameRun, SameAudits, SameFiles, SameHand, SameEnd, sandboxRest, adapterRest, hostVars,
         countVars, historyVars
<1> QED
  BY <1>3, <1>5 DEF WorkerHolds

\* Only a worker that is waited for still runs.
LEMMA CommandRunsHolds ==
  WorkerHolds /\ CommandRuns => WorkerHolds'
<1> SUFFICES ASSUME WorkerHolds, CommandRuns PROVE WorkerHolds'
  OBVIOUS
<1>1. /\ WorkerTypeOK /\ WorkerStory /\ work \in WorkRecord
      /\ UNCHANGED <<hostVars, boxes, guest, temp, binding, work, faults, countVars,
                    historyVars>>
      /\ cmd \in Command /\ SupervisorInv
  BY WorkerRunAssumption
     DEF WorkerHolds, WorkerTypeOK, NoFault, Fault, CommandRuns, WorkerStory
<1>2. /\ SameWork /\ work'.step = work.step
      /\ work'.error = work.error /\ work' = work
  BY <1>1, WorkStill
<1>4. /\ cmd' \in Command /\ SupervisorInv' /\ cmd'.owned = cmd.owned
      /\ Alive' => Alive
  BY <1>1, CommandStepSound, SupervisorStepSound DEF CommandRuns
<1>3. WorkerTypeOK'
  BY <1>1, <1>2, <1>4
     DEF WorkerTypeOK, sandboxRest, adapterRest, hostVars, countVars, historyVars
<1>5. WorkerStory'
  BY <1>1, <1>2, <1>4
     DEF WorkerStory, RunsInOrder, WorkerSupervised, BoxIsOwn, BoxesReported, DirectoriesInUse,
         LastAudit, SourceAsFound, ChangesHandedOn, BoxIsGone, CloseIsTrue, ResultIsTrue,
         ResultHolds, FailedExportsNothing, At, Early, Holding, Late, Succeeded, SameWork,
         SameRun, SameAudits, SameFiles, SameHand, SameEnd, sandboxRest, adapterRest, hostVars,
         countVars, historyVars
<1> QED
  BY <1>3, <1>5 DEF WorkerHolds

\* The supervisor deals with the worker of the run.
LEMMA SupervisesHolds ==
  WorkerHolds /\ Supervises => WorkerHolds'
<1> SUFFICES ASSUME WorkerHolds, Supervises PROVE WorkerHolds'
  OBVIOUS
<1>1. /\ WorkerTypeOK /\ WorkerStory /\ work \in WorkRecord
      /\ UNCHANGED <<hostVars, boxes, guest, temp, binding, work, faults, countVars,
                    historyVars>>
      /\ cmd \in Command /\ SupervisorInv
  BY WorkerRunAssumption
     DEF WorkerHolds, WorkerTypeOK, NoFault, Fault, Supervises, WorkerStory
<1>2. /\ SameWork /\ work'.step = work.step
      /\ work'.error = work.error /\ work' = work
  BY <1>1, WorkStill
<1>4. /\ cmd' \in Command /\ SupervisorInv' /\ cmd'.owned = cmd.owned
      /\ Alive' => Alive
  BY <1>1, SupervisorStepSound DEF Supervises
<1>3. WorkerTypeOK'
  BY <1>1, <1>2, <1>4
     DEF WorkerTypeOK, sandboxRest, adapterRest, hostVars, countVars, historyVars
<1>5. WorkerStory'
  BY <1>1, <1>2, <1>4
     DEF WorkerStory, RunsInOrder, WorkerSupervised, BoxIsOwn, BoxesReported, DirectoriesInUse,
         LastAudit, SourceAsFound, ChangesHandedOn, BoxIsGone, CloseIsTrue, ResultIsTrue,
         ResultHolds, FailedExportsNothing, At, Early, Holding, Late, Succeeded, SameWork,
         SameRun, SameAudits, SameFiles, SameHand, SameEnd, sandboxRest, adapterRest, hostVars,
         countVars, historyVars
<1> QED
  BY <1>3, <1>5 DEF WorkerHolds

\* What outlives the supervisor has nobody to write to.
LEMMA OrphanSound ==
  ASSUME cmd \in Command, cmd' = Orphaned
  PROVE  cmd' \in Command /\ SupervisorInv'
<1>1. PICK m, r \in {"quiet", "gone"} : cmd' = [NoCommand EXCEPT !.main = m, !.rest = r]
  <2>1. NoCommand = [NoCommand EXCEPT !.main = "gone", !.rest = "gone"]
    BY NoCommandSound DEF Command
  <2> DEFINE o(p) == IF p = "open" THEN "quiet" ELSE p
  <2>2. o(cmd.main) \in {"quiet", "gone"} /\ o(cmd.rest) \in {"quiet", "gone"}
    BY DEF Command
  <2>3. \/ cmd' = NoCommand
        \/ cmd' = [NoCommand EXCEPT !.main = o(cmd.main), !.rest = o(cmd.rest)]
    BY DEF Orphaned
  <2> HIDE DEF o
  <2> QED
    BY <2>1, <2>2, <2>3
<1>2. /\ cmd'.step = "none" /\ cmd'.piped = 0 /\ cmd'.written = 0 /\ cmd'.captured = 0
      /\ cmd' \in Command
  <2>1. /\ NoCommand.step = "none" /\ NoCommand.piped = 0 /\ NoCommand.written = 0
        /\ NoCommand.captured = 0
    BY DEF NoCommand
  <2> QED
    BY <1>1, <2>1, NoCommandSound DEF Command
<1> QED
  BY <1>2 DEF SupervisorInv, NoOutputInvented, EndsInOrder, GroupStopped, Returned

\* A sandbox of a process that died is reported.
LEMMA CrashHolds ==
  ASSUME NEW n \in Name
  PROVE  WorkerHolds /\ CrashRun(n) => WorkerHolds'
<1> SUFFICES ASSUME WorkerHolds, CrashRun(n) PROVE WorkerHolds'
  OBVIOUS
<1>1. /\ WorkerTypeOK /\ WorkerStory /\ work \in WorkRecord
      /\ UNCHANGED <<hostVars, boxes, guest, temp, faults, runCount>>
      /\ cmd' = Orphaned /\ binding' = Unbound /\ touched' = {} /\ robbed' = FALSE
      /\ crashes' \in 0 .. MaxCrashes /\ crashes' # 0
      /\ unclean' = IF work.owns THEN unclean \cup {work.name} ELSE unclean
      /\ work.name \in Name /\ source \in Source /\ tool \in Version
     
  BY WorkerRunAssumption
     DEF WorkerHolds, WorkerTypeOK, NoFault, Fault, CrashRun, WorkRecord
<1>2. /\ work' \in WorkRecord /\ work'.step = "idle" /\ work'.isolated /\ work'.probe
      /\ work'.name = n /\ work'.owns = FALSE /\ work'.seen = NoAudit
      /\ work'.committed = FALSE /\ work'.exported = Nothing /\ work'.patch = Nothing
      /\ work'.failed = FALSE /\ work'.error = FALSE /\ work'.outcome = "none"
  <2>1. StartsAs(n, TRUE, TRUE, tool, "idle")
    BY DEF CrashRun, StartsAs
  <2>2. TRUE \in BOOLEAN /\ "idle" \in RunSteps
    BY DEF RunSteps
  <2> QED
    BY <1>1, <2>1, <2>2, NewWorkFields
<1>4. cmd' \in Command /\ SupervisorInv'
  BY <1>1, OrphanSound DEF WorkerHolds, WorkerTypeOK
<1>3. WorkerTypeOK'
  BY <1>1, <1>2, <1>4
     DEF WorkerTypeOK, sandboxRest, adapterRest, hostVars, countVars, historyVars
<1>5. WorkerStory'
  BY <1>1, <1>2, <1>4
     DEF WorkerStory, RunsInOrder, WorkerSupervised, BoxIsOwn, BoxesReported, DirectoriesInUse,
         LastAudit, SourceAsFound, ChangesHandedOn, BoxIsGone, CloseIsTrue, ResultIsTrue,
         ResultHolds, FailedExportsNothing, At, Early, Holding, Late, Succeeded, SameWork,
         SameRun, SameAudits, SameFiles, SameHand, SameEnd, sandboxRest, adapterRest, hostVars,
         countVars, historyVars
<1> QED
  BY <1>3, <1>5 DEF WorkerHolds

-----------------------------------------------------------------------------
(* The theorems *)

\* At the start nothing has been run and nothing left behind.
LEMMA WorkerInitHolds == WorkerInit => WorkerHolds
<1> SUFFICES ASSUME WorkerInit PROVE WorkerHolds
  OBVIOUS
<1>1. PICK n \in Name : work = NewWork(n, TRUE, TRUE, tool)
  BY DEF WorkerInit
<1> DEFINE w == [step |-> "idle", isolated |-> TRUE, probe |-> TRUE, name |-> n, bound |-> 1,
                 owns |-> FALSE, seen |-> NoAudit, now |-> NoAudit, tree |-> 0,
                 committed |-> FALSE, spoiled |-> FALSE, exported |-> Nothing,
                 patch |-> Nothing, failed |-> FALSE, error |-> FALSE, outcome |-> "none"]
<1>2. work = w
  BY <1>1 DEF NewWork, WorkerInit
<1>3. NoAudit \in Audit
  BY DEF NoAudit, Audit, Unread
<1>4. 0 \in Change /\ 1 \in Version
  BY WorkerRunAssumption DEF Change, Version
<1>5. w \in WorkRecord
  BY <1>3, <1>4 DEF WorkRecord, RunSteps
<1>6. /\ work \in WorkRecord /\ work.step = "idle" /\ work.isolated /\ work.probe
      /\ work.owns = FALSE /\ work.seen = NoAudit /\ work.committed = FALSE
      /\ work.exported = Nothing /\ work.patch = Nothing
      /\ work.failed = FALSE /\ work.error = FALSE /\ work.outcome = "none"
  BY <1>2, <1>5
<1>a. /\ boxes \in [Name -> {"none", "foreign", "ours"}] /\ temp = {}
      /\ \A m \in Name : boxes[m] = "none"
      /\ source \in Source /\ touched = {} /\ robbed = FALSE /\ cmd = NoCommand
      /\ tool = 1 /\ guest = 0
      /\ binding = Unbound /\ unclean = {} /\ runCount = 0 /\ faults = 0 /\ crashes = 0
  BY DEF WorkerInit
<1>b. 0 \in 0 .. MaxRuns /\ 0 \in 0 .. MaxFaults /\ 0 \in 0 .. MaxCrashes
  BY WorkerRunAssumption
<1>7. WorkerTypeOK
  BY <1>3, <1>4, <1>6, <1>a, <1>b, NoCommandSound DEF WorkerTypeOK
<1>8. SupervisorInv /\ ~ Alive
  <2>1. /\ cmd.step = "none" /\ cmd.piped = 0 /\ cmd.written = 0 /\ cmd.captured = 0
        /\ cmd.main = "gone" /\ cmd.rest = "gone"
    BY DEF WorkerInit, NoCommand
  <2> QED
    BY <2>1 DEF SupervisorInv, NoOutputInvented, EndsInOrder, GroupStopped, Returned, Alive
<1>9. WorkerStory
  BY <1>3, <1>6, <1>8, <1>a
     DEF WorkerStory, RunsInOrder, WorkerSupervised, BoxIsOwn, BoxesReported, DirectoriesInUse,
         LastAudit, SourceAsFound, ChangesHandedOn, BoxIsGone, CloseIsTrue, ResultIsTrue,
         ResultHolds, FailedExportsNothing, At, Early, Holding, Late, Succeeded
<1> QED
  BY <1>7, <1>9 DEF WorkerHolds

\* Every step keeps the story of a run.
LEMMA WorkerNextHolds == WorkerHolds /\ [WorkerNext]_workerVars => WorkerHolds'
<1> SUFFICES ASSUME WorkerHolds, [WorkerNext]_workerVars PROVE WorkerHolds'
  OBVIOUS
<1>1. CASE BrokerStep
  BY <1>1, BindHolds, RequireIdentityHolds, CopyCarrierHolds, RequireNameHolds, CreateHolds,
     AllowHolds, ExecHolds, ExecEndsHolds, ExportHolds, VerifyPolicyHolds, LeaveHolds,
     RemoveHolds, ConfirmHolds, RecheckHolds DEF BrokerStep
<1>2. CASE AdapterStep
  BY <1>2, BeginHolds, WatchHolds, CloneHolds, ImportHolds, InspectHolds, CompareHolds,
     CaptureHolds, InspectAgainHolds, CloseHolds, AdapterRaisesHolds DEF AdapterStep
<1>3. CASE Supervises
  BY <1>3, SupervisesHolds
<1>4. CASE Others
  BY <1>4, EditHolds, DriftHolds, ChangesHolds, CommandRunsHolds, ForeignHolds, TakeHolds,
     CrashHolds
     DEF Others
<1>5. CASE UNCHANGED workerVars
  <2>1. /\ WorkerTypeOK /\ WorkerStory
        /\ UNCHANGED <<cmd, hostVars, boxes, guest, temp, binding, work, faults, countVars,
                      historyVars>>
    BY <1>5 DEF WorkerHolds, workerVars
  <2>2. SameWork /\ work'.step = work.step /\ work'.error = work.error /\ work' = work
    BY <2>1, WorkStill
  <2>3. SupervisorInv' /\ Alive' = Alive /\ cmd' = cmd
    BY <2>1, CommandStill DEF WorkerStory
  <2>4. WorkerTypeOK'
    BY <2>1, <2>2 DEF WorkerTypeOK, hostVars, countVars, historyVars
  <2>5. WorkerStory'
    BY <2>1, <2>2, <2>3
       DEF WorkerStory, RunsInOrder, WorkerSupervised, BoxIsOwn, BoxesReported, DirectoriesInUse,
           LastAudit, SourceAsFound, ChangesHandedOn, BoxIsGone, CloseIsTrue, ResultIsTrue,
           ResultHolds, FailedExportsNothing, At, Early, Holding, Late, Succeeded, SameWork,
           SameRun, SameAudits, SameFiles, SameHand, SameEnd, hostVars, countVars, historyVars
  <2> QED
    BY <2>4, <2>5 DEF WorkerHolds
<1> QED
  BY <1>1, <1>2, <1>3, <1>4, <1>5 DEF WorkerNext

\* WorkerStory is an invariant: where a run is, whose its sandbox is, what its looks at the
\* source have seen and which of its worker's changes it has (BaseAgentAdapter.run,
\* DockerSbxIsolationBroker).
THEOREM WorkerInvariant == WorkerSpec => [](WorkerTypeOK /\ WorkerStory)
<1>1. WorkerInit => WorkerHolds
  BY WorkerInitHolds
<1>2. WorkerHolds /\ [WorkerNext]_workerVars => WorkerHolds'
  BY WorkerNextHolds
<1>3. WorkerHolds => WorkerTypeOK /\ WorkerStory
  BY DEF WorkerHolds
<1> QED
  BY <1>1, <1>2, <1>3, PTL DEF WorkerSpec

\* Nothing runs on when a command has returned, no output of one that completed is lost, and
\* no sandbox or directory is left behind unreported (_run_bounded_process,
\* _cleanup_and_confirm).
THEOREM NothingLeft == WorkerSpec => []WorkerInv
<1>1. WorkerTypeOK /\ WorkerStory => WorkerInv
  <2> SUFFICES ASSUME WorkerTypeOK, WorkerStory PROVE WorkerInv
    OBVIOUS
  <2>1. CommandIsOver
    <3>1. cmd \in Command /\ SupervisorInv
      BY DEF WorkerTypeOK, WorkerStory
    <3>2. Completed => cmd.captured = cmd.written
      <4>1. cmd.captured \in Nat /\ cmd.written \in Nat
        BY <3>1, SupervisorAssumption DEF Command
      <4> QED
        BY <3>1, <4>1 DEF SupervisorInv, NoOutputInvented, EndsInOrder, Completed, Returned
    <3>3. Returned /\ cmd.owned => ~ Alive
      BY <3>1 DEF SupervisorInv, GroupStopped
    <3> QED
      BY <3>2, <3>3 DEF CommandIsOver
  <2>2. \A n \in Name : boxes[n] = "ours" /\ (At("idle") \/ work.name # n) => n \in unclean
    BY DEF WorkerStory, BoxesReported, At, Holding
  <2>3. At("idle") /\ crashes = 0 => temp = {}
    BY DEF WorkerStory, WorkerTypeOK, DirectoriesInUse, At, Holding
  <2> QED
    BY <2>1, <2>2, <2>3 DEF WorkerInv, NothingLeftBehind
<1> QED
  BY <1>1, WorkerInvariant, PTL

\* A run that succeeded hands on what its worker made and no later change of it, its source
\* is what it was at first but for what was edited since the patch was made, and a sandboxed
\* worker that failed hands nothing over (AgentRunResult.succeeded).
THEOREM ResultsAreTrue == WorkerSpec => []ResultIsTrue
<1>1. WorkerTypeOK /\ WorkerStory => ResultIsTrue
  BY DEF WorkerStory
<1> QED
  BY <1>1, WorkerInvariant, PTL

\* A sandbox of somebody else's is removed only under the name of a sandbox that the run made
\* and somebody took away while the run had it (_require_sandbox_name_available,
\* _create_sandbox, _cleanup_and_confirm).
THEOREM OthersKept == WorkerSpec => ForeignKept
<1> DEFINE Kept(n) == boxes[n] = "foreign" /\ boxes'[n] # "foreign" => robbed /\ n = work.name
<1>1. WorkerTypeOK /\ WorkerStory /\ [WorkerNext]_workerVars =>
        [\A n \in Name : boxes[n] = "foreign" /\ boxes'[n] # "foreign" =>
           robbed /\ n = work.name]_workerVars
  <2> SUFFICES ASSUME WorkerTypeOK, WorkerStory, WorkerNext, NEW n \in Name
               PROVE  Kept(n)
    BY DEF workerVars
  <2>0. boxes \in [Name -> {"none", "foreign", "ours"}] /\ work \in WorkRecord
    BY DEF WorkerTypeOK
  <2>1. CASE Remove
    <3>1. boxes[work.name] = "ours" \/ robbed
      BY <2>1 DEF Remove, WorkerStory, RunsInOrder, BoxIsOwn, At, Holding
    <3>2. \A m \in Name : m # work.name => boxes'[m] = boxes[m]
      BY <2>0, <2>1 DEF Remove
    <3> QED
      BY <3>1, <3>2
  <2>2. CASE Create
    <3>1. boxes' # boxes => boxes[work.name] = "none" /\ boxes' = Made
      BY <2>2 DEF Create
    <3>2. \A m \in Name : m # work.name => Made[m] = boxes[m]
      BY <2>0 DEF Made
    <3> QED
      BY <2>0, <3>1, <3>2
  <2>3. CASE \E m \in Name : ForeignSandbox(m) \/ TakeSandbox(m)
    <3>1. PICK m \in Name : ForeignSandbox(m) \/ TakeSandbox(m)
      BY <2>3
    <3>2. boxes[m] # "foreign" /\ \A k \in Name : k # m => boxes'[k] = boxes[k]
      BY <2>0, <3>1 DEF ForeignSandbox, TakeSandbox
    <3> QED
      BY <3>2
  <2>4. CASE BrokerStep /\ ~ Remove /\ ~ Create
    <3>1. boxes' = boxes
      BY <2>4 DEF BrokerStep, Bind, RequireIdentity, CopyCarrier, RequireName, Allow, Exec,
         ExecEnds, Export, VerifyPolicy, Leave, Confirm, Recheck
    <3> QED
      BY <3>1
  <2>5. CASE AdapterStep
    <3>1. boxes' = boxes
      BY <2>5 DEF AdapterStep, BeginRun, Watch, Clone, ImportWorkspace, Inspect, Compare, Capture,
         InspectAgain, Close, AdapterRaises, adapterRest
    <3> QED
      BY <3>1
  <2>6. CASE Supervises \/ Edit \/ Drift \/ Changes \/ CommandRuns
             \/ \E m \in Name : CrashRun(m)
    <3>1. boxes' = boxes
      BY <2>6 DEF Supervises, Edit, Drift, Changes, CommandRuns, CrashRun
    <3> QED
      BY <3>1
  <2> QED
    BY <2>1, <2>2, <2>3, <2>4, <2>5, <2>6 DEF WorkerNext, Others
<1> QED
  BY <1>1, WorkerInvariant, PTL DEF WorkerSpec, ForeignKept
=============================================================================
