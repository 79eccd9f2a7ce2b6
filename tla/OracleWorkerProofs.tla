-------------------------- MODULE OracleWorkerProofs --------------------------
(***************************************************************************)
(* Proofs about OracleWorker for every set of requests and processes: its  *)
(* steps are steps of the automation loop, a genuine request has at most   *)
(* one output, archived before it is recorded and analysed before the job  *)
(* completes, and no retry calls the provider again for what is answered.  *)
(***************************************************************************)
EXTENDS OracleWorker, QueueProofs

(***************************************************************************)
(* The handler's steps are steps of the loop                               *)
(***************************************************************************)
\* Every step outside the handler is one of RunStep.
LEMMA LoopStepIsRunStep ==
  ASSUME NEW w \in Runner, LoopStep(w) \/ Begin(w)
  PROVE  RunStep(w)
BY DEF LoopStep, Begin, RunStep

\* A step of the handler leaves the loop alone, or ends the handler.
LEMMA HandlerStepIsRunStep ==
  ASSUME NEW w \in Runner, HandlerStep(w)
  PROVE  UNCHANGED allVars \/ HandlerRaises(w) \/ HandlerReturns(w)
BY DEF HandlerStep, LookUp, AppendContext, ProviderAnswers, ProviderFails,
       WriteArchive, Commit, Analyse, Return, Raise

\* Every step of the system is one of the automation loop's, or leaves it alone.
LEMMA OracleStepIsRunnerStep ==
  ASSUME [OracleNext]_oracleAllVars
  PROVE  [RunnerNext]_allVars
<1>1. ASSUME NEW w \in Runner, LoopStep(w) \/ Begin(w) \/ HandlerStep(w) \/ Die(w)
      PROVE  [RunnerNext]_allVars
  <2>1. CASE LoopStep(w) \/ Begin(w)
    BY <2>1, LoopStepIsRunStep DEF RunnerNext
  <2>2. CASE HandlerStep(w)
    BY <2>2, HandlerStepIsRunStep DEF RunnerNext, RunStep
  <2>3. CASE Die(w)
    BY <2>3 DEF Die, RunnerNext
  <2>4. QED
    BY <1>1, <2>1, <2>2, <2>3
<1>2. CASE QueueCommand \/ TimePasses
  BY <1>2 DEF RunnerNext
<1>3. CASE UNCHANGED oracleAllVars
  BY <1>3 DEF oracleAllVars
<1>4. QED
  BY <1>1, <1>2, <1>3 DEF OracleNext

\* The handlers, their crashes and their events are invisible to the loop:
\* the theorems about AutomationRunner and JobQueue hold of the Oracle worker.
THEOREM OracleUsesLoop == OracleSpec => RunnerSpec
<1>1. OracleInit => RunnerInit
  BY DEF OracleInit
<1>2. [OracleNext]_oracleAllVars => [RunnerNext]_allVars
  BY OracleStepIsRunnerStep
<1>3. QED
  BY <1>1, <1>2, PTL DEF OracleSpec, RunnerSpec

(***************************************************************************)
(* Types                                                                   *)
(***************************************************************************)
\* Everything but the loop's own state.
OwnTypeOK ==
  /\ at \in [Runner -> Steps]
  /\ failures \in [Runner -> 0 .. MaxRetries]
  /\ contexts \in [Job -> Nat] /\ outputs \in [Job -> Nat]
  /\ answers \in [Job -> Nat] /\ complete \in [Job -> Nat]
  /\ analysed \subseteq Job
  /\ refused \in [Job -> Nat]

\* The type invariant says this and the loop's type invariant.
LEMMA OracleTypes == OracleTypeOK <=> RunnerTypeOK /\ OwnTypeOK
BY DEF OracleTypeOK, OwnTypeOK

\* One more event of a request.
LEMMA CountedType ==
  ASSUME NEW f \in [Job -> Nat], NEW j \in Job
  PROVE  /\ Counted(f, j) \in [Job -> Nat]
         /\ Counted(f, j)[j] = f[j] + 1
         /\ \A k \in Job \ {j} : Counted(f, j)[k] = f[k]
BY DEF Counted

\* A handler moves to its next step.
LEMMA ProceedType ==
  ASSUME OwnTypeOK, NEW w \in Runner, NEW step \in Steps, Proceed(w, step)
  PROVE  /\ at' \in [Runner -> Steps] /\ at'[w] = step
         /\ \A v \in Runner \ {w} : at'[v] = at[v]
BY DEF OwnTypeOK, Proceed

\* A handler works on a job.
LEMMA HandledJob ==
  ASSUME HandlerHasJob, NEW w \in Runner, run[w].pc = "working"
  PROVE  run[w].job \in Job
BY DEF HandlerHasJob, InHandler

\* Nothing has been asked for, answered or recorded at first.
LEMMA OwnInitType == OracleInit => OwnTypeOK
<1> SUFFICES ASSUME OracleInit
             PROVE  OwnTypeOK
  OBVIOUS
<1>1. at \in [Runner -> Steps]
  BY DEF OracleInit, Steps
<1>2. failures \in [Runner -> 0 .. MaxRetries]
  <2>1. 0 \in 0 .. MaxRetries
    BY OracleAssumption
  <2>2. QED
    BY <2>1 DEF OracleInit
<1>3. QED
  BY <1>1, <1>2 DEF OracleInit, OwnTypeOK

\* The types of the next state, for every step of the system.
LEMMA OwnNextType ==
  ASSUME OwnTypeOK, HandlerHasJob, [OracleNext]_oracleAllVars
  PROVE  OwnTypeOK'
<1>1. CASE UNCHANGED oracleVars
  BY <1>1 DEF oracleVars, requestVars, OwnTypeOK
<1>s. /\ "idle" \in Steps /\ "lookup" \in Steps /\ "recheck" \in Steps
      /\ "context" \in Steps /\ "call" \in Steps /\ "raw" \in Steps
      /\ "sidecar" \in Steps /\ "commit" \in Steps /\ "analyse" \in Steps
      /\ "return" \in Steps
  BY DEF Steps
<1>2. ASSUME NEW w \in Runner, Begin(w)
      PROVE  OwnTypeOK'
  <2>1. at' \in [Runner -> Steps]
    BY <1>s, <1>2, ProceedType DEF Begin
  <2>2. failures' \in [Runner -> 0 .. MaxRetries]
    <3>1. 0 \in 0 .. MaxRetries
      BY OracleAssumption
    <3>2. QED
      BY <1>2, <3>1 DEF Begin, OwnTypeOK
  <2>3. UNCHANGED requestVars
    BY <1>2 DEF Begin
  <2>4. QED
    BY <2>1, <2>2, <2>3 DEF OwnTypeOK, requestVars
<1>3. ASSUME NEW w \in Runner, Die(w)
      PROVE  OwnTypeOK'
  <2>1. at' \in [Runner -> Steps]
    BY <1>s, <1>3, ProceedType DEF Die
  <2>2. UNCHANGED <<failures, requestVars>>
    BY <1>3 DEF Die
  <2>3. QED
    BY <2>1, <2>2 DEF OwnTypeOK, requestVars
<1>4. ASSUME NEW w \in Runner, HandlerStep(w)
      PROVE  OwnTypeOK'
  <2>0. run[w].pc = "working" /\ run[w].job \in Job
    BY <1>4, HandledJob
       DEF HandlerStep, LookUp, AppendContext, ProviderAnswers, ProviderFails,
           WriteArchive, Commit, Analyse, Return, Raise, HandlerRaises, Handling
  <2>1. at' \in [Runner -> Steps]
    <3>1. at' = at \/ \E step \in Steps : Proceed(w, step)
      BY <1>s, <1>4
         DEF HandlerStep, LookUp, PriorOutput, AppendContext, ProviderAnswers,
             ProviderFails, WriteArchive, Commit, Analyse, Return, Raise
    <3>2. QED
      BY <3>1, ProceedType DEF OwnTypeOK
  <2>2. failures' \in [Runner -> 0 .. MaxRetries]
    <3>1. \/ failures' = failures
          \/ /\ failures[w] < MaxRetries
             /\ failures' = [failures EXCEPT ![w] = failures[w] + 1]
      BY <1>4
         DEF HandlerStep, LookUp, AppendContext, ProviderAnswers, ProviderFails,
             WriteArchive, Commit, Analyse, Return, requestVars, OwnTypeOK
    <3>2. QED
      BY <3>1, OracleAssumption DEF OwnTypeOK
  <2>3. /\ contexts' = contexts \/ contexts' = Counted(contexts, run[w].job)
        /\ outputs' = outputs \/ outputs' = Counted(outputs, run[w].job)
        /\ answers' = answers \/ answers' = Counted(answers, run[w].job)
        /\ complete' = complete \/ complete' = Counted(complete, run[w].job)
        /\ refused' = refused \/ refused' = Counted(refused, run[w].job)
        /\ analysed' = analysed
           \/ analysed' = analysed \cup ({run[w].job} \ Synthetic)
    BY <1>4
       DEF HandlerStep, LookUp, AppendContext, ProviderAnswers, ProviderFails,
           WriteArchive, Commit, Analyse, Return, requestVars
  <2>4. \A f \in [Job -> Nat] : Counted(f, run[w].job) \in [Job -> Nat]
    BY <2>0, CountedType
  <2>5. /\ contexts' \in [Job -> Nat] /\ outputs' \in [Job -> Nat]
        /\ answers' \in [Job -> Nat] /\ complete' \in [Job -> Nat]
        /\ refused' \in [Job -> Nat]
    BY <2>3, <2>4, Zenon DEF OwnTypeOK
  <2>6. analysed' \subseteq Job
    BY <2>0, <2>3 DEF OwnTypeOK
  <2>7. QED
    BY <2>1, <2>2, <2>5, <2>6 DEF OwnTypeOK
<1>5. QED
  BY <1>1, <1>2, <1>3, <1>4 DEF OracleNext, LoopStep, oracleAllVars

(***************************************************************************)
(* The inductive invariant                                                 *)
(***************************************************************************)
\* Nothing is under way and nothing is recorded at first.
LEMMA StoryInit == OracleInit => OracleStory
<1> SUFFICES ASSUME OracleInit
             PROVE  OracleStory
  OBVIOUS
<1>1. \A w \in Runner : run[w].pc = "off"
  BY DEF OracleInit, RunnerInit, Off
<1>2. \A j \in Job : outputs[j] = 0 /\ rows[j].status = "absent"
  BY DEF OracleInit, RunnerInit, Init
<1>3. OneOutput /\ CompletedIsAnalysed
  BY <1>2 DEF OneOutput, CompletedIsAnalysed
<1>4. ContextsCounted /\ ArchivedFirst
  BY <1>1, <1>2 DEF ContextsCounted, ArchivedFirst, Generating
<1>5. AnalysedFirst /\ NoCallWasted
  BY <1>1, <1>3 DEF AnalysedFirst, NoCallWasted, Handling
<1>6. QED
  BY <1>3, <1>4, <1>5 DEF OracleStory

\* The steps of a handler that come after its look at the recorded outputs.
Past == {"context", "call", "raw", "sidecar", "commit", "analyse", "return"}

\* A step that records nothing, and after which no handler has come further,
\* keeps the invariant.
LEMMA QuietStory ==
  ASSUME OracleStory,
         UNCHANGED <<contexts, outputs, complete, analysed>>,
         \A v \in Runner : run'[v].pc = "working" /\ at'[v] \in Past =>
           run[v].pc = "working" /\ run'[v].job = run[v].job /\ at'[v] = at[v],
         \A v \in Runner : run'[v].pc = "returned" =>
           /\ run'[v].job = run[v].job
           /\ run[v].pc = "returned" \/ Handling(v, "return"),
         overdue => overdue',
         \A j \in Job :
           rows'[j].status = "completed" =>
             \/ rows[j].status = "completed"
             \/ \E w \in Runner : run[w].pc = "returned" /\ run[w].job = j
  PROVE  OracleStory'
<1>1. \A v \in Runner, j \in Job :
        Generating(v, j)' => Generating(v, j) /\ at'[v] = at[v]
  BY DEF Generating, Past
<1>2. /\ contexts' = contexts /\ outputs' = outputs /\ complete' = complete
      /\ analysed' = analysed
  OBVIOUS
<1>3. OneOutput'
  BY <1>2 DEF OracleStory, OneOutput
<1>4. ContextsCounted'
  BY <1>1, <1>2 DEF OracleStory, ContextsCounted
<1>5. ArchivedFirst'
  BY <1>1, <1>2 DEF OracleStory, ArchivedFirst
<1>6. AnalysedFirst'
  <2>1. ASSUME NEW w \in Runner, Handling(w, "analyse")'
        PROVE  outputs'[run'[w].job] >= 1
    <3>1. Handling(w, "analyse") /\ run'[w].job = run[w].job
      BY <2>1 DEF Handling, Past
    <3>2. QED
      BY <1>2, <3>1 DEF OracleStory, AnalysedFirst
  <2>2. ASSUME NEW w \in Runner, Handling(w, "return")' \/ run'[w].pc = "returned"
        PROVE  Delivered(run[w].job)'
    <3>1. /\ Handling(w, "return") \/ run[w].pc = "returned"
          /\ run'[w].job = run[w].job
      BY <2>2 DEF Handling, Past
    <3>2. Delivered(run[w].job)
      BY <3>1 DEF OracleStory, AnalysedFirst
    <3>3. QED
      BY <1>2, <3>1, <3>2 DEF Delivered
  <2>3. ASSUME NEW j \in Job, rows'[j].status = "completed"
        PROVE  Delivered(j)
    BY <2>3 DEF OracleStory, AnalysedFirst, CompletedIsAnalysed, Delivered
  <2>4. CompletedIsAnalysed'
    BY <1>2, <2>3 DEF CompletedIsAnalysed, Delivered
  <2>5. QED
    BY <2>1, <2>2, <2>4 DEF AnalysedFirst
<1>7. NoCallWasted'
  BY <1>2 DEF OracleStory, NoCallWasted, Past
<1>8. QED
  BY <1>3, <1>4, <1>5, <1>6, <1>7 DEF OracleStory

\* What happens in the loop starts no generation and ends none well.
LEMMA LoopStory ==
  ASSUME RunnerTypeOK, RunnerInv, OwnTypeOK, OracleStory,
         NEW w \in Runner, LoopStep(w) \/ Begin(w) \/ Die(w)
  PROVE  OracleStory'
<1>0. run \in [Runner -> RunState] /\ HandlerHasJob /\ at \in [Runner -> Steps]
  BY DEF RunnerTypeOK, RunnerInv, OwnTypeOK
<1>1. UNCHANGED <<contexts, outputs, complete, analysed>>
  BY DEF LoopStep, Begin, Die, oracleVars, requestVars
<1>2. RunnerNext /\ (RunStep(w) \/ Crash(w))
  BY LoopStepIsRunStep DEF Die, RunnerNext
<1>3. \A j \in Job :
        rows'[j].status = "completed" =>
          \/ rows[j].status = "completed"
          \/ \E v \in Runner : run[v].pc = "returned" /\ run[v].job = j
  BY <1>0, <1>2, OnlyAcknowledged
<1>4. (overdue => overdue') /\ \A v \in Runner \ {w} : run'[v] = run[v]
  <2>1. CASE RunStep(w)
    BY <2>1, OthersRuns
  <2>2. CASE Crash(w)
    BY <1>0, <2>2 DEF Crash
  <2>3. QED
    BY <1>2, <2>1, <2>2
<1>5. \A v \in Runner \ {w} : at'[v] = at[v]
  BY <1>0 DEF LoopStep, Begin, Die, Proceed, oracleVars
<1>6. CASE Start(w) \/ ReadPauses(w) \/ ReadGate(w) \/ ReadArchives(w)
  <2>1. run'[w].pc \notin {"working", "returned"}
    <3>1. ASSUME NEW r, Privately(w, r), r.pc \notin {"working", "returned"}
          PROVE  run'[w].pc \notin {"working", "returned"}
      BY <1>0, <3>1 DEF Privately
    <3>2. /\ [Off EXCEPT !.pc = "pauses"].pc = "pauses" /\ Off.pc = "off"
          /\ [run[w] EXCEPT !.pc = "archives"].pc = "archives"
          /\ [run[w] EXCEPT !.pc = "gate",
                            !.excluded = PausedJobBranches].pc = "gate"
          /\ [run[w] EXCEPT !.pc = "lease",
                            !.recover = Expired({}) \cap archived].pc = "lease"
      BY <1>0 DEF Off, RunState
    <3>3. QED
      BY <1>6, <3>1, <3>2 DEF Start, ReadPauses, ReadGate, ReadArchives
  <2>2. QED
    BY <1>1, <1>3, <1>4, <1>5, <2>1, QuietStory
<1>7. ASSUME NEW j \in Job, NEW late \in ClockLag, TakeJob(w, j, late)
      PROVE  OracleStory'
  <2>1. run'[w].pc \notin {"working", "returned"}
    <3>1. run' = [run EXCEPT ![w] =
                    [run[w] EXCEPT !.pc = "leased", !.job = j,
                       !.attempt = rows'[j].attempts, !.since = 0,
                       !.excluded = {}, !.recover = {}]]
      BY <1>0, <1>7 DEF TakeJob
    <3>2. QED
      BY <1>0, <3>1 DEF RunState
  <2>2. QED
    BY <1>1, <1>3, <1>4, <1>5, <2>1, QuietStory
<1>8. ASSUME run' = [run EXCEPT ![w] = Off] \/
             \E r \in NextIteration(run[w]) : run' = [run EXCEPT ![w] = r]
      PROVE  OracleStory'
  <2>1. run'[w].pc \notin {"working", "returned"}
    <3>1. Off.pc = "off"
      BY DEF Off
    <3>2. QED
      BY <1>0, <1>8, <3>1, NextIterationType
  <2>2. QED
    BY <1>1, <1>3, <1>4, <1>5, <2>1, QuietStory
<1>9. ASSUME Beat(w), UNCHANGED oracleVars
      PROVE  OracleStory'
  <2>1. run'[w].pc = run[w].pc /\ run'[w].job = run[w].job
    BY <1>0, <1>9 DEF Beat, RunState
  <2>2. at' = at
    BY <1>9 DEF oracleVars
  <2>3. QED
    BY <1>1, <1>3, <1>4, <2>1, <2>2, QuietStory
<1>10. CASE Begin(w)
  <2>1. run'[w].pc = "working"
    BY <1>0, <1>10 DEF Begin, CheckRecovery, Privately, RunState
  <2>2. at'[w] = "lookup" /\ "lookup" \notin Past
    BY <1>0, <1>10 DEF Begin, Proceed, Past
  <2>3. QED
    BY <1>1, <1>3, <1>4, <1>5, <2>1, <2>2, QuietStory
<1>11. CASE Acknowledge(w) \/ FailJob(w) \/ Crash(w)
            \/ \E late \in ClockLag : TakeNothing(w, late)
  BY <1>8, <1>11 DEF Acknowledge, FailJob, FailJobAs, LeaseLost, Crash,
                     TakeNothing
<1>12. QED
  BY <1>6, <1>7, <1>9, <1>10, <1>11 DEF LoopStep, Die

\* Nor does what the operator does, or the clock.
LEMMA OutsideStory ==
  ASSUME RunnerTypeOK, RunnerInv, OwnTypeOK, OracleStory,
         \/ (QueueCommand \/ TimePasses) /\ UNCHANGED oracleVars
         \/ UNCHANGED oracleAllVars
  PROVE  OracleStory'
<1>0. run \in [Runner -> RunState] /\ HandlerHasJob
  BY DEF RunnerTypeOK, RunnerInv
<1>1. UNCHANGED <<at, contexts, outputs, complete, analysed>>
  BY DEF oracleVars, requestVars, oracleAllVars
<1>2. \A j \in Job :
        rows'[j].status = "completed" =>
          \/ rows[j].status = "completed"
          \/ \E v \in Runner : run[v].pc = "returned" /\ run[v].job = j
  BY <1>0, OnlyAcknowledged DEF RunnerNext, oracleAllVars, allVars, vars
<1>3. /\ overdue => overdue'
      /\ \A v \in Runner : run'[v].pc = run[v].pc /\ run'[v].job = run[v].job
  <2>1. CASE QueueCommand
    BY <2>1 DEF QueueCommand, runnerVars, history
  <2>2. CASE TimePasses
    BY <1>0, <2>2 DEF TimePasses, RunState
  <2>3. CASE UNCHANGED oracleAllVars
    BY <2>3 DEF oracleAllVars, allVars, runnerVars, history
  <2>4. QED
    BY <2>1, <2>2, <2>3
<1>4. QED
  BY <1>1, <1>2, <1>3, QuietStory

\* A handler that goes on, in a loop that stands still, is the only one whose
\* place changes, and its request the only one to get an event.
LEMMA ProgressStory ==
  ASSUME OwnTypeOK, HandlerHasJob, NEW w \in Runner, run[w].pc = "working",
         UNCHANGED allVars, NEW step \in Steps, Proceed(w, step)
  PROVE  /\ run[w].job \in Job
         /\ run' = run /\ rows' = rows /\ overdue' = overdue
         /\ at'[w] = step /\ \A v \in Runner \ {w} : at'[v] = at[v]
         /\ \A v \in Runner \ {w}, j \in Job :
              Generating(v, j)' <=> Generating(v, j)
         /\ \A j \in Job : Generating(w, j)' <=>
              (j = run[w].job /\ step \in {"call", "raw", "sidecar", "commit"})
         /\ \A v \in Runner \ {w}, s \in Steps :
              Handling(v, s)' <=> Handling(v, s)
         /\ \A s \in Steps : Handling(w, s)' <=> s = step
<1>1. run[w].job \in Job
  BY HandledJob
<1>2. run' = run /\ rows' = rows /\ overdue' = overdue
  BY DEF allVars, vars, runnerVars, history
<1>3. at'[w] = step /\ \A v \in Runner \ {w} : at'[v] = at[v]
  BY ProceedType
<1>4. \A v \in Runner \ {w}, j \in Job : Generating(v, j)' <=> Generating(v, j)
  BY <1>2, <1>3 DEF Generating
<1>5. \A j \in Job : Generating(w, j)' <=>
        (j = run[w].job /\ step \in {"call", "raw", "sidecar", "commit"})
  BY <1>2, <1>3 DEF Generating
<1>6. \A v \in Runner \ {w}, s \in Steps : Handling(v, s)' <=> Handling(v, s)
  BY <1>2, <1>3 DEF Handling
<1>7. \A s \in Steps : Handling(w, s)' <=> s = step
  BY <1>2, <1>3 DEF Handling
<1>8. QED
  BY <1>1, <1>2, <1>3, <1>4, <1>5, <1>6, <1>7

\* A look at the recorded outputs leads past the provider, or to a request
\* that has none.
LEMMA LookUpStory ==
  ASSUME OwnTypeOK, HandlerHasJob, OracleStory, NEW w \in Runner, LookUp(w)
  PROVE  OracleStory'
<1>1. /\ run[w].pc = "working" /\ UNCHANGED allVars
      /\ UNCHANGED <<contexts, outputs, complete, analysed>>
  BY DEF LookUp, Handling, requestVars
<1>2. PICK step \in {"analyse", "recheck", "context"} :
        /\ Proceed(w, step)
        /\ step = "analyse" => outputs[run[w].job] >= 1
        /\ step = "context" => outputs[run[w].job] = 0
  <2>1. run[w].job \in Job /\ outputs[run[w].job] \in Nat
    BY <1>1, HandledJob DEF OwnTypeOK
  <2>2. CASE outputs[run[w].job] > 0
    BY <2>1, <2>2 DEF LookUp, PriorOutput
  <2>3. CASE ~(outputs[run[w].job] > 0)
    <3>1. outputs[run[w].job] = 0
      BY <2>1, <2>3
    <3>2. QED
      BY <2>3, <3>1 DEF LookUp, PriorOutput
  <2>4. QED
    BY <2>2, <2>3
<1>3. step \in Steps
  BY DEF Steps
<1>m. /\ run[w].job \in Job
      /\ run' = run /\ rows' = rows /\ overdue' = overdue
      /\ at'[w] = step /\ \A v \in Runner \ {w} : at'[v] = at[v]
      /\ \A v \in Runner \ {w}, j \in Job :
           Generating(v, j)' <=> Generating(v, j)
      /\ \A j \in Job : ~Generating(w, j)'
      /\ \A v \in Runner \ {w}, s \in Steps : Handling(v, s)' <=> Handling(v, s)
      /\ \A s \in Steps : Handling(w, s)' <=> s = step
  BY <1>1, <1>2, <1>3, ProgressStory
<1>4. OneOutput' /\ CompletedIsAnalysed'
  BY <1>1, <1>m DEF OracleStory, OneOutput, AnalysedFirst, CompletedIsAnalysed
<1>5. ContextsCounted'
  BY <1>1, <1>m DEF OracleStory, ContextsCounted
<1>6. ArchivedFirst'
  BY <1>1, <1>m DEF OracleStory, ArchivedFirst
<1>7. AnalysedFirst'
  <2>1. \A v \in Runner : Handling(v, "analyse")' => outputs'[run'[v].job] >= 1
    BY <1>1, <1>2, <1>m DEF OracleStory, AnalysedFirst, Steps
  <2>2. \A v \in Runner : Handling(v, "return")' \/ run'[v].pc = "returned" =>
          Delivered(run[v].job)'
    BY <1>1, <1>2, <1>m DEF OracleStory, AnalysedFirst, Steps, Delivered
  <2>3. QED
    BY <1>4, <2>1, <2>2 DEF AnalysedFirst
<1>8. NoCallWasted'
  BY <1>1, <1>2, <1>m DEF OracleStory, NoCallWasted
<1>9. QED
  BY <1>4, <1>5, <1>6, <1>7, <1>8 DEF OracleStory

\* A context of its own joins every generation that starts.
LEMMA AppendContextStory ==
  ASSUME OwnTypeOK, HandlerHasJob, OracleStory, NEW w \in Runner,
         AppendContext(w)
  PROVE  OracleStory'
<1> DEFINE j == run[w].job
<1>1. /\ run[w].pc = "working" /\ at[w] = "context" /\ UNCHANGED allVars
      /\ Proceed(w, "call") /\ "call" \in Steps
      /\ UNCHANGED <<outputs, complete, analysed>>
  BY DEF AppendContext, Handling, Steps
<1>m. /\ run[w].job \in Job
      /\ run' = run /\ rows' = rows /\ overdue' = overdue
      /\ at'[w] = "call" /\ \A v \in Runner \ {w} : at'[v] = at[v]
      /\ \A v \in Runner \ {w}, k \in Job :
           Generating(v, k)' <=> Generating(v, k)
      /\ \A k \in Job : Generating(w, k)' <=> k = run[w].job
      /\ \A v \in Runner \ {w}, s \in Steps : Handling(v, s)' <=> Handling(v, s)
      /\ \A s \in Steps : Handling(w, s)' <=> s = "call"
  BY <1>1, ProgressStory
<1>2. /\ contexts'[j] = contexts[j] + 1
      /\ \A k \in Job \ {j} : contexts'[k] = contexts[k]
      /\ \A k \in Job : contexts[k] \in Nat
  BY <1>m, CountedType DEF AppendContext, OwnTypeOK
<1>3. OneOutput' /\ CompletedIsAnalysed'
  BY <1>1, <1>m DEF OracleStory, OneOutput, AnalysedFirst, CompletedIsAnalysed
<1>4. ContextsCounted'
  <2> SUFFICES ASSUME NEW k \in Job \ Synthetic
               PROVE  (/\ outputs[k] >= 1 => contexts[k] >= 1
                       /\ \A u \in Runner : Generating(u, k) =>
                            /\ contexts[k] >= 1
                            /\ outputs[k] >= 1 => contexts[k] >= 2
                            /\ \A v \in Runner \ {u} :
                                 Generating(v, k) => contexts[k] >= 2)'
    BY DEF ContextsCounted
  <2>1. /\ outputs[k] >= 1 => contexts[k] >= 1
        /\ \A u \in Runner : Generating(u, k) =>
             /\ contexts[k] >= 1
             /\ outputs[k] >= 1 => contexts[k] >= 2
             /\ \A v \in Runner \ {u} : Generating(v, k) => contexts[k] >= 2
    BY DEF OracleStory, ContextsCounted
  <2>2. CASE k # j
    BY <1>1, <1>2, <1>m, <2>1, <2>2
  <2>3. CASE k = j
    BY <1>1, <1>2, <1>m, <2>1, <2>3
  <2>4. QED
    BY <2>2, <2>3
<1>5. ArchivedFirst'
  BY <1>1, <1>m DEF OracleStory, ArchivedFirst
<1>6. AnalysedFirst'
  <2>1. \A v \in Runner : Handling(v, "analyse")' => outputs'[run'[v].job] >= 1
    BY <1>1, <1>m DEF OracleStory, AnalysedFirst, Steps
  <2>2. \A v \in Runner : Handling(v, "return")' \/ run'[v].pc = "returned" =>
          Delivered(run[v].job)'
    BY <1>1, <1>m DEF OracleStory, AnalysedFirst, Steps, Delivered
  <2>3. QED
    BY <1>3, <2>1, <2>2 DEF AnalysedFirst
<1>7. NoCallWasted'
  BY <1>1, <1>m DEF OracleStory, NoCallWasted
<1>8. QED
  BY <1>3, <1>4, <1>5, <1>6, <1>7 DEF OracleStory

\* From the call to the commit the generation stays under way, and the sidecar
\* comes before the commit.
LEMMA GenerationStory ==
  ASSUME OwnTypeOK, HandlerHasJob, OracleStory, NEW w \in Runner,
         UNCHANGED allVars, UNCHANGED <<contexts, outputs, analysed>>,
         NEW step \in {"raw", "sidecar", "commit"}, Proceed(w, step),
         Generating(w, run[w].job),
         \A k \in Job : complete'[k] >= complete[k],
         step = "commit" =>
           run[w].job \in Synthetic \/ complete'[run[w].job] >= 1,
         complete' \in [Job -> Nat]
  PROVE  OracleStory'
<1>1. /\ run[w].pc = "working" /\ step \in Steps
      /\ step \in {"call", "raw", "sidecar", "commit"}
      /\ at[w] \in {"call", "raw", "sidecar", "commit"}
  BY DEF Generating, Steps
<1>m. /\ run[w].job \in Job
      /\ run' = run /\ rows' = rows /\ overdue' = overdue
      /\ at'[w] = step /\ \A v \in Runner \ {w} : at'[v] = at[v]
      /\ \A v \in Runner \ {w}, k \in Job :
           Generating(v, k)' <=> Generating(v, k)
      /\ \A k \in Job : Generating(w, k)' <=> k = run[w].job
      /\ \A v \in Runner \ {w}, s \in Steps : Handling(v, s)' <=> Handling(v, s)
      /\ \A s \in Steps : Handling(w, s)' <=> s = step
  BY <1>1, ProgressStory
<1>2. OneOutput' /\ CompletedIsAnalysed'
  BY <1>m DEF OracleStory, OneOutput, AnalysedFirst, CompletedIsAnalysed
<1>3. \A v \in Runner, k \in Job : Generating(v, k)' => Generating(v, k)
  BY <1>m
<1>4. ContextsCounted'
  BY <1>3 DEF OracleStory, ContextsCounted
<1>5. ArchivedFirst'
  <2> SUFFICES ASSUME NEW k \in Job \ Synthetic
               PROVE  (/\ outputs[k] >= 1 => complete[k] >= 1
                       /\ \A v \in Runner : Generating(v, k)
                            /\ at[v] = "commit" => complete[k] >= 1)'
    BY DEF ArchivedFirst
  <2>1. /\ complete[k] \in Nat /\ complete'[k] \in Nat
        /\ complete'[k] >= complete[k]
    BY DEF OwnTypeOK
  <2>2. outputs'[k] >= 1 => complete'[k] >= 1
    BY <2>1 DEF OracleStory, ArchivedFirst
  <2>3. ASSUME NEW v \in Runner, Generating(v, k)', at'[v] = "commit"
        PROVE  complete'[k] >= 1
    <3>1. CASE v = w
      BY <1>m, <2>3, <3>1
    <3>2. CASE v # w
      BY <1>m, <2>1, <2>3, <3>2 DEF OracleStory, ArchivedFirst
    <3>3. QED
      BY <3>1, <3>2
  <2>4. QED
    BY <2>2, <2>3
<1>6. AnalysedFirst'
  <2>1. \A v \in Runner : Handling(v, "analyse")' => outputs'[run'[v].job] >= 1
    BY <1>1, <1>m DEF OracleStory, AnalysedFirst, Steps
  <2>2. \A v \in Runner : Handling(v, "return")' \/ run'[v].pc = "returned" =>
          Delivered(run[v].job)'
    BY <1>1, <1>m DEF OracleStory, AnalysedFirst, Steps, Delivered
  <2>3. QED
    BY <1>2, <2>1, <2>2 DEF AnalysedFirst
<1>7. NoCallWasted'
  BY <1>1, <1>m DEF OracleStory, NoCallWasted
<1>8. QED
  BY <1>2, <1>4, <1>5, <1>6, <1>7 DEF OracleStory

\* The store accepts an output only of the one generation there has been.
LEMMA CommitStory ==
  ASSUME OwnTypeOK, HandlerHasJob, OneHandler, OracleStory, NEW w \in Runner,
         at[w] = "commit", run[w].pc = "working", UNCHANGED allVars,
         run[w].job \in Synthetic \/ OneContextMatches(run[w].job),
         outputs' = Counted(outputs, run[w].job), Proceed(w, "analyse"),
         UNCHANGED <<contexts, complete, analysed>>
  PROVE  OracleStory'
<1> DEFINE j == run[w].job
<1>1. "analyse" \in Steps
  BY DEF Steps
<1>m. /\ run[w].job \in Job
      /\ run' = run /\ rows' = rows /\ overdue' = overdue
      /\ at'[w] = "analyse" /\ \A v \in Runner \ {w} : at'[v] = at[v]
      /\ \A v \in Runner \ {w}, k \in Job :
           Generating(v, k)' <=> Generating(v, k)
      /\ \A k \in Job : ~Generating(w, k)'
      /\ \A v \in Runner \ {w}, s \in Steps : Handling(v, s)' <=> Handling(v, s)
      /\ \A s \in Steps : Handling(w, s)' <=> s = "analyse"
  BY <1>1, ProgressStory
<1>2. /\ outputs'[j] = outputs[j] + 1
      /\ \A k \in Job \ {j} : outputs'[k] = outputs[k]
      /\ \A k \in Job : outputs[k] \in Nat
  BY <1>m, CountedType DEF OwnTypeOK
<1>3. Generating(w, j)
  BY DEF Generating
<1>4. ASSUME j \notin Synthetic
      PROVE  /\ contexts[j] = 1 /\ outputs[j] = 0 /\ complete[j] >= 1
             /\ \A v \in Runner \ {w} : ~Generating(v, j)
  <2>1. contexts[j] = 1
    BY <1>4 DEF OneContextMatches
  <2>2. outputs[j] >= 1 => contexts[j] >= 2
    BY <1>3, <1>4, <1>m DEF OracleStory, ContextsCounted
  <2>3. \A v \in Runner \ {w} : Generating(v, j) => contexts[j] >= 2
    BY <1>3, <1>4, <1>m DEF OracleStory, ContextsCounted
  <2>4. complete[j] >= 1
    BY <1>3, <1>4, <1>m DEF OracleStory, ArchivedFirst
  <2>5. outputs[j] = 0
    BY <1>2, <1>m, <2>1, <2>2
  <2>6. QED
    BY <2>1, <2>3, <2>4, <2>5
<1>5. OneOutput'
  BY <1>2, <1>4, <1>m DEF OracleStory, OneOutput
<1>6. ContextsCounted'
  <2> SUFFICES ASSUME NEW k \in Job \ Synthetic
               PROVE  (/\ outputs[k] >= 1 => contexts[k] >= 1
                       /\ \A u \in Runner : Generating(u, k) =>
                            /\ contexts[k] >= 1
                            /\ outputs[k] >= 1 => contexts[k] >= 2
                            /\ \A v \in Runner \ {u} :
                                 Generating(v, k) => contexts[k] >= 2)'
    BY DEF ContextsCounted
  <2>1. /\ outputs[k] >= 1 => contexts[k] >= 1
        /\ \A u \in Runner : Generating(u, k) =>
             /\ contexts[k] >= 1
             /\ outputs[k] >= 1 => contexts[k] >= 2
             /\ \A v \in Runner \ {u} : Generating(v, k) => contexts[k] >= 2
    BY DEF OracleStory, ContextsCounted
  <2>2. CASE k # j
    BY <1>2, <1>m, <2>1, <2>2
  <2>3. CASE k = j
    BY <1>4, <1>m, <2>3
  <2>4. QED
    BY <2>2, <2>3
<1>7. ArchivedFirst'
  <2> SUFFICES ASSUME NEW k \in Job \ Synthetic
               PROVE  (/\ outputs[k] >= 1 => complete[k] >= 1
                       /\ \A v \in Runner : Generating(v, k)
                            /\ at[v] = "commit" => complete[k] >= 1)'
    BY DEF ArchivedFirst
  <2>1. /\ outputs[k] >= 1 => complete[k] >= 1
        /\ \A v \in Runner : Generating(v, k) /\ at[v] = "commit" =>
             complete[k] >= 1
    BY DEF OracleStory, ArchivedFirst
  <2>2. CASE k # j
    BY <1>2, <1>m, <2>1, <2>2
  <2>3. CASE k = j
    BY <1>4, <1>m, <2>3
  <2>4. QED
    BY <2>2, <2>3
<1>8. \A k \in Job : outputs[k] >= 1 => outputs'[k] >= 1
  BY <1>2, <1>m
<1>9. \A k \in Job : Delivered(k) => Delivered(k)'
  BY <1>8 DEF Delivered
<1>10. AnalysedFirst'
  <2>1. \A v \in Runner : v # w /\ Handling(v, "analyse")' =>
          outputs'[run'[v].job] >= 1
    BY <1>1, <1>8, <1>m, HandledJob DEF OracleStory, AnalysedFirst, Handling
  <2>2. outputs'[run'[w].job] >= 1
    BY <1>2, <1>m
  <2>3. ASSUME NEW v \in Runner, Handling(v, "return")' \/ run'[v].pc = "returned"
        PROVE  Delivered(run[v].job)'
    <3>1. Handling(v, "return") \/ run[v].pc = "returned"
      BY <1>m, <2>3 DEF Steps
    <3>2. run[v].job \in Job
      BY <3>1 DEF HandlerHasJob, InHandler, Handling
    <3>3. Delivered(run[v].job)'
      BY <1>9, <1>m, <3>1, <3>2 DEF OracleStory, AnalysedFirst, Delivered
    <3>4. QED
      BY <3>3
  <2>4. CompletedIsAnalysed'
    BY <1>8, <1>m DEF OracleStory, AnalysedFirst, CompletedIsAnalysed
  <2>5. QED
    BY <2>1, <2>2, <2>3, <2>4 DEF AnalysedFirst
<1>11. NoCallWasted'
  <2> SUFFICES ASSUME ~overdue, NEW v \in Runner, run[v].pc = "working",
                      at'[v] \in {"context", "call", "raw", "sidecar", "commit"}
               PROVE  outputs'[run[v].job] = 0
    BY <1>m DEF NoCallWasted
  <2>1. v # w /\ at'[v] = at[v]
    BY <1>m
  <2>2. run[v].job # j /\ run[v].job \in Job
    BY <2>1, HandledJob DEF OneHandler, InHandler
  <2>3. QED
    BY <1>2, <2>1, <2>2 DEF OracleStory, NoCallWasted
<1>12. QED
  BY <1>5, <1>6, <1>7, <1>10, <1>11 DEF OracleStory

\* What is analysed has been recorded.
LEMMA AnalyseStory ==
  ASSUME OwnTypeOK, HandlerHasJob, OracleStory, NEW w \in Runner,
         Handling(w, "analyse"), UNCHANGED allVars,
         analysed' = analysed \cup ({run[w].job} \ Synthetic),
         Proceed(w, "return"), UNCHANGED <<contexts, outputs, complete>>
  PROVE  OracleStory'
<1>1. run[w].pc = "working" /\ "return" \in Steps
  BY DEF Handling, Steps
<1>m. /\ run[w].job \in Job
      /\ run' = run /\ rows' = rows /\ overdue' = overdue
      /\ at'[w] = "return" /\ \A v \in Runner \ {w} : at'[v] = at[v]
      /\ \A v \in Runner \ {w}, k \in Job :
           Generating(v, k)' <=> Generating(v, k)
      /\ \A k \in Job : ~Generating(w, k)'
      /\ \A v \in Runner \ {w}, s \in Steps : Handling(v, s)' <=> Handling(v, s)
      /\ \A s \in Steps : Handling(w, s)' <=> s = "return"
  BY <1>1, ProgressStory
<1>2. OneOutput'
  BY DEF OracleStory, OneOutput
<1>3. ContextsCounted'
  BY <1>m DEF OracleStory, ContextsCounted
<1>4. ArchivedFirst'
  BY <1>m DEF OracleStory, ArchivedFirst
<1>5. \A k : Delivered(k) => Delivered(k)'
  BY DEF Delivered
<1>6. AnalysedFirst'
  <2>1. \A v \in Runner : Handling(v, "analyse")' => outputs'[run'[v].job] >= 1
    BY <1>m DEF OracleStory, AnalysedFirst, Steps
  <2>2. Delivered(run[w].job)'
    BY <1>m DEF OracleStory, AnalysedFirst, Delivered
  <2>3. ASSUME NEW v \in Runner \ {w},
               Handling(v, "return")' \/ run'[v].pc = "returned"
        PROVE  Delivered(run[v].job)'
    <3>1. Handling(v, "return") \/ run[v].pc = "returned"
      BY <1>m, <2>3 DEF Steps
    <3>2. QED
      BY <1>5, <1>m, <3>1 DEF OracleStory, AnalysedFirst, Delivered
  <2>4. CompletedIsAnalysed'
    BY <1>m DEF OracleStory, AnalysedFirst, CompletedIsAnalysed
  <2>5. QED
    BY <2>1, <2>2, <2>3, <2>4 DEF AnalysedFirst
<1>7. NoCallWasted'
  BY <1>m DEF OracleStory, NoCallWasted
<1>8. QED
  BY <1>2, <1>3, <1>4, <1>6, <1>7 DEF OracleStory

\* A handler that raises or returns leaves its work where it is.
LEMMA EndingStory ==
  ASSUME RunnerTypeOK, OwnTypeOK, HandlerHasJob, OracleStory, NEW w \in Runner,
         \/ HandlerRaises(w)
         \/ HandlerReturns(w) /\ Handling(w, "return"),
         Proceed(w, "idle"),
         UNCHANGED <<contexts, outputs, complete, analysed>>
  PROVE  OracleStory'
<1>0. run \in [Runner -> RunState] /\ "idle" \in Steps /\ "idle" \notin Past
  BY DEF RunnerTypeOK, Steps, Past
<1>1. at'[w] = "idle" /\ \A v \in Runner \ {w} : at'[v] = at[v]
  BY <1>0, ProceedType
<1>2. PICK pc \in {"returned", "raised"} :
        /\ Privately(w, [run[w] EXCEPT !.pc = pc])
        /\ pc = "returned" => Handling(w, "return")
  BY DEF HandlerRaises, HandlerReturns
<1>3. /\ run'[w].pc = pc /\ run'[w].job = run[w].job
      /\ \A v \in Runner \ {w} : run'[v] = run[v]
      /\ rows' = rows /\ overdue' = overdue
  BY <1>0, <1>2 DEF Privately, RunState, vars, history
<1>4. QED
  BY <1>0, <1>1, <1>2, <1>3, QuietStory

\* The handler's steps keep the invariant.
LEMMA HandlerStory ==
  ASSUME RunnerTypeOK, OwnTypeOK, HandlerHasJob, OneHandler, OracleStory,
         NEW w \in Runner, HandlerStep(w)
  PROVE  OracleStory'
<1>1. CASE LookUp(w)
  BY <1>1, LookUpStory
<1>2. CASE AppendContext(w)
  BY <1>2, AppendContextStory
<1>3. CASE ProviderAnswers(w)
  <2>1. Generating(w, run[w].job) /\ complete' = complete
    BY <1>3 DEF ProviderAnswers, Handling, Generating
  <2>2. /\ \A k \in Job : complete'[k] >= complete[k]
        /\ complete' \in [Job -> Nat]
    BY <2>1 DEF OwnTypeOK
  <2>3. PICK step \in {"raw", "commit"} :
          Proceed(w, step) /\ (step = "commit" => run[w].job \in Synthetic)
    BY <1>3 DEF ProviderAnswers
  <2>4. QED
    BY <1>3, <2>1, <2>2, <2>3, GenerationStory DEF ProviderAnswers
<1>4. CASE ProviderFails(w)
  <2>1. CASE Raise(w)
    BY <1>4, <2>1, EndingStory DEF ProviderFails, Raise
  <2>2. CASE UNCHANGED <<allVars, at>>
    <3>1. /\ run' = run /\ rows' = rows /\ overdue' = overdue /\ at' = at
          /\ UNCHANGED <<contexts, outputs, complete, analysed>>
      BY <1>4, <2>2 DEF ProviderFails, allVars, vars, runnerVars, history
    <3>2. QED
      BY <3>1, QuietStory
  <2>3. QED
    BY <1>4, <2>1, <2>2 DEF ProviderFails
<1>5. CASE WriteArchive(w)
  <2>1. CASE /\ Handling(w, "raw") /\ Proceed(w, "sidecar")
             /\ UNCHANGED <<allVars, complete>>
    <3>1. /\ Generating(w, run[w].job) /\ complete' = complete
          /\ \A k \in Job : complete'[k] >= complete[k]
          /\ complete' \in [Job -> Nat]
      BY <2>1 DEF OwnTypeOK, Handling, Generating
    <3>2. QED
      BY <1>5, <2>1, <3>1, GenerationStory DEF WriteArchive
  <2>2. CASE /\ Handling(w, "sidecar") /\ Proceed(w, "commit")
             /\ complete' = Counted(complete, run[w].job)
             /\ UNCHANGED allVars
    <3>1. run[w].job \in Job /\ Generating(w, run[w].job)
      BY <2>2, HandledJob DEF Handling, Generating
    <3>2. /\ complete' \in [Job -> Nat]
          /\ complete'[run[w].job] = complete[run[w].job] + 1
          /\ \A k \in Job \ {run[w].job} : complete'[k] = complete[k]
          /\ \A k \in Job : complete[k] \in Nat
      BY <2>2, <3>1, CountedType DEF OwnTypeOK
    <3>3. /\ \A k \in Job : complete'[k] >= complete[k]
          /\ complete'[run[w].job] >= 1
      BY <3>1, <3>2
    <3>4. QED
      BY <1>5, <2>2, <3>1, <3>2, <3>3, GenerationStory DEF WriteArchive
  <2>3. CASE Raise(w) /\ UNCHANGED complete
    BY <1>5, <2>3, EndingStory DEF WriteArchive, Raise
  <2>4. QED
    BY <1>5, <2>1, <2>2, <2>3 DEF WriteArchive
<1>6. CASE Commit(w)
  <2>1. /\ at[w] = "commit" /\ run[w].pc = "working"
        /\ UNCHANGED <<contexts, complete, analysed>>
    BY <1>6 DEF Commit, Handling
  <2>2. CASE run[w].job \in Synthetic \/ OneContextMatches(run[w].job)
    BY <1>6, <2>1, <2>2, CommitStory DEF Commit
  <2>3. CASE ~(run[w].job \in Synthetic \/ OneContextMatches(run[w].job))
    BY <1>6, <2>1, <2>3, EndingStory DEF Commit, Raise
  <2>4. QED
    BY <2>2, <2>3
<1>7. CASE Analyse(w)
  <2>1. CASE Raise(w) /\ UNCHANGED analysed
    BY <1>7, <2>1, EndingStory DEF Analyse, Raise
  <2>2. CASE /\ analysed' = analysed \cup ({run[w].job} \ Synthetic)
             /\ Proceed(w, "return") /\ UNCHANGED allVars
    BY <1>7, <2>2, AnalyseStory DEF Analyse
  <2>3. QED
    BY <1>7, <2>1, <2>2 DEF Analyse
<1>8. CASE Return(w)
  BY <1>8, EndingStory DEF Return, requestVars
<1>9. QED
  BY <1>1, <1>2, <1>3, <1>4, <1>5, <1>6, <1>7, <1>8 DEF HandlerStep

(***************************************************************************)
(* Theorems                                                                *)
(***************************************************************************)
\* In every reachable state the state is typed, and the contexts, answers,
\* outputs and analyses of a request tell the story that OracleStory spells out.
THEOREM OracleInvariant ==
  OracleSpec => [](OracleTypeOK /\ RunnerInv /\ OracleStory)
<1>1. OracleInit => OwnTypeOK /\ OracleStory
  BY OwnInitType, StoryInit
<1>2. QueueInv /\ RunnerInv => OneHandler
  BY DEF RunnerInv, HandlerHasJob, LeaseOnTime, Owns, OneHandler
<1>3. /\ RunnerTypeOK /\ QueueInv /\ RunnerInv
      /\ OwnTypeOK /\ OracleStory /\ [OracleNext]_oracleAllVars
      => OwnTypeOK' /\ OracleStory'
  <2> SUFFICES ASSUME RunnerTypeOK, QueueInv, RunnerInv,
                      OwnTypeOK, OracleStory, [OracleNext]_oracleAllVars
               PROVE  OwnTypeOK' /\ OracleStory'
    OBVIOUS
  <2>1. HandlerHasJob /\ OneHandler
    BY <1>2 DEF RunnerInv
  <2>2. OwnTypeOK'
    BY <2>1, OwnNextType
  <2>3. OracleStory'
    BY <2>1, LoopStory, OutsideStory, HandlerStory DEF OracleNext
  <2>4. QED
    BY <2>2, <2>3
<1>4. OracleSpec => [](RunnerTypeOK /\ QueueInv /\ RunnerInv)
  BY OracleUsesLoop, RunnerInvariant, PTL
<1>5. OracleSpec => [](OwnTypeOK /\ OracleStory)
  BY <1>1, <1>3, <1>4, PTL DEF OracleSpec
<1>6. RunnerTypeOK /\ OwnTypeOK => OracleTypeOK
  BY OracleTypes
<1>7. QED
  BY <1>4, <1>5, <1>6, PTL

\* A genuine request has at most one output, whatever expired or crashed while
\* it was generated, and its raw answer is archived.
THEOREM OneArchivedOutput == OracleSpec => []OracleInv
<1>1. OracleTypeOK /\ OracleStory => OracleInv
  <2> SUFFICES ASSUME OracleTypeOK, OracleStory,
                      NEW j \in Job \ Synthetic
               PROVE  outputs[j] <= complete[j]
    BY DEF OracleInv, OracleStory, OutputIsArchived
  <2>1. outputs[j] \in Nat /\ complete[j] \in Nat
    BY OracleTypes DEF OwnTypeOK
  <2>2. outputs[j] <= 1 /\ (outputs[j] >= 1 => complete[j] >= 1)
    BY DEF OracleStory, OneOutput, ArchivedFirst
  <2>3. QED
    BY <2>1, <2>2
<1>2. QED
  BY <1>1, OracleInvariant, PTL

\* A job is completed only when its output is durable and was handed to the
\* analysis.
THEOREM CompletedAfterAnalysis == OracleSpec => []CompletedIsAnalysed
<1>1. OracleStory => CompletedIsAnalysed
  BY DEF OracleStory, AnalysedFirst
<1>2. QED
  BY <1>1, OracleInvariant, PTL

\* As long as all heartbeats have been on time, nobody is on its way to the
\* provider for a request that has its output.
THEOREM AnsweredOnce == OracleSpec => []NoSecondCall
<1>1. OracleStory => NoSecondCall
  BY DEF OracleStory, NoCallWasted, NoSecondCall
<1>2. QED
  BY <1>1, OracleInvariant, PTL

===============================================================================
