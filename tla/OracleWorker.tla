----------------------------- MODULE OracleWorker -----------------------------
(***************************************************************************)
(* The handler of oracle.generate jobs: _execute_oracle_job of             *)
(* src/src/oracle_lab/services.py and OracleWorker.run of                  *)
(* src/src/oracle_lab/oracle_worker.py, run by the processes of            *)
(* AutomationRunner, with the checks the event store makes when an         *)
(* oracle.output is appended and the write-once archive of raw answers.    *)
(*                                                                         *)
(* A job stands for its oracle.request event: the queue's idempotency key  *)
(* is the request.  The context is built from the history up to the        *)
(* request, so every attempt builds the same one, with the same hash.      *)
(* Every append is a transaction and every file write is a step of its     *)
(* own; the process may die and its lease may expire between any two.  The *)
(* usage events are left out: each is appended with the output or failure  *)
(* it belongs to, and no step here reads them.                             *)
(***************************************************************************)
EXTENDS AutomationRunner

CONSTANTS
  Synthetic,      \* the jobs whose answers are synthetic fixtures
  MaxRetries,     \* max_retries of the provider: retries within one attempt
  CallCap         \* bound of the model on the answers a request may get

ASSUME OracleAssumption ==
  /\ Synthetic \subseteq Job
  /\ MaxRetries \in Nat /\ CallCap \in Nat

VARIABLES
  at,             \* the next step of each runner's handler
  failures,       \* provider errors seen by the call of each runner's handler
  contexts,       \* oracle.context_built events of each request
  outputs,        \* oracle.output events of each request
  answers,        \* answers the provider gave, and billed, for each request
  complete,       \* raw answers in the archive whose sidecar is written, too
  analysed,       \* requests whose output was handed to the host analysis
  refused         \* history: answers refused although there was no output

requestVars == <<contexts, outputs, answers, complete, analysed, refused>>
oracleVars == <<at, failures, requestVars>>
oracleAllVars == <<allVars, oracleVars>>

Steps == {"idle", "lookup", "recheck", "context", "call", "raw", "sidecar",
          "commit", "analyse", "return"}

OracleTypeOK ==
  /\ RunnerTypeOK
  /\ at \in [Runner -> Steps]
  /\ failures \in [Runner -> 0 .. MaxRetries]
  /\ \A f \in {contexts, outputs, answers, complete} :
       f \in [Job -> Nat]
  /\ analysed \subseteq Job
  /\ refused \in [Job -> Nat]

OracleInit ==
  /\ RunnerInit
  /\ at = [w \in Runner |-> "idle"]
  /\ failures = [w \in Runner |-> 0]
  /\ contexts = [j \in Job |-> 0] /\ outputs = [j \in Job |-> 0]
  /\ answers = [j \in Job |-> 0]
  /\ complete = [j \in Job |-> 0] /\ analysed = {}
  /\ refused = [j \in Job |-> 0]

Handling(w, step) == run[w].pc = "working" /\ at[w] = step
Proceed(w, step) == at' = [at EXCEPT ![w] = step]
Counted(f, j) == [f EXCEPT ![j] = @ + 1]

\* The handler raises; the runner fails the job.
Raise(w) == HandlerRaises(w) /\ Proceed(w, "idle")

(***************************************************************************)
(* _execute_oracle_job                                                     *)
(***************************************************************************)
Begin(w) ==
  /\ CheckRecovery(w)
  /\ Proceed(w, "lookup")
  /\ failures' = [failures EXCEPT ![w] = 0]
  /\ UNCHANGED requestVars

\* Faulty variants, for mutation: an output is not looked for, or it is
\* returned as it is.
PriorOutputUnseen(w, found, missing) == Proceed(w, missing)

PriorOutputReturned(w, found, missing) ==
  Proceed(w, IF outputs[run[w].job] > 0 THEN "return" ELSE missing)

PriorOutput(w, found, missing) ==
  Proceed(w, IF outputs[run[w].job] > 0 THEN found ELSE missing)

\* A request with an output is not generated again; both the service and the
\* worker look, the worker after it has validated the context.
LookUp(w) ==
  /\ \/ Handling(w, "lookup") /\ PriorOutput(w, "analyse", "recheck")
     \/ Handling(w, "recheck") /\ PriorOutput(w, "analyse", "context")
  /\ UNCHANGED <<allVars, failures, requestVars>>

AppendContext(w) ==
  /\ Handling(w, "context")
  /\ contexts' = Counted(contexts, run[w].job)
  /\ Proceed(w, "call")
  /\ UNCHANGED <<allVars, failures, outputs, answers, complete,
                 analysed, refused>>

(***************************************************************************)
(* OracleWorker.run                                                        *)
(***************************************************************************)
ProviderAnswers(w) ==
  /\ Handling(w, "call")
  /\ answers[run[w].job] < CallCap
  /\ answers' = Counted(answers, run[w].job)
  /\ Proceed(w, IF run[w].job \in Synthetic THEN "commit" ELSE "raw")
  /\ UNCHANGED <<allVars, failures, contexts, outputs, complete,
                 analysed, refused>>

\* The failure and its usage are one append; an error of the HTTP layer is
\* archived first, and a failing archive raises without them.
ProviderFails(w) ==
  /\ Handling(w, "call")
  /\ \/ /\ failures[w] < MaxRetries
        /\ failures' = [failures EXCEPT ![w] = @ + 1]
        /\ UNCHANGED <<allVars, at>>
     \/ Raise(w) /\ UNCHANGED failures
  /\ UNCHANGED <<contexts, outputs, answers, complete, analysed, refused>>

\* The raw bytes, then the sidecar; an error is recorded and raised.
WriteArchive(w) ==
  /\ \/ /\ Handling(w, "raw") /\ Proceed(w, "sidecar")
        /\ UNCHANGED <<allVars, complete>>
     \/ /\ Handling(w, "sidecar") /\ Proceed(w, "commit")
        /\ complete' = Counted(complete, run[w].job)
        /\ UNCHANGED allVars
     \/ /\ at[w] \in {"raw", "sidecar"} /\ Raise(w)
        /\ UNCHANGED complete
  /\ UNCHANGED <<failures, contexts, outputs, answers, analysed,
                 refused>>

\* A faulty variant, for mutation: any matching context will do.
SomeContextMatches(j) == contexts[j] >= 1

\* The store wants exactly one context event of the request with this hash.
OneContextMatches(j) == contexts[j] = 1

\* Output and usage are one append, which the store validates.
Commit(w) ==
  LET j == run[w].job
      accepted == j \in Synthetic \/ OneContextMatches(j)
  IN /\ Handling(w, "commit")
     /\ IF accepted
        THEN /\ outputs' = Counted(outputs, j)
             /\ Proceed(w, "analyse")
             /\ UNCHANGED <<allVars, refused>>
        ELSE /\ Raise(w)
             /\ refused' = IF outputs[j] = 0 THEN Counted(refused, j)
                           ELSE refused
             /\ UNCHANGED outputs
     /\ UNCHANGED <<failures, contexts, answers, complete, analysed>>

(***************************************************************************)
(* _postprocess_oracle_output                                              *)
(***************************************************************************)
\* The analysis jobs are enqueued in one transaction, under keys that make a
\* second time have no effect.
Analyse(w) ==
  /\ Handling(w, "analyse")
  /\ \/ /\ analysed' = analysed \cup ({run[w].job} \ Synthetic)
        /\ Proceed(w, "return") /\ UNCHANGED allVars
     \/ Raise(w) /\ UNCHANGED analysed
  /\ UNCHANGED <<failures, contexts, outputs, answers, complete,
                 refused>>

Return(w) ==
  /\ Handling(w, "return")
  /\ HandlerReturns(w) /\ Proceed(w, "idle")
  /\ UNCHANGED <<failures, requestVars>>

HandlerStep(w) ==
  \/ LookUp(w) \/ AppendContext(w) \/ ProviderAnswers(w) \/ ProviderFails(w)
  \/ WriteArchive(w) \/ Commit(w) \/ Analyse(w) \/ Return(w)

\* Everything the runner does outside the handler.
LoopStep(w) ==
  /\ \/ Start(w) \/ ReadPauses(w) \/ ReadGate(w) \/ ReadArchives(w)
     \/ \E j \in Job, late \in ClockLag : TakeJob(w, j, late)
     \/ \E late \in ClockLag : TakeNothing(w, late)
     \/ Beat(w) \/ Acknowledge(w) \/ FailJob(w)
  /\ UNCHANGED oracleVars

Die(w) ==
  /\ Crash(w) /\ Proceed(w, "idle")
  /\ UNCHANGED <<failures, requestVars>>

OracleNext ==
  \/ \E w \in Runner : LoopStep(w) \/ Begin(w) \/ HandlerStep(w) \/ Die(w)
  \/ (QueueCommand \/ TimePasses) /\ UNCHANGED oracleVars

OracleSpec == OracleInit /\ [][OracleNext]_oracleAllVars

(***************************************************************************)
(* Properties                                                              *)
(***************************************************************************)
\* A genuine request has at most one output, even when two handlers of it
\* run at once because a lease expired under the first (run looks for prior
\* outputs long before it commits; the store counts the contexts).
OneOutput == \A j \in Job \ Synthetic : outputs[j] <= 1

\* Every committed genuine output has its raw answer and sidecar in the
\* archive, whatever write failed and wherever a process died.
OutputIsArchived == \A j \in Job \ Synthetic : outputs[j] <= complete[j]

\* What is recorded of a request is typed, single and archived.
OracleInv == OracleTypeOK /\ OneOutput /\ OutputIsArchived

\* A job is acknowledged as completed only when its output is durable and was
\* handed to the analysis, also if an earlier attempt committed the output and
\* died before that.
CompletedIsAnalysed ==
  \A j \in Job : rows[j].status = "completed" =>
    outputs[j] >= 1 /\ (j \in analysed \/ j \in Synthetic)

\* As long as all heartbeats have been on time, nobody is on its way to the
\* provider for a request that has its output: a retry of later work never
\* bills it again.
NoSecondCall ==
  ~overdue => \A w \in Runner :
    (run[w].pc = "working" /\ at[w] \in {"context", "call", "raw", "sidecar"})
      => outputs[run[w].job] = 0

\* A retry can succeed where the attempt before it failed: the answer to a
\* request that has no output yet is never refused.
RetryCanDeliver == \A j \in Job : refused[j] = 0

(***************************************************************************)
(* The inductive invariant of the proofs.                                  *)
(***************************************************************************)
\* w is between the context it appended for j and the output it commits.
Generating(w, j) ==
  /\ run[w].pc = "working" /\ run[w].job = j
  /\ at[w] \in {"call", "raw", "sidecar", "commit"}

\* Every generation has appended a context of its own, and so has the one whose
\* output is recorded: exactly one context means nobody else is under way.
ContextsCounted ==
  \A j \in Job \ Synthetic :
    /\ outputs[j] >= 1 => contexts[j] >= 1
    /\ \A w \in Runner : Generating(w, j) =>
         /\ contexts[j] >= 1
         /\ outputs[j] >= 1 => contexts[j] >= 2
         /\ \A v \in Runner \ {w} : Generating(v, j) => contexts[j] >= 2

\* The archive is complete before the commit.
ArchivedFirst ==
  \A j \in Job \ Synthetic :
    /\ outputs[j] >= 1 => complete[j] >= 1
    /\ \A w \in Runner :
         Generating(w, j) /\ at[w] = "commit" => complete[j] >= 1

Delivered(j) == outputs[j] >= 1 /\ (j \in analysed \/ j \in Synthetic)

\* The analysis follows the commit, and the handler returns after both.
AnalysedFirst ==
  /\ \A w \in Runner : Handling(w, "analyse") => outputs[run[w].job] >= 1
  /\ \A w \in Runner :
       Handling(w, "return") \/ run[w].pc = "returned" => Delivered(run[w].job)
  /\ CompletedIsAnalysed

\* Nobody generates, up to the commit, for a request that has its output.
NoCallWasted ==
  ~overdue => \A w \in Runner :
    (run[w].pc = "working"
      /\ at[w] \in {"context", "call", "raw", "sidecar", "commit"})
        => outputs[run[w].job] = 0

OracleStory ==
  /\ OneOutput /\ ContextsCounted /\ ArchivedFirst
  /\ AnalysedFirst /\ NoCallWasted

===============================================================================
