------------------------------- MODULE ToolLoop -------------------------------
(***************************************************************************)
(* One automatic chain of tools and oracle continuations: request_tool,    *)
(* approve_tool, _execute_tool_job, _dispatch_tool_intent, _request and    *)
(* _stop_automation of src/src/oracle_lab/services.py, run by processes on *)
(* the job queue.                                                          *)
(*                                                                         *)
(* The queue is taken for what ClaimService says of it, which JobQueue is  *)
(* proved to implement: attempts and deadlines are left open, so that a    *)
(* claim may lapse at any time and any number of attempts may follow.      *)
(*                                                                         *)
(* A tool job executes one tool.request, an oracle job answers one         *)
(* oracle.request; each request names what caused it and carries the depth *)
(* and the budget that are left.  All events of a model share the          *)
(* correlation id of the chain.  Every look at the log and every append is *)
(* a step.                                                                 *)
(***************************************************************************)
EXTENDS ClaimService, Naturals, Sequences

CONSTANTS
  ToolJob,        \* jobs of kind tool.execute; the others are oracle.generate
  Root,           \* the tool job the operator asks for
  Asks,           \* the tool jobs whose policy mode is "ask"
  RootState,      \* the depths and budgets <<d, b>> the root may have
  MaxDepth,       \* policies.max_auto_depth
  Signature,      \* the tool results that the loop detector tells apart
  MaxFaults,      \* bound of the model on deaths and errors in a job
  MaxOverdue      \* bound of the model on leases that expire under a process

ASSUME ToolAssumption ==
  /\ Job \subseteq Nat \ {0}
  /\ Root \in ToolJob /\ ToolJob \subseteq Job /\ Asks \subseteq ToolJob
  /\ RootState \subseteq Nat \X Nat
  /\ MaxDepth \in Nat /\ MaxFaults \in Nat /\ MaxOverdue \in Nat
  /\ "error" \notin Signature /\ NoRunner \notin Runner

VARIABLES
  hand,           \* what each process does, and what it has read
  faults,         \* how many processes died, or got an error, in a job
  overdue,        \* how many leases expired under a live process
  event,          \* the request event each job was enqueued for
  approvals,      \* tool requests with a tool.approved event
  results,        \* the tool.output and tool.error events of each request
  billed,         \* the results that usage.tool events were recorded for
  adapters,       \* the results that tool.result_adapted events were made of
  output,         \* what the oracle answered
  intents,        \* analysis.tool_intent_detected events of each output
  stops           \* system.automation_stopped events, by job and reason

chainVars == <<event, approvals, results, billed, adapters, output, intents,
               stops>>
toolVars == <<claimVars, hand, faults, overdue, chainVars>>

NoJob == 0

OracleJob == Job \ ToolJob

Steps == {"idle", "find", "execute", "usage", "bill", "judge",
          "adapt", "continue", "request", "enqueue",
          "generate", "analyse", "propose", "dispatch", "ask",
          "return", "raised", "failing"}

\* `job` is the job of the process, until it is acknowledged or failed; `item` is
\* the result, or the intent, it is at; `adapter` is the adapter it goes on
\* from, `next` the job it is to enqueue.
HandState == [step : Steps, job : Job \cup {NoJob}, item : Nat,
              adapter : Nat, next : Job \cup {NoJob}]

IdleHand == [step |-> "idle", job |-> NoJob, item |-> 0, adapter |-> 0,
             next |-> NoJob]

\* `link` tells which adapter, or which intent, of the cause it was.
RequestRecord == [cause : Job \cup {NoJob}, link : Nat, depth : Nat, budget : Nat]
NoRequest == [cause |-> NoJob, link |-> 0, depth |-> 0, budget |-> 0,
              absent |-> TRUE]
Requested(j) == event[j] # NoRequest

Reasons == {"max_depth", "budget_exhausted", "repeated_equivalent_event",
            "tool_failure", "provider_failure", "postprocessing_failure"}

ToolTypeOK ==
  /\ phase \in [Job -> {"new", "waiting", "claimed", "parked", "settled"}]
  /\ holder \in [Job -> Runner \cup {NoRunner}]
  /\ hand \in [Runner -> HandState]
  /\ faults \in 0 .. MaxFaults /\ overdue \in 0 .. MaxOverdue
  /\ event \in [Job -> RequestRecord \cup {NoRequest}]
  /\ approvals \subseteq Asks
  /\ results \in [ToolJob -> Seq(Signature \cup {"error"})]
  /\ billed \in [ToolJob -> Seq(Nat)] /\ adapters \in [ToolJob -> Seq(Nat)]
  /\ output \in [OracleJob -> {"none", "plain", "intent"}]
  /\ intents \in [OracleJob -> Nat]
  /\ stops \subseteq Job \X Reasons

ToolInit ==
  /\ ClaimInit
  /\ hand = [w \in Runner |-> IdleHand] /\ faults = 0 /\ overdue = 0
  /\ event = [j \in Job |-> NoRequest]
  /\ approvals = {} /\ stops = {}
  /\ results = [t \in ToolJob |-> <<>>]
  /\ billed = [t \in ToolJob |-> <<>>]
  /\ adapters = [t \in ToolJob |-> <<>>]
  /\ output = [o \in OracleJob |-> "none"]
  /\ intents = [o \in OracleJob |-> 0]

Handling(w, step) == hand[w].step = step
Mine(w) == hand[w].job
Proceed(w, h) == hand' = [hand EXCEPT ![w] = h]
GoTo(w, step) == Proceed(w, [hand[w] EXCEPT !.step = step])
Afresh(w, step) == [IdleHand EXCEPT !.step = step, !.job = Mine(w)]

\* What most steps leave alone.
loopVars == <<claimVars, faults, overdue>>

\* A step that reads.
Looks(w, h) == Proceed(w, h) /\ UNCHANGED <<loopVars, chainVars>>

\* One stop for a source and a reason.
StopAutomation(j, reason) == stops' = stops \cup {<<j, reason>>}

StopAndReturn(w, reason) ==
  /\ StopAutomation(Mine(w), reason)
  /\ Proceed(w, Afresh(w, "return"))
  /\ UNCHANGED <<loopVars, event, approvals, results, billed, adapters, output,
                 intents>>

\* A request of the given cause; the first job of its kind that has none yet
\* stands for it.  The jobs of a model bound the length of a chain.
AppendRequest(j, cause, link, depth, budget) ==
  /\ ~Requested(j) /\ j # Root
  /\ \A k \in Job : (k < j /\ (k \in ToolJob <=> j \in ToolJob)) => Requested(k)
  /\ event' = [event EXCEPT ![j] = [cause |-> cause, link |-> link,
                                    depth |-> depth, budget |-> budget]]

RequestsOf(cause, link) ==
  {j \in Job : Requested(j) /\ event[j].cause = cause /\ event[j].link = link}

(***************************************************************************)
(* The operator                                                            *)
(***************************************************************************)
RequestTool ==
  /\ ~Requested(Root)
  /\ \E s \in RootState :
       event' = [event EXCEPT ![Root] = [cause |-> NoJob, link |-> 0,
                                         depth |-> s[1], budget |-> s[2]]]
  /\ UNCHANGED <<loopVars, hand, approvals, results, billed, adapters, output,
                 intents, stops>>

ApproveTool(t) ==
  /\ t \in Asks /\ Requested(t)
  /\ approvals' = approvals \cup {t}
  /\ UNCHANGED <<loopVars, hand, event, results, billed, adapters, output,
                 intents, stops>>

MayRun(j) == j \in Asks => j \in approvals

\* The key of the job is that of its request: a second call changes nothing, and
\* neither does one that is made for a tool whose mode is "ask", approved or not.
EnqueueOnce(j) ==
  IF phase[j] = "new" /\ j \notin Asks THEN Submit(j) ELSE UNCHANGED claimVars

\* The second half of request_tool and approve_tool.
ScheduleTool(t) ==
  /\ Requested(t) /\ MayRun(t) /\ Submit(t)
  /\ UNCHANGED <<hand, faults, overdue, chainVars>>

\* The operator retries a dead letter.
Retry(j) == Revive(j) /\ UNCHANGED <<hand, faults, overdue, chainVars>>

(***************************************************************************)
(* The loop of a process                                                   *)
(***************************************************************************)
\* A worker id is new for every run: no row has it.
TakeJob(w, j) ==
  /\ Handling(w, "idle") /\ \A k \in Job : holder[k] # w
  /\ Claim(w, j, {}, {})
  /\ Proceed(w, [IdleHand EXCEPT
                   !.step = IF j \in ToolJob THEN "find" ELSE "generate",
                   !.job = j])
  /\ UNCHANGED <<faults, overdue, chainVars>>

\* The lease of a job expires and is requeued; with its attempts used up the
\* job becomes a dead letter.
Expire(j) ==
  /\ Lapse({j}, {}) \/ Lapse({}, {j})
  /\ IF \E w \in Runner : holder[j] = w /\ Mine(w) = j
     THEN overdue < MaxOverdue /\ overdue' = overdue + 1
     ELSE UNCHANGED overdue
  /\ UNCHANGED <<hand, faults, chainVars>>

Holds(w) == holder[Mine(w)] = w

\* A process whose lease is gone leaves the loop.
LeavesLoop(w) ==
  ~Holds(w) /\ Looks(w, IdleHand)

Acknowledge(w) ==
  /\ Handling(w, "return")
  /\ \/ /\ Release(w, Mine(w), "settled")
        /\ Proceed(w, IdleHand) /\ UNCHANGED <<faults, overdue, chainVars>>
     \/ LeavesLoop(w)

\* Any look, append or call may raise, and so does the end of a handler whose
\* heartbeats failed.
StepRaises(w) ==
  /\ hand[w].step \notin {"idle", "raised", "failing"} /\ faults < MaxFaults
  /\ faults' = faults + 1 /\ Proceed(w, Afresh(w, "raised"))
  /\ UNCHANGED <<claimVars, overdue, chainVars>>

\* _fail_automation_job: the stop is appended after the transaction that fails
\* the job.
FailJob(w) ==
  /\ Handling(w, "raised")
  /\ \/ /\ \E outcome \in {"waiting", "parked"} : Release(w, Mine(w), outcome)
        /\ GoTo(w, "failing") /\ UNCHANGED <<faults, overdue, chainVars>>
     \/ LeavesLoop(w)

FailureReason(j) ==
  IF j \in ToolJob THEN "tool_failure"
  ELSE IF output[j] # "none" THEN "postprocessing_failure"
  ELSE "provider_failure"

StopAfterFailure(w) ==
  /\ Handling(w, "failing")
  /\ StopAutomation(Mine(w), FailureReason(Mine(w)))
  /\ Proceed(w, IdleHand)
  /\ UNCHANGED <<loopVars, event, approvals, results, billed, adapters, output,
                 intents>>

\* A process that has no job leaves nothing behind when it dies.
Die(w) ==
  /\ ~Handling(w, "idle") /\ faults < MaxFaults
  /\ faults' = faults + 1 /\ Proceed(w, IdleHand)
  /\ UNCHANGED <<claimVars, overdue, chainVars>>

(***************************************************************************)
(* _execute_tool_job                                                       *)
(***************************************************************************)
\* A result that is recorded is used.  The tool.started event has no reader.
FindResult(w) ==
  /\ Handling(w, "find")
  /\ IF results[Mine(w)] # <<>>
     THEN Looks(w, [hand[w] EXCEPT !.step = "usage", !.item = 1])
     ELSE Looks(w, [hand[w] EXCEPT !.step = "execute"])

\* The broker, whose execution nobody else sees before its result is appended;
\* an error of the tool is a result.
Execute(w, outcome) ==
  /\ Handling(w, "execute")
  /\ results' = [results EXCEPT ![Mine(w)] = Append(@, outcome)]
  /\ Proceed(w, [hand[w] EXCEPT !.step = "usage",
                                !.item = Len(results[Mine(w)]) + 1])
  /\ UNCHANGED <<loopVars, event, approvals, billed, adapters, output, intents,
                 stops>>

Members(s) == {s[i] : i \in DOMAIN s}

LookForUsage(w) ==
  /\ Handling(w, "usage")
  /\ Looks(w, [hand[w] EXCEPT
                 !.step = IF hand[w].item \in Members(billed[Mine(w)])
                          THEN "judge" ELSE "bill"])

RecordUsage(w) ==
  /\ Handling(w, "bill")
  /\ billed' = [billed EXCEPT ![Mine(w)] = Append(@, hand[w].item)]
  /\ GoTo(w, "judge")
  /\ UNCHANGED <<loopVars, event, approvals, results, adapters, output, intents,
                 stops>>

Depth(w) == event[Mine(w)].depth
Budget(w) == event[Mine(w)].budget
Outcome(w) == results[Mine(w)][hand[w].item]

\* The signatures of the adapters of a job, and of all adapters of the chain.
Shown(t) == {results[t][i] : i \in Members(adapters[t])}
Seen == UNION {Shown(t) : t \in ToolJob}

\* The adapters made of the result the handler is at.
Adapted(w) == {k \in DOMAIN adapters[Mine(w)] :
                 adapters[Mine(w)][k] = hand[w].item}

StopReason(w) ==
  IF Outcome(w) = "error" THEN "tool_failure"
  ELSE IF Depth(w) >= MaxDepth THEN "max_depth"
  ELSE IF Budget(w) = 0 THEN "budget_exhausted"
  ELSE "repeated_equivalent_event"

EndsHere(w) ==
  \/ Outcome(w) = "error"
  \/ Depth(w) >= MaxDepth \/ Budget(w) = 0 \/ Outcome(w) \in Seen

\* An adapter of the result is gone on from; without one the boundaries are
\* looked at.
Judge(w) ==
  /\ Handling(w, "judge")
  /\ IF Adapted(w) # {}
     THEN \E k \in Adapted(w) :
            /\ \A l \in Adapted(w) : k <= l
            /\ Looks(w, [hand[w] EXCEPT !.step = "continue", !.adapter = k])
     ELSE IF EndsHere(w)
          THEN StopAndReturn(w, StopReason(w))
          ELSE Looks(w, [hand[w] EXCEPT !.step = "adapt"])

Adapt(w) ==
  /\ Handling(w, "adapt")
  /\ adapters' = [adapters EXCEPT ![Mine(w)] = Append(@, hand[w].item)]
  /\ Proceed(w, [hand[w] EXCEPT !.step = "continue",
                                !.adapter = Len(adapters[Mine(w)]) + 1])
  /\ UNCHANGED <<loopVars, event, approvals, results, billed, output, intents,
                 stops>>

\* A faulty variant, for mutation: a continuation is not looked for.
ContinueAnew(w) ==
  /\ Handling(w, "continue")
  /\ IF Budget(w) > 1
     THEN Looks(w, [hand[w] EXCEPT !.step = "request"])
     ELSE StopAndReturn(w, "budget_exhausted")

\* The adapter has cost one of the budget.
Continue(w) ==
  /\ Handling(w, "continue")
  /\ LET continuations == RequestsOf(Mine(w), hand[w].adapter)
     IN IF continuations # {}
        THEN \E o \in continuations :
               Looks(w, [Afresh(w, "enqueue") EXCEPT !.next = o])
        ELSE IF Budget(w) > 1
             THEN Looks(w, [hand[w] EXCEPT !.step = "request"])
             ELSE StopAndReturn(w, "budget_exhausted")

\* A faulty variant, for mutation: the event is appended, the job forgotten.
RequestOracleAlone(w, o) ==
  /\ Handling(w, "request")
  /\ o \in OracleJob
  /\ AppendRequest(o, Mine(w), hand[w].adapter, Depth(w) + 1, Budget(w) - 2)
  /\ GoTo(w, "return")
  /\ UNCHANGED <<loopVars, approvals, results, billed, adapters, output, intents,
                 stops>>

RequestOracle(w, o) ==
  /\ Handling(w, "request")
  /\ o \in OracleJob
  /\ AppendRequest(o, Mine(w), hand[w].adapter, Depth(w) + 1, Budget(w) - 2)
  /\ Proceed(w, [Afresh(w, "enqueue") EXCEPT !.next = o])
  /\ UNCHANGED <<loopVars, approvals, results, billed, adapters, output, intents,
                 stops>>

\* _enqueue_request and _schedule_tool_request; the former may raise at its
\* cost and rate limits (StepRaises).
EnqueueNext(w) ==
  /\ Handling(w, "enqueue")
  /\ EnqueueOnce(hand[w].next)
  /\ Proceed(w, Afresh(w, "return"))
  /\ UNCHANGED <<faults, overdue, chainVars>>

(***************************************************************************)
(* _execute_oracle_job, its output and its analysis                        *)
(***************************************************************************)
\* OracleWorker, as far as the chain sees it: one output, or an error.
Generate(w) ==
  /\ Handling(w, "generate")
  /\ IF output[Mine(w)] = "none"
     THEN \E answer \in {"plain", "intent"} :
            output' = [output EXCEPT ![Mine(w)] = answer]
     ELSE UNCHANGED output
  /\ GoTo(w, "analyse")
  /\ UNCHANGED <<loopVars, event, approvals, results, billed, adapters, intents,
                 stops>>

\* The analysis of an output is always the same: what is in the log already is
\* taken from there.
Analyse(w) ==
  /\ Handling(w, "analyse")
  /\ Looks(w, [hand[w] EXCEPT
                 !.step = IF output[Mine(w)] = "plain" THEN "return"
                          ELSE IF intents[Mine(w)] > 0 THEN "dispatch"
                          ELSE "propose",
                 !.item = intents[Mine(w)]])

AppendIntent(w) ==
  /\ Handling(w, "propose")
  /\ intents' = [intents EXCEPT ![Mine(w)] = @ + 1]
  /\ Proceed(w, [hand[w] EXCEPT !.step = "dispatch",
                                !.item = intents[Mine(w)] + 1])
  /\ UNCHANGED <<loopVars, event, approvals, results, billed, adapters, output,
                 stops>>

DispatchToolIntent(w) ==
  /\ Handling(w, "dispatch")
  /\ LET existing == RequestsOf(Mine(w), hand[w].item)
     IN IF existing # {}
        THEN \E t \in existing :
               Looks(w, [Afresh(w, "enqueue") EXCEPT !.next = t])
        ELSE IF Budget(w) > 0
             THEN Looks(w, [hand[w] EXCEPT !.step = "ask"])
             ELSE StopAndReturn(w, "budget_exhausted")

AppendToolRequest(w, t) ==
  /\ Handling(w, "ask")
  /\ t \in ToolJob
  /\ AppendRequest(t, Mine(w), hand[w].item, Depth(w), Budget(w) - 1)
  /\ Proceed(w, [Afresh(w, "enqueue") EXCEPT !.next = t])
  /\ UNCHANGED <<loopVars, approvals, results, billed, adapters, output, intents,
                 stops>>

-------------------------------------------------------------------------------
ToolStep(w) ==
  \/ FindResult(w)
  \/ \E outcome \in Signature \cup {"error"} : Execute(w, outcome)
  \/ LookForUsage(w) \/ RecordUsage(w)
  \/ Judge(w) \/ Adapt(w) \/ Continue(w)
  \/ \E o \in Job : RequestOracle(w, o)
  \/ EnqueueNext(w)

OracleStep(w) ==
  \/ Generate(w) \/ Analyse(w) \/ AppendIntent(w) \/ DispatchToolIntent(w)
  \/ \E t \in Job : AppendToolRequest(w, t)

LoopStep(w) ==
  \/ \E j \in Job : TakeJob(w, j)
  \/ Acknowledge(w) \/ StepRaises(w) \/ FailJob(w) \/ StopAfterFailure(w)
  \/ Die(w)

OperatorStep ==
  \/ RequestTool
  \/ \E t \in ToolJob : ApproveTool(t) \/ ScheduleTool(t)
  \/ \E j \in Job : Retry(j)

ToolNext ==
  \/ \E w \in Runner : LoopStep(w) \/ ToolStep(w) \/ OracleStep(w)
  \/ \E j \in Job : Expire(j)
  \/ OperatorStep

ToolSpec == ToolInit /\ [][ToolNext]_toolVars

(***************************************************************************)
(* Properties                                                              *)
(***************************************************************************)
\* Job j has done all it owed to the chain, whichever of its attempts did what: the
\* result is billed, and it has failed, reached a boundary with a stop for that
\* reason, or led to an enqueued oracle request; an intent of the oracle has led to
\* a stop, or to a tool request that is enqueued or waits for the operator.
PassedOn(j) ==
  IF j \in ToolJob
  THEN \E i \in Members(billed[j]) :
         IF results[j][i] = "error" THEN <<j, "tool_failure">> \in stops
         ELSE \/ \E reason \in {"max_depth", "budget_exhausted",
                                "repeated_equivalent_event"} :
                   <<j, reason>> \in stops
              \/ \E k \in DOMAIN adapters[j] :
                   /\ adapters[j][k] = i
                   /\ \E o \in RequestsOf(j, k) : phase[o] # "new"
  ELSE output[j] = "plain" \/ \E i \in 1 .. intents[j] :
         \/ \E t \in RequestsOf(j, i) : t \in Asks \/ phase[t] # "new"
         \/ <<j, "budget_exhausted">> \in stops

\* A job that is completed has passed the chain on (_execute_tool_job,
\* _dispatch_tool_intent).
CompletedChainGoesOn == \A j \in Job : phase[j] = "settled" => PassedOn(j)

\* What is recorded of a chain is typed, and enough for its jobs' ends.
ToolInv == ToolTypeOK /\ CompletedChainGoesOn

\* As long as no lease expires under a live process, faults and attempts
\* leave the chain a line: one result of a tool, billed once and adapted at
\* most once, one oracle request after it, one tool request after an output.
ChainIsALine ==
  overdue = 0 =>
    /\ \A t \in ToolJob : /\ Len(results[t]) <= 1 /\ Len(billed[t]) <= 1
                          /\ Len(adapters[t]) <= 1
    /\ \A j, k \in Job \ {Root} :
         (j # k /\ Requested(j) /\ Requested(k)) => event[j].cause # event[k].cause

\* In such a chain the oracle is not shown two
\* equivalent tool results in one chain, though the log is searched in one
\* step and the adapter appended in another.
NoEquivalentAdapters ==
  overdue = 0 =>
    \A t, u \in ToolJob : t # u => Shown(t) \cap Shown(u) = {}

\* The two together: one path, on which nothing is said twice.
ChainOnTime == ChainIsALine /\ NoEquivalentAdapters

(***************************************************************************)
(* The inductive invariant of the proofs                                   *)
(***************************************************************************)
\* A job is claimed exactly while somebody holds it.
ClaimsHeld == \A j \in Job : phase[j] = "claimed" <=> holder[j] # NoRunner

\* What can be done about a request was asked for: jobs and causes are requested,
\* the operator's request is the first, and tools and oracle take turns.
RequestsFit ==
  /\ \A j \in Job : phase[j] # "new" => Requested(j)
  /\ \A j \in Job : Requested(j) => Requested(Root)
  /\ Requested(Root) => event[Root].cause = NoJob
  /\ \A j \in Job \ {Root} : Requested(j) =>
       /\ event[j].cause \in Job /\ Requested(event[j].cause)
       /\ j \in ToolJob <=> event[j].cause \in OracleJob

\* A continuation follows an adapter, a tool request an intent.
LinksFit ==
  \A j \in Job \ {Root} : Requested(j) =>
    IF event[j].cause \in ToolJob
    THEN event[j].link \in DOMAIN adapters[event[j].cause]
    ELSE event[j].link \in 1 .. intents[event[j].cause]

\* What is billed and adapted are results, and no error is adapted.
ResultsFit ==
  \A t \in ToolJob :
    /\ \A i \in DOMAIN billed[t] : billed[t][i] \in DOMAIN results[t]
    /\ \A k \in DOMAIN adapters[t] : /\ adapters[t][k] \in DOMAIN results[t]
                                     /\ results[t][adapters[t][k]] # "error"

\* The result i of tool job j is billed, and its adapter k was made of it.
Passed(j, i, k) ==
  /\ i \in Members(billed[j]) /\ k \in DOMAIN adapters[j] /\ adapters[j][k] = i

\* Request n is what job j owed to the chain.
IsNext(j, n) ==
  /\ n \in Job /\ Requested(n) /\ event[n].cause = j
  /\ j \in ToolJob => \E i \in Members(billed[j]) : Passed(j, i, event[n].link)

ToolSteps == {"find", "execute", "usage", "bill", "judge", "adapt", "continue",
              "request"}
OracleSteps == {"generate", "analyse", "propose", "dispatch", "ask"}

\* What a handler has in hand fits what is logged, whoever else logs for its job.
HandFits(w) ==
  LET j == Mine(w)
      at(steps) == hand[w].step \in steps
      i == hand[w].item
  IN  /\ at({"idle"}) <=> j = NoJob
      /\ ~at({"idle"}) => j \in Job /\ Requested(j)
      /\ at(ToolSteps) => j \in ToolJob
      /\ at(OracleSteps) => j \in OracleJob
      /\ at({"usage", "bill", "judge", "adapt", "continue", "request"}) =>
           i \in DOMAIN results[j]
      /\ at({"judge", "adapt", "continue", "request"}) => i \in Members(billed[j])
      /\ at({"adapt"}) => results[j][i] # "error"
      /\ at({"continue", "request"}) => Passed(j, i, hand[w].adapter)
      /\ at({"request"}) => event[j].budget > 1
      /\ at({"analyse", "propose", "dispatch", "ask"}) => output[j] # "none"
      /\ at({"dispatch", "ask"}) => i \in 1 .. intents[j]
      /\ at({"ask"}) => event[j].budget > 0
      /\ at({"enqueue"}) => IsNext(j, hand[w].next)
      /\ at({"return"}) => PassedOn(j)

ToolStory ==
  /\ ToolTypeOK /\ ClaimsHeld /\ RequestsFit /\ LinksFit /\ ResultsFit
  /\ \A w \in Runner : HandFits(w)
  /\ CompletedChainGoesOn

\* The chain ends at j.
Tip(j) == Requested(j) /\ \A k \in Job : Requested(k) => event[k].cause # j

\* On time, what a handler found not to be there is not there.
HandOnTime(w) ==
  LET j == Mine(w)
      at(steps) == hand[w].step \in steps
  IN  /\ ~at({"idle", "failing"}) => holder[j] = w
      /\ at({"execute"}) => results[j] = <<>>
      /\ at({"bill"}) => billed[j] = <<>>
      /\ at({"adapt"}) => adapters[j] = <<>> /\ Outcome(w) \notin Seen
      /\ at({"propose"}) => intents[j] = 0
      /\ at({"request", "ask"}) => Tip(j)

ChainStory ==
  overdue = 0 =>
    /\ ChainOnTime
    /\ \A o \in OracleJob : intents[o] <= 1
    /\ \A j, k \in Job : Tip(j) /\ Tip(k) => j = k
    /\ \A w \in Runner : HandOnTime(w)

===============================================================================
