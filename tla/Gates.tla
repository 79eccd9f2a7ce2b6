--------------------------------- MODULE Gates ---------------------------------
(***************************************************************************)
(* What a proposal of the host may set off, and what waits for a human:    *)
(*   dispatcher.py  dispatch, approve and the rules for branch proposals   *)
(*                  and probes                                             *)
(*   services.py    approve_branch, _execute_branch_creation_job, and the  *)
(*                  verification branch of approve_tool                    *)
(*   branching.py   fork, which refuses an archived branch                 *)
(*                                                                         *)
(* The analysis job that makes a proposal dispatches it: a gated one gets a *)
(* job that no runner takes and that an approval cancels, a free branch    *)
(* proposal a branch.create job, a free probe a context message, a request *)
(* and an oracle job, each of which the dispatcher emits for the last.     *)
(* The queue is what ClaimService says of it.  Every look at the log and   *)
(* every append is a step of its own.                                      *)
(***************************************************************************)
EXTENDS ClaimService, Naturals, Sequences, FiniteSets

CONSTANTS
  Fork,           \* proposals of a branch
  Probe,          \* proposals of a question
  Request,        \* tool requests of web_verify, whose policy is to ask
  Clone,          \* bound of the model on their clones, by name
  Operator,
  MaxForks,       \* bound of the model on the forks for one request
  MaxProposals,   \* bound of the model on the proposals that are made
  MaxCalls,       \* bound of the model on the approvals that are called for
  MaxFaults,      \* bound of the model on deaths and errors
  MaxOverdue      \* bound of the model on leases that expire under a process

Proposal == Fork \cup Probe

ASSUME GatesAssumption ==
  /\ Job = ({"analyse", "gate"} \X Proposal) \cup ({"create"} \X Fork)
             \cup ({"verify"} \X Clone)
  /\ {MaxForks, MaxProposals, MaxCalls, MaxFaults, MaxOverdue} \subseteq Nat /\ NoRunner \notin Runner
  /\ IsFiniteSet(Operator) /\ IsFiniteSet(Clone)
  \* A proposal, a request and a clone are events of their own.
  /\ Fork \cap Request = {} /\ Fork \cap Clone = {} /\ Request \cap Clone = {}
  /\ "none" \notin Fork \cup Request \cup Clone

VARIABLES
  gated,          \* the proposals human_gate asks approval for; it never changes
  hand,           \* what each runner does, and for which job
  call,           \* what each operator's command does
  calls,          \* how many approvals were called for
  proposed,       \* the proposals in the log
  approvals,      \* what a human event approves: proposals, requests, clones
  approved,       \* the branch.create jobs enqueued with an approval
  forks,          \* who forked a branch for each proposal
  questions,      \* what the dispatcher emitted for each probe
  branches,       \* how many verification branches each request has
  clone,          \* what each clone was made of, and on which branch
  archived,       \* whether the branch that all forks start from is archived
  faults, overdue

logVars == <<proposed, approvals, approved, forks, questions, branches, clone,
             archived>>
gateVars == <<claimVars, gated, hand, call, calls, logVars, faults, overdue>>

None == "none"
NoJob == <<>>
NoClone == [request |-> None, branch |-> 0]

RunnerSteps == {"idle", "find", "propose", "dispatch", "emit", "request", "enqueue",
                "look", "fork", "return", "raised"}
CallSteps == {"idle", "clear", "execute", "find", "fork", "append", "clone",
              "confirm", "schedule"}

GatesTypeOK ==
  /\ phase \in [Job -> {"new", "waiting", "claimed", "parked", "settled"}]
  /\ holder \in [Job -> Runner \cup {NoRunner}]
  /\ gated \subseteq Proposal /\ proposed \subseteq Proposal
  /\ hand \in [Runner -> [step : RunnerSteps, job : Job \cup {NoJob}]]
  /\ call \in [Operator -> [step : CallSteps, branch : Nat,
                            item : Fork \cup Request \cup Clone \cup {None}]]
  /\ approvals \subseteq Proposal \cup Request \cup Clone
  /\ approved \subseteq Fork
  /\ forks \in [Fork -> Seq({"human", "policy"})]
  /\ questions \in [Probe -> [messages : Nat, requests : Nat, jobs : Nat]]
  /\ branches \in [Request -> 0 .. MaxForks]
  /\ clone \in [Clone -> [request : Request, branch : Nat] \cup {NoClone}]
  /\ archived \in BOOLEAN /\ calls \in 0 .. MaxCalls
  /\ faults \in 0 .. MaxFaults /\ overdue \in 0 .. MaxOverdue

IdleHand == [step |-> "idle", job |-> NoJob]
IdleCall == [step |-> "idle", item |-> None, branch |-> 0]

GatesInit ==
  /\ ClaimInit /\ gated \in SUBSET Proposal
  /\ hand = [w \in Runner |-> IdleHand] /\ call = [p \in Operator |-> IdleCall]
  /\ proposed = {} /\ approvals = {} /\ approved = {}
  /\ forks = [f \in Fork |-> <<>>]
  /\ questions = [q \in Probe |-> [messages |-> 0, requests |-> 0, jobs |-> 0]]
  /\ branches = [v \in Request |-> 0] /\ clone = [c \in Clone |-> NoClone]
  /\ archived = FALSE /\ calls = 0 /\ faults = 0 /\ overdue = 0

Handling(w, step) == hand[w].step = step
Subject(w) == hand[w].job[2]
GoTo(w, step) ==
  /\ hand' = [hand EXCEPT ![w].step = step]
  /\ UNCHANGED <<gated, call, calls, faults, overdue>>
Looks(w, step) == GoTo(w, step) /\ UNCHANGED <<claimVars, logVars>>

\* enqueue with an idempotency key.
EnqueueOnce(j) == IF phase[j] = "new" THEN Submit(j) ELSE UNCHANGED claimVars

-----------------------------------------------------------------------------
(* The loop of a runner *)

\* The queue is given the analysis jobs of an output.
Analyse(p) ==
  /\ Cardinality({x \in Proposal : phase[<<"analyse", x>>] # "new"}) < MaxProposals
  /\ Submit(<<"analyse", p>>)
  /\ UNCHANGED <<gated, hand, call, calls, logVars, faults, overdue>>

\* The kinds that run_automation leases do not have the approvals in them; the
\* tool jobs are those of ToolLoop.
TakeJob(w, j) ==
  /\ Handling(w, "idle") /\ \A k \in Job : holder[k] # w
  /\ j[1] \in {"analyse", "create"} /\ Claim(w, j, {}, {})
  /\ hand' = [hand EXCEPT ![w] = [step |-> IF j[1] = "analyse" THEN "find" ELSE "look",
                                  job |-> j]]
  /\ UNCHANGED <<gated, call, calls, logVars, faults, overdue>>

Holds(w) == holder[hand[w].job] = w

Leaves(w) == hand' = [hand EXCEPT ![w] = IdleHand]

\* A job is acknowledged, or failed, by the runner that still has its lease.
Settle(w) ==
  /\ hand[w].step \in {"return", "raised"} /\ Leaves(w)
  /\ IF ~ Holds(w) THEN UNCHANGED claimVars
     ELSE IF Handling(w, "return") THEN Release(w, hand[w].job, "settled")
     ELSE \E outcome \in {"waiting", "parked"} : Release(w, hand[w].job, outcome)
  /\ UNCHANGED <<gated, call, calls, logVars, faults, overdue>>

\* A step that raises, or a process that dies.
Fault(w) ==
  /\ ~ Handling(w, "idle") /\ faults < MaxFaults /\ faults' = faults + 1
  /\ \/ Leaves(w)
     \/ hand[w].step # "raised" /\ hand' = [hand EXCEPT ![w].step = "raised"]
  /\ UNCHANGED <<claimVars, gated, call, calls, logVars, overdue>>

Expire(j) ==
  /\ Lapse({j}, {}) \/ Lapse({}, {j})
  /\ IF \E w \in Runner : holder[j] = w /\ hand[w].job = j
     THEN overdue < MaxOverdue /\ overdue' = overdue + 1
     ELSE UNCHANGED overdue
  /\ UNCHANGED <<gated, hand, call, calls, logVars, faults>>

-----------------------------------------------------------------------------
(* An analysis and the dispatch of what it finds *)

\* A proposal that is in the log is taken from there.
Find(w) ==
  /\ Handling(w, "find")
  /\ Looks(w, IF Subject(w) \in proposed THEN "dispatch" ELSE "propose")

Propose(w) ==
  /\ Handling(w, "propose")
  /\ proposed' = proposed \cup {Subject(w)}
  /\ GoTo(w, "dispatch")
  /\ UNCHANGED <<claimVars, approvals, approved, forks, questions, branches, clone,
                 archived>>

\* A bug: a branch is created whatever the policy says.
DispatchUngated(w) ==
  /\ Handling(w, "dispatch")
  /\ LET p == Subject(w)
     IN  IF p \in Fork
         THEN EnqueueOnce(<<"create", p>>) /\ GoTo(w, "return")
         ELSE GoTo(w, "return") /\ UNCHANGED claimVars
  /\ UNCHANGED logVars

\* dispatch: the gate, the job of a free branch proposal, or the look for an event
\* emitted before.
Dispatch(w) ==
  /\ Handling(w, "dispatch")
  /\ LET p == Subject(w)
     IN  \/ p \in gated /\ EnqueueOnce(<<"gate", p>>) /\ GoTo(w, "return")
         \/ p \in Fork \ gated /\ EnqueueOnce(<<"create", p>>) /\ GoTo(w, "return")
         \/ p \in Probe \ gated /\ UNCHANGED claimVars
            /\ GoTo(w, IF questions[p].messages = 0 THEN "emit" ELSE "return")
  /\ UNCHANGED logVars

Emits(w, step, field, next) ==
  /\ Handling(w, step)
  /\ questions' = [questions EXCEPT ![Subject(w)][field] = @ + 1]
  /\ GoTo(w, next)
  /\ UNCHANGED <<claimVars, proposed, approvals, approved, forks, branches, clone,
                 archived>>

\* The context message, and what is dispatched for it in turn: nothing can have
\* been emitted for an event that is new.
EmitMessage(w) == Emits(w, "emit", "messages", "request")
EmitRequest(w) == Emits(w, "request", "requests", "enqueue")
EnqueueGeneration(w) == Emits(w, "enqueue", "jobs", "return")

-----------------------------------------------------------------------------
(* _execute_branch_creation_job *)

LookForFork(w) ==
  /\ Handling(w, "look")
  /\ IF forks[Subject(w)] # <<>> THEN Looks(w, "return")
     ELSE IF archived THEN Looks(w, "raised") ELSE Looks(w, "fork")

ForkProposed(w) ==
  /\ Handling(w, "fork")
  /\ LET f == Subject(w)
     IN  forks' = [forks EXCEPT ![f] =
                     Append(@, IF f \in approved THEN "human" ELSE "policy")]
  /\ GoTo(w, "return")
  /\ UNCHANGED <<claimVars, proposed, approvals, approved, questions, branches, clone,
                 archived>>

-----------------------------------------------------------------------------
(* The operator *)

Idle(p) == call[p].step = "idle"
Calls(p, step, item, branch) ==
  /\ call' = [call EXCEPT ![p] = [step |-> step, item |-> item, branch |-> branch]]
  /\ UNCHANGED <<gated, hand, faults, overdue>>
Goes(p, step, item, branch) == Calls(p, step, item, branch) /\ UNCHANGED calls
At(p, step) == call[p].step = step
Item(p) == call[p].item

Approve(item) ==
  /\ approvals' = approvals \cup {item}
  /\ UNCHANGED <<claimVars, proposed, approved, forks, questions, branches, clone,
                 archived>>

\* approve_branch, whose approval cites the proposal.
ApproveBranch(p, f) ==
  /\ Idle(p) /\ f \in proposed \cap gated
  /\ Approve(f) /\ Calls(p, "clear", f, 0)
  /\ calls < MaxCalls /\ calls' = calls + 1

\* _clear_pending: a gate that is not there, or was cancelled before, is left alone.
ClearGate(p) ==
  /\ At(p, "clear")
  /\ LET gate == <<"gate", Item(p)>>
     IN  IF phase[gate] = "waiting" THEN Withdraw(gate) ELSE UNCHANGED claimVars
  /\ Goes(p, "execute", Item(p), 0) /\ UNCHANGED logVars

\* A bug: the job is forgotten once the gate is gone.
ExecuteNothing(p) ==
  /\ At(p, "execute") /\ Goes(p, "idle", None, 0) /\ UNCHANGED <<claimVars, logVars>>

ExecuteApproved(p) ==
  /\ At(p, "execute")
  /\ LET job == <<"create", Item(p)>>
     IN  /\ EnqueueOnce(job)
         /\ approved' = IF phase[job] = "new" THEN approved \cup {Item(p)} ELSE approved
  /\ Goes(p, "idle", None, 0)
  /\ UNCHANGED <<proposed, approvals, forks, questions, branches, clone, archived>>

\* approve_tool and _verification_request_on_fork.
ApproveTool(p, v) ==
  /\ Idle(p) /\ Approve(v) /\ Calls(p, "find", v, 0)
  /\ calls < MaxCalls /\ calls' = calls + 1

ClonesOf(v) == {c \in Clone : clone[c].request = v}

FindClone(p) ==
  /\ At(p, "find")
  /\ LET clones == ClonesOf(Item(p))
     IN  \/ \E c \in clones : Goes(p, "confirm", c, 0)
         \/ clones = {} /\ Goes(p, "fork", Item(p), 0)
  /\ UNCHANGED <<claimVars, logVars>>

\* The request to fork, which nothing reads, and the look at the source branch.
RequestFork(p) ==
  /\ At(p, "fork")
  /\ IF archived THEN Goes(p, "idle", None, 0) ELSE Goes(p, "append", Item(p), 0)
  /\ UNCHANGED <<claimVars, logVars>>

\* A bug: the branch of an earlier verification is taken again.
ForkOnce(p) ==
  /\ At(p, "append")
  /\ branches' = [branches EXCEPT ![Item(p)] = 1]
  /\ Goes(p, "clone", Item(p), 1)
  /\ UNCHANGED <<claimVars, proposed, approvals, approved, forks, questions, clone,
                 archived>>

ForkToVerify(p) ==
  /\ At(p, "append") /\ branches[Item(p)] < MaxForks
  /\ branches' = [branches EXCEPT ![Item(p)] = @ + 1]
  /\ Goes(p, "clone", Item(p), branches[Item(p)] + 1)
  /\ UNCHANGED <<claimVars, proposed, approvals, approved, forks, questions, clone,
                 archived>>

CloneRequest(p, c) ==
  /\ At(p, "clone") /\ clone[c] = NoClone
  /\ clone' = [clone EXCEPT ![c] = [request |-> Item(p), branch |-> call[p].branch]]
  /\ Goes(p, "confirm", c, 0)
  /\ UNCHANGED <<claimVars, proposed, approvals, approved, forks, questions, branches,
                 archived>>

ApproveClone(p) ==
  /\ At(p, "confirm") /\ Approve(Item(p)) /\ Goes(p, "schedule", Item(p), 0)

ScheduleClone(p) ==
  /\ At(p, "schedule") /\ EnqueueOnce(<<"verify", Item(p)>>)
  /\ Goes(p, "idle", None, 0) /\ UNCHANGED logVars

ArchiveSource ==
  /\ ~ archived /\ archived' = TRUE
  /\ UNCHANGED <<claimVars, gated, hand, call, calls, proposed, approvals, approved,
                 forks, questions, branches, clone, faults, overdue>>

Dies(p) ==
  /\ ~ Idle(p) /\ faults < MaxFaults /\ faults' = faults + 1
  /\ call' = [call EXCEPT ![p] = IdleCall]
  /\ UNCHANGED <<claimVars, gated, hand, calls, logVars, overdue>>

-----------------------------------------------------------------------------
Handler(w) ==
  \/ Find(w) \/ Propose(w) \/ Dispatch(w)
  \/ EmitMessage(w) \/ EmitRequest(w) \/ EnqueueGeneration(w)
  \/ LookForFork(w) \/ ForkProposed(w) \/ Settle(w)

Command(p) ==
  \/ ClearGate(p) \/ ExecuteApproved(p)
  \/ FindClone(p) \/ RequestFork(p) \/ ForkToVerify(p)
  \/ \E c \in Clone : CloneRequest(p, c)
  \/ ApproveClone(p) \/ ScheduleClone(p)

GatesNext ==
  \/ \E p \in Proposal : Analyse(p)
  \/ \E w \in Runner : \/ \E j \in Job : TakeJob(w, j)
                       \/ Handler(w) \/ Fault(w)
  \/ \E j \in Job : Expire(j)
  \/ \E p \in Operator : \/ \E f \in Fork : ApproveBranch(p, f)
                         \/ \E v \in Request : ApproveTool(p, v)
                         \/ Command(p) \/ Dies(p)
  \/ ArchiveSource

GatesSpec == GatesInit /\ [][GatesNext]_gateVars

-----------------------------------------------------------------------------
(* Properties *)

\* A gated proposal is materialised only after a human approved this proposal,
\* whatever analysis, policy job and retry ran before: until then it has a gate
\* at most, and no gate is cancelled without an approval (README.md:392,
\* _validate_approval_event).
ForkIsAuthorised ==
  \A f \in Fork \cap gated :
    /\ forks[f] # <<>> \/ phase[<<"create", f>>] # "new"
         => f \in approvals /\ f \in approved
    /\ phase[<<"gate", f>>] = "settled" => f \in approvals
    /\ "policy" \notin {forks[f][i] : i \in DOMAIN forks[f]}

\* As long as no lease expires under a live runner: one branch for a proposal, however
\* often it is dispatched, approved and tried; one question for a probe.
OneForkOnTime ==
  overdue = 0 =>
    /\ \A f \in Fork : Len(forks[f]) <= 1
    /\ \A q \in Probe : questions[q].messages <= 1 /\ questions[q].jobs <= 1

\* What is recorded of a gate is typed, authorised and, on time, single.
GatesInv == GatesTypeOK /\ ForkIsAuthorised /\ OneForkOnTime

\* A verification runs on a branch of its own, approved there and where it was asked
\* for; a branch that no verification runs on was left by a process that died.
VerifiedApart ==
  /\ \A c \in Clone : phase[<<"verify", c>>] # "new" =>
       /\ clone[c] # NoClone /\ {c, clone[c].request} \subseteq approvals
       /\ clone[c].branch \in 1 .. branches[clone[c].request]
       /\ \A d \in Clone \ {c} : clone[d] # clone[c]
  /\ \A v \in Request :
       branches[v] <= Cardinality(ClonesOf(v)) + faults
                      + Cardinality({p \in Operator : At(p, "clone") /\ Item(p) = v})

\* What a human approved comes about: unless a process died or failed, the job that
\* the approval owes is there once the command is done, and a job that is settled
\* has made the branch, whether this attempt or an earlier one.
ApprovedComesAbout ==
  \A f \in Fork :
    /\ (f \in approvals /\ faults = 0 /\ \A p \in Operator : Item(p) # f)
         => f \in approved /\ phase[<<"create", f>>] # "new"
    /\ phase[<<"create", f>>] = "settled" => forks[f] # <<>>

-----------------------------------------------------------------------------
(* The inductive invariant of the proofs *)

ClaimsHeld == \A j \in Job : phase[j] = "claimed" <=> holder[j] # NoRunner

\* A runner has a job that its step is one of, and of what it did for that job
\* the log tells.
HandFits(w) ==
  LET step == hand[w].step
      j == hand[w].job
  IN  /\ step = "idle" => j = NoJob
      /\ step \in {"find", "propose", "dispatch"} => j \in {"analyse"} \X Proposal
      /\ step \in {"emit", "request", "enqueue"} => j \in {"analyse"} \X (Probe \ gated)
      /\ step \in {"look", "fork"} => j \in {"create"} \X Fork /\ phase[j] # "new"
      /\ step \in {"return", "raised"} =>
           j \in ({"analyse"} \X Proposal) \cup ({"create"} \X Fork)
      /\ step = "return" /\ j[1] = "create" => forks[j[2]] # <<>>

\* A command goes on with what was approved before.
CallFits(p) ==
  LET step == call[p].step
      item == call[p].item
  IN  /\ step = "idle" => item = None
      /\ step \in {"clear", "execute"} => item \in Fork \cap gated \cap approvals
      /\ step \in {"find", "fork", "append", "clone"} => item \in Request \cap approvals
      /\ step = "clone" => call[p].branch \in 1 .. branches[item]
      /\ step \in {"confirm", "schedule"} => item \in Clone /\ clone[item] # NoClone
      /\ step = "schedule" => item \in approvals

\* The job of a fork is there before the fork, and is settled by it; a fork is
\* approved only where it was gated.
ForksDue ==
  \A f \in Fork :
    /\ forks[f] # <<>> => phase[<<"create", f>>] # "new"
    /\ phase[<<"create", f>>] = "settled" => forks[f] # <<>>
    /\ f \in approvals => f \in gated

\* On time a runner that works on a job has its claim, so that nobody else forks or
\* asks for what it found not to be done.
HandOnTime(w) ==
  /\ hand[w].step # "idle" => holder[hand[w].job] = w
  /\ hand[w].step = "fork" => forks[Subject(w)] = <<>>
  /\ hand[w].step = "emit" => questions[Subject(w)].messages = 0
  /\ hand[w].step \in {"request", "enqueue"} =>
       questions[Subject(w)].messages = 1 /\ questions[Subject(w)].jobs = 0

LogOnTime ==
  /\ \A q \in Probe :
       questions[q].messages <= 1 /\ questions[q].jobs <= questions[q].messages
  /\ \A f \in Fork : Len(forks[f]) <= 1

ClaimedOnTime == overdue = 0 => LogOnTime /\ \A w \in Runner : HandOnTime(w)

\* Whoever is about to clone a request has a branch that no other clone is on, or
\* will be.
ClonesApart ==
  /\ \A c \in Clone : clone[c] # NoClone =>
       /\ clone[c].request \in approvals
       /\ clone[c].branch \in 1 .. branches[clone[c].request]
       /\ \A d \in Clone \ {c} : clone[d] # clone[c]
  /\ \A p \in Operator : At(p, "clone") =>
       /\ \A c \in Clone :
            clone[c].request = Item(p) => clone[c].branch # call[p].branch
       /\ \A o \in Operator \ {p} :
            At(o, "clone") /\ Item(o) = Item(p) => call[o].branch # call[p].branch
  /\ \A c \in Clone : phase[<<"verify", c>>] # "new" =>
       clone[c] # NoClone /\ c \in approvals

Cloning(v) == {p \in Operator : At(p, "clone") /\ Item(p) = v}

BranchesCounted ==
  \A v \in Request :
    branches[v] <= Cardinality(ClonesOf(v)) + faults + Cardinality(Cloning(v))

\* Without a fault the command that approved a fork goes on to its job.
ApprovalsOwe ==
  faults = 0 => \A f \in Fork \cap approvals :
    \/ phase[<<"create", f>>] # "new"
    \/ \E p \in Operator : call[p].item = f

GatesStory ==
  /\ GatesTypeOK /\ ClaimsHeld
  /\ \A w \in Runner : HandFits(w)
  /\ \A p \in Operator : CallFits(p)
  /\ ForkIsAuthorised /\ ForksDue /\ ClaimedOnTime
  /\ ClonesApart /\ BranchesCounted /\ ApprovalsOwe

================================================================================
