----------------------------- MODULE GatesProofs -----------------------------
(***************************************************************************)
(* Gates keeps its promises for any number of proposals, runners,          *)
(* operators and faults.  GatesStory is the inductive invariant: the job   *)
(* of every hand, the item of every command and what the log has of both   *)
(* fit together.  What is logged stays (LogGrows), so that a step has to   *)
(* answer only for the hand or the command that it moves.                  *)
(***************************************************************************)
EXTENDS Gates, FiniteSetTheorems, TLAPS

HandRecord == [step : RunnerSteps, job : Job \cup {NoJob}]
CallRecord == [step : CallSteps, branch : Nat,
               item : Fork \cup Request \cup Clone \cup {None}]

\* What is recorded stays, and no job is new again.
LogGrows ==
  /\ gated' = gated
  /\ \A j \in Job : phase[j] # "new" => phase'[j] # "new"
  /\ approvals \subseteq approvals' /\ approved \subseteq approved'
  /\ \A f \in Fork : forks[f] # <<>> => forks'[f] # <<>>
  /\ \A v \in Request : branches[v] <= branches'[v]
  /\ \A c \in Clone : clone[c] # NoClone => clone'[c] = clone[c]

\* The queue after a step: typed, and the jobs that were added or settled by it.
QueueMoves(added, settled) ==
  /\ phase' \in [Job -> {"new", "waiting", "claimed", "parked", "settled"}]
  /\ holder' \in [Job -> Runner \cup {NoRunner}]
  /\ ClaimsHeld'
  /\ \A j \in Job : phase[j] # "new" => phase'[j] # "new"
  /\ \A j \in Job : phase[j] = "new" /\ phase'[j] # "new" => j \in added
  /\ \A j \in Job : phase'[j] = "settled" /\ phase[j] # "settled" => j \in settled

QueueTyped ==
  /\ phase \in [Job -> {"new", "waiting", "claimed", "parked", "settled"}]
  /\ holder \in [Job -> Runner \cup {NoRunner}]
  /\ ClaimsHeld

\* The hand of one runner goes on, the others stay.
HandGoes(w, step, job) ==
  /\ hand' \in [Runner -> HandRecord]
  /\ hand'[w].step = step /\ hand'[w].job = job
  /\ \A v \in Runner \ {w} : hand'[v] = hand[v]

\* The command of one operator goes on, the others stay.
CallGoes(p, step, item, branch) ==
  /\ call' \in [Operator -> CallRecord]
  /\ call'[p].step = step /\ call'[p].item = item /\ call'[p].branch = branch
  /\ \A o \in Operator \ {p} : call'[o] = call[o]

-----------------------------------------------------------------------------
(* The queue *)

\* A job that is enqueued is the only one that is added, and no claim changes.
LEMMA SubmitMoves ==
  ASSUME QueueTyped, NEW j \in Job, Submit(j)
  PROVE  QueueMoves({j}, {}) /\ holder' = holder
BY GatesAssumption DEF QueueTyped, QueueMoves, Submit, ClaimsHeld

\* Nothing is added or settled where the queue stays as it is.
LEMMA QueueStays ==
  ASSUME QueueTyped, UNCHANGED claimVars
  PROVE  QueueMoves({}, {})
BY DEF QueueTyped, QueueMoves, claimVars, ClaimsHeld

\* enqueue with a key leaves a job there that is not new.
LEMMA EnqueueMoves ==
  ASSUME QueueTyped, NEW j \in Job, EnqueueOnce(j)
  PROVE  QueueMoves({j}, {}) /\ phase'[j] # "new" /\ holder' = holder
BY GatesAssumption
   DEF QueueTyped, QueueMoves, Submit, EnqueueOnce, claimVars, ClaimsHeld

\* A claim adds no job and settles none, and takes none away.
LEMMA ClaimMoves ==
  ASSUME QueueTyped, NEW w \in Runner, NEW j \in Job, Claim(w, j, {}, {})
  PROVE  /\ QueueMoves({}, {})
         /\ phase[j] = "waiting" /\ holder[j] = NoRunner
         /\ holder'[j] = w /\ \A k \in Job \ {j} : holder'[k] = holder[k]
BY GatesAssumption
   DEF QueueTyped, QueueMoves, Claim, Lapsed, LapsedHolder, Lapsing, ClaimsHeld

\* A release settles at most the job that is released.
LEMMA ReleaseMoves ==
  ASSUME QueueTyped, NEW w \in Runner, NEW j \in Job,
         NEW outcome \in {"waiting", "parked", "settled"}, Release(w, j, outcome)
  PROVE  /\ QueueMoves({}, {j})
         /\ outcome # "settled" => QueueMoves({}, {})
         /\ holder[j] = w /\ \A k \in Job \ {j} : holder'[k] = holder[k]
BY GatesAssumption DEF QueueTyped, QueueMoves, Release, ClaimsHeld

\* A withdrawal settles one job, which was there.
LEMMA WithdrawMoves ==
  ASSUME QueueTyped, NEW j \in Job, Withdraw(j)
  PROVE  /\ QueueMoves({}, {j})
         /\ \A k \in Job \ {j} : holder'[k] = holder[k]
BY GatesAssumption DEF QueueTyped, QueueMoves, Withdraw, ClaimsHeld

\* A lapse adds no job and settles none.
LEMMA LapseMoves ==
  ASSUME QueueTyped, NEW j \in Job, Lapse({j}, {}) \/ Lapse({}, {j})
  PROVE  QueueMoves({}, {}) /\ \A k \in Job \ {j} : holder'[k] = holder[k]
BY GatesAssumption
   DEF QueueTyped, QueueMoves, Lapse, Lapsed, LapsedHolder, Lapsing, ClaimsHeld

-----------------------------------------------------------------------------
(* The hands and the commands *)

\* A runner that goes on with its job.
LEMMA GoToGoes ==
  ASSUME GatesTypeOK, NEW w \in Runner, NEW step \in RunnerSteps, GoTo(w, step)
  PROVE  HandGoes(w, step, hand[w].job)
BY DEF GatesTypeOK, HandGoes, HandRecord, GoTo

\* A runner that leaves its job.
LEMMA LeavesGoes ==
  ASSUME GatesTypeOK, NEW w \in Runner, Leaves(w)
  PROVE  HandGoes(w, "idle", NoJob)
BY DEF GatesTypeOK, HandGoes, HandRecord, Leaves, IdleHand, RunnerSteps

\* A command that goes on.
LEMMA CallsGoes ==
  ASSUME GatesTypeOK, NEW p \in Operator, NEW step \in CallSteps,
         NEW item \in Fork \cup Request \cup Clone \cup {None}, NEW branch \in Nat,
         Calls(p, step, item, branch)
  PROVE  CallGoes(p, step, item, branch)
BY DEF GatesTypeOK, CallGoes, CallRecord, Calls

\* What fits a hand fits it as long as it stays, since the log only grows.
LEMMA HandsStay ==
  ASSUME GatesTypeOK, LogGrows, NEW w \in Runner, HandFits(w), hand'[w] = hand[w]
  PROVE  HandFits(w)'
<1>1. hand[w].step \in {"look", "fork"} => phase'[hand[w].job] # "new"
  BY GatesAssumption DEF HandFits, LogGrows
<1>2. hand[w].step = "return" /\ hand[w].job[1] = "create" => forks'[hand[w].job[2]] # <<>>
  <2>1. hand[w].step = "return" /\ hand[w].job[1] = "create" =>
          hand[w].job \in {"create"} \X Fork
    BY DEF HandFits
  <2>2. hand[w].job \in {"create"} \X Fork => hand[w].job[2] \in Fork
    OBVIOUS
  <2>3. QED
    BY <2>1, <2>2 DEF HandFits, LogGrows
<1>3. gated' = gated
  BY DEF LogGrows
<1>4. QED
  BY <1>1, <1>2, <1>3 DEF HandFits

\* So does what fits a command.
LEMMA CallsStay ==
  ASSUME GatesTypeOK, GatesTypeOK', LogGrows, NEW p \in Operator, CallFits(p),
         call'[p] = call[p]
  PROVE  CallFits(p)'
BY DEF GatesTypeOK, LogGrows, CallFits

\* A runner whose job is its own has it for itself; it is none of the gates.
LEMMA HandsHave ==
  ASSUME NEW w \in Runner, HandFits(w), GatesTypeOK, hand[w].step # "idle"
  PROVE  hand[w].job \in ({"analyse"} \X Proposal) \cup ({"create"} \X Fork)
BY DEF HandFits, GatesTypeOK, RunnerSteps, Proposal

-----------------------------------------------------------------------------
(* What a step that leaves a part of the state alone cannot disturb *)

\* The commands, the clones and what an approval owes do not depend on what the
\* runners do.
LEMMA OperatorsKept ==
  ASSUME GatesStory, GatesTypeOK', LogGrows, NEW added, NEW settled,
         QueueMoves(added, settled), \A c \in Clone : <<"verify", c>> \notin added,
         UNCHANGED <<call, approvals, clone, branches>>, faults' >= faults
  PROVE  /\ \A p \in Operator : CallFits(p)'
         /\ ClonesApart' /\ BranchesCounted' /\ ApprovalsOwe'
<1>1. \A p \in Operator : CallFits(p)'
  BY CallsStay DEF GatesStory
<1>2. ClonesApart'
  <2>1. \A c \in Clone : <<"verify", c>> \in Job
    BY GatesAssumption
  <2>2. QED
    BY <2>1 DEF GatesStory, ClonesApart, QueueMoves, At, Item
<1>3. BranchesCounted'
  <2>1. \A v \in Request : ClonesOf(v)' = ClonesOf(v) /\ Cloning(v)' = Cloning(v)
    BY DEF ClonesOf, Cloning, At, Item
  <2>2. \A v \in Request : /\ Cardinality(ClonesOf(v)) \in Nat
                           /\ Cardinality(Cloning(v)) \in Nat
    <3>1. ASSUME NEW v \in Request
          PROVE  IsFiniteSet(ClonesOf(v)) /\ IsFiniteSet(Cloning(v))
      BY GatesAssumption, FS_Subset DEF ClonesOf, Cloning
    <3>2. QED
      BY <3>1, FS_CardinalityType
  <2>3. branches \in [Request -> 0 .. MaxForks] /\ faults \in Nat /\ faults' \in Nat
    BY GatesAssumption DEF GatesStory, GatesTypeOK
  <2>4. SUFFICES ASSUME NEW v \in Request
                 PROVE  branches'[v] <= Cardinality(ClonesOf(v)') + faults'
                                          + Cardinality(Cloning(v)')
    BY DEF BranchesCounted
  <2>5. branches[v] <= Cardinality(ClonesOf(v)) + faults + Cardinality(Cloning(v))
    BY DEF GatesStory, BranchesCounted
  <2>6. branches[v] \in Nat
    BY <2>3, GatesAssumption
  <2>7. QED
    BY <2>1, <2>2, <2>3, <2>5, <2>6
<1>4. ApprovalsOwe'
  <2>1. \A f \in Fork : <<"create", f>> \in Job
    BY GatesAssumption
  <2>2. faults' = 0 => faults = 0
    BY GatesAssumption DEF GatesStory, GatesTypeOK
  <2>3. QED
    BY <2>1, <2>2 DEF GatesStory, ApprovalsOwe, QueueMoves
<1>5. QED
  BY <1>1, <1>2, <1>3, <1>4

\* What the runners do does not depend on what the operators do.
LEMMA RunnersKept ==
  ASSUME GatesStory, GatesTypeOK', LogGrows, UNCHANGED <<hand, forks, questions, overdue>>,
         NEW gate \in {"gate", "verify"},
         \A k \in Job : k[1] # gate => holder'[k] = holder[k]
  PROVE  (\A w \in Runner : HandFits(w)') /\ ClaimedOnTime'
<1>1. \A w \in Runner : HandFits(w)'
  BY HandsStay DEF GatesStory
<1>2. \A w \in Runner : hand[w].step # "idle" =>
        holder'[hand[w].job] = holder[hand[w].job]
  BY HandsHave, GatesAssumption DEF GatesStory, Proposal
<1>3. ClaimedOnTime'
  BY <1>2 DEF GatesStory, ClaimedOnTime, HandOnTime, LogOnTime, Subject
<1>4. QED
  BY <1>1, <1>3

\* What forks are authorised by stays, where a step adds and settles no more than it
\* may.
LEMMA ForksKept ==
  ASSUME GatesStory, LogGrows, NEW added, NEW settled, QueueMoves(added, settled),
         UNCHANGED forks,
         \A f \in Fork : f \in approvals' => f \in gated,
         \A f \in Fork \cap gated : <<"create", f>> \in added =>
           f \in approvals' /\ f \in approved',
         \A f \in Fork : <<"gate", f>> \in settled => f \in approvals',
         \A f \in Fork : <<"create", f>> \in settled => forks[f] # <<>>
  PROVE  ForkIsAuthorised' /\ ForksDue'
<1>1. \A f \in Fork : <<"create", f>> \in Job /\ <<"gate", f>> \in Job
  BY GatesAssumption DEF Proposal
<1>2. ForkIsAuthorised'
  <2>1. SUFFICES ASSUME NEW f \in Fork \cap gated
                 PROVE  /\ forks[f] # <<>> \/ phase'[<<"create", f>>] # "new"
                             => f \in approvals' /\ f \in approved'
                        /\ phase'[<<"gate", f>>] = "settled" => f \in approvals'
                        /\ "policy" \notin {forks[f][i] : i \in DOMAIN forks[f]}
    BY DEF ForkIsAuthorised, LogGrows
  <2>2. /\ forks[f] # <<>> \/ phase[<<"create", f>>] # "new"
              => f \in approvals /\ f \in approved
        /\ phase[<<"gate", f>>] = "settled" => f \in approvals
        /\ "policy" \notin {forks[f][i] : i \in DOMAIN forks[f]}
    BY DEF GatesStory, ForkIsAuthorised
  <2>3. approvals \subseteq approvals' /\ approved \subseteq approved'
    BY DEF LogGrows
  <2>4. QED
    BY <1>1, <2>2, <2>3 DEF QueueMoves
<1>3. ForksDue'
  BY <1>1 DEF GatesStory, ForksDue, QueueMoves, LogGrows
<1>4. QED
  BY <1>2, <1>3

-----------------------------------------------------------------------------
(* The steps of the runners *)

\* Where the queue moves and no branch is forked, cloned or approved, the log grows.
LEMMA GrowsByQueue ==
  ASSUME NEW added, NEW settled, QueueMoves(added, settled),
         UNCHANGED <<gated, approvals, approved, forks, branches, clone>>,
         GatesTypeOK
  PROVE  LogGrows
<1>1. \A v \in Request : branches[v] <= branches[v]
  BY GatesAssumption DEF GatesTypeOK
<1>2. QED
  BY <1>1 DEF LogGrows, QueueMoves

\* A step that does not fork, approve or clone answers for the hand that it moves,
\* if any, for the claims and for the jobs that it adds or settles.
LEMMA RunnerMoves ==
  ASSUME GatesStory, GatesTypeOK', NEW w, w \in Runner => HandFits(w)', ClaimedOnTime',
         \A v \in Runner \ {w} : hand'[v] = hand[v],
         NEW added, NEW settled, QueueMoves(added, settled),
         \A c \in Clone : <<"verify", c>> \notin added,
         \A f \in Fork \cap gated : <<"create", f>> \notin added,
         \A f \in Fork : <<"gate", f>> \notin settled,
         \A f \in Fork : <<"create", f>> \in settled => forks[f] # <<>>,
         UNCHANGED <<gated, call, approvals, approved, forks, branches, clone>>,
         faults' >= faults
  PROVE  GatesStory'
<1>1. LogGrows
  BY GrowsByQueue DEF GatesStory
<1>2. ForkIsAuthorised' /\ ForksDue'
  BY <1>1, ForksKept DEF GatesStory, ForksDue
<1>3. \A v \in Runner : HandFits(v)'
  BY <1>1, HandsStay DEF GatesStory
<1>4. /\ \A p \in Operator : CallFits(p)'
      /\ ClonesApart' /\ BranchesCounted' /\ ApprovalsOwe'
  BY <1>1, OperatorsKept
<1>5. ClaimsHeld'
  BY DEF QueueMoves
<1>6. QED
  BY <1>2, <1>3, <1>4, <1>5 DEF GatesStory

\* On time, a hand that stays keeps what it relies on if nobody takes its claim.
LEMMA HandOnTimeStays ==
  ASSUME NEW v \in Runner, HandOnTime(v), hand'[v] = hand[v],
         UNCHANGED <<forks, questions>>,
         hand[v].step # "idle" /\ holder[hand[v].job] = v => holder'[hand[v].job] = v
  PROVE  HandOnTime(v)'
BY DEF HandOnTime, Subject

\* A step that neither forks nor asks keeps what the log has on time, if it takes no
\* claim away and the hand it moves is on time.
LEMMA OnTimeStays ==
  ASSUME GatesStory, NEW w, w \in Runner /\ overdue = 0 => HandOnTime(w)',
         \A v \in Runner \ {w} : hand'[v] = hand[v],
         UNCHANGED <<forks, questions, overdue>>,
         \A v \in Runner \ {w} : hand[v].step # "idle" /\ holder[hand[v].job] = v =>
           holder'[hand[v].job] = v
  PROVE  ClaimedOnTime'
<1>1. overdue = 0 => \A v \in Runner : HandOnTime(v)'
  BY HandOnTimeStays DEF GatesStory, ClaimedOnTime
<1>2. QED
  BY <1>1 DEF GatesStory, ClaimedOnTime, LogOnTime

\* The queue is typed, as it is in every state.
LEMMA StoryQueue == GatesStory => QueueTyped
BY DEF GatesStory, GatesTypeOK, QueueTyped

\* A look changes nothing but the hand.
LEMMA LooksMoves ==
  ASSUME GatesStory, NEW w \in Runner, NEW step \in RunnerSteps, Looks(w, step),
         HandFits(w)', overdue = 0 => HandOnTime(w)'
  PROVE  GatesStory'
<1>1. HandGoes(w, step, hand[w].job)
  BY GoToGoes DEF GatesStory, Looks
<1>2. /\ UNCHANGED claimVars /\ UNCHANGED logVars
      /\ UNCHANGED <<gated, call, calls, faults, overdue>>
  BY DEF Looks, GoTo
<1>3. QueueMoves({}, {})
  BY <1>2, QueueStays, StoryQueue
<1>4. GatesTypeOK'
  BY <1>1, <1>2 DEF GatesStory, GatesTypeOK, HandGoes, HandRecord, claimVars, logVars
<1>5. ClaimedOnTime'
  BY <1>1, <1>2, OnTimeStays DEF HandGoes, claimVars, logVars
<1>6. faults' >= faults
  BY <1>2, GatesAssumption DEF GatesStory, GatesTypeOK
<1>7. QED
  BY <1>1, <1>2, <1>3, <1>4, <1>5, <1>6, RunnerMoves DEF HandGoes, logVars

\* The jobs of a kind are jobs, and no job is of two kinds.
LEMMA JobKinds ==
  /\ \A p \in Proposal : <<"analyse", p>> \in Job /\ <<"gate", p>> \in Job
  /\ \A f \in Fork : <<"create", f>> \in Job /\ <<"gate", f>> \in Job
  /\ \A c \in Clone : <<"verify", c>> \in Job
  /\ \A j \in Job : j[1] = "analyse" => j \in {"analyse"} \X Proposal
  /\ \A j \in Job : j[1] = "create" => j \in {"create"} \X Fork
BY GatesAssumption DEF Proposal

\* A new analysis.
LEMMA AnalyseStep ==
  ASSUME GatesStory, NEW p \in Proposal, Analyse(p)
  PROVE  GatesStory'
<1>1. /\ Submit(<<"analyse", p>>)
      /\ UNCHANGED <<gated, hand, call, calls, logVars, faults, overdue>>
  BY DEF Analyse
<1>2. QueueMoves({<<"analyse", p>>}, {}) /\ holder' = holder
  BY <1>1, SubmitMoves, StoryQueue, JobKinds
<1>3. GatesTypeOK'
  BY <1>1, <1>2 DEF GatesStory, GatesTypeOK, QueueMoves, logVars
<1>4. ClaimedOnTime'
  BY <1>1, <1>2, OnTimeStays, GatesAssumption DEF logVars
<1>5. faults' >= faults
  BY <1>1, GatesAssumption DEF GatesStory, GatesTypeOK
<1>6. NoRunner \notin Runner
  BY GatesAssumption
<1>7. QED
  BY <1>1, <1>2, <1>3, <1>4, <1>5, <1>6, RunnerMoves DEF logVars

\* A runner takes a job that nobody has.
LEMMA TakeJobStep ==
  ASSUME GatesStory, NEW w \in Runner, NEW j \in Job, TakeJob(w, j)
  PROVE  GatesStory'
<1> DEFINE step == IF j[1] = "analyse" THEN "find" ELSE "look"
<1>1. /\ Claim(w, j, {}, {}) /\ j[1] \in {"analyse", "create"}
      /\ hand' = [hand EXCEPT ![w] = [step |-> step, job |-> j]]
      /\ UNCHANGED <<gated, call, calls, logVars, faults, overdue>>
  BY DEF TakeJob
<1>2. HandGoes(w, step, j)
  BY <1>1 DEF GatesStory, GatesTypeOK, HandGoes, HandRecord, RunnerSteps
<1>3. /\ QueueMoves({}, {}) /\ phase[j] = "waiting" /\ holder[j] = NoRunner
      /\ holder'[j] = w /\ \A k \in Job \ {j} : holder'[k] = holder[k]
  BY <1>1, ClaimMoves, StoryQueue
<1>4. phase'[j] # "new"
  BY <1>3 DEF QueueMoves
<1>5. HandFits(w)'
  <2>1. CASE j[1] = "analyse"
    <3>1. j \in {"analyse"} \X Proposal /\ step = "find"
      BY <2>1, JobKinds
    <3>2. QED
      BY <1>2, <3>1 DEF HandGoes, HandFits
  <2>2. CASE j[1] = "create"
    <3>1. j \in {"create"} \X Fork /\ step = "look"
      BY <2>2, JobKinds
    <3>2. QED
      BY <1>2, <1>4, <3>1 DEF HandGoes, HandFits
  <2>3. QED
    BY <1>1, <2>1, <2>2
<1>6. GatesTypeOK'
  BY <1>1, <1>2, <1>3
     DEF GatesStory, GatesTypeOK, QueueMoves, HandGoes, HandRecord, logVars
<1>7. HandOnTime(w)'
  BY <1>2, <1>3 DEF HandGoes, HandOnTime
<1>8. \A v \in Runner \ {w} : hand[v].step # "idle" /\ holder[hand[v].job] = v =>
        holder'[hand[v].job] = v
  <2>1. \A v \in Runner : hand[v].step # "idle" => hand[v].job \in Job
    BY HandsHave, JobKinds, GatesAssumption DEF GatesStory
  <2>2. QED
    BY <1>3, <2>1, GatesAssumption
<1>9. ClaimedOnTime'
  BY <1>1, <1>2, <1>7, <1>8, OnTimeStays DEF HandGoes, logVars
<1>10. faults' >= faults
  BY <1>1, GatesAssumption DEF GatesStory, GatesTypeOK
<1>11. QED
  BY <1>1, <1>2, <1>3, <1>5, <1>6, <1>9, <1>10, RunnerMoves DEF HandGoes, logVars

\* A runner gives its job up: it settles only a fork that was made, and no gate.
LEMMA SettleStep ==
  ASSUME GatesStory, NEW w \in Runner, Settle(w)
  PROVE  GatesStory'
<1> DEFINE j == hand[w].job
<1>1. /\ hand[w].step \in {"return", "raised"} /\ Leaves(w)
      /\ UNCHANGED <<gated, call, calls, logVars, faults, overdue>>
  BY DEF Settle
<1>2. HandGoes(w, "idle", NoJob)
  BY <1>1, LeavesGoes DEF GatesStory
<1>3. j \in Job /\ j \in ({"analyse"} \X Proposal) \cup ({"create"} \X Fork)
  <2>1. HandFits(w)
    BY DEF GatesStory
  <2>2. j \in ({"analyse"} \X Proposal) \cup ({"create"} \X Fork)
    BY <1>1, <2>1 DEF HandFits
  <2>3. QED
    BY <2>2, GatesAssumption
<1>4. PICK settled \in {{}, {j}} :
        /\ QueueMoves({}, settled) /\ \A k \in Job \ {j} : holder'[k] = holder[k]
        /\ j \in settled => hand[w].step = "return"
        /\ holder[j] # w => holder'[j] = holder[j]
  <2>1. CASE ~ Holds(w)
    <3>1. UNCHANGED claimVars
      BY <2>1 DEF Settle
    <3>2. QueueMoves({}, {}) /\ holder' = holder
      BY <3>1, QueueStays, StoryQueue DEF claimVars
    <3>3. QED
      BY <3>2
  <2>2. ASSUME Holds(w)
        PROVE  \E outcome \in {"waiting", "parked", "settled"} :
                 /\ Release(w, j, outcome)
                 /\ outcome = "settled" => hand[w].step = "return"
    BY <2>2 DEF Settle, Handling
  <2>3. CASE Holds(w)
    <3>1. PICK outcome \in {"waiting", "parked", "settled"} :
            Release(w, j, outcome) /\ (outcome = "settled" => hand[w].step = "return")
      BY <2>2, <2>3
    <3>2. /\ QueueMoves({}, {j})
          /\ outcome # "settled" => QueueMoves({}, {})
          /\ holder[j] = w /\ \A k \in Job \ {j} : holder'[k] = holder[k]
      BY <3>1, <1>3, ReleaseMoves, StoryQueue
    <3>3. CASE outcome = "settled"
      BY <3>1, <3>2, <3>3
    <3>4. CASE outcome # "settled"
      BY <3>1, <3>2, <3>4
    <3>5. QED
      BY <3>3, <3>4
  <2>4. QED
    BY <2>1, <2>3
<1>5. \A f \in Fork : <<"create", f>> \in settled => forks[f] # <<>>
  BY <1>4 DEF GatesStory, HandFits
<1>6. \A f \in Fork : <<"gate", f>> \notin settled
  BY <1>3, <1>4
<1>7. HandFits(w)' /\ HandOnTime(w)'
  BY <1>2 DEF HandGoes, HandFits, HandOnTime
<1>8. GatesTypeOK'
  BY <1>1, <1>2, <1>4
     DEF GatesStory, GatesTypeOK, QueueMoves, HandGoes, HandRecord, logVars
<1>9. \A v \in Runner \ {w} : hand[v].step # "idle" /\ holder[hand[v].job] = v =>
        holder'[hand[v].job] = v
  <2>1. \A v \in Runner : hand[v].step # "idle" => hand[v].job \in Job
    BY HandsHave, JobKinds, GatesAssumption DEF GatesStory
  <2>2. QED
    BY <1>4, <2>1
<1>10. ClaimedOnTime'
  BY <1>1, <1>2, <1>7, <1>9, OnTimeStays DEF HandGoes, logVars
<1>11. faults' >= faults
  BY <1>1, GatesAssumption DEF GatesStory, GatesTypeOK
<1>12. QED
  BY <1>1, <1>2, <1>4, <1>5, <1>6, <1>7, <1>8, <1>10, <1>11, RunnerMoves
     DEF HandGoes, logVars

\* A step raises, or a process dies.
LEMMA FaultStep ==
  ASSUME GatesStory, NEW w \in Runner, Fault(w)
  PROVE  GatesStory'
<1>1. /\ hand[w].step # "idle" /\ faults < MaxFaults /\ faults' = faults + 1
      /\ UNCHANGED <<claimVars, gated, call, calls, logVars, overdue>>
  BY DEF Fault, Handling
<1>2. QueueMoves({}, {}) /\ holder' = holder
  BY <1>1, QueueStays, StoryQueue DEF claimVars
<1>3. \/ HandGoes(w, "idle", NoJob) \/ HandGoes(w, "raised", hand[w].job)
  <2>1. CASE Leaves(w)
    BY <2>1, LeavesGoes DEF GatesStory
  <2>2. CASE hand' = [hand EXCEPT ![w].step = "raised"]
    BY <2>2 DEF GatesStory, GatesTypeOK, HandGoes, HandRecord, RunnerSteps
  <2>3. QED
    BY <2>1, <2>2 DEF Fault
<1>4. \A v \in Runner \ {w} : hand'[v] = hand[v]
  BY <1>3 DEF HandGoes
<1>5. HandFits(w)'
  <2>1. hand[w].job \in ({"analyse"} \X Proposal) \cup ({"create"} \X Fork)
    BY <1>1, HandsHave DEF GatesStory
  <2>2. CASE HandGoes(w, "idle", NoJob)
    BY <2>2 DEF HandGoes, HandFits
  <2>3. CASE HandGoes(w, "raised", hand[w].job)
    BY <2>1, <2>3 DEF HandGoes, HandFits
  <2>4. QED
    BY <1>3, <2>2, <2>3
<1>6. overdue = 0 => HandOnTime(w)'
  <2>1. overdue = 0 => holder[hand[w].job] = w
    BY <1>1 DEF GatesStory, ClaimedOnTime, HandOnTime
  <2>2. CASE HandGoes(w, "idle", NoJob)
    BY <2>2 DEF HandGoes, HandOnTime
  <2>3. CASE HandGoes(w, "raised", hand[w].job)
    BY <1>2, <2>1, <2>3 DEF HandGoes, HandOnTime
  <2>4. QED
    BY <1>3, <2>2, <2>3
<1>7. faults \in Nat /\ MaxFaults \in Nat
  BY GatesAssumption DEF GatesStory, GatesTypeOK
<1>8. hand' \in [Runner -> HandRecord] /\ faults' \in 0 .. MaxFaults /\ faults' >= faults
  BY <1>1, <1>3, <1>7 DEF HandGoes
<1>9. GatesTypeOK'
  BY <1>1, <1>8 DEF GatesStory, GatesTypeOK, HandRecord, claimVars, logVars
<1>10. ClaimedOnTime'
  BY <1>1, <1>2, <1>4, <1>6, OnTimeStays DEF logVars
<1>11. QED
  BY <1>1, <1>2, <1>4, <1>5, <1>8, <1>9, <1>10, RunnerMoves DEF logVars

\* A lease expires; nothing is on time any more if it was that of a live runner.
LEMMA ExpireStep ==
  ASSUME GatesStory, NEW j \in Job, Expire(j)
  PROVE  GatesStory'
<1>1. /\ Lapse({j}, {}) \/ Lapse({}, {j})
      /\ UNCHANGED <<gated, hand, call, calls, logVars, faults>>
  BY DEF Expire
<1>2. QueueMoves({}, {}) /\ \A k \in Job \ {j} : holder'[k] = holder[k]
  BY <1>1, LapseMoves, StoryQueue
<1>3. overdue \in Nat /\ MaxOverdue \in Nat /\ overdue <= MaxOverdue
  BY GatesAssumption DEF GatesStory, GatesTypeOK
<1>4. /\ overdue' \in 0 .. MaxOverdue /\ overdue' >= overdue
      /\ \/ overdue' # 0
         \/ /\ overdue' = overdue
            /\ \A w \in Runner : ~ (holder[j] = w /\ hand[w].job = j)
  BY <1>3 DEF Expire
<1>5. GatesTypeOK'
  BY <1>1, <1>2, <1>4 DEF GatesStory, GatesTypeOK, QueueMoves, logVars
<1>6. ClaimedOnTime'
  <2>1. CASE overdue' # 0
    BY <2>1 DEF ClaimedOnTime
  <2>2. CASE overdue' = 0
    <3>1. overdue' = overdue /\ \A w \in Runner : ~ (holder[j] = w /\ hand[w].job = j)
      BY <1>4, <2>2
    <3>2. \A v \in Runner : hand[v].step # "idle" => hand[v].job \in Job
      BY HandsHave, JobKinds, GatesAssumption DEF GatesStory
    <3>3. \A v \in Runner : hand[v].step # "idle" /\ holder[hand[v].job] = v =>
            holder'[hand[v].job] = v
      BY <1>2, <3>1, <3>2
    <3>4. QED
      BY <1>1, <3>1, <3>3, OnTimeStays, GatesAssumption DEF logVars
  <2>3. QED
    BY <2>1, <2>2
<1>7. faults' >= faults
  BY <1>1, GatesAssumption DEF GatesStory, GatesTypeOK
<1>8. NoRunner \notin Runner
  BY GatesAssumption
<1>9. QED
  BY <1>1, <1>2, <1>5, <1>6, <1>7, <1>8, RunnerMoves DEF logVars

\* A look for a proposal in the log.
LEMMA FindStep ==
  ASSUME GatesStory, NEW w \in Runner, Find(w)
  PROVE  GatesStory'
<1>1. PICK step \in {"dispatch", "propose"} : Looks(w, step)
  BY DEF Find
<1>2. hand[w].step = "find" /\ HandGoes(w, step, hand[w].job)
  BY <1>1, GoToGoes DEF Find, Handling, GatesStory, Looks, RunnerSteps
<1>3. HandFits(w)'
  BY <1>2 DEF GatesStory, HandFits, HandGoes
<1>4. overdue = 0 => HandOnTime(w)'
  <2>1. holder' = holder
    BY <1>1 DEF Looks, claimVars
  <2>2. QED
    BY <1>2, <2>1 DEF GatesStory, ClaimedOnTime, HandOnTime, HandGoes
<1>5. step \in RunnerSteps
  BY DEF RunnerSteps
<1>6. QED
  BY <1>1, <1>3, <1>4, <1>5, LooksMoves

\* The look for a fork that was made before.
LEMMA LookForForkStep ==
  ASSUME GatesStory, NEW w \in Runner, LookForFork(w)
  PROVE  GatesStory'
<1>1. PICK step \in {"return", "raised", "fork"} :
        /\ Looks(w, step)
        /\ step = "return" => forks[Subject(w)] # <<>>
        /\ step = "fork" => forks[Subject(w)] = <<>>
  BY DEF LookForFork
<1>2. hand[w].step = "look" /\ HandGoes(w, step, hand[w].job)
  BY <1>1, GoToGoes DEF LookForFork, Handling, GatesStory, Looks, RunnerSteps
<1>3. UNCHANGED claimVars /\ UNCHANGED forks
  BY <1>1 DEF Looks, logVars
<1>4. hand[w].job \in {"create"} \X Fork /\ phase[hand[w].job] # "new"
  BY <1>2 DEF GatesStory, HandFits
<1>5. HandFits(w)'
  BY <1>1, <1>2, <1>3, <1>4 DEF HandFits, HandGoes, claimVars, Subject
<1>6. overdue = 0 => HandOnTime(w)'
  <2>1. overdue = 0 => holder[hand[w].job] = w
    BY <1>2 DEF GatesStory, ClaimedOnTime, HandOnTime
  <2>2. QED
    BY <1>1, <1>2, <1>3, <2>1 DEF HandOnTime, HandGoes, Subject, claimVars
<1>7. step \in RunnerSteps
  BY DEF RunnerSteps
<1>8. QED
  BY <1>1, <1>5, <1>6, <1>7, LooksMoves

\* A proposal is logged.
LEMMA ProposeStep ==
  ASSUME GatesStory, NEW w \in Runner, Propose(w)
  PROVE  GatesStory'
<1>1. /\ hand[w].step = "propose" /\ GoTo(w, "dispatch")
      /\ proposed' = proposed \cup {Subject(w)}
      /\ UNCHANGED <<claimVars, approvals, approved, forks, questions, branches, clone,
                     archived>>
  BY DEF Propose, Handling
<1>2. HandGoes(w, "dispatch", hand[w].job)
  BY <1>1, GoToGoes DEF GatesStory, RunnerSteps
<1>3. hand[w].job \in {"analyse"} \X Proposal
  BY <1>1 DEF GatesStory, HandFits
<1>4. HandFits(w)'
  BY <1>2, <1>3 DEF HandFits, HandGoes
<1>5. QueueMoves({}, {}) /\ holder' = holder
  BY <1>1, QueueStays, StoryQueue DEF claimVars
<1>6. UNCHANGED <<gated, call, calls, faults, overdue>>
  BY <1>1 DEF GoTo
<1>7. Subject(w) \in Proposal
  BY <1>3 DEF Subject
<1>8. GatesTypeOK'
  BY <1>1, <1>2, <1>6, <1>7 DEF GatesStory, GatesTypeOK, HandGoes, HandRecord, claimVars
<1>9. overdue = 0 => HandOnTime(w)'
  BY <1>1, <1>2, <1>5 DEF GatesStory, ClaimedOnTime, HandOnTime, HandGoes
<1>10. ClaimedOnTime'
  BY <1>1, <1>2, <1>5, <1>6, <1>9, OnTimeStays DEF HandGoes
<1>11. faults' >= faults
  BY <1>6, GatesAssumption DEF GatesStory, GatesTypeOK
<1>12. QED
  BY <1>1, <1>2, <1>4, <1>5, <1>6, <1>8, <1>10, <1>11, RunnerMoves DEF HandGoes

\* What is proposed is dispatched: no job of a fork is enqueued that is gated.
LEMMA DispatchStep ==
  ASSUME GatesStory, NEW w \in Runner, Dispatch(w)
  PROVE  GatesStory'
<1> DEFINE p == Subject(w)
<1>1. hand[w].step = "dispatch" /\ UNCHANGED logVars
  BY DEF Dispatch, Handling
<1>2. hand[w].job \in {"analyse"} \X Proposal /\ p \in Proposal
  BY <1>1 DEF GatesStory, HandFits, Subject
<1>3. PICK step \in {"return", "emit"} :
        /\ GoTo(w, step)
        /\ step = "emit" => p \in Probe \ gated /\ questions[p].messages = 0
  BY DEF Dispatch
<1>4. HandGoes(w, step, hand[w].job)
  BY <1>3, GoToGoes DEF GatesStory, RunnerSteps
<1>5. PICK added :
        /\ QueueMoves(added, {}) /\ holder' = holder
        /\ \A c \in Clone : <<"verify", c>> \notin added
        /\ \A f \in Fork \cap gated : <<"create", f>> \notin added
  <2>1. CASE p \in gated /\ EnqueueOnce(<<"gate", p>>)
    <3>1. QueueMoves({<<"gate", p>>}, {}) /\ holder' = holder
      BY <1>2, <2>1, EnqueueMoves, StoryQueue, JobKinds
    <3>2. QED
      BY <3>1
  <2>2. CASE p \in Fork \ gated /\ EnqueueOnce(<<"create", p>>)
    <3>1. QueueMoves({<<"create", p>>}, {}) /\ holder' = holder
      BY <1>2, <2>2, EnqueueMoves, StoryQueue, JobKinds
    <3>2. QED
      BY <2>2, <3>1
  <2>3. CASE UNCHANGED claimVars
    <3>1. QueueMoves({}, {}) /\ holder' = holder
      BY <2>3, QueueStays, StoryQueue DEF claimVars
    <3>2. QED
      BY <3>1
  <2>4. QED
    BY <2>1, <2>2, <2>3 DEF Dispatch
<1>6. hand[w].job = <<"analyse", p>>
  BY <1>2 DEF Subject
<1>7. HandFits(w)'
  <2>1. gated' = gated
    BY <1>3 DEF GoTo
  <2>2. CASE step = "return"
    BY <1>2, <1>4, <1>6, <2>2 DEF HandFits, HandGoes
  <2>3. CASE step = "emit"
    BY <1>3, <1>4, <1>6, <2>1, <2>3 DEF HandFits, HandGoes
  <2>4. QED
    BY <2>2, <2>3
<1>8. UNCHANGED <<gated, call, calls, faults, overdue>>
  BY <1>3 DEF GoTo
<1>9. GatesTypeOK'
  BY <1>1, <1>4, <1>5, <1>8
     DEF GatesStory, GatesTypeOK, HandGoes, HandRecord, QueueMoves, logVars
<1>10. overdue = 0 => HandOnTime(w)'
  <2>1. overdue = 0 => holder[hand[w].job] = w
    BY <1>1 DEF GatesStory, ClaimedOnTime, HandOnTime
  <2>2. questions' = questions
    BY <1>1 DEF logVars
  <2>3. QED
    BY <1>3, <1>4, <1>5, <2>1, <2>2 DEF HandOnTime, HandGoes, Subject
<1>11. ClaimedOnTime'
  BY <1>1, <1>4, <1>5, <1>8, <1>10, OnTimeStays DEF HandGoes, logVars
<1>12. faults' >= faults
  BY <1>8, GatesAssumption DEF GatesStory, GatesTypeOK
<1>13. QED
  BY <1>1, <1>4, <1>5, <1>7, <1>8, <1>9, <1>11, <1>12, RunnerMoves DEF HandGoes, logVars

\* One of the three things that are emitted for a probe.
Asked(q, messages, requests, jobs) ==
  /\ questions' \in [Probe -> [messages : Nat, requests : Nat, jobs : Nat]]
  /\ \A x \in Probe \ {q} : questions'[x] = questions[x]
  /\ questions'[q].messages = questions[q].messages + messages
  /\ questions'[q].requests = questions[q].requests + requests
  /\ questions'[q].jobs = questions[q].jobs + jobs

\* What each of the three does to the record of its probe.
LEMMA EmitsAsks ==
  ASSUME GatesTypeOK, NEW w \in Runner, Subject(w) \in Probe
  PROVE  /\ EmitMessage(w) => Asked(Subject(w), 1, 0, 0)
         /\ EmitRequest(w) => Asked(Subject(w), 0, 1, 0)
         /\ EnqueueGeneration(w) => Asked(Subject(w), 0, 0, 1)
<1> DEFINE q == Subject(w)
<1>1. /\ EmitMessage(w) => questions' = [questions EXCEPT ![q]["messages"] = @ + 1]
      /\ EmitRequest(w) => questions' = [questions EXCEPT ![q]["requests"] = @ + 1]
      /\ EnqueueGeneration(w) => questions' = [questions EXCEPT ![q]["jobs"] = @ + 1]
  BY DEF EmitMessage, EmitRequest, EnqueueGeneration, Emits
<1>2. questions \in [Probe -> [messages : Nat, requests : Nat, jobs : Nat]]
  BY DEF GatesTypeOK
<1>3. q \in Probe
  OBVIOUS
<1> HIDE DEF q
<1>4. EmitMessage(w) => Asked(q, 1, 0, 0)
  BY <1>1, <1>2, <1>3 DEF Asked
<1>5. EmitRequest(w) => Asked(q, 0, 1, 0)
  BY <1>1, <1>2, <1>3 DEF Asked
<1>6. EnqueueGeneration(w) => Asked(q, 0, 0, 1)
  BY <1>1, <1>2, <1>3 DEF Asked
<1>7. QED
  BY <1>4, <1>5, <1>6 DEF q

\* Something is emitted for a probe, on time for the first time.
LEMMA EmitStep ==
  ASSUME GatesStory, NEW w \in Runner,
         EmitMessage(w) \/ EmitRequest(w) \/ EnqueueGeneration(w)
  PROVE  GatesStory'
<1> DEFINE q == Subject(w)
<1>1. PICK step \in {"request", "enqueue", "return"} :
        /\ GoTo(w, step)
        /\ UNCHANGED <<claimVars, proposed, approvals, approved, forks, branches, clone,
                       archived>>
        /\ \/ EmitMessage(w) /\ hand[w].step = "emit" /\ step = "request"
           \/ EmitRequest(w) /\ hand[w].step = "request" /\ step = "enqueue"
           \/ EnqueueGeneration(w) /\ hand[w].step = "enqueue" /\ step = "return"
  BY DEF EmitMessage, EmitRequest, EnqueueGeneration, Emits, Handling
<1>2. hand[w].job \in {"analyse"} \X (Probe \ gated)
  BY <1>1 DEF GatesStory, HandFits
<1>3. q \in Probe \ gated /\ hand[w].job = <<"analyse", q>>
  BY <1>2 DEF Subject
<1>4. HandGoes(w, step, hand[w].job)
  BY <1>1, GoToGoes DEF GatesStory, RunnerSteps
<1>5. UNCHANGED <<gated, call, calls, faults, overdue>>
  BY <1>1 DEF GoTo
<1>6. QueueMoves({}, {}) /\ holder' = holder
  BY <1>1, QueueStays, StoryQueue DEF claimVars
<1>7. HandFits(w)'
  <2>1. CASE step = "return"
    BY <1>3, <1>4, <2>1 DEF HandFits, HandGoes, Proposal
  <2>2. CASE step # "return"
    BY <1>1, <1>2, <1>4, <1>5, <2>2 DEF HandFits, HandGoes
  <2>3. QED
    BY <2>1, <2>2
<1>8. PICK m \in {0, 1}, r \in {0, 1}, j \in {0, 1} :
        /\ Asked(q, m, r, j)
        /\ hand[w].step = "emit" => m = 1 /\ j = 0
        /\ hand[w].step = "request" => m = 0 /\ j = 0
        /\ hand[w].step = "enqueue" => m = 0 /\ j = 1
  BY <1>1, <1>3, EmitsAsks DEF GatesStory
<1>9. GatesTypeOK'
  BY <1>1, <1>4, <1>5, <1>8
     DEF GatesStory, GatesTypeOK, HandGoes, HandRecord, claimVars, Asked
<1>10. ClaimedOnTime'
  <2>1. SUFFICES ASSUME overdue = 0
                 PROVE  LogOnTime' /\ \A v \in Runner : HandOnTime(v)'
    BY <1>5 DEF ClaimedOnTime
  <2>2. LogOnTime /\ \A v \in Runner : HandOnTime(v)
    BY <2>1 DEF GatesStory, ClaimedOnTime
  <2>3. questions \in [Probe -> [messages : Nat, requests : Nat, jobs : Nat]]
    BY DEF GatesStory, GatesTypeOK
  <2>4. questions[q].messages \in Nat /\ questions[q].jobs \in Nat
    BY <1>3, <2>3
  <2>5. /\ hand[w].step = "emit" => questions[q].messages = 0
        /\ hand[w].step \in {"request", "enqueue"} =>
             questions[q].messages = 1 /\ questions[q].jobs = 0
        /\ questions[q].jobs <= questions[q].messages
    BY <1>3, <2>2 DEF HandOnTime, LogOnTime
  <2>6. /\ questions'[q].messages = 1
        /\ questions'[q].jobs <= 1
        /\ step \in {"request", "enqueue"} => questions'[q].jobs = 0
    BY <1>1, <1>8, <2>4, <2>5 DEF Asked
  <2>7. LogOnTime'
    <3>1. \A f \in Fork : Len(forks'[f]) <= 1
      BY <1>1, <2>2 DEF LogOnTime
    <3>2. \A x \in Probe : /\ questions'[x].messages <= 1
                           /\ questions'[x].jobs <= questions'[x].messages
      BY <1>8, <2>2, <2>6 DEF LogOnTime, Asked
    <3>3. QED
      BY <3>1, <3>2 DEF LogOnTime
  <2>8. HandOnTime(w)'
    <3>1. holder[hand[w].job] = w
      BY <1>1, <2>2 DEF HandOnTime
    <3>2. QED
      BY <1>4, <1>6, <2>6, <3>1 DEF HandOnTime, HandGoes, Subject
  <2>9. ASSUME NEW v \in Runner \ {w}
        PROVE  HandOnTime(v)'
    <3>1. hand'[v] = hand[v] /\ holder' = holder /\ forks' = forks
      BY <1>1, <1>4, <1>6 DEF HandGoes
    <3>2. ASSUME hand[v].step \in {"emit", "request", "enqueue"}
          PROVE  questions'[Subject(v)] = questions[Subject(v)]
      <4>1. hand[v].job \in {"analyse"} \X (Probe \ gated)
        BY <3>2 DEF GatesStory, HandFits
      <4>2. Subject(v) \in Probe /\ hand[v].job = <<"analyse", Subject(v)>>
        BY <4>1 DEF Subject
      <4>3. holder[hand[v].job] = v /\ holder[hand[w].job] = w
        BY <1>1, <2>2, <3>2 DEF HandOnTime
      <4>4. Subject(v) # q
        BY <1>3, <4>2, <4>3
      <4>5. QED
        BY <1>8, <4>2, <4>4 DEF Asked
    <3>3. QED
      BY <2>2, <3>1, <3>2 DEF HandOnTime, Subject
  <2>10. QED
    BY <2>7, <2>8, <2>9
<1>11. faults' >= faults
  BY <1>5, GatesAssumption DEF GatesStory, GatesTypeOK
<1>12. QED
  BY <1>1, <1>4, <1>5, <1>6, <1>7, <1>9, <1>10, <1>11, RunnerMoves DEF HandGoes

\* A branch is forked: for a gated proposal with the approval that its job waited for,
\* and on time once.
LEMMA ForkProposedStep ==
  ASSUME GatesStory, NEW w \in Runner, ForkProposed(w)
  PROVE  GatesStory'
<1> DEFINE f == Subject(w)
           who == IF f \in approved THEN "human" ELSE "policy"
<1>1. /\ hand[w].step = "fork" /\ GoTo(w, "return")
      /\ forks' = [forks EXCEPT ![f] = Append(@, who)]
      /\ UNCHANGED <<claimVars, proposed, approvals, approved, questions, branches, clone,
                     archived>>
  BY DEF ForkProposed, Handling
<1>2. hand[w].job \in {"create"} \X Fork /\ phase[hand[w].job] # "new"
  BY <1>1 DEF GatesStory, HandFits
<1>3. f \in Fork /\ hand[w].job = <<"create", f>>
  BY <1>2 DEF Subject
<1>4. HandGoes(w, "return", hand[w].job)
  BY <1>1, GoToGoes DEF GatesStory, RunnerSteps
<1>5. UNCHANGED <<gated, call, calls, faults, overdue>>
  BY <1>1 DEF GoTo
<1>6. QueueMoves({}, {}) /\ phase' = phase /\ holder' = holder
  BY <1>1, QueueStays, StoryQueue DEF claimVars
<1>7. forks \in [Fork -> Seq({"human", "policy"})] /\ who \in {"human", "policy"}
  BY DEF GatesStory, GatesTypeOK
<1>8. /\ forks' \in [Fork -> Seq({"human", "policy"})]
      /\ forks'[f] = Append(forks[f], who)
      /\ \A g \in Fork \ {f} : forks'[g] = forks[g]
  BY <1>1, <1>3, <1>7
<1>9. /\ forks[f] \in Seq({"human", "policy"})
      /\ forks'[f] # <<>> /\ Len(forks'[f]) = Len(forks[f]) + 1
      /\ \A i \in DOMAIN forks'[f] : \/ forks'[f][i] = who
                                     \/ i \in DOMAIN forks[f] /\ forks'[f][i] = forks[f][i]
  BY <1>3, <1>7, <1>8
<1>10. GatesTypeOK'
  BY <1>1, <1>4, <1>5, <1>8 DEF GatesStory, GatesTypeOK, HandGoes, HandRecord, claimVars
<1>11. LogGrows
  <2>1. \A v \in Request : branches[v] <= branches[v]
    BY GatesAssumption DEF GatesStory, GatesTypeOK
  <2>2. \A g \in Fork : forks[g] # <<>> => forks'[g] # <<>>
    BY <1>8, <1>9
  <2>3. QED
    BY <1>1, <1>5, <1>6, <2>1, <2>2 DEF LogGrows
<1>12. HandFits(w)'
  BY <1>3, <1>4, <1>9 DEF HandFits, HandGoes
<1>13. \A v \in Runner : HandFits(v)'
  BY <1>4, <1>11, <1>12, HandsStay DEF GatesStory, HandGoes
<1>14. ForkIsAuthorised'
  <2>1. \A g \in (Fork \cap gated) \ {f} :
          "policy" \notin {forks'[g][i] : i \in DOMAIN forks'[g]}
    BY <1>8 DEF GatesStory, ForkIsAuthorised
  <2>2. ASSUME f \in gated
        PROVE  "policy" \notin {forks'[f][i] : i \in DOMAIN forks'[f]}
    <3>1. f \in approved
      BY <1>2, <1>3, <2>2 DEF GatesStory, ForkIsAuthorised
    <3>2. "policy" \notin {forks[f][i] : i \in DOMAIN forks[f]}
      BY <1>3, <2>2 DEF GatesStory, ForkIsAuthorised
    <3>3. QED
      BY <1>9, <3>1, <3>2
  <2>3. \A g \in (Fork \cap gated) :
          /\ forks'[g] # <<>> \/ phase[<<"create", g>>] # "new"
               => g \in approvals /\ g \in approved
          /\ phase[<<"gate", g>>] = "settled" => g \in approvals
    BY <1>2, <1>3, <1>8 DEF GatesStory, ForkIsAuthorised
  <2>4. QED
    BY <1>1, <1>5, <1>6, <2>1, <2>2, <2>3 DEF ForkIsAuthorised
<1>15. ForksDue'
  BY <1>1, <1>2, <1>3, <1>5, <1>6, <1>8, <1>9 DEF GatesStory, ForksDue
<1>16. ClaimedOnTime'
  <2>1. SUFFICES ASSUME overdue = 0
                 PROVE  LogOnTime' /\ \A v \in Runner : HandOnTime(v)'
    BY <1>5 DEF ClaimedOnTime
  <2>2. LogOnTime /\ \A v \in Runner : HandOnTime(v)
    BY <2>1 DEF GatesStory, ClaimedOnTime
  <2>3. holder[hand[w].job] = w /\ forks[f] = <<>>
    BY <1>1, <2>2 DEF HandOnTime
  <2>4. LogOnTime'
    BY <1>1, <1>8, <1>9, <2>2, <2>3 DEF LogOnTime
  <2>5. HandOnTime(w)'
    BY <1>4, <1>6, <2>3 DEF HandOnTime, HandGoes
  <2>6. ASSUME NEW v \in Runner \ {w}
        PROVE  HandOnTime(v)'
    <3>1. hand'[v] = hand[v] /\ holder' = holder /\ questions' = questions
      BY <1>1, <1>4, <1>6 DEF HandGoes
    <3>2. ASSUME hand[v].step = "fork"
          PROVE  forks'[Subject(v)] = forks[Subject(v)]
      <4>1. hand[v].job \in {"create"} \X Fork
        BY <3>2 DEF GatesStory, HandFits
      <4>2. Subject(v) \in Fork /\ hand[v].job = <<"create", Subject(v)>>
        BY <4>1 DEF Subject
      <4>3. holder[hand[v].job] = v
        BY <2>2, <3>2 DEF HandOnTime
      <4>4. Subject(v) # f
        BY <1>3, <2>3, <4>2, <4>3
      <4>5. QED
        BY <1>8, <4>2, <4>4
    <3>3. QED
      BY <2>2, <3>1, <3>2 DEF HandOnTime, Subject
  <2>7. QED
    BY <2>4, <2>5, <2>6
<1>17. faults' >= faults
  BY <1>5, GatesAssumption DEF GatesStory, GatesTypeOK
<1>18. /\ \A p \in Operator : CallFits(p)'
       /\ ClonesApart' /\ BranchesCounted' /\ ApprovalsOwe'
  BY <1>1, <1>5, <1>6, <1>10, <1>11, <1>17, OperatorsKept
<1>19. QED
  BY <1>6, <1>10, <1>13, <1>14, <1>15, <1>16, <1>18 DEF GatesStory, QueueMoves

-----------------------------------------------------------------------------
(* The steps of the operators *)

\* A step of an operator answers for its command, for the jobs that it adds or
\* settles, for the clones, and for what an approval owes.
LEMMA OperatorMoves ==
  ASSUME GatesStory, GatesTypeOK', LogGrows, NEW p \in Operator,
         \A o \in Operator \ {p} : call'[o] = call[o], CallFits(p)',
         ClonesApart', BranchesCounted',
         UNCHANGED <<gated, hand, forks, questions, overdue>>, faults' >= faults,
         NEW added, NEW settled, QueueMoves(added, settled),
         NEW gate \in {"gate", "verify"},
         \A k \in Job : k[1] # gate => holder'[k] = holder[k],
         \A f \in Fork : f \in approvals' => f \in gated,
         \A f \in Fork \cap gated : <<"create", f>> \in added =>
           f \in approvals' /\ f \in approved',
         \A f \in Fork : <<"gate", f>> \in settled => f \in approvals',
         \A f \in Fork : <<"create", f>> \in settled => forks[f] # <<>>,
         faults' = 0 => \A f \in Fork \cap approvals' :
           \/ f \in approvals /\ call[p].item # f
           \/ call'[p].item = f
           \/ phase'[<<"create", f>>] # "new"
  PROVE  GatesStory'
<1>1. ForkIsAuthorised' /\ ForksDue'
  BY ForksKept
<1>2. (\A w \in Runner : HandFits(w)') /\ ClaimedOnTime'
  BY RunnersKept
<1>3. \A o \in Operator : CallFits(o)'
  BY CallsStay DEF GatesStory
<1>4. ApprovalsOwe'
  <2>1. SUFFICES ASSUME faults' = 0, NEW f \in Fork \cap approvals'
                 PROVE  \/ phase'[<<"create", f>>] # "new"
                        \/ \E o \in Operator : call'[o].item = f
    BY DEF ApprovalsOwe
  <2>2. faults = 0
    BY <2>1, GatesAssumption DEF GatesStory, GatesTypeOK
  <2>3. CASE f \in approvals /\ call[p].item # f
    <3>1. \/ phase[<<"create", f>>] # "new"
          \/ \E o \in Operator : call[o].item = f
      BY <2>2, <2>3 DEF GatesStory, ApprovalsOwe
    <3>2. phase[<<"create", f>>] # "new" => phase'[<<"create", f>>] # "new"
      BY JobKinds DEF LogGrows
    <3>3. QED
      BY <2>3, <3>1, <3>2
  <2>4. QED
    BY <2>1, <2>3
<1>5. ClaimsHeld'
  BY DEF QueueMoves
<1>6. QED
  BY <1>1, <1>2, <1>3, <1>4, <1>5 DEF GatesStory

\* Where nothing is cloned and no branch is forked to verify, the clones are apart
\* as they were, and none is missing.
LEMMA ClonesStay ==
  ASSUME GatesStory, GatesTypeOK', LogGrows, NEW p \in Operator,
         \A o \in Operator \ {p} : call'[o] = call[o],
         call[p].step # "clone", call'[p].step # "clone",
         UNCHANGED <<clone, branches>>, faults' >= faults,
         NEW added, NEW settled, QueueMoves(added, settled),
         \A c \in Clone : <<"verify", c>> \in added =>
           clone[c] # NoClone /\ c \in approvals'
  PROVE  ClonesApart' /\ BranchesCounted'
<1>1. \A o \in Operator : At(o, "clone")' =>
        o # p /\ At(o, "clone") /\ call'[o] = call[o]
  BY DEF At
<1>2. ClonesApart'
  <2>1. \A c \in Clone : clone[c] # NoClone =>
          /\ clone[c].request \in approvals'
          /\ clone[c].branch \in 1 .. branches[clone[c].request]
          /\ \A d \in Clone \ {c} : clone[d] # clone[c]
    BY DEF GatesStory, ClonesApart, LogGrows
  <2>2. \A o \in Operator : At(o, "clone")' =>
          /\ \A c \in Clone :
               clone[c].request = call'[o].item => clone[c].branch # call'[o].branch
          /\ \A q \in Operator \ {o} :
               At(q, "clone")' /\ call'[q].item = call'[o].item =>
                 call'[q].branch # call'[o].branch
    BY <1>1 DEF GatesStory, ClonesApart, Item
  <2>3. \A c \in Clone : phase'[<<"verify", c>>] # "new" =>
          clone[c] # NoClone /\ c \in approvals'
    BY JobKinds DEF GatesStory, ClonesApart, QueueMoves, LogGrows
  <2>4. QED
    BY <2>1, <2>2, <2>3 DEF ClonesApart, Item
<1>3. \A v \in Request : Cloning(v)' = Cloning(v) /\ ClonesOf(v)' = ClonesOf(v)
  <2>1. \A o \in Operator : At(o, "clone") => o # p
    BY DEF At
  <2>2. QED
    BY <1>1, <2>1 DEF Cloning, ClonesOf, At, Item
<1>4. BranchesCounted'
  <2>1. \A v \in Request : /\ Cardinality(ClonesOf(v)) \in Nat
                           /\ Cardinality(Cloning(v)) \in Nat
    <3>1. ASSUME NEW v \in Request
          PROVE  IsFiniteSet(ClonesOf(v)) /\ IsFiniteSet(Cloning(v))
      BY GatesAssumption, FS_Subset DEF ClonesOf, Cloning
    <3>2. QED
      BY <3>1, FS_CardinalityType
  <2>2. branches \in [Request -> 0 .. MaxForks] /\ faults \in Nat /\ faults' \in Nat
    BY GatesAssumption DEF GatesStory, GatesTypeOK
  <2>3. SUFFICES ASSUME NEW v \in Request
                 PROVE  branches'[v] <= Cardinality(ClonesOf(v)') + faults'
                                          + Cardinality(Cloning(v)')
    BY DEF BranchesCounted
  <2>4. branches[v] <= Cardinality(ClonesOf(v)) + faults + Cardinality(Cloning(v))
    BY DEF GatesStory, BranchesCounted
  <2>5. branches[v] \in Nat
    BY <2>2, GatesAssumption
  <2>6. QED
    BY <1>3, <2>1, <2>2, <2>4, <2>5
<1>5. QED
  BY <1>2, <1>4

\* An approval is added to the log, and the log grows.
LEMMA GrowsByApproval ==
  ASSUME GatesStory, NEW added, NEW settled, QueueMoves(added, settled),
         approvals \subseteq approvals', approved \subseteq approved',
         UNCHANGED <<gated, forks, branches, clone>>
  PROVE  LogGrows
<1>1. \A v \in Request : branches[v] <= branches[v]
  BY GatesAssumption DEF GatesStory, GatesTypeOK
<1>2. QED
  BY <1>1 DEF LogGrows, QueueMoves

\* What a command has at hand, and that faults are counted.
LEMMA CommandFits ==
  ASSUME GatesStory, NEW p \in Operator
  PROVE  /\ call[p].step = "idle" => call[p].item = None
         /\ call[p].step \in {"clear", "execute"} =>
              call[p].item \in Fork \cap gated \cap approvals
         /\ call[p].step \in {"find", "fork", "append", "clone"} =>
              call[p].item \in Request \cap approvals
         /\ call[p].step = "clone" => call[p].branch \in 1 .. branches[call[p].item]
         /\ call[p].step \in {"confirm", "schedule"} =>
              call[p].item \in Clone /\ clone[call[p].item] # NoClone
         /\ call[p].step = "schedule" => call[p].item \in approvals
         /\ faults \in Nat /\ faults >= faults
         /\ \A f \in Fork : f \in approvals => f \in gated
<1>1. faults \in Nat
  BY GatesAssumption DEF GatesStory, GatesTypeOK
<1>2. CallFits(p)
  BY DEF GatesStory
<1>3. \A f \in Fork : f \in approvals => f \in gated
  BY DEF GatesStory, ForksDue
<1>4. QED
  BY <1>1, <1>2, <1>3 DEF CallFits

\* Whoever is named by an approval or a clone is no proposal of a fork.
LEMMA NamesApart ==
  /\ None \notin Fork \cup Request \cup Clone
  /\ Fork \cap Request = {} /\ Fork \cap Clone = {} /\ Request \cap Clone = {}
BY GatesAssumption DEF None

\* A human approves a gated proposal.
LEMMA ApproveBranchStep ==
  ASSUME GatesStory, NEW p \in Operator, NEW f \in Fork, ApproveBranch(p, f)
  PROVE  GatesStory'
<1>1. /\ call[p].step = "idle" /\ f \in gated
      /\ approvals' = approvals \cup {f}
      /\ UNCHANGED <<claimVars, proposed, approved, forks, questions, branches, clone,
                     archived>>
      /\ UNCHANGED <<gated, hand, faults, overdue>>
      /\ Calls(p, "clear", f, 0) /\ calls < MaxCalls /\ calls' = calls + 1
  BY DEF ApproveBranch, Idle, Approve, Calls
<1>2. CallGoes(p, "clear", f, 0)
  BY <1>1, CallsGoes DEF GatesStory, CallSteps
<1>3. QueueMoves({}, {}) /\ holder' = holder
  BY <1>1, QueueStays, StoryQueue DEF claimVars
<1>4. LogGrows
  BY <1>1, <1>3, GrowsByApproval
<1>5. calls' \in 0 .. MaxCalls
  BY <1>1, GatesAssumption DEF GatesStory, GatesTypeOK
<1>6. GatesTypeOK'
  BY <1>1, <1>2, <1>5
     DEF GatesStory, GatesTypeOK, CallGoes, CallRecord, claimVars, Proposal
<1>7. CallFits(p)'
  BY <1>1, <1>2 DEF CallFits, CallGoes
<1>8. ClonesApart' /\ BranchesCounted'
  BY <1>1, <1>2, <1>3, <1>4, <1>6, ClonesStay, CommandFits DEF CallGoes
<1>9. \A g \in Fork : g \in approvals' => g \in gated
  BY <1>1, CommandFits
<1>10. \A g \in Fork \cap approvals' : \/ g \in approvals /\ call[p].item # g
                                       \/ call'[p].item = g
  BY <1>1, <1>2, CommandFits, NamesApart DEF CallGoes
<1>11. QED
  BY <1>1, <1>2, <1>3, <1>4, <1>6, <1>7, <1>8, <1>9, <1>10, OperatorMoves, CommandFits
     DEF CallGoes

\* The gate of an approved proposal is cleared.
LEMMA ClearGateStep ==
  ASSUME GatesStory, NEW p \in Operator, ClearGate(p)
  PROVE  GatesStory'
<1> DEFINE f == call[p].item
<1>1. /\ call[p].step = "clear" /\ UNCHANGED logVars
      /\ UNCHANGED <<gated, hand, faults, overdue, calls>>
      /\ Calls(p, "execute", f, 0)
  BY DEF ClearGate, At, Goes, Calls, Item
<1>2. f \in Fork \cap gated \cap approvals
  BY <1>1, CommandFits
<1>3. CallGoes(p, "execute", f, 0)
  BY <1>1, <1>2, CallsGoes DEF GatesStory, CallSteps
<1>4. PICK settled \in {{}, {<<"gate", f>>}} :
        /\ QueueMoves({}, settled)
        /\ \A k \in Job : k[1] # "gate" => holder'[k] = holder[k]
  <2>1. CASE Withdraw(<<"gate", f>>)
    <3>1. /\ QueueMoves({}, {<<"gate", f>>})
          /\ \A k \in Job \ {<<"gate", f>>} : holder'[k] = holder[k]
      BY <1>2, <2>1, WithdrawMoves, StoryQueue, JobKinds
    <3>2. QED
      BY <3>1
  <2>2. CASE UNCHANGED claimVars
    <3>1. QueueMoves({}, {}) /\ holder' = holder
      BY <2>2, QueueStays, StoryQueue DEF claimVars
    <3>2. QED
      BY <3>1
  <2>3. QED
    BY <2>1, <2>2 DEF ClearGate, Item
<1>5. LogGrows
  BY <1>1, <1>4, GrowsByApproval DEF logVars
<1>6. GatesTypeOK'
  BY <1>1, <1>3, <1>4
     DEF GatesStory, GatesTypeOK, CallGoes, CallRecord, QueueMoves, logVars
<1>7. CallFits(p)'
  BY <1>1, <1>2, <1>3 DEF CallFits, CallGoes, logVars
<1>8. ClonesApart' /\ BranchesCounted'
  BY <1>1, <1>3, <1>4, <1>5, <1>6, ClonesStay, CommandFits DEF CallGoes, logVars
<1>9. \A g \in Fork : <<"gate", g>> \in settled => g \in approvals'
  BY <1>1, <1>2, <1>4 DEF logVars
<1>10. \A g \in Fork : <<"create", g>> \notin settled
  BY <1>4
<1>11. \A g \in Fork \cap approvals' : \/ g \in approvals /\ call[p].item # g
                                       \/ call'[p].item = g
  BY <1>1, <1>3 DEF CallGoes, logVars
<1>12. QED
  BY <1>1, <1>3, <1>4, <1>5, <1>6, <1>7, <1>8, <1>9, <1>10, <1>11, OperatorMoves,
     CommandFits DEF CallGoes, logVars

\* The job of an approved proposal is enqueued, unless it is there already.
LEMMA ExecuteApprovedStep ==
  ASSUME GatesStory, NEW p \in Operator, ExecuteApproved(p)
  PROVE  GatesStory'
<1> DEFINE f == call[p].item
           job == <<"create", f>>
<1>1. /\ call[p].step = "execute" /\ EnqueueOnce(job)
      /\ approved' = IF phase[job] = "new" THEN approved \cup {f} ELSE approved
      /\ UNCHANGED <<proposed, approvals, forks, questions, branches, clone, archived>>
      /\ UNCHANGED <<gated, hand, faults, overdue, calls>>
      /\ Calls(p, "idle", None, 0)
  BY DEF ExecuteApproved, At, Goes, Calls, Item
<1>2. f \in Fork \cap gated \cap approvals
  BY <1>1, CommandFits
<1>3. CallGoes(p, "idle", None, 0)
  BY <1>1, CallsGoes DEF GatesStory, CallSteps
<1>4. QueueMoves({job}, {}) /\ phase'[job] # "new" /\ holder' = holder
  BY <1>1, <1>2, EnqueueMoves, StoryQueue, JobKinds
<1>5. LogGrows
  BY <1>1, <1>4, GrowsByApproval
<1>6. GatesTypeOK'
  BY <1>1, <1>2, <1>3, <1>4
     DEF GatesStory, GatesTypeOK, CallGoes, CallRecord, QueueMoves
<1>7. CallFits(p)'
  BY <1>3 DEF CallFits, CallGoes
<1>8. \A c \in Clone : <<"verify", c>> \notin {job}
  OBVIOUS
<1>9. ClonesApart' /\ BranchesCounted'
  BY <1>1, <1>3, <1>4, <1>5, <1>6, <1>8, ClonesStay, CommandFits DEF CallGoes
<1>10. \A g \in Fork \cap gated : <<"create", g>> \in {job} =>
         g \in approvals' /\ g \in approved'
  <2>1. f \in approved'
    BY <1>1, <1>2 DEF GatesStory, ForkIsAuthorised
  <2>2. QED
    BY <1>1, <1>2, <2>1
<1>11. \A g \in Fork \cap approvals' : \/ g \in approvals /\ call[p].item # g
                                       \/ phase'[<<"create", g>>] # "new"
  BY <1>1, <1>4
<1>12. QED
  BY <1>1, <1>3, <1>4, <1>5, <1>6, <1>7, <1>9, <1>10, <1>11, OperatorMoves,
     CommandFits DEF CallGoes

\* A human approves a request to verify.
LEMMA ApproveToolStep ==
  ASSUME GatesStory, NEW p \in Operator, NEW v \in Request, ApproveTool(p, v)
  PROVE  GatesStory'
<1>1. /\ call[p].step = "idle"
      /\ approvals' = approvals \cup {v}
      /\ UNCHANGED <<claimVars, proposed, approved, forks, questions, branches, clone,
                     archived>>
      /\ UNCHANGED <<gated, hand, faults, overdue>>
      /\ Calls(p, "find", v, 0) /\ calls < MaxCalls /\ calls' = calls + 1
  BY DEF ApproveTool, Idle, Approve, Calls
<1>2. CallGoes(p, "find", v, 0)
  BY <1>1, CallsGoes DEF GatesStory, CallSteps
<1>3. QueueMoves({}, {}) /\ holder' = holder
  BY <1>1, QueueStays, StoryQueue DEF claimVars
<1>4. LogGrows
  BY <1>1, <1>3, GrowsByApproval
<1>5. calls' \in 0 .. MaxCalls
  BY <1>1, GatesAssumption DEF GatesStory, GatesTypeOK
<1>6. GatesTypeOK'
  BY <1>1, <1>2, <1>5 DEF GatesStory, GatesTypeOK, CallGoes, CallRecord, claimVars
<1>7. CallFits(p)'
  BY <1>1, <1>2 DEF CallFits, CallGoes
<1>8. ClonesApart' /\ BranchesCounted'
  BY <1>1, <1>2, <1>3, <1>4, <1>6, ClonesStay, CommandFits DEF CallGoes
<1>9. \A g \in Fork : g \in approvals' => g \in approvals
  BY <1>1, NamesApart
<1>10. \A g \in Fork : call[p].item # g
  BY <1>1, CommandFits, NamesApart
<1>11. QED
  BY <1>1, <1>2, <1>3, <1>4, <1>6, <1>7, <1>8, <1>9, <1>10, OperatorMoves, CommandFits
     DEF CallGoes

\* A clone that was made before is taken up again.
LEMMA FindCloneStep ==
  ASSUME GatesStory, NEW p \in Operator, FindClone(p)
  PROVE  GatesStory'
<1> DEFINE v == call[p].item
<1>1. /\ call[p].step = "find" /\ UNCHANGED claimVars /\ UNCHANGED logVars
      /\ v \in Request \cap approvals
  BY CommandFits DEF FindClone, At
<1>2. PICK step \in {"confirm", "fork"}, item \in Clone \cup {v} :
        /\ Calls(p, step, item, 0) /\ UNCHANGED calls
        /\ step = "confirm" => item \in Clone /\ clone[item].request = v
        /\ step = "fork" => item = v
  BY DEF FindClone, Goes, Item, ClonesOf
<1>3. item \in Fork \cup Request \cup Clone \cup {None} /\ step \in CallSteps
  BY <1>1 DEF CallSteps
<1>4. CallGoes(p, step, item, 0)
  BY <1>2, <1>3, CallsGoes DEF GatesStory
<1>5. UNCHANGED <<gated, hand, calls, faults, overdue>>
  BY <1>2 DEF Calls
<1>6. QueueMoves({}, {}) /\ holder' = holder
  BY <1>1, QueueStays, StoryQueue DEF claimVars
<1>7. LogGrows
  BY <1>1, <1>5, <1>6, GrowsByApproval DEF logVars
<1>8. GatesTypeOK'
  BY <1>1, <1>4, <1>5
     DEF GatesStory, GatesTypeOK, CallGoes, CallRecord, claimVars, logVars
<1>9. CallFits(p)'
  <2>1. step = "confirm" => clone[item] # NoClone
    BY <1>1, <1>2, NamesApart DEF NoClone
  <2>2. QED
    BY <1>1, <1>2, <1>4, <2>1 DEF CallFits, CallGoes, logVars
<1>10. ClonesApart' /\ BranchesCounted'
  BY <1>1, <1>2, <1>4, <1>5, <1>6, <1>7, <1>8, ClonesStay, CommandFits
     DEF CallGoes, logVars
<1>11. \A f \in Fork : call[p].item # f
  BY <1>1, NamesApart
<1>12. QED
  BY <1>1, <1>4, <1>5, <1>6, <1>7, <1>8, <1>9, <1>10, <1>11, OperatorMoves, CommandFits
     DEF CallGoes, logVars

\* The source branch is looked at before the fork.
LEMMA RequestForkStep ==
  ASSUME GatesStory, NEW p \in Operator, RequestFork(p)
  PROVE  GatesStory'
<1> DEFINE v == call[p].item
<1>1. /\ call[p].step = "fork" /\ UNCHANGED claimVars /\ UNCHANGED logVars
      /\ v \in Request \cap approvals
  BY CommandFits DEF RequestFork, At
<1>2. PICK step \in {"idle", "append"}, item \in {None, v} :
        /\ Calls(p, step, item, 0) /\ UNCHANGED calls
        /\ step = "idle" => item = None
        /\ step = "append" => item = v
  BY DEF RequestFork, Goes, Item
<1>3. item \in Fork \cup Request \cup Clone \cup {None} /\ step \in CallSteps
  BY <1>1 DEF CallSteps
<1>4. CallGoes(p, step, item, 0)
  BY <1>2, <1>3, CallsGoes DEF GatesStory
<1>5. UNCHANGED <<gated, hand, calls, faults, overdue>>
  BY <1>2 DEF Calls
<1>6. QueueMoves({}, {}) /\ holder' = holder
  BY <1>1, QueueStays, StoryQueue DEF claimVars
<1>7. LogGrows
  BY <1>1, <1>5, <1>6, GrowsByApproval DEF logVars
<1>8. GatesTypeOK'
  BY <1>1, <1>4, <1>5
     DEF GatesStory, GatesTypeOK, CallGoes, CallRecord, claimVars, logVars
<1>9. CallFits(p)'
  BY <1>1, <1>2, <1>4 DEF CallFits, CallGoes, logVars
<1>10. ClonesApart' /\ BranchesCounted'
  BY <1>1, <1>2, <1>4, <1>5, <1>6, <1>7, <1>8, ClonesStay, CommandFits
     DEF CallGoes, logVars
<1>11. \A f \in Fork : call[p].item # f
  BY <1>1, NamesApart
<1>12. QED
  BY <1>1, <1>4, <1>5, <1>6, <1>7, <1>8, <1>9, <1>10, <1>11, OperatorMoves, CommandFits
     DEF CallGoes, logVars

\* A clone is approved where it was made.
LEMMA ApproveCloneStep ==
  ASSUME GatesStory, NEW p \in Operator, ApproveClone(p)
  PROVE  GatesStory'
<1> DEFINE c == call[p].item
<1>1. /\ call[p].step = "confirm" /\ c \in Clone /\ clone[c] # NoClone
      /\ approvals' = approvals \cup {c}
      /\ UNCHANGED <<claimVars, proposed, approved, forks, questions, branches, clone,
                     archived>>
      /\ UNCHANGED <<gated, hand, calls, faults, overdue>>
      /\ Calls(p, "schedule", c, 0)
  BY CommandFits DEF ApproveClone, At, Item, Approve, Goes, Calls
<1>2. CallGoes(p, "schedule", c, 0)
  BY <1>1, CallsGoes DEF GatesStory, CallSteps
<1>3. QueueMoves({}, {}) /\ holder' = holder
  BY <1>1, QueueStays, StoryQueue DEF claimVars
<1>4. LogGrows
  BY <1>1, <1>3, GrowsByApproval
<1>5. GatesTypeOK'
  BY <1>1, <1>2 DEF GatesStory, GatesTypeOK, CallGoes, CallRecord, claimVars
<1>6. CallFits(p)'
  BY <1>1, <1>2 DEF CallFits, CallGoes
<1>7. ClonesApart' /\ BranchesCounted'
  BY <1>1, <1>2, <1>3, <1>4, <1>5, ClonesStay, CommandFits DEF CallGoes
<1>8. \A f \in Fork : f \in approvals' => f \in approvals
  BY <1>1, NamesApart
<1>9. \A f \in Fork : call[p].item # f
  BY <1>1, NamesApart
<1>10. QED
  BY <1>1, <1>2, <1>3, <1>4, <1>5, <1>6, <1>7, <1>8, <1>9, OperatorMoves, CommandFits
     DEF CallGoes

\* A clone is scheduled once it is approved.
LEMMA ScheduleCloneStep ==
  ASSUME GatesStory, NEW p \in Operator, ScheduleClone(p)
  PROVE  GatesStory'
<1> DEFINE c == call[p].item
           job == <<"verify", c>>
<1>1. /\ call[p].step = "schedule" /\ c \in Clone /\ clone[c] # NoClone
      /\ c \in approvals /\ EnqueueOnce(job) /\ UNCHANGED logVars
      /\ UNCHANGED <<gated, hand, calls, faults, overdue>>
      /\ Calls(p, "idle", None, 0)
  BY CommandFits DEF ScheduleClone, At, Item, Goes, Calls
<1>2. CallGoes(p, "idle", None, 0)
  BY <1>1, CallsGoes DEF GatesStory, CallSteps
<1>3. QueueMoves({job}, {}) /\ holder' = holder
  BY <1>1, EnqueueMoves, StoryQueue, JobKinds
<1>4. LogGrows
  BY <1>1, <1>3, GrowsByApproval DEF logVars
<1>5. GatesTypeOK'
  BY <1>1, <1>2, <1>3
     DEF GatesStory, GatesTypeOK, CallGoes, CallRecord, QueueMoves, logVars
<1>6. CallFits(p)'
  BY <1>2 DEF CallFits, CallGoes
<1>7. \A d \in Clone : <<"verify", d>> \in {job} => clone[d] # NoClone /\ d \in approvals'
  BY <1>1 DEF logVars
<1>8. ClonesApart' /\ BranchesCounted'
  BY <1>1, <1>2, <1>3, <1>4, <1>5, <1>7, ClonesStay, CommandFits DEF CallGoes, logVars
<1>9. \A f \in Fork : call[p].item # f /\ <<"create", f>> \notin {job}
  BY <1>1, NamesApart
<1>10. QED
  BY <1>1, <1>2, <1>3, <1>4, <1>5, <1>6, <1>8, <1>9, OperatorMoves, CommandFits
     DEF CallGoes, logVars

\* Counting one more and one less.
LEMMA OneMoreOneLess ==
  ASSUME NEW S, IsFiniteSet(S), NEW x
  PROVE  /\ Cardinality(S) \in Nat
         /\ x \notin S => Cardinality(S \cup {x}) = Cardinality(S) + 1
         /\ x \in S => Cardinality(S \ {x}) = Cardinality(S) - 1
         /\ x \notin S => S \ {x} = S
BY FS_CardinalityType, FS_AddElement, FS_RemoveElement

\* The clones and the commands that make one are finitely many.
LEMMA ClonesFinite ==
  ASSUME NEW v
  PROVE  /\ IsFiniteSet(ClonesOf(v)) /\ IsFiniteSet(Cloning(v))
         /\ Cardinality(ClonesOf(v)) \in Nat /\ Cardinality(Cloning(v)) \in Nat
<1>1. IsFiniteSet(ClonesOf(v)) /\ IsFiniteSet(Cloning(v))
  BY GatesAssumption, FS_Subset DEF ClonesOf, Cloning
<1>2. QED
  BY <1>1, FS_CardinalityType

\* A branch is forked to verify on, which no clone is on nor will be.
LEMMA ForkToVerifyStep ==
  ASSUME GatesStory, NEW p \in Operator, ForkToVerify(p)
  PROVE  GatesStory'
<1>a. PICK v, b : v = call[p].item /\ b = branches[v] + 1
  OBVIOUS
<1>1. /\ call[p].step = "append" /\ v \in Request \cap approvals
      /\ branches[v] < MaxForks /\ branches' = [branches EXCEPT ![v] = @ + 1]
      /\ UNCHANGED <<claimVars, proposed, approvals, approved, forks, questions, clone,
                     archived>>
      /\ UNCHANGED <<gated, hand, calls, faults, overdue>>
      /\ Calls(p, "clone", v, b)
  BY <1>a, CommandFits DEF ForkToVerify, At, Item, Goes, Calls
<1>2. branches \in [Request -> 0 .. MaxForks] /\ MaxForks \in Nat
  BY GatesAssumption DEF GatesStory, GatesTypeOK
<1>3. /\ v \in Request
      /\ branches' \in [Request -> 0 .. MaxForks] /\ branches'[v] = b /\ b \in Nat
      /\ branches[v] \in Nat
      /\ \A u \in Request \ {v} : branches'[u] = branches[u]
  BY <1>a, <1>1, <1>2
<1>4. CallGoes(p, "clone", v, b)
  BY <1>1, <1>3, CallsGoes DEF GatesStory, CallSteps
<1>5. QueueMoves({}, {}) /\ holder' = holder
  BY <1>1, QueueStays, StoryQueue DEF claimVars
<1>6. LogGrows
  <2>1. \A u \in Request : branches[u] <= branches'[u]
    BY <1>a, <1>2, <1>3
  <2>2. QED
    BY <1>1, <1>5, <2>1 DEF LogGrows, QueueMoves
<1>7. GatesTypeOK'
  BY <1>1, <1>3, <1>4 DEF GatesStory, GatesTypeOK, CallGoes, CallRecord, claimVars
<1>8. CallFits(p)'
  BY <1>1, <1>3, <1>4 DEF CallFits, CallGoes
<1>9. ClonesApart'
  <2>1. \A c \in Clone : clone[c] # NoClone =>
          /\ clone[c].request \in Request /\ clone[c].request \in approvals
          /\ clone[c].branch \in 1 .. branches[clone[c].request]
          /\ \A d \in Clone \ {c} : clone[d] # clone[c]
    BY DEF GatesStory, GatesTypeOK, ClonesApart
  <2>2. \A u \in Request : \A n \in 1 .. branches[u] : n \in 1 .. branches'[u]
    BY <1>a, <1>2, <1>3
  <2>3. \A c \in Clone : clone[c].request = v => clone[c].branch # b
    <3>1. ASSUME NEW c \in Clone, clone[c].request = v
          PROVE  clone[c] # NoClone
      BY <1>1, <3>1, NamesApart DEF NoClone
    <3>2. QED
      BY <1>a, <1>3, <2>1, <3>1
  <2>4. \A o \in Operator \ {p} : At(o, "clone") /\ call[o].item = v =>
          call[o].branch # b
    BY <1>a, <1>3, CommandFits DEF At
  <2>5. \A o \in Operator \ {p} : call'[o] = call[o]
    BY <1>4 DEF CallGoes
  <2>6. call'[p].item = v /\ call'[p].branch = b
    BY <1>4 DEF CallGoes
  <2>7. ASSUME NEW o \in Operator, At(o, "clone")'
        PROVE  /\ \A c \in Clone :
                    clone[c].request = call'[o].item => clone[c].branch # call'[o].branch
               /\ \A q \in Operator \ {o} :
                    At(q, "clone")' /\ call'[q].item = call'[o].item =>
                      call'[q].branch # call'[o].branch
    <3>1. CASE o = p
      BY <2>3, <2>4, <2>5, <2>6, <3>1 DEF At
    <3>2. CASE o # p
      <4>1. /\ \A c \in Clone :
                 clone[c].request = call[o].item => clone[c].branch # call[o].branch
            /\ \A q \in Operator \ {o} :
                 At(q, "clone") /\ call[q].item = call[o].item =>
                   call[q].branch # call[o].branch
        BY <2>5, <2>7, <3>2 DEF GatesStory, ClonesApart, At, Item
      <4>2. ASSUME NEW q \in Operator \ {o}, At(q, "clone")', call'[q].item = call'[o].item
            PROVE  call'[q].branch # call'[o].branch
        <5>1. CASE q = p
          BY <2>4, <2>5, <2>6, <2>7, <3>2, <4>2, <5>1 DEF At
        <5>2. CASE q # p
          BY <2>5, <3>2, <4>1, <4>2, <5>2 DEF At
        <5>3. QED
          BY <5>1, <5>2
      <4>3. QED
        BY <2>5, <3>2, <4>1, <4>2
    <3>3. QED
      BY <3>1, <3>2
  <2>8. \A c \in Clone : phase'[<<"verify", c>>] # "new" =>
          clone[c] # NoClone /\ c \in approvals
    BY <1>1 DEF GatesStory, ClonesApart, claimVars
  <2>9. \A c \in Clone : clone[c] # NoClone =>
          clone[c].branch \in 1 .. branches'[clone[c].request]
    BY <2>1, <2>2
  <2>10. QED
    BY <1>1, <2>1, <2>7, <2>8, <2>9 DEF ClonesApart, Item
<1>10. BranchesCounted'
  <2>1. \A u \in Request : ClonesOf(u)' = ClonesOf(u)
    BY <1>1 DEF ClonesOf
  <2>2. p \notin Cloning(v)
    BY <1>1 DEF Cloning, At
  <2>3. Cloning(v)' = Cloning(v) \cup {p}
    BY <1>4 DEF Cloning, CallGoes, At, Item
  <2>4. \A u \in Request \ {v} : Cloning(u)' = Cloning(u)
    BY <1>a, <1>1, <1>4 DEF Cloning, CallGoes, At, Item
  <2>5. SUFFICES ASSUME NEW u \in Request
                 PROVE  branches'[u] <= Cardinality(ClonesOf(u)') + faults'
                                          + Cardinality(Cloning(u)')
    BY DEF BranchesCounted
  <2>6. branches[u] <= Cardinality(ClonesOf(u)) + faults + Cardinality(Cloning(u))
    BY DEF GatesStory, BranchesCounted
  <2>7. faults \in Nat /\ faults' = faults
    BY <1>1, CommandFits
  <2>8. CASE u = v
    <3>1. Cardinality(Cloning(v)') = Cardinality(Cloning(v)) + 1
      BY <2>2, <2>3, ClonesFinite, OneMoreOneLess
    <3>2. Cardinality(ClonesOf(v)) \in Nat /\ Cardinality(Cloning(v)) \in Nat
      BY ClonesFinite
    <3>3. branches'[v] <= Cardinality(ClonesOf(v)) + faults + Cardinality(Cloning(v)')
      BY <1>a, <1>3, <2>6, <2>7, <2>8, <3>1, <3>2
    <3>4. QED
      BY <2>1, <2>7, <2>8, <3>3
  <2>9. CASE u # v
    <3>1. /\ Cardinality(ClonesOf(u)') = Cardinality(ClonesOf(u))
          /\ Cardinality(Cloning(u)') = Cardinality(Cloning(u))
      BY <2>1, <2>4, <2>9
    <3>2. branches'[u] = branches[u]
      BY <1>3, <2>9
    <3>3. QED
      BY <2>6, <2>7, <3>1, <3>2
  <2>10. QED
    BY <2>8, <2>9
<1>11. \A f \in Fork : call[p].item # f
  BY <1>a, <1>1, NamesApart
<1>12. QED
  BY <1>1, <1>4, <1>5, <1>6, <1>7, <1>8, <1>9, <1>10, <1>11, OperatorMoves, CommandFits
     DEF CallGoes

\* The request is cloned onto its branch.
LEMMA CloneRequestStep ==
  ASSUME GatesStory, NEW p \in Operator, NEW c \in Clone, CloneRequest(p, c)
  PROVE  GatesStory'
<1>a. PICK v, b : v = call[p].item /\ b = call[p].branch
  OBVIOUS
<1>1. /\ call[p].step = "clone" /\ v \in Request \cap approvals /\ b \in 1 .. branches[v]
      /\ clone[c] = NoClone
      /\ clone' = [clone EXCEPT ![c] = [request |-> v, branch |-> b]]
      /\ UNCHANGED <<claimVars, proposed, approvals, approved, forks, questions, branches,
                     archived>>
      /\ UNCHANGED <<gated, hand, calls, faults, overdue>>
      /\ Calls(p, "confirm", c, 0)
  BY <1>a, CommandFits DEF CloneRequest, At, Item, Goes, Calls
<1>2. /\ clone \in [Clone -> [request : Request, branch : Nat] \cup {NoClone}]
      /\ b \in Nat
  BY <1>a DEF GatesStory, GatesTypeOK
<1>3. /\ clone' \in [Clone -> [request : Request, branch : Nat] \cup {NoClone}]
      /\ clone'[c].request = v /\ clone'[c].branch = b
      /\ \A d \in Clone \ {c} : clone'[d] = clone[d]
  BY <1>1, <1>2
<1>4. NoClone.request \notin Request
  BY NamesApart DEF NoClone
<1>5. clone'[c] # NoClone
  BY <1>1, <1>3, <1>4
<1>6. CallGoes(p, "confirm", c, 0)
  BY <1>1, CallsGoes DEF GatesStory, CallSteps
<1>7. QueueMoves({}, {}) /\ holder' = holder
  BY <1>1, QueueStays, StoryQueue DEF claimVars
<1>8. LogGrows
  <2>1. \A u \in Request : branches[u] <= branches[u]
    BY GatesAssumption DEF GatesStory, GatesTypeOK
  <2>2. \A d \in Clone : clone[d] # NoClone => clone'[d] = clone[d]
    BY <1>1, <1>3
  <2>3. QED
    BY <1>1, <1>7, <2>1, <2>2 DEF LogGrows, QueueMoves
<1>9. GatesTypeOK'
  BY <1>1, <1>3, <1>6 DEF GatesStory, GatesTypeOK, CallGoes, CallRecord, claimVars
<1>10. CallFits(p)'
  BY <1>5, <1>6 DEF CallFits, CallGoes
<1>11. \A o \in Operator : At(o, "clone")' =>
         o # p /\ At(o, "clone") /\ call'[o] = call[o]
  BY <1>6 DEF At, CallGoes
<1>12. ClonesApart'
  <2>1. \A d \in Clone : clone[d] # NoClone =>
          /\ clone[d].request \in approvals
          /\ clone[d].branch \in 1 .. branches[clone[d].request]
          /\ \A e \in Clone \ {d} : clone[e] # clone[d]
    BY DEF GatesStory, ClonesApart
  <2>2. \A d \in Clone : clone[d].request = v => clone[d].branch # b
    BY <1>a, <1>1 DEF GatesStory, ClonesApart, At, Item
  <2>3. \A d \in Clone \ {c} : clone'[d] # clone'[c]
    BY <1>3, <2>2
  <2>4. ASSUME NEW d \in Clone, clone'[d] # NoClone
        PROVE  /\ clone'[d].request \in approvals
               /\ clone'[d].branch \in 1 .. branches[clone'[d].request]
               /\ \A e \in Clone \ {d} : clone'[e] # clone'[d]
    <3>1. CASE d = c
      BY <1>1, <1>3, <2>3, <3>1
    <3>2. CASE d # c
      <4>1. clone'[d] = clone[d] /\ clone[d] # NoClone
        BY <1>3, <2>4, <3>2
      <4>2. \A e \in Clone \ {d} : clone'[e] # clone'[d]
        BY <1>3, <2>1, <2>3, <3>2, <4>1
      <4>3. QED
        BY <2>1, <4>1, <4>2
    <3>3. QED
      BY <3>1, <3>2
  <2>5. ASSUME NEW o \in Operator, At(o, "clone")'
        PROVE  /\ \A d \in Clone :
                    clone'[d].request = call'[o].item => clone'[d].branch # call'[o].branch
               /\ \A q \in Operator \ {o} :
                    At(q, "clone")' /\ call'[q].item = call'[o].item =>
                      call'[q].branch # call'[o].branch
    <3>1. o # p /\ At(o, "clone") /\ call'[o] = call[o] /\ At(p, "clone")
      BY <1>1, <1>11, <2>5 DEF At
    <3>2. /\ \A d \in Clone :
               clone[d].request = call[o].item => clone[d].branch # call[o].branch
          /\ \A q \in Operator \ {o} :
               At(q, "clone") /\ call[q].item = call[o].item =>
                 call[q].branch # call[o].branch
      BY <3>1 DEF GatesStory, ClonesApart, Item
    <3>3. v = call[o].item => b # call[o].branch
      BY <1>a, <3>1, <3>2
    <3>4. \A d \in Clone :
            clone'[d].request = call[o].item => clone'[d].branch # call[o].branch
      BY <1>3, <3>2, <3>3
    <3>5. QED
      BY <1>11, <3>1, <3>2, <3>4
  <2>6. \A d \in Clone : phase'[<<"verify", d>>] # "new" =>
          clone'[d] # NoClone /\ d \in approvals
    BY <1>1, <1>3, <1>5 DEF GatesStory, ClonesApart, claimVars
  <2>7. QED
    BY <1>1, <2>4, <2>5, <2>6 DEF ClonesApart, Item
<1>13. BranchesCounted'
  <2>1. c \notin ClonesOf(v) /\ ClonesOf(v)' = ClonesOf(v) \cup {c}
    BY <1>1, <1>3, <1>4 DEF ClonesOf
  <2>2. \A u \in Request \ {v} : ClonesOf(u)' = ClonesOf(u)
    BY <1>1, <1>3, <1>4 DEF ClonesOf
  <2>3. p \in Cloning(v) /\ Cloning(v)' = Cloning(v) \ {p}
    BY <1>a, <1>1, <1>6, <1>11 DEF Cloning, CallGoes, At, Item
  <2>4. \A u \in Request \ {v} : Cloning(u)' = Cloning(u)
    BY <1>a, <1>1, <1>6, <1>11 DEF Cloning, CallGoes, At, Item
  <2>5. SUFFICES ASSUME NEW u \in Request
                 PROVE  branches'[u] <= Cardinality(ClonesOf(u)') + faults'
                                          + Cardinality(Cloning(u)')
    BY DEF BranchesCounted
  <2>6. branches[u] <= Cardinality(ClonesOf(u)) + faults + Cardinality(Cloning(u))
    BY DEF GatesStory, BranchesCounted
  <2>7. faults \in Nat /\ faults' = faults /\ branches'[u] = branches[u]
    BY <1>1, CommandFits
  <2>8. CASE u = v
    <3>1. /\ Cardinality(ClonesOf(v)') = Cardinality(ClonesOf(v)) + 1
          /\ Cardinality(Cloning(v)') = Cardinality(Cloning(v)) - 1
      BY <2>1, <2>3, ClonesFinite, OneMoreOneLess
    <3>2. Cardinality(ClonesOf(v)) \in Nat /\ Cardinality(Cloning(v)) \in Nat
      BY ClonesFinite
    <3>3. Cardinality(ClonesOf(v)') + faults + Cardinality(Cloning(v)')
            = Cardinality(ClonesOf(v)) + faults + Cardinality(Cloning(v))
      BY <2>7, <3>1, <3>2
    <3>4. QED
      BY <2>6, <2>7, <2>8, <3>3
  <2>9. CASE u # v
    <3>1. /\ Cardinality(ClonesOf(u)') = Cardinality(ClonesOf(u))
          /\ Cardinality(Cloning(u)') = Cardinality(Cloning(u))
      BY <2>2, <2>4, <2>9
    <3>2. QED
      BY <2>6, <2>7, <3>1
  <2>10. QED
    BY <2>8, <2>9
<1>14. \A f \in Fork : call[p].item # f
  BY <1>a, <1>1, NamesApart
<1>15. QED
  BY <1>1, <1>6, <1>7, <1>8, <1>9, <1>10, <1>12, <1>13, <1>14, OperatorMoves, CommandFits
     DEF CallGoes

\* A command dies; what it was about to clone is counted among the faults.
LEMMA DiesStep ==
  ASSUME GatesStory, NEW p \in Operator, Dies(p)
  PROVE  GatesStory'
<1>1. /\ faults < MaxFaults /\ faults' = faults + 1
      /\ call' = [call EXCEPT ![p] = IdleCall]
      /\ UNCHANGED <<claimVars, gated, hand, calls, logVars, overdue>>
  BY DEF Dies
<1>2. CallGoes(p, "idle", None, 0)
  BY <1>1 DEF GatesStory, GatesTypeOK, CallGoes, CallRecord, IdleCall, CallSteps
<1>3. QueueMoves({}, {}) /\ holder' = holder
  BY <1>1, QueueStays, StoryQueue DEF claimVars
<1>4. LogGrows
  BY <1>1, <1>3, GrowsByApproval DEF logVars
<1>5. faults \in Nat /\ MaxFaults \in Nat
  BY GatesAssumption, CommandFits
<1>6. faults' \in 0 .. MaxFaults /\ faults' >= faults /\ faults' # 0
  BY <1>1, <1>5
<1>7. GatesTypeOK'
  BY <1>1, <1>2, <1>6
     DEF GatesStory, GatesTypeOK, CallGoes, CallRecord, claimVars, logVars
<1>8. CallFits(p)'
  BY <1>2 DEF CallFits, CallGoes
<1>9. \A o \in Operator : At(o, "clone")' =>
        o # p /\ At(o, "clone") /\ call'[o] = call[o]
  BY <1>2 DEF At, CallGoes
<1>10. ClonesApart'
  <2>1. /\ UNCHANGED <<clone, branches, approvals, phase>>
        /\ \A o \in Operator \ {p} : call'[o] = call[o]
    BY <1>1, <1>2 DEF logVars, claimVars, CallGoes
  <2>2. \A o \in Operator : At(o, "clone")' =>
          /\ \A c \in Clone :
               clone[c].request = call'[o].item => clone[c].branch # call'[o].branch
          /\ \A q \in Operator \ {o} :
               At(q, "clone")' /\ call'[q].item = call'[o].item =>
                 call'[q].branch # call'[o].branch
    BY <1>9 DEF GatesStory, ClonesApart, Item
  <2>3. QED
    BY <2>1, <2>2 DEF GatesStory, ClonesApart, Item
<1>11. BranchesCounted'
  <2>1. \A u \in Request : ClonesOf(u)' = ClonesOf(u)
    BY <1>1 DEF ClonesOf, logVars
  <2>2. \A u \in Request : Cloning(u)' = Cloning(u) \ {p}
    BY <1>2, <1>9 DEF Cloning, CallGoes, At, Item
  <2>3. SUFFICES ASSUME NEW u \in Request
                 PROVE  branches'[u] <= Cardinality(ClonesOf(u)') + faults'
                                          + Cardinality(Cloning(u)')
    BY DEF BranchesCounted
  <2>4. branches[u] <= Cardinality(ClonesOf(u)) + faults + Cardinality(Cloning(u))
    BY DEF GatesStory, BranchesCounted
  <2>5. branches'[u] = branches[u] /\ branches[u] \in Nat
    BY <1>1, GatesAssumption DEF logVars, GatesStory, GatesTypeOK
  <2>6. /\ Cardinality(ClonesOf(u)) \in Nat /\ Cardinality(Cloning(u)) \in Nat
        /\ Cardinality(Cloning(u) \ {p}) \in {Cardinality(Cloning(u)),
                                              Cardinality(Cloning(u)) - 1}
    <3>1. /\ Cardinality(ClonesOf(u)) \in Nat /\ Cardinality(Cloning(u)) \in Nat
          /\ IsFiniteSet(Cloning(u))
      BY ClonesFinite
    <3>2. CASE p \in Cloning(u)
      BY <3>1, <3>2, OneMoreOneLess
    <3>3. CASE p \notin Cloning(u)
      BY <3>1, <3>3, OneMoreOneLess
    <3>4. QED
      BY <3>1, <3>2, <3>3
  <2>7. /\ Cardinality(ClonesOf(u)') = Cardinality(ClonesOf(u))
        /\ Cardinality(Cloning(u)') = Cardinality(Cloning(u) \ {p})
    BY <2>1, <2>2
  <2>8. QED
    BY <1>1, <1>5, <2>4, <2>5, <2>6, <2>7
<1>12. QED
  BY <1>1, <1>2, <1>3, <1>4, <1>6, <1>7, <1>8, <1>10, <1>11, OperatorMoves, CommandFits
     DEF CallGoes, logVars

\* The branch that all forks start from is archived.
LEMMA ArchiveSourceStep ==
  ASSUME GatesStory, ArchiveSource
  PROVE  GatesStory'
<1>1. /\ archived' = TRUE
      /\ UNCHANGED <<phase, holder, gated, hand, call, calls, proposed, approvals,
                     approved, forks, questions, branches, clone, faults, overdue>>
  BY DEF ArchiveSource, claimVars
<1>2. GatesTypeOK'
  BY <1>1 DEF GatesStory, GatesTypeOK
<1>3. ClaimsHeld' /\ ForkIsAuthorised' /\ ForksDue' /\ ClaimedOnTime'
  BY <1>1 DEF GatesStory, ClaimsHeld, ForkIsAuthorised, ForksDue, ClaimedOnTime,
              HandOnTime, LogOnTime, Subject
<1>4. (\A w \in Runner : HandFits(w)') /\ \A p \in Operator : CallFits(p)'
  BY <1>1 DEF GatesStory, HandFits, CallFits
<1>5. ClonesApart' /\ BranchesCounted' /\ ApprovalsOwe'
  BY <1>1 DEF GatesStory, ClonesApart, BranchesCounted, ApprovalsOwe, ClonesOf, Cloning,
              At, Item
<1>6. QED
  BY <1>2, <1>3, <1>4, <1>5 DEF GatesStory

-----------------------------------------------------------------------------
(* The theorems *)

\* At the start nothing is proposed, approved or claimed.
LEMMA GatesInitHolds == GatesInit => GatesStory
<1> SUFFICES ASSUME GatesInit PROVE GatesStory
  OBVIOUS
<1>1. /\ phase = [j \in Job |-> "new"] /\ holder = [j \in Job |-> NoRunner]
      /\ gated \in SUBSET Proposal
      /\ hand = [w \in Runner |-> IdleHand] /\ call = [p \in Operator |-> IdleCall]
      /\ proposed = {} /\ approvals = {} /\ approved = {}
      /\ forks = [f \in Fork |-> <<>>]
      /\ questions = [q \in Probe |-> [messages |-> 0, requests |-> 0, jobs |-> 0]]
      /\ branches = [v \in Request |-> 0] /\ clone = [c \in Clone |-> NoClone]
      /\ archived = FALSE /\ calls = 0 /\ faults = 0 /\ overdue = 0
  BY DEF GatesInit, ClaimInit
<1>2. /\ 0 \in Nat /\ 0 \in 0 .. MaxForks /\ 0 \in 0 .. MaxCalls
      /\ 0 \in 0 .. MaxFaults /\ 0 \in 0 .. MaxOverdue
  BY GatesAssumption
<1>3. GatesTypeOK
  <2>1. /\ hand \in [Runner -> [step : RunnerSteps, job : Job \cup {NoJob}]]
        /\ call \in [Operator -> [step : CallSteps, branch : Nat,
                                  item : Fork \cup Request \cup Clone \cup {None}]]
    BY <1>1 DEF IdleHand, IdleCall, RunnerSteps, CallSteps
  <2>2. /\ forks \in [Fork -> Seq({"human", "policy"})]
        /\ questions \in [Probe -> [messages : Nat, requests : Nat, jobs : Nat]]
        /\ branches \in [Request -> 0 .. MaxForks]
        /\ clone \in [Clone -> [request : Request, branch : Nat] \cup {NoClone}]
    BY <1>1, <1>2
  <2>3. QED
    BY <1>1, <1>2, <2>1, <2>2 DEF GatesTypeOK
<1>4. /\ \A j \in Job : phase[j] = "new" /\ holder[j] = NoRunner
      /\ \A f \in Fork : forks[f] = <<>> /\ {forks[f][i] : i \in DOMAIN forks[f]} = {}
      /\ \A c \in Clone : clone[c] = NoClone
  BY <1>1
<1>t. ClaimsHeld /\ ForkIsAuthorised /\ ForksDue
  BY <1>1, <1>4, JobKinds DEF ClaimsHeld, ForkIsAuthorised, ForksDue
<1>5. /\ \A w \in Runner : hand[w].step = "idle" /\ hand[w].job = NoJob
      /\ \A p \in Operator : call[p].step = "idle" /\ call[p].item = None
  BY <1>1 DEF IdleHand, IdleCall
<1>6. (\A w \in Runner : HandFits(w)) /\ \A p \in Operator : CallFits(p)
  BY <1>5 DEF HandFits, CallFits
<1>7. ClaimedOnTime
  BY <1>1, <1>5 DEF ClaimedOnTime, LogOnTime, HandOnTime
<1>8. ClonesApart
  BY <1>1, <1>5, JobKinds DEF ClonesApart, At
<1>9. BranchesCounted
  <2>1. ASSUME NEW v \in Request
        PROVE  branches[v] <= Cardinality(ClonesOf(v)) + faults + Cardinality(Cloning(v))
    <3>1. branches[v] = 0 /\ faults = 0
      BY <1>1
    <3>2. Cardinality(ClonesOf(v)) \in Nat /\ Cardinality(Cloning(v)) \in Nat
      BY ClonesFinite
    <3>3. QED
      BY <3>1, <3>2
  <2>2. QED
    BY <2>1 DEF BranchesCounted
<1>10. ApprovalsOwe
  BY <1>1 DEF ApprovalsOwe
<1>11. QED
  BY <1>3, <1>t, <1>6, <1>7, <1>8, <1>9, <1>10 DEF GatesStory

\* Every step keeps it.
LEMMA GatesNextKeeps == GatesStory /\ [GatesNext]_gateVars => GatesStory'
<1> SUFFICES ASSUME GatesStory, [GatesNext]_gateVars PROVE GatesStory'
  OBVIOUS
<1>1. ASSUME NEW p \in Proposal, Analyse(p) PROVE GatesStory'
  BY <1>1, AnalyseStep
<1>2. ASSUME NEW w \in Runner, NEW j \in Job, TakeJob(w, j) PROVE GatesStory'
  BY <1>2, TakeJobStep
<1>3. ASSUME NEW w \in Runner, Handler(w) PROVE GatesStory'
  <2>1. CASE EmitMessage(w) \/ EmitRequest(w) \/ EnqueueGeneration(w)
    BY <2>1, EmitStep
  <2>2. CASE \/ Find(w) \/ Propose(w) \/ Dispatch(w)
             \/ LookForFork(w) \/ ForkProposed(w) \/ Settle(w)
    BY <2>2, FindStep, ProposeStep, DispatchStep, LookForForkStep, ForkProposedStep,
       SettleStep, Zenon
  <2>3. QED
    BY <1>3, <2>1, <2>2, Zenon DEF Handler
<1>4. ASSUME NEW w \in Runner, Fault(w) PROVE GatesStory'
  BY <1>4, FaultStep
<1>5. ASSUME NEW j \in Job, Expire(j) PROVE GatesStory'
  BY <1>5, ExpireStep
<1>6. ASSUME NEW p \in Operator, NEW f \in Fork, ApproveBranch(p, f) PROVE GatesStory'
  BY <1>6, ApproveBranchStep
<1>7. ASSUME NEW p \in Operator, NEW v \in Request, ApproveTool(p, v) PROVE GatesStory'
  BY <1>7, ApproveToolStep
<1>8. ASSUME NEW p \in Operator, Command(p) PROVE GatesStory'
  BY <1>8, ClearGateStep, ExecuteApprovedStep, FindCloneStep, RequestForkStep,
     ForkToVerifyStep, CloneRequestStep, ApproveCloneStep, ScheduleCloneStep, Zenon
     DEF Command
<1>9. ASSUME NEW p \in Operator, Dies(p) PROVE GatesStory'
  BY <1>9, DiesStep
<1>10. CASE ArchiveSource
  BY <1>10, ArchiveSourceStep
<1>11. CASE UNCHANGED gateVars
  <2>1. UNCHANGED <<phase, holder, gated, hand, call, calls, proposed, approvals,
                    approved, forks, questions, branches, clone, archived, faults,
                    overdue>>
    BY <1>11 DEF gateVars, logVars, claimVars
  <2>2. GatesTypeOK'
    BY <2>1 DEF GatesStory, GatesTypeOK
  <2>3. ClaimsHeld' /\ ForkIsAuthorised' /\ ForksDue' /\ ClaimedOnTime'
    BY <2>1 DEF GatesStory, ClaimsHeld, ForkIsAuthorised, ForksDue, ClaimedOnTime,
                HandOnTime, LogOnTime, Subject
  <2>4. (\A w \in Runner : HandFits(w)') /\ \A p \in Operator : CallFits(p)'
    BY <2>1 DEF GatesStory, HandFits, CallFits
  <2>5. ClonesApart' /\ BranchesCounted' /\ ApprovalsOwe'
    BY <2>1 DEF GatesStory, ClonesApart, BranchesCounted, ApprovalsOwe, ClonesOf,
                Cloning, At, Item
  <2>6. QED
    BY <2>2, <2>3, <2>4, <2>5 DEF GatesStory
<1>12. QED
  BY <1>1, <1>2, <1>3, <1>4, <1>5, <1>6, <1>7, <1>8, <1>9, <1>10, <1>11, Zenon
     DEF GatesNext

\* The inductive invariant of the gates: hands, commands and the log fit together.
THEOREM GatesInvariant == GatesSpec => []GatesStory
<1>1. QED
  BY GatesInitHolds, GatesNextKeeps, PTL DEF GatesSpec

\* The types hold of the session, and a gated proposal is materialised only after a
\* human approved it, and on time once (dispatcher.py dispatch and approve, services.py
\* approve_branch and _execute_branch_creation_job).
THEOREM GatesHold == GatesSpec => []GatesInv
<1>1. GatesStory => GatesInv
  <2>1. GatesStory => OneForkOnTime
    <3>1. SUFFICES ASSUME GatesStory, overdue = 0
                   PROVE  /\ \A f \in Fork : Len(forks[f]) <= 1
                          /\ \A q \in Probe : /\ questions[q].messages <= 1
                                              /\ questions[q].jobs <= 1
      BY DEF OneForkOnTime
    <3>2. LogOnTime
      BY <3>1 DEF GatesStory, ClaimedOnTime
    <3>3. questions \in [Probe -> [messages : Nat, requests : Nat, jobs : Nat]]
      BY <3>1 DEF GatesStory, GatesTypeOK
    <3>4. QED
      BY <3>2, <3>3 DEF LogOnTime
  <2>2. QED
    BY <2>1 DEF GatesStory, GatesInv
<1>2. QED
  BY <1>1, GatesInvariant, PTL

\* A verification runs on a branch that no other runs on, approved where it was asked
\* for and where it runs; a branch that none runs on was left by a fault (services.py
\* _verification_request_on_fork and approve_tool).
THEOREM VerificationsApart == GatesSpec => []VerifiedApart
<1>1. GatesStory => VerifiedApart
  <2>1. SUFFICES ASSUME GatesStory PROVE VerifiedApart
    OBVIOUS
  <2>2. ASSUME NEW c \in Clone, phase[<<"verify", c>>] # "new"
        PROVE  /\ clone[c] # NoClone /\ {c, clone[c].request} \subseteq approvals
               /\ clone[c].branch \in 1 .. branches[clone[c].request]
               /\ \A d \in Clone \ {c} : clone[d] # clone[c]
    BY <2>1, <2>2 DEF GatesStory, ClonesApart
  <2>3. \A v \in Request :
          branches[v] <= Cardinality(ClonesOf(v)) + faults
                         + Cardinality({p \in Operator : At(p, "clone") /\ Item(p) = v})
    BY <2>1 DEF GatesStory, BranchesCounted, Cloning
  <2>4. QED
    BY <2>2, <2>3 DEF VerifiedApart
<1>2. QED
  BY <1>1, GatesInvariant, PTL

\* What a human approved comes about unless something fails, and a settled job has
\* made its branch (services.py approve_branch, dispatcher.py approve).
THEOREM ApprovalsComeAbout == GatesSpec => []ApprovedComesAbout
<1>1. GatesStory => ApprovedComesAbout
  <2>1. SUFFICES ASSUME GatesStory, NEW f \in Fork
                 PROVE  /\ (f \in approvals /\ faults = 0
                             /\ \A p \in Operator : call[p].item # f)
                             => f \in approved /\ phase[<<"create", f>>] # "new"
                        /\ phase[<<"create", f>>] = "settled" => forks[f] # <<>>
    BY DEF ApprovedComesAbout, Item
  <2>2. phase[<<"create", f>>] = "settled" => forks[f] # <<>>
    BY <2>1 DEF GatesStory, ForksDue
  <2>3. ASSUME f \in approvals, faults = 0, \A p \in Operator : call[p].item # f
        PROVE  f \in approved /\ phase[<<"create", f>>] # "new"
    <3>1. phase[<<"create", f>>] # "new"
      BY <2>1, <2>3 DEF GatesStory, ApprovalsOwe
    <3>2. f \in gated
      BY <2>1, <2>3 DEF GatesStory, ForksDue
    <3>3. QED
      BY <2>1, <3>1, <3>2 DEF GatesStory, ForkIsAuthorised
  <2>4. QED
    BY <2>2, <2>3
<1>2. QED
  BY <1>1, GatesInvariant, PTL

\* Every behaviour of the gates is one of the queue as ClaimService describes it.
THEOREM GatesUseQueue == GatesSpec => ClaimSpec
<1>1. GatesInit => ClaimInit
  BY DEF GatesInit
<1>2. GatesStory /\ [GatesNext]_gateVars => [ClaimNext]_claimVars
  <2>1. SUFFICES ASSUME GatesStory, [GatesNext]_gateVars
                 PROVE  ClaimNext \/ UNCHANGED claimVars
    OBVIOUS
  <2>2. \A j \in Job : Submit(j) \/ Withdraw(j) => ClaimNext
    BY DEF ClaimNext
  <2>3. \A j \in Job : EnqueueOnce(j) => ClaimNext \/ UNCHANGED claimVars
    BY <2>2 DEF EnqueueOnce
  <2>4. ASSUME NEW p \in Proposal, Analyse(p) PROVE ClaimNext
    BY <2>2, <2>4, JobKinds DEF Analyse
  <2>5. ASSUME NEW w \in Runner, NEW j \in Job, TakeJob(w, j) PROVE ClaimNext
    <3>1. Claim(w, j, {}, {})
      BY <2>5 DEF TakeJob
    <3>2. {} \in SUBSET Job
      OBVIOUS
    <3>3. QED
      BY <3>1, <3>2, Zenon DEF ClaimNext
  <2>6. ASSUME NEW w \in Runner, Settle(w) PROVE ClaimNext \/ UNCHANGED claimVars
    <3>1. CASE ~ Holds(w)
      BY <2>6, <3>1 DEF Settle
    <3>2. CASE Holds(w)
      <4>1. PICK outcome \in {"waiting", "parked", "settled"} :
              Release(w, hand[w].job, outcome)
        BY <2>6, <3>2 DEF Settle
      <4>2. hand[w].step # "idle"
        BY <2>6 DEF Settle
      <4>3. hand[w].job \in Job
        BY <2>1, <4>2, HandsHave, JobKinds, GatesAssumption DEF GatesStory
      <4>4. QED
        BY <4>1, <4>3, Zenon DEF ClaimNext
    <3>3. QED
      BY <3>1, <3>2
  <2>7. ASSUME NEW j \in Job, Expire(j) PROVE ClaimNext
    <3>1. {j} \in SUBSET Job /\ {} \in SUBSET Job
      OBVIOUS
    <3>2. Lapse({j}, {}) \/ Lapse({}, {j})
      BY <2>7 DEF Expire
    <3>3. QED
      BY <3>1, <3>2, Zenon DEF ClaimNext
  <2>8. ASSUME NEW w \in Runner, Dispatch(w) PROVE ClaimNext \/ UNCHANGED claimVars
    <3>1. hand[w].job \in {"analyse"} \X Proposal
      BY <2>1, <2>8 DEF GatesStory, HandFits, Dispatch, Handling
    <3>2. Subject(w) \in Proposal
      BY <3>1 DEF Subject
    <3>3. QED
      BY <2>3, <2>8, <3>2, JobKinds DEF Dispatch
  <2>9. ASSUME NEW w \in Runner,
               \/ Find(w) \/ Propose(w) \/ EmitMessage(w) \/ EmitRequest(w)
               \/ EnqueueGeneration(w) \/ LookForFork(w) \/ ForkProposed(w) \/ Fault(w)
        PROVE  UNCHANGED claimVars
    <3>1. CASE Find(w) \/ Propose(w) \/ LookForFork(w) \/ ForkProposed(w) \/ Fault(w)
      BY <3>1 DEF Find, Propose, LookForFork, ForkProposed, Fault, Looks, claimVars
    <3>2. CASE EmitMessage(w) \/ EmitRequest(w) \/ EnqueueGeneration(w)
      BY <3>2 DEF EmitMessage, EmitRequest, EnqueueGeneration, Emits, claimVars
    <3>3. QED
      BY <2>9, <3>1, <3>2
  <2>10. ASSUME NEW p \in Operator, Command(p) PROVE ClaimNext \/ UNCHANGED claimVars
    <3>1. CASE ClearGate(p)
      <4>1. call[p].item \in Fork
        BY <2>1, <3>1, CommandFits DEF ClearGate, At
      <4>2. QED
        BY <2>2, <3>1, <4>1, JobKinds DEF ClearGate, Item
    <3>2. CASE ExecuteApproved(p)
      <4>1. call[p].item \in Fork
        BY <2>1, <3>2, CommandFits DEF ExecuteApproved, At
      <4>2. QED
        BY <2>3, <3>2, <4>1, JobKinds DEF ExecuteApproved, Item
    <3>3. CASE ScheduleClone(p)
      <4>1. call[p].item \in Clone
        BY <2>1, <3>3, CommandFits DEF ScheduleClone, At
      <4>2. QED
        BY <2>3, <3>3, <4>1, JobKinds DEF ScheduleClone, Item
    <3>4. CASE FindClone(p) \/ RequestFork(p) \/ ForkToVerify(p) \/ ApproveClone(p)
      BY <3>4 DEF FindClone, RequestFork, ForkToVerify, ApproveClone, Approve, claimVars
    <3>5. ASSUME NEW c \in Clone, CloneRequest(p, c) PROVE UNCHANGED claimVars
      BY <3>5 DEF CloneRequest, claimVars
    <3>6. QED
      BY <2>10, <3>1, <3>2, <3>3, <3>4, <3>5, Zenon DEF Command
  <2>11. ASSUME NEW p \in Operator,
                \/ \E f \in Fork : ApproveBranch(p, f)
                \/ \E v \in Request : ApproveTool(p, v)
                \/ Dies(p)
         PROVE  UNCHANGED claimVars
    BY <2>11 DEF ApproveBranch, ApproveTool, Approve, Dies, claimVars
  <2>12. CASE ArchiveSource
    BY <2>12 DEF ArchiveSource
  <2>13. CASE UNCHANGED gateVars
    BY <2>13 DEF gateVars
  <2>14. ASSUME NEW w \in Runner, Handler(w) PROVE ClaimNext \/ UNCHANGED claimVars
    BY <2>6, <2>8, <2>9, <2>14, Zenon DEF Handler
  <2>15. QED
    BY <2>1, <2>4, <2>5, <2>7, <2>9, <2>10, <2>11, <2>12, <2>13, <2>14, Zenon
       DEF GatesNext
<1>3. QED
  BY <1>1, <1>2, GatesInvariant, PTL DEF GatesSpec, ClaimSpec

===============================================================================
