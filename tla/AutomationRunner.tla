--------------------------- MODULE AutomationRunner ---------------------------
(***************************************************************************)
(* run_automation of src/src/oracle_lab/services.py: the loop that reads   *)
(* the human boundaries, leases one job, executes its handler under a      *)
(* heartbeat thread and acknowledges the result.  Any number of processes  *)
(* run the loop on one database; each may die at any moment.               *)
(*                                                                         *)
(* The pauses, the human gate and the recovery archives are read before    *)
(* the transaction that leases, so each of these reads is a step of its    *)
(* own and the lease uses what was read.  Handlers are opaque here: they   *)
(* may leave a verified archive behind, and they return or raise.          *)
(***************************************************************************)
EXTENDS JobQueue

CONSTANTS
  UntilHuman,     \* the option until_human
  Pausable,       \* the branches the operator pauses and resumes
  Retryable,      \* whether handlers may raise errors that are retryable
  Archivable,     \* the jobs of a kind that writes a run archive
  PerAttempt,     \* those whose archive belongs to one attempt, not to the job
  MaxTroubles,    \* bound of the model on crashes of runner processes, and on
                  \* pauses and human gates that come up, together
  BeatEvery       \* ticks that pass between two heartbeats on time: a third of
                  \* the lease, or less

ASSUME RunnerAssumption ==
  /\ UntilHuman \in BOOLEAN
  /\ Pausable \subseteq Branch
  /\ Retryable \subseteq BOOLEAN
  /\ Archivable \subseteq Job /\ PerAttempt \subseteq Archivable
  /\ MaxTroubles \in Nat
  /\ BeatEvery \in Nat /\ BeatEvery < LeaseTicks

VARIABLES
  run,            \* what each runner process does and has read
  paused,         \* branches whose latest visible control event is a pause
  gate,           \* something waits for a human judgment
  archived,       \* jobs whose latest run left an archive that verifies
  troubles,       \* how many processes died and boundaries came up
  held,           \* history: jobs pending since their branch was paused
  overdue,        \* history: some heartbeat was late, or failed
  slipped         \* history: branches, and Nobody for the human gate, each
                  \* runner took a job across since the boundary came up

history == <<troubles, held, slipped, overdue>>
runnerVars == <<run, paused, gate, archived, history>>
allVars == <<vars, runnerVars>>

NoJob == 0

\* `pc` is the next thing the process does; "off" is no process.  `since` is
\* the time since the lease was last extended by this process, for as long as
\* all heartbeats have been on time.
RunState ==
  [pc : {"off", "pauses", "gate", "archives", "lease", "leased", "working",
         "returned", "raised"},
   job : Job \cup {NoJob}, attempt : Nat, excluded : SUBSET Branch,
   recover : SUBSET Job, recoveryOnly : BOOLEAN,
   beat : {"off", "on", "failed"}, since : 0 .. BeatEvery]

Off == [pc |-> "off", job |-> NoJob, attempt |-> 0, excluded |-> {},
        recover |-> {}, recoveryOnly |-> FALSE, beat |-> "off", since |-> 0]

RunnerTypeOK ==
  /\ TypeOK
  /\ run \in [Runner -> RunState]
  /\ paused \subseteq Pausable
  /\ gate \in BOOLEAN
  /\ archived \subseteq Job
  /\ troubles \in 0 .. MaxTroubles
  /\ held \subseteq Job
  /\ overdue \in BOOLEAN
  /\ slipped \in [Runner -> SUBSET (Pausable \cup {Nobody})]

RunnerInit ==
  /\ Init
  /\ run = [w \in Runner |-> Off]
  /\ paused = {} /\ gate = FALSE /\ archived = {} /\ troubles = 0
  /\ held = {}
  /\ overdue = FALSE
  /\ slipped = [w \in Runner |-> {}]

\* A runner's private step: nothing but its own `run` changes.
Privately(w, r) ==
  /\ run' = [run EXCEPT ![w] = r]
  /\ UNCHANGED <<vars, paused, gate, archived, history>>

(***************************************************************************)
(* One iteration of the loop                                               *)
(***************************************************************************)
\* A worker id is new for every run: no row has it.
Start(w) ==
  /\ run[w].pc = "off"
  /\ \A j \in Job : rows[j].worker # w
  /\ Privately(w, [Off EXCEPT !.pc = "pauses"])

\* Only branches that have a queued job are asked for their pause.
PausedJobBranches ==
  {b \in paused : \E j \in Job : /\ BranchOf[j] = b
                                 /\ rows[j].status \in {"pending", "leased"}}

ReadPauses(w) ==
  /\ run[w].pc = "pauses"
  /\ Privately(w, [run[w] EXCEPT !.pc = "gate", !.excluded = PausedJobBranches])

ReadGate(w) ==
  /\ run[w].pc = "gate"
  /\ Privately(w, IF UntilHuman /\ gate THEN Off
                  ELSE [run[w] EXCEPT !.pc = "archives"])

\* The expired leases whose archive verifies now.
ReadArchives(w) ==
  /\ run[w].pc = "archives"
  /\ Privately(w, [run[w] EXCEPT !.pc = "lease",
                                 !.recover = Expired({}) \cap archived])

\* The boundaries that are up when j is taken.
Crossed(j) == (IF j \in held THEN {BranchOf[j]} ELSE {})
                \cup (IF UntilHuman /\ gate THEN {Nobody} ELSE {})

\* A new attempt of a coding job looks for the archive of its own attempt
\* number (PerAttempt), one of a validation job for the archive of the job.
TakeJob(w, j, late) ==
  /\ run[w].pc = "lease"
  /\ Lease(w, j, late, Job, run[w].excluded, run[w].recover, TRUE)
  /\ run' = [run EXCEPT ![w].pc = "leased", ![w].job = j,
                        ![w].attempt = rows'[j].attempts, ![w].since = 0,
                        ![w].excluded = {}, ![w].recover = {}]
  /\ archived' = archived \ ({j} \cap PerAttempt)
  /\ slipped' = [slipped EXCEPT ![w] = @ \cup Crossed(j)]
  /\ held' = held \ {j}
  /\ UNCHANGED <<paused, gate, troubles, overdue>>

NothingToLease(excluded) ==
  /\ Expired({}) = {}
  /\ Eligible(rows, log, {}, Job, excluded, TRUE) = {}
  /\ UNCHANGED vars

TakeNothing(w, late) ==
  /\ run[w].pc = "lease"
  /\ \/ LeaseNothing(late, Job, run[w].excluded, run[w].recover, TRUE)
     \/ late = {} /\ NothingToLease(run[w].excluded)
  /\ run' = [run EXCEPT ![w] = Off]
  /\ UNCHANGED <<paused, gate, archived, history>>

\* The kind of the lease is read before the heartbeat thread starts.
CheckRecovery(w) ==
  /\ run[w].pc = "leased"
  /\ Privately(w, [run[w] EXCEPT
                     !.pc = "working", !.beat = "on",
                     !.recoveryOnly = IsArchiveRecoveryLease(run[w].job, w)])

(***************************************************************************)
(* The handler and its heartbeat thread                                    *)
(***************************************************************************)
InHandler(w) == run[w].pc \in {"leased", "working", "returned", "raised"}

\* The heartbeat thread extends the lease; a lease that is lost, or a write
\* that fails, ends the thread and is remembered for the acknowledgement.
Beat(w) ==
  /\ run[w].beat = "on"
  /\ \/ /\ Heartbeat(w, run[w].job)
        /\ run' = [run EXCEPT ![w].since = 0]
        /\ UNCHANGED overdue
     \/ /\ run' = [run EXCEPT ![w].beat = "failed"]
        /\ overdue' = TRUE
        /\ UNCHANGED vars
  /\ UNCHANGED <<paused, gate, archived, troubles, held, slipped>>

ArchiveRun(w) ==
  /\ run[w].pc = "working" /\ run[w].job \in Archivable \ archived
  /\ archived' = archived \cup {run[w].job}
  /\ UNCHANGED <<vars, run, paused, gate, history>>

HandlerReturns(w) ==
  /\ run[w].pc = "working"
  /\ Privately(w, [run[w] EXCEPT
                     !.pc = IF run[w].beat = "failed" THEN "raised"
                            ELSE "returned"])

HandlerRaises(w) ==
  /\ run[w].pc = "working"
  /\ Privately(w, [run[w] EXCEPT !.pc = "raised"])

\* After an acknowledgement the loop starts over unless max_jobs is reached.
\* A faulty variant, for mutation: the pauses and the gate are read once.
NextIterationRemembered(r) ==
  {Off, [Off EXCEPT !.pc = "archives", !.excluded = r.excluded]}

NextIteration(r) == {Off, [Off EXCEPT !.pc = "pauses"]}

\* A lease that is gone makes the acknowledgement raise out of the loop.
LeaseLost(w) ==
  /\ ~Owns(w, run[w].job)
  /\ run' = [run EXCEPT ![w] = Off]
  /\ UNCHANGED vars

Acknowledge(w) ==
  /\ run[w].pc = "returned"
  /\ \/ /\ Complete(w, run[w].job)
        /\ \E r \in NextIteration(run[w]) : run' = [run EXCEPT ![w] = r]
     \/ LeaseLost(w)
  /\ UNCHANGED <<paused, gate, archived, history>>

\* What is raised during a recovery-only lease is never retried.
FailJobAs(w, retryable) ==
  /\ run[w].pc = "raised"
  /\ \/ /\ Fail(w, run[w].job, retryable /\ ~run[w].recoveryOnly)
        /\ \E r \in NextIteration(run[w]) : run' = [run EXCEPT ![w] = r]
     \/ LeaseLost(w)
  /\ UNCHANGED <<paused, gate, archived, history>>

FailJob(w) == \E retryable \in Retryable : FailJobAs(w, retryable)

\* The process dies with its heartbeat thread; its row stays leased.
Crash(w) ==
  /\ run[w].pc # "off" /\ troubles < MaxTroubles
  /\ troubles' = troubles + 1
  /\ run' = [run EXCEPT ![w] = Off]
  /\ UNCHANGED <<vars, paused, gate, archived, held, overdue, slipped>>

(***************************************************************************)
(* The operator and the clock                                              *)
(***************************************************************************)
WaitingOn(b) == {j \in Job : BranchOf[j] = b /\ rows[j].status = "pending"}

Pause(b) ==
  /\ b \notin paused /\ troubles < MaxTroubles
  /\ troubles' = troubles + 1
  /\ paused' = paused \cup {b}
  /\ held' = held \cup WaitingOn(b)
  /\ slipped' = [w \in Runner |-> slipped[w] \ {b}]
  /\ UNCHANGED <<vars, run, gate, archived, overdue>>

Resume(b) ==
  /\ b \in paused
  /\ paused' = paused \ {b}
  /\ held' = {j \in held : BranchOf[j] # b}
  /\ slipped' = [w \in Runner |-> slipped[w] \ {b}]
  /\ UNCHANGED <<vars, run, gate, archived, troubles, overdue>>

\* A proposal, patch or tool request that needs a human appears, or is judged.
HumanGate ==
  /\ UntilHuman
  /\ gate \/ troubles < MaxTroubles
  /\ troubles' = troubles + (IF gate THEN 0 ELSE 1)
  /\ gate' = ~gate
  /\ slipped' = [w \in Runner |-> slipped[w] \ {Nobody}]
  /\ UNCHANGED <<vars, run, paused, archived, held, overdue>>

\* The operator enqueues, or retries a dead letter.
QueueCommand ==
  /\ \/ \E j \in Job, created \in ClockReading : Enqueue(j, created)
     \/ \E j \in Job, reset \in RetryModes : RetryDeadLetter(j, reset)
  /\ UNCHANGED runnerVars

\* Time passes a live process whose heartbeat is due: from then on heartbeats
\* are late.
TimePasses ==
  /\ Tick
  /\ overdue' = (overdue \/ \E w \in Runner :
                               InHandler(w) /\ run[w].since = BeatEvery)
  /\ run' = [w \in Runner |->
               [run[w] EXCEPT !.since = IF InHandler(w) /\ ~overdue'
                                        THEN @ + 1 ELSE 0]]
  /\ UNCHANGED <<paused, gate, archived, troubles, held, slipped>>

-------------------------------------------------------------------------------
ClockLag == SUBSET Expired({})

RunStep(w) ==
  \/ Start(w) \/ ReadPauses(w) \/ ReadGate(w) \/ ReadArchives(w)
  \/ \E j \in Job, late \in ClockLag : TakeJob(w, j, late)
  \/ \E late \in ClockLag : TakeNothing(w, late)
  \/ CheckRecovery(w) \/ Beat(w) \/ ArchiveRun(w)
  \/ HandlerReturns(w) \/ HandlerRaises(w)
  \/ Acknowledge(w) \/ FailJob(w)

RunnerNext ==
  \/ \E w \in Runner : RunStep(w) \/ Crash(w)
  \/ \E b \in Pausable : Pause(b) \/ Resume(b)
  \/ HumanGate
  \/ QueueCommand
  \/ TimePasses

RunnerSpec == RunnerInit /\ [][RunnerNext]_allVars

\* A live process goes on: it reads, leases, acknowledges, its handler ends
\* (every handler works under a timeout), and when no process is left somebody
\* runs the automation again.  The call of lease that reads its clock before
\* the deadline it should see is not made forever.
LeasesOnTime(w) ==
  \/ \E j \in Job : TakeJob(w, j, {})
  \/ TakeNothing(w, {})

Fairness ==
  /\ WF_allVars(TimePasses)
  /\ \A w \in Runner :
       /\ WF_allVars(Start(w)) /\ WF_allVars(ReadPauses(w))
       /\ WF_allVars(ReadGate(w)) /\ WF_allVars(ReadArchives(w))
       /\ SF_allVars(LeasesOnTime(w))
       /\ WF_allVars(CheckRecovery(w))
       /\ WF_allVars(HandlerReturns(w) \/ HandlerRaises(w))
       /\ WF_allVars(Acknowledge(w)) /\ WF_allVars(FailJob(w))

FairRunnerSpec == RunnerSpec /\ Fairness

(***************************************************************************)
(* Properties                                                              *)
(***************************************************************************)
\* A result is recorded only for the lease it was computed under: whatever
\* expired, was requeued, retried or handed to another process meanwhile, the
\* completing process works on that very attempt of the job (complete, fail
\* and _assert_lease against run_automation).
ResultOfItsLease ==
  [][\A j \in Job :
       (rows[j].status # "completed" /\ rows'[j].status = "completed") =>
         \E w \in Runner : /\ run[w].pc = "returned" /\ run[w].job = j
                           /\ run[w].attempt = rows[j].attempts]_allVars

\* As long as all heartbeats have been on time, no two live processes execute
\* the same job, whoever died and whatever expired before.
OneHandler ==
  ~overdue => \A v, w \in Runner :
    (v # w /\ InHandler(v) /\ InHandler(w)) => run[v].job # run[w].job

Takes(w, j) == rows[j].worker # w /\ rows'[j].worker = w

\* A pause, or a pending human judgment, that comes up while a process is
\* between its reads and its lease lets that process take one more waiting
\* job, never a second one (run_automation reads them in every iteration).
OneJobAcrossABoundary ==
  [][\A w \in Runner, j \in Job :
       Takes(w, j) => Crossed(j) \cap slipped[w] = {}]_allVars

\* Every job that was enqueued settles, through crashes, lost leases, failures
\* and the serialization of its branch, once the operator has lifted the pauses
\* and judged what waited for a judgment.
EveryJobSettles ==
  <>[](paused = {} /\ ~gate) =>
    \A j \in Job :
      rows[j].status = "pending" ~>
        rows[j].status \in {"completed", "dead_letter", "cancelled"}

(***************************************************************************)
(* The inductive invariant of the proofs.                                  *)
(***************************************************************************)
\* A row leased to a worker id is the one its process works on, in this very
\* attempt, or the process is gone.
LeasedToHandler ==
  \A w \in Runner, j \in Job : rows[j].worker = w =>
    \/ run[w].pc = "off"
    \/ InHandler(w) /\ run[w].job = j /\ run[w].attempt = rows[j].attempts

\* As long as all heartbeats have been on time, whoever is in a handler has the
\* lease, which runs as long as is left of it since it was last extended.
LeaseOnTime ==
  ~overdue => \A w \in Runner : InHandler(w) =>
    /\ Owns(w, run[w].job)
    /\ rows[run[w].job].leaseLeft = LeaseTicks - run[w].since

\* The boundaries that are up, and who took a job across one of them, in terms
\* of what each process has read.
BoundariesRead ==
  /\ \A j \in held : rows[j].status = "pending" /\ BranchOf[j] \in paused
  /\ \A w \in Runner :
       /\ slipped[w] \subseteq paused \cup {Nobody}
       /\ Nobody \in slipped[w] =>
            UntilHuman /\ gate /\ run[w].pc \notin {"archives", "lease"}
       /\ run[w].pc \in {"gate", "archives", "lease"} =>
            \A j \in held :
              BranchOf[j] \in slipped[w] => BranchOf[j] \in run[w].excluded

\* A handler works on a job, and only a handler has a heartbeat thread.
HandlerHasJob ==
  \A w \in Runner : /\ InHandler(w) => run[w].job \in Job
                    /\ run[w].beat # "off" => InHandler(w)

RunnerInv ==
  /\ HandlerHasJob
  /\ LeasedToHandler /\ LeaseOnTime /\ BoundariesRead

===============================================================================
