------------------------------- MODULE JobQueue -------------------------------
(***************************************************************************)
(* The durable job queue of src/src/oracle_lab/jobs.py (class JobQueue).   *)
(*                                                                         *)
(* A job is a row of the `jobs` table.  Every operation runs in one        *)
(* BEGIN IMMEDIATE transaction that changes the row and appends a          *)
(* lifecycle event holding the changed row, so an operation is one action. *)
(* The queue reads the lifecycle events back: the type and the recovery    *)
(* metadata of the latest one, and whether any of them carries a recovery  *)
(* grant.  `log` keeps exactly what those queries return.                  *)
(*                                                                         *)
(* Deadlines are kept as the number of ticks that remain: `leaseLeft` is   *)
(* lease_until - now and `wait` is available_at - now.                     *)
(***************************************************************************)
EXTENDS Integers, FiniteSets

CONSTANTS
  Job,            \* identifiers of the jobs that may be enqueued
  Runner,         \* worker ids
  NoRunner,       \* worker_id IS NULL
  Branch,         \* (session_id, branch_id) pairs
  Provider,       \* provider ids
  Nobody,         \* a job without branch, provider or idempotency key
  BranchOf,       \* Job -> Branch, or Nobody
  ProviderOf,     \* Job -> Provider, or Nobody
  KeyOf,          \* Job -> idempotency key, or Nobody
  Serialized,     \* the jobs enqueued with serialize_branch
  Priority,       \* Job -> Int
  MaxAttempts,    \* Job -> positive limit of attempts
  ProviderLimit,  \* Provider -> positive limit, for the providers that have one
  LeaseTicks,     \* lease_seconds
  BackoffBase,    \* backoff_base_seconds
  MaxBackoff,     \* max_backoff_seconds
  ClockReading,   \* readings of the wall clock that created_at may hold
  ReadyDepth,     \* how many ticks past available_at are told apart
  RetryModes,     \* values of reset_attempts that callers pass
  AttemptCap      \* bound of the model: retries that keep attempts stop here

ASSUME QueueAssumption ==
  /\ Job \subseteq Nat /\ IsFiniteSet(Job)
  /\ NoRunner \notin Runner
  /\ BranchOf \in [Job -> Branch \cup {Nobody}]
  /\ ProviderOf \in [Job -> Provider \cup {Nobody}]
  /\ Nobody \notin Branch \cup Provider
  /\ Serialized \subseteq {j \in Job : BranchOf[j] # Nobody}
  /\ Priority \in [Job -> Int]
  /\ MaxAttempts \in [Job -> Nat \ {0}]
  /\ DOMAIN ProviderLimit \subseteq Provider
  /\ \A p \in DOMAIN ProviderLimit : ProviderLimit[p] \in Nat \ {0}
  /\ LeaseTicks \in Nat \ {0}
  /\ MaxBackoff \in Nat
  /\ ClockReading \subseteq Nat
  /\ ReadyDepth \in Nat
  /\ RetryModes \subseteq BOOLEAN
  /\ AttemptCap \in Nat

VARIABLES
  rows,           \* the jobs table
  log,            \* what the queue's queries see of each job's lifecycle events
  onRecovery,     \* history: the jobs whose present lease is the recovery lease
  recoveryLeases  \* history: how many recovery leases each job was given

vars == <<rows, log, onRecovery, recoveryLeases>>

(***************************************************************************)
(* Rows and lifecycle events                                               *)
(***************************************************************************)
JobStatus == {"pending", "leased", "completed", "dead_letter", "cancelled"}

EventType == {"enqueued", "leased", "heartbeat", "completed", "failed",
              "cancelled", "requeued", "retried"}

\* A row that was never inserted has status "absent".  cancel_requested is
\* set by the same update that sets status "cancelled", a status no update
\* leaves, so it is not a field of its own.
Row == [status : JobStatus \cup {"absent"}, leaseLeft : 0 .. LeaseTicks,
        worker : Runner \cup {NoRunner}, wait : Int, attempts : Nat,
        created : Nat]

\* `recovery` is the lease_expiry_recovery metadata of the latest event;
\* `granted` holds when some event of the job carries ordinal 1.
LogView == [type : EventType \cup {"none"},
            recovery : {"none", "grant", "exhausted"}, granted : BOOLEAN]

TypeOK ==
  /\ rows \in [Job -> Row]
  /\ log \in [Job -> LogView]
  /\ onRecovery \subseteq Job
  /\ recoveryLeases \in [Job -> Nat]

Init ==
  /\ rows = [j \in Job |-> [status |-> "absent", leaseLeft |-> 0,
                            worker |-> NoRunner, wait |-> 0, attempts |-> 0,
                            created |-> 0]]
  /\ log = [j \in Job |-> [type |-> "none", recovery |-> "none",
                           granted |-> FALSE]]
  /\ onRecovery = {}
  /\ recoveryLeases = [j \in Job |-> 0]

\* Appending an event: metadata without a recovery key leaves `granted` as it is.
Recorded(l, type, recovery) ==
  [type |-> type, recovery |-> recovery,
   granted |-> l.granted \/ recovery # "none"]

\* A faulty variant, for mutation: worker_id survives the end of the lease.
ReleasedKeepingWorker(r, status, delay) ==
  [r EXCEPT !.status = status, !.leaseLeft = 0, !.wait = delay]

\* The row after its lease ended, or after its cancellation.
Released(r, status, delay) ==
  [r EXCEPT !.status = status, !.leaseLeft = 0, !.worker = NoRunner,
            !.wait = delay]

\* The row once it is leased to w.
LeasedTo(r, w) ==
  [r EXCEPT !.status = "leased", !.leaseLeft = LeaseTicks, !.worker = w,
            !.wait = 0, !.attempts = @ + 1]

\* The latest event is the lease of a recovery grant.
LeasedAsArchiveRecovery(l) == l.type = "leased" /\ l.recovery = "grant"

\* The latest event is a grant that no lease has used yet.
PendingArchiveRecovery(l) == l.type = "requeued" /\ l.recovery = "grant"

\* What a caller that just leased j as w asks before it starts working.
IsArchiveRecoveryLease(j, w) ==
  /\ rows[j].status = "leased"
  /\ rows[j].worker = w
  /\ LeasedAsArchiveRecovery(log[j])

(***************************************************************************)
(* Enqueue                                                                 *)
(***************************************************************************)
\* A second call with a key in use returns the row that has it and changes
\* nothing.  created_at is a wall clock reading made before the write lock is
\* taken: it may tie with, or precede, the created_at of a row inserted earlier.
Enqueue(j, created) ==
  /\ rows[j].status = "absent"
  /\ KeyOf[j] # Nobody =>
       \A k \in Job : KeyOf[k] = KeyOf[j] => rows[k].status = "absent"
  /\ rows' = [rows EXCEPT ![j] = [status |-> "pending", leaseLeft |-> 0,
                                  worker |-> NoRunner, wait |-> 0,
                                  attempts |-> 0, created |-> created]]
  /\ log' = [log EXCEPT ![j] = Recorded(@, "enqueued", "none")]
  /\ UNCHANGED <<onRecovery, recoveryLeases>>

(***************************************************************************)
(* Expired leases                                                          *)
(***************************************************************************)
\* The caller reads its clock before it waits for the write lock: `late` are
\* the jobs whose deadline passed in between, which this call still counts
\* as running.
Expired(late) ==
  {j \in Job \ late : rows[j].status = "leased" /\ rows[j].leaseLeft = 0}

\* A faulty variant, for mutation: an earlier grant is not looked for.
GrantedAgain(j, recover) == ~LeasedAsArchiveRecovery(log[j]) /\ j \in recover

Granted(j, recover) ==
  /\ ~LeasedAsArchiveRecovery(log[j])
  /\ j \in recover
  /\ ~log[j].granted

\* Faulty variants, for mutation: the attempts are not compared, or the row
\* gets the name of the event.
RequeuedStatusUnbounded(j, recover) ==
  IF LeasedAsArchiveRecovery(log[j]) THEN "dead_letter" ELSE "pending"

RequeuedStatusMisnamed(j, recover) ==
  IF rows[j].attempts >= MaxAttempts[j] THEN "failed" ELSE "pending"

RequeuedStatus(j, recover) ==
  IF LeasedAsArchiveRecovery(log[j]) THEN "dead_letter"
  ELSE IF Granted(j, recover) THEN "pending"
  ELSE IF rows[j].attempts >= MaxAttempts[j] THEN "dead_letter" ELSE "pending"

RequeuedRows(late, recover) ==
  [j \in Job |->
     IF j \in Expired(late)
     THEN Released(rows[j], RequeuedStatus(j, recover), 0)
     ELSE rows[j]]

RequeuedLog(late, recover) ==
  [j \in Job |->
     IF j \in Expired(late)
     THEN Recorded(log[j], "requeued",
                   IF Granted(j, recover) THEN "grant"
                   ELSE IF LeasedAsArchiveRecovery(log[j]) THEN "exhausted"
                   ELSE "none")
     ELSE log[j]]

RequeueExpired(late, recover) ==
  /\ Expired(late) # {}
  /\ rows' = RequeuedRows(late, recover)
  /\ log' = RequeuedLog(late, recover)
  /\ onRecovery' = onRecovery \ Expired(late)
  /\ UNCHANGED recoveryLeases

(***************************************************************************)
(* Lease                                                                   *)
(***************************************************************************)
\* `rs` is the table as the transaction sees it after the requeue.
Running(rs, j, late) ==
  rs[j].status = "leased" /\ (rs[j].leaseLeft > 0 \/ j \in late)

\* A faulty variant, for mutation: off by one.
WithinProviderLimitOrEqual(rs, j, late) ==
  ProviderOf[j] \in DOMAIN ProviderLimit =>
    Cardinality({k \in Job : /\ ProviderOf[k] = ProviderOf[j]
                             /\ Running(rs, k, late)})
      <= ProviderLimit[ProviderOf[j]]

WithinProviderLimit(rs, j, late) ==
  ProviderOf[j] \in DOMAIN ProviderLimit =>
    Cardinality({k \in Job : /\ ProviderOf[k] = ProviderOf[j]
                             /\ Running(rs, k, late)})
      < ProviderLimit[ProviderOf[j]]

CreatedBefore(rs, k, j) ==
  \/ rs[k].created < rs[j].created
  \/ rs[k].created = rs[j].created /\ k < j

\* A faulty variant, for mutation: only earlier jobs are looked at.
BranchAvailableInOrder(rs, j, late) ==
  j \in Serialized =>
    ~ \E k \in Serialized : /\ BranchOf[k] = BranchOf[j]
                            /\ rs[k].status \in {"pending", "leased"}
                            /\ CreatedBefore(rs, k, j)

\* A faulty variant, for mutation: a dead letter keeps its place in the line.
BranchAvailableBehindDead(rs, j, late) ==
  j \in Serialized =>
    /\ ~ \E k \in Serialized : /\ BranchOf[k] = BranchOf[j]
                               /\ rs[k].status \in {"pending", "leased",
                                                   "dead_letter"}
                               /\ CreatedBefore(rs, k, j)
    /\ ~ \E k \in Job : BranchOf[k] = BranchOf[j] /\ Running(rs, k, late)

BranchAvailable(rs, j, late) ==
  j \in Serialized =>
    /\ ~ \E k \in Serialized : /\ BranchOf[k] = BranchOf[j]
                               /\ rs[k].status \in {"pending", "leased"}
                               /\ CreatedBefore(rs, k, j)
    /\ ~ \E k \in Job : BranchOf[k] = BranchOf[j] /\ Running(rs, k, late)

\* The candidates of one call, after the filters of its loop.
Eligible(rs, lg, late, kinds, excluded, allowRecovery) ==
  {j \in kinds :
     /\ rs[j].status = "pending" /\ rs[j].wait <= 0
     /\ BranchOf[j] \notin excluded
     /\ PendingArchiveRecovery(lg[j]) => allowRecovery
     /\ WithinProviderLimit(rs, j, late)
     /\ BranchAvailable(rs, j, late)}

\* ORDER BY priority DESC, available_at ASC, id ASC.  Two jobs that both
\* became ready at least ReadyDepth ticks ago are not ordered by this model.
OrderedBefore(rs, k, j) ==
  \/ Priority[k] > Priority[j]
  \/ /\ Priority[k] = Priority[j]
     /\ \/ rs[k].wait < rs[j].wait
        \/ rs[k].wait = rs[j].wait /\ rs[k].wait > -ReadyDepth /\ k < j

\* lease_one: requeue what expired, then lease the first eligible candidate.
Lease(w, j, late, kinds, excluded, recover, allowRecovery) ==
  LET rs == RequeuedRows(late, recover)
      lg == RequeuedLog(late, recover)
      eligible == Eligible(rs, lg, late, kinds, excluded, allowRecovery)
      recovering == PendingArchiveRecovery(lg[j])
  IN /\ j \in eligible
     /\ ~ \E k \in eligible : OrderedBefore(rs, k, j)
     /\ rows' = [rs EXCEPT ![j] = LeasedTo(@, w)]
     /\ log' = [lg EXCEPT ![j] = Recorded(@, "leased",
                                   IF recovering THEN "grant" ELSE "none")]
     /\ onRecovery' = (onRecovery \ (Expired(late) \cup {j}))
                        \cup (IF recovering THEN {j} ELSE {})
     /\ recoveryLeases' = IF recovering
                          THEN [recoveryLeases EXCEPT ![j] = @ + 1]
                          ELSE recoveryLeases

\* lease_one found nothing to lease; what it requeued stays requeued.
LeaseNothing(late, kinds, excluded, recover, allowRecovery) ==
  /\ Eligible(RequeuedRows(late, recover), RequeuedLog(late, recover), late,
              kinds, excluded, allowRecovery) = {}
  /\ RequeueExpired(late, recover)

(***************************************************************************)
(* The owner of a lease                                                    *)
(***************************************************************************)
\* A faulty variant, for mutation: any worker may settle a leased job.
OwnsLeased(w, j) == rows[j].status = "leased"

Owns(w, j) == rows[j].status = "leased" /\ rows[j].worker = w

\* A faulty variant, for mutation: the update has no fence.
HeartbeatUnfenced(w, j) ==
  /\ rows[j].status # "absent"
  /\ rows' = [rows EXCEPT ![j].leaseLeft = LeaseTicks]
  /\ log' = [log EXCEPT ![j] = Recorded(@, "heartbeat", "none")]
  /\ UNCHANGED <<onRecovery, recoveryLeases>>

\* A faulty variant, for mutation: the event is written, the deadline is not.
HeartbeatKeepingDeadline(w, j) ==
  /\ Owns(w, j)
  /\ log' = [log EXCEPT ![j] = Recorded(@, "heartbeat", "none")]
  /\ UNCHANGED <<rows, onRecovery, recoveryLeases>>

\* The row's deadline is not looked at: an expired lease that no call has
\* requeued yet is extended as well.
Heartbeat(w, j) ==
  /\ Owns(w, j)
  /\ rows' = [rows EXCEPT ![j].leaseLeft = LeaseTicks]
  /\ log' = [log EXCEPT ![j] = Recorded(@, "heartbeat", "none")]
  /\ UNCHANGED <<onRecovery, recoveryLeases>>

Complete(w, j) ==
  /\ Owns(w, j)
  /\ rows' = [rows EXCEPT ![j] = Released(@, "completed", 0)]
  /\ log' = [log EXCEPT ![j] = Recorded(@, "completed", "none")]
  /\ onRecovery' = onRecovery \ {j}
  /\ UNCHANGED recoveryLeases

Backoff(attempts) ==
  LET delay == BackoffBase * 2^(IF attempts > 0 THEN attempts - 1 ELSE 0)
  IN IF delay \in 0 .. MaxBackoff THEN delay ELSE MaxBackoff

Fail(w, j, retryable) ==
  /\ Owns(w, j)
  /\ rows' = [rows EXCEPT ![j] =
                IF retryable /\ @.attempts < MaxAttempts[j]
                THEN Released(@, "pending", Backoff(@.attempts))
                ELSE Released(@, "dead_letter", 0)]
  /\ log' = [log EXCEPT ![j] = Recorded(@, "failed", "none")]
  /\ onRecovery' = onRecovery \ {j}
  /\ UNCHANGED recoveryLeases

(***************************************************************************)
(* Operators                                                               *)
(***************************************************************************)
\* A faulty variant, for mutation: a settled job can be cancelled.
CancelAnything(j) ==
  /\ rows[j].status # "absent"
  /\ rows' = [rows EXCEPT ![j] = Released(@, "cancelled", 0)]
  /\ log' = [log EXCEPT ![j] = Recorded(@, "cancelled", "none")]
  /\ onRecovery' = onRecovery \ {j}
  /\ UNCHANGED recoveryLeases

Cancel(j) ==
  /\ rows[j].status \in {"pending", "leased"}
  /\ rows' = [rows EXCEPT ![j] = Released(@, "cancelled", 0)]
  /\ log' = [log EXCEPT ![j] = Recorded(@, "cancelled", "none")]
  /\ onRecovery' = onRecovery \ {j}
  /\ UNCHANGED recoveryLeases

Revived(r, reset) ==
  [r EXCEPT !.status = "pending", !.wait = 0,
            !.attempts = IF reset THEN 0 ELSE @]

RetryDeadLetter(j, reset) ==
  /\ rows[j].status = "dead_letter"
  /\ reset \/ rows[j].attempts < AttemptCap
  /\ rows' = [rows EXCEPT ![j] = Revived(@, reset)]
  /\ log' = [log EXCEPT ![j] = Recorded(@, "retried", "none")]
  /\ UNCHANGED <<onRecovery, recoveryLeases>>

\* One tick of the wall clock.  No row is written.
Later(r) ==
  [r EXCEPT !.leaseLeft = IF @ > 0 THEN @ - 1 ELSE 0,
            !.wait = IF r.status = "pending" /\ @ > -ReadyDepth
                     THEN @ - 1 ELSE @]

Tick ==
  /\ rows' = [j \in Job |-> Later(rows[j])]
  /\ UNCHANGED <<log, onRecovery, recoveryLeases>>

-------------------------------------------------------------------------------
Next ==
  \/ \E j \in Job, created \in ClockReading : Enqueue(j, created)
  \/ \E late \in SUBSET Expired({}), recover \in SUBSET Expired({}) :
          RequeueExpired(late, recover)
  \/ \E w \in Runner, j \in Job, late \in SUBSET Expired({}),
        recover \in SUBSET Expired({}), excluded \in SUBSET Branch,
        allowRecovery \in BOOLEAN :
          Lease(w, j, late, Job, excluded, recover, allowRecovery)
  \/ \E late \in SUBSET Expired({}), recover \in SUBSET Expired({}),
        excluded \in SUBSET Branch, allowRecovery \in BOOLEAN :
          LeaseNothing(late, Job, excluded, recover, allowRecovery)
  \/ \E w \in Runner, j \in Job :
          \/ Heartbeat(w, j)
          \/ Complete(w, j)
          \/ \E retryable \in BOOLEAN : Fail(w, j, retryable)
  \/ \E j \in Job : Cancel(j)
  \/ \E j \in Job, reset \in RetryModes : RetryDeadLetter(j, reset)
  \/ Tick

Spec == Init /\ [][Next]_vars

(***************************************************************************)
(* Properties                                                              *)
(***************************************************************************)
\* The queue accepts one serialized job of a branch at a time: two of them
\* are never leased together, although the lease that checks this, the clock
\* it reads and the requeue of the earlier lease belong to different calls
\* (_branch_available).
Exclusive(rs) ==
  \A j, k \in Serialized :
    (j # k /\ BranchOf[j] = BranchOf[k]) =>
      ~(rs[j].status = "leased" /\ rs[k].status = "leased")

BranchSerialized == Exclusive(rows)

\* A provider never has more leased jobs than its configured limit
\* (_within_provider_limit).
LeasedOf(p) == {j \in Job : ProviderOf[j] = p /\ rows[j].status = "leased"}

ProviderWithinLimit ==
  \A p \in DOMAIN ProviderLimit :
    Cardinality(LeasedOf(p)) <= ProviderLimit[p]

\* Over its whole life a job is given at most one recovery-only lease,
\* through any sequence of expiries, failures and operator retries
\* (_archive_recovery_was_granted).
SingleRecovery == \A j \in Job : recoveryLeases[j] <= 1

\* A job whose attempts are used up is leased again only for its one recovery
\* or because an operator retried it (_requeue_expired, fail).
BudgetRespected ==
  [][\A j \in Job :
       (/\ rows[j].attempts >= MaxAttempts[j]
        /\ rows'[j].attempts > rows[j].attempts)
       => \/ recoveryLeases'[j] = recoveryLeases[j] + 1
          \/ log[j].type = "retried"]_vars

\* A settled job stays settled: nothing changes a completed or cancelled row
\* again, and only an operator's retry revives a dead-lettered one.
SettledStays ==
  [][\A j \in Job :
       /\ rows[j].status \in {"completed", "cancelled"} => rows'[j] = rows[j]
       /\ rows[j].status = "dead_letter" =>
            rows'[j].status = "dead_letter" \/ log'[j].type = "retried"]_vars

\* Every event a queue operation appends carries a status that the rebuildable
\* projection accepts for that event type; otherwise the operation's own
\* transaction would be refused (_JOB_EVENT_STATUSES, JobProjection.apply).
EventStatuses ==
  [enqueued |-> {"pending"}, leased |-> {"leased"}, heartbeat |-> {"leased"},
   completed |-> {"completed"}, failed |-> {"pending", "dead_letter"},
   cancelled |-> {"cancelled"}, requeued |-> {"pending", "dead_letter"},
   retried |-> {"pending"}, none |-> {"absent"}]

ProjectionAccepts ==
  \A j \in Job : rows[j].status \in EventStatuses[log[j].type]

(***************************************************************************)
(* The inductive invariant of the proofs, and what it needs of one job.    *)
(***************************************************************************)
Held(r) == r.status = "leased" <=> r.worker # NoRunner

\* A pending job without attempts left waits for its recovery, or was retried.
Budgeted(j, r, l) ==
  (r.status = "pending" /\ r.attempts >= MaxAttempts[j]) =>
    PendingArchiveRecovery(l) \/ l.type = "retried"

\* n recovery leases were given: the log remembers that, and a grant that
\* waits to be used is the first.
OneGrant(l, n) ==
  /\ n \in {0, 1}
  /\ n = 1 => l.granted
  /\ PendingArchiveRecovery(l) => n = 0 /\ l.granted

\* Every row has an owner exactly while it is leased, spends only what its
\* budget and its single grant allow, and shares no branch with another
\* serialized lease.
QueueInv ==
  /\ \A j \in Job : /\ Held(rows[j])
                    /\ Budgeted(j, rows[j], log[j])
                    /\ OneGrant(log[j], recoveryLeases[j])
  /\ Exclusive(rows)

(***************************************************************************)
(* The queue implements the claim service.                                 *)
(***************************************************************************)
PhaseOf(status) ==
  CASE status = "absent" -> "new"
    [] status = "pending" -> "waiting"
    [] status = "leased" -> "claimed"
    [] status = "dead_letter" -> "parked"
    [] OTHER -> "settled"

\* The serialized jobs of one branch exclude each other.
RivalPairs ==
  {p \in Serialized \X Serialized :
     p[1] # p[2] /\ BranchOf[p[1]] = BranchOf[p[2]]}

PhaseView(rs) == [j \in Job |-> PhaseOf(rs[j].status)]

HolderView(rs) == [j \in Job |-> rs[j].worker]

Claims == INSTANCE ClaimService
  WITH phase <- PhaseView(rows), holder <- HolderView(rows),
       Rivals <- RivalPairs

\* Seen through its rows, every step of the queue is a step of the claim
\* service: one holder per job, no two serialized jobs of a branch claimed
\* together, no outcome without the claim.
ImplementsClaims == Claims!ClaimSpec

===============================================================================
