------------------------------ MODULE QueueProofs ------------------------------
(***************************************************************************)
(* Proofs about JobQueue, for every set of jobs, runners, branches and     *)
(* limits that satisfies QueueAssumption, and about AutomationRunner, for  *)
(* every set of processes too: the loop only does what the queue allows,   *)
(* so that everything proved of JobQueue holds of it, a job has one        *)
(* handler as long as heartbeats are on time, a result belongs to its      *)
(* lease, and a boundary is crossed once.                                  *)
(***************************************************************************)
EXTENDS AutomationRunner, FiniteSetTheorems, TLAPS

-------------------------------------------------------------------------------
(* JobQueue *)

(***************************************************************************)
(* Types                                                                   *)
(***************************************************************************)
\* The delay after a failure is a number of ticks up to MaxBackoff, however
\* large the exponent grows (fail).
LEMMA BackoffType == \A a \in Nat : Backoff(a) \in 0 .. MaxBackoff
BY QueueAssumption DEF Backoff

\* The constants the type proof needs.
LEMMA Ticks ==
  /\ 0 \in 0 .. LeaseTicks /\ LeaseTicks \in 0 .. LeaseTicks
  /\ LeaseTicks \in Nat \ {0}
BY QueueAssumption

\* A released, leased, revived or aged row is a row.
LEMMA ReleasedType ==
  ASSUME NEW r \in Row, NEW status \in JobStatus, NEW delay \in Int
  PROVE  Released(r, status, delay) \in Row
<1> DEFINE none == 0
<1>1. none \in 0 .. LeaseTicks
  BY Ticks
<1>2. Released(r, status, delay) =
        [r EXCEPT !.status = status, !.leaseLeft = none, !.worker = NoRunner,
                  !.wait = delay]
  BY DEF Released
<1> HIDE DEF none
<1>3. QED
  BY <1>1, <1>2 DEF Row

\* A leased row is a row.
LEMMA LeasedToType ==
  ASSUME NEW r \in Row, NEW w \in Runner
  PROVE  LeasedTo(r, w) \in Row
<1> DEFINE full == LeaseTicks
           now == 0
           status == "leased"
           n == r.attempts + 1
<1>1. /\ full \in 0 .. LeaseTicks /\ now \in Int
      /\ status \in JobStatus /\ n \in Nat
  BY Ticks DEF JobStatus, Row
<1>2. LeasedTo(r, w) =
        [r EXCEPT !.status = status, !.leaseLeft = full, !.worker = w,
                  !.wait = now, !.attempts = n]
  BY DEF LeasedTo
<1> HIDE DEF full, now, status, n
<1>3. QED
  BY <1>1, <1>2 DEF Row

\* A revived row is a row.
LEMMA RevivedType ==
  ASSUME NEW r \in Row, NEW reset \in BOOLEAN
  PROVE  Revived(r, reset) \in Row
<1> DEFINE now == 0
           status == "pending"
           n == IF reset THEN 0 ELSE r.attempts
<1>1. now \in Int /\ status \in JobStatus /\ n \in Nat
  BY DEF JobStatus, Row
<1>2. Revived(r, reset) =
        [r EXCEPT !.status = status, !.wait = now, !.attempts = n]
  BY DEF Revived
<1> HIDE DEF now, status, n
<1>3. QED
  BY <1>1, <1>2 DEF Row

\* A row is a row a tick later.
LEMMA LaterType ==
  ASSUME NEW r \in Row
  PROVE  Later(r) \in Row
<1>1. r.leaseLeft \in 0 .. LeaseTicks /\ r.wait \in Int
  BY DEF Row
<1>2. (IF r.leaseLeft > 0 THEN r.leaseLeft - 1 ELSE 0) \in 0 .. LeaseTicks
  BY <1>1, Ticks
<1>3. (IF r.status = "pending" /\ r.wait > -ReadyDepth
       THEN r.wait - 1 ELSE r.wait) \in Int
  BY <1>1
<1>4. QED
  BY <1>2, <1>3 DEF Later, Row

\* An appended event leaves a well-typed log.
LEMMA RecordedType ==
  ASSUME NEW l \in LogView, NEW type \in EventType,
         NEW mark \in {"none", "grant", "exhausted"}
  PROVE  Recorded(l, type, mark) \in LogView
BY DEF Recorded, LogView

\* What an appended event is seen as.
LEMMA RecordedFields ==
  ASSUME NEW l, NEW type, NEW mark
  PROVE  /\ Recorded(l, type, mark).type = type
         /\ Recorded(l, type, mark).recovery = mark
         /\ Recorded(l, type, mark).granted <=> l.granted \/ mark # "none"
BY DEF Recorded

\* Requeuing expired leases keeps the table and the log well typed.
LEMMA RequeueType ==
  ASSUME TypeOK, NEW late, NEW recover
  PROVE  /\ RequeuedRows(late, recover) \in [Job -> Row]
         /\ RequeuedLog(late, recover) \in [Job -> LogView]
<1>1. RequeuedRows(late, recover) \in [Job -> Row]
  <2>1. ASSUME NEW j \in Job
        PROVE  Released(rows[j], RequeuedStatus(j, recover), 0) \in Row
    <3>1. RequeuedStatus(j, recover) \in JobStatus
      BY DEF RequeuedStatus, JobStatus
    <3>2. QED
      BY <3>1, ReleasedType DEF TypeOK
  <2>2. QED
    BY <2>1 DEF RequeuedRows, TypeOK
<1>2. RequeuedLog(late, recover) \in [Job -> LogView]
  <2> SUFFICES ASSUME NEW j \in Job, NEW mark \in {"none", "grant", "exhausted"}
               PROVE  Recorded(log[j], "requeued", mark) \in LogView
    BY DEF RequeuedLog, TypeOK
  <2>1. log[j] \in LogView /\ "requeued" \in EventType
    BY DEF TypeOK, EventType
  <2>2. QED
    BY <2>1, RecordedType
<1>3. QED
  BY <1>1, <1>2

\* The queue starts typed.
LEMMA InitType == Init => TypeOK
BY QueueAssumption DEF Init, TypeOK, Row, LogView

\* An update of one row and one event, and whatever else stays typed.
LEMMA OneJobType ==
  ASSUME TypeOK, NEW j \in Job, NEW r \in Row, NEW type \in EventType,
         NEW mark \in {"none", "grant", "exhausted"},
         rows' = [rows EXCEPT ![j] = r],
         log' = [log EXCEPT ![j] = Recorded(log[j], type, mark)],
         onRecovery' \subseteq Job,
         recoveryLeases' \in [Job -> Nat]
  PROVE  TypeOK'
<1>1. Recorded(log[j], type, mark) \in LogView
  BY RecordedType DEF TypeOK
<1>2. QED
  BY <1>1 DEF TypeOK

\* Every step of the queue keeps the types.
LEMMA NextType == TypeOK /\ [Next]_vars => TypeOK'
<1> SUFFICES ASSUME TypeOK, [Next]_vars
             PROVE  TypeOK'
  OBVIOUS
<1>0. /\ \A j \in Job : rows[j] \in Row
      /\ {"enqueued", "leased", "heartbeat", "completed", "failed",
          "cancelled", "requeued", "retried"} \subseteq EventType
      /\ {"pending", "leased", "completed", "dead_letter", "cancelled"}
           \subseteq JobStatus
  BY DEF TypeOK, EventType, JobStatus
<1>1. ASSUME NEW j \in Job, NEW created \in ClockReading, Enqueue(j, created)
      PROVE  TypeOK'
  <2>1. [status |-> "pending", leaseLeft |-> 0, worker |-> NoRunner,
         wait |-> 0, attempts |-> 0, created |-> created] \in Row
    BY <1>1, Ticks, QueueAssumption DEF Enqueue, TypeOK, Row, JobStatus
  <2>2. QED
    BY <1>0, <1>1, <2>1, OneJobType DEF Enqueue, TypeOK
<1>2. ASSUME NEW late, NEW recover, RequeueExpired(late, recover)
      PROVE  TypeOK'
  BY <1>2, RequeueType DEF RequeueExpired, TypeOK
<1>3. ASSUME NEW w \in Runner, NEW j \in Job, NEW late, NEW recover,
             NEW excluded, NEW allowRecovery,
             Lease(w, j, late, Job, excluded, recover, allowRecovery)
      PROVE  TypeOK'
  <2> DEFINE rs == RequeuedRows(late, recover)
             lg == RequeuedLog(late, recover)
             mark == IF PendingArchiveRecovery(lg[j]) THEN "grant" ELSE "none"
             r == LeasedTo(rs[j], w)
  <2>1. rs \in [Job -> Row] /\ lg \in [Job -> LogView]
    BY RequeueType
  <2>2. /\ rows' = [rs EXCEPT ![j] = r]
        /\ log' = [lg EXCEPT ![j] = Recorded(lg[j], "leased", mark)]
    BY <1>3, <2>1 DEF Lease
  <2>6. onRecovery' \subseteq Job
    BY <1>3 DEF Lease, TypeOK
  <2>7. recoveryLeases' \in [Job -> Nat]
    BY <1>3 DEF Lease, TypeOK
  <2>3. r \in Row
    BY <2>1, LeasedToType
  <2>4. Recorded(lg[j], "leased", mark) \in LogView
    BY <1>0, <2>1, RecordedType
  <2> HIDE DEF rs, lg, r
  <2>5. QED
    BY <2>1, <2>2, <2>3, <2>4, <2>6, <2>7 DEF TypeOK
<1>4. ASSUME NEW late, NEW recover, NEW excluded, NEW allowRecovery,
             LeaseNothing(late, Job, excluded, recover, allowRecovery)
      PROVE  TypeOK'
  BY <1>2, <1>4 DEF LeaseNothing
<1>5. ASSUME NEW w \in Runner, NEW j \in Job, Heartbeat(w, j)
      PROVE  TypeOK'
  <2>1. rows' = [rows EXCEPT ![j] = [rows[j] EXCEPT !.leaseLeft = LeaseTicks]]
    BY <1>5 DEF Heartbeat, TypeOK
  <2>2. [rows[j] EXCEPT !.leaseLeft = LeaseTicks] \in Row
    BY <1>0, Ticks DEF Row
  <2>3. QED
    BY <1>0, <1>5, <2>1, <2>2, OneJobType DEF Heartbeat, TypeOK
<1>6. ASSUME NEW j \in Job, NEW status \in JobStatus, NEW delay \in Int
      PROVE  Released(rows[j], status, delay) \in Row
  BY <1>0, <1>6, ReleasedType
<1>7. ASSUME NEW w \in Runner, NEW j \in Job, Complete(w, j)
      PROVE  TypeOK'
  <2>1. Released(rows[j], "completed", 0) \in Row
    BY <1>0, <1>6
  <2>2. QED
    BY <1>0, <1>7, <2>1, OneJobType DEF Complete, TypeOK
<1>8. ASSUME NEW w \in Runner, NEW j \in Job, NEW retryable \in BOOLEAN,
             Fail(w, j, retryable)
      PROVE  TypeOK'
  <2>1. Backoff(rows[j].attempts) \in Int
    BY <1>0, BackoffType, QueueAssumption DEF Row
  <2>2. /\ Released(rows[j], "pending", Backoff(rows[j].attempts)) \in Row
        /\ Released(rows[j], "dead_letter", 0) \in Row
    BY <1>0, <1>6, <2>1
  <2>3. QED
    BY <1>0, <1>8, <2>2, OneJobType DEF Fail, TypeOK
<1>9. ASSUME NEW j \in Job, Cancel(j)
      PROVE  TypeOK'
  <2>1. Released(rows[j], "cancelled", 0) \in Row
    BY <1>0, <1>6
  <2>2. QED
    BY <1>0, <1>9, <2>1, OneJobType DEF Cancel, TypeOK
<1>10. ASSUME NEW j \in Job, NEW reset \in RetryModes, RetryDeadLetter(j, reset)
       PROVE  TypeOK'
  <2>1. Revived(rows[j], reset) \in Row
    BY <1>0, RevivedType, QueueAssumption
  <2>2. QED
    BY <1>0, <1>10, <2>1, OneJobType DEF RetryDeadLetter, TypeOK
<1>11. ASSUME Tick
       PROVE  TypeOK'
  <2>1. rows' \in [Job -> Row]
    BY <1>0, <1>11, LaterType DEF Tick
  <2>2. QED
    BY <1>11, <2>1 DEF Tick, TypeOK
<1>12. ASSUME UNCHANGED vars
       PROVE  TypeOK'
  BY <1>12 DEF vars, TypeOK
<1>13. QED
  BY <1>1, <1>2, <1>3, <1>4, <1>5, <1>7, <1>8, <1>9, <1>10, <1>11, <1>12
     DEF Next

\* Every reachable table and log is well typed.
THEOREM TypeCorrect == Spec => []TypeOK
BY InitType, NextType, PTL DEF Spec

(***************************************************************************)
(* The inductive invariant                                                 *)
(***************************************************************************)
LEMMA InitInv == Init => QueueInv
BY QueueAssumption
   DEF Init, QueueInv, Held, Budgeted, OneGrant, Exclusive,
       PendingArchiveRecovery

\* One update of the row and the event of job j: the invariant holds
\* afterwards if the new row and event respect it and the job was not made
\* a second lease of its branch.
LEMMA OneJobInv ==
  ASSUME TypeOK, QueueInv, NEW j \in Job, NEW r, NEW l, NEW n,
         rows' = [rows EXCEPT ![j] = r],
         log' = [log EXCEPT ![j] = l],
         recoveryLeases' = [recoveryLeases EXCEPT ![j] = n],
         Held(r), Budgeted(j, r, l), OneGrant(l, n),
         r.status = "leased" => rows[j].status = "leased"
  PROVE  QueueInv'
<1>1. \A k \in Job : /\ rows'[k] = IF k = j THEN r ELSE rows[k]
                     /\ log'[k] = IF k = j THEN l ELSE log[k]
                     /\ recoveryLeases'[k] =
                          IF k = j THEN n ELSE recoveryLeases[k]
  BY DEF TypeOK
<1>2. \A k \in Job : /\ Held(rows'[k])
                     /\ Budgeted(k, rows'[k], log'[k])
                     /\ OneGrant(log'[k], recoveryLeases'[k])
  BY <1>1 DEF QueueInv
<1>3. Exclusive(rows')
  BY <1>1, QueueAssumption DEF QueueInv, Exclusive
<1>4. QED
  BY <1>2, <1>3 DEF QueueInv

\* The requeue of expired leases keeps every part of the invariant.
LEMMA RequeueInv ==
  ASSUME TypeOK, QueueInv, NEW late, NEW recover
  PROVE  LET rs == RequeuedRows(late, recover)
             lg == RequeuedLog(late, recover)
         IN /\ \A j \in Job : /\ Held(rs[j])
                              /\ Budgeted(j, rs[j], lg[j])
                              /\ OneGrant(lg[j], recoveryLeases[j])
            /\ Exclusive(rs)
<1> DEFINE rs == RequeuedRows(late, recover)
           lg == RequeuedLog(late, recover)
<1>1. ASSUME NEW j \in Job
      PROVE  /\ Held(rs[j])
             /\ Budgeted(j, rs[j], lg[j])
             /\ OneGrant(lg[j], recoveryLeases[j])
             /\ rs[j].status = "leased" => rows[j].status = "leased"
  <2>1. CASE j \notin Expired(late)
    BY <2>1 DEF RequeuedRows, RequeuedLog, QueueInv
  <2>2. CASE j \in Expired(late)
    <3>1. /\ rs[j] = Released(rows[j], RequeuedStatus(j, recover), 0)
          /\ lg[j] = Recorded(log[j], "requeued",
                              IF Granted(j, recover) THEN "grant"
                              ELSE IF LeasedAsArchiveRecovery(log[j])
                                   THEN "exhausted" ELSE "none")
      BY <2>2 DEF RequeuedRows, RequeuedLog
    <3> HIDE DEF rs, lg
    <3>2. /\ rs[j].status = RequeuedStatus(j, recover)
          /\ rs[j].worker = NoRunner
          /\ rs[j].attempts = rows[j].attempts
      BY <3>1 DEF Released, TypeOK, Row
    <3>3. RequeuedStatus(j, recover) \in {"pending", "dead_letter"}
      BY DEF RequeuedStatus
    <3>4. PendingArchiveRecovery(lg[j]) <=> Granted(j, recover)
      BY <3>1, RecordedFields DEF PendingArchiveRecovery
    <3>5. log[j].granted => lg[j].granted
      BY <3>1, RecordedFields
    <3>6. Granted(j, recover) => lg[j].granted /\ ~log[j].granted
      BY <3>1, RecordedFields DEF Granted
    <3>7. OneGrant(log[j], recoveryLeases[j])
      BY DEF QueueInv
    <3>8. OneGrant(lg[j], recoveryLeases[j])
      BY <3>4, <3>5, <3>6, <3>7 DEF OneGrant
    <3>9. Budgeted(j, rs[j], lg[j])
      BY <3>2, <3>4 DEF Budgeted, RequeuedStatus
    <3>10. QED
      BY <3>2, <3>3, <3>8, <3>9 DEF Held
  <2>3. QED
    BY <2>1, <2>2
<1>2. Exclusive(rs)
  BY <1>1, QueueAssumption DEF QueueInv, Exclusive
<1>3. QED
  BY <1>1, <1>2

\* What is still leased after the requeue was leased before it, and counts as
\* running for the call that did the requeue.
LEMMA LeasedRuns ==
  ASSUME TypeOK, NEW late, NEW recover, NEW k \in Job,
         RequeuedRows(late, recover)[k].status = "leased"
  PROVE  /\ Running(RequeuedRows(late, recover), k, late)
         /\ RequeuedRows(late, recover)[k] = rows[k]
<1> DEFINE rs == RequeuedRows(late, recover)
<1>1. k \notin Expired(late)
  <2> SUFFICES ASSUME k \in Expired(late)
               PROVE  FALSE
    OBVIOUS
  <2>1. rs[k] = Released(rows[k], RequeuedStatus(k, recover), 0)
    BY DEF RequeuedRows
  <2>2. rs[k].status = RequeuedStatus(k, recover)
    BY <2>1 DEF Released, TypeOK, Row
  <2>3. QED
    BY <2>2 DEF RequeuedStatus
<1>2. rs[k] = rows[k] /\ rows[k].leaseLeft \in 0 .. LeaseTicks
  BY <1>1 DEF RequeuedRows, TypeOK, Row
<1>3. k \in late \/ rows[k].leaseLeft # 0
  BY <1>1, <1>2 DEF Expired
<1>4. QED
  BY <1>2, <1>3, Ticks DEF Running

\* A serialized job that the loop of lease() accepts finds no other
\* serialized job of its branch leased: after the requeue, every row still
\* leased counts as running for this call.
LEMMA EligibleAlone ==
  ASSUME TypeOK, NEW late, NEW recover, NEW excluded, NEW allowRecovery,
         NEW j \in Serialized,
         j \in Eligible(RequeuedRows(late, recover),
                        RequeuedLog(late, recover), late, Job, excluded,
                        allowRecovery)
  PROVE  \A k \in Serialized :
           BranchOf[k] = BranchOf[j] =>
             RequeuedRows(late, recover)[k].status # "leased"
<1> DEFINE rs == RequeuedRows(late, recover)
<1>1. ~ \E k \in Job : BranchOf[k] = BranchOf[j] /\ Running(rs, k, late)
  BY DEF Eligible, BranchAvailable
<1>2. QED
  BY <1>1, LeasedRuns, QueueAssumption

\* QueueInv is inductive.
LEMMA NextInv == TypeOK /\ QueueInv /\ [Next]_vars => QueueInv'
<1> SUFFICES ASSUME TypeOK, QueueInv, [Next]_vars
             PROVE  QueueInv'
  OBVIOUS
<1>0. \A j \in Job : /\ rows[j] \in Row /\ log[j] \in LogView
                     /\ Held(rows[j])
                     /\ Budgeted(j, rows[j], log[j])
                     /\ OneGrant(log[j], recoveryLeases[j])
                     /\ recoveryLeases =
                          [recoveryLeases EXCEPT ![j] = recoveryLeases[j]]
  BY DEF TypeOK, QueueInv
\* An event without recovery metadata uses no grant and waits for none.
<1>p. ASSUME NEW j \in Job, NEW type \in EventType
      PROVE  OneGrant(Recorded(log[j], type, "none"), recoveryLeases[j])
  BY <1>0 DEF OneGrant, Recorded, PendingArchiveRecovery
<1>r. ASSUME NEW j \in Job, NEW status \in JobStatus, NEW delay \in Int,
             status # "leased"
      PROVE  /\ Held(Released(rows[j], status, delay))
             /\ Released(rows[j], status, delay).status = status
             /\ Released(rows[j], status, delay).attempts = rows[j].attempts
  BY <1>0, <1>r DEF Released, Row, Held
<1>1. ASSUME NEW j \in Job, NEW created \in ClockReading, Enqueue(j, created)
      PROVE  QueueInv'
  <2> DEFINE r == [status |-> "pending", leaseLeft |-> 0, worker |-> NoRunner,
                   wait |-> 0, attempts |-> 0, created |-> created]
             l == Recorded(log[j], "enqueued", "none")
  <2>1. Held(r) /\ Budgeted(j, r, l) /\ r.status # "leased"
    BY QueueAssumption DEF Held, Budgeted
  <2>2. OneGrant(l, recoveryLeases[j])
    BY <1>p DEF EventType
  <2>3. /\ rows' = [rows EXCEPT ![j] = r] /\ log' = [log EXCEPT ![j] = l]
        /\ recoveryLeases' = [recoveryLeases EXCEPT ![j] = recoveryLeases[j]]
    BY <1>0, <1>1 DEF Enqueue
  <2> HIDE DEF r, l
  <2>4. QED
    BY <2>1, <2>2, <2>3, OneJobInv
<1>2. ASSUME NEW late, NEW recover, RequeueExpired(late, recover)
      PROVE  QueueInv'
  BY <1>2, RequeueInv DEF RequeueExpired, QueueInv
<1>3. ASSUME NEW w \in Runner, NEW j \in Job, NEW late, NEW recover,
             NEW excluded, NEW allowRecovery,
             Lease(w, j, late, Job, excluded, recover, allowRecovery)
      PROVE  QueueInv'
  <2> DEFINE rs == RequeuedRows(late, recover)
             lg == RequeuedLog(late, recover)
             used == PendingArchiveRecovery(lg[j])
             r == LeasedTo(rs[j], w)
             l == Recorded(lg[j], "leased", IF used THEN "grant" ELSE "none")
  <2>1. rs \in [Job -> Row] /\ lg \in [Job -> LogView]
    BY RequeueType
  <2>2. /\ rows' = [rs EXCEPT ![j] = r]
        /\ log' = [lg EXCEPT ![j] = l]
        /\ recoveryLeases' = IF used
                             THEN [recoveryLeases EXCEPT ![j] = @ + 1]
                             ELSE recoveryLeases
        /\ j \in Eligible(rs, lg, late, Job, excluded, allowRecovery)
    BY <1>3, <2>1 DEF Lease
  <2>3. /\ \A k \in Job : /\ Held(rs[k])
                          /\ Budgeted(k, rs[k], lg[k])
                          /\ OneGrant(lg[k], recoveryLeases[k])
        /\ Exclusive(rs)
    BY RequeueInv
  <2>4. r.status = "leased" /\ r.worker = w
    BY <2>1 DEF LeasedTo, Row
  <2>5. Held(r) /\ Budgeted(j, r, l)
    BY <2>4, QueueAssumption DEF Held, Budgeted
  <2>6. recoveryLeases'[j] = IF used THEN recoveryLeases[j] + 1
                             ELSE recoveryLeases[j]
    BY <2>2 DEF TypeOK
  <2>7. OneGrant(l, recoveryLeases'[j])
    <3>1. (l.granted <=> lg[j].granted \/ used) /\ l.type = "leased"
      BY RecordedFields
    <3> HIDE DEF l, lg
    <3>2. OneGrant(lg[j], recoveryLeases[j])
      BY <2>3
    <3>3. QED
      BY <2>6, <3>1, <3>2 DEF OneGrant, PendingArchiveRecovery
  <2>8. j \in Serialized => \A k \in Serialized :
          BranchOf[k] = BranchOf[j] => rs[k].status # "leased"
    BY <2>2, EligibleAlone
  <2>9. \A k \in Job : /\ rows'[k] = IF k = j THEN r ELSE rs[k]
                       /\ log'[k] = IF k = j THEN l ELSE lg[k]
                       /\ k # j => recoveryLeases'[k] = recoveryLeases[k]
    <3> HIDE DEF rs, lg, r, l
    <3>1. QED
      BY <2>1, <2>2 DEF TypeOK
  <2> HIDE DEF rs, lg, r, l, used
  <2>10. \A k \in Job : /\ Held(rows'[k])
                        /\ Budgeted(k, rows'[k], log'[k])
                        /\ OneGrant(log'[k], recoveryLeases'[k])
    BY <2>3, <2>5, <2>7, <2>9
  <2>11. Exclusive(rows')
    BY <2>3, <2>8, <2>9, QueueAssumption DEF Exclusive
  <2>12. QED
    BY <2>10, <2>11 DEF QueueInv
<1>4. ASSUME NEW late, NEW recover, NEW excluded, NEW allowRecovery,
             LeaseNothing(late, Job, excluded, recover, allowRecovery)
      PROVE  QueueInv'
  BY <1>2, <1>4 DEF LeaseNothing
<1>5. ASSUME NEW w \in Runner, NEW j \in Job, Heartbeat(w, j)
      PROVE  QueueInv'
  <2> DEFINE r == [rows[j] EXCEPT !.leaseLeft = LeaseTicks]
             l == Recorded(log[j], "heartbeat", "none")
  <2>1. /\ rows' = [rows EXCEPT ![j] = r] /\ log' = [log EXCEPT ![j] = l]
        /\ recoveryLeases' = [recoveryLeases EXCEPT ![j] = recoveryLeases[j]]
    BY <1>0, <1>5 DEF Heartbeat
  <2>2. r.status = rows[j].status /\ r.worker = rows[j].worker
    BY <1>0 DEF Row
  <2>3. rows[j].status = "leased"
    BY <1>5 DEF Heartbeat, Owns
  <2>4. Held(r) /\ Budgeted(j, r, l)
    BY <1>0, <2>2, <2>3 DEF Held, Budgeted
  <2>5. OneGrant(l, recoveryLeases[j])
    BY <1>p DEF EventType
  <2> HIDE DEF r, l
  <2>6. QED
    BY <2>1, <2>3, <2>4, <2>5, OneJobInv
<1>6. ASSUME NEW w \in Runner, NEW j \in Job, Complete(w, j)
      PROVE  QueueInv'
  <2> DEFINE r == Released(rows[j], "completed", 0)
             l == Recorded(log[j], "completed", "none")
  <2>1. /\ rows' = [rows EXCEPT ![j] = r] /\ log' = [log EXCEPT ![j] = l]
        /\ recoveryLeases' = [recoveryLeases EXCEPT ![j] = recoveryLeases[j]]
    BY <1>0, <1>6 DEF Complete
  <2>2. Held(r) /\ r.status = "completed"
    BY <1>r DEF JobStatus
  <2>3. OneGrant(l, recoveryLeases[j])
    BY <1>p DEF EventType
  <2> HIDE DEF r, l
  <2>4. QED
    BY <2>1, <2>2, <2>3, OneJobInv DEF Budgeted
<1>7. ASSUME NEW w \in Runner, NEW j \in Job, NEW retryable \in BOOLEAN,
             Fail(w, j, retryable)
      PROVE  QueueInv'
  <2> DEFINE again == retryable /\ rows[j].attempts < MaxAttempts[j]
             r == IF again
                  THEN Released(rows[j], "pending", Backoff(rows[j].attempts))
                  ELSE Released(rows[j], "dead_letter", 0)
             l == Recorded(log[j], "failed", "none")
  <2>1. /\ rows' = [rows EXCEPT ![j] = r] /\ log' = [log EXCEPT ![j] = l]
        /\ recoveryLeases' = [recoveryLeases EXCEPT ![j] = recoveryLeases[j]]
    BY <1>0, <1>7 DEF Fail
  <2>2. Backoff(rows[j].attempts) \in Int
    BY <1>0, BackoffType, QueueAssumption DEF Row
  <2>3. /\ Held(r)
        /\ r.status = IF again THEN "pending" ELSE "dead_letter"
        /\ r.attempts = rows[j].attempts
    BY <1>r, <2>2 DEF JobStatus
  <2>4. rows[j].attempts \in Nat /\ MaxAttempts[j] \in Nat
    BY <1>0, QueueAssumption DEF Row
  <2>5. Budgeted(j, r, l) /\ r.status # "leased"
    BY <2>3, <2>4 DEF Budgeted
  <2>6. OneGrant(l, recoveryLeases[j])
    BY <1>p DEF EventType
  <2> HIDE DEF r, l
  <2>7. QED
    BY <2>1, <2>3, <2>5, <2>6, OneJobInv
<1>8. ASSUME NEW j \in Job, Cancel(j)
      PROVE  QueueInv'
  <2> DEFINE r == Released(rows[j], "cancelled", 0)
             l == Recorded(log[j], "cancelled", "none")
  <2>1. /\ rows' = [rows EXCEPT ![j] = r] /\ log' = [log EXCEPT ![j] = l]
        /\ recoveryLeases' = [recoveryLeases EXCEPT ![j] = recoveryLeases[j]]
    BY <1>0, <1>8 DEF Cancel
  <2>2. Held(r) /\ r.status = "cancelled"
    BY <1>r DEF JobStatus
  <2>3. OneGrant(l, recoveryLeases[j])
    BY <1>p DEF EventType
  <2> HIDE DEF r, l
  <2>4. QED
    BY <2>1, <2>2, <2>3, OneJobInv DEF Budgeted
<1>9. ASSUME NEW j \in Job, NEW reset \in RetryModes, RetryDeadLetter(j, reset)
      PROVE  QueueInv'
  <2> DEFINE r == Revived(rows[j], reset)
             l == Recorded(log[j], "retried", "none")
  <2>1. /\ rows' = [rows EXCEPT ![j] = r] /\ log' = [log EXCEPT ![j] = l]
        /\ recoveryLeases' = [recoveryLeases EXCEPT ![j] = recoveryLeases[j]]
        /\ rows[j].status = "dead_letter"
    BY <1>0, <1>9 DEF RetryDeadLetter
  <2>2. r.status = "pending" /\ r.worker = rows[j].worker /\ l.type = "retried"
    BY <1>0 DEF Revived, Recorded, Row
  <2>3. Held(r) /\ Budgeted(j, r, l)
    BY <1>0, <2>1, <2>2 DEF Held, Budgeted
  <2>4. OneGrant(l, recoveryLeases[j])
    BY <1>p DEF EventType
  <2> HIDE DEF r, l
  <2>5. QED
    BY <2>1, <2>2, <2>3, <2>4, OneJobInv
<1>10. ASSUME Tick
       PROVE  QueueInv'
  <2>1. \A j \in Job : /\ rows'[j].status = rows[j].status
                       /\ rows'[j].worker = rows[j].worker
                       /\ rows'[j].attempts = rows[j].attempts
    BY <1>0, <1>10 DEF Tick, Later, Row
  <2>2. log' = log /\ recoveryLeases' = recoveryLeases
    BY <1>10 DEF Tick
  <2>3. \A j \in Job : /\ Held(rows'[j])
                       /\ Budgeted(j, rows'[j], log'[j])
                       /\ OneGrant(log'[j], recoveryLeases'[j])
    BY <1>0, <2>1, <2>2 DEF Held, Budgeted
  <2>4. Exclusive(rows')
    BY <2>1, QueueAssumption DEF QueueInv, Exclusive
  <2>5. QED
    BY <2>3, <2>4 DEF QueueInv
<1>11. ASSUME UNCHANGED vars
       PROVE  QueueInv'
  BY <1>11 DEF vars, QueueInv, Exclusive
<1>12. QED
  BY <1>1, <1>2, <1>3, <1>4, <1>5, <1>6, <1>7, <1>8, <1>9, <1>10, <1>11
     DEF Next

\* The invariant the proofs rest on holds in every reachable state.
THEOREM InvariantHolds == Spec => [](TypeOK /\ QueueInv)
BY InitType, InitInv, NextType, NextInv, PTL DEF Spec

\* Two serialized jobs of a branch are never leased together.
THEOREM SerializedBranches == Spec => []BranchSerialized
<1>1. QueueInv => BranchSerialized
  BY DEF QueueInv, BranchSerialized
<1>2. QED
  BY <1>1, InvariantHolds, PTL

\* No job is ever given a second recovery lease.
THEOREM OneRecoveryLease == Spec => []SingleRecovery
<1>1. QueueInv => SingleRecovery
  BY DEF QueueInv, OneGrant, SingleRecovery
<1>2. QED
  BY <1>1, InvariantHolds, PTL

(***************************************************************************)
(* The events and the projection that folds them                           *)
(***************************************************************************)
\* The statuses the projection accepts, event by event.
LEMMA StatusesOf ==
  /\ EventStatuses["enqueued"] = {"pending"}
  /\ EventStatuses["leased"] = {"leased"}
  /\ EventStatuses["heartbeat"] = {"leased"}
  /\ EventStatuses["completed"] = {"completed"}
  /\ EventStatuses["failed"] = {"pending", "dead_letter"}
  /\ EventStatuses["cancelled"] = {"cancelled"}
  /\ EventStatuses["requeued"] = {"pending", "dead_letter"}
  /\ EventStatuses["retried"] = {"pending"}
  /\ EventStatuses["none"] = {"absent"}
BY DEF EventStatuses

\* One update of the row and the event of job j.
LEMMA OneJobAccepted ==
  ASSUME TypeOK, ProjectionAccepts, NEW j \in Job, NEW r, NEW type, NEW mark,
         rows' = [rows EXCEPT ![j] = r],
         log' = [log EXCEPT ![j] = Recorded(log[j], type, mark)],
         r.status \in EventStatuses[type]
  PROVE  ProjectionAccepts'
<1> SUFFICES ASSUME NEW k \in Job
             PROVE  rows'[k].status \in EventStatuses[log'[k].type]
  BY DEF ProjectionAccepts
<1>1. CASE k = j
  <2>1. rows'[k] = r /\ log'[k] = Recorded(log[j], type, mark)
    BY <1>1 DEF TypeOK
  <2>2. QED
    BY <2>1, RecordedFields
<1>2. CASE k # j
  <2>1. rows'[k] = rows[k] /\ log'[k] = log[k]
    BY <1>2 DEF TypeOK
  <2>2. QED
    BY <2>1 DEF ProjectionAccepts
<1>3. QED
  BY <1>1, <1>2

\* The requeue writes statuses that go with its event.
LEMMA RequeueAccepted ==
  ASSUME TypeOK, ProjectionAccepts, NEW late, NEW recover, NEW k \in Job
  PROVE  RequeuedRows(late, recover)[k].status
           \in EventStatuses[RequeuedLog(late, recover)[k].type]
<1>1. CASE k \in Expired(late)
  <2>0. RequeuedRows(late, recover)[k] =
          Released(rows[k], RequeuedStatus(k, recover), 0)
    BY <1>1 DEF RequeuedRows
  <2>1. /\ RequeuedRows(late, recover)[k].status = RequeuedStatus(k, recover)
        /\ RequeuedLog(late, recover)[k].type = "requeued"
    BY <1>1, <2>0, RecordedFields DEF RequeuedLog, Released, TypeOK, Row
  <2>2. RequeuedStatus(k, recover) \in {"pending", "dead_letter"}
    BY DEF RequeuedStatus
  <2>3. QED
    BY <2>1, <2>2, StatusesOf
<1>2. CASE k \notin Expired(late)
  BY <1>2 DEF RequeuedRows, RequeuedLog, ProjectionAccepts
<1>3. QED
  BY <1>1, <1>2

\* Every step appends events that the projection accepts.
LEMMA NextAccepted ==
  TypeOK /\ ProjectionAccepts /\ [Next]_vars => ProjectionAccepts'
<1> SUFFICES ASSUME TypeOK, ProjectionAccepts, [Next]_vars
             PROVE  ProjectionAccepts'
  OBVIOUS
<1>0. \A j \in Job : rows[j] \in Row
  BY DEF TypeOK
<1>r. \A j \in Job : \A status, delay :
        Released(rows[j], status, delay).status = status
  BY <1>0 DEF Released, Row
<1>1. ASSUME NEW j \in Job, NEW created \in ClockReading, Enqueue(j, created)
      PROVE  ProjectionAccepts'
  BY <1>1, OneJobAccepted, StatusesOf DEF Enqueue
<1>2. ASSUME NEW late, NEW recover, RequeueExpired(late, recover)
      PROVE  ProjectionAccepts'
  BY <1>2, RequeueAccepted DEF RequeueExpired, ProjectionAccepts
<1>3. ASSUME NEW w \in Runner, NEW j \in Job, NEW late, NEW recover,
             NEW excluded, NEW allowRecovery,
             Lease(w, j, late, Job, excluded, recover, allowRecovery)
      PROVE  ProjectionAccepts'
  <2> DEFINE rs == RequeuedRows(late, recover)
             lg == RequeuedLog(late, recover)
  <2>1. rs \in [Job -> Row] /\ lg \in [Job -> LogView]
    BY RequeueType
  <2>2. PICK mark \in {"none", "grant"} :
          /\ rows' = [rs EXCEPT ![j] = LeasedTo(rs[j], w)]
          /\ log' = [lg EXCEPT ![j] = Recorded(lg[j], "leased", mark)]
    BY <1>3, <2>1 DEF Lease
  <2>3. \A k \in Job : rs[k].status \in EventStatuses[lg[k].type]
    BY RequeueAccepted
  <2> HIDE DEF rs, lg
  <2>4. LeasedTo(rs[j], w).status = "leased"
    BY <2>1 DEF LeasedTo, Row
  <2> SUFFICES ASSUME NEW k \in Job
               PROVE  rows'[k].status \in EventStatuses[log'[k].type]
    BY DEF ProjectionAccepts
  <2>5. CASE k = j
    <3>1. rows'[k].status = "leased" /\ log'[k].type = "leased"
      BY <2>1, <2>2, <2>4, <2>5, RecordedFields
    <3>2. QED
      BY <3>1, StatusesOf
  <2>6. CASE k # j
    BY <2>1, <2>2, <2>3, <2>6
  <2>7. QED
    BY <2>5, <2>6
<1>4. ASSUME NEW w \in Runner, NEW j \in Job, Heartbeat(w, j)
      PROVE  ProjectionAccepts'
  <2>1. rows' = [rows EXCEPT ![j] = [rows[j] EXCEPT !.leaseLeft = LeaseTicks]]
    BY <1>4 DEF Heartbeat, TypeOK
  <2>2. [rows[j] EXCEPT !.leaseLeft = LeaseTicks].status = "leased"
    BY <1>0, <1>4 DEF Heartbeat, Owns, Row
  <2>3. QED
    BY <1>4, <2>1, <2>2, OneJobAccepted, StatusesOf DEF Heartbeat
<1>5. ASSUME NEW w \in Runner, NEW j \in Job, Complete(w, j)
      PROVE  ProjectionAccepts'
  <2>1. /\ rows' = [rows EXCEPT ![j] = Released(rows[j], "completed", 0)]
        /\ log' = [log EXCEPT ![j] = Recorded(log[j], "completed", "none")]
    BY <1>5 DEF Complete, TypeOK
  <2>2. Released(rows[j], "completed", 0).status \in EventStatuses["completed"]
    BY <1>r, StatusesOf
  <2>3. QED
    BY <2>1, <2>2, OneJobAccepted
<1>6. ASSUME NEW w \in Runner, NEW j \in Job, NEW retryable \in BOOLEAN,
             Fail(w, j, retryable)
      PROVE  ProjectionAccepts'
  <2>1. PICK status \in {"pending", "dead_letter"} : \E delay :
          rows' = [rows EXCEPT ![j] = Released(rows[j], status, delay)]
    BY <1>6 DEF Fail, TypeOK
  <2>2. PICK delay :
          rows' = [rows EXCEPT ![j] = Released(rows[j], status, delay)]
    BY <2>1
  <2>3. log' = [log EXCEPT ![j] = Recorded(log[j], "failed", "none")]
    BY <1>6 DEF Fail, TypeOK
  <2>4. Released(rows[j], status, delay).status \in EventStatuses["failed"]
    BY <1>r, StatusesOf
  <2>5. QED
    BY <2>2, <2>3, <2>4, OneJobAccepted
<1>7. ASSUME NEW j \in Job, Cancel(j)
      PROVE  ProjectionAccepts'
  <2>1. /\ rows' = [rows EXCEPT ![j] = Released(rows[j], "cancelled", 0)]
        /\ log' = [log EXCEPT ![j] = Recorded(log[j], "cancelled", "none")]
    BY <1>7 DEF Cancel, TypeOK
  <2>2. Released(rows[j], "cancelled", 0).status \in EventStatuses["cancelled"]
    BY <1>r, StatusesOf
  <2>3. QED
    BY <2>1, <2>2, OneJobAccepted
<1>8. ASSUME NEW j \in Job, NEW reset \in RetryModes, RetryDeadLetter(j, reset)
      PROVE  ProjectionAccepts'
  <2>1. Revived(rows[j], reset).status = "pending"
    BY <1>0 DEF Revived, Row
  <2>2. QED
    BY <1>8, <2>1, OneJobAccepted, StatusesOf DEF RetryDeadLetter
<1>9. ASSUME Tick
      PROVE  ProjectionAccepts'
  <2>1. \A j \in Job : rows'[j].status = rows[j].status
    BY <1>0, <1>9 DEF Tick, Later, Row
  <2>2. QED
    BY <1>9, <2>1 DEF Tick, ProjectionAccepts
<1>10. ASSUME UNCHANGED vars
       PROVE  ProjectionAccepts'
  BY <1>10 DEF vars, ProjectionAccepts
<1>11. QED
  BY <1>1, <1>2, <1>3, <1>4, <1>5, <1>6, <1>7, <1>8, <1>9, <1>10
     DEF Next, LeaseNothing

\* No operation of the queue is refused by the projection of its own event.
THEOREM EventsAccepted == Spec => []ProjectionAccepts
<1>1. Init => ProjectionAccepts
  BY StatusesOf DEF Init, ProjectionAccepts
<1>2. QED
  BY <1>1, NextAccepted, TypeCorrect, PTL DEF Spec

(***************************************************************************)
(* The retry budget                                                        *)
(***************************************************************************)
\* Only a lease raises a job's attempts.
LEMMA OnlyLeaseCounts ==
  ASSUME TypeOK, NEW j \in Job, Next, rows'[j].attempts > rows[j].attempts
  PROVE  \E w \in Runner : \E late, recover, excluded, allowRecovery :
           Lease(w, j, late, Job, excluded, recover, allowRecovery)
<1>0. /\ \A k \in Job : rows[k] \in Row /\ rows[k].attempts \in Nat
      /\ rows \in [Job -> Row]
  BY DEF TypeOK, Row
<1>1. \A late, recover : RequeuedRows(late, recover)[j].attempts
                           = rows[j].attempts
  BY <1>0 DEF RequeuedRows, Released, Row
<1>2. ASSUME NEW late, NEW recover, RequeueExpired(late, recover)
      PROVE  FALSE
  BY <1>0, <1>1, <1>2 DEF RequeueExpired
<1>3. ASSUME NEW k \in Job, NEW r, rows' = [rows EXCEPT ![k] = r],
             r.attempts = rows[k].attempts \/ r.attempts = 0
      PROVE  FALSE
  BY <1>0, <1>3
<1>4. ~Tick /\ \A k \in Job, created \in ClockReading : ~Enqueue(k, created)
  <2>1. ~Tick
    <3>1. \A r \in Row : Later(r).attempts = r.attempts
      BY DEF Later, Row
    <3>2. QED
      BY <1>0, <3>1 DEF Tick
  <2>2. ASSUME NEW k \in Job, NEW created \in ClockReading, Enqueue(k, created)
        PROVE  FALSE
    BY <1>3, <2>2 DEF Enqueue
  <2>3. QED
    BY <2>1, <2>2
<1>5. /\ \A w \in Runner, k \in Job : ~Heartbeat(w, k) /\ ~Complete(w, k)
      /\ \A k \in Job : ~Cancel(k)
  <2>1. ASSUME NEW w \in Runner, NEW k \in Job, Heartbeat(w, k)
        PROVE  FALSE
    <3>1. rows' = [rows EXCEPT ![k] = [rows[k] EXCEPT !.leaseLeft = LeaseTicks]]
      BY <1>0, <2>1 DEF Heartbeat
    <3>2. [rows[k] EXCEPT !.leaseLeft = LeaseTicks].attempts = rows[k].attempts
      BY <1>0 DEF Row
    <3>3. QED
      BY <1>3, <3>1, <3>2
  <2>2. \A k \in Job : \A status, delay :
          Released(rows[k], status, delay).attempts = rows[k].attempts
    BY <1>0 DEF Released, Row
  <2>3. ASSUME NEW w \in Runner, NEW k \in Job, Complete(w, k)
        PROVE  FALSE
    BY <1>3, <2>2, <2>3 DEF Complete
  <2>4. ASSUME NEW k \in Job, Cancel(k)
        PROVE  FALSE
    BY <1>3, <2>2, <2>4 DEF Cancel
  <2>5. QED
    BY <2>1, <2>3, <2>4
<1>6. \A w \in Runner, k \in Job, retryable \in BOOLEAN : ~Fail(w, k, retryable)
  <2> SUFFICES ASSUME NEW w \in Runner, NEW k \in Job, NEW retryable \in BOOLEAN,
                      Fail(w, k, retryable)
               PROVE  FALSE
    OBVIOUS
  <2>1. PICK status, delay :
          rows' = [rows EXCEPT ![k] = Released(rows[k], status, delay)]
    BY DEF Fail
  <2>2. Released(rows[k], status, delay).attempts = rows[k].attempts
    BY <1>0 DEF Released, Row
  <2>3. QED
    BY <1>3, <2>1, <2>2
<1>7. \A k \in Job, reset \in RetryModes : ~RetryDeadLetter(k, reset)
  <2> SUFFICES ASSUME NEW k \in Job, NEW reset \in RetryModes,
                      RetryDeadLetter(k, reset)
               PROVE  FALSE
    OBVIOUS
  <2>1. rows' = [rows EXCEPT ![k] = Revived(rows[k], reset)]
    BY DEF RetryDeadLetter
  <2>2. Revived(rows[k], reset).attempts = rows[k].attempts
          \/ Revived(rows[k], reset).attempts = 0
    BY <1>0 DEF Revived, Row
  <2>3. QED
    BY <1>3, <2>1, <2>2
<1>8. PICK w \in Runner, k \in Job, late \in SUBSET Expired({}),
             recover \in SUBSET Expired({}), excluded \in SUBSET Branch,
             allowRecovery \in BOOLEAN :
        Lease(w, k, late, Job, excluded, recover, allowRecovery)
  <2>1. \A late, recover, excluded, allowRecovery :
          ~LeaseNothing(late, Job, excluded, recover, allowRecovery)
    BY <1>2 DEF LeaseNothing
  <2>2. \E w \in Runner, k \in Job, late \in SUBSET Expired({}),
           recover \in SUBSET Expired({}), excluded \in SUBSET Branch,
           allowRecovery \in BOOLEAN :
          Lease(w, k, late, Job, excluded, recover, allowRecovery)
    <3>1. \A late, recover : ~RequeueExpired(late, recover)
      BY <1>2
    <3>2. CASE \E w \in Runner, k \in Job :
                 \/ Heartbeat(w, k)
                 \/ Complete(w, k)
                 \/ \E retryable \in BOOLEAN : Fail(w, k, retryable)
      BY <1>5, <1>6, <3>2, Zenon
    <3>3. CASE \E late \in SUBSET Expired({}), recover \in SUBSET Expired({}),
                  excluded \in SUBSET Branch, allowRecovery \in BOOLEAN :
                 LeaseNothing(late, Job, excluded, recover, allowRecovery)
      BY <2>1, <3>3, Zenon
    <3>4. CASE \E k \in Job, reset \in RetryModes : RetryDeadLetter(k, reset)
      BY <1>7, <3>4, Zenon
    <3>5. CASE \E k \in Job : Cancel(k)
      BY <1>5, <3>5, Zenon
    <3>6. QED
      BY <1>4, <3>1, <3>2, <3>3, <3>4, <3>5, Zenon DEF Next
  <2>3. QED
    BY <2>2, Zenon
<1>9. CASE k # j
  <2>1. rows'[j] = RequeuedRows(late, recover)[j]
    BY <1>8, <1>9 DEF Lease, RequeuedRows
  <2>2. QED
    BY <1>0, <1>1, <2>1
<1>10. QED
  BY <1>8, <1>9

\* No worker is handed a job beyond its retry budget except by the job's one
\* recovery lease or after an operator's retry.
THEOREM RetryBudget == Spec => BudgetRespected
<1> DEFINE Respected ==
             \A j \in Job :
               (/\ rows[j].attempts >= MaxAttempts[j]
                /\ rows'[j].attempts > rows[j].attempts)
               => \/ recoveryLeases'[j] = recoveryLeases[j] + 1
                  \/ log[j].type = "retried"
<1>1. ASSUME TypeOK, QueueInv, Next
      PROVE  Respected
  <2> SUFFICES ASSUME NEW j \in Job,
                      rows[j].attempts >= MaxAttempts[j],
                      rows'[j].attempts > rows[j].attempts,
                      log[j].type # "retried"
               PROVE  recoveryLeases'[j] = recoveryLeases[j] + 1
    OBVIOUS
  <2>0. PICK w \in Runner :
          \E late, recover, excluded, allowRecovery :
            Lease(w, j, late, Job, excluded, recover, allowRecovery)
    BY <1>1, OnlyLeaseCounts
  <2>1. PICK late, recover, excluded, allowRecovery :
          Lease(w, j, late, Job, excluded, recover, allowRecovery)
    BY <2>0
  <2> DEFINE rs == RequeuedRows(late, recover)
             lg == RequeuedLog(late, recover)
  <2>2. rs[j].status = "pending"
    BY <2>1 DEF Lease, Eligible
  <2>3. rs[j].attempts = rows[j].attempts
    BY <1>1 DEF RequeuedRows, Released, TypeOK, Row
  <2>4. Budgeted(j, rs[j], lg[j])
    BY <1>1, RequeueInv
  <2>5. lg[j].type # "retried"
    BY RecordedFields DEF RequeuedLog
  <2>6. PendingArchiveRecovery(lg[j])
    BY <2>2, <2>3, <2>4, <2>5 DEF Budgeted
  <2>7. recoveryLeases' = [recoveryLeases EXCEPT ![j] = @ + 1]
    BY <2>1, <2>6 DEF Lease
  <2>8. QED
    BY <1>1, <2>7 DEF TypeOK
<1>2. TypeOK /\ QueueInv /\ [Next]_vars => [Respected]_vars
  BY <1>1
<1>3. QED
  BY <1>2, InvariantHolds, PTL DEF Spec, BudgetRespected

(***************************************************************************)
(* Settled jobs                                                            *)
(***************************************************************************)
\* No deadline runs for a row that is not leased.
DeadlinesCleared ==
  \A k \in Job : rows[k].status # "leased" => rows[k].leaseLeft = 0

\* What SettledStays allows one step to do to job k.
RowStays(k) ==
  /\ rows[k].status \in {"completed", "cancelled"} => rows'[k] = rows[k]
  /\ rows[k].status = "dead_letter" =>
       rows'[k].status = "dead_letter" \/ log'[k].type = "retried"

\* A released row has the given status and no deadline.
LEMMA ReleasedFields ==
  ASSUME NEW r \in Row, NEW status, NEW delay
  PROVE  /\ Released(r, status, delay).status = status
         /\ Released(r, status, delay).leaseLeft = 0
BY DEF Released, Row

\* The update of one row that was not settled, or was dead and is retried,
\* to a row without a running deadline.
LEMMA OneJobStays ==
  ASSUME TypeOK, DeadlinesCleared, NEW j \in Job, NEW r,
         rows' = [rows EXCEPT ![j] = r],
         r.status # "leased" => r.leaseLeft = 0,
         rows[j].status \notin {"completed", "cancelled"},
         rows[j].status = "dead_letter" => log'[j].type = "retried"
  PROVE  DeadlinesCleared' /\ \A k \in Job : RowStays(k)
<1>1. /\ rows'[j] = r
      /\ \A k \in Job \ {j} : rows'[k] = rows[k]
  BY DEF TypeOK
<1>2. DeadlinesCleared'
  BY <1>1 DEF DeadlinesCleared
<1>3. ASSUME NEW k \in Job
      PROVE  RowStays(k)
  BY <1>1 DEF RowStays
<1>4. QED
  BY <1>2, <1>3

\* The requeue touches expired leases only, and ends their deadlines.
LEMMA RequeueStays ==
  ASSUME TypeOK, DeadlinesCleared, NEW late, NEW recover, NEW k \in Job
  PROVE  /\ RequeuedRows(late, recover)[k].status # "leased"
              => RequeuedRows(late, recover)[k].leaseLeft = 0
         /\ rows[k].status # "leased"
              => RequeuedRows(late, recover)[k] = rows[k]
<1> DEFINE rs == RequeuedRows(late, recover)
<1>1. CASE k \in Expired(late)
  <2>1. rs[k] = Released(rows[k], RequeuedStatus(k, recover), 0)
    BY <1>1 DEF RequeuedRows
  <2>2. rows[k] \in Row /\ rows[k].status = "leased"
    BY <1>1 DEF TypeOK, Expired
  <2>3. rs[k].leaseLeft = 0
    BY <2>1, <2>2, ReleasedFields
  <2>4. QED
    BY <2>2, <2>3
<1>2. CASE k \notin Expired(late)
  BY <1>2 DEF RequeuedRows, DeadlinesCleared
<1>3. QED
  BY <1>1, <1>2

\* No step touches a completed or cancelled row, and only the operator's retry
\* revives a dead letter.
LEMMA NextStays ==
  ASSUME TypeOK, DeadlinesCleared, Next
  PROVE  DeadlinesCleared' /\ \A k \in Job : RowStays(k)
<1> DEFINE Goal == DeadlinesCleared' /\ \A k \in Job : RowStays(k)
<1>0. \A k \in Job : rows[k] \in Row
  BY DEF TypeOK
<1>l. DOMAIN log = Job
  BY DEF TypeOK
<1>1. ASSUME NEW j \in Job, NEW created \in ClockReading, Enqueue(j, created)
      PROVE  Goal
  <2>1. PICK r :
          /\ r = [status |-> "pending", leaseLeft |-> 0, worker |-> NoRunner,
                  wait |-> 0, attempts |-> 0, created |-> created]
          /\ rows' = [rows EXCEPT ![j] = r]
    BY <1>1, Zenon DEF Enqueue
  <2>2. rows[j].status = "absent"
    BY <1>1 DEF Enqueue
  <2>3. QED
    <3>1. r.leaseLeft = 0
      BY <2>1
    <3>2. rows' = [rows EXCEPT ![j] = r]
      BY <2>1
    <3>3. QED
      BY <2>2, <3>1, <3>2, OneJobStays
<1>2. ASSUME NEW late, NEW recover, RequeueExpired(late, recover)
      PROVE  Goal
  <2>1. rows' = RequeuedRows(late, recover)
    BY <1>2 DEF RequeueExpired
  <2>2. DeadlinesCleared'
    BY <2>1, RequeueStays DEF DeadlinesCleared
  <2>3. ASSUME NEW k \in Job
        PROVE  RowStays(k)
    BY <2>1, RequeueStays DEF RowStays
  <2>4. QED
    BY <2>2, <2>3
<1>3. ASSUME NEW w \in Runner, NEW j \in Job, NEW late, NEW recover,
             NEW excluded, NEW allowRecovery,
             Lease(w, j, late, Job, excluded, recover, allowRecovery)
      PROVE  Goal
  <2> DEFINE rs == RequeuedRows(late, recover)
  <2>1. /\ rows' = [rs EXCEPT ![j] = LeasedTo(rs[j], w)]
        /\ rs[j].status = "pending"
    BY <1>3 DEF Lease, Eligible
  <2>2. rs[j] \in Row /\ DOMAIN rs = Job
    BY RequeueType DEF RequeuedRows
  <2>3. LeasedTo(rs[j], w).status = "leased"
    BY <2>2 DEF LeasedTo, Row
  <2>4. /\ rows'[j].status = "leased"
        /\ \A k \in Job \ {j} : rows'[k] = rs[k]
    BY <2>1, <2>2, <2>3
  <2>5. DeadlinesCleared'
    BY <2>4, RequeueStays DEF DeadlinesCleared
  <2>6. rows[j].status \in {"pending", "leased"}
    BY <2>1, RequeueStays
  <2>7. ASSUME NEW k \in Job
        PROVE  RowStays(k)
    BY <2>4, <2>6, RequeueStays DEF RowStays
  <2>8. QED
    BY <2>5, <2>7
<1>4. ASSUME NEW w \in Runner, NEW j \in Job, Heartbeat(w, j)
      PROVE  Goal
  <2>1. PICK r : r = [rows[j] EXCEPT !.leaseLeft = LeaseTicks]
    OBVIOUS
  <2>2. rows[j].status = "leased" /\ rows' = [rows EXCEPT ![j] = r]
    BY <1>4, <2>1 DEF Heartbeat, Owns
  <2>3. r.status = "leased"
    BY <1>0, <2>1, <2>2 DEF Row
  <2>4. QED
    BY <2>2, <2>3, OneJobStays
<1>5. ASSUME NEW w \in Runner, NEW j \in Job, Complete(w, j)
      PROVE  Goal
  <2>1. PICK r : r = Released(rows[j], "completed", 0)
    OBVIOUS
  <2>2. rows[j].status = "leased" /\ rows' = [rows EXCEPT ![j] = r]
    BY <1>5, <2>1 DEF Complete, Owns
  <2>3. r.leaseLeft = 0
    BY <1>0, <2>1, ReleasedFields
  <2>4. QED
    BY <2>2, <2>3, OneJobStays
<1>6. ASSUME NEW w \in Runner, NEW j \in Job, NEW retryable \in BOOLEAN,
             Fail(w, j, retryable)
      PROVE  Goal
  <2>1. PICK status, delay :
          rows' = [rows EXCEPT ![j] = Released(rows[j], status, delay)]
    <3>1. CASE retryable /\ rows[j].attempts < MaxAttempts[j]
      BY <1>6, <3>1 DEF Fail
    <3>2. CASE ~(retryable /\ rows[j].attempts < MaxAttempts[j])
      BY <1>6, <3>2 DEF Fail
    <3>3. QED
      BY <3>1, <3>2
  <2>2. PICK r : r = Released(rows[j], status, delay)
    OBVIOUS
  <2>3. r.leaseLeft = 0 /\ rows' = [rows EXCEPT ![j] = r]
    BY <1>0, <2>1, <2>2, ReleasedFields
  <2>4. rows[j].status = "leased"
    BY <1>6 DEF Fail, Owns
  <2>5. QED
    BY <2>3, <2>4, OneJobStays
<1>7. ASSUME NEW j \in Job, Cancel(j)
      PROVE  Goal
  <2>1. PICK r : r = Released(rows[j], "cancelled", 0)
    OBVIOUS
  <2>2. /\ rows[j].status \in {"pending", "leased"}
        /\ rows' = [rows EXCEPT ![j] = r]
    BY <1>7, <2>1 DEF Cancel
  <2>3. r.leaseLeft = 0
    BY <1>0, <2>1, ReleasedFields
  <2>4. QED
    BY <2>2, <2>3, OneJobStays
<1>8. ASSUME NEW j \in Job, NEW reset \in RetryModes, RetryDeadLetter(j, reset)
      PROVE  Goal
  <2>1. PICK r : r = Revived(rows[j], reset)
    OBVIOUS
  <2>2. /\ rows[j].status = "dead_letter"
        /\ rows' = [rows EXCEPT ![j] = r]
        /\ log' = [log EXCEPT ![j] = Recorded(log[j], "retried", "none")]
    BY <1>8, <2>1 DEF RetryDeadLetter
  <2>3. log'[j].type = "retried"
    BY <1>l, <2>2, RecordedFields
  <2>4. r.leaseLeft = rows[j].leaseLeft
    BY <1>0, <2>1 DEF Revived, Row
  <2>5. r.leaseLeft = 0
    BY <2>2, <2>4 DEF DeadlinesCleared
  <2>6. QED
    BY <2>2, <2>3, <2>5, OneJobStays
<1>9. ASSUME Tick
      PROVE  Goal
  <2>1. ASSUME NEW k \in Job
        PROVE  /\ rows'[k].status = rows[k].status
               /\ rows[k].status # "leased" => rows'[k].leaseLeft = 0
               /\ rows[k].status \in {"completed", "cancelled"}
                    => rows'[k] = rows[k]
    <3>1. rows'[k] = Later(rows[k])
      BY <1>9 DEF Tick
    <3>2. Later(rows[k]).status = rows[k].status
      BY <1>0 DEF Later, Row
    <3>3. ASSUME rows[k].leaseLeft = 0
          PROVE  Later(rows[k]).leaseLeft = 0
      BY <1>0, <3>3 DEF Later, Row
    <3>4. ASSUME rows[k].leaseLeft = 0, rows[k].status # "pending"
          PROVE  Later(rows[k]) = rows[k]
      <4>1. /\ rows[k] \in Row
            /\ Later(rows[k]) =
                 [rows[k] EXCEPT !.leaseLeft = rows[k].leaseLeft,
                                 !.wait = rows[k].wait]
        BY <1>0, <3>4 DEF Later
      <4>2. QED
        BY <4>1 DEF Row
    <3>5. rows[k].status # "leased" => rows[k].leaseLeft = 0
      BY DEF DeadlinesCleared
    <3>6. QED
      BY <3>1, <3>2, <3>3, <3>4, <3>5
  <2>2. DeadlinesCleared'
    BY <2>1 DEF DeadlinesCleared
  <2>3. ASSUME NEW k \in Job
        PROVE  RowStays(k)
    BY <2>1 DEF RowStays
  <2>4. QED
    BY <2>2, <2>3
<1>10. QED
  BY <1>1, <1>2, <1>3, <1>4, <1>5, <1>6, <1>7, <1>8, <1>9 DEF Next, LeaseNothing

\* A settled job stays settled, through any sequence of calls, late answers
\* and expiries; only an operator's retry revives a dead letter.
THEOREM SettledForGood == Spec => SettledStays
<1> DEFINE Settled ==
             \A j \in Job :
               /\ rows[j].status \in {"completed", "cancelled"} =>
                    rows'[j] = rows[j]
               /\ rows[j].status = "dead_letter" =>
                    rows'[j].status = "dead_letter" \/ log'[j].type = "retried"
<1>1. Init => DeadlinesCleared
  BY DEF Init, DeadlinesCleared
<1>2. TypeOK /\ DeadlinesCleared /\ [Next]_vars => DeadlinesCleared'
  <2>1. CASE Next
    BY <2>1, NextStays
  <2>2. CASE UNCHANGED vars
    BY <2>2 DEF vars, DeadlinesCleared
  <2>3. QED
    BY <2>1, <2>2
<1>3. TypeOK /\ DeadlinesCleared /\ [Next]_vars => [Settled]_vars
  <2>1. ASSUME TypeOK, DeadlinesCleared, Next
        PROVE  Settled
    <3>1. \A k \in Job : RowStays(k)
      BY <2>1, NextStays
    <3>2. QED
      BY <3>1 DEF RowStays
  <2>2. QED
    BY <2>1
<1>4. QED
  BY <1>1, <1>2, <1>3, TypeCorrect, PTL DEF Spec, SettledStays

(***************************************************************************)
(* Provider limits                                                         *)
(***************************************************************************)
\* A step other than a lease leases nothing.
LEMMA OnlyLeaseLeases ==
  ASSUME TypeOK, [Next]_vars
  PROVE  \/ \A k \in Job : rows'[k].status = "leased" => rows[k].status = "leased"
         \/ \E w \in Runner, j \in Job : \E late, recover, excluded, allowRecovery :
              Lease(w, j, late, Job, excluded, recover, allowRecovery)
<1> DEFINE Kept == \A k \in Job : rows'[k].status = "leased"
                                   => rows[k].status = "leased"
<1>0. \A k \in Job : rows[k] \in Row
  BY DEF TypeOK
<1>d. DOMAIN rows = Job
  BY DEF TypeOK
<1>1. ASSUME NEW k \in Job, NEW r, rows' = [rows EXCEPT ![k] = r],
             r.status # "leased" \/ r.status = rows[k].status
      PROVE  Kept
  BY <1>d, <1>1
<1>r. ASSUME NEW k \in Job, NEW status, NEW delay
      PROVE  Released(rows[k], status, delay).status = status
  BY <1>0 DEF Released, Row
<1>2. ASSUME NEW k \in Job, NEW created \in ClockReading, Enqueue(k, created)
      PROVE  Kept
  BY <1>1, <1>2 DEF Enqueue
<1>3. ASSUME NEW late, NEW recover, RequeueExpired(late, recover)
      PROVE  Kept
  BY <1>3, LeasedRuns DEF RequeueExpired
<1>4. ASSUME NEW w \in Runner, NEW k \in Job, Heartbeat(w, k)
      PROVE  Kept
  BY <1>d, <1>4 DEF Heartbeat, Owns
<1>5. ASSUME NEW w \in Runner, NEW k \in Job, Complete(w, k)
      PROVE  Kept
  BY <1>1, <1>5, <1>r DEF Complete
<1>6. ASSUME NEW w \in Runner, NEW k \in Job, NEW retryable \in BOOLEAN,
             Fail(w, k, retryable)
      PROVE  Kept
  <2>1. CASE retryable /\ rows[k].attempts < MaxAttempts[k]
    <3>1. rows' = [rows EXCEPT ![k] = Released(rows[k], "pending",
                                               Backoff(rows[k].attempts))]
      BY <1>6, <2>1 DEF Fail
    <3>2. QED
      BY <1>1, <1>r, <3>1
  <2>2. CASE ~(retryable /\ rows[k].attempts < MaxAttempts[k])
    <3>1. rows' = [rows EXCEPT ![k] = Released(rows[k], "dead_letter", 0)]
      BY <1>6, <2>2 DEF Fail
    <3>2. QED
      BY <1>1, <1>r, <3>1
  <2>3. QED
    BY <2>1, <2>2
<1>7. ASSUME NEW k \in Job, Cancel(k)
      PROVE  Kept
  BY <1>1, <1>7, <1>r DEF Cancel
<1>8. ASSUME NEW k \in Job, NEW reset \in RetryModes, RetryDeadLetter(k, reset)
      PROVE  Kept
  <2>1. Revived(rows[k], reset).status = "pending"
    BY <1>0 DEF Revived, Row
  <2>2. QED
    BY <1>1, <1>8, <2>1 DEF RetryDeadLetter
<1>9. ASSUME Tick
      PROVE  Kept
  <2>1. \A k \in Job : Later(rows[k]).status = rows[k].status
    BY <1>0 DEF Later, Row
  <2>2. QED
    BY <1>9, <2>1 DEF Tick
<1>10. ASSUME UNCHANGED vars
       PROVE  Kept
  BY <1>10 DEF vars
<1>11. QED
  BY <1>2, <1>3, <1>4, <1>5, <1>6, <1>7, <1>8, <1>9, <1>10 DEF Next, LeaseNothing

\* A lease keeps its provider within the limit.
LEMMA LimitKept ==
  ASSUME TypeOK, [Next]_vars, ProviderWithinLimit
  PROVE  ProviderWithinLimit'
<1> SUFFICES ASSUME NEW p \in DOMAIN ProviderLimit
             PROVE  Cardinality(LeasedOf(p)') <= ProviderLimit[p]
  BY DEF ProviderWithinLimit
<1>0. /\ IsFiniteSet(LeasedOf(p)) /\ Cardinality(LeasedOf(p)) \in Nat
      /\ Cardinality(LeasedOf(p)) <= ProviderLimit[p]
      /\ ProviderLimit[p] \in Nat
  <2>1. LeasedOf(p) \in SUBSET Job /\ IsFiniteSet(Job)
    BY QueueAssumption DEF LeasedOf
  <2>2. IsFiniteSet(LeasedOf(p))
    BY <2>1, FS_Subset
  <2>3. QED
    BY <2>2, FS_CardinalityType, QueueAssumption DEF ProviderWithinLimit
<1>1. CASE \A k \in Job : rows'[k].status = "leased" => rows[k].status = "leased"
  <2>1. LeasedOf(p)' \in SUBSET LeasedOf(p)
    BY <1>1 DEF LeasedOf
  <2>2. IsFiniteSet(LeasedOf(p)') /\ Cardinality(LeasedOf(p)') <= Cardinality(LeasedOf(p))
    BY <1>0, <2>1, FS_Subset
  <2>3. Cardinality(LeasedOf(p)') \in Nat
    BY <2>2, FS_CardinalityType
  <2>4. QED
    BY <1>0, <2>2, <2>3
<1>2. ASSUME NEW w \in Runner, NEW j \in Job, NEW late, NEW recover,
             NEW excluded, NEW allowRecovery,
             Lease(w, j, late, Job, excluded, recover, allowRecovery)
      PROVE  Cardinality(LeasedOf(p)') <= ProviderLimit[p]
  <2> DEFINE rs == RequeuedRows(late, recover)
             busy == {k \in Job : ProviderOf[k] = p /\ Running(rs, k, late)}
  <2>1. /\ rows' = [rs EXCEPT ![j] = LeasedTo(rs[j], w)]
        /\ WithinProviderLimit(rs, j, late)
    BY <1>2 DEF Lease, Eligible
  <2>2. /\ \A k \in Job : rs[k].status = "leased"
                           => rs[k] = rows[k] /\ Running(rs, k, late)
        /\ DOMAIN rs = Job
    BY LeasedRuns DEF RequeuedRows
  <2>3. \A k \in Job \ {j} : rows'[k] = rs[k]
    BY <2>1, <2>2
  <2>4. IsFiniteSet(busy) /\ Cardinality(busy) \in Nat
    <3>1. busy \in SUBSET Job /\ IsFiniteSet(Job)
      BY QueueAssumption
    <3>2. QED
      BY <3>1, FS_Subset, FS_CardinalityType
  <2>5. CASE ProviderOf[j] # p
    <3>1. LeasedOf(p)' \in SUBSET LeasedOf(p)
      BY <2>2, <2>3, <2>5 DEF LeasedOf
    <3>2. IsFiniteSet(LeasedOf(p)') /\ Cardinality(LeasedOf(p)') <= Cardinality(LeasedOf(p))
      BY <1>0, <3>1, FS_Subset
    <3>3. Cardinality(LeasedOf(p)') \in Nat
      BY <3>2, FS_CardinalityType
    <3>4. QED
      BY <1>0, <3>2, <3>3
  <2>6. CASE ProviderOf[j] = p
    <3>1. Cardinality(busy) < ProviderLimit[p]
      BY <2>1, <2>6 DEF WithinProviderLimit
    <3>2. LeasedOf(p)' \in SUBSET (busy \cup {j})
      BY <2>2, <2>3 DEF LeasedOf
    <3>3. /\ IsFiniteSet(busy \cup {j})
          /\ Cardinality(busy \cup {j}) \in Nat
          /\ Cardinality(busy \cup {j}) <= Cardinality(busy) + 1
      <4> HIDE DEF busy
      <4>1. /\ IsFiniteSet(busy \cup {j})
             /\ Cardinality(busy \cup {j})
                  = IF j \in busy THEN Cardinality(busy) ELSE Cardinality(busy) + 1
        BY <2>4, FS_AddElement, Zenon
      <4>2. QED
        BY <2>4, <4>1
    <3>4. IsFiniteSet(LeasedOf(p)')
          /\ Cardinality(LeasedOf(p)') <= Cardinality(busy \cup {j})
      <4> HIDE DEF busy
      <4>1. QED
        BY <3>2, <3>3, FS_Subset
    <3>5. Cardinality(LeasedOf(p)') \in Nat
      BY <3>4, FS_CardinalityType
    <3> HIDE DEF busy
    <3>6. QED
      BY <1>0, <2>4, <3>1, <3>3, <3>4, <3>5
  <2>7. QED
    BY <2>5, <2>6
<1>3. QED
  BY <1>1, <1>2, OnlyLeaseLeases

\* The leased jobs of a provider never exceed its configured limit, although
\* the count is read from rows whose deadlines other runners keep moving.
THEOREM ProviderLimits == Spec => []ProviderWithinLimit
<1>1. Init => ProviderWithinLimit
  <2> SUFFICES ASSUME Init, NEW p \in DOMAIN ProviderLimit
               PROVE  Cardinality(LeasedOf(p)) <= ProviderLimit[p]
    BY DEF ProviderWithinLimit
  <2>1. LeasedOf(p) = {}
    BY DEF Init, LeasedOf
  <2>2. QED
    BY <2>1, FS_EmptySet, QueueAssumption
<1>2. TypeOK /\ [Next]_vars /\ ProviderWithinLimit => ProviderWithinLimit'
  BY LimitKept
<1>3. QED
  BY <1>1, <1>2, TypeCorrect, PTL DEF Spec

(***************************************************************************)
(* The queue implements the claim service                                  *)
(***************************************************************************)
LEMMA InitMaps == Init => Claims!ClaimInit
BY DEF Init, PhaseView, HolderView, PhaseOf, Claims!ClaimInit

\* A step that replaces one row maps to an update of its phase and holder.
LEMMA OneRowMaps ==
  ASSUME NEW j \in Job, NEW rs, NEW r, DOMAIN rs = Job,
         rows' = [rs EXCEPT ![j] = r]
  PROVE  /\ PhaseView(rows)' = [PhaseView(rs) EXCEPT ![j] = PhaseOf(r.status)]
         /\ HolderView(rows)' = [HolderView(rs) EXCEPT ![j] = r.worker]
BY DEF PhaseView, HolderView

\* What the claim service sees of a row.
LEMMA ViewOf ==
  ASSUME NEW j \in Job
  PROVE  /\ PhaseView(rows)[j] = PhaseOf(rows[j].status)
         /\ HolderView(rows)[j] = rows[j].worker
BY DEF PhaseView, HolderView

\* The five phases.
LEMMA Phases ==
  /\ PhaseOf("absent") = "new" /\ PhaseOf("pending") = "waiting"
  /\ PhaseOf("leased") = "claimed" /\ PhaseOf("dead_letter") = "parked"
  /\ PhaseOf("completed") = "settled" /\ PhaseOf("cancelled") = "settled"
BY DEF PhaseOf

\* The requeue of expired leases maps to the lapse of their claims.
LEMMA RequeueMaps ==
  ASSUME TypeOK, NEW late, NEW recover
  PROVE  LET rs == RequeuedRows(late, recover)
             back == {k \in Expired(late) : RequeuedStatus(k, recover) = "pending"}
             dead == Expired(late) \ back
         IN /\ Claims!Lapsing(back, dead)
            /\ PhaseView(rs) = Claims!Lapsed(back, dead)
            /\ HolderView(rs) = Claims!LapsedHolder(back, dead)
            /\ back \in SUBSET Job /\ dead \in SUBSET Job
            /\ DOMAIN rs = Job
<1> DEFINE rs == RequeuedRows(late, recover)
           back == {k \in Expired(late) : RequeuedStatus(k, recover) = "pending"}
           dead == Expired(late) \ back
<1>1. /\ Expired(late) \subseteq {k \in Job : PhaseView(rows)[k] = "claimed"}
      /\ back \cup dead = Expired(late)
  BY DEF Expired, PhaseView, PhaseOf
<1>2. \A k \in Job : /\ rows[k] \in Row
                     /\ RequeuedStatus(k, recover) \in {"pending", "dead_letter"}
  BY DEF TypeOK, RequeuedStatus
<1>3. \A k \in Expired(late) :
        /\ rs[k].status = RequeuedStatus(k, recover)
        /\ rs[k].worker = NoRunner
  BY <1>2 DEF RequeuedRows, Released, Row, Expired
<1>4. \A k \in Job \ Expired(late) : rs[k] = rows[k]
  BY DEF RequeuedRows
<1>5. PhaseView(rs) = Claims!Lapsed(back, dead)
  <2>1. \A k \in Job : PhaseOf(rs[k].status)
                         = (IF k \in back THEN "waiting"
                            ELSE IF k \in dead THEN "parked"
                            ELSE PhaseOf(rows[k].status))
    BY <1>2, <1>3, <1>4 DEF PhaseOf
  <2>2. QED
    BY <2>1 DEF PhaseView, Claims!Lapsed
<1>6. HolderView(rs) = Claims!LapsedHolder(back, dead)
  BY <1>1, <1>3, <1>4 DEF HolderView, Claims!LapsedHolder
<1>7. DOMAIN rs = Job
  BY DEF RequeuedRows
<1>8. QED
  BY <1>1, <1>5, <1>6, <1>7 DEF Claims!Lapsing, Expired

\* Every step of the queue is a step of the claim service, or none.
LEMMA StepMaps ==
  ASSUME TypeOK, QueueInv, QueueInv', [Next]_vars
  PROVE  [Claims!ClaimNext]_<<PhaseView(rows), HolderView(rows)>>
<1>0. /\ \A k \in Job : rows[k] \in Row /\ Held(rows[k])
      /\ DOMAIN rows = Job
  BY DEF TypeOK, QueueInv
<1>r. ASSUME NEW k \in Job, NEW status, NEW delay
      PROVE  /\ Released(rows[k], status, delay).status = status
             /\ Released(rows[k], status, delay).worker = NoRunner
  BY <1>0 DEF Released, Row
<1>s. ASSUME \A k \in Job : /\ rows'[k].status = rows[k].status
                            /\ rows'[k].worker = rows[k].worker
      PROVE  UNCHANGED <<PhaseView(rows), HolderView(rows)>>
  BY <1>s DEF PhaseView, HolderView
<1>1. ASSUME NEW j \in Job, NEW created \in ClockReading, Enqueue(j, created)
      PROVE  Claims!ClaimNext
  <2> DEFINE r == [status |-> "pending", leaseLeft |-> 0, worker |-> NoRunner,
                   wait |-> 0, attempts |-> 0, created |-> created]
  <2>1. /\ rows' = [rows EXCEPT ![j] = r] /\ rows[j].status = "absent"
        /\ rows[j].worker = NoRunner
    BY <1>0, <1>1 DEF Enqueue, Held
  <2>2. r.status = "pending" /\ r.worker = NoRunner
    OBVIOUS
  <2> HIDE DEF r
  <2>3. /\ PhaseView(rows)' = [PhaseView(rows) EXCEPT ![j] = "waiting"]
        /\ HolderView(rows)' = [HolderView(rows) EXCEPT ![j] = NoRunner]
        /\ PhaseView(rows)[j] = "new" /\ HolderView(rows)[j] = NoRunner
    <3>1. /\ PhaseView(rows)' = [PhaseView(rows) EXCEPT ![j] = PhaseOf(r.status)]
          /\ HolderView(rows)' = [HolderView(rows) EXCEPT ![j] = r.worker]
      BY <1>0, <2>1, <2>2, OneRowMaps, Zenon
    <3>2. PhaseOf(r.status) = "waiting"
      BY <2>1, <2>2, Phases
    <3>3. PhaseView(rows)[j] = "new" /\ HolderView(rows)[j] = NoRunner
      BY <2>1, <2>2, ViewOf, Phases
    <3>4. QED
      BY <2>1, <2>2, <3>1, <3>2, <3>3
  <2>4. HolderView(rows)' = HolderView(rows)
    BY <2>3 DEF HolderView
  <2>5. QED
    BY <2>3, <2>4 DEF Claims!Submit, Claims!ClaimNext
<1>2. ASSUME NEW late, NEW recover, RequeueExpired(late, recover)
      PROVE  Claims!ClaimNext
  <2> DEFINE back == {k \in Expired(late) : RequeuedStatus(k, recover) = "pending"}
             dead == Expired(late) \ back
  <2>1. rows' = RequeuedRows(late, recover)
    BY <1>2 DEF RequeueExpired
  <2>2. /\ Claims!Lapse(back, dead)
        /\ back \in SUBSET Job /\ dead \in SUBSET Job
    BY <2>1, RequeueMaps DEF Claims!Lapse
  <2> HIDE DEF back, dead
  <2>3. QED
    BY <2>2 DEF Claims!ClaimNext
<1>3. ASSUME NEW w \in Runner, NEW j \in Job, NEW late, NEW recover,
             NEW excluded, NEW allowRecovery,
             Lease(w, j, late, Job, excluded, recover, allowRecovery)
      PROVE  Claims!ClaimNext
  <2> DEFINE rs == RequeuedRows(late, recover)
             back == {k \in Expired(late) : RequeuedStatus(k, recover) = "pending"}
             dead == Expired(late) \ back
             r == LeasedTo(rs[j], w)
  <2>1. rows' = [rs EXCEPT ![j] = r] /\ rs[j].status = "pending"
    BY <1>3 DEF Lease, Eligible
  <2>2. /\ Claims!Lapsing(back, dead)
        /\ PhaseView(rs) = Claims!Lapsed(back, dead)
        /\ HolderView(rs) = Claims!LapsedHolder(back, dead)
        /\ back \in SUBSET Job /\ dead \in SUBSET Job
        /\ DOMAIN rs = Job
    BY RequeueMaps
  <2>3. r.status = "leased" /\ r.worker = w
    BY RequeueType DEF LeasedTo, Row
  <2> HIDE DEF r, rs
  <2>4. /\ PhaseView(rows)' = [Claims!Lapsed(back, dead) EXCEPT ![j] = "claimed"]
        /\ HolderView(rows)' = [Claims!LapsedHolder(back, dead) EXCEPT ![j] = w]
    <3>1. /\ PhaseView(rows)' = [PhaseView(rs) EXCEPT ![j] = PhaseOf(r.status)]
          /\ HolderView(rows)' = [HolderView(rs) EXCEPT ![j] = r.worker]
      BY <2>1, <2>2, OneRowMaps, Zenon
    <3> HIDE DEF back, dead
    <3>2. QED
      BY <2>2, <2>3, <3>1, Phases
  <2>5. Claims!Lapsed(back, dead)[j] = "waiting"
    BY <2>1, <2>2 DEF PhaseView, PhaseOf
  <2>6. ASSUME NEW k \in Job, Claims!Rival(j, k)
        PROVE  Claims!Lapsed(back, dead)[k] # "claimed"
    <3>1. /\ j \in Serialized /\ k \in Serialized /\ j # k
          /\ BranchOf[j] = BranchOf[k]
      BY <2>6 DEF Claims!Rival, RivalPairs
    <3>2. rows'[j].status = "leased" /\ rows'[k] = rs[k]
      BY <2>1, <2>2, <2>3, <3>1
    <3>3. rs[k].status # "leased"
      BY <3>1, <3>2 DEF QueueInv, Exclusive
    <3>4. QED
      BY <2>2, <3>3 DEF PhaseView, PhaseOf
  <2> HIDE DEF back, dead
  <2>7. Claims!Claim(w, j, back, dead)
    BY <2>2, <2>4, <2>5, <2>6 DEF Claims!Claim
  <2>8. QED
    BY <2>2, <2>7, Zenon DEF Claims!ClaimNext
<1>4. ASSUME NEW w \in Runner, NEW j \in Job, Heartbeat(w, j)
      PROVE  UNCHANGED <<PhaseView(rows), HolderView(rows)>>
  BY <1>0, <1>4, <1>s DEF Heartbeat, Row
<1>5. ASSUME NEW w \in Runner, NEW j \in Job, NEW status, NEW delay,
             Owns(w, j), rows' = [rows EXCEPT ![j] = Released(rows[j], status, delay)],
             status \in {"pending", "dead_letter", "completed"}
      PROVE  Claims!ClaimNext
  <2> DEFINE r == Released(rows[j], status, delay)
  <2>1. PhaseOf(status) \in {"waiting", "parked", "settled"}
    BY <1>5, Phases
  <2>2. r.status = status /\ r.worker = NoRunner
    BY <1>r
  <2>3. rows' = [rows EXCEPT ![j] = r]
    BY <1>5
  <2> HIDE DEF r
  <2>4. /\ PhaseView(rows)' = [PhaseView(rows) EXCEPT ![j] = PhaseOf(status)]
        /\ HolderView(rows)' = [HolderView(rows) EXCEPT ![j] = NoRunner]
        /\ PhaseView(rows)[j] = "claimed" /\ HolderView(rows)[j] = w
    <3>1. /\ PhaseView(rows)' = [PhaseView(rows) EXCEPT ![j] = PhaseOf(r.status)]
          /\ HolderView(rows)' = [HolderView(rows) EXCEPT ![j] = r.worker]
      <4>1. DOMAIN rows = Job
        BY <1>0
      <4>2. QED
        BY <2>3, <4>1, OneRowMaps, ZenonT(30)
    <3>2. QED
      BY <1>5, <2>2, <3>1, ViewOf, Phases DEF Owns
  <2>5. Claims!Release(w, j, PhaseOf(status))
    BY <2>4 DEF Claims!Release
  <2>6. QED
    BY <2>1, <2>5, Zenon DEF Claims!ClaimNext
<1>6. ASSUME NEW w \in Runner, NEW j \in Job, Complete(w, j)
      PROVE  Claims!ClaimNext
  BY <1>5, <1>6 DEF Complete
<1>7. ASSUME NEW w \in Runner, NEW j \in Job, NEW retryable \in BOOLEAN,
             Fail(w, j, retryable)
      PROVE  Claims!ClaimNext
  <2>1. \E status \in {"pending", "dead_letter"} : \E delay :
          rows' = [rows EXCEPT ![j] = Released(rows[j], status, delay)]
    BY <1>7 DEF Fail
  <2>2. QED
    BY <1>5, <1>7, <2>1 DEF Fail
<1>8. ASSUME NEW j \in Job, Cancel(j)
      PROVE  Claims!ClaimNext
  <2> DEFINE r == Released(rows[j], "cancelled", 0)
  <2>1. r.status = "cancelled" /\ r.worker = NoRunner
    BY <1>r
  <2>2. /\ rows' = [rows EXCEPT ![j] = r]
        /\ rows[j].status \in {"pending", "leased"}
    BY <1>8 DEF Cancel
  <2> HIDE DEF r
  <2>3. /\ PhaseView(rows)' = [PhaseView(rows) EXCEPT ![j] = "settled"]
        /\ HolderView(rows)' = [HolderView(rows) EXCEPT ![j] = NoRunner]
        /\ PhaseView(rows)[j] \in {"waiting", "claimed"}
    <3>1. /\ PhaseView(rows)' = [PhaseView(rows) EXCEPT ![j] = PhaseOf(r.status)]
          /\ HolderView(rows)' = [HolderView(rows) EXCEPT ![j] = r.worker]
      BY <1>0, <2>1, <2>2, OneRowMaps, Zenon
    <3>2. PhaseOf(r.status) = "settled"
      BY <2>1, <2>2, Phases
    <3>3. PhaseView(rows)[j] \in {"waiting", "claimed"}
      BY <2>1, <2>2, ViewOf, Phases
    <3>4. QED
      BY <2>1, <2>2, <3>1, <3>2, <3>3
  <2>4. QED
    BY <2>3 DEF Claims!Withdraw, Claims!ClaimNext
<1>9. ASSUME NEW j \in Job, NEW reset \in RetryModes, RetryDeadLetter(j, reset)
      PROVE  Claims!ClaimNext
  <2> DEFINE r == Revived(rows[j], reset)
  <2>1. r.status = "pending" /\ r.worker = rows[j].worker
    BY <1>0 DEF Revived, Row
  <2>2. rows' = [rows EXCEPT ![j] = r] /\ rows[j].status = "dead_letter"
    BY <1>9 DEF RetryDeadLetter
  <2> HIDE DEF r
  <2>3. /\ PhaseView(rows)' = [PhaseView(rows) EXCEPT ![j] = "waiting"]
        /\ HolderView(rows)' = [HolderView(rows) EXCEPT ![j] = rows[j].worker]
        /\ PhaseView(rows)[j] = "parked" /\ HolderView(rows)[j] = rows[j].worker
    <3>1. /\ PhaseView(rows)' = [PhaseView(rows) EXCEPT ![j] = PhaseOf(r.status)]
          /\ HolderView(rows)' = [HolderView(rows) EXCEPT ![j] = r.worker]
      BY <1>0, <2>1, <2>2, OneRowMaps, Zenon
    <3>2. PhaseOf(r.status) = "waiting"
      BY <2>1, <2>2, Phases
    <3>3. PhaseView(rows)[j] = "parked" /\ HolderView(rows)[j] = rows[j].worker
      BY <2>1, <2>2, ViewOf, Phases
    <3>4. QED
      BY <2>1, <2>2, <3>1, <3>2, <3>3
  <2>4. HolderView(rows)' = HolderView(rows)
    BY <2>3 DEF HolderView
  <2>5. QED
    BY <2>3, <2>4 DEF Claims!Revive, Claims!ClaimNext
<1>10. ASSUME Tick
       PROVE  UNCHANGED <<PhaseView(rows), HolderView(rows)>>
  <2>1. \A k \in Job : /\ Later(rows[k]).status = rows[k].status
                       /\ Later(rows[k]).worker = rows[k].worker
    BY <1>0 DEF Later, Row
  <2>2. QED
    BY <1>10, <1>s, <2>1 DEF Tick
<1>11. ASSUME UNCHANGED vars
       PROVE  UNCHANGED <<PhaseView(rows), HolderView(rows)>>
  BY <1>11, <1>s DEF vars
<1>12. QED
  BY <1>1, <1>2, <1>3, <1>4, <1>6, <1>7, <1>8, <1>9, <1>10, <1>11
     DEF Next, LeaseNothing

\* Seen through its rows the queue implements the claim service: one holder
\* for a job at a time, no two serialized jobs of a branch held together, and
\* an outcome only from the holder.
THEOREM QueueImplementsClaims == Spec => ImplementsClaims
<1>1. Init => Claims!ClaimInit
  BY InitMaps
<1>2. TypeOK /\ QueueInv /\ QueueInv' /\ [Next]_vars
        => [Claims!ClaimNext]_<<PhaseView(rows), HolderView(rows)>>
  BY StepMaps
<1>3. QED
  BY <1>1, <1>2, InvariantHolds, PTL
     DEF Spec, ImplementsClaims, Claims!ClaimSpec, Claims!claimVars

-------------------------------------------------------------------------------
(* AutomationRunner *)

(***************************************************************************)
(* What the queue's operations do to the rows                              *)
(***************************************************************************)
\* The archives a requeue is told of matter for expired leases only.
LEMMA RecoverExpired ==
  ASSUME NEW late, NEW recover
  PROVE  /\ RequeuedRows(late, recover) =
              RequeuedRows(late, recover \cap Expired({}))
         /\ RequeuedLog(late, recover) =
              RequeuedLog(late, recover \cap Expired({}))
<1> DEFINE told == recover \cap Expired({})
<1>1. \A j \in Expired(late) : j \in recover <=> j \in told
  BY DEF Expired
<1> HIDE DEF told
<1>2. \A j \in Expired(late) : Granted(j, recover) <=> Granted(j, told)
  BY <1>1 DEF Granted
<1>3. \A j \in Expired(late) :
        RequeuedStatus(j, recover) = RequeuedStatus(j, told)
  BY <1>2 DEF RequeuedStatus
<1>4. RequeuedRows(late, recover) = RequeuedRows(late, told)
  BY <1>3 DEF RequeuedRows
<1>5. RequeuedLog(late, recover) = RequeuedLog(late, told)
  BY <1>2 DEF RequeuedLog
<1>6. QED
  BY <1>4, <1>5 DEF told

\* A requeue takes the lease from what expired and leaves the rest alone.
LEMMA RequeueFields ==
  ASSUME TypeOK, NEW late, NEW recover, NEW k \in Job
  PROVE  LET r == RequeuedRows(late, recover)[k]
         IN  IF k \in Expired(late)
             THEN /\ r.status \in {"pending", "dead_letter"}
                  /\ r.worker = NoRunner /\ r.attempts = rows[k].attempts
             ELSE r = rows[k]
<1>1. CASE k \in Expired(late)
  <2>1. RequeuedRows(late, recover)[k] =
          Released(rows[k], RequeuedStatus(k, recover), 0)
    BY <1>1 DEF RequeuedRows
  <2>2. RequeuedStatus(k, recover) \in {"pending", "dead_letter"}
    BY DEF RequeuedStatus
  <2>3. QED
    BY <1>1, <2>1, <2>2 DEF Released, TypeOK, Row
<1>2. CASE k \notin Expired(late)
  BY <1>2 DEF RequeuedRows
<1>3. QED
  BY <1>1, <1>2

\* A process that takes a job takes one that waits, or that has run out, and
\* requeues what else has run out.
LEMMA TakeFields ==
  ASSUME TypeOK, NEW w \in Runner, NEW j \in Job, NEW late, TakeJob(w, j, late)
  PROVE  /\ rows'[j].status = "leased" /\ rows'[j].worker = w
         /\ rows'[j].leaseLeft = LeaseTicks
         /\ rows'[j].attempts = rows[j].attempts + 1
         /\ rows[j].status = "pending" \/ j \in Expired(late)
         /\ BranchOf[j] \notin run[w].excluded
         /\ \A k \in Job \ {j} :
              IF k \in Expired(late)
              THEN /\ rows'[k].status \in {"pending", "dead_letter"}
                   /\ rows'[k].worker = NoRunner
                   /\ rows'[k].attempts = rows[k].attempts
              ELSE rows'[k] = rows[k]
<1> DEFINE recover == run[w].recover
           rs == RequeuedRows(late, recover)
<1>0. Lease(w, j, late, Job, run[w].excluded, recover, TRUE)
  BY DEF TakeJob
<1> HIDE DEF recover
<1>1. rs \in [Job -> Row]
  BY RequeueType
<1>2. rows' = [rs EXCEPT ![j] = LeasedTo(rs[j], w)]
  BY <1>0, <1>1 DEF Lease
<1>3. rs[j].status = "pending" /\ BranchOf[j] \notin run[w].excluded
  BY <1>0 DEF Lease, Eligible
<1>4. \A k \in Job :
        IF k \in Expired(late)
        THEN /\ rs[k].status \in {"pending", "dead_letter"}
             /\ rs[k].worker = NoRunner /\ rs[k].attempts = rows[k].attempts
        ELSE rs[k] = rows[k]
  BY RequeueFields
<1> HIDE DEF rs
<1>5. /\ LeasedTo(rs[j], w).status = "leased" /\ LeasedTo(rs[j], w).worker = w
      /\ LeasedTo(rs[j], w).leaseLeft = LeaseTicks
      /\ LeasedTo(rs[j], w).attempts = rs[j].attempts + 1
  BY <1>1 DEF LeasedTo, Row
<1>6. QED
  BY <1>1, <1>2, <1>3, <1>4, <1>5

\* The owner's operations and the operator's change one row.
LEMMA ReleaseFields ==
  ASSUME TypeOK, NEW j \in Job, NEW status, NEW delay
  PROVE  /\ Released(rows[j], status, delay).status = status
         /\ Released(rows[j], status, delay).worker = NoRunner
         /\ Released(rows[j], status, delay).attempts = rows[j].attempts
BY DEF Released, TypeOK, Row

\* A completed job gives its lease back.
LEMMA CompleteFields ==
  ASSUME TypeOK, NEW w, NEW j \in Job, Complete(w, j)
  PROVE  /\ Owns(w, j)
         /\ rows'[j].status = "completed" /\ rows'[j].worker = NoRunner
         /\ rows'[j].attempts = rows[j].attempts
         /\ \A k \in Job \ {j} : rows'[k] = rows[k]
<1>1. rows' = [rows EXCEPT ![j] = Released(rows[j], "completed", 0)]
  BY DEF Complete, TypeOK
<1>2. QED
  BY <1>1, ReleaseFields DEF Complete, TypeOK

\* A failed job gives its lease back, to be retried or not.
LEMMA FailFields ==
  ASSUME TypeOK, NEW w, NEW j \in Job, NEW retryable, Fail(w, j, retryable)
  PROVE  /\ Owns(w, j)
         /\ rows'[j].status \in {"pending", "dead_letter"}
         /\ rows'[j].worker = NoRunner
         /\ rows'[j].attempts = rows[j].attempts
         /\ \A k \in Job \ {j} : rows'[k] = rows[k]
<1>1. PICK status \in {"pending", "dead_letter"} : \E delay :
        rows' = [rows EXCEPT ![j] = Released(rows[j], status, delay)]
  BY DEF Fail, TypeOK
<1>2. PICK delay :
        rows' = [rows EXCEPT ![j] = Released(rows[j], status, delay)]
  BY <1>1
<1>3. QED
  BY <1>2, ReleaseFields DEF Fail, TypeOK

\* A heartbeat extends the lease it finds, and no other.
LEMMA HeartbeatFields ==
  ASSUME TypeOK, NEW w, NEW j \in Job, Heartbeat(w, j)
  PROVE  /\ Owns(w, j)
         /\ rows'[j].status = rows[j].status /\ rows'[j].worker = w
         /\ rows'[j].attempts = rows[j].attempts
         /\ rows'[j].leaseLeft = LeaseTicks
         /\ \A k \in Job \ {j} : rows'[k] = rows[k]
<1>1. rows' = [rows EXCEPT ![j] = [rows[j] EXCEPT !.leaseLeft = LeaseTicks]]
  BY DEF Heartbeat, TypeOK
<1>2. QED
  BY <1>1 DEF Heartbeat, Owns, TypeOK, Row

\* The clock shortens leases and touches nothing else of a row but its wait.
LEMMA TickFields ==
  ASSUME TypeOK, Tick, NEW k \in Job
  PROVE  /\ rows'[k].status = rows[k].status /\ rows'[k].worker = rows[k].worker
         /\ rows'[k].attempts = rows[k].attempts
         /\ rows[k].leaseLeft > 0 => rows'[k].leaseLeft = rows[k].leaseLeft - 1
<1>1. rows'[k] = Later(rows[k]) /\ rows[k] \in Row
  BY DEF Tick, TypeOK
<1>2. QED
  BY <1>1 DEF Later, Row

\* What the operator does leaves every job alone that is not new or dead.
LEMMA OperatorFields ==
  ASSUME TypeOK, QueueCommand, NEW k \in Job
  PROVE  \/ rows'[k] = rows[k]
         \/ /\ rows[k].status \in {"absent", "dead_letter"}
            /\ rows'[k].status = "pending"
            /\ rows'[k].worker \in {rows[k].worker, NoRunner}
<1>1. ASSUME NEW j \in Job, NEW created \in ClockReading, Enqueue(j, created)
      PROVE  \/ rows'[k] = rows[k]
             \/ /\ rows[k].status = "absent" /\ rows'[k].status = "pending"
                /\ rows'[k].worker = NoRunner
  BY <1>1 DEF Enqueue, TypeOK
<1>2. ASSUME NEW j \in Job, NEW reset \in RetryModes, RetryDeadLetter(j, reset)
      PROVE  \/ rows'[k] = rows[k]
             \/ /\ rows[k].status = "dead_letter" /\ rows'[k].status = "pending"
                /\ rows'[k].worker = rows[k].worker
  <2>1. rows' = [rows EXCEPT ![j] = Revived(rows[j], reset)]
    BY <1>2 DEF RetryDeadLetter, TypeOK
  <2>2. /\ Revived(rows[j], reset).status = "pending"
        /\ Revived(rows[j], reset).worker = rows[j].worker
    BY DEF Revived, TypeOK, Row
  <2>3. QED
    BY <1>2, <2>1, <2>2 DEF RetryDeadLetter, TypeOK
<1>3. QED
  BY <1>1, <1>2 DEF QueueCommand

(***************************************************************************)
(* The loop does what the queue allows                                     *)
(***************************************************************************)
\* What a process has read is a set of branches and a set of jobs.
LEMMA ReadType ==
  ASSUME RunnerTypeOK, NEW w \in Runner
  PROVE  /\ run[w] \in RunState
         /\ run[w].job \in Job \cup {NoJob} /\ run[w].excluded \in SUBSET Branch
         /\ run[w].recover \in SUBSET Job /\ run[w].recoveryOnly \in BOOLEAN
         /\ run[w].since \in 0 .. BeatEvery
BY DEF RunnerTypeOK, RunState

\* A call of lease with whatever was read is one the queue allows.
LEMMA LeaseIsQueueStep ==
  ASSUME NEW w \in Runner, NEW j \in Job, NEW late \in ClockLag,
         NEW excluded \in SUBSET Branch, NEW recover,
         Lease(w, j, late, Job, excluded, recover, TRUE)
  PROVE  Next
<1> DEFINE told == recover \cap Expired({})
<1>1. told \in SUBSET Expired({}) /\ late \in SUBSET Expired({})
  BY DEF ClockLag
<1>2. Lease(w, j, late, Job, excluded, told, TRUE)
  BY RecoverExpired DEF Lease
<1> HIDE DEF told
<1>3. QED
  BY <1>1, <1>2 DEF Next

\* So is a call of lease that finds nothing.
LEMMA LeaseNothingIsQueueStep ==
  ASSUME NEW late \in ClockLag, NEW excluded \in SUBSET Branch, NEW recover,
         LeaseNothing(late, Job, excluded, recover, TRUE)
  PROVE  Next
<1> DEFINE told == recover \cap Expired({})
<1>1. told \in SUBSET Expired({}) /\ late \in SUBSET Expired({})
  BY DEF ClockLag
<1>2. LeaseNothing(late, Job, excluded, told, TRUE)
  BY RecoverExpired DEF LeaseNothing, RequeueExpired
<1> HIDE DEF told
<1>3. QED
  BY <1>1, <1>2 DEF Next

\* Every step of the loop is a step of the queue, or leaves it alone.
LEMMA RunnerStepIsQueueStep ==
  ASSUME RunnerTypeOK, HandlerHasJob, [RunnerNext]_allVars
  PROVE  [Next]_vars
<1>1. ASSUME NEW w \in Runner, NEW r, Privately(w, r)
      PROVE  UNCHANGED vars
  BY <1>1 DEF Privately
<1>2. ASSUME NEW w \in Runner, NEW j \in Job, NEW late \in ClockLag,
             TakeJob(w, j, late)
      PROVE  Next
  BY <1>2, ReadType, LeaseIsQueueStep DEF TakeJob
<1>3. ASSUME NEW w \in Runner, NEW late \in ClockLag, TakeNothing(w, late)
      PROVE  [Next]_vars
  BY <1>3, ReadType, LeaseNothingIsQueueStep DEF TakeNothing, NothingToLease
<1>4. ASSUME NEW w \in Runner, RunStep(w)
      PROVE  [Next]_vars
  <2>1. CASE \/ Start(w) \/ ReadPauses(w) \/ ReadGate(w) \/ ReadArchives(w)
             \/ CheckRecovery(w) \/ HandlerReturns(w) \/ HandlerRaises(w)
    BY <2>1, <1>1 DEF Start, ReadPauses, ReadGate, ReadArchives, CheckRecovery,
                      HandlerReturns, HandlerRaises
  <2>2. CASE ArchiveRun(w)
    BY <2>2 DEF ArchiveRun
  <2>3. CASE Beat(w)
    BY <2>3 DEF Beat, HandlerHasJob, Next
  <2>4. CASE Acknowledge(w)
    BY <2>4 DEF Acknowledge, HandlerHasJob, InHandler, LeaseLost, Next
  <2>5. CASE FailJob(w)
    <3>1. PICK retryable \in Retryable : FailJobAs(w, retryable)
      BY <2>5 DEF FailJob
    <3>2. (retryable /\ ~run[w].recoveryOnly) \in BOOLEAN
      OBVIOUS
    <3>3. QED
      BY <3>1, <3>2 DEF FailJobAs, HandlerHasJob, InHandler, LeaseLost, Next
  <2>6. QED
    BY <1>2, <1>3, <1>4, <2>1, <2>2, <2>3, <2>4, <2>5 DEF RunStep
<1>5. ASSUME NEW w \in Runner, Crash(w)
      PROVE  UNCHANGED vars
  BY <1>5 DEF Crash
<1>6. ASSUME NEW b \in Pausable, Pause(b) \/ Resume(b)
      PROVE  UNCHANGED vars
  BY <1>6 DEF Pause, Resume
<1>7. ASSUME HumanGate
      PROVE  UNCHANGED vars
  BY <1>7 DEF HumanGate
<1>8. ASSUME QueueCommand
      PROVE  Next
  BY <1>8 DEF QueueCommand, Next
<1>9. ASSUME TimePasses
      PROVE  Next
  BY <1>9 DEF TimePasses, Next
<1>10. ASSUME UNCHANGED allVars
       PROVE  UNCHANGED vars
  BY <1>10 DEF allVars
<1>11. QED
  BY <1>4, <1>5, <1>6, <1>7, <1>8, <1>9, <1>10 DEF RunnerNext

(***************************************************************************)
(* Types                                                                   *)
(***************************************************************************)
\* The state that stands for no process is a state of a process.
LEMMA OffType == Off \in RunState /\ NoJob \in Job \cup {NoJob}
<1>1. 0 \in 0 .. BeatEvery /\ 0 \in Nat
  BY RunnerAssumption
<1>2. QED
  BY <1>1 DEF Off, RunState

\* The time since the last heartbeat stays within the interval.
LEMMA SinceType ==
  ASSUME NEW r \in RunState, NEW n \in 0 .. BeatEvery
  PROVE  [r EXCEPT !.since = n] \in RunState
BY DEF RunState

\* The states a process goes through, one step at a time.
LEMMA ReadingType ==
  ASSUME NEW r \in RunState
  PROVE  /\ \A pc \in {"off", "pauses", "gate", "archives", "lease", "leased",
                       "working", "returned", "raised"} :
              [r EXCEPT !.pc = pc] \in RunState
         /\ \A excluded \in SUBSET Branch :
              [r EXCEPT !.pc = "gate", !.excluded = excluded] \in RunState
         /\ \A recover \in SUBSET Job :
              [r EXCEPT !.pc = "lease", !.recover = recover] \in RunState
         /\ \A recoveryOnly \in BOOLEAN :
              [r EXCEPT !.pc = "working", !.beat = "on",
                        !.recoveryOnly = recoveryOnly] \in RunState
         /\ [r EXCEPT !.beat = "failed"] \in RunState
         /\ \A since \in 0 .. BeatEvery : [r EXCEPT !.since = since] \in RunState
BY DEF RunState

\* The loop ends or starts over, without a heartbeat thread.
LEMMA NextIterationType ==
  ASSUME NEW r, NEW s \in NextIteration(r)
  PROVE  s \in RunState /\ s.pc \in {"off", "pauses"} /\ s.beat = "off"
<1>1. [Off EXCEPT !.pc = "pauses"] \in RunState
  BY OffType DEF RunState
<1>2. /\ [Off EXCEPT !.pc = "pauses"].pc = "pauses"
      /\ [Off EXCEPT !.pc = "pauses"].beat = "off"
      /\ Off.pc = "off" /\ Off.beat = "off"
  BY DEF Off
<1>3. s = Off \/ s = [Off EXCEPT !.pc = "pauses"]
  BY DEF NextIteration
<1>4. QED
  BY <1>1, <1>2, <1>3, OffType

\* A step of one process that replaces its state.
LEMMA OneRunType ==
  ASSUME RunnerTypeOK, TypeOK', NEW w \in Runner, NEW r \in RunState,
         run' = [run EXCEPT ![w] = r],
         UNCHANGED <<paused, gate, archived, history>>
  PROVE  RunnerTypeOK'
<1>1. run' \in [Runner -> RunState]
  BY DEF RunnerTypeOK
<1>2. /\ paused' = paused /\ gate' = gate /\ archived' = archived
      /\ troubles' = troubles /\ held' = held /\ overdue' = overdue
      /\ slipped' = slipped
  BY DEF history
<1>3. QED
  BY <1>1, <1>2 DEF RunnerTypeOK

\* No process runs and no boundary is up before the first step.
LEMMA RunnerInitType == RunnerInit => RunnerTypeOK
<1> SUFFICES ASSUME RunnerInit
             PROVE  RunnerTypeOK
  OBVIOUS
<1>1. TypeOK
  BY InitType DEF RunnerInit
<1>2. run \in [Runner -> RunState]
  BY OffType DEF RunnerInit
<1>3. troubles \in 0 .. MaxTroubles
  BY RunnerAssumption DEF RunnerInit
<1>4. slipped \in [Runner -> SUBSET (Pausable \cup {Nobody})]
  <2>1. {} \in SUBSET (Pausable \cup {Nobody})
    OBVIOUS
  <2>2. slipped = [w \in Runner |-> {}]
    BY DEF RunnerInit
  <2>3. QED
    BY <2>1, <2>2
<1>5. /\ paused \subseteq Pausable /\ gate \in BOOLEAN /\ archived \subseteq Job
      /\ held \subseteq Job /\ overdue \in BOOLEAN
  BY DEF RunnerInit
<1>6. QED
  BY <1>1, <1>2, <1>3, <1>4, <1>5 DEF RunnerTypeOK

\* Every step of a process keeps the types.
LEMMA RunStepType ==
  ASSUME RunnerTypeOK, TypeOK', HandlerHasJob, BoundariesRead,
         NEW w \in Runner, RunStep(w)
  PROVE  RunnerTypeOK'
<1>0. /\ run[w] \in RunState /\ run \in [Runner -> RunState]
      /\ paused \subseteq Branch /\ paused \subseteq Pausable
  BY RunnerAssumption DEF RunnerTypeOK
<1>p. ASSUME NEW r \in RunState, Privately(w, r)
      PROVE  RunnerTypeOK'
  BY <1>p, OneRunType DEF Privately
<1>1. CASE Start(w)
  BY <1>1, <1>p, OffType, ReadingType DEF Start
<1>2. CASE ReadPauses(w)
  <2>1. PausedJobBranches \in SUBSET Branch
    BY <1>0 DEF PausedJobBranches
  <2>2. QED
    BY <1>0, <1>2, <1>p, <2>1, ReadingType DEF ReadPauses
<1>3. CASE ReadGate(w)
  BY <1>0, <1>3, <1>p, OffType, ReadingType DEF ReadGate
<1>4. CASE ReadArchives(w)
  <2>1. Expired({}) \cap archived \in SUBSET Job
    BY DEF Expired
  <2>2. QED
    BY <1>0, <1>4, <1>p, <2>1, ReadingType DEF ReadArchives
<1>5. ASSUME NEW j \in Job, NEW late \in ClockLag, TakeJob(w, j, late)
      PROVE  RunnerTypeOK'
  <2>1. rows'[j].attempts \in Nat /\ 0 \in 0 .. BeatEvery
    BY RunnerAssumption DEF TypeOK, Row
  <2>2. run' \in [Runner -> RunState]
    <3>1. run' = [run EXCEPT ![w] =
                    [run[w] EXCEPT !.pc = "leased", !.job = j,
                       !.attempt = rows'[j].attempts, !.since = 0,
                       !.excluded = {}, !.recover = {}]]
      BY <1>0, <1>5 DEF TakeJob
    <3>2. [run[w] EXCEPT !.pc = "leased", !.job = j,
                       !.attempt = rows'[j].attempts, !.since = 0,
                       !.excluded = {}, !.recover = {}] \in RunState
      BY <1>0, <2>1 DEF RunState
    <3>3. QED
      BY <1>0, <3>1, <3>2
  <2>3. Crossed(j) \subseteq Pausable \cup {Nobody}
    BY <1>0 DEF Crossed, BoundariesRead
  <2>4. slipped' \in [Runner -> SUBSET (Pausable \cup {Nobody})]
    BY <1>5, <2>3 DEF TakeJob, RunnerTypeOK
  <2>5. QED
    BY <1>5, <2>2, <2>4 DEF TakeJob, RunnerTypeOK
<1>6. ASSUME NEW late \in ClockLag, TakeNothing(w, late)
      PROVE  RunnerTypeOK'
  BY <1>6, OffType, OneRunType DEF TakeNothing
<1>7. CASE CheckRecovery(w)
  <2>1. IsArchiveRecoveryLease(run[w].job, w) \in BOOLEAN
    BY DEF IsArchiveRecoveryLease, LeasedAsArchiveRecovery
  <2>2. QED
    BY <1>0, <1>7, <1>p, <2>1, ReadingType DEF CheckRecovery
<1>8. CASE Beat(w)
  <2>1. run' \in [Runner -> RunState]
    <3>1. CASE run' = [run EXCEPT ![w].since = 0]
      <4>1. 0 \in 0 .. BeatEvery
        BY RunnerAssumption
      <4>2. [run[w] EXCEPT !.since = 0] \in RunState
        BY <1>0, <4>1, ReadingType
      <4>3. QED
        BY <1>0, <3>1, <4>2
    <3>2. CASE run' = [run EXCEPT ![w].beat = "failed"]
      BY <1>0, <3>2, ReadingType
    <3>3. QED
      BY <1>8, <3>1, <3>2 DEF Beat
  <2>2. overdue' \in BOOLEAN
    BY <1>8 DEF Beat, RunnerTypeOK
  <2>3. QED
    BY <1>8, <2>1, <2>2 DEF Beat, RunnerTypeOK
<1>9. CASE ArchiveRun(w)
  BY <1>9, RunnerAssumption DEF ArchiveRun, RunnerTypeOK, history
<1>10. CASE HandlerReturns(w)
  BY <1>0, <1>10, <1>p, ReadingType DEF HandlerReturns
<1>11. CASE HandlerRaises(w)
  BY <1>0, <1>11, <1>p, ReadingType DEF HandlerRaises
<1>12. CASE Acknowledge(w)
  BY <1>12, OffType, NextIterationType, OneRunType DEF Acknowledge, LeaseLost
<1>13. CASE FailJob(w)
  BY <1>13, OffType, NextIterationType, OneRunType
     DEF FailJob, FailJobAs, LeaseLost
<1>14. QED
  BY <1>1, <1>2, <1>3, <1>4, <1>5, <1>6, <1>7, <1>8, <1>9, <1>10, <1>11,
     <1>12, <1>13 DEF RunStep

\* The types of the next state, for every step of the system.
LEMMA RunnerNextType ==
  ASSUME RunnerTypeOK, HandlerHasJob, BoundariesRead, [RunnerNext]_allVars
  PROVE  RunnerTypeOK'
<1>1. TypeOK'
  BY RunnerStepIsQueueStep, NextType DEF RunnerTypeOK
<1>2. ASSUME NEW w \in Runner, Crash(w)
      PROVE  RunnerTypeOK'
  BY <1>1, <1>2, OffType, RunnerAssumption DEF Crash, RunnerTypeOK
<1>3. ASSUME NEW b \in Pausable, Pause(b)
      PROVE  RunnerTypeOK'
  BY <1>1, <1>3, RunnerAssumption DEF Pause, RunnerTypeOK, WaitingOn
<1>4. ASSUME NEW b \in Pausable, Resume(b)
      PROVE  RunnerTypeOK'
  BY <1>1, <1>4 DEF Resume, RunnerTypeOK
<1>5. CASE HumanGate
  <2>1. troubles' \in 0 .. MaxTroubles
    BY <1>5, RunnerAssumption DEF HumanGate, RunnerTypeOK
  <2>2. QED
    BY <1>1, <1>5, <2>1 DEF HumanGate, RunnerTypeOK
<1>6. CASE QueueCommand
  BY <1>1, <1>6 DEF QueueCommand, runnerVars, history, RunnerTypeOK
<1>7. CASE TimePasses
  <2>1. overdue' \in BOOLEAN
    BY <1>7 DEF TimePasses
  <2>2. ASSUME NEW w \in Runner
        PROVE  run'[w] \in RunState
    <3>1. run[w] \in RunState /\ run[w].since \in 0 .. BeatEvery
      BY DEF RunnerTypeOK, RunState
    <3>2. (IF InHandler(w) /\ ~overdue' THEN run[w].since + 1 ELSE 0)
             \in 0 .. BeatEvery
      <4>1. (InHandler(w) /\ ~overdue') => run[w].since # BeatEvery
        BY <1>7 DEF TimePasses
      <4>2. CASE InHandler(w) /\ ~overdue'
        BY <3>1, <4>1, <4>2, RunnerAssumption
      <4>3. CASE ~(InHandler(w) /\ ~overdue')
        BY <4>3, RunnerAssumption
      <4>4. QED
        BY <4>2, <4>3
    <3>3. run'[w] = [run[w] EXCEPT !.since = IF InHandler(w) /\ ~overdue'
                                               THEN run[w].since + 1 ELSE 0]
      BY <1>7 DEF TimePasses
    <3>4. QED
      BY <3>1, <3>2, <3>3, SinceType
  <2>3. run' \in [Runner -> RunState]
    BY <1>7, <2>2 DEF TimePasses
  <2>4. QED
    BY <1>1, <1>7, <2>1, <2>3 DEF TimePasses, RunnerTypeOK
<1>8. CASE UNCHANGED allVars
  BY <1>1, <1>8 DEF allVars, runnerVars, history, RunnerTypeOK
<1>9. QED
  BY <1>1, <1>2, <1>3, <1>4, <1>5, <1>6, <1>7, <1>8, RunStepType
     DEF RunnerNext

(***************************************************************************)
(* The inductive invariant                                                 *)
(***************************************************************************)
\* What RunnerInv says of one process.
InvOf(w) ==
  /\ InHandler(w) => run[w].job \in Job
  /\ run[w].beat # "off" => InHandler(w)
  /\ \A j \in Job : rows[j].worker = w =>
       \/ run[w].pc = "off"
       \/ InHandler(w) /\ run[w].job = j /\ run[w].attempt = rows[j].attempts
  /\ ~overdue => (InHandler(w) =>
       /\ Owns(w, run[w].job)
       /\ rows[run[w].job].leaseLeft = LeaseTicks - run[w].since)
  /\ slipped[w] \subseteq paused \cup {Nobody}
  /\ Nobody \in slipped[w] =>
       UntilHuman /\ gate /\ run[w].pc \notin {"archives", "lease"}
  /\ run[w].pc \in {"gate", "archives", "lease"} =>
       \A j \in held :
         BranchOf[j] \in slipped[w] => BranchOf[j] \in run[w].excluded

\* What it says of the jobs that waited when their branch was paused.
HeldWait == \A j \in held : rows[j].status = "pending" /\ BranchOf[j] \in paused

\* The invariant is what it says of the waiting jobs and of each process.
LEMMA InvSplit ==
  /\ RunnerInv <=> HeldWait /\ \A w \in Runner : InvOf(w)
  /\ RunnerInv' <=> HeldWait' /\ \A w \in Runner : InvOf(w)'
<1>1. RunnerInv <=> HeldWait /\ \A w \in Runner : InvOf(w)
  BY DEF RunnerInv, HandlerHasJob, LeasedToHandler, LeaseOnTime, BoundariesRead,
         HeldWait, InvOf
<1>2. RunnerInv' <=> HeldWait' /\ \A w \in Runner : InvOf(w)'
  BY DEF RunnerInv, HandlerHasJob, LeasedToHandler, LeaseOnTime, BoundariesRead,
         HeldWait, InvOf
<1>3. QED
  BY <1>1, <1>2

\* No process runs at first, and nothing is held.
LEMMA RunnerInitInv == RunnerInit => RunnerInv
<1> SUFFICES ASSUME RunnerInit
             PROVE  RunnerInv
  OBVIOUS
<1>1. \A w \in Runner : /\ run[w].pc = "off" /\ run[w].beat = "off"
                        /\ slipped[w] = {}
  BY DEF RunnerInit, Off
<1>2. \A j \in Job : rows[j].worker = NoRunner
  BY DEF RunnerInit, Init
<1>3. held = {}
  BY DEF RunnerInit
<1>4. QED
  BY <1>1, <1>2, <1>3, QueueAssumption
     DEF RunnerInv, HandlerHasJob, LeasedToHandler, LeaseOnTime,
         BoundariesRead, InHandler

\* A process of its own accord changes neither what another one works on nor
\* what waits: it takes leases that have run out, and the rows it owns.
LEMMA OthersRows ==
  ASSUME RunnerTypeOK, HandlerHasJob, NEW w \in Runner, RunStep(w), NEW k \in Job
  PROVE  /\ \A v \in Runner \ {w} :
              /\ rows'[k].worker = v =>
                   rows[k].worker = v /\ rows'[k].attempts = rows[k].attempts
              /\ Owns(v, k) /\ rows[k].leaseLeft > 0 => rows'[k] = rows[k]
         /\ k \in held' =>
              k \in held /\ (rows[k].status = "pending" => rows'[k] = rows[k])
<1>0. TypeOK /\ NoRunner \notin Runner
  BY QueueAssumption DEF RunnerTypeOK
<1> DEFINE Kept == /\ \A v \in Runner \ {w} :
                        /\ rows'[k].worker = v =>
                             /\ rows[k].worker = v
                             /\ rows'[k].attempts = rows[k].attempts
                        /\ Owns(v, k) /\ rows[k].leaseLeft > 0 =>
                             rows'[k] = rows[k]
                   /\ rows[k].status = "pending" => rows'[k] = rows[k]
<1>1. ASSUME rows' = rows
      PROVE  Kept
  BY <1>1
<1>2. ASSUME NEW late, NEW recover, RequeueExpired(late, recover)
      PROVE  Kept
  <2>1. rows'[k] = RequeuedRows(late, recover)[k]
    BY <1>2 DEF RequeueExpired
  <2>2. QED
    BY <1>0, <2>1, RequeueFields DEF Expired
<1>3. ASSUME NEW j \in Job, NEW late \in ClockLag, TakeJob(w, j, late)
      PROVE  \/ Kept
             \/ k = j /\ (\A v \in Runner \ {w} :
                            /\ rows'[k].worker # v
                            /\ ~(Owns(v, k) /\ rows[k].leaseLeft > 0))
  <2>1. /\ rows'[j].worker = w
        /\ rows[j].status = "pending" \/ j \in Expired(late)
        /\ \A i \in Job \ {j} :
             IF i \in Expired(late)
             THEN /\ rows'[i].status \in {"pending", "dead_letter"}
                  /\ rows'[i].worker = NoRunner
                  /\ rows'[i].attempts = rows[i].attempts
             ELSE rows'[i] = rows[i]
    BY <1>0, <1>3, TakeFields
  <2>2. ASSUME k = j, NEW v \in Runner \ {w}
        PROVE  rows'[k].worker # v /\ ~(Owns(v, k) /\ rows[k].leaseLeft > 0)
    BY <2>1, <2>2 DEF Owns, Expired
  <2>3. ASSUME k # j
        PROVE  Kept
    <3>1. IF k \in Expired(late)
          THEN rows'[k].worker = NoRunner
          ELSE rows'[k] = rows[k]
      BY <2>1, <2>3
    <3>2. QED
      BY <1>0, <3>1 DEF Owns, Expired
  <2>4. QED
    BY <2>2, <2>3
<1>4. ASSUME NEW j \in Job, Complete(w, j)
      PROVE  Kept
  BY <1>0, <1>4, CompleteFields DEF Owns
<1>5. ASSUME NEW j \in Job, NEW retryable, Fail(w, j, retryable)
      PROVE  Kept
  BY <1>0, <1>5, FailFields DEF Owns
<1>6. ASSUME NEW j \in Job, Heartbeat(w, j)
      PROVE  Kept
  BY <1>0, <1>6, HeartbeatFields DEF Owns
<1>7. CASE \/ Start(w) \/ ReadPauses(w) \/ ReadGate(w) \/ ReadArchives(w)
           \/ CheckRecovery(w) \/ HandlerReturns(w) \/ HandlerRaises(w)
  <2>1. rows' = rows /\ held' = held
    BY <1>7 DEF Start, ReadPauses, ReadGate, ReadArchives, CheckRecovery,
                HandlerReturns, HandlerRaises, Privately, vars, history
  <2>2. QED
    BY <2>1
<1>8. ASSUME NEW j \in Job, NEW late \in ClockLag, TakeJob(w, j, late)
      PROVE  (Kept /\ held' = held \ {j}) \/ (k = j /\ held' = held \ {j})
  BY <1>3, <1>8 DEF TakeJob
<1>9. ASSUME NEW late \in ClockLag, TakeNothing(w, late)
      PROVE  Kept /\ held' = held
  BY <1>1, <1>2, <1>9 DEF TakeNothing, LeaseNothing, NothingToLease, vars,
                          history
<1>10. CASE ArchiveRun(w)
  BY <1>1, <1>10 DEF ArchiveRun, vars, history
<1>11. CASE Beat(w)
  <2>1. run[w].job \in Job /\ held' = held
    BY <1>11 DEF Beat, HandlerHasJob
  <2>2. QED
    BY <1>1, <1>6, <1>11, <2>1 DEF Beat, vars
<1>12. CASE Acknowledge(w)
  <2>1. run[w].job \in Job /\ held' = held
    BY <1>12 DEF Acknowledge, HandlerHasJob, InHandler, history
  <2>2. QED
    BY <1>1, <1>4, <1>12, <2>1 DEF Acknowledge, LeaseLost, vars
<1>13. CASE FailJob(w)
  <2>1. run[w].job \in Job /\ held' = held
    BY <1>13 DEF FailJob, FailJobAs, HandlerHasJob, InHandler, history
  <2>2. QED
    BY <1>1, <1>5, <1>13, <2>1 DEF FailJob, FailJobAs, LeaseLost, vars
<1>14. QED
  BY <1>3, <1>7, <1>8, <1>9, <1>10, <1>11, <1>12, <1>13, Zenon DEF RunStep

\* Nor does it change what the others have read, or a boundary.
LEMMA OthersRuns ==
  ASSUME RunnerTypeOK, NEW w \in Runner, RunStep(w)
  PROVE  /\ paused' = paused /\ gate' = gate
         /\ overdue => overdue'
         /\ held' \subseteq held
         /\ \A v \in Runner \ {w} : run'[v] = run[v] /\ slipped'[v] = slipped[v]
<1>0. run \in [Runner -> RunState]
      /\ slipped \in [Runner -> SUBSET (Pausable \cup {Nobody})]
  BY DEF RunnerTypeOK
<1>1. CASE \/ Start(w) \/ ReadPauses(w) \/ ReadGate(w) \/ ReadArchives(w)
           \/ CheckRecovery(w) \/ HandlerReturns(w) \/ HandlerRaises(w)
  BY <1>0, <1>1 DEF Start, ReadPauses, ReadGate, ReadArchives, CheckRecovery,
                    HandlerReturns, HandlerRaises, Privately, history
<1>2. ASSUME NEW j \in Job, NEW late \in ClockLag, TakeJob(w, j, late)
      PROVE  /\ paused' = paused /\ gate' = gate /\ overdue' = overdue
             /\ held' \subseteq held
             /\ \A v \in Runner \ {w} :
                  run'[v] = run[v] /\ slipped'[v] = slipped[v]
  <2>1. \A v \in Runner \ {w} : slipped'[v] = slipped[v]
    BY <1>0, <1>2 DEF TakeJob
  <2>2. \A v \in Runner \ {w} : run'[v] = run[v]
    BY <1>0, <1>2 DEF TakeJob
  <2>3. QED
    BY <1>2, <2>1, <2>2 DEF TakeJob
<1>3. CASE \/ \E late \in ClockLag : TakeNothing(w, late)
           \/ ArchiveRun(w)
  <2>1. /\ paused' = paused /\ gate' = gate /\ slipped' = slipped
        /\ overdue' = overdue /\ held' = held
        /\ run' = run \/ run' = [run EXCEPT ![w] = Off]
    BY <1>3 DEF TakeNothing, ArchiveRun, history
  <2>2. QED
    BY <1>0, <2>1
<1>4. CASE Beat(w)
  <2>1. /\ paused' = paused /\ gate' = gate /\ slipped' = slipped
        /\ held' = held /\ (overdue => overdue')
    BY <1>4 DEF Beat
  <2>2. \A v \in Runner \ {w} : run'[v] = run[v]
    BY <1>0, <1>4 DEF Beat
  <2>3. QED
    BY <2>1, <2>2
<1>5. CASE Acknowledge(w) \/ FailJob(w)
  BY <1>0, <1>5 DEF Acknowledge, FailJob, FailJobAs, LeaseLost, history
<1>6. QED
  BY <1>1, <1>2, <1>3, <1>4, <1>5 DEF RunStep

\* A step that only a process's own state shows.
LEMMA PrivateInv ==
  ASSUME RunnerTypeOK, NEW w \in Runner, InvOf(w), NEW r, Privately(w, r),
         r.pc \in {"leased", "working", "returned", "raised"} =>
           /\ InHandler(w)
           /\ r.job = run[w].job /\ r.attempt = run[w].attempt
           /\ r.since = run[w].since,
         r.pc \notin {"leased", "working", "returned", "raised"} =>
           /\ r.beat = "off"
           /\ r.pc = "off" \/ \A j \in Job : rows[j].worker # w,
         r.pc \in {"archives", "lease"} => Nobody \notin slipped[w],
         r.pc \in {"gate", "archives", "lease"} =>
           \A j \in held :
             BranchOf[j] \in slipped[w] => BranchOf[j] \in r.excluded
  PROVE  InvOf(w)'
<1>1. run'[w] = r
  BY DEF RunnerTypeOK, Privately
<1>2. /\ rows' = rows /\ paused' = paused /\ gate' = gate /\ held' = held
      /\ overdue' = overdue /\ slipped' = slipped
  BY DEF Privately, vars, history
<1>3. InHandler(w)' <=> r.pc \in {"leased", "working", "returned", "raised"}
  BY <1>1 DEF InHandler
<1>4. Owns(w, run[w].job)' <=> Owns(w, r.job)
  BY <1>1, <1>2 DEF Owns
<1>5. (InHandler(w) => run[w].job \in Job)' /\ (run[w].beat # "off" => InHandler(w))'
  BY <1>1, <1>3 DEF InvOf
<1>6. (\A j \in Job : rows[j].worker = w =>
         \/ run[w].pc = "off"
         \/ InHandler(w) /\ run[w].job = j /\ run[w].attempt = rows[j].attempts)'
  BY <1>1, <1>2, <1>3 DEF InvOf, InHandler
<1>7. (~overdue => (InHandler(w) =>
         /\ Owns(w, run[w].job)
         /\ rows[run[w].job].leaseLeft = LeaseTicks - run[w].since))'
  BY <1>1, <1>2, <1>3, <1>4 DEF InvOf
<1>8. /\ (slipped[w] \subseteq paused \cup {Nobody})'
      /\ (Nobody \in slipped[w] =>
            UntilHuman /\ gate /\ run[w].pc \notin {"archives", "lease"})'
  BY <1>1, <1>2 DEF InvOf
<1>9. (run[w].pc \in {"gate", "archives", "lease"} =>
         \A j \in held :
           BranchOf[j] \in slipped[w] => BranchOf[j] \in run[w].excluded)'
  BY <1>1, <1>2
<1>10. QED
  BY <1>5, <1>6, <1>7, <1>8, <1>9 DEF InvOf

\* The steps up to the lease: what is read decides what may be taken.
LEMMA ReadingInv ==
  ASSUME RunnerTypeOK, RunnerInv, NEW w \in Runner,
         \/ Start(w) \/ ReadPauses(w) \/ ReadGate(w) \/ ReadArchives(w)
         \/ CheckRecovery(w) \/ HandlerReturns(w) \/ HandlerRaises(w)
  PROVE  InvOf(w)'
<1>0. /\ run[w] \in RunState
      /\ HeldWait /\ InvOf(w)
  BY OffType, InvSplit DEF RunnerTypeOK
<1>1. (run[w].pc \notin {"off", "leased", "working", "returned", "raised"}) =>
        (run[w].beat = "off" /\ \A j \in Job : rows[j].worker # w)
  BY <1>0 DEF InvOf, InHandler
<1>2. CASE Start(w)
  <2> DEFINE r == [Off EXCEPT !.pc = "pauses"]
  <2>1. r.pc = "pauses" /\ r.beat = "off"
    BY DEF Off
  <2>2. Privately(w, r) /\ \A j \in Job : rows[j].worker # w
    BY <1>2 DEF Start
  <2> HIDE DEF r
  <2>3. QED
    BY <1>0, <2>1, <2>2, PrivateInv
<1>3. CASE ReadPauses(w)
  <2> DEFINE r == [run[w] EXCEPT !.pc = "gate", !.excluded = PausedJobBranches]
  <2>1. r.pc = "gate" /\ r.beat = run[w].beat /\ r.excluded = PausedJobBranches
    BY <1>0 DEF RunState
  <2>2. Privately(w, r) /\ run[w].pc = "pauses"
    BY <1>3 DEF ReadPauses
  <2>3. \A j \in held : BranchOf[j] \in PausedJobBranches
    BY <1>0 DEF HeldWait, PausedJobBranches, RunnerTypeOK
  <2> HIDE DEF r
  <2>4. QED
    BY <1>0, <1>1, <2>1, <2>2, <2>3, PrivateInv
<1>4. CASE ReadGate(w)
  <2>1. CASE UntilHuman /\ gate
    <3>1. Privately(w, Off) /\ Off.pc = "off" /\ Off.beat = "off"
      BY <1>4, <2>1 DEF ReadGate, Off
    <3>2. QED
      BY <1>0, <3>1, PrivateInv
  <2>2. CASE ~(UntilHuman /\ gate)
    <3> DEFINE r == [run[w] EXCEPT !.pc = "archives"]
    <3>1. r.pc = "archives" /\ r.beat = run[w].beat
          /\ r.excluded = run[w].excluded
      BY <1>0 DEF RunState
    <3>2. Privately(w, r) /\ run[w].pc = "gate"
      BY <1>4, <2>2 DEF ReadGate
    <3>3. Nobody \notin slipped[w]
      BY <1>0, <2>2 DEF InvOf
    <3>4. \A j \in held :
            BranchOf[j] \in slipped[w] => BranchOf[j] \in r.excluded
      BY <1>0, <3>1, <3>2 DEF InvOf
    <3> HIDE DEF r
    <3>5. QED
      BY <1>0, <1>1, <3>1, <3>2, <3>3, <3>4, PrivateInv
  <2>3. QED
    BY <2>1, <2>2
<1>5. CASE ReadArchives(w)
  <2> DEFINE r == [run[w] EXCEPT !.pc = "lease",
                                 !.recover = Expired({}) \cap archived]
  <2>1. r.pc = "lease" /\ r.beat = run[w].beat /\ r.excluded = run[w].excluded
    BY <1>0 DEF RunState
  <2>2. Privately(w, r) /\ run[w].pc = "archives"
    BY <1>5 DEF ReadArchives
  <2>3. /\ Nobody \notin slipped[w]
        /\ \A j \in held :
             BranchOf[j] \in slipped[w] => BranchOf[j] \in r.excluded
    BY <1>0, <2>1, <2>2 DEF InvOf
  <2> HIDE DEF r
  <2>4. QED
    BY <1>0, <1>1, <2>1, <2>2, <2>3, PrivateInv
<1>6. ASSUME NEW r, Privately(w, r), InHandler(w),
             r.pc \in {"leased", "working", "returned", "raised"},
             r.job = run[w].job, r.attempt = run[w].attempt,
             r.since = run[w].since
      PROVE  InvOf(w)'
  BY <1>0, <1>6, PrivateInv
<1>7. CASE CheckRecovery(w)
  <2> DEFINE r == [run[w] EXCEPT
                     !.pc = "working", !.beat = "on",
                     !.recoveryOnly = IsArchiveRecoveryLease(run[w].job, w)]
  <2>1. /\ r.pc = "working" /\ r.job = run[w].job /\ r.attempt = run[w].attempt
        /\ r.since = run[w].since
    BY <1>0 DEF RunState
  <2>2. Privately(w, r) /\ InHandler(w)
    BY <1>7 DEF CheckRecovery, InHandler
  <2> HIDE DEF r
  <2>3. QED
    BY <1>6, <2>1, <2>2
<1>8. CASE HandlerReturns(w) \/ HandlerRaises(w)
  <2>1. PICK pc \in {"returned", "raised"} :
          Privately(w, [run[w] EXCEPT !.pc = pc])
    BY <1>8 DEF HandlerReturns, HandlerRaises
  <2> DEFINE r == [run[w] EXCEPT !.pc = pc]
  <2>2. /\ r.pc = pc /\ r.job = run[w].job /\ r.attempt = run[w].attempt
        /\ r.since = run[w].since
    BY <1>0 DEF RunState
  <2>3. Privately(w, r) /\ InHandler(w)
    BY <1>8, <2>1 DEF HandlerReturns, HandlerRaises, InHandler
  <2> HIDE DEF r
  <2>4. QED
    BY <1>6, <2>2, <2>3
<1>9. QED
  BY <1>2, <1>3, <1>4, <1>5, <1>7, <1>8

\* A process that leaves its job behind, or had none, owns no row any more.
LEMMA LeavingInv ==
  ASSUME RunnerTypeOK, NEW w \in Runner, InvOf(w), NEW r,
         run' = [run EXCEPT ![w] = r], r.pc \in {"off", "pauses"},
         r.beat = "off", r.pc = "off" \/ \A j \in Job : rows'[j].worker # w,
         UNCHANGED <<paused, gate, held, slipped>>
  PROVE  InvOf(w)'
<1>1. run'[w] = r
  BY DEF RunnerTypeOK
<1>2. ~InHandler(w)'
  BY <1>1 DEF InHandler
<1>3. (slipped[w] \subseteq paused \cup {Nobody})'
      /\ (Nobody \in slipped[w] => UntilHuman /\ gate)'
  BY DEF InvOf
<1>4. QED
  BY <1>1, <1>2, <1>3 DEF InvOf

\* The lease belongs to the process from here on; what was up is crossed.
LEMMA TakeInv ==
  ASSUME RunnerTypeOK, RunnerInv, NEW w \in Runner, NEW j \in Job,
         NEW late \in ClockLag, TakeJob(w, j, late)
  PROVE  InvOf(w)'
<1>0. /\ TypeOK /\ run \in [Runner -> RunState] /\ HeldWait /\ InvOf(w)
      /\ slipped \in [Runner -> SUBSET (Pausable \cup {Nobody})]
      /\ paused \subseteq Branch /\ NoRunner \notin Runner
  BY InvSplit, RunnerAssumption, QueueAssumption DEF RunnerTypeOK
<1>1. /\ run'[w].pc = "leased" /\ run'[w].job = j
      /\ run'[w].attempt = rows'[j].attempts /\ run'[w].since = 0
  <2>1. run' = [run EXCEPT ![w] =
                  [run[w] EXCEPT !.pc = "leased", !.job = j,
                     !.attempt = rows'[j].attempts, !.since = 0,
                     !.excluded = {}, !.recover = {}]]
    BY <1>0 DEF TakeJob
  <2>2. QED
    BY <1>0, <2>1 DEF RunState
<1>2. /\ rows'[j].worker = w /\ rows'[j].status = "leased"
      /\ rows'[j].leaseLeft = LeaseTicks - 0
  BY <1>0, TakeFields, QueueAssumption
<1>3. ASSUME NEW k \in Job, rows'[k].worker = w
      PROVE  k = j
  <2>1. rows[k].worker # w
    BY <1>0 DEF InvOf, InHandler, TakeJob
  <2>2. QED
    BY <1>0, <1>3, <2>1, TakeFields
<1>4. /\ slipped'[w] = slipped[w] \cup Crossed(j)
      /\ paused' = paused /\ gate' = gate
  BY <1>0 DEF TakeJob
<1>5. /\ Crossed(j) \subseteq paused \cup {Nobody}
      /\ Nobody \in Crossed(j) => UntilHuman /\ gate
  BY <1>0, QueueAssumption DEF Crossed, HeldWait
<1>6. (slipped[w] \subseteq paused \cup {Nobody})'
      /\ (Nobody \in slipped[w] => UntilHuman /\ gate)'
  BY <1>0, <1>4, <1>5 DEF InvOf
<1>7. InHandler(w)' /\ Owns(w, run[w].job)'
  BY <1>1, <1>2 DEF InHandler, Owns
<1>8. (\A k \in Job : rows[k].worker = w =>
         run[w].job = k /\ run[w].attempt = rows[k].attempts)'
  BY <1>1, <1>3
<1>9. (rows[run[w].job].leaseLeft = LeaseTicks - run[w].since)'
  BY <1>1, <1>2
<1>10. QED
  BY <1>1, <1>6, <1>7, <1>8, <1>9 DEF InvOf

\* A heartbeat extends the lease, or says that heartbeats are late.
LEMMA BeatInv ==
  ASSUME RunnerTypeOK, RunnerInv, NEW w \in Runner, Beat(w)
  PROVE  InvOf(w)'
<1> DEFINE j == run[w].job
<1>0. /\ TypeOK /\ run \in [Runner -> RunState] /\ InvOf(w)
      /\ InHandler(w) /\ run[w].job \in Job /\ run[w].pc # "off"
  BY InvSplit DEF RunnerTypeOK, InvOf, Beat, InHandler
<1>1. /\ paused' = paused /\ gate' = gate /\ held' = held /\ slipped' = slipped
  BY DEF Beat
<1>2. CASE /\ Heartbeat(w, run[w].job)
           /\ run' = [run EXCEPT ![w].since = 0]
           /\ UNCHANGED overdue
  <2>1. /\ run'[w].pc = run[w].pc /\ run'[w].job = run[w].job
        /\ run'[w].attempt = run[w].attempt /\ run'[w].since = 0
    BY <1>0, <1>2 DEF RunState
  <2>2. /\ rows'[j].status = "leased" /\ rows'[j].worker = w
        /\ rows[j].worker = w /\ rows'[j].attempts = rows[j].attempts
        /\ rows'[j].leaseLeft = LeaseTicks - 0
        /\ \A k \in Job \ {j} : rows'[k] = rows[k]
    BY <1>0, <1>2, HeartbeatFields, QueueAssumption DEF Owns
  <2>3. InHandler(w)' /\ Owns(w, run[w].job)'
    BY <1>0, <2>1, <2>2 DEF InHandler, Owns
  <2>4. (\A k \in Job : rows[k].worker = w =>
           run[w].job = k /\ run[w].attempt = rows[k].attempts)'
    BY <1>0, <2>1, <2>2 DEF InvOf
  <2>5. (rows[run[w].job].leaseLeft = LeaseTicks - run[w].since)'
    BY <2>1, <2>2
  <2>6. (slipped[w] \subseteq paused \cup {Nobody})'
        /\ (Nobody \in slipped[w] => UntilHuman /\ gate)'
        /\ run'[w].pc \notin {"gate", "archives", "lease"}
    BY <1>0, <1>1, <2>1 DEF InvOf, InHandler
  <2>7. run'[w].job \in Job
    BY <1>0, <2>1
  <2>8. QED
    BY <2>3, <2>4, <2>5, <2>6, <2>7 DEF InvOf
<1>3. CASE /\ run' = [run EXCEPT ![w].beat = "failed"]
           /\ overdue' = TRUE
           /\ UNCHANGED vars
  <2>1. /\ run'[w].pc = run[w].pc /\ run'[w].job = run[w].job
        /\ run'[w].attempt = run[w].attempt
    BY <1>0, <1>3 DEF RunState
  <2>2. rows' = rows
    BY <1>3 DEF vars
  <2>3. InHandler(w)' /\ overdue'
    BY <1>0, <1>3, <2>1 DEF InHandler
  <2>4. (\A k \in Job : rows[k].worker = w =>
           run[w].job = k /\ run[w].attempt = rows[k].attempts)'
    BY <1>0, <2>1, <2>2 DEF InvOf
  <2>5. (slipped[w] \subseteq paused \cup {Nobody})'
        /\ (Nobody \in slipped[w] => UntilHuman /\ gate)'
        /\ run'[w].pc \notin {"gate", "archives", "lease"}
    BY <1>0, <1>1, <2>1 DEF InvOf, InHandler
  <2>6. run'[w].job \in Job
    BY <1>0, <2>1
  <2>7. QED
    BY <2>3, <2>4, <2>5, <2>6 DEF InvOf
<1>4. QED
  BY <1>2, <1>3 DEF Beat

\* An acknowledgement gives the lease back, whatever its outcome.
LEMMA SettlingInv ==
  ASSUME RunnerTypeOK, QueueInv, RunnerInv, NEW w \in Runner,
         Acknowledge(w) \/ FailJob(w)
  PROVE  InvOf(w)'
<1>0. /\ TypeOK /\ InvOf(w) /\ InHandler(w) /\ run[w].job \in Job
      /\ NoRunner \notin Runner
  BY InvSplit, QueueAssumption
     DEF RunnerTypeOK, InvOf, Acknowledge, FailJob, FailJobAs, InHandler
<1>1. UNCHANGED <<paused, gate, held, slipped>>
  BY DEF Acknowledge, FailJob, FailJobAs, history
<1>2. CASE LeaseLost(w)
  <2>1. Off.pc = "off" /\ Off.beat = "off"
    BY DEF Off
  <2>2. QED
    BY <1>0, <1>1, <1>2, <2>1, LeavingInv DEF LeaseLost
<1>3. ASSUME /\ rows'[run[w].job].worker = NoRunner
             /\ \A k \in Job \ {run[w].job} : rows'[k] = rows[k],
             NEW r \in NextIteration(run[w]), run' = [run EXCEPT ![w] = r]
      PROVE  InvOf(w)'
  <2>1. \A k \in Job : rows'[k].worker # w
    BY <1>0, <1>3 DEF InvOf, InHandler
  <2>2. r.pc \in {"off", "pauses"} /\ r.beat = "off"
    BY <1>3, NextIterationType
  <2>3. QED
    BY <1>0, <1>1, <1>3, <2>1, <2>2, LeavingInv
<1>4. CASE Acknowledge(w)
  BY <1>0, <1>2, <1>3, <1>4, CompleteFields DEF Acknowledge
<1>5. CASE FailJob(w)
  BY <1>0, <1>2, <1>3, <1>5, FailFields DEF FailJob, FailJobAs
<1>6. QED
  BY <1>4, <1>5

\* A step of one process leaves the others what they have.
LEMMA OthersInv ==
  ASSUME RunnerTypeOK, RunnerInv, NEW w \in Runner, RunStep(w),
         NEW v \in Runner \ {w}
  PROVE  InvOf(v)'
<1>0. /\ InvOf(v) /\ HandlerHasJob /\ run[v].since \in 0 .. BeatEvery
  BY InvSplit, ReadType DEF RunnerInv
<1>1. /\ run'[v] = run[v] /\ slipped'[v] = slipped[v] /\ held' \subseteq held
      /\ paused' = paused /\ gate' = gate /\ (overdue => overdue')
  BY OthersRuns
<1>2. \A k \in Job :
        /\ rows'[k].worker = v =>
             rows[k].worker = v /\ rows'[k].attempts = rows[k].attempts
        /\ Owns(v, k) /\ rows[k].leaseLeft > 0 => rows'[k] = rows[k]
  BY <1>0, OthersRows
<1>3. InHandler(v)' <=> InHandler(v)
  BY <1>1 DEF InHandler
<1>4. (~overdue => (InHandler(v) =>
         /\ Owns(v, run[v].job)
         /\ rows[run[v].job].leaseLeft = LeaseTicks - run[v].since))'
  <2>1. SUFFICES ASSUME ~overdue', InHandler(v)'
                 PROVE  (/\ Owns(v, run[v].job)
                         /\ rows[run[v].job].leaseLeft
                              = LeaseTicks - run[v].since)'
    OBVIOUS
  <2>2. /\ run[v].job \in Job /\ Owns(v, run[v].job)
        /\ rows[run[v].job].leaseLeft = LeaseTicks - run[v].since
    BY <1>0, <1>1, <1>3, <2>1 DEF InvOf
  <2>3. rows[run[v].job].leaseLeft > 0
    BY <1>0, <2>2, RunnerAssumption, QueueAssumption
  <2>4. rows'[run[v].job] = rows[run[v].job]
    BY <1>2, <2>2, <2>3
  <2>5. QED
    BY <1>1, <2>2, <2>4 DEF Owns
<1>5. (\A k \in Job : rows[k].worker = v =>
         \/ run[v].pc = "off"
         \/ InHandler(v) /\ run[v].job = k /\ run[v].attempt = rows[k].attempts)'
  BY <1>0, <1>1, <1>2, <1>3 DEF InvOf
<1>6. /\ (InHandler(v) => run[v].job \in Job)'
      /\ (run[v].beat # "off" => InHandler(v))'
      /\ (slipped[v] \subseteq paused \cup {Nobody})'
      /\ (Nobody \in slipped[v] =>
            UntilHuman /\ gate /\ run[v].pc \notin {"archives", "lease"})'
  BY <1>0, <1>1, <1>3 DEF InvOf
<1>7. (run[v].pc \in {"gate", "archives", "lease"} =>
         \A j \in held :
           BranchOf[j] \in slipped[v] => BranchOf[j] \in run[v].excluded)'
  BY <1>0, <1>1 DEF InvOf
<1>8. QED
  BY <1>4, <1>5, <1>6, <1>7 DEF InvOf

\* The steps of one process keep the invariant.
LEMMA RunStepInv ==
  ASSUME RunnerTypeOK, QueueInv, RunnerInv, NEW w \in Runner, RunStep(w)
  PROVE  RunnerInv'
<1>0. /\ HandlerHasJob /\ HeldWait /\ InvOf(w) /\ held \subseteq Job
  BY InvSplit DEF RunnerInv, RunnerTypeOK
<1>1. HeldWait'
  <2>1. paused' = paused /\ held' \subseteq held
    BY OthersRuns
  <2>2. QED
    BY <1>0, <2>1, OthersRows DEF HeldWait
<1>2. CASE \E late \in ClockLag : TakeNothing(w, late)
  <2>1. Off.pc = "off" /\ Off.beat = "off"
    BY DEF Off
  <2>2. run' = [run EXCEPT ![w] = Off] /\ UNCHANGED <<paused, gate, held, slipped>>
    BY <1>2 DEF TakeNothing, history
  <2>3. InvOf(w)'
    BY <1>0, <2>1, <2>2, LeavingInv
  <2>4. QED
    BY <1>1, <2>3, OthersInv, InvSplit
<1>3. CASE ArchiveRun(w)
  <2>1. /\ rows' = rows /\ run' = run /\ paused' = paused /\ gate' = gate
        /\ held' = held /\ overdue' = overdue /\ slipped' = slipped
    BY <1>3 DEF ArchiveRun, vars, history
  <2>2. InvOf(w)'
    BY <1>0, <2>1 DEF InvOf, InHandler, Owns
  <2>3. QED
    BY <1>1, <2>2, OthersInv, InvSplit
<1>4. InvOf(w)' \/ (\E late \in ClockLag : TakeNothing(w, late)) \/ ArchiveRun(w)
  BY ReadingInv, TakeInv, BeatInv, SettlingInv DEF RunStep
<1>5. QED
  BY <1>1, <1>2, <1>3, <1>4, OthersInv, InvSplit

\* The part of the invariant that tells of leases depends on the rows, on what
\* each process does, and on whether heartbeats are late.
LEMMA StillInv ==
  ASSUME RunnerTypeOK, NEW v \in Runner, InvOf(v), rows' = rows,
         run'[v] = run[v], overdue' = overdue,
         (slipped[v] \subseteq paused \cup {Nobody})',
         (Nobody \in slipped[v] =>
            UntilHuman /\ gate /\ run[v].pc \notin {"archives", "lease"})',
         (run[v].pc \in {"gate", "archives", "lease"} =>
            \A j \in held :
              BranchOf[j] \in slipped[v] => BranchOf[j] \in run[v].excluded)'
  PROVE  InvOf(v)'
<1>1. InHandler(v)' <=> InHandler(v)
  BY DEF InHandler
<1>2. Owns(v, run[v].job)' <=> Owns(v, run[v].job)
  BY DEF Owns
<1>3. QED
  BY <1>1, <1>2 DEF InvOf

\* A process that dies leaves its row leased to nobody that lives.
LEMMA CrashInv ==
  ASSUME RunnerTypeOK, RunnerInv, NEW w \in Runner, Crash(w)
  PROVE  RunnerInv'
<1>0. /\ HeldWait /\ \A v \in Runner : InvOf(v)
      /\ run \in [Runner -> RunState]
  BY InvSplit DEF RunnerTypeOK
<1>1. /\ rows' = rows /\ paused' = paused /\ gate' = gate /\ held' = held
      /\ slipped' = slipped /\ overdue' = overdue
      /\ run' = [run EXCEPT ![w] = Off]
  BY DEF Crash, vars
<1>2. InvOf(w)'
  <2>1. Off.pc = "off" /\ Off.beat = "off"
    BY DEF Off
  <2>2. QED
    BY <1>0, <1>1, <2>1, LeavingInv
<1>3. ASSUME NEW v \in Runner \ {w}
      PROVE  InvOf(v)'
  <2>1. run'[v] = run[v]
    BY <1>0, <1>1
  <2>2. InvOf(v)
    BY <1>0
  <2>3. QED
    BY <1>1, <2>1, <2>2, StillInv DEF InvOf
<1>4. HeldWait'
  BY <1>0, <1>1 DEF HeldWait
<1>5. QED
  BY <1>2, <1>3, <1>4, InvSplit

\* A boundary that comes up, or goes, forgets who crossed it before.
LEMMA BoundaryInv ==
  ASSUME RunnerTypeOK, RunnerInv,
         HumanGate \/ \E b \in Pausable : Pause(b) \/ Resume(b)
  PROVE  RunnerInv'
<1>0. /\ HeldWait /\ \A v \in Runner : InvOf(v)
      /\ slipped \in [Runner -> SUBSET (Pausable \cup {Nobody})]
      /\ Nobody \notin Pausable
  BY InvSplit, RunnerAssumption, QueueAssumption DEF RunnerTypeOK
<1>1. rows' = rows /\ run' = run /\ overdue' = overdue
  BY DEF HumanGate, Pause, Resume, vars
<1>2. ASSUME NEW b \in Pausable, Pause(b)
      PROVE  RunnerInv'
  <2>1. /\ paused' = paused \cup {b} /\ held' = held \cup WaitingOn(b)
        /\ gate' = gate
        /\ \A v \in Runner : slipped'[v] = slipped[v] \ {b}
    BY <1>2 DEF Pause
  <2>2. HeldWait'
    BY <1>0, <1>1, <2>1 DEF HeldWait, WaitingOn
  <2>3. ASSUME NEW v \in Runner
        PROVE  InvOf(v)'
    <3>1. InvOf(v) /\ slipped'[v] \subseteq slipped[v] /\ b \notin slipped'[v]
          /\ run'[v] = run[v]
      BY <1>0, <1>1, <2>1
    <3>2. \A j \in held' : BranchOf[j] \in slipped'[v] => j \in held
      BY <2>1, <3>1 DEF WaitingOn
    <3>3. QED
      BY <1>1, <2>1, <3>1, <3>2, StillInv DEF InvOf
  <2>4. QED
    BY <2>2, <2>3, InvSplit
<1>3. ASSUME NEW b \in Pausable, Resume(b)
      PROVE  RunnerInv'
  <2>1. /\ paused' = paused \ {b} /\ held' = {j \in held : BranchOf[j] # b}
        /\ gate' = gate
        /\ \A v \in Runner : slipped'[v] = slipped[v] \ {b}
    BY <1>3 DEF Resume
  <2>2. HeldWait'
    BY <1>0, <1>1, <2>1 DEF HeldWait
  <2>3. ASSUME NEW v \in Runner
        PROVE  InvOf(v)'
    <3>1. InvOf(v) /\ slipped'[v] = slipped[v] \ {b} /\ held' \subseteq held
          /\ run'[v] = run[v]
      BY <1>0, <1>1, <2>1
    <3>2. QED
      BY <1>1, <2>1, <3>1, StillInv DEF InvOf
  <2>4. QED
    BY <2>2, <2>3, InvSplit
<1>4. CASE HumanGate
  <2>1. /\ paused' = paused /\ held' = held
        /\ \A v \in Runner : slipped'[v] = slipped[v] \ {Nobody}
    BY <1>4 DEF HumanGate
  <2>2. HeldWait'
    BY <1>0, <1>1, <2>1 DEF HeldWait
  <2>3. ASSUME NEW v \in Runner
        PROVE  InvOf(v)'
    <3>1. InvOf(v) /\ slipped'[v] = slipped[v] \ {Nobody} /\ run'[v] = run[v]
      BY <1>0, <1>1, <2>1
    <3>2. QED
      BY <1>1, <2>1, <3>1, StillInv DEF InvOf
  <2>4. QED
    BY <2>2, <2>3, InvSplit
<1>5. QED
  BY <1>2, <1>3, <1>4

\* The operator's commands concern jobs that no process works on.
LEMMA CommandInv ==
  ASSUME RunnerTypeOK, QueueInv, RunnerInv, QueueCommand
  PROVE  RunnerInv'
<1>0. /\ HeldWait /\ \A v \in Runner : InvOf(v)
      /\ TypeOK /\ held \subseteq Job /\ NoRunner \notin Runner
  BY InvSplit, QueueAssumption DEF RunnerTypeOK
<1>1. /\ run' = run /\ paused' = paused /\ gate' = gate /\ held' = held
      /\ slipped' = slipped /\ overdue' = overdue
  BY DEF QueueCommand, runnerVars, history
<1>2. \A k \in Job :
        \/ rows'[k] = rows[k]
        \/ /\ rows[k].status \in {"absent", "dead_letter"}
           /\ rows[k].worker = NoRunner
           /\ rows'[k].status = "pending" /\ rows'[k].worker = NoRunner
  BY <1>0, OperatorFields DEF QueueInv, Held
<1>3. HeldWait'
  BY <1>0, <1>1, <1>2 DEF HeldWait
<1>4. ASSUME NEW v \in Runner
      PROVE  InvOf(v)'
  <2>1. InvOf(v) /\ (InHandler(v)' <=> InHandler(v))
    BY <1>0, <1>1 DEF InHandler
  <2>2. (\A k \in Job : rows[k].worker = v =>
           \/ run[v].pc = "off"
           \/ InHandler(v) /\ run[v].job = k
              /\ run[v].attempt = rows[k].attempts)'
    BY <1>0, <1>1, <1>2, <2>1 DEF InvOf
  <2>3. (~overdue => (InHandler(v) =>
           /\ Owns(v, run[v].job)
           /\ rows[run[v].job].leaseLeft = LeaseTicks - run[v].since))'
    BY <1>1, <1>2, <2>1 DEF InvOf, Owns
  <2>4. QED
    BY <1>1, <2>1, <2>2, <2>3 DEF InvOf
<1>5. QED
  BY <1>3, <1>4, InvSplit

\* A lease on time loses a tick of what is left of it, and never its last.
LEMMA TimeInv ==
  ASSUME RunnerTypeOK, RunnerInv, TimePasses
  PROVE  RunnerInv'
<1>0. /\ HeldWait /\ \A v \in Runner : InvOf(v)
      /\ TypeOK /\ held \subseteq Job /\ run \in [Runner -> RunState]
  BY InvSplit DEF RunnerTypeOK
<1>1. /\ Tick /\ paused' = paused /\ gate' = gate /\ held' = held
      /\ slipped' = slipped
  BY DEF TimePasses
<1>2. \A k \in Job :
        /\ rows'[k].status = rows[k].status /\ rows'[k].worker = rows[k].worker
        /\ rows'[k].attempts = rows[k].attempts
        /\ rows[k].leaseLeft > 0 => rows'[k].leaseLeft = rows[k].leaseLeft - 1
  BY <1>0, <1>1, TickFields
<1>3. HeldWait'
  BY <1>0, <1>1, <1>2 DEF HeldWait
<1>4. ASSUME NEW v \in Runner
      PROVE  InvOf(v)'
  <2>1. InvOf(v) /\ run[v] \in RunState /\ run[v].since \in 0 .. BeatEvery
    BY <1>0, ReadType
  <2>2. run'[v] = [run[v] EXCEPT !.since = IF InHandler(v) /\ ~overdue'
                                           THEN run[v].since + 1 ELSE 0]
    BY DEF TimePasses
  <2>3. /\ run'[v].pc = run[v].pc /\ run'[v].job = run[v].job
        /\ run'[v].attempt = run[v].attempt /\ run'[v].beat = run[v].beat
        /\ run'[v].excluded = run[v].excluded
        /\ run'[v].since = IF InHandler(v) /\ ~overdue'
                           THEN run[v].since + 1 ELSE 0
    BY <2>1, <2>2 DEF RunState
  <2>4. InHandler(v)' <=> InHandler(v)
    BY <2>3 DEF InHandler
  <2>5. (\A k \in Job : rows[k].worker = v =>
           \/ run[v].pc = "off"
           \/ InHandler(v) /\ run[v].job = k
              /\ run[v].attempt = rows[k].attempts)'
    BY <1>2, <2>1, <2>3, <2>4 DEF InvOf
  <2>6. (~overdue => (InHandler(v) =>
           /\ Owns(v, run[v].job)
           /\ rows[run[v].job].leaseLeft = LeaseTicks - run[v].since))'
    <3>1. SUFFICES ASSUME ~overdue', InHandler(v)'
                   PROVE  (/\ Owns(v, run[v].job)
                           /\ rows[run[v].job].leaseLeft
                                = LeaseTicks - run[v].since)'
      OBVIOUS
    <3>2. ~overdue /\ InHandler(v)
      BY <2>4, <3>1 DEF TimePasses
    <3>3. /\ run[v].job \in Job /\ Owns(v, run[v].job)
          /\ rows[run[v].job].leaseLeft = LeaseTicks - run[v].since
      BY <2>1, <3>2 DEF InvOf
    <3>4. rows'[run[v].job].leaseLeft = LeaseTicks - (run[v].since + 1)
      BY <1>2, <2>1, <3>3, RunnerAssumption, QueueAssumption
    <3>5. run'[v].since = run[v].since + 1 /\ run'[v].job = run[v].job
      BY <2>3, <3>1, <3>2
    <3>6. QED
      BY <1>2, <3>3, <3>4, <3>5 DEF Owns
  <2>7. /\ (InHandler(v) => run[v].job \in Job)'
        /\ (run[v].beat # "off" => InHandler(v))'
        /\ (slipped[v] \subseteq paused \cup {Nobody})'
        /\ (Nobody \in slipped[v] =>
              UntilHuman /\ gate /\ run[v].pc \notin {"archives", "lease"})'
    BY <1>1, <2>1, <2>3, <2>4 DEF InvOf
  <2>8. (run[v].pc \in {"gate", "archives", "lease"} =>
           \A j \in held :
             BranchOf[j] \in slipped[v] => BranchOf[j] \in run[v].excluded)'
    BY <1>1, <2>1, <2>3 DEF InvOf
  <2>9. QED
    BY <2>5, <2>6, <2>7, <2>8 DEF InvOf
<1>5. QED
  BY <1>3, <1>4, InvSplit

\* RunnerInv is inductive, relative to the queue's own invariant.
LEMMA RunnerNextInv ==
  ASSUME RunnerTypeOK, QueueInv, RunnerInv, [RunnerNext]_allVars
  PROVE  RunnerInv'
<1>1. CASE UNCHANGED allVars
  <2>1. /\ rows' = rows /\ run' = run /\ paused' = paused /\ gate' = gate
        /\ held' = held /\ slipped' = slipped /\ overdue' = overdue
    BY <1>1 DEF allVars, vars, runnerVars, history
  <2>2. QED
    BY <2>1 DEF RunnerInv, HandlerHasJob, LeasedToHandler, LeaseOnTime,
                BoundariesRead, InHandler, Owns
<1>2. QED
  BY <1>1, RunStepInv, CrashInv, BoundaryInv, CommandInv, TimeInv DEF RunnerNext

(***************************************************************************)
(* Theorems                                                                *)
(***************************************************************************)
\* In every reachable state the queue's invariant and the loop's hold: a row
\* leased to a living process is the one it works on, in this attempt; a lease
\* whose heartbeats are on time never runs out; and what a process has read
\* excludes every branch it already took a job across.
THEOREM RunnerInvariant ==
  RunnerSpec => [](RunnerTypeOK /\ QueueInv /\ RunnerInv)
<1> DEFINE Inv == RunnerTypeOK /\ QueueInv /\ RunnerInv
<1>1. RunnerInit => Inv
  BY RunnerInitType, RunnerInitInv, InitInv DEF RunnerInit
<1>2. Inv /\ [RunnerNext]_allVars => Inv'
  <2> SUFFICES ASSUME Inv, [RunnerNext]_allVars
               PROVE  Inv'
    OBVIOUS
  <2>1. HandlerHasJob /\ BoundariesRead /\ TypeOK
    BY DEF RunnerInv, RunnerTypeOK
  <2>2. QueueInv'
    BY <2>1, RunnerStepIsQueueStep, NextInv
  <2>3. QED
    BY <2>1, <2>2, RunnerNextType, RunnerNextInv
<1>3. QED
  BY <1>1, <1>2, PTL DEF RunnerSpec

\* The types of the loop's state.
THEOREM RunnerTypes == RunnerSpec => []RunnerTypeOK
BY RunnerInvariant, PTL

\* Whatever the loops, the operator and the clock do is something the queue
\* does: every theorem about JobQueue holds of the automation, too.
THEOREM LoopUsesQueue == RunnerSpec => Spec
<1>1. RunnerInit => Init
  BY DEF RunnerInit
<1>2. RunnerTypeOK /\ RunnerInv /\ [RunnerNext]_allVars => [Next]_vars
  BY RunnerStepIsQueueStep DEF RunnerInv
<1>3. QED
  BY <1>1, <1>2, RunnerInvariant, PTL DEF RunnerSpec, Spec

\* As long as all heartbeats have been on time, a job has one handler: the
\* lease of a living process never runs out, so no other one is given the job.
THEOREM OneHandlerAtATime == RunnerSpec => []OneHandler
<1>1. QueueInv /\ RunnerInv => OneHandler
  BY DEF RunnerInv, HandlerHasJob, LeaseOnTime, Owns, OneHandler
<1>2. QED
  BY <1>1, RunnerInvariant, PTL

\* A row becomes completed only by an acknowledgement of its owner.
LEMMA OnlyAcknowledged ==
  ASSUME RunnerTypeOK, HandlerHasJob, RunnerNext, NEW k \in Job,
         rows[k].status # "completed", rows'[k].status = "completed"
  PROVE  \E w \in Runner : /\ run[w].pc = "returned" /\ run[w].job = k
                           /\ Owns(w, k)
<1>0. TypeOK
  BY DEF RunnerTypeOK
<1>1. ASSUME NEW w \in Runner, RunStep(w)
      PROVE  run[w].pc = "returned" /\ run[w].job = k /\ Owns(w, k)
  <2>1. rows' # rows /\ rows'[k] # rows[k]
    OBVIOUS
  <2>2. ASSUME NEW late, NEW recover
        PROVE  RequeuedRows(late, recover)[k].status # "completed"
    BY <1>0, RequeueFields
  <2>3. CASE \/ Start(w) \/ ReadPauses(w) \/ ReadGate(w) \/ ReadArchives(w)
             \/ CheckRecovery(w) \/ HandlerReturns(w) \/ HandlerRaises(w)
             \/ ArchiveRun(w)
    BY <2>1, <2>3 DEF Start, ReadPauses, ReadGate, ReadArchives, CheckRecovery,
                HandlerReturns, HandlerRaises, ArchiveRun, Privately, vars
  <2>4. ASSUME NEW j \in Job, NEW late \in ClockLag, TakeJob(w, j, late)
        PROVE  FALSE
    <3>1. CASE k = j
      BY <1>0, <2>4, <3>1, TakeFields
    <3>2. CASE k # j
      <4>1. rows'[k].status \in {"pending", "dead_letter"} \/ rows'[k] = rows[k]
        BY <1>0, <2>4, <3>2, TakeFields
      <4>2. QED
        BY <4>1
    <3>3. QED
      BY <3>1, <3>2
  <2>5. ASSUME NEW late \in ClockLag, TakeNothing(w, late)
        PROVE  FALSE
    BY <2>1, <2>2, <2>5 DEF TakeNothing, LeaseNothing, RequeueExpired,
                            NothingToLease, vars
  <2>6. CASE Beat(w)
    BY <1>0, <2>1, <2>6, HeartbeatFields DEF Beat, HandlerHasJob, vars
  <2>7. CASE Acknowledge(w)
    BY <1>0, <2>1, <2>7, CompleteFields
       DEF Acknowledge, LeaseLost, HandlerHasJob, InHandler, vars
  <2>8. CASE FailJob(w)
    BY <1>0, <2>1, <2>8, FailFields
       DEF FailJob, FailJobAs, LeaseLost, HandlerHasJob, InHandler, vars
  <2>9. QED
    BY <1>1, <2>3, <2>4, <2>5, <2>6, <2>7, <2>8, Zenon DEF RunStep
<1>2. ASSUME \/ \E w \in Runner : Crash(w)
             \/ \E b \in Pausable : Pause(b) \/ Resume(b)
             \/ HumanGate
      PROVE  rows' = rows
  BY <1>2 DEF Crash, Pause, Resume, HumanGate, vars
<1>3. ASSUME QueueCommand
      PROVE  rows'[k] = rows[k] \/ rows'[k].status = "pending"
  BY <1>0, <1>3, OperatorFields
<1>4. ASSUME TimePasses
      PROVE  rows'[k].status = rows[k].status
  BY <1>0, <1>4, TickFields DEF TimePasses
<1>5. QED
  BY <1>1, <1>2, <1>3, <1>4 DEF RunnerNext

\* A result is recorded only for the lease it was computed under.
THEOREM ResultsOfLeases == RunnerSpec => ResultOfItsLease
<1> DEFINE Sound ==
             \A j \in Job :
               (rows[j].status # "completed" /\ rows'[j].status = "completed") =>
                 \E w \in Runner : /\ run[w].pc = "returned" /\ run[w].job = j
                                   /\ run[w].attempt = rows[j].attempts
<1>1. RunnerTypeOK /\ RunnerInv /\ RunnerNext => Sound
  BY OnlyAcknowledged DEF RunnerInv, LeasedToHandler, Owns
<1>2. QED
  BY <1>1, RunnerInvariant, PTL DEF RunnerSpec, ResultOfItsLease

\* Only a call of lease by w gives w a row.
LEMMA OnlyTaken ==
  ASSUME RunnerTypeOK, QueueInv, HandlerHasJob, RunnerNext,
         NEW w \in Runner, NEW k \in Job, Takes(w, k)
  PROVE  \E late \in ClockLag : TakeJob(w, k, late)
<1>0. TypeOK /\ NoRunner \notin Runner
  BY QueueAssumption DEF RunnerTypeOK
<1>1. rows[k].worker # w /\ rows'[k].worker = w
  BY DEF Takes
<1>2. ASSUME NEW v \in Runner \ {w}, RunStep(v)
      PROVE  FALSE
  BY <1>1, <1>2, OthersRows
<1>3. CASE RunStep(w)
  <2>1. CASE \/ Start(w) \/ ReadPauses(w) \/ ReadGate(w) \/ ReadArchives(w)
             \/ CheckRecovery(w) \/ HandlerReturns(w) \/ HandlerRaises(w)
             \/ ArchiveRun(w)
    BY <1>1, <2>1 DEF Start, ReadPauses, ReadGate, ReadArchives, CheckRecovery,
                HandlerReturns, HandlerRaises, ArchiveRun, Privately, vars
  <2>2. ASSUME NEW j \in Job, NEW late \in ClockLag, TakeJob(w, j, late)
        PROVE  j = k
    BY <1>0, <1>1, <2>2, TakeFields
  <2>3. ASSUME NEW late \in ClockLag, TakeNothing(w, late)
        PROVE  FALSE
    <3>1. ASSUME NEW recover
          PROVE  RequeuedRows(late, recover)[k].worker # w
      BY <1>0, <1>1, RequeueFields
    <3>2. QED
      BY <1>1, <2>3, <3>1 DEF TakeNothing, LeaseNothing, RequeueExpired,
                              NothingToLease, vars
  <2>4. CASE Beat(w)
    BY <1>0, <1>1, <2>4, HeartbeatFields DEF Beat, HandlerHasJob, Owns, vars
  <2>5. CASE Acknowledge(w)
    BY <1>0, <1>1, <2>5, CompleteFields
       DEF Acknowledge, LeaseLost, HandlerHasJob, InHandler, vars
  <2>6. CASE FailJob(w)
    BY <1>0, <1>1, <2>6, FailFields
       DEF FailJob, FailJobAs, LeaseLost, HandlerHasJob, InHandler, vars
  <2>7. QED
    BY <1>3, <2>1, <2>2, <2>3, <2>4, <2>5, <2>6, Zenon DEF RunStep
<1>4. ASSUME \/ \E v \in Runner : Crash(v)
             \/ \E b \in Pausable : Pause(b) \/ Resume(b)
             \/ HumanGate
      PROVE  FALSE
  BY <1>1, <1>4 DEF Crash, Pause, Resume, HumanGate, vars
<1>5. ASSUME QueueCommand
      PROVE  FALSE
  BY <1>0, <1>1, <1>5, OperatorFields
<1>6. ASSUME TimePasses
      PROVE  FALSE
  BY <1>0, <1>1, <1>6, TickFields DEF TimePasses
<1>7. QED
  BY <1>2, <1>3, <1>4, <1>5, <1>6 DEF RunnerNext

\* A pause or a human gate that comes up lets a process take one more waiting
\* job, never a second one.
THEOREM BoundariesHold == RunnerSpec => OneJobAcrossABoundary
<1> DEFINE Holds == \A w \in Runner, j \in Job :
                      Takes(w, j) => Crossed(j) \cap slipped[w] = {}
<1>1. RunnerTypeOK /\ QueueInv /\ RunnerInv /\ RunnerNext => Holds
  <2> SUFFICES ASSUME RunnerTypeOK, QueueInv, RunnerInv, RunnerNext,
                      NEW w \in Runner, NEW j \in Job, Takes(w, j)
               PROVE  Crossed(j) \cap slipped[w] = {}
    OBVIOUS
  <2>1. PICK late \in ClockLag : TakeJob(w, j, late)
    BY OnlyTaken DEF RunnerInv
  <2>2. BranchOf[j] \notin run[w].excluded /\ run[w].pc = "lease"
    BY <2>1, TakeFields DEF TakeJob, RunnerTypeOK
  <2>3. QED
    BY <2>2 DEF RunnerInv, BoundariesRead, Crossed
<1>2. UNCHANGED allVars => Holds
  BY DEF allVars, vars, Takes
<1>3. QED
  BY <1>1, <1>2, RunnerInvariant, PTL DEF RunnerSpec, OneJobAcrossABoundary

===============================================================================
