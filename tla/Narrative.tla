------------------------------ MODULE Narrative ------------------------------
(***************************************************************************)
(* One session that the operator and a runner write to: questions and      *)
(* answers, forks, archived branches, curation, claims and canon.          *)
(*   services.py    ask, continue_session, _append, _last_event, _curate,  *)
(*                  approve_canon_candidate, fork, archive_session         *)
(*   branching.py   fork, checkpoint, archive                              *)
(*   projections.py the claims of a branch and what a fork inherits        *)
(*   store.py       what an append refuses                                 *)
(*                                                                         *)
(* Unless it is told its parent, a writer takes the last event of the      *)
(* branch, makes its event and appends it in a transaction of its own:     *)
(* between the two others may write.  `draft` is the event in between.     *)
(* What is done in one transaction is one step.  A process that dies before *)
(* it appends leaves its draft behind, and no other process sees it.        *)
(***************************************************************************)
EXTENDS EventLog

CONSTANTS
  Operator,       \* processes that take commands, the command line or the terminal
  Worker,         \* processes that execute jobs
  Limit,          \* bounds of the model on the events that are added, of some types
  MaxClaims,      \* bound of the model on the claims found in one output
  MaxClock        \* bound of the model on created_at, so on the events made

VARIABLES
  db,             \* the log and the tables projected from it
  clock,          \* created_at of the next event
  draft           \* the event each process has made and not yet appended

vars == <<db, clock, draft>>

Proc == Operator \cup Worker

Types == {"session.created", "human.input", "oracle.request", "oracle.output",
          "analysis.claim_detected", "human.reject", "human.keep",
          "session.checkpointed", "branch.archived", "session.forked",
          "worker.task_requested", "analysis.canon_candidate", "claim.promoted"}

ASSUME NarrativeAssumption ==
  /\ Limit \subseteq [types : SUBSET Types, max : Nat]
  /\ {MaxClaims, MaxClock} \subseteq Nat

\* `target` is the event a judgment is about, `approver` the human event a
\* promotion cites; a claim is named by the event that detected it.
EventRecord ==
  [type : Types, branch : Branch, parent : Nat, cause : Nat, target : Nat,
   approver : Nat, claim : Nat, at : Nat]
NoDraft == [type |-> "none"]

\* A row of branch_claim_states and one of claim_transitions.
ClaimRow == [claim : Nat, branch : Branch, status : {"raw_claim", "canonical"},
             last : Nat, from : Branch \cup {NoBranch}]
Transition == [event : Nat, claim : Nat, branch : Branch, at : Nat,
               to : {"raw_claim", "canonical"}, evidence : SUBSET Nat]

Database ==
  [log : Seq(EventRecord), branch : [Branch -> BranchRow \cup {NoRow}],
   sessionOpen : BOOLEAN, worker : SUBSET Nat,
   claims : SUBSET ClaimRow, transitions : SUBSET Transition]

NarrativeTypeOK ==
  /\ db \in Database /\ db.worker \subseteq Event(db)
  /\ clock \in Nat /\ draft \in [Proc -> EventRecord \cup {NoDraft}]

\* new_session, and one question that was answered and analysed.
FirstEvent(type, parent, cause, at) ==
  [type |-> type, branch |-> Main, parent |-> parent, cause |-> cause,
   target |-> 0, approver |-> 0, claim |-> 0, at |-> at]

FirstLog == << FirstEvent("session.created", 0, 0, 1),
               FirstEvent("human.input", 1, 0, 2),
               FirstEvent("oracle.request", 2, 0, 3),
               FirstEvent("oracle.output", 3, 3, 4),
               FirstEvent("analysis.claim_detected", 4, 4, 5) >>

-----------------------------------------------------------------------------
(* What an append does *)

Is(s, e, type) == s.log[e].type = type

\* material.py: everything an event cites taints it with worker lineage.
Cites(r) == {r.parent, r.cause, r.target, r.approver} \ {NoEvent}

WorkerLineage(s, r) == r.type = "worker.task_requested" \/ Cites(r) \cap s.worker # {}

\* A bug: an approval of something else is taken for one of the candidate.
ValidPromotionUnbound(s, r) ==
  /\ r.approver # NoEvent /\ Is(s, r.approver, "human.keep")
  /\ r.target # NoEvent /\ Is(s, r.target, "analysis.canon_candidate")
  /\ s.log[r.target].claim = r.claim

\* A canonical promotion is bound to one candidate and to one human approval.
ValidPromotion(s, r) ==
  /\ r.approver # NoEvent /\ Is(s, r.approver, "human.keep")
  /\ r.target # NoEvent /\ Is(s, r.target, "analysis.canon_candidate")
  /\ LET k == s.log[r.approver]
         c == s.log[r.target]
     IN  /\ k.claim = r.claim /\ c.claim = r.claim
         /\ k.target = r.target /\ k.parent = r.target /\ k.cause = r.target
         /\ r.parent = r.target /\ r.cause = r.target
         /\ k.branch = r.branch /\ c.branch = r.branch

ClaimState(s, c, b) == {row \in s.claims : row.claim = c /\ row.branch = b}

\* The projection of the claims does not know the claim that is judged.
Raises(s, r) == /\ r.type \in {"human.keep", "claim.promoted"} /\ r.claim # NoEvent
                /\ ClaimState(s, r.claim, r.branch) = {}

\* The validators, and a projection that takes the append down with it.
Refused(s, r) ==
  \/ r.type = "human.keep" /\ WorkerLineage(s, r)
  \/ r.type = "claim.promoted" /\ (~ ValidPromotion(s, r) \/ WorkerLineage(s, r))
  \/ Raises(s, r)

\* The output a claim was found in.
ClaimSource(s, c) == s.log[c].cause

\* _event_ids: what a transition names as its evidence.
Evidence(r) ==
  IF r.type = "analysis.claim_detected" THEN {r.cause}
  ELSE IF r.type = "claim.promoted" THEN {r.target} ELSE {}

\* What a branch that is forked from event f takes over: of every claim of which
\* an event, the source or the evidence is visible, the latest transition.
InheritedClaims(s, b, f) ==
  LET visible == ParentChain(s, f)
      known == {t \in s.transitions :
                  \/ t.event \in visible
                  \/ ClaimSource(s, t.claim) \in visible
                  \/ t.evidence \cap visible # {}}
      later(t, u) == \/ u.at > t.at
                     \/ u.at = t.at /\ u.event > t.event
      latest(t) == ~ \E u \in known : u.claim = t.claim /\ later(t, u)
  IN  {[claim |-> t.claim, branch |-> b, status |-> t.to, last |-> t.event,
        from |-> s.log[f].branch] : t \in {u \in known : latest(u)}}

\* The claim an event moves, and to which status.
Moves(e, r) ==
  IF r.type = "analysis.claim_detected" THEN {<<e, "raw_claim">>}
  ELSE IF r.type \in {"human.keep", "claim.promoted"} /\ r.claim # NoEvent
       THEN {<<r.claim, "canonical">>} ELSE {}

ClaimsAfter(s, e, r) ==
  IF r.type = "session.forked"
  THEN s.claims \cup InheritedClaims(s, r.branch, r.parent)
  ELSE {row \in s.claims : \A m \in Moves(e, r) :
                             ~ (row.claim = m[1] /\ row.branch = r.branch)}
       \cup {[claim |-> m[1], branch |-> r.branch, status |-> m[2], last |-> e,
              from |-> NoBranch] : m \in Moves(e, r)}

\* The tables after event e of the log is projected.
Projected(s, e) ==
  LET r == s.log[e]
      rows == BranchRows(s, r)
      open == r.type = "branch.archived" =>
                 \E b \in Branch : rows[b] # NoRow /\ rows[b].open
      worker == e \in s.worker
      moved == {[event |-> e, claim |-> m[1], branch |-> r.branch, at |-> r.at,
                 to |-> m[2], evidence |-> Evidence(r)] : m \in Moves(e, r)}
  IN  [s EXCEPT !.branch = rows,
                !.sessionOpen = @ /\ open,
                !.claims = IF worker /\ r.type # "session.forked" THEN @
                           ELSE ClaimsAfter(s, e, r),
                !.transitions = IF worker THEN @ ELSE @ \cup moved]

\* append: the event and its projections, in one transaction.
Appended(s, r) ==
  LET e == Len(s.log) + 1
  IN  Projected([s EXCEPT !.log = Append(@, r),
                          !.worker = @ \cup (IF WorkerLineage(s, r) THEN {e} ELSE {})],
                e)

\* rebuild: clear the tables, and project the log as it is sorted.
Failed == [failed |-> TRUE]

Cleared(s) ==
  [s EXCEPT !.branch = [b \in Branch |-> IF b = Main THEN MainRow ELSE NoRow],
            !.sessionOpen = TRUE, !.claims = {}, !.transitions = {}]

\* The first n events of the log, as `position` sorts it, are projected.
Replay(s, position(_)) ==
  LET replayed[n \in 0 .. Len(s.log)] ==
        IF n = 0 THEN Cleared(s)
        ELSE LET t == replayed[n - 1]
                 e == position(n)
             IN  IF t = Failed \/ Raises(t, t.log[e]) THEN Failed ELSE Projected(t, e)
  IN  replayed[Len(s.log)]

\* A bug: the newest event first.
RebuiltBackwards(s) ==
  LET position(n) == CHOOSE e \in Event(s) :
                       Cardinality({x \in Event(s) : Before(s, e, x)}) = n - 1
  IN  Replay(s, position)

Rebuilt(s) ==
  LET position(n) == CHOOSE e \in Event(s) :
                       Cardinality({x \in Event(s) : Before(s, x, e)}) = n - 1
  IN  Replay(s, position)

-----------------------------------------------------------------------------
(* Writers *)

Record(type, b, parent, cause, target, approver, claim) ==
  [type |-> type, branch |-> b, parent |-> parent, cause |-> cause,
   target |-> target, approver |-> approver, claim |-> claim, at |-> clock]

Drafts == {draft[p] : p \in Proc} \ {NoDraft}
OfType(type) == {e \in Event(db) : Is(db, e, type)}
Added(types) == Cardinality({e \in Event(db) \ DOMAIN FirstLog : db.log[e].type \in types})
                + Cardinality({d \in Drafts : d.type \in types})
Room(type) == /\ \A bound \in Limit : type \in bound.types => Added(bound.types) < bound.max
              /\ clock < MaxClock

Prepare(p, r) ==
  /\ draft[p] = NoDraft /\ Room(r.type)
  /\ draft' = [draft EXCEPT ![p] = r]
  /\ clock' = clock + 1
  /\ UNCHANGED db

\* The append of a prepared event: refused, or committed with its projections.
Commit(p) ==
  /\ draft[p] # NoDraft
  /\ db' = IF Refused(db, draft[p]) THEN db ELSE Appended(db, draft[p])
  /\ draft' = [draft EXCEPT ![p] = NoDraft]
  /\ UNCHANGED clock

Branches == {b \in Branch : Exists(db, b)}

\* ask: the input of the operator ...
Ask(p) ==
  \E b \in Branches :
    Prepare(p, Record("human.input", b, LastEvent(db, b), 0, 0, 0, 0))

Answers(type, e) == {d \in Drafts \cup {db.log[x] : x \in Event(db)} :
                       d.type = type /\ d.parent = e}

\* ... and the request behind it; continue_session asks behind the last event.
Request(p) ==
  \E e \in Event(db) :
    /\ \/ Is(db, e, "human.input") /\ Answers("oracle.request", e) = {}
       \/ e = LastEvent(db, db.log[e].branch)
    /\ Prepare(p, Record("oracle.request", db.log[e].branch, e, 0, 0, 0, 0))

\* The answer of the oracle to a request, and its analysis.
Answer(p) ==
  \E e \in OfType("oracle.request") :
    /\ Answers("oracle.output", e) = {}
    /\ Prepare(p, Record("oracle.output", db.log[e].branch, e, e, 0, 0, 0))

DetectClaim(p) ==
  \E e \in OfType("oracle.output") :
    /\ Cardinality(Answers("analysis.claim_detected", e)) < MaxClaims
    /\ Prepare(p, Record("analysis.claim_detected", db.log[e].branch, e, e, 0, 0, 0))

\* keep and reject, about an output; the other marks are like keep.
Curate(p) ==
  \E e \in OfType("oracle.output"), kind \in {"human.keep", "human.reject"} :
    /\ kind = "human.keep" => ~ WorkerLineage(db, db.log[e])
    /\ LET b == db.log[e].branch
       IN  Prepare(p, Record(kind, b, LastEvent(db, b), e, e, 0, 0))

\* checkpoint, and merge_metadata, which writes to its target branch only.
Checkpoint(p) ==
  \E b \in Branches :
    LET last == LastEvent(db, b)
    IN  Prepare(p, Record("session.checkpointed", b, last, last, 0, 0, 0))

\* fork: the source branch must be open when it is looked at.
Fork(p) ==
  \E e \in Event(db), b \in Branch :
    /\ db.branch[db.log[e].branch].open
    /\ ~ Exists(db, b) /\ \A d \in Drafts : d.branch # b
    /\ Prepare(p, Record("session.forked", b, e, e, 0, 0, 0))

\* archive, also one branch of archive_session.
Archive(p) ==
  \E b \in Branches :
    /\ db.branch[b].open
    /\ LET last == LastEvent(db, b)
       IN  Prepare(p, Record("branch.archived", b, last, last, 0, 0, 0))

\* enqueue_repository_edit: the task follows the event it is asked for.
RequestEdit(p) ==
  \E e \in Event(db) :
    LET b == db.log[e].branch
    IN  /\ Resolves(db, b, e)
        /\ Prepare(p, Record("worker.task_requested", b, e, e, 0, 0, 0))

\* An analysis nominates a claim of its branch.
Nominate(p) ==
  \E b \in Branches, row \in db.claims :
    /\ row.branch = b
    /\ LET last == LastEvent(db, b)
       IN  Prepare(p, Record("analysis.canon_candidate", b, last, last, 0, 0,
                             row.claim))

Approvals(s, e) ==
  {x \in Event(s) : Is(s, x, "human.keep") /\ s.log[x].claim = s.log[e].claim
                    /\ s.log[x].target = e /\ s.log[x].parent = e}
Promotions(s, e) ==
  {x \in Event(s) : Is(s, x, "claim.promoted") /\ s.log[x].target = e}

\* The dispatcher's event for an approved candidate, unless there is one.
Promoted(s, e, k) ==
  LET c == s.log[e]
      r == Record("claim.promoted", c.branch, e, e, e, k, c.claim)
  IN  IF Promotions(s, e) # {} THEN s ELSE Appended(s, r)

\* approve_canon_candidate: approval and promotion in one transaction.
ApproveCanon(e) ==
  LET c == db.log[e]
      keep == Record("human.keep", c.branch, e, e, e, 0, c.claim)
      kept == IF Approvals(db, e) # {} THEN db ELSE Appended(db, keep)
      k == CHOOSE x \in Approvals(kept, e) : TRUE
  IN  /\ ~ WorkerLineage(db, c)
      /\ ClaimState(db, c.claim, c.branch) # {}
      /\ Promotions(db, e) = {} => Room("claim.promoted") /\ Room("human.keep")
      /\ db' = Promoted(kept, e, k)
      /\ clock' = IF db' = db THEN clock ELSE clock + 1
      /\ UNCHANGED draft

\* Any other writer of the log may append a promotion that the store accepts.
AppendPromotion ==
  \E e \in OfType("analysis.canon_candidate"), k \in OfType("human.keep"),
     b \in Branches, c \in {row.claim : row \in db.claims} :
    LET r == Record("claim.promoted", b, e, e, e, k, c)
    IN  /\ Room("claim.promoted") /\ ~ Refused(db, r)
        /\ db' = Appended(db, r) /\ clock' = clock + 1
        /\ UNCHANGED draft

-----------------------------------------------------------------------------
Init ==
  /\ db = [log |-> FirstLog,
           branch |-> [b \in Branch |-> IF b = Main THEN MainRow ELSE NoRow],
           sessionOpen |-> TRUE, worker |-> {},
           claims |-> {[claim |-> 5, branch |-> Main, status |-> "raw_claim",
                        last |-> 5, from |-> NoBranch]},
           transitions |-> {[event |-> 5, claim |-> 5, branch |-> Main, at |-> 5,
                             to |-> "raw_claim", evidence |-> {4}]}]
  /\ clock = 6
  /\ draft = [p \in Proc |-> NoDraft]

Next ==
  \/ \E p \in Operator : \/ Ask(p) \/ Request(p) \/ Curate(p) \/ Checkpoint(p)
                         \/ Archive(p) \/ RequestEdit(p)
  \/ \E p \in Worker : Answer(p) \/ DetectClaim(p) \/ Nominate(p)
  \/ \E p \in Proc : Fork(p) \/ Commit(p)
  \/ \E e \in OfType("analysis.canon_candidate") : ApproveCanon(e)
  \/ AppendPromotion

Spec == Init /\ [][Next]_vars

-----------------------------------------------------------------------------
(* Properties *)

\* Branches are independent futures: whoever wrote in between, the history of an
\* event of a branch can be resolved from that branch, and what it holds of other
\* branches was there when the branch was forked (branching.py, session.py).
ForkIsolation ==
  \A b \in Branches :
    LET inherited == Inherited(db, b)
    IN  \A e \in Own(db, b) :
          /\ Resolves(db, b, e)
          /\ \A x \in ParentChain(db, e) : db.log[x].branch # b => x \in inherited

\* The story of a session is well formed, and its branches are apart.
StoryInv == NarrativeTypeOK /\ ForkIsolation

\* No writer makes canon but the human: where a claim is canonical, a human
\* approved a candidate for this very claim, on the branch where it moved, and
\* before it moved; and nobody was asked twice for one candidate.
CanonIsHuman ==
  /\ \A row \in db.claims : row.status = "canonical" =>
       \E k \in Event(db) :
         /\ Is(db, k, "human.keep") /\ db.log[k].claim = row.claim
         /\ k <= row.last /\ db.log[k].branch = db.log[row.last].branch
         /\ Is(db, db.log[k].target, "analysis.canon_candidate")
         /\ db.log[db.log[k].target].claim = row.claim
         /\ row.from = NoBranch => db.log[k].branch = row.branch
  /\ \A e \in Event(db) : Is(db, e, "analysis.canon_candidate") =>
       Cardinality(Approvals(db, e)) <= 1

\* Where the log can be rebuilt, it gives the branches and the claims that were
\* detected or judged on them.  What a fork took over may be another, and so may
\* be whether the session is archived: a fork that is committed behind the archive
\* of the last branch leaves an open branch in an archived session.
RebuildAgrees ==
  LET own(s) == {row \in s.claims : row.from = NoBranch}
      t == Rebuilt(db)
  IN  t # Failed => t.branch = db.branch /\ own(t) = own(db)

-----------------------------------------------------------------------------
(* The inductive invariant of the proofs *)

\* Every branch has a last event, so that LastEvent is one of its own.
HasLast(s, b) ==
  \E e \in Own(s, b) : \A x \in Own(s, b) \ {e} : Before(s, x, e)

\* A keep is about an output, or it is the approval of a candidate and names its
\* claim, on its branch and behind it.
KeepFits(s, r) ==
  /\ r.target \in Event(s)
  /\ \/ Is(s, r.target, "oracle.output") /\ r.claim = NoEvent
     \/ /\ Is(s, r.target, "analysis.canon_candidate") /\ r.parent = r.target
        /\ r.claim = s.log[r.target].claim /\ r.branch = s.log[r.target].branch

\* A human approved a candidate for the claim c, where event e is and not after it.
Backed(s, c, e) ==
  /\ e \in Event(s)
  /\ \E k \in Event(s) :
       /\ Is(s, k, "human.keep") /\ s.log[k].claim = c
       /\ k <= e /\ s.log[k].branch = s.log[e].branch
       /\ s.log[k].target \in Event(s)
       /\ Is(s, s.log[k].target, "analysis.canon_candidate")
       /\ s.log[s.log[k].target].claim = c

\* What holds of an event when it is appended to s.
EventFits(s, r) ==
  /\ r \in EventRecord
  /\ IF r.type = "session.forked" THEN r.parent \in Event(s) ELSE Exists(s, r.branch)
  /\ r.type = "human.keep" => KeepFits(s, r)
  /\ r.type = "claim.promoted" =>
       /\ r.approver \in Event(s) /\ Is(s, r.approver, "human.keep")
       /\ s.log[r.approver].claim = r.claim /\ s.log[r.approver].branch = r.branch
       /\ s.log[r.approver].target \in Event(s)
       /\ Is(s, s.log[r.approver].target, "analysis.canon_candidate")
       /\ s.log[s.log[r.approver].target].claim = r.claim

\* A draft is neither an approval nor a promotion.
DraftFits(s, d) ==
  /\ EventFits(s, d) /\ d.type # "claim.promoted"
  /\ d.type = "human.keep" => Is(s, d.target, "oracle.output")

LogSound(s) ==
  /\ \A x \in Event(s) : Is(s, x, "human.keep") => KeepFits(s, s.log[x])
  /\ \A x, y \in Event(s) :
       (/\ Is(s, x, "human.keep") /\ Is(s, y, "human.keep")
        /\ s.log[x].target = s.log[y].target
        /\ Is(s, s.log[x].target, "analysis.canon_candidate")) => x = y

BranchesSound(s) ==
  /\ \A b \in Branch : Exists(s, b) => HasLast(s, b)
  /\ \A x \in Event(s) : Exists(s, s.log[x].branch)

ClaimsSound(s) ==
  /\ \A row \in s.claims : row.status = "canonical" =>
       /\ Backed(s, row.claim, row.last)
       /\ row.from = NoBranch => s.log[row.last].branch = row.branch
  /\ \A t \in s.transitions : t.to = "canonical" => Backed(s, t.claim, t.event)

Sound(s) ==
  /\ s \in Database /\ s.worker \subseteq Event(s)
  /\ LogSound(s) /\ BranchesSound(s) /\ ClaimsSound(s)

Story ==
  /\ Sound(db) /\ clock \in Nat
  /\ \A p \in Proc : draft[p] # NoDraft => DraftFits(db, draft[p])
  /\ draft \in [Proc -> EventRecord \cup {NoDraft}]

\* How an event hangs on the log: a fork starts a branch behind any event, and all
\* else follows an event of its own branch.
Hangs(s, r) ==
  IF r.type = "session.forked" THEN r.parent \in Event(s) /\ ~ Exists(s, r.branch)
  ELSE r.parent \in Own(s, r.branch)

\* The one event of another branch that a branch hangs on is where it was forked.
LinesSound(s) ==
  /\ \A x \in Event(s) :
       LET r == s.log[x]
       IN  /\ r.parent < x
           /\ r.parent \in {NoEvent, s.branch[r.branch].fork} \cup Own(s, r.branch)
  /\ \A b \in Branch : LET row == s.branch[b]
                       IN  row.fork # NoEvent => /\ row.fork \in Event(s)
                                                 /\ row.parent = s.log[row.fork].branch

Forks(s, f, b) == Is(s, f, "session.forked") /\ s.log[f].branch = b
Judges(r) == r.type \in {"human.keep", "claim.promoted"} /\ r.claim # NoEvent

\* The order of created_at may differ from the order of the commits, but a fork comes
\* before what is on its branch, and a judgment after whatever was there, in both.
TimesSound(s) ==
  /\ \A f \in Event(s) : Is(s, f, "session.forked") =>
       /\ s.log[f].branch # Main /\ s.log[f].parent \in Event(s)
       /\ \A x \in Own(s, s.log[f].branch) \ {f} : f < x /\ Before(s, f, x)
  /\ \A y \in Event(s) : Judges(s.log[y]) =>
       s.log[y].claim < y /\ \A x \in Event(s) : x < y => Before(s, x, y)

\* Every claim is named by an event, the one that detected it.
ClaimsNamed(s) ==
  /\ {row.claim : row \in s.claims} \cup {t.claim : t \in s.transitions} \subseteq Event(s)
  /\ \A x \in Event(s) : Is(s, x, "analysis.canon_candidate") => s.log[x].claim \in Event(s)

\* The row of branch b that the events E of the log make, in whatever order.
RowFits(s, E, b, row) ==
  IF b # Main /\ \A f \in E : ~ Forks(s, f, b) THEN row = NoRow
  ELSE /\ row \in BranchRow
       /\ row.open <=> \A x \in E : ~ (Is(s, x, "branch.archived") /\ s.log[x].branch = b)
       /\ b = Main => row.parent = NoBranch /\ row.fork = NoEvent
       /\ \A f \in E : Forks(s, f, b) => /\ row.fork = s.log[f].parent
                                         /\ row.parent = s.log[s.log[f].parent].branch

\* The events of E that move claim c on branch b, and the claims that they leave.
Movers(s, E, c, b) ==
  {x \in E \ s.worker : s.log[x].branch = b /\ \E m \in Moves(x, s.log[x]) : m[1] = c}
OwnClaims(s, E) ==
  UNION {{[claim |-> m[1], branch |-> s.log[x].branch, status |-> m[2], last |-> x,
           from |-> NoBranch] :
            m \in {n \in Moves(x, s.log[x]) :
                    \A y \in Movers(s, E, n[1], s.log[x].branch) : y <= x}} :
         x \in E \ s.worker}

\* The tables t are those of the events E of the log of s.
TablesFit(s, E, t) ==
  /\ \A b \in Branch : RowFits(s, E, b, t.branch[b])
  /\ {row \in t.claims : row.from = NoBranch} = OwnClaims(s, E)

Placed(s) ==
  /\ LinesSound(s) /\ TimesSound(s) /\ ClaimsNamed(s) /\ TablesFit(s, Event(s), s)

\* What holds of the place of an event when it is appended to s.
Joins(s, r) ==
  /\ Hangs(s, r)
  /\ \A f \in Event(s) : Forks(s, f, r.branch) => s.log[f].at <= r.at
  /\ Judges(r) => \A x \in Event(s) : s.log[x].at <= r.at
  /\ r.type = "analysis.canon_candidate" => r.claim \in Event(s)

\* And of a draft, whatever is appended before it: nobody writes to a branch whose
\* fork is not committed.
Placement ==
  /\ Placed(db) /\ \A x \in Event(db) : db.log[x].at < clock
  /\ \A p \in Proc : draft[p] # NoDraft => Joins(db, draft[p]) /\ draft[p].at < clock
  /\ \A p, q \in Proc :
       (/\ p # q /\ draft[p] # NoDraft /\ draft[q] # NoDraft
        /\ draft[p].type = "session.forked") => draft[q].branch # draft[p].branch

===============================================================================
