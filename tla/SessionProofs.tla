---------------------------- MODULE SessionProofs -----------------------------
(***************************************************************************)
(* What holds of every session: of the story that is told in it, and of    *)
(* the tools that are called in it.                                        *)
(*                                                                         *)
(* The story (Narrative), for any number of branches, processes and        *)
(* events: no writer makes canon but the human, the branches are apart,    *)
(* and the log rebuilds what the appends made.  Story and Placement are    *)
(* the inductive invariant: the log and the tables are sound, every event  *)
(* is in its place, and a draft, whatever the others append before it,     *)
(* still is an event that may be appended there.  A chain, a lineage and a *)
(* replay are recursive functions: that each is what its equation says     *)
(* follows from Recursion, and what it computes from the least element of  *)
(* a set of numbers.                                                       *)
(*                                                                         *)
(* The tools (ToolLoop), for any jobs, depths, budgets, signatures, faults *)
(* and processes, whichever jobs exclude each other.  ToolStory is         *)
(* inductive whatever expires; ChainStory, which speaks of chains none of  *)
(* whose leases expired under a live process, is inductive with it.  What  *)
(* is logged stays (ChainGrows), so that a step has to answer only for the *)
(* hand it moves.                                                          *)
(***************************************************************************)
EXTENDS Narrative, ToolLoop, FiniteSetTheorems, TLAPS


\* The database with the event in its log, before it is projected.
Logged(s, r) ==
  [s EXCEPT !.log = Append(@, r),
            !.worker = @ \cup (IF WorkerLineage(s, r) THEN {Len(s.log) + 1} ELSE {})]

\* The transitions that an event r in place e adds.
Moved(e, r) ==
  {[event |-> e, claim |-> m[1], branch |-> r.branch, at |-> r.at, to |-> m[2],
    evidence |-> Evidence(r)] : m \in Moves(e, r)}

\* The log t extends the log s.
Extends(s, t) ==
  /\ Event(s) \subseteq Event(t)
  /\ \A x \in Event(s) : t.log[x] = s.log[x]
  /\ \A b \in Branch : Exists(s, b) => Exists(t, b)

-----------------------------------------------------------------------------
(* Induction, for a set *)

\* A set of numbers has a least element.
LEMMA LeastElement ==
  ASSUME NEW T \in SUBSET Nat, T # {}
  PROVE  \E x \in T : \A y \in T : x <= y
<1> DEFINE less == OpToRel(<, Nat)
<1>1. IsWellFoundedOn(less, Nat)
  BY NatLessThanWellFounded
<1>2. \A x, y \in Nat : <<y, x>> \in less <=> y < x
  BY DEF OpToRel
<1> HIDE DEF less
<1>3. \E x \in T : \A y \in T : ~ (<<y, x>> \in less)
  BY <1>1, WFMin
<1>4. PICK x \in T : \A y \in T : ~ (<<y, x>> \in less)
  BY <1>3
<1>5. \A y \in T : x \in Nat /\ y \in Nat /\ ~ (y < x)
  BY <1>2, <1>4
<1>6. QED
  BY <1>5

\* What holds at a number once it holds at all smaller ones holds up to n.
LEMMA StrongInduction ==
  ASSUME NEW n \in Nat, NEW P,
         \A k \in 0 .. n : (\A i \in 0 .. n : i < k => i \in P) => k \in P
  PROVE  0 .. n \subseteq P
<1> DEFINE T == (0 .. n) \ P
<1> SUFFICES ASSUME T # {} PROVE FALSE
  OBVIOUS
<1>1. T \in SUBSET Nat
  OBVIOUS
<1>2. PICK x \in T : \A y \in T : x <= y
  BY <1>1, LeastElement
<1>3. x \in 0 .. n /\ x \notin P
  OBVIOUS
<1>4. \A i \in 0 .. n : i < x => i \in P
  BY <1>2, <1>3
<1>5. QED
  BY <1>3, <1>4

\* The first n steps of a primitive recursion from a, with step function F.
Follows(g, n, a, F) == g[0] = a /\ \A k \in 1 .. n : g[k] = F[<<k, g[k - 1]>>]

\* There is a function that follows.
LEMMA Recursion ==
  ASSUME NEW n \in Nat, NEW V, NEW a \in V, NEW F \in [(1 .. n) \X V -> V]
  PROVE  \E g \in [0 .. n -> V] : Follows(g, n, a, F)
<1> DEFINE P == {k \in 0 .. n : \E g \in [0 .. k -> V] : Follows(g, k, a, F)}
<1>1. 0 \in P
  <2>1. [i \in 0 .. 0 |-> a] \in [0 .. 0 -> V]
    OBVIOUS
  <2>2. Follows([i \in 0 .. 0 |-> a], 0, a, F)
    BY DEF Follows
  <2>3. 0 \in 0 .. n
    OBVIOUS
  <2>4. QED
    BY <2>1, <2>2, <2>3
<1>2. ASSUME NEW k \in 0 .. n, k # 0, k - 1 \in P
      PROVE  k \in P
  <2>1. PICK g \in [0 .. k - 1 -> V] : Follows(g, k - 1, a, F)
    BY <1>2
  <2>2. k \in Nat /\ k \in 1 .. n /\ k - 1 \in 0 .. k - 1 /\ 0 \in 0 .. k - 1
    BY <1>2
  <2>3. g[k - 1] \in V
    BY <2>2
  <2>4. <<k, g[k - 1]>> \in (1 .. n) \X V
    BY <2>2, <2>3
  <2>5. PICK b \in V : b = F[<<k, g[k - 1]>>]
    BY <2>4
  <2>6. PICK h : h = [i \in 0 .. k |-> IF i = k THEN b ELSE g[i]]
    OBVIOUS
  <2>7. /\ h \in [0 .. k -> V] /\ h[k] = b
        /\ \A i \in 0 .. k - 1 : h[i] = g[i]
    BY <2>2, <2>6
  <2>8. ASSUME NEW i \in 1 .. k
        PROVE  h[i] = F[<<i, h[i - 1]>>]
    <3>1. i - 1 \in 0 .. k - 1 /\ h[i - 1] = g[i - 1]
      BY <2>2, <2>7
    <3>2. CASE i = k
      BY <2>5, <2>7, <3>1, <3>2
    <3>3. CASE i # k
      <4>1. i \in 1 .. k - 1 /\ i \in 0 .. k - 1
        BY <2>2, <3>3
      <4>2. QED
        BY <2>1, <2>7, <3>1, <4>1 DEF Follows
    <3>4. QED
      BY <3>2, <3>3
  <2>9. Follows(h, k, a, F)
    BY <2>1, <2>2, <2>7, <2>8 DEF Follows
  <2>10. QED
    BY <2>7, <2>9
<1> HIDE DEF P
<1>3. \A k \in 0 .. n : (\A i \in 0 .. n : i < k => i \in P) => k \in P
  <2> TAKE k \in 0 .. n
  <2> HAVE \A i \in 0 .. n : i < k => i \in P
  <2>1. k # 0 => k - 1 \in 0 .. n /\ k - 1 < k
    OBVIOUS
  <2>2. QED
    BY <1>1, <1>2, <2>1
<1>4. n \in P
  BY <1>3, StrongInduction
<1>5. QED
  BY <1>4 DEF P

-----------------------------------------------------------------------------
(* The database *)

\* A row is not the mark of a branch that is not there.
LEMMA RowsExist == MainRow \in BranchRow /\ \A row \in BranchRow : row # NoRow
<1>1. MainRow \in BranchRow
  BY DEF MainRow, BranchRow, NoEvent
<1>2. ASSUME NEW row \in BranchRow
      PROVE  row # NoRow
  <2>1. DOMAIN row = {"parent", "fork", "open"}
    BY DEF BranchRow
  <2>2. "absent" \in DOMAIN NoRow
    BY DEF NoRow
  <2>3. QED
    BY <2>1, <2>2
<1>3. QED
  BY <1>1, <1>2

\* The events of a log that is typed.
LEMMA EventsOf ==
  ASSUME NEW s \in Database
  PROVE  /\ Event(s) = 1 .. Len(s.log) /\ Len(s.log) \in Nat
         /\ \A x \in Event(s) : s.log[x] \in EventRecord
BY DEF Database, Event

\* The event is logged behind the others; the tables are as they were.
LEMMA LoggedFields ==
  ASSUME NEW s \in Database, NEW r \in EventRecord
  PROVE  /\ Logged(s, r) \in Database
         /\ Logged(s, r).log = Append(s.log, r)
         /\ Logged(s, r).branch = s.branch
         /\ Logged(s, r).claims = s.claims
         /\ Logged(s, r).transitions = s.transitions
         /\ s.worker \subseteq Event(s) => Logged(s, r).worker \subseteq Event(Logged(s, r))
<1> DEFINE e == Len(s.log) + 1
           W == IF WorkerLineage(s, r) THEN {e} ELSE {}
<1>1. Append(s.log, r) \in Seq(EventRecord) /\ e \in Nat
  BY DEF Database
<1>2. s.worker \cup W \in SUBSET Nat
  BY <1>1 DEF Database
<1>3. Logged(s, r) = [s EXCEPT !.log = Append(s.log, r), !.worker = s.worker \cup W]
  BY DEF Logged
<1> HIDE DEF W
<1>4. /\ Logged(s, r) \in Database
      /\ Logged(s, r).log = Append(s.log, r)
      /\ Logged(s, r).branch = s.branch
      /\ Logged(s, r).claims = s.claims
      /\ Logged(s, r).transitions = s.transitions
      /\ Logged(s, r).worker = s.worker \cup W
  BY <1>1, <1>2, <1>3 DEF Database
<1>5. Event(Logged(s, r)) = 1 .. e /\ Event(s) = 1 .. Len(s.log)
  <2>1. s.log \in Seq(EventRecord)
    BY DEF Database
  <2>2. QED
    BY <1>4, <2>1 DEF Event
<1>6. W \subseteq {e}
  BY DEF W
<1>t. Len(s.log) \in Nat
  BY DEF Database
<1>7. s.worker \subseteq Event(s) => s.worker \cup W \subseteq 1 .. e
  <2>1. ASSUME NEW n \in Nat
        PROVE  1 .. n \subseteq 1 .. n + 1 /\ {n + 1} \subseteq 1 .. n + 1
    OBVIOUS
  <2>2. Event(s) \subseteq 1 .. e /\ {e} \subseteq 1 .. e
    BY <1>t, <1>5, <2>1
  <2>3. QED
    BY <1>6, <2>2, Zenon
<1>8. QED
  BY <1>4, <1>5, <1>7

\* What a projection changes.
LEMMA ProjectedFields ==
  ASSUME NEW t \in Database, NEW e \in Event(t), NEW r, r = t.log[e]
  PROVE  /\ Projected(t, e).log = t.log /\ Projected(t, e).worker = t.worker
         /\ Projected(t, e).branch = BranchRows(t, r)
         /\ Projected(t, e).claims \in {t.claims, ClaimsAfter(t, e, r)}
         /\ Projected(t, e).transitions \in {t.transitions, t.transitions \cup Moved(e, r)}
         /\ (/\ BranchRows(t, r) \in [Branch -> BranchRow \cup {NoRow}]
             /\ Projected(t, e).claims \in SUBSET ClaimRow
             /\ Projected(t, e).transitions \in SUBSET Transition)
            => Projected(t, e) \in Database
<1> DEFINE rows == BranchRows(t, r)
           open == r.type = "branch.archived" =>
                     \E b \in Branch : rows[b] # NoRow /\ rows[b].open
           worker == e \in t.worker
           moved == Moved(e, r)
           claims == IF worker /\ r.type # "session.forked" THEN t.claims
                     ELSE ClaimsAfter(t, e, r)
           transitions == IF worker THEN t.transitions ELSE t.transitions \cup moved
           sessionOpen == t.sessionOpen /\ open
<1>1. Projected(t, e) = [t EXCEPT !.branch = rows, !.sessionOpen = sessionOpen,
                                  !.claims = claims, !.transitions = transitions]
  BY DEF Projected, Moved
<1>2. sessionOpen \in BOOLEAN
  OBVIOUS
<1>3. claims \in {t.claims, ClaimsAfter(t, e, r)}
  OBVIOUS
<1>4. transitions \in {t.transitions, t.transitions \cup moved}
  OBVIOUS
<1> HIDE DEF rows, claims, transitions, sessionOpen
<1>5. /\ Projected(t, e).log = t.log /\ Projected(t, e).worker = t.worker
      /\ Projected(t, e).branch = rows
      /\ Projected(t, e).claims = claims
      /\ Projected(t, e).transitions = transitions
      /\ Projected(t, e).sessionOpen = sessionOpen
  BY <1>1 DEF Database
<1>6. (/\ rows \in [Branch -> BranchRow \cup {NoRow}]
       /\ claims \in SUBSET ClaimRow /\ transitions \in SUBSET Transition)
      => Projected(t, e) \in Database
  BY <1>1, <1>2 DEF Database
<1>7. rows = BranchRows(t, r)
  BY DEF rows
<1>8. QED
  BY <1>3, <1>4, <1>5, <1>6, <1>7

\* The rows of the branches: the event's own is there after it, the others stay.
LEMMA RowsAfter ==
  ASSUME NEW t \in Database, NEW r \in EventRecord,
         IF r.type = "session.forked" THEN r.parent \in Event(t) ELSE Exists(t, r.branch)
  PROVE  /\ BranchRows(t, r) \in [Branch -> BranchRow \cup {NoRow}]
         /\ BranchRows(t, r)[r.branch] # NoRow
         /\ \A b \in Branch \ {r.branch} : BranchRows(t, r)[b] = t.branch[b]
<1>1. t.branch \in [Branch -> BranchRow \cup {NoRow}] /\ r.branch \in Branch
  BY DEF Database, EventRecord
<1>2. CASE r.type = "session.forked"
  <2>1. r.parent \in Event(t) /\ r.parent \in Nat
    BY <1>2 DEF EventRecord
  <2>2. t.log[r.parent].branch \in Branch
    BY <2>1, EventsOf DEF EventRecord
  <2> DEFINE row == [parent |-> t.log[r.parent].branch, fork |-> r.parent, open |-> TRUE]
  <2>3. row \in BranchRow
    BY <2>1, <2>2 DEF BranchRow
  <2>4. BranchRows(t, r) = [t.branch EXCEPT ![r.branch] = row]
    BY <1>2 DEF BranchRows
  <2> HIDE DEF row
  <2>5. row # NoRow
    BY <2>3, RowsExist
  <2>6. QED
    BY <1>1, <2>3, <2>4, <2>5
<1>3. CASE r.type = "branch.archived"
  <2>1. t.branch[r.branch] \in BranchRow
    BY <1>1, <1>3 DEF Exists
  <2>2. PICK row \in BranchRow : row = [t.branch[r.branch] EXCEPT !.open = FALSE]
    BY <2>1 DEF BranchRow
  <2>3. BranchRows(t, r) = [t.branch EXCEPT ![r.branch] = row]
    BY <1>3, <2>2 DEF BranchRows
  <2>4. row # NoRow
    BY RowsExist
  <2>5. QED
    BY <1>1, <2>3, <2>4
<1>4. CASE r.type \notin {"session.forked", "branch.archived"}
  <2>1. BranchRows(t, r) = t.branch
    BY <1>4 DEF BranchRows
  <2>2. QED
    BY <1>1, <1>4, <2>1 DEF Exists
<1>5. QED
  BY <1>2, <1>3, <1>4

\* The claims an event moves.
LEMMA MovesAre ==
  ASSUME NEW e \in Nat, NEW r \in EventRecord, NEW m \in Moves(e, r)
  PROVE  /\ m[1] \in Nat /\ m[2] \in {"raw_claim", "canonical"}
         /\ m[2] = "canonical" =>
              /\ r.type \in {"human.keep", "claim.promoted"} /\ r.claim # NoEvent
              /\ m[1] = r.claim
BY DEF Moves, EventRecord

\* A claim that the event moves, or one that a fork takes over, is typed, and is
\* canonical by this event or by the transition it was taken from.
LEMMA ClaimsAre ==
  ASSUME NEW t \in Database, NEW e \in Event(t),
         NEW r, r = t.log[e], r.type = "session.forked" => r.parent \in Event(t),
         NEW row \in ClaimsAfter(t, e, r), row \notin t.claims
  PROVE  /\ row \in ClaimRow
         /\ \/ /\ row.from = NoBranch /\ row.last = e /\ row.branch = r.branch
               /\ \E m \in Moves(e, r) : m[1] = row.claim /\ m[2] = row.status
            \/ /\ row.from # NoBranch
               /\ \E u \in t.transitions :
                    row.claim = u.claim /\ row.last = u.event /\ row.status = u.to
<1>1. r \in EventRecord /\ e \in Nat
  BY EventsOf
<1>2. CASE r.type = "session.forked"
  <2>1. row \in InheritedClaims(t, r.branch, r.parent)
    BY <1>2 DEF ClaimsAfter
  <2>2. PICK u \in t.transitions :
          row = [claim |-> u.claim, branch |-> r.branch, status |-> u.to,
                 last |-> u.event, from |-> t.log[r.parent].branch]
    BY <2>1 DEF InheritedClaims
  <2>3. u \in Transition
    BY DEF Database
  <2>4. t.log[r.parent].branch \in Branch
    BY <1>2, EventsOf DEF EventRecord
  <2>5. r.branch \in Branch
    BY <1>1 DEF EventRecord
  <2>6. row \in ClaimRow
    BY <2>2, <2>3, <2>4, <2>5 DEF ClaimRow, Transition
  <2>7. row.from # NoBranch
    BY <2>2, <2>4, LogAssumption
  <2>8. QED
    BY <2>2, <2>6, <2>7
<1>3. CASE r.type # "session.forked"
  <2>1. PICK m \in Moves(e, r) :
          row = [claim |-> m[1], branch |-> r.branch, status |-> m[2], last |-> e,
                 from |-> NoBranch]
    BY <1>3 DEF ClaimsAfter
  <2>2. m[1] \in Nat /\ m[2] \in {"raw_claim", "canonical"}
    BY <1>1, MovesAre
  <2>3. r.branch \in Branch
    BY <1>1 DEF EventRecord
  <2>4. row \in ClaimRow
    BY <1>1, <2>1, <2>2, <2>3 DEF ClaimRow
  <2>5. QED
    BY <2>1, <2>4
<1>4. QED
  BY <1>2, <1>3

\* The transitions an event adds are typed, and canonical by this event only.
LEMMA TransitionsAre ==
  ASSUME NEW t \in Database, NEW e \in Event(t), NEW u,
         NEW r, r = t.log[e], u \in Moved(e, r)
  PROVE  /\ u \in Transition /\ u.event = e
         /\ \E m \in Moves(e, r) : m[1] = u.claim /\ m[2] = u.to
<1>1. r \in EventRecord /\ e \in Nat
  BY EventsOf
<1>2. PICK m \in Moves(e, r) :
        u = [event |-> e, claim |-> m[1], branch |-> r.branch, at |-> r.at,
             to |-> m[2], evidence |-> Evidence(r)]
  BY DEF Moved
<1>3. m[1] \in Nat /\ m[2] \in {"raw_claim", "canonical"}
  BY <1>1, MovesAre
<1>4. r.branch \in Branch /\ r.at \in Nat /\ Evidence(r) \in SUBSET Nat
  BY <1>1 DEF EventRecord, Evidence
<1>5. u \in Transition
  BY <1>1, <1>2, <1>3, <1>4 DEF Transition
<1>6. QED
  BY <1>2, <1>5

-----------------------------------------------------------------------------
(* An event is appended *)

\* What an event may be appended as: a fork from an event, or one of a branch.
Appendable(s, r) ==
  /\ r \in EventRecord
  /\ IF r.type = "session.forked" THEN r.parent \in Event(s) ELSE Exists(s, r.branch)

\* A canonical claim is so by the event e, or by a transition of s.
CanonOf(s, e, r, row) ==
  row.status = "canonical" =>
    \/ row.from = NoBranch /\ row.last = e /\ row.branch = r.branch /\ row.claim = r.claim
       /\ r.type \in {"human.keep", "claim.promoted"} /\ r.claim # NoEvent
    \/ /\ row.from # NoBranch
       /\ \E u \in s.transitions :
            u.to = "canonical" /\ row.claim = u.claim /\ row.last = u.event

\* A canonical transition is so by the event e.
CanonBy(e, r, u) ==
  u.to = "canonical" =>
    /\ u.event = e /\ u.claim = r.claim
    /\ r.type \in {"human.keep", "claim.promoted"} /\ r.claim # NoEvent

\* The log with one event more.
LEMMA LoggedEvents ==
  ASSUME NEW s \in Database, NEW r \in EventRecord, NEW e, e = Len(s.log) + 1
  PROVE  /\ Event(Logged(s, r)) = Event(s) \cup {e}
         /\ e \in Nat /\ e \notin Event(s) /\ \A x \in Event(s) : x \in Nat /\ x < e
         /\ Logged(s, r).log[e] = r
         /\ \A x \in Event(s) : Logged(s, r).log[x] = s.log[x]
<1>1. PICK log : log = s.log
  OBVIOUS
<1>2. log \in Seq(EventRecord)
  BY <1>1 DEF Database
<1>3. Len(log) \in Nat /\ DOMAIN log = 1 .. Len(log)
  BY <1>2
<1>4. Event(s) = DOMAIN log /\ Event(Logged(s, r)) = DOMAIN Append(log, r)
  BY <1>1, LoggedFields DEF Event
<1>5. DOMAIN Append(log, r) = 1 .. Len(log) + 1
  BY <1>2
<1>6. ASSUME NEW n \in Nat
      PROVE  1 .. n + 1 = (1 .. n) \cup {n + 1} /\ n + 1 \notin 1 .. n
             /\ \A x \in 1 .. n : x \in Nat /\ x < n + 1
  OBVIOUS
<1>7. Append(log, r)[Len(log) + 1] = r /\ \A x \in 1 .. Len(log) : Append(log, r)[x] = log[x]
  BY <1>2
<1>8. Logged(s, r).log = Append(log, r)
  BY <1>1, LoggedFields
<1>9. /\ Event(s) = 1 .. Len(log) /\ e = Len(log) + 1
      /\ Event(Logged(s, r)) = 1 .. Len(log) + 1
  BY <1>1, <1>3, <1>4, <1>5
<1>10. /\ Event(Logged(s, r)) = Event(s) \cup {e} /\ e \notin Event(s)
       /\ \A x \in Event(s) : x \in Nat /\ x < e
  BY <1>3, <1>6, <1>9
<1>11. Logged(s, r).log[e] = r /\ \A x \in Event(s) : Logged(s, r).log[x] = s.log[x]
  BY <1>1, <1>7, <1>8, <1>9
<1>12. QED
  BY <1>3, <1>9, <1>10, <1>11

\* An append adds its event and what is projected from it, and changes no other.
LEMMA AppendedFields ==
  ASSUME NEW s \in Database, NEW r, Appendable(s, r), NEW e, e = Len(s.log) + 1
  PROVE  /\ Appended(s, r) \in Database
         /\ s.worker \subseteq Event(s) =>
              Appended(s, r).worker \subseteq Event(Appended(s, r))
         /\ Appended(s, r).log = Logged(s, r).log
         /\ Appended(s, r).branch[r.branch] # NoRow
         /\ \A b \in Branch \ {r.branch} : Appended(s, r).branch[b] = s.branch[b]
         /\ \A row \in Appended(s, r).claims : row \in s.claims \/ CanonOf(s, e, r, row)
         /\ \A u \in Appended(s, r).transitions :
              u \in s.transitions \/ CanonBy(e, r, u)
<1>r. r \in EventRecord
  BY DEF Appendable
<1>1. PICK t : t = Logged(s, r)
  OBVIOUS
<1>2. /\ t \in Database /\ t.branch = s.branch
      /\ t.claims = s.claims /\ t.transitions = s.transitions
      /\ s.worker \subseteq Event(s) => t.worker \subseteq Event(t)
  BY <1>r, <1>1, LoggedFields
<1>3. /\ Event(t) = Event(s) \cup {e} /\ t.log[e] = r /\ e \in Event(t) /\ e \in Nat
  BY <1>r, <1>1, LoggedEvents
<1>4. Appended(s, r) = Projected(t, e)
  BY <1>1 DEF Appended, Logged
<1>5. IF r.type = "session.forked" THEN r.parent \in Event(t) ELSE Exists(t, r.branch)
  BY <1>2, <1>3 DEF Appendable, Exists
<1>6. /\ BranchRows(t, r) \in [Branch -> BranchRow \cup {NoRow}]
      /\ BranchRows(t, r)[r.branch] # NoRow
      /\ \A b \in Branch \ {r.branch} : BranchRows(t, r)[b] = t.branch[b]
  BY <1>r, <1>2, <1>5, RowsAfter
<1>7. /\ Projected(t, e).log = t.log /\ Projected(t, e).worker = t.worker
      /\ Projected(t, e).branch = BranchRows(t, r)
      /\ Projected(t, e).claims \in {t.claims, ClaimsAfter(t, e, r)}
      /\ Projected(t, e).transitions \in {t.transitions, t.transitions \cup Moved(e, r)}
      /\ (/\ BranchRows(t, r) \in [Branch -> BranchRow \cup {NoRow}]
          /\ Projected(t, e).claims \in SUBSET ClaimRow
          /\ Projected(t, e).transitions \in SUBSET Transition)
         => Projected(t, e) \in Database
  BY <1>2, <1>3, ProjectedFields
<1>8. ASSUME NEW u \in Moved(e, r)
      PROVE  /\ u \in Transition /\ u.event = e
             /\ \E m \in Moves(e, r) : m[1] = u.claim /\ m[2] = u.to
  BY <1>2, <1>3, TransitionsAre
<1>9. ASSUME NEW u \in Moved(e, r)
      PROVE  CanonBy(e, r, u)
  <2>1. PICK m \in Moves(e, r) : m[1] = u.claim /\ m[2] = u.to
    BY <1>8
  <2>2. m[2] = "canonical" =>
          /\ r.type \in {"human.keep", "claim.promoted"} /\ r.claim # NoEvent
          /\ m[1] = r.claim
    BY <1>r, <1>3, MovesAre
  <2>3. QED
    BY <1>8, <2>1, <2>2 DEF CanonBy
<1>10. ASSUME NEW row \in ClaimsAfter(t, e, r), row \notin t.claims
       PROVE  row \in ClaimRow /\ CanonOf(s, e, r, row)
  <2>1. /\ row \in ClaimRow
        /\ \/ /\ row.from = NoBranch /\ row.last = e /\ row.branch = r.branch
              /\ \E m \in Moves(e, r) : m[1] = row.claim /\ m[2] = row.status
           \/ /\ row.from # NoBranch
              /\ \E u \in t.transitions :
                   row.claim = u.claim /\ row.last = u.event /\ row.status = u.to
    <3>1. r.type = "session.forked" => r.parent \in Event(t)
      BY <1>3, <1>5
    <3>2. QED
      BY <1>2, <1>3, <1>10, <3>1, ClaimsAre
  <2>2. ASSUME NEW m \in Moves(e, r), m[2] = "canonical"
        PROVE  /\ r.type \in {"human.keep", "claim.promoted"} /\ r.claim # NoEvent
               /\ m[1] = r.claim
    BY <1>r, <1>3, <2>2, MovesAre
  <2>3. QED
    BY <1>2, <2>1, <2>2 DEF CanonOf
<1>11. /\ t.claims \in SUBSET ClaimRow /\ t.transitions \in SUBSET Transition
  BY <1>2 DEF Database
<1>12. \A row \in Projected(t, e).claims :
         \/ row \in t.claims
         \/ row \in ClaimRow /\ CanonOf(s, e, r, row)
  BY <1>7, <1>10
<1>13. \A u \in Projected(t, e).transitions :
         \/ u \in t.transitions
         \/ u \in Transition /\ CanonBy(e, r, u)
  BY <1>7, <1>8, <1>9
<1>14. Projected(t, e) \in Database
  BY <1>6, <1>7, <1>11, <1>12, <1>13
<1>15. s.worker \subseteq Event(s) =>
         Projected(t, e).worker \subseteq Event(Projected(t, e))
  BY <1>2, <1>7 DEF Event
<1>16. QED
  BY <1>1, <1>2, <1>4, <1>6, <1>7, <1>12, <1>13, <1>14, <1>15

\* The log after an append: its event is behind the others, which stay.
LEMMA AppendedLog ==
  ASSUME NEW s \in Database, NEW r, Appendable(s, r), NEW e, e = Len(s.log) + 1
  PROVE  /\ Event(Appended(s, r)) = Event(s) \cup {e}
         /\ e \in Nat /\ e \notin Event(s) /\ \A x \in Event(s) : x \in Nat /\ x < e
         /\ Appended(s, r).log[e] = r
         /\ Extends(s, Appended(s, r))
<1>1. PICK t : t = Appended(s, r)
  OBVIOUS
<1>2. r \in EventRecord
  BY DEF Appendable
<1>3. /\ t.log = Logged(s, r).log /\ t.branch[r.branch] # NoRow
      /\ \A b \in Branch \ {r.branch} : t.branch[b] = s.branch[b]
  BY <1>1, AppendedFields
<1>4. Event(t) = Event(Logged(s, r))
  BY <1>3 DEF Event
<1>5. /\ Event(t) = Event(s) \cup {e}
      /\ e \in Nat /\ e \notin Event(s) /\ \A x \in Event(s) : x \in Nat /\ x < e
      /\ t.log[e] = r /\ \A x \in Event(s) : t.log[x] = s.log[x]
  BY <1>2, <1>3, <1>4, LoggedEvents
<1>6. \A b \in Branch : Exists(s, b) => Exists(t, b)
  BY <1>3 DEF Exists
<1>7. QED
  BY <1>1, <1>5, <1>6 DEF Extends

\* What is backed in a log is backed in every log that extends it.
LEMMA BackedStays ==
  ASSUME NEW s, NEW t, Extends(s, t), NEW c, NEW e, Backed(s, c, e)
  PROVE  Backed(t, c, e) /\ e \in Event(s)
BY DEF Extends, Backed, Is

\* What fits a log fits every log that extends it.
LEMMA FitsStays ==
  ASSUME NEW s, NEW t, Extends(s, t), NEW r
  PROVE  /\ KeepFits(s, r) => KeepFits(t, r)
         /\ EventFits(s, r) => EventFits(t, r)
         /\ DraftFits(s, r) => DraftFits(t, r)
<1>1. KeepFits(s, r) => KeepFits(t, r)
  BY DEF Extends, KeepFits, Is
<1>2. ASSUME EventFits(s, r)
      PROVE  EventFits(t, r)
  <2>1. r \in EventRecord /\ r.branch \in Branch
    BY <1>2 DEF EventFits, EventRecord
  <2>2. IF r.type = "session.forked" THEN r.parent \in Event(t) ELSE Exists(t, r.branch)
    BY <1>2, <2>1 DEF EventFits, Extends
  <2>3. r.type = "claim.promoted" =>
          /\ r.approver \in Event(t) /\ Is(t, r.approver, "human.keep")
          /\ t.log[r.approver].claim = r.claim /\ t.log[r.approver].branch = r.branch
          /\ t.log[r.approver].target \in Event(t)
          /\ Is(t, t.log[r.approver].target, "analysis.canon_candidate")
          /\ t.log[t.log[r.approver].target].claim = r.claim
    BY <1>2 DEF EventFits, Extends, Is
  <2>4. QED
    BY <1>1, <1>2, <2>1, <2>2, <2>3 DEF EventFits
<1>3. ASSUME DraftFits(s, r)
      PROVE  DraftFits(t, r)
  <2>1. EventFits(t, r)
    BY <1>2, <1>3 DEF DraftFits
  <2>2. r.type = "human.keep" => r.target \in Event(s)
    BY <1>3 DEF DraftFits, EventFits, KeepFits
  <2>3. QED
    BY <1>3, <2>1, <2>2 DEF DraftFits, Extends, Is
<1>4. QED
  BY <1>1, <1>2, <1>3

\* The event that makes a claim canonical is backed by the approval it is or cites.
LEMMA NewIsBacked ==
  ASSUME NEW s, NEW t, NEW r, NEW e, Extends(s, t), EventFits(s, r),
         e \in Nat, e \in Event(t), t.log[e] = r, \A x \in Event(s) : x \in Nat /\ x < e,
         r.type \in {"human.keep", "claim.promoted"}, r.claim # NoEvent
  PROVE  Backed(t, r.claim, e)
<1>1. CASE r.type = "human.keep"
  <2>1. /\ r.target \in Event(s) /\ Is(s, r.target, "analysis.canon_candidate")
        /\ s.log[r.target].claim = r.claim
    BY <1>1 DEF EventFits, KeepFits
  <2>2. /\ r.target \in Event(t) /\ Is(t, r.target, "analysis.canon_candidate")
        /\ t.log[r.target].claim = r.claim
    BY <2>1 DEF Extends, Is
  <2>3. e <= e
    OBVIOUS
  <2>4. QED
    BY <1>1, <2>2, <2>3 DEF Backed, Is
<1>2. CASE r.type = "claim.promoted"
  <2> DEFINE k == r.approver
  <2>1. /\ k \in Event(s) /\ Is(s, k, "human.keep")
        /\ s.log[k].claim = r.claim /\ s.log[k].branch = r.branch
        /\ s.log[k].target \in Event(s)
        /\ Is(s, s.log[k].target, "analysis.canon_candidate")
        /\ s.log[s.log[k].target].claim = r.claim
    BY <1>2 DEF EventFits
  <2>2. /\ k \in Event(t) /\ Is(t, k, "human.keep")
        /\ t.log[k].claim = r.claim /\ t.log[k].branch = r.branch
        /\ t.log[k].target \in Event(t)
        /\ Is(t, t.log[k].target, "analysis.canon_candidate")
        /\ t.log[t.log[k].target].claim = r.claim
    BY <2>1 DEF Extends, Is
  <2>3. k <= e
    <3>1. k \in Nat /\ k < e
      BY <2>1, Zenon
    <3>2. QED
      BY <3>1
  <2> HIDE DEF k
  <2>4. QED
    BY <2>2, <2>3 DEF Backed
<1>3. QED
  BY <1>1, <1>2

\* An approval is new where the candidate has none.
KeepIsNew(s, r) ==
  r.type = "human.keep" =>
    \A x \in Event(s) : Is(s, x, "human.keep") /\ s.log[x].target = r.target
                          => ~ Is(s, r.target, "analysis.canon_candidate")

\* A log with one more event that fits it is sound.
LEMMA LogStaysSound ==
  ASSUME NEW s, NEW t, NEW r, NEW e, Extends(s, t), EventFits(s, r), LogSound(s),
         KeepIsNew(s, r), Event(t) = Event(s) \cup {e}, t.log[e] = r
  PROVE  LogSound(t)
<1>1. ASSUME NEW x \in Event(t), Is(t, x, "human.keep")
      PROVE  KeepFits(t, t.log[x])
  <2>1. CASE x \in Event(s)
    <3>1. Is(s, x, "human.keep") /\ t.log[x] = s.log[x]
      BY <1>1, <2>1 DEF Extends, Is
    <3>2. KeepFits(s, s.log[x])
      BY <2>1, <3>1 DEF LogSound
    <3>3. QED
      BY <3>1, <3>2, FitsStays
  <2>2. CASE x = e
    <3>1. KeepFits(s, r)
      BY <1>1, <2>2 DEF EventFits, Is
    <3>2. QED
      BY <2>2, <3>1, FitsStays
  <2>3. QED
    BY <1>1, <2>1, <2>2
<1>2. ASSUME NEW x \in Event(s), Is(t, x, "human.keep"),
             Is(t, t.log[x].target, "analysis.canon_candidate")
      PROVE  /\ Is(s, x, "human.keep") /\ t.log[x] = s.log[x]
             /\ Is(s, s.log[x].target, "analysis.canon_candidate")
  <2>1. Is(s, x, "human.keep") /\ t.log[x] = s.log[x]
    BY <1>2 DEF Extends, Is
  <2>2. s.log[x].target \in Event(s)
    BY <2>1 DEF LogSound, KeepFits
  <2>3. QED
    BY <1>2, <2>1, <2>2 DEF Extends, Is
<1>3. ASSUME NEW x \in Event(s), Is(t, x, "human.keep"), Is(t, e, "human.keep"),
             Is(t, t.log[x].target, "analysis.canon_candidate"),
             t.log[x].target = t.log[e].target
      PROVE  FALSE
  <2>1. r.type = "human.keep"
    BY <1>3 DEF Is
  <2>2. QED
    BY <1>2, <1>3, <2>1 DEF KeepIsNew
<1>4. ASSUME NEW x \in Event(t), NEW y \in Event(t),
             Is(t, x, "human.keep"), Is(t, y, "human.keep"),
             t.log[x].target = t.log[y].target,
             Is(t, t.log[x].target, "analysis.canon_candidate")
      PROVE  x = y
  <2>1. CASE x \in Event(s) /\ y \in Event(s)
    <3>1. /\ Is(s, x, "human.keep") /\ Is(s, y, "human.keep")
          /\ s.log[x].target = s.log[y].target
          /\ Is(s, s.log[x].target, "analysis.canon_candidate")
      BY <1>2, <1>4, <2>1
    <3>2. QED
      BY <2>1, <3>1 DEF LogSound
  <2>2. QED
    BY <1>3, <1>4, <2>1
<1>5. QED
  BY <1>1, <1>4 DEF LogSound

\* The order in which the store sorts the events is total.
LEMMA BeforeIsTotal ==
  ASSUME NEW s, NEW x \in Nat, NEW y \in Nat, NEW z \in Nat,
         s.log[x].at \in Nat, s.log[y].at \in Nat, s.log[z].at \in Nat
  PROVE  /\ Before(s, x, y) /\ Before(s, y, z) => Before(s, x, z)
         /\ x # y => Before(s, x, y) \/ Before(s, y, x)
BY DEF Before

\* Each branch has a last event when one more is there.
LEMMA BranchesStaySound ==
  ASSUME NEW s \in Database, NEW t \in Database, NEW r, NEW e, Extends(s, t),
         BranchesSound(s), Event(t) = Event(s) \cup {e}, t.log[e] = r,
         e \in Nat, e \notin Event(s), r \in EventRecord, t.branch[r.branch] # NoRow,
         \A b \in Branch \ {r.branch} : t.branch[b] = s.branch[b]
  PROVE  BranchesSound(t)
<1>1. \A x \in Event(t) : x \in Nat /\ t.log[x].at \in Nat
  <2>1. \A x \in Event(t) : t.log[x] \in EventRecord
    BY EventsOf
  <2>2. \A x \in Event(s) : x \in Nat
    BY EventsOf
  <2>3. QED
    BY <2>1, <2>2 DEF EventRecord
<1>2. r.branch \in Branch
  BY DEF EventRecord
<1>3. \A x, y \in Event(s) : Before(t, x, y) <=> Before(s, x, y)
  BY DEF Extends, Before
<1>4. ASSUME NEW b \in Branch, b # r.branch, Exists(t, b)
      PROVE  HasLast(t, b)
  <2>1. Exists(s, b)
    BY <1>4 DEF Exists
  <2>2. Own(t, b) = Own(s, b) /\ Own(s, b) \subseteq Event(s)
    BY <1>4 DEF Own, Extends
  <2>3. HasLast(s, b)
    BY <2>1 DEF BranchesSound
  <2>4. QED
    BY <1>3, <2>2, <2>3 DEF HasLast
<1>5. HasLast(t, r.branch)
  <2>1. /\ Own(t, r.branch) = Own(s, r.branch) \cup {e}
        /\ Own(s, r.branch) \subseteq Event(s)
    BY DEF Own, Extends
  <2>2. CASE Own(s, r.branch) = {}
    BY <2>1, <2>2 DEF HasLast
  <2>3. CASE Own(s, r.branch) # {}
    <3>1. Exists(s, r.branch)
      BY <2>3 DEF Own, BranchesSound
    <3>2. PICK l \in Own(s, r.branch) :
            \A x \in Own(s, r.branch) \ {l} : Before(s, x, l)
      BY <1>2, <3>1 DEF BranchesSound, HasLast
    <3>3. \A x \in Own(s, r.branch) \ {l} : Before(t, x, l)
      BY <1>3, <2>1, <3>2
    <3>4. l \in Event(t) /\ e \in Event(t) /\ l # e
      BY <2>1
    <3>5. Before(t, l, e) \/ Before(t, e, l)
      BY <1>1, <3>4, BeforeIsTotal
    <3>6. CASE Before(t, e, l)
      BY <2>1, <3>3, <3>6 DEF HasLast
    <3>7. CASE Before(t, l, e)
      <4>1. ASSUME NEW x \in Own(s, r.branch)
            PROVE  Before(t, x, e)
        <5>1. CASE x = l
          BY <3>7, <5>1
        <5>2. CASE x # l
          <6>1. Before(t, x, l) /\ x \in Event(t)
            BY <2>1, <3>3, <5>2
          <6>2. QED
            BY <1>1, <3>4, <3>7, <6>1, BeforeIsTotal
        <5>3. QED
          BY <5>1, <5>2
      <4>2. QED
        BY <2>1, <4>1 DEF HasLast
    <3>8. QED
      BY <3>5, <3>6, <3>7
  <2>4. QED
    BY <2>2, <2>3
<1>6. ASSUME NEW x \in Event(t)
      PROVE  Exists(t, t.log[x].branch)
  <2>1. CASE x = e
    BY <2>1 DEF Exists
  <2>2. CASE x \in Event(s)
    <3>1. Exists(s, s.log[x].branch) /\ t.log[x] = s.log[x]
      BY <2>2 DEF BranchesSound, Extends
    <3>2. s.log[x].branch \in Branch
      BY <2>2, EventsOf DEF EventRecord
    <3>3. QED
      BY <3>1, <3>2 DEF Extends
  <2>3. QED
    BY <2>1, <2>2
<1>7. QED
  BY <1>4, <1>5, <1>6 DEF BranchesSound

\* What fits, and is the first approval of its candidate, leaves the story sound.
LEMMA AppendIsSound ==
  ASSUME NEW s, Sound(s), NEW r, EventFits(s, r), KeepIsNew(s, r)
  PROVE  Sound(Appended(s, r)) /\ Extends(s, Appended(s, r))
<1> DEFINE e == Len(s.log) + 1
<1>1. s \in Database /\ Appendable(s, r) /\ r \in EventRecord
  BY DEF Sound, EventFits, Appendable
<1>2. PICK t : t = Appended(s, r)
  OBVIOUS
<1>3. /\ Event(t) = Event(s) \cup {e}
      /\ e \in Nat /\ e \notin Event(s) /\ \A x \in Event(s) : x \in Nat /\ x < e
      /\ t.log[e] = r /\ Extends(s, t)
  BY <1>1, <1>2, AppendedLog
<1>4. /\ t \in Database /\ t.worker \subseteq Event(t) /\ t.branch[r.branch] # NoRow
      /\ \A b \in Branch \ {r.branch} : t.branch[b] = s.branch[b]
      /\ \A row \in t.claims : row \in s.claims \/ CanonOf(s, e, r, row)
      /\ \A u \in t.transitions : u \in s.transitions \/ CanonBy(e, r, u)
  <2>1. s.worker \subseteq Event(s)
    BY DEF Sound
  <2>2. QED
    BY <1>1, <1>2, <2>1, AppendedFields
<1> HIDE DEF e
<1>5. LogSound(t)
  BY <1>3, LogStaysSound DEF Sound
<1>6. BranchesSound(t)
  BY <1>1, <1>3, <1>4, BranchesStaySound DEF Sound
<1>7. ASSUME r.type \in {"human.keep", "claim.promoted"}, r.claim # NoEvent
      PROVE  Backed(t, r.claim, e)
  BY <1>3, <1>7, NewIsBacked
<1>8. \A u \in s.transitions : u.to = "canonical" => Backed(t, u.claim, u.event)
  BY <1>3, BackedStays DEF Sound, ClaimsSound
<1>9. ASSUME NEW row \in t.claims, row.status = "canonical"
      PROVE  /\ Backed(t, row.claim, row.last)
             /\ row.from = NoBranch => t.log[row.last].branch = row.branch
  <2>1. CASE row \in s.claims
    <3>1. /\ Backed(s, row.claim, row.last)
          /\ row.from = NoBranch => s.log[row.last].branch = row.branch
      BY <1>9, <2>1 DEF Sound, ClaimsSound
    <3>2. Backed(t, row.claim, row.last) /\ row.last \in Event(s)
      BY <1>3, <3>1, BackedStays
    <3>3. QED
      BY <1>3, <3>1, <3>2 DEF Extends
  <2>2. CASE CanonOf(s, e, r, row)
    BY <1>3, <1>7, <1>8, <1>9, <2>2 DEF CanonOf
  <2>3. QED
    BY <1>4, <2>1, <2>2
<1>10. ASSUME NEW u \in t.transitions, u.to = "canonical"
       PROVE  Backed(t, u.claim, u.event)
  <2>1. CASE u \in s.transitions
    BY <1>8, <1>10, <2>1
  <2>2. CASE CanonBy(e, r, u)
    BY <1>7, <1>10, <2>2 DEF CanonBy
  <2>3. QED
    BY <1>4, <2>1, <2>2
<1>11. ClaimsSound(t)
  BY <1>9, <1>10 DEF ClaimsSound
<1>12. QED
  BY <1>2, <1>3, <1>4, <1>5, <1>6, <1>11 DEF Sound

-----------------------------------------------------------------------------
(* Chains and lineages *)

\* The parents of a log are events of it, or none.
Rooted(s) == \A x \in Event(s) : s.log[x].parent \in {NoEvent} \cup Event(s)

\* The ancestry of an event is the event and the ancestry of its parent.
LEMMA ChainIs ==
  ASSUME NEW s \in Database, Rooted(s)
  PROVE  /\ ParentChain(s, NoEvent) = {}
         /\ \A x \in Event(s) : ParentChain(s, x) = {x} \cup ParentChain(s, s.log[x].parent)
<1>1. PICK n \in Nat : n = Len(s.log) /\ Event(s) = 1 .. n
  BY EventsOf
<1>2. PICK up : up = [x \in 1 .. n |-> s.log[x].parent]
  OBVIOUS
<1>3. up \in [1 .. n -> 0 .. n]
  BY <1>1, <1>2 DEF Rooted, NoEvent
<1> DEFINE Closed(C) == \A z \in C : z # 0 => up[z] \in C
           g == [x \in 0 .. n |->
                   {y \in 1 .. n : \A C \in SUBSET (0 .. n) : x \in C /\ Closed(C) => y \in C}]
           chain[x \in 0 .. Len(s.log)] ==
             IF x = NoEvent THEN {} ELSE {x} \cup chain[s.log[x].parent]
<1>4. g[0] = {}
  <2>1. {0} \in SUBSET (0 .. n) /\ Closed({0}) /\ 0 \in {0} /\ 0 \in 0 .. n
    OBVIOUS
  <2>2. ASSUME NEW y \in g[0]
        PROVE  FALSE
    <3>1. y \in 1 .. n /\ y \in {0}
      BY <2>1, <2>2
    <3>2. QED
      BY <3>1
  <2>3. QED
    BY <2>2
<1>5. ASSUME NEW x \in 1 .. n
      PROVE  g[x] = {x} \cup g[up[x]]
  <2>1. x \in 0 .. n /\ x # 0 /\ up[x] \in 0 .. n
    BY <1>3
  <2>2. ASSUME NEW y \in g[x], y # x
        PROVE  y \in g[up[x]]
    <3>1. y \in 1 .. n
      BY <2>1
    <3>2. ASSUME NEW C \in SUBSET (0 .. n), up[x] \in C, Closed(C)
          PROVE  y \in C
      <4>1. PICK D : D = C \cup {x}
        OBVIOUS
      <4>2. D \in SUBSET (0 .. n) /\ x \in D /\ Closed(D)
        BY <2>1, <3>2, <4>1
      <4>3. y \in D
        BY <2>1, <4>2
      <4>4. QED
        BY <2>2, <4>1, <4>3
    <3>3. QED
      BY <2>1, <3>1, <3>2
  <2>3. x \in g[x]
    BY <2>1
  <2>4. ASSUME NEW y \in g[up[x]]
        PROVE  y \in g[x]
    BY <2>1
  <2>5. QED
    BY <2>2, <2>3, <2>4
<1> HIDE DEF g
<1>6. g = [x \in 0 .. Len(s.log) |->
             IF x = NoEvent THEN {} ELSE {x} \cup g[s.log[x].parent]]
  <2>1. \A x \in 0 .. n : x # 0 => x \in 1 .. n /\ up[x] = s.log[x].parent
    BY <1>2
  <2>2. \A x \in 0 .. n : g[x] = IF x = 0 THEN {} ELSE {x} \cup g[s.log[x].parent]
    BY <1>4, <1>5, <2>1
  <2>3. g = [x \in 0 .. n |-> g[x]]
    BY DEF g
  <2>4. QED
    BY <1>1, <2>2, <2>3 DEF NoEvent
<1>7. chain = [x \in 0 .. Len(s.log) |->
                 IF x = NoEvent THEN {} ELSE {x} \cup chain[s.log[x].parent]]
  BY <1>6, Zenon
<1>8. \A e : ParentChain(s, e) = chain[e]
  BY DEF ParentChain
<1> HIDE DEF chain
<1>9. chain[NoEvent] = {} /\ \A x \in 1 .. n : chain[x] = {x} \cup chain[s.log[x].parent]
  <2>1. NoEvent \in 0 .. Len(s.log) /\ \A x \in 1 .. n : x # NoEvent /\ x \in 0 .. Len(s.log)
    BY <1>1 DEF NoEvent
  <2>2. QED
    BY <1>7, <2>1
<1>10. QED
  BY <1>1, <1>8, <1>9

\* The branches V and the branches they were forked from.
Above(s, V) == V \cup ({s.branch[x].parent : x \in V} \ {NoBranch})

\* The lineage of a branch is made in as many steps as there are branches.
LEMMA LineageSteps ==
  ASSUME NEW s \in Database, NEW b \in Branch
  PROVE  \E h \in [0 .. Cardinality(Branch) -> SUBSET Branch] :
           /\ h[0] = {b} /\ Lineage(s, b) = h[Cardinality(Branch)]
           /\ \A k \in 1 .. Cardinality(Branch) : h[k] = Above(s, h[k - 1])
<1> DEFINE up[n \in 0 .. Cardinality(Branch)] ==
             IF n = 0 THEN {b}
             ELSE LET below == up[n - 1]
                  IN  below \cup ({s.branch[x].parent : x \in below} \ {NoBranch})
<1>0. Lineage(s, b) = up[Cardinality(Branch)]
  BY DEF Lineage
<1>n. PICK N \in Nat : N = Cardinality(Branch)
  BY LogAssumption, FS_CardinalityType
<1>t. \A x \in Branch : s.branch[x].parent \in Branch \cup {NoBranch}
  <2>1. s.branch \in [Branch -> BranchRow \cup {NoRow}]
    BY DEF Database
  <2>2. \A row \in BranchRow \cup {NoRow} : row.parent \in Branch \cup {NoBranch}
    BY DEF BranchRow, NoRow
  <2>3. QED
    BY <2>1, <2>2
<1>a. \A V \in SUBSET Branch : Above(s, V) \in SUBSET Branch
  BY <1>t DEF Above
<1>1. PICK F : F = [p \in (1 .. N) \X SUBSET Branch |-> Above(s, p[2])]
  OBVIOUS
<1>2. F \in [(1 .. N) \X SUBSET Branch -> SUBSET Branch]
  BY <1>1, <1>a
<1>3. PICK g \in [0 .. N -> SUBSET Branch] : Follows(g, N, {b}, F)
  <2>1. {b} \in SUBSET Branch
    OBVIOUS
  <2>2. QED
    BY <1>2, <2>1, Recursion
<1>4. g[0] = {b}
  BY <1>3 DEF Follows
<1>5. ASSUME NEW k \in 1 .. N
      PROVE  g[k] = Above(s, g[k - 1])
  <2>1. g[k - 1] \in SUBSET Branch
    BY <1>3
  <2>2. <<k, g[k - 1]>> \in (1 .. N) \X SUBSET Branch
    BY <2>1
  <2>3. F[<<k, g[k - 1]>>] = Above(s, g[k - 1])
    BY <1>1, <2>2
  <2>4. QED
    BY <1>3, <2>3 DEF Follows
<1>6. g = [n \in 0 .. Cardinality(Branch) |->
             IF n = 0 THEN {b}
             ELSE LET below == g[n - 1]
                  IN  below \cup ({s.branch[x].parent : x \in below} \ {NoBranch})]
  <2>1. \A n \in 0 .. N : n # 0 => n \in 1 .. N
    OBVIOUS
  <2>2. \A n \in 0 .. N : g[n] = IF n = 0 THEN {b} ELSE Above(s, g[n - 1])
    BY <1>4, <1>5, <2>1
  <2>3. g = [n \in 0 .. N |-> g[n]]
    BY <1>3
  <2>4. g = [n \in 0 .. N |-> IF n = 0 THEN {b} ELSE Above(s, g[n - 1])]
    BY <2>2, <2>3
  <2>5. QED
    BY <1>n, <2>4, Zenon DEF Above
<1>7. up = [n \in 0 .. Cardinality(Branch) |->
              IF n = 0 THEN {b}
              ELSE LET below == up[n - 1]
                   IN  below \cup ({s.branch[x].parent : x \in below} \ {NoBranch})]
  BY <1>6, Zenon
<1> HIDE DEF up
<1>8. up[0] = {b} /\ \A k \in 1 .. N : up[k] = Above(s, up[k - 1])
  <2>1. 0 \in 0 .. N /\ \A k \in 1 .. N : k \in 0 .. N /\ k # 0
    OBVIOUS
  <2>2. up[0] = {b}
    BY <1>7, <1>n, <2>1
  <2>3. ASSUME NEW k \in 1 .. N
        PROVE  up[k] = Above(s, up[k - 1])
    BY <1>7, <1>n, <2>1, Zenon DEF Above
  <2>4. QED
    BY <2>2, <2>3
<1>9. 0 .. N \subseteq {k \in 0 .. N : up[k] = g[k]}
  <2> DEFINE P == {k \in 0 .. N : up[k] = g[k]}
  <2>1. \A k \in 0 .. N : (\A i \in 0 .. N : i < k => i \in P) => k \in P
    <3> TAKE k \in 0 .. N
    <3> HAVE \A i \in 0 .. N : i < k => i \in P
    <3>1. CASE k = 0
      BY <1>4, <1>8, <3>1
    <3>2. CASE k # 0
      <4>1. k \in 1 .. N /\ k - 1 \in 0 .. N /\ k - 1 < k
        BY <3>2
      <4>2. up[k - 1] = g[k - 1]
        BY <4>1
      <4>3. up[k] = Above(s, up[k - 1]) /\ g[k] = Above(s, g[k - 1])
        BY <1>5, <1>8, <4>1
      <4>4. QED
        BY <4>2, <4>3
    <3>3. QED
      BY <3>1, <3>2
  <2> HIDE DEF P
  <2>2. 0 .. N \subseteq P
    BY <2>1, StrongInduction
  <2>3. QED
    BY <2>2 DEF P
<1>10. Lineage(s, b) = g[N]
  <2>1. N \in 0 .. N
    OBVIOUS
  <2>2. QED
    BY <1>0, <1>n, <1>9, <2>1
<1>11. QED
  BY <1>3, <1>4, <1>5, <1>10, <1>n

\* The branches V hold whatever their branches were forked from.
ClosedAbove(s, V) ==
  \A x \in V : s.branch[x].parent # NoBranch => s.branch[x].parent \in V

\* The lineage of a branch is the smallest set that holds it and what was forked.
LEMMA LineageIs ==
  ASSUME NEW s \in Database, NEW b \in Branch
  PROVE  /\ b \in Lineage(s, b) /\ Lineage(s, b) \subseteq Branch
         /\ ClosedAbove(s, Lineage(s, b))
         /\ \A C : b \in C /\ ClosedAbove(s, C) => Lineage(s, b) \subseteq C
<1>1. PICK N \in Nat : N = Cardinality(Branch)
  BY LogAssumption, FS_CardinalityType
<1>2. PICK h \in [0 .. N -> SUBSET Branch] :
        /\ h[0] = {b} /\ Lineage(s, b) = h[N]
        /\ \A k \in 1 .. N : h[k] = Above(s, h[k - 1])
  BY <1>1, LineageSteps
<1>3. \A k \in 0 .. N : h[k] \in SUBSET Branch /\ IsFiniteSet(h[k])
                        /\ Cardinality(h[k]) \in Nat /\ Cardinality(h[k]) <= N
  <2> TAKE k \in 0 .. N
  <2>1. h[k] \in SUBSET Branch
    OBVIOUS
  <2>2. IsFiniteSet(h[k]) /\ Cardinality(h[k]) <= N
    BY <1>1, <2>1, LogAssumption, FS_Subset
  <2>3. QED
    BY <2>1, <2>2, FS_CardinalityType
<1>4. ASSUME NEW V
      PROVE  /\ V \subseteq Above(s, V) /\ (ClosedAbove(s, V) => Above(s, V) = V)
             /\ ~ ClosedAbove(s, V) => Above(s, V) # V
  BY DEF Above, ClosedAbove
<1> DEFINE P == {k \in 0 .. N : b \in h[k] /\ (ClosedAbove(s, h[k]) \/ Cardinality(h[k]) > k)}
<1>5. \A k \in 0 .. N : (\A i \in 0 .. N : i < k => i \in P) => k \in P
  <2> TAKE k \in 0 .. N
  <2> HAVE \A i \in 0 .. N : i < k => i \in P
  <2>1. CASE k = 0
    <3>1. PICK V : V = h[0]
      OBVIOUS
    <3>2. V = {b} /\ Cardinality({b}) = 1
      BY <1>2, <3>1, FS_Singleton
    <3>3. b \in V /\ Cardinality(V) > 0
      BY <3>2
    <3>4. QED
      BY <2>1, <3>1, <3>3
  <2>2. CASE k # 0
    <3>1. k \in 1 .. N /\ k - 1 \in 0 .. N /\ k - 1 < k
      BY <2>2
    <3>2. k - 1 \in P /\ h[k] = Above(s, h[k - 1])
      BY <1>2, <3>1
    <3>3. PICK V, W : V = h[k - 1] /\ W = h[k]
      OBVIOUS
    <3>4. b \in V /\ V \subseteq W
      BY <1>4, <3>2, <3>3
    <3>5. CASE ClosedAbove(s, V)
      BY <1>4, <3>2, <3>3, <3>4, <3>5
    <3>6. CASE ~ ClosedAbove(s, V)
      <4>1. Cardinality(V) > k - 1
        BY <3>2, <3>3, <3>6
      <4>2. W # V /\ IsFiniteSet(W)
        BY <1>3, <1>4, <3>2, <3>3, <3>6
      <4>3. Cardinality(V) <= Cardinality(W) /\ Cardinality(V) # Cardinality(W)
        BY <3>4, <4>2, FS_Subset
      <4>4. Cardinality(V) \in Nat /\ Cardinality(W) \in Nat
        BY <1>3, <3>1, <3>3
      <4>5. Cardinality(W) > k
        BY <3>1, <4>1, <4>3, <4>4
      <4>6. QED
        BY <3>3, <3>4, <4>5
    <3>7. QED
      BY <3>5, <3>6
  <2>3. QED
    BY <2>1, <2>2
<1>6. 0 .. N \subseteq P
  <2> HIDE DEF P
  <2>1. QED
    BY <1>5, StrongInduction
<1>7. N \in P
  BY <1>6
<1>8. ~ (Cardinality(h[N]) > N)
  <2>1. N \in 0 .. N
    OBVIOUS
  <2>2. QED
    BY <1>3, <2>1
<1>9. ASSUME NEW C, b \in C, ClosedAbove(s, C)
      PROVE  h[N] \subseteq C
  <2> DEFINE Q == {k \in 0 .. N : h[k] \subseteq C}
  <2>1. \A k \in 0 .. N : (\A i \in 0 .. N : i < k => i \in Q) => k \in Q
    <3> TAKE k \in 0 .. N
    <3> HAVE \A i \in 0 .. N : i < k => i \in Q
    <3>1. CASE k = 0
      BY <1>2, <1>9, <3>1
    <3>2. CASE k # 0
      <4>1. k \in 1 .. N /\ k - 1 \in 0 .. N /\ k - 1 < k
        BY <3>2
      <4>2. h[k - 1] \subseteq C /\ h[k] = Above(s, h[k - 1])
        BY <1>2, <4>1
      <4>3. h[k] \subseteq C
        BY <1>9, <4>2 DEF Above, ClosedAbove
      <4>4. QED
        BY <4>3
    <3>3. QED
      BY <3>1, <3>2
  <2> HIDE DEF Q
  <2>2. 0 .. N \subseteq Q
    BY <2>1, StrongInduction
  <2>3. N \in Q
    BY <2>2
  <2>4. QED
    BY <2>3 DEF Q
<1>10. QED
  <2>1. N \in 0 .. N
    OBVIOUS
  <2>2. b \in h[N] /\ ClosedAbove(s, h[N])
    BY <1>7, <1>8
  <2>3. h[N] \subseteq Branch
    BY <2>1
  <2>4. QED
    BY <1>2, <1>9, <2>2, <2>3

\* What was forked has a lineage that is a part of the fork's.
LEMMA LineageOfParent ==
  ASSUME NEW s \in Database, NEW b \in Branch, s.branch[b].parent \in Branch
  PROVE  Lineage(s, s.branch[b].parent) \subseteq Lineage(s, b)
<1>1. PICK c \in Branch : c = s.branch[b].parent
  OBVIOUS
<1>2. b \in Lineage(s, b) /\ ClosedAbove(s, Lineage(s, b))
  BY LineageIs
<1>3. c \in Lineage(s, b)
  BY <1>1, <1>2, LogAssumption DEF ClosedAbove
<1>4. QED
  BY <1>1, <1>2, <1>3, LineageIs

-----------------------------------------------------------------------------
(* The branches are apart *)

\* In a log whose lines are sound each event has its ancestry in its lineage, and
\* what is not of its branch is inherited.
LEMMA SoundLines ==
  ASSUME NEW s, Sound(s), LinesSound(s)
  PROVE  /\ Rooted(s)
         /\ \A e \in Event(s) :
              LET b == s.log[e].branch
              IN  /\ {s.log[x].branch : x \in ParentChain(s, e)} \subseteq Lineage(s, b)
                  /\ \A x \in ParentChain(s, e) : s.log[x].branch # b => x \in Inherited(s, b)
<1>1. s \in Database
  BY DEF Sound
<1>2. PICK n \in Nat : n = Len(s.log) /\ Event(s) = 1 .. n
  BY <1>1, EventsOf
<1>3. ASSUME NEW x \in Event(s)
      PROVE  /\ x \in 1 .. n /\ s.log[x].branch \in Branch
             /\ s.log[x].parent \in Nat /\ s.log[x].parent < x
             /\ \/ s.log[x].parent = NoEvent
                \/ s.log[x].parent = s.branch[s.log[x].branch].fork
                \/ s.log[x].parent \in Own(s, s.log[x].branch)
  <2>1. s.log[x] \in EventRecord
    BY <1>1, EventsOf
  <2>2. s.log[x].branch \in Branch /\ s.log[x].parent \in Nat
    BY <2>1 DEF EventRecord
  <2>3. s.log[x].parent < x /\ s.log[x].parent
          \in {NoEvent, s.branch[s.log[x].branch].fork} \cup Own(s, s.log[x].branch)
    BY DEF LinesSound
  <2>4. QED
    BY <1>2, <2>2, <2>3
<1>4. Rooted(s)
  <2>1. ASSUME NEW x \in Event(s)
        PROVE  s.log[x].parent \in {NoEvent} \cup Event(s)
    <3>1. x \in 1 .. n /\ s.log[x].parent \in Nat /\ s.log[x].parent < x
      BY <1>3
    <3>2. s.log[x].parent = 0 \/ s.log[x].parent \in 1 .. n
      BY <3>1
    <3>3. QED
      BY <1>2, <3>2 DEF NoEvent
  <2>2. QED
    BY <2>1 DEF Rooted
<1>5. /\ ParentChain(s, NoEvent) = {}
      /\ \A x \in Event(s) : ParentChain(s, x) = {x} \cup ParentChain(s, s.log[x].parent)
  BY <1>1, <1>4, ChainIs
<1> DEFINE Lies(e, b) ==
             /\ \A x \in ParentChain(s, e) : s.log[x].branch \in Lineage(s, b)
             /\ \A x \in ParentChain(s, e) : s.log[x].branch # b => x \in Inherited(s, b)
           P == {k \in 0 .. n : k # 0 => Lies(k, s.log[k].branch)}
<1>6. \A k \in 0 .. n : (\A i \in 0 .. n : i < k => i \in P) => k \in P
  <2> TAKE k \in 0 .. n
  <2> HAVE \A i \in 0 .. n : i < k => i \in P
  <2>1. SUFFICES ASSUME k # 0 PROVE Lies(k, s.log[k].branch)
    OBVIOUS
  <2>2. PICK b : b = s.log[k].branch
    OBVIOUS
  <2>3. PICK p : p = s.log[k].parent
    OBVIOUS
  <2>4. k \in Event(s)
    BY <1>2, <2>1
  <2>5. /\ b \in Branch /\ p \in Nat /\ p < k
        /\ p = NoEvent \/ p = s.branch[b].fork \/ p \in Own(s, b)
    BY <1>3, <2>2, <2>3, <2>4
  <2>6. ParentChain(s, k) = {k} \cup ParentChain(s, p)
    BY <1>5, <2>3, <2>4
  <2>7. b \in Lineage(s, b)
    BY <1>1, <2>5, LineageIs
  <2>8. p # NoEvent => p \in Event(s) /\ p \in 0 .. n /\ Lies(p, s.log[p].branch)
    <3>1. ASSUME p # NoEvent
          PROVE  p \in 1 .. n /\ p \in 0 .. n /\ p # 0
      BY <2>5, <3>1 DEF NoEvent
    <3>2. ASSUME p # NoEvent
          PROVE  p \in P
      BY <2>5, <3>1, <3>2
    <3>3. QED
      BY <1>2, <3>1, <3>2
  <2> HIDE DEF P
  <2>9. CASE p = NoEvent
    <3>1. ParentChain(s, k) = {k}
      BY <1>5, <2>6, <2>9
    <3>2. QED
      BY <2>2, <2>7, <3>1
  <2>10. CASE p \in Own(s, b)
    <3>1. s.log[p].branch = b
      BY <2>10 DEF Own
    <3>2. p # NoEvent
      BY <1>2, <2>10 DEF Own, NoEvent
    <3>3. Lies(p, b)
      BY <2>8, <3>1, <3>2
    <3>4. QED
      BY <2>2, <2>6, <2>7, <3>3
  <2>11. CASE p = s.branch[b].fork /\ p # NoEvent
    <3>1. s.branch[b].parent = s.log[p].branch
      BY <2>5, <2>11 DEF LinesSound
    <3>2. s.log[p].branch \in Branch
      BY <1>3, <2>8, <2>11
    <3>3. Lineage(s, s.log[p].branch) \subseteq Lineage(s, b)
      BY <1>1, <2>5, <3>1, <3>2, LineageOfParent
    <3>4. \A x \in ParentChain(s, p) : s.log[x].branch \in Lineage(s, b)
      BY <2>8, <2>11, <3>3
    <3>5. Inherited(s, b) = ParentChain(s, p)
      BY <2>11 DEF Inherited
    <3>6. QED
      BY <2>2, <2>6, <2>7, <3>4, <3>5
  <2>12. QED
    BY <2>5, <2>9, <2>10, <2>11
<1>7. 0 .. n \subseteq P
  <2> HIDE DEF P
  <2>1. QED
    BY <1>6, StrongInduction
<1>8. \A e \in Event(s) : Lies(e, s.log[e].branch)
  <2>1. \A e \in Event(s) : e \in 0 .. n /\ e # 0
    BY <1>2
  <2>2. QED
    BY <1>7, <2>1
<1>9. QED
  BY <1>4, <1>8

\* Then the branches are apart.
LEMMA LinesAreApart ==
  ASSUME Sound(db), LinesSound(db)
  PROVE  ForkIsolation
<1>1. ASSUME NEW b \in Branches, NEW e \in Own(db, b)
      PROVE  /\ Resolves(db, b, e)
             /\ \A x \in ParentChain(db, e) : db.log[x].branch # b => x \in Inherited(db, b)
  <2>1. e \in Event(db) /\ db.log[e].branch = b
    BY DEF Own
  <2>2. /\ {db.log[x].branch : x \in ParentChain(db, e)} \subseteq Lineage(db, b)
        /\ \A x \in ParentChain(db, e) : db.log[x].branch # b => x \in Inherited(db, b)
    BY <2>1, SoundLines
  <2>3. QED
    BY <2>2 DEF Resolves, Visible
<1>2. QED
  BY <1>1 DEF ForkIsolation

-----------------------------------------------------------------------------
(* The tables of a set of events *)

\* The claim that event x leaves by its move m.
ClaimOf(s, x, m) ==
  [claim |-> m[1], branch |-> s.log[x].branch, status |-> m[2], last |-> x,
   from |-> NoBranch]

\* A claim is left by the last of the events that move it.
LEMMA OwnClaimIs ==
  ASSUME NEW s, NEW E, NEW row
  PROVE  row \in OwnClaims(s, E) <=>
           \E x \in E \ s.worker : \E m \in Moves(x, s.log[x]) :
             /\ row = ClaimOf(s, x, m)
             /\ \A y \in Movers(s, E, m[1], s.log[x].branch) : y <= x
BY DEF OwnClaims, ClaimOf

\* The fields of a claim that is left.
LEMMA ClaimOfIs ==
  ASSUME NEW s, NEW x, NEW m
  PROVE  /\ ClaimOf(s, x, m).claim = m[1] /\ ClaimOf(s, x, m).branch = s.log[x].branch
         /\ ClaimOf(s, x, m).last = x /\ ClaimOf(s, x, m).from = NoBranch
         /\ ClaimOf(s, x, m).status = m[2]
BY DEF ClaimOf

\* Two logs that agree on the events E and on what they were forked from.
Agree(s, t, E) ==
  /\ \A x \in E : t.log[x] = s.log[x] /\ (x \in t.worker <=> x \in s.worker)
  /\ \A f \in E : Is(s, f, "session.forked") => t.log[s.log[f].parent] = s.log[s.log[f].parent]

\* The tables of E are the same in both.
LEMMA FitsInBoth ==
  ASSUME NEW s, NEW t, NEW E, Agree(s, t, E), NEW u, TablesFit(s, E, u)
  PROVE  TablesFit(t, E, u)
<1>1. ASSUME NEW b \in Branch
      PROVE  RowFits(t, E, b, u.branch[b])
  <2>1. RowFits(s, E, b, u.branch[b])
    BY DEF TablesFit
  <2>2. \A f \in E : /\ Forks(t, f, b) <=> Forks(s, f, b)
                     /\ t.log[f] = s.log[f]
                     /\ Forks(s, f, b) => t.log[s.log[f].parent] = s.log[s.log[f].parent]
    BY DEF Agree, Forks, Is
  <2>3. \A x \in E : Is(t, x, "branch.archived") <=> Is(s, x, "branch.archived")
    BY DEF Agree, Is
  <2>4. QED
    BY <2>1, <2>2, <2>3 DEF RowFits
<1>2. E \ t.worker = E \ s.worker
  BY DEF Agree
<1>3. \A c, b : Movers(t, E, c, b) = Movers(s, E, c, b)
  BY <1>2 DEF Agree, Movers
<1>4. \A x \in E : \A m : ClaimOf(t, x, m) = ClaimOf(s, x, m)
  BY DEF Agree, ClaimOf
<1>5. OwnClaims(t, E) = OwnClaims(s, E)
  <2>1. ASSUME NEW row
        PROVE  row \in OwnClaims(t, E) <=> row \in OwnClaims(s, E)
    <3>1. \A x \in E : t.log[x] = s.log[x]
      BY DEF Agree
    <3>2. ASSUME row \in OwnClaims(t, E)
          PROVE  row \in OwnClaims(s, E)
      <4>1. PICK x \in E \ t.worker : \E m \in Moves(x, t.log[x]) :
              /\ row = ClaimOf(t, x, m)
              /\ \A y \in Movers(t, E, m[1], t.log[x].branch) : y <= x
        BY <3>2, OwnClaimIs
      <4>2. PICK m \in Moves(x, t.log[x]) :
              /\ row = ClaimOf(t, x, m)
              /\ \A y \in Movers(t, E, m[1], t.log[x].branch) : y <= x
        BY <4>1
      <4>3. x \in E \ s.worker /\ m \in Moves(x, s.log[x]) /\ row = ClaimOf(s, x, m)
        BY <1>2, <1>4, <3>1, <4>2
      <4>4. \A y \in Movers(s, E, m[1], s.log[x].branch) : y <= x
        BY <1>3, <3>1, <4>2
      <4>5. QED
        BY <4>3, <4>4, OwnClaimIs
    <3>3. ASSUME row \in OwnClaims(s, E)
          PROVE  row \in OwnClaims(t, E)
      <4>1. PICK x \in E \ s.worker : \E m \in Moves(x, s.log[x]) :
              /\ row = ClaimOf(s, x, m)
              /\ \A y \in Movers(s, E, m[1], s.log[x].branch) : y <= x
        BY <3>3, OwnClaimIs
      <4>2. PICK m \in Moves(x, s.log[x]) :
              /\ row = ClaimOf(s, x, m)
              /\ \A y \in Movers(s, E, m[1], s.log[x].branch) : y <= x
        BY <4>1
      <4>3. x \in E \ t.worker /\ m \in Moves(x, t.log[x]) /\ row = ClaimOf(t, x, m)
        BY <1>2, <1>4, <3>1, <4>2
      <4>4. \A y \in Movers(t, E, m[1], t.log[x].branch) : y <= x
        BY <1>3, <3>1, <4>2
      <4>5. QED
        BY <4>3, <4>4, OwnClaimIs
    <3>4. QED
      BY <3>2, <3>3
  <2>2. QED
    BY <2>1
<1>6. QED
  BY <1>1, <1>5 DEF TablesFit

\* The rows of the branches after one event.
LEMMA RowsMade ==
  ASSUME NEW t \in Database, NEW r \in EventRecord,
         IF r.type = "session.forked" THEN r.parent \in Event(t) ELSE Exists(t, r.branch)
  PROVE  /\ \A b \in Branch \ {r.branch} : BranchRows(t, r)[b] = t.branch[b]
         /\ BranchRows(t, r)[r.branch] \in BranchRow
         /\ r.type = "session.forked" =>
              /\ BranchRows(t, r)[r.branch].parent = t.log[r.parent].branch
              /\ BranchRows(t, r)[r.branch].fork = r.parent
              /\ BranchRows(t, r)[r.branch].open
         /\ r.type # "session.forked" =>
              /\ t.branch[r.branch] \in BranchRow
              /\ BranchRows(t, r)[r.branch].parent = t.branch[r.branch].parent
              /\ BranchRows(t, r)[r.branch].fork = t.branch[r.branch].fork
              /\ BranchRows(t, r)[r.branch].open <=>
                   r.type # "branch.archived" /\ t.branch[r.branch].open
<1>1. t.branch \in [Branch -> BranchRow \cup {NoRow}] /\ r.branch \in Branch
  BY DEF Database, EventRecord
<1>2. BranchRows(t, r) \in [Branch -> BranchRow \cup {NoRow}]
      /\ BranchRows(t, r)[r.branch] # NoRow
      /\ \A b \in Branch \ {r.branch} : BranchRows(t, r)[b] = t.branch[b]
  BY RowsAfter
<1>3. BranchRows(t, r)[r.branch] \in BranchRow
  BY <1>1, <1>2
<1>4. CASE r.type = "session.forked"
  <2> DEFINE row == [parent |-> t.log[r.parent].branch, fork |-> r.parent, open |-> TRUE]
  <2>1. BranchRows(t, r) = [t.branch EXCEPT ![r.branch] = row]
    BY <1>4 DEF BranchRows
  <2>2. row.parent = t.log[r.parent].branch /\ row.fork = r.parent /\ row.open
    OBVIOUS
  <2> HIDE DEF row
  <2>3. BranchRows(t, r)[r.branch] = row
    BY <1>1, <2>1
  <2>4. QED
    BY <1>2, <1>3, <1>4, <2>2, <2>3
<1>5. CASE r.type # "session.forked"
  <2>1. t.branch[r.branch] \in BranchRow
    BY <1>1, <1>5 DEF Exists
  <2>2. CASE r.type = "branch.archived"
    <3>1. PICK old \in BranchRow : old = t.branch[r.branch]
      BY <2>1
    <3>2. PICK row : row = [old EXCEPT !.open = FALSE]
      OBVIOUS
    <3>3. row.parent = old.parent /\ row.fork = old.fork /\ row.open = FALSE
      BY <3>1, <3>2 DEF BranchRow
    <3>4. BranchRows(t, r) = [t.branch EXCEPT ![r.branch] = row]
      BY <2>2, <3>1, <3>2 DEF BranchRows
    <3>5. BranchRows(t, r)[r.branch] = row
      BY <1>1, <3>4
    <3>6. QED
      BY <1>2, <1>3, <1>5, <2>1, <2>2, <3>1, <3>3, <3>5
  <2>3. CASE r.type # "branch.archived"
    <3>1. BranchRows(t, r) = t.branch
      BY <1>5, <2>3 DEF BranchRows
    <3>2. QED
      BY <1>2, <1>3, <1>5, <2>1, <2>3, <3>1
  <2>4. QED
    BY <2>2, <2>3
<1>6. QED
  BY <1>4, <1>5

\* An event makes its row out of the rows of the events E, which are on other
\* branches if it forks one, and else have made the row of its branch.
LEMMA RowsStep ==
  ASSUME NEW s \in Database, NEW E \in SUBSET Event(s), NEW e \in Event(s),
         NEW r, r = s.log[e], NEW u \in Database, u.log = s.log,
         \A b \in Branch : RowFits(s, E, b, u.branch[b]),
         r.type = "session.forked" =>
           /\ r.branch # Main /\ r.parent \in Event(s)
           /\ \A x \in E : s.log[x].branch # r.branch,
         r.type # "session.forked" => u.branch[r.branch] # NoRow
  PROVE  \A b \in Branch : RowFits(s, E \cup {e}, b, BranchRows(u, r)[b])
<1>1. r \in EventRecord /\ r.branch \in Branch
  BY EventsOf DEF EventRecord
<1>2. IF r.type = "session.forked" THEN r.parent \in Event(u) ELSE Exists(u, r.branch)
  BY DEF Event, Exists
<1>3. PICK rows : rows = BranchRows(u, r)
  OBVIOUS
<1>4. /\ \A b \in Branch \ {r.branch} : rows[b] = u.branch[b]
      /\ rows[r.branch] \in BranchRow
      /\ r.type = "session.forked" =>
           /\ rows[r.branch].parent = s.log[r.parent].branch
           /\ rows[r.branch].fork = r.parent /\ rows[r.branch].open
      /\ r.type # "session.forked" =>
           /\ u.branch[r.branch] \in BranchRow
           /\ rows[r.branch].parent = u.branch[r.branch].parent
           /\ rows[r.branch].fork = u.branch[r.branch].fork
           /\ rows[r.branch].open <=> r.type # "branch.archived" /\ u.branch[r.branch].open
  <2>1. PICK b : b = u.log[r.parent].branch
    OBVIOUS
  <2>2. /\ \A c \in Branch \ {r.branch} : rows[c] = u.branch[c]
        /\ rows[r.branch] \in BranchRow
        /\ r.type = "session.forked" =>
             /\ rows[r.branch].parent = b
             /\ rows[r.branch].fork = r.parent /\ rows[r.branch].open
    BY <1>1, <1>2, <1>3, <2>1, RowsMade
  <2>3. r.type # "session.forked" =>
          /\ u.branch[r.branch] \in BranchRow
          /\ rows[r.branch].parent = u.branch[r.branch].parent
          /\ rows[r.branch].fork = u.branch[r.branch].fork
          /\ rows[r.branch].open <=> r.type # "branch.archived" /\ u.branch[r.branch].open
    BY <1>1, <1>2, <1>3, RowsMade
  <2>4. b = s.log[r.parent].branch
    BY <2>1
  <2>5. QED
    BY <2>2, <2>3, <2>4
<1>5. ASSUME NEW b \in Branch, b # r.branch
      PROVE  RowFits(s, E \cup {e}, b, rows[b])
  <2>1. rows[b] = u.branch[b] /\ RowFits(s, E, b, u.branch[b])
    BY <1>4, <1>5
  <2>2. ~ Forks(s, e, b) /\ s.log[e].branch # b
    BY <1>5 DEF Forks
  <2>3. PICK row : row = u.branch[b]
    OBVIOUS
  <2>4. RowFits(s, E, b, row)
    BY <2>1, <2>3
  <2>5. (\A f \in E \cup {e} : ~ Forks(s, f, b)) <=> \A f \in E : ~ Forks(s, f, b)
    BY <2>2
  <2>6. (\A x \in E \cup {e} : ~ (Is(s, x, "branch.archived") /\ s.log[x].branch = b))
          <=> \A x \in E : ~ (Is(s, x, "branch.archived") /\ s.log[x].branch = b)
    BY <2>2
  <2>7. RowFits(s, E \cup {e}, b, row)
    BY <2>2, <2>4, <2>5, <2>6, Zenon DEF RowFits
  <2>8. QED
    BY <2>1, <2>3, <2>7
<1>6. CASE r.type = "session.forked"
  <2>1. \A x \in E : ~ Forks(s, x, r.branch) /\ s.log[x].branch # r.branch
    BY <1>6 DEF Forks
  <2>2. Forks(s, e, r.branch) /\ ~ Is(s, e, "branch.archived") /\ r.branch # Main
    BY <1>6 DEF Forks, Is
  <2>3. RowFits(s, E \cup {e}, r.branch, rows[r.branch])
    BY <1>4, <1>6, <2>1, <2>2 DEF RowFits
  <2>4. QED
    BY <1>3, <1>5, <2>3
<1>7. CASE r.type # "session.forked"
  <2>1. PICK old : old = u.branch[r.branch]
    OBVIOUS
  <2>2. old # NoRow /\ RowFits(s, E, r.branch, old)
    BY <1>1, <1>7, <2>1
  <2>3. ~ Forks(s, e, r.branch)
    BY <1>7 DEF Forks, Is
  <2>4. Is(s, e, "branch.archived") <=> r.type = "branch.archived"
    BY DEF Is
  <2>5. PICK row : row = rows[r.branch]
    OBVIOUS
  <2>6. /\ row \in BranchRow /\ row.parent = old.parent /\ row.fork = old.fork
        /\ row.open <=> r.type # "branch.archived" /\ old.open
    BY <1>4, <1>7, <2>1, <2>5
  <2>7. RowFits(s, E \cup {e}, r.branch, row)
    BY <2>2, <2>3, <2>4, <2>6 DEF RowFits
  <2>8. QED
    BY <1>3, <1>5, <2>5, <2>7
<1>8. QED
  BY <1>6, <1>7

\* The claims that are a branch's own after one event: those it moves are its.
LEMMA OwnClaimsAfter ==
  ASSUME NEW u \in Database, NEW e \in Event(u), NEW r, r = u.log[e],
         r.type = "session.forked" => r.parent \in Event(u)
  PROVE  /\ e \in u.worker \/ r.type = "session.forked" =>
              {row \in Projected(u, e).claims : row.from = NoBranch}
                = {row \in u.claims : row.from = NoBranch}
         /\ e \notin u.worker /\ r.type # "session.forked" =>
              {row \in Projected(u, e).claims : row.from = NoBranch}
                = {row \in u.claims : row.from = NoBranch /\
                     \A m \in Moves(e, r) : ~ (row.claim = m[1] /\ row.branch = r.branch)}
                  \cup {ClaimOf(u, e, m) : m \in Moves(e, r)}
<1> DEFINE claims == IF e \in u.worker /\ r.type # "session.forked" THEN u.claims
                     ELSE ClaimsAfter(u, e, r)
           rows == BranchRows(u, r)
           open == r.type = "branch.archived" =>
                     \E b \in Branch : rows[b] # NoRow /\ rows[b].open
           moved == Moved(e, r)
           transitions == IF e \in u.worker THEN u.transitions ELSE u.transitions \cup moved
           sessionOpen == u.sessionOpen /\ open
<1>1. Projected(u, e) = [u EXCEPT !.branch = rows, !.sessionOpen = sessionOpen,
                                  !.claims = claims, !.transitions = transitions]
  BY DEF Projected, Moved
<1> HIDE DEF rows, claims, transitions, sessionOpen
<1>2. Projected(u, e).claims = claims
  BY <1>1 DEF Database
<1>3. CASE r.type = "session.forked"
  <2>1. claims = u.claims \cup InheritedClaims(u, r.branch, r.parent)
    BY <1>3 DEF claims, ClaimsAfter
  <2>2. \A row \in InheritedClaims(u, r.branch, r.parent) : row.from # NoBranch
    <3>1. u.log[r.parent].branch \in Branch
      BY <1>3, EventsOf DEF EventRecord
    <3>2. QED
      BY <3>1, LogAssumption DEF InheritedClaims
  <2>3. QED
    BY <1>2, <1>3, <2>1, <2>2
<1>4. CASE e \in u.worker /\ r.type # "session.forked"
  BY <1>2, <1>4 DEF claims
<1>5. CASE e \notin u.worker /\ r.type # "session.forked"
  <2>1. claims = {row \in u.claims : \A m \in Moves(e, r) :
                                       ~ (row.claim = m[1] /\ row.branch = r.branch)}
                 \cup {ClaimOf(u, e, m) : m \in Moves(e, r)}
    BY <1>5 DEF claims, ClaimsAfter, ClaimOf
  <2>2. \A m : ClaimOf(u, e, m).from = NoBranch
    BY ClaimOfIs
  <2>3. QED
    BY <1>2, <1>5, <2>1, <2>2
<1>6. QED
  BY <1>3, <1>4, <1>5
\* The projection of an event keeps the database typed.
LEMMA ProjectedIsTyped ==
  ASSUME NEW u \in Database, NEW e \in Event(u), NEW r, r = u.log[e],
         IF r.type = "session.forked" THEN r.parent \in Event(u) ELSE Exists(u, r.branch)
  PROVE  Projected(u, e) \in Database
<1>1. r \in EventRecord
  BY EventsOf
<1>2. BranchRows(u, r) \in [Branch -> BranchRow \cup {NoRow}]
  BY <1>1, RowsAfter
<1>3. u.claims \in SUBSET ClaimRow /\ u.transitions \in SUBSET Transition
  BY DEF Database
<1>4. r.type = "session.forked" => r.parent \in Event(u)
  OBVIOUS
<1>5. \A row \in ClaimsAfter(u, e, r) : row \in u.claims \/ row \in ClaimRow
  <2>1. ASSUME NEW row \in ClaimsAfter(u, e, r), row \notin u.claims
        PROVE  row \in ClaimRow
    BY <1>4, <2>1, ClaimsAre
  <2>2. QED
    BY <2>1
<1>6. Moved(e, r) \subseteq Transition
  BY TransitionsAre
<1>7. Projected(u, e).claims \in SUBSET ClaimRow
  BY <1>3, <1>5, ProjectedFields
<1>8. Projected(u, e).transitions \in SUBSET Transition
  BY <1>3, <1>6, ProjectedFields
<1>9. QED
  BY <1>2, <1>7, <1>8, ProjectedFields

\* The claims of E and of one event more, which is not before those it undoes.
LEMMA OwnClaimsStep ==
  ASSUME NEW s \in Database, NEW E \in SUBSET Event(s), NEW e \in Event(s), e \notin E,
         NEW r, r = s.log[e],
         \A m \in Moves(e, r) : \A y \in Movers(s, E, m[1], r.branch) : y <= e
  PROVE  /\ e \in s.worker \/ Moves(e, r) = {} => OwnClaims(s, E \cup {e}) = OwnClaims(s, E)
         /\ e \notin s.worker =>
              OwnClaims(s, E \cup {e})
                = {row \in OwnClaims(s, E) :
                     \A m \in Moves(e, r) : ~ (row.claim = m[1] /\ row.branch = r.branch)}
                  \cup {ClaimOf(s, e, m) : m \in Moves(e, r)}
<1> DEFINE Hits(c, b) == /\ e \notin s.worker /\ r.branch = b
                         /\ \E m \in Moves(e, r) : m[1] = c
<1>0. \A x \in E : x \in Nat /\ x # e /\ e \in Nat
  BY EventsOf
<1>1. \A c, b, y : y \in Movers(s, E \cup {e}, c, b) <=>
                     y \in Movers(s, E, c, b) \/ (y = e /\ Hits(c, b))
  BY DEF Movers
<1>2. ASSUME NEW x \in E \ s.worker, NEW m \in Moves(x, s.log[x])
      PROVE  x \in Movers(s, E, m[1], s.log[x].branch)
  BY DEF Movers
<1> HIDE DEF Hits
<1>3. ASSUME NEW row \in OwnClaims(s, E)
      PROVE  \/ row \in OwnClaims(s, E \cup {e})
             \/ Hits(row.claim, row.branch)
  <2>1. PICK x \in E \ s.worker : \E m \in Moves(x, s.log[x]) :
          /\ row = ClaimOf(s, x, m)
          /\ \A y \in Movers(s, E, m[1], s.log[x].branch) : y <= x
    BY OwnClaimIs
  <2>2. PICK m \in Moves(x, s.log[x]) :
          /\ row = ClaimOf(s, x, m)
          /\ \A y \in Movers(s, E, m[1], s.log[x].branch) : y <= x
    BY <2>1
  <2>3. row.claim = m[1] /\ row.branch = s.log[x].branch
    BY <2>2, ClaimOfIs
  <2>4. ASSUME ~ Hits(m[1], s.log[x].branch)
        PROVE  \A y \in Movers(s, E \cup {e}, m[1], s.log[x].branch) : y <= x
    BY <1>1, <2>2, <2>4
  <2>5. x \in (E \cup {e}) \ s.worker
    OBVIOUS
  <2>6. QED
    BY <2>2, <2>3, <2>4, <2>5, OwnClaimIs
<1>4. ASSUME NEW row \in OwnClaims(s, E \cup {e})
      PROVE  \/ row \in OwnClaims(s, E) /\ ~ Hits(row.claim, row.branch)
             \/ e \notin s.worker /\ row \in {ClaimOf(s, e, m) : m \in Moves(e, r)}
  <2>1. PICK x \in (E \cup {e}) \ s.worker : \E m \in Moves(x, s.log[x]) :
          /\ row = ClaimOf(s, x, m)
          /\ \A y \in Movers(s, E \cup {e}, m[1], s.log[x].branch) : y <= x
    BY OwnClaimIs
  <2>2. PICK m \in Moves(x, s.log[x]) :
          /\ row = ClaimOf(s, x, m)
          /\ \A y \in Movers(s, E \cup {e}, m[1], s.log[x].branch) : y <= x
    BY <2>1
  <2>3. CASE x = e
    BY <2>2, <2>3
  <2>4. CASE x # e
    <3>1. x \in E \ s.worker
      BY <2>4
    <3>2. \A y \in Movers(s, E, m[1], s.log[x].branch) : y <= x
      BY <1>1, <2>2
    <3>3. row \in OwnClaims(s, E)
      BY <2>2, <3>1, <3>2, OwnClaimIs
    <3>4. ASSUME Hits(m[1], s.log[x].branch)
          PROVE  FALSE
      <4>1. e <= x
        BY <1>1, <2>2, <3>4
      <4>2. PICK n \in Moves(e, r) : n[1] = m[1] /\ r.branch = s.log[x].branch
        BY <3>4 DEF Hits
      <4>3. x \in Movers(s, E, n[1], r.branch)
        BY <1>2, <3>1, <4>2
      <4>4. x <= e
        BY <4>2, <4>3
      <4>5. QED
        BY <1>0, <3>1, <4>1, <4>4
    <3>5. row.claim = m[1] /\ row.branch = s.log[x].branch
      BY <2>2, ClaimOfIs
    <3>6. QED
      BY <3>3, <3>4, <3>5
  <2>5. QED
    BY <2>3, <2>4
<1>5. ASSUME e \notin s.worker, NEW m \in Moves(e, r)
      PROVE  ClaimOf(s, e, m) \in OwnClaims(s, E \cup {e})
  <2>1. \A y \in Movers(s, E \cup {e}, m[1], r.branch) : y <= e
    <3>1. e <= e
      BY EventsOf
    <3>2. QED
      BY <1>1, <3>1
  <2>2. e \in (E \cup {e}) \ s.worker
    BY <1>5
  <2>3. QED
    BY <2>1, <2>2, OwnClaimIs
<1>6. ASSUME e \in s.worker \/ Moves(e, r) = {}
      PROVE  OwnClaims(s, E \cup {e}) = OwnClaims(s, E)
  <2>1. \A c, b : ~ Hits(c, b)
    BY <1>6 DEF Hits
  <2>2. \A row \in OwnClaims(s, E) : row \in OwnClaims(s, E \cup {e})
    BY <1>3, <2>1
  <2>3. \A row \in OwnClaims(s, E \cup {e}) : row \in OwnClaims(s, E)
    BY <1>4, <1>6
  <2>4. QED
    BY <2>2, <2>3
<1>7. ASSUME e \notin s.worker
      PROVE  OwnClaims(s, E \cup {e})
               = {row \in OwnClaims(s, E) :
                    \A m \in Moves(e, r) : ~ (row.claim = m[1] /\ row.branch = r.branch)}
                 \cup {ClaimOf(s, e, m) : m \in Moves(e, r)}
  <2>1. \A row : Hits(row.claim, row.branch) <=>
                   ~ \A m \in Moves(e, r) : ~ (row.claim = m[1] /\ row.branch = r.branch)
    BY <1>7 DEF Hits
  <2>2. PICK A : A = {row \in OwnClaims(s, E) :
                        \A m \in Moves(e, r) : ~ (row.claim = m[1] /\ row.branch = r.branch)}
    OBVIOUS
  <2>3. \A row : row \in A <=> row \in OwnClaims(s, E) /\ ~ Hits(row.claim, row.branch)
    BY <2>1, <2>2
  <2>4. PICK B : B = {ClaimOf(s, e, m) : m \in Moves(e, r)}
    OBVIOUS
  <2>5. \A row \in B : row \in OwnClaims(s, E \cup {e})
    BY <1>5, <1>7, <2>4
  <2>6. \A row \in OwnClaims(s, E \cup {e}) : row \in A \/ row \in B
    BY <1>4, <2>3, <2>4
  <2>7. \A row \in A : row \in OwnClaims(s, E \cup {e})
    BY <1>3, <2>3
  <2>8. OwnClaims(s, E \cup {e}) = A \cup B
    BY <2>5, <2>6, <2>7
  <2>9. QED
    BY <2>2, <2>4, <2>8
<1>8. QED
  BY <1>6, <1>7
\* The tables of E, and an event that comes after those of E on which it bears: its
\* projection makes the tables of both.
LEMMA TablesStep ==
  ASSUME NEW s \in Database, NEW E \in SUBSET Event(s), NEW e \in Event(s), e \notin E,
         NEW r, r = s.log[e], NEW u \in Database, u.log = s.log, u.worker = s.worker,
         TablesFit(s, E, u),
         r.type = "session.forked" =>
           /\ r.branch # Main /\ r.parent \in Event(s)
           /\ \A x \in E : s.log[x].branch # r.branch,
         r.type # "session.forked" => u.branch[r.branch] # NoRow,
         \A m \in Moves(e, r) : \A y \in Movers(s, E, m[1], r.branch) : y <= e
  PROVE  /\ Projected(u, e) \in Database
         /\ Projected(u, e).log = s.log /\ Projected(u, e).worker = s.worker
         /\ TablesFit(s, E \cup {e}, Projected(u, e))
<1>1. Event(u) = Event(s) /\ e \in Event(u) /\ r = u.log[e]
  BY DEF Event
<1>2. PICK t : t = Projected(u, e)
  OBVIOUS
<1>3. IF r.type = "session.forked" THEN r.parent \in Event(u) ELSE Exists(u, r.branch)
  BY <1>1 DEF Exists
<1>4. t \in Database
  BY <1>1, <1>2, <1>3, ProjectedIsTyped
<1>5. t.log = s.log /\ t.worker = s.worker /\ t.branch = BranchRows(u, r)
  BY <1>1, <1>2, ProjectedFields
<1>6. \A b \in Branch : RowFits(s, E \cup {e}, b, t.branch[b])
  <2>1. \A b \in Branch : RowFits(s, E, b, u.branch[b])
    BY DEF TablesFit
  <2>2. \A b \in Branch : RowFits(s, E \cup {e}, b, BranchRows(u, r)[b])
    BY <2>1, RowsStep
  <2>3. QED
    BY <1>5, <2>2
<1>7. {row \in u.claims : row.from = NoBranch} = OwnClaims(s, E)
  BY DEF TablesFit
<1>8. /\ e \in s.worker \/ Moves(e, r) = {} => OwnClaims(s, E \cup {e}) = OwnClaims(s, E)
      /\ e \notin s.worker =>
           OwnClaims(s, E \cup {e})
             = {row \in OwnClaims(s, E) :
                  \A m \in Moves(e, r) : ~ (row.claim = m[1] /\ row.branch = r.branch)}
               \cup {ClaimOf(s, e, m) : m \in Moves(e, r)}
  BY OwnClaimsStep
<1>9. {row \in t.claims : row.from = NoBranch} = OwnClaims(s, E \cup {e})
  <2>1. CASE e \in s.worker \/ r.type = "session.forked"
    <3>1. {row \in t.claims : row.from = NoBranch} = {row \in u.claims : row.from = NoBranch}
      BY <1>1, <1>2, <1>3, <2>1, OwnClaimsAfter
    <3>2. r.type = "session.forked" => Moves(e, r) = {}
      BY DEF Moves
    <3>3. OwnClaims(s, E \cup {e}) = OwnClaims(s, E)
      BY <1>8, <2>1, <3>2
    <3>4. QED
      BY <1>7, <3>1, <3>3
  <2>2. CASE e \notin s.worker /\ r.type # "session.forked"
    <3>1. {row \in t.claims : row.from = NoBranch}
            = {row \in u.claims : row.from = NoBranch /\
                 \A m \in Moves(e, r) : ~ (row.claim = m[1] /\ row.branch = r.branch)}
              \cup {ClaimOf(u, e, m) : m \in Moves(e, r)}
      BY <1>1, <1>2, <1>3, <2>2, OwnClaimsAfter
    <3>2. OwnClaims(s, E \cup {e})
            = {row \in OwnClaims(s, E) :
                 \A m \in Moves(e, r) : ~ (row.claim = m[1] /\ row.branch = r.branch)}
              \cup {ClaimOf(s, e, m) : m \in Moves(e, r)}
      BY <2>2, <1>8
    <3>3. \A m : ClaimOf(u, e, m) = ClaimOf(s, e, m)
      BY DEF ClaimOf
    <3>4. {ClaimOf(u, e, m) : m \in Moves(e, r)} = {ClaimOf(s, e, m) : m \in Moves(e, r)}
      BY <3>3
    <3>5. {row \in OwnClaims(s, E) :
             \A m \in Moves(e, r) : ~ (row.claim = m[1] /\ row.branch = r.branch)}
            = {row \in u.claims : row.from = NoBranch /\
                 \A m \in Moves(e, r) : ~ (row.claim = m[1] /\ row.branch = r.branch)}
      BY <1>7
    <3>6. QED
      BY <3>1, <3>2, <3>4, <3>5
  <2>3. QED
    BY <2>1, <2>2
<1>10. TablesFit(s, E \cup {e}, t)
  BY <1>6, <1>9 DEF TablesFit
<1>11. QED
  BY <1>2, <1>4, <1>5, <1>10

-----------------------------------------------------------------------------
(* The place of an event that is appended *)

\* The log t is the log s with the event r in place e behind it.
Grows(s, r, e, t) ==
  /\ s \in Database /\ t \in Database /\ r \in EventRecord /\ e \in Nat
  /\ Event(t) = Event(s) \cup {e} /\ e \notin Event(s) /\ t.log[e] = r
  /\ \A x \in Event(s) : x \in Nat /\ x < e /\ t.log[x] = s.log[x]

\* An append grows the log, and changes where branches hang only by a fork.
LEMMA AppendGrows ==
  ASSUME NEW s, Sound(s), NEW r, EventFits(s, r), NEW t, t = Appended(s, r)
  PROVE  \E e : /\ Grows(s, r, e, t) /\ t = Projected(Logged(s, r), e)
                /\ Logged(s, r) \in Database /\ Grows(s, r, e, Logged(s, r))
                /\ t.log = Logged(s, r).log /\ t.worker = Logged(s, r).worker
                /\ t.branch = BranchRows(Logged(s, r), r)
<1>1. s \in Database /\ r \in EventRecord /\ Appendable(s, r)
  BY DEF Sound, EventFits, Appendable
<1>2. PICK e : e = Len(s.log) + 1
  OBVIOUS
<1>3. PICK l : l = Logged(s, r)
  OBVIOUS
<1>4. t = Projected(l, e)
  BY <1>2, <1>3 DEF Appended, Logged
<1>5. l \in Database
  BY <1>1, <1>3, LoggedFields
<1>6. Grows(s, r, e, l)
  BY <1>1, <1>2, <1>3, <1>5, LoggedEvents DEF Grows
<1>7. Grows(s, r, e, t)
  <2>1. t \in Database
    BY <1>1, AppendedFields
  <2>2. /\ Event(t) = Event(s) \cup {e}
        /\ e \in Nat /\ e \notin Event(s) /\ \A x \in Event(s) : x \in Nat /\ x < e
        /\ t.log[e] = r /\ Extends(s, t)
    BY <1>1, <1>2, AppendedLog
  <2>3. QED
    BY <1>1, <2>1, <2>2 DEF Grows, Extends
<1>8. e \in Event(l) /\ l.log[e] = r
  BY <1>6 DEF Grows
<1>9. t.log = l.log /\ t.worker = l.worker /\ t.branch = BranchRows(l, r)
  BY <1>4, <1>5, <1>8, ProjectedFields
<1>10. QED
  BY <1>3, <1>4, <1>5, <1>6, <1>7, <1>9

\* Where the branches hang after an append.
LEMMA RowsStay ==
  ASSUME NEW s, Sound(s), NEW r, EventFits(s, r), Hangs(s, r), NEW t, t = Appended(s, r)
  PROVE  /\ \A b \in Branch : (b # r.branch \/ r.type # "session.forked") =>
              t.branch[b].fork = s.branch[b].fork /\ t.branch[b].parent = s.branch[b].parent
         /\ r.type = "session.forked" =>
              /\ t.branch[r.branch].fork = r.parent
              /\ t.branch[r.branch].parent = s.log[r.parent].branch
<1>1. PICK e : /\ Grows(s, r, e, t) /\ t = Projected(Logged(s, r), e)
               /\ Logged(s, r) \in Database /\ Grows(s, r, e, Logged(s, r))
               /\ t.branch = BranchRows(Logged(s, r), r)
  BY AppendGrows
<1>2. PICK l : l = Logged(s, r)
  OBVIOUS
<1>3. s \in Database /\ r \in EventRecord /\ r.branch \in Branch
  BY DEF Sound, EventFits, EventRecord
<1>4. l \in Database /\ Grows(s, r, e, l) /\ t.branch = BranchRows(l, r)
      /\ l.branch = s.branch
  BY <1>1, <1>2, <1>3, LoggedFields
<1>5. IF r.type = "session.forked" THEN r.parent \in Event(l) ELSE Exists(l, r.branch)
  BY <1>4 DEF EventFits, Grows, Exists
<1>6. r.type = "session.forked" => l.log[r.parent] = s.log[r.parent]
  BY <1>4 DEF EventFits, Grows
<1>7. /\ \A b \in Branch \ {r.branch} : t.branch[b] = s.branch[b]
      /\ r.type = "session.forked" =>
           /\ t.branch[r.branch].parent = l.log[r.parent].branch
           /\ t.branch[r.branch].fork = r.parent
  BY <1>3, <1>4, <1>5, RowsMade
<1>8. r.type # "session.forked" =>
        /\ t.branch[r.branch].parent = s.branch[r.branch].parent
        /\ t.branch[r.branch].fork = s.branch[r.branch].fork
  BY <1>3, <1>4, <1>5, RowsMade
<1>9. QED
  BY <1>6, <1>7, <1>8

\* The lines stay sound: the event hangs on its branch, or on what it is forked from.
LEMMA LinesStaySound ==
  ASSUME NEW s, Sound(s), LinesSound(s), NEW r, EventFits(s, r), Hangs(s, r),
         NEW t, t = Appended(s, r)
  PROVE  LinesSound(t)
<1>1. PICK e : Grows(s, r, e, t)
  BY AppendGrows
<1>2. /\ \A b \in Branch : (b # r.branch \/ r.type # "session.forked") =>
           t.branch[b].fork = s.branch[b].fork /\ t.branch[b].parent = s.branch[b].parent
      /\ r.type = "session.forked" =>
           /\ t.branch[r.branch].fork = r.parent
           /\ t.branch[r.branch].parent = s.log[r.parent].branch
  BY RowsStay
<1>3. r.branch \in Branch /\ \A x \in Event(s) : s.log[x].branch \in Branch
  BY <1>1, EventsOf DEF Grows, EventRecord
<1>4. \A b : Own(s, b) \subseteq Own(t, b)
  BY <1>1 DEF Own, Grows
<1>5. ASSUME NEW x \in Event(t)
      PROVE  /\ t.log[x].parent < x
             /\ t.log[x].parent \in {NoEvent, t.branch[t.log[x].branch].fork}
                                    \cup Own(t, t.log[x].branch)
  <2>1. CASE x = e
    <3>1. t.log[x] = r
      BY <1>1, <2>1 DEF Grows
    <3>2. r.parent \in Event(s)
      BY DEF Hangs, Own
    <3>3. r.parent < e
      BY <1>1, <3>2 DEF Grows
    <3>4. r.parent = t.branch[r.branch].fork \/ r.parent \in Own(t, r.branch)
      BY <1>2, <1>4 DEF Hangs
    <3>5. QED
      BY <2>1, <3>1, <3>3, <3>4
  <2>2. CASE x \in Event(s)
    <3>1. PICK b : b = s.log[x].branch
      OBVIOUS
    <3>2. t.log[x] = s.log[x] /\ b \in Branch
      BY <1>1, <1>3, <2>2, <3>1 DEF Grows
    <3>3. Exists(s, b)
      BY <2>2, <3>1 DEF Sound, BranchesSound
    <3>4. t.branch[b].fork = s.branch[b].fork
      BY <1>2, <3>2, <3>3 DEF Hangs
    <3>5. /\ s.log[x].parent < x
          /\ s.log[x].parent \in {NoEvent, s.branch[b].fork} \cup Own(s, b)
      BY <2>2, <3>1 DEF LinesSound
    <3>6. QED
      BY <1>4, <3>1, <3>2, <3>4, <3>5
  <2>3. QED
    BY <1>1, <2>1, <2>2 DEF Grows
<1>6. ASSUME NEW b \in Branch, t.branch[b].fork # NoEvent
      PROVE  t.branch[b].fork \in Event(t) /\ t.branch[b].parent = t.log[t.branch[b].fork].branch
  <2>1. CASE b # r.branch \/ r.type # "session.forked"
    <3>1. PICK f : f = s.branch[b].fork
      OBVIOUS
    <3>2. t.branch[b].fork = f /\ t.branch[b].parent = s.branch[b].parent
      BY <1>2, <2>1, <3>1
    <3>3. f \in Event(s) /\ s.branch[b].parent = s.log[f].branch
      BY <1>6, <3>1, <3>2 DEF LinesSound
    <3>4. QED
      BY <1>1, <3>2, <3>3 DEF Grows
  <2>2. CASE b = r.branch /\ r.type = "session.forked"
    <3>1. r.parent \in Event(s)
      BY <2>2 DEF Hangs
    <3>2. QED
      BY <1>1, <1>2, <2>2, <3>1 DEF Grows
  <2>3. QED
    BY <2>1, <2>2
<1>7. QED
  BY <1>5, <1>6 DEF LinesSound

\* What is judged is a claim that an event names.
LEMMA JudgedIsNamed ==
  ASSUME NEW s, ClaimsNamed(s), NEW r, EventFits(s, r), Judges(r)
  PROVE  r.claim \in Event(s)
<1>1. CASE r.type = "human.keep"
  <2>1. /\ r.target \in Event(s) /\ Is(s, r.target, "analysis.canon_candidate")
        /\ s.log[r.target].claim = r.claim
    BY <1>1 DEF EventFits, KeepFits, Judges
  <2>2. QED
    BY <2>1 DEF ClaimsNamed
<1>2. CASE r.type = "claim.promoted"
  <2>1. PICK x : x = s.log[r.approver].target
    OBVIOUS
  <2>2. x \in Event(s) /\ Is(s, x, "analysis.canon_candidate") /\ s.log[x].claim = r.claim
    BY <1>2, <2>1 DEF EventFits
  <2>3. QED
    BY <2>2 DEF ClaimsNamed
<1>3. QED
  BY <1>1, <1>2 DEF Judges

\* The times stay sound.
LEMMA TimesStaySound ==
  ASSUME NEW s, Sound(s), Placed(s), NEW r, EventFits(s, r), Joins(s, r),
         NEW e, NEW t, Grows(s, r, e, t)
  PROVE  TimesSound(t)
<1>1. \A x \in Event(t) : x \in Nat /\ t.log[x].at \in Nat
  <2>1. \A x \in Event(t) : x \in Nat /\ t.log[x] \in EventRecord
    BY EventsOf DEF Grows
  <2>2. QED
    BY <2>1 DEF EventRecord
<1>2. \A x, y \in Event(s) : Before(t, x, y) <=> Before(s, x, y)
  BY DEF Grows, Before
<1>3. ASSUME NEW x \in Event(s), s.log[x].at <= r.at
      PROVE  Before(t, x, e)
  <2>1. x < e /\ t.log[x].at <= t.log[e].at /\ x \in Event(t) /\ e \in Event(t)
    BY <1>3 DEF Grows
  <2>2. t.log[x].at \in Nat /\ t.log[e].at \in Nat
    BY <1>1, <2>1
  <2>3. QED
    BY <2>1, <2>2 DEF Before
<1>4. ASSUME NEW f \in Event(t), Is(t, f, "session.forked")
      PROVE  /\ t.log[f].branch # Main /\ t.log[f].parent \in Event(t)
             /\ \A x \in Own(t, t.log[f].branch) \ {f} : f < x /\ Before(t, f, x)
  <2>1. CASE f = e
    <3>1. t.log[f] = r /\ r.type = "session.forked"
      BY <1>4, <2>1 DEF Grows, Is
    <3>2. r.parent \in Event(s) /\ ~ Exists(s, r.branch)
      BY <3>1 DEF Joins, Hangs
    <3>3. r.branch # Main
      <4>1. RowFits(s, Event(s), Main, s.branch[Main])
        BY LogAssumption DEF Placed, TablesFit
      <4>2. s.branch[Main] \in BranchRow
        BY <4>1 DEF RowFits
      <4>3. QED
        BY <3>2, <4>2, RowsExist DEF Exists
    <3>4. Own(t, r.branch) \ {e} = {}
      <4>1. \A x \in Event(s) : s.log[x].branch # r.branch
        BY <3>2 DEF Sound, BranchesSound
      <4>2. QED
        BY <4>1 DEF Own, Grows
    <3>5. QED
      BY <2>1, <3>1, <3>2, <3>3, <3>4 DEF Grows
  <2>2. CASE f \in Event(s)
    <3>1. PICK b : b = s.log[f].branch
      OBVIOUS
    <3>2. t.log[f] = s.log[f] /\ Is(s, f, "session.forked")
      BY <1>4, <2>2 DEF Grows, Is
    <3>3. /\ b # Main /\ s.log[f].parent \in Event(s)
          /\ \A x \in Own(s, b) \ {f} : f < x /\ Before(s, f, x)
      BY <2>2, <3>1, <3>2 DEF Placed, TimesSound
    <3>4. ASSUME NEW x \in Own(t, b) \ {f}
          PROVE  f < x /\ Before(t, f, x)
      <4>1. CASE x = e
        <5>1. r.branch = b
          BY <4>1 DEF Own, Grows
        <5>2. s.log[f].at <= r.at
          BY <2>2, <3>1, <3>2, <5>1 DEF Joins, Forks
        <5>3. f < e
          BY <2>2 DEF Grows
        <5>4. QED
          BY <1>3, <2>2, <4>1, <5>2, <5>3
      <4>2. CASE x # e
        <5>1. x \in Event(s) /\ x \in Own(s, b) \ {f}
          BY <4>2 DEF Own, Grows
        <5>2. QED
          BY <1>2, <2>2, <3>3, <5>1
      <4>3. QED
        BY <4>1, <4>2
    <3>5. QED
      BY <3>1, <3>2, <3>3, <3>4 DEF Grows
  <2>3. QED
    BY <2>1, <2>2 DEF Grows
<1>5. ASSUME NEW y \in Event(t), Judges(t.log[y])
      PROVE  t.log[y].claim < y /\ \A x \in Event(t) : x < y => Before(t, x, y)
  <2>1. CASE y = e
    <3>1. Judges(r) /\ t.log[y] = r
      BY <1>5, <2>1 DEF Grows
    <3>2. r.claim \in Event(s)
      BY <3>1, JudgedIsNamed DEF Placed
    <3>3. r.claim < e
      BY <3>2 DEF Grows
    <3>4. \A x \in Event(s) : Before(t, x, e)
      BY <1>3, <3>1 DEF Joins
    <3>5. \A x \in Event(t) : x < e => x \in Event(s)
      BY <1>1 DEF Grows
    <3>6. QED
      BY <2>1, <3>1, <3>3, <3>4, <3>5
  <2>2. CASE y \in Event(s)
    <3>1. t.log[y] = s.log[y] /\ Judges(s.log[y])
      BY <1>5, <2>2 DEF Grows
    <3>2. s.log[y].claim < y /\ \A x \in Event(s) : x < y => Before(s, x, y)
      BY <2>2, <3>1 DEF Placed, TimesSound
    <3>3. \A x \in Event(t) : x < y => x \in Event(s)
      BY <1>1, <2>2 DEF Grows
    <3>4. QED
      BY <1>2, <2>2, <3>1, <3>2, <3>3
  <2>3. QED
    BY <2>1, <2>2 DEF Grows
<1>6. QED
  BY <1>4, <1>5 DEF TimesSound
\* The claims stay named: those that the event moves are.
LEMMA ClaimsStayNamed ==
  ASSUME NEW s, Sound(s), Placed(s), NEW r, EventFits(s, r), Joins(s, r),
         NEW t, t = Appended(s, r)
  PROVE  ClaimsNamed(t)
<1>1. PICK e : /\ Grows(s, r, e, t) /\ t = Projected(Logged(s, r), e)
               /\ Logged(s, r) \in Database /\ Grows(s, r, e, Logged(s, r))
  BY AppendGrows
<1>2. PICK l : l = Logged(s, r)
  OBVIOUS
<1>3. /\ l \in Database /\ e \in Event(l) /\ l.log[e] = r /\ t = Projected(l, e)
      /\ l.claims = s.claims /\ l.transitions = s.transitions
  BY <1>1, <1>2, LoggedFields DEF Grows
<1>4. r.type = "session.forked" => r.parent \in Event(l)
  BY <1>1, <1>2 DEF EventFits, Grows
<1>5. ASSUME NEW m \in Moves(e, r)
      PROVE  m[1] \in Event(t)
  <2>1. m[1] = e \/ (Judges(r) /\ m[1] = r.claim)
    BY DEF Moves, Judges
  <2>2. Judges(r) => r.claim \in Event(s)
    BY JudgedIsNamed DEF Placed
  <2>3. QED
    BY <1>1, <2>1, <2>2 DEF Grows
<1>6. /\ \A row \in s.claims : row.claim \in Event(t)
      /\ \A u \in s.transitions : u.claim \in Event(t)
  BY <1>1 DEF Placed, ClaimsNamed, Grows
<1>7. ASSUME NEW row \in t.claims
      PROVE  row.claim \in Event(t)
  <2>1. CASE row \in s.claims
    BY <1>6, <2>1
  <2>2. CASE row \notin s.claims
    <3>1. row \in ClaimsAfter(l, e, r) /\ row \notin l.claims
      BY <1>3, <2>2, ProjectedFields
    <3>2. \/ \E m \in Moves(e, r) : m[1] = row.claim
          \/ \E u \in l.transitions : row.claim = u.claim
      BY <1>3, <1>4, <3>1, ClaimsAre
    <3>3. QED
      BY <1>3, <1>5, <1>6, <3>2
  <2>3. QED
    BY <2>1, <2>2
<1>8. ASSUME NEW u \in t.transitions
      PROVE  u.claim \in Event(t)
  <2>1. CASE u \in s.transitions
    BY <1>6, <2>1
  <2>2. CASE u \notin s.transitions
    <3>1. u \in Moved(e, r)
      BY <1>3, <2>2, ProjectedFields
    <3>2. \E m \in Moves(e, r) : m[1] = u.claim
      BY <1>3, <3>1, TransitionsAre
    <3>3. QED
      BY <1>5, <3>2
  <2>3. QED
    BY <2>1, <2>2
<1>9. ASSUME NEW x \in Event(t), Is(t, x, "analysis.canon_candidate")
      PROVE  t.log[x].claim \in Event(t)
  <2>1. CASE x = e
    BY <1>1, <1>9, <2>1 DEF Grows, Is, Joins
  <2>2. CASE x \in Event(s)
    BY <1>1, <1>9, <2>2 DEF Grows, Is, Placed, ClaimsNamed
  <2>3. QED
    BY <1>1, <2>1, <2>2 DEF Grows
<1>10. QED
  BY <1>7, <1>8, <1>9 DEF ClaimsNamed

\* The tables stay those of the log.
LEMMA TablesStayFit ==
  ASSUME NEW s, Sound(s), Placed(s), NEW r, EventFits(s, r), Joins(s, r),
         NEW t, t = Appended(s, r)
  PROVE  TablesFit(t, Event(t), t)
<1>1. PICK e : /\ Grows(s, r, e, t) /\ t = Projected(Logged(s, r), e)
               /\ Logged(s, r) \in Database /\ Grows(s, r, e, Logged(s, r))
  BY AppendGrows
<1>2. PICK l : l = Logged(s, r)
  OBVIOUS
<1>3. s \in Database /\ r \in EventRecord
  BY <1>1 DEF Grows
<1>4. /\ l \in Database /\ Grows(s, r, e, l) /\ t = Projected(l, e)
      /\ l.claims = s.claims /\ l.branch = s.branch
  BY <1>1, <1>2, <1>3, LoggedFields
<1>5. PICK E : E = Event(s)
  OBVIOUS
<1>6. /\ E \in SUBSET Event(l) /\ e \in Event(l) /\ e \notin E /\ l.log[e] = r
      /\ \A x \in E : x \in Nat /\ x < e /\ l.log[x] = s.log[x]
      /\ e \in Nat /\ Event(t) = E \cup {e} /\ Event(l) = E \cup {e}
  BY <1>1, <1>4, <1>5 DEF Grows
<1>7. \A x \in E : x \in l.worker <=> x \in s.worker
  <2>1. PICK W : W = IF WorkerLineage(s, r) THEN {Len(s.log) + 1} ELSE {}
    OBVIOUS
  <2>2. l = [s EXCEPT !.log = Append(s.log, r), !.worker = s.worker \cup W]
    BY <1>2, <2>1 DEF Logged
  <2>3. l.worker = s.worker \cup W
    BY <1>3, <2>2 DEF Database
  <2>4. W \subseteq {Len(s.log) + 1}
    BY <2>1
  <2>5. Len(s.log) + 1 \notin E
    BY <1>3, <1>5, LoggedEvents
  <2>6. QED
    BY <2>3, <2>4, <2>5
<1>8. Agree(s, l, E)
  <2>1. \A f \in E : Is(s, f, "session.forked") => s.log[f].parent \in E
    BY <1>5 DEF Placed, TimesSound
  <2>2. QED
    BY <1>6, <1>7, <2>1 DEF Agree
<1>9. TablesFit(l, E, l)
  <2>1. TablesFit(s, E, s)
    BY <1>5 DEF Placed
  <2>2. TablesFit(l, E, s)
    BY <1>8, <2>1, FitsInBoth
  <2>3. QED
    BY <1>4, <2>2 DEF TablesFit
<1>10. r.type = "session.forked" =>
         /\ r.branch # Main /\ r.parent \in Event(l)
         /\ \A x \in E : l.log[x].branch # r.branch
  <2>1. SUFFICES ASSUME r.type = "session.forked"
                 PROVE  /\ r.branch # Main /\ r.parent \in Event(l)
                        /\ \A x \in E : l.log[x].branch # r.branch
    OBVIOUS
  <2>2. r.parent \in E /\ ~ Exists(s, r.branch)
    BY <1>5, <2>1 DEF Joins, Hangs
  <2>3. RowFits(s, E, Main, s.branch[Main])
    BY <1>5, LogAssumption DEF Placed, TablesFit
  <2>4. s.branch[Main] \in BranchRow
    BY <2>3 DEF RowFits
  <2>5. r.branch # Main
    BY <2>2, <2>4, RowsExist DEF Exists
  <2>6. \A x \in E : Exists(s, s.log[x].branch)
    BY <1>5 DEF Sound, BranchesSound
  <2>7. \A x \in E : l.log[x].branch # r.branch
    BY <1>6, <2>2, <2>6
  <2>8. QED
    BY <1>6, <2>2, <2>5, <2>7
<1>11. r.type # "session.forked" => l.branch[r.branch] # NoRow
  BY <1>4 DEF EventFits, Exists
<1>12. \A m \in Moves(e, r) : \A y \in Movers(l, E, m[1], r.branch) : y <= e
  BY <1>6 DEF Movers
<1>13. /\ t \in Database /\ t.log = l.log /\ t.worker = l.worker
       /\ TablesFit(l, E \cup {e}, t)
  BY <1>4, <1>6, <1>9, <1>10, <1>11, <1>12, TablesStep
<1>14. Agree(l, t, E \cup {e})
  BY <1>13 DEF Agree
<1>15. QED
  BY <1>6, <1>13, <1>14, FitsInBoth

\* What joins a log that is placed leaves it placed.
LEMMA AppendIsPlaced ==
  ASSUME NEW s, Sound(s), Placed(s), NEW r, EventFits(s, r), Joins(s, r)
  PROVE  Placed(Appended(s, r))
<1>1. PICK t : t = Appended(s, r)
  OBVIOUS
<1>2. PICK e : Grows(s, r, e, t)
  BY <1>1, AppendGrows
<1>3. LinesSound(t)
  BY <1>1, LinesStaySound DEF Placed, Joins
<1>4. TimesSound(t)
  BY <1>2, TimesStaySound
<1>5. ClaimsNamed(t)
  BY <1>1, ClaimsStayNamed
<1>6. TablesFit(t, Event(t), t)
  BY <1>1, TablesStayFit
<1>7. QED
  BY <1>1, <1>3, <1>4, <1>5, <1>6 DEF Placed

-----------------------------------------------------------------------------
(* What the writers prepare *)

\* The last event of a branch that exists is an event of the branch.
LEMMA LastIsOwn ==
  ASSUME Sound(db), NEW b \in Branches
  PROVE  /\ b \in Branch /\ Exists(db, b)
         /\ LastEvent(db, b) \in Own(db, b) /\ LastEvent(db, b) \in Nat
<1>1. b \in Branch /\ Exists(db, b)
  BY DEF Branches
<1>2. HasLast(db, b)
  BY <1>1 DEF Sound, BranchesSound
<1>3. LastEvent(db, b) \in Own(db, b)
  BY <1>2 DEF HasLast, LastEvent
<1>4. LastEvent(db, b) \in Nat
  BY <1>3, EventsOf DEF Own, Sound
<1>5. QED
  BY <1>1, <1>3, <1>4

\* An event of the log is of a branch that exists.
LEMMA EventIsOf ==
  ASSUME Sound(db), NEW e \in Event(db)
  PROVE  /\ e \in Nat /\ db.log[e] \in EventRecord /\ e \in Own(db, db.log[e].branch)
         /\ db.log[e].branch \in Branch /\ Exists(db, db.log[e].branch)
<1>1. e \in Nat /\ db.log[e] \in EventRecord
  BY EventsOf DEF Sound
<1>2. QED
  BY <1>1 DEF Sound, BranchesSound, EventRecord, Own

\* What a writer may prepare: it fits, it joins the log now, and nobody prepares
\* the fork of its branch.
Offered(r) ==
  /\ DraftFits(db, r) /\ Joins(db, r) /\ r.at = clock
  /\ r.type = "session.forked" =>
       \A q \in Proc : draft[q] # NoDraft => draft[q].branch # r.branch

\* A record that judges nothing and follows its branch is offered.
LEMMA PlainFits ==
  ASSUME Story, Placement,
         NEW type \in Types \ {"human.keep", "claim.promoted", "session.forked"},
         NEW b \in Branch, Exists(db, b), NEW parent \in Nat, parent \in Own(db, b),
         NEW cause \in Nat, NEW target \in Nat, NEW claim \in Nat,
         type = "analysis.canon_candidate" => claim \in Event(db)
  PROVE  Offered(Record(type, b, parent, cause, target, 0, claim))
<1>1. PICK r : r = Record(type, b, parent, cause, target, 0, claim)
  OBVIOUS
<1>2. type \in Types /\ 0 \in Nat /\ clock \in Nat
  BY DEF Story
<1>3. /\ r \in EventRecord /\ r.type = type /\ r.branch = b /\ r.parent = parent
      /\ r.claim = claim /\ r.at = clock
  BY <1>1, <1>2 DEF Record, EventRecord
<1>4. EventFits(db, r)
  BY <1>3 DEF EventFits
<1>5. DraftFits(db, r)
  BY <1>3, <1>4 DEF DraftFits
<1>6. \A f \in Event(db) : db.log[f].at <= clock
  <2>1. ASSUME NEW f \in Event(db)
        PROVE  db.log[f].at <= clock
    <3>1. db.log[f].at < clock
      BY DEF Placement
    <3>2. db.log[f].at \in Nat
      BY EventIsOf DEF Story, EventRecord
    <3>3. QED
      BY <1>2, <3>1, <3>2
  <2>2. QED
    BY <2>1
<1>7. Joins(db, r)
  BY <1>3, <1>6 DEF Joins, Hangs, Judges
<1>8. QED
  BY <1>1, <1>3, <1>5, <1>7 DEF Offered

\* What is offered is prepared.
LEMMA PrepareKeeps ==
  ASSUME Story, Placement, NEW p \in Proc, NEW r, Offered(r), Prepare(p, r)
  PROVE  Story' /\ Placement'
<1>1. /\ db' = db /\ clock' = clock + 1 /\ draft' = [draft EXCEPT ![p] = r]
      /\ draft[p] = NoDraft
  BY DEF Prepare
<1>2. r \in EventRecord /\ DraftFits(db, r) /\ Joins(db, r) /\ r.at = clock
  BY DEF Offered, DraftFits, EventFits
<1>3. clock \in Nat /\ clock' \in Nat /\ clock < clock'
  BY <1>1 DEF Story
<1>4. draft' \in [Proc -> EventRecord \cup {NoDraft}] /\ draft'[p] = r
      /\ \A q \in Proc \ {p} : draft'[q] = draft[q]
  BY <1>1, <1>2 DEF Story
<1>5. Story'
  <2>1. \A q \in Proc : draft'[q] # NoDraft => DraftFits(db', draft'[q])
    BY <1>1, <1>2, <1>4 DEF Story
  <2>2. Sound(db')
    BY <1>1 DEF Story
  <2>3. QED
    BY <1>3, <1>4, <2>1, <2>2 DEF Story
<1>6. ASSUME NEW n \in Nat, n < clock
      PROVE  n < clock'
  BY <1>3, <1>6
<1>7. \A x \in Event(db') : db'.log[x].at < clock'
  <2>1. ASSUME NEW x \in Event(db)
        PROVE  db.log[x].at < clock'
    <3>1. db.log[x].at < clock
      BY DEF Placement
    <3>2. db.log[x].at \in Nat
      BY EventIsOf DEF Story, EventRecord
    <3>3. QED
      BY <1>6, <3>1, <3>2
  <2>2. QED
    BY <1>1, <2>1
<1>8. ASSUME NEW q \in Proc, draft'[q] # NoDraft
      PROVE  Joins(db', draft'[q]) /\ draft'[q].at < clock'
  <2>1. CASE q = p
    BY <1>1, <1>2, <1>3, <1>4, <2>1
  <2>2. CASE q # p
    <3>1. draft'[q] = draft[q] /\ Joins(db, draft[q]) /\ draft[q].at < clock
      BY <1>4, <1>8, <2>2 DEF Placement
    <3>2. draft[q].at \in Nat
      BY <1>4, <1>8, <3>1 DEF EventRecord
    <3>3. QED
      BY <1>1, <1>6, <3>1, <3>2
  <2>3. QED
    BY <2>1, <2>2
<1>9. ASSUME NEW q1 \in Proc, NEW q2 \in Proc, q1 # q2, draft'[q1] # NoDraft,
             draft'[q2] # NoDraft, draft'[q1].type = "session.forked"
      PROVE  draft'[q2].branch # draft'[q1].branch
  <2>1. CASE q1 = p
    <3>1. draft'[q1] = r /\ draft'[q2] = draft[q2]
      BY <1>4, <1>9, <2>1
    <3>2. QED
      BY <1>9, <3>1 DEF Offered
  <2>2. CASE q2 = p
    <3>1. draft'[q1] = draft[q1] /\ draft'[q2] = r
      BY <1>4, <1>9, <2>2
    <3>2. PICK d : d = draft[q1]
      OBVIOUS
    <3>3. d # NoDraft /\ d.type = "session.forked" /\ Joins(db, d)
      BY <1>9, <3>1, <3>2 DEF Placement
    <3>4. ~ Exists(db, d.branch)
      BY <3>3 DEF Joins, Hangs
    <3>5. r.type = "session.forked" => r.branch # d.branch
      BY <3>2, <3>3 DEF Offered
    <3>6. r.type # "session.forked" => Exists(db, r.branch)
      BY <1>2 DEF DraftFits, EventFits
    <3>7. QED
      BY <3>1, <3>2, <3>4, <3>5, <3>6
  <2>3. CASE q1 # p /\ q2 # p
    <3>1. draft'[q1] = draft[q1] /\ draft'[q2] = draft[q2]
      BY <1>4, <2>3
    <3>2. QED
      BY <1>9, <3>1 DEF Placement
  <2>4. QED
    BY <2>1, <2>2, <2>3
<1>10. Placed(db')
  BY <1>1 DEF Placement
<1>11. Placement'
  BY <1>7, <1>8, <1>9, <1>10 DEF Placement
<1>12. QED
  BY <1>5, <1>11

-----------------------------------------------------------------------------
(* What the writers append *)

\* The log s is as it should be for the drafts of the processes Q, and nothing in it
\* is later than n.
Fine(s, Q, n) ==
  /\ Sound(s) /\ Placed(s) /\ \A x \in Event(s) : s.log[x].at <= n
  /\ \A q \in Q : draft[q] # NoDraft => DraftFits(s, draft[q]) /\ Joins(s, draft[q])

\* A draft judges no claim.
LEMMA DraftsJudgeNothing ==
  ASSUME NEW s, NEW d, DraftFits(s, d)
  PROVE  ~ Judges(d)
BY DEF DraftFits, EventFits, KeepFits, Is, Judges

\* What joins a log joins it when another has appended, but for the fork of its branch.
LEMMA JoinsStays ==
  ASSUME NEW s, Sound(s), NEW r, EventFits(s, r), NEW t, t = Appended(s, r),
         NEW d, DraftFits(s, d), Joins(s, d),
         r.type = "session.forked" => d.branch # r.branch
  PROVE  Joins(t, d)
<1>1. PICK e : Grows(s, r, e, t)
  BY AppendGrows
<1>2. s \in Database /\ Appendable(s, r) /\ d.branch \in Branch
  BY DEF Sound, EventFits, Appendable, DraftFits, EventRecord
<1>3. \A b : Own(s, b) \subseteq Own(t, b)
  BY <1>1 DEF Own, Grows
<1>4. ~ Exists(s, d.branch) => ~ Exists(t, d.branch)
  <2>1. SUFFICES ASSUME ~ Exists(s, d.branch) PROVE ~ Exists(t, d.branch)
    OBVIOUS
  <2>2. d.branch # r.branch
    BY <1>2, <2>1 DEF Appendable
  <2>3. t.branch[d.branch] = s.branch[d.branch]
    BY <1>2, <2>2, AppendedFields
  <2>4. QED
    BY <2>1, <2>3 DEF Exists
<1>5. Hangs(t, d)
  BY <1>1, <1>3, <1>4 DEF Joins, Hangs, Grows
<1>6. ASSUME NEW f \in Event(t), Forks(t, f, d.branch)
      PROVE  t.log[f].at <= d.at
  <2>1. CASE f = e
    BY <1>1, <1>6, <2>1 DEF Grows, Forks, Is
  <2>2. CASE f \in Event(s)
    BY <1>1, <1>6, <2>2 DEF Grows, Forks, Is, Joins
  <2>3. QED
    BY <1>1, <2>1, <2>2 DEF Grows
<1>7. d.type = "analysis.canon_candidate" => d.claim \in Event(t)
  BY <1>1 DEF Grows, Joins
<1>8. QED
  BY <1>5, <1>6, <1>7, DraftsJudgeNothing DEF Joins

\* An append keeps a log fine for those who do not wait for the fork that it may be.
LEMMA AppendIsFine ==
  ASSUME NEW s, NEW Q \in SUBSET Proc, NEW n, Fine(s, Q, n),
         NEW r, EventFits(s, r), KeepIsNew(s, r), Joins(s, r), r.at <= n,
         r.type = "session.forked" =>
           \A q \in Q : draft[q] # NoDraft => draft[q].branch # r.branch
  PROVE  Fine(Appended(s, r), Q, n) /\ Extends(s, Appended(s, r))
<1>1. PICK t : t = Appended(s, r)
  OBVIOUS
<1>2. Sound(s) /\ Placed(s)
  BY DEF Fine
<1>3. Sound(t) /\ Extends(s, t)
  BY <1>1, <1>2, AppendIsSound
<1>4. Placed(t)
  BY <1>1, <1>2, AppendIsPlaced
<1>5. PICK e : Grows(s, r, e, t)
  BY <1>1, <1>2, AppendGrows
<1>6. \A x \in Event(t) : t.log[x].at <= n
  BY <1>5 DEF Fine, Grows
<1>7. ASSUME NEW q \in Q, draft[q] # NoDraft
      PROVE  DraftFits(t, draft[q]) /\ Joins(t, draft[q])
  <2>1. PICK d : d = draft[q]
    OBVIOUS
  <2>2. DraftFits(s, d) /\ Joins(s, d)
    BY <1>7, <2>1 DEF Fine
  <2>3. r.type = "session.forked" => d.branch # r.branch
    BY <1>7, <2>1
  <2>4. Joins(t, d)
    BY <1>1, <1>2, <2>2, <2>3, JoinsStays
  <2>5. DraftFits(t, d)
    BY <1>3, <2>2, FitsStays
  <2>6. QED
    BY <2>1, <2>4, <2>5
<1>8. QED
  BY <1>1, <1>3, <1>4, <1>6, <1>7 DEF Fine

\* The log is fine before a step, for all who hold a draft.
LEMMA StoryIsFine ==
  ASSUME Story, Placement
  PROVE  Fine(db, Proc, clock - 1) /\ Fine(db, Proc, clock) /\ clock \in Nat
<1>1. clock \in Nat
  BY DEF Story
<1>2. ASSUME NEW x \in Event(db)
      PROVE  db.log[x].at <= clock - 1 /\ db.log[x].at <= clock
  <2>1. db.log[x].at < clock
    BY DEF Placement
  <2>2. db.log[x].at \in Nat
    BY EventIsOf DEF Story, EventRecord
  <2>3. QED
    BY <1>1, <2>1, <2>2
<1>3. QED
  BY <1>1, <1>2 DEF Fine, Story, Placement

\* A log that is fine after a step, for those whose draft is still there.
LEMMA GrowthKeeps ==
  ASSUME Story, Placement, NEW Q \in SUBSET Proc, NEW n \in Int, Fine(db', Q, n),
         clock' \in Nat, n < clock', clock <= clock',
         draft' \in [Proc -> EventRecord \cup {NoDraft}],
         \A q \in Proc : draft'[q] # NoDraft => q \in Q /\ draft'[q] = draft[q]
  PROVE  Story' /\ Placement'
<1>1. Sound(db') /\ Placed(db')
  BY DEF Fine
<1>2. \A q \in Proc : draft'[q] # NoDraft =>
        DraftFits(db', draft'[q]) /\ Joins(db', draft'[q])
  BY DEF Fine
<1>3. Story'
  BY <1>1, <1>2 DEF Story
<1>4. ASSUME NEW x \in Event(db')
      PROVE  db'.log[x].at < clock'
  <2>1. db'.log[x].at <= n
    BY DEF Fine
  <2>2. db'.log[x].at \in Nat
    <3>1. PICK s : s = db'
      OBVIOUS
    <3>2. s.log[x] \in EventRecord
      BY <1>1, <3>1, EventsOf DEF Sound
    <3>3. QED
      BY <3>1, <3>2 DEF EventRecord
  <2>3. QED
    BY <2>1, <2>2
<1>5. ASSUME NEW q \in Proc, draft'[q] # NoDraft
      PROVE  draft'[q].at < clock'
  <2>1. draft'[q] = draft[q] /\ draft[q].at < clock
    BY <1>5 DEF Placement
  <2>2. draft[q].at \in Nat /\ clock \in Nat
    BY <1>5, <2>1 DEF EventRecord, Story
  <2>3. QED
    BY <2>1, <2>2
<1>6. ASSUME NEW q1 \in Proc, NEW q2 \in Proc, q1 # q2, draft'[q1] # NoDraft,
             draft'[q2] # NoDraft, draft'[q1].type = "session.forked"
      PROVE  draft'[q2].branch # draft'[q1].branch
  <2>1. draft'[q1] = draft[q1] /\ draft'[q2] = draft[q2]
    BY <1>6
  <2>2. QED
    BY <1>6, <2>1 DEF Placement
<1>7. Placement'
  BY <1>1, <1>2, <1>4, <1>5, <1>6 DEF Placement
<1>8. QED
  BY <1>3, <1>7
-----------------------------------------------------------------------------
(* The actions *)

\* A question follows the last event of a branch.
LEMMA AskKeeps ==
  ASSUME Story, Placement, NEW p \in Proc, Ask(p)
  PROVE  Story' /\ Placement'
<1>1. PICK b \in Branches :
        Prepare(p, Record("human.input", b, LastEvent(db, b), 0, 0, 0, 0))
  BY DEF Ask
<1>2. /\ b \in Branch /\ Exists(db, b) /\ LastEvent(db, b) \in Nat
      /\ LastEvent(db, b) \in Own(db, b)
  BY LastIsOwn DEF Story
<1>3. "human.input" \in Types \ {"human.keep", "claim.promoted", "session.forked"}
  BY DEF Types
<1>4. Offered(Record("human.input", b, LastEvent(db, b), 0, 0, 0, 0))
  BY <1>2, <1>3, PlainFits
<1>5. QED
  BY <1>1, <1>4, PrepareKeeps

\* A checkpoint cites it too.
LEMMA CheckpointKeeps ==
  ASSUME Story, Placement, NEW p \in Proc, Checkpoint(p)
  PROVE  Story' /\ Placement'
<1>1. PICK b \in Branches :
        Prepare(p, Record("session.checkpointed", b, LastEvent(db, b), LastEvent(db, b), 0, 0, 0))
  BY DEF Checkpoint
<1>2. /\ b \in Branch /\ Exists(db, b) /\ LastEvent(db, b) \in Nat
      /\ LastEvent(db, b) \in Own(db, b)
  BY LastIsOwn DEF Story
<1>3. "session.checkpointed" \in Types \ {"human.keep", "claim.promoted", "session.forked"}
  BY DEF Types
<1>4. Offered(Record("session.checkpointed", b, LastEvent(db, b), LastEvent(db, b), 0, 0, 0))
  BY <1>2, <1>3, PlainFits
<1>5. QED
  BY <1>1, <1>4, PrepareKeeps

\* So does an archive.
LEMMA ArchiveKeeps ==
  ASSUME Story, Placement, NEW p \in Proc, Archive(p)
  PROVE  Story' /\ Placement'
<1>1. PICK b \in Branches :
        Prepare(p, Record("branch.archived", b, LastEvent(db, b), LastEvent(db, b), 0, 0, 0))
  BY DEF Archive
<1>2. /\ b \in Branch /\ Exists(db, b) /\ LastEvent(db, b) \in Nat
      /\ LastEvent(db, b) \in Own(db, b)
  BY LastIsOwn DEF Story
<1>3. "branch.archived" \in Types \ {"human.keep", "claim.promoted", "session.forked"}
  BY DEF Types
<1>4. Offered(Record("branch.archived", b, LastEvent(db, b), LastEvent(db, b), 0, 0, 0))
  BY <1>2, <1>3, PlainFits
<1>5. QED
  BY <1>1, <1>4, PrepareKeeps

\* A request follows an event, on the branch of the event.
LEMMA RequestKeeps ==
  ASSUME Story, Placement, NEW p \in Proc, Request(p)
  PROVE  Story' /\ Placement'
<1>1. PICK e \in Event(db) :
        Prepare(p, Record("oracle.request", db.log[e].branch, e, 0, 0, 0, 0))
  BY DEF Request
<1>2. /\ e \in Nat /\ db.log[e].branch \in Branch /\ Exists(db, db.log[e].branch)
      /\ e \in Own(db, db.log[e].branch)
  BY EventIsOf DEF Story
<1>3. "oracle.request" \in Types \ {"human.keep", "claim.promoted", "session.forked"}
  BY DEF Types
<1>4. Offered(Record("oracle.request", db.log[e].branch, e, 0, 0, 0, 0))
  BY <1>2, <1>3, PlainFits
<1>5. QED
  BY <1>1, <1>4, PrepareKeeps

\* An answer follows its request.
LEMMA AnswerKeeps ==
  ASSUME Story, Placement, NEW p \in Proc, Answer(p)
  PROVE  Story' /\ Placement'
<1>1. PICK e \in Event(db) :
        Prepare(p, Record("oracle.output", db.log[e].branch, e, e, 0, 0, 0))
  BY DEF Answer, OfType
<1>2. /\ e \in Nat /\ db.log[e].branch \in Branch /\ Exists(db, db.log[e].branch)
      /\ e \in Own(db, db.log[e].branch)
  BY EventIsOf DEF Story
<1>3. "oracle.output" \in Types \ {"human.keep", "claim.promoted", "session.forked"}
  BY DEF Types
<1>4. Offered(Record("oracle.output", db.log[e].branch, e, e, 0, 0, 0))
  BY <1>2, <1>3, PlainFits
<1>5. QED
  BY <1>1, <1>4, PrepareKeeps

\* A claim follows the output it is found in.
LEMMA DetectKeeps ==
  ASSUME Story, Placement, NEW p \in Proc, DetectClaim(p)
  PROVE  Story' /\ Placement'
<1>1. PICK e \in Event(db) :
        Prepare(p, Record("analysis.claim_detected", db.log[e].branch, e, e, 0, 0, 0))
  BY DEF DetectClaim, OfType
<1>2. /\ e \in Nat /\ db.log[e].branch \in Branch /\ Exists(db, db.log[e].branch)
      /\ e \in Own(db, db.log[e].branch)
  BY EventIsOf DEF Story
<1>3. "analysis.claim_detected" \in Types \ {"human.keep", "claim.promoted", "session.forked"}
  BY DEF Types
<1>4. Offered(Record("analysis.claim_detected", db.log[e].branch, e, e, 0, 0, 0))
  BY <1>2, <1>3, PlainFits
<1>5. QED
  BY <1>1, <1>4, PrepareKeeps

\* A task follows the event it is asked for.
LEMMA EditKeeps ==
  ASSUME Story, Placement, NEW p \in Proc, RequestEdit(p)
  PROVE  Story' /\ Placement'
<1>1. PICK e \in Event(db) :
        Prepare(p, Record("worker.task_requested", db.log[e].branch, e, e, 0, 0, 0))
  BY DEF RequestEdit
<1>2. /\ e \in Nat /\ db.log[e].branch \in Branch /\ Exists(db, db.log[e].branch)
      /\ e \in Own(db, db.log[e].branch)
  BY EventIsOf DEF Story
<1>3. "worker.task_requested" \in Types \ {"human.keep", "claim.promoted", "session.forked"}
  BY DEF Types
<1>4. Offered(Record("worker.task_requested", db.log[e].branch, e, e, 0, 0, 0))
  BY <1>2, <1>3, PlainFits
<1>5. QED
  BY <1>1, <1>4, PrepareKeeps

\* A nomination names a claim of the branch.
LEMMA NominateKeeps ==
  ASSUME Story, Placement, NEW p \in Proc, Nominate(p)
  PROVE  Story' /\ Placement'
<1>1. PICK b \in Branches, row \in db.claims :
        Prepare(p, Record("analysis.canon_candidate", b, LastEvent(db, b),
                          LastEvent(db, b), 0, 0, row.claim))
  BY DEF Nominate
<1>2. /\ b \in Branch /\ Exists(db, b) /\ LastEvent(db, b) \in Nat
      /\ LastEvent(db, b) \in Own(db, b)
  BY LastIsOwn DEF Story
<1>3. row.claim \in Event(db)
  BY DEF Placement, Placed, ClaimsNamed
<1>4. row.claim \in Nat
  BY <1>3, EventIsOf DEF Story
<1>5. "analysis.canon_candidate"
        \in Types \ {"human.keep", "claim.promoted", "session.forked"}
  BY DEF Types
<1>6. Offered(Record("analysis.canon_candidate", b, LastEvent(db, b),
                     LastEvent(db, b), 0, 0, row.claim))
  BY <1>2, <1>3, <1>4, <1>5, PlainFits
<1>7. QED
  BY <1>1, <1>6, PrepareKeeps

\* A judgment is about an output, so it is no approval of a candidate.
LEMMA CurateKeeps ==
  ASSUME Story, Placement, NEW p \in Proc, Curate(p)
  PROVE  Story' /\ Placement'
<1>1. Sound(db) /\ clock \in Nat
  BY DEF Story
<1>2. PICK e \in OfType("oracle.output"), kind \in {"human.keep", "human.reject"} :
        Prepare(p, Record(kind, db.log[e].branch, LastEvent(db, db.log[e].branch),
                          e, e, 0, 0))
  BY DEF Curate
<1>3. PICK b : b = db.log[e].branch
  OBVIOUS
<1>4. PICK l : l = LastEvent(db, b)
  OBVIOUS
<1>5. e \in Event(db) /\ Is(db, e, "oracle.output")
  BY DEF OfType
<1>6. e \in Nat /\ b \in Branch /\ Exists(db, b) /\ b \in Branches
  BY <1>1, <1>3, <1>5, EventIsOf DEF Branches
<1>7. l \in Nat /\ l \in Own(db, b)
  BY <1>1, <1>4, <1>6, LastIsOwn
<1>8. PICK r : r = Record(kind, b, l, e, e, 0, 0)
  OBVIOUS
<1>9. kind \in Types /\ 0 \in Nat
  BY DEF Types
<1>10. /\ r \in EventRecord /\ r.type = kind /\ r.branch = b /\ r.parent = l
       /\ r.target = e /\ r.claim = NoEvent /\ r.at = clock
  BY <1>1, <1>6, <1>7, <1>8, <1>9 DEF Record, EventRecord, NoEvent
<1>11. KeepFits(db, r)
  BY <1>5, <1>10 DEF KeepFits
<1>12. DraftFits(db, r)
  BY <1>5, <1>6, <1>10, <1>11 DEF DraftFits, EventFits
<1>13. Joins(db, r)
  <2>1. \A f \in Event(db) : db.log[f].at <= clock
    BY StoryIsFine DEF Fine
  <2>2. QED
    BY <1>7, <1>10, <2>1 DEF Joins, Hangs, Judges
<1>14. Offered(r)
  BY <1>10, <1>12, <1>13 DEF Offered
<1>15. QED
  BY <1>2, <1>3, <1>4, <1>8, <1>14, PrepareKeeps

\* A fork follows the event it is forked from, and its branch is not there yet, nor
\* is anybody about to make it.
LEMMA ForkKeeps ==
  ASSUME Story, Placement, NEW p \in Proc, Fork(p)
  PROVE  Story' /\ Placement'
<1>1. Sound(db) /\ clock \in Nat
  BY DEF Story
<1>2. PICK e \in Event(db), b \in Branch :
        /\ ~ Exists(db, b) /\ \A d \in Drafts : d.branch # b
        /\ Prepare(p, Record("session.forked", b, e, e, 0, 0, 0))
  BY DEF Fork
<1>3. e \in Nat
  BY <1>1, EventIsOf
<1>4. PICK r : r = Record("session.forked", b, e, e, 0, 0, 0)
  OBVIOUS
<1>5. "session.forked" \in Types /\ 0 \in Nat
  BY DEF Types
<1>6. /\ r \in EventRecord /\ r.type = "session.forked" /\ r.parent = e /\ r.branch = b
      /\ r.at = clock
  BY <1>1, <1>3, <1>4, <1>5 DEF Record, EventRecord
<1>7. DraftFits(db, r)
  BY <1>6 DEF DraftFits, EventFits
<1>8. Joins(db, r)
  <2>1. \A f \in Event(db) : db.log[f].at <= clock
    BY StoryIsFine DEF Fine
  <2>2. QED
    BY <1>2, <1>6, <2>1 DEF Joins, Hangs, Judges
<1>9. \A q \in Proc : draft[q] # NoDraft => draft[q].branch # b
  BY <1>2 DEF Drafts
<1>10. Offered(r)
  BY <1>6, <1>7, <1>8, <1>9 DEF Offered
<1>11. QED
  BY <1>2, <1>4, <1>10, PrepareKeeps

\* A draft still fits when it is committed, and approves no candidate.
LEMMA CommitKeeps ==
  ASSUME Story, Placement, NEW p \in Proc, Commit(p)
  PROVE  Story' /\ Placement'
<1>1. /\ draft[p] # NoDraft /\ clock' = clock
      /\ db' = IF Refused(db, draft[p]) THEN db ELSE Appended(db, draft[p])
      /\ draft' = [draft EXCEPT ![p] = NoDraft]
  BY DEF Commit
<1>2. draft \in [Proc -> EventRecord \cup {NoDraft}] /\ clock \in Nat
  BY DEF Story
<1>3. PICK r : r = draft[p]
  OBVIOUS
<1>4. DraftFits(db, r) /\ Joins(db, r) /\ r.at < clock /\ r \in EventRecord
  BY <1>1, <1>2, <1>3 DEF Story, Placement
<1>5. EventFits(db, r)
  BY <1>4 DEF DraftFits
<1>6. KeepIsNew(db, r)
  BY <1>4 DEF DraftFits, KeepIsNew, Is
<1>7. PICK Q : Q = Proc \ {p}
  OBVIOUS
<1>8. Fine(db, Q, clock - 1)
  BY <1>7, StoryIsFine DEF Fine
<1>9. r.at <= clock - 1
  <2>1. r.at \in Nat
    BY <1>4 DEF EventRecord
  <2>2. QED
    BY <1>2, <1>4, <2>1
<1>10. r.type = "session.forked" =>
         \A q \in Q : draft[q] # NoDraft => draft[q].branch # r.branch
  BY <1>1, <1>3, <1>7 DEF Placement
<1>11. Q \in SUBSET Proc
  BY <1>7
<1>12. Fine(Appended(db, r), Q, clock - 1)
  BY <1>4, <1>5, <1>6, <1>8, <1>9, <1>10, <1>11, AppendIsFine
<1>13. Fine(db', Q, clock - 1)
  BY <1>1, <1>3, <1>8, <1>12
<1>14. /\ draft' \in [Proc -> EventRecord \cup {NoDraft}]
       /\ \A q \in Proc : draft'[q] # NoDraft => q \in Q /\ draft'[q] = draft[q]
  BY <1>1, <1>2, <1>7
<1>15. clock' \in Nat /\ clock - 1 \in Int /\ clock - 1 < clock' /\ clock <= clock'
  BY <1>1, <1>2
<1>16. QED
  BY <1>11, <1>13, <1>14, <1>15, GrowthKeeps

\* An approval of a candidate names its claim and is on its branch.
LEMMA ApprovalIs ==
  ASSUME NEW s, Sound(s), NEW e \in Event(s), Is(s, e, "analysis.canon_candidate"),
         NEW k \in Event(s), Is(s, k, "human.keep"), s.log[k].target = e
  PROVE  /\ s.log[k].parent = e /\ s.log[k].claim = s.log[e].claim
         /\ s.log[k].branch = s.log[e].branch
<1>1. KeepFits(s, s.log[k])
  BY DEF Sound, LogSound
<1>2. ~ Is(s, e, "oracle.output")
  BY DEF Is
<1>3. QED
  BY <1>1, <1>2 DEF KeepFits

\* What a promotion cites is an approval of a candidate for the claim.
LEMMA PromotionFits ==
  ASSUME NEW s, NEW r \in EventRecord, r.type = "claim.promoted", Exists(s, r.branch),
         NEW e \in Event(s), Is(s, e, "analysis.canon_candidate"),
         NEW k \in Event(s), Is(s, k, "human.keep"), s.log[k].target = e,
         s.log[k].claim = s.log[e].claim, s.log[k].branch = r.branch,
         r.claim = s.log[e].claim, r.approver = k
  PROVE  EventFits(s, r) /\ KeepIsNew(s, r)
BY DEF EventFits, KeepIsNew

\* A judgment is made now and follows what it is about, on the same branch.
LEMMA JudgmentJoins ==
  ASSUME NEW s, Fine(s, Proc, clock), NEW r, r.type \in {"human.keep", "claim.promoted"},
         r.parent \in Own(s, r.branch), r.at = clock
  PROVE  Joins(s, r)
<1>1. \A x \in Event(s) : s.log[x].at <= r.at
  BY DEF Fine
<1>2. QED
  BY <1>1 DEF Joins, Hangs

\* The approval of a candidate, if there is none: afterwards there is one.
LEMMA ApprovalIsSound ==
  ASSUME NEW s, Fine(s, Proc, clock), clock \in Nat, NEW e \in Event(s),
         Is(s, e, "analysis.canon_candidate"),
         NEW keep, keep = Record("human.keep", s.log[e].branch, e, e, e, 0, s.log[e].claim),
         NEW t, t = IF Approvals(s, e) # {} THEN s ELSE Appended(s, keep)
  PROVE  Fine(t, Proc, clock) /\ Extends(s, t) /\ Approvals(t, e) # {}
<1>0. Sound(s)
  BY DEF Fine
<1>1. CASE Approvals(s, e) # {}
  BY <1>1 DEF Extends
<1>2. CASE Approvals(s, e) = {}
  <2>1. s \in Database /\ e \in Nat /\ s.log[e] \in EventRecord
    BY <1>0, EventsOf DEF Sound
  <2>2. PICK b : b = s.log[e].branch
    OBVIOUS
  <2>3. PICK c : c = s.log[e].claim
    OBVIOUS
  <2>4. b \in Branch /\ c \in Nat /\ Exists(s, b) /\ e \in Own(s, b)
    BY <1>0, <2>1, <2>2, <2>3 DEF EventRecord, Sound, BranchesSound, Own
  <2>5. "human.keep" \in Types /\ 0 \in Nat
    BY DEF Types
  <2>6. /\ keep \in EventRecord /\ keep.type = "human.keep" /\ keep.branch = b
        /\ keep.target = e /\ keep.parent = e /\ keep.claim = c /\ keep.at = clock
    BY <2>1, <2>2, <2>3, <2>4, <2>5 DEF Record, EventRecord
  <2>7. KeepFits(s, keep)
    BY <2>2, <2>3, <2>6 DEF KeepFits
  <2>8. EventFits(s, keep)
    BY <2>4, <2>6, <2>7 DEF EventFits
  <2>9. KeepIsNew(s, keep)
    <3>1. ASSUME NEW x \in Event(s), Is(s, x, "human.keep"), s.log[x].target = e
          PROVE  FALSE
      BY <1>0, <1>2, <3>1, ApprovalIs DEF Approvals
    <3>2. QED
      BY <2>6, <3>1 DEF KeepIsNew
  <2>10. t = Appended(s, keep)
    BY <1>2
  <2>j. Joins(s, keep) /\ keep.at <= clock
    BY <2>4, <2>6, JudgmentJoins
  <2>11. Fine(t, Proc, clock) /\ Extends(s, t)
    BY <2>6, <2>8, <2>9, <2>10, <2>j, AppendIsFine
  <2> DEFINE n == Len(s.log) + 1
  <2>12. n \in Event(t) /\ t.log[n] = keep
    BY <2>1, <2>4, <2>6, <2>10, AppendedLog DEF Appendable
  <2> HIDE DEF n
  <2>13. t.log[e] = s.log[e]
    BY <2>11 DEF Extends
  <2>14. n \in Approvals(t, e)
    BY <2>3, <2>6, <2>12, <2>13 DEF Approvals, Is
  <2>15. QED
    BY <2>11, <2>14
<1>3. QED
  BY <1>1, <1>2

\* The promotion that the dispatcher adds, if there is none.
LEMMA PromotedIsSound ==
  ASSUME NEW s, Fine(s, Proc, clock), clock \in Nat, NEW e \in Event(s),
         Is(s, e, "analysis.canon_candidate"), NEW k \in Approvals(s, e)
  PROVE  Fine(Promoted(s, e, k), Proc, clock)
<1>0. Sound(s)
  BY DEF Fine
<1>1. PICK b : b = s.log[e].branch
  OBVIOUS
<1>2. PICK c : c = s.log[e].claim
  OBVIOUS
<1>3. PICK r : r = Record("claim.promoted", b, e, e, e, k, c)
  OBVIOUS
<1>4. Promoted(s, e, k) = IF Promotions(s, e) # {} THEN s ELSE Appended(s, r)
  BY <1>1, <1>2, <1>3 DEF Promoted
<1>5. k \in Event(s) /\ Is(s, k, "human.keep") /\ s.log[k].target = e
  BY DEF Approvals
<1>6. s \in Database /\ e \in Nat /\ k \in Nat /\ s.log[e] \in EventRecord
  BY <1>0, <1>5, EventsOf DEF Sound
<1>7. b \in Branch /\ c \in Nat /\ Exists(s, b) /\ e \in Own(s, b)
  BY <1>0, <1>1, <1>2, <1>6 DEF EventRecord, Sound, BranchesSound, Own
<1>8. "claim.promoted" \in Types
  BY DEF Types
<1>9. /\ r \in EventRecord /\ r.type = "claim.promoted" /\ r.branch = b
      /\ r.parent = e /\ r.claim = c /\ r.approver = k /\ r.at = clock
  BY <1>3, <1>6, <1>7, <1>8 DEF Record, EventRecord
<1>10. s.log[k].claim = s.log[e].claim /\ s.log[k].branch = s.log[e].branch
  BY <1>0, <1>5, ApprovalIs
<1>11. EventFits(s, r) /\ KeepIsNew(s, r)
  BY <1>1, <1>2, <1>5, <1>7, <1>9, <1>10, PromotionFits
<1>12. Joins(s, r) /\ r.at <= clock
  BY <1>7, <1>9, JudgmentJoins
<1>13. Fine(Appended(s, r), Proc, clock)
  BY <1>9, <1>11, <1>12, AppendIsFine
<1>14. QED
  BY <1>4, <1>13

\* The human approves a candidate, and the dispatcher promotes its claim.
LEMMA ApproveKeeps ==
  ASSUME Story, Placement, NEW e \in OfType("analysis.canon_candidate"), ApproveCanon(e)
  PROVE  Story' /\ Placement'
<1>1. /\ Fine(db, Proc, clock) /\ Fine(db, Proc, clock - 1)
      /\ clock \in Nat /\ draft \in [Proc -> EventRecord \cup {NoDraft}]
  BY StoryIsFine DEF Story
<1>2. e \in Event(db) /\ Is(db, e, "analysis.canon_candidate")
  BY DEF OfType
<1>3. PICK keep : keep = Record("human.keep", db.log[e].branch, e, e, e, 0, db.log[e].claim)
  OBVIOUS
<1>4. PICK kept : kept = IF Approvals(db, e) # {} THEN db ELSE Appended(db, keep)
  OBVIOUS
<1>5. PICK k : k = CHOOSE x \in Approvals(kept, e) : TRUE
  OBVIOUS
<1>6. /\ db' = Promoted(kept, e, k) /\ draft' = draft
      /\ clock' = IF db' = db THEN clock ELSE clock + 1
  BY <1>3, <1>4, <1>5 DEF ApproveCanon
<1>7. Fine(kept, Proc, clock) /\ Extends(db, kept) /\ Approvals(kept, e) # {}
  BY <1>1, <1>2, <1>3, <1>4, ApprovalIsSound
<1>8. k \in Approvals(kept, e)
  BY <1>5, <1>7
<1>9. e \in Event(kept) /\ Is(kept, e, "analysis.canon_candidate")
  BY <1>2, <1>7 DEF Extends, Is
<1>10. Fine(db', Proc, clock)
  BY <1>1, <1>6, <1>7, <1>8, <1>9, PromotedIsSound
<1>11. PICK n \in Int : n < clock' /\ Fine(db', Proc, n)
  <2>1. CASE db' = db
    <3>1. clock - 1 \in Int /\ clock - 1 < clock'
      BY <1>1, <1>6, <2>1
    <3>2. Fine(db', Proc, clock - 1)
      BY <1>1, <2>1
    <3>3. QED
      BY <3>1, <3>2
  <2>2. CASE db' # db
    <3>1. clock \in Int /\ clock < clock'
      BY <1>1, <1>6, <2>2
    <3>2. QED
      BY <1>10, <3>1
  <2>3. QED
    BY <2>1, <2>2
<1>12. clock' \in Nat /\ clock <= clock'
  BY <1>1, <1>6
<1>13. Proc \in SUBSET Proc
  OBVIOUS
<1>14. QED
  BY <1>1, <1>6, <1>11, <1>12, <1>13, GrowthKeeps

\* A promotion that the store accepts is bound to a candidate and its approval.
LEMMA AppendPromotionKeeps ==
  ASSUME Story, Placement, AppendPromotion
  PROVE  Story' /\ Placement'
<1>1. /\ Sound(db) /\ clock \in Nat /\ draft \in [Proc -> EventRecord \cup {NoDraft}]
      /\ Fine(db, Proc, clock)
  BY StoryIsFine DEF Story
<1>2. PICK e \in OfType("analysis.canon_candidate"), k \in OfType("human.keep"),
           b \in Branches, c \in {row.claim : row \in db.claims} :
        LET r == Record("claim.promoted", b, e, e, e, k, c)
        IN  /\ ~ Refused(db, r)
            /\ db' = Appended(db, r) /\ clock' = clock + 1 /\ UNCHANGED draft
  BY DEF AppendPromotion
<1>3. PICK r : r = Record("claim.promoted", b, e, e, e, k, c)
  OBVIOUS
<1>4. ~ Refused(db, r) /\ db' = Appended(db, r) /\ clock' = clock + 1 /\ draft' = draft
  BY <1>2, <1>3
<1>5. /\ e \in Event(db) /\ Is(db, e, "analysis.canon_candidate")
      /\ k \in Event(db) /\ Is(db, k, "human.keep")
  BY DEF OfType
<1>6. e \in Nat /\ k \in Nat
  BY <1>1, <1>5, EventIsOf
<1>7. c \in Nat
  <2>1. PICK row \in db.claims : c = row.claim
    OBVIOUS
  <2>2. row \in ClaimRow
    BY <1>1 DEF Sound, Database
  <2>3. QED
    BY <2>1, <2>2 DEF ClaimRow
<1>8. b \in Branch /\ Exists(db, b) /\ "claim.promoted" \in Types
  BY DEF Branches, Types
<1>9. /\ r \in EventRecord /\ r.type = "claim.promoted" /\ r.branch = b
      /\ r.target = e /\ r.parent = e /\ r.approver = k /\ r.at = clock
  BY <1>1, <1>3, <1>6, <1>7, <1>8 DEF Record, EventRecord
<1>10. /\ db.log[k].target = e /\ db.log[e].claim = r.claim
       /\ db.log[k].claim = r.claim /\ db.log[k].branch = r.branch
       /\ db.log[e].branch = r.branch
  BY <1>4, <1>9 DEF Refused, ValidPromotion
<1>11. EventFits(db, r) /\ KeepIsNew(db, r)
  BY <1>5, <1>8, <1>9, <1>10, PromotionFits
<1>12. Joins(db, r) /\ r.at <= clock
  BY <1>1, <1>5, <1>9, <1>10, JudgmentJoins DEF Own
<1>13. Proc \in SUBSET Proc
  OBVIOUS
<1>14. Fine(db', Proc, clock)
  BY <1>1, <1>4, <1>9, <1>11, <1>12, <1>13, AppendIsFine
<1>15. clock' \in Nat /\ clock < clock' /\ clock <= clock' /\ clock \in Int
  BY <1>1, <1>4
<1>16. QED
  BY <1>1, <1>4, <1>13, <1>14, <1>15, GrowthKeeps
-----------------------------------------------------------------------------
(* The first log *)

\* The events of new_session and of the first answer, by their places.
LEMMA FirstEvents ==
  /\ FirstLog \in Seq(EventRecord) /\ DOMAIN FirstLog = 1 .. 5 /\ Len(FirstLog) = 5
  /\ \A x \in 1 .. 5 :
       /\ FirstLog[x].branch = Main /\ FirstLog[x].at = x
       /\ FirstLog[x].parent = x - 1 /\ FirstLog[x].claim = NoEvent
       /\ FirstLog[x].type \notin {"human.keep", "claim.promoted", "session.forked",
                                   "branch.archived", "analysis.canon_candidate"}
       /\ FirstLog[x].type = "analysis.claim_detected" <=> x = 5
<1> DEFINE Plain == Types \ {"human.keep", "claim.promoted", "session.forked",
                             "branch.archived", "analysis.canon_candidate"}
           r1 == FirstEvent("session.created", 0, 0, 1)
           r2 == FirstEvent("human.input", 1, 0, 2)
           r3 == FirstEvent("oracle.request", 2, 0, 3)
           r4 == FirstEvent("oracle.output", 3, 3, 4)
           r5 == FirstEvent("analysis.claim_detected", 4, 4, 5)
           Starts(r, n, type) ==
             /\ r \in EventRecord /\ r.branch = Main /\ r.at = n /\ r.parent = n - 1
             /\ r.claim = NoEvent /\ r.type = type /\ type \in Plain
<1>1. ASSUME NEW type \in Plain, NEW parent \in Nat, NEW cause \in Nat,
             NEW at \in Nat, parent = at - 1
      PROVE  Starts(FirstEvent(type, parent, cause, at), at, type)
  BY <1>1, LogAssumption DEF FirstEvent, EventRecord, NoEvent
<1>2. {"session.created", "human.input", "oracle.request", "oracle.output",
       "analysis.claim_detected"} \subseteq Plain
  BY DEF Types
<1> HIDE DEF Starts, Plain
<1>3. /\ Starts(r1, 1, "session.created") /\ Starts(r2, 2, "human.input")
      /\ Starts(r3, 3, "oracle.request") /\ Starts(r4, 4, "oracle.output")
      /\ Starts(r5, 5, "analysis.claim_detected")
  <2>1. Starts(r1, 1, "session.created")
    BY <1>1, <1>2
  <2>2. Starts(r2, 2, "human.input")
    BY <1>1, <1>2
  <2>3. Starts(r3, 3, "oracle.request")
    BY <1>1, <1>2
  <2>4. Starts(r4, 4, "oracle.output")
    BY <1>1, <1>2
  <2>5. Starts(r5, 5, "analysis.claim_detected")
    BY <1>1, <1>2
  <2>6. QED
    BY <2>1, <2>2, <2>3, <2>4, <2>5
<1>4. FirstLog = <<r1, r2, r3, r4, r5>>
  BY DEF FirstLog
<1> HIDE DEF r1, r2, r3, r4, r5
<1>5. FirstLog \in Seq(EventRecord) /\ DOMAIN FirstLog = 1 .. 5 /\ Len(FirstLog) = 5
  BY <1>3, <1>4 DEF Starts
<1>6. /\ FirstLog[1] = r1 /\ FirstLog[2] = r2 /\ FirstLog[3] = r3 /\ FirstLog[4] = r4
      /\ FirstLog[5] = r5
  BY <1>4
<1>7. \A x \in 1 .. 5 : x = 1 \/ x = 2 \/ x = 3 \/ x = 4 \/ x = 5
  OBVIOUS
<1>8. \A r, n, type : Starts(r, n, type) =>
        /\ r.branch = Main /\ r.at = n /\ r.parent = n - 1 /\ r.claim = NoEvent
        /\ r.type = type
        /\ type \notin {"human.keep", "claim.promoted", "session.forked",
                        "branch.archived", "analysis.canon_candidate"}
  BY DEF Starts, Plain
<1>9. ASSUME NEW x \in 1 .. 5
      PROVE  /\ FirstLog[x].branch = Main /\ FirstLog[x].at = x
             /\ FirstLog[x].parent = x - 1 /\ FirstLog[x].claim = NoEvent
             /\ FirstLog[x].type \notin {"human.keep", "claim.promoted", "session.forked",
                                         "branch.archived", "analysis.canon_candidate"}
             /\ FirstLog[x].type = "analysis.claim_detected" <=> x = 5
  <2>1. CASE x = 1
    BY <1>3, <1>6, <1>8, <2>1
  <2>2. CASE x = 2
    BY <1>3, <1>6, <1>8, <2>2
  <2>3. CASE x = 3
    BY <1>3, <1>6, <1>8, <2>3
  <2>4. CASE x = 4
    BY <1>3, <1>6, <1>8, <2>4
  <2>5. CASE x = 5
    BY <1>3, <1>6, <1>8, <2>5
  <2>6. QED
    BY <1>7, <2>1, <2>2, <2>3, <2>4, <2>5
<1>10. QED
  BY <1>5, <1>9

\* The session starts with a story that is sound.
LEMMA InitIsSound ==
  ASSUME Init
  PROVE  Story
<1> DEFINE rows == [b \in Branch |-> IF b = Main THEN MainRow ELSE NoRow]
           claims == {[claim |-> 5, branch |-> Main, status |-> "raw_claim",
                       last |-> 5, from |-> NoBranch]}
           transitions == {[event |-> 5, claim |-> 5, branch |-> Main, at |-> 5,
                            to |-> "raw_claim", evidence |-> {4}]}
<1>1. db = [log |-> FirstLog, branch |-> rows, sessionOpen |-> TRUE, worker |-> {},
            claims |-> claims, transitions |-> transitions]
  BY DEF Init
<1>2. rows \in [Branch -> BranchRow \cup {NoRow}] /\ rows[Main] # NoRow
      /\ \A b \in Branch : rows[b] # NoRow => b = Main
  BY RowsExist, LogAssumption
<1>3. claims \in SUBSET ClaimRow /\ \A row \in claims : row.status # "canonical"
  BY LogAssumption DEF ClaimRow
<1>4. transitions \in SUBSET Transition /\ \A u \in transitions : u.to # "canonical"
  BY LogAssumption DEF Transition
<1> HIDE DEF rows, claims, transitions
<1>5. /\ db.log = FirstLog /\ db.branch = rows /\ db.worker = {}
      /\ db.claims = claims /\ db.transitions = transitions
  BY <1>1
<1>6. db \in Database
  BY <1>1, <1>2, <1>3, <1>4, FirstEvents DEF Database
<1>7. Event(db) = 1 .. 5
  BY <1>5, FirstEvents DEF Event
<1>8. LogSound(db)
  BY <1>5, <1>7, FirstEvents DEF LogSound, Is
<1>9. BranchesSound(db)
  <2>1. 5 \in Own(db, Main)
    BY <1>5, <1>7, FirstEvents DEF Own
  <2>2. ASSUME NEW x \in Own(db, Main) \ {5}
        PROVE  Before(db, x, 5)
    <3>1. x \in 1 .. 5 /\ 5 \in 1 .. 5
      BY <1>7 DEF Own
    <3>2. db.log[x].at = x /\ db.log[5].at = 5
      BY <1>5, <3>1, FirstEvents
    <3>3. x < 5
      BY <3>1
    <3>4. QED
      BY <3>2, <3>3 DEF Before
  <2>3. HasLast(db, Main)
    BY <2>1, <2>2 DEF HasLast
  <2>4. \A b \in Branch : Exists(db, b) => b = Main
    BY <1>2, <1>5 DEF Exists
  <2>5. \A x \in Event(db) : Exists(db, db.log[x].branch)
    BY <1>2, <1>5, <1>7, FirstEvents DEF Exists
  <2>6. QED
    BY <2>3, <2>4, <2>5 DEF BranchesSound
<1>10. ClaimsSound(db)
  BY <1>3, <1>4, <1>5 DEF ClaimsSound
<1>11. Sound(db)
  BY <1>5, <1>6, <1>8, <1>9, <1>10 DEF Sound
<1>12. clock \in Nat
  BY DEF Init
<1>13. draft \in [Proc -> EventRecord \cup {NoDraft}] /\ \A p \in Proc : draft[p] = NoDraft
  BY DEF Init
<1>14. QED
  BY <1>11, <1>12, <1>13 DEF Story

\* And with events that are placed: one line of them, and the one claim.
LEMMA InitIsPlaced ==
  ASSUME Init
  PROVE  Placement
<1> DEFINE rows == [b \in Branch |-> IF b = Main THEN MainRow ELSE NoRow]
           row5 == [claim |-> 5, branch |-> Main, status |-> "raw_claim",
                    last |-> 5, from |-> NoBranch]
           transitions == {[event |-> 5, claim |-> 5, branch |-> Main, at |-> 5,
                            to |-> "raw_claim", evidence |-> {4}]}
<1>1. db = [log |-> FirstLog, branch |-> rows, sessionOpen |-> TRUE, worker |-> {},
            claims |-> {row5}, transitions |-> transitions]
  BY DEF Init
<1>2. \A u \in transitions : u.claim = 5
  OBVIOUS
<1>3. rows[Main] = MainRow /\ \A b \in Branch \ {Main} : rows[b] = NoRow
  BY LogAssumption
<1>4. row5.claim = 5 /\ row5.from = NoBranch
  OBVIOUS
<1> HIDE DEF rows, row5, transitions
<1>5. /\ db.log = FirstLog /\ db.branch = rows /\ db.worker = {}
      /\ db.claims = {row5} /\ db.transitions = transitions
  BY <1>1
<1>6. Event(db) = 1 .. 5
  BY <1>5, FirstEvents DEF Event
<1>7. \A x \in Event(db) :
        /\ db.log[x].branch = Main /\ db.log[x].at = x
        /\ db.log[x].parent = x - 1 /\ db.log[x].claim = NoEvent
        /\ db.log[x].type \notin {"human.keep", "claim.promoted", "session.forked",
                                  "branch.archived", "analysis.canon_candidate"}
        /\ db.log[x].type = "analysis.claim_detected" <=> x = 5
  BY <1>5, <1>6, FirstEvents
<1>8. LinesSound(db)
  <2>1. ASSUME NEW x \in Event(db)
        PROVE  /\ db.log[x].parent < x
               /\ db.log[x].parent \in {NoEvent} \cup Own(db, db.log[x].branch)
    <3>1. x - 1 < x /\ (x - 1 = 0 \/ x - 1 \in 1 .. 5)
      BY <1>6
    <3>2. \A y \in 1 .. 5 : y \in Own(db, Main)
      BY <1>6, <1>7 DEF Own
    <3>3. QED
      BY <1>7, <3>1, <3>2 DEF NoEvent
  <2>2. \A b \in Branch : db.branch[b].fork = NoEvent
    BY <1>3, <1>5 DEF MainRow, NoRow
  <2>3. QED
    BY <2>1, <2>2 DEF LinesSound
<1>9. TimesSound(db)
  <2>1. \A f \in Event(db) : ~ Is(db, f, "session.forked")
    BY <1>7 DEF Is
  <2>2. \A y \in Event(db) : ~ Judges(db.log[y])
    BY <1>7 DEF Judges
  <2>3. QED
    BY <2>1, <2>2 DEF TimesSound
<1>10. ClaimsNamed(db)
  <2>1. 5 \in Event(db)
    BY <1>6
  <2>2. \A x \in Event(db) : ~ Is(db, x, "analysis.canon_candidate")
    BY <1>7 DEF Is
  <2>3. \A row \in db.claims : row.claim = 5
    BY <1>4, <1>5
  <2>4. \A u \in db.transitions : u.claim = 5
    BY <1>2, <1>5
  <2>5. QED
    BY <2>1, <2>2, <2>3, <2>4 DEF ClaimsNamed
<1>11. \A b \in Branch : RowFits(db, Event(db), b, db.branch[b])
  <2>1. \A b : \A f \in Event(db) : ~ Forks(db, f, b)
    BY <1>7 DEF Forks, Is
  <2>2. \A x \in Event(db) : ~ Is(db, x, "branch.archived")
    BY <1>7 DEF Is
  <2>3. PICK row : row = MainRow
    OBVIOUS
  <2>4. /\ row \in BranchRow /\ row.open /\ row.parent = NoBranch /\ row.fork = NoEvent
    BY <2>3, RowsExist DEF MainRow
  <2>5. RowFits(db, Event(db), Main, row)
    BY <2>1, <2>2, <2>4 DEF RowFits
  <2>6. \A b \in Branch \ {Main} : RowFits(db, Event(db), b, NoRow)
    BY <2>1 DEF RowFits
  <2>7. QED
    BY <1>3, <1>5, <2>3, <2>5, <2>6
<1>12. {row \in db.claims : row.from = NoBranch} = OwnClaims(db, Event(db))
  <2>1. 5 \in Event(db) \ db.worker
    BY <1>5, <1>6
  <2>2. PICK m : m = <<5, "raw_claim">>
    OBVIOUS
  <2>3. ASSUME NEW x \in Event(db)
        PROVE  Moves(x, db.log[x]) = IF x = 5 THEN {m} ELSE {}
    BY <1>7, <2>2, <2>3 DEF Moves
  <2>4. ClaimOf(db, 5, m) = row5
    <3>1. db.log[5].branch = Main /\ m[1] = 5 /\ m[2] = "raw_claim"
      BY <1>7, <2>1, <2>2
    <3>2. QED
      BY <3>1 DEF ClaimOf, row5
  <2>5. \A y \in Event(db) : y <= 5
    BY <1>6
  <2>6. \A y \in Movers(db, Event(db), m[1], db.log[5].branch) : y <= 5
    BY <2>5 DEF Movers
  <2>7. row5 \in OwnClaims(db, Event(db))
    BY <2>1, <2>3, <2>4, <2>6, OwnClaimIs
  <2>8. ASSUME NEW row \in OwnClaims(db, Event(db))
        PROVE  row = row5
    <3>1. PICK x \in Event(db) \ db.worker : \E n \in Moves(x, db.log[x]) :
            row = ClaimOf(db, x, n)
      BY OwnClaimIs
    <3>2. PICK n \in Moves(x, db.log[x]) : row = ClaimOf(db, x, n)
      BY <3>1
    <3>3. x = 5 /\ n = m
      BY <2>3, <3>2
    <3>4. QED
      BY <2>4, <3>2, <3>3
  <2>9. QED
    BY <1>4, <1>5, <2>7, <2>8
<1>13. Placed(db)
  BY <1>8, <1>9, <1>10, <1>11, <1>12 DEF Placed, TablesFit
<1>14. \A x \in Event(db) : db.log[x].at < clock
  <2>1. clock = 6
    BY DEF Init
  <2>2. \A x \in 1 .. 5 : x < 6
    OBVIOUS
  <2>3. QED
    BY <1>6, <1>7, <2>1, <2>2
<1>15. \A p \in Proc : draft[p] = NoDraft
  BY DEF Init
<1>16. QED
  BY <1>13, <1>14, <1>15 DEF Placement

-----------------------------------------------------------------------------
(* The order in which a log is sorted *)

Earlier(s, e) == {x \in Event(s) : Before(s, x, e)}
Rank(s, e) == Cardinality(Earlier(s, e))

\* The event in place n of the order, and the events before place n + 1.
Position(s, n) == CHOOSE e \in Event(s) : Rank(s, e) = n - 1
FirstOnes(s, n) == {e \in Event(s) : Rank(s, e) < n}

\* The order is that of the ranks, which are the numbers below the length of the log.
LEMMA RanksOrder ==
  ASSUME NEW s \in Database
  PROVE  /\ \A x, y \in Event(s) : /\ Rank(s, x) \in 0 .. Len(s.log) - 1
                                   /\ Rank(s, x) < Rank(s, y) <=> Before(s, x, y)
                                   /\ Rank(s, x) = Rank(s, y) => x = y
         /\ \A k \in 0 .. Len(s.log) - 1 : \E x \in Event(s) : Rank(s, x) = k
<1>1. PICK N \in Nat : N = Len(s.log) /\ Event(s) = 1 .. N
  BY EventsOf
<1>2. \A x \in Event(s) : x \in Nat /\ s.log[x].at \in Nat
  BY EventsOf DEF EventRecord
<1>3. ASSUME NEW x \in Event(s), NEW y \in Event(s), NEW z \in Event(s)
      PROVE  /\ Before(s, x, y) /\ Before(s, y, z) => Before(s, x, z)
             /\ x # y => Before(s, x, y) \/ Before(s, y, x)
             /\ ~ (Before(s, x, y) /\ Before(s, y, x)) /\ ~ Before(s, x, x)
  <2>1. /\ Before(s, x, y) /\ Before(s, y, z) => Before(s, x, z)
        /\ x # y => Before(s, x, y) \/ Before(s, y, x)
    BY <1>2, BeforeIsTotal
  <2>2. ~ (Before(s, x, y) /\ Before(s, y, x)) /\ ~ Before(s, x, x)
    BY <1>2 DEF Before
  <2>3. QED
    BY <2>1, <2>2
<1>4. IsFiniteSet(Event(s)) /\ Cardinality(Event(s)) = N
  BY <1>1, FS_Interval
<1>5. ASSUME NEW x \in Event(s)
      PROVE  /\ Earlier(s, x) \in SUBSET Event(s) /\ IsFiniteSet(Earlier(s, x))
             /\ Rank(s, x) \in Nat /\ Rank(s, x) < N
  <2>1. Earlier(s, x) \in SUBSET Event(s) /\ Earlier(s, x) # Event(s)
    BY <1>3 DEF Earlier
  <2>2. /\ IsFiniteSet(Earlier(s, x)) /\ Rank(s, x) <= N /\ Rank(s, x) # N
    BY <1>4, <2>1, FS_Subset DEF Rank
  <2>3. Rank(s, x) \in Nat
    BY <2>2, FS_CardinalityType DEF Rank
  <2>4. QED
    BY <1>1, <2>1, <2>2, <2>3
<1>6. ASSUME NEW x \in Event(s), NEW y \in Event(s), Before(s, x, y)
      PROVE  Rank(s, x) < Rank(s, y)
  <2>1. Earlier(s, x) \in SUBSET Earlier(s, y)
    BY <1>3, <1>6 DEF Earlier
  <2>2. Earlier(s, x) # Earlier(s, y)
    BY <1>3, <1>6 DEF Earlier
  <2>3. Rank(s, x) <= Rank(s, y) /\ Rank(s, x) # Rank(s, y)
    BY <1>5, <2>1, <2>2, FS_Subset DEF Rank
  <2>4. QED
    BY <1>5, <2>3
<1>7. ASSUME NEW x \in Event(s), NEW y \in Event(s)
      PROVE  /\ Rank(s, x) \in 0 .. N - 1
             /\ Rank(s, x) < Rank(s, y) <=> Before(s, x, y)
             /\ Rank(s, x) = Rank(s, y) => x = y
  <2>1. Rank(s, x) \in Nat /\ Rank(s, y) \in Nat /\ Rank(s, x) < N
    BY <1>5
  <2>2. x # y => Before(s, x, y) \/ Before(s, y, x)
    BY <1>3
  <2>3. /\ Before(s, x, y) => Rank(s, x) < Rank(s, y)
        /\ Before(s, y, x) => Rank(s, y) < Rank(s, x)
    BY <1>6
  <2>4. QED
    BY <1>1, <2>1, <2>2, <2>3
<1>8. PICK f : f = [x \in Event(s) |-> Rank(s, x)]
  OBVIOUS
<1>9. PICK T : T = 0 .. N - 1
  OBVIOUS
<1>10. IsFiniteSet(T) /\ Cardinality(T) = N
  <2>1. PICK M \in Int : M = N - 1
    BY <1>1
  <2>2. IsFiniteSet(0 .. M) /\ Cardinality(0 .. M) = IF 0 > M THEN 0 ELSE M - 0 + 1
    BY FS_Interval
  <2>3. (IF 0 > M THEN 0 ELSE M - 0 + 1) = N
    BY <1>1, <2>1
  <2>4. QED
    BY <1>9, <2>1, <2>2, <2>3
<1>11. f \in Injection(Event(s), T)
  <2>1. f \in [Event(s) -> T] /\ \A x, y \in Event(s) : f[x] = f[y] => x = y
    BY <1>7, <1>8, <1>9
  <2>2. QED
    BY <2>1 DEF Injection, IsInjective
<1>12. f \in Surjection(Event(s), T)
  BY <1>4, <1>10, <1>11, FS_Injection
<1>13. \A k \in T : \E x \in Event(s) : f[x] = k
  BY <1>12 DEF Surjection
<1>14. QED
  BY <1>1, <1>7, <1>8, <1>9, <1>13

\* One more place is one more event, behind those before it.
LEMMA PositionIs ==
  ASSUME NEW s \in Database, NEW n \in 1 .. Len(s.log)
  PROVE  /\ Position(s, n) \in Event(s) /\ Position(s, n) \notin FirstOnes(s, n - 1)
         /\ FirstOnes(s, n) = FirstOnes(s, n - 1) \cup {Position(s, n)}
         /\ \A x \in Event(s) : x \in FirstOnes(s, n - 1) <=> Before(s, x, Position(s, n))
<1>1. Len(s.log) \in Nat
  BY EventsOf
<1>2. n - 1 \in 0 .. Len(s.log) - 1 /\ n \in Nat
  BY <1>1
<1>3. \E e \in Event(s) : Rank(s, e) = n - 1
  BY <1>2, RanksOrder
<1>4. PICK e : e = Position(s, n)
  OBVIOUS
<1>5. e \in Event(s) /\ Rank(s, e) = n - 1
  BY <1>3, <1>4 DEF Position
<1>6. \A x \in Event(s) : /\ Rank(s, x) \in Nat
                          /\ Rank(s, x) < n - 1 <=> Before(s, x, e)
                          /\ Rank(s, x) = n - 1 => x = e
  BY <1>1, <1>5, RanksOrder
<1>7. \A x \in Event(s) : Rank(s, x) < n <=> Rank(s, x) < n - 1 \/ Rank(s, x) = n - 1
  BY <1>2, <1>6
<1>8. \A x : x \in FirstOnes(s, n) <=> x \in FirstOnes(s, n - 1) \/ x = e
  BY <1>5, <1>6, <1>7 DEF FirstOnes
<1>9. e \notin FirstOnes(s, n - 1)
  BY <1>2, <1>5 DEF FirstOnes
<1>10. \A x \in Event(s) : x \in FirstOnes(s, n - 1) <=> Before(s, x, e)
  BY <1>6 DEF FirstOnes
<1>11. FirstOnes(s, n) = FirstOnes(s, n - 1) \cup {e}
  BY <1>8
<1>12. QED
  BY <1>4, <1>5, <1>9, <1>10, <1>11

\* No event is before the first place, and every event before the last.
LEMMA FirstOnesAre ==
  ASSUME NEW s \in Database
  PROVE  FirstOnes(s, 0) = {} /\ FirstOnes(s, Len(s.log)) = Event(s)
<1>1. \A x \in Event(s) : Rank(s, x) \in 0 .. Len(s.log) - 1 /\ Len(s.log) \in Nat
  BY EventsOf, RanksOrder
<1>2. \A x \in Event(s) : ~ (Rank(s, x) < 0) /\ Rank(s, x) < Len(s.log)
  BY <1>1
<1>3. QED
  BY <1>2 DEF FirstOnes
-----------------------------------------------------------------------------
(* The log is projected anew *)

\* One event more of the replay, and what it has made so far.
Turn(s, n, t) ==
  IF t = Failed \/ Raises(t, t.log[Position(s, n)]) THEN Failed
  ELSE Projected(t, Position(s, n))
Made(s, n, t) ==
  t = Failed \/ /\ t \in Database /\ t.log = s.log /\ t.worker = s.worker
                /\ TablesFit(s, FirstOnes(s, n), t)

\* The tables are cleared: they are those of no event.
LEMMA ClearedIsMade ==
  ASSUME NEW s \in Database
  PROVE  Made(s, 0, Cleared(s))
<1> DEFINE rows == [b \in Branch |-> IF b = Main THEN MainRow ELSE NoRow]
<1>1. Cleared(s) = [s EXCEPT !.branch = rows, !.sessionOpen = TRUE, !.claims = {},
                             !.transitions = {}]
  BY DEF Cleared
<1>2. rows \in [Branch -> BranchRow \cup {NoRow}]
  BY RowsExist
<1>3. rows[Main] = MainRow /\ \A b \in Branch \ {Main} : rows[b] = NoRow
  BY LogAssumption
<1> HIDE DEF rows
<1>4. /\ Cleared(s) \in Database /\ Cleared(s).log = s.log /\ Cleared(s).worker = s.worker
      /\ Cleared(s).branch = rows /\ Cleared(s).claims = {}
  BY <1>1, <1>2 DEF Database
<1>5. PICK row : row = MainRow
  OBVIOUS
<1>6. /\ row \in BranchRow /\ row.open /\ row.parent = NoBranch /\ row.fork = NoEvent
  BY <1>5, RowsExist DEF MainRow
<1>7. RowFits(s, {}, Main, row)
  BY <1>6 DEF RowFits
<1>8. \A b \in Branch \ {Main} : RowFits(s, {}, b, NoRow)
  BY DEF RowFits
<1>9. \A b \in Branch : RowFits(s, {}, b, Cleared(s).branch[b])
  BY <1>3, <1>4, <1>5, <1>7, <1>8
<1>10. OwnClaims(s, {}) = {}
  BY OwnClaimIs
<1>11. TablesFit(s, {}, Cleared(s))
  BY <1>4, <1>9, <1>10 DEF TablesFit
<1>12. QED
  BY <1>4, <1>11, FirstOnesAre DEF Made

\* An event r in place e that follows the events E, as far as it bears on them.
Ready(s, E, e, r) ==
  /\ r.type = "session.forked" =>
       /\ r.branch # Main /\ r.parent \in Event(s)
       /\ \A x \in E : s.log[x].branch # r.branch
  /\ r.type # "session.forked" => r.branch = Main \/ \E f \in E : Forks(s, f, r.branch)
  /\ \A m \in Moves(e, r) : \A y \in Movers(s, E, m[1], r.branch) : y <= e

\* An event comes behind those on which it bears in the order of the replay too: behind
\* the fork of its branch, or before all else there, and behind what it undoes.
LEMMA OrderFits ==
  ASSUME NEW s, Sound(s), Placed(s), NEW e \in Event(s),
         NEW E \in SUBSET Event(s), \A x \in Event(s) : x \in E <=> Before(s, x, e),
         NEW r, r = s.log[e]
  PROVE  Ready(s, E, e, r)
<1>1. s \in Database /\ TimesSound(s) /\ r.branch \in Branch /\ e \in Nat
  BY EventsOf DEF Sound, Placed, EventRecord
<1>2. ASSUME NEW x \in E
      PROVE  x \in Nat /\ x # e /\ Before(s, x, e) /\ ~ Before(s, e, x)
  <2>1. x \in Event(s) /\ Before(s, x, e)
    OBVIOUS
  <2>2. x \in Nat
    BY <1>1, <2>1, EventsOf
  <2>3. s.log[x] \in EventRecord /\ s.log[e] \in EventRecord
    BY <1>1, <2>1, EventsOf
  <2>4. s.log[x].at \in Nat /\ s.log[e].at \in Nat
    BY <2>3 DEF EventRecord
  <2>5. QED
    BY <1>1, <2>1, <2>2, <2>4 DEF Before
<1>3. ASSUME r.type = "session.forked"
      PROVE  /\ r.branch # Main /\ r.parent \in Event(s)
             /\ \A x \in E : s.log[x].branch # r.branch
  <2>1. /\ r.branch # Main /\ r.parent \in Event(s)
        /\ \A x \in Own(s, r.branch) \ {e} : Before(s, e, x)
    BY <1>1, <1>3 DEF TimesSound, Is
  <2>2. ASSUME NEW x \in E, s.log[x].branch = r.branch
        PROVE  FALSE
    <3>1. x \in Own(s, r.branch) \ {e}
      BY <1>2, <2>2 DEF Own
    <3>2. QED
      BY <1>2, <2>1, <3>1
  <2>3. QED
    BY <2>1, <2>2
<1>4. ASSUME r.type # "session.forked", r.branch # Main
      PROVE  \E f \in E : Forks(s, f, r.branch)
  <2>1. RowFits(s, Event(s), r.branch, s.branch[r.branch])
    BY <1>1 DEF Placed, TablesFit
  <2>2. s.branch[r.branch] # NoRow
    BY DEF Sound, BranchesSound, Exists
  <2>3. PICK f \in Event(s) : Forks(s, f, r.branch)
    BY <1>4, <2>1, <2>2 DEF RowFits
  <2>4. e \in Own(s, s.log[f].branch) \ {f}
    BY <1>4, <2>3 DEF Forks, Is, Own
  <2>5. Before(s, f, e)
    BY <1>1, <2>3, <2>4 DEF TimesSound, Forks
  <2>6. QED
    BY <2>3, <2>5
<1>5. ASSUME NEW m \in Moves(e, r), NEW y \in Movers(s, E, m[1], r.branch)
      PROVE  y <= e
  <2>1. y \in E /\ \E n \in Moves(y, s.log[y]) : n[1] = m[1]
    BY DEF Movers
  <2>2. PICK n \in Moves(y, s.log[y]) : n[1] = m[1]
    BY <2>1
  <2>3. /\ y \in Nat /\ y # e /\ ~ Before(s, e, y) /\ y \in Event(s)
    BY <1>2, <2>1
  <2>4. n[1] = y \/ Judges(s.log[y])
    BY DEF Moves, Judges
  <2>5. m[1] = e \/ (Judges(r) /\ m[1] = r.claim)
    BY DEF Moves, Judges
  <2>6. CASE Judges(s.log[y])
    <3>1. e < y => Before(s, e, y)
      BY <1>1, <2>3, <2>6 DEF TimesSound
    <3>2. QED
      BY <1>1, <2>3, <3>1
  <2>7. CASE n[1] = y
    <3>1. Judges(r) /\ y = r.claim
      BY <2>2, <2>3, <2>5, <2>7
    <3>2. r.claim < e
      BY <1>1, <3>1 DEF TimesSound
    <3>3. QED
      BY <1>1, <2>3, <3>1, <3>2
  <2>8. QED
    BY <2>4, <2>6, <2>7
<1>6. QED
  BY <1>3, <1>4, <1>5 DEF Ready

\* So each turn makes the tables of one event more, or fails.
LEMMA TurnIsMade ==
  ASSUME NEW s, Sound(s), Placed(s), NEW n \in 1 .. Len(s.log), NEW t, Made(s, n - 1, t)
  PROVE  Made(s, n, Turn(s, n, t))
<1>1. PICK e : e = Position(s, n)
  OBVIOUS
<1>2. PICK E : E = FirstOnes(s, n - 1)
  OBVIOUS
<1>3. s \in Database
  BY DEF Sound
<1>4. /\ e \in Event(s) /\ e \notin E /\ FirstOnes(s, n) = E \cup {e}
      /\ \A x \in Event(s) : x \in E <=> Before(s, x, e)
  BY <1>1, <1>2, <1>3, PositionIs
<1>5. E \in SUBSET Event(s)
  BY <1>2 DEF FirstOnes
<1>6. CASE t = Failed \/ Raises(t, t.log[e])
  <2>1. Turn(s, n, t) = Failed
    BY <1>1, <1>6 DEF Turn
  <2>2. QED
    BY <2>1 DEF Made
<1>7. CASE ~ (t = Failed \/ Raises(t, t.log[e]))
  <2>1. Turn(s, n, t) = Projected(t, e)
    BY <1>1, <1>7 DEF Turn
  <2>2. t \in Database /\ t.log = s.log /\ t.worker = s.worker /\ TablesFit(s, E, t)
    BY <1>2, <1>7 DEF Made
  <2>3. PICK r : r = s.log[e]
    OBVIOUS
  <2>4. Ready(s, E, e, r)
    BY <1>4, <1>5, <2>3, OrderFits
  <2>5. r.type # "session.forked" => t.branch[r.branch] # NoRow
    <3>1. r.branch \in Branch
      BY <1>3, <1>4, <2>3, EventsOf DEF EventRecord
    <3>2. PICK row : row = t.branch[r.branch]
      OBVIOUS
    <3>3. RowFits(s, E, r.branch, row)
      BY <2>2, <3>1, <3>2 DEF TablesFit
    <3>4. r.type # "session.forked" => row \in BranchRow
      BY <2>4, <3>3 DEF RowFits, Ready
    <3>5. QED
      BY <3>2, <3>4, RowsExist
  <2>6. /\ Projected(t, e) \in Database
        /\ Projected(t, e).log = s.log /\ Projected(t, e).worker = s.worker
        /\ TablesFit(s, E \cup {e}, Projected(t, e))
    BY <1>3, <1>4, <1>5, <2>2, <2>3, <2>4, <2>5, TablesStep DEF Ready
  <2>7. QED
    BY <1>4, <2>1, <2>6 DEF Made
<1>8. QED
  BY <1>6, <1>7
\* The rebuild makes the tables of all events of the log, or fails.
LEMMA RebuiltIsMade ==
  ASSUME NEW s, Sound(s), Placed(s)
  PROVE  Made(s, Len(s.log), Rebuilt(s))
<1> DEFINE replayed[n \in 0 .. Len(s.log)] ==
             IF n = 0 THEN Cleared(s)
             ELSE LET t == replayed[n - 1]
                      e == CHOOSE x \in Event(s) :
                             Cardinality({y \in Event(s) : Before(s, y, x)}) = n - 1
                  IN  IF t = Failed \/ Raises(t, t.log[e]) THEN Failed ELSE Projected(t, e)
<1>0. Rebuilt(s) = replayed[Len(s.log)]
  BY DEF Rebuilt, Replay
<1>1. s \in Database /\ Len(s.log) \in Nat
  BY EventsOf DEF Sound
<1>2. PICK N \in Nat : N = Len(s.log)
  BY <1>1
<1>3. PICK V : V = Database \cup {Failed}
  OBVIOUS
<1>4. \A n, t : Made(s, n, t) => t \in V
  BY <1>3 DEF Made
<1>5. PICK a \in V : a = Cleared(s)
  BY <1>1, <1>4, ClearedIsMade
<1>6. PICK F : F = [p \in (1 .. N) \X V |->
                      IF Turn(s, p[1], p[2]) \in V THEN Turn(s, p[1], p[2]) ELSE Failed]
  OBVIOUS
<1>7. F \in [(1 .. N) \X V -> V]
  BY <1>3, <1>6
<1>8. PICK g \in [0 .. N -> V] : Follows(g, N, a, F)
  BY <1>7, Recursion
<1>9. ASSUME NEW k \in 1 .. N, Made(s, k - 1, g[k - 1])
      PROVE  g[k] = Turn(s, k, g[k - 1]) /\ Made(s, k, g[k])
  <2>1. PICK t \in V : t = g[k - 1]
    BY <1>4, <1>9
  <2>2. Made(s, k, Turn(s, k, t))
    BY <1>2, <1>9, <2>1, TurnIsMade
  <2>3. Turn(s, k, t) \in V
    BY <1>4, <2>2
  <2>4. <<k, t>> \in (1 .. N) \X V
    OBVIOUS
  <2>5. F[<<k, t>>] = Turn(s, k, t)
    BY <1>6, <2>3, <2>4
  <2>6. g[k] = F[<<k, t>>]
    BY <1>8, <2>1 DEF Follows
  <2>7. QED
    BY <2>1, <2>2, <2>5, <2>6
<1> DEFINE P == {k \in 0 .. N : Made(s, k, g[k])}
<1>10. \A k \in 0 .. N : (\A i \in 0 .. N : i < k => i \in P) => k \in P
  <2> TAKE k \in 0 .. N
  <2> HAVE \A i \in 0 .. N : i < k => i \in P
  <2>1. CASE k = 0
    <3>1. g[0] = Cleared(s)
      BY <1>5, <1>8 DEF Follows
    <3>2. Made(s, 0, g[0])
      BY <1>1, <3>1, ClearedIsMade
    <3>3. QED
      BY <2>1, <3>2
  <2>2. CASE k # 0
    <3>1. k \in 1 .. N /\ k - 1 \in 0 .. N /\ k - 1 < k
      BY <2>2
    <3>2. Made(s, k - 1, g[k - 1])
      BY <3>1
    <3>3. QED
      BY <1>9, <3>1, <3>2
  <2>3. QED
    BY <2>1, <2>2
<1>11. \A k \in 0 .. N : Made(s, k, g[k])
  <2> HIDE DEF P
  <2>1. 0 .. N \subseteq P
    BY <1>10, StrongInduction
  <2>2. QED
    BY <2>1 DEF P
<1>12. g[0] = Cleared(s) /\ \A k \in 1 .. N : g[k] = Turn(s, k, g[k - 1])
  <2>1. \A k \in 1 .. N : k - 1 \in 0 .. N
    OBVIOUS
  <2>2. QED
    BY <1>5, <1>8, <1>9, <1>11, <2>1 DEF Follows
<1> HIDE DEF P
<1>13. g = [n \in 0 .. Len(s.log) |->
              IF n = 0 THEN Cleared(s)
              ELSE LET t == g[n - 1]
                       e == CHOOSE x \in Event(s) :
                              Cardinality({y \in Event(s) : Before(s, y, x)}) = n - 1
                   IN  IF t = Failed \/ Raises(t, t.log[e]) THEN Failed ELSE Projected(t, e)]
  <2>1. \A n \in 0 .. N : n # 0 => n \in 1 .. N
    OBVIOUS
  <2>2. \A n \in 0 .. N : g[n] = IF n = 0 THEN Cleared(s) ELSE Turn(s, n, g[n - 1])
    BY <1>12, <2>1
  <2>3. g = [n \in 0 .. N |-> g[n]]
    BY <1>8
  <2>4. g = [n \in 0 .. N |-> IF n = 0 THEN Cleared(s) ELSE Turn(s, n, g[n - 1])]
    BY <2>2, <2>3
  <2>5. QED
    BY <1>2, <2>4, Zenon DEF Turn, Position, Rank, Earlier
<1>14. replayed = [n \in 0 .. Len(s.log) |->
              IF n = 0 THEN Cleared(s)
              ELSE LET t == replayed[n - 1]
                       e == CHOOSE x \in Event(s) :
                              Cardinality({y \in Event(s) : Before(s, y, x)}) = n - 1
                   IN  IF t = Failed \/ Raises(t, t.log[e]) THEN Failed ELSE Projected(t, e)]
  BY <1>13, Zenon
<1> HIDE DEF replayed
<1>15. /\ replayed[0] = Cleared(s)
       /\ \A k \in 1 .. N : replayed[k] = Turn(s, k, replayed[k - 1])
  <2>1. 0 \in 0 .. N /\ \A k \in 1 .. N : k \in 0 .. N /\ k # 0
    OBVIOUS
  <2>2. replayed = [n \in 0 .. N |-> IF n = 0 THEN Cleared(s) ELSE Turn(s, n, replayed[n - 1])]
    BY <1>2, <1>14, Zenon DEF Turn, Position, Rank, Earlier
  <2>3. QED
    BY <2>1, <2>2
<1>16. 0 .. N \subseteq {k \in 0 .. N : replayed[k] = g[k]}
  <2> DEFINE S == {k \in 0 .. N : replayed[k] = g[k]}
  <2>1. \A k \in 0 .. N : (\A i \in 0 .. N : i < k => i \in S) => k \in S
    <3> TAKE k \in 0 .. N
    <3> HAVE \A i \in 0 .. N : i < k => i \in S
    <3>1. CASE k = 0
      BY <1>12, <1>15, <3>1
    <3>2. CASE k # 0
      <4>1. k \in 1 .. N /\ k - 1 \in 0 .. N /\ k - 1 < k
        BY <3>2
      <4>2. replayed[k - 1] = g[k - 1]
        BY <4>1
      <4>3. replayed[k] = Turn(s, k, replayed[k - 1]) /\ g[k] = Turn(s, k, g[k - 1])
        BY <1>12, <1>15, <4>1
      <4>4. QED
        BY <4>2, <4>3
    <3>3. QED
      BY <3>1, <3>2
  <2> HIDE DEF S
  <2>2. 0 .. N \subseteq S
    BY <2>1, StrongInduction
  <2>3. QED
    BY <2>2 DEF S
<1>17. replayed[N] = g[N] /\ Made(s, N, g[N])
  <2>1. N \in 0 .. N
    OBVIOUS
  <2>2. QED
    BY <1>11, <1>16, <2>1
<1>18. QED
  BY <1>0, <1>2, <1>17

\* The tables of a set of events are determined by it, but for what forks took over.
LEMMA FitsIsUnique ==
  ASSUME NEW s, NEW E, NEW t \in Database, NEW u \in Database,
         TablesFit(s, E, t), TablesFit(s, E, u)
  PROVE  /\ t.branch = u.branch
         /\ {row \in t.claims : row.from = NoBranch} = {row \in u.claims : row.from = NoBranch}
<1>1. ASSUME NEW b \in Branch, NEW old, NEW new, RowFits(s, E, b, old), RowFits(s, E, b, new)
      PROVE  old = new
  <2>1. CASE b # Main /\ \A f \in E : ~ Forks(s, f, b)
    BY <1>1, <2>1 DEF RowFits
  <2>2. CASE ~ (b # Main /\ \A f \in E : ~ Forks(s, f, b))
    <3>1. old \in BranchRow /\ new \in BranchRow
      BY <1>1, <2>2 DEF RowFits
    <3>2. old.open <=> new.open
      BY <1>1, <2>2 DEF RowFits
    <3>3. old.parent = new.parent /\ old.fork = new.fork
      BY <1>1, <2>2 DEF RowFits
    <3>4. old.open = new.open
      BY <3>1, <3>2 DEF BranchRow
    <3>5. QED
      BY <3>1, <3>3, <3>4 DEF BranchRow
  <2>3. QED
    BY <2>1, <2>2
<1>2. \A b \in Branch : t.branch[b] = u.branch[b]
  BY <1>1 DEF TablesFit
<1>3. /\ t.branch \in [Branch -> BranchRow \cup {NoRow}]
      /\ u.branch \in [Branch -> BranchRow \cup {NoRow}]
  BY DEF Database
<1>4. t.branch = u.branch
  BY <1>2, <1>3
<1>5. QED
  BY <1>4 DEF TablesFit

-----------------------------------------------------------------------------
(* Theorems *)

\* Every step, of whichever process, leaves the story sound and its events placed.
LEMMA StoryIsKept ==
  ASSUME Story, Placement, [Next]_vars
  PROVE  Story' /\ Placement'
<1>1. ASSUME NEW p \in Operator,
             Ask(p) \/ Request(p) \/ Curate(p) \/ Checkpoint(p) \/ Archive(p) \/ RequestEdit(p)
      PROVE  Story' /\ Placement'
  <2>1. p \in Proc
    BY DEF Proc
  <2>2. QED
    BY <1>1, <2>1, AskKeeps, RequestKeeps, CurateKeeps, CheckpointKeeps, ArchiveKeeps,
       EditKeeps, Zenon
<1>2. ASSUME NEW p \in Worker, Answer(p) \/ DetectClaim(p) \/ Nominate(p)
      PROVE  Story' /\ Placement'
  <2>1. p \in Proc
    BY DEF Proc
  <2>2. QED
    BY <1>2, <2>1, AnswerKeeps, DetectKeeps, NominateKeeps, Zenon
<1>3. ASSUME NEW p \in Proc, Fork(p) \/ Commit(p)
      PROVE  Story' /\ Placement'
  BY <1>3, ForkKeeps, CommitKeeps, Zenon
<1>4. ASSUME UNCHANGED vars
      PROVE  Story' /\ Placement'
  <2>1. db' = db /\ clock' = clock /\ draft' = draft
    BY <1>4 DEF vars
  <2>2. QED
    BY <2>1 DEF Story, Placement
<1>5. CASE Next
  BY <1>1, <1>2, <1>3, <1>5, ApproveKeeps, AppendPromotionKeeps, Zenon DEF Next
<1>6. QED
  BY <1>4, <1>5

\* The inductive invariant: the log, the branches, the claims and the drafts of
\* services._append and Store.append fit together, and every event is in its place,
\* whoever writes in between.
THEOREM NarrativeInvariant == Spec => [](Story /\ Placement)
<1>1. Init => Story /\ Placement
  BY InitIsSound, InitIsPlaced
<1>2. Story /\ Placement /\ [Next]_vars => Story' /\ Placement'
  BY StoryIsKept
<1>3. QED
  BY <1>1, <1>2, PTL DEF Spec

\* The database, the clock and the drafts are what their types say.
THEOREM NarrativeTypes == Spec => []NarrativeTypeOK
<1>1. Story => NarrativeTypeOK
  BY DEF Story, Sound, NarrativeTypeOK
<1>2. QED
  BY <1>1, NarrativeInvariant, PTL

\* No writer makes canon but the human (approve_canon_candidate, and the check of
\* a promotion in Store.append): a canonical claim, also one that a fork took over,
\* was approved for this very claim on the branch where it moved, and before it
\* moved; and no candidate is approved twice.
THEOREM CanonByHuman == Spec => []CanonIsHuman
<1>1. ASSUME Story
      PROVE  CanonIsHuman
  <2>1. Sound(db) /\ LogSound(db) /\ ClaimsSound(db)
    BY <1>1 DEF Story, Sound
  <2>2. ASSUME NEW row \in db.claims, row.status = "canonical"
        PROVE  \E k \in Event(db) :
                 /\ Is(db, k, "human.keep") /\ db.log[k].claim = row.claim
                 /\ k <= row.last /\ db.log[k].branch = db.log[row.last].branch
                 /\ Is(db, db.log[k].target, "analysis.canon_candidate")
                 /\ db.log[db.log[k].target].claim = row.claim
                 /\ row.from = NoBranch => db.log[k].branch = row.branch
    <3>1. /\ Backed(db, row.claim, row.last)
          /\ row.from = NoBranch => db.log[row.last].branch = row.branch
      BY <2>1, <2>2 DEF ClaimsSound
    <3>2. QED
      BY <3>1 DEF Backed
  <2>3. ASSUME NEW e \in Event(db), Is(db, e, "analysis.canon_candidate")
        PROVE  Cardinality(Approvals(db, e)) <= 1
    <3>1. ASSUME NEW x \in Approvals(db, e), NEW y \in Approvals(db, e)
          PROVE  x = y
      BY <2>1, <2>3 DEF LogSound, Approvals
    <3>2. CASE Approvals(db, e) = {}
      BY <3>2, FS_EmptySet
    <3>3. ASSUME NEW x \in Approvals(db, e)
          PROVE  Cardinality(Approvals(db, e)) <= 1
      <4>1. Approvals(db, e) = {x}
        BY <3>1
      <4>2. Cardinality({x}) = 1
        BY FS_Singleton
      <4>3. QED
        BY <4>1, <4>2
    <3>4. QED
      BY <3>2, <3>3
  <2>4. QED
    BY <2>2, <2>3 DEF CanonIsHuman
<1>2. QED
  BY <1>1, NarrativeInvariant, PTL

\* The branches are apart (branching.py: fork, and what _append and _last_event of
\* services.py hang an event on): the history of an event resolves from its branch,
\* and what it holds of other branches was there when the branch was forked, however
\* many processes write and however their appends interleave.
THEOREM BranchesAreApart == Spec => []StoryInv
<1>1. Story /\ Placement => StoryInv
  <2>1. ASSUME Story, Placement
        PROVE  StoryInv
    <3>1. Sound(db) /\ LinesSound(db)
      BY <2>1 DEF Story, Placement, Placed
    <3>2. ForkIsolation
      BY <3>1, LinesAreApart
    <3>3. NarrativeTypeOK
      BY <2>1 DEF Story, Sound, NarrativeTypeOK
    <3>4. QED
      BY <3>2, <3>3 DEF StoryInv
  <2>2. QED
    BY <2>1
<1>2. QED
  BY <1>1, NarrativeInvariant, PTL

\* Where the rebuild of the projections (projections.py and store.py) gets through the
\* log as it is sorted by created_at, it makes the branches and the claims detected or
\* judged on them that the appends made in the order of the commits: the two orders
\* differ, but not where one event bears on another.
THEOREM RebuildIsTheSame == Spec => []RebuildAgrees
<1>1. Story /\ Placement => RebuildAgrees
  <2>1. SUFFICES ASSUME Story, Placement, Rebuilt(db) # Failed
                 PROVE  /\ Rebuilt(db).branch = db.branch
                        /\ {row \in Rebuilt(db).claims : row.from = NoBranch}
                             = {row \in db.claims : row.from = NoBranch}
    BY DEF RebuildAgrees
  <2>2. PICK t : t = Rebuilt(db)
    OBVIOUS
  <2>3. Sound(db) /\ Placed(db) /\ db \in Database
    BY <2>1 DEF Story, Placement, Sound
  <2>4. Made(db, Len(db.log), t)
    BY <2>2, <2>3, RebuiltIsMade
  <2>5. t \in Database /\ TablesFit(db, Event(db), t)
    BY <2>1, <2>2, <2>3, <2>4, FirstOnesAre DEF Made
  <2>6. TablesFit(db, Event(db), db)
    BY <2>3 DEF Placed
  <2>7. QED
    BY <2>2, <2>3, <2>5, <2>6, FitsIsUnique
<1>2. QED
  BY <1>1, NarrativeInvariant, PTL

-------------------------------------------------------------------------------
(* The tools that are called *)

Phases == {"new", "waiting", "claimed", "parked", "settled"}

\* What follows s has all of s at its place.
Continues(t, s) ==
  DOMAIN s \subseteq DOMAIN t /\ \A i \in DOMAIN s : t[i] = s[i]

\* What is recorded stays, and no job is new again.
ChainGrows ==
  /\ \A j \in Job : phase[j] # "new" => phase'[j] # "new"
  /\ \A j \in Job : Requested(j) => event'[j] = event[j]
  /\ \A t \in ToolJob : /\ Continues(results'[t], results[t])
                        /\ Continues(billed'[t], billed[t])
                        /\ Continues(adapters'[t], adapters[t])
  /\ \A o \in OracleJob : /\ output[o] # "none" => output'[o] = output[o]
                          /\ intents[o] <= intents'[o]
  /\ stops \subseteq stops'

QueueTyped ==
  /\ phase \in [Job -> Phases] /\ holder \in [Job -> Runner \cup {NoRunner}]
  /\ ClaimsHeld

\* The queue after a step: typed, and the jobs that were added or settled by it.
QueueMoves(added, settled) ==
  /\ phase' \in [Job -> Phases] /\ holder' \in [Job -> Runner \cup {NoRunner}]
  /\ ClaimsHeld'
  /\ \A j \in Job : phase[j] # "new" => phase'[j] # "new"
  /\ \A j \in Job : phase[j] = "new" /\ phase'[j] # "new" => j \in added
  /\ \A j \in Job : phase'[j] = "settled" /\ phase[j] # "settled" => j \in settled

\* The hand of one process goes on, the others stay.
HandGoes(w, step, job, item, adapter, next) ==
  /\ hand' \in [Runner -> HandState]
  /\ hand'[w].step = step /\ hand'[w].job = job /\ hand'[w].item = item
  /\ hand'[w].adapter = adapter /\ hand'[w].next = next
  /\ \A v \in Runner \ {w} : hand'[v] = hand[v]

-----------------------------------------------------------------------------
(* The queue *)

\* A job that is enqueued is the only one that is added, and no claim changes.
LEMMA SubmitMoves ==
  ASSUME QueueTyped, NEW j \in Job, Submit(j)
  PROVE  QueueMoves({j}, {}) /\ phase'[j] # "new" /\ holder' = holder
BY DEF QueueTyped, QueueMoves, Submit, ClaimsHeld, Phases

\* Nothing is added or settled where the queue stays as it is.
LEMMA QueueStays ==
  ASSUME QueueTyped, UNCHANGED claimVars
  PROVE  QueueMoves({}, {}) /\ holder' = holder
BY DEF QueueTyped, QueueMoves, claimVars, ClaimsHeld

\* What is enqueued by a handler is there, unless its policy asks the operator.
LEMMA EnqueueMoves ==
  ASSUME QueueTyped, NEW j \in Job, EnqueueOnce(j)
  PROVE  QueueMoves({j}, {}) /\ (j \in Asks \/ phase'[j] # "new") /\ holder' = holder
<1>1. CASE phase[j] = "new" /\ j \notin Asks
  BY <1>1, SubmitMoves DEF EnqueueOnce
<1>2. CASE ~(phase[j] = "new" /\ j \notin Asks)
  <2>1. UNCHANGED claimVars
    BY <1>2 DEF EnqueueOnce
  <2>2. phase' = phase /\ QueueMoves({}, {}) /\ holder' = holder
    BY <2>1, QueueStays DEF claimVars
  <2>3. QED
    BY <1>2, <2>2 DEF QueueMoves
<1>3. QED
  BY <1>1, <1>2

\* A claim adds no job and settles none, and takes none away.
LEMMA ClaimMoves ==
  ASSUME QueueTyped, NEW w \in Runner, NEW j \in Job, Claim(w, j, {}, {})
  PROVE  /\ QueueMoves({}, {})
         /\ phase[j] = "waiting" /\ holder[j] = NoRunner
         /\ holder'[j] = w /\ \A k \in Job \ {j} : holder'[k] = holder[k]
BY ToolAssumption
   DEF QueueTyped, QueueMoves, Claim, Lapsed, LapsedHolder, Lapsing, ClaimsHeld, Phases

\* A release settles at most the job that is released.
LEMMA ReleaseMoves ==
  ASSUME QueueTyped, NEW w \in Runner, NEW j \in Job,
         NEW outcome \in {"waiting", "parked", "settled"}, Release(w, j, outcome)
  PROVE  /\ QueueMoves({}, {j})
         /\ outcome # "settled" => QueueMoves({}, {})
         /\ holder[j] = w /\ \A k \in Job \ {j} : holder'[k] = holder[k]
BY ToolAssumption DEF QueueTyped, QueueMoves, Release, ClaimsHeld, Phases

\* A lapse adds no job and settles none.
LEMMA LapseMoves ==
  ASSUME QueueTyped, NEW j \in Job, Lapse({j}, {}) \/ Lapse({}, {j})
  PROVE  QueueMoves({}, {}) /\ \A k \in Job \ {j} : holder'[k] = holder[k]
BY ToolAssumption
   DEF QueueTyped, QueueMoves, Lapse, Lapsed, LapsedHolder, Lapsing, ClaimsHeld, Phases

\* An operator's retry adds no job and settles none.
LEMMA ReviveMoves ==
  ASSUME QueueTyped, NEW j \in Job, Revive(j)
  PROVE  QueueMoves({}, {}) /\ holder' = holder
BY DEF QueueTyped, QueueMoves, Revive, ClaimsHeld, Phases

\* What the invariant says of the queue.
LEMMA StoryQueue ==
  ASSUME ToolStory
  PROVE  QueueTyped /\ ToolTypeOK
BY DEF ToolStory, QueueTyped, ToolTypeOK, Phases

\* The queue of a process that loses its job stays typed.
LEMMA QueueAfter ==
  ASSUME QueueTyped, NEW added, NEW settled, QueueMoves(added, settled)
  PROVE  QueueTyped'
BY DEF QueueTyped, QueueMoves

-----------------------------------------------------------------------------
(* The hands *)

\* A process that goes on with what it has in hand.
LEMMA GoToGoes ==
  ASSUME ToolTypeOK, NEW w \in Runner, NEW step \in Steps, GoTo(w, step)
  PROVE  HandGoes(w, step, Mine(w), hand[w].item, hand[w].adapter, hand[w].next)
BY DEF ToolTypeOK, HandGoes, HandState, GoTo, Proceed, Mine

\* A process that goes on afresh with its job.
LEMMA AfreshGoes ==
  ASSUME ToolTypeOK, NEW w \in Runner, NEW step \in Steps, NEW next \in Job \cup {NoJob},
         Proceed(w, [Afresh(w, step) EXCEPT !.next = next])
  PROVE  HandGoes(w, step, Mine(w), 0, 0, next)
BY DEF ToolTypeOK, HandGoes, HandState, Proceed, Afresh, IdleHand, Mine

LEMMA ReturnGoes ==
  ASSUME ToolTypeOK, NEW w \in Runner, NEW step \in Steps, Proceed(w, Afresh(w, step))
  PROVE  HandGoes(w, step, Mine(w), 0, 0, NoJob)
BY DEF ToolTypeOK, HandGoes, HandState, Proceed, Afresh, IdleHand, Mine

\* A process that leaves its job.
LEMMA IdleGoes ==
  ASSUME ToolTypeOK, NEW w \in Runner, Proceed(w, IdleHand)
  PROVE  HandGoes(w, "idle", NoJob, 0, 0, NoJob)
BY DEF ToolTypeOK, HandGoes, HandState, Proceed, IdleHand, Steps

\* A process that goes on with another result, intent or adapter.
LEMMA ItemGoes ==
  ASSUME ToolTypeOK, NEW w \in Runner, NEW step \in Steps, NEW item \in Nat,
         Proceed(w, [hand[w] EXCEPT !.step = step, !.item = item])
  PROVE  HandGoes(w, step, Mine(w), item, hand[w].adapter, hand[w].next)
BY DEF ToolTypeOK, HandGoes, HandState, Proceed, Mine

LEMMA AdapterGoes ==
  ASSUME ToolTypeOK, NEW w \in Runner, NEW step \in Steps, NEW adapter \in Nat,
         Proceed(w, [hand[w] EXCEPT !.step = step, !.adapter = adapter])
  PROVE  HandGoes(w, step, Mine(w), hand[w].item, adapter, hand[w].next)
BY DEF ToolTypeOK, HandGoes, HandState, Proceed, Mine
-----------------------------------------------------------------------------
(* What is recorded stays *)

LEMMA MembersGrow ==
  ASSUME NEW s, NEW t, Continues(t, s)
  PROVE  Members(s) \subseteq Members(t)
BY DEF Continues, Members

\* A step that records nothing leaves what is recorded.
LEMMA QuietGrows ==
  ASSUME UNCHANGED chainVars, \A j \in Job : phase[j] # "new" => phase'[j] # "new",
         ToolTypeOK
  PROVE  ChainGrows
BY DEF ChainGrows, chainVars, Continues, ToolTypeOK, OracleJob

LEMMA RequestedStays ==
  ASSUME ChainGrows, NEW j \in Job, Requested(j)
  PROVE  Requested(j)' /\ event'[j] = event[j]
BY DEF ChainGrows, Requested

LEMMA RequestsStay ==
  ASSUME ChainGrows, NEW c, NEW l, NEW n \in RequestsOf(c, l)
  PROVE  n \in RequestsOf(c, l)'
BY DEF ChainGrows, RequestsOf, Requested

LEMMA PassedStays ==
  ASSUME ChainGrows, NEW j \in ToolJob, NEW i, NEW k, Passed(j, i, k)
  PROVE  Passed(j, i, k)'
<1>1. /\ Continues(billed'[j], billed[j]) /\ Continues(adapters'[j], adapters[j])
  BY DEF ChainGrows
<1>2. i \in Members(billed'[j])
  BY <1>1, MembersGrow DEF Passed
<1>3. k \in DOMAIN adapters'[j] /\ adapters'[j][k] = i
  BY <1>1 DEF Passed, Continues
<1>4. QED
  BY <1>2, <1>3 DEF Passed

\* Once a job has done what it owed, it has done it.
LEMMA PassedOnStays ==
  ASSUME ToolTypeOK, ToolTypeOK', ResultsFit, ChainGrows, NEW j \in Job, PassedOn(j)
  PROVE  PassedOn(j)'
<1>1. CASE j \in ToolJob
  <2>1. PICK i \in Members(billed[j]) :
          IF results[j][i] = "error" THEN <<j, "tool_failure">> \in stops
          ELSE \/ \E reason \in {"max_depth", "budget_exhausted",
                                 "repeated_equivalent_event"} :
                    <<j, reason>> \in stops
               \/ \E k \in DOMAIN adapters[j] :
                    /\ adapters[j][k] = i
                    /\ \E o \in RequestsOf(j, k) : phase[o] # "new"
    BY <1>1 DEF PassedOn
  <2>2. /\ Continues(billed'[j], billed[j]) /\ Continues(adapters'[j], adapters[j])
        /\ Continues(results'[j], results[j]) /\ stops \subseteq stops'
    BY <1>1 DEF ChainGrows
  <2>3. i \in DOMAIN results[j]
    BY <1>1 DEF ResultsFit, Members
  <2>4. i \in Members(billed'[j]) /\ results'[j][i] = results[j][i]
    BY <2>2, <2>3, MembersGrow DEF Continues
  <2>5. CASE \E k \in DOMAIN adapters[j] :
               /\ adapters[j][k] = i
               /\ \E o \in RequestsOf(j, k) : phase[o] # "new"
    <3>1. PICK k \in DOMAIN adapters[j] :
            /\ adapters[j][k] = i
            /\ \E o \in RequestsOf(j, k) : phase[o] # "new"
      BY <2>5
    <3>2. PICK o \in RequestsOf(j, k) : phase[o] # "new"
      BY <3>1
    <3>3. o \in RequestsOf(j, k)' /\ phase'[o] # "new"
      BY <3>2, RequestsStay DEF ChainGrows, RequestsOf
    <3>4. k \in DOMAIN adapters'[j] /\ adapters'[j][k] = i
      BY <2>2, <3>1 DEF Continues
    <3>5. QED
      BY <1>1, <2>1, <2>2, <2>4, <3>3, <3>4 DEF PassedOn
  <2>6. CASE ~ \E k \in DOMAIN adapters[j] :
                 /\ adapters[j][k] = i
                 /\ \E o \in RequestsOf(j, k) : phase[o] # "new"
    BY <1>1, <2>1, <2>2, <2>4, <2>6 DEF PassedOn
  <2>7. QED
    BY <2>5, <2>6
<1>2. CASE j \notin ToolJob
  <2>1. j \in OracleJob
    BY <1>2 DEF OracleJob
  <2>2. CASE output[j] = "plain"
    BY <1>2, <2>1, <2>2 DEF PassedOn, ChainGrows
  <2>3. CASE output[j] # "plain"
    <3>1. PICK i \in 1 .. intents[j] :
            \/ \E t \in RequestsOf(j, i) : t \in Asks \/ phase[t] # "new"
            \/ <<j, "budget_exhausted">> \in stops
      BY <1>2, <2>3 DEF PassedOn
    <3>2. i \in 1 .. intents'[j]
      <4>1. /\ intents[j] \in Nat /\ intents'[j] \in Nat
            /\ intents[j] <= intents'[j]
        BY <2>1 DEF ChainGrows, ToolTypeOK
      <4>2. QED
        BY <4>1
    <3>3. CASE <<j, "budget_exhausted">> \in stops
      BY <1>2, <3>2, <3>3 DEF PassedOn, ChainGrows
    <3>4. CASE <<j, "budget_exhausted">> \notin stops
      <4>1. PICK t \in RequestsOf(j, i) : t \in Asks \/ phase[t] # "new"
        BY <3>1, <3>4
      <4>2. t \in RequestsOf(j, i)' /\ (t \in Asks \/ phase'[t] # "new")
        BY <4>1, RequestsStay DEF ChainGrows, RequestsOf
      <4>3. QED
        BY <1>2, <3>2, <4>2 DEF PassedOn
    <3>5. QED
      BY <3>3, <3>4
  <2>4. QED
    BY <2>2, <2>3
<1>3. QED
  BY <1>1, <1>2

\* What was owed is owed.
LEMMA NextStays ==
  ASSUME ToolTypeOK, ChainGrows, NEW j \in Job, NEW n, IsNext(j, n)
  PROVE  IsNext(j, n)'
<1>1. n \in Job /\ Requested(n)' /\ event'[n] = event[n] /\ event[n].cause = j
  BY RequestedStays DEF IsNext
<1>2. CASE j \in ToolJob
  <2>1. PICK i \in Members(billed[j]) : Passed(j, i, event[n].link)
    BY <1>2 DEF IsNext
  <2>2. Passed(j, i, event[n].link)'
    BY <1>1, <1>2, <2>1, PassedStays
  <2>3. Passed(j, i, event[n].link)' => i \in Members(billed[j])'
    BY DEF Passed
  <2>4. QED
    BY <1>1, <2>2, <2>3 DEF IsNext
<1>3. CASE j \notin ToolJob
  BY <1>1, <1>3 DEF IsNext
<1>4. QED
  BY <1>2, <1>3

\* What fits a hand fits it as long as it stays, since what is recorded only grows.
LEMMA HandStays ==
  ASSUME ToolTypeOK, ToolTypeOK', ResultsFit, ChainGrows, NEW w \in Runner,
         HandFits(w), hand'[w] = hand[w]
  PROVE  HandFits(w)'
<1>0. PICK j, i, k, n : /\ j = Mine(w) /\ i = hand[w].item
                        /\ k = hand[w].adapter /\ n = hand[w].next
  OBVIOUS
<1>1. CASE hand[w].step = "idle"
  BY <1>1 DEF HandFits, Mine, ToolSteps, OracleSteps
<1>2. CASE hand[w].step # "idle"
  <2>0. j \in Job /\ Requested(j)
    BY <1>0, <1>2 DEF HandFits, Mine
  <2>1. Mine(w)' = j /\ Requested(j)' /\ event'[j] = event[j]
    BY <1>0, <2>0, RequestedStays DEF Mine
  <2>2. j \in ToolJob => /\ Continues(results'[j], results[j])
                         /\ Members(billed[j]) \subseteq Members(billed'[j])
    BY MembersGrow DEF ChainGrows
  <2>3. j \in ToolJob /\ Passed(j, i, k) => Passed(j, i, k)'
    BY PassedStays
  <2>4. PassedOn(j) => PassedOn(j)'
    BY <2>0, PassedOnStays
  <2>5. IsNext(j, n) => IsNext(j, n)'
    BY <2>0, NextStays
  <2>6. j \in OracleJob => /\ output[j] # "none" => output'[j] # "none"
                           /\ i \in 1 .. intents[j] => i \in 1 .. intents'[j]
    <3>1. j \in OracleJob => /\ intents[j] \in Nat /\ intents'[j] \in Nat
                             /\ intents[j] <= intents'[j]
      BY DEF ToolTypeOK, ChainGrows
    <3>2. QED
      BY <3>1 DEF ChainGrows
  <2>7. Mine(w)' \in Job /\ Mine(w)' # NoJob
    BY <2>0, <2>1, ToolAssumption DEF NoJob
  <2>8. /\ hand[w].step \in ToolSteps => j \in ToolJob
        /\ hand[w].step \in OracleSteps => j \in OracleJob
    BY <1>0 DEF HandFits, Mine
  <2>9. /\ hand[w].step \in {"usage", "bill", "judge", "adapt", "continue", "request"} =>
             i \in DOMAIN results'[j] /\ results'[j][i] = results[j][i]
        /\ hand[w].step \in {"judge", "adapt", "continue", "request"} =>
             i \in Members(billed'[j])
    BY <1>0, <2>2, <2>8 DEF HandFits, Mine, Continues, ToolSteps
  <2>10. hand[w].step \in {"continue", "request"} => Passed(j, i, k)'
    BY <1>0, <2>3, <2>8 DEF HandFits, Mine, ToolSteps
  <2>11. /\ hand[w].step \in {"analyse", "propose", "dispatch", "ask"} => output'[j] # "none"
         /\ hand[w].step \in {"dispatch", "ask"} => i \in 1 .. intents'[j]
    BY <1>0, <2>6, <2>8 DEF HandFits, Mine, OracleSteps
  <2>12. /\ hand[w].step = "enqueue" => IsNext(j, n)'
         /\ hand[w].step = "return" => PassedOn(j)'
    BY <1>0, <2>4, <2>5 DEF HandFits, Mine
  <2>13. /\ hand[w].step = "adapt" => results[j][i] # "error"
         /\ hand[w].step = "request" => event[j].budget > 1
         /\ hand[w].step = "ask" => event[j].budget > 0
    BY <1>0 DEF HandFits, Mine
  <2>14. QED
    BY <1>0, <1>2, <2>1, <2>7, <2>8, <2>9, <2>10, <2>11, <2>12, <2>13
       DEF HandFits, Mine
<1>3. QED
  BY <1>1, <1>2

\* A step keeps the invariant if what it records fits, and the hand it moves.
LEMMA StepKeeps ==
  ASSUME ToolStory, ToolTypeOK', ChainGrows, RequestsFit', LinksFit', ResultsFit',
         NEW added, NEW settled, QueueMoves(added, settled),
         \A j \in Job : j \in settled => PassedOn(j),
         \A w \in Runner : HandFits(w)' \/ hand'[w] = hand[w]
  PROVE  ToolStory'
<1>1. ClaimsHeld'
  BY DEF QueueMoves
<1>2. \A w \in Runner : HandFits(w)'
  BY HandStays DEF ToolStory
<1>3. ASSUME NEW j \in Job, phase'[j] = "settled"
      PROVE  PassedOn(j)'
  <2>1. PassedOn(j)
    BY <1>3 DEF QueueMoves, ToolStory, CompletedChainGoesOn
  <2>2. QED
    BY <2>1, PassedOnStays DEF ToolStory
<1>4. QED
  BY <1>1, <1>2, <1>3 DEF ToolStory, CompletedChainGoesOn

\* Where nothing is recorded, what is recorded fits as before.
LEMMA QuietFits ==
  ASSUME ToolStory, UNCHANGED chainVars,
         \A j \in Job : phase[j] = "new" => phase'[j] = "new" \/ Requested(j)
  PROVE  RequestsFit' /\ LinksFit' /\ ResultsFit'
<1>1. \A j \in Job : Requested(j)' <=> Requested(j)
  BY DEF chainVars, Requested
<1>2. RequestsFit'
  <2>1. event' = event /\ RequestsFit
    BY DEF chainVars, ToolStory
  <2>2. \A j \in Job : phase'[j] # "new" => Requested(j)
    BY <2>1 DEF RequestsFit
  <2>3. Root \in Job /\ (Requested(Root)' <=> Requested(Root))
    BY <1>1, ToolAssumption
  <2>4. ASSUME NEW j \in Job \ {Root}, Requested(j)'
        PROVE  /\ event'[j].cause \in Job /\ Requested(event[j].cause)'
               /\ j \in ToolJob <=> event'[j].cause \in OracleJob
    <3>1. PICK c \in Job : c = event[j].cause /\ Requested(c)
      BY <1>1, <2>1, <2>4 DEF RequestsFit
    <3>2. QED
      BY <1>1, <2>1, <2>4, <3>1 DEF RequestsFit
  <2>5. QED
    BY <1>1, <2>1, <2>2, <2>3, <2>4 DEF RequestsFit
<1>3. LinksFit'
  BY <1>1 DEF ToolStory, LinksFit, chainVars
<1>4. ResultsFit'
  BY DEF ToolStory, ResultsFit, chainVars
<1>5. QED
  BY <1>2, <1>3, <1>4

\* A step that records nothing keeps the invariant, if the hand it moves fits.
LEMMA QuietKeeps ==
  ASSUME ToolStory, UNCHANGED <<chainVars>>, NEW added, NEW settled,
         QueueMoves(added, settled), hand' \in [Runner -> HandState],
         faults' \in 0 .. MaxFaults, overdue' \in 0 .. MaxOverdue,
         \A j \in Job : j \in added => Requested(j),
         \A j \in Job : j \in settled => PassedOn(j),
         \A w \in Runner : HandFits(w)' \/ hand'[w] = hand[w]
  PROVE  ToolStory'
<1>1. ToolTypeOK'
  BY DEF ToolStory, ToolTypeOK, chainVars, QueueMoves, Phases
<1>2. ChainGrows
  BY QuietGrows, StoryQueue DEF QueueMoves
<1>3. RequestsFit' /\ LinksFit' /\ ResultsFit'
  BY QuietFits DEF QueueMoves
<1>4. QED
  BY <1>1, <1>2, <1>3, StepKeeps

\* A handler looks: it goes on with its job in hand, and the queue stays.
LEMMA LooksKeeps ==
  ASSUME ToolStory, UNCHANGED <<loopVars, chainVars>>, NEW w \in Runner,
         hand' \in [Runner -> HandState], \A v \in Runner \ {w} : hand'[v] = hand[v],
         HandFits(w)'
  PROVE  ToolStory'
<1>1. UNCHANGED claimVars /\ UNCHANGED chainVars /\ faults' = faults /\ overdue' = overdue
  BY DEF loopVars
<1>2. QueueMoves({}, {})
  BY <1>1, StoryQueue, QueueStays
<1>3. faults' \in 0 .. MaxFaults /\ overdue' \in 0 .. MaxOverdue
  BY <1>1, StoryQueue DEF ToolTypeOK
<1>4. QED
  BY <1>1, <1>2, <1>3, QuietKeeps

-----------------------------------------------------------------------------
(* The loop *)

\* An idle hand fits.
LEMMA IdleFits ==
  ASSUME NEW w \in Runner, hand'[w].step = "idle", hand'[w].job = NoJob
  PROVE  HandFits(w)'
BY DEF HandFits, Mine, ToolSteps, OracleSteps

\* So does one that has only its job.
LEMMA FreshFits ==
  ASSUME NEW w \in Runner, NEW j \in Job, Requested(j)', hand'[w].job = j,
         \/ hand'[w].step \in {"raised", "failing"}
         \/ hand'[w].step \in {"find", "execute"} /\ j \in ToolJob
         \/ hand'[w].step = "generate" /\ j \in OracleJob
         \/ hand'[w].step = "return" /\ PassedOn(j)'
         \/ hand'[w].step = "enqueue" /\ IsNext(j, hand'[w].next)
              /\ UNCHANGED chainVars
  PROVE  HandFits(w)'
<1>1. j # NoJob
  BY ToolAssumption DEF NoJob
<1>2. hand'[w].step = "enqueue" => IsNext(j, hand[w].next)'
  BY DEF IsNext, chainVars, Requested, Passed
<1>3. QED
  BY <1>1, <1>2 DEF HandFits, Mine, ToolSteps, OracleSteps

LEMMA TakeJobStep ==
  ASSUME ToolStory, NEW w \in Runner, NEW j \in Job, TakeJob(w, j)
  PROVE  ToolStory'
<1>1. QueueMoves({}, {}) /\ phase[j] = "waiting"
  BY StoryQueue, ClaimMoves DEF TakeJob
<1>2. PICK step : /\ step = IF j \in ToolJob THEN "find" ELSE "generate"
                  /\ Proceed(w, [IdleHand EXCEPT !.step = step, !.job = j])
  BY DEF TakeJob
<1>3. /\ hand' \in [Runner -> HandState]
      /\ hand'[w].step = step /\ hand'[w].job = j
      /\ \A v \in Runner \ {w} : hand'[v] = hand[v]
  BY <1>2, StoryQueue DEF ToolTypeOK, Proceed, IdleHand, HandState, Steps
<1>4. Requested(j) /\ UNCHANGED chainVars /\ faults' = faults /\ overdue' = overdue
  BY <1>1 DEF ToolStory, RequestsFit, TakeJob
<1>5. Requested(j)'
  BY <1>4 DEF Requested, chainVars
<1>6. HandFits(w)'
  BY <1>2, <1>3, <1>5, FreshFits DEF OracleJob
<1>7. faults' \in 0 .. MaxFaults /\ overdue' \in 0 .. MaxOverdue
  BY <1>4, StoryQueue DEF ToolTypeOK
<1>8. QED
  BY <1>1, <1>3, <1>4, <1>6, <1>7, QuietKeeps

\* A process has no claim on a job it does not have in hand but for its own.
LEMMA MineIsJob ==
  ASSUME ToolStory, NEW w \in Runner, hand[w].step # "idle"
  PROVE  Mine(w) \in Job /\ Requested(Mine(w))
BY DEF ToolStory, HandFits, Mine

\* A process that leaves the loop keeps the invariant.
LEMMA LeavesStep ==
  ASSUME ToolStory, NEW w \in Runner, LeavesLoop(w)
  PROVE  ToolStory'
<1>1. HandGoes(w, "idle", NoJob, 0, 0, NoJob) /\ UNCHANGED <<loopVars, chainVars>>
  BY StoryQueue, IdleGoes DEF LeavesLoop, Looks
<1>2. HandFits(w)'
  BY <1>1, IdleFits DEF HandGoes
<1>3. QED
  BY <1>1, <1>2, LooksKeeps DEF HandGoes

LEMMA AcknowledgeStep ==
  ASSUME ToolStory, NEW w \in Runner, Acknowledge(w)
  PROVE  ToolStory'
<1>1. CASE LeavesLoop(w)
  BY <1>1, LeavesStep
<1>2. CASE /\ Release(w, Mine(w), "settled")
           /\ Proceed(w, IdleHand) /\ UNCHANGED <<faults, overdue, chainVars>>
  <2>0. PICK j \in Job : j = Mine(w) /\ PassedOn(j)
    BY MineIsJob DEF Acknowledge, Handling, ToolStory, HandFits
  <2>1. QueueMoves({}, {j})
    BY <1>2, <2>0, StoryQueue, ReleaseMoves
  <2>2. HandGoes(w, "idle", NoJob, 0, 0, NoJob)
    BY <1>2, StoryQueue, IdleGoes
  <2>3. HandFits(w)'
    BY <2>2, IdleFits DEF HandGoes
  <2>4. faults' \in 0 .. MaxFaults /\ overdue' \in 0 .. MaxOverdue
    BY <1>2, StoryQueue DEF ToolTypeOK
  <2>5. QED
    BY <1>2, <2>0, <2>1, <2>2, <2>3, <2>4, QuietKeeps DEF HandGoes
<1>3. QED
  BY <1>1, <1>2 DEF Acknowledge

LEMMA StepRaisesStep ==
  ASSUME ToolStory, NEW w \in Runner, StepRaises(w)
  PROVE  ToolStory'
<1>1. HandGoes(w, "raised", Mine(w), 0, 0, NoJob)
  BY StoryQueue, ReturnGoes DEF StepRaises, Steps
<1>2. Mine(w) \in Job /\ Requested(Mine(w)) /\ UNCHANGED chainVars
  BY MineIsJob DEF StepRaises
<1>3. PICK j \in Job : j = Mine(w) /\ Requested(j)'
  BY <1>2 DEF Requested, chainVars
<1>4. HandFits(w)'
  BY <1>1, <1>3, FreshFits DEF HandGoes
<1>5. QueueMoves({}, {})
  BY StoryQueue, QueueStays DEF StepRaises
<1>6. faults' \in 0 .. MaxFaults /\ overdue' \in 0 .. MaxOverdue
  BY ToolAssumption, StoryQueue DEF StepRaises, ToolTypeOK
<1>7. QED
  BY <1>1, <1>2, <1>4, <1>5, <1>6, QuietKeeps DEF HandGoes

LEMMA FailJobStep ==
  ASSUME ToolStory, NEW w \in Runner, FailJob(w)
  PROVE  ToolStory'
<1>1. CASE LeavesLoop(w)
  BY <1>1, LeavesStep
<1>2. ASSUME NEW outcome \in {"waiting", "parked"}, Release(w, Mine(w), outcome),
             GoTo(w, "failing"), UNCHANGED <<faults, overdue, chainVars>>
      PROVE  ToolStory'
  <2>0. PICK j \in Job : j = Mine(w) /\ Requested(j)
    BY MineIsJob DEF FailJob, Handling
  <2>1. QueueMoves({}, {})
    BY <1>2, <2>0, StoryQueue, ReleaseMoves
  <2>2. HandGoes(w, "failing", j, hand[w].item, hand[w].adapter, hand[w].next)
    BY <1>2, <2>0, StoryQueue, GoToGoes DEF Steps
  <2>3. Requested(j)'
    BY <1>2, <2>0 DEF Requested, chainVars
  <2>4. HandFits(w)'
    BY <2>2, <2>3, FreshFits DEF HandGoes
  <2>5. faults' \in 0 .. MaxFaults /\ overdue' \in 0 .. MaxOverdue
    BY <1>2, StoryQueue DEF ToolTypeOK
  <2>6. QED
    BY <1>2, <2>1, <2>2, <2>4, <2>5, QuietKeeps DEF HandGoes
<1>3. QED
  BY <1>1, <1>2 DEF FailJob

LEMMA DieStep ==
  ASSUME ToolStory, NEW w \in Runner, Die(w)
  PROVE  ToolStory'
<1>1. HandGoes(w, "idle", NoJob, 0, 0, NoJob)
  BY StoryQueue, IdleGoes DEF Die
<1>2. HandFits(w)'
  BY <1>1, IdleFits DEF HandGoes
<1>3. QueueMoves({}, {})
  BY StoryQueue, QueueStays DEF Die
<1>4. faults' \in 0 .. MaxFaults /\ overdue' \in 0 .. MaxOverdue
  BY ToolAssumption, StoryQueue DEF Die, ToolTypeOK
<1>5. QED
  BY <1>1, <1>2, <1>3, <1>4, QuietKeeps DEF HandGoes, Die

LEMMA ExpireStep ==
  ASSUME ToolStory, NEW j \in Job, Expire(j)
  PROVE  ToolStory'
<1>1. QueueMoves({}, {})
  BY StoryQueue, LapseMoves DEF Expire
<1>2. overdue' \in 0 .. MaxOverdue
  BY ToolAssumption, StoryQueue DEF Expire, ToolTypeOK
<1>3. /\ UNCHANGED chainVars /\ hand' = hand /\ faults' \in 0 .. MaxFaults
      /\ hand' \in [Runner -> HandState]
  BY StoryQueue DEF Expire, ToolTypeOK
<1>4. QED
  BY <1>1, <1>2, <1>3, QuietKeeps

LEMMA RetryStep ==
  ASSUME ToolStory, NEW j \in Job, Retry(j)
  PROVE  ToolStory'
<1>1. QueueMoves({}, {})
  BY StoryQueue, ReviveMoves DEF Retry
<1>2. /\ UNCHANGED chainVars /\ hand' = hand /\ faults' \in 0 .. MaxFaults
      /\ overdue' \in 0 .. MaxOverdue /\ hand' \in [Runner -> HandState]
  BY StoryQueue DEF Retry, ToolTypeOK
<1>3. QED
  BY <1>1, <1>2, QuietKeeps

LEMMA ScheduleToolStep ==
  ASSUME ToolStory, NEW t \in ToolJob, ScheduleTool(t)
  PROVE  ToolStory'
<1>0. t \in Job
  BY ToolAssumption
<1>1. QueueMoves({t}, {})
  BY <1>0, StoryQueue, SubmitMoves DEF ScheduleTool
<1>2. /\ UNCHANGED chainVars /\ hand' = hand /\ faults' \in 0 .. MaxFaults
      /\ overdue' \in 0 .. MaxOverdue /\ hand' \in [Runner -> HandState]
  BY StoryQueue DEF ScheduleTool, ToolTypeOK
<1>3. QED
  BY <1>1, <1>2, QuietKeeps DEF ScheduleTool
-----------------------------------------------------------------------------
(* The handler of a tool job *)

\* What HandFits says, of a step and what is in hand for it.
Fits(step, j, i, k, n) ==
  /\ step # "idle" /\ j \in Job /\ Requested(j)
  /\ step \in ToolSteps => j \in ToolJob
  /\ step \in OracleSteps => j \in OracleJob
  /\ step \in {"usage", "bill", "judge", "adapt", "continue", "request"} =>
       i \in DOMAIN results[j]
  /\ step \in {"judge", "adapt", "continue", "request"} => i \in Members(billed[j])
  /\ step = "adapt" => results[j][i] # "error"
  /\ step \in {"continue", "request"} => Passed(j, i, k)
  /\ step = "request" => event[j].budget > 1
  /\ step \in {"analyse", "propose", "dispatch", "ask"} => output[j] # "none"
  /\ step \in {"dispatch", "ask"} => i \in 1 .. intents[j]
  /\ step = "ask" => event[j].budget > 0
  /\ step = "enqueue" => IsNext(j, n)
  /\ step = "return" => PassedOn(j)

LEMMA FitsHand ==
  ASSUME NEW w \in Runner, HandFits(w), hand[w].step # "idle"
  PROVE  Fits(hand[w].step, Mine(w), hand[w].item, hand[w].adapter, hand[w].next)
BY DEF HandFits, Fits, Mine

\* A hand fits after a step if its parts do.
LEMMA FitsAfter ==
  ASSUME NEW w \in Runner, NEW step, NEW j, NEW i, NEW k, NEW n,
         HandGoes(w, step, j, i, k, n), Fits(step, j, i, k, n)'
  PROVE  HandFits(w)'
<1>1. j # NoJob
  BY ToolAssumption DEF Fits, NoJob
<1>2. QED
  BY <1>1 DEF Fits, HandGoes, HandFits, Mine

\* Where nothing changes, what fits goes on to fit.
LEMMA FitsQuietly ==
  ASSUME UNCHANGED <<loopVars, chainVars>>, NEW step, NEW j, NEW i, NEW k, NEW n,
         Fits(step, j, i, k, n)
  PROVE  Fits(step, j, i, k, n)'
BY DEF Fits, loopVars, claimVars, chainVars, Requested, Passed, IsNext, PassedOn,
       RequestsOf

\* A look keeps the invariant if what is in hand then fits.
LEMMA LookKeeps ==
  ASSUME ToolStory, UNCHANGED <<loopVars, chainVars>>, NEW w \in Runner, NEW step,
         NEW j, NEW i, NEW k, NEW n, HandGoes(w, step, j, i, k, n), Fits(step, j, i, k, n)
  PROVE  ToolStory'
<1>1. HandFits(w)'
  BY FitsQuietly, FitsAfter
<1>2. QED
  BY <1>1, LooksKeeps DEF HandGoes

\* What a handler has in hand, and that it is of its kinds.
LEMMA InHand ==
  ASSUME ToolStory, NEW w \in Runner, hand[w].step # "idle"
  PROVE  /\ Fits(hand[w].step, Mine(w), hand[w].item, hand[w].adapter, hand[w].next)
         /\ Mine(w) \in Job /\ hand[w].item \in Nat /\ hand[w].adapter \in Nat
         /\ hand[w].next \in Job \cup {NoJob}
<1>1. hand[w] \in HandState
  BY DEF ToolStory, ToolTypeOK
<1>2. QED
  BY <1>1, FitsHand, MineIsJob DEF ToolStory, HandState

LEMMA FindResultStep ==
  ASSUME ToolStory, NEW w \in Runner, FindResult(w)
  PROVE  ToolStory'
<1>1. PICK j, i, k, n : j = Mine(w) /\ i = hand[w].item /\ k = hand[w].adapter
                        /\ n = hand[w].next
  OBVIOUS
<1>2. Fits("find", j, i, k, n) /\ j \in ToolJob /\ n \in Job \cup {NoJob} /\ k \in Nat
  BY <1>1, InHand DEF FindResult, Handling, Fits, ToolSteps
<1>3. CASE results[j] # <<>>
  <2>1. /\ Proceed(w, [hand[w] EXCEPT !.step = "usage", !.item = 1])
        /\ UNCHANGED <<loopVars, chainVars>>
    BY <1>1, <1>3 DEF FindResult, Looks
  <2>2. HandGoes(w, "usage", j, 1, k, n)
    BY <1>1, <2>1, StoryQueue, ItemGoes, Zenon DEF Steps
  <2>3. 1 \in DOMAIN results[j]
    <3>1. results[j] \in Seq(Signature \cup {"error"})
      BY <1>2, StoryQueue DEF ToolTypeOK
    <3>2. QED
      BY <1>3, <3>1
  <2>4. Fits("usage", j, 1, k, n)
    BY <1>2, <2>3 DEF Fits, ToolSteps, OracleSteps
  <2>5. QED
    BY <2>1, <2>2, <2>4, LookKeeps
<1>4. CASE results[j] = <<>>
  <2>1. /\ GoTo(w, "execute") /\ UNCHANGED <<loopVars, chainVars>>
    BY <1>1, <1>4 DEF FindResult, Looks, GoTo
  <2>2. HandGoes(w, "execute", j, i, k, n)
    BY <1>1, <2>1, StoryQueue, GoToGoes DEF Steps
  <2>3. Fits("execute", j, i, k, n)
    BY <1>2 DEF Fits, ToolSteps, OracleSteps
  <2>4. QED
    BY <2>1, <2>2, <2>3, LookKeeps
<1>5. QED
  BY <1>3, <1>4

LEMMA LookForUsageStep ==
  ASSUME ToolStory, NEW w \in Runner, LookForUsage(w)
  PROVE  ToolStory'
<1>1. PICK j, i, k, n : j = Mine(w) /\ i = hand[w].item /\ k = hand[w].adapter
                        /\ n = hand[w].next
  OBVIOUS
<1>2. Fits("usage", j, i, k, n)
  BY <1>1, InHand DEF LookForUsage, Handling
<1>3. UNCHANGED <<loopVars, chainVars>>
  BY DEF LookForUsage, Looks
<1>4. CASE i \in Members(billed[j])
  <2>1. GoTo(w, "judge")
    BY <1>1, <1>4 DEF LookForUsage, Looks, GoTo
  <2>2. HandGoes(w, "judge", j, i, k, n)
    BY <1>1, <2>1, StoryQueue, GoToGoes DEF Steps
  <2>3. Fits("judge", j, i, k, n)
    BY <1>2, <1>4 DEF Fits, ToolSteps, OracleSteps
  <2>4. QED
    BY <1>3, <2>2, <2>3, LookKeeps
<1>5. CASE i \notin Members(billed[j])
  <2>1. GoTo(w, "bill")
    BY <1>1, <1>5 DEF LookForUsage, Looks, GoTo
  <2>2. HandGoes(w, "bill", j, i, k, n)
    BY <1>1, <2>1, StoryQueue, GoToGoes DEF Steps
  <2>3. Fits("bill", j, i, k, n)
    BY <1>2 DEF Fits, ToolSteps, OracleSteps
  <2>4. QED
    BY <1>3, <2>2, <2>3, LookKeeps
<1>6. QED
  BY <1>4, <1>5
-----------------------------------------------------------------------------
(* Steps of a handler that record something *)

\* The queue of a step that leaves it.
LEMMA LoopStays ==
  ASSUME ToolStory, UNCHANGED loopVars
  PROVE  /\ QueueMoves({}, {}) /\ phase' = phase /\ holder' = holder
         /\ faults' \in 0 .. MaxFaults /\ overdue' \in 0 .. MaxOverdue
         /\ overdue' = overdue
<1>1. UNCHANGED claimVars /\ faults' = faults /\ overdue' = overdue
  BY DEF loopVars
<1>2. QueueMoves({}, {})
  BY <1>1, StoryQueue, QueueStays
<1>3. QED
  BY <1>1, <1>2, StoryQueue DEF ToolTypeOK, claimVars

\* Requests fit as long as no other is made.
LEMMA SameRequests ==
  ASSUME RequestsFit, event' = event, phase' = phase
  PROVE  RequestsFit'
<1>1. \A j \in Job : Requested(j)' <=> Requested(j)
  BY DEF Requested
<1>2. Root \in Job
  BY ToolAssumption
<1>3. QED
  BY <1>1, <1>2 DEF RequestsFit

\* And so do the links, whatever adapter or intent follows.
LEMMA SameLinks ==
  ASSUME ToolTypeOK, ToolTypeOK', LinksFit, RequestsFit, ChainGrows, event' = event
  PROVE  LinksFit'
<1>1. ASSUME NEW j \in Job \ {Root}, Requested(j)'
      PROVE  IF event'[j].cause \in ToolJob
             THEN event'[j].link \in DOMAIN adapters'[event'[j].cause]
             ELSE event'[j].link \in 1 .. intents'[event'[j].cause]
  <2>1. Requested(j)
    BY <1>1 DEF Requested
  <2>2. PICK c \in Job : c = event[j].cause
    BY <2>1 DEF RequestsFit
  <2>3. PICK l : l = event[j].link
    OBVIOUS
  <2>4. CASE c \in ToolJob
    <3>1. l \in DOMAIN adapters[c] /\ Continues(adapters'[c], adapters[c])
      BY <1>1, <2>1, <2>2, <2>3, <2>4 DEF LinksFit, ChainGrows
    <3>2. QED
      BY <2>2, <2>3, <2>4, <3>1 DEF Continues
  <2>5. CASE c \notin ToolJob
    <3>1. c \in OracleJob /\ l \in 1 .. intents[c]
      BY <1>1, <2>1, <2>2, <2>3, <2>5 DEF LinksFit, OracleJob
    <3>2. intents[c] \in Nat /\ intents'[c] \in Nat /\ intents[c] <= intents'[c]
      BY <3>1 DEF ToolTypeOK, ChainGrows
    <3>3. l \in 1 .. intents'[c]
      BY <3>1, <3>2
    <3>4. QED
      BY <2>2, <2>3, <2>5, <3>3
  <2>6. QED
    BY <2>4, <2>5
<1>2. QED
  BY <1>1 DEF LinksFit

\* And what is billed and adapted, whatever result follows.
LEMMA SameResults ==
  ASSUME ResultsFit, ChainGrows, billed' = billed, adapters' = adapters
  PROVE  ResultsFit'
BY DEF ResultsFit, ChainGrows, Continues

\* A step of a handler keeps the invariant if what it records fits and what is then
\* in hand.
LEMMA RecordKeeps ==
  ASSUME ToolStory, UNCHANGED loopVars, ToolTypeOK', ChainGrows, RequestsFit', LinksFit',
         ResultsFit', NEW w \in Runner, NEW step, NEW j, NEW i, NEW k, NEW n,
         HandGoes(w, step, j, i, k, n), Fits(step, j, i, k, n)'
  PROVE  ToolStory'
<1>1. HandFits(w)'
  BY FitsAfter
<1>2. \A v \in Runner : HandFits(v)' \/ hand'[v] = hand[v]
  BY <1>1 DEF HandGoes
<1>3. QED
  BY <1>2, LoopStays, StepKeeps

\* A stop is recorded, and the handler goes on.
LEMMA StopKeeps ==
  ASSUME ToolStory, NEW w \in Runner, NEW j \in Job, NEW reason \in Reasons,
         StopAutomation(j, reason), hand' \in [Runner -> HandState],
         \A v \in Runner \ {w} : hand'[v] = hand[v],
         UNCHANGED <<loopVars, event, approvals, results, billed, adapters, output,
                     intents>>
  PROVE  /\ ToolTypeOK' /\ ChainGrows /\ RequestsFit' /\ LinksFit' /\ ResultsFit'
         /\ HandFits(w)' => ToolStory'
<1>0. /\ QueueMoves({}, {}) /\ phase' = phase /\ holder' = holder
      /\ faults' \in 0 .. MaxFaults /\ overdue' \in 0 .. MaxOverdue
  BY LoopStays
<1>1. stops' \subseteq Job \X Reasons /\ stops \subseteq stops'
  BY StoryQueue DEF StopAutomation, ToolTypeOK
<1>2. ToolTypeOK'
  BY <1>0, <1>1, StoryQueue DEF ToolTypeOK
<1>3. ChainGrows
  BY <1>0, <1>1, StoryQueue DEF ChainGrows, Continues, ToolTypeOK
<1>4. RequestsFit' /\ LinksFit' /\ ResultsFit'
  BY <1>0, <1>2, <1>3, StoryQueue, SameRequests, SameLinks, SameResults DEF ToolStory
<1>5. ASSUME HandFits(w)' PROVE ToolStory'
  BY <1>0, <1>2, <1>3, <1>4, <1>5, StepKeeps
<1>6. QED
  BY <1>2, <1>3, <1>4, <1>5

LEMMA StopAfterFailureStep ==
  ASSUME ToolStory, NEW w \in Runner, StopAfterFailure(w)
  PROVE  ToolStory'
<1>1. HandGoes(w, "idle", NoJob, 0, 0, NoJob)
  BY StoryQueue, IdleGoes DEF StopAfterFailure
<1>2. HandFits(w)'
  BY <1>1, IdleFits DEF HandGoes
<1>3. PICK j \in Job : j = Mine(w)
  BY MineIsJob DEF StopAfterFailure, Handling
<1>4. PICK reason \in Reasons : reason = FailureReason(j)
  BY DEF FailureReason, Reasons
<1>5. QED
  BY <1>1, <1>2, <1>3, <1>4, StopKeeps DEF StopAfterFailure, HandGoes

\* A handler that reaches a boundary has done its part.
LEMMA StopAndReturnStep ==
  ASSUME ToolStory, NEW w \in Runner, hand[w].step # "idle", NEW reason \in Reasons,
         StopAndReturn(w, reason), NEW j, j = Mine(w),
         ToolTypeOK' /\ ChainGrows => PassedOn(j)'
  PROVE  ToolStory'
<1>1. HandGoes(w, "return", j, 0, 0, NoJob)
  BY StoryQueue, ReturnGoes DEF StopAndReturn, Steps
<1>2. j \in Job /\ Requested(j)
  BY MineIsJob
<1>3. /\ ToolTypeOK' /\ ChainGrows /\ RequestsFit' /\ LinksFit' /\ ResultsFit'
      /\ HandFits(w)' => ToolStory'
  BY <1>1, <1>2, StopKeeps DEF StopAndReturn, HandGoes
<1>4. Requested(j)' /\ PassedOn(j)'
  BY <1>2, <1>3, RequestedStays
<1>5. HandFits(w)'
  BY <1>1, <1>2, <1>4, FreshFits DEF HandGoes
<1>6. QED
  BY <1>3, <1>5
\* t is s and one more, x.
Longer(t, s, x) ==
  /\ Continues(t, s)
  /\ DOMAIN t = DOMAIN s \cup {Len(s) + 1} /\ t[Len(s) + 1] = x

\* What a sequence holds once x is appended.
LEMMA AppendHolds ==
  ASSUME NEW S, NEW s \in Seq(S), NEW x \in S, NEW t, t = Append(s, x)
  PROVE  /\ t \in Seq(S) /\ Continues(t, s) /\ Longer(t, s, x)
         /\ Len(s) + 1 \in DOMAIN t /\ Len(t) = Len(s) + 1 /\ x \in Members(t)
<1>1. /\ t \in Seq(S) /\ Len(t) = Len(s) + 1 /\ t[Len(s) + 1] = x
      /\ \A i \in 1 .. Len(s) : t[i] = s[i]
  OBVIOUS
<1>2. DOMAIN s = 1 .. Len(s) /\ DOMAIN t = 1 .. Len(t) /\ Len(s) \in Nat
  BY <1>1
<1>3. 1 .. Len(s) + 1 = (1 .. Len(s)) \cup {Len(s) + 1}
  BY <1>2
<1>4. QED
  BY <1>1, <1>2, <1>3 DEF Continues, Members, Longer

LEMMA ExecuteStep ==
  ASSUME ToolStory, NEW w \in Runner, NEW outcome \in Signature \cup {"error"},
         Execute(w, outcome)
  PROVE  ToolStory' /\ ChainGrows
<1>1. PICK j, i, k, n : j = Mine(w) /\ i = hand[w].item /\ k = hand[w].adapter
                        /\ n = hand[w].next
  OBVIOUS
<1>2. Fits("execute", j, i, k, n) /\ j \in ToolJob /\ j \in Job
  BY <1>1, InHand DEF Execute, Handling, Fits, ToolSteps
<1>3. /\ results' = [results EXCEPT ![j] = Append(@, outcome)]
      /\ UNCHANGED <<loopVars, event, approvals, billed, adapters, output, intents,
                     stops>>
  BY <1>1 DEF Execute
<1>4. results[j] \in Seq(Signature \cup {"error"})
  BY <1>2, StoryQueue DEF ToolTypeOK
<1>5. PICK len \in Nat : len = Len(results[j]) + 1
  BY <1>4
<1>6. HandGoes(w, "usage", j, len, k, n)
  BY <1>1, <1>5, StoryQueue, ItemGoes, Zenon DEF Execute, Steps
<1>7. /\ results'[j] \in Seq(Signature \cup {"error"}) /\ len \in DOMAIN results'[j]
      /\ Continues(results'[j], results[j])
  <2>1. PICK s, t : s = results[j] /\ t = results'[j]
    OBVIOUS
  <2>2. t = Append(s, outcome)
    BY <1>2, <1>3, <2>1, StoryQueue DEF ToolTypeOK
  <2>3. s \in Seq(Signature \cup {"error"})
    BY <1>4, <2>1
  <2>4. /\ t \in Seq(Signature \cup {"error"}) /\ Continues(t, s)
        /\ Len(s) + 1 \in DOMAIN t
    BY <2>2, <2>3, AppendHolds
  <2>5. QED
    BY <1>5, <2>1, <2>4
<1>8. \A t \in ToolJob : t # j => results'[t] = results[t]
  BY <1>3, StoryQueue DEF ToolTypeOK
<1>9. results' \in [ToolJob -> Seq(Signature \cup {"error"})]
  BY <1>2, <1>3, <1>7, <1>8, StoryQueue DEF ToolTypeOK
<1>10. ToolTypeOK'
  BY <1>3, <1>6, <1>9, LoopStays, StoryQueue DEF ToolTypeOK, HandGoes
<1>11. ChainGrows
  BY <1>3, <1>7, <1>8, LoopStays, StoryQueue DEF ChainGrows, Continues, ToolTypeOK
<1>12. RequestsFit' /\ LinksFit' /\ ResultsFit'
  BY <1>3, <1>10, <1>11, LoopStays, StoryQueue, SameRequests, SameLinks, SameResults
     DEF ToolStory
<1>13. Fits("usage", j, len, k, n)'
  BY <1>2, <1>7, <1>11, RequestedStays DEF Fits, ToolSteps, OracleSteps
<1>14. QED
  BY <1>3, <1>6, <1>10, <1>11, <1>12, <1>13, RecordKeeps

LEMMA RecordUsageStep ==
  ASSUME ToolStory, NEW w \in Runner, RecordUsage(w)
  PROVE  ToolStory' /\ ChainGrows
<1>1. PICK j, i, k, n : j = Mine(w) /\ i = hand[w].item /\ k = hand[w].adapter
                        /\ n = hand[w].next
  OBVIOUS
<1>2. /\ Fits("bill", j, i, k, n) /\ j \in ToolJob /\ j \in Job /\ i \in DOMAIN results[j]
      /\ i \in Nat
  BY <1>1, InHand DEF RecordUsage, Handling, Fits, ToolSteps
<1>3. /\ billed' = [billed EXCEPT ![j] = Append(@, i)]
      /\ UNCHANGED <<loopVars, event, approvals, results, adapters, output, intents,
                     stops>>
  BY <1>1 DEF RecordUsage
<1>4. HandGoes(w, "judge", j, i, k, n)
  BY <1>1, StoryQueue, GoToGoes DEF RecordUsage, Steps
<1>5. billed[j] \in Seq(Nat)
  BY <1>2, StoryQueue DEF ToolTypeOK
<1>6. /\ billed'[j] \in Seq(Nat) /\ i \in Members(billed'[j])
      /\ Continues(billed'[j], billed[j]) /\ Longer(billed'[j], billed[j], i)
  <2>1. PICK s, t : s = billed[j] /\ t = billed'[j]
    OBVIOUS
  <2>2. t = Append(s, i) /\ s \in Seq(Nat)
    BY <1>2, <1>3, <1>5, <2>1, StoryQueue DEF ToolTypeOK
  <2>3. t \in Seq(Nat) /\ Continues(t, s) /\ i \in Members(t) /\ Longer(t, s, i)
    BY <1>2, <2>2, AppendHolds
  <2>4. QED
    BY <2>1, <2>3
<1>7. \A t \in ToolJob : t # j => billed'[t] = billed[t]
  BY <1>3, StoryQueue DEF ToolTypeOK
<1>8. billed' \in [ToolJob -> Seq(Nat)]
  BY <1>2, <1>3, <1>6, <1>7, StoryQueue DEF ToolTypeOK
<1>9. ToolTypeOK'
  BY <1>3, <1>4, <1>8, LoopStays, StoryQueue DEF ToolTypeOK, HandGoes
<1>10. ChainGrows
  BY <1>3, <1>6, <1>7, LoopStays, StoryQueue DEF ChainGrows, Continues, ToolTypeOK
<1>11. RequestsFit' /\ LinksFit'
  BY <1>3, <1>9, <1>10, LoopStays, StoryQueue, SameRequests, SameLinks DEF ToolStory
<1>12. ResultsFit'
  <2>1. ASSUME NEW t \in ToolJob, NEW l \in DOMAIN billed'[t]
        PROVE  billed'[t][l] \in DOMAIN results[t]
    <3>1. CASE t # j
      BY <1>7, <2>1, <3>1 DEF ToolStory, ResultsFit
    <3>2. CASE t = j /\ l \in DOMAIN billed[j]
      BY <1>6, <3>2 DEF ToolStory, ResultsFit, Continues
    <3>3. CASE t = j /\ l \notin DOMAIN billed[j]
      BY <1>2, <1>6, <2>1, <3>3 DEF Longer
    <3>4. QED
      BY <3>1, <3>2, <3>3
  <2>2. QED
    BY <1>3, <2>1 DEF ToolStory, ResultsFit
<1>13. Fits("judge", j, i, k, n)'
  BY <1>2, <1>3, <1>6, <1>10, RequestedStays DEF Fits, ToolSteps, OracleSteps
<1>14. QED
  BY <1>3, <1>4, <1>9, <1>10, <1>11, <1>12, <1>13, RecordKeeps

LEMMA JudgeStep ==
  ASSUME ToolStory, NEW w \in Runner, Judge(w)
  PROVE  ToolStory'
<1>1. PICK j, i, k, n : j = Mine(w) /\ i = hand[w].item /\ k = hand[w].adapter
                        /\ n = hand[w].next
  OBVIOUS
<1>2. /\ Fits("judge", j, i, k, n) /\ j \in ToolJob /\ i \in Members(billed[j])
      /\ hand[w].step # "idle"
  BY <1>1, InHand DEF Judge, Handling, Fits, ToolSteps
<1>3. ASSUME NEW l \in Adapted(w), Looks(w, [hand[w] EXCEPT !.step = "continue", !.adapter = l])
      PROVE  ToolStory'
  <2>1. l \in Nat /\ l \in DOMAIN adapters[j] /\ adapters[j][l] = i
    <3>1. adapters[j] \in Seq(Nat)
      BY <1>2, StoryQueue DEF ToolTypeOK
    <3>2. QED
      BY <1>1, <1>3, <3>1 DEF Adapted, Mine
  <2>2. HandGoes(w, "continue", j, i, l, n) /\ UNCHANGED <<loopVars, chainVars>>
    BY <1>1, <1>3, <2>1, StoryQueue, AdapterGoes, Zenon DEF Looks, Steps
  <2>3. Fits("continue", j, i, l, n)
    BY <1>2, <2>1 DEF Fits, ToolSteps, OracleSteps, Passed
  <2>4. QED
    BY <2>2, <2>3, LookKeeps
<1>4. ASSUME EndsHere(w), StopAndReturn(w, StopReason(w))
      PROVE  ToolStory'
  <2>1. PICK reason \in Reasons :
          /\ reason = StopReason(w)
          /\ IF results[j][i] = "error" THEN reason = "tool_failure"
             ELSE reason \in {"max_depth", "budget_exhausted",
                              "repeated_equivalent_event"}
    BY <1>1 DEF StopReason, Reasons, Outcome, Mine
  <2>2. <<j, reason>> \in stops' /\ results' = results /\ billed' = billed
    BY <1>1, <1>4, <2>1 DEF StopAndReturn, StopAutomation
  <2>3. PassedOn(j)'
    BY <1>2, <2>1, <2>2 DEF PassedOn
  <2>4. QED
    BY <1>1, <1>2, <1>4, <2>1, <2>3, StopAndReturnStep
<1>5. ASSUME ~EndsHere(w), Looks(w, [hand[w] EXCEPT !.step = "adapt"])
      PROVE  ToolStory'
  <2>1. GoTo(w, "adapt") /\ UNCHANGED <<loopVars, chainVars>>
    BY <1>5 DEF Looks, GoTo
  <2>2. HandGoes(w, "adapt", j, i, k, n)
    BY <1>1, <2>1, StoryQueue, GoToGoes DEF Steps
  <2>3. results[j][i] # "error"
    BY <1>1, <1>5 DEF EndsHere, Outcome, Mine
  <2>4. Fits("adapt", j, i, k, n)
    BY <1>2, <2>3 DEF Fits, ToolSteps, OracleSteps
  <2>5. QED
    BY <2>1, <2>2, <2>4, LookKeeps
<1>6. QED
  BY <1>3, <1>4, <1>5 DEF Judge
LEMMA AdaptStep ==
  ASSUME ToolStory, NEW w \in Runner, Adapt(w)
  PROVE  ToolStory' /\ ChainGrows
<1>1. PICK j, i, k, n : j = Mine(w) /\ i = hand[w].item /\ k = hand[w].adapter
                        /\ n = hand[w].next
  OBVIOUS
<1>2. /\ Fits("adapt", j, i, k, n) /\ j \in ToolJob /\ j \in Job /\ i \in DOMAIN results[j]
      /\ i \in Nat /\ results[j][i] # "error"
  BY <1>1, InHand DEF Adapt, Handling, Fits, ToolSteps
<1>3. /\ adapters' = [adapters EXCEPT ![j] = Append(@, i)]
      /\ UNCHANGED <<loopVars, event, approvals, results, billed, output, intents,
                     stops>>
  BY <1>1 DEF Adapt
<1>4. adapters[j] \in Seq(Nat)
  BY <1>2, StoryQueue DEF ToolTypeOK
<1>5. PICK len \in Nat : len = Len(adapters[j]) + 1
  BY <1>4
<1>6. HandGoes(w, "continue", j, i, len, n)
  BY <1>1, <1>5, StoryQueue, AdapterGoes, Zenon DEF Adapt, Steps
<1>7. /\ adapters'[j] \in Seq(Nat) /\ Continues(adapters'[j], adapters[j])
      /\ Longer(adapters'[j], adapters[j], i)
  <2>1. PICK s, t : s = adapters[j] /\ t = adapters'[j]
    OBVIOUS
  <2>2. t = Append(s, i) /\ s \in Seq(Nat)
    BY <1>2, <1>3, <1>4, <2>1, StoryQueue DEF ToolTypeOK
  <2>3. t \in Seq(Nat) /\ Continues(t, s) /\ Longer(t, s, i)
    BY <1>2, <2>2, AppendHolds
  <2>4. QED
    BY <2>1, <2>3
<1>8. \A t \in ToolJob : t # j => adapters'[t] = adapters[t]
  BY <1>3, StoryQueue DEF ToolTypeOK
<1>9. adapters' \in [ToolJob -> Seq(Nat)]
  BY <1>2, <1>3, <1>7, <1>8, StoryQueue DEF ToolTypeOK
<1>10. ToolTypeOK'
  BY <1>3, <1>6, <1>9, LoopStays, StoryQueue DEF ToolTypeOK, HandGoes
<1>11. ChainGrows
  BY <1>3, <1>7, <1>8, LoopStays, StoryQueue DEF ChainGrows, Continues, ToolTypeOK
<1>12. RequestsFit' /\ LinksFit'
  BY <1>3, <1>10, <1>11, LoopStays, StoryQueue, SameRequests, SameLinks DEF ToolStory
<1>13. ResultsFit'
  <2>1. ASSUME NEW t \in ToolJob, NEW l \in DOMAIN adapters'[t]
        PROVE  adapters'[t][l] \in DOMAIN results[t] /\ results[t][adapters'[t][l]] # "error"
    <3>1. CASE t # j
      BY <1>8, <2>1, <3>1 DEF ToolStory, ResultsFit
    <3>2. CASE t = j /\ l \in DOMAIN adapters[j]
      BY <1>7, <3>2 DEF ToolStory, ResultsFit, Continues
    <3>3. CASE t = j /\ l \notin DOMAIN adapters[j]
      BY <1>2, <1>7, <2>1, <3>3 DEF Longer
    <3>4. QED
      BY <3>1, <3>2, <3>3
  <2>2. QED
    BY <1>3, <2>1 DEF ToolStory, ResultsFit
<1>14. Fits("continue", j, i, len, n)'
  <2>1. i \in Members(billed[j])
    BY <1>2 DEF Fits
  <2>2. Passed(j, i, len)'
    BY <1>3, <1>5, <1>7, <2>1 DEF Passed, Longer
  <2>3. QED
    BY <1>2, <1>3, <1>11, <2>1, <2>2, RequestedStays DEF Fits, ToolSteps, OracleSteps
<1>15. QED
  BY <1>3, <1>6, <1>10, <1>11, <1>12, <1>13, <1>14, RecordKeeps

LEMMA ContinueStep ==
  ASSUME ToolStory, NEW w \in Runner, Continue(w)
  PROVE  ToolStory'
<1>1. PICK j, i, k, n : j = Mine(w) /\ i = hand[w].item /\ k = hand[w].adapter
                        /\ n = hand[w].next
  OBVIOUS
<1>2. /\ Fits("continue", j, i, k, n) /\ j \in ToolJob /\ i \in Members(billed[j])
      /\ Passed(j, i, k) /\ hand[w].step # "idle"
  BY <1>1, InHand DEF Continue, Handling, Fits, ToolSteps
<1>3. ASSUME NEW o \in RequestsOf(Mine(w), hand[w].adapter),
             Looks(w, [Afresh(w, "enqueue") EXCEPT !.next = o])
      PROVE  ToolStory'
  <2>1. o \in Job /\ Requested(o) /\ event[o].cause = j /\ event[o].link = k
    BY <1>1, <1>3 DEF RequestsOf
  <2>2. HandGoes(w, "enqueue", j, 0, 0, o) /\ UNCHANGED <<loopVars, chainVars>>
    BY <1>1, <1>3, <2>1, StoryQueue, AfreshGoes DEF Looks, Steps
  <2>3. IsNext(j, o)
    BY <1>2, <2>1 DEF IsNext
  <2>4. Fits("enqueue", j, 0, 0, o)
    BY <1>2, <2>3 DEF Fits, ToolSteps, OracleSteps
  <2>5. QED
    BY <2>2, <2>4, LookKeeps
<1>4. ASSUME Budget(w) > 1, Looks(w, [hand[w] EXCEPT !.step = "request"])
      PROVE  ToolStory'
  <2>1. GoTo(w, "request") /\ UNCHANGED <<loopVars, chainVars>>
    BY <1>4 DEF Looks, GoTo
  <2>2. HandGoes(w, "request", j, i, k, n)
    BY <1>1, <2>1, StoryQueue, GoToGoes DEF Steps
  <2>3. event[j].budget > 1
    BY <1>1, <1>4 DEF Budget, Mine
  <2>4. Fits("request", j, i, k, n)
    BY <1>2, <2>3 DEF Fits, ToolSteps, OracleSteps
  <2>5. QED
    BY <2>1, <2>2, <2>4, LookKeeps
<1>5. ASSUME StopAndReturn(w, "budget_exhausted")
      PROVE  ToolStory'
  <2>1. /\ <<j, "budget_exhausted">> \in stops' /\ results' = results /\ billed' = billed
    BY <1>1, <1>5 DEF StopAndReturn, StopAutomation
  <2>2. results[j][i] # "error"
    BY <1>2 DEF ToolStory, ResultsFit, Passed
  <2>3. PassedOn(j)'
    BY <1>2, <2>1, <2>2 DEF PassedOn
  <2>4. QED
    BY <1>1, <1>2, <1>5, <2>3, StopAndReturnStep DEF Reasons
<1>6. QED
  BY <1>3, <1>4, <1>5 DEF Continue
-----------------------------------------------------------------------------
(* Requests *)

\* A request is not the absence of one.
LEMMA RequestIsOne ==
  ASSUME NEW r \in RequestRecord
  PROVE  r # NoRequest
<1>1. DOMAIN r = {"cause", "link", "depth", "budget"}
  BY DEF RequestRecord
<1>2. "absent" \in DOMAIN NoRequest
  BY DEF NoRequest
<1>3. QED
  BY <1>1, <1>2

LEMMA RequestTyped ==
  ASSUME ToolStory, NEW j \in Job, Requested(j)
  PROVE  /\ event[j] \in RequestRecord /\ event[j].depth \in Nat /\ event[j].budget \in Nat
         /\ event[j].link \in Nat
<1>1. event[j] \in RequestRecord
  BY DEF ToolStory, ToolTypeOK, Requested
<1>2. QED
  BY <1>1 DEF RequestRecord

\* The request of one job is made, the others stay.
LEMMA RequestMade ==
  ASSUME ToolStory, NEW n \in Job, ~Requested(n), NEW r \in RequestRecord,
         event' = [event EXCEPT ![n] = r], UNCHANGED loopVars,
         hand' \in [Runner -> HandState],
         UNCHANGED <<approvals, results, billed, adapters, output, intents, stops>>
  PROVE  /\ ToolTypeOK' /\ ChainGrows /\ Requested(n)' /\ event'[n] = r
         /\ \A j \in Job : j # n => event'[j] = event[j] /\ (Requested(j)' <=> Requested(j))
<1>1. event'[n] = r /\ \A j \in Job : j # n => event'[j] = event[j]
  BY StoryQueue DEF ToolTypeOK
<1>2. Requested(n)' /\ \A j \in Job : j # n => (Requested(j)' <=> Requested(j))
  BY <1>1, RequestIsOne DEF Requested
<1>3. event' \in [Job -> RequestRecord \cup {NoRequest}]
  BY StoryQueue DEF ToolTypeOK
<1>4. ToolTypeOK'
  BY <1>3, LoopStays, StoryQueue DEF ToolTypeOK
<1>5. ChainGrows
  BY <1>1, LoopStays, StoryQueue DEF ChainGrows, Continues, ToolTypeOK
<1>6. QED
  BY <1>1, <1>2, <1>4, <1>5

LEMMA RequestToolStep ==
  ASSUME ToolStory, RequestTool
  PROVE  ToolStory'
<1>1. PICK s \in RootState :
        event' = [event EXCEPT ![Root] = [cause |-> NoJob, link |-> 0,
                                          depth |-> s[1], budget |-> s[2]]]
  BY DEF RequestTool
<1>2. PICK r : r = [cause |-> NoJob, link |-> 0, depth |-> s[1], budget |-> s[2]]
  OBVIOUS
<1>3. r \in RequestRecord /\ r.cause = NoJob /\ Root \in Job /\ ~Requested(Root)
  BY <1>2, ToolAssumption DEF RequestRecord, RequestTool
<1>4. /\ UNCHANGED loopVars /\ hand' = hand /\ hand' \in [Runner -> HandState]
      /\ UNCHANGED <<approvals, results, billed, adapters, output, intents, stops>>
  BY StoryQueue DEF RequestTool, ToolTypeOK
<1>5. /\ ToolTypeOK' /\ ChainGrows /\ Requested(Root)' /\ event'[Root] = r
      /\ \A j \in Job : j # Root => event'[j] = event[j] /\ (Requested(j)' <=> Requested(j))
  BY <1>1, <1>2, <1>3, <1>4, RequestMade
<1>6. \A j \in Job : ~Requested(j)
  BY <1>3 DEF ToolStory, RequestsFit
<1>7. phase' = phase
  BY <1>4, LoopStays
<1>8. RequestsFit'
  BY <1>3, <1>5, <1>6, <1>7 DEF RequestsFit, ToolStory
<1>9. LinksFit'
  BY <1>5, <1>6 DEF LinksFit
<1>10. ResultsFit'
  BY <1>4, <1>5, SameResults DEF ToolStory
<1>11. QED
  BY <1>4, <1>5, <1>8, <1>9, <1>10, LoopStays, StepKeeps

LEMMA ApproveToolStep ==
  ASSUME ToolStory, NEW t \in ToolJob, ApproveTool(t)
  PROVE  ToolStory'
<1>1. UNCHANGED <<loopVars, hand, event, results, billed, adapters, output, intents, stops>>
      /\ approvals' \subseteq Asks
  BY StoryQueue DEF ApproveTool, ToolTypeOK
<1>2. ToolTypeOK'
  BY <1>1, LoopStays, StoryQueue DEF ToolTypeOK
<1>3. ChainGrows
  BY <1>1, LoopStays, StoryQueue DEF ChainGrows, Continues, ToolTypeOK
<1>4. RequestsFit' /\ LinksFit' /\ ResultsFit'
  BY <1>1, <1>2, <1>3, LoopStays, StoryQueue, SameRequests, SameLinks, SameResults
     DEF ToolStory
<1>5. \A w \in Runner : hand'[w] = hand[w]
  BY <1>1
<1>6. QED
  BY <1>1, <1>2, <1>3, <1>4, <1>5, LoopStays, StepKeeps

\* A handler appends the request its job leads to.
LEMMA NextRequested ==
  ASSUME ToolStory, NEW w \in Runner, NEW c \in Job, Requested(c), NEW n \in Job,
         NEW l \in Nat, NEW depth \in Nat, NEW budget \in Nat,
         AppendRequest(n, c, l, depth, budget),
         n \in ToolJob <=> c \in OracleJob,
         IF c \in ToolJob THEN l \in DOMAIN adapters[c] ELSE l \in 1 .. intents[c],
         c \in ToolJob => \E i \in Members(billed[c]) : Passed(c, i, l),
         HandGoes(w, "enqueue", c, 0, 0, n),
         UNCHANGED <<loopVars, approvals, results, billed, adapters, output, intents,
                     stops>>
  PROVE  ToolStory' /\ ChainGrows
<1>1. PICK r : r = [cause |-> c, link |-> l, depth |-> depth, budget |-> budget]
  OBVIOUS
<1>2. r \in RequestRecord /\ r.cause = c /\ r.link = l
  BY <1>1 DEF RequestRecord
<1>3. ~Requested(n) /\ n # Root /\ n # c /\ event' = [event EXCEPT ![n] = r]
  BY <1>1 DEF AppendRequest
<1>4. UNCHANGED loopVars /\ phase' = phase /\ hand' \in [Runner -> HandState]
  BY LoopStays DEF HandGoes
<1>5. /\ ToolTypeOK' /\ ChainGrows /\ Requested(n)' /\ event'[n] = r
      /\ \A j \in Job : j # n => event'[j] = event[j] /\ (Requested(j)' <=> Requested(j))
  BY <1>2, <1>3, <1>4, RequestMade
<1>6. Requested(c)' /\ Root \in Job
  BY <1>3, <1>5, ToolAssumption
<1>7. RequestsFit'
  <2>1. \A j \in Job : phase'[j] # "new" => Requested(j)'
    BY <1>4, <1>5 DEF ToolStory, RequestsFit
  <2>2. Requested(Root)' /\ event'[Root].cause = NoJob
    <3>1. Requested(Root) /\ event[Root].cause = NoJob
      BY DEF ToolStory, RequestsFit
    <3>2. QED
      BY <1>3, <1>5, <1>6, <3>1
  <2>3. ASSUME NEW j \in Job \ {Root}, Requested(j)'
        PROVE  /\ event'[j].cause \in Job /\ Requested(event[j].cause)'
               /\ j \in ToolJob <=> event'[j].cause \in OracleJob
    <3>1. CASE j = n
      BY <1>2, <1>5, <1>6, <3>1
    <3>2. CASE j # n
      <4>1. Requested(j) /\ event'[j] = event[j]
        BY <1>5, <2>3, <3>2
      <4>2. PICK d \in Job : /\ d = event[j].cause /\ Requested(d)
                             /\ j \in ToolJob <=> d \in OracleJob
        BY <2>3, <4>1 DEF ToolStory, RequestsFit
      <4>3. Requested(d)'
        BY <1>5, <4>2
      <4>4. QED
        BY <4>1, <4>2, <4>3
    <3>3. QED
      BY <3>1, <3>2
  <2>4. QED
    BY <2>1, <2>2, <2>3 DEF RequestsFit
<1>8. LinksFit'
  <2>1. ASSUME NEW j \in Job \ {Root}, Requested(j)'
        PROVE  IF event'[j].cause \in ToolJob
               THEN event'[j].link \in DOMAIN adapters[event'[j].cause]
               ELSE event'[j].link \in 1 .. intents[event'[j].cause]
    <3>1. CASE j = n
      BY <1>2, <1>5, <3>1
    <3>2. CASE j # n
      BY <1>5, <2>1, <3>2 DEF ToolStory, LinksFit
    <3>3. QED
      BY <3>1, <3>2
  <2>2. QED
    BY <2>1 DEF LinksFit
<1>9. ResultsFit'
  BY <1>5, SameResults DEF ToolStory
<1>10. IsNext(c, n)'
  <2>1. c \in ToolJob => \E i \in Members(billed'[c]) : Passed(c, i, l)'
    BY DEF Passed
  <2>2. QED
    BY <1>2, <1>5, <2>1 DEF IsNext
<1>11. Fits("enqueue", c, 0, 0, n)'
  BY <1>6, <1>10 DEF Fits, ToolSteps, OracleSteps
<1>12. QED
  BY <1>4, <1>5, <1>7, <1>8, <1>9, <1>11, RecordKeeps
LEMMA RequestOracleStep ==
  ASSUME ToolStory, NEW w \in Runner, NEW o \in Job, RequestOracle(w, o)
  PROVE  ToolStory' /\ ChainGrows
<1>1. PICK j, i, k, n : j = Mine(w) /\ i = hand[w].item /\ k = hand[w].adapter
                        /\ n = hand[w].next
  OBVIOUS
<1>2. /\ Fits("request", j, i, k, n) /\ j \in ToolJob /\ j \in Job /\ Requested(j)
      /\ i \in Members(billed[j]) /\ Passed(j, i, k) /\ event[j].budget > 1
      /\ k \in Nat /\ k \in DOMAIN adapters[j]
  BY <1>1, InHand DEF RequestOracle, Handling, Fits, ToolSteps, Passed
<1>3. PICK depth \in Nat, budget \in Nat :
        depth = event[j].depth + 1 /\ budget = event[j].budget - 2
  <2>1. event[j].depth \in Nat /\ event[j].budget \in Nat
    BY <1>2, RequestTyped
  <2>2. event[j].depth + 1 \in Nat /\ event[j].budget - 2 \in Nat
    BY <1>2, <2>1
  <2>3. QED
    BY <2>1, <2>2
<1>4. AppendRequest(o, j, k, depth, budget)
  BY <1>1, <1>3 DEF RequestOracle, Depth, Budget, Mine
<1>5. HandGoes(w, "enqueue", j, 0, 0, o)
  BY <1>1, StoryQueue, AfreshGoes DEF RequestOracle, Steps
<1>6. o \in ToolJob <=> j \in OracleJob
  BY <1>2 DEF RequestOracle, OracleJob
<1>7. UNCHANGED <<loopVars, approvals, results, billed, adapters, output, intents, stops>>
  BY DEF RequestOracle
<1>8. QED
  BY <1>2, <1>4, <1>5, <1>6, <1>7, NextRequested

LEMMA EnqueueNextStep ==
  ASSUME ToolStory, NEW w \in Runner, EnqueueNext(w)
  PROVE  ToolStory'
<1>1. PICK j, n : j = Mine(w) /\ n = hand[w].next
  OBVIOUS
<1>2. IsNext(j, n) /\ j \in Job /\ Requested(j) /\ n \in Job /\ Requested(n)
  BY <1>1, InHand DEF EnqueueNext, Handling, Fits, IsNext
<1>3. UNCHANGED chainVars /\ faults' = faults /\ overdue' = overdue
  BY DEF EnqueueNext
<1>4. QueueMoves({n}, {}) /\ (n \in Asks \/ phase'[n] # "new")
  BY <1>1, <1>2, StoryQueue, EnqueueMoves DEF EnqueueNext
<1>5. HandGoes(w, "return", j, 0, 0, NoJob)
  BY <1>1, StoryQueue, ReturnGoes DEF EnqueueNext, Steps
<1>6. PassedOn(j)'
  <2>. PICK l : l = event[n].link
    OBVIOUS
  <2>0. /\ n \in RequestsOf(j, l)'
        /\ \A s \in ToolJob : results'[s] = results[s] /\ billed'[s] = billed[s]
                              /\ adapters'[s] = adapters[s]
        /\ intents' = intents
    BY <1>2, <1>3 DEF chainVars, RequestsOf, IsNext, Requested
  <2>1. CASE j \in ToolJob
    <3>1. PICK i \in Members(billed[j]) : Passed(j, i, l)
      BY <1>2, <2>1 DEF IsNext
    <3>2. results[j][i] # "error"
      BY <2>1, <3>1 DEF ToolStory, ResultsFit, Passed
    <3>3. n \in OracleJob /\ n \notin Asks
      <4>1. n # Root
        BY <1>2, ToolAssumption DEF ToolStory, RequestsFit, IsNext, NoJob
      <4>2. n \notin ToolJob
        BY <1>2, <2>1, <4>1 DEF ToolStory, RequestsFit, IsNext, OracleJob
      <4>3. QED
        BY <1>2, <4>2, ToolAssumption DEF OracleJob
    <3>4. \E o \in RequestsOf(j, l)' : phase'[o] # "new"
      BY <1>4, <2>0, <3>3
    <3>5. QED
      BY <2>0, <2>1, <3>1, <3>2, <3>4 DEF PassedOn, Passed
  <2>2. CASE j \notin ToolJob
    <3>1. n # Root
      BY <1>2, ToolAssumption DEF ToolStory, RequestsFit, IsNext, NoJob
    <3>2. l \in 1 .. intents[j]
      BY <1>2, <2>2, <3>1 DEF ToolStory, LinksFit, IsNext
    <3>3. \E t \in RequestsOf(j, l)' : t \in Asks \/ phase'[t] # "new"
      BY <1>4, <2>0
    <3>4. QED
      BY <2>0, <2>2, <3>2, <3>3 DEF PassedOn
  <2>3. QED
    BY <2>1, <2>2
<1>7. Requested(j)' /\ Requested(n)
  BY <1>2, <1>3 DEF Requested, chainVars
<1>8. HandFits(w)'
  BY <1>2, <1>5, <1>6, <1>7, FreshFits DEF HandGoes
<1>9. faults' \in 0 .. MaxFaults /\ overdue' \in 0 .. MaxOverdue
  BY <1>3, StoryQueue DEF ToolTypeOK
<1>10. QED
  BY <1>2, <1>3, <1>4, <1>5, <1>8, <1>9, QuietKeeps DEF HandGoes

-----------------------------------------------------------------------------
(* The handler of an oracle job *)

LEMMA GenerateStep ==
  ASSUME ToolStory, NEW w \in Runner, Generate(w)
  PROVE  ToolStory'
<1>1. PICK j, i, k, n : j = Mine(w) /\ i = hand[w].item /\ k = hand[w].adapter
                        /\ n = hand[w].next
  OBVIOUS
<1>2. Fits("generate", j, i, k, n) /\ j \in OracleJob /\ j \in Job
  BY <1>1, InHand DEF Generate, Handling, Fits, OracleSteps
<1>3. HandGoes(w, "analyse", j, i, k, n)
  BY <1>1, StoryQueue, GoToGoes DEF Generate, Steps
<1>4. /\ output' \in [OracleJob -> {"none", "plain", "intent"}] /\ output'[j] # "none"
      /\ \A o \in OracleJob : output[o] # "none" => output'[o] = output[o]
  <2>1. CASE output[j] = "none"
    <3>1. PICK answer \in {"plain", "intent"} : output' = [output EXCEPT ![j] = answer]
      BY <1>1, <2>1 DEF Generate
    <3>2. QED
      BY <1>2, <2>1, <3>1, StoryQueue DEF ToolTypeOK
  <2>2. CASE output[j] # "none"
    BY <1>1, <2>2, StoryQueue DEF Generate, ToolTypeOK
  <2>3. QED
    BY <2>1, <2>2
<1>5. UNCHANGED <<loopVars, event, approvals, results, billed, adapters, intents, stops>>
  BY DEF Generate
<1>6. ToolTypeOK'
  BY <1>3, <1>4, <1>5, LoopStays, StoryQueue DEF ToolTypeOK, HandGoes
<1>7. ChainGrows
  BY <1>4, <1>5, LoopStays, StoryQueue DEF ChainGrows, Continues, ToolTypeOK
<1>8. RequestsFit' /\ LinksFit' /\ ResultsFit'
  BY <1>5, <1>6, <1>7, LoopStays, StoryQueue, SameRequests, SameLinks, SameResults
     DEF ToolStory
<1>9. Fits("analyse", j, i, k, n)'
  BY <1>2, <1>4, <1>7, RequestedStays DEF Fits, ToolSteps, OracleSteps
<1>10. QED
  BY <1>3, <1>5, <1>6, <1>7, <1>8, <1>9, RecordKeeps

LEMMA AnalyseStep ==
  ASSUME ToolStory, NEW w \in Runner, Analyse(w)
  PROVE  ToolStory'
<1>1. PICK j, i, k, n : j = Mine(w) /\ i = hand[w].item /\ k = hand[w].adapter
                        /\ n = hand[w].next
  OBVIOUS
<1>2. /\ Fits("analyse", j, i, k, n) /\ j \in OracleJob /\ j \in Job /\ Requested(j)
      /\ output[j] # "none"
  BY <1>1, InHand DEF Analyse, Handling, Fits, OracleSteps
<1>3. PICK step \in {"return", "dispatch", "propose"}, item \in Nat :
        /\ item = intents[j]
        /\ step = IF output[j] = "plain" THEN "return"
                  ELSE IF intents[j] > 0 THEN "dispatch" ELSE "propose"
        /\ Looks(w, [hand[w] EXCEPT !.step = step, !.item = item])
  <2>1. intents[j] \in Nat
    BY <1>2, StoryQueue DEF ToolTypeOK
  <2>2. QED
    BY <1>1, <2>1 DEF Analyse
<1>4. HandGoes(w, step, j, item, k, n) /\ UNCHANGED <<loopVars, chainVars>>
  BY <1>1, <1>3, StoryQueue, ItemGoes, Zenon DEF Looks, Steps
<1>5. /\ step = "dispatch" => item \in 1 .. intents[j]
      /\ step = "return" => PassedOn(j)
  BY <1>2, <1>3 DEF PassedOn, OracleJob
<1>6. Fits(step, j, item, k, n)
  BY <1>2, <1>3, <1>5 DEF Fits, ToolSteps, OracleSteps
<1>7. QED
  BY <1>4, <1>6, LookKeeps

LEMMA AppendIntentStep ==
  ASSUME ToolStory, NEW w \in Runner, AppendIntent(w)
  PROVE  ToolStory' /\ ChainGrows
<1>1. PICK j, i, k, n : j = Mine(w) /\ i = hand[w].item /\ k = hand[w].adapter
                        /\ n = hand[w].next
  OBVIOUS
<1>2. Fits("propose", j, i, k, n) /\ j \in OracleJob /\ j \in Job
  BY <1>1, InHand DEF AppendIntent, Handling, Fits, OracleSteps
<1>3. intents[j] \in Nat
  BY <1>2, StoryQueue DEF ToolTypeOK
<1>4. PICK item \in Nat : item = intents[j] + 1 /\ item \in 1 .. item
  BY <1>3
<1>5. HandGoes(w, "dispatch", j, item, k, n)
  BY <1>1, <1>4, StoryQueue, ItemGoes, Zenon DEF AppendIntent, Steps
<1>6. intents' = [intents EXCEPT ![j] = item]
  BY <1>1, <1>4 DEF AppendIntent
<1>7. /\ intents' \in [OracleJob -> Nat] /\ intents'[j] = item
      /\ \A o \in OracleJob : intents[o] <= intents'[o]
  BY <1>2, <1>3, <1>4, <1>6, StoryQueue DEF ToolTypeOK
<1>8. UNCHANGED <<loopVars, event, approvals, results, billed, adapters, output, stops>>
  BY DEF AppendIntent
<1>9. ToolTypeOK'
  BY <1>5, <1>7, <1>8, LoopStays, StoryQueue DEF ToolTypeOK, HandGoes
<1>10. ChainGrows
  BY <1>7, <1>8, LoopStays, StoryQueue DEF ChainGrows, Continues, ToolTypeOK
<1>11. RequestsFit' /\ LinksFit' /\ ResultsFit'
  BY <1>8, <1>9, <1>10, LoopStays, StoryQueue, SameRequests, SameLinks, SameResults
     DEF ToolStory
<1>12. Fits("dispatch", j, item, k, n)'
  BY <1>2, <1>4, <1>7, <1>8, <1>10, RequestedStays DEF Fits, ToolSteps, OracleSteps
<1>13. QED
  BY <1>5, <1>8, <1>9, <1>10, <1>11, <1>12, RecordKeeps

LEMMA DispatchToolIntentStep ==
  ASSUME ToolStory, NEW w \in Runner, DispatchToolIntent(w)
  PROVE  ToolStory'
<1>1. PICK j, i, k, n : j = Mine(w) /\ i = hand[w].item /\ k = hand[w].adapter
                        /\ n = hand[w].next
  OBVIOUS
<1>2. /\ Fits("dispatch", j, i, k, n) /\ j \in OracleJob /\ j \in Job /\ Requested(j)
      /\ j \notin ToolJob /\ i \in 1 .. intents[j] /\ hand[w].step # "idle"
  BY <1>1, InHand DEF DispatchToolIntent, Handling, Fits, OracleSteps, OracleJob
<1>3. ASSUME NEW t \in RequestsOf(Mine(w), hand[w].item),
             Looks(w, [Afresh(w, "enqueue") EXCEPT !.next = t])
      PROVE  ToolStory'
  <2>1. t \in Job /\ Requested(t) /\ event[t].cause = j
    BY <1>1, <1>3 DEF RequestsOf
  <2>2. HandGoes(w, "enqueue", j, 0, 0, t) /\ UNCHANGED <<loopVars, chainVars>>
    BY <1>1, <1>3, <2>1, StoryQueue, AfreshGoes DEF Looks, Steps
  <2>3. IsNext(j, t)
    BY <1>2, <2>1 DEF IsNext
  <2>4. Fits("enqueue", j, 0, 0, t)
    BY <1>2, <2>3 DEF Fits, ToolSteps, OracleSteps
  <2>5. QED
    BY <2>2, <2>4, LookKeeps
<1>4. ASSUME Budget(w) > 0, Looks(w, [hand[w] EXCEPT !.step = "ask"])
      PROVE  ToolStory'
  <2>1. GoTo(w, "ask") /\ UNCHANGED <<loopVars, chainVars>>
    BY <1>4 DEF Looks, GoTo
  <2>2. HandGoes(w, "ask", j, i, k, n)
    BY <1>1, <2>1, StoryQueue, GoToGoes DEF Steps
  <2>3. event[j].budget > 0
    BY <1>1, <1>4 DEF Budget, Mine
  <2>4. Fits("ask", j, i, k, n)
    BY <1>2, <2>3 DEF Fits, ToolSteps, OracleSteps
  <2>5. QED
    BY <2>1, <2>2, <2>4, LookKeeps
<1>5. ASSUME StopAndReturn(w, "budget_exhausted")
      PROVE  ToolStory'
  <2>1. <<j, "budget_exhausted">> \in stops' /\ intents' = intents
    BY <1>1, <1>5 DEF StopAndReturn, StopAutomation
  <2>2. PassedOn(j)'
    BY <1>2, <2>1 DEF PassedOn
  <2>3. QED
    BY <1>1, <1>2, <1>5, <2>2, StopAndReturnStep DEF Reasons
<1>6. QED
  BY <1>3, <1>4, <1>5 DEF DispatchToolIntent

LEMMA AppendToolRequestStep ==
  ASSUME ToolStory, NEW w \in Runner, NEW t \in Job, AppendToolRequest(w, t)
  PROVE  ToolStory' /\ ChainGrows
<1>1. PICK j, i, k, n : j = Mine(w) /\ i = hand[w].item /\ k = hand[w].adapter
                        /\ n = hand[w].next
  OBVIOUS
<1>2. /\ Fits("ask", j, i, k, n) /\ j \in OracleJob /\ j \in Job /\ Requested(j)
      /\ j \notin ToolJob /\ i \in 1 .. intents[j] /\ event[j].budget > 0 /\ i \in Nat
  BY <1>1, InHand DEF AppendToolRequest, Handling, Fits, OracleSteps, OracleJob
<1>3. PICK depth \in Nat, budget \in Nat :
        depth = event[j].depth /\ budget = event[j].budget - 1
  <2>1. event[j].depth \in Nat /\ event[j].budget \in Nat
    BY <1>2, RequestTyped
  <2>2. event[j].budget - 1 \in Nat
    BY <1>2, <2>1
  <2>3. QED
    BY <2>1, <2>2
<1>4. AppendRequest(t, j, i, depth, budget)
  BY <1>1, <1>3 DEF AppendToolRequest, Depth, Budget, Mine
<1>5. HandGoes(w, "enqueue", j, 0, 0, t)
  BY <1>1, StoryQueue, AfreshGoes DEF AppendToolRequest, Steps
<1>6. t \in ToolJob <=> j \in OracleJob
  BY <1>2 DEF AppendToolRequest
<1>7. UNCHANGED <<loopVars, approvals, results, billed, adapters, output, intents, stops>>
  BY DEF AppendToolRequest
<1>8. QED
  BY <1>2, <1>4, <1>5, <1>6, <1>7, NextRequested

-----------------------------------------------------------------------------
(* The invariant *)

LEMMA NextKeeps ==
  ASSUME ToolStory, ToolNext
  PROVE  ToolStory'
<1>1. ASSUME NEW w \in Runner, LoopStep(w) PROVE ToolStory'
  BY <1>1, TakeJobStep, AcknowledgeStep, StepRaisesStep, FailJobStep,
     StopAfterFailureStep, DieStep DEF LoopStep
<1>2. ASSUME NEW w \in Runner, ToolStep(w) PROVE ToolStory'
  BY <1>2, FindResultStep, ExecuteStep, LookForUsageStep, RecordUsageStep, JudgeStep,
     AdaptStep, ContinueStep, RequestOracleStep, EnqueueNextStep DEF ToolStep
<1>3. ASSUME NEW w \in Runner, OracleStep(w) PROVE ToolStory'
  BY <1>3, GenerateStep, AnalyseStep, AppendIntentStep, DispatchToolIntentStep,
     AppendToolRequestStep DEF OracleStep
<1>4. ASSUME OperatorStep PROVE ToolStory'
  BY <1>4, RequestToolStep, ApproveToolStep, ScheduleToolStep, RetryStep DEF OperatorStep
<1>5. QED
  BY <1>1, <1>2, <1>3, <1>4, ExpireStep DEF ToolNext

LEMMA StutterKeeps ==
  ASSUME ToolStory, UNCHANGED toolVars
  PROVE  ToolStory'
<1>1. UNCHANGED <<loopVars, chainVars>> /\ hand' = hand /\ UNCHANGED claimVars
      /\ faults' = faults /\ overdue' = overdue
  BY DEF toolVars, loopVars
<1>2. QueueMoves({}, {})
  BY <1>1, LoopStays
<1>3. hand' \in [Runner -> HandState] /\ faults' \in 0 .. MaxFaults /\ overdue' \in 0 .. MaxOverdue
  BY <1>1, StoryQueue DEF ToolTypeOK
<1>4. QED
  BY <1>1, <1>2, <1>3, QuietKeeps

LEMMA InitStory ==
  ASSUME ToolInit
  PROVE  ToolStory
<1>1. /\ \A j \in Job : ~Requested(j) /\ phase[j] = "new" /\ holder[j] = NoRunner
      /\ \A w \in Runner : hand[w] = IdleHand
      /\ \A t \in ToolJob : results[t] = <<>> /\ billed[t] = <<>> /\ adapters[t] = <<>>
  BY DEF ToolInit, ClaimInit, Requested
<1>2. ToolTypeOK
  BY ToolAssumption
     DEF ToolInit, ClaimInit, ToolTypeOK, HandState, IdleHand, Steps, NoJob
<1>3. ClaimsHeld /\ RequestsFit /\ LinksFit /\ CompletedChainGoesOn
  BY <1>1, ToolAssumption DEF ClaimsHeld, RequestsFit, LinksFit, CompletedChainGoesOn
<1>4. ResultsFit
  BY <1>1 DEF ResultsFit
<1>5. \A w \in Runner : HandFits(w)
  BY <1>1 DEF HandFits, IdleHand, Mine, ToolSteps, OracleSteps
<1>6. QED
  BY <1>2, <1>3, <1>4, <1>5 DEF ToolStory

\* The queue, the requests, what is recorded for them and what the processes have in
\* hand go together, whatever expires, fails, is retried or runs twice.
THEOREM ToolStoryHolds == ToolSpec => []ToolStory
<1>1. ToolInit => ToolStory
  BY InitStory
<1>2. ToolStory /\ [ToolNext]_toolVars => ToolStory'
  BY NextKeeps, StutterKeeps
<1>3. QED
  BY <1>1, <1>2, PTL DEF ToolSpec

\* Everything is typed, and no job of a chain is completed before it has done all it
\* owed to the chain: its events, its stop or the job that follows
\* (_execute_tool_job, _dispatch_tool_intent, complete).
THEOREM ToolInvariant == ToolSpec => []ToolInv
<1>1. ToolStory => ToolInv
  BY DEF ToolStory, ToolInv
<1>2. QED
  BY <1>1, ToolStoryHolds, PTL
-----------------------------------------------------------------------------
(* Chains none of whose leases expired under a live process *)

\* What ChainStory says of what is recorded.
ChainFits ==
  /\ \A t \in ToolJob : /\ Len(results[t]) <= 1 /\ Len(billed[t]) <= 1
                        /\ Len(adapters[t]) <= 1
  /\ \A j, k \in Job \ {Root} :
       (j # k /\ Requested(j) /\ Requested(k)) => event[j].cause # event[k].cause
  /\ \A t, u \in ToolJob : t # u => Shown(t) \cap Shown(u) = {}
  /\ \A o \in OracleJob : intents[o] <= 1
  /\ \A j, k \in Job : Tip(j) /\ Tip(k) => j = k

LEMMA ChainStoryIs ==
  ChainStory <=> (overdue = 0 => ChainFits /\ \A w \in Runner : HandOnTime(w))
BY DEF ChainStory, ChainFits, ChainOnTime, ChainIsALine, NoEquivalentAdapters

LEMMA ChainStoryNext ==
  ASSUME overdue' = 0 => ChainFits' /\ \A w \in Runner : HandOnTime(w)'
  PROVE  ChainStory'
<1>1. ChainFits' => ChainOnTime'
  BY Zenon DEF ChainFits, ChainOnTime, ChainIsALine, NoEquivalentAdapters
<1>2. ChainFits' => /\ \A o \in OracleJob : intents'[o] <= 1
                    /\ \A j, k \in Job : Tip(j)' /\ Tip(k)' => j = k
  BY DEF ChainFits
<1>3. QED
  BY <1>1, <1>2, Zenon DEF ChainStory

\* What HandOnTime says, of a step and what is in hand for it.
OnTime(w, step, j, i) ==
  /\ step \notin {"idle", "failing"} => holder[j] = w
  /\ step = "execute" => results[j] = <<>>
  /\ step = "bill" => billed[j] = <<>>
  /\ step = "adapt" => adapters[j] = <<>> /\ results[j][i] \notin Seen
  /\ step = "propose" => intents[j] = 0
  /\ step \in {"request", "ask"} => Tip(j)

LEMMA OnTimeNow ==
  ASSUME NEW w \in Runner, HandOnTime(w)
  PROVE  OnTime(w, hand[w].step, Mine(w), hand[w].item)
BY DEF HandOnTime, OnTime, Mine, Outcome

LEMMA OnTimeAfter ==
  ASSUME NEW w \in Runner, NEW step, NEW j, NEW i, NEW k, NEW n,
         HandGoes(w, step, j, i, k, n), OnTime(w, step, j, i)'
  PROVE  HandOnTime(w)'
BY DEF HandOnTime, OnTime, Mine, Outcome, HandGoes

recordVars == <<event, results, billed, adapters, intents>>

\* What is on time stays so where nothing is recorded and the claim stays.
LEMMA OnTimeQuietly ==
  ASSUME UNCHANGED recordVars, NEW w, NEW step, NEW j, NEW i, OnTime(w, step, j, i),
         step \notin {"idle", "failing"} => holder'[j] = holder[j]
  PROVE  OnTime(w, step, j, i)'
BY DEF OnTime, recordVars, Seen, Shown, Tip, Requested

LEMMA HandStaysOnTime ==
  ASSUME UNCHANGED recordVars, NEW v \in Runner, HandOnTime(v), hand'[v] = hand[v],
         hand[v].step \notin {"idle", "failing"} => holder'[Mine(v)] = holder[Mine(v)]
  PROVE  HandOnTime(v)'
<1>1. PICK step, j, i : step = hand[v].step /\ j = Mine(v) /\ i = hand[v].item
  OBVIOUS
<1>2. OnTime(v, step, j, i)'
  BY <1>1, OnTimeNow, OnTimeQuietly
<1>3. QED
  BY <1>1, <1>2 DEF HandOnTime, OnTime, Mine, Outcome

\* Two processes that are at work on time have different jobs.
LEMMA OneProcess ==
  ASSUME NEW v, NEW w, HandOnTime(v), HandOnTime(w), v # w,
         hand[v].step \notin {"idle", "failing"}, hand[w].step \notin {"idle", "failing"}
  PROVE  Mine(v) # Mine(w)
BY DEF HandOnTime, Mine

\* Nothing is recorded, and the claims of those at work stay: the chain stays on time
\* if the hand that moves is.
LEMMA QuietOnTime ==
  ASSUME ChainStory, UNCHANGED recordVars, overdue' = 0 => overdue = 0,
         \A v \in Runner : overdue' = 0 =>
           \/ HandOnTime(v)'
           \/ hand'[v] = hand[v] /\ (hand[v].step \notin {"idle", "failing"} =>
                                       holder'[Mine(v)] = holder[Mine(v)])
  PROVE  ChainStory'
<1>1. SUFFICES ASSUME overdue' = 0 PROVE ChainFits' /\ \A w \in Runner : HandOnTime(w)'
  BY ChainStoryNext
<1>2. ChainFits /\ \A w \in Runner : HandOnTime(w)
  BY <1>1, ChainStoryIs
<1>3. ChainFits'
  <2>1. /\ event' = event /\ results' = results /\ billed' = billed
        /\ adapters' = adapters /\ intents' = intents
    BY DEF recordVars
  <2>2. \A j \in Job : (Requested(j)' <=> Requested(j)) /\ (Tip(j)' <=> Tip(j))
    BY <2>1 DEF Tip, Requested
  <2>3. \A j \in Job \ {Root} : Requested(j)' <=> Requested(j)
    BY <2>2
  <2>4. \A j, k \in Job \ {Root} :
          (j # k /\ Requested(j)' /\ Requested(k)') => event'[j].cause # event'[k].cause
    BY <1>2, <2>1, <2>3 DEF ChainFits
  <2>5. \A j, k \in Job : Tip(j)' /\ Tip(k)' => j = k
    BY <1>2, <2>2 DEF ChainFits
  <2>6. /\ \A t \in ToolJob : /\ Len(results'[t]) <= 1 /\ Len(billed'[t]) <= 1
                              /\ Len(adapters'[t]) <= 1
        /\ \A o \in OracleJob : intents'[o] <= 1
    BY <1>2, <2>1 DEF ChainFits
  <2>7. \A t, u \in ToolJob : t # u => Shown(t)' \cap Shown(u)' = {}
    <3>1. \A t \in ToolJob : Shown(t)' = Shown(t)
      BY <2>1 DEF Shown
    <3>2. QED
      BY <1>2, <3>1 DEF ChainFits
  <2>8. QED
    BY <2>4, <2>5, <2>6, <2>7 DEF ChainFits
<1>4. \A w \in Runner : HandOnTime(w)'
  BY <1>1, <1>2, HandStaysOnTime
<1>5. QED
  BY <1>3, <1>4

\* A handler goes on, nothing is recorded and no claim changes.
LEMMA GoesOnTime ==
  ASSUME ChainStory, UNCHANGED recordVars, holder' = holder, overdue' = overdue,
         NEW w \in Runner, NEW step, NEW j, NEW i, NEW k, NEW n,
         HandGoes(w, step, j, i, k, n),
         overdue = 0 => OnTime(w, step, j, i)
  PROVE  ChainStory'
<1>1. overdue = 0 => HandOnTime(w)'
  BY OnTimeQuietly, OnTimeAfter
<1>2. QED
  BY <1>1, QuietOnTime DEF HandGoes

\* What holds of the handler of job j before its step.
LEMMA HandlerOnTime ==
  ASSUME ChainStory, overdue = 0, NEW w \in Runner
  PROVE  /\ OnTime(w, hand[w].step, Mine(w), hand[w].item) /\ ChainFits
         /\ \A v \in Runner : HandOnTime(v)
BY ChainStoryIs, OnTimeNow
-----------------------------------------------------------------------------
(* The loop, on time *)

\* A step that leaves the claims as they are, and nothing recorded, in which at most
\* one process stops working or has no more to answer for.
LEMMA RestsOnTime ==
  ASSUME ChainStory, UNCHANGED recordVars, holder' = holder, overdue' = overdue,
         NEW w \in Runner, \A v \in Runner \ {w} : hand'[v] = hand[v],
         hand'[w].step \in {"idle", "failing"} \/ hand'[w] = hand[w]
  PROVE  ChainStory'
<1>1. hand'[w].step \in {"idle", "failing"} => HandOnTime(w)'
  BY DEF HandOnTime
<1>2. QED
  BY <1>1, QuietOnTime

LEMMA TakeJobOnTime ==
  ASSUME ToolStory, ChainStory, NEW w \in Runner, NEW j \in Job, TakeJob(w, j)
  PROVE  ChainStory'
<1>1. holder[j] = NoRunner /\ holder'[j] = w /\ \A k \in Job \ {j} : holder'[k] = holder[k]
  BY StoryQueue, ClaimMoves DEF TakeJob
<1>2. PICK step \in {"find", "generate"} :
        Proceed(w, [IdleHand EXCEPT !.step = step, !.job = j])
  BY DEF TakeJob
<1>3. /\ hand'[w].step = step /\ hand'[w].job = j
      /\ \A v \in Runner \ {w} : hand'[v] = hand[v]
  BY <1>2, StoryQueue DEF ToolTypeOK, Proceed, IdleHand, HandState, Steps
<1>4. HandOnTime(w)'
  BY <1>1, <1>3 DEF HandOnTime, Mine
<1>5. ASSUME NEW v \in Runner \ {w}, overdue = 0, hand[v].step \notin {"idle", "failing"}
      PROVE  holder'[Mine(v)] = holder[Mine(v)]
  <2>1. Mine(v) \in Job /\ holder[Mine(v)] = v
    BY <1>5, MineIsJob, HandlerOnTime DEF OnTime
  <2>2. Mine(v) # j
    BY <1>1, <2>1, ToolAssumption
  <2>3. QED
    BY <1>1, <2>1, <2>2
<1>6. UNCHANGED recordVars /\ overdue' = overdue
  BY DEF TakeJob, chainVars, recordVars
<1>7. QED
  BY <1>3, <1>4, <1>5, <1>6, QuietOnTime

\* A process gives up the claim on its job.
LEMMA ReleaseOnTime ==
  ASSUME ToolStory, ChainStory, NEW w \in Runner, hand[w].step # "idle",
         NEW outcome \in {"waiting", "parked", "settled"}, Release(w, Mine(w), outcome),
         \A v \in Runner \ {w} : hand'[v] = hand[v],
         hand'[w].step \in {"idle", "failing"}, UNCHANGED <<overdue, chainVars>>
  PROVE  ChainStory'
<1>1. PICK j \in Job : j = Mine(w)
  BY MineIsJob
<1>2. holder[j] = w /\ \A k \in Job \ {j} : holder'[k] = holder[k]
  BY <1>1, StoryQueue, ReleaseMoves
<1>3. HandOnTime(w)'
  BY DEF HandOnTime
<1>4. ASSUME NEW v \in Runner \ {w}, overdue = 0, hand[v].step \notin {"idle", "failing"}
      PROVE  holder'[Mine(v)] = holder[Mine(v)]
  <2>1. Mine(v) \in Job /\ holder[Mine(v)] = v
    BY <1>4, MineIsJob, HandlerOnTime DEF OnTime
  <2>2. QED
    BY <1>2, <2>1
<1>5. UNCHANGED recordVars /\ overdue' = overdue
  BY DEF chainVars, recordVars
<1>6. QED
  BY <1>3, <1>4, <1>5, QuietOnTime

LEMMA LeavesOnTime ==
  ASSUME ToolStory, ChainStory, NEW w \in Runner, LeavesLoop(w)
  PROVE  ChainStory'
<1>1. HandGoes(w, "idle", NoJob, 0, 0, NoJob) /\ UNCHANGED <<loopVars, chainVars>>
  BY StoryQueue, IdleGoes DEF LeavesLoop, Looks
<1>2. UNCHANGED recordVars /\ holder' = holder /\ overdue' = overdue
  BY <1>1 DEF chainVars, recordVars, loopVars, claimVars
<1>3. QED
  BY <1>1, <1>2, RestsOnTime DEF HandGoes

LEMMA AcknowledgeOnTime ==
  ASSUME ToolStory, ChainStory, NEW w \in Runner, Acknowledge(w)
  PROVE  ChainStory'
<1>1. CASE LeavesLoop(w)
  BY <1>1, LeavesOnTime
<1>2. CASE /\ Release(w, Mine(w), "settled")
           /\ Proceed(w, IdleHand) /\ UNCHANGED <<faults, overdue, chainVars>>
  <2>1. HandGoes(w, "idle", NoJob, 0, 0, NoJob)
    BY <1>2, StoryQueue, IdleGoes
  <2>2. hand[w].step # "idle"
    BY DEF Acknowledge, Handling
  <2>3. QED
    BY <1>2, <2>1, <2>2, ReleaseOnTime DEF HandGoes
<1>3. QED
  BY <1>1, <1>2 DEF Acknowledge

LEMMA FailJobOnTime ==
  ASSUME ToolStory, ChainStory, NEW w \in Runner, FailJob(w)
  PROVE  ChainStory'
<1>1. CASE LeavesLoop(w)
  BY <1>1, LeavesOnTime
<1>2. ASSUME NEW outcome \in {"waiting", "parked"}, Release(w, Mine(w), outcome),
             GoTo(w, "failing"), UNCHANGED <<faults, overdue, chainVars>>
      PROVE  ChainStory'
  <2>1. HandGoes(w, "failing", Mine(w), hand[w].item, hand[w].adapter, hand[w].next)
    BY <1>2, StoryQueue, GoToGoes DEF Steps
  <2>2. hand[w].step # "idle"
    BY DEF FailJob, Handling
  <2>3. QED
    BY <1>2, <2>1, <2>2, ReleaseOnTime DEF HandGoes
<1>3. QED
  BY <1>1, <1>2 DEF FailJob

LEMMA StepRaisesOnTime ==
  ASSUME ToolStory, ChainStory, NEW w \in Runner, StepRaises(w)
  PROVE  ChainStory'
<1>1. PICK j, i : j = Mine(w) /\ i = hand[w].item
  OBVIOUS
<1>2. HandGoes(w, "raised", j, 0, 0, NoJob)
  BY <1>1, StoryQueue, ReturnGoes DEF StepRaises, Steps
<1>3. UNCHANGED recordVars /\ holder' = holder /\ overdue' = overdue
  BY DEF StepRaises, chainVars, recordVars, claimVars
<1>4. overdue = 0 => OnTime(w, "raised", j, 0)
  BY <1>1, HandlerOnTime DEF StepRaises, OnTime
<1>5. QED
  BY <1>2, <1>3, <1>4, GoesOnTime

LEMMA DieOnTime ==
  ASSUME ToolStory, ChainStory, NEW w \in Runner, Die(w)
  PROVE  ChainStory'
<1>1. HandGoes(w, "idle", NoJob, 0, 0, NoJob)
  BY StoryQueue, IdleGoes DEF Die
<1>2. UNCHANGED recordVars /\ holder' = holder /\ overdue' = overdue
  BY DEF Die, chainVars, recordVars, claimVars
<1>3. QED
  BY <1>1, <1>2, RestsOnTime DEF HandGoes

LEMMA StopAfterFailureOnTime ==
  ASSUME ToolStory, ChainStory, NEW w \in Runner, StopAfterFailure(w)
  PROVE  ChainStory'
<1>1. HandGoes(w, "idle", NoJob, 0, 0, NoJob)
  BY StoryQueue, IdleGoes DEF StopAfterFailure
<1>2. UNCHANGED recordVars /\ holder' = holder /\ overdue' = overdue
  BY DEF StopAfterFailure, recordVars, loopVars, claimVars
<1>3. QED
  BY <1>1, <1>2, RestsOnTime DEF HandGoes

LEMMA StopAndReturnOnTime ==
  ASSUME ToolStory, ChainStory, NEW w \in Runner, NEW reason, StopAndReturn(w, reason),
         hand[w].step \notin {"idle", "failing"}
  PROVE  ChainStory'
<1>1. PICK j : j = Mine(w)
  OBVIOUS
<1>2. HandGoes(w, "return", j, 0, 0, NoJob)
  BY <1>1, StoryQueue, ReturnGoes DEF StopAndReturn, Steps
<1>3. UNCHANGED recordVars /\ holder' = holder /\ overdue' = overdue
  BY DEF StopAndReturn, recordVars, loopVars, claimVars
<1>4. overdue = 0 => OnTime(w, "return", j, 0)
  BY <1>1, HandlerOnTime DEF OnTime
<1>5. QED
  BY <1>2, <1>3, <1>4, GoesOnTime

\* A lease that expires under no live process is nobody's at work.
LEMMA ExpireOnTime ==
  ASSUME ToolStory, ChainStory, NEW j \in Job, Expire(j)
  PROVE  ChainStory'
<1>1. \A k \in Job \ {j} : holder'[k] = holder[k]
  BY StoryQueue, LapseMoves DEF Expire
<1>2. /\ overdue \in Nat /\ UNCHANGED recordVars /\ hand' = hand
      /\ overdue' \in {overdue, overdue + 1}
  BY ToolAssumption, StoryQueue DEF Expire, ToolTypeOK, chainVars, recordVars
<1>3. overdue' = 0 => overdue = 0
  BY <1>2
<1>4. ASSUME NEW v \in Runner, overdue' = 0, hand[v].step \notin {"idle", "failing"}
      PROVE  holder'[Mine(v)] = holder[Mine(v)]
  <2>1. Mine(v) \in Job /\ holder[Mine(v)] = v
    BY <1>3, <1>4, MineIsJob, HandlerOnTime DEF OnTime
  <2>2. ~ (holder[j] = v /\ Mine(v) = j)
    BY <1>2, <1>4 DEF Expire
  <2>3. QED
    BY <1>1, <2>1, <2>2
<1>5. QED
  BY <1>2, <1>3, <1>4, QuietOnTime

\* The operator leaves the hands alone.
LEMMA OperatorOnTime ==
  ASSUME ChainStory, UNCHANGED recordVars, holder' = holder, overdue' = overdue,
         hand' = hand
  PROVE  ChainStory'
BY QuietOnTime

LEMMA OperatorStepOnTime ==
  ASSUME ToolStory, ChainStory, OperatorStep
  PROVE  ChainStory'
<1>1. ASSUME NEW t \in ToolJob, ApproveTool(t) PROVE ChainStory'
  BY <1>1, OperatorOnTime DEF ApproveTool, recordVars, loopVars, claimVars
<1>2. ASSUME NEW t \in ToolJob, ScheduleTool(t) PROVE ChainStory'
  BY <1>2, OperatorOnTime DEF ScheduleTool, Submit, recordVars, chainVars
<1>3. ASSUME NEW j \in Job, Retry(j) PROVE ChainStory'
  BY <1>3, OperatorOnTime DEF Retry, Revive, recordVars, chainVars
<1>4. ASSUME RequestTool PROVE ChainStory'
  <2>1. \A j \in Job : ~Requested(j)
    BY <1>4 DEF ToolStory, RequestsFit, RequestTool
  <2>2. \A j \in Job \ {Root} : ~Requested(j)'
    BY <1>4, <2>1, StoryQueue DEF RequestTool, ToolTypeOK, Requested
  <2>3. \A w \in Runner : hand'[w] = hand[w] /\ hand[w].step = "idle"
    BY <1>4, <2>1, MineIsJob DEF RequestTool
  <2>4. ASSUME overdue' = 0
        PROVE  ChainFits' /\ \A w \in Runner : HandOnTime(w)'
    <3>1. overdue = 0 /\ results' = results /\ billed' = billed /\ adapters' = adapters
          /\ intents' = intents
      BY <1>4, <2>4 DEF RequestTool, loopVars
    <3>2. ChainFits
      BY <3>1, ChainStoryIs
    <3>3. \A j, k \in Job : Tip(j)' /\ Tip(k)' => j = k
      BY <2>2 DEF Tip
    <3>4. \A t \in ToolJob : Shown(t)' = Shown(t)
      BY <3>1 DEF Shown
    <3>5. ChainFits'
      BY <2>2, <3>1, <3>2, <3>3, <3>4 DEF ChainFits
    <3>6. \A w \in Runner : HandOnTime(w)'
      BY <2>3 DEF HandOnTime
    <3>7. QED
      BY <3>5, <3>6
  <2>5. QED
    BY <2>4, ChainStoryNext
<1>5. QED
  BY <1>1, <1>2, <1>3, <1>4 DEF OperatorStep
-----------------------------------------------------------------------------
(* The handlers, on time *)

\* A sequence of at most one is empty or has its first.
LEMMA AtMostOne ==
  ASSUME NEW S, NEW s \in Seq(S), Len(s) <= 1
  PROVE  s = <<>> \/ DOMAIN s = {1}
<1>1. Len(s) \in Nat /\ DOMAIN s = 1 .. Len(s)
  OBVIOUS
<1>2. Len(s) = 0 \/ Len(s) = 1
  BY <1>1
<1>3. QED
  BY <1>1, <1>2

\* On time a tool has at most one result, the first, and so do its bill and its adapter.
LEMMA OneResult ==
  ASSUME ToolStory, ChainFits, NEW j \in ToolJob
  PROVE  /\ \A i \in DOMAIN results[j] : i = 1
         /\ billed[j] = <<>> \/ Members(billed[j]) = {1}
         /\ adapters[j] = <<>> \/ (DOMAIN adapters[j] = {1} /\ adapters[j][1] = 1)
<1>1. /\ results[j] \in Seq(Signature \cup {"error"}) /\ billed[j] \in Seq(Nat)
      /\ adapters[j] \in Seq(Nat)
      /\ Len(results[j]) <= 1 /\ Len(billed[j]) <= 1 /\ Len(adapters[j]) <= 1
  BY StoryQueue DEF ToolTypeOK, ChainFits
<1>2. \A i \in DOMAIN results[j] : i = 1
  <2>1. results[j] = <<>> \/ DOMAIN results[j] = {1}
    BY <1>1, AtMostOne
  <2>2. DOMAIN <<>> = {}
    OBVIOUS
  <2>3. QED
    BY <2>1, <2>2
<1>3. billed[j] = <<>> \/ DOMAIN billed[j] = {1}
  BY <1>1, AtMostOne
<1>4. adapters[j] = <<>> \/ DOMAIN adapters[j] = {1}
  BY <1>1, AtMostOne
<1>5. DOMAIN billed[j] = {1} => Members(billed[j]) = {1}
  BY <1>2 DEF ToolStory, ResultsFit, Members
<1>6. DOMAIN adapters[j] = {1} => adapters[j][1] = 1
  BY <1>2 DEF ToolStory, ResultsFit
<1>7. billed[j] = <<>> \/ Members(billed[j]) = {1}
  BY <1>3, <1>5
<1>8. adapters[j] = <<>> \/ (DOMAIN adapters[j] = {1} /\ adapters[j][1] = 1)
  BY <1>4, <1>6
<1>9. QED
  BY <1>2, <1>7, <1>8

\* A look leaves the records and the claims.
LEMMA LooksLeave ==
  ASSUME UNCHANGED <<loopVars, chainVars>>
  PROVE  UNCHANGED recordVars /\ holder' = holder /\ overdue' = overdue
BY DEF loopVars, claimVars, chainVars, recordVars

LEMMA FindResultOnTime ==
  ASSUME ToolStory, ChainStory, NEW w \in Runner, FindResult(w)
  PROVE  ChainStory'
<1>1. PICK j, i, k, n : j = Mine(w) /\ i = hand[w].item /\ k = hand[w].adapter
                        /\ n = hand[w].next
  OBVIOUS
<1>2. overdue = 0 => holder[j] = w
  BY <1>1, HandlerOnTime DEF FindResult, Handling, OnTime
<1>3. UNCHANGED <<loopVars, chainVars>>
  BY DEF FindResult, Looks
<1>4. CASE results[j] # <<>>
  <2>1. Proceed(w, [hand[w] EXCEPT !.step = "usage", !.item = 1])
    BY <1>1, <1>4 DEF FindResult, Looks
  <2>2. HandGoes(w, "usage", j, 1, k, n)
    BY <1>1, <2>1, StoryQueue, ItemGoes, Zenon DEF Steps
  <2>3. overdue = 0 => OnTime(w, "usage", j, 1)
    BY <1>2 DEF OnTime
  <2>4. QED
    BY <1>3, <2>2, <2>3, LooksLeave, GoesOnTime
<1>5. CASE results[j] = <<>>
  <2>1. GoTo(w, "execute")
    BY <1>1, <1>5 DEF FindResult, Looks, GoTo
  <2>2. HandGoes(w, "execute", j, i, k, n)
    BY <1>1, <2>1, StoryQueue, GoToGoes DEF Steps
  <2>3. overdue = 0 => OnTime(w, "execute", j, i)
    BY <1>2, <1>5 DEF OnTime
  <2>4. QED
    BY <1>3, <2>2, <2>3, LooksLeave, GoesOnTime
<1>6. QED
  BY <1>4, <1>5

LEMMA LookForUsageOnTime ==
  ASSUME ToolStory, ChainStory, NEW w \in Runner, LookForUsage(w)
  PROVE  ChainStory'
<1>1. PICK j, i, k, n : j = Mine(w) /\ i = hand[w].item /\ k = hand[w].adapter
                        /\ n = hand[w].next
  OBVIOUS
<1>2. j \in ToolJob /\ i \in DOMAIN results[j]
  BY <1>1, InHand DEF LookForUsage, Handling, Fits, ToolSteps
<1>3. overdue = 0 => holder[j] = w
  BY <1>1, HandlerOnTime DEF LookForUsage, Handling, OnTime
<1>4. UNCHANGED <<loopVars, chainVars>>
  BY DEF LookForUsage, Looks
<1>5. CASE i \in Members(billed[j])
  <2>1. GoTo(w, "judge")
    BY <1>1, <1>5 DEF LookForUsage, Looks, GoTo
  <2>2. HandGoes(w, "judge", j, i, k, n)
    BY <1>1, <2>1, StoryQueue, GoToGoes DEF Steps
  <2>3. overdue = 0 => OnTime(w, "judge", j, i)
    BY <1>3 DEF OnTime
  <2>4. QED
    BY <1>4, <2>2, <2>3, LooksLeave, GoesOnTime
<1>6. CASE i \notin Members(billed[j])
  <2>1. GoTo(w, "bill")
    BY <1>1, <1>6 DEF LookForUsage, Looks, GoTo
  <2>2. HandGoes(w, "bill", j, i, k, n)
    BY <1>1, <2>1, StoryQueue, GoToGoes DEF Steps
  <2>3. overdue = 0 => billed[j] = <<>>
    BY <1>2, <1>6, HandlerOnTime, OneResult
  <2>4. overdue = 0 => OnTime(w, "bill", j, i)
    BY <1>3, <2>3 DEF OnTime
  <2>5. QED
    BY <1>4, <2>2, <2>4, LooksLeave, GoesOnTime
<1>7. QED
  BY <1>5, <1>6

LEMMA JudgeOnTime ==
  ASSUME ToolStory, ChainStory, NEW w \in Runner, Judge(w)
  PROVE  ChainStory'
<1>1. PICK j, i, k, n : j = Mine(w) /\ i = hand[w].item /\ k = hand[w].adapter
                        /\ n = hand[w].next
  OBVIOUS
<1>2. j \in ToolJob /\ i \in DOMAIN results[j]
  BY <1>1, InHand DEF Judge, Handling, Fits, ToolSteps
<1>3. overdue = 0 => holder[j] = w
  BY <1>1, HandlerOnTime DEF Judge, Handling, OnTime
<1>4. ASSUME NEW l \in Adapted(w), Looks(w, [hand[w] EXCEPT !.step = "continue", !.adapter = l])
      PROVE  ChainStory'
  <2>1. l \in Nat
    <3>1. adapters[j] \in Seq(Nat)
      BY <1>2, StoryQueue DEF ToolTypeOK
    <3>2. QED
      BY <1>1, <1>4, <3>1 DEF Adapted, Mine
  <2>2. HandGoes(w, "continue", j, i, l, n) /\ UNCHANGED <<loopVars, chainVars>>
    BY <1>1, <1>4, <2>1, StoryQueue, AdapterGoes, Zenon DEF Looks, Steps
  <2>3. overdue = 0 => OnTime(w, "continue", j, i)
    BY <1>3 DEF OnTime
  <2>4. QED
    BY <2>2, <2>3, LooksLeave, GoesOnTime
<1>5. ASSUME StopAndReturn(w, StopReason(w))
      PROVE  ChainStory'
  BY <1>5, StopAndReturnOnTime DEF Judge, Handling
<1>6. ASSUME ~EndsHere(w), Adapted(w) = {}, Looks(w, [hand[w] EXCEPT !.step = "adapt"])
      PROVE  ChainStory'
  <2>1. GoTo(w, "adapt") /\ UNCHANGED <<loopVars, chainVars>>
    BY <1>6 DEF Looks, GoTo
  <2>2. HandGoes(w, "adapt", j, i, k, n)
    BY <1>1, <2>1, StoryQueue, GoToGoes DEF Steps
  <2>3. overdue = 0 => adapters[j] = <<>>
    BY <1>1, <1>2, <1>6, HandlerOnTime, OneResult DEF Adapted, Mine
  <2>4. results[j][i] \notin Seen
    BY <1>1, <1>6 DEF EndsHere, Outcome, Mine
  <2>5. overdue = 0 => OnTime(w, "adapt", j, i)
    BY <1>3, <2>3, <2>4 DEF OnTime
  <2>6. QED
    BY <2>1, <2>2, <2>5, LooksLeave, GoesOnTime
<1>7. QED
  BY <1>4, <1>5, <1>6 DEF Judge

\* A job whose every link would be the one that was looked for is the end of the chain.
LEMMA ContinueOnTime ==
  ASSUME ToolStory, ChainStory, NEW w \in Runner, Continue(w)
  PROVE  ChainStory'
<1>1. PICK j, i, k, n : j = Mine(w) /\ i = hand[w].item /\ k = hand[w].adapter
                        /\ n = hand[w].next
  OBVIOUS
<1>2. j \in ToolJob /\ j \in Job /\ Requested(j) /\ k \in DOMAIN adapters[j]
  BY <1>1, InHand DEF Continue, Handling, Fits, ToolSteps, Passed
<1>3. overdue = 0 => holder[j] = w
  BY <1>1, HandlerOnTime DEF Continue, Handling, OnTime
<1>4. ASSUME NEW o \in RequestsOf(Mine(w), hand[w].adapter),
             Looks(w, [Afresh(w, "enqueue") EXCEPT !.next = o])
      PROVE  ChainStory'
  <2>1. o \in Job
    BY <1>4 DEF RequestsOf
  <2>2. HandGoes(w, "enqueue", j, 0, 0, o) /\ UNCHANGED <<loopVars, chainVars>>
    BY <1>1, <1>4, <2>1, StoryQueue, AfreshGoes DEF Looks, Steps
  <2>3. overdue = 0 => OnTime(w, "enqueue", j, 0)
    BY <1>3 DEF OnTime
  <2>4. QED
    BY <2>2, <2>3, LooksLeave, GoesOnTime
<1>5. ASSUME RequestsOf(Mine(w), hand[w].adapter) = {},
             Looks(w, [hand[w] EXCEPT !.step = "request"])
      PROVE  ChainStory'
  <2>1. GoTo(w, "request") /\ UNCHANGED <<loopVars, chainVars>>
    BY <1>5 DEF Looks, GoTo
  <2>2. HandGoes(w, "request", j, i, k, n)
    BY <1>1, <2>1, StoryQueue, GoToGoes DEF Steps
  <2>3. ASSUME overdue = 0, NEW o \in Job, Requested(o), event[o].cause = j
        PROVE  FALSE
    <3>1. o # Root
      BY <1>2, <2>3, ToolAssumption DEF ToolStory, RequestsFit, NoJob
    <3>2. event[o].link \in DOMAIN adapters[j]
      BY <1>2, <2>3, <3>1 DEF ToolStory, LinksFit
    <3>3. DOMAIN adapters[j] = {1}
      <4>1. DOMAIN <<>> = {}
        OBVIOUS
      <4>2. QED
        BY <1>2, <2>3, <4>1, HandlerOnTime, OneResult
    <3>4. event[o].link = k
      BY <1>2, <3>2, <3>3
    <3>5. QED
      BY <1>1, <1>5, <2>3, <3>4 DEF RequestsOf
  <2>4. overdue = 0 => OnTime(w, "request", j, i)
    BY <1>2, <1>3, <2>3 DEF OnTime, Tip
  <2>5. QED
    BY <2>1, <2>2, <2>4, LooksLeave, GoesOnTime
<1>6. ASSUME StopAndReturn(w, "budget_exhausted")
      PROVE  ChainStory'
  BY <1>6, StopAndReturnOnTime DEF Continue, Handling
<1>7. QED
  BY <1>4, <1>5, <1>6 DEF Continue

LEMMA EnqueueNextOnTime ==
  ASSUME ToolStory, ChainStory, NEW w \in Runner, EnqueueNext(w)
  PROVE  ChainStory'
<1>1. PICK j, n : j = Mine(w) /\ n = hand[w].next
  OBVIOUS
<1>2. n \in Job
  BY <1>1, InHand DEF EnqueueNext, Handling, Fits, IsNext
<1>3. holder' = holder
  BY <1>1, <1>2, StoryQueue, EnqueueMoves DEF EnqueueNext
<1>4. HandGoes(w, "return", j, 0, 0, NoJob)
  BY <1>1, StoryQueue, ReturnGoes DEF EnqueueNext, Steps
<1>5. overdue = 0 => OnTime(w, "return", j, 0)
  BY <1>1, HandlerOnTime DEF EnqueueNext, Handling, OnTime
<1>6. UNCHANGED recordVars /\ overdue' = overdue
  BY DEF EnqueueNext, chainVars, recordVars
<1>7. QED
  BY <1>3, <1>4, <1>5, <1>6, GoesOnTime

LEMMA GenerateOnTime ==
  ASSUME ToolStory, ChainStory, NEW w \in Runner, Generate(w)
  PROVE  ChainStory'
<1>1. PICK j, i, k, n : j = Mine(w) /\ i = hand[w].item /\ k = hand[w].adapter
                        /\ n = hand[w].next
  OBVIOUS
<1>2. HandGoes(w, "analyse", j, i, k, n)
  BY <1>1, StoryQueue, GoToGoes DEF Generate, Steps
<1>3. overdue = 0 => OnTime(w, "analyse", j, i)
  BY <1>1, HandlerOnTime DEF Generate, Handling, OnTime
<1>4. UNCHANGED recordVars /\ holder' = holder /\ overdue' = overdue
  BY DEF Generate, recordVars, loopVars, claimVars
<1>5. QED
  BY <1>2, <1>3, <1>4, GoesOnTime

LEMMA AnalyseOnTime ==
  ASSUME ToolStory, ChainStory, NEW w \in Runner, Analyse(w)
  PROVE  ChainStory'
<1>1. PICK j, k, n : j = Mine(w) /\ k = hand[w].adapter /\ n = hand[w].next
  OBVIOUS
<1>2. j \in OracleJob
  BY <1>1, InHand DEF Analyse, Handling, Fits, OracleSteps
<1>3. overdue = 0 => holder[j] = w
  BY <1>1, HandlerOnTime DEF Analyse, Handling, OnTime
<1>4. PICK step \in {"return", "dispatch", "propose"}, item \in Nat :
        /\ step = "propose" => intents[j] = 0
        /\ Looks(w, [hand[w] EXCEPT !.step = step, !.item = item])
  <2>1. intents[j] \in Nat
    BY <1>2, StoryQueue DEF ToolTypeOK
  <2>2. ~(intents[j] > 0) => intents[j] = 0
    BY <2>1
  <2>3. QED
    BY <1>1, <2>1, <2>2 DEF Analyse
<1>5. HandGoes(w, step, j, item, k, n) /\ UNCHANGED <<loopVars, chainVars>>
  BY <1>1, <1>4, StoryQueue, ItemGoes, Zenon DEF Looks, Steps
<1>6. overdue = 0 => OnTime(w, step, j, item)
  BY <1>3, <1>4 DEF OnTime
<1>7. QED
  BY <1>5, <1>6, LooksLeave, GoesOnTime

LEMMA DispatchOnTime ==
  ASSUME ToolStory, ChainStory, NEW w \in Runner, DispatchToolIntent(w)
  PROVE  ChainStory'
<1>1. PICK j, i, k, n : j = Mine(w) /\ i = hand[w].item /\ k = hand[w].adapter
                        /\ n = hand[w].next
  OBVIOUS
<1>2. /\ j \in OracleJob /\ j \notin ToolJob /\ j \in Job /\ Requested(j)
      /\ i \in 1 .. intents[j]
  BY <1>1, InHand DEF DispatchToolIntent, Handling, Fits, OracleSteps, OracleJob
<1>3. overdue = 0 => holder[j] = w
  BY <1>1, HandlerOnTime DEF DispatchToolIntent, Handling, OnTime
<1>4. ASSUME NEW t \in RequestsOf(Mine(w), hand[w].item),
             Looks(w, [Afresh(w, "enqueue") EXCEPT !.next = t])
      PROVE  ChainStory'
  <2>1. t \in Job
    BY <1>4 DEF RequestsOf
  <2>2. HandGoes(w, "enqueue", j, 0, 0, t) /\ UNCHANGED <<loopVars, chainVars>>
    BY <1>1, <1>4, <2>1, StoryQueue, AfreshGoes DEF Looks, Steps
  <2>3. overdue = 0 => OnTime(w, "enqueue", j, 0)
    BY <1>3 DEF OnTime
  <2>4. QED
    BY <2>2, <2>3, LooksLeave, GoesOnTime
<1>5. ASSUME RequestsOf(Mine(w), hand[w].item) = {}, Looks(w, [hand[w] EXCEPT !.step = "ask"])
      PROVE  ChainStory'
  <2>1. GoTo(w, "ask") /\ UNCHANGED <<loopVars, chainVars>>
    BY <1>5 DEF Looks, GoTo
  <2>2. HandGoes(w, "ask", j, i, k, n)
    BY <1>1, <2>1, StoryQueue, GoToGoes DEF Steps
  <2>3. ASSUME overdue = 0, NEW t \in Job, Requested(t), event[t].cause = j
        PROVE  FALSE
    <3>1. t # Root
      BY <1>2, <2>3, ToolAssumption DEF ToolStory, RequestsFit, NoJob
    <3>2. event[t].link \in 1 .. intents[j]
      BY <1>2, <2>3, <3>1 DEF ToolStory, LinksFit
    <3>3. intents[j] \in Nat /\ intents[j] <= 1
      BY <1>2, <2>3, StoryQueue, HandlerOnTime DEF ToolTypeOK, ChainFits
    <3>4. event[t].link = i
      BY <1>2, <3>2, <3>3
    <3>5. QED
      BY <1>1, <1>5, <2>3, <3>4 DEF RequestsOf
  <2>4. overdue = 0 => OnTime(w, "ask", j, i)
    BY <1>2, <1>3, <2>3 DEF OnTime, Tip
  <2>5. QED
    BY <2>1, <2>2, <2>4, LooksLeave, GoesOnTime
<1>6. ASSUME StopAndReturn(w, "budget_exhausted")
      PROVE  ChainStory'
  BY <1>6, StopAndReturnOnTime DEF DispatchToolIntent, Handling
<1>7. QED
  BY <1>4, <1>5, <1>6 DEF DispatchToolIntent
-----------------------------------------------------------------------------
(* What is recorded on time *)

\* Where requests stay, so does the end of the chain.
LEMMA SameTip ==
  ASSUME event' = event
  PROVE  \A j \in Job : (Requested(j)' <=> Requested(j)) /\ (Tip(j)' <=> Tip(j))
BY DEF Tip, Requested

\* A result that follows shows nothing until it is adapted.
LEMMA SameShown ==
  ASSUME ToolStory, ChainGrows, adapters' = adapters
  PROVE  (\A t \in ToolJob : Shown(t)' = Shown(t)) /\ Seen' = Seen
<1>1. ASSUME NEW t \in ToolJob PROVE Shown(t)' = Shown(t)
  <2>1. \A i \in Members(adapters[t]) : results'[t][i] = results[t][i]
    BY DEF ToolStory, ResultsFit, ChainGrows, Continues, Members
  <2>2. QED
    BY <2>1 DEF Shown
<1>2. QED
  BY <1>1 DEF Seen

\* A handler records something for its own job that is not a request: the others, which
\* are at other jobs, stay on time.
LEMMA OthersOnTime ==
  ASSUME ToolStory, ChainGrows, event' = event, adapters' = adapters, holder' = holder,
         NEW v \in Runner, HandOnTime(v), hand'[v] = hand[v],
         hand[v].step \notin {"idle", "failing"} =>
           /\ Mine(v) \in ToolJob => /\ results'[Mine(v)] = results[Mine(v)]
                                     /\ billed'[Mine(v)] = billed[Mine(v)]
           /\ Mine(v) \in OracleJob => intents'[Mine(v)] = intents[Mine(v)]
  PROVE  HandOnTime(v)'
<1>1. CASE hand[v].step \in {"idle", "failing"}
  BY <1>1 DEF HandOnTime
<1>2. CASE hand[v].step \notin {"idle", "failing"}
  <2>1. PICK step, j, i : step = hand[v].step /\ j = Mine(v) /\ i = hand[v].item
    OBVIOUS
  <2>2. OnTime(v, step, j, i) /\ j \in Job
    BY <1>2, <2>1, OnTimeNow, MineIsJob
  <2>3. /\ step \in ToolSteps => j \in ToolJob
        /\ step \in OracleSteps => j \in OracleJob
    BY <1>2, <2>1, InHand DEF Fits
  <2>4. Seen' = Seen /\ (Tip(j)' <=> Tip(j))
    BY <2>2, SameShown, SameTip
  <2>5. OnTime(v, step, j, i)'
    BY <1>2, <2>1, <2>2, <2>3, <2>4 DEF OnTime, ToolSteps, OracleSteps
  <2>6. QED
    BY <2>1, <2>5 DEF HandOnTime, OnTime, Mine, Outcome
<1>3. QED
  BY <1>1, <1>2

LEMMA RecordsOnTime ==
  ASSUME ToolStory, ChainStory, ChainGrows, UNCHANGED <<loopVars, event, adapters>>,
         NEW w \in Runner, NEW step \in {"usage", "judge", "dispatch"},
         NEW j, j = Mine(w), NEW i, NEW k, NEW n, HandGoes(w, step, j, i, k, n),
         hand[w].step \notin {"idle", "failing"},
         \A t \in ToolJob \ {j} : results'[t] = results[t] /\ billed'[t] = billed[t],
         \A o \in OracleJob \ {j} : intents'[o] = intents[o],
         overdue = 0 => /\ j \in ToolJob => Len(results'[j]) <= 1 /\ Len(billed'[j]) <= 1
                        /\ j \in OracleJob => intents'[j] <= 1
  PROVE  ChainStory'
<1>1. event' = event /\ adapters' = adapters /\ holder' = holder /\ overdue' = overdue
  BY LoopStays
<1>2. SUFFICES ASSUME overdue = 0 PROVE ChainFits' /\ \A v \in Runner : HandOnTime(v)'
  BY <1>1, ChainStoryNext
<1>3. OnTime(w, hand[w].step, j, hand[w].item) /\ ChainFits /\ \A v \in Runner : HandOnTime(v)
  BY <1>2, HandlerOnTime
<1>4. HandOnTime(w)'
  <2>1. OnTime(w, step, j, i)'
    BY <1>1, <1>3 DEF OnTime
  <2>2. QED
    BY <2>1, OnTimeAfter
<1>5. ASSUME NEW v \in Runner, v # w PROVE HandOnTime(v)'
  <2>1. hand[v].step \notin {"idle", "failing"} => Mine(v) # j
    BY <1>3, <1>5, OneProcess
  <2>2. HandOnTime(v) /\ hand'[v] = hand[v]
    BY <1>3, <1>5 DEF HandGoes
  <2>3. hand[v].step \notin {"idle", "failing"} =>
          /\ Mine(v) \in ToolJob => /\ results'[Mine(v)] = results[Mine(v)]
                                    /\ billed'[Mine(v)] = billed[Mine(v)]
          /\ Mine(v) \in OracleJob => intents'[Mine(v)] = intents[Mine(v)]
    BY <2>1
  <2>4. QED
    BY <1>1, <2>2, <2>3, OthersOnTime
<1>6. ChainFits'
  <2>1. \A t \in ToolJob : /\ Len(results'[t]) <= 1 /\ Len(billed'[t]) <= 1
                           /\ Len(adapters'[t]) <= 1
    BY <1>1, <1>2, <1>3 DEF ChainFits
  <2>2. \A o \in OracleJob : intents'[o] <= 1
    BY <1>2, <1>3 DEF ChainFits
  <2>3. \A t, u \in ToolJob : t # u => Shown(t)' \cap Shown(u)' = {}
    BY <1>1, <1>3, SameShown DEF ChainFits
  <2>4. \A l, m \in Job \ {Root} :
          (l # m /\ Requested(l)' /\ Requested(m)') => event'[l].cause # event'[m].cause
    BY <1>1, <1>3, SameTip DEF ChainFits
  <2>5. \A l, m \in Job : Tip(l)' /\ Tip(m)' => l = m
    BY <1>1, <1>3, SameTip DEF ChainFits
  <2>6. QED
    BY <2>1, <2>2, <2>3, <2>4, <2>5 DEF ChainFits
<1>7. QED
  BY <1>4, <1>5, <1>6

\* A sequence that was empty has one once x is appended.
LEMMA FirstAppended ==
  ASSUME NEW x
  PROVE  Len(Append(<<>>, x)) <= 1
OBVIOUS

LEMMA ExecuteOnTime ==
  ASSUME ToolStory, ChainGrows, ChainStory, NEW w \in Runner,
         NEW outcome \in Signature \cup {"error"}, Execute(w, outcome)
  PROVE  ChainStory'
<1>1. PICK j, i, k, n : j = Mine(w) /\ i = hand[w].item /\ k = hand[w].adapter
                        /\ n = hand[w].next
  OBVIOUS
<1>2. j \in ToolJob /\ j \notin OracleJob /\ hand[w].step \notin {"idle", "failing"}
  BY <1>1, InHand DEF Execute, Handling, Fits, ToolSteps, OracleJob
<1>3. results[j] \in Seq(Signature \cup {"error"})
  BY <1>2, StoryQueue DEF ToolTypeOK
<1>4. PICK len \in Nat : len = Len(results[j]) + 1
  BY <1>3
<1>5. HandGoes(w, "usage", j, len, k, n)
  BY <1>1, <1>4, StoryQueue, ItemGoes, Zenon DEF Execute, Steps
<1>6. /\ results' = [results EXCEPT ![j] = Append(@, outcome)]
      /\ UNCHANGED <<loopVars, event, adapters>> /\ billed' = billed /\ intents' = intents
  BY <1>1 DEF Execute
<1>7. /\ results'[j] = Append(results[j], outcome)
      /\ \A t \in ToolJob \ {j} : results'[t] = results[t]
  BY <1>2, <1>6, StoryQueue DEF ToolTypeOK
<1>8. overdue = 0 => Len(results'[j]) <= 1 /\ Len(billed'[j]) <= 1
  <2>1. overdue = 0 => results[j] = <<>> /\ Len(billed[j]) <= 1
    BY <1>1, <1>2, HandlerOnTime DEF Execute, Handling, OnTime, ChainFits
  <2>2. QED
    BY <1>6, <1>7, <2>1, FirstAppended
<1>9. QED
  BY <1>1, <1>2, <1>5, <1>6, <1>7, <1>8, RecordsOnTime

LEMMA RecordUsageOnTime ==
  ASSUME ToolStory, ChainGrows, ChainStory, NEW w \in Runner, RecordUsage(w)
  PROVE  ChainStory'
<1>1. PICK j, i, k, n : j = Mine(w) /\ i = hand[w].item /\ k = hand[w].adapter
                        /\ n = hand[w].next
  OBVIOUS
<1>2. j \in ToolJob /\ j \notin OracleJob /\ hand[w].step \notin {"idle", "failing"}
  BY <1>1, InHand DEF RecordUsage, Handling, Fits, ToolSteps, OracleJob
<1>3. HandGoes(w, "judge", j, i, k, n)
  BY <1>1, StoryQueue, GoToGoes DEF RecordUsage, Steps
<1>4. /\ billed' = [billed EXCEPT ![j] = Append(@, i)]
      /\ UNCHANGED <<loopVars, event, adapters>> /\ results' = results /\ intents' = intents
  BY <1>1 DEF RecordUsage
<1>5. /\ billed'[j] = Append(billed[j], i)
      /\ \A t \in ToolJob \ {j} : billed'[t] = billed[t]
  BY <1>2, <1>4, StoryQueue DEF ToolTypeOK
<1>6. overdue = 0 => Len(results'[j]) <= 1 /\ Len(billed'[j]) <= 1
  <2>1. overdue = 0 => billed[j] = <<>> /\ Len(results[j]) <= 1
    BY <1>1, <1>2, HandlerOnTime DEF RecordUsage, Handling, OnTime, ChainFits
  <2>2. QED
    BY <1>4, <1>5, <2>1, FirstAppended
<1>7. QED
  BY <1>1, <1>2, <1>3, <1>4, <1>5, <1>6, RecordsOnTime

LEMMA AppendIntentOnTime ==
  ASSUME ToolStory, ChainGrows, ChainStory, NEW w \in Runner, AppendIntent(w)
  PROVE  ChainStory'
<1>1. PICK j, i, k, n : j = Mine(w) /\ i = hand[w].item /\ k = hand[w].adapter
                        /\ n = hand[w].next
  OBVIOUS
<1>2. j \in OracleJob /\ j \notin ToolJob /\ hand[w].step \notin {"idle", "failing"}
  BY <1>1, InHand DEF AppendIntent, Handling, Fits, OracleSteps, OracleJob
<1>3. intents[j] \in Nat
  BY <1>2, StoryQueue DEF ToolTypeOK
<1>4. PICK item \in Nat : item = intents[j] + 1
  BY <1>3
<1>5. HandGoes(w, "dispatch", j, item, k, n)
  BY <1>1, <1>4, StoryQueue, ItemGoes, Zenon DEF AppendIntent, Steps
<1>6. /\ intents' = [intents EXCEPT ![j] = item]
      /\ UNCHANGED <<loopVars, event, adapters>> /\ results' = results /\ billed' = billed
  BY <1>1, <1>4 DEF AppendIntent
<1>7. intents'[j] = item /\ \A o \in OracleJob \ {j} : intents'[o] = intents[o]
  BY <1>2, <1>6, StoryQueue DEF ToolTypeOK
<1>8. overdue = 0 => intents'[j] <= 1
  <2>1. overdue = 0 => intents[j] = 0
    BY <1>1, HandlerOnTime DEF AppendIntent, Handling, OnTime
  <2>2. QED
    BY <1>4, <1>7, <2>1
<1>9. QED
  BY <1>1, <1>2, <1>5, <1>6, <1>7, <1>8, RecordsOnTime
\* A tool job that nothing was adapted for is the end of the chain.
LEMMA BareIsTip ==
  ASSUME ToolStory, NEW j \in ToolJob, Requested(j), adapters[j] = <<>>
  PROVE  Tip(j)
<1>1. ASSUME NEW o \in Job, Requested(o), event[o].cause = j
      PROVE  FALSE
  <2>1. o # Root /\ j \in Job
    BY <1>1, ToolAssumption DEF ToolStory, RequestsFit, NoJob
  <2>2. event[o].link \in DOMAIN adapters[j]
    BY <1>1, <2>1 DEF ToolStory, LinksFit
  <2>3. DOMAIN <<>> = {}
    OBVIOUS
  <2>4. QED
    BY <2>2, <2>3
<1>2. QED
  BY <1>1 DEF Tip

LEMMA AdaptOnTime ==
  ASSUME ToolStory, ChainGrows, ChainStory, NEW w \in Runner, Adapt(w)
  PROVE  ChainStory'
<1>1. PICK j, i, k, n : j = Mine(w) /\ i = hand[w].item /\ k = hand[w].adapter
                        /\ n = hand[w].next
  OBVIOUS
<1>2. /\ j \in ToolJob /\ j \in Job /\ hand[w].step \notin {"idle", "failing"} /\ Requested(j)
      /\ hand[w].step = "adapt" /\ i \in DOMAIN results[j] /\ i \in Nat
  BY <1>1, InHand DEF Adapt, Handling, Fits, ToolSteps
<1>3. adapters[j] \in Seq(Nat)
  BY <1>2, StoryQueue DEF ToolTypeOK
<1>4. PICK len \in Nat : len = Len(adapters[j]) + 1
  BY <1>3
<1>5. HandGoes(w, "continue", j, i, len, n)
  BY <1>1, <1>4, StoryQueue, AdapterGoes, Zenon DEF Adapt, Steps
<1>6. /\ adapters' = [adapters EXCEPT ![j] = Append(@, i)] /\ UNCHANGED loopVars
      /\ event' = event /\ results' = results /\ billed' = billed /\ intents' = intents
  BY <1>1 DEF Adapt
<1>7. holder' = holder /\ overdue' = overdue
  BY <1>6, LoopStays
<1>8. SUFFICES ASSUME overdue = 0 PROVE ChainFits' /\ \A v \in Runner : HandOnTime(v)'
  BY <1>7, ChainStoryNext
<1>9. /\ holder[j] = w /\ adapters[j] = <<>> /\ results[j][i] \notin Seen /\ ChainFits
      /\ \A v \in Runner : HandOnTime(v)
  BY <1>1, <1>2, <1>8, HandlerOnTime DEF OnTime
<1>10. /\ adapters'[j] = Append(<<>>, i)
       /\ \A t \in ToolJob \ {j} : adapters'[t] = adapters[t]
  BY <1>2, <1>6, <1>9, StoryQueue DEF ToolTypeOK
<1>11. Members(adapters'[j]) = {i} /\ Len(adapters'[j]) <= 1
  <2>1. PICK s : s = Append(<<>>, i)
    OBVIOUS
  <2>2. DOMAIN s = {1} /\ s[1] = i /\ Len(s) <= 1
    BY <2>1
  <2>3. Members(s) = {i}
    BY <2>2 DEF Members
  <2>4. QED
    BY <1>10, <2>1, <2>2, <2>3
<1>12. Tip(j)
  BY <1>2, <1>9, BareIsTip
<1>13. HandOnTime(w)'
  <2>1. OnTime(w, "continue", j, i)'
    BY <1>7, <1>9 DEF OnTime
  <2>2. QED
    BY <1>5, <2>1, OnTimeAfter
<1>14. ASSUME NEW v \in Runner, v # w PROVE HandOnTime(v)'
  <2>1. CASE hand[v].step \in {"idle", "failing"}
    BY <1>5, <1>14, <2>1 DEF HandOnTime, HandGoes
  <2>2. CASE hand[v].step \notin {"idle", "failing"}
    <3>1. PICK step, m, a : step = hand[v].step /\ m = Mine(v) /\ a = hand[v].item
      OBVIOUS
    <3>2. OnTime(v, step, m, a) /\ m \in Job /\ m # j /\ Requested(m)
      BY <1>1, <1>2, <1>9, <1>14, <2>2, <3>1, OnTimeNow, MineIsJob, OneProcess
    <3>3. step = "adapt" => m \in ToolJob
      BY <2>2, <3>1, InHand DEF Fits, ToolSteps
    <3>4. step # "adapt"
      BY <1>2, <1>9, <1>12, <3>2, <3>3, BareIsTip DEF OnTime, ChainFits
    <3>5. OnTime(v, step, m, a)'
      BY <1>6, <1>7, <3>2, <3>4, SameTip DEF OnTime
    <3>6. QED
      BY <1>5, <1>14, <3>1, <3>5 DEF HandOnTime, OnTime, Mine, Outcome, HandGoes
  <2>3. QED
    BY <2>1, <2>2
<1>15. ChainFits'
  <2>1. \A t \in ToolJob : /\ Len(results'[t]) <= 1 /\ Len(billed'[t]) <= 1
                           /\ Len(adapters'[t]) <= 1
    BY <1>6, <1>9, <1>10, <1>11 DEF ChainFits
  <2>2. \A o \in OracleJob : intents'[o] <= 1
    BY <1>6, <1>9 DEF ChainFits
  <2>3. \A t \in ToolJob \ {j} : Shown(t)' = Shown(t) /\ Shown(t) \subseteq Seen
    BY <1>6, <1>10 DEF Shown, Seen
  <2>4. Shown(j)' = {results[j][i]}
    BY <1>6, <1>11 DEF Shown
  <2>5. \A t, u \in ToolJob : t # u => Shown(t)' \cap Shown(u)' = {}
    <3>1. ASSUME NEW t \in ToolJob, NEW u \in ToolJob, t # u
          PROVE  Shown(t)' \cap Shown(u)' = {}
      <4>1. CASE t # j /\ u # j
        BY <1>9, <2>3, <3>1, <4>1 DEF ChainFits
      <4>2. CASE t = j
        <5>1. Shown(u)' \subseteq Seen
          BY <2>3, <3>1, <4>2
        <5>2. QED
          BY <1>9, <2>4, <4>2, <5>1
      <4>3. CASE u = j
        <5>1. Shown(t)' \subseteq Seen
          BY <2>3, <3>1, <4>3
        <5>2. QED
          BY <1>9, <2>4, <4>3, <5>1
      <4>4. QED
        BY <4>1, <4>2, <4>3
    <3>2. QED
      BY <3>1
  <2>6. \A l, m \in Job \ {Root} :
          (l # m /\ Requested(l)' /\ Requested(m)') => event'[l].cause # event'[m].cause
    BY <1>6, <1>9, SameTip DEF ChainFits
  <2>7. \A l, m \in Job : Tip(l)' /\ Tip(m)' => l = m
    BY <1>6, <1>9, SameTip DEF ChainFits
  <2>8. QED
    BY <2>1, <2>2, <2>5, <2>6, <2>7 DEF ChainFits
<1>16. QED
  BY <1>13, <1>14, <1>15

\* The request that follows the end of the chain is its new end.
LEMMA NextOnTime ==
  ASSUME ToolStory, ChainGrows, ChainStory, NEW w \in Runner, NEW c, c = Mine(w),
         hand[w].step \in {"request", "ask"}, NEW n \in Job, NEW l \in Nat,
         NEW depth \in Nat, NEW budget \in Nat, AppendRequest(n, c, l, depth, budget),
         HandGoes(w, "enqueue", c, 0, 0, n),
         UNCHANGED <<loopVars, results, billed, adapters, intents>>
  PROVE  ChainStory'
<1>1. holder' = holder /\ overdue' = overdue /\ c \in Job /\ Requested(c)
  BY LoopStays, MineIsJob
<1>2. SUFFICES ASSUME overdue = 0 PROVE ChainFits' /\ \A v \in Runner : HandOnTime(v)'
  BY <1>1, ChainStoryNext
<1>3. holder[c] = w /\ Tip(c) /\ ChainFits /\ \A v \in Runner : HandOnTime(v)
  BY <1>2, HandlerOnTime DEF OnTime
<1>4. PICK r : r = [cause |-> c, link |-> l, depth |-> depth, budget |-> budget]
  OBVIOUS
<1>5. r \in RequestRecord /\ r.cause = c
  BY <1>1, <1>4 DEF RequestRecord
<1>6. /\ ~Requested(n) /\ n # Root /\ n # c /\ event'[n] = r
      /\ \A j \in Job : j # n => event'[j] = event[j]
  BY <1>1, <1>4, StoryQueue DEF AppendRequest, ToolTypeOK
<1>7. Requested(n)' /\ \A j \in Job : j # n => (Requested(j)' <=> Requested(j))
  BY <1>5, <1>6, RequestIsOne DEF Requested
<1>8. HandOnTime(w)'
  <2>1. OnTime(w, "enqueue", c, 0)'
    BY <1>1, <1>3 DEF OnTime
  <2>2. QED
    BY <2>1, OnTimeAfter
<1>9. ASSUME NEW v \in Runner, v # w PROVE HandOnTime(v)'
  <2>1. CASE hand[v].step \in {"idle", "failing"}
    BY <1>9, <2>1 DEF HandOnTime, HandGoes
  <2>2. CASE hand[v].step \notin {"idle", "failing"}
    <3>1. PICK step, m, a : step = hand[v].step /\ m = Mine(v) /\ a = hand[v].item
      OBVIOUS
    <3>2. OnTime(v, step, m, a) /\ m \in Job /\ m # c
      BY <1>3, <1>9, <2>2, <3>1, OnTimeNow, MineIsJob, OneProcess
    <3>3. step \notin {"request", "ask"}
      BY <1>1, <1>3, <3>2 DEF OnTime, ChainFits
    <3>4. Seen' = Seen
      BY DEF Seen, Shown
    <3>5. OnTime(v, step, m, a)'
      BY <1>1, <3>2, <3>3, <3>4 DEF OnTime
    <3>6. QED
      BY <1>9, <3>1, <3>5 DEF HandOnTime, OnTime, Mine, Outcome, HandGoes
  <2>3. QED
    BY <2>1, <2>2
<1>10. ASSUME NEW m \in Job, Tip(m)' PROVE m = n
  <2>1. CASE m = c
    BY <1>5, <1>6, <1>7, <1>10, <2>1 DEF Tip
  <2>2. CASE m # c /\ m # n
    <3>1. Requested(m)
      BY <1>7, <1>10, <2>2 DEF Tip
    <3>2. \A k \in Job : Requested(k) => event[k].cause # m
      BY <1>6, <1>7, <1>10 DEF Tip
    <3>3. QED
      BY <1>1, <1>3, <2>2, <3>1, <3>2 DEF ChainFits, Tip
  <2>3. QED
    BY <2>1, <2>2
<1>11. ASSUME NEW p \in Job \ {Root}, NEW m \in Job \ {Root}, p # m, Requested(p)',
              Requested(m)'
       PROVE  event'[p].cause # event'[m].cause
  <2>1. CASE p # n /\ m # n
    BY <1>3, <1>6, <1>7, <1>11, <2>1 DEF ChainFits
  <2>2. CASE p = n
    BY <1>3, <1>5, <1>6, <1>7, <1>11, <2>2 DEF Tip
  <2>3. CASE m = n
    BY <1>3, <1>5, <1>6, <1>7, <1>11, <2>3 DEF Tip
  <2>4. QED
    BY <2>1, <2>2, <2>3
<1>12. ChainFits'
  <2>1. /\ \A t \in ToolJob : /\ Len(results'[t]) <= 1 /\ Len(billed'[t]) <= 1
                              /\ Len(adapters'[t]) <= 1
        /\ \A o \in OracleJob : intents'[o] <= 1
    BY <1>3 DEF ChainFits
  <2>2. \A t \in ToolJob : Shown(t)' = Shown(t)
    BY DEF Shown
  <2>3. \A t, u \in ToolJob : t # u => Shown(t)' \cap Shown(u)' = {}
    BY <1>3, <2>2 DEF ChainFits
  <2>4. QED
    BY <1>10, <1>11, <2>1, <2>3 DEF ChainFits
<1>13. QED
  BY <1>8, <1>9, <1>12

LEMMA RequestOracleOnTime ==
  ASSUME ToolStory, ChainGrows, ChainStory, NEW w \in Runner, NEW o \in Job,
         RequestOracle(w, o)
  PROVE  ChainStory'
<1>1. PICK j, k : j = Mine(w) /\ k = hand[w].adapter
  OBVIOUS
<1>2. hand[w].step = "request" /\ j \in Job /\ Requested(j) /\ event[j].budget > 1 /\ k \in Nat
  BY <1>1, InHand DEF RequestOracle, Handling, Fits
<1>3. PICK depth \in Nat, budget \in Nat :
        depth = event[j].depth + 1 /\ budget = event[j].budget - 2
  <2>1. event[j].depth \in Nat /\ event[j].budget \in Nat
    BY <1>2, RequestTyped
  <2>2. event[j].depth + 1 \in Nat /\ event[j].budget - 2 \in Nat
    BY <1>2, <2>1
  <2>3. QED
    BY <2>1, <2>2
<1>4. AppendRequest(o, j, k, depth, budget)
  BY <1>1, <1>3 DEF RequestOracle, Depth, Budget, Mine
<1>5. HandGoes(w, "enqueue", j, 0, 0, o)
  BY <1>1, StoryQueue, AfreshGoes DEF RequestOracle, Steps
<1>6. UNCHANGED <<loopVars, results, billed, adapters, intents>>
  BY DEF RequestOracle
<1>7. QED
  BY <1>1, <1>2, <1>4, <1>5, <1>6, NextOnTime

LEMMA AppendToolRequestOnTime ==
  ASSUME ToolStory, ChainGrows, ChainStory, NEW w \in Runner, NEW t \in Job,
         AppendToolRequest(w, t)
  PROVE  ChainStory'
<1>1. PICK j, i : j = Mine(w) /\ i = hand[w].item
  OBVIOUS
<1>2. hand[w].step = "ask" /\ j \in Job /\ Requested(j) /\ event[j].budget > 0 /\ i \in Nat
  BY <1>1, InHand DEF AppendToolRequest, Handling, Fits
<1>3. PICK depth \in Nat, budget \in Nat :
        depth = event[j].depth /\ budget = event[j].budget - 1
  <2>1. event[j].depth \in Nat /\ event[j].budget \in Nat
    BY <1>2, RequestTyped
  <2>2. event[j].budget - 1 \in Nat
    BY <1>2, <2>1
  <2>3. QED
    BY <2>1, <2>2
<1>4. AppendRequest(t, j, i, depth, budget)
  BY <1>1, <1>3 DEF AppendToolRequest, Depth, Budget, Mine
<1>5. HandGoes(w, "enqueue", j, 0, 0, t)
  BY <1>1, StoryQueue, AfreshGoes DEF AppendToolRequest, Steps
<1>6. UNCHANGED <<loopVars, results, billed, adapters, intents>>
  BY DEF AppendToolRequest
<1>7. QED
  BY <1>1, <1>2, <1>4, <1>5, <1>6, NextOnTime

-----------------------------------------------------------------------------

LEMMA NextOnTimeKeeps ==
  ASSUME ToolStory, ChainStory, ToolNext
  PROVE  ChainStory'
<1>1. ASSUME NEW w \in Runner, LoopStep(w) PROVE ChainStory'
  BY <1>1, TakeJobOnTime, AcknowledgeOnTime, StepRaisesOnTime, FailJobOnTime,
     StopAfterFailureOnTime, DieOnTime DEF LoopStep
<1>2. ASSUME NEW w \in Runner, ToolStep(w) PROVE ChainStory'
  <2>1. ASSUME NEW outcome \in Signature \cup {"error"}, Execute(w, outcome)
        PROVE  ChainStory'
    BY <2>1, ExecuteStep, ExecuteOnTime
  <2>2. ASSUME RecordUsage(w) PROVE ChainStory'
    BY <2>2, RecordUsageStep, RecordUsageOnTime
  <2>3. ASSUME Adapt(w) PROVE ChainStory'
    BY <2>3, AdaptStep, AdaptOnTime
  <2>4. ASSUME NEW o \in Job, RequestOracle(w, o) PROVE ChainStory'
    BY <2>4, RequestOracleStep, RequestOracleOnTime
  <2>5. QED
    BY <1>2, <2>1, <2>2, <2>3, <2>4, FindResultOnTime, LookForUsageOnTime, JudgeOnTime,
       ContinueOnTime, EnqueueNextOnTime DEF ToolStep
<1>3. ASSUME NEW w \in Runner, OracleStep(w) PROVE ChainStory'
  <2>1. ASSUME AppendIntent(w) PROVE ChainStory'
    BY <2>1, AppendIntentStep, AppendIntentOnTime
  <2>2. ASSUME NEW t \in Job, AppendToolRequest(w, t) PROVE ChainStory'
    BY <2>2, AppendToolRequestStep, AppendToolRequestOnTime
  <2>3. QED
    BY <1>3, <2>1, <2>2, GenerateOnTime, AnalyseOnTime, DispatchOnTime DEF OracleStep
<1>4. QED
  BY <1>1, <1>2, <1>3, ExpireOnTime, OperatorStepOnTime DEF ToolNext

\* As long as no lease expires under a live process, a chain has one end, which its one
\* process at work extends, and what that process found missing is missing still.
THEOREM ChainStoryHolds == ToolSpec => []ChainStory
<1>1. ToolInit => ChainStory
  <2>1. ASSUME ToolInit PROVE ChainFits /\ \A w \in Runner : HandOnTime(w)
    <3>1. /\ \A j \in Job : ~Requested(j)
          /\ \A w \in Runner : hand[w] = IdleHand
          /\ \A t \in ToolJob : results[t] = <<>> /\ billed[t] = <<>> /\ adapters[t] = <<>>
          /\ \A o \in OracleJob : intents[o] = 0
      BY <2>1 DEF ToolInit, Requested
    <3>2. Len(<<>>) <= 1 /\ DOMAIN <<>> = {}
      OBVIOUS
    <3>3. \A t \in ToolJob : Shown(t) = {}
      BY <3>1, <3>2 DEF Shown, Members
    <3>4. ChainFits
      BY <3>1, <3>2, <3>3 DEF ChainFits, Tip
    <3>5. \A w \in Runner : HandOnTime(w)
      BY <3>1 DEF HandOnTime, IdleHand
    <3>6. QED
      BY <3>4, <3>5
  <2>2. QED
    BY <2>1, ChainStoryIs
<1>2. ToolStory /\ ChainStory /\ [ToolNext]_toolVars => ChainStory'
  <2>1. ASSUME ChainStory, UNCHANGED toolVars PROVE ChainStory'
    <3>1. /\ UNCHANGED recordVars /\ holder' = holder /\ overdue' = overdue /\ hand' = hand
      BY <2>1 DEF toolVars, chainVars, claimVars, recordVars
    <3>2. QED
      BY <2>1, <3>1, OperatorOnTime
  <2>2. QED
    BY <2>1, NextOnTimeKeeps
<1>3. QED
  BY <1>1, <1>2, ToolStoryHolds, PTL DEF ToolSpec

\* As long as no lease expires under a live process, whatever fails and is tried again, a
\* chain of tools and continuations is one line: no result is recorded, billed or adapted
\* twice, no request follows the same job twice, and no two jobs show the oracle
\* equivalent results, though what is looked up in one step is acted on in a later one
\* (_execute_tool_job, _dispatch_tool_intent).
THEOREM ChainStaysALine == ToolSpec => []ChainOnTime
<1>1. ChainStory => ChainOnTime
  BY DEF ChainStory, ChainOnTime, ChainIsALine, NoEquivalentAdapters
<1>2. QED
  BY <1>1, ChainStoryHolds, PTL

-----------------------------------------------------------------------------
(* The claim service *)

\* Each step of a chain is a step of the queue, or none.
THEOREM ToolUsesQueue == ToolSpec => ClaimSpec
<1>1. ToolInit => ClaimInit
  BY DEF ToolInit
<1>2. ToolStory /\ [ToolNext]_toolVars => [ClaimNext]_claimVars
  <2>1. SUFFICES ASSUME ToolStory, ToolNext PROVE ClaimNext \/ UNCHANGED claimVars
    BY DEF toolVars
  <2>2. ASSUME NEW w \in Runner, LoopStep(w) PROVE ClaimNext \/ UNCHANGED claimVars
    <3>1. ASSUME NEW j \in Job, TakeJob(w, j) PROVE ClaimNext
      <4>1. Claim(w, j, {}, {})
        BY <3>1 DEF TakeJob
      <4>2. QED
        BY <4>1 DEF ClaimNext
    <3>2. ASSUME Acknowledge(w) PROVE ClaimNext \/ UNCHANGED claimVars
      <4>1. PICK j \in Job : j = Mine(w)
        BY <2>1, <3>2, MineIsJob DEF Acknowledge, Handling
      <4>2. Release(w, j, "settled") \/ UNCHANGED claimVars
        BY <3>2, <4>1 DEF Acknowledge, LeavesLoop, Looks, loopVars
      <4>3. QED
        BY <4>1, <4>2 DEF ClaimNext
    <3>3. ASSUME FailJob(w) PROVE ClaimNext \/ UNCHANGED claimVars
      <4>1. PICK j \in Job : j = Mine(w)
        BY <2>1, <3>3, MineIsJob DEF FailJob, Handling
      <4>2. (\E outcome \in {"waiting", "parked"} : Release(w, j, outcome))
              \/ UNCHANGED claimVars
        BY <3>3, <4>1 DEF FailJob, LeavesLoop, Looks, loopVars
      <4>3. QED
        BY <4>1, <4>2 DEF ClaimNext
    <3>4. StepRaises(w) \/ StopAfterFailure(w) \/ Die(w) => UNCHANGED claimVars
      BY DEF StepRaises, StopAfterFailure, Die, loopVars
    <3>5. QED
      BY <2>2, <3>1, <3>2, <3>3, <3>4 DEF LoopStep
  <2>3. ASSUME NEW w \in Runner, ToolStep(w) PROVE ClaimNext \/ UNCHANGED claimVars
    <3>1. ASSUME EnqueueNext(w) PROVE ClaimNext \/ UNCHANGED claimVars
      <4>1. PICK n \in Job : n = hand[w].next
        BY <2>1, <3>1, InHand DEF EnqueueNext, Handling, Fits, IsNext
      <4>2. Submit(n) \/ UNCHANGED claimVars
        BY <3>1, <4>1 DEF EnqueueNext, EnqueueOnce
      <4>3. QED
        BY <4>1, <4>2 DEF ClaimNext
    <3>2. \/ FindResult(w) \/ LookForUsage(w) \/ RecordUsage(w) \/ Judge(w) \/ Adapt(w)
          \/ Continue(w) \/ (\E outcome \in Signature \cup {"error"} : Execute(w, outcome))
          \/ (\E o \in Job : RequestOracle(w, o))
          => UNCHANGED claimVars
      BY DEF FindResult, LookForUsage, RecordUsage, Judge, Adapt, Continue, Execute,
             RequestOracle, StopAndReturn, Looks, loopVars
    <3>3. QED
      BY <2>3, <3>1, <3>2 DEF ToolStep
  <2>4. ASSUME NEW w \in Runner, OracleStep(w) PROVE UNCHANGED claimVars
    BY <2>4 DEF OracleStep, Generate, Analyse, AppendIntent, DispatchToolIntent,
                AppendToolRequest, StopAndReturn, Looks, loopVars
  <2>5. ASSUME NEW j \in Job, Expire(j) PROVE ClaimNext
    BY <2>5 DEF Expire, ClaimNext
  <2>6. ASSUME OperatorStep PROVE ClaimNext \/ UNCHANGED claimVars
    BY <2>6, ToolAssumption
       DEF OperatorStep, RequestTool, ApproveTool, ScheduleTool, Retry, ClaimNext, loopVars
  <2>7. QED
    BY <2>1, <2>2, <2>3, <2>4, <2>5, <2>6 DEF ToolNext
<1>3. QED
  BY <1>1, <1>2, ToolStoryHolds, PTL DEF ToolSpec, ClaimSpec

===============================================================================
