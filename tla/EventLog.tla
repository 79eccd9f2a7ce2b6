------------------------------- MODULE EventLog -------------------------------
(***************************************************************************)
(* The event log and the branches that are derived from it: append of      *)
(* src/src/oracle_lab/store.py, the branch rows that CoreProjection of     *)
(* projections.py keeps, and what branching.py says is visible from a      *)
(* branch.                                                                 *)
(*                                                                         *)
(* An event is known by its place in the log, the order of the commits.    *)
(* It also has the created_at its writer gave it before the commit, and    *)
(* the two orders may differ: the store sorts by created_at.               *)
(***************************************************************************)
EXTENDS Naturals, Sequences, FiniteSets

CONSTANTS
  Branch,         \* the names branches may get
  Main,           \* the branch the session is created with
  NoBranch

ASSUME LogAssumption ==
  Main \in Branch /\ NoBranch \notin Branch /\ IsFiniteSet(Branch)

NoEvent == 0

\* A row of the table `branches`; `fork` is the event it was forked from.
BranchRow == [parent : Branch \cup {NoBranch}, fork : Nat, open : BOOLEAN]
NoRow == [parent |-> NoBranch, fork |-> NoEvent, open |-> FALSE, absent |-> TRUE]
MainRow == [parent |-> NoBranch, fork |-> NoEvent, open |-> TRUE]

\* A database s has at least a log, and a row for every branch.
Event(s) == DOMAIN s.log
Exists(s, b) == s.branch[b] # NoRow

Before(s, x, y) ==
  \/ s.log[x].at < s.log[y].at
  \/ s.log[x].at = s.log[y].at /\ x < y

Own(s, b) == {e \in Event(s) : s.log[e].branch = b}

\* A bug: the last event of the session, whatever its branch.
LastEventOfAll(s, b) ==
  CHOOSE e \in Event(s) : \A x \in Event(s) \ {e} : Before(s, x, e)

\* The event a new one is appended behind.
LastEvent(s, b) ==
  CHOOSE e \in Own(s, b) : \A x \in Own(s, b) \ {e} : Before(s, x, e)

\* The narrative ancestry of an event, with itself.
ParentChain(s, e) ==
  LET up[x \in 0 .. Len(s.log)] ==
        IF x = NoEvent THEN {} ELSE {x} \cup up[s.log[x].parent]
  IN  up[e]

Lineage(s, b) ==
  LET up[n \in 0 .. Cardinality(Branch)] ==
        IF n = 0 THEN {b}
        ELSE LET below == up[n - 1]
             IN  below \cup ({s.branch[x].parent : x \in below} \ {NoBranch})
  IN  up[Cardinality(Branch)]

Inherited(s, b) == ParentChain(s, s.branch[b].fork)

Visible(s, b) == Inherited(s, b) \cup Own(s, b)

\* What resolving the history of b until e demands; it yields the chain of e.
Resolves(s, b, e) ==
  /\ e \in Visible(s, b)
  /\ {s.log[x].branch : x \in ParentChain(s, e)} \subseteq Lineage(s, b)

\* The rows after event e, the last of the log, is projected.
BranchRows(s, e) ==
  CASE e.type = "session.forked" ->
         [s.branch EXCEPT ![e.branch] =
            [parent |-> s.log[e.parent].branch, fork |-> e.parent, open |-> TRUE]]
    [] e.type = "branch.archived" ->
         [s.branch EXCEPT ![e.branch].open = FALSE]
    [] OTHER -> s.branch
===============================================================================
