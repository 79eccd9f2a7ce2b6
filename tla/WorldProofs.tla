------------------------------ MODULE WorldProofs ------------------------------
(***************************************************************************)
(* What holds of the worlds of every session, for any number of branches,  *)
(* clocks and executors.  WorldStory is the inductive invariant: what an   *)
(* executor will append can be appended, and as long as no lease expires   *)
(* under one, it alone is at work on its branch, so that what it planned   *)
(* is still what the world asks for.                                       *)
(***************************************************************************)
EXTENDS VirtualWorld, FiniteSetTheorems, SequenceTheorems, TLAPS

-----------------------------------------------------------------------------
(* Sequences and sets of numbers *)

\* What is left of a plan.
LEMMA TailIs ==
  ASSUME NEW S, NEW q \in Seq(S), q # <<>>
  PROVE  /\ Tail(q) \in Seq(S) /\ DOMAIN Tail(q) = 1 .. Len(q) - 1
         /\ Head(q) = q[1] /\ 1 \in DOMAIN q /\ Head(q) \in S
         /\ \A k \in 1 .. Len(q) - 1 : Tail(q)[k] = q[k + 1]
OBVIOUS

\* A set of numbers has a least element.
LEMMA LeastElement ==
  ASSUME NEW T \in SUBSET Nat, T # {}
  PROVE  \E x \in T : \A y \in T : x <= y
<1> DEFINE less == OpToRel(<, Nat)
<1>1. IsWellFoundedOn(less, Nat)
  BY NatLessThanWellFounded
<1>2. \A x, y \in Nat : <<y, x>> \in less <=> y < x
  BY DEF OpToRel
<1> HIDE DEF less
<1>3. \E x \in T : \A y \in T : ~ (<<y, x>> \in less)
  BY <1>1, WFMin
<1>4. PICK x \in T : \A y \in T : ~ (<<y, x>> \in less)
  BY <1>3
<1>5. \A y \in T : x \in Nat /\ y \in Nat /\ ~ (y < x)
  BY <1>2, <1>4
<1> QED
  BY <1>5

\* A bounded one has a greatest.
LEMMA GreatestElement ==
  ASSUME NEW n \in Nat, NEW T \in SUBSET (1 .. n), T # {}
  PROVE  \E x \in T : \A y \in T : y <= x
<1> DEFINE above == {k \in Nat : \A x \in T : x <= k}
<1>1. n \in above /\ \A x \in T : x \in Nat /\ x # 0
  OBVIOUS
<1>2. PICK k \in above : \A l \in above : k <= l
  BY <1>1, LeastElement
<1>3. k \in T
  <2>1. SUFFICES ASSUME k \notin T
                 PROVE  FALSE
    OBVIOUS
  <2>2. PICK y \in T : TRUE
    OBVIOUS
  <2>3. y \in Nat /\ y # 0 /\ y <= k /\ y # k /\ k \in Nat
    BY <1>1, <2>1, <2>2
  <2>4. k - 1 \in Nat
    BY <2>3
  <2>5. ASSUME NEW x \in T
        PROVE  x <= k - 1
    <3>1. x \in Nat /\ x <= k /\ x # k
      BY <1>1, <2>1
    <3> QED
      BY <2>3, <3>1
  <2>6. k <= k - 1
    BY <1>2, <2>4, <2>5
  <2> QED
    BY <2>3, <2>6
<1> QED
  BY <1>2, <1>3

-----------------------------------------------------------------------------
(* Induction, for a set, and recursion *)

\* What holds at a number once it holds at all smaller ones holds up to n.
LEMMA StrongInduction ==
  ASSUME NEW n \in Nat, NEW P,
         \A k \in 0 .. n : (\A i \in 0 .. n : i < k => i \in P) => k \in P
  PROVE  0 .. n \subseteq P
<1> DEFINE T == (0 .. n) \ P
<1> SUFFICES ASSUME T # {} PROVE FALSE
  OBVIOUS
<1>1. T \in SUBSET Nat
  OBVIOUS
<1>2. PICK x \in T : \A y \in T : x <= y
  BY <1>1, LeastElement
<1>3. x \in 0 .. n /\ x \notin P
  OBVIOUS
<1>4. \A i \in 0 .. n : i < x => i \in P
  BY <1>2, <1>3
<1>5. QED
  BY <1>3, <1>4

\* The first n steps of a primitive recursion from a, with step function F.
Follows(g, n, a, F) == g[0] = a /\ \A k \in 1 .. n : g[k] = F[<<k, g[k - 1]>>]

\* There is a function that follows.
LEMMA Recursion ==
  ASSUME NEW n \in Nat, NEW V, NEW a \in V, NEW F \in [(1 .. n) \X V -> V]
  PROVE  \E g \in [0 .. n -> V] : Follows(g, n, a, F)
<1> DEFINE P == {k \in 0 .. n : \E g \in [0 .. k -> V] : Follows(g, k, a, F)}
<1>1. 0 \in P
  <2>1. [i \in 0 .. 0 |-> a] \in [0 .. 0 -> V]
    OBVIOUS
  <2>2. Follows([i \in 0 .. 0 |-> a], 0, a, F)
    BY DEF Follows
  <2>3. 0 \in 0 .. n
    OBVIOUS
  <2>4. QED
    BY <2>1, <2>2, <2>3
<1>2. ASSUME NEW k \in 0 .. n, k # 0, k - 1 \in P
      PROVE  k \in P
  <2>1. PICK g \in [0 .. k - 1 -> V] : Follows(g, k - 1, a, F)
    BY <1>2
  <2>2. k \in Nat /\ k \in 1 .. n /\ k - 1 \in 0 .. k - 1 /\ 0 \in 0 .. k - 1
    BY <1>2
  <2>3. g[k - 1] \in V
    BY <2>2
  <2>4. <<k, g[k - 1]>> \in (1 .. n) \X V
    BY <2>2, <2>3
  <2>5. PICK b \in V : b = F[<<k, g[k - 1]>>]
    BY <2>4
  <2>6. PICK h : h = [i \in 0 .. k |-> IF i = k THEN b ELSE g[i]]
    OBVIOUS
  <2>7. /\ h \in [0 .. k -> V] /\ h[k] = b
        /\ \A i \in 0 .. k - 1 : h[i] = g[i]
    BY <2>2, <2>6
  <2>8. ASSUME NEW i \in 1 .. k
        PROVE  h[i] = F[<<i, h[i - 1]>>]
    <3>1. i - 1 \in 0 .. k - 1 /\ h[i - 1] = g[i - 1]
      BY <2>2, <2>7
    <3>2. CASE i = k
      BY <2>5, <2>7, <3>1, <3>2
    <3>3. CASE i # k
      <4>1. i \in 1 .. k - 1 /\ i \in 0 .. k - 1
        BY <2>2, <3>3
      <4>2. QED
        BY <2>1, <2>7, <3>1, <4>1 DEF Follows
    <3>4. QED
      BY <3>2, <3>3
  <2>9. Follows(h, k, a, F)
    BY <2>1, <2>2, <2>7, <2>8 DEF Follows
  <2>10. QED
    BY <2>7, <2>9
<1> HIDE DEF P
<1>3. \A k \in 0 .. n : (\A i \in 0 .. n : i < k => i \in P) => k \in P
  <2> TAKE k \in 0 .. n
  <2> HAVE \A i \in 0 .. n : i < k => i \in P
  <2>1. k # 0 => k - 1 \in 0 .. n /\ k - 1 < k
    OBVIOUS
  <2>2. QED
    BY <1>1, <1>2, <2>1
<1>4. n \in P
  BY <1>3, StrongInduction
<1>5. QED
  BY <1>4 DEF P

-----------------------------------------------------------------------------
(* Chains *)

\* The parents of a log are events of it, or none.
Rooted(s) == \A x \in Event(s) : s.log[x].parent \in {NoEvent} \cup Event(s)

\* The ancestry of an event is the event and the ancestry of its parent.
LEMMA ChainIs ==
  ASSUME NEW s, NEW R, s.log \in Seq(R), Rooted(s)
  PROVE  /\ ParentChain(s, NoEvent) = {}
         /\ \A x \in Event(s) : ParentChain(s, x) = {x} \cup ParentChain(s, s.log[x].parent)
<1>1. PICK n \in Nat : n = Len(s.log) /\ Event(s) = 1 .. n
  BY DEF Event
<1>2. PICK up : up = [x \in 1 .. n |-> s.log[x].parent]
  OBVIOUS
<1>3. up \in [1 .. n -> 0 .. n]
  BY <1>1, <1>2 DEF Rooted, NoEvent
<1> DEFINE Closed(C) == \A z \in C : z # 0 => up[z] \in C
           g == [x \in 0 .. n |->
                   {y \in 1 .. n : \A C \in SUBSET (0 .. n) : x \in C /\ Closed(C) => y \in C}]
           chain[x \in 0 .. Len(s.log)] ==
             IF x = NoEvent THEN {} ELSE {x} \cup chain[s.log[x].parent]
<1>4. g[0] = {}
  <2>1. {0} \in SUBSET (0 .. n) /\ Closed({0}) /\ 0 \in {0} /\ 0 \in 0 .. n
    OBVIOUS
  <2>2. ASSUME NEW y \in g[0]
        PROVE  FALSE
    <3>1. y \in 1 .. n /\ y \in {0}
      BY <2>1, <2>2
    <3>2. QED
      BY <3>1
  <2>3. QED
    BY <2>2
<1>5. ASSUME NEW x \in 1 .. n
      PROVE  g[x] = {x} \cup g[up[x]]
  <2>1. x \in 0 .. n /\ x # 0 /\ up[x] \in 0 .. n
    BY <1>3
  <2>2. ASSUME NEW y \in g[x], y # x
        PROVE  y \in g[up[x]]
    <3>1. y \in 1 .. n
      BY <2>1
    <3>2. ASSUME NEW C \in SUBSET (0 .. n), up[x] \in C, Closed(C)
          PROVE  y \in C
      <4>1. PICK D : D = C \cup {x}
        OBVIOUS
      <4>2. D \in SUBSET (0 .. n) /\ x \in D /\ Closed(D)
        BY <2>1, <3>2, <4>1
      <4>3. y \in D
        BY <2>1, <4>2
      <4>4. QED
        BY <2>2, <4>1, <4>3
    <3>3. QED
      BY <2>1, <3>1, <3>2
  <2>3. x \in g[x]
    BY <2>1
  <2>4. ASSUME NEW y \in g[up[x]]
        PROVE  y \in g[x]
    BY <2>1
  <2>5. QED
    BY <2>2, <2>3, <2>4
<1> HIDE DEF g
<1>6. g = [x \in 0 .. Len(s.log) |->
             IF x = NoEvent THEN {} ELSE {x} \cup g[s.log[x].parent]]
  <2>1. \A x \in 0 .. n : x # 0 => x \in 1 .. n /\ up[x] = s.log[x].parent
    BY <1>2
  <2>2. \A x \in 0 .. n : g[x] = IF x = 0 THEN {} ELSE {x} \cup g[s.log[x].parent]
    BY <1>4, <1>5, <2>1
  <2>3. g = [x \in 0 .. n |-> g[x]]
    BY DEF g
  <2>4. QED
    BY <1>1, <2>2, <2>3 DEF NoEvent
<1>7. chain = [x \in 0 .. Len(s.log) |->
                 IF x = NoEvent THEN {} ELSE {x} \cup chain[s.log[x].parent]]
  BY <1>6, Zenon
<1>8. \A e : ParentChain(s, e) = chain[e]
  BY DEF ParentChain
<1> HIDE DEF chain
<1>9. chain[NoEvent] = {} /\ \A x \in 1 .. n : chain[x] = {x} \cup chain[s.log[x].parent]
  <2>1. NoEvent \in 0 .. Len(s.log) /\ \A x \in 1 .. n : x # NoEvent /\ x \in 0 .. Len(s.log)
    BY <1>1 DEF NoEvent
  <2>2. QED
    BY <1>7, <2>1
<1>10. QED
  BY <1>1, <1>8, <1>9

\* The parents of a log are earlier events of it.
Descends(s) == \A x \in Event(s) : s.log[x].parent \in 0 .. x - 1

\* A chain leads back from an event.
LEMMA ChainBelow ==
  ASSUME NEW s, NEW R, s.log \in Seq(R), Descends(s)
  PROVE  /\ Rooted(s)
         /\ \A x \in Event(s) : ParentChain(s, x) \subseteq 1 .. x /\ x \in ParentChain(s, x)
<1>1. PICK n \in Nat : Event(s) = 1 .. n
  BY DEF Event
<1>2. Rooted(s)
  BY <1>1 DEF Descends, Rooted, NoEvent
<1>3. /\ ParentChain(s, NoEvent) = {}
      /\ \A x \in Event(s) : ParentChain(s, x) = {x} \cup ParentChain(s, s.log[x].parent)
  BY <1>2, ChainIs
<1> DEFINE P == {k \in 0 .. n : ParentChain(s, k) \subseteq 1 .. k}
<1>4. ASSUME NEW k \in 0 .. n, \A i \in 0 .. n : i < k => i \in P
      PROVE  k \in P
  <2>1. CASE k = 0
    BY <1>3, <2>1 DEF NoEvent
  <2>2. CASE k # 0
    <3>1. PICK p : p = s.log[k].parent
      OBVIOUS
    <3>2. k \in Event(s) /\ p \in 0 .. k - 1
      BY <1>1, <2>2, <3>1 DEF Descends
    <3>3. p \in P
      BY <1>4, <3>2
    <3>4. PICK C : C = ParentChain(s, p)
      OBVIOUS
    <3>5. C \subseteq 1 .. p /\ ParentChain(s, k) = {k} \cup C
      BY <1>3, <3>1, <3>2, <3>3, <3>4
    <3>6. k \in Nat /\ k # 0 /\ p \in Nat /\ p < k
      BY <1>1, <2>2, <3>2
    <3>7. {k} \cup C \subseteq 1 .. k
      BY <3>5, <3>6
    <3>8. ParentChain(s, k) \subseteq 1 .. k
      BY <3>5, <3>7
    <3> QED
      BY <3>8
  <2> QED
    BY <2>1, <2>2
<1> HIDE DEF P
<1>5. 0 .. n \subseteq P
  BY <1>4, StrongInduction
<1>6. \A x \in Event(s) : ParentChain(s, x) \subseteq 1 .. x
  BY <1>1, <1>5 DEF P
<1> QED
  BY <1>2, <1>3, <1>6

\* The log t begins as s does.
Begins(s, t) ==
  Event(s) \subseteq Event(t) /\ \A x \in Event(s) : t.log[x] = s.log[x]

\* What is appended changes no chain that was there.
LEMMA ChainStays ==
  ASSUME NEW s, NEW t, NEW R, s.log \in Seq(R), t.log \in Seq(R), Descends(s), Descends(t),
         Begins(s, t)
  PROVE  \A x \in Event(s) \cup {NoEvent} : ParentChain(t, x) = ParentChain(s, x)
<1>1. PICK n \in Nat : Event(s) = 1 .. n
  BY DEF Event
<1>2. /\ ParentChain(s, NoEvent) = {} /\ ParentChain(t, NoEvent) = {}
      /\ \A x \in Event(s) : ParentChain(s, x) = {x} \cup ParentChain(s, s.log[x].parent)
      /\ \A x \in Event(t) : ParentChain(t, x) = {x} \cup ParentChain(t, t.log[x].parent)
  BY ChainIs, ChainBelow
<1> DEFINE P == {k \in 0 .. n : ParentChain(t, k) = ParentChain(s, k)}
<1>3. ASSUME NEW k \in 0 .. n, \A i \in 0 .. n : i < k => i \in P
      PROVE  k \in P
  <2>1. CASE k = 0
    BY <1>2, <2>1 DEF NoEvent
  <2>2. CASE k # 0
    <3>1. PICK p : p = s.log[k].parent
      OBVIOUS
    <3>a. k \in Event(s)
      BY <1>1, <2>2
    <3>b. k \in Event(t) /\ t.log[k] = s.log[k]
      BY <3>a DEF Begins
    <3>2. k \in Event(s) /\ k \in Event(t) /\ t.log[k].parent = p /\ p \in 0 .. k - 1
      BY <3>1, <3>a, <3>b DEF Descends
    <3>3. p \in P
      BY <1>3, <3>2
    <3>4. ParentChain(t, k) = {k} \cup ParentChain(t, p)
      BY <1>2, <3>2
    <3>5. ParentChain(s, k) = {k} \cup ParentChain(s, p)
      BY <1>2, <3>1, <3>2
    <3> QED
      BY <3>3, <3>4, <3>5
  <2> QED
    BY <2>1, <2>2
<1> HIDE DEF P
<1>4. 0 .. n \subseteq P
  BY <1>3, StrongInduction
<1> QED
  BY <1>1, <1>4 DEF P, NoEvent
-----------------------------------------------------------------------------
(* An event is appended *)

\* What a log that is sound says of its events.
LEMMA LogIs ==
  ASSUME NEW s, s.log \in Seq(EventRecord), LogSound(s)
  PROVE  /\ Len(s.log) \in Nat /\ Event(s) = 1 .. Len(s.log) /\ 1 \in Event(s)
         /\ \A e \in Event(s) :
              /\ e \in Nat /\ s.log[e] \in EventRecord /\ s.log[e].at = e
              /\ s.log[e].parent \in 0 .. e - 1 /\ s.log[e].cause \in 0 .. e - 1
              /\ s.log[e].branch \in Branch /\ NameFits(s.log[e])
         /\ Descends(s)
<1>1. s.log # <<>>
  BY DEF LogSound
<1>2. /\ Len(s.log) \in Nat /\ Event(s) = 1 .. Len(s.log) /\ 1 \in Event(s)
      /\ \A e \in Event(s) : e \in Nat /\ s.log[e] \in EventRecord
  BY <1>1 DEF Event
<1>3. \A e \in Event(s) : s.log[e].branch \in Branch
  BY <1>2 DEF EventRecord
<1>4. \A e \in Event(s) :
        /\ s.log[e].at = e /\ s.log[e].parent \in 0 .. e - 1 /\ s.log[e].cause \in 0 .. e - 1
        /\ NameFits(s.log[e])
  BY DEF LogSound
<1>5. Descends(s)
  BY <1>4 DEF Descends
<1> QED
  BY <1>2, <1>3, <1>4, <1>5

\* The branches of a log that is sound.
LEMMA BranchesAre ==
  ASSUME NEW s, LogSound(s)
  PROVE  /\ \A b \in Branch : /\ Exists(s, b) <=> Own(s, b) # {}
                              /\ \A e \in Own(s, b) : s.branch[b].fork < e
         /\ Exists(s, Main) /\ s.branch[Main].fork = NoEvent /\ Main \in Branch
BY LogAssumption DEF LogSound

\* The branch of an event is there.
LEMMA EventIsOf ==
  ASSUME NEW s, LogSound(s), NEW e \in Event(s), s.log[e].branch \in Branch
  PROVE  Exists(s, s.log[e].branch) /\ e \in Own(s, s.log[e].branch)
BY BranchesAre DEF Own

\* The log of t is that of s with event r behind it.
Grown(s, t, r) ==
  /\ r \in EventRecord /\ r.at = Len(s.log) + 1
  /\ t.log = Append(s.log, r) /\ t.branch = BranchRows(s, r)

\* An event that the log and the branches of s allow.
Suits(s, r) ==
  /\ r.parent \in 0 .. Len(s.log) /\ r.cause \in 0 .. Len(s.log) /\ NameFits(r)
  /\ IF r.type = "session.forked" THEN ~ Exists(s, r.branch) /\ r.parent \in Event(s)
     ELSE Exists(s, r.branch)

LEMMA GrownIs ==
  ASSUME NEW s, NEW t, NEW r, NEW n, s.log \in Seq(EventRecord), n = Len(s.log) + 1,
         Grown(s, t, r)
  PROVE  /\ n \in Nat /\ n > 0 /\ t.log \in Seq(EventRecord) /\ Len(t.log) = n
         /\ Event(s) = 1 .. n - 1 /\ Event(t) = Event(s) \cup {n} /\ Event(t) = 1 .. n
         /\ n \notin Event(s) /\ t.log[n] = r /\ Begins(s, t)
<1>1. Len(s.log) \in Nat /\ DOMAIN s.log = 1 .. Len(s.log)
  OBVIOUS
<1>2. t.log = Append(s.log, r) /\ r \in EventRecord
  BY DEF Grown
<1>3. /\ t.log \in Seq(EventRecord) /\ DOMAIN t.log = 1 .. n /\ t.log[n] = r /\ Len(t.log) = n
      /\ \A x \in 1 .. Len(s.log) : t.log[x] = s.log[x]
  BY <1>1, <1>2
<1>4. n \in Nat /\ n > 0 /\ n - 1 = Len(s.log) /\ 1 .. n = 1 .. n - 1 \cup {n}
  BY <1>1
<1> QED
  BY <1>1, <1>3, <1>4 DEF Event, Begins

\* The rows of the branches after an event of this model.
LEMMA RowsAfter ==
  ASSUME NEW s, NEW r \in EventRecord, s.branch \in [Branch -> BranchRow \cup {NoRow}],
         s.log \in Seq(EventRecord), r.type = "session.forked" => r.parent \in Event(s)
  PROVE  /\ BranchRows(s, r) \in [Branch -> BranchRow \cup {NoRow}]
         /\ r.type # "session.forked" => BranchRows(s, r) = s.branch
         /\ r.type = "session.forked" => /\ BranchRows(s, r)[r.branch] # NoRow
                                         /\ BranchRows(s, r)[r.branch].fork = r.parent
                                         /\ \A b \in Branch \ {r.branch} :
                                              BranchRows(s, r)[b] = s.branch[b]
<1>1. r.branch \in Branch /\ r.type \in Types
  BY DEF EventRecord
<1>2. CASE r.type = "session.forked"
  <2>1. PICK row : row = [parent |-> s.log[r.parent].branch, fork |-> r.parent, open |-> TRUE]
    OBVIOUS
  <2>2. BranchRows(s, r) = [s.branch EXCEPT ![r.branch] = row]
    BY <1>2, <2>1 DEF BranchRows
  <2>3. s.log[r.parent] \in EventRecord /\ r.parent \in Nat
    BY <1>2 DEF Event
  <2>4. row \in BranchRow
    BY <2>1, <2>3 DEF BranchRow, EventRecord
  <2>5. row # NoRow /\ row.fork = r.parent
    <3>1. DOMAIN row = {"parent", "fork", "open"}
      BY <2>1
    <3>2. "absent" \in DOMAIN NoRow
      BY DEF NoRow
    <3> QED
      BY <2>1, <3>1, <3>2
  <2> QED
    BY <1>1, <1>2, <2>2, <2>4, <2>5
<1>3. CASE r.type # "session.forked"
  <2>1. BranchRows(s, r) = s.branch
    BY <1>1, <1>3 DEF BranchRows, Types, Mutations
  <2> QED
    BY <1>3, <2>1
<1> QED
  BY <1>2, <1>3

\* Which branches there are, and what is on them, after an event that suits.
LEMMA BranchesGrow ==
  ASSUME NEW s, NEW t, NEW r, NEW n, s.log \in Seq(EventRecord), LogSound(s),
         s.branch \in [Branch -> BranchRow \cup {NoRow}], n = Len(s.log) + 1,
         Grown(s, t, r), Suits(s, r)
  PROVE  /\ t.branch \in [Branch -> BranchRow \cup {NoRow}]
         /\ \A b \in Branch : Exists(s, b) => Exists(t, b) /\ t.branch[b] = s.branch[b]
         /\ Exists(t, r.branch) /\ r.branch \in Branch
         /\ r.type = "session.forked" => t.branch[r.branch].fork = r.parent
         /\ \A b \in Branch : Own(t, b) = Own(s, b) \cup {x \in {n} : r.branch = b}
         /\ \A b \in Branch : Exists(t, b) <=> Exists(s, b) \/ b = r.branch
<1>1. r \in EventRecord /\ t.branch = BranchRows(s, r) /\ r.branch \in Branch
  BY DEF Grown, EventRecord
<1>2. IF r.type = "session.forked" THEN ~ Exists(s, r.branch) /\ r.parent \in Event(s)
      ELSE Exists(s, r.branch)
  BY DEF Suits
<1>3. /\ t.branch \in [Branch -> BranchRow \cup {NoRow}]
      /\ r.type # "session.forked" => t.branch = s.branch
      /\ r.type = "session.forked" => /\ t.branch[r.branch] # NoRow
                                      /\ t.branch[r.branch].fork = r.parent
                                      /\ \A b \in Branch \ {r.branch} : t.branch[b] = s.branch[b]
  BY <1>1, <1>2, RowsAfter
<1>4. Event(t) = Event(s) \cup {n} /\ n \notin Event(s) /\ t.log[n] = r /\ Begins(s, t)
  BY GrownIs
<1>5. \A b \in Branch : Own(t, b) = Own(s, b) \cup {x \in {n} : r.branch = b}
  BY <1>4 DEF Own, Begins
<1> QED
  BY <1>1, <1>2, <1>3, <1>5 DEF Exists

\* A log stays sound.
LEMMA LogGrows ==
  ASSUME NEW s, NEW t, NEW r, s.log \in Seq(EventRecord), LogSound(s),
         s.branch \in [Branch -> BranchRow \cup {NoRow}], Grown(s, t, r), Suits(s, r)
  PROVE  LogSound(t)
<1>1. PICK n : n = Len(s.log) + 1
  OBVIOUS
<1>2. /\ n \in Nat /\ n > 0 /\ t.log \in Seq(EventRecord) /\ Len(t.log) = n
      /\ Event(s) = 1 .. n - 1 /\ Event(t) = Event(s) \cup {n} /\ Event(t) = 1 .. n
      /\ n \notin Event(s) /\ t.log[n] = r /\ Begins(s, t)
  BY <1>1, GrownIs
<1>3. /\ \A b \in Branch : Exists(s, b) => Exists(t, b) /\ t.branch[b] = s.branch[b]
      /\ Exists(t, r.branch) /\ r.branch \in Branch
      /\ r.type = "session.forked" => t.branch[r.branch].fork = r.parent
      /\ \A b \in Branch : Own(t, b) = Own(s, b) \cup {x \in {n} : r.branch = b}
      /\ \A b \in Branch : Exists(t, b) <=> Exists(s, b) \/ b = r.branch
  BY <1>1, BranchesGrow
<1>4. /\ \A b \in Branch : /\ Exists(s, b) <=> Own(s, b) # {}
                           /\ \A e \in Own(s, b) : s.branch[b].fork < e
      /\ Exists(s, Main) /\ s.branch[Main].fork = NoEvent /\ Main \in Branch
  BY BranchesAre
<1>5. t.log # <<>>
  BY <1>2
<1>6. ASSUME NEW e \in Event(t)
      PROVE  /\ t.log[e].at = e /\ {t.log[e].parent, t.log[e].cause} \subseteq 0 .. e - 1
             /\ NameFits(t.log[e])
  <2>1. CASE e = n
    BY <1>1, <1>2, <2>1 DEF Suits, Grown
  <2>2. CASE e # n
    <3>1. e \in Event(s) /\ t.log[e] = s.log[e]
      BY <1>2, <2>2 DEF Begins
    <3> QED
      BY <3>1 DEF LogSound
  <2> QED
    BY <2>1, <2>2
<1>7. ASSUME NEW b \in Branch
      PROVE  /\ Exists(t, b) <=> Own(t, b) # {}
             /\ \A e \in Own(t, b) : t.branch[b].fork < e
  <2>1. Exists(t, b) <=> Own(t, b) # {}
    <3>1. Own(t, b) = Own(s, b) \cup {x \in {n} : r.branch = b}
      BY <1>3
    <3> QED
      BY <1>3, <1>4, <3>1
  <2>2. ASSUME NEW e \in Own(t, b)
        PROVE  t.branch[b].fork < e
    <3>1. CASE Exists(s, b)
      <4>1. t.branch[b] = s.branch[b]
        BY <1>3, <3>1
      <4>2. e \in Own(s, b) \/ e = n
        BY <1>3, <2>2
      <4>3. CASE e = n
        <5>1. PICK x : x \in Own(s, b)
          BY <1>4, <3>1
        <5>2. x \in 1 .. n - 1 /\ s.branch[b].fork < x
          BY <1>2, <1>4, <5>1 DEF Own
        <5>3. s.branch[b].fork \in Nat
          <6>1. s.branch[b] \in BranchRow
            BY <3>1 DEF Exists
          <6> QED
            BY <6>1 DEF BranchRow
        <5> QED
          BY <1>2, <4>1, <4>3, <5>2, <5>3
      <4>4. CASE e \in Own(s, b)
        BY <1>4, <4>1, <4>4
      <4> QED
        BY <4>2, <4>3, <4>4
    <3>2. CASE ~ Exists(s, b)
      <4>1. Own(s, b) = {}
        BY <1>4, <3>2
      <4>2. e = n /\ r.branch = b
        BY <1>3, <4>1, <2>2
      <4>3. r.type = "session.forked"
        BY <3>2, <4>2 DEF Suits
      <4>4. t.branch[b].fork = r.parent /\ r.parent \in 0 .. n - 1
        BY <1>1, <1>2, <1>3, <4>2, <4>3 DEF Suits
      <4> QED
        BY <1>2, <4>2, <4>4
    <3> QED
      BY <3>1, <3>2
  <2> QED
    BY <2>1, <2>2
<1>8. Own(t, Main) # {} /\ t.branch[Main].fork = NoEvent
  BY <1>3, <1>4, <1>7
<1> QED
  BY <1>5, <1>6, <1>7, <1>8 DEF LogSound

\* What could be seen from a branch still can, and what is appended to it can as well.
LEMMA VisibleGrows ==
  ASSUME NEW s, NEW t, NEW r, s.log \in Seq(EventRecord), LogSound(s),
         s.branch \in [Branch -> BranchRow \cup {NoRow}], Grown(s, t, r), Suits(s, r)
  PROVE  /\ \A b \in Branch : Exists(s, b) => Visible(s, b) \subseteq Visible(t, b)
         /\ Len(s.log) + 1 \in Visible(t, r.branch)
         /\ r.type = "session.forked" => ParentChain(s, r.parent) \subseteq Visible(t, r.branch)
<1>1. PICK n : n = Len(s.log) + 1
  OBVIOUS
<1>2. /\ n \in Nat /\ n > 0 /\ t.log \in Seq(EventRecord)
      /\ Event(s) = 1 .. n - 1 /\ Begins(s, t)
  BY <1>1, GrownIs
<1>3. /\ \A b \in Branch : Exists(s, b) => Exists(t, b) /\ t.branch[b] = s.branch[b]
      /\ r.branch \in Branch
      /\ r.type = "session.forked" => t.branch[r.branch].fork = r.parent
      /\ \A b \in Branch : Own(t, b) = Own(s, b) \cup {x \in {n} : r.branch = b}
  BY <1>1, BranchesGrow
<1>4. LogSound(t)
  BY LogGrows
<1>5. Descends(s) /\ Descends(t)
  BY <1>2, <1>4, LogIs
<1>6. \A x \in Event(s) \cup {NoEvent} : ParentChain(t, x) = ParentChain(s, x)
  BY <1>2, <1>5, ChainStays
<1>7. ASSUME NEW b \in Branch, Exists(s, b)
      PROVE  Visible(s, b) \subseteq Visible(t, b)
  <2>1. s.branch[b].fork \in Event(s) \cup {NoEvent}
    <3>1. PICK x : x \in Own(s, b) /\ s.branch[b].fork < x
      BY <1>7, BranchesAre
    <3>2. s.branch[b].fork \in Nat
      <4>1. s.branch[b] \in BranchRow
        BY <1>7 DEF Exists
      <4> QED
        BY <4>1 DEF BranchRow
    <3>3. x \in 1 .. n - 1
      BY <1>2, <3>1 DEF Own
    <3> QED
      BY <1>2, <3>1, <3>2, <3>3 DEF NoEvent
  <2>2. Inherited(t, b) = Inherited(s, b)
    BY <1>3, <1>6, <1>7, <2>1 DEF Inherited
  <2>3. Own(s, b) \subseteq Own(t, b)
    BY <1>3
  <2> QED
    BY <2>2, <2>3 DEF Visible
<1>8. n \in Visible(t, r.branch)
  BY <1>3 DEF Visible
<1>9. ASSUME r.type = "session.forked"
      PROVE  ParentChain(s, r.parent) \subseteq Visible(t, r.branch)
  <2>1. r.parent \in Event(s)
    BY <1>9 DEF Suits
  <2>2. Inherited(t, r.branch) = ParentChain(s, r.parent)
    BY <1>3, <1>6, <1>9, <2>1 DEF Inherited
  <2> QED
    BY <2>2 DEF Visible
<1> QED
  BY <1>1, <1>7, <1>8, <1>9

\* What is seen from a branch is an event, its own or one before all of its own.
LEMMA SeenIsEvent ==
  ASSUME NEW s, s.log \in Seq(EventRecord), LogSound(s),
         s.branch \in [Branch -> BranchRow \cup {NoRow}],
         NEW b \in Branch, Exists(s, b), NEW m \in Visible(s, b)
  PROVE  /\ m \in Event(s)
         /\ m \in Own(s, b) \/ \A e \in Own(s, b) : m < e
<1>1. /\ Len(s.log) \in Nat /\ Event(s) = 1 .. Len(s.log) /\ Descends(s)
  BY LogIs
<1>2. PICK f : f = s.branch[b].fork
  OBVIOUS
<1>3. \A e \in Own(s, b) : f < e /\ e \in Event(s)
  BY <1>2, BranchesAre DEF Own
<1>4. PICK x : x \in Own(s, b)
  BY BranchesAre
<1>5. f \in Nat
  <2>1. s.branch[b] \in BranchRow
    BY DEF Exists
  <2> QED
    BY <1>2, <2>1 DEF BranchRow
<1>6. CASE m \in Own(s, b)
  BY <1>3, <1>6
<1>7. CASE m \in Inherited(s, b)
  <2>1. m \in ParentChain(s, f)
    BY <1>2, <1>7 DEF Inherited
  <2>2. f # NoEvent
    <3>1. Rooted(s)
      BY <1>1, ChainBelow
    <3>2. ParentChain(s, NoEvent) = {}
      BY <3>1, ChainIs
    <3> QED
      BY <2>1, <3>2
  <2>3. f \in Event(s)
    BY <1>1, <1>3, <1>4, <1>5, <2>2 DEF NoEvent
  <2>4. m \in 1 .. f
    BY <1>1, <2>1, <2>3, ChainBelow
  <2> QED
    BY <1>1, <1>3, <2>3, <2>4
<1> QED
  BY <1>6, <1>7 DEF Visible

\* A request of a branch that mentions a path still does.
LEMMA MentionStays ==
  ASSUME NEW s, NEW t, NEW r, s.log \in Seq(EventRecord), LogSound(s),
         s.branch \in [Branch -> BranchRow \cup {NoRow}], Grown(s, t, r), Suits(s, r),
         NEW q \in Event(s), NEW p, Mentioned(s, q, p)
  PROVE  Mentioned(t, q, p)
<1>1. PICK n : n = Len(s.log) + 1
  OBVIOUS
<1>2. /\ n \in Nat /\ Event(s) = 1 .. n - 1 /\ Begins(s, t)
  BY <1>1, GrownIs
<1>3. PICK b : b = s.log[q].branch
  OBVIOUS
<1>4. b \in Branch /\ Exists(s, b) /\ t.log[q].branch = b
  BY <1>2, <1>3, LogIs, EventIsOf DEF Begins
<1>5. PICK m \in Visible(s, b) :
        /\ s.log[m].type = "mention" /\ s.log[m].name = p
        /\ s.log[m].branch = b => m <= q
  BY <1>3 DEF Mentioned
<1>6. m \in Visible(t, b)
  BY <1>4, VisibleGrows
<1>7. m \in Event(s)
  BY <1>4, <1>5, SeenIsEvent
<1>8. t.log[m] = s.log[m]
  BY <1>2, <1>7 DEF Begins
<1> QED
  BY <1>4, <1>5, <1>6, <1>8 DEF Mentioned

-----------------------------------------------------------------------------
(* What an event does to a world *)

SoundWorlds == {world \in World : Clocked(world)}
ClockRows == {Absent} \cup [n : Nat, value : Nat, request : Nat]
ProcRows == {Absent} \cup [state : {"running", "terminated"}, signals : Seq({"TERM", "HUP"})]

LEMMA WorldIs ==
  /\ World = [clocks : [Clock -> ClockRows], revisions : SUBSET Revision,
              conflicts : SUBSET Conflict, nodes : SUBSET Path, procs : [Pid -> ProcRows]]
  /\ \A world \in World :
       /\ world.clocks \in [Clock -> ClockRows] /\ world.revisions \in SUBSET Revision
       /\ world.conflicts \in SUBSET Conflict /\ world.nodes \in SUBSET Path
       /\ world.procs \in [Pid -> ProcRows]
       /\ world = [clocks |-> world.clocks, revisions |-> world.revisions,
                   conflicts |-> world.conflicts, nodes |-> world.nodes, procs |-> world.procs]
<1>1. World = [clocks : [Clock -> ClockRows], revisions : SUBSET Revision,
               conflicts : SUBSET Conflict, nodes : SUBSET Path, procs : [Pid -> ProcRows]]
  BY Zenon DEF World, ClockRows, ProcRows
<1> QED
  BY <1>1

\* An error is no world, and an absent row no row.
LEMMA RowsAre ==
  /\ Failed \notin World
  /\ \A row \in [n : Nat, value : Nat, request : Nat] : row # Absent
  /\ \A row \in [state : {"running", "terminated"}, signals : Seq({"TERM", "HUP"})] :
       row # Absent
<1>1. "failed" \in DOMAIN Failed /\ "absent" \in DOMAIN Absent
  BY DEF Failed, Absent
<1>2. \A world \in World : DOMAIN world = {"clocks", "revisions", "conflicts", "nodes", "procs"}
  BY WorldIs
<1>3. \A row \in [n : Nat, value : Nat, request : Nat] : "absent" \notin DOMAIN row
  OBVIOUS
<1>4. \A row \in [state : {"running", "terminated"}, signals : Seq({"TERM", "HUP"})] :
        "absent" \notin DOMAIN row
  OBVIOUS
<1> QED
  BY <1>1, <1>2, <1>3, <1>4

\* A world stays sound when its tables do.
LEMMA MadeOf ==
  ASSUME NEW c \in [Clock -> ClockRows], NEW r \in SUBSET Revision, NEW k \in SUBSET Conflict,
         NEW d \in SUBSET Path, NEW p \in [Pid -> ProcRows], IsFiniteSet(r),
         \A x \in r \cup k : c[x.clock] # Absent
  PROVE  [clocks |-> c, revisions |-> r, conflicts |-> k, nodes |-> d, procs |-> p]
           \in SoundWorlds
<1>1. [clocks |-> c, revisions |-> r, conflicts |-> k, nodes |-> d, procs |-> p] \in World
  BY WorldIs
<1> QED
  BY <1>1 DEF SoundWorlds, Clocked

LEMMA EmptyIs == EmptyWorld \in SoundWorlds
<1>1. [c \in Clock |-> Absent] \in [Clock -> ClockRows]
  BY DEF ClockRows
<1>2. [p \in Pid |-> Absent] \in [Pid -> ProcRows]
  BY DEF ProcRows
<1>3. IsFiniteSet({})
  BY FS_EmptySet
<1> QED
  BY <1>1, <1>2, <1>3, MadeOf DEF EmptyWorld

\* A file is made.
LEMMA FileIs ==
  ASSUME NEW world \in SoundWorlds, NEW r, r.name \in Path
  PROVE  WithFile(world, r) \in SoundWorlds
         /\ WithFile(world, r) = [clocks |-> world.clocks, revisions |-> world.revisions,
                                  conflicts |-> world.conflicts,
                                  nodes |-> world.nodes \cup {r.name}, procs |-> world.procs]
<1>1. /\ world \in World /\ IsFiniteSet(world.revisions)
      /\ \A x \in world.revisions \cup world.conflicts : world.clocks[x.clock] # Absent
  BY DEF SoundWorlds, Clocked
<1>z. /\ world.clocks \in [Clock -> ClockRows] /\ world.revisions \in SUBSET Revision
      /\ world.conflicts \in SUBSET Conflict /\ world.nodes \in SUBSET Path
      /\ world.procs \in [Pid -> ProcRows]
      /\ world = [clocks |-> world.clocks, revisions |-> world.revisions,
                  conflicts |-> world.conflicts, nodes |-> world.nodes, procs |-> world.procs]
  BY <1>1, WorldIs
<1>2. WithFile(world, r) = [clocks |-> world.clocks, revisions |-> world.revisions,
                            conflicts |-> world.conflicts,
                            nodes |-> world.nodes \cup {r.name}, procs |-> world.procs]
  BY <1>z DEF WithFile
<1>3. world.nodes \cup {r.name} \in SUBSET Path
  BY <1>1, <1>z
<1> QED
  BY <1>1, <1>2, <1>3, <1>z, MadeOf

NewProcess == [state |-> "running", signals |-> <<>>]

\* A process comes in.
LEMMA ProcessIs ==
  ASSUME NEW world \in SoundWorlds, NEW r, r.name \in Pid
  PROVE  /\ WithProcess(world, r) \in SoundWorlds /\ NewProcess # Absent
         /\ WithProcess(world, r) =
              [clocks |-> world.clocks, revisions |-> world.revisions,
               conflicts |-> world.conflicts, nodes |-> world.nodes,
               procs |-> [world.procs EXCEPT ![r.name] = NewProcess]]
<1>1. /\ world \in World /\ IsFiniteSet(world.revisions)
      /\ \A x \in world.revisions \cup world.conflicts : world.clocks[x.clock] # Absent
  BY DEF SoundWorlds, Clocked
<1>z. /\ world.clocks \in [Clock -> ClockRows] /\ world.revisions \in SUBSET Revision
      /\ world.conflicts \in SUBSET Conflict /\ world.nodes \in SUBSET Path
      /\ world.procs \in [Pid -> ProcRows]
      /\ world = [clocks |-> world.clocks, revisions |-> world.revisions,
                  conflicts |-> world.conflicts, nodes |-> world.nodes, procs |-> world.procs]
  BY <1>1, WorldIs
<1>2. <<>> \in Seq({"TERM", "HUP"})
  OBVIOUS
<1>3. NewProcess \in [state : {"running", "terminated"}, signals : Seq({"TERM", "HUP"})]
  BY <1>2 DEF NewProcess
<1>4. NewProcess \in ProcRows /\ NewProcess # Absent
  BY <1>3, RowsAre DEF ProcRows
<1>5. [world.procs EXCEPT ![r.name] = NewProcess] \in [Pid -> ProcRows]
  BY <1>1, <1>4, <1>z
<1>6. WithProcess(world, r) =
        [clocks |-> world.clocks, revisions |-> world.revisions,
         conflicts |-> world.conflicts, nodes |-> world.nodes,
         procs |-> [world.procs EXCEPT ![r.name] = NewProcess]]
  BY <1>z DEF WithProcess, NewProcess
<1> QED
  BY <1>1, <1>4, <1>5, <1>6, <1>z, MadeOf

Signalled(row, r) == [state |-> r.state, signals |-> Append(row.signals, r.op)]

\* A process gets a signal.
LEMMA SignalIs ==
  ASSUME NEW world \in SoundWorlds, NEW r, r.name \in Pid, r.op \in {"TERM", "HUP"},
         r.state \in {"running", "terminated"}, world.procs[r.name] # Absent
  PROVE  /\ WithSignal(world, r) \in SoundWorlds
         /\ Signalled(world.procs[r.name], r) # Absent
         /\ world.procs[r.name].signals \in Seq({"TERM", "HUP"})
         /\ WithSignal(world, r) =
              [clocks |-> world.clocks, revisions |-> world.revisions,
               conflicts |-> world.conflicts, nodes |-> world.nodes,
               procs |-> [world.procs EXCEPT ![r.name] = Signalled(world.procs[r.name], r)]]
<1>1. /\ world \in World /\ IsFiniteSet(world.revisions)
      /\ \A x \in world.revisions \cup world.conflicts : world.clocks[x.clock] # Absent
  BY DEF SoundWorlds, Clocked
<1>z. /\ world.clocks \in [Clock -> ClockRows] /\ world.revisions \in SUBSET Revision
      /\ world.conflicts \in SUBSET Conflict /\ world.nodes \in SUBSET Path
      /\ world.procs \in [Pid -> ProcRows]
      /\ world = [clocks |-> world.clocks, revisions |-> world.revisions,
                  conflicts |-> world.conflicts, nodes |-> world.nodes, procs |-> world.procs]
  BY <1>1, WorldIs
<1>2. PICK row : row = world.procs[r.name]
  OBVIOUS
<1>3. row \in [state : {"running", "terminated"}, signals : Seq({"TERM", "HUP"})]
  BY <1>1, <1>2, <1>z DEF ProcRows
<1>4. row.signals \in Seq({"TERM", "HUP"})
  BY <1>3
<1>5. Append(row.signals, r.op) \in Seq({"TERM", "HUP"})
  BY <1>4
<1>6. Signalled(row, r) \in [state : {"running", "terminated"}, signals : Seq({"TERM", "HUP"})]
  BY <1>5 DEF Signalled
<1>7. Signalled(row, r) \in ProcRows /\ Signalled(row, r) # Absent
  BY <1>6, RowsAre DEF ProcRows
<1>8. [world.procs EXCEPT ![r.name] = Signalled(row, r)] \in [Pid -> ProcRows]
  BY <1>1, <1>7, <1>z
<1>9. WithSignal(world, r) =
        [clocks |-> world.clocks, revisions |-> world.revisions,
         conflicts |-> world.conflicts, nodes |-> world.nodes,
         procs |-> [world.procs EXCEPT ![r.name] = Signalled(row, r)]]
  BY <1>1, <1>2, <1>z DEF WithSignal, Signalled
<1>10. PICK procs : procs = [world.procs EXCEPT ![r.name] = Signalled(row, r)]
  OBVIOUS
<1>11. [clocks |-> world.clocks, revisions |-> world.revisions, conflicts |-> world.conflicts,
        nodes |-> world.nodes, procs |-> procs] \in SoundWorlds
  BY <1>1, <1>8, <1>10, <1>z, MadeOf
<1>12. WithSignal(world, r) =
        [clocks |-> world.clocks, revisions |-> world.revisions,
         conflicts |-> world.conflicts, nodes |-> world.nodes, procs |-> procs]
  BY <1>9, <1>10
<1>13. WithSignal(world, r) \in SoundWorlds
  BY <1>11, <1>12
<1> QED
  BY <1>2, <1>4, <1>7, <1>9, <1>13

NewClock(r) == [n |-> 0, value |-> 0, request |-> r.cause]

\* A clock is made.
LEMMA ClockIs ==
  ASSUME NEW world \in SoundWorlds, NEW r, r.name \in Clock, r.cause \in Nat
  PROVE  /\ WithClock(world, r) \in SoundWorlds /\ NewClock(r) # Absent
         /\ WithClock(world, r) =
              [clocks |-> [world.clocks EXCEPT ![r.name] = NewClock(r)],
               revisions |-> world.revisions, conflicts |-> world.conflicts,
               nodes |-> world.nodes, procs |-> world.procs]
<1>1. /\ world \in World /\ IsFiniteSet(world.revisions)
      /\ \A x \in world.revisions \cup world.conflicts : world.clocks[x.clock] # Absent
  BY DEF SoundWorlds, Clocked
<1>z. /\ world.clocks \in [Clock -> ClockRows] /\ world.revisions \in SUBSET Revision
      /\ world.conflicts \in SUBSET Conflict /\ world.nodes \in SUBSET Path
      /\ world.procs \in [Pid -> ProcRows]
      /\ world = [clocks |-> world.clocks, revisions |-> world.revisions,
                  conflicts |-> world.conflicts, nodes |-> world.nodes, procs |-> world.procs]
  BY <1>1, WorldIs
<1>2. NewClock(r) \in [n : Nat, value : Nat, request : Nat]
  BY DEF NewClock
<1>3. NewClock(r) \in ClockRows /\ NewClock(r) # Absent
  BY <1>2, RowsAre DEF ClockRows
<1>4. [world.clocks EXCEPT ![r.name] = NewClock(r)] \in [Clock -> ClockRows]
  BY <1>1, <1>3, <1>z
<1>5. WithClock(world, r) =
        [clocks |-> [world.clocks EXCEPT ![r.name] = NewClock(r)],
         revisions |-> world.revisions, conflicts |-> world.conflicts,
         nodes |-> world.nodes, procs |-> world.procs]
  BY <1>z DEF WithClock, NewClock
<1>6. \A x \in world.revisions \cup world.conflicts :
        [world.clocks EXCEPT ![r.name] = NewClock(r)][x.clock] # Absent
  <2>1. \A x \in world.revisions \cup world.conflicts : x.clock \in Clock
    BY <1>z DEF Revision, Conflict
  <2> QED
    BY <1>1, <1>3, <1>z, <2>1
<1>7. PICK clocks : clocks = [world.clocks EXCEPT ![r.name] = NewClock(r)]
  OBVIOUS
<1>8. [clocks |-> clocks, revisions |-> world.revisions, conflicts |-> world.conflicts,
       nodes |-> world.nodes, procs |-> world.procs] \in SoundWorlds
  BY <1>1, <1>4, <1>6, <1>7, <1>z, MadeOf
<1> QED
  BY <1>3, <1>5, <1>7, <1>8

ClockRead(row, r) == [n |-> r.n, value |-> r.value, request |-> row.request]

\* The rows of a clock after a reading.
LEMMA ReplacedIs ==
  ASSUME NEW R \in SUBSET Revision, IsFiniteSet(R), NEW row \in Revision
  PROVE  Replaced(R, row) \in SUBSET Revision /\ IsFiniteSet(Replaced(R, row))
<1>1. PICK K : K = {x \in R : ~ (x.clock = row.clock /\ x.n = row.n)}
  OBVIOUS
<1>2. K \subseteq R /\ Replaced(R, row) = K \cup {row}
  BY <1>1 DEF Replaced
<1>3. IsFiniteSet(K)
  BY <1>2, FS_Subset
<1>4. IsFiniteSet(K \cup {row})
  BY <1>3, FS_AddElement
<1> QED
  BY <1>2, <1>4

\* A clock is set or advanced.
LEMMA ReadingIs ==
  ASSUME NEW world \in SoundWorlds, NEW r, NEW e \in Nat, r.name \in Clock,
         r.op \in {"set", "advance"}, r.n \in Nat, r.value \in Nat,
         world.clocks[r.name] # Absent
  PROVE  /\ WithReading(world, e, r) \in SoundWorlds
         /\ ClockRead(world.clocks[r.name], r) # Absent
         /\ RevisionOf(e, r) \in Revision
         /\ WithReading(world, e, r) =
              [clocks |-> [world.clocks EXCEPT
                             ![r.name] = ClockRead(world.clocks[r.name], r)],
               revisions |-> Replaced(world.revisions, RevisionOf(e, r)),
               conflicts |-> world.conflicts, nodes |-> world.nodes, procs |-> world.procs]
<1>1. /\ world \in World /\ IsFiniteSet(world.revisions) /\ world.revisions \in SUBSET Revision
      /\ \A x \in world.revisions \cup world.conflicts : world.clocks[x.clock] # Absent
  BY WorldIs DEF SoundWorlds, Clocked
<1>z. /\ world.clocks \in [Clock -> ClockRows] /\ world.revisions \in SUBSET Revision
      /\ world.conflicts \in SUBSET Conflict /\ world.nodes \in SUBSET Path
      /\ world.procs \in [Pid -> ProcRows]
      /\ world = [clocks |-> world.clocks, revisions |-> world.revisions,
                  conflicts |-> world.conflicts, nodes |-> world.nodes, procs |-> world.procs]
  BY <1>1, WorldIs
<1>2. PICK row : row = world.clocks[r.name]
  OBVIOUS
<1>3. row \in [n : Nat, value : Nat, request : Nat]
  BY <1>1, <1>2, <1>z DEF ClockRows
<1>4. ClockRead(row, r) \in [n : Nat, value : Nat, request : Nat]
  BY <1>3 DEF ClockRead
<1>5. ClockRead(row, r) \in ClockRows /\ ClockRead(row, r) # Absent
  BY <1>4, RowsAre DEF ClockRows
<1>6. [world.clocks EXCEPT ![r.name] = ClockRead(row, r)] \in [Clock -> ClockRows]
  BY <1>1, <1>5, <1>z
<1>7. RevisionOf(e, r) \in Revision
  BY DEF RevisionOf, Revision
<1>8. PICK V : V = RevisionOf(e, r)
  OBVIOUS
<1>9. PICK R : R = Replaced(world.revisions, V)
  OBVIOUS
<1>10. R \in SUBSET Revision /\ IsFiniteSet(R)
  BY <1>1, <1>7, <1>8, <1>9, ReplacedIs
<1>11. [row EXCEPT !.n = r.n, !.value = r.value] = ClockRead(row, r)
  <2>1. row = [n |-> row.n, value |-> row.value, request |-> row.request]
    BY <1>3
  <2>2. PICK a, b, c : a = row.n /\ b = row.value /\ c = row.request
    OBVIOUS
  <2>a. row = [n |-> a, value |-> b, request |-> c]
    BY <2>1, <2>2
  <2>b. PICK u : u = [row EXCEPT !.n = r.n]
    OBVIOUS
  <2>c. u = [n |-> r.n, value |-> b, request |-> c]
    BY <2>a, <2>b
  <2>d. [u EXCEPT !.value = r.value] = [n |-> r.n, value |-> r.value, request |-> c]
    BY <2>c
  <2>3. [row EXCEPT !.n = r.n, !.value = r.value] = [n |-> r.n, value |-> r.value, request |-> c]
    BY <2>b, <2>d, Zenon
  <2>4. row.request = c
    BY <2>2
  <2> QED
    BY <2>3, <2>4 DEF ClockRead
<1>12. WithReading(world, e, r) =
         [world EXCEPT !.revisions = R, !.clocks[r.name].n = r.n, !.clocks[r.name].value = r.value]
  BY <1>2, <1>8, <1>9 DEF WithReading
<1>13. PICK clocks : clocks = [world.clocks EXCEPT ![r.name] = ClockRead(row, r)]
  OBVIOUS
<1>14. world.clocks \in [Clock -> ClockRows]
  BY <1>1, <1>z
<1>15. [world.clocks EXCEPT ![r.name].n = r.n, ![r.name].value = r.value] = clocks
  BY <1>2, <1>11, <1>13, <1>14
<1>16. WithReading(world, e, r) = [world EXCEPT !.revisions = R, !.clocks = clocks]
  BY <1>1, <1>12, <1>15, <1>z
<1>17. WithReading(world, e, r) =
         [clocks |-> clocks, revisions |-> R, conflicts |-> world.conflicts,
          nodes |-> world.nodes, procs |-> world.procs]
  BY <1>1, <1>16, <1>z
<1>18. clocks \in [Clock -> ClockRows]
  BY <1>6, <1>13
<1>20. \A x \in R \cup world.conflicts : clocks[x.clock] # Absent
  <2>1. \A x \in R \cup world.conflicts :
          \/ x \in world.revisions \cup world.conflicts /\ x.clock \in Clock
          \/ x = V
    BY <1>1, <1>9, <1>z DEF Replaced, Revision, Conflict
  <2>2. V.clock = r.name
    BY <1>8 DEF RevisionOf
  <2>3. clocks[r.name] # Absent
    BY <1>5, <1>13, <1>14
  <2>4. \A y \in Clock \ {r.name} : clocks[y] = world.clocks[y]
    BY <1>13, <1>14
  <2> QED
    BY <1>1, <2>1, <2>2, <2>3, <2>4
<1>19. WithReading(world, e, r) \in SoundWorlds
  BY <1>z, <1>10, <1>17, <1>18, <1>20, MadeOf
<1> QED
  BY <1>2, <1>5, <1>7, <1>8, <1>9, <1>13, <1>17, <1>19

ConflictOf(e, r) == [clock |-> r.name, prior |-> r.prior, n |-> r.n, event |-> e]

\* A contradiction is noted.
LEMMA ConflictIs ==
  ASSUME NEW world \in SoundWorlds, NEW r, NEW e \in Nat, r.name \in Clock,
         r.n \in Nat, r.prior \in Nat, world.clocks[r.name] # Absent
  PROVE  /\ WithConflict(world, e, r) \in SoundWorlds
         /\ WithConflict(world, e, r) =
              [clocks |-> world.clocks, revisions |-> world.revisions,
               conflicts |-> world.conflicts \cup {ConflictOf(e, r)},
               nodes |-> world.nodes, procs |-> world.procs]
<1>1. /\ world \in World /\ IsFiniteSet(world.revisions)
      /\ \A x \in world.revisions \cup world.conflicts : world.clocks[x.clock] # Absent
  BY DEF SoundWorlds, Clocked
<1>z. /\ world.clocks \in [Clock -> ClockRows] /\ world.revisions \in SUBSET Revision
      /\ world.conflicts \in SUBSET Conflict /\ world.nodes \in SUBSET Path
      /\ world.procs \in [Pid -> ProcRows]
      /\ world = [clocks |-> world.clocks, revisions |-> world.revisions,
                  conflicts |-> world.conflicts, nodes |-> world.nodes, procs |-> world.procs]
  BY <1>1, WorldIs
<1>2. ConflictOf(e, r) \in Conflict
  BY DEF ConflictOf, Conflict
<1>3. world.conflicts \cup {ConflictOf(e, r)} \in SUBSET Conflict
  BY <1>1, <1>2, <1>z
<1>4. WithConflict(world, e, r) =
              [clocks |-> world.clocks, revisions |-> world.revisions,
               conflicts |-> world.conflicts \cup {ConflictOf(e, r)},
               nodes |-> world.nodes, procs |-> world.procs]
  BY <1>z DEF WithConflict, ConflictOf
<1>5. PICK K : K = world.conflicts \cup {ConflictOf(e, r)}
  OBVIOUS
<1>6. \A x \in world.revisions \cup K : world.clocks[x.clock] # Absent
  BY <1>1, <1>5 DEF ConflictOf
<1> QED
  BY <1>1, <1>3, <1>4, <1>5, <1>6, <1>z, MadeOf

\* What an event is applied by.
LEMMA AppliedBy ==
  ASSUME NEW world, NEW e, NEW r
  PROVE  /\ r.type = "file.created" => Applied(world, e, r) = WithFile(world, r)
         /\ r.type = "process.created" => Applied(world, e, r) = WithProcess(world, r)
         /\ r.type = "signal" => Applied(world, e, r) = WithSignal(world, r)
         /\ r.type = "clock.created" => Applied(world, e, r) = WithClock(world, r)
         /\ r.type \in Readings => Applied(world, e, r) = WithReading(world, e, r)
         /\ r.type = "clock.contradiction" => Applied(world, e, r) = WithConflict(world, e, r)
         /\ r.type \notin Mutations => Applied(world, e, r) = world
BY DEF Applied, Mutations, Readings

\* What the name of an event and its numbers are.
LEMMA FieldsAre ==
  ASSUME NEW r \in EventRecord, NameFits(r)
  PROVE  /\ r.cause \in Nat /\ r.parent \in Nat /\ r.n \in Nat /\ r.value \in Nat
         /\ r.prior \in Nat /\ r.at \in Nat /\ r.branch \in Branch
         /\ r.type \in Types
         /\ r.type = "file.created" => r.name \in Path
         /\ r.type \in {"process.created", "signal"} => r.name \in Pid
         /\ r.type = "signal" => r.op \in {"TERM", "HUP"} /\ r.state \in {"running", "terminated"}
         /\ r.type \in OfClocks => r.name \in Clock
         /\ r.type \in Readings => r.op \in {"set", "advance"} /\ r.name \in Clock
         /\ r.type = "clock.set" => r.op = "set"
         /\ r.type = "clock.advanced" => r.op = "advance"
<1>1. /\ r.cause \in Nat /\ r.parent \in Nat /\ r.n \in Nat /\ r.value \in Nat
      /\ r.prior \in Nat /\ r.at \in Nat /\ r.branch \in Branch /\ r.type \in Types
      /\ r.state \in {"none", "running", "terminated"}
  BY DEF EventRecord
<1> QED
  BY <1>1 DEF NameFits, OfClocks, Readings

\* The rows of u are there in v.
Kept(u, v) ==
  /\ \A p \in Pid : u.procs[p] # Absent => v.procs[p] # Absent
  /\ \A c \in Clock : u.clocks[c] # Absent => v.clocks[c] # Absent

RowsOf(world) == world.revisions \cup world.conflicts

\* What is in v and not in u is of event e.
Beyond(u, v, e) == \A row \in RowsOf(v) : row \in RowsOf(u) \/ row.event = e

LEMMA AppliedIs ==
  ASSUME NEW world \in SoundWorlds, NEW e \in Nat, NEW r \in EventRecord, NameFits(r)
  PROVE  /\ ~ Applies(world, r) => Applied(world, e, r) = Failed
         /\ Applies(world, r) => /\ Applied(world, e, r) \in SoundWorlds
                                 /\ Kept(world, Applied(world, e, r))
                                 /\ Beyond(world, Applied(world, e, r), e)
<1>1. PICK v : v = Applied(world, e, r)
  OBVIOUS
<1>2. /\ r.cause \in Nat /\ r.n \in Nat /\ r.value \in Nat /\ r.prior \in Nat
      /\ r.type = "file.created" => r.name \in Path
      /\ r.type \in {"process.created", "signal"} => r.name \in Pid
      /\ r.type = "signal" => r.op \in {"TERM", "HUP"} /\ r.state \in {"running", "terminated"}
      /\ r.type \in OfClocks => r.name \in Clock
      /\ r.type \in Readings => r.op \in {"set", "advance"} /\ r.name \in Clock
  BY FieldsAre
<1>3. /\ world.clocks \in [Clock -> ClockRows] /\ world.procs \in [Pid -> ProcRows]
  BY WorldIs DEF SoundWorlds
<1>4. CASE r.type = "file.created"
  <2>1. v = WithFile(world, r)
    BY <1>1, <1>4, AppliedBy
  <2>2. /\ v \in SoundWorlds
        /\ v = [clocks |-> world.clocks, revisions |-> world.revisions,
                conflicts |-> world.conflicts,
                nodes |-> world.nodes \cup {r.name}, procs |-> world.procs]
    BY <1>2, <1>4, <2>1, FileIs
  <2>3. v.clocks = world.clocks /\ v.procs = world.procs /\ RowsOf(v) = RowsOf(world)
    BY <2>2 DEF RowsOf
  <2>4. Kept(world, v) /\ Beyond(world, v, e)
    BY <2>3 DEF Kept, Beyond
  <2> QED
    BY <1>1, <1>4, <2>2, <2>4 DEF Applies, Readings
<1>5. CASE r.type = "process.created"
  <2>1. v = WithProcess(world, r)
    BY <1>1, <1>5, AppliedBy
  <2>2. /\ v \in SoundWorlds /\ NewProcess # Absent
        /\ v = [clocks |-> world.clocks, revisions |-> world.revisions,
                conflicts |-> world.conflicts, nodes |-> world.nodes,
                procs |-> [world.procs EXCEPT ![r.name] = NewProcess]]
    BY <1>2, <1>5, <2>1, ProcessIs
  <2>3. /\ v.clocks = world.clocks /\ RowsOf(v) = RowsOf(world)
        /\ v.procs = [world.procs EXCEPT ![r.name] = NewProcess]
    BY <2>2 DEF RowsOf
  <2>4. Kept(world, v) /\ Beyond(world, v, e)
    BY <1>2, <1>3, <1>5, <2>2, <2>3 DEF Kept, Beyond
  <2> QED
    BY <1>1, <1>5, <2>2, <2>4 DEF Applies, Readings
<1>6. CASE r.type = "signal"
  <2>1. v = WithSignal(world, r)
    BY <1>1, <1>6, AppliedBy
  <2>2. CASE world.procs[r.name] # Absent
    <3>1. PICK row : row = Signalled(world.procs[r.name], r)
      OBVIOUS
    <3>2. /\ v \in SoundWorlds /\ row # Absent
          /\ v = [clocks |-> world.clocks, revisions |-> world.revisions,
                  conflicts |-> world.conflicts, nodes |-> world.nodes,
                  procs |-> [world.procs EXCEPT ![r.name] = row]]
      BY <1>2, <1>6, <2>1, <2>2, <3>1, SignalIs
    <3>3. /\ v.clocks = world.clocks /\ RowsOf(v) = RowsOf(world)
          /\ v.procs = [world.procs EXCEPT ![r.name] = row]
      BY <3>2 DEF RowsOf
    <3>4. Kept(world, v) /\ Beyond(world, v, e)
      BY <1>2, <1>3, <1>6, <3>2, <3>3 DEF Kept, Beyond
    <3> QED
      BY <1>1, <1>6, <2>2, <3>2, <3>4 DEF Applies, Readings
  <2>3. CASE world.procs[r.name] = Absent
    <3>1. v = Failed
      BY <2>1, <2>3 DEF WithSignal
    <3> QED
      BY <1>1, <1>6, <2>3, <3>1 DEF Applies
  <2> QED
    BY <2>2, <2>3
<1>7. CASE r.type = "clock.created"
  <2>1. v = WithClock(world, r)
    BY <1>1, <1>7, AppliedBy
  <2>a. r.name \in Clock
    BY <1>2, <1>7 DEF OfClocks
  <2>2. /\ v \in SoundWorlds /\ NewClock(r) # Absent
        /\ v = [clocks |-> [world.clocks EXCEPT ![r.name] = NewClock(r)],
                revisions |-> world.revisions, conflicts |-> world.conflicts,
                nodes |-> world.nodes, procs |-> world.procs]
    BY <1>2, <2>a, <2>1, ClockIs
  <2>3. /\ v.clocks = [world.clocks EXCEPT ![r.name] = NewClock(r)]
        /\ RowsOf(v) = RowsOf(world) /\ v.procs = world.procs
    BY <2>2 DEF RowsOf
  <2>4. Kept(world, v) /\ Beyond(world, v, e)
    BY <2>a, <1>3, <2>2, <2>3 DEF Kept, Beyond
  <2> QED
    BY <1>1, <1>7, <2>2, <2>4 DEF Applies, Readings
<1>8. CASE r.type \in Readings
  <2>1. v = WithReading(world, e, r)
    BY <1>1, <1>8, AppliedBy
  <2>2. CASE world.clocks[r.name] # Absent
    <3>1. PICK row, R, V : /\ row = ClockRead(world.clocks[r.name], r)
                           /\ V = RevisionOf(e, r) /\ R = Replaced(world.revisions, V)
      OBVIOUS
    <3>2. /\ v \in SoundWorlds /\ row # Absent
          /\ v = [clocks |-> [world.clocks EXCEPT ![r.name] = row],
                  revisions |-> R, conflicts |-> world.conflicts,
                  nodes |-> world.nodes, procs |-> world.procs]
      BY <1>2, <1>8, <2>1, <2>2, <3>1, ReadingIs
    <3>3. /\ v.clocks = [world.clocks EXCEPT ![r.name] = row]
          /\ RowsOf(v) = R \cup world.conflicts /\ v.procs = world.procs
      BY <3>2 DEF RowsOf
    <3>a. V.event = e
      BY <3>1 DEF RevisionOf
    <3>b. \A x \in R : x \in world.revisions \/ x = V
      BY <3>1 DEF Replaced
    <3>4. Kept(world, v)
      BY <1>2, <1>3, <1>8, <3>2, <3>3 DEF Kept
    <3>5. Beyond(world, v, e)
      BY <3>a, <3>b, <3>3 DEF Beyond, RowsOf
    <3> QED
      BY <1>1, <1>8, <2>2, <3>2, <3>4, <3>5 DEF Applies, Readings
  <2>3. CASE world.clocks[r.name] = Absent
    <3>1. v = Failed
      BY <2>1, <2>3 DEF WithReading
    <3> QED
      BY <1>1, <1>8, <2>3, <3>1 DEF Applies, Readings
  <2> QED
    BY <2>2, <2>3
<1>9. CASE r.type = "clock.contradiction"
  <2>1. v = WithConflict(world, e, r)
    BY <1>1, <1>9, AppliedBy
  <2>a. r.name \in Clock
    BY <1>2, <1>9 DEF OfClocks
  <2>2. CASE world.clocks[r.name] # Absent
    <3>1. PICK row : row = ConflictOf(e, r)
      OBVIOUS
    <3>2. /\ v \in SoundWorlds
          /\ v = [clocks |-> world.clocks, revisions |-> world.revisions,
                  conflicts |-> world.conflicts \cup {row},
                  nodes |-> world.nodes, procs |-> world.procs]
      BY <1>2, <2>a, <2>1, <2>2, <3>1, ConflictIs
    <3>3. /\ v.clocks = world.clocks /\ v.procs = world.procs
          /\ RowsOf(v) = RowsOf(world) \cup {row}
      BY <3>2 DEF RowsOf
    <3>a. row.event = e
      BY <3>1 DEF ConflictOf
    <3>4. Kept(world, v) /\ Beyond(world, v, e)
      BY <3>a, <3>3 DEF Kept, Beyond
    <3> QED
      BY <1>1, <1>9, <2>2, <3>2, <3>4 DEF Applies, Readings
  <2>3. CASE world.clocks[r.name] = Absent
    <3>1. v = Failed
      BY <2>1, <2>3 DEF WithConflict
    <3> QED
      BY <1>1, <1>9, <2>3, <3>1 DEF Applies, Readings
  <2> QED
    BY <2>2, <2>3
<1>10. CASE r.type \notin Mutations
  <2>1. v = world
    BY <1>1, <1>10, AppliedBy
  <2>2. Kept(world, v) /\ Beyond(world, v, e)
    BY <2>1 DEF Kept, Beyond
  <2> QED
    BY <1>1, <1>10, <2>1, <2>2 DEF Applies, Readings, Mutations
<1> QED
  BY <1>4, <1>5, <1>6, <1>7, <1>8, <1>9, <1>10 DEF Mutations, Readings

-----------------------------------------------------------------------------
(* Worlds that are replayed *)

Fitting(s) == s.log \in Seq(EventRecord) /\ \A e \in Event(s) : NameFits(s.log[e])

Outcomes == SoundWorlds \cup {Failed}

\* The worlds on the way of a replay.
Replays(g, s, events) ==
  /\ g[0] = EmptyWorld
  /\ \A k \in 1 .. Len(s.log) :
       g[k] = IF k \notin events \/ g[k - 1] = Failed THEN g[k - 1]
              ELSE Applied(g[k - 1], k, s.log[k])

LEMMA ReplayedIs ==
  ASSUME NEW s, Fitting(s), NEW events
  PROVE  \E g : /\ Replays(g, s, events) /\ Replayed(s, events) = g[Len(s.log)]
                /\ \A k \in 0 .. Len(s.log) : g[k] \in Outcomes
<1>1. PICK n \in Nat : n = Len(s.log)
  BY DEF Fitting
<1>2. Event(s) = 1 .. n
  BY <1>1 DEF Event, Fitting
<1> DEFINE OneStep(k, w) == IF k \notin events \/ w = Failed THEN w ELSE Applied(w, k, s.log[k])
           F == [x \in (1 .. n) \X Outcomes |-> OneStep(x[1], x[2])]
           after[k \in 0 .. Len(s.log)] ==
             IF k = 0 THEN EmptyWorld
             ELSE LET world == after[k - 1]
                  IN  IF k \notin events \/ world = Failed THEN world
                      ELSE Applied(world, k, s.log[k])
<1>3. ASSUME NEW k \in 1 .. n, NEW w \in Outcomes
      PROVE  OneStep(k, w) \in Outcomes
  <2>1. k \in Nat /\ s.log[k] \in EventRecord /\ NameFits(s.log[k])
    BY <1>2 DEF Fitting, Event
  <2>2. CASE w = Failed
    BY <2>2
  <2>3. CASE w # Failed
    <3>1. w \in SoundWorlds
      BY <2>3 DEF Outcomes
    <3>2. Applied(w, k, s.log[k]) \in SoundWorlds \/ Applied(w, k, s.log[k]) = Failed
      BY <2>1, <3>1, AppliedIs
    <3> QED
      BY <2>3, <3>2 DEF Outcomes
  <2> QED
    BY <2>2, <2>3
<1>4. EmptyWorld \in Outcomes
  BY EmptyIs DEF Outcomes
<1> HIDE DEF OneStep
<1>5. F \in [(1 .. n) \X Outcomes -> Outcomes]
  BY <1>3
<1>6. PICK g \in [0 .. n -> Outcomes] : Follows(g, n, EmptyWorld, F)
  BY <1>4, <1>5, Recursion
<1>7. ASSUME NEW k \in 0 .. n
      PROVE  g[k] = IF k = 0 THEN EmptyWorld ELSE OneStep(k, g[k - 1])
  <2>1. CASE k = 0
    BY <1>6, <2>1 DEF Follows
  <2>2. CASE k # 0
    <3>1. k \in 1 .. n /\ k - 1 \in 0 .. n
      BY <2>2
    <3>2. g[k - 1] \in Outcomes /\ g[k] = F[<<k, g[k - 1]>>]
      BY <1>6, <3>1 DEF Follows
    <3>3. <<k, g[k - 1]>> \in (1 .. n) \X Outcomes
      BY <3>1, <3>2
    <3> QED
      BY <2>2, <3>2, <3>3
  <2> QED
    BY <2>1, <2>2
<1>8. g = [k \in 0 .. n |-> IF k = 0 THEN EmptyWorld ELSE OneStep(k, g[k - 1])]
  BY <1>6, <1>7
<1>9. g = [k \in 0 .. Len(s.log) |->
             IF k = 0 THEN EmptyWorld
             ELSE LET world == g[k - 1]
                  IN  IF k \notin events \/ world = Failed THEN world
                      ELSE Applied(world, k, s.log[k])]
  BY <1>1, <1>8, Zenon DEF OneStep
<1>10. after = [k \in 0 .. Len(s.log) |->
             IF k = 0 THEN EmptyWorld
             ELSE LET world == after[k - 1]
                  IN  IF k \notin events \/ world = Failed THEN world
                      ELSE Applied(world, k, s.log[k])]
  BY <1>9, Zenon
<1>11. Replayed(s, events) = after[Len(s.log)]
  BY Zenon DEF Replayed
<1> HIDE DEF after
<1>12. after = [k \in 0 .. n |-> IF k = 0 THEN EmptyWorld ELSE OneStep(k, after[k - 1])]
  BY <1>1, <1>10, Zenon DEF OneStep
<1>13. after[0] = EmptyWorld /\ \A k \in 1 .. n : after[k] = OneStep(k, after[k - 1])
  <2>1. 0 \in 0 .. n /\ \A k \in 1 .. n : k \in 0 .. n /\ k # 0
    OBVIOUS
  <2> QED
    BY <1>12, <2>1
<1>14. Replays(after, s, events)
  BY <1>1, <1>13, Zenon DEF Replays, OneStep
<1>15. \A k \in 0 .. n : after[k] \in Outcomes
  <2> DEFINE P == {k \in 0 .. n : after[k] \in Outcomes}
  <2>1. ASSUME NEW k \in 0 .. n, \A i \in 0 .. n : i < k => i \in P
        PROVE  k \in P
    <3>1. CASE k = 0
      BY <1>4, <1>13, <3>1
    <3>2. CASE k # 0
      <4>1. k \in 1 .. n /\ k - 1 \in 0 .. n /\ k - 1 < k
        BY <3>2
      <4>2. after[k - 1] \in Outcomes
        BY <2>1, <4>1
      <4>3. after[k] \in Outcomes
        BY <1>3, <1>13, <4>1, <4>2
      <4> QED
        BY <4>3
    <3> QED
      BY <3>1, <3>2
  <2> HIDE DEF P
  <2>2. 0 .. n \subseteq P
    BY <2>1, StrongInduction
  <2> QED
    BY <2>2 DEF P
<1> QED
  BY <1>1, <1>11, <1>14, <1>15

\* What is in a world that was replayed is of the events.
LEMMA ReplayedRows ==
  ASSUME NEW s, Fitting(s), NEW events
  PROVE  /\ Replayed(s, events) \in SoundWorlds \cup {Failed}
         /\ Replayed(s, events) # Failed =>
              \A row \in RowsOf(Replayed(s, events)) : row.event \in events
<1>1. PICK n \in Nat : n = Len(s.log) /\ Event(s) = 1 .. n
  BY DEF Event, Fitting
<1>2. PICK g : /\ Replays(g, s, events) /\ Replayed(s, events) = g[n]
               /\ \A k \in 0 .. n : g[k] \in Outcomes
  BY <1>1, ReplayedIs
<1> DEFINE P == {k \in 0 .. n : g[k] # Failed => \A row \in RowsOf(g[k]) : row.event \in events}
<1>3. ASSUME NEW k \in 0 .. n, \A i \in 0 .. n : i < k => i \in P
      PROVE  k \in P
  <2>1. CASE k = 0
    <3>1. RowsOf(EmptyWorld) = {}
      BY DEF RowsOf, EmptyWorld
    <3> QED
      BY <1>2, <2>1, <3>1 DEF Replays
  <2>2. CASE k # 0
    <3>1. k \in 1 .. n /\ k - 1 \in 0 .. n /\ k - 1 < k
      BY <2>2
    <3>2. PICK u, v, r : u = g[k - 1] /\ v = g[k] /\ r = s.log[k]
      OBVIOUS
    <3>3. k - 1 \in P
      BY <1>3, <3>1
    <3>4. /\ v = IF k \notin events \/ u = Failed THEN u ELSE Applied(u, k, r)
          /\ u # Failed => \A row \in RowsOf(u) : row.event \in events
          /\ u \in Outcomes
      BY <1>1, <1>2, <3>1, <3>2, <3>3 DEF Replays
    <3>5. CASE k \notin events \/ u = Failed
      BY <3>2, <3>4, <3>5
    <3>6. CASE k \in events /\ u # Failed
      <4>1. u \in SoundWorlds /\ r \in EventRecord /\ NameFits(r) /\ k \in Nat
        BY <1>1, <3>1, <3>2, <3>4, <3>6 DEF Outcomes, Fitting
      <4>2. v = Failed \/ Beyond(u, v, k)
        BY <3>4, <3>6, <4>1, AppliedIs
      <4>3. v # Failed => \A row \in RowsOf(v) : row.event \in events
        BY <3>4, <3>6, <4>2 DEF Beyond
      <4> QED
        BY <3>2, <4>3
    <3> QED
      BY <3>5, <3>6
  <2> QED
    BY <2>1, <2>2
<1> HIDE DEF P
<1>4. 0 .. n \subseteq P
  BY <1>3, StrongInduction
<1> QED
  BY <1>1, <1>2, <1>4 DEF P, Outcomes

\* The step of the runtime that is made of events.
Known(world, r) == r.name \in Clock /\ world.clocks[r.name] # Absent

BackedNext(world, e, r) ==
  IF r.type = "signal"
  THEN IF world.procs[r.name] = Absent THEN world
       ELSE [world EXCEPT !.procs[r.name] = ReplayedSignal(@, r)]
  ELSE IF r.type = "clock.created" THEN WithNewClock(world, r)
  ELSE IF r.type \in {"clock.set", "clock.advanced"}
  THEN IF ~ Known(world, r) \/ \E x \in RevisionsOf(world, r.name) : x.n = r.n
       THEN world ELSE Applied(world, e, r)
  ELSE IF r.type = "clock.contradiction" /\ ~ Known(world, r) THEN world
  ELSE Applied(world, e, r)

\* A clock that has rows is made again.
Renews(world, r) ==
  r.type = "clock.created" /\ \E x \in world.revisions \cup world.conflicts : x.clock = r.name

Doubles(world, r) ==
  \/ r.type \in Readings /\ \E x \in RevisionsOf(world, r.name) : x.n = r.n
  \/ Renews(world, r)

\* The clock of the runtime that is made of events.
LEMMA NewClockIs ==
  ASSUME NEW world \in SoundWorlds, NEW r, r.name \in Clock, r.cause \in Nat,
         r.type = "clock.created"
  PROVE  /\ WithNewClock(world, r) \in SoundWorlds
         /\ ~ Renews(world, r) => WithNewClock(world, r) = WithClock(world, r)
<1>1. PICK v : v = WithClock(world, r)
  OBVIOUS
<1>2. v \in SoundWorlds
  BY <1>1, ClockIs
<1>3. v \in World /\ Clocked(v)
  BY <1>2 DEF SoundWorlds
<1>4. /\ v.clocks \in [Clock -> ClockRows] /\ v.revisions \in SUBSET Revision
      /\ v.conflicts \in SUBSET Conflict /\ v.nodes \in SUBSET Path
      /\ v.procs \in [Pid -> ProcRows]
      /\ v = [clocks |-> v.clocks, revisions |-> v.revisions,
              conflicts |-> v.conflicts, nodes |-> v.nodes, procs |-> v.procs]
  BY <1>3, WorldIs
<1>5. PICK R, K : /\ R = {x \in v.revisions : x.clock # r.name}
                  /\ K = {x \in v.conflicts : x.clock # r.name}
  OBVIOUS
<1>6. WithNewClock(world, r) = [v EXCEPT !.revisions = R, !.conflicts = K]
  BY <1>1, <1>5, Zenon DEF WithNewClock
<1>7. PICK c, d, e, f, g : /\ c = v.clocks /\ d = v.revisions /\ e = v.conflicts
                           /\ f = v.nodes /\ g = v.procs
  OBVIOUS
<1>8. v = [clocks |-> c, revisions |-> d, conflicts |-> e, nodes |-> f, procs |-> g]
  BY <1>4, <1>7
<1>9. PICK w : w = [v EXCEPT !.revisions = R]
  OBVIOUS
<1>10. w = [clocks |-> c, revisions |-> R, conflicts |-> e, nodes |-> f, procs |-> g]
  BY <1>8, <1>9
<1>11. [w EXCEPT !.conflicts = K]
         = [clocks |-> c, revisions |-> R, conflicts |-> K, nodes |-> f, procs |-> g]
  BY <1>10
<1>12. WithNewClock(world, r)
         = [clocks |-> c, revisions |-> R, conflicts |-> K, nodes |-> f, procs |-> g]
  BY <1>6, <1>9, <1>11, Zenon
<1>13. R \subseteq d /\ K \subseteq e
  BY <1>5, <1>7
<1>14. IsFiniteSet(R) /\ \A x \in R \cup K : c[x.clock] # Absent
  BY <1>3, <1>7, <1>13, FS_Subset DEF Clocked
<1>15. WithNewClock(world, r) \in SoundWorlds
  BY <1>4, <1>7, <1>12, <1>13, <1>14, MadeOf
<1>16. ASSUME ~ Renews(world, r)
       PROVE  WithNewClock(world, r) = v
  <2>1. v.revisions = world.revisions /\ v.conflicts = world.conflicts
    BY <1>1, ClockIs
  <2>2. R = d /\ K = e
    BY <1>5, <1>7, <1>16, <2>1 DEF Renews
  <2> QED
    BY <1>8, <1>12, <2>2
<1> QED
  BY <1>1, <1>15, <1>16

\* It does what the tables do, but for a revision that is there and for the rows of a
\* clock that is made again.
LEMMA BackedNextIs ==
  ASSUME NEW world \in SoundWorlds, NEW e \in Nat, NEW r \in EventRecord, NameFits(r)
  PROVE  /\ Applies(world, r) /\ ~ Doubles(world, r) =>
              BackedNext(world, e, r) = Applied(world, e, r)
         /\ BackedNext(world, e, r) \in SoundWorlds
<1>1. /\ r.type \in OfClocks => r.name \in Clock
      /\ r.type \in Readings => r.name \in Clock
  BY FieldsAre
<1>2. CASE r.type = "signal"
  <2>1. Applied(world, e, r) = WithSignal(world, r)
    BY <1>2, AppliedBy
  <2>2. CASE Applies(world, r)
    <3>1. world.procs[r.name] # Absent
      BY <1>2, <2>2 DEF Applies
    <3>2. BackedNext(world, e, r) = WithSignal(world, r)
      BY <1>2, <3>1 DEF BackedNext, WithSignal, ReplayedSignal
    <3> QED
      BY <2>1, <2>2, <3>2, AppliedIs
  <2>3. CASE ~ Applies(world, r)
    <3>1. world.procs[r.name] = Absent
      BY <1>2, <2>3 DEF Applies, Readings
    <3>2. BackedNext(world, e, r) = world
      BY <1>2, <3>1 DEF BackedNext
    <3> QED
      BY <2>3, <3>2
  <2> QED
    BY <2>2, <2>3
<1>3. CASE r.type \in Readings
  <2>1. Applies(world, r) <=> Known(world, r)
    BY <1>1, <1>3 DEF Applies, Known, Readings
  <2>2. BackedNext(world, e, r) =
          IF ~ Known(world, r) \/ \E x \in RevisionsOf(world, r.name) : x.n = r.n
          THEN world ELSE Applied(world, e, r)
    BY <1>3, Zenon DEF BackedNext, Readings
  <2>3. (\E x \in RevisionsOf(world, r.name) : x.n = r.n) => Doubles(world, r)
    BY <1>3 DEF Doubles
  <2> QED
    BY <2>1, <2>2, <2>3, AppliedIs
<1>4. CASE r.type = "clock.contradiction"
  <2>1. Applies(world, r) <=> Known(world, r)
    BY <1>1, <1>4 DEF Applies, Known, Readings, OfClocks
  <2>2. BackedNext(world, e, r) =
          IF ~ Known(world, r) THEN world ELSE Applied(world, e, r)
    BY <1>4 DEF BackedNext
  <2> QED
    BY <2>1, <2>2, AppliedIs
<1>6. CASE r.type = "clock.created"
  <2>1. BackedNext(world, e, r) = WithNewClock(world, r)
    BY <1>6, Zenon DEF BackedNext
  <2>2. Applied(world, e, r) = WithClock(world, r)
    BY <1>6, AppliedBy
  <2>3. r.name \in Clock /\ r.cause \in Nat
    BY <1>6, FieldsAre DEF OfClocks
  <2> QED
    BY <1>6, <2>1, <2>2, <2>3, NewClockIs DEF Doubles
<1>5. CASE /\ r.type \notin {"signal", "clock.contradiction", "clock.created"}
           /\ r.type \notin Readings
  <2>1. Applies(world, r)
    BY <1>5 DEF Applies
  <2>2. BackedNext(world, e, r) = Applied(world, e, r)
    BY <1>5 DEF BackedNext, Readings
  <2> QED
    BY <2>1, <2>2, AppliedIs
<1> QED
  BY <1>2, <1>3, <1>4, <1>5, <1>6

Backs(g, s, b) ==
  /\ g[0] = EmptyWorld
  /\ \A k \in 1 .. Len(s.log) :
       g[k] = IF s.log[k].branch = b THEN BackedNext(g[k - 1], k, s.log[k]) ELSE g[k - 1]

LEMMA EventBackedIs ==
  ASSUME NEW s, Fitting(s), NEW b
  PROVE  \E g : /\ Backs(g, s, b) /\ EventBacked(s, b) = g[Len(s.log)]
                /\ \A k \in 0 .. Len(s.log) : g[k] \in SoundWorlds
<1>1. PICK n \in Nat : n = Len(s.log)
  BY DEF Fitting
<1>2. Event(s) = 1 .. n
  BY <1>1 DEF Event, Fitting
<1> DEFINE OneStep(k, w) == IF s.log[k].branch = b THEN BackedNext(w, k, s.log[k]) ELSE w
           F == [x \in (1 .. n) \X SoundWorlds |-> OneStep(x[1], x[2])]
           known(world, r) == r.name \in Clock /\ world.clocks[r.name] # Absent
           next(world, e, r) ==
             IF r.type = "signal"
             THEN IF world.procs[r.name] = Absent THEN world
                  ELSE [world EXCEPT !.procs[r.name] = ReplayedSignal(@, r)]
             ELSE IF r.type = "clock.created" THEN WithNewClock(world, r)
             ELSE IF r.type \in {"clock.set", "clock.advanced"}
             THEN IF ~ known(world, r) \/ \E x \in RevisionsOf(world, r.name) : x.n = r.n
                  THEN world ELSE Applied(world, e, r)
             ELSE IF r.type = "clock.contradiction" /\ ~ known(world, r) THEN world
             ELSE Applied(world, e, r)
           after[k \in 0 .. Len(s.log)] ==
             IF k = 0 THEN EmptyWorld
             ELSE LET world == after[k - 1]
                  IN  IF s.log[k].branch = b THEN next(world, k, s.log[k]) ELSE world
<1>3. ASSUME NEW k \in 1 .. n, NEW w \in SoundWorlds
      PROVE  OneStep(k, w) \in SoundWorlds
  <2>1. k \in Nat /\ s.log[k] \in EventRecord /\ NameFits(s.log[k])
    BY <1>2 DEF Fitting, Event
  <2>2. BackedNext(w, k, s.log[k]) \in SoundWorlds
    BY <2>1, BackedNextIs
  <2> QED
    BY <2>2
<1>n. \A w, e, r : next(w, e, r) = BackedNext(w, e, r)
  BY Zenon DEF BackedNext, Known
<1>4. EmptyWorld \in SoundWorlds
  BY EmptyIs
<1>11. EventBacked(s, b) = after[Len(s.log)]
  BY Zenon DEF EventBacked
<1> HIDE DEF OneStep, next
<1>5. F \in [(1 .. n) \X SoundWorlds -> SoundWorlds]
  BY <1>3
<1>6. PICK g \in [0 .. n -> SoundWorlds] : Follows(g, n, EmptyWorld, F)
  BY <1>4, <1>5, Recursion
<1>7. ASSUME NEW k \in 0 .. n
      PROVE  g[k] = IF k = 0 THEN EmptyWorld ELSE OneStep(k, g[k - 1])
  <2>1. CASE k = 0
    BY <1>6, <2>1 DEF Follows
  <2>2. CASE k # 0
    <3>1. k \in 1 .. n /\ k - 1 \in 0 .. n
      BY <2>2
    <3>2. g[k - 1] \in SoundWorlds /\ g[k] = F[<<k, g[k - 1]>>]
      BY <1>6, <3>1 DEF Follows
    <3>3. <<k, g[k - 1]>> \in (1 .. n) \X SoundWorlds
      BY <3>1, <3>2
    <3> QED
      BY <2>2, <3>2, <3>3
  <2> QED
    BY <2>1, <2>2
<1>8. g = [k \in 0 .. n |-> IF k = 0 THEN EmptyWorld ELSE OneStep(k, g[k - 1])]
  BY <1>6, <1>7
<1>a. \A k, w : OneStep(k, w) = IF s.log[k].branch = b THEN next(w, k, s.log[k]) ELSE w
  BY <1>n, Zenon DEF OneStep
<1>9. g = [k \in 0 .. Len(s.log) |->
             IF k = 0 THEN EmptyWorld
             ELSE LET world == g[k - 1]
                  IN  IF s.log[k].branch = b THEN next(world, k, s.log[k]) ELSE world]
  BY <1>1, <1>8, <1>a
<1>10. after = [k \in 0 .. Len(s.log) |->
             IF k = 0 THEN EmptyWorld
             ELSE LET world == after[k - 1]
                  IN  IF s.log[k].branch = b THEN next(world, k, s.log[k]) ELSE world]
  BY <1>9, Zenon
<1> HIDE DEF after
<1>12. after = [k \in 0 .. n |-> IF k = 0 THEN EmptyWorld ELSE OneStep(k, after[k - 1])]
  BY <1>1, <1>10, <1>a
<1>13. after[0] = EmptyWorld /\ \A k \in 1 .. n : after[k] = OneStep(k, after[k - 1])
  <2>1. 0 \in 0 .. n /\ \A k \in 1 .. n : k \in 0 .. n /\ k # 0
    OBVIOUS
  <2> QED
    BY <1>12, <2>1
<1>14. Backs(after, s, b)
  BY <1>1, <1>13, Zenon DEF Backs, OneStep
<1>15. \A k \in 0 .. n : after[k] \in SoundWorlds
  <2> DEFINE P == {k \in 0 .. n : after[k] \in SoundWorlds}
  <2>1. ASSUME NEW k \in 0 .. n, \A i \in 0 .. n : i < k => i \in P
        PROVE  k \in P
    <3>1. CASE k = 0
      BY <1>4, <1>13, <3>1
    <3>2. CASE k # 0
      <4>1. k \in 1 .. n /\ k - 1 \in 0 .. n /\ k - 1 < k
        BY <3>2
      <4>2. after[k - 1] \in SoundWorlds
        BY <2>1, <4>1
      <4>3. after[k] \in SoundWorlds
        BY <1>3, <1>13, <4>1, <4>2
      <4> QED
        BY <4>3
    <3> QED
      BY <3>1, <3>2
  <2> HIDE DEF P
  <2>2. 0 .. n \subseteq P
    BY <2>1, StrongInduction
  <2> QED
    BY <2>2 DEF P
<1> QED
  BY <1>1, <1>11, <1>14, <1>15

\* An event of a branch is a step of its replay.
LEMMA BackedGrows ==
  ASSUME NEW s, NEW t, NEW r, Fitting(s), Fitting(t), Grown(s, t, r), NEW b
  PROVE  /\ EventBacked(s, b) \in SoundWorlds
         /\ EventBacked(t, b) = IF r.branch = b
                                THEN BackedNext(EventBacked(s, b), Len(s.log) + 1, r)
                                ELSE EventBacked(s, b)
<1>1. PICK n : n = Len(s.log) + 1
  OBVIOUS
<1>2. /\ n \in Nat /\ n > 0 /\ Len(t.log) = n /\ Event(s) = 1 .. n - 1
      /\ t.log[n] = r /\ Begins(s, t) /\ Len(s.log) = n - 1
  <2>1. s.log \in Seq(EventRecord)
    BY DEF Fitting
  <2>2. /\ n \in Nat /\ n > 0 /\ Len(t.log) = n /\ Event(s) = 1 .. n - 1
        /\ t.log[n] = r /\ Begins(s, t)
    BY <1>1, <2>1, GrownIs
  <2> QED
    BY <1>1, <2>1, <2>2
<1>3. PICK g : /\ Backs(g, s, b) /\ EventBacked(s, b) = g[n - 1]
               /\ \A k \in 0 .. n - 1 : g[k] \in SoundWorlds
  BY <1>2, EventBackedIs
<1>4. PICK h : Backs(h, t, b) /\ EventBacked(t, b) = h[n]
  BY <1>2, EventBackedIs
<1> DEFINE P == {k \in 0 .. n - 1 : h[k] = g[k]}
<1>5. ASSUME NEW k \in 0 .. n - 1, \A i \in 0 .. n - 1 : i < k => i \in P
      PROVE  k \in P
  <2>1. CASE k = 0
    BY <1>3, <1>4, <2>1 DEF Backs
  <2>2. CASE k # 0
    <3>1. k \in 1 .. n - 1 /\ k \in 1 .. n /\ k - 1 \in 0 .. n - 1 /\ k - 1 < k /\ k \in Event(s)
      BY <1>2, <2>2
    <3>2. h[k - 1] = g[k - 1]
      BY <1>5, <3>1
    <3>3. t.log[k] = s.log[k]
      BY <1>2, <3>1 DEF Begins
    <3>4. g[k] = IF s.log[k].branch = b THEN BackedNext(g[k - 1], k, s.log[k]) ELSE g[k - 1]
      BY <1>2, <1>3, <3>1 DEF Backs
    <3>5. h[k] = IF t.log[k].branch = b THEN BackedNext(h[k - 1], k, t.log[k]) ELSE h[k - 1]
      BY <1>2, <1>4, <3>1 DEF Backs
    <3>6. h[k] = g[k]
      BY <3>2, <3>3, <3>4, <3>5
    <3> QED
      BY <3>6
  <2> QED
    BY <2>1, <2>2
<1> HIDE DEF P
<1>6. n - 1 \in Nat
  BY <1>2
<1>7. 0 .. n - 1 \subseteq P
  BY <1>5, <1>6, StrongInduction
<1>8. h[n - 1] = g[n - 1]
  BY <1>6, <1>7 DEF P
<1>9. n \in 1 .. Len(t.log)
  BY <1>2
<1>10. h[n] = IF r.branch = b THEN BackedNext(h[n - 1], n, r) ELSE h[n - 1]
  BY <1>2, <1>4, <1>9 DEF Backs
<1>11. g[n - 1] \in SoundWorlds
  BY <1>3, <1>6
<1> QED
  BY <1>1, <1>3, <1>4, <1>8, <1>10, <1>11

-----------------------------------------------------------------------------
(* What is recorded stays sound *)

Databases == [log : Seq(EventRecord), branch : [Branch -> BranchRow \cup {NoRow}],
              world : [Branch -> World]]

\* Event e of s was not invented.
Grounded(s, e) ==
  LET r == s.log[e]
      asked(ops) == r.cause \in 1 .. e - 1 /\ s.log[r.cause].op \in ops
                    /\ s.log[r.cause].name = r.name
  IN  /\ r.type = "file.created" =>
           /\ asked({"read"})
           /\ \E m \in Event(s) :
                /\ s.log[m].type = "mention" /\ s.log[m].name = r.name /\ m < r.cause
                /\ m \in Visible(s, r.branch)
      /\ r.type = "clock.created" => asked({"create"})
      /\ r.type = "clock.set" => asked({"set"})
      /\ r.type = "clock.advanced" => asked({"advance"})

\* The part of the invariant that is about the database alone.
Sound(s) ==
  /\ s \in Databases /\ LogSound(s)
  /\ \A b \in Branch : s.world[b] \in SoundWorlds
  /\ \A e \in Event(s) : Grounded(s, e)
  /\ \A b \in Branch : Exists(s, b) =>
       \A row \in RowsOf(s.world[b]) : row.event \in Visible(s, b)

LEMMA SoundIs ==
  Sound(db) <=> /\ db \in Databases /\ LogSound(db) /\ NothingInvented /\ WorldIsVisible
                /\ \A b \in Branch : Clocked(db.world[b])
<1>1. NothingInvented <=> \A e \in Event(db) : Grounded(db, e)
  <2>1. ASSUME NEW e \in Event(db), NEW b
        PROVE  (\E m \in OfType("mention") :
                  /\ db.log[m].name = db.log[e].name /\ m < db.log[e].cause
                  /\ m \in Visible(db, b))
               <=> \E m \in Event(db) :
                     /\ db.log[m].type = "mention" /\ db.log[m].name = db.log[e].name
                     /\ m < db.log[e].cause /\ m \in Visible(db, b)
    BY DEF OfType
  <2> QED
    BY <2>1, ZenonT(30) DEF NothingInvented, Grounded
<1>2. db \in Databases => \A b \in Branch : db.world[b] \in World
  BY DEF Databases
<1>3. db \in Databases => ((\A b \in Branch : Clocked(db.world[b]))
                           <=> \A b \in Branch : db.world[b] \in SoundWorlds)
  BY <1>2 DEF SoundWorlds
<1>4. WorldIsVisible <=> \A b \in Branch : Exists(db, b) =>
                           \A row \in RowsOf(db.world[b]) : row.event \in Visible(db, b)
  BY DEF WorldIsVisible, Branches, RowsOf
<1> QED
  BY <1>1, <1>3, <1>4 DEF Sound

LEMMA DatabaseIs ==
  ASSUME NEW s, Sound(s)
  PROVE  /\ s.log \in Seq(EventRecord) /\ s.branch \in [Branch -> BranchRow \cup {NoRow}]
         /\ s.world \in [Branch -> World] /\ LogSound(s) /\ Fitting(s)
         /\ s = [log |-> s.log, branch |-> s.branch, world |-> s.world]
<1>1. s \in Databases /\ LogSound(s)
  BY DEF Sound
<1>2. /\ s.log \in Seq(EventRecord) /\ s.branch \in [Branch -> BranchRow \cup {NoRow}]
      /\ s.world \in [Branch -> World]
      /\ s = [log |-> s.log, branch |-> s.branch, world |-> s.world]
  BY <1>1 DEF Databases
<1>3. Fitting(s)
  BY <1>1, <1>2, LogIs DEF Fitting
<1> QED
  BY <1>1, <1>2, <1>3

\* What an event needs of the world that it changes, and of its request.
Grounds(s, r) ==
  /\ IF r.type = "session.forked" THEN ForkedWorld(s, r.parent) # Failed
     ELSE Applies(s.world[r.branch], r)
  /\ r.type \in {"file.created", "clock.created", "clock.set", "clock.advanced"} =>
       /\ r.cause \in Event(s) /\ s.log[r.cause].type = "tool.request"
       /\ Asked(s, r.cause, r)

\* An append, by what it changes.
LEMMA AppendedIs ==
  ASSUME NEW s, Sound(s), NEW r \in EventRecord, r.at = Len(s.log) + 1, NEW t,
         t = Appended(s, r)
  PROVE  /\ Grown(s, t, r) /\ t.world = [s.world EXCEPT ![r.branch] = WorldAfter(s, r)]
         /\ t = [log |-> t.log, branch |-> t.branch, world |-> t.world]
         /\ r.branch \in Branch /\ t.world[r.branch] = WorldAfter(s, r)
         /\ \A b \in Branch \ {r.branch} : t.world[b] = s.world[b]
<1>1. PICK l, k, w, v : /\ l = Append(s.log, r) /\ k = BranchRows(s, r)
                        /\ v = WorldAfter(s, r) /\ w = [s.world EXCEPT ![r.branch] = v]
  OBVIOUS
<1>2. PICK a, b, c : s = [log |-> a, branch |-> b, world |-> c] /\ c = s.world
  BY DatabaseIs
<1>3. t = [s EXCEPT !.log = l, !.branch = k, !.world[r.branch] = v]
  BY <1>1, <1>2 DEF Appended
<1>4. t = [log |-> l, branch |-> k, world |-> w]
  BY <1>1, <1>2, <1>3
<1>5. t.log = l /\ t.branch = k /\ t.world = w
  BY <1>4
<1>6. r.branch \in Branch
  BY DEF EventRecord
<1>7. s.world \in [Branch -> World]
  BY DatabaseIs
<1>8. w[r.branch] = v /\ \A x \in Branch \ {r.branch} : w[x] = s.world[x]
  BY <1>1, <1>6, <1>7
<1> QED
  BY <1>1, <1>4, <1>5, <1>6, <1>8 DEF Grown

\* What an append that suits makes of a world.
LEMMA WorldAfterIs ==
  ASSUME NEW s, Sound(s), NEW r \in EventRecord, Suits(s, r), Grounds(s, r)
  PROVE  /\ WorldAfter(s, r) \in SoundWorlds
         /\ r.type = "session.forked" =>
              \A row \in RowsOf(WorldAfter(s, r)) : row.event \in ParentChain(s, r.parent)
         /\ r.type # "session.forked" =>
              /\ WorldAfter(s, r) = Applied(s.world[r.branch], Len(s.log) + 1, r)
              /\ Kept(s.world[r.branch], WorldAfter(s, r))
              /\ Beyond(s.world[r.branch], WorldAfter(s, r), Len(s.log) + 1)
<1>1. CASE r.type = "session.forked"
  <2>1. WorldAfter(s, r) = Replayed(s, ParentChain(s, r.parent))
    BY <1>1 DEF WorldAfter, ForkedWorld
  <2>2. WorldAfter(s, r) # Failed
    BY <1>1 DEF Grounds, WorldAfter
  <2>3. Fitting(s)
    BY DatabaseIs
  <2> QED
    BY <1>1, <2>1, <2>2, <2>3, ReplayedRows
<1>2. CASE r.type # "session.forked"
  <2>1. WorldAfter(s, r) = Applied(s.world[r.branch], Len(s.log) + 1, r)
    BY <1>2 DEF WorldAfter
  <2>2. r.branch \in Branch /\ s.world[r.branch] \in SoundWorlds
    BY DEF Sound, EventRecord
  <2>3. Len(s.log) + 1 \in Nat
    BY DatabaseIs
  <2>4. Applies(s.world[r.branch], r) /\ NameFits(r)
    BY <1>2 DEF Grounds, Suits
  <2> QED
    BY <1>2, <2>1, <2>2, <2>3, <2>4, AppliedIs
<1> QED
  BY <1>1, <1>2

\* An event that suits and is grounded keeps what is recorded sound.
LEMMA AppendIsSound ==
  ASSUME NEW s, Sound(s), NEW r \in EventRecord, r.at = Len(s.log) + 1, NEW t,
         t = Appended(s, r), Suits(s, r), Grounds(s, r)
  PROVE  Sound(t)
<1>1. PICK n : n = Len(s.log) + 1
  OBVIOUS
<1>2. /\ s.log \in Seq(EventRecord) /\ s.branch \in [Branch -> BranchRow \cup {NoRow}]
      /\ s.world \in [Branch -> World] /\ LogSound(s)
  BY DatabaseIs
<1>3. /\ Grown(s, t, r) /\ t.world = [s.world EXCEPT ![r.branch] = WorldAfter(s, r)]
      /\ t = [log |-> t.log, branch |-> t.branch, world |-> t.world]
      /\ r.branch \in Branch /\ t.world[r.branch] = WorldAfter(s, r)
      /\ \A b \in Branch \ {r.branch} : t.world[b] = s.world[b]
  BY AppendedIs
<1>4. /\ n \in Nat /\ n > 0 /\ t.log \in Seq(EventRecord) /\ Len(t.log) = n
      /\ Event(s) = 1 .. n - 1 /\ Event(t) = Event(s) \cup {n} /\ Event(t) = 1 .. n
      /\ n \notin Event(s) /\ t.log[n] = r /\ Begins(s, t)
  BY <1>1, <1>2, <1>3, GrownIs
<1>5. LogSound(t)
  BY <1>2, <1>3, LogGrows
<1>6. t.branch \in [Branch -> BranchRow \cup {NoRow}]
  BY <1>1, <1>2, <1>3, BranchesGrow
<1>7. ASSUME NEW b \in Branch
      PROVE  t.world[b] \in SoundWorlds
  BY <1>3, WorldAfterIs DEF Sound
<1>8. t \in Databases
  <2>1. t.world \in [Branch -> World]
    <3>1. WorldAfter(s, r) \in World
      BY WorldAfterIs DEF SoundWorlds
    <3> QED
      BY <1>2, <1>3, <3>1
  <2>2. PICK a, b, c : a = t.log /\ b = t.branch /\ c = t.world
    OBVIOUS
  <2>3. t = [log |-> a, branch |-> b, world |-> c]
    BY <1>3, <2>2
  <2> QED
    BY <1>4, <1>6, <2>1, <2>2, <2>3 DEF Databases
<1>9. /\ \A b \in Branch : Exists(s, b) => Visible(s, b) \subseteq Visible(t, b)
      /\ n \in Visible(t, r.branch)
      /\ r.type = "session.forked" => ParentChain(s, r.parent) \subseteq Visible(t, r.branch)
  BY <1>1, <1>2, <1>3, VisibleGrows
<1>10. ASSUME NEW e \in Event(t)
       PROVE  Grounded(t, e)
  <2>1. CASE e = n
    <3>1. PICK q : q = r.cause
      OBVIOUS
    <3>2. ASSUME r.type \in {"file.created", "clock.created", "clock.set", "clock.advanced"}
          PROVE  /\ q \in 1 .. n - 1 /\ t.log[q].op = s.log[q].op /\ t.log[q].name = r.name
                 /\ s.log[q].branch = r.branch /\ s.log[q].type = "tool.request"
                 /\ r.type = "file.created" => t.log[q].op = "read" /\ Mentioned(s, q, r.name)
                 /\ r.type = "clock.created" => t.log[q].op = "create"
                 /\ r.type = "clock.set" => t.log[q].op = "set"
                 /\ r.type = "clock.advanced" => t.log[q].op = "advance"
      <4>1. q \in Event(s) /\ s.log[q].type = "tool.request" /\ Asked(s, q, r)
        BY <3>1, <3>2 DEF Grounds
      <4>2. t.log[q] = s.log[q]
        BY <1>4, <4>1 DEF Begins
      <4> QED
        BY <1>4, <4>1, <4>2 DEF Asked
    <3>3. ASSUME r.type = "file.created"
          PROVE  \E m \in Event(t) : /\ t.log[m].type = "mention" /\ t.log[m].name = r.name
                                     /\ m < q /\ m \in Visible(t, r.branch)
      <4>1. q \in Event(s) /\ s.log[q].branch = r.branch /\ s.log[q].type = "tool.request"
            /\ Mentioned(s, q, r.name)
        BY <1>4, <3>2, <3>3
      <4>2. PICK m \in Visible(s, r.branch) :
              /\ s.log[m].type = "mention" /\ s.log[m].name = r.name
              /\ s.log[m].branch = r.branch => m <= q
        BY <4>1 DEF Mentioned
      <4>3. Exists(s, r.branch) /\ q \in Own(s, r.branch)
        BY <1>2, <1>3, <4>1, EventIsOf
      <4>4. m \in Event(s) /\ (m \in Own(s, r.branch) \/ m < q)
        BY <1>2, <1>3, <4>2, <4>3, SeenIsEvent
      <4>5. m < q
        <5>1. CASE m \in Own(s, r.branch)
          <6>1. m <= q /\ m # q
            BY <4>1, <4>2, <5>1 DEF Own
          <6> QED
            BY <1>4, <4>1, <4>4, <6>1
        <5> QED
          BY <4>4, <5>1
      <4>6. m \in Event(t) /\ t.log[m] = s.log[m] /\ m \in Visible(t, r.branch)
        BY <1>4, <1>3, <1>9, <4>2, <4>3, <4>4 DEF Begins
      <4> QED
        BY <4>2, <4>5, <4>6
    <3>4. \A ops : (r.type \in {"file.created", "clock.created", "clock.set", "clock.advanced"}
                     /\ t.log[q].op \in ops)
                    => /\ r.cause \in 1 .. e - 1 /\ t.log[r.cause].op \in ops
                       /\ t.log[r.cause].name = r.name
      BY <2>1, <3>1, <3>2
    <3>5. t.log[e] = r
      BY <1>4, <2>1
    <3>6. r.type = "file.created" =>
            \E m \in Event(t) : /\ t.log[m].type = "mention" /\ t.log[m].name = r.name
                                /\ m < r.cause /\ m \in Visible(t, r.branch)
      BY <3>1, <3>3
    <3>7. /\ r.type = "file.created" => t.log[q].op \in {"read"}
          /\ r.type = "clock.created" => t.log[q].op \in {"create"}
          /\ r.type = "clock.set" => t.log[q].op \in {"set"}
          /\ r.type = "clock.advanced" => t.log[q].op \in {"advance"}
      BY <3>2
    <3> QED
      BY <3>4, <3>5, <3>6, <3>7 DEF Grounded
  <2>2. CASE e # n
    <3>1. e \in Event(s) /\ t.log[e] = s.log[e] /\ e - 1 <= n - 1 /\ e \in Nat
      BY <1>4, <2>2 DEF Begins
    <3>2. Grounded(s, e)
      BY <3>1 DEF Sound
    <3>3. PICK x : x = s.log[e]
      OBVIOUS
    <3>4. x.branch \in Branch /\ Exists(s, x.branch)
      BY <1>2, <3>1, <3>3, LogIs, EventIsOf
    <3>5. x.cause \in 1 .. e - 1 => t.log[x.cause] = s.log[x.cause]
      <4>1. 1 .. e - 1 \subseteq 1 .. n - 1
        BY <1>4, <3>1
      <4>2. \A k \in 1 .. n - 1 : t.log[k] = s.log[k]
        BY <1>4 DEF Begins
      <4> QED
        BY <4>1, <4>2
    <3>6. ASSUME NEW m \in Event(s), m \in Visible(s, x.branch)
          PROVE  m \in Event(t) /\ t.log[m] = s.log[m] /\ m \in Visible(t, x.branch)
      BY <1>4, <1>9, <3>4, <3>6 DEF Begins
    <3>7. ASSUME NEW ops, x.cause \in 1 .. e - 1, s.log[x.cause].op \in ops,
                 s.log[x.cause].name = x.name
          PROVE  /\ x.cause \in 1 .. e - 1 /\ t.log[x.cause].op \in ops
                 /\ t.log[x.cause].name = x.name
      BY <3>5, <3>7
    <3>8. ASSUME NEW m \in Event(s), s.log[m].type = "mention", s.log[m].name = x.name,
                 m < x.cause, m \in Visible(s, x.branch)
          PROVE  \E k \in Event(t) :
                   /\ t.log[k].type = "mention" /\ t.log[k].name = x.name /\ k < x.cause
                   /\ k \in Visible(t, x.branch)
      BY <3>6, <3>8
    <3>9. t.log[e] = x
      BY <3>1, <3>3
    <3> QED
      BY <3>2, <3>3, <3>7, <3>8, <3>9 DEF Grounded
  <2> QED
    BY <2>1, <2>2
<1>11. ASSUME NEW b \in Branch, Exists(t, b), NEW row \in RowsOf(t.world[b])
       PROVE  row.event \in Visible(t, b)
  <2>1. CASE b # r.branch
    <3>1. t.world[b] = s.world[b] /\ Exists(s, b)
      BY <1>1, <1>2, <1>3, <1>11, <2>1, BranchesGrow
    <3> QED
      BY <1>9, <1>11, <3>1 DEF Sound
  <2>2. CASE b = r.branch /\ r.type = "session.forked"
    <3>1. row.event \in ParentChain(s, r.parent)
      BY <1>3, <1>11, <2>2, WorldAfterIs
    <3> QED
      BY <1>9, <2>2, <3>1
  <2>3. CASE b = r.branch /\ r.type # "session.forked"
    <3>1. row \in RowsOf(s.world[b]) \/ row.event = n
      BY <1>1, <1>3, <1>11, <2>3, WorldAfterIs DEF Beyond
    <3>2. Exists(s, b)
      BY <2>3 DEF Suits
    <3> QED
      BY <1>9, <2>3, <3>1, <3>2 DEF Sound
  <2> QED
    BY <2>1, <2>2, <2>3
<1> QED
  BY <1>5, <1>7, <1>8, <1>10, <1>11 DEF Sound

\* And what a request may be answered with still fits.
LEMMA AskedStays ==
  ASSUME NEW s, Sound(s), NEW r \in EventRecord, r.at = Len(s.log) + 1, NEW t,
         t = Appended(s, r), Suits(s, r), Grounds(s, r),
         NEW q \in Event(s), NEW x, Asked(s, q, x)
  PROVE  Asked(t, q, x)
<1>1. PICK n : n = Len(s.log) + 1
  OBVIOUS
<1>2. /\ s.log \in Seq(EventRecord) /\ s.branch \in [Branch -> BranchRow \cup {NoRow}]
      /\ LogSound(s)
  BY DatabaseIs
<1>3. /\ Grown(s, t, r) /\ t.world = [s.world EXCEPT ![r.branch] = WorldAfter(s, r)]
      /\ t = [log |-> t.log, branch |-> t.branch, world |-> t.world]
      /\ r.branch \in Branch /\ t.world[r.branch] = WorldAfter(s, r)
      /\ \A b \in Branch \ {r.branch} : t.world[b] = s.world[b]
  BY AppendedIs
<1>4. t.log[q] = s.log[q]
  BY <1>1, <1>2, <1>3, GrownIs DEF Begins
<1>5. PICK b : b = s.log[q].branch
  OBVIOUS
<1>6. b \in Branch /\ Exists(s, b) /\ x.branch = b
  BY <1>2, <1>5, LogIs, EventIsOf DEF Asked
<1>7. t.world[b] = s.world[b] \/ Kept(s.world[b], t.world[b])
  <2>1. CASE b = r.branch
    <3>1. r.type # "session.forked"
      BY <1>6, <2>1 DEF Suits
    <3> QED
      BY <1>3, <2>1, <3>1, WorldAfterIs
  <2> QED
    BY <1>3, <1>6, <2>1
<1>8. NameFits(x) /\ Applies(s.world[b], x)
  BY <1>6 DEF Asked
<1>9. Applies(t.world[b], x)
  <2>1. CASE t.world[b] = s.world[b]
    BY <1>8, <2>1
  <2>2. CASE Kept(s.world[b], t.world[b])
    <3>1. x.type = "signal" => x.name \in Pid
      BY <1>8 DEF NameFits
    <3>2. x.type \in Readings \cup {"clock.contradiction"} => x.name \in Clock
      BY <1>8 DEF NameFits, OfClocks
    <3> QED
      BY <1>8, <2>2, <3>1, <3>2 DEF Applies, Kept
  <2> QED
    BY <1>7, <2>1, <2>2
<1>10. x.type = "file.created" => Mentioned(t, q, x.name)
  <2>1. x.type = "file.created" => Mentioned(s, q, x.name)
    BY DEF Asked
  <2> QED
    BY <1>2, <1>3, <2>1, MentionStays
<1> QED
  BY <1>4, <1>6, <1>9, <1>10 DEF Asked

-----------------------------------------------------------------------------
(* The events that are appended *)

LEMMA RecordIs ==
  ASSUME NEW type \in Types, NEW b \in Branch, NEW parent \in Nat, NEW cause \in Nat
  PROVE  /\ Record(type, b, parent, cause) \in EventRecord
         /\ Record(type, b, parent, cause).type = type
         /\ Record(type, b, parent, cause).branch = b
         /\ Record(type, b, parent, cause).parent = parent
         /\ Record(type, b, parent, cause).cause = cause
         /\ Record(type, b, parent, cause).name = "none"
         /\ Record(type, b, parent, cause).op = "none"
BY DEF Record, EventRecord, Names

\* An event gets its place in the log, or behind which it is.
LEMMA PlacedIs ==
  ASSUME NEW r \in EventRecord, NEW x \in Nat
  PROVE  /\ [r EXCEPT !.at = x] \in EventRecord /\ [r EXCEPT !.at = x].at = x
         /\ [r EXCEPT !.at = x].type = r.type /\ [r EXCEPT !.at = x].branch = r.branch
         /\ [r EXCEPT !.at = x].parent = r.parent /\ [r EXCEPT !.at = x].cause = r.cause
         /\ [r EXCEPT !.at = x].op = r.op /\ [r EXCEPT !.at = x].name = r.name
         /\ [r EXCEPT !.at = x].n = r.n /\ [r EXCEPT !.at = x].value = r.value
         /\ [r EXCEPT !.at = x].prior = r.prior /\ [r EXCEPT !.at = x].state = r.state
BY DEF EventRecord

LEMMA BehindIs ==
  ASSUME NEW r \in EventRecord, NEW x \in Nat
  PROVE  /\ [r EXCEPT !.parent = x] \in EventRecord /\ [r EXCEPT !.parent = x].parent = x
         /\ [r EXCEPT !.parent = x].type = r.type /\ [r EXCEPT !.parent = x].branch = r.branch
         /\ [r EXCEPT !.parent = x].at = r.at /\ [r EXCEPT !.parent = x].cause = r.cause
         /\ [r EXCEPT !.parent = x].op = r.op /\ [r EXCEPT !.parent = x].name = r.name
         /\ [r EXCEPT !.parent = x].n = r.n /\ [r EXCEPT !.parent = x].value = r.value
         /\ [r EXCEPT !.parent = x].prior = r.prior /\ [r EXCEPT !.parent = x].state = r.state
BY DEF EventRecord

LEMMA NamedIs ==
  ASSUME NEW r \in EventRecord, NEW x \in Names
  PROVE  /\ [r EXCEPT !.name = x] \in EventRecord /\ [r EXCEPT !.name = x].name = x
         /\ [r EXCEPT !.name = x].type = r.type /\ [r EXCEPT !.name = x].branch = r.branch
         /\ [r EXCEPT !.name = x].parent = r.parent /\ [r EXCEPT !.name = x].cause = r.cause
         /\ [r EXCEPT !.name = x].op = r.op
BY DEF EventRecord

Operations == {"none", "create", "set", "advance", "read", "TERM", "HUP"}

Commanded(r, op, name, value) == [r EXCEPT !.op = op, !.name = name, !.value = value]
ReadAs(r, op, value, n) == [r EXCEPT !.op = op, !.value = value, !.n = n]
Contrary(r, prior, n) == [r EXCEPT !.prior = prior, !.n = n]
Sent(r, op, state) == [r EXCEPT !.op = op, !.state = state]

\* A request of a command.
LEMMA CommandIs ==
  ASSUME NEW r \in EventRecord, NEW op \in Operations, NEW name \in Names, NEW value \in Nat,
         NEW x, x = Commanded(r, op, name, value)
  PROVE  /\ x \in EventRecord /\ x.op = op /\ x.name = name /\ x.type = r.type
         /\ x.branch = r.branch /\ x.parent = r.parent /\ x.cause = r.cause
BY DEF EventRecord, Operations, Commanded

\* A reading.
LEMMA ReadIs ==
  ASSUME NEW r \in EventRecord, NEW op \in Operations, NEW value \in Nat, NEW n \in Nat,
         NEW x, x = ReadAs(r, op, value, n)
  PROVE  /\ x \in EventRecord /\ x.op = op /\ x.value = value /\ x.n = n /\ x.type = r.type
         /\ x.branch = r.branch /\ x.cause = r.cause /\ x.name = r.name
BY DEF EventRecord, Operations, ReadAs

\* A contradiction.
LEMMA ContraryIs ==
  ASSUME NEW r \in EventRecord, NEW prior \in Nat, NEW n \in Nat,
         NEW x, x = Contrary(r, prior, n)
  PROVE  /\ x \in EventRecord /\ x.prior = prior /\ x.n = n /\ x.type = r.type
         /\ x.branch = r.branch /\ x.cause = r.cause /\ x.name = r.name
BY DEF EventRecord, Contrary

\* A signal.
LEMMA SentIs ==
  ASSUME NEW r \in EventRecord, NEW op \in Operations, NEW state \in {"running", "terminated"},
         NEW x, x = Sent(r, op, state)
  PROVE  /\ x \in EventRecord /\ x.op = op /\ x.state = state /\ x.type = r.type
         /\ x.branch = r.branch /\ x.cause = r.cause /\ x.name = r.name
BY DEF EventRecord, Operations, Sent

\* A branch that is there has a last event.
LEMMA LastIs ==
  ASSUME NEW s, s.log \in Seq(EventRecord), LogSound(s), NEW b \in Branch, Exists(s, b)
  PROVE  LastEvent(s, b) \in 1 .. Len(s.log)
<1>1. /\ Event(s) = 1 .. Len(s.log) /\ Len(s.log) \in Nat
      /\ \A e \in Event(s) : e \in Nat /\ s.log[e].at = e
  BY LogIs
<1>2. PICK O : O = Own(s, b)
  OBVIOUS
<1>3. O \subseteq Event(s) /\ O # {}
  BY <1>2, BranchesAre DEF Own
<1>4. PICK k \in O : \A x \in O : x <= k
  BY <1>1, <1>3, GreatestElement
<1>7. ASSUME NEW x \in O \ {k}
      PROVE  Before(s, x, k)
  <2>1. x \in Nat /\ k \in Nat /\ x <= k /\ x # k /\ s.log[x].at = x /\ s.log[k].at = k
    BY <1>1, <1>3, <1>4
  <2> QED
    BY <2>1 DEF Before
<1>8. LastEvent(s, b) \in O
  BY <1>2, <1>4, <1>7 DEF LastEvent
<1> QED
  BY <1>1, <1>3, <1>8

\* Of finitely many readings one has the greatest number.
LEMMA GreatestReading ==
  ASSUME NEW R, IsFiniteSet(R), R # {}, \A x \in R : x.n \in Nat
  PROVE  \E x \in R : \A y \in R : y.n <= x.n
<1>1. PICK c \in Nat : c = Cardinality(R)
  BY FS_CardinalityType
<1> DEFINE Tops(T) == \E x \in T : \A y \in T : y.n <= x.n
           P == {k \in 0 .. c : \A T \in SUBSET R : Cardinality(T) = k /\ T # {} => Tops(T)}
<1>2. ASSUME NEW k \in 0 .. c, \A i \in 0 .. c : i < k => i \in P,
             NEW T \in SUBSET R, Cardinality(T) = k, T # {}
      PROVE  Tops(T)
  <2>1. IsFiniteSet(T)
    BY FS_Subset
  <2>2. PICK x \in T : TRUE
    BY <1>2
  <2>3. PICK U : U = T \ {x}
    OBVIOUS
  <2>4. Cardinality(U) = k - 1 /\ U \in SUBSET R /\ k # 0
    BY <1>2, <2>1, <2>2, <2>3, FS_RemoveElement, FS_EmptySet
  <2>5. CASE U = {}
    <3>1. T = {x} /\ x.n \in Nat
      BY <2>2, <2>3, <2>5
    <3> QED
      BY <3>1
  <2>6. CASE U # {}
    <3>1. k - 1 \in 0 .. c /\ k - 1 < k
      BY <1>1, <2>4
    <3>2. k - 1 \in P
      BY <1>2, <3>1
    <3>3. PICK m \in U : \A y \in U : y.n <= m.n
      BY <2>4, <2>6, <3>2
    <3>4. m \in T /\ \A y \in T : y \in U \/ y = x
      BY <2>3, <3>3
    <3>5. x.n \in Nat /\ m.n \in Nat /\ \A y \in T : y.n \in Nat
      BY <2>2, <3>4
    <3>6. CASE x.n <= m.n
      BY <3>3, <3>4, <3>6
    <3>7. CASE ~ x.n <= m.n
      BY <2>2, <3>3, <3>4, <3>5, <3>7
    <3> QED
      BY <3>6, <3>7
  <2> QED
    BY <2>5, <2>6
<1> HIDE DEF Tops
<1>3. \A k \in 0 .. c : (\A i \in 0 .. c : i < k => i \in P) => k \in P
  BY <1>2
<1> HIDE DEF P
<1>4. c \in P
  BY <1>1, <1>3, StrongInduction
<1>5. Tops(R)
  BY <1>1, <1>4 DEF P
<1> QED
  BY <1>5 DEF Tops

\* The latest reading of a clock.
LEMMA LatestIs ==
  ASSUME NEW world \in SoundWorlds, NEW c, RevisionsOf(world, c) # {}
  PROVE  /\ Latest(world, c) \in RevisionsOf(world, c)
         /\ \A y \in RevisionsOf(world, c) : y.n <= Latest(world, c).n
<1>1. PICK R : R = RevisionsOf(world, c)
  OBVIOUS
<1>2. R \subseteq world.revisions /\ IsFiniteSet(world.revisions) /\ R # {}
  BY <1>1 DEF RevisionsOf, SoundWorlds, Clocked
<1>3. IsFiniteSet(R) /\ \A x \in R : x.n \in Nat
  <2>1. world.revisions \in SUBSET Revision
    BY WorldIs DEF SoundWorlds
  <2> QED
    BY <1>2, <2>1, FS_Subset DEF Revision
<1>4. PICK x \in R : \A y \in R : y.n <= x.n
  BY <1>2, <1>3, GreatestReading
<1> QED
  BY <1>1, <1>4 DEF Latest

-----------------------------------------------------------------------------
(* What a request makes of a world *)

\* What request q may be answered with, one after the other.
Planned(s, q, plan) ==
  /\ plan \in Seq(EventRecord)
  /\ \A k \in DOMAIN plan : /\ Asked(s, q, plan[k])
                            /\ k # 1 => plan[k].type = "clock.contradiction"

\* What is still what the world asks for.
InTime(world, plan) ==
  LET r == plan[1]
  IN  /\ r.type = "signal" => r.state = Terminates(world, r)
      /\ r.type = "clock.created" => world.clocks[r.name] = Absent
      /\ r.type \in Readings => r.n = NextRevision(world, r.name)
      /\ r.type = "clock.set" =>
           \A x \in RevisionsOf(world, r.name) :
             (x.n + 1 = r.n /\ x.value # r.value) =>
               Len(plan) = 2 /\ Contradicts(x, r, plan[2])

LEMMA NothingPlanned == ASSUME NEW s, NEW q PROVE Planned(s, q, <<>>)
BY DEF Planned

LEMMA OnePlanned ==
  ASSUME NEW s, NEW q, NEW x \in EventRecord, Asked(s, q, x)
  PROVE  Planned(s, q, <<x>>) /\ <<x>>[1] = x /\ Len(<<x>>) = 1
BY DEF Planned

LEMMA TwoPlanned ==
  ASSUME NEW s, NEW q, NEW x \in EventRecord, Asked(s, q, x), NEW y \in EventRecord,
         Asked(s, q, y), y.type = "clock.contradiction"
  PROVE  Planned(s, q, <<x, y>>) /\ <<x, y>>[1] = x /\ <<x, y>>[2] = y /\ Len(<<x, y>>) = 2
BY DEF Planned

\* A request, and its world.
Requested(s, q, r, world) ==
  /\ Sound(s) /\ q \in Event(s) /\ r = s.log[q] /\ r.type = "tool.request"
  /\ world = s.world[r.branch]

LEMMA RequestedIs ==
  ASSUME NEW s, NEW q, NEW r, NEW world, Requested(s, q, r, world)
  PROVE  /\ r \in EventRecord /\ NameFits(r) /\ q \in Nat /\ r.branch \in Branch
         /\ world \in SoundWorlds /\ r.value \in Nat
<1>1. Sound(s) /\ q \in Event(s) /\ r = s.log[q] /\ world = s.world[r.branch]
  BY DEF Requested
<1>2. s.log \in Seq(EventRecord) /\ LogSound(s)
  BY <1>1, DatabaseIs
<1>3. r \in EventRecord /\ NameFits(r) /\ q \in Nat /\ r.branch \in Branch
  BY <1>1, <1>2, LogIs
<1> QED
  BY <1>1, <1>3 DEF Sound, EventRecord

\* A mutation of a request.
LEMMA MutationIs ==
  ASSUME NEW s, NEW q, NEW r, NEW world, Requested(s, q, r, world), NEW type \in Mutations
  PROVE  /\ Mutation(type, q, r) \in EventRecord /\ Mutation(type, q, r).type = type
         /\ Mutation(type, q, r).cause = q /\ Mutation(type, q, r).branch = r.branch
         /\ Mutation(type, q, r).name = r.name /\ Mutation(type, q, r).op = "none"
<1>1. r \in EventRecord /\ q \in Nat /\ r.branch \in Branch
  BY RequestedIs
<1>2. r.name \in Names /\ 0 \in Nat /\ type \in Types
  BY <1>1 DEF EventRecord, Types
<1>3. PICK x : x = Record(type, r.branch, 0, q)
  OBVIOUS
<1>4. x \in EventRecord /\ x.type = type /\ x.branch = r.branch /\ x.cause = q /\ x.op = "none"
  BY <1>1, <1>2, <1>3, RecordIs
<1> QED
  BY <1>2, <1>3, <1>4, NamedIs DEF Mutation

\* A look makes a file that was mentioned.
LEMMA FilePlanned ==
  ASSUME NEW s, NEW q, NEW r, NEW world, Requested(s, q, r, world), r.op = "read",
         NEW plan, plan = MaterializeFile(s, world, q, r)
  PROVE  Planned(s, q, plan) /\ (plan # <<>> => InTime(world, plan))
<1>1. PICK type : type = "file.created"
  OBVIOUS
<1>2. PICK x : x = Mutation(type, q, r)
  OBVIOUS
<1>3. /\ x \in EventRecord /\ x.type = type /\ x.cause = q /\ x.branch = r.branch
      /\ x.name = r.name
  BY <1>1, <1>2, MutationIs DEF Mutations
<1>4. CASE plan = <<>>
  BY <1>4, NothingPlanned
<1>5. CASE plan # <<>>
  <2>1. plan = <<x>> /\ Mentioned(s, q, r.name)
    BY <1>1, <1>2, <1>5 DEF MaterializeFile, CreateFile
  <2>2. r.name \in Path
    BY RequestedIs DEF NameFits, Requested
  <2>3. NameFits(x)
    BY <1>1, <1>3, <2>2 DEF NameFits, OfClocks, Readings
  <2>4. Asked(s, q, x)
    BY <1>1, <1>3, <2>1, <2>3 DEF Asked, Requested, Mutations, Applies, Readings
  <2>5. Planned(s, q, plan) /\ plan[1] = x
    BY <1>3, <2>1, <2>4, OnePlanned
  <2> QED
    BY <1>1, <1>3, <2>5 DEF InTime, Readings
<1> QED
  BY <1>4, <1>5

\* A clock that is asked for is made.
LEMMA ClockPlanned ==
  ASSUME NEW s, NEW q, NEW r, NEW world, Requested(s, q, r, world), r.op = "create",
         NEW plan, plan = MaterializeClock(world, q, r)
  PROVE  Planned(s, q, plan) /\ (plan # <<>> => InTime(world, plan))
<1>1. PICK type : type = "clock.created"
  OBVIOUS
<1>2. PICK x : x = Mutation(type, q, r)
  OBVIOUS
<1>3. /\ x \in EventRecord /\ x.type = type /\ x.cause = q /\ x.branch = r.branch
      /\ x.name = r.name
  BY <1>1, <1>2, MutationIs DEF Mutations
<1>4. CASE plan = <<>>
  BY <1>4, NothingPlanned
<1>5. CASE plan # <<>>
  <2>1. plan = <<x>> /\ world.clocks[r.name] = Absent
    BY <1>1, <1>2, <1>5 DEF MaterializeClock, CreateClock
  <2>2. r.name \in Clock
    BY RequestedIs DEF NameFits, Requested
  <2>3. NameFits(x)
    BY <1>1, <1>3, <2>2 DEF NameFits, OfClocks, Readings
  <2>4. Asked(s, q, x)
    BY <1>1, <1>3, <2>1, <2>3 DEF Asked, Requested, Mutations, Applies, Readings
  <2>5. Planned(s, q, plan) /\ plan[1] = x
    BY <1>3, <2>1, <2>4, OnePlanned
  <2> QED
    BY <1>1, <1>3, <2>1, <2>5 DEF InTime, Readings
<1> QED
  BY <1>4, <1>5

\* A process that is there gets a signal.
LEMMA SignalPlanned ==
  ASSUME NEW s, NEW q, NEW r, NEW world, Requested(s, q, r, world), r.op \in {"TERM", "HUP"},
         NEW plan, plan = Signal(world, q, r)
  PROVE  Planned(s, q, plan) /\ (plan # <<>> => InTime(world, plan))
<1>1. PICK type : type = "signal"
  OBVIOUS
<1>2. PICK m : m = Mutation(type, q, r)
  OBVIOUS
<1>3. /\ m \in EventRecord /\ m.type = type /\ m.cause = q /\ m.branch = r.branch
      /\ m.name = r.name
  BY <1>1, <1>2, MutationIs DEF Mutations
<1>4. CASE plan = <<>>
  BY <1>4, NothingPlanned
<1>5. CASE plan # <<>>
  <2>1. world.procs[r.name] # Absent
    BY <1>5 DEF Signal
  <2>2. PICK state : state = IF r.op = "TERM" THEN "terminated" ELSE world.procs[r.name].state
    OBVIOUS
  <2>3. PICK x : x = [m EXCEPT !.op = r.op, !.state = state]
    OBVIOUS
  <2>4. plan = <<x>>
    BY <1>1, <1>2, <2>1, <2>2, <2>3 DEF Signal
  <2>5. r.name \in Pid
    BY RequestedIs DEF NameFits, Requested
  <2>6. state \in {"running", "terminated"}
    <3>1. world.procs \in [Pid -> ProcRows]
      BY RequestedIs, WorldIs DEF SoundWorlds
    <3>2. world.procs[r.name].state \in {"running", "terminated"}
      BY <2>1, <2>5, <3>1 DEF ProcRows
    <3> QED
      BY <2>2, <3>2
  <2>7. r.op \in Operations
    BY DEF Operations
  <2>8. /\ x \in EventRecord /\ x.op = r.op /\ x.state = state /\ x.type = type
        /\ x.branch = r.branch /\ x.cause = q /\ x.name = r.name
    <3>1. PICK op \in Operations : op = r.op
      BY <2>7
    <3>2. x = Sent(m, op, state)
      BY <2>3, <3>1 DEF Sent
    <3>3. /\ x \in EventRecord /\ x.op = op /\ x.state = state /\ x.type = m.type
          /\ x.branch = m.branch /\ x.cause = m.cause /\ x.name = m.name
      BY <1>3, <2>6, <3>2, SentIs
    <3> QED
      BY <1>3, <3>1, <3>3
  <2>9. NameFits(x)
    BY <1>1, <2>5, <2>6, <2>8 DEF NameFits, OfClocks, Readings
  <2>10. Asked(s, q, x)
    BY <1>1, <2>1, <2>8, <2>9 DEF Asked, Requested, Mutations, Applies, Readings
  <2>11. Planned(s, q, plan) /\ plan[1] = x
    BY <2>4, <2>8, <2>10, OnePlanned
  <2>12. x.state = Terminates(world, x)
    BY <2>2, <2>8 DEF Terminates
  <2> QED
    BY <1>1, <2>8, <2>11, <2>12 DEF InTime, Readings
<1> QED
  BY <1>4, <1>5

LEMMA NumbersAre ==
  ASSUME NEW world \in SoundWorlds, NEW c
  PROVE  /\ NextRevision(world, c) \in Nat
         /\ IsFiniteSet(RevisionsOf(world, c))
         /\ Cardinality(RevisionsOf(world, c)) \in Nat
         /\ \A x \in RevisionsOf(world, c) : /\ x \in Revision /\ x.n \in Nat /\ x.value \in Nat
                                             /\ x.clock = c /\ world.clocks[c] # Absent
<1>1. PICK R : R = RevisionsOf(world, c)
  OBVIOUS
<1>2. /\ R \subseteq world.revisions /\ IsFiniteSet(world.revisions)
      /\ \A x \in R : x.clock = c /\ world.clocks[x.clock] # Absent
  BY <1>1 DEF RevisionsOf, SoundWorlds, Clocked
<1>3. IsFiniteSet(R)
  BY <1>2, FS_Subset
<1>4. Cardinality(R) \in Nat
  BY <1>3, FS_CardinalityType
<1>5. world.revisions \in SUBSET Revision
  BY WorldIs DEF SoundWorlds
<1>6. \A x \in R : x \in Revision /\ x.n \in Nat /\ x.value \in Nat
  BY <1>2, <1>5 DEF Revision
<1> QED
  BY <1>1, <1>2, <1>3, <1>4, <1>6 DEF NextRevision

\* The reading that a request makes.
LEMMA ReadingMade ==
  ASSUME NEW s, NEW q, NEW r, NEW world, Requested(s, q, r, world), r.name \in Clock,
         world.clocks[r.name] # Absent, NEW type, NEW op, NEW value \in Nat,
         \/ type = "clock.set" /\ op = "set" /\ r.op = "set"
         \/ type = "clock.advanced" /\ op = "advance" /\ r.op = "advance",
         NEW x, x = Reading(type, op, value, world, q, r)
  PROVE  /\ x \in EventRecord /\ Asked(s, q, x) /\ x.type = type /\ x.value = value
         /\ x.n = NextRevision(world, r.name) /\ x.name = r.name
<1>1. type \in Mutations /\ op \in Operations
  BY DEF Mutations, Operations
<1>2. PICK m : m = Mutation(type, q, r)
  OBVIOUS
<1>3. /\ m \in EventRecord /\ m.type = type /\ m.cause = q /\ m.branch = r.branch
      /\ m.name = r.name
  BY <1>1, <1>2, MutationIs
<1>4. PICK n \in Nat : n = NextRevision(world, r.name)
  BY RequestedIs, NumbersAre
<1>5. x = ReadAs(m, op, value, n)
  BY <1>2, <1>4 DEF Reading, ReadAs
<1>6. /\ x \in EventRecord /\ x.op = op /\ x.value = value /\ x.n = n /\ x.type = type
      /\ x.branch = r.branch /\ x.cause = q /\ x.name = r.name
  <2>1. /\ x \in EventRecord /\ x.op = op /\ x.value = value /\ x.n = n /\ x.type = m.type
        /\ x.branch = m.branch /\ x.cause = m.cause /\ x.name = m.name
    BY <1>1, <1>3, <1>5, ReadIs
  <2> QED
    BY <1>3, <2>1
<1>7. NameFits(x)
  BY <1>6 DEF NameFits, OfClocks, Readings
<1>8. Asked(s, q, x)
  BY <1>6, <1>7 DEF Asked, Requested, Mutations, Applies, Readings
<1> QED
  BY <1>4, <1>6, <1>8

\* Of numbered readings the one before the next is the latest.
LEMMA LatestIsBefore ==
  ASSUME NEW world \in SoundWorlds, Numbered(world), NEW c \in Clock,
         NEW x \in RevisionsOf(world, c), x.n + 1 = NextRevision(world, c)
  PROVE  x = Latest(world, c)
<1>1. PICK R, y : R = RevisionsOf(world, c) /\ y = Latest(world, c)
  OBVIOUS
<1>2. y \in R /\ x \in R /\ x.n <= y.n
  BY <1>1, LatestIs
<1>3. PICK k \in Nat : k = Cardinality(R)
  BY <1>1, NumbersAre
<1>4. x.n \in Nat /\ y.n \in Nat /\ x.n = k
  BY <1>1, <1>2, <1>3, NumbersAre DEF NextRevision
<1>5. {z.n : z \in R} = 1 .. k /\ \A u, v \in R : u.n = v.n => u = v
  BY <1>1, <1>3 DEF Numbered
<1>6. y.n \in 1 .. k
  BY <1>2, <1>5
<1> QED
  BY <1>1, <1>2, <1>4, <1>5, <1>6

\* A clock is set, and what differs is contradicted.
LEMMA SetPlanned ==
  ASSUME NEW s, NEW q, NEW r, NEW world, Requested(s, q, r, world), r.op = "set",
         NEW plan, plan = SetClock(world, q, r)
  PROVE  Planned(s, q, plan) /\ (Numbered(world) /\ plan # <<>> => InTime(world, plan))
<1>1. CASE world.clocks[r.name] = Absent
  <2>1. plan = <<>>
    BY <1>1 DEF SetClock
  <2> QED
    BY <2>1, NothingPlanned
<1>2. CASE world.clocks[r.name] # Absent
  <2>1. PICK type, op : type = "clock.set" /\ op = "set"
    OBVIOUS
  <2>2. PICK x : x = Reading(type, op, r.value, world, q, r)
    OBVIOUS
  <2>3. PICK c \in Clock : c = r.name
    BY RequestedIs DEF NameFits, Requested
  <2>4. world \in SoundWorlds /\ r.value \in Nat
    BY RequestedIs
  <2>5. /\ x \in EventRecord /\ Asked(s, q, x) /\ x.type = "clock.set" /\ x.value = r.value
        /\ x.n = NextRevision(world, c) /\ x.name = c
    BY <1>2, <2>1, <2>2, <2>3, <2>4, ReadingMade
  <2>6. PICK l : l = Latest(world, c)
    OBVIOUS
  <2>7. CASE ~ (RevisionsOf(world, c) # {} /\ l.value # r.value)
    <3>1. plan = <<x>>
      BY <1>2, <2>1, <2>2, <2>3, <2>6, <2>7 DEF SetClock
    <3>2. Planned(s, q, plan) /\ plan[1] = x
      BY <2>5, <3>1, OnePlanned
    <3>3. ASSUME Numbered(world), NEW y \in RevisionsOf(world, c), y.n + 1 = x.n
          PROVE  y.value = x.value
      BY <2>4, <2>5, <2>6, <2>7, <3>3, LatestIsBefore
    <3>4. Numbered(world) => InTime(world, plan)
      BY <2>5, <3>2, <3>3 DEF InTime, Readings
    <3> QED
      BY <3>2, <3>4
  <2>8. CASE RevisionsOf(world, c) # {} /\ l.value # r.value
    <3>1. PICK m, other : other = "clock.contradiction" /\ m = Mutation(other, q, r)
      OBVIOUS
    <3>2. /\ m \in EventRecord /\ m.type = other /\ m.cause = q /\ m.branch = r.branch
          /\ m.name = c
      BY <2>3, <3>1, MutationIs DEF Mutations
    <3>3. l \in RevisionsOf(world, c) /\ l.n \in Nat
      BY <2>4, <2>6, <2>8, LatestIs, NumbersAre
    <3>4. x.n \in Nat
      BY <2>4, <2>5, NumbersAre
    <3>5. PICK y : y = [m EXCEPT !.prior = l.n, !.n = x.n]
      OBVIOUS
    <3>6. /\ y \in EventRecord /\ y.prior = l.n /\ y.n = x.n /\ y.type = other
          /\ y.branch = r.branch /\ y.cause = q /\ y.name = c
      <4>1. PICK p \in Nat, n \in Nat : p = l.n /\ n = x.n
        BY <3>3, <3>4
      <4>2. y = Contrary(m, p, n)
        BY <3>5, <4>1 DEF Contrary
      <4>3. /\ y \in EventRecord /\ y.prior = p /\ y.n = n /\ y.type = m.type
            /\ y.branch = m.branch /\ y.cause = m.cause /\ y.name = m.name
        BY <3>2, <4>2, ContraryIs
      <4> QED
        BY <3>2, <4>1, <4>3
    <3>7. plan = <<x, y>>
      BY <1>2, <2>1, <2>2, <2>3, <2>6, <2>8, <3>1, <3>5 DEF SetClock
    <3>8. NameFits(y)
      BY <3>1, <3>6 DEF NameFits, OfClocks, Readings
    <3>9. Asked(s, q, y)
      BY <1>2, <2>3, <3>1, <3>6, <3>8 DEF Asked, Requested, Mutations, Applies, Readings
    <3>10. Planned(s, q, plan) /\ plan[1] = x /\ plan[2] = y /\ Len(plan) = 2
      BY <2>5, <3>1, <3>6, <3>7, <3>9, TwoPlanned
    <3>11. ASSUME Numbered(world), NEW z \in RevisionsOf(world, c), z.n + 1 = x.n
           PROVE  Contradicts(z, x, y)
      <4>1. z = l
        BY <2>4, <2>5, <2>6, <3>11, LatestIsBefore
      <4> QED
        BY <2>5, <3>1, <3>6, <4>1 DEF Contradicts
    <3>12. Numbered(world) => InTime(world, plan)
      BY <2>5, <3>10, <3>11 DEF InTime, Readings
    <3> QED
      BY <3>10, <3>12
  <2> QED
    BY <2>7, <2>8
<1> QED
  BY <1>1, <1>2

\* A clock that was set is advanced.
LEMMA AdvancePlanned ==
  ASSUME NEW s, NEW q, NEW r, NEW world, Requested(s, q, r, world), r.op = "advance",
         NEW plan, plan = AdvanceClock(world, q, r)
  PROVE  Planned(s, q, plan) /\ (plan # <<>> => InTime(world, plan))
<1>1. CASE RevisionsOf(world, r.name) = {}
  <2>1. plan = <<>>
    BY <1>1 DEF AdvanceClock
  <2> QED
    BY <2>1, NothingPlanned
<1>2. CASE RevisionsOf(world, r.name) # {}
  <2>1. PICK type, op : type = "clock.advanced" /\ op = "advance"
    OBVIOUS
  <2>2. PICK c \in Clock : c = r.name
    BY RequestedIs DEF NameFits, Requested
  <2>3. world \in SoundWorlds /\ r.value \in Nat
    BY RequestedIs
  <2>4. PICK l : l = Latest(world, c)
    OBVIOUS
  <2>5. l \in RevisionsOf(world, c) /\ l.value \in Nat /\ world.clocks[c] # Absent
    BY <1>2, <2>2, <2>3, <2>4, LatestIs, NumbersAre
  <2>6. PICK value \in Nat : value = l.value + r.value
    BY <2>3, <2>5
  <2>7. PICK x : x = Reading(type, op, value, world, q, r)
    OBVIOUS
  <2>8. /\ x \in EventRecord /\ Asked(s, q, x) /\ x.type = "clock.advanced"
        /\ x.n = NextRevision(world, c) /\ x.name = c
    BY <2>1, <2>2, <2>5, <2>7, ReadingMade
  <2>9. plan = <<x>>
    BY <1>2, <2>1, <2>2, <2>4, <2>6, <2>7 DEF AdvanceClock
  <2>10. Planned(s, q, plan) /\ plan[1] = x
    BY <2>8, <2>9, OnePlanned
  <2> QED
    BY <2>8, <2>10 DEF InTime, Readings
<1> QED
  BY <1>1, <1>2

\* What a request makes of its world can be appended.
LEMMA PlanIs ==
  ASSUME NEW s, NEW q, NEW r, NEW world, Requested(s, q, r, world),
         NEW plan, plan = Plan(s, world, q)
  PROVE  Planned(s, q, plan) /\ (Numbered(world) /\ plan # <<>> => InTime(world, plan))
<1>1. r = s.log[q] /\ r.op # "none" /\ r.op \in Operations
  <2>1. r = s.log[q] /\ r.type = "tool.request"
    BY DEF Requested
  <2>2. r \in EventRecord /\ NameFits(r)
    BY RequestedIs
  <2> QED
    BY <2>1, <2>2 DEF NameFits, EventRecord, Operations
<1>2. CASE r.op = "read"
  <2>1. plan = MaterializeFile(s, world, q, r)
    BY <1>1, <1>2 DEF Plan
  <2> QED
    BY <1>2, <2>1, FilePlanned
<1>3. CASE r.op = "create"
  <2>1. plan = MaterializeClock(world, q, r)
    BY <1>1, <1>3 DEF Plan
  <2> QED
    BY <1>3, <2>1, ClockPlanned
<1>4. CASE r.op = "set"
  <2>1. plan = SetClock(world, q, r)
    BY <1>1, <1>4 DEF Plan
  <2> QED
    BY <1>4, <2>1, SetPlanned
<1>5. CASE r.op = "advance"
  <2>1. plan = AdvanceClock(world, q, r)
    BY <1>1, <1>5 DEF Plan
  <2> QED
    BY <1>5, <2>1, AdvancePlanned
<1>6. CASE r.op \in {"TERM", "HUP"}
  <2>1. plan = Signal(world, q, r)
    BY <1>1, <1>6 DEF Plan
  <2> QED
    BY <1>6, <2>1, SignalPlanned
<1> QED
  BY <1>1, <1>2, <1>3, <1>4, <1>5, <1>6 DEF Operations

-----------------------------------------------------------------------------
(* What holds whatever expires *)

\* What an executor does fits the database.
FitsIn(s, h) ==
  /\ h \in HandState
  /\ h.step # "idle" => h.request \in Event(s) /\ s.log[h.request].type = "tool.request"
  /\ h.step \in {"hydrate", "mutate", "finish"} => h.started \in Event(s)
  /\ h.step = "mutate" => h.todo # <<>> /\ Planned(s, h.request, h.todo)

Counted ==
  /\ appends \in 0 .. MaxAppends /\ {faults, overdue} \subseteq Nat
  /\ faults + overdue <= MaxTrouble

Base ==
  /\ Sound(db) /\ Counted
  /\ leases \subseteq Executor \X Event(db) /\ LeasesApart /\ done \subseteq Event(db)
  /\ hand \in [Executor -> HandState]
  /\ \A w \in Executor : FitsIn(db, hand[w])

LEMMA HandFitsIs ==
  ASSUME hand \in [Executor -> HandState], NEW w \in Executor
  PROVE  HandFits(w) <=> FitsIn(db, hand[w])
<1>1. PICK h : h = hand[w]
  OBVIOUS
<1>2. h \in HandState /\ h.todo \in Seq(EventRecord)
  BY <1>1 DEF HandState
<1>3. Planned(db, h.request, h.todo) <=>
        \A k \in DOMAIN h.todo : /\ Asked(db, h.request, h.todo[k])
                                 /\ k # 1 => h.todo[k].type = "clock.contradiction"
  BY <1>2 DEF Planned
<1> QED
  BY <1>1, <1>2, <1>3 DEF HandFits, FitsIn, Working, At, Mine, Todo, OfType

\* The parts of the invariant that the others rest on.
LEMMA BaseIs ==
  Base <=> WorldTypeOK /\ WorldsSound /\ NothingInvented /\ WorldIsVisible
<1>1. Counted <=> /\ appends \in 0 .. MaxAppends /\ {faults, overdue} \subseteq Nat
                  /\ faults + overdue <= MaxTrouble
  BY DEF Counted
<1>2. hand \in [Executor -> HandState] =>
        ((\A w \in Executor : HandFits(w)) <=> \A w \in Executor : FitsIn(db, hand[w]))
  BY HandFitsIs
<1> QED
  BY <1>1, <1>2, SoundIs, Zenon DEF Base, WorldTypeOK, WorldsSound, Databases

\* It stays so when an event is appended.
LEMMA FitsInStays ==
  ASSUME NEW s, Sound(s), NEW r \in EventRecord, r.at = Len(s.log) + 1, NEW t,
         t = Appended(s, r), Suits(s, r), Grounds(s, r), NEW h, FitsIn(s, h)
  PROVE  FitsIn(t, h)
<1>1. /\ s.log \in Seq(EventRecord) /\ Grown(s, t, r)
  BY DatabaseIs, AppendedIs
<1>2. Event(s) \subseteq Event(t) /\ \A e \in Event(s) : t.log[e] = s.log[e]
  BY <1>1, GrownIs DEF Begins
<1>3. ASSUME h.step = "mutate"
      PROVE  Planned(t, h.request, h.todo)
  <2>1. h.request \in Event(s) /\ Planned(s, h.request, h.todo)
    BY <1>3 DEF FitsIn
  <2>2. ASSUME NEW k \in DOMAIN h.todo
        PROVE  Asked(t, h.request, h.todo[k])
    <3>1. Asked(s, h.request, h.todo[k])
      BY <2>1 DEF Planned
    <3> QED
      BY <2>1, <3>1, AskedStays
  <2> QED
    BY <2>1, <2>2 DEF Planned
<1> QED
  BY <1>2, <1>3 DEF FitsIn

LEMMA AppendKeepsBase ==
  ASSUME Base, NEW r \in EventRecord, r.at = Len(db.log) + 1, db' = Appended(db, r),
         Suits(db, r), Grounds(db, r), leases' = leases, done' = done,
         hand' \in [Executor -> HandState],
         \A w \in Executor : hand'[w] = hand[w] \/ FitsIn(db', hand'[w]),
         appends' \in 0 .. MaxAppends, faults' = faults, overdue' = overdue
  PROVE  Base'
<1>1. PICK s, t : s = db /\ t = db'
  OBVIOUS
<1>2. Sound(s) /\ s.log \in Seq(EventRecord) /\ Grown(s, t, r)
  <2>1. Sound(s)
    BY <1>1 DEF Base
  <2> QED
    BY <1>1, <2>1, DatabaseIs, AppendedIs
<1>3. Event(s) \subseteq Event(t) /\ \A e \in Event(s) : t.log[e] = s.log[e]
  BY <1>2, GrownIs DEF Begins
<1>4. Sound(t)
  BY <1>1, <1>2, AppendIsSound
<1>5. \A w \in Executor : FitsIn(t, hand'[w])
  <2>1. ASSUME NEW w \in Executor
        PROVE  FitsIn(t, hand[w])
    <3>1. FitsIn(s, hand[w])
      BY <1>1 DEF Base
    <3> QED
      BY <1>1, <1>2, <3>1, FitsInStays
  <2> QED
    BY <1>1, <2>1
<1>6. LeasesApart'
  <2>1. \A lease \in leases : lease[2] \in Event(s)
    BY <1>1 DEF Base
  <2>2. \A lease \in leases : t.log[lease[2]] = s.log[lease[2]] /\ lease[2] \in Event(t)
    BY <1>3, <2>1
  <2>3. LeasesApart
    BY DEF Base
  <2> QED
    BY <1>1, <2>2, <2>3 DEF LeasesApart, OfType
<1>7. Counted'
  BY DEF Base, Counted
<1>8. leases' \subseteq Executor \X Event(t) /\ done' \subseteq Event(t)
  BY <1>1, <1>3 DEF Base
<1> QED
  BY <1>1, <1>4, <1>5, <1>6, <1>7, <1>8 DEF Base

\* And when nothing is.
LEMMA QuietKeepsBase ==
  ASSUME Base, db' = db, leases' \subseteq Executor \X Event(db), LeasesApart',
         done' \subseteq Event(db), hand' \in [Executor -> HandState],
         \A w \in Executor : hand'[w] = hand[w] \/ FitsIn(db, hand'[w]),
         appends' = appends, Counted'
  PROVE  Base'
<1>1. \A w \in Executor : FitsIn(db, hand[w])
  BY DEF Base
<1>2. \A w \in Executor : FitsIn(db, hand'[w])
  BY <1>1
<1>3. Sound(db)
  BY DEF Base
<1>4. Sound(db') /\ \A w \in Executor : FitsIn(db', hand'[w])
  BY <1>2, <1>3
<1> QED
  BY <1>4 DEF Base

\* An event is what it is wherever it is placed.
Alike(x, y) ==
  /\ y \in EventRecord /\ y.type = x.type /\ y.branch = x.branch /\ y.cause = x.cause
  /\ y.op = x.op /\ y.name = x.name /\ y.n = x.n /\ y.value = x.value
  /\ y.prior = x.prior /\ y.state = x.state

LEMMA AlikeIs ==
  ASSUME NEW s, NEW q, NEW x \in EventRecord, NEW y, Alike(x, y)
  PROVE  /\ NameFits(x) => NameFits(y)
         /\ Asked(s, q, x) => Asked(s, q, y)
         /\ Suits(s, x) /\ y.parent = x.parent => Suits(s, y)
         /\ Grounds(s, x) /\ y.parent = x.parent => Grounds(s, y)
<1>1. NameFits(x) => NameFits(y)
  BY DEF NameFits, Alike
<1>2. \A world : Applies(world, x) => Applies(world, y)
  BY DEF Applies, Alike
<1>3. \A k : Asked(s, k, x) => Asked(s, k, y)
  BY <1>1, <1>2 DEF Asked, Alike
<1>4. Suits(s, x) /\ y.parent = x.parent => Suits(s, y)
  BY <1>1 DEF Suits, Alike
<1>5. Grounds(s, x) /\ y.parent = x.parent => Grounds(s, y)
  BY <1>2, <1>3 DEF Grounds, Alike
<1> QED
  BY <1>1, <1>3, <1>4, <1>5

\* What is appended is placed behind the log.
LEMMA AppendsIs ==
  ASSUME Base, NEW x \in EventRecord, Suits(db, x), Grounds(db, x), Appends(x)
  PROVE  \E r \in EventRecord : /\ Alike(x, r) /\ r.parent = x.parent /\ r.at = Len(db.log) + 1
                                /\ db' = Appended(db, r) /\ Suits(db, r) /\ Grounds(db, r)
<1>1. PICK n : n = Len(db.log) + 1
  OBVIOUS
<1>2. n \in Nat
  BY <1>1, DatabaseIs DEF Base
<1>3. PICK r : r = [x EXCEPT !.at = n]
  OBVIOUS
<1>4. r \in EventRecord /\ r.at = n /\ r.parent = x.parent /\ Alike(x, r)
  BY <1>2, <1>3, PlacedIs DEF Alike
<1>5. Suits(db, r) /\ Grounds(db, r)
  BY <1>4, AlikeIs
<1>6. db' = Appended(db, r)
  BY <1>1, <1>3 DEF Appends
<1> QED
  BY <1>1, <1>4, <1>5, <1>6

LEMMA HappensKeepsBase ==
  ASSUME Base, NEW x \in EventRecord, Suits(db, x), Grounds(db, x), Happens(x)
  PROVE  Base'
<1>1. PICK r \in EventRecord : /\ r.at = Len(db.log) + 1
                               /\ db' = Appended(db, r) /\ Suits(db, r) /\ Grounds(db, r)
  BY AppendsIs DEF Happens
<1>2. appends' \in 0 .. MaxAppends
  BY WorldAssumption DEF Happens, Base, Counted
<1>3. /\ leases' = leases /\ done' = done /\ hand' = hand
      /\ faults' = faults /\ overdue' = overdue
  BY DEF Happens
<1>4. hand' \in [Executor -> HandState]
  BY <1>3 DEF Base
<1> QED
  BY <1>1, <1>2, <1>3, <1>4, AppendKeepsBase

\* An event that changes no world.
LEMMA QuietFits ==
  ASSUME NEW s, NEW x \in EventRecord,
         x.type \in {"mention", "tool.request", "tool.started", "tool.result"},
         x.parent \in 0 .. Len(s.log), x.cause \in 0 .. Len(s.log), Exists(s, x.branch),
         NameFits(x)
  PROVE  Suits(s, x) /\ Grounds(s, x)
BY DEF Suits, Grounds, Applies, Readings

\* The branch an event is on can be appended to.
LEMMA BranchIs ==
  ASSUME Base, NEW b \in Branch, Exists(db, b)
  PROVE  LastEvent(db, b) \in 1 .. Len(db.log) /\ LastEvent(db, b) \in Nat /\ Len(db.log) \in Nat
<1>1. db.log \in Seq(EventRecord) /\ LogSound(db)
  BY DatabaseIs DEF Base
<1> QED
  BY <1>1, LastIs

\* A mention, as it is appended, and a request.
LEMMA MentionIs ==
  ASSUME Base, NEW b \in Branches, NEW p \in Path, Mention(b, p)
  PROVE  \E x \in EventRecord : /\ Suits(db, x) /\ Grounds(db, x) /\ Happens(x)
                                /\ x.type = "mention"
<1>1. PICK type : type = "mention"
  OBVIOUS
<1>2. PICK l : l = LastEvent(db, b)
  OBVIOUS
<1>3. b \in Branch /\ Exists(db, b) /\ l \in 1 .. Len(db.log) /\ l \in Nat /\ Len(db.log) \in Nat
  BY <1>2, BranchIs DEF Branches
<1>4. PICK m : m = Record(type, b, l, 0)
  OBVIOUS
<1>5. m \in EventRecord /\ m.type = type /\ m.branch = b /\ m.parent = l /\ m.cause = 0
  <2>1. type \in Types /\ 0 \in Nat
    BY <1>1 DEF Types
  <2> QED
    BY <1>3, <1>4, <2>1, RecordIs
<1>6. PICK x : x = [m EXCEPT !.name = p]
  OBVIOUS
<1>7. /\ x \in EventRecord /\ x.type = type /\ x.branch = b /\ x.parent = l /\ x.cause = 0
  BY <1>5, <1>6, NamedIs DEF Names
<1>8. NameFits(x)
  BY <1>1, <1>7 DEF NameFits, OfClocks, Readings
<1>9. Suits(db, x) /\ Grounds(db, x)
  BY <1>1, <1>3, <1>7, <1>8, QuietFits
<1>10. Happens(x)
  BY <1>1, <1>2, <1>4, <1>6 DEF Mention
<1> QED
  BY <1>1, <1>7, <1>9, <1>10

LEMMA RequestToolIs ==
  ASSUME Base, NEW b \in Branches, NEW command \in Commands, RequestTool(b, command)
  PROVE  \E x \in EventRecord : /\ Suits(db, x) /\ Grounds(db, x) /\ Happens(x)
                                /\ x.type = "tool.request"
<1>1. PICK type : type = "tool.request"
  OBVIOUS
<1>2. PICK l : l = LastEvent(db, b)
  OBVIOUS
<1>3. b \in Branch /\ Exists(db, b) /\ l \in 1 .. Len(db.log) /\ l \in Nat /\ Len(db.log) \in Nat
  BY <1>2, BranchIs DEF Branches
<1>4. PICK m : m = Record(type, b, l, 0)
  OBVIOUS
<1>5. m \in EventRecord /\ m.type = type /\ m.branch = b /\ m.parent = l /\ m.cause = 0
  <2>1. type \in Types /\ 0 \in Nat
    BY <1>1 DEF Types
  <2> QED
    BY <1>3, <1>4, <2>1, RecordIs
<1>6. PICK op, name, value : op = command.op /\ name = command.name /\ value = command.value
  OBVIOUS
<1>7. PICK x : x = Commanded(m, op, name, value)
  OBVIOUS
<1>8. /\ op \in Operations /\ op # "none" /\ name \in Names /\ value \in Nat
      /\ op = "read" => name \in Path
      /\ op \in {"create", "set", "advance"} => name \in Clock
      /\ op \in {"TERM", "HUP"} => name \in Pid
  BY <1>6, WorldAssumption DEF Commands, Operations, Names
<1>9. /\ x \in EventRecord /\ x.op = op /\ x.name = name /\ x.type = type
      /\ x.branch = b /\ x.parent = l /\ x.cause = 0
  BY <1>5, <1>7, <1>8, CommandIs
<1>10. NameFits(x)
  BY <1>1, <1>8, <1>9 DEF NameFits, OfClocks, Readings
<1>11. Suits(db, x) /\ Grounds(db, x)
  BY <1>1, <1>3, <1>9, <1>10, QuietFits
<1>12. Happens(x)
  BY <1>1, <1>2, <1>4, <1>6, <1>7 DEF RequestTool, Commanded
<1> QED
  BY <1>1, <1>9, <1>11, <1>12

LEMMA ForkIs ==
  ASSUME Base, NEW e \in Event(db), NEW b \in Branch, Fork(e, b)
  PROVE  \E x \in EventRecord : /\ Suits(db, x) /\ Grounds(db, x) /\ Happens(x)
                                /\ x.type = "session.forked"
<1>1. PICK type : type = "session.forked"
  OBVIOUS
<1>2. db.log \in Seq(EventRecord) /\ LogSound(db)
  BY DatabaseIs DEF Base
<1>3. e \in Nat /\ e \in 1 .. Len(db.log) /\ Len(db.log) \in Nat
  BY <1>2, LogIs
<1>4. PICK x : x = Record(type, b, e, e)
  OBVIOUS
<1>5. x \in EventRecord /\ x.type = type /\ x.branch = b /\ x.parent = e /\ x.cause = e
  <2>1. type \in Types
    BY <1>1 DEF Types
  <2> QED
    BY <1>3, <1>4, <2>1, RecordIs
<1>6. NameFits(x)
  BY <1>1, <1>5 DEF NameFits, OfClocks, Readings
<1>7. ~ Exists(db, b) /\ ForkedWorld(db, e) # Failed /\ Happens(x)
  BY <1>1, <1>4 DEF Fork
<1>8. Suits(db, x)
  BY <1>1, <1>3, <1>5, <1>6, <1>7 DEF Suits
<1>9. Grounds(db, x)
  BY <1>1, <1>5, <1>7 DEF Grounds
<1> QED
  BY <1>1, <1>5, <1>7, <1>8, <1>9

\* Event r is appended to s, which is t then.
Gains(s, t, r) ==
  /\ r \in EventRecord /\ r.at = Len(s.log) + 1 /\ t = Appended(s, r)
  /\ Suits(s, r) /\ Grounds(s, r)

LEMMA GoesIs ==
  ASSUME hand \in [Executor -> HandState], NEW w \in Executor, NEW h \in HandState, Goes(w, h)
  PROVE  /\ hand' \in [Executor -> HandState] /\ hand'[w] = h
         /\ \A v \in Executor \ {w} : hand'[v] = hand[v]
BY DEF Goes

LEMMA IdleIs == IdleHand \in HandState /\ IdleHand.step = "idle"
BY DEF IdleHand, HandState

\* The request of an executor that is at work.
LEMMA MineIs ==
  ASSUME Base, NEW w \in Executor, ~ At(w, "idle")
  PROVE  /\ Mine(w) \in Event(db) /\ db.log[Mine(w)].type = "tool.request"
         /\ Mine(w) \in Nat /\ Mine(w) \in 0 .. Len(db.log)
         /\ db.log[Mine(w)].branch \in Branch /\ Exists(db, db.log[Mine(w)].branch)
         /\ hand[w] \in HandState /\ FitsIn(db, hand[w])
<1>1. PICK q : q = Mine(w)
  OBVIOUS
<1>2. FitsIn(db, hand[w]) /\ hand[w] \in HandState
  BY DEF Base
<1>3. q \in Event(db) /\ db.log[q].type = "tool.request"
  BY <1>1, <1>2 DEF FitsIn, At, Mine
<1>4. db.log \in Seq(EventRecord) /\ LogSound(db)
  BY DatabaseIs DEF Base
<1>5. q \in Nat /\ q \in 0 .. Len(db.log) /\ db.log[q].branch \in Branch
  BY <1>3, <1>4, LogIs
<1>6. Exists(db, db.log[q].branch)
  BY <1>3, <1>4, <1>5, EventIsOf
<1> QED
  BY <1>1, <1>2, <1>3, <1>5, <1>6

LEMMA TakeJobIs ==
  ASSUME Base, NEW w \in Executor, NEW q \in OfType("tool.request"), TakeJob(w, q)
  PROVE  /\ Base' /\ hand'[w].step = "look" /\ hand'[w].request = q
         /\ \A v \in Executor \ {w} : hand'[v] = hand[v]
<1>1. PICK h : h = [IdleHand EXCEPT !.step = "look", !.request = q]
  OBVIOUS
<1>2. q \in Event(db) /\ db.log[q].type = "tool.request"
  BY DEF OfType
<1>3. q \in Nat
  <2>1. db.log \in Seq(EventRecord) /\ LogSound(db)
    BY DatabaseIs DEF Base
  <2> QED
    BY <1>2, <2>1, LogIs
<1>4. h \in HandState /\ h.step = "look" /\ h.request = q
  BY <1>1, <1>3, IdleIs DEF HandState
<1>5. Goes(w, h)
  BY <1>1, Zenon DEF TakeJob
<1>6. /\ hand' \in [Executor -> HandState] /\ hand'[w] = h
      /\ \A v \in Executor \ {w} : hand'[v] = hand[v]
  BY <1>4, <1>5, GoesIs DEF Base
<1>7. FitsIn(db, h)
  BY <1>2, <1>4 DEF FitsIn
<1>8. leases' \subseteq Executor \X Event(db)
  BY <1>2 DEF TakeJob, Base
<1>9. LeasesApart'
  <2>1. LeasesApart /\ leases' = leases \cup {<<w, q>>} /\ db' = db
    BY DEF TakeJob, Base
  <2>2. \A lease \in leases : lease[1] # w /\ db.log[lease[2]].branch # db.log[q].branch
    BY DEF TakeJob
  <2> QED
    BY <2>1, <2>2 DEF LeasesApart, OfType
<1>10. /\ db' = db /\ done' = done /\ appends' = appends /\ faults' = faults
       /\ overdue' = overdue
  BY DEF TakeJob
<1>11. Counted' /\ done' \subseteq Event(db)
  BY <1>10 DEF Base, Counted
<1> QED
  BY <1>4, <1>6, <1>7, <1>8, <1>9, <1>10, <1>11, QuietKeepsBase

LEMMA ExpireIs ==
  ASSUME Base, NEW w \in Executor, NEW q \in OfType("tool.request"), Expire(w, q)
  PROVE  Base'
<1>1. /\ leases' = leases \ {<<w, q>>} /\ db' = db /\ done' = done /\ hand' = hand
      /\ appends' = appends /\ faults' = faults
  BY DEF Expire
<1>2. Counted'
  BY <1>1, WorldAssumption DEF Expire, Base, Counted
<1>3. LeasesApart'
  BY <1>1 DEF Base, LeasesApart, OfType
<1>4. leases' \subseteq Executor \X Event(db) /\ done' \subseteq Event(db)
      /\ hand' \in [Executor -> HandState]
  BY <1>1 DEF Base
<1> QED
  BY <1>1, <1>2, <1>3, <1>4, QuietKeepsBase

\* The steps of an executor that append nothing.
LEMMA StillIs ==
  ASSUME Base, NEW w \in Executor, NEW h, FitsIn(db, h), Goes(w, h), db' = db,
         leases' \subseteq leases, done' \subseteq Event(db), appends' = appends, Counted'
  PROVE  /\ Base' /\ hand'[w] = h
         /\ \A v \in Executor \ {w} : hand'[v] = hand[v]
<1>1. h \in HandState
  BY DEF FitsIn
<1>2. /\ hand' \in [Executor -> HandState] /\ hand'[w] = h
      /\ \A v \in Executor \ {w} : hand'[v] = hand[v]
  BY <1>1, GoesIs DEF Base
<1>3. leases' \subseteq Executor \X Event(db)
  BY DEF Base
<1>4. LeasesApart'
  BY DEF Base, LeasesApart, OfType
<1> QED
  BY <1>2, <1>3, <1>4, QuietKeepsBase

LEMMA LookIs ==
  ASSUME Base, NEW w \in Executor, Look(w)
  PROVE  /\ Base' /\ hand'[w].request = Mine(w) /\ ~ At(w, "idle")
         /\ hand'[w].step = IF Results(Mine(w)) = {} THEN "start" ELSE "settle"
         /\ \A v \in Executor \ {w} : hand'[v] = hand[v]
<1>1. PICK step \in {"start", "settle"} :
        step = IF Results(Mine(w)) = {} THEN "start" ELSE "settle"
  OBVIOUS
<1>2. ~ At(w, "idle") /\ GoTo(w, step)
  BY <1>1 DEF Look, At
<1>3. PICK h : h = [hand[w] EXCEPT !.step = step]
  OBVIOUS
<1>4. /\ hand[w] \in HandState /\ Mine(w) \in Event(db)
      /\ db.log[Mine(w)].type = "tool.request"
  BY <1>2, MineIs
<1>5. h \in HandState /\ h.step = step /\ h.request = Mine(w)
  BY <1>3, <1>4 DEF HandState, Mine
<1>6. FitsIn(db, h)
  BY <1>4, <1>5 DEF FitsIn
<1>7. Goes(w, h)
  BY <1>2, <1>3 DEF GoTo
<1>8. /\ db' = db /\ leases' \subseteq leases /\ done' \subseteq Event(db)
      /\ appends' = appends /\ Counted'
  BY DEF Look, Base, Counted
<1> QED
  BY <1>1, <1>2, <1>5, <1>6, <1>7, <1>8, StillIs

\* An executor that gives up, or that is through.
LEMMA RestIs ==
  ASSUME Base, NEW w \in Executor, Goes(w, IdleHand), db' = db,
         leases' \subseteq leases, done' \subseteq Event(db), appends' = appends, Counted'
  PROVE  /\ Base' /\ hand'[w].step = "idle"
         /\ \A v \in Executor \ {w} : hand'[v] = hand[v]
<1>1. FitsIn(db, IdleHand)
  BY IdleIs DEF FitsIn
<1> QED
  BY <1>1, IdleIs, StillIs

LEMMA SettleIs ==
  ASSUME Base, NEW w \in Executor, Settle(w)
  PROVE  /\ Base' /\ hand'[w].step = "idle" /\ ~ At(w, "idle")
         /\ \A v \in Executor \ {w} : hand'[v] = hand[v]
<1>1. ~ At(w, "idle")
  BY DEF Settle, At
<1>2. Mine(w) \in Event(db)
  BY <1>1, MineIs
<1>3. /\ Goes(w, IdleHand) /\ db' = db /\ leases' \subseteq leases /\ appends' = appends
      /\ done' \subseteq Event(db)
  BY <1>2 DEF Settle, Base
<1>4. Counted'
  BY DEF Settle, Base, Counted
<1> QED
  BY <1>1, <1>3, <1>4, RestIs

LEMMA DieIs ==
  ASSUME Base, NEW w \in Executor, Die(w)
  PROVE  /\ Base' /\ hand'[w].step = "idle" /\ faults' = faults + 1 /\ faults \in Nat
         /\ \A v \in Executor \ {w} : hand'[v] = hand[v]
<1>1. /\ Goes(w, IdleHand) /\ db' = db /\ leases' \subseteq leases /\ appends' = appends
      /\ done' \subseteq Event(db)
  BY DEF Die, Base
<1>2. Counted' /\ faults' = faults + 1 /\ faults \in Nat
  BY WorldAssumption DEF Die, Base, Counted
<1> QED
  BY <1>1, <1>2, RestIs

\* The steps of an executor that append.
LEMMA GainKeepsBase ==
  ASSUME Base, NEW r, Gains(db, db', r), NEW w \in Executor, NEW h, FitsIn(db', h), Goes(w, h),
         leases' = leases, done' = done, appends' = appends, faults' = faults,
         overdue' = overdue
  PROVE  /\ Base' /\ hand'[w] = h
         /\ \A v \in Executor \ {w} : hand'[v] = hand[v]
<1>1. h \in HandState
  BY DEF FitsIn
<1>2. /\ hand' \in [Executor -> HandState] /\ hand'[w] = h
      /\ \A v \in Executor \ {w} : hand'[v] = hand[v]
  BY <1>1, GoesIs DEF Base
<1>3. appends' \in 0 .. MaxAppends
  BY DEF Base, Counted
<1>4. \A v \in Executor : hand'[v] = hand[v] \/ FitsIn(db', hand'[v])
  BY <1>2
<1>5. /\ r \in EventRecord /\ r.at = Len(db.log) + 1 /\ db' = Appended(db, r)
      /\ Suits(db, r) /\ Grounds(db, r)
  BY DEF Gains
<1> QED
  BY <1>2, <1>3, <1>4, <1>5, AppendKeepsBase

LEMMA GainIs ==
  ASSUME NEW s, Sound(s), NEW t, NEW r, Gains(s, t, r), NEW n, n = Len(s.log) + 1
  PROVE  /\ Sound(t) /\ Grown(s, t, r) /\ n \in Nat /\ n > 0 /\ Begins(s, t)
         /\ s.log \in Seq(EventRecord) /\ t.log \in Seq(EventRecord)
         /\ Len(t.log) = n /\ Event(s) = 1 .. n - 1 /\ Event(t) = 1 .. n
         /\ Event(t) = Event(s) \cup {n} /\ n \notin Event(s) /\ t.log[n] = r
         /\ \A e \in Event(s) : e \in Event(t) /\ t.log[e] = s.log[e]
<1>1. /\ r \in EventRecord /\ r.at = Len(s.log) + 1 /\ t = Appended(s, r)
      /\ Suits(s, r) /\ Grounds(s, r)
  BY DEF Gains
<1>2. s.log \in Seq(EventRecord) /\ Sound(t) /\ Grown(s, t, r)
  BY <1>1, DatabaseIs, AppendedIs, AppendIsSound
<1>3. /\ n \in Nat /\ n > 0 /\ t.log \in Seq(EventRecord) /\ Len(t.log) = n
      /\ Event(s) = 1 .. n - 1 /\ Event(t) = Event(s) \cup {n} /\ Event(t) = 1 .. n
      /\ n \notin Event(s) /\ t.log[n] = r /\ Begins(s, t)
  BY <1>2, GrownIs
<1>4. \A e \in Event(s) : e \in Event(t) /\ t.log[e] = s.log[e]
  BY <1>3 DEF Begins
<1> QED
  BY <1>2, <1>3, <1>4

LEMMA GainsIs ==
  ASSUME Base, NEW x \in EventRecord, Suits(db, x), Grounds(db, x), Appends(x)
  PROVE  \E r : Gains(db, db', r) /\ Alike(x, r)
<1>1. PICK r \in EventRecord :
        /\ Alike(x, r) /\ r.parent = x.parent /\ r.at = Len(db.log) + 1
        /\ db' = Appended(db, r) /\ Suits(db, r) /\ Grounds(db, r)
  BY AppendsIs
<1> QED
  BY <1>1 DEF Gains

LEMMA StartIs ==
  ASSUME Base, NEW w \in Executor, Start(w)
  PROVE  /\ Base' /\ hand'[w].step = "hydrate" /\ hand'[w].request = Mine(w)
         /\ \A v \in Executor \ {w} : hand'[v] = hand[v]
         /\ \E r : Gains(db, db', r) /\ r.type = "tool.started"
<1>1. PICK type, q, b : type = "tool.started" /\ q = Mine(w) /\ b = db.log[q].branch
  OBVIOUS
<1>2. /\ q \in Event(db) /\ db.log[q].type = "tool.request" /\ q \in Nat /\ q \in 0 .. Len(db.log)
      /\ b \in Branch /\ Exists(db, b) /\ hand[w] \in HandState
  <2>1. ~ At(w, "idle")
    BY DEF Start, At
  <2> QED
    BY <1>1, <2>1, MineIs
<1>3. PICK x : x = Record(type, b, q, q)
  OBVIOUS
<1>4. x \in EventRecord /\ x.type = type /\ x.branch = b /\ x.parent = q /\ x.cause = q
  <2>1. type \in Types
    BY <1>1 DEF Types
  <2> QED
    BY <1>2, <1>3, <2>1, RecordIs
<1>5. NameFits(x)
  BY <1>1, <1>4 DEF NameFits, OfClocks, Readings
<1>6. Suits(db, x) /\ Grounds(db, x)
  BY <1>1, <1>2, <1>4, <1>5, QuietFits
<1>7. Appends(x)
  BY <1>1, <1>3 DEF Start
<1>8. PICK r : Gains(db, db', r) /\ r.type = type
  BY <1>4, <1>6, <1>7, GainsIs DEF Alike
<1>9. PICK n : n = Len(db.log) + 1
  OBVIOUS
<1>10. n \in Nat /\ Event(db') = Event(db) \cup {n} /\ \A e \in Event(db) : db'.log[e] = db.log[e]
  <2>1. Sound(db)
    BY DEF Base
  <2> QED
    BY <1>8, <1>9, <2>1, GainIs
<1>11. PICK h : h = [hand[w] EXCEPT !.step = "hydrate", !.started = n]
  OBVIOUS
<1>12. h \in HandState /\ h.step = "hydrate" /\ h.started = n /\ h.request = q
  BY <1>1, <1>2, <1>10, <1>11 DEF HandState, Mine
<1>13. FitsIn(db', h)
  BY <1>2, <1>10, <1>12 DEF FitsIn
<1>14. Goes(w, h)
  BY <1>9, <1>11, Zenon DEF Start
<1>15. /\ leases' = leases /\ done' = done /\ appends' = appends /\ faults' = faults
       /\ overdue' = overdue
  BY DEF Start
<1> QED
  BY <1>1, <1>8, <1>12, <1>13, <1>14, <1>15, GainKeepsBase

LEMMA FinishIs ==
  ASSUME Base, NEW w \in Executor, Finish(w)
  PROVE  /\ Base' /\ hand'[w].step = "settle" /\ hand'[w].request = Mine(w)
         /\ \A v \in Executor \ {w} : hand'[v] = hand[v]
         /\ \E r : Gains(db, db', r) /\ r.type = "tool.result" /\ r.cause = Mine(w)
<1>1. PICK type, q, b, k :
        type = "tool.result" /\ q = Mine(w) /\ b = db.log[q].branch /\ k = hand[w].started
  OBVIOUS
<1>2. /\ q \in Event(db) /\ db.log[q].type = "tool.request" /\ q \in Nat /\ q \in 0 .. Len(db.log)
      /\ b \in Branch /\ Exists(db, b) /\ hand[w] \in HandState /\ FitsIn(db, hand[w])
  <2>1. ~ At(w, "idle")
    BY DEF Finish, At
  <2> QED
    BY <1>1, <2>1, MineIs
<1>3. k \in Event(db) /\ k \in Nat /\ k \in 0 .. Len(db.log)
  <2>1. hand[w].step = "finish"
    BY DEF Finish, At
  <2>2. k \in Event(db)
    BY <1>1, <1>2, <2>1 DEF FitsIn
  <2>3. db.log \in Seq(EventRecord) /\ LogSound(db)
    BY DatabaseIs DEF Base
  <2> QED
    BY <2>2, <2>3, LogIs
<1>4. PICK x : x = Record(type, b, k, q)
  OBVIOUS
<1>5. x \in EventRecord /\ x.type = type /\ x.branch = b /\ x.parent = k /\ x.cause = q
  <2>1. type \in Types
    BY <1>1 DEF Types
  <2> QED
    BY <1>2, <1>3, <1>4, <2>1, RecordIs
<1>6. NameFits(x)
  BY <1>1, <1>5 DEF NameFits, OfClocks, Readings
<1>7. Suits(db, x) /\ Grounds(db, x)
  BY <1>1, <1>2, <1>3, <1>5, <1>6, QuietFits
<1>8. Appends(x)
  BY <1>1, <1>4 DEF Finish
<1>9. PICK r : Gains(db, db', r) /\ r.type = type /\ r.cause = q
  BY <1>5, <1>7, <1>8, GainsIs DEF Alike
<1>10. \A e \in Event(db) : e \in Event(db') /\ db'.log[e] = db.log[e]
  <2>1. Sound(db)
    BY DEF Base
  <2>2. PICK n : n = Len(db.log) + 1
    OBVIOUS
  <2> QED
    BY <1>9, <2>1, <2>2, GainIs
<1>11. PICK h : h = [hand[w] EXCEPT !.step = "settle"]
  OBVIOUS
<1>12. h \in HandState /\ h.step = "settle" /\ h.request = q
  BY <1>1, <1>2, <1>11 DEF HandState, Mine
<1>13. FitsIn(db', h)
  BY <1>2, <1>10, <1>12 DEF FitsIn
<1>14. Goes(w, h)
  BY <1>11, Zenon DEF Finish, GoTo
<1>15. /\ leases' = leases /\ done' = done /\ appends' = appends /\ faults' = faults
       /\ overdue' = overdue
  BY DEF Finish
<1> QED
  BY <1>1, <1>9, <1>12, <1>13, <1>14, <1>15, GainKeepsBase

\* What is planned is settled here, and fits the world there is now.
LEMMA HydrateIs ==
  ASSUME Base, NEW w \in Executor, Hydrate(w)
  PROVE  /\ Base' /\ hand'[w].request = Mine(w) /\ hand'[w].step \in {"finish", "mutate"}
         /\ \A v \in Executor \ {w} : hand'[v] = hand[v]
         /\ \A world : (/\ world = db.world[db.log[Mine(w)].branch] /\ Numbered(world)
                        /\ hand'[w].step = "mutate") => InTime(world, hand'[w].todo)
<1>1. PICK q, r : q = Mine(w) /\ r = db.log[q]
  OBVIOUS
<1>2. PICK world, plan : world = db.world[r.branch] /\ plan = Plan(db, world, q)
  OBVIOUS
<1>3. /\ q \in Event(db) /\ r.type = "tool.request" /\ hand[w] \in HandState
      /\ FitsIn(db, hand[w])
  <2>1. ~ At(w, "idle")
    BY DEF Hydrate, At
  <2> QED
    BY <1>1, <2>1, MineIs
<1>4. Sound(db)
  BY DEF Base
<1>5. Requested(db, q, r, world)
  BY <1>1, <1>2, <1>3, <1>4 DEF Requested
<1>6. Planned(db, q, plan) /\ (Numbered(world) /\ plan # <<>> => InTime(world, plan))
  BY <1>2, <1>5, PlanIs
<1>7. plan \in Seq(EventRecord)
  BY <1>6 DEF Planned
<1>8. PICK step \in {"finish", "mutate"} : step = IF plan = <<>> THEN "finish" ELSE "mutate"
  OBVIOUS
<1>9. PICK h : h = [hand[w] EXCEPT !.step = step, !.todo = plan]
  OBVIOUS
<1>10. h \in HandState /\ h.step = step /\ h.todo = plan /\ h.request = q
       /\ h.started = hand[w].started
  BY <1>1, <1>3, <1>7, <1>8, <1>9 DEF HandState, Mine
<1>11. hand[w].started \in Event(db)
  BY <1>3 DEF Hydrate, At, FitsIn
<1>12. FitsIn(db, h)
  BY <1>1, <1>3, <1>6, <1>8, <1>10, <1>11 DEF FitsIn
<1>13. Goes(w, h)
  BY <1>1, <1>2, <1>8, <1>9, Zenon DEF Hydrate
<1>14. /\ db' = db /\ leases' \subseteq leases /\ done' \subseteq Event(db)
       /\ appends' = appends /\ Counted'
  BY DEF Hydrate, Base, Counted
<1>15. /\ Base' /\ hand'[w] = h
       /\ \A v \in Executor \ {w} : hand'[v] = hand[v]
  BY <1>12, <1>13, <1>14, StillIs
<1> QED
  BY <1>1, <1>2, <1>6, <1>8, <1>10, <1>15

LEMMA MutateIs ==
  ASSUME Base, NEW w \in Executor, Mutate(w)
  PROVE  /\ Base' /\ hand'[w].request = Mine(w) /\ hand[w].step = "mutate"
         /\ 1 \in DOMAIN Todo(w) /\ Todo(w) \in Seq(EventRecord)
         /\ hand'[w].todo = Tail(Todo(w))
         /\ hand'[w].step = IF Tail(Todo(w)) = <<>> THEN "finish" ELSE "mutate"
         /\ \A v \in Executor \ {w} : hand'[v] = hand[v]
         /\ Asked(db, Mine(w), Todo(w)[1])
         /\ \E r : Gains(db, db', r) /\ Alike(Todo(w)[1], r)
<1>1. PICK q, todo : q = Mine(w) /\ todo = hand[w].todo
  OBVIOUS
<1>2. /\ q \in Event(db) /\ db.log[q].type = "tool.request" /\ q \in 0 .. Len(db.log)
      /\ db.log[q].branch \in Branch /\ Exists(db, db.log[q].branch)
      /\ hand[w] \in HandState /\ FitsIn(db, hand[w])
  <2>1. ~ At(w, "idle")
    BY DEF Mutate, At
  <2> QED
    BY <1>1, <2>1, MineIs
<1>3. hand[w].step = "mutate" /\ todo # <<>> /\ Planned(db, q, todo)
      /\ hand[w].started \in Event(db)
  BY <1>1, <1>2 DEF FitsIn, Mutate, At, Mine
<1>4. todo \in Seq(EventRecord)
  BY <1>3 DEF Planned
<1>5. PICK r, rest : r = Head(todo) /\ rest = Tail(todo)
  OBVIOUS
<1>6. /\ rest \in Seq(EventRecord) /\ DOMAIN rest = 1 .. Len(todo) - 1
      /\ r = todo[1] /\ 1 \in DOMAIN todo /\ r \in EventRecord
      /\ \A k \in 1 .. Len(todo) - 1 : rest[k] = todo[k + 1]
  BY <1>3, <1>4, <1>5, TailIs
<1>7. Asked(db, q, r)
  BY <1>3, <1>6 DEF Planned
<1>8. Planned(db, q, rest)
  <2>1. \A k \in 1 .. Len(todo) - 1 : k + 1 \in DOMAIN todo /\ k + 1 # 1
    BY <1>4
  <2> QED
    BY <1>3, <1>6, <2>1 DEF Planned
<1>9. PICK l : l = LastEvent(db, r.branch)
  OBVIOUS
<1>10. r.branch = db.log[q].branch /\ l \in 1 .. Len(db.log) /\ l \in Nat /\ Len(db.log) \in Nat
  <2>1. r.branch = db.log[q].branch
    BY <1>7 DEF Asked
  <2> QED
    BY <1>2, <1>9, <2>1, BranchIs
<1>11. PICK x : x = [r EXCEPT !.parent = l]
  OBVIOUS
<1>12. x \in EventRecord /\ x.parent = l /\ Alike(r, x)
  BY <1>6, <1>10, <1>11, BehindIs DEF Alike
<1>13. Asked(db, q, x)
  BY <1>6, <1>7, <1>12, AlikeIs
<1>14. x.type \in Mutations \ {"process.created"} /\ NameFits(x) /\ x.cause = q
       /\ x.branch = db.log[q].branch /\ Applies(db.world[x.branch], x)
  BY <1>13 DEF Asked
<1>15. Suits(db, x)
  BY <1>2, <1>10, <1>12, <1>14 DEF Suits, Mutations
<1>16. Grounds(db, x)
  BY <1>2, <1>13, <1>14 DEF Grounds, Mutations
<1>17. Appends(x)
  BY <1>1, <1>5, <1>9, <1>11, Zenon DEF Mutate
<1>18. PICK y : Gains(db, db', y) /\ Alike(x, y)
  BY <1>12, <1>15, <1>16, <1>17, GainsIs
<1>19. Alike(r, y)
  BY <1>12, <1>18 DEF Alike
<1>20. PICK step \in {"finish", "mutate"} : step = IF rest = <<>> THEN "finish" ELSE "mutate"
  OBVIOUS
<1>21. PICK h : h = [hand[w] EXCEPT !.step = step, !.todo = rest]
  OBVIOUS
<1>22. h \in HandState /\ h.step = step /\ h.todo = rest /\ h.request = q
       /\ h.started = hand[w].started
  BY <1>1, <1>2, <1>6, <1>20, <1>21 DEF HandState, Mine
<1>23. FitsIn(db, h)
  BY <1>2, <1>3, <1>8, <1>20, <1>22 DEF FitsIn
<1>24. FitsIn(db', h)
  <2>1. Sound(db)
    BY DEF Base
  <2>2. /\ y \in EventRecord /\ y.at = Len(db.log) + 1 /\ db' = Appended(db, y)
        /\ Suits(db, y) /\ Grounds(db, y)
    BY <1>18 DEF Gains
  <2> QED
    BY <1>23, <2>1, <2>2, FitsInStays
<1>25. Goes(w, h)
  BY <1>1, <1>5, <1>20, <1>21, Zenon DEF Mutate
<1>26. /\ leases' = leases /\ done' = done /\ appends' = appends /\ faults' = faults
       /\ overdue' = overdue
  BY DEF Mutate
<1>27. /\ Base' /\ hand'[w] = h
       /\ \A v \in Executor \ {w} : hand'[v] = hand[v]
  BY <1>18, <1>24, <1>25, <1>26, GainKeepsBase
<1> QED
  BY <1>1, <1>3, <1>4, <1>5, <1>6, <1>7, <1>18, <1>19, <1>20, <1>22, <1>27 DEF Todo

-----------------------------------------------------------------------------
(* What holds on time *)

ProcsAfter(u, r) == [u.procs EXCEPT ![r.name] = Signalled(u.procs[r.name], r)]

\* The tables that an event changes.
LEMMA PartsAre ==
  ASSUME NEW u \in SoundWorlds, NEW e \in Nat, NEW r \in EventRecord, NameFits(r),
         Applies(u, r), NEW v, v = Applied(u, e, r)
  PROVE  /\ r.type \in Readings => v.revisions = Replaced(u.revisions, RevisionOf(e, r))
         /\ r.type \notin Readings => v.revisions = u.revisions
         /\ r.type = "clock.contradiction" => v.conflicts = u.conflicts \cup {ConflictOf(e, r)}
         /\ r.type # "clock.contradiction" => v.conflicts = u.conflicts
         /\ r.type = "signal" => v.procs = ProcsAfter(u, r)
         /\ r.type \notin {"signal", "process.created"} => v.procs = u.procs
<1>1. /\ r.cause \in Nat /\ r.n \in Nat /\ r.value \in Nat /\ r.prior \in Nat
      /\ r.type = "file.created" => r.name \in Path
      /\ r.type \in {"process.created", "signal"} => r.name \in Pid
      /\ r.type = "signal" => r.op \in {"TERM", "HUP"} /\ r.state \in {"running", "terminated"}
      /\ r.type \in OfClocks => r.name \in Clock
      /\ r.type \in Readings => r.op \in {"set", "advance"} /\ r.name \in Clock
  BY FieldsAre
<1>2. CASE r.type \in Readings
  <2>1. v = WithReading(u, e, r) /\ u.clocks[r.name] # Absent
    BY <1>2, AppliedBy DEF Applies
  <2>2. v = [clocks |-> [u.clocks EXCEPT ![r.name] = ClockRead(u.clocks[r.name], r)],
             revisions |-> Replaced(u.revisions, RevisionOf(e, r)),
             conflicts |-> u.conflicts, nodes |-> u.nodes, procs |-> u.procs]
    BY <1>1, <1>2, <2>1, ReadingIs
  <2> QED
    BY <1>2, <2>2 DEF Readings
<1>3. CASE r.type = "clock.contradiction"
  <2>1. v = WithConflict(u, e, r) /\ u.clocks[r.name] # Absent
    BY <1>3, AppliedBy DEF Applies
  <2>2. v = [clocks |-> u.clocks, revisions |-> u.revisions,
             conflicts |-> u.conflicts \cup {ConflictOf(e, r)},
             nodes |-> u.nodes, procs |-> u.procs]
    BY <1>1, <1>3, <2>1, ConflictIs DEF OfClocks
  <2> QED
    BY <1>3, <2>2 DEF Readings
<1>4. CASE r.type = "signal"
  <2>1. v = WithSignal(u, r) /\ u.procs[r.name] # Absent
    BY <1>4, AppliedBy DEF Applies
  <2>2. v = [clocks |-> u.clocks, revisions |-> u.revisions, conflicts |-> u.conflicts,
             nodes |-> u.nodes,
             procs |-> [u.procs EXCEPT ![r.name] = Signalled(u.procs[r.name], r)]]
    BY <1>1, <1>4, <2>1, SignalIs
  <2> QED
    BY <1>4, <2>2 DEF Readings, ProcsAfter
<1>5. CASE r.type = "file.created"
  <2>1. v = [clocks |-> u.clocks, revisions |-> u.revisions, conflicts |-> u.conflicts,
             nodes |-> u.nodes \cup {r.name}, procs |-> u.procs]
    BY <1>1, <1>5, AppliedBy, FileIs
  <2> QED
    BY <1>5, <2>1 DEF Readings
<1>6. CASE r.type = "clock.created"
  <2>1. v = [clocks |-> [u.clocks EXCEPT ![r.name] = NewClock(r)],
             revisions |-> u.revisions, conflicts |-> u.conflicts,
             nodes |-> u.nodes, procs |-> u.procs]
    BY <1>1, <1>6, AppliedBy, ClockIs DEF OfClocks
  <2> QED
    BY <1>6, <2>1 DEF Readings
<1>7. CASE r.type = "process.created"
  <2>1. v = WithProcess(u, r)
    BY <1>7, AppliedBy
  <2>2. v.revisions = u.revisions /\ v.conflicts = u.conflicts
    BY <1>1, <1>7, <2>1, ProcessIs
  <2> QED
    BY <1>7, <2>2 DEF Readings
<1>8. CASE r.type \notin Mutations
  <2>1. v = u
    BY <1>8, AppliedBy
  <2> QED
    BY <1>8, <2>1 DEF Readings, Mutations
<1> QED
  BY <1>2, <1>3, <1>4, <1>5, <1>6, <1>7, <1>8 DEF Mutations, Readings

\* A process was ended by a signal, and a signal that ends has ended it.
Endings(world) ==
  \A p \in Pid : world.procs[p] # Absent =>
    (world.procs[p].state = "terminated"
     <=> "TERM" \in {world.procs[p].signals[i] : i \in DOMAIN world.procs[p].signals})

LEMMA EndingsStay ==
  ASSUME NEW u \in SoundWorlds, Endings(u), NEW e \in Nat, NEW r \in EventRecord, NameFits(r),
         Applies(u, r), NEW v, v = Applied(u, e, r), r.type # "process.created",
         r.type = "signal" => r.state = Terminates(u, r)
  PROVE  Endings(v)
<1>1. CASE r.type # "signal"
  <2>1. v.procs = u.procs
    <3>1. r.type \notin {"signal", "process.created"}
      BY <1>1
    <3>2. r.type \notin {"signal", "process.created"} => v.procs = u.procs
      BY PartsAre
    <3> QED
      BY <3>1, <3>2
  <2> QED
    BY <2>1 DEF Endings
<1>2. CASE r.type = "signal"
  <2>1. r.name \in Pid /\ r.op \in {"TERM", "HUP"} /\ r.state \in {"running", "terminated"}
    BY <1>2, FieldsAre
  <2>2. PICK row : row = u.procs[r.name]
    OBVIOUS
  <2>3. row # Absent /\ row.signals \in Seq({"TERM", "HUP"})
    BY <1>2, <2>1, <2>2, SignalIs DEF Applies
  <2>4. PICK new : new = Signalled(row, r)
    OBVIOUS
  <2>5. /\ u.procs \in [Pid -> ProcRows]
        /\ v.procs = [u.procs EXCEPT ![r.name] = new]
    <3>1. u \in World
      BY DEF SoundWorlds
    <3> QED
      BY <1>2, <2>2, <2>4, <3>1, PartsAre, WorldIs DEF ProcsAfter
  <2>6. v.procs[r.name] = new /\ \A p \in Pid \ {r.name} : v.procs[p] = u.procs[p]
    BY <2>1, <2>5
  <2>7. new.state = "terminated" <=> "TERM" \in {new.signals[i] : i \in DOMAIN new.signals}
    <3>1. new.state = r.state /\ new.signals = Append(row.signals, r.op)
      BY <2>4 DEF Signalled
    <3>2. PICK n \in Nat : n = Len(row.signals)
      BY <2>3
    <3>3. /\ DOMAIN new.signals = 1 .. n + 1 /\ new.signals[n + 1] = r.op
          /\ DOMAIN row.signals = 1 .. n /\ \A i \in 1 .. n : new.signals[i] = row.signals[i]
      BY <2>1, <2>3, <3>1, <3>2
    <3>4. \A i \in 1 .. n + 1 : i \in 1 .. n \/ i = n + 1
      BY <3>2
    <3>5. "TERM" \in {new.signals[i] : i \in DOMAIN new.signals} <=>
            \/ "TERM" \in {row.signals[i] : i \in DOMAIN row.signals}
            \/ r.op = "TERM"
      <4>1. n + 1 \in 1 .. n + 1 /\ 1 .. n \subseteq 1 .. n + 1
        BY <3>2
      <4> QED
        BY <3>3, <3>4, <4>1
    <3>6. row.state = "terminated" <=> "TERM" \in {row.signals[i] : i \in DOMAIN row.signals}
      BY <2>1, <2>2, <2>3 DEF Endings
    <3>7. r.state = IF r.op = "TERM" THEN "terminated" ELSE row.state
      BY <1>2, <2>2 DEF Terminates
    <3> QED
      BY <3>1, <3>5, <3>6, <3>7
  <2>8. ASSUME NEW p \in Pid, v.procs[p] # Absent
        PROVE  v.procs[p].state = "terminated"
               <=> "TERM" \in {v.procs[p].signals[i] : i \in DOMAIN v.procs[p].signals}
    <3>1. CASE p = r.name
      BY <2>6, <2>7, <3>1
    <3>2. CASE p # r.name
      <4>1. v.procs[p] = u.procs[p]
        BY <2>6, <3>2
      <4> QED
        BY <2>8, <4>1 DEF Endings
    <3> QED
      BY <3>1, <3>2
  <2> QED
    BY <2>8 DEF Endings
<1> QED
  BY <1>1, <1>2

\* A reading that has the next number replaces none.
LEMMA NumberedStays ==
  ASSUME NEW u \in SoundWorlds, Numbered(u), NEW e \in Nat, NEW r \in EventRecord, NameFits(r),
         r.type \in Readings, r.n = NextRevision(u, r.name), NEW v,
         v.revisions = Replaced(u.revisions, RevisionOf(e, r))
  PROVE  /\ v.revisions = u.revisions \cup {RevisionOf(e, r)} /\ Numbered(v)
         /\ \A y \in u.revisions : y.clock = r.name => y.n < r.n
         /\ ~ Doubles(u, r)
<1>1. r.name \in Clock /\ r.n \in Nat
  BY FieldsAre
<1>2. PICK c, R, row : c = r.name /\ R = RevisionsOf(u, c) /\ row = RevisionOf(e, r)
  OBVIOUS
<1>3. row.clock = c /\ row.n = r.n
  BY <1>2 DEF RevisionOf
<1>4. PICK k \in Nat : k = Cardinality(R)
  BY <1>2, NumbersAre
<1>5. r.n = k + 1 /\ IsFiniteSet(R)
  BY <1>2, <1>4, NumbersAre DEF NextRevision
<1>6. {x.n : x \in R} = 1 .. k /\ \A x, y \in R : x.n = y.n => x = y
  BY <1>1, <1>2, <1>4 DEF Numbered
<1>7. \A y \in R : y.n \in 1 .. k /\ y.n < r.n
  <2>1. \A y \in R : y.n \in 1 .. k
    BY <1>6
  <2> QED
    BY <1>4, <1>5, <2>1
<1>8. \A y \in u.revisions : y.clock = c => y \in R
  BY <1>2 DEF RevisionsOf
<1>9. \A y \in u.revisions : ~ (y.clock = c /\ y.n = r.n)
  BY <1>1, <1>4, <1>5, <1>7, <1>8
<1>10. v.revisions = u.revisions \cup {row}
  BY <1>2, <1>3, <1>9 DEF Replaced
<1>11. ASSUME NEW d \in Clock
       PROVE  /\ {x.n : x \in RevisionsOf(v, d)} = 1 .. Cardinality(RevisionsOf(v, d))
              /\ \A x, y \in RevisionsOf(v, d) : x.n = y.n => x = y
  <2>1. CASE d # c
    <3>1. RevisionsOf(v, d) = RevisionsOf(u, d)
      BY <1>3, <1>10, <2>1 DEF RevisionsOf
    <3> QED
      BY <3>1 DEF Numbered
  <2>2. CASE d = c
    <3>1. RevisionsOf(v, c) = R \cup {row}
      BY <1>2, <1>3, <1>10 DEF RevisionsOf
    <3>2. row \notin R
      BY <1>3, <1>5, <1>7
    <3>3. Cardinality(R \cup {row}) = k + 1
      BY <1>4, <1>5, <3>2, FS_AddElement
    <3>4. {x.n : x \in R \cup {row}} = {x.n : x \in R} \cup {row.n}
      OBVIOUS
    <3>5. 1 .. k + 1 = (1 .. k) \cup {k + 1}
      BY <1>4
    <3>6. {x.n : x \in R \cup {row}} = 1 .. k + 1
      BY <1>3, <1>5, <1>6, <3>4, <3>5
    <3>7. \A x, y \in R \cup {row} : x.n = y.n => x = y
      BY <1>1, <1>3, <1>4, <1>5, <1>6, <1>7
    <3> QED
      BY <2>2, <3>1, <3>3, <3>6, <3>7
  <2> QED
    BY <2>1, <2>2
<1>12. ~ Doubles(u, r)
  <2>1. ~ Renews(u, r)
    BY DEF Renews, Readings
  <2> QED
    BY <1>2, <1>1, <1>4, <1>5, <1>7, <2>1 DEF Doubles
<1> QED
  BY <1>2, <1>7, <1>8, <1>10, <1>11, <1>12 DEF Numbered

OwnReadings(s) == {e \in Own(s, Main) : s.log[e].type \in Readings}

\* The readings of the first branch and its tables agree.
Accounted(s, world) ==
  /\ \A e \in OwnReadings(s) : RevisionOf(e, s.log[e]) \in world.revisions
  /\ \A x \in world.revisions :
       x.event \in OwnReadings(s) /\ x = RevisionOf(x.event, s.log[x.event])

Timely(s) ==
  /\ EventBacked(s, Main) = s.world[Main] /\ Numbered(s.world[Main])
  /\ Endings(s.world[Main]) /\ Accounted(s, s.world[Main])

\* The worlds after an event.
LEMMA GainedWorlds ==
  ASSUME NEW s, Sound(s), NEW t, NEW r, Gains(s, t, r)
  PROVE  /\ r.branch \in Branch /\ t.world[r.branch] = WorldAfter(s, r)
         /\ \A b \in Branch \ {r.branch} : t.world[b] = s.world[b]
<1>1. r \in EventRecord /\ r.at = Len(s.log) + 1 /\ t = Appended(s, r)
  BY DEF Gains
<1>2. /\ Grown(s, t, r) /\ t.world = [s.world EXCEPT ![r.branch] = WorldAfter(s, r)]
      /\ t = [log |-> t.log, branch |-> t.branch, world |-> t.world]
      /\ r.branch \in Branch /\ t.world[r.branch] = WorldAfter(s, r)
      /\ \A b \in Branch \ {r.branch} : t.world[b] = s.world[b]
  BY <1>1, AppendedIs
<1> QED
  BY <1>2

\* The readings of the first branch after an event.
LEMMA ReadingsGrow ==
  ASSUME NEW s, Sound(s), NEW t, NEW r, Gains(s, t, r), NEW n, n = Len(s.log) + 1
  PROVE  /\ OwnReadings(t) = OwnReadings(s) \cup {x \in {n} : r.branch = Main /\ r.type \in Readings}
         /\ \A e \in OwnReadings(s) : t.log[e] = s.log[e] /\ e # n
<1>1. /\ Event(t) = Event(s) \cup {n} /\ n \notin Event(s) /\ t.log[n] = r
      /\ \A e \in Event(s) : t.log[e] = s.log[e]
  BY GainIs
<1> QED
  BY <1>1 DEF OwnReadings, Own

\* An event of another branch, or one that is about no world, changes nothing on the first.
LEMMA QuietStays ==
  ASSUME NEW s, Sound(s), NEW t, NEW r, Gains(s, t, r), r.branch # Main \/ r.type \notin Mutations,
         Timely(s)
  PROVE  /\ Timely(t) /\ t.world[Main] = s.world[Main] /\ OwnReadings(t) = OwnReadings(s)
         /\ \A e \in OwnReadings(s) : t.log[e] = s.log[e]
<1>1. PICK n : n = Len(s.log) + 1
  OBVIOUS
<1>2. PICK u : u = s.world[Main]
  OBVIOUS
<1>3. /\ r \in EventRecord /\ r.at = Len(s.log) + 1 /\ t = Appended(s, r)
      /\ Suits(s, r) /\ Grounds(s, r)
  BY DEF Gains
<1>4. /\ r.branch \in Branch /\ t.world[r.branch] = WorldAfter(s, r)
      /\ \A b \in Branch \ {r.branch} : t.world[b] = s.world[b]
  BY GainedWorlds
<1>5. Main \in Branch /\ u \in SoundWorlds /\ LogSound(s) /\ Exists(s, Main)
  BY <1>2, DatabaseIs, BranchesAre DEF Sound
<1>6. t.world[Main] = u /\ (r.branch = Main => BackedNext(u, n, r) = u)
  <2>1. CASE r.branch # Main
    BY <1>2, <1>4, <1>5, <2>1
  <2>2. CASE r.branch = Main /\ r.type \notin Mutations
    <3>1. r.type # "session.forked"
      BY <1>3, <1>5, <2>2 DEF Suits
    <3>2. Applied(u, n, r) = u
      BY <2>2, AppliedBy
    <3>3. WorldAfter(s, r) = u
      BY <1>1, <1>2, <2>2, <3>1, <3>2 DEF WorldAfter
    <3>4. BackedNext(u, n, r) = u
      BY <2>2, <3>2, Zenon DEF BackedNext, Mutations
    <3> QED
      BY <1>4, <2>2, <3>3, <3>4
  <2> QED
    BY <2>1, <2>2
<1>7. OwnReadings(t) = OwnReadings(s) /\ \A e \in OwnReadings(s) : t.log[e] = s.log[e]
  <2>1. ~ (r.branch = Main /\ r.type \in Readings)
    BY DEF Readings, Mutations
  <2>2. /\ OwnReadings(t) = OwnReadings(s)
                             \cup {x \in {n} : r.branch = Main /\ r.type \in Readings}
        /\ \A e \in OwnReadings(s) : t.log[e] = s.log[e] /\ e # n
    BY <1>1, ReadingsGrow
  <2> QED
    BY <2>1, <2>2
<1>8. EventBacked(t, Main) = u
  <2>1. Sound(t) /\ Grown(s, t, r)
    BY <1>1, GainIs
  <2>2. Fitting(s) /\ Fitting(t)
    BY <2>1, DatabaseIs
  <2>3. EventBacked(s, Main) = u
    BY <1>2 DEF Timely
  <2> QED
    BY <1>1, <1>6, <2>1, <2>2, <2>3, BackedGrows
<1>9. Accounted(t, u)
  BY <1>2, <1>7 DEF Timely, Accounted
<1> QED
  BY <1>2, <1>6, <1>7, <1>8, <1>9 DEF Timely

\* What a mutation r, event n, makes of the world u of the first branch.
Mutated(s, t, r, n, u, v) ==
  /\ r.type \in Readings =>
       /\ v.revisions = u.revisions \cup {RevisionOf(n, r)}
       /\ OwnReadings(t) = OwnReadings(s) \cup {n}
       /\ \A y \in u.revisions : y.clock = r.name => y.n < r.n
  /\ r.type \notin Readings =>
       v.revisions = u.revisions /\ OwnReadings(t) = OwnReadings(s)
  /\ r.type = "clock.contradiction" => v.conflicts = u.conflicts \cup {ConflictOf(n, r)}
  /\ r.type # "clock.contradiction" => v.conflicts = u.conflicts
  /\ t.log[n] = r /\ \A e \in OwnReadings(s) : t.log[e] = s.log[e] /\ e # n

\* A mutation that is what its world asks for is in the tables as in the replay.
LEMMA MutationStays ==
  ASSUME NEW s, Sound(s), NEW t, NEW r, Gains(s, t, r), Timely(s), NEW n, n = Len(s.log) + 1,
         r.branch = Main, r.type \in Mutations \ {"process.created"},
         NEW u, u = s.world[Main], NEW v, v = t.world[Main],
         r.type = "signal" => r.state = Terminates(u, r),
         r.type = "clock.created" => u.clocks[r.name] = Absent,
         r.type \in Readings => r.n = NextRevision(u, r.name)
  PROVE  Timely(t) /\ Mutated(s, t, r, n, u, v)
<1>1. /\ r \in EventRecord /\ r.at = Len(s.log) + 1 /\ t = Appended(s, r)
      /\ Suits(s, r) /\ Grounds(s, r) /\ NameFits(r)
  BY DEF Gains, Suits
<1>2. n \in Nat /\ t.log[n] = r /\ Sound(t) /\ Grown(s, t, r)
  BY GainIs
<1>3. t.world[Main] = WorldAfter(s, r)
  BY GainedWorlds
<1>4. r.type # "session.forked"
  BY DEF Mutations
<1>5. u \in SoundWorlds /\ Applies(u, r)
  BY <1>1, <1>4, DatabaseIs, BranchesAre DEF Sound, Grounds
<1>6. v = Applied(u, n, r)
  BY <1>3, <1>4 DEF WorldAfter
<1>7. Numbered(u) /\ Endings(u) /\ Accounted(s, u) /\ EventBacked(s, Main) = u
  BY DEF Timely
<1>8. /\ r.type \in Readings => v.revisions = Replaced(u.revisions, RevisionOf(n, r))
      /\ r.type \notin Readings => v.revisions = u.revisions
      /\ r.type = "clock.contradiction" => v.conflicts = u.conflicts \cup {ConflictOf(n, r)}
      /\ r.type # "clock.contradiction" => v.conflicts = u.conflicts
  BY <1>1, <1>2, <1>5, <1>6, PartsAre
<1>9. Endings(v)
  BY <1>1, <1>2, <1>5, <1>6, <1>7, EndingsStay
<1>10. r.type \in Readings =>
         /\ v.revisions = u.revisions \cup {RevisionOf(n, r)} /\ Numbered(v)
         /\ \A y \in u.revisions : y.clock = r.name => y.n < r.n
         /\ ~ Doubles(u, r)
  BY <1>1, <1>2, <1>5, <1>7, <1>8, NumberedStays
<1>11. r.type \notin Readings => Numbered(v) /\ ~ Doubles(u, r)
  <2>1. v.revisions = u.revisions => \A c : RevisionsOf(v, c) = RevisionsOf(u, c)
    BY DEF RevisionsOf
  <2>2. ~ Renews(u, r)
    BY <1>5 DEF Renews, SoundWorlds, Clocked
  <2> QED
    BY <1>7, <1>8, <2>1, <2>2 DEF Numbered, Doubles
<1>12. EventBacked(t, Main) = v
  <2>1. Fitting(s) /\ Fitting(t)
    BY <1>2, DatabaseIs
  <2>2. EventBacked(t, Main) = BackedNext(u, n, r)
    BY <1>2, <1>7, <2>1, BackedGrows
  <2> QED
    BY <1>1, <1>2, <1>5, <1>6, <1>10, <1>11, <2>2, BackedNextIs
<1>13. /\ OwnReadings(t) = OwnReadings(s) \cup {x \in {n} : r.branch = Main /\ r.type \in Readings}
       /\ \A e \in OwnReadings(s) : t.log[e] = s.log[e] /\ e # n
  BY ReadingsGrow
<1>14. Accounted(t, v)
  <2>1. CASE r.type \in Readings
    <3>1. OwnReadings(t) = OwnReadings(s) \cup {n}
      BY <1>13, <2>1
    <3>2. RevisionOf(n, r).event = n
      BY DEF RevisionOf
    <3> QED
      BY <1>2, <1>7, <1>10, <1>13, <2>1, <3>1, <3>2 DEF Accounted
  <2>2. CASE r.type \notin Readings
    <3>1. OwnReadings(t) = OwnReadings(s)
      BY <1>13, <2>2
    <3> QED
      BY <1>7, <1>8, <1>13, <2>2, <3>1 DEF Accounted
  <2> QED
    BY <2>1, <2>2
<1>15. Numbered(v)
  BY <1>10, <1>11
<1>16. Timely(t)
  BY <1>9, <1>12, <1>14, <1>15 DEF Timely
<1> QED
  BY <1>2, <1>8, <1>10, <1>13, <1>16 DEF Mutated

-----------------------------------------------------------------------------
(* As long as no lease expires under an executor *)

Leased == \A w \in Executor : Working(w) => <<w, Mine(w)>> \in leases

PlansFit ==
  \A w \in Executor : OnMain(w) /\ At(w, "mutate") => InTime(db.world[Main], Todo(w))

OnTime == Timely(db) /\ Leased /\ PlansFit

LEMMA OnTimeIs == OnTime <=> WorldOnTime
<1>1. \A w : PlanFits(w) <=> InTime(db.world[Main], Todo(w))
  BY Zenon DEF PlanFits, InTime
<1>2. PICK u : u = db.world[Main]
  OBVIOUS
<1>3. Accounted(db, u) <=>
        /\ \A e \in Own(db, Main) : db.log[e].type \in Readings =>
             RevisionOf(e, db.log[e]) \in u.revisions
        /\ \A x \in u.revisions :
             /\ x.event \in Own(db, Main) /\ db.log[x.event].type \in Readings
             /\ x = RevisionOf(x.event, db.log[x.event])
  BY DEF Accounted, OwnReadings
<1>4. Endings(u) <=>
        \A p \in Pid : u.procs[p] # Absent =>
          (u.procs[p].state = "terminated"
           <=> "TERM" \in {u.procs[p].signals[i] : i \in DOMAIN u.procs[p].signals})
  BY Zenon DEF Endings
<1>5. PlansFit <=> \A w \in Executor : OnMain(w) /\ At(w, "mutate") => PlanFits(w)
  BY <1>1 DEF PlansFit
<1>6. WorldOnTime <=>
        /\ EventBacked(db, Main) = u
        /\ Numbered(u)
        /\ \A e \in Own(db, Main) : db.log[e].type \in Readings =>
             RevisionOf(e, db.log[e]) \in u.revisions
        /\ \A x \in u.revisions :
             /\ x.event \in Own(db, Main) /\ db.log[x.event].type \in Readings
             /\ x = RevisionOf(x.event, db.log[x.event])
        /\ \A p \in Pid : u.procs[p] # Absent =>
             (u.procs[p].state = "terminated"
              <=> "TERM" \in {u.procs[p].signals[i] : i \in DOMAIN u.procs[p].signals})
        /\ Leased
        /\ \A w \in Executor : OnMain(w) /\ At(w, "mutate") => PlanFits(w)
  BY <1>2, Zenon DEF WorldOnTime, Leased
<1> QED
  BY <1>2, <1>3, <1>4, <1>5, <1>6, Zenon DEF OnTime, Timely

\* Of the executors that are at work on a branch there is one.
LEMMA OneIsAtWork ==
  ASSUME Base, Leased, NEW v \in Executor, NEW w \in Executor, Working(v), Working(w),
         db.log[Mine(v)].branch = db.log[Mine(w)].branch
  PROVE  v = w
<1>1. <<v, Mine(v)>> \in leases /\ <<w, Mine(w)>> \in leases
  BY DEF Leased
<1>2. <<v, Mine(v)>> = <<w, Mine(w)>>
  BY <1>1 DEF Base, LeasesApart
<1> QED
  BY <1>2

\* What executors do when the log stays.
LEMMA StillOnTime ==
  ASSUME OnTime, db' = db,
         \A v \in Executor : hand'[v].step # "idle" => <<v, hand'[v].request>> \in leases',
         \A v \in Executor :
           \/ hand'[v] = hand[v] \/ hand'[v].step # "mutate"
           \/ db.log[hand'[v].request].branch = Main => InTime(db.world[Main], hand'[v].todo)
  PROVE  OnTime'
<1>1. Leased'
  BY DEF Leased, Working, At, Mine
<1>2. PlansFit'
  <2>1. ASSUME NEW v \in Executor, hand'[v].step = "mutate",
               db.log[hand'[v].request].branch = Main
        PROVE  InTime(db.world[Main], hand'[v].todo)
    <3>1. CASE hand'[v] = hand[v]
      <4>1. OnMain(v) /\ At(v, "mutate")
        BY <2>1, <3>1 DEF OnMain, Working, At, Mine
      <4> QED
        BY <3>1, <4>1 DEF OnTime, PlansFit, Todo
    <3> QED
      BY <2>1, <3>1
  <2> QED
    BY <2>1 DEF PlansFit, OnMain, Working, At, Mine, Todo
<1>3. Timely(db')
  BY DEF OnTime
<1> QED
  BY <1>1, <1>2, <1>3 DEF OnTime

\* What an executor does to other branches, and what others append.
LEMMA GainOnTime ==
  ASSUME Base, OnTime, NEW r, Gains(db, db', r), r.branch # Main \/ r.type \notin Mutations,
         leases' = leases,
         \A v \in Executor :
           \/ hand'[v] = hand[v]
           \/ /\ hand[v].step # "idle" /\ hand'[v].request = hand[v].request
              /\ hand'[v].step # "mutate" \/ db.log[hand[v].request].branch # Main
  PROVE  /\ OnTime' /\ db'.world[Main] = db.world[Main]
         /\ OwnReadings(db') = OwnReadings(db)
         /\ \A e \in OwnReadings(db) : db'.log[e] = db.log[e]
<1>1. PICK s, t, n : s = db /\ t = db' /\ n = Len(s.log) + 1
  OBVIOUS
<1>2. Sound(s) /\ Timely(s) /\ Gains(s, t, r)
  BY <1>1 DEF Base, OnTime
<1>3. /\ Timely(t) /\ t.world[Main] = s.world[Main] /\ OwnReadings(t) = OwnReadings(s)
      /\ \A e \in OwnReadings(s) : t.log[e] = s.log[e]
  BY <1>2, QuietStays
<1>4. \A e \in Event(s) : t.log[e] = s.log[e]
  BY <1>1, <1>2, GainIs
<1>5. Leased'
  BY DEF OnTime, Leased, Working, At, Mine
<1>6. ASSUME NEW v \in Executor, hand'[v].step = "mutate", t.log[hand'[v].request].branch = Main
      PROVE  InTime(s.world[Main], hand'[v].todo)
  <2>1. hand[v].step # "idle" /\ hand'[v].request = hand[v].request
    BY <1>6
  <2>2. hand[v].request \in Event(s)
    BY <1>1, <2>1 DEF Base, FitsIn
  <2>3. s.log[hand[v].request].branch = Main
    BY <1>4, <1>6, <2>1, <2>2
  <2>4. hand'[v] = hand[v]
    BY <1>1, <1>6, <2>3
  <2>5. OnMain(v) /\ At(v, "mutate")
    BY <1>1, <1>6, <2>1, <2>3, <2>4 DEF OnMain, Working, At, Mine
  <2> QED
    BY <1>1, <2>4, <2>5 DEF OnTime, PlansFit, Todo
<1>7. PlansFit'
  BY <1>1, <1>3, <1>6 DEF PlansFit, OnMain, Working, At, Mine, Todo
<1> QED
  BY <1>1, <1>3, <1>5, <1>7 DEF OnTime

\* A mutation of the first branch.
LEMMA MutateOnTime ==
  ASSUME Base, OnTime, NEW w \in Executor, Mutate(w), OnMain(w),
         NEW r, Gains(db, db', r), Alike(Todo(w)[1], r),
         NEW n, n = Len(db.log) + 1, NEW u, u = db.world[Main], NEW v, v = db'.world[Main]
  PROVE  /\ OnTime' /\ InTime(u, Todo(w)) /\ r.cause = Mine(w)
         /\ Mutated(db, db', r, n, u, v)
<1>1. /\ hand'[w].request = Mine(w) /\ hand[w].step = "mutate"
      /\ 1 \in DOMAIN Todo(w) /\ Todo(w) \in Seq(EventRecord)
      /\ hand'[w].todo = Tail(Todo(w))
      /\ hand'[w].step = IF Tail(Todo(w)) = <<>> THEN "finish" ELSE "mutate"
      /\ \A x \in Executor \ {w} : hand'[x] = hand[x]
      /\ Asked(db, Mine(w), Todo(w)[1])
  BY MutateIs
<1>2. PICK todo, first : todo = Todo(w) /\ first = todo[1]
  OBVIOUS
<1>3. InTime(u, todo)
  BY <1>1, <1>2 DEF OnTime, PlansFit, At
<1>4. /\ first.type = "signal" => first.state = Terminates(u, first)
      /\ first.type = "clock.created" => u.clocks[first.name] = Absent
      /\ first.type \in Readings => first.n = NextRevision(u, first.name)
  BY <1>2, <1>3 DEF InTime
<1>5. /\ r.type = first.type /\ r.name = first.name /\ r.n = first.n /\ r.state = first.state
      /\ r.op = first.op /\ r.branch = first.branch /\ r.cause = first.cause
  BY <1>2 DEF Alike
<1>6. /\ r.type = "signal" => r.state = Terminates(u, r)
      /\ r.type = "clock.created" => u.clocks[r.name] = Absent
      /\ r.type \in Readings => r.n = NextRevision(u, r.name)
  BY <1>4, <1>5 DEF Terminates
<1>7. r.branch = Main /\ r.type \in Mutations \ {"process.created"} /\ r.cause = Mine(w)
  BY <1>1, <1>2, <1>5 DEF Asked, OnMain
<1>8. Sound(db) /\ Timely(db)
  BY DEF Base, OnTime
<1>9. Timely(db') /\ Mutated(db, db', r, n, u, v)
  BY <1>6, <1>7, <1>8, MutationStays
<1>10. leases' = leases
  BY DEF Mutate
<1>11. Leased'
  BY <1>1, <1>10 DEF OnTime, Leased, Working, At, Mine
<1>12. ASSUME NEW x \in Executor, hand'[x].step = "mutate",
              db'.log[hand'[x].request].branch = Main
       PROVE  InTime(v, hand'[x].todo)
  <2>1. CASE x = w
    <3>1. PICK rest : rest = Tail(todo)
      OBVIOUS
    <3>2. hand'[x].todo = rest /\ rest # <<>> /\ todo \in Seq(EventRecord) /\ todo # <<>>
      BY <1>1, <1>2, <1>12, <2>1, <3>1
    <3>3. /\ rest \in Seq(EventRecord) /\ DOMAIN rest = 1 .. Len(todo) - 1
          /\ \A k \in 1 .. Len(todo) - 1 : rest[k] = todo[k + 1]
      BY <3>1, <3>2, TailIs
    <3>4. 1 \in DOMAIN rest /\ rest[1] = todo[2] /\ 2 \in DOMAIN todo
      BY <3>2, <3>3
    <3>5. Planned(db, Mine(w), todo)
      BY <1>1, <1>2 DEF Base, FitsIn, Mine, Todo
    <3>6. rest[1].type = "clock.contradiction"
      BY <3>4, <3>5 DEF Planned
    <3> QED
      BY <3>2, <3>6 DEF InTime, Readings
  <2>2. CASE x # w
    <3>1. hand'[x] = hand[x]
      BY <1>1, <2>2
    <3>2. Working(x) /\ Working(w)
      BY <1>12, <3>1 DEF Working, At, OnMain
    <3>3. Mine(x) \in Event(db)
      BY <3>2, MineIs DEF Working
    <3>4. db.log[Mine(x)].branch = Main
      <4>1. \A e \in Event(db) : db'.log[e] = db.log[e]
        BY <1>8, GainIs
      <4> QED
        BY <1>12, <3>1, <3>3, <4>1 DEF Mine
    <3>5. x = w
      BY <3>2, <3>4, OneIsAtWork DEF OnTime, OnMain
    <3> QED
      BY <2>2, <3>5
  <2> QED
    BY <2>1, <2>2
<1>13. PlansFit'
  BY <1>12 DEF PlansFit, OnMain, Working, At, Mine, Todo
<1>14. OnTime'
  BY <1>9, <1>11, <1>13 DEF OnTime
<1> QED
  BY <1>2, <1>3, <1>7, <1>9, <1>14

-----------------------------------------------------------------------------
(* And as long as none dies in a job *)

Busy(h) == h.step \in {"start", "hydrate", "mutate", "finish"}
ReadBy(h) == \/ h.step \in {"finish", "settle"}
             \/ h.step = "mutate" /\ h.todo[1].type = "clock.contradiction"
ResultsIn(s, q) == {e \in Event(s) : s.log[e].type = "tool.result" /\ s.log[e].cause = q}

LeasesHeld == \A lease \in leases : Working(lease[1]) /\ Mine(lease[1]) = lease[2]
Unsettled == \A w \in Executor : Working(w) => Mine(w) \notin done
Unanswered == \A w \in Executor : Busy(hand[w]) => ResultsIn(db, Mine(w)) = {}
Covered ==
  \A e \in OwnReadings(db) :
    \/ db.log[e].cause \in done
    \/ \E w \in Executor : Working(w) /\ Mine(w) = db.log[e].cause /\ ReadBy(hand[w])
ReadOnce ==
  \A e, f \in OwnReadings(db) : db.log[e].cause = db.log[f].cause => e = f

Once == LeasesHeld /\ Unsettled /\ Unanswered /\ Covered /\ ReadOnce

LEMMA OnceIs == Once <=> AnsweredOnce
<1>1. \A q : Results(q) = ResultsIn(db, q)
  BY DEF Results, OfType, ResultsIn
<1>2. \A w : Read(w) <=> ReadBy(hand[w])
  BY DEF Read, ReadBy, At, Todo
<1>3. Unanswered <=>
        \A w \in Executor : hand[w].step \in {"start", "hydrate", "mutate", "finish"} =>
                              Results(Mine(w)) = {}
  BY <1>1 DEF Unanswered, Busy
<1>4. Covered <=>
        \A e \in Own(db, Main) : db.log[e].type \in Readings =>
          \/ db.log[e].cause \in done
          \/ \E w \in Executor : Working(w) /\ Mine(w) = db.log[e].cause /\ Read(w)
  BY <1>2 DEF Covered, OwnReadings
<1>5. ReadOnce <=>
        \A e, f \in Own(db, Main) :
          (/\ db.log[e].type \in Readings /\ db.log[f].type \in Readings
           /\ db.log[e].cause = db.log[f].cause) => e = f
  BY DEF ReadOnce, OwnReadings
<1> QED
  BY <1>3, <1>4, <1>5, Zenon DEF Once, AnsweredOnce, LeasesHeld, Unsettled

\* An executor goes on with its request.
GoesOn(h, g) ==
  /\ h.step = "idle" <=> g.step = "idle"
  /\ h.step # "idle" => g.request = h.request
  /\ ReadBy(h) => ReadBy(g)

LEMMA HandsGoOn ==
  ASSUME LeasesHeld, Unsettled, leases' = leases, done' = done,
         leases \subseteq Executor \X Event(db),
         \A w \in Executor : GoesOn(hand[w], hand'[w])
  PROVE  LeasesHeld' /\ Unsettled'
<1>1. \A lease \in leases : lease[1] \in Executor
  OBVIOUS
<1> QED
  BY <1>1 DEF LeasesHeld, Unsettled, GoesOn, Working, At, Mine

LEMMA OnceGoesOn ==
  ASSUME Base, Once, leases' = leases, done' = done, OwnReadings(db') = OwnReadings(db),
         \A e \in OwnReadings(db) : db'.log[e] = db.log[e],
         \A w \in Executor : GoesOn(hand[w], hand'[w]), Unanswered'
  PROVE  Once'
<1>1. LeasesHeld' /\ Unsettled'
  BY HandsGoOn DEF Once, Base
<1>2. Covered'
  <2>1. ASSUME NEW e \in OwnReadings(db), db.log[e].cause \notin done
        PROVE  \E w \in Executor : /\ hand'[w].step # "idle" /\ ReadBy(hand'[w])
                                   /\ hand'[w].request = db.log[e].cause
    <3>1. PICK w \in Executor : Working(w) /\ Mine(w) = db.log[e].cause /\ ReadBy(hand[w])
      BY <2>1 DEF Once, Covered
    <3> QED
      BY <3>1 DEF GoesOn, Working, At, Mine
  <2> QED
    BY <2>1 DEF Covered, Working, At, Mine
<1>3. ReadOnce'
  BY DEF Once, ReadOnce
<1> QED
  BY <1>1, <1>2, <1>3 DEF Once

LEMMA UnansweredStays ==
  ASSUME Base, Unanswered, NEW r, Gains(db, db', r),
         \A w \in Executor : Busy(hand'[w]) =>
           /\ Busy(hand[w]) /\ hand'[w].request = hand[w].request
           /\ r.type = "tool.result" => r.cause # hand[w].request
  PROVE  Unanswered'
<1>1. PICK n : n = Len(db.log) + 1
  OBVIOUS
<1>2. /\ Event(db') = Event(db) \cup {n} /\ db'.log[n] = r
      /\ \A e \in Event(db) : db'.log[e] = db.log[e]
  BY <1>1, GainIs DEF Base
<1>3. ASSUME NEW q, r.type = "tool.result" => r.cause # q
      PROVE  ResultsIn(db', q) = ResultsIn(db, q)
  BY <1>2, <1>3 DEF ResultsIn
<1>4. ASSUME NEW w \in Executor, Busy(hand'[w])
      PROVE  ResultsIn(db', hand'[w].request) = {}
  BY <1>3, <1>4 DEF Unanswered, Mine
<1> QED
  BY <1>4 DEF Unanswered, Mine

\* A contradiction is noted or about to be.
DueTo(s, x, y, h) ==
  /\ h.step = "mutate" /\ s.log[h.request].branch = Main
  /\ h.request = s.log[y.event].cause /\ Contradicts(x, s.log[y.event], h.todo[1])

Differ(x, y) == x.clock = y.clock /\ y.n = x.n + 1 /\ y.op = "set" /\ x.value # y.value

Noted(world, x, y) ==
  \E k \in world.conflicts : k.clock = x.clock /\ k.prior = x.n /\ k.n = y.n

LEMMA DueIs ==
  ConflictsDue <=>
    \A x, y \in db.world[Main].revisions : Differ(x, y) =>
      \/ Noted(db.world[Main], x, y)
      \/ \E w \in Executor : DueTo(db, x, y, hand[w])
BY DEF ConflictsDue, DueTo, Differ, Noted, OnMain, Working, At, Mine, Todo

LEMMA DueStays ==
  ASSUME Base, OnTime, ConflictsDue, db'.world[Main] = db.world[Main],
         \A e \in Event(db) : db'.log[e] = db.log[e],
         \A w \in Executor :
           \/ hand'[w] = hand[w] \/ hand[w].step # "mutate"
           \/ db.log[hand[w].request].branch # Main
  PROVE  ConflictsDue'
<1>1. PICK u : u = db.world[Main]
  OBVIOUS
<1>2. ASSUME NEW x \in u.revisions, NEW y \in u.revisions, Differ(x, y), ~ Noted(u, x, y)
      PROVE  \E w \in Executor : DueTo(db', x, y, hand'[w])
  <2>1. PICK w \in Executor : DueTo(db, x, y, hand[w])
    BY <1>1, <1>2, DueIs
  <2>2. hand'[w] = hand[w] /\ hand[w].step = "mutate"
    BY <2>1 DEF DueTo
  <2>3. hand[w].request \in Event(db)
    BY <2>2 DEF Base, FitsIn
  <2>4. y.event \in Event(db)
    BY <1>1, <1>2 DEF OnTime, Timely, Accounted, OwnReadings, Own
  <2>5. DueTo(db', x, y, hand'[w])
    BY <2>1, <2>2, <2>3, <2>4 DEF DueTo
  <2> QED
    BY <2>5
<1>3. \A x, y \in db'.world[Main].revisions : Differ(x, y) =>
        \/ Noted(db'.world[Main], x, y)
        \/ \E w \in Executor : DueTo(db', x, y, hand'[w])
  BY <1>1, <1>2
<1> QED
  BY <1>3 DEF ConflictsDue, DueTo, Differ, Noted, OnMain, Working, At, Mine, Todo

\* After a mutation the readings of a request are behind its executor.
LEMMA MutateReads ==
  ASSUME Base, NEW w \in Executor, Mutate(w)
  PROVE  /\ ReadBy(hand'[w]) /\ hand'[w].step \in {"finish", "mutate"}
         /\ hand'[w].step = "mutate" => hand'[w].todo[1] = Todo(w)[2]
         /\ Len(Todo(w)) = 2 => hand'[w].step = "mutate"
<1>1. /\ hand'[w].request = Mine(w) /\ hand[w].step = "mutate"
      /\ 1 \in DOMAIN Todo(w) /\ Todo(w) \in Seq(EventRecord)
      /\ hand'[w].todo = Tail(Todo(w))
      /\ hand'[w].step = IF Tail(Todo(w)) = <<>> THEN "finish" ELSE "mutate"
  BY MutateIs
<1>2. PICK todo, rest : todo = Todo(w) /\ rest = Tail(todo)
  OBVIOUS
<1>3. todo \in Seq(EventRecord) /\ todo # <<>>
  BY <1>1, <1>2
<1>4. /\ rest \in Seq(EventRecord) /\ DOMAIN rest = 1 .. Len(todo) - 1
      /\ \A k \in 1 .. Len(todo) - 1 : rest[k] = todo[k + 1]
  BY <1>2, <1>3, TailIs
<1>5. Planned(db, Mine(w), todo)
  BY <1>1, <1>2 DEF Base, FitsIn, Mine, Todo
<1>6. ASSUME rest # <<>>
      PROVE  rest[1] = todo[2] /\ rest[1].type = "clock.contradiction"
  <2>1. 1 \in DOMAIN rest /\ rest[1] = todo[2] /\ 2 \in DOMAIN todo
    BY <1>3, <1>4, <1>6
  <2> QED
    BY <1>5, <2>1 DEF Planned
<1>7. Len(todo) = 2 => rest # <<>>
  BY <1>3, <1>4
<1> QED
  BY <1>1, <1>2, <1>6, <1>7 DEF ReadBy

\* A request is not read twice.
LEMMA MutateOnce ==
  ASSUME Base, OnTime, Once, NEW w \in Executor, Mutate(w), OnMain(w),
         NEW r, Gains(db, db', r), Alike(Todo(w)[1], r)
  PROVE  Once'
<1>1. PICK n, u, v : n = Len(db.log) + 1 /\ u = db.world[Main] /\ v = db'.world[Main]
  OBVIOUS
<1>2. r.cause = Mine(w) /\ Mutated(db, db', r, n, u, v)
  BY <1>1, MutateOnTime
<1>3. /\ hand'[w].request = Mine(w) /\ hand[w].step = "mutate"
      /\ \A x \in Executor \ {w} : hand'[x] = hand[x]
      /\ Asked(db, Mine(w), Todo(w)[1])
  BY MutateIs
<1>4. ReadBy(hand'[w]) /\ hand'[w].step \in {"finish", "mutate"}
  BY MutateReads
<1>5. leases' = leases /\ done' = done
  BY DEF Mutate
<1>6. \A x \in Executor : GoesOn(hand[x], hand'[x])
  <2>1. GoesOn(hand[w], hand'[w])
    BY <1>3, <1>4 DEF GoesOn, Mine
  <2>2. \A x \in Executor \ {w} : GoesOn(hand[x], hand'[x])
    BY <1>3 DEF GoesOn
  <2> QED
    BY <2>1, <2>2
<1>7. Unanswered'
  <2>1. r.type # "tool.result"
    BY <1>3 DEF Alike, Asked, Mutations
  <2>2. \A x \in Executor : Busy(hand'[x]) =>
          Busy(hand[x]) /\ hand'[x].request = hand[x].request
    BY <1>3, <1>4 DEF Busy, Mine
  <2>3. Unanswered
    BY DEF Once
  <2> QED
    BY <2>1, <2>2, <2>3, UnansweredStays
<1>8. LeasesHeld' /\ Unsettled'
  BY <1>5, <1>6, HandsGoOn DEF Once, Base
<1>9. CASE r.type \notin Readings
  <2>1. OwnReadings(db') = OwnReadings(db) /\ \A e \in OwnReadings(db) : db'.log[e] = db.log[e]
    BY <1>2, <1>9 DEF Mutated
  <2> QED
    BY <1>5, <1>6, <1>7, <2>1, OnceGoesOn
<1>10. CASE r.type \in Readings
  <2>1. /\ OwnReadings(db') = OwnReadings(db) \cup {n} /\ db'.log[n] = r
        /\ \A e \in OwnReadings(db) : db'.log[e] = db.log[e] /\ e # n
    BY <1>2, <1>10 DEF Mutated
  <2>2. ASSUME NEW e \in OwnReadings(db'), db'.log[e].cause \notin done
        PROVE  \E x \in Executor : /\ hand'[x].step # "idle" /\ ReadBy(hand'[x])
                                   /\ hand'[x].request = db'.log[e].cause
    <3>1. CASE e = n
      BY <1>2, <1>3, <1>4, <2>1, <3>1
    <3>2. CASE e # n
      <4>1. e \in OwnReadings(db) /\ db'.log[e] = db.log[e]
        BY <2>1, <2>2, <3>2
      <4>2. PICK x \in Executor : Working(x) /\ Mine(x) = db.log[e].cause /\ ReadBy(hand[x])
        BY <2>2, <4>1 DEF Once, Covered
      <4> QED
        BY <1>6, <4>1, <4>2 DEF GoesOn, Working, At, Mine
    <3> QED
      BY <3>1, <3>2
  <2>3. Covered'
    BY <1>5, <2>2 DEF Covered, Working, At, Mine
  <2>4. \A e \in OwnReadings(db) : db.log[e].cause # Mine(w)
    <3>1. SUFFICES ASSUME NEW e \in OwnReadings(db), db.log[e].cause = Mine(w) PROVE FALSE
      OBVIOUS
    <3>2. Working(w)
      BY DEF OnMain
    <3>3. Mine(w) \notin done
      BY <3>2 DEF Once, Unsettled
    <3>4. PICK x \in Executor : Working(x) /\ Mine(x) = Mine(w) /\ ReadBy(hand[x])
      BY <3>1, <3>3 DEF Once, Covered
    <3>5. x = w
      BY <3>2, <3>4, OneIsAtWork DEF OnTime
    <3>6. Todo(w)[1].type = "clock.contradiction"
      BY <1>3, <3>4, <3>5 DEF ReadBy, Todo
    <3> QED
      BY <1>10, <3>6 DEF Alike, Readings
  <2>5. ReadOnce'
    BY <1>2, <2>1, <2>4 DEF Once, ReadOnce
  <2> QED
    BY <1>7, <1>8, <2>3, <2>5 DEF Once
<1> QED
  BY <1>9, <1>10

\* A reading that differs is contradicted.
LEMMA MutateDue ==
  ASSUME Base, OnTime, ConflictsDue, NEW w \in Executor, Mutate(w), OnMain(w),
         NEW r, Gains(db, db', r), Alike(Todo(w)[1], r)
  PROVE  ConflictsDue'
<1>1. PICK n, u, v : n = Len(db.log) + 1 /\ u = db.world[Main] /\ v = db'.world[Main]
  OBVIOUS
<1>2. InTime(u, Todo(w)) /\ r.cause = Mine(w) /\ Mutated(db, db', r, n, u, v)
  BY <1>1, MutateOnTime
<1>3. /\ hand'[w].request = Mine(w) /\ hand[w].step = "mutate"
      /\ \A x \in Executor \ {w} : hand'[x] = hand[x]
      /\ Asked(db, Mine(w), Todo(w)[1])
  BY MutateIs
<1>4. /\ hand'[w].step = "mutate" => hand'[w].todo[1] = Todo(w)[2]
      /\ Len(Todo(w)) = 2 => hand'[w].step = "mutate"
  BY MutateReads
<1>5. PICK todo, first : todo = Todo(w) /\ first = todo[1]
  OBVIOUS
<1>6. /\ r.type = first.type /\ r.name = first.name /\ r.n = first.n /\ r.prior = first.prior
      /\ r.op = first.op /\ r.value = first.value /\ r \in EventRecord /\ NameFits(r)
  BY <1>3, <1>5 DEF Alike, Gains, Suits
<1>7. \A e \in Event(db) : db'.log[e] = db.log[e]
  BY <1>1, GainIs DEF Base
<1>8. \A x \in u.revisions : /\ x.event \in Event(db) /\ x = RevisionOf(x.event, db.log[x.event])
                             /\ x.n \in Nat
  <2>1. \A x \in u.revisions : x.event \in Event(db) /\ x = RevisionOf(x.event, db.log[x.event])
    BY <1>1 DEF OnTime, Timely, Accounted, OwnReadings, Own
  <2>2. u \in SoundWorlds
    BY <1>1, BranchesAre, DatabaseIs DEF Base, Sound
  <2>3. u.revisions \in SUBSET Revision
    BY <2>2, WorldIs DEF SoundWorlds
  <2> QED
    BY <2>1, <2>3 DEF Revision
<1>9. Mine(w) \in Event(db) /\ db.log[Mine(w)].branch = Main
  BY MineIs DEF OnMain, Working
\* What was due to another executor still is.
<1>10. ASSUME NEW x \in u.revisions, NEW y \in u.revisions, Differ(x, y), ~ Noted(u, x, y),
              ~ DueTo(db, x, y, hand[w])
       PROVE  \E z \in Executor : DueTo(db', x, y, hand'[z])
  <2>1. PICK z \in Executor : DueTo(db, x, y, hand[z])
    BY <1>1, <1>10, DueIs
  <2>2. z # w /\ hand'[z] = hand[z] /\ hand[z].step = "mutate"
    BY <1>3, <1>10, <2>1 DEF DueTo
  <2>3. hand[z].request \in Event(db)
    BY <2>2 DEF Base, FitsIn
  <2> QED
    BY <1>7, <1>8, <2>1, <2>2, <2>3 DEF DueTo
<1>11. ASSUME r.type \in Readings, NEW x \in v.revisions, NEW y \in v.revisions, Differ(x, y),
              ~ Noted(v, x, y)
       PROVE  \E z \in Executor : DueTo(db', x, y, hand'[z])
  <2>1. PICK new : new = RevisionOf(n, r)
    OBVIOUS
  <2>2. /\ v.revisions = u.revisions \cup {new} /\ v.conflicts = u.conflicts /\ db'.log[n] = r
        /\ \A z \in u.revisions : z.clock = r.name => z.n < r.n
    BY <1>2, <1>11, <2>1 DEF Mutated, Readings
  <2>3. /\ new.clock = r.name /\ new.n = r.n /\ new.value = r.value /\ new.op = r.op
        /\ new.event = n /\ r.n \in Nat
    BY <1>6, <2>1 DEF RevisionOf, EventRecord
  <2>4. CASE x \in u.revisions /\ y \in u.revisions
    <3>1. ~ DueTo(db, x, y, hand[w])
      BY <1>3, <1>5, <1>6, <1>11 DEF DueTo, Contradicts, Readings, Todo
    <3>2. ~ Noted(u, x, y)
      BY <1>11, <2>2 DEF Noted
    <3> QED
      BY <1>10, <1>11, <2>4, <3>1, <3>2
  <2>5. CASE x = new
    <3>1. y.n = r.n + 1 /\ y.clock = r.name
      BY <1>11, <2>3, <2>5 DEF Differ
    <3>2. y # new
      BY <2>3, <3>1
    <3>3. y.n < r.n /\ y.n \in Nat
      BY <1>8, <2>2, <3>1, <3>2
    <3> QED
      BY <2>3, <3>1, <3>3
  <2>6. CASE x \in u.revisions /\ y = new
    <3>1. first.type = "clock.set"
      BY <1>6, <1>11, <2>3, <2>6 DEF Differ, NameFits, Readings
    <3>2. x \in RevisionsOf(u, first.name) /\ x.n + 1 = first.n /\ x.value # first.value
      BY <1>6, <1>11, <2>3, <2>6 DEF Differ, RevisionsOf
    <3>3. Len(todo) = 2 /\ Contradicts(x, first, todo[2])
      BY <1>2, <1>5, <3>1, <3>2 DEF InTime
    <3>4. hand'[w].step = "mutate" /\ hand'[w].todo[1] = todo[2]
      BY <1>4, <1>5, <3>3
    <3>5. Contradicts(x, r, hand'[w].todo[1])
      BY <1>6, <3>3, <3>4 DEF Contradicts
    <3>6. DueTo(db', x, y, hand'[w])
      BY <1>2, <1>3, <1>7, <1>9, <2>2, <2>3, <2>6, <3>4, <3>5 DEF DueTo
    <3> QED
      BY <3>6
  <2> QED
    BY <1>11, <2>2, <2>4, <2>5, <2>6
<1>12. ASSUME r.type \notin Readings, NEW x \in v.revisions, NEW y \in v.revisions,
              Differ(x, y), ~ Noted(v, x, y)
       PROVE  \E z \in Executor : DueTo(db', x, y, hand'[z])
  <2>1. x \in u.revisions /\ y \in u.revisions /\ u.conflicts \subseteq v.conflicts
    BY <1>2, <1>12 DEF Mutated
  <2>2. ~ DueTo(db, x, y, hand[w])
    <3>1. SUFFICES ASSUME DueTo(db, x, y, hand[w]) PROVE FALSE
      OBVIOUS
    <3>2. PICK l : l = db.log[y.event]
      OBVIOUS
    <3>3. /\ r.type = "clock.contradiction" /\ r.name = l.name /\ r.prior = x.n /\ r.n = l.n
      BY <1>5, <1>6, <3>1, <3>2 DEF DueTo, Contradicts, Todo
    <3>4. y.clock = l.name /\ y.n = l.n
      BY <1>8, <2>1, <3>2 DEF RevisionOf
    <3>5. PICK k \in v.conflicts : k = ConflictOf(n, r)
      BY <1>2, <3>3 DEF Mutated
    <3>6. k.clock = x.clock /\ k.prior = x.n /\ k.n = y.n
      BY <1>12, <3>3, <3>4, <3>5 DEF ConflictOf, Differ
    <3> QED
      BY <1>12, <3>6 DEF Noted
  <2>3. ~ Noted(u, x, y)
    BY <1>12, <2>1 DEF Noted
  <2> QED
    BY <1>10, <1>12, <2>1, <2>2, <2>3
<1>13. \A x, y \in db'.world[Main].revisions : Differ(x, y) =>
         \/ Noted(db'.world[Main], x, y)
         \/ \E z \in Executor : DueTo(db', x, y, hand'[z])
  BY <1>1, <1>11, <1>12
<1> QED
  BY <1>13 DEF ConflictsDue, DueTo, Differ, Noted, OnMain, Working, At, Mine, Todo

-----------------------------------------------------------------------------
(* Every step *)

Story ==
  /\ Base
  /\ overdue = 0 => OnTime
  /\ overdue = 0 /\ faults = 0 => Once /\ ConflictsDue

\* What is appended to the worlds of other branches, or to none.
LEMMA GainStory ==
  ASSUME Story, Base', NEW r, Gains(db, db', r), r.branch # Main \/ r.type \notin Mutations,
         leases' = leases, done' = done, faults' = faults, overdue' = overdue,
         \A v \in Executor :
           \/ hand'[v] = hand[v]
           \/ /\ hand[v].step # "idle" /\ hand'[v].request = hand[v].request
              /\ \/ hand[v].step # "mutate" /\ hand'[v].step # "mutate"
                 \/ db.log[hand[v].request].branch # Main,
         \A v \in Executor : GoesOn(hand[v], hand'[v]),
         OnTime => \A v \in Executor : Busy(hand'[v]) =>
                     /\ Busy(hand[v]) /\ hand'[v].request = hand[v].request
                     /\ r.type = "tool.result" => r.cause # hand[v].request
  PROVE  Story'
<1>1. Base
  BY DEF Story
<1>2. \A e \in Event(db) : db'.log[e] = db.log[e]
  <2>1. PICK n : n = Len(db.log) + 1
    OBVIOUS
  <2> QED
    BY <1>1, <2>1, GainIs DEF Base
<1>3. ASSUME OnTime
      PROVE  /\ OnTime' /\ db'.world[Main] = db.world[Main]
             /\ OwnReadings(db') = OwnReadings(db)
             /\ \A e \in OwnReadings(db) : db'.log[e] = db.log[e]
  <2>1. \A v \in Executor :
          \/ hand'[v] = hand[v]
          \/ /\ hand[v].step # "idle" /\ hand'[v].request = hand[v].request
             /\ hand'[v].step # "mutate" \/ db.log[hand[v].request].branch # Main
    OBVIOUS
  <2> QED
    BY <1>1, <1>3, <2>1, GainOnTime
<1>4. ASSUME OnTime, Once
      PROVE  Once'
  <2>1. Unanswered'
    BY <1>1, <1>4, UnansweredStays DEF Once
  <2> QED
    BY <1>1, <1>3, <1>4, <2>1, OnceGoesOn
<1>5. ASSUME OnTime, ConflictsDue
      PROVE  ConflictsDue'
  <2>1. \A v \in Executor :
          \/ hand'[v] = hand[v] \/ hand[v].step # "mutate"
          \/ db.log[hand[v].request].branch # Main
    OBVIOUS
  <2> QED
    BY <1>1, <1>2, <1>3, <1>5, <2>1, DueStays
<1> QED
  BY <1>3, <1>4, <1>5 DEF Story

LEMMA HappensStory ==
  ASSUME Story, NEW x \in EventRecord, Suits(db, x), Grounds(db, x), Happens(x),
         x.type \in {"mention", "tool.request", "session.forked"}
  PROVE  Story'
<1>1. Base
  BY DEF Story
<1>2. Base'
  BY <1>1, HappensKeepsBase
<1>3. PICK r : Gains(db, db', r) /\ Alike(x, r)
  BY <1>1, GainsIs DEF Happens
<1>4. r.type \notin Mutations /\ r.type # "tool.result"
  BY <1>3 DEF Alike, Mutations
<1>5. leases' = leases /\ done' = done /\ faults' = faults /\ overdue' = overdue /\ hand' = hand
  BY DEF Happens
<1>6. \A v \in Executor : GoesOn(hand[v], hand'[v])
  BY <1>5 DEF GoesOn
<1>7. \A v \in Executor : Busy(hand'[v]) =>
        /\ Busy(hand[v]) /\ hand'[v].request = hand[v].request
        /\ r.type = "tool.result" => r.cause # hand[v].request
  BY <1>4, <1>5
<1>8. \A v \in Executor :
        \/ hand'[v] = hand[v]
        \/ /\ hand[v].step # "idle" /\ hand'[v].request = hand[v].request
           /\ \/ hand[v].step # "mutate" /\ hand'[v].step # "mutate"
              \/ db.log[hand[v].request].branch # Main
  BY <1>5
<1> QED
  BY <1>2, <1>3, <1>4, <1>5, <1>6, <1>7, <1>8, GainStory

LEMMA StartStory == ASSUME Story, NEW w \in Executor, Start(w) PROVE Story'
<1>1. Base
  BY DEF Story
<1>2. /\ Base' /\ hand'[w].step = "hydrate" /\ hand'[w].request = Mine(w)
      /\ \A v \in Executor \ {w} : hand'[v] = hand[v]
  BY <1>1, StartIs
<1>3. PICK r : Gains(db, db', r) /\ r.type = "tool.started"
  BY <1>1, StartIs
<1>4. r.type \notin Mutations /\ r.type # "tool.result"
  BY <1>3 DEF Mutations
<1>5. hand[w].step = "start"
  BY DEF Start, At
<1>6. leases' = leases /\ done' = done /\ faults' = faults /\ overdue' = overdue
  BY DEF Start
<1>7. \A v \in Executor :
        \/ hand'[v] = hand[v]
        \/ /\ hand[v].step # "idle" /\ hand'[v].request = hand[v].request
           /\ \/ hand[v].step # "mutate" /\ hand'[v].step # "mutate"
              \/ db.log[hand[v].request].branch # Main
  BY <1>2, <1>5 DEF Mine
<1>8. \A v \in Executor : GoesOn(hand[v], hand'[v])
  BY <1>2, <1>5 DEF GoesOn, Mine, ReadBy
<1>9. \A v \in Executor : Busy(hand'[v]) =>
        /\ Busy(hand[v]) /\ hand'[v].request = hand[v].request
        /\ r.type = "tool.result" => r.cause # hand[v].request
  BY <1>2, <1>4, <1>5 DEF Busy, Mine
<1> QED
  BY <1>2, <1>3, <1>4, <1>6, <1>7, <1>8, <1>9, GainStory

LEMMA FinishStory == ASSUME Story, NEW w \in Executor, Finish(w) PROVE Story'
<1>1. Base
  BY DEF Story
<1>2. /\ Base' /\ hand'[w].step = "settle" /\ hand'[w].request = Mine(w)
      /\ \A v \in Executor \ {w} : hand'[v] = hand[v]
  BY <1>1, FinishIs
<1>3. PICK r : Gains(db, db', r) /\ r.type = "tool.result" /\ r.cause = Mine(w)
  BY <1>1, FinishIs
<1>4. r.type \notin Mutations
  BY <1>3 DEF Mutations
<1>5. hand[w].step = "finish"
  BY DEF Finish, At
<1>6. leases' = leases /\ done' = done /\ faults' = faults /\ overdue' = overdue
  BY DEF Finish
<1>7. \A v \in Executor :
        \/ hand'[v] = hand[v]
        \/ /\ hand[v].step # "idle" /\ hand'[v].request = hand[v].request
           /\ \/ hand[v].step # "mutate" /\ hand'[v].step # "mutate"
              \/ db.log[hand[v].request].branch # Main
  BY <1>2, <1>5 DEF Mine
<1>8. \A v \in Executor : GoesOn(hand[v], hand'[v])
  BY <1>2, <1>5 DEF GoesOn, Mine, ReadBy
<1>9. ASSUME OnTime, NEW v \in Executor, Busy(hand'[v])
      PROVE  /\ Busy(hand[v]) /\ hand'[v].request = hand[v].request
             /\ r.type = "tool.result" => r.cause # hand[v].request
  <2>1. v # w
    BY <1>2, <1>9 DEF Busy
  <2>2. hand'[v] = hand[v] /\ Working(v) /\ Working(w)
    BY <1>2, <1>5, <1>9, <2>1 DEF Busy, Working, At
  <2>3. Mine(v) # Mine(w)
    BY <1>1, <1>9, <2>1, <2>2, OneIsAtWork DEF OnTime
  <2> QED
    BY <1>3, <1>9, <2>2, <2>3 DEF Mine
<1>10. OnTime => \A v \in Executor : Busy(hand'[v]) =>
                   /\ Busy(hand[v]) /\ hand'[v].request = hand[v].request
                   /\ r.type = "tool.result" => r.cause # hand[v].request
  BY <1>9
<1> QED
  BY <1>2, <1>3, <1>4, <1>6, <1>7, <1>8, <1>10, GainStory

LEMMA MutateStory == ASSUME Story, NEW w \in Executor, Mutate(w) PROVE Story'
<1>1. Base
  BY DEF Story
<1>2. /\ Base' /\ hand'[w].request = Mine(w) /\ hand[w].step = "mutate"
      /\ \A v \in Executor \ {w} : hand'[v] = hand[v]
      /\ Asked(db, Mine(w), Todo(w)[1])
  BY <1>1, MutateIs
<1>3. PICK r : Gains(db, db', r) /\ Alike(Todo(w)[1], r)
  BY <1>1, MutateIs
<1>4. leases' = leases /\ done' = done /\ faults' = faults /\ overdue' = overdue
  BY DEF Mutate
<1>5. ReadBy(hand'[w]) /\ hand'[w].step \in {"finish", "mutate"}
  BY <1>1, MutateReads
<1>6. Working(w)
  BY <1>2 DEF Working, At
<1>7. CASE OnMain(w)
  <2>1. PICK n, u, v : n = Len(db.log) + 1 /\ u = db.world[Main] /\ v = db'.world[Main]
    OBVIOUS
  <2>2. OnTime => OnTime'
    BY <1>1, <1>3, <1>7, <2>1, MutateOnTime
  <2>3. OnTime /\ Once => Once'
    BY <1>1, <1>3, <1>7, MutateOnce
  <2>4. OnTime /\ ConflictsDue => ConflictsDue'
    BY <1>1, <1>3, <1>7, MutateDue
  <2> QED
    BY <1>2, <1>4, <2>2, <2>3, <2>4 DEF Story
<1>8. CASE ~ OnMain(w)
  <2>1. db.log[hand[w].request].branch # Main /\ r.branch # Main
    BY <1>2, <1>3, <1>6, <1>8 DEF OnMain, Mine, Asked, Alike
  <2>2. r.type # "tool.result"
    BY <1>2, <1>3 DEF Asked, Alike, Mutations
  <2>3. \A v \in Executor :
          \/ hand'[v] = hand[v]
          \/ /\ hand[v].step # "idle" /\ hand'[v].request = hand[v].request
             /\ \/ hand[v].step # "mutate" /\ hand'[v].step # "mutate"
                \/ db.log[hand[v].request].branch # Main
    BY <1>2, <2>1 DEF Mine
  <2>4. \A v \in Executor : GoesOn(hand[v], hand'[v])
    <3>1. GoesOn(hand[w], hand'[w])
      BY <1>2, <1>5 DEF GoesOn, Mine
    <3>2. \A v \in Executor \ {w} : GoesOn(hand[v], hand'[v])
      BY <1>2 DEF GoesOn
    <3> QED
      BY <3>1, <3>2
  <2>5. \A v \in Executor : Busy(hand'[v]) =>
          /\ Busy(hand[v]) /\ hand'[v].request = hand[v].request
          /\ r.type = "tool.result" => r.cause # hand[v].request
    BY <1>2, <2>2 DEF Busy, Mine
  <2> QED
    BY <1>2, <1>3, <1>4, <2>1, <2>3, <2>4, <2>5, GainStory
<1> QED
  BY <1>7, <1>8

LEMMA TakeJobStory ==
  ASSUME Story, NEW w \in Executor, NEW q \in OfType("tool.request"), TakeJob(w, q)
  PROVE  Story'
<1>1. Base
  BY DEF Story
<1>2. /\ Base' /\ hand'[w].step = "look" /\ hand'[w].request = q
      /\ \A v \in Executor \ {w} : hand'[v] = hand[v]
  BY <1>1, TakeJobIs
<1>3. /\ hand[w].step = "idle" /\ q \notin done /\ \A lease \in leases : lease[1] # w
      /\ leases' = leases \cup {<<w, q>>}
      /\ db' = db /\ done' = done /\ faults' = faults /\ overdue' = overdue
  BY DEF TakeJob, At
<1>4. ASSUME OnTime
      PROVE  OnTime'
  <2>1. \A v \in Executor : hand'[v].step # "idle" => <<v, hand'[v].request>> \in leases'
    BY <1>2, <1>3, <1>4 DEF OnTime, Leased, Working, At, Mine
  <2>2. \A v \in Executor :
          \/ hand'[v] = hand[v] \/ hand'[v].step # "mutate"
          \/ db.log[hand'[v].request].branch = Main => InTime(db.world[Main], hand'[v].todo)
    BY <1>2
  <2> QED
    BY <1>3, <1>4, <2>1, <2>2, StillOnTime
<1>5. ASSUME Once
      PROVE  Once'
  <2>1. LeasesHeld'
    <3>1. \A lease \in leases : lease[1] \in Executor
      BY <1>1 DEF Base
    <3>2. \A lease \in leases : hand'[lease[1]] = hand[lease[1]]
      BY <1>2, <1>3, <3>1
    <3>3. \A lease \in leases : hand[lease[1]].step # "idle" /\ hand[lease[1]].request = lease[2]
      BY <1>5 DEF Once, LeasesHeld, Working, At, Mine
    <3> QED
      BY <1>2, <1>3, <3>2, <3>3 DEF LeasesHeld, Working, At, Mine
  <2>2. Unsettled'
    BY <1>2, <1>3, <1>5 DEF Once, Unsettled, Working, At, Mine
  <2>3. Unanswered'
    BY <1>2, <1>3, <1>5 DEF Once, Unanswered, Busy, Mine
  <2>4. Covered'
    <3>1. ASSUME NEW e \in OwnReadings(db), db.log[e].cause \notin done
          PROVE  \E x \in Executor : /\ hand'[x].step # "idle" /\ ReadBy(hand'[x])
                                     /\ hand'[x].request = db.log[e].cause
      <4>1. PICK x \in Executor : Working(x) /\ Mine(x) = db.log[e].cause /\ ReadBy(hand[x])
        BY <1>5, <3>1 DEF Once, Covered
      <4>2. hand'[x] = hand[x]
        BY <1>2, <1>3, <4>1 DEF Working, At
      <4> QED
        BY <4>1, <4>2 DEF Working, At, Mine
    <3> QED
      BY <1>3, <3>1 DEF Covered, Working, At, Mine
  <2>5. ReadOnce'
    BY <1>3, <1>5 DEF Once, ReadOnce
  <2> QED
    BY <2>1, <2>2, <2>3, <2>4, <2>5 DEF Once
<1>6. ASSUME OnTime, ConflictsDue
      PROVE  ConflictsDue'
  <2>1. \A v \in Executor :
          \/ hand'[v] = hand[v] \/ hand[v].step # "mutate"
          \/ db.log[hand[v].request].branch # Main
    BY <1>2, <1>3
  <2> QED
    BY <1>1, <1>3, <1>6, <2>1, DueStays
<1> QED
  BY <1>2, <1>3, <1>4, <1>5, <1>6 DEF Story

LEMMA ExpireStory ==
  ASSUME Story, NEW w \in Executor, NEW q \in OfType("tool.request"), Expire(w, q)
  PROVE  Story'
<1>1. Base
  BY DEF Story
<1>2. Base'
  BY <1>1, ExpireIs
<1>3. /\ <<w, q>> \in leases /\ leases' = leases \ {<<w, q>>}
      /\ db' = db /\ done' = done /\ hand' = hand /\ faults' = faults
  BY DEF Expire
<1>4. CASE Mine(w) = q
  <2>1. overdue' = overdue + 1 /\ overdue \in Nat
    BY <1>1, <1>4 DEF Expire, Base, Counted
  <2> QED
    BY <1>2, <2>1 DEF Story
<1>5. CASE Mine(w) # q
  <2>1. overdue' = overdue
    BY <1>5 DEF Expire
  <2>2. ~ LeasesHeld
    <3>1. SUFFICES ASSUME LeasesHeld PROVE FALSE
      OBVIOUS
    <3>2. PICK lease \in leases : lease[1] = w /\ lease[2] = q
      BY <1>3
    <3> QED
      BY <1>5, <3>1, <3>2 DEF LeasesHeld
  <2>3. ASSUME OnTime
        PROVE  OnTime'
    <3>1. \A v \in Executor : hand'[v].step # "idle" => <<v, hand'[v].request>> \in leases'
      BY <1>3, <1>5, <2>3 DEF OnTime, Leased, Working, At, Mine
    <3>2. \A v \in Executor :
            \/ hand'[v] = hand[v] \/ hand'[v].step # "mutate"
            \/ db.log[hand'[v].request].branch = Main => InTime(db.world[Main], hand'[v].todo)
      BY <1>3
    <3> QED
      BY <1>3, <2>3, <3>1, <3>2, StillOnTime
  <2> QED
    BY <1>2, <1>3, <2>1, <2>2, <2>3 DEF Story, Once
<1> QED
  BY <1>4, <1>5

\* A step of executor w that goes on with its request and appends nothing.
LEMMA StillStory ==
  ASSUME Story, Base', db' = db, leases' = leases, done' = done, faults' = faults,
         overdue' = overdue, NEW w \in Executor,
         \A v \in Executor \ {w} : hand'[v] = hand[v],
         hand[w].step \notin {"idle", "mutate"}, GoesOn(hand[w], hand'[w]),
         Busy(hand'[w]) => Busy(hand[w]) \/ ResultsIn(db, Mine(w)) = {},
         (/\ OnTime /\ hand'[w].step = "mutate"
          /\ db.log[Mine(w)].branch = Main) => InTime(db.world[Main], hand'[w].todo)
  PROVE  Story'
<1>1. Base
  BY DEF Story
<1>2. hand'[w].request = Mine(w) /\ hand'[w].step # "idle"
  BY DEF GoesOn, Mine
<1>3. ASSUME OnTime
      PROVE  OnTime'
  <2>1. \A v \in Executor : hand'[v].step # "idle" => <<v, hand'[v].request>> \in leases'
    BY <1>2, <1>3 DEF OnTime, Leased, Working, At, Mine
  <2>2. \A v \in Executor :
          \/ hand'[v] = hand[v] \/ hand'[v].step # "mutate"
          \/ db.log[hand'[v].request].branch = Main => InTime(db.world[Main], hand'[v].todo)
    BY <1>2, <1>3
  <2> QED
    BY <1>3, <2>1, <2>2, StillOnTime
<1>4. ASSUME Once
      PROVE  Once'
  <2>1. Unanswered'
    <3>1. ASSUME NEW v \in Executor, Busy(hand'[v])
          PROVE  ResultsIn(db, hand'[v].request) = {}
      <4>1. CASE v = w
        BY <1>2, <1>4, <3>1, <4>1 DEF Once, Unanswered
      <4>2. CASE v # w
        BY <1>4, <3>1, <4>2 DEF Once, Unanswered, Mine
      <4> QED
        BY <4>1, <4>2
    <3> QED
      BY <3>1 DEF Unanswered, Mine
  <2>2. \A v \in Executor : GoesOn(hand[v], hand'[v])
    <3>1. \A v \in Executor \ {w} : GoesOn(hand[v], hand'[v])
      BY DEF GoesOn
    <3> QED
      BY <3>1
  <2>3. OwnReadings(db') = OwnReadings(db) /\ \A e \in OwnReadings(db) : db'.log[e] = db.log[e]
    OBVIOUS
  <2> QED
    BY <1>1, <1>4, <2>1, <2>2, <2>3, OnceGoesOn
<1>5. ASSUME OnTime, ConflictsDue
      PROVE  ConflictsDue'
  <2>1. \A v \in Executor :
          \/ hand'[v] = hand[v] \/ hand[v].step # "mutate"
          \/ db.log[hand[v].request].branch # Main
    OBVIOUS
  <2> QED
    BY <1>1, <1>5, <2>1, DueStays
<1> QED
  BY <1>3, <1>4, <1>5 DEF Story

LEMMA LookStory == ASSUME Story, NEW w \in Executor, Look(w) PROVE Story'
<1>1. Base
  BY DEF Story
<1>2. /\ Base' /\ hand'[w].request = Mine(w)
      /\ hand'[w].step = IF Results(Mine(w)) = {} THEN "start" ELSE "settle"
      /\ \A v \in Executor \ {w} : hand'[v] = hand[v]
  BY <1>1, LookIs
<1>3. /\ hand[w].step = "look" /\ db' = db /\ leases' = leases /\ done' = done
      /\ faults' = faults /\ overdue' = overdue
  BY DEF Look, At
<1>4. GoesOn(hand[w], hand'[w])
  BY <1>2, <1>3 DEF GoesOn, Mine, ReadBy
<1>5. Busy(hand'[w]) => ResultsIn(db, Mine(w)) = {}
  <2>1. Results(Mine(w)) = ResultsIn(db, Mine(w))
    BY DEF Results, OfType, ResultsIn
  <2> QED
    BY <1>2, <2>1 DEF Busy
<1>6. hand'[w].step # "mutate"
  BY <1>2
<1> QED
  BY <1>2, <1>3, <1>4, <1>5, <1>6, StillStory

LEMMA HydrateStory == ASSUME Story, NEW w \in Executor, Hydrate(w) PROVE Story'
<1>1. Base
  BY DEF Story
<1>2. /\ Base' /\ hand'[w].request = Mine(w) /\ hand'[w].step \in {"finish", "mutate"}
      /\ \A v \in Executor \ {w} : hand'[v] = hand[v]
      /\ \A world : (/\ world = db.world[db.log[Mine(w)].branch] /\ Numbered(world)
                     /\ hand'[w].step = "mutate") => InTime(world, hand'[w].todo)
  BY <1>1, HydrateIs
<1>3. /\ hand[w].step = "hydrate" /\ db' = db /\ leases' = leases /\ done' = done
      /\ faults' = faults /\ overdue' = overdue
  BY DEF Hydrate, At
<1>4. GoesOn(hand[w], hand'[w])
  BY <1>2, <1>3 DEF GoesOn, Mine, ReadBy
<1>5. Busy(hand[w])
  BY <1>3 DEF Busy
<1>6. (/\ OnTime /\ hand'[w].step = "mutate"
       /\ db.log[Mine(w)].branch = Main) => InTime(db.world[Main], hand'[w].todo)
  BY <1>2 DEF OnTime, Timely
<1> QED
  BY <1>2, <1>3, <1>4, <1>5, <1>6, StillStory

LEMMA SettleStory == ASSUME Story, NEW w \in Executor, Settle(w) PROVE Story'
<1>1. Base
  BY DEF Story
<1>2. /\ Base' /\ hand'[w].step = "idle" /\ Working(w)
      /\ \A v \in Executor \ {w} : hand'[v] = hand[v]
  BY <1>1, SettleIs DEF Working
<1>3. /\ hand[w].step = "settle" /\ db' = db /\ leases' = leases \ {<<w, Mine(w)>>}
      /\ done' = IF <<w, Mine(w)>> \in leases THEN done \cup {Mine(w)} ELSE done
      /\ faults' = faults /\ overdue' = overdue
  BY DEF Settle, At
<1>4. ASSUME OnTime
      PROVE  OnTime'
  <2>1. \A v \in Executor : hand'[v].step # "idle" => <<v, hand'[v].request>> \in leases'
    BY <1>2, <1>3, <1>4 DEF OnTime, Leased, Working, At, Mine
  <2>2. \A v \in Executor :
          \/ hand'[v] = hand[v] \/ hand'[v].step # "mutate"
          \/ db.log[hand'[v].request].branch = Main => InTime(db.world[Main], hand'[v].todo)
    BY <1>2
  <2> QED
    BY <1>3, <1>4, <2>1, <2>2, StillOnTime
<1>5. ASSUME OnTime, Once
      PROVE  Once'
  <2>1. done' = done \cup {Mine(w)}
    BY <1>2, <1>3, <1>5 DEF OnTime, Leased
  <2>2. LeasesHeld'
    <3>1. ASSUME NEW lease \in leases'
          PROVE  /\ hand'[lease[1]] = hand[lease[1]] /\ hand[lease[1]].step # "idle"
                 /\ hand[lease[1]].request = lease[2]
      <4>1. /\ lease \in leases /\ lease # <<w, Mine(w)>> /\ lease = <<lease[1], lease[2]>>
            /\ lease[1] \in Executor
        BY <1>1, <1>3, <3>1 DEF Base
      <4>2. hand[lease[1]].step # "idle" /\ hand[lease[1]].request = lease[2]
        BY <1>5, <4>1 DEF Once, LeasesHeld, Working, At, Mine
      <4>3. lease[1] # w
        BY <4>1, <4>2 DEF Mine
      <4> QED
        BY <1>2, <4>1, <4>2, <4>3
    <3> QED
      BY <3>1 DEF LeasesHeld, Working, At, Mine
  <2>3. Unsettled'
    <3>1. ASSUME NEW v \in Executor, hand'[v].step # "idle"
          PROVE  hand'[v].request \notin done'
      <4>1. v # w /\ hand'[v] = hand[v] /\ Working(v)
        BY <1>2, <3>1 DEF Working, At
      <4>2. Mine(v) # Mine(w)
        BY <1>1, <1>2, <1>5, <4>1, OneIsAtWork DEF OnTime
      <4>3. Mine(v) \notin done
        BY <1>5, <4>1 DEF Once, Unsettled
      <4> QED
        BY <2>1, <4>1, <4>2, <4>3 DEF Mine
    <3> QED
      BY <3>1 DEF Unsettled, Working, At, Mine
  <2>4. Unanswered'
    BY <1>2, <1>3, <1>5 DEF Once, Unanswered, Busy, Mine
  <2>5. Covered'
    <3>1. ASSUME NEW e \in OwnReadings(db), db.log[e].cause \notin done'
          PROVE  \E x \in Executor : /\ hand'[x].step # "idle" /\ ReadBy(hand'[x])
                                     /\ hand'[x].request = db.log[e].cause
      <4>1. PICK x \in Executor : Working(x) /\ Mine(x) = db.log[e].cause /\ ReadBy(hand[x])
        BY <1>5, <2>1, <3>1 DEF Once, Covered
      <4>2. hand'[x] = hand[x]
        BY <1>2, <2>1, <3>1, <4>1
      <4> QED
        BY <4>1, <4>2 DEF Working, At, Mine
    <3> QED
      BY <1>3, <3>1 DEF Covered, Working, At, Mine
  <2>6. ReadOnce'
    BY <1>3, <1>5 DEF Once, ReadOnce
  <2> QED
    BY <2>2, <2>3, <2>4, <2>5, <2>6 DEF Once
<1>6. ASSUME OnTime, ConflictsDue
      PROVE  ConflictsDue'
  <2>1. \A v \in Executor :
          \/ hand'[v] = hand[v] \/ hand[v].step # "mutate"
          \/ db.log[hand[v].request].branch # Main
    BY <1>2, <1>3
  <2> QED
    BY <1>1, <1>3, <1>6, <2>1, DueStays
<1> QED
  BY <1>2, <1>3, <1>4, <1>5, <1>6 DEF Story

LEMMA DieStory == ASSUME Story, NEW w \in Executor, Die(w) PROVE Story'
<1>1. Base
  BY DEF Story
<1>2. /\ Base' /\ hand'[w].step = "idle" /\ faults' = faults + 1 /\ faults \in Nat
      /\ \A v \in Executor \ {w} : hand'[v] = hand[v]
  BY <1>1, DieIs
<1>3. db' = db /\ leases' = leases /\ overdue' = overdue
  BY DEF Die
<1>4. ASSUME OnTime
      PROVE  OnTime'
  <2>1. \A v \in Executor : hand'[v].step # "idle" => <<v, hand'[v].request>> \in leases'
    BY <1>2, <1>3, <1>4 DEF OnTime, Leased, Working, At, Mine
  <2>2. \A v \in Executor :
          \/ hand'[v] = hand[v] \/ hand'[v].step # "mutate"
          \/ db.log[hand'[v].request].branch = Main => InTime(db.world[Main], hand'[v].todo)
    BY <1>2
  <2> QED
    BY <1>3, <1>4, <2>1, <2>2, StillOnTime
<1> QED
  BY <1>2, <1>3, <1>4 DEF Story

LEMMA StoryNext == Story /\ [WorldNext]_worldVars => Story'
<1>1. SUFFICES ASSUME Story, [WorldNext]_worldVars PROVE Story'
  OBVIOUS
<1>2. Base
  BY <1>1 DEF Story
<1>3. ASSUME NEW b \in Branches, NEW p \in Path, Mention(b, p)
      PROVE  Story'
  BY <1>1, <1>2, <1>3, MentionIs, HappensStory
<1>4. ASSUME NEW b \in Branches, NEW command \in Commands, RequestTool(b, command)
      PROVE  Story'
  BY <1>1, <1>2, <1>4, RequestToolIs, HappensStory
<1>5. ASSUME NEW e \in Event(db), NEW b \in Branch, Fork(e, b)
      PROVE  Story'
  BY <1>1, <1>2, <1>5, ForkIs, HappensStory
<1>6. ASSUME NEW w \in Executor, NEW q \in OfType("tool.request"),
             TakeJob(w, q) \/ Expire(w, q)
      PROVE  Story'
  BY <1>1, <1>6, TakeJobStory, ExpireStory
<1>7. ASSUME NEW w \in Executor,
             \/ Look(w) \/ Start(w) \/ Hydrate(w) \/ Mutate(w) \/ Finish(w) \/ Settle(w)
             \/ Die(w)
      PROVE  Story'
  BY <1>1, <1>7, LookStory, StartStory, HydrateStory, MutateStory, FinishStory, SettleStory,
     DieStory
<1>8. CASE UNCHANGED worldVars
  <2>1. /\ db' = db /\ leases' = leases /\ done' = done /\ hand' = hand
        /\ appends' = appends /\ faults' = faults /\ overdue' = overdue
    BY <1>8 DEF worldVars
  <2>2. Base'
    BY <1>2, <2>1 DEF Base, Counted, LeasesApart, OfType
  <2>3. OnTime => OnTime'
    BY <2>1 DEF OnTime, Leased, PlansFit, OnMain, Working, At, Mine, Todo
  <2>4. Once => Once'
    BY <2>1 DEF Once, LeasesHeld, Unsettled, Unanswered, Covered, ReadOnce, Working, At, Mine
  <2>5. OnTime /\ ConflictsDue => ConflictsDue'
    BY <1>2, <2>1, DueStays
  <2> QED
    BY <1>1, <2>1, <2>2, <2>3, <2>4, <2>5 DEF Story
<1> QED
  BY <1>1, <1>3, <1>4, <1>5, <1>6, <1>7, <1>8 DEF WorldNext

-----------------------------------------------------------------------------
(* The histories there are at first *)

LEMMA NineIs ==
  ASSUME NEW S, NEW a \in S, NEW b \in S, NEW c \in S, NEW d \in S, NEW e \in S, NEW f \in S,
         NEW g \in S, NEW h \in S, NEW i \in S, NEW w,
         w = <<a, b, c>> \o <<d, e, f>> \o <<g, h, i>>
  PROVE  /\ w \in Seq(S) /\ Len(w) = 9
         /\ w[1] = a /\ w[2] = b /\ w[3] = c /\ w[4] = d /\ w[5] = e /\ w[6] = f
         /\ w[7] = g /\ w[8] = h /\ w[9] = i
<1>1. PICK u, x, y, z : /\ u = <<a, b, c>> /\ x = <<d, e, f>> /\ y = <<g, h, i>>
                        /\ z = u \o x
  OBVIOUS
<1>2. /\ u \in Seq(S) /\ Len(u) = 3 /\ u[1] = a /\ u[2] = b /\ u[3] = c
      /\ x \in Seq(S) /\ Len(x) = 3 /\ x[1] = d /\ x[2] = e /\ x[3] = f
      /\ y \in Seq(S) /\ Len(y) = 3 /\ y[1] = g /\ y[2] = h /\ y[3] = i
  BY <1>1
<1>3. z \in Seq(S) /\ Len(z) = 6 /\ \A k \in 1 .. 6 : z[k] = IF k <= 3 THEN u[k] ELSE x[k - 3]
  BY <1>1, <1>2
<1>4. w = z \o y
  BY <1>1
<1>5. w \in Seq(S) /\ Len(w) = 9 /\ \A k \in 1 .. 9 : w[k] = IF k <= 6 THEN z[k] ELSE y[k - 6]
  BY <1>2, <1>3, <1>4
<1> QED
  BY <1>2, <1>3, <1>5

LEMMA FourIs ==
  ASSUME NEW S, NEW w \in Seq(S), Len(w) = 9, NEW v, v = SubSeq(w, 1, 4)
  PROVE  /\ v \in Seq(S) /\ Len(v) = 4
         /\ v[1] = w[1] /\ v[2] = w[2] /\ v[3] = w[3] /\ v[4] = w[4]
<1>1. 1 \in Int /\ 4 \in Int /\ \A i \in 1 .. 4 : w[i] \in S
  <2>1. \A i \in 1 .. Len(w) : w[i] \in S
    BY ElementOfSeq, Zenon
  <2>2. \A i \in 1 .. 4 : i \in 1 .. Len(w)
    OBVIOUS
  <2> QED
    BY <2>1, <2>2
<1>2. /\ SubSeq(w, 1, 4) \in Seq(S)
      /\ Len(SubSeq(w, 1, 4)) = IF 1 <= 4 THEN 4 - 1 + 1 ELSE 0
      /\ \A i \in 1 .. 4 - 1 + 1 : SubSeq(w, 1, 4)[i] = w[1 + i - 1]
  BY <1>1, SubSeqProperties
<1> QED
  BY <1>2

\* An event of the first branch.
Is(x, type, parent, cause, at, op, name) ==
  /\ x \in EventRecord /\ x.branch = Main /\ x.type = type /\ x.parent = parent
  /\ x.cause = cause /\ x.at = at /\ x.op = op /\ x.name = name

\* A log that a session starts with: a request, or what two were answered with.
Opens(log, p, path, c, n) ==
  /\ n \in {4, 9} /\ log \in Seq(EventRecord) /\ Len(log) = n
  /\ Is(log[1], "session.created", 0, 0, 1, "none", "none")
  /\ Is(log[2], "process.created", 1, 1, 2, "none", p)
  /\ Is(log[3], "mention", 2, 0, 3, "none", path)
  /\ Is(log[4], "tool.request", 3, 0, 4, "create", c)
  /\ n = 9 =>
       /\ Is(log[5], "clock.created", 4, 4, 5, "none", c)
       /\ Is(log[6], "tool.result", 4, 4, 6, "none", "none")
       /\ Is(log[7], "tool.request", 6, 0, 7, "set", c)
       /\ Is(log[8], "clock.set", 7, 7, 8, "set", c) /\ log[8].n = 1
       /\ Is(log[9], "tool.result", 7, 7, 9, "none", "none")

LEMMA StartIsEvent ==
  ASSUME NEW p \in Pid, NEW path \in Path
  PROVE  /\ Is(Started, "session.created", 0, 0, 1, "none", "none")
         /\ Is(Imported(p), "process.created", 1, 1, 2, "none", p)
         /\ Is(Found(path), "mention", 2, 0, 3, "none", path)
<1>1. Main \in Branch /\ p \in Names /\ path \in Names
  BY LogAssumption DEF Names
<1>2. {"session.created", "process.created", "mention"} \subseteq Types
  BY DEF Types, Mutations
<1>3. Is(Started, "session.created", 0, 0, 1, "none", "none")
  <2>1. PICK type, m : type = "session.created" /\ m = Record(type, Main, 0, 0)
    OBVIOUS
  <2>2. /\ m \in EventRecord /\ m.type = type /\ m.branch = Main /\ m.parent = 0
        /\ m.cause = 0 /\ m.name = "none" /\ m.op = "none"
    BY <1>1, <1>2, <2>1, RecordIs
  <2> QED
    BY <2>1, <2>2, PlacedIs DEF Started, Is
<1>4. Is(Imported(p), "process.created", 1, 1, 2, "none", p)
  <2>1. PICK type, m : type = "process.created" /\ m = Record(type, Main, 1, 1)
    OBVIOUS
  <2>2. /\ m \in EventRecord /\ m.type = type /\ m.branch = Main /\ m.parent = 1
        /\ m.cause = 1 /\ m.name = "none" /\ m.op = "none"
    BY <1>1, <1>2, <2>1, RecordIs
  <2>3. Imported(p) = [m EXCEPT !.at = 2, !.name = p]
    BY <2>1 DEF Imported
  <2>4. PICK x : x = [m EXCEPT !.at = 2, !.name = p]
    OBVIOUS
  <2>5. /\ x \in EventRecord /\ x.at = 2 /\ x.name = p /\ x.type = m.type
        /\ x.branch = m.branch /\ x.parent = m.parent /\ x.cause = m.cause /\ x.op = m.op
    BY <1>1, <2>2, <2>4 DEF EventRecord
  <2> QED
    BY <2>1, <2>2, <2>3, <2>4, <2>5 DEF Is
<1>5. Is(Found(path), "mention", 2, 0, 3, "none", path)
  <2>1. PICK type, m : type = "mention" /\ m = Record(type, Main, 2, 0)
    OBVIOUS
  <2>2. /\ m \in EventRecord /\ m.type = type /\ m.branch = Main /\ m.parent = 2
        /\ m.cause = 0 /\ m.name = "none" /\ m.op = "none"
    BY <1>1, <1>2, <2>1, RecordIs
  <2>3. Found(path) = [m EXCEPT !.at = 3, !.name = path]
    BY <2>1 DEF Found
  <2>4. PICK x : x = [m EXCEPT !.at = 3, !.name = path]
    OBVIOUS
  <2>5. /\ x \in EventRecord /\ x.at = 3 /\ x.name = path /\ x.type = m.type
        /\ x.branch = m.branch /\ x.parent = m.parent /\ x.cause = m.cause /\ x.op = m.op
    BY <1>1, <2>2, <2>4 DEF EventRecord
  <2> QED
    BY <2>1, <2>2, <2>3, <2>4, <2>5 DEF Is
<1> QED
  BY <1>3, <1>4, <1>5

\* A request of the operator, what it was answered with, and the result.
LEMMA ExchangeIs ==
  ASSUME NEW op \in {"create", "set"}, NEW type \in {"clock.created", "clock.set"},
         NEW c \in Clock, NEW at \in {4, 7}
  PROVE  \E x, y, z :
           /\ Exchange(op, type, c, at) = <<x, y, z>>
           /\ Is(x, "tool.request", at - 1, 0, at, op, c)
           /\ Is(y, type, at, at, at + 1, IF op = "set" THEN op ELSE "none", c)
           /\ y.n = (IF op = "set" THEN 1 ELSE 0)
           /\ Is(z, "tool.result", at, at, at + 2, "none", "none")
<1>1. /\ Main \in Branch /\ c \in Names /\ at \in Nat /\ at - 1 \in Nat /\ at + 1 \in Nat
      /\ at + 2 \in Nat
  BY LogAssumption DEF Names
<1>2. {"tool.request", "tool.result"} \subseteq Types /\ type \in Types
  BY DEF Types, Mutations
<1>3. PICK before \in Nat, behind \in Nat, last \in Nat :
        before = at - 1 /\ behind = at + 1 /\ last = at + 2
  BY <1>1
<1>4. PICK ask, m : ask = "tool.request" /\ m = Record(ask, Main, before, 0)
  OBVIOUS
<1>5. /\ m \in EventRecord /\ m.type = ask /\ m.branch = Main /\ m.parent = before
      /\ m.cause = 0
  BY <1>1, <1>2, <1>3, <1>4, RecordIs
<1>6. PICK x : x = [m EXCEPT !.at = at, !.op = op, !.name = c]
  OBVIOUS
<1>7. /\ x \in EventRecord /\ x.at = at /\ x.op = op /\ x.name = c /\ x.type = m.type
      /\ x.branch = m.branch /\ x.parent = m.parent /\ x.cause = m.cause
  BY <1>1, <1>5, <1>6 DEF EventRecord
<1>8. PICK k : k = Record(type, Main, at, at)
  OBVIOUS
<1>9. /\ k \in EventRecord /\ k.type = type /\ k.branch = Main /\ k.parent = at
      /\ k.cause = at
  BY <1>1, <1>2, <1>8, RecordIs
<1>10. PICK which \in {"set", "none"}, n \in Nat :
         /\ which = IF op = "set" THEN op ELSE "none"
         /\ n = IF op = "set" THEN 1 ELSE 0
  OBVIOUS
<1>11. PICK y : y = [k EXCEPT !.at = behind, !.name = c, !.op = which, !.n = n]
  OBVIOUS
<1>12. /\ y \in EventRecord /\ y.at = behind /\ y.op = which /\ y.name = c /\ y.n = n
       /\ y.type = k.type /\ y.branch = k.branch /\ y.parent = k.parent /\ y.cause = k.cause
  BY <1>1, <1>3, <1>9, <1>10, <1>11 DEF EventRecord
<1>13. PICK answer, l : answer = "tool.result" /\ l = Record(answer, Main, at, at)
  OBVIOUS
<1>14. /\ l \in EventRecord /\ l.type = answer /\ l.branch = Main /\ l.parent = at
       /\ l.cause = at /\ l.op = "none" /\ l.name = "none"
  BY <1>1, <1>2, <1>13, RecordIs
<1>15. PICK z : z = [l EXCEPT !.at = last]
  OBVIOUS
<1>16. /\ z \in EventRecord /\ z.at = last /\ z.op = l.op /\ z.name = l.name
       /\ z.type = l.type /\ z.branch = l.branch /\ z.parent = l.parent /\ z.cause = l.cause
  BY <1>3, <1>14, <1>15, PlacedIs
<1>17. Exchange(op, type, c, at) = <<x, y, z>>
  BY <1>3, <1>4, <1>6, <1>8, <1>10, <1>11, <1>13, <1>15, Zenon DEF Exchange
<1>18. Is(x, "tool.request", at - 1, 0, at, op, c)
  BY <1>3, <1>4, <1>5, <1>7 DEF Is
<1>19. Is(y, type, at, at, at + 1, IF op = "set" THEN op ELSE "none", c)
  BY <1>3, <1>9, <1>10, <1>12 DEF Is
<1>20. y.n = (IF op = "set" THEN 1 ELSE 0)
  BY <1>10, <1>12
<1>21. Is(z, "tool.result", at, at, at + 2, "none", "none")
  BY <1>3, <1>13, <1>14, <1>16 DEF Is
<1> QED
  BY <1>17, <1>18, <1>19, <1>20, <1>21

LEMMA HistoriesAre ==
  ASSUME NEW log \in Histories
  PROVE  \E p \in Pid, path \in Path, c \in Clock, n \in {4, 9} : Opens(log, p, path, c, n)
<1>0. PICK p \in Pid, path \in Path, c \in Clock :
        log \in {SubSeq(WorldOf(p, path, c), 1, 4), WorldOf(p, path, c)}
  BY DEF Histories
<1>1. PICK w : w = WorldOf(p, path, c) /\ (log = w \/ log = SubSeq(w, 1, 4))
  BY <1>0
<1>2. /\ Is(Started, "session.created", 0, 0, 1, "none", "none")
      /\ Is(Imported(p), "process.created", 1, 1, 2, "none", p)
      /\ Is(Found(path), "mention", 2, 0, 3, "none", path)
  BY StartIsEvent
<1>3. PICK x, y, z :
        /\ Exchange("create", "clock.created", c, 4) = <<x, y, z>>
        /\ Is(x, "tool.request", 3, 0, 4, "create", c)
        /\ Is(y, "clock.created", 4, 4, 5, "none", c)
        /\ Is(z, "tool.result", 4, 4, 6, "none", "none")
  <2>1. PICK x, y, z :
          /\ Exchange("create", "clock.created", c, 4) = <<x, y, z>>
          /\ Is(x, "tool.request", 4 - 1, 0, 4, "create", c)
          /\ Is(y, "clock.created", 4, 4, 4 + 1, IF "create" = "set" THEN "create" ELSE "none", c)
          /\ Is(z, "tool.result", 4, 4, 4 + 2, "none", "none")
    BY ExchangeIs
  <2> QED
    BY <2>1
<1>4. PICK u, v, r :
        /\ Exchange("set", "clock.set", c, 7) = <<u, v, r>>
        /\ Is(u, "tool.request", 6, 0, 7, "set", c)
        /\ Is(v, "clock.set", 7, 7, 8, "set", c) /\ v.n = 1
        /\ Is(r, "tool.result", 7, 7, 9, "none", "none")
  <2>1. PICK u, v, r :
          /\ Exchange("set", "clock.set", c, 7) = <<u, v, r>>
          /\ Is(u, "tool.request", 7 - 1, 0, 7, "set", c)
          /\ Is(v, "clock.set", 7, 7, 7 + 1, IF "set" = "set" THEN "set" ELSE "none", c)
          /\ v.n = (IF "set" = "set" THEN 1 ELSE 0)
          /\ Is(r, "tool.result", 7, 7, 7 + 2, "none", "none")
    BY ExchangeIs
  <2> QED
    BY <2>1
<1>5. PICK a, b, d : a = Started /\ b = Imported(p) /\ d = Found(path)
  OBVIOUS
<1>6. w = <<a, b, d>> \o <<x, y, z>> \o <<u, v, r>>
  BY <1>1, <1>3, <1>4, <1>5 DEF WorldOf
<1>7. /\ a \in EventRecord /\ b \in EventRecord /\ d \in EventRecord /\ x \in EventRecord
      /\ y \in EventRecord /\ z \in EventRecord /\ u \in EventRecord /\ v \in EventRecord
      /\ r \in EventRecord
  BY <1>2, <1>3, <1>4, <1>5 DEF Is
<1>8. /\ w \in Seq(EventRecord) /\ Len(w) = 9
      /\ w[1] = a /\ w[2] = b /\ w[3] = d /\ w[4] = x /\ w[5] = y /\ w[6] = z
      /\ w[7] = u /\ w[8] = v /\ w[9] = r
  BY <1>6, <1>7, NineIs
<1>9. CASE log = w
  <2>1. Opens(log, p, path, c, 9)
    BY <1>2, <1>3, <1>4, <1>5, <1>8, <1>9 DEF Opens
  <2> QED
    BY <2>1
<1>10. CASE log = SubSeq(w, 1, 4)
  <2>1. /\ log \in Seq(EventRecord) /\ Len(log) = 4
        /\ log[1] = w[1] /\ log[2] = w[2] /\ log[3] = w[3] /\ log[4] = w[4]
    BY <1>8, <1>10, FourIs
  <2>2. Opens(log, p, path, c, 4)
    BY <1>2, <1>3, <1>5, <1>8, <2>1 DEF Opens
  <2> QED
    BY <2>2
<1> QED
  BY <1>1, <1>9, <1>10

\* What there is in such a log.
OpensWith(log, n) ==
  /\ \A e \in 1 .. n :
       /\ log[e] \in EventRecord /\ log[e].branch = Main /\ log[e].at = e
       /\ {log[e].parent, log[e].cause} \subseteq 0 .. e - 1 /\ NameFits(log[e])
       /\ log[e].type \notin {"file.created", "signal", "clock.advanced", "clock.contradiction"}
       /\ log[e].type = "process.created" => e = 2
       /\ log[e].type = "clock.created" => e = 5
       /\ log[e].type = "clock.set" => e = 8

LEMMA OpensIs ==
  ASSUME NEW p \in Pid, NEW path \in Path, NEW c \in Clock, NEW n, NEW log,
         Opens(log, p, path, c, n)
  PROVE  OpensWith(log, n)
<1>1. n \in {4, 9}
  BY DEF Opens
<1>2. 1 \in 1 .. n => /\ log[1] \in EventRecord /\ log[1].branch = Main /\ log[1].at = 1
                      /\ {log[1].parent, log[1].cause} \subseteq 0 .. 1 - 1
                      /\ NameFits(log[1]) /\ log[1].type = "session.created"
  BY SMTT(30) DEF Opens, Is, NameFits, OfClocks, Readings
<1>3. 2 \in 1 .. n => /\ log[2] \in EventRecord /\ log[2].branch = Main /\ log[2].at = 2
                      /\ {log[2].parent, log[2].cause} \subseteq 0 .. 2 - 1
                      /\ NameFits(log[2]) /\ log[2].type = "process.created"
  BY SMTT(30) DEF Opens, Is, NameFits, OfClocks, Readings
<1>4. 3 \in 1 .. n => /\ log[3] \in EventRecord /\ log[3].branch = Main /\ log[3].at = 3
                      /\ {log[3].parent, log[3].cause} \subseteq 0 .. 3 - 1
                      /\ NameFits(log[3]) /\ log[3].type = "mention"
  BY SMTT(30) DEF Opens, Is, NameFits, OfClocks, Readings
<1>5. 4 \in 1 .. n => /\ log[4] \in EventRecord /\ log[4].branch = Main /\ log[4].at = 4
                      /\ {log[4].parent, log[4].cause} \subseteq 0 .. 4 - 1
                      /\ NameFits(log[4]) /\ log[4].type = "tool.request"
  BY SMTT(30) DEF Opens, Is, NameFits, OfClocks, Readings
<1>6. 5 \in 1 .. n => /\ log[5] \in EventRecord /\ log[5].branch = Main /\ log[5].at = 5
                      /\ {log[5].parent, log[5].cause} \subseteq 0 .. 5 - 1
                      /\ NameFits(log[5]) /\ log[5].type = "clock.created"
  BY <1>1, SMTT(30) DEF Opens, Is, NameFits, OfClocks, Readings
<1>7. 6 \in 1 .. n => /\ log[6] \in EventRecord /\ log[6].branch = Main /\ log[6].at = 6
                      /\ {log[6].parent, log[6].cause} \subseteq 0 .. 6 - 1
                      /\ NameFits(log[6]) /\ log[6].type = "tool.result"
  BY <1>1, SMTT(30) DEF Opens, Is, NameFits, OfClocks, Readings
<1>8. 7 \in 1 .. n => /\ log[7] \in EventRecord /\ log[7].branch = Main /\ log[7].at = 7
                      /\ {log[7].parent, log[7].cause} \subseteq 0 .. 7 - 1
                      /\ NameFits(log[7]) /\ log[7].type = "tool.request"
  BY <1>1, SMTT(30) DEF Opens, Is, NameFits, OfClocks, Readings
<1>9. 8 \in 1 .. n => /\ log[8] \in EventRecord /\ log[8].branch = Main /\ log[8].at = 8
                       /\ {log[8].parent, log[8].cause} \subseteq 0 .. 8 - 1
                       /\ NameFits(log[8]) /\ log[8].type = "clock.set"
  BY <1>1, SMTT(30) DEF Opens, Is, NameFits, OfClocks, Readings
<1>10. 9 \in 1 .. n => /\ log[9] \in EventRecord /\ log[9].branch = Main /\ log[9].at = 9
                       /\ {log[9].parent, log[9].cause} \subseteq 0 .. 9 - 1
                       /\ NameFits(log[9]) /\ log[9].type = "tool.result"
  BY <1>1, SMTT(30) DEF Opens, Is, NameFits, OfClocks, Readings
<1>11. ASSUME NEW e \in 1 .. n
       PROVE  e \in {1, 2, 3, 4, 5, 6, 7, 8, 9}
  BY <1>1
<1> QED
  BY <1>2, <1>3, <1>4, <1>5, <1>6, <1>7, <1>8, <1>9, <1>10, <1>11 DEF OpensWith

\* The two ways to a world, along a log of the first branch.
Alongside(s, t, g, h) ==
  /\ t.log = s.log /\ Fitting(s) /\ Replays(g, s, Event(s)) /\ Backs(h, t, Main)
  /\ \A k \in Event(s) : s.log[k].branch = Main

Succeeds(s, k, i) == k \in 1 .. Len(s.log) /\ i \in Nat /\ k = i + 1

Level(g, h, i, u) == g[i] = u /\ h[i] = u /\ u \in SoundWorlds

\* The two worlds after an event that applies.
LEMMA BothNext ==
  ASSUME NEW s, NEW t, NEW g, NEW h, Alongside(s, t, g, h), NEW k, NEW i, Succeeds(s, k, i),
         NEW u, Level(g, h, i, u), NEW r, r = s.log[k], Applies(u, r), ~ Doubles(u, r),
         NEW v, v = Applied(u, k, r)
  PROVE  Level(g, h, k, v)
<1>1. /\ k \in Event(s) /\ r \in EventRecord /\ NameFits(r) /\ k \in Nat
      /\ k \in 1 .. Len(s.log) /\ k - 1 = i /\ t.log[k] = r /\ r.branch = Main
      /\ k \in 1 .. Len(t.log)
  BY DEF Alongside, Succeeds, Fitting, Event
<1>2. u # Failed /\ g[i] = u /\ h[i] = u /\ u \in SoundWorlds
  BY RowsAre DEF Level, SoundWorlds
<1>3. g[k] = v
  BY <1>1, <1>2 DEF Alongside, Replays
<1>4. h[k] = BackedNext(u, k, r)
  BY <1>1, <1>2 DEF Alongside, Backs
<1>5. BackedNext(u, k, r) = v
  BY <1>1, <1>2, BackedNextIs
<1>6. v \in SoundWorlds
  BY <1>1, <1>2, AppliedIs
<1> QED
  BY <1>3, <1>4, <1>5, <1>6 DEF Level

LEMMA QuietNext ==
  ASSUME NEW s, NEW t, NEW g, NEW h, Alongside(s, t, g, h), NEW k, NEW i, Succeeds(s, k, i),
         NEW u, Level(g, h, i, u), s.log[k].type \notin Mutations
  PROVE  Level(g, h, k, u)
<1>1. PICK r, v : r = s.log[k] /\ v = Applied(u, k, r)
  OBVIOUS
<1>2. Applies(u, r) /\ ~ Doubles(u, r)
  BY <1>1 DEF Applies, Doubles, Renews, Mutations, Readings
<1>3. Level(g, h, k, v)
  BY <1>1, <1>2, BothNext
<1>4. v = u
  BY <1>1, AppliedBy
<1> QED
  BY <1>3, <1>4

\* A world there is at first: of its readings, and of nothing that was contradicted.
First(u, readings) ==
  u \in SoundWorlds /\ u.revisions = readings /\ u.conflicts = {} /\ Endings(u)

\* The process is there.
LEMMA FirstProcess ==
  ASSUME NEW p \in Pid, NEW r, r.name = p, NEW u, u = WithProcess(EmptyWorld, r)
  PROVE  First(u, {})
<1>1. /\ EmptyWorld \in SoundWorlds /\ EmptyWorld.revisions = {} /\ EmptyWorld.conflicts = {}
      /\ EmptyWorld.procs = [x \in Pid |-> Absent]
  BY EmptyIs DEF EmptyWorld
<1>2. PICK procs : procs = [EmptyWorld.procs EXCEPT ![p] = NewProcess]
  OBVIOUS
<1>3. /\ u \in SoundWorlds
      /\ u = [clocks |-> EmptyWorld.clocks, revisions |-> EmptyWorld.revisions,
              conflicts |-> EmptyWorld.conflicts, nodes |-> EmptyWorld.nodes, procs |-> procs]
  BY <1>1, <1>2, ProcessIs
<1>4. u.revisions = {} /\ u.conflicts = {} /\ u.procs = procs
  BY <1>1, <1>3
<1>5. \A x \in Pid : procs[x] # Absent => procs[x] = NewProcess
  BY <1>1, <1>2
<1>6. NewProcess.state = "running" /\ NewProcess.signals = <<>> /\ DOMAIN <<>> = {}
  BY DEF NewProcess
<1>7. Endings(u)
  BY <1>4, <1>5, <1>6 DEF Endings
<1> QED
  BY <1>3, <1>4, <1>7 DEF First

\* A clock is made.
LEMMA FirstClock ==
  ASSUME NEW u, First(u, {}), NEW r \in EventRecord, NameFits(r), r.type = "clock.created",
         NEW v, v = Applied(u, 5, r)
  PROVE  First(v, {}) /\ v.clocks[r.name] # Absent
<1>1. u \in SoundWorlds /\ u.revisions = {} /\ u.conflicts = {} /\ Endings(u)
  BY DEF First
<1>2. Applies(u, r)
  BY DEF Applies, Readings
<1>3. v \in SoundWorlds
  BY <1>1, <1>2, AppliedIs
<1>4. v.revisions = {} /\ v.conflicts = {}
  BY <1>1, <1>2, PartsAre DEF Readings
<1>5. Endings(v)
  BY <1>1, <1>2, EndingsStay
<1>6. r.name \in Clock /\ r.cause \in Nat
  BY FieldsAre DEF OfClocks
<1>7. v = WithClock(u, r)
  BY AppliedBy
<1>8. /\ NewClock(r) # Absent
      /\ v = [clocks |-> [u.clocks EXCEPT ![r.name] = NewClock(r)],
              revisions |-> u.revisions, conflicts |-> u.conflicts,
              nodes |-> u.nodes, procs |-> u.procs]
  BY <1>1, <1>6, <1>7, ClockIs
<1>9. u.clocks \in [Clock -> ClockRows]
  BY <1>1, WorldIs DEF SoundWorlds
<1>10. v.clocks[r.name] # Absent
  BY <1>6, <1>8, <1>9
<1> QED
  BY <1>3, <1>4, <1>5, <1>10 DEF First

\* It is set.
LEMMA FirstReading ==
  ASSUME NEW u, First(u, {}), NEW r \in EventRecord, NameFits(r), r.type = "clock.set",
         u.clocks[r.name] # Absent, NEW v, v = Applied(u, 8, r)
  PROVE  First(v, {RevisionOf(8, r)}) /\ Applies(u, r) /\ ~ Doubles(u, r)
<1>1. u \in SoundWorlds /\ u.revisions = {} /\ u.conflicts = {} /\ Endings(u)
  BY DEF First
<1>2. Applies(u, r)
  BY DEF Applies, Readings
<1>3. ~ Doubles(u, r)
  BY <1>1 DEF Doubles, Renews, RevisionsOf
<1>4. v \in SoundWorlds
  BY <1>1, <1>2, AppliedIs
<1>5. Replaced({}, RevisionOf(8, r)) = {RevisionOf(8, r)}
  BY Zenon DEF Replaced
<1>6. v.revisions = {RevisionOf(8, r)} /\ v.conflicts = {}
  <2>1. r.type \in Readings /\ r.type # "clock.contradiction" /\ 8 \in Nat
    BY DEF Readings
  <2>2. v.revisions = Replaced(u.revisions, RevisionOf(8, r)) /\ v.conflicts = u.conflicts
    <3>1. PICK e \in Nat : e = 8
      OBVIOUS
    <3>2. u \in SoundWorlds /\ v = Applied(u, e, r)
      BY <1>1, <3>1
    <3>3. v.revisions = Replaced(u.revisions, RevisionOf(e, r))
      BY <1>2, <2>1, <3>2, PartsAre
    <3>4. v.conflicts = u.conflicts
      BY <1>2, <2>1, <3>2, PartsAre
    <3> QED
      BY <3>1, <3>3, <3>4
  <2> QED
    BY <1>1, <1>5, <2>2
<1>7. Endings(v)
  BY <1>1, <1>2, EndingsStay
<1> QED
  BY <1>2, <1>3, <1>4, <1>6, <1>7 DEF First

\* What a log that a session starts with makes.
OneWorld(s, t, n, u) ==
  /\ Replayed(s, Event(s)) = u /\ EventBacked(t, Main) = u
  /\ First(u, IF n = 9 THEN {RevisionOf(8, s.log[8])} ELSE {})

\* It is one world, in its tables and in the replay.
LEMMA FirstWorld ==
  ASSUME NEW p \in Pid, NEW path \in Path, NEW c \in Clock, NEW n, NEW s, NEW t,
         Opens(s.log, p, path, c, n), t.log = s.log
  PROVE  \E u : OneWorld(s, t, n, u)
<1>1. n \in {4, 9} /\ s.log \in Seq(EventRecord) /\ Len(s.log) = n /\ Event(s) = 1 .. n
  BY DEF Opens, Event
<1>2. OpensWith(s.log, n)
  BY OpensIs
<1>3. Fitting(s) /\ Fitting(t)
  BY <1>1, <1>2 DEF Fitting, OpensWith, Event
<1>4. PICK g : Replays(g, s, Event(s)) /\ Replayed(s, Event(s)) = g[n]
  BY <1>1, <1>3, ReplayedIs
<1>5. PICK h : Backs(h, t, Main) /\ EventBacked(t, Main) = h[n]
  BY <1>1, <1>3, EventBackedIs
<1>6. \A k \in 1 .. n : s.log[k] \in EventRecord /\ s.log[k].branch = Main /\ NameFits(s.log[k])
  BY <1>2 DEF OpensWith
<1>7. Alongside(s, t, g, h)
  BY <1>1, <1>3, <1>4, <1>5, <1>6 DEF Alongside
<1>8. /\ s.log[1].type = "session.created" /\ s.log[2].type = "process.created"
      /\ s.log[2].name = p /\ s.log[3].type = "mention" /\ s.log[4].type = "tool.request"
  BY DEF Opens, Is
<1>9. /\ Succeeds(s, 1, 0) /\ Succeeds(s, 2, 1) /\ Succeeds(s, 3, 2) /\ Succeeds(s, 4, 3)
  BY <1>1 DEF Succeeds
<1>10. /\ s.log[1].type \notin Mutations /\ s.log[3].type \notin Mutations
       /\ s.log[4].type \notin Mutations
  BY <1>8 DEF Mutations
<1>11. Level(g, h, 0, EmptyWorld)
  BY <1>4, <1>5, EmptyIs DEF Level, Replays, Backs
<1>12. Level(g, h, 1, EmptyWorld)
  BY <1>7, <1>9, <1>10, <1>11, QuietNext
<1>13. PICK u : Level(g, h, 2, u) /\ First(u, {})
  <2>1. PICK r, u : r = s.log[2] /\ u = Applied(EmptyWorld, 2, r)
    OBVIOUS
  <2>2. Applies(EmptyWorld, r) /\ ~ Doubles(EmptyWorld, r)
    BY <1>8, <2>1 DEF Applies, Doubles, Renews, Readings
  <2>3. Level(g, h, 2, u)
    BY <1>7, <1>9, <1>12, <2>1, <2>2, BothNext
  <2>4. u = WithProcess(EmptyWorld, r)
    BY <1>8, <2>1, AppliedBy
  <2> QED
    BY <1>8, <2>1, <2>3, <2>4, FirstProcess
<1>14. Level(g, h, 3, u)
  BY <1>7, <1>9, <1>10, <1>13, QuietNext
<1>15. Level(g, h, 4, u)
  BY <1>7, <1>9, <1>10, <1>14, QuietNext
<1>16. CASE n = 4
  BY <1>4, <1>5, <1>13, <1>15, <1>16 DEF Level, OneWorld
<1>17. CASE n = 9
  <2>1. /\ s.log[5].type = "clock.created" /\ s.log[5].name = c
        /\ s.log[6].type = "tool.result" /\ s.log[7].type = "tool.request"
        /\ s.log[8].type = "clock.set" /\ s.log[8].name = c /\ s.log[9].type = "tool.result"
    BY <1>17 DEF Opens, Is
  <2>2. /\ Succeeds(s, 5, 4) /\ Succeeds(s, 6, 5) /\ Succeeds(s, 7, 6)
        /\ Succeeds(s, 8, 7) /\ Succeeds(s, 9, 8)
    BY <1>1, <1>17 DEF Succeeds
  <2>3. /\ s.log[6].type \notin Mutations /\ s.log[7].type \notin Mutations
        /\ s.log[9].type \notin Mutations
    BY <2>1 DEF Mutations
  <2>4. PICK r, v : r = s.log[5] /\ v = Applied(u, 5, r)
    OBVIOUS
  <2>5. Level(g, h, 5, v)
    <3>1. Applies(u, r) /\ ~ Doubles(u, r)
      BY <1>13, <2>1, <2>4 DEF Applies, Doubles, Renews, Readings, First
    <3> QED
      BY <1>7, <1>15, <2>2, <2>4, <3>1, BothNext
  <2>6. First(v, {}) /\ v.clocks[c] # Absent
    <3>1. r \in EventRecord /\ NameFits(r)
      BY <1>6, <1>17, <2>4
    <3> QED
      BY <1>13, <2>1, <2>4, <3>1, FirstClock
  <2>7. Level(g, h, 6, v)
    BY <1>7, <2>2, <2>3, <2>5, QuietNext
  <2>8. Level(g, h, 7, v)
    BY <1>7, <2>2, <2>3, <2>7, QuietNext
  <2>9. PICK k, x : k = s.log[8] /\ x = Applied(v, 8, k)
    OBVIOUS
  <2>10. First(x, {RevisionOf(8, k)}) /\ Applies(v, k) /\ ~ Doubles(v, k)
    <3>1. k \in EventRecord /\ NameFits(k)
      BY <1>6, <1>17, <2>9
    <3> QED
      BY <2>1, <2>6, <2>9, <3>1, FirstReading
  <2>11. Level(g, h, 8, x)
    BY <1>7, <2>2, <2>8, <2>9, <2>10, BothNext
  <2>12. Level(g, h, 9, x)
    BY <1>7, <2>2, <2>3, <2>11, QuietNext
  <2> QED
    BY <1>4, <1>5, <1>17, <2>9, <2>10, <2>12 DEF Level, OneWorld
<1> QED
  BY <1>1, <1>16, <1>17

-----------------------------------------------------------------------------
(* The first states *)

\* The rows of a session that was not forked yet.
FirstRows == [b \in Branch |-> IF b = Main THEN MainRow ELSE NoRow]

LEMMA FirstRowsAre ==
  /\ FirstRows \in [Branch -> BranchRow \cup {NoRow}]
  /\ FirstRows[Main] # NoRow /\ FirstRows[Main].fork = NoEvent
  /\ \A b \in Branch \ {Main} : FirstRows[b] = NoRow
<1>1. Main \in Branch
  BY LogAssumption
<1>2. MainRow \in BranchRow /\ MainRow.fork = NoEvent
  BY DEF MainRow, BranchRow, NoEvent
<1>3. MainRow # NoRow
  <2>1. DOMAIN MainRow = {"parent", "fork", "open"}
    BY DEF MainRow
  <2>2. "absent" \in DOMAIN NoRow
    BY DEF NoRow
  <2> QED
    BY <2>1, <2>2
<1> QED
  BY <1>1, <1>2, <1>3, Zenon DEF FirstRows

\* What is recorded of a session at first.
Begun(s, p, path, c, n, u) ==
  /\ Opens(s.log, p, path, c, n) /\ s.branch = FirstRows
  /\ s = [log |-> s.log, branch |-> s.branch, world |-> s.world]
  /\ s.world \in [Branch -> SoundWorlds] /\ s.world[Main] = u
  /\ \A b \in Branch \ {Main} : s.world[b] = EmptyWorld
  /\ EventBacked(s, Main) = u
  /\ First(u, IF n = 9 THEN {RevisionOf(8, s.log[8])} ELSE {})

LEMMA BegunLog ==
  ASSUME NEW p \in Pid, NEW path \in Path, NEW c \in Clock, NEW n, NEW u, NEW s,
         Begun(s, p, path, c, n, u)
  PROVE  /\ n \in {4, 9} /\ s.log \in Seq(EventRecord) /\ Event(s) = 1 .. n
         /\ OpensWith(s.log, n) /\ Own(s, Main) = Event(s) /\ LogSound(s)
<1>1. Opens(s.log, p, path, c, n) /\ s.branch = FirstRows
  BY DEF Begun
<1>2. n \in {4, 9} /\ s.log \in Seq(EventRecord) /\ Len(s.log) = n /\ Event(s) = 1 .. n
  BY <1>1 DEF Opens, Event
<1>3. OpensWith(s.log, n)
  BY <1>1, OpensIs
<1>4. \A e \in Event(s) :
        /\ s.log[e].branch = Main /\ s.log[e].at = e
        /\ {s.log[e].parent, s.log[e].cause} \subseteq 0 .. e - 1 /\ NameFits(s.log[e])
  BY <1>2, <1>3 DEF OpensWith
<1>5. Own(s, Main) = Event(s) /\ 1 \in Event(s)
  BY <1>2, <1>4 DEF Own
<1>6. \A b \in Branch \ {Main} : Own(s, b) = {}
  BY <1>4 DEF Own
<1>7. s.log # <<>>
  BY <1>2
<1>8. \A b \in Branch : /\ Exists(s, b) <=> Own(s, b) # {}
                        /\ \A e \in Own(s, b) : s.branch[b].fork < e
  <2>1. ASSUME NEW b \in Branch
        PROVE  /\ Exists(s, b) <=> Own(s, b) # {}
               /\ \A e \in Own(s, b) : s.branch[b].fork < e
    <3>1. CASE b = Main
      <4>1. s.branch[b] # NoRow /\ s.branch[b].fork = NoEvent
        BY <1>1, <3>1, FirstRowsAre
      <4>2. Own(s, b) # {} /\ \A e \in Own(s, b) : e \in 1 .. n
        BY <1>2, <1>5, <3>1
      <4>3. \A e \in 1 .. n : NoEvent < e
        BY <1>2 DEF NoEvent
      <4> QED
        BY <4>1, <4>2, <4>3 DEF Exists
    <3>2. CASE b # Main
      <4>1. s.branch[b] = NoRow
        BY <1>1, <3>2, FirstRowsAre
      <4>2. Own(s, b) = {}
        BY <1>6, <3>2
      <4> QED
        BY <4>1, <4>2 DEF Exists
    <3> QED
      BY <3>1, <3>2
  <2> QED
    BY <2>1
<1>9. LogSound(s)
  BY <1>1, <1>4, <1>5, <1>7, <1>8, FirstRowsAre DEF LogSound
<1> QED
  BY <1>2, <1>3, <1>5, <1>9

LEMMA BegunIsSound ==
  ASSUME NEW p \in Pid, NEW path \in Path, NEW c \in Clock, NEW n, NEW u, NEW s,
         Begun(s, p, path, c, n, u)
  PROVE  Sound(s)
<1>1. /\ n \in {4, 9} /\ s.log \in Seq(EventRecord) /\ Event(s) = 1 .. n
      /\ OpensWith(s.log, n) /\ Own(s, Main) = Event(s) /\ LogSound(s)
  BY BegunLog
<1>2. /\ Opens(s.log, p, path, c, n) /\ s.branch = FirstRows
      /\ s = [log |-> s.log, branch |-> s.branch, world |-> s.world]
      /\ s.world \in [Branch -> SoundWorlds] /\ s.world[Main] = u
  BY DEF Begun
<1>3. s \in Databases
  <2>1. s.world \in [Branch -> World]
    BY <1>2 DEF SoundWorlds
  <2>2. s.branch \in [Branch -> BranchRow \cup {NoRow}]
    BY <1>2, FirstRowsAre
  <2> QED
    BY <1>1, <1>2, <2>1, <2>2 DEF Databases
<1>4. \A b \in Branch : s.world[b] \in SoundWorlds
  BY <1>2
<1>5. \A e \in Event(s) : Grounded(s, e)
  <2>1. ASSUME NEW e \in Event(s)
        PROVE  Grounded(s, e)
    <3>1. CASE s.log[e].type = "clock.created"
      <4>1. e = 5 /\ n = 9
        BY <1>1, <3>1 DEF OpensWith
      <4>2. /\ s.log[e].cause = 4 /\ s.log[4].op = "create"
            /\ s.log[e].name = c /\ s.log[4].name = c /\ 4 \in 1 .. 5 - 1
        BY <1>2, <4>1 DEF Opens, Is
      <4> QED
        BY <3>1, <4>1, <4>2 DEF Grounded
    <3>2. CASE s.log[e].type = "clock.set"
      <4>1. e = 8 /\ n = 9
        BY <1>1, <3>2 DEF OpensWith
      <4>2. /\ s.log[e].cause = 7 /\ s.log[7].op = "set"
            /\ s.log[e].name = c /\ s.log[7].name = c /\ 7 \in 1 .. 8 - 1
        BY <1>2, <4>1 DEF Opens, Is
      <4> QED
        BY <3>2, <4>1, <4>2 DEF Grounded
    <3>3. CASE s.log[e].type \notin {"clock.created", "clock.set"}
      <4>1. s.log[e].type \notin {"file.created", "clock.advanced"}
        BY <1>1 DEF OpensWith
      <4> QED
        BY <3>3, <4>1 DEF Grounded
    <3> QED
      BY <3>1, <3>2, <3>3
  <2> QED
    BY <2>1
<1>6. \A b \in Branch : Exists(s, b) =>
        \A row \in RowsOf(s.world[b]) : row.event \in Visible(s, b)
  <2>1. ASSUME NEW b \in Branch, Exists(s, b), NEW row \in RowsOf(s.world[b])
        PROVE  row.event \in Visible(s, b)
    <3>1. b = Main
      BY <1>2, <2>1, FirstRowsAre DEF Exists
    <3>2. /\ u.revisions = (IF n = 9 THEN {RevisionOf(8, s.log[8])} ELSE {})
          /\ u.conflicts = {}
      BY DEF Begun, First
    <3>3. row \in u.revisions \cup u.conflicts
      BY <1>2, <2>1, <3>1 DEF RowsOf
    <3>4. n = 9 /\ row = RevisionOf(8, s.log[8])
      BY <3>2, <3>3
    <3>5. row.event = 8
      BY <3>4 DEF RevisionOf
    <3>6. 8 \in Own(s, Main)
      BY <1>1, <3>4
    <3> QED
      BY <3>1, <3>5, <3>6 DEF Visible
  <2> QED
    BY <2>1
<1> QED
  BY <1>1, <1>3, <1>4, <1>5, <1>6 DEF Sound

\* One reading has the first number, and none have none.
LEMMA BegunIsTimely ==
  ASSUME NEW p \in Pid, NEW path \in Path, NEW c \in Clock, NEW n, NEW u, NEW s,
         Begun(s, p, path, c, n, u)
  PROVE  /\ Timely(s) /\ u = s.world[Main]
         /\ \A e \in OwnReadings(s) : n = 9 /\ e = 8
         /\ \A x, y \in u.revisions : ~ Differ(x, y)
<1>1. /\ n \in {4, 9} /\ Event(s) = 1 .. n /\ OpensWith(s.log, n) /\ Own(s, Main) = Event(s)
  BY BegunLog
<1>2. /\ u = s.world[Main] /\ EventBacked(s, Main) = u /\ Endings(u)
      /\ Opens(s.log, p, path, c, n)
      /\ u.revisions = (IF n = 9 THEN {RevisionOf(8, s.log[8])} ELSE {})
  BY DEF Begun, First
<1>3. \A e \in OwnReadings(s) : n = 9 /\ e = 8
  BY <1>1 DEF OwnReadings, OpensWith, Readings
<1>4. n = 9 => 8 \in OwnReadings(s) /\ s.log[8].n = 1 /\ s.log[8].name = c
  <2>1. n = 9 => /\ s.log[8].type = "clock.set" /\ s.log[8].n = 1 /\ s.log[8].name = c
                 /\ 8 \in Own(s, Main)
    BY <1>1, <1>2 DEF Opens, Is
  <2> QED
    BY <2>1 DEF OwnReadings, Readings
<1>5. PICK rev : rev = RevisionOf(8, s.log[8])
  OBVIOUS
<1>6. rev.event = 8 /\ rev.n = s.log[8].n /\ rev.clock = s.log[8].name
  BY <1>5 DEF RevisionOf
<1>7. Accounted(s, u)
  BY <1>2, <1>3, <1>4, <1>5, <1>6 DEF Accounted
<1>8. Numbered(u)
  <2>1. ASSUME NEW d \in Clock
        PROVE  /\ {x.n : x \in RevisionsOf(u, d)} = 1 .. Cardinality(RevisionsOf(u, d))
               /\ \A x, y \in RevisionsOf(u, d) : x.n = y.n => x = y
    <3>1. CASE n = 9 /\ d = c
      <4>1. RevisionsOf(u, d) = {rev} /\ rev.n = 1
        BY <1>2, <1>4, <1>5, <1>6, <3>1 DEF RevisionsOf
      <4>2. Cardinality({rev}) = 1
        BY FS_Singleton
      <4>3. {x.n : x \in {rev}} = {1} /\ 1 .. 1 = {1}
        BY <4>1
      <4> QED
        BY <4>1, <4>2, <4>3
    <3>2. CASE ~ (n = 9 /\ d = c)
      <4>1. RevisionsOf(u, d) = {}
        BY <1>2, <1>4, <1>5, <1>6, <3>2 DEF RevisionsOf
      <4>2. Cardinality({}) = 0 /\ 1 .. 0 = {}
        BY FS_EmptySet
      <4> QED
        BY <4>1, <4>2
    <3> QED
      BY <3>1, <3>2
  <2> QED
    BY <2>1 DEF Numbered
<1>9. \A x, y \in u.revisions : ~ Differ(x, y)
  <2>1. ASSUME NEW x \in u.revisions, NEW y \in u.revisions
        PROVE  ~ Differ(x, y)
    <3>1. x = rev /\ y = rev /\ rev.n = 1
      BY <1>2, <1>4, <1>5, <1>6, <2>1
    <3> QED
      BY <3>1 DEF Differ
  <2> QED
    BY <2>1
<1> QED
  BY <1>2, <1>3, <1>7, <1>8, <1>9 DEF Timely

\* The first states are those of a session that has begun.
LEMMA InitBegins ==
  ASSUME WorldInit
  PROVE  /\ \E p \in Pid, path \in Path, c \in Clock : \E n, u : Begun(db, p, path, c, n, u)
         /\ done = {q \in Event(db) : \E e \in Event(db) :
                      db.log[e].type = "tool.result" /\ db.log[e].cause = q}
         /\ appends \in 0 .. MaxAppends
<1> DEFINE Starts(history, first) ==
             /\ first = [log |-> history, branch |-> FirstRows,
                         world |-> [b \in Branch |-> EmptyWorld]]
             /\ db = [first EXCEPT !.world[Main] = Replayed(first, DOMAIN history)]
             /\ done = {q \in DOMAIN history :
                         \E e \in DOMAIN history : history[e].type = "tool.result"
                                                  /\ history[e].cause = q}
             /\ appends = Cardinality({q \in DOMAIN history :
                                         history[q].type = "tool.request"} \ done)
<1>0. PICK history \in Histories : \E first : Starts(history, first)
  BY Zenon DEF WorldInit, FirstRows
<1>1. PICK first : Starts(history, first)
  BY <1>0
<1>2. PICK p \in Pid, path \in Path, c \in Clock, n \in {4, 9} : Opens(history, p, path, c, n)
  BY HistoriesAre
<1>3. PICK worlds : worlds = [b \in Branch |-> EmptyWorld]
  OBVIOUS
<1>4. first.log = history /\ first.branch = FirstRows /\ first.world = worlds
  BY <1>1, <1>3
<1>5. PICK x : x = Replayed(first, DOMAIN history)
  OBVIOUS
<1>6. db = [log |-> history, branch |-> FirstRows, world |-> [worlds EXCEPT ![Main] = x]]
  BY <1>1, <1>3, <1>5
<1>7. db.log = history /\ db.branch = FirstRows /\ db.world = [worlds EXCEPT ![Main] = x]
  BY <1>6
<1>8. Event(first) = DOMAIN history /\ Event(db) = DOMAIN history
  BY <1>4, <1>7 DEF Event
<1>9. PICK u : OneWorld(first, db, n, u)
  <2>1. db.log = first.log /\ Opens(first.log, p, path, c, n)
    BY <1>2, <1>4, <1>7, Zenon
  <2> QED
    BY <2>1, FirstWorld
<1>10. x = u
  BY <1>5, <1>8, <1>9 DEF OneWorld
<1>11. Begun(db, p, path, c, n, u)
  <2>1. Main \in Branch /\ EmptyWorld \in SoundWorlds /\ u \in SoundWorlds
    BY <1>9, LogAssumption, EmptyIs DEF OneWorld, First
  <2>2. /\ db.world \in [Branch -> SoundWorlds] /\ db.world[Main] = u
        /\ \A b \in Branch \ {Main} : db.world[b] = EmptyWorld
    BY <1>3, <1>7, <1>10, <2>1
  <2>3. db = [log |-> db.log, branch |-> db.branch, world |-> db.world]
    BY <1>6, <1>7, Zenon
  <2>4. First(u, IF n = 9 THEN {RevisionOf(8, db.log[8])} ELSE {})
    BY <1>4, <1>7, <1>9 DEF OneWorld
  <2> QED
    BY <1>2, <1>7, <1>9, <2>2, <2>3, <2>4 DEF OneWorld, Begun
<1>12. done = {q \in Event(db) : \E e \in Event(db) :
                 db.log[e].type = "tool.result" /\ db.log[e].cause = q}
  BY <1>1, <1>7, <1>8
<1>13. appends \in 0 .. MaxAppends
  <2>1. PICK due : due = {q \in DOMAIN history : history[q].type = "tool.request"} \ done
    OBVIOUS
  <2>2. n \in Nat /\ DOMAIN history = 1 .. n
    BY <1>2 DEF Opens
  <2>3. IsFiniteSet(1 .. n)
    BY <2>2, FS_Interval
  <2>4. due \subseteq 1 .. n
    BY <2>1, <2>2
  <2>5. Cardinality(due) \in Nat
    BY <2>3, <2>4, FS_Subset, FS_CardinalityType
  <2>6. appends = Cardinality(due) /\ appends <= MaxAppends
    BY <1>1, <2>1 DEF WorldInit
  <2> QED
    BY <2>5, <2>6, WorldAssumption
<1> QED
  BY <1>11, <1>12, <1>13

\* The first states are sound: nobody is at work, and what was asked for is recorded once.
LEMMA StoryInit == WorldInit => Story
<1> SUFFICES ASSUME WorldInit
             PROVE  Story
  OBVIOUS
<1>0. PICK p \in Pid, path \in Path, c \in Clock : \E n, u : Begun(db, p, path, c, n, u)
  BY InitBegins
<1>1. PICK n, u : Begun(db, p, path, c, n, u)
  BY <1>0
<1>2. /\ done = {q \in Event(db) : \E e \in Event(db) :
                   db.log[e].type = "tool.result" /\ db.log[e].cause = q}
      /\ appends \in 0 .. MaxAppends
  BY InitBegins
<1>3. leases = {} /\ hand = [w \in Executor |-> IdleHand] /\ faults = 0 /\ overdue = 0
  BY DEF WorldInit
<1>4. /\ hand \in [Executor -> HandState]
      /\ \A w \in Executor : hand[w].step = "idle"
  BY <1>3, IdleIs
<1>5. Base
  <2>1. Sound(db)
    BY <1>1, BegunIsSound
  <2>2. Counted
    BY <1>2, <1>3, WorldAssumption DEF Counted
  <2>3. leases \subseteq Executor \X Event(db) /\ LeasesApart /\ done \subseteq Event(db)
    BY <1>2, <1>3 DEF LeasesApart
  <2>4. \A w \in Executor : FitsIn(db, hand[w])
    BY <1>4 DEF FitsIn
  <2> QED
    BY <1>4, <2>1, <2>2, <2>3, <2>4 DEF Base
<1>6. /\ Timely(db) /\ u = db.world[Main]
      /\ \A e \in OwnReadings(db) : n = 9 /\ e = 8
      /\ \A x, y \in u.revisions : ~ Differ(x, y)
  BY <1>1, BegunIsTimely
<1>7. OnTime
  BY <1>4, <1>6 DEF OnTime, Leased, PlansFit, OnMain, Working, At
<1>8. Once
  <2>1. LeasesHeld /\ Unsettled /\ Unanswered
    BY <1>3, <1>4 DEF LeasesHeld, Unsettled, Unanswered, Working, At, Busy
  <2>2. ReadOnce
    BY <1>6 DEF ReadOnce
  <2>3. Covered
    <3>1. ASSUME NEW e \in OwnReadings(db)
          PROVE  db.log[e].cause \in done
      <4>1. n = 9 /\ e = 8
        BY <1>6
      <4>2. db.log[8].cause = 7 /\ db.log[9].type = "tool.result" /\ db.log[9].cause = 7
        BY <1>1, <4>1 DEF Begun, Opens, Is
      <4>3. Event(db) = 1 .. 9
        BY <1>1, <4>1, BegunLog
      <4> QED
        BY <1>2, <4>1, <4>2, <4>3
    <3> QED
      BY <3>1 DEF Covered
  <2> QED
    BY <2>1, <2>2, <2>3 DEF Once
<1>9. ConflictsDue
  BY <1>6, DueIs
<1> QED
  BY <1>5, <1>7, <1>8, <1>9 DEF Story

-----------------------------------------------------------------------------
(* What holds of every session *)

LEMMA StoryIs == Story <=> WorldTypeOK /\ WorldStory
BY BaseIs, OnTimeIs, OnceIs DEF Story, WorldStory

\* Nothing is invented in a world, a row of it comes from what its branch can see, an
\* executor appends what can be appended, and as long as no lease expires under one
\* the tables of the first branch are what its events say (VirtualWorldRuntime,
\* VirtualProjection and the tool job of services.py).
THEOREM WorldInvariant == WorldSpec => [](WorldTypeOK /\ WorldStory)
<1>1. WorldInit => WorldTypeOK /\ WorldStory
  BY StoryInit, StoryIs
<1>2. WorldTypeOK /\ WorldStory /\ [WorldNext]_worldVars => (WorldTypeOK /\ WorldStory)'
  <2>1. ASSUME WorldTypeOK /\ WorldStory /\ [WorldNext]_worldVars
        PROVE  Story'
    BY <2>1, StoryIs, StoryNext
  <2>2. Story' <=> (WorldTypeOK /\ WorldStory)'
    BY StoryIs, PTL
  <2> QED
    BY <2>1, <2>2
<1> QED
  BY <1>1, <1>2, PTL DEF WorldSpec

\* The tables of a session's first branch and the replay of its events are one world,
\* also after crashes and retries, as long as no lease expires under an executor
\* (VirtualWorldRuntime.hydrate and EventBackedVirtualWorld).
THEOREM RuntimesAlwaysAgree == WorldSpec => []RuntimesAgree
<1>1. WorldTypeOK /\ WorldStory => RuntimesAgree
  BY DEF WorldStory, WorldOnTime, RuntimesAgree
<1> QED
  BY <1>1, WorldInvariant, PTL

\* Whatever the lateness of an executor, a world has rows only of events that its branch
\* can see: a fork is not mixed with what its parent does later (VirtualProjection's
\* replay for a fork, and branch_id of every row).
THEOREM WorldStaysVisible == WorldSpec => []WorldIsVisible
<1>1. WorldTypeOK /\ WorldStory => WorldIsVisible
  BY DEF WorldStory
<1> QED
  BY <1>1, WorldInvariant, PTL

\* A contradiction that is due has been recorded by the time its request is answered.
LEMMA ReadingsStay == Story => ReadingsKept
<1> SUFFICES ASSUME Story, faults = 0, overdue = 0
             PROVE  /\ \A e \in Own(db, Main) :
                         db.log[e].type \in {"clock.set", "clock.advanced"} =>
                           RevisionOf(e, db.log[e]) \in db.world[Main].revisions
                    /\ \A x, y \in db.world[Main].revisions :
                         /\ x # y => db.log[x.event].cause # db.log[y.event].cause
                         /\ (/\ x.clock = y.clock /\ y.n = x.n + 1
                             /\ y.op = "set" /\ x.value # y.value
                             /\ Results(db.log[y.event].cause) # {})
                            => \E k \in db.world[Main].conflicts :
                                 k.clock = x.clock /\ k.prior = x.n /\ k.n = y.n
                    /\ Endings(db.world[Main])
  BY Zenon DEF ReadingsKept, Endings
<1>1. Base /\ OnTime /\ Once /\ ConflictsDue
  BY DEF Story
<1>2. Timely(db) /\ Endings(db.world[Main]) /\ Accounted(db, db.world[Main])
  BY <1>1 DEF OnTime, Timely
<1>3. \A e \in Own(db, Main) : db.log[e].type \in {"clock.set", "clock.advanced"} =>
        RevisionOf(e, db.log[e]) \in db.world[Main].revisions
  BY <1>2 DEF Accounted, OwnReadings, Readings
<1>4. ASSUME NEW x \in db.world[Main].revisions, NEW y \in db.world[Main].revisions, x # y
      PROVE  db.log[x.event].cause # db.log[y.event].cause
  <2>1. /\ x.event \in OwnReadings(db) /\ x = RevisionOf(x.event, db.log[x.event])
        /\ y.event \in OwnReadings(db) /\ y = RevisionOf(y.event, db.log[y.event])
    BY <1>2, <1>4 DEF Accounted
  <2>2. x.event # y.event
    BY <1>4, <2>1, Zenon
  <2> QED
    BY <1>1, <2>1, <2>2 DEF Once, ReadOnce
<1>5. ASSUME NEW x \in db.world[Main].revisions, NEW y \in db.world[Main].revisions,
             Differ(x, y), Results(db.log[y.event].cause) # {}
      PROVE  Noted(db.world[Main], x, y)
  <2>1. CASE \E w \in Executor : DueTo(db, x, y, hand[w])
    <3>1. PICK w \in Executor : DueTo(db, x, y, hand[w])
      BY <2>1
    <3>2. hand[w].step = "mutate" /\ hand[w].request = db.log[y.event].cause
      BY <3>1 DEF DueTo
    <3>3. ResultsIn(db, hand[w].request) = {}
      BY <1>1, <3>2 DEF Once, Unanswered, Busy, Mine
    <3>4. ResultsIn(db, hand[w].request) = Results(hand[w].request)
      BY DEF ResultsIn, Results, OfType
    <3> QED
      BY <1>5, <3>2, <3>3, <3>4
  <2> QED
    BY <1>1, <1>5, <2>1, DueIs
<1> QED
  BY <1>2, <1>3, <1>4, <1>5 DEF Differ, Noted

\* What is recorded of a world was asked for, and as long as no lease expires under an
\* executor and none dies, no reading of a session's first branch is lost or doubled,
\* a differing second reading is contradicted by the time it is answered, and a
\* process that was ended stays so (README.md:130-146).
THEOREM WorldIsKept == WorldSpec => []WorldInv
<1>1. WorldTypeOK /\ WorldStory => WorldInv
  BY StoryIs, ReadingsStay DEF WorldStory, WorldInv
<1> QED
  BY <1>1, WorldInvariant, PTL

===============================================================================
