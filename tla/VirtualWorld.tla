----------------------------- MODULE VirtualWorld -----------------------------
(***************************************************************************)
(* The virtual world of a branch: clocks, files and processes that exist   *)
(* because events say so.                                                  *)
(*   virtual.py      what a command does to a world, what is materialised  *)
(*                   before it, and the world replayed from a branch       *)
(*   projections.py  the tables of the world, what a fork takes over, and  *)
(*                   the runtime made of the tables                        *)
(*   services.py     _broker and the tool job, as far as the world sees it *)
(*                                                                         *)
(* A tool job makes a runtime of the tables, plans its mutations on it and *)
(* appends them one by one, each behind the last event of the branch, then *)
(* its result.  The jobs of a branch are leased one at a time, but a lease *)
(* may expire under an executor that goes on.  created_at follows the      *)
(* order of the log here; Narrative has the log where it does not.         *)
(***************************************************************************)
EXTENDS EventLog

CONSTANTS
  Clock, Path, Pid,
  Value,          \* the readings a clock may be set to
  Executor,       \* processes that run tool jobs
  MaxAppends,     \* bound of the model on the requests, mentions and forks
  MaxTrouble      \* bound of the model on deaths in a job, and on leases that
                  \* expire under an executor, together

ASSUME WorldAssumption ==
  /\ Value \subseteq Nat
  /\ {MaxAppends, MaxTrouble} \subseteq Nat

VARIABLES
  db,             \* the log, the branches and the world of each branch
  leases,         \* which executor has the lease of which request
  done,           \* the requests whose jobs are acknowledged
  hand,           \* what each executor does
  appends,        \* bounded counter of the requests, mentions and forks
  faults, overdue \* deaths in a job, leases that expired under an executor

worldVars == <<db, leases, done, hand, appends, faults, overdue>>

Mutations == {"file.created", "process.created", "signal", "clock.created",
              "clock.set", "clock.advanced", "clock.contradiction"}
Types == Mutations \cup {"session.created", "session.forked", "mention",
                         "tool.request", "tool.started", "tool.result"}

Names == Clock \cup Path \cup Pid \cup {"none"}

\* `op` is the command of a request, or the operation of a revision; `n` a revision,
\* `prior` the one it contradicts, `state` what a signal leaves a process in.
EventRecord ==
  [type : Types, branch : Branch, parent : Nat, cause : Nat, at : Nat,
   op : {"none", "create", "set", "advance", "read", "TERM", "HUP"},
   name : Names, n : Nat, value : Nat, prior : Nat, state : {"none", "running", "terminated"}]

Absent == [absent |-> TRUE]
Revision == [clock : Clock, n : Nat, op : {"set", "advance"}, value : Nat, event : Nat]
Conflict == [clock : Clock, prior : Nat, n : Nat, event : Nat]
World == [clocks : [Clock -> {Absent} \cup [n : Nat, value : Nat, request : Nat]],
          revisions : SUBSET Revision, conflicts : SUBSET Conflict,
          nodes : SUBSET Path,
          procs : [Pid -> {Absent} \cup [state : {"running", "terminated"},
                                         signals : Seq({"TERM", "HUP"})]]]

EmptyWorld == [clocks |-> [c \in Clock |-> Absent], revisions |-> {}, conflicts |-> {},
               nodes |-> {}, procs |-> [p \in Pid |-> Absent]]
Failed == [failed |-> TRUE]

HandState == [step : {"idle", "look", "start", "hydrate", "mutate", "finish", "settle"},
              request : Nat, started : Nat, todo : Seq(EventRecord)]
IdleHand == [step |-> "idle", request |-> 0, started |-> 0, todo |-> <<>>]

WorldTypeOK ==
  /\ db \in [log : Seq(EventRecord), branch : [Branch -> BranchRow \cup {NoRow}],
             world : [Branch -> World]]
  /\ leases \subseteq Executor \X Event(db) /\ done \subseteq Event(db)
  /\ hand \in [Executor -> HandState]
  /\ appends \in 0 .. MaxAppends /\ {faults, overdue} \subseteq Nat
  /\ faults + overdue <= MaxTrouble

-----------------------------------------------------------------------------
(* VirtualProjection: the tables *)

\* A row that is there already is replaced.
Replaced(rows, row) == {x \in rows : ~ (x.clock = row.clock /\ x.n = row.n)} \cup {row}

RevisionOf(e, r) ==
  [clock |-> r.name, n |-> r.n, op |-> r.op, value |-> r.value, event |-> e]

WithFile(world, r) == [world EXCEPT !.nodes = @ \cup {r.name}]

WithProcess(world, r) ==
  [world EXCEPT !.procs[r.name] = [state |-> "running", signals |-> <<>>]]

WithSignal(world, r) ==
  IF world.procs[r.name] = Absent THEN Failed
  ELSE [world EXCEPT !.procs[r.name] =
          [state |-> r.state, signals |-> Append(@.signals, r.op)]]

WithClock(world, r) ==
  [world EXCEPT !.clocks[r.name] = [n |-> 0, value |-> 0, request |-> r.cause]]

WithReading(world, e, r) ==
  IF world.clocks[r.name] = Absent THEN Failed
  ELSE [world EXCEPT !.revisions = Replaced(@, RevisionOf(e, r)),
                     !.clocks[r.name].n = r.n, !.clocks[r.name].value = r.value]

WithConflict(world, e, r) ==
  IF world.clocks[r.name] = Absent THEN Failed
  ELSE [world EXCEPT !.conflicts =
          @ \cup {[clock |-> r.name, prior |-> r.prior, n |-> r.n, event |-> e]}]

\* The world after event e, or the error that the row is missing.
Applied(world, e, r) ==
  CASE r.type = "file.created" -> WithFile(world, r)
    [] r.type = "process.created" -> WithProcess(world, r)
    [] r.type = "signal" -> WithSignal(world, r)
    [] r.type = "clock.created" -> WithClock(world, r)
    [] r.type \in {"clock.set", "clock.advanced"} -> WithReading(world, e, r)
    [] r.type = "clock.contradiction" -> WithConflict(world, e, r)
    [] OTHER -> world

\* The events of a set, in their order, applied to an empty world.
Replayed(s, events) ==
  LET after[n \in 0 .. Len(s.log)] ==
        IF n = 0 THEN EmptyWorld
        ELSE LET world == after[n - 1]
             IN  IF n \notin events \/ world = Failed THEN world
                 ELSE Applied(world, n, s.log[n])
  IN  after[Len(s.log)]

\* A bug: a fork starts from the tables of its parent.
ForkedWorldNow(s, e) == s.world[s.log[e].branch]

\* What a fork from e takes over: the world along the ancestry of e.
ForkedWorld(s, e) == Replayed(s, ParentChain(s, e))

WorldAfter(s, r) ==
  IF r.type = "session.forked" THEN ForkedWorld(s, r.parent)
  ELSE Applied(s.world[r.branch], Len(s.log) + 1, r)

\* An append and its projections, unless they raise.
Appended(s, r) ==
  [s EXCEPT !.log = Append(@, r), !.branch = BranchRows(s, r),
            !.world[r.branch] = WorldAfter(s, r)]

-----------------------------------------------------------------------------
(* The runtime: what a command does to a world *)

Record(type, b, parent, cause) ==
  [type |-> type, branch |-> b, parent |-> parent, cause |-> cause, at |-> 0,
   op |-> "none", name |-> "none", n |-> 0, value |-> 0, prior |-> 0, state |-> "none"]

RevisionsOf(world, c) == {x \in world.revisions : x.clock = c}

\* A bug: the revision a reading gets is the one that is current.
NextRevisionSame(world, c) == IF RevisionsOf(world, c) = {} THEN 1
                              ELSE Cardinality(RevisionsOf(world, c))

NextRevision(world, c) == Cardinality(RevisionsOf(world, c)) + 1
Latest(world, c) == CHOOSE x \in RevisionsOf(world, c) :
                      \A y \in RevisionsOf(world, c) : y.n <= x.n

\* The mentions an explicit operation can cite: visible, and not after the request.
Mentioned(s, q, p) ==
  \E m \in Visible(s, s.log[q].branch) :
    /\ s.log[m].type = "mention" /\ s.log[m].name = p
    /\ s.log[m].branch = s.log[q].branch => m <= q

Mutation(type, q, r) == [Record(type, r.branch, 0, q) EXCEPT !.name = r.name]

Reading(type, op, value, world, q, r) ==
  [Mutation(type, q, r) EXCEPT !.op = op, !.value = value, !.n = NextRevision(world, r.name)]

CreateFile(q, r) == <<Mutation("file.created", q, r)>>
CreateClock(q, r) == <<Mutation("clock.created", q, r)>>

\* A path that is looked at is made if it was mentioned, a clock if it is asked for.
MaterializeFile(s, world, q, r) ==
  IF r.name \notin world.nodes /\ Mentioned(s, q, r.name) THEN CreateFile(q, r) ELSE <<>>

MaterializeClock(world, q, r) ==
  IF world.clocks[r.name] = Absent THEN CreateClock(q, r) ELSE <<>>

\* A reading that differs from the one before contradicts it.
SetClock(world, q, r) ==
  LET reading == Reading("clock.set", "set", r.value, world, q, r)
      differs == RevisionsOf(world, r.name) # {} /\ Latest(world, r.name).value # r.value
      conflict(prior) == [Mutation("clock.contradiction", q, r) EXCEPT
                            !.prior = prior.n, !.n = reading.n]
  IN  IF world.clocks[r.name] = Absent THEN <<>>
      ELSE IF differs THEN <<reading, conflict(Latest(world, r.name))>> ELSE <<reading>>

AdvanceClock(world, q, r) ==
  IF RevisionsOf(world, r.name) = {} THEN <<>>
  ELSE <<Reading("clock.advanced", "advance", Latest(world, r.name).value + r.value,
                 world, q, r)>>

Signal(world, q, r) ==
  IF world.procs[r.name] = Absent THEN <<>>
  ELSE <<[Mutation("signal", q, r) EXCEPT
            !.op = r.op,
            !.state = IF r.op = "TERM" THEN "terminated"
                      ELSE world.procs[r.name].state]>>

\* What request q makes of the world that was hydrated; an error, or a look, makes
\* nothing.
Plan(s, world, q) ==
  LET r == s.log[q]
  IN  CASE r.op = "read" -> MaterializeFile(s, world, q, r)
        [] r.op = "create" -> MaterializeClock(world, q, r)
        [] r.op = "set" -> SetClock(world, q, r)
        [] r.op = "advance" -> AdvanceClock(world, q, r)
        [] OTHER -> Signal(world, q, r)

-----------------------------------------------------------------------------
(* What others append *)

OfType(type) == {e \in Event(db) : db.log[e].type = type}
Branches == {b \in Branch : Exists(db, b)}

Appends(r) == db' = Appended(db, [r EXCEPT !.at = Len(db.log) + 1])
Happens(r) ==
  /\ appends < MaxAppends /\ appends' = appends + 1
  /\ Appends(r) /\ UNCHANGED <<leases, done, hand, faults, overdue>>

\* An analysis that finds a path in an output.
Mention(b, p) ==
  Happens([Record("mention", b, LastEvent(db, b), 0) EXCEPT !.name = p])

Commands ==
  [op : {"create"}, name : Clock, value : {0}]
  \cup [op : {"set", "advance"}, name : Clock, value : Value]
  \cup [op : {"read"}, name : Path, value : {0}]
  \cup [op : {"TERM", "HUP"}, name : Pid, value : {0}]

\* request_tool, for a command of the operator or of the oracle.
RequestTool(b, command) ==
  Happens([Record("tool.request", b, LastEvent(db, b), 0) EXCEPT
              !.op = command.op, !.name = command.name, !.value = command.value])

\* fork, which is rolled back where the projection raises.
Fork(e, b) ==
  /\ ~ Exists(db, b) /\ Happens(Record("session.forked", b, e, e))
  /\ ForkedWorld(db, e) # Failed

-----------------------------------------------------------------------------
(* The tool job *)

At(w, step) == hand[w].step = step
Mine(w) == hand[w].request
Goes(w, h) == hand' = [hand EXCEPT ![w] = h]
GoTo(w, step) == Goes(w, [hand[w] EXCEPT !.step = step])

\* serialize_branch: one lease for the jobs of a branch.
TakeJob(w, q) ==
  /\ At(w, "idle") /\ q \notin done
  /\ \A lease \in leases : lease[1] # w /\ db.log[lease[2]].branch # db.log[q].branch
  /\ leases' = leases \cup {<<w, q>>}
  /\ Goes(w, [IdleHand EXCEPT !.step = "look", !.request = q])
  /\ UNCHANGED <<appends, db, done, faults, overdue>>

Expire(w, q) ==
  /\ <<w, q>> \in leases /\ leases' = leases \ {<<w, q>>}
  /\ IF Mine(w) = q THEN faults + overdue < MaxTrouble /\ overdue' = overdue + 1
     ELSE UNCHANGED overdue
  /\ UNCHANGED <<appends, db, done, hand, faults>>

Results(q) == {e \in OfType("tool.result") : db.log[e].cause = q}

Look(w) ==
  /\ At(w, "look")
  /\ GoTo(w, IF Results(Mine(w)) = {} THEN "start" ELSE "settle")
  /\ UNCHANGED <<appends, db, leases, done, faults, overdue>>

Start(w) ==
  /\ At(w, "start")
  /\ Appends(Record("tool.started", db.log[Mine(w)].branch, Mine(w), Mine(w)))
  /\ Goes(w, [hand[w] EXCEPT !.step = "hydrate", !.started = Len(db.log) + 1])
  /\ UNCHANGED <<appends, leases, done, faults, overdue>>

\* hydrate, the materialisers and the command: what will be appended is settled.
Hydrate(w) ==
  /\ At(w, "hydrate")
  /\ LET plan == Plan(db, db.world[db.log[Mine(w)].branch], Mine(w))
     IN  Goes(w, [hand[w] EXCEPT !.step = IF plan = <<>> THEN "finish" ELSE "mutate",
                                 !.todo = plan])
  /\ UNCHANGED <<appends, db, leases, done, faults, overdue>>

\* mutation_sink.
Mutate(w) ==
  /\ At(w, "mutate")
  /\ LET r == Head(hand[w].todo)
         rest == Tail(hand[w].todo)
     IN  /\ Appends([r EXCEPT !.parent = LastEvent(db, r.branch)])
         /\ Goes(w, [hand[w] EXCEPT !.step = IF rest = <<>> THEN "finish" ELSE "mutate",
                                    !.todo = rest])
  /\ UNCHANGED <<appends, leases, done, faults, overdue>>

Finish(w) ==
  /\ At(w, "finish")
  /\ Appends(Record("tool.result", db.log[Mine(w)].branch, hand[w].started, Mine(w)))
  /\ GoTo(w, "settle")
  /\ UNCHANGED <<appends, leases, done, faults, overdue>>

\* The acknowledgement, by an executor that still has its lease.
Settle(w) ==
  /\ At(w, "settle")
  /\ done' = IF <<w, Mine(w)>> \in leases THEN done \cup {Mine(w)} ELSE done
  /\ leases' = leases \ {<<w, Mine(w)>>}
  /\ Goes(w, IdleHand)
  /\ UNCHANGED <<appends, db, faults, overdue>>

\* An executor dies; one that fails gives its lease back as well.
Die(w) ==
  /\ ~ At(w, "idle") /\ faults + overdue < MaxTrouble /\ faults' = faults + 1
  /\ Goes(w, IdleHand)
  /\ UNCHANGED <<appends, db, leases, done, overdue>>

-----------------------------------------------------------------------------
\* Processes come into a world by import only: the session has one, a mention of a path,
\* and a clock that is asked for, or that was created and set.
Started == [Record("session.created", Main, 0, 0) EXCEPT !.at = 1]
Imported(p) == [Record("process.created", Main, 1, 1) EXCEPT !.at = 2, !.name = p]
Exchange(op, type, c, at) ==
  <<[Record("tool.request", Main, at - 1, 0) EXCEPT !.at = at, !.op = op, !.name = c],
    [Record(type, Main, at, at) EXCEPT
       !.at = at + 1, !.name = c, !.op = IF op = "set" THEN op ELSE "none",
       !.n = IF op = "set" THEN 1 ELSE 0],
    [Record("tool.result", Main, at, at) EXCEPT !.at = at + 2]>>
Found(path) == [Record("mention", Main, 2, 0) EXCEPT !.at = 3, !.name = path]
WorldOf(p, path, c) ==
  <<Started, Imported(p), Found(path)>> \o Exchange("create", "clock.created", c, 4)
                                        \o Exchange("set", "clock.set", c, 7)

Histories == UNION {{SubSeq(WorldOf(p, path, c), 1, 4), WorldOf(p, path, c)} :
                      p \in Pid, path \in Path, c \in Clock}

WorldInit ==
  /\ \E history \in Histories :
       LET first == [log |-> history,
                     branch |-> [b \in Branch |-> IF b = Main THEN MainRow ELSE NoRow],
                     world |-> [b \in Branch |-> EmptyWorld]]
       IN  /\ db = [first EXCEPT !.world[Main] = Replayed(first, DOMAIN history)]
           /\ done = {q \in DOMAIN history :
                       \E e \in DOMAIN history : history[e].type = "tool.result"
                                                /\ history[e].cause = q}
           /\ appends = Cardinality({q \in DOMAIN history :
                                       history[q].type = "tool.request"} \ done)
  /\ appends <= MaxAppends
  /\ leases = {} /\ hand = [w \in Executor |-> IdleHand]
  /\ faults = 0 /\ overdue = 0

WorldNext ==
  \/ \E b \in Branches : \/ \E p \in Path : Mention(b, p)
                         \/ \E command \in Commands : RequestTool(b, command)
  \/ \E e \in Event(db), b \in Branch : Fork(e, b)
  \/ \E w \in Executor :
       \/ \E q \in OfType("tool.request") : TakeJob(w, q) \/ Expire(w, q)
       \/ Look(w) \/ Start(w) \/ Hydrate(w) \/ Mutate(w) \/ Finish(w) \/ Settle(w)
       \/ Die(w)

WorldSpec == WorldInit /\ [][WorldNext]_worldVars

-----------------------------------------------------------------------------
(* EventBackedVirtualWorld: the world replayed from the events of a branch *)

\* A bug: a terminated process is woken by the next signal.
ReplayedSignalWakes(proc, r) ==
  [state |-> "running", signals |-> Append(proc.signals, r.op)]

ReplayedSignal(proc, r) == [state |-> r.state, signals |-> Append(proc.signals, r.op)]

\* A clock that is created again starts anew.
WithNewClock(world, r) ==
  [WithClock(world, r) EXCEPT !.revisions = {x \in @ : x.clock # r.name},
                              !.conflicts = {x \in @ : x.clock # r.name}]

\* The first reading of a revision stays; a row that is missing is passed over.
EventBacked(s, b) ==
  LET known(world, r) == r.name \in Clock /\ world.clocks[r.name] # Absent
      next(world, e, r) ==
        IF r.type = "signal"
        THEN IF world.procs[r.name] = Absent THEN world
             ELSE [world EXCEPT !.procs[r.name] = ReplayedSignal(@, r)]
        ELSE IF r.type = "clock.created" THEN WithNewClock(world, r)
        ELSE IF r.type \in {"clock.set", "clock.advanced"}
        THEN IF ~ known(world, r) \/ \E x \in RevisionsOf(world, r.name) : x.n = r.n
             THEN world ELSE Applied(world, e, r)
        ELSE IF r.type = "clock.contradiction" /\ ~ known(world, r) THEN world
        ELSE Applied(world, e, r)
      after[n \in 0 .. Len(s.log)] ==
        IF n = 0 THEN EmptyWorld
        ELSE LET world == after[n - 1]
             IN  IF s.log[n].branch = b THEN next(world, n, s.log[n]) ELSE world
  IN  after[Len(s.log)]

-----------------------------------------------------------------------------
(* Properties *)

\* Nothing in a world is invented: a file was mentioned, where it can be seen and
\* before somebody asked for it, a clock was asked for by name, and a reading or
\* a signal by a request of its own (README.md:130-138, VirtualArtifactMaterializer).
NothingInvented ==
  \A e \in Event(db) :
    LET r == db.log[e]
        asked(ops) == r.cause \in 1 .. e - 1 /\ db.log[r.cause].op \in ops
                      /\ db.log[r.cause].name = r.name
    IN  /\ r.type = "file.created" =>
             /\ asked({"read"})
             /\ \E m \in OfType("mention") :
                  /\ db.log[m].name = r.name /\ m < r.cause
                  /\ m \in Visible(db, r.branch)
        /\ r.type = "clock.created" => asked({"create"})
        /\ r.type = "clock.set" => asked({"set"})
        /\ r.type = "clock.advanced" => asked({"advance"})

\* "Every revision remains in the event log and rebuildable projection.  A differing
\* second set preserves both readings and emits an unresolved contradiction"
\* (README.md:143-146), as long as no lease expires under an executor and none
\* dies in a job: on a session's first branch no reading is lost, none doubled, none
\* repaired silently, and a process that was ended stays so.  A fork may have fewer
\* readings than the number of its last, and then its next ones replace each other.
ReadingsKept ==
  faults = 0 /\ overdue = 0 =>
    /\ \A e \in Own(db, Main) :
         db.log[e].type \in {"clock.set", "clock.advanced"} =>
           RevisionOf(e, db.log[e]) \in db.world[Main].revisions
    /\ LET world == db.world[Main]
       IN  /\ \A x, y \in world.revisions :
                /\ x # y => db.log[x.event].cause # db.log[y.event].cause
                /\ (/\ x.clock = y.clock /\ y.n = x.n + 1
                    /\ y.op = "set" /\ x.value # y.value
                    /\ Results(db.log[y.event].cause) # {})
                   => \E k \in world.conflicts :
                        k.clock = x.clock /\ k.prior = x.n /\ k.n = y.n
           /\ \A p \in Pid : world.procs[p] # Absent =>
                (world.procs[p].state = "terminated"
                 <=> "TERM" \in {world.procs[p].signals[i] :
                                   i \in DOMAIN world.procs[p].signals})

\* What is recorded of a world is typed, was asked for and is kept.
WorldInv == WorldTypeOK /\ NothingInvented /\ ReadingsKept

\* The two ways the code has to a world, its tables and the replay of its branch, give
\* the same world of a session's first branch, also after crashes and retries, as
\* long as no lease expires under an executor.
RuntimesAgree ==
  overdue = 0 => EventBacked(db, Main) = db.world[Main]

\* A world is made of what its branch can see: what other branches do after a fork,
\* and did beside the event it was made from, is not in it.
WorldIsVisible ==
  \A b \in Branches :
    \A row \in db.world[b].revisions \cup db.world[b].conflicts :
      row.event \in Visible(db, b)

-----------------------------------------------------------------------------
(* The inductive invariant of the proofs *)

Readings == {"clock.set", "clock.advanced"}
OfClocks == Readings \cup {"clock.created", "clock.contradiction"}

\* What an event is about.
NameFits(r) ==
  /\ r.type = "file.created" => r.name \in Path
  /\ r.type \in {"process.created", "signal"} => r.name \in Pid
  /\ r.type = "signal" => r.op \in {"TERM", "HUP"} /\ r.state # "none"
  /\ r.type \in OfClocks => r.name \in Clock
  /\ r.type = "clock.set" => r.op = "set"
  /\ r.type = "clock.advanced" => r.op = "advance"
  /\ r.type = "tool.request" =>
       /\ r.op = "read" => r.name \in Path
       /\ r.op \in {"create", "set", "advance"} => r.name \in Clock
       /\ r.op \in {"TERM", "HUP"} => r.name \in Pid
       /\ r.op # "none"

\* The rows that an event changes are there.
Applies(world, r) ==
  /\ r.type = "signal" => world.procs[r.name] # Absent
  /\ r.type \in Readings \cup {"clock.contradiction"} => world.clocks[r.name] # Absent

\* Whatever has a row has an event on its branch, and a fork is before all of them.
LogSound(s) ==
  /\ s.log # <<>>
  /\ \A e \in Event(s) :
       /\ s.log[e].at = e /\ {s.log[e].parent, s.log[e].cause} \subseteq 0 .. e - 1
       /\ NameFits(s.log[e])
  /\ \A b \in Branch :
       /\ Exists(s, b) <=> Own(s, b) # {}
       /\ \A e \in Own(s, b) : s.branch[b].fork < e
  /\ Own(s, Main) # {} /\ s.branch[Main].fork = NoEvent

\* What a request may be answered with.
Asked(s, q, r) ==
  /\ r.cause = q /\ r.branch = s.log[q].branch /\ r.name = s.log[q].name
  /\ r.type \in Mutations \ {"process.created"} /\ NameFits(r)
  /\ Applies(s.world[r.branch], r)
  /\ r.type = "file.created" => s.log[q].op = "read" /\ Mentioned(s, q, r.name)
  /\ r.type = "clock.created" => s.log[q].op = "create"
  /\ r.type = "clock.set" => s.log[q].op = "set"
  /\ r.type = "clock.advanced" => s.log[q].op = "advance"

Working(w) == ~ At(w, "idle")
Todo(w) == hand[w].todo

\* A handler has its request, and what it will append can be appended.
HandFits(w) ==
  /\ Working(w) => Mine(w) \in OfType("tool.request")
  /\ hand[w].step \in {"hydrate", "mutate", "finish"} => hand[w].started \in Event(db)
  /\ At(w, "mutate") =>
       /\ Todo(w) # <<>>
       /\ \A k \in DOMAIN Todo(w) :
            /\ Asked(db, Mine(w), Todo(w)[k])
            /\ k # 1 => Todo(w)[k].type = "clock.contradiction"

\* A branch is leased to one executor, which has one lease.
LeasesApart ==
  /\ \A lease \in leases : lease[2] \in OfType("tool.request")
  /\ \A x, y \in leases :
       x[1] = y[1] \/ db.log[x[2]].branch = db.log[y[2]].branch => x = y

\* Readings and contradictions are of clocks that are there.
Clocked(world) ==
  /\ IsFiniteSet(world.revisions)
  /\ \A x \in world.revisions \cup world.conflicts : world.clocks[x.clock] # Absent

WorldsSound ==
  /\ LogSound(db) /\ LeasesApart
  /\ \A b \in Branch : Clocked(db.world[b])
  /\ \A w \in Executor : HandFits(w)

\* The revisions of a clock are numbered, each number once.
Numbered(world) ==
  \A c \in Clock :
    /\ {x.n : x \in RevisionsOf(world, c)} = 1 .. Cardinality(RevisionsOf(world, c))
    /\ \A x, y \in RevisionsOf(world, c) : x.n = y.n => x = y

Terminates(world, r) == IF r.op = "TERM" THEN "terminated" ELSE world.procs[r.name].state

\* What follows a reading in the plan of a request.
Contradicts(x, r, k) ==
  k.type = "clock.contradiction" /\ k.name = r.name /\ k.prior = x.n /\ k.n = r.n

\* What an executor will append is still what the world asks for: nobody else is at work
\* on its branch.
PlanFits(w) ==
  LET world == db.world[Main]
      r == Todo(w)[1]
  IN  /\ r.type = "signal" => r.state = Terminates(world, r)
      /\ r.type = "clock.created" => world.clocks[r.name] = Absent
      /\ r.type \in Readings => r.n = NextRevision(world, r.name)
      /\ r.type = "clock.set" =>
           \A x \in RevisionsOf(world, r.name) :
             (x.n + 1 = r.n /\ x.value # r.value) =>
               Len(Todo(w)) = 2 /\ Contradicts(x, r, Todo(w)[2])

OnMain(w) == Working(w) /\ db.log[Mine(w)].branch = Main

\* On time.
WorldOnTime ==
  LET world == db.world[Main]
  IN  /\ EventBacked(db, Main) = world
      /\ Numbered(world)
      /\ \A e \in Own(db, Main) : db.log[e].type \in Readings =>
           RevisionOf(e, db.log[e]) \in world.revisions
      /\ \A x \in world.revisions :
           /\ x.event \in Own(db, Main) /\ db.log[x.event].type \in Readings
           /\ x = RevisionOf(x.event, db.log[x.event])
      /\ \A p \in Pid : world.procs[p] # Absent =>
           (world.procs[p].state = "terminated"
            <=> "TERM" \in {world.procs[p].signals[i] : i \in DOMAIN world.procs[p].signals})
      /\ \A w \in Executor : Working(w) => <<w, Mine(w)>> \in leases
      /\ \A w \in Executor : OnMain(w) /\ At(w, "mutate") => PlanFits(w)

\* The readings are behind w.
Read(w) == \/ hand[w].step \in {"finish", "settle"}
           \/ At(w, "mutate") /\ Todo(w)[1].type = "clock.contradiction"

\* On time, and nobody died: a request is answered once.
AnsweredOnce ==
  /\ \A lease \in leases : Working(lease[1]) /\ Mine(lease[1]) = lease[2]
  /\ \A w \in Executor : Working(w) => Mine(w) \notin done
  /\ \A w \in Executor : hand[w].step \in {"start", "hydrate", "mutate", "finish"} =>
                           Results(Mine(w)) = {}
  /\ \A e \in Own(db, Main) : db.log[e].type \in Readings =>
       \/ db.log[e].cause \in done
       \/ \E w \in Executor : Working(w) /\ Mine(w) = db.log[e].cause /\ Read(w)
  /\ \A e, f \in Own(db, Main) :
       (/\ db.log[e].type \in Readings /\ db.log[f].type \in Readings
        /\ db.log[e].cause = db.log[f].cause) => e = f

\* A contradiction is in the tables or about to be.
ConflictsDue ==
  \A x, y \in db.world[Main].revisions :
    (x.clock = y.clock /\ y.n = x.n + 1 /\ y.op = "set" /\ x.value # y.value) =>
      \/ \E k \in db.world[Main].conflicts : k.clock = x.clock /\ k.prior = x.n /\ k.n = y.n
      \/ \E w \in Executor :
           /\ OnMain(w) /\ At(w, "mutate") /\ Mine(w) = db.log[y.event].cause
           /\ Contradicts(x, db.log[y.event], Todo(w)[1])

WorldStory ==
  /\ WorldsSound /\ NothingInvented /\ WorldIsVisible
  /\ overdue = 0 => WorldOnTime
  /\ overdue = 0 /\ faults = 0 => AnsweredOnce /\ ConflictsDue
===============================================================================
