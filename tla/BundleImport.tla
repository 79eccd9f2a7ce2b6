----------------------------- MODULE BundleImport -----------------------------
(***************************************************************************)
(* A session leaves one laboratory as a research bundle and enters another *)
(* one; a session may also come from a log of another program.             *)
(*   exporting.py      what of a session a bundle holds                    *)
(*   bundle_import.py  what of a bundle is accepted; the archives that are *)
(*                     copied and the events that are appended, in one     *)
(*                     transaction that takes its files back when it fails *)
(*   historical_import.py  a log as the ancestry of a new session          *)
(*   services.py       export, import_bundle                               *)
(*                                                                         *)
(* The session is grown by the operations of the other modules, reduced to *)
(* the events they append.  The bundle is then imported by several         *)
(* importers of one laboratory, which may fail or die at any point: the    *)
(* database is rolled back, files are not.  An event keeps its identity,   *)
(* its place in the session's log.                                         *)
(***************************************************************************)
EXTENDS EventLog

CONSTANTS
  Importer,       \* processes that import the bundle
  Origins,        \* of what the providers answer, "genuine" and "synthetic"
  MaxSteps,       \* bound of the model: what happens in the session before it is exported
  MaxRetries,     \* bound of the model on repeated runs of an oracle request
  MaxErrors,      \* bound of the model on writes and appends that raise
  MaxCrashes      \* bound of the model on importers that die

ASSUME BundleAssumption ==
  /\ "none" \notin Importer /\ Origins \subseteq {"genuine", "synthetic"}
  /\ {MaxSteps, MaxRetries, MaxErrors, MaxCrashes} \subseteq Nat

VARIABLES
  session,        \* the session that is exported: its log and its branches
  steps, retries, \* bounded counters of what happened in it
  bundle,         \* what was exported
  db,             \* the sessions of the laboratory that imports: what each import committed
  lock,           \* the importer in a write transaction
  disk, torn,     \* the archive files there, and those that are cut off
  importer,       \* what each importer does
  errors, crashes

grownVars == <<session, steps, retries>>
labVars == <<db, lock, disk, torn, importer, errors, crashes>>
bundleVars == <<grownVars, bundle, labVars>>

Outputs == {"oracle.output"}
Runs == {"worker.run_completed"}
Archived == Outputs \cup Runs
Types == Archived \cup {"session.created", "session.forked", "human.input", "human.keep",
                        "oracle.request", "oracle.context_built", "worker.task", "job",
                        "session.imported"}

\* `cites` are the events the payload names, `origin` is that of the material, `job` the
\* task a job runs and `status` that of a job's snapshot.
EventRecord ==
  [type : Types, branch : Branch, parent : Nat, cause : Nat, at : Nat,
   cites : SUBSET Nat, origin : {"genuine", "historical", "synthetic"}, job : Nat,
   status : {"none", "pending", "leased", "completed"}]

\* The files of an archive, which are written in their order; 0 is a directory.
Parts(type) == IF type \in Outputs THEN {1, 2} ELSE {0, 1, 2}
File == Nat \X (0 .. 2)

NoImporter == "none"
Nothing == [empty |-> TRUE]

\* `todo` are the archived events still to be looked at or written, `reuse` those whose
\* files were there, `foreign` those of them an import at work had made, `made` the
\* files the importer created, the last one first.
ImporterState ==
  [step : {"idle", "plan", "write", "undo"},
   todo : SUBSET Nat, reuse : SUBSET Nat, foreign : SUBSET Nat, made : Seq(File)]
Idle == [step |-> "idle", todo |-> {}, reuse |-> {}, foreign |-> {}, made |-> <<>>]

BundleTypeOK ==
  /\ session \in [log : Seq(EventRecord), branch : [Branch -> BranchRow \cup {NoRow}]]
  /\ bundle = Nothing \/ /\ bundle.events \subseteq Event(session)
                         /\ bundle.current \in Branch
  /\ db \in Seq([foreign : SUBSET Nat, quarantined : SUBSET Nat])
  /\ lock \in Importer \cup {NoImporter}
  /\ \A f \in disk : f \in File /\ f[1] \in bundle.events
  /\ torn \subseteq disk
  /\ importer \in [Importer -> ImporterState]
  /\ steps \in 0 .. MaxSteps /\ retries \in 0 .. MaxRetries
  /\ errors \in 0 .. MaxErrors /\ crashes \in 0 .. MaxCrashes

-----------------------------------------------------------------------------
(* The session *)

Record(type, b, parent, cause) ==
  [type |-> type, branch |-> b, parent |-> parent, cause |-> cause, at |-> 0,
   cites |-> {}, origin |-> "genuine", job |-> 0, status |-> "none"]

Appended(s, r) ==
  [s EXCEPT !.log = Append(@, [r EXCEPT !.at = Len(s.log) + 1]),
            !.branch = BranchRows(s, r)]

OfType(type) == {e \in Event(session) : session.log[e].type = type}
Caused(type, cause) == {e \in OfType(type) : session.log[e].cause = cause}

Happens(r) ==
  /\ steps' = steps + 1
  /\ session' = Appended(session, r)
  /\ UNCHANGED <<bundle, labVars>>

Say(b) ==
  /\ Exists(session, b)
  /\ Happens(Record("human.input", b, LastEvent(session, b), 0))
  /\ UNCHANGED retries

Ask(b) ==
  /\ Exists(session, b)
  /\ Happens(Record("oracle.request", b, LastEvent(session, b), 0))
  /\ UNCHANGED retries

\* A run of the request appends a context, also where an earlier run did.
Build(q) ==
  /\ Caused("oracle.output", q) = {}
  /\ retries' = IF Caused("oracle.context_built", q) = {} THEN retries ELSE retries + 1
  /\ retries' <= MaxRetries
  /\ Happens([Record("oracle.context_built", session.log[q].branch, q, q) EXCEPT
                !.cites = {e \in ParentChain(session, q) :
                             session.log[e].type \in {"human.input", "oracle.output"}}])

\* The store takes genuine material of a request with one context only.
Answer(q, origin) ==
  /\ Caused("oracle.output", q) = {}
  /\ \E c \in Caused("oracle.context_built", q) :
       /\ \A x \in Caused("oracle.context_built", q) : x = c \/ (x < c /\ origin # "genuine")
       /\ Happens([Record("oracle.output", session.log[q].branch, c, q) EXCEPT
                     !.origin = origin])
  /\ UNCHANGED retries

Keep(e) ==
  /\ Happens([Record("human.keep", session.log[e].branch,
                     LastEvent(session, session.log[e].branch), e) EXCEPT !.cites = {e}])
  /\ UNCHANGED retries

Fork(e, b) ==
  /\ ~ Exists(session, b)
  /\ Happens([Record("session.forked", b, e, e) EXCEPT !.cites = {e}])
  /\ UNCHANGED retries

\* A coding task and the first snapshot of its job.
Snapshots(t) == {e \in OfType("job") : session.log[e].job = t}
LastSnapshot(t) == CHOOSE e \in Snapshots(t) : \A x \in Snapshots(t) : x <= e
Snapshot(t, behind, status) ==
  [Record("job", session.log[t].branch, behind, behind) EXCEPT
     !.job = t, !.status = status, !.cites = {t}]

Task(b) ==
  /\ Exists(session, b)
  /\ Happens(Record("worker.task", b, LastEvent(session, b), 0))
  /\ UNCHANGED retries

Enqueue(t) ==
  /\ Snapshots(t) = {} /\ Happens(Snapshot(t, t, "pending"))
  /\ UNCHANGED retries

Lease(t) ==
  /\ Snapshots(t) # {} /\ session.log[LastSnapshot(t)].status = "pending"
  /\ Happens(Snapshot(t, LastSnapshot(t), "leased"))
  /\ UNCHANGED retries

RunEnds(t) ==
  /\ Snapshots(t) # {} /\ session.log[LastSnapshot(t)].status = "leased"
  /\ Caused("worker.run_completed", t) = {}
  /\ Happens([Record("worker.run_completed", session.log[t].branch, t, t) EXCEPT
                !.cites = {t}])
  /\ UNCHANGED retries

Complete(t) ==
  /\ Snapshots(t) # {} /\ session.log[LastSnapshot(t)].status = "leased"
  /\ Caused("worker.run_completed", t) # {}
  /\ Happens(Snapshot(t, LastSnapshot(t), "completed"))
  /\ UNCHANGED retries

-----------------------------------------------------------------------------
(* A session that comes from a historical log *)

Root == [Record("session.created", Main, 0, 0) EXCEPT !.at = 1]

Messages(log) == {e \in DOMAIN log : log[e].type \in {"human.input", "oracle.output"}}

Told(r, at) == [r EXCEPT !.at = at, !.origin = "historical"]

Heard(log) ==
  LET n == Len(log)
  IN  <<Told(Record("human.input", Main, n, n), n + 1)>>

\* An answer gets a request and a context, of all that was said before.
Answered(log) ==
  LET n == Len(log)
      seen(r, at) == [Told(r, at) EXCEPT !.cites = Messages(log)]
  IN  <<seen(Record("oracle.request", Main, n, n), n + 1),
        seen(Record("oracle.context_built", Main, n + 1, n + 1), n + 2),
        Told(Record("oracle.output", Main, n + 2, n + 1), n + 3)>>

\* One message, behind the one before.
Said(log, role) == log \o (IF role = "user" THEN Heard(log) ELSE Answered(log))

\* All of it in one append: the messages, the context they make, and a note of the import.
HistoricalLog(roles) ==
  LET said[n \in 0 .. Len(roles)] ==
        IF n = 0 THEN <<Root>> ELSE Said(said[n - 1], roles[n])
      log == said[Len(roles)]
      tip == Len(log)
  IN  log \o <<[Record("oracle.context_built", Main, tip, tip) EXCEPT
                  !.at = tip + 1, !.cites = Messages(log)],
               [Record("session.imported", Main, tip + 1, 1) EXCEPT
                  !.at = tip + 2, !.cites = Messages(log) \cup {1, tip, tip + 1}]>>

-----------------------------------------------------------------------------
(* The export *)

\* What an event cites, and what carries the origin of material to it.
References(s, e) == ({s.log[e].parent, s.log[e].cause} \cup s.log[e].cites) \ {NoEvent}

\* A bug: only the fixtures themselves are left out.
GenuineEventsFlat(s) == {e \in Event(s) : s.log[e].origin # "synthetic"}

\* A fixture and everything derived from it is left out.
GenuineEvents(s) ==
  LET derived[n \in 0 .. Len(s.log)] ==
        IF n = 0 THEN {}
        ELSE LET before == derived[n - 1]
             IN  IF s.log[n].origin = "synthetic" \/ References(s, n) \cap before # {}
                 THEN before \cup {n} ELSE before
  IN  Event(s) \ derived[Len(s.log)]

\* Any event on a branch makes it the session's current one.
CurrentBranch(s) == s.log[Len(s.log)].branch

\* What is written; the archives of what is exported are there and whole.
Exported(s) == [events |-> GenuineEvents(s), current |-> CurrentBranch(s)]

Export ==
  /\ bundle = Nothing /\ bundle' = Exported(session)
  /\ UNCHANGED <<grownVars, labVars>>

-----------------------------------------------------------------------------
(* What of a bundle is accepted *)

Kept(type) == {e \in bundle.events : session.log[e].type = type}
BranchesOf(events) == {session.log[e].branch : e \in events}

\* _validate_branch_lineage
LineageHolds ==
  /\ \E root \in bundle.events :
       /\ Kept("session.created") = {root}
       /\ \A b \in BranchesOf(bundle.events) :
            Cardinality({e \in Kept("session.forked") : session.log[e].branch = b})
              = IF b = session.log[root].branch THEN 0 ELSE 1
  /\ \A e \in bundle.events :
       (/\ session.log[e].parent \in bundle.events
        /\ session.log[session.log[e].parent].branch # session.log[e].branch)
       => session.log[e].type = "session.forked"

\* _validate_context_snapshots
ContextsHold ==
  /\ \A c \in Kept("oracle.context_built") :
       /\ session.log[c].cites \subseteq ParentChain(session, c) \ {c}
       /\ \A x \in Kept("oracle.context_built") :
            (/\ session.log[x].cause = session.log[c].cause
             /\ session.log[c].cause \in Kept("oracle.request")) => x = c
  /\ \A e \in Kept("oracle.output") :
       \E c \in Kept("oracle.context_built") : session.log[c].cause = session.log[e].cause

\* _topological_events: references lead to events of the bundle, and never in a circle.
ReferencesHold ==
  \A e \in bundle.events :
    /\ References(session, e) \subseteq bundle.events
    /\ \A x \in References(session, e) : x < e

Curation == Kept("human.keep")

Acceptable(authorised) ==
  /\ LineageHolds /\ ContextsHold /\ ReferencesHold
  /\ bundle.current \in BranchesOf(bundle.events)
  /\ Curation # {} => authorised

\* What comes from a historical log has no archive.
Copies == {e \in bundle.events : /\ session.log[e].type \in Archived
                                /\ session.log[e].origin = "genuine"}
\* The answers of the oracle come first, then the runs.
Rank(e) == IF session.log[e].type \in Outputs THEN 1 ELSE 2
First(events) ==
  CHOOSE e \in events : \A x \in events \ {e} :
    Rank(e) < Rank(x) \/ (Rank(e) = Rank(x) /\ e < x)

FilesOf(e) == {e} \X Parts(session.log[e].type)
Whole(e) == FilesOf(e) \subseteq disk \ torn

\* A bug: leased jobs are taken to be somebody's work.
UnfinishedPending(t) == session.log[LastSnapshot(t)].status = "pending"

\* _pending_imported_worker_jobs, by the last snapshot of each job.
Unfinished(t) == session.log[LastSnapshot(t)].status \in {"pending", "leased"}
Quarantined ==
  {t \in {session.log[e].job : e \in Kept("job")} : Unfinished(t)}

-----------------------------------------------------------------------------
(* An import *)

At(i, step) == importer[i].step = step
Goes(i, h) == importer' = [importer EXCEPT ![i] = h]
Held(i) == IF lock = i THEN NoImporter ELSE lock
Name(i) == First(importer[i].todo)
Rest(i) == importer[i].todo \ {Name(i)}
MadeBy(i) == {importer[i].made[k] : k \in DOMAIN importer[i].made}
LabRest == <<grownVars, bundle>>

Verify(i, authorised) ==
  /\ At(i, "idle") /\ bundle # Nothing /\ Acceptable(authorised)
  /\ Goes(i, [Idle EXCEPT !.step = "plan", !.todo = Copies])
  /\ UNCHANGED <<LabRest, db, lock, disk, torn, errors, crashes>>

Theirs(i) == {f[1] : f \in UNION {MadeBy(j) : j \in Importer \ {i}}}

Comes(i, types) == importer[i].todo # {} /\ session.log[Name(i)].type \in types

\* Files that are all there are reused, files that are there in part not touched.
Repointed(i) ==
  LET e == Name(i)
      rest == [importer[i] EXCEPT !.todo = Rest(i)]
  IN  /\ Goes(i, IF FilesOf(e) \cap disk = {} THEN rest
                 ELSE IF Whole(e) THEN [rest EXCEPT !.reuse = @ \cup {e},
                                                    !.foreign = @ \cup (Theirs(i) \cap {e})]
                 ELSE Idle)
      /\ UNCHANGED <<LabRest, db, lock, disk, torn, errors, crashes>>

RepointArchive(i) == At(i, "plan") /\ Comes(i, Outputs) /\ Repointed(i)

RepointWorkerArchive(i) == At(i, "plan") /\ Comes(i, Runs) /\ Repointed(i)

\* The transaction, and the collision check in it.
Begin(i) ==
  /\ At(i, "plan") /\ importer[i].todo = {} /\ lock = NoImporter
  /\ IF db = <<>>
     THEN /\ lock' = i
          /\ Goes(i, [importer[i] EXCEPT !.step = "write", !.todo = Copies])
     ELSE UNCHANGED lock /\ Goes(i, Idle)
  /\ UNCHANGED <<LabRest, db, disk, torn, errors, crashes>>

\* The transaction is over; what the importer created is still there.
Undone(i) == [importer[i] EXCEPT !.step = "undo", !.todo = {}]
Fails(i) == lock' = NoImporter /\ Goes(i, Undone(i))

NextPart(i) ==
  LET missing == FilesOf(Name(i)) \ MadeBy(i)
  IN  CHOOSE f \in missing : \A g \in missing : f[2] <= g[2]
LastPart(i) == NextPart(i)[2] = 2

\* A file that is there already is never written over.
WriteExclusive(i) ==
  /\ Name(i) \notin importer[i].reuse
  /\ IF NextPart(i) \in disk THEN Fails(i) /\ UNCHANGED disk
     ELSE /\ disk' = disk \cup {NextPart(i)}
          /\ Goes(i, [importer[i] EXCEPT !.made = <<NextPart(i)>> \o @,
                                        !.todo = IF LastPart(i) THEN Rest(i) ELSE @])
          /\ UNCHANGED lock

\* What is reused must still be there.
LookAgain(i) ==
  /\ Name(i) \in importer[i].reuse
  /\ IF Whole(Name(i))
     THEN Goes(i, [importer[i] EXCEPT !.todo = Rest(i)]) /\ UNCHANGED lock
     ELSE Fails(i)
  /\ UNCHANGED disk

MaterializeArchive(i) ==
  /\ At(i, "write") /\ Comes(i, Outputs) /\ (WriteExclusive(i) \/ LookAgain(i))
  /\ UNCHANGED <<LabRest, db, torn, errors, crashes>>

MaterializeDirectory(i) ==
  /\ At(i, "write") /\ Comes(i, Runs) /\ (WriteExclusive(i) \/ LookAgain(i))
  /\ UNCHANGED <<LabRest, db, torn, errors, crashes>>

\* append_many and rebuild_projections, and the end of the transaction.
Commit(i) ==
  /\ At(i, "write") /\ importer[i].todo = {}
  /\ db' = Append(db, [foreign |-> importer[i].foreign, quarantined |-> Quarantined])
  /\ lock' = NoImporter /\ Goes(i, Idle)
  /\ UNCHANGED <<LabRest, disk, torn, errors, crashes>>

\* A write, an append or a projection raises.
Raise(i) ==
  /\ At(i, "write") /\ errors < MaxErrors /\ errors' = errors + 1
  /\ Fails(i)
  /\ UNCHANGED <<LabRest, db, disk, torn, crashes>>

\* A bug: directories are not taken back.
UndoFiles(i) ==
  /\ At(i, "undo")
  /\ disk' = disk \ {f \in MadeBy(i) : f[2] # 0}
  /\ Goes(i, Idle)
  /\ UNCHANGED <<LabRest, db, lock, torn, errors, crashes>>

\* The files the importer created are taken back, the last one first.
Undo(i) ==
  /\ At(i, "undo")
  /\ IF importer[i].made = <<>> THEN Goes(i, Idle) /\ UNCHANGED disk
     ELSE /\ disk' = disk \ {Head(importer[i].made)}
          /\ Goes(i, [importer[i] EXCEPT !.made = Tail(@)])
  /\ UNCHANGED <<LabRest, db, lock, torn, errors, crashes>>

\* A process dies, perhaps in the middle of a file.
Crash(i) ==
  /\ ~ At(i, "idle") /\ crashes < MaxCrashes /\ crashes' = crashes + 1
  /\ lock' = Held(i) /\ Goes(i, Idle)
  /\ \/ UNCHANGED <<disk, torn>>
     \/ /\ At(i, "write") /\ importer[i].todo # {} /\ Name(i) \notin importer[i].reuse
        /\ NextPart(i) \notin disk /\ NextPart(i)[2] # 0
        /\ disk' = disk \cup {NextPart(i)} /\ torn' = torn \cup {NextPart(i)}
  /\ UNCHANGED <<LabRest, db, errors>>

-----------------------------------------------------------------------------
BundleInit ==
  /\ \E roles \in {<<>>, <<"user", "assistant">>} :
       /\ session = [log |-> IF roles = <<>> THEN <<Root>> ELSE HistoricalLog(roles),
                     branch |-> [b \in Branch |-> IF b = Main THEN MainRow ELSE NoRow]]
       /\ steps = Len(roles) /\ steps <= MaxSteps
  /\ retries = 0 /\ bundle = Nothing
  /\ db = <<>> /\ lock = NoImporter /\ disk = {} /\ torn = {}
  /\ importer = [i \in Importer |-> Idle]
  /\ errors = 0 /\ crashes = 0

Grow ==
  \/ \E b \in Branch : Say(b) \/ Ask(b) \/ Task(b)
  \/ \E q \in OfType("oracle.request") :
       Build(q) \/ \E origin \in Origins : Answer(q, origin)
  \/ \E e \in OfType("oracle.output") : session.log[e].origin # "synthetic" /\ Keep(e)
  \/ \E e \in Event(session), b \in Branch : Fork(e, b)
  \/ \E t \in OfType("worker.task") : Enqueue(t) \/ Lease(t) \/ RunEnds(t) \/ Complete(t)

Import(i) ==
  \/ \E authorised \in BOOLEAN : Verify(i, authorised)
  \/ RepointArchive(i) \/ RepointWorkerArchive(i) \/ Begin(i)
  \/ MaterializeArchive(i) \/ MaterializeDirectory(i)
  \/ Commit(i) \/ Raise(i) \/ Undo(i) \/ Crash(i)

BundleNext ==
  \/ bundle = Nothing /\ steps < MaxSteps /\ Grow
  \/ steps = MaxSteps /\ Export
  \/ \E i \in Importer : Import(i)

BundleSpec == BundleInit /\ [][BundleNext]_bundleVars

-----------------------------------------------------------------------------
(* Properties *)

\* "export bundle is the private canonical, importable format" (README.md:381), for
\* the sessions whose requests were run once and whose current branch has anything
\* genuine: what is left out leaves no event behind that the import misses.
ExportIsImportable ==
  bundle # Nothing /\ retries = 0 /\ bundle.current \in BranchesOf(bundle.events)
    => Acceptable(TRUE)

\* A session is imported once, and what was left for a coding worker to do where it
\* comes from is nobody's here ("keep imported worker history while removing local
\* execution authority", bundle_import.py:1335).
ImportedOnce ==
  /\ Len(db) <= 1
  /\ \A n \in DOMAIN db : \A t \in Kept("worker.task") :
       Snapshots(t) \cap bundle.events # {} =>
         t \in db[n].quarantined
         \/ \E e \in Snapshots(t) : session.log[e].status = "completed"

\* What was imported has its archives, whoever else imports, fails or dies, unless it
\* reused the files of an import that was still at work.
ArchivesStay ==
  \A n \in DOMAIN db : db[n].foreign = {} => \A e \in Copies : Whole(e)

\* What is imported is typed, single, and as whole as where it came from.
ImportInv == BundleTypeOK /\ ImportedOnce /\ ArchivesStay

\* An import that fails leaves no file behind, so that it can be repeated
\* (test_archive_write_failure_leaves_no_partial_file_and_is_retryable); one that dies
\* may leave a part of an archive, which refuses every later import.
FailureIsUndone ==
  (crashes = 0 /\ db = <<>> /\ \A i \in Importer : importer[i].step \in {"idle", "plan"})
    => disk = {}
-----------------------------------------------------------------------------
(* The inductive invariant of the proofs *)

\* What holds of event r in place e of the log: it hangs on what is before it, on its
\* own branch unless it starts one, and so does what it is about.
Fits(s, e, r) ==
  LET before == 1 .. e - 1
  IN  /\ {r.parent, r.cause} \cup r.cites \subseteq before \cup {NoEvent}
      /\ r.type = "session.created" <=> e = 1
      /\ IF e = 1 THEN r.branch = Main /\ r.origin = "genuine"
         ELSE /\ r.parent \in before
              /\ IF r.type = "session.forked" THEN r.branch # Main
                 ELSE s.log[r.parent].branch = r.branch
      /\ r.type = "oracle.context_built" =>
           /\ r.cites \subseteq ParentChain(s, r.parent) /\ r.cause \in before
           /\ s.log[r.cause].type = "oracle.request" => s.log[r.cause].branch = r.branch
      /\ r.type = "oracle.output" => /\ s.log[r.parent].type = "oracle.context_built"
                                     /\ s.log[r.parent].cause = r.cause
      /\ r.type = "job" => /\ r.status # "none"
                           /\ r.job \in before /\ s.log[r.job].branch = r.branch

SessionSound(s) ==
  /\ s.log \in Seq(EventRecord) /\ s.branch \in [Branch -> BranchRow \cup {NoRow}]
  /\ s.log # <<>>
  /\ \A e \in Event(s) : s.log[e].at = e /\ Fits(s, e, s.log[e])
  /\ \A b \in Branch : Exists(s, b) <=> Own(s, b) # {}
  /\ \A f, g \in Event(s) :
       (/\ s.log[f].type = "session.forked" /\ s.log[g].type = "session.forked"
        /\ s.log[f].branch = s.log[g].branch) => f = g

\* A request that was run once has one context.
OneContext(s) ==
  \A x, y \in Event(s) :
    (/\ s.log[x].type = "oracle.context_built" /\ s.log[y].type = "oracle.context_built"
     /\ s.log[x].cause = s.log[y].cause
     /\ s.log[s.log[x].cause].type = "oracle.request") => x = y

\* A transaction is one importer's, and only a transaction has made files that are not
\* taken back: they are there, whole, and nobody else's.
MadeApart ==
  /\ \A i \in Importer : At(i, "write") <=> lock = i
  /\ \A i \in Importer : importer[i].step \in {"idle", "plan"} => importer[i].made = <<>>
  /\ \A i \in Importer : \A k, l \in DOMAIN importer[i].made :
       importer[i].made[k] = importer[i].made[l] => k = l
  /\ \A i \in Importer : MadeBy(i) \subseteq disk \ torn
  /\ \A i, j \in Importer : i # j => MadeBy(i) \cap MadeBy(j) = {}

\* Whole, and not to be taken back.
Stays(e) == Whole(e) /\ \A j \in Importer : MadeBy(j) \cap FilesOf(e) = {}

\* What an import has behind it is there, or was somebody else's.
CopiesFollowed ==
  \A i \in Importer :
    /\ importer[i].todo \subseteq Copies
    /\ importer[i].foreign \subseteq importer[i].reuse
    /\ \A e \in importer[i].todo : <<e, 2>> \notin MadeBy(i)
    /\ At(i, "write") => \A e \in Copies \ importer[i].todo :
                           e \in importer[i].reuse \/ FilesOf(e) \subseteq MadeBy(i)
    /\ importer[i].step \in {"plan", "write"} =>
         \A e \in importer[i].reuse \ importer[i].foreign : Stays(e)

Committed ==
  /\ Len(db) <= 1 /\ (lock # NoImporter => db = <<>>)
  /\ \A n \in DOMAIN db :
       /\ db[n].quarantined = Quarantined
       /\ db[n].foreign = {} => \A e \in Copies : Stays(e)

\* As long as nobody dies, whatever is there before the first import is of one at work.
NothingLost ==
  crashes = 0 /\ db = <<>> => disk \subseteq UNION {MadeBy(i) : i \in Importer}

Untouched ==
  /\ db = <<>> /\ disk = {} /\ lock = NoImporter
  /\ \A i \in Importer : importer[i] = Idle

BundleStory ==
  /\ SessionSound(session) /\ (retries = 0 => OneContext(session))
  /\ bundle \in {Nothing, Exported(session)}
  /\ IF bundle = Nothing THEN Untouched
     ELSE MadeApart /\ CopiesFollowed /\ Committed /\ NothingLost
===============================================================================
