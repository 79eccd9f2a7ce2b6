------------------------------- MODULE WorkerRun -------------------------------
(***************************************************************************)
(* One run of a coding worker on a repository: what CodingWorker takes for *)
(* a step.                                                                 *)
(*   agent_adapters.py         BaseAgentAdapter.run: the audits of the     *)
(*                             source, the clone, the worker, the patch    *)
(*   docker_sbx_isolation.py   DockerSbxIsolationBroker, _DockerSbxBinding *)
(*                             the sandbox the worker runs in              *)
(*   coding_isolation.py       what a run may report                       *)
(*                                                                         *)
(* A process binds the broker to its profile, which takes a probe sandbox, *)
(* and then runs tasks, in a sandbox or in a process group of its own.     *)
(* Meanwhile the operator edits the repository, also back to what it was,  *)
(* changes the tool or its policy, makes sandboxes and removes the run's;  *)
(* calls of the tool fail; the process dies.                               *)
(***************************************************************************)
EXTENDS Supervisor, FiniteSets

CONSTANTS
  Name,           \* names of sandboxes; two of them may be the same by chance
  MaxRuns,        \* bound of the model on tasks
  MaxContents,    \* bound of the model on what the repository may hold
  MaxDrifts,      \* bound of the model on changes of the tool and its policy
  MaxChanges,     \* bound of the model on what a worker changes
  MaxFaults,      \* bound of the model on calls of the tool that fail
  MaxCrashes      \* bound of the model on deaths of the process

ASSUME WorkerRunAssumption ==
  {MaxRuns, MaxContents, MaxDrifts, MaxChanges, MaxFaults, MaxCrashes} \subseteq Nat

VARIABLES
  source,         \* the repository: what its files hold, and its Git control data
  tool,           \* the version of the sandbox tool, its template and global policy
  boxes,          \* the sandboxes
  guest,          \* the version of the files in the sandbox of the run's name
  temp,           \* temporary directories on the host
  binding,        \* the version of the tool the broker is bound to
  work,           \* what the process does
  runCount, faults, crashes,
  unclean,        \* history: names of the sandboxes left behind that were reported
  touched,        \* history: the parts of the source edited since the patch was made
  robbed          \* history: somebody else took the run's sandbox away

hostVars == <<source, tool>>
countVars == <<runCount, crashes>>
historyVars == <<unclean, touched, robbed>>
workerVars == <<cmd, hostVars, boxes, guest, temp, binding, work, faults, countVars,
                historyVars>>

Unbound == 0
Version == 1 .. MaxDrifts + 1
Change == 0 .. MaxChanges
Nothing == MaxChanges + 1
Part == {"tree", "control"}
Content == 1 .. MaxContents
Unread == 0
Source == [Part -> Content]
Audit == [Part -> Content \cup {Unread}]
NoAudit == [part \in Part |-> Unread]

RunSteps ==
  {"idle", "watch", "watchControl", "clone", "identity", "copy", "name", "create",
   "allow", "exec", "running", "export", "policy", "leave", "remove", "confirm", "recheck",
   "import", "inspect", "compare", "capture", "compareTree", "inspectAgain", "compareAgain",
   "close"}
Early == {"watch", "watchControl", "clone", "identity", "copy", "name", "create"}
Holding == {"allow", "exec", "running", "export", "policy", "leave", "remove", "confirm"}
Late == {"inspect", "compare", "capture", "compareTree", "inspectAgain", "compareAgain"}

\* `isolated`: the worker runs in a sandbox; `probe`: the sandbox is the broker's own;
\* `owns`: the run made the sandbox; `seen`, `now`: the first and the last audit of the source;
\* `tree`: the files of the workspace; `exported`: what came out of the sandbox;
\* `committed`: the worker touched the Git control data of its clone, and `spoiled`: that
\* was seen; `failed`: the worker did; `error`: something was raised.
WorkRecord ==
  [step : RunSteps, isolated : BOOLEAN, probe : BOOLEAN, name : Name, bound : Version,
   owns : BOOLEAN, seen : Audit, now : Audit, tree : Change, committed : BOOLEAN,
   spoiled : BOOLEAN, exported : Change \cup {Nothing}, patch : Change \cup {Nothing},
   failed : BOOLEAN, error : BOOLEAN,
   outcome : {"none", "succeeded", "failed", "raised"}]

WorkerTypeOK ==
  /\ cmd \in Command
  /\ source \in Source /\ tool \in Version
  /\ boxes \in [Name -> {"none", "foreign", "ours"}]
  /\ guest \in Change
  /\ temp \subseteq {"carrier", "clone"}
  /\ binding \in Version \cup {Unbound}
  /\ work \in WorkRecord
  /\ runCount \in 0 .. MaxRuns /\ faults \in 0 .. MaxFaults /\ crashes \in 0 .. MaxCrashes
  /\ unclean \subseteq Name /\ touched \subseteq Part /\ robbed \in BOOLEAN

-----------------------------------------------------------------------------
At(step) == work.step = step
Goes(w) == work' = w
GoesTo(step) == work' = [work EXCEPT !.step = step]

Fault == faults < MaxFaults /\ faults' = faults + 1
NoFault == UNCHANGED faults

NewWork(n, isolated, probe, v) ==
  [step |-> "idle", isolated |-> isolated, probe |-> probe, name |-> n, bound |-> v,
   owns |-> FALSE, seen |-> NoAudit, now |-> NoAudit, tree |-> 0, committed |-> FALSE,
   spoiled |-> FALSE, exported |-> Nothing, patch |-> Nothing, failed |-> FALSE,
   error |-> FALSE, outcome |-> "none"]

\* Whatever is raised in the broker is raised after its directory is gone and its sandbox
\* is looked after.
BrokerRaises == Goes([work EXCEPT !.error = TRUE, !.step = "leave"])

\* What is raised in the adapter ends the run, and its directories go with it.
CloseRun(w) == Goes([w EXCEPT !.step = "close"])

-----------------------------------------------------------------------------
(* The broker: a sandbox from its creation to its removal *)

sandboxRest == <<hostVars, binding, countVars>>

\* bind: the tool is measured and a probe sandbox put through its paces.
Bind(n) ==
  /\ At("idle") /\ binding = Unbound
  /\ Goes([NewWork(n, TRUE, TRUE, tool) EXCEPT !.step = "copy"])
  /\ robbed' = FALSE
  /\ UNCHANGED <<sandboxRest, cmd, boxes, guest, temp, faults, unclean, touched>>

\* _require_identity before the run: no sandbox yet.
RequireIdentity ==
  /\ At("identity")
  /\ \/ /\ tool = work.bound /\ NoFault /\ GoesTo("copy")
     \/ /\ \/ tool # work.bound /\ NoFault
           \/ Fault
        /\ CloseRun([work EXCEPT !.error = TRUE])
  /\ UNCHANGED <<sandboxRest, cmd, boxes, guest, temp, historyVars>>

CopyCarrier ==
  /\ At("copy")
  /\ temp' = temp \cup {"carrier"} /\ GoesTo("name")
  /\ UNCHANGED <<sandboxRest, cmd, boxes, guest, faults, historyVars>>

\* A bug: the sandbox is taken to be the run's as soon as it is named.
RequireNameOwned ==
  /\ At("name")
  /\ IF boxes[work.name] = "none"
     THEN NoFault /\ Goes([work EXCEPT !.step = "create", !.owns = TRUE])
     ELSE NoFault /\ BrokerRaises
  /\ UNCHANGED <<sandboxRest, cmd, boxes, guest, temp, historyVars>>

RequireName ==
  /\ At("name")
  /\ \/ boxes[work.name] = "none" /\ NoFault /\ GoesTo("create")
     \/ /\ \/ boxes[work.name] # "none" /\ NoFault
           \/ Fault
        /\ BrokerRaises
  /\ UNCHANGED <<sandboxRest, cmd, boxes, guest, temp, historyVars>>

Made == [boxes EXCEPT ![work.name] = "ours"]

\* The tool may fail before or after it made the sandbox, or the look at the list of
\* sandboxes may fail: then the run does not own it.
Create ==
  /\ At("create")
  /\ \/ /\ boxes[work.name] = "none" /\ NoFault
        /\ boxes' = Made /\ guest' = 0
        /\ Goes([work EXCEPT !.step = "allow", !.owns = TRUE])
        /\ UNCHANGED unclean
     \/ /\ boxes[work.name] = "none" /\ Fault
        /\ boxes' \in {boxes, Made} /\ guest' = 0
        /\ unclean' = IF boxes' = boxes THEN unclean ELSE unclean \cup {work.name}
        /\ BrokerRaises
     \/ /\ boxes[work.name] # "none" /\ NoFault
        /\ BrokerRaises
        /\ UNCHANGED <<boxes, guest, unclean>>
  /\ UNCHANGED <<sandboxRest, cmd, temp, touched, robbed>>

\* Every call names the sandbox: one of the same name that is another's is taken for the
\* run's, and its rules may be the same.
Reached == boxes[work.name] # "none"
Refused == tool # work.bound \/ boxes[work.name] # "ours"

\* _configure_sandbox_policy: the rules must be those of the global policy and the hosts.
Allow ==
  /\ At("allow")
  /\ \/ tool = work.bound /\ NoFault /\ GoesTo("exec")
     \/ (Fault \/ (Refused /\ NoFault)) /\ BrokerRaises
  /\ UNCHANGED <<sandboxRest, cmd, boxes, guest, temp, historyVars>>

\* The probe is one checked call; a worker is watched by a supervisor. Neither may start.
Exec ==
  /\ At("exec")
  /\ \/ /\ work.probe /\ Reached /\ NoFault /\ GoesTo("export") /\ UNCHANGED cmd
     \/ /\ work.isolated /\ Fault /\ BrokerRaises /\ UNCHANGED cmd
     \/ /\ ~ work.isolated /\ Fault
        /\ CloseRun([work EXCEPT !.error = TRUE]) /\ UNCHANGED cmd
     \/ /\ work.probe /\ ~ Reached /\ NoFault /\ BrokerRaises /\ UNCHANGED cmd
     \/ /\ ~ work.probe /\ NoFault
        /\ cmd' = Started(~ work.isolated) /\ GoesTo("running")
  /\ UNCHANGED <<sandboxRest, boxes, guest, temp, historyVars>>

\* What lives on of a worker's own processes; what a call of the tool leaves is not the
\* worker.
LeftOver ==
  IF work.isolated THEN NoCommand
  ELSE [NoCommand EXCEPT !.main = cmd.main, !.rest = cmd.rest]

\* "cleanup-only and never export a candidate workspace" (README.md:194-195)
ExecEnds ==
  /\ At("running") /\ Returned /\ cmd' = LeftOver
  /\ Goes([work EXCEPT !.failed = ~ Completed,
                       !.step = IF ~ work.isolated THEN "inspect"
                                ELSE IF Completed THEN "export" ELSE "policy"])
  /\ UNCHANGED <<sandboxRest, boxes, guest, temp, faults, historyVars>>

Export ==
  /\ At("export")
  /\ \/ Reached /\ NoFault /\ Goes([work EXCEPT !.step = "policy", !.exported = guest])
     \/ (Fault \/ (~ Reached /\ NoFault)) /\ BrokerRaises
  /\ UNCHANGED <<sandboxRest, cmd, boxes, guest, temp, historyVars>>

VerifyPolicy ==
  /\ At("policy")
  /\ \/ tool = work.bound /\ NoFault /\ GoesTo("leave")
     \/ (Fault \/ (Refused /\ NoFault)) /\ BrokerRaises
  /\ UNCHANGED <<sandboxRest, cmd, boxes, guest, temp, historyVars>>

\* What the broker hands back: a result, a failure of the worker, or an error.
Handed(w) ==
  IF w.probe THEN [w EXCEPT !.step = "idle"]
  ELSE IF w.error THEN [w EXCEPT !.step = "close"]
  ELSE IF w.failed THEN [w EXCEPT !.step = "inspect"]
  ELSE [w EXCEPT !.step = "import"]

\* The carrier goes before the sandbox, and a sandbox that is not the run's stays.
Leave ==
  /\ At("leave")
  /\ temp' = temp \ {"carrier"}
  /\ Goes(IF work.owns THEN [work EXCEPT !.step = "remove"] ELSE Handed(work))
  /\ UNCHANGED <<sandboxRest, cmd, boxes, guest, faults, historyVars>>

\* `sbx rm --force NAME`: whatever has the name goes, and the exit code of the removal is
\* not looked at.
Remove ==
  /\ At("remove")
  /\ \/ NoFault /\ boxes' = [boxes EXCEPT ![work.name] = "none"]
     \/ Fault /\ UNCHANGED boxes
  /\ GoesTo("confirm")
  /\ UNCHANGED <<sandboxRest, cmd, guest, temp, historyVars>>

\* _cleanup_and_confirm: the sandbox is not in the list, the policy is what it was.
Confirm ==
  LET confirmed(w) == IF w.probe THEN Handed(w) ELSE [w EXCEPT !.step = "recheck"]
      refused == [work EXCEPT !.error = TRUE]
  IN  /\ At("confirm")
      /\ \/ /\ boxes[work.name] = "none" /\ tool = work.bound /\ NoFault
            /\ Goes(confirmed(work)) /\ UNCHANGED unclean
            /\ binding' = IF work.probe /\ ~ work.error THEN work.bound ELSE binding
         \/ /\ \/ boxes[work.name] # "none" /\ NoFault
               \/ tool # work.bound /\ NoFault
               \/ Fault
            /\ Goes(Handed(refused)) /\ unclean' = unclean \cup {work.name}
            /\ UNCHANGED binding
      /\ UNCHANGED <<hostVars, countVars, cmd, boxes, guest, temp, touched, robbed>>

\* _require_identity after the run.
Recheck ==
  /\ At("recheck")
  /\ \/ tool = work.bound /\ NoFault /\ Goes(Handed(work))
     \/ /\ \/ tool # work.bound /\ NoFault
           \/ Fault
        /\ Goes(Handed([work EXCEPT !.error = TRUE]))
  /\ UNCHANGED <<sandboxRest, cmd, boxes, guest, temp, historyVars>>

-----------------------------------------------------------------------------
(* The adapter: a run from the first look at the source to its result *)

adapterRest == <<hostVars, binding, boxes, guest, crashes, faults, historyVars>>

\* A task; its commit is resolved first.
BeginRun(n, isolated) ==
  /\ At("idle") /\ runCount < MaxRuns /\ runCount' = runCount + 1
  /\ binding # Unbound
  /\ Goes([NewWork(n, isolated, FALSE, binding) EXCEPT !.step = "watch"])
  /\ touched' = {} /\ robbed' = FALSE
  /\ UNCHANGED <<hostVars, binding, boxes, guest, crashes, faults, unclean, temp, cmd>>

\* _source_worktree_audit: the index and the files, then the control data.
Watch ==
  /\ \/ /\ At("watch")
        /\ Goes([work EXCEPT !.seen["tree"] = source["tree"], !.step = "watchControl"])
     \/ /\ At("watchControl")
        /\ Goes([work EXCEPT !.seen["control"] = source["control"], !.step = "clone"])
  /\ UNCHANGED <<adapterRest, runCount, temp, cmd>>

\* GitStandaloneCloneWorkspace; it may fail, and takes its directory away.
Clone ==
  /\ At("clone")
  /\ temp' = temp \cup {"clone"}
  /\ GoesTo(IF work.isolated THEN "identity" ELSE "exec")
  /\ UNCHANGED <<adapterRest, runCount, cmd>>

\* validate_workspace_archive, materialize_workspace_export and
\* replace_worktree_from_untrusted.
ImportWorkspace ==
  /\ At("import")
  /\ Goes([work EXCEPT !.tree = work.exported, !.step = "inspect"])
  /\ UNCHANGED <<adapterRest, runCount, temp, cmd>>

\* The control data of the clone and of the source are read before Git is used again.
Inspect ==
  /\ At("inspect")
  /\ Goes([work EXCEPT !.spoiled = work.committed, !.now["control"] = source["control"],
                       !.step = "compare"])
  /\ UNCHANGED <<adapterRest, runCount, temp, cmd>>

SourceControlSafe == work.now["control"] = work.seen["control"]

Compare ==
  /\ At("compare")
  /\ Goes([work EXCEPT !.now["tree"] = source["tree"],
                       !.step = IF SourceControlSafe /\ ~ (work.failed /\ work.isolated)
                                THEN "capture" ELSE "close"])
  /\ UNCHANGED <<adapterRest, runCount, temp, cmd>>

\* The patch is made in a second clone, which never was the worker's; a workspace that
\* changes meanwhile is taken for spoiled.
Capture ==
  /\ \/ /\ At("capture")
        /\ Goes([work EXCEPT !.patch = work.tree, !.step = "compareTree"])
     \/ /\ At("compareTree")
        /\ Goes([work EXCEPT !.spoiled = @ \/ work.tree # work.patch,
                             !.step = "inspectAgain"])
  /\ UNCHANGED <<adapterRest, runCount, temp, cmd>>

\* A bug: the source is not looked at again when the patch is there.
InspectOnce ==
  /\ At("inspectAgain") /\ GoesTo("close")
  /\ UNCHANGED <<adapterRest, runCount, temp, cmd>>

InspectAgain ==
  /\ \/ /\ At("inspectAgain")
        /\ Goes([work EXCEPT !.now["control"] = source["control"], !.step = "compareAgain"])
     \/ /\ At("compareAgain")
        /\ Goes([work EXCEPT !.now["tree"] = source["tree"], !.step = "close"])
  /\ UNCHANGED <<adapterRest, runCount, temp, cmd>>

\* AgentRunResult.succeeded
Succeeded == ~ work.failed /\ work.seen = work.now /\ ~ work.spoiled

\* The workspace is removed, and the run returns or raises.
Close ==
  /\ At("close")
  /\ temp' = temp \ {"clone"}
  /\ Goes([work EXCEPT !.step = "idle",
                       !.outcome = IF work.error THEN "raised"
                                   ELSE IF Succeeded THEN "succeeded" ELSE "failed"])
  /\ UNCHANGED <<adapterRest, runCount, cmd>>

\* Reading, cloning, copying and importing may raise in the adapter.
AdapterRaises ==
  /\ work.step \in {"watch", "watchControl", "clone", "import", "inspect", "compare", "capture",
                    "compareTree", "inspectAgain", "compareAgain"}
  /\ Fault /\ CloseRun([work EXCEPT !.error = TRUE])
  /\ UNCHANGED <<hostVars, binding, boxes, guest, countVars, historyVars, temp, cmd>>

-----------------------------------------------------------------------------
(* Everybody else *)

\* The operator, or the worker where it can, changes the files of the source or its
\* control data, to whatever they may hold: also back to what they held before.
Edit ==
  /\ \E part \in Part, c \in Content :
       /\ c # source[part] /\ source' = [source EXCEPT ![part] = c]
       /\ touched' = IF work.patch = Nothing THEN touched ELSE touched \cup {part}
  /\ UNCHANGED <<cmd, tool, boxes, guest, temp, binding, work, faults, countVars, unclean,
                 robbed>>

Drift ==
  /\ tool < MaxDrifts + 1 /\ tool' = tool + 1
  /\ UNCHANGED <<cmd, source, boxes, guest, temp, binding, work, faults, countVars,
                 historyVars>>

\* Somebody else makes a sandbox, with whatever is in it.
ForeignSandbox(n) ==
  /\ boxes[n] = "none" /\ boxes' = [boxes EXCEPT ![n] = "foreign"]
  /\ guest' \in IF n = work.name THEN Change ELSE {guest}
  /\ UNCHANGED <<cmd, hostVars, temp, binding, work, faults, countVars, historyVars>>

\* Somebody else removes a sandbox of this program, one in use or one that was left.
TakeSandbox(n) ==
  /\ boxes[n] = "ours" /\ boxes' = [boxes EXCEPT ![n] = "none"]
  /\ robbed' = (robbed \/ (work.owns /\ n = work.name))
  /\ UNCHANGED <<cmd, hostVars, guest, temp, binding, work, faults, countVars, unclean, touched>>

\* The worker, or what it left behind, changes its files: in a sandbox as long as there is
\* one, else as long as its processes live.
Changes ==
  /\ ~ work.probe
  /\ \/ /\ work.isolated /\ work.owns /\ Reached
        /\ work.step \notin {"idle", "allow", "exec"}
        /\ guest < MaxChanges /\ guest' = guest + 1 /\ UNCHANGED work
     \/ /\ ~ work.isolated /\ work.step \in {"running"} \cup Late /\ Alive
        /\ \/ work.tree < MaxChanges /\ work' = [work EXCEPT !.tree = @ + 1]
           \/ ~ work.committed /\ work' = [work EXCEPT !.committed = TRUE]
        /\ UNCHANGED guest
  /\ UNCHANGED <<cmd, hostVars, boxes, temp, binding, faults, countVars, historyVars>>

CommandRuns ==
  /\ CommandStep \/ Deadline
  /\ UNCHANGED <<hostVars, boxes, guest, temp, binding, work, faults, countVars, historyVars>>

Supervises ==
  /\ At("running") /\ SupervisorStep
  /\ UNCHANGED <<hostVars, boxes, guest, temp, binding, work, faults, countVars, historyVars>>

\* A worker has a session of its own: it outlives the process that watched it, with nobody
\* at the other end of its pipe. In a sandbox, only the sandbox matters.
Orphaned ==
  LET Outlives(p) == IF p = "open" THEN "quiet" ELSE p
  IN  IF At("running") /\ work.isolated THEN NoCommand
      ELSE [NoCommand EXCEPT !.main = Outlives(cmd.main), !.rest = Outlives(cmd.rest)]

\* The process dies and is started again; what it made stays.
CrashRun(n) ==
  /\ crashes < MaxCrashes /\ crashes' = crashes + 1
  /\ ~ At("idle")
  /\ work' = NewWork(n, TRUE, TRUE, tool) /\ binding' = Unbound /\ cmd' = Orphaned
  /\ unclean' = IF work.owns THEN unclean \cup {work.name} ELSE unclean
  /\ touched' = {} /\ robbed' = FALSE
  /\ UNCHANGED <<hostVars, boxes, guest, temp, faults, runCount>>

-----------------------------------------------------------------------------
WorkerInit ==
  /\ cmd = NoCommand
  /\ source \in Source /\ tool = 1
  /\ boxes = [n \in Name |-> "none"] /\ guest = 0
  /\ temp = {} /\ binding = Unbound
  /\ \E n \in Name : work = NewWork(n, TRUE, TRUE, tool)
  /\ runCount = 0 /\ faults = 0 /\ crashes = 0
  /\ unclean = {} /\ touched = {} /\ robbed = FALSE

BrokerStep ==
  \/ \E n \in Name : Bind(n)
  \/ RequireIdentity \/ CopyCarrier \/ RequireName \/ Create \/ Allow \/ Exec \/ ExecEnds
  \/ Export \/ VerifyPolicy \/ Leave \/ Remove \/ Confirm \/ Recheck

AdapterStep ==
  \/ \E n \in Name, isolated \in BOOLEAN : BeginRun(n, isolated)
  \/ Watch \/ Clone \/ ImportWorkspace \/ Inspect \/ Compare \/ Capture \/ InspectAgain
  \/ Close \/ AdapterRaises

Others ==
  \/ Edit \/ Drift \/ Changes \/ CommandRuns
  \/ \E n \in Name : ForeignSandbox(n) \/ TakeSandbox(n) \/ CrashRun(n)

WorkerNext == BrokerStep \/ AdapterStep \/ Supervises \/ Others

WorkerSpec == WorkerInit /\ [][WorkerNext]_workerVars

\* The process goes on, and time passes; nothing is asked of the worker.
WorkerFairness ==
  /\ WF_workerVars(BrokerStep \/ AdapterStep \/ Supervises)
  /\ WF_workerVars(Deadline /\ UNCHANGED <<hostVars, boxes, guest, temp, binding, work,
                                           faults, countVars, historyVars>>)

FairWorkerSpec == WorkerSpec /\ WorkerFairness

-----------------------------------------------------------------------------
(* Properties *)

\* A command that completed has all its output captured, and one whose descendants the
\* supervisor owns leaves none of them ("no child may survive after its foreground
\* process exits", agent_adapters.py:821-823), in whatever order the end of the pipe, the exit, the
\* limit and the deadline come.
CommandIsOver ==
  /\ Completed => cmd.captured = cmd.written
  /\ Returned /\ cmd.owned => ~ Alive

\* A sandbox that is left behind was reported: its creation raised, its removal was not
\* confirmed, or its process died; and the host's directories are gone.
NothingLeftBehind ==
  /\ \A n \in Name :
       boxes[n] = "ours" /\ (At("idle") \/ work.name # n) => n \in unclean
  /\ At("idle") /\ crashes = 0 => temp = {}

\* Nothing runs on, and nothing is left, unreported.
WorkerInv == WorkerTypeOK /\ CommandIsOver /\ NothingLeftBehind

\* Nobody else's sandbox is removed that was there before the run's (
\* test_preexisting_generated_name_is_never_removed), or came into a name the run has
\* given back or never got: one is only where somebody took the run's own sandbox away
\* while it was in use and made another of its name, the gap that README.md:242-245 names.
ForeignKept ==
  [][\A n \in Name : boxes[n] = "foreign" /\ boxes'[n] # "foreign" =>
       robbed /\ n = work.name]_workerVars

\* The source is what the run found at first, except for what was edited since the patch
\* was made. An edit that was undone by then is not seen: fingerprints are compared
\* (agent_adapters.py:1437-1439).
SourceAsFound == \A part \in Part : source[part] # work.seen[part] => part \in touched

\* What a run that succeeded hands on is what its worker made and no later change of it,
\* in a source that was as it was found when the patch was made; its sandbox is gone.
ResultHolds ==
  At("idle") /\ work.outcome = "succeeded" =>
    /\ SourceAsFound /\ ~ work.committed /\ work.patch = work.tree
    /\ work.isolated => work.exported = work.patch /\ boxes[work.name] # "ours"

\* A sandboxed worker that failed hands nothing over ("cleanup-only and never export a
\* candidate workspace", README.md:194-195).
FailedExportsNothing ==
  work.failed /\ work.isolated => work.exported = Nothing /\ work.patch = Nothing

\* What leaves a run is what its end says.
ResultIsTrue == ResultHolds /\ FailedExportsNothing

\* A run comes to its end, whatever its worker does.
EveryRunEnds == ~ At("idle") ~> At("idle")

-----------------------------------------------------------------------------
(* The inductive invariant of the proofs *)

\* Which runs are where: a probe is not a task, and only a task without a sandbox goes
\* from its clone to its worker and from there to its workspace.
RunsInOrder ==
  /\ work.probe => work.isolated /\ work.step \in {"idle", "copy", "name", "create"} \cup Holding
  /\ work.step \in {"identity", "copy", "name", "create", "import", "recheck"} \cup
                     (Holding \ {"exec", "running"}) => work.isolated
  /\ At("running") => ~ work.probe
  /\ ~ At("idle") => work.outcome = "none"

\* A worker of a task without a sandbox is the supervisor's, and does not live on.
WorkerSupervised ==
  /\ At("running") => cmd.owned = ~ work.isolated
  /\ ~ work.isolated /\ work.step \in Late => ~ Alive

\* The run has a sandbox from its creation to the confirmation of its removal, unless an
\* error came before or somebody took it away; between the removal and the confirmation
\* it may be another's.
BoxIsOwn ==
  /\ work.step \in Early => ~ work.owns
  /\ work.isolated /\ work.step \in Holding =>
       work.owns \/ (At("leave") /\ work.error)
  /\ work.owns => work.isolated
  /\ work.owns /\ work.step \in Holding \ {"confirm"} => boxes[work.name] = "ours" \/ robbed

\* A sandbox of this program is the run's, or it was reported.
BoxesReported ==
  \A n \in Name : boxes[n] = "ours" =>
    n \in unclean \/ (n = work.name /\ work.owns /\ work.step \in Holding)

\* The directories on the host have their times.
DirectoriesInUse ==
  crashes = 0 =>
    /\ "carrier" \in temp =>
         work.isolated /\ work.step \in {"name", "create"} \cup (Holding \ {"remove", "confirm"})
    /\ "clone" \in temp =>
         ~ work.probe /\ work.step \notin {"idle", "watch", "watchControl", "clone"}

\* The last audit of the control data comes after the patch.
LastAudit ==
  At("compareAgain") => (source["control"] # work.now["control"] => "control" \in touched)

\* What a run has of its worker's changes.
ChangesHandedOn ==
  /\ work.step \in Early \cup {"allow", "exec", "running", "export"} =>
       ~ work.failed /\ work.exported = Nothing
  /\ work.step \in Early \cup Holding \cup {"recheck", "import", "inspect", "compare"} =>
       work.patch = Nothing
  /\ work.step \in {"policy", "leave", "remove", "confirm", "recheck", "import"} =>
       work.error \/ work.failed \/ work.exported # Nothing
  /\ At("import") => ~ work.error /\ ~ work.failed
  /\ work.step \in {"capture", "compareTree", "inspectAgain", "compareAgain"} =>
       ~ (work.failed /\ work.isolated)
  /\ work.isolated => ~ work.committed
  /\ work.isolated /\ ~ work.failed /\ work.step \in Late => work.tree = work.exported
  /\ work.step \in Late \ {"inspect"} => (work.committed => work.spoiled)
  /\ work.step \in {"compareTree", "inspectAgain", "compareAgain"} => work.patch = work.tree

\* After its run is over, a sandbox has been removed, unless there was an error.
BoxIsGone ==
  work.isolated /\ ~ work.error /\ work.step \in {"recheck", "import", "close"} \cup Late =>
    boxes[work.name] # "ours"

\* A run that is about to succeed has what ResultHolds says of one that did.
CloseIsTrue ==
  At("close") /\ ~ work.error /\ Succeeded =>
    /\ SourceAsFound /\ ~ work.committed /\ work.patch = work.tree
    /\ work.isolated => work.exported = work.patch

WorkerStory ==
  /\ SupervisorInv /\ RunsInOrder /\ WorkerSupervised /\ BoxIsOwn /\ BoxesReported
  /\ DirectoriesInUse /\ LastAudit /\ ChangesHandedOn /\ BoxIsGone /\ CloseIsTrue
  /\ ResultIsTrue

===============================================================================
