# A TLA+ model of oracle_lab

oracle_lab is a laboratory for language-model "oracles". It keeps one append-only
event log in SQLite, derives every table from it, and does all slow work (model
calls, tools, coding agents, patches) as jobs of a durable queue that any number
of processes work off. This directory models the parts where processes, crashes,
deadlines and transactions meet. File names below are relative to
`src/src/oracle_lab/`.

## 1. Inventory

| Component | State | Operations | What makes it correct |
|---|---|---|---|
| Job queue (`jobs.py`, `_job_contract.py`) | `jobs` rows: status, lease, worker, attempts, availability | enqueue, lease, heartbeat, complete, fail, cancel, requeue_expired, retry_dead_letter | one owner per lease; serialized branches; provider limit; attempts within the budget; one recovery lease |
| Job projection (`_job_projection.py`) | the same rows, rebuilt from lifecycle events | apply | every event is acceptable; rebuilding yields the live table |
| Event store (`store.py`, `events.py`) | events, projections, schema version | append, append_many, rebuild, migrate | an append is all or nothing; causal references; per-type validators |
| Automation runner (`services.py` run_automation) | one process: what it read, its job, its heartbeat thread | read boundaries, lease, execute, acknowledge, fail | results count for their own lease only; boundaries stop it; every job settles |
| Oracle worker (`oracle_worker.py`, `archive.py`) | context, output and usage events of a request; raw archive | look up, build context, call, archive, commit, analyse | at most one output per request; never without its archive; no second bill |
| Coding worker runs (`services.py`, `agent_adapters.py`, `worker_archive.py`) | task, start and terminal events; run archive | run, archive, resume an orphan archive, fail | one terminal per run; a recovery lease never runs the agent |
| Candidate patches (`services.py`, `patches.py`, `git_control.py`, `validation_archive.py`) | candidate row, approval, staging clone, validation archive | propose, approve, reject, apply, validate | applied only with its exact approval; the source tree is untouched |
| Tool loop (`services.py`, `tooling.py`) | requests, results, adapters, continuations with depth and budget | schedule, approve, execute, adapt, continue, stop | every chain ends; a finished tool is not run again |
| Worker sandbox (`agent_adapters.py`, `docker_sbx_isolation.py`) | the source tree, a clone, a sandbox, a supervised command | bind, audit, clone, create, supervise, export, remove, capture | a success is of what was exported, from a source as it was found; nobody else's sandbox goes; nothing is left behind unreported |
| Dispatcher (`dispatcher.py`) | emitted events, pending gates as jobs | evaluate, dispatch, approve | idempotent emission; no gated action without a human event; an approval comes about |
| Branching and sessions (`branching.py`, `session.py`) | branches, visible histories, contexts | fork, checkpoint, merge metadata, archive, build | a fork sees its ancestry only; a context is a function of its tip |
| Projections (`projections.py`, `worker_projection.py`) | claims, canon, candidate patches, sessions | apply, rebuild | the rebuilt state equals the live one; canon only through a human |
| Virtual world (`virtual.py`) | virtual files, processes, sparse clock | commands, folding events | versions follow the log; nothing without an explicit event; readings are kept |
| Export and import (`exporting.py`, `bundle_import.py`, `historical_import.py`) | exported events, imported events, archives | export, verify, copy, append, undo | what is exported can be imported; all or nothing; imported work is not run |
| Sampling, replay, usage (`sampling.py`, `replay.py`, `usage.py`) | groups of requests, usage rows | sample, replay, record | siblings share their context; cost is counted once |
| Providers, host, readiness, read models, rendering, CLI, TUI | none, or caches | I/O, text, display | not models of state |

How they interact: a command of the operator appends events and enqueues jobs; a
process running `run_automation` leases a job, and its handler appends the
results and enqueues what follows. Handlers share nothing but the database, the
archive directories and the lease. Every `JobQueue` operation and every
`append_many` is one `BEGIN IMMEDIATE` transaction; everything between two of
them is open to other processes, to deadlines and to crashes. The operator's
commands are processes of their own: they, too, look at the log in one step and
append in another, and may meet a runner or a second operator in between.

What is hard: a clock that is read before the write lock; leases that expire
under a live handler; heartbeats on a second thread; facts read in one
transaction and used in the next (pauses, gates, verified archives, prior
outputs); attempts that leave events behind and are then retried; a queue that
decides from its own event log; a log whose order by `created_at` is not the order
of its commits; files that a transaction cannot roll back. `PROJECT.json` lists these hazards with their
lines and the properties that watch them.

## 2. Plan

1. `JobQueue`, with `ClaimService` as its abstract specification: done, proved.
2. `AutomationRunner`, the processes on top of the queue: done, its safety proved.
3. `OracleWorker`, `CodingWorker` and `PatchPipeline` (with `PatchReview` as its
   abstract specification), handlers put into the runner: done, proved.
4. `ToolLoop` and `Gates`, chains and approvals on `ClaimService`: done, proved.
5. `EventLog`, the log and its branches, and on it `Narrative`, `VirtualWorld` and
   `BundleImport`: done, proved.
6. `Supervisor` and, on it, `WorkerRun`, what `CodingWorker` takes for a step: done,
   its safety proved.

Each component has one passing run that asks all its questions, on an instance
that is just large enough for them. Its first invariant (`OracleInv`, `PatchInv`
and so on) is the type invariant and the plainest safety invariants in one; the
parts have names in the modules.

## 3. The modules and the code

**JobQueue** is class `JobQueue` of `jobs.py`. `rows` is the table. `log` keeps
what the queue's own queries can see of a job's lifecycle events: the type and
recovery metadata of the latest one, and whether one of them granted a recovery.
Each public method is one action, because each is one transaction that writes the
row and the event. `RequeuedRows` is `_requeue_expired`, which `Lease` runs first,
as `lease` does. Deadlines are kept as remaining ticks; `Tick` is the clock. The
parameter `late` of `Lease` and `RequeueExpired` is the set of jobs whose
deadline passed after the call read its clock and before it got the write lock.
`created` is an arbitrary clock reading for the same reason. `cancel_requested`
is written together with status "cancelled" only and is folded into it. The batch
form of `lease` (limit above one) has no caller in the code; a batch is a
sequence of `Lease` steps with equal clocks. Priorities are compared in full;
two jobs that have both been ready for `ReadyDepth` ticks are not told apart by
their `available_at`, which allows more orders than the code.

**ClaimService** is what the queue promises: a job is claimed by one runner,
rivals are never claimed together, a claim that is held is given up with an
outcome. `JobQueue`
implements it (`ImplementsClaims`), `rows` being mapped to phases and holders.

**AutomationRunner** is `run_automation` with its heartbeat thread, `pause`,
`resume` and dead-letter retries. A process steps through `ReadPauses`,
`ReadGate`, `ReadArchives`, `TakeJob` or `TakeNothing`, `CheckRecovery`, the
handler, and `Acknowledge` or `FailJob`; `Beat` is the other thread, `Crash` kills
both. `PausedJobBranches` asks only branches with queued jobs, as
`_paused_job_branches` does. `LeaseLost` is the `JobLeaseError` that leaves the
loop. A worker id is new for each run of the loop; the model reuses an id once no
row holds it. A handler returns, raises, or leaves an archive. The lease uses the
archives read earlier. `held` and `slipped` are history variables for
`OneJobAcrossABoundary`: the jobs that waited when their branch was paused, and the
boundaries each process has taken one of them across since they came up.
`troubles` counts deaths, pauses and human gates that came up. An archive of a
coding job is one attempt's (`PerAttempt`), that of a validation the job's. `overdue` is one for
heartbeats: it becomes true
when time passes a live process whose heartbeat is due (`since`), or a heartbeat
fails, and a property that needs heartbeats on time is stated with `~overdue`.

**OracleWorker** puts `_execute_oracle_job` and `OracleWorker.run` into the
runner: two look-ups of prior outputs, the context event, the provider call with
its retries, the raw file, the sidecar, the commit of the output, the
analysis. Every append and file write is a step of its own; `Die` may happen
before each. `Commit` carries the store's condition that exactly one context
event of the request has the output's hash; since the context depends on the
history up to the request only, all contexts of a request have the same hash and
a count is enough. Synthetic fixtures skip archive and condition, as in the code.
A truncation event is read by nobody here and is part of `AppendContext`; the
fallback event is part of the commit's transaction.

**CodingWorker** puts `_execute_coding_worker`, `_resume_archived_worker_run` and
`_propose_repository_patch` into the runner. `runs` holds, per job and attempt,
whether the run started, whether its directory loads, how it ended and what was
offered for it; a job stands for its task event, since `enqueue_repository_edit`
appends the event and enqueues the job in one transaction. `hand` is where each
process is in the handler and what it has read: the runs it found unfinished, the
run whose patch it proposes, the agent's outcome. `EndRun` and `OfferPatch` carry
the store's refusal of a second end and a second patch of a run. The runner's
`archived` is no longer free: it follows the directory of the present attempt,
as `_verified_worker_recovery_archive` does. Of several completed runs the code
takes the last; the model takes any. The look-up of an end of the handler's own
run finds nothing, because each attempt has a run of its own, and is left out;
so is what follows the return (the call record, dispatching the patch event),
which can only raise (`StepRaises`).

**PatchPipeline** puts `_execute_patch_application_job` and
`_execute_patch_validation_job` into the runner and adds the operator's
`approve_patch`, `reject_patch` and `retry_jobs`. `status` and `verdict` are the
columns of `candidate_patches` and carry the store's checks: a second judgment,
result or verdict is refused. `staging` is the one directory that all jobs of a
patch share, with its half-made states; `records` is the archive directory of each
validation job. `hand` is the handler's place and what its sandbox said. Approval
and apply job are one transaction (`ApprovePatch`), and so are the result and the
validation job (`RecordApplication`); all other appends and file operations are
steps of their own. What two processes do to one directory is followed from step
to step: the discard, the clone that refuses a directory that exists and removes
it when it fails, the checkout that is forced, the look at the tree, `git apply`.
A failing git command is a conflict wherever the code turns it into a reason to
refuse. `refused` is a history variable: the patches that the source itself, or a
failing git, gave a reason to refuse. `RejectPatch` needs no separate read, since
every patch could once be read as awaiting judgment. `RetryJob` takes a job in any
status, as `retry_jobs` does for an explicit list; which job is the retry of which
is the constant `RetryOf`. The runner's `archived` follows `records`, as in
**CodingWorker**.

**ToolLoop** is the chain of one `correlation_id`: `request_tool`, `approve_tool`,
`_execute_tool_job`, `_execute_oracle_job` with its analysis,
`_dispatch_tool_intent` and `_stop_automation`. It stands on `ClaimService` and
not on the runner: what matters to a chain is that an attempt may end anywhere and
another one follow, and `ClaimService` allows every such history, also those that
attempts and deadlines would forbid. A job stands for its request event, which
`event` describes: what caused it, the depth and the budget left. `results`,
`billed`, `adapters` and `intents` are the events of a request in order; a result
is known by its loop signature. Each look at the log and each append is a step,
except that a tool's execution and the append of its result are one
(`Execute`; nothing is visible in between) and so are the look-up and the append
of a stop, since two equal stops are not told apart. Stops are kept by job and
reason. `Expire` is the requeue of an expired lease. The root is any tool request
the operator asks for: a new one, or one late in a chain. Only tools that ask for
approval are approved; `approve_tool` accepts others too and would then enqueue a
second job for the request, which `_schedule_tool_request` names differently.

**PatchReview** is what the operator may rely on: one judgment, one result of an
approved patch, one verdict on an applied one, nothing taken back.
`PatchPipeline` implements it (`ImplementsReview`).

**Gates** is the way from a proposal of the host to what it sets off:
`_run_host_analysis` finds or appends the proposal and dispatches it, a gated one
becomes a job that no runner takes, a free branch a `branch.create` job, a free
question a context message, a request and an oracle job, each an append of its own
(`_execute` cascades). `ApproveBranch`, `ClearGate` and `ExecuteApproved` are
`approve_branch` and `EventDispatcher.approve`; `ApproveTool` to `ScheduleClone` are
`approve_tool` for a `web_verify` request, which forks a branch and clones the
request there. `call` is the operator's command, `hand` the runner's handler; either
may die between any two steps (`faults`). Which proposals are gated (`gated`) is
chosen at the start. Branches that nothing tells apart are counted. As in
**ToolLoop** the queue is `ClaimService`.

**EventLog** holds what several modules say of a log: its order by `created_at`
and then by commit, the last event of a branch, parent chains, lineages, what is
visible from a branch, and `BranchRows`, the rows `CoreProjection` keeps. An event is
named by its place in the order of commits.

**Narrative** is a session with its writers. `_append` takes the last event of a
branch, makes an event with a `created_at` and appends it in a transaction of its
own: `Prepare` and `Commit`, with `draft` in between; what a command looks at is
looked at in `Prepare`. `Appended` is `append` with its projections: the branch
rows, worker lineage, the claims of a branch (`claims` is `branch_claim_states`,
`transitions` is `claim_transitions`) and what a fork inherits of them. `Refused` is
what the store's validators refuse and what a projection that raises takes back.
`ApproveCanon` is `approve_canon_candidate`, one transaction; `AppendPromotion` is
any other writer that offers the store a promotion. `Rebuilt` is
`rebuild_projections`: the tables are cleared and the log, sorted, is projected
again. Claims know two statuses here; the others differ in name.

**VirtualWorld** is the world of each branch and the tool jobs that change it. A
job looks for its result, appends `tool.started`, makes a runtime of the tables and
plans its mutations on it (`Hydrate`), appends them one by one behind the last
event of the branch (`Mutate`), then its result. `Applied` is
`VirtualProjection._apply_mutation`, `ForkedWorld` what the projection of a fork
replays, `EventBacked` the second runtime, which replays the events of a branch. A
mention is what an analysis leaves of a path; a file is made when it is looked at.
A session starts with a process, as only an import brings one, a mention, and a
clock that is asked for or was set.

**BundleImport** grows a session, exports it, and imports the bundle into another
laboratory. The growing steps are those of other modules reduced to their events;
`HistoricalLog` is the session `historical_import.py` makes of a foreign log.
`Exported` leaves out fixtures and all that cites them; `Acceptable` is
`_verify_bundle` with the lineage, context and reference checks. An importer
verifies, plans which archives it copies or reuses, begins its transaction, writes
file by file, commits or, when something raises, removes what it created; it may
die anywhere, also in the middle of a file (`torn`). Worker runs stand for
validations, too; archives are taken to be whole when the bundle is made.

**Supervisor** is the loop both process runners share: a command with an output
limit and a deadline, a pipe that it and a process it leaves behind may hold, the
group that is killed. `_run_bounded_process` stops what a command leaves behind,
`SubprocessCommandRunner` does not (`owned`). **WorkerRun** is `BaseAgentAdapter.run`
with the Docker broker or with a process group: two audits of the source, a clone,
the binding's identity checked before and after, a sandbox made under a name that
is looked for first, policy, command, export, removal with its confirmation, the
capture of the patch, the last audit. Meanwhile `Edit` changes the source, also back
to what it was; `TakeSandbox` removes a sandbox of this program and `ForeignSandbox`
makes another, perhaps of the same name; every call of the tool goes by the name and
reaches whichever has it. An audit is what was read, not when: the code compares
fingerprints. History variables are `unclean`, the sandboxes that were left and
reported, `touched`, the parts of the source that were edited since the patch was
made, and `robbed`: the run's own sandbox was taken away while it was in use.

## 4. The runs

| Run | Bounds | Shows |
|---|---|---|
| `queue` | 3 jobs: two serialized on a branch, two of a provider with limit 1, two with one idempotency key; budgets 3, 1, 1; 2 workers; lease of 1 tick; clock readings 1 and 2; retries with and without reset | type, inductive invariant, exclusive branches, provider limit, one recovery, acceptable events, budget, settled jobs stay, refinement of `ClaimService` |
| `runner` | 2 serialized jobs, one attempt each, one with an archive; 2 processes; 1 death, pause or human gate (`MaxTroubles`); lease of 1 tick | a boundary is crossed once per process; every job settles |
| `oracle_request` | a genuine request with 2 attempts and a synthetic one with 1, 2 processes, 1 crash, lease of 1 tick, heartbeats on time or late, 1 provider retry | one output, archived, analysed before completion; on time: no second call |
| `oracle_retry` | 1 request, 1 process, no crash | **violation**: the retry of a failed call can never deliver |
| `coding_task` | 1 job with 2 attempts, 2 processes, 1 crash, lease of 2 ticks, heartbeats on time or late | a completed job has its patch, a result counts for its own lease; on time: one handler, no second agent after a success, one patch |
| `patch_review` | 1 patch with an apply job, its explicit retry and a validation job, 1 attempt each, 2 processes, 1 crash, lease of 1 tick, heartbeats on time or late | refinement of `PatchReview`; a completed job has its result and successor; a verdict has its archive; a recovery lease runs no sandbox; on time: the staging holds what was applied, a conflict is real |
| `tool_chain` | 3 tool jobs, 2 oracle jobs, the first and the second tool ask for approval; 2 signatures; maximal depth 2; the root with depth and budget (0, 4), (1, 2) or (2, 1); 2 processes, 1 death or error (`MaxFaults`) or 1 lease that expires under its process (`MaxOverdue`), both for a root with depth (`FewTroubles`) | a completed job has passed the chain on or recorded why not; unless a lease expired under its process: one result, bill, adapter and continuation each, no equivalent adapters |
| `story` | an answered question; 1 operator, 1 runner; 4 events added: at most one of each kind of the next question, of canon, and of fork, two promotions and one other; 2 branches | every event resolves in its branch; canon has a human approval for this claim; a rebuild gives the same branches and claims |
| `gates` | one proposed branch or question; 1 request to verify, 2 clones; 2 runners, 2 operators, 2 approvals called for; 1 fault, 1 lease that expires under its process | no gated branch without its approval; verifications have their own branches; an approval comes about; on time: one branch, one question |
| `world` | 1 clock, 1 path, 1 process, 2 branches; 2 requests, mentions or forks, with the one that may be open at the start; 2 executors; 1 death or 1 lease that expires under an executor (`MaxTrouble`) | nothing invented; a world is of what is visible; without an expired lease: tables and replay agree on the first branch, and without a death no reading of it is lost |
| `import` | a session of 5 steps on 2 branches, new or historical; 1 repeated request; 2 importers, 1 error, 1 death | an exported session can be imported, once; archives stay; what was left to do is not run; a failed import leaves no file |
| `worker_run` | 1 run after a binding, 1 sandbox name; output limit 1 of 2 blocks; 1 change by the worker; sandboxes made and taken away without bound; and either a source of 2 parts, each edited to and fro without bound between 2 contents, or 1 change of the tool, 1 failed call and 1 death (`story` of `MCWorkerRun`) | a command is over when it says so; a success is of the worker's last files, from a source as it was found up to the patch; a foreign sandbox goes only where the run's own was taken away and its name used again; nothing is left unreported; every run ends |

Why the bounds are enough: every property relates at most two jobs, processes or
branches. A third process adds no kind of step, since processes meet only in the
rows, and a lost lease needs one that loses and one that gains it. Every pair of
jobs that can exclude each other (by branch, by provider, by key) occurs in
`queue`. A lease of one tick can expire between any two steps; two ticks are
needed only where a heartbeat on time must be able to come first. With a lease of
one tick a tick stands for the whole lease and no time passes a live process that
is on time. Two attempts tell "before" from "at the limit"; three are used where a
recovery lease must leave attempts over. In `tool_chain` the fifth job is the one
more that a duplicate needs. In `story` four events are a nomination, its approval
and promotion beside a fork, or a question, its answer and its claim beside one.
In `import` five steps are a request with its context and answer beside a fork, or a
coding task with all its snapshots. In `world` the history a session starts with
saves the steps that only prepare. `CallCap` is not reached: two attempts can be
answered twice at most. `AttemptCap` stops retries that keep attempts. `ReadyDepth`
bounds how long ago a job became ready. `story`, `gates`, `world`, `import` and
`worker_run` end when their bounds are used up and do not check for deadlock; all
others do.

**The finding.** `oracle_retry`: each attempt of an oracle job appends its context
again; the store accepts an archived output only with exactly one. After a provider
failure or a crash past the first append all later attempts call the provider in
vain. The same condition is what keeps two overlapping handlers from committing two
outputs (`OneOutput`), and it makes a session in which a request was run twice one
that cannot be imported (`ExportIsImportable` leaves those out).

**Departures met while modelling, which no run states.** The properties above are
stated around them.

- `services.py:6179`: pauses are listed once per iteration and only for branches
  with queued jobs; a job that reaches a paused branch between that read and the
  lease is started. A pause lets through one waiting job per process and not two.
- `services.py:3967`: a coding task whose lease lapses while its agent works can get
  two patches; completed runs are looked for before a run starts and never again.
- `services.py:4001`: `heartbeat` appends an event without the recovery metadata, and
  the queue tells a recovery-only lease by its latest event. The runner asks before
  the heartbeats start, the coding handler afterwards, and then starts the agent that
  the recovery was to spare. A recovery lease that expires after a heartbeat becomes
  an ordinary attempt.
- `services.py:5566`: the archive of a validation belongs to its job, and the retry of
  a dead job is a new job, which runs the sandbox again.
- `services.py:4130`, `services.py:6154`: a crash between the append of a failed coding
  run and `fail` forgets that the failure repeats an earlier one; an
  `automation_stopped` event is not the end of its chain, since a failure with attempts
  left records one and the retry goes on.
- `services.py:4959`: a crash between the context message that the dispatcher emits
  and the request cascaded for it loses the request: the message counts as emitted.
- `services.py:4970`: a `branch.create` job whose lease expires under its runner may
  fork twice (`OneForkOnTime` has its condition for that). A crash in an approval
  between the cancelled gate and the enqueued job loses the job
  (`ApprovedComesAbout`), and one in `approve_tool` leaves a branch that no
  verification runs on. An approval that comes before its gate was persisted leaves
  the gate open.
- A fork that was drafted before a claim was detected and committed after it inherits
  the claim live; on replay, in the order of `created_at`, it does not, and a later
  judgment of the claim raises: then the log cannot be rebuilt (`README.md:40`
  "Projection tables are disposable and rebuildable"). `RebuildAgrees` speaks of logs
  that can be, and not of inherited rows or of whether a session is archived.
- A rejection that is committed between the reads and the append of a request still
  leaves the rejected output in its context.
- `branching.py:178`: a fork replays the narrative ancestry of its event only. From a
  `clock.set` it raises where the creation of the clock is not an ancestor, and from
  later events a fork silently lacks part of the world (`WorldIsVisible` says that
  what is there is visible, not that nothing is missing). A crash between a reading
  and its contradiction loses the contradiction. After an expired lease two executors
  may append the same revision: the tables keep the last reading and the replay the
  first.
- `virtual.py:754`, `projections.py:1184`: the next revision of a clock is one more than
  there are, and a row of the same number is replaced. A fork from a reading takes over
  the readings of its ancestry only, which may be revision 2 without revision 1, where two
  were requested before the job that created the clock had its result. The next two
  readings on the fork are then both revision 2, and its tables keep the last
  (`README.md:143` "Every revision remains in the event log and rebuildable projection").
  It takes six requests and forks, four more than in `world`. A first branch has every
  number, and `ReadingsKept` speaks of that one.
- `exporting.py:181`: where the last events of a session hang on a fixture, its current
  branch may have no exported event; the bundle is written and refused on import.
- `bundle_import.py:1606`: an importer that reuses the files of another one that is
  still at work keeps only references when that one takes its files back. A process
  that dies in a directory leaves a part of it, which refuses all later imports.
- `docker_sbx_isolation.py:1292` says "Removal is attempted even after partial create
  failures."; a sandbox is owned only once its creation returned, so that a partial
  one stays (`unclean`). A process that dies leaves its sandbox and directories.
- `docker_sbx_isolation.py:1294`: a sandbox is removed by its name and its identity is not
  looked at. Where somebody takes the run's sandbox away and uses the name again before
  the removal, the other sandbox is removed, and before that it is what policy calls,
  commands and the export reach. This is the open gap that `README.md:242-245` names
  ("cannot prevent name reuse in the check-to-use gap") and the reason of the blocker
  `sandbox_ownership` (`coding_isolation.py:56`). `ForeignKept` says that it is the only way:
  its exception is `robbed`, and without it TLC finds the removal in ten states.
- `agent_adapters.py:1377-1384`, `:1419-1439`: the source is unchanged when the fingerprints
  of the first and the last audit are equal, and the last one replaces the one before the
  patch. An edit that is undone by then passes, whatever the worker's clone or the audit in
  between saw of it. `ResultIsTrue` says only that what differs from the first audit was
  edited after the patch was made.
- A worker has a session of its own (`agent_adapters.py:762`) and outlives a supervisor that
  dies. The model follows it until the next worker starts, without its workspace.
- The export is one step here, while descendants of a worker may still write: what is
  exported may be a mix of their states (the blocker `workspace_quiescence`).
- `exporting.py:158-177` follows fewer keys to a fixture than `bundle_import.py:82-140` asks to
  be closed. `References` is one set for both, so that an event that names a fixture by a key
  of the second list only is taken to be left out; no command was found that makes one.
- `bundle_import.py:1607-1611` takes back all files and then the directories; `Undo` takes back
  the newest first, files and directories alike.
- `virtual.py:1222`: a clock that is created a second time, which takes an expired lease,
  loses its readings in the replay (`WithNewClock`) and keeps them in the tables.

**Fairness.** `runner`: weak fairness of the clock and of every step of a live
process: the loop is sequential code without waits, and handlers end because every
provider, tool and agent call has a timeout. `Start` is weakly fair: somebody runs
the automation again when it stopped idle. `LeasesOnTime` is strongly fair: a call
that reads its clock just before a deadline may happen again and again, but not at
every call. No fairness is assumed of heartbeats, crashes, archives or the operator,
but `EveryJobSettles` supposes a time from which nothing is paused and no judgment
is waited for. `worker_run`: weak fairness of the process's own steps and of the
deadline, which is a clock; nothing is assumed of the worker, which may write, stay
or exit as it likes.

## 5. What is proved

TLAPS checks the theorems of eight modules, for every value of the constants that
satisfies their assumptions. Each invariant was first checked by TLC on the run of
its module. An invariant that is proved is seldom inductive by itself; where a module
has a section "The inductive invariant of the proofs", it holds what had to be added,
and the theorem `...Invariant` proves it, with a lemma per action.

The specifications are linked by theorems:

    OracleSpec, PatchSpec, CodingSpec  =>  RunnerSpec  =>  Spec  =>  ClaimSpec
    ToolSpec, GatesSpec  =>  ClaimSpec
    PatchSpec  =>  PatchReview

(`OracleUsesLoop`, `PatchUsesLoop`, `CodingUsesLoop`, `LoopUsesQueue`,
`QueueImplementsClaims`, `ToolUsesQueue`, `GatesUseQueue`, `PipelineImplementsReview`.) So what is
proved of the queue is a fact of every handler, and the invariants of the queue and
of the loop are cited in the proofs about handlers.

**QueueProofs**, of the queue (all jobs, runners, branches, providers, limits, budgets, lease
lengths and clock readings that satisfy `QueueAssumption`). `TypeCorrect` has a step per
action; record updates are kept behind operators with a typing lemma each.
`InvariantHolds`: `QueueInv` is inductive together with `TypeOK`. `Held` (a row is
leased exactly while it has a worker) is what the refinement needs of
acknowledgements. `Budgeted` says why a pending job without attempts left is pending:
a grant waits in its log, or an operator retried it. `OneGrant` ties the history
counter to the log: a grant that waits is the first, and a used grant is remembered.
`Exclusive` is the branch exclusion; its step uses that of two pending serialized
jobs one comes before the other in (created, id), and that a candidate is refused
while an earlier one is unfinished or a running one shares its branch.
`SerializedBranches`, `OneRecoveryLease` and `EventsAccepted` follow; `RetryBudget` is
the action property, from `Budgeted` in the state before; `ProviderLimits` is by
counting: a lease adds one job to a set smaller than the limit, every other step
leaves the set or shrinks it. `SettledForGood` states `SettledStays`; that even a tick
leaves a settled row as it is needs an invariant of its own, `DeadlinesCleared`: no
deadline runs for a row that is not leased.

**QueueProofs**, of the runner (`RunnerAssumption`). The assumption that is not a type is
`BeatEvery < LeaseTicks`: the heartbeat interval is min(30, lease / 3)
(`services.py:78`). `RunnerInv` adds to the queue's invariant whose row a leased one
is (`LeasedToHandler`), how much of a lease is left since its last heartbeat
(`LeaseOnTime`), which boundaries a process has read (`BoundariesRead`) and that only a
handler has a heartbeat thread. `OneHandlerAtATime`: two handlers of a job would need
two leases on time. `ResultsOfLeases` and `BoundariesHold` are the action properties.

**OracleWorkerProofs** (`OracleAssumption`). `ContextsCounted` is the heart: every
generation under way has appended a context of its own, and so has the one whose
output is recorded; so where there is exactly one context, as the store demands, nobody
else is between context and commit. `ArchivedFirst` and `AnalysedFirst` keep the order
of the handler's steps, `NoCallWasted` is for `AnsweredOnce`. `OneArchivedOutput` needs
no heartbeat on time.

**CodingWorkerProofs** (`CodingAssumption`). `Counted`, attempts only count up, makes the
run of an attempt its handler's own (`RunsApart`, also stated as `HandlersApart`).
`RunInOrder` is the order in which a run is recorded, `HandAtWork` where its handler is
in it, `SuccessAsRead` that on time a handler knows of all successes of its task; with
`OneSuccess` they give `OneRunHolds`.

The same module proves the run of the worker that `CodingWorker` takes for a step
(`SupervisorAssumption`, `WorkerRunAssumption`). `SupervisorInv` is
inductive by itself for both process runners; `WorkerStory` adds to it whose the sandbox
is from its creation to the confirmation of its removal, or until it is taken away
(`BoxIsOwn`), that one that is left was reported, that the last audit of the control data
is right but for what was edited since the patch (`LastAudit`), and what the run has of its
worker's changes at each step (`ChangesHandedOn`). `NothingLeft`, `ResultsAreTrue` and
`OthersKept` follow.

**PatchPipelineProofs** (`PatchAssumption`, `JobsOfPatchAssumption`). The jobs of a patch
are enqueued with its branch and serialized (`approve_patch`, `services.py:1331`;
`_enqueue`, `services.py:5151`), a retry keeps kind and payload (`retry_jobs`,
`services.py:6266`). `JobsAreDue` says why there is a job, `HandAtWork` what a handler has
found at its step, `OneWriter` that a directory is made once, `RecoveriesArchived` that
what is leased as a recovery has its archive, and `StagingAsLeft` that on time an attempt
finds the shared directory as it left it. The refinement of `PatchReview` maps each
recording to its judgment, result or verdict, and everything else to a stutter.

**SessionProofs**, of the tools (`ToolAssumption`; whichever jobs are rivals). `ToolStory` is the
inductive invariant behind `ToolInv`: whatever is requested has a cause that is requested,
tools and oracle in turn (`RequestsFit`), a link to an adapter or an intent that exists
(`LinksFit`), what is billed and adapted is a result (`ResultsFit`), and every hand has
what its step presupposes (`HandFits`), which a handler keeps when its lease is lost. What
is recorded only grows, so a step answers for the hand it moves and no other.
`ChainStory` adds, while no lease expired under its process, that the chain has one open
end (`Tip`) and that what a handler found missing is still missing (`HandOnTime`): only
the holder of a job records for it, and only the tip has a holder that asks for more.
`ChainOnTime` follows.

**GatesProofs** (`GatesAssumption`: proposals, requests and clones are events of their own;
operators and clones are finitely many, since branches are counted by them). `HandFits`
and `CallFits` say what the log has of whatever a handler or a command has in its hand,
`ForksDue` that a branch has a job and an approval before it is made, `HandOnTime` and
`LogOnTime` that without an expired lease nobody else does what a handler found not to be
done, `ClonesApart` and `BranchesCounted` that every clone finds a branch of its own,
`ApprovalsOwe` that without a fault a command that recorded an approval goes on to its
job. Since what is logged stays, a step answers for the hand it moves only.

**SessionProofs**, of the story (`LogAssumption`, `NarrativeAssumption`). `Story` says of the log that a
keep is about an output or is the one approval of a candidate, naming its claim, on its
branch; of the branches that each has a last event, so that `LastEvent` is one; of the
claims and their transitions that a canonical one is backed by an approval on the branch
where it moved and not later; and of every draft that it may still be appended to the log
as it is now (`DraftFits`), however the log grew since the draft was made: that is what makes
the gap between reading the last event and appending harmless. An append that fits leaves
this true (`AppendIsSound`), also the one that takes over claims to a fork. `CanonByHuman`
follows.

`Placement` says where the events are. `LinesSound`: an event follows an earlier one, of its own
branch or the one its branch was forked from. `TimesSound`: in the order of the log and in that of created_at, the fork of a branch
is before what is on it, and a judgment after what it judges. `ClaimsNamed`: a claim is
named by an event of the log, the one that detected it. `TablesFit`: the branches and the claims a
branch has of its own are determined by the set of the events, whatever their order.
`BranchesAreApart` needs the first, with the chains as the unit of the argument: what a
chain has outside its branch it has above the fork. `RebuildIsTheSame` needs all: each turn
of a replay makes the tables of one event more (`TurnIsMade`), because no event comes in
the order of created_at before what it needs (`OrderFits`), and two tables of the same
events are the same (`FitsIsUnique`).

`ParentChain`, `Lineage` and `Rebuilt` are recursive functions. What they compute is proved
from their equations (`Recursion`) by way of the least number a set of counterexamples
would have (`LeastElement`, `StrongInduction`), so no formula is a parameter of a
lemma. `LogAssumption` says that branches are finitely many: a log, which is
finite, names no more.

**BundleProofs** (`LogAssumption`, `BundleAssumption`). `BundleStory` speaks of the session
before an import and of the importers after. `SessionSound`: an event cites what was there
before it, on its own branch or above the fork, a context cites what its branch shows, an
answer hangs on the context of its request (`Fits`); every growing step adds an event that
does, and so does every event of a transcript (`HistoryIsLine`). `OneContext`: while no
request was repeated, it has one context. `MadeApart`: the files an importer has made are
there, whole, and no other importer's, since the transaction is one importer's and a file
is made only where there is none. `CopiesFollowed` and `Committed` hand this on: what is
behind an importer in its list is made or reused, what it reused and was nobody's at the
time stays, and a commit keeps that. `NothingLost`: without a death every file there is
before the first commit is of an importer that still has it in its list to undo.

`FailureIsUndone` is then immediate: an importer that is not at work has made nothing.
`ImportInv` needs `Committed`: only a file that was another importer's, and was seen to be,
can go. `ExportIsImportable` is about `GenuineEvents`, a recursion along the log: an event
that stays stays with all it refers to, because whatever refers to an omitted one is
omitted with it, so the references, lineages and contexts `Acceptable` asks for are those
of the session, of which `SessionSound` and `OneContext` speak.

**WorldProofs** (`LogAssumption`, `WorldAssumption`). `WorldStory` has three parts.
`WorldsSound` holds whatever happens: an event's rows are there when it is applied
(`Applies`), what an executor has planned answers its request and stays applicable, since
rows are never taken away, and a branch is leased to one executor. `WorldOnTime`, while no
lease expired under an executor: nobody else changes the world that a plan was made on, so
the plan is still what the world asks for (`PlanFits`), numbers follow each other
(`Numbered`), and the replay passes over nothing and makes no clock anew, which is why it
takes the steps that the tables take. `AnsweredOnce` and `ConflictsDue`, while nobody died
either: a request reads a clock once, and the contradiction of a reading is in the tables or
next in the plan of the executor that made it. `Replayed` and `EventBacked` are recursive
functions, treated as `Rebuilt` is; a replay of what a fork sees makes rows of nothing else,
which gives `WorldStaysVisible`. The others follow.

Model-checked only:

- Liveness (`EveryJobSettles`, `EveryRunEnds`) and what depends on ENABLED; the violation
  of `RetryCanDeliver`.

## 6. What is not modelled, and why

The contents of events, contexts, prompts and archives are abstracted to what
decides control: whether something exists, how often, and for which job. The
SQLite lock is the atomicity of actions; a transaction that times out waiting for
it raises before any effect, which for a heartbeat is `Beat` failing and for a
handler a step that raises. `set_provider_limit` is configuration made before work
starts. Agent programs, HTTP, git and the terminal are the outcomes of a step.

- `_job_projection.py` folds a lifecycle event by copying the row in it; what could go
  wrong, an event whose status the fold refuses, is `ProjectionAccepts`.
- Sampling, replay, usage and cost, host prompts, readiness, read models, rendering,
  CLI and TUI: no state of their own, or sums and texts made of the log. The daily
  cost limit is a count that is read before an enqueue; two commands may both pass it,
  and nothing in the code says otherwise.
- Analysis jobs of coding agents and direct hosts recover their runs as `CodingWorker`
  does; they are not written a second time.
- Updates of virtual file contents, directories and shell texts; `web_verify="auto"`;
  the inspection of diffs; the parsing, digests and path checks of a bundle.
- Processes that a worker starts outside its process group. Outside of tests, `bind`
  refuses for want of an allowed runtime identity, so that sandboxed runs are those
  of injected adapters today.
- `PROJECT.json` gives the reason for each component and hazard left out.
