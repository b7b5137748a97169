# SoftOS in TLA+

SoftOS is a spec-driven development platform. The command line `flow`
(`flow`, `flowctl/`) takes a feature from a spec file over an approved plan of
slices to a release; a scheduler starts the slices in git worktrees, side by
side and beside other workflow runs; agents (codex, cursor, opencode) are launched
as child processes and may launch others; a gateway (`gateway/app/`) receives intents
over HTTP, queues them, runs `flow` for each, and keeps the central registry
of specs that several workspaces ("slaves") claim from.

This directory models the parts of it in which the order of steps decides:
where processes, threads or clients share a table or a file, where locks expire,
and where a process can end between two writes; and those decisions that are spread
over several places of the code and have to agree. The code is Python; locations
below are relative to the repository.

1. Inventory: components, state, operations, interactions, what is hard
2. Plan
3. What is modelled, and how it corresponds to the code
4. The runs: questions, properties, bounds, fairness
5. The proofs
6. Disagreements found
7. What is not modelled, and why

`PROJECT.json` holds the same in machine-readable form: for each definition that
models code its source lines, for each property the mutants that break it, and the
hazards with the line where each of them bites.

To check: `tlc -config MCTaskQueue.cfg MCTaskQueue`, `tlapm TaskQueueProofs.tla`.


## 1. Inventory

### 1.1 Components that keep state

**Global lock manager** (`flowctl/locks.py`). *State*: table `global_locks` (lock,
owner triple run/feature/slice, heartbeat, expiry, in whole seconds) and the append-only
`global_lock_events`, one SQLite file per workspace. *Operations*: `acquire` (grants a
free row, renews the owner's own, denies another's), `heartbeat`, `release`,
`expire_stale`, `list_active`, `list_events`. *Used by* the slice scheduler. *Hard*: every call reads the clock
before it waits for a mutex and for `BEGIN IMMEDIATE`; a refused heartbeat rolls back
the sweep it began with; `release` does not sweep; callers die. *Correct when* two
owners never trust an unexpired lease on one lock, no row leaves its owner early but by
that owner, and the events replay to the table.

**Slice scheduler** (`flowctl/multiagent.py`). *State*: per run, the jobs with
status, attempts and acquired locks, counters per repo and hot area, and a thread pool;
shared, only the lock table. *Operations*: one loop of heartbeats, finalization of
futures, marking of blocked jobs, scheduling through gates (dependencies, capacities,
target overlap, global locks), retries. *Called by* the workflow engine, *calls* slice
start. *Hard*: several locks taken one at a time by several runs; heartbeats by the same
thread that does everything else; exceptions in workers; processes killed. *Correct when* slices
that compete never execute together, locks do not stay behind a run that returned, a report is complete and justified, and every run ends.

**Workflow engine** (`flowctl/workflows.py`). *State*: `engine` in the state file of the
feature: run id, status, pause mark, and per stage status and attempt. *Operations*: workflow run with
resume, retry, pause and rollback, human gates. *Calls* plan, slice start (through the
scheduler), CI, release. *Hard*: the state is read once and written whole after each
stage, while the commands it calls, and operators, write the same file. *Correct when*
passed stages are not repeated, pauses hold, what it answers is on record, and it never gives a permission itself.

**Feature lifecycle** (`flowctl/features.py`, `policy.py`, `state.py`, `release.py` promote,
`workflows.py` close-feature). *State*: the spec file with the status in its
frontmatter, the plan, the state file (review, approvals by SHA-256, results of
slices), the release manifest. *Operations*: spec create, review, approve; plan;
plan-approve; slice start; slice verify; close-feature; release cut, promote. *Hard*:
no command takes a lock, every one reads, works and writes back whole files, and may be killed between two
of them. *Correct when* slices only start from an approved spec and the approved plan, nothing unreviewed is approved, nothing unverified is closed.

**Specs and plans** (`flowctl/specs.py`, `ci.py` spec, `features.py`, `workflows.py` next-step). *State*: many spec
files that name one another, the catalog of runtimes, tests, plans. *Operations*: create, intake, review, approve, plan,
plan-approve, execute-feature, next-step, verify, close, `ci spec`. *Hard*: each command carries its own list of
checks and of statuses; what was approved under one catalog, dependency or test is judged again under another. *Correct when* the
lists agree on what stands unchanged, and every plan that they let through is sound.

**Spec registry** (`gateway/app/store.py` from line 640). *State*: `spec_registry` (state, assignee,
token, expiry) and its audit. *Operations*: claim, heartbeat, release, reassign, transition,
get, list. *Used by* slaves over HTTP. *Hard*: expiry is noticed lazily inside other
calls; replies are read after the commit, come late or get lost; former holders come back
with old tokens. *Correct when* an unexpired claim is exclusive, only its holder ends
it early, states that need an owner are reached by the owner, and the audit tells the state.

**Slave claims** (`flowctl/gateway_ops.py`). *State*: the claim (actor, token) per spec in
the workspace's state file. *Operations*: claim, pick, poll, watch with `--auto-plan`, fetch, heartbeat, transition, release,
reassign; plan, slice start and slice verify run as callbacks under a heartbeat thread, and publish the next state when they succeed. *Hard*: a
claim is granted and the process ends before the token is written; a heartbeat that fails is reported only after the callback; one
workspace has several shells; actors' names are not unique. *Correct when* a
command works on what the registry says it holds, says so when it lost it, and takes no second spec.

**Gateway queue and worker** (`gateway/app/store.py` to line 640, `worker.py`,
`executor.py`, `main.py` lifespan). *State*: `tasks`, `task_events`; the worker's thread. *Operations*: enqueue with a dedupe window,
comment, claim_next, run, finish, events, feedback; at start, `reset_running_tasks`.
*Hard*: crash and restart between any two steps; duplicate deliveries; a command that
outlives the gateway; an exception that ends the thread. *Correct when* an accepted task is
executed and finished with one outcome, repeats happen only after crashes, order is kept, and rows, events and feedback agree.

**Agent runs** (`agent_process_execution.py`, `acp_transport.py`, `agent_executors.py`,
`agent_resources.py`, `agent_roles.py`). *State*: the registries of executors and resources in
`workspace.config.json`; a child process with two pipes; the environment it gets; a report file per run id. *Operations*: select an
orchestrator or reviewers; launch in a role, in a directory, with a model; hand the task over by ACP or as a command line; cancel;
report. *Hard*: the child may stall, chat, die or answer late; transport, verdict, cancellation and report are decided one after
another; a launched process may launch others, which inherit its environment; paths and links; a configuration file written by hand. *Correct
when* a task is handed over once, each run ends without a child and with a true report, nobody below a run becomes an orchestrator, nobody reviews its own kind, and
a process runs with the configuration and in the place meant for it.

**Release** (`flowctl/release.py`, `providers.py`). *State*: the manifest of a version, the state files and specs of its features; git branches and tags
of every clone and of origin, the changelog. *Operations*: cut, promote, verify; publish. *Hard*: the manifest is loaded at the start of a command and
written whole at its end, with a deployment in between; publish is six git commands of which each may fail; two clones publish; repositories, pipelines and
tests change between two looks. *Correct when* nothing is called released without a deployment and a verification, each repository is deployed by its own
provider from the branch that held its commit, and tags, branch and changelog agree.

**Gateway intake and feedback** (`gateway/app/main.py`, `intents.py`, `webhook_validation.py`, `approval_policy.py`, `transforms.py`, `flow_command.py`, `repos.py`,
`rate_limit.py`, `feedback.py`). *State*: the hits per caller, in memory in a sliding window or in the database per window of the clock; what becomes of a request is in `tasks` and in the spec files. *Operations*: four
endpoints that take requests (GitHub, Jira, Slack, API), each with its own list of checks; the translation of an issue, a comment or a line of text into an intent, of an intent into a command; the answer to whoever asked, by a
provider's script that may fail and is called again. *Hard*: one request has many spellings, and the checks look at it before or after different conversions; a spec that was not there when the
request came may be there when its command runs; a duplicate is answered with another's task. *Correct when* only what may be asked for is queued, nobody is answered with something else, and an intake that counts as succeeded made the spec that is there.

### 1.2 Components without a protocol of their own

Signatures, tokens and secrets of the gateway. Evidence, `ci repo` and `ci integration`, contracts, tests,
secret scan: tools run and reported. Memory, code graph,
skills; stack, infrastructure, runtimes; workspace, projects, doctor, parser:
wrappers and configuration. Migration scripts: run once by an operator. `_bmad/`, `templates/`, `docs/`, `specs/`,
`.devcontainer/`: text and assets.

### 1.3 How they interact

    webhooks, API --> intake --> queue --> worker --> flow (a process) --> files of the feature
                                                           ^
    operators' terminals --> flow commands ----------------+--> manifest --> providers
                                  |                        |
                                  +--> agent run --> agents (child processes) --> flow
                                                           |
    workflow engine --> scheduler --> slice start (threads)
                            |
                            +--> global locks <-- other runs' schedulers

    slaves (flow gateway ...) --HTTP--> spec registry

Messages are HTTP requests with replies that may be lost; everything else is shared state:
three SQLite tables (or Postgres, for the gateway), JSON and Markdown files without locks, git repositories, and the environment of processes.


## 2. Plan

Order of work; the most important behaviour first.

| # | module | composes | status |
|---|--------|----------|--------|
| 1 | `LeaseService`: what any expiring lock promises | | done, proved |
| 2 | `GlobalLocks` | implements `LeaseService` | done, proved |
| 3 | `SliceScheduler` | uses the lock table at the level of whole calls | done, proved |
| 4 | `SpecRegistry` | implements `LeaseService` | done, proved |
| 5 | `IntentService`, `TaskQueue` | the second implements the first | done, proved |
| 6 | `FeatureLifecycle` | | done, proved |
| 7 | `WorkflowRun` | the policy of the lifecycle, in its own words | done, proved |
| 8 | `SlaveClaims` | several workspaces and the registry, reduced to what its calls answer | done, proved |
| 9 | `AgentRun` | `flow agent run` and its ACP child | done, proved |
| 10 | `AgentSetup`, `AgentLaunch` | the second extends the first: nested launches | done, proved |
| 11 | `ReleasePublish` | clones and origin | done, proved |
| 12 | `ReleaseChecks`, `ReleaseChain` | the second extends the first | done, proved |
| 13 | `SpecDocs`, `SpecLibrary` | the second extends the first | done, proved |
| 14 | `GatewayIntents`, `WebhookIntake` | the second extends the first; the queue without its events, `spec create`, the answers | done, proved |
| 15 | two gateways on one Postgres database | `SpecRegistry`, `TaskQueue` | open |

*Abstract specifications.* `LeaseService` (exclusive, expiring grants) is implemented twice, by the
locks and by the registry; `IntentService` (accepted, attempted, concluded) by the queue.

*Theorems.* Done: type correctness and the safety properties of locks, scheduler, registry,
claims, queue, lifecycle, workflow run, agent run, nested launches, intake, release chain and publish, specs and plans, and the three refinements. Left to TLC: liveness (section 5).


## 3. The models and the code

Modules prefixed `MC` give the constants values for TLC; modules suffixed `Proofs`
hold theorems. A definition marked `Mutant` ("a bug to catch") is a plausible slip in the code; no
specification uses it. Each property that a run checks has one or more, and TLC finds the property violated when one stands in for the definition that follows it.

### 3.1 LeaseService

The abstract promise, without clock, tables or messages: per resource, the owners that were told they hold it and whose lease has not run out.
`Grant` gives a resource to an owner when nobody else holds it; in `Lapse` any leases end. `MutualExclusion` says that no resource has two holders.

### 3.2 GlobalLocks (`flowctl/locks.py`)

| model | code |
|-------|------|
| `clock` | `utc_now()`, whole seconds (`isoformat`, seconds) |
| `row` | table `global_locks`: owner and `expires_at` |
| `log` | what replaying `global_lock_events` gives per lock |
| `call` | a call between its clock reading and its commit: lock, ttl and instant |
| `lease` | the `expires_at` in the last reply that granted it |
| `BeginLease`, `BeginRelease`, `BeginExpireStale` | lines 75-92, 240-252, 281-285 |
| `AcquireNew`, `AcquireRenew`, `AcquireDenied` | the three ends of `acquire` |
| `Heartbeat`, `HeartbeatRefused` | commit, or raise and roll back |
| `Release`, `ReleaseMissingOrNotOwned`, `ExpireStale` | |
| `DatabaseLocked` | a busy timeout of 5 s: nothing happened |

The transaction is atomic (SQLite), the time between clock reading and commit is not. An owner that dies stops
calling: this is every behaviour in which it does nothing more.

### 3.3 SliceScheduler (`flowctl/multiagent.py`)

One loop and one pool per run. `pc` says where the loop is (`beat`, `finalize`, `release`,
`schedule`, `acquire`, `rollback`, or ended), `todo` which lock calls of the phase are left,
`at` how far the pass over the sorted names has come. The rest are the variables of
`run_slice_scheduler` and of its jobs. Every call to the lock backend is one step, so that
calls of two runs interleave freely; what the loop does between calls is local to the run and part of the
adjacent step. A row counts the seconds it has left instead of a date, which makes the state space finite without a bound on time, so that
liveness can be checked. `Tick` lets a living loop be at most `MaxLag` seconds behind its last round of
heartbeats. A run is *punctual* when nothing in it raises and `2 * MaxLag < TTL`, so that the loop keeps up (a ttl of 120 s and a sleep of 0.01 s in the code,
`flowctl/workflows.py:1533` and `flowctl/multiagent.py:405`); what a launch may do is chosen at `Init` among three, see 4.2.
The code blocks the jobs below a failed one in a pass over the names that repeats while it finds any; `BlockedNow` is what such passes end with, said without the passes: the largest set of pending
jobs each of which has a failed or blocked parent, in the set or before. `sorted()` is `SetToSortSeq`; what the proofs use of it (`SortedAssumption`: the same names, once each) TLC evaluates for every slice of the runs.

### 3.4 SpecRegistry (`gateway/app/store.py`, from `claim_spec`)

One action per operation: `Claim` (which creates the record if there is none), `Heartbeat`, `Release`, `Reassign`, `Transition`,
each the whole transaction with its lazy expiry, and `Read`, the query made after the commit whose answer an actor may get late, get of a later
moment, or never. `known` is what an actor was last told it has. `trail` is what a reader of the audit would believe. A refused call raises inside the transaction
and leaves nothing, which is a stutter. States are numbers, positions in `REGISTRY_STATES`; tokens are numbers drawn in order instead of random strings.

### 3.5 IntentService and TaskQueue (`gateway/app/store.py`, `worker.py`, `main.py`)

`tasks` holds each row with its events; `worker` is the place of the
thread in `_run_loop` and `_process`, one place per transaction; `process` is the gateway; `orphans` are commands that outlived it; `told`
the outcomes handed to the feedback provider. Handlers are asynchronous functions without an await between transactions, so one runs at a time (`handler`). `End` ends the process
anywhere, `Boot` requeues running rows. `Raise` is an exception in a call that no `try` guards. `IntentService` is the promise: a task unknown, accepted, attempted, and
concluded once.

### 3.6 FeatureLifecycle (`flowctl/features.py`, `policy.py`, `release.py`, `workflows.py`)

`spec`, `state`, `plan`, `manifest` are the four files, reduced to what commands compare: a hash is modelled by the content it is of, a plan by its `created_at`, in whole seconds (`state.py:10`), and the marks of its slices; all bodies declare the same slices. `running` is the command each operator has
begun, with the contents it read and will write back. A command that only reads and then writes is one step; one that works between (git, tests, analysis, a write to
another file) is two or more, and others run in between. `Quit` kills a command at any
place. `past` is history for the properties. `begun` bounds the number of commands.

| model | code |
|-------|------|
| `Create`, `CreateSave` | `command_spec_create` |
| `Edit` | somebody saves the spec |
| `Review`, `ReviewHash`, `ReviewSave` | `command_spec_review`: the file is analysed (401), read again and hashed (403), and its mtime taken (521); somebody may save it in between |
| `Approve`, `ApproveWrite`, `ApproveSave` | `command_spec_approve` |
| `MakePlan`, `PlanWrite`, `PlanSave` | `command_plan`: the time is taken (914), the plan written (928), the state written |
| `PlanApprove`, `PlanApproveSave` | `command_plan_approve` |
| `Start`, `StartSave` | `command_slice_start` with its policy check |
| `Verify`, `VerifySave`, `VerifyMark` | `command_slice_verify` |
| `Close`, `CloseWrite`, `CloseSave` | `workflow close-feature` |
| `Cut`, `Promote`, `PromoteWrite` | `release cut`, `release promote` |

Left out of this module: parallel worktree repair, drift checks, dependency frontmatter (in SpecLibrary), and the status history, none of which the gates here read.

### 3.7 WorkflowRun (`flowctl/workflows.py`, `quality_gates.py`)

`workflow run` of one feature, one run at a time, three or any number after each other. Stages are positions in `WORKFLOW_ENGINE_STAGES`.
`file` is the part of the state file that the engine and the policy read, `mem` the run's copy, `pc` and `at` its place, `opt` its
options (resume, retry, pause, human-gated). Writing is `Save`: the copy replaces the whole file. The calls behind the stages are outcomes, save what
they do to the file: `MakePlan` takes the plan's approval out of it and not out of the copy, `StartSlices` and `Refused` are
the policy check of `command_slice_start`. What a stage's calls record in the parts of the file kept by the lifecycle is in FeatureLifecycle.

| model | code |
|-------|------|
| `Begin` | lines 1344-1430: the state is read, once, and written as running |
| `PauseBefore`, `AlreadyPassed`, `GateBlocks`, `Start` | the head of the loop over stages, in its order |
| `MakePlan`, `StartSlices`, `Refused` | the plan stage, and slice_start, which makes the plan again |
| `StageFails` | a failed call: another attempt, or the dead letter list |
| `StagePasses`, `ChecksFail` | checkpoints, confidence score, the record of the result |
| `Finish`, `Rollback` | the last write; compensations |
| `End` | the process is killed, or something raises, anywhere |
| `PauseCommand`, `EditSpec`, `SpecApprove`, `PlanApprove`, `PlanCommand` | an operator at another terminal |

The last three stages have no calls of their own (`_run_stage_callable` returns success) and are recorded as skipped; so they cannot fail but by a checkpoint.
An edit of the spec is always to something new: going back to a text that was approved needs no new approval in the code either. A plan is, again, the second it was made in (`NewPlan`, of the engine and of an operator): one made in the second of the last is the same plan. `past` is history for the properties,
`count` the bounds. Left out: execute-feature's report, callbacks, the traceability matrix.

### 3.8 SlaveClaims (`flowctl/gateway_ops.py`)

`lock` is the registry as this side sees it: assignee, token, expiry, state, with the expiry noticed lazily as in SpecRegistry. `file` is `gateway_claim` in the state files of a
workspace, `proc` the flow processes: where each stands, the spec and claim it works under, its heartbeat thread (`alive`; `failed`, noted and
reported later; `dead`, without a word). The call to the registry, the reply and the writing of the file are three steps. All workspaces are in mode `remote`.

| model | code |
|-------|------|
| `BeginClaim`, `BeginPick`, `BeginPoll`, `List`, `WatchTimeout` | `gateway claim`, `pick`, `poll`, `watch` |
| `TryGranted`, `TryRefused`, `ReplyLost`, `Record`, `Fetch` | `claim_and_pull_spec` and the loop over candidates |
| `BeginWork`, `Ensure`, `FirstBeat`, `FirstBeatRefused`, `Unguarded` | `ensure_remote_claim_*` and the head of `run_with_remote_claim_heartbeat` |
| `Beat`, `BeatFails`, `BeatDies`, `WorkEnds`, `Publish` | the thread, the end of the callback, `maybe_publish_transition_hook` |
| `ManualHeartbeat`, `ManualTransition`, `Release`, `Clear`, `Reassign`, `HandOver` | the operator's commands |
| `CallFails`, `Crash` | the gateway cannot be reached; the process ends |

### 3.9 AgentRun (`agent_process_execution.py`, `acp_transport.py`)

`run` is where `run_agent_process` stands and what it has noted, `agent` the child and its two pipes, `cancel` the operator's event; `handed` and `ended`
are history: which children got the task, and how it really ended. The child is external: it may answer, stream, ask for permission, write nonsense or half a line, or end at any time. `Runner` is
the code's own side (`Spawn`, `Ask`, `Reads`, `Answered`, `Refused`, `Garbled`, `Silence`, `TurnOver`, `Reap`, `Judge`, `Launch`, `CommandEnds`, `Contract`, `Write` ...), in the order in which the code decides:
transport, fallback, verdict of a reviewer, outcome, report. The deadline (15 s for the handshake, then one hour) is looked at only when nothing is to be read, and is a step that may happen whenever that is so.

### 3.10 AgentSetup and AgentLaunch (`agent_executors.py`, `agent_resources.py`, `agent_roles.py`, `agent_process_execution.py`)

AgentSetup has what an invocation reads: the executors and resources of `workspace.config.json` as they were written, right or wrong (`ExecutorsAccepted`, `ResourcesAccepted`), what a selector means
(`Meant`, `Selectable`), and places. A directory tree maps names to where they lead, links followed; `Walk` resolves as `Path.resolve` does, `Normal` is `os.path.normpath`, `TargetStays`, `WorkdirFits`
and `HandoffThere` are the three containment checks, each with its own order of normalising and resolving.

AgentLaunch has the launches. `procs` are the processes with the role, run id, handoff and configuration that their environment carries and hands down; `files` the report files by name: `SafeRunId` is what `persist_agent_run_report` makes of an id, which is a sequence of parts, one more for each nesting. The spelling of a given id is a constant (`Safe`), as some read alike once their characters are replaced; the cut at 180 characters is modelled by whole parts (`Shown`). `RunAgent` is
all of `run_agent_process` before the process exists: role (`EffectiveRole`, `ContextOk`), gate (`Gate`, `Reviewers`, `Implementer`), model (`Listed`, `Credential`, `FreeModel`, `GoModel`), environment (`Overlay`,
`Merged`). The two probes of OpenCode are external and answer, or fail, independently. `ChooseReviewer` and `ChooseOrchestrator` are the selections that launch nothing. The configuration is chosen at
`LaunchInit` and stays: nobody edits it while runs go on. The id a nested run makes for itself is `FreshRun`, a uuid4: another one for each. Orders are written as ranks (`Sorted`): what Python's sort returns is what puts everyone at the place that those before leave. How a launched process goes on is AgentRun.

### 3.11 ReleasePublish (`release.py` publish)

A history is a sequence of commits; branches are linear; a tag names a whole history. Per clone the two branches, what is checked out, local tags, the uncommitted changelog and the place in the
command: `StartPublish` (checks, version, changelog; counted from the latest tag or, with `--since-tag`, from one of `SinceTags`: `Origins`), `CommitEntry`, `Tag`, `PushMain`, `PushTag`; `Break` stands for a git command that fails or is refused and for the end of the process: what was done stays. `Develop` are the
developers, who act only while no publish runs in that clone; what they commit (`Kinds`) and whether they work on a branch (`Branching`) is given per clone. `Sync` is a fast-forward pull or a reset. `--dry-run` changes nothing; the GitHub release and the text of the notes are left out.

### 3.12 ReleaseChecks and ReleaseChain (`release.py` cut, promote, verify; `providers.py`)

ReleaseChecks holds the decisions as functions: contracts and environments of repositories, provider resolution, the source branch, the refusals of a promotion, scope of slices, verification.
ReleaseChain runs them: `CutCheck`, `CutWrite`, `CutCandidate`; `PromoteCheck`, `RunProvider`, `RunVerification`, `Save`, `MarkState`, `MarkFront`; `VerifyAgain`; `Fail` anywhere. A command carries the manifest it loaded and
writes it back whole. `Worlds` is what a command may find outside each time it looks. `InOrder` is an independent definition of a release that is in order, against which `ReleaseVerified` is held. `deployed` and `vouched` are history.
The read-modify-write of one feature's state is one step here; its interleavings are FeatureLifecycle's.

### 3.13 SpecDocs and SpecLibrary (`specs.py`, `features.py`, `ci.py`, `workflows.py`)

SpecDocs is every finding that analysis, review, approval and CI know, as functions of a document; a document (`Document`) is a record of what its frontmatter and blocks say, and `ill` stands for fields of a wrong type.
`Breakdown` and `PlanGovernance` are the slices a plan gets. SpecLibrary has the documents of a workspace and the commands, one step each: `Create`, `Save` by an author, `Change` of the catalogue, `Review`, `Approve`, `MakePlan` (also by execute-feature), `PlanApprove`, `Execute`,
`Verify`, `Close`; `NextStepRefuses`, `AdviceTakes` and `CiFindings` are the judgements of next-step and CI on what they leave; whether the state says `released`, which the release commands write, is left open in `Stage`. `Execute` starts any subset of the slices, which is more than "until one is refused". `vouched` is history: what the last approval rested on besides the document.

### 3.14 GatewayIntents and WebhookIntake (`gateway/app/`)

GatewayIntents is what a request means, as functions of it. A line of text is its words and flags; an issue, a comment and a payload are the fields that some check or command looks at. `IntentOf` is the translation per
endpoint (`FromGithub`, `FromJira`, `ParseText`, with the short forms of `Simple`), `Valid`, `Allowed`, `Policy`, `Lint` and `Builds` the checks, `Transformed` and `Command` the conversions; `Provider`, `MaxAttempts` and `GivesUp` are the decisions of feedback.

| model | code |
|-------|------|
| `Check` | a webhook's handler from the rate limit (`Limit`) to the question whether the spec is there (`Known`); `create_intent` |
| `EnqueueIntent` | `enqueue_intent` and `TaskStore.enqueue`: policy, transforms, lint, command, duplicates, row |
| `ClaimRow`, `FinishRow`, `TurnToNext` | the worker's loop; its events are in TaskQueue |
| `Create`, `Report`, `Execute` | the command: `spec create` writes a spec that is not there, the reports of an intake may fail after that; any other command |
| `Answer` | one call of the provider's script |
| `Restart` | the end of the gateway, command and all, and its start |

An endpoint and a source are two things: a request of the API may name any source, and is transformed and compared with others by it. `asked` and `admitted` are history. Left out: tokens and signatures (a request is signed or not), the rows of
`intake_failures` and `auth_audit`, which nothing reads but pages, and a provider whose script is missing (nobody is told then).


## 4. The runs

| run | question | answer |
|-----|----------|--------|
| `global_locks` | do calls that act on an old instant, fail or lose their caller break the lock's promises? | no |
| `slave_claims` | does a slave command work under a lock the registry still has, and say so when it lost it? | yes, but for a thread that dies without a word and work no thread guards |
| `scheduler` | does a run keep its books; do rivals exclude each other and end; what remains when loops stall and calls raise? | yes; then, no row is taken from its owner and no report lies |
| `gateway` | *registry*: are claims exclusive through expiry, late and lost replies, reassignment? *Intake*: is what gets into the queue what may be asked for, and is each requester told what became of it? | yes |
| `task_queue` | do rows, events, feedback and order hold, and is every task finished, through stops, crashes and a dying thread? | yes, while the thread lives |
| `feature_lifecycle` | do the approval gates hold while two commands at a time undo each other's writes and die? | yes, but for plans made in one second |
| `workflow_run` | does the file stay true over three runs, a crash, retries, pauses and operators' commands in between? | yes |
| `agent_run` | is a task handed over once, and does each run end, without a child, with a true report? | yes, but for a broken pipe, an interrupt, and a line that never ends |
| `agent_launch` | what may nested launches become, who may review, with what and where do they run, whose report stays? | as meant, but for local resources below cloud ones and for reports whose file names coincide |
| `release_publish` | do tags, branch and changelog of origin agree when any git command fails and two clones publish? | yes |
| `release_chain` | what does it take to be called released, and who deploys what from where? | a deployment and a verification, without `cut --force` |
| `spec_library` | do the commands' lists of checks agree, and are plans sound? | yes, for what stands unchanged |

### 4.1 Properties

*Locks.* `LeaseBacked`: who trusts a lease has the row, for at least as long.
`NoTheft`: a row leaves early only by its owner. `ImplementsLeaseService`: two owners never trust the same second.

*Claims.* `ClaimedWork`: while its heartbeat thread lives, a command's lock is the registry's, unless somebody gave that very token back; and a guarded command that reports success had the spec to itself all the while.
Its third part, `OneSpecPerCommand`: no lost reply or failure after the call sends a poll on to take a second lock.

*Scheduler.* `ExclusiveExecution`: slices that compete never execute together, in one run or two. `RunsTellOutcomes`: every outcome is that of the job's attempts and parents, and a run that returned has looked at every future and left no row.
`GatesHold`: capacities and owned targets. `RowsLeaveByOwner`. `EveryRunReturns`: liveness, for acyclic plans. The first and the last are about punctual launches.

*Registry.* `OwnedStates`: in_edit and in_execution are entered by the holder. `KeptByHolder`: an unexpired lock changes hands only by its token. `ImplementsLeaseService`.

*Intake.* `AdmittedRightly`: the rate limit holds in any span of time, not only per window; however it is spelled, what a webhook gets queued is one of the three intents it may ask for, with an approver, title and repos that fit; and no requester is answered with a task that does something else.
`OutcomesTell`: of several intakes of one slug, raced, repeated or cut off by a restart, those that count as succeeded made the spec that is there; what is told is what is on record, by the provider meant for it, and again only after a failure that may pass.

*Queue.* `StartsInOrder`: no more starts than tasks and ends of the process, and a task of an earlier second first. `ToldTruly`. `EveryTaskFinishes`. `ImplementsIntentService`: one attempt at a time, one outcome, for good.

*Lifecycle.* `StartedAsApproved`: a slice starts from a text and a plan that were approved together. `RemakingDisarms`: making the plan again ends the permission, whatever slower commands
write back, but for plans of one second. `ApprovedWasReviewed`: no body is approved that is not ready, nor one whose hash no review put on record as ready (unless the file is saved while approve runs: `EditsAnytime`).
It does not say that the review's verdict was of that body: between its two reads the file may change, and only approve's own analysis stands in then (section 6, 8). `ClosedWasVerified`: what is closed has passed a verification.

*Workflow.* `ReportJustified`: what a run answers is what it leaves on record. `PassedStaysPassed`: a passed stage is not executed
again unasked; `PauseHolds`: a pause is not passed unasked, both over any sequence of runs. `EngineNeverPermits`: the engine writes approvals back that were withdrawn, and none of them fits, but where the plan was made again within its second.

*Agent run.* `TaskToOne`: the task never goes to both transports. `NoChildLeft`. `ReportTells`: a task that was handed over leaves a report, and what it says is what happened in the child. `EveryRunEnds`.

*Agent launch.* `NoEscalation`: at any depth, below a run there are only workers and reviewers. `ReviewIndependent`: no reviewer launched or proposed shares executor or way to a model with the implementer, and proposals come in the rules' order, by a definition of its own.
`RunsAsMeant`: a process of a cloud resource has a model of its own and nothing inherited, one with no cloud resource above it has just what the operator set, and all work inside the workspace. What a local resource gets below a cloud one it does not say: the code and its documents disagree (section 6, 5).
`ReportsKept`: a report is overwritten only among standalone runs, or when one of the two was told its id, or is nested so deep that its file's name is cut.

*Publish.* `OriginTells`: versions grow along the history, except past one that may have been counted from a tag on another line of history (`Astray`); what was published from main is on main, and the changelog of origin has one entry per version.

*Release.* `ReleasedJustified`: a deployment to production with the feature, and a verification of it that really was in order. `SmokeRan`: where smoke tests are demanded, a promotion that counts as verified ran one. `DeployedAsNamed`: by no other provider than the repository's, from the one branch that held its commit at the cut.

*Specs.* `ApprovedStands`: an approved spec, with all it rested on unchanged, is refused by none of `ci spec`, plan and next-step, if it has a target. `PlansSound`: names, repos, roots, declared targets, dependencies and hot areas of every plan.

### 4.2 Bounds

- `global_locks`: two owners, two locks, ttl 0 (which counts as one second) and 2, clock to 3: a lease expires, is taken over, and its former owner comes back late; each call may act on an instant up to 3 s old.
- `slave_claims`: two workspaces, three processes (two share a workspace, two a user name), two specs, three commands (a holder, one that takes over or waits, and an operator), clock to 2 heartbeat intervals, two tokens: a lock is taken over by another after its expiry. `Late`: a living thread beats within less than any ttl in use (30 s and one slow call against 120 s).
- `scheduler`: three launches. *graph*: five slices in a chain, a join, a shared target, a shared area, a shared repo, one without area; capacity 1, two workers, one retry: each gate is the deciding one for some pair. *rivals*: two runs, two locks declared in opposite order, the smallest deadlock, one of them killed anywhere; ttl 3 and lag 1, since equality would expire a live lock. *stalls*: the same, a lag equal to the ttl, and anything may raise.
- `gateway`: the two halves share no table, so each is explored by itself (`half`). *Registry*: three actors (a holder, a former holder, a third), one spec (specs share nothing but the table), ttl 1 and 2, clock to 4, five tokens: two full generations of claims after an expiry. *Intake*: thirteen requests, among them three intakes of one slug by as many ways, one that refers to two repos, two that a check has to refuse in each spelling; two rows, window 0 and clock to 2, so a request may come in the same second as its
duplicate or later; one restart; a limit of one request in two seconds, explored with one row (`MCLimitsApart`: the limiter looks at no row).
- `task_queue`: two tasks, two contents (a review, with findings, and an execution that may close), window 0 and clock to 1, so the last second inside and the first outside of the window both occur; one end of the process, a comment on each row right after its creation, a command that outlives it, an exception that ends the thread. Both tasks may be running, requeued and waiting when the process ends, which is all that more tasks add to.
- `feature_lifecycle`: two operators, two slices, three bodies of which two are ready, three rewrites of the spec, eight commands: it takes seven from create to close and six to a started slice, so a stale command may write back on the way to either, and the plan be made again before a start; a plan may be made in the second of the last one or a later one. `release promote` is reached without closing, as in the code.
- `workflow_run`: three runs of four kinds (human-gated; paused before, and resumed at, the same stage; a retry of an earlier one), two commands, one end, a second attempt for `ci_spec`, plans made in one second or later ones, a plan of high risk. A mark left by one run is read by a second and must be survived by a third.
- `agent_run`: all 24 requests (transport, fallback, reviewer, authentication), two texts or questions: one that counts and one that comes too late. Everything else is unbounded.
- `agent_launch`: the agents of `workspace.config.json` with one more resource that shares a way to a model, and sixteen files with one thing changed or wrong, one per rule; a tree of depth four with links out of, into and around in a directory; three processes: a launch below a launch below a launch, with room for two parts in the name of a report, so that the third may be cut; two ids of which one is spelled as the other.
- `release_publish`: two clones, five commits, versions inferred, from the latest tag or, by `--since-tag`, from the first. One clone commits features and has a work branch, the other fixes. Two rounds of commit, entry and tag, so that a second publisher repeats or overtakes a first, and one commit more for a tag astray.
- `release_chain`: one version, two features, two repositories and the root, preview and production, two shells, four commands: cut, promote, verify and one that overlaps. Eleven worlds, in each of which one thing is wrong, or unusual: in one a check was repeated in the second it started. One shell cuts, without `--force`.
- `spec_library`: a foundation and a feature that must name it, 2 and 10 drafts in which a rule or two decide, two catalogs, one save of the first and two of the second, one change of catalog, one plan, one execution.

Symmetry is used where actors are interchangeable and no liveness is checked. Deadlock is checked except where bounds or design stop the system: commands, runs and processes that come to an end.

### 4.3 Fairness

- Scheduler: the loop and the pool of a living process keep running, and time passes. Workers end because `command_slice_start` is finite. A killed process gets no fairness, since no action of it is enabled.
- Queue: the worker's thread is scheduled and flow commands end (no timeout enforces it: listed as a hazard); a shutdown that began ends the process, as uvicorn does after its handlers; whatever runs the gateway starts it again. The compose file names no restart policy, so the last is the operator's doing; without it no queue can promise anything. Requests, crashes and exceptions have no fairness.
- Agent run: the process itself keeps running (`WF_vars(Runner)`). The child gets no fairness at all: it is the code's deadline that must end the wait. The property excepts what has no deadline in the code, a command line that never ends and a line that never ends.
- All other runs: safety only.


## 5. The proofs

For every value of the constants that satisfies the named assumptions in the modules: sets of any size, no bound on clocks or tokens beyond being numbers.
TLC had checked each inductive invariant before it was proved.

**GlobalLocksProofs.** `TypeCorrect`, `LeasesExclude`, `AuditReplays`, `NothingStolen`, `Refinement`. The inductive invariant adds to type correctness: the instant of a call in flight is in the past;
a lease not yet expired is backed by a row at least as long; the log replays to the table. The first is why an old instant is harmless: sweeping with it frees only rows that expired even then. Exclusion follows since a lock has one row. `Exclusion`: the abstract service excludes, which with typing is inductive (`LeaseExcludes`), and the locks inherit it by `Refinement`.

**SliceSchedulerProofs.** `Typing`, `Gates`, `RowsByOwner`, `Exclusive`, `Outcomes`. The invariant `IInv` says what the loop's local books, the futures, the counters and the shared table tell of one another. `Phase` is what the program text knows at each place (what is still in `todo`, which request
comes next); `Counts`: a counter is the number of jobs it counts, less those whose release is under way, and what is on the pool keeps within the capacities even when an exception left the loop and its counters behind, which is all that `GatesHold` needs;
`Justified` is the outcome of a job by its attempts and parents; `Noted`: a row in the name of a job is among those its loop believes to hold, so that giving back what is believed leaves none; `Holds`, of punctual launches: a row believed held is in the table, with at least
`TTL - lag - MaxLag` seconds left, and with `TTL - lag` once the current round has come to it. The two halves of a round are the reason for `2 * MaxLag < TTL`: a row may go without a renewal for nearly two rounds. Exclusion follows since slices that compete ask for a common lock (`CompetitorsMeet`) and a lock has one row.
`Exclusive` and `Outcomes` assume `DistinctIds`, no two processes under one run id. The code does not ensure it when a run is resumed while its first process lives (`flowctl/workflows.py:940`, section 7), and there exclusion fails: the table takes both for one owner. `Gates` and `RowsByOwner` need no such assumption, and none about punctuality.

**GatewayProofs**, *registry*. `TypeCorrect`, `SingleAssignee`, `TrailTells`, `StatesOwned`, `LocksKept`, `Refinement`. The invariant is type correctness, that a row without token has neither assignee nor expiry, `ClaimsBacked` and `TrailTruthful`. Exclusion follows from `ClaimsBacked`, since a record names one assignee.

**GatewayProofs**, *intake*. `IntakeInvariant`, `IntakeTells`, `IntakeAdmits`: both properties of the intake, for any requests, rules, providers and retry policies, any window and maximum, and any number of rows, restarts and seconds. The invariant has four parts besides types.
`LimitKept`: the limiter may forget, but has every request that still counts (`CountsBefore`: what counts in a later second counts now), so no window of the clock, or no span of that length in memory mode, overflows; a span meets two windows (`TwoWindows`, by the facts on `\div` before it), which is the factor of two in `RateBounded`.
`CheckedRightly`: what waits between its checks and its row has passed them. `RowsRight`: a row is `Proper`, which is what may be queued, and the spec of an intake that succeeded is of that row's making. `HandInStep` and `ToldSoFar`: the row in hand stays running, whatever handlers do to the table meanwhile, until its outcome is written; a spec made but not yet reported is there already; an attempt to tell follows failures that may pass, and there are attempts left.
Assumed are, by name: `LimitAssumption` (window and maximum are positive: `max(1, ...)` in the code), `CatalogAssumption` and `AttemptsAssumption` (finite sets, integers), and `PayloadAssumption`, of which one part is about the code: a title without findings has none either when stripped, as each finding of `spec_quality.py` is about a substring, trailing blanks or the length.
`IntakeAdmits` has a hypothesis besides, `RulesKeepApprovers`: the approver is looked for before the transforms (section 6, 9), and a rule could blank it. `OutcomesTell` needs no such thing.

**SpecProofs**, *claims*. `Typing`, `FreshTokens`, `WorkIsClaimed`. The invariant has three parts besides types. `TokensOnce`: a token is in one lock at most, and in none once it was given back; so the stale claim of a file can be refused but never confused with a newer one.
`InStep`: which notes a command has at which place. `InTime`: under a living heartbeat thread the lock runs out later than the latest moment of the next beat, or its token was given back by the workspace itself. The last alternative is why `ClaimedWork` makes that exception: `release` and `reassign` in a second shell do not stop the thread of the first.

**SpecProofs**, *approvals and plans*. `LibraryInvariance`, `SoundPlans`, `StandingApproval`: both properties of the run, for any documents, prefixes, roots, catalogs and number of specs. The invariant has three parts. `Written`: documents are whole. `Derived`: a plan has the slices of the document it was made of, and that document was fit for it, whatever became of the marks since.
`Vouch`: in the document an approval hashed nothing is found in the surroundings of that moment, written by what findings rest on: `Clean` (the document and the world) and `Founded` (of other specs no more than which are there and which are readable and settled; `FoundedIff` shows that findings about dependencies see nothing else). The status that approval itself writes changes no finding (`SameSlices`, `SameClean`), so what it accepted it still accepts.
`SlicesSound` is about the parser alone: `OwnName` (a name is kept once), `OneRepo`, `KeptSound` and, where there is no breakdown, `WholeSound`. The proof of `StandingApproval` failed at `Plannable`, which wants a target while approval wants something in the field: section 6, 8.
Assumed are types (`DocumentsAssumption`). `SoundPlans` has a hypothesis, `PrefixesApart`: slices of whole repos of different repos have different names. The code takes the name from a configured or slugified prefix (`flow:394`) and nothing compares the prefixes (section 6, 8); where slices are declared the hypothesis is not used.

**TaskQueueProofs.** `TypeCorrect`, `RunningHeld`, `OutcomesTold`, `Finality`, `Refinement`. The invariant adds: a row without status has no content, the worker's task has the status its place implies, and whoever was told an outcome was told the row's. The proof of the refinement maps an execution to an attempt and a crash to an attempt given up. `InOrder` is `StartsInOrder`, by an invariant of its own (`OrderInv`). It counts what is due: a queued task, the claimed one before its start is on record, and, while the gateway is down, the row left running. Starts and dues together are at most the tasks and the ends (`Balanced`): a request adds a task and a due, a start turns a due into a start, an end pays for the one row it leaves running (`Alone`). For the order, `OldestFirst` already holds when a task is claimed: an older task that is neither queued nor running is finished, and what is finished was started (`StartedFirst`); a new row is no older than any other (`InTime`). That clock is `tasks.created_at`: a clock set back is not modelled, and would break the order.

**LifecycleProofs**, *feature*. `TypeCorrect`, `Gate`, `Reviewing`, `Closing`, `Disarmed`. The invariant has four parts besides types: `Backed`, every approval and result in the state, and in any state a command has read and will write back, is in the history;
`Counted`, a slice marked as passed or closed in a plan, on file or carried by a command, has passed; approved texts were reviewed; and `Sound`, for each command, what its place promises about what it carries.
The second is why undoing another's write cannot undo a closing. For `Disarmed` there is an invariant of its own, `Dated`: no plan, approval or command bears a second later than the clock, and the second of a plan that is about to be written is borne by nothing else, unless another plan was made in it. So an approval that is written back is of a plan that is no more. The code rests on the clock there (`created_at`, `features.py:914`); that it is not set back is assumed.

**LifecycleProofs**, *release*. `ChainInvariant`, `SmokeTested`, `ReleaseJustified`, `AsNamed`, `FromTheCut`: every property of its run, for any repositories, contracts, providers, profiles and worlds, any number of shells and commands. `Kept`: a manifest's commits are those of the repositories of its features, and its promotions ran what they had to;
`Carries`: what a command in progress has found out, so that a promotion at the provider still stands on the resolution and the refusals of its preflight (`Chosen`). What the checks promise is in lemmas of their own: `VerifiedInOrder` (the latest runs of all checks, accepted, leave none that counts), `PreflightSmoke` (the profiles of the preflight are among those the verification runs),
`ProviderOfAll` and `SourceOfAll` (one name at most, one branch exactly, is that of each repository). `SmokeRan` and the branches of `DeployedAsNamed` (`FromTheCut`) follow whatever commands overlap. `ReleasedJustified` and the provider in `DeployedAsNamed` are about the features a provider reads in the file, and have the hypothesis `OneCut`, no `--force` and one shell that cuts: with it, `Sure`, every copy of the manifest has the features of the file. Without it they are false (section 6, 7).
Assumed are `RepoAssumption` (finitely many repositories, with all targets among them) and `WorldAssumption` (a commit is on finitely many branches, runs have times).

**LifecycleProofs**, *publish*. `PublishHolds`, `PublishedOnce`, `OriginInOrder`: the property of its run, for any number of clones and commits of any kind. The invariant has, besides types: in each history there is, the commits were made one after the other and entered no version twice (`Recorded`); a tag names the commit that entered its version (`TagsName`);
and `InPlace`, what a publish has done for its version at each place. That is enough for `PublishedOnce`, two parts of `OriginTells`, whatever versions are asked for. That versions grow (`OriginInOrder`) has the hypothesis `Inferring`, no `--bump` and no `--version`: with a version chosen by hand it is false. It is not inductive by itself: a publisher that does not
see the last tag counts from an older one, and what it comes to exceeds the last version only because that one was counted by some of the same commits. Hence `Ordered`, for each two entries of a history: the later one is the greater (`Growing`); two that agree in a number have no commits between them which would have raised it (`Graded`); and whoever counts on from the earlier one by commits up to the later
one comes to no version below the later that has no entry (`Reaching`). The changelog refuses an entry that is there, which is the step where the proof would fail without it. It holds for any tags that `--since-tag` may name. `Counting` keeps, for a version written down but not committed, the tag it was counted from. Where tags astray are excepted, `AstrayBelow` carries the exception from an entry to the later ones.

**WorkflowRunProofs.** `TypeCorrect`, `Reports`, `Attempted`, `Compensating`, `Passed`, `Pauses`, `Permissions`: every property of its run, that attempts on record are executions but for one per run cut off, and that a failed run leaves no passed stage without compensation, for any requests, retry policy and number of runs. The invariant relates file and copy, part by part:
`Covered`, no approval is of a later text than there is or of a second to come, and the copy covers nothing that the file does not, but for a plan made twice in its second; `DueSound`, what nobody asked to repeat is on record as passed in both; `HeldSound`, a pause that counts is in the file, and ahead of the run that would meet it;
`AttemptsSound`, the copy misses only what earlier runs lost, the file one more at most; `ReportSound`, what lies behind the run is on record. The first is why the stale copy is harmless for permissions: an approval that comes back is of an earlier text or second, unless the plan was made twice in its second (`past.again`), where it does fit. Assumed of the clock is that it is not set back.

**AgentRunProofs.** `Typing`, `OneHand`, `NoOrphan`, `HonestReport`: every safety property of its run, for any number of texts, questions and half lines of the child. The invariant follows the task through the session: `ChildInPlace` (there is a child only between `spawn` and `reap`);
`OneOpenRequest` (in the pipe there is one answer at most, to the request that is open, which makes the line read next the one awaited); `EndingsTold` (a turn ends only once it was asked for); `SubmittedNoted` (the note `submitted`, in the error as well, is that the child was given the task; the fallback decides by that note);
`CommandLast` (where a command line is chosen nobody had the task); `TurnTaken` and `OutcomeNoted` (exit code, cancellation and verdict are those of the turn until the report is written). The first attempt at the proof failed where the code's order of tests matters, in `Reap`: a cascade of `if` had been written as `CASE` with arms that overlap, which in TLA+
may take any of them. TLC takes the first, so no run could show it. Such cascades are now `IF` in every module.

**AgentRunProofs**, *launches*. `Launches`, `NeverAbove`, `Impartial`, `AsMeant`, `NothingLost`: every property of its run, for any configuration, tree of directories, set of models and nesting of launches. The invariant has four parts besides the properties themselves: a process has an id (it is in its type), so whoever inherits none is
launched from the shell, which is `NoEscalation`; `LaunchersFirst`, launchers stand before what they launch, so that what a process got from its launcher can still be looked up there; `IdsOwn`, who was told no id is standalone or has an id whose last part is its own; `FilesOfRuns`, a report file is of a process whose id leads to that name. `ReportsKept` follows from the last two by `NameTells`: a name that is not cut still shows the last part, and two ids of the invariant's form that lead to one name are standalone or of one process. `ReviewIndependent` needs no invariant but a theory of
the order: `SortedIs` (in a finite set with a strict total order the ranks fill the places, so the sorted sequence has all of it and each before those it precedes), `OrderedIs` and `ReviewersAre` for the sequences joined from those. For the configurations `TracedNew` shows what one launch does, `Clouded` what every cloud resource ends with. `AsMeant` needs also that a normalised path is a path (`NormalIsPath`, by `Recursion`: what is defined by steps along a path is there, shown by a least counterexample, as the
induction rules of the library cannot be used) and that no path leads nowhere else (`WalkNowhere`).
Assumed are, by name: `NamesAssumption` (names are ordered; none is listed twice as preferred, `agent_roles.py:34`), `SetupsAssumption` (finitely many resources), `FoundAssumption` and `AsksAssumption` (types), `FreshAssumption` (a uuid4 is nobody else's), `NameAssumption` (a name shows one part at least, and `standalone-orchestrator` as it is). That priorities are integers is not assumed: the registry checks it (`agent_resources.py:273`), and so does `Described`.

The properties that a theorem and a run share are one definition each; `OneAssignee`, `LeaseExclusion`, `AuditReplay`, `TokensOnce`, `RunningIsHeld`, `FinishedStays`, `AttemptsTell`, `FailedIsCompensated` and the type invariants are proved and in no run.

*Only model-checked*: the liveness properties `EveryRunReturns`, `EveryTaskFinishes` and `EveryRunEnds` (out of the prover's reach). Every other property of a run is a theorem.


## 6. Disagreements found

What the code does against what a document, comment or test says, met while modelling. The exceptions that the properties of section 4 have to make are among them.

1. *Scheduler* (`flowctl/multiagent.py:357`). `future.result()` rethrows, no handler releases, and other runs wait for the ttl; the lock manager's spec asks for release in `finally` or by compensation "incluso si la slice falla" (`specs/features/softos-global-persistent-lock-manager-and-cross-run-coordination.spec.md:108`). Visible in the launch *stalls*, of which `ReturnsComplete` speaks only where a run returns.
2. *Queue* (`gateway/app/worker.py:83`). An exception ends the worker's thread, the row stays running and nobody is told until a restart: the exception in `EveryTaskFinishes`.
3. *Workflow* (`flowctl/workflows.py:1480`). "Si resume encuentra policy aprobado, el runner continua desde el stage indicado" (`specs/features/softos-human-gated-workflow-runner.spec.md:108`): the stage makes the plan again, which withdraws the approval, and the same policy then refuses.
4. *Slaves.* Pollers skip every spec that names an assignee, an expired one, too (`gateway_ops.py:315`), so the spec of a dead slave is not offered again as the runbook says (`docs/es/slave-remote-gateway-operator-runbook.es.md:146`). The heartbeat thread dies silently on a `TimeoutError` (`:682`). A clear that comes late after a release wipes a newer claim (`:665`). Reassign writes the new owner's token into the old owner's workspace (`:1118`).
5. *Agents.* A local-only resource inherits whatever cloud configuration its launcher has (`agent_process_execution.py:676`), so below a cloud resource it runs with that one's model, while by `docs/opencode-execution-resources.md:48-52` "model/provider selection remains inside the worker/profile + machine-local OpenCode state"; `RunsAsMeant` speaks of local resources that have no cloud resource above them only.
   Two runs overwrite each other's report when their ids read alike in a file name (`:178`), or are nested so deep that the name is cut (`:179`; 19 characters a level, `agent_roles.py:81`): the exceptions in `ReportsKept`. A broken pipe leaves no report. A `stopReason` of refusal counts as success. A partial line blocks the deadline and the cancel (`acp_transport.py:286`); a cancel before there is a session still submits the task (`:273`). The reviewer gate takes every resource for available and compares a bare executor by name only (`:366`).
6. *Publish.* A crash after the tag and before its push: the next publish finds no commits, and the tag never reaches origin (`release.py:1646`). `git push origin main` pushes main, whatever is checked out (`:1653`). Hence `TagsOnMain` is about tags made on main. The next version is counted from the greatest of all local tags, whichever history they are of (`:644`), and the tag is made before anything is pushed:
   after a publish that failed and whose commits were reset, or one on a work branch, its tag is counted from, and versions may go down along origin's history when another clone publishes next. `TagsGrow` excepts versions with a smaller tag astray.
7. *Release.* `cut --force` while a promotion runs: the promotion writes the old manifest back and marks the features of the old one (`:1138`, `:1383`); `ReleasedJustified` holds without it only. Two shells that cut one version at the same moment both find no manifest, and the later one replaces the earlier one's under a promotion, to the same effect. Common environment variables win over those of the environment (`:150`). A crash after the provider succeeded makes the next promote deploy again (`:1480`).
8. *Specs.* A review analyses the spec and then reads it again for its hash (`features.py:401`, `:403`): saved in between, the verdict on one content is stored under the hash and mtime of another, which approve then takes for reviewed; only approve's own analysis (`:583`) has seen that one. A plan differs from the last only by the second it was made in (`:914`), so a plan made again within that second is byte for byte the one that was approved, and an approval that a slower command writes back permits it, where "Regenerar el plan invalida la aprobacion previa" (`specs/features/softos-plan-approval-formal-gate.spec.md:39`): the exceptions in `RemakingDisarms` and `EngineNeverPermits`. plan-approve does not check that the plan was made from the current spec; below schema 3 faulty slices are dropped silently; review says ready while approve refuses; next-step leaves plan-approve out (`docs/softos-full-workflow.md:144`); a dependency cycle is nobody's finding (`multiagent.py:318`). `ApprovedStands` therefore speaks of a plan of the present document only. Before schema 3 a `targets` of blank strings is approved, since the check for required fields sees a list (`specs.py:898`) and the reader drops its items (`:155`); plan then refuses the approved spec (`:368`): the exception in `ApprovedStands`, found by its proof. Two repos whose slice prefixes agree (`flow:394`: `my_svc` and `my-svc` do) give a plan without declared slices two of one name.

9. *Intake.* An intake of a slug whose spec exists "no crea tarea fallida" (`docs/process-and-integrations-runbook.md:95`): the question is asked by GitHub's handler only (`gateway/app/main.py:390`), and when the request comes; of two requests in a row the second one's task fails. The policy on approvers is
said to be one of `POST /v1/intents`; it refuses webhooks as well, and as an approval in the short form (`approve x`) cannot name an approver, none of these passes once it is on. It looks at the payload before the transforms, the lint after them. Every event of a Jira issue, a comment on it, too, is an intake again.


## 7. Not modelled

- Lines printed, JSON layout, YAML and Markdown text, git itself, provider scripts, the argv of adapters and the text of prompts and handoffs: data or wording that no property tells apart.
- `resolve_spec`'s choice among several files of one name, and the selection of specs by git diff: the models have one file per slug.
- Tokens and signatures of the gateway, its read-only pages and audit rows. Whether an answer was posted although the script said otherwise (`feedback.py:151`): it is sent again then, and no state of the gateway can tell the two. The reply address of a duplicate request: within the window it is dropped, whatever the outcome of the first.
- Two runs of one workflow at a time. A resume reuses the run id (`flowctl/workflows.py:940`), so the lock table takes a resumed run and a first process that still lives for one owner, and a slice may be executed twice.
- A flow command that outlives its gateway is in the queue's model as an orphan, but no property speaks of it: after a restart it may meet its own repetition (`gateway/app/store.py:239`). Within one process one command runs at a time.
- The scheduler's in-memory lock table, used when no backend is given, which only tests do.
- `slice start` loads the plan (`features.py:1002`) a moment before its policy hashes the file; here both are one step, and a plan made between the two is not seen.
- Torn files: `write_state` truncates in place; a model with torn files would say no more than that every later command stops.
- Two gateways on one Postgres database: `BEGIN IMMEDIATE` becomes `BEGIN` there and row locks are not taken. The documents deploy one gateway.
- `ci repo`, `ci integration`, evidence, contracts, stack, infrastructure, memory, code graph, skills, workspace administration, migrations: they read, run tools and write reports; no state is kept between two commands that another one decides by.
