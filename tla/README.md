# Verification of the agentic environment: deployment, self-healing, coding, automation and sales

The repository is a Mastra server in TypeScript that runs agents, and that maintains itself: runtime errors
become tickets, a ticket starts a workflow in which a coding agent patches a worktree, a review agent gives a
verdict, a human confirms, the change is merged, and two shell scripts put the new version into service with a
blue-green swap and a watchdog. The same server builds automations: a request becomes an n8n workflow that is
checked, approved, deployed, tested, repaired and activated. And it runs the business: workflows find suppliers and
clients, have mails approved and sent, follow up, read the inbox and plan meetings over one collection of leads. This
directory holds TLA+ models of that core, the TLC runs that check them on small instances and the proofs TLAPS checks
for every instance.

Paths below are relative to `src/`; `mastra/` stands for `src/src/mastra/`.

## 1. Inventory

### Parts with state of their own

| Part | State | Operations | Meets | What is hard | Correct when |
|---|---|---|---|---|---|
| **Blue-green deployment**, `scripts/deploy-blue-green.sh` | pid files, processes, the two ports, build directories of Live, staging and rollback | sync, build, start staging, health check, backup, stop Live, start Live, verify, emergency rollback | the Live server it kills, the watchdog it starts, the workflow that calls it | several exits, pauses instead of waits, no lock, pid files that outlive their process | only verified versions serve; before the swap Live is not touched; nothing is left running; it ends |
| **Watchdog**, `scripts/watchdog.sh` | consecutive failures, check number, LIVE_PID | check process, check health, count errors, roll back, promote | the Live server, a later deployment | goes on while the next deployment swaps under it | a Live that hangs is rolled back; what it promotes serves |
| **Error collector**, `mastra/services/error-collector.ts` | tickets in the database, per-process flag and cooldown | reportError, trigger, mark, resolve, expire | the workflow it starts, the global error handler, the other server's collector | three awaits between looking and inserting; the mark is late; two processes share the tickets | one active ticket per error and server, a bounded number of them, closed ones stay closed |
| **Repo-maintenance workflow**, `mastra/workflows/repo-maintenance.ts` | run (suspended in a store), artifact with verdict, worktree, pull request | diagnose, patch, review, decision gate, deploy-and-verify | agents, git, GitHub, the human, the deployment | resuming executes the step again; fallbacks; agents that outlive their timeout; restarts | nothing is merged without approval and confirmation; what a first approval was about is what is merged |
| **Harness**, `mastra/services/generate-with-harness.ts`, `harness-run-state.ts`, `harness-tool-envelope.ts`, `harness-policy.ts` | runs with their state, records of tool calls | a turn: context, agent, timeout, what was said; a tool call: policy, record, tool, end | agents, the memory, the workflow, delegations | an agent goes on behind a turn that has timed out; records are best-effort | a record tells what became of the tool |
| **Semantic memory worker**, `mastra/services/semantic-memory-worker.ts`, `coding-precontext.ts` | pending contexts, ledger of injected memories | compute, consume, note | turns of agents | look, consume and note are three awaits | a memory is shown once |
| **Async delegation**, `mastra/services/async-delegation.ts`, `tools/system/delegate-task.ts` | delegation record | start, turn, finish, message | harness, pending messages | nobody awaits the turn; any call of the database may throw | the answer reaches the caller |
| **Background tasks**, `mastra/services/background-task-manager.ts` | record in the database, status file, process, exit handler | start, exit, poll, cancel, clean up | the pending messages | exit against poll against cancel; restart of the server | the end a record tells is one the process came to, and its owner is woken (the code does let one end overwrite another) |
| **Pending messages**, `mastra/services/pending-message-queue.ts` | messages pending or consumed | queue, take, expire | background tasks, delegations and jobs that queue, dispatch that takes | find and mark are two calls | a consumed message was delivered (twice, if two takers found it) |
| **Dispatch**, `parallel-dispatch.ts`, `subtask-executor.ts`, `smart-router.ts`, `gpu-guard.ts`, `circuit-breaker.ts`, `budget-tracker.ts`, `model-availability.ts`, `config/model-capabilities.ts` | groups, results, attempts; per process circuits, spent budget, available models | route, execute a group, fall back, retry, escalate, interrupt, check the models | models, pending messages, the ledger its agents use, other dispatches of the process | subtasks side by side; retries after the group; messages taken at every attempt; models chosen by three rules at three times | every subtask gets one answer, after those it depends on; an urgent message stops what it should; what the router puts on the card fits; it ends |
| **Change ledger**, `mastra/tools/dev/code-change-ledger.ts`, `code-worktree.ts`, `workspaces/code-workspace.ts` | snapshots, the files of the worktree and of the live repository, worktreePath | record before and after, tracked write, reject and accept (one file, all), worktree create, merge, remove | agents side by side, people, `init-db` (the index) | reads, file writes and updates in turn without a transaction; a call that stops between them | the text before the agents' work is never lost; live files change by a merge, by people, or by the undoing of what an agent did; work is accounted for |
| **Automation jobs**, `mastra/services/automation-job-manager.ts` | job record, heartbeat, live jobs of the process | start, execute, heartbeat, cancel, mark stale | golden path, pending messages | conditions checked before an await and not with the write | an early cancellation stands; a message tells what the record says; every job ends |
| **Golden path**, `mastra/services/automation-golden-path.ts` with the validator, the risk score and the repairs | workflows in n8n, their records, approvals | check, approve, deploy, sync, test, repair, activate | n8n, jobs, humans | two systems written in turn; executions of one workflow side by side; bounded repairs | what lands in n8n was checked and approved; others' workflows stay; one owner each |
| **Architect tools**, `mastra/tools/architect`, `mastra/tools/n8n` | workflows in n8n and their records | compose a pattern, validate, deploy, activate, test, repair | agents side by side, n8n | every tool is a chain of awaits that looks first and writes later | what a builder writes never keeps its pattern from being deployed; what is active was checked |
| **Leads and business workflows**, `mastra/workflows/producer-hunt.ts`, `client-hunt...`, `marketing`, `sales`, `tools/crm` | leads, drafts and mails in Gmail, approvals, calendar | hunt for suppliers and clients, follow up, read the inbox, synchronise, plan meetings, propose, enter a lead | each other, over the leads; Gmail; the people who approve, answer and send by hand | long suspensions; reads that are old when they are used; mails that cannot be taken back when the update after them fails | only approved mails go out, once; the collection knows whom it has mailed and who has answered; meetings are those a person let through |

### Parts without

Agents, prompts, skills and tables of configuration are text; events and the compactor are logging and layout; the
gateways, Google, search and chef tools are calls of services; the weekly content, the morning briefing, the onboarding
and the analytics are chains of agents that write reports. `PROJECT.json` lists every one of them with the reason it
is left out. The agents, the human, GitHub and git appear in the models as actors whose choices are nondeterministic.

### How the parts interact

The global error handler (or the Live server's own log) reports an error to the collector of its process. The
collector inserts a ticket and starts a run of the workflow, which it does not await. The run has its agents work in
turns of the harness, suspends in the decision gate until somebody resumes it through any server, merges into the Live
checkout (or on GitHub, then `git pull`), calls the deployment script with `execSync`, and resolves the ticket when the
script says it is healthy. The script starts a new server, so the process a run executes in, the process whose
collector started it and the process it deploys are three roles that the code often gives to one process. A turn takes
the memories an earlier turn's worker has left, and its tools go through the envelope to the policy, the record and, for
files, the change ledger. Delegations, tasks and jobs bring their results to a thread through one queue of messages. The
business workflows know of each other only through the documents of the leads.

## 2. Plan

Written, checked and proved about, in the order of what the system can least afford to get wrong:

1. `BlueGreenDeploy` (scripts), with the abstract `LiveSlot` it implements.
2. `ErrorCollector` (tickets).
3. `RepoMaintenance` (workflow), with the abstract `MergeGate` it implements.
4. `BackgroundTasks` and `PendingMessages`, composed by `SoftInterrupts`.
5. `SubtaskDispatch`, which extends `PendingMessages`: the dispatch is a taker of the queue.
6. `ChangeLedger`: what the agents of a dispatch do to files, and how it is undone.
7. `WorkflowChecks`, `GoldenPath` and `AutomationJobs`, each extending the one before.
8. `HarnessPolicy` and `ToolEnvelope`; `SemanticMemory` and `HarnessTurns`; `CodingTurns`, which composes them with
   `RepoMaintenance`; `Delegations`, which composes `HarnessTurns` with `SoftInterrupts`.
9. `LeadQuality`, `LeadCrm`, then `ProducerHunt`, `ClientHunt` and `LeadFollowUps`, composed by `Outreach`.
10. `N8nNodes`, `Patterns`, `GraphChecks` and `ArchitectTools`.
11. `SmartRouter`, and `RoutedDispatch`, which puts the choice of models under `SubtaskDispatch`.

What would come next: a composition of the tickets with the workflow and the restart a swap causes, to state what
becomes of a ticket whose run deploys itself; and the graphics memory of two dispatches at once, which nothing in the
code adds up.

## 3. Modules and code

Each module's actions have the names of the steps of the script, or of the functions and the awaits inside them;
`PROJECT.json` maps every one to its lines. An `await` of the code ends an action: whatever the code does up to
the next `await` is one step, and everything else in the system may happen between two steps.

**`BlueGreenDeploy`** is `scripts/deploy-blue-green.sh` and `scripts/watchdog.sh` on one host. State: the version
checked out in `LIVE_DIR` and the versions built in the three directories; processes with the version they run, whether
they answer, and the port they hold; `slot-a.pid` and `slot-b.pid`; per deployment the step of the script (`dpc`) and of
its watchdog (`wpc`) with their shell variables. A version is a number: 0 is installed, a commit to `LIVE_DIR` makes the
next. `Sync`, `Build`, `KillOldStaging`, `BootStaging`, `StagingHealthy`/`StagingUnhealthy`, `Backup`, `StopStaging`,
`StopLive`, `StartLive`, `SwapHealthy`/`SwapUnhealthy` and `EmergencyRestore` are the script from top to bottom with
each `exit`; `WatchFindsDead`, `WatchUnhealthy`, `WatchHealthy`, `RollbackKills`, `WatchRestore`, `Promote` and
`SendAlert` the watchdog. `Start` is a server that starts, also on a taken port, where the global error handler keeps it
alive without the port; `Signal` is `kill`, the pause and `kill -9`. The handler of SIGTERM is JavaScript
(`mastra/index.ts:592-602`), so a server whose event loop is blocked (`sick`) does not react to a plain `kill` and stays
until somebody sends `kill -9`, which no step that
stops a staging server does; with `SlowExit` a busy one may outlast the pause too (`Slow`). The curls without `--max-time` wait for a server
that hangs (`CurlWaits`): the health checks of the script, the details of staging, the check after the swap, and the
watchdog's alert and its look at the restored server (`AlertWaits`, which also waits for an n8n that hangs, `N8nHangs`).
`Crash`, `Hang` and `Abort` (the caller's timeout, or a signal) are the surroundings.

**`LiveSlot`** is the promise to a client of the Live port: one version at a time, and only the installed or a
verified one.

**`ErrorCollector`** is `mastra/services/error-collector.ts`, one record of a report's progress per server
process (`report`), the cooldown, the tickets in the database and the runs of the workflow they start, each
reduced to running, suspended, resumed and over. `FindDuplicate`, `CountActive` and `InsertTicket` are the three
awaits of `_processError`; `MarkInProgress` is the update that follows the return of `run.start`. Live and the staging
server of a deployment are two such processes over one collection.

**`RepoMaintenance`** is `mastra/workflows/repo-maintenance.ts`: the step a run is in, the human's answer, the
verdict handed over and the one in the artifact, the version in the worktree and the version pushed, what is
merged locally and on GitHub. `Rework` and `Rereview` are what the decision gate does for `needs_changes`, before
the suspension and again after the answer, because resuming executes the step from its first line. `LateAgent` is
an agent whose call timed out and that goes on.

**`MergeGate`** is the promise of the decision gate: approved, then asked, then confirmed, then merged.

**`BackgroundTasks`** is `mastra/services/background-task-manager.ts`, await by await: `Spawn`, `Insert`, `Attach`
(start); `ExitUpdates`, `ExitWrites`, `ExitWakes` (exit handler); `PollFinds`, `PollChecks`, `PollRecovers`,
`PollSets` (`getBackgroundTask`, repeated by `waitBackgroundTask`); `CancelFinds`, `CancelKills`,
`CancelUpdates`, `CancelWrites`. The process, the record, the status file and the handler are separate variables,
since the point of the code is that they disagree for a while. `Exit` is the process's end, `CleanUp` the tool's
clean-up, `ExpireTask` the TTL index, `RestartTasks` the server's restart, which leaves the detached process
running. The `...Fails` actions are a call of the database that throws, before or after it has had its effect.

**`PendingMessages`** is `mastra/services/pending-message-queue.ts` with the processor that injects what it takes:
`Queue`, and `Find`, `Mark`, `Return` for the three steps of `takePendingMessages`. Several takers may share an
owner, such as two turns of one thread.

**`SoftInterrupts`** composes the last two: the exit handler's last step queues the message.

**`SubtaskDispatch`** is `dispatchSubtasks`, `executeSubtask` and `retryFailedSubtasks`. `loop` is where the dispatch is:
before a group (`check`, where it takes messages), in one (`run`), or over. `sub` is a record per subtask: its step, its
attempt (first run, retry, escalation), whether the call has fallen back, its result, and the messages in its context.
`BeginGroup` takes the next group of `buildParallelGroups` (`NextGroup`); `Prompt`, `Answers`, `FallsBack` and `Throws`
are a call of an agent; `Keep`, `TryAgain`, `GiveUp`, `Attempt` and `InterruptSubtask` the loop over the results, one
subtask after another (`Turn`); `InterruptGroups` an urgent message before a group. Which model runs a subtask is open here.

**`SmartRouter`** is how a model is found: the registry of `model-capabilities.ts` as a sequence, of which a model is a
place; `Selects` for `selectModel`, from the candidates (`Considered`, `Usable`) and their order (`Before`) to the
absolute fallback; `canLoadModel` and a `Snapshot` for `gpu-guard.ts`; `Fallbacks` for `findOfflineFallback` and
`Escalates` over `Stronger` for `getEscalationModel`.

**`RoutedDispatch`** is the dispatch with its models. `TakeSnapshot`, `Route` and `RouteThrows` are `routeSubtasks`, one
assignment a step although nothing else moves meanwhile, because a later choice depends on the room an earlier one has
taken (`reserved`); `given` is what the router decided, `model` is `assignedModel`, which `FallsBackTo` and
`TriesAgainWith` overwrite. `VerifyPlan` is `quickModelCheck`, which changes the flags and not the plan. `failures`,
`open` and `requests` are the circuit breaker and the budget, `available` the flags of the registry; they belong to the
process, so other dispatches (`OtherCall`), the check of all models (`VerifyAll`) and the day (`NewDay`) change them
too. Only the router looks at circuits and budget: a retry, a fallback or an escalation does not.

**`ChangeLedger`** is `code-change-ledger.ts` with the tools of `code-worktree.ts`. `text` is what is in a file of the
live repository or the worktree, each text named by the call that wrote it; `snap` the collection of snapshots; `call`
a tool call with its next step and what it has read. A tracked write is `FindOpen`, `ReadBefore`, `Insert`, `WriteFile`,
`Reread`, `Update`; a rejection `FindAny` or `FindAll`, then per snapshot `NextDoc`, `CheckRejected`, `Restore`,
`MarkSnapshot`. `Begin` has the two ways to resolve the workspace, with and without the refusal of the live one
(`workspaces/code-workspace.ts:28-29` and `136-137`): writing tools have the first, rejecting ones the second.
`unique` says whether `init-db` has made its index, under which an insert beside another is refused. `InitWorktree`,
`ApplyPatch`, `RemoveWorktree` and `ForgetWorktree` are the worktree's life, `Edit` other people.

**`WorkflowChecks`** has the pure part of the automation code: a workflow is the set of its flaws, one for every class of
findings that the validator, the risk score and the repairs tell apart, and their verdicts and repairs are functions on
such sets. The points and limits of the risk score are the code's.

**`GoldenPath`** is `executeAutomationGoldenPath`, one `path` record per execution with its step and local variables:
`Prepare` (up to the deployment), `Find`, `CheckOwner`, `Save`, `Record`, `Fetch` (`deployWorkflow`, also for
repairs), `SyncRead`, `SyncWrite`, `MockTest`, `RepairFlow`, `MarkManual`, `MarkTested`, `Gate`, `Activate`, `Activated`.
`n8n` is what n8n has, `request` the collection `automation_requests`; the points of interest are between them. `Throws`
and `AnswerLost` are a call that fails before or after n8n has done it.

**`AutomationJobs`** is `automation-job-manager.ts` around it: `StartJob`, `GoLive`, `Claim`, `EnterPath`, `StepPath`,
`LeavePath`, `Complete`, `Notify`; `Caught` and `NotifyFailure` for the catch; `Cancel` and `CancelWrite`,
`MarkStale`, `Restart`. Executions that are not in `Jobs` run as `executionMode: sync`.

**`HarnessPolicy`** is `harness-policy.ts` as a function from a request (read, write or command, with the place a path
leads to or the classes a command matches) and a task's scope to a decision. **`ToolEnvelope`** is
`harness-tool-envelope.ts`: `Evaluate`, `RecordStarted`, `RefuseCall`, `Execute`, `RecordFinished` for the awaits of one
call, `FinalStatus` and `ClassifyToolError` for what its record says, the `...Fails` for a database that throws, which
the code swallows. A call is bare, enveloped, or one of the workspace, which is recorded after it has run.

**`SemanticMemory`** is the worker and the memory part of `coding-precontext.ts`: `FindPending`, `SettlePending`,
`InjectPending`, `FilterRecall`, `NoteRecall` for a turn that builds its context, `Score`, `DropInjected`,
`ComparePending`, `StaleExisting`, `InsertPending` for the worker after it. Scores are a free choice; ids are recorded as
injected although only the first ones are in the prompt (`PromptItems`). **`HarnessTurns`** is `generateWithHarness`
around it: `StartTurn`, the four kinds of context, `BeginTurn`, `AgentEnds`, `AgentHangs`, `TimesOut`, `CompleteTurn`,
`FailTurn`; the agent is a variable of its own, since it goes on behind a turn that has timed out.

**`CodingTurns`** puts the three beside `RepoMaintenance`. They meet in the arguments of calls only, so a behaviour is
about one of three worlds: the workflow, the memory of the turns of a task, or the tool calls of a turn.

**`Delegations`** is `delegate-task.ts` and `async-delegation.ts` over `HarnessTurns` and the queue of `SoftInterrupts`:
refused, synchronous, direct and asynchronous delegation; then `InsertDelegation`, `Connect`, `HarnessReturns`,
`RecordCompleted` or `RecordFailed`, `QueueResult` or `QueueFailure`, each with a call that throws. A behaviour is about
background tasks or about delegations.

**`LeadQuality`** is `producer-hunt/quality.ts`: the type, the points and the decision of a lead, and what the check of
identity makes of the research. A text is the set of signals its keywords give; points and limits are the code's.

**`LeadCrm`** has the leads (`leads`, a sequence of documents), Gmail's drafts and the mails that went out (`gmail`,
`mails`), who has written (`wrote`), the calendar (`events`), the drafts people have let through (`allowed`), and a
record per run: its step, and what it has still to treat (`todo`), has treated (`done`) and holds between two awaits
(`hand`). It also has everybody around: the tools of `tools/crm` (a lead entered with any status, any field of a lead
overwritten, its address included, with `taken` and `vouched` as the history of that), replies, mails sent by hand,
time, a call that throws, a restart (a suspended run survives it). **`ProducerHunt`** is the hunt for suppliers from
`GatherSources` to `EndHunt`, lead by lead and draft by draft; **`ClientHunt`** the one for clients; **`LeadFollowUps`**
the inbox monitor, the synchronisation with Gmail, the follow-ups, the meeting scheduler and the proposal generator.
**`Outreach`** puts them side by side.

**`N8nNodes`**, **`Patterns`**: the nodes the builders make, with which fields of the item a node takes and gives, and the
43 workflows of the catalog, one definition per builder. A node names the texts of the request and of the topology that its
builder copies into it (`texts`) and the words of its own that a check looks for (`words`); what those texts say belongs to
the environment (`env.says`). **`GraphChecks`** is validation in three profiles, the risk
score, the activation policy and the deterministic repairs over a pattern and what an agent has edited in it.
**`ArchitectTools`** is `compose_workflow`, `deploy_automation`, `activate_automation`, `test_workflow` and
`repair_workflow`, await by await, for agents that call them side by side; `Fire` and `RunNode` execute a workflow in n8n.

The `MC...` modules give the constants their values; the deployment and the collector need none, since their constants
are numbers and model values.

## 4. Runs

| Run | Asks | Result | States |
|---|---|---|---|
| `deploy` | two deployments, the second perhaps while the watchdog of the first still watches, servers that may be slower than the pause, one crash or hang, one aborted script: is no server left over, is Live untouched before the swap, is `LiveSlot` implemented, is a hung Live stopped, do scripts end | holds | 521,870 |
| `deploy_backup` | does the backup have what Live serves | violated | 19 steps |
| `collector` | Live and staging report two errors over one database with a limit of one: has no server two tickets of an error, how far is the limit passed | holds | 5,796,000 (up to symmetry) |
| `collector_twice` | does the same error start the workflow once | violated | 8 steps |
| `turns` | the workflow on every path: is `MergeGate` implemented, is a first approval what gets merged; turns of a task and their memory: is none shown twice; calls of tools: is the record true | holds | 2,821,214 (up to symmetry) |
| `repo_confirmed` | is what was confirmed what is merged | violated | 11 steps |
| `wake` | a task that wakes its owner, or a delegation, with another message, two takers, one restart or failure at any step: is the record true, does the end or the answer arrive | holds | 435,217 |
| `dispatch` | three subtasks over four models, two messages, one restart or failure: does each get one answer, after those it needs; are messages shown; do local models fit on the card, and stay away from a machine without one; does it end | holds | 1,340,020 |
| `ledger` | three tool calls on a file, two at a time, an edit by others, a worktree, with and without the index: is the original kept, the work accounted for, Live changed by undoing only | holds | 3,748,300 (up to symmetry) |
| `jobs` | a job and another execution over the same n8n, a cancellation, a stale mark, one restart or failure: what is in n8n, whose it is, what the record and the message say, does the job end | holds | 659,058 |
| `crm` | pairs of business workflows over the same leads, with replies, approvals, people's own mails, calls of the CRM tools and one failure: were mails approved, are the mailed known, are drafts worthy, has whoever is said to have answered written, were meetings agreed to, do runs settle | holds | 334,043 |
| `architect` | every pattern with what topologies and requests may say, edited drafts, two agents over one workflow: does no builder's own text keep its pattern from deploying, do requests have their fields, was what is active checked | holds | 696,746 (up to symmetry) |

### Bounds

- Deployments: two, because what goes wrong between deployments (pid files, backups, watchdogs) shows with a
  predecessor and a successor. `MaxVersion` 1: the second deployment swaps in another build of the version or the first one
  of it, and a staging server that does not answer is one that crashed or hangs, so a version that never answers
  (`Broken`) adds nothing to this run. `MaxPid` 7 suffices for the servers two scripts and their rollbacks start; one crash
  or hang, of a server or of n8n, and one aborted script; 2 checks with a limit of 2 failures, so that a watchdog can see
  both and roll back, one of them, or none.
- Tickets: two servers, two errors, three tickets and one restart; with `MaxActive` 1 the limit is reached by every ticket,
  and with two servers passed by one. In `collector_twice` the limit is 2, since a second ticket is what it looks for.
- Workflow and turns: runs share nothing but the Live repository, where each merges versions of its own, so one run; 3
  is the code's own `MAX_REVIEW_ITERATIONS`; one restart at any step; with and without automatic swap. Three turns, the
  third delegated into the thread of the others without their task, reviews after the turns they review; one memory and
  one tool call, for whether something is shown twice or recorded wrongly is about one; at most one agent that fails in
  the memory's world, one turn that recalls nothing in the tools' world; one failure.
- Tasks and delegations: records, files and processes of different tasks do not meet, so one task or one delegation; two
  takers are the race; a batch of one (`Limit`) with two messages makes the limit bite; beside a task the other message
  may be urgent; one restart or failure anywhere (`MaxTroubles`).
- Dispatch: three plans are a group of two before one, one before a group of two, and a circle; one critical subtask;
  two messages that anybody makes urgent or not, a batch of one; one restart or failed call. A message more or another
  subtask adds no new meeting: retries go one after another, and two subtasks at work side by side are there. The
  registry has a light and a heavy local model, a free and a paid one; `MCSettings` has the plans with one model and the
  messages, a card on which either local model fits and both do not, a machine without a card, models that come and go,
  and two calls of others. A circuit opens at the second failure, and the budget is one request, so that both bite.
- Ledger: one file, because tools meet on a file and `reject_all` treats snapshots in turn (several snapshots of one
  file are there without the index); three calls suffice for a race of two and one that comes after or before; one
  worktree and one edit by others. Calls are symmetric; the names of texts are the calls'.
- Jobs: an execution that is a job and one that is not; a new workflow, one that belongs to somebody else, and one under
  an automation that does; the inputs in `MCAutomationJobs` are chosen so that the draft repair, the approval, the
  refusal, all three repairs, the manual review and the activation occur. `Workflows` has room for what two executions
  create.
- Leads: two companies and two addresses, one in the domain of the other, so that the match by domain can go wrong;
  empty or with a lead mailed long ago and one without an address. `Schedules` name who is at work together, how often
  the surroundings act and how much may fail: a hunt alone (2 acts, 1 failure); one that finds two suppliers, and one
  beside an entry by hand (0, 0); one beside the inbox or the synchronisation (1, 0); clients with the synchronisation,
  follow-ups with the inbox, meetings with the inbox and with proposals (2, 1), with another scheduler and with an entry
  (1, 1); two hunts (0, 0). An act is one call of a CRM tool, one reply, one mail sent by hand or a passing of time.
- Architect: settings of `Env`. `EachPattern` has 43 patterns, each with six `Sayings` (nothing, plain http in the
  topology, in everything, with a shared secret of 32 characters, a legacy address, a word of a secret in the request),
  and without credentials, with one agent, two calls and an execution; `Edited` one or two of nine edits on two
  patterns; `Shared` two agents that deploy and activate (3 calls); `Tested` two that deploy and test, with an
  execution; `Repairing` two with six calls; `Readdressed` one that repairs a draft whose request named a legacy
  address. Agents are symmetric.

`CHECK_DEADLOCK FALSE` is in every configuration because the bounded systems do stop: deployments are over,
tickets used up, runs settled.

Every property of a passing run has a mutant in `PROJECT.json`: a small change of a definition, kept in the module
next to the original and commented as such, with which TLC finds the property violated.

### Findings

The violated runs are disagreements of the code with its own texts, and so is what `dispatch` shows of the abort;
`PROJECT.json` quotes them.

- `deploy_backup`: the backup is taken from `LIVE_DIR/.mastra/output`, a directory no deployment updates; after the
  first swap a rollback restores the installed version, not the one that was serving.
- `repo_confirmed`: the resumed gate reworks and reviews again before it looks at the answer.
- `collector_twice`: Live and staging each find no ticket, each insert one, and the workflow runs twice for one error, which
  `error-collector.ts:8` says cannot be. What the code does achieve is in `collector`.
- `dispatch`: the abort of the remaining groups after a failed critical subtask (`parallel-dispatch.ts:205-215`) is never
  taken, because no result of `retryFailedSubtasks` is `failed`: a bad result becomes `needs_human`. So
  `EverySubtaskIsAnswered` holds, with the groups after a critical failure executed all the same.

What the models have shown besides; where a text of the repository says otherwise, it is named:

- The exit handler of a background task is attached only after its record was inserted
  (`background-task-manager.ts:124-158`); a process that ends before is noticed by a poll, or not at all.
- Rejecting a snapshot after its worktree was removed writes into the live repository, although
  `workspaces/code-workspace.ts:28-29` and `136-137` say agents never do; `LiveChangedByUndo` says how far that goes.
- A deployment leaves a staging server that hung after its health check: `StopStaging` sends no `kill -9`. A new server that
  finds the Live port still taken stays alive without it, and the check after the swap is answered by the old one.
- The watchdog that promotes or rolls back waits for ever in `send_alert` if Live, or n8n, hangs at that moment.
- A good deployment can be undone by the watchdog of the one before, which takes its own dead Live for the new one's.
- `ai-scraper-to-crm` copies the goal into a code node that speaks of a secret already: with an http address in the goal
  it scores 90 and cannot be deployed (`builders/scraperPattern.ts:86`, `risk-scoring.ts:147-165`);
  `webhook-security-filtered-telegram` with a shared secret of 32 characters scores 75, and 90 with an http address in
  its texts. A topology or an input that says `http://localhost:3000` makes an error of every draft that carries it
  (`workflow-validator.ts:542`).
- `meeting-scheduler.ts:3` says "dla gorących leadów" (for hot leads), but the ids of the proposals are whatever the model
  answers (160-168), to a prompt that does not contain them (111-115); `automated-followup.ts:91-113` is the same. A meeting
  can be proposed to, and after a person's approval entered for, any lead.
- Without the index two writes side by side make two snapshots of a file, the second with the first call's text as the
  text before. The first is rejected, a third call writes on the second, the second is rejected: the first call's
  text is back and both snapshots say rejected. Hence the condition `unique \/ Plain(f)` in `WorkIsAccounted`.
- `telegram-to-ollama-reply` and others send `$json.telegramMessage`, which the answer of Ollama does not have.
- Deploying over a workflow that is active puts the new one live, while the answer says `Status: inactive`
  (`deploy.ts:153,199`).
- Two agents that repair one workflow together pass the limit of repairs by one each (`repair-workflow.ts:73`).
- While a circuit is open only the router avoids the model: a subtask of a later group, a retry and a fallback still
  call it, although `circuit-breaker.ts:9` says requests are blocked. The absolute fallback ignores circuit, complexity
  and budget; an escalation also the card; two fallbacks of one group may both take the whole card. Hence `model[s] =
  given[s]` in `CardHolds`.
- The third attempt can run on a weaker model than the first: it escalates from what the fallback left behind.

## 5. Fairness

Safety runs use `Spec` without fairness. Liveness uses a fair specification:

- Scripts: weak fairness of each script's and each watchdog's steps. They are shell loops with a bounded count and
  `sleep` between. The steps that may never come are the `curl`s without `--max-time` against a hung server or a hung
  n8n; their guards (`CurlWaits`, `AlertWaits`) disable them, and `ScriptsEnd` names them as the exceptions. A server
  that was sent SIGTERM owes nothing: it may hang.
- Tasks: weak fairness of a start's and of an exit handler's steps (calls of the database return or throw), of each
  waiter's polls (`waitBackgroundTask` is a loop; a caller whose ten minutes are over asks again), and of each taker (the
  owner's agent comes to interrupt points while it works). No fairness for the end of a process, a cancellation,
  an expiry or a failure. With finitely many other messages urgent ones cannot hold back the rest for ever; in the
  code they can.
- Delegations: weak fairness of the steps of a turn, its timeout included (`withTimeout` races every call of an agent),
  and of the delegation's. The agent owes nothing.
- Jobs: weak fairness of the steps of a job, that is of its process; whoever cancels, approves or marks stale owes
  nothing, and the calls of n8n have timeouts (`AbortSignal.timeout`).
- Dispatch: weak fairness of the dispatch as a whole (`RoutedStep`): every call of an agent is raced against a timer,
  and the requests to the providers are aborted after five seconds. Others, restarts and messages owe nothing.
- Business workflows: weak fairness of each run's steps: calls of models, Gmail and the database return or throw. People
  owe nothing: a run that waits for a decision counts as settled.

The ledger, the collector, the workflow, the turns and the architect's tools have no liveness property: a call of a tool
may stop at any step, which stands for an await that throws and for a restart. No run uses strong fairness.

## 6. Proofs

TLAPS checks 14,866 obligations in eight modules, for every value of the constants that the `ASSUME`s allow. The
theorems to know:

| Theorem | States | Assumes |
|---|---|---|
| `BlueGreenDeployProofs!TypeCorrect` | `TypeOK` | `OneScript` |
| `BlueGreenDeployProofs!OnlyVerifiedServed` | `ServedWasVerified` | `OneScript` |
| `BlueGreenDeployProofs!LiveUntouched` | `LiveUntouchedBeforeSwap` | `OneScript` |
| `BlueGreenDeployProofs!NoneLeft` | `NoStrayServer` | `OneScript` |
| `BlueGreenDeployProofs!Refinement` | `ImplementsLiveSlot` | `OneScript` |
| `BackgroundProofs!CollectorTypes` | `CollectorTypeOK` | `Prompt` |
| `BackgroundProofs!ClosedForGood` | `ClosedStaysClosed` | `Prompt` |
| `BackgroundProofs!OneEach` | `NoSecondOfOneServer` | `Prompt` |
| `BackgroundProofs!LimitHolds` | `ActiveBounded` | `Prompt` |
| `CodingTurnsProofs!GateRefinement` | `ImplementsMergeGate`, of the workflow | - |
| `CodingTurnsProofs!ApprovedIsMerged` | `FirstApprovalIsMerged`, of the workflow | - |
| `CodingTurnsProofs!WorkflowOfTurns` | `SpecCoding` implements the workflow's `Spec` | - |
| `CodingTurnsProofs!TurnsKeepTheGate` | both of the composition | - |
| `CodingTurnsProofs!RecordsAreTrue` | `ToolRecordIsTrue` | - |
| `CodingTurnsProofs!ShownOnce` | `MemoryShownOnce` | - |
| `BackgroundProofs!RecordTruth` | `RecordIsTrue` | - |
| `BackgroundProofs!CancelSignals` | `CancelledWasSignalled` | - |
| `BackgroundProofs!ConsumedHeld` | `ConsumedIsHeld` | - |
| `BackgroundProofs!SoftInterruptTypes` | `TypeOK` | - |
| `SubtaskDispatchProofs!TypeCorrect` | `TypeOK` | - |
| `SubtaskDispatchProofs!AllAnswered` | `EverySubtaskIsAnswered` | - |
| `SubtaskDispatchProofs!StoppedStays` | `InterruptStops` | - |
| `SubtaskDispatchProofs!DependenciesAnswered` | `DependenciesFirst` | - |
| `SubtaskDispatchProofs!NoMessageLost` | `ConsumedIsShown` | - |
| `SubtaskDispatchProofs!RoutedImplements` | `RoutedSpec` implements `Spec` | - |
| `SubtaskDispatchProofs!NeverLocalWithoutGpu` | `NoLocalWithoutGpu` | - |
| `SubtaskDispatchProofs!CardAlwaysHolds` | `CardHolds` | - |
| `ChangeLedgerProofs!TypeCorrect` | `TypeOK` | - |
| `ChangeLedgerProofs!OriginalsStay` | `OriginalKept` | - |
| `ChangeLedgerProofs!LiveOnlyUndone` | `LiveChangedByUndo` | - |
| `ChangeLedgerProofs!WorkIsTold` | `WorkIsAccounted` | - |
| `AutomationJobsProofs!TypeCorrect` | `TypeOK` | - |
| `AutomationJobsProofs!MessagesMatch` | `MessageMatchesRecord` | - |
| `AutomationJobsProofs!CancellationStands` | `EarlyCancelStands` | - |
| `AutomationJobsProofs!OnlyAllowedWorkflows` | `InN8nIsAllowed` | - |
| `AutomationJobsProofs!UnmanagedKept` | `UnmanagedUntouched` | - |
| `AutomationJobsProofs!OneOwner` | `CreatedHasOneOwner` | `AsksForOld` |
| `OutreachProofs!MailsWereApproved` | `MailedWasApproved` | - |
| `OutreachProofs!MailedAreKnown` | `MailedIsKnown` | - |
| `OutreachProofs!SentWereMailed` | `EmailSentIsTrue` | - |
| `OutreachProofs!DraftsAreWorthy` | `DraftedIsWorthy` | - |
| `OutreachProofs!AnsweredHaveWritten` | `AnsweredIsTrue` | - |
| `OutreachProofs!MeetingsWereLetThrough` | `MeetingsWereAgreed` | - |
| `ArchitectToolsProofs!ArchitectTypes` | `TypeOK` | - |
| `ArchitectToolsProofs!ActivatedWasChecked` | `ActiveWasChecked` | - |
| `ArchitectToolsProofs!UnmanagedLeftAlone` | `OthersWorkflowUntouched` | - |
| `ArchitectToolsProofs!PatternsDeploy` | `EveryPatternDeploys` | `CatalogDeploys` |
| `ArchitectToolsProofs!BodiesFilled` | `BodiesAreFilled` | `CatalogFills`, `UneditedRuns` |

The rows about `TypeOK`, `OnlyVerifiedServed`, `ClosedForGood`, `CancelSignals`, `WorkflowOfTurns`, `RoutedImplements`,
`StoppedStays`, `UnmanagedKept` and `UnmanagedLeftAlone` state what no run lists among its properties; the others state a
property of a run. Every safety property of the passing runs has its theorem.

**Assumptions.** `OneScript`: no two deployment scripts run at once (watchdogs may overlap everything). Nothing in the
script enforces it; two at once share `STAGING_DIR`, so a server that was checked is replaced by one that was not.
`Prompt`: the update to `in_progress` is not overtaken by a human's answer and the resolution that follows it; the code
does not enforce it either, but the overtaking update would have to outlast a human. The `ASSUME`s of the modules say
what kind of value a constant is, and besides: `TaskHasOneThread` (the turns of a code task are in its thread),
`NobodyMailedYet` (the collection begins with nobody said to have been mailed or to have answered, because the history
of mails begins there as well), `ContainsDomain` of an address has the address itself. `CatalogDeploys` (no pattern of
the catalog is in error as a draft, forbidden, or scored as too risky when the texts of request and topology are
harmless) and `CatalogFills` (the fields `Guaranteed` at each node of a pattern are what every link brings and cover
what its requests take) are facts about the 43 constant workflows of `Patterns`: to prove them is to compute, which TLC
does in `ASSUME CatalogFacts` of `MCArchitectTools`. The theorems add what no evaluation shows, that the tools and an
execution, in any order of steps, come to nothing else. `UneditedRuns` says that what is executed is what
`compose_workflow` made; it holds of the run's settings, which is evaluated there as well. What an agent has edited in a
workflow may of course lose a field.

**Arguments.** None of the properties is inductive.

- Scripts: that the Live port serves a verified version needs that the build in `STAGING_DIR` is the one the staging
  server of this script runs (`StagingIsBuild`), that what answers the health check is that server and not a leftover
  (`StagingNamed`), that what is about to be swapped in was approved (`SwapIsApproved`), and that every backup is. One
  lemma per kind of step (before the swap, swap, watchdog, surroundings) keeps the whole; `SignalFacts` and `StartFacts`
  say once what `kill` and a start do to processes and ports. The refinement adds that no step of a script or watchdog
  changes the serving version except by taking it down or by a start on a free port. `LiveUntouched` needs that the
  server on the Live port is nobody's staging server (`ApartOK`), so that what a script kills before its swap is
  another. `NoneLeft` says of every running server whose it is: it has the Live port, it is the staging server of a
  script that will stop it, or it is one of those that found the port taken (`StrayInv`); and of the last, as long as
  deployments do not overlap watchdogs, that the pid file names it (`NamedInv`). What a step does to servers is said
  twice, once for steps that only take some away (`Fewer`), once for those that start one (`OneMoreLive`).
- Collector: the reads go stale only in one direction. Of one server nobody else inserts, and what happens to its tickets
  between the reads and the insertion only makes fewer of them active (`NothingReopens`, `FewerActive`). That in turn needs
  that the late mark finds its ticket pending (`MarkFindsPending`). For the limit the servers that have counted and not
  yet inserted (`Inserting`) are added to the active tickets (`RoomForAll`): whoever counts goes on only below the
  limit, and every other server has one insertion under way at most.
- Workflow: `ApprovalsAreReal` and `AnswersAreAsked` relate the run's step to what was approved, asked and answered;
  every step maps to a step of `MergeGate` or to a stutter, the fallback after a failed pull request and a late
  agent's merge included. For `ApprovedIsMerged` a task has no verdict, pull request or merge before its first review
  (`Untouched`), and while the verdict is approve and no agent is late, what is in the worktree and in the pull request is
  what was approved (`VersionInv`). `OneTaskMoves` reduces a step of the workflow to that of one task.
- Turns: every step of the composition is one of the workflow or leaves it alone, which carries both over. In
  `RecordInv` the record of a call that is not over says at most that it has started, and without one a call of the
  database has failed; what the tool came to agrees with its output, unless the policy spoke in its place; an enforced
  policy that refuses leads to `RefuseCall` and nowhere else.
- Memory: what a turn shows is in the ledger of its thread (`ContextInv`), and a worker runs once, after its turn, and
  leaves one context at most (`WorkerInv`). Of two turns of a thread whose contexts did not overlap, neither has taken
  or is about to show what the other has shown (`Disjoint`), since whoever looks later finds it in the ledger. `ShownInv`
  has these as long as the database has not failed.
- Tasks: whoever is about to write an end knows of one (`Writers`), and what record, file and polls say is true
  (`Sayings`); since a process that has ended does not come back, nothing said becomes false, in whatever order it is
  written.
- Messages: a consumed message is held by a taker or delivered as long as nothing failed (`Held`); two takers that hold
  the same message do not hurt it.
- Dispatch: the groups before the one at work are answered and the rest has not begun (`GroupsOK`), and what is done is
  success or needs_human, since only the last attempt of a subtask ends it badly. In a plan without circles a group's
  dependencies are in the groups before it (`InOrder`), because a set without the routed subtasks has one that needs
  none of the others. A consumed message is in the dispatch's hands, in the context of a subtask about to be
  prompted, or shown; a retry that took it keeps it (`HandledKept`).
- Models of the dispatch: every step of `RoutedDispatch` is one of `SubtaskDispatch` or leaves its variables alone,
  which carries all its theorems over (`RoutedImplements`). Without a card no snapshot shows one; a choice, a fallback
  and an escalation are taken case by case (`RoutedInv`): an escalation goes up from a model that is not local, and all
  the local tiers are below. `CardHolds` is about two times: what ran side by side when the plan was routed must be what
  runs side by side now. The groups the router has placed are a chain of sets (`Stages`), each the set that `GroupAfter`
  makes of the one before, and the groups the dispatch runs are steps of that same chain (`GroupIsRouted`); within a
  group the room taken is the sum over its members (`RoomTaken`), and a subset takes no more. The sum is the library's,
  a fold; that it can be split at any element is the lemma `SumIsSum`, proved from the fold's definition by induction on
  finite sets, which is possible because the statement is a set (`SetInduction`) and not an operator. Memory that a
  fallback takes is not in the sum.
- Ledger: as long as a file nobody else has edited has no snapshot, nobody has written it and whoever is about to insert
  one has read the original; once it has one, one of them has the original (`KeptOK`). One lemma for the steps that only
  read, one for those that write texts, one for those that write snapshots. `LiveOnlyUndone` needs that a snapshot with
  an `afterHash` was made in the one worktree, so that a restore works there as long as it is recorded (`RecordOK`,
  `TreesOK`), and, for what a restore after its removal finds, that with the index there is one snapshot of a file, that
  a file nobody else has edited holds the original, an agent's text or the one put back, and that until there is a
  snapshot nobody has written (`AllUndoneOK`). `WorkIsTold` is about races: a rejection beside a write or another
  rejection is one at each of their steps (`RacesOK`); what a call holds of a snapshot is of its file, with the text
  from before (`HoldingsOK`); a file it has undone is undone when it marks the snapshot (`UndoOK`); and with the index
  the first snapshot has no agent's text (`PlainOK`). Then an agent's text is in a snapshot that is not rejected, or in
  the hands of a call still at work.
- Jobs and golden path: `Checked` says of an execution past its checks that what it is about to save was allowed, which
  repairs keep because `Undeployable` asks again; `UnmanagedInv` that an execution past `CheckOwner` has a workflow
  without an unmanaged record, which is kept because records never lose the mark and old workflows their record;
  `OneClaimant` that at most one automation has recorded, or is about to record, a created workflow. The last needs
  `AsksForOld`: nobody asks by id for a workflow that another execution has just created and not yet recorded.
- Leads: `OutreachInv` says for every step of every workflow what an item still to be treated, treated or in hand is
  (`TodoFits`, `DoneFits`, `HandFits`): a draft of this run to a lead worth it, with an address; a draft that was let
  through; a mail that is out and has yet to be recorded; a lead somebody has written for. Most of it concerns documents
  others write meanwhile, so `Grows` collects what no step undoes (leads keep their place, and their address or the
  memory of it; drafts, mails, answers and permissions stay), `FitsStays` shows that facts about items survive it, and
  each step is proved to grow and to fit. `MailedIsKnown` is kept by the order of the steps: the collection has the
  address before a draft is asked about; `DraftedIsWorthy` because what is decided is decided on the lead as researched.
- Architect's tools: `CallOK` says of a call at each of its awaits what it has looked at and what that showed, and that
  its workflow is never the one nobody lets it touch; `WorkflowsOK` of n8n that everything the tools activated was, when
  it was read, fit for activation and approved, and that what has replaced it since was fit for a draft. Approvals are
  never taken back, so an old look stays good. `PatternsDeploy` compares a draft in any environment that leaves it
  unmarked with the same draft in a mild one of the finitely many `CatalogDeploys` is about (`MildSame`), and follows a
  draft from `compose_workflow` (`MadeOK`): only that and a repair change it, and under all edits it stays a flow of the
  catalog. `BodiesFilled` has the items waiting for a node cover what is guaranteed there (`RunOK`), which a step of an
  execution keeps whichever link or answer it takes; a merge waits for its sources.

**Only model-checked**: all liveness (`HungLiveIsStopped`, `ScriptsEnd`, `DeadIsNoticed`, `WakeReachesOwner`,
`DelegationReachesCaller`, `EveryJobEnds`, `DispatchEnds`, `RunsSettle`), which is beyond the prover, and the facts
about the catalog just named, which are computations on constants. No `TypeOK` of the turns or of the leads is proved
beyond what the invariants above need. The violated properties have no theorem, of course.

## 7. What the models leave out

- The content of a directory under a running server: a version is what a process was started with, although the
  next deployment rebuilds the directory a Live server runs from.
- The output of `lsof` with several pids, pid reuse, and other programs on the ports.
- `error_logs`, which nothing in the repository writes: the watchdog's count of errors is a nondeterministic choice.
- What an error says: a signature is a model value, the fingerprint that makes it is not modelled.
- What a patch does: a version is a number, approved or not. Agents choose freely among the tool calls the workflow
  gives them, and make none that their role does not have.
- The scope of a message (task, thread, target agent): one owner. A message without task and thread is never
  queued by the code; the tasks of the model have one.
- Reads without effect: tails, lists, `hasUrgentInterrupt`, outputs; the collector's `cleanupExpired`, which only a
  test calls.
- `handleTaskError`: `spawn` emits its error before the handler is attached. The global error handler gets it, and
  here the task is one that ended early and badly.
- The list `filesChanged` of an artifact, a copy of what the snapshots say; which of several snapshots of a file
  `findOne` returns, and the order by `updatedAt`, are open. A file's mode, its directories, and what a failing
  `writeFile` leaves behind.
- In a dispatch: several dispatches of one task; the second look at the card before a group (`preFlightVramCheck`),
  which only logs; tokens, the alert at 80 % of the budget, and the five seconds for which a snapshot of the card is
  reused. A `require()` that fails in an ES module (`subtask-executor.ts:305`) is there as a card that does not answer.
  Of another dispatch the model has what its calls note in the circuits and the budget; the room it takes on the card
  shows in what a snapshot may say.
- In a workflow of n8n: everything but its flaws; the points the risk score gives malformed nodes; duplicate names of
  nodes, and the default for `settings.executionOrder`. Blueprints and the credential registry are part of the input.
- The heartbeat of a job: a stale mark may come at any time, since the tool's caller chooses the age.
- What draws no attention: an approval that is taken back (nothing in the repository does it).
- In a turn of the harness: the expiry of contexts (a day), events, redaction, the sections of skills and of the
  repository's map, a `policy()` that throws. The extractor that writes knowledge is not modelled. The turns, the
  workflow and the tool calls share one composition but a behaviour is about one of them, since they meet in arguments
  only.
- Of a delegation: the automation contract, which only the synchronous way checks; the words of the message.
  `queuePendingMessage` swallows its errors, and so does the model.
- Of the business workflows: texts, limits of queries, the order in which items are treated, senders written as `Name
  <addr>`; a caller of a tool changes one field a call (several fields are calls in a row), and never the `id`; a mail
  is logged when it is sent. The throw for zero drafts cannot be reached. The model has, and the code promises nothing
  about, two hunts that mail one address, a follow-up that overwrites an answer, and mails the synchronisation misses
  between two reads of the clock.
- Of the architect's tools: of the words of inputs and topologies all that no check looks for; the names of models and
  the chat id, which no check can find anything in; duplicate names and ids, warnings about placeholders, points for
  malformed JSON; an agent has one approval token and draws one automation id. Behaviours the model has and nothing
  promises otherwise: orphaned workflows after a failed record, `persistTestEvent` writing an older status, a test that
  reads the record's older risk score or the latest execution instead of its own.
- The components that `PROJECT.json` lists as not modelled, among them the weekly content (a chain of agents that write
  reports) and the dashboard.
