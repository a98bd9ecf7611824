# A verification project for Levi Core

Levi Core (`src/src/*.js`) is a local AI engineering runtime. A host (the
desktop application, the VS Code extension or the command line) talks to one
JavaScript process, and that process composes engines that keep state: a
runtime that queues operations, durable workflows, agent conversations, agent
teams, a gateway to model providers, and a tool engine that changes the
workspace under approvals. The engines are single-threaded and asynchronous:
what makes them hard is what other calls do while one call is suspended at an
`await`, and what is left after a crash. This directory holds TLA+ models of
that behaviour, the TLC runs that check them on small instances, and proofs
that TLAPS checks for every instance.

## 1. The system

Components, the state they keep, how they interact, what is hard about them and
what makes them correct. (`PROJECT.json` lists the same components with their
status, and the hazards line by line.)

| Component | State | Operations and interactions | Hard behaviour | Correct when |
|---|---|---|---|---|
| `durable-workflow-engine.js` | workflows, steps, dependencies, attempts, checkpoints, decisions; `queuedSteps`, `runningSteps` | start, tick, drain, pause, resume, suspend, cancel, retry, skip, expire, decide, save, restore, recover; executes steps through runtime commands | several calls suspended in one workflow; stale step lists; results after a cancel; recovery | no step forgotten half-way, no protected step restarts by itself, prerequisites and concurrency rules hold while a step executes, completion is earned, calls return |
| `levi-application-runtime.js` | operations, sessions, approvals, queue, lifecycle state | submit, cancel, pause, resume, retry, wait, respond to approvals, shutdown, suspend, save, recover | cancel against completion, wait time-outs, late approvals, bounded queue | an operation ends once, terminal means terminal, the bounds hold, an approval is used for what it was given |
| `agent-orchestration-engine.js` | conversations, turns, tool calls | send message, execute and cancel a turn, propose and execute tool calls | time-out or cancellation against a late model answer | a cancelled turn stays cancelled, no tool call without its approval |
| `multi-agent-coordination-engine.js` | teams, assignments, conflicts | start, pause, cancel a team, execute, retry, reconcile | cancellation during an assignment | one owner per assignment, bounded rounds |
| `controlled-workspace-tool-engine.js` | proposals, approvals, journals, locks | create, validate, bind, apply, revert, run a command | check before an `await` and use after it | one approval, one use; a failed application is rolled back |
| `model-provider-gateway.js` | requests, providers, counters | submit, stream, cancel, retry, fall back | cancellation against a late answer, counters | a request ends once, counters agree with requests |
| `execution-engine.js`, `execution-session.js`, `approval-gateway.js`, `continue-engine.js`, `repair-engine.js` | execution session, approvals | run, approve, repair, continue, stop | bounded repairs, stop during an await | transitions follow the table, repairs are bounded |
| `execution-context.ts` of the desktop, its handlers in `index.ts`, `ExecutionReviewPanel.tsx` | transaction and its steps, active generations, what the panel shows | prepare, generate, reject, apply, cancel, keep, roll back a change of several files | overlapping generations, panels that forget an open call, the user's saves, writes that fail half-way | what was written can be rolled back, nothing the user saved is lost |
| `restore-points.js`, `safe-patch.js` | restore points, files | create, preview, restore, undo | a step of several fails | all or nothing |
| caches, memory, budgets, provider health | small maps | get, put, evict | limits | bounds hold |
| intelligence and assurance engines | derived data | scoring, reports | none of protocol | not modelled |
| `packages/levi-desktop`, `packages/vscode-extension`, `bin`, UI bridge | windows, IPC | pass commands on | user-interface plumbing | not modelled apart from the execution transactions |

The desktop's other main-process services have not been read in full yet.

## 2. The plan

Ordered by how much of the program's promise depends on each part.

1. `DurableWorkflow` (done): the scheduler for one workflow with every call,
   command, failure and restart; `DurableWorkflowProofs` and
   `DurableSchedulingProofs`, both for every host.
2. `RuntimeOperations` (done): operations, queue, approvals, waits and recovery
   of the runtime, shown to implement the abstract `OperationLifecycle` by TLC
   and by `RuntimeOperationsProofs`.
3. `ChangeProposals` and `ChangeProposalsProofs` (done): proposals, approvals,
   application, rollback and revert with the awaits between check and use.
4. `ModelRequests` (done): the gateway. `AgentTurns` (done) extends it: the turns
   of an agent wait for its requests. `ModelRequestsProofs`, `AgentTurnsProofs`.
5. `AgentTeam` (done) and `AgentTeamProofs`: overlapping plans over one team.
6. `ExecutionTransaction` (done) and `ExecutionTransactionProofs`: the desktop's
   change of several files with its panel.

What is left, in this order:

7. `WorkflowPromise`: what a workflow promises its host, and `DurableWorkflow`
   restricted to the calls for which it implements it.
8. `runCommand` with its approvals, creations, deletions and renames in
   `ChangeProposals`; sessions, save and restore in `RuntimeOperations`.
9. `ExecutionSession` and `RestorePoints`.
10. More of the workflow engine: checkpoint restore, several workflows and the
   engine-wide bounds, run-time changes of steps and dependencies.
11. The desktop's services that keep state (terminals, agent execution, updates).

Every invariant and action property that a run checks is a theorem as well
(section 6). Theorems worth proving next: that a step whose prerequisite is a MUTEX
keeps clear of it, for the workflows in which the two are never ready together; that the
pool bounds scopeless readers too when one caller alone ticks; and that a workflow
implements `WorkflowPromise`, once that is written, along the invariants of
`DurableSchedulingProofs`.

## 3. The modules

| Module | Extends | Models |
|---|---|---|
| `DurableWorkflow` | | one workflow of the durable workflow engine |
| `OperationLifecycle` | | what the runtime promises about the state of an operation |
| `RuntimeOperations` | instantiates `OperationLifecycle` | the runtime's operations |
| `ChangeProposals` | | change proposals over the files of a workspace |
| `ModelRequests` | | the requests of the model gateway |
| `AgentTurns` | `ModelRequests` | conversations, turns and tool calls over the gateway |
| `AgentTeam` | | the assignments of one agent team |
| `ExecutionTransaction` | | one execution transaction of the desktop, with its panel |
| `MC...` | the module of that name | small instances for TLC |
| `...Proofs` | the module of that name | theorems and their proofs |
| `DurableSchedulingProofs` | `DurableWorkflowProofs` | theorems about prerequisites, the pool, attempts and completion |

All engines are single-threaded: a block of code between two awaits is one
action everywhere, and every action of another call may come between two blocks.

### `DurableWorkflow.tla`

The engine for one workflow whose definition is valid. A block of code between
two awaits is one action. The variables:

| Variable | Code |
|---|---|
| `wf`, `state` | `workflow.state`, `step.state` (`ABSENT`: the step does not exist yet) |
| `attempt`, `failures`, `refused` | `step.attempt`; recorded failed attempts up to two; whether the last error's message forbids a retry |
| `repairs`, `bound`, `output`, `decisions` | `metadata.repairAttempts`, `approvalRequestId`, `output`, unresolved decisions |
| `running`, `queued` | `runningSteps`, `queuedSteps` |
| `call` | the suspended calls of `startWorkflow`, `tick`, `retryStep` and `retryWorkflow`, each with its local variables |
| `disk` | the snapshot the persistence adapter holds |
| `lost` | steps whose capability the runtime has lost |
| `asked`, `overruled`, `issued` | history: approvals requested, steps a command took out of the scheduler's hands; commands issued |

The actions:

* `Advance` (`Drain`, `TickResumes`, `RetryWorkflowResumes`) is what the engine does
  by itself in a suspended call, `Answer` (`StepSucceeds`, `StepFails`) what it does with
  the runtime's answer. A tick walks a copy of `queuedSteps`
  taken when it started (`call[c].rest`), which other calls and commands make
  stale. A failed step is retried by the same call, gets a repair step, or is
  given up under its failure policy.
* `StartWorkflow`, `Tick`, `RetryStep`, `RetryWorkflow` start a call.
* `PauseWorkflow`, `ResumeWorkflow`, `SuspendWorkflow`, `CancelWorkflow`,
  `ExpireWorkflow`, `ValidateWorkflow`, `SkipStep`, `ResolveDecision` are
  synchronous commands, possible whatever is in flight.
* `Shutdown`, `Save`, `Restart`, `CapabilityChanges` are the host's. `Restart`
  ends the process at any moment and loads (or recovers) the last snapshot.

`overruled` is what the properties tell a host's decisions from the scheduler's by. A
command that ends, undoes or starts steps by itself adds them: `pauseWorkflow` the running
ones it forgets, `cancelWorkflow` the unfinished ones, `skipStep` the step and the
dependents it blocks, `retryStep` and `retryWorkflow` those they start without asking, a
restart those it leaves INTERRUPTED. A step is `Free` while nobody has overruled it and
`safeToRunConcurrently` can tell two executions of it apart (`Exclusive`: it mutates, or has
a scope; a read-only step without `requiredWorkspaceState` does not overlap even with itself,
and two ticks may execute it twice). It is `Undisturbed` while the same holds of every
step its outcome depends on (`Grounds`: closed under required dependencies that hold only once
their source is over; another source has to leave its dependents alone when it fails).

What the model abstracts: names, outputs and evidence (`Approving`, `Validating` and
`Validations` name the steps whose result carries what the last two kinds of dependency ask for); FAILED stands for
TIMED_OUT too; MUTEX, OPTIONAL and SOFT_DEPENDENCY are one type because
`dependencySatisfied` treats them alike; `workspaceRevision` and the runtime
command of a step are one await; an error is a message that forbids a retry or
one that does not, so that two failures with equal errors are enough to refuse
a third attempt as in `retryAllowed`. `scheduleReadySteps` is one action since
nothing in it waits. `Rank` keeps the falsy zero of `CRITICAL`.

Left out so far: several workflows in one engine and the bounds they share
(`maximumQueuedSteps`), `restoreCheckpoint`, `updateStep`, `queueStep`,
`pauseStep`, `resumeStep`, `cancelStep` as direct commands, dependencies added
at run time, `recover` on a live engine, `archiveWorkflow`, invalid definitions,
the options `changedEvidence` and `execute: false`, events and statistics.

### `OperationLifecycle.tla` and `RuntimeOperations.tla`

`OperationLifecycle` is the abstract specification: an operation is created
once, moves along `STATE_TRANSITIONS.operation`, and once it has ended its state
never changes. `RuntimeOperations` is the runtime that must keep it. Its state
is that of the code (`operations` with state and result, `queue`, `running`,
`approvalRequests`, waiters, `recoveryAttempts`) and, for each operation, the
await at which its asynchronous work is suspended (`work`).

| Actions | Code |
|---|---|
| `Submit`, `Retry`, `ExecuteCommand`, `LifecycleCallRefused` | `submitOperation`, `retryOperation`, `executeCommand`, and `initialize`/`shutdown` out of turn |
| `NothingToCall`, `CommandRefused`, `CallHandler`, `RequestApproval`, `RequestReturns`, `HandlerReturns` | `dispatchOperation`, `invokeCommand`, `enforceSecurity`, `enforceApproval`, and what `runImmediateOperation` and `executeQueuedOperation` make of the outcome |
| `OperationTimesOut`, `AdriftEnds`, `StartRejected` | the race of `executeQueuedOperation` with its timer, the handler that runs on, and the start that the table refuses |
| `CancelOperation`, `PauseOperation`, `ResumeOperation`, `WaitForOperation`, `WaitTimesOut`, `RespondToApproval` | the calls of these names |
| `Initialize`, `Suspend`, `Resume`, `Recover`, `Shutdown` | the life of the runtime |

`Unhandled` are the operations submitted with no registered command and a type that
`dispatchOperation` does not know: its `{ NO_HANDLER }` is data like any other, and they
succeed. OPEN_WORKSPACE and CLOSE_WORKSPACE without a command bypass `invokeCommand`; their
work goes as that of a command that asks for no approval. `Decisions` is what the gateway's
policy may say of a protected operation: where that may be APPROVED (`Waived`: NEVER,
DESTRUCTIVE_ONLY, SAFE_ONLY, CUSTOM) its handler runs with no request. `recover` counts its
attempt before it checks anything, so that a call that throws is counted too.

`ProcessQueue` is part of every action whose code calls it, and `Release` is the
`finally` that gives a slot back. `sortQueue` makes the order of the queue a
function of its members, so that a set stands for it. READY stands for DEGRADED,
which allows the same calls. `idle` records that `initialize` or `recover` put the
runtime in service without looking at the queue, `stranded` the operations whose
creating call threw after storing them, `late` the children of a parent that had
ended: each of them is an exception a property names.

Left out: sessions and workspaces, snapshots (`Recover` is that of an empty
store), listeners that answer an approval inside its event, the handlers.

### `ChangeProposals.tla`

The file changes of the tool engine over `VSCodeWorkspaceMutationAdapter`, which
awaits a read, compares the hash and awaits a write. A call (`call[c]`) is a
`validateProposal`, `applyPatch` or `revertChange` that is suspended at one
access to a file; `createProposal` runs under the name of its proposal. A text is
the number of the proposal that put it there. `UserEdits` is the user's typing,
`WriteFails` and `CheckpointFails` an adapter that throws; `mode` is the configuration of
the host: what `createCheckpointIfAvailable` finds, and whether approvals are required
(`requireApprovalForSourceChanges`).

Approval records are the caller's. `BindApproval` puts any record in the place of the
proposal's own, PENDING ones and ones for another text included; `ApplyPatch` may be
given any APPROVED record, which the code believes whoever wrote it (the runtime passes
`input.approval` on as it is, or makes one from an approved request): `Bound` looks at what
it names. `vouched` is history: the proposals for which a caller has given such a record.
`RevertChange` takes any application by its id, failed ones and those under way included;
`undoes` is the one it took, `hasty` is history: proposals of which one was reverted while
it was under way. A failed application is put back unless there is no
checkpoint or the caller's `rollbackOnFailure` is false. `start`, `disturbed` and
`broken` are history too: what the call found, whether others wrote its files, whether a
write failed.

Left out: files created, deleted or renamed, several edits of one file,
`runCommand`, tools, validation profiles and persistence.

### `ModelRequests.tla` and `AgentTurns.tla`

`ModelRequests` is the gateway: `Executed` is `executeRequest` up to the first
adapter, `Answer` and `Fault` the two ways an adapter settles, `Refaulted` the
decision between retry, next model and end. A request remembers the models left
in its fallback order, which are computed before the first await. Models are numbered
in the order of `listModels`, so that a set of models stands for a list.
`CancelRequest` writes CANCELLED and tells the adapter; whether the adapter aborts is
its own choice. `RegisterProvider`, `UpdateProvider` (which stands for `discoverModels` and
`registerModel` of a known model too), `UnregisterProvider`, `EnableProvider`,
`DisableProvider` and `HealthCheck` change the models under requests in flight. `accepts`
is what the capabilities and the privacy policy of a model admit now; a request is routed
by it once, and nothing looks again when it is retried or falls back (`suits` remembers
what was accepted then).

`AgentTurns` extends it: a turn that reaches `requestModel` makes the request of its
name and continues (`ModelAnswered`) when that has returned or thrown. The other
awaits of `executeTurnInternal` are `ContextBuilt` (classification, context and
plan), `ToolsDone` (the read-only tool) and `Validated` (validation and repair).
`TimeOut` answers the caller while the execution goes on. `CancelTurn` and
`CancelConversation`, `Pause`, `Resume`, `Mark`, `RetryTurn`, `ExecuteToolCall`,
`CancelToolCall` are the calls of a user, without the guards the code does not have.
`Shutdown` saves. There are two ways back: `Restart` ends the process at any moment and
loads what was saved, as `initialize` does, which leaves turns in progress as they were with
nothing that executes them (`orphan`); `Recover` is `engine.recover`, which ends them, and
which no code under `src/` calls: neither `runtime.agentCommand` nor the runtime's
own `recover` does. Until then `retryTurn` refuses such a turn, and only `cancelTurn` ends it. The warnings, limitations and errors of a turn are flags, as
`terminalStateForTurn` uses them.

Left out: branches and archives of conversations, messages, the contents of
contexts and plans, response validation, cost and statistics.

### `AgentTeam.tla`

One team: `team`, `assignment` (state and revision), `result` (its disposition) and
`call`, what each overlapping call awaits. `Round` is one turn of the loop of
`executeDelegationPlan` up to `Promise.all`, or its end with `reconcileTeam`;
`ContextBuilt` and `AgentAnswered` are the awaits of `executeAssignment`, which write
the assignment's state whatever became of it. `StartAssignment`, `ReviseAssignment`,
`SetAside`, `Review`, `CancelTeam`, `MarkTeam`, `ReconcileTeam`, `Recover` and `Restart`
come at any time.

Left out: the coordinator's own assignment (no plan executes it), conflicts and
votes (a failed agent becomes a deterministic result, and such results agree),
`validateTeamResult`, shared contexts, creating teams and plans.

### `ExecutionTransaction.tla`

One prepared transaction in one window, as three parties see it: the main process
(`transaction`, `step`, `active`), its calls that are suspended (`generation`, the
calls of `proposeExecutionStep`; `edit`, those of `applyStep` and
`rollbackTransaction`), and the `panel`, which shows the copy it was last sent and
is `busy` with at most one edit. A text is known by who wrote it, so that equal
hashes are equal texts.

| Actions | Code |
|---|---|
| `Generate`, `GenerationStarts`, `GenerationReads`, `GenerationAnswers`, `GenerationThrows` | `proposeExecutionStep` and `proposeStepContent` between their awaits |
| `Reject`, `Regenerate`, `Cancel`, `Keep` | the handlers of these buttons; `Press` is the panel's `run`, which a busy panel refuses |
| `Apply`, `ApplyBegins`, `ApplyChecks`, `EditWrites`, `ApplyVerifies` | the handler, which awaits the project rules, and `applyStep`: guards, read and comparison, `writeAtomically`, read back |
| `Rollback`, `RollbackChecks`, `EditWrites`, `RollbackVerifies` | `rollbackTransaction`, one step after the other from the last |
| `EditThrows` | any call of the file system that fails |
| `Reopen` | leaving the view and coming back: `Home` asks for the status, and `busyRef` starts anew |
| `UserSaves`, `RulesChange` | the user |

`disturbed` is history: generations overlapped, a panel was left while busy, or an
edit failed after its write. `UserSaves` happens at any moment. Between the comparison of an
edit and its rename `writeAtomically` awaits the opening, writing, syncing and closing of
a temporary file: what the user saves there is replaced, and nothing notices. `late` is history:
the steps whose file was last saved in such a window.

Left out: the preconditions of a preparation, a window that closes, several windows
and transactions, what makes an answer of the model acceptable beyond its step.

### The `MC` modules

`MCDurableWorkflow`: a step that needs a success and a validation, a mutex, a step with a
repair, mixed failure policies, priorities. `MCRuntimeOperations`: critical operations among
normal ones, and a policy that may waive an approval. `MCChangeProposals`: a proposal over
both files and one over the first; hosts with and without checkpoints and approvals.
`MCModelRequests`: a remote model that one request must not use, two local
ones, and two settings that any of them may be given. `MCAgentTurns`: turns that differ in name only. `MCAgentTeam`: a plan, an
implementation and a review of it. `MCExecutionTransaction`: calls that differ in
name only.

## 4. The runs

| Run | Instance | Shows |
|---|---|---|
| `scheduling` | 3 callers, 4 steps: the first and third mutating, the third of high priority and in need of the second's success and the fourth's validation; four failure policies, every reader with a scope; start, tick, pause, resume, cancel, skip, retry of a step and of the workflow, validate; 2 concurrent steps | `PrerequisitesHold`, `CompletionIsEarned`, `ConcurrencyIsSafe`, `ConcurrencyIsBounded` |
| `control` | 2 callers, a step, its dependent and its repair, one interactive; start, tick, both retries, pause, resume, cancel, skip, decide, save and restart, and a capability that comes and goes | `TypeOK`, `AttemptsAreBounded`, `InFlightIsOwned` |
| `recovery` | a protected, mutating step that may be repaired; suspensions, saves, shutdowns, restarts, with and without approvals | `ProtectedIsReconfirmed`, `InFlightIsOwned` |
| `termination` | 2 callers, 3 steps that share a scope, a mutex, a capability that comes and goes; tick, retry of a step, cancel, skip, expire, pause; 4 ticks | `EveryCallReturns` |
| `runtime` | 3 operations, 1 with no handler and 2 protected, 1 of them under a policy that may waive its approval; 1 slot, 2 places in the queue, 1 child per parent, 1 recovery; every call but `waitForOperation` on its own | `TypeOK`, `NothingIsForgotten`, `SlotsAreHeldByWork`, `NoIdleSlot`, `SuccessIsEarned`, `CancellationReachesChildren`, `KeepsLifecycle` |
| `runtime_queue` | 3 operations, 1 protected, 1 with no handler; submit, wait, cancel, pause, recover, under fairness | `QueuedOperationsLeave` |
| `proposals` | 2 proposals, 2 files, 2 calls, 1 edit by the user, with checkpoints and without, approvals required | `TypeOK`, `OnlyApprovedText`, `AppliedTextIsRecorded`, `AllOrNothing` |
| `gateway` | 3 requests (one without fallback), 3 models with two settings, 2 in a fallback order, 1 retry, 4 commands | `GatewayTypeOK`, `PolicyIsKept`, `UsageIsEarned`, `CallsAreBounded`, `RequestsReturn` |
| `agents` | 1 conversation, 2 turns, a tool call of each kind, 1 model, 3 commands of eleven kinds, restarts at any moment | `TypeOK`, `LateResultsAreHonest`, `SuccessIsComplete`, `TurnsInProgressAreExecuted`, `ApprovalIsAsked` |
| `team` | 3 assignments, one that needs another; 2 callers, 2 concurrent assignments, 1 revision, 3 commands | `TypeOK`, `ResultsFollowDependencies`, `PlansLeaveNothingBehind`, `CallsReturn` |
| `transaction` | 3 steps, 2 generations and 2 edits open at once, 7 clicks, saves of the user at any moment | `TypeOK`, `ChangesAreRestorable`, `WritesWhatIsReviewed`, `UserTextSurvives` |
| `revert_reports` | the instance of `proposals` with the default configuration (a checkpoint is required, none can be taken) and hosts that ask for no approval | a violation of `RevertTakesTextOut` |

The last run ends in a violation. `src/LAYER_3_WORKSPACE_TOOLS.md:91` says that
"rollback uses checkpoint restoration or inverse file edits where possible."
With the defaults of the runtime (a checkpoint is required, no
`SourceControlAdapter`) `createCheckpointIfAvailable` answers
`{ status: "UNAVAILABLE" }`. `revertChange` takes that for a checkpoint, asks for
its restoration, which does nothing, and marks application and proposal REVERTED:
the text stays in the files, although inverse edits were possible.

Bounds. `MaxCommands` (2 to 5) limits the commands of one behaviour, never the
interleavings between them. Five are enough for start, a second start, save,
restart and a third start of a workflow, the shortest way by which a restored
approval could be misused; three for send, cancel and a user's approval, or a
plan, a second plan and a cancellation of a team; four for three requests and a
cancellation or a provider that goes or is given another policy. In `scheduling` three are a call under
which another is started and a third command overrules, skips, cancels or pauses steps; in `control` four
add a save and a restart to that, and in `termination` three let both callers run and lose a
capability or a step meanwhile. Seven clicks (`MaxClicks`) generate and apply
all three files and roll them back, or do so for two with a cancellation and a second
generation or edit in between. Three or four steps contain every relation the
workflow engine tells apart (prerequisite, dependent, independent, repair,
mutex). Two callers show every pair of calls; three are used in `scheduling`, where a bound of two
on concurrent steps has to be exceeded. Three operations are a parent with a
child and one that competes with them for the slot; they also make the queue
longer than the free slots, and order it by priority. Two calls over two
proposals with a common file are an application under way and any other that
starts, ends or fails at each of its accesses; the application of two files can
fail between them. Three requests over three models reach every end of the
fallback order, with a model too many. `MaxAttempts = 2` and `MaxRepairs = 1` are
the code's defaults, `MaxTicks` stands for `maximumStepsPerWorkflow * 2` (4, more than the steps of the instance, where
the end of `drain` matters; 2 where its calls only have to meet others); the other
bounds are smaller than the code's so that they are reached. Every property of a
passing run is violated by a plausible change of the code, which `PROJECT.json`
names under `mutants` and the module defines (`\* Mutant of ...`).

`CHECK_DEADLOCK FALSE` in every run: a host may stop calling, and a workflow, a
queue or a team may rest for good with every call idle.

### Where the code does something else than its documents say

The models show more than the one violation that has a run. Each line can be
reproduced by putting the named property in the place of those of the cfg.

| cfg and property | Sentence | What the code does |
|---|---|---|
| `runtime.cfg`, `CancellationIsNotSuccess` | `LAYER_3_RUNTIME_CONTRACT.md:222`, cancellation is never reported as success | the late answer of a cancelled operation overwrites its result with SUCCEEDED |
| `team.cfg`, `CancelledTeamsStayCancelled` | test "cancellation propagation" of `test/multi-agent-coordination-engine.test.js` | the plan that was running goes on and `reconcileTeam` overwrites CANCELLED |

Read off the source and the models, without a property: `waitForApproval` gives a
step an approval id of its own and leaves it in the queue, and `executeStep` takes any id for an
approval (`LAYER_3_DURABLE_WORKFLOWS.md:206` says that protected steps wait at approval
checkpoints); `handleStepFailure` looks at the error only and starts a new attempt
in a cancelled workflow (232, retries are blocked for explicit cancellation); a REPAIRING
step can be queued whatever its attempts, once for each repair (230, retries are
bounded); `finalizeWorkflow` counts INTERRUPTED and CANCELLED as terminal and not as failures,
so that a workflow may be COMPLETED without such a step (254, completion is result-based).
`pauseStep` forgets a
running step, so that a tick whose list is older executes a mutation twice
(`LAYER_3_DURABLE_WORKFLOWS.md:252`); a tick starts the next step of its list after a
pause (244); `PRIORITY_ORDER[...] || 2` ranks CRITICAL with NORMAL (177); a required
MUTEX blocks the second step for good when both become ready together, and the
dependents of a blocked step stay CREATED (240); `retryStep` starts a step beside a
mutating one (182). Two read-only steps without `requiredWorkspaceState` do not
overlap even with themselves, so that two ticks may execute one step twice.
`drain` does not wait for a step that another call executes: with two callers it spends
its ticks at once and leaves steps QUEUED in a RUNNING workflow. In the runtime, an
approved operation is RUNNING again and nothing runs it; one approved request
admits any command; an operation whose type nothing handles succeeds. In the tool engine, an approval given with the call applies a
proposal that was rejected since, and an edit typed between the adapter's read
and its write is lost. A proposal `q` made against the text of an applied `p` keeps that text
in its inverse edits: when a revert of `p` has read the file and waits for its write, `q` is
applied and a revert of it reads `q`; then both write, `p` is back in the file, and its
application is marked REVERTED. That takes four calls, two more than the `proposals` run has; the
proof found it, since the property without its last disjunct has no inductive
invariant, and TLC confirms it with four calls. In the gateway, cancelling a request with a fallback left
sends it to the next model, and `finishRequest` counts it twice; a provider that is
unregistered while its model is next makes `executeRequest` throw and leaves the
request RUNNING; a policy that is changed under a request in flight does not reach it. In the agent engine, a cancelled turn may still end
PARTIALLY_SUCCEEDED and its conversation COMPLETED; a duplicate of a protected call, or one
that the mode of the time did not allow, is INVALID before `approvalRequired` is set, and
`executeToolCall` runs it without asking once a mode allows it; a restart by `initialize`
leaves turns in progress that nothing executes, though
`LAYER_3_AGENT_ORCHESTRATION.md:189` says that recovery "marks in-flight model/tool/turn work
interrupted": `recover` does, for turns, and nobody calls it;
`recover` leaves tool calls RUNNING, which count as duplicates for ever
(`LAYER_3_AGENT_ORCHESTRATION.md:189`). In the team engine, two plans execute
assignments twice; the dependency of a reviewer names an implementer by an id that
planned assignments do not have, so that it holds nobody back.

In the desktop's execution transactions: two clicks on Generate Code open two
generations, because the guard of `electron/main/index.ts:704` ("An execution step
generation is already active.") is passed before an await and set after it; the late
one replaces the proposal of a step that is being applied, so that a text is written
that was never shown ("Review each file step before applying.", 689), or marks an
applied step FAILED by finding its file changed, and a rollback then passes it over.
Leaving the view during an apply or a rollback and coming back gives a panel that
knows of no open call: a rollback beside an apply ends ROLLED-BACK with a step
applied, and keep beside a rollback writes an empty file, since `keepTransaction`
forgets the original text that the rollback writes next. An apply whose read-back
fails leaves a changed file whose step is not applied; a rollback that fails after
its write cannot be resumed, since the file is not the applied one any more. A text
that the user saves between a comparison and the rename of `writeAtomically` is lost. A
cancelled transaction stays registered: if no step was applied its panel offers
neither keep nor rollback, and the workspace cannot be switched although the message
of 230 asks to "Finish or cancel" it. `ChangesAreRestorable` and the history
variable `disturbed` draw the line between these cases and the rest: without the
first disjunct of the property TLC finds a counterexample among them.

## 5. Fairness

Fairness is assumed of the event loop and of timers, never of a host, a user or
a handler, and where nothing else is said a run checks safety without any.

* `DurableWorkflow!FairSpec` is weak fairness of `Advance(c)` for every caller: the
  event loop runs what the engine itself goes on with. Nothing is assumed of the
  runtime's answer, since `executeCommand` runs an operation at once without a
  time-out (`levi-application-runtime.js` 1113-1128, 1295-1318) and a handler that
  never returns keeps the call open. `EveryCallReturns` therefore has the answers as a
  condition, for each caller by itself: a call whose own steps the runtime answers
  (`WF_vars(Answer(c))`) returns, whether or not the others ever do. Which of several
  results is given is open. Commands, crashes, restarts and capability changes are not fair.
* `RuntimeOperations!FairSpec`: microtasks are run (the steps up to the handler, the
  return of a request, a rejected start), and the timer that
  `executeQueuedOperation` arms fires. No handler need return: that is what
  `QueuedOperationsLeave` is about.
* `GatewaySpec`: an adapter answers or fails in the end, because the HTTP transport
  of both adapters ends every call at its time-out. Which it does is open.
* `AgentTeam!FairSpec`: the context is built, the runtime answers (a turn of an agent
  ends at its own time-out at the latest), and a loop whose batch has returned goes
  on.

## 6. What is proved

TLAPS checks the following for every value of the constants that satisfies the
named assumptions of each module: the constants have their types, identifiers
are numbers where the code orders them, overlap of scopes is symmetric and a scope overlaps with itself, each repair step belongs to
one repair, the sets are finite where it counts
them, bounds are natural numbers and positive where the code needs it, and there is a
conversation for a turn to belong to. Where a theorem needs more than that it states
it as its own hypothesis (`ASSUME ... PROVE`). Every invariant and every action property
of a passing run is a theorem: TLC checked each inductive invariant on small
instances first, and then the proof was written.

`DurableWorkflowProofs`:

* `TypeCorrect`: `Spec => []TypeOK`. The strengthening `RunHasStep` says that a
  call that waits for the runtime knows its step; without it the answer could
  be recorded for no step. It needs that the choice of the next step is defined:
  `FirstIsMember` proves that `scheduleOrder` has a first element in every
  list, from the well-foundedness of the natural numbers.
* `ProtectedReconfirmed`: `Spec => []ProtectedIsReconfirmed`. The property is not
  inductive: `executeStep` accepts a bound approval, so the invariant adds
  `BoundIsAsked` (what is bound was requested by this process), which holds
  after a restart only because `restore` drops the approvals.
* `InFlightOwned`: `Spec => []InFlightIsOwned`, inductive together with
  `RunHasStep`. `OwnersStay` covers the steps that start nothing and `OwnerEnds`
  those in which a call brings its step to its end.

The proofs go action by action. `TickResumesMoves` and `RetryNextMoves` say once
what these actions do (execute a step of the workflow, pass over it, finalize or
start), and each invariant is shown for these moves.

`RuntimeOperationsProofs`: the invariant `IInv` says, for each operation, which states
go with each place of its work, queue and request (`Coherent`); none of the
properties is inductive without that. `FirstOfCount` proves that taking the first
members of the queue in the order of `sortQueue` fills the free slots or empties
the queue, by counting along an injection into an interval. `ProcessQueueFacts`
and `Processed` then say once what `processQueue` does to an operation, and each
action has a lemma that it is `Good`: it keeps the invariant, and every operation
makes a step of its life cycle. From that follow `TypeCorrect`,
`OperationsAreNotForgotten`, `SlotsAreSafe`, `SlotsAreUsed`,
`SuccessNeedsHandler` (an operation that succeeded has no handler, or its handler ran and it
was approved or its policy asks for no approval; `ApprovedStays`), `ChildrenAreCancelled` (the least fixed point of `Cancelled` is
closed under children) and `Refinement`, that the runtime implements
`OperationLifecycle`.

`AgentTeamProofs`: `ResultsFollowDependencies` is inductive with
`SubmittedHaveResults`. Every action keeps a `Guarantee` between two states, from
which the invariant follows in one lemma: `TypeCorrect` and
`DependenciesComeFirst`. `NothingLeftBehind` (`PlansLeaveNothingBehind`) assumes
`NoCycle`, the condition that `hasCycle` looks for in the dependencies of a plan
(assignments that need each other would be left behind indeed): if nothing is ready, the unsettled
assignments among the ancestors of one, and itself, would each need another of them
unless one ancestor was cancelled or has failed. The ancestors are a least closed set,
so that no induction is needed.

`ModelRequestsProofs`: `Coherent` says of a request that whom it may still be sent to suits
it, and that what it has cost plus what it may still cost (`CallsLeft`: its retries and all
calls of the models left) stays within the bound of its fallback order.
`FallbackOrderFacts` bounds that order by counting along an injection into an interval.
From that follow `GatewayTypeCorrect`, `PolicyKept`, `UsageEarned` and `CallsBounded`.

`AgentTurnsProofs`: `TurnsInv` adds to the invariant of the gateway what a turn still knows of
its request at each await (`Fits`, and `FitsSaved` for a snapshot): an execution whose
caller was told of a failure, or that was stopped, carries a mark that its outcome
shows, and one that reaches validation without a limitation has a request that succeeded,
which stays so whatever clients of the gateway do (`AnswersStay`). A tool call that needs
approval is in flight with it only (`Permitted`), also after a restart or a recovery. A turn in
progress that nothing executes is an orphan of a restart (`Fits`), which `recover` ends. Hence
`TypeCorrect`, `LateResultsHonest`, `SuccessComplete`, `TurnsInProgressExecuted` and
`ApprovalAsked`.

`ChangeProposalsProofs`: `Vouching` follows the text of a proposal that somebody vouched for
(with an approval bound to it, a record given with the call, or one the runtime mints) through files,
bases, checkpoints and calls, `Placed` and `LatestVerified` say which call is found where,
`Recording` which application a text in a file belongs to, also while it is being reverted,
and `Progress` what an application that nobody disturbs has done to its files at each
await. With them `TypeCorrect`, `ApprovedTextOnly`, `TextRecorded` and the action property
`AppliesAllOrNothing`.

`ExecutionTransactionProofs`: `TypeCorrect`; `UserTextIsKept`, that a text the user
saved is replaced only when it was saved between the comparison of an edit and its write (`late`);
`ChangesCanBeRolledBack`; and `OnlyReviewedTextIsWritten`. The second is inductive with
`WritesOverKnown`: an edit that is about to write has found a text that is not the
user's, unless one was saved since. The comparison of hashes in `applyStep` and `rollbackTransaction` establishes it,
and `writeAtomically` uses it up. The other two follow from one invariant, "`disturbed` or `Calm`": as
long as generations and panels do not overlap and no call fails after its write, one edit
is open at a time, the panel is behind in known ways only (`PanelFollows`, `Outcomes`), the
steps before the current one are applied unless none will be any more
(`Advancing`, `Doomed`), and a rollback accounts for the steps it has left.

`DurableSchedulingProofs`: what the scheduler guarantees whatever the host does. No command is
assumed unused and nothing is assumed of scopes, repairs or dependencies beyond the assumptions of
the module; instead the properties speak of the steps that are `Free` or `Undisturbed`.
The proof is in two halves. `Move` says how one step of the specification may change the
pool, the lists and one step of the workflow (`Change`: it is answered, created as a repair,
struck by the failure of a source, started, overruled ...), and `NextMove` shows that every action
is a `Move` or a restart. Each invariant then follows from `Move` alone, and is
shown separately for a restart:

* `BaseInv`: a call that retries walks over overruled steps (`RetriesAreOverruled`); a step that is
  `Free` and executes is in `runningSteps`, whose members that are `Free` the tests before a start bound
  (`PoolInv`); nothing handles a step that does not exist yet (`PresentInv`). The calls that
  execute are counted along an injection into the pool. Hence `ConcurrencySafe` and `ConcurrencyBounded`.
* `AttemptsInv`: a step that may still be executed has an attempt to spare, and so have the steps of
  the snapshot, whenever it is loaded. Hence `AttemptsBounded`.
* `KeptInv`: what a step in flight requires was there when it was queued, and no step takes
  it back. The failure of a step overwrites its dependents, but none of those could have been queued
  while it was under way. That is an argument about a set of steps nobody
  outside decides over, and so the invariant is stated for each undisturbed member of `Grounds`. Hence
  `PrerequisitesAlwaysHold`.
* `StoppedInv` and `EarnedInv`: nothing but the host cancels or interrupts a step, and a
  workflow found COMPLETED, in the process or in its snapshot, has its successes. Hence
  `CompletionEarned`, restarts included.

The exemptions are the code's, not the proof's: TLC finds a counterexample to concurrency with
`pauseWorkflow`, `retryStep` or `retryWorkflow` when overruled steps are not exempt, to the prerequisites
with the retries or `skipStep`, to completion with `cancelWorkflow`, `retryStep`, `skipStep` or
a restart, and to the attempts with `pauseWorkflow`.

Only model-checked: the liveness properties (`EveryCallReturns`,
`QueuedOperationsLeave`, `RequestsReturn`, `CallsReturn`), which are out of the proof
system's reach, as is whatever depends on `ENABLED`; and the violation of `revert_reports`.

## 7. Not modelled

* The rest of each modelled engine is named under "Left out" with its module.
* The execution engine, restore points and caches are sequential and planned.
* The project intelligence, analysis and assurance engines (by far the largest part
  of `src/src`) derive data from data: they keep no protocol state, and a model of
  them would transcribe scoring rules.
* The rest of the desktop, the VS Code extension, the command line, `ui/` and the UI bridge are
  windows, argument parsing and plumbing over the same commands. They are also
  more than half of the lines of the repository, so that the models stand for a
  small share of all lines however completely they cover the engines.
