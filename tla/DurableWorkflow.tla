-------------------------- MODULE DurableWorkflow --------------------------
(***************************************************************************)
(* The scheduler of src/src/durable-workflow-engine.js for one workflow:   *)
(* dependency scheduling, step execution through the runtime, approval and *)
(* input waits, retries, repairs, failure policies, the control commands a *)
(* host may issue at any time, and shutdown, crash and restart.            *)
(*                                                                         *)
(* The engine is single-threaded JavaScript, so a block of code between    *)
(* two awaits is one action.  A call of an async method (startWorkflow,    *)
(* tick, retryStep, retryWorkflow) is a caller with a program counter, and *)
(* several calls may be suspended at an await at the same time.            *)
(*                                                                         *)
(* A step is a number, its sequence.  FAILED stands for FAILED and         *)
(* TIMED_OUT, which the engine treats alike.  RETRYING is not visible:     *)
(* retryStep leaves it before its first await.                             *)
(***************************************************************************)
EXTENDS Integers, FiniteSets

CONSTANTS
  Steps,          \* every step of the workflow, repair steps included
  Callers,        \* slots for suspended calls of async methods
  Deps,           \* dependencies [source, target, type, required]
  Protected,      \* approvalSensitive, neither APPROVAL_GATE nor CHANGE_PROPOSAL
  Mutating,       \* sourceChanging or commandExecuting
  Interactive,    \* of type USER_INPUT or DECISION
  Retryable,      \* retryable
  Optional,       \* metadata.optional
  Priority,       \* priority of each step
  Policy,         \* failurePolicy of each step
  RepairStep,     \* the repair steps of each step with repairAllowed, by number
  Overlap,        \* pairs whose requiredWorkspaceState scopes overlap
  Flaky,          \* steps whose capability the runtime may lose and regain
  Approving,      \* steps whose result carries an approval
  Validating,     \* steps whose result carries a validationId
  Validations,    \* of type VALIDATION
  MaxAttempts,    \* maximumAttempts
  MaxRepairs,     \* maximumRepairAttemptsPerStep
  MaxConcurrent,  \* maximumConcurrentSteps
  MaxTicks,       \* maximumTicks of drain
  Commands,       \* the commands the environment issues
  MaxCommands     \* bound on the commands of one behaviour

TerminalStep ==
  {"SUCCEEDED", "PARTIALLY_SUCCEEDED", "SKIPPED", "BLOCKED_BY_DEPENDENCY",
   "CANCELLED", "FAILED", "INTERRUPTED"}

StepStates == TerminalStep \union
  {"ABSENT", "CREATED", "READY", "QUEUED", "RUNNING", "WAITING_FOR_APPROVAL",
   "WAITING_FOR_INPUT", "REPAIRING", "PAUSED", "BLOCKED"}

TerminalWorkflow ==
  {"CANCELLED", "COMPLETED", "PARTIALLY_COMPLETED", "BLOCKED", "FAILED",
   "EXPIRED"}

WorkflowStates == TerminalWorkflow \union
  {"CREATED", "READY", "QUEUED", "RUNNING", "WAITING_FOR_APPROVAL",
   "WAITING_FOR_INPUT", "WAITING_FOR_DEPENDENCY", "PAUSED", "SUSPENDED",
   "RECOVERING"}

\* SOFT stands for OPTIONAL, SOFT_DEPENDENCY and MUTEX: one predicate in the code.
DependencyTypes ==
  {"REQUIRES_SUCCESS", "REQUIRES_COMPLETION", "REQUIRES_OUTPUT",
   "REQUIRES_APPROVAL", "REQUIRES_VALIDATION", "SOFT"}

FailurePolicies ==
  {"RETRY", "REPAIR_THEN_RETRY", "BLOCK_DEPENDENTS", "SKIP_DEPENDENTS",
   "CONTINUE_INDEPENDENT", "FAIL_WORKFLOW"}

PriorityOrder == [CRITICAL |-> 0, HIGH |-> 1, NORMAL |-> 2, LOW |-> 3]

ASSUME StepsAssumption ==
  /\ Steps \subseteq Nat
  /\ Deps \subseteq [source: Steps, target: Steps, type: DependencyTypes,
                     required: BOOLEAN]
  /\ Policy \in [Steps -> FailurePolicies]
  /\ Priority \in [Steps -> DOMAIN PriorityOrder]
  /\ DOMAIN RepairStep \subseteq Steps
  /\ \A s \in DOMAIN RepairStep :
       RepairStep[s] \in [1..MaxRepairs -> Steps]

\* scopesOverlap: two scopes overlap when they share an entry, which makes each
\* overlap with itself.
ASSUME OverlapAssumption ==
  /\ Overlap \subseteq Steps \X Steps
  /\ \A s, t \in Steps :
       <<s, t>> \in Overlap => <<t, s>> \in Overlap /\ <<s, s>> \in Overlap

\* Every repair is a step of its own: handleStepFailure calls createStep.
ASSUME RepairAssumption ==
  \A s, t \in DOMAIN RepairStep, m, n \in 1..MaxRepairs :
    RepairStep[s][m] = RepairStep[t][n] => s = t /\ m = n

\* normalizeStep: an approval-sensitive step is never retryable.
ASSUME ProtectedAssumption ==
  /\ Protected \subseteq Steps
  /\ Retryable \subseteq Steps \ Protected

ASSUME BoundsAssumption ==
  /\ MaxAttempts \in Nat \ {0}
  /\ MaxRepairs \in Nat
  /\ MaxConcurrent \in Nat \ {0}
  /\ MaxTicks \in Nat \ {0}
  /\ MaxCommands \in Nat

-----------------------------------------------------------------------------
VARIABLES
  wf,         \* workflow.state
  state,      \* step.state of each step; ABSENT before it is created
  attempt,    \* step.attempt
  failures,   \* failed attempts recorded for the step, counted up to two
  refused,    \* steps whose last error forbids a retry (rejected, cancelled...)
  repairs,    \* step.metadata.repairAttempts
  bound,      \* steps with an approvalRequestId
  output,     \* steps with an output
  decisions,  \* unresolved decisions of each step, counted up to two
  running,    \* runningSteps
  queued,     \* queuedSteps
  lost,       \* steps whose capability is not available now
  call,       \* the suspended call of each caller
  disk,       \* the snapshot the persistence adapter holds, or NoSnapshot
  asked,      \* history: protected steps whose approval this process has
              \* requested or been given
  issued,     \* commands issued so far
  overruled   \* history: steps a command of the host has taken out of the
              \* scheduler's hands

stepVars == <<state, attempt, failures, refused, repairs, bound, output,
              decisions>>
schedVars == <<running, queued>>
hostVars == <<disk, issued, lost, overruled>>
vars == <<wf, stepVars, schedVars, call, hostVars, asked>>

NoStep == -1
NoSnapshot == [wf |-> "NONE"]
Modes == {"start", "tick", "retryStep", "retryWorkflow"}

\* The local variables of a call: where it is suspended, the step it executes,
\* the rest of the list it walks, the options it was given.
Calls ==
  [pc: {"idle", "drain", "scheduled", "loop", "run"}, mode: Modes,
   cur: Steps \union {NoStep}, rest: SUBSET Steps, approved: BOOLEAN,
   changed: BOOLEAN, ticks: 0..MaxTicks, busy: BOOLEAN]

Idle == [pc |-> "idle", mode |-> "tick", cur |-> NoStep, rest |-> {},
         approved |-> FALSE, changed |-> FALSE, ticks |-> 0, busy |-> FALSE]

Snapshot ==
  [wf |-> wf, state |-> state, attempt |-> attempt, failures |-> failures,
   refused |-> refused, repairs |-> repairs, bound |-> bound,
   output |-> output, decisions |-> decisions]

-----------------------------------------------------------------------------
(* Dependencies and readiness *)

\* scheduleOrder: PRIORITY_ORDER[priority] || 2, and 0 is falsy.
Rank(s) == LET n == PriorityOrder[Priority[s]] IN IF n = 0 THEN 2 ELSE n
Before(s, t) == Rank(s) < Rank(t) \/ (Rank(s) = Rank(t) /\ s < t)

First(S) == CHOOSE s \in S : \A t \in S \ {s} : Before(s, t)
FirstOf(S, n) == {s \in S : Cardinality({t \in S : Before(t, s)}) < n}

Existing == {s \in Steps : state[s] # "ABSENT"}
Required == Existing \ Optional
\* Mutant of Unfinished: a step that is ready again counts as over.
ReadyIsOver == {s \in Existing : state[s] \notin TerminalStep \union {"READY"}}
Unfinished == {s \in Existing : state[s] \notin TerminalStep}
Dependents(s) == {d \in Deps : d.source = s /\ state[d.target] # "ABSENT"}

DependencySatisfied(d, st, out) ==
  CASE d.type = "SOFT" -> st[d.source] \notin {"RUNNING", "QUEUED"}
    [] d.type = "REQUIRES_COMPLETION" -> st[d.source] \in TerminalStep
    [] d.type = "REQUIRES_OUTPUT" -> d.source \in out
    [] d.type = "REQUIRES_APPROVAL" ->
         d.source \in bound \union (out \intersect Approving)
    [] d.type = "REQUIRES_VALIDATION" ->
         \/ d.source \in out \intersect Validating
         \/ d.source \in Validations /\ st[d.source] = "SUCCEEDED"
    [] OTHER -> st[d.source] \in {"SUCCEEDED", "PARTIALLY_SUCCEEDED"}

\* Mutant of CanQueueStep: one prerequisite is enough.
OnePrerequisite(s, st, out) ==
  LET needed == {d \in Deps : d.target = s /\ d.required}
  IN  /\ s \notin lost
      /\ st[s] \in {"CREATED", "READY", "REPAIRING"}
      /\ needed = {} \/ \E d \in needed : DependencySatisfied(d, st, out)

CanQueueStep(s, st, out) ==
  /\ s \notin lost
  /\ st[s] \in {"CREATED", "READY", "REPAIRING"}
  /\ \A d \in Deps :
       d.target = s /\ d.required => DependencySatisfied(d, st, out)

\* The first MaxConcurrent steps that can be queued, if workflow state w allows.
ReadySteps(w) ==
  IF w \in {"READY", "RUNNING", "QUEUED", "WAITING_FOR_DEPENDENCY"}
  THEN FirstOf({s \in Steps : CanQueueStep(s, state, output)}, MaxConcurrent)
  ELSE {}

\* queueStep checks each ready step again after the steps before it were
\* queued: a step that is required to stay clear of one of those is refused.
RefusedOf(R) ==
  CHOOSE B \in SUBSET R : \A s \in R :
    s \in B <=> \E d \in Deps : /\ d.target = s /\ d.required
                                /\ d.type = "SOFT"
                                /\ d.source \in R \ B /\ Before(d.source, s)

\* scheduleReadySteps: queueStep for every ready step.  blockStep gives the
\* refused ones a new error.
ScheduleReadySteps(w) ==
  LET R == ReadySteps(w)
      B == RefusedOf(R)
  IN  /\ refused' = refused \ B
      /\ state' = [s \in Steps |->
                     IF s \notin R THEN state[s]
                     ELSE IF s \in B THEN "BLOCKED_BY_DEPENDENCY" ELSE "QUEUED"]
      /\ queued' = queued \union (R \ B)

\* Mutant of SafeToRunConcurrently: a mutating step starts beside others.
MutatorsStartAnyway(s) == \A t \in running : <<s, t>> \notin Overlap

SafeToRunConcurrently(s) ==
  IF s \in Mutating THEN running = {}
  ELSE \A t \in running : <<s, t>> \notin Overlap

-----------------------------------------------------------------------------
(* The end of a tick *)

\* The workflow state finalizeWorkflow leaves.
Finalized ==
  LET terminal == Required \intersect Unfinished = {}
      some(S, states) == \E s \in S : state[s] \in states
  IN  IF wf \in TerminalWorkflow THEN wf
      ELSE IF some(Existing, {"WAITING_FOR_APPROVAL"})
           THEN "WAITING_FOR_APPROVAL"
      ELSE IF some(Existing, {"WAITING_FOR_INPUT"}) THEN "WAITING_FOR_INPUT"
      ELSE IF terminal /\ some(Required, {"FAILED"})
           THEN IF some(Required, {"SUCCEEDED"}) THEN "PARTIALLY_COMPLETED"
                ELSE "FAILED"
      ELSE IF terminal /\ some(Required, {"BLOCKED", "BLOCKED_BY_DEPENDENCY"})
           THEN "BLOCKED"
      ELSE IF terminal
           THEN IF some(Existing, {"PARTIALLY_SUCCEEDED", "SKIPPED"})
                THEN "PARTIALLY_COMPLETED" ELSE "COMPLETED"
      ELSE IF ReadySteps(wf) = {} /\ queued = {} /\ running = {}
           THEN "WAITING_FOR_DEPENDENCY"
      ELSE wf

HasWork == queued # {} \/ running # {} \/ ReadySteps(wf) # {}

\* Mutant of DrainExits: maximumTicks is not looked at.
DrainGoesOn(c) ==
  \/ wf \in {"WAITING_FOR_APPROVAL", "WAITING_FOR_INPUT", "PAUSED"}
  \/ wf \in TerminalWorkflow
  \/ ~call[c].busy /\ ~HasWork

\* The exit condition of drain, evaluated after a tick.
DrainExits(c) ==
  \/ wf \in {"WAITING_FOR_APPROVAL", "WAITING_FOR_INPUT", "PAUSED"}
  \/ wf \in TerminalWorkflow
  \/ ~call[c].busy /\ ~HasWork
  \/ call[c].ticks = MaxTicks

\* Mutant of NextTick: the tick is not counted.
UncountedTick(k) == [k EXCEPT !.pc = "scheduled", !.ticks = 1, !.busy = HasWork]

\* The call's record at the first await of the next tick.
NextTick(k) ==
  [k EXCEPT !.pc = "scheduled", !.ticks = @ + 1, !.busy = HasWork]

-----------------------------------------------------------------------------
(* Executing a step.  k is the record of the executing call, its list and  *)
(* options already brought up to date.                                     *)

Returned(k) ==
  IF k.mode = "retryStep" THEN Idle
  ELSE [k EXCEPT !.pc = "loop", !.cur = NoStep, !.changed = FALSE]

SetCall(c, k) == call' = [call EXCEPT ![c] = k]

NeedsApproval(s, k) == s \in Protected \ bound /\ ~k.approved

\* blockStep, when the step's capability is not available.
LoseCapability(c, k, s) ==
  /\ s \in lost
  /\ state' = [state EXCEPT ![s] = "BLOCKED"]
  /\ refused' = refused \ {s}
  /\ SetCall(c, Returned(k))
  /\ UNCHANGED <<wf, attempt, decisions, bound, asked, schedVars>>

\* waitForApproval: the step stays in queuedSteps.
WaitForApproval(c, k, s) ==
  /\ s \notin lost
  /\ NeedsApproval(s, k)
  /\ wf' = "WAITING_FOR_APPROVAL"
  /\ state' = [state EXCEPT ![s] = "WAITING_FOR_APPROVAL"]
  /\ bound' = bound \union {s}
  /\ asked' = asked \union {s}
  /\ SetCall(c, Returned(k))
  /\ UNCHANGED <<attempt, decisions, schedVars>>

\* requestInputForStep: the step stays in queuedSteps.
RequestInput(c, k, s) ==
  /\ s \notin lost
  /\ ~NeedsApproval(s, k)
  /\ s \in Interactive
  /\ wf' = "WAITING_FOR_INPUT"
  /\ state' = [state EXCEPT ![s] = "WAITING_FOR_INPUT"]
  /\ decisions' = [decisions EXCEPT ![s] = IF @ = 0 THEN 1 ELSE 2]
  /\ SetCall(c, Returned(k))
  /\ UNCHANGED <<attempt, bound, asked, schedVars>>

\* The step starts; its call is suspended until the runtime answers.
Run(c, k, s) ==
  /\ s \notin lost
  /\ ~NeedsApproval(s, k)
  /\ s \notin Interactive
  /\ state' = [state EXCEPT ![s] = "RUNNING"]
  /\ attempt' = [attempt EXCEPT ![s] = @ + 1]
  /\ running' = running \union {s}
  /\ queued' = queued \ {s}
  /\ asked' = IF s \in Protected /\ k.approved THEN asked \union {s} ELSE asked
  /\ SetCall(c, [k EXCEPT !.pc = "run", !.cur = s])
  /\ UNCHANGED <<wf, decisions, bound>>

\* executeStep up to its first await; cleared says that the step's error was.
ExecuteStep(c, k, s, cleared) ==
  /\ \/ LoseCapability(c, k, s)
     \/ /\ \/ WaitForApproval(c, k, s)
           \/ RequestInput(c, k, s)
           \/ Run(c, k, s)
        /\ refused' = IF cleared THEN refused \ {s} ELSE refused
  /\ UNCHANGED <<failures, repairs, output>>

\* executeStep returns at once for a step that is over.
ReturnAtOnce(c, k) ==
  /\ SetCall(c, Returned(k))
  /\ UNCHANGED <<wf, stepVars, schedVars, asked>>

RetryAllowed(s, changed) ==
  /\ s \in Retryable
  /\ attempt[s] < MaxAttempts
  /\ s \notin refused
  /\ failures[s] < 2 \/ changed

-----------------------------------------------------------------------------
(* startWorkflow, drain and tick *)

\* startWorkflow up to its first await; k is the call's record.
BeginStart(c, k) ==
  /\ wf' = "RUNNING"
  /\ ScheduleReadySteps("RUNNING")
  /\ SetCall(c, [Idle EXCEPT !.mode = "start", !.pc = "drain",
                             !.approved = k.approved])
  /\ UNCHANGED <<attempt, failures, repairs, bound, output, decisions, running,
                 asked>>

\* drain between two ticks: it exits and startWorkflow finalizes, or the next
\* tick schedules the ready steps.
Drain(c) ==
  /\ call[c].pc = "drain"
  /\ IF call[c].ticks > 0 /\ DrainExits(c)
     THEN /\ wf' = Finalized
          /\ SetCall(c, Idle)
          /\ UNCHANGED <<state, refused, queued>>
     ELSE /\ ScheduleReadySteps(wf)
          /\ SetCall(c, NextTick(call[c]))
          /\ UNCHANGED wf
  /\ UNCHANGED <<attempt, failures, repairs, bound, output, decisions, running,
                 asked, hostVars>>

\* Mutant of Startable: one step too many.
OneTooMany(R) ==
  IF Cardinality(running) > MaxConcurrent THEN {}
  ELSE {s \in R : SafeToRunConcurrently(s)}

\* The steps of R that tick may execute now: none once the pool is full.
Startable(R) ==
  IF Cardinality(running) >= MaxConcurrent THEN {}
  ELSE {s \in R : SafeToRunConcurrently(s)}

\* tick resumes: it executes the next step of its list, which is a copy of
\* queuedSteps taken when the scheduling returned, or finalizes the workflow.
TickResumes(c) ==
  LET R == IF call[c].pc = "scheduled" THEN queued ELSE call[c].rest
      s == First(Startable(R))
      k == [call[c] EXCEPT !.rest = {t \in R : Before(s, t)}]
  IN  /\ call[c].mode \in {"start", "tick"}
      /\ call[c].pc \in {"scheduled", "loop"}
      /\ IF Startable(R) = {}
         THEN /\ wf' = Finalized
              /\ SetCall(c, IF call[c].mode = "start"
                            THEN [call[c] EXCEPT !.pc = "drain", !.rest = {}]
                            ELSE Idle)
              /\ UNCHANGED <<stepVars, schedVars, asked>>
         ELSE IF state[s] \in TerminalStep
              THEN ReturnAtOnce(c, k)
              ELSE ExecuteStep(c, k, s, FALSE)
      /\ UNCHANGED hostVars

\* retryWorkflow takes the next step of its list L, in the order of the
\* sequences, or starts the workflow.
RetryNext(c, k, L) ==
  LET s == CHOOSE x \in L : \A y \in L : x <= y
      rest == [k EXCEPT !.rest = L \ {s}]
  IN  IF L = {} THEN BeginStart(c, k)
      ELSE IF RetryAllowed(s, FALSE) THEN ExecuteStep(c, rest, s, TRUE)
      ELSE ReturnAtOnce(c, rest)

RetryWorkflowResumes(c) ==
  /\ call[c].mode = "retryWorkflow"
  /\ call[c].pc = "loop"
  /\ RetryNext(c, call[c], call[c].rest)
  /\ UNCHANGED hostVars

-----------------------------------------------------------------------------
(* The runtime's answer *)

\* executeStep after a result: the state is overwritten whatever it is by now,
\* and dependents that can be queued become READY.
StepSucceeds(c) ==
  \E result \in {"SUCCEEDED", "PARTIALLY_SUCCEEDED"} :
    LET s == call[c].cur
        st == [state EXCEPT ![s] = result]
        out == output \union {s}
        targets == {d.target : d \in Dependents(s)}
    IN  /\ call[c].pc = "run"
        /\ state' = [t \in Steps |->
                       IF t \in targets /\ CanQueueStep(t, st, out)
                       THEN "READY" ELSE st[t]]
        /\ output' = out
        /\ running' = running \ {s}
        /\ SetCall(c, Returned(call[c]))
        /\ UNCHANGED <<wf, attempt, failures, refused, repairs, bound,
                       decisions, queued, asked, hostVars>>

RecordFailure(s) ==
  failures' = [failures EXCEPT ![s] = IF @ = 0 THEN 1 ELSE 2]

\* handleStepFailure retries in the same call, without looking at the state.
RetryAtOnce(c, s) ==
  /\ RecordFailure(s)
  /\ refused' = refused \ {s}
  /\ IF s \in lost
     THEN /\ state' = [state EXCEPT ![s] = "BLOCKED"]
          /\ running' = running \ {s}
          /\ SetCall(c, Returned(call[c]))
          /\ UNCHANGED <<attempt, queued>>
     ELSE /\ state' = [state EXCEPT ![s] = "RUNNING"]
          /\ attempt' = [attempt EXCEPT ![s] = @ + 1]
          /\ running' = running \union {s}
          /\ queued' = queued \ {s}
          /\ SetCall(c, [call[c] EXCEPT !.changed = TRUE])
  /\ UNCHANGED <<wf, repairs, bound, output, decisions, asked>>

\* The refused steps once the step fails with a message that forbids a retry,
\* or with one that does not.
Refused(s, final) == IF final THEN refused \union {s} ELSE refused \ {s}

\* handleStepFailure leaves the step REPAIRING and creates its repair step.
StartRepair(c, s, final) ==
  LET r == RepairStep[s][repairs[s] + 1]
  IN  /\ RecordFailure(s)
      /\ refused' = Refused(s, final)
      /\ state' = [state EXCEPT ![s] = "REPAIRING", ![r] = "CREATED"]
      /\ repairs' = [repairs EXCEPT ![s] = @ + 1]
      /\ running' = running \ {s}
      /\ SetCall(c, Returned(call[c]))
      /\ UNCHANGED <<wf, attempt, bound, output, decisions, queued, asked>>

\* applyFailurePolicy, which overwrites whatever state the dependents have.
ApplyFailurePolicy(s, final) ==
  LET all == {d.target : d \in Dependents(s)}
      required == {d.target : d \in {e \in Dependents(s) : e.required}}
      skipped == IF Policy[s] = "SKIP_DEPENDENTS" THEN all ELSE {}
      blocked == IF Policy[s] \in {"FAIL_WORKFLOW", "SKIP_DEPENDENTS",
                                   "CONTINUE_INDEPENDENT"}
                 THEN {} ELSE required
  IN  /\ wf' = IF Policy[s] = "FAIL_WORKFLOW" THEN "FAILED" ELSE wf
      /\ refused' = Refused(s, final) \ blocked
      /\ state' = [t \in Steps |->
                     IF t \in skipped THEN "SKIPPED"
                     ELSE IF t \in blocked THEN "BLOCKED_BY_DEPENDENCY"
                     ELSE IF t = s THEN "FAILED" ELSE state[t]]

\* Mutant of StepGivesUp: the step stays in runningSteps.
LeaksRunningStep(c, s, final) ==
  /\ RecordFailure(s)
  /\ ApplyFailurePolicy(s, final)
  /\ SetCall(c, Returned(call[c]))
  /\ UNCHANGED <<attempt, repairs, bound, output, decisions, schedVars, asked>>

StepGivesUp(c, s, final) ==
  /\ RecordFailure(s)
  /\ ApplyFailurePolicy(s, final)
  /\ running' = running \ {s}
  /\ SetCall(c, Returned(call[c]))
  /\ UNCHANGED <<attempt, repairs, bound, output, decisions, queued, asked>>

\* Mutant of MayRetry: one attempt too many.
OneMoreAttempt(c, s, final) ==
  /\ Policy[s] \in {"RETRY", "REPAIR_THEN_RETRY"}
  /\ s \in Retryable
  /\ attempt[s] <= MaxAttempts
  /\ ~final

\* retryAllowed for the failure being handled, which counts already.
MayRetry(c, s, final) ==
  /\ Policy[s] \in {"RETRY", "REPAIR_THEN_RETRY"}
  /\ s \in Retryable
  /\ attempt[s] < MaxAttempts
  /\ ~final
  /\ failures[s] = 0 \/ call[c].changed

MayRepair(s) ==
  /\ Policy[s] = "REPAIR_THEN_RETRY"
  /\ s \in DOMAIN RepairStep
  /\ repairs[s] < MaxRepairs

\* executeStep after an error; final says that its message forbids a retry.
StepFails(c) ==
  \E final \in BOOLEAN :
    LET s == call[c].cur
    IN  /\ call[c].pc = "run"
        /\ IF MayRetry(c, s, final) THEN RetryAtOnce(c, s)
           ELSE IF MayRepair(s) THEN StartRepair(c, s, final)
           ELSE StepGivesUp(c, s, final)
        /\ UNCHANGED hostVars

-----------------------------------------------------------------------------
(* Commands that start a call *)

Issue(name) ==
  /\ name \in Commands
  /\ issued < MaxCommands
  /\ issued' = issued + 1

Command(name) == Issue(name) /\ UNCHANGED <<disk, lost, overruled>>

\* A command that decides by itself what becomes of the steps of S: it ends or
\* undoes them, or executes them without asking the scheduler.
Overrule(name, S) ==
  /\ Issue(name)
  /\ overruled' = overruled \union S
  /\ UNCHANGED <<disk, lost>>

\* A new call, with the options it may be given: an approvalRequestId or none.
NewCall(mode) ==
  {[Idle EXCEPT !.mode = mode, !.approved = a] :
     a \in IF "approve" \in Commands THEN BOOLEAN ELSE {FALSE}}

StartWorkflow(c) ==
  /\ Command("start")
  /\ call[c] = Idle
  /\ wf \notin TerminalWorkflow
  /\ \E k \in NewCall("start") : BeginStart(c, k)

Tick(c) ==
  /\ Command("tick")
  /\ call[c] = Idle
  /\ ScheduleReadySteps(wf)
  /\ \E k \in NewCall("tick") : SetCall(c, [k EXCEPT !.pc = "scheduled"])
  /\ UNCHANGED <<wf, attempt, failures, repairs, bound, output, decisions,
                 running, asked>>

\* retryStep ignores the step's state, its dependencies and the workflow's.
RetryStep(c) ==
  /\ call[c] = Idle
  /\ \E s \in Existing, k \in NewCall("retryStep") :
       /\ Overrule("retryStep", {s})
       /\ RetryAllowed(s, FALSE)
       /\ ExecuteStep(c, k, s, TRUE)

RetryWorkflow(c) ==
  LET L == {s \in Steps : state[s] \in {"FAILED", "INTERRUPTED"}}
  IN  /\ Overrule("retryWorkflow", L)
      /\ call[c] = Idle
      /\ \E k \in NewCall("retryWorkflow") : RetryNext(c, k, L)

-----------------------------------------------------------------------------
(* Control commands: they run to their end at once, whatever is in flight *)

\* pauseWorkflow: pauseStep for every step that is not over.
PauseWorkflow ==
  /\ Overrule("pause", running \intersect Unfinished)
  /\ wf' = "PAUSED"
  /\ state' = [s \in Steps |-> IF s \in Unfinished THEN "PAUSED" ELSE state[s]]
  /\ running' = running \ Unfinished
  /\ queued' = queued \ Unfinished
  /\ UNCHANGED <<attempt, failures, refused, repairs, bound, output, decisions,
                 call, asked>>

\* resumeWorkflow, from any state; reconfirmed is its reconfirmApproval option.
ResumeWorkflow(reconfirmed) ==
  LET unconfirmed == {s \in Protected : state[s] \in {"INTERRUPTED",
                                                      "WAITING_FOR_APPROVAL"}}
  IN  /\ Command(IF reconfirmed THEN "reconfirm" ELSE "resume")
      /\ wf' = IF unconfirmed # {} /\ ~reconfirmed THEN "WAITING_FOR_APPROVAL"
               ELSE "RUNNING"
      /\ UNCHANGED <<stepVars, schedVars, call, asked>>

SuspendWorkflow ==
  /\ Command("suspend")
  /\ wf' = "SUSPENDED"
  /\ UNCHANGED <<stepVars, schedVars, call, asked>>

\* cancelWorkflow: cancelStep for every step that is not over.
CancelWorkflow ==
  /\ Overrule("cancel", Unfinished)
  /\ wf' = "CANCELLED"
  /\ state' = [s \in Steps |->
                 IF s \in Unfinished THEN "CANCELLED" ELSE state[s]]
  /\ running' = running \ Unfinished
  /\ queued' = queued \ Unfinished
  /\ UNCHANGED <<attempt, failures, refused, repairs, bound, output, decisions,
                 call, asked>>

ExpireWorkflow ==
  /\ Command("expire")
  /\ wf' = "EXPIRED"
  /\ UNCHANGED <<stepVars, schedVars, call, asked>>

\* validateWorkflow for a valid definition: READY, whatever the state was.
ValidateWorkflow ==
  /\ Command("validate")
  /\ wf' = "READY"
  /\ UNCHANGED <<stepVars, schedVars, call, asked>>

\* skipStep, in any state of the step, which stays in queuedSteps.
SkipStep(blockDependents) ==
  \E s \in Existing :
    LET blocked == IF blockDependents
                   THEN {d.target : d \in Dependents(s)} ELSE {}
    IN  /\ Overrule("skip", {s} \union blocked)
        /\ state' = [t \in Steps |->
                       IF t \in blocked THEN "BLOCKED_BY_DEPENDENCY"
                       ELSE IF t = s THEN "SKIPPED" ELSE state[t]]
        /\ refused' = refused \ blocked
        /\ UNCHANGED <<wf, attempt, failures, repairs, bound, output, decisions,
                       schedVars, call, asked>>

\* resolveDecision: the step succeeds whatever its state is by now.
ResolveDecision ==
  \E s \in Steps :
    /\ Command("decide")
    /\ decisions[s] > 0
    /\ \E n \in IF decisions[s] = 2 THEN {1, 2} ELSE {0} :
         decisions' = [decisions EXCEPT ![s] = n]
    /\ output' = output \union {s}
    /\ state' = [state EXCEPT ![s] = "SUCCEEDED"]
    /\ wf' = IF wf = "WAITING_FOR_INPUT" THEN "READY" ELSE wf
    /\ UNCHANGED <<attempt, failures, refused, repairs, bound, schedVars, call,
                   asked>>

-----------------------------------------------------------------------------
(* Persistence and the environment *)

\* save, and shutdown, which suspends an active workflow first.  Calls in
\* flight go on until the process ends.
Shutdown ==
  /\ Issue("shutdown")
  /\ wf' = IF wf \in {"RUNNING", "QUEUED"} THEN "SUSPENDED" ELSE wf
  /\ disk' = [Snapshot EXCEPT !.wf = wf']
  /\ UNCHANGED <<stepVars, schedVars, call, asked, lost, overruled>>

Save ==
  /\ Issue("save")
  /\ disk' = Snapshot
  /\ UNCHANGED <<wf, stepVars, schedVars, call, asked, lost, overruled>>

\* Mutant of RestoredStep: a queued step stays queued.
KeepsQueued(s, recovered) ==
  IF disk.state[s] = "RUNNING" THEN "INTERRUPTED" ELSE disk.state[s]

\* The state of a step after restore, and after recover.
RestoredStep(s, recovered) ==
  IF disk.state[s] \in {"RUNNING", "QUEUED"} THEN "INTERRUPTED"
  ELSE IF recovered /\ disk.state[s] = "REPAIRING"
       THEN IF s \in Mutating \union Protected THEN "INTERRUPTED" ELSE "PAUSED"
       ELSE disk.state[s]

RestoredWorkflow(recovered) ==
  IF recovered
  THEN IF disk.wf \in {"RUNNING", "QUEUED", "READY", "WAITING_FOR_APPROVAL"}
       THEN "RECOVERING" ELSE disk.wf
  ELSE IF disk.wf \in {"RUNNING", "QUEUED", "READY"} THEN "SUSPENDED" ELSE disk.wf

\* Mutant of RestoredApprovals: they survive.
KeptApprovals == disk.bound

\* restore drops the approvals of approval-sensitive steps.
RestoredApprovals == {}

\* The process ends, at any moment, and a new one loads the last snapshot:
\* load, or recover.  Its scheduler is empty and no call is in flight.
Restart(recovered) ==
  /\ Issue("restart")
  /\ disk # NoSnapshot
  /\ wf' = RestoredWorkflow(recovered)
  /\ state' = [s \in Steps |-> RestoredStep(s, recovered)]
  /\ bound' = RestoredApprovals
  /\ refused' = IF recovered
                THEN disk.refused \ {s \in Steps : disk.state[s] = "REPAIRING"}
                ELSE disk.refused
  /\ attempt' = disk.attempt /\ failures' = disk.failures
  /\ repairs' = disk.repairs /\ output' = disk.output
  /\ decisions' = disk.decisions
  /\ running' = {} /\ queued' = {} /\ asked' = {}
  /\ call' = [c \in Callers |-> Idle]
  /\ overruled' = overruled \union {s \in Steps : state'[s] = "INTERRUPTED"}
  /\ UNCHANGED <<disk, lost>>

\* The runtime loses or regains the capability of a step.
CapabilityChanges ==
  /\ Issue("capability")
  /\ \E s \in Flaky :
       lost' = IF s \in lost THEN lost \ {s} ELSE lost \union {s}
  /\ UNCHANGED <<wf, stepVars, schedVars, call, asked, disk, overruled>>

-----------------------------------------------------------------------------
(* The specification *)

RepairSteps == UNION {{RepairStep[s][n] : n \in 1..MaxRepairs} :
                        s \in DOMAIN RepairStep}

Init ==
  /\ wf = "CREATED"
  /\ state = [s \in Steps |-> IF s \in RepairSteps THEN "ABSENT" ELSE "CREATED"]
  /\ attempt = [s \in Steps |-> 0]
  /\ failures = [s \in Steps |-> 0]
  /\ repairs = [s \in Steps |-> 0]
  /\ decisions = [s \in Steps |-> 0]
  /\ refused = {} /\ bound = {} /\ output = {}
  /\ running = {} /\ queued = {} /\ lost = {} /\ asked = {}
  /\ overruled = {}
  /\ call = [c \in Callers |-> Idle]
  /\ disk = NoSnapshot
  /\ issued = 0

Answer(c) == StepSucceeds(c) \/ StepFails(c)

\* What the engine does next in a call that does not wait for the runtime.
Advance(c) ==
  \/ Drain(c)
  \/ TickResumes(c)
  \/ RetryWorkflowResumes(c)

Continue(c) == Advance(c) \/ Answer(c)

Invoke(c) ==
  \/ StartWorkflow(c)
  \/ Tick(c)
  \/ RetryStep(c)
  \/ RetryWorkflow(c)

Control ==
  \/ PauseWorkflow
  \/ \E reconfirmed \in BOOLEAN : ResumeWorkflow(reconfirmed)
  \/ SuspendWorkflow
  \/ CancelWorkflow
  \/ ExpireWorkflow
  \/ ValidateWorkflow
  \/ \E blockDependents \in BOOLEAN : SkipStep(blockDependents)
  \/ ResolveDecision

Host ==
  \/ Shutdown
  \/ Save
  \/ \E recovered \in BOOLEAN : Restart(recovered)
  \/ CapabilityChanges

Next ==
  \/ \E c \in Callers : Continue(c) \/ Invoke(c)
  \/ Control
  \/ Host

Spec == Init /\ [][Next]_vars

\* The event loop runs every continuation of the engine's own.  Nothing makes a
\* handler of the runtime answer: a command executed at once has no time-out.
Fairness == \A c \in Callers : WF_vars(Advance(c))

FairSpec == Spec /\ Fairness

-----------------------------------------------------------------------------
(* Properties *)

\* The scheduler's variables and its suspended calls.
EngineTypeOK ==
  /\ wf \in WorkflowStates
  /\ state \in [Steps -> StepStates]
  /\ attempt \in [Steps -> Nat]
  /\ failures \in [Steps -> 0..2]
  /\ repairs \in [Steps -> 0..MaxRepairs]
  /\ decisions \in [Steps -> 0..2]
  /\ refused \subseteq Steps /\ bound \subseteq Steps /\ output \subseteq Steps
  /\ running \subseteq Steps /\ queued \subseteq Steps /\ asked \subseteq Steps
  /\ call \in [Callers -> Calls]

\* What a snapshot holds.
Snapshots ==
  [wf: WorkflowStates, state: [Steps -> StepStates], attempt: [Steps -> Nat],
   failures: [Steps -> 0..2], refused: SUBSET Steps,
   repairs: [Steps -> 0..MaxRepairs], bound: SUBSET Steps,
   output: SUBSET Steps, decisions: [Steps -> 0..2]]

HostTypeOK ==
  /\ lost \subseteq Flaky /\ overruled \subseteq Steps
  /\ disk \in Snapshots \union {NoSnapshot}
  /\ issued \in 0..MaxCommands

\* Every variable has its type; what a call resumes with after an await is
\* something the engine can go on from: drain's counter keeps its bound.
TypeOK == EngineTypeOK /\ HostTypeOK

Executes(c, s) == call[c].pc = "run" /\ call[c].cur = s

\* A QUEUED step is in queuedSteps, and a RUNNING one has a call that will
\* bring it to its end: no step is forgotten half-way.
InFlightIsOwned ==
  \A s \in Steps :
    /\ state[s] = "QUEUED" => s \in queued
    /\ state[s] = "RUNNING" \/ s \in running => \E c \in Callers : Executes(c, s)

\* Protected work never resumes by itself: a protected step executes only in a
\* process that asked for its approval, or was given one, since it started.
ProtectedIsReconfirmed ==
  \A c \in Callers, s \in Protected : Executes(c, s) => s \in asked

\* safeToRunConcurrently looks at runningSteps, which holds a step once: two
\* calls may execute a step that does not mutate and has no scope at once.
Exclusive(s) == s \in Mutating \/ <<s, s>> \in Overlap

\* The steps that are the scheduler's alone.
Free(s) == Exclusive(s) /\ s \notin overruled

Conflict(s, t) == {s, t} \subseteq Mutating \/ <<s, t>> \in Overlap

\* safeToRunConcurrently is evaluated before a step starts, in any of the calls
\* in flight: two calls execute steps that both mutate or have overlapping
\* scopes, or the same such step, only if the host has overruled one of them.
ConcurrencyIsSafe ==
  \A c, d \in Callers, s, t \in Steps :
    c # d /\ Executes(c, s) /\ Executes(d, t) /\ Conflict(s, t) =>
      {s, t} \intersect overruled # {}

\* tick looks at the pool before each step: however many calls are in flight,
\* at most maximumConcurrentSteps of them execute a step that is the
\* scheduler's alone.
ConcurrencyIsBounded ==
  Cardinality({c \in Callers : call[c].pc = "run" /\ Free(call[c].cur)})
    <= MaxConcurrent

\* Retries are bounded across calls, pauses and restarts: handleStepFailure and
\* later ticks together attempt a step that is the scheduler's alone at most
\* maximumAttempts times, and once more for each repair.
AttemptsAreBounded ==
  \A s \in Steps : Free(s) => attempt[s] <= MaxAttempts + repairs[s]

\* Dependencies that hold only once their source is over.
Settling ==
  {"REQUIRES_SUCCESS", "REQUIRES_COMPLETION", "REQUIRES_OUTPUT",
   "REQUIRES_VALIDATION"}

\* applyFailurePolicy leaves the target of d alone when its source fails.
SparesTarget(d) ==
  IF d.required THEN Policy[d.source] \in {"FAIL_WORKFLOW", "CONTINUE_INDEPENDENT"}
  ELSE Policy[d.source] # "SKIP_DEPENDENTS"

\* Sets of steps whose outcomes no step but those of the set decides.
Grounds ==
  {G \in SUBSET Steps :
     \A s \in G :
       /\ Exclusive(s)
       /\ \A d \in Deps : d.target = s =>
            \/ d.required /\ d.type \in Settling /\ d.source \in G
            \/ SparesTarget(d)}

\* The host has overruled neither the step nor those its outcome depends on.
Undisturbed(s) == \E G \in Grounds : s \in G /\ G \intersect overruled = {}

\* canQueueStep is evaluated when a step is queued, and awaits separate that from
\* its execution: a step the host has not overruled executes only while the
\* outputs and approvals it requires are there, and while the undisturbed steps
\* it requires are as it requires them, whatever other calls and commands did.
PrerequisitesHold ==
  \A c \in Callers, d \in Deps :
    /\ Executes(c, d.target)
    /\ d.target \notin overruled
    /\ d.required
    /\ \/ d.type \in {"REQUIRES_OUTPUT", "REQUIRES_APPROVAL"}
       \/ d.type \in Settling /\ Undisturbed(d.source)
    => DependencySatisfied(d, state, output)

\* finalizeWorkflow, and every call, command and restart after it, leave
\* COMPLETED only on a workflow whose required steps have all succeeded: those
\* that are undisturbed, and not repairs, which a late failure may add.
CompletionIsEarned ==
  wf = "COMPLETED" =>
    \A s \in Required \ RepairSteps : Undisturbed(s) => state[s] = "SUCCEEDED"

\* Every call of startWorkflow, tick, retryStep and retryWorkflow whose steps the
\* runtime answers returns, whatever the other calls wait for: drain comes to its
\* end whatever is cancelled, skipped, expired or lost meanwhile.
EveryCallReturns ==
  \A c \in Callers :
    WF_vars(Answer(c)) => (call[c].pc # "idle" ~> call[c].pc = "idle")
============================================================================
