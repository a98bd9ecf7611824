------------------------- MODULE RuntimeOperations -------------------------
(***************************************************************************)
(* The operations of src/src/levi-application-runtime.js: the priority     *)
(* queue and its bound, commands executed at once, approvals, cancellation *)
(* of parents and children, pauses, time-outs, retries, waiting callers,   *)
(* and the runtime's own life (initialize, suspend, resume, recover,       *)
(* shutdown).                                                              *)
(*                                                                         *)
(* The runtime is single-threaded: a block between two awaits is one       *)
(* action.  work[o] is where the asynchronous work of an operation is:     *)
(* dispatched (waits for enforceSecurity), asked (has asked for an         *)
(* approval and is about to return), handling (the handler runs), adrift   *)
(* (the handler runs on after its time-out), refused (the start was        *)
(* rejected).  A timer fires only when no microtask is left (Quiet).       *)
(*                                                                         *)
(* An operation is a number, its sequence.  sortQueue keeps the queue in   *)
(* one order, so that the set of its members is the whole of it.  The      *)
(* operation that a successful initialize or shutdown makes for itself     *)
(* lives in one block and is left out.  READY stands for DEGRADED: both    *)
(* serve the queue and allow the same calls.  A submitted OPEN_WORKSPACE   *)
(* or CLOSE_WORKSPACE without a command bypasses invokeCommand; its work   *)
(* then goes as that of a command which asks for no approval.              *)
(***************************************************************************)
EXTENDS Integers, FiniteSets

CONSTANTS
  Operations,     \* every operation of a behaviour
  Protected,      \* those whose command is approvalSensitive
  Unhandled,      \* those submitted with no registered command, whose type
                  \* dispatchOperation does not know either
  Decisions,      \* what the gateway's policy may decide of a protected one
  Priority,       \* priority of each operation
  MaxConcurrent,  \* maximumConcurrentOperations
  MaxQueued,      \* maximumQueuedOperations
  MaxChildren,    \* maximumChildOperations
  MaxRecoveries,  \* maximumRecoveryAttempts
  Commands        \* the calls the host makes

PriorityOrder == [CRITICAL |-> 0, HIGH |-> 1, NORMAL |-> 2, LOW |-> 3]

ASSUME OperationsAssumption ==
  /\ Operations \subseteq Nat \ {0}
  /\ IsFiniteSet(Operations)
  /\ Protected \subseteq Operations
  /\ Unhandled \subseteq Operations \ Protected
  /\ Decisions \in
       [Protected -> (SUBSET {"APPROVED", "REQUIRES_APPROVAL", "DENIED"}) \ {{}}]
  /\ Priority \in [Operations -> DOMAIN PriorityOrder]

ASSUME BoundsAssumption ==
  /\ MaxConcurrent \in Nat \ {0}
  /\ MaxQueued \in Nat
  /\ MaxChildren \in Nat
  /\ MaxRecoveries \in Nat

VARIABLES
  runtime,     \* state of the runtime
  state,       \* operation.state, "NONE" before the operation exists
  result,      \* operation.result.status, "NONE" while there is no result
  queue,       \* the members of queue
  running,     \* running: the operations that hold a slot
  work,        \* where the asynchronous work of each operation is
  request,     \* status of the approval request of each operation
  evidence,    \* the operation whose request is in input.approvalRequestId, or 0
  parent,      \* the operation that lists it in childOperationIds, or 0
  timers,      \* operations with an armed waitForOperation timer
  recoveries,  \* recoveryAttempts
  ran,         \* history: operations whose handler was called
  late,        \* history: operations created under a parent that had ended
  stranded,    \* history: operations whose creating call threw after creation
  idle         \* history: in service since then, and the queue not looked at

opVars == <<state, result, work, request, evidence, parent, timers>>
histVars == <<ran, late, stranded>>
vars == <<runtime, queue, running, recoveries, opVars, histVars, idle>>

Lifecycle == INSTANCE OperationLifecycle WITH Operations <- Operations, state <- state
Transitions == Lifecycle!Transitions
Terminal == Lifecycle!Terminal
InFlight == Lifecycle!InFlight

RuntimeStates ==
  {"CREATED", "READY", "SUSPENDED", "STOPPED", "FAILED"}
Works == {"none", "dispatched", "asked", "handling", "adrift", "refused"}
Requests == {"NONE", "PENDING", "APPROVED", "REJECTED", "EXPIRED"}

Init ==
  /\ runtime = "CREATED"
  /\ state = [o \in Operations |-> "NONE"]
  /\ result = [o \in Operations |-> "NONE"]
  /\ work = [o \in Operations |-> "none"]
  /\ request = [o \in Operations |-> "NONE"]
  /\ evidence = [o \in Operations |-> 0]
  /\ parent = [o \in Operations |-> 0]
  /\ queue = {} /\ running = {} /\ timers = {}
  /\ ran = {} /\ late = {} /\ stranded = {}
  /\ recoveries = 0
  /\ idle = FALSE

-----------------------------------------------------------------------------
(* The queue *)

\* sortQueue
Before(p, o) ==
  LET rank == PriorityOrder[Priority[p]] - PriorityOrder[Priority[o]]
  IN rank < 0 \/ (rank = 0 /\ p < o)

FirstOf(q, n) == {o \in q : Cardinality({p \in q : Before(p, o)}) < n}

\* processQueue, and executeQueuedOperation up to its first await.  An operation
\* that ended while it was queued is refused by the transition table.
ProcessQueue(rt, q, r, st, w) ==
  LET started == IF rt = "READY"
                 THEN FirstOf(q, MaxConcurrent - Cardinality(r)) ELSE {}
      begins == {o \in started : st[o] = "QUEUED"}
  IN /\ queue' = q \ started
     /\ running' = r \union started
     /\ state' = [o \in Operations |-> IF o \in begins THEN "RUNNING" ELSE st[o]]
     /\ work' = [o \in Operations |->
                   IF o \in begins THEN "dispatched"
                   ELSE IF o \in started THEN "refused" ELSE w[o]]
     /\ idle' = (idle /\ rt # "READY")

\* Mutant of Release: the slot is never given back.
ReleaseKeepsSlot(o, st, w) ==
  state' = st /\ work' = w /\ UNCHANGED <<queue, running, idle>>

\* Mutant of Release: finally forgets processQueue.
ReleaseWithoutNext(o, st, w) ==
  state' = st /\ work' = w /\ running' = running \ {o} /\ UNCHANGED <<queue, idle>>

\* The slot of an operation is given back, and processQueue looks for another;
\* an operation executed at once holds none.
Release(o, st, w) ==
  IF o \in running
  THEN ProcessQueue(runtime, queue, running \ {o}, st, w)
  ELSE state' = st /\ work' = w /\ UNCHANGED <<queue, running, idle>>

\* Mutant of Recorded: a refused transition leaves the operation as it is.
RecordedAsIs(o, outcome) ==
  IF state[o] \in Terminal \/ outcome \in Transitions[state[o]]
  THEN outcome ELSE state[o]

\* The outcome finishOperation records: a transition that the table refuses is
\* caught and becomes FAILED.
Recorded(o, outcome) ==
  IF state[o] \in Terminal \/ outcome \in Transitions[state[o]]
  THEN outcome ELSE "FAILED"

\* Mutant of Finish: without the check of isTerminalOperation.
FinishAgain(o, outcome, w) ==
  /\ result' = [result EXCEPT ![o] = outcome]
  /\ timers' = timers \ {o}
  /\ Release(o, [state EXCEPT ![o] = outcome], [work EXCEPT ![o] = w])

\* finishOperation, for work that ends (or goes adrift) with an outcome.  The
\* state of an operation that has ended stays; its result is overwritten.
Finish(o, outcome, w) ==
  LET to == IF state[o] \in Terminal THEN state[o] ELSE Recorded(o, outcome)
  IN /\ result' = [result EXCEPT ![o] = Recorded(o, outcome)]
     /\ timers' = timers \ {o}
     /\ Release(o, [state EXCEPT ![o] = to], [work EXCEPT ![o] = w])

\* What data that a handler returned makes of the operation.  Only an operation
\* executed at once looks at the cancellation and at data.partial.
Succeed(o, partial) ==
  IF o \in running THEN Finish(o, "SUCCEEDED", "none")
  ELSE IF state[o] = "CANCELLED" THEN Finish(o, "CANCELLED", "none")
  ELSE Finish(o, IF partial THEN "PARTIALLY_SUCCEEDED" ELSE "SUCCEEDED", "none")

Quiet == \A o \in Operations : work[o] \notin {"dispatched", "asked", "refused"}

-----------------------------------------------------------------------------
(* Creating operations *)

Fresh(o) ==
  /\ state[o] = "NONE"
  /\ \A p \in Operations : p < o => state[p] # "NONE"

Known == {o \in Operations : state[o] # "NONE"}
Children(p) == {o \in Operations : parent[o] = p}

\* submitOperation.  The bound on children is checked after the operation has
\* been stored: the call throws and leaves it QUEUED, in no queue.
SubmitAs(o, p, e) ==
  /\ Fresh(o)
  /\ Cardinality(queue) < MaxQueued
  /\ IF p # 0 /\ Cardinality(Children(p)) >= MaxChildren
     THEN /\ state' = [state EXCEPT ![o] = "QUEUED"]
          /\ stranded' = stranded \union {o}
          /\ UNCHANGED <<queue, running, work, parent, late, idle>>
     ELSE /\ parent' = [parent EXCEPT ![o] = p]
          /\ late' = IF p # 0 /\ state[p] \in Terminal
                     THEN late \union {o} ELSE late
          /\ ProcessQueue(runtime, queue \union {o}, running,
                          [state EXCEPT ![o] = "QUEUED"], work)
          /\ UNCHANGED stranded
  /\ evidence' = [evidence EXCEPT ![o] = e]
  /\ UNCHANGED <<runtime, result, request, recoveries, ran>>

\* The requests a caller can present with an operation; nothing looks at one
\* where no approval is needed.
Presentable(o) ==
  {0} \union {p \in Operations : o \in Protected /\ request[p] # "NONE"}

Submit(o) ==
  /\ "submit" \in Commands
  /\ \E p \in Known \union {0}, e \in Presentable(o) : SubmitAs(o, p, e)
  /\ UNCHANGED timers

SameCommand(o, p) ==
  /\ o \in Protected <=> p \in Protected
  /\ o \in Unhandled <=> p \in Unhandled
  /\ Priority[o] = Priority[p]

\* retryOperation: command, priority and input are those of the operation that
\* ended.
Retry(o) ==
  /\ "retry" \in Commands
  /\ \E last \in Operations :
       /\ state[last] \in {"FAILED", "TIMED_OUT", "CANCELLED", "PARTIALLY_SUCCEEDED"}
       /\ SameCommand(o, last)
       /\ SubmitAs(o, parent[last], evidence[last])
       /\ timers' = IF o \in stranded' THEN timers ELSE timers \union {o}

\* executeCommand, which throws for an unknown command, and runImmediateOperation
\* up to its first await.
ExecuteCommand(o) ==
  /\ "execute" \in Commands
  /\ Fresh(o)
  /\ o \notin Unhandled
  /\ \E e \in Presentable(o) : evidence' = [evidence EXCEPT ![o] = e]
  /\ state' = [state EXCEPT ![o] = "RUNNING"]
  /\ work' = [work EXCEPT ![o] = "dispatched"]
  /\ UNCHANGED <<runtime, result, queue, running, request, parent, timers,
                 recoveries, histVars, idle>>

\* initialize or shutdown where the runtime's table does not allow it: the call
\* throws before its try block and leaves its own operation RUNNING.
LifecycleCallRefused(o) ==
  /\ "misuse" \in Commands
  /\ Fresh(o)
  /\ runtime \notin {"CREATED", "STOPPED"}    \* initialize
     \/ runtime \in {"CREATED", "STOPPED"}    \* shutdown
  /\ state' = [state EXCEPT ![o] = "RUNNING"]
  /\ stranded' = stranded \union {o}
  /\ UNCHANGED <<runtime, result, queue, running, work, request, evidence,
                 parent, timers, recoveries, ran, late, idle>>

-----------------------------------------------------------------------------
(* The work of an operation *)

\* dispatchOperation found nothing to call: { NO_HANDLER } is taken for data.
NothingToCall(o) ==
  /\ work[o] = "dispatched"
  /\ o \in Unhandled
  /\ Succeed(o, FALSE)
  /\ UNCHANGED <<runtime, request, evidence, parent, recoveries, histVars>>

\* The approval a protected operation presents, and the policies (NEVER,
\* DESTRUCTIVE_ONLY, some of CUSTOM) under which enforceApproval asks for none.
Presented(o) == evidence[o] # 0 /\ request[evidence[o]] = "APPROVED"
Waived(o) == "APPROVED" \in Decisions[o]

Approved(o) == o \in Protected => Presented(o) \/ Waived(o)

\* A missing capability, the security decision or the approval policy refuses;
\* a workspace call throws.
CommandRefused(o) ==
  /\ work[o] = "dispatched"
  /\ o \notin Unhandled
  /\ Finish(o, "FAILED", "none")
  /\ UNCHANGED <<runtime, request, evidence, parent, recoveries, histVars>>

\* Mutant of CallHandler: a request that is pending is taken for an approval.
CallHandlerUnapproved(o) ==
  /\ work[o] = "dispatched"
  /\ o \notin Unhandled
  /\ work' = [work EXCEPT ![o] = "handling"]
  /\ ran' = ran \union {o}
  /\ UNCHANGED <<runtime, state, result, queue, running, request, evidence,
                 parent, timers, recoveries, late, stranded, idle>>

\* invokeCommand, once enforceSecurity has been awaited.
CallHandler(o) ==
  /\ work[o] = "dispatched"
  /\ o \notin Unhandled
  /\ Approved(o)
  /\ work' = [work EXCEPT ![o] = "handling"]
  /\ ran' = ran \union {o}
  /\ UNCHANGED <<runtime, state, result, queue, running, request, evidence,
                 parent, timers, recoveries, late, stranded, idle>>

\* enforceApproval: the request is stored before the transition is tried.
RequestApproval(o) ==
  /\ work[o] = "dispatched"
  /\ o \in Protected
  /\ ~Presented(o) /\ "REQUIRES_APPROVAL" \in Decisions[o]
  /\ request' = [request EXCEPT ![o] = "PENDING"]
  /\ IF state[o] = "RUNNING"
     THEN /\ state' = [state EXCEPT ![o] = "WAITING_FOR_APPROVAL"]
          /\ work' = [work EXCEPT ![o] = "asked"]
          /\ UNCHANGED <<result, queue, running, timers, idle>>
     ELSE Finish(o, "FAILED", "none")
  /\ UNCHANGED <<runtime, evidence, parent, recoveries, histVars>>

\* invokeCommand returned { partial, WAITING_FOR_APPROVAL }.
RequestReturns(o) ==
  /\ work[o] = "asked"
  /\ IF state[o] = "WAITING_FOR_APPROVAL"
     THEN /\ timers' = timers \ {o}
          /\ Release(o, state, [work EXCEPT ![o] = "none"])
          /\ UNCHANGED result
     ELSE Succeed(o, TRUE)
  /\ UNCHANGED <<runtime, request, evidence, parent, recoveries, histVars>>

HandlerReturns(o) ==
  /\ work[o] = "handling"
  /\ \/ \E partial \in BOOLEAN : Succeed(o, partial)
     \/ Finish(o, "FAILED", "none")
  /\ UNCHANGED <<runtime, request, evidence, parent, recoveries, histVars>>

\* Mutant of OperationTimesOut: the race has no timer.
OperationNeverTimesOut(o) ==
  /\ work[o] = "handling" /\ FALSE
  /\ UNCHANGED vars

\* The timer of executeQueuedOperation wins the race; the handler runs on.
OperationTimesOut(o) ==
  /\ work[o] = "handling" /\ o \in running /\ Quiet
  /\ Finish(o, "TIMED_OUT", "adrift")
  /\ UNCHANGED <<runtime, request, evidence, parent, recoveries, histVars>>

AdriftEnds(o) ==
  /\ work[o] = "adrift"
  /\ work' = [work EXCEPT ![o] = "none"]
  /\ UNCHANGED <<runtime, state, result, queue, running, request, evidence,
                 parent, timers, recoveries, histVars, idle>>

\* executeQueuedOperation rejected: nothing catches the promise of finally.
StartRejected(o) ==
  /\ work[o] = "refused"
  /\ Release(o, state, [work EXCEPT ![o] = "none"])
  /\ UNCHANGED <<runtime, result, request, evidence, parent, timers,
                 recoveries, histVars>>

-----------------------------------------------------------------------------
(* Calls about operations that exist *)

\* Mutant of Cancelled: the children are left running.
CancelledAlone(roots) == {o \in roots : state[o] \in InFlight}

\* cancelOperation of each root: the least set with the roots in flight and, in
\* flight themselves, the children of its members.  An operation that has ended
\* is left alone, and its children with it.
Cancelled(roots) ==
  LET Flying == {o \in Operations : state[o] \in InFlight}
      Closed(S) == /\ roots \intersect Flying \subseteq S
                   /\ \A o \in Flying : parent[o] \in S => o \in S
  IN {o \in Flying : \A S \in SUBSET Flying : Closed(S) => o \in S}

CancelAll(roots) ==
  /\ state' = [o \in Operations |->
                 IF o \in Cancelled(roots) THEN "CANCELLED" ELSE state[o]]
  /\ timers' = timers \ Cancelled(roots)

CancelOperation(o) ==
  /\ "cancel" \in Commands
  /\ state[o] \in InFlight
  /\ CancelAll({o})
  /\ queue' = queue \ Cancelled({o})
  /\ UNCHANGED <<runtime, result, running, work, request, evidence, parent,
                 recoveries, histVars, idle>>

PauseOperation(o) ==
  /\ "pause" \in Commands
  /\ state[o] = "RUNNING"
  /\ state' = [state EXCEPT ![o] = "PAUSED"]
  /\ UNCHANGED <<runtime, result, queue, running, work, request, evidence,
                 parent, timers, recoveries, histVars, idle>>

ResumeOperation(o) ==
  /\ "pause" \in Commands
  /\ state[o] = "PAUSED"
  /\ state' = [state EXCEPT ![o] = "RUNNING"]
  /\ UNCHANGED <<runtime, result, queue, running, work, request, evidence,
                 parent, timers, recoveries, histVars, idle>>

\* waitForOperation
WaitForOperation(o) ==
  /\ "wait" \in Commands
  /\ state[o] \in InFlight
  /\ timers' = timers \union {o}
  /\ UNCHANGED <<runtime, state, result, queue, running, work, request,
                 evidence, parent, recoveries, histVars, idle>>

\* The timer of a waiting caller ends the operation itself, and leaves it in the
\* queue or its handler running.
WaitTimesOut(o) ==
  /\ o \in timers /\ Quiet
  /\ timers' = timers \ {o}
  /\ state' = IF state[o] \in InFlight /\ "TIMED_OUT" \in Transitions[state[o]]
              THEN [state EXCEPT ![o] = "TIMED_OUT"] ELSE state
  /\ UNCHANGED <<runtime, result, queue, running, work, request, evidence,
                 parent, recoveries, histVars, idle>>

\* respondToApproval, by someone who answers after the request was published:
\* an approval resumes the operation without running it again.
RespondToApproval(o) ==
  /\ "respond" \in Commands
  /\ request[o] = "PENDING" /\ Quiet
  /\ \/ /\ request' = [request EXCEPT ![o] = "APPROVED"]
        /\ state' = IF state[o] = "WAITING_FOR_APPROVAL"
                    THEN [state EXCEPT ![o] = "RUNNING"] ELSE state
        /\ UNCHANGED <<result, timers>>
     \/ /\ request' = [request EXCEPT ![o] = "REJECTED"]
        /\ result' = [result EXCEPT ![o] = "FAILED"]
        /\ state' = IF state[o] \in Terminal THEN state
                    ELSE [state EXCEPT ![o] = "FAILED"]
        /\ timers' = timers \ {o}
  /\ UNCHANGED <<runtime, queue, running, work, evidence, parent, recoveries,
                 histVars, idle>>

-----------------------------------------------------------------------------
(* The life of the runtime *)

\* initialize never looks at the queue, and neither does recover.
Enter(to) == runtime' = to /\ idle' = (to = "READY" /\ queue # {})

Initialize ==
  /\ runtime \in {"CREATED", "STOPPED"}
  /\ \E to \in {"READY", "FAILED"} : Enter(to)
  /\ UNCHANGED <<queue, running, recoveries, opVars, histVars>>

Suspend ==
  /\ "suspend" \in Commands
  /\ runtime = "READY"
  /\ runtime' = "SUSPENDED"
  /\ UNCHANGED <<queue, running, recoveries, opVars, histVars, idle>>

Resume ==
  /\ "suspend" \in Commands
  /\ runtime \in {"READY", "SUSPENDED"}
  /\ runtime' = "READY"
  /\ ProcessQueue("READY", queue, running, state, work)
  /\ UNCHANGED <<result, request, evidence, parent, timers, recoveries,
                 histVars>>

\* Counted up to the first attempt that is refused for their number.
OneMore == IF recoveries > MaxRecoveries THEN recoveries ELSE recoveries + 1

\* The recovery itself: operations in flight are marked, their work and their
\* places in the queue stay.
Recovered ==
  /\ state' = [o \in Operations |->
                 IF state[o] \in InFlight THEN "FAILED" ELSE state[o]]
  /\ \E expired \in SUBSET {o \in Operations : request[o] = "PENDING"} :
       request' = [o \in Operations |->
                     IF o \in expired THEN "EXPIRED" ELSE request[o]]

\* recover of a live runtime whose store is empty.  The attempt is counted
\* before anything is checked: the call may then throw where the runtime's table
\* does not allow it, fail for the number of attempts, fail to load, or recover.
Recover ==
  /\ "recover" \in Commands
  /\ recoveries' = OneMore
  /\ \/ /\ recoveries < MaxRecoveries
        /\ runtime \in {"CREATED", "READY", "FAILED"}
        /\ \E to \in {"READY", "FAILED"} : Enter(to)
        /\ Recovered
     \/ /\ recoveries < MaxRecoveries
        /\ runtime \in {"CREATED", "READY", "FAILED"}
        /\ Enter("FAILED")
        /\ UNCHANGED <<state, request>>
     \/ /\ recoveries < MaxRecoveries
        /\ runtime \in {"SUSPENDED", "STOPPED"}
        /\ UNCHANGED <<runtime, state, request, idle>>
     \/ /\ recoveries >= MaxRecoveries
        /\ runtime' = IF runtime = "STOPPED" THEN runtime ELSE "FAILED"
        /\ UNCHANGED <<state, request, idle>>
  /\ UNCHANGED <<queue, running, result, work, evidence, parent, timers,
                 histVars>>

\* Mutant of Shutdown: the queue is dropped and nothing is cancelled.
ShutdownDropsQueue ==
  /\ "shutdown" \in Commands
  /\ runtime \in {"READY", "SUSPENDED", "FAILED"}
  /\ runtime' = "STOPPED"
  /\ queue' = {}
  /\ UNCHANGED <<running, recoveries, opVars, histVars, idle>>

Shutdown ==
  /\ "shutdown" \in Commands
  /\ runtime \in {"READY", "SUSPENDED", "FAILED"}
  /\ runtime' = "STOPPED"
  /\ CancelAll(queue)
  /\ queue' = {}
  /\ UNCHANGED <<running, result, work, request, evidence, parent, recoveries,
                 histVars, idle>>

-----------------------------------------------------------------------------
Create(o) ==
  Submit(o) \/ Retry(o) \/ ExecuteCommand(o) \/ LifecycleCallRefused(o)

Work(o) ==
  \/ NothingToCall(o) \/ CommandRefused(o) \/ CallHandler(o)
  \/ RequestApproval(o) \/ RequestReturns(o) \/ HandlerReturns(o)
  \/ OperationTimesOut(o) \/ AdriftEnds(o) \/ StartRejected(o)

Call(o) ==
  \/ CancelOperation(o) \/ PauseOperation(o) \/ ResumeOperation(o)
  \/ WaitForOperation(o) \/ WaitTimesOut(o) \/ RespondToApproval(o)

Next ==
  \/ \E o \in Operations : Create(o) \/ Work(o) \/ Call(o)
  \/ Initialize \/ Suspend \/ Resume \/ Recover \/ Shutdown

Spec == Init /\ [][Next]_vars

\* Microtasks are always run, and a timer that is armed fires; nothing is
\* assumed of a handler or of the host.
FairSpec ==
  /\ Spec
  /\ \A o \in Operations :
       /\ WF_vars(\/ NothingToCall(o) \/ CommandRefused(o)
                  \/ CallHandler(o) \/ RequestApproval(o))
       /\ WF_vars(RequestReturns(o))
       /\ WF_vars(StartRejected(o))
       /\ WF_vars(OperationTimesOut(o))

-----------------------------------------------------------------------------
(* Properties *)

TypeOK ==
  /\ runtime \in RuntimeStates
  /\ state \in [Operations -> Lifecycle!States \union {"NONE"}]
  /\ result \in [Operations -> Terminal \union {"NONE"}]
  /\ work \in [Operations -> Works]
  /\ request \in [Operations -> Requests]
  /\ evidence \in [Operations -> Operations \union {0}]
  /\ parent \in [Operations -> Operations \union {0}]
  /\ queue \subseteq Operations
  /\ running \subseteq Operations
  /\ timers \subseteq Operations
  /\ ran \subseteq Operations
  /\ late \subseteq Operations
  /\ stranded \subseteq Operations
  /\ recoveries \in 0..(MaxRecoveries + 1)
  /\ idle \in BOOLEAN

\* The runtime's part in an operation: something will still move it.
Held(o) ==
  \/ o \in queue
  \/ work[o] \in {"dispatched", "asked", "handling"}
  \/ request[o] \in {"PENDING", "APPROVED"}

\* Whatever is cancelled, paused, timed out, recovered or shut down at whatever
\* moment, an operation that has not ended is in the queue, is being worked on,
\* or has an approval asked for or given; only a call that threw half-way leaves
\* one behind.
NothingIsForgotten ==
  \A o \in Operations : state[o] \in InFlight => Held(o) \/ o \in stranded

\* A slot is held by work that will give it back, and there are never more than
\* maximumConcurrentOperations.
SlotsAreHeldByWork ==
  /\ Cardinality(running) <= MaxConcurrent
  /\ \A o \in running : work[o] \in {"dispatched", "asked", "handling", "refused"}

\* While the runtime serves and operations wait in the queue every slot is
\* taken: each way of ending, cancelling or rejecting work looks at the queue.
\* initialize and recover do not, and leave it until the next call that does.
NoIdleSlot ==
  runtime = "READY" /\ queue # {} /\ ~idle
    => Cardinality(running) = MaxConcurrent

\* An operation succeeds only when its handler was called, and when it is
\* protected only with a request that was approved or under a policy that waives
\* approvals: an answered request, a pause or a late result alone make no success.
\* Only what dispatchOperation has nothing to call for succeeds without being run.
SuccessIsEarned ==
  \A o \in Operations :
    state[o] \in {"SUCCEEDED", "PARTIALLY_SUCCEEDED"}
      => o \in Unhandled \/ (o \in ran /\ Approved(o))

\* cancelOperation of a parent leaves no child in flight, unless the child was
\* created when the parent had already ended.
CancellationReachesChildren ==
  \A o \in Operations \ late :
    parent[o] # 0 /\ state[parent[o]] = "CANCELLED" => state[o] \notin InFlight

\* The runtime keeps the promise of OperationLifecycle in every step, those of
\* recovery, late results and late answers included.
KeepsLifecycle == Lifecycle!Spec

\* An operation that waits for a slot leaves the queue, in the order of
\* priorities and whatever the handlers before it do, while the runtime serves.
QueuedOperationsLeave ==
  \A o \in Operations :
    (o \in queue /\ running # {}) ~> (o \notin queue \/ runtime # "READY")

\* "never reports cancellation as success" (LAYER_3_RUNTIME_CONTRACT.md:222).
CancellationIsNotSuccess ==
  \A o \in Operations :
    state[o] = "CANCELLED" => result[o] \notin {"SUCCEEDED", "PARTIALLY_SUCCEEDED"}
=============================================================================
