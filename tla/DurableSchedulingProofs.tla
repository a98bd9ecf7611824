---------------------- MODULE DurableSchedulingProofs ----------------------
(***************************************************************************)
(* What the scheduler of DurableWorkflow guarantees, for every workflow,   *)
(* every number of callers, every bound and every host: no command is      *)
(* assumed unused.                                                         *)
(*                                                                         *)
(* pauseWorkflow, cancelWorkflow, skipStep, retryStep, retryWorkflow and a *)
(* restart change states and runningSteps under calls in flight, and the   *)
(* guarantees do not extend to the steps they overrule.  The proofs first  *)
(* say how one step of the specification may change one step of the        *)
(* workflow (Move); every invariant follows from that.                     *)
(***************************************************************************)
EXTENDS DurableWorkflowProofs, FiniteSetTheorems

-----------------------------------------------------------------------------
(* Which step a call executes *)

\* The list a tick walks: a copy of the queue, or what is left of it.
List(c) == IF call[c].pc = "scheduled" THEN queued ELSE call[c].rest

\* The pool admits the step.
Admitted(s) == ~(Cardinality(running) >= MaxConcurrent) /\ SafeToRunConcurrently(s)

\* A tick executes a step of its list that is not over and that the pool admits,
\* passes over one, or finalizes.  What is left of the list comes from it.
LEMMA TickPicks ==
  ASSUME EngineInv, NEW c \in Callers, TickResumes(c)
  PROVE  \E k \in Calls :
           /\ k.rest \subseteq List(c) /\ k.mode \in {"start", "tick"}
           /\ \/ \E s \in List(c) :
                   /\ state[s] \notin TerminalStep /\ Admitted(s)
                   /\ ExecuteStep(c, k, s, FALSE)
              \/ ReturnAtOnce(c, k)
              \/ IsCall(k) /\ k.pc # "run" /\ Finalizes(c, k)
<1> DEFINE R == List(c)
           s == First(Startable(R))
           k == [call[c] EXCEPT !.rest = {t \in R : Before(s, t)}]
<1>1. R \in SUBSET Steps /\ call[c] \in Calls /\ call[c].mode \in {"start", "tick"}
  BY DEF EngineInv, EngineTypeOK, Calls, List, TickResumes
<1>2. CASE Startable(R) = {}
  <2> DEFINE j == IF call[c].mode = "start"
                  THEN [call[c] EXCEPT !.pc = "drain", !.rest = {}] ELSE Idle
  <2>1. Finalizes(c, j)
    BY <1>2 DEF TickResumes, Finalizes, List
  <2>2. IsCall(j) /\ j.pc # "run"
    BY <1>1, IdleIsCall DEF IsCall, Calls
  <2>3. j \in Calls
    BY <2>2 DEF IsCall
  <2>4. j.rest = {} /\ j.mode \in {"start", "tick"}
    BY <1>1 DEF Idle, Calls
  <2> HIDE DEF j
  <2>5. QED
    BY <2>1, <2>2, <2>3, <2>4
<1>3. CASE Startable(R) # {}
  <2>1. s \in Startable(R)
    <3>1. Startable(R) \in SUBSET Steps
      BY <1>1 DEF Startable
    <3>2. QED
      BY <1>3, <3>1, FirstIsMember
  <2>2. s \in R /\ Admitted(s)
    BY <2>1 DEF Startable, Admitted
  <2>3. k \in Calls /\ k.rest \subseteq R /\ k.mode = call[c].mode
    <3> HIDE DEF R, s
    <3>1. QED
      BY <1>1 DEF Calls
  <2>4. (state[s] \notin TerminalStep /\ ExecuteStep(c, k, s, FALSE)) \/ ReturnAtOnce(c, k)
    BY <1>3 DEF TickResumes, List
  <2> HIDE DEF k, s
  <2>5. QED
    BY <1>1, <2>2, <2>3, <2>4
<1>4. QED
  BY <1>2, <1>3

\* retryWorkflow executes or passes over a step of its list, or starts the
\* workflow once the list is empty.
LEMMA RetryNextPicks ==
  ASSUME NEW c \in Callers, NEW k \in Calls, NEW L \in SUBSET Steps,
         RetryNext(c, k, L)
  PROVE  \/ \E j \in Calls :
              /\ j.mode = k.mode /\ j.rest \subseteq L
              /\ \/ \E s \in L : ExecuteStep(c, j, s, TRUE)
                 \/ ReturnAtOnce(c, j)
         \/ BeginStart(c, k)
<1> DEFINE s == CHOOSE x \in L : \A y \in L : x <= y
           rest == [k EXCEPT !.rest = L \ {s}]
<1>1. CASE L = {}
  BY <1>1 DEF RetryNext
<1>2. CASE L # {}
  <2>1. s \in L
    <3>1. \E x \in L : \A y \in L : x <= y
      BY <1>2, LeastNatural, StepsAssumption
    <3>2. QED
      BY <3>1
  <2>2. rest \in Calls /\ rest.mode = k.mode /\ rest.rest \subseteq L
    BY DEF Calls
  <2>3. ExecuteStep(c, rest, s, TRUE) \/ ReturnAtOnce(c, rest)
    BY <1>2 DEF RetryNext
  <2> HIDE DEF rest, s
  <2>4. QED
    BY <2>1, <2>2, <2>3
<1>3. QED
  BY <1>1, <1>2

\* The step an answer is for.
LEMMA FailureIs ==
  ASSUME EngineInv, NEW c \in Callers, StepFails(c)
  PROVE  /\ call[c].pc = "run" /\ call[c].cur \in Steps /\ call[c] \in Calls
         /\ \E final \in BOOLEAN :
              \/ MayRetry(c, call[c].cur, final) /\ RetryAtOnce(c, call[c].cur)
              \/ MayRepair(call[c].cur) /\ StartRepair(c, call[c].cur, final)
              \/ StepGivesUp(c, call[c].cur, final)
  BY DEF StepFails, EngineInv, EngineTypeOK, RunHasStep

-----------------------------------------------------------------------------
(* What the moves rest on *)

Success == {"SUCCEEDED", "PARTIALLY_SUCCEEDED"}
Open == StepStates \ (TerminalStep \union {"RUNNING", "ABSENT"})

\* A call has the step in its hands, or will.
InFlight(s) ==
  \/ s \in queued
  \/ \E c \in Callers : s \in call[c].rest \/ Executes(c, s)

\* A call that retries walks over steps its host has overruled with it.
Led(k) ==
  k.mode \in {"retryStep", "retryWorkflow"} =>
    /\ k.rest \subseteq overruled
    /\ k.pc = "run" => k.cur \in overruled

RetriesAreOverruled == \A c \in Callers : Led(call[c])

\* What executes is in the pool.
ExecutedIsPooled ==
  \A c \in Callers, s \in Steps : Executes(c, s) /\ Free(s) => s \in running

PoolIsBounded ==
  /\ IsFiniteSet(running)
  /\ Cardinality({s \in running : Free(s)}) <= MaxConcurrent

PoolInv == ExecutedIsPooled /\ PoolIsBounded /\ ConcurrencyIsSafe

\* Only input steps have decisions, and a repair that was not begun has no step.
Asked(st, dec) ==
  \A s \in Steps : dec[s] > 0 => s \in Interactive /\ st[s] # "ABSENT"

Reserved(st, rep) ==
  \A s \in DOMAIN RepairStep, n \in 1..MaxRepairs :
    n > rep[s] => st[RepairStep[s][n]] = "ABSENT"

PresentInv ==
  /\ \A s \in Steps : InFlight(s) => state[s] # "ABSENT"
  /\ \A c \in Callers, s \in Steps : Executes(c, s) => s \notin Interactive
  /\ Asked(state, decisions) /\ Reserved(state, repairs)
  /\ disk # NoSnapshot =>
       Asked(disk.state, disk.decisions) /\ Reserved(disk.state, disk.repairs)

BaseInv == RetriesAreOverruled /\ PoolInv /\ PresentInv

-----------------------------------------------------------------------------
(* How one step of the specification, other than a restart, may change the *)
(* pool and each step of the workflow                                      *)

PoolMove ==
  \/ \E c \in Callers, k \in Calls :
       /\ SetCall(c, k) /\ Led(k)'
       /\ \/ /\ call[c].pc # "run" /\ k.pc # "run"
             /\ running' = running
          \/ /\ call[c].pc # "run" /\ k.pc = "run" /\ k.cur \in Steps
             /\ running' = running \union {k.cur}
             /\ Admitted(k.cur) \/ k.cur \in overruled'
          \/ /\ call[c].pc = "run" /\ k.pc # "run"
             /\ running' = running \ {call[c].cur}
          \/ /\ call[c].pc = "run" /\ k.pc = "run" /\ k.cur = call[c].cur
             /\ running' = running \union {k.cur}
  \/ /\ call' = call
     /\ running' \subseteq running
     /\ running \ running' \subseteq overruled'

Counts(s) == attempt'[s] = attempt[s] /\ repairs'[s] = repairs[s]

\* The answer call c was waiting for.
Ends(c, s) ==
  \/ /\ state'[s] = "RUNNING"
     /\ attempt[s] < MaxAttempts /\ attempt'[s] = attempt[s] + 1
     /\ repairs'[s] = repairs[s]
  \/ /\ call'[c].pc # "run" /\ \A d \in Callers \ {c} : call'[d] = call[d]
     /\ \/ state'[s] \in Success \union {"FAILED"} /\ Counts(s)
        \/ state'[s] = "BLOCKED" /\ attempt[s] < MaxAttempts /\ Counts(s)
        \/ /\ state'[s] = "REPAIRING"
           /\ attempt'[s] = attempt[s] /\ repairs'[s] = repairs[s] + 1

Created(s) ==
  /\ state[s] = "ABSENT" /\ state'[s] = "CREATED" /\ Counts(s)
  /\ \E t \in DOMAIN RepairStep :
       /\ repairs[t] < MaxRepairs
       /\ s = RepairStep[t][repairs[t] + 1] /\ repairs'[t] = repairs[t] + 1

\* applyFailurePolicy of a step that executed.
Struck(s) ==
  /\ state[s] # "ABSENT"
  /\ state'[s] \in {"SKIPPED", "BLOCKED_BY_DEPENDENCY"} /\ Counts(s)
  /\ \E c \in Callers, d \in Deps :
       Executes(c, d.source) /\ d.target = s /\ ~SparesTarget(d)

Change(s) ==
  \/ state'[s] = state[s] /\ Counts(s)
  \/ ~Free(s)' /\ (state[s] = "ABSENT" <=> state'[s] = "ABSENT")
  \/ /\ state[s] \in Open /\ state'[s] \in Open \union {"BLOCKED_BY_DEPENDENCY"}
     /\ Counts(s)
  \/ /\ state[s] \in Open /\ Admitted(s) /\ state'[s] = "RUNNING"
     /\ attempt'[s] = attempt[s] + 1 /\ repairs'[s] = repairs[s]
  \/ Created(s)
  \/ \E c \in Callers : Executes(c, s) /\ Ends(c, s)
  \/ Struck(s)
  \/ decisions[s] > 0 /\ state'[s] = "SUCCEEDED" /\ Counts(s)

FlightMove ==
  /\ \A s \in Steps : InFlight(s)' =>
       \/ InFlight(s) \/ CanQueueStep(s, state, output)
       \/ (s \in overruled' /\ state[s] # "ABSENT")
  /\ \A c \in Callers, s \in Steps : Executes(c, s)' =>
       Executes(c, s) \/ (state'[s] = "RUNNING" /\ s \notin Interactive)
  /\ \A s \in Steps : decisions'[s] > 0 =>
       \/ decisions[s] > 0
       \/ /\ s \in Interactive /\ state[s] # "ABSENT"
          /\ \/ InFlight(s)
             \/ s \in overruled'

\* What is saved is what is.
DiskMove ==
  \/ disk' = disk
  \/ /\ disk'.state = state' /\ disk'.attempt = attempt'
     /\ disk'.repairs = repairs' /\ disk'.output = output'
     /\ disk'.decisions = decisions' /\ disk'.wf = wf'

DataMove ==
  /\ \A s \in Steps : repairs[s] <= repairs'[s]
  /\ output \subseteq output' /\ bound \subseteq bound'
  /\ \A s \in output' : s \in output \/ state'[s] \in Success
  /\ wf' = "COMPLETED" =>
       wf = "COMPLETED" \/ (wf' = Finalized /\ state' = state)
  /\ DiskMove

Move ==
  /\ overruled \subseteq overruled'
  /\ PoolMove
  /\ \A s \in Steps : Change(s)
  /\ FlightMove
  /\ DataMove

\* What a list holds is in flight, or overruled by the command that brings it.
Walked(S) ==
  \A s \in S : InFlight(s) \/ (s \in overruled' /\ state[s] # "ABSENT")

LEMMA CallMoves ==
  ASSUME call \in [Callers -> Calls], NEW c \in Callers, NEW k \in Calls,
         SetCall(c, k)
  PROVE  /\ call'[c] = k /\ \A d \in Callers \ {c} : call'[d] = call[d]
         /\ \A d \in Callers, s \in Steps : Executes(d, s)' =>
              (d # c /\ Executes(d, s)) \/ (d = c /\ k.pc = "run" /\ s = k.cur)
         /\ \A s \in Steps : InFlight(s)' =>
              \/ InFlight(s) \/ s \in queued' \/ s \in k.rest
              \/ (k.pc = "run" /\ s = k.cur)
<1>1. call'[c] = k /\ \A d \in Callers \ {c} : call'[d] = call[d]
  BY DEF SetCall
<1>2. \A d \in Callers, s \in Steps : Executes(d, s)' =>
        (d # c /\ Executes(d, s)) \/ (d = c /\ k.pc = "run" /\ s = k.cur)
  BY <1>1 DEF Executes
<1>3. ASSUME NEW s \in Steps, InFlight(s)'
      PROVE  \/ InFlight(s) \/ s \in queued' \/ s \in k.rest
             \/ (k.pc = "run" /\ s = k.cur)
  <2>1. CASE s \in queued'
    BY <2>1
  <2>2. ASSUME NEW d \in Callers, s \in call'[d].rest \/ Executes(d, s)'
        PROVE  \/ InFlight(s) \/ s \in k.rest \/ (k.pc = "run" /\ s = k.cur)
    BY <1>1, <1>2, <2>2 DEF InFlight
  <2>3. QED
    BY <1>3, <2>1, <2>2 DEF InFlight
<1>4. QED
  BY <1>1, <1>2, <1>3

\* A call that goes on without executing a step, and changes none.
LEMMA QuietMove ==
  ASSUME EngineInv, NEW c \in Callers, NEW k \in Calls, SetCall(c, k),
         call[c].pc # "run", k.pc # "run", Led(k)', Walked(k.rest),
         UNCHANGED <<stepVars, schedVars, disk>>, overruled \subseteq overruled',
         wf' = "COMPLETED" => wf = "COMPLETED" \/ wf' = Finalized
  PROVE  Move
<1> USE DEF EngineInv, EngineTypeOK, stepVars, schedVars
<1>1. PoolMove
  BY DEF PoolMove
<1>2. \A s \in Steps : Change(s)
  BY DEF Change, Counts
<1>3. FlightMove
  BY CallMoves DEF FlightMove, Walked, InFlight
<1>4. DataMove
  BY BoundsAssumption DEF DataMove, DiskMove
<1>5. QED
  BY <1>1, <1>2, <1>3, <1>4 DEF Move

\* The ready steps are queued, or blocked, and no other step changes.
LEMMA Schedules ==
  ASSUME EngineInv, NEW w, ScheduleReadySteps(w)
  PROVE  /\ \A s \in Steps :
              \/ state'[s] = state[s]
              \/ state[s] \in Open /\ state'[s] \in Open \union {"BLOCKED_BY_DEPENDENCY"}
         /\ \A s \in queued' : s \in queued \/ CanQueueStep(s, state, output)
<1>1. \A s \in ReadySteps(w) : s \in Steps /\ CanQueueStep(s, state, output)
  BY DEF ReadySteps, FirstOf
<1>2. \A s \in ReadySteps(w) : state[s] \in Open
  BY <1>1 DEF CanQueueStep, Open, StepStates, TerminalStep
<1>3. /\ \A s \in Steps : \/ state'[s] = state[s]
                          \/ /\ s \in ReadySteps(w)
                             /\ state'[s] \in {"QUEUED", "BLOCKED_BY_DEPENDENCY"}
      /\ queued' \subseteq queued \union ReadySteps(w)
  BY DEF ScheduleReadySteps, EngineInv, EngineTypeOK
<1>4. QED
  BY <1>1, <1>2, <1>3 DEF Open, StepStates, TerminalStep

LEMMA ScheduleMove ==
  ASSUME EngineInv, NEW c \in Callers, NEW k \in Calls, SetCall(c, k), NEW w,
         call[c].pc # "run", k.pc # "run", Led(k)', Walked(k.rest),
         ScheduleReadySteps(w), wf' # "COMPLETED" \/ wf' = wf,
         UNCHANGED <<attempt, failures, repairs, bound, output, decisions, running,
                     disk>>,
         overruled \subseteq overruled'
  PROVE  Move
<1> USE DEF EngineInv, EngineTypeOK
<1>1. PoolMove
  BY DEF PoolMove
<1>2. \A s \in Steps : Change(s)
  BY Schedules DEF Change, Counts
<1>3. FlightMove
  BY CallMoves, Schedules DEF FlightMove, Walked, InFlight
<1>4. DataMove
  BY BoundsAssumption DEF DataMove, DiskMove
<1>5. QED
  BY <1>1, <1>2, <1>3, <1>4 DEF Move

\* executeStep, for a step that the pool admits or that the host has overruled.
LEMMA ExecuteMove ==
  ASSUME EngineInv, InFlightIsOwned, BaseInv, NEW c \in Callers, call[c].pc # "run",
         NEW k \in Calls, NEW s \in Steps, NEW cleared, ExecuteStep(c, k, s, cleared),
         \/ InFlight(s) /\ state[s] \notin TerminalStep /\ Admitted(s)
         \/ s \in overruled' /\ state[s] # "ABSENT",
         k.mode \in {"retryStep", "retryWorkflow"} =>
           k.rest \subseteq overruled' /\ s \in overruled',
         Walked(k.rest), UNCHANGED disk, overruled \subseteq overruled', wf' # "COMPLETED" \/ wf' = wf
  PROVE  Move
<1> USE DEF EngineInv, EngineTypeOK
<1>1. state[s] # "ABSENT" /\ (InFlight(s) \/ s \in overruled')
  BY DEF BaseInv, PresentInv
<1>2. Free(s)' => Admitted(s) /\ state[s] \in Open
  <2>1. SUFFICES ASSUME Free(s)'
                 PROVE  Admitted(s) /\ state[s] \in Open
    OBVIOUS
  <2>2. Free(s) /\ Admitted(s) /\ state[s] \notin TerminalStep
    BY <2>1 DEF Free
  <2>3. s \notin running
    BY <2>2 DEF Free, Exclusive, Admitted, SafeToRunConcurrently
  <2>4. state[s] # "RUNNING"
    BY <2>2, <2>3 DEF InFlightIsOwned, BaseInv, PoolInv, ExecutedIsPooled
  <2>5. QED
    BY <1>1, <2>2, <2>4 DEF Open
<1>3. UNCHANGED <<repairs, output>> /\ bound \subseteq bound'
  BY DEF ExecuteStep, LoseCapability, WaitForApproval, RequestInput, Run
<1>4. DataMove
  BY <1>3, BoundsAssumption DEF DataMove, DiskMove
<1>5. CASE LoseCapability(c, k, s) \/ WaitForApproval(c, k, s) \/ RequestInput(c, k, s)
  <2> DEFINE j == Returned(k)
  <2>1. j \in Calls /\ j.pc # "run" /\ j.rest \subseteq k.rest
        /\ (j.mode = k.mode \/ j.mode = "tick")
    BY ReturnedIsCall DEF IsCall, Returned, Calls, Idle
  <2>2. SetCall(c, j) /\ UNCHANGED <<attempt, running, queued>>
    BY <1>5 DEF LoseCapability, WaitForApproval, RequestInput, schedVars
  <2>3. \E x \in {"BLOCKED", "WAITING_FOR_APPROVAL", "WAITING_FOR_INPUT"} :
          state' = [state EXCEPT ![s] = x]
    BY <1>5 DEF LoseCapability, WaitForApproval, RequestInput
  <2>4. \A t \in Steps : decisions'[t] > 0 =>
          decisions[t] > 0 \/ (t = s /\ s \in Interactive)
    BY <1>5 DEF LoseCapability, WaitForApproval, RequestInput
  <2> HIDE DEF j
  <2>5. PoolMove
    BY <2>1, <2>2 DEF PoolMove, Led
  <2>6. \A t \in Steps : Change(t)
    BY <1>1, <1>2, <1>3, <2>2, <2>3
    DEF Change, Counts, Open, StepStates, TerminalStep
  <2>7. FlightMove
    BY <1>1, <2>1, <2>2, <2>4, CallMoves DEF FlightMove, Walked, InFlight
  <2>8. QED
    BY <1>4, <2>5, <2>6, <2>7 DEF Move
<1>6. CASE Run(c, k, s)
  <2> DEFINE j == [k EXCEPT !.pc = "run", !.cur = s]
  <2>1. j \in Calls /\ j.pc = "run" /\ j.cur = s /\ j.rest = k.rest /\ j.mode = k.mode
    BY DEF Calls
  <2>2. /\ SetCall(c, j) /\ running' = running \union {s} /\ queued' = queued \ {s}
        /\ state' = [state EXCEPT ![s] = "RUNNING"] /\ s \notin Interactive
        /\ attempt' = [attempt EXCEPT ![s] = @ + 1] /\ decisions' = decisions
    BY <1>6 DEF Run
  <2> HIDE DEF j
  <2>3. PoolMove
    BY <2>1, <2>2 DEF PoolMove, Led
  <2>4. \A t \in Steps : Change(t)
    BY <1>1, <1>2, <1>3, <2>2 DEF Change, Counts
  <2>5. FlightMove
    BY <1>1, <2>1, <2>2, CallMoves DEF FlightMove, Walked, InFlight
  <2>6. QED
    BY <1>4, <2>3, <2>4, <2>5 DEF Move
<1>7. QED
  BY <1>5, <1>6 DEF ExecuteStep

-----------------------------------------------------------------------------
(* The runtime's answers *)

LEMMA Answering ==
  ASSUME EngineInv, BaseInv, NEW c \in Callers, call[c].pc = "run"
  PROVE  /\ call[c] \in Calls /\ call[c].cur \in Steps /\ Executes(c, call[c].cur)
         /\ InFlight(call[c].cur) /\ state[call[c].cur] # "ABSENT"
         /\ call[c].mode \in {"retryStep", "retryWorkflow"} =>
              call[c].rest \subseteq overruled /\ call[c].cur \in overruled
<1>1. call[c] \in Calls /\ call[c].cur \in Steps /\ Executes(c, call[c].cur)
  BY DEF EngineInv, EngineTypeOK, RunHasStep, Executes
<1>2. QED
  BY <1>1 DEF BaseInv, PresentInv, RetriesAreOverruled, Led, InFlight

\* An answer takes the step from the pool and lets the call go on.
LEMMA AnswerLeaves ==
  ASSUME EngineInv, BaseInv, NEW c \in Callers, call[c].pc = "run",
         SetCall(c, Returned(call[c])), running' = running \ {call[c].cur},
         UNCHANGED <<queued, decisions, overruled>>
  PROVE  /\ PoolMove /\ FlightMove
         /\ call'[c].pc # "run" /\ \A d \in Callers \ {c} : call'[d] = call[d]
<1> DEFINE j == Returned(call[c])
<1>1. j \in Calls /\ j.pc # "run" /\ j.rest \subseteq call[c].rest
      /\ (j.mode = call[c].mode \/ j.mode = "tick")
  BY Answering, ReturnedIsCall DEF IsCall, Returned, Calls, Idle
<1>2. SetCall(c, j) /\ call \in [Callers -> Calls]
  BY DEF EngineInv, EngineTypeOK
<1> HIDE DEF j
<1>3. PoolMove
  BY <1>1, <1>2, Answering DEF PoolMove, Led
<1>4. FlightMove
  BY <1>1, <1>2, CallMoves DEF FlightMove, InFlight
<1>5. QED
  BY <1>1, <1>2, <1>3, <1>4, CallMoves

LEMMA SuccessMove ==
  ASSUME EngineInv, BaseInv, NEW c \in Callers, StepSucceeds(c)
  PROVE  Move
<1> USE DEF EngineInv, EngineTypeOK
<1> DEFINE s == call[c].cur
<1>1. PICK result \in Success :
        LET st == [state EXCEPT ![s] = result]
            out == output \union {s}
            targets == {d.target : d \in Dependents(s)}
        IN  /\ state' = [t \in Steps |->
                           IF t \in targets /\ CanQueueStep(t, st, out)
                           THEN "READY" ELSE st[t]]
            /\ output' = out
  BY DEF StepSucceeds, Success
<1>2. /\ call[c].pc = "run" /\ running' = running \ {s}
      /\ SetCall(c, Returned(call[c]))
      /\ UNCHANGED <<wf, attempt, repairs, bound, decisions, queued, disk, overruled>>
  BY DEF StepSucceeds, hostVars
<1>3. s \in Steps /\ Executes(c, s)
  BY <1>2, Answering
<1>4. PoolMove /\ FlightMove /\ call'[c].pc # "run"
      /\ \A d \in Callers \ {c} : call'[d] = call[d]
  BY <1>2, AnswerLeaves
<1> HIDE DEF s
<1>5. /\ state'[s] = result
      /\ \A t \in Steps \ {s} :
           state'[t] = state[t] \/ (state[t] \in Open /\ state'[t] \in Open)
  BY <1>1, <1>3 DEF CanQueueStep, Success, Open, StepStates, TerminalStep
<1>6. \A t \in Steps : Change(t)
  BY <1>2, <1>3, <1>4, <1>5 DEF Change, Counts, Ends
<1>7. DataMove
  BY <1>1, <1>2, <1>3, <1>5, BoundsAssumption DEF DataMove, DiskMove
<1>8. QED
  BY <1>2, <1>4, <1>6, <1>7 DEF Move

LEMMA RetryAtOnceMove ==
  ASSUME EngineInv, BaseInv, NEW c \in Callers, call[c].pc = "run",
         NEW final \in BOOLEAN, MayRetry(c, call[c].cur, final),
         RetryAtOnce(c, call[c].cur), UNCHANGED hostVars
  PROVE  Move
<1> USE DEF EngineInv, EngineTypeOK
<1> DEFINE s == call[c].cur
<1>1. s \in Steps /\ Executes(c, s) /\ InFlight(s) /\ state[s] # "ABSENT"
      /\ attempt[s] < MaxAttempts /\ attempt[s] \in Nat /\ s \notin Interactive
  BY Answering DEF MayRetry, BaseInv, PresentInv
<1>2. UNCHANGED <<wf, repairs, bound, output, decisions, overruled, disk>>
  BY DEF RetryAtOnce, hostVars
<1>3. DataMove
  BY <1>2, BoundsAssumption DEF DataMove, DiskMove
<1>4. CASE s \in lost
  <2>1. /\ state' = [state EXCEPT ![s] = "BLOCKED"] /\ running' = running \ {s}
        /\ SetCall(c, Returned(call[c])) /\ UNCHANGED <<attempt, queued>>
    BY <1>4 DEF RetryAtOnce
  <2>2. PoolMove /\ FlightMove /\ call'[c].pc # "run"
        /\ \A d \in Callers \ {c} : call'[d] = call[d]
    BY <1>2, <2>1, AnswerLeaves
  <2> HIDE DEF s
  <2>3. \A t \in Steps : Change(t)
    BY <1>1, <1>2, <2>1, <2>2 DEF Change, Counts, Ends
  <2>4. QED
    BY <1>2, <1>3, <2>2, <2>3 DEF Move
<1>5. CASE s \notin lost
  <2> DEFINE j == [call[c] EXCEPT !.changed = TRUE]
  <2>1. /\ state' = [state EXCEPT ![s] = "RUNNING"] /\ running' = running \union {s}
        /\ attempt' = [attempt EXCEPT ![s] = @ + 1] /\ queued' = queued \ {s}
        /\ SetCall(c, j)
    BY <1>5 DEF RetryAtOnce
  <2>2. j \in Calls /\ j.pc = "run" /\ j.cur = s /\ j.rest = call[c].rest
        /\ j.mode = call[c].mode
    BY Answering DEF Calls
  <2> HIDE DEF j
  <2>3. PoolMove
    BY <1>2, <2>1, <2>2, Answering DEF PoolMove, Led
  <2>4. FlightMove
    BY <1>1, <1>2, <2>1, <2>2, CallMoves DEF FlightMove, InFlight
  <2> HIDE DEF s
  <2>5. \A t \in Steps : Change(t)
    BY <1>1, <1>2, <2>1 DEF Change, Counts, Ends
  <2>6. QED
    BY <1>2, <1>3, <2>3, <2>4, <2>5 DEF Move
<1>6. QED
  BY <1>4, <1>5

LEMMA StartRepairMove ==
  ASSUME EngineInv, BaseInv, NEW c \in Callers, call[c].pc = "run",
         NEW final \in BOOLEAN, MayRepair(call[c].cur),
         StartRepair(c, call[c].cur, final), UNCHANGED hostVars
  PROVE  Move
<1> USE DEF EngineInv, EngineTypeOK
<1> DEFINE s == call[c].cur
           r == RepairStep[s][repairs[s] + 1]
<1>1. s \in Steps /\ Executes(c, s) /\ state[s] # "ABSENT"
      /\ s \in DOMAIN RepairStep /\ repairs[s] < MaxRepairs /\ repairs[s] \in Nat
  BY Answering DEF MayRepair
<1>2. repairs[s] + 1 \in 1..MaxRepairs /\ repairs[s] + 1 > repairs[s]
  BY <1>1, BoundsAssumption
<1>3. r \in Steps /\ state[r] = "ABSENT"
  BY <1>1, <1>2, StepsAssumption DEF BaseInv, PresentInv, Reserved
<1>4. /\ state' = [state EXCEPT ![s] = "REPAIRING", ![r] = "CREATED"]
      /\ repairs' = [repairs EXCEPT ![s] = @ + 1] /\ running' = running \ {s}
      /\ SetCall(c, Returned(call[c]))
      /\ UNCHANGED <<wf, attempt, bound, output, decisions, queued, overruled, disk>>
  BY DEF StartRepair, hostVars
<1>5. PoolMove /\ FlightMove /\ call'[c].pc # "run"
      /\ \A d \in Callers \ {c} : call'[d] = call[d]
  BY <1>4, AnswerLeaves
<1>6. Created(r)
  BY <1>1, <1>3, <1>4 DEF Created, Counts
<1> HIDE DEF s, r
<1>7. \A t \in Steps : Change(t)
  BY <1>1, <1>3, <1>4, <1>5, <1>6 DEF Change, Counts, Ends
<1>8. DataMove
  BY <1>1, <1>4, BoundsAssumption DEF DataMove, DiskMove
<1>9. QED
  BY <1>4, <1>5, <1>7, <1>8 DEF Move

LEMMA GivesUpMove ==
  ASSUME EngineInv, BaseInv, NEW c \in Callers, call[c].pc = "run",
         NEW final \in BOOLEAN, StepGivesUp(c, call[c].cur, final),
         UNCHANGED hostVars
  PROVE  Move
<1> USE DEF EngineInv, EngineTypeOK
<1> DEFINE s == call[c].cur
           Hit(t) == \E d \in Dependents(s) : d.target = t /\ ~SparesTarget(d)
<1>1. s \in Steps /\ Executes(c, s)
  BY Answering
<1>2. /\ running' = running \ {s} /\ SetCall(c, Returned(call[c]))
      /\ UNCHANGED <<attempt, repairs, bound, output, decisions, queued, overruled,
                     disk>>
  BY DEF StepGivesUp, hostVars
<1>3. PoolMove /\ FlightMove /\ call'[c].pc # "run"
      /\ \A d \in Callers \ {c} : call'[d] = call[d]
  BY <1>2, AnswerLeaves
<1>4. wf' # "COMPLETED" \/ wf' = wf
  BY DEF StepGivesUp, ApplyFailurePolicy
<1>5. \A t \in Steps :
        \/ Hit(t) /\ state'[t] \in {"SKIPPED", "BLOCKED_BY_DEPENDENCY"}
        \/ t = s /\ state'[t] = "FAILED"
        \/ t # s /\ state'[t] = state[t]
  <2> DEFINE all == {d.target : d \in Dependents(s)}
             required == {d.target : d \in {e \in Dependents(s) : e.required}}
             skipped == IF Policy[s] = "SKIP_DEPENDENTS" THEN all ELSE {}
             blocked == IF Policy[s] \in {"FAIL_WORKFLOW", "SKIP_DEPENDENTS",
                                         "CONTINUE_INDEPENDENT"}
                        THEN {} ELSE required
  <2>1. state' = [t \in Steps |->
                    IF t \in skipped THEN "SKIPPED"
                    ELSE IF t \in blocked THEN "BLOCKED_BY_DEPENDENCY"
                    ELSE IF t = s THEN "FAILED" ELSE state[t]]
    BY DEF StepGivesUp, ApplyFailurePolicy
  <2>2. \A t \in skipped \union blocked : Hit(t)
    <3>1. \A d \in Dependents(s) : d.source = s
      BY DEF Dependents
    <3> HIDE DEF s
    <3>2. QED
      BY <3>1 DEF SparesTarget
  <2> HIDE DEF skipped, blocked, Hit
  <2>3. QED
    BY <2>1, <2>2
<1> HIDE DEF s
<1>6. \A t \in Steps : Hit(t) => state[t] # "ABSENT" /\ \E d \in Deps :
        Executes(c, d.source) /\ d.target = t /\ ~SparesTarget(d)
  BY <1>1 DEF Dependents
<1>7. \A t \in Steps : Change(t)
  <2> HIDE DEF Hit
  <2>1. QED
    BY <1>1, <1>2, <1>3, <1>5, <1>6 DEF Change, Counts, Ends, Struck
<1>8. DataMove
  BY <1>2, <1>4, BoundsAssumption DEF DataMove, DiskMove
<1>9. QED
  BY <1>2, <1>3, <1>7, <1>8 DEF Move

-----------------------------------------------------------------------------
(* What the engine does by itself, and what the host commands *)

LEMMA ReturnAtOnceMove ==
  ASSUME EngineInv, NEW c \in Callers, call[c].pc # "run", NEW k \in Calls,
         ReturnAtOnce(c, k), Walked(k.rest),
         k.mode \in {"retryStep", "retryWorkflow"} => k.rest \subseteq overruled',
         UNCHANGED disk, overruled \subseteq overruled'
  PROVE  Move
<1> DEFINE j == Returned(k)
<1>1. j \in Calls /\ j.pc # "run" /\ j.rest \subseteq k.rest
      /\ (j.mode = k.mode \/ j.mode = "tick")
  BY ReturnedIsCall DEF IsCall, Returned, Calls, Idle
<1>2. SetCall(c, j) /\ UNCHANGED <<wf, stepVars, schedVars, disk>>
  BY DEF ReturnAtOnce
<1> HIDE DEF j
<1>3. Led(j)' /\ Walked(j.rest)
  BY <1>1 DEF Led, Walked
<1>4. QED
  BY <1>1, <1>2, <1>3, QuietMove

LEMMA BeginStartMove ==
  ASSUME EngineInv, NEW c \in Callers, call[c].pc # "run", NEW k \in Calls,
         BeginStart(c, k), UNCHANGED disk, overruled \subseteq overruled'
  PROVE  Move
<1> DEFINE j == [Idle EXCEPT !.mode = "start", !.pc = "drain",
                             !.approved = k.approved]
<1>1. j \in Calls /\ j.pc # "run" /\ j.rest = {} /\ j.mode = "start"
  BY IdleIsCall DEF IsCall, Idle, Calls, Modes
<1>2. SetCall(c, j) /\ ScheduleReadySteps("RUNNING") /\ wf' = "RUNNING"
      /\ UNCHANGED <<attempt, failures, repairs, bound, output, decisions, running>>
  BY DEF BeginStart
<1> HIDE DEF j
<1>3. Led(j)' /\ Walked(j.rest)
  BY <1>1 DEF Led, Walked
<1>4. QED
  BY <1>1, <1>2, <1>3, ScheduleMove

LEMMA RetryNextMove ==
  ASSUME EngineInv, InFlightIsOwned, BaseInv, NEW c \in Callers,
         call[c].pc # "run", NEW k \in Calls, NEW L \in SUBSET Steps,
         RetryNext(c, k, L), Walked(L), L \subseteq overruled',
         \A s \in L : state[s] # "ABSENT",
         UNCHANGED disk, overruled \subseteq overruled'
  PROVE  Move
<1>1. CASE BeginStart(c, k)
  BY <1>1, BeginStartMove
<1>2. ASSUME NEW j \in Calls, j.rest \subseteq L, ReturnAtOnce(c, j)
      PROVE  Move
  BY <1>2, ReturnAtOnceMove DEF Walked
<1>3. ASSUME NEW j \in Calls, j.rest \subseteq L, NEW s \in L,
             ExecuteStep(c, j, s, TRUE)
      PROVE  Move
  <2>1. wf' # "COMPLETED" \/ wf' = wf
    BY <1>3 DEF ExecuteStep, LoseCapability, WaitForApproval, RequestInput, Run
  <2>2. Walked(j.rest)
    BY <1>3 DEF Walked
  <2>3. s \in Steps /\ s \in overruled' /\ state[s] # "ABSENT"
        /\ j.rest \subseteq overruled'
    BY <1>3
  <2>4. QED
    BY <1>3, <2>1, <2>2, <2>3, ExecuteMove
<1>4. QED
  BY <1>1, <1>2, <1>3, RetryNextPicks

LEMMA TickResumesMove ==
  ASSUME EngineInv, InFlightIsOwned, BaseInv, NEW c \in Callers, TickResumes(c)
  PROVE  Move
<1>1. call[c].pc # "run" /\ UNCHANGED <<disk, overruled>>
  BY DEF TickResumes, hostVars
<1>2. \A s \in List(c) : s \in Steps /\ InFlight(s)
  BY DEF List, InFlight, EngineInv, EngineTypeOK, Calls
<1>3. PICK k \in Calls :
        /\ k.rest \subseteq List(c) /\ k.mode \in {"start", "tick"}
        /\ \/ \E s \in List(c) :
                /\ state[s] \notin TerminalStep /\ Admitted(s)
                /\ ExecuteStep(c, k, s, FALSE)
           \/ ReturnAtOnce(c, k)
           \/ IsCall(k) /\ k.pc # "run" /\ Finalizes(c, k)
  BY TickPicks
<1>4. Walked(k.rest) /\ Led(k)'
      /\ ~(k.mode \in {"retryStep", "retryWorkflow"})
  BY <1>2, <1>3 DEF Walked, Led
<1>5. CASE ReturnAtOnce(c, k)
  BY <1>1, <1>4, <1>5, ReturnAtOnceMove
<1>6. CASE k.pc # "run" /\ Finalizes(c, k)
  BY <1>1, <1>4, <1>6, QuietMove DEF Finalizes
<1>7. ASSUME NEW s \in List(c), state[s] \notin TerminalStep, Admitted(s),
             ExecuteStep(c, k, s, FALSE)
      PROVE  Move
  <2>1. wf' # "COMPLETED" \/ wf' = wf
    BY <1>7 DEF ExecuteStep, LoseCapability, WaitForApproval, RequestInput, Run
  <2>2. QED
    BY <1>1, <1>2, <1>4, <1>7, <2>1, ExecuteMove
<1>8. QED
  BY <1>3, <1>5, <1>6, <1>7

LEMMA DrainMove ==
  ASSUME EngineInv, BaseInv, NEW c \in Callers, Drain(c)
  PROVE  Move
<1> USE DEF EngineInv, EngineTypeOK
<1>1. call[c].pc = "drain" /\ call[c] \in Calls
      /\ UNCHANGED <<attempt, failures, repairs, bound, output, decisions, running,
                     disk, overruled>>
  BY DEF Drain, hostVars
<1>2. CASE call[c].ticks > 0 /\ DrainExits(c)
  <2>1. SetCall(c, Idle) /\ wf' = Finalized
        /\ UNCHANGED <<state, refused, queued>>
    BY <1>2 DEF Drain
  <2>2. Idle \in Calls /\ Idle.pc # "run" /\ Idle.rest = {} /\ Idle.mode = "tick"
    BY IdleIsCall DEF IsCall, Idle
  <2>3. Led(Idle)' /\ Walked(Idle.rest)
    BY <2>2 DEF Led, Walked, Idle
  <2>4. QED
    BY <1>1, <2>1, <2>2, <2>3, QuietMove DEF stepVars, schedVars
<1>3. CASE ~(call[c].ticks > 0 /\ DrainExits(c))
  <2>1. call[c].ticks \in 0..MaxTicks /\ call[c].ticks # MaxTicks
    BY <1>1, <1>3, BoundsAssumption DEF Calls, DrainExits
  <2>2. call[c].ticks + 1 \in 0..MaxTicks /\ HasWork \in BOOLEAN
    BY <2>1, BoundsAssumption DEF HasWork
  <2>3. NextTick(call[c]) \in Calls
    BY <1>1, <2>2 DEF NextTick, Calls
  <2>4. PICK j \in Calls : j = NextTick(call[c])
    BY <2>3
  <2>5. j.pc # "run" /\ j.rest = call[c].rest /\ j.mode = call[c].mode
    BY <1>1, <2>4 DEF NextTick, Calls
  <2>6. SetCall(c, j) /\ ScheduleReadySteps(wf) /\ wf' = wf
    BY <1>3, <2>4 DEF Drain
  <2>7. Led(j)' /\ Walked(j.rest)
    BY <1>1, <2>5 DEF Led, Walked, BaseInv, RetriesAreOverruled, InFlight
  <2>8. QED
    BY <1>1, <2>5, <2>6, <2>7, ScheduleMove
<1>4. QED
  BY <1>2, <1>3

LEMMA ContinueMove ==
  ASSUME EngineInv, InFlightIsOwned, BaseInv, NEW c \in Callers, Continue(c)
  PROVE  Move
<1>1. CASE RetryWorkflowResumes(c)
  <2>1. call[c].pc # "run" /\ call[c] \in Calls /\ call[c].rest \in SUBSET Steps
        /\ RetryNext(c, call[c], call[c].rest) /\ UNCHANGED <<disk, overruled>>
        /\ call[c].mode = "retryWorkflow"
    BY <1>1 DEF RetryWorkflowResumes, hostVars, EngineInv, EngineTypeOK, Calls
  <2>2. Walked(call[c].rest) /\ call[c].rest \subseteq overruled'
        /\ \A s \in call[c].rest : state[s] # "ABSENT"
    BY <2>1 DEF Walked, InFlight, BaseInv, PresentInv, RetriesAreOverruled, Led
  <2>3. QED
    BY <2>1, <2>2, RetryNextMove
<1>2. CASE StepFails(c)
  <2>1. UNCHANGED hostVars
    BY <1>2 DEF StepFails
  <2>2. QED
    BY <1>2, <2>1, FailureIs, RetryAtOnceMove, StartRepairMove, GivesUpMove
<1>3. QED
  BY <1>1, <1>2, DrainMove, TickResumesMove, SuccessMove
  DEF Continue, Advance, Answer

LEMMA InvokeMove ==
  ASSUME EngineInv, InFlightIsOwned, BaseInv, NEW c \in Callers, Invoke(c)
  PROVE  Move
<1>1. call[c] = Idle /\ call[c].pc # "run"
  BY IdleIsCall DEF Invoke, StartWorkflow, Tick, RetryStep, RetryWorkflow
<1>2. CASE StartWorkflow(c)
  <2>1. PICK k \in NewCall("start") : BeginStart(c, k)
    BY <1>2 DEF StartWorkflow
  <2>2. k \in Calls /\ UNCHANGED <<disk, overruled>>
    BY <1>2, NewCallType DEF Modes, StartWorkflow, Command
  <2>3. QED
    BY <1>1, <2>1, <2>2, BeginStartMove
<1>3. CASE Tick(c)
  <2>1. PICK k \in NewCall("tick") : SetCall(c, [k EXCEPT !.pc = "scheduled"])
    BY <1>3 DEF Tick
  <2> DEFINE j == [k EXCEPT !.pc = "scheduled"]
  <2>2. j \in Calls /\ j.pc # "run" /\ j.rest = {} /\ j.mode = "tick"
    BY NewCallType DEF Modes, NewCall, Idle, IsCall
  <2>3. SetCall(c, j)
    BY <2>1
  <2>4. ScheduleReadySteps(wf) /\ wf' = wf
        /\ UNCHANGED <<attempt, failures, repairs, bound, output, decisions,
                       running, disk, overruled>>
    BY <1>3 DEF Tick, Command, ScheduleReadySteps
  <2> HIDE DEF j
  <2>5. Led(j)' /\ Walked(j.rest)
    BY <2>2 DEF Led, Walked
  <2>6. failures' = failures
    BY <1>3 DEF Tick
  <2>7. QED
    BY <1>1, <2>2, <2>3, <2>4, <2>5, <2>6, ScheduleMove
<1>4. CASE RetryStep(c)
  <2>1. PICK s \in Existing, k \in NewCall("retryStep") :
          Overrule("retryStep", {s}) /\ ExecuteStep(c, k, s, TRUE)
    BY <1>4 DEF RetryStep
  <2>2. k \in Calls /\ k.rest = {}
    BY NewCallType DEF Modes, NewCall, Idle
  <2>3. s \in Steps /\ state[s] # "ABSENT" /\ s \in overruled'
        /\ UNCHANGED disk /\ overruled \subseteq overruled'
    BY <2>1 DEF Existing, Overrule
  <2>4. wf' # "COMPLETED" \/ wf' = wf
    BY <2>1 DEF ExecuteStep, LoseCapability, WaitForApproval, RequestInput, Run
  <2>5. Walked(k.rest) /\ k.rest \subseteq overruled'
    BY <2>2 DEF Walked
  <2>6. QED
    BY <1>1, <2>1, <2>2, <2>3, <2>4, <2>5, ExecuteMove
<1>5. CASE RetryWorkflow(c)
  <2> DEFINE L == {s \in Steps : state[s] \in {"FAILED", "INTERRUPTED"}}
  <2>1. Overrule("retryWorkflow", L)
        /\ \E k \in NewCall("retryWorkflow") : RetryNext(c, k, L)
    BY <1>5 DEF RetryWorkflow
  <2>2. PICK k \in NewCall("retryWorkflow") : RetryNext(c, k, L)
    BY <2>1
  <2>3. k \in Calls /\ L \in SUBSET Steps
    BY NewCallType DEF Modes
  <2>4. UNCHANGED disk /\ overruled \subseteq overruled' /\ L \subseteq overruled'
    BY <2>1 DEF Overrule
  <2>5. \A s \in L : state[s] # "ABSENT"
    OBVIOUS
  <2> HIDE DEF L
  <2>6. Walked(L)
    BY <2>4, <2>5 DEF Walked
  <2>7. QED
    BY <1>1, <2>2, <2>3, <2>4, <2>5, <2>6, RetryNextMove
<1>6. QED
  BY <1>2, <1>3, <1>4, <1>5 DEF Invoke

\* A command that changes no step, call or list.
LEMMA StillMove ==
  ASSUME EngineInv, UNCHANGED <<stepVars, schedVars, call>>,
         overruled \subseteq overruled', wf' # "COMPLETED" \/ wf' = wf, DiskMove
  PROVE  Move
<1> USE DEF EngineInv, EngineTypeOK, stepVars, schedVars
<1>1. PoolMove /\ FlightMove
  BY DEF PoolMove, FlightMove, InFlight, Executes
<1>2. \A s \in Steps : Change(s)
  BY DEF Change, Counts
<1>3. DataMove
  BY BoundsAssumption DEF DataMove
<1>4. QED
  BY <1>1, <1>2, <1>3 DEF Move

\* A command that takes steps out of the lists, and overrules those whose states
\* it changes otherwise than the scheduler might.
LEMMA EndsStepsMove ==
  ASSUME EngineInv, overruled \subseteq overruled', wf' # "COMPLETED",
         UNCHANGED <<attempt, repairs, bound, output, decisions, call, disk>>,
         running' \subseteq running, running \ running' \subseteq overruled',
         queued' \subseteq queued,
         \A s \in Steps :
           \/ state'[s] = state[s]
           \/ state[s] \in Open /\ state'[s] \in Open
           \/ ~Free(s)' /\ state[s] # "ABSENT" /\ state'[s] # "ABSENT"
  PROVE  Move
<1> USE DEF EngineInv, EngineTypeOK
<1>1. PoolMove /\ FlightMove
  BY DEF PoolMove, FlightMove, InFlight, Executes
<1>2. \A s \in Steps : Change(s)
  BY DEF Change, Counts
<1>3. DataMove
  BY BoundsAssumption DEF DataMove, DiskMove
<1>4. QED
  BY <1>1, <1>2, <1>3 DEF Move

LEMMA ControlMove ==
  ASSUME EngineInv, InFlightIsOwned, BaseInv, Control
  PROVE  Move
<1> USE DEF EngineInv, EngineTypeOK
<1>1. CASE PauseWorkflow
  <2> DEFINE P == running \intersect Unfinished
  <2>1. /\ overruled' = overruled \union P /\ wf' = "PAUSED"
        /\ state' = [s \in Steps |-> IF s \in Unfinished THEN "PAUSED" ELSE state[s]]
        /\ running' = running \ Unfinished /\ queued' = queued \ Unfinished
        /\ UNCHANGED <<attempt, repairs, bound, output, decisions, call, disk>>
    BY <1>1 DEF PauseWorkflow, Overrule
  <2>2. \A s \in Unfinished : s \in Steps /\ (state[s] \in Open \/ state[s] = "RUNNING")
    BY DEF Unfinished, Existing, Open
  <2>3. ASSUME NEW s \in Steps, state[s] = "RUNNING", s \in Unfinished
        PROVE  ~Free(s)'
    <3>1. s \in running \/ ~Free(s)
      BY <2>3 DEF InFlightIsOwned, BaseInv, PoolInv, ExecutedIsPooled
    <3>2. QED
      BY <2>1, <2>3, <3>1 DEF Free
  <2>4. ASSUME NEW s \in Steps
        PROVE  \/ state'[s] = state[s]
               \/ state[s] \in Open /\ state'[s] \in Open
               \/ ~Free(s)' /\ state[s] # "ABSENT" /\ state'[s] # "ABSENT"
    <3>1. "PAUSED" \in Open
      BY DEF Open, StepStates, TerminalStep
    <3>2. QED
      BY <2>1, <2>2, <2>3, <3>1
  <2>5. QED
    BY <2>1, <2>4, EndsStepsMove
<1>2. CASE CancelWorkflow
  <2>1. /\ overruled' = overruled \union Unfinished /\ wf' = "CANCELLED"
        /\ state' = [s \in Steps |-> IF s \in Unfinished THEN "CANCELLED" ELSE state[s]]
        /\ running' = running \ Unfinished /\ queued' = queued \ Unfinished
        /\ UNCHANGED <<attempt, repairs, bound, output, decisions, call, disk>>
    BY <1>2 DEF CancelWorkflow, Overrule
  <2>2. \A s \in Unfinished : s \in Steps /\ state[s] # "ABSENT" /\ ~Free(s)'
    BY <2>1 DEF Unfinished, Existing, Free
  <2>3. \A s \in Steps :
          \/ state'[s] = state[s]
          \/ ~Free(s)' /\ state[s] # "ABSENT" /\ state'[s] # "ABSENT"
    BY <2>1, <2>2
  <2>4. QED
    BY <2>1, <2>3, EndsStepsMove
<1>3. ASSUME NEW blockDependents \in BOOLEAN, SkipStep(blockDependents)
      PROVE  Move
  <2>1. PICK s \in Existing :
          LET blocked == IF blockDependents
                         THEN {d.target : d \in Dependents(s)} ELSE {}
          IN  /\ Overrule("skip", {s} \union blocked)
              /\ state' = [t \in Steps |->
                             IF t \in blocked THEN "BLOCKED_BY_DEPENDENCY"
                             ELSE IF t = s THEN "SKIPPED" ELSE state[t]]
    BY <1>3 DEF SkipStep
  <2> DEFINE blocked == IF blockDependents
                        THEN {d.target : d \in Dependents(s)} ELSE {}
  <2>2. overruled' = overruled \union {s} \union blocked /\ disk' = disk
    BY <2>1 DEF Overrule
  <2>3. \A t \in {s} \union blocked : state[t] # "ABSENT"
    BY DEF Existing, Dependents
  <2>4. state' = [t \in Steps |->
                    IF t \in blocked THEN "BLOCKED_BY_DEPENDENCY"
                    ELSE IF t = s THEN "SKIPPED" ELSE state[t]]
    BY <2>1
  <2>5. UNCHANGED <<wf, attempt, repairs, bound, output, decisions, schedVars, call>>
    BY <1>3 DEF SkipStep
  <2> HIDE DEF blocked
  <2>6. \A t \in Steps :
          \/ state'[t] = state[t]
          \/ ~Free(t)' /\ state[t] # "ABSENT" /\ state'[t] # "ABSENT"
    BY <2>2, <2>3, <2>4 DEF Free
  <2>7. PoolMove /\ FlightMove
    BY <2>5 DEF PoolMove, FlightMove, InFlight, Executes, schedVars
  <2>8. \A t \in Steps : Change(t)
    BY <2>5, <2>6 DEF Change, Counts
  <2>9. DataMove
    BY <2>2, <2>5, BoundsAssumption DEF DataMove, DiskMove
  <2>10. QED
    BY <2>2, <2>7, <2>8, <2>9 DEF Move
<1>4. CASE ResolveDecision
  <2>1. PICK s \in Steps :
          /\ decisions[s] > 0
          /\ \E n \in IF decisions[s] = 2 THEN {1, 2} ELSE {0} :
               decisions' = [decisions EXCEPT ![s] = n]
          /\ output' = output \union {s}
          /\ state' = [state EXCEPT ![s] = "SUCCEEDED"]
    BY <1>4 DEF ResolveDecision
  <2>2. UNCHANGED <<attempt, repairs, bound, schedVars, call, disk, overruled>>
        /\ (wf' = wf \/ wf' = "READY")
    BY <1>4 DEF ResolveDecision, Command
  <2>3. \A t \in Steps : decisions'[t] > 0 => decisions[t] > 0
    BY <2>1
  <2>4. PoolMove /\ FlightMove
    BY <2>2, <2>3 DEF PoolMove, FlightMove, InFlight, Executes, schedVars
  <2>5. \A t \in Steps : Change(t)
    BY <2>1, <2>2 DEF Change, Counts
  <2>6. DataMove
    BY <2>1, <2>2, BoundsAssumption DEF DataMove, DiskMove, Success
  <2>7. QED
    BY <2>2, <2>4, <2>5, <2>6 DEF Move
<1>5. CASE \/ \E reconfirmed \in BOOLEAN : ResumeWorkflow(reconfirmed)
           \/ SuspendWorkflow \/ ExpireWorkflow \/ ValidateWorkflow
  <2>1. UNCHANGED <<stepVars, schedVars, call, disk, overruled>> /\ wf' # "COMPLETED"
    BY <1>5
    DEF ResumeWorkflow, SuspendWorkflow, ExpireWorkflow, ValidateWorkflow, Command
  <2>2. QED
    BY <2>1, StillMove DEF DiskMove
<1>6. QED
  BY <1>1, <1>2, <1>3, <1>4, <1>5 DEF Control

\* Every step but a restart is a move.
LEMMA NextMove ==
  ASSUME EngineInv, InFlightIsOwned, BaseInv, [Next]_vars
  PROVE  Move \/ \E recovered \in BOOLEAN : Restart(recovered)
<1>1. ASSUME NEW c \in Callers, Continue(c) \/ Invoke(c)
      PROVE  Move
  BY <1>1, ContinueMove, InvokeMove
<1>2. CASE Control
  BY <1>2, ControlMove
<1>3. CASE Shutdown
  <2>1. UNCHANGED <<stepVars, schedVars, call, overruled>>
        /\ (wf' = wf \/ wf' = "SUSPENDED") /\ disk' = [Snapshot EXCEPT !.wf = wf']
    BY <1>3 DEF Shutdown
  <2>2. DiskMove
    BY <2>1 DEF DiskMove, Snapshot, stepVars
  <2>3. QED
    BY <2>1, <2>2, StillMove
<1>4. CASE Save
  <2>1. UNCHANGED <<wf, stepVars, schedVars, call, overruled>> /\ disk' = Snapshot
    BY <1>4 DEF Save
  <2>2. DiskMove
    BY <2>1 DEF DiskMove, Snapshot, stepVars
  <2>3. QED
    BY <2>1, <2>2, StillMove
<1>5. CASE CapabilityChanges
  BY <1>5, StillMove DEF CapabilityChanges, DiskMove
<1>6. CASE UNCHANGED vars
  BY <1>6, StillMove DEF vars, hostVars, DiskMove
<1>7. QED
  BY <1>1, <1>2, <1>3, <1>4, <1>5, <1>6 DEF Next, Host

-----------------------------------------------------------------------------
(* The pool *)

LEMMA ConflictIsSymmetric ==
  ASSUME NEW s \in Steps, NEW t \in Steps, Conflict(s, t)
  PROVE  Conflict(t, s) /\ Exclusive(s) /\ Exclusive(t)
  BY OverlapAssumption DEF Conflict, Exclusive

\* The pool admits no step that conflicts with one it holds.
LEMMA AdmittedConflictsWithNone ==
  ASSUME NEW s \in Steps, NEW t \in Steps, Admitted(s), Conflict(s, t)
  PROVE  t \notin running
  BY DEF Admitted, SafeToRunConcurrently, Conflict

\* The pool does not grow, as far as the scheduler's steps are concerned.
LEMMA PoolKeepsFit ==
  ASSUME PoolIsBounded, IsFiniteSet(running'),
         \A s \in running' : Free(s)' => s \in running /\ Free(s)
  PROVE  PoolIsBounded'
<1> DEFINE Own == {s \in running : Free(s)}
           New == {s \in running' : Free(s)'}
<1>1. IsFiniteSet(Own) /\ Cardinality(Own) <= MaxConcurrent
  BY FS_Subset DEF PoolIsBounded
<1>2. New \in SUBSET Own
  OBVIOUS
<1> HIDE DEF Own, New
<1>3. IsFiniteSet(New) /\ Cardinality(New) <= Cardinality(Own)
  BY <1>1, <1>2, FS_Subset
<1>4. Cardinality(New) <= MaxConcurrent
  BY <1>1, <1>3, FS_CardinalityType, BoundsAssumption
<1>5. QED
  BY <1>4 DEF PoolIsBounded, New

\* One more step fits in a pool that admits it.
LEMMA PoolGrowsWithin ==
  ASSUME PoolIsBounded, NEW s \in Steps, Admitted(s),
         running' = running \union {s}
  PROVE  PoolIsBounded'
<1> DEFINE New == {t \in running' : Free(t)'}
<1>1. IsFiniteSet(running) /\ Cardinality(running) < MaxConcurrent
      /\ Cardinality(running) \in Nat
  BY FS_CardinalityType, BoundsAssumption DEF Admitted, PoolIsBounded
<1>2. IsFiniteSet(running \union {s})
      /\ Cardinality(running \union {s}) <= Cardinality(running) + 1
  BY <1>1, FS_AddElement
<1>3. IsFiniteSet(running') /\ Cardinality(running') <= MaxConcurrent
      /\ Cardinality(running') \in Nat
  BY <1>1, <1>2, FS_CardinalityType, BoundsAssumption
<1>4. New \in SUBSET running'
  OBVIOUS
<1> HIDE DEF New
<1>5. IsFiniteSet(New) /\ Cardinality(New) <= Cardinality(running')
  BY <1>3, <1>4, FS_Subset
<1>6. Cardinality(New) <= MaxConcurrent
  BY <1>3, <1>5, FS_CardinalityType, BoundsAssumption
<1>7. QED
  BY <1>3, <1>6 DEF PoolIsBounded, New

LEMMA PoolMoves ==
  ASSUME EngineInv, PoolInv, PoolMove, overruled \subseteq overruled'
  PROVE  PoolInv'
<1> USE DEF EngineInv, EngineTypeOK
<1>1. \A s \in Steps : Free(s)' => Free(s)
  BY DEF Free
<1>2. CASE /\ call' = call /\ running' \subseteq running
           /\ running \ running' \subseteq overruled'
  <2>1. ExecutedIsPooled'
    <3>1. SUFFICES ASSUME NEW c \in Callers, NEW s \in Steps,
                          Executes(c, s)', Free(s)'
                   PROVE  s \in running'
      BY DEF ExecutedIsPooled
    <3>2. s \in running
      BY <1>1, <1>2, <3>1 DEF PoolInv, ExecutedIsPooled, Executes
    <3>3. QED
      BY <1>2, <3>1, <3>2 DEF Free
  <2>2. PoolIsBounded'
    <3>1. IsFiniteSet(running')
      BY <1>2, FS_Subset DEF PoolInv, PoolIsBounded
    <3>2. QED
      BY <1>1, <1>2, <3>1, PoolKeepsFit DEF PoolInv
  <2>3. ConcurrencyIsSafe'
    BY <1>2 DEF PoolInv, ConcurrencyIsSafe, Executes
  <2>4. QED
    BY <2>1, <2>2, <2>3 DEF PoolInv
<1>3. ASSUME NEW c \in Callers, NEW k \in Calls, SetCall(c, k), k.pc # "run",
             running' = running \/ (call[c].pc = "run" /\ running' = running \ {call[c].cur})
      PROVE  PoolInv'
  <2>1. \A d \in Callers, s \in Steps : Executes(d, s)' => d # c /\ Executes(d, s)
    BY <1>3, CallMoves
  <2>2. ExecutedIsPooled'
    <3>1. SUFFICES ASSUME NEW d \in Callers, NEW s \in Steps,
                          Executes(d, s)', Free(s)'
                   PROVE  s \in running'
      BY DEF ExecutedIsPooled
    <3>2. d # c /\ Executes(d, s) /\ Free(s) /\ s \in running
      BY <1>1, <2>1, <3>1 DEF PoolInv, ExecutedIsPooled
    <3>3. CASE call[c].pc = "run" /\ call[c].cur = s
      <4>1. Executes(c, s)
        BY <3>3 DEF Executes
      <4>2. Conflict(s, s)
        BY <3>2 DEF Conflict, Free, Exclusive
      <4>3. QED
        BY <3>2, <4>1, <4>2 DEF PoolInv, ConcurrencyIsSafe, Free
    <3>4. QED
      BY <1>3, <3>2, <3>3
  <2>3. PoolIsBounded'
    <3>1. IsFiniteSet(running')
      BY <1>3, FS_RemoveElement DEF PoolInv, PoolIsBounded
    <3>2. QED
      BY <1>1, <1>3, <3>1, PoolKeepsFit DEF PoolInv
  <2>4. ConcurrencyIsSafe'
    BY <2>1 DEF PoolInv, ConcurrencyIsSafe
  <2>5. QED
    BY <2>2, <2>3, <2>4 DEF PoolInv
<1>4. ASSUME NEW c \in Callers, NEW k \in Calls, SetCall(c, k), k.pc = "run",
             k.cur \in Steps, running' = running \union {k.cur},
             Admitted(k.cur) \/ k.cur \in overruled' \/ Executes(c, k.cur)
      PROVE  PoolInv'
  <2>1. \A d \in Callers, s \in Steps : Executes(d, s)' =>
          (d # c /\ Executes(d, s)) \/ (d = c /\ s = k.cur)
    BY <1>4, CallMoves
  <2>2. ExecutedIsPooled'
    BY <1>1, <1>4, <2>1 DEF PoolInv, ExecutedIsPooled
  <2>3. PoolIsBounded'
    <3>1. CASE Admitted(k.cur)
      BY <1>4, <3>1, PoolGrowsWithin DEF PoolInv
    <3>2. CASE k.cur \in overruled' \/ Executes(c, k.cur)
      <4>1. IsFiniteSet(running')
        BY <1>4, FS_AddElement DEF PoolInv, PoolIsBounded
      <4>2. ASSUME NEW s \in running', Free(s)'
            PROVE  s \in running /\ Free(s)
        BY <1>1, <1>4, <3>2, <4>2 DEF PoolInv, ExecutedIsPooled, Free
      <4>3. QED
        BY <4>1, <4>2, PoolKeepsFit DEF PoolInv
    <3>3. QED
      BY <1>4, <3>1, <3>2
  <2>4. ASSUME NEW d \in Callers, NEW t \in Steps, d # c, Executes(d, t),
               Conflict(k.cur, t)
        PROVE  {k.cur, t} \intersect overruled' # {}
    <3>1. CASE Executes(c, k.cur)
      BY <1>4, <2>4, <3>1 DEF PoolInv, ConcurrencyIsSafe
    <3>2. CASE Admitted(k.cur)
      <4>1. t \notin running /\ Exclusive(t)
        BY <1>4, <2>4, <3>2, AdmittedConflictsWithNone, ConflictIsSymmetric
      <4>2. QED
        BY <2>4, <4>1 DEF PoolInv, ExecutedIsPooled, Free
    <3>3. QED
      BY <1>4, <3>1, <3>2
  <2>5. ConcurrencyIsSafe'
    <3>1. SUFFICES ASSUME NEW d \in Callers, NEW e \in Callers,
                          NEW s \in Steps, NEW t \in Steps, d # e,
                          Executes(d, s)', Executes(e, t)', Conflict(s, t)
                   PROVE  {s, t} \intersect overruled' # {}
      BY DEF ConcurrencyIsSafe
    <3>2. CASE d = c
      BY <2>1, <2>4, <3>1, <3>2
    <3>3. CASE e = c
      <4>1. Conflict(t, s)
        BY <3>1, ConflictIsSymmetric
      <4>2. t = k.cur /\ Executes(d, s) /\ d # c
        BY <2>1, <3>1, <3>3
      <4>3. {k.cur, s} \intersect overruled' # {}
        BY <2>4, <4>1, <4>2
      <4>4. QED
        BY <4>2, <4>3
    <3>4. CASE d # c /\ e # c
      BY <2>1, <3>1, <3>4 DEF PoolInv, ConcurrencyIsSafe
    <3>5. QED
      BY <3>2, <3>3, <3>4
  <2>6. QED
    BY <2>2, <2>3, <2>5 DEF PoolInv
<1>5. ASSUME NEW c \in Callers, NEW k \in Calls, SetCall(c, k), call[c].pc = "run",
             k.pc = "run", k.cur = call[c].cur, running' = running \union {k.cur}
      PROVE  PoolInv'
  <2>1. k.cur \in Steps /\ Executes(c, k.cur)
    BY <1>5 DEF RunHasStep, Executes
  <2>2. QED
    BY <1>4, <1>5, <2>1
<1>6. QED
  BY <1>2, <1>3, <1>4, <1>5 DEF PoolMove

-----------------------------------------------------------------------------
(* BaseInv is inductive *)

LEMMA InitBaseInv == Init => BaseInv
<1> SUFFICES ASSUME Init
             PROVE  BaseInv
  OBVIOUS
<1>1. \A c \in Callers : call[c] = Idle
  BY DEF Init
<1>2. \A c \in Callers, s \in Steps : ~Executes(c, s) /\ s \notin call[c].rest
  BY <1>1, IdleIsCall DEF Executes, Idle
<1>3. RetriesAreOverruled
  BY <1>1, IdleIsCall DEF RetriesAreOverruled, Led, Idle
<1>4. PoolInv
  <2>1. running = {} /\ {s \in running : Free(s)} = {}
    BY DEF Init
  <2>2. PoolIsBounded
    BY <2>1, FS_EmptySet, BoundsAssumption DEF PoolIsBounded
  <2>3. QED
    BY <1>2, <2>2 DEF PoolInv, ExecutedIsPooled, ConcurrencyIsSafe
<1>5. Asked(state, decisions)
  BY DEF Asked, Init
<1>6. Reserved(state, repairs)
  <2>1. ASSUME NEW s \in DOMAIN RepairStep, NEW n \in 1..MaxRepairs
        PROVE  state[RepairStep[s][n]] = "ABSENT"
    <3>1. RepairStep[s][n] \in Steps
      BY StepsAssumption
    <3>2. RepairStep[s][n] \in RepairSteps
      BY DEF RepairSteps
    <3>3. QED
      BY <3>1, <3>2 DEF Init
  <2>2. QED
    BY <2>1 DEF Reserved
<1>7. PresentInv
  BY <1>2, <1>5, <1>6 DEF PresentInv, InFlight, Init
<1>8. QED
  BY <1>3, <1>4, <1>7 DEF BaseInv

LEMMA MovePresent ==
  ASSUME EngineInv, EngineInv', BaseInv, Move
  PROVE  PresentInv'
<1> USE DEF EngineInv, EngineTypeOK, Move
<1>1. \A s \in Steps : state[s] # "ABSENT" => state'[s] # "ABSENT"
  BY DEF Change, Open, StepStates, TerminalStep, Ends, Struck, Created, Success
<1>2. \A s \in Steps : state[s] = "ABSENT" /\ state'[s] # "ABSENT" => Created(s)
  <2>1. ASSUME NEW s \in Steps, state[s] = "ABSENT", state'[s] # "ABSENT"
        PROVE  Created(s)
    <3>1. ~(decisions[s] > 0) /\ \A c \in Callers : ~Executes(c, s)
      BY <2>1 DEF BaseInv, PresentInv, Asked, InFlight
    <3>2. state[s] \notin Open
      BY <2>1 DEF Open
    <3>3. QED
      BY <2>1, <3>1, <3>2 DEF Change, Struck
  <2>2. QED
    BY <2>1
<1>3. \A s \in Steps : InFlight(s)' => state'[s] # "ABSENT"
  BY <1>1 DEF FlightMove, BaseInv, PresentInv, CanQueueStep
<1>4. \A c \in Callers, s \in Steps : Executes(c, s)' => s \notin Interactive
  BY DEF FlightMove, BaseInv, PresentInv
<1>5. Asked(state', decisions')
  BY <1>1 DEF FlightMove, BaseInv, PresentInv, Asked
<1>6. Reserved(state', repairs')
  <2>1. SUFFICES ASSUME NEW s \in DOMAIN RepairStep, NEW n \in 1..MaxRepairs,
                        n > repairs'[s], state'[RepairStep[s][n]] # "ABSENT"
                 PROVE  FALSE
    BY DEF Reserved
  <2>2. s \in Steps /\ RepairStep[s][n] \in Steps
    BY StepsAssumption
  <2>3. repairs[s] <= repairs'[s] /\ repairs[s] \in Nat /\ repairs'[s] \in Nat
    BY <2>2, BoundsAssumption DEF DataMove
  <2>4. n > repairs[s] /\ state[RepairStep[s][n]] = "ABSENT"
    BY <2>1, <2>3 DEF BaseInv, PresentInv, Reserved
  <2>5. PICK t \in DOMAIN RepairStep :
          /\ repairs[t] < MaxRepairs
          /\ RepairStep[s][n] = RepairStep[t][repairs[t] + 1]
          /\ repairs'[t] = repairs[t] + 1
    BY <1>2, <2>1, <2>2, <2>4 DEF Created
  <2>6. repairs[t] + 1 \in 1..MaxRepairs
    BY <2>5, StepsAssumption, BoundsAssumption
  <2>7. s = t /\ n = repairs[t] + 1
    BY <2>5, <2>6, RepairAssumption
  <2>8. QED
    BY <2>1, <2>3, <2>5, <2>7
<1>7. disk' # NoSnapshot => Asked(disk'.state, disk'.decisions)
                            /\ Reserved(disk'.state, disk'.repairs)
  BY <1>5, <1>6 DEF DataMove, DiskMove, BaseInv, PresentInv
<1>8. PresentInv'
  <2>1. Asked(state, decisions)' /\ Reserved(state, repairs)'
    BY <1>5, <1>6 DEF Asked, Reserved
  <2>2. disk' # NoSnapshot => Asked(disk.state, disk.decisions)'
                              /\ Reserved(disk.state, disk.repairs)'
    BY <1>7 DEF Asked, Reserved
  <2>3. QED
    BY <1>3, <1>4, <2>1, <2>2 DEF PresentInv, NoSnapshot
<1>9. QED
  BY <1>8

\* Nothing is under way after a restart, and what the snapshot says is present
\* is present.
LEMMA RestartBase ==
  ASSUME EngineInv, HostTypeOK, BaseInv, NEW recovered \in BOOLEAN, Restart(recovered)
  PROVE  BaseInv'
<1>1. \A c \in Callers : call'[c] = Idle
  BY DEF Restart
<1>2. \A c \in Callers, s \in Steps : ~Executes(c, s)' /\ s \notin call'[c].rest
  BY <1>1, IdleIsCall DEF Executes, Idle
<1>3. RetriesAreOverruled'
  BY <1>1, IdleIsCall DEF RetriesAreOverruled, Led, Idle
<1>4. PoolInv'
  <2>1. running' = {} /\ {s \in running' : Free(s)'} = {}
    BY DEF Restart
  <2>2. PoolIsBounded'
    BY <2>1, FS_EmptySet, BoundsAssumption DEF PoolIsBounded
  <2>3. QED
    BY <1>2, <2>2 DEF PoolInv, ExecutedIsPooled, ConcurrencyIsSafe
<1>5. /\ disk \in Snapshots /\ disk # NoSnapshot /\ disk' = disk
      /\ decisions' = disk.decisions /\ repairs' = disk.repairs
  BY DEF Restart, HostTypeOK
<1>6. \A s \in Steps : state'[s] = "ABSENT" <=> disk.state[s] = "ABSENT"
  BY DEF Restart, RestoredStep
<1>7. Asked(disk.state, disk.decisions) /\ Reserved(disk.state, disk.repairs)
  BY <1>5 DEF BaseInv, PresentInv
<1>8. Asked(state', decisions')
  BY <1>5, <1>6, <1>7 DEF Asked
<1>9. Reserved(state', repairs')
  BY <1>5, <1>6, <1>7, StepsAssumption DEF Reserved
<1>10. PresentInv'
  <2>1. \A s \in Steps : ~InFlight(s)'
    BY <1>2 DEF Restart, InFlight
  <2>2. QED
    BY <1>2, <1>5, <1>7, <1>8, <1>9, <2>1 DEF PresentInv, Asked, Reserved
<1>11. QED
  BY <1>3, <1>4, <1>10 DEF BaseInv

THEOREM BaseInvariant == Spec => []BaseInv
<1>1. TypeInv /\ TypeInv' /\ InFlightIsOwned /\ BaseInv /\ [Next]_vars => BaseInv'
  <2> SUFFICES ASSUME EngineInv, EngineInv', HostTypeOK, InFlightIsOwned, BaseInv,
                      [Next]_vars
               PROVE  BaseInv'
    BY DEF TypeInv
  <2>1. CASE Move
    <3>1. RetriesAreOverruled'
      BY <2>1 DEF Move, PoolMove, BaseInv, RetriesAreOverruled, Led, SetCall,
                  EngineInv, EngineTypeOK
    <3>2. PoolInv' /\ PresentInv'
      BY <2>1, PoolMoves, MovePresent DEF BaseInv, Move
    <3>3. QED
      BY <3>1, <3>2 DEF BaseInv
  <2>2. QED
    BY <2>1, NextMove, RestartBase
<1>2. QED
  BY <1>1, InitBaseInv, TypeInvariant, InFlightOwned, PTL DEF Spec

\* Calls in flight never execute conflicting steps at once, unless the host has
\* overruled one of them.
THEOREM ConcurrencySafe == Spec => []ConcurrencyIsSafe
<1>1. BaseInv => ConcurrencyIsSafe
  BY DEF BaseInv, PoolInv
<1>2. QED
  BY <1>1, BaseInvariant, PTL

\* However many calls are in flight, no more than maximumConcurrentSteps of them
\* execute a step that is the scheduler's alone: the calls that do are counted
\* along the steps they execute.
THEOREM ConcurrencyBounded == Spec => []ConcurrencyIsBounded
<1>1. TypeInv /\ BaseInv => ConcurrencyIsBounded
  <2> SUFFICES ASSUME EngineInv, PoolInv
               PROVE  ConcurrencyIsBounded
    BY DEF TypeInv, BaseInv
  <2> DEFINE Busy == {c \in Callers : call[c].pc = "run" /\ Free(call[c].cur)}
             Own == {s \in running : Free(s)}
             f == [c \in Busy |-> call[c].cur]
  <2>1. \A c \in Busy : call[c].cur \in Steps /\ Executes(c, call[c].cur)
                        /\ Free(call[c].cur)
    BY DEF EngineInv, RunHasStep, Executes
  <2>2. f \in [Busy -> Own]
    BY <2>1 DEF PoolInv, ExecutedIsPooled
  <2>3. \A c, d \in Busy : f[c] = f[d] => c = d
    BY <2>1 DEF PoolInv, ConcurrencyIsSafe, Conflict, Free, Exclusive
  <2>4. f \in Injection(Busy, Own)
    BY <2>2, <2>3 DEF Injection, IsInjective
  <2>5. IsFiniteSet(Own) /\ Cardinality(Own) <= MaxConcurrent
    BY FS_Subset DEF PoolInv, PoolIsBounded
  <2> HIDE DEF Busy, Own, f
  <2>6. IsFiniteSet(Busy) /\ Cardinality(Busy) <= Cardinality(Own)
    BY <2>4, <2>5, FS_Injection
  <2>7. Cardinality(Busy) \in Nat /\ Cardinality(Own) \in Nat
    BY <2>5, <2>6, FS_CardinalityType
  <2>8. Cardinality(Busy) <= MaxConcurrent
    BY <2>5, <2>6, <2>7, BoundsAssumption
  <2>9. QED
    BY <2>8 DEF ConcurrencyIsBounded, Busy
<1>2. QED
  BY <1>1, BaseInvariant, TypeInvariant, PTL

-----------------------------------------------------------------------------
(* Attempts.  A step that may still be executed has an attempt to spare;   *)
(* so do the steps of a snapshot, whenever it is loaded.                   *)

Fits(x, attempts, repaired) ==
  /\ attempts <= MaxAttempts + repaired
  /\ x \in Open \union {"ABSENT"} => attempts < MaxAttempts + repaired

AttemptsInv ==
  \A s \in Steps : Free(s) =>
    /\ Fits(state[s], attempt[s], repairs[s])
    /\ disk # NoSnapshot => Fits(disk.state[s], disk.attempt[s], disk.repairs[s])

LEMMA MoveAttempts ==
  ASSUME EngineInv, EngineInv', AttemptsInv, Move
  PROVE  AttemptsInv'
<1> USE DEF EngineInv, EngineTypeOK
<1>1. SUFFICES ASSUME NEW s \in Steps, Free(s)'
               PROVE  /\ Fits(state'[s], attempt'[s], repairs'[s])
                      /\ disk' # NoSnapshot =>
                           Fits(disk'.state[s], disk'.attempt[s], disk'.repairs[s])
  BY DEF AttemptsInv, NoSnapshot, Fits
<1>2. Free(s) /\ Fits(state[s], attempt[s], repairs[s])
  BY <1>1 DEF Free, AttemptsInv, Move
<1>3. /\ attempt[s] \in Nat /\ attempt'[s] \in Nat /\ MaxAttempts \in Nat
      /\ repairs[s] \in Nat /\ repairs'[s] \in Nat
  BY BoundsAssumption
<1>4. Fits(state'[s], attempt'[s], repairs'[s])
  <2>1. CASE Counts(s) /\ (state'[s] \in Open \union {"ABSENT"} =>
                             state[s] \in Open \union {"ABSENT"})
    BY <1>2, <2>1 DEF Fits, Counts
  <2>2. CASE state[s] \in Open /\ state'[s] = "RUNNING"
             /\ attempt'[s] = attempt[s] + 1 /\ repairs'[s] = repairs[s]
    BY <1>2, <1>3, <2>2 DEF Fits, Open
  <2>3. ASSUME NEW c \in Callers, Ends(c, s)
        PROVE  Fits(state'[s], attempt'[s], repairs'[s])
    BY <1>2, <1>3, <2>3
    DEF Ends, Fits, Counts, Open, Success, TerminalStep, StepStates
  <2>4. QED
    BY <1>1, <2>1, <2>2, <2>3
    DEF Move, Change, Created, Struck, Counts, Open, TerminalStep, StepStates
<1>5. QED
  BY <1>1, <1>2, <1>4 DEF Move, DataMove, DiskMove, AttemptsInv

LEMMA RestartAttempts ==
  ASSUME HostTypeOK, AttemptsInv, NEW recovered \in BOOLEAN, Restart(recovered)
  PROVE  AttemptsInv'
<1>1. SUFFICES ASSUME NEW s \in Steps, Free(s)'
               PROVE  /\ Fits(state'[s], attempt'[s], repairs'[s])
                      /\ Fits(disk'.state[s], disk'.attempt[s], disk'.repairs[s])
  BY DEF AttemptsInv, Fits
<1>2. /\ disk # NoSnapshot /\ disk' = disk /\ state'[s] = RestoredStep(s, recovered)
      /\ attempt' = disk.attempt /\ repairs' = disk.repairs
      /\ s \notin overruled /\ state'[s] # "INTERRUPTED"
  BY <1>1 DEF Restart, Free
<1>3. Fits(disk.state[s], disk.attempt[s], disk.repairs[s])
  BY <1>1, <1>2 DEF AttemptsInv, Free
<1>4. state'[s] = disk.state[s] \/ disk.state[s] = "REPAIRING"
  BY <1>2 DEF RestoredStep
<1>5. "REPAIRING" \in Open
  BY DEF Open, StepStates, TerminalStep
<1>6. QED
  BY <1>2, <1>3, <1>4, <1>5 DEF Fits

\* Whatever the host pauses, restarts or lets repair, the scheduler attempts a
\* step of its own at most maximumAttempts times, and once more for each repair.
THEOREM AttemptsBounded == Spec => []AttemptsAreBounded
<1>1. Init => AttemptsInv
  BY BoundsAssumption DEF Init, AttemptsInv, Fits
<1>2. TypeInv /\ TypeInv' /\ InFlightIsOwned /\ BaseInv /\ AttemptsInv /\ [Next]_vars
        => AttemptsInv'
  BY NextMove, MoveAttempts, RestartAttempts DEF TypeInv
<1>3. AttemptsInv => AttemptsAreBounded
  BY DEF AttemptsInv, Fits, AttemptsAreBounded
<1>4. QED
  BY <1>1, <1>2, <1>3, TypeInvariant, InFlightOwned, BaseInvariant, PTL DEF Spec

-----------------------------------------------------------------------------
(* Prerequisites.  They are tested when a step is queued; that nothing     *)
(* takes them back later follows from what waits for what: the failure of  *)
(* a step overwrites its dependents, and none of those was queued as long  *)
(* as the step was under way.                                              *)

\* What t requires of the steps of G is there, in step states st with outputs out.
SettledIn(G, t, st, out) ==
  \A d \in Deps :
    d.target = t /\ d.required /\ d.type \in Settling /\ d.source \in G
      => DependencySatisfied(d, st, out)

\* Outputs are those of successes, and what succeeded, or was asked for, could.
Grounded(G, st, out, dec) ==
  \A s \in G :
    /\ s \in out => st[s] \in Success
    /\ st[s] \in Success \/ dec[s] > 0 => SettledIn(G, s, st, out)

Kept(G) ==
  /\ \A t \in Steps : InFlight(t) /\ t \notin overruled => SettledIn(G, t, state, output)
  /\ \A c \in Callers, s \in G : Executes(c, s) => state[s] = "RUNNING"
  /\ Grounded(G, state, output, decisions)
  /\ disk # NoSnapshot => Grounded(G, disk.state, disk.output, disk.decisions)

\* Outputs and approvals that a step in flight requires are there.
Supplied(t) ==
  \A d \in Deps :
    d.target = t /\ d.required /\ d.type \in {"REQUIRES_OUTPUT", "REQUIRES_APPROVAL"}
      => DependencySatisfied(d, state, output)

KeptInv ==
  /\ \A t \in Steps : InFlight(t) /\ t \notin overruled => Supplied(t)
  /\ \A G \in Grounds : G \intersect overruled = {} => Kept(G)

\* A step of G whose prerequisites in G are there is not struck by a failure.
LEMMA SettledIsNotStruck ==
  ASSUME EngineInv, NEW G \in Grounds, Kept(G), NEW s \in G,
         SettledIn(G, s, state, output)
  PROVE  ~Struck(s)
<1> SUFFICES ASSUME NEW c \in Callers, NEW d \in Deps, Executes(c, d.source),
                    d.target = s, ~SparesTarget(d)
             PROVE  FALSE
  BY DEF Struck
<1>1. d.required /\ d.type \in Settling /\ d.source \in G
  BY DEF Grounds
<1>2. DependencySatisfied(d, state, output)
  BY <1>1 DEF SettledIn
<1>3. state[d.source] = "RUNNING" /\ d.source \notin output
  BY <1>1 DEF Kept, Grounded, Success
<1>4. QED
  BY <1>1, <1>2, <1>3 DEF DependencySatisfied, Settling, TerminalStep

\* What the steps of G have reached, they keep.
LEMMA OutcomesStay ==
  ASSUME EngineInv, BaseInv, Move, NEW G \in Grounds, G \intersect overruled' = {},
         Kept(G), NEW s \in G
  PROVE  /\ state[s] \in Success => state'[s] = state[s] \/ state'[s] = "SUCCEEDED"
         /\ state[s] \in TerminalStep => state'[s] \in TerminalStep
<1>1. s \in Steps /\ Exclusive(s) /\ Free(s)'
  BY DEF Grounds, Free, Exclusive
<1>2. CASE state[s] \in TerminalStep
  <2>1. /\ state[s] \notin Open /\ state[s] # "ABSENT"
        /\ \A c \in Callers : ~Executes(c, s)
    BY <1>2 DEF Open, TerminalStep, Kept
  <2>2. state[s] \in Success => ~Struck(s)
    BY SettledIsNotStruck DEF Kept, Grounded
  <2>3. \/ state'[s] = state[s] \/ state'[s] = "SUCCEEDED" \/ Struck(s)
    BY <1>1, <2>1 DEF Move, Change, Created
  <2>4. QED
    BY <1>2, <2>2, <2>3 DEF Struck, TerminalStep
<1>3. QED
  BY <1>2 DEF Success, TerminalStep

LEMMA OutputsStay ==
  ASSUME EngineInv, BaseInv, Move, NEW G \in Grounds, G \intersect overruled' = {},
         Kept(G), NEW t, SettledIn(G, t, state, output)
  PROVE  SettledIn(G, t, state', output')
<1>1. SUFFICES ASSUME NEW d \in Deps, d.target = t, d.required,
                      d.type \in Settling, d.source \in G
               PROVE  DependencySatisfied(d, state', output')
  BY DEF SettledIn
<1>2. DependencySatisfied(d, state, output)
  BY <1>1 DEF SettledIn
<1>3. output \subseteq output'
  BY DEF Move, DataMove
<1>4. /\ state[d.source] \in Success =>
           state'[d.source] = state[d.source] \/ state'[d.source] = "SUCCEEDED"
      /\ state[d.source] \in TerminalStep => state'[d.source] \in TerminalStep
  BY <1>1, OutcomesStay
<1>5. QED
  BY <1>1, <1>2, <1>3, <1>4 DEF DependencySatisfied, Settling, Success

\* Approvals are not looked at by the dependencies of Settling.
LEMMA SettledPrimes ==
  ASSUME NEW G, NEW t, SettledIn(G, t, state', output')
  PROVE  SettledIn(G, t, state, output)'
  BY DEF SettledIn, DependencySatisfied, Settling

\* A step that can be queued has all it requires.
LEMMA QueuedIsSettled ==
  ASSUME NEW t, CanQueueStep(t, state, output)
  PROVE  Supplied(t) /\ \A G : SettledIn(G, t, state, output)
  BY DEF CanQueueStep, Supplied, SettledIn

LEMMA MoveKept ==
  ASSUME EngineInv, EngineInv', BaseInv, Move, NEW G \in Grounds,
         G \intersect overruled' = {}, Kept(G)
  PROVE  Kept(G)'
<1> USE DEF EngineInv, EngineTypeOK
<1>1. ASSUME NEW t \in Steps, InFlight(t)', t \notin overruled'
      PROVE  SettledIn(G, t, state, output)
  BY <1>1, QueuedIsSettled DEF Move, FlightMove, Kept
<1>2. ASSUME NEW t, SettledIn(G, t, state, output)
      PROVE  SettledIn(G, t, state', output') /\ SettledIn(G, t, state, output)'
  BY <1>2, OutputsStay, SettledPrimes
<1>3. ASSUME NEW c \in Callers, NEW s \in G, Executes(c, s)'
      PROVE  state'[s] = "RUNNING"
  <2>1. s \in Steps /\ Exclusive(s) /\ Free(s)' /\ s \notin overruled
    BY DEF Grounds, Free, Exclusive, Move
  <2>2. CASE Executes(c, s)
    <3>1. state[s] = "RUNNING" /\ state[s] \notin Open /\ state[s] # "ABSENT"
      BY <2>2 DEF Kept, Open
    <3>2. ~Struck(s)
      <4>1. SettledIn(G, s, state, output)
        BY <2>1, <2>2 DEF Kept, InFlight
      <4>2. QED
        BY <4>1, SettledIsNotStruck
    <3>3. ~(decisions[s] > 0)
      BY <2>1, <2>2 DEF BaseInv, PresentInv, Asked
    <3>4. ASSUME NEW d \in Callers, Executes(d, s), Ends(d, s)
          PROVE  state'[s] = "RUNNING"
      <4>1. d = c
        BY <2>1, <2>2, <3>4
        DEF BaseInv, PoolInv, ConcurrencyIsSafe, Conflict, Exclusive
      <4>2. QED
        BY <1>3, <3>4, <4>1 DEF Ends, Executes
    <3>5. QED
      BY <2>1, <3>1, <3>2, <3>3, <3>4 DEF Move, Change, Created
  <2>3. QED
    BY <1>3, <2>1, <2>2 DEF Move, FlightMove
<1>4. ASSUME NEW s \in G
      PROVE  /\ s \in output' => state'[s] \in Success
             /\ state'[s] \in Success \/ decisions'[s] > 0 =>
                  SettledIn(G, s, state, output)
  <2>1. s \in Steps /\ Free(s)' /\ s \notin overruled' /\ s \notin overruled
    BY DEF Grounds, Free, Exclusive, Move
  <2>2. s \in output' => state'[s] \in Success
    <3>1. CASE s \in output
      <4>1. state[s] \in Success
        BY <3>1 DEF Kept, Grounded
      <4>2. QED
        BY <4>1, OutcomesStay DEF Success
    <3>2. QED
      BY <3>1 DEF Move, DataMove
  <2>3. decisions[s] > 0 \/ state[s] \in Success \/ InFlight(s) =>
          SettledIn(G, s, state, output)
    BY <2>1 DEF Kept, Grounded
  <2>4. decisions'[s] > 0 => decisions[s] > 0 \/ InFlight(s)
    BY <2>1 DEF Move, FlightMove
  <2>5. state'[s] \in Success =>
          decisions[s] > 0 \/ state[s] \in Success \/ InFlight(s)
    BY <2>1
    DEF Move, Change, Created, Struck, Success, Open, StepStates, TerminalStep, InFlight
  <2>6. QED
    BY <2>2, <2>3, <2>4, <2>5
<1>5. Grounded(G, state', output', decisions')
  BY <1>2, <1>4 DEF Grounded
<1>6. Grounded(G, state, output, decisions)'
  BY <1>2, <1>4 DEF Grounded
<1>7. disk' # NoSnapshot =>
        Grounded(G, disk'.state, disk'.output, disk'.decisions)
  BY <1>5 DEF Move, DataMove, DiskMove, Kept
<1>8. (disk # NoSnapshot => Grounded(G, disk.state, disk.output, disk.decisions))'
  BY <1>7 DEF Grounded, SettledIn, DependencySatisfied, Settling, NoSnapshot
<1>9. QED
  BY <1>1, <1>2, <1>3, <1>6, <1>8 DEF Kept

LEMMA MoveSupplied ==
  ASSUME EngineInv, KeptInv, Move, NEW t \in Steps, InFlight(t)', t \notin overruled'
  PROVE  Supplied(t)'
<1>1. Supplied(t)
  BY QueuedIsSettled DEF Move, FlightMove, KeptInv
<1>2. output \subseteq output' /\ bound \subseteq bound'
  BY DEF Move, DataMove
<1>3. QED
  BY <1>1, <1>2 DEF Supplied, DependencySatisfied

LEMMA RestartKept ==
  ASSUME HostTypeOK, NEW recovered \in BOOLEAN, Restart(recovered), KeptInv,
         EngineInv'
  PROVE  KeptInv'
<1>1. \A c \in Callers : call'[c] = Idle
  BY DEF Restart
<1>2. \A c \in Callers, s \in Steps : ~Executes(c, s)' /\ s \notin call'[c].rest
  BY <1>1, IdleIsCall DEF Executes, Idle
<1>3. \A s \in Steps : ~InFlight(s)'
  BY <1>2 DEF Restart, InFlight
<1>4. /\ disk \in Snapshots /\ disk # NoSnapshot /\ disk' = disk
      /\ decisions' = disk.decisions /\ output' = disk.output
      /\ overruled \subseteq overruled'
      /\ \A s \in Steps : state'[s] = RestoredStep(s, recovered)
  BY DEF Restart, HostTypeOK
<1>5. \A s \in Steps :
        /\ disk.state[s] \in TerminalStep => state'[s] = disk.state[s]
        /\ state'[s] \in Success => state'[s] = disk.state[s]
  BY <1>4 DEF RestoredStep, TerminalStep, Success
<1>6. ASSUME NEW G \in Grounds, G \intersect overruled' = {}
      PROVE  Kept(G)'
  <2>1. Grounded(G, disk.state, disk.output, disk.decisions)
    BY <1>4, <1>6 DEF KeptInv, Kept
  <2>2. \A t : SettledIn(G, t, disk.state, disk.output) =>
          SettledIn(G, t, state, output)'
    BY <1>4, <1>5
    DEF SettledIn, DependencySatisfied, Settling, TerminalStep, Grounds
  <2>3. Grounded(G, state, output, decisions)'
    <3>1. \A s \in G : s \in Steps
      BY DEF Grounds
    <3>2. \A s \in Steps : disk.state[s] \in Success => state'[s] = disk.state[s]
      BY <1>5 DEF Success, TerminalStep
    <3>3. QED
      BY <1>4, <1>5, <2>1, <2>2, <3>1, <3>2 DEF Grounded
  <2>4. (disk # NoSnapshot => Grounded(G, disk.state, disk.output, disk.decisions))'
    BY <1>4, <2>1
    DEF Grounded, SettledIn, DependencySatisfied, Settling
  <2>5. QED
    BY <1>2, <1>3, <2>3, <2>4 DEF Kept, Grounds
<1>7. QED
  BY <1>3, <1>6 DEF KeptInv

LEMMA InitKept == Init => KeptInv
<1> SUFFICES ASSUME Init
             PROVE  KeptInv
  OBVIOUS
<1>1. \A c \in Callers, s \in Steps : ~Executes(c, s) /\ s \notin call[c].rest
  BY IdleIsCall DEF Init, Executes, Idle
<1>2. \A s \in Steps : ~InFlight(s)
  BY <1>1 DEF Init, InFlight
<1>3. \A G \in Grounds : Grounded(G, state, output, decisions)
  BY DEF Grounded, Init, Success, Grounds
<1>4. QED
  BY <1>1, <1>2, <1>3 DEF KeptInv, Kept, Init, Grounds

THEOREM KeptInvariant == Spec => []KeptInv
<1>1. TypeInv /\ TypeInv' /\ InFlightIsOwned /\ BaseInv /\ KeptInv /\ [Next]_vars
        => KeptInv'
  <2> SUFFICES ASSUME EngineInv, EngineInv', HostTypeOK, InFlightIsOwned, BaseInv,
                      KeptInv, [Next]_vars
               PROVE  KeptInv'
    BY DEF TypeInv
  <2>1. CASE Move
    <3>1. ASSUME NEW G \in Grounds, G \intersect overruled' = {}
          PROVE  Kept(G)'
      BY <2>1, <3>1, MoveKept DEF KeptInv, Move
    <3>2. QED
      BY <2>1, <3>1, MoveSupplied DEF KeptInv
  <2>2. QED
    BY <2>1, NextMove, RestartKept
<1>2. QED
  BY <1>1, InitKept, TypeInvariant, InFlightOwned, BaseInvariant, PTL DEF Spec

\* A step executes only while what it requires is there.
THEOREM PrerequisitesAlwaysHold == Spec => []PrerequisitesHold
<1>1. TypeInv /\ KeptInv => PrerequisitesHold
  <2> SUFFICES ASSUME KeptInv, NEW c \in Callers, NEW d \in Deps,
                      Executes(c, d.target), d.target \notin overruled, d.required,
                      \/ d.type \in {"REQUIRES_OUTPUT", "REQUIRES_APPROVAL"}
                      \/ d.type \in Settling /\ Undisturbed(d.source)
               PROVE  DependencySatisfied(d, state, output)
    BY DEF PrerequisitesHold
  <2>1. d.target \in Steps /\ InFlight(d.target)
    BY StepsAssumption DEF InFlight
  <2>2. CASE d.type \in {"REQUIRES_OUTPUT", "REQUIRES_APPROVAL"}
    BY <2>1, <2>2 DEF KeptInv, Supplied
  <2>3. CASE d.type \in Settling /\ Undisturbed(d.source)
    BY <2>1, <2>3 DEF KeptInv, Kept, SettledIn, Undisturbed
  <2>4. QED
    BY <2>2, <2>3
<1>2. QED
  BY <1>1, KeptInvariant, TypeInvariant, PTL

-----------------------------------------------------------------------------
(* Completion *)

\* Nothing but the host cancels or interrupts a step that is the scheduler's.
StoppedInv ==
  \A s \in Steps : Free(s) =>
    /\ state[s] \notin {"CANCELLED", "INTERRUPTED"}
    /\ disk # NoSnapshot => disk.state[s] # "CANCELLED"

Earned(G, w, st) ==
  w = "COMPLETED" =>
    \A s \in G \ (Optional \union RepairSteps) : st[s] \in {"ABSENT", "SUCCEEDED"}

EarnedInv ==
  \A G \in Grounds : G \intersect overruled = {} =>
    /\ Earned(G, wf, state)
    /\ disk # NoSnapshot => Earned(G, disk.wf, disk.state)

\* finalizeWorkflow completes a workflow only if its steps have succeeded.
LEMMA FinalizedIsEarned ==
  ASSUME StoppedInv, wf # "COMPLETED", Finalized = "COMPLETED", NEW s \in Steps,
         Free(s), s \notin Optional, state \in [Steps -> StepStates]
  PROVE  state[s] \in {"ABSENT", "SUCCEEDED"}
<1>1. CASE state[s] = "ABSENT"
  BY <1>1
<1>2. CASE state[s] # "ABSENT"
  <2>1. s \in Existing /\ s \in Required
    BY <1>2 DEF Existing, Required
  <2>2. /\ Required \intersect Unfinished = {}
        /\ \A t \in Required : state[t] \notin {"FAILED", "BLOCKED", "BLOCKED_BY_DEPENDENCY"}
        /\ \A t \in Existing : state[t] \notin {"PARTIALLY_SUCCEEDED", "SKIPPED"}
    BY DEF Finalized, TerminalWorkflow
  <2>3. state[s] \in TerminalStep
    BY <2>1, <2>2 DEF Unfinished
  <2>4. QED
    BY <2>1, <2>2, <2>3 DEF StoppedInv, TerminalStep
<1>3. QED
  BY <1>1, <1>2

LEMMA MoveStopped ==
  ASSUME EngineInv, EngineInv', StoppedInv, Move
  PROVE  StoppedInv'
<1>1. SUFFICES ASSUME NEW s \in Steps, Free(s)'
               PROVE  /\ state'[s] \notin {"CANCELLED", "INTERRUPTED"}
                      /\ disk' # NoSnapshot => disk'.state[s] # "CANCELLED"
  BY DEF StoppedInv, NoSnapshot
<1>2. Free(s)
  BY <1>1 DEF Free, Move
<1>3. state'[s] \notin {"CANCELLED", "INTERRUPTED"}
  BY <1>1, <1>2
  DEF Move, Change, StoppedInv, Open, TerminalStep, Created, Ends, Struck, Success
<1>4. QED
  BY <1>2, <1>3 DEF Move, DataMove, DiskMove, StoppedInv

LEMMA MoveEarned ==
  ASSUME EngineInv, EngineInv', BaseInv, KeptInv, StoppedInv, EarnedInv, Move
  PROVE  EarnedInv'
<1> USE DEF EngineInv, EngineTypeOK
<1>1. SUFFICES ASSUME NEW G \in Grounds, G \intersect overruled' = {}
               PROVE  /\ Earned(G, wf', state')
                      /\ disk' # NoSnapshot => Earned(G, disk'.wf, disk'.state)
  BY DEF EarnedInv, Earned, NoSnapshot
<1>2. G \intersect overruled = {} /\ Kept(G)
  BY <1>1 DEF Move, KeptInv
<1>3. ASSUME NEW s \in G \ (Optional \union RepairSteps), wf' = "COMPLETED"
      PROVE  state'[s] \in {"ABSENT", "SUCCEEDED"}
  <2>1. s \in Steps /\ Free(s) /\ Free(s)'
    BY <1>1, <1>2 DEF Grounds, Free, Exclusive
  <2>2. CASE wf # "COMPLETED"
    BY <1>3, <2>1, <2>2, FinalizedIsEarned DEF Move, DataMove
  <2>3. CASE wf = "COMPLETED"
    <3>1. state[s] \in {"ABSENT", "SUCCEEDED"}
      BY <1>2, <1>3, <2>3 DEF EarnedInv, Earned
    <3>2. CASE state[s] = "SUCCEEDED"
      BY <1>1, <1>2, <3>2, OutcomesStay DEF Success
    <3>3. CASE state[s] = "ABSENT"
      <4>1. ~Created(s)
        <5>1. ASSUME NEW t \in DOMAIN RepairStep, repairs[t] < MaxRepairs
              PROVE  RepairStep[t][repairs[t] + 1] \in RepairSteps
          <6>1. repairs[t] + 1 \in 1..MaxRepairs
            <7>1. repairs[t] \in 0..MaxRepairs
              BY StepsAssumption
            <7>2. QED
              BY <5>1, <7>1, BoundsAssumption
          <6>2. QED
            BY <6>1 DEF RepairSteps
        <5>2. QED
          BY <5>1 DEF Created
      <4>2. ~(decisions[s] > 0) /\ \A c \in Callers : ~Executes(c, s)
        BY <2>1, <3>3 DEF BaseInv, PresentInv, Asked, InFlight
      <4>3. QED
        BY <2>1, <3>3, <4>1, <4>2 DEF Move, Change, Struck, Open
    <3>4. QED
      BY <3>1, <3>2, <3>3
  <2>4. QED
    BY <2>2, <2>3
<1>4. Earned(G, wf', state')
  BY <1>3 DEF Earned
<1>5. QED
  BY <1>2, <1>4 DEF Move, DataMove, DiskMove, EarnedInv

LEMMA RestartEarned ==
  ASSUME HostTypeOK, StoppedInv, EarnedInv, NEW recovered \in BOOLEAN,
         Restart(recovered)
  PROVE  StoppedInv' /\ EarnedInv'
<1>1. /\ disk \in Snapshots /\ disk # NoSnapshot /\ disk' = disk
      /\ overruled' = overruled \union {s \in Steps : state'[s] = "INTERRUPTED"}
      /\ wf' = RestoredWorkflow(recovered)
      /\ \A s \in Steps : state'[s] = RestoredStep(s, recovered)
  BY DEF Restart, HostTypeOK
<1>2. StoppedInv'
  <2>1. SUFFICES ASSUME NEW s \in Steps, Free(s)'
                 PROVE  /\ state'[s] \notin {"CANCELLED", "INTERRUPTED"}
                        /\ disk'.state[s] # "CANCELLED"
    BY DEF StoppedInv
  <2>2. Free(s) /\ state'[s] # "INTERRUPTED"
    BY <1>1, <2>1 DEF Free
  <2>3. disk.state[s] # "CANCELLED"
    BY <1>1, <2>2 DEF StoppedInv
  <2>4. QED
    BY <1>1, <2>2, <2>3 DEF RestoredStep
<1>3. EarnedInv'
  <2>1. SUFFICES ASSUME NEW G \in Grounds, G \intersect overruled' = {}
                 PROVE  Earned(G, wf', state') /\ Earned(G, disk'.wf, disk'.state)
    BY DEF EarnedInv, Earned
  <2>2. Earned(G, disk.wf, disk.state)
    BY <1>1, <2>1 DEF EarnedInv
  <2>3. wf' = "COMPLETED" => disk.wf = "COMPLETED"
    BY <1>1 DEF RestoredWorkflow
  <2>4. \A s \in Steps : disk.state[s] \in {"ABSENT", "SUCCEEDED"} =>
          state'[s] = disk.state[s]
    BY <1>1 DEF RestoredStep
  <2>5. QED
    BY <1>1, <2>2, <2>3, <2>4 DEF Earned, Grounds
<1>4. QED
  BY <1>2, <1>3

\* COMPLETED is left only on a workflow whose required steps have all succeeded.
THEOREM CompletionEarned == Spec => []CompletionIsEarned
<1>1. Init => StoppedInv /\ EarnedInv
  BY DEF Init, StoppedInv, EarnedInv, Earned
<1>2. TypeInv /\ TypeInv' /\ InFlightIsOwned /\ BaseInv /\ KeptInv
        /\ StoppedInv /\ EarnedInv /\ [Next]_vars => StoppedInv' /\ EarnedInv'
  BY NextMove, MoveStopped, MoveEarned, RestartEarned DEF TypeInv
<1>3. EarnedInv => CompletionIsEarned
  <2> SUFFICES ASSUME EarnedInv, wf = "COMPLETED", NEW s \in Required \ RepairSteps,
                      Undisturbed(s)
               PROVE  state[s] = "SUCCEEDED"
    BY DEF CompletionIsEarned
  <2>1. PICK G \in Grounds : s \in G /\ G \intersect overruled = {}
    BY DEF Undisturbed
  <2>2. state[s] \in {"ABSENT", "SUCCEEDED"}
    BY <2>1 DEF EarnedInv, Earned, Required
  <2>3. QED
    BY <2>2 DEF Required, Existing
<1>4. QED
  BY <1>1, <1>2, <1>3, TypeInvariant, InFlightOwned, BaseInvariant, KeptInvariant, PTL
  DEF Spec
=============================================================================
