---------------------- MODULE DurableWorkflowProofs ----------------------
(* Proofs about DurableWorkflow, for every workflow, every number of       *)
(* callers and every bound.                                                *)
EXTENDS DurableWorkflow, WellFoundedInduction, TLAPS

-----------------------------------------------------------------------------
(* The order in which a tick and retryWorkflow walk their lists *)

\* A list that is not empty has a lowest sequence number.
LEMMA LeastNatural ==
  ASSUME NEW S \in SUBSET Nat, S # {}
  PROVE  \E x \in S : \A y \in S : x <= y
<1>1. PICK x \in S : \A y \in S : ~(<<y, x>> \in OpToRel(<, Nat))
  BY WFMin, NatLessThanWellFounded, Zenon
<1>2. \A y \in S : <<y, x>> \in Nat \X Nat
  OBVIOUS
<1>3. \A y \in S : ~(y < x)
  BY <1>1, <1>2, Zenon DEF OpToRel
<1>4. QED
  BY <1>3

\* The rank of a step is a number.
LEMMA RankType == \A s \in Steps : Rank(s) \in Nat
  BY StepsAssumption DEF Rank, PriorityOrder

\* scheduleOrder has a first element in every list that is not empty: what tick
\* executes next is a member of its list.
LEMMA FirstIsMember ==
  ASSUME NEW S \in SUBSET Steps, S # {}
  PROVE  First(S) \in S
<1> DEFINE Ranks == {Rank(s) : s \in S}
<1>1. PICK r \in Ranks : \A q \in Ranks : r <= q
  <2>1. Ranks \in SUBSET Nat /\ Ranks # {}
    BY RankType
  <2>2. QED
    BY <2>1, LeastNatural
<1> DEFINE T == {s \in S : Rank(s) = r}
<1>2. PICK s \in T : \A t \in T : s <= t
  <2>1. T \in SUBSET Nat /\ T # {}
    BY <1>1, StepsAssumption
  <2>2. QED
    BY <2>1, LeastNatural
<1>3. \A t \in S \ {s} : Before(s, t)
  <2> SUFFICES ASSUME NEW t \in S \ {s}
               PROVE  Before(s, t)
    OBVIOUS
  <2>1. Rank(s) <= Rank(t) /\ Rank(s) = r /\ Rank(s) \in Nat /\ Rank(t) \in Nat
    BY <1>1, RankType
  <2>2. CASE Rank(s) < Rank(t)
    BY <2>2 DEF Before
  <2>3. CASE Rank(s) = Rank(t)
    <3>1. s <= t /\ s # t /\ s \in Nat /\ t \in Nat
      BY <1>2, <2>1, <2>3, StepsAssumption
    <3>2. s < t
      BY <3>1
    <3>3. QED
      BY <2>3, <3>2 DEF Before
  <2>4. QED
    BY <2>1, <2>2, <2>3
<1>4. \E x \in S : \A t \in S \ {x} : Before(x, t)
  BY <1>3
<1>5. QED
  BY <1>4, Zenon DEF First

-----------------------------------------------------------------------------
(* Type correctness *)

\* A call that waits for the runtime executes a step.
RunHasStep == \A c \in Callers : call[c].pc = "run" => call[c].cur \in Steps

\* What a step of the scheduler preserves.
EngineInv == EngineTypeOK /\ RunHasStep

\* A record of a call that may be stored.
IsCall(k) == k \in Calls /\ (k.pc = "run" => k.cur \in Steps)

LEMMA IdleIsCall == IsCall(Idle) /\ Idle.pc = "idle"
  BY BoundsAssumption DEF IsCall, Idle, Calls, Modes

\* Where executeStep returns to, the call executes nothing.
LEMMA ReturnedIsCall ==
  ASSUME NEW k \in Calls
  PROVE  IsCall(Returned(k)) /\ Returned(k).pc # "run"
<1>1. CASE k.mode = "retryStep"
  BY <1>1, IdleIsCall DEF Returned
<1>2. CASE k.mode # "retryStep"
  BY <1>2 DEF Returned, IsCall, Calls
<1>3. QED
  BY <1>1, <1>2

\* Storing the record of one call keeps the calls well formed.
LEMMA SetCallType ==
  ASSUME call \in [Callers -> Calls], RunHasStep,
         NEW c \in Callers, NEW k, IsCall(k), SetCall(c, k)
  PROVE  call' \in [Callers -> Calls] /\ RunHasStep'
  BY DEF SetCall, IsCall, RunHasStep

\* Scheduling the ready steps, in whatever state the workflow is.
LEMMA ScheduleType ==
  ASSUME EngineTypeOK, NEW w, ScheduleReadySteps(w)
  PROVE  /\ refused' \subseteq Steps
         /\ state' \in [Steps -> StepStates]
         /\ queued' \subseteq Steps
<1>1. ReadySteps(w) \subseteq Steps
  BY DEF ReadySteps, FirstOf
<1>2. state' \in [Steps -> StepStates]
  BY DEF EngineTypeOK, ScheduleReadySteps, StepStates, TerminalStep
<1>3. QED
  BY <1>1, <1>2 DEF EngineTypeOK, ScheduleReadySteps

LEMMA FinalizedType ==
  ASSUME EngineTypeOK
  PROVE  Finalized \in WorkflowStates
  BY DEF EngineTypeOK, Finalized, WorkflowStates, TerminalWorkflow

\* executeStep up to its first await, for any step, call and options.
LEMMA ExecuteStepType ==
  ASSUME EngineInv, NEW c \in Callers, NEW k \in Calls, NEW s \in Steps,
         NEW cleared, ExecuteStep(c, k, s, cleared)
  PROVE  EngineInv'
<1> USE DEF EngineInv, EngineTypeOK
<1>1. IsCall(Returned(k))
  BY ReturnedIsCall
<1>2. IsCall([k EXCEPT !.pc = "run", !.cur = s])
  BY DEF IsCall, Calls
<1>3. UNCHANGED <<failures, repairs, output>>
  BY DEF ExecuteStep
<1>4. CASE LoseCapability(c, k, s)
  <2>1. call' \in [Callers -> Calls] /\ RunHasStep'
    BY <1>1, <1>4, SetCallType DEF LoseCapability
  <2>2. QED
    BY <1>3, <1>4, <2>1
    DEF LoseCapability, schedVars, StepStates, TerminalStep
<1>5. ASSUME refused' = IF cleared THEN refused \ {s} ELSE refused
      PROVE  refused' \subseteq Steps
  BY <1>5
<1>6. CASE WaitForApproval(c, k, s) /\ refused' \subseteq Steps
  <2>1. call' \in [Callers -> Calls] /\ RunHasStep'
    BY <1>1, <1>6, SetCallType DEF WaitForApproval
  <2>2. QED
    BY <1>3, <1>6, <2>1
    DEF WaitForApproval, schedVars, StepStates, WorkflowStates
<1>7. CASE RequestInput(c, k, s) /\ refused' \subseteq Steps
  <2>1. call' \in [Callers -> Calls] /\ RunHasStep'
    BY <1>1, <1>7, SetCallType DEF RequestInput
  <2>2. decisions' \in [Steps -> 0..2]
    BY <1>7 DEF RequestInput
  <2>3. QED
    BY <1>3, <1>7, <2>1, <2>2
    DEF RequestInput, schedVars, StepStates, WorkflowStates
<1>8. CASE Run(c, k, s) /\ refused' \subseteq Steps
  <2>1. call' \in [Callers -> Calls] /\ RunHasStep'
    BY <1>2, <1>8, SetCallType DEF Run
  <2>2. attempt' \in [Steps -> Nat]
    BY <1>8 DEF Run
  <2>3. QED
    BY <1>3, <1>8, <2>1, <2>2 DEF Run, StepStates
<1>9. QED
  BY <1>4, <1>5, <1>6, <1>7, <1>8 DEF ExecuteStep

\* startWorkflow up to its first await.
LEMMA BeginStartType ==
  ASSUME EngineInv, NEW c \in Callers, NEW k \in Calls, BeginStart(c, k)
  PROVE  EngineInv'
<1> DEFINE started == [Idle EXCEPT !.mode = "start", !.pc = "drain",
                            !.approved = k.approved]
<1>1. IsCall(started)
  BY IdleIsCall DEF IsCall, Calls, Modes
<1>2. call' \in [Callers -> Calls] /\ RunHasStep'
  BY <1>1, SetCallType DEF BeginStart, EngineInv, EngineTypeOK
<1>3. /\ refused' \subseteq Steps
      /\ state' \in [Steps -> StepStates]
      /\ queued' \subseteq Steps
  BY ScheduleType DEF BeginStart, EngineInv
<1>4. QED
  BY <1>2, <1>3 DEF BeginStart, EngineInv, EngineTypeOK, WorkflowStates

\* retryWorkflow's next step: it executes a step of the workflow, goes on, or
\* starts the workflow.
LEMMA RetryNextMoves ==
  ASSUME NEW c \in Callers, NEW k \in Calls, NEW L \in SUBSET Steps,
         RetryNext(c, k, L)
  PROVE  \/ \E j \in Calls, s \in Steps : ExecuteStep(c, j, s, TRUE)
         \/ \E j \in Calls : ReturnAtOnce(c, j)
         \/ BeginStart(c, k)
<1> DEFINE s == CHOOSE x \in L : \A y \in L : x <= y
           rest == [k EXCEPT !.rest = L \ {s}]
<1>1. CASE L = {}
  BY <1>1 DEF RetryNext
<1>2. CASE L # {}
  <2>1. s \in L
    <3>1. \E x \in L : \A y \in L : x <= y
      BY <1>2, LeastNatural, StepsAssumption
    <3>2. QED
      BY <3>1
  <2>2. rest \in Calls
    BY DEF Calls
  <2>3. ExecuteStep(c, rest, s, TRUE) \/ ReturnAtOnce(c, rest)
    BY <1>2 DEF RetryNext
  <2>4. QED
    BY <2>1, <2>2, <2>3
<1>3. QED
  BY <1>1, <1>2

LEMMA ReturnAtOnceType ==
  ASSUME EngineInv, NEW c \in Callers, NEW k \in Calls, ReturnAtOnce(c, k)
  PROVE  EngineInv'
<1>1. call' \in [Callers -> Calls] /\ RunHasStep'
  BY ReturnedIsCall, SetCallType DEF ReturnAtOnce, EngineInv, EngineTypeOK
<1>2. QED
  BY <1>1 DEF ReturnAtOnce, EngineInv, EngineTypeOK, stepVars, schedVars

LEMMA RetryNextType ==
  ASSUME EngineInv, NEW c \in Callers, NEW k \in Calls, NEW L \in SUBSET Steps,
         RetryNext(c, k, L)
  PROVE  EngineInv'
  BY RetryNextMoves, ExecuteStepType, ReturnAtOnceType, BeginStartType

\* drain between two ticks.
LEMMA DrainType ==
  ASSUME EngineInv, NEW c \in Callers, Drain(c)
  PROVE  EngineInv'
<1> USE DEF EngineInv, EngineTypeOK
<1>1. CASE call[c].ticks > 0 /\ DrainExits(c)
  <2>1. wf' = Finalized /\ SetCall(c, Idle)
    BY <1>1 DEF Drain
  <2>2. call' \in [Callers -> Calls] /\ RunHasStep'
    BY <2>1, IdleIsCall, SetCallType
  <2>3. QED
    BY <1>1, <2>1, <2>2, FinalizedType DEF Drain
<1>2. CASE ~(call[c].ticks > 0 /\ DrainExits(c))
  <2>1. ScheduleReadySteps(wf) /\ SetCall(c, NextTick(call[c]))
    BY <1>2 DEF Drain
  <2>2. IsCall(NextTick(call[c]))
    <3>1. call[c].ticks \in 0..MaxTicks /\ call[c].ticks # MaxTicks
      BY <1>2, BoundsAssumption DEF DrainExits, Calls
    <3>2. call[c].ticks + 1 \in 0..MaxTicks
      BY <3>1, BoundsAssumption
    <3>3. HasWork \in BOOLEAN
      BY DEF HasWork
    <3>4. QED
      BY <3>2, <3>3 DEF NextTick, IsCall, Calls
  <2>3. call' \in [Callers -> Calls] /\ RunHasStep'
    BY <2>1, <2>2, SetCallType
  <2>4. /\ refused' \subseteq Steps
        /\ state' \in [Steps -> StepStates]
        /\ queued' \subseteq Steps
    BY <2>1, ScheduleType
  <2>5. QED
    BY <1>2, <2>3, <2>4 DEF Drain
<1>3. QED
  BY <1>1, <1>2

\* What a call does that finalizes the workflow and goes on with record k.
Finalizes(c, k) ==
  /\ wf' = Finalized
  /\ SetCall(c, k)
  /\ UNCHANGED <<stepVars, schedVars, asked>>

\* A tick executes the next step of its list, which is a step of the workflow,
\* passes over it, or finalizes the workflow.
LEMMA TickResumesMoves ==
  ASSUME EngineInv, NEW c \in Callers, TickResumes(c)
  PROVE  \E k \in Calls :
           \/ \E s \in Steps : ExecuteStep(c, k, s, FALSE)
           \/ ReturnAtOnce(c, k)
           \/ IsCall(k) /\ k.pc # "run" /\ Finalizes(c, k)
<1> DEFINE R == IF call[c].pc = "scheduled" THEN queued ELSE call[c].rest
           s == First(Startable(R))
           k == [call[c] EXCEPT !.rest = {t \in R : Before(s, t)}]
<1>1. R \in SUBSET Steps
  BY DEF EngineInv, EngineTypeOK, Calls
<1>2. CASE Startable(R) = {}
  <2> DEFINE j == IF call[c].mode = "start"
                  THEN [call[c] EXCEPT !.pc = "drain", !.rest = {}] ELSE Idle
  <2>1. Finalizes(c, j)
    BY <1>2 DEF TickResumes, Finalizes
  <2>2. IsCall(j) /\ j.pc # "run"
    BY IdleIsCall DEF IsCall, EngineInv, EngineTypeOK, Calls
  <2>3. j \in Calls
    BY <2>2 DEF IsCall
  <2> HIDE DEF j
  <2>4. QED
    BY <2>1, <2>2, <2>3
<1>3. CASE Startable(R) # {}
  <2>1. s \in Steps
    <3>1. Startable(R) \in SUBSET Steps
      BY <1>1 DEF Startable
    <3>2. First(Startable(R)) \in Startable(R)
      BY <1>3, <3>1, FirstIsMember
    <3>3. QED
      BY <3>1, <3>2
  <2>2. k \in Calls
    <3> HIDE DEF R, s
    <3>1. QED
      BY <1>1 DEF EngineInv, EngineTypeOK, Calls
  <2>3. ExecuteStep(c, k, s, FALSE) \/ ReturnAtOnce(c, k)
    BY <1>3 DEF TickResumes
  <2> HIDE DEF k, s
  <2>4. QED
    BY <2>1, <2>2, <2>3
<1>4. QED
  BY <1>2, <1>3

LEMMA FinalizesType ==
  ASSUME EngineInv, NEW c \in Callers, NEW k, IsCall(k), Finalizes(c, k)
  PROVE  EngineInv'
<1>1. call' \in [Callers -> Calls] /\ RunHasStep'
  BY SetCallType DEF Finalizes, EngineInv, EngineTypeOK
<1>2. QED
  BY <1>1, FinalizedType
  DEF Finalizes, EngineInv, EngineTypeOK, stepVars, schedVars

LEMMA TickResumesType ==
  ASSUME EngineInv, NEW c \in Callers, TickResumes(c)
  PROVE  EngineInv'
  BY TickResumesMoves, ExecuteStepType, ReturnAtOnceType, FinalizesType

\* The runtime answers with a result.
LEMMA StepSucceedsType ==
  ASSUME EngineInv, NEW c \in Callers, StepSucceeds(c)
  PROVE  EngineInv'
<1> USE DEF EngineInv, EngineTypeOK
<1> DEFINE s == call[c].cur
<1>1. PICK result \in {"SUCCEEDED", "PARTIALLY_SUCCEEDED"} :
        /\ call[c].pc = "run"
        /\ LET st == [state EXCEPT ![s] = result]
               out == output \union {s}
               targets == {d.target : d \in Dependents(s)}
           IN  /\ state' = [t \in Steps |->
                              IF t \in targets /\ CanQueueStep(t, st, out)
                              THEN "READY" ELSE st[t]]
               /\ output' = out
        /\ running' = running \ {s}
        /\ SetCall(c, Returned(call[c]))
        /\ UNCHANGED <<wf, attempt, failures, refused, repairs, bound,
                       decisions, queued, asked, hostVars>>
  BY DEF StepSucceeds
<1>2. s \in Steps
  BY <1>1 DEF RunHasStep
<1>3. [state EXCEPT ![s] = result] \in [Steps -> StepStates]
  BY DEF StepStates, TerminalStep
<1>4. state' \in [Steps -> StepStates]
  BY <1>1, <1>3 DEF StepStates
<1>5. call' \in [Callers -> Calls] /\ RunHasStep'
  BY <1>1, ReturnedIsCall, SetCallType
<1>6. QED
  BY <1>1, <1>2, <1>4, <1>5

LEMMA RecordFailureType ==
  ASSUME failures \in [Steps -> 0..2], NEW s \in Steps, RecordFailure(s)
  PROVE  failures' \in [Steps -> 0..2]
  BY DEF RecordFailure

\* handleStepFailure retries in the same call.
LEMMA RetryAtOnceType ==
  ASSUME EngineInv, NEW c \in Callers, call[c].pc = "run",
         RetryAtOnce(c, call[c].cur)
  PROVE  EngineInv'
<1> USE DEF EngineInv, EngineTypeOK
<1> DEFINE s == call[c].cur
<1>1. s \in Steps /\ call[c] \in Calls
  BY DEF RunHasStep
<1>2. failures' \in [Steps -> 0..2]
  BY <1>1, RecordFailureType DEF RetryAtOnce
<1>3. CASE s \in lost
  <2>1. call' \in [Callers -> Calls] /\ RunHasStep'
    BY <1>1, <1>3, ReturnedIsCall, SetCallType DEF RetryAtOnce
  <2>2. QED
    BY <1>2, <1>3, <2>1 DEF RetryAtOnce, StepStates
<1>4. CASE s \notin lost
  <2>1. IsCall([call[c] EXCEPT !.changed = TRUE])
    BY <1>1 DEF IsCall, Calls
  <2>2. SetCall(c, [call[c] EXCEPT !.changed = TRUE])
    BY <1>4 DEF RetryAtOnce
  <2>3. call' \in [Callers -> Calls] /\ RunHasStep'
    BY <2>1, <2>2, SetCallType
  <2>4. attempt' \in [Steps -> Nat]
    BY <1>4 DEF RetryAtOnce
  <2>5. QED
    BY <1>1, <1>2, <1>4, <2>3, <2>4 DEF RetryAtOnce, StepStates
<1>5. QED
  BY <1>3, <1>4

\* handleStepFailure creates a repair step.
LEMMA StartRepairType ==
  ASSUME EngineInv, NEW c \in Callers, call[c].pc = "run", NEW final \in BOOLEAN,
         MayRepair(call[c].cur), StartRepair(c, call[c].cur, final)
  PROVE  EngineInv'
<1> USE DEF EngineInv, EngineTypeOK
<1> DEFINE s == call[c].cur
           r == RepairStep[s][repairs[s] + 1]
<1>1. s \in Steps /\ call[c] \in Calls
  BY DEF RunHasStep
<1>2. failures' \in [Steps -> 0..2]
  BY <1>1, RecordFailureType DEF StartRepair
<1>3. s \in DOMAIN RepairStep /\ repairs[s] \in 0..MaxRepairs
      /\ repairs[s] < MaxRepairs
  BY <1>1 DEF MayRepair
<1>4. r \in Steps
  <2>1. repairs[s] + 1 \in 1..MaxRepairs
    BY <1>3, BoundsAssumption
  <2>2. QED
    BY <1>3, <2>1, StepsAssumption
<1>5. repairs' \in [Steps -> 0..MaxRepairs]
  <2>1. repairs[s] + 1 \in 0..MaxRepairs
    BY <1>3, BoundsAssumption
  <2>2. repairs' = [repairs EXCEPT ![s] = repairs[s] + 1]
    BY DEF StartRepair
  <2>3. QED
    BY <2>1, <2>2
<1>6. state' \in [Steps -> StepStates]
  BY DEF StartRepair, StepStates
<1>7. call' \in [Callers -> Calls] /\ RunHasStep'
  BY <1>1, ReturnedIsCall, SetCallType DEF StartRepair
<1>8. refused' \subseteq Steps
  BY <1>1 DEF StartRepair, Refused
<1>9. QED
  BY <1>2, <1>5, <1>6, <1>7, <1>8 DEF StartRepair

\* handleStepFailure applies the failure policy.
LEMMA StepGivesUpType ==
  ASSUME EngineInv, NEW c \in Callers, call[c].pc = "run", NEW final \in BOOLEAN,
         StepGivesUp(c, call[c].cur, final)
  PROVE  EngineInv'
<1> USE DEF EngineInv, EngineTypeOK
<1>1. call[c].cur \in Steps /\ call[c] \in Calls
  BY DEF RunHasStep
<1>2. failures' \in [Steps -> 0..2]
  BY <1>1, RecordFailureType DEF StepGivesUp
<1>3. wf' \in WorkflowStates
  BY DEF StepGivesUp, ApplyFailurePolicy, WorkflowStates, TerminalWorkflow
<1>4. state' \in [Steps -> StepStates]
  BY DEF StepGivesUp, ApplyFailurePolicy, StepStates, TerminalStep
<1>5. refused' \subseteq Steps
  BY <1>1 DEF StepGivesUp, ApplyFailurePolicy, Refused
<1>6. call' \in [Callers -> Calls] /\ RunHasStep'
  BY <1>1, ReturnedIsCall, SetCallType DEF StepGivesUp
<1>7. QED
  BY <1>2, <1>3, <1>4, <1>5, <1>6 DEF StepGivesUp

\* What a suspended call does next.
LEMMA ContinueType ==
  ASSUME EngineInv, NEW c \in Callers, Continue(c)
  PROVE  EngineInv'
<1>1. CASE Drain(c)
  BY <1>1, DrainType
<1>2. CASE TickResumes(c)
  BY <1>2, TickResumesType
<1>3. CASE RetryWorkflowResumes(c)
  <2>1. call[c] \in Calls /\ call[c].rest \in SUBSET Steps
    BY DEF EngineInv, EngineTypeOK, Calls
  <2>2. QED
    BY <1>3, <2>1, RetryNextType DEF RetryWorkflowResumes
<1>4. CASE StepSucceeds(c)
  BY <1>4, StepSucceedsType
<1>5. CASE StepFails(c)
  <2>1. PICK final \in BOOLEAN :
          /\ call[c].pc = "run"
          /\ \/ RetryAtOnce(c, call[c].cur)
             \/ /\ MayRepair(call[c].cur)
                /\ StartRepair(c, call[c].cur, final)
             \/ StepGivesUp(c, call[c].cur, final)
    BY <1>5 DEF StepFails
  <2>2. QED
    BY <2>1, RetryAtOnceType, StartRepairType, StepGivesUpType
<1>6. QED
  BY <1>1, <1>2, <1>3, <1>4, <1>5 DEF Continue, Advance, Answer

\* A suspended call leaves the host's variables alone.
LEMMA ContinueHost ==
  ASSUME NEW c \in Callers, Continue(c)
  PROVE  UNCHANGED hostVars
  BY DEF Continue, Advance, Answer, Drain, TickResumes, RetryWorkflowResumes,
         StepSucceeds, StepFails

\* A command is counted, within its bound.
LEMMA IssueType ==
  ASSUME HostTypeOK, NEW name, Issue(name)
  PROVE  issued' \in 0..MaxCommands
  BY BoundsAssumption DEF Issue, HostTypeOK

LEMMA CommandType ==
  ASSUME HostTypeOK, NEW name, Command(name)
  PROVE  HostTypeOK'
<1>1. issued' \in 0..MaxCommands
  BY IssueType DEF Command
<1>2. QED
  BY <1>1 DEF Command, HostTypeOK

LEMMA OverruleType ==
  ASSUME HostTypeOK, NEW name, NEW S \in SUBSET Steps, Overrule(name, S)
  PROVE  HostTypeOK'
<1>1. issued' \in 0..MaxCommands
  BY IssueType DEF Overrule
<1>2. QED
  BY <1>1 DEF Overrule, HostTypeOK

LEMMA NewCallType ==
  ASSUME NEW mode \in Modes, NEW k \in NewCall(mode)
  PROVE  k \in Calls /\ IsCall([k EXCEPT !.pc = "scheduled"])
<1>1. PICK a \in BOOLEAN : k = [Idle EXCEPT !.mode = mode, !.approved = a]
  BY DEF NewCall
<1>2. k \in Calls
  BY <1>1, IdleIsCall DEF IsCall, Calls
<1>3. QED
  BY <1>2 DEF IsCall, Calls

\* Every command that starts a call.
LEMMA InvokeType ==
  ASSUME EngineInv, HostTypeOK, NEW c \in Callers, Invoke(c)
  PROVE  EngineInv' /\ HostTypeOK'
<1>1. CASE StartWorkflow(c)
  <2>1. PICK k \in NewCall("start") : BeginStart(c, k)
    BY <1>1 DEF StartWorkflow
  <2>2. k \in Calls
    BY NewCallType DEF Modes
  <2>3. QED
    BY <1>1, <2>1, <2>2, BeginStartType, CommandType DEF StartWorkflow
<1>2. CASE Tick(c)
  <2>1. PICK k \in NewCall("tick") : SetCall(c, [k EXCEPT !.pc = "scheduled"])
    BY <1>2 DEF Tick
  <2>2. IsCall([k EXCEPT !.pc = "scheduled"])
    BY NewCallType DEF Modes
  <2>3. call' \in [Callers -> Calls] /\ RunHasStep'
    BY <2>1, <2>2, SetCallType DEF EngineInv, EngineTypeOK
  <2>4. /\ refused' \subseteq Steps
        /\ state' \in [Steps -> StepStates]
        /\ queued' \subseteq Steps
    BY <1>2, ScheduleType DEF Tick, EngineInv
  <2>5. EngineInv'
    BY <1>2, <2>3, <2>4 DEF Tick, EngineInv, EngineTypeOK
  <2>6. QED
    BY <1>2, <2>5, CommandType DEF Tick
<1>3. CASE RetryStep(c)
  <2>1. PICK s \in Existing, k \in NewCall("retryStep") :
          Overrule("retryStep", {s}) /\ ExecuteStep(c, k, s, TRUE)
    BY <1>3 DEF RetryStep
  <2>2. s \in Steps /\ k \in Calls
    BY NewCallType DEF Existing, Modes
  <2>3. QED
    BY <2>1, <2>2, ExecuteStepType, OverruleType
<1>4. CASE RetryWorkflow(c)
  <2> DEFINE L == {s \in Steps : state[s] \in {"FAILED", "INTERRUPTED"}}
  <2>1. PICK k \in NewCall("retryWorkflow") : RetryNext(c, k, L)
    BY <1>4 DEF RetryWorkflow
  <2>2. k \in Calls /\ L \in SUBSET Steps
    BY NewCallType DEF Modes
  <2>3. QED
    BY <1>4, <2>1, <2>2, RetryNextType, OverruleType DEF RetryWorkflow
<1>5. QED
  BY <1>1, <1>2, <1>3, <1>4 DEF Invoke

\* Every control command.
LEMMA ControlType ==
  ASSUME EngineInv, HostTypeOK, Control
  PROVE  EngineInv' /\ HostTypeOK'
<1> USE DEF EngineInv, EngineTypeOK, RunHasStep, stepVars, schedVars,
            StepStates, TerminalStep, WorkflowStates, TerminalWorkflow
<1>1. CASE PauseWorkflow
  BY <1>1, OverruleType DEF PauseWorkflow, Unfinished, Existing
<1>2. ASSUME NEW reconfirmed \in BOOLEAN, ResumeWorkflow(reconfirmed)
      PROVE  EngineInv' /\ HostTypeOK'
  BY <1>2, CommandType DEF ResumeWorkflow
<1>3. CASE SuspendWorkflow
  BY <1>3, CommandType DEF SuspendWorkflow
<1>4. CASE CancelWorkflow
  BY <1>4, OverruleType DEF CancelWorkflow, Unfinished, Existing
<1>5. CASE ExpireWorkflow
  BY <1>5, CommandType DEF ExpireWorkflow
<1>6. CASE ValidateWorkflow
  BY <1>6, CommandType DEF ValidateWorkflow
<1>7. ASSUME NEW blockDependents \in BOOLEAN, SkipStep(blockDependents)
      PROVE  EngineInv' /\ HostTypeOK'
  <2> DEFINE B(s) == IF blockDependents THEN {d.target : d \in Dependents(s)}
                     ELSE {}
  <2>1. PICK s \in Existing :
          /\ Overrule("skip", {s} \union B(s))
          /\ state' = [t \in Steps |-> IF t \in B(s) THEN "BLOCKED_BY_DEPENDENCY"
                                     ELSE IF t = s THEN "SKIPPED" ELSE state[t]]
          /\ refused' = refused \ B(s)
    BY <1>7 DEF SkipStep
  <2>2. {s} \union B(s) \in SUBSET Steps
    BY StepsAssumption DEF Existing, Dependents
  <2>3. HostTypeOK'
    BY <2>1, <2>2, OverruleType
  <2>4. QED
    BY <1>7, <2>1, <2>3 DEF SkipStep
<1>8. CASE ResolveDecision
  <2>1. PICK s \in Steps, n \in {0, 1, 2} :
          /\ decisions' = [decisions EXCEPT ![s] = n]
          /\ output' = output \union {s}
          /\ state' = [state EXCEPT ![s] = "SUCCEEDED"]
    BY <1>8 DEF ResolveDecision
  <2>2. decisions' \in [Steps -> 0..2]
    BY <2>1
  <2>3. HostTypeOK'
    BY <1>8, CommandType DEF ResolveDecision
  <2>4. QED
    BY <1>8, <2>1, <2>2, <2>3 DEF ResolveDecision
<1>9. QED
  BY <1>1, <1>2, <1>3, <1>4, <1>5, <1>6, <1>7, <1>8 DEF Control

\* What a snapshot holds can be restored.
LEMMA SnapshotType ==
  ASSUME EngineTypeOK, NEW w \in WorkflowStates
  PROVE  [Snapshot EXCEPT !.wf = w] \in Snapshots /\ Snapshot \in Snapshots
  BY DEF EngineTypeOK, Snapshot, Snapshots

LEMMA RestartType ==
  ASSUME EngineInv, HostTypeOK, NEW recovered \in BOOLEAN, Restart(recovered)
  PROVE  EngineInv' /\ HostTypeOK'
<1>1. disk \in Snapshots
  BY DEF Restart, HostTypeOK
<1>2. wf' \in WorkflowStates
  BY <1>1
  DEF Restart, RestoredWorkflow, Snapshots, WorkflowStates, TerminalWorkflow
<1>3. state' \in [Steps -> StepStates]
  <2>1. \A s \in Steps : disk.state[s] \in StepStates
    BY <1>1 DEF Snapshots
  <2>2. \A s \in Steps : RestoredStep(s, recovered) \in StepStates
    BY <2>1 DEF RestoredStep, StepStates, TerminalStep
  <2>3. QED
    BY <2>2 DEF Restart
<1>4. refused' \subseteq Steps /\ bound' \subseteq Steps
  BY <1>1 DEF Restart, RestoredApprovals, Snapshots
<1>5. call' \in [Callers -> Calls] /\ RunHasStep'
  BY IdleIsCall DEF Restart, IsCall, RunHasStep
<1>6. EngineInv'
  BY <1>1, <1>2, <1>3, <1>4, <1>5
  DEF Restart, EngineInv, EngineTypeOK, Snapshots
<1>7. HostTypeOK'
  BY IssueType DEF Restart, HostTypeOK
<1>8. QED
  BY <1>6, <1>7

\* The host saves, shuts down, ends the process or changes the capabilities.
LEMMA HostType ==
  ASSUME EngineInv, HostTypeOK, Host
  PROVE  EngineInv' /\ HostTypeOK'
<1>1. CASE Shutdown
  <2>1. wf' \in WorkflowStates
    BY <1>1 DEF Shutdown, EngineInv, EngineTypeOK, WorkflowStates
  <2>2. disk' \in Snapshots
    BY <1>1, <2>1, SnapshotType DEF Shutdown, EngineInv
  <2>3. HostTypeOK'
    BY <1>1, <2>2, IssueType DEF Shutdown, HostTypeOK
  <2>4. QED
    BY <1>1, <2>1, <2>3
    DEF Shutdown, EngineInv, EngineTypeOK, RunHasStep, stepVars, schedVars
<1>2. CASE Save
  <2>1. disk' \in Snapshots
    BY <1>2, SnapshotType DEF Save, EngineInv, EngineTypeOK
  <2>2. HostTypeOK'
    BY <1>2, <2>1, IssueType DEF Save, HostTypeOK
  <2>3. QED
    BY <1>2, <2>2
    DEF Save, EngineInv, EngineTypeOK, RunHasStep, stepVars, schedVars
<1>3. ASSUME NEW recovered \in BOOLEAN, Restart(recovered)
      PROVE  EngineInv' /\ HostTypeOK'
  BY <1>3, RestartType
<1>4. CASE CapabilityChanges
  <2>1. HostTypeOK'
    BY <1>4, IssueType DEF CapabilityChanges, HostTypeOK
  <2>2. QED
    BY <1>4, <2>1
    DEF CapabilityChanges, EngineInv, EngineTypeOK, RunHasStep, stepVars,
        schedVars
<1>5. QED
  BY <1>1, <1>2, <1>3, <1>4 DEF Host

TypeInv == EngineInv /\ HostTypeOK

LEMMA InitTypeInv == Init => TypeInv
<1> SUFFICES ASSUME Init
             PROVE  TypeInv
  OBVIOUS
<1>1. EngineTypeOK
  <2>1. call \in [Callers -> Calls]
    BY IdleIsCall DEF Init, IsCall
  <2>2. QED
    BY <2>1, BoundsAssumption
    DEF Init, EngineTypeOK, WorkflowStates, StepStates
<1>2. RunHasStep
  BY IdleIsCall DEF Init, RunHasStep
<1>3. HostTypeOK
  BY BoundsAssumption DEF Init, HostTypeOK
<1>4. QED
  BY <1>1, <1>2, <1>3 DEF TypeInv, EngineInv

LEMMA NextTypeInv == TypeInv /\ [Next]_vars => TypeInv'
<1> SUFFICES ASSUME TypeInv, [Next]_vars
             PROVE  TypeInv'
  OBVIOUS
<1> USE DEF TypeInv
<1>1. ASSUME NEW c \in Callers, Continue(c)
      PROVE  TypeInv'
  BY <1>1, ContinueType, ContinueHost DEF HostTypeOK, hostVars
<1>2. ASSUME NEW c \in Callers, Invoke(c)
      PROVE  TypeInv'
  BY <1>2, InvokeType
<1>3. CASE Control
  BY <1>3, ControlType
<1>4. CASE Host
  BY <1>4, HostType
<1>5. CASE UNCHANGED vars
  BY <1>5
  DEF vars, stepVars, schedVars, hostVars, EngineInv, EngineTypeOK, HostTypeOK,
      RunHasStep
<1>6. QED
  BY <1>1, <1>2, <1>3, <1>4, <1>5 DEF Next

\* Every call, step and snapshot is well formed in every reachable state; a call
\* that waits for the runtime's answer knows the step the answer is for.
THEOREM TypeInvariant == Spec => []TypeInv
<1>1. TypeInv /\ [Next]_vars => TypeInv'
  BY NextTypeInv
<1>2. QED
  BY <1>1, InitTypeInv, PTL DEF Spec

\* The types of all variables.
THEOREM TypeCorrect == Spec => []TypeOK
<1>1. TypeInv => TypeOK
  BY DEF TypeInv, EngineInv, TypeOK
<1>2. QED
  BY <1>1, TypeInvariant, PTL

-----------------------------------------------------------------------------
(* Protected work is reconfirmed.  ProtectedIsReconfirmed is not inductive *)
(* alone: executeStep takes a step's own approvalRequestId for an          *)
(* approval, so that the approvals that are bound must be accounted for,   *)
(* which restore does by dropping them.                                    *)

\* An approval that is bound was requested by this process.
BoundIsAsked == bound \subseteq asked

ReconfirmedInv == BoundIsAsked /\ ProtectedIsReconfirmed

\* A call that stops, or goes on without executing a step, does no harm.
LEMMA QuietCallReconfirmed ==
  ASSUME call \in [Callers -> Calls], ReconfirmedInv, NEW c \in Callers, NEW k,
         k.pc # "run", SetCall(c, k), UNCHANGED <<bound, asked>>
  PROVE  ReconfirmedInv'
  BY DEF ReconfirmedInv, BoundIsAsked, ProtectedIsReconfirmed, Executes, SetCall

\* Neither do commands that touch neither calls nor approvals.
LEMMA CommandReconfirmed ==
  ASSUME ReconfirmedInv, UNCHANGED <<bound, asked, call>>
  PROVE  ReconfirmedInv'
  BY DEF ReconfirmedInv, BoundIsAsked, ProtectedIsReconfirmed, Executes

\* executeStep: the step starts only if its approval is bound or was given.
LEMMA ExecuteStepReconfirmed ==
  ASSUME call \in [Callers -> Calls], ReconfirmedInv, NEW c \in Callers,
         NEW k \in Calls, NEW s \in Steps, NEW cleared,
         ExecuteStep(c, k, s, cleared)
  PROVE  ReconfirmedInv'
<1>1. Returned(k).pc # "run"
  BY ReturnedIsCall
<1>2. CASE LoseCapability(c, k, s)
  BY <1>1, <1>2, QuietCallReconfirmed DEF LoseCapability
<1>3. CASE WaitForApproval(c, k, s)
  <2>1. bound' = bound \union {s} /\ asked' = asked \union {s}
        /\ SetCall(c, Returned(k))
    BY <1>3 DEF WaitForApproval
  <2>2. QED
    BY <1>1, <2>1
    DEF ReconfirmedInv, BoundIsAsked, ProtectedIsReconfirmed, Executes, SetCall
<1>4. CASE RequestInput(c, k, s)
  BY <1>1, <1>4, QuietCallReconfirmed DEF RequestInput
<1>5. CASE Run(c, k, s)
  <2> DEFINE r == [k EXCEPT !.pc = "run", !.cur = s]
  <2>1. bound' = bound /\ asked \subseteq asked' /\ SetCall(c, r)
    BY <1>5 DEF Run
  <2>2. s \in Protected => s \in asked'
    BY <1>5 DEF Run, NeedsApproval, ReconfirmedInv, BoundIsAsked
  <2>3. r.cur = s
    BY DEF Calls
  <2>4. ASSUME NEW d \in Callers, NEW t \in Protected, Executes(d, t)'
        PROVE  t \in asked'
    <3>1. CASE d = c
      BY <2>1, <2>2, <2>3, <2>4, <3>1 DEF Executes, SetCall
    <3>2. CASE d # c
      <4>1. Executes(d, t)
        BY <2>1, <2>4, <3>2 DEF Executes, SetCall
      <4>2. QED
        BY <2>1, <4>1 DEF ReconfirmedInv, ProtectedIsReconfirmed
    <3>3. QED
      BY <3>1, <3>2
  <2>5. QED
    BY <2>1, <2>4 DEF ReconfirmedInv, BoundIsAsked, ProtectedIsReconfirmed
<1>6. QED
  BY <1>2, <1>3, <1>4, <1>5 DEF ExecuteStep

LEMMA ReturnAtOnceReconfirmed ==
  ASSUME call \in [Callers -> Calls], ReconfirmedInv, NEW c \in Callers,
         NEW k \in Calls, ReturnAtOnce(c, k)
  PROVE  ReconfirmedInv'
  BY ReturnedIsCall, QuietCallReconfirmed DEF ReturnAtOnce, stepVars

LEMMA BeginStartReconfirmed ==
  ASSUME call \in [Callers -> Calls], ReconfirmedInv, NEW c \in Callers, NEW k,
         BeginStart(c, k)
  PROVE  ReconfirmedInv'
<1> DEFINE started == [Idle EXCEPT !.mode = "start", !.pc = "drain",
                            !.approved = k.approved]
<1>1. started.pc = "drain"
  BY DEF Idle
<1>2. QED
  BY <1>1, QuietCallReconfirmed DEF BeginStart

LEMMA RetryNextReconfirmed ==
  ASSUME call \in [Callers -> Calls], ReconfirmedInv, NEW c \in Callers,
         NEW k \in Calls, NEW L \in SUBSET Steps, RetryNext(c, k, L)
  PROVE  ReconfirmedInv'
  BY RetryNextMoves, ExecuteStepReconfirmed, ReturnAtOnceReconfirmed,
     BeginStartReconfirmed

\* What a suspended call does next.  A retry in the same call executes a step
\* that was executing already.
LEMMA ContinueReconfirmed ==
  ASSUME EngineInv, ReconfirmedInv, NEW c \in Callers, Continue(c)
  PROVE  ReconfirmedInv'
<1>1. call \in [Callers -> Calls] /\ call[c] \in Calls
      /\ call[c].rest \in SUBSET Steps
  BY DEF EngineInv, EngineTypeOK, Calls
<1>2. Returned(call[c]).pc # "run"
  BY <1>1, ReturnedIsCall
<1>3. CASE Drain(c)
  <2>1. SetCall(c, Idle) \/ SetCall(c, NextTick(call[c]))
    BY <1>3 DEF Drain
  <2>2. Idle.pc # "run" /\ NextTick(call[c]).pc # "run"
    BY <1>1, IdleIsCall DEF NextTick, Calls
  <2>3. UNCHANGED <<bound, asked>>
    BY <1>3 DEF Drain
  <2>4. QED
    BY <1>1, <2>1, <2>2, <2>3, QuietCallReconfirmed
<1>4. CASE TickResumes(c)
  <2>1. PICK k \in Calls :
           \/ \E s \in Steps : ExecuteStep(c, k, s, FALSE)
           \/ ReturnAtOnce(c, k)
           \/ IsCall(k) /\ k.pc # "run" /\ Finalizes(c, k)
    BY <1>4, TickResumesMoves
  <2>2. CASE Finalizes(c, k) /\ k.pc # "run"
    BY <1>1, <2>2, QuietCallReconfirmed DEF Finalizes, stepVars
  <2>3. QED
    BY <1>1, <2>1, <2>2, ExecuteStepReconfirmed, ReturnAtOnceReconfirmed
<1>5. CASE RetryWorkflowResumes(c)
  BY <1>1, <1>5, RetryNextReconfirmed DEF RetryWorkflowResumes
<1>6. CASE StepSucceeds(c)
  <2>1. SetCall(c, Returned(call[c])) /\ UNCHANGED <<bound, asked>>
    BY <1>6 DEF StepSucceeds
  <2>2. QED
    BY <1>1, <1>2, <2>1, QuietCallReconfirmed
<1>7. CASE StepFails(c)
  <2>1. PICK final \in BOOLEAN :
          /\ call[c].pc = "run"
          /\ \/ RetryAtOnce(c, call[c].cur)
             \/ StartRepair(c, call[c].cur, final)
             \/ StepGivesUp(c, call[c].cur, final)
    BY <1>7 DEF StepFails
  <2>2. UNCHANGED <<bound, asked>>
    BY <2>1 DEF RetryAtOnce, StartRepair, StepGivesUp
  <2>3. SetCall(c, Returned(call[c]))
          \/ SetCall(c, [call[c] EXCEPT !.changed = TRUE])
    BY <2>1 DEF RetryAtOnce, StartRepair, StepGivesUp
  <2>4. CASE SetCall(c, [call[c] EXCEPT !.changed = TRUE])
    <3>1. /\ call'[c].pc = call[c].pc /\ call'[c].cur = call[c].cur
          /\ \A d \in Callers \ {c} : call'[d] = call[d]
      BY <1>1, <2>4 DEF SetCall, Calls
    <3>2. \A d \in Callers, t \in Steps : Executes(d, t)' => Executes(d, t)
      BY <3>1 DEF Executes
    <3>3. QED
      BY <2>2, <3>2, ProtectedAssumption
      DEF ReconfirmedInv, BoundIsAsked, ProtectedIsReconfirmed
  <2>5. QED
    BY <1>1, <1>2, <2>2, <2>3, <2>4, QuietCallReconfirmed
<1>8. QED
  BY <1>3, <1>4, <1>5, <1>6, <1>7 DEF Continue, Advance, Answer

LEMMA InvokeReconfirmed ==
  ASSUME EngineInv, ReconfirmedInv, NEW c \in Callers, Invoke(c)
  PROVE  ReconfirmedInv'
<1>1. call \in [Callers -> Calls]
  BY DEF EngineInv, EngineTypeOK
<1>2. CASE StartWorkflow(c)
  BY <1>1, <1>2, BeginStartReconfirmed DEF StartWorkflow
<1>3. CASE Tick(c)
  <2>1. PICK k \in NewCall("tick") : SetCall(c, [k EXCEPT !.pc = "scheduled"])
    BY <1>3 DEF Tick
  <2>2. [k EXCEPT !.pc = "scheduled"].pc # "run"
    BY NewCallType DEF Modes, Calls
  <2>3. UNCHANGED <<bound, asked>>
    BY <1>3 DEF Tick
  <2>4. QED
    BY <1>1, <2>1, <2>2, <2>3, QuietCallReconfirmed
<1>4. CASE RetryStep(c)
  <2>1. PICK s \in Existing, k \in NewCall("retryStep") :
          ExecuteStep(c, k, s, TRUE)
    BY <1>4 DEF RetryStep
  <2>2. s \in Steps /\ k \in Calls
    BY NewCallType DEF Existing, Modes
  <2>3. QED
    BY <1>1, <2>1, <2>2, ExecuteStepReconfirmed
<1>5. CASE RetryWorkflow(c)
  <2> DEFINE L == {s \in Steps : state[s] \in {"FAILED", "INTERRUPTED"}}
  <2>1. PICK k \in NewCall("retryWorkflow") : RetryNext(c, k, L)
    BY <1>5 DEF RetryWorkflow
  <2>2. k \in Calls /\ L \in SUBSET Steps
    BY NewCallType DEF Modes
  <2>3. QED
    BY <1>1, <2>1, <2>2, RetryNextReconfirmed
<1>6. QED
  BY <1>2, <1>3, <1>4, <1>5 DEF Invoke

LEMMA ControlReconfirmed ==
  ASSUME ReconfirmedInv, Control
  PROVE  ReconfirmedInv'
<1>1. UNCHANGED <<bound, asked, call>>
  BY DEF Control, PauseWorkflow, ResumeWorkflow, SuspendWorkflow,
         CancelWorkflow, ExpireWorkflow, ValidateWorkflow, SkipStep,
         ResolveDecision, stepVars
<1>2. QED
  BY <1>1, CommandReconfirmed

\* A restart forgets the approvals together with the requests, and no call
\* survives it.
LEMMA HostReconfirmed ==
  ASSUME ReconfirmedInv, Host
  PROVE  ReconfirmedInv'
<1>1. CASE Shutdown \/ Save \/ CapabilityChanges
  <2>1. UNCHANGED <<bound, asked, call>>
    BY <1>1 DEF Shutdown, Save, CapabilityChanges, stepVars
  <2>2. QED
    BY <2>1, CommandReconfirmed
<1>2. ASSUME NEW recovered \in BOOLEAN, Restart(recovered)
      PROVE  ReconfirmedInv'
  <2>1. bound' = {} /\ call' = [c \in Callers |-> Idle]
    BY <1>2 DEF Restart, RestoredApprovals
  <2>2. \A c \in Callers : call'[c].pc # "run"
    BY <2>1, IdleIsCall
  <2>3. QED
    BY <2>1, <2>2
    DEF ReconfirmedInv, BoundIsAsked, ProtectedIsReconfirmed, Executes
<1>3. QED
  BY <1>1, <1>2 DEF Host

LEMMA NextReconfirmed ==
  ASSUME EngineInv, ReconfirmedInv, [Next]_vars
  PROVE  ReconfirmedInv'
<1>1. CASE UNCHANGED vars
  BY <1>1, CommandReconfirmed DEF vars, stepVars
<1>2. QED
  BY <1>1, ContinueReconfirmed, InvokeReconfirmed, ControlReconfirmed,
     HostReconfirmed
  DEF Next

\* restore and recover never let protected work go on by itself: whatever
\* commands, calls, crashes and restarts come in whatever order, a protected
\* step executes only in a process that asked for its approval or was given it.
THEOREM ProtectedReconfirmed == Spec => []ProtectedIsReconfirmed
<1>1. Init => ReconfirmedInv
  <2> SUFFICES ASSUME Init
               PROVE  ReconfirmedInv
    OBVIOUS
  <2>1. bound = {} /\ \A c \in Callers : call[c].pc # "run"
    BY IdleIsCall DEF Init
  <2>2. QED
    BY <2>1 DEF ReconfirmedInv, BoundIsAsked, ProtectedIsReconfirmed, Executes
<1>2. TypeInv /\ ReconfirmedInv /\ [Next]_vars => ReconfirmedInv'
  BY NextReconfirmed DEF TypeInv
<1>3. ReconfirmedInv => ProtectedIsReconfirmed
  BY DEF ReconfirmedInv
<1>4. QED
  BY <1>1, <1>2, <1>3, TypeInvariant, PTL DEF Spec

-----------------------------------------------------------------------------
(* No step is forgotten half-way.  InFlightIsOwned is inductive once a     *)
(* call that waits for the runtime is known to execute a step.             *)

\* A step that starts no step: owners stay, nothing new runs, what is QUEUED is
\* in the queue.
LEMMA OwnersStay ==
  ASSUME InFlightIsOwned,
         \A d \in Callers, t \in Steps : Executes(d, t) => Executes(d, t)',
         running' \subseteq running,
         \A t \in Steps : state'[t] = "RUNNING" => state[t] = "RUNNING",
         \A t \in Steps : state'[t] = "QUEUED" => t \in queued'
  PROVE  InFlightIsOwned'
  BY DEF InFlightIsOwned

\* A call that executes nothing owns nothing, whatever it does next.
LEMMA IdleOwnsNothing ==
  ASSUME call \in [Callers -> Calls], NEW c \in Callers, call[c].pc # "run",
         NEW k, SetCall(c, k)
  PROVE  \A d \in Callers, t \in Steps : Executes(d, t) => Executes(d, t)'
  BY DEF Executes, SetCall

\* The call that executes a step brings it to its end.
LEMMA OwnerEnds ==
  ASSUME call \in [Callers -> Calls], InFlightIsOwned, NEW c \in Callers, NEW k,
         SetCall(c, k), running' = running \ {call[c].cur}, queued' = queued,
         \A t \in Steps :
           state'[t] \in {"QUEUED", "RUNNING"} =>
             t # call[c].cur /\ state'[t] = state[t]
  PROVE  InFlightIsOwned'
<1>1. \A t \in Steps : state'[t] = "QUEUED" => t \in queued'
  BY DEF InFlightIsOwned
<1>2. ASSUME NEW t \in Steps, state'[t] = "RUNNING" \/ t \in running'
      PROVE  \E d \in Callers : Executes(d, t)'
  <2>1. t # call[c].cur /\ (state[t] = "RUNNING" \/ t \in running)
    BY <1>2
  <2>2. PICK d \in Callers : Executes(d, t)
    BY <2>1 DEF InFlightIsOwned
  <2>3. d # c
    BY <2>1, <2>2 DEF Executes
  <2>4. Executes(d, t)'
    BY <2>2, <2>3 DEF Executes, SetCall
  <2>5. QED
    BY <2>4
<1>3. QED
  BY <1>1, <1>2 DEF InFlightIsOwned

\* scheduleReadySteps puts every step it makes QUEUED into the queue.
LEMMA ScheduleListsQueued ==
  ASSUME InFlightIsOwned, NEW w, ScheduleReadySteps(w)
  PROVE  /\ \A t \in Steps : state'[t] = "RUNNING" => state[t] = "RUNNING"
         /\ \A t \in Steps : state'[t] = "QUEUED" => t \in queued'
  BY DEF InFlightIsOwned, ScheduleReadySteps

LEMMA ExecuteStepOwned ==
  ASSUME EngineInv, InFlightIsOwned, NEW c \in Callers, call[c].pc # "run",
         NEW k \in Calls, NEW s \in Steps, NEW cleared,
         ExecuteStep(c, k, s, cleared)
  PROVE  InFlightIsOwned'
<1> USE DEF EngineInv, EngineTypeOK
<1>1. CASE LoseCapability(c, k, s) \/ WaitForApproval(c, k, s)
             \/ RequestInput(c, k, s)
  <2>1. SetCall(c, Returned(k)) /\ UNCHANGED schedVars
    BY <1>1 DEF LoseCapability, WaitForApproval, RequestInput
  <2>2. PICK x \in {"BLOCKED", "WAITING_FOR_APPROVAL", "WAITING_FOR_INPUT"} :
          state' = [state EXCEPT ![s] = x]
    BY <1>1 DEF LoseCapability, WaitForApproval, RequestInput
  <2>3. \A d \in Callers, t \in Steps : Executes(d, t) => Executes(d, t)'
    BY <2>1, IdleOwnsNothing
  <2>4. running' \subseteq running
    BY <2>1 DEF schedVars
  <2>5. /\ \A t \in Steps : state'[t] = "RUNNING" => state[t] = "RUNNING"
        /\ \A t \in Steps : state'[t] = "QUEUED" => t \in queued'
    BY <2>1, <2>2 DEF InFlightIsOwned, schedVars
  <2>6. QED
    BY <2>3, <2>4, <2>5, OwnersStay
<1>2. CASE Run(c, k, s)
  <2> DEFINE r == [k EXCEPT !.pc = "run", !.cur = s]
  <2>1. /\ SetCall(c, r)
        /\ state' = [state EXCEPT ![s] = "RUNNING"]
        /\ running' = running \union {s}
        /\ queued' = queued \ {s}
    BY <1>2 DEF Run
  <2>2. \A d \in Callers, t \in Steps : Executes(d, t) => Executes(d, t)'
    BY <2>1, IdleOwnsNothing
  <2>3. Executes(c, s)'
    <3>1. r.pc = "run" /\ r.cur = s
      BY DEF Calls
    <3>2. call'[c] = r
      BY <2>1 DEF SetCall
    <3>3. QED
      BY <3>1, <3>2 DEF Executes
  <2>4. QED
    BY <2>1, <2>2, <2>3 DEF InFlightIsOwned
<1>3. QED
  BY <1>1, <1>2 DEF ExecuteStep

LEMMA ReturnAtOnceOwned ==
  ASSUME EngineInv, InFlightIsOwned, NEW c \in Callers, call[c].pc # "run",
         NEW k, ReturnAtOnce(c, k)
  PROVE  InFlightIsOwned'
<1>1. SetCall(c, Returned(k)) /\ UNCHANGED <<state, running, queued>>
  BY DEF ReturnAtOnce, stepVars, schedVars
<1>2. \A d \in Callers, t \in Steps : Executes(d, t) => Executes(d, t)'
  BY <1>1, IdleOwnsNothing DEF EngineInv, EngineTypeOK
<1>3. QED
  BY <1>1, <1>2 DEF InFlightIsOwned

\* A call that schedules the ready steps and goes on executing nothing.
LEMMA ScheduleOwned ==
  ASSUME EngineInv, InFlightIsOwned, NEW c \in Callers, call[c].pc # "run",
         NEW k, SetCall(c, k), NEW w, ScheduleReadySteps(w), running' = running
  PROVE  InFlightIsOwned'
<1>1. \A d \in Callers, t \in Steps : Executes(d, t) => Executes(d, t)'
  BY IdleOwnsNothing DEF EngineInv, EngineTypeOK
<1>2. QED
  BY <1>1, ScheduleListsQueued, OwnersStay

LEMMA BeginStartOwned ==
  ASSUME EngineInv, InFlightIsOwned, NEW c \in Callers, call[c].pc # "run",
         NEW k, BeginStart(c, k)
  PROVE  InFlightIsOwned'
  BY ScheduleOwned DEF BeginStart

LEMMA RetryNextOwned ==
  ASSUME EngineInv, InFlightIsOwned, NEW c \in Callers, call[c].pc # "run",
         NEW k \in Calls, NEW L \in SUBSET Steps, RetryNext(c, k, L)
  PROVE  InFlightIsOwned'
  BY RetryNextMoves, ExecuteStepOwned, ReturnAtOnceOwned, BeginStartOwned

\* The runtime's answer, a result: the step is over.
LEMMA StepSucceedsOwned ==
  ASSUME EngineInv, InFlightIsOwned, NEW c \in Callers, StepSucceeds(c)
  PROVE  InFlightIsOwned'
<1> USE DEF EngineInv, EngineTypeOK
<1> DEFINE s == call[c].cur
<1>1. PICK result \in {"SUCCEEDED", "PARTIALLY_SUCCEEDED"} :
        state' = [t \in Steps |->
                    IF /\ t \in {d.target : d \in Dependents(s)}
                       /\ CanQueueStep(t, [state EXCEPT ![s] = result],
                                       output \union {s})
                    THEN "READY" ELSE [state EXCEPT ![s] = result][t]]
  BY DEF StepSucceeds
<1>2. \A t \in Steps : state'[t] \in {"QUEUED", "RUNNING"} =>
                         t # s /\ state'[t] = state[t]
  BY <1>1
<1>3. /\ SetCall(c, Returned(call[c]))
      /\ running' = running \ {s} /\ queued' = queued
  BY DEF StepSucceeds
<1>4. QED
  BY <1>2, <1>3, OwnerEnds

\* The runtime's answer, an error: the step is retried by the same call, waits
\* for its repair, or is over.
LEMMA StepFailsOwned ==
  ASSUME EngineInv, InFlightIsOwned, NEW c \in Callers, StepFails(c)
  PROVE  InFlightIsOwned'
<1> USE DEF EngineInv, EngineTypeOK
<1> DEFINE s == call[c].cur
<1>1. PICK final \in BOOLEAN :
        /\ call[c].pc = "run"
        /\ RetryAtOnce(c, s) \/ StartRepair(c, s, final) \/ StepGivesUp(c, s, final)
  BY DEF StepFails
<1>2. s \in Steps /\ call[c] \in Calls
  BY <1>1 DEF RunHasStep
<1>3. CASE RetryAtOnce(c, s) /\ s \notin lost
  <2> DEFINE k == [call[c] EXCEPT !.changed = TRUE]
  <2>1. /\ SetCall(c, k)
        /\ state' = [state EXCEPT ![s] = "RUNNING"]
        /\ running' = running \union {s}
        /\ queued' = queued \ {s}
    BY <1>3 DEF RetryAtOnce
  <2>2. k.pc = call[c].pc /\ k.cur = s
    BY <1>2 DEF Calls
  <2>3. \A d \in Callers, t \in Steps : Executes(d, t) => Executes(d, t)'
    <3> HIDE DEF k
    <3>1. QED
      BY <2>1, <2>2 DEF Executes, SetCall
  <2>4. Executes(c, s)
    BY <1>1 DEF Executes
  <2>5. QED
    BY <1>2, <2>1, <2>3, <2>4 DEF InFlightIsOwned
<1>4. CASE RetryAtOnce(c, s) /\ s \in lost
  <2>1. /\ SetCall(c, Returned(call[c]))
        /\ state' = [state EXCEPT ![s] = "BLOCKED"]
        /\ running' = running \ {s} /\ queued' = queued
    BY <1>4 DEF RetryAtOnce
  <2>2. \A t \in Steps : state'[t] \in {"QUEUED", "RUNNING"} =>
                           t # s /\ state'[t] = state[t]
    BY <2>1
  <2>3. QED
    BY <2>1, <2>2, OwnerEnds
<1>5. CASE StartRepair(c, s, final)
  <2> DEFINE r == RepairStep[s][repairs[s] + 1]
  <2>1. /\ SetCall(c, Returned(call[c]))
        /\ state' = [state EXCEPT ![s] = "REPAIRING", ![r] = "CREATED"]
        /\ running' = running \ {s} /\ queued' = queued
    BY <1>5 DEF StartRepair
  <2>2. \A t \in Steps : state'[t] \in {"QUEUED", "RUNNING"} =>
                           t # s /\ state'[t] = state[t]
    <3> HIDE DEF r
    <3>1. QED
      BY <2>1
  <2>3. QED
    BY <2>1, <2>2, OwnerEnds
<1>6. CASE StepGivesUp(c, s, final)
  <2>1. /\ SetCall(c, Returned(call[c]))
        /\ running' = running \ {s} /\ queued' = queued
    BY <1>6 DEF StepGivesUp
  <2>2. \A t \in Steps : state'[t] \in {"QUEUED", "RUNNING"} =>
                           t # s /\ state'[t] = state[t]
    BY <1>6 DEF StepGivesUp, ApplyFailurePolicy
  <2>3. QED
    BY <2>1, <2>2, OwnerEnds
<1>7. QED
  BY <1>1, <1>3, <1>4, <1>5, <1>6

LEMMA ContinueOwned ==
  ASSUME EngineInv, InFlightIsOwned, NEW c \in Callers, Continue(c)
  PROVE  InFlightIsOwned'
<1>1. call \in [Callers -> Calls] /\ call[c] \in Calls
      /\ call[c].rest \in SUBSET Steps
  BY DEF EngineInv, EngineTypeOK, Calls
<1>2. CASE Drain(c)
  <2>1. call[c].pc # "run" /\ running' = running
    BY <1>2 DEF Drain
  <2>2. CASE ScheduleReadySteps(wf) /\ SetCall(c, NextTick(call[c]))
    BY <2>1, <2>2, ScheduleOwned
  <2>3. CASE SetCall(c, Idle) /\ UNCHANGED <<state, queued>>
    <3>1. \A d \in Callers, t \in Steps : Executes(d, t) => Executes(d, t)'
      BY <1>1, <2>1, <2>3, IdleOwnsNothing
    <3>2. QED
      BY <2>1, <2>3, <3>1 DEF InFlightIsOwned
  <2>4. QED
    BY <1>2, <2>2, <2>3 DEF Drain
<1>3. CASE TickResumes(c)
  <2>1. call[c].pc # "run"
    BY <1>3 DEF TickResumes
  <2>2. PICK k \in Calls :
           \/ \E s \in Steps : ExecuteStep(c, k, s, FALSE)
           \/ ReturnAtOnce(c, k)
           \/ IsCall(k) /\ k.pc # "run" /\ Finalizes(c, k)
    BY <1>3, TickResumesMoves
  <2>3. CASE Finalizes(c, k)
    <3>1. SetCall(c, k) /\ UNCHANGED <<state, running, queued>>
      BY <2>3 DEF Finalizes, stepVars, schedVars
    <3>2. \A d \in Callers, t \in Steps : Executes(d, t) => Executes(d, t)'
      BY <1>1, <2>1, <3>1, IdleOwnsNothing
    <3>3. QED
      BY <3>1, <3>2 DEF InFlightIsOwned
  <2>4. QED
    BY <2>1, <2>2, <2>3, ExecuteStepOwned, ReturnAtOnceOwned
<1>4. CASE RetryWorkflowResumes(c)
  <2>1. call[c].pc # "run"
    BY <1>4 DEF RetryWorkflowResumes
  <2>2. QED
    BY <1>1, <1>4, <2>1, RetryNextOwned DEF RetryWorkflowResumes
<1>5. QED
  BY <1>2, <1>3, <1>4, StepSucceedsOwned, StepFailsOwned DEF Continue, Advance, Answer

LEMMA InvokeOwned ==
  ASSUME EngineInv, InFlightIsOwned, NEW c \in Callers, Invoke(c)
  PROVE  InFlightIsOwned'
<1>1. call[c].pc # "run"
  BY IdleIsCall DEF Invoke, StartWorkflow, Tick, RetryStep, RetryWorkflow
<1>2. CASE StartWorkflow(c)
  BY <1>1, <1>2, BeginStartOwned DEF StartWorkflow
<1>3. CASE Tick(c)
  BY <1>1, <1>3, ScheduleOwned DEF Tick
<1>4. CASE RetryStep(c)
  <2>1. PICK s \in Existing, k \in NewCall("retryStep") :
          ExecuteStep(c, k, s, TRUE)
    BY <1>4 DEF RetryStep
  <2>2. s \in Steps /\ k \in Calls
    BY NewCallType DEF Existing, Modes
  <2>3. QED
    BY <1>1, <2>1, <2>2, ExecuteStepOwned
<1>5. CASE RetryWorkflow(c)
  <2> DEFINE L == {s \in Steps : state[s] \in {"FAILED", "INTERRUPTED"}}
  <2>1. PICK k \in NewCall("retryWorkflow") : RetryNext(c, k, L)
    BY <1>5 DEF RetryWorkflow
  <2>2. k \in Calls /\ L \in SUBSET Steps
    BY NewCallType DEF Modes
  <2>3. QED
    BY <1>1, <2>1, <2>2, RetryNextOwned
<1>6. QED
  BY <1>2, <1>3, <1>4, <1>5 DEF Invoke

\* Control commands take steps out of the queue and out of runningSteps only
\* together with their states.
LEMMA ControlOwned ==
  ASSUME EngineInv, InFlightIsOwned, Control
  PROVE  InFlightIsOwned'
<1>1. \A d \in Callers, t \in Steps : Executes(d, t) => Executes(d, t)'
  <2>1. UNCHANGED call
    BY DEF Control, PauseWorkflow, ResumeWorkflow, SuspendWorkflow,
           CancelWorkflow, ExpireWorkflow, ValidateWorkflow, SkipStep,
           ResolveDecision
  <2>2. QED
    BY <2>1 DEF Executes
<1>2. CASE PauseWorkflow \/ CancelWorkflow
  <2>1. PICK x \in {"PAUSED", "CANCELLED"} :
          /\ state' = [s \in Steps |-> IF s \in Unfinished THEN x ELSE state[s]]
          /\ running' = running \ Unfinished
          /\ queued' = queued \ Unfinished
    BY <1>2 DEF PauseWorkflow, CancelWorkflow
  <2>2. \A t \in Steps : state[t] \in {"QUEUED", "RUNNING"} => t \in Unfinished
    BY DEF Unfinished, Existing, TerminalStep
  <2>3. \A t \in Steps : state'[t] \notin {"QUEUED", "RUNNING"}
    BY <2>1, <2>2
  <2>4. QED
    BY <1>1, <2>1, <2>3, OwnersStay
<1>3. CASE \/ \E reconfirmed \in BOOLEAN : ResumeWorkflow(reconfirmed)
           \/ SuspendWorkflow \/ ExpireWorkflow \/ ValidateWorkflow
  <2>1. UNCHANGED <<state, running, queued>>
    BY <1>3 DEF ResumeWorkflow, SuspendWorkflow, ExpireWorkflow,
                ValidateWorkflow, stepVars, schedVars
  <2>2. QED
    BY <1>1, <2>1 DEF InFlightIsOwned
<1>4. ASSUME NEW blockDependents \in BOOLEAN, SkipStep(blockDependents)
      PROVE  InFlightIsOwned'
  <2>1. UNCHANGED <<running, queued>>
    BY <1>4 DEF SkipStep, schedVars
  <2>2. \A t \in Steps : state'[t] \in {"QUEUED", "RUNNING"}
                           => state'[t] = state[t]
    BY <1>4 DEF SkipStep
  <2>3. QED
    BY <1>1, <2>1, <2>2 DEF InFlightIsOwned
<1>5. CASE ResolveDecision
  <2>1. UNCHANGED <<running, queued>>
    BY <1>5 DEF ResolveDecision, schedVars
  <2>2. \A t \in Steps : state'[t] \in {"QUEUED", "RUNNING"}
                           => state'[t] = state[t]
    BY <1>5 DEF ResolveDecision, EngineInv, EngineTypeOK
  <2>3. QED
    BY <1>1, <2>1, <2>2 DEF InFlightIsOwned
<1>6. QED
  BY <1>2, <1>3, <1>4, <1>5 DEF Control

\* restore leaves no step QUEUED or RUNNING.
LEMMA HostOwned ==
  ASSUME EngineInv, InFlightIsOwned, Host
  PROVE  InFlightIsOwned'
<1>1. CASE Shutdown \/ Save \/ CapabilityChanges
  <2>1. UNCHANGED <<state, running, queued, call>>
    BY <1>1 DEF Shutdown, Save, CapabilityChanges, stepVars, schedVars
  <2>2. QED
    BY <2>1 DEF InFlightIsOwned, Executes
<1>2. ASSUME NEW recovered \in BOOLEAN, Restart(recovered)
      PROVE  InFlightIsOwned'
  <2>1. /\ state' = [s \in Steps |-> RestoredStep(s, recovered)]
        /\ running' = {}
    BY <1>2 DEF Restart
  <2>2. \A s \in Steps : RestoredStep(s, recovered) \notin {"QUEUED", "RUNNING"}
    BY DEF RestoredStep
  <2>3. QED
    BY <2>1, <2>2 DEF InFlightIsOwned
<1>3. QED
  BY <1>1, <1>2 DEF Host

\* No step is orphaned: in every reachable state a QUEUED step is in the queue and
\* a RUNNING step, or one in runningSteps, has a call that waits for its answer,
\* whatever failed, was cancelled, skipped, paused, saved and restarted.
THEOREM InFlightOwned == Spec => []InFlightIsOwned
<1>1. Init => InFlightIsOwned
  BY DEF Init, InFlightIsOwned
<1>2. TypeInv /\ InFlightIsOwned /\ [Next]_vars => InFlightIsOwned'
  <2> SUFFICES ASSUME EngineInv, InFlightIsOwned, [Next]_vars
               PROVE  InFlightIsOwned'
    BY DEF TypeInv
  <2>1. CASE UNCHANGED vars
    BY <2>1 DEF vars, stepVars, schedVars, InFlightIsOwned, Executes
  <2>2. QED
    BY <2>1, ContinueOwned, InvokeOwned, ControlOwned, HostOwned DEF Next
<1>3. QED
  BY <1>1, <1>2, TypeInvariant, PTL DEF Spec
=============================================================================
