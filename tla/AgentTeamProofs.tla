-------------------------- MODULE AgentTeamProofs --------------------------
(* Proofs about AgentTeam, for every set of assignments, dependencies and  *)
(* callers, and every bound.                                               *)
EXTENDS AgentTeam, FiniteSetTheorems, WellFoundedInduction, TLAPS

-----------------------------------------------------------------------------
(* The inductive invariant *)

\* What counts as resolved has a result.
SubmittedHaveResults ==
  \A a \in Assignments : assignment[a].state = "SUBMITTED" => result[a] # "NONE"

IInv == TypeOK /\ SubmittedHaveResults /\ ResultsFollowDependencies

\* What every step guarantees: a result stays, one comes only from an execution,
\* an execution starts only with its dependencies submitted, and SUBMITTED comes
\* with a result.
Guarantee ==
  /\ \A a \in Assignments : result[a] # "NONE" => result'[a] # "NONE"
  /\ \A a \in Assignments :
       result'[a] # "NONE" => result[a] # "NONE" \/ \E c \in Callers : a \in Executing(c)
  /\ \A c \in Callers, a \in Assignments :
       a \in Executing(c)' => a \in Executing(c) \/ Unresolved(a) = {}
  /\ \A a \in Assignments :
       assignment'[a].state = "SUBMITTED" =>
         assignment[a].state = "SUBMITTED" \/ result'[a] # "NONE"

\* The guarantee carries the invariant over a step.
LEMMA GuaranteeKeeps ==
  ASSUME IInv, Guarantee, TypeOK'
  PROVE  IInv'
<1>1. SubmittedHaveResults'
  BY DEF IInv, SubmittedHaveResults, Guarantee
<1>2. ResultsFollowDependencies'
  <2> SUFFICES ASSUME NEW a \in Assignments,
                      result'[a] # "NONE" \/ \E c \in Callers : a \in Executing(c)',
                      NEW d \in Dependencies[a]
               PROVE  result'[d] # "NONE"
    BY DEF ResultsFollowDependencies
  <2>1. d \in Assignments
    BY TeamAssumption
  <2>2. \/ result[a] # "NONE"
        \/ \E c \in Callers : a \in Executing(c)
        \/ Unresolved(a) = {}
    BY DEF Guarantee
  <2>3. CASE Unresolved(a) = {}
    <3>1. assignment[d].state = "SUBMITTED"
      BY <2>3 DEF Unresolved
    <3>2. QED
      BY <2>1, <3>1 DEF IInv, SubmittedHaveResults, Guarantee
  <2>4. CASE result[a] # "NONE" \/ \E c \in Callers : a \in Executing(c)
    <3>1. result[d] # "NONE"
      BY <2>4 DEF IInv, ResultsFollowDependencies
    <3>2. QED
      BY <2>1, <3>1 DEF Guarantee
  <2>5. QED
    BY <2>2, <2>3, <2>4
<1>3. QED
  BY <1>1, <1>2 DEF IInv

-----------------------------------------------------------------------------
(* The steps *)

\* A batch is of pending assignments whose dependencies are submitted.
LEMMA BatchIsReady ==
  /\ Batch \subseteq Assignments
  /\ \A a \in Batch : Unresolved(a) = {}
  BY DEF Batch, Pending

\* reconcileTeam gives a team one of three states.
LEMMA ReconciledType ==
  Reconciled \in {"COMPLETED", "PARTIALLY_COMPLETED", "FAILED"}
  BY DEF Reconciled

\* A round of a plan.
LEMMA RoundStep ==
  ASSUME TypeOK, commands' \in 0..MaxCommands, NEW c \in Callers,
         NEW round \in 0..MaximumAssignments, NEW state \in TeamStates,
         Executing(c) = {}, Round(c, round, state)
  PROVE  TypeOK' /\ Guarantee
<1>1. CASE /\ round < MaximumAssignments
           /\ Enter(Batch)
           /\ call' = [call EXCEPT ![c] = [kind |-> "PLAN", round |-> round + 1,
                                           gathering |-> Batch, asking |-> {}]]
           /\ team' = state /\ UNCHANGED result
  <2>1. round + 1 \in 0..MaximumAssignments
    BY <1>1, TeamAssumption
  <2>2. call' \in [Callers -> Calls]
    BY <1>1, <2>1, BatchIsReady DEF TypeOK, Calls
  <2>3. assignment' \in [Assignments ->
          [state : AssignmentStates, revision : 0..MaximumRevisionRounds]]
    BY <1>1 DEF TypeOK, Enter, AssignmentStates
  <2>4. TypeOK'
    BY <1>1, <2>2, <2>3 DEF TypeOK
  <2>5. \A a \in Assignments :
          assignment'[a].state = "SUBMITTED" => assignment[a].state = "SUBMITTED"
    BY <1>1 DEF TypeOK, Enter
  <2>6. \A e \in Callers, a \in Assignments :
          a \in Executing(e)' => a \in Executing(e) \/ Unresolved(a) = {}
    <3> SUFFICES ASSUME NEW e \in Callers, NEW a \in Assignments, a \in Executing(e)'
                 PROVE  a \in Executing(e) \/ Unresolved(a) = {}
      OBVIOUS
    <3>1. CASE e = c
      <4>1. a \in Batch
        BY <1>1, <3>1 DEF TypeOK, Calls, Executing
      <4>2. QED
        BY <4>1, BatchIsReady
    <3>2. CASE e # c
      BY <1>1, <3>2 DEF TypeOK, Executing
    <3>3. QED
      BY <3>1, <3>2
  <2>7. QED
    BY <1>1, <2>4, <2>5, <2>6 DEF Guarantee
<1>2. CASE /\ team' = Reconciled /\ call' = [call EXCEPT ![c] = Idle]
           /\ UNCHANGED <<assignment, result>>
  <2>1. call' \in [Callers -> Calls] /\ team' \in TeamStates
    BY <1>2, ReconciledType, TeamAssumption DEF TypeOK, Calls, Idle, TeamStates
  <2>2. \A e \in Callers, a \in Assignments : a \in Executing(e)' => a \in Executing(e)
    BY <1>2 DEF TypeOK, Calls, Executing, Idle
  <2>3. QED
    BY <1>2, <2>1, <2>2 DEF TypeOK, Guarantee
<1>3. QED
  BY <1>1, <1>2 DEF Round

\* A command is one of a bounded number.
LEMMA CommandStep ==
  ASSUME TypeOK, Command
  PROVE  commands' \in 0..MaxCommands
  BY TeamAssumption DEF TypeOK, Command

\* startAssignment.
LEMMA BeginStep ==
  ASSUME TypeOK, NEW c \in Callers, NEW a \in Assignments,
         NEW revision \in 0..MaximumRevisionRounds, Begin(c, a, revision)
  PROVE  /\ commands' \in 0..MaxCommands
         /\ assignment' \in [Assignments ->
              [state : AssignmentStates, revision : 0..MaximumRevisionRounds]]
         /\ call' \in [Callers -> Calls]
         /\ \A e \in Callers, b \in Assignments :
              b \in Executing(e)' => b \in Executing(e) \/ Unresolved(b) = {}
         /\ \A b \in Assignments :
              assignment'[b].state = "SUBMITTED" => assignment[b].state = "SUBMITTED"
<1>1. commands' \in 0..MaxCommands
  BY CommandStep DEF Begin, Calling
<1>2. CASE /\ assignment' = [assignment EXCEPT
                ![a] = [state |-> "WAITING_FOR_DEPENDENCY", revision |-> revision]]
           /\ UNCHANGED call
  BY <1>1, <1>2 DEF TypeOK, AssignmentStates, Executing
<1>3. CASE /\ Unresolved(a) = {}
           /\ assignment' = [assignment EXCEPT
                ![a] = [state |-> "GATHERING_CONTEXT", revision |-> revision]]
           /\ call' = [call EXCEPT ![c] = [kind |-> "ASSIGNMENT", round |-> 0,
                                           gathering |-> {a}, asking |-> {}]]
  <2>1. /\ assignment' \in [Assignments ->
             [state : AssignmentStates, revision : 0..MaximumRevisionRounds]]
        /\ \A b \in Assignments :
             assignment'[b].state = "SUBMITTED" => assignment[b].state = "SUBMITTED"
    BY <1>3 DEF TypeOK, AssignmentStates
  <2>2. call' \in [Callers -> Calls]
    BY <1>3, TeamAssumption DEF TypeOK, Calls
  <2>3. \A e \in Callers, b \in Assignments :
          b \in Executing(e)' => b \in Executing(e) \/ b = a
    BY <1>3 DEF TypeOK, Executing
  <2>4. QED
    BY <1>1, <1>3, <2>1, <2>2, <2>3
<1>4. QED
  BY <1>2, <1>3 DEF Begin

\* The calls that leave every execution alone, or end them all.
LEMMA TeamStep ==
  ASSUME TypeOK, TeamCommands
  PROVE  TypeOK' /\ Guarantee
<1>1. Command
  BY DEF TeamCommands, MarkTeam, CancelTeam, ReconcileTeam, Recover, Restart
<1>2. commands' \in 0..MaxCommands
  BY <1>1, CommandStep
<1>3. CASE \E state \in {"PAUSED", "COMPLETED", "FAILED"} : MarkTeam(state)
  BY <1>2, <1>3 DEF TypeOK, MarkTeam, TeamStates, Guarantee, Executing
<1>4. CASE CancelTeam
  <2>1. /\ assignment' \in [Assignments ->
             [state : AssignmentStates, revision : 0..MaximumRevisionRounds]]
        /\ \A a \in Assignments :
             assignment'[a].state = "SUBMITTED" => assignment[a].state = "SUBMITTED"
    BY <1>4 DEF TypeOK, CancelTeam, AssignmentStates
  <2>2. QED
    BY <1>2, <1>4, <2>1 DEF TypeOK, CancelTeam, TeamStates, Guarantee, Executing
<1>5. CASE ReconcileTeam
  BY <1>2, <1>5, ReconciledType DEF TypeOK, ReconcileTeam, TeamStates, Guarantee, Executing
<1>6. CASE Recover
  <2>1. /\ assignment' \in [Assignments ->
             [state : AssignmentStates, revision : 0..MaximumRevisionRounds]]
        /\ \A a \in Assignments :
             assignment'[a].state = "SUBMITTED" => assignment[a].state = "SUBMITTED"
    BY <1>6 DEF TypeOK, Recover, AssignmentStates
  <2>2. QED
    BY <1>2, <1>6, <2>1 DEF TypeOK, Recover, TeamStates, Guarantee, Executing
<1>7. CASE Restart
  <2>1. call' \in [Callers -> Calls] /\ \A c \in Callers : Executing(c)' = {}
    BY <1>7, TeamAssumption DEF Restart, Calls, Idle, Executing
  <2>2. QED
    BY <1>2, <1>7, <2>1 DEF TypeOK, Restart, Guarantee
<1>8. QED
  BY <1>3, <1>4, <1>5, <1>6, <1>7 DEF TeamCommands

\* Setting an assignment aside, and reviewing its result.
LEMMA AssignmentStep ==
  ASSUME TypeOK, NEW a \in Assignments, AssignmentCommands(a)
  PROVE  TypeOK' /\ Guarantee
<1>1. Command
  BY DEF AssignmentCommands, SetAside, Review
<1>2. commands' \in 0..MaxCommands
  BY <1>1, CommandStep
<1>3. CASE \E state \in {"WAITING_FOR_DEPENDENCY", "CANCELLED"} : SetAside(a, state)
  <2>1. /\ assignment' \in [Assignments ->
             [state : AssignmentStates, revision : 0..MaximumRevisionRounds]]
        /\ \A b \in Assignments :
             assignment'[b].state = "SUBMITTED" => assignment[b].state = "SUBMITTED"
    BY <1>3 DEF TypeOK, SetAside, AssignmentStates
  <2>2. QED
    BY <1>2, <1>3, <2>1 DEF TypeOK, SetAside, Guarantee, Executing
<1>4. CASE \E status \in Dispositions : Review(a, status)
  <2>1. PICK status \in Dispositions : Review(a, status)
    BY <1>4
  <2>2. /\ result' \in [Assignments -> Dispositions \cup {"NONE"}]
        /\ \A b \in Assignments : result'[b] # "NONE" <=> result[b] # "NONE"
    BY <2>1 DEF TypeOK, Review, Dispositions
  <2>3. QED
    BY <1>2, <2>1, <2>2 DEF TypeOK, Review, Guarantee, Executing
<1>5. QED
  BY <1>3, <1>4 DEF AssignmentCommands

\* What a caller does, and what it awaited returning.
LEMMA CallerStep ==
  ASSUME TypeOK, NEW c \in Callers, CallerSteps(c)
  PROVE  TypeOK' /\ Guarantee
<1>1. CASE StartTeam(c) \/ ResumeTeam(c)
  <2>1. Calling(c) /\ Round(c, 0, "ACTIVE")
    BY <1>1 DEF StartTeam, ResumeTeam
  <2>2. commands' \in 0..MaxCommands /\ Executing(c) = {}
    BY <2>1, CommandStep DEF Calling, Executing, Idle
  <2>3. 0 \in 0..MaximumAssignments /\ "ACTIVE" \in TeamStates
    BY TeamAssumption DEF TeamStates
  <2>4. QED
    BY <2>1, <2>2, <2>3, RoundStep
<1>2. CASE NextRound(c)
  <2>1. /\ Round(c, call[c].round, team) /\ Executing(c) = {}
        /\ commands' = commands
    BY <1>2 DEF NextRound
  <2>2. /\ call[c].round \in 0..MaximumAssignments /\ team \in TeamStates
        /\ commands' \in 0..MaxCommands
    BY <2>1 DEF TypeOK, Calls
  <2>3. QED
    BY <2>1, <2>2, RoundStep
<1>3. ASSUME NEW a \in Assignments, StartAssignment(c, a)
      PROVE  TypeOK' /\ Guarantee
  <2>1. assignment[a].revision \in 0..MaximumRevisionRounds
    BY DEF TypeOK
  <2>2. Begin(c, a, assignment[a].revision) /\ UNCHANGED <<team, result>>
    BY <1>3 DEF StartAssignment
  <2>3. QED
    BY <2>1, <2>2, BeginStep DEF TypeOK, Guarantee
<1>4. ASSUME NEW a \in Assignments, ReviseAssignment(c, a)
      PROVE  TypeOK' /\ Guarantee
  <2>1. assignment[a].revision + 1 \in 0..MaximumRevisionRounds
    BY <1>4, TeamAssumption DEF TypeOK, ReviseAssignment
  <2>2. /\ Begin(c, a, assignment[a].revision + 1)
        /\ team' = team
        /\ \/ result' = result
           \/ result[a] # "NONE" /\ result' = [result EXCEPT ![a] = "NEEDS_REVISION"]
    BY <1>4 DEF ReviseAssignment
  <2>3. /\ result' \in [Assignments -> Dispositions \cup {"NONE"}]
        /\ \A b \in Assignments : result'[b] # "NONE" <=> result[b] # "NONE"
    BY <2>2 DEF TypeOK, Dispositions
  <2>4. QED
    BY <2>1, <2>2, <2>3, BeginStep DEF TypeOK, Guarantee
<1>5. ASSUME NEW a \in Assignments, ContextBuilt(c, a)
      PROVE  TypeOK' /\ Guarantee
  <2>1. /\ assignment' \in [Assignments ->
             [state : AssignmentStates, revision : 0..MaximumRevisionRounds]]
        /\ \A b \in Assignments :
             assignment'[b].state = "SUBMITTED" => assignment[b].state = "SUBMITTED"
    BY <1>5 DEF TypeOK, ContextBuilt, AssignmentStates
  <2>2. /\ call' \in [Callers -> Calls]
        /\ \A e \in Callers : Executing(e)' = Executing(e)
    <3>1. call \in [Callers -> Calls] /\ a \in call[c].gathering
      BY <1>5 DEF TypeOK, ContextBuilt
    <3>2. call[c] \in Calls
      BY <3>1
    <3> DEFINE next == [call[c] EXCEPT !.gathering = @ \ {a}, !.asking = @ \cup {a}]
    <3>3. next \in Calls /\ next.gathering \cup next.asking = Executing(c)
      BY <3>1, <3>2 DEF Calls, Executing
    <3>4. call' = [call EXCEPT ![c] = next]
      BY <1>5, <3>1, <3>2 DEF ContextBuilt, Calls
    <3> HIDE DEF next
    <3>5. QED
      BY <3>1, <3>3, <3>4 DEF Executing
  <2>3. QED
    BY <1>5, <2>1, <2>2 DEF TypeOK, ContextBuilt, Guarantee
<1>6. ASSUME NEW a \in Assignments, AgentAnswered(c, a)
      PROVE  TypeOK' /\ Guarantee
  <2>1. assignment' \in [Assignments ->
          [state : AssignmentStates, revision : 0..MaximumRevisionRounds]]
    BY <1>6 DEF TypeOK, AgentAnswered, AssignmentStates
  <2>2. /\ result' \in [Assignments -> Dispositions \cup {"NONE"}]
        /\ result'[a] # "NONE"
        /\ \A b \in Assignments \ {a} : result'[b] = result[b]
        /\ \A b \in Assignments \ {a} : assignment'[b] = assignment[b]
    BY <1>6 DEF TypeOK, AgentAnswered, Dispositions
  <2>3. /\ call' \in [Callers -> Calls]
        /\ \A e \in Callers : Executing(e)' \subseteq Executing(e)
    <3> DEFINE next == IF call[c].kind = "ASSIGNMENT" THEN Idle
                       ELSE [call[c] EXCEPT !.asking = @ \ {a}]
    <3>1. call \in [Callers -> Calls] /\ call[c] \in Calls
      BY DEF TypeOK
    <3>2. next \in Calls /\ next.gathering \cup next.asking \subseteq Executing(c)
      BY <3>1, TeamAssumption DEF Calls, Executing, Idle
    <3>3. call' = [call EXCEPT ![c] = next]
      BY <1>6 DEF AgentAnswered
    <3> HIDE DEF next
    <3>4. QED
      BY <3>1, <3>2, <3>3 DEF Executing
  <2>4. a \in Executing(c)
    BY <1>6 DEF AgentAnswered, Executing
  <2>5. TypeOK'
    BY <1>6, <2>1, <2>2, <2>3 DEF TypeOK, AgentAnswered
  <2>6. QED
    BY <2>2, <2>3, <2>4, <2>5 DEF Guarantee
<1>7. QED
  BY <1>1, <1>2, <1>3, <1>4, <1>5, <1>6 DEF CallerSteps

-----------------------------------------------------------------------------
(* The theorems *)

\* The inductive invariant of every behaviour.
THEOREM Invariance == Spec => []IInv
<1>1. Init => IInv
  <2> SUFFICES ASSUME Init PROVE IInv
    OBVIOUS
  <2>1. TypeOK
    BY TeamAssumption
    DEF Init, TypeOK, TeamStates, AssignmentStates, Dispositions, Calls, Idle
  <2>2. QED
    BY <2>1 DEF Init, IInv, SubmittedHaveResults, ResultsFollowDependencies,
                Executing, Idle
<1>2. IInv /\ [Next]_vars => IInv'
  <2> SUFFICES ASSUME IInv, [Next]_vars PROVE IInv'
    OBVIOUS
  <2>1. CASE Next
    <3>1. TypeOK
      BY DEF IInv
    <3>2. TypeOK' /\ Guarantee
      BY <2>1, <3>1, TeamStep, AssignmentStep, CallerStep DEF Next
    <3>3. QED
      BY <3>2, GuaranteeKeeps
  <2>2. CASE UNCHANGED vars
    BY <2>2 DEF vars, IInv, TypeOK, SubmittedHaveResults, ResultsFollowDependencies,
                Executing
  <2>3. QED
    BY <2>1, <2>2
<1>3. QED
  BY <1>1, <1>2, PTL DEF Spec

\* The variables of a team keep their types, and no assignment is revised more than
\* maximumRevisionRounds times.
THEOREM TypeCorrect == Spec => []TypeOK
  BY Invariance, PTL DEF IInv

\* No assignment is executed before each of its dependencies has a result, for every
\* graph of dependencies and any number of plans and calls that overlap.
THEOREM DependenciesComeFirst == Spec => []ResultsFollowDependencies
  BY Invariance, PTL DEF IInv
-----------------------------------------------------------------------------
(* Plans that return *)

\* The dependencies have no cycle: among any assignments one needs none of them.
\* hasCycle refuses a plan that has one.
NoCycle ==
  \A S \in SUBSET Assignments : S # {} => \E a \in S : Dependencies[a] \intersect S = {}

\* What an assignment needs includes its dependencies, and theirs.
LEMMA AncestorsClosed ==
  ASSUME NEW a \in Assignments
  PROVE  /\ Dependencies[a] \subseteq Ancestors(a)
         /\ \A d \in Ancestors(a) : Dependencies[d] \subseteq Ancestors(a)
<1>1. \A b \in Assignments : Dependencies[b] \subseteq Assignments
  BY TeamAssumption
<1>2. QED
  BY <1>1 DEF Ancestors

\* scheduleOrder puts one assignment first.
LEMMA FirstExists ==
  ASSUME NEW S \in SUBSET Assignments, S # {}
  PROVE  \E a \in S : \A b \in S : ~(Rank[b] < Rank[a])
<1> DEFINE R == {Rank[b] : b \in S}
<1>1. R \in SUBSET Nat /\ R # {}
  BY TeamAssumption
<1>2. PICK n \in R : \A m \in R : ~(<<m, n>> \in OpToRel(<, Nat))
  <2> HIDE DEF R
  <2>1. QED
    BY <1>1, WFMin, NatLessThanWellFounded, Zenon
<1>3. \A m \in R : <<m, n>> \in Nat \X Nat
  BY <1>1
<1>4. \A m \in R : ~(m < n)
  BY <1>2, <1>3, Zenon DEF OpToRel
<1>5. QED
  BY <1>2, <1>4

\* So a batch is empty only if nothing is ready.
LEMMA EmptyBatch ==
  ASSUME Batch = {}
  PROVE  \A a \in Pending : Unresolved(a) # {}
<1> DEFINE ready == {a \in Pending : Unresolved(a) = {}}
<1> SUFFICES ASSUME ready # {} PROVE FALSE
  OBVIOUS
<1>1. ready \in SUBSET Assignments
  BY DEF Pending
<1>2. PICK a \in ready : \A b \in ready : ~(Rank[b] < Rank[a])
  BY <1>1, FirstExists
<1>3. {b \in ready : Rank[b] < Rank[a]} = {}
  BY <1>2
<1>4. Cardinality({b \in ready : Rank[b] < Rank[a]}) < MaximumConcurrent
  BY <1>3, FS_EmptySet, TeamAssumption
<1>5. a \in Batch
  BY <1>2, <1>4 DEF Batch
<1>6. QED
  BY <1>5

\* If nothing is ready, following what holds an assignment back ends at one that
\* was cancelled or has failed, since it cannot go on for ever without a cycle.
LEMMA HeldBackBySettled ==
  ASSUME NoCycle, TypeOK, Batch = {}, NEW a \in Pending
  PROVE  \E d \in Ancestors(a) : assignment[d].state \in {"CANCELLED", "FAILED"}
<1> SUFFICES ASSUME \A d \in Ancestors(a) : assignment[d].state \notin {"CANCELLED", "FAILED"}
             PROVE  FALSE
  OBVIOUS
<1> DEFINE S == ({a} \union Ancestors(a)) \intersect Pending
<1>1. a \in Assignments /\ S \in SUBSET Assignments /\ S # {}
  BY DEF Pending
<1>2. \A b \in S : \E d \in Dependencies[b] : d \in S
  <2> SUFFICES ASSUME NEW b \in S PROVE \E d \in Dependencies[b] : d \in S
    OBVIOUS
  <2>1. PICK d \in Dependencies[b] : assignment[d].state # "SUBMITTED"
    BY EmptyBatch DEF Unresolved
  <2>2. d \in Ancestors(a) /\ d \in Assignments
    BY <1>1, <2>1, AncestorsClosed DEF Ancestors
  <2>3. QED
    BY <2>1, <2>2 DEF Pending
<1> HIDE DEF S
<1>3. PICK b \in S : Dependencies[b] \intersect S = {}
  BY <1>1 DEF NoCycle
<1>4. QED
  BY <1>2, <1>3

\* A plan without a cycle that returns early leaves behind only what needs something
\* cancelled or failed, whatever else is at work on the team.  (Assignments that
\* need each other would be left behind without that.)
THEOREM NothingLeftBehind ==
  ASSUME NoCycle
  PROVE  Spec => PlansLeaveNothingBehind
<1> DEFINE Left(a) ==
      \/ assignment[a].state \in {"SUBMITTED", "CANCELLED", "FAILED"}
      \/ \E d \in Ancestors(a) : assignment[d].state \in {"CANCELLED", "FAILED"}
<1>1. ASSUME TypeOK, NEW c \in Callers, NextRound(c), call'[c] = Idle,
             call[c].round < MaximumAssignments, NEW a \in Assignments
      PROVE  Left(a)
  <2>1. call \in [Callers -> Calls] /\ call[c].round \in 0..MaximumAssignments
    BY <1>1 DEF TypeOK, Calls
  <2>2. Batch = {}
    BY <1>1, <2>1, TeamAssumption DEF NextRound, Round, Idle
  <2>3. QED
    BY <2>2, HeldBackBySettled, <1>1 DEF Pending
<1>2. TypeOK /\ [Next]_vars =>
        [\A c \in Callers :
           (NextRound(c) /\ call'[c] = Idle /\ call[c].round < MaximumAssignments) =>
             \A a \in Assignments : Left(a)]_vars
  BY <1>1
<1>3. QED
  BY <1>2, TypeCorrect, PTL DEF Spec, PlansLeaveNothingBehind
=============================================================================
