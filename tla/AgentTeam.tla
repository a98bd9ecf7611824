----------------------------- MODULE AgentTeam -----------------------------
(***************************************************************************)
(* One team of src/src/multi-agent-coordination-engine.js: the calls that  *)
(* execute its assignments, one batch after the other as a delegation plan *)
(* or one by one, and those that pause, cancel, retry, review or reconcile *)
(* while they await the runtime.                                           *)
(*                                                                         *)
(* Both awaits of executeAssignment go to LeviApplicationRuntime, and what *)
(* either throws becomes a deterministic result, so a result is born       *)
(* ACCEPTED and only recover marks an assignment FAILED.  Such results     *)
(* hold no proposals and equal findings: no conflict is ever detected.     *)
(* Left out: the coordinator's own assignment, which no plan executes, and *)
(* validateTeamResult, which leaves a team VALIDATING.                     *)
(***************************************************************************)
EXTENDS Naturals, FiniteSets

CONSTANTS
  Assignments,              \* the assignments a delegation plan executes
  Dependencies,             \* dependencyIds, those that name an assignment
  Rank,                     \* the place of an assignment in scheduleOrder
  Callers,                  \* the calls of the engine that may overlap
  MaximumConcurrent,        \* maximumConcurrentAssignments, 1 unless parallel
  MaximumAssignments,       \* maximumAssignmentsPerTeam, the coordinator's included
  MaximumRevisionRounds,
  MaxCommands               \* bound of the model: calls made in a behaviour

ASSUME TeamAssumption ==
  /\ IsFiniteSet(Assignments) /\ Cardinality(Assignments) < MaximumAssignments
  /\ Dependencies \in [Assignments -> SUBSET Assignments]
  /\ Rank \in [Assignments -> Nat]
  /\ \A a, b \in Assignments : Rank[a] = Rank[b] => a = b
  /\ MaximumConcurrent \in Nat \ {0} /\ MaximumAssignments \in Nat
  /\ MaximumRevisionRounds \in Nat /\ MaxCommands \in Nat

VARIABLES
  team,        \* team.state
  assignment,  \* engine.assignments: state and revision
  result,      \* the status of the result an assignment refers to
  call,        \* what each caller awaits
  commands     \* calls made so far

vars == <<team, assignment, result, call, commands>>

TeamStates == {"CREATED", "ACTIVE", "PAUSED", "CANCELLED", "COMPLETED",
  "PARTIALLY_COMPLETED", "FAILED"}

AssignmentStates == {"QUEUED", "WAITING_FOR_DEPENDENCY", "GATHERING_CONTEXT",
  "RUNNING", "SUBMITTED", "CANCELLED", "FAILED"}

Dispositions == {"ACCEPTED", "REJECTED", "NEEDS_REVISION"}

Calls == [kind : {"IDLE", "PLAN", "ASSIGNMENT"}, round : 0..MaximumAssignments,
          gathering : SUBSET Assignments, asking : SUBSET Assignments]

Idle == [kind |-> "IDLE", round |-> 0, gathering |-> {}, asking |-> {}]

Executing(c) == call[c].gathering \cup call[c].asking

----------------------------------------------------------------------------
(* Scheduling. *)

\* Mutant of Unresolved: a dependency that failed or was cancelled no longer
\* holds its dependents back.
UnresolvedWhilePending(a) ==
  {d \in Dependencies[a] : assignment[d].state \notin {"SUBMITTED", "CANCELLED", "FAILED"}}

\* The dependencies that hold an assignment back.
Unresolved(a) == {d \in Dependencies[a] : assignment[d].state # "SUBMITTED"}

\* Mutant of Pending: what a direct call left waiting is not taken up.
PendingUnlessWaiting ==
  {a \in Assignments : assignment[a].state \in {"QUEUED", "GATHERING_CONTEXT", "RUNNING"}}

\* The assignments a plan still has to execute: whatever is not settled, those
\* another call is executing too.
Pending == {a \in Assignments : assignment[a].state \notin {"SUBMITTED", "CANCELLED", "FAILED"}}

\* The next ones it starts together.
Batch ==
  LET ready == {a \in Pending : Unresolved(a) = {}}
  IN {a \in ready : Cardinality({b \in ready : Rank[b] < Rank[a]}) < MaximumConcurrent}

\* The state reconcileTeam gives the team, by the results there are.
Reconciled ==
  LET collected == {a \in Assignments : result[a] # "NONE"}
      accepted  == {a \in collected : result[a] = "ACCEPTED"}
  IN IF collected # {} /\ accepted = collected THEN "COMPLETED"
     ELSE IF accepted # {} THEN "PARTIALLY_COMPLETED" ELSE "FAILED"

Enter(started) ==
  assignment' = [a \in Assignments |-> IF a \in started
    THEN [assignment[a] EXCEPT !.state = "GATHERING_CONTEXT"] ELSE assignment[a]]

\* Mutant of Round: a plan with nothing ready waits for its dependencies.
RoundWhilePending(c, round, state) ==
  \/ /\ round < MaximumAssignments /\ Batch # {}
     /\ Enter(Batch)
     /\ call' = [call EXCEPT ![c] = [kind |-> "PLAN", round |-> round + 1,
                                     gathering |-> Batch, asking |-> {}]]
     /\ team' = state /\ UNCHANGED result
  \/ /\ round = MaximumAssignments \/ Pending = {}
     /\ team' = Reconciled
     /\ call' = [call EXCEPT ![c] = Idle]
     /\ UNCHANGED <<assignment, result>>

\* From the head of the loop of executeDelegationPlan to its await, with the
\* team in the given state, or on to the end of reconcileTeam.  A plan that finds
\* nothing ready makes the team WAITING, then reconciles it all the same.
Round(c, round, state) ==
  \/ /\ round < MaximumAssignments /\ Batch # {}
     /\ Enter(Batch)
     /\ call' = [call EXCEPT ![c] = [kind |-> "PLAN", round |-> round + 1,
                                     gathering |-> Batch, asking |-> {}]]
     /\ team' = state /\ UNCHANGED result
  \/ /\ round = MaximumAssignments \/ Batch = {}
     /\ team' = Reconciled
     /\ call' = [call EXCEPT ![c] = Idle]
     /\ UNCHANGED <<assignment, result>>

----------------------------------------------------------------------------
(* The calls of the engine. *)

Command == commands < MaxCommands /\ commands' = commands + 1

Calling(c) == Command /\ call[c] = Idle

\* startTeam, then executeDelegationPlan.
StartTeam(c) ==
  /\ Calling(c) /\ team \notin {"CANCELLED", "COMPLETED", "FAILED"}
  /\ Round(c, 0, "ACTIVE")

\* resumeTeam makes the team ACTIVE whatever it was: startTeam never returns early.
ResumeTeam(c) == Calling(c) /\ Round(c, 0, "ACTIVE")

\* pauseTeam, completeTeam and failTeam write the state and touch nothing else.
MarkTeam(state) ==
  /\ Command /\ team' = state
  /\ UNCHANGED <<assignment, result, call>>

\* cancelTeam cancels what is not settled; the calls in flight go on.
CancelTeam ==
  /\ Command /\ team' = "CANCELLED"
  /\ assignment' = [a \in Assignments |-> IF a \in Pending
       THEN [assignment[a] EXCEPT !.state = "CANCELLED"] ELSE assignment[a]]
  /\ UNCHANGED <<result, call>>

\* reconcileTeam, called for itself.
ReconcileTeam ==
  /\ Command /\ team' = Reconciled
  /\ UNCHANGED <<assignment, result, call>>

\* startAssignment, with the revision the caller gave it.
Begin(c, a, revision) ==
  /\ Calling(c)
  /\ \/ /\ Unresolved(a) # {}
        /\ assignment' = [assignment EXCEPT
             ![a] = [state |-> "WAITING_FOR_DEPENDENCY", revision |-> revision]]
        /\ UNCHANGED call
     \/ /\ Unresolved(a) = {}
        /\ assignment' = [assignment EXCEPT
             ![a] = [state |-> "GATHERING_CONTEXT", revision |-> revision]]
        /\ call' = [call EXCEPT ![c] = [kind |-> "ASSIGNMENT", round |-> 0,
                                        gathering |-> {a}, asking |-> {}]]

\* startAssignment and resumeAssignment, whatever the assignment's state.
StartAssignment(c, a) ==
  Begin(c, a, assignment[a].revision) /\ UNCHANGED <<team, result>>

\* Mutant of ReviseAssignment: one more revision than there may be.
ReviseOnceMore(c, a) ==
  /\ assignment[a].revision <= MaximumRevisionRounds
  /\ Begin(c, a, assignment[a].revision + 1)
  /\ \/ UNCHANGED result
     \/ result[a] # "NONE" /\ result' = [result EXCEPT ![a] = "NEEDS_REVISION"]
  /\ UNCHANGED team

\* retryAssignment and reviseAssignment; requestRevision marks the result first.
\* Beyond the maximum they throw: requestRevision has marked it by then.
ReviseAssignment(c, a) ==
  /\ assignment[a].revision < MaximumRevisionRounds
  /\ Begin(c, a, assignment[a].revision + 1)
  /\ \/ UNCHANGED result
     \/ result[a] # "NONE" /\ result' = [result EXCEPT ![a] = "NEEDS_REVISION"]
  /\ UNCHANGED team

\* pauseAssignment and cancelAssignment, whatever the assignment's state.
SetAside(a, state) ==
  /\ Command /\ assignment' = [assignment EXCEPT ![a].state = state]
  /\ UNCHANGED <<team, result, call>>

\* acceptResult, rejectResult, and a requestRevision that throws.
Review(a, status) ==
  /\ Command /\ result[a] # "NONE"
  /\ status = "NEEDS_REVISION" => assignment[a].revision >= MaximumRevisionRounds
  /\ result' = [result EXCEPT ![a] = status]
  /\ UNCHANGED <<team, assignment, call>>

Interrupted == {"QUEUED", "GATHERING_CONTEXT", "RUNNING"}

\* recover, on an engine that may still execute what it marks FAILED.
Recover ==
  /\ Command
  /\ assignment' = [a \in Assignments |-> IF assignment[a].state \in Interrupted
       THEN [assignment[a] EXCEPT !.state = "FAILED"] ELSE assignment[a]]
  /\ team' = IF team = "ACTIVE" THEN "PAUSED" ELSE team
  /\ UNCHANGED <<result, call>>

\* shutdown, which saves, and initialize of a new engine, which loads: what the
\* engine awaited is gone, and the states are as they were.
Restart ==
  /\ Command /\ call' = [c \in Callers |-> Idle]
  /\ UNCHANGED <<team, assignment, result>>

----------------------------------------------------------------------------
(* The awaits of executeAssignment, and what follows each. *)

\* buildAssignmentContext returned: RUNNING, whatever became of the assignment.
ContextBuilt(c, a) ==
  /\ a \in call[c].gathering
  /\ assignment' = [assignment EXCEPT ![a].state = "RUNNING"]
  /\ call' = [call EXCEPT ![c].gathering = @ \ {a}, ![c].asking = @ \cup {a}]
  /\ UNCHANGED <<team, result, commands>>

\* runAssignmentThroughAgent returned: createResult, and SUBMITTED.  A call of one
\* assignment returns.
AgentAnswered(c, a) ==
  /\ a \in call[c].asking
  /\ assignment' = [assignment EXCEPT ![a].state = "SUBMITTED"]
  /\ result' = [result EXCEPT ![a] = "ACCEPTED"]
  /\ call' = [call EXCEPT ![c] = IF call[c].kind = "ASSIGNMENT" THEN Idle
                                 ELSE [call[c] EXCEPT !.asking = @ \ {a}]]
  /\ UNCHANGED <<team, commands>>

\* Promise.all of the batch resolved.
NextRound(c) ==
  /\ call[c].kind = "PLAN" /\ Executing(c) = {}
  /\ Round(c, call[c].round, team)
  /\ UNCHANGED commands

----------------------------------------------------------------------------
Init ==
  /\ team = "CREATED"
  /\ assignment = [a \in Assignments |-> [state |-> "QUEUED", revision |-> 0]]
  /\ result = [a \in Assignments |-> "NONE"]
  /\ call = [c \in Callers |-> Idle]
  /\ commands = 0

TeamCommands ==
  \/ \E state \in {"PAUSED", "COMPLETED", "FAILED"} : MarkTeam(state)
  \/ CancelTeam \/ ReconcileTeam \/ Recover \/ Restart

AssignmentCommands(a) ==
  \/ \E state \in {"WAITING_FOR_DEPENDENCY", "CANCELLED"} : SetAside(a, state)
  \/ \E status \in Dispositions : Review(a, status)

CallerSteps(c) ==
  \/ StartTeam(c) \/ ResumeTeam(c) \/ NextRound(c)
  \/ \E a \in Assignments :
       \/ StartAssignment(c, a) \/ ReviseAssignment(c, a)
       \/ ContextBuilt(c, a) \/ AgentAnswered(c, a)

Next ==
  \/ TeamCommands
  \/ \E a \in Assignments : AssignmentCommands(a)
  \/ \E c \in Callers : CallerSteps(c)

Spec == Init /\ [][Next]_vars

\* context.build does not wait for anyone and a turn of the agent ends at its
\* time-out at the latest; a loop whose batch has returned goes on at once.
FairSpec ==
  /\ Spec
  /\ \A c \in Callers :
       /\ WF_vars(NextRound(c))
       /\ \A a \in Assignments : WF_vars(ContextBuilt(c, a)) /\ WF_vars(AgentAnswered(c, a))

----------------------------------------------------------------------------
(* Properties. *)

\* The variables keep their types; revisions stay within their maximum.
TypeOK ==
  /\ team \in TeamStates
  /\ assignment \in [Assignments ->
       [state : AssignmentStates, revision : 0..MaximumRevisionRounds]]
  /\ result \in [Assignments -> Dispositions \cup {"NONE"}]
  /\ call \in [Callers -> Calls]
  /\ commands \in 0..MaxCommands

\* No assignment is executed, and none has a result, before each of its dependencies
\* has one: whatever was cancelled, paused, retried, recovered or restarted since,
\* and with several plans at work on the team.
ResultsFollowDependencies ==
  \A a \in Assignments :
    (result[a] # "NONE" \/ \E c \in Callers : a \in Executing(c)) =>
      \A d \in Dependencies[a] : result[d] # "NONE"

\* What one assignment needs, directly or not: the least set that holds its
\* dependencies, and theirs.
Ancestors(a) ==
  {d \in Assignments :
     \A S \in SUBSET Assignments :
       Dependencies[a] \subseteq S /\ (\A b \in S : Dependencies[b] \subseteq S) => d \in S}

\* A plan that returns before its rounds are spent leaves an assignment unsettled
\* only if it needs one that is cancelled or failed.
PlansLeaveNothingBehind ==
  [][\A c \in Callers :
       (NextRound(c) /\ call'[c] = Idle /\ call[c].round < MaximumAssignments) =>
         \A a \in Assignments :
           \/ assignment[a].state \in {"SUBMITTED", "CANCELLED", "FAILED"}
           \/ \E d \in Ancestors(a) : assignment[d].state \in {"CANCELLED", "FAILED"}]_vars

\* Every call of the engine returns, whoever pauses, cancels or retries meanwhile.
CallsReturn == \A c \in Callers : call[c] # Idle ~> call[c] = Idle

\* What the test of "cancellation propagation" (test/multi-agent-coordination-
\* engine.test.js) says: a cancelled team stays so until someone resumes it.
CancelledTeamsStayCancelled ==
  [][team = "CANCELLED" => team' = "CANCELLED" \/ commands' # commands]_vars
=============================================================================
