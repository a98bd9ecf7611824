------------------------ MODULE MCDurableWorkflow ------------------------
(* Small workflows for TLC. *)
EXTENDS DurableWorkflow, TLC

Needs(s, t) ==
  [source |-> s, target |-> t, type |-> "REQUIRES_SUCCESS", required |-> TRUE]

AllRetry == [s \in Steps |-> "RETRY"]
AllNormal == [s \in Steps |-> "NORMAL"]
LastIsHigh == [s \in Steps |-> IF s = 3 THEN "HIGH" ELSE "NORMAL"]
MixedPolicy ==
  [s \in Steps |-> CASE s = 2 -> "SKIP_DEPENDENTS" [] s = 4 -> "FAIL_WORKFLOW"
                     [] s = 3 -> "CONTINUE_INDEPENDENT" [] OTHER -> "RETRY"]
CallerSymmetry == Permutations(Callers)

\* Step 3 needs the success of step 2, and of step 4 as a validation.
JoinDeps ==
  {Needs(2, 3), [source |-> 4, target |-> 3, type |-> "REQUIRES_VALIDATION",
                 required |-> TRUE]}

\* Step 2 is required to stay clear of step 1, whose success step 3 needs.
MutexDeps ==
  {[source |-> 1, target |-> 2, type |-> "SOFT", required |-> TRUE], Needs(1, 3)}

\* Each step has a scope of its own, which overlaps with itself only.
OwnScope == {<<s, s>> : s \in Steps}
ReaderScopes == {<<s, s>> : s \in Steps \ Mutating}

\* All steps work on the same scope.
ScopeOverlap == Steps \X Steps

\* Step 3 repairs step 1; step 2 follows step 1.
RepairDeps == {Needs(1, 2), [source |-> 1, target |-> 3, type |-> "SOFT", required |-> FALSE]}
RepairOfFirst == [s \in {1} |-> <<3>>]
AllRepair == [s \in Steps |-> "REPAIR_THEN_RETRY"]
NoRepairs == [s \in {} |-> <<>>]
=============================================================================
