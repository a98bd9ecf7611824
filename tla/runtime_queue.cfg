CONSTANTS
  Operations = {1, 2, 3}
  Protected = {2}
  Unhandled = {3}
  Decisions <- AlwaysAsked
  Priority <- LastIsCritical
  MaxConcurrent = 1
  MaxQueued = 2
  MaxChildren = 1
  MaxRecoveries = 1
  Commands = {"submit", "cancel", "wait", "recover", "pause"}
SPECIFICATION FairSpec
PROPERTY QueuedOperationsLeave
\* The host may stop calling.
CHECK_DEADLOCK FALSE
