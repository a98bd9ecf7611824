CONSTANTS
  Operations = {1, 2, 3}
  Protected = {2, 3}
  Unhandled = {1}
  Decisions <- LastMayBeWaived
  Priority <- LaterAreCritical
  MaxConcurrent = 1
  MaxQueued = 2
  MaxChildren = 1
  MaxRecoveries = 1
  Commands = {"submit", "retry", "execute", "misuse", "cancel", "pause", "respond", "suspend", "recover", "shutdown"}
SPECIFICATION Spec
INVARIANT TypeOK
INVARIANT NothingIsForgotten
INVARIANT SlotsAreHeldByWork
INVARIANT NoIdleSlot
INVARIANT SuccessIsEarned
INVARIANT CancellationReachesChildren
PROPERTY KeepsLifecycle
\* The host may stop calling.
CHECK_DEADLOCK FALSE
