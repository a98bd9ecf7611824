CONSTANTS
  Requests = {t1, t2}
  Models = {1}
  NoModel = 0
  Kind <- OneKind
  Accepts <- AllAccept
  Settings <- OneSetting
  Single = {}
  MaximumFallback = 1
  MaximumRetries = 0
  MaxCommands = 3
  Turns = {t1, t2}
  Conversations = {c}
  NoTurn = none
  MaxTurns = 2
  MaxToolCalls = 3
  Orders = {"pause", "resume", "mark", "cancelTurn", "cancel", "retry", "call", "cancelCall", "shutdown", "restart", "recover", "model"}
SPECIFICATION Spec
SYMMETRY TurnsAreAlike
INVARIANT TypeOK
INVARIANT LateResultsAreHonest
INVARIANT SuccessIsComplete
INVARIANT TurnsInProgressAreExecuted
INVARIANT ApprovalIsAsked
\* Conversations may rest.
CHECK_DEADLOCK FALSE
