CONSTANTS
  Steps = {1, 2, 3}
  Callers = {c1, c2}
  Deps <- MutexDeps
  Protected = {}
  Mutating = {}
  Interactive = {}
  Retryable = {1, 2, 3}
  Optional = {}
  Priority <- AllNormal
  Policy <- AllRetry
  RepairStep <- NoRepairs
  Overlap <- ScopeOverlap
  Flaky = {1}
  Approving = {}
  Validating = {}
  Validations = {}
  MaxAttempts = 2
  MaxRepairs = 1
  MaxConcurrent = 2
  MaxTicks = 4
  MaxCommands = 3
  Commands = {"start", "tick", "retryStep", "capability", "cancel", "skip", "expire", "pause"}
SPECIFICATION FairSpec
PROPERTY EveryCallReturns
\* A workflow may rest for good: every call idle and no command left.
CHECK_DEADLOCK FALSE
