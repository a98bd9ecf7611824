CONSTANTS
  Steps = {1, 2, 3, 4}
  Callers = {c1, c2, c3}
  Deps <- JoinDeps
  Protected = {}
  Mutating = {1, 3}
  Interactive = {}
  Retryable = {1}
  Optional = {}
  Priority <- LastIsHigh
  Policy <- MixedPolicy
  RepairStep <- NoRepairs
  Overlap <- ReaderScopes
  Flaky = {}
  Approving = {}
  Validating = {}
  Validations = {4}
  MaxAttempts = 2
  MaxRepairs = 1
  MaxConcurrent = 2
  MaxTicks = 2
  MaxCommands = 3
  Commands = {"start", "tick", "pause", "resume", "cancel", "skip", "retryStep", "retryWorkflow", "validate"}
SPECIFICATION Spec
INVARIANT PrerequisitesHold
INVARIANT CompletionIsEarned
INVARIANT ConcurrencyIsSafe
INVARIANT ConcurrencyIsBounded
SYMMETRY CallerSymmetry
\* A workflow may rest for good: every call idle and no command left.
CHECK_DEADLOCK FALSE
