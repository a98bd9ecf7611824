CONSTANTS
  Steps = {1, 2, 3}
  Callers = {c1, c2}
  Deps <- RepairDeps
  Protected = {}
  Mutating = {2}
  Interactive = {2}
  Retryable = {1}
  Optional = {2}
  Priority <- AllNormal
  Policy <- AllRepair
  RepairStep <- RepairOfFirst
  Overlap <- OwnScope
  Flaky = {2}
  Approving = {}
  Validating = {}
  Validations = {}
  MaxAttempts = 2
  MaxRepairs = 1
  MaxConcurrent = 2
  MaxTicks = 2
  MaxCommands = 4
  Commands = {"start", "tick", "retryStep", "retryWorkflow", "pause", "resume", "decide", "cancel", "skip", "capability", "save", "restart"}
SPECIFICATION Spec
INVARIANT TypeOK
INVARIANT AttemptsAreBounded
INVARIANT InFlightIsOwned
SYMMETRY CallerSymmetry
\* A workflow may rest for good: every call idle and no command left.
CHECK_DEADLOCK FALSE
