CONSTANTS
  Steps = {1, 2, 3}
  Callers = {c1}
  Deps <- RepairDeps
  Protected = {1}
  Mutating = {1}
  Interactive = {}
  Retryable = {2}
  Optional = {}
  Priority <- AllNormal
  Policy <- AllRepair
  RepairStep <- RepairOfFirst
  Overlap = {}
  Flaky = {}
  Approving = {}
  Validating = {}
  Validations = {}
  MaxAttempts = 2
  MaxRepairs = 1
  MaxConcurrent = 2
  MaxTicks = 4
  MaxCommands = 5
  Commands = {"start", "retryStep", "suspend", "approve", "reconfirm", "save", "shutdown", "restart"}
SPECIFICATION Spec
INVARIANT ProtectedIsReconfirmed
INVARIANT InFlightIsOwned
\* A workflow may rest for good: every call idle and no command left.
CHECK_DEADLOCK FALSE
