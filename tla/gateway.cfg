CONSTANTS
  Requests = {1, 2, 3}
  Models = {1, 2, 3}
  NoModel = 0
  Kind <- SecondIsSource
  Accepts <- RemoteIsPlain
  Settings <- WithOrWithoutSource
  Single = {3}
  MaximumFallback = 2
  MaximumRetries = 1
  MaxCommands = 4
SPECIFICATION GatewaySpec
INVARIANT GatewayTypeOK
INVARIANT PolicyIsKept
INVARIANT UsageIsEarned
INVARIANT CallsAreBounded
PROPERTY RequestsReturn
\* Clients may stop asking.
CHECK_DEADLOCK FALSE
