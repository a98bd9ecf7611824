CONSTANTS
  Assignments = {"plan", "implement", "review"}
  Dependencies <- ReviewFollows
  Rank <- ReviewFirst
  Callers = {"first", "second"}
  MaximumConcurrent = 2
  MaximumAssignments = 4
  MaximumRevisionRounds = 1
  MaxCommands = 3
SPECIFICATION FairSpec
INVARIANT TypeOK
INVARIANT ResultsFollowDependencies
PROPERTY PlansLeaveNothingBehind
PROPERTY CallsReturn
\* Clients may stop calling.
CHECK_DEADLOCK FALSE
