CONSTANTS
  Proposals = {1, 2}
  Files = {1, 2}
  Touches <- TwoAndOne
  Calls = {a, b}
  NoCall = NoCall
  MaxEdits = 1
  Modes <- Careful
SPECIFICATION Spec
SYMMETRY CallsAreAlike
INVARIANT TypeOK
INVARIANT OnlyApprovedText
INVARIANT AppliedTextIsRecorded
PROPERTY AllOrNothing
\* The host may stop calling.
CHECK_DEADLOCK FALSE
