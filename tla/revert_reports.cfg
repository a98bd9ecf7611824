CONSTANTS
  Proposals = {1, 2}
  Files = {1, 2}
  Touches <- TwoAndOne
  Calls = {a, b}
  NoCall = NoCall
  MaxEdits = 1
  Modes <- Hosts
SPECIFICATION Spec
SYMMETRY CallsAreAlike
\* The host may stop calling.
CHECK_DEADLOCK FALSE
PROPERTY RevertTakesTextOut
