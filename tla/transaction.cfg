CONSTANTS
  StepCount = 3
  g1 = g1
  g2 = g2
  e1 = e1
  e2 = e2
  None = None
  Generations = {g1, g2}
  Edits = {e1, e2}
  MaxClicks = 7
SPECIFICATION Spec
INVARIANT TypeOK
INVARIANT ChangesAreRestorable
INVARIANT WritesWhatIsReviewed
PROPERTY UserTextSurvives
SYMMETRY CallSymmetry
\* The user may stop clicking.
CHECK_DEADLOCK FALSE
