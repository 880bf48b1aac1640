\* Two providers, three edit rows, two requests for the table under way.
CONSTANTS
  Providers = {p, q}
  Nobody = Nobody
  Loads = {l1, l2}
  MaxEdits = 3
  MaxChanges = 2
SPECIFICATION TableFairSpec
INVARIANTS AloneSurvives
PROPERTY CatchesUp
CHECK_DEADLOCK FALSE
