\* Two runs of three stages, which may come to have one id, in a box of two lines.
CONSTANTS
  MaxLines = 2
  Limit = 2
  Stages = 3
  MaxRuns = 2
  MaxWire = 1
  MaxClears = 1
  Polls = {1}
SPECIFICATION FairSpec
INVARIANTS TypeOK SeenShown OneSource
PROPERTIES PollCatchesUp FallsBack
CHECK_DEADLOCK FALSE
