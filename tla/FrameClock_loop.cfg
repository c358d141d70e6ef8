SPECIFICATION FairSpec
CONSTANTS
  Precision = 6
  step_time = 37
  Costs = {28, 49}
  Drawing = 12
  MaxFrameTime = 629
INVARIANTS TimeIsSpent StepsAreRight
PROPERTIES LoopEnds SlownessDiesOut SlownessGrows
