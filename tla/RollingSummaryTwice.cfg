SPECIFICATION Spec
CONSTANTS
  Worker = w
  Refreshes = {r1}
  Total = 10
  Reserved = 2
  HighWater = 30
  MinFold = 10
  RecapShare = 25
  Costs = {3}
  MaxMessages = 4
  MayFail = FALSE
  Peels = FALSE
CHECK_DEADLOCK FALSE
PROPERTIES
  LateRunsTakeNothingBack
