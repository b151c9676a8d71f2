SPECIFICATION Spec
CONSTANTS
  Worker = w
  Refreshes = {}
  Total = 40
  Reserved = 2
  HighWater = 75
  MinFold = 10
  RecapShare = 25
  Costs = {5}
  MaxMessages = 7
  MayFail = FALSE
  Peels = FALSE
CHECK_DEADLOCK FALSE
INVARIANTS
  FloorHolds
