SPECIFICATION Spec
CONSTANTS
  Private = {p}
  Groups = {g}
  Scenarios = {s1, s2}
  None = None
  MaxStories = 2
  MaxReplies = 3
  Parts = 1
  MaxFaults = 0
CHECK_DEADLOCK FALSE
PROPERTIES
  RetryWithdrawsItsOwn
