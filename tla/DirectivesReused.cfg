SPECIFICATION Spec
CONSTANTS
  Actors = {bot}
  MaxRules = 3
CHECK_DEADLOCK FALSE
INVARIANTS
  RuleIdsNeverReused
