SPECIFICATION Spec
CONSTANTS
  Ids = {"a", "b"}
  None = None
CHECK_DEADLOCK FALSE
INVARIANTS
  BootSkipsBadFiles
