SPECIFICATION FairPanelSpec
CONSTANTS
  Callers = {c1, c2}
  Editors = {}
  Notes = {}
  LengthRetry = FALSE
  MaxId = 5
INVARIANTS
  RepliesAnswerStoredMessages
  NoStaleTrace
PROPERTIES
  SweepSparesStored
  NeverLockedOut
