SPECIFICATION Spec
CONSTANTS
  Callers = {c1, c2}
  Editors = {e1}
  Notes = {n1}
  LengthRetry = TRUE
  MaxId = 7
SYMMETRY Symmetry
INVARIANTS
  TypeOK
  OneGeneration
  ReplyAnswersItsHistory
  TurnsNumbered
PROPERTIES
  HistoryLostOnlyToAnsweredRetry
  FailedTurnKeepsNotes
  AskedAfterStored
  ImplementsStory
