SPECIFICATION Spec
CONSTANTS
  Callers = {c1}
  Editors = {e1}
  Notes = {n1, n2}
  LengthRetry = FALSE
  MaxId = 3
PROPERTIES
  NotesConsumedByTheirReader
