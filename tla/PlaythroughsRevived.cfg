SPECIFICATION Spec
CONSTANTS
  Telegram = {t}
  Panel = {p1}
  Scenarios = {s1}
  Slots = {i1, i2}
  Rules = {}
  Personas = {}
  None = None
  MayFail = FALSE
CHECK_DEADLOCK FALSE
PROPERTIES
  SupersededStaysSuperseded
