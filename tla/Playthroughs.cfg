SPECIFICATION MCSpec
CONSTANTS
  Telegram = {t}
  Panel = {p1}
  Scenarios = {s1, s2}
  Slots = {i1, i2, i3}
  Rules = {r1}
  Personas = {n1, n2}
  None = None
  MayFail = TRUE
  RacingScenarios = {s1}
  RacingSlots = {i1, i2}
  RacingPersonas = {n1}
SYMMETRY Symmetry
CHECK_DEADLOCK FALSE
INVARIANTS
  TypeOK
  OneLivePerScenario
  ChosenSettingsHold
PROPERTIES
  SupersededStaysInTurn
  TranscriptsKept
  PersonaSetOnce
