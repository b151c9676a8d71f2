SPECIFICATION FairSpec
CONSTANTS
  Keys = {k1, k2, k3}
  Capacity = 1
  None = None
  MaxTurns = 2
INVARIANTS
  TypeOK
  InFlightExact
  OneJobPerKey
PROPERTIES
  FoldedOnlyForward
  KeyFreedAgain
