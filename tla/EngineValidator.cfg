\* A validator; derivation works from the engine's current safe head.
SPECIFICATION Spec
CONSTANTS
  g = g
  a1 = a1
  a2 = a2
  a3 = a3
  b1 = b1
  b2 = b2
  none = none
  Absent = {}
  Block <- MCBlock
  Genesis = g
  NoBlock = none
  Number <- MCNumber
  Parent <- MCParent
  Ancestors <- MCAncestors
  DepositsOnly <- MCDepositsOnly
  Invalid = {}
  Malformed = {}
  BadSchedule = {}
  Holocene = TRUE
  Role = "validator"
  Delegated = FALSE
  StaleDerivation = FALSE
  MaxTasks = 1
INVARIANT TypeOK
INVARIANT UnsafeServed
INVARIANT LocalSafeIsSafe
INVARIANT SafeNotAheadOfUnsafe
PROPERTY FinalizedMonotone
PROPERTY FinalityIrrevocable
