\* A validator whose derivation lags behind the engine; bad payloads of every kind.
SPECIFICATION Spec
CONSTANTS
  g = g
  a1 = a1
  a2 = a2
  a3 = a3
  b1 = b1
  b2 = b2
  none = none
  Absent = {}
  Block <- MCBlock
  Genesis = g
  NoBlock = none
  Number <- MCNumber
  Parent <- MCParent
  Ancestors <- MCAncestors
  DepositsOnly <- MCDepositsOnly
  Invalid = {b1}
  Malformed = {b2}
  BadSchedule = {a3}
  Holocene = TRUE
  Role = "validator"
  Delegated = FALSE
  StaleDerivation = TRUE
  MaxTasks = 2
INVARIANT UnsafeServed
PROPERTY FinalizedMonotone
PROPERTY FinalityIrrevocable
