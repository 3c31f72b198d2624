\* A validator that follows a delegate's safe blocks.
SPECIFICATION Spec
CONSTANTS
  g = g
  a1 = a1
  a2 = a2
  a3 = a3
  b1 = b1
  b2 = b2
  none = none
  Absent = {a3}
  Block <- MCBlock
  Genesis = g
  NoBlock = none
  Number <- MCNumber
  Parent <- MCParent
  Ancestors <- MCAncestors
  DepositsOnly <- MCDepositsOnly
  Invalid = {}
  Malformed = {}
  BadSchedule = {}
  Holocene = TRUE
  Role = "validator"
  Delegated = TRUE
  StaleDerivation = TRUE
  MaxTasks = 2
INVARIANT UnsafeServed
INVARIANT FinalizedNotAheadOfUnsafe
INVARIANT SafeNotAheadOfUnsafe
