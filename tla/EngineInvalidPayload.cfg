\* The same with a payload the EL rejects.
SPECIFICATION FairSpec
CONSTANTS
  g = g
  a1 = a1
  a2 = a2
  a3 = a3
  b1 = b1
  b2 = b2
  none = none
  Absent = {a3, b1, b2}
  Block <- MCBlock
  Genesis = g
  NoBlock = none
  Number <- MCNumber
  Parent <- MCParent
  Ancestors <- MCAncestors
  DepositsOnly <- MCDepositsOnly
  Invalid = {a2}
  Malformed = {}
  BadSchedule = {}
  Holocene = TRUE
  Role = "validator"
  Delegated = FALSE
  StaleDerivation = FALSE
  MaxTasks = 1
PROPERTY QueueDrains
