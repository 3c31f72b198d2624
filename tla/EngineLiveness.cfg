\* One chain, fair scheduling and a fair EL: every drain ends.
SPECIFICATION FairSpec
CONSTANTS
  g = g
  a1 = a1
  a2 = a2
  a3 = a3
  b1 = b1
  b2 = b2
  none = none
  Absent = {b1, b2}
  Block <- MCBlock
  Genesis = g
  NoBlock = none
  Number <- MCNumber
  Parent <- MCParent
  Ancestors <- MCAncestors
  DepositsOnly <- MCDepositsOnly
  Invalid = {}
  Malformed = {}
  BadSchedule = {}
  Holocene = TRUE
  Role = "validator"
  Delegated = FALSE
  StaleDerivation = FALSE
  MaxTasks = 2
PROPERTY QueueDrains
