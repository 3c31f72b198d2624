\* One L1 reorg; the EL may answer Syncing; database writes may fail.
\* A stopped node, or one that has used up the bounded L1 chain, may do nothing more.
SPECIFICATION Spec
CONSTANTS
  L1Absent = {"x3"}
  L2Absent = {"a3","v2"}
  L1Block <- MCL1Block
  L1Number <- MCL1Number
  L1Ancestors <- MCL1Ancestors
  Block <- MCBlock
  Number <- MCNumber
  Parent <- MCParent
  Ancestors <- MCAncestors
  Origin <- MCOrigin
  From <- MCFrom
  DepositsOnly <- MCDepositsOnly
  Genesis = "g"
  NoBlock = "none"
  L1Genesis = "x0"
  NoL1 = "no"
  DbFails = TRUE
  ELSyncing = TRUE
  Starving = FALSE
  MaxResets = 0
  MaxRestarts = 0
  MaxReorgs = 1
INVARIANT DerivationAfterSync
INVARIANT ConfirmedIsSafe
CHECK_DEADLOCK FALSE
