\* Fair actors; one reset; Syncing answers, deferred and lost tasks, endless retries.
\* A stopped node, or one that has used up the bounded L1 chain, may do nothing more.
SPECIFICATION FairSpec
CONSTANTS
  L1Absent = {"x2","x3","y2"}
  L2Absent = {"a3","b2"}
  L1Block <- MCL1Block
  L1Number <- MCL1Number
  L1Ancestors <- MCL1Ancestors
  Block <- MCBlock
  Number <- MCNumber
  Parent <- MCParent
  Ancestors <- MCAncestors
  Origin <- MCOrigin
  From <- MCFrom
  DepositsOnly <- MCDepositsOnly
  Genesis = "g"
  NoBlock = "none"
  L1Genesis = "x0"
  NoL1 = "no"
  DbFails = FALSE
  ELSyncing = TRUE
  Starving = TRUE
  MaxResets = 1
  MaxRestarts = 0
  MaxReorgs = 0
INVARIANT FinalizedInputsFinal
PROPERTY ConfirmationArrives
CHECK_DEADLOCK FALSE
