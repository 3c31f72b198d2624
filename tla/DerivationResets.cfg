\* A reset, a restart and an invalid batch, in every interleaving.
\* A stopped node, or one that has used up the bounded L1 chain, may do nothing more.
SPECIFICATION Spec
CONSTANTS
  L1Absent = {"x3","y2"}
  L2Absent = {"a3","b2"}
  L1Block <- MCL1Block
  L1Number <- MCL1Number
  L1Ancestors <- MCL1Ancestors
  Block <- MCBlock
  Number <- MCNumber
  Parent <- MCParent
  Ancestors <- MCAncestors
  Origin <- MCOrigin
  From <- MCFrom
  DepositsOnly <- MCDepositsOnly
  Genesis = "g"
  NoBlock = "none"
  L1Genesis = "x0"
  NoL1 = "no"
  DbFails = FALSE
  ELSyncing = FALSE
  Starving = FALSE
  MaxResets = 1
  MaxRestarts = 1
  MaxReorgs = 0
INVARIANT TypeOK
INVARIANT DerivationAfterSync
INVARIANT FinalizedInputsFinal
INVARIANT ConfirmedIsSafe
CHECK_DEADLOCK FALSE
