SPECIFICATION FairSpec
CONSTANTS
  acctA = acctA
  acctB = acctB
  tAB = tAB
  tA = tA
  tB = tB
  rA = rA
  NoThread = NoThread
  Thread <- MCThread
  Account <- MCAccount
  Tx <- MCTx
  Writes <- MCWrites
  Reads <- MCReads
  Priority <- MCPriority
  Cost <- MCCost
  Extra = 1
  MaxCus = 2
  MaxScanned = 3
  LookAhead = 2
  ChunkSize = 2
  BatchSize = 2
  Configs <- BothConfigs
INVARIANTS
  NoPanic
  NothingLost
  BatchesConflictFree
PROPERTIES
  LocksSpec
  PriorityRespected
  WorkComesBack
  TopIsScheduled
