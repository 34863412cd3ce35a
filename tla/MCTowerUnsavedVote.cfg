SPECIFICATION Spec
CONSTANTS
  MAX_LOCKOUT_HISTORY = 2
  LOCKOUT <- MCLOCKOUT
  BlockTree <- ThreeForks
  MaxCrashes = 1
  MaxQueue = 1
  HISTORY = 100
  TowerFileMayBeLost = FALSE
  BlockstoreMayLag = FALSE
  VoteTxMayFail = TRUE
INVARIANTS
  LockoutsHonoured
CHECK_DEADLOCK FALSE
