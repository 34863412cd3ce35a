SPECIFICATION Spec
CONSTANTS
  MAX_LOCKOUT_HISTORY = 2
  LOCKOUT <- MCLOCKOUT
  BlockTree <- ThreeForks
  MaxCrashes = 1
  MaxQueue = 2
  HISTORY = 100
  TowerFileMayBeLost = TRUE
  BlockstoreMayLag = TRUE
  VoteTxMayFail = FALSE
INVARIANTS
  TowersWellFormed
  SentOnOneFork
  LockoutsHonoured
  SentVotesAccepted
  NeverPanics
  SentRootsAreRooted
CHECK_DEADLOCK FALSE
