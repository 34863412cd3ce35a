SPECIFICATION Spec
CONSTANTS
  v1 = v1
  v2 = v2
  v3 = v3
  v4 = v4
  Validator <- MCValidators
  Stake <- MCStake
  Trees <- MCTrees
  LOCKOUT <- MCLockout
  MAX_LOCKOUT_HISTORY = 3
SYMMETRY Symmetry
INVARIANTS LockoutsKept ConfirmersStay ConfirmedOnOneFork
CHECK_DEADLOCK FALSE
