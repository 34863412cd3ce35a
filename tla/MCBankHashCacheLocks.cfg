CONSTANTS
  Slot = {1, 2}
  Hash = {A, B}
  Missing = Missing
  Unfrozen = Unfrozen
SPECIFICATION Spec
INVARIANT NoLockCycle
CHECK_DEADLOCK FALSE
