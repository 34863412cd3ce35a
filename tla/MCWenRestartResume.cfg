SPECIFICATION Spec
CONSTANTS
  None = None
  Node <- Validators
  Slot <- Slots
  Fork <- Forks
  Stake <- Stakes
  NextEpoch = 4
  Scenarios <- AllScenarios
INVARIANT SnapshotsAgree
CHECK_DEADLOCK FALSE
