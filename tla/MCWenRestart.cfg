SPECIFICATION FairSpec
CONSTANTS
  None = None
  Node <- Validators
  Slot <- Slots
  Fork <- Forks
  Stake <- Stakes
  NextEpoch = 4
  Scenarios <- AllScenarios
INVARIANTS
  StakesCountedOnce
  FailsForAReason
  SnapshotsAnnounced
  KeepsConfirmed
PROPERTIES
  EveryoneFinishes
CHECK_DEADLOCK FALSE
