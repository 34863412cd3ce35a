SPECIFICATION FairSpec
CONSTANTS
  Voter <- MCVoter
  VoteStake <- MCVoteStake
  Scenario <- MCScenario
  MaxAttempts = 2
INVARIANTS
  NoUnexpectedPanic
  FrozenBanksInForkChoice
  StakeAsVoted
  BestIsHeaviest
  DuplicateExcluded
  BestForkAgrees
PROPERTIES
  ConfirmedStays
  ConfirmedReplayed
CHECK_DEADLOCK FALSE
