SPECIFICATION Spec
CONSTANTS
  Voter <- MCVoter
  VoteStake <- MCVoteStake
  Scenario <- MCScenario
  MaxAttempts = 2
INVARIANT DumpedBanksExist
CHECK_DEADLOCK FALSE
