\* Two versions of slot 2 and two blocks of slot 3, frozen, dumped and rooted
\* around the votes for them; a slot that is pruned, cleared and replayed in
\* another version; and repeated votes in batches.
CONSTANTS
  v1 = v1  v2 = v2
  g = g  a = a  b = b  b2 = b2  c = c  d = d  e = e
  Validator = {v1, v2}
  Block = {g, a, b, b2, c, d, e}
  Genesis = g
  Stake <- MCStake
  SlotOf <- MCSlotOf
  Fork <- MCFork
  Scenarios <- MCScenarios
SPECIFICATION Spec
INVARIANTS
  CountedVotesWereCast
  AnnouncedOnce
  UncheckedSlotsHaveTrackers
  VotersReachReplay
  UnrootedAreReported
