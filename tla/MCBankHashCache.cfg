\* Every interleaving of the replay stage and the vote listener over three
\* slots, each of which may be replayed in two versions.  Deadlock is not
\* checked here: the run bank_hash_cache_locks is about it.
CONSTANTS
  Slot = {1, 2, 3}
  Hash = {A, B}
  Missing = Missing
  Unfrozen = Unfrozen
SPECIFICATION Spec
INVARIANTS AnswersSurviveDumps
CHECK_DEADLOCK FALSE
