# Tachyon: a TLA+ verification of the consensus core

Tachyon is a validator of the Agave/Solana family. This directory holds TLA+
models of the part of it where steps of several threads, validators or process
lives decide whether the cluster agrees: voting and its lockouts, the tower's
persistence, switching forks, optimistic confirmation, the counting of votes,
fork choice with duplicate blocks, the scheduling of transactions in replay and
in block production, and the protocol that restarts a halted cluster. TLC checks
the models on small instances; TLAPS proves the most important results for all
instances. `PROJECT.json` lists every run, theorem, hazard and finding, and maps
each definition to the source lines it models. Paths below are relative to
`src/`.

## 1. The system and its parts

A validator receives shreds (turbine, repair), assembles them in the blockstore
(`ledger`), and the **replay stage** (`core/src/replay_stage.rs`) replays the
blocks into **banks** kept in **BankForks** (`runtime/src/bank_forks.rs`). The
transactions of a block run in parallel under the **unified scheduler**
(`unified-scheduler-logic`, `unified-scheduler-pool`). **Fork choice**
(`core/src/consensus/heaviest_subtree_fork_choice.rs`) picks a bank; the
**tower** (`core/src/consensus.rs`) decides whether the validator may vote on
it. A vote is recorded in the tower, may make an old vote the new **root**, and
goes to the **voting service** thread (`core/src/voting_service.rs`), which
stores the tower on disk and sends the vote. Votes land in blocks, where the
**vote program** (`programs/vote`) checks them, and travel in gossip, where the
**cluster vote listener** (`core/src/cluster_info_vote_listener.rs`) counts them
by block version. Enough stake on a block makes it duplicate confirmed (52%) or
optimistically confirmed (two thirds). To leave the fork of its last vote a
validator needs a switching proof (38% of the stake locked out elsewhere).

A leader may produce several versions of its slot. The **cluster slot state
verifier** (`core/src/repair/cluster_slot_state_verifier.rs`) decides, from
duplicate proofs, confirmations and what was replayed, which version fork choice
must exclude and which bank must be dumped and repaired. When the validator is
leader itself, the **central scheduler**
(`core/src/banking_stage/transaction_scheduler`) gives transactions to worker
threads under account locks. When the cluster has halted, **wen-restart**
(`wen-restart`) lets the validators agree on the block to go on from.

What is hard to test here: a crash between recording, storing and sending a
vote; a tower restored against a blockstore older or newer than it; the on-chain
tower adopted in the middle of that; validators that switch at the same time on
partial knowledge; handler threads that finish in any order; banks dumped and
replayed in another version while votes for both are being counted, or while a
root prunes them; transactions that come back to a buffer that was cleared; a
restart of the restart. `PROJECT.json` lists these hazards at the lines where
they bite.

## 2. Modules

| Module | Models | State and actions |
|---|---|---|
| `TowerVoteState` | `core/src/consensus/tower_vote_state.rs` | operators on the vote stack: `PopExpiredVotes`, `DoubleLockouts`, `ProcessNextVoteSlot` |
| `VoteProgram` | TowerSync in `programs/vote/src/vote_state/mod.rs` | the checks in their order, the filtered state, the resulting account |
| `Tower` | one validator: replay stage, tower, voting service, disk, restart | `ReplayBank`, `ComputeBankStats` (adoption), `HandleVotableBank`, `RefreshLastVote`, `StoreTower`, `SendVote`, `Crash`, `Restart` |
| `Stakes` | the stake of a set of vote accounts, as the listener and the switch check sum it | operators: `StakeOf`, `TotalStake` |
| `ClusterVoting` | all validators on one tree: `is_locked_out`, the switch threshold, confirmation | `Vote(v, s)` |
| `LockConflicts`, `LedgerOrder` | what the unified scheduler promises | abstract specification: a transaction may run when every earlier conflicting one has finished |
| `SchedulingStateMachine` | `unified-scheduler-logic/src/lib.rs` | `ScheduleTask`, `ScheduleNextUnblockedTask`, `DescheduleTask`, `Reinitialize` |
| `BankHashCache` | `runtime/src/bank_hash_cache.rs` with the locks it shares with the replay stage | bank operations of replay, `dump_slots` in its two halves, the lookups of the listener in theirs |
| `VoteListener` | the vote listener, the stake trackers, the optimistic confirmation verifier | `ProcessVote`, `EndBatch`, `ReadRoot`, `ProcessRoot`; `FreezeBank`, `PurgePruned`, `DumpSlots`, `SetRoot`, `GetVotedSlotUpdates` of the replay stage |
| `ForkChoice` | `core/src/consensus/heaviest_subtree_fork_choice.rs` | operators on the tree, and what they should compute from the tree and the votes alone |
| `DuplicateSlots` | the replay loop's stages for duplicate blocks, the slot state verifier, dump and repair | `GenerateNewBankForks`, `ReplayActiveBank`, `ProcessAncestorHashes`, `ProcessDuplicateConfirmed`, `ProcessPopularPruned`, `ProcessDuplicateSlot`, `ComputeBankStats`, `Vote`, `NoVote`, `DumpThenRepairCorrectSlots`; the services around it |
| `AccountLockTable` | `thread_aware_account_locks.rs` | operators on the lock table, with the assertions of each |
| `AccountLocks` | what the locks promise a scheduler | abstract specification `LocksSpec`: `TryLockAccounts`, `UnlockHeld` |
| `CentralScheduler` | the controller, both schedulers, the container, the in-flight tracker, the workers | `TryReceiveCompleted`, `UnlockNext`, `StartPass`, `ScheduleNext`, `SendAndUnblock`, `StartGreedyPass`, `ScheduleGreedily`, `SkipPass`, `HoldOrClear`, `BufferChunk`, `Decide`, `FinishWork` |
| `WenRestartAggregate` | `last_voted_fork_slots_aggregate.rs` and the thresholds | operators: who was heard, what stake each slot has, which slots count |
| `WenRestart` | `wen_restart.rs`, `heaviest_fork_aggregate.rs`, the progress file | one action per state of the protocol, `Repair`, `Crash`, and `Start` from the file |
| `MCTower`, `MCCluster`, `MCScheduling`, `MCVoteListener`, `MCDuplicateSlots`, `MCCentralScheduler`, `MCWenRestart` | instances for TLC | trees, stakes, requests, votes, ledgers, halts |
| `TowerVoteStateProofs`, `TowerProofs`, `TowerLockoutProofs`, `ClusterProofs`, `SchedulingProofs`, `SharedStateProofs`, `VoteListenerProofs`, `WenRestartProofs` | theorems | see section 5 |

`Tower` and `ClusterVoting` share `TowerVoteState`: the first composes it with
the vote program, the disk and crashes for one validator, the second with the
rules that tie many validators together. `ClusterVoting` and `VoteListener`
share `Stakes`. `DuplicateSlots` composes `ForkChoice`
with the replay loop, and `CentralScheduler` composes `AccountLockTable` with
the container and the workers.

### How the models correspond to the code

*Tower.* A vote state is `[votes, root]`; `NoSlot` (-1) is `None`, which Rust
also orders below every `Some`. `tower` and `lastVote` are the fields of
`Tower`, `saved` the tower file, `voteQueue` the channel to the voting service,
`sent` what has reached the network, `onChain[b]` our vote account in bank `b`.
`HandleVotableBank` is the whole handler: it records the vote, sets the
blockstore roots, prunes BankForks, and pushes the vote. The voting service
stores and sends in two steps, so a crash can come between them. `Restart`
covers `process_blockstore`, `post_process_restored_tower` and the
reconciliation of the roots, with the verdicts of `SlotHistory::check`
(external). The environment chooses the blocks, which of the votes sent lands in
each block (one at most), the outcome of the stake thresholds, and the root
that the supermajority imposes at a restart.

*ClusterVoting.* `sent[v]` holds every tower that `v` has sent. Another
validator may know any of them, from gossip or from a bank, so a switching proof
may use any. This allows more than the code does, where only the newest vote
seen counts, and the safety properties hold all the same.

*SchedulingStateMachine.* A task is its position in the order of the
`schedule_task` calls. The machine runs in one thread, so each method is one
step; handler threads are the freedom to deschedule running tasks in any order.

*BankHashCache.* `writer` is the write lock of BankForks, `locked` the mutex
around the flag of the dumped-slot subscription. `hash()` is split where it
waits for the read lock, `dump_slots` where it waits for the mutex.

*VoteListener.* A block is its bank hash, which commits to its ancestors; two
blocks of one slot are duplicates. One vote is one step, because the listener
holds the cache's mutex for it. What the cache answers is one block per slot
(`View`): it may still know any pruned bank, and a slot that it knows hides the
bank in BankForks. `PurgePruned` clears the block of a pruned slot, after which
the slot may be replayed in another version without the cache being told.

*ForkChoice and DuplicateSlots.* A fork choice is a record with the fields of
`HeaviestSubtreeForkChoice`; a block is a `<<slot, hash>>` pair, ordered as Rust
orders it. Where the code would panic, the record names the reason. The replay
loop is one thread: `stage` says where it is, each of its stages is one action,
and `descendants` is the snapshot that the loop takes at the start of an
iteration and keeps using. A scenario gives the ledger: the blocks, their
shreds, which fail to replay, which the cluster confirms, and the votes in
each. Window, repair and ancestor hashes services, and the vote listener, fill
the channels; a duplicate proof may come by gossip before any shred of its slot.
For a dead or pruned slot the ancestor hashes service is given the confirmed
fork of the slot and names the earliest block of it in which the blockstore
disagrees (`AncestorToRepair`). Which of the votable banks gets the vote, and how far the root
moves with it, is left open.

*AccountLocks and CentralScheduler.* The lock table maps an account to its
writer and readers by thread, with counts. `AccountLocks` is the abstract
specification: which transactions each thread holds, and the table that must
result. `CentralScheduler` has the loop of the controller as `pc`, a scheduling
pass as `pass` (the graph, the blocked transactions, the batches under way) and
the channels to the workers; the unlocking of a finished batch is one step per
transaction. Checks of age and fees, execution and the leader schedule may come
out either way.

*WenRestart.* `file[n]` is the progress file, `mem[n]` what a process has in
memory, `archive[n]` the snapshots on disk, `gossip` what is in the network. A
process that dies loses `mem` and starts again from `file` by `initialize`; if
it dies while the file is being written, the file may be empty. `announced` and
`resumed` record history for the properties: the forks the coordinator pushed,
and who went on from state GenerateSnapshot.

## 3. Runs

Passing runs:

| Run | Question |
|---|---|
| `tower` | with one crash anywhere, which may also lose the newest blockstore roots or the tower file: are towers on the wire on one fork, are lockouts honoured across the crash, does the vote program accept every newer vote on its fork whichever earlier ones were lost, are the roots sent blockstore roots, are the assertions of voting and adoption safe? |
| `cluster_voting` | lockouts, switching and optimistic confirmation for four validators |
| `scheduling` | lost wake-ups, reuse and panics of the usage queues; every task is handled; the machine implements `LedgerOrder` |
| `bank_hash_cache` | do dumps ever make an answer of the cache stale? |
| `listener` | two versions of a slot, two forks, repeated votes in batches: who is counted, what is announced, what is purged before it is verified, which voters reach replay |
| `duplicate_slots` | four ledgers with duplicate blocks, in every order of receiving, replaying, detecting, confirming, voting, rooting and dumping: does the fork choice compute what it should, is a wrong version ever on the best fork, does the node end on the confirmed version? |
| `central_scheduler` | either scheduler, two workers, a container at its capacity: is anything lost, scheduled twice, left locked, inverted or starved? |
| `wen_restart` | halts on one fork, on two, with two versions of a block, old votes, roots past or beside the others' fork; lost messages, crashes, an emptied file: do the validators agree on a fork that keeps what was confirmed, and finish? |

Runs that show a disagreement between the code and what the repository says
(`findings` in `PROJECT.json` quotes the lines):

| Run | What TLC finds |
|---|---|
| `tower_unsaved_vote` | a vote whose transaction could not be generated is in the tower but not on disk; the refresh sends it without storing the tower; after a crash the validator votes inside its lockout |
| `bank_hash_cache_locks` | the listener and the replay stage take the mutex and the BankForks lock in opposite orders |
| `duplicate_purged_bank` | a dump follows the descendants collected before the root moved in the same iteration, and expects a bank that the root has pruned |
| `wen_restart_resume` | a follower that verified the coordinator's fork and dies before its snapshot goes on with its own heaviest fork |

### Other observations

Met while modelling, without a run of their own:

* `handle_votable_bank` sets the blockstore roots before it hands the tower over
  to be stored, where the comment at `core/src/consensus.rs:1714` has the
  opposite order; `Tower` models the order of the code.
* `is_locked_out` asserts that a bank which none of the tower's votes locks out
  descends from the tower's root (`core/src/consensus.rs:808`): "This case
  should never happen because bank forks purges all non-descendants of the root
  every time root is set". BankForks can be behind the tower:
  after a restart from a blockstore that lost its newest roots
  (`core/src/validator.rs:2189`), or when a tower with a newer root is adopted
  from the chain. There a bank on another fork may still be present.
  `NeverPanics` excepts the banks off the fork of a tower root that BankForks
  has not reached, and holds of all others.
* `is_new_vote` at `core/src/cluster_info_vote_listener.rs:568` is overwritten
  for every older slot of a tower, so whether RPC subscribers hear of a vote
  depends on its oldest slot; `VoteListener` leaves those messages out.
* The early return at `core/src/cluster_info_vote_listener.rs:555` leaves the
  older slots of a tower uncounted when the vote was seen in gossip before its
  bank was frozen and comes again from replay.
* A slot that a root pruned and that is cleared for repair
  (`core/src/replay_stage.rs:1702`) does not go through `dump_slots`, so the
  bank hash cache keeps its first hash (`runtime/src/bank_hash_cache.rs:63`);
  `AnswersSurviveDumps` excepts it. The listener fills that hash in for the
  older slots of a tower (`core/src/cluster_info_vote_listener.rs:490`), so a
  voter is counted for a version of the slot that it did not vote on.
  `CountedVotesWereCast` excepts the slots cleared in this way, and no others:
  there it says only that the voter voted for the slot. TLC reaches such a state
  in the run `listener` (scenario `Repaired`). The same slot is not dumped a second time if it is repaired wrongly again, which
  `ConfirmedReplayed` excepts.
* A confirmed version of a slot below the root, rooted in another version, is
  not reported by the verifier; `UnrootedAreReported` excepts it.
* The heaviest fork may descend from a known duplicate that is not duplicate
  confirmed, where the ancestor hashes service said that the cluster froze the
  same version (`core/src/repair/cluster_slot_state_verifier.rs:546`); the
  comment at `core/src/consensus/fork_choice.rs:254` says "the heaviest fork is
  never descended from a known unconfirmed duplicate slot". `DuplicateExcluded`
  excepts this case.
* In the prio-graph scheduler the `break` at `prio_graph_scheduler.rs:272`
  leaves only the inner loop, though the comment above it says "if there are no
  more schedulable threads, stop scheduling."
* wen-restart: a process that goes on from a later state does not push its
  message again, so a coordinator whose message was lost is not heard
  (`EveryoneFinishes` excepts lost messages); one that dies between writing the
  snapshot and the file fails on the existing snapshot; the record of a
  peer whose last vote is older than the root has no slots, and is refused when
  it is read back, so that the peer has to be heard again; and if less than 38%
  of the next epoch's stake is active the subtraction at `wen_restart.rs:363` has
  no result to unwrap.
* wen-restart, where the stakes of two epochs differ: a slot of the next epoch
  may have enough of that epoch's stake while its parent has too little of its
  own epoch's, and `find_heaviest_fork` then ends with
  `BlockNotLinkedToExpectedParent` although every vote is on one fork. (Two
  validators with 20 and 80 in epoch 0, 80 and 20 in epoch 1; the first voted for
  slot 2, the first of epoch 1, the other for slot 0: slot 2 counts and slot 1
  does not.) The comment at `wen_restart.rs:369` has such blocks "form a single
  chain from the root"; `FailsForAReason` excepts votes in another epoch with
  other stakes.

### Bounds, and why they are enough

* Tower: `MAX_LOCKOUT_HISTORY = 2` (31 in the code) with lockouts `2^c`. Two
  votes are enough for a vote to be doubled, to expire under or above another,
  and for the third vote on a fork to make a root. The tree `ThreeForks` has a
  fork past the expiry of a first vote and the rooting of slot 1, and a block at
  slot 12, by which every lockout of the others has expired.
  `MaxCrashes = 1`: a restart returns the validator to a state like any other,
  with the file of one life. `MaxQueue` bounds the channel to the voting
  service. `HISTORY = 100` is above every slot, so "too old" is not reached.
* Cluster: four validators of equal stake, so that two can switch and three
  confirm; depth 3; three trees with forks at genesis, three forks at one block,
  and a nested fork, with slots far enough apart for lockouts to expire. The
  validators are interchangeable, so symmetry is sound.
* Unified scheduler: two addresses, every list of one or two locks, three tasks:
  a writer between two readers, and a task that waits in two queues for
  different holders. The proofs cover every number of tasks and addresses.
* Bank hash cache: three slots with two versions each.
* Listener: two validators with 4 and 2 of 6 stake: one of them alone is over
  the duplicate threshold, both are needed for the optimistic one; seven blocks,
  up to two votes in a batch. In the scenario `Repaired` a slot is pruned in one
  version and replayed in the other, below a block that is voted on.
* Duplicate slots: two voters with different stake; two versions of a slot with
  children on both, where the child on the wrong one may be dead, so that it is
  an ancestor of the dead slot that has to be repaired; two versions of a slot on
  different forks of which one is pruned; two versions beside another fork. `MaxAttempts = 2` (10 in the
  code): a wrong version may come back once more before the attempts run out.
* Central scheduler: two threads, two accounts, four transactions: one that
  needs both accounts, one writer of each, and a reader. A thread is full with
  two compute units, the window holds two, the container three or four, so that
  every limit is met with one transaction to spare.
* wen-restart: three validators with stakes 5, 3 and 2, so that 80% is active
  with or without the third, and validators can count different sets; a tree of
  five slots that crosses an epoch boundary with other stakes. `crashes` is at
  most 2 in a scenario; where there are crashes the third validator has left or
  does not take part.

### Deadlock and fairness

Deadlock is checked in the scheduler runs (both schedulers) and the listener
run. It is not checked where the system ends: a tree of blocks is used up
(Tower, Cluster), the replay loop has panicked (duplicate slots), every
validator is done (wen-restart). In `bank_hash_cache` it is not checked because
the code can deadlock, which `bank_hash_cache_locks` is about.

* `SchedulingStateMachine`: weak fairness of picking up an unblocked task and of
  each handler returning its task: the scheduler thread of
  `unified-scheduler-pool` loops over both, and executing a transaction never
  waits for another one.
* `DuplicateSlots`: the replay loop keeps coming round and drains its channels
  in every round; a bank is replayed to its end; turbine and repair bring some
  version of every slot; the repair service looks for pruned forks in every
  round; the ancestor hashes service answers for slots the cluster froze. Nobody
  has to notice that a slot is a duplicate.
* `CentralScheduler`: a worker keeps taking work from its channel, the loop of
  the controller keeps running, and the validator is leader again and again
  (the last is about the cluster, not the code; without it nothing need ever be
  scheduled).
* `WenRestart`: every step of the protocol that stays possible is taken: each
  wait polls its condition every `GOSSIP_SLEEP_MILLIS`, gossip and repair keep
  delivering, and the operator starts a process that died. Crashes are not fair.

## 4. Properties

*Tower.* `LockoutsHonoured`: a later vote on the wire inside the lockout of an
earlier one is for its descendant, across crashes. `SentOnOneFork`,
`SentVotesAccepted` (no honest vote meets a lockout conflict, a confirmation or
root roll-back, or a structural error), `SentRootsAreRooted`, `NeverPanics` (the
assertions of voting and of adoption, for every bank that BankForks would keep
had it reached the tower's root), `TowersWellFormed`.

*Cluster.* `LockoutsKept`, `ConfirmersStay` (nobody who voted on a confirmed
block ever votes on another fork) and `ConfirmedOnOneFork`.

*Unified scheduler.* `NoLostWakeup`, `FreshWhenIdle`, `QueuesNeverPanic`,
`EveryTaskIsHandled`, and the refinement `ImplementsLedgerOrder` with the
refinement mapping `contexts <- lockContexts`, `ready <- Started` (tasks running
or about to).

*Bank hash cache.* `AnswersSurviveDumps`.

*Listener.* `AnnouncedOnce` (stake is counted once and a threshold announced
once), `CountedVotesWereCast` (whoever is counted for a version voted for it or a
descendant, but for slots cleared after they were pruned), `VotersReachReplay`,
`UncheckedSlotsHaveTrackers`, `UnrootedAreReported`.

*Duplicate slots.* `StakeAsVoted` and `BestIsHeaviest` compare what fork choice
keeps incrementally with what the tree and the votes give. `DuplicateExcluded`,
`BestForkAgrees` and `ConfirmedStays`: whatever the order of events, a duplicate
and all above it are excluded until confirmed, the best fork holds no version
known to be wrong, and a confirmed block stays. `FrozenBanksInForkChoice`,
`NoUnexpectedPanic`, and `ConfirmedReplayed`: the node ends on the confirmed
version.

*Central scheduler.* `LocksSpec`, a refinement: the lock table behaves as
`AccountLocks` promises, with `held <- Held` (what is out with each thread).
`NothingLost`, `NoPanic`, `BatchesConflictFree`, `PriorityRespected` and, as
liveness, `WorkComesBack` and `TopIsScheduled`.

*wen-restart.* `SnapshotsAnnounced` (all snapshots are of the announced fork),
`KeepsConfirmed` (a block with 62% of the stake is on every heaviest fork),
`StakesCountedOnce`, `FailsForAReason` (the errors that the thresholds should
rule out), `EveryoneFinishes`. The last is about
the halts of `MCWenRestart`: it does not hold of every halt, since a block that
only one validator has cannot be repaired any more once that validator is done
or has failed.

Each property of a passing run has a mutant in `PROJECT.json`: a plausible
mistake in one definition under which TLC finds that property violated. `TypeOK`
of each module documents the shape of its state; section 5 says which are
proved.

## 5. What is proved

All theorems hold for every value of the constants that satisfies the named
assumptions. Each module of theorems follows the same argument: an inductive
invariant, one lemma per action, then the consequences.

* **Vote stack** (`TowerVoteStateProofs`). From `LockoutAssumption` (the lockout
  does not decrease with confirmations): popping, rooting, doubling and
  retaining keep a stack well formed, and pushing a vote keeps the lockouts of
  the votes it keeps. `WellFormedVotes` contains the strengthening that a vote
  has at least as many confirmations as votes stacked on it; without it,
  doubling does not keep the confirmations in order.
* **Tower** (`TowerProofs`). `TypeCorrect`, `TowersStayWellFormed`, from
  `TowerAssumption`. The invariant adds that towers name only blocks and that
  genesis is an ancestor of every block, which the vote program's filtering and
  the restart need.
* **Towers and forks** (`TowerProofs`). `SentTowersOnOneFork`: the votes of a
  tower on the wire lie on one fork and descend from its root, in every run in
  which no assertion of the code panics (a vote or an adoption whose assertion
  fails is not a step). The invariant
  `FInv` says so of every tower that is queued, stored, sent or in a vote
  account. It cannot say so of the tower in memory, since `Restart` sets the
  root to the replayed one and keeps votes on other forks. What holds of it is
  `RootApart`: no vote is the root or an ancestor of it (the slot history would
  have found it), and the root is no tip unless all votes are above it. So the
  votes that `is_locked_out` finds among the ancestors of the bank it lets
  through are above the root, and one chain has them all.
* **Assertions on the tower** (`TowerProofs`). `AssertionsHold`: `NeverPanics`,
  for every tower of more than one vote (with one, the root would be the vote
  before, whatever fork that is on). The invariant `BInv` ties the tower to
  BankForks: the votes of our account in a bank lie on the fork of the bank,
  BankForks has every block between its root and a bank, its root is the tower's
  or an ancestor of it, and the votes of the tower lie on one fork, which is the
  one of its root unless that root was just set from BankForks.
* **Lockouts across crashes** (`TowerLockoutProofs`). `LockoutsAreHonoured`,
  `SentVotesAreAccepted` and `SentRootsStayRooted`, under two hypotheses: making
  a vote transaction never fails (`~VoteTxMayFail`; with failures
  `tower_unsaved_vote` refutes the first), and every slot is within the window of
  the slot history. The argument is one relation: a tower *continues* another if
  it accounts for each of its votes, by keeping it with no fewer confirmations,
  by rooting it, or because it had expired when the newer tower voted past it,
  and adds only newer votes. It is transitive; recording a vote and restoring a
  suffix give towers that continue the one before. The invariant `LInv` says
  that, until the file is lost, what was sent, the file, the queue and the tower
  in memory continue one another in this order, that the head of the queue is in
  the file before it is sent, and that the vote account holds nothing but what
  was sent. A crash drops the queue and the memory, never what the file
  continues.
* **Cluster** (`ClusterProofs`). `ClusterTypeCorrect`, `LockoutsAreKept`,
  `ConfirmersNeverLeave`, `OptimisticConfirmationSafe`. The invariant `CInv`
  says that towers lie on one fork and remember every lockout sent, and that
  whoever left the fork of `s` did so when validators with a switching stake
  were barred from `s` for good. Such a set meets every two-thirds set, so
  nobody leaves a confirmed block; two confirmed blocks share a voter, whose
  votes lie on one fork. That such sets meet is the lemma `QuorumsOverlap`, from
  `StakeAssumption` alone (finitely many validators, stakes are naturals):
  disjoint sets of validators hold disjoint units of stake, and 38% with two
  thirds exceed the whole.
* **Unified scheduler** (`SchedulingProofs`).
  `SchedulingTypeCorrect`, `ExecutesInLedgerOrder`, `LosesNoWakeup`,
  `QueuesFreshWhenIdle`, `QueuesDoNotPanic`, and `SchedulingRefinement`, that
  the machine implements `LedgerOrder`. The invariant says, for each queue, that
  its holders are exactly the active tasks that use the address and do not wait
  in it, that holders precede waiters, that waiters are in order, and that a
  queue held by readers has a writer first in line; and that a task's count is
  the number of queues it waits in.
* **Bank hash cache** (`SharedStateProofs`). `CacheTypeCorrect`,
  `DumpsNeverMakeAnswersStale`. The invariant says that between the
  notification and the removal of the banks the cache is flagged or empty, and
  that what an unflagged cache or an answer holds is the hash of a bank that is
  unchanged or gone for good.
* **Vote listener** (`VoteListenerProofs`). `ThresholdsAnnouncedOnce`,
  `OnlyCastVotesCount`, `NoVoterLost`, `TrackersOutliveVerification` and
  `NoUnrootedUnreported`: all five properties of the run `listener`, for any
  blocks, versions, stakes, votes and size of batch that satisfy
  `ListenerAssumption`. They are proved together, with three facts that make
  them inductive. `BankInv`: the frozen banks are closed under ancestors, and one
  per slot unless the slot was cleared for repair, so the hash that the listener
  fills in for an older slot of a vote is the one its voter saw, but for those
  slots; and the root of the listener is on the fork of the
  one of BankForks. `BatchInv`: what a batch has noted is above the root it
  began with, so its trackers are not purged before it ends. `UntrackedInv`: a
  block without a tracker is below the root or was never announced, so a tracker
  that is made afresh announces nothing twice.
* **Account locks** (`SharedStateProofs`). For any threads, accounts and
  transactions, of `LocksSpec`: `LocksAreCounted` (an entry counts exactly its
  holders, by thread), `HeldConflictsShareThread` (conflicting transactions are
  never held by two threads) and `LocksCannotPanic` (a thread that the table
  calls schedulable can lock all accounts, and what is held can be unlocked).
  `LocksInvariant` is the invariant: the counts, and that a write lock excludes
  every other thread. The run `central_scheduler` checks that the scheduler
  implements `LocksSpec`, on its instance.

* **wen-restart** (`WenRestartProofs`). `SnapshotsAreAnnounced`,
  `ConfirmedAreKept`, `StakesAreCountedOnce` and `FailuresHaveReasons`: all
  safety properties of the run `wen_restart`, for any tree, stakes, way of halting
  and number of crashes that satisfy `WenRestartAssumption`, `ForkAssumption` and
  `ScenarioAssumption`. The invariant `IInv` has four parts for each validator.
  `FileOK`: the file has what its state says, and what it has was computed from
  some set of senders; a heaviest fork in it has been replayed and keeps what was
  confirmed. `MemoryOK`: the aggregate is a function of the set of senders alone
  (`AggregateOf`), which makes repeated delivery and reading back harmless, and
  the rest of the state is that of the file or follows from it. `OwnBlocksOK`: a
  validator has the blocks it voted for. `ErrorOK`: an error has its reason.
  `AnnouncedOK` ties gossip and the history to the coordinator's file: what was
  announced is in it, unless a crash emptied it. The arithmetic is in three
  lemmas. 62% of the stake less the inactive part is at least the active part
  less 38% (`ConfirmedCounts`). The active part less 38% is at least 42% where 80%
  is active, so that a block that counts was repaired (`CountsWasEnough`). Two
  blocks on different forks cannot both have that much of the active stake, and
  the parent of a block has its votes, so that the blocks that count form a chain
  (`CountedAreLinked`).
  The last needs one measure of stake for the whole chain, hence its exception
  for votes in another epoch with other stakes.
  What the argument needs of finite sets and numbers is stated once, as `Laws`
  (stakes of disjoint sets add up, a set of naturals has a least member, finitely
  many slots have a bound). The lemmas assume it, and `LawsHold`, in the last
  section, proves it from the library.

Only model-checked: every property of duplicate slots and of the central
scheduler (its refinement of `LocksSpec` included); and the liveness properties
`EveryTaskIsHandled`, `ConfirmedReplayed`, `WorkComesBack`, `TopIsScheduled` and
`EveryoneFinishes`, since liveness under fairness is out of the prover's reach,
as is induction over data (so what the recursive and folded operators of
`ForkChoice` compute for every tree, and what the folds of `CentralScheduler`
over batches do to its queues, cannot be proved).

## 6. What is not modelled

* Tower: booting from a snapshot newer than the tower; the 512-entry limit of
  SlotHashes and the window of SlotHistory; non-voting and hot-spare states;
  `require_tower`, hard forks and warps; loading a tower on an identity change;
  timestamps. The passing run takes `generate_vote_tx` never to fail; the run
  `tower_unsaved_vote` is about its failing.
* Cluster: duplicate blocks and the rollback rules for them, stray last votes
  after a restart, changes of stake at an epoch boundary. Agreement on roots is
  not claimed. The vote threshold, the propagation check and fork choice are
  environment choices.
* Unified scheduler: overflow of the `u32` counters; the pool's sessions and
  channels.
* Listener: signature checks, the channel of verified gossip hashes, epochs
  without stakes, malformed votes, and that the replay stage keeps an `Arc` of a
  tracker purged from the map.
* Fork choice and duplicate slots: `split_off`, `merge`, `purge_prune` and
  `add_root_parent`, which only repair's weighting uses; votes taken from
  gossip; the switch, threshold and propagation checks. The node is never
  leader. A block that is rooted is taken to be duplicate confirmed,
  `highest_super_majority_root` is the root, and the notice of a dead slot that
  was confirmed is left out. Whom the ancestor hashes service asks, its throttle,
  retries and pools are left out, and the confirmed fork that its sample agrees
  on is taken whole (the code's answers stop after `MAX_ANCESTOR_RESPONSES`
  slots).
* Central scheduler: the forwarder and the flags of what was forwarded, ties in
  priority, the decision maker (its decisions are the environment's), the vote
  threads of the banking stage, recording in PoH.
* wen-restart: an exit request, I/O and replay errors, malformed messages,
  validators without stake, the encoding of messages, a file that is torn but
  not empty, a follower that is restarted after it is done.
* The parts of the system without a module are listed with their reasons in the
  `components` of `PROJECT.json`: mostly packet and file I/O, cryptography,
  formats, the virtual machine, tools, and the planned parts below.

The repository has some 520,000 lines; the modules model fewer than two in a
hundred of them. They are the lines on which consensus and scheduling rest.
Most of the rest is not a protocol: the virtual machine and its syscalls,
built-in programs, the accounts database's storage, RPC, command-line tools and
cryptography are sequential code over rich data, where TLC's small instances
would say little.

## 7. Plan

Done: (A) tower, vote program, voting service and restart; (B) scheduling state
machine with its abstract specification; (C) cluster voting and optimistic
confirmation; (D) bank hash cache and vote listener; (E) fork choice and
duplicate slots; (F) account locks, with proofs, and the central scheduler;
(G) wen-restart, with proofs of its safety.

Next, in this order:

1. `UnifiedSchedulerPool`: sessions, timeouts, aborts and the return of
   schedulers around `SchedulingStateMachine`.
2. `PohRecorder` with the leader bank notifier; then `DuplicateSlots` with a
   node that is leader.
3. The status cache; the background service and snapshot requests; the CRDS
   table.
4. Proofs: that `CentralScheduler` implements `LocksSpec` for every instance,
   with `NothingLost` and `BatchesConflictFree`.
