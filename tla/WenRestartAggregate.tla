------------------------- MODULE WenRestartAggregate --------------------------
(***************************************************************************)
(* What a validator computes from the messages of a cluster restart        *)
(* (wen-restart/src): the stake behind each slot of the last voted forks,  *)
(* when enough of the stake is active, and the heaviest fork.  Every       *)
(* validator is staked.  Percentages are compared without division.        *)
(***************************************************************************)
EXTENDS Integers, FiniteSets, FiniteSetsExt

CONSTANTS
  Node,
  Slot,
  Fork,       \* Fork[s]: the slots from s down to genesis, which is slot 0
  Stake,      \* Stake[e][n]: the epoch stakes of the root bank
  NextEpoch   \* the first slot of epoch 1; all roots are in epoch 0

Genesis == 0
Epoch == {0, 1}
EpochOf(s) == IF s < NextEpoch THEN 0 ELSE 1

ASSUME WenRestartAssumption ==
  /\ Genesis \in Slot /\ Slot \subseteq Nat /\ IsFiniteSet(Node)
  /\ NextEpoch \in Nat
  /\ Stake \in [Epoch -> [Node -> Nat \ {0}]]
ASSUME ForkAssumption ==
  /\ Fork \in [Slot -> SUBSET Slot]
  /\ \A s \in Slot :
       /\ s \in Fork[s] /\ Genesis \in Fork[s]
       /\ \A a \in Fork[s] : /\ a <= s /\ Fork[a] \subseteq Fork[s]
                             /\ \A b \in Fork[s] : a <= b => a \in Fork[b]

(* The stake of a set of validators, as the number of units they hold. *)
StakeUnits(e, N) == UNION {{n} \X (1..Stake[e][n]) : n \in N}
StakeSum == [e \in Epoch |-> [N \in SUBSET Node |-> Cardinality(StakeUnits(e, N))]]
StakeOf(e, N) == StakeSum[e][N]
TotalStake(e) == StakeOf(e, Node)

(* The parent_slot of a slot's metadata in the blockstore. *)
Parent(s) == Max(Fork[s] \ {s})

(* RestartLastVotedForkSlots::to_slots: nothing below the reader's root. *)
ToSlots(voted, root) == {s \in Fork[voted] : s >= root}

-----------------------------------------------------------------------------
(* LastVotedForkSlotsAggregate: `from` has the senders, `stakes` is        *)
(* slots_stake_map, `active` and `voting` are actively_voting_stake and    *)
(* actively_voting_for_this_epoch_stake by epoch.                          *)
REPAIR_THRESHOLD == 42
HEAVIEST_FORK_THRESHOLD_DELTA == 38
SUPERMAJORITY_PERCENT == 80

VotingIn(e, N, voted) == StakeOf(e, {m \in N : e <= EpochOf(voted[m])})
For(s, N, voted, root) == {m \in N : s \in ToSlots(voted[m], root)}

NewAggregate(n, voted, root) ==
  [from |-> {}, repair |-> {},
   stakes |-> [s \in ToSlots(voted[n], root) |-> StakeOf(EpochOf(s), {n})],
   active |-> [e \in Epoch |-> StakeOf(e, {n})],
   voting |-> [e \in Epoch |-> VotingIn(e, {n}, voted)]]

StakeAt(stakes, s) == IF s \in DOMAIN stakes THEN stakes[s] ELSE 0

(* insert_message and update_epoch_info, for senders that are new.  Stakes *)
(* only grow, so it is all the same in which order the messages come, and  *)
(* whether a slot has enough stake is seen with the last one for it.       *)
Insert(agg, new, voted, root) ==
  LET slots == UNION {ToSlots(voted[m], root) : m \in new}
      stakes == [s \in DOMAIN agg.stakes \cup slots |->
                   StakeAt(agg.stakes, s)
                     + StakeOf(EpochOf(s), For(s, new, voted, root))]
      Enough(s) ==
        stakes[s] >= (TotalStake(EpochOf(s)) * REPAIR_THRESHOLD) \div 100
  IN [from |-> agg.from \cup new, stakes |-> stakes,
      repair |-> agg.repair \cup {s \in slots : Enough(s)},
      active |-> [e \in Epoch |-> agg.active[e] + StakeOf(e, new)],
      voting |-> [e \in Epoch |-> agg.voting[e] + VotingIn(e, new, voted)]]

(* A mutant of Aggregate: the old message of a sender is not looked up. *)
AggregateAgain(agg, me, senders, voted, root) ==
  Insert(agg, senders \ {me}, voted, root)

(* aggregate, for the messages that have come; one from me, or from a      *)
(* known sender, changes nothing.  (A sender's message is always the same, *)
(* see WenRestart.)                                                        *)
Aggregate(agg, me, senders, voted, root) ==
  Insert(agg, senders \ (agg.from \cup {me}), voted, root)

(* min_active_percent reaches the threshold.  An epoch is considered once  *)
(* a third of its stake has voted in it.                                   *)
Considered(agg) == {e \in Epoch : 3 * agg.voting[e] > TotalStake(e)}

(* A mutant of EnoughActive: more than the threshold. *)
MoreActive(agg, e) ==
  100 * agg.active[e] > SUPERMAJORITY_PERCENT * TotalStake(e)

EnoughActive(agg, e) ==
  100 * agg.active[e] >= SUPERMAJORITY_PERCENT * TotalStake(e)
SupermajorityActive(agg) ==
  Considered(agg) # {} /\ \A e \in Considered(agg) : EnoughActive(agg, e)

-----------------------------------------------------------------------------
(* find_heaviest_fork, up to the replay of the fork. *)
Delta(e) == (TotalStake(e) * HEAVIEST_FORK_THRESHOLD_DELTA) \div 100

(* A mutant of IsOverStakeThreshold: only a majority of all stake counts. *)
IsOverMajority(final, s) ==
  2 * final.stakes[s] > TotalStake(EpochOf(s))

(* A mutant of IsOverStakeThreshold: the share of the active stake. *)
IsOverLowerThreshold(final, s) ==
  final.stakes[s] >= final.active[EpochOf(s)] - 2 * Delta(EpochOf(s))

IsOverStakeThreshold(final, s) ==
  final.stakes[s] >= final.active[EpochOf(s)] - Delta(EpochOf(s))

(* The checked_sub of is_over_stake_threshold has something to subtract    *)
(* from.                                                                   *)
ThresholdExists(final, root) ==
  \A s \in DOMAIN final.stakes :
    s > root => final.active[EpochOf(s)] >= Delta(EpochOf(s))

SlotsOverThreshold(final, root) ==
  {s \in DOMAIN final.stakes : s > root /\ IsOverStakeThreshold(final, s)}
==============================================================================
