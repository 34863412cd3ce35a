---------------------------- MODULE ClusterVoting ----------------------------
(***************************************************************************)
(* The validators of a cluster voting on one tree of blocks, and what      *)
(* their votes confirm: core/src/consensus.rs (is_locked_out and           *)
(* check_switch_threshold, with the lockouts collect_vote_lockouts reads   *)
(* from banks) and the stake that core/src/consensus/vote_stake_tracker.rs *)
(* counts for each block.                                                  *)
(* Each validator sees the others late: any vote ever sent may be the      *)
(* newest one of its sender that another validator has seen in gossip or   *)
(* in a bank.  Which bank fork choice prefers, and the outcome of the vote *)
(* threshold and of the propagation check, are the environment's.          *)
(***************************************************************************)
EXTENDS TowerVoteState, Stakes

CONSTANT Trees  \* the trees of blocks considered, as their ancestor functions

(* locked_out_stake / total_stake > SWITCH_FORK_THRESHOLD (38%). *)
SwitchThreshold(S) == 100 * StakeOf(S) > 38 * TotalStake

(* The stake of S crosses VOTE_THRESHOLD_SIZE (2/3) of the total. *)
ConfirmThreshold(S) == StakeOf(S) > (2 * TotalStake) \div 3

(* A tree: ancestors are older, ancestors of ancestors, and in a line. *)
IsTree(anc) ==
  /\ DOMAIN anc \subseteq Nat
  /\ anc \in [DOMAIN anc -> SUBSET DOMAIN anc]
  /\ \A b \in DOMAIN anc : \A a \in anc[b] : a < b /\ anc[a] \subseteq anc[b]
  /\ \A c \in DOMAIN anc : \A a, b \in anc[c] : a < b => a \in anc[b]

ASSUME ClusterAssumption ==
  /\ MAX_LOCKOUT_HISTORY > 1
  /\ \A anc \in Trees : IsTree(anc) /\ 0 \in DOMAIN anc

VARIABLES
  ancestors,  \* ancestors[s]: the strict ancestors of block s
  tower,      \* tower[v]: the vote state of v's Tower
  sent        \* sent[v]: the towers v has sent, one for each of its votes

vars == <<ancestors, tower, sent>>

Blocks == DOMAIN ancestors
IsAncestorOrSelf(a, b) == a = b \/ a \in ancestors[b]

-----------------------------------------------------------------------------
(* Tower::is_locked_out. *)
IsLockedOut(t, s) ==
  \/ IF t.votes # <<>> THEN s <= LastVotedSlot(t) ELSE s <= t.root
  \/ \E x \in VotedSlots(ProcessNextVoteSlot(t, s)) :
       x # s /\ x \notin ancestors[s]

(* Tower::greatest_common_ancestor: g is the greatest of the slots that    *)
(* are strict ancestors of both.                                           *)
GreatestCommonAncestor(g, a, b) ==
  LET common == ancestors[a] \cap ancestors[b]
  IN  g \in common /\ \A x \in common : x <= g

(* Mutant: where c forked off is not checked. *)
IsValidIfNotDescendant(c, last, switch) == last \notin ancestors[c]

(* Tower::is_valid_switching_proof_vote: c is not on the fork of the last  *)
(* vote, and forked off it no later than the switch slot did.              *)
IsValidSwitchingProofVote(c, last, switch) ==
  /\ last \notin ancestors[c]
  /\ \E g \in ancestors[switch] : GreatestCommonAncestor(g, c, last)

(* A vote of u above the last vote has been seen in gossip, for a bank     *)
(* still in BankForks.                                                     *)
GossipVoteCounts(u, t, switch) ==
  \E x \in sent[u] :
    LET c == LastVotedSlot(x)  last == LastVotedSlot(t) IN
    /\ c > last
    /\ t.root \in ancestors[c]
    /\ IsValidSwitchingProofVote(c, last, switch)

(* Mutant: expired lockouts count. *)
LandedLockoutCountsExpired(u, t, switch) ==
  \E x \in sent[u], c \in Blocks :
    LET last == LastVotedSlot(t) IN
    /\ LastVotedSlot(x) \in ancestors[c]
    /\ c \notin ancestors[last] \cup ancestors[switch] \cup {last}
    /\ t.root \in ancestors[c]
    /\ IsValidSwitchingProofVote(c, last, switch)
    /\ \E i \in DOMAIN x.votes :
         /\ x.votes[i].slot \notin ancestors[last]
         /\ x.votes[i].slot > t.root

(* A tower x of u has landed in bank c, a tip of the forks known, with a   *)
(* lockout on another fork than the last vote that includes its slot.      *)
LandedLockoutCounts(u, t, switch) ==
  \E x \in sent[u], c \in Blocks :
    LET last == LastVotedSlot(t) IN
    /\ LastVotedSlot(x) \in ancestors[c]
    /\ c \notin ancestors[last] \cup ancestors[switch] \cup {last}
    /\ t.root \in ancestors[c]
    /\ IsValidSwitchingProofVote(c, last, switch)
    /\ \E i \in DOMAIN x.votes :
         /\ LastLockedOutSlot(x.votes[i]) >= last
         /\ x.votes[i].slot \notin ancestors[last]
         /\ x.votes[i].slot > t.root

(* Tower::make_check_switch_threshold_decision allows a vote on s. *)
CanSwitch(t, s) ==
  LET last == LastVotedSlot(t) IN
  \/ last = NoSlot
  \/ IsAncestorOrSelf(last, s)
  \/ /\ last # NoSlot /\ s \notin ancestors[last]
     /\ SwitchThreshold({u \in Validator : \/ LandedLockoutCounts(u, t, s)
                                           \/ GossipVoteCounts(u, t, s)})
-----------------------------------------------------------------------------
Init ==
  /\ ancestors \in Trees
  /\ tower = [v \in Validator |-> [votes |-> <<>>, root |-> 0]]
  /\ sent = [v \in Validator |-> {}]

(* select_vote_and_reset_forks lets v vote on bank s, one of BankForks,    *)
(* which are descendants of its root; v records the vote and sends it.     *)
Vote(v, s) ==
  /\ tower[v].root \in ancestors[s]
  /\ ~IsLockedOut(tower[v], s)
  /\ CanSwitch(tower[v], s)
  /\ tower' = [tower EXCEPT ![v] = ProcessNextVoteSlot(@, s)]
  /\ sent' = [sent EXCEPT ![v] = @ \cup {tower'[v]}]
  /\ UNCHANGED ancestors

Next == \E v \in Validator, s \in Blocks : Vote(v, s)

Spec == Init /\ [][Next]_vars

-----------------------------------------------------------------------------
(* The validators that have voted on s: what VoteStakeTracker counts.  The *)
(* listener counts every slot of a tower; each was the last one of a tower *)
(* sent before.                                                            *)
VotedOn(s) == {v \in Validator : \E t \in sent[v] : LastVotedSlot(t) = s}
Confirmed(s) == ConfirmThreshold(VotedOn(s))

(* Towers and the towers sent are vote states; the tree is one of Trees.   *)
TypeOK ==
  /\ ancestors \in Trees
  /\ tower \in [Validator -> VoteState]
  /\ sent \in [Validator -> SUBSET VoteState]

(* A validator honours the lockouts of every tower it has sent: while one  *)
(* of its votes locks out a slot, it votes there only on its descendants.  *)
(* Without crashes no vote of process_next_vote_slot escapes this.         *)
LockoutsKept ==
  \A v \in Validator : \A t, u \in sent[v] : \A i \in DOMAIN t.votes :
    LET s == LastVotedSlot(u) IN
    LastVotedSlot(t) < s /\ IsLockedOutAtSlot(t.votes[i], s) =>
      t.votes[i].slot \in ancestors[s]

(* Once two thirds of the stake have voted on a block, no validator that   *)
(* voted on it, before or after, ever votes on another fork: no switching  *)
(* proof can be collected, from gossip or from landed lockouts.            *)
ConfirmersStay ==
  \A s \in Blocks : Confirmed(s) =>
    \A v \in VotedOn(s) : \A t \in sent[v] :
      LastVotedSlot(t) > s => s \in ancestors[LastVotedSlot(t)]

(* Optimistic confirmation is safe: two blocks that each gathered two      *)
(* thirds of the stake, at whatever times, lie on one fork.                *)
ConfirmedOnOneFork ==
  \A a, b \in Blocks : Confirmed(a) /\ Confirmed(b) =>
    IsAncestorOrSelf(a, b) \/ IsAncestorOrSelf(b, a)
=============================================================================
