--------------------------- MODULE TowerVoteState ---------------------------
(***************************************************************************)
(* The vote stack of Tower BFT: core/src/consensus/tower_vote_state.rs.    *)
(* A vote state is a record [votes, root]: `votes' is the stack of         *)
(* lockouts, oldest first, each a slot with its confirmation count; `root' *)
(* is root_slot, NoSlot standing for None.  NoSlot is below every slot, as *)
(* None is below every Some in the order of Option<Slot>.                  *)
(***************************************************************************)
EXTENDS Integers, Sequences

CONSTANTS
  MAX_LOCKOUT_HISTORY,  \* depth at which the oldest vote becomes the root
  LOCKOUT               \* LOCKOUT[c]: slots a vote confirmed c times locks for

ASSUME LockoutAssumption ==
  /\ MAX_LOCKOUT_HISTORY \in Nat \ {0}
  /\ LOCKOUT \in [0..MAX_LOCKOUT_HISTORY -> Nat \ {0}]
  /\ \A c, d \in 0..MAX_LOCKOUT_HISTORY : c <= d => LOCKOUT[c] <= LOCKOUT[d]

NoSlot == -1
Slot == Nat

Lockout == [slot : Slot, conf : 1..MAX_LOCKOUT_HISTORY]
VoteState == [votes : Seq(Lockout), root : Slot \cup {NoSlot}]

EmptyVoteState == [votes |-> <<>>, root |-> NoSlot]

(* Lockout::last_locked_out_slot and is_locked_out_at_slot. *)
LastLockedOutSlot(v) == v.slot + LOCKOUT[v.conf]
IsLockedOutAtSlot(v, s) == LastLockedOutSlot(v) >= s

LastVotedSlot(vs) ==
  IF vs.votes = <<>> THEN NoSlot ELSE vs.votes[Len(vs.votes)].slot

VotedSlots(vs) == {vs.votes[i].slot : i \in DOMAIN vs.votes}

(* The greatest index in T, 0 when there is none. *)
LastIndex(T) == CHOOSE k \in T \cup {0} : \A i \in T : i <= k

(* Mutant: a vote already expires in the last slot it is locked out for.   *)
PopExpiredVotesEarly(votes, s) ==
  SubSeq(votes, 1,
         LastIndex({i \in DOMAIN votes : LastLockedOutSlot(votes[i]) > s}))

(* The votes left by the pop_expired_votes loop: it pops from the back and *)
(* stops at the newest vote still locked out at s, so an expired vote      *)
(* below that one survives.                                                *)
PopExpiredVotes(votes, s) ==
  SubSeq(votes, 1,
         LastIndex({i \in DOMAIN votes : IsLockedOutAtSlot(votes[i], s)}))

(* Mutant: the depth at which a vote gains a confirmation is off by one. *)
DoubleLockoutsTooLate(votes) ==
  [i \in 1..Len(votes) |->
    IF Len(votes) > i + votes[i].conf
    THEN [votes[i] EXCEPT !.conf = @ + 1]
    ELSE votes[i]]

(* double_lockouts: the i-th vote (from 1) gains a confirmation when the   *)
(* stack is deeper above it than it has ever been.                         *)
DoubleLockouts(votes) ==
  [i \in 1..Len(votes) |->
    IF Len(votes) > (i - 1) + votes[i].conf
    THEN [votes[i] EXCEPT !.conf = @ + 1]
    ELSE votes[i]]

(* The part of process_next_vote_slot after its early return. *)
PushVote(vs, s) ==
  LET kept == PopExpiredVotes(vs.votes, s)
      full == Len(kept) = MAX_LOCKOUT_HISTORY
      rest == IF full THEN Tail(kept) ELSE kept
  IN  [votes |-> DoubleLockouts(Append(rest, [slot |-> s, conf |-> 1])),
       root  |-> IF full THEN kept[1].slot ELSE vs.root]

ProcessNextVoteSlot(vs, s) ==
  IF s <= LastVotedSlot(vs) THEN vs ELSE PushVote(vs, s)

(* retain(|v| v.slot() > s): the votes are ordered by slot, so what is     *)
(* retained is the part of the stack above the last vote not newer than s. *)
RetainAbove(votes, s) ==
  SubSeq(votes, LastIndex({i \in DOMAIN votes : votes[i].slot <= s}) + 1,
         Len(votes))

-----------------------------------------------------------------------------
(* A vote stack is well formed when the structural checks the vote program *)
(* makes on a proposed state pass (VoteProgram!StructureError): slots      *)
(* increase, confirmations decrease and every vote was cast while the one  *)
(* below it was still locked out; and, what makes this inductive, a vote   *)
(* is confirmed by everything stacked on it.                               *)
WellFormedVotes(votes) ==
  /\ Len(votes) <= MAX_LOCKOUT_HISTORY
  /\ \A i \in DOMAIN votes : votes[i].conf >= Len(votes) - i + 1
  /\ \A i \in 1..(Len(votes) - 1) :
       /\ votes[i].slot < votes[i + 1].slot
       /\ votes[i].conf > votes[i + 1].conf
       /\ votes[i + 1].slot <= LastLockedOutSlot(votes[i])

(* The votes are all newer than the root. *)
VotesAboveRoot(vs) == \A i \in DOMAIN vs.votes : vs.votes[i].slot > vs.root
=============================================================================
