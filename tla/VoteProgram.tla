----------------------------- MODULE VoteProgram -----------------------------
(***************************************************************************)
(* The vote program's TowerSync instruction:                               *)
(* programs/vote/src/vote_state/mod.rs, do_process_tower_sync.  A proposed *)
(* vote state (lockouts and root) is checked against the bank's slot       *)
(* hashes and against the vote account's current state; when every check   *)
(* passes it replaces that state.  `slotHashes' is the set of slots in the *)
(* SlotHashes sysvar, the most recent ancestors of the bank.  A slot       *)
(* stands for one block, so the hash comparison always succeeds.           *)
(***************************************************************************)
EXTENDS TowerVoteState

OkResult == "Ok"

Earliest(slotHashes) == CHOOSE s \in slotHashes : \A x \in slotHashes : s <= x

(* A root too old for the slot hashes is replaced by the newest vote of    *)
(* the current state not above it, else by the current root.               *)
FilteredRoot(current, proposed, slotHashes) ==
  LET older == {i \in DOMAIN current.votes :
                  current.votes[i].slot <= proposed.root}
  IN  IF proposed.root >= Earliest(slotHashes) THEN proposed.root
      ELSE IF older = {} THEN current.root
           ELSE current.votes[LastIndex(older)].slot

(* Votes too old for the slot hashes are dropped unless the current state  *)
(* has them.                                                               *)
FilteredVotes(current, proposed, slotHashes) ==
  LET keep(v) == \/ v.slot >= Earliest(slotHashes)
                 \/ v.slot \in VotedSlots(current)
  IN  IF \A i \in DOMAIN proposed.votes : keep(proposed.votes[i])
      THEN proposed.votes
      ELSE SelectSeq(proposed.votes, keep)

(* The verdict of check_and_filter_proposed_vote_state. *)
CheckProposed(current, proposed, slotHashes) ==
  LET last == LastVotedSlot(proposed)
      root == FilteredRoot(current, proposed, slotHashes)
      misplaced(s) == s >= Earliest(slotHashes) /\ s \notin slotHashes
  IN  CASE proposed.votes = <<>> -> "EmptySlots"
        [] proposed.votes # <<>> /\ last <= LastVotedSlot(current) ->
             "VoteTooOld"
        [] proposed.votes # <<>> /\ last > LastVotedSlot(current) ->
             IF slotHashes = {} THEN "SlotsMismatch"
             ELSE IF last < Earliest(slotHashes) THEN "VoteTooOld"
             ELSE IF misplaced(root) THEN "RootOnDifferentFork"
             ELSE IF \E s \in VotedSlots(proposed) : misplaced(s)
                  THEN "SlotsMismatch"
             ELSE OkResult

(* The checks of process_new_vote_state on the new state by itself.        *)
StructureError(votes, root) ==
  \/ Len(votes) > MAX_LOCKOUT_HISTORY                     \* TooManyVotes
  \/ \E i \in DOMAIN votes :
       \/ votes[i].conf = 0                               \* ZeroConfirmations
       \/ votes[i].conf > MAX_LOCKOUT_HISTORY             \* ConfirmationTooLarge
       \/ votes[i].slot <= root /\ root # 0 /\ root # NoSlot
                                                          \* SlotSmallerThanRoot
  \/ \E i \in 1..(Len(votes) - 1) :
       \/ votes[i].slot >= votes[i + 1].slot              \* SlotsNotOrdered
       \/ votes[i].conf <= votes[i + 1].conf              \* ConfirmationsNotOrdered
       \/ votes[i + 1].slot > LastLockedOutSlot(votes[i])
                                                \* NewVoteStateLockoutMismatch

(* Its checks against the current state, for the current votes above the   *)
(* new root.  A current vote the new state lacks must have expired before  *)
(* the first newer vote of the new state; one it keeps must not have lost  *)
(* confirmations.                                                          *)
LockoutConflict(current, votes, root) ==
  \E c \in DOMAIN current.votes, n \in DOMAIN votes :
    /\ current.votes[c].slot > root
    /\ \A i \in DOMAIN votes : votes[i].slot # current.votes[c].slot
    /\ current.votes[c].slot < votes[n].slot
    /\ LastLockedOutSlot(current.votes[c]) >= votes[n].slot

ConfirmationRollBack(current, votes, root) ==
  \E c \in DOMAIN current.votes, n \in DOMAIN votes :
    /\ current.votes[c].slot > root
    /\ current.votes[c].slot = votes[n].slot
    /\ votes[n].conf < current.votes[c].conf

ProcessNewVoteStateError(current, votes, root) ==
  \/ root < current.root                                  \* RootRollBack
  \/ StructureError(votes, root)
  \/ LockoutConflict(current, votes, root)
  \/ ConfirmationRollBack(current, votes, root)

(* do_process_tower_sync: an error leaves the vote account as it was.      *)
ProcessTowerSync(current, proposed, slotHashes) ==
  IF CheckProposed(current, proposed, slotHashes) # OkResult THEN current
  ELSE LET votes == FilteredVotes(current, proposed, slotHashes)
           root  == FilteredRoot(current, proposed, slotHashes)
       IN  IF ProcessNewVoteStateError(current, votes, root) THEN current
           ELSE [votes |-> votes, root |-> root]
=============================================================================
