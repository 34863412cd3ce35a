----------------------------- MODULE ForkChoice ------------------------------
(***************************************************************************)
(* core/src/consensus/heaviest_subtree_fork_choice.rs: the tree of frozen  *)
(* blocks that the replay stage votes with and that repair (with the hash  *)
(* of every block left at its default) ranks missing blocks with.  Every   *)
(* block carries the stake that voted in its subtree, the best and the     *)
(* deepest block of that subtree, and whether a duplicate excludes it.     *)
(* These are kept up to date incrementally; the second half of the module  *)
(* defines what they should be from the tree and the votes alone.          *)
(*                                                                         *)
(* A fork choice is a record; each operation maps one to the next.  Where  *)
(* the code would panic, the operation names the reason in the "panic"     *)
(* field.  A block is a <<slot, hash>> pair, ordered as Rust orders it.    *)
(***************************************************************************)
EXTENDS Integers, FiniteSets, FiniteSetsExt, Functions, Sequences,
        SequencesExt, TLC

CONSTANTS
  Voter,      \* the vote accounts
  VoteStake   \* VoteStake[v]: the stake delegated to v

NoSlot == -1
NoKey == <<NoSlot, NoSlot>>

KeyLess(a, b) == a[1] < b[1] \/ (a[1] = b[1] /\ a[2] < b[2])
StakeSum(S) == MapThenSumSet(LAMBDA v : VoteStake[v], S)

(* ForkInfo of a block that was just added.                                *)
NewForkInfo(key, parent, invalid, confirmed) ==
  [stake_voted_at |-> 0, stake_voted_subtree |-> 0, height |-> 1,
   best_slot |-> key, deepest_slot |-> key, parent |-> parent,
   children |-> {}, latest_invalid_ancestor |-> invalid,
   is_duplicate_confirmed |-> confirmed]

(* HeaviestSubtreeForkChoice::new.                                         *)
NewForkChoice(root) ==
  [tree_root |-> root,
   fork_infos |-> root :> NewForkInfo(root, NoKey, NoSlot, TRUE),
   latest_votes |-> [v \in Voter |-> NoKey], panic |-> "none"]

ContainsBlock(fc, key) == key \in DOMAIN fc.fork_infos
IsCandidate(infos, key) == infos[key].latest_invalid_ancestor = NoSlot
IsDuplicateConfirmed(fc, key) ==
  ContainsBlock(fc, key) /\ fc.fork_infos[key].is_duplicate_confirmed
BestOverallSlot(fc) == fc.fork_infos[fc.tree_root].best_slot

Panic(fc, reason) == IF fc.panic = "none" THEN [fc EXCEPT !.panic = reason]
                                          ELSE fc

(* ancestor_iterator: the ancestors of a block, the nearest first.         *)
Ancestors(infos, key) ==
  LET up[k \in DOMAIN infos] ==
        IF infos[k].parent = NoKey THEN << >>
        ELSE <<infos[k].parent>> \o up[infos[k].parent]
  IN IF key \in DOMAIN infos THEN up[key] ELSE << >>

(* subtree_diff: what can be reached from root1 without passing root2.     *)
SubtreeDiff(infos, root1, root2) ==
  {k \in DOMAIN infos :
     LET path == {k} \cup Range(Ancestors(infos, k))
     IN root1 \in path /\ ~(root2 \in path /\ root1[1] <= root2[1])}

-----------------------------------------------------------------------------
(* Which child of a block is the best and which the deepest.               *)

Heavier(infos, a, b) ==
  \/ infos[a].stake_voted_subtree > infos[b].stake_voted_subtree
  \/ /\ infos[a].stake_voted_subtree = infos[b].stake_voted_subtree
     /\ KeyLess(a, b)

Deeper(infos, a, b) ==
  \/ infos[a].height > infos[b].height
  \/ infos[a].height = infos[b].height /\ Heavier(infos, a, b)

(* is_best_child compares with the siblings that are candidates and does   *)
(* not ask whether the child itself is one.                                *)
IsBestChild(infos, key) ==
  \A c \in infos[infos[key].parent].children :
    IsCandidate(infos, c) => ~Heavier(infos, c, key)

IsDeepestChild(infos, key) ==
  \A c \in infos[infos[key].parent].children : ~Deeper(infos, c, key)

(* propagate_new_leaf: the ancestors whose best block was the parent's     *)
(* best block now have the leaf, up to the first one that differs; then    *)
(* the height and the deepest block, as long as the path is the deepest.   *)
PropagateNewLeaf(infos, key) ==
  LET path == Ancestors(infos, key)
      old == infos[infos[key].parent].best_slot
      sameBest == {k \in Range(path) : \A a \in Range(path) :
                     a[1] >= k[1] => infos[a].best_slot = old}
      best == IF IsBestChild(infos, key)
              THEN [k \in DOMAIN infos |->
                      IF k \in sameBest
                      THEN [infos[k] EXCEPT !.best_slot = key] ELSE infos[k]]
              ELSE infos
      Up(acc, k) ==
        IF ~acc.go \/ ~IsDeepestChild(acc.infos, acc.child)
        THEN [acc EXCEPT !.go = FALSE]
        ELSE [acc EXCEPT
                !.infos[k].deepest_slot = key,
                !.infos[k].height = acc.infos[acc.child].height + 1,
                !.child = k]
  IN FoldLeft(Up, [infos |-> best, child |-> key, go |-> TRUE], path).infos

(* What a new leaf inherits (parent_latest_invalid_ancestor).              *)
ParentLatestInvalidAncestor(fc, parent) ==
  IF parent = NoKey THEN NoSlot
  ELSE fc.fork_infos[parent].latest_invalid_ancestor

(* add_new_leaf_slot.                                                      *)
AddNewLeafSlot(fc, key, parent) ==
  IF ContainsBlock(fc, key) THEN fc
  ELSE IF parent # NoKey /\ ~ContainsBlock(fc, parent)
  THEN Panic(fc, "parent not in fork choice")
  ELSE LET invalid == ParentLatestInvalidAncestor(fc, parent)
           infos == (key :> NewForkInfo(key, parent, invalid, parent = NoKey))
                    @@ fc.fork_infos
       IN [fc EXCEPT !.fork_infos =
             IF parent = NoKey THEN infos
             ELSE PropagateNewLeaf(
                    [infos EXCEPT ![parent].children = @ \cup {key}], key)]

-----------------------------------------------------------------------------
(* Update operations.  A batch maps each block it touches to what happens  *)
(* there; blocks are visited from the greatest key to the smallest, so     *)
(* children come before their parents.                                     *)

NoOps == [subtract |-> 0, mark_invalid |-> NoSlot, mark_valid |-> NoSlot,
          add |-> 0, aggregate |-> FALSE]

(* mark_fork_invalid, update_with_newly_invalid_ancestor (its assertion is *)
(* MarkForkInvalidCandidate's).                                            *)
MarkForkInvalid(info, slot) ==
  [info EXCEPT !.latest_invalid_ancestor = IF slot > @ THEN slot ELSE @]

(* mark_fork_valid, update_with_newly_valid_ancestor.                      *)
MarkForkValid(info, key, slot) ==
  [info EXCEPT
     !.latest_invalid_ancestor = IF @ <= slot THEN NoSlot ELSE @,
     !.is_duplicate_confirmed = @ \/ key[1] = slot]

(* Mutant: the flag follows the children alone.                            *)
SetDuplicateConfirmedAnew(info, confirmed) ==
  [info EXCEPT !.is_duplicate_confirmed = confirmed,
               !.latest_invalid_ancestor = IF confirmed THEN NoSlot ELSE @]

(* set_duplicate_confirmed, for a block with a confirmed child.            *)
SetDuplicateConfirmed(info, confirmed) ==
  [info EXCEPT !.is_duplicate_confirmed = @ \/ confirmed,
               !.latest_invalid_ancestor = IF confirmed THEN NoSlot ELSE @]

(* Mutant: excluded children compete as well.                              *)
AllChildren(infos, key) == infos[key].children

(* The children of a block that may be its best.                           *)
CandidateChildren(infos, key) ==
  {c \in infos[key].children : IsCandidate(infos, c)}

(* aggregate_slot.  Children that are no candidates still count for the    *)
(* stake and the depth; a confirmed child confirms the block.              *)
AggregateSlot(infos, key) ==
  LET kids == infos[key].children
      candidates == CandidateChildren(infos, key)
      best == CHOOSE c \in candidates :
                \A d \in candidates \ {c} : Heavier(infos, c, d)
      deepest == CHOOSE c \in kids :
                   \A d \in kids \ {c} : Deeper(infos, c, d)
      confirmed == \E c \in kids : infos[c].is_duplicate_confirmed
  IN [SetDuplicateConfirmed(infos[key], confirmed) EXCEPT
        !.stake_voted_subtree = infos[key].stake_voted_at
          + MapThenSumSet(LAMBDA c : infos[c].stake_voted_subtree, kids),
        !.best_slot = IF candidates = {} THEN key
                      ELSE infos[best].best_slot,
        !.deepest_slot = IF kids = {} THEN key
                         ELSE infos[deepest].deepest_slot,
        !.height = IF kids = {} THEN 1 ELSE infos[deepest].height + 1]

(* The operations of one block in the reverse order of their labels:       *)
(* Subtract, MarkInvalid, MarkValid, Add, Aggregate.                       *)
ProcessBlock(infos, key, ops) ==
  LET Stake(i, n) == [i EXCEPT !.stake_voted_at = @ + n,
                               !.stake_voted_subtree = @ + n]
      subtracted == Stake(infos[key], -ops.subtract)
      invalid == IF ops.mark_invalid = NoSlot THEN subtracted
                 ELSE MarkForkInvalid(subtracted, ops.mark_invalid)
      valid == IF ops.mark_valid = NoSlot THEN invalid
               ELSE MarkForkValid(invalid, key, ops.mark_valid)
      added == [infos EXCEPT ![key] = Stake(valid, ops.add)]
  IN IF ops.aggregate THEN [added EXCEPT ![key] = AggregateSlot(added, key)]
     ELSE added

(* process_update_operations: blocks that are not in the tree are skipped. *)
ProcessUpdateOperations(infos, batch) ==
  FoldLeft(LAMBDA acc, k : ProcessBlock(acc, k, batch[k]), infos,
           SetToSortSeq(DOMAIN batch \cap DOMAIN infos,
                        LAMBDA a, b : KeyLess(b, a)))

-----------------------------------------------------------------------------
(* Mutant: a voter leaves its stake behind.                                *)
NoneLeft(fc, voters, key) == {}

(* The voters whose previous vote was for the block.                       *)
LeftBehind(fc, voters, key) == {v \in voters : fc.latest_votes[v] = key}

(* generate_update_operations and add_votes.  A batch of votes is a set of *)
(* <<pubkey, key>> pairs.                                                  *)

IsNewerVote(old, key) ==
  old = NoKey \/ key[1] > old[1] \/ (key[1] = old[1] /\ key[2] < old[2])

AddVotes(fc, votes) ==
  LET infos == fc.fork_infos
      inTree == {m \in votes : m[2][1] >= fc.tree_root[1]}
      new == {m \in inTree : IsNewerVote(fc.latest_votes[m[1]], m[2])}
      Key(v) == (CHOOSE m \in new : m[1] = v)[2]
      voters == {m[1] : m \in new}
      Joined(k) == {v \in voters : Key(v) = k}
      touched == {Key(v) : v \in voters} \cup
                 ({fc.latest_votes[v] : v \in voters} \ {NoKey})
      above == UNION {Range(Ancestors(infos, k)) : k \in touched}
      batch == [k \in touched \cup above |->
                  [NoOps EXCEPT !.subtract = StakeSum(LeftBehind(fc, voters, k)),
                                !.add = StakeSum(Joined(k)),
                                !.aggregate = k \in above]]
  IN IF \E m, n \in inTree : m # n /\ m[1] = n[1]
     THEN Panic(fc, "two votes of one voter in a batch")
     ELSE [fc EXCEPT
             !.latest_votes = [v \in Voter |-> IF v \in voters THEN Key(v)
                                               ELSE @[v]],
             !.fork_infos = ProcessUpdateOperations(infos, batch)]

-----------------------------------------------------------------------------
(* Duplicate blocks and roots.                                             *)

MarkSubtree(infos, key, ops) ==
  LET below == SubtreeDiff(infos, key, NoKey)
  IN ProcessUpdateOperations(infos,
       [k \in below \cup Range(Ancestors(infos, key)) |->
          IF k \in below THEN [ops EXCEPT !.aggregate = TRUE]
          ELSE [NoOps EXCEPT !.aggregate = TRUE]])

(* mark_fork_invalid_candidate; both assertions refuse a confirmed block.  *)
MarkForkInvalidCandidate(fc, key) ==
  IF ~ContainsBlock(fc, key) THEN fc
  ELSE IF \E k \in SubtreeDiff(fc.fork_infos, key, NoKey) :
            fc.fork_infos[k].is_duplicate_confirmed
  THEN Panic(fc, "confirmed block marked invalid")
  ELSE [fc EXCEPT !.fork_infos =
          MarkSubtree(@, key, [NoOps EXCEPT !.mark_invalid = key[1]])]

(* mark_fork_valid_candidate, and the blocks it returns.                   *)
NewlyDuplicateConfirmed(fc, key) ==
  {k \in {key} \cup Range(Ancestors(fc.fork_infos, key)) :
     ~IsDuplicateConfirmed(fc, k)}

MarkForkValidCandidate(fc, key) ==
  IF ~ContainsBlock(fc, key) THEN Panic(fc, "valid block not in fork choice")
  ELSE [fc EXCEPT !.fork_infos =
          MarkSubtree(@, key, [NoOps EXCEPT !.mark_valid = key[1]])]

(* set_tree_root.                                                          *)
SetTreeRoot(fc, root) ==
  LET kept == DOMAIN fc.fork_infos
              \ SubtreeDiff(fc.fork_infos, fc.tree_root, root)
  IN IF root \notin kept THEN Panic(fc, "new root not in fork choice")
     ELSE [fc EXCEPT !.tree_root = root,
                     !.fork_infos = [Restrict(@, kept) EXCEPT
                                       ![root].parent = NoKey]]

(* heaviest_slot_on_same_voted_fork, for a last vote that is not stray.    *)
HeaviestSlotOnSameVotedFork(fc, last) ==
  IF IsCandidate(fc.fork_infos, last) THEN fc.fork_infos[last].best_slot
  ELSE fc.fork_infos[last].deepest_slot

-----------------------------------------------------------------------------
(* What the tree should say, from its shape, the latest votes and the      *)
(* blocks that are excluded, recomputed from the leaves up.                *)

Subtree(infos, key) == SubtreeDiff(infos, key, NoKey)

SubtreeStake(fc, key) ==
  StakeSum({v \in Voter :
              fc.latest_votes[v] \in Subtree(fc.fork_infos, key)})

SubtreeHeight(infos, key) ==
  Max({1 + Cardinality({a \in Range(Ancestors(infos, k)) : a[1] >= key[1]}) :
         k \in Subtree(infos, key)})

(* The block reached from the top by always taking the heaviest candidate. *)
IsHeaviestPath(fc, top, leaf) ==
  LET infos == fc.fork_infos
      path == {k \in {leaf} \cup Range(Ancestors(infos, leaf)) :
                 k[1] >= top[1]}
      Weight(k) == SubtreeStake(fc, k)
      Live(k) == {c \in infos[k].children : IsCandidate(infos, c)}
  IN /\ leaf \in Subtree(infos, top) /\ Live(leaf) = {}
     /\ \A k \in path \ {top} :
          /\ IsCandidate(infos, k)
          /\ \A c \in Live(infos[k].parent) \ {k} :
               Weight(k) > Weight(c) \/ (Weight(k) = Weight(c) /\ KeyLess(k, c))

IsDeepestPath(fc, top, leaf) ==
  LET infos == fc.fork_infos
      path == {k \in {leaf} \cup Range(Ancestors(infos, leaf)) :
                 k[1] >= top[1]}
      Rank(k) == <<SubtreeHeight(infos, k), SubtreeStake(fc, k)>>
  IN /\ leaf \in Subtree(infos, top) /\ infos[leaf].children = {}
     /\ \A k \in path \ {top} :
          \A c \in infos[infos[k].parent].children \ {k} :
            \/ Rank(k)[1] > Rank(c)[1]
            \/ Rank(k)[1] = Rank(c)[1] /\ Rank(k)[2] > Rank(c)[2]
            \/ Rank(k) = Rank(c) /\ KeyLess(k, c)

=============================================================================
