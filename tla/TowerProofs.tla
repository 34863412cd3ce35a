---------------------------- MODULE TowerProofs -----------------------------
(***************************************************************************)
(* Type correctness and well-formedness of every tower of the validator,   *)
(* that the towers it sends lie on one fork, and that the assertions on    *)
(* the tower hold: for every block tree, depth of the tower, lockout,      *)
(* number of crashes and combination of lost files.                        *)
(***************************************************************************)
EXTENDS Tower, TowerVoteStateProofs

(* The inductive invariant: every tower is well formed and names blocks    *)
(* only (a restart looks its root up in the blockstore), and genesis is an *)
(* ancestor of every block (so no slot of a tower is too old for the slot  *)
(* hashes of a bank).                                                      *)
IInv ==
  /\ TypeOK
  /\ 0 \in Blocks /\ \A b \in Blocks : b = 0 \/ 0 \in ancestors[b]
  /\ TowerOver(tower, Blocks) /\ TowerOver(lastVote, Blocks)
  /\ TowerOver(saved, Blocks)
  /\ \A t \in sent : TowerOver(t, Blocks)
  /\ \A i \in DOMAIN voteQueue : TowerOver(voteQueue[i].vote, Blocks)
  /\ \A b \in Blocks : TowerOver(onChain[b], Blocks)

-----------------------------------------------------------------------------
(* What the queue of votes does to the sequence. *)
LEMMA QueueType ==
  ASSUME NEW T, NEW q \in Seq(T)
  PROVE  /\ \A e \in T : Append(q, e) \in Seq(T)
         /\ q # <<>> => Tail(q) \in Seq(T)
OBVIOUS

(* Genesis is the earliest of the slot hashes that have it. *)
LEMMA EarliestZero ==
  ASSUME NEW slotHashes \in SUBSET Nat, 0 \in slotHashes
  PROVE  Earliest(slotHashes) = 0
<1>1. \A x \in slotHashes : 0 <= x
  OBVIOUS
<1>2. /\ Earliest(slotHashes) \in slotHashes
      /\ \A x \in slotHashes : Earliest(slotHashes) <= x
  BY <1>1, Zenon DEF Earliest
<1>3. Earliest(slotHashes) \in Nat /\ Earliest(slotHashes) <= 0
  BY <1>2, Zenon
<1> QED
  BY <1>3

(* The vote program keeps the vote account a well-formed tower when the    *)
(* slot hashes reach back to genesis.                                      *)
LEMMA ProcessTowerSyncTowerOver ==
  ASSUME NEW B \in SUBSET Slot, NEW current, TowerOver(current, B),
         NEW proposed, TowerOver(proposed, B),
         NEW slotHashes \in SUBSET Nat, 0 \in slotHashes
  PROVE  TowerOver(ProcessTowerSync(current, proposed, slotHashes), B)
<1> DEFINE votes == FilteredVotes(current, proposed, slotHashes)
           root == FilteredRoot(current, proposed, slotHashes)
<1>1. Earliest(slotHashes) = 0
  BY EarliestZero
<1>2. votes = proposed.votes
  <2>1. proposed.votes \in Seq(Lockout)
    BY DEF TowerOver, VoteState
  <2>2. \A i \in DOMAIN proposed.votes : proposed.votes[i].slot >= 0
    BY <2>1, VotesType
  <2> QED
    BY <1>1, <2>2 DEF FilteredVotes
<1>3. root \in B \cup {NoSlot}
  <2> DEFINE older == {i \in DOMAIN current.votes :
                         current.votes[i].slot <= proposed.root}
  <2>1. CASE older # {}
    <3>1. current.votes \in Seq(Lockout)
      BY DEF TowerOver, VoteState
    <3>2. older \in SUBSET (1..Len(current.votes)) /\ Len(current.votes) \in Nat
      BY <3>1
    <3>3. LastIndex(older) \in older
      <4>1. /\ LastIndex(older) \in older \cup {0}
            /\ \A i \in older : i <= LastIndex(older)
        BY <3>2, LastIndexGreatest, Zenon
      <4>2. PICK i \in older : i \in Nat \ {0}
        BY <2>1, <3>2
      <4>3. LastIndex(older) # 0
        BY <4>1, <4>2
      <4> QED
        BY <4>1, <4>3
    <3>4. current.votes[LastIndex(older)].slot \in B
      BY <3>3, Zenon DEF TowerOver, VotedSlots
    <3> QED
      BY <2>1, <3>4 DEF FilteredRoot, TowerOver
  <2>2. CASE older = {}
    BY <2>2 DEF FilteredRoot, TowerOver
  <2> QED
    BY <2>1, <2>2
<1> HIDE DEF votes, root
<1>4. TowerOver([votes |-> proposed.votes, root |-> root], B)
  BY <1>3, Zenon DEF TowerOver, VoteState, VotedSlots, Slot
<1> QED
  BY <1>2, <1>4 DEF ProcessTowerSync, votes, root

(* Adopting the tower of a bank leaves a well-formed tower with a root.    *)
LEMMA AdoptedTowerOver ==
  ASSUME IInv, NEW b \in banks
  PROVE  TowerOver(AdoptedTower(b), Blocks) /\ AdoptedTower(b).root # NoSlot
<1>1. /\ TowerOver(onChain[b], Blocks) /\ TowerOver(tower, Blocks)
      /\ tower.root \in Blocks /\ tower.root # NoSlot /\ Blocks \in SUBSET Slot
  BY DEF IInv, TypeOK, TowerOver
<1>2. tower.root \in Slot
  BY <1>1
<1>3. CASE tower.root > onChain[b].root
  <2>1. TowerOver([votes |-> RetainAbove(onChain[b].votes, tower.root),
                   root |-> tower.root], Blocks)
    BY <1>1, <1>2, RetainAboveTowerOver
  <2> QED
    BY <1>1, <1>3, <2>1 DEF AdoptedTower
<1>4. CASE ~(tower.root > onChain[b].root)
  <2>1. onChain[b].root # NoSlot
    BY <1>2, <1>4 DEF NoSlot, Slot
  <2> QED
    BY <1>1, <1>4, <2>1 DEF AdoptedTower
<1> QED
  BY <1>3, <1>4

(* A restored tower is a suffix of the saved one above an old or new root. *)
LEMMA RestoredTowerOver ==
  ASSUME IInv, NEW r \in Blocks, saved.root # NoSlot
  PROVE  LET t == AdjustLockoutsAfterReplay(saved, r)
         IN  TowerOver(t, Blocks) /\ t.root # NoSlot
<1> DEFINE T == {i \in DOMAIN saved.votes : CheckTower(saved, r, i) = "Found"}
           k == LastIndex(T)
           w == SubSeq(saved.votes, k + 1, Len(saved.votes))
           root == IF saved.root <= r THEN r ELSE saved.root
<1>1. /\ saved \in VoteState /\ saved.votes \in Seq(Lockout)
      /\ WellFormedVotes(saved.votes) /\ VotedSlots(saved) \subseteq Blocks
      /\ saved.root \in Blocks /\ Blocks \in SUBSET Slot
  BY DEF IInv, TypeOK, TowerOver, VoteState
<1>2. T \in SUBSET (1..Len(saved.votes)) /\ Len(saved.votes) \in Nat
  BY <1>1
<1>3. k \in 0..Len(saved.votes)
  BY <1>2, LastIndexGreatest
<1>4. AdjustLockoutsAfterReplay(saved, r) = [votes |-> w, root |-> root]
  BY DEF AdjustLockoutsAfterReplay
<1> HIDE DEF k
<1>5. /\ w \in Seq(Lockout) /\ WellFormedVotes(w) /\ Len(w) = Len(saved.votes) - k
      /\ \A i \in 1..Len(w) : w[i] = saved.votes[k + i]
  BY <1>1, <1>3, SuffixWellFormed
<1> HIDE DEF w
<1>6. ASSUME NEW i \in DOMAIN w PROVE w[i].slot \in Blocks
  <2>1. i \in 1..Len(w) /\ k + i \in DOMAIN saved.votes
    BY <1>1, <1>2, <1>3, <1>5
  <2>2. w[i].slot \in VotedSlots(saved)
    BY <1>5, <2>1 DEF VotedSlots
  <2> QED
    BY <1>1, <2>2
<1>7. root \in Blocks /\ root \in Slot /\ root # NoSlot
  <2>1. root \in Blocks
    BY <1>1
  <2> HIDE DEF root
  <2> QED
    BY <1>1, <2>1 DEF Slot, NoSlot
<1> HIDE DEF root
<1>8. TowerOver([votes |-> w, root |-> root], Blocks)
  BY <1>5, <1>6, <1>7 DEF TowerOver, VoteState, VotedSlots
<1> QED
  BY <1>4, <1>7, <1>8

(* The votes of a restored tower are votes of the saved one. *)
LEMMA RestoredFromSaved ==
  ASSUME NEW B \in SUBSET Slot, TowerOver(saved, B), NEW r
  PROVE  LET w == AdjustLockoutsAfterReplay(saved, r).votes
         IN  \A i \in DOMAIN w : \E j \in DOMAIN saved.votes : w[i] = saved.votes[j]
<1> DEFINE T == {j \in DOMAIN saved.votes : CheckTower(saved, r, j) = "Found"}
           k == LastIndex(T)
           w == SubSeq(saved.votes, k + 1, Len(saved.votes))
<1>1. /\ saved.votes \in Seq(Lockout) /\ WellFormedVotes(saved.votes)
      /\ Len(saved.votes) \in Nat /\ DOMAIN saved.votes = 1..Len(saved.votes)
  BY DEF TowerOver, VoteState
<1>2. T \in SUBSET (1..Len(saved.votes))
  BY <1>1
<1>3. k \in 0..Len(saved.votes)
  BY <1>1, <1>2, LastIndexGreatest
<1>4. AdjustLockoutsAfterReplay(saved, r).votes = w
  BY Zenon DEF AdjustLockoutsAfterReplay
<1> HIDE DEF k
<1>5. /\ w \in Seq(Lockout) /\ Len(w) = Len(saved.votes) - k
      /\ \A j \in 1..Len(w) : w[j] = saved.votes[k + j]
  BY <1>1, <1>3, SuffixWellFormed
<1> HIDE DEF w
<1>6. ASSUME NEW i \in DOMAIN w
      PROVE  \E j \in DOMAIN saved.votes : w[i] = saved.votes[j]
  <2>1. i \in 1..Len(w) /\ k + i \in DOMAIN saved.votes
    BY <1>1, <1>3, <1>5
  <2> QED
    BY <1>5, <2>1
<1> QED
  BY <1>4, <1>6

(* A slot that the history of r neither has nor is too short for is not r  *)
(* or an ancestor of it.                                                   *)
LEMMA CheckNotFound ==
  ASSUME NEW r \in Nat, NEW s \in Nat, \A a \in ancestors[r] : a < r,
         Check(r, {}, s) # "Found", Check(r, {}, s) # "TooOld"
  PROVE  s # r /\ s \notin ancestors[r]
<1> DEFINE newest == CHOOSE n \in {} \cup {r} : \A x \in {} \cup {r} : x <= n
<1>1. newest = r
  <2>1. \A x \in {} \cup {r} : x <= r
    OBVIOUS
  <2> QED
    BY <2>1
<1>2. Check(r, {}, s) = IF s > newest THEN "Future"
                        ELSE IF s < newest + 1 - HISTORY THEN "TooOld"
                        ELSE IF IsAncestorOrSelf(s, r) \/ s \in {} THEN "Found"
                        ELSE "NotFound"
  BY DEF Check
<1> HIDE DEF newest
<1>3. CASE s > r
  BY <1>3
<1>4. CASE ~(s > r)
  BY <1>1, <1>2, <1>4 DEF IsAncestorOrSelf
<1> QED
  BY <1>3, <1>4

(* No vote that the adjusted tower keeps is the replayed root or one of    *)
(* its ancestors: it is newer than the newest slot found, and were it too  *)
(* old for the history, so would be that one.                              *)
LEMMA AdjustedApart ==
  ASSUME IInv, ChainsOf(Blocks, ancestors), NEW r \in Blocks,
         saved.root # NoSlot, saved.root <= r, ~AdjustFails(saved, r),
         NEW i \in DOMAIN AdjustLockoutsAfterReplay(saved, r).votes
  PROVE  LET v == AdjustLockoutsAfterReplay(saved, r).votes[i].slot
         IN  v # r /\ v \notin ancestors[r]
<1> DEFINE T == {j \in DOMAIN saved.votes : CheckTower(saved, r, j) = "Found"}
           k == LastIndex(T)
           w == SubSeq(saved.votes, k + 1, Len(saved.votes))
<1>1. /\ Blocks \in SUBSET Slot /\ ChainsOf(Blocks, ancestors)
      /\ TowerOver(saved, Blocks) /\ r \in Nat
      /\ saved.votes \in Seq(Lockout) /\ WellFormedVotes(saved.votes)
  BY DEF IInv, TypeOK, TowerOver, VoteState, Slot
<1>2. /\ T \in SUBSET (1..Len(saved.votes)) /\ Len(saved.votes) \in Nat
      /\ DOMAIN saved.votes = 1..Len(saved.votes)
  BY <1>1
<1>3. k \in 0..Len(saved.votes) /\ \A j \in T : j <= k
  BY <1>2, LastIndexGreatest
<1>4. AdjustLockoutsAfterReplay(saved, r).votes = w
  BY Zenon DEF AdjustLockoutsAfterReplay
<1> HIDE DEF k
<1>5. /\ w \in Seq(Lockout) /\ Len(w) = Len(saved.votes) - k
      /\ \A j \in 1..Len(w) : w[j] = saved.votes[k + j]
  BY <1>1, <1>3, SuffixWellFormed, Zenon
<1> HIDE DEF w
<1>6. PICK n \in DOMAIN saved.votes : n > k /\ w[i] = saved.votes[n] /\ n \in Nat
  <2>1. i \in 1..Len(w)
    BY <1>4, <1>5
  <2>2. w[i] = saved.votes[k + i] /\ k + i \in DOMAIN saved.votes
        /\ k + i > k /\ k + i \in Nat
    <3>1. w[i] = saved.votes[k + i]
      BY <1>5, <2>1, Zenon
    <3>2. /\ k \in Nat /\ i \in Nat /\ i > 0 /\ Len(saved.votes) \in Nat
          /\ i <= Len(saved.votes) - k
      BY <1>2, <1>3, <1>5, <2>1
    <3>3. DOMAIN saved.votes = 1..Len(saved.votes)
      BY <1>2
    <3> QED
      BY <3>1, <3>2, <3>3
  <2> QED
    BY <2>2
<1>7. \A j \in 0..Len(saved.votes) :
        CheckTower(saved, r, j) = Check(r, {}, SlotInTower(saved, j))
  BY DEF CheckTower, Warped
<1>8. CheckTower(saved, r, n) # "Found"
  BY <1>2, <1>3, <1>6
<1>9. PICK j \in 0..Len(saved.votes) : CheckTower(saved, r, j) = "Found"
  BY DEF AdjustFails
<1>10. j < n
  BY <1>2, <1>3, <1>6, <1>9
<1>11. CheckTower(saved, r, n) # "TooOld"
  <2>1. n \in 0..Len(saved.votes)
    BY <1>2, <1>6
  <2> QED
    BY <1>9, <1>10, <2>1 DEF AdjustFails
<1>12. n \in 0..Len(saved.votes) /\ SlotInTower(saved, n) = saved.votes[n].slot
       /\ saved.votes[n].slot \in Nat
  <2>1. saved.votes[n].slot \in Nat
    BY <1>1, TowerSlots, Zenon
  <2>2. n \in 0..Len(saved.votes) /\ n # 0
    BY <1>2
  <2> QED
    BY <2>1, <2>2 DEF SlotInTower
<1>13. \A a \in ancestors[r] : a < r
  BY <1>1 DEF ChainsOf
<1> QED
  BY <1>1, <1>4, <1>6, <1>7, <1>8, <1>11, <1>12, <1>13, CheckNotFound

-----------------------------------------------------------------------------
(* The invariant holds at genesis. *)
LEMMA InitIInv == Init => IInv
<1> SUFFICES ASSUME Init PROVE IInv
  OBVIOUS
<1>1. Blocks = {0}
  BY DEF Init, Blocks
<1>2. TowerOver(EmptyVoteState, {0})
  BY EmptyTowerOver
<1>3. TowerOver([votes |-> <<>>, root |-> 0], {0})
  BY <1>2 DEF TowerOver, EmptyVoteState, VoteState, VotedSlots, Slot
<1>4. TypeOK
  <2>1. EmptyVoteState \in VoteState /\ [votes |-> <<>>, root |-> 0] \in VoteState
    BY <1>2, <1>3 DEF TowerOver
  <2>2. 0 # NoSlot /\ 0 \in Slot /\ 0 \in 0..MaxCrashes /\ <<>> \in Seq(VoteOp)
    BY TowerAssumption DEF Slot, NoSlot
  <2> QED
    BY <1>1, <2>1, <2>2 DEF Init, TypeOK
<1> QED
  BY <1>1, <1>2, <1>3, <1>4 DEF Init, IInv

(* One lemma per action: the invariant is preserved. *)
LEMMA ReplayBankIInv ==
  ASSUME IInv, NEW s, NEW p, NEW t \in sent \cup {EmptyVoteState},
         ReplayBank(s, p, t)
  PROVE  IInv'
<1> DEFINE anc == ancestors[p] \cup {p}
           new == ProcessTowerSync(onChain[p], t, anc)
<1>1. s \in Slot /\ p \in Blocks /\ s \notin Blocks /\ Blocks \in SUBSET Slot
  BY TowerAssumption DEF ReplayBank, IInv, TypeOK, Slot
<1>2. Blocks' = Blocks \cup {s} /\ Blocks \subseteq Blocks' /\ Blocks' \in SUBSET Slot
  BY <1>1 DEF ReplayBank, Blocks
<1>3. anc \in SUBSET Blocks /\ 0 \in anc
  BY <1>1 DEF IInv, TypeOK
<1>4. TowerOver(t, Blocks) /\ TowerOver(onChain[p], Blocks)
  BY <1>1, EmptyTowerOver DEF IInv
<1>5. TowerOver(new, Blocks)
  <2>1. anc \in SUBSET Nat
    BY <1>1, <1>3, Zenon DEF Slot
  <2> HIDE DEF anc
  <2> QED
    BY <1>1, <1>3, <1>4, <2>1, ProcessTowerSyncTowerOver
<1>6. /\ ancestors' = [x \in Blocks \cup {s} |-> IF x = s THEN anc ELSE ancestors[x]]
      /\ onChain' = [x \in Blocks \cup {s} |-> IF x = s THEN new ELSE onChain[x]]
      /\ banks' = banks \cup {s}
      /\ UNCHANGED <<bankRoot, computed, tower, lastVote, voteQueue, stored,
                     sent, saved, bsRoot, up, crashes,
                     fileLost>>
  BY DEF ReplayBank, disk
<1> HIDE DEF anc, new
<1>7. new \in VoteState
  BY <1>5 DEF TowerOver
<1>8. TypeOK'
  <2>1. ancestors' \in [Blocks' -> SUBSET Blocks']
    BY <1>2, <1>3, <1>6 DEF IInv, TypeOK
  <2>2. onChain' \in [Blocks' -> VoteState]
    BY <1>2, <1>6, <1>7 DEF IInv, TypeOK
  <2> QED
    BY <1>1, <1>2, <1>6, <2>1, <2>2 DEF IInv, TypeOK
<1>9. 0 \in Blocks' /\ \A b \in Blocks' : b = 0 \/ 0 \in ancestors'[b]
  BY <1>2, <1>3, <1>6 DEF IInv
<1>10. \A x : TowerOver(x, Blocks) => TowerOver(x, Blocks')
  BY <1>2, TowerOverMonotone
<1>11. \A b \in Blocks' : TowerOver(onChain'[b], Blocks')
  BY <1>2, <1>5, <1>6, <1>10 DEF IInv
<1> QED
  BY <1>6, <1>8, <1>9, <1>10, <1>11, Zenon DEF IInv

(* compute_bank_stats preserves the invariant, whether or not it adopts    *)
(* the on-chain tower.                                                     *)
LEMMA ComputeBankStatsIInv ==
  ASSUME IInv, NEW b \in banks, ComputeBankStats(b)
  PROVE  IInv'
<1>1. TowerOver(AdoptedTower(b), Blocks) /\ AdoptedTower(b).root # NoSlot
  BY AdoptedTowerOver
<1>2. Blocks' = Blocks
  BY DEF ComputeBankStats, chain, Blocks
<1>3. /\ tower' = tower \/ tower' = AdoptedTower(b)
      /\ lastVote' = lastVote \/ lastVote' = AdoptedTower(b)
      /\ computed' \subseteq banks
      /\ UNCHANGED <<ancestors, onChain, banks, bankRoot, voteQueue, stored,
                     sent, saved, bsRoot, up, crashes,
                     fileLost>>
  BY DEF ComputeBankStats, chain, disk, IInv, TypeOK
<1>4. TypeOK'
  BY <1>1, <1>2, <1>3 DEF IInv, TypeOK, TowerOver
<1> QED
  BY <1>1, <1>2, <1>3, <1>4 DEF IInv

(* handle_votable_bank preserves the invariant, whether or not it sets a   *)
(* root or generates a transaction.                                        *)
LEMMA HandleVotableBankIInv ==
  ASSUME IInv, NEW s \in banks, NEW tx \in BOOLEAN, HandleVotableBank(s, tx)
  PROVE  IInv'
<1> DEFINE t == ProcessNextVoteSlot(tower, s)
           op == [op |-> "PushVote", vote |-> t]
<1>1. Blocks \in SUBSET Slot /\ s \in Blocks
  BY DEF IInv, TypeOK
<1>2. TowerOver(t, Blocks) /\ t.root # NoSlot
  BY <1>1, ProcessNextVoteSlotTowerOver DEF IInv, TypeOK
<1>3. t.root # tower.root => t.root \in banks
  BY DEF HandleVotableBank, VotingPanics
<1>4. /\ tower' = t /\ lastVote' = t
      /\ IF t.root = tower.root
         THEN UNCHANGED <<bsRoot, bankRoot, banks, computed>>
         ELSE /\ bsRoot' = t.root /\ bankRoot' = t.root
              /\ banks' = {b \in banks : IsAncestorOrSelf(t.root, b)}
              /\ computed' = computed \cap banks'
      /\ voteQueue' = (IF tx THEN Append(voteQueue, op) ELSE voteQueue)
      /\ UNCHANGED <<ancestors, onChain, stored, saved, sent, up, crashes,
                     fileLost>>
      /\ Blocks' = Blocks
  BY DEF HandleVotableBank, chain, Blocks
<1> HIDE DEF t
<1>5. /\ computed' \subseteq banks' /\ banks' \subseteq Blocks
      /\ bankRoot' \in banks' /\ bsRoot' \in Blocks
  <2>1. CASE t.root = tower.root
    BY <1>4, <2>1 DEF IInv, TypeOK
  <2>2. CASE t.root # tower.root
    BY <1>3, <1>4, <2>2 DEF IInv, TypeOK, IsAncestorOrSelf
  <2> QED
    BY <2>1, <2>2
<1>6. voteQueue \in Seq(VoteOp) /\ op \in VoteOp
  BY <1>2 DEF IInv, TypeOK, VoteOp, TowerOver
<1>7. voteQueue' \in Seq(VoteOp)
  BY <1>4, <1>6, QueueType, Zenon
<1>8. \A i \in DOMAIN voteQueue' : TowerOver(voteQueue'[i].vote, Blocks)
  <2>1. CASE tx
    <3>1. voteQueue' = Append(voteQueue, op) /\ op.vote = t
      BY <1>4, <2>1
    <3> HIDE DEF op
    <3>2. \A i \in DOMAIN voteQueue' :
            \/ voteQueue'[i] = op
            \/ i \in DOMAIN voteQueue /\ voteQueue'[i] = voteQueue[i]
      BY <1>6, <3>1
    <3> QED
      BY <1>2, <3>1, <3>2 DEF IInv
  <2>2. CASE ~tx
    BY <1>4, <2>2 DEF IInv
  <2> QED
    BY <2>1, <2>2
<1>9. TypeOK'
  BY <1>2, <1>4, <1>5, <1>7 DEF IInv, TypeOK, TowerOver
<1> QED
  BY <1>2, <1>4, <1>8, <1>9 DEF IInv

(* maybe_refresh_last_vote preserves the invariant: it queues the last     *)
(* vote again.                                                             *)
LEMMA RefreshLastVoteIInv ==
  ASSUME IInv, NEW b \in banks, RefreshLastVote(b)
  PROVE  IInv'
<1> DEFINE op == [op |-> "RefreshVote", vote |-> lastVote]
<1>1. /\ voteQueue' = Append(voteQueue, op) /\ Blocks' = Blocks
      /\ UNCHANGED <<ancestors, onChain, banks, bankRoot, computed, tower,
                     lastVote, stored, sent, saved, bsRoot, up, crashes,
                     fileLost>>
  BY Zenon DEF RefreshLastVote, chain, disk, Blocks
<1>2. voteQueue \in Seq(VoteOp) /\ op \in VoteOp /\ op.vote = lastVote
  BY DEF IInv, TypeOK, VoteOp
<1> HIDE DEF op
<1>3. voteQueue' \in Seq(VoteOp)
  BY <1>1, <1>2, QueueType, Zenon
<1>4. \A i \in DOMAIN voteQueue' :
        \/ voteQueue'[i] = op
        \/ i \in DOMAIN voteQueue /\ voteQueue'[i] = voteQueue[i]
  BY <1>1, <1>2
<1>5. \A i \in DOMAIN voteQueue' : TowerOver(voteQueue'[i].vote, Blocks)
  BY <1>2, <1>4 DEF IInv
<1>6. TypeOK'
  BY <1>1, <1>3 DEF IInv, TypeOK
<1> QED
  BY <1>1, <1>5, <1>6, Zenon DEF IInv

(* Storing the tower of a queued vote preserves the invariant.             *)
LEMMA StoreTowerIInv == ASSUME IInv, StoreTower PROVE IInv'
<1>1. /\ voteQueue # <<>> /\ saved' = Head(voteQueue).vote /\ stored' = TRUE
      /\ Blocks' = Blocks
      /\ UNCHANGED <<ancestors, onChain, banks, bankRoot, computed, tower,
                     lastVote, voteQueue, sent, bsRoot, up, crashes,
                     fileLost>>
  BY DEF StoreTower, chain, Blocks
<1>2. 1 \in DOMAIN voteQueue /\ Head(voteQueue) = voteQueue[1]
  BY <1>1 DEF IInv, TypeOK
<1>3. TowerOver(saved', Blocks)
  BY <1>1, <1>2 DEF IInv
<1>4. TypeOK'
  BY <1>1, <1>3 DEF IInv, TypeOK, TowerOver
<1> QED
  BY <1>1, <1>3, <1>4 DEF IInv

(* Sending a queued vote preserves the invariant.                          *)
LEMMA SendVoteIInv == ASSUME IInv, SendVote PROVE IInv'
<1>1. /\ voteQueue # <<>> /\ sent' = sent \cup {Head(voteQueue).vote}
      /\ voteQueue' = Tail(voteQueue) /\ stored' = FALSE /\ Blocks' = Blocks
      /\ UNCHANGED <<ancestors, onChain, banks, bankRoot, computed, tower,
                     lastVote, saved, bsRoot, up, crashes,
                     fileLost>>
  BY DEF SendVote, chain, disk, Blocks
<1>2. voteQueue \in Seq(VoteOp) /\ voteQueue' \in Seq(VoteOp)
  <2>1. voteQueue \in Seq(VoteOp)
    BY Zenon DEF IInv, TypeOK
  <2> QED
    BY <1>1, <2>1, QueueType, Zenon
<1>3. 1 \in DOMAIN voteQueue /\ Head(voteQueue) = voteQueue[1]
      /\ \A i \in DOMAIN voteQueue' : i + 1 \in DOMAIN voteQueue
                                       /\ voteQueue'[i] = voteQueue[i + 1]
  BY <1>1, <1>2
<1>4. TowerOver(Head(voteQueue).vote, Blocks)
  BY <1>3 DEF IInv
<1>5. \A i \in DOMAIN voteQueue' : TowerOver(voteQueue'[i].vote, Blocks)
  BY <1>3 DEF IInv
<1>6. TypeOK'
  BY <1>1, <1>2, <1>4, Zenon DEF IInv, TypeOK, TowerOver
<1> QED
  BY <1>1, <1>4, <1>5, <1>6, Zenon DEF IInv

(* A crash preserves the invariant: what is left on disk is well formed.   *)
LEMMA CrashIInv == ASSUME IInv, Crash PROVE IInv'
<1>1. /\ up' = FALSE /\ crashes < MaxCrashes /\ crashes' = crashes + 1
      /\ voteQueue' = <<>> /\ stored' = FALSE /\ Blocks' = Blocks
      /\ bsRoot' \in {bsRoot} \cup ancestors[bsRoot]
      /\ saved' \in {saved, EmptyVoteState}
      /\ fileLost' = (fileLost \/ saved' # saved)
      /\ UNCHANGED <<ancestors, onChain, banks, bankRoot, computed, tower,
                     lastVote, sent>>
  BY DEF Crash, chain, Blocks
<1>2. TowerOver(saved', Blocks)
  BY <1>1, EmptyTowerOver DEF IInv
<1>3. voteQueue' \in Seq(VoteOp) /\ DOMAIN voteQueue' = {}
  BY <1>1
<1>4. bsRoot' \in Blocks /\ crashes' \in 0..MaxCrashes /\ fileLost' \in BOOLEAN
  BY <1>1, TowerAssumption DEF IInv, TypeOK
<1>5. TypeOK'
  BY <1>1, <1>2, <1>3, <1>4, Zenon DEF IInv, TypeOK, TowerOver
<1> QED
  BY <1>1, <1>2, <1>3, <1>5 DEF IInv

(* A restart preserves the invariant, from the tower file or from a vote   *)
(* account.                                                                *)
LEMMA RestartIInv ==
  ASSUME IInv, NEW r \in Blocks, NEW h \in Blocks, Restart(r, h)
  PROVE  IInv'
<1> DEFINE restored == saved.root # NoSlot /\ ~AdjustFails(saved, r)
           adjusted == AdjustLockoutsAfterReplay(saved, r)
           rebuilt == InitializeLockoutsFromBank(onChain[h], r)
<1>1. /\ up' = TRUE /\ computed' = {} /\ bankRoot' = r
      /\ banks' = {b \in Blocks : IsAncestorOrSelf(r, b)}
      /\ bsRoot' = ReconcileBlockstoreRoots(r)
      /\ tower' = IF restored THEN adjusted ELSE rebuilt
      /\ lastVote' \in {saved, EmptyVoteState}
      /\ Blocks' = Blocks
      /\ UNCHANGED <<ancestors, onChain, voteQueue, stored, saved, sent, crashes,
                     fileLost>>
  BY DEF Restart, chain, Blocks
<1>2. Blocks \in SUBSET Slot /\ r \in Slot /\ r # NoSlot
  BY DEF IInv, TypeOK, Slot, NoSlot
<1>3. TowerOver(tower', Blocks) /\ tower'.root # NoSlot
  <2>1. CASE restored
    BY <1>1, <2>1, RestoredTowerOver
  <2>2. CASE ~restored
    <3>1. TowerOver(onChain[h], Blocks)
      BY DEF IInv
    <3>2. TowerOver([votes |-> RetainAbove(onChain[h].votes, r), root |-> r], Blocks)
      BY <1>2, <3>1, RetainAboveTowerOver
    <3> QED
      BY <1>1, <1>2, <2>2, <3>2 DEF InitializeLockoutsFromBank
  <2> QED
    BY <2>1, <2>2
<1>4. TowerOver(lastVote', Blocks)
  BY <1>1, EmptyTowerOver DEF IInv
<1>5. bsRoot' \in Blocks
  <2>1. saved.root \in Blocks \cup {NoSlot}
    BY DEF IInv, TowerOver
  <2>2. saved.root > r => saved.root # NoSlot
    BY <1>2 DEF Slot, NoSlot
  <2> QED
    BY <1>1, <2>1, <2>2 DEF ReconcileBlockstoreRoots
<1>6. bankRoot' \in banks' /\ banks' \subseteq Blocks /\ computed' \subseteq banks'
  BY <1>1 DEF IsAncestorOrSelf
<1>7. TypeOK'
  BY <1>1, <1>3, <1>4, <1>5, <1>6 DEF IInv, TypeOK, TowerOver
<1> QED
  BY <1>1, <1>3, <1>4, <1>7 DEF IInv

-----------------------------------------------------------------------------
(* Every step of the validator and of its environment preserves IInv. *)
LEMMA NextIInv == IInv /\ [Next]_vars => IInv'
<1> SUFFICES ASSUME IInv, [Next]_vars PROVE IInv'
  OBVIOUS
<1>1. ASSUME NEW e \in BlockTree, NEW t \in sent \cup {EmptyVoteState},
             ReplayBank(e[1], e[2], t)
      PROVE  IInv'
  BY <1>1, ReplayBankIInv
<1>2. ASSUME NEW b \in banks, ComputeBankStats(b) PROVE IInv'
  BY <1>2, ComputeBankStatsIInv
<1>3. ASSUME NEW s \in banks, NEW tx \in {TRUE, ~VoteTxMayFail},
             HandleVotableBank(s, tx)
      PROVE  IInv'
  BY <1>3, HandleVotableBankIInv, TowerAssumption, Zenon
<1>4. ASSUME NEW b \in banks, RefreshLastVote(b) PROVE IInv'
  BY <1>4, RefreshLastVoteIInv
<1>5. CASE StoreTower
  BY <1>5, StoreTowerIInv
<1>6. CASE SendVote
  BY <1>6, SendVoteIInv
<1>7. CASE Crash
  BY <1>7, CrashIInv
<1>8. ASSUME NEW r \in Blocks, NEW h \in Blocks, Restart(r, h) PROVE IInv'
  BY <1>8, RestartIInv
<1>9. CASE UNCHANGED vars
  BY <1>9 DEF IInv, TypeOK, Blocks, vars
<1> QED
  BY <1>1, <1>2, <1>3, <1>4, <1>5, <1>6, <1>7, <1>8, <1>9, Zenon DEF Next

(* IInv is an invariant of the validator. *)
THEOREM Invariance == Spec => []IInv
  BY InitIInv, NextIInv, PTL DEF Spec

(* The state of the validator keeps its type: no operation on a tower      *)
(* leaves a vote with no or too many confirmations, or no root.            *)
THEOREM TypeCorrect == Spec => []TypeOK
<1>1. IInv => TypeOK
  BY DEF IInv
<1> QED
  BY <1>1, Invariance, PTL

(* Every tower in memory, in the queue to the voting service, on disk, on  *)
(* the wire and in the vote account of a bank is well formed, whatever     *)
(* crashes, lost tower files and rebuilt towers came before.               *)
THEOREM TowersStayWellFormed == Spec => []TowersWellFormed
<1>1. IInv => TowersWellFormed
  BY DEF IInv, TowersWellFormed, TowerOver
<1> QED
  BY <1>1, Invariance, PTL
-----------------------------------------------------------------------------
(* The invariant behind SentOnOneFork: every tower that may be sent,       *)
(* stored or adopted lies on one fork, which the tower in memory need not  *)
(* do; nothing without a vote is queued or stored; and the blockstore's    *)
(* root is genesis or has been built on.                                   *)
FInv ==
  /\ ChainsOf(Blocks, ancestors)
  /\ OnOneFork(lastVote, ancestors) /\ OnOneFork(saved, ancestors)
  /\ \A t \in sent : OnOneFork(t, ancestors)
  /\ \A i \in DOMAIN voteQueue :
       voteQueue[i].vote.votes # <<>> /\ OnOneFork(voteQueue[i].vote, ancestors)
  /\ \A b \in Blocks : OnOneFork(onChain[b], ancestors)
  /\ saved.root = NoSlot \/ saved.votes # <<>>
  /\ bsRoot = 0 \/ HasChild(bsRoot, Blocks, ancestors)
  /\ RootApart(tower, banks, ancestors)

-----------------------------------------------------------------------------
(* At genesis there are no votes. *)
LEMMA InitFInv == Init => FInv
<1> SUFFICES ASSUME Init PROVE FInv
  OBVIOUS
<1>1. Blocks = {0} /\ ancestors[0] = {}
  BY DEF Init, Blocks
<1>2. ChainsOf(Blocks, ancestors)
  BY <1>1 DEF ChainsOf
<1>3. tower.votes = <<>> /\ DOMAIN tower.votes = {}
  BY DEF Init
<1>4. RootApart(tower, banks, ancestors)
  BY <1>3 DEF RootApart, VotesAboveRoot
<1> QED
  BY <1>1, <1>2, <1>4, EmptyOnOneFork DEF Init, FInv, EmptyVoteState

(* What the lemmas below use of the tree of blocks. *)
LEMMA TreeFacts ==
  ASSUME IInv, FInv
  PROVE  /\ Blocks \in SUBSET Slot /\ ancestors \in [Blocks -> SUBSET Blocks]
         /\ banks \subseteq Blocks /\ ChainsOf(Blocks, ancestors)
BY DEF IInv, TypeOK, FInv

(* A new block extends a chain; a vote state that lands is the one that    *)
(* was sent.                                                               *)
LEMMA ReplayBankFInv ==
  ASSUME IInv, FInv, NEW s, NEW p, NEW t \in sent \cup {EmptyVoteState},
         ReplayBank(s, p, t)
  PROVE  FInv'
<1> DEFINE anc == ancestors[p] \cup {p}
           new == ProcessTowerSync(onChain[p], t, anc)
<1>1. /\ s \in Nat /\ p \in Nat /\ p < s /\ p \in Blocks /\ s \notin Blocks
      /\ Blocks \in SUBSET Slot /\ ancestors \in [Blocks -> SUBSET Blocks]
      /\ ChainsOf(Blocks, ancestors)
  BY TowerAssumption, TreeFacts DEF ReplayBank
<1>2. /\ Blocks' = Blocks \cup {s} /\ ancestors'[s] = anc
      /\ \A b \in Blocks : ancestors'[b] = ancestors[b]
      /\ onChain' = [x \in Blocks \cup {s} |-> IF x = s THEN new ELSE onChain[x]]
      /\ banks' = banks \cup {s}
      /\ UNCHANGED <<tower, lastVote, voteQueue, sent, saved, bsRoot>>
  BY <1>1 DEF ReplayBank, disk, Blocks
<1>3. \A x : TowerOver(x, Blocks) /\ OnOneFork(x, ancestors)
               => OnOneFork(x, ancestors')
  BY <1>2, OnOneForkAgree
<1>4. anc \in SUBSET Blocks /\ 0 \in anc /\ anc \in SUBSET Nat
  BY <1>1, Zenon DEF IInv, Slot
<1>5. OnOneFork(new, ancestors) /\ TowerOver(new, Blocks)
  <2>1. TowerOver(t, Blocks) /\ TowerOver(onChain[p], Blocks)
    BY <1>1, EmptyTowerOver DEF IInv
  <2>2. OnOneFork(t, ancestors) /\ OnOneFork(onChain[p], ancestors)
    BY <1>1, EmptyOnOneFork DEF FInv
  <2> HIDE DEF anc
  <2>3. TowerOver(new, Blocks)
    BY <1>1, <1>4, <2>1, ProcessTowerSyncTowerOver
  <2>4. CASE new # onChain[p]
    <3>1. CheckProposed(onChain[p], t, anc) = OkResult
      BY <2>4 DEF ProcessTowerSync
    <3>2. t.votes # <<>>
      BY <3>1 DEF CheckProposed, OkResult
    <3>3. Earliest(anc) = 0
      BY <1>4, EarliestZero
    <3>4. t.root \in Nat
      BY <1>1, <2>1, <2>2, <3>2, TowerSlots, Zenon DEF OnOneFork
    <3>5. FilteredVotes(onChain[p], t, anc) = t.votes
      <4>1. \A i \in DOMAIN t.votes : t.votes[i].slot \in Nat
        BY <1>1, <2>1, TowerSlots, Zenon
      <4> QED
        BY <3>3, <4>1 DEF FilteredVotes
    <3>6. FilteredRoot(onChain[p], t, anc) = t.root
      BY <3>3, <3>4 DEF FilteredRoot
    <3>7. new = [votes |-> t.votes, root |-> t.root]
      BY <2>4, <3>1, <3>5, <3>6 DEF ProcessTowerSync
    <3> HIDE DEF new
    <3>8. new = t
      BY <2>1, <3>7 DEF TowerOver, VoteState
    <3> QED
      BY <2>2, <2>3, <3>8, Zenon
  <2> QED
    BY <2>2, <2>3, <2>4
<1> HIDE DEF new
<1>6. ChainsOf(Blocks', ancestors')
  <2>1. ASSUME NEW b \in Blocks, NEW a \in ancestors[b]
        PROVE  /\ a < b /\ ancestors'[a] \subseteq ancestors'[b]
               /\ \A c \in ancestors'[b] : a < c => a \in ancestors'[c]
    <3>1. a \in Blocks /\ \A c \in ancestors[b] : c \in Blocks
      BY <1>1
    <3>2. /\ a < b /\ ancestors[a] \subseteq ancestors[b]
          /\ \A c \in ancestors[b] : a < c => a \in ancestors[c]
      BY <1>1 DEF ChainsOf
    <3> QED
      BY <1>2, <3>1, <3>2, Zenon
  <2>2. ASSUME NEW a \in anc
        PROVE  /\ a < s /\ ancestors'[a] \subseteq anc
               /\ \A c \in anc : a < c => a \in ancestors'[c]
    <3>1. a \in Nat /\ a \in Blocks /\ a <= p
      BY <1>1, <1>4 DEF ChainsOf
    <3>2. ancestors[a] \subseteq anc
      BY <1>1 DEF ChainsOf
    <3>3. ASSUME NEW c \in anc, a < c PROVE a \in ancestors[c]
      <4>1. c \in Nat /\ c <= p
        BY <1>1, <1>4 DEF ChainsOf
      <4>2. a \in ancestors[p]
        BY <1>1, <3>1, <3>3, <4>1
      <4> QED
        BY <1>1, <3>3, <4>2 DEF ChainsOf
    <3>4. a < s
      BY <1>1, <3>1
    <3> QED
      BY <1>2, <1>4, <3>1, <3>2, <3>3, <3>4, Zenon
  <2> HIDE DEF anc
  <2> SUFFICES ASSUME NEW b \in Blocks', NEW a \in ancestors'[b]
               PROVE  /\ a < b /\ ancestors'[a] \subseteq ancestors'[b]
                      /\ \A c \in ancestors'[b] : a < c => a \in ancestors'[c]
    BY Zenon DEF ChainsOf
  <2>3. CASE b \in Blocks
    <3>1. a \in ancestors[b]
      BY <1>2, <2>3, Zenon
    <3> QED
      BY <2>1, <2>3, <3>1, Zenon
  <2>4. CASE b = s
    <3>1. ancestors'[b] = anc /\ a \in anc
      BY <1>2, <2>4, Zenon
    <3> QED
      BY <2>2, <2>4, <3>1, Zenon
  <2> QED
    BY <1>2, <2>3, <2>4, Zenon
<1>7. \A b \in Blocks' : OnOneFork(onChain'[b], ancestors')
  BY <1>2, <1>3, <1>5, Zenon DEF IInv, FInv
<1>8. RootApart(tower, banks', ancestors')
  <2>1. tower.root \in Blocks /\ banks \subseteq Blocks
    BY Zenon DEF IInv, TypeOK, TowerOver
  <2>2. RootApart(tower, banks, ancestors)
    BY Zenon DEF FInv
  <2> QED
    BY <1>2, <2>1, <2>2, Zenon DEF RootApart, HasChild
<1>9. bsRoot' = 0 \/ HasChild(bsRoot', Blocks', ancestors')
  BY <1>2, Zenon DEF FInv, HasChild
<1> HIDE DEF anc
<1> QED
  BY <1>2, <1>3, <1>6, <1>7, <1>8, <1>9, Zenon DEF IInv, FInv

(* The tower that is adopted is on one fork: its first vote descends from  *)
(* the local root, or adopt_on_chain_tower_if_behind panics.               *)
LEMMA ComputeBankStatsFInv ==
  ASSUME IInv, FInv, NEW b \in banks, ComputeBankStats(b)
  PROVE  FInv'
<1>1. /\ Blocks \in SUBSET Slot /\ ancestors \in [Blocks -> SUBSET Blocks]
      /\ b \in Blocks /\ ChainsOf(Blocks, ancestors)
  BY TreeFacts
<1>2. /\ Blocks' = Blocks
      /\ tower' = (IF Behind(b) THEN AdoptedTower(b) ELSE tower)
      /\ lastVote' = (IF Behind(b) THEN AdoptedTower(b) ELSE lastVote)
      /\ UNCHANGED <<ancestors, onChain, banks, voteQueue, sent, saved, bsRoot>>
      /\ ~AdoptionPanics(b)
  BY DEF ComputeBankStats, chain, disk, Blocks
<1>3. /\ TowerOver(onChain[b], Blocks) /\ OnOneFork(onChain[b], ancestors)
      /\ tower.root \in Blocks
  BY <1>1, Zenon DEF IInv, FInv, TypeOK, TowerOver
<1>4. ASSUME Behind(b) PROVE OnOneFork(AdoptedTower(b), ancestors)
  <2>1. CASE tower.root > onChain[b].root
    <3> DEFINE w == RetainAbove(onChain[b].votes, tower.root)
    <3>1. AdoptedTower(b) = [votes |-> w, root |-> tower.root]
      BY <2>1 DEF AdoptedTower
    <3>2. w # <<>> => tower.root \in ancestors[w[1].slot]
      BY <1>2, <1>4, <2>1, <3>1 DEF AdoptionPanics
    <3> QED
      BY <1>1, <1>3, <3>1, <3>2, AboveOnOneFork, Zenon
  <2>2. CASE ~(tower.root > onChain[b].root)
    BY <1>3, <2>2 DEF AdoptedTower
  <2> QED
    BY <2>1, <2>2
<1>5. ASSUME Behind(b) PROVE RootApart(AdoptedTower(b), banks, ancestors)
  <2>1. TowerOver(AdoptedTower(b), Blocks) /\ AdoptedTower(b).root # NoSlot
    BY AdoptedTowerOver
  <2>2. VotesAboveRoot(AdoptedTower(b))
    BY <1>1, <1>4, <1>5, <2>1, OnOneForkAbove
  <2> QED
    BY <1>1, <2>1, <2>2, AboveIsApart
<1> QED
  BY <1>2, <1>4, <1>5, Zenon DEF FInv

(* handle_votable_bank leaves a tower on one fork.                         *)
LEMMA HandleVotableBankFInv ==
  ASSUME IInv, FInv, NEW s \in banks, NEW tx \in BOOLEAN,
         HandleVotableBank(s, tx)
  PROVE  FInv'
<1> DEFINE t == ProcessNextVoteSlot(tower, s)
           op == [op |-> "PushVote", vote |-> t]
<1>1. /\ Blocks \in SUBSET Slot /\ ancestors \in [Blocks -> SUBSET Blocks]
      /\ s \in Blocks /\ ChainsOf(Blocks, ancestors)
      /\ TowerOver(tower, Blocks) /\ tower.root # NoSlot
      /\ RootApart(tower, banks, ancestors)
  BY TreeFacts, Zenon DEF IInv, TypeOK, FInv
<1>2. /\ \A b \in banks : s \notin ancestors[b]
      /\ IsRecent(tower, s)
      /\ \A v \in VotedSlots(t) : v = s \/ v \in ancestors[s]
      /\ s # t.root => t.root \in ancestors[s]
  BY Zenon DEF HandleVotableBank, Votable, VotingPanics, IsLockedOut, RootIsAncestor
<1>3. t = PushVote(tower, s) /\ s > LastVotedSlot(tower)
  <2>1. s \in Nat /\ LastVotedSlot(tower) \in Int /\ s > LastVotedSlot(tower)
    <3>1. s \in Nat /\ tower \in VoteState /\ WellFormedVotes(tower.votes)
      BY <1>1 DEF TowerOver, Slot
    <3>2. LastVotedSlot(tower) \in Slot \cup {NoSlot}
      BY <3>1, LastVoteNewest
    <3>3. s > LastVotedSlot(tower)
      BY <1>2, <3>1 DEF IsRecent, LastVotedSlot, NoSlot
    <3> QED
      BY <3>1, <3>2, <3>3 DEF Slot, NoSlot
  <2> QED
    BY <2>1 DEF ProcessNextVoteSlot
<1>4. /\ tower' = t /\ lastVote' = t /\ Blocks' = Blocks
      /\ banks' \subseteq banks /\ (bsRoot' = bsRoot \/ bsRoot' = t.root)
      /\ voteQueue' = (IF tx THEN Append(voteQueue, op) ELSE voteQueue)
      /\ UNCHANGED <<ancestors, onChain, saved, sent>>
  BY DEF HandleVotableBank, chain, Blocks
<1>5. TowerOver(t, Blocks) /\ t.root # NoSlot
  BY <1>1, ProcessNextVoteSlotTowerOver
<1>6. t.votes # <<>>
  <2>1. tower \in VoteState /\ WellFormedVotes(tower.votes) /\ s \in Slot
    BY <1>1 DEF TowerOver
  <2>2. LastVotedSlot(t) = s
    BY <1>3, <2>1, PushVoteWellFormed
  <2> HIDE DEF t
  <2> QED
    BY <2>1, <2>2 DEF LastVotedSlot, NoSlot, Slot
<1> HIDE DEF t
<1>7. VotesAboveRoot(t) /\ t.root \in ancestors[s]
  <2>1. tower.votes = <<>> => s > tower.root
    BY <1>2 DEF IsRecent
  <2> QED
    BY <1>1, <1>2, <1>3, <2>1, PushedAboveRoot
<1>8. OnOneFork(t, ancestors)
  BY <1>1, <1>2, <1>5, <1>7, VotesOnOneFork
<1>9. RootApart(t, banks', ancestors)
  BY <1>1, <1>5, <1>7, AboveIsApart
<1>10. bsRoot' = 0 \/ HasChild(bsRoot', Blocks, ancestors)
  BY <1>1, <1>4, <1>7, Zenon DEF FInv, HasChild
<1>11. \A i \in DOMAIN voteQueue' :
         voteQueue'[i].vote.votes # <<>> /\ OnOneFork(voteQueue'[i].vote, ancestors)
  <2>1. CASE tx
    <3>1. voteQueue' = Append(voteQueue, op) /\ op.vote = t
      BY <1>4, <2>1
    <3>2. voteQueue \in Seq(VoteOp)
      BY DEF IInv, TypeOK
    <3> HIDE DEF op
    <3>3. \A i \in DOMAIN voteQueue' :
            \/ voteQueue'[i] = op
            \/ i \in DOMAIN voteQueue /\ voteQueue'[i] = voteQueue[i]
      BY <3>1, <3>2
    <3> QED
      BY <1>6, <1>8, <3>1, <3>3 DEF FInv
  <2>2. CASE ~tx
    BY <1>4, <2>2 DEF FInv
  <2> QED
    BY <2>1, <2>2
<1> QED
  BY <1>4, <1>8, <1>9, <1>10, <1>11, Zenon DEF FInv

(* A refresh queues the last vote, which is a vote. *)
LEMMA RefreshLastVoteFInv ==
  ASSUME IInv, FInv, NEW b \in banks, RefreshLastVote(b)
  PROVE  FInv'
<1> DEFINE op == [op |-> "RefreshVote", vote |-> lastVote]
<1>1. /\ voteQueue' = Append(voteQueue, op) /\ Blocks' = Blocks
      /\ LastVotedSlot(lastVote) \in banks
      /\ UNCHANGED <<ancestors, onChain, banks, tower, lastVote, sent, saved,
                     bsRoot>>
  BY Zenon DEF RefreshLastVote, chain, disk, Blocks
<1>2. voteQueue \in Seq(VoteOp) /\ op.vote = lastVote /\ banks \subseteq Nat
  BY DEF IInv, TypeOK, Slot
<1>3. lastVote.votes # <<>>
  BY <1>1, <1>2 DEF LastVotedSlot, NoSlot
<1> HIDE DEF op
<1>4. \A i \in DOMAIN voteQueue' :
        \/ voteQueue'[i] = op
        \/ i \in DOMAIN voteQueue /\ voteQueue'[i] = voteQueue[i]
  BY <1>1, <1>2
<1>5. \A i \in DOMAIN voteQueue' :
        voteQueue'[i].vote.votes # <<>> /\ OnOneFork(voteQueue'[i].vote, ancestors)
  BY <1>2, <1>3, <1>4 DEF FInv
<1> QED
  BY <1>1, <1>5, Zenon DEF FInv

(* What is stored or sent was queued. *)
LEMMA StoreTowerFInv == ASSUME IInv, FInv, StoreTower PROVE FInv'
<1>1. /\ voteQueue # <<>> /\ saved' = Head(voteQueue).vote /\ Blocks' = Blocks
      /\ UNCHANGED <<ancestors, onChain, banks, tower, lastVote, voteQueue, sent,
                     bsRoot>>
  BY DEF StoreTower, chain, Blocks
<1>2. 1 \in DOMAIN voteQueue /\ Head(voteQueue) = voteQueue[1]
  BY <1>1 DEF IInv, TypeOK
<1> QED
  BY <1>1, <1>2 DEF FInv

(* What is sent was queued. *)
LEMMA SendVoteFInv == ASSUME IInv, FInv, SendVote PROVE FInv'
<1>1. /\ voteQueue # <<>> /\ sent' = sent \cup {Head(voteQueue).vote}
      /\ voteQueue' = Tail(voteQueue) /\ Blocks' = Blocks
      /\ UNCHANGED <<ancestors, onChain, banks, tower, lastVote, saved, bsRoot>>
  BY DEF SendVote, chain, disk, Blocks
<1>2. voteQueue \in Seq(VoteOp)
  BY DEF IInv, TypeOK
<1>3. 1 \in DOMAIN voteQueue /\ Head(voteQueue) = voteQueue[1]
      /\ \A i \in DOMAIN voteQueue' : i + 1 \in DOMAIN voteQueue
                                       /\ voteQueue'[i] = voteQueue[i + 1]
  BY <1>1, <1>2
<1>4. \A x \in sent' : OnOneFork(x, ancestors)
  BY <1>1, <1>3 DEF FInv
<1>5. \A i \in DOMAIN voteQueue' :
        voteQueue'[i].vote.votes # <<>> /\ OnOneFork(voteQueue'[i].vote, ancestors)
  BY <1>3 DEF FInv
<1> QED
  BY <1>1, <1>4, <1>5 DEF FInv

(* An older root that a crash leaves in the blockstore has a child: it is  *)
(* an ancestor of the newer one.                                           *)
LEMMA CrashFInv == ASSUME IInv, FInv, Crash PROVE FInv'
<1>1. /\ voteQueue' = <<>> /\ Blocks' = Blocks
      /\ bsRoot' \in {bsRoot} \cup ancestors[bsRoot]
      /\ saved' \in {saved, EmptyVoteState}
      /\ UNCHANGED <<ancestors, onChain, banks, tower, lastVote, sent>>
  BY DEF Crash, chain, Blocks
<1>2. bsRoot \in Blocks /\ DOMAIN voteQueue' = {}
  BY <1>1 DEF IInv, TypeOK
<1>3. bsRoot' = 0 \/ HasChild(bsRoot', Blocks, ancestors)
  BY <1>1, <1>2, Zenon DEF FInv, HasChild
<1>4. OnOneFork(saved', ancestors) /\ (saved'.root = NoSlot \/ saved'.votes # <<>>)
  <2>1. EmptyVoteState.root = NoSlot
    BY DEF EmptyVoteState
  <2>2. OnOneFork(saved, ancestors) /\ (saved.root = NoSlot \/ saved.votes # <<>>)
    BY Zenon DEF FInv
  <2> QED
    BY <1>1, <2>1, <2>2, EmptyOnOneFork, Zenon
<1> QED
  BY <1>1, <1>2, <1>3, <1>4, Zenon DEF FInv

(* A sequence that is not empty has a first element. *)
LEMMA HasFirst ==
  ASSUME NEW S, NEW s \in Seq(S), s # <<>>
  PROVE  1 \in DOMAIN s
BY SMT

(* A restored tower may have votes on other forks than its root, but none  *)
(* below it on its own, and then the root has been built on.               *)
LEMMA RestartFInv ==
  ASSUME IInv, FInv, NEW r \in Blocks, NEW h \in Blocks, Restart(r, h)
  PROVE  FInv'
<1> DEFINE restored == saved.root # NoSlot /\ ~AdjustFails(saved, r)
           adjusted == AdjustLockoutsAfterReplay(saved, r)
           rebuilt == InitializeLockoutsFromBank(onChain[h], r)
<1>1. /\ banks' = {b \in Blocks : IsAncestorOrSelf(r, b)}
      /\ bsRoot' = ReconcileBlockstoreRoots(r)
      /\ tower' = IF restored THEN adjusted ELSE rebuilt
      /\ lastVote' \in {saved, EmptyVoteState}
      /\ Blocks' = Blocks
      /\ r = bsRoot \/ \E b \in Blocks : r \in ancestors[b]
      /\ UNCHANGED <<ancestors, onChain, voteQueue, saved, sent>>
  BY Zenon DEF Restart, chain, Blocks
<1>2. /\ Blocks \in SUBSET Slot /\ ancestors \in [Blocks -> SUBSET Blocks]
      /\ ChainsOf(Blocks, ancestors) /\ r \in Nat /\ r # NoSlot
      /\ TowerOver(saved, Blocks) /\ OnOneFork(saved, ancestors)
      /\ TowerOver(onChain[h], Blocks)
  <2>1. /\ Blocks \in SUBSET Slot /\ ancestors \in [Blocks -> SUBSET Blocks]
        /\ ChainsOf(Blocks, ancestors)
    BY TreeFacts, Zenon DEF IInv, FInv
  <2>2. r \in Nat /\ r # NoSlot
    BY <2>1 DEF Slot, NoSlot
  <2>3. TowerOver(saved, Blocks) /\ TowerOver(onChain[h], Blocks)
    BY Zenon DEF IInv
  <2>4. OnOneFork(saved, ancestors)
    BY Zenon DEF FInv
  <2> QED
    BY <2>1, <2>2, <2>3, <2>4, Zenon
<1>3. r = 0 \/ HasChild(r, Blocks, ancestors)
  BY <1>1, Zenon DEF FInv, HasChild
<1>4. saved.root # NoSlot => saved.root \in Blocks /\ saved.root \in Nat
  BY <1>2, TowerSlots, Zenon
<1>5. bsRoot' = 0 \/ HasChild(bsRoot', Blocks, ancestors)
  <2>1. CASE saved.root > r
    <3>1. saved.root # NoSlot
      BY <1>2, <2>1 DEF NoSlot
    <3>2. saved.votes # <<>>
      BY <3>1 DEF FInv
    <3>3. 1 \in DOMAIN saved.votes /\ saved.votes[1].slot \in Blocks
      <4>1. /\ saved.votes \in Seq(Lockout)
            /\ \A i \in DOMAIN saved.votes : saved.votes[i].slot \in Blocks
        BY <1>2, TowerSlots, Zenon
      <4>2. 1 \in DOMAIN saved.votes
        BY <3>2, <4>1, HasFirst, Zenon
      <4> QED
        BY <4>1, <4>2, Zenon
    <3>4. saved.root \in ancestors[saved.votes[1].slot]
      BY <1>2, <3>2, <3>3 DEF OnOneFork
    <3> QED
      BY <1>1, <2>1, <3>3, <3>4, Zenon DEF ReconcileBlockstoreRoots, HasChild
  <2>2. CASE ~(saved.root > r)
    BY <1>1, <1>3, <2>2 DEF ReconcileBlockstoreRoots
  <2> QED
    BY <2>1, <2>2
<1>6. OnOneFork(lastVote', ancestors)
  <2>1. CASE lastVote' = saved
    BY <1>2, <2>1, Zenon
  <2>2. CASE lastVote' = EmptyVoteState
    BY <2>2, EmptyOnOneFork, Zenon
  <2> QED
    BY <1>1, <2>1, <2>2
<1>7. ASSUME restored, saved.root <= r
      PROVE  RootApart(tower', banks', ancestors)
  <2>1. tower' = adjusted /\ adjusted.root = r
    BY <1>1, <1>7, Zenon DEF AdjustLockoutsAfterReplay
  <2>2. TowerOver(adjusted, Blocks)
    BY <1>7, RestoredTowerOver
  <2>3. \A i \in DOMAIN adjusted.votes :
          /\ adjusted.votes[i].slot # r /\ adjusted.votes[i].slot \notin ancestors[r]
          /\ adjusted.votes[i].slot \in Nat
    <3>1. ASSUME NEW i \in DOMAIN adjusted.votes
          PROVE  /\ adjusted.votes[i].slot # r
                 /\ adjusted.votes[i].slot \notin ancestors[r]
      BY <1>2, <1>7, AdjustedApart
    <3>2. \A i \in DOMAIN adjusted.votes : adjusted.votes[i].slot \in Nat
      BY <1>2, <2>2, TowerSlots, Zenon
    <3> QED
      BY <3>1, <3>2
  <2> HIDE DEF adjusted
  <2>4. VotesAboveRoot(adjusted) \/ HasChild(r, banks', ancestors)
    <3>1. CASE r = 0
      BY <2>1, <2>3, <3>1 DEF VotesAboveRoot
    <3>2. CASE HasChild(r, Blocks, ancestors)
      BY <1>1, <3>2 DEF HasChild, IsAncestorOrSelf
    <3> QED
      BY <1>3, <3>1, <3>2
  <2> QED
    BY <2>1, <2>3, <2>4 DEF RootApart
<1>8. ASSUME ~(restored /\ saved.root <= r)
      PROVE  RootApart(tower', banks', ancestors)
  <2>1. TowerOver(tower', Blocks) /\ tower'.root # NoSlot /\ VotesAboveRoot(tower')
    <3>1. CASE restored
      <4>1. tower' = adjusted /\ adjusted.root = saved.root
        BY <1>1, <1>8, <3>1, Zenon DEF AdjustLockoutsAfterReplay
      <4>2. VotesAboveRoot(saved)
        BY <1>2, OnOneForkAbove
      <4>3. \A i \in DOMAIN adjusted.votes : \E j \in DOMAIN saved.votes :
              adjusted.votes[i] = saved.votes[j]
        BY <1>2, RestoredFromSaved
      <4>4. TowerOver(adjusted, Blocks) /\ adjusted.root # NoSlot
        BY <3>1, RestoredTowerOver
      <4> HIDE DEF adjusted
      <4> QED
        <5>1. VotesAboveRoot(adjusted)
          BY <4>1, <4>2, <4>3, Zenon DEF VotesAboveRoot
        <5> QED
          BY <4>1, <4>4, <5>1, Zenon
    <3>2. CASE ~restored
      <4>1. tower' = [votes |-> RetainAbove(onChain[h].votes, r), root |-> r]
        BY <1>1, <3>2 DEF InitializeLockoutsFromBank
      <4>2. onChain[h].votes \in Seq(Lockout) /\ WellFormedVotes(onChain[h].votes)
            /\ r \in Slot \cup {NoSlot} /\ r \in Slot
        BY <1>2 DEF TowerOver, VoteState, Slot
      <4>3. \A i \in DOMAIN RetainAbove(onChain[h].votes, r) :
              RetainAbove(onChain[h].votes, r)[i].slot > r
        BY <4>2, RetainAboveWellFormed
      <4>4. TowerOver([votes |-> RetainAbove(onChain[h].votes, r), root |-> r], Blocks)
        BY <1>2, <4>2, RetainAboveTowerOver
      <4> QED
        <5> DEFINE w == RetainAbove(onChain[h].votes, r)
        <5>1. tower'.votes = w /\ tower'.root = r
          BY <4>1, Zenon
        <5> HIDE DEF w
        <5>2. VotesAboveRoot(tower')
          BY <4>3, <5>1, Zenon DEF VotesAboveRoot, w
        <5> QED
          BY <1>2, <4>1, <4>4, <5>1, <5>2, Zenon
    <3> QED
      BY <3>1, <3>2
  <2> QED
    BY <1>2, <2>1, AboveIsApart
<1> HIDE DEF restored, adjusted, rebuilt
<1> QED
  BY <1>1, <1>5, <1>6, <1>7, <1>8, Zenon DEF FInv

-----------------------------------------------------------------------------
(* Every step preserves FInv. *)
LEMMA NextFInv == IInv /\ FInv /\ [Next]_vars => FInv'
<1> SUFFICES ASSUME IInv, FInv, [Next]_vars PROVE FInv'
  OBVIOUS
<1>1. ASSUME NEW e \in BlockTree, NEW t \in sent \cup {EmptyVoteState},
             ReplayBank(e[1], e[2], t)
      PROVE  FInv'
  BY <1>1, ReplayBankFInv
<1>2. ASSUME NEW b \in banks, ComputeBankStats(b) PROVE FInv'
  BY <1>2, ComputeBankStatsFInv
<1>3. ASSUME NEW s \in banks, NEW tx \in {TRUE, ~VoteTxMayFail},
             HandleVotableBank(s, tx)
      PROVE  FInv'
  BY <1>3, HandleVotableBankFInv, TowerAssumption, Zenon
<1>4. ASSUME NEW b \in banks, RefreshLastVote(b) PROVE FInv'
  BY <1>4, RefreshLastVoteFInv
<1>5. CASE StoreTower
  BY <1>5, StoreTowerFInv
<1>6. CASE SendVote
  BY <1>6, SendVoteFInv
<1>7. CASE Crash
  BY <1>7, CrashFInv
<1>8. ASSUME NEW r \in Blocks, NEW h \in Blocks, Restart(r, h) PROVE FInv'
  BY <1>8, RestartFInv
<1>9. CASE UNCHANGED vars
  BY <1>9 DEF FInv, Blocks, vars
<1> QED
  BY <1>1, <1>2, <1>3, <1>4, <1>5, <1>6, <1>7, <1>8, <1>9, Zenon DEF Next

(* FInv is an invariant of the validator. *)
THEOREM ForkInvariance == Spec => []FInv
  BY InitFInv, NextFInv, Invariance, PTL DEF Spec

(* The votes of every tower on the wire and its root are ancestors of one  *)
(* another in order, whatever was adopted from the chain, restored from    *)
(* the file or rebuilt from a vote account before, and also when the file  *)
(* was lost: record_bank_vote only runs after is_locked_out has found      *)
(* every vote that stays in the stack among the ancestors of the bank.     *)
THEOREM SentTowersOnOneFork == Spec => []SentOnOneFork
<1>1. IInv /\ FInv => SentOnOneFork
  <2> SUFFICES ASSUME IInv, FInv, NEW t \in sent
               PROVE  /\ VotesAboveRoot(t)
                      /\ \A i \in DOMAIN t.votes :
                           /\ t.root \in ancestors[t.votes[i].slot]
                           /\ \A j \in 1..(i - 1) :
                                t.votes[j].slot \in ancestors[t.votes[i].slot]
    BY DEF SentOnOneFork
  <2>1. TowerOver(t, Blocks) /\ OnOneFork(t, ancestors)
    BY DEF IInv, FInv
  <2>2. VotesAboveRoot(t)
    BY <2>1, TreeFacts, OnOneForkAbove
  <2>3. CASE t.votes = <<>>
    <3>1. DOMAIN t.votes = {}
      BY <2>3
    <3> QED
      BY <2>2, <3>1
  <2>4. CASE t.votes # <<>>
    BY <2>1, <2>2, <2>4 DEF OnOneFork
  <2> QED
    BY <2>3, <2>4
<1> QED
  BY <1>1, Invariance, ForkInvariance, PTL

(* The invariant behind NeverPanics, between the tower and BankForks: the  *)
(* votes of our account in a bank lie on its fork, BankForks has all that  *)
(* lies between its root and a bank, its root is on the fork of the        *)
(* tower's root, and the votes of the tower lie on one fork, which is the  *)
(* one of its root unless that root was just set from BankForks.           *)
BInv ==
  /\ \A b \in Blocks : \A v \in VotedSlots(onChain[b]) : IsAncestorOrSelf(v, b)
  /\ \A b \in banks :
       /\ IsAncestorOrSelf(bankRoot, b)
       /\ \A a \in ancestors[b] : IsAncestorOrSelf(bankRoot, a) => a \in banks
  /\ IsAncestorOrSelf(bankRoot, tower.root)
  /\ OnOneFork(tower, ancestors) \/ tower.root = bankRoot
  /\ \A i \in DOMAIN tower.votes : \A j \in 1..(i - 1) :
       tower.votes[j].slot \in ancestors[tower.votes[i].slot]

(* At genesis there is one bank. *)
LEMMA InitBInv == Init => BInv
<1> SUFFICES ASSUME Init PROVE BInv
  OBVIOUS
<1>1. /\ Blocks = {0} /\ banks = {0} /\ bankRoot = 0 /\ tower.root = 0
      /\ tower.votes = <<>> /\ ancestors[0] = {} /\ onChain[0].votes = <<>>
  BY DEF Init, Blocks, EmptyVoteState
<1> QED BY <1>1 DEF BInv, VotedSlots, IsAncestorOrSelf

(* Blocks on one fork are ordered by their slots. *)
LEMMA ForkOrder ==
  ASSUME IInv, FInv, NEW b \in Blocks, NEW x, IsAncestorOrSelf(x, b),
         NEW y, IsAncestorOrSelf(y, b)
  PROVE  /\ x \in Blocks /\ y \in Blocks /\ x \in Nat /\ y \in Nat
         /\ x < y => x \in ancestors[y]
         /\ x <= y => IsAncestorOrSelf(x, y)
<1>1. /\ Blocks \in SUBSET Slot /\ ancestors \in [Blocks -> SUBSET Blocks]
      /\ ChainsOf(Blocks, ancestors)
  BY TreeFacts, Zenon
<1>2. x \in Blocks /\ y \in Blocks /\ x \in Nat /\ y \in Nat /\ b \in Nat
  BY <1>1, Zenon DEF IsAncestorOrSelf, Slot
<1>3. ASSUME x < y PROVE x \in ancestors[y]
  <2>1. CASE y = b
    BY <1>2, <1>3, <2>1 DEF IsAncestorOrSelf
  <2>2. CASE y \in ancestors[b]
    <3>1. y < b
      BY <1>1, <2>2, Zenon DEF ChainsOf
    <3>2. x \in ancestors[b]
      BY <1>2, <1>3, <3>1 DEF IsAncestorOrSelf
    <3> QED BY <1>1, <1>3, <2>2, <3>2, Zenon DEF ChainsOf
  <2> QED BY <2>1, <2>2, Zenon DEF IsAncestorOrSelf
<1> QED BY <1>2, <1>3 DEF IsAncestorOrSelf

(* Descent from block to block. *)
LEMMA ForkTransitive ==
  ASSUME IInv, FInv, NEW x, NEW y, NEW z \in Blocks,
         IsAncestorOrSelf(x, y), IsAncestorOrSelf(y, z)
  PROVE  IsAncestorOrSelf(x, z) /\ y \in Blocks
<1>1. ancestors \in [Blocks -> SUBSET Blocks] /\ ChainsOf(Blocks, ancestors)
  BY TreeFacts, Zenon
<1> QED BY <1>1, Zenon DEF IsAncestorOrSelf, ChainsOf

(* What the vote program has checked of a vote state that it accepts. *)
LEMMA CheckedOk ==
  ASSUME NEW c, NEW t, NEW H, CheckProposed(c, t, H) = OkResult,
         LastVotedSlot(t) \in Int, LastVotedSlot(c) \in Int
  PROVE  /\ t.votes # <<>>
         /\ \A v \in VotedSlots(t) : ~(v >= Earliest(H) /\ v \notin H)
<1> DEFINE last == LastVotedSlot(t)
           misplaced == \E v \in VotedSlots(t) : v >= Earliest(H) /\ v \notin H
           root == FilteredRoot(c, t, H)
           res == IF H = {} THEN "SlotsMismatch"
                  ELSE IF last < Earliest(H) THEN "VoteTooOld"
                  ELSE IF root >= Earliest(H) /\ root \notin H THEN "RootOnDifferentFork"
                  ELSE IF misplaced THEN "SlotsMismatch"
                  ELSE OkResult
<1>1. CheckProposed(c, t, H) =
        CASE t.votes = <<>> -> "EmptySlots"
          [] t.votes # <<>> /\ last <= LastVotedSlot(c) -> "VoteTooOld"
          [] t.votes # <<>> /\ last > LastVotedSlot(c) -> res
  BY Zenon DEF CheckProposed
<1> HIDE DEF res
<1>2. last <= LastVotedSlot(c) <=> ~(last > LastVotedSlot(c))
  OBVIOUS
<1> HIDE DEF last
<1>3. t.votes # <<>> /\ res = OkResult
  BY <1>1, <1>2 DEF OkResult
<1>4. ~misplaced
  BY <1>3 DEF res, OkResult
<1> QED BY <1>3, <1>4, Zenon

(* What a new block makes of our vote account: what it was in the parent,  *)
(* or a vote that was sent, all of whose slots the block descends from.    *)
LEMMA NewAccount ==
  ASSUME IInv, FInv, NEW s, NEW p, NEW t \in sent \cup {EmptyVoteState},
         ReplayBank(s, p, t)
  PROVE  LET new == ProcessTowerSync(onChain[p], t, ancestors[p] \cup {p}) IN
         \/ new = onChain[p]
         \/ new = t /\ t \in sent /\ VotedSlots(t) \subseteq ancestors[p] \cup {p}
<1> USE Zenon
<1> DEFINE anc == ancestors[p] \cup {p}
           new == ProcessTowerSync(onChain[p], t, anc)
<1>1. /\ p \in Blocks /\ Blocks \in SUBSET Slot
      /\ ancestors \in [Blocks -> SUBSET Blocks]
  BY TreeFacts DEF ReplayBank
<1>2. anc \in SUBSET Nat /\ 0 \in anc
  BY <1>1 DEF IInv, Slot
<1>3. t \in VoteState /\ OnOneFork(t, ancestors) /\ TowerOver(t, Blocks)
  BY EmptyTowerOver, EmptyOnOneFork DEF IInv, FInv, TowerOver
<1> HIDE DEF anc
<1>4. CASE new # onChain[p]
  <2>1. CheckProposed(onChain[p], t, anc) = OkResult
    BY <1>4 DEF ProcessTowerSync
  <2>0. LastVotedSlot(t) \in Int /\ LastVotedSlot(onChain[p]) \in Int
    BY <1>1, <1>3, NewestType DEF IInv
  <2>2. t.votes # <<>>
    BY <2>0, <2>1, CheckedOk
  <2>3. Earliest(anc) = 0
    BY <1>2, EarliestZero
  <2>4. t.root \in Nat /\ \A i \in DOMAIN t.votes : t.votes[i].slot \in Nat
    BY <1>1, <1>3, <2>2, TowerSlots DEF OnOneFork
  <2>5. FilteredVotes(onChain[p], t, anc) = t.votes
    <3>1. \A i \in DOMAIN t.votes : t.votes[i].slot >= Earliest(anc)
      BY <2>3, <2>4, SMT
    <3> QED
      BY <3>1 DEF FilteredVotes
  <2>6. FilteredRoot(onChain[p], t, anc) = t.root
    <3>1. t.root >= Earliest(anc)
      BY <2>3, <2>4, SMT
    <3> QED
      BY <3>1 DEF FilteredRoot
  <2>7. new = [votes |-> t.votes, root |-> t.root]
    BY <1>4, <2>1, <2>5, <2>6 DEF ProcessTowerSync
  <2>8. new = t
    BY <1>3, <2>7, SMT DEF VoteState
  <2>9. ASSUME NEW v \in VotedSlots(t) PROVE v \in anc
    <3>1. v \in Nat /\ v >= Earliest(anc)
      BY <2>3, <2>4, SMT DEF VotedSlots
    <3>2. ~(v >= Earliest(anc) /\ v \notin anc)
      BY <1>3, <2>0, <2>1, CheckedOk, NewestType
    <3> QED BY <3>1, <3>2
  <2>10. t \in sent
    BY <2>2, SMT DEF EmptyVoteState
  <2> QED BY <2>8, <2>9, <2>10 DEF anc
<1> QED BY <1>4 DEF anc

(* A replayed bank descends from the root. *)
LEMMA ReplayBankBInv ==
  ASSUME IInv, FInv, BInv, NEW s, NEW p, NEW t \in sent \cup {EmptyVoteState},
         ReplayBank(s, p, t)
  PROVE  BInv'
<1> USE Zenon
<1> DEFINE anc == ancestors[p] \cup {p}
           new == ProcessTowerSync(onChain[p], t, anc)
<1>1. /\ p \in banks /\ p \in Blocks /\ s \notin Blocks /\ banks \subseteq Blocks
      /\ Blocks \in SUBSET Slot /\ ancestors \in [Blocks -> SUBSET Blocks]
  BY TreeFacts DEF ReplayBank
<1>2. /\ Blocks' = Blocks \cup {s} /\ ancestors'[s] = anc
      /\ \A b \in Blocks : ancestors'[b] = ancestors[b]
      /\ onChain'[s] = new /\ \A b \in Blocks : onChain'[b] = onChain[b]
      /\ banks' = banks \cup {s} /\ bankRoot' = bankRoot /\ tower' = tower
  BY <1>1, SMT DEF ReplayBank, Blocks
<1>3. \A x : \A b \in Blocks : IsAncestorOrSelf(x, b)' <=> IsAncestorOrSelf(x, b)
  BY <1>2 DEF IsAncestorOrSelf
<1>4. \A x \in anc : IsAncestorOrSelf(x, s)'
  BY <1>2 DEF IsAncestorOrSelf
<1>5. \A x : IsAncestorOrSelf(x, p) => x \in anc
  BY DEF IsAncestorOrSelf
<1>6. \A b \in Blocks' : \A v \in VotedSlots(onChain'[b]) : IsAncestorOrSelf(v, b)'
  <2>1. ASSUME NEW b \in Blocks, NEW v \in VotedSlots(onChain[b])
        PROVE  IsAncestorOrSelf(v, b)'
    BY <1>3 DEF BInv
  <2>2. ASSUME NEW v \in VotedSlots(new) PROVE IsAncestorOrSelf(v, s)'
    <3>1. new = onChain[p] \/ VotedSlots(new) \subseteq anc
      BY NewAccount
    <3>2. v \in anc
      BY <1>1, <1>5, <2>2, <3>1 DEF BInv
    <3> QED BY <1>4, <3>2
  <2> QED BY <1>2, <2>1, <2>2
<1> HIDE DEF new
<1>7. ASSUME NEW b \in banks'
      PROVE  /\ IsAncestorOrSelf(bankRoot, b)'
             /\ \A a \in ancestors'[b] : IsAncestorOrSelf(bankRoot, a)' => a \in banks'
  <2>1. CASE b \in banks
    <3>1. b \in Blocks /\ ancestors'[b] = ancestors[b] /\ ancestors[b] \subseteq Blocks
      BY <1>1, <1>2, <2>1
    <3>2. /\ IsAncestorOrSelf(bankRoot, b)
          /\ \A a \in ancestors[b] : IsAncestorOrSelf(bankRoot, a) => a \in banks
      BY <2>1 DEF BInv
    <3> QED BY <1>2, <1>3, <3>1, <3>2
  <2>2. CASE b = s
    <3>1. /\ IsAncestorOrSelf(bankRoot, p)
          /\ \A a \in ancestors[p] : IsAncestorOrSelf(bankRoot, a) => a \in banks
      BY <1>1 DEF BInv
    <3>2. \A a \in anc : a \in Blocks /\ (IsAncestorOrSelf(bankRoot, a) => a \in banks)
      BY <1>1, <3>1
    <3> QED BY <1>2, <1>3, <1>4, <1>5, <2>2, <3>1, <3>2
  <2> QED BY <1>2, <2>1, <2>2
<1>8. TowerOver(tower, Blocks) /\ tower.root \in Blocks
      /\ \A i \in DOMAIN tower.votes : tower.votes[i].slot \in Blocks
  BY DEF IInv, TypeOK, TowerOver, VotedSlots
<1>9. IsAncestorOrSelf(bankRoot, tower.root)'
  BY <1>2, <1>3, <1>8 DEF BInv
<1>10. OnOneFork(tower', ancestors') \/ tower'.root = bankRoot'
  BY <1>2, <1>8, OnOneForkAgree DEF BInv
<1>11. \A i \in DOMAIN tower.votes : \A j \in 1..(i - 1) :
         tower.votes[j].slot \in ancestors'[tower.votes[i].slot]
  BY <1>2, <1>8 DEF BInv
<1> QED BY <1>2, <1>6, <1>7, <1>9, <1>10, <1>11 DEF BInv

(* A bank whose account is ahead of the tower has votes in it, whose root  *)
(* and last vote are on the fork of the bank.                              *)
LEMMA AheadAccount ==
  ASSUME IInv, FInv, BInv, NEW b \in banks, Behind(b)
  PROVE  /\ onChain[b].votes # <<>> /\ onChain[b].root # NoSlot
         /\ onChain[b].root \in Blocks /\ onChain[b].root \in ancestors[b]
<1> USE Zenon
<1>1. /\ Blocks \in SUBSET Slot /\ ancestors \in [Blocks -> SUBSET Blocks]
      /\ banks \subseteq Blocks /\ ChainsOf(Blocks, ancestors)
  BY TreeFacts
<1>2. /\ b \in Blocks /\ TowerOver(onChain[b], Blocks)
      /\ OnOneFork(onChain[b], ancestors) /\ TowerOver(tower, Blocks)
  BY <1>1 DEF IInv, FInv
<1>3. onChain[b].votes # <<>>
  <2>1. LastVotedSlot(tower) \in Slot \cup {NoSlot}
    BY <1>2, LastVoteNewest DEF TowerOver
  <2> QED BY <2>1, SMT DEF Behind, LastVotedSlot, NoSlot, Slot
<1>4. LastVotedSlot(onChain[b]) \in VotedSlots(onChain[b])
      /\ onChain[b].root # NoSlot /\ onChain[b].root \in Blocks
      /\ onChain[b].root \in ancestors[LastVotedSlot(onChain[b])]
  BY <1>1, <1>2, <1>3, LastIsVote, TowerSlots DEF OnOneFork
<1>5. IsAncestorOrSelf(LastVotedSlot(onChain[b]), b)
  BY <1>2, <1>4 DEF BInv
<1> QED BY <1>1, <1>2, <1>3, <1>4, <1>5 DEF IsAncestorOrSelf, ChainsOf

(* Adopting the tower of a bank keeps the banks and the root in step. *)
LEMMA ComputeBankStatsBInv ==
  ASSUME IInv, FInv, BInv, NEW b \in banks, ComputeBankStats(b)
  PROVE  BInv'
<1>1. /\ Blocks' = Blocks
      /\ tower' = (IF Behind(b) THEN AdoptedTower(b) ELSE tower)
      /\ lastVote' = (IF Behind(b) THEN AdoptedTower(b) ELSE lastVote)
      /\ UNCHANGED <<ancestors, onChain, banks, bankRoot>>
  BY DEF ComputeBankStats, chain, Blocks
<1>2. CASE ~Behind(b)
  BY <1>1, <1>2, Zenon DEF BInv, IsAncestorOrSelf
<1>3. CASE Behind(b)
  <2>1. OnOneFork(tower', ancestors)
    BY <1>1, <1>3, ComputeBankStatsFInv, Zenon DEF FInv
  <2>2. IsAncestorOrSelf(bankRoot, tower'.root)
    <3>1. IsAncestorOrSelf(bankRoot, b) /\ IsAncestorOrSelf(bankRoot, tower.root)
          /\ b \in Blocks /\ tower.root \in Blocks
      BY TreeFacts, Zenon DEF BInv, IInv, TypeOK, TowerOver
    <3>2. CASE tower.root > onChain[b].root
      BY <1>1, <1>3, <3>1, <3>2 DEF AdoptedTower
    <3>3. CASE ~(tower.root > onChain[b].root)
      <4>1. tower'.root = onChain[b].root
        BY <1>1, <1>3, <3>3 DEF AdoptedTower
      <4>2. IsAncestorOrSelf(onChain[b].root, b) /\ onChain[b].root \in Blocks
        BY <1>3, AheadAccount, Zenon DEF IsAncestorOrSelf
      <4>3. /\ bankRoot \in Nat /\ onChain[b].root \in Nat /\ tower.root \in Nat
            /\ ChainsOf(Blocks, ancestors)
        BY <3>1, <4>2, TreeFacts DEF Slot, IsAncestorOrSelf
      <4>4. bankRoot <= tower.root
        BY <3>1, <4>3 DEF IsAncestorOrSelf, ChainsOf
      <4>5. bankRoot <= onChain[b].root
        BY <3>3, <4>3, <4>4
      <4> QED BY <3>1, <4>1, <4>2, <4>5, ForkOrder, Zenon
    <3> QED BY <3>2, <3>3
  <2>3. \A i \in DOMAIN tower'.votes : \A j \in 1..(i - 1) :
          tower'.votes[j].slot \in ancestors[tower'.votes[i].slot]
    <3>1. CASE tower'.votes = <<>>
      BY <3>1
    <3>2. CASE tower'.votes # <<>>
      BY <2>1, <3>2, Zenon DEF OnOneFork
    <3> QED BY <3>1, <3>2
  <2> QED BY <1>1, <2>1, <2>2, <2>3, Zenon DEF BInv, IsAncestorOrSelf
<1> QED BY <1>2, <1>3

(* What is recorded for a bank that may be voted on. *)
LEMMA VotableBank ==
  ASSUME IInv, FInv, BInv, NEW s \in banks, Votable(s)
  PROVE  LET w == ProcessNextVoteSlot(tower, s) IN
         /\ w = PushVote(tower, s) /\ s > LastVotedSlot(tower)
         /\ LastVotedSlot(w) = s /\ TowerOver(w, Blocks) /\ w.root # NoSlot
         /\ w.votes # <<>>
         /\ w.root # tower.root =>
              /\ 1 \in DOMAIN tower.votes /\ w.root = tower.votes[1].slot
              /\ MAX_LOCKOUT_HISTORY > 1 => w.root \in ancestors[s]
<1> DEFINE w == ProcessNextVoteSlot(tower, s)
<1>1. /\ Blocks \in SUBSET Slot /\ ancestors \in [Blocks -> SUBSET Blocks]
      /\ s \in Blocks /\ ChainsOf(Blocks, ancestors)
      /\ TowerOver(tower, Blocks) /\ tower.root # NoSlot
  BY TreeFacts, Zenon DEF IInv, TypeOK
<1>2. /\ IsRecent(tower, s)
      /\ \A v \in VotedSlots(w) : v = s \/ v \in ancestors[s]
  BY Zenon DEF Votable, IsLockedOut
<1>3. /\ s \in Nat /\ s \in Slot /\ tower \in VoteState /\ WellFormedVotes(tower.votes)
      /\ LastVotedSlot(tower) \in Int
  BY <1>1, NewestType DEF TowerOver, Slot
<1>4. s > LastVotedSlot(tower)
  BY <1>2, <1>3 DEF IsRecent, LastVotedSlot, NoSlot
<1>5. w = PushVote(tower, s)
  BY <1>3, <1>4 DEF ProcessNextVoteSlot
<1>6. TowerOver(w, Blocks) /\ w.root # NoSlot
  BY <1>1, ProcessNextVoteSlotTowerOver, Zenon
<1>7. LastVotedSlot(w) = s
  BY <1>3, <1>4, <1>5, PushVoteWellFormed, Zenon
<1> HIDE DEF w
<1>8. w.votes # <<>>
  BY <1>3, <1>7 DEF LastVotedSlot, NoSlot
<1>9. PICK k \in 0..Len(tower.votes), d \in 0..1 : Pushed(tower, s, w, k, d)
  BY <1>3, <1>4, <1>5, PushVoteStack, Zenon
<1>10. ASSUME w.root # tower.root
       PROVE  /\ 1 \in DOMAIN tower.votes /\ w.root = tower.votes[1].slot
              /\ MAX_LOCKOUT_HISTORY > 1 => w.root \in ancestors[s]
  <2>1. /\ Len(tower.votes) \in Nat /\ DOMAIN tower.votes = 1..Len(tower.votes)
        /\ \A i \in DOMAIN tower.votes : tower.votes[i].slot \in Blocks
    BY <1>1, TowerSlots, Zenon
  <2>2. d = 1 /\ d <= k /\ k = MAX_LOCKOUT_HISTORY /\ w.root = tower.votes[1].slot
        /\ w.votes \in Seq(Lockout) /\ Len(w.votes) = k - d + 1
        /\ \A i \in 1..(k - d) : w.votes[i].slot = tower.votes[d + i].slot
    BY <1>9, <1>10 DEF Pushed
  <2>3. 1 \in DOMAIN tower.votes
    BY <2>1, <2>2
  <2>4. ASSUME MAX_LOCKOUT_HISTORY > 1 PROVE w.root \in ancestors[s]
    <3>1. 1 \in 1..(k - d) /\ 2 \in DOMAIN tower.votes /\ 1 \in DOMAIN w.votes
          /\ d + 1 = 2 /\ 1 \in 1..(2 - 1)
      BY <2>1, <2>2, <2>4, LockoutAssumption
    <3>2. w.votes[1].slot = tower.votes[2].slot /\ w.votes[1].slot \in VotedSlots(w)
      BY <2>2, <3>1, Zenon DEF VotedSlots
    <3>3. tower.votes[2].slot < s /\ tower.votes[2].slot \in Nat
      BY <1>3, <1>4, <2>1, <3>1, PushVoteStack, Zenon
    <3>4. tower.votes[2].slot \in ancestors[s]
      BY <1>2, <1>3, <3>2, <3>3
    <3>5. tower.votes[1].slot \in ancestors[tower.votes[2].slot]
      BY <3>1, Zenon DEF BInv
    <3> QED BY <1>1, <2>2, <3>4, <3>5, Zenon DEF ChainsOf
  <2> QED BY <2>2, <2>3, <2>4
<1> QED BY <1>4, <1>5, <1>6, <1>7, <1>8, <1>10, Zenon DEF w

(* A root that is set descends from the one before. *)
LEMMA NewRootDescends ==
  ASSUME IInv, FInv, BInv, NEW s \in banks, Votable(s), ~VotingPanics(s)
  PROVE  IsAncestorOrSelf(tower.root, ProcessNextVoteSlot(tower, s).root)
<1> USE Zenon
<1> DEFINE w == ProcessNextVoteSlot(tower, s)
<1> SUFFICES ASSUME w.root # tower.root PROVE IsAncestorOrSelf(tower.root, w.root)
  BY DEF IsAncestorOrSelf
<1>1. 1 \in DOMAIN tower.votes /\ w.root = tower.votes[1].slot
  BY VotableBank
<1>2. w.root \in banks
  BY DEF VotingPanics
<1> HIDE DEF w
<1>3. CASE OnOneFork(tower, ancestors)
  <2>1. tower.votes # <<>>
    BY <1>1, SMT
  <2> QED BY <1>1, <1>3, <2>1 DEF OnOneFork, IsAncestorOrSelf
<1>4. CASE tower.root = bankRoot
  BY <1>2, <1>4 DEF BInv
<1> QED BY <1>3, <1>4 DEF BInv

(* A new root is a bank, and what BankForks keeps is what descends from it. *)
LEMMA HandleVotableBankBInv ==
  ASSUME IInv, FInv, BInv, NEW s \in banks, NEW tx \in BOOLEAN,
         HandleVotableBank(s, tx)
  PROVE  BInv'
<1> USE Zenon
<1> DEFINE t == ProcessNextVoteSlot(tower, s)
<1>1. /\ tower' = t /\ lastVote' = t /\ Blocks' = Blocks
      /\ UNCHANGED <<ancestors, onChain>>
      /\ IF t.root = tower.root THEN UNCHANGED <<bankRoot, banks>>
         ELSE /\ bankRoot' = t.root
              /\ banks' = {b \in banks : IsAncestorOrSelf(t.root, b)}
      /\ t.root \in banks \cup {tower.root}
  BY DEF HandleVotableBank, VotingPanics, chain, Blocks
<1>2. OnOneFork(t, ancestors)
  BY <1>1, HandleVotableBankFInv DEF FInv
<1>3. t.votes # <<>>
  BY VotableBank DEF HandleVotableBank
<1> HIDE DEF t
<1>4. \A i \in DOMAIN t.votes : \A j \in 1..(i - 1) :
        t.votes[j].slot \in ancestors[t.votes[i].slot]
  BY <1>2, <1>3 DEF OnOneFork
<1>5. CASE t.root = tower.root
  <2>1. bankRoot' = bankRoot /\ banks' = banks
    BY <1>1, <1>5
  <2>2. \A x, y : IsAncestorOrSelf(x, y)' <=> IsAncestorOrSelf(x, y)
    BY <1>1 DEF IsAncestorOrSelf
  <2> QED BY <1>1, <1>2, <1>4, <1>5, <2>1, <2>2 DEF BInv
<1>6. CASE t.root # tower.root
  <2>1. /\ bankRoot' = t.root /\ t.root \in banks
        /\ banks' = {b \in banks : IsAncestorOrSelf(t.root, b)}
    BY <1>1, <1>6
  <2>2. \A x, y : IsAncestorOrSelf(x, y)' <=> IsAncestorOrSelf(x, y)
    BY <1>1 DEF IsAncestorOrSelf
  <2>3. ASSUME NEW b \in banks', NEW a \in ancestors[b], IsAncestorOrSelf(t.root, a)
        PROVE  a \in banks'
    <3>1. b \in banks /\ b \in Blocks /\ a \in Blocks
      BY <2>1, TreeFacts
    <3>2. IsAncestorOrSelf(bankRoot, t.root)
      BY <2>1 DEF BInv
    <3>3. IsAncestorOrSelf(bankRoot, a)
      BY <2>3, <3>1, <3>2, ForkTransitive
    <3>4. a \in banks
      BY <3>1, <3>3 DEF BInv
    <3> QED BY <2>1, <2>3, <3>4
  <2>4. IsAncestorOrSelf(t.root, t.root)
    BY DEF IsAncestorOrSelf
  <2> QED BY <1>1, <1>2, <1>4, <2>1, <2>2, <2>3, <2>4 DEF BInv
<1> QED BY <1>5, <1>6, SMT

(* What a restart takes over is the top of a stack: of the saved one, from *)
(* the newest vote found in the history of r, or of the vote account.      *)
LEMMA RestoredSuffix ==
  ASSUME NEW B \in SUBSET Slot, TowerOver(saved, B), NEW r
  PROVE  \E k \in 0..Len(saved.votes) :
           /\ AdjustLockoutsAfterReplay(saved, r).votes
                = SubSeq(saved.votes, k + 1, Len(saved.votes))
           /\ k > 0 => CheckTower(saved, r, k) = "Found"
<1> USE Zenon
<1> DEFINE T == {j \in DOMAIN saved.votes : CheckTower(saved, r, j) = "Found"}
           k == LastIndex(T)
<1>1. Len(saved.votes) \in Nat /\ DOMAIN saved.votes = 1..Len(saved.votes)
  BY TowerSlots
<1>2. T \in SUBSET (1..Len(saved.votes))
  BY <1>1, SMT
<1>3. k \in 0..Len(saved.votes) /\ k \in T \cup {0}
  BY <1>1, <1>2, LastIndexGreatest
<1>4. AdjustLockoutsAfterReplay(saved, r).votes
        = SubSeq(saved.votes, k + 1, Len(saved.votes))
  BY DEF AdjustLockoutsAfterReplay
<1> HIDE DEF k
<1>5. k > 0 => CheckTower(saved, r, k) = "Found"
  <2>1. ~(0 > 0)
    BY SMT
  <2>2. k > 0 => k # 0
    BY <2>1
  <2> QED
    BY <1>3, <2>2
<1> QED BY <1>3, <1>4, <1>5

(* BankForks restarts from r, an ancestor of the root of the tower.        *)
LEMMA RestartBInv ==
  ASSUME IInv, FInv, BInv, NEW r \in Blocks, NEW h \in Blocks, Restart(r, h)
  PROVE  BInv'
<1> USE Zenon
<1> DEFINE restored == saved.root # NoSlot /\ ~AdjustFails(saved, r)
           adjusted == AdjustLockoutsAfterReplay(saved, r)
           rebuilt == InitializeLockoutsFromBank(onChain[h], r)
<1>1. /\ banks' = {b \in Blocks : IsAncestorOrSelf(r, b)} /\ bankRoot' = r
      /\ tower' = IF restored THEN adjusted ELSE rebuilt
      /\ Blocks' = Blocks /\ UNCHANGED <<ancestors, onChain>>
      /\ saved.root > r => r \in ancestors[saved.root]
  BY DEF Restart, chain, Blocks
<1>2. /\ Blocks \in SUBSET Slot /\ ancestors \in [Blocks -> SUBSET Blocks]
      /\ TowerOver(saved, Blocks) /\ OnOneFork(saved, ancestors)
      /\ TowerOver(onChain[h], Blocks) /\ OnOneFork(onChain[h], ancestors)
  BY TreeFacts DEF IInv, FInv
<1>3. \A x, y : IsAncestorOrSelf(x, y)' <=> IsAncestorOrSelf(x, y)
  BY <1>1 DEF IsAncestorOrSelf
<1>4. \A b \in Blocks' : \A v \in VotedSlots(onChain'[b]) : IsAncestorOrSelf(v, b)'
  BY <1>1, <1>3 DEF BInv
<1>5. \A b \in banks' :
        /\ IsAncestorOrSelf(r, b)'
        /\ \A a \in ancestors'[b] : IsAncestorOrSelf(r, a)' => a \in banks'
  BY <1>1, <1>2, <1>3
<1>6. /\ IsAncestorOrSelf(r, tower'.root)
      /\ OnOneFork(tower', ancestors) \/ tower'.root = r
      /\ \A i \in DOMAIN tower'.votes : \A j \in 1..(i - 1) :
           tower'.votes[j].slot \in ancestors[tower'.votes[i].slot]
  <2>1. CASE restored
    <3>1. tower'.root = IF saved.root <= r THEN r ELSE saved.root
      BY <1>1, <2>1 DEF AdjustLockoutsAfterReplay
    <3>2. PICK k \in 0..Len(saved.votes) :
            tower'.votes = SubSeq(saved.votes, k + 1, Len(saved.votes))
      BY <1>1, <1>2, <2>1, RestoredSuffix
    <3>3. \A i \in DOMAIN tower'.votes :
            /\ saved.root # NoSlot /\ saved.root \in ancestors[tower'.votes[i].slot]
            /\ \A j \in 1..(i - 1) :
                 tower'.votes[j].slot \in ancestors[tower'.votes[i].slot]
      BY <1>2, <3>2, SuffixInLine
    <3>4. CASE saved.root <= r
      BY <3>1, <3>3, <3>4 DEF IsAncestorOrSelf
    <3>5. CASE ~(saved.root <= r)
      <4>1. saved.root > r
        <5>1. saved.root \in Int
          BY <1>2, NewestType
        <5>2. r \in Int
          BY <1>2, SMT DEF Slot
        <5> QED BY <3>5, <5>1, <5>2, SMT
      <4>2. tower'.root = saved.root /\ IsAncestorOrSelf(r, saved.root)
        BY <1>1, <3>1, <3>5, <4>1 DEF IsAncestorOrSelf
      <4>3. OnOneFork(tower', ancestors)
        BY <2>1, <3>3, <4>2 DEF OnOneFork
      <4> QED BY <3>3, <4>2, <4>3
    <3> QED BY <3>4, <3>5
  <2>2. CASE ~restored
    <3>1. tower'.root = r /\ tower'.votes = RetainAbove(onChain[h].votes, r)
      BY <1>1, <2>2 DEF InitializeLockoutsFromBank
    <3>2. PICK k \in 0..Len(onChain[h].votes) :
            tower'.votes = SubSeq(onChain[h].votes, k + 1, Len(onChain[h].votes))
      <4>1. \E k \in 0..Len(onChain[h].votes) :
              RetainAbove(onChain[h].votes, r)
                = SubSeq(onChain[h].votes, k + 1, Len(onChain[h].votes))
        BY <1>2, RetainedSuffix
      <4> QED BY <3>1, <4>1, SMT
    <3>3. \A i \in DOMAIN tower'.votes : \A j \in 1..(i - 1) :
            tower'.votes[j].slot \in ancestors[tower'.votes[i].slot]
      BY <1>2, <3>2, SuffixInLine
    <3> QED BY <3>1, <3>3 DEF IsAncestorOrSelf
  <2> QED BY <2>1, <2>2
<1> HIDE DEF restored, adjusted, rebuilt
<1> QED BY <1>1, <1>3, <1>4, <1>5, <1>6 DEF BInv

(* Every step preserves BInv. *)
LEMMA NextBInv == IInv /\ FInv /\ BInv /\ [Next]_vars => BInv'
<1> SUFFICES ASSUME IInv, FInv, BInv, [Next]_vars PROVE BInv'
  OBVIOUS
<1>1. ASSUME NEW e \in BlockTree, NEW t \in sent \cup {EmptyVoteState},
             ReplayBank(e[1], e[2], t)
      PROVE  BInv'
  BY <1>1, ReplayBankBInv
<1>2. ASSUME NEW b \in banks, ComputeBankStats(b) PROVE BInv'
  BY <1>2, ComputeBankStatsBInv
<1>3. ASSUME NEW s \in banks, NEW tx \in {TRUE, ~VoteTxMayFail},
             HandleVotableBank(s, tx)
      PROVE  BInv'
  BY <1>3, HandleVotableBankBInv, TowerAssumption, Zenon
<1>4. ASSUME UNCHANGED <<chain, banks, bankRoot, tower>> PROVE BInv'
  BY <1>4, Zenon DEF BInv, Blocks, chain, IsAncestorOrSelf
<1>5. ASSUME NEW b \in banks, RefreshLastVote(b) PROVE BInv'
  BY <1>4, <1>5 DEF RefreshLastVote
<1>6. CASE StoreTower
  BY <1>4, <1>6 DEF StoreTower
<1>7. CASE SendVote
  BY <1>4, <1>7 DEF SendVote
<1>8. CASE Crash
  BY <1>4, <1>8 DEF Crash
<1>9. ASSUME NEW r \in Blocks, NEW h \in Blocks, Restart(r, h) PROVE BInv'
  BY <1>9, RestartBInv
<1>10. CASE UNCHANGED vars
  BY <1>10, Zenon DEF vars, BInv, Blocks, IsAncestorOrSelf
<1> QED
  BY <1>1, <1>2, <1>3, <1>5, <1>6, <1>7, <1>8, <1>9, <1>10, Zenon DEF Next

(* BInv is an invariant of the validator. *)
THEOREM BankForksInvariance == Spec => []BInv
  BY InitBInv, NextBInv, Invariance, ForkInvariance, PTL DEF Spec

(* Voting on a fork of the tower's root does not panic. *)
LEMMA VotingSafe ==
  ASSUME MAX_LOCKOUT_HISTORY > 1, IInv, FInv, BInv, NEW s \in banks, Votable(s),
         IsAncestorOrSelf(tower.root, s)
  PROVE  ~VotingPanics(s)
<1> USE Zenon
<1> DEFINE w == ProcessNextVoteSlot(tower, s)
<1>1. s \in Blocks /\ tower.root \in Blocks
  BY TreeFacts DEF IInv, TypeOK, TowerOver
<1>2. CASE w.root = tower.root
  BY <1>2 DEF VotingPanics, RootIsAncestor, IsAncestorOrSelf
<1>3. CASE w.root # tower.root
  <2>1. /\ 1 \in DOMAIN tower.votes /\ w.root = tower.votes[1].slot
        /\ w.root \in ancestors[s]
    BY <1>3, VotableBank
  <2> HIDE DEF w
  <2>2. w.root \notin ancestors[tower.root]
    BY <2>1 DEF FInv, RootApart
  <2>3. IsAncestorOrSelf(w.root, s)
    BY <2>1 DEF IsAncestorOrSelf
  <2>4. IsAncestorOrSelf(tower.root, w.root) /\ w.root \in Blocks
    <3>1. /\ tower.root \in Nat /\ w.root \in Nat /\ w.root \in Blocks
          /\ w.root < tower.root => w.root \in ancestors[tower.root]
          /\ tower.root <= w.root => IsAncestorOrSelf(tower.root, w.root)
      BY <1>1, <2>3, ForkOrder
    <3> QED BY <2>2, <3>1, SMT
  <2>5. IsAncestorOrSelf(bankRoot, w.root)
    BY <2>4, ForkTransitive DEF BInv
  <2>6. w.root \in banks
    BY <2>1, <2>5 DEF BInv
  <2> QED BY <2>1, <2>6 DEF VotingPanics, RootIsAncestor, w
<1> QED BY <1>2, <1>3, SMT

(* Nor does adopting the vote account of a bank on it. *)
LEMMA AdoptionSafe ==
  ASSUME IInv, FInv, BInv, NEW b \in banks, IsAncestorOrSelf(tower.root, b)
  PROVE  ~AdoptionPanics(b)
<1> USE Zenon
<1> SUFFICES ASSUME Behind(b) PROVE ~AdoptionPanics(b)
  BY DEF AdoptionPanics
<1> DEFINE c == onChain[b]
           t == AdoptedTower(b)
<1>1. /\ Blocks \in SUBSET Slot /\ b \in Blocks /\ TowerOver(c, Blocks)
      /\ OnOneFork(c, ancestors) /\ TowerOver(t, Blocks)
      /\ tower.root \in Blocks /\ ChainsOf(Blocks, ancestors)
  BY TreeFacts, AdoptedTowerOver DEF IInv, FInv, TypeOK, TowerOver
<1>2. c.votes # <<>> /\ c.root # NoSlot /\ c.root \in Nat /\ tower.root \in Nat
  BY <1>1, AheadAccount DEF Slot
<1>3. \A v \in VotedSlots(t) : v \in VotedSlots(c) /\ v > tower.root
  <2>1. CASE tower.root > c.root
    <3>1. t.votes = RetainAbove(c.votes, tower.root)
      BY <2>1 DEF AdoptedTower
    <3>2. c.votes \in Seq(Lockout) /\ WellFormedVotes(c.votes)
          /\ tower.root \in Slot \cup {NoSlot}
      BY <1>1 DEF TowerOver, VoteState
    <3> HIDE DEF c, t
    <3>3. \A i \in DOMAIN t.votes : /\ t.votes[i].slot > tower.root
                                   /\ \E j \in DOMAIN c.votes : t.votes[i] = c.votes[j]
      <4> DEFINE w == RetainAbove(c.votes, tower.root)
      <4>1. \A i \in DOMAIN w : /\ w[i].slot > tower.root
                               /\ \E j \in DOMAIN c.votes : w[i] = c.votes[j]
        BY <3>2, RetainAboveWellFormed
      <4> QED BY <3>1, <4>1
    <3> QED BY <3>3 DEF VotedSlots
  <2>2. CASE ~(tower.root > c.root)
    <3>1. t = c
      BY <2>2 DEF AdoptedTower
    <3>2. VotesAboveRoot(c)
      BY <1>1, OnOneForkAbove
    <3>3. \A i \in DOMAIN c.votes : c.votes[i].slot \in Nat
      BY <1>1, TowerSlots
    <3> HIDE DEF c, t
    <3>4. ASSUME NEW i \in DOMAIN c.votes PROVE c.votes[i].slot > tower.root
      <4>1. c.votes[i].slot > c.root /\ c.votes[i].slot \in Nat
        BY <3>2, <3>3 DEF VotesAboveRoot
      <4>2. tower.root \in Nat /\ c.root \in Nat /\ ~(tower.root > c.root)
        BY <1>2, <2>2
      <4> QED BY <4>1, <4>2, SMT
    <3> QED BY <3>1, <3>4 DEF VotedSlots
  <2> QED BY <2>1, <2>2
<1>4. ASSUME NEW v \in VotedSlots(t) PROVE v \in banks /\ tower.root \in ancestors[v]
  <2>1. IsAncestorOrSelf(v, b) /\ v > tower.root
    BY <1>1, <1>3 DEF BInv
  <2>2. v \in Blocks /\ tower.root \in ancestors[v]
    <3>1. /\ v \in Blocks /\ v \in Nat
          /\ tower.root < v => tower.root \in ancestors[v]
      BY <1>1, <2>1, ForkOrder
    <3> QED BY <1>2, <2>1, <3>1, SMT
  <2>3. IsAncestorOrSelf(bankRoot, v)
    <3>1. IsAncestorOrSelf(tower.root, v) /\ IsAncestorOrSelf(bankRoot, tower.root)
      BY <2>2 DEF BInv, IsAncestorOrSelf
    <3> QED BY <2>2, <3>1, ForkTransitive
  <2> QED BY <2>1, <2>2, <2>3 DEF BInv, IsAncestorOrSelf
<1>5. tower.root \in banks
  BY DEF BInv, IsAncestorOrSelf
<1>6. t.votes # <<>> => LastVotedSlot(t) \in VotedSlots(t) /\ t.votes[1].slot \in VotedSlots(t)
  <2> SUFFICES ASSUME t.votes # <<>>
               PROVE  LastVotedSlot(t) \in VotedSlots(t) /\ t.votes[1].slot \in VotedSlots(t)
    OBVIOUS
  <2> HIDE DEF t
  <2>1. LastVotedSlot(t) \in VotedSlots(t)
    BY <1>1, LastIsVote
  <2>2. t.votes \in Seq(Lockout)
    BY <1>1 DEF TowerOver, VoteState
  <2>3. 1 \in DOMAIN t.votes
    BY <2>2, HasFirst
  <2> QED BY <2>1, <2>3 DEF VotedSlots
<1>7. t.votes = <<>> => t.root = tower.root
  BY <1>2, SMT DEF AdoptedTower
<1> QED BY <1>4, <1>5, <1>6, <1>7 DEF AdoptionPanics

(* is_locked_out, handle_votable_bank and adopt_on_chain_tower_if_behind   *)
(* meet their assertions on every fork that descends from the tower's root *)
(* when that root is newer than the one of BankForks, and on every fork    *)
(* otherwise.  A tower of depth one is excluded: its root would be the     *)
(* vote before, whatever fork it is on.                                    *)
THEOREM AssertionsHold ==
  ASSUME MAX_LOCKOUT_HISTORY > 1
  PROVE  Spec => []NeverPanics
<1>1. IInv /\ FInv /\ BInv => NeverPanics
  <2> SUFFICES ASSUME IInv, FInv, BInv, NEW s \in banks,
                      tower.root > bankRoot => IsAncestorOrSelf(tower.root, s)
               PROVE  /\ Votable(s) => ~VotingPanics(s)
                      /\ Computable(s) => ~AdoptionPanics(s)
    BY Zenon DEF NeverPanics
  <2>1. IsAncestorOrSelf(tower.root, s)
    <3>1. /\ IsAncestorOrSelf(bankRoot, tower.root) /\ IsAncestorOrSelf(bankRoot, s)
          /\ Blocks \in SUBSET Slot /\ ancestors \in [Blocks -> SUBSET Blocks]
          /\ ChainsOf(Blocks, ancestors) /\ tower.root \in Blocks
      BY TreeFacts, Zenon DEF BInv, IInv, TypeOK, TowerOver
    <3>2. CASE bankRoot = tower.root
      BY <3>1, <3>2
    <3>3. CASE bankRoot \in ancestors[tower.root]
      <4>1. bankRoot < tower.root /\ bankRoot \in Nat /\ tower.root \in Nat
        BY <3>1, <3>3, Zenon DEF ChainsOf, Slot
      <4> QED BY <4>1
    <3> QED BY <3>1, <3>2, <3>3, Zenon DEF IsAncestorOrSelf
  <2> QED BY <2>1, VotingSafe, AdoptionSafe, Zenon
<1> QED BY <1>1, Invariance, ForkInvariance, BankForksInvariance, PTL
=============================================================================
