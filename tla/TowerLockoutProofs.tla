------------------------ MODULE TowerLockoutProofs ------------------------
(***************************************************************************)
(* What a validator that keeps its tower file promises, for every tree of  *)
(* blocks, lockout and number of crashes: its votes on the wire honour one *)
(* another's lockouts, the vote program accepts them and their roots are   *)
(* rooted.                                                                 *)
(***************************************************************************)
EXTENDS TowerProofs

(* The votes on their way to the network: the tower file, then the queue.  *)
VoteAt(i) == IF i = 0 THEN saved ELSE voteQueue[i].vote

(* The invariant behind what the tower file is for.  As long as it is not  *)
(* lost, the towers on the wire, in the file, in the queue and in memory   *)
(* continue one another in that order; only the last one queued is queued  *)
(* again by a refresh, the head of the queue is in the file when it is     *)
(* sent, the blockstore has the root of the tower, and the vote account    *)
(* only holds what was sent.                                               *)
LInv ==
  /\ \A b \in Blocks : b < HISTORY
  /\ ~fileLost =>
       /\ \A i \in DOMAIN voteQueue :
            /\ Continues(VoteAt(i - 1), VoteAt(i), ancestors)
            /\ voteQueue[i].op = "RefreshVote" => VoteAt(i) = VoteAt(i - 1)
       /\ stored => voteQueue # <<>> /\ saved = VoteAt(1)
       /\ ~up => voteQueue = <<>>
       /\ \A t \in sent :
            /\ t.votes # <<>> /\ Continues(t, saved, ancestors)
            /\ \A u \in sent : \/ Continues(t, u, ancestors)
                               \/ Continues(u, t, ancestors)
       /\ \A b \in Blocks : onChain[b] \in sent \cup {EmptyVoteState}
       /\ up =>
            /\ \A i \in 0..Len(voteQueue) :
                 /\ Continues(VoteAt(i), tower, ancestors)
                 /\ tower.votes # <<>> =>
                      LastVotedSlot(VoteAt(i)) <= LastVotedSlot(tower)
            /\ lastVote.votes = <<>> \/ lastVote = VoteAt(Len(voteQueue))
            /\ bsRoot = tower.root

(* At genesis nothing has been voted. *)
LEMMA InitLInv == Init => LInv
<1> SUFFICES ASSUME Init PROVE LInv
  OBVIOUS
<1>1. /\ Blocks = {0} /\ Len(voteQueue) = 0 /\ voteQueue = <<>> /\ ~stored /\ up
      /\ saved = EmptyVoteState /\ sent = {} /\ onChain[0] = EmptyVoteState
      /\ tower.votes = <<>> /\ tower.root = 0 /\ bsRoot = 0
      /\ lastVote.votes = <<>> /\ DOMAIN voteQueue = {}
  BY DEF Init, Blocks, EmptyVoteState
<1>2. Continues(saved, tower, ancestors)
  BY <1>1, InitIInv, EmptyContinues, Zenon DEF IInv, TypeOK
<1>3. \A i \in 0..Len(voteQueue) : VoteAt(i) = saved
  BY <1>1 DEF VoteAt
<1>4. 0 < HISTORY
  BY TowerAssumption
<1> QED BY <1>1, <1>2, <1>3, <1>4, Zenon DEF LInv

(* The towers that LInv speaks of name blocks only. *)
LEMMA LineTowers ==
  ASSUME IInv, FInv
  PROVE  /\ \A i \in 0..Len(voteQueue) : /\ TowerOver(VoteAt(i), Blocks)
                                        /\ OnOneFork(VoteAt(i), ancestors)
         /\ DOMAIN voteQueue = 1..Len(voteQueue) /\ Len(voteQueue) \in Nat
         /\ \A i \in DOMAIN voteQueue : /\ i - 1 \in 0..Len(voteQueue)
                                       /\ i \in 0..Len(voteQueue) /\ i # 0
                                       /\ VoteAt(i) = voteQueue[i].vote
<1>1. voteQueue \in Seq(VoteOp)
  BY DEF IInv, TypeOK
<1>2. /\ DOMAIN voteQueue = 1..Len(voteQueue) /\ Len(voteQueue) \in Nat
      /\ \A i \in DOMAIN voteQueue : /\ i - 1 \in 0..Len(voteQueue)
                                    /\ i \in 0..Len(voteQueue) /\ i # 0
      /\ \A i \in 0..Len(voteQueue) : i = 0 \/ i \in DOMAIN voteQueue
  BY <1>1
<1>3. ASSUME NEW i \in 0..Len(voteQueue)
      PROVE  TowerOver(VoteAt(i), Blocks) /\ OnOneFork(VoteAt(i), ancestors)
  <2>1. CASE i = 0
    BY <2>1, Zenon DEF VoteAt, IInv, FInv
  <2>2. CASE i # 0
    BY <1>2, <2>2, Zenon DEF VoteAt, IInv, FInv
  <2> QED BY <2>1, <2>2
<1> QED BY <1>2, <1>3, Zenon DEF VoteAt

(* Nothing of this changes with a new block, whose vote account is the one *)
(* of its parent or a vote that was sent.                                  *)
LEMMA ReplayBankLInv ==
  ASSUME \A e \in BlockTree : e[1] < HISTORY,
         IInv, FInv, LInv, NEW s, NEW p, NEW t \in sent \cup {EmptyVoteState},
         ReplayBank(s, p, t)
  PROVE  LInv'
<1> USE Zenon
<1> DEFINE new == ProcessTowerSync(onChain[p], t, ancestors[p] \cup {p})
<1>1. /\ p \in Blocks /\ s \notin Blocks /\ Blocks \in SUBSET Slot
      /\ <<s, p>> \in BlockTree
  BY TreeFacts DEF ReplayBank
<1>2. /\ Blocks' = Blocks \cup {s}
      /\ \A b \in Blocks : ancestors'[b] = ancestors[b]
      /\ onChain'[s] = new /\ \A b \in Blocks : onChain'[b] = onChain[b]
      /\ UNCHANGED <<tower, lastVote, voteQueue, stored, sent, saved, bsRoot,
                     fileLost, up>>
  BY <1>1, SMT DEF ReplayBank, disk, Blocks
<1>3. \A a, b : TowerOver(b, Blocks) /\ Continues(a, b, ancestors)
                 => Continues(a, b, ancestors')
  BY <1>2, ContinuesAgree
<1>4. s < HISTORY
  <2>1. <<s, p>>[1] = s
    BY SMT
  <2> QED BY <1>1, <2>1
<1>5. new = onChain[p] \/ new \in sent
  BY NewAccount
<1> HIDE DEF new
<1>6. \A i : VoteAt(i)' = VoteAt(i)
  BY <1>2 DEF VoteAt
<1>7. /\ \A i \in 0..Len(voteQueue) : TowerOver(VoteAt(i), Blocks)
      /\ \A i \in DOMAIN voteQueue : i \in 0..Len(voteQueue)
      /\ TowerOver(tower, Blocks) /\ TowerOver(saved, Blocks)
      /\ \A x \in sent : TowerOver(x, Blocks)
  BY LineTowers DEF IInv
<1>8. \A b \in Blocks' : b < HISTORY
  BY <1>2, <1>4 DEF LInv
<1>9. ASSUME ~fileLost
      PROVE  \A b \in Blocks' : onChain'[b] \in sent' \cup {EmptyVoteState}
  BY <1>1, <1>2, <1>5, <1>9 DEF LInv
<1>10. ASSUME ~fileLost
      PROVE  /\ \A i \in DOMAIN voteQueue :
                  Continues(VoteAt(i - 1), VoteAt(i), ancestors')
             /\ \A x \in sent :
                  /\ Continues(x, saved, ancestors')
                  /\ \A u \in sent : \/ Continues(x, u, ancestors')
                                      \/ Continues(u, x, ancestors')
             /\ up => \A i \in 0..Len(voteQueue) : Continues(VoteAt(i), tower, ancestors')
  BY <1>3, <1>7, <1>10 DEF LInv
<1> QED BY <1>2, <1>6, <1>8, <1>9, <1>10 DEF LInv

(* While the file is kept, an account ahead of the tower only has votes    *)
(* that the tower has rooted: adopting it changes nothing.                 *)
LEMMA AdoptionIdle ==
  ASSUME IInv, FInv, BInv, LInv, ~fileLost, up, NEW b \in banks, Behind(b)
  PROVE  AdoptedTower(b) = tower /\ tower.votes = <<>>
<1> DEFINE c == onChain[b]
<1>1. /\ Blocks \in SUBSET Slot /\ b \in Blocks /\ ChainsOf(Blocks, ancestors)
      /\ TowerOver(c, Blocks) /\ OnOneFork(c, ancestors)
      /\ TowerOver(tower, Blocks) /\ tower \in VoteState
      /\ TowerOver(saved, Blocks) /\ OnOneFork(saved, ancestors)
  BY TreeFacts, Zenon DEF IInv, FInv, TowerOver
<1>2. c.votes # <<>> /\ c \in sent
  BY <1>1, AheadAccount DEF LInv, EmptyVoteState
<1>3. Continues(c, saved, ancestors) /\ VoteAt(0) = saved /\ 0 \in 0..Len(voteQueue)
  BY <1>2, LineTowers DEF LInv, VoteAt
<1>4. /\ Continues(saved, tower, ancestors)
      /\ tower.votes # <<>> => LastVotedSlot(saved) <= LastVotedSlot(tower)
  BY <1>3, Zenon DEF LInv
<1>5. Continues(c, tower, ancestors)
  BY <1>1, <1>3, <1>4, ContinuesTransitive, Zenon
<1>6. LastVotedSlot(c) > LastVotedSlot(tower)
  BY DEF Behind
<1> HIDE DEF c
<1>7. /\ LastVotedSlot(c) \in Int /\ LastVotedSlot(tower) \in Int /\ c.root \in Int
      /\ LastVotedSlot(saved) \in Int /\ tower.root \in Int
      /\ \A i \in DOMAIN c.votes : c.votes[i].slot \in Int /\ c.votes[i].slot <= LastVotedSlot(c)
  BY <1>1, NewestType, Zenon
<1>8. Newest(c) = LastVotedSlot(c) /\ c.root < LastVotedSlot(c)
  <2>1. Newest(c) = LastVotedSlot(c) /\ VotesAboveRoot(c)
    BY <1>1, <1>2, NewestIsLast, OnOneForkAbove, Zenon
  <2>2. Len(c.votes) \in DOMAIN c.votes /\ LastVotedSlot(c) = c.votes[Len(c.votes)].slot
    BY <1>1, <1>2, LastIsVote, Zenon
  <2>3. LastVotedSlot(c) > c.root
    BY <2>1, <2>2, Zenon DEF VotesAboveRoot
  <2> QED BY <1>7, <2>1, <2>3
<1>9. tower.votes = <<>>
  <2> SUFFICES ASSUME tower.votes # <<>> PROVE FALSE
    OBVIOUS
  <2>1. Newest(c) <= Newest(saved) /\ LastVotedSlot(saved) <= LastVotedSlot(tower)
    BY <1>3, <1>4, Zenon DEF Continues
  <2>2. CASE saved.votes # <<>>
    <3>1. Newest(saved) = LastVotedSlot(saved)
      BY <1>1, <2>2, NewestIsLast, Zenon
    <3> QED BY <1>6, <1>7, <1>8, <2>1, <3>1
  <2>3. CASE saved.votes = <<>>
    <3>1. saved.root = NoSlot
      BY <2>3, Zenon DEF FInv
    <3>2. Newest(saved) = LastVotedSlot(saved)
      BY <2>3, <3>1 DEF Newest, LastVotedSlot
    <3> QED BY <1>6, <1>7, <1>8, <2>1, <3>2
  <2> QED BY <2>2, <2>3
<1>10. LastVotedSlot(c) <= tower.root
  <2>1. LastVotedSlot(tower) = NoSlot
    BY <1>9 DEF LastVotedSlot
  <2>2. tower.root \in Nat
    BY <1>1, TowerSlots, Zenon DEF IInv, TypeOK
  <2>3. Newest(tower) = tower.root
    BY <2>1, <2>2 DEF Newest, NoSlot
  <2> QED BY <1>5, <1>8, <2>3, Zenon DEF Continues
<1>11. tower.root > c.root
  BY <1>7, <1>8, <1>10
<1> DEFINE w == RetainAbove(c.votes, tower.root)
<1>12. AdoptedTower(b) = [votes |-> w, root |-> tower.root]
  BY <1>11 DEF AdoptedTower, c
<1>13. w = <<>>
  <2>1. /\ c.votes \in Seq(Lockout) /\ WellFormedVotes(c.votes)
        /\ tower.root \in Slot \cup {NoSlot}
    BY <1>1, Zenon DEF TowerOver, VoteState
  <2>2. /\ w \in Seq(Lockout) /\ \A i \in DOMAIN w : w[i].slot > tower.root
        /\ \A i \in DOMAIN w : \E j \in DOMAIN c.votes : w[i] = c.votes[j]
    BY <2>1, RetainAboveWellFormed
  <2> HIDE DEF w
  <2>3. ASSUME NEW i \in DOMAIN w PROVE FALSE
    <3>1. PICK j \in DOMAIN c.votes : w[i] = c.votes[j]
      BY <2>2
    <3>2. c.votes[j].slot \in Int /\ c.votes[j].slot <= LastVotedSlot(c)
      BY <1>7, Zenon
    <3>3. c.votes[j].slot > tower.root
      BY <2>2, <3>1, Zenon
    <3> QED BY <1>7, <1>10, <3>2, <3>3
  <2>4. DOMAIN w = {}
    BY <2>3, Zenon
  <2> QED BY <2>2, <2>4
<1> HIDE DEF w
<1> QED BY <1>1, <1>9, <1>12, <1>13 DEF VoteState

(* An adopted tower continues what was sent. *)
LEMMA ComputeBankStatsLInv ==
  ASSUME IInv, FInv, BInv, LInv, NEW b \in banks, ComputeBankStats(b)
  PROVE  LInv'
<1>1. /\ up /\ Blocks' = Blocks
      /\ tower' = (IF Behind(b) THEN AdoptedTower(b) ELSE tower)
      /\ lastVote' = (IF Behind(b) THEN AdoptedTower(b) ELSE lastVote)
      /\ UNCHANGED <<ancestors, onChain, voteQueue, stored, sent, saved, bsRoot,
                     fileLost, up>>
  BY DEF ComputeBankStats, Computable, chain, disk, Blocks
<1>2. ~fileLost => tower' = tower /\ (lastVote' = lastVote \/ lastVote'.votes = <<>>)
  BY <1>1, AdoptionIdle, Zenon
<1>3. \A i : VoteAt(i)' = VoteAt(i)
  BY <1>1, Zenon DEF VoteAt
<1> QED BY <1>1, <1>2, <1>3, Zenon DEF LInv

(* What pushing a vote to the queue does to the line. *)
LEMMA AppendLine ==
  ASSUME voteQueue \in Seq(VoteOp), NEW op \in VoteOp,
         voteQueue' = Append(voteQueue, op), saved' = saved
  PROVE  /\ Len(voteQueue) \in Nat /\ Len(voteQueue') = Len(voteQueue) + 1
         /\ \A i \in 0..Len(voteQueue) : VoteAt(i)' = VoteAt(i)
         /\ \A n : n = Len(voteQueue) + 1 => VoteAt(n)' = op.vote
         /\ \A i \in DOMAIN voteQueue' :
              \/ /\ i \in DOMAIN voteQueue /\ voteQueue'[i] = voteQueue[i]
                 /\ i \in 0..Len(voteQueue) /\ i - 1 \in 0..Len(voteQueue)
              \/ i = Len(voteQueue) + 1 /\ voteQueue'[i] = op /\ i - 1 = Len(voteQueue)
         /\ \A i \in 0..Len(voteQueue') :
              i \in 0..Len(voteQueue) \/ i = Len(voteQueue) + 1
         /\ voteQueue' # <<>>
<1>1. /\ Len(voteQueue) \in Nat /\ DOMAIN voteQueue = 1..Len(voteQueue)
      /\ Len(voteQueue') = Len(voteQueue) + 1 /\ DOMAIN voteQueue' = 1..Len(voteQueue')
      /\ \A i \in 1..Len(voteQueue) : voteQueue'[i] = voteQueue[i]
      /\ voteQueue'[Len(voteQueue) + 1] = op
  OBVIOUS
<1>2. \A i \in 0..Len(voteQueue) : i # 0 => i \in 1..Len(voteQueue)
  BY <1>1
<1>3. \A i \in 0..Len(voteQueue) : VoteAt(i)' = VoteAt(i)
  BY <1>1, <1>2, Zenon DEF VoteAt
<1>4. Len(voteQueue) + 1 # 0
  BY <1>1
<1>5. \A n : n = Len(voteQueue) + 1 => VoteAt(n)' = op.vote
  BY <1>1, <1>4, Zenon DEF VoteAt
<1>6. /\ \A i \in DOMAIN voteQueue' :
           \/ /\ i \in DOMAIN voteQueue /\ i \in 1..Len(voteQueue)
              /\ i \in 0..Len(voteQueue) /\ i - 1 \in 0..Len(voteQueue)
           \/ i = Len(voteQueue) + 1 /\ i - 1 = Len(voteQueue)
      /\ \A i \in 0..Len(voteQueue') :
           i \in 0..Len(voteQueue) \/ i = Len(voteQueue) + 1
  BY <1>1
<1>7. voteQueue' # <<>>
  BY <1>1
<1> QED BY <1>1, <1>3, <1>5, <1>6, <1>7, Zenon

(* The new vote continues the tower it was recorded in: its slot descends  *)
(* from the new root, which descends from the old one.                     *)
LEMMA VoteContinues ==
  ASSUME IInv, FInv, BInv, NEW s \in banks, NEW tx \in BOOLEAN,
         HandleVotableBank(s, tx)
  PROVE  LET w == ProcessNextVoteSlot(tower, s) IN
         /\ Continues(tower, w, ancestors) /\ LastVotedSlot(w) = s
         /\ Newest(w) = s /\ w.votes # <<>> /\ TowerOver(w, Blocks)
<1> USE Zenon
<1> DEFINE w == ProcessNextVoteSlot(tower, s)
<1>1. /\ Blocks \in SUBSET Slot /\ ancestors \in [Blocks -> SUBSET Blocks]
      /\ s \in Blocks /\ ChainsOf(Blocks, ancestors)
      /\ TowerOver(tower, Blocks) /\ tower.root # NoSlot
  BY TreeFacts DEF IInv, TypeOK
<1>2. Votable(s) /\ ~VotingPanics(s)
  BY SMT DEF HandleVotableBank
<1>3. /\ w = PushVote(tower, s) /\ s > LastVotedSlot(tower)
      /\ LastVotedSlot(w) = s /\ TowerOver(w, Blocks) /\ w.root # NoSlot
      /\ w.votes # <<>>
  BY <1>2, VotableBank
<1>4. IsAncestorOrSelf(tower.root, w.root)
  BY <1>2, NewRootDescends
<1>5. OnOneFork(w, ancestors)
  <2>1. lastVote' = w /\ ancestors' = ancestors
    BY SMT DEF HandleVotableBank, chain
  <2> QED BY <2>1, HandleVotableBankFInv DEF FInv
<1> HIDE DEF w
<1>6. w.root \in ancestors[s]
  BY <1>1, <1>3, <1>5, LastIsVote DEF OnOneFork
<1>7. s > Newest(tower)
  <2>1. tower.root \in ancestors[s]
    BY <1>1, <1>4, <1>6 DEF IsAncestorOrSelf, ChainsOf
  <2>2. tower.root < s
    BY <1>1, <2>1 DEF ChainsOf
  <2>3. tower.root \in Int /\ LastVotedSlot(tower) \in Int
    BY <1>1, NewestType
  <2>4. s \in Int
    BY <1>1, SMT DEF Slot
  <2> QED BY <1>3, <2>2, <2>3, <2>4, SMT DEF Newest
<1>8. AncestorOrSelf(tower.root, w.root, ancestors)
  BY <1>4 DEF AncestorOrSelf, IsAncestorOrSelf
<1>9. Continues(tower, w, ancestors)
  BY <1>1, <1>3, <1>7, <1>8, PushContinues
<1>10. Newest(w) = s
  BY <1>1, <1>3, <1>5, NewestIsLast
<1> QED BY <1>3, <1>9, <1>10 DEF w

(* A new vote continues the one before it. *)
LEMMA HandleVotableBankLInv ==
  ASSUME IInv, FInv, BInv, LInv, NEW s \in banks, HandleVotableBank(s, TRUE)
  PROVE  LInv'
<1> USE Zenon
<1> DEFINE t == ProcessNextVoteSlot(tower, s)
           op == [op |-> "PushVote", vote |-> t]
<1>1. /\ up /\ tower' = t /\ lastVote' = t /\ Blocks' = Blocks
      /\ bsRoot' = IF t.root = tower.root THEN bsRoot ELSE t.root
      /\ voteQueue' = Append(voteQueue, op)
      /\ UNCHANGED <<ancestors, onChain, stored, saved, sent, up, fileLost>>
  BY SMT DEF HandleVotableBank, Votable, chain, Blocks
<1>2. /\ Continues(tower, t, ancestors) /\ LastVotedSlot(t) = s /\ Newest(t) = s
      /\ t.votes # <<>> /\ TowerOver(t, Blocks)
  BY VoteContinues
<1>3. /\ voteQueue \in Seq(VoteOp) /\ Blocks \in SUBSET Slot
      /\ ChainsOf(Blocks, ancestors) /\ TowerOver(tower, Blocks)
      /\ \A i \in 0..Len(voteQueue) : TowerOver(VoteAt(i), Blocks)
  BY LineTowers, TreeFacts DEF IInv, TypeOK
<1> HIDE DEF t
<1>4. op \in VoteOp /\ op.vote = t /\ op.op = "PushVote"
  BY <1>2, SMT DEF VoteOp, TowerOver
<1> HIDE DEF op
<1>5. /\ Len(voteQueue) \in Nat /\ Len(voteQueue') = Len(voteQueue) + 1
      /\ \A i \in 0..Len(voteQueue) : VoteAt(i)' = VoteAt(i)
      /\ \A n : n = Len(voteQueue) + 1 => VoteAt(n)' = t
      /\ \A i \in DOMAIN voteQueue' :
           \/ /\ i \in DOMAIN voteQueue /\ voteQueue'[i] = voteQueue[i]
              /\ i \in 0..Len(voteQueue) /\ i - 1 \in 0..Len(voteQueue)
           \/ i = Len(voteQueue) + 1 /\ voteQueue'[i] = op /\ i - 1 = Len(voteQueue)
      /\ \A i \in 0..Len(voteQueue') :
           i \in 0..Len(voteQueue) \/ i = Len(voteQueue) + 1
      /\ voteQueue' # <<>>
  BY <1>1, <1>3, <1>4, AppendLine
<1>6. Len(voteQueue) \in 0..Len(voteQueue) /\ 0 \in 0..Len(voteQueue)
  BY <1>5, SMT
<1>7. \A b \in Blocks' : b < HISTORY
  BY <1>1 DEF LInv
<1> SUFFICES ASSUME ~fileLost PROVE LInv'
  BY <1>1, <1>7 DEF LInv
<1>8. ASSUME NEW i \in 0..Len(voteQueue)
      PROVE  /\ Continues(VoteAt(i), t, ancestors)
             /\ LastVotedSlot(VoteAt(i)) <= LastVotedSlot(t)
  <2>1. Continues(VoteAt(i), tower, ancestors) /\ TowerOver(VoteAt(i), Blocks)
    BY <1>1, <1>3 DEF LInv
  <2>2. Continues(VoteAt(i), t, ancestors)
    BY <1>2, <1>3, <2>1, ContinuesTransitive
  <2>3. Newest(VoteAt(i)) <= s
    BY <1>2, <2>2 DEF Continues
  <2>4. /\ LastVotedSlot(VoteAt(i)) \in Int /\ Newest(VoteAt(i)) \in Int
        /\ Newest(VoteAt(i)) >= LastVotedSlot(VoteAt(i)) /\ Newest(t) \in Int
    BY <1>2, <1>3, <2>1, NewestType
  <2>5. LastVotedSlot(VoteAt(i)) <= s
    BY <1>2, <2>3, <2>4, SMT
  <2> QED BY <1>2, <2>2, <2>5
<1>9. ASSUME NEW i \in DOMAIN voteQueue'
      PROVE  /\ Continues(VoteAt(i - 1), VoteAt(i), ancestors)'
             /\ voteQueue'[i].op = "RefreshVote" => VoteAt(i)' = VoteAt(i - 1)'
  <2>1. CASE /\ i \in DOMAIN voteQueue /\ voteQueue'[i] = voteQueue[i]
             /\ i \in 0..Len(voteQueue) /\ i - 1 \in 0..Len(voteQueue)
    <3>1. VoteAt(i)' = VoteAt(i) /\ VoteAt(i - 1)' = VoteAt(i - 1)
      BY <1>5, <2>1
    <3>2. /\ Continues(VoteAt(i - 1), VoteAt(i), ancestors)
          /\ voteQueue[i].op = "RefreshVote" => VoteAt(i) = VoteAt(i - 1)
      BY <2>1 DEF LInv
    <3> QED BY <1>1, <2>1, <3>1, <3>2
  <2>2. CASE i = Len(voteQueue) + 1 /\ voteQueue'[i] = op /\ i - 1 = Len(voteQueue)
    <3>1. VoteAt(i)' = t /\ VoteAt(i - 1)' = VoteAt(i - 1)
      BY <1>5, <1>6, <2>2
    <3>2. Continues(VoteAt(i - 1), t, ancestors)
      BY <1>6, <1>8, <2>2
    <3>3. voteQueue'[i].op # "RefreshVote"
      BY <1>4, <2>2, SMT
    <3> QED BY <1>1, <3>1, <3>2, <3>3
  <2> QED BY <1>5, <2>1, <2>2
<1>10. ASSUME NEW i \in 0..Len(voteQueue')
       PROVE  /\ Continues(VoteAt(i), tower, ancestors)'
              /\ LastVotedSlot(VoteAt(i))' <= LastVotedSlot(tower')
  <2>1. CASE i \in 0..Len(voteQueue)
    BY <1>1, <1>5, <1>8, <2>1
  <2>2. CASE i = Len(voteQueue) + 1
    <3>1. VoteAt(i)' = t /\ Continues(t, t, ancestors)
      BY <1>2, <1>3, <1>5, <2>2, ContinuesReflexive
    <3>2. LastVotedSlot(t) <= LastVotedSlot(t)
      <4>1. LastVotedSlot(t) \in Int
        BY <1>2, <1>3, NewestType
      <4> QED BY <4>1, SMT
    <3> QED BY <1>1, <3>1, <3>2
  <2> QED BY <1>5, <2>1, <2>2
<1>11. lastVote' = VoteAt(Len(voteQueue))'
  BY <1>1, <1>5
<1>12. stored => voteQueue' # <<>> /\ saved' = VoteAt(1)'
  <2> SUFFICES ASSUME stored PROVE saved' = VoteAt(1)'
    BY <1>5
  <2>1. voteQueue # <<>> /\ saved = VoteAt(1)
    BY DEF LInv
  <2>2. 1 \in 0..Len(voteQueue)
    BY <1>3, <2>1, SMT
  <2> QED BY <1>1, <1>5, <2>1, <2>2
<1>13. bsRoot' = tower'.root
  BY <1>1 DEF LInv
<1> QED BY <1>1, <1>7, <1>9, <1>10, <1>11, <1>12, <1>13 DEF LInv

(* A refresh queues the last vote, the last one in the queue, once more. *)
LEMMA RefreshLastVoteLInv ==
  ASSUME IInv, FInv, LInv, NEW b \in banks, RefreshLastVote(b)
  PROVE  LInv'
<1> USE Zenon
<1> DEFINE op == [op |-> "RefreshVote", vote |-> lastVote]
<1>1. /\ up /\ voteQueue' = Append(voteQueue, op) /\ Blocks' = Blocks
      /\ LastVotedSlot(lastVote) \in banks
      /\ UNCHANGED <<ancestors, onChain, tower, lastVote, stored, sent, saved,
                     bsRoot, fileLost, up>>
  BY SMT DEF RefreshLastVote, chain, disk, Blocks
<1>2. /\ voteQueue \in Seq(VoteOp) /\ banks \subseteq Nat /\ op \in VoteOp
      /\ op.vote = lastVote
  BY SMT DEF IInv, TypeOK, Slot, VoteOp
<1>3. lastVote.votes # <<>>
  BY <1>1, <1>2, SMT DEF LastVotedSlot, NoSlot
<1> HIDE DEF op
<1>4. /\ Len(voteQueue) \in Nat /\ Len(voteQueue') = Len(voteQueue) + 1
      /\ \A i \in 0..Len(voteQueue) : VoteAt(i)' = VoteAt(i)
      /\ \A n : n = Len(voteQueue) + 1 => VoteAt(n)' = lastVote
      /\ \A i \in DOMAIN voteQueue' :
           \/ /\ i \in DOMAIN voteQueue /\ voteQueue'[i] = voteQueue[i]
              /\ i \in 0..Len(voteQueue) /\ i - 1 \in 0..Len(voteQueue)
           \/ i = Len(voteQueue) + 1 /\ i - 1 = Len(voteQueue)
      /\ \A i \in 0..Len(voteQueue') :
           i \in 0..Len(voteQueue) \/ i = Len(voteQueue) + 1
      /\ voteQueue' # <<>>
  BY <1>1, <1>2, AppendLine
<1>5. Len(voteQueue) \in 0..Len(voteQueue)
  BY <1>4, SMT
<1>6. \A x \in Blocks' : x < HISTORY
  BY <1>1 DEF LInv
<1> SUFFICES ASSUME ~fileLost PROVE LInv'
  BY <1>1, <1>6 DEF LInv
<1>7. lastVote = VoteAt(Len(voteQueue)) /\ TowerOver(lastVote, Blocks)
      /\ Blocks \in SUBSET Slot
  BY <1>1, <1>3, TreeFacts DEF LInv, IInv
<1>8. ASSUME NEW i \in DOMAIN voteQueue'
      PROVE  /\ Continues(VoteAt(i - 1), VoteAt(i), ancestors)'
             /\ voteQueue'[i].op = "RefreshVote" => VoteAt(i)' = VoteAt(i - 1)'
  <2>1. CASE /\ i \in DOMAIN voteQueue /\ voteQueue'[i] = voteQueue[i]
             /\ i \in 0..Len(voteQueue) /\ i - 1 \in 0..Len(voteQueue)
    <3>1. VoteAt(i)' = VoteAt(i) /\ VoteAt(i - 1)' = VoteAt(i - 1)
      BY <1>4, <2>1
    <3>2. /\ Continues(VoteAt(i - 1), VoteAt(i), ancestors)
          /\ voteQueue[i].op = "RefreshVote" => VoteAt(i) = VoteAt(i - 1)
      BY <2>1 DEF LInv
    <3> QED BY <1>1, <2>1, <3>1, <3>2
  <2>2. CASE i = Len(voteQueue) + 1 /\ i - 1 = Len(voteQueue)
    <3>1. VoteAt(i)' = lastVote /\ VoteAt(i - 1)' = lastVote
      BY <1>4, <1>5, <1>7, <2>2
    <3>2. Continues(lastVote, lastVote, ancestors)
      BY <1>7, ContinuesReflexive
    <3> QED BY <1>1, <3>1, <3>2
  <2> QED BY <1>4, <2>1, <2>2
<1>9. ASSUME NEW i \in 0..Len(voteQueue')
      PROVE  /\ Continues(VoteAt(i), tower, ancestors)'
             /\ tower'.votes # <<>> => LastVotedSlot(VoteAt(i))' <= LastVotedSlot(tower')
  <2>1. PICK j \in 0..Len(voteQueue) : VoteAt(i)' = VoteAt(j)
    BY <1>4, <1>5, <1>7
  <2>2. /\ Continues(VoteAt(j), tower, ancestors)
        /\ tower.votes # <<>> => LastVotedSlot(VoteAt(j)) <= LastVotedSlot(tower)
    BY <1>1 DEF LInv
  <2> QED BY <1>1, <2>1, <2>2
<1>10. lastVote' = VoteAt(Len(voteQueue))'
  BY <1>1, <1>4
<1>11. stored => voteQueue' # <<>> /\ saved' = VoteAt(1)'
  <2> SUFFICES ASSUME stored PROVE saved' = VoteAt(1)'
    BY <1>4
  <2>1. voteQueue # <<>> /\ saved = VoteAt(1)
    BY DEF LInv
  <2>2. 1 \in 0..Len(voteQueue)
    BY <1>2, <2>1, SMT
  <2> QED BY <1>1, <1>4, <2>1, <2>2
<1> QED BY <1>1, <1>6, <1>8, <1>9, <1>10, <1>11 DEF LInv

(* The file takes the place of the head of the queue in the line. *)
LEMMA StoreTowerLInv == ASSUME IInv, FInv, LInv, StoreTower PROVE LInv'
<1> USE Zenon
<1>1. /\ up /\ voteQueue # <<>> /\ saved' = Head(voteQueue).vote /\ Blocks' = Blocks
      /\ Head(voteQueue).op = "PushVote" /\ stored' = TRUE
      /\ UNCHANGED <<ancestors, onChain, tower, lastVote, voteQueue, sent, bsRoot,
                     fileLost, up>>
  BY SMT DEF StoreTower, chain, Blocks
<1>2. /\ 1 \in DOMAIN voteQueue /\ Head(voteQueue) = voteQueue[1]
      /\ Len(voteQueue) # 0 /\ 1 \in 0..Len(voteQueue)
      /\ \A i \in DOMAIN voteQueue : i = 1 \/ i - 1 # 0
      /\ 1 - 1 = 0
  BY <1>1, SMT DEF IInv, TypeOK
<1>3. /\ VoteAt(0)' = VoteAt(1) /\ saved' = VoteAt(1) /\ VoteAt(0) = saved
      /\ \A i : i # 0 => VoteAt(i)' = VoteAt(i)
  BY <1>1, <1>2, SMT DEF VoteAt
<1>4. \A b \in Blocks' : b < HISTORY
  BY <1>1 DEF LInv
<1> SUFFICES ASSUME ~fileLost PROVE LInv'
  BY <1>1, <1>4 DEF LInv
<1>5. /\ Blocks \in SUBSET Slot /\ ChainsOf(Blocks, ancestors)
      /\ TowerOver(VoteAt(1), Blocks) /\ TowerOver(saved, Blocks)
      /\ \A t \in sent : TowerOver(t, Blocks)
      /\ \A i \in DOMAIN voteQueue : i # 0
  BY <1>2, TreeFacts, LineTowers DEF IInv
<1>6. Continues(saved, VoteAt(1), ancestors) /\ Continues(VoteAt(1), VoteAt(1), ancestors)
  BY <1>2, <1>3, <1>5, ContinuesReflexive DEF LInv
<1>7. ASSUME NEW i \in DOMAIN voteQueue
      PROVE  /\ Continues(VoteAt(i - 1), VoteAt(i), ancestors)'
             /\ voteQueue'[i].op = "RefreshVote" => VoteAt(i)' = VoteAt(i - 1)'
  <2>1. CASE i = 1
    <3>1. VoteAt(i)' = VoteAt(1) /\ VoteAt(i - 1)' = VoteAt(1)
      BY <1>2, <1>3, <2>1, SMT
    <3> QED BY <1>1, <1>6, <3>1
  <2>2. CASE i # 1
    <3>1. VoteAt(i)' = VoteAt(i) /\ VoteAt(i - 1)' = VoteAt(i - 1)
      BY <1>2, <1>3, <1>5, <2>2
    <3> QED BY <1>1, <3>1 DEF LInv
  <2> QED BY <2>1, <2>2, SMT
<1>8. \A t \in sent : Continues(t, saved', ancestors)
  <2>1. \A t \in sent : Continues(t, saved, ancestors)
    BY DEF LInv
  <2> QED BY <1>3, <1>5, <1>6, <2>1, ContinuesTransitive
<1>9. ASSUME NEW i \in 0..Len(voteQueue)
      PROVE  /\ Continues(VoteAt(i), tower, ancestors)'
             /\ tower'.votes # <<>> => LastVotedSlot(VoteAt(i))' <= LastVotedSlot(tower')
  <2>1. PICK j \in 0..Len(voteQueue) : VoteAt(i)' = VoteAt(j)
    BY <1>2, <1>3
  <2>2. /\ Continues(VoteAt(j), tower, ancestors)
        /\ tower.votes # <<>> => LastVotedSlot(VoteAt(j)) <= LastVotedSlot(tower)
    BY <1>1 DEF LInv
  <2> QED BY <1>1, <2>1, <2>2
<1>10. VoteAt(Len(voteQueue))' = VoteAt(Len(voteQueue)) /\ VoteAt(1)' = VoteAt(1)
  BY <1>1, <1>2, <1>3, SMT
<1> QED BY <1>1, <1>3, <1>4, <1>7, <1>8, <1>9, <1>10 DEF LInv

(* What is sent is what the file holds. *)
LEMMA SendVoteLInv == ASSUME IInv, FInv, LInv, SendVote PROVE LInv'
<1> USE Zenon
<1>1. /\ up /\ voteQueue # <<>> /\ sent' = sent \cup {Head(voteQueue).vote}
      /\ stored \/ Head(voteQueue).op = "RefreshVote"
      /\ voteQueue' = Tail(voteQueue) /\ stored' = FALSE /\ Blocks' = Blocks
      /\ UNCHANGED <<ancestors, onChain, tower, lastVote, saved, bsRoot, fileLost, up>>
  BY SMT DEF SendVote, chain, disk, Blocks
<1>2. voteQueue \in Seq(VoteOp)
  BY SMT DEF IInv, TypeOK
<1>3. /\ 1 \in DOMAIN voteQueue /\ Head(voteQueue) = voteQueue[1] /\ 1 - 1 = 0
      /\ Len(voteQueue) \in Nat /\ Len(voteQueue') = Len(voteQueue) - 1
      /\ \A i \in DOMAIN voteQueue' :
           /\ i \in Nat /\ i # 0 /\ i + 1 \in DOMAIN voteQueue
           /\ voteQueue'[i] = voteQueue[i + 1]
           /\ (i + 1) - 1 = i /\ (i - 1) + 1 = i
           /\ i \in 0..Len(voteQueue') /\ i - 1 \in 0..Len(voteQueue')
      /\ \A i \in 0..Len(voteQueue') : i + 1 \in 0..Len(voteQueue)
      /\ \A i \in 0..Len(voteQueue') : i = 0 \/ i \in DOMAIN voteQueue'
      /\ 0 + 1 = 1 /\ Len(voteQueue') + 1 = Len(voteQueue)
  BY <1>1, <1>2, SMT
<1>4. \A b \in Blocks' : b < HISTORY
  BY <1>1 DEF LInv
<1> SUFFICES ASSUME ~fileLost PROVE LInv'
  BY <1>1, <1>4 DEF LInv
<1>5. /\ VoteAt(1) = Head(voteQueue).vote /\ VoteAt(0) = saved
      /\ Head(voteQueue).vote.votes # <<>>
  BY <1>3, SMT DEF VoteAt, FInv
<1>6. VoteAt(1) = saved
  BY <1>1, <1>3, <1>5 DEF LInv
<1>7. \A i \in 0..Len(voteQueue') : VoteAt(i)' = VoteAt(i + 1)
  <2>1. VoteAt(0)' = VoteAt(0 + 1)
    BY <1>1, <1>3, <1>6, SMT DEF VoteAt
  <2>2. \A i \in DOMAIN voteQueue' : i + 1 # 0
    BY <1>3, SMT
  <2>3. \A i \in DOMAIN voteQueue' : VoteAt(i)' = VoteAt(i + 1)
    BY <1>3, <2>2 DEF VoteAt
  <2> QED BY <1>3, <2>1, <2>3
<1>8. /\ Blocks \in SUBSET Slot /\ TowerOver(saved, Blocks)
      /\ Continues(saved, saved, ancestors)
  BY TreeFacts, ContinuesReflexive DEF IInv
<1>9. ASSUME NEW i \in DOMAIN voteQueue'
      PROVE  /\ Continues(VoteAt(i - 1), VoteAt(i), ancestors)'
             /\ voteQueue'[i].op = "RefreshVote" => VoteAt(i)' = VoteAt(i - 1)'
  <2>1. VoteAt(i)' = VoteAt(i + 1) /\ VoteAt(i - 1)' = VoteAt((i + 1) - 1)
    <3>1. VoteAt(i - 1)' = VoteAt((i - 1) + 1) /\ (i - 1) + 1 = (i + 1) - 1
      BY <1>3, <1>7
    <3> QED BY <1>3, <1>7, <3>1
  <2>2. /\ Continues(VoteAt((i + 1) - 1), VoteAt(i + 1), ancestors)
        /\ voteQueue[i + 1].op = "RefreshVote" => VoteAt(i + 1) = VoteAt((i + 1) - 1)
    BY <1>3 DEF LInv
  <2> QED BY <1>1, <1>3, <2>1, <2>2
<1>10. ASSUME NEW i \in 0..Len(voteQueue')
       PROVE  /\ Continues(VoteAt(i), tower, ancestors)'
              /\ tower'.votes # <<>> => LastVotedSlot(VoteAt(i))' <= LastVotedSlot(tower')
  <2>1. PICK n \in 0..Len(voteQueue) : VoteAt(i)' = VoteAt(n)
    BY <1>3, <1>7, SMT
  <2>2. /\ Continues(VoteAt(n), tower, ancestors)
        /\ tower.votes # <<>> => LastVotedSlot(VoteAt(n)) <= LastVotedSlot(tower)
    BY <1>1 DEF LInv
  <2> QED BY <1>1, <2>1, <2>2
<1>11. lastVote'.votes = <<>> \/ lastVote' = VoteAt(Len(voteQueue))'
  <2>1. Len(voteQueue') \in 0..Len(voteQueue')
    BY <1>3, <1>1, <1>2, SMT
  <2>2. VoteAt(Len(voteQueue))' = VoteAt(Len(voteQueue))
    BY <1>3, <1>7, <2>1
  <2> QED BY <1>1, <2>2 DEF LInv
<1>12. sent' = sent \cup {saved}
  BY <1>1, <1>5, <1>6
<1>13. \A t \in sent' :
         /\ t.votes # <<>> /\ Continues(t, saved, ancestors)
         /\ \A u \in sent' : \/ Continues(t, u, ancestors)
                              \/ Continues(u, t, ancestors)
  <2>1. \A t \in sent :
          /\ t.votes # <<>> /\ Continues(t, saved, ancestors)
          /\ \A u \in sent : \/ Continues(t, u, ancestors)
                              \/ Continues(u, t, ancestors)
    BY DEF LInv
  <2>2. saved.votes # <<>>
    BY <1>5, <1>6
  <2> QED BY <1>8, <1>12, <2>1, <2>2
<1>14. \A b \in Blocks' : onChain'[b] \in sent' \cup {EmptyVoteState}
  BY <1>1 DEF LInv
<1> QED BY <1>1, <1>4, <1>9, <1>10, <1>11, <1>13, <1>14 DEF LInv

(* A crash that keeps the file keeps all that was sent. *)
LEMMA CrashLInv == ASSUME IInv, FInv, LInv, Crash PROVE LInv'
<1>1. /\ ~up' /\ voteQueue' = <<>> /\ ~stored' /\ Blocks' = Blocks
      /\ fileLost' = (fileLost \/ saved' # saved)
      /\ UNCHANGED <<ancestors, onChain, sent>>
  BY DEF Crash, chain, Blocks
<1>2. DOMAIN voteQueue' = {}
  BY <1>1
<1>3. ~fileLost' => ~fileLost /\ saved' = saved
  BY <1>1, Zenon
<1> QED BY <1>1, <1>2, <1>3, Zenon DEF LInv

(* The verdict of the slot history, n being its newest slot. *)
LEMMA CheckIs ==
  ASSUME NEW r \in Nat, NEW extra, NEW n \in extra \cup {r}, n \in Nat,
         \A x \in extra \cup {r} : x \in Nat /\ x <= n, NEW s \in Nat, n < HISTORY
  PROVE  Check(r, extra, s) = IF s > n THEN "Future"
                              ELSE IF IsAncestorOrSelf(s, r) \/ s \in extra THEN "Found"
                              ELSE "NotFound"
<1> USE Zenon
<1> DEFINE newest == CHOOSE m \in extra \cup {r} : \A x \in extra \cup {r} : x <= m
<1>1. newest \in extra \cup {r} /\ \A x \in extra \cup {r} : x <= newest
  <2>1. \E m \in extra \cup {r} : \A x \in extra \cup {r} : x <= m
    OBVIOUS
  <2> QED BY <2>1
<1>2. Check(r, extra, s) = IF s > newest THEN "Future"
                           ELSE IF s < newest + 1 - HISTORY THEN "TooOld"
                           ELSE IF IsAncestorOrSelf(s, r) \/ s \in extra THEN "Found"
                           ELSE "NotFound"
  BY DEF Check
<1> HIDE DEF newest
<1>3. newest \in Nat /\ newest <= n /\ n <= newest
  BY <1>1
<1>4. newest = n
  BY <1>3, SMT
<1>5. ~(s < n + 1 - HISTORY)
  BY TowerAssumption, SMT
<1> QED BY <1>2, <1>4, <1>5

(* What a restart makes of the saved tower, for a replayed root that is    *)
(* older than its root or descends from it: the tower fits, what is left   *)
(* of it is the top of the stack from the newest vote that r descends      *)
(* from, or all of it, and its root is the newer of the two.               *)
LEMMA RestoreSucceeds ==
  ASSUME IInv, FInv, \A b \in Blocks : b < HISTORY, saved.root # NoSlot,
         NEW r \in Blocks, saved.root > r \/ IsAncestorOrSelf(saved.root, r)
  PROVE  LET R == IF saved.root <= r THEN r ELSE saved.root IN
         /\ ~AdjustFails(saved, r)
         /\ \A k \in 1..Len(saved.votes) :
              CheckTower(saved, r, k) = "Found" => IsAncestorOrSelf(saved.votes[k].slot, R)
<1> DEFINE c(i) == CheckTower(saved, r, i)
           x(i) == SlotInTower(saved, i)
<1>1. /\ Blocks \in SUBSET Slot /\ ancestors \in [Blocks -> SUBSET Blocks]
      /\ ChainsOf(Blocks, ancestors) /\ TowerOver(saved, Blocks)
      /\ OnOneFork(saved, ancestors)
  BY TreeFacts, Zenon DEF IInv, FInv
<1>2. r \in Nat /\ r < HISTORY
  BY <1>1 DEF Slot
<1>3. /\ saved.root \in Blocks /\ saved.root \in Nat /\ Len(saved.votes) \in Nat
      /\ DOMAIN saved.votes = 1..Len(saved.votes)
      /\ \A i \in DOMAIN saved.votes : saved.votes[i].slot \in Nat
      /\ VotesAboveRoot(saved)
  BY <1>1, TowerSlots, OnOneForkAbove, Zenon
<1>4. saved.root < HISTORY
  BY <1>3, Zenon
<1>5. x(0) = saved.root /\ \A i \in 1..Len(saved.votes) : x(i) = saved.votes[i].slot
  BY DEF SlotInTower
<1>6. \A i \in 0..Len(saved.votes) : x(i) \in Nat /\ (i = 0 \/ i \in 1..Len(saved.votes))
  BY <1>3, <1>5
<1>7. ASSUME NEW j \in 0..Len(saved.votes), NEW i \in 0..Len(saved.votes), i < j
      PROVE  x(i) \in ancestors[x(j)] /\ x(i) < x(j)
  <2>1. j \in DOMAIN saved.votes /\ saved.votes # <<>> /\ x(j) = saved.votes[j].slot
        /\ (i = 0 \/ i \in 1..(j - 1)) /\ (i # 0 => i \in 1..Len(saved.votes))
    BY <1>3, <1>5, <1>7
  <2>2. x(i) \in ancestors[x(j)]
    BY <1>1, <1>5, <2>1, Zenon DEF OnOneFork
  <2>3. x(j) \in Blocks
    <3>1. saved.votes[j].slot \in Blocks
      BY <1>1, <2>1, TowerSlots, Zenon
    <3> QED BY <2>1, <3>1
  <2> QED BY <1>1, <2>2, <2>3, Zenon DEF ChainsOf
<1> HIDE DEF x
<1>8. CASE saved.root <= r
  <2>1. /\ \A i \in 0..Len(saved.votes) : c(i) = Check(r, {}, x(i))
    BY <1>8 DEF CheckTower, Warped, x
  <2>2. r \in {} \cup {r} /\ \A y \in {} \cup {r} : y \in Nat /\ y <= r
    BY <1>2
  <2>3. \A i \in 0..Len(saved.votes) :
          c(i) = IF x(i) > r THEN "Future"
                 ELSE IF IsAncestorOrSelf(x(i), r) \/ x(i) \in {} THEN "Found"
                 ELSE "NotFound"
    <3> TAKE i \in 0..Len(saved.votes)
    <3>1. Check(r, {}, x(i)) = IF x(i) > r THEN "Future"
            ELSE IF IsAncestorOrSelf(x(i), r) \/ x(i) \in {} THEN "Found" ELSE "NotFound"
      BY <1>2, <1>6, <2>2, CheckIs, Zenon
    <3> QED BY <2>1, <3>1
  <2> HIDE DEF c
  <2>4. IsAncestorOrSelf(saved.root, r)
    BY <1>2, <1>3, <1>8
  <2>5. c(0) = "Found" /\ 0 \in 0..Len(saved.votes)
    BY <1>2, <1>3, <1>5, <1>8, <2>3, <2>4
  <2>6. \A i \in 0..Len(saved.votes) :
          /\ c(i) # "TooOld" /\ (c(i) = "Found" => IsAncestorOrSelf(x(i), r))
          /\ (c(i) = "Future" <=> x(i) > r)
          /\ (IsAncestorOrSelf(x(i), r) /\ ~(x(i) > r) => c(i) = "Found")
    BY <2>3
  <2>7. ASSUME NEW i \in 0..Len(saved.votes), NEW j \in 0..Len(saved.votes), i < j
        PROVE  /\ ~(c(j) = "Found" /\ c(i) = "NotFound")
               /\ ~(c(j) # "Future" /\ c(i) = "Future")
    <3>1. x(i) \in ancestors[x(j)] /\ x(i) < x(j) /\ x(i) \in Nat /\ x(j) \in Nat
      BY <1>6, <1>7, <2>7, Zenon
    <3>2. c(j) # "Future" => ~(x(i) > r)
      BY <1>2, <2>6, <3>1
    <3>3. ASSUME c(j) = "Found" PROVE c(i) = "Found"
      <4>1. IsAncestorOrSelf(x(j), r)
        BY <2>6, <3>3, Zenon
      <4>2. IsAncestorOrSelf(x(i), r)
        BY <1>1, <3>1, <4>1, Zenon DEF IsAncestorOrSelf, ChainsOf
      <4> QED BY <2>6, <3>2, <3>3, <4>2
    <3> QED BY <2>6, <3>2, <3>3
  <2>8. ~AdjustFails(saved, r)
    <3>1. Len(saved.votes) \in 0..Len(saved.votes)
      BY <1>3
    <3> QED BY <2>5, <2>6, <2>7, <3>1, Zenon DEF AdjustFails, c
  <2>9. \A k \in 1..Len(saved.votes) : k \in 0..Len(saved.votes)
    BY <1>3
  <2> QED BY <1>5, <1>8, <2>6, <2>8, <2>9, Zenon DEF c
<1>9. CASE saved.root > r
  <2>0. ~(saved.root <= r)
    BY <1>2, <1>3, <1>9
  <2>1. \A i \in 0..Len(saved.votes) : c(i) = Check(r, {saved.root}, x(i))
    BY <2>0 DEF CheckTower, Warped, x
  <2>2. /\ saved.root \in {saved.root} \cup {r}
        /\ \A y \in {saved.root} \cup {r} : y \in Nat /\ y <= saved.root
    BY <1>2, <1>3, <1>9
  <2>3. \A i \in 0..Len(saved.votes) :
          c(i) = IF x(i) > saved.root THEN "Future"
                 ELSE IF IsAncestorOrSelf(x(i), r) \/ x(i) \in {saved.root} THEN "Found"
                 ELSE "NotFound"
    <3> TAKE i \in 0..Len(saved.votes)
    <3>1. Check(r, {saved.root}, x(i)) = IF x(i) > saved.root THEN "Future"
            ELSE IF IsAncestorOrSelf(x(i), r) \/ x(i) \in {saved.root} THEN "Found"
            ELSE "NotFound"
      <4> DEFINE q == saved.root
                 E == {saved.root}
      <4>1. /\ q \in E \cup {r} /\ q \in Nat /\ q < HISTORY
            /\ \A y \in E \cup {r} : y \in Nat /\ y <= q
        BY <1>3, <1>4, <2>2, Zenon
      <4>2. x(i) \in Nat
        BY <1>6, Zenon
      <4> HIDE DEF q, E
      <4>3. Check(r, E, x(i)) = IF x(i) > q THEN "Future"
              ELSE IF IsAncestorOrSelf(x(i), r) \/ x(i) \in E THEN "Found"
              ELSE "NotFound"
        BY <1>2, <4>1, <4>2, CheckIs, Zenon
      <4> QED BY <4>3 DEF q, E
    <3> QED BY <2>1, <3>1
  <2> HIDE DEF c
  <2>4. c(0) = "Found" /\ 0 \in 0..Len(saved.votes)
    BY <1>3, <1>5, <2>3
  <2>5. \A i \in 1..Len(saved.votes) : c(i) = "Future" /\ i \in 0..Len(saved.votes)
    <3>1. \A i \in 1..Len(saved.votes) : x(i) > saved.root
      BY <1>3, <1>5, Zenon DEF VotesAboveRoot
    <3>2. \A i \in 1..Len(saved.votes) : i \in 0..Len(saved.votes)
      BY <1>3
    <3> QED BY <2>3, <3>1, <3>2, Zenon
  <2>6. \A i, j \in 0..Len(saved.votes) : i < j => c(j) = "Future"
    <3>1. \A i, j \in 0..Len(saved.votes) : i < j => j \in 1..Len(saved.votes)
      BY <1>3
    <3> QED BY <2>5, <3>1, Zenon
  <2>7. ~AdjustFails(saved, r)
    BY <2>0, <2>4, <2>6 DEF AdjustFails, c
  <2>8. \A k \in 1..Len(saved.votes) : CheckTower(saved, r, k) # "Found"
    BY <2>5 DEF c
  <2> QED BY <2>7, <2>8, Zenon
<1> QED BY <1>2, <1>3, <1>8, <1>9

(* A restart with the file continues the tower in it. *)
LEMMA RestoredContinues ==
  ASSUME IInv, FInv, \A b \in Blocks : b < HISTORY, saved.root # NoSlot,
         NEW r \in Blocks, saved.root > r \/ IsAncestorOrSelf(saved.root, r)
  PROVE  LET w == AdjustLockoutsAfterReplay(saved, r) IN
         /\ ~AdjustFails(saved, r) /\ Continues(saved, w, ancestors)
         /\ w.votes # <<>> => LastVotedSlot(w) = LastVotedSlot(saved)
         /\ w.root = IF saved.root <= r THEN r ELSE saved.root
<1> USE Zenon
<1> DEFINE w == AdjustLockoutsAfterReplay(saved, r)
           R == IF saved.root <= r THEN r ELSE saved.root
<1>1. /\ Blocks \in SUBSET Slot /\ ChainsOf(Blocks, ancestors)
      /\ TowerOver(saved, Blocks) /\ OnOneFork(saved, ancestors)
      /\ saved.votes # <<>> /\ saved.root \in Blocks
  BY TreeFacts, TowerSlots DEF IInv, FInv
<1>2. /\ ~AdjustFails(saved, r)
      /\ \A k \in 1..Len(saved.votes) :
           CheckTower(saved, r, k) = "Found" => IsAncestorOrSelf(saved.votes[k].slot, R)
  BY RestoreSucceeds
<1>3. TowerOver(w, Blocks)
  BY <1>2, RestoredTowerOver
<1>4. PICK k \in 0..Len(saved.votes) :
        /\ w.votes = SubSeq(saved.votes, k + 1, Len(saved.votes))
        /\ k > 0 => CheckTower(saved, r, k) = "Found"
  BY <1>1, RestoredSuffix
<1>5. R \in Blocks /\ AncestorOrSelf(saved.root, R, ancestors)
  <2>1. r \in Int /\ saved.root \in Int
    <3>1. r \in Slot /\ saved.root \in Slot
      BY <1>1
    <3> QED BY <3>1, SMT DEF Slot
  <2>2. CASE saved.root <= r
    <3>1. IsAncestorOrSelf(saved.root, r)
      BY <2>1, <2>2, SMT
    <3> QED BY <2>2, <3>1, SMT DEF AncestorOrSelf, IsAncestorOrSelf
  <2>3. CASE ~(saved.root <= r)
    BY <1>1, <2>3 DEF AncestorOrSelf
  <2> QED BY <2>2, <2>3, SMT
<1>6. w.root = R
  BY DEF AdjustLockoutsAfterReplay
<1> HIDE DEF w, R
<1>7. k > 0 => AncestorOrSelf(saved.votes[k].slot, R, ancestors)
  <2>1. k > 0 => k \in 1..Len(saved.votes)
    BY <1>1, TowerSlots, SMT
  <2> QED BY <1>2, <1>4, <2>1 DEF AncestorOrSelf, IsAncestorOrSelf
<1>8. /\ Continues(saved, w, ancestors)
      /\ w.votes # <<>> => LastVotedSlot(w) = LastVotedSlot(saved)
  <2>1. w.root \in Blocks /\ AncestorOrSelf(saved.root, w.root, ancestors)
    BY <1>5, <1>6
  <2>2. k > 0 => AncestorOrSelf(saved.votes[k].slot, w.root, ancestors)
    BY <1>6, <1>7
  <2> QED BY <1>1, <1>3, <1>4, <2>1, <2>2, SuffixContinues, ZenonT(30)
<1> QED BY <1>2, <1>6, <1>8 DEF w, R

(* A restored tower continues what was sent before the crash. *)
LEMMA RestartLInv ==
  ASSUME IInv, FInv, LInv, NEW r \in Blocks, NEW h \in Blocks, Restart(r, h)
  PROVE  LInv'
<1> USE Zenon
<1> DEFINE restored == saved.root # NoSlot /\ ~AdjustFails(saved, r)
           adjusted == AdjustLockoutsAfterReplay(saved, r)
<1>1. /\ ~up /\ up' /\ Blocks' = Blocks
      /\ bsRoot' = ReconcileBlockstoreRoots(r)
      /\ tower' = IF restored THEN adjusted ELSE InitializeLockoutsFromBank(onChain[h], r)
      /\ lastVote' = IF restored /\ tower'.votes # <<>> THEN saved ELSE EmptyVoteState
      /\ saved.root \in 0..(r - 1) => saved.root \in ancestors[r]
      /\ UNCHANGED <<ancestors, onChain, voteQueue, stored, saved, sent, fileLost>>
  BY SMT DEF Restart, chain, Blocks
<1>2. /\ Blocks \in SUBSET Slot /\ ChainsOf(Blocks, ancestors)
      /\ TowerOver(saved, Blocks) /\ OnOneFork(saved, ancestors)
      /\ \A t \in sent : TowerOver(t, Blocks)
  BY TreeFacts DEF IInv, FInv
<1>3. r \in Nat /\ saved.root \in Int
  BY <1>2, SMT DEF Slot, TowerOver, VoteState, NoSlot
<1>4. \A b \in Blocks' : b < HISTORY
  BY <1>1 DEF LInv
<1> SUFFICES ASSUME ~fileLost PROVE LInv'
  BY <1>1, <1>4 DEF LInv
<1>5. voteQueue = <<>> /\ DOMAIN voteQueue = {} /\ Len(voteQueue) = 0
  <2>1. voteQueue = <<>>
    BY <1>1 DEF LInv
  <2> QED BY <2>1, SMT
<1>6. \A i \in 0..Len(voteQueue) : VoteAt(i)' = saved
  BY <1>1, <1>5, SMT DEF VoteAt
<1>7. /\ Continues(saved, tower', ancestors)
      /\ tower'.votes # <<>> => LastVotedSlot(saved) <= LastVotedSlot(tower')
      /\ lastVote' \in {saved, EmptyVoteState} /\ bsRoot' = tower'.root
  <2>1. CASE saved.root # NoSlot
    <3>1. saved.root > r \/ IsAncestorOrSelf(saved.root, r)
      <4>1. saved.root \in Nat
        BY <1>2, <2>1, TowerSlots
      <4> QED BY <1>1, <1>3, <4>1, SMT DEF IsAncestorOrSelf
    <3>2. /\ ~AdjustFails(saved, r) /\ Continues(saved, adjusted, ancestors)
          /\ adjusted.votes # <<>> => LastVotedSlot(adjusted) = LastVotedSlot(saved)
          /\ adjusted.root = IF saved.root <= r THEN r ELSE saved.root
      BY <2>1, <3>1, RestoredContinues DEF LInv
    <3>3. tower' = adjusted /\ lastVote' \in {saved, EmptyVoteState}
      BY <1>1, <2>1, <3>2
    <3> HIDE DEF adjusted
    <3>4. bsRoot' = tower'.root
      BY <1>1, <1>3, <3>2, <3>3, SMT DEF ReconcileBlockstoreRoots
    <3>5. LastVotedSlot(saved) <= LastVotedSlot(saved)
      <4>1. LastVotedSlot(saved) \in Int
        BY <1>2, NewestType
      <4> QED BY <4>1, SMT
    <3> QED BY <3>2, <3>3, <3>4, <3>5
  <2>2. CASE saved.root = NoSlot
    <3>1. saved.votes = <<>> /\ saved = EmptyVoteState
      BY <1>2, <2>2, SMT DEF OnOneFork, TowerOver, VoteState, EmptyVoteState
    <3>2. sent = {}
      <4> SUFFICES ASSUME NEW t \in sent PROVE FALSE
        BY SMT
      <4>1. t.votes # <<>> /\ Newest(t) <= Newest(saved) /\ TowerOver(t, Blocks)
        BY <1>2 DEF LInv, Continues
      <4>2. Newest(saved) = NoSlot
        BY <3>1, SMT DEF Newest, EmptyVoteState, LastVotedSlot, NoSlot
      <4>3. LastVotedSlot(t) \in VotedSlots(t) /\ VotedSlots(t) \subseteq Blocks
        BY <1>2, <4>1, LastIsVote DEF TowerOver
      <4>4. Newest(t) \in Int /\ Newest(t) >= LastVotedSlot(t)
        BY <1>2, <4>1, NewestType
      <4>5. LastVotedSlot(t) \in Nat
        BY <1>2, <4>3 DEF Slot
      <4> QED BY <4>1, <4>2, <4>4, <4>5, SMT DEF NoSlot
    <3>3. onChain[h] = EmptyVoteState
      BY <3>2 DEF LInv
    <3>4. tower' = [votes |-> RetainAbove(<<>>, r), root |-> r]
      BY <1>1, <2>2, <3>3, SMT DEF InitializeLockoutsFromBank, EmptyVoteState
    <3>5. tower'.root = r /\ TowerOver(tower', Blocks)
      <4>1. tower'.root = r
        BY <3>4, SMT
      <4>2. TowerOver(EmptyVoteState, Blocks) /\ r \in Slot /\ r \in Slot \cup {NoSlot}
        BY <1>2, EmptyTowerOver
      <4>3. EmptyVoteState.votes = <<>>
        BY SMT DEF EmptyVoteState
      <4>4. TowerOver([votes |-> RetainAbove(EmptyVoteState.votes, r), root |-> r], Blocks)
        BY <4>2, RetainAboveTowerOver
      <4> QED BY <3>4, <4>1, <4>3, <4>4
    <3>6. tower'.votes = <<>>
      <4>1. <<>> \in Seq(Lockout) /\ WellFormedVotes(<<>>) /\ r \in Slot \cup {NoSlot}
        BY <1>2, <3>1 DEF TowerOver, VoteState
      <4>2. \A i \in DOMAIN RetainAbove(<<>>, r) : \E j \in DOMAIN <<>> :
              RetainAbove(<<>>, r)[i] = <<>>[j]
        BY <4>1, RetainAboveWellFormed
      <4>3. RetainAbove(<<>>, r) \in Seq(Lockout)
        BY <4>1, RetainAboveWellFormed
      <4>4. DOMAIN RetainAbove(<<>>, r) = {}
        <5>1. DOMAIN <<>> = {}
          BY SMT
        <5> QED BY <4>2, <5>1
      <4>5. RetainAbove(<<>>, r) = <<>>
        BY <4>3, <4>4, SMT
      <4> QED BY <3>4, <4>5, SMT
    <3>7. Continues(saved, tower', ancestors)
      BY <1>2, <3>1, <3>5, EmptyContinues
    <3>8. bsRoot' = r
      BY <1>1, <1>3, <2>2, SMT DEF ReconcileBlockstoreRoots, NoSlot
    <3>9. lastVote' \in {saved, EmptyVoteState}
      BY <1>1, <2>2
    <3> QED BY <3>5, <3>6, <3>7, <3>8, <3>9
  <2> QED BY <2>1, <2>2, SMT
<1>8. lastVote'.votes = <<>> \/ lastVote' = VoteAt(Len(voteQueue))'
  <2>1. VoteAt(Len(voteQueue))' = saved
    BY <1>1, <1>5, SMT DEF VoteAt
  <2> QED BY <1>7, <2>1, SMT DEF EmptyVoteState
<1>9. ~stored
  BY <1>5 DEF LInv
<1> HIDE DEF restored, adjusted
<1> QED BY <1>1, <1>4, <1>5, <1>6, <1>7, <1>8, <1>9 DEF LInv

(* Every step preserves LInv, where generate_vote_tx does not fail and the *)
(* slot history is long enough for the tree.                               *)
LEMMA NextLInv ==
  ASSUME ~VoteTxMayFail, \A e \in BlockTree : e[1] < HISTORY
  PROVE  IInv /\ FInv /\ BInv /\ LInv /\ [Next]_vars => LInv'
<1> SUFFICES ASSUME IInv, FInv, BInv, LInv, [Next]_vars PROVE LInv'
  OBVIOUS
<1>1. ASSUME NEW e \in BlockTree, NEW t \in sent \cup {EmptyVoteState},
             ReplayBank(e[1], e[2], t)
      PROVE  LInv'
  BY <1>1, ReplayBankLInv, Zenon
<1>2. ASSUME NEW b \in banks, ComputeBankStats(b) PROVE LInv'
  BY <1>2, ComputeBankStatsLInv
<1>3. ASSUME NEW s \in banks, NEW tx \in {TRUE, ~VoteTxMayFail},
             HandleVotableBank(s, tx)
      PROVE  LInv'
  <2>1. ~VoteTxMayFail = TRUE
    BY TowerAssumption
  <2>2. tx = TRUE
    BY <2>1, Zenon
  <2> QED BY <1>3, <2>2, HandleVotableBankLInv, Zenon
<1>4. ASSUME NEW b \in banks, RefreshLastVote(b) PROVE LInv'
  BY <1>4, RefreshLastVoteLInv
<1>5. CASE StoreTower
  BY <1>5, StoreTowerLInv
<1>6. CASE SendVote
  BY <1>6, SendVoteLInv
<1>7. CASE Crash
  BY <1>7, CrashLInv
<1>8. ASSUME NEW r \in Blocks, NEW h \in Blocks, Restart(r, h) PROVE LInv'
  BY <1>8, RestartLInv
<1>9. CASE UNCHANGED vars
  BY <1>9 DEF vars, LInv, Blocks, VoteAt
<1> QED
  BY <1>1, <1>2, <1>3, <1>4, <1>5, <1>6, <1>7, <1>8, <1>9, Zenon DEF Next

(* LInv is an invariant of a validator for which generate_vote_tx never    *)
(* returns Failed, over a tree no longer than the slot history: a vote     *)
(* recorded without a transaction is later sent by a refresh that stores   *)
(* nothing, and a tower too old for the history is not restored.           *)
THEOREM LineInvariance ==
  ASSUME ~VoteTxMayFail, \A e \in BlockTree : e[1] < HISTORY
  PROVE  Spec => []LInv
<1>1. IInv /\ FInv /\ BInv /\ LInv /\ [Next]_vars => LInv'
  BY NextLInv
<1> QED
  BY <1>1, InitLInv, Invariance, ForkInvariance, BankForksInvariance, PTL DEF Spec

(* Of two towers on the wire, or the empty one, the one with the newer     *)
(* last vote continues the other.                                          *)
LEMMA SentInLine ==
  ASSUME IInv, FInv, LInv, ~fileLost, NEW t \in sent \cup {EmptyVoteState},
         NEW u \in sent, LastVotedSlot(t) < LastVotedSlot(u)
  PROVE  Continues(t, u, ancestors)
<1> USE Zenon
<1>1. /\ Blocks \in SUBSET Slot /\ ChainsOf(Blocks, ancestors)
      /\ TowerOver(t, Blocks) /\ TowerOver(u, Blocks)
      /\ OnOneFork(t, ancestors) /\ OnOneFork(u, ancestors)
  BY TreeFacts, EmptyTowerOver, EmptyOnOneFork DEF IInv, FInv
<1>2. CASE t = EmptyVoteState
  BY <1>1, <1>2, EmptyContinues
<1>3. CASE t \in sent
  <2>1. t.votes # <<>> /\ u.votes # <<>>
        /\ (Continues(t, u, ancestors) \/ Continues(u, t, ancestors))
    BY <1>3 DEF LInv
  <2>2. Newest(t) = LastVotedSlot(t) /\ Newest(u) = LastVotedSlot(u)
    BY <1>1, <2>1, NewestIsLast
  <2>3. LastVotedSlot(t) \in Int /\ LastVotedSlot(u) \in Int
    BY <1>1, NewestType
  <2>4. ~(Newest(u) <= Newest(t))
    BY <2>2, <2>3, SMT
  <2> QED BY <2>1, <2>4 DEF Continues
<1> QED BY <1>2, <1>3, SMT

(* Every root on the wire is rooted in the blockstore of a running         *)
(* validator that has kept its tower file, whatever a crash took from the  *)
(* blockstore: reconcile_blockstore_roots catches up with the root in the  *)
(* file, which descends from every root that was sent.                     *)
THEOREM SentRootsStayRooted ==
  ASSUME ~VoteTxMayFail, \A e \in BlockTree : e[1] < HISTORY
  PROVE  Spec => []SentRootsAreRooted
<1>1. IInv /\ FInv /\ LInv => SentRootsAreRooted
  <2> SUFFICES ASSUME IInv, FInv, LInv, up, ~fileLost, NEW t \in sent
               PROVE  IsAncestorOrSelf(t.root, bsRoot)
    BY Zenon DEF SentRootsAreRooted
  <2>1. /\ Blocks \in SUBSET Slot /\ ChainsOf(Blocks, ancestors)
        /\ TowerOver(t, Blocks) /\ TowerOver(saved, Blocks)
        /\ TowerOver(tower, Blocks) /\ OnOneFork(t, ancestors)
    BY TreeFacts, Zenon DEF IInv, FInv
  <2>2. VoteAt(0) = saved /\ 0 \in 0..Len(voteQueue)
    BY LineTowers DEF VoteAt
  <2>3. /\ t.votes # <<>> /\ Continues(t, saved, ancestors)
        /\ Continues(saved, tower, ancestors) /\ bsRoot = tower.root
    BY <2>2, Zenon DEF LInv
  <2>4. Continues(t, tower, ancestors)
    BY <2>1, <2>3, ContinuesTransitive, Zenon
  <2>5. t.root # NoSlot
    BY <2>1, <2>3, Zenon DEF OnOneFork
  <2> QED BY <2>3, <2>4, <2>5, Zenon DEF Continues, AncestorOrSelf, IsAncestorOrSelf
<1>2. Spec => []LInv
  BY LineInvariance
<1> QED BY <1>1, <1>2, Invariance, ForkInvariance, PTL

(* A later vote on the wire inside the lockout of an earlier one is for a  *)
(* descendant of it, across any number of crashes that keep the file: the  *)
(* tower that the later vote carries still has the earlier vote, or a root *)
(* that descends from it.                                                  *)
THEOREM LockoutsAreHonoured ==
  ASSUME ~VoteTxMayFail, \A e \in BlockTree : e[1] < HISTORY
  PROVE  Spec => []LockoutsHonoured
<1>1. IInv /\ FInv /\ LInv => LockoutsHonoured
  <2> SUFFICES ASSUME IInv, FInv, LInv, ~fileLost, NEW t1 \in sent, NEW t2 \in sent,
                      NEW i \in DOMAIN t1.votes, LastVotedSlot(t1) < LastVotedSlot(t2),
                      IsLockedOutAtSlot(t1.votes[i], LastVotedSlot(t2))
               PROVE  t1.votes[i].slot \in ancestors[LastVotedSlot(t2)]
    BY Zenon DEF LockoutsHonoured
  <2> DEFINE v == t1.votes[i]
             s == LastVotedSlot(t2)
  <2>1. /\ Blocks \in SUBSET Slot /\ ChainsOf(Blocks, ancestors)
        /\ TowerOver(t1, Blocks) /\ TowerOver(t2, Blocks)
        /\ OnOneFork(t2, ancestors) /\ t2.votes # <<>>
    BY TreeFacts, Zenon DEF IInv, FInv, LInv
  <2>2. Remembered(v, t2, ancestors)
    BY SentInLine, Zenon DEF Continues
  <2>3. /\ s \in VotedSlots(t2) /\ Len(t2.votes) \in DOMAIN t2.votes
        /\ s = t2.votes[Len(t2.votes)].slot /\ Newest(t2) = s
    BY <2>1, LastIsVote, NewestIsLast, Zenon
  <2>4. /\ v.slot \in Int /\ v.slot <= LastVotedSlot(t1) /\ s \in Int
        /\ LastVotedSlot(t1) \in Int /\ LastLockedOutSlot(v) \in Int
    BY <2>1, NewestType, Zenon
  <2>5. s \in Blocks
    BY <2>1, <2>3, Zenon DEF TowerOver
  <2>6. LastLockedOutSlot(v) >= s /\ LastVotedSlot(t1) < s
    BY DEF IsLockedOutAtSlot
  <2> HIDE DEF v, s
  <2>7. v.slot # s /\ ~(Newest(t2) > LastLockedOutSlot(v))
    BY <2>3, <2>4, <2>6
  <2>8. ASSUME NEW j \in DOMAIN t2.votes, t2.votes[j].slot = v.slot
        PROVE  v.slot \in ancestors[s]
    <3>1. j # Len(t2.votes)
      BY <2>3, <2>7, <2>8, Zenon
    <3>2. Len(t2.votes) \in Nat /\ DOMAIN t2.votes = 1..Len(t2.votes)
      BY <2>1, TowerSlots, Zenon
    <3>3. j \in 1..(Len(t2.votes) - 1)
      BY <3>1, <3>2
    <3> QED BY <2>1, <2>3, <2>8, <3>3, Zenon DEF OnOneFork
  <2>9. ASSUME AncestorOrSelf(v.slot, t2.root, ancestors)
        PROVE  v.slot \in ancestors[s]
    <3>1. t2.root \in ancestors[s]
      BY <2>1, <2>3, Zenon DEF OnOneFork
    <3> QED BY <2>1, <2>5, <2>9, <3>1, Zenon DEF AncestorOrSelf, ChainsOf
  <2>10. v.slot \in ancestors[s]
    BY <2>2, <2>7, <2>8, <2>9, Zenon DEF Remembered
  <2> QED BY <2>10 DEF v, s
<1>2. Spec => []LInv
  BY LineInvariance
<1> QED BY <1>1, <1>2, Invariance, ForkInvariance, PTL

(* What a vote state must be for check_and_filter_proposed_vote_state to   *)
(* accept it in a bank whose slot hashes reach back to genesis.            *)
LEMMA CheckAccepts ==
  ASSUME NEW c, NEW t, NEW H \in SUBSET Nat, 0 \in H, t.votes # <<>>,
         LastVotedSlot(t) > LastVotedSlot(c),
         LastVotedSlot(t) \in Nat, LastVotedSlot(c) \in Int,
         t.root \in H, VotedSlots(t) \subseteq H
  PROVE  CheckProposed(c, t, H) = OkResult
<1> DEFINE last == LastVotedSlot(t)
           misplaced == \E v \in VotedSlots(t) : v >= Earliest(H) /\ v \notin H
           root == FilteredRoot(c, t, H)
           res == IF H = {} THEN "SlotsMismatch"
                  ELSE IF last < Earliest(H) THEN "VoteTooOld"
                  ELSE IF root >= Earliest(H) /\ root \notin H THEN "RootOnDifferentFork"
                  ELSE IF misplaced THEN "SlotsMismatch"
                  ELSE OkResult
<1>1. CheckProposed(c, t, H) =
        CASE t.votes = <<>> -> "EmptySlots"
          [] t.votes # <<>> /\ last <= LastVotedSlot(c) -> "VoteTooOld"
          [] t.votes # <<>> /\ last > LastVotedSlot(c) -> res
  BY Zenon DEF CheckProposed
<1>2. Earliest(H) = 0
  BY EarliestZero, Zenon
<1>3. root = t.root
  <2>1. t.root >= Earliest(H)
    <3>1. t.root \in Nat
      BY Zenon
    <3> QED BY <1>2, <3>1
  <2> QED BY <2>1, Zenon DEF FilteredRoot
<1>4. ~misplaced /\ root \in H /\ H # {}
  BY <1>3, Zenon
<1>5. ~(last < Earliest(H))
  BY <1>2
<1> HIDE DEF root, misplaced, last
<1>6. res = OkResult
  BY <1>4, <1>5, Zenon
<1>7. ~(last <= LastVotedSlot(c)) /\ last > LastVotedSlot(c)
  BY DEF last
<1> HIDE DEF res
<1> QED BY <1>1, <1>6, <1>7

(* A tower that continues the vote account, with its votes above its root, *)
(* passes process_new_vote_state.                                          *)
LEMMA ContinuationAccepted ==
  ASSUME NEW B \in SUBSET Slot, NEW anc, ChainsOf(B, anc),
         NEW c, TowerOver(c, B), NEW t, TowerOver(t, B), OnOneFork(t, anc),
         t.votes # <<>>, Continues(c, t, anc)
  PROVE  ~ProcessNewVoteStateError(c, t.votes, t.root)
<1> USE Zenon
<1>1. /\ t.root # NoSlot /\ VotesAboveRoot(t) /\ WellFormedVotes(t.votes)
      /\ c.root \in Int /\ t.votes \in Seq(Lockout)
  BY OnOneForkAbove, NewestType DEF OnOneFork, TowerOver, VoteState
<1>2. t.root \in B /\ t.root \in Nat /\ Len(t.votes) \in Nat
      /\ DOMAIN t.votes = 1..Len(t.votes)
      /\ \A i, j \in DOMAIN t.votes : i < j => t.votes[i].slot < t.votes[j].slot
  BY <1>1, TowerSlots
<1>3. \A i \in DOMAIN t.votes : /\ t.votes[i].slot \in Nat
                               /\ t.votes[i].conf \in 1..MAX_LOCKOUT_HISTORY
                               /\ LastLockedOutSlot(t.votes[i]) \in Nat
  BY <1>1, <1>2, VotesType
<1>4. ~(t.root < c.root)
  <2>1. CASE c.root = NoSlot
    BY <1>2, <2>1, SMT DEF NoSlot
  <2>2. CASE c.root # NoSlot
    <3>1. c.root = t.root \/ c.root < t.root
      BY <1>2, <2>2 DEF Continues, AncestorOrSelf, ChainsOf
    <3> QED BY <1>1, <1>2, <3>1, SMT
  <2> QED BY <2>1, <2>2, SMT
<1>5. ~StructureError(t.votes, t.root)
  <2>1. ~(Len(t.votes) > MAX_LOCKOUT_HISTORY)
    BY <1>1, <1>2, LockoutAssumption, SMT DEF WellFormedVotes
  <2>2. ASSUME NEW i \in DOMAIN t.votes
        PROVE  /\ t.votes[i].conf # 0 /\ ~(t.votes[i].conf > MAX_LOCKOUT_HISTORY)
               /\ ~(t.votes[i].slot <= t.root)
    <3>1. t.votes[i].slot > t.root
      BY <1>1 DEF VotesAboveRoot
    <3>2. /\ t.root \in Nat /\ t.votes[i].slot \in Nat
          /\ t.votes[i].conf \in 1..MAX_LOCKOUT_HISTORY
      BY <1>2, <1>3
    <3> QED BY <3>1, <3>2, LockoutAssumption, SMT
  <2>3. ASSUME NEW i \in 1..(Len(t.votes) - 1)
        PROVE  /\ ~(t.votes[i].slot >= t.votes[i + 1].slot)
               /\ ~(t.votes[i].conf <= t.votes[i + 1].conf)
               /\ ~(t.votes[i + 1].slot > LastLockedOutSlot(t.votes[i]))
    <3>1. i \in DOMAIN t.votes /\ i + 1 \in DOMAIN t.votes
      BY <1>2, SMT
    <3>2. /\ t.votes[i].slot < t.votes[i + 1].slot
          /\ t.votes[i].conf > t.votes[i + 1].conf
          /\ t.votes[i + 1].slot <= LastLockedOutSlot(t.votes[i])
      BY <1>1 DEF WellFormedVotes
    <3>3. /\ t.votes[i].slot \in Int /\ t.votes[i + 1].slot \in Int
          /\ t.votes[i].conf \in Int /\ t.votes[i + 1].conf \in Int
          /\ LastLockedOutSlot(t.votes[i]) \in Int
      BY <3>1, NewestType
    <3> DEFINE a == t.votes[i]
               b == t.votes[i + 1]
    <3>4. /\ a.slot < b.slot /\ a.conf > b.conf /\ b.slot <= LastLockedOutSlot(a)
          /\ a.slot \in Int /\ b.slot \in Int /\ a.conf \in Int /\ b.conf \in Int
          /\ LastLockedOutSlot(a) \in Int
      BY <3>2, <3>3
    <3> HIDE DEF a, b
    <3>5. ~(a.slot >= b.slot) /\ ~(a.conf <= b.conf) /\ ~(b.slot > LastLockedOutSlot(a))
      BY <3>4, SMT
    <3> QED BY <3>5 DEF a, b
  <2> QED BY <2>1, <2>2, <2>3 DEF StructureError
<1>6. ASSUME NEW m \in DOMAIN c.votes, c.votes[m].slot > t.root,
             NEW n \in DOMAIN t.votes
      PROVE  /\ ~(/\ \A i \in DOMAIN t.votes : t.votes[i].slot # c.votes[m].slot
                  /\ c.votes[m].slot < t.votes[n].slot
                  /\ LastLockedOutSlot(c.votes[m]) >= t.votes[n].slot)
             /\ ~(c.votes[m].slot = t.votes[n].slot /\ t.votes[n].conf < c.votes[m].conf)
  <2> DEFINE v == c.votes[m]
             u == t.votes[n]
  <2>1. /\ v.slot \in Int /\ v.conf \in Int /\ LastLockedOutSlot(v) \in Int
        /\ v \in Lockout /\ u.slot \in Int /\ u.conf \in Int
    BY NewestType
  <2>2. LastLockedOutSlot(v) >= v.slot
    <3>1. v.conf \in 0..MAX_LOCKOUT_HISTORY /\ v.slot \in Nat
      BY <2>1, LockoutAssumption, SMT DEF Lockout, Slot
    <3>2. LOCKOUT[v.conf] \in Nat
      BY <3>1, LockoutAssumption, SMT
    <3> QED BY <3>1, <3>2, SMT DEF LastLockedOutSlot
  <2>3. Remembered(v, t, anc)
    BY DEF Continues
  <2>4. v.slot > t.root
    BY <1>6, SMT
  <2> HIDE DEF v
  <2>5. ~AncestorOrSelf(v.slot, t.root, anc)
    <3>1. v.slot # t.root /\ ~(v.slot < t.root)
      BY <1>2, <2>1, <2>4, SMT
    <3> QED BY <1>2, <3>1 DEF AncestorOrSelf, ChainsOf
  <2>6. ASSUME NEW j \in DOMAIN t.votes, t.votes[j].slot = v.slot, t.votes[j].conf >= v.conf
        PROVE  ~(v.slot = u.slot /\ u.conf < v.conf)
    <3>1. v.slot = u.slot => j = n
      <4>1. j \in Nat /\ n \in Nat /\ t.votes[j].slot \in Nat /\ u.slot \in Nat
            /\ (j < n => t.votes[j].slot < u.slot)
            /\ (n < j => u.slot < t.votes[j].slot)
        <5>1. j \in Nat /\ n \in Nat
          <6>1. j \in 1..Len(t.votes) /\ n \in 1..Len(t.votes)
            BY <1>2
          <6> QED BY <6>1, SMT
        <5> QED BY <1>2, <1>3, <5>1
      <4> HIDE DEF u
      <4> QED BY <2>6, <4>1, SMT
    <3> QED BY <2>1, <2>6, <3>1, SMT
  <2>7. ASSUME \A i \in DOMAIN t.votes : \/ t.votes[i].slot < v.slot
                                        \/ t.votes[i].slot > LastLockedOutSlot(v)
        PROVE  /\ ~(v.slot < u.slot /\ LastLockedOutSlot(v) >= u.slot)
               /\ v.slot # u.slot
    <3>1. u.slot < v.slot \/ u.slot > LastLockedOutSlot(v)
      BY <2>7
    <3> HIDE DEF u
    <3> QED BY <2>1, <2>2, <3>1, SMT
  <2>8. /\ ~(/\ \A i \in DOMAIN t.votes : t.votes[i].slot # v.slot
             /\ v.slot < u.slot /\ LastLockedOutSlot(v) >= u.slot)
        /\ ~(v.slot = u.slot /\ u.conf < v.conf)
    BY <2>3, <2>5, <2>6, <2>7 DEF Remembered
  <2> QED BY <2>8 DEF v
<1> QED BY <1>4, <1>5, <1>6
        DEF ProcessNewVoteStateError, LockoutConflict, ConfirmationRollBack

(* The vote program accepts a vote on the wire in every bank on its fork   *)
(* whose account it is newer than, whichever votes before it were lost: a  *)
(* validator that keeps its tower file is never answered with a lockout    *)
(* conflict, a roll back or a structural error.                            *)
THEOREM SentVotesAreAccepted ==
  ASSUME ~VoteTxMayFail, \A e \in BlockTree : e[1] < HISTORY
  PROVE  Spec => []SentVotesAccepted
<1>1. IInv /\ FInv /\ LInv => SentVotesAccepted
  <2> SUFFICES ASSUME IInv, FInv, LInv, ~fileLost, NEW b \in Blocks, NEW t \in sent,
                      LastVotedSlot(t) \in ancestors[b] \cup {b},
                      LastVotedSlot(t) > LastVotedSlot(onChain[b])
               PROVE  /\ CheckProposed(onChain[b], t, ancestors[b] \cup {b}) = OkResult
                      /\ ~ProcessNewVoteStateError(onChain[b], t.votes, t.root)
    BY Zenon DEF SentVotesAccepted
  <2> DEFINE anc == ancestors[b] \cup {b}
             last == LastVotedSlot(t)
             c == onChain[b]
  <2>1. /\ Blocks \in SUBSET Slot /\ ancestors \in [Blocks -> SUBSET Blocks]
        /\ ChainsOf(Blocks, ancestors) /\ TowerOver(c, Blocks)
        /\ TowerOver(t, Blocks) /\ OnOneFork(t, ancestors) /\ t.votes # <<>>
    BY TreeFacts, Zenon DEF IInv, FInv, LInv
  <2>2. anc \in SUBSET Nat /\ 0 \in anc
    BY <2>1, Zenon DEF IInv, Slot
  <2>3. /\ LastVotedSlot(c) \in Int /\ last \in Int /\ last \in Nat
    <3>1. LastVotedSlot(c) \in Int /\ last \in Int
      BY <2>1, NewestType, Zenon
    <3> QED BY <2>2, <3>1, Zenon
  <2>4. \A x : x \in ancestors[last] => x \in anc
    BY <2>1, Zenon DEF ChainsOf
  <2>5. /\ Len(t.votes) \in DOMAIN t.votes /\ last = t.votes[Len(t.votes)].slot
    BY <2>1, LastIsVote, Zenon
  <2>6. t.root \in anc
    BY <2>1, <2>4, <2>5, Zenon DEF OnOneFork
  <2>7. ASSUME NEW i \in DOMAIN t.votes PROVE t.votes[i].slot \in anc
    <3>1. i = Len(t.votes) \/ i \in 1..(Len(t.votes) - 1)
      <4>1. Len(t.votes) \in Nat /\ DOMAIN t.votes = 1..Len(t.votes)
        BY <2>1, TowerSlots, Zenon
      <4> QED BY <4>1
    <3>2. CASE i = Len(t.votes)
      BY <2>5, <3>2
    <3>3. CASE i \in 1..(Len(t.votes) - 1)
      <4>1. t.votes[i].slot \in ancestors[last]
        BY <2>1, <2>5, <3>3, Zenon DEF OnOneFork
      <4> QED BY <2>4, <4>1, Zenon
    <3> QED BY <3>1, <3>2, <3>3
  <2>8. VotedSlots(t) \subseteq anc
    BY <2>7, Zenon DEF VotedSlots
  <2>9. c \in sent \cup {EmptyVoteState} /\ last > LastVotedSlot(c)
    BY Zenon DEF LInv
  <2> HIDE DEF anc, c
  <2>10. CheckProposed(c, t, anc) = OkResult
    BY <2>1, <2>2, <2>3, <2>6, <2>8, <2>9, CheckAccepts, Zenon
  <2>11. LastVotedSlot(c) < last
    BY <2>3, <2>9
  <2>12. Continues(c, t, ancestors)
    BY <2>9, <2>11, SentInLine, Zenon
  <2>13. ~ProcessNewVoteStateError(c, t.votes, t.root)
    BY <2>1, <2>12, ContinuationAccepted, Zenon
  <2> QED BY <2>10, <2>13, Zenon DEF anc, c
<1>2. Spec => []LInv
  BY LineInvariance
<1> QED BY <1>1, <1>2, Invariance, ForkInvariance, PTL
=============================================================================
