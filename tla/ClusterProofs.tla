---------------------------- MODULE ClusterProofs ----------------------------
(***************************************************************************)
(* Optimistic confirmation is safe for every set of validators, stake,     *)
(* tree of blocks and lockout depth above one.                             *)
(***************************************************************************)
EXTENDS ClusterVoting, TowerVoteStateProofs, FiniteSetTheorems

-----------------------------------------------------------------------------
(* A tower on one fork of the tree anc. *)
OnFork(anc, t) ==
  /\ t \in VoteState /\ WellFormedVotes(t.votes) /\ VotesAboveRoot(t)
  /\ t.root \in DOMAIN anc /\ VotedSlots(t) \subseteq DOMAIN anc
  /\ \A x \in VotedSlots(t) : t.root \in anc[x]
  /\ \A x, y \in VotedSlots(t) : x < y => x \in anc[y]

(* The tower t still honours a lockout on slot b up to slot e: it has      *)
(* voted past e, has rooted b, or holds b with a lockout up to e or more.  *)
Remembers(anc, t, b, e) ==
  \/ e < LastVotedSlot(t)
  \/ b = t.root \/ b \in anc[t.root]
  \/ \E j \in DOMAIN t.votes : /\ t.votes[j].slot = b
                               /\ LastLockedOutSlot(t.votes[j]) >= e

(* Slot s may follow the tower t: is_locked_out is false. *)
MayFollow(anc, t, s) ==
  /\ s > LastVotedSlot(t) /\ t.root \in anc[s]
  /\ \A x \in VotedSlots(PushVote(t, s)) : x = s \/ x \in anc[s]

(* A vote that may follow a tower on one fork leaves it on one fork. *)
LEMMA VoteOnFork ==
  ASSUME NEW anc, IsTree(anc), NEW t, OnFork(anc, t),
         NEW s \in DOMAIN anc, MayFollow(anc, t, s), MAX_LOCKOUT_HISTORY > 1
  PROVE  LET w == PushVote(t, s) IN
         /\ OnFork(anc, w) /\ LastVotedSlot(w) = s /\ w.votes # <<>>
         /\ s \in VotedSlots(w) /\ w.root \in anc[s]
         /\ t.root = w.root \/ t.root \in anc[w.root]
<1> DEFINE w == PushVote(t, s)
<1>1. /\ t \in VoteState /\ WellFormedVotes(t.votes) /\ VotesAboveRoot(t)
      /\ t.root \in DOMAIN anc /\ VotedSlots(t) \subseteq DOMAIN anc
      /\ \A x \in VotedSlots(t) : t.root \in anc[x]
      /\ \A x, y \in VotedSlots(t) : x < y => x \in anc[y]
  BY DEF OnFork
<1>2. /\ s > LastVotedSlot(t) /\ t.root \in anc[s]
      /\ \A x \in VotedSlots(w) : x = s \/ x \in anc[s]
  BY DEF MayFollow
<1>3. /\ DOMAIN anc \subseteq Nat
      /\ \A b \in DOMAIN anc : anc[b] \subseteq DOMAIN anc
      /\ \A b \in DOMAIN anc : \A a \in anc[b] : a < b /\ anc[a] \subseteq anc[b]
  BY DEF IsTree
<1>4. s \in Slot /\ s > t.root /\ s \in Nat
  BY <1>1, <1>2, <1>3 DEF Slot
<1>5. /\ w \in VoteState /\ WellFormedVotes(w.votes)
      /\ w.root \in VotedSlots(t) \cup {t.root}
      /\ VotedSlots(w) \subseteq VotedSlots(t) \cup {s}
      /\ LastVotedSlot(w) = s
      /\ VotesAboveRoot(w)
  BY <1>1, <1>2, <1>4, PushVoteWellFormed
<1>6. \/ w.root = t.root
      \/ /\ w.root \in VotedSlots(t)
         /\ \E y \in VotedSlots(w) \cap VotedSlots(t) : w.root < y
  BY <1>1, <1>2, <1>4, PushVoteKeepsLockouts
<1> HIDE DEF w
<1>7. w.votes # <<>> /\ s \in VotedSlots(w)
  <2>1. w.votes # <<>>
    BY <1>4, <1>5 DEF LastVotedSlot, NoSlot
  <2>2. w.votes \in Seq(Lockout)
    BY <1>5 DEF VoteState
  <2>3. Len(w.votes) \in DOMAIN w.votes /\ w.votes[Len(w.votes)].slot = s
    BY <1>5, <2>1, <2>2 DEF LastVotedSlot
  <2> QED
    BY <2>1, <2>3 DEF VotedSlots
<1>8. w.root \in anc[s] /\ (t.root = w.root \/ t.root \in anc[w.root])
  <2>1. CASE w.root = t.root
    BY <1>2, <2>1
  <2>2. CASE w.root # t.root
    <3>1. PICK y \in VotedSlots(w) \cap VotedSlots(t) : w.root < y
      BY <1>6, <2>2
    <3>2. w.root \in VotedSlots(t) /\ w.root \in anc[y]
      BY <1>1, <1>5, <2>2, <3>1
    <3>3. y # s
      <4>1. y \in Nat /\ y <= LastVotedSlot(t) /\ LastVotedSlot(t) \in Slot \cup {NoSlot}
        <5>1. /\ LastVotedSlot(t) \in Slot \cup {NoSlot}
              /\ \A i \in 1..Len(t.votes) : t.votes[i].slot <= LastVotedSlot(t)
          BY <1>1, LastVoteNewest
        <5>2. DOMAIN t.votes = 1..Len(t.votes)
          BY <1>1 DEF VoteState
        <5> QED
          BY <1>1, <1>3, <3>1, <5>1, <5>2 DEF VotedSlots
      <4> QED
        BY <1>2, <1>4, <4>1 DEF Slot, NoSlot
    <3>4. y \in anc[s]
      BY <1>2, <3>1, <3>3
    <3> QED
      BY <1>1, <1>3, <3>2, <3>4
  <2> QED
    BY <2>1, <2>2
<1>9. \A x \in VotedSlots(w) : w.root \in anc[x]
  <2> SUFFICES ASSUME NEW x \in VotedSlots(w), x # s
               PROVE  w.root \in anc[x]
    BY <1>8
  <2>1. x \in VotedSlots(t) /\ x > w.root
    <3>1. DOMAIN w.votes = 1..Len(w.votes)
      BY <1>5 DEF VoteState
    <3> QED
      BY <1>5, <3>1 DEF VotedSlots, VotesAboveRoot
  <2> QED
    BY <1>1, <1>5, <2>1
<1>10. \A x, y \in VotedSlots(w) : x < y => x \in anc[y]
  <2> SUFFICES ASSUME NEW x \in VotedSlots(w), NEW y \in VotedSlots(w), x < y
               PROVE  x \in anc[y]
    OBVIOUS
  <2>1. x \in VotedSlots(t) \/ x = s
    BY <1>5
  <2>2. y \in VotedSlots(t) \/ y = s
    BY <1>5
  <2>3. CASE y = s
    BY <1>2, <1>4, <2>3
  <2>4. CASE y # s
    <3>1. y \in anc[s] /\ y < s
      BY <1>2, <1>3, <2>4
    <3>2. x # s
      <4>1. y \in Nat
        BY <1>1, <1>3, <2>2, <2>4
      <4> QED
        BY <1>4, <3>1, <4>1
    <3> QED
      BY <1>1, <2>1, <2>2, <2>4, <3>2
  <2> QED
    BY <2>3, <2>4
<1>11. w.root \in DOMAIN anc /\ VotedSlots(w) \subseteq DOMAIN anc
  BY <1>1, <1>5
<1>12. OnFork(anc, w)
  BY <1>5, <1>9, <1>10, <1>11 DEF OnFork
<1> QED
  BY <1>5, <1>7, <1>8, <1>12 DEF w

(* A vote forgets no lockout, and is on the fork of every lockout that     *)
(* reaches its slot.                                                       *)
LEMMA VoteRemembers ==
  ASSUME NEW anc, IsTree(anc), NEW t, OnFork(anc, t),
         NEW s \in DOMAIN anc, MayFollow(anc, t, s), MAX_LOCKOUT_HISTORY > 1,
         NEW b \in DOMAIN anc, NEW e \in Nat, Remembers(anc, t, b, e)
  PROVE  LET w == PushVote(t, s) IN
         /\ Remembers(anc, w, b, e)
         /\ e = s => b \in anc[s]
<1> DEFINE w == PushVote(t, s)
<1>1. /\ t \in VoteState /\ WellFormedVotes(t.votes)
      /\ t.root \in DOMAIN anc /\ VotedSlots(t) \subseteq DOMAIN anc
  BY DEF OnFork
<1>2. /\ s > LastVotedSlot(t) /\ t.root \in anc[s]
      /\ \A x \in VotedSlots(w) : x = s \/ x \in anc[s]
  BY DEF MayFollow
<1>3. /\ DOMAIN anc \subseteq Nat
      /\ \A d \in DOMAIN anc : anc[d] \subseteq DOMAIN anc
      /\ \A d \in DOMAIN anc : \A a \in anc[d] : a < d /\ anc[a] \subseteq anc[d]
  BY DEF IsTree
<1>4. s \in Slot /\ s \in Nat
  BY <1>3 DEF Slot
<1>5. /\ OnFork(anc, w) /\ LastVotedSlot(w) = s
      /\ w.root \in anc[s] /\ (t.root = w.root \/ t.root \in anc[w.root])
  BY VoteOnFork
<1>6. \A i \in DOMAIN t.votes :
        \/ LastLockedOutSlot(t.votes[i]) < s
        \/ w.root = t.votes[i].slot
        \/ \E j \in DOMAIN w.votes :
             /\ w.votes[j].slot = t.votes[i].slot
             /\ LastLockedOutSlot(w.votes[j]) >= LastLockedOutSlot(t.votes[i])
  BY <1>1, <1>2, <1>4, PushVoteKeepsLockouts
<1>7. LastVotedSlot(t) \in Slot \cup {NoSlot}
      /\ \A i \in DOMAIN t.votes : /\ t.votes[i].slot \in Nat
                                   /\ t.votes[i].slot <= LastVotedSlot(t)
                                   /\ LastLockedOutSlot(t.votes[i]) \in Nat
  <2>1. t.votes \in Seq(Lockout)
    BY <1>1 DEF VoteState
  <2> QED
    BY <1>1, <2>1, LastVoteNewest, VotesType
<1>8. \A j \in DOMAIN w.votes : LastLockedOutSlot(w.votes[j]) \in Nat
                               /\ w.votes[j].slot \in VotedSlots(w)
  <2>1. w.votes \in Seq(Lockout)
    BY <1>5 DEF OnFork, VoteState
  <2> QED
    BY <2>1, VotesType DEF VotedSlots
<1> HIDE DEF w
<1>9. CASE e < LastVotedSlot(t)
  <2>1. e < LastVotedSlot(w) /\ e # s
    BY <1>2, <1>4, <1>5, <1>7, <1>9 DEF Slot, NoSlot
  <2> QED
    BY <2>1 DEF Remembers, w
<1>10. CASE b = t.root \/ b \in anc[t.root]
  <2>1. b = w.root \/ b \in anc[w.root]
    <3>1. w.root \in DOMAIN anc
      BY <1>5 DEF OnFork
    <3> QED
      BY <1>1, <1>3, <1>5, <1>10, <3>1
  <2>2. b \in anc[s]
    BY <1>1, <1>2, <1>3, <1>10
  <2> QED
    BY <2>1, <2>2 DEF Remembers, w
<1>11. ASSUME NEW i \in DOMAIN t.votes, t.votes[i].slot = b,
              LastLockedOutSlot(t.votes[i]) >= e
       PROVE  Remembers(anc, w, b, e) /\ (e = s => b \in anc[s])
  <2>1. CASE LastLockedOutSlot(t.votes[i]) < s
    <3>1. e < s
      BY <1>4, <1>7, <1>11, <2>1
    <3> QED
      BY <1>5, <3>1 DEF Remembers
  <2>2. CASE w.root = t.votes[i].slot
    BY <1>5, <1>11, <2>2 DEF Remembers
  <2>3. ASSUME NEW j \in DOMAIN w.votes, w.votes[j].slot = t.votes[i].slot,
               LastLockedOutSlot(w.votes[j]) >= LastLockedOutSlot(t.votes[i])
        PROVE  Remembers(anc, w, b, e) /\ (e = s => b \in anc[s])
    <3>1. LastLockedOutSlot(w.votes[j]) >= e
      BY <1>7, <1>8, <1>11, <2>3
    <3>2. b \in VotedSlots(w) /\ b # s
      BY <1>2, <1>4, <1>7, <1>8, <1>11, <2>3 DEF Slot, NoSlot
    <3>3. b \in anc[s]
      BY <1>2, <3>2
    <3> QED
      BY <1>11, <2>3, <3>1, <3>3 DEF Remembers
  <2> QED
    BY <1>6, <2>1, <2>2, <2>3
<1> QED
  BY <1>9, <1>10, <1>11 DEF Remembers, w
-----------------------------------------------------------------------------
(* v has voted on s and later on another fork. *)
Left(v, s) ==
  \E t, y \in sent[v] : /\ LastVotedSlot(t) = s /\ LastVotedSlot(y) > s
                        /\ s \notin ancestors[LastVotedSlot(y)]

(* u has not voted on s and never will. *)
Barred(u, s) ==
  /\ \A t \in sent[u] : LastVotedSlot(t) # s
  /\ \/ s < LastVotedSlot(tower[u])
     \/ \E b \in Blocks : /\ ~IsAncestorOrSelf(b, s)
                          /\ Remembers(ancestors, tower[u], b, s)

(* Whoever leaves the fork of s does so when enough stake to switch is     *)
(* lost for s.                                                             *)
LeftWhenLost(s) ==
  (\E v \in Validator : Left(v, s)) =>
    \E S \in SUBSET Validator : SwitchThreshold(S) /\ \A u \in S : Barred(u, s)

TowersOK ==
  /\ TypeOK
  /\ \A v \in Validator :
       /\ OnFork(ancestors, tower[v])
       /\ tower[v].votes # <<>> => tower[v] \in sent[v]
       /\ \A t \in sent[v] :
            /\ OnFork(ancestors, t) /\ t.votes # <<>>
            /\ LastVotedSlot(t) <= LastVotedSlot(tower[v])
            /\ \A i \in DOMAIN t.votes :
                 Remembers(ancestors, tower[v], t.votes[i].slot,
                           LastLockedOutSlot(t.votes[i]))

CInv == TowersOK /\ LockoutsKept /\ \A s \in Blocks : LeftWhenLost(s)

(* The tree never changes and is a tree. *)
LEMMA TreeFacts ==
  ASSUME TypeOK
  PROVE  /\ IsTree(ancestors) /\ 0 \in Blocks /\ MAX_LOCKOUT_HISTORY > 1
         /\ Blocks \subseteq Nat
         /\ \A b \in Blocks : ancestors[b] \subseteq Blocks
         /\ \A b \in Blocks : \A a \in ancestors[b] :
              a < b /\ ancestors[a] \subseteq ancestors[b]
         /\ \A c \in Blocks : \A a, b \in ancestors[c] :
              a < b => a \in ancestors[b]
  BY ClusterAssumption DEF TypeOK, IsTree, Blocks

(* What a vote of v on s does, in terms of the lemmas on towers. *)
LEMMA VoteFacts ==
  ASSUME TowersOK, NEW v \in Validator, NEW s \in Blocks, Vote(v, s)
  PROVE  /\ ancestors' = ancestors
         /\ MayFollow(ancestors, tower[v], s)
         /\ tower'[v] = PushVote(tower[v], s)
         /\ sent'[v] = sent[v] \cup {tower'[v]}
         /\ \A u \in Validator : u # v => /\ tower'[u] = tower[u]
                                         /\ sent'[u] = sent[u]
         /\ tower' \in [Validator -> VoteState]
         /\ sent' \in [Validator -> SUBSET VoteState]
<1> DEFINE t == tower[v]
           w == ProcessNextVoteSlot(t, s)
<1>1. /\ tower \in [Validator -> VoteState] /\ sent \in [Validator -> SUBSET VoteState]
      /\ OnFork(ancestors, t)
  BY DEF TowersOK, TypeOK
<1>2. /\ t.root \in ancestors[s] /\ ~IsLockedOut(t, s)
      /\ tower' = [tower EXCEPT ![v] = w]
      /\ sent' = [sent EXCEPT ![v] = sent[v] \cup {tower'[v]}]
      /\ ancestors' = ancestors
  BY DEF Vote
<1>3. s \in Nat /\ t.root \in Nat
  BY <1>1, <1>2, TreeFacts DEF TowersOK, OnFork, Blocks
<1>4. LastVotedSlot(t) \in Slot \cup {NoSlot}
  BY <1>1, LastVoteNewest DEF OnFork
<1>5. s > LastVotedSlot(t)
  <2>1. CASE t.votes = <<>>
    BY <1>3, <2>1 DEF LastVotedSlot, NoSlot
  <2>2. CASE t.votes # <<>>
    BY <1>2, <1>3, <1>4, <2>2 DEF IsLockedOut, Slot, NoSlot
  <2> QED
    BY <2>1, <2>2
<1>6. w = PushVote(t, s)
  BY <1>3, <1>4, <1>5 DEF ProcessNextVoteSlot, Slot, NoSlot
<1>7. MayFollow(ancestors, t, s)
  BY <1>2, <1>5, <1>6 DEF MayFollow, IsLockedOut
<1>8. w \in VoteState
  BY <1>1, <1>3, <1>5, <1>6, PushVoteWellFormed DEF OnFork, Slot
<1>9. tower'[v] = w /\ tower' \in [Validator -> VoteState]
      /\ \A u \in Validator : u # v => tower'[u] = tower[u]
  BY <1>1, <1>2, <1>8
<1> QED
  BY <1>1, <1>2, <1>6, <1>7, <1>8, <1>9

(* Votes keep every tower on one fork, and every lockout ever sent.        *)
LEMMA VoteTowers ==
  ASSUME TowersOK, LockoutsKept, NEW v \in Validator, NEW s \in Blocks, Vote(v, s)
  PROVE  TowersOK' /\ LockoutsKept'
<1> DEFINE w == tower'[v]
<1>1. /\ ancestors' = ancestors
      /\ MayFollow(ancestors, tower[v], s)
      /\ w = PushVote(tower[v], s)
      /\ sent'[v] = sent[v] \cup {w}
      /\ \A u \in Validator : u # v => tower'[u] = tower[u] /\ sent'[u] = sent[u]
      /\ tower' \in [Validator -> VoteState]
      /\ sent' \in [Validator -> SUBSET VoteState]
  BY VoteFacts
<1>2. TypeOK /\ TypeOK' /\ Blocks' = Blocks
  BY <1>1 DEF TowersOK, TypeOK, Blocks
<1>3. /\ IsTree(ancestors) /\ MAX_LOCKOUT_HISTORY > 1 /\ s \in DOMAIN ancestors
      /\ Blocks \subseteq Nat /\ s \in Nat
  BY <1>2, TreeFacts DEF Blocks
<1>4. /\ OnFork(ancestors, tower[v])
      /\ \A t \in sent[v] :
           /\ OnFork(ancestors, t) /\ t.votes # <<>>
           /\ LastVotedSlot(t) <= LastVotedSlot(tower[v])
           /\ \A i \in DOMAIN t.votes :
                Remembers(ancestors, tower[v], t.votes[i].slot,
                          LastLockedOutSlot(t.votes[i]))
  BY DEF TowersOK
<1>5. /\ OnFork(ancestors, w) /\ LastVotedSlot(w) = s /\ w.votes # <<>>
  BY <1>1, <1>3, <1>4, VoteOnFork
<1> HIDE DEF w
<1>6. ASSUME NEW t, OnFork(ancestors, t), NEW i \in DOMAIN t.votes
      PROVE  /\ t.votes[i].slot \in DOMAIN ancestors
             /\ LastLockedOutSlot(t.votes[i]) \in Nat
             /\ LastVotedSlot(t) \in Slot \cup {NoSlot}
  <2>1. t \in VoteState /\ t.votes \in Seq(Lockout) /\ WellFormedVotes(t.votes)
        /\ VotedSlots(t) \subseteq DOMAIN ancestors
    BY <1>6 DEF OnFork, VoteState
  <2> QED
    BY <2>1, VotesType, LastVoteNewest DEF VotedSlots
<1>7. LastVotedSlot(tower[v]) < s /\ LastVotedSlot(tower[v]) \in Slot \cup {NoSlot}
  BY <1>1, <1>3, <1>4, LastVoteNewest DEF MayFollow, OnFork
<1>8. \A t \in sent[v] : LastVotedSlot(t) < s
  <2> SUFFICES ASSUME NEW t \in sent[v] PROVE LastVotedSlot(t) < s
    OBVIOUS
  <2>1. LastVotedSlot(t) <= LastVotedSlot(tower[v])
    BY <1>4
  <2>2. LastVotedSlot(t) \in Slot \cup {NoSlot}
    BY <1>4, LastVoteNewest DEF OnFork
  <2> QED
    BY <1>3, <1>7, <2>1, <2>2 DEF Slot, NoSlot
<1>9. ASSUME NEW t \in sent[v], NEW i \in DOMAIN t.votes
      PROVE  /\ Remembers(ancestors, w, t.votes[i].slot, LastLockedOutSlot(t.votes[i]))
             /\ LastLockedOutSlot(t.votes[i]) >= s => t.votes[i].slot \in ancestors[s]
  <2> DEFINE b == t.votes[i].slot
             e == LastLockedOutSlot(t.votes[i])
  <2>1. b \in DOMAIN ancestors /\ e \in Nat /\ Remembers(ancestors, tower[v], b, e)
    BY <1>4, <1>6
  <2> HIDE DEF b, e
  <2>2. Remembers(ancestors, w, b, e)
    BY <1>1, <1>3, <1>4, <2>1, VoteRemembers
  <2>3. ASSUME e >= s PROVE b \in ancestors[s]
    <3>1. Remembers(ancestors, tower[v], b, s)
      <4>1. \A j \in DOMAIN tower[v].votes :
              LastLockedOutSlot(tower[v].votes[j]) \in Nat
        BY <1>4, <1>6
      <4> QED
        BY <1>3, <1>7, <2>1, <2>3, <4>1 DEF Remembers, Slot, NoSlot
    <3> QED
      BY <1>1, <1>3, <1>4, <2>1, <3>1, VoteRemembers
  <2> QED
    BY <2>2, <2>3 DEF b, e
<1>10. \A i \in DOMAIN w.votes :
         Remembers(ancestors, w, w.votes[i].slot, LastLockedOutSlot(w.votes[i]))
  <2>1. \A i \in DOMAIN w.votes : LastLockedOutSlot(w.votes[i]) \in Nat
    BY <1>5, <1>6
  <2> QED
    BY <2>1 DEF Remembers
<1>11. TowersOK'
  <2> SUFFICES ASSUME NEW u \in Validator
               PROVE  /\ OnFork(ancestors, tower'[u])
                      /\ tower'[u].votes # <<>> => tower'[u] \in sent'[u]
                      /\ \A t \in sent'[u] :
                           /\ OnFork(ancestors, t) /\ t.votes # <<>>
                           /\ LastVotedSlot(t) <= LastVotedSlot(tower'[u])
                           /\ \A i \in DOMAIN t.votes :
                                Remembers(ancestors, tower'[u], t.votes[i].slot,
                                          LastLockedOutSlot(t.votes[i]))
    BY <1>1, <1>2 DEF TowersOK
  <2>1. CASE u # v
    <3>1. tower'[u] = tower[u] /\ sent'[u] = sent[u]
      BY <1>1, <2>1
    <3> QED
      BY <3>1 DEF TowersOK
  <2>2. CASE u = v
    <3>1. \A t \in sent[v] : LastVotedSlot(t) <= s
      <4>1. \A t \in sent[v] : LastVotedSlot(t) \in Slot \cup {NoSlot}
        BY <1>4, LastVoteNewest DEF OnFork
      <4> QED
        BY <1>3, <1>8, <4>1 DEF Slot, NoSlot
    <3>2. w \in sent'[v] /\ \A t \in sent'[v] : t \in sent[v] \/ t = w
      BY <1>1
    <3>3. s <= s
      BY <1>3
    <3> QED
      BY <1>4, <1>5, <1>9, <1>10, <2>2, <3>1, <3>2, <3>3 DEF w
  <2> QED
    BY <2>1, <2>2
<1>12. LockoutsKept'
  <2> SUFFICES ASSUME NEW u \in Validator, NEW t \in sent'[u], NEW y \in sent'[u],
                      NEW i \in DOMAIN t.votes,
                      LastVotedSlot(t) < LastVotedSlot(y),
                      IsLockedOutAtSlot(t.votes[i], LastVotedSlot(y))
               PROVE  t.votes[i].slot \in ancestors[LastVotedSlot(y)]
    BY <1>1 DEF LockoutsKept
  <2>1. CASE t \in sent[u] /\ y \in sent[u]
    BY <2>1 DEF LockoutsKept
  <2>2. CASE ~(t \in sent[u] /\ y \in sent[u])
    <3>1. u = v /\ \A x \in sent'[v] : x \in sent[v] \/ x = w
      BY <1>1, <2>2
    <3>2. t # w
      <4>1. SUFFICES ASSUME t = w PROVE FALSE
        OBVIOUS
      <4>2. LastVotedSlot(y) = s \/ LastVotedSlot(y) < s
        BY <1>5, <1>8, <3>1
      <4>3. LastVotedSlot(y) \in Slot \cup {NoSlot} /\ LastVotedSlot(t) = s
        BY <1>4, <1>5, <3>1, <4>1, LastVoteNewest DEF OnFork
      <4> QED
        BY <1>3, <4>2, <4>3 DEF Slot, NoSlot
    <3>3. t \in sent[v] /\ y = w
      BY <2>2, <3>1, <3>2
    <3> QED
      BY <1>5, <1>9, <3>3 DEF IsLockedOutAtSlot
  <2> QED
    BY <2>1, <2>2
<1> QED
  BY <1>11, <1>12

(* Whoever cannot vote on s any more stays so. *)
LEMMA VoteKeepsBarred ==
  ASSUME TowersOK, NEW v \in Validator, NEW x \in Blocks, Vote(v, x),
         NEW u \in Validator, NEW s \in Blocks, Barred(u, s)
  PROVE  Barred(u, s)'
<1>1. /\ ancestors' = ancestors
      /\ MayFollow(ancestors, tower[v], x)
      /\ tower'[v] = PushVote(tower[v], x)
      /\ sent'[v] = sent[v] \cup {tower'[v]}
      /\ u # v => tower'[u] = tower[u] /\ sent'[u] = sent[u]
  BY VoteFacts
<1>2. TypeOK /\ Blocks' = Blocks
  BY <1>1 DEF TowersOK, Blocks
<1>3. CASE u # v
  BY <1>1, <1>2, <1>3 DEF Barred, IsAncestorOrSelf
<1>4. CASE u = v
  <2>1. /\ IsTree(ancestors) /\ MAX_LOCKOUT_HISTORY > 1
        /\ x \in DOMAIN ancestors /\ x \in Nat /\ s \in Nat
        /\ OnFork(ancestors, tower[v])
    BY <1>2, TreeFacts DEF TowersOK, Blocks
  <2>2. LastVotedSlot(tower'[v]) = x
    BY <1>1, <2>1, VoteOnFork
  <2>3. LastVotedSlot(tower[v]) < x /\ LastVotedSlot(tower[v]) \in Slot \cup {NoSlot}
    BY <1>1, <2>1, LastVoteNewest DEF MayFollow, OnFork
  <2>4. CASE s < LastVotedSlot(tower[v])
    <3>1. s < x /\ x # s
      BY <2>1, <2>3, <2>4 DEF Slot, NoSlot
    <3> QED
      BY <1>1, <1>4, <2>2, <3>1 DEF Barred
  <2>5. ASSUME NEW b \in Blocks, ~IsAncestorOrSelf(b, s),
               Remembers(ancestors, tower[v], b, s)
        PROVE  Barred(u, s)'
    <3>1. Remembers(ancestors, tower'[v], b, s) /\ (s = x => b \in ancestors[x])
      BY <1>1, <2>1, <2>5, VoteRemembers DEF Blocks
    <3>2. x # s
      BY <2>5, <3>1 DEF IsAncestorOrSelf
    <3>3. \A t \in sent'[u] : LastVotedSlot(t) # s
      BY <1>1, <1>4, <2>2, <3>2 DEF Barred
    <3>4. (~IsAncestorOrSelf(b, s))' /\ b \in Blocks'
          /\ Remembers(ancestors', tower'[u], b, s)
      BY <1>1, <1>2, <1>4, <2>5, <3>1 DEF IsAncestorOrSelf
    <3> QED
      BY <3>3, <3>4 DEF Barred
  <2> QED
    BY <1>4, <2>4, <2>5 DEF Barred
<1> QED
  BY <1>3, <1>4

(* A block c that counts in a switching proof, from a last vote at or      *)
(* above s to a bank not above s, is not above s either: the argument of   *)
(* is_valid_switching_proof_vote.                                          *)
LEMMA ProofVoteOffFork ==
  ASSUME TypeOK, NEW s \in Blocks, NEW last \in Blocks, NEW switch \in Blocks,
         NEW c \in Blocks, IsAncestorOrSelf(s, last), s \notin ancestors[switch],
         IsValidSwitchingProofVote(c, last, switch)
  PROVE  s \notin ancestors[c]
<1> SUFFICES ASSUME s \in ancestors[c] PROVE FALSE
  OBVIOUS
<1>1. s # last /\ s \in ancestors[last]
  BY DEF IsAncestorOrSelf, IsValidSwitchingProofVote
<1>2. PICK g \in ancestors[switch] :
        /\ g \in ancestors[c] \cap ancestors[last]
        /\ \A x \in ancestors[c] \cap ancestors[last] : x <= g
  BY DEF IsValidSwitchingProofVote, GreatestCommonAncestor
<1>3. s <= g /\ s \in Nat /\ g \in Nat /\ g \in Blocks
  BY <1>1, <1>2, TreeFacts
<1>4. s # g
  BY <1>2
<1>5. s \in ancestors[g]
  BY <1>1, <1>2, <1>3, <1>4, TreeFacts
<1> QED
  BY <1>2, <1>5, TreeFacts

(* While nobody has left the fork of s, the stake of a switching proof     *)
(* away from it is lost for s: each account counted, by a newer vote in    *)
(* gossip or by a lockout landed in a bank, has not voted on s and will    *)
(* not.                                                                    *)
LEMMA SwitchIsLost ==
  ASSUME TowersOK, LockoutsKept, NEW v \in Validator, NEW x \in Blocks,
         NEW s \in Blocks, \A u \in Validator : ~Left(u, s),
         IsAncestorOrSelf(s, LastVotedSlot(tower[v])), s \notin ancestors[x],
         LastVotedSlot(tower[v]) \in Blocks,
         NEW u \in Validator,
         LandedLockoutCounts(u, tower[v], x) \/ GossipVoteCounts(u, tower[v], x)
  PROVE  Barred(u, s)
<1> DEFINE last == LastVotedSlot(tower[v])
<1>1. TypeOK /\ s \in Nat /\ last \in Nat /\ s <= last
  BY TreeFacts DEF TowersOK, IsAncestorOrSelf
<1>2. ASSUME NEW y \in sent[u]
      PROVE  /\ LastVotedSlot(y) \in Blocks /\ LastVotedSlot(y) \in Nat
             /\ \A i \in DOMAIN y.votes :
                  /\ y.votes[i].slot \in Blocks
                  /\ IsAncestorOrSelf(y.votes[i].slot, LastVotedSlot(y))
                  /\ LastLockedOutSlot(y.votes[i]) \in Nat
  <2>1. OnFork(ancestors, y) /\ y.votes # <<>>
    BY <1>2 DEF TowersOK
  <2>2. /\ y \in VoteState /\ y.votes \in Seq(Lockout) /\ WellFormedVotes(y.votes)
        /\ VotedSlots(y) \subseteq Blocks
        /\ \A a, b \in VotedSlots(y) : a < b => a \in ancestors[b]
    BY <2>1 DEF OnFork, VoteState, Blocks
  <2>3. /\ Len(y.votes) \in DOMAIN y.votes
        /\ LastVotedSlot(y) = y.votes[Len(y.votes)].slot
    BY <2>1, <2>2 DEF LastVotedSlot
  <2>4. LastVotedSlot(y) \in VotedSlots(y)
    BY <2>3 DEF VotedSlots
  <2>5. LastVotedSlot(y) \in Blocks /\ LastVotedSlot(y) \in Nat
    BY <1>1, <2>2, <2>4, TreeFacts, Zenon
  <2>6. ASSUME NEW i \in DOMAIN y.votes
        PROVE  /\ y.votes[i].slot \in Blocks
               /\ IsAncestorOrSelf(y.votes[i].slot, LastVotedSlot(y))
               /\ LastLockedOutSlot(y.votes[i]) \in Nat
    <3>1. /\ y.votes[i].slot \in VotedSlots(y) /\ y.votes[i].slot \in Nat
          /\ LastLockedOutSlot(y.votes[i]) \in Nat
      BY <2>2, VotesType DEF VotedSlots
    <3>2. y.votes[i].slot <= LastVotedSlot(y)
      BY <2>2, LastVoteNewest
    <3> QED
      BY <2>2, <2>4, <2>5, <3>1, <3>2 DEF IsAncestorOrSelf
  <2> QED
    BY <2>5, <2>6
<1>3. ASSUME NEW y \in sent[u], s < LastVotedSlot(y),
             s \notin ancestors[LastVotedSlot(y)]
      PROVE  \A t \in sent[u] : LastVotedSlot(t) # s
  BY <1>1, <1>2, <1>3 DEF Left
<1>4. CASE GossipVoteCounts(u, tower[v], x)
  <2>1. PICK y \in sent[u] :
          /\ LastVotedSlot(y) > last
          /\ IsValidSwitchingProofVote(LastVotedSlot(y), last, x)
    BY <1>4 DEF GossipVoteCounts
  <2>2. s \notin ancestors[LastVotedSlot(y)]
    BY <1>1, <1>2, <2>1, ProofVoteOffFork
  <2>3. s < LastVotedSlot(y)
    BY <1>1, <1>2, <2>1
  <2>4. s < LastVotedSlot(tower[u])
    <3>1. LastVotedSlot(y) <= LastVotedSlot(tower[u])
      BY DEF TowersOK
    <3>2. LastVotedSlot(tower[u]) \in Slot \cup {NoSlot}
      BY LastVoteNewest DEF TowersOK, OnFork
    <3> QED
      BY <1>1, <1>2, <2>3, <3>1, <3>2 DEF Slot, NoSlot
  <2> QED
    BY <1>3, <2>2, <2>3, <2>4 DEF Barred
<1>5. CASE LandedLockoutCounts(u, tower[v], x)
  <2>1. PICK y \in sent[u], c \in Blocks :
          /\ LastVotedSlot(y) \in ancestors[c]
          /\ IsValidSwitchingProofVote(c, last, x)
          /\ \E i \in DOMAIN y.votes :
               /\ LastLockedOutSlot(y.votes[i]) >= last
               /\ y.votes[i].slot \notin ancestors[last]
    BY <1>5 DEF LandedLockoutCounts
  <2>2. PICK i \in DOMAIN y.votes :
          /\ LastLockedOutSlot(y.votes[i]) >= last
          /\ y.votes[i].slot \notin ancestors[last]
    BY <2>1
  <2> DEFINE m == LastVotedSlot(y)
             b == y.votes[i].slot
             e == LastLockedOutSlot(y.votes[i])
  <2>3. m \in Blocks /\ m \in Nat /\ b \in Blocks /\ IsAncestorOrSelf(b, m) /\ e \in Nat
    BY <1>2
  <2>4. s \notin ancestors[c]
    BY <1>1, <2>1, ProofVoteOffFork
  <2>5. s # m /\ s \notin ancestors[m] /\ s # b
    BY <1>1, <2>1, <2>3, <2>4, TreeFacts DEF IsAncestorOrSelf
  <2>6. b \notin ancestors[s]
    BY <1>1, <2>2, TreeFacts DEF IsAncestorOrSelf
  <2>7. e >= s
    BY <1>1, <2>2, <2>3
  <2>8. ASSUME NEW t \in sent[u], LastVotedSlot(t) = s PROVE FALSE
    <3>1. CASE s < m
      BY <1>3, <2>5, <2>8, <3>1
    <3>2. CASE m < s
      <4>1. IsLockedOutAtSlot(y.votes[i], s)
        BY <2>7 DEF IsLockedOutAtSlot
      <4> QED
        BY <2>6, <2>8, <3>2, <4>1 DEF LockoutsKept
    <3> QED
      BY <1>1, <2>3, <2>5, <3>1, <3>2
  <2>9. Remembers(ancestors, tower[u], b, e)
    BY DEF TowersOK
  <2>10. Remembers(ancestors, tower[u], b, s)
    <3>1. /\ LastVotedSlot(tower[u]) \in Slot \cup {NoSlot}
          /\ \A j \in DOMAIN tower[u].votes :
               LastLockedOutSlot(tower[u].votes[j]) \in Nat
      <4>1. tower[u] \in VoteState /\ tower[u].votes \in Seq(Lockout)
            /\ WellFormedVotes(tower[u].votes)
        BY DEF TowersOK, OnFork, VoteState
      <4> QED
        BY <4>1, LastVoteNewest, VotesType
    <3> HIDE DEF b, e
    <3>2. s \in Nat /\ e \in Nat /\ s <= e
      BY <1>1, <2>3, <2>7
    <3>3. LastVotedSlot(tower[u]) \in Int
      BY <3>1 DEF Slot, NoSlot
    <3>4. e < LastVotedSlot(tower[u]) => s < LastVotedSlot(tower[u])
      BY <3>2, <3>3
    <3>5. \A j \in DOMAIN tower[u].votes :
            LastLockedOutSlot(tower[u].votes[j]) >= e
              => LastLockedOutSlot(tower[u].votes[j]) >= s
      <4> TAKE j \in DOMAIN tower[u].votes
      <4>1. LastLockedOutSlot(tower[u].votes[j]) \in Nat
        BY <3>1, Zenon
      <4> QED
        BY <3>2, <4>1
    <3> QED
      BY <2>9, <3>4, <3>5, Zenon DEF Remembers
  <2>11. ~IsAncestorOrSelf(b, s)
    BY <2>5, <2>6 DEF IsAncestorOrSelf
  <2> HIDE DEF b, e, m
  <2> QED
    BY <2>3, <2>8, <2>10, <2>11 DEF Barred
<1> QED
  BY <1>4, <1>5

(* A vote of v that leaves the fork of s, the first to do so, was let      *)
(* through by the switch threshold alone, and its switching proof is lost  *)
(* for s.                                                                  *)
LEMMA FirstToLeave ==
  ASSUME TowersOK, LockoutsKept, NEW v \in Validator, NEW x \in Blocks, Vote(v, x),
         NEW s \in Blocks, \A u \in Validator : ~Left(u, s),
         NEW t \in sent[v], LastVotedSlot(t) = s,
         s < x, s \notin ancestors[x]
  PROVE  \E S \in SUBSET Validator : SwitchThreshold(S) /\ \A u \in S : Barred(u, s)
<1> DEFINE last == LastVotedSlot(tower[v])
           S == {u \in Validator : \/ LandedLockoutCounts(u, tower[v], x)
                                   \/ GossipVoteCounts(u, tower[v], x)}
<1>1. TypeOK /\ s \in Nat
  BY TreeFacts DEF TowersOK
<1>2. /\ OnFork(ancestors, tower[v]) /\ s <= last
      /\ tower[v].votes # <<>> => tower[v] \in sent[v]
  BY DEF TowersOK
<1>3. tower[v].votes # <<>>
  BY <1>1, <1>2 DEF LastVotedSlot, NoSlot
<1>4. last \in Blocks /\ last \in Nat
  <2>1. tower[v].votes \in Seq(Lockout) /\ VotedSlots(tower[v]) \subseteq Blocks
    BY <1>2 DEF OnFork, VoteState, Blocks
  <2>2. /\ Len(tower[v].votes) \in DOMAIN tower[v].votes
        /\ last = tower[v].votes[Len(tower[v].votes)].slot
    BY <1>3, <2>1 DEF LastVotedSlot
  <2> QED
    BY <1>1, <2>1, <2>2, TreeFacts DEF VotedSlots
<1>5. IsAncestorOrSelf(s, last)
  BY <1>1, <1>2, <1>3, <1>4 DEF Left, IsAncestorOrSelf
<1>6. ~IsAncestorOrSelf(last, x)
  BY <1>1, <1>4, <1>5, TreeFacts DEF IsAncestorOrSelf
<1>7. SwitchThreshold(S)
  <2>1. last # NoSlot
    BY <1>4 DEF NoSlot
  <2>2. CanSwitch(tower[v], x)
    BY Zenon DEF Vote
  <2> QED
    BY <1>6, <2>1, <2>2, Zenon DEF CanSwitch
<1>8. \A u \in S : Barred(u, s)
  BY <1>4, <1>5, SwitchIsLost
<1> QED
  BY <1>7, <1>8

(* Every vote preserves the inductive invariant. *)
LEMMA VoteCInv ==
  ASSUME CInv, NEW v \in Validator, NEW x \in Blocks, Vote(v, x)
  PROVE  CInv'
<1>1. TowersOK /\ LockoutsKept /\ \A s \in Blocks : LeftWhenLost(s)
  BY DEF CInv
<1>2. TowersOK' /\ LockoutsKept'
  BY <1>1, VoteTowers
<1>3. /\ ancestors' = ancestors /\ Blocks' = Blocks
      /\ sent'[v] = sent[v] \cup {tower'[v]}
      /\ \A u \in Validator : u # v => sent'[u] = sent[u]
      /\ MayFollow(ancestors, tower[v], x)
      /\ tower'[v] = PushVote(tower[v], x)
  BY <1>1, VoteFacts DEF Blocks
<1>4. LastVotedSlot(tower'[v]) = x
  <2>1. /\ IsTree(ancestors) /\ MAX_LOCKOUT_HISTORY > 1
        /\ OnFork(ancestors, tower[v])
    BY <1>1, TreeFacts, Zenon DEF TowersOK
  <2>2. x \in DOMAIN ancestors
    BY Zenon DEF Blocks
  <2>3. MayFollow(ancestors, tower[v], x)
    BY <1>3, Zenon
  <2>4. LastVotedSlot(PushVote(tower[v], x)) = x
    BY <2>1, <2>2, <2>3, VoteOnFork, Zenon
  <2> QED
    BY <1>3, <2>4, Zenon
<1>5. TypeOK /\ x \in Nat
  BY <1>1, TreeFacts DEF TowersOK
<1>6. ASSUME NEW s \in Blocks, NEW u \in Validator, Left(u, s)'
      PROVE  \E S \in SUBSET Validator : SwitchThreshold(S) /\ \A w \in S : Barred(w, s)
  <2>1. CASE \E w \in Validator : Left(w, s)
    BY <1>1, <2>1 DEF LeftWhenLost
  <2>2. CASE \A w \in Validator : ~Left(w, s)
    <3>1. PICK t \in sent'[u], y \in sent'[u] :
            /\ LastVotedSlot(t) = s /\ LastVotedSlot(y) > s
            /\ s \notin ancestors[LastVotedSlot(y)]
      BY <1>3, <1>6 DEF Left
    <3>2. u = v
      BY <1>3, <2>2, <3>1 DEF Left
    <3>3. /\ t \in sent[v] \/ t = tower'[v]
          /\ y \in sent[v] \/ y = tower'[v]
          /\ ~(t \in sent[v] /\ y \in sent[v])
      BY <1>3, <2>2, <3>1, <3>2 DEF Left
    <3>4. s \in Nat
      BY <1>5, TreeFacts
    <3>5. t # tower'[v]
      <4>1. LastVotedSlot(y) <= x
        BY <1>2, <1>4, <3>2 DEF TowersOK
      <4>2. OnFork(ancestors, y)
        BY <1>2, <1>3 DEF TowersOK
      <4>3. LastVotedSlot(y) \in Slot \cup {NoSlot}
        BY <4>2, LastVoteNewest DEF OnFork
      <4> QED
        BY <1>4, <1>5, <3>1, <4>1, <4>3 DEF Slot, NoSlot
    <3>6. t \in sent[v] /\ y = tower'[v]
      BY <3>3, <3>5
    <3>7. s < x /\ s \notin ancestors[x]
      BY <1>4, <1>5, <3>1, <3>4, <3>6
    <3> QED
      BY <1>1, <2>2, <3>1, <3>6, <3>7, FirstToLeave
  <2> QED
    BY <2>1, <2>2
<1>7. ASSUME NEW s \in Blocks PROVE LeftWhenLost(s)'
  <2> SUFFICES ASSUME NEW u \in Validator, Left(u, s)'
               PROVE  \E S \in SUBSET Validator :
                        SwitchThreshold(S) /\ \A w \in S : Barred(w, s)'
    BY DEF LeftWhenLost
  <2>1. PICK S \in SUBSET Validator :
          SwitchThreshold(S) /\ \A w \in S : Barred(w, s)
    BY <1>6
  <2>2. \A w \in S : Barred(w, s)'
    BY <1>1, <2>1, VoteKeepsBarred
  <2> QED
    BY <2>1, <2>2
<1> QED
  BY <1>2, <1>3, <1>7 DEF CInv

(* No vote has been sent, and nobody has left a fork. *)
LEMMA InitCInv == Init => CInv
<1> SUFFICES ASSUME Init PROVE CInv
  OBVIOUS
<1> DEFINE t0 == [votes |-> <<>>, root |-> 0]
<1>1. /\ ancestors \in Trees /\ tower = [v \in Validator |-> t0]
      /\ sent = [v \in Validator |-> {}]
  BY DEF Init
<1>2. t0 \in VoteState
  BY DEF VoteState, Slot
<1>3. TypeOK
  BY <1>1, <1>2 DEF TypeOK
<1>4. OnFork(ancestors, t0)
  <2>1. VotedSlots(t0) = {} /\ VotesAboveRoot(t0)
    BY DEF VotedSlots, VotesAboveRoot
  <2>2. WellFormedVotes(t0.votes)
    BY LockoutAssumption DEF WellFormedVotes
  <2>3. 0 \in DOMAIN ancestors
    BY <1>3, TreeFacts DEF Blocks
  <2> QED
    BY <1>2, <2>1, <2>2, <2>3 DEF OnFork
<1>5. TowersOK
  BY <1>1, <1>3, <1>4 DEF TowersOK
<1> QED
  BY <1>1, <1>5 DEF CInv, LockoutsKept, LeftWhenLost, Left

(* Every step of the cluster, a vote or a stutter, preserves the inductive *)
(* invariant.                                                              *)
LEMMA NextCInv == CInv /\ [Next]_vars => CInv'
<1> SUFFICES ASSUME CInv, [Next]_vars PROVE CInv'
  OBVIOUS
<1>1. CASE Next
  BY <1>1, VoteCInv DEF Next
<1>2. CASE UNCHANGED vars
  <2>1. ancestors' = ancestors /\ tower' = tower /\ sent' = sent /\ Blocks' = Blocks
    BY <1>2 DEF vars, Blocks
  <2>2. TowersOK' /\ LockoutsKept'
    BY <2>1 DEF CInv, TowersOK, TypeOK, LockoutsKept
  <2>3. \A s \in Blocks : LeftWhenLost(s) => LeftWhenLost(s)'
    BY <2>1 DEF LeftWhenLost, Left, Barred, IsAncestorOrSelf
  <2> QED
    BY <2>1, <2>2, <2>3 DEF CInv
<1> QED
  BY <1>1, <1>2

-----------------------------------------------------------------------------
(* The inductive invariant behind optimistic confirmation: towers stay on  *)
(* one fork, lockouts are remembered, and a fork is left only once more    *)
(* stake than the switch threshold is lost for the block left behind.      *)
THEOREM ClusterInvariance == Spec => []CInv
  BY InitCInv, NextCInv, PTL DEF Spec

(* TypeOK holds for every cluster. *)
THEOREM ClusterTypeCorrect == Spec => []TypeOK
<1>1. CInv => TypeOK
  BY DEF CInv, TowersOK
<1> QED
  BY <1>1, ClusterInvariance, PTL

(* is_locked_out, asked before every vote, is enough for a validator to    *)
(* honour every lockout it has ever sent.                                  *)
THEOREM LockoutsAreKept == Spec => []LockoutsKept
<1>1. CInv => LockoutsKept
  BY DEF CInv
<1> QED
  BY <1>1, ClusterInvariance, PTL

(* The units of stake can be counted. *)
LEMMA StakeUnitsFinite ==
  ASSUME NEW S \in SUBSET Validator
  PROVE  IsFiniteSet(StakeUnits(S))
<1> USE Zenon
<1> DEFINE U == {{v} \X (1..Stake[v]) : v \in S}
           f == [v \in S |-> {v} \X (1..Stake[v])]
<1>1. IsFiniteSet(S)
  BY StakeAssumption, FS_Subset
<1>2. f \in Surjection(S, U)
  BY DEF Surjection
<1>3. IsFiniteSet(U)
  BY <1>1, <1>2, FS_Surjection
<1>4. \A T \in U : IsFiniteSet(T)
  <2> SUFFICES ASSUME NEW v \in S PROVE IsFiniteSet({v} \X (1..Stake[v]))
    OBVIOUS
  <2>1. Stake[v] \in Int /\ 1 \in Int
    BY StakeAssumption, SMT
  <2>2. IsFiniteSet(1..Stake[v])
    BY <2>1, FS_Interval
  <2> QED
    BY <2>2, FS_Singleton, FS_Product
<1> QED
  BY <1>3, <1>4, FS_UNION DEF StakeUnits

(* Two sets without a common validator hold no more than all the stake. *)
LEMMA DisjointStakes ==
  ASSUME NEW Q \in SUBSET Validator, NEW S \in SUBSET Validator, Q \cap S = {}
  PROVE  /\ StakeOf(Q) \in Nat /\ StakeOf(S) \in Nat /\ TotalStake \in Nat
         /\ StakeOf(Q) + StakeOf(S) <= TotalStake
<1> DEFINE UQ == StakeUnits(Q)
           US == StakeUnits(S)
           UV == StakeUnits(Validator)
<1>1. IsFiniteSet(UQ) /\ IsFiniteSet(US) /\ IsFiniteSet(UV)
  BY StakeUnitsFinite
<1>2. UQ \cup US \in SUBSET UV
  BY Zenon DEF StakeUnits
<1>3. UQ \cap US = {}
  <2>1. \A X : \A e \in StakeUnits(X) : e[1] \in X
    BY DEF StakeUnits
  <2> QED
    BY <2>1, Zenon
<1>4. /\ StakeOf(Q) = Cardinality(UQ) /\ StakeOf(S) = Cardinality(US)
      /\ TotalStake = Cardinality(UV)
  BY DEF StakeOf, StakeSum, TotalStake
<1> HIDE DEF UQ, US, UV
<1>5. Cardinality(UQ \cup US) <= Cardinality(UV)
  BY <1>1, <1>2, FS_Subset, Zenon
<1>6. /\ Cardinality(UQ) \in Nat /\ Cardinality(US) \in Nat /\ Cardinality(UV) \in Nat
      /\ Cardinality(UQ \cup US) =
           Cardinality(UQ) + Cardinality(US) - Cardinality(UQ \cap US)
  BY <1>1, FS_Union, FS_CardinalityType, Zenon
<1>7. Cardinality(UQ \cap US) = 0
  BY <1>3, FS_EmptySet, Zenon
<1> QED
  BY <1>4, <1>5, <1>6, <1>7

(* Two thirds of the stake and 38% of it overlap, and so do two thirds and *)
(* two thirds.                                                             *)
LEMMA QuorumsOverlap ==
  ASSUME NEW Q \in SUBSET Validator, NEW S \in SUBSET Validator,
         ConfirmThreshold(Q), SwitchThreshold(S) \/ ConfirmThreshold(S)
  PROVE  Q \cap S # {}
<1> SUFFICES ASSUME Q \cap S = {} PROVE FALSE
  OBVIOUS
<1> DEFINE q == StakeOf(Q)
           s == StakeOf(S)
           t == TotalStake
<1>1. q \in Nat /\ s \in Nat /\ t \in Nat /\ q + s <= t
  BY DisjointStakes
<1>2. q > (2 * t) \div 3 /\ (100 * s > 38 * t \/ s > (2 * t) \div 3)
  BY DEF ConfirmThreshold, SwitchThreshold
<1> HIDE DEF q, s, t
<1>3. 3 * q > 2 * t
  BY <1>1, <1>2
<1>4. 100 * s > 38 * t \/ 3 * s > 2 * t
  BY <1>1, <1>2
<1> QED
  BY <1>1, <1>3, <1>4

(* With the overlap of the two thresholds, a block two thirds have voted   *)
(* on is never left by whoever voted on it.                                *)
LEMMA CInvConfirmersStay == CInv => ConfirmersStay
<1> SUFFICES ASSUME CInv, NEW s \in Blocks, Confirmed(s),
                    NEW v \in VotedOn(s), NEW t \in sent[v],
                    LastVotedSlot(t) > s, s \notin ancestors[LastVotedSlot(t)]
             PROVE  FALSE
  BY DEF ConfirmersStay
<1>1. v \in Validator /\ Left(v, s)
  BY DEF VotedOn, Left
<1>2. PICK S \in SUBSET Validator : SwitchThreshold(S) /\ \A u \in S : Barred(u, s)
  BY <1>1 DEF CInv, LeftWhenLost
<1>3. PICK u \in VotedOn(s) : u \in S
  <2>1. VotedOn(s) \in SUBSET Validator /\ ConfirmThreshold(VotedOn(s))
    BY DEF VotedOn, Confirmed
  <2>2. VotedOn(s) \cap S # {}
    BY <1>2, <2>1, QuorumsOverlap, Zenon
  <2> QED
    BY <2>2
<1> QED
  BY <1>2, <1>3 DEF Barred, VotedOn

(* Once two thirds of the stake have voted on a block, check_switch_threshold *)
(* lets no validator that voted on it vote on another fork.                *)
THEOREM ConfirmersNeverLeave == Spec => []ConfirmersStay
  BY CInvConfirmersStay, ClusterInvariance, PTL

(* Two confirmed blocks share a voter, who stayed on the older one's fork. *)
LEMMA CInvConfirmedOnOneFork == CInv => ConfirmedOnOneFork
<1> SUFFICES ASSUME CInv, NEW a \in Blocks, NEW b \in Blocks,
                    Confirmed(a), Confirmed(b)
             PROVE  IsAncestorOrSelf(a, b) \/ IsAncestorOrSelf(b, a)
  BY DEF ConfirmedOnOneFork
<1>1. ConfirmersStay
  BY CInvConfirmersStay
<1>2. PICK v \in VotedOn(a) : v \in VotedOn(b)
  <2>1. /\ VotedOn(a) \in SUBSET Validator /\ VotedOn(b) \in SUBSET Validator
        /\ ConfirmThreshold(VotedOn(a)) /\ ConfirmThreshold(VotedOn(b))
    BY DEF VotedOn, Confirmed
  <2>2. VotedOn(a) \cap VotedOn(b) # {}
    BY <2>1, QuorumsOverlap, Zenon
  <2> QED
    BY <2>2
<1>3. PICK t \in sent[v], y \in sent[v] : LastVotedSlot(t) = a /\ LastVotedSlot(y) = b
  BY <1>2 DEF VotedOn
<1>4. a \in Nat /\ b \in Nat
  BY TreeFacts DEF CInv, TowersOK
<1>5. CASE a < b
  BY <1>1, <1>2, <1>3, <1>4, <1>5 DEF ConfirmersStay, IsAncestorOrSelf
<1>6. CASE b < a
  BY <1>1, <1>2, <1>3, <1>4, <1>6 DEF ConfirmersStay, IsAncestorOrSelf
<1>7. CASE a = b
  BY <1>7 DEF IsAncestorOrSelf
<1> QED
  BY <1>4, <1>5, <1>6, <1>7

(* Optimistic confirmation is safe: two blocks that two thirds of the      *)
(* stake have voted on are never on different forks.                       *)
THEOREM OptimisticConfirmationSafe == Spec => []ConfirmedOnOneFork
  BY CInvConfirmedOnOneFork, ClusterInvariance, PTL
=============================================================================
