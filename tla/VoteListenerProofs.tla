------------------------- MODULE VoteListenerProofs -------------------------
(***************************************************************************)
(* The vote listener for every set of validators, stake, tree of blocks,   *)
(* set of votes and size of a batch: what it counts was cast, what it      *)
(* announces it announces once, and nothing it confirmed is forgotten.     *)
(***************************************************************************)
EXTENDS VoteListener, FiniteSetTheorems, TLAPS

(* Stake adds up, because no unit of it is held twice. *)
LEMMA StakeUnitsFinite ==
  ASSUME NEW S \in SUBSET Validator
  PROVE  IsFiniteSet(StakeUnits(S))
<1> USE Zenon
<1> DEFINE U == {{v} \X (1..Stake[v]) : v \in S}
           f == [v \in S |-> {v} \X (1..Stake[v])]
<1>1. IsFiniteSet(S)
  BY StakeAssumption, FS_Subset
<1>2. f \in Surjection(S, U)
  BY DEF Surjection
<1>3. IsFiniteSet(U)
  BY <1>1, <1>2, FS_Surjection
<1>4. \A T \in U : IsFiniteSet(T)
  <2> SUFFICES ASSUME NEW v \in S PROVE IsFiniteSet({v} \X (1..Stake[v]))
    OBVIOUS
  <2>1. Stake[v] \in Int /\ 1 \in Int
    BY StakeAssumption, SMT
  <2>2. IsFiniteSet(1..Stake[v])
    BY <2>1, FS_Interval
  <2> QED
    BY <2>2, FS_Singleton, FS_Product
<1> QED
  BY <1>3, <1>4, FS_UNION DEF StakeUnits

(* The stake of disjoint sets adds up. *)
LEMMA StakeAdds ==
  ASSUME NEW A \in SUBSET Validator, NEW B \in SUBSET Validator, A \cap B = {}
  PROVE  /\ StakeOf(A) \in Nat /\ StakeOf(B) \in Nat
         /\ StakeOf(A \cup B) = StakeOf(A) + StakeOf(B)
<1>1. IsFiniteSet(StakeUnits(A)) /\ IsFiniteSet(StakeUnits(B))
  BY StakeUnitsFinite
<1>2. StakeUnits(A \cup B) = StakeUnits(A) \cup StakeUnits(B)
  BY Zenon DEF StakeUnits
<1>3. StakeUnits(A) \cap StakeUnits(B) = {}
  <2>1. \A S : \A e \in StakeUnits(S) : e[1] \in S
    BY DEF StakeUnits
  <2> QED
    BY <2>1, Zenon
<1>4. Cardinality(StakeUnits(A) \cap StakeUnits(B)) = 0
  BY <1>3, FS_EmptySet, Zenon
<1>5. /\ Cardinality(StakeUnits(A)) \in Nat /\ Cardinality(StakeUnits(B)) \in Nat
      /\ Cardinality(StakeUnits(A) \cup StakeUnits(B)) =
           Cardinality(StakeUnits(A)) + Cardinality(StakeUnits(B))
             - Cardinality(StakeUnits(A) \cap StakeUnits(B))
  BY <1>1, FS_Union, FS_CardinalityType, Zenon
<1>6. /\ StakeOf(A) = Cardinality(StakeUnits(A))
      /\ StakeOf(B) = Cardinality(StakeUnits(B))
      /\ StakeOf(A \cup B) = Cardinality(StakeUnits(A \cup B))
  BY DEF StakeOf, StakeSum
<1> DEFINE a == Cardinality(StakeUnits(A))
           b == Cardinality(StakeUnits(B))
<1>7. a \in Nat /\ b \in Nat /\ StakeOf(A) = a /\ StakeOf(B) = b
  BY <1>5, <1>6, Zenon
<1>8. StakeOf(A \cup B) = a + b - 0
  BY <1>2, <1>4, <1>5, <1>6, Zenon
<1> HIDE DEF a, b
<1> QED
  BY <1>7, <1>8

(* The stake of one validator is its own. *)
LEMMA StakeOfOne ==
  ASSUME NEW v \in Validator
  PROVE  StakeOf({v}) = Stake[v]
<1>1. Stake[v] \in Nat
  BY StakeAssumption
<1>2. IsFiniteSet(1..Stake[v]) /\ Cardinality(1..Stake[v]) = Stake[v]
  <2>1. Stake[v] \in Int /\ 1 \in Int
    BY <1>1
  <2>2. /\ IsFiniteSet(1..Stake[v])
        /\ Cardinality(1..Stake[v]) = IF 1 > Stake[v] THEN 0 ELSE Stake[v] - 1 + 1
    BY <2>1, FS_Interval, Zenon
  <2> QED
    BY <1>1, <2>2
<1>3. IsFiniteSet({v}) /\ Cardinality({v}) = 1
  BY FS_Singleton, Zenon
<1>4. Cardinality({v} \X (1..Stake[v])) = Cardinality({v}) * Cardinality(1..Stake[v])
  BY <1>2, <1>3, FS_Product, Zenon
<1>5. StakeUnits({v}) = {v} \X (1..Stake[v])
  BY Zenon DEF StakeUnits
<1>6. StakeOf({v}) = Cardinality(StakeUnits({v}))
  BY DEF StakeOf, StakeSum
<1>7. StakeOf({v}) = 1 * Stake[v]
  BY <1>2, <1>3, <1>4, <1>5, <1>6, Zenon
<1> QED
  BY <1>1, <1>7

(* No validators hold no stake. *)
LEMMA StakeOfNone == StakeOf({}) = 0
<1>1. StakeUnits({}) = {}
  BY Zenon DEF StakeUnits
<1> QED
  BY <1>1, FS_EmptySet DEF StakeOf, StakeSum

-----------------------------------------------------------------------------
(* The banks: frozen blocks come with their ancestors, and one to a slot   *)
(* unless a pruned slot was cleared for repair; those that stay descend    *)
(* from the root, those that were pruned do not, and the listener's root   *)
(* is the root of BankForks or an ancestor of it.                          *)
Frozen == banks \cup pruned

BankInv ==
  /\ bank_root \in banks
  /\ \A x \in Frozen : Fork[x] \subseteq Frozen
  /\ \A x, y \in Frozen :
       SlotOf[x] = SlotOf[y] => x = y \/ SlotOf[x] \in repaired
  /\ \A x \in banks : bank_root \in Fork[x]
  /\ \A x \in pruned : bank_root \notin Fork[x]
  /\ root \in Fork[bank_root]

(* The batch: between batches nothing is pending; what a batch noted is    *)
(* above the root it began with; what it confirmed has a tracker.          *)
BatchInv ==
  /\ batch.size = 0 => DOMAIN diff = {} /\ new_confirmed = {}
  /\ \A e \in DOMAIN diff : e[1] > SlotOf[root]
  /\ \A b \in new_confirmed : /\ SlotOf[b] > SlotOf[root]
                              /\ SlotOf[b] \in DOMAIN slot_vote_trackers

(* A block whose slot has no tracker has not been announced, or lies below *)
(* the root, where no vote is counted any more.                            *)
UntrackedInv ==
  \A b \in Block :
    SlotOf[b] \notin DOMAIN slot_vote_trackers =>
      \/ SlotOf[b] < SlotOf[root]
      \/ confirmations[b].duplicate = 0 /\ confirmations[b].optimistic = 0

IInv ==
  /\ TypeOK /\ BankInv /\ BatchInv /\ UntrackedInv
  /\ AnnouncedOnce /\ CountedVotesWereCast /\ VotersReachReplay
  /\ UncheckedSlotsHaveTrackers /\ UnrootedAreReported

(* What the order of the blocks says of two blocks of one fork. *)
LEMMA ForkFacts ==
  ASSUME NEW b \in Block, NEW a \in Fork[b]
  PROVE  /\ a \in Block /\ b \in Fork[b] /\ Fork[a] \subseteq Fork[b]
         /\ SlotOf[a] \in Nat /\ SlotOf[b] \in Nat
         /\ SlotOf[a] <= SlotOf[b]
         /\ a # b => SlotOf[a] < SlotOf[b]
  BY ListenerAssumption

(* A new tracker has counted nobody. *)
LEMMA NewTrackerType ==
  /\ NewTracker \in Tracker
  /\ NewTracker.voted_slot_updates = {} /\ NewTracker.gossip_only_stake = 0
  /\ DOMAIN NewTracker.voted = {}
  /\ \A b \in Block : /\ NewTracker.optimistic[b].voted = {}
                      /\ NewTracker.optimistic[b].stake = 0
<1>1. << >> \in [{} -> BOOLEAN] /\ DOMAIN << >> = {}
  OBVIOUS
<1>2. << >> \in UNION {[V -> BOOLEAN] : V \in SUBSET Validator}
  BY <1>1, Zenon
<1> QED
  BY <1>1, <1>2 DEF NewTracker, Tracker

(* What the assumption says of one scenario. *)
LEMMA ScenarioFacts ==
  ASSUME NEW c \in Scenarios
  PROVE  c.batch \in Nat /\ \A m \in c.votes : IsVote(m)
  BY ListenerAssumption

(* At the start nothing has been counted. *)
LEMMA InitIInv == Init => IInv
<1> SUFFICES ASSUME Init PROVE IInv
  OBVIOUS
<1>1. << >> \in [{} -> Tracker] /\ << >> \in [{} -> BOOLEAN] /\ DOMAIN << >> = {}
  OBVIOUS
<1>2. Genesis \in Block /\ \A b \in Block : SlotOf[b] \in Nat /\ SlotOf[b] \in Slot
  BY ListenerAssumption DEF Slot
<1>3. TypeOK
  <2>1. scenario.batch \in Nat
    BY ScenarioFacts DEF Init
  <2>2. \E S \in SUBSET Slot : slot_vote_trackers \in [S -> Tracker]
    BY <1>1, Zenon DEF Init
  <2>3. \E E \in SUBSET (Slot \X Validator) : diff \in [E -> BOOLEAN]
    BY <1>1, Zenon DEF Init
  <2>4. batch \in [size : 0..scenario.batch, replay : BOOLEAN]
    BY <2>1 DEF Init, NoBatch
  <2> QED
    BY <1>2, <2>2, <2>3, <2>4, Zenon DEF Init, TypeOK
<1>4. BankInv
  <2>1. Fork[Genesis] = {Genesis}
    <3>1. \A a \in Fork[Genesis] : a \in Block /\ Genesis \in Fork[a]
      BY ListenerAssumption
    <3>2. \A a \in Fork[Genesis] : SlotOf[a] >= SlotOf[Genesis]
      BY <3>1, <1>2, ForkFacts
    <3> QED
      BY <3>2, ListenerAssumption
  <2> QED
    BY <2>1 DEF Init, BankInv, Frozen
<1>5. BatchInv /\ UntrackedInv
  BY <1>1 DEF Init, BatchInv, UntrackedInv
<1>6. \A b \in Block : Voted(b) = {}
  BY <1>1, NewTrackerType DEF Init, Voted, OptimisticTracker
<1>7. AnnouncedOnce /\ CountedVotesWereCast /\ VotersReachReplay
  BY <1>1, <1>6 DEF Init, AnnouncedOnce, CountedVotesWereCast, VotersReachReplay
<1>8. UncheckedSlotsHaveTrackers /\ UnrootedAreReported
  BY DEF Init, UncheckedSlotsHaveTrackers, UnrootedAreReported
<1> QED
  BY <1>3, <1>4, <1>5, <1>7, <1>8, Zenon DEF IInv

-----------------------------------------------------------------------------
(* No voter is counted who was not before. *)
LEMMA SameVoters ==
  ASSUME IInv, scenario' = scenario, repaired \subseteq repaired',
         \A b \in Block : Voted(b)' \subseteq Voted(b)
  PROVE  CountedVotesWereCast'
<1> SUFFICES ASSUME NEW b \in Block, NEW u \in Voted(b)'
             PROVE  \E m \in scenario.votes :
                      /\ m.voter = u /\ SlotOf[b] \in m.slots
                      /\ b \in Fork[m.block] \/ SlotOf[b] \in repaired'
  BY Zenon DEF CountedVotesWereCast
<1>1. u \in Voted(b)
  OBVIOUS
<1>2. PICK m \in scenario.votes :
        /\ m.voter = u /\ SlotOf[b] \in m.slots
        /\ b \in Fork[m.block] \/ SlotOf[b] \in repaired
  BY <1>1, Zenon DEF IInv, CountedVotesWereCast
<1> QED
  BY <1>2, Zenon

(* The replay stage changes only the banks, and the listener reads only    *)
(* them.                                                                   *)
LEMMA OnlyBanksChange ==
  ASSUME IInv, TypeOK', BankInv', repaired \subseteq repaired',
         UNCHANGED <<scenario, root, trackVars, unchecked_slots, history>>
  PROVE  IInv'
<1> USE Zenon
<1>1. BatchInv' /\ UntrackedInv'
  BY DEF IInv, BatchInv, UntrackedInv, trackVars, history
<1>2. AnnouncedOnce'
  BY DEF IInv, AnnouncedOnce, Voted, OptimisticTracker, trackVars, history
<1>3. CountedVotesWereCast'
  <2>1. scenario' = scenario /\ \A b \in Block : Voted(b)' = Voted(b)
    BY DEF Voted, OptimisticTracker, trackVars
  <2>2. \A b \in Block : Voted(b)' \subseteq Voted(b)
    BY <2>1
  <2> QED
    BY <2>1, <2>2, SameVoters
<1>4. VotersReachReplay'
  BY DEF IInv, VotersReachReplay, trackVars, history
<1>5. UncheckedSlotsHaveTrackers' /\ UnrootedAreReported'
  BY DEF IInv, UncheckedSlotsHaveTrackers, UnrootedAreReported, trackVars,
               history
<1> QED
  BY <1>1, <1>2, <1>3, <1>4, <1>5 DEF IInv

(* A frozen bank brings a new slot, or one that was cleared, and has its   *)
(* ancestors frozen.                                                       *)
LEMMA FreezeBankIInv ==
  ASSUME IInv, NEW b \in Block, FreezeBank(b)
  PROVE  IInv'
<1>1. TypeOK'
  BY DEF IInv, TypeOK, FreezeBank, trackVars, history
<1>2. PICK p \in banks : Fork[b] = Fork[p] \cup {b}
  BY DEF FreezeBank
<1>3. BankInv'
  <2>1. /\ banks' = banks \cup {b} /\ pruned' = pruned /\ bank_root' = bank_root
        /\ root' = root /\ repaired' = repaired
        /\ \A x \in Frozen : SlotOf[x] = SlotOf[b] => SlotOf[b] \in repaired
    BY Zenon DEF FreezeBank, Frozen
  <2>2. Frozen' = Frozen \cup {b}
    BY <2>1 DEF Frozen
  <2>3. Fork[b] \subseteq Frozen' /\ bank_root \in Fork[b]
    BY <1>2, <2>2, Zenon DEF IInv, BankInv, Frozen
  <2>4. \A x \in Frozen' : Fork[x] \subseteq Frozen'
    BY <2>2, <2>3, Zenon DEF IInv, BankInv
  <2>5. ASSUME NEW x \in Frozen', NEW y \in Frozen', SlotOf[x] = SlotOf[y], x # y
        PROVE  SlotOf[x] \in repaired'
    <3>1. CASE x \in Frozen /\ y \in Frozen
      BY <2>1, <2>5, <3>1, Zenon DEF IInv, BankInv
    <3>2. CASE x = b /\ y \in Frozen
      BY <2>1, <2>5, <3>2, Zenon
    <3>3. CASE x \in Frozen /\ y = b
      BY <2>1, <2>5, <3>3, Zenon
    <3> QED
      BY <2>2, <2>5, <3>1, <3>2, <3>3, Zenon
  <2> QED
    BY <2>1, <2>3, <2>4, <2>5, Zenon DEF IInv, BankInv
<1> QED
  BY <1>1, <1>3, OnlyBanksChange, Zenon DEF FreezeBank

(* Clearing a slot that has left BankForks only widens the exception.      *)
LEMMA PurgePrunedIInv ==
  ASSUME IInv, NEW s \in Slot, PurgePruned(s)
  PROVE  IInv'
<1>1. /\ UNCHANGED <<scenario, banks, bank_root, pruned, root, trackVars,
                     unchecked_slots, history>>
      /\ repaired' = repaired \cup {s}
  BY Zenon DEF PurgePruned
<1>2. repaired \subseteq repaired'
  BY <1>1, Zenon
<1>3. TypeOK'
  BY <1>1 DEF IInv, TypeOK, trackVars, history
<1>4. BankInv'
  BY <1>1, <1>2, Zenon DEF IInv, BankInv, Frozen
<1> QED
  BY <1>1, <1>2, <1>3, <1>4, OnlyBanksChange, Zenon

(* Dumping takes the descendants along and spares the root. *)
LEMMA DumpSlotsIInv ==
  ASSUME IInv, NEW b \in Block, DumpSlots(b)
  PROVE  IInv'
<1> USE Zenon
<1>1. TypeOK'
  BY SMT DEF IInv, TypeOK, DumpSlots, trackVars, history
<1>2. BankInv'
  <2>1. /\ banks' = {x \in banks : b \notin Fork[x]} /\ b \in banks
        /\ pruned' = pruned /\ bank_root' = bank_root /\ root' = root
        /\ repaired' = repaired
    BY DEF DumpSlots
  <2>2. b \notin Fork[bank_root]
    <3>1. bank_root \in Block /\ SlotOf[b] > SlotOf[bank_root]
      BY SMT DEF IInv, TypeOK, DumpSlots
    <3>2. b \in Fork[bank_root] => SlotOf[b] <= SlotOf[bank_root]
                                   /\ SlotOf[b] \in Nat /\ SlotOf[bank_root] \in Nat
      BY <3>1, ForkFacts
    <3> QED
      BY <3>1, <3>2, SMT
  <2>3. \A x \in pruned : b \notin Fork[x]
    <3>1. bank_root \in Fork[b] /\ pruned \subseteq Block
      BY <2>1 DEF IInv, BankInv, TypeOK
    <3>2. \A x \in pruned : b \in Fork[x] => Fork[b] \subseteq Fork[x]
      BY <3>1, ForkFacts
    <3> QED
      BY <3>1, <3>2 DEF IInv, BankInv
  <2>4. Frozen' = {x \in Frozen : b \notin Fork[x]}
    BY <2>1, <2>3 DEF Frozen
  <2>5. \A x \in Frozen : \A a \in Fork[x] : a \in Frozen /\ Fork[a] \subseteq Fork[x]
    <3>1. Frozen \subseteq Block
      BY DEF IInv, TypeOK, Frozen
    <3> QED
      BY <3>1, ForkFacts DEF IInv, BankInv
  <2>6. \A x \in Frozen' : Fork[x] \subseteq Frozen'
    BY <2>4, <2>5
  <2> QED
    BY <2>1, <2>2, <2>4, <2>6 DEF IInv, BankInv
<1> QED
  BY <1>1, <1>2, OnlyBanksChange DEF DumpSlots

(* What does not descend from the new root is pruned. *)
LEMMA SetRootIInv ==
  ASSUME IInv, NEW r \in Block, SetRoot(r)
  PROVE  IInv'
<1> USE Zenon
<1>1. /\ r \in banks /\ bank_root' = r /\ banks' = {x \in banks : r \in Fork[x]}
      /\ pruned' = pruned \cup (banks \ banks') /\ root' = root
      /\ repaired' = repaired
  BY DEF SetRoot
<1>2. TypeOK'
  BY <1>1, SMT DEF IInv, TypeOK, SetRoot, trackVars, history
<1>3. BankInv'
  <2>1. Frozen' = Frozen
    BY <1>1 DEF Frozen
  <2>2. r \in Fork[r] /\ bank_root \in Fork[r]
    BY <1>1, ListenerAssumption DEF IInv, BankInv
  <2>3. \A x \in Frozen : r \in Fork[x] => Fork[r] \subseteq Fork[x]
    BY ForkFacts DEF IInv, TypeOK, Frozen
  <2>4. \A x \in pruned' : r \notin Fork[x]
    BY <1>1, <2>2, <2>3 DEF IInv, BankInv, Frozen
  <2>5. root \in Fork[r]
    BY <1>1, <2>2, <2>3, ForkFacts DEF IInv, BankInv
  <2> QED
    BY <1>1, <2>1, <2>2, <2>4, <2>5 DEF IInv, BankInv
<1> QED
  BY <1>2, <1>3, OnlyBanksChange DEF SetRoot

-----------------------------------------------------------------------------
(* The types of the trackers and of the diff, without quantifiers. *)
LEMMA TrackerFacts ==
  ASSUME TypeOK
  PROVE  /\ DOMAIN slot_vote_trackers \subseteq Slot
         /\ slot_vote_trackers \in [DOMAIN slot_vote_trackers -> Tracker]
         /\ diff \in [DOMAIN diff -> BOOLEAN]
         /\ DOMAIN diff \subseteq Slot \X Validator
<1>1. PICK S \in SUBSET Slot : slot_vote_trackers \in [S -> Tracker]
  BY Zenon DEF TypeOK
<1>2. PICK E \in SUBSET (Slot \X Validator) : diff \in [E -> BOOLEAN]
  BY Zenon DEF TypeOK
<1>3. DOMAIN slot_vote_trackers = S /\ DOMAIN diff = E
  BY <1>1, <1>2
<1> QED
  BY <1>1, <1>2, <1>3, Zenon

(* The parts of a tracker. *)
LEMMA TrackerParts ==
  ASSUME NEW t \in Tracker
  PROVE  /\ t.voted \in [DOMAIN t.voted -> BOOLEAN] /\ DOMAIN t.voted \subseteq Validator
         /\ t.voted_slot_updates \subseteq Validator /\ t.gossip_only_stake \in Nat
         /\ t.optimistic \in [Block -> [voted : SUBSET Validator, stake : Nat]]
<1>1. t.voted \in UNION {[V -> BOOLEAN] : V \in SUBSET Validator}
  BY DEF Tracker
<1>2. PICK V \in SUBSET Validator : t.voted \in [V -> BOOLEAN]
  BY <1>1, Zenon
<1>3. DOMAIN t.voted = V
  BY <1>2
<1> QED
  BY <1>2, <1>3 DEF Tracker

(* The first half of AnnouncedOnce, for one tracker. *)
StakesOK(t) ==
  /\ \A b \in Block : t.optimistic[b].stake = StakeOf(t.optimistic[b].voted)
  /\ t.gossip_only_stake = StakeOf({v \in DOMAIN t.voted : t.voted[v]})

(* AnnouncedOnce says it of every tracker. *)
LEMMA AnnouncedParts ==
  ASSUME AnnouncedOnce
  PROVE  \A s \in DOMAIN slot_vote_trackers : StakesOK(slot_vote_trackers[s])
  BY Zenon DEF AnnouncedOnce, StakesOK

(* Handing the new voters of a slot to the replay stage touches nothing    *)
(* else of its tracker.                                                    *)
LEMMA GetVotedSlotUpdatesIInv ==
  ASSUME IInv, NEW s \in Slot, GetVotedSlotUpdates(s)
  PROVE  IInv'
<1> USE Zenon
<1> DEFINE T == slot_vote_trackers
           U == slot_vote_trackers'
<1>1. /\ T \in [DOMAIN T -> Tracker] /\ DOMAIN T \subseteq Slot /\ s \in DOMAIN T
      /\ U = [T EXCEPT ![s].voted_slot_updates = {}]
  BY TrackerFacts, SMT DEF IInv, GetVotedSlotUpdates
<1>2. /\ UNCHANGED <<scenario, banks, bank_root, pruned, repaired, root,
                     latest_vote_slot, batch, diff, new_confirmed, unchecked_slots, reported,
                     confirmations>>
      /\ propagated' = [propagated EXCEPT ![s] = @ \cup T[s].voted_slot_updates]
  BY DEF GetVotedSlotUpdates, bankVars
<1>3. /\ U \in [DOMAIN T -> Tracker] /\ DOMAIN U = DOMAIN T
      /\ \A x \in DOMAIN T : /\ U[x].voted = T[x].voted
                             /\ U[x].optimistic = T[x].optimistic
                             /\ U[x].gossip_only_stake = T[x].gossip_only_stake
      /\ \A x \in DOMAIN T \ {s} : U[x] = T[x]
      /\ U[s].voted_slot_updates = {}
  <2> DEFINE n == [T[s] EXCEPT !.voted_slot_updates = {}]
  <2>1. T[s] \in Tracker
    BY <1>1
  <2>2. /\ n \in Tracker /\ n.voted = T[s].voted /\ n.optimistic = T[s].optimistic
        /\ n.gossip_only_stake = T[s].gossip_only_stake
        /\ n.voted_slot_updates = {}
    BY <2>1, SMT DEF Tracker
  <2>3. U = [T EXCEPT ![s] = n]
    BY <1>1, SMT
  <2> HIDE DEF n
  <2> QED
    BY <1>1, <2>2, <2>3, SMT
<1>4. /\ propagated' \in [Slot -> SUBSET Validator]
      /\ propagated'[s] = propagated[s] \cup T[s].voted_slot_updates
      /\ \A x \in Slot \ {s} : propagated'[x] = propagated[x]
  <2>1. propagated \in [Slot -> SUBSET Validator]
    BY SMT DEF IInv, TypeOK
  <2>2. T[s] \in Tracker
    BY <1>1
  <2>3. T[s].voted_slot_updates \subseteq Validator
    BY <2>2, TrackerParts
  <2> HIDE DEF T
  <2> QED
    BY <1>2, <2>1, <2>3, SMT
<1>5. TypeOK'
  <2>1. \E S \in SUBSET Slot : U \in [S -> Tracker]
    BY <1>1, <1>3
  <2> QED
    BY <1>2, <1>4, <2>1 DEF IInv, TypeOK
<1>6. BankInv'
  BY <1>2 DEF IInv, BankInv, Frozen
<1>7. BatchInv' /\ UntrackedInv' /\ UncheckedSlotsHaveTrackers'
  BY <1>2, <1>3 DEF IInv, BatchInv, UntrackedInv, UncheckedSlotsHaveTrackers
<1>8. \A b \in Block : OptimisticTracker(b)' = OptimisticTracker(b)
  BY <1>3 DEF OptimisticTracker
<1>9. AnnouncedOnce' /\ CountedVotesWereCast'
  <2>1. \A b \in Block : Voted(b)' = Voted(b)
    BY <1>8 DEF Voted
  <2>2. \A x \in DOMAIN U : StakesOK(U[x])
    <3> SUFFICES ASSUME NEW x \in DOMAIN T PROVE StakesOK(U[x])
      BY <1>3
    <3>1. StakesOK(T[x])
      BY AnnouncedParts DEF IInv
    <3> QED
      BY <1>3, <3>1 DEF StakesOK
  <2>3. AnnouncedOnce'
    BY <1>2, <1>3, <2>1, <2>2 DEF IInv, AnnouncedOnce, StakesOK
  <2>4. CountedVotesWereCast'
    BY <1>2, <2>1, SameVoters
  <2> QED
    BY <2>3, <2>4
<1>10. UnrootedAreReported'
  BY <1>2 DEF IInv, UnrootedAreReported
<1>11. VotersReachReplay'
  <2> SUFFICES ASSUME NEW x \in DOMAIN T
               PROVE  DOMAIN T[x].voted \subseteq
                        U[x].voted_slot_updates \cup propagated'[x]
    BY <1>3 DEF VotersReachReplay
  <2>1. DOMAIN T[x].voted \subseteq T[x].voted_slot_updates \cup propagated[x]
    BY DEF IInv, VotersReachReplay
  <2>2. CASE x = s
    BY <1>4, <2>1, <2>2
  <2>3. CASE x # s
    <3>1. U[x] = T[x] /\ propagated'[x] = propagated[x]
      BY <1>1, <1>3, <1>4, <2>3
    <3> QED
      BY <2>1, <3>1
  <2> QED
    BY <2>2, <2>3
<1> QED
  BY <1>5, <1>6, <1>7, <1>9, <1>10, <1>11 DEF IInv

(* The listener's root only moves forward on its fork. *)
LEMMA RootMoves ==
  ASSUME IInv
  PROVE  /\ root \in Block /\ bank_root \in Block
         /\ Fork[root] \subseteq Fork[bank_root]
         /\ SlotOf[root] \in Nat /\ SlotOf[bank_root] \in Nat
         /\ SlotOf[root] <= SlotOf[bank_root]
         /\ \A b \in Block : SlotOf[b] \in Nat /\ SlotOf[b] \in Slot
<1>1. bank_root \in Block /\ root \in Fork[bank_root]
  BY Zenon DEF IInv, TypeOK, BankInv
<1>2. \A b \in Block : SlotOf[b] \in Nat /\ SlotOf[b] \in Slot
  BY ListenerAssumption DEF Slot
<1> QED
  BY <1>1, <1>2, ForkFacts, Zenon

(* A newer root takes nothing back. *)
LEMMA ReadRootIInv ==
  ASSUME IInv, ReadRoot
  PROVE  IInv'
<1> USE Zenon
<1>1. /\ batch.size = 0 /\ root' = bank_root
      /\ UNCHANGED <<scenario, banks, bank_root, pruned, repaired,
                     slot_vote_trackers, latest_vote_slot, batch, diff, new_confirmed,
                     unchecked_slots, reported, confirmations, propagated>>
  BY DEF ReadRoot, bankVars, trackVars, history
<1>2. TypeOK'
  BY <1>1 DEF IInv, TypeOK
<1>3. BankInv'
  BY <1>1, RootMoves, ListenerAssumption DEF IInv, BankInv, Frozen
<1>4. BatchInv'
  BY <1>1 DEF IInv, BatchInv
<1>5. UntrackedInv'
  <2>1. \A b \in Block : SlotOf[b] < SlotOf[root] => SlotOf[b] < SlotOf[bank_root]
    BY RootMoves, SMT
  <2> QED
    BY <1>1, <2>1 DEF IInv, UntrackedInv
<1>6. AnnouncedOnce' /\ CountedVotesWereCast'
  <2>1. AnnouncedOnce'
    BY <1>1 DEF IInv, AnnouncedOnce, Voted, OptimisticTracker
  <2>2. CountedVotesWereCast'
    BY <1>1 DEF IInv, CountedVotesWereCast, Voted, OptimisticTracker
  <2> QED
    BY <2>1, <2>2
<1>7. VotersReachReplay' /\ UncheckedSlotsHaveTrackers'
  BY <1>1 DEF IInv, VotersReachReplay, UncheckedSlotsHaveTrackers
<1>8. UnrootedAreReported'
  BY <1>1, RootMoves DEF IInv, UnrootedAreReported
<1> QED
  BY <1>2, <1>3, <1>4, <1>5, <1>6, <1>7, <1>8 DEF IInv

(* Purging keeps the trackers from the root on: no vote below it is        *)
(* counted any more, and no block below it is left to be verified.         *)
LEMMA ProcessRootIInv ==
  ASSUME IInv, ProcessRoot
  PROVE  IInv'
<1> USE Zenon
<1> DEFINE T == slot_vote_trackers
           U == slot_vote_trackers'
           r == SlotOf[bank_root]
<1>1. /\ batch.size = 0 /\ root' = bank_root
      /\ UNCHANGED <<scenario, banks, bank_root, pruned, repaired,
                     latest_vote_slot, batch, diff, new_confirmed, confirmations, propagated>>
      /\ reported' = reported \cup UnrootedOptimisticSlots(bank_root)
      /\ unchecked_slots' = {b \in unchecked_slots : SlotOf[b] > r}
      /\ U = PurgeStaleState(bank_root)
  BY DEF ProcessRoot, bankVars
<1>2. T \in [DOMAIN T -> Tracker] /\ DOMAIN T \subseteq Slot
  BY TrackerFacts, SMT DEF IInv
<1>3. /\ DOMAIN U = {s \in DOMAIN T : s >= r} /\ \A s \in DOMAIN U : U[s] = T[s]
      /\ U \in [DOMAIN U -> Tracker]
  BY <1>1, <1>2, SMT DEF PurgeStaleState, Restrict
<1>4. DOMAIN diff = {} /\ new_confirmed = {}
  BY <1>1 DEF IInv, BatchInv
<1>5. TypeOK'
  <2>1. \E S \in SUBSET Slot : U \in [S -> Tracker]
    <3>1. DOMAIN U \in SUBSET Slot
      BY <1>2, <1>3
    <3> QED
      BY <1>3, <3>1
  <2>2. root' \in Block /\ unchecked_slots' \subseteq Block /\ reported' \subseteq Block
    BY <1>1 DEF IInv, TypeOK, UnrootedOptimisticSlots
  <2> QED
    BY <1>1, <2>1, <2>2 DEF IInv, TypeOK
<1>6. BankInv'
  BY <1>1, RootMoves, ListenerAssumption DEF IInv, BankInv, Frozen
<1>7. BatchInv'
  BY <1>1, <1>4 DEF BatchInv
<1>8. UntrackedInv'
  <2> SUFFICES ASSUME NEW b \in Block, SlotOf[b] \notin DOMAIN U, ~(SlotOf[b] < r)
               PROVE  confirmations[b].duplicate = 0 /\ confirmations[b].optimistic = 0
    BY <1>1 DEF UntrackedInv
  <2>1. SlotOf[b] >= r /\ ~(SlotOf[b] < SlotOf[root])
    BY RootMoves, SMT
  <2>2. SlotOf[b] \notin DOMAIN T
    BY <1>3, <2>1
  <2> QED
    BY <2>1, <2>2 DEF IInv, UntrackedInv
<1>9. \A b \in Block : /\ SlotOf[b] \in DOMAIN U => SlotOf[b] \in DOMAIN T
                       /\ SlotOf[b] \in DOMAIN U => Voted(b)' = Voted(b)
                       /\ SlotOf[b] \notin DOMAIN U => Voted(b)' = {}
  BY <1>3, NewTrackerType DEF Voted, OptimisticTracker
<1>10. AnnouncedOnce'
  <2>1. \A s \in DOMAIN U : s \in DOMAIN T /\ StakesOK(U[s])
    BY <1>3, AnnouncedParts DEF IInv
  <2> QED
    BY <1>1, <1>9, <2>1 DEF IInv, AnnouncedOnce, StakesOK
<1>11. CountedVotesWereCast'
  <2>1. \A b \in Block : Voted(b)' \subseteq Voted(b)
    BY <1>9
  <2> QED
    BY <1>1, <2>1, SameVoters
<1>12. VotersReachReplay'
  BY <1>1, <1>3 DEF IInv, VotersReachReplay
<1>13. UncheckedSlotsHaveTrackers'
  <2> SUFFICES ASSUME NEW b \in unchecked_slots, SlotOf[b] > r
               PROVE  SlotOf[b] \in DOMAIN U
    BY <1>1 DEF UncheckedSlotsHaveTrackers
  <2>1. SlotOf[b] \in DOMAIN T /\ b \in Block
    BY DEF IInv, TypeOK, UncheckedSlotsHaveTrackers
  <2>2. SlotOf[b] >= r
    BY <2>1, RootMoves, SMT
  <2> QED
    BY <1>3, <2>1, <2>2
<1>14. UnrootedAreReported'
  <2> SUFFICES ASSUME NEW b \in Block, confirmations[b].optimistic > 0,
                      b \notin unchecked_slots', b \notin reported'
               PROVE  \E a \in Fork[bank_root] : SlotOf[a] = SlotOf[b]
    BY <1>1 DEF UnrootedAreReported
  <2>1. CASE b \in unchecked_slots
    <3>1. ~(SlotOf[b] > r)
      BY <1>1, <2>1
    <3>2. SlotOf[b] <= r
      BY <3>1, RootMoves, SMT
    <3>3. b \notin UnrootedOptimisticSlots(bank_root)
      BY <1>1
    <3> QED
      BY <2>1, <3>2, <3>3 DEF UnrootedOptimisticSlots
  <2>2. CASE b \notin unchecked_slots
    <3>1. b \notin reported
      BY <1>1
    <3>2. \E a \in Fork[root] : SlotOf[a] = SlotOf[b]
      BY <1>4, <2>2, <3>1 DEF IInv, UnrootedAreReported
    <3> QED
      BY <3>2, RootMoves
  <2> QED
    BY <2>1, <2>2
<1> QED
  BY <1>5, <1>6, <1>7, <1>8, <1>10, <1>11, <1>12, <1>13, <1>14 DEF IInv

-----------------------------------------------------------------------------
(* The stakes of a new tracker are right. *)
LEMMA NewTrackerStakes == StakesOK(NewTracker)
<1>1. {v \in DOMAIN NewTracker.voted : NewTracker.voted[v]} = {}
  BY NewTrackerType, Zenon
<1> QED
  BY <1>1, NewTrackerType, StakeOfNone, Zenon DEF StakesOK

(* The trackers that a batch needs are made, and those there were stay. *)
LEMMA WithTrackersFacts ==
  ASSUME IInv, NEW S \in SUBSET Slot
  PROVE  LET T == slot_vote_trackers
             W == WithTrackers(S)
         IN  /\ DOMAIN W = DOMAIN T \cup S /\ DOMAIN W \subseteq Slot
             /\ W = [s \in DOMAIN W |-> W[s]]
             /\ \A s \in DOMAIN T : W[s] = T[s]
             /\ \A s \in DOMAIN W \ DOMAIN T : W[s] = NewTracker
             /\ \A s \in DOMAIN W :
                  /\ W[s] \in Tracker /\ StakesOK(W[s])
                  /\ DOMAIN W[s].voted \subseteq
                       W[s].voted_slot_updates \cup propagated[s]
<1> USE Zenon
<1> DEFINE T == slot_vote_trackers
           W == WithTrackers(S)
<1>1. T \in [DOMAIN T -> Tracker] /\ DOMAIN T \subseteq Slot
  BY TrackerFacts, SMT DEF IInv
<1>2. /\ DOMAIN W = DOMAIN T \cup S
      /\ W = [s \in DOMAIN W |-> W[s]]
      /\ \A s \in DOMAIN T : W[s] = T[s]
      /\ \A s \in DOMAIN W \ DOMAIN T : W[s] = NewTracker
  BY SMT DEF WithTrackers
<1> HIDE DEF W
<1>3. \A s \in DOMAIN T : /\ T[s] \in Tracker /\ StakesOK(T[s])
                          /\ DOMAIN T[s].voted \subseteq
                               T[s].voted_slot_updates \cup propagated[s]
  BY <1>1, AnnouncedParts DEF IInv, VotersReachReplay
<1>4. \A s : /\ NewTracker \in Tracker /\ StakesOK(NewTracker)
             /\ DOMAIN NewTracker.voted \subseteq
                  NewTracker.voted_slot_updates \cup propagated[s]
  BY NewTrackerType, NewTrackerStakes
<1>5. \A s \in DOMAIN W : /\ W[s] \in Tracker /\ StakesOK(W[s])
                          /\ DOMAIN W[s].voted \subseteq
                               W[s].voted_slot_updates \cup propagated[s]
  <2> TAKE s \in DOMAIN W
  <2>1. CASE s \in DOMAIN T
    BY <1>2, <1>3, <2>1
  <2>2. CASE s \notin DOMAIN T
    <3>1. W[s] = NewTracker
      BY <1>2, <2>2
    <3> QED
      BY <1>4, <3>1
  <2> QED
    BY <2>1, <2>2
<1>6. DOMAIN W \subseteq Slot
  BY <1>1, <1>2
<1> QED
  BY <1>2, <1>5, <1>6 DEF W

Counter == [voted : SUBSET Validator, stake : Nat]

(* Counting a voter keeps the stake that of the voters, and a threshold is *)
(* reached by the vote that takes the stake across it.                     *)
LEMMA AddVotePubkeyFacts ==
  ASSUME NEW o \in Counter, NEW v \in Validator, o.stake = StakeOf(o.voted)
  PROVE  LET n == AddVotePubkey(o, v)
         IN  /\ n \in Counter /\ n.voted = o.voted \cup {v}
             /\ n.stake = StakeOf(n.voted) /\ n.stake >= o.stake
             /\ \A h \in Nat : Reached(o, v, h) =
                  IF o.stake <= h /\ h < n.stake THEN 1 ELSE 0
<1>1. o.voted \in SUBSET Validator /\ o.stake \in Nat /\ Stake[v] \in Nat
  BY StakeAssumption DEF Counter
<1>2. CASE v \in o.voted
  <2>1. AddVotePubkey(o, v) = o /\ o.voted = o.voted \cup {v}
    BY <1>2 DEF AddVotePubkey
  <2>2. \A h \in Nat : Reached(o, v, h) = 0 /\ ~(o.stake <= h /\ h < o.stake)
    BY <1>1, <1>2 DEF Reached
  <2> QED
    BY <1>1, <2>1, <2>2
<1>3. CASE v \notin o.voted
  <2> DEFINE n == AddVotePubkey(o, v)
  <2>1. n = [voted |-> o.voted \cup {v}, stake |-> o.stake + Stake[v]]
    BY <1>3 DEF AddVotePubkey
  <2>2. StakeOf(o.voted \cup {v}) = StakeOf(o.voted) + StakeOf({v})
    <3>1. {v} \in SUBSET Validator /\ o.voted \cap {v} = {}
      BY <1>3
    <3> QED
      BY <1>1, <3>1, StakeAdds, Zenon
  <2>3. n.voted = o.voted \cup {v} /\ n.stake = o.stake + Stake[v] /\ n \in Counter
    BY <1>1, <2>1 DEF Counter
  <2>4. n.stake = StakeOf(n.voted)
    BY <2>2, <2>3, StakeOfOne, Zenon
  <2>5. \A h \in Nat : Reached(o, v, h) = IF o.stake <= h /\ h < n.stake THEN 1 ELSE 0
    BY <1>3, <2>3, Zenon DEF Reached
  <2>6. n.stake >= o.stake
    BY <1>1, <2>3
  <2> QED
    BY <2>3, <2>4, <2>5, <2>6, Zenon
<1> QED
  BY <1>2, <1>3, Zenon

(* The thresholds are naturals. *)
LEMMA Thresholds == DuplicateStake \in Nat /\ OptimisticStake \in Nat
<1>1. StakeOf(Validator) \in Nat
  <2>1. Validator \in SUBSET Validator /\ {} \in SUBSET Validator /\ Validator \cap {} = {}
    OBVIOUS
  <2> QED
    BY <2>1, StakeAdds, Zenon
<1> QED
  BY <1>1 DEF DuplicateStake, OptimisticStake, TotalStake

(* The blocks that a vote is counted for are on the fork it is for: the    *)
(* cache knows one block to a slot, and with a block its ancestors, except *)
(* where a slot was cleared for repair and has two blocks.                 *)
LEMMA CountedOnFork ==
  ASSUME IInv, NEW m \in scenario.votes, NEW view \in SUBSET Frozen,
         NEW b \in Counted(m, view)
  PROVE  /\ b \in Block /\ SlotOf[b] > SlotOf[root]
         /\ SlotOf[b] \in m.slots
         /\ b \in Fork[m.block] \/ SlotOf[b] \in repaired
<1> USE Zenon
<1>1. IsVote(m)
  BY ScenarioFacts DEF IInv, TypeOK
<1>2. /\ m.block \in Block /\ m.slots \subseteq {SlotOf[x] : x \in Fork[m.block]}
      /\ m.block \in Fork[m.block]
  BY <1>1, ListenerAssumption DEF IsVote
<1>3. Frozen \subseteq Block
  BY DEF IInv, TypeOK, Frozen
<1>4. b \in Block /\ SlotOf[b] \in Above(m)
  BY <1>2, <1>3 DEF Counted
<1>5. SlotOf[b] \in m.slots /\ SlotOf[b] > SlotOf[root]
  BY <1>4 DEF Above
<1>6. b \in Fork[m.block] \/ SlotOf[b] \in repaired
  <2>1. CASE b = m.block
    BY <1>2, <2>1
  <2>2. CASE b # m.block
    <3>1. b \in view /\ m.block \in view
      BY <2>2 DEF Counted, AccumulateIntermediateVotes
    <3>2. PICK x \in Fork[m.block] : SlotOf[x] = SlotOf[b]
      BY <1>2, <1>5
    <3>3. x \in Frozen
      BY <3>1 DEF IInv, BankInv
    <3>4. x = b \/ SlotOf[b] \in repaired
      BY <3>1, <3>2, <3>3 DEF IInv, BankInv
    <3> QED
      BY <3>2, <3>4
  <2> QED
    BY <2>1, <2>2
<1> QED
  BY <1>4, <1>5, <1>6

(* Tracking a vote changes the counters of the blocks tracked and no other *)
(* part of a tracker.                                                      *)
LEMMA TrackFacts ==
  ASSUME IInv, NEW v \in Validator, NEW K \in SUBSET Block,
         slot_vote_trackers' = Track(v, K)
  PROVE  LET T == slot_vote_trackers
             U == slot_vote_trackers'
         IN  /\ DOMAIN U = DOMAIN T \cup {SlotOf[b] : b \in K}
             /\ DOMAIN U \subseteq Slot /\ U \in [DOMAIN U -> Tracker]
             /\ \A s \in DOMAIN U :
                  /\ StakesOK(U[s])
                  /\ DOMAIN U[s].voted \subseteq
                       U[s].voted_slot_updates \cup propagated[s]
             /\ \A b \in Block :
                  /\ OptimisticTracker(b) \in Counter
                  /\ OptimisticTracker(b).stake = StakeOf(OptimisticTracker(b).voted)
                  /\ OptimisticTracker(b)' =
                       IF b \in K THEN AddVotePubkey(OptimisticTracker(b), v)
                       ELSE OptimisticTracker(b)
<1> USE Zenon
<1> DEFINE T == slot_vote_trackers
           U == slot_vote_trackers'
           S == {SlotOf[b] : b \in K}
           W == WithTrackers(S)
           New(s, b) == IF b \in K /\ SlotOf[b] = s
                        THEN AddVotePubkey(W[s].optimistic[b], v)
                        ELSE W[s].optimistic[b]
<1>1. S \in SUBSET Slot
  BY SMT DEF Slot
<1>2. /\ DOMAIN W = DOMAIN T \cup S /\ DOMAIN W \subseteq Slot
      /\ \A s \in DOMAIN T : W[s] = T[s]
      /\ \A s \in DOMAIN W \ DOMAIN T : W[s] = NewTracker
      /\ \A s \in DOMAIN W :
           /\ W[s] \in Tracker /\ StakesOK(W[s])
           /\ DOMAIN W[s].voted \subseteq W[s].voted_slot_updates \cup propagated[s]
  BY <1>1, WithTrackersFacts
<1>3. U = [s \in DOMAIN W |-> [W[s] EXCEPT !.optimistic = [b \in Block |-> New(s, b)]]]
  BY SMT DEF Track
<1> HIDE DEF W
<1>4. \A s \in DOMAIN W : \A b \in Block :
        /\ W[s].optimistic[b] \in Counter
        /\ W[s].optimistic[b].stake = StakeOf(W[s].optimistic[b].voted)
  <2> TAKE s \in DOMAIN W
  <2>1. W[s].optimistic \in [Block -> [voted : SUBSET Validator, stake : Nat]]
    BY <1>2, TrackerParts
  <2>2. W[s].optimistic \in [Block -> Counter]
    BY <2>1 DEF Counter
  <2> QED
    BY <1>2, <2>2 DEF StakesOK
<1>5. \A s \in DOMAIN W : \A b \in Block :
        New(s, b) \in Counter /\ New(s, b).stake = StakeOf(New(s, b).voted)
  <2> TAKE s \in DOMAIN W
  <2> TAKE b \in Block
  <2>1. CASE b \in K /\ SlotOf[b] = s
    <3>1. New(s, b) = AddVotePubkey(W[s].optimistic[b], v)
      BY <2>1
    <3> QED
      BY <1>4, <3>1, AddVotePubkeyFacts
  <2>2. CASE ~(b \in K /\ SlotOf[b] = s)
    <3>1. New(s, b) = W[s].optimistic[b]
      BY <2>2
    <3> QED
      BY <1>4, <3>1
  <2> QED
    BY <2>1, <2>2
<1> HIDE DEF New
<1>6. DOMAIN U = DOMAIN W
  BY <1>3, SMT
<1>7. \A s \in DOMAIN W :
        /\ U[s] \in Tracker
        /\ U[s].voted = W[s].voted /\ U[s].voted_slot_updates = W[s].voted_slot_updates
        /\ U[s].gossip_only_stake = W[s].gossip_only_stake
        /\ \A b \in Block : U[s].optimistic[b] = New(s, b)
  <2> TAKE s \in DOMAIN W
  <2> DEFINE f == [b \in Block |-> New(s, b)]
             w == W[s]
  <2>1. f \in [Block -> Counter] /\ \A b \in Block : f[b] = New(s, b)
    BY <1>5, SMT
  <2>2. U[s] = [w EXCEPT !.optimistic = f] /\ w \in Tracker
    BY <1>2, <1>3, SMT
  <2> HIDE DEF f, w
  <2>3. /\ U[s] \in Tracker
        /\ U[s].voted = w.voted /\ U[s].voted_slot_updates = w.voted_slot_updates
        /\ U[s].gossip_only_stake = w.gossip_only_stake /\ U[s].optimistic = f
    BY <2>1, <2>2, SMT DEF Tracker, Counter
  <2> QED
    BY <2>1, <2>3 DEF w
<1>8. \A s \in DOMAIN U :
        /\ StakesOK(U[s])
        /\ DOMAIN U[s].voted \subseteq U[s].voted_slot_updates \cup propagated[s]
  <2> SUFFICES ASSUME NEW s \in DOMAIN W
               PROVE  /\ StakesOK(U[s])
                      /\ DOMAIN U[s].voted \subseteq
                           U[s].voted_slot_updates \cup propagated[s]
    BY <1>6
  <2>1. \A b \in Block : U[s].optimistic[b].stake = StakeOf(U[s].optimistic[b].voted)
    BY <1>5, <1>7
  <2>2. /\ W[s].gossip_only_stake = StakeOf({x \in DOMAIN W[s].voted : W[s].voted[x]})
        /\ DOMAIN W[s].voted \subseteq W[s].voted_slot_updates \cup propagated[s]
    BY <1>2 DEF StakesOK
  <2>3. /\ U[s].voted = W[s].voted /\ U[s].voted_slot_updates = W[s].voted_slot_updates
        /\ U[s].gossip_only_stake = W[s].gossip_only_stake
    BY <1>7
  <2> QED
    BY <2>1, <2>2, <2>3 DEF StakesOK
<1>9. U \in [DOMAIN U -> Tracker]
  BY <1>3, <1>6, <1>7, SMT
<1>10. \A b \in Block :
         /\ OptimisticTracker(b) \in Counter
         /\ OptimisticTracker(b).stake = StakeOf(OptimisticTracker(b).voted)
         /\ OptimisticTracker(b)' =
              IF b \in K THEN AddVotePubkey(OptimisticTracker(b), v)
              ELSE OptimisticTracker(b)
  <2> TAKE b \in Block
  <2>0. NewTracker.optimistic[b] \in Counter
        /\ NewTracker.optimistic[b].stake = StakeOf(NewTracker.optimistic[b].voted)
    BY NewTrackerType, NewTrackerStakes, SMT DEF StakesOK, Tracker, Counter
  <2>1. CASE SlotOf[b] \in DOMAIN W
    <3>1. OptimisticTracker(b) = W[SlotOf[b]].optimistic[b]
      BY <1>2, <2>1 DEF OptimisticTracker
    <3>2. OptimisticTracker(b)' = New(SlotOf[b], b)
      BY <1>6, <1>7, <2>1 DEF OptimisticTracker
    <3> QED
      BY <1>4, <2>1, <3>1, <3>2 DEF New
  <2>2. CASE SlotOf[b] \notin DOMAIN W
    <3>1. b \notin K /\ SlotOf[b] \notin DOMAIN T /\ SlotOf[b] \notin DOMAIN U
      BY <1>2, <1>6, <2>2
    <3>2. OptimisticTracker(b) = NewTracker.optimistic[b]
          /\ OptimisticTracker(b)' = NewTracker.optimistic[b]
      BY <3>1 DEF OptimisticTracker
    <3> QED
      BY <2>0, <3>1, <3>2
  <2> QED
    BY <2>1, <2>2
<1> QED
  BY <1>2, <1>6, <1>8, <1>9, <1>10

(* The later of two slots is one of them. *)
LEMMA LatestType ==
  ASSUME NEW S \in SUBSET Nat, NEW x \in S, NEW y \in S
  PROVE  Latest(x, y) \in S
<1>1. \E z \in {x, y} : \A w \in {x, y} : z >= w
  <2>1. x \in Nat /\ y \in Nat
    OBVIOUS
  <2>2. x >= y \/ y >= x
    BY <2>1
  <2>3. x >= x /\ y >= y
    BY <2>1
  <2> QED
    BY <2>2, <2>3, Zenon
<1>2. Max({x, y}) \in {x, y}
  BY <1>1, Zenon DEF Max
<1> QED
  BY <1>2, Zenon DEF Latest

(* What one vote does, in terms of the blocks it is counted for. *)
LEMMA ProcessVoteFacts ==
  ASSUME IInv, NEW m \in scenario.votes, NEW gossip \in BOOLEAN,
         ProcessVote(m, gossip)
  PROVE  /\ m.voter \in Validator
         /\ UNCHANGED <<scenario, banks, bank_root, pruned, repaired, root,
                        unchecked_slots, reported, propagated>>
         /\ batch'.size # 0 /\ batch' \in [size : 0..scenario.batch, replay : BOOLEAN]
         /\ latest_vote_slot' \in [Validator -> Slot \cup {0}]
         /\ DOMAIN diff' \subseteq Slot \X Validator
         /\ diff' \in [DOMAIN diff' -> BOOLEAN]
         /\ \A e \in DOMAIN diff' : e[1] > SlotOf[root]
         /\ \E K \in SUBSET Block :
              /\ \A b \in K : /\ SlotOf[b] > SlotOf[root]
                              /\ SlotOf[b] \in m.slots
                              /\ b \in Fork[m.block] \/ SlotOf[b] \in repaired
              /\ slot_vote_trackers' = Track(m.voter, K)
              /\ confirmations' = Announce(m.voter, K)
              /\ new_confirmed' = new_confirmed \cup
                   {b \in K : confirmations'[b].optimistic
                              > confirmations[b].optimistic}
<1> USE Zenon
<1>1. PICK cached \in SUBSET {b \in pruned : SlotOf[b] >= SlotOf[root]} :
        TrackNewVotes(m, gossip, View(cached))
  BY DEF ProcessVote
<1> DEFINE view == View(cached)
           C == Counted(m, view)
           V == Visited(m, gossip, C)
           K == {b \in C : SlotOf[b] \in V}
           v == m.voter
           hashless == {s \in V : AccumulateIntermediateVotes(m, view)
                                  /\ \A b \in K : SlotOf[b] # s}
           entries == {s \in V \ hashless : s >= latest_vote_slot[v]} \X {v}
<1>2. view \in SUBSET Frozen
  BY DEF Frozen, View
<1>3. /\ slot_vote_trackers' = Track(v, K) /\ confirmations' = Announce(v, K)
      /\ new_confirmed' = new_confirmed \cup
           {b \in K : confirmations'[b].optimistic > confirmations[b].optimistic}
      /\ diff' = [e \in DOMAIN diff \cup entries |->
                    \/ e \in DOMAIN diff /\ diff[e]
                    \/ e \in entries /\ gossip]
      /\ latest_vote_slot' =
           IF V # Above(m) THEN latest_vote_slot
           ELSE [latest_vote_slot EXCEPT ![v] = Latest(@, SlotOf[m.block])]
  <2>1. TrackNewVotes(m, gossip, view)
    BY <1>1
  <2> HIDE DEF view
  <2>2. PICK counted \in {Counted(m, view)} :
        \E visited \in {Visited(m, gossip, counted)} :
        \E tracked \in {{b \in counted : SlotOf[b] \in visited}} :
          CountVote(m, gossip, view, visited, tracked)
    BY <2>1 DEF TrackNewVotes
  <2>3. CountVote(m, gossip, view, V, K)
    BY <2>2
  <2> HIDE DEF V, K
  <2> QED
    BY <2>3, SMT DEF CountVote
<1> HIDE DEF view
<1>4. \A b \in C : /\ b \in Block /\ SlotOf[b] > SlotOf[root]
                   /\ SlotOf[b] \in m.slots
                   /\ b \in Fork[m.block] \/ SlotOf[b] \in repaired
  BY <1>2, CountedOnFork
<1>5. IsVote(m) /\ scenario.batch \in Nat
  BY ScenarioFacts DEF IInv, TypeOK
<1>6. /\ v \in Validator /\ m.block \in Block
      /\ m.slots \subseteq {SlotOf[b] : b \in Fork[m.block]}
  BY <1>5 DEF IsVote
<1>7. \A s \in m.slots : s \in Slot
  BY <1>6, ForkFacts DEF Slot
<1>8. \A s \in V : s \in Slot /\ s > SlotOf[root]
  BY <1>7 DEF Visited, Above
<1>9. \A e \in entries : e \in Slot \X Validator /\ e[1] > SlotOf[root]
  BY <1>6, <1>8, SMT
<1>10. /\ DOMAIN diff' = DOMAIN diff \cup entries
       /\ diff' \in [DOMAIN diff' -> BOOLEAN]
  BY <1>3, SMT
<1>11. /\ DOMAIN diff' \subseteq Slot \X Validator
       /\ \A e \in DOMAIN diff' : e[1] > SlotOf[root]
  <2>1. DOMAIN diff \subseteq Slot \X Validator
    BY TrackerFacts DEF IInv
  <2> HIDE DEF entries
  <2> QED
    BY <1>9, <1>10, <2>1 DEF IInv, BatchInv
<1>12. latest_vote_slot' \in [Validator -> Slot \cup {0}]
  <2>1. latest_vote_slot \in [Validator -> Slot \cup {0}]
    BY SMT DEF IInv, TypeOK
  <2>2. Slot \cup {0} \in SUBSET Nat /\ SlotOf[m.block] \in Slot \cup {0}
    BY <1>6, ListenerAssumption, SMT DEF Slot
  <2>3. Latest(latest_vote_slot[v], SlotOf[m.block]) \in Slot \cup {0}
    BY <1>6, <2>1, <2>2, LatestType
  <2> HIDE DEF V
  <2> QED
    BY <1>3, <1>6, <2>1, <2>3, SMT
<1>13. batch'.size # 0 /\ batch' \in [size : 0..scenario.batch, replay : BOOLEAN]
  <2>1. /\ batch \in [size : 0..scenario.batch, replay : BOOLEAN]
        /\ batch' = [size |-> batch.size + 1, replay |-> ~gossip]
        /\ batch.size < scenario.batch
    BY DEF IInv, TypeOK, ProcessVote
  <2> QED
    BY <1>5, <2>1, SMT
<1>14. UNCHANGED <<scenario, banks, bank_root, pruned, repaired, root,
                   unchecked_slots, reported, propagated>>
  BY DEF ProcessVote, bankVars
<1>15. K \in SUBSET Block /\ \A b \in K : b \in C
  BY <1>4
<1> HIDE DEF K, C
<1> QED
  BY <1>3, <1>4, <1>6, <1>10, <1>11, <1>12, <1>13, <1>14, <1>15

(* Counting a vote crosses each threshold at most once, and counts only a  *)
(* voter who cast it.                                                      *)
LEMMA ProcessVoteIInv ==
  ASSUME IInv, NEW m \in scenario.votes, NEW gossip \in BOOLEAN,
         ProcessVote(m, gossip)
  PROVE  IInv'
<1> USE Zenon
<1> DEFINE T == slot_vote_trackers
           U == slot_vote_trackers'
           v == m.voter
           o(b) == OptimisticTracker(b)
           n(b) == AddVotePubkey(o(b), v)
<1>1. /\ v \in Validator
      /\ UNCHANGED <<scenario, banks, bank_root, pruned, repaired, root,
                     unchecked_slots, reported, propagated>>
      /\ batch'.size # 0 /\ batch' \in [size : 0..scenario.batch, replay : BOOLEAN]
      /\ latest_vote_slot' \in [Validator -> Slot \cup {0}]
      /\ DOMAIN diff' \subseteq Slot \X Validator
      /\ diff' \in [DOMAIN diff' -> BOOLEAN]
      /\ \A e \in DOMAIN diff' : e[1] > SlotOf[root]
  BY ProcessVoteFacts
<1>2. PICK K \in SUBSET Block :
        /\ \A b \in K : /\ SlotOf[b] > SlotOf[root]
                        /\ SlotOf[b] \in m.slots
                        /\ b \in Fork[m.block] \/ SlotOf[b] \in repaired
        /\ U = Track(v, K) /\ confirmations' = Announce(v, K)
        /\ new_confirmed' = new_confirmed \cup
             {b \in K : confirmations'[b].optimistic > confirmations[b].optimistic}
  BY ProcessVoteFacts
<1>3. /\ DOMAIN U = DOMAIN T \cup {SlotOf[b] : b \in K}
      /\ DOMAIN U \subseteq Slot /\ U \in [DOMAIN U -> Tracker]
      /\ \A s \in DOMAIN U :
           /\ StakesOK(U[s])
           /\ DOMAIN U[s].voted \subseteq U[s].voted_slot_updates \cup propagated[s]
      /\ \A b \in Block :
           /\ o(b) \in Counter /\ o(b).stake = StakeOf(o(b).voted)
           /\ OptimisticTracker(b)' = IF b \in K THEN n(b) ELSE o(b)
  <2>1. slot_vote_trackers' = Track(v, K)
    BY <1>2
  <2> HIDE DEF v
  <2> QED
    BY <1>1, <2>1, TrackFacts
<1>4. \A b \in Block :
        /\ n(b) \in Counter /\ n(b).voted = o(b).voted \cup {v}
        /\ n(b).stake = StakeOf(n(b).voted) /\ n(b).stake >= o(b).stake
        /\ \A h \in Nat : Reached(o(b), v, h) =
             IF o(b).stake <= h /\ h < n(b).stake THEN 1 ELSE 0
  BY <1>1, <1>3, AddVotePubkeyFacts
<1> HIDE DEF o, n
<1>5. \A b \in Block :
        /\ b \notin K => confirmations'[b] = confirmations[b]
        /\ b \in K => confirmations'[b] =
             [duplicate |-> confirmations[b].duplicate
                            + Reached(o(b), v, DuplicateStake),
              optimistic |-> confirmations[b].optimistic
                             + Reached(o(b), v, OptimisticStake)]
  BY <1>2, SMT DEF Announce, o
<1>6. confirmations \in [Block -> [duplicate : Nat, optimistic : Nat]]
  BY DEF IInv, TypeOK
<1>7. \A b \in Block : SlotOf[b] \in DOMAIN U =>
        /\ (o(b).stake > DuplicateStake) <=> (confirmations[b].duplicate = 1)
        /\ (o(b).stake > OptimisticStake) <=> (confirmations[b].optimistic = 1)
  <2> SUFFICES ASSUME NEW b \in Block, SlotOf[b] \in DOMAIN U
               PROVE  /\ (o(b).stake > DuplicateStake)
                           <=> (confirmations[b].duplicate = 1)
                      /\ (o(b).stake > OptimisticStake)
                           <=> (confirmations[b].optimistic = 1)
    OBVIOUS
  <2>1. CASE SlotOf[b] \in DOMAIN T
    <3>1. o(b).stake = StakeOf(Voted(b))
      BY <1>3 DEF Voted, o
    <3> QED
      BY <2>1, <3>1 DEF IInv, AnnouncedOnce
  <2>2. CASE SlotOf[b] \notin DOMAIN T
    <3>1. SlotOf[b] > SlotOf[root]
      BY <1>2, <1>3, <2>2
    <3>2. ~(SlotOf[b] < SlotOf[root])
      BY <3>1, RootMoves, SMT
    <3>3. confirmations[b].duplicate = 0 /\ confirmations[b].optimistic = 0
      BY <2>2, <3>2 DEF IInv, UntrackedInv
    <3>4. o(b).stake = 0
      BY <2>2, NewTrackerType DEF OptimisticTracker, o
    <3> QED
      BY <3>3, <3>4, Thresholds, SMT
  <2> QED
    BY <2>1, <2>2
<1>8. \A b \in K : SlotOf[b] \in DOMAIN U /\ b \in Block
  BY <1>2, <1>3
<1>9. \A b \in Block :
        confirmations[b].duplicate \in 0..1 /\ confirmations[b].optimistic \in 0..1
  <2>1. \A b \in Block : /\ confirmations[b].duplicate <= 1
                         /\ confirmations[b].optimistic <= 1
    BY DEF IInv, AnnouncedOnce
  <2> QED
    BY <1>6, <2>1, SMT
<1>10. \A b \in K :
         /\ confirmations'[b].duplicate = IF n(b).stake > DuplicateStake THEN 1 ELSE 0
         /\ confirmations'[b].optimistic = IF n(b).stake > OptimisticStake THEN 1 ELSE 0
  <2> TAKE b \in K
  <2>1. o(b).stake \in Nat /\ n(b).stake \in Nat
    BY <1>3, <1>4, <1>8, SMT DEF Counter
  <2>2. /\ n(b).stake >= o(b).stake
        /\ (o(b).stake > DuplicateStake) <=> (confirmations[b].duplicate = 1)
        /\ (o(b).stake > OptimisticStake) <=> (confirmations[b].optimistic = 1)
        /\ confirmations[b].duplicate \in 0..1 /\ confirmations[b].optimistic \in 0..1
    BY <1>4, <1>7, <1>8, <1>9
  <2>3. /\ Reached(o(b), v, DuplicateStake) =
             IF o(b).stake <= DuplicateStake /\ DuplicateStake < n(b).stake THEN 1 ELSE 0
        /\ Reached(o(b), v, OptimisticStake) =
             IF o(b).stake <= OptimisticStake /\ OptimisticStake < n(b).stake THEN 1 ELSE 0
    BY <1>4, <1>8, Thresholds
  <2>4. /\ confirmations'[b].duplicate =
             confirmations[b].duplicate + Reached(o(b), v, DuplicateStake)
        /\ confirmations'[b].optimistic =
             confirmations[b].optimistic + Reached(o(b), v, OptimisticStake)
    <3> DEFINE d == confirmations[b].duplicate + Reached(o(b), v, DuplicateStake)
               p == confirmations[b].optimistic + Reached(o(b), v, OptimisticStake)
    <3>1. confirmations'[b] = [duplicate |-> d, optimistic |-> p]
      BY <1>5, <1>8
    <3> HIDE DEF d, p
    <3>2. confirmations'[b].duplicate = d /\ confirmations'[b].optimistic = p
      BY <3>1, SMT
    <3> QED
      BY <3>2 DEF d, p
  <2>5. confirmations'[b].duplicate = IF n(b).stake > DuplicateStake THEN 1 ELSE 0
    BY <2>1, <2>2, <2>3, <2>4, Thresholds, SMT
  <2>6. confirmations'[b].optimistic = IF n(b).stake > OptimisticStake THEN 1 ELSE 0
    BY <2>1, <2>2, <2>3, <2>4, Thresholds, SMT
  <2> QED
    BY <2>5, <2>6
<1>11. TypeOK'
  <2>1. \E S \in SUBSET Slot : U \in [S -> Tracker]
    BY <1>3
  <2>2. \E E \in SUBSET (Slot \X Validator) : diff' \in [E -> BOOLEAN]
    BY <1>1
  <2>3. confirmations' \in [Block -> [duplicate : Nat, optimistic : Nat]]
    <3>1. confirmations' = [b \in Block |-> confirmations'[b]]
      BY <1>2, SMT DEF Announce
    <3>2. \A b \in Block : confirmations'[b] \in [duplicate : Nat, optimistic : Nat]
      <4> TAKE b \in Block
      <4>1. CASE b \notin K
        BY <1>5, <1>6, <4>1
      <4>2. CASE b \in K
        <5> DEFINE d == confirmations[b].duplicate + Reached(o(b), v, DuplicateStake)
                   p == confirmations[b].optimistic + Reached(o(b), v, OptimisticStake)
        <5>1. /\ Reached(o(b), v, DuplicateStake) \in Nat
              /\ Reached(o(b), v, OptimisticStake) \in Nat
          BY SMT DEF Reached
        <5>2. confirmations[b].duplicate \in Nat /\ confirmations[b].optimistic \in Nat
          BY <1>6, SMT
        <5>3. d \in Nat /\ p \in Nat
          BY <5>1, <5>2, SMT
        <5>4. confirmations'[b] = [duplicate |-> d, optimistic |-> p]
          BY <1>5, <4>2
        <5> HIDE DEF d, p
        <5> QED
          BY <5>3, <5>4, SMT
      <4> QED
        BY <4>1, <4>2
    <3> QED
      BY <3>1, <3>2, SMT
  <2>4. new_confirmed' \subseteq Block
    BY <1>2 DEF IInv, TypeOK
  <2> QED
    BY <1>1, <2>1, <2>2, <2>3, <2>4 DEF IInv, TypeOK
<1>12. BankInv'
  BY <1>1 DEF IInv, BankInv, Frozen
<1>13. BatchInv'
  <2>1. \A b \in new_confirmed' : SlotOf[b] > SlotOf[root] /\ SlotOf[b] \in DOMAIN U
    BY <1>2, <1>3, <1>8 DEF IInv, BatchInv
  <2> QED
    BY <1>1, <2>1 DEF BatchInv
<1>14. UntrackedInv'
  <2> SUFFICES ASSUME NEW b \in Block, SlotOf[b] \notin DOMAIN U
               PROVE  \/ SlotOf[b] < SlotOf[root]
                      \/ /\ confirmations'[b].duplicate = 0
                         /\ confirmations'[b].optimistic = 0
    BY <1>1 DEF UntrackedInv
  <2>1. b \notin K /\ SlotOf[b] \notin DOMAIN T
    BY <1>3, <1>8
  <2> QED
    BY <1>5, <2>1 DEF IInv, UntrackedInv
<1>15. AnnouncedOnce'
  <2>1. \A b \in Block : confirmations'[b].duplicate <= 1 /\ confirmations'[b].optimistic <= 1
    <3> TAKE b \in Block
    <3>1. CASE b \in K
      BY <1>10, <3>1, SMT
    <3>2. CASE b \notin K
      <4>1. confirmations'[b] = confirmations[b]
        BY <1>5, <3>2
      <4>2. confirmations[b].duplicate <= 1 /\ confirmations[b].optimistic <= 1
        BY DEF IInv, AnnouncedOnce
      <4> QED
        BY <4>1, <4>2
    <3> QED
      BY <3>1, <3>2
  <2>2. \A b \in Block : SlotOf[b] \in DOMAIN U =>
          /\ (StakeOf(Voted(b)') > DuplicateStake) <=> (confirmations'[b].duplicate = 1)
          /\ (StakeOf(Voted(b)') > OptimisticStake) <=> (confirmations'[b].optimistic = 1)
    <3> SUFFICES ASSUME NEW b \in Block, SlotOf[b] \in DOMAIN U
                 PROVE  /\ (StakeOf(Voted(b)') > DuplicateStake)
                             <=> (confirmations'[b].duplicate = 1)
                        /\ (StakeOf(Voted(b)') > OptimisticStake)
                             <=> (confirmations'[b].optimistic = 1)
      OBVIOUS
    <3>1. CASE b \in K
      <4>1. StakeOf(Voted(b)') = n(b).stake
        BY <1>3, <1>4, <3>1 DEF Voted
      <4> QED
        BY <1>10, <3>1, <4>1, SMT
    <3>2. CASE b \notin K
      <4>1. StakeOf(Voted(b)') = o(b).stake
        BY <1>3, <3>2 DEF Voted
      <4> QED
        BY <1>5, <1>7, <3>2, <4>1
    <3> QED
      BY <3>1, <3>2
  <2>3. \A s \in DOMAIN U : StakesOK(U[s])
    BY <1>3
  <2> QED
    BY <2>1, <2>2, <2>3 DEF AnnouncedOnce, StakesOK
<1>16. CountedVotesWereCast'
  <2> SUFFICES ASSUME NEW b \in Block, NEW u \in Voted(b)'
               PROVE  \E x \in scenario.votes :
                        /\ x.voter = u /\ SlotOf[b] \in x.slots
                        /\ b \in Fork[x.block] \/ SlotOf[b] \in repaired
    BY <1>1 DEF CountedVotesWereCast
  <2>1. CASE u \in Voted(b)
    BY <2>1 DEF IInv, CountedVotesWereCast
  <2>2. CASE u \notin Voted(b)
    <3>1. b \in K
      BY <1>3, <2>2 DEF Voted, o
    <3>2. Voted(b)' = Voted(b) \cup {v}
      BY <1>3, <1>4, <3>1 DEF Voted, o
    <3>3. u = v
      BY <2>2, <3>2
    <3> QED
      BY <1>2, <3>1, <3>3
  <2> QED
    BY <2>1, <2>2
<1>17. VotersReachReplay' /\ UncheckedSlotsHaveTrackers'
  BY <1>1, <1>3 DEF IInv, VotersReachReplay, UncheckedSlotsHaveTrackers
<1>18. UnrootedAreReported'
  <2> SUFFICES ASSUME NEW b \in Block, confirmations'[b].optimistic > 0,
                      b \notin new_confirmed' \cup unchecked_slots
               PROVE  b \in reported \/ \E a \in Fork[root] : SlotOf[a] = SlotOf[b]
    BY <1>1 DEF UnrootedAreReported
  <2>1. confirmations[b].optimistic > 0
    <3>1. CASE b \notin K
      BY <1>5, <3>1
    <3>2. CASE b \in K
      <4>1. ~(confirmations'[b].optimistic > confirmations[b].optimistic)
        BY <1>2, <3>2
      <4>2. confirmations[b].optimistic \in 0..1 /\ confirmations'[b].optimistic \in 0..1
        BY <1>9, <1>10, <3>2, SMT
      <4> QED
        BY <4>1, <4>2, SMT
    <3> QED
      BY <3>1, <3>2
  <2>2. b \notin new_confirmed \cup unchecked_slots
    BY <1>2
  <2> QED
    BY <2>1, <2>2 DEF IInv, UnrootedAreReported
<1> QED
  BY <1>11, <1>12, <1>13, <1>14, <1>15, <1>16, <1>17, <1>18 DEF IInv

-----------------------------------------------------------------------------
(* Merging the voters of a batch into a tracker adds the stake of those    *)
(* that gossip brings for the first time, who had not been counted.        *)
LEMMA MergeDiffFacts ==
  ASSUME NEW t \in Tracker, StakesOK(t),
         NEW D \in SUBSET Validator, NEW ch \in [D -> BOOLEAN]
  PROVE  LET r == MergeDiff(t, ch)
         IN  /\ r \in Tracker /\ StakesOK(r) /\ r.optimistic = t.optimistic
             /\ \A X : DOMAIN t.voted \subseteq t.voted_slot_updates \cup X =>
                         DOMAIN r.voted \subseteq r.voted_slot_updates \cup X
<1> USE Zenon
<1> DEFINE new == {v \in DOMAIN ch : IsNew(t, v, ch[v])}
           voted == [v \in new \cup DOMAIN t.voted |->
                       IF v \in new THEN ch[v] ELSE t.voted[v]]
           ups == t.voted_slot_updates \cup new
           A == {v \in DOMAIN t.voted : t.voted[v]}
           B == {v \in new : ch[v]}
           stake == t.gossip_only_stake + StakeOf(B)
           r == MergeDiff(t, ch)
<1>1. /\ t.voted \in [DOMAIN t.voted -> BOOLEAN] /\ DOMAIN t.voted \subseteq Validator
      /\ t.voted_slot_updates \subseteq Validator /\ t.gossip_only_stake \in Nat
  BY TrackerParts
<1>2. DOMAIN ch = D /\ new \subseteq Validator
  BY SMT
<1>3. r = [t EXCEPT !.voted = voted, !.voted_slot_updates = ups,
                    !.gossip_only_stake = stake]
  BY SMT DEF MergeDiff
<1>4. /\ voted \in [new \cup DOMAIN t.voted -> BOOLEAN]
      /\ DOMAIN voted = new \cup DOMAIN t.voted
  BY <1>1, <1>2, SMT
<1>5. voted \in UNION {[V -> BOOLEAN] : V \in SUBSET Validator}
  <2>1. new \cup DOMAIN t.voted \in SUBSET Validator
    BY <1>1, <1>2
  <2> HIDE DEF voted, new
  <2> QED
    BY <1>4, <2>1
<1>6. A \in SUBSET Validator /\ B \in SUBSET Validator
  BY <1>1, <1>2
<1>7. A \cap B = {}
  BY DEF IsNew
<1>8. {v \in DOMAIN voted : voted[v]} = A \cup B
  <2>1. \A v \in new : voted[v] = ch[v]
    BY SMT
  <2>2. \A v \in DOMAIN t.voted : v \notin new => voted[v] = t.voted[v]
    BY SMT
  <2>3. \A v \in new : v \in DOMAIN t.voted => ~t.voted[v]
    BY DEF IsNew
  <2> HIDE DEF voted, new
  <2> QED
    BY <1>4, <2>1, <2>2, <2>3
<1>9. /\ StakeOf(A) \in Nat /\ StakeOf(B) \in Nat
      /\ StakeOf(A \cup B) = StakeOf(A) + StakeOf(B)
  BY <1>6, <1>7, StakeAdds
<1>10. t.gossip_only_stake = StakeOf(A)
  BY DEF StakesOK
<1>11. stake \in Nat /\ stake = StakeOf({v \in DOMAIN voted : voted[v]})
  <2>1. stake = StakeOf(A) + StakeOf(B)
    BY <1>10
  <2> HIDE DEF A, B, stake, voted
  <2>2. stake \in Nat
    BY <1>9, <2>1, SMT
  <2> QED
    BY <1>8, <1>9, <2>1, <2>2
<1>12. ups \subseteq Validator
  BY <1>1, <1>2
<1> HIDE DEF voted, ups, stake
<1>13. /\ r.voted = voted /\ r.voted_slot_updates = ups
       /\ r.gossip_only_stake = stake /\ r.optimistic = t.optimistic
       /\ r \in Tracker
  <2> HIDE DEF r
  <2> QED
    BY <1>3, <1>5, <1>11, <1>12 DEF Tracker
<1>14. StakesOK(r)
  BY <1>11, <1>13 DEF StakesOK
<1>15. ASSUME NEW X, DOMAIN t.voted \subseteq t.voted_slot_updates \cup X
       PROVE  DOMAIN r.voted \subseteq r.voted_slot_updates \cup X
  BY <1>4, <1>13, <1>15 DEF ups
<1> QED
  BY <1>13, <1>14, <1>15

(* The end of a batch leaves the counters of the blocks alone. *)
LEMMA EndBatchIInv ==
  ASSUME IInv, EndBatch
  PROVE  IInv'
<1> USE Zenon
<1> DEFINE T == slot_vote_trackers
           U == slot_vote_trackers'
           Slots == {e[1] : e \in DOMAIN diff}
           Voters(s) == {e[2] : e \in {x \in DOMAIN diff : x[1] = s}}
           Changes(s) == [v \in Voters(s) |-> diff[<<s, v>>]]
           W == WithTrackers(Slots)
<1>1. /\ U = [s \in DOMAIN W |->
                IF s \in Slots THEN MergeDiff(W[s], Changes(s)) ELSE W[s]]
      /\ unchecked_slots' = unchecked_slots \cup
           {b \in new_confirmed : SlotOf[b] > SlotOf[Genesis]}
      /\ batch' = NoBatch /\ diff' = << >> /\ new_confirmed' = {}
      /\ UNCHANGED <<scenario, banks, bank_root, pruned, repaired, root,
                     latest_vote_slot, reported, confirmations, propagated>>
  BY SMT DEF EndBatch, bankVars, history
<1>2. diff \in [DOMAIN diff -> BOOLEAN] /\ DOMAIN diff \subseteq Slot \X Validator
  BY TrackerFacts DEF IInv
<1>3. Slots \in SUBSET Slot
  BY <1>2, SMT
<1>4. \A s : /\ Voters(s) \in SUBSET Validator
             /\ Changes(s) \in [Voters(s) -> BOOLEAN]
  <2> TAKE s
  <2>1. \A v \in Voters(s) : v \in Validator /\ <<s, v>> \in DOMAIN diff
    BY <1>2, SMT
  <2> HIDE DEF Voters
  <2> QED
    BY <1>2, <2>1
<1>5. /\ DOMAIN W = DOMAIN T \cup Slots /\ DOMAIN W \subseteq Slot
      /\ \A s \in DOMAIN T : W[s] = T[s]
      /\ \A s \in DOMAIN W \ DOMAIN T : W[s] = NewTracker
      /\ \A s \in DOMAIN W :
           /\ W[s] \in Tracker /\ StakesOK(W[s])
           /\ DOMAIN W[s].voted \subseteq W[s].voted_slot_updates \cup propagated[s]
  BY <1>3, WithTrackersFacts
<1> HIDE DEF W, Changes, Voters
<1>6. \A s \in DOMAIN W :
        LET r == MergeDiff(W[s], Changes(s))
        IN  /\ r \in Tracker /\ StakesOK(r) /\ r.optimistic = W[s].optimistic
            /\ DOMAIN r.voted \subseteq r.voted_slot_updates \cup propagated[s]
  <2> TAKE s \in DOMAIN W
  <2>1. /\ W[s] \in Tracker /\ StakesOK(W[s])
        /\ DOMAIN W[s].voted \subseteq W[s].voted_slot_updates \cup propagated[s]
        /\ Voters(s) \in SUBSET Validator /\ Changes(s) \in [Voters(s) -> BOOLEAN]
    BY <1>4, <1>5
  <2> DEFINE r == MergeDiff(W[s], Changes(s))
  <2>2. /\ r \in Tracker /\ StakesOK(r) /\ r.optimistic = W[s].optimistic
        /\ \A X : DOMAIN W[s].voted \subseteq W[s].voted_slot_updates \cup X =>
                    DOMAIN r.voted \subseteq r.voted_slot_updates \cup X
    BY <2>1, MergeDiffFacts
  <2> QED
    BY <2>1, <2>2
<1>7. DOMAIN U = DOMAIN W /\ U = [s \in DOMAIN U |-> U[s]]
  BY <1>1, SMT
<1>8. \A s \in DOMAIN W :
        /\ U[s] \in Tracker /\ StakesOK(U[s]) /\ U[s].optimistic = W[s].optimistic
        /\ DOMAIN U[s].voted \subseteq U[s].voted_slot_updates \cup propagated[s]
  <2> TAKE s \in DOMAIN W
  <2>1. U[s] = IF s \in Slots THEN MergeDiff(W[s], Changes(s)) ELSE W[s]
    BY <1>1, SMT
  <2>2. CASE s \in Slots
    BY <1>6, <2>1, <2>2
  <2>3. CASE s \notin Slots
    BY <1>5, <2>1, <2>3
  <2> QED
    BY <2>2, <2>3
<1>9. \A b \in Block : Voted(b)' = Voted(b)
  <2> TAKE b \in Block
  <2>1. CASE SlotOf[b] \in DOMAIN T
    BY <1>5, <1>7, <1>8, <2>1 DEF Voted, OptimisticTracker
  <2>2. CASE SlotOf[b] \notin DOMAIN T
    BY <1>5, <1>7, <1>8, <2>2 DEF Voted, OptimisticTracker
  <2> QED
    BY <2>1, <2>2
<1>10. DOMAIN << >> = {} /\ << >> \in [{} -> BOOLEAN]
  BY SMT
<1>11. TypeOK'
  <2>1. \E S \in SUBSET Slot : U \in [S -> Tracker]
    <3>1. U \in [DOMAIN W -> Tracker]
      BY <1>7, <1>8, SMT
    <3> QED
      BY <1>5, <3>1
  <2>2. \E E \in SUBSET (Slot \X Validator) : diff' \in [E -> BOOLEAN]
    BY <1>1, <1>10
  <2>3. batch' \in [size : 0..scenario.batch, replay : BOOLEAN]
    <3>1. scenario.batch \in Nat
      BY ScenarioFacts DEF IInv, TypeOK
    <3> QED
      BY <1>1, <3>1, SMT DEF NoBatch
  <2>4. new_confirmed' \subseteq Block /\ unchecked_slots' \subseteq Block
    BY <1>1 DEF IInv, TypeOK
  <2> QED
    BY <1>1, <2>1, <2>2, <2>3, <2>4 DEF IInv, TypeOK
<1>12. BankInv'
  BY <1>1 DEF IInv, BankInv, Frozen
<1>13. BatchInv'
  BY <1>1, <1>10 DEF BatchInv
<1>14. UntrackedInv'
  BY <1>1, <1>5, <1>7 DEF IInv, UntrackedInv
<1>15. AnnouncedOnce'
  <2>1. \A b \in Block : SlotOf[b] \in DOMAIN U =>
          /\ (StakeOf(Voted(b)) > DuplicateStake) <=> (confirmations[b].duplicate = 1)
          /\ (StakeOf(Voted(b)) > OptimisticStake) <=> (confirmations[b].optimistic = 1)
    <3> SUFFICES ASSUME NEW b \in Block, SlotOf[b] \in DOMAIN U
                 PROVE  /\ (StakeOf(Voted(b)) > DuplicateStake)
                             <=> (confirmations[b].duplicate = 1)
                        /\ (StakeOf(Voted(b)) > OptimisticStake)
                             <=> (confirmations[b].optimistic = 1)
      OBVIOUS
    <3>1. CASE SlotOf[b] \in DOMAIN T
      BY <3>1 DEF IInv, AnnouncedOnce
    <3>2. CASE SlotOf[b] \notin DOMAIN T
      <4>1. SlotOf[b] > SlotOf[root]
        <5>1. SlotOf[b] \in Slots
          BY <1>5, <1>7, <3>2
        <5>2. PICK e \in DOMAIN diff : SlotOf[b] = e[1]
          BY <5>1
        <5>3. e[1] > SlotOf[root]
          BY DEF IInv, BatchInv
        <5> QED
          BY <5>2, <5>3
      <4>2. ~(SlotOf[b] < SlotOf[root])
        BY <4>1, RootMoves, SMT
      <4>3. confirmations[b].duplicate = 0 /\ confirmations[b].optimistic = 0
        BY <3>2, <4>2 DEF IInv, UntrackedInv
      <4>4. StakeOf(Voted(b)) = 0
        BY <3>2, NewTrackerType, StakeOfNone DEF Voted, OptimisticTracker
      <4> QED
        BY <4>3, <4>4, Thresholds, SMT
    <3> QED
      BY <3>1, <3>2
  <2>2. \A b \in Block : confirmations[b].duplicate <= 1 /\ confirmations[b].optimistic <= 1
    BY DEF IInv, AnnouncedOnce
  <2>3. \A s \in DOMAIN U : StakesOK(U[s])
    BY <1>7, <1>8
  <2> QED
    BY <1>1, <1>9, <2>1, <2>2, <2>3 DEF AnnouncedOnce, StakesOK
<1>16. CountedVotesWereCast'
  BY <1>1, <1>9, SameVoters
<1>17. VotersReachReplay'
  BY <1>1, <1>7, <1>8 DEF VotersReachReplay
<1>18. UncheckedSlotsHaveTrackers'
  BY <1>1, <1>5, <1>7 DEF IInv, BatchInv, UncheckedSlotsHaveTrackers
<1>19. UnrootedAreReported'
  <2>1. \A b \in new_confirmed : b \in unchecked_slots'
    <3> TAKE b \in new_confirmed
    <3>1. b \in Block /\ SlotOf[b] > SlotOf[root] /\ root \in Block
      BY DEF IInv, BatchInv, TypeOK
    <3>2. Genesis \in Fork[root]
      BY <3>1, ListenerAssumption
    <3>3. /\ SlotOf[Genesis] <= SlotOf[root] /\ SlotOf[Genesis] \in Nat
          /\ SlotOf[root] \in Nat
      BY <3>1, <3>2, ForkFacts
    <3>4. SlotOf[b] \in Nat
      BY <3>1, RootMoves
    <3>5. SlotOf[b] > SlotOf[Genesis]
      BY <3>1, <3>3, <3>4, SMT
    <3> QED
      BY <1>1, <3>5
  <2>2. unchecked_slots \subseteq unchecked_slots'
    BY <1>1
  <2> QED
    BY <1>1, <2>1, <2>2 DEF IInv, UnrootedAreReported
<1> QED
  BY <1>11, <1>12, <1>13, <1>14, <1>15, <1>16, <1>17, <1>18, <1>19 DEF IInv
-----------------------------------------------------------------------------
(* Every step keeps the invariant. *)
LEMMA NextIInv == IInv /\ [Next]_vars => IInv'
<1> SUFFICES ASSUME IInv, [Next]_vars PROVE IInv'
  OBVIOUS
<1>1. ASSUME NEW b \in Block, FreezeBank(b) PROVE IInv'
  BY <1>1, FreezeBankIInv
<1>2. ASSUME NEW b \in Block, DumpSlots(b) PROVE IInv'
  BY <1>2, DumpSlotsIInv
<1>3. ASSUME NEW b \in Block, SetRoot(b) PROVE IInv'
  BY <1>3, SetRootIInv
<1>4. ASSUME NEW s \in Slot, GetVotedSlotUpdates(s) PROVE IInv'
  BY <1>4, GetVotedSlotUpdatesIInv
<1>5. ASSUME NEW m \in scenario.votes, NEW gossip \in BOOLEAN, ProcessVote(m, gossip)
      PROVE  IInv'
  BY <1>5, ProcessVoteIInv
<1>6. CASE EndBatch
  BY <1>6, EndBatchIInv
<1>7. CASE ReadRoot
  BY <1>7, ReadRootIInv
<1>8. CASE ProcessRoot
  BY <1>8, ProcessRootIInv
<1>9. ASSUME NEW s \in Slot, PurgePruned(s) PROVE IInv'
  BY <1>9, PurgePrunedIInv
<1>10. CASE UNCHANGED vars
  <2>1. /\ UNCHANGED <<scenario, root, trackVars, unchecked_slots, history>>
        /\ UNCHANGED <<banks, bank_root, pruned, repaired>>
    BY <1>10, Zenon DEF vars, bankVars
  <2>2. BankInv'
    BY <2>1, Zenon DEF IInv, BankInv, Frozen
  <2>3. TypeOK'
    BY <2>1, Zenon DEF IInv, TypeOK, trackVars, history
  <2> QED
    BY <2>1, <2>2, <2>3, OnlyBanksChange, Zenon
<1> QED
  BY <1>1, <1>2, <1>3, <1>4, <1>5, <1>6, <1>7, <1>8, <1>9, <1>10, Zenon DEF Next

(* The inductive invariant: the five properties below, one block to a slot *)
(* among the frozen ones unless the slot was cleared for repair, all       *)
(* descending from the root or pruned, and nothing pending in a batch at   *)
(* or below the root it began with.                                        *)
THEOREM Invariance == Spec => []IInv
  BY InitIInv, NextIInv, PTL DEF Spec

(* The trackers stay records over the blocks, the counters naturals. *)
THEOREM TypeCorrect == Spec => []TypeOK
<1>1. IInv => TypeOK
  BY Zenon DEF IInv
<1> QED
  BY <1>1, Invariance, PTL

(* track_optimistic_confirmation_vote: each threshold is announced exactly *)
(* once for a block, when the stake of its distinct voters exceeds it, for *)
(* every distribution of stake and tree of blocks.                         *)
THEOREM ThresholdsAnnouncedOnce == Spec => []AnnouncedOnce
<1>1. IInv => AnnouncedOnce
  BY Zenon DEF IInv
<1> QED
  BY <1>1, Invariance, PTL

(* track_new_votes_and_notify_confirmations: whoever is counted for a      *)
(* version of a block voted for that slot, and for this version or for a   *)
(* descendant of it, also where the hash was filled in from a bank of this *)
(* validator.  Only a slot that purge_unconfirmed_duplicate_slot cleared   *)
(* after it was pruned is an exception: it may be replayed in another      *)
(* version while the cache still answers with the old one, or a vote for   *)
(* a descendant of the old one may find the new one.                       *)
THEOREM OnlyCastVotesCount == Spec => []CountedVotesWereCast
<1>1. IInv => CountedVotesWereCast
  BY Zenon DEF IInv
<1> QED
  BY <1>1, Invariance, PTL

(* get_voted_slot_updates: no voter recorded for a slot is lost between    *)
(* the listener and the replay stage, unless the whole tracker is purged.  *)
THEOREM NoVoterLost == Spec => []VotersReachReplay
<1>1. IInv => VotersReachReplay
  BY Zenon DEF IInv
<1> QED
  BY <1>1, Invariance, PTL

(* purge_stale_state never drops the tracker of a block that is still to   *)
(* be verified.                                                            *)
THEOREM TrackersOutliveVerification == Spec => []UncheckedSlotsHaveTrackers
<1>1. IInv => UncheckedSlotsHaveTrackers
  BY Zenon DEF IInv
<1> QED
  BY <1>1, Invariance, PTL

(* verify_for_unrooted_optimistic_slots: a confirmed block is pending, or  *)
(* was reported, or its slot was rooted.                                   *)
THEOREM NoUnrootedUnreported == Spec => []UnrootedAreReported
<1>1. IInv => UnrootedAreReported
  BY Zenon DEF IInv
<1> QED
  BY <1>1, Invariance, PTL
=============================================================================
