-------------------------- MODULE WenRestartProofs ---------------------------
(***************************************************************************)
(* The restart protocol for every set of validators, tree of blocks, stake *)
(* of the two epochs and way the cluster may have halted: whoever makes a  *)
(* snapshot makes one of an announced fork, no confirmed block is left     *)
(* out, stake counts once, and nobody stops without a reason.              *)
(***************************************************************************)
EXTENDS WenRestart, TLAPS

-----------------------------------------------------------------------------
(* What the proofs use of the stakes and of the naturals.  The last        *)
(* section proves these laws from the library's theorems; until then they  *)
(* are a hypothesis, which keeps the library out of the provers' way.      *)

Bounded(S) == \E b \in Nat : \A x \in S : x <= b

(* The stake of disjoint sets adds up, nobody has no stake and everybody   *)
(* some; a set of naturals has a least element, and the validators name    *)
(* naturals up to some bound, because they are finitely many.              *)
Laws ==
  /\ \A e \in Epoch : \A A, B \in SUBSET Node :
       A \cap B = {} =>
         /\ StakeOf(e, A) \in Nat /\ StakeOf(e, B) \in Nat
         /\ StakeOf(e, A \cup B) = StakeOf(e, A) + StakeOf(e, B)
  /\ \A e \in Epoch : /\ StakeOf(e, {}) = 0
                      /\ \A N \in SUBSET Node : N # {} => StakeOf(e, N) > 0
  /\ \A T \in SUBSET Nat : T # {} => \E m \in T : \A x \in T : m <= x
  /\ \A f \in [Node -> Nat] : Bounded({f[n] : n \in Node})

(* The stake of disjoint sets adds up. *)
LEMMA StakeAdds ==
  ASSUME Laws, NEW e \in Epoch, NEW A \in SUBSET Node, NEW B \in SUBSET Node,
         A \cap B = {}
  PROVE  /\ StakeOf(e, A) \in Nat /\ StakeOf(e, B) \in Nat
         /\ StakeOf(e, A \cup B) = StakeOf(e, A) + StakeOf(e, B)
BY Zenon DEF Laws

(* More validators have more stake, and none have none. *)
LEMMA StakeGrows ==
  ASSUME Laws, NEW e \in Epoch, NEW B \in SUBSET Node, NEW A \in SUBSET B
  PROVE  StakeOf(e, A) \in Nat /\ StakeOf(e, B) \in Nat
           /\ StakeOf(e, A) <= StakeOf(e, B)
<1> DEFINE C == B \ A
<1>1. A \cap C = {} /\ A \cup C = B /\ A \in SUBSET Node /\ C \in SUBSET Node
  OBVIOUS
<1> HIDE DEF C
<1>2. /\ StakeOf(e, A) \in Nat /\ StakeOf(e, C) \in Nat
      /\ StakeOf(e, A \cup C) = StakeOf(e, A) + StakeOf(e, C)
  BY <1>1, StakeAdds, Zenon
<1>3. StakeOf(e, B) = StakeOf(e, A) + StakeOf(e, C)
  BY <1>1, <1>2, Zenon
<1> QED
  BY <1>2, <1>3

(* Nobody has no stake. *)
LEMMA StakeOfNone ==
  ASSUME Laws
  PROVE  \A e \in Epoch : StakeOf(e, {}) = 0
BY Zenon DEF Laws

(* Every validator has some. *)
LEMMA StakePositive ==
  ASSUME Laws, NEW e \in Epoch, NEW N \in SUBSET Node, NEW n \in N
  PROVE  StakeOf(e, N) > 0
BY Zenon DEF Laws

(* Two sets of validators overlap by what they have beyond all stake. *)
LEMMA StakeOverlaps ==
  ASSUME Laws, NEW e \in Epoch, NEW A \in SUBSET Node, NEW B \in SUBSET Node
  PROVE  /\ StakeOf(e, A) \in Nat /\ StakeOf(e, B) \in Nat
         /\ StakeOf(e, A \cap B) \in Nat /\ TotalStake(e) \in Nat
         /\ StakeOf(e, A) + StakeOf(e, B) <= TotalStake(e) + StakeOf(e, A \cap B)
<1> DEFINE C == A \cap B
           D == B \ A
<1>1. /\ C \in SUBSET Node /\ D \in SUBSET Node /\ A \cup D \in SUBSET Node
      /\ C \cap D = {} /\ A \cap D = {} /\ C \cup D = B
  OBVIOUS
<1> USE <1>1
<1> HIDE DEF C, D
<1>2. /\ StakeOf(e, C) \in Nat /\ StakeOf(e, D) \in Nat
      /\ StakeOf(e, C \cup D) = StakeOf(e, C) + StakeOf(e, D)
  BY StakeAdds, Zenon
<1>3. /\ StakeOf(e, A) \in Nat
      /\ StakeOf(e, A \cup D) = StakeOf(e, A) + StakeOf(e, D)
  BY StakeAdds, Zenon
<1>4. StakeOf(e, A \cup D) <= TotalStake(e) /\ TotalStake(e) \in Nat
  <2>1. Node \in SUBSET Node
    OBVIOUS
  <2> QED
    BY <2>1, StakeGrows, Zenon DEF TotalStake
<1>5. /\ StakeOf(e, A) \in Nat /\ StakeOf(e, C) \in Nat /\ TotalStake(e) \in Nat
      /\ StakeOf(e, B) \in Nat
      /\ StakeOf(e, A) + StakeOf(e, B) <= TotalStake(e) + StakeOf(e, C)
  BY <1>2, <1>3, <1>4
<1> QED
  BY <1>5, Zenon DEF C

-----------------------------------------------------------------------------
(* Slots and forks. *)

(* Every non-empty set of naturals has a least element. *)
LEMMA LeastNatural ==
  ASSUME Laws, NEW T \in SUBSET Nat, T # {}
  PROVE  \E m \in T : \A x \in T : m <= x
BY Zenon DEF Laws

(* Max picks the greatest element of a set that has a bound. *)
LEMMA GreatestNatural ==
  ASSUME Laws, NEW S \in SUBSET Nat, S # {}, NEW b \in Nat, \A x \in S : x <= b
  PROVE  Max(S) \in S /\ \A x \in S : x <= Max(S)
<1> USE Zenon
<1> DEFINE T == {b - x : x \in S}
<1>1. T \in SUBSET Nat /\ T # {}
  <2>1. \A x \in S : b - x \in Nat
    BY SMT
  <2> QED
    BY <2>1
<1>2. PICK m \in T : \A x \in T : m <= x
  BY <1>1, LeastNatural
<1>3. PICK g \in S : m = b - g
  BY <1>2
<1>4. ASSUME NEW x \in S PROVE x <= g
  <2>1. m <= b - x
    BY <1>2
  <2>2. x \in Nat /\ g \in Nat
    OBVIOUS
  <2> QED
    BY <1>3, <2>1, <2>2, SMT
<1>5. \E y \in S : \A x \in S : x <= y
  BY <1>4
<1>6. \A y, x \in S : y >= x <=> x <= y
  BY SMT
<1>7. \E y \in S : \A x \in S : y >= x
  BY <1>5, <1>6
<1>8. Max(S) \in S /\ \A x \in S : Max(S) >= x
  BY <1>7 DEF Max
<1> QED
  BY <1>6, <1>8

(* Min picks the least element. *)
LEMMA MinIsLeast ==
  ASSUME Laws, NEW S \in SUBSET Nat, S # {}
  PROVE  Min(S) \in S /\ \A x \in S : Min(S) <= x
<1>1. \E m \in S : \A x \in S : m <= x
  BY LeastNatural, Zenon
<1> QED
  BY <1>1, Zenon DEF Min

(* What the tree says of two slots of one fork. *)
LEMMA ForkFacts ==
  ASSUME NEW s \in Slot, NEW a \in Fork[s]
  PROVE  /\ a \in Slot /\ s \in Nat /\ a \in Nat /\ a <= s /\ s \in Fork[s]
         /\ Fork[s] \subseteq Slot /\ Fork[a] \subseteq Fork[s]
         /\ \A b \in Fork[s] : a <= b => a \in Fork[b]
<1> USE Zenon
<1>1. Fork[s] \in SUBSET Slot
  BY ForkAssumption
<1>2. a \in Slot /\ s \in Nat /\ a \in Nat
  BY <1>1, WenRestartAssumption
<1> QED
  BY <1>1, <1>2, ForkAssumption

(* A fork ends in its slot and goes on with the fork of the parent. *)
LEMMA ParentFacts ==
  ASSUME Laws, NEW s \in Slot, s # 0
  PROVE  /\ Parent(s) \in Fork[s] /\ Parent(s) \in Slot /\ Parent(s) < s
         /\ Fork[s] = {s} \cup Fork[Parent(s)]
         /\ \A a \in Fork[s] : a # s => a <= Parent(s)
<1> USE Zenon
<1> DEFINE S == Fork[s] \ {s}
<1>1. s \in Nat /\ S \in SUBSET Nat /\ \A x \in S : x <= s
  <2>1. \A x \in S : x \in Nat /\ x <= s
    BY ForkFacts
  <2>2. s \in Nat
    BY WenRestartAssumption
  <2> QED
    BY <2>1, <2>2
<1>2. S # {}
  BY ForkAssumption DEF Genesis
<1>3. Parent(s) \in S /\ \A x \in S : x <= Parent(s)
  <2>1. Max(S) \in S /\ \A x \in S : x <= Max(S)
    <3> HIDE DEF S
    <3> QED
      BY <1>1, <1>2, GreatestNatural
  <2> QED
    BY <2>1 DEF Parent
<1> USE <1>3
<1>4. Parent(s) \in Nat /\ Parent(s) <= s /\ Parent(s) # s /\ Parent(s) \in Slot
  BY ForkFacts
<1>5. Parent(s) < s
  BY <1>1, <1>4, SMT
<1>6. \A a \in Fork[s] : a # s => a <= Parent(s) /\ a \in Fork[Parent(s)]
  BY ForkFacts
<1>7. Fork[Parent(s)] \subseteq Fork[s] /\ s \in Fork[s]
  BY ForkFacts
<1> QED
  BY <1>4, <1>5, <1>6, <1>7

-----------------------------------------------------------------------------
(* The invariant. *)

(* What the aggregate is when the messages of H have been counted. *)
SlotsOf(n, H) == UNION {ToSlots(Voted(m), Root(n)) : m \in H}
ForSlot(n, H, s) == For(s, H, scenario.voted, Root(n))
StakesOf(n, H) == [s \in SlotsOf(n, H) |-> StakeOf(EpochOf(s), ForSlot(n, H, s))]
ActiveOf(H) == [e \in Epoch |-> StakeOf(e, H)]
AggregateOf(n, F, R) ==
  [from |-> F, repair |-> R, stakes |-> StakesOf(n, F \cup {n}),
   active |-> ActiveOf(F \cup {n}),
   voting |-> [e \in Epoch |-> VotingIn(e, F \cup {n}, scenario.voted)]]
FinalOf(n, H) == [stakes |-> StakesOf(n, H), active |-> ActiveOf(H)]

(* A slot above the root with enough stake is on the list of repairs, or   *)
(* is on my own fork, or is there.                                         *)
EnoughFor(n, H, s) ==
  /\ s \in SlotsOf(n, H) /\ s > Root(n)
  /\ StakeOf(EpochOf(s), ForSlot(n, H, s))
       >= (TotalStake(EpochOf(s)) * REPAIR_THRESHOLD) \div 100
Listed(n, F, R) ==
  \A s \in Slot : EnoughFor(n, F \cup {n}, s) => s \in R \/ Full(n, s)
Repaired(n, H) == \A s \in Slot : EnoughFor(n, H, s) => Full(n, s)

AggregateOK(n) ==
  \E F \in SUBSET (Node \ {n}), R \in SUBSET Slot :
    /\ mem[n].agg = AggregateOf(n, F, R) /\ Listed(n, F, R)
    /\ mem[n].ready => /\ Repaired(n, F \cup {n})
                       /\ \E e \in Epoch : EnoughActive(mem[n].agg, e)
FinalOK(n, final) ==
  \E H \in SUBSET Node :
    /\ n \in H /\ final = FinalOf(n, H) /\ Repaired(n, H)
    /\ \E e \in Epoch : EnoughActive(final, e)

(* A fork that n has replayed. *)
HasFork(n, fork) ==
  /\ Root(n) \in Fork[fork.slot] /\ fork.hash = HashAt(n, fork.slot)
  /\ \A s \in Fork[fork.slot] : Full(n, s)

Confirmed(s) ==
  100 * StakeOf(EpochOf(s), {m \in Node : s \in Fork[Voted(m)]})
    >= 62 * TotalStake(EpochOf(s))
Keeps(n, fork, final) ==
  \A s \in Slot :
    /\ s >= Root(n) /\ Confirmed(s)
    /\ 100 * final.active[EpochOf(s)] > 38 * TotalStake(EpochOf(s))
    => s \in Fork[fork.slot]

LastVotedForkSlotsAggregate ==
  [from : SUBSET Node, repair : SUBSET Slot,
   stakes : UNION {[S -> Nat] : S \in SUBSET Slot},
   active : [Epoch -> Nat], voting : [Epoch -> Nat]]
Memory ==
  [pc : {"None", "Init", "LastVotedForkSlots", "FindHeaviestFork",
         "HeaviestFork", "Verify", "GenerateSnapshot", "Done"},
   ready : BOOLEAN,
   agg : LastVotedForkSlotsAggregate \cup {None},
   repair : SUBSET Slot, fork : HeaviestForkRecord \cup {None},
   theirs : HeaviestForkRecord \cup {None},
   snapshot : HeaviestForkRecord \cup {None}, frozen : SUBSET Slot]

TypeOK ==
  /\ scenario \in Scenarios /\ crashes \in Nat
  /\ status \in [Node -> {"down", "running", "failed", "finished"}]
  /\ error \in [Node -> {None, "MalformedProgress", "BankNotFound", "Panic",
                         "BlockNotFound", "BlockNotLinkedToExpectedParent",
                         "HeaviestForkOnLeaderOnDifferentFork",
                         "BankHashMismatch", "SnapshotExists"}]
  /\ mem \in [Node -> Memory]
  /\ file \in [Node -> WenRestartProgress \cup {None}]
  /\ blocks \in [Node -> [Slot -> {"main", "other", None}]]
  /\ gossip \in [slots : SUBSET Node,
                 fork : [Node -> HeaviestForkMessage \cup {None}]]
  /\ announced \subseteq HeaviestForkRecord /\ resumed \subseteq Node

(* The blocks n voted for are there, and it is not past an error. *)
OwnBlocksOK(n) ==
  /\ \A s \in Fork[Voted(n)] : Full(n, s)
  /\ status[n] = "running" => error[n] = None

(* Why a validator has stopped. *)
ErrorOK(n) ==
  /\ error[n] \notin {"MalformedProgress", "BankNotFound"}
  /\ error[n] \in {"BlockNotFound", "Panic"} =>
       \E e \in Epoch : 100 * file[n].final.active[e] < 80 * TotalStake(e)
  /\ error[n] = "BlockNotLinkedToExpectedParent" =>
       \E m \in Node : MayBreakChain(n, m)

(* The file has what its state says. *)
FileOK(n) ==
  file[n] # None =>
    /\ file[n].state = "Init" => file[n].my_heaviest_fork = None
    /\ file[n].state = "LastVotedForkSlots" =>
         file[n].sent /\ file[n].my_heaviest_fork = None
    /\ file[n].state = "HeaviestFork" => file[n].final # None
    /\ file[n].state \in {"GenerateSnapshot", "Done"} =>
         file[n].my_heaviest_fork # None
    /\ file[n].state = "Done" <=> file[n].my_snapshot # None
    /\ file[n].my_snapshot # None /\ n \notin resumed =>
         file[n].my_snapshot \in announced
    /\ file[n].final # None => FinalOK(n, file[n].final)
    /\ file[n].my_heaviest_fork # None =>
         /\ HasFork(n, file[n].my_heaviest_fork) /\ file[n].final # None
         /\ Keeps(n, file[n].my_heaviest_fork, file[n].final)

(* The state in memory is that of the file, or what follows from it. *)
StateOK(n, m, f) ==
  \/ m.pc = "None" /\ ~m.ready /\ m.agg = None
  \/ /\ m.pc = "Init" /\ f.state = "Init"
     /\ m.agg = None /\ m.fork = None /\ m.snapshot = None
  \/ /\ m.pc = "LastVotedForkSlots" /\ f.state = "LastVotedForkSlots"
     /\ m.fork = None /\ m.snapshot = None
  \/ /\ m.pc = "FindHeaviestFork" /\ f.state = "HeaviestFork"
     /\ ~m.ready /\ m.agg = None /\ m.snapshot = None
     /\ m.fork = f.my_heaviest_fork
  \/ /\ m.pc = "HeaviestFork" /\ f.state = "HeaviestFork"
     /\ m.agg = None /\ m.snapshot = None
     /\ m.fork # None /\ f.my_heaviest_fork # None
     /\ n = Coordinator => m.fork = f.my_heaviest_fork
     /\ m.ready => m.fork \in announced
  \/ /\ m.pc = "Verify" /\ f.state = "HeaviestFork" /\ n # Coordinator
     /\ ~m.ready /\ m.agg = None /\ m.snapshot = None
     /\ m.fork # None /\ f.my_heaviest_fork # None
     /\ m.theirs # None /\ m.theirs \in announced
  \/ /\ m.pc = "GenerateSnapshot" /\ f.state = "GenerateSnapshot"
     /\ m.agg = None /\ m.fork # None
     /\ n \notin resumed => /\ m.fork \in announced
                            /\ m.snapshot \in announced \cup {None}
     /\ m.ready => m.snapshot # None
  \/ m.pc = "Done" /\ f.state = "Done" /\ ~m.ready /\ m.agg = None

MemoryOK(n) ==
  /\ StateOK(n, mem[n], file[n])
  /\ mem[n].pc = "LastVotedForkSlots" => AggregateOK(n)
  /\ mem[n].fork # None =>
       HasFork(n, mem[n].fork) /\ mem[n].fork.slot \in mem[n].frozen
  /\ status[n] = "running" => mem[n].pc # "None"
  /\ mem[n].pc # "None" => file[n] # None /\ Root(n) \in mem[n].frozen

(* The coordinator's message is one it announced; and what it announced is *)
(* in its file, if that is never emptied.                                  *)
AnnouncedOK ==
  /\ gossip.fork[Coordinator] # None =>
       ForkOf(gossip.fork[Coordinator]) \in announced
  /\ ~scenario.torn => \A fork \in announced :
       file[Coordinator] # None /\ file[Coordinator].my_heaviest_fork = fork

NodeOK(n) == OwnBlocksOK(n) /\ ErrorOK(n) /\ FileOK(n) /\ MemoryOK(n)
IInv == TypeOK /\ AnnouncedOK /\ \A n \in Node : NodeOK(n)

-----------------------------------------------------------------------------
(* The aggregate. *)

(* What a scenario has. *)
LEMMA ScenarioFacts ==
  ASSUME scenario \in Scenarios, NEW n \in Node
  PROVE  /\ Voted(n) \in Slot /\ Root(n) \in Slot /\ Root(n) \in Nat
         /\ Root(n) \in Fork[Voted(n)] /\ Coordinator \in Node
         /\ \A m \in Node : Fork[Voted(m)] \subseteq Slot
<1> USE Zenon
<1>1. /\ scenario.voted \in [Node -> Slot] /\ scenario.root \in [Node -> Slot]
      /\ Root(n) \in Fork[Voted(n)] /\ Coordinator \in Node
  BY ScenarioAssumption DEF Root, Voted, Coordinator
<1>2. Root(n) \in Slot /\ \A m \in Node : Voted(m) \in Slot
  BY <1>1, SMT DEF Root, Voted
<1>3. \A m \in Node : Fork[Voted(m)] \in SUBSET Slot
  BY <1>2, ForkAssumption
<1>4. Root(n) \in Nat
  BY <1>2, WenRestartAssumption
<1> QED
  BY <1>1, <1>2, <1>3, <1>4

(* Every slot is in one of the two epochs. *)
LEMMA EpochOfType == \A s \in Slot : EpochOf(s) \in Epoch
  BY DEF EpochOf, Epoch

(* The slots of a set of messages, and who sent them. *)
LEMMA SlotsOfFacts ==
  ASSUME scenario \in Scenarios, NEW n \in Node, NEW H \in SUBSET Node
  PROVE  /\ SlotsOf(n, H) \in SUBSET Slot
         /\ \A s \in Slot : /\ ForSlot(n, H, s) \in SUBSET H
                            /\ s \in SlotsOf(n, H) <=> ForSlot(n, H, s) # {}
                            /\ ForSlot(n, H, s) =
                                 {m \in H : s \in Fork[Voted(m)] /\ s >= Root(n)}
<1> USE Zenon
<1>1. \A m \in Node : ToSlots(Voted(m), Root(n)) \in SUBSET Slot
  BY ScenarioFacts DEF ToSlots
<1>2. SlotsOf(n, H) \in SUBSET Slot
  BY <1>1 DEF SlotsOf
<1>3. \A s : ForSlot(n, H, s) = {m \in H : s \in ToSlots(Voted(m), Root(n))}
  BY DEF ForSlot, For, Voted
<1>4. \A s : s \in SlotsOf(n, H) <=> ForSlot(n, H, s) # {}
  <2>1. \A s : s \in SlotsOf(n, H) <=>
               \E m \in H : s \in ToSlots(Voted(m), Root(n))
    BY DEF SlotsOf
  <2> QED
    BY <1>3, <2>1
<1>5. \A s, m : s \in ToSlots(Voted(m), Root(n))
                  <=> s \in Fork[Voted(m)] /\ s >= Root(n)
  BY DEF ToSlots
<1> QED
  BY <1>2, <1>3, <1>4, <1>5

(* A slot is listed if some of the senders voted for it. *)
LEMMA InSlotsOf ==
  ASSUME scenario \in Scenarios, NEW n \in Node, NEW H \in SUBSET Node,
         NEW s \in Slot
  PROVE  s \in SlotsOf(n, H) <=> ForSlot(n, H, s) # {}
BY SlotsOfFacts, Zenon

(* The first aggregate has my own message. *)
LEMMA NewAggregateIs ==
  ASSUME scenario \in Scenarios, NEW n \in Node
  PROVE  NewAggregate(n, scenario.voted, Root(n)) = AggregateOf(n, {}, {})
<1> USE Zenon
<1>1. {} \cup {n} = {n}
  OBVIOUS
<1>2. SlotsOf(n, {n}) = ToSlots(scenario.voted[n], Root(n))
  BY DEF SlotsOf, Voted
<1>3. ASSUME NEW s \in SlotsOf(n, {n}) PROVE ForSlot(n, {n}, s) = {n}
  BY <1>2 DEF ForSlot, For
<1>4. StakesOf(n, {n}) = [s \in ToSlots(scenario.voted[n], Root(n))
                             |-> StakeOf(EpochOf(s), {n})]
  BY <1>2, <1>3 DEF StakesOf
<1> QED
  BY <1>1, <1>4 DEF AggregateOf, NewAggregate, ActiveOf

(* Further messages add their senders, each of them once, and list what    *)
(* now has enough stake.                                                   *)
NewFrom(n, F, S) == S \ (F \cup {n})
NewRepairs(n, F, S) ==
  {s \in SlotsOf(n, NewFrom(n, F, S)) :
     StakesOf(n, (F \cup NewFrom(n, F, S)) \cup {n})[s]
       >= (TotalStake(EpochOf(s)) * REPAIR_THRESHOLD) \div 100}

(* Aggregate computes the aggregate of the senders known before and now. *)
LEMMA AggregateIs ==
  ASSUME Laws, scenario \in Scenarios, NEW n \in Node, NEW F \in SUBSET (Node \ {n}),
         NEW S \in SUBSET Node, NEW R \in SUBSET Slot
  PROVE  Aggregate(AggregateOf(n, F, R), n, S, scenario.voted, Root(n))
           = AggregateOf(n, F \cup NewFrom(n, F, S), R \cup NewRepairs(n, F, S))
<1> USE Zenon
<1> DEFINE N == NewFrom(n, F, S)
           H == F \cup {n}
           G == (F \cup N) \cup {n}
           old == AggregateOf(n, F, R)
           slots == UNION {ToSlots(scenario.voted[m], Root(n)) : m \in N}
           stakes == [s \in DOMAIN old.stakes \cup slots |->
                        StakeAt(old.stakes, s)
                          + StakeOf(EpochOf(s), For(s, N, scenario.voted, Root(n)))]
<1>1. /\ H \in SUBSET Node /\ N \in SUBSET Node /\ G \in SUBSET Node
      /\ H \cap N = {} /\ H \cup N = G
  BY SMT DEF NewFrom
<1>2. slots = SlotsOf(n, N) /\ DOMAIN old.stakes = SlotsOf(n, H)
  <2>1. slots = SlotsOf(n, N)
    BY DEF SlotsOf, Voted
  <2>2. old.stakes = StakesOf(n, H)
    BY SMT DEF AggregateOf
  <2> QED
    BY <2>1, <2>2 DEF StakesOf
<1>3. SlotsOf(n, H) \cup SlotsOf(n, N) = SlotsOf(n, G)
  BY <1>1 DEF SlotsOf
<1>4. ASSUME NEW s \in SlotsOf(n, G)
      PROVE  StakeAt(old.stakes, s)
               + StakeOf(EpochOf(s), For(s, N, scenario.voted, Root(n)))
             = StakeOf(EpochOf(s), ForSlot(n, G, s))
  <2> DEFINE e == EpochOf(s)
             A == ForSlot(n, H, s)
             B == ForSlot(n, N, s)
  <2>1. s \in Slot /\ e \in Epoch
    BY <1>1, SlotsOfFacts, EpochOfType
  <2>2. /\ A \in SUBSET Node /\ B \in SUBSET Node /\ A \cap B = {}
        /\ A \cup B = ForSlot(n, G, s)
    BY <1>1 DEF ForSlot, For
  <2>3. StakeAt(old.stakes, s) = StakeOf(e, A)
    <3>1. CASE s \in SlotsOf(n, H)
      BY <1>2, <3>1, SMT DEF StakeAt, AggregateOf, StakesOf
    <3>2. CASE s \notin SlotsOf(n, H)
      <4>1. A = {}
        BY <1>1, <2>1, <3>2, SlotsOfFacts
      <4>2. StakeAt(old.stakes, s) = 0
        BY <1>2, <3>2 DEF StakeAt
      <4> QED
        BY <2>1, <4>1, <4>2, StakeOfNone
    <3> QED
      BY <3>1, <3>2
  <2>4. For(s, N, scenario.voted, Root(n)) = B
    BY DEF ForSlot
  <2> HIDE DEF A, B, e
  <2>5. StakeOf(e, A \cup B) = StakeOf(e, A) + StakeOf(e, B)
    BY <2>1, <2>2, StakeAdds
  <2> QED
    BY <2>2, <2>3, <2>4, <2>5 DEF e
<1>5. stakes = StakesOf(n, G)
  BY <1>2, <1>3, <1>4 DEF StakesOf
<1>6. [e \in Epoch |-> old.active[e] + StakeOf(e, N)] = ActiveOf(G)
  <2>1. ASSUME NEW e \in Epoch
        PROVE  old.active[e] + StakeOf(e, N) = StakeOf(e, G)
    <3>1. StakeOf(e, H \cup N) = StakeOf(e, H) + StakeOf(e, N)
      BY <1>1, StakeAdds
    <3>2. old.active[e] = StakeOf(e, H)
      BY SMT DEF AggregateOf, ActiveOf
    <3> QED
      BY <1>1, <3>1, <3>2
  <2> QED
    BY <2>1 DEF ActiveOf
<1>7. [e \in Epoch |-> old.voting[e] + VotingIn(e, N, scenario.voted)]
        = [e \in Epoch |-> VotingIn(e, G, scenario.voted)]
  <2>1. ASSUME NEW e \in Epoch
        PROVE  old.voting[e] + VotingIn(e, N, scenario.voted)
                 = VotingIn(e, G, scenario.voted)
    <3> DEFINE A == {m \in H : e <= EpochOf(scenario.voted[m])}
               B == {m \in N : e <= EpochOf(scenario.voted[m])}
    <3>1. /\ A \in SUBSET Node /\ B \in SUBSET Node /\ A \cap B = {}
          /\ A \cup B = {m \in G : e <= EpochOf(scenario.voted[m])}
      BY <1>1
    <3>2. /\ old.voting[e] = StakeOf(e, A)
          /\ VotingIn(e, N, scenario.voted) = StakeOf(e, B)
          /\ VotingIn(e, G, scenario.voted)
               = StakeOf(e, {m \in G : e <= EpochOf(scenario.voted[m])})
      BY SMT DEF AggregateOf, VotingIn
    <3> HIDE DEF A, B
    <3>3. StakeOf(e, A \cup B) = StakeOf(e, A) + StakeOf(e, B)
      BY <3>1, StakeAdds
    <3> QED
      BY <3>1, <3>2, <3>3
  <2> QED
    BY <2>1
<1>8. {s \in slots : stakes[s]
           >= (TotalStake(EpochOf(s)) * REPAIR_THRESHOLD) \div 100}
        = NewRepairs(n, F, S)
  BY <1>2, <1>5 DEF NewRepairs
<1>9. old.from = F /\ old.repair = R
  BY SMT DEF AggregateOf
<1>10. Aggregate(old, n, S, scenario.voted, Root(n))
         = Insert(old, N, scenario.voted, Root(n))
  BY <1>9 DEF Aggregate, NewFrom
<1>11. Insert(old, N, scenario.voted, Root(n))
         = [from |-> F \cup N, stakes |-> StakesOf(n, G),
            repair |-> R \cup NewRepairs(n, F, S), active |-> ActiveOf(G),
            voting |-> [e \in Epoch |-> VotingIn(e, G, scenario.voted)]]
  BY <1>5, <1>6, <1>7, <1>8, <1>9 DEF Insert
<1> QED
  BY <1>10, <1>11, SMT DEF AggregateOf

-----------------------------------------------------------------------------
(* The heaviest fork. *)

(* Slots that link to one another down to the root are all of the fork of  *)
(* the last one that is not below the root.                                *)
LEMMA ChainIsFork ==
  ASSUME Laws, NEW r \in Slot, NEW C \in SUBSET Slot, Bounded(C),
         \A s \in C : s > r /\ Parent(s) = Max({r} \cup {x \in C : x < s})
  PROVE  LET top == Max({r} \cup C) IN
         /\ top \in {r} \cup C
         /\ \A s \in {r} \cup C : s \in Fork[top]
         /\ \A x \in Fork[top] : x >= r => x \in {r} \cup C
<1> USE Zenon
<1> DEFINE D == {r} \cup C
           IsFork(s) == /\ \A x \in D : x <= s => x \in Fork[s]
                        /\ \A x \in Fork[s] : x >= r => x \in D
           Bad == {s \in D : ~IsFork(s)}
<1>1. r \in Nat /\ D \in SUBSET Slot /\ D \in SUBSET Nat /\ \A x \in D : x >= r
  <2>1. r \in Nat /\ C \in SUBSET Nat
    BY WenRestartAssumption
  <2>2. \A x \in C : x > r
    OBVIOUS
  <2>3. r >= r /\ \A x \in C : x >= r
    BY <2>1, <2>2, SMT
  <2> QED
    BY <2>1, <2>3
<1> USE <1>1
<1>2. Bad = {}
  <2> SUFFICES ASSUME Bad # {} PROVE FALSE
    BY SMT
  <2>1. Bad \in SUBSET Nat
    OBVIOUS
  <2>2. PICK s \in Bad : \A x \in Bad : s <= x
    <3> HIDE DEF Bad
    <3> QED
      BY <2>1, LeastNatural
  <2>3. s \in D /\ s \in Nat /\ s \in Slot /\ ~IsFork(s)
    BY <2>2
  <2>4. s # r
    <3> SUFFICES IsFork(r)
      BY <2>3
    <3>1. r \in Fork[r] /\ \A x \in Fork[r] : x \in Nat /\ x <= r
      BY ForkAssumption, ForkFacts
    <3>2. \A x \in D : x <= r => x = r
      BY SMT
    <3>3. \A x \in Fork[r] : x >= r => x = r
      BY <3>1, SMT
    <3> QED
      BY <3>1, <3>2, <3>3
  <2> DEFINE B == {r} \cup {x \in C : x < s}
             p == Parent(s)
  <2>5. s \in C /\ s > r /\ p = Max(B)
    BY <2>3, <2>4
  <2>6. p \in B /\ \A x \in B : x <= p
    <3>1. B \in SUBSET Nat /\ \A x \in B : x <= s
      <4>1. r \in Nat /\ s \in Nat /\ C \in SUBSET Nat
        BY <2>3
      <4>2. r <= s /\ \A x \in C : x < s => x <= s
        BY <2>5, <4>1, SMT
      <4> QED
        BY <4>1, <4>2
    <3>2. B # {}
      OBVIOUS
    <3> HIDE DEF B
    <3>3. Max(B) \in B /\ \A x \in B : x <= Max(B)
      BY <2>3, <3>1, <3>2, GreatestNatural
    <3> QED
      BY <2>5, <3>3
  <2>7. s # 0
    BY <2>5, SMT
  <2>8. Fork[s] = {s} \cup Fork[p] /\ p < s
    BY <2>3, <2>7, ParentFacts
  <2>9. p \in D /\ p \in Nat
    BY <2>6
  <2>10. IsFork(p)
    <3>1. ~(s <= p)
      BY <2>3, <2>8, <2>9, SMT
    <3> QED
      BY <2>2, <2>9, <3>1
  <2>11. \A x \in D : x <= s => x = s \/ x <= p
    <3>1. \A x \in D : x <= s /\ x # s => x \in B
      BY <2>3, <2>5, SMT
    <3> QED
      BY <2>6, <3>1
  <2>12. IsFork(s)
    BY <2>3, <2>8, <2>10, <2>11
  <2> QED
    BY <2>3, <2>12
<1>3. PICK b \in Nat : \A x \in D : x <= b
  <2>1. PICK b \in Nat : \A x \in C : x <= b
    BY DEF Bounded
  <2>2. b + r \in Nat /\ \A x \in D : x <= b + r
    BY <2>1, SMT
  <2> QED
    BY <2>2
<1>4. Max(D) \in D /\ \A x \in D : x <= Max(D)
  <2>1. D # {}
    BY SMT
  <2> HIDE DEF D
  <2> QED
    BY <1>3, <2>1, GreatestNatural
<1>5. IsFork(Max(D))
  BY <1>2, <1>4
<1> QED
  BY <1>4, <1>5

(* The messages name slots up to some bound. *)
LEMMA SlotsBounded ==
  ASSUME Laws, scenario \in Scenarios, NEW n \in Node, NEW H \in SUBSET Node
  PROVE  Bounded(SlotsOf(n, H))
<1> USE Zenon
<1> DEFINE f == [m \in Node |-> Voted(m)]
<1>1. \A m \in Node : Voted(m) \in Slot /\ Voted(m) \in Nat
  BY ScenarioFacts, WenRestartAssumption
<1>2. PICK b \in Nat : \A m \in Node : f[m] <= b
  <2>1. f \in [Node -> Nat]
    BY <1>1
  <2> HIDE DEF f
  <2> QED
    BY <2>1 DEF Laws, Bounded
<1>3. ASSUME NEW s \in SlotsOf(n, H) PROVE s <= b
  <2>1. PICK m \in H : s \in Fork[Voted(m)]
    BY <1>3 DEF SlotsOf, ToSlots
  <2>2. s \in Nat /\ s <= Voted(m)
    BY <1>1, <2>1, ForkFacts
  <2>3. Voted(m) \in Nat /\ Voted(m) <= b
    BY <1>1, <1>2
  <2> QED
    BY <2>2, <2>3, SMT
<1> QED
  BY <1>3 DEF Bounded

(* Which slots count. *)
LEMMA OverThreshold ==
  ASSUME Laws, scenario \in Scenarios, NEW n \in Node, NEW H \in SUBSET Node
  PROVE  LET C == SlotsOverThreshold(FinalOf(n, H), Root(n)) IN
         /\ C \in SUBSET SlotsOf(n, H) /\ C \in SUBSET Slot /\ Bounded(C)
         /\ \A s \in SlotsOf(n, H) :
              s \in C <=> /\ s > Root(n)
                          /\ StakeOf(EpochOf(s), ForSlot(n, H, s))
                               >= StakeOf(EpochOf(s), H) - Delta(EpochOf(s))
<1> USE Zenon
<1> DEFINE final == FinalOf(n, H)
           C == SlotsOverThreshold(final, Root(n))
<1>1. final.stakes = StakesOf(n, H) /\ final.active = ActiveOf(H)
  BY SMT DEF FinalOf
<1>2. DOMAIN final.stakes = SlotsOf(n, H)
  BY <1>1 DEF StakesOf
<1>3. C \in SUBSET SlotsOf(n, H)
  BY <1>2 DEF SlotsOverThreshold
<1>4. SlotsOf(n, H) \in SUBSET Slot /\ Bounded(SlotsOf(n, H))
  BY SlotsOfFacts, SlotsBounded
<1>5. ASSUME NEW s \in SlotsOf(n, H)
      PROVE  /\ final.stakes[s] = StakeOf(EpochOf(s), ForSlot(n, H, s))
             /\ final.active[EpochOf(s)] = StakeOf(EpochOf(s), H)
  <2>1. EpochOf(s) \in Epoch
    BY <1>4, EpochOfType
  <2> QED
    BY <1>1, <2>1 DEF StakesOf, ActiveOf
<1>6. C \in SUBSET Slot /\ Bounded(C)
  BY <1>3, <1>4 DEF Bounded
<1>7. \A s \in SlotsOf(n, H) :
        s \in C <=> /\ s > Root(n)
                    /\ StakeOf(EpochOf(s), ForSlot(n, H, s))
                         >= StakeOf(EpochOf(s), H) - Delta(EpochOf(s))
  BY <1>2, <1>5 DEF SlotsOverThreshold, IsOverStakeThreshold
<1> QED
  BY <1>3, <1>6, <1>7

(* A confirmed slot counts, wherever more than 38% of the stake is active: *)
(* 62% and what is active overlap in what is active less 38%.              *)
LEMMA ConfirmedCounts ==
  ASSUME Laws, scenario \in Scenarios, NEW n \in Node, NEW H \in SUBSET Node,
         NEW s \in Slot, s > Root(n), Confirmed(s),
         100 * StakeOf(EpochOf(s), H) > 38 * TotalStake(EpochOf(s))
  PROVE  s \in SlotsOverThreshold(FinalOf(n, H), Root(n))
<1> USE Zenon
<1> DEFINE e == EpochOf(s)
           V == {m \in Node : s \in Fork[Voted(m)]}
           v == StakeOf(e, V)
           h == StakeOf(e, H)
           x == StakeOf(e, V \cap H)
           t == TotalStake(e)
<1>1. e \in Epoch /\ V \in SUBSET Node
  BY EpochOfType
<1>2. v \in Nat /\ h \in Nat /\ x \in Nat /\ t \in Nat /\ v + h <= t + x
  <2> HIDE DEF V, e
  <2> QED
    BY <1>1, StakeOverlaps
<1>3. 100 * v >= 62 * t /\ 100 * h > 38 * t
  BY DEF Confirmed
<1>4. Delta(e) = (t * 38) \div 100
  BY DEF Delta, HEAVIEST_FORK_THRESHOLD_DELTA
<1>5. ForSlot(n, H, s) = V \cap H
  <2>1. s >= Root(n)
    <3>1. s \in Nat /\ Root(n) \in Nat
      BY ScenarioFacts, WenRestartAssumption
    <3> QED
      BY <3>1, SMT
  <2>2. ForSlot(n, H, s) = {m \in H : s \in Fork[Voted(m)] /\ s >= Root(n)}
    BY SlotsOfFacts
  <2> QED
    BY <2>1, <2>2
<1>6. x >= h - (t * 38) \div 100 /\ x > 0
  <2> HIDE DEF v, h, x, t
  <2> QED
    BY <1>2, <1>3, SMT
<1>7. V \cap H # {}
  <2> SUFFICES ASSUME V \cap H = {} PROVE FALSE
    BY SMT
  <2>1. x = 0
    BY <1>1, StakeOfNone
  <2> QED
    BY <1>6, <2>1, SMT
<1>8. s \in SlotsOf(n, H)
  BY <1>5, <1>7, SlotsOfFacts
<1>9. StakeOf(e, ForSlot(n, H, s)) >= StakeOf(e, H) - Delta(e)
  BY <1>4, <1>5, <1>6
<1> QED
  BY <1>8, <1>9, OverThreshold

(* A slot that counts had enough stake to be repaired, wherever 80% of the *)
(* stake is active.                                                        *)
LEMMA CountsWasEnough ==
  ASSUME Laws, scenario \in Scenarios, NEW n \in Node, NEW H \in SUBSET Node,
         NEW s \in SlotsOverThreshold(FinalOf(n, H), Root(n)),
         100 * StakeOf(EpochOf(s), H) >= 80 * TotalStake(EpochOf(s))
  PROVE  EnoughFor(n, H, s)
<1> USE Zenon
<1> DEFINE e == EpochOf(s)
           h == StakeOf(e, H)
           x == StakeOf(e, ForSlot(n, H, s))
           t == TotalStake(e)
<1>1. s \in SlotsOf(n, H) /\ s \in Slot /\ s > Root(n) /\ x >= h - Delta(e)
  BY OverThreshold
<1> USE <1>1
<1>2. e \in Epoch
  BY EpochOfType
<1>3. h \in Nat /\ x \in Nat /\ t \in Nat
  <2>1. ForSlot(n, H, s) \in SUBSET H /\ Node \in SUBSET Node
    BY SlotsOfFacts
  <2> QED
    BY <1>2, <2>1, StakeGrows DEF TotalStake
<1>4. x >= h - (t * 38) \div 100 /\ 100 * h >= 80 * t
  BY DEF Delta, HEAVIEST_FORK_THRESHOLD_DELTA
<1>5. x >= (t * 42) \div 100
  <2> HIDE DEF h, x, t
  <2> QED
    BY <1>3, <1>4, SMT
<1> QED
  BY <1>5 DEF EnoughFor, REPAIR_THRESHOLD

(* If the epochs have the same stakes it is all the same which one is      *)
(* asked.                                                                  *)
LEMMA StableStakeOf ==
  ASSUME Stake[0] = Stake[1]
  PROVE  \A e, g \in Epoch, N \in SUBSET Node : StakeOf(e, N) = StakeOf(g, N)
<1> USE Zenon
<1>1. \A e \in Epoch : e = 0 \/ e = 1
  BY SMT DEF Epoch
<1>2. \A e, g \in Epoch : Stake[e] = Stake[g]
  BY <1>1
<1>3. \A e, g \in Epoch, N \in SUBSET Node : StakeUnits(e, N) = StakeUnits(g, N)
  BY <1>2 DEF StakeUnits
<1>4. \A e \in Epoch, N \in SUBSET Node :
        StakeOf(e, N) = Cardinality(StakeUnits(e, N))
  BY DEF StakeOf, StakeSum
<1> SUFFICES ASSUME NEW e \in Epoch, NEW g \in Epoch, NEW N \in SUBSET Node
             PROVE  StakeOf(e, N) = StakeOf(g, N)
  OBVIOUS
<1>5. StakeUnits(e, N) = StakeUnits(g, N)
  BY <1>3
<1> QED
  BY <1>4, <1>5

(* The vote of m does not keep the slots that count from forming a chain:  *)
(* its fork has the root and stays in the epoch of the root, or the stakes *)
(* of the epochs are the same; and 80% of its epoch is active.             *)
KeepsChain(n, m, final) ==
  /\ Root(n) \in Fork[Voted(m)]
  /\ EpochOf(Voted(m)) = EpochOf(Root(n)) \/ Stake[0] = Stake[1]
  /\ EnoughActive(final, EpochOf(Voted(m)))

(* Then every slot from the root to the vote is counted as if it was in    *)
(* the epoch of the root.                                                  *)
LEMMA SameStakesAlongChain ==
  ASSUME scenario \in Scenarios, NEW n \in Node, NEW m \in Node, NEW final,
         KeepsChain(n, m, final), NEW z \in Fork[Voted(m)], z > Root(n)
  PROVE  \A N \in SUBSET Node :
           /\ StakeOf(EpochOf(z), N) = StakeOf(EpochOf(Root(n)), N)
           /\ StakeOf(EpochOf(Voted(m)), N) = StakeOf(EpochOf(Root(n)), N)
<1> USE Zenon
<1>1. /\ Root(n) \in Slot /\ Voted(m) \in Slot /\ z \in Slot /\ z <= Voted(m)
      /\ \A x \in Slot : x \in Nat /\ EpochOf(x) \in Epoch
  BY ScenarioFacts, ForkFacts, EpochOfType, WenRestartAssumption
<1>2. CASE Stake[0] = Stake[1]
  BY <1>1, <1>2, StableStakeOf
<1>3. CASE EpochOf(Voted(m)) = EpochOf(Root(n))
  <2>1. NextEpoch \in Nat /\ z \in Nat /\ Root(n) \in Nat /\ Voted(m) \in Nat
    BY <1>1, WenRestartAssumption
  <2>2. EpochOf(z) = EpochOf(Root(n))
    BY <1>1, <1>3, <2>1, SMT DEF EpochOf
  <2> QED
    BY <1>3, <2>2
<1> QED
  BY <1>2, <1>3 DEF KeepsChain

(* What MayBreakChain says. *)
LEMMA BreaksChain ==
  ASSUME Laws, scenario \in Scenarios, NEW n \in Node, NEW m \in Node,
         NEW H \in SUBSET Node, file[n].final = FinalOf(n, H),
         Voted(m) > Root(n), ~KeepsChain(n, m, file[n].final)
  PROVE  MayBreakChain(n, m)
<1> USE Zenon
<1> DEFINE e == EpochOf(Voted(m))
           a == file[n].final.active[e]
<1>1. e \in Epoch
  BY ScenarioFacts, EpochOfType
<1>2. a = StakeOf(e, H)
  BY <1>1, SMT DEF FinalOf, ActiveOf
<1>3. a \in Nat /\ TotalStake(e) \in Nat
  <2>1. Node \in SUBSET Node
    BY SMT
  <2> QED
    BY <1>1, <1>2, <2>1, StakeGrows DEF TotalStake
<1>4. CASE 100 * a < 80 * TotalStake(e)
  BY <1>4 DEF MayBreakChain
<1>5. CASE ~(100 * a < 80 * TotalStake(e))
  <2>1. 100 * a >= 80 * TotalStake(e)
    <3> HIDE DEF a, e
    <3> QED
      BY <1>3, <1>5, SMT
  <2>2. EnoughActive(file[n].final, e)
    BY <2>1 DEF EnoughActive, SUPERMAJORITY_PERCENT
  <2> QED
    BY <2>2 DEF KeepsChain, MayBreakChain
<1> QED
  BY <1>4, <1>5

(* The slots that count form a chain from the root, if no vote is in the   *)
(* way: the parent of a slot that counts has its votes, and two forks      *)
(* cannot both have 42%.                                                   *)
LEMMA CountedAreLinked ==
  ASSUME Laws, scenario \in Scenarios, NEW n \in Node, NEW H \in SUBSET Node,
         \A m \in Node : Voted(m) > Root(n) => KeepsChain(n, m, FinalOf(n, H)),
         NEW s \in SlotsOverThreshold(FinalOf(n, H), Root(n))
  PROVE  Parent(s) = Max({Root(n)} \cup
           {x \in SlotsOverThreshold(FinalOf(n, H), Root(n)) : x < s})
<1> USE Zenon
<1> DEFINE C == SlotsOverThreshold(FinalOf(n, H), Root(n))
           r == Root(n)
           g == EpochOf(r)
           For0(z) == ForSlot(n, H, z)
           h == StakeOf(g, H)
           t == TotalStake(g)
           B == {r} \cup {x \in C : x < s}
<1>1. /\ r \in Slot /\ r \in Nat /\ C \in SUBSET Slot /\ C \in SUBSET SlotsOf(n, H)
      /\ \A z \in Slot : z \in Nat /\ EpochOf(z) \in Epoch
      /\ g \in Epoch /\ Node \in SUBSET Node
  BY ScenarioFacts, OverThreshold, WenRestartAssumption, EpochOfType
<1>2. \A z \in Slot : For0(z) \in SUBSET H /\ For0(z) \in SUBSET Node
  BY SlotsOfFacts
<1>3. /\ h \in Nat /\ t \in Nat /\ t > 0
      /\ \A z \in Slot : StakeOf(g, For0(z)) \in Nat
  <2>1. h \in Nat /\ t \in Nat
    BY <1>1, StakeGrows DEF TotalStake
  <2>2. t > 0
    BY <1>1, StakePositive DEF TotalStake
  <2>3. \A z \in Slot : StakeOf(g, For0(z)) \in Nat
    BY <1>1, <1>2, StakeGrows
  <2> QED
    BY <2>1, <2>2, <2>3
<1>4. ASSUME NEW z \in SlotsOf(n, H), z > r
       PROVE  \E m \in H : /\ m \in Node /\ z \in Fork[Voted(m)] /\ Voted(m) \in Slot
                           /\ KeepsChain(n, m, FinalOf(n, H))
  <2>1. z \in Slot /\ For0(z) # {}
    <3>1. /\ SlotsOf(n, H) \in SUBSET Slot
          /\ \A x \in Slot : x \in SlotsOf(n, H) => ForSlot(n, H, x) # {}
      BY SlotsOfFacts
    <3> QED
      BY <3>1
  <2>2. z \in Nat /\ For0(z) = {m \in H : z \in Fork[Voted(m)] /\ z >= r}
    BY <1>1, <2>1, SlotsOfFacts
  <2>3. PICK m \in H : z \in Fork[Voted(m)]
    BY <2>1, <2>2
  <2>4. m \in Node /\ Voted(m) \in Slot /\ z <= Voted(m) /\ Voted(m) \in Nat
    BY <2>3, ScenarioFacts, ForkFacts, WenRestartAssumption
  <2>5. Voted(m) > r
    BY <1>1, <1>4, <2>2, <2>4, SMT
  <2> QED
    BY <2>3, <2>4, <2>5
<1>5. 100 * h >= 80 * t
  <2>1. s \in SlotsOf(n, H) /\ s > r
    BY <1>1, OverThreshold
  <2>2. PICK m \in H : /\ m \in Node /\ s \in Fork[Voted(m)] /\ Voted(m) \in Slot
                        /\ KeepsChain(n, m, FinalOf(n, H))
    BY <1>4, <2>1
  <2>3. EpochOf(Voted(m)) \in Epoch
    BY <1>1, <2>2
  <2>4. FinalOf(n, H).active[EpochOf(Voted(m))] = StakeOf(EpochOf(Voted(m)), H)
    BY <2>3, SMT DEF FinalOf, ActiveOf
  <2>5. StakeOf(EpochOf(Voted(m)), H) = h /\ TotalStake(EpochOf(Voted(m))) = t
    BY <1>1, <2>1, <2>2, SameStakesAlongChain DEF TotalStake
  <2> QED
    BY <2>2, <2>4, <2>5 DEF KeepsChain, EnoughActive, SUPERMAJORITY_PERCENT
<1> DEFINE d == (t * 38) \div 100
<1>6. \A z \in SlotsOf(n, H) : z \in C <=> z > r /\ StakeOf(g, For0(z)) >= h - d
  <2> SUFFICES ASSUME NEW z \in SlotsOf(n, H)
               PROVE  z \in C <=> z > r /\ StakeOf(g, For0(z)) >= h - d
    OBVIOUS
  <2>1. z \in Slot
    BY <1>1, SlotsOfFacts
  <2>2. z \in C <=> z > r /\ StakeOf(EpochOf(z), For0(z))
                               >= StakeOf(EpochOf(z), H) - Delta(EpochOf(z))
    BY OverThreshold
  <2>3. ASSUME z > r
        PROVE  /\ StakeOf(EpochOf(z), For0(z)) = StakeOf(g, For0(z))
               /\ StakeOf(EpochOf(z), H) = h /\ Delta(EpochOf(z)) = d
    <3>1. PICK m \in H : /\ m \in Node /\ z \in Fork[Voted(m)]
                          /\ KeepsChain(n, m, FinalOf(n, H))
      BY <1>4, <2>3
    <3>2. \A N \in SUBSET Node : StakeOf(EpochOf(z), N) = StakeOf(g, N)
      BY <2>3, <3>1, SameStakesAlongChain
    <3> QED
      BY <1>1, <1>2, <2>1, <3>2
      DEF TotalStake, Delta, HEAVIEST_FORK_THRESHOLD_DELTA
  <2> QED
    BY <2>2, <2>3
<1>7. s \in Slot /\ s \in Nat /\ s > r /\ StakeOf(g, For0(s)) >= h - d /\ s # 0
  <2>1. s \in Slot /\ s \in Nat /\ s > r /\ StakeOf(g, For0(s)) >= h - d
    BY <1>1, <1>6
  <2> QED
    BY <1>1, <2>1, SMT
<1> USE <1>7
<1>8. d \in Nat /\ h - d > 0 /\ 2 * (h - d) > h
  <2> HIDE DEF h, t
  <2> QED
    BY <1>3, <1>5, SMT
<1> HIDE DEF d, h, t
<1>9. \A z \in Slot : For0(z) = {m \in H : z \in Fork[Voted(m)] /\ z >= r}
  BY SlotsOfFacts
<1>10. For0(s) # {}
  <2>1. s \in SlotsOf(n, H)
    BY <1>1
  <2> QED
    BY <2>1, SlotsOfFacts
<1>11. r \in Fork[s]
  <2>1. PICK m \in H : /\ s \in Fork[Voted(m)] /\ Voted(m) \in Slot
                       /\ KeepsChain(n, m, FinalOf(n, H))
    BY <1>1, <1>4
  <2>2. r <= s
    BY <1>1, SMT
  <2> QED
    BY <2>1, <2>2, ForkFacts DEF KeepsChain
<1> DEFINE p == Parent(s)
<1>12. /\ p \in Fork[s] /\ p \in Slot /\ p \in Nat /\ p < s
       /\ \A a \in Fork[s] : a # s => a <= p
  BY <1>1, ParentFacts
<1> USE <1>12
<1>13. r <= p
  <2>1. r # s
    BY <1>1, SMT
  <2> QED
    BY <1>11, <2>1
<1>14. p \in B
  <2> SUFFICES ASSUME p # r PROVE p \in C
    OBVIOUS
  <2>1. p > r /\ p >= r
    BY <1>1, <1>13, SMT
  <2>2. For0(s) \subseteq For0(p)
    <3>1. ASSUME NEW m \in H, s \in Fork[Voted(m)] PROVE p \in Fork[Voted(m)]
      <4>1. Voted(m) \in Slot
        BY ScenarioFacts
      <4> QED
        BY <3>1, <4>1, ForkFacts
    <3> QED
      BY <1>9, <2>1, <3>1
  <2>3. p \in SlotsOf(n, H)
    <3>1. For0(p) # {}
      BY <1>10, <2>2
    <3> QED
      BY <3>1, SlotsOfFacts
  <2>4. StakeOf(g, For0(s)) <= StakeOf(g, For0(p))
    BY <1>1, <1>2, <2>2, StakeGrows
  <2>5. StakeOf(g, For0(p)) >= h - d
    <3>1. /\ StakeOf(g, For0(s)) \in Nat /\ StakeOf(g, For0(p)) \in Nat
          /\ StakeOf(g, For0(s)) >= h - d
      BY <1>3
    <3> HIDE DEF For0, p
    <3> QED
      BY <1>3, <1>8, <2>4, <3>1, SMT
  <2> QED
    BY <1>6, <2>1, <2>3, <2>5
<1>15. ASSUME NEW x \in B PROVE x <= p
  <2> SUFFICES ASSUME ~(x <= p) PROVE FALSE
    BY SMT
  <2>1. x \in C /\ x < s /\ x \in Slot /\ x \in Nat
    BY <1>1, <1>13
  <2>2. x \notin Fork[s]
    <3>1. x # s
      BY <2>1, SMT
    <3> QED
      BY <3>1
  <2>3. For0(s) \cap For0(x) = {}
    <3> SUFFICES ASSUME NEW m \in H, s \in Fork[Voted(m)], x \in Fork[Voted(m)]
                 PROVE  FALSE
      BY <1>9, <2>1
    <3>1. Voted(m) \in Slot
      BY ScenarioFacts
    <3>2. x <= s
      BY <2>1, SMT
    <3> QED
      BY <2>2, <3>1, <3>2, ForkFacts
  <2>4. StakeOf(g, For0(s) \cup For0(x)) = StakeOf(g, For0(s)) + StakeOf(g, For0(x))
    BY <1>1, <1>2, <2>1, <2>3, StakeAdds
  <2>5. StakeOf(g, For0(s) \cup For0(x)) <= h
    <3>1. For0(s) \cup For0(x) \in SUBSET H
      BY <1>2, <2>1
    <3> QED
      BY <1>1, <3>1, StakeGrows DEF h
  <2>6. StakeOf(g, For0(x)) >= h - d /\ StakeOf(g, For0(x)) \in Nat
    BY <1>1, <1>3, <1>6, <2>1
  <2>7. StakeOf(g, For0(s)) >= h - d /\ StakeOf(g, For0(s)) \in Nat
    BY <1>3
  <2>8. StakeOf(g, For0(s)) + StakeOf(g, For0(x)) <= h
    BY <2>4, <2>5
  <2> HIDE DEF For0
  <2> QED
    BY <1>3, <1>8, <2>6, <2>7, <2>8, SMT
<1>16. Max(B) \in B /\ \A x \in B : x <= Max(B)
  <2>1. B \in SUBSET Nat /\ B # {} /\ p \in Nat
    BY <1>1
  <2> HIDE DEF B, p
  <2> QED
    BY <1>15, <2>1, GreatestNatural
<1>17. Max(B) <= p /\ p <= Max(B) /\ p \in Nat /\ Max(B) \in Nat
  BY <1>1, <1>14, <1>15, <1>16
<1>18. p = Max(B)
  <2> HIDE DEF B, p
  <2> QED
    BY <1>17, SMT
<1> QED
  BY <1>18

-----------------------------------------------------------------------------
(* What stays true while blocks are only added. *)
BlocksKept(n) == \A s \in Slot : Full(n, s) => blocks'[n][s] = blocks[n][s]

(* What only depends on how the cluster halted stays the same. *)
LEMMA ScenarioKept ==
  ASSUME scenario' = scenario, NEW n
  PROVE  /\ Root(n)' = Root(n) /\ Coordinator' = Coordinator
         /\ \A m : Voted(m)' = Voted(m)
         /\ \A H : SlotsOf(n, H)' = SlotsOf(n, H)
         /\ \A H, s : ForSlot(n, H, s)' = ForSlot(n, H, s)
         /\ \A F, R : AggregateOf(n, F, R)' = AggregateOf(n, F, R)
         /\ \A H : FinalOf(n, H)' = FinalOf(n, H)
<1> USE Zenon
<1>1. /\ Root(n)' = Root(n) /\ Coordinator' = Coordinator
      /\ \A m : Voted(m)' = Voted(m)
  BY SMT DEF Root, Coordinator, Voted
<1>2. \A H : SlotsOf(n, H)' = SlotsOf(n, H)
  BY <1>1 DEF SlotsOf
<1>3. \A H, s : ForSlot(n, H, s)' = ForSlot(n, H, s)
  BY <1>1 DEF ForSlot
<1>4. \A H : StakesOf(n, H)' = StakesOf(n, H)
  BY SMT DEF StakesOf, SlotsOf, ForSlot, For, Voted, Root
<1>5. \A F, R : AggregateOf(n, F, R)' = AggregateOf(n, F, R)
  BY <1>4 DEF AggregateOf
<1>6. \A H : FinalOf(n, H)' = FinalOf(n, H)
  BY <1>4 DEF FinalOf
<1> QED
  BY <1>1, <1>2, <1>3, <1>5, <1>6

(* What is there, replayed, listed or repaired stays so. *)
LEMMA BlocksStay ==
  ASSUME scenario \in Scenarios, scenario' = scenario, NEW n \in Node,
         BlocksKept(n)
  PROVE  /\ \A s \in Slot : Full(n, s) => Full(n, s)'
         /\ \A fork \in HeaviestForkRecord : HasFork(n, fork) => HasFork(n, fork)'
         /\ \A F, R : Listed(n, F, R) => Listed(n, F, R)'
         /\ \A H : Repaired(n, H) => Repaired(n, H)'
         /\ \A final : FinalOK(n, final) => FinalOK(n, final)'
         /\ \A fork, final : Keeps(n, fork, final) => Keeps(n, fork, final)'
<1> USE Zenon
<1>1. \A s \in Slot : Full(n, s) => Full(n, s)'
  BY DEF BlocksKept, Full
<1> USE <1>1
<1>2. ASSUME NEW fork \in HeaviestForkRecord, HasFork(n, fork)
      PROVE  HasFork(n, fork)'
  <2>1. fork.slot \in Slot /\ Fork[fork.slot] \in SUBSET Slot
    BY ForkAssumption, SMT DEF HeaviestForkRecord
  <2>2. HashAt(n, fork.slot)' = HashAt(n, fork.slot)
    BY <1>2, <2>1 DEF HashAt, HasFork, BlocksKept
  <2> QED
    BY <1>2, <2>1, <2>2, ScenarioKept DEF HasFork
<1>3. \A H, s : EnoughFor(n, H, s)' <=> EnoughFor(n, H, s)
  BY ScenarioKept DEF EnoughFor
<1>4. \A F, R : Listed(n, F, R) => Listed(n, F, R)'
  BY <1>3 DEF Listed
<1>5. \A H : Repaired(n, H) => Repaired(n, H)'
  BY <1>3 DEF Repaired
<1>6. \A final : FinalOK(n, final) => FinalOK(n, final)'
  BY <1>5, ScenarioKept DEF FinalOK
<1>7. \A s : Confirmed(s)' <=> Confirmed(s)
  BY SMT DEF Confirmed, Voted
<1>8. \A fork, final : Keeps(n, fork, final) => Keeps(n, fork, final)'
  BY <1>7, ScenarioKept DEF Keeps
<1> QED
  BY <1>2, <1>4, <1>5, <1>6, <1>8

(* Whoever does not move is as it was. *)
Kept(n) ==
  /\ mem'[n] = mem[n] /\ file'[n] = file[n] /\ status'[n] = status[n]
  /\ error'[n] = error[n]
HistoryGrows ==
  /\ scenario' = scenario /\ announced \subseteq announced'
  /\ resumed \subseteq resumed'

(* The blocks n voted for stay. *)
LEMMA OwnBlocksStay ==
  ASSUME scenario \in Scenarios, scenario' = scenario, NEW n \in Node,
         BlocksKept(n), OwnBlocksOK(n), status'[n] = "running" => error'[n] = None
  PROVE  OwnBlocksOK(n)'
<1>1. Fork[Voted(n)] \in SUBSET Slot
  BY ScenarioFacts, Zenon
<1> QED
  BY <1>1, BlocksStay, ScenarioKept, Zenon DEF OwnBlocksOK

(* An error keeps its reason. *)
LEMMA ErrorStays ==
  ASSUME scenario' = scenario, NEW n \in Node, ErrorOK(n),
         error'[n] = error[n], file'[n] = file[n]
  PROVE  ErrorOK(n)'
<1>1. \A m : MayBreakChain(n, m)' = MayBreakChain(n, m)
  BY SMT DEF MayBreakChain, Voted, Root
<1> QED
  BY <1>1, SMT DEF ErrorOK

(* No error needs no reason. *)
LEMMA NoErrorOK ==
  ASSUME NEW n \in Node, error'[n] = None
  PROVE  ErrorOK(n)'
  BY NoneAssumption DEF ErrorOK

(* The file has the same state and the same results. *)
SameResults(n) ==
  /\ file'[n] = None <=> file[n] = None
  /\ file'[n].state = file[n].state /\ file'[n].sent = file[n].sent
  /\ file'[n].final = file[n].final
  /\ file'[n].my_heaviest_fork = file[n].my_heaviest_fork
  /\ file'[n].my_snapshot = file[n].my_snapshot

(* A file with the same results is as good as before. *)
LEMMA FileStays ==
  ASSUME TypeOK, HistoryGrows, NEW n \in Node, BlocksKept(n), FileOK(n),
         file'[n] = file[n] \/ SameResults(n)
  PROVE  FileOK(n)'
<1> USE Zenon
<1>1. scenario \in Scenarios /\ scenario' = scenario
  BY DEF TypeOK, HistoryGrows
<1>2. file[n] # None /\ file[n].my_heaviest_fork # None =>
        file[n].my_heaviest_fork \in HeaviestForkRecord
  <2>1. file[n] \in WenRestartProgress \cup {None}
    BY DEF TypeOK
  <2> QED
    BY <2>1 DEF WenRestartProgress
<1>3. SameResults(n)
  BY DEF SameResults
<1> QED
  BY <1>1, <1>2, <1>3, BlocksStay DEF FileOK, HistoryGrows, SameResults

(* An aggregate in memory is as good as before. *)
LEMMA AggregateStays ==
  ASSUME scenario \in Scenarios, scenario' = scenario, NEW n \in Node,
         BlocksKept(n), AggregateOK(n), mem'[n].agg = mem[n].agg,
         mem'[n].ready => mem[n].ready
  PROVE  AggregateOK(n)'
  BY BlocksStay, ScenarioKept, Zenon DEF AggregateOK

(* The state in memory is as good as before. *)
LEMMA MemoryStays ==
  ASSUME TypeOK, HistoryGrows, NEW n \in Node, BlocksKept(n), MemoryOK(n),
         mem'[n] = mem[n], file'[n] = file[n] \/ SameResults(n),
         status'[n] = "running" => status[n] = "running"
  PROVE  MemoryOK(n)'
<1> USE Zenon
<1>1. scenario \in Scenarios /\ scenario' = scenario
  BY DEF TypeOK, HistoryGrows
<1>2. mem[n].fork # None => mem[n].fork \in HeaviestForkRecord
  <2>1. mem[n] \in Memory
    BY DEF TypeOK
  <2> QED
    BY <2>1 DEF Memory
<1>3. AggregateOK(n) => AggregateOK(n)'
  BY <1>1, AggregateStays
<1>4. mem[n].fork # None /\ HasFork(n, mem[n].fork) => HasFork(n, mem[n].fork)'
  BY <1>1, <1>2, BlocksStay
<1>5. Root(n)' = Root(n) /\ Coordinator' = Coordinator
  BY <1>1, ScenarioKept
<1>6. StateOK(n, mem[n], file[n])'
  <2>1. /\ file'[n].state = file[n].state
        /\ file'[n].my_heaviest_fork = file[n].my_heaviest_fork
    BY DEF SameResults
  <2>2. StateOK(n, mem[n], file[n])
    BY DEF MemoryOK
  <2> QED
    BY <1>5, <2>1, <2>2 DEF StateOK, HistoryGrows
<1> QED
  BY <1>3, <1>4, <1>5, <1>6 DEF MemoryOK, SameResults

(* A validator that does nothing is as good as before. *)
LEMMA NodeStays ==
  ASSUME TypeOK, HistoryGrows, NEW n \in Node, BlocksKept(n), NodeOK(n), Kept(n)
  PROVE  NodeOK(n)'
<1> USE Zenon
<1>1. scenario \in Scenarios /\ scenario' = scenario
  BY DEF TypeOK, HistoryGrows
<1>2. OwnBlocksOK(n)'
  <2>1. status'[n] = "running" => error'[n] = None
    BY DEF NodeOK, OwnBlocksOK, Kept
  <2> QED
    BY <1>1, <2>1, OwnBlocksStay DEF NodeOK
<1>3. ErrorOK(n)' /\ FileOK(n)'
  BY <1>1, ErrorStays, FileStays DEF NodeOK, Kept
<1>4. MemoryOK(n)'
  BY MemoryStays DEF NodeOK, Kept
<1> QED
  BY <1>2, <1>3, <1>4 DEF NodeOK

-----------------------------------------------------------------------------
(* The steps. *)
LEMMA StepOK ==
  ASSUME IInv, HistoryGrows, TypeOK', AnnouncedOK', NEW n \in Node, NodeOK(n)',
         \A m \in Node \ {n} : Kept(m) /\ BlocksKept(m)
  PROVE  IInv'
<1>1. \A m \in Node \ {n} : NodeOK(m)'
  BY NodeStays, Zenon DEF IInv
<1> QED
  BY <1>1, Zenon DEF IInv

(* A step of n that changes at most its memory and its file, and not what  *)
(* the coordinator has found.                                              *)
LEMMA LocalStepOK ==
  ASSUME IInv, NEW n \in Node, NEW k \in Memory, NEW f \in WenRestartProgress,
         UNCHANGED <<scenario, crashes, status, error, blocks, history>>,
         mem' = [mem EXCEPT ![n] = k], file' = [file EXCEPT ![n] = f],
         file[n] # None, f.my_heaviest_fork = file[n].my_heaviest_fork,
         gossip' \in [slots : SUBSET Node,
                      fork : [Node -> HeaviestForkMessage \cup {None}]],
         gossip'.fork[Coordinator] = gossip.fork[Coordinator],
         status[n] = "running",
         FileOK(n)', MemoryOK(n)'
  PROVE  IInv'
<1> USE Zenon
<1>1. TypeOK /\ AnnouncedOK /\ NodeOK(n) /\ scenario \in Scenarios
  BY DEF IInv, TypeOK
<1> USE <1>1
<1>2. HistoryGrows /\ \A m \in Node : BlocksKept(m)
  BY DEF HistoryGrows, BlocksKept, history
<1>3. TypeOK'
  <2>1. mem \in [Node -> Memory] /\ file \in [Node -> WenRestartProgress \cup {None}]
    BY DEF TypeOK
  <2>2. mem' \in [Node -> Memory]
    BY <2>1, SMT
  <2>3. file' \in [Node -> WenRestartProgress \cup {None}]
    <3> HIDE DEF WenRestartProgress
    <3> QED
      BY <2>1, SMT
  <2> QED
    BY <2>2, <2>3 DEF TypeOK, history
<1>4. AnnouncedOK'
  <2>1. Coordinator' = Coordinator /\ Coordinator \in Node
    BY ScenarioKept, ScenarioFacts
  <2>2. /\ file'[Coordinator] # None <=> file[Coordinator] # None
        /\ file[Coordinator] # None =>
             file'[Coordinator].my_heaviest_fork = file[Coordinator].my_heaviest_fork
    <3>1. f # None
      BY NoneAssumption
    <3>2. file \in [Node -> WenRestartProgress \cup {None}]
      BY DEF TypeOK
    <3>3. CASE n = Coordinator
      BY <3>1, <3>2, <3>3
    <3>4. CASE n # Coordinator
      BY <2>1, <3>2, <3>4
    <3> QED
      BY <3>3, <3>4
  <2> QED
    BY <2>1, <2>2 DEF AnnouncedOK, ForkOf, history
<1>5. \A m \in Node \ {n} : Kept(m)
  <2>1. mem \in [Node -> Memory] /\ file \in [Node -> WenRestartProgress \cup {None}]
    BY DEF TypeOK
  <2> QED
    BY <2>1 DEF Kept
<1>6. OwnBlocksOK(n)' /\ ErrorOK(n)'
  <2>1. error'[n] = None
    BY DEF NodeOK, OwnBlocksOK
  <2> QED
    BY <1>2, <2>1, OwnBlocksStay, NoErrorOK DEF NodeOK
<1>7. NodeOK(n)'
  BY <1>6 DEF NodeOK
<1> QED
  BY <1>2, <1>3, <1>4, <1>5, <1>7, StepOK

(* What a validator that is at some state has. *)
LEMMA AtFacts ==
  ASSUME IInv, NEW n \in Node, status[n] = "running"
  PROVE  /\ TypeOK /\ AnnouncedOK /\ scenario \in Scenarios
         /\ OwnBlocksOK(n) /\ FileOK(n) /\ MemoryOK(n)
         /\ mem[n] \in Memory /\ mem[n].pc # "None"
         /\ file[n] # None /\ file[n] \in WenRestartProgress
         /\ gossip \in [slots : SUBSET Node,
                         fork : [Node -> HeaviestForkMessage \cup {None}]]
<1> USE Zenon
<1>1. TypeOK /\ AnnouncedOK /\ NodeOK(n)
  BY DEF IInv
<1>2. mem[n].pc # "None" /\ file[n] # None
  BY <1>1 DEF NodeOK, MemoryOK
<1> QED
  BY <1>1, <1>2 DEF NodeOK, TypeOK

(* A step of n that changes its memory, and messages other than those of   *)
(* the coordinator.                                                        *)
GossipType ==
  [slots : SUBSET Node, fork : [Node -> HeaviestForkMessage \cup {None}]]

(* Such a step preserves the invariant if the new memory is right. *)
LEMMA MemoryStepOK ==
  ASSUME IInv, NEW n \in Node, NEW k \in Memory, status[n] = "running",
         UNCHANGED <<scenario, crashes, status, error, file, blocks, history>>,
         mem' = [mem EXCEPT ![n] = k], gossip' \in GossipType,
         gossip'.fork[Coordinator] = gossip.fork[Coordinator],
         mem'[n] = k => MemoryOK(n)'
  PROVE  IInv'
<1> USE Zenon
<1>1. /\ TypeOK /\ FileOK(n) /\ file[n] # None /\ file[n] \in WenRestartProgress
  BY AtFacts
<1>2. mem'[n] = k /\ file' = [file EXCEPT ![n] = file[n]]
  BY <1>1 DEF TypeOK
<1>3. FileOK(n)'
  BY <1>1, FileStays DEF HistoryGrows, BlocksKept, history
<1> QED
  BY <1>1, <1>2, <1>3, LocalStepOK DEF GossipType

(* A process in Init has found nothing. *)
LEMMA StateInit ==
  ASSUME NEW n, MemoryOK(n), mem[n].pc = "Init"
  PROVE  /\ file[n].state = "Init" /\ mem[n].agg = None
         /\ mem[n].fork = None /\ mem[n].snapshot = None
<1>1. StateOK(n, mem[n], file[n])
  BY Zenon DEF MemoryOK
<1> QED
  BY <1>1, SMT DEF StateOK

(* A process that collects has no fork. *)
LEMMA StateCollect ==
  ASSUME NEW n, MemoryOK(n), mem[n].pc = "LastVotedForkSlots"
  PROVE  /\ file[n].state = "LastVotedForkSlots"
         /\ mem[n].fork = None /\ mem[n].snapshot = None
<1>1. StateOK(n, mem[n], file[n])
  BY Zenon DEF MemoryOK
<1> QED
  BY <1>1, SMT DEF StateOK

(* A process that looks for its fork has the one of its file. *)
LEMMA StateFind ==
  ASSUME NEW n, MemoryOK(n), mem[n].pc = "FindHeaviestFork"
  PROVE  /\ file[n].state = "HeaviestFork" /\ mem[n].agg = None
         /\ mem[n].fork = file[n].my_heaviest_fork /\ mem[n].snapshot = None
<1>1. StateOK(n, mem[n], file[n])
  BY Zenon DEF MemoryOK
<1> QED
  BY <1>1, SMT DEF StateOK

(* A process with a fork of its own has written one. *)
LEMMA StateFork ==
  ASSUME NEW n, MemoryOK(n), mem[n].pc = "HeaviestFork"
  PROVE  /\ file[n].state = "HeaviestFork" /\ mem[n].agg = None
         /\ mem[n].snapshot = None
         /\ mem[n].fork # None /\ file[n].my_heaviest_fork # None
         /\ n = Coordinator => mem[n].fork = file[n].my_heaviest_fork
         /\ mem[n].ready => mem[n].fork \in announced
<1>1. StateOK(n, mem[n], file[n])
  BY Zenon DEF MemoryOK
<1> QED
  BY <1>1, SMT DEF StateOK

(* A process that verifies has the coordinator's fork too. *)
LEMMA StateVerify ==
  ASSUME NEW n, MemoryOK(n), mem[n].pc = "Verify"
  PROVE  /\ file[n].state = "HeaviestFork" /\ mem[n].agg = None
         /\ mem[n].snapshot = None
         /\ mem[n].fork # None /\ file[n].my_heaviest_fork # None
         /\ n # Coordinator /\ mem[n].theirs # None /\ mem[n].theirs \in announced
<1>1. StateOK(n, mem[n], file[n])
  BY Zenon DEF MemoryOK
<1> QED
  BY <1>1, SMT DEF StateOK

(* A process that makes a snapshot has a fork that was announced, unless  *)
(* it started in this state.                                               *)
LEMMA StateSnapshot ==
  ASSUME NEW n, MemoryOK(n), mem[n].pc = "GenerateSnapshot"
  PROVE  /\ file[n].state = "GenerateSnapshot" /\ mem[n].agg = None
         /\ mem[n].fork # None
         /\ mem[n].ready => mem[n].snapshot # None
         /\ n \notin resumed => /\ mem[n].fork \in announced
                                /\ mem[n].snapshot \in announced \cup {None}
<1>1. StateOK(n, mem[n], file[n])
  BY Zenon DEF MemoryOK
<1> QED
  BY <1>1, SMT DEF StateOK

(* A process that is done has written it. *)
LEMMA StateDone ==
  ASSUME NEW n, MemoryOK(n), mem[n].pc = "Done"
  PROVE  file[n].state = "Done"
<1>1. StateOK(n, mem[n], file[n])
  BY Zenon DEF MemoryOK
<1> QED
  BY <1>1, SMT DEF StateOK

(* A result is ready in four states. *)
LEMMA StateReady ==
  ASSUME NEW n, MemoryOK(n), mem[n].ready
  PROVE  mem[n].pc \in {"Init", "LastVotedForkSlots", "HeaviestFork",
                       "GenerateSnapshot"}
<1>1. StateOK(n, mem[n], file[n])
  BY Zenon DEF MemoryOK
<1> QED
  BY <1>1, SMT DEF StateOK

(* Only a process that collects has an aggregate. *)
LEMMA StateAggregate ==
  ASSUME NEW n, MemoryOK(n), mem[n].agg # None
  PROVE  mem[n].pc = "LastVotedForkSlots"
<1>1. StateOK(n, mem[n], file[n])
  BY Zenon DEF MemoryOK
<1> QED
  BY <1>1, SMT DEF StateOK

(* A new state in memory with the fork of the old one. *)
LEMMA SameForkOK ==
  ASSUME TypeOK, NEW n \in Node, MemoryOK(n), status'[n] = "running",
         UNCHANGED <<scenario, blocks>>, file'[n] # None, mem[n].pc # "None",
         mem'[n].pc \in {"Init", "FindHeaviestFork", "HeaviestFork", "Verify",
                         "GenerateSnapshot", "Done"},
         mem'[n].fork = mem[n].fork, mem'[n].frozen = mem[n].frozen,
         StateOK(n, mem[n], file[n])'
  PROVE  MemoryOK(n)'
<1> USE Zenon
<1>1. scenario \in Scenarios /\ mem[n] \in Memory
  BY DEF TypeOK
<1>2. mem[n].fork # None => mem[n].fork \in HeaviestForkRecord
  BY <1>1 DEF Memory
<1>3. mem[n].fork # None => HasFork(n, mem[n].fork)'
  <2>1. mem[n].fork # None => HasFork(n, mem[n].fork)
    BY DEF MemoryOK
  <2> QED
    BY <1>1, <1>2, <2>1, BlocksStay DEF BlocksKept
<1>4. Root(n)' = Root(n)
  BY ScenarioKept
<1>5. mem'[n].pc # "LastVotedForkSlots" /\ mem'[n].pc # "None"
  BY SMT
<1> QED
  BY <1>3, <1>4, <1>5 DEF MemoryOK

(* Sending my last voted fork preserves the invariant. *)
LEMMA SendOK ==
  ASSUME IInv, NEW n \in Node, SendLastVotedForkSlots(n)
  PROVE  IInv'
<1> USE Zenon
<1> DEFINE m == mem[n]
           k == [mem[n] EXCEPT !.ready = TRUE]
<1>1. status[n] = "running" /\ m.pc = "Init" /\ ~m.ready
  BY DEF SendLastVotedForkSlots, At
<1> USE <1>1
<1>2. MemoryOK(n) /\ m \in Memory /\ gossip \in GossipType
  BY AtFacts DEF GossipType
<1> USE <1>2
<1>3. /\ k \in Memory /\ k.pc = m.pc /\ k.ready = TRUE /\ k.agg = m.agg
      /\ k.fork = m.fork /\ k.theirs = m.theirs /\ k.snapshot = m.snapshot
      /\ k.frozen = m.frozen
  BY DEF Memory
<1>4. /\ UNCHANGED <<scenario, crashes, status, error, file, blocks, history>>
      /\ mem' = [mem EXCEPT ![n] = k]
      /\ gossip' = [gossip EXCEPT !.slots = @ \cup {n}]
  BY SMT DEF SendLastVotedForkSlots, disk
<1> USE <1>4
<1>5. gossip' \in GossipType /\ gossip'.fork = gossip.fork
  BY SMT DEF GossipType
<1>6. ASSUME mem'[n] = k PROVE MemoryOK(n)'
  <2> HIDE DEF k
  <2>1. StateOK(n, mem[n], file[n])'
    BY <1>3, <1>6 DEF MemoryOK, StateOK
  <2> QED
    BY <1>3, <1>6, <2>1, AtFacts, SameForkOK
<1> HIDE DEF k
<1> QED
  BY <1>3, <1>5, <1>6, MemoryStepOK

(* Receiving the coordinator's fork preserves the invariant. *)
LEMMA ReceiveOK ==
  ASSUME IInv, NEW n \in Node, ReceiveHeaviestFork(n)
  PROVE  IInv'
<1> USE Zenon
<1> DEFINE m == mem[n]
           theirs == ForkOf(gossip.fork[Coordinator])
           k == [mem[n] EXCEPT !.theirs = theirs, !.pc = "Verify"]
<1>1. /\ status[n] = "running" /\ m.pc = "HeaviestFork" /\ ~m.ready
      /\ n # Coordinator /\ gossip.fork[Coordinator] # None
  BY DEF ReceiveHeaviestFork, At
<1> USE <1>1
<1>2. /\ MemoryOK(n) /\ m \in Memory /\ gossip \in GossipType
      /\ AnnouncedOK /\ scenario \in Scenarios
  BY AtFacts DEF GossipType
<1> USE <1>2
<1>3. theirs \in HeaviestForkRecord /\ theirs \in announced /\ theirs # None
  <2>1. gossip.fork[Coordinator] \in HeaviestForkMessage
    <3>1. Coordinator \in Node
      BY ScenarioFacts
    <3>2. gossip.fork \in [Node -> HeaviestForkMessage \cup {None}]
      BY SMT DEF GossipType
    <3> QED
      BY <3>1, <3>2
  <2>2. theirs \in HeaviestForkRecord
    BY <2>1, SMT DEF HeaviestForkMessage, HeaviestForkRecord, ForkOf
  <2> QED
    BY <2>2, NoneAssumption DEF AnnouncedOK
<1> HIDE DEF theirs
<1>4. /\ k \in Memory /\ k.pc = "Verify" /\ k.ready = m.ready /\ k.agg = m.agg
      /\ k.fork = m.fork /\ k.theirs = theirs /\ k.snapshot = m.snapshot
      /\ k.frozen = m.frozen
  BY <1>3 DEF Memory
<1> USE <1>4
<1>5. /\ UNCHANGED <<scenario, crashes, status, error, file, blocks, gossip, history>>
      /\ mem' = [mem EXCEPT ![n] = k]
  BY DEF ReceiveHeaviestFork, disk, theirs
<1>6. ASSUME mem'[n] = k PROVE MemoryOK(n)'
  <2> HIDE DEF k
  <2>1. StateOK(n, mem[n], file[n])'
    <3>1. Coordinator' = Coordinator
      BY <1>5, ScenarioKept
    <3>2. /\ file[n].state = "HeaviestFork" /\ m.agg = None /\ m.snapshot = None
          /\ m.fork # None /\ file[n].my_heaviest_fork # None
      BY StateFork
    <3>3. /\ mem'[n].pc = "Verify" /\ file'[n].state = "HeaviestFork"
          /\ mem'[n].agg = None /\ mem'[n].snapshot = None
          /\ mem'[n].fork # None /\ file'[n].my_heaviest_fork # None
          /\ mem'[n].theirs # None /\ mem'[n].theirs \in announced'
      <4>1. announced' = announced /\ file'[n] = file[n]
        BY <1>5 DEF history
      <4> QED
        BY <1>3, <1>6, <3>2, <4>1
    <3>4. ~mem'[n].ready
      BY <1>6, SMT
    <3> QED
      BY <3>1, <3>3, <3>4 DEF StateOK
  <2> QED
    BY <1>5, <1>6, <2>1, AtFacts, SameForkOK
<1> HIDE DEF k
<1> QED
  BY <1>5, <1>6, MemoryStepOK

(* Listing what to repair preserves the invariant. *)
LEMMA ListRepairsOK ==
  ASSUME IInv, NEW n \in Node, RepairHeaviestFork(n)
  PROVE  IInv'
<1> USE Zenon
<1> DEFINE m == mem[n]
           k == [mem[n] EXCEPT !.repair = ToRepair(n)]
<1>1. status[n] = "running" /\ m.pc = "Verify" /\ ~m.ready
  BY DEF RepairHeaviestFork, At
<1> USE <1>1
<1>2. /\ MemoryOK(n) /\ m \in Memory /\ gossip \in GossipType
      /\ scenario \in Scenarios
  BY AtFacts DEF GossipType
<1> USE <1>2
<1>3. ToRepair(n) \in SUBSET Slot
  <2>1. m.theirs \in HeaviestForkRecord
    <3>1. m.theirs # None
      BY DEF MemoryOK, StateOK
    <3> QED
      BY <3>1 DEF Memory
  <2>2. m.theirs.slot \in Slot
    BY <2>1, SMT DEF HeaviestForkRecord
  <2>3. Reached(n, m.theirs.slot) \in SUBSET Slot
    BY <2>2, ForkAssumption DEF Reached
  <2> QED
    BY <2>2, <2>3 DEF ToRepair
<1>4. /\ k \in Memory /\ k.pc = m.pc /\ k.ready = m.ready /\ k.agg = m.agg
      /\ k.fork = m.fork /\ k.theirs = m.theirs /\ k.snapshot = m.snapshot
      /\ k.frozen = m.frozen
  <2> DEFINE R == ToRepair(n)
  <2> HIDE DEF R
  <2>1. R \in SUBSET Slot
    BY <1>3 DEF R
  <2>2. k = [mem[n] EXCEPT !.repair = R]
    BY DEF R
  <2> QED
    BY <2>1, <2>2 DEF Memory
<1> USE <1>4
<1>5. /\ UNCHANGED <<scenario, crashes, status, error, file, blocks, gossip, history>>
      /\ mem' = [mem EXCEPT ![n] = k]
  BY SMT DEF RepairHeaviestFork, disk
<1>6. ASSUME mem'[n] = k PROVE MemoryOK(n)'
  <2> HIDE DEF k
  <2>1. StateOK(n, mem[n], file[n])'
    <3>1. Coordinator' = Coordinator
      BY <1>5, ScenarioKept
    <3>2. /\ file[n].state = "HeaviestFork" /\ m.agg = None /\ m.snapshot = None
          /\ m.fork # None /\ file[n].my_heaviest_fork # None /\ m.theirs # None
          /\ n # Coordinator /\ m.theirs \in announced
      BY StateVerify
    <3>3. /\ mem'[n].pc = "Verify" /\ file'[n].state = "HeaviestFork"
          /\ mem'[n].agg = None /\ mem'[n].snapshot = None
          /\ mem'[n].fork # None /\ file'[n].my_heaviest_fork # None
          /\ mem'[n].theirs # None /\ mem'[n].theirs \in announced'
      <4>1. announced' = announced /\ file'[n] = file[n]
        BY <1>5 DEF history
      <4> QED
        BY <1>6, <3>2, <4>1
    <3>4. ~mem'[n].ready
      BY <1>6, SMT
    <3> QED
      BY <3>1, <3>2, <3>3, <3>4 DEF StateOK
  <2> QED
    BY <1>5, <1>6, <2>1, AtFacts, SameForkOK
<1> HIDE DEF k
<1> QED
  BY <1>5, <1>6, MemoryStepOK

(* Announcements stay in the file. *)
LEMMA AnnouncedStays ==
  ASSUME scenario \in Scenarios, AnnouncedOK, scenario' = scenario,
         announced' = announced, file'[Coordinator] = file[Coordinator],
         gossip'.fork[Coordinator] \in {gossip.fork[Coordinator], None}
  PROVE  AnnouncedOK'
<1>1. Coordinator' = Coordinator
  BY DEF Coordinator
<1> QED
  BY <1>1, Zenon DEF AnnouncedOK, ForkOf

(* n stops with an error that has a reason. *)
LEMMA FailOK ==
  ASSUME IInv, NEW n \in Node, status[n] = "running",
         NEW e \in {"Panic", "BlockNotFound", "BlockNotLinkedToExpectedParent",
                    "HeaviestForkOnLeaderOnDifferentFork", "BankHashMismatch",
                    "SnapshotExists"},
         Fail(n, e), error'[n] = e => ErrorOK(n)', gossip' \in GossipType,
         gossip'.fork[Coordinator] = gossip.fork[Coordinator]
  PROVE  IInv'
<1> USE Zenon
<1>1. /\ TypeOK /\ AnnouncedOK /\ scenario \in Scenarios
      /\ OwnBlocksOK(n) /\ FileOK(n) /\ MemoryOK(n)
  BY AtFacts
<1> USE <1>1
<1>2. /\ UNCHANGED <<scenario, crashes, mem, file, blocks, history>>
      /\ status' = [status EXCEPT ![n] = "failed"]
      /\ error' = [error EXCEPT ![n] = e]
  BY DEF Fail, disk
<1> USE <1>2
<1>3. HistoryGrows /\ \A m \in Node : BlocksKept(m)
  BY DEF HistoryGrows, BlocksKept, history
<1>4. /\ status'[n] = "failed" /\ error'[n] = e
      /\ \A m \in Node \ {n} : status'[m] = status[m] /\ error'[m] = error[m]
  BY DEF TypeOK
<1>5. TypeOK'
  <2>1. /\ status' \in [Node -> {"down", "running", "failed", "finished"}]
        /\ error' \in [Node -> {None, "MalformedProgress", "BankNotFound", "Panic",
                         "BlockNotFound", "BlockNotLinkedToExpectedParent",
                         "HeaviestForkOnLeaderOnDifferentFork",
                         "BankHashMismatch", "SnapshotExists"}]
    BY SMT DEF TypeOK
  <2> QED
    BY <2>1 DEF TypeOK, history, GossipType
<1>6. AnnouncedOK'
  BY AnnouncedStays DEF history
<1>7. status'[n] # "running"
  BY <1>4, SMT
<1>8. NodeOK(n)'
  BY <1>3, <1>4, <1>7, OwnBlocksStay, FileStays, MemoryStays
  DEF NodeOK
<1>9. \A m \in Node \ {n} : Kept(m)
  BY <1>4 DEF Kept
<1> QED
  BY <1>3, <1>5, <1>6, <1>8, <1>9, StepOK

(* These errors have one by themselves. *)
LEMMA OtherErrorOK ==
  ASSUME NEW n \in Node,
         error'[n] \in {"HeaviestForkOnLeaderOnDifferentFork",
                        "BankHashMismatch", "SnapshotExists"}
  PROVE  ErrorOK(n)'
  BY DEF ErrorOK

(* A message in gossip replaces the old one of its sender. *)
LEMMA PushFacts ==
  ASSUME gossip \in GossipType, crashes \in Nat, NEW n \in Node,
         NEW fork \in HeaviestForkRecord, PushHeaviestFork(n, fork)
  PROVE  /\ gossip' \in GossipType /\ gossip'.fork[n] = Message(fork)
         /\ ForkOf(Message(fork)) = fork
         /\ \A m \in Node \ {n} : gossip'.fork[m] = gossip.fork[m]
<1>1. Message(fork) \in HeaviestForkMessage /\ ForkOf(Message(fork)) = fork
  BY DEF Message, HeaviestForkMessage, HeaviestForkRecord, ForkOf
<1>2. gossip.fork \in [Node -> HeaviestForkMessage \cup {None}]
  BY DEF GossipType
<1> DEFINE msg == Message(fork)
<1>3. gossip' = [gossip EXCEPT !.fork[n] = msg]
  BY Zenon DEF PushHeaviestFork
<1> HIDE DEF msg
<1>4. msg \in HeaviestForkMessage \cup {None}
  BY <1>1, Zenon DEF msg
<1>5. gossip' = [gossip EXCEPT !.fork = [gossip.fork EXCEPT ![n] = msg]]
  BY <1>3 DEF GossipType
<1> DEFINE new == [gossip.fork EXCEPT ![n] = msg]
<1>6. /\ new \in [Node -> HeaviestForkMessage \cup {None}] /\ new[n] = msg
      /\ \A m \in Node \ {n} : new[m] = gossip.fork[m]
  BY <1>2, <1>4, Zenon
<1> HIDE DEF new
<1>7. gossip' \in GossipType /\ gossip'.fork = new
  BY <1>5, <1>6 DEF GossipType
<1> QED
  BY <1>1, <1>6, <1>7, Zenon DEF msg

(* Announcing the fork in my file preserves the invariant. *)
LEMMA AnnounceOK ==
  ASSUME IInv, NEW n \in Node, AnnounceHeaviestFork(n)
  PROVE  IInv'
<1> USE Zenon
<1> DEFINE m == mem[n]
           k == [mem[n] EXCEPT !.ready = TRUE]
<1>1. status[n] = "running" /\ m.pc = "HeaviestFork" /\ ~m.ready /\ n = Coordinator
  BY DEF AnnounceHeaviestFork, At
<1> USE <1>1
<1>2. /\ MemoryOK(n) /\ FileOK(n) /\ OwnBlocksOK(n) /\ m \in Memory /\ TypeOK
      /\ gossip \in GossipType /\ AnnouncedOK /\ scenario \in Scenarios
      /\ m.pc # "None" /\ file[n] # None
  BY AtFacts DEF GossipType
<1> USE <1>2
<1>3. /\ k \in Memory /\ k.pc = m.pc /\ k.ready = TRUE /\ k.agg = m.agg
      /\ k.fork = m.fork /\ k.theirs = m.theirs /\ k.snapshot = m.snapshot
      /\ k.frozen = m.frozen
  BY DEF Memory
<1>4. /\ UNCHANGED <<scenario, crashes, status, error, file, blocks, resumed>>
      /\ mem' = [mem EXCEPT ![n] = k] /\ PushHeaviestFork(n, m.fork)
      /\ announced' = announced \cup {m.fork}
  BY SMT DEF AnnounceHeaviestFork, disk
<1> USE <1>4
<1> HIDE DEF k
<1>5. /\ file[n].state = "HeaviestFork" /\ m.agg = None /\ m.snapshot = None
      /\ m.fork # None /\ file[n].my_heaviest_fork = m.fork
  BY StateFork
<1>6. m.fork \in HeaviestForkRecord
  BY <1>5 DEF Memory
<1>7. /\ gossip' \in GossipType
      /\ gossip'.fork[n] = Message(m.fork) /\ ForkOf(Message(m.fork)) = m.fork
  <2>1. crashes \in Nat
    BY DEF TypeOK
  <2> QED
    BY <1>6, <2>1, PushFacts
<1>8. /\ mem' \in [Node -> Memory] /\ mem'[n] = k
      /\ \A i \in Node \ {n} : mem'[i] = mem[i]
  <2>1. mem \in [Node -> Memory]
    BY DEF TypeOK
  <2> QED
    BY <1>3, <2>1
<1> USE <1>8
<1>9. HistoryGrows /\ \A i \in Node : BlocksKept(i)
  BY DEF HistoryGrows, BlocksKept
<1>10. TypeOK'
  <2>1. announced' \subseteq HeaviestForkRecord
    BY <1>6 DEF TypeOK
  <2> QED
    BY <1>7, <2>1 DEF TypeOK, GossipType
<1>11. AnnouncedOK'
  <2>1. Coordinator' = n
    BY ScenarioKept
  <2>2. ForkOf(gossip.fork[Coordinator])' = m.fork
    <3>1. (gossip.fork[Coordinator])' = Message(m.fork)
      BY <1>7, <2>1
    <3> QED
      BY <1>7, <3>1 DEF ForkOf
  <2> QED
    BY <1>5, <2>1, <2>2 DEF AnnouncedOK
<1>12. StateOK(n, mem[n], file[n])'
  <2>1. m.fork \in announced'
    OBVIOUS
  <2>2. /\ mem'[n].pc = "HeaviestFork" /\ file'[n].state = "HeaviestFork"
        /\ mem'[n].agg = None /\ mem'[n].snapshot = None
        /\ mem'[n].fork # None /\ mem'[n].fork \in announced'
        /\ file'[n].my_heaviest_fork = mem'[n].fork
    BY <1>3, <1>5, <2>1
  <2> QED
    BY <2>2 DEF StateOK
<1>13. MemoryOK(n)'
  BY <1>3, <1>12, SameForkOK
<1>14. NodeOK(n)'
  <2>1. error'[n] = None
    BY DEF OwnBlocksOK
  <2> QED
    BY <1>9, <1>13, <2>1, OwnBlocksStay, NoErrorOK, FileStays
    DEF NodeOK
<1>15. \A i \in Node \ {n} : Kept(i)
  BY DEF Kept
<1> QED
  BY <1>9, <1>10, <1>11, <1>14, <1>15, StepOK

(* A fork that passes the checks is one that n has replayed. *)
LEMMA VerifiedIsReplayed ==
  ASSUME scenario \in Scenarios, NEW n \in Node, OwnBlocksOK(n),
         NEW theirs \in HeaviestForkRecord, OnOneFork(n, theirs.slot),
         SameHash(n, theirs)
  PROVE  HasFork(n, theirs) /\ theirs.slot \in ToSlots(theirs.slot, Root(n))
<1> USE Zenon
<1> DEFINE t == theirs.slot
           r == Root(n)
<1>1. t \in Slot /\ t \in Fork[t] /\ t \in Nat
  <2>1. t \in Slot
    BY SMT DEF HeaviestForkRecord
  <2> QED
    BY <2>1, ForkAssumption, WenRestartAssumption
<1> USE <1>1
<1>2. r \in Fork[t] /\ r \in Reached(n, t)
  BY DEF OnOneFork, ToSlots
<1> USE <1>2
<1>3. r \in Nat /\ r <= t /\ r \in Slot /\ r \in Fork[Voted(n)] /\ Voted(n) \in Slot
  BY ForkFacts, ScenarioFacts
<1>4. ASSUME NEW s \in Fork[t] PROVE Full(n, s)
  <2>1. s \in Nat
    BY ForkFacts
  <2>2. CASE s > r
    BY <2>2 DEF Reached
  <2>3. CASE ~(s > r)
    <3>1. s <= r
      BY <1>3, <2>1, <2>3, SMT
    <3>2. s \in Fork[r]
      BY <3>1, ForkFacts
    <3>3. s \in Fork[Voted(n)]
      BY <1>3, <3>2, ForkFacts
    <3> QED
      BY <3>3 DEF OwnBlocksOK
  <2> QED
    BY <2>2, <2>3
<1>5. t >= r
  BY <1>3, SMT
<1> QED
  BY <1>4, <1>5 DEF HasFork, SameHash, ToSlots

(* Verifying the coordinator's fork preserves the invariant. *)
LEMMA VerifyOK ==
  ASSUME IInv, NEW n \in Node, VerifyHeaviestFork(n)
  PROVE  IInv'
<1> USE Zenon
<1> DEFINE m == mem[n]
           slots == ToSlots(m.theirs.slot, Root(n))
           k == [mem[n] EXCEPT !.pc = "HeaviestFork", !.ready = TRUE,
                   !.fork = m.theirs, !.frozen = @ \cup slots]
<1>1. status[n] = "running" /\ m.pc = "Verify" /\ ~m.ready
  BY DEF VerifyHeaviestFork, At
<1> USE <1>1
<1>2. /\ MemoryOK(n) /\ OwnBlocksOK(n) /\ m \in Memory /\ TypeOK
      /\ gossip \in GossipType /\ scenario \in Scenarios /\ crashes \in Nat
      /\ file[n] # None
  BY AtFacts DEF GossipType, TypeOK
<1> USE <1>2
<1>3. /\ file[n].state = "HeaviestFork" /\ m.agg = None /\ m.snapshot = None
      /\ m.fork # None /\ file[n].my_heaviest_fork # None /\ m.theirs # None
      /\ n # Coordinator /\ m.theirs \in announced
  BY StateVerify
<1> USE <1>3
<1>4. m.fork \in HeaviestForkRecord /\ m.theirs \in HeaviestForkRecord
  BY DEF Memory
<1> USE <1>4
<1>5. Coordinator \in Node \ {n}
  BY ScenarioFacts
<1>6. ASSUME NEW e \in {"HeaviestForkOnLeaderOnDifferentFork", "BankHashMismatch"},
             PushHeaviestFork(n, m.fork), Fail(n, e)
      PROVE  IInv'
  <2>1. /\ gossip' \in GossipType
        /\ gossip'.fork[Coordinator] = gossip.fork[Coordinator]
    BY <1>5, <1>6, PushFacts
  <2> QED
    BY <1>6, <2>1, OtherErrorOK, FailOK
<1>7. ASSUME OnOneFork(n, m.theirs.slot), SameHash(n, m.theirs),
             PushHeaviestFork(n, m.theirs), mem' = [mem EXCEPT ![n] = k],
             UNCHANGED <<scenario, crashes, status, error, disk, history>>
      PROVE  IInv'
  <2>1. HasFork(n, m.theirs) /\ m.theirs.slot \in slots
    BY <1>7, VerifiedIsReplayed
  <2>2. slots \in SUBSET Slot
    <3>1. m.theirs.slot \in Slot
      BY SMT DEF HeaviestForkRecord
    <3> QED
      BY <3>1, ForkAssumption DEF ToSlots
  <2> HIDE DEF slots
  <2>3. /\ k \in Memory /\ k.pc = "HeaviestFork" /\ k.ready = TRUE
        /\ k.agg = m.agg /\ k.fork = m.theirs /\ k.snapshot = m.snapshot
        /\ k.frozen = m.frozen \cup slots
    BY <2>2 DEF Memory
  <2> HIDE DEF k
  <2>4. /\ gossip' \in GossipType
        /\ gossip'.fork[Coordinator] = gossip.fork[Coordinator]
    BY <1>5, <1>7, PushFacts
  <2>5. UNCHANGED <<scenario, crashes, status, error, file, blocks, history>>
    BY <1>7 DEF disk
  <2>6. ASSUME mem'[n] = k PROVE MemoryOK(n)'
    <3>1. Root(n)' = Root(n) /\ Coordinator' = Coordinator
      BY <2>5, ScenarioKept
    <3>2. StateOK(n, mem[n], file[n])'
      <4>1. /\ mem'[n].pc = "HeaviestFork" /\ file'[n].state = "HeaviestFork"
            /\ mem'[n].agg = None /\ mem'[n].snapshot = None
            /\ mem'[n].fork # None /\ mem'[n].fork \in announced'
            /\ file'[n].my_heaviest_fork # None
        BY <2>3, <2>5, <2>6 DEF history
      <4> QED
        BY <3>1, <4>1 DEF StateOK
    <3>3. HasFork(n, mem[n].fork)'
      BY <2>1, <2>3, <2>5, <2>6, BlocksStay DEF BlocksKept
    <3>4. mem'[n].fork.slot \in mem'[n].frozen
      BY <2>1, <2>3, <2>6
    <3>5. Root(n) \in m.frozen
      BY AtFacts DEF MemoryOK
    <3>6. Root(n) \in mem'[n].frozen
      BY <2>3, <2>6, <3>5
    <3>7. mem'[n].pc = "HeaviestFork" /\ file'[n] # None
      BY <2>3, <2>5, <2>6
    <3> QED
      BY <3>1, <3>2, <3>3, <3>4, <3>6, <3>7 DEF MemoryOK
  <2> QED
    BY <1>7, <2>3, <2>4, <2>5, <2>6, MemoryStepOK
<1> QED
  BY <1>6, <1>7 DEF VerifyHeaviestFork

(* Making the snapshot preserves the invariant. *)
LEMMA GenerateOK ==
  ASSUME IInv, NEW n \in Node, GenerateSnapshot(n)
  PROVE  IInv'
<1> USE Zenon
<1> DEFINE m == mem[n]
<1>1. status[n] = "running" /\ m.pc = "GenerateSnapshot" /\ ~m.ready
  BY DEF GenerateSnapshot, At
<1> USE <1>1
<1>2. /\ MemoryOK(n) /\ m \in Memory /\ TypeOK /\ gossip \in GossipType
      /\ scenario \in Scenarios /\ file[n] # None /\ m.pc # "None"
  BY AtFacts DEF GossipType
<1> USE <1>2
<1>3. /\ file[n].state = "GenerateSnapshot" /\ m.agg = None /\ m.fork # None
      /\ n \notin resumed => /\ m.fork \in announced
                             /\ m.snapshot \in announced \cup {None}
  BY StateSnapshot
<1> USE <1>3
<1>4. m.fork \in HeaviestForkRecord /\ HasFork(n, m.fork) /\ m.fork.slot \in m.frozen
  <2>1. m.fork \in HeaviestForkRecord
    BY DEF Memory
  <2> QED
    BY <2>1 DEF MemoryOK
<1> USE <1>4
<1>5. ForkAt(n, m.fork.slot) = m.fork
  <2>1. m.fork.hash = HashAt(n, m.fork.slot)
    BY DEF HasFork
  <2> DEFINE h == HashAt(n, m.fork.slot)
  <2>2. ForkAt(n, m.fork.slot) = [slot |-> m.fork.slot, hash |-> h]
    BY DEF ForkAt
  <2> HIDE DEF h
  <2>3. m.fork.hash = h
    BY <2>1 DEF h
  <2> QED
    BY <2>2, <2>3, SMT DEF HeaviestForkRecord
<1>6. UNCHANGED gossip
  BY DEF GenerateSnapshot
<1>7. ASSUME Fail(n, "SnapshotExists") PROVE IInv'
  BY <1>6, <1>7, OtherErrorOK, FailOK
<1>8. ASSUME NEW snapshot \in {m.snapshot, m.fork}, snapshot # None,
             mem' = [mem EXCEPT ![n].snapshot = snapshot, ![n].ready = TRUE],
             UNCHANGED <<scenario, crashes, status, error, file, blocks, history>>
      PROVE  IInv'
  <2> DEFINE k == [mem[n] EXCEPT !.snapshot = snapshot, !.ready = TRUE]
  <2>1. snapshot \in HeaviestForkRecord \cup {None}
    BY <1>8 DEF Memory
  <2>2. /\ k \in Memory /\ k.pc = m.pc /\ k.ready = TRUE /\ k.agg = m.agg
        /\ k.fork = m.fork /\ k.snapshot = snapshot /\ k.frozen = m.frozen
    BY <2>1 DEF Memory
  <2>3. mem' = [mem EXCEPT ![n] = k]
    BY <1>8
  <2> HIDE DEF k
  <2>4. ASSUME mem'[n] = k PROVE MemoryOK(n)'
    <3>1. n \notin resumed => snapshot \in announced
      BY <1>8
    <3>2. StateOK(n, mem[n], file[n])'
      <4>1. /\ mem'[n].pc = "GenerateSnapshot" /\ mem'[n].agg = None
            /\ file'[n].state = "GenerateSnapshot"
            /\ mem'[n].fork # None /\ mem'[n].snapshot # None
        BY <1>8, <2>2, <2>4
      <4>2. announced' = announced /\ resumed' = resumed
        BY <1>8 DEF history
      <4>3. n \notin resumed' => /\ mem'[n].fork \in announced'
                                 /\ mem'[n].snapshot \in announced'
        BY <2>2, <2>4, <3>1, <4>2
      <4> QED
        BY <4>1, <4>3 DEF StateOK
    <3> QED
      BY <1>8, <2>2, <2>4, <3>2, SameForkOK
  <2> QED
    BY <1>6, <1>8, <2>2, <2>3, <2>4, MemoryStepOK
<1> QED
  BY <1>5, <1>7, <1>8 DEF GenerateSnapshot

(* Exiting preserves the invariant. *)
LEMMA FinishOK ==
  ASSUME IInv, NEW n \in Node, Finish(n)
  PROVE  IInv'
<1> USE Zenon
<1>1. /\ status' = [status EXCEPT ![n] = "finished"] /\ status[n] = "running"
      /\ UNCHANGED <<scenario, crashes, error, mem, file, blocks, gossip, history>>
  BY DEF Finish, At, disk
<1> USE <1>1
<1>2. /\ TypeOK /\ AnnouncedOK /\ scenario \in Scenarios
      /\ OwnBlocksOK(n) /\ FileOK(n) /\ MemoryOK(n)
  BY AtFacts
<1> USE <1>2
<1>3. HistoryGrows /\ \A m \in Node : BlocksKept(m)
  BY DEF HistoryGrows, BlocksKept, history
<1>4. /\ status' \in [Node -> {"down", "running", "failed", "finished"}]
      /\ status'[n] # "running" /\ \A m \in Node \ {n} : status'[m] = status[m]
  BY SMT DEF TypeOK
<1>5. TypeOK'
  BY <1>4 DEF TypeOK, history
<1>6. AnnouncedOK'
  BY AnnouncedStays DEF history
<1>7. NodeOK(n)'
  <2>1. ErrorOK(n)'
    BY ErrorStays DEF IInv, NodeOK
  <2> QED
    BY <1>3, <1>4, <2>1, OwnBlocksStay, FileStays, MemoryStays
    DEF NodeOK
<1>8. \A m \in Node \ {n} : Kept(m)
  BY <1>4 DEF Kept
<1> QED
  BY <1>3, <1>5, <1>6, <1>7, <1>8, StepOK

(* Collecting the others' forks preserves the invariant. *)
LEMMA AggregateHeaviestForkOK ==
  ASSUME Laws, IInv, NEW n \in Node, AggregateHeaviestFork(n)
  PROVE  IInv'
<1> USE Zenon
<1> DEFINE p == file[n]
<1>1. /\ status[n] = "running" /\ mem[n].pc = "Done"
      /\ UNCHANGED <<scenario, crashes, status, error, mem, blocks, gossip, history>>
  BY DEF AggregateHeaviestFork, At
<1> USE <1>1
<1>2. /\ MemoryOK(n) /\ FileOK(n) /\ mem[n] \in Memory /\ TypeOK
      /\ gossip \in GossipType /\ p # None /\ p \in WenRestartProgress
  BY AtFacts DEF GossipType
<1> USE <1>2
<1>3. PICK pushed \in SUBSET {m \in Node \ {n} : gossip.fork[m] # None} :
        LET new == gossip.fork
            taken == {m \in pushed : TakesFork(p.forks[m], new[m])}
            refused == {m \in pushed \ taken : ~IsValidChange(p.forks[m], new[m])}
            forks == [m \in Node |-> IF m \in taken THEN new[m] ELSE p.forks[m]]
            active == {n} \cup {m \in Node : forks[m] # None}
        IN file' = [file EXCEPT ![n] = [p EXCEPT
                      !.forks = forks, !.conflict_message = @ \cup refused,
                      !.total_active_stake =
                         StakeOf(EpochOf(p.my_heaviest_fork.slot), active)]]
  BY DEF AggregateHeaviestFork
<1> DEFINE new == gossip.fork
           taken == {m \in pushed : TakesFork(p.forks[m], new[m])}
           refused == {m \in pushed \ taken : ~IsValidChange(p.forks[m], new[m])}
           forks == [m \in Node |-> IF m \in taken THEN new[m] ELSE p.forks[m]]
           active == {n} \cup {m \in Node : forks[m] # None}
           stake == StakeOf(EpochOf(p.my_heaviest_fork.slot), active)
           f == [p EXCEPT !.forks = forks, !.conflict_message = @ \cup refused,
                          !.total_active_stake = stake]
<1>4. file' = [file EXCEPT ![n] = f]
  BY <1>3
<1>5. forks \in [Node -> HeaviestForkMessage \cup {None}] /\ refused \in SUBSET Node
  <2>1. /\ new \in [Node -> HeaviestForkMessage \cup {None}]
        /\ p.forks \in [Node -> HeaviestForkMessage \cup {None}]
    BY SMT DEF GossipType, WenRestartProgress
  <2>2. refused \in SUBSET Node
    OBVIOUS
  <2>3. forks \in [Node -> HeaviestForkMessage \cup {None}]
    <3> HIDE DEF taken, new, p
    <3> QED
      BY <2>1
  <2> QED
    BY <2>2, <2>3
<1>6. stake \in Nat
  <2>1. p.state = "Done"
    BY StateDone
  <2>2. p.my_heaviest_fork # None
    BY <2>1 DEF FileOK
  <2>3. p.my_heaviest_fork \in HeaviestForkRecord
    BY <2>2 DEF WenRestartProgress
  <2>4. p.my_heaviest_fork.slot \in Slot
    BY <2>3, SMT DEF HeaviestForkRecord
  <2>5. EpochOf(p.my_heaviest_fork.slot) \in Epoch /\ active \in SUBSET Node
    BY <2>4, EpochOfType
  <2> HIDE DEF active
  <2> QED
    BY <2>5, StakeGrows
<1> HIDE DEF forks, refused, stake
<1>7. /\ f \in WenRestartProgress /\ f.state = p.state /\ f.sent = p.sent
      /\ f.final = p.final /\ f.my_heaviest_fork = p.my_heaviest_fork
      /\ f.my_snapshot = p.my_snapshot
  BY <1>5, <1>6 DEF WenRestartProgress
<1> HIDE DEF f
<1>8. SameResults(n)
  <2>1. f # None
    BY <1>7, NoneAssumption
  <2>2. file'[n] = f
    BY <1>4 DEF TypeOK
  <2> QED
    BY <1>7, <2>1, <2>2 DEF SameResults
<1>9. FileOK(n)' /\ MemoryOK(n)'
  BY <1>8, FileStays, MemoryStays
  DEF HistoryGrows, BlocksKept, history
<1>10. mem' = [mem EXCEPT ![n] = mem[n]]
  BY DEF TypeOK
<1> QED
  BY <1>4, <1>7, <1>9, <1>10, LocalStepOK DEF GossipType

(* A repaired block preserves the invariant. *)
LEMMA RepairOK ==
  ASSUME IInv, NEW n \in Node, NEW s \in Slot, Repair(n, s)
  PROVE  IInv'
<1> USE Zenon
<1>1. /\ status[n] = "running" /\ ~Full(n, s)
      /\ UNCHANGED <<scenario, crashes, status, error, mem, file, gossip, history>>
  BY DEF Repair
<1> USE <1>1
<1>2. PICK p \in Node : blocks' = [blocks EXCEPT ![n][s] = blocks[p][s]]
  BY DEF Repair
<1>3. TypeOK /\ AnnouncedOK /\ scenario \in Scenarios
  BY AtFacts
<1> USE <1>3
<1>4. /\ blocks' \in [Node -> [Slot -> {"main", "other", None}]]
      /\ \A i \in Node, x \in Slot : blocks'[i][x] # blocks[i][x] => i = n /\ x = s
  <2> DEFINE B == {"main", "other", None}
  <2>1. blocks \in [Node -> [Slot -> B]]
    BY DEF TypeOK
  <2> HIDE DEF B
  <2>2. /\ blocks' \in [Node -> [Slot -> B]]
        /\ \A i \in Node, x \in Slot : blocks'[i][x] # blocks[i][x] => i = n /\ x = s
    BY <1>2, <2>1, SMT
  <2> QED
    BY <2>2 DEF B
<1>5. HistoryGrows /\ \A i \in Node : BlocksKept(i)
  BY <1>4 DEF HistoryGrows, BlocksKept, history
<1>6. TypeOK'
  BY <1>4 DEF TypeOK, history
<1>7. AnnouncedOK'
  BY AnnouncedStays DEF history
<1>8. \A i \in Node : Kept(i)
  BY DEF Kept
<1>9. NodeOK(n)'
  BY <1>5, <1>8, NodeStays DEF IInv
<1> QED
  BY <1>5, <1>6, <1>7, <1>8, <1>9, StepOK

-----------------------------------------------------------------------------
(* Collecting the last voted forks. *)
LEMMA AggregateTyped ==
  ASSUME Laws, scenario \in Scenarios, NEW n \in Node, NEW F \in SUBSET (Node \ {n}),
         NEW R \in SUBSET Slot
  PROVE  /\ AggregateOf(n, F, R) \in LastVotedForkSlotsAggregate
         /\ FinalOf(n, F \cup {n}) \in AggregateFinal
<1> USE Zenon
<1> DEFINE H == F \cup {n}
           voting == [e \in Epoch |-> VotingIn(e, H, scenario.voted)]
<1>1. H \in SUBSET Node
  OBVIOUS
<1> HIDE DEF H
<1>2. \A e \in Epoch, N \in SUBSET H : StakeOf(e, N) \in Nat
  BY <1>1, StakeGrows
<1>3. ActiveOf(H) \in [Epoch -> Nat]
  BY <1>2 DEF ActiveOf
<1>4. voting \in [Epoch -> Nat]
  BY <1>2 DEF VotingIn
<1>5. SlotsOf(n, H) \in SUBSET Slot /\ \A s \in Slot : ForSlot(n, H, s) \in SUBSET H
  BY <1>1, SlotsOfFacts
<1>6. StakesOf(n, H) \in [SlotsOf(n, H) -> Nat]
  BY <1>2, <1>5, EpochOfType DEF StakesOf
<1>7. StakesOf(n, H) \in UNION {[S -> Nat] : S \in SUBSET Slot}
  BY <1>5, <1>6
<1> HIDE DEF voting
<1>8. AggregateOf(n, F, R) = [from |-> F, repair |-> R, stakes |-> StakesOf(n, H),
                              active |-> ActiveOf(H), voting |-> voting]
  BY DEF AggregateOf, H, voting
<1>9. FinalOf(n, H) \in AggregateFinal
  BY <1>3, <1>7, SMT DEF FinalOf, AggregateFinal
<1>10. AggregateOf(n, F, R) \in LastVotedForkSlotsAggregate
  BY <1>3, <1>4, <1>7, <1>8, SMT DEF LastVotedForkSlotsAggregate
<1> QED
  BY <1>9, <1>10 DEF H

(* With further messages too, every slot with enough stake is listed. *)
LEMMA NewAreListed ==
  ASSUME scenario \in Scenarios, NEW n \in Node, NEW F \in SUBSET (Node \ {n}),
         NEW S \in SUBSET Node, NEW R \in SUBSET Slot, Listed(n, F, R)
  PROVE  Listed(n, F \cup NewFrom(n, F, S), R \cup NewRepairs(n, F, S))
<1> USE Zenon
<1> DEFINE N == NewFrom(n, F, S)
           H == F \cup {n}
           G == (F \cup N) \cup {n}
<1>1. H \in SUBSET Node /\ N \in SUBSET Node /\ G \in SUBSET Node /\ G = H \cup N
  BY SMT DEF NewFrom
<1> USE <1>1
<1> SUFFICES ASSUME NEW s \in Slot, EnoughFor(n, G, s)
             PROVE  s \in R \cup NewRepairs(n, F, S) \/ Full(n, s)
  BY DEF Listed
<1> HIDE DEF N, H, G
<1>2. CASE s \in SlotsOf(n, N)
  <2>1. StakesOf(n, G)[s] = StakeOf(EpochOf(s), ForSlot(n, G, s))
    BY DEF StakesOf, EnoughFor
  <2>2. StakesOf(n, G)[s] >= (TotalStake(EpochOf(s)) * REPAIR_THRESHOLD) \div 100
    BY <2>1 DEF EnoughFor
  <2> QED
    BY <1>2, <2>2 DEF NewRepairs, N, G
<1>3. CASE s \notin SlotsOf(n, N)
  <2>1. ForSlot(n, N, s) = {}
    BY <1>3, SlotsOfFacts
  <2>2. ForSlot(n, G, s) = ForSlot(n, H, s) \cup ForSlot(n, N, s)
    BY SMT DEF ForSlot, For
  <2>3. ForSlot(n, G, s) = ForSlot(n, H, s)
    BY <2>1, <2>2, SMT
  <2>4. s \in SlotsOf(n, H)
    <3>1. s \in SlotsOf(n, G)
      BY DEF EnoughFor
    <3>2. ForSlot(n, G, s) # {}
      BY <3>1, InSlotsOf
    <3>3. ForSlot(n, H, s) # {}
      BY <2>3, <3>2
    <3> QED
      BY <3>3, SlotsOfFacts
  <2>5. EnoughFor(n, H, s)
    BY <2>3, <2>4 DEF EnoughFor
  <2> QED
    BY <2>5 DEF Listed, H
<1> QED
  BY <1>2, <1>3

(* An aggregate of messages, with the repairs it calls for. *)
Aggregated(n, agg, F, R) ==
  /\ F \in SUBSET (Node \ {n}) /\ R \in SUBSET Slot
  /\ agg = AggregateOf(n, F, R) /\ Listed(n, F, R)

(* It remains one with every further message. *)
LEMMA StaysAggregated ==
  ASSUME Laws, scenario \in Scenarios, NEW n \in Node, NEW F, NEW R, NEW agg,
         Aggregated(n, agg, F, R), NEW S \in SUBSET Node
  PROVE  \E F2, R2 : Aggregated(n, Aggregate(agg, n, S, scenario.voted, Root(n)), F2, R2)
<1> USE Zenon
<1>1. /\ F \in SUBSET (Node \ {n}) /\ R \in SUBSET Slot
      /\ agg = AggregateOf(n, F, R) /\ Listed(n, F, R)
  BY DEF Aggregated
<1> USE <1>1
<1> DEFINE F2 == F \cup NewFrom(n, F, S)
           R2 == R \cup NewRepairs(n, F, S)
<1>2. Aggregate(agg, n, S, scenario.voted, Root(n)) = AggregateOf(n, F2, R2)
  BY AggregateIs
<1>3. Listed(n, F2, R2)
  BY NewAreListed
<1>4. F2 \in SUBSET (Node \ {n})
  BY SMT DEF NewFrom
<1>5. R2 \in SUBSET Slot
  <2>1. NewFrom(n, F, S) \in SUBSET Node
    BY DEF NewFrom
  <2>2. SlotsOf(n, NewFrom(n, F, S)) \in SUBSET Slot
    BY <2>1, SlotsOfFacts
  <2> QED
    BY <2>2 DEF NewRepairs
<1> HIDE DEF F2, R2
<1> QED
  BY <1>2, <1>3, <1>4, <1>5 DEF Aggregated

(* What the records of a file lead to. *)
LEMMA FromRecordsOK ==
  ASSUME Laws, scenario \in Scenarios, NEW n \in Node, OwnBlocksOK(n),
         NEW received \in SUBSET Node
  PROVE  \E F, R : Aggregated(n, AggregateFromRecords(n, received), F, R)
<1> USE Zenon
<1>1. Listed(n, {}, {})
  <2>1. {} \cup {n} = {n}
    OBVIOUS
  <2>2. \A s \in Slot : EnoughFor(n, {n}, s) => s \in Fork[Voted(n)]
    BY DEF EnoughFor, SlotsOf, ToSlots
  <2> QED
    BY <2>1, <2>2 DEF Listed, OwnBlocksOK
<1>2. Aggregated(n, NewAggregate(n, scenario.voted, Root(n)), {}, {})
  BY <1>1, NewAggregateIs DEF Aggregated
<1>3. {m \in received : ToSlots(Voted(m), Root(n)) # {}} \in SUBSET Node
  OBVIOUS
<1> QED
  BY <1>2, <1>3, StaysAggregated DEF AggregateFromRecords

(* An aggregate in memory, whose repairs are there if the arm is over. *)
LEMMA AggregatedOK ==
  ASSUME scenario \in Scenarios, NEW n \in Node, NEW F, NEW R, NEW agg,
         Aggregated(n, agg, F, R), UNCHANGED <<scenario, blocks>>,
         mem'[n].agg = agg,
         mem'[n].ready => /\ Repaired(n, F \cup {n})
                          /\ \E e \in Epoch : EnoughActive(agg, e)
  PROVE  AggregateOK(n)'
<1> USE Zenon
<1>1. /\ F \in SUBSET (Node \ {n}) /\ R \in SUBSET Slot
      /\ agg = AggregateOf(n, F, R) /\ Listed(n, F, R)
  BY DEF Aggregated
<1>2. AggregateOf(n, F, R)' = AggregateOf(n, F, R)
  BY ScenarioKept
<1>3. /\ Listed(n, F, R) => Listed(n, F, R)'
      /\ Repaired(n, F \cup {n}) => Repaired(n, F \cup {n})'
  BY BlocksStay DEF BlocksKept
<1>4. mem'[n].agg = AggregateOf(n, F, R)'
  BY <1>1, <1>2
<1> QED
  BY <1>1, <1>3, <1>4 DEF AggregateOK

(* Collecting last voted forks preserves the invariant. *)
LEMMA CollectOK ==
  ASSUME Laws, IInv, NEW n \in Node, AggregateLastVotedForkSlots(n)
  PROVE  IInv'
<1> USE Zenon
<1> DEFINE m == mem[n]
           p == file[n]
<1>1. /\ status[n] = "running" /\ m.pc = "LastVotedForkSlots"
      /\ UNCHANGED <<scenario, crashes, status, error, blocks, gossip, history>>
  BY DEF AggregateLastVotedForkSlots, At
<1> USE <1>1
<1>2. /\ MemoryOK(n) /\ FileOK(n) /\ m \in Memory /\ TypeOK
      /\ gossip \in GossipType /\ p # None /\ p \in WenRestartProgress
      /\ scenario \in Scenarios
  BY AtFacts DEF GossipType
<1> USE <1>2
<1>3. PICK delivered \in SUBSET gossip.slots :
        LET agg == Aggregate(mem[n].agg, n, delivered, scenario.voted, Root(n))
            filtered == {s \in agg.repair : s > Root(n) /\ ~Full(n, s)}
        IN /\ file' = [file EXCEPT ![n].received = @ \cup agg.from]
           /\ mem' = [mem EXCEPT
                        ![n].agg = agg, ![n].repair = filtered,
                        ![n].ready = filtered = {} /\ SupermajorityActive(agg)]
  BY DEF AggregateLastVotedForkSlots
<1> DEFINE agg == Aggregate(m.agg, n, delivered, scenario.voted, Root(n))
           filtered == {s \in agg.repair : s > Root(n) /\ ~Full(n, s)}
           ready == filtered = {} /\ SupermajorityActive(agg)
           f == [p EXCEPT !.received = @ \cup agg.from]
           k == [m EXCEPT !.agg = agg, !.repair = filtered, !.ready = ready]
<1>4. file' = [file EXCEPT ![n] = f] /\ mem' = [mem EXCEPT ![n] = k]
  BY <1>3
<1>5. PICK F, R : Aggregated(n, agg, F, R)
  <2>1. AggregateOK(n)
    BY DEF MemoryOK
  <2>2. PICK F0, R0 : Aggregated(n, m.agg, F0, R0)
    BY <2>1 DEF AggregateOK, Aggregated
  <2>3. gossip.slots \in SUBSET Node
    BY SMT DEF GossipType
  <2>4. delivered \in SUBSET Node
    BY <2>3
  <2> QED
    BY <2>2, <2>4, StaysAggregated
<1>6. /\ F \in SUBSET (Node \ {n}) /\ R \in SUBSET Slot
      /\ agg = AggregateOf(n, F, R) /\ Listed(n, F, R)
      /\ agg \in LastVotedForkSlotsAggregate
  BY <1>5, AggregateTyped DEF Aggregated
<1> USE <1>6
<1>7. agg.from \in SUBSET Node /\ agg.repair = R
  <2> HIDE DEF agg
  <2> QED
    BY SMT DEF AggregateOf
<1>8. filtered \in SUBSET Slot /\ ready \in BOOLEAN
  BY <1>7
<1>9. ready => /\ Repaired(n, F \cup {n})
               /\ \E e \in Epoch : EnoughActive(agg, e)
  <2>1. ASSUME ready PROVE Repaired(n, F \cup {n})
    BY <1>7, <2>1 DEF Listed, Repaired, EnoughFor
  <2> HIDE DEF agg
  <2>2. ASSUME ready PROVE \E e \in Epoch : EnoughActive(agg, e)
    <3>1. PICK e \in Considered(agg) : TRUE
      BY <2>2 DEF SupermajorityActive
    <3>2. e \in Epoch
      BY <3>1 DEF Considered
    <3> QED
      BY <2>2, <3>2 DEF SupermajorityActive
  <2> QED
    BY <2>1, <2>2
<1> HIDE DEF agg, filtered, ready
<1>10. /\ k \in Memory /\ k.pc = m.pc /\ k.ready = ready /\ k.agg = agg
       /\ k.fork = m.fork /\ k.snapshot = m.snapshot /\ k.frozen = m.frozen
  <2> HIDE DEF m
  <2> QED
    BY <1>8 DEF Memory, m
<1> USE <1>10
<1>11. /\ f \in WenRestartProgress /\ f.state = p.state /\ f.sent = p.sent
       /\ f.final = p.final /\ f.my_heaviest_fork = p.my_heaviest_fork
       /\ f.my_snapshot = p.my_snapshot
  BY <1>7 DEF WenRestartProgress
<1> USE <1>11
<1> HIDE DEF f, k
<1>12. mem'[n] = k /\ file'[n] = f /\ f # None
  BY <1>4, NoneAssumption DEF TypeOK
<1> USE <1>12
<1>13. FileOK(n)'
  <2>1. SameResults(n)
    BY DEF SameResults
  <2> QED
    BY <2>1, FileStays DEF HistoryGrows, BlocksKept, history
<1>14. MemoryOK(n)'
  <2>1. AggregateOK(n)'
    BY <1>5, <1>9, AggregatedOK
  <2>2. p.state = "LastVotedForkSlots" /\ m.fork = None /\ m.snapshot = None
    BY StateCollect
  <2>3. StateOK(n, mem[n], file[n])'
    <3>1. /\ mem'[n].pc = "LastVotedForkSlots"
          /\ file'[n].state = "LastVotedForkSlots"
          /\ mem'[n].fork = None /\ mem'[n].snapshot = None
      BY <2>2
    <3> QED
      BY <3>1 DEF StateOK
  <2>4. Root(n)' = Root(n) /\ Root(n) \in m.frozen
    BY ScenarioKept DEF MemoryOK
  <2> QED
    BY <2>1, <2>2, <2>3, <2>4 DEF MemoryOK
<1> QED
  BY <1>4, <1>13, <1>14, LocalStepOK DEF GossipType

-----------------------------------------------------------------------------
(* Writing the result of an arm. *)
LEMMA NextFileOK ==
  ASSUME TypeOK, NEW n \in Node, FileOK(n), file[n] # None, file'[n] # None,
         UNCHANGED <<scenario, blocks, announced, resumed>>,
         file'[n].my_heaviest_fork = file[n].my_heaviest_fork,
         \/ file'[n].final = file[n].final
         \/ file[n].my_heaviest_fork = None /\ FinalOK(n, file'[n].final),
         \/ /\ file'[n].state = "LastVotedForkSlots" /\ file'[n].sent
            /\ file[n].my_heaviest_fork = None /\ file'[n].my_snapshot = None
         \/ /\ file'[n].state = "HeaviestFork" /\ file'[n].final # None
            /\ file'[n].my_snapshot = None
         \/ /\ file'[n].state = "GenerateSnapshot"
            /\ file[n].my_heaviest_fork # None /\ file'[n].my_snapshot = None
         \/ /\ file'[n].state = "Done"
            /\ file[n].my_heaviest_fork # None /\ file'[n].my_snapshot # None
            /\ n \in resumed \/ file'[n].my_snapshot \in announced
  PROVE  FileOK(n)'
<1> USE Zenon
<1>1. scenario \in Scenarios
  BY DEF TypeOK
<1>2. file[n].my_heaviest_fork # None =>
        file[n].my_heaviest_fork \in HeaviestForkRecord
  <2>1. file[n] \in WenRestartProgress
    BY DEF TypeOK
  <2> QED
    BY <2>1 DEF WenRestartProgress
<1>3. file'[n].final # None => FinalOK(n, file'[n].final)
  BY DEF FileOK
<1>4. file'[n].final # None => FinalOK(n, file[n].final)'
  BY <1>1, <1>3, BlocksStay DEF BlocksKept
<1>5. file[n].my_heaviest_fork # None =>
        /\ HasFork(n, file[n].my_heaviest_fork)' /\ file'[n].final # None
        /\ Keeps(n, file[n].my_heaviest_fork, file[n].final)'
  BY <1>1, <1>2, BlocksStay DEF BlocksKept, FileOK
<1>6. /\ file'[n].state # "Init"
      /\ file'[n].state = "LastVotedForkSlots" =>
           file'[n].sent /\ file[n].my_heaviest_fork = None
      /\ file'[n].state = "HeaviestFork" => file'[n].final # None
      /\ file'[n].state \in {"GenerateSnapshot", "Done"} =>
           file[n].my_heaviest_fork # None
      /\ file'[n].state = "Done" <=> file'[n].my_snapshot # None
      /\ file'[n].my_snapshot # None /\ n \notin resumed =>
           file'[n].my_snapshot \in announced
  BY SMT
<1> QED
  BY <1>4, <1>5, <1>6 DEF FileOK

(* A write preserves the invariant if the file and the state are right. *)
LEMMA WriteOK ==
  ASSUME IInv, NEW n \in Node, IncrementAndWrite(n),
         NextProgress(n) \in WenRestartProgress, NextState(n) \in Memory,
         NextProgress(n).my_heaviest_fork = file[n].my_heaviest_fork,
         mem'[n] = NextState(n) /\ file'[n] = NextProgress(n) /\ file'[n] # None
           => FileOK(n)' /\ MemoryOK(n)'
  PROVE  IInv'
<1> USE Zenon
<1>1. /\ status[n] = "running"
      /\ file' = [file EXCEPT ![n] = NextProgress(n)]
      /\ mem' = [mem EXCEPT ![n] = NextState(n)]
      /\ UNCHANGED <<scenario, crashes, status, error, blocks, gossip, history>>
  BY DEF IncrementAndWrite
<1>2. TypeOK /\ file[n] # None /\ gossip \in GossipType
  BY <1>1, AtFacts DEF GossipType
<1>3. mem'[n] = NextState(n) /\ file'[n] = NextProgress(n) /\ file'[n] # None
  BY <1>1, <1>2, NoneAssumption DEF TypeOK
<1>4. FileOK(n)' /\ MemoryOK(n)'
  BY <1>3
<1> QED
  BY <1>1, <1>2, <1>4, LocalStepOK DEF GossipType

(* My message is sent; the aggregate begins. *)
LEMMA WriteSentOK ==
  ASSUME Laws, IInv, NEW n \in Node, IncrementAndWrite(n), mem[n].pc = "Init"
  PROVE  IInv'
<1> USE Zenon
<1> DEFINE m == mem[n]
           p == file[n]
           agg == AggregateFromRecords(n, p.received)
           f == [p EXCEPT !.state = "LastVotedForkSlots", !.sent = TRUE]
           k == [Go(n, "LastVotedForkSlots") EXCEPT !.agg = agg]
<1>1. /\ status[n] = "running"
      /\ UNCHANGED <<scenario, status, blocks, announced, resumed>>
  BY DEF IncrementAndWrite, history
<1> USE <1>1
<1>2. /\ MemoryOK(n) /\ FileOK(n) /\ m \in Memory /\ TypeOK
      /\ p # None /\ p \in WenRestartProgress /\ scenario \in Scenarios
      /\ OwnBlocksOK(n)
  BY AtFacts
<1> USE <1>2
<1>3. p.state = "Init" /\ m.fork = None /\ m.snapshot = None
  BY StateInit
<1>4. p.my_heaviest_fork = None /\ p.my_snapshot = None
  BY <1>3 DEF FileOK
<1>5. PICK F, R : Aggregated(n, agg, F, R)
  <2>1. p.received \in SUBSET Node
    BY DEF WenRestartProgress
  <2> QED
    BY <2>1, FromRecordsOK
<1>6. agg \in LastVotedForkSlotsAggregate
  BY <1>5, AggregateTyped DEF Aggregated
<1>7. NextProgress(n) = f
  BY SMT DEF NextProgress
<1>8. NextState(n) = k
  <2> HIDE DEF k
  <2>1. NextState(n) = k
    BY SMT DEF NextState, k
  <2> QED
    BY <2>1, SMT
<1> HIDE DEF agg
<1>9. /\ f \in WenRestartProgress /\ f.state = "LastVotedForkSlots" /\ f.sent
      /\ f.final = p.final /\ f.my_heaviest_fork = p.my_heaviest_fork
      /\ f.my_snapshot = p.my_snapshot
  BY DEF WenRestartProgress
<1>10. /\ k \in Memory /\ k.pc = "LastVotedForkSlots" /\ ~k.ready /\ k.agg = agg
       /\ k.fork = m.fork /\ k.snapshot = m.snapshot /\ k.frozen = m.frozen
  BY <1>6 DEF Memory, Go
<1> USE <1>10
<1> HIDE DEF f, k
<1>11. ASSUME mem'[n] = k, file'[n] = f, f # None PROVE FileOK(n)' /\ MemoryOK(n)'
  <2>1. FileOK(n)'
    BY <1>4, <1>9, <1>11, NextFileOK
  <2>2. AggregateOK(n)'
    BY <1>5, <1>11, AggregatedOK
  <2>3. StateOK(n, mem[n], file[n])'
    <3>1. /\ mem'[n].pc = "LastVotedForkSlots"
          /\ file'[n].state = "LastVotedForkSlots"
          /\ mem'[n].fork = None /\ mem'[n].snapshot = None
      BY <1>3, <1>9, <1>11
    <3> QED
      BY <3>1 DEF StateOK
  <2>4. Root(n)' = Root(n) /\ Root(n) \in m.frozen
    BY ScenarioKept DEF MemoryOK
  <2> QED
    BY <1>3, <1>11, <2>1, <2>2, <2>3, <2>4 DEF MemoryOK
<1> QED
  BY <1>7, <1>8, <1>9, <1>11, WriteOK

(* What an aggregate leaves to be written. *)
LEMMA AggregateFields ==
  ASSUME NEW n, NEW F, NEW R
  PROVE  /\ AggregateOf(n, F, R).stakes = StakesOf(n, F \cup {n})
         /\ AggregateOf(n, F, R).active = ActiveOf(F \cup {n})
BY SMT DEF AggregateOf

(* Enough stake is active; what was collected is written. *)
LEMMA WriteFinalOK ==
  ASSUME Laws, IInv, NEW n \in Node, IncrementAndWrite(n),
         mem[n].pc = "LastVotedForkSlots"
  PROVE  IInv'
<1> USE Zenon
<1> DEFINE m == mem[n]
           p == file[n]
           final == [stakes |-> m.agg.stakes, active |-> m.agg.active]
           f == [p EXCEPT !.state = "HeaviestFork", !.final = final]
           k == [Go(n, "FindHeaviestFork") EXCEPT !.agg = None]
<1>1. /\ status[n] = "running" /\ m.ready
      /\ UNCHANGED <<scenario, status, blocks, announced, resumed>>
  BY DEF IncrementAndWrite, history
<1> USE <1>1
<1>2. /\ MemoryOK(n) /\ FileOK(n) /\ m \in Memory /\ TypeOK
      /\ p # None /\ p \in WenRestartProgress /\ scenario \in Scenarios
  BY AtFacts
<1> USE <1>2
<1>3. p.state = "LastVotedForkSlots" /\ m.fork = None /\ m.snapshot = None
  BY StateCollect
<1>4. p.my_heaviest_fork = None /\ p.my_snapshot = None
  BY <1>3, SMT DEF FileOK
<1>5. final \in AggregateFinal /\ FinalOK(n, final)
  <2>1. AggregateOK(n)
    BY DEF MemoryOK
  <2>2. PICK F \in SUBSET (Node \ {n}), R \in SUBSET Slot :
          /\ m.agg = AggregateOf(n, F, R) /\ Repaired(n, F \cup {n})
          /\ \E e \in Epoch : EnoughActive(m.agg, e)
    BY <2>1 DEF AggregateOK
  <2> DEFINE H == F \cup {n}
  <2>3. final = FinalOf(n, H)
    <3>1. m.agg.stakes = StakesOf(n, H) /\ m.agg.active = ActiveOf(H)
      BY <2>2, AggregateFields
    <3> QED
      BY <3>1 DEF FinalOf
  <2>4. final.active = m.agg.active
    OBVIOUS
  <2>5. \E e \in Epoch : EnoughActive(final, e)
    BY <2>2, <2>4 DEF EnoughActive
  <2>6. H \in SUBSET Node /\ n \in H
    OBVIOUS
  <2>7. final \in AggregateFinal
    BY <2>3, AggregateTyped
  <2> QED
    BY <2>2, <2>3, <2>5, <2>6, <2>7 DEF FinalOK
<1>6. NextProgress(n) = f
  BY SMT DEF NextProgress
<1>7. NextState(n) = k
  BY SMT DEF NextState
<1> HIDE DEF final
<1>8. /\ f \in WenRestartProgress /\ f.state = "HeaviestFork"
      /\ f.final = final /\ f.my_heaviest_fork = p.my_heaviest_fork
      /\ f.my_snapshot = p.my_snapshot
  BY <1>5 DEF WenRestartProgress
<1> USE <1>8
<1>9. /\ k \in Memory /\ k.pc = "FindHeaviestFork" /\ ~k.ready /\ k.agg = None
      /\ k.fork = m.fork /\ k.snapshot = m.snapshot /\ k.frozen = m.frozen
  BY DEF Memory, Go
<1> HIDE DEF f, k
<1>10. final # None
  BY <1>5, NoneAssumption
<1>11. ASSUME mem'[n] = k, file'[n] = f, f # None PROVE FileOK(n)' /\ MemoryOK(n)'
  <2>1. FinalOK(n, file'[n].final)
    BY <1>5, <1>11
  <2>2. FileOK(n)'
    BY <1>4, <1>10, <1>11, <2>1, NextFileOK
  <2>3. StateOK(n, mem[n], file[n])'
    <3>1. /\ mem'[n].pc = "FindHeaviestFork" /\ file'[n].state = "HeaviestFork"
          /\ ~mem'[n].ready /\ mem'[n].agg = None /\ mem'[n].snapshot = None
          /\ mem'[n].fork = file'[n].my_heaviest_fork
      BY <1>3, <1>4, <1>9, <1>11
    <3> QED
      BY <3>1 DEF StateOK
  <2> QED
    BY <1>9, <1>11, <2>3, <2>2, AtFacts, SameForkOK
<1> QED
  BY <1>6, <1>7, <1>9, <1>11, WriteOK

(* The fork is agreed on. *)
LEMMA WriteForkOK ==
  ASSUME IInv, NEW n \in Node, IncrementAndWrite(n), mem[n].pc = "HeaviestFork"
  PROVE  IInv'
<1> USE Zenon
<1> DEFINE m == mem[n]
           p == file[n]
           f == [p EXCEPT !.state = "GenerateSnapshot",
                          !.coordinator_heaviest_fork = m.theirs]
           k == Go(n, "GenerateSnapshot")
<1>1. /\ status[n] = "running" /\ m.ready
      /\ UNCHANGED <<scenario, status, blocks, announced, resumed>>
  BY DEF IncrementAndWrite, history
<1> USE <1>1
<1>2. /\ MemoryOK(n) /\ FileOK(n) /\ m \in Memory /\ TypeOK
      /\ p # None /\ p \in WenRestartProgress
  BY AtFacts
<1> USE <1>2
<1>3. /\ p.state = "HeaviestFork" /\ m.snapshot = None /\ m.agg = None
      /\ m.fork # None /\ p.my_heaviest_fork # None /\ m.fork \in announced
  BY StateFork
<1>4. p.my_snapshot = None
  BY <1>3, SMT DEF FileOK
<1>5. NextProgress(n) = f /\ NextState(n) = k
  BY SMT DEF NextProgress, NextState
<1>6. m.theirs \in HeaviestForkRecord \cup {None}
  BY DEF Memory
<1>7. /\ f \in WenRestartProgress /\ f.state = "GenerateSnapshot"
      /\ f.final = p.final /\ f.my_heaviest_fork = p.my_heaviest_fork
      /\ f.my_snapshot = p.my_snapshot
  BY <1>6 DEF WenRestartProgress
<1>8. /\ k \in Memory /\ k.pc = "GenerateSnapshot" /\ ~k.ready /\ k.agg = m.agg
      /\ k.fork = m.fork /\ k.snapshot = m.snapshot /\ k.frozen = m.frozen
  BY DEF Memory, Go
<1> HIDE DEF f, k
<1>9. ASSUME mem'[n] = k, file'[n] = f, f # None PROVE FileOK(n)' /\ MemoryOK(n)'
  <2>1. FileOK(n)'
    BY <1>3, <1>4, <1>7, <1>9, NextFileOK
  <2>2. StateOK(n, mem[n], file[n])'
    <3>1. /\ mem'[n].pc = "GenerateSnapshot" /\ ~mem'[n].ready
          /\ file'[n].state = "GenerateSnapshot" /\ mem'[n].agg = None
          /\ mem'[n].fork # None /\ mem'[n].fork \in announced'
          /\ mem'[n].snapshot = None
      BY <1>3, <1>7, <1>8, <1>9
    <3> QED
      BY <3>1 DEF StateOK
  <2> QED
    BY <1>8, <1>9, <2>1, <2>2, AtFacts, SameForkOK
<1> QED
  BY <1>5, <1>7, <1>8, <1>9, WriteOK

(* The snapshot is there. *)
LEMMA WriteSnapshotOK ==
  ASSUME IInv, NEW n \in Node, IncrementAndWrite(n), mem[n].pc = "GenerateSnapshot"
  PROVE  IInv'
<1> USE Zenon
<1> DEFINE m == mem[n]
           p == file[n]
           f == [p EXCEPT !.state = "Done", !.my_snapshot = m.snapshot]
           k == Go(n, "Done")
<1>1. /\ status[n] = "running" /\ m.ready
      /\ UNCHANGED <<scenario, status, blocks, announced, resumed>>
  BY DEF IncrementAndWrite, history
<1> USE <1>1
<1>2. /\ MemoryOK(n) /\ FileOK(n) /\ m \in Memory /\ TypeOK
      /\ p # None /\ p \in WenRestartProgress
  BY AtFacts
<1> USE <1>2
<1>3. /\ p.state = "GenerateSnapshot" /\ m.snapshot # None /\ m.agg = None
      /\ n \notin resumed => m.snapshot \in announced \cup {None}
  BY StateSnapshot
<1>4. p.my_heaviest_fork # None
  BY <1>3, SMT DEF FileOK
<1>5. NextProgress(n) = f /\ NextState(n) = k
  BY SMT DEF NextProgress, NextState
<1>6. m.snapshot \in HeaviestForkRecord \cup {None}
  BY DEF Memory
<1>7. /\ f \in WenRestartProgress /\ f.state = "Done"
      /\ f.final = p.final /\ f.my_heaviest_fork = p.my_heaviest_fork
      /\ f.my_snapshot = m.snapshot
  BY <1>6 DEF WenRestartProgress
<1>8. /\ k \in Memory /\ k.pc = "Done" /\ ~k.ready /\ k.agg = m.agg
      /\ k.fork = m.fork /\ k.frozen = m.frozen
  BY DEF Memory, Go
<1> HIDE DEF f, k
<1>9. ASSUME mem'[n] = k, file'[n] = f, f # None PROVE FileOK(n)' /\ MemoryOK(n)'
  <2>1. FileOK(n)'
    BY <1>3, <1>4, <1>7, <1>9, NextFileOK
  <2>2. StateOK(n, mem[n], file[n])'
    <3>1. /\ mem'[n].pc = "Done" /\ file'[n].state = "Done"
          /\ ~mem'[n].ready /\ mem'[n].agg = None
      BY <1>3, <1>7, <1>8, <1>9
    <3> QED
      BY <3>1 DEF StateOK
  <2> QED
    BY <1>8, <1>9, <2>1, <2>2, AtFacts, SameForkOK
<1> QED
  BY <1>5, <1>7, <1>8, <1>9, WriteOK

(* Writing any result preserves the invariant. *)
LEMMA IncrementOK ==
  ASSUME Laws, IInv, NEW n \in Node, IncrementAndWrite(n)
  PROVE  IInv'
<1> USE Zenon
<1>1. status[n] = "running" /\ mem[n].ready
  BY DEF IncrementAndWrite
<1>2. MemoryOK(n)
  BY <1>1, AtFacts
<1>3. mem[n].pc \in {"Init", "LastVotedForkSlots", "HeaviestFork",
                      "GenerateSnapshot"}
  BY <1>1, <1>2, StateReady
<1> QED
  BY <1>3, WriteSentOK, WriteFinalOK, WriteForkOK, WriteSnapshotOK

-----------------------------------------------------------------------------
(* Finding the heaviest fork.  The blocks that count make a fork that is   *)
(* there, and has the confirmed blocks.                                    *)
LEMMA FoundIsReplayed ==
  ASSUME Laws, scenario \in Scenarios, NEW n \in Node, OwnBlocksOK(n),
         NEW H \in SUBSET Node,
         \A s \in SlotsOverThreshold(FinalOf(n, H), Root(n)) :
           /\ Full(n, s)
           /\ Parent(s) = Max({Root(n)} \cup
                {x \in SlotsOverThreshold(FinalOf(n, H), Root(n)) : x < s})
  PROVE  LET C == SlotsOverThreshold(FinalOf(n, H), Root(n))
             top == Max({Root(n)} \cup C)
         IN /\ top \in {Root(n)} \cup C /\ ForkAt(n, top) \in HeaviestForkRecord
            /\ HasFork(n, ForkAt(n, top))
            /\ Keeps(n, ForkAt(n, top), FinalOf(n, H))
<1> USE Zenon
<1> DEFINE r == Root(n)
           C == SlotsOverThreshold(FinalOf(n, H), Root(n))
           top == Max({r} \cup C)
           fork == ForkAt(n, top)
<1>1. r \in Slot /\ r \in Nat /\ r \in Fork[Voted(n)] /\ Voted(n) \in Slot
  BY ScenarioFacts
<1> USE <1>1
<1>2. C \in SUBSET Slot /\ Bounded(C) /\ \A s \in C : s > r
  BY OverThreshold
<1> HIDE DEF r, C
<1>3. \A s \in C : s > r /\ Parent(s) = Max({r} \cup {x \in C : x < s})
  BY <1>2 DEF r, C
<1>4. /\ top \in {r} \cup C
      /\ \A s \in {r} \cup C : s \in Fork[top]
      /\ \A x \in Fork[top] : x >= r => x \in {r} \cup C
  BY <1>2, <1>3, ChainIsFork
<1> USE <1>4
<1> HIDE DEF top
<1>5. top \in Slot /\ r \in Fork[top]
  BY <1>2
<1> USE <1>5
<1>6. fork.slot = top /\ fork.hash = HashAt(n, top)
  BY SMT DEF ForkAt
<1>7. fork \in HeaviestForkRecord
  <2>1. HashAt(n, top) \in SUBSET Slot
    BY ForkAssumption DEF HashAt
  <2> DEFINE h == HashAt(n, top)
  <2>2. fork = [slot |-> top, hash |-> h]
    BY DEF ForkAt
  <2> HIDE DEF fork, h
  <2>3. h \in SUBSET Slot
    BY <2>1 DEF h
  <2> QED
    BY <2>2, <2>3, SMT DEF HeaviestForkRecord
<1> HIDE DEF fork
<1>8. ASSUME NEW x \in Fork[top] PROVE Full(n, x)
  <2>1. x \in Nat /\ x \in Slot
    BY ForkFacts
  <2>2. x \in Fork[Voted(n)] => Full(n, x)
    BY DEF OwnBlocksOK
  <2>3. CASE x >= r
    BY <2>2, <2>3 DEF r, C
  <2>4. CASE ~(x >= r)
    <3>1. x <= r
      BY <2>1, <2>4, SMT
    <3>2. x \in Fork[r]
      BY <3>1, ForkFacts
    <3>3. x \in Fork[Voted(n)]
      BY <3>2, ForkFacts
    <3> QED
      BY <2>2, <3>3
  <2> QED
    BY <2>3, <2>4
<1>9. HasFork(n, fork)
  BY <1>6, <1>8 DEF HasFork, r
<1>10. Keeps(n, fork, FinalOf(n, H))
  <2> SUFFICES ASSUME NEW s \in Slot, s >= r, Confirmed(s),
                      100 * FinalOf(n, H).active[EpochOf(s)]
                        > 38 * TotalStake(EpochOf(s))
               PROVE  s \in Fork[top]
    BY <1>6 DEF Keeps, r
  <2>1. CASE s = r
    BY <2>1
  <2>2. CASE s # r
    <3>1. s > r
      <4>1. s \in Nat
        BY WenRestartAssumption
      <4> QED
        BY <2>2, <4>1, SMT
    <3>2. FinalOf(n, H).active[EpochOf(s)] = StakeOf(EpochOf(s), H)
      <4>1. FinalOf(n, H).active = ActiveOf(H)
        BY SMT DEF FinalOf
      <4> QED
        BY <4>1, EpochOfType DEF ActiveOf
    <3>3. s \in C
      BY <3>1, <3>2, ConfirmedCounts DEF r, C
    <3> QED
      BY <3>3
  <2> QED
    BY <2>1, <2>2
<1> QED
  BY <1>7, <1>9, <1>10 DEF r, C, top, fork

(* The threshold fails to exist only where less than 80% of the stake of   *)
(* an epoch is active.                                                     *)
LEMMA PanicHasReason ==
  ASSUME Laws, scenario \in Scenarios, NEW n \in Node, NEW H \in SUBSET Node,
         ~ThresholdExists(FinalOf(n, H), Root(n))
  PROVE  \E e \in Epoch : 100 * FinalOf(n, H).active[e] < 80 * TotalStake(e)
<1> USE Zenon
<1> DEFINE final == FinalOf(n, H)
<1>1. PICK s \in DOMAIN final.stakes :
        ~(final.active[EpochOf(s)] >= Delta(EpochOf(s)))
  BY DEF ThresholdExists
<1>2. s \in Slot
  <2>1. final.stakes = StakesOf(n, H)
    BY SMT DEF FinalOf
  <2>2. s \in SlotsOf(n, H)
    BY <2>1 DEF StakesOf
  <2> QED
    BY <2>2, SlotsOfFacts
<1> DEFINE e == EpochOf(s)
           a == final.active[e]
           t == TotalStake(e)
<1>3. e \in Epoch
  BY <1>2, EpochOfType
<1>4. a \in Nat /\ t \in Nat
  <2>1. final.active = ActiveOf(H)
    BY SMT DEF FinalOf
  <2>2. a = StakeOf(e, H)
    BY <1>3, <2>1 DEF ActiveOf
  <2>3. Node \in SUBSET Node
    OBVIOUS
  <2> QED
    BY <1>3, <2>2, <2>3, StakeGrows DEF TotalStake
<1>5. ~(a >= (t * 38) \div 100)
  BY <1>1 DEF Delta, HEAVIEST_FORK_THRESHOLD_DELTA
<1>6. 100 * a < 80 * t
  <2> HIDE DEF a, t
  <2> QED
    BY <1>4, <1>5, SMT
<1> QED
  BY <1>3, <1>6

(* A block that counts is missing only for the same reason. *)
LEMMA MissingHasReason ==
  ASSUME Laws, scenario \in Scenarios, NEW n \in Node, NEW H \in SUBSET Node,
         Repaired(n, H), NEW s \in SlotsOverThreshold(FinalOf(n, H), Root(n)),
         ~Full(n, s)
  PROVE  \E e \in Epoch : 100 * FinalOf(n, H).active[e] < 80 * TotalStake(e)
<1> USE Zenon
<1> DEFINE e == EpochOf(s)
           a == StakeOf(e, H)
           t == TotalStake(e)
<1>1. s \in Slot
  BY OverThreshold
<1>2. e \in Epoch
  BY <1>1, EpochOfType
<1>3. ~EnoughFor(n, H, s)
  BY <1>1 DEF Repaired
<1>4. ~(100 * a >= 80 * t)
  BY <1>3, CountsWasEnough
<1>5. FinalOf(n, H).active[e] = a
  <2>1. FinalOf(n, H).active = ActiveOf(H)
    BY SMT DEF FinalOf
  <2> QED
    BY <1>2, <2>1 DEF ActiveOf
<1>6. a \in Nat /\ t \in Nat
  <2>1. Node \in SUBSET Node
    OBVIOUS
  <2> QED
    BY <1>2, <2>1, StakeGrows DEF TotalStake
<1>7. 100 * a < 80 * t
  <2> HIDE DEF a, t
  <2> QED
    BY <1>4, <1>6, SMT
<1> QED
  BY <1>2, <1>5, <1>7

(* The fork that was found is written, and becomes the state. *)
LEMMA FoundOK ==
  ASSUME IInv, NEW n \in Node, status[n] = "running",
         mem[n].pc = "FindHeaviestFork", NEW fork \in HeaviestForkRecord,
         HasFork(n, fork), Keeps(n, fork, file[n].final),
         file[n].my_heaviest_fork \in {None, fork},
         NEW slots \in SUBSET Slot, fork.slot \in mem[n].frozen \cup slots,
         file' = [file EXCEPT ![n].my_heaviest_fork = fork],
         mem' = [mem EXCEPT ![n] = [Go(n, "HeaviestFork") EXCEPT
                   !.fork = fork, !.frozen = @ \cup slots]],
         UNCHANGED <<scenario, crashes, status, error, blocks, history, gossip>>
  PROVE  IInv'
<1> USE Zenon
<1> DEFINE m == mem[n]
           p == file[n]
           f == [p EXCEPT !.my_heaviest_fork = fork]
           k == [Go(n, "HeaviestFork") EXCEPT !.fork = fork, !.frozen = @ \cup slots]
<1>1. /\ MemoryOK(n) /\ FileOK(n) /\ OwnBlocksOK(n) /\ AnnouncedOK
      /\ m \in Memory /\ TypeOK /\ p # None /\ p \in WenRestartProgress
      /\ scenario \in Scenarios
  BY AtFacts
<1> USE <1>1
<1>2. p.state = "HeaviestFork" /\ m.snapshot = None /\ m.agg = None
  BY StateFind
<1>3. p.my_snapshot = None /\ p.final # None /\ FinalOK(n, p.final)
  BY <1>2, SMT DEF FileOK
<1>4. /\ f \in WenRestartProgress /\ f.state = p.state /\ f.final = p.final
      /\ f.my_heaviest_fork = fork /\ f.my_snapshot = p.my_snapshot
  BY DEF WenRestartProgress
<1>5. /\ k \in Memory /\ k.pc = "HeaviestFork" /\ ~k.ready /\ k.agg = m.agg
      /\ k.fork = fork /\ k.snapshot = m.snapshot
      /\ k.frozen = m.frozen \cup slots
  BY DEF Memory, Go
<1>6. file' = [file EXCEPT ![n] = f] /\ mem' = [mem EXCEPT ![n] = k]
  BY SMT
<1> HIDE DEF f, k
<1>7. /\ file'[n] = f /\ mem'[n] = k /\ f # None /\ fork # None
      /\ \A i \in Node \ {n} : file'[i] = file[i] /\ mem'[i] = mem[i]
  BY <1>4, <1>6, NoneAssumption DEF TypeOK
<1>8. HistoryGrows /\ \A i \in Node : BlocksKept(i)
  BY DEF HistoryGrows, BlocksKept, history
<1>9. TypeOK'
  <2>1. mem \in [Node -> Memory] /\ file \in [Node -> WenRestartProgress \cup {None}]
    BY DEF TypeOK
  <2>2. mem' \in [Node -> Memory]
    BY <1>5, <1>6, <2>1
  <2>3. file' \in [Node -> WenRestartProgress \cup {None}]
    <3>1. f \in WenRestartProgress \cup {None}
      BY <1>4
    <3> QED
      BY <1>6, <2>1, <3>1
  <2> QED
    BY <2>2, <2>3 DEF TypeOK, history
<1>10. Coordinator' = Coordinator /\ Coordinator \in Node /\ Root(n)' = Root(n)
  BY ScenarioKept, ScenarioFacts
<1>11. AnnouncedOK'
  <2>1. CASE n # Coordinator
    BY <1>7, <1>10, <2>1, AnnouncedStays DEF history
  <2>2. CASE n = Coordinator
    <3>1. announced \subseteq HeaviestForkRecord
      BY DEF TypeOK
    <3>2. ~scenario.torn => \A x \in announced : x = fork
      BY <2>2, <3>1, NoneAssumption DEF AnnouncedOK
    <3>3. file'[Coordinator] # None /\ file'[Coordinator].my_heaviest_fork = fork
      BY <1>4, <1>7, <2>2
    <3> QED
      BY <1>10, <3>2, <3>3 DEF AnnouncedOK, ForkOf, history
  <2> QED
    BY <2>1, <2>2
<1>12. HasFork(n, fork)'
  BY <1>8, BlocksStay DEF HistoryGrows
<1>13. FileOK(n)'
  <2>1. /\ FinalOK(n, p.final) => FinalOK(n, file[n].final)'
        /\ Keeps(n, fork, p.final) => Keeps(n, file[n].my_heaviest_fork, file[n].final)'
    BY <1>4, <1>7, <1>8, BlocksStay DEF HistoryGrows
  <2>2. HasFork(n, file[n].my_heaviest_fork)'
    BY <1>4, <1>7, <1>12
  <2>3. FinalOK(n, file[n].final)' /\ Keeps(n, file[n].my_heaviest_fork, file[n].final)'
    BY <1>3, <2>1
  <2>4. /\ file'[n].state = "HeaviestFork" /\ file'[n].final # None
        /\ file'[n].my_snapshot = None
    BY <1>2, <1>3, <1>4, <1>7
  <2> QED
    BY <2>2, <2>3, <2>4, SMT DEF FileOK
<1>14. MemoryOK(n)'
  <2>1. StateOK(n, mem[n], file[n])'
    <3>1. /\ mem'[n].pc = "HeaviestFork" /\ file'[n].state = "HeaviestFork"
          /\ ~mem'[n].ready /\ mem'[n].agg = None /\ mem'[n].snapshot = None
          /\ mem'[n].fork = fork /\ file'[n].my_heaviest_fork = fork
      BY <1>2, <1>4, <1>5, <1>7
    <3> QED
      BY <1>7, <3>1 DEF StateOK
  <2>2. HasFork(n, mem[n].fork)'
    BY <1>5, <1>7, <1>12
  <2>3. mem'[n].fork.slot \in mem'[n].frozen
    BY <1>5, <1>7
  <2>4. Root(n) \in m.frozen
    BY AtFacts DEF MemoryOK
  <2>5. Root(n)' \in mem'[n].frozen /\ mem'[n].pc = "HeaviestFork" /\ file'[n] # None
    BY <1>5, <1>7, <1>10, <2>4
  <2> QED
    BY <2>1, <2>2, <2>3, <2>5 DEF MemoryOK
<1>15. NodeOK(n)'
  <2>1. error'[n] = None
    BY DEF OwnBlocksOK
  <2> QED
    BY <1>8, <1>13, <1>14, <2>1, OwnBlocksStay, NoErrorOK DEF NodeOK
<1>16. \A i \in Node \ {n} : Kept(i)
  BY <1>7 DEF Kept
<1> QED
  BY <1>8, <1>9, <1>11, <1>15, <1>16, StepOK

(* find_heaviest_fork preserves the invariant. *)
LEMMA FindOK ==
  ASSUME Laws, IInv, NEW n \in Node, FindHeaviestFork(n)
  PROVE  IInv'
<1> USE Zenon
<1> DEFINE m == mem[n]
           final == file[n].final
           slots == SlotsOverThreshold(final, Root(n))
           parent == [s \in slots |-> Max({Root(n)} \cup {x \in slots : x < s})]
           bad == {s \in slots : ~Full(n, s) \/ Parent(s) # parent[s]}
           Found(fork) ==
             /\ file' = [file EXCEPT ![n].my_heaviest_fork = fork]
             /\ mem' = [mem EXCEPT ![n] = [Go(n, "HeaviestFork") EXCEPT
                          !.fork = fork, !.frozen = @ \cup slots]]
             /\ UNCHANGED <<scenario, crashes, status, error, blocks, archive,
                            history>>
<1>1. status[n] = "running" /\ m.pc = "FindHeaviestFork" /\ UNCHANGED gossip
  BY DEF FindHeaviestFork, At
<1> USE <1>1
<1>2. /\ MemoryOK(n) /\ FileOK(n) /\ OwnBlocksOK(n) /\ m \in Memory
      /\ gossip \in GossipType /\ file[n] # None /\ scenario \in Scenarios
  BY AtFacts DEF GossipType
<1> USE <1>2
<1>3. IF m.fork # None THEN Found(m.fork)
      ELSE IF ~ThresholdExists(final, Root(n)) THEN Fail(n, "Panic")
      ELSE IF bad # {}
      THEN Fail(n, IF Full(n, Min(bad)) THEN "BlockNotLinkedToExpectedParent"
                                        ELSE "BlockNotFound")
      ELSE Found(ForkAt(n, Max({Root(n)} \cup slots)))
  BY DEF FindHeaviestFork
<1>4. file[n].state = "HeaviestFork" /\ m.fork = file[n].my_heaviest_fork
  BY StateFind
<1>5. PICK H \in SUBSET Node :
        /\ final = FinalOf(n, H) /\ Repaired(n, H)
        /\ \E e \in Epoch : EnoughActive(final, e)
  <2>1. final # None
    BY <1>4 DEF FileOK
  <2>2. FinalOK(n, final)
    BY <2>1 DEF FileOK
  <2> QED
    BY <2>2 DEF FinalOK
<1>6. slots \in SUBSET Slot /\ bad \in SUBSET slots
  BY <1>5, OverThreshold
<1>7. bad # {} => Min(bad) \in bad
  <2>1. bad \in SUBSET Nat
    BY <1>6, WenRestartAssumption
  <2> QED
    BY <2>1, MinIsLeast
<1>8. CASE m.fork # None
  <2>1. m.fork \in HeaviestForkRecord
    BY <1>8 DEF Memory
  <2>2. Found(m.fork)
    BY <1>3, <1>8
  <2>3. HasFork(n, m.fork) /\ m.fork.slot \in m.frozen
    BY <1>8 DEF MemoryOK
  <2>4. Keeps(n, m.fork, final)
    BY <1>4, <1>8 DEF FileOK
  <2> HIDE DEF slots
  <2> QED
    BY <1>4, <1>6, <2>1, <2>2, <2>3, <2>4, FoundOK
<1>9. ASSUME m.fork = None, ~ThresholdExists(final, Root(n)) PROVE IInv'
  <2>1. Fail(n, "Panic")
    BY <1>3, <1>9
  <2>2. \E e \in Epoch : 100 * final.active[e] < 80 * TotalStake(e)
    <3>1. ~ThresholdExists(FinalOf(n, H), Root(n))
      BY <1>5, <1>9
    <3>2. \E e \in Epoch : 100 * FinalOf(n, H).active[e] < 80 * TotalStake(e)
      BY <3>1, PanicHasReason
    <3> QED
      BY <1>5, <3>2
  <2>3. file' = file
    BY <2>1 DEF Fail, disk
  <2>4. error'[n] = "Panic" => ErrorOK(n)'
    BY <2>2, <2>3, SMT DEF ErrorOK
  <2> QED
    BY <2>1, <2>4, FailOK
<1>10. ASSUME m.fork = None, ThresholdExists(final, Root(n)), bad # {},
              ~Full(n, Min(bad))
       PROVE  IInv'
  <2>1. Fail(n, "BlockNotFound")
    BY <1>3, <1>10
  <2>2. \E e \in Epoch : 100 * final.active[e] < 80 * TotalStake(e)
    BY <1>5, <1>6, <1>7, <1>10, MissingHasReason
  <2>3. file' = file
    BY <2>1 DEF Fail, disk
  <2>4. error'[n] = "BlockNotFound" => ErrorOK(n)'
    BY <2>2, <2>3, SMT DEF ErrorOK
  <2> QED
    BY <2>1, <2>4, FailOK
<1>11. ASSUME m.fork = None, ThresholdExists(final, Root(n)), bad # {},
              Full(n, Min(bad))
       PROVE  IInv'
  <2>1. Fail(n, "BlockNotLinkedToExpectedParent")
    BY <1>3, <1>11
  <2>2. \E i \in Node : MayBreakChain(n, i)
    <3>1. PICK s \in slots : Parent(s) # parent[s]
      BY <1>6, <1>7, <1>11
    <3>2. parent[s] = Max({Root(n)} \cup {x \in slots : x < s})
      BY <3>1
    <3>3. PICK i \in Node : Voted(i) > Root(n) /\ ~KeepsChain(n, i, final)
      BY <1>5, <3>1, <3>2, CountedAreLinked
    <3>4. MayBreakChain(n, i)
      BY <1>5, <3>3, BreaksChain
    <3> QED
      BY <3>4
  <2>3. UNCHANGED <<file, scenario>>
    BY <2>1 DEF Fail, disk
  <2>4. \A i : MayBreakChain(n, i)' = MayBreakChain(n, i)
    BY <2>3 DEF MayBreakChain, Root, Voted
  <2>5. error'[n] = "BlockNotLinkedToExpectedParent" => ErrorOK(n)'
    BY <2>2, <2>4, SMT DEF ErrorOK
  <2> QED
    BY <2>1, <2>5, FailOK
<1>12. ASSUME m.fork = None, ThresholdExists(final, Root(n)), bad = {} PROVE IInv'
  <2> DEFINE top == Max({Root(n)} \cup slots)
             fork == ForkAt(n, top)
  <2>1. Found(fork)
    BY <1>3, <1>12
  <2>2. \A s \in slots : Full(n, s) /\ Parent(s) = parent[s]
    BY <1>12
  <2>3. \A s \in slots : parent[s] = Max({Root(n)} \cup {x \in slots : x < s})
    OBVIOUS
  <2>4. /\ top \in {Root(n)} \cup slots /\ fork \in HeaviestForkRecord
        /\ HasFork(n, fork) /\ Keeps(n, fork, final)
    BY <1>5, <2>2, <2>3, FoundIsReplayed
  <2>5. fork.slot = top
    BY SMT DEF ForkAt
  <2>6. Root(n) \in m.frozen
    BY DEF MemoryOK
  <2> HIDE DEF slots, top, fork
  <2>7. fork.slot \in m.frozen \cup slots
    BY <2>4, <2>5, <2>6
  <2> QED
    BY <1>4, <1>6, <1>12, <2>1, <2>4, <2>7, FoundOK
<1> QED
  BY <1>8, <1>9, <1>10, <1>11, <1>12

-----------------------------------------------------------------------------
(* Starting and stopping. *)
LEMMA NothingTyped ==
  /\ NoMemory \in Memory /\ NewProgress \in WenRestartProgress
  /\ NoMemory.pc = "None" /\ ~NoMemory.ready /\ NoMemory.agg = None
  /\ NoMemory.fork = None
  /\ NewProgress.state = "Init" /\ NewProgress.final = None
  /\ NewProgress.my_heaviest_fork = None /\ NewProgress.my_snapshot = None
<1> USE Zenon
<1>1. /\ NoMemory \in Memory
      /\ NoMemory.pc = "None" /\ ~NoMemory.ready /\ NoMemory.agg = None
      /\ NoMemory.fork = None
  <2>1. NoMemory \in Memory
    BY SMT DEF NoMemory, Memory
  <2> QED
    BY <2>1 DEF NoMemory
<1>2. [n \in Node |-> None] \in [Node -> HeaviestForkMessage \cup {None}]
  OBVIOUS
<1> DEFINE forks == [n \in Node |-> None]
<1>3. NewProgress =
        [state |-> "Init", sent |-> FALSE, received |-> {}, final |-> None,
         my_heaviest_fork |-> None, coordinator_heaviest_fork |-> None,
         forks |-> forks, total_active_stake |-> 0,
         conflict_message |-> {}, my_snapshot |-> None]
  BY DEF NewProgress
<1> HIDE DEF forks
<1>4. forks \in [Node -> HeaviestForkMessage \cup {None}]
  BY <1>2 DEF forks
<1>5. /\ NewProgress \in WenRestartProgress
      /\ NewProgress.state = "Init" /\ NewProgress.final = None
      /\ NewProgress.my_heaviest_fork = None /\ NewProgress.my_snapshot = None
  BY <1>3, <1>4 DEF WenRestartProgress
<1> QED
  BY <1>1, <1>5

(* An empty file is right. *)
LEMMA NewFileOK ==
  ASSUME NEW n \in Node, file'[n] = NewProgress
  PROVE  FileOK(n)'
<1>1. /\ file'[n].state = "Init" /\ file'[n].final = None
      /\ file'[n].my_heaviest_fork = None /\ file'[n].my_snapshot = None
  BY NothingTyped, Zenon
<1> QED
  BY <1>1, SMT DEF FileOK

(* A process that does not run has no memory. *)
LEMMA NoMemoryOK ==
  ASSUME NEW n \in Node, mem'[n] = NoMemory, status'[n] # "running"
  PROVE  MemoryOK(n)'
<1>1. /\ mem'[n].pc = "None" /\ ~mem'[n].ready /\ mem'[n].agg = None
      /\ mem'[n].fork = None
  BY NothingTyped, Zenon
<1>2. StateOK(n, mem[n], file[n])'
  BY <1>1, Zenon DEF StateOK
<1> QED
  BY <1>1, <1>2, Zenon DEF MemoryOK

(* What is replayed at the start has the root, and every fork replayed     *)
(* before.                                                                 *)
LEMMA FrozenFacts ==
  ASSUME scenario \in Scenarios, NEW n \in Node, OwnBlocksOK(n)
  PROVE  /\ FrozenAtStart(n) \in SUBSET Slot /\ Root(n) \in FrozenAtStart(n)
         /\ \A fork \in HeaviestForkRecord :
              HasFork(n, fork) => fork.slot \in FrozenAtStart(n)
<1> USE Zenon
<1>1. Root(n) \in Slot /\ Root(n) \in Fork[Voted(n)] /\ Voted(n) \in Slot
  BY ScenarioFacts
<1>2. Root(n) \in FrozenAtStart(n)
  <2>1. Fork[Root(n)] \subseteq Fork[Voted(n)]
    BY <1>1, ForkFacts
  <2>2. Root(n) \in Fork[Root(n)]
    BY <1>1, ForkAssumption
  <2> QED
    BY <1>1, <2>1, <2>2 DEF FrozenAtStart, ToSlots, OwnBlocksOK
<1>3. ASSUME NEW fork \in HeaviestForkRecord, HasFork(n, fork)
      PROVE  fork.slot \in FrozenAtStart(n)
  <2>1. fork.slot \in Slot
    BY SMT DEF HeaviestForkRecord
  <2> QED
    BY <1>3, <2>1 DEF FrozenAtStart, ToSlots, HasFork
<1> QED
  BY <1>2, <1>3 DEF FrozenAtStart

(* The memory a process starts with. *)
Boot(p, agg, F) ==
  [pc |-> IF p.state = "HeaviestFork" THEN "FindHeaviestFork" ELSE p.state,
   ready |-> FALSE, agg |-> agg, repair |-> {},
   fork |-> IF p.state \in {"HeaviestFork", "GenerateSnapshot"}
            THEN p.my_heaviest_fork ELSE None,
   theirs |-> None,
   snapshot |-> IF p.state \in {"GenerateSnapshot", "Done"}
                THEN p.my_snapshot ELSE None,
   frozen |-> F]

(* A file that has what its state needs. *)
Sound(p) ==
  /\ p.state \in {"Init", "LastVotedForkSlots", "HeaviestFork",
                  "GenerateSnapshot", "Done"}
  /\ p.state = "LastVotedForkSlots" => p.sent
  /\ p.state = "HeaviestFork" => p.final # None
  /\ p.state = "GenerateSnapshot" => p.my_heaviest_fork # None
  /\ p.state = "Done" => p.my_snapshot # None

(* The state that a file leads to.  No file is malformed. *)
LEMMA InitialStateIs ==
  ASSUME NEW n, NEW p, Sound(p)
  PROVE  InitialState(n, p) =
           Boot(p, IF p.state = "LastVotedForkSlots"
                   THEN AggregateFromRecords(n, p.received) ELSE None,
                FrozenAtStart(n))
<1>0. /\ p.state \in {"Init", "LastVotedForkSlots", "HeaviestFork",
                      "GenerateSnapshot", "Done"}
      /\ p.state = "LastVotedForkSlots" => p.sent
      /\ p.state = "HeaviestFork" => p.final # None
      /\ p.state = "GenerateSnapshot" => p.my_heaviest_fork # None
      /\ p.state = "Done" => p.my_snapshot # None
  BY Zenon DEF Sound
<1> USE <1>0
<1> DEFINE F == FrozenAtStart(n)
           agg == IF p.state = "LastVotedForkSlots"
                  THEN AggregateFromRecords(n, p.received) ELSE None
           fork == IF p.state \in {"HeaviestFork", "GenerateSnapshot"}
                   THEN p.my_heaviest_fork ELSE None
           snapshot == IF p.state \in {"GenerateSnapshot", "Done"}
                       THEN p.my_snapshot ELSE None
           pc == IF p.state = "HeaviestFork" THEN "FindHeaviestFork" ELSE p.state
           st == InitialState(n, p)
<1> SUFFICES st = [pc |-> pc, ready |-> FALSE, agg |-> agg, repair |-> {},
                   fork |-> fork, theirs |-> None, snapshot |-> snapshot,
                   frozen |-> F]
  BY Zenon DEF Boot
<1> DEFINE New(q) == [NoMemory EXCEPT !.pc = q, !.frozen = F]
<1>1. CASE p.state = "Init"
  <2>1. st = New("Init")
    BY <1>1 DEF InitialState
  <2>2. pc = "Init" /\ fork = None /\ snapshot = None /\ agg = None
    BY <1>1
  <2> HIDE DEF st, F, agg, fork, snapshot, pc
  <2> QED
    BY <2>1, <2>2, Zenon DEF NoMemory
<1>2. CASE p.state = "LastVotedForkSlots"
  <2>1. st = [New("LastVotedForkSlots") EXCEPT !.agg = agg]
    BY <1>2 DEF InitialState
  <2>2. pc = "LastVotedForkSlots" /\ fork = None /\ snapshot = None
    BY <1>2
  <2> HIDE DEF st, F, agg, fork, snapshot, pc
  <2> QED
    BY <2>1, <2>2, Zenon DEF NoMemory
<1>3. CASE p.state = "HeaviestFork"
  <2>1. st = [New("FindHeaviestFork") EXCEPT !.fork = p.my_heaviest_fork]
    BY <1>3 DEF InitialState
  <2>2. pc = "FindHeaviestFork" /\ fork = p.my_heaviest_fork /\ snapshot = None /\ agg = None
    BY <1>3
  <2>3. st = [pc |-> "FindHeaviestFork", ready |-> FALSE, agg |-> None,
              repair |-> {}, fork |-> p.my_heaviest_fork, theirs |-> None,
              snapshot |-> None, frozen |-> F]
    BY <2>1, Zenon DEF NoMemory
  <2> HIDE DEF st, F, agg, fork, snapshot, pc
  <2> QED
    BY <2>2, <2>3, Zenon
<1>4. CASE p.state = "GenerateSnapshot"
  <2>1. st = [New("GenerateSnapshot") EXCEPT !.fork = p.my_heaviest_fork,
                                             !.snapshot = p.my_snapshot]
    BY <1>4 DEF InitialState
  <2>2. pc = "GenerateSnapshot" /\ fork = p.my_heaviest_fork /\ snapshot = p.my_snapshot /\ agg = None
    BY <1>4
  <2> HIDE DEF st, F, agg, fork, snapshot, pc
  <2> QED
    BY <2>1, <2>2, Zenon DEF NoMemory
<1>5. CASE p.state = "Done"
  <2>1. st = [New("Done") EXCEPT !.snapshot = p.my_snapshot]
    BY <1>5 DEF InitialState
  <2>2. pc = "Done" /\ fork = None /\ snapshot = p.my_snapshot /\ agg = None
    BY <1>5
  <2> HIDE DEF st, F, agg, fork, snapshot, pc
  <2> QED
    BY <2>1, <2>2, Zenon DEF NoMemory
<1> HIDE DEF st, F, agg, fork, snapshot, pc
<1> QED
  BY <1>1, <1>2, <1>3, <1>4, <1>5, Zenon

(* Starting, and going on from the file, preserves the invariant. *)
LEMMA StartOK ==
  ASSUME Laws, IInv, NEW n \in Node, Start(n)
  PROVE  IInv'
<1> USE Zenon
<1> DEFINE p == IF file[n] = None THEN NewProgress ELSE file[n]
           st == InitialState(n, p)
           fork == IF p.state \in {"HeaviestFork", "GenerateSnapshot"}
                   THEN p.my_heaviest_fork ELSE None
           snapshot == IF p.state \in {"GenerateSnapshot", "Done"}
                       THEN p.my_snapshot ELSE None
           agg == IF p.state = "LastVotedForkSlots"
                  THEN AggregateFromRecords(n, p.received) ELSE None
           F == FrozenAtStart(n)
<1>1. /\ file' = [file EXCEPT ![n] = p] /\ mem' = [mem EXCEPT ![n] = st]
      /\ status' = [status EXCEPT
           ![n] = IF st = NoMemory THEN "failed" ELSE "running"]
      /\ error' = [error EXCEPT
           ![n] = IF st = NoMemory THEN "MalformedProgress" ELSE None]
      /\ resumed' = IF p.state = "GenerateSnapshot" THEN resumed \cup {n} ELSE resumed
      /\ UNCHANGED <<scenario, crashes, blocks, gossip, announced>>
  BY DEF Start
<1> USE <1>1
<1>2. /\ TypeOK /\ AnnouncedOK /\ scenario \in Scenarios
      /\ OwnBlocksOK(n) /\ FileOK(n)
      /\ file[n] \in WenRestartProgress \cup {None}
  BY DEF IInv, NodeOK, TypeOK
<1> USE <1>2
<1>3. p \in WenRestartProgress /\ p # None
  BY NothingTyped, NoneAssumption
<1>4. /\ p.state = "LastVotedForkSlots" => p.sent
      /\ p.state = "HeaviestFork" => p.final # None
      /\ p.state = "GenerateSnapshot" => p.my_heaviest_fork # None
      /\ p.state = "Done" => p.my_snapshot # None
  <2>1. CASE file[n] = None
    <3>1. p = NewProgress
      BY <2>1
    <3> HIDE DEF p
    <3>2. p.state = "Init"
      BY <3>1, NothingTyped
    <3> QED
      BY <3>2
  <2>2. CASE file[n] # None
    <3>1. /\ file[n].state = "LastVotedForkSlots" => file[n].sent
          /\ file[n].state = "HeaviestFork" => file[n].final # None
          /\ file[n].state = "GenerateSnapshot" => file[n].my_heaviest_fork # None
          /\ file[n].state = "Done" => file[n].my_snapshot # None
      BY <2>2 DEF FileOK
    <3>2. p = file[n]
      BY <2>2
    <3> HIDE DEF p
    <3> QED
      BY <3>1, <3>2
  <2> QED
    BY <2>1, <2>2
<1>5. /\ p.my_heaviest_fork # None =>
           p.my_heaviest_fork \in HeaviestForkRecord /\ HasFork(n, p.my_heaviest_fork)
      /\ p.my_snapshot \in HeaviestForkRecord \cup {None}
      /\ p.received \in SUBSET Node
      /\ p.state \in {"Init", "LastVotedForkSlots", "HeaviestFork",
                      "GenerateSnapshot", "Done"}
  <2>1. p.my_heaviest_fork # None => HasFork(n, p.my_heaviest_fork)
    <3>1. CASE file[n] = None
      BY <3>1, NothingTyped
    <3>2. CASE file[n] # None
      BY <3>2 DEF FileOK
    <3> QED
      BY <3>1, <3>2
  <2> HIDE DEF p
  <2>2. /\ p.my_heaviest_fork # None => p.my_heaviest_fork \in HeaviestForkRecord
        /\ p.my_snapshot \in HeaviestForkRecord \cup {None}
        /\ p.received \in SUBSET Node
        /\ p.state \in {"Init", "LastVotedForkSlots", "HeaviestFork",
                        "GenerateSnapshot", "Done"}
    BY <1>3 DEF WenRestartProgress
  <2> QED
    BY <2>1, <2>2
<1>6. /\ file[n] # None => p = file[n]
      /\ file[n] = None => p = NewProgress
  OBVIOUS
<1> HIDE DEF p
<1> DEFINE pc == IF p.state = "HeaviestFork" THEN "FindHeaviestFork" ELSE p.state
           k == [pc |-> pc, ready |-> FALSE, agg |-> agg, repair |-> {},
                 fork |-> fork, theirs |-> None, snapshot |-> snapshot, frozen |-> F]
<1>7. /\ st = InitialState(n, p) /\ F = FrozenAtStart(n)
      /\ agg = IF p.state = "LastVotedForkSlots"
               THEN AggregateFromRecords(n, p.received) ELSE None
  OBVIOUS
<1> HIDE DEF st, F, agg
<1>8. st = k
  <2>1. st = Boot(p, agg, F)
    <3>1. InitialState(n, p) =
            Boot(p, IF p.state = "LastVotedForkSlots"
                    THEN AggregateFromRecords(n, p.received) ELSE None,
                 FrozenAtStart(n))
      <4>1. Sound(p)
        BY <1>4, <1>5 DEF Sound
      <4> QED
        BY <4>1, InitialStateIs
    <3> QED
      BY <1>7, <3>1
  <2> QED
    BY <2>1 DEF Boot
<1>9. /\ F \in SUBSET Slot /\ Root(n) \in F
      /\ p.my_heaviest_fork # None => p.my_heaviest_fork.slot \in F
  BY <1>5, <1>7, FrozenFacts
<1>10. PICK A, R : p.state = "LastVotedForkSlots" => Aggregated(n, agg, A, R)
  BY <1>5, <1>7, FromRecordsOK
<1>11. agg \in LastVotedForkSlotsAggregate \cup {None}
  <2>1. CASE p.state = "LastVotedForkSlots"
    BY <1>10, <2>1, AggregateTyped DEF Aggregated
  <2>2. CASE p.state # "LastVotedForkSlots"
    BY <1>7, <2>2
  <2> QED
    BY <2>1, <2>2
<1>12. p.state # "LastVotedForkSlots" => agg = None
  BY <1>7
<1>13. /\ k \in Memory /\ k.pc = pc /\ ~k.ready /\ k.agg = agg /\ k.fork = fork
       /\ k.snapshot = snapshot /\ k.frozen = F /\ pc # "None"
  BY <1>5, <1>9, <1>11 DEF Memory
<1>14. k # NoMemory
  BY <1>13, NothingTyped
<1> HIDE DEF k
<1>15. /\ mem' = [mem EXCEPT ![n] = k] /\ status' = [status EXCEPT ![n] = "running"]
       /\ error' = [error EXCEPT ![n] = None]
  BY <1>8, <1>14 DEF st
<1>16. /\ mem'[n] = k /\ file'[n] = p /\ status'[n] = "running" /\ error'[n] = None
       /\ \A i \in Node \ {n} : Kept(i)
  BY <1>15 DEF TypeOK, Kept
<1>17. HistoryGrows /\ \A i \in Node : BlocksKept(i)
  BY DEF HistoryGrows, BlocksKept
<1>18. TypeOK'
  <2>1. /\ mem \in [Node -> Memory]
        /\ file \in [Node -> WenRestartProgress \cup {None}]
    BY DEF TypeOK
  <2>2. mem' \in [Node -> Memory]
    BY <1>13, <1>15, <2>1
  <2>3. file' \in [Node -> WenRestartProgress \cup {None}]
    <3>1. p \in WenRestartProgress \cup {None}
      BY <1>3
    <3> QED
      BY <2>1, <3>1
  <2>4. status' \in [Node -> {"down", "running", "failed", "finished"}]
    <3>1. status \in [Node -> {"down", "running", "failed", "finished"}]
      BY DEF TypeOK
    <3> QED
      BY <1>15, <3>1
  <2>5. error' \in [Node -> {None, "MalformedProgress", "BankNotFound", "Panic",
                             "BlockNotFound", "BlockNotLinkedToExpectedParent",
                             "HeaviestForkOnLeaderOnDifferentFork",
                             "BankHashMismatch", "SnapshotExists"}]
    <3>1. error \in [Node -> {None, "MalformedProgress", "BankNotFound", "Panic",
                              "BlockNotFound", "BlockNotLinkedToExpectedParent",
                              "HeaviestForkOnLeaderOnDifferentFork",
                              "BankHashMismatch", "SnapshotExists"}]
      BY DEF TypeOK
    <3> QED
      BY <1>15, <3>1
  <2>6. resumed' \subseteq Node
    BY DEF TypeOK
  <2> QED
    BY <2>2, <2>3, <2>4, <2>5, <2>6 DEF TypeOK
<1>19. Coordinator' = Coordinator /\ Coordinator \in Node /\ Root(n)' = Root(n)
  BY ScenarioKept, ScenarioFacts
<1>20. AnnouncedOK'
  <2>1. CASE n = Coordinator /\ file[n] = None
    BY <1>19, <2>1 DEF AnnouncedOK, ForkOf
  <2>2. CASE ~(n = Coordinator /\ file[n] = None)
    <3>1. file'[Coordinator] = file[Coordinator]
      BY <1>6, <1>16, <1>19, <2>2 DEF Kept
    <3> QED
      BY <3>1, AnnouncedStays
  <2> QED
    BY <2>1, <2>2
<1>21. FileOK(n)'
  <2>1. CASE file[n] = None
    BY <1>6, <1>16, <2>1, NewFileOK
  <2>2. CASE file[n] # None
    BY <1>6, <1>16, <1>17, <2>2, FileStays
  <2> QED
    BY <2>1, <2>2
<1>22. MemoryOK(n)'
  <2>1. StateOK(n, mem[n], file[n])'
    <3>1. p.state = "GenerateSnapshot" => n \in resumed'
      OBVIOUS
    <3>2. p.state = "Init" => fork = None /\ snapshot = None /\ agg = None
      <4> SUFFICES ASSUME p.state = "Init"
                   PROVE  fork = None /\ snapshot = None /\ agg = None
        OBVIOUS
      <4>1. fork = None
        OBVIOUS
      <4>2. snapshot = None
        OBVIOUS
      <4>3. agg = None
        BY <1>7
      <4> QED
        BY <4>1, <4>2, <4>3
    <3>3. p.state = "LastVotedForkSlots" => fork = None /\ snapshot = None
      BY SMT
    <3>4. p.state = "HeaviestFork" =>
            fork = p.my_heaviest_fork /\ snapshot = None /\ agg = None
      BY <1>12, SMT
    <3>5. p.state = "GenerateSnapshot" => fork # None /\ agg = None
      BY <1>4, <1>12, SMT
    <3>6. p.state = "Done" => agg = None
      BY <1>12, SMT
    <3> HIDE DEF fork, snapshot
    <3>7. /\ mem'[n].pc = pc /\ ~mem'[n].ready /\ mem'[n].agg = agg
          /\ mem'[n].fork = fork /\ mem'[n].snapshot = snapshot /\ file'[n] = p
      BY <1>13, <1>16
    <3>8. CASE p.state = "Init" /\ pc = "Init"
      BY <3>2, <3>7, <3>8 DEF StateOK
    <3>9. CASE p.state = "LastVotedForkSlots" /\ pc = "LastVotedForkSlots"
      BY <3>3, <3>7, <3>9 DEF StateOK
    <3>10. CASE p.state = "HeaviestFork" /\ pc = "FindHeaviestFork"
      BY <3>4, <3>7, <3>10 DEF StateOK
    <3>11. CASE p.state = "GenerateSnapshot" /\ pc = "GenerateSnapshot"
      BY <3>1, <3>5, <3>7, <3>11 DEF StateOK
    <3>12. CASE p.state = "Done" /\ pc = "Done"
      BY <3>6, <3>7, <3>12 DEF StateOK
    <3>13. \/ p.state = "Init" /\ pc = "Init"
           \/ p.state = "LastVotedForkSlots" /\ pc = "LastVotedForkSlots"
           \/ p.state = "HeaviestFork" /\ pc = "FindHeaviestFork"
           \/ p.state = "GenerateSnapshot" /\ pc = "GenerateSnapshot"
           \/ p.state = "Done" /\ pc = "Done"
      BY <1>5, SMT
    <3> QED
      BY <3>8, <3>9, <3>10, <3>11, <3>12, <3>13
  <2>2. fork # None => HasFork(n, mem[n].fork)' /\ fork.slot \in F
    <3>1. fork # None => /\ fork = p.my_heaviest_fork
                         /\ p.my_heaviest_fork # None
      OBVIOUS
    <3> HIDE DEF fork
    <3>2. fork # None => fork \in HeaviestForkRecord /\ HasFork(n, fork) /\ fork.slot \in F
      BY <1>5, <1>9, <3>1
    <3>3. mem'[n].fork = fork
      BY <1>13, <1>16
    <3>4. fork # None => mem'[n].fork \in HeaviestForkRecord /\ HasFork(n, mem'[n].fork)
      BY <3>2, <3>3
    <3>5. fork # None => HasFork(n, mem[n].fork)'
      BY <1>17, <3>4, BlocksStay
    <3> QED
      BY <3>2, <3>5
  <2>3. pc = "LastVotedForkSlots" => AggregateOK(n)'
    <3>1. pc = "LastVotedForkSlots" => p.state = "LastVotedForkSlots"
      BY <1>5, SMT
    <3> HIDE DEF pc
    <3> QED
      BY <1>10, <1>13, <1>16, <3>1, AggregatedOK
  <2> HIDE DEF fork, pc
  <2> QED
    BY <1>3, <1>9, <1>13, <1>16, <1>19, <2>1, <2>2, <2>3 DEF MemoryOK
<1>23. NodeOK(n)'
  BY <1>16, <1>17, <1>21, <1>22, OwnBlocksStay, NoErrorOK DEF NodeOK
<1> QED
  BY <1>16, <1>17, <1>18, <1>20, <1>23, StepOK

(* A crash preserves the invariant, whether it empties the file or not. *)
LEMMA CrashOK ==
  ASSUME IInv, NEW n \in Node, Crash(n)
  PROVE  IInv'
<1> USE Zenon
<1>1. /\ crashes' = crashes + 1 /\ status' = [status EXCEPT ![n] = "down"]
      /\ mem' = [mem EXCEPT ![n] = NoMemory]
      /\ \/ gossip' = gossip
         \/ gossip' = [slots |-> gossip.slots \ {n},
                       fork |-> [gossip.fork EXCEPT ![n] = None]]
      /\ \/ file' = file
         \/ /\ scenario.torn /\ status[n] = "running"
            /\ file' = [file EXCEPT ![n] = NewProgress]
      /\ UNCHANGED <<scenario, error, blocks, history>>
  BY DEF Crash, Writing
<1> USE <1>1
<1>2. /\ TypeOK /\ AnnouncedOK /\ scenario \in Scenarios
      /\ OwnBlocksOK(n) /\ FileOK(n) /\ ErrorOK(n)
  BY DEF IInv, NodeOK, TypeOK
<1> USE <1>2
<1>3. /\ mem'[n] = NoMemory /\ status'[n] = "down"
      /\ \A i \in Node \ {n} : Kept(i)
  <2>1. file \in [Node -> WenRestartProgress \cup {None}]
    BY DEF TypeOK
  <2>2. \A i \in Node \ {n} : file'[i] = file[i]
    BY <2>1
  <2> QED
    BY <2>2 DEF TypeOK, Kept
<1>4. file'[n] = file[n] \/ (error[n] = None /\ scenario.torn /\ file'[n] = NewProgress)
  BY DEF TypeOK, OwnBlocksOK
<1>5. HistoryGrows /\ \A i \in Node : BlocksKept(i)
  BY DEF HistoryGrows, BlocksKept, history
<1>6. Coordinator' = Coordinator /\ Coordinator \in Node
  BY ScenarioKept, ScenarioFacts
<1>7. /\ gossip' \in GossipType
      /\ gossip'.fork[Coordinator] \in {gossip.fork[Coordinator], None}
  <2>1. gossip \in GossipType
    BY DEF TypeOK, GossipType
  <2>2. /\ gossip.slots \in SUBSET Node
        /\ gossip.fork \in [Node -> HeaviestForkMessage \cup {None}]
    BY <2>1, SMT DEF GossipType
  <2> DEFINE slots == gossip.slots \ {n}
             fork == [gossip.fork EXCEPT ![n] = None]
  <2>3. /\ slots \in SUBSET Node
        /\ fork \in [Node -> HeaviestForkMessage \cup {None}]
        /\ fork[Coordinator] \in {gossip.fork[Coordinator], None}
    BY <1>6, <2>2
  <2> HIDE DEF slots, fork
  <2>4. CASE gossip' = gossip
    BY <2>1, <2>4
  <2>5. CASE gossip' = [slots |-> slots, fork |-> fork]
    BY <2>3, <2>5 DEF GossipType
  <2> QED
    BY <2>4, <2>5 DEF slots, fork
<1>8. TypeOK'
  <2>1. /\ mem \in [Node -> Memory]
        /\ file \in [Node -> WenRestartProgress \cup {None}] /\ crashes \in Nat
    BY DEF TypeOK
  <2>2. mem' \in [Node -> Memory]
    BY <2>1, NothingTyped
  <2>3. file' \in [Node -> WenRestartProgress \cup {None}]
    <3>1. NewProgress \in WenRestartProgress \cup {None}
      BY NothingTyped
    <3> QED
      BY <2>1, <3>1
  <2>4. status' \in [Node -> {"down", "running", "failed", "finished"}]
    BY SMT DEF TypeOK
  <2>5. crashes' \in Nat
    BY <2>1, SMT
  <2> QED
    BY <1>7, <2>2, <2>3, <2>4, <2>5 DEF TypeOK, GossipType, history
<1>9. AnnouncedOK'
  <2>1. CASE file'[Coordinator] = file[Coordinator]
    BY <1>7, <2>1, AnnouncedStays DEF history
  <2>2. CASE file'[Coordinator] # file[Coordinator]
    <3>1. scenario.torn
      BY <2>2
    <3> QED
      BY <1>6, <1>7, <3>1 DEF AnnouncedOK, ForkOf, history
  <2> QED
    BY <2>1, <2>2
<1>10. FileOK(n)'
  BY <1>4, <1>5, FileStays, NewFileOK
<1>11. ErrorOK(n)'
  BY <1>4, ErrorStays, NoErrorOK
<1>12. status'[n] # "running"
  BY <1>3, SMT
<1>13. NodeOK(n)'
  BY <1>3, <1>5, <1>10, <1>11, <1>12, OwnBlocksStay, NoMemoryOK
  DEF NodeOK
<1> QED
  BY <1>3, <1>5, <1>8, <1>9, <1>13, StepOK

(* The invariant holds when the cluster has halted. *)
LEMMA InitOK ==
  ASSUME Init
  PROVE  IInv
<1> USE Zenon
<1>1. scenario \in Scenarios /\ Coordinator \in Node /\ scenario.gone \in SUBSET Node
  BY ScenarioAssumption DEF Init, Coordinator
<1> USE <1>1
<1>2. TypeOK
  <2>1. blocks \in [Node -> [Slot -> {"main", "other", None}]]
    BY ScenarioAssumption DEF Init
  <2>2. gossip \in [slots : SUBSET Node,
                    fork : [Node -> HeaviestForkMessage \cup {None}]]
    <3> DEFINE fork == [n \in Node |-> None]
    <3>1. fork \in [Node -> HeaviestForkMessage \cup {None}]
      OBVIOUS
    <3>2. gossip = [slots |-> scenario.gone, fork |-> fork]
      BY DEF Init
    <3> HIDE DEF fork
    <3> QED
      BY <3>1, <3>2
  <2>3. /\ status \in [Node -> {"down", "running", "failed", "finished"}]
        /\ error \in [Node -> {None, "MalformedProgress", "BankNotFound", "Panic",
                               "BlockNotFound", "BlockNotLinkedToExpectedParent",
                               "HeaviestForkOnLeaderOnDifferentFork",
                               "BankHashMismatch", "SnapshotExists"}]
        /\ mem \in [Node -> Memory]
        /\ file \in [Node -> WenRestartProgress \cup {None}]
        /\ announced \subseteq HeaviestForkRecord /\ resumed \subseteq Node
    BY NothingTyped DEF Init
  <2>4. crashes \in Nat
    BY SMT DEF Init
  <2> QED
    BY <2>1, <2>2, <2>3, <2>4 DEF TypeOK
<1>3. AnnouncedOK
  <2>1. gossip.fork = [n \in Node |-> None] /\ announced = {}
    BY SMT DEF Init
  <2> QED
    BY <2>1 DEF AnnouncedOK
<1>4. ASSUME NEW n \in Node PROVE NodeOK(n)
  <2>1. /\ status[n] = "down" /\ error[n] = None /\ file[n] = None
        /\ mem[n] = NoMemory /\ blocks = scenario.blocks
    BY DEF Init
  <2>2. OwnBlocksOK(n)
    BY <2>1, ScenarioAssumption DEF OwnBlocksOK, Full, Voted
  <2>3. ErrorOK(n)
    BY <2>1, NoneAssumption, SMT DEF ErrorOK
  <2>4. FileOK(n)
    BY <2>1 DEF FileOK
  <2>5. MemoryOK(n)
    <3>1. /\ mem[n].pc = "None" /\ ~mem[n].ready /\ mem[n].agg = None
          /\ mem[n].fork = None
      BY <2>1, NothingTyped
    <3>2. StateOK(n, mem[n], file[n])
      BY <3>1 DEF StateOK
    <3>3. mem[n].pc # "LastVotedForkSlots" /\ status[n] # "running"
      BY <2>1, <3>1
    <3> QED
      BY <3>1, <3>2, <3>3 DEF MemoryOK
  <2> QED
    BY <2>2, <2>3, <2>4, <2>5 DEF NodeOK
<1> QED
  BY <1>2, <1>3, <1>4 DEF IInv

-----------------------------------------------------------------------------
(* The laws, and the theorems. *)
INSTANCE FiniteSetTheorems

(* The units of stake are finitely many. *)
LEMMA UnitsFinite ==
  ASSUME NEW e \in Epoch, NEW N \in SUBSET Node
  PROVE  IsFiniteSet(StakeUnits(e, N))
<1> USE Zenon
<1> DEFINE U == {{n} \X (1..Stake[e][n]) : n \in N}
           f == [n \in N |-> {n} \X (1..Stake[e][n])]
<1>1. IsFiniteSet(N)
  BY WenRestartAssumption, FS_Subset
<1>2. f \in Surjection(N, U)
  BY DEF Surjection
<1>3. IsFiniteSet(U)
  BY <1>1, <1>2, FS_Surjection
<1>4. \A T \in U : IsFiniteSet(T)
  <2> SUFFICES ASSUME NEW n \in N PROVE IsFiniteSet({n} \X (1..Stake[e][n]))
    OBVIOUS
  <2>1. Stake[e][n] \in Int /\ 1 \in Int
    BY WenRestartAssumption, SMT
  <2>2. IsFiniteSet(1..Stake[e][n])
    BY <2>1, FS_Interval
  <2> QED
    BY <2>2, FS_Singleton, FS_Product
<1> QED
  BY <1>3, <1>4, FS_UNION DEF StakeUnits

(* The stake of disjoint sets adds up, because no unit of it is held       *)
(* twice.                                                                  *)
LEMMA UnitsAdd ==
  ASSUME NEW e \in Epoch, NEW A \in SUBSET Node, NEW B \in SUBSET Node,
         A \cap B = {}
  PROVE  /\ StakeOf(e, A) \in Nat /\ StakeOf(e, B) \in Nat
         /\ StakeOf(e, A \cup B) = StakeOf(e, A) + StakeOf(e, B)
<1> USE Zenon
<1> DEFINE UA == StakeUnits(e, A)
           UB == StakeUnits(e, B)
<1>1. IsFiniteSet(UA) /\ IsFiniteSet(UB)
  BY UnitsFinite
<1>2. StakeUnits(e, A \cup B) = UA \cup UB
  BY DEF StakeUnits
<1>3. UA \cap UB = {}
  <2>1. \A N : \A u \in StakeUnits(e, N) : u[1] \in N
    BY SMT DEF StakeUnits
  <2> QED
    BY <2>1
<1>4. Cardinality(UA \cap UB) = 0
  BY <1>3, FS_EmptySet
<1>5. /\ Cardinality(UA) \in Nat /\ Cardinality(UB) \in Nat
      /\ Cardinality(UA \cup UB)
           = Cardinality(UA) + Cardinality(UB) - Cardinality(UA \cap UB)
  BY <1>1, FS_Union, FS_CardinalityType
<1>6. /\ StakeOf(e, A) = Cardinality(UA) /\ StakeOf(e, B) = Cardinality(UB)
      /\ StakeOf(e, A \cup B) = Cardinality(StakeUnits(e, A \cup B))
  BY SMT DEF StakeOf, StakeSum
<1> DEFINE a == Cardinality(UA)
           b == Cardinality(UB)
<1>7. a \in Nat /\ b \in Nat /\ StakeOf(e, A) = a /\ StakeOf(e, B) = b
  BY <1>5, <1>6
<1>8. StakeOf(e, A \cup B) = a + b - 0
  BY <1>2, <1>4, <1>5, <1>6
<1> HIDE DEF a, b
<1> QED
  BY <1>7, <1>8, SMT

(* No validators, no units. *)
LEMMA NoUnits == \A e \in Epoch : StakeOf(e, {}) = 0
<1> SUFFICES ASSUME NEW e \in Epoch PROVE StakeOf(e, {}) = 0
  OBVIOUS
<1>1. StakeUnits(e, {}) = {}
  BY Zenon DEF StakeUnits
<1> QED
  BY <1>1, FS_EmptySet DEF StakeOf, StakeSum

(* Every validator has one. *)
LEMMA SomeUnits ==
  ASSUME NEW e \in Epoch, NEW N \in SUBSET Node, NEW n \in N
  PROVE  StakeOf(e, N) > 0
<1>1. <<n, 1>> \in StakeUnits(e, N)
  <2>1. 1 \in 1..Stake[e][n]
    BY WenRestartAssumption
  <2> QED
    BY <2>1, SMT DEF StakeUnits
<1>2. IsFiniteSet(StakeUnits(e, N)) /\ StakeUnits(e, N) # {}
  BY <1>1, UnitsFinite, Zenon
<1>3. Cardinality(StakeUnits(e, N)) \in Nat /\ Cardinality(StakeUnits(e, N)) # 0
  BY <1>2, FS_EmptySet, FS_CardinalityType, Zenon
<1>4. StakeOf(e, N) = Cardinality(StakeUnits(e, N))
  BY DEF StakeOf, StakeSum
<1> QED
  BY <1>3, <1>4

(* Every non-empty set of naturals has a least element. *)
LEMMA NaturalsHaveLeast ==
  ASSUME NEW T \in SUBSET Nat, T # {}
  PROVE  \E m \in T : \A x \in T : m <= x
<1>1. IsWellFoundedOn(OpToRel(<, Nat), Nat)
  BY NatLessThanWellFounded, Zenon
<1>2. PICK m \in T : \A x \in T : ~(<<x, m>> \in OpToRel(<, Nat))
  BY <1>1, WFMin, Zenon
<1>3. \A x \in T : x < m <=> <<x, m>> \in OpToRel(<, Nat)
  BY DEF OpToRel
<1>4. \A x \in T : ~(x < m)
  BY <1>2, <1>3, Zenon
<1> QED
  BY <1>4

(* A finite set of naturals has a bound. *)
LEMMA FiniteBounded ==
  ASSUME NEW S \in SUBSET Nat, IsFiniteSet(S)
  PROVE  Bounded(S)
<1> USE Zenon
<1> USE DEF Bounded
<1> DEFINE C == {Cardinality(T) : T \in {U \in SUBSET S : ~Bounded(U)}}
<1> SUFFICES ASSUME ~Bounded(S) PROVE FALSE
  BY SMT
<1>1. \A T \in SUBSET S : IsFiniteSet(T) /\ Cardinality(T) \in Nat
  BY FS_Subset, FS_CardinalityType
<1>2. C \in SUBSET Nat /\ Cardinality(S) \in C
  BY <1>1
<1>3. PICK c \in C : \A x \in C : c <= x
  <2> HIDE DEF C
  <2> QED
    BY <1>2, NaturalsHaveLeast
<1>4. PICK T \in SUBSET S : ~Bounded(T) /\ c = Cardinality(T)
  BY <1>3
<1> USE <1>4
<1>5. T # {}
  <2>1. \A x \in {} : x <= 0
    BY SMT
  <2>2. 0 \in Nat
    BY SMT
  <2> QED
    BY <2>1, <2>2
<1>6. PICK t \in T : TRUE
  BY <1>5
<1>7. Cardinality(T \ {t}) = Cardinality(T) - 1
  BY <1>1, <1>6, FS_RemoveElement
<1>8. Bounded(T \ {t})
  <2>1. ~(c <= c - 1)
    BY <1>1, SMT
  <2>2. Cardinality(T \ {t}) \notin C
    BY <1>3, <1>7, <2>1
  <2> QED
    BY <2>2
<1>9. PICK b \in Nat : \A x \in T \ {t} : x <= b
  BY <1>8
<1>10. \A x \in T : x <= b + t
  <2>1. b \in Nat /\ t \in Nat /\ T \in SUBSET Nat
    BY <1>6
  <2> QED
    BY <1>9, <2>1, SMT
<1>11. b + t \in Nat
  BY <1>6, SMT
<1> QED
  BY <1>10, <1>11

(* The validators name naturals up to some bound. *)
LEMMA ValuesBounded ==
  ASSUME NEW f \in [Node -> Nat]
  PROVE  Bounded({f[n] : n \in Node})
<1> USE Zenon
<1> DEFINE S == {f[n] : n \in Node}
<1>1. S \in SUBSET Nat
  OBVIOUS
<1>2. f \in Surjection(Node, S)
  BY DEF Surjection
<1>3. IsFiniteSet(S)
  BY <1>2, WenRestartAssumption, FS_Surjection
<1> HIDE DEF S
<1>4. Bounded(S)
  BY <1>1, <1>3, FiniteBounded
<1> QED
  BY <1>4 DEF S

(* The laws hold. *)
LEMMA LawsHold == Laws
<1> USE Zenon
<1>1. \A e \in Epoch : \A A, B \in SUBSET Node :
        A \cap B = {} =>
          /\ StakeOf(e, A) \in Nat /\ StakeOf(e, B) \in Nat
          /\ StakeOf(e, A \cup B) = StakeOf(e, A) + StakeOf(e, B)
  BY UnitsAdd
<1>2. \A e \in Epoch : /\ StakeOf(e, {}) = 0
                      /\ \A N \in SUBSET Node : N # {} => StakeOf(e, N) > 0
  BY NoUnits, SomeUnits
<1>3. \A T \in SUBSET Nat : T # {} => \E m \in T : \A x \in T : m <= x
  BY NaturalsHaveLeast
<1>4. \A f \in [Node -> Nat] : Bounded({f[n] : n \in Node})
  BY ValuesBounded
<1> QED
  BY <1>1, <1>2, <1>3, <1>4 DEF Laws

(* Every step preserves the invariant. *)
LEMMA NextOK == IInv /\ [Next]_vars => IInv'
<1> USE Zenon
<1> SUFFICES ASSUME IInv, [Next]_vars
             PROVE  IInv'
  OBVIOUS
<1>0. Laws
  BY LawsHold
<1>1. ASSUME NEW n \in Node,
             \/ Start(n) \/ SendLastVotedForkSlots(n)
             \/ AggregateLastVotedForkSlots(n) \/ FindHeaviestFork(n)
             \/ AnnounceHeaviestFork(n) \/ ReceiveHeaviestFork(n)
             \/ RepairHeaviestFork(n) \/ VerifyHeaviestFork(n)
             \/ GenerateSnapshot(n) \/ IncrementAndWrite(n)
             \/ Finish(n) \/ AggregateHeaviestFork(n)
      PROVE  IInv'
  BY <1>0, <1>1, StartOK, SendOK, CollectOK, FindOK, AnnounceOK, ReceiveOK,
     ListRepairsOK, VerifyOK, GenerateOK, IncrementOK, FinishOK,
     AggregateHeaviestForkOK
<1>2. ASSUME NEW n \in Node, NEW s \in Slot, Repair(n, s) PROVE IInv'
  BY <1>2, RepairOK
<1>3. ASSUME NEW n \in Node, Crash(n) PROVE IInv'
  BY <1>3, CrashOK
<1>4. CASE UNCHANGED vars
  <2>1. /\ UNCHANGED <<scenario, crashes, status, error, mem, file, blocks, gossip>>
        /\ UNCHANGED <<announced, resumed>>
    BY <1>4 DEF vars, disk, history
  <2>2. TypeOK /\ AnnouncedOK /\ scenario \in Scenarios
    BY DEF IInv, TypeOK
  <2>3. TypeOK'
    BY <2>1, <2>2 DEF TypeOK
  <2>4. AnnouncedOK'
    BY <2>1, <2>2, AnnouncedStays
  <2>5. \A n \in Node : NodeOK(n)'
    BY <2>1, <2>2, NodeStays DEF IInv, HistoryGrows, BlocksKept, Kept
  <2> QED
    BY <2>3, <2>4, <2>5 DEF IInv
<1> QED
  BY <1>1, <1>2, <1>3, <1>4 DEF Next, Steps

(* The invariant holds: the state in memory is that of the file or follows *)
(* from it, the aggregate is a function of the set of senders, and every   *)
(* fork in memory or in the file is one that the validator has replayed.   *)
THEOREM RestartInvariant == Spec => []IInv
<1>1. Init => IInv
  BY InitOK, Zenon
<1>2. IInv /\ [Next]_vars => IInv'
  BY NextOK, Zenon
<1> QED
  BY <1>1, <1>2, PTL DEF Spec

(* Whoever is done without having gone on from state GenerateSnapshot has  *)
(* a snapshot of a fork the coordinator announced (send_restart_heaviest_  *)
(* fork), and the coordinator announces one fork only, however often it    *)
(* crashes, unless its file was emptied by a crash while being written.    *)
THEOREM SnapshotsAreAnnounced == Spec => []SnapshotsAnnounced
<1>1. IInv => SnapshotsAnnounced
  <2> SUFFICES ASSUME IInv
               PROVE  SnapshotsAnnounced
    BY Zenon
  <2>1. ASSUME NEW n \in Node \ resumed
        PROVE  SnapshotOf(n) \in announced \cup {None}
    <3>1. FileOK(n)
      BY Zenon DEF IInv, NodeOK
    <3> QED
      BY <3>1, Zenon DEF SnapshotOf, FileOK
  <2>2. ASSUME ~scenario.torn PROVE Cardinality(announced) <= 1
    <3> DEFINE fork == file[Coordinator].my_heaviest_fork
    <3>1. \A x \in announced : x = fork
      BY <2>2, Zenon DEF IInv, AnnouncedOK
    <3> HIDE DEF fork
    <3>2. announced = {} \/ announced = {fork}
      BY <3>1, Zenon
    <3>3. Cardinality({}) = 0 /\ Cardinality({fork}) = 1
      BY FS_EmptySet, FS_Singleton, Zenon
    <3> QED
      BY <3>2, <3>3
  <2> QED
    BY <2>1, <2>2, Zenon DEF SnapshotsAnnounced
<1> QED
  BY <1>1, RestartInvariant, PTL

(* However often messages are delivered, and however often a validator     *)
(* starts again from its records, LastVotedForkSlotsAggregate counts the   *)
(* stake of each sender once, for each slot and for the active stake.      *)
THEOREM StakesAreCountedOnce == Spec => []StakesCountedOnce
<1>1. IInv => StakesCountedOnce
  <2> SUFFICES ASSUME IInv, NEW n \in Node, mem[n].agg # None
               PROVE  LET agg == mem[n].agg
                          heard == agg.from \cup {n}
                      IN /\ \A e \in Epoch : agg.active[e] = StakeOf(e, heard)
                         /\ \A s \in DOMAIN agg.stakes : agg.stakes[s] =
                              StakeOf(EpochOf(s),
                                {m \in heard : s \in ToSlots(Voted(m), Root(n))})
    BY Zenon DEF StakesCountedOnce
  <2>1. MemoryOK(n)
    BY Zenon DEF IInv, NodeOK
  <2>2. mem[n].pc = "LastVotedForkSlots"
    BY <2>1, StateAggregate, Zenon
  <2>3. PICK F, R : mem[n].agg = AggregateOf(n, F, R)
    BY <2>1, <2>2, Zenon DEF MemoryOK, AggregateOK
  <2> DEFINE H == F \cup {n}
             agg == mem[n].agg
  <2>4. agg.from = F /\ agg.active = ActiveOf(H) /\ agg.stakes = StakesOf(n, H)
    BY <2>3 DEF AggregateOf
  <2> HIDE DEF agg
  <2>5. \A e \in Epoch : agg.active[e] = StakeOf(e, H)
    BY <2>4, Zenon DEF ActiveOf
  <2>6. \A s \in DOMAIN agg.stakes :
          agg.stakes[s] = StakeOf(EpochOf(s), ForSlot(n, H, s))
    BY <2>4, Zenon DEF StakesOf
  <2>7. \A s : ForSlot(n, H, s) = {m \in H : s \in ToSlots(Voted(m), Root(n))}
    BY Zenon DEF ForSlot, For, Voted
  <2>8. agg.from \cup {n} = H
    BY <2>4, Zenon
  <2> HIDE DEF H
  <2>9. \A s \in DOMAIN agg.stakes : agg.stakes[s] =
          StakeOf(EpochOf(s), {m \in H : s \in ToSlots(Voted(m), Root(n))})
    BY <2>6, <2>7, Zenon
  <2> QED
    BY <2>5, <2>8, <2>9, Zenon DEF agg
<1> QED
  BY <1>1, RestartInvariant, PTL

(* A block that 62% of the stake of its epoch has on its last voted fork   *)
(* is on every heaviest fork that find_heaviest_fork finds and every one   *)
(* read back from the file, whoever was active, as long as more than 38%   *)
(* of that stake was.                                                      *)
THEOREM ConfirmedAreKept == Spec => []KeepsConfirmed
<1>1. IInv => KeepsConfirmed
  <2> SUFFICES ASSUME IInv, NEW n \in Node, NEW s \in Slot,
                      HeaviestForkOf(n) # None, s >= Root(n), Confirmed(s),
                      100 * file[n].final.active[EpochOf(s)]
                        > 38 * TotalStake(EpochOf(s))
               PROVE  s \in Fork[HeaviestForkOf(n).slot]
    BY Zenon DEF KeepsConfirmed, Confirmed
  <2>1. FileOK(n)
    BY Zenon DEF IInv, NodeOK
  <2>2. file[n] # None /\ HeaviestForkOf(n) = file[n].my_heaviest_fork
    BY Zenon DEF HeaviestForkOf
  <2>3. Keeps(n, HeaviestForkOf(n), file[n].final)
    BY <2>1, <2>2, Zenon DEF FileOK
  <2> QED
    BY <2>3, Zenon DEF Keeps
<1> QED
  BY <1>1, RestartInvariant, PTL

(* A validator is never stopped by its own file or by a missing bank, and  *)
(* by a missing block or the subtraction in is_over_stake_threshold only   *)
(* where less than 80% of the stake of an epoch is active.  The blocks     *)
(* that count in find_heaviest_fork form a chain from the root unless      *)
(* somebody voted on a fork without the root, in another epoch with other  *)
(* stakes, or in one of which less than 80% is active.                     *)
THEOREM FailuresHaveReasons == Spec => []FailsForAReason
<1>1. IInv => FailsForAReason
  BY Zenon DEF IInv, NodeOK, ErrorOK, FailsForAReason
<1> QED
  BY <1>1, RestartInvariant, PTL
==============================================================================
