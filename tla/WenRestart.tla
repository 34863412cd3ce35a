------------------------------ MODULE WenRestart ------------------------------
(***************************************************************************)
(* Restarting a halted cluster (wen-restart/src/wen_restart.rs).  Each     *)
(* validator gossips the slots of its last voted fork, collects those of   *)
(* the others until 80% of the stake is active, repairs the blocks that    *)
(* enough stake voted for and finds the heaviest fork.  The coordinator    *)
(* announces its own; the others verify it, and all make a snapshot of it. *)
(* Progress is kept in a file: a validator that stops goes on from the     *)
(* state in its file.                                                      *)
(*                                                                         *)
(* The environment is gossip, repair, crashes and restarts.                *)
(***************************************************************************)
EXTENDS WenRestartAggregate

CONSTANTS
  None,
  Scenarios   \* how the cluster halted, and how many crashes there may be

(* A validator has replayed the fork it voted for, and its root is on it. *)
ASSUME ScenarioAssumption ==
  \A c \in Scenarios :
    /\ c.coordinator \in Node /\ c.gone \subseteq Node
    /\ c.voted \in [Node -> Slot] /\ c.root \in [Node -> Slot]
    /\ c.blocks \in [Node -> [Slot -> {"main", "other", None}]]
    /\ \A n \in Node : /\ c.root[n] \in Fork[c.voted[n]]
                       /\ \A s \in Fork[c.voted[n]] : c.blocks[n][s] # None

VARIABLES
  scenario,
  crashes,
  status,     \* of the process: down, running, failed (an error), finished
  error,      \* why it failed last
  mem,        \* WenRestartProgressInternalState, with the arm's locals
  file,       \* WenRestartProgress as last written
  blocks,     \* the version of each full block in the blockstore
  archive,    \* the slot of the highest snapshot archive
  gossip,     \* the restart messages that the cluster's gossip has
  announced,  \* history: the forks the coordinator has pushed
  resumed     \* history: who started again from state GenerateSnapshot

disk == <<file, blocks, archive>>
history == <<announced, resumed>>
vars == <<scenario, crashes, status, error, mem, disk, gossip, history>>

(* Some validators do not take part, and some were gone after their first  *)
(* message.                                                                *)
Online == Node \ (scenario.offline \cup scenario.gone)
Coordinator == scenario.coordinator
Voted(n) == scenario.voted[n]
Root(n) == scenario.root[n]

-----------------------------------------------------------------------------
(* Blocks, banks and forks. *)
Full(n, s) == blocks[n][s] # None

(* The hash of a bank commits to the versions of all blocks of its fork.   *)
HashAt(n, s) == {x \in Fork[s] : blocks[n][x] = "other"}
ForkAt(n, s) == [slot |-> s, hash |-> HashAt(n, s)]

(* At the start of the process everything connected to the root is         *)
(* replayed into BankForks.                                                *)
FrozenAtStart(n) ==
  {s \in Slot : /\ Root(n) \in Fork[s]
                /\ \A x \in ToSlots(s, Root(n)) : Full(n, x)}

(* What AncestorIterator reaches from s: past a block that is not full the *)
(* parent is not known.                                                    *)
Reached(n, s) ==
  {x \in Fork[s] : \A y \in Fork[s] : y > x => Full(n, y)}

-----------------------------------------------------------------------------
(* What the file may hold, and what the process makes of nothing. *)
HeaviestForkRecord == [slot : Slot, hash : SUBSET Slot]
HeaviestForkMessage == [slot : Slot, hash : SUBSET Slot, wallclock : Nat]
AggregateFinal ==
  [stakes : UNION {[S -> Nat] : S \in SUBSET Slot}, active : [Epoch -> Nat]]
WenRestartProgress ==
  [state : {"Init", "LastVotedForkSlots", "HeaviestFork", "GenerateSnapshot",
            "Done"},
   sent : BOOLEAN, received : SUBSET Node, final : AggregateFinal \cup {None},
   my_heaviest_fork : HeaviestForkRecord \cup {None},
   coordinator_heaviest_fork : HeaviestForkRecord \cup {None},
   forks : [Node -> HeaviestForkMessage \cup {None}],
   total_active_stake : Nat, conflict_message : SUBSET Node,
   my_snapshot : HeaviestForkRecord \cup {None}]

ASSUME NoneAssumption ==
  /\ None \notin HeaviestForkRecord /\ None \notin AggregateFinal
  /\ None \notin WenRestartProgress
  /\ None \notin {"MalformedProgress", "BankNotFound", "Panic", "BlockNotFound",
                  "BlockNotLinkedToExpectedParent"}

(* The file, and the state in memory.  `ready` says that the arm of the    *)
(* state is over and its result waits to be written.                       *)
NewProgress ==
  [state |-> "Init", sent |-> FALSE, received |-> {}, final |-> None,
   my_heaviest_fork |-> None, coordinator_heaviest_fork |-> None,
   forks |-> [n \in Node |-> None], total_active_stake |-> 0,
   conflict_message |-> {}, my_snapshot |-> None]

NoMemory ==
  [pc |-> "None", ready |-> FALSE, agg |-> None, repair |-> {}, fork |-> None,
   theirs |-> None, snapshot |-> None, frozen |-> {}]

At(n, pc) == status[n] = "running" /\ mem[n].pc = pc /\ ~mem[n].ready

(* aggregate_restart_last_voted_fork_slots begins with what the file has.  *)
(* A record without slots (the vote is older than my root) is refused.     *)
AggregateFromRecords(n, received) ==
  Aggregate(NewAggregate(n, scenario.voted, Root(n)), n,
            {m \in received : ToSlots(Voted(m), Root(n)) # {}},
            scenario.voted, Root(n))

(* initialize: the state that the file leads to, NoMemory if the file is   *)
(* malformed.                                                              *)
InitialState(n, p) ==
  LET New(pc) == [NoMemory EXCEPT !.pc = pc, !.frozen = FrozenAtStart(n)] IN
  CASE p.state = "Init" -> New("Init")
    [] p.state = "LastVotedForkSlots" /\ p.sent ->
         [New("LastVotedForkSlots") EXCEPT
            !.agg = AggregateFromRecords(n, p.received)]
    [] p.state = "HeaviestFork" /\ p.final # None ->
         [New("FindHeaviestFork") EXCEPT !.fork = p.my_heaviest_fork]
    [] p.state = "GenerateSnapshot" /\ p.my_heaviest_fork # None ->
         [New("GenerateSnapshot") EXCEPT !.fork = p.my_heaviest_fork,
                                         !.snapshot = p.my_snapshot]
    [] p.state = "Done" /\ p.my_snapshot # None ->
         [New("Done") EXCEPT !.snapshot = p.my_snapshot]
    [] OTHER -> NoMemory

(* A process starts; without a file it writes one. *)
Start(n) ==
  /\ n \in Online /\ status[n] = "down"
  /\ LET p == IF file[n] = None THEN NewProgress ELSE file[n]
         state == InitialState(n, p)
     IN /\ file' = [file EXCEPT ![n] = p]
        /\ mem' = [mem EXCEPT ![n] = state]
        /\ status' = [status EXCEPT
             ![n] = IF state = NoMemory THEN "failed" ELSE "running"]
        /\ error' = [error EXCEPT
             ![n] = IF state = NoMemory THEN "MalformedProgress" ELSE None]
        /\ resumed' = IF p.state = "GenerateSnapshot"
                      THEN resumed \cup {n} ELSE resumed
  /\ UNCHANGED <<scenario, crashes, blocks, archive, gossip, announced>>

(* An arm of wait_for_wen_restart returns an error, or panics, and the     *)
(* process exits.                                                          *)
Fail(n, e) ==
  /\ status' = [status EXCEPT ![n] = "failed"]
  /\ error' = [error EXCEPT ![n] = e]
  /\ UNCHANGED <<scenario, crashes, mem, disk, history>>

Go(n, pc) == [mem[n] EXCEPT !.pc = pc, !.ready = FALSE]

-----------------------------------------------------------------------------
(* Init: gossip my last voted fork. *)
SendLastVotedForkSlots(n) ==
  /\ At(n, "Init")
  /\ gossip' = [gossip EXCEPT !.slots = @ \cup {n}]
  /\ mem' = [mem EXCEPT ![n].ready = TRUE]
  /\ UNCHANGED <<scenario, crashes, status, error, disk, history>>

(* One iteration of aggregate_restart_last_voted_fork_slots: some of the   *)
(* messages in gossip have come, perhaps again, and the new ones are       *)
(* recorded; the slots to repair are listed anew.                          *)
AggregateLastVotedForkSlots(n) ==
  /\ At(n, "LastVotedForkSlots")
  /\ \E delivered \in SUBSET gossip.slots :
       LET agg == Aggregate(mem[n].agg, n, delivered, scenario.voted, Root(n))
           filtered == {s \in agg.repair : s > Root(n) /\ ~Full(n, s)}
       IN /\ file' = [file EXCEPT ![n].received = @ \cup agg.from]
          /\ mem' = [mem EXCEPT
                       ![n].agg = agg, ![n].repair = filtered,
                       ![n].ready = filtered = {} /\ SupermajorityActive(agg)]
  /\ UNCHANGED <<scenario, crashes, status, error, blocks, archive, gossip,
                 history>>

(* find_heaviest_fork, unless the file had it. *)
FindHeaviestFork(n) ==
  /\ At(n, "FindHeaviestFork")
  /\ LET final == file[n].final
         slots == SlotsOverThreshold(final, Root(n))
         parent == [s \in slots |-> Max({Root(n)} \cup {x \in slots : x < s})]
         bad == {s \in slots : ~Full(n, s) \/ Parent(s) # parent[s]}
         Found(fork) ==
           /\ file' = [file EXCEPT ![n].my_heaviest_fork = fork]
           /\ mem' = [mem EXCEPT ![n] = [Go(n, "HeaviestFork") EXCEPT
                        !.fork = fork, !.frozen = @ \cup slots]]
           /\ UNCHANGED <<scenario, crashes, status, error, blocks, archive,
                          history>>
     IN IF mem[n].fork # None THEN Found(mem[n].fork)
        ELSE IF ~ThresholdExists(final, Root(n)) THEN Fail(n, "Panic")
        ELSE IF bad # {}
        THEN Fail(n, IF Full(n, Min(bad)) THEN "BlockNotLinkedToExpectedParent"
                                          ELSE "BlockNotFound")
        ELSE Found(ForkAt(n, Max({Root(n)} \cup slots)))
  /\ UNCHANGED gossip

-----------------------------------------------------------------------------
(* HeaviestFork.  A message is newer after a restart, and replaces the     *)
(* sender's old one.                                                       *)
Message(fork) == [slot |-> fork.slot, hash |-> fork.hash, wallclock |-> crashes]
ForkOf(message) == [slot |-> message.slot, hash |-> message.hash]
PushHeaviestFork(n, fork) ==
  gossip' = [gossip EXCEPT !.fork[n] = Message(fork)]

(* The coordinator announces what it has found. *)
AnnounceHeaviestFork(n) ==
  /\ At(n, "HeaviestFork") /\ n = Coordinator
  /\ PushHeaviestFork(n, mem[n].fork)
  /\ announced' = announced \cup {mem[n].fork}
  /\ mem' = [mem EXCEPT ![n].ready = TRUE]
  /\ UNCHANGED <<scenario, crashes, status, error, disk, resumed>>

(* receive_restart_heaviest_fork *)
ReceiveHeaviestFork(n) ==
  /\ At(n, "HeaviestFork") /\ n # Coordinator
  /\ gossip.fork[Coordinator] # None
  /\ mem' = [mem EXCEPT ![n].theirs = ForkOf(gossip.fork[Coordinator]),
                        ![n].pc = "Verify"]
  /\ UNCHANGED <<scenario, crashes, status, error, disk, gossip, history>>

(* repair_heaviest_fork: the blocks above mine, the newest first. *)
ToRepair(n) ==
  LET slot == mem[n].theirs.slot IN
  IF ~Full(n, slot) THEN {slot}
  ELSE {s \in Reached(n, slot) : s > mem[n].fork.slot /\ ~Full(n, s)}

RepairHeaviestFork(n) ==
  /\ At(n, "Verify") /\ ToRepair(n) \notin {{}, mem[n].repair}
  /\ mem' = [mem EXCEPT ![n].repair = ToRepair(n)]
  /\ UNCHANGED <<scenario, crashes, status, error, disk, gossip, history>>

(* verify_coordinator_heaviest_fork: the root and my fork are on the       *)
(* announced one, or that is part of mine.                                 *)
OnOneFork(n, slot) ==
  LET ancestors == ToSlots(slot, Root(n)) \cap Reached(n, slot)
      mine == mem[n].fork.slot
  IN /\ Root(n) \in ancestors
     /\ slot > mine => mine \in ancestors
     /\ slot < mine => slot \in Fork[mine]

(* A mutant of SameHash: no comparison. *)
AnyHash(n, theirs) == TRUE

SameHash(n, theirs) == HashAt(n, theirs.slot) = theirs.hash

(* Once all is repaired.  Whoever disagrees pushes its own fork and exits. *)
VerifyHeaviestFork(n) ==
  /\ At(n, "Verify") /\ ToRepair(n) = {}
  /\ LET theirs == mem[n].theirs
         Disagree(e) == PushHeaviestFork(n, mem[n].fork) /\ Fail(n, e)
     IN IF ~OnOneFork(n, theirs.slot)
        THEN Disagree("HeaviestForkOnLeaderOnDifferentFork")
        ELSE IF ~SameHash(n, theirs)
        THEN Disagree("BankHashMismatch")
        ELSE /\ PushHeaviestFork(n, theirs)
             /\ mem' = [mem EXCEPT
                          ![n].pc = "HeaviestFork", ![n].ready = TRUE,
                          ![n].fork = theirs,
                          ![n].frozen = @ \cup ToSlots(theirs.slot, Root(n))]
             /\ UNCHANGED <<scenario, crashes, status, error, disk, history>>

(* GenerateSnapshot.  The snapshot must be newer than the archives, if the *)
(* validator makes any.                                                    *)
GenerateSnapshot(n) ==
  /\ At(n, "GenerateSnapshot")
  /\ LET slot == mem[n].fork.slot
         Ready(snapshot) ==
           /\ mem' = [mem EXCEPT ![n].snapshot = snapshot, ![n].ready = TRUE]
           /\ archive' = [archive EXCEPT ![n] = Max({@, snapshot.slot})]
           /\ UNCHANGED <<scenario, crashes, status, error, file, blocks,
                          history>>
     IN IF mem[n].snapshot # None THEN Ready(mem[n].snapshot)
        ELSE IF slot \notin mem[n].frozen THEN Fail(n, "BankNotFound")
        ELSE IF scenario.snapshots /\ archive[n] >= slot
        THEN Fail(n, "SnapshotExists")
        ELSE Ready(ForkAt(n, slot))
  /\ UNCHANGED gossip

-----------------------------------------------------------------------------
(* increment_and_write_wen_restart_records: an arm is over, and its result *)
(* is written.                                                             *)
NextProgress(n) ==
  CASE mem[n].pc = "Init" ->
         [file[n] EXCEPT !.state = "LastVotedForkSlots", !.sent = TRUE]
    [] mem[n].pc = "LastVotedForkSlots" ->
         [file[n] EXCEPT
            !.state = "HeaviestFork",
            !.final = [stakes |-> mem[n].agg.stakes, active |-> mem[n].agg.active]]
    [] mem[n].pc = "HeaviestFork" ->
         [file[n] EXCEPT !.state = "GenerateSnapshot",
                         !.coordinator_heaviest_fork = mem[n].theirs]
    [] mem[n].pc = "GenerateSnapshot" ->
         [file[n] EXCEPT !.state = "Done", !.my_snapshot = mem[n].snapshot]

NextState(n) ==
  CASE mem[n].pc = "Init" ->
         [Go(n, "LastVotedForkSlots") EXCEPT
            !.agg = AggregateFromRecords(n, file[n].received)]
    [] mem[n].pc = "LastVotedForkSlots" ->
         [Go(n, "FindHeaviestFork") EXCEPT !.agg = None]
    [] mem[n].pc = "HeaviestFork" -> Go(n, "GenerateSnapshot")
    [] mem[n].pc = "GenerateSnapshot" -> Go(n, "Done")

IncrementAndWrite(n) ==
  /\ status[n] = "running" /\ mem[n].ready
  /\ file' = [file EXCEPT ![n] = NextProgress(n)]
  /\ mem' = [mem EXCEPT ![n] = NextState(n)]
  /\ UNCHANGED <<scenario, crashes, status, error, blocks, archive, gossip,
                 history>>

-----------------------------------------------------------------------------
(* Done.  A follower exits; the operator restarts it outside the protocol. *)
Finish(n) ==
  /\ At(n, "Done") /\ n # Coordinator
  /\ status' = [status EXCEPT ![n] = "finished"]
  /\ UNCHANGED <<scenario, crashes, error, mem, disk, gossip, history>>

(* HeaviestForkAggregate::aggregate, for a message of another validator. *)
IsValidChange(old, new) == ForkOf(old) = ForkOf(new)
TakesFork(old, new) ==
  IF old = None THEN TRUE
  ELSE IsValidChange(old, new) /\ old.wallclock < new.wallclock

(* One iteration of aggregate_restart_heaviest_fork, on the coordinator.   *)
(* Its aggregate is what its records have.                                 *)
AggregateHeaviestFork(n) ==
  /\ At(n, "Done") /\ n = Coordinator
  /\ \E pushed \in SUBSET {m \in Node \ {n} : gossip.fork[m] # None} :
       LET p == file[n]
           new == gossip.fork
           taken == {m \in pushed : TakesFork(p.forks[m], new[m])}
           refused == {m \in pushed \ taken : ~IsValidChange(p.forks[m], new[m])}
           forks == [m \in Node |-> IF m \in taken THEN new[m] ELSE p.forks[m]]
           active == {n} \cup {m \in Node : forks[m] # None}
       IN file' = [file EXCEPT ![n] = [p EXCEPT
                     !.forks = forks, !.conflict_message = @ \cup refused,
                     !.total_active_stake =
                        StakeOf(EpochOf(p.my_heaviest_fork.slot), active)]]
  /\ UNCHANGED <<scenario, crashes, status, error, mem, blocks, archive,
                 gossip, history>>

-----------------------------------------------------------------------------
(* Repair: a block on the list comes, in the version of whoever serves it. *)
Repair(n, s) ==
  /\ status[n] = "running" /\ s \in mem[n].repair /\ ~Full(n, s)
  /\ \E p \in Node :
       /\ status[p] = "running" /\ Full(p, s)
       /\ blocks' = [blocks EXCEPT ![n][s] = blocks[p][s]]
  /\ UNCHANGED <<scenario, crashes, status, error, mem, file, archive, gossip,
                 history>>

(* The process dies, or the operator gives an exited one another try.      *)
(* Gossip may lose what only this process had.  If it dies in the middle   *)
(* of write_wen_restart_records the file is empty, which reads as Init.    *)
Writing(n) ==
  /\ status[n] = "running"
  /\ \/ mem[n].ready
     \/ mem[n].pc \in {"LastVotedForkSlots", "FindHeaviestFork"}
     \/ mem[n].pc = "Done" /\ n = Coordinator

Crash(n) ==
  /\ crashes < scenario.crashes /\ status[n] \in {"running", "failed"}
  /\ crashes' = crashes + 1
  /\ status' = [status EXCEPT ![n] = "down"]
  /\ mem' = [mem EXCEPT ![n] = NoMemory]
  /\ \/ UNCHANGED gossip
     \/ gossip' = [slots |-> gossip.slots \ {n},
                   fork |-> [gossip.fork EXCEPT ![n] = None]]
  /\ \/ UNCHANGED file
     \/ /\ scenario.torn /\ Writing(n)
        /\ file' = [file EXCEPT ![n] = NewProgress]
  /\ UNCHANGED <<scenario, error, blocks, archive, history>>

-----------------------------------------------------------------------------
Init ==
  /\ scenario \in Scenarios
  /\ crashes = 0
  /\ status = [n \in Node |-> "down"]
  /\ error = [n \in Node |-> None]
  /\ mem = [n \in Node |-> NoMemory]
  /\ file = [n \in Node |-> None]
  /\ blocks = scenario.blocks
  /\ archive = scenario.root
  /\ gossip = [slots |-> scenario.gone, fork |-> [n \in Node |-> None]]
  /\ announced = {}
  /\ resumed = {}

Steps ==
  \/ \E n \in Node :
       \/ Start(n) \/ SendLastVotedForkSlots(n)
       \/ AggregateLastVotedForkSlots(n) \/ FindHeaviestFork(n)
       \/ AnnounceHeaviestFork(n) \/ ReceiveHeaviestFork(n)
       \/ RepairHeaviestFork(n) \/ VerifyHeaviestFork(n)
       \/ GenerateSnapshot(n) \/ IncrementAndWrite(n)
       \/ Finish(n) \/ AggregateHeaviestFork(n)
  \/ \E n \in Node, s \in Slot : Repair(n, s)

Next == Steps \/ \E n \in Node : Crash(n)

Spec == Init /\ [][Next]_vars
FairSpec == Spec /\ WF_vars(Steps)

-----------------------------------------------------------------------------
(* Properties *)
SnapshotOf(n) == IF file[n] = None THEN None ELSE file[n].my_snapshot
HeaviestForkOf(n) == IF file[n] = None THEN None ELSE file[n].my_heaviest_fork

(* "Given the agreed upon slot, ... generate new snapshot": whoever is     *)
(* done has a snapshot of a fork the coordinator announced, and unless the *)
(* coordinator's file was lost there is only one.  Excepted are validators *)
(* that went on from state GenerateSnapshot, see SnapshotsAgree.           *)
SnapshotsAnnounced ==
  /\ \A n \in Node \ resumed : SnapshotOf(n) \in announced \cup {None}
  /\ ~scenario.torn => Cardinality(announced) <= 1

(* The same without the exception. *)
SnapshotsAgree == \A n \in Node : SnapshotOf(n) \in announced \cup {None}

(* "When counting Heaviest Fork, only count those with no less than 67% -  *)
(* 5% - (100% - active_stake)": a block that 62% of the stake has on its   *)
(* last voted fork is on every heaviest fork found, whoever was active, as *)
(* long as more than 38% of the stake of its epoch was.                    *)
KeepsConfirmed ==
  \A n \in Node, s \in Slot :
    /\ HeaviestForkOf(n) # None /\ s >= Root(n)
    /\ 100 * file[n].final.active[EpochOf(s)] > 38 * TotalStake(EpochOf(s))
    /\ 100 * StakeOf(EpochOf(s), {m \in Node : s \in Fork[Voted(m)]})
         >= 62 * TotalStake(EpochOf(s))
    => s \in Fork[HeaviestForkOf(n).slot]

(* However often a message is delivered or read back from the file, its    *)
(* sender's stake counts once, for each slot and for the active stake.     *)
StakesCountedOnce ==
  \A n \in Node : LET agg == mem[n].agg IN agg # None =>
    LET heard == agg.from \cup {n} IN
    /\ \A e \in Epoch : agg.active[e] = StakeOf(e, heard)
    /\ \A s \in DOMAIN agg.stakes : agg.stakes[s] =
         StakeOf(EpochOf(s), {m \in heard : s \in ToSlots(Voted(m), Root(n))})

(* The vote of m may keep the blocks that count for n from forming a       *)
(* chain.                                                                  *)
MayBreakChain(n, m) ==
  LET e == EpochOf(Voted(m)) IN
  /\ Voted(m) > Root(n)
  /\ \/ Root(n) \notin Fork[Voted(m)]
     \/ e # EpochOf(Root(n)) /\ Stake[0] # Stake[1]
     \/ 100 * file[n].final.active[e] < 80 * TotalStake(e)

(* A validator is never stopped by its own file, nor by a bank that it     *)
(* should have: "my_heaviest_fork_slot is guaranteed to have a bank in     *)
(* bank_forks".  A block that counts for the heaviest fork has been        *)
(* repaired, wherever 80% of the stake of its epoch is active; and all     *)
(* such blocks "form a single chain from the root", unless somebody voted  *)
(* on a fork that leaves the root out, in another epoch with other stakes, *)
(* or in an epoch of which less than 80% is active.                        *)
FailsForAReason ==
  \A n \in Node :
    /\ error[n] \notin {"MalformedProgress", "BankNotFound"}
    /\ error[n] \in {"BlockNotFound", "Panic"} =>
         \E e \in Epoch : 100 * file[n].final.active[e] < 80 * TotalStake(e)
    /\ error[n] = "BlockNotLinkedToExpectedParent" =>
         \E m \in Node : MayBreakChain(n, m)

(* If no message is lost and the coordinator does not give up, everyone    *)
(* who takes part is done in the end or has given up.  (Provided that no   *)
(* block which another has yet to repair is left with a node that is done  *)
(* or has given up: such halts exist, and wait for ever.)                  *)
MessageLost ==
  \E n \in Node : file[n] # None /\
    \/ file[n].sent /\ n \notin gossip.slots
    \/ file[n].state \in {"GenerateSnapshot", "Done"} /\ gossip.fork[n] = None
EveryoneFinishes ==
  <>[](\/ MessageLost \/ status[Coordinator] = "failed"
       \/ \A n \in Online : \/ status[n] = "failed"
                            \/ file[n] # None /\ file[n].state = "Done")
==============================================================================
