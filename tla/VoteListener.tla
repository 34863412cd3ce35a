---------------------------- MODULE VoteListener -----------------------------
(***************************************************************************)
(* core/src/cluster_info_vote_listener.rs: the thread that counts the      *)
(* votes seen in gossip and in replayed blocks.  It tracks, for each       *)
(* version of a block, the stake that voted for it, tells the rest of the  *)
(* validator when a threshold is crossed (vote_stake_tracker.rs), collects *)
(* for the replay stage who voted in a slot, and hands the confirmed       *)
(* blocks to optimistic_confirmation_verifier.rs.                          *)
(* A block is identified by its bank hash, which commits to its ancestors; *)
(* two blocks of one slot are duplicates.  Votes are processed in batches, *)
(* those of gossip before those of replay, while the replay stage freezes, *)
(* dumps and roots banks.  A vote is processed in one step, because the    *)
(* listener holds the lock of the bank hash cache (BankHashCache).         *)
(***************************************************************************)
EXTENDS Stakes, FiniteSetsExt, Functions

CONSTANTS
  Block,      \* the blocks, of all versions, by their bank hashes
  SlotOf,     \* SlotOf[b]: the slot of b
  Fork,       \* Fork[b]: b and its ancestors
  Genesis,    \* the block of the snapshot the validator started from
  Scenarios   \* what is considered together, records with the fields
              \*   votes:  the votes that validators cast
              \*   replay: the blocks that may be replayed here
              \*   unpropagated: the slots whose propagation the replay stage
              \*           still checks
              \*   batch:  bound, the votes in one batch

Slot == {SlotOf[b] : b \in Block}

(* THRESHOLDS_TO_CHECK: DUPLICATE_THRESHOLD (52%) and VOTE_THRESHOLD_SIZE. *)
DuplicateStake == (52 * TotalStake) \div 100
OptimisticStake == (2 * TotalStake) \div 3

(* A vote: the block it is for and the slots of the tower, oldest to       *)
(* newest, which are slots of that block's fork.  A legacy vote is not a   *)
(* full tower.                                                             *)
IsVote(m) ==
  /\ m.voter \in Validator /\ m.block \in Block \ {Genesis}
  /\ m.full \in BOOLEAN
  /\ SlotOf[m.block] \in m.slots
  /\ m.slots \subseteq {SlotOf[b] : b \in Fork[m.block]}

ASSUME ListenerAssumption ==
  /\ SlotOf \in [Block -> Nat]
  /\ Fork \in [Block -> SUBSET Block] /\ Genesis \in Block
  /\ \A b \in Block : {b, Genesis} \subseteq Fork[b]
  /\ \A b \in Block : \A a \in Fork[b] :
       Fork[a] \subseteq Fork[b] /\ (SlotOf[a] >= SlotOf[b] => a = b)
  /\ \A c \in Scenarios : /\ \A m \in c.votes : IsVote(m)
                          /\ c.replay \subseteq Block /\ c.batch \in Nat

VARIABLES
  scenario,   \* one of Scenarios; gossip and replay bring its votes
  banks,      \* BankForks: the frozen banks
  bank_root,  \* BankForks: the root
  pruned,     \* the frozen banks that setting a root pruned
  repaired,   \* the slots of such banks whose block was cleared for repair
  root,       \* the root bank of the listener's current iteration
  slot_vote_trackers,  \* VoteTracker: a SlotVoteTracker for some slots
  latest_vote_slot,    \* latest_vote_slot_per_validator
  batch,      \* votes of this batch processed, and if replay's turn has come
  diff,       \* who voted where in this batch; TRUE if seen in gossip
  new_confirmed,  \* new_optimistic_confirmed_slots of this batch
  unchecked_slots,  \* OptimisticConfirmationVerifier
  reported,   \* history: what it reported as confirmed but not rooted
  confirmations,  \* history: notifications of each kind sent for each block
  propagated  \* history: the voters of each slot that replay was handed

bankVars == <<banks, bank_root, pruned, repaired>>
trackVars == <<slot_vote_trackers, latest_vote_slot, batch, diff,
               new_confirmed>>
history == <<reported, confirmations, propagated>>
vars == <<scenario, bankVars, root, trackVars, unchecked_slots, history>>

NewTracker ==
  [voted |-> << >>,
   optimistic |-> [b \in Block |-> [voted |-> {}, stake |-> 0]],
   voted_slot_updates |-> {}, gossip_only_stake |-> 0]

(* get_or_insert_slot_tracker for each slot of S. *)
WithTrackers(S) ==
  [s \in DOMAIN slot_vote_trackers \cup S |->
     IF s \in DOMAIN slot_vote_trackers THEN slot_vote_trackers[s]
     ELSE NewTracker]

(* The VoteStakeTracker of block b, and who it has counted. *)
OptimisticTracker(b) ==
  IF SlotOf[b] \in DOMAIN slot_vote_trackers
  THEN slot_vote_trackers[SlotOf[b]].optimistic[b]
  ELSE NewTracker.optimistic[b]
Voted(b) == OptimisticTracker(b).voted

NoBatch == [size |-> 0, replay |-> FALSE]

Init ==
  /\ scenario \in Scenarios
  /\ banks = {Genesis} /\ bank_root = Genesis /\ pruned = {}
  /\ repaired = {}
  /\ root = Genesis /\ slot_vote_trackers = << >>
  /\ latest_vote_slot = [v \in Validator |-> 0]
  /\ batch = NoBatch /\ diff = << >> /\ new_confirmed = {}
  /\ unchecked_slots = {} /\ reported = {}
  /\ confirmations = [b \in Block |-> [duplicate |-> 0, optimistic |-> 0]]
  /\ propagated = [s \in Slot |-> {}]
-----------------------------------------------------------------------------
(* The replay stage.                                                       *)

(* A bank is frozen: the only version of its slot that the blockstore has, *)
(* on top of a bank in BankForks.  A slot that was pruned can have another *)
(* version only after it was cleared.                                      *)
FreezeBank(b) ==
  /\ b \in scenario.replay
  /\ \E p \in banks : Fork[b] = Fork[p] \cup {b}
  /\ SlotOf[b] > SlotOf[bank_root]
  /\ \A x \in banks : SlotOf[x] # SlotOf[b]
  /\ \A x \in pruned : SlotOf[x] = SlotOf[b] => SlotOf[b] \in repaired
  /\ banks' = banks \cup {b}
  /\ UNCHANGED <<scenario, bank_root, pruned, repaired, root, trackVars,
                 unchecked_slots, history>>

(* ReplayStage::purge_unconfirmed_duplicate_slot of a slot that has left   *)
(* BankForks: the blockstore forgets its block, and the listener's cache   *)
(* is not told.                                                            *)
PurgePruned(s) ==
  /\ s \in {SlotOf[b] : b \in pruned} \ repaired
  /\ SlotOf[bank_root] <= s
  /\ repaired' = repaired \cup {s}
  /\ UNCHANGED <<scenario, banks, bank_root, pruned, root, trackVars,
                 unchecked_slots, history>>

(* BankForks::dump_slots of a duplicate block and its descendants. *)
DumpSlots(b) ==
  /\ b \in banks /\ SlotOf[b] > SlotOf[bank_root]
  /\ banks' = {x \in banks : b \notin Fork[x]}
  /\ UNCHANGED <<scenario, bank_root, pruned, repaired, root, trackVars,
                 unchecked_slots, history>>

(* BankForks::set_root: only the new root and its descendants stay.  The   *)
(* ancestors of the root that it may keep count as pruned: their hashes    *)
(* are, or are not, known to the listener all the same.                    *)
SetRoot(r) ==
  /\ r \in banks \ {bank_root}
  /\ bank_root' = r
  /\ banks' = {x \in banks : r \in Fork[x]}
  /\ pruned' = pruned \cup (banks \ banks')
  /\ UNCHANGED <<scenario, repaired, root, trackVars, unchecked_slots, history>>

(* update_propagation_status: take the voters of a slot that are new. *)
GetVotedSlotUpdates(s) ==
  /\ s \in scenario.unpropagated \cap DOMAIN slot_vote_trackers
  /\ slot_vote_trackers[s].voted_slot_updates # {}
  /\ propagated' = [propagated EXCEPT ![s] =
                      @ \cup slot_vote_trackers[s].voted_slot_updates]
  /\ slot_vote_trackers' =
       [slot_vote_trackers EXCEPT ![s].voted_slot_updates = {}]
  /\ UNCHANGED <<scenario, bankVars, root, latest_vote_slot, batch, diff,
                 new_confirmed, unchecked_slots, reported, confirmations>>

-----------------------------------------------------------------------------
(* The listener.                                                           *)

(* VoteStakeTracker::add_vote_pubkey. *)
AddVotePubkey(tracker, v) ==
  IF v \in tracker.voted THEN tracker
  ELSE [voted |-> tracker.voted \cup {v}, stake |-> tracker.stake + Stake[v]]

(* Mutant: a threshold counts as reached by every vote that exceeds it. *)
ReachedAgain(tracker, v, threshold) ==
  IF threshold < tracker.stake + Stake[v] THEN 1 ELSE 0

(* Its reached_threshold_results: 1 if adding v newly crosses threshold. *)
Reached(tracker, v, threshold) ==
  IF /\ v \notin tracker.voted
     /\ tracker.stake <= threshold /\ threshold < tracker.stake + Stake[v]
  THEN 1 ELSE 0

(* Mutant: any version of the block is enough. *)
AccumulateAnyVersion(m, view) ==
  m.full /\ \E b \in view : SlotOf[b] = SlotOf[m.block]

(* The other slots of a full tower are counted if the block voted on has   *)
(* been replayed, in the version voted on.                                 *)
AccumulateIntermediateVotes(m, view) == m.full /\ m.block \in view

(* The slots of a vote that are not before the root. *)
Above(m) == {s \in m.slots : s > SlotOf[root]}

(* The blocks a vote counts for: the block voted on and, if they are       *)
(* accumulated, the blocks that view, the bank hash cache, knows at the    *)
(* other slots.                                                            *)
Counted(m, view) ==
  {b \in view \cup {m.block} :
     /\ SlotOf[b] \in Above(m)
     /\ IF SlotOf[b] = SlotOf[m.block] THEN b = m.block
        ELSE AccumulateIntermediateVotes(m, view)}

(* The slots are visited from the newest to the oldest; a replayed vote    *)
(* that was counted before for one of them ends the visit there.           *)
Visited(m, gossip, counted) ==
  {s \in Above(m) :
     gossip \/ \A b \in counted : m.voter \in Voted(b) => s > SlotOf[b]}

(* The trackers after m's voter has been counted for the blocks of         *)
(* tracked.                                                                *)
Track(v, tracked) ==
  LET trackers == WithTrackers({SlotOf[b] : b \in tracked})
  IN  [s \in DOMAIN trackers |-> [trackers[s] EXCEPT !.optimistic =
         [b \in Block |-> IF b \in tracked /\ SlotOf[b] = s
                          THEN AddVotePubkey(@[b], v) ELSE @[b]]]]

(* The announcements after the same. *)
Announce(v, tracked) ==
  [b \in Block |->
     IF b \notin tracked THEN confirmations[b]
     ELSE [duplicate |-> confirmations[b].duplicate
                         + Reached(OptimisticTracker(b), v, DuplicateStake),
           optimistic |-> confirmations[b].optimistic
                          + Reached(OptimisticTracker(b), v, OptimisticStake)]]

(* The newest slot that a validator has voted on. *)
Latest(old, slot) == Max({old, slot})

(* Count the voter of m for the blocks tracked, announce the thresholds    *)
(* that reaches, and note in the diff the slots not older than the voter's *)
(* latest vote.  What is sent to RPC subscribers is left out.              *)
CountVote(m, gossip, view, visited, tracked) ==
  LET v == m.voter
      returns == visited # Above(m)
      hashless == {s \in visited : AccumulateIntermediateVotes(m, view)
                                   /\ \A b \in tracked : SlotOf[b] # s}
      entries == {s \in visited \ hashless : s >= latest_vote_slot[v]} \X {v}
  IN  /\ slot_vote_trackers' = Track(v, tracked)
      /\ confirmations' = Announce(v, tracked)
      /\ new_confirmed' = new_confirmed \cup
           {b \in tracked : confirmations'[b].optimistic
                            > confirmations[b].optimistic}
      /\ diff' = [e \in DOMAIN diff \cup entries |->
                    \/ e \in DOMAIN diff /\ diff[e]
                    \/ e \in entries /\ gossip]
      /\ latest_vote_slot' =
           IF returns THEN latest_vote_slot
           ELSE [latest_vote_slot EXCEPT ![v] = Latest(@, SlotOf[m.block])]

(* track_new_votes_and_notify_confirmations for vote m. *)
TrackNewVotes(m, gossip, view) ==
  \E counted \in {Counted(m, view)} :
  \E visited \in {Visited(m, gossip, counted)} :
  \E tracked \in {{b \in counted : SlotOf[b] \in visited}} :
    CountVote(m, gossip, view, visited, tracked)

(* What BankHashCache::hash answers, at most one block for each slot: the  *)
(* block that is cached, or else the one in BankForks.                     *)
View(cached) ==
  {b \in Block : \/ b \in cached
                 \/ b \in banks /\ \A x \in cached : SlotOf[x] # SlotOf[b]}

(* One vote of the batch that filter_and_confirm_with_new_votes processes. *)
(* The cache may still know any of the pruned banks that are not before    *)
(* the root, one for each slot.                                            *)
ProcessVote(m, gossip) ==
  /\ batch.size < scenario.batch
  /\ gossip => ~batch.replay
  /\ batch' = [size |-> batch.size + 1, replay |-> ~gossip]
  /\ \E cached \in SUBSET {b \in pruned : SlotOf[b] >= SlotOf[root]} :
       /\ \A x, y \in cached : SlotOf[x] = SlotOf[y] => x = y
       /\ TrackNewVotes(m, gossip, View(cached))
  /\ UNCHANGED <<scenario, bankVars, root, unchecked_slots, reported, propagated>>

(* A voter of the batch is new in its slot, or new from gossip. *)
IsNew(tracker, v, gossip) ==
  \/ v \notin DOMAIN tracker.voted
  \/ gossip /\ ~tracker.voted[v]

(* Mutant: voted_slot_updates starts afresh with every batch. *)
MergeOver(tracker, changes) ==
  LET new == {v \in DOMAIN changes : IsNew(tracker, v, changes[v])}
  IN  [tracker EXCEPT
         !.voted = [v \in new \cup DOMAIN @ |->
                      IF v \in new THEN changes[v] ELSE @[v]],
         !.voted_slot_updates = new,
         !.gossip_only_stake = @ + StakeOf({v \in new : changes[v]})]

(* The second half of filter_and_confirm_with_new_votes for one slot:      *)
(* changes maps the voters of the batch to whether gossip brought a vote.  *)
MergeDiff(tracker, changes) ==
  LET new == {v \in DOMAIN changes : IsNew(tracker, v, changes[v])}
  IN  [tracker EXCEPT
         !.voted = [v \in new \cup DOMAIN @ |->
                      IF v \in new THEN changes[v] ELSE @[v]],
         !.voted_slot_updates = @ \cup new,
         !.gossip_only_stake = @ + StakeOf({v \in new : changes[v]})]

(* The end of a batch: the diff is merged, and                             *)
(* add_new_optimistic_confirmed_slots takes over the confirmed blocks.     *)
EndBatch ==
  LET Slots == {e[1] : e \in DOMAIN diff}
      Changes(s) == [v \in {e[2] : e \in {x \in DOMAIN diff : x[1] = s}} |->
                       diff[<<s, v>>]]
      trackers == WithTrackers(Slots)
  IN  /\ batch.size > 0
      /\ slot_vote_trackers' =
           [s \in DOMAIN trackers |->
              IF s \in Slots THEN MergeDiff(trackers[s], Changes(s))
                             ELSE trackers[s]]
      /\ unchecked_slots' = unchecked_slots \cup
           {b \in new_confirmed : SlotOf[b] > SlotOf[Genesis]}
      /\ batch' = NoBatch /\ diff' = << >> /\ new_confirmed' = {}
      /\ UNCHANGED <<scenario, bankVars, root, latest_vote_slot, history>>

(* process_votes_loop starts an iteration with the root of BankForks. *)
ReadRoot ==
  /\ batch.size = 0
  /\ root # bank_root
  /\ root' = bank_root
  /\ UNCHANGED <<scenario, bankVars, trackVars, unchecked_slots, history>>

(* Mutant: the slot after the root is purged too. *)
PurgeBeyondRoot(new_root) ==
  Restrict(slot_vote_trackers,
           {s \in DOMAIN slot_vote_trackers : s > SlotOf[new_root] + 1})

(* VoteTracker::purge_stale_state. *)
PurgeStaleState(new_root) ==
  Restrict(slot_vote_trackers,
           {s \in DOMAIN slot_vote_trackers : s >= SlotOf[new_root]})

(* Mutant: only blocks of the slot of the root are looked at. *)
UnrootedInRootSlot(r) ==
  {b \in unchecked_slots : SlotOf[b] = SlotOf[r] /\ b # r}

(* verify_for_unrooted_optimistic_slots: a block is reported if it is of   *)
(* the root's slot and not the root, or if its slot was not rooted.        *)
UnrootedOptimisticSlots(r) ==
  {b \in unchecked_slots :
     \/ SlotOf[b] = SlotOf[r] /\ b # r
     \/ SlotOf[b] <= SlotOf[r] /\ SlotOf[b] \notin {SlotOf[a] : a \in Fork[r]}}

(* Every 400 ms the iteration also verifies what was confirmed against the *)
(* root and drops the trackers of slots before it.                         *)
ProcessRoot ==
  /\ batch.size = 0
  /\ root' = bank_root
  /\ reported' = reported \cup UnrootedOptimisticSlots(bank_root)
  /\ unchecked_slots' =
       {b \in unchecked_slots : SlotOf[b] > SlotOf[bank_root]}
  /\ slot_vote_trackers' = PurgeStaleState(bank_root)
  /\ UNCHANGED <<scenario, bankVars, latest_vote_slot, batch, diff, new_confirmed,
                 confirmations, propagated>>

Next ==
  \/ \E b \in Block : FreezeBank(b) \/ DumpSlots(b) \/ SetRoot(b)
  \/ \E s \in Slot : PurgePruned(s) \/ GetVotedSlotUpdates(s)
  \/ \E m \in scenario.votes, gossip \in BOOLEAN : ProcessVote(m, gossip)
  \/ EndBatch \/ ReadRoot \/ ProcessRoot

Spec == Init /\ [][Next]_vars

-----------------------------------------------------------------------------
(* Every variable has its type: the trackers are records over the blocks   *)
(* of the model, the counters are naturals.                                *)
Tracker ==
  [voted : UNION {[V -> BOOLEAN] : V \in SUBSET Validator},
   optimistic : [Block -> [voted : SUBSET Validator, stake : Nat]],
   voted_slot_updates : SUBSET Validator, gossip_only_stake : Nat]

TypeOK ==
  /\ scenario \in Scenarios
  /\ banks \subseteq Block /\ bank_root \in Block /\ pruned \subseteq Block
  /\ repaired \subseteq Slot /\ root \in Block
  /\ \E S \in SUBSET Slot : slot_vote_trackers \in [S -> Tracker]
  /\ latest_vote_slot \in [Validator -> Slot \cup {0}]
  /\ batch \in [size : 0..scenario.batch, replay : BOOLEAN]
  /\ \E E \in SUBSET (Slot \X Validator) : diff \in [E -> BOOLEAN]
  /\ new_confirmed \subseteq Block /\ unchecked_slots \subseteq Block
  /\ reported \subseteq Block
  /\ confirmations \in [Block -> [duplicate : Nat, optimistic : Nat]]
  /\ propagated \in [Slot -> SUBSET Validator]

(* A threshold is announced once for a block, when the stake of its        *)
(* distinct voters exceeds it, however votes repeat and whichever way they *)
(* come: dumping, re-freezing, rooting and purging never make the listener *)
(* announce a block again, or forget to.  gossip_only_stake too counts     *)
(* each voter once.                                                        *)
AnnouncedOnce ==
  /\ \A s \in DOMAIN slot_vote_trackers :
       LET t == slot_vote_trackers[s] IN
       /\ \A b \in Block :
            t.optimistic[b].stake = StakeOf(t.optimistic[b].voted)
       /\ t.gossip_only_stake = StakeOf({v \in DOMAIN t.voted : t.voted[v]})
  /\ \A b \in Block :
       /\ confirmations[b].duplicate <= 1 /\ confirmations[b].optimistic <= 1
       /\ SlotOf[b] \in DOMAIN slot_vote_trackers =>
            /\ (StakeOf(Voted(b)) > DuplicateStake)
                 <=> (confirmations[b].duplicate = 1)
            /\ (StakeOf(Voted(b)) > OptimisticStake)
                 <=> (confirmations[b].optimistic = 1)

(* A validator is counted in a slot only if a tower it voted with has the  *)
(* slot, and for a version of its block only if that tower is for it or a  *)
(* descendant, even where the listener fills in the hash from its own      *)
(* bank.  Excepted are the versions of a slot that was pruned and then     *)
(* cleared for repair: the cache is not told, and may name the other one.  *)
CountedVotesWereCast ==
  \A b \in Block : \A v \in Voted(b) :
    \E m \in scenario.votes :
      /\ m.voter = v /\ SlotOf[b] \in m.slots
      /\ b \in Fork[m.block] \/ SlotOf[b] \in repaired

(* Every voter of a slot that the listener recorded is waiting for the     *)
(* replay stage or has been handed to it: no update is lost between the    *)
(* two threads.                                                            *)
VotersReachReplay ==
  \A s \in DOMAIN slot_vote_trackers :
    DOMAIN slot_vote_trackers[s].voted \subseteq
      slot_vote_trackers[s].voted_slot_updates \cup propagated[s]

(* process_votes_loop, on unrooted_optimistic_slots: the SlotVoteTrackers  *)
(* of the blocks still to be verified have not been purged.                *)
UncheckedSlotsHaveTrackers ==
  \A b \in unchecked_slots : SlotOf[b] \in DOMAIN slot_vote_trackers

(* "Returns any optimistic slots that were not rooted": a confirmed block  *)
(* that is checked off has been reported unless its slot was rooted.  (In  *)
(* another version, if the slot is below the root that is checked.)        *)
UnrootedAreReported ==
  \A b \in Block :
    /\ confirmations[b].optimistic > 0
    /\ b \notin new_confirmed \cup unchecked_slots
    => b \in reported \/ \E a \in Fork[root] : SlotOf[a] = SlotOf[b]
==============================================================================
