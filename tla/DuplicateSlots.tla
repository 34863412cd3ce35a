--------------------------- MODULE DuplicateSlots ----------------------------
(***************************************************************************)
(* The replay stage's handling of duplicate blocks.  A leader may produce  *)
(* several versions of its slot; a node replays the version it received    *)
(* and has to end on the version the cluster confirmed.  One thread runs   *)
(* the loop of core/src/replay_stage.rs: it creates and replays banks,     *)
(* takes the messages of the window service (a duplicate was seen), of the *)
(* vote listener (a version was confirmed), of the ancestor hashes service *)
(* and of the repair service, counts the votes that landed, votes, and     *)
(* dumps the banks whose version is wrong so that the other one can be     *)
(* repaired.  core/src/repair/cluster_slot_state_verifier.rs decides what  *)
(* each event means; the fork choice (ForkChoice) excludes and readmits    *)
(* blocks accordingly.                                                     *)
(*                                                                         *)
(* The node is never leader here, so PoH never builds on a dumped block.   *)
(***************************************************************************)
EXTENDS ForkChoice

CONSTANTS
  Scenario,    \* the ledgers considered, see ScenarioAssumption
  MaxAttempts  \* bound: MAX_REPAIR_RETRY_LOOP_ATTEMPTS (10 in the code)

(* A scenario is a tree of blocks: the parent of every block but the root, *)
(* the shreds it is made of, which name the parent's slot (two blocks of a *)
(* slot with the same shreds differ by their ancestors), the blocks that fail to replay, the chain   *)
(* the cluster confirms and, for each block, the slot of the last vote of  *)
(* each voter in its vote accounts.                                        *)
ASSUME ScenarioAssumption ==
  \A t \in Scenario :
    /\ <<0, 0>> \in t.confirmed
    /\ \A k \in DOMAIN t.parent : t.parent[k][1] < k[1]
    /\ \A k \in t.confirmed \ {<<0, 0>>} : t.parent[k] \in t.confirmed
    /\ t.dead \cap t.confirmed = {}
    /\ \A k \in DOMAIN t.parent, v \in Voter : t.landed[k][v] < k[1]
    /\ \A j, k \in DOMAIN t.parent :
         j[1] = k[1] /\ t.shreds[j] = t.shreds[k] =>
           /\ t.parent[j][1] = t.parent[k][1]
           /\ t.parent[j] = t.parent[k] => j = k

VARIABLES
  tree,      \* the scenario
  shreds,    \* blockstore: the version held of each slot, 0 if none
  proofs,    \* blockstore: the slots with a duplicate proof
  bank_hashes,  \* blockstore: the bank hash of each slot that has one
  banks,     \* BankForks and the progress map: the banks, by slot
  root,      \* BankForks::root
  computed,  \* progress map: slots whose stats are computed
  confirmed_hash,  \* progress map: slots with a duplicate_confirmed_hash
  fc,        \* heaviest_subtree_fork_choice
  duplicate_slots_tracker, duplicate_confirmed_slots,
  epoch_slots_frozen_slots, duplicate_slots_to_repair,
  purge_repair_slot_counter,
  replay_votes,  \* LatestValidatorVotesForFrozenBanks, the replay side
  descendants,   \* the loop's snapshot of BankForks::descendants
  last_vote,     \* the tower's last voted block
  stage,         \* where the loop is
  duplicates, confirmations, ancestor_hashes, pruned_forks,  \* channels
  requests,      \* what was asked of the ancestor hashes service
  popular_pruned_forks_requests  \* repair service: the slots it has sent

storeVars == <<shreds, proofs, bank_hashes>>
bankVars == <<banks, root, computed, confirmed_hash>>
stateVars == <<duplicate_slots_tracker, duplicate_confirmed_slots,
               epoch_slots_frozen_slots, duplicate_slots_to_repair,
               purge_repair_slot_counter>>
channels == <<duplicates, confirmations, ancestor_hashes, pruned_forks>>
vars == <<tree, storeVars, bankVars, fc, stateVars, replay_votes,
          descendants, last_vote, stage, channels, requests,
          popular_pruned_forks_requests>>

Alive == fc.panic = "none"

Genesis == <<0, 0>>
Keys == {Genesis} \cup DOMAIN tree.parent
Slots == {k[1] : k \in Keys}
Versions(s) == {tree.shreds[k] : k \in {j \in DOMAIN tree.parent : j[1] = s}}
Fork(k) ==
  LET up[j \in Keys] == IF j = Genesis THEN {Genesis}
                        ELSE {j} \cup up[tree.parent[j]]
  IN up[k]
ClusterHash(s) == (CHOOSE k \in tree.confirmed : k[1] = s)[2]
Confirmable == {k[1] : k \in tree.confirmed}

(* A bank: its block, and whether it is being replayed, frozen or dead.    *)
BankKey(s) == <<s, banks[s].hash>>
HasBank(s) == s \in DOMAIN banks
IsFrozen(s) == HasBank(s) /\ banks[s].status = "frozen"
BankDescendants(B) ==
  [s \in DOMAIN B |-> {d \in DOMAIN B \ {s} : <<s, B[s].hash>>
                         \in Fork(<<d, B[d].hash>>)}]

Put(f, x, y) == (x :> y) @@ f
Drop(f, S) == Restrict(f, DOMAIN f \ S)

(* The bank hashes f with those of the blocks of S, one to a slot.         *)
PutAll(S, f) ==
  [s \in {k[1] : k \in S} |-> (CHOOSE k \in S : k[1] = s)[2]] @@ f

Init ==
  /\ tree \in Scenario
  /\ shreds = [s \in {k[1] : k \in DOMAIN tree.parent} |-> 0]
  /\ proofs = {} /\ bank_hashes = 0 :> 0
  /\ banks = 0 :> [hash |-> 0, status |-> "frozen"] /\ root = 0
  /\ computed = {0} /\ confirmed_hash = {0}
  /\ fc = NewForkChoice(Genesis)
  /\ duplicate_slots_tracker = {} /\ duplicate_confirmed_slots = << >>
  /\ epoch_slots_frozen_slots = << >> /\ duplicate_slots_to_repair = << >>
  /\ purge_repair_slot_counter = << >>
  /\ replay_votes = [max |-> << >>, dirty |-> << >>]
  /\ descendants = << >> /\ last_vote = NoKey /\ stage = "generate"
  /\ duplicates = {} /\ confirmations = {} /\ ancestor_hashes = {}
  /\ pruned_forks = {} /\ requests = {}
  /\ popular_pruned_forks_requests = {}

-----------------------------------------------------------------------------
(* cluster_slot_state_verifier.rs.  An update is a record with the kind of *)
(* the event, the local status of the bank and the hashes it carries.      *)

None == 0
Lookup(f, s) == IF s \in DOMAIN f THEN f[s] ELSE None

Dead == [status |-> "dead", hash |-> None]
Unprocessed == [status |-> "unprocessed", hash |-> None]
Frozen(h) == [status |-> "frozen", hash |-> h]

(* BankStatus::new, from the progress map and BankForks.                   *)
BankStatus(s) ==
  IF ~HasBank(s) THEN Unprocessed
  ELSE CASE banks[s].status = "dead" -> Dead
         [] banks[s].status = "frozen" -> Frozen(banks[s].hash)
         [] OTHER -> Unprocessed

(* get_duplicate_confirmed_hash(_from_state): what local replay confirmed  *)
(* comes before what gossip confirmed.                                     *)
GetDuplicateConfirmedHash(f, s, status) ==
  IF status.status = "frozen" /\ IsDuplicateConfirmed(f, <<s, status.hash>>)
  THEN status.hash
  ELSE Lookup(duplicate_confirmed_slots, s)

(* Mutant: the wrong version is repaired but not excluded.                 *)
CheckWithoutExclusion(h, status) ==
  CASE status.status = "unprocessed" -> << >>
    [] status.hash = h -> <<[do |-> "matches", hash |-> h]>>
    [] OTHER -> <<[do |-> "repair", hash |-> h]>>

(* Mutant: the wrong version is excluded but not repaired.                 *)
CheckWithoutRepair(h, status) ==
  CASE status.status = "unprocessed" -> << >>
    [] status.status = "dead" -> <<[do |-> "repair", hash |-> h]>>
    [] status.hash = h -> <<[do |-> "matches", hash |-> h]>>
    [] OTHER -> <<[do |-> "duplicate", hash |-> status.hash]>>

(* check_duplicate_confirmed_hash_against_bank_status.                     *)
CheckDuplicateConfirmedHash(h, status) ==
  CASE status.status = "unprocessed" -> << >>
    [] status.status = "dead" -> <<[do |-> "repair", hash |-> h]>>
    [] status.hash = h -> <<[do |-> "matches", hash |-> h]>>
    [] OTHER -> <<[do |-> "duplicate", hash |-> status.hash],
                  [do |-> "repair", hash |-> h]>>

(* check_epoch_slots_hash_against_bank_status.                             *)
CheckEpochSlotsHash(h, status, pruned) ==
  CASE status.status = "frozen" /\ status.hash = h -> << >>
    [] status.status = "frozen" /\ status.hash # h ->
         (IF pruned THEN << >>
          ELSE <<[do |-> "duplicate", hash |-> status.hash]>>)
         \o <<[do |-> "repair", hash |-> h]>>
    [] status.status = "dead" -> <<[do |-> "repair", hash |-> h]>>
    [] OTHER -> IF pruned THEN <<[do |-> "repair", hash |-> h]>>
                ELSE <<[do |-> "panic", hash |-> None]>>

(* on_dead_slot and on_frozen_slot: the confirmed hash, else the sampled   *)
(* one, else what is known of the slot.                                    *)
OnReplayed(f, s, status, otherwise) ==
  LET confirmed == GetDuplicateConfirmedHash(f, s, status)
      sampled == Lookup(epoch_slots_frozen_slots, s)
  IN CASE confirmed # None -> CheckDuplicateConfirmedHash(confirmed, status)
       [] confirmed = None /\ sampled # None ->
            CheckEpochSlotsHash(sampled, status, FALSE)
       [] OTHER -> otherwise

OnDead(f, s) == OnReplayed(f, s, Dead, <<[do |-> "ask dead", hash |-> None]>>)

(* Mutant: what was said of the slot before its replay is forgotten.       *)
OnFrozenForgetful(f, s, h) ==
  <<[do |-> "frozen", hash |-> h]>> \o OnReplayed(f, s, Frozen(h), << >>)

OnFrozen(f, s, h) ==
  <<[do |-> "frozen", hash |-> h]>>
  \o OnReplayed(f, s, Frozen(h),
                IF s \in duplicate_slots_tracker
                THEN <<[do |-> "duplicate", hash |-> h]>> ELSE << >>)

(* Mutant: nobody asks whether the version is confirmed.                   *)
OnDuplicateAlways(f, s, status) ==
  IF status.status = "frozen"
  THEN <<[do |-> "duplicate", hash |-> status.hash]>>
  ELSE << >>

OnDuplicate(f, s, status) ==
  IF status.status = "frozen" /\ GetDuplicateConfirmedHash(f, s, status) = None
  THEN <<[do |-> "duplicate", hash |-> status.hash]>>
  ELSE << >>

OnEpochSlotsFrozen(f, s, h, status, pruned) ==
  IF ~pruned /\ \/ GetDuplicateConfirmedHash(f, s, status) # None
                \/ status.status = "unprocessed"
  THEN << >>
  ELSE CheckEpochSlotsHash(h, status, pruned)

(* apply_state_changes.  The state is a record of what the changes reach:  *)
(* the fork choice, the slots to repair and their counters, the bank       *)
(* hashes and the requests.                                                *)
ApplyChange(st, s, change) ==
  LET key == <<s, change.hash>>
  IN CASE change.do = "frozen" ->
            IF ContainsBlock(st.fc, key)
            THEN [st EXCEPT !.new_hash =
                    IF IsDuplicateConfirmed(st.fc, key) THEN {} ELSE {key}]
            ELSE [st EXCEPT !.fc = Panic(@, "frozen bank not in fork choice")]
       [] change.do = "duplicate" ->
            [st EXCEPT !.fc = MarkForkInvalidCandidate(@, key)]
       [] change.do = "repair" ->
            [st EXCEPT !.to_repair = Put(@, s, change.hash)]
       [] change.do = "matches" ->
            [st EXCEPT !.fc = MarkForkValidCandidate(@, key),
                       !.bank_hashes = PutAll(
                          NewlyDuplicateConfirmed(st.fc, key), @),
                       !.new_hash = {},
                       !.to_repair = Drop(@, {s}),
                       !.counter = Drop(@, {s})]
       [] change.do = "ask dead" ->
            [st EXCEPT !.requests = @ \cup {[slot |-> s, pruned |-> FALSE]}]
       [] change.do = "ask pruned" ->
            [st EXCEPT !.requests = @ \cup {[slot |-> s, pruned |-> TRUE]}]
       [] change.do = "panic" ->
            [st EXCEPT !.fc = Panic(@, "unreplayed bank was sampled")]

ApplyStateChanges(st, s, changes) ==
  LET done == FoldLeft(LAMBDA acc, c : ApplyChange(acc, s, c),
                       [st EXCEPT !.new_hash = {}], changes)
  IN [done EXCEPT !.bank_hashes = PutAll(done.new_hash, @)]

State == [fc |-> fc, to_repair |-> duplicate_slots_to_repair,
          counter |-> purge_repair_slot_counter, bank_hashes |-> bank_hashes,
          requests |-> requests, new_hash |-> {}]

SetState(st) ==
  /\ fc' = st.fc /\ duplicate_slots_to_repair' = st.to_repair
  /\ purge_repair_slot_counter' = st.counter
  /\ bank_hashes' = st.bank_hashes /\ requests' = st.requests

(* check_slot_agrees_with_cluster for a Duplicate event: the first one for *)
(* the slot counts, also when the bank is not replayed yet.                *)
CheckDuplicate(st, s, status) ==
  IF s <= root \/ s \in duplicate_slots_tracker THEN st
  ELSE ApplyStateChanges(st, s, OnDuplicate(st.fc, s, status))

(* For a DuplicateConfirmed event: nothing to do if it is known already.   *)
CheckDuplicateConfirmed(st, s, h, status) ==
  IF s <= root \/ IsDuplicateConfirmed(st.fc, <<s, status.hash>>) THEN st
  ELSE ApplyStateChanges(st, s, CheckDuplicateConfirmedHash(h, status))

-----------------------------------------------------------------------------
(* generate_new_bank_forks, and the snapshot the loop takes after it.      *)

ParentKey(s, v, B) ==
  {k \in DOMAIN tree.parent : /\ k[1] = s /\ tree.shreds[k] = v
     /\ tree.parent[k][1] \in DOMAIN B
     /\ B[tree.parent[k][1]] = [hash |-> tree.parent[k][2],
                                status |-> "frozen"]}

GenerateNewBankForks ==
  LET new == {k \in UNION {ParentKey(s, shreds[s], banks) :
                             s \in DOMAIN shreds} :
                tree.parent[k][1] >= root /\ ~HasBank(k[1])}
      after == [s \in {k[1] : k \in new} |->
                  [hash |-> (CHOOSE k \in new : k[1] = s)[2],
                   status |-> "active"]] @@ banks
  IN /\ Alive /\ stage = "generate" /\ stage' = "replay"
     /\ banks' = after
     /\ descendants' = BankDescendants(after)
     /\ UNCHANGED <<tree, storeVars, root, computed, confirmed_hash, fc,
                    stateVars, replay_votes, last_vote, channels, requests,
                 popular_pruned_forks_requests>>

(* replay_active_banks: a bank completes.  process_replay_results freezes  *)
(* it, or mark_dead_slot marks it dead; both then tell the state machine   *)
(* of a duplicate proof that the blockstore had all along.                 *)
ReplayActiveBank(s) ==
  /\ Alive /\ stage = "replay" /\ HasBank(s) /\ banks[s].status = "active"
  /\ LET key == BankKey(s)
         dead == key \in tree.dead
         leaf == IF dead THEN State
                 ELSE [State EXCEPT !.fc =
                         AddNewLeafSlot(fc, key, tree.parent[key])]
         told == IF s <= root THEN leaf
                 ELSE ApplyStateChanges(leaf, s,
                        IF dead THEN OnDead(fc, s)
                        ELSE OnFrozen(leaf.fc, s, key[2]))
     IN /\ banks' = [banks EXCEPT ![s].status =
                       IF dead THEN "dead" ELSE "frozen"]
        /\ SetState(IF s \in proofs
                    THEN CheckDuplicate(told, s, IF dead THEN Dead
                                                 ELSE Frozen(key[2]))
                    ELSE told)
        /\ duplicate_slots_tracker' = duplicate_slots_tracker
             \cup ({s} \cap (proofs \cap {n \in Slots : n > root}))
  /\ UNCHANGED <<tree, shreds, proofs, root, computed, confirmed_hash,
                 duplicate_confirmed_slots, epoch_slots_frozen_slots,
                 replay_votes, descendants, last_vote, stage, channels,
                 popular_pruned_forks_requests>>

(* The message stages follow each other; a stage without a message does    *)
(* nothing, so the loop may pass it.                                       *)
Stages == <<"replay", "sampled", "confirmed", "pruned", "duplicate",
            "stats">>
AtOrBefore(s) ==
  /\ Alive
  /\ \E i, j \in 1..Len(Stages) :
       stage = Stages[i] /\ s = Stages[j] /\ i <= j

(* process_ancestor_hashes_duplicate_slots.                                *)
ProcessAncestorHashes(m) ==
  /\ AtOrBefore("sampled") /\ stage' = "sampled"
  /\ m \in ancestor_hashes /\ ancestor_hashes' = ancestor_hashes \ {m}
  /\ IF m.slot <= root
     THEN UNCHANGED <<fc, stateVars, bank_hashes, requests>>
     ELSE /\ epoch_slots_frozen_slots' =
               Put(epoch_slots_frozen_slots, m.slot, m.hash)
          /\ SetState(IF Lookup(epoch_slots_frozen_slots, m.slot) = m.hash
                      THEN State
                      ELSE ApplyStateChanges(State, m.slot,
                             OnEpochSlotsFrozen(fc, m.slot, m.hash,
                               BankStatus(m.slot), m.pruned)))
          /\ UNCHANGED <<duplicate_slots_tracker, duplicate_confirmed_slots>>
  /\ UNCHANGED <<tree, shreds, proofs, bankVars, replay_votes, descendants,
                 last_vote, duplicates, confirmations, pruned_forks,
                 popular_pruned_forks_requests>>

(* process_duplicate_confirmed_slots.                                      *)
ProcessDuplicateConfirmed(m) ==
  /\ AtOrBefore("confirmed") /\ stage' = "confirmed"
  /\ m \in confirmations /\ confirmations' = confirmations \ {m}
  /\ LET known == Lookup(duplicate_confirmed_slots, m.slot)
     IN IF m.slot <= root \/ known = m.hash
        THEN UNCHANGED <<fc, stateVars, bank_hashes, requests>>
        ELSE /\ duplicate_confirmed_slots' =
                  Put(duplicate_confirmed_slots, m.slot, m.hash)
             /\ SetState(
                  IF known # None
                  THEN [State EXCEPT !.fc =
                          Panic(@, "two versions confirmed")]
                  ELSE CheckDuplicateConfirmed(State, m.slot, m.hash,
                                               BankStatus(m.slot)))
             /\ UNCHANGED <<duplicate_slots_tracker,
                            epoch_slots_frozen_slots>>
  /\ UNCHANGED <<tree, shreds, proofs, bankVars, replay_votes, descendants,
                 last_vote, duplicates, ancestor_hashes, pruned_forks,
                 popular_pruned_forks_requests>>

(* process_popular_pruned_forks.                                           *)
ProcessPopularPruned(s) ==
  /\ AtOrBefore("pruned") /\ stage' = "pruned"
  /\ s \in pruned_forks /\ pruned_forks' = pruned_forks \ {s}
  /\ SetState(IF s <= root THEN State
              ELSE ApplyStateChanges(State, s,
                     <<[do |-> "ask pruned", hash |-> None]>>))
  /\ UNCHANGED <<tree, shreds, proofs, bankVars, duplicate_slots_tracker,
                 duplicate_confirmed_slots, epoch_slots_frozen_slots,
                 replay_votes, descendants, last_vote, duplicates,
                 confirmations, ancestor_hashes,
                 popular_pruned_forks_requests>>

(* process_duplicate_slots.                                                *)
ProcessDuplicateSlot(s) ==
  /\ AtOrBefore("duplicate") /\ stage' = "duplicate"
  /\ s \in duplicates /\ duplicates' = duplicates \ {s}
  /\ SetState(CheckDuplicate(State, s, BankStatus(s)))
  /\ duplicate_slots_tracker' =
       duplicate_slots_tracker \cup (IF s <= root THEN {} ELSE {s})
  /\ UNCHANGED <<tree, shreds, proofs, bankVars, duplicate_confirmed_slots,
                 epoch_slots_frozen_slots, replay_votes, descendants,
                 last_vote, confirmations, ancestor_hashes, pruned_forks,
                 popular_pruned_forks_requests>>

-----------------------------------------------------------------------------
(* compute_bank_stats.  check_add_vote keeps, for each voter, the last     *)
(* slot it was seen to vote for and the hashes of the versions of it that  *)
(* were frozen here; the dirty set is what the fork choice has not seen.   *)
(* A second version of the slot goes to the voter's dirty entry; if that   *)
(* entry was already taken, a new one starts at slot 0 (or_default).       *)

CheckAddVote(rv, v, s, h) ==
  LET new == [slot |-> s, hashes |-> {h}]
      More(e) == [e EXCEPT !.hashes = @ \cup {h}]
  IN IF h = NoSlot THEN rv
     ELSE IF v \notin DOMAIN rv.max \/ s > rv.max[v].slot
     THEN [max |-> Put(rv.max, v, new), dirty |-> Put(rv.dirty, v, new)]
     ELSE IF s = rv.max[v].slot /\ h \notin rv.max[v].hashes
     THEN [max |-> [rv.max EXCEPT ![v] = More(@)],
           dirty |-> IF v \in DOMAIN rv.dirty
                     THEN [rv.dirty EXCEPT ![v] = More(@)]
                     ELSE Put(rv.dirty, v, [slot |-> 0, hashes |-> {h}])]
     ELSE rv

(* take_votes_dirty_set.                                                   *)
TakeVotesDirtySet(rv, from) ==
  UNION {{<<v, <<rv.dirty[v].slot, h>> >> : h \in rv.dirty[v].hashes} :
           v \in {u \in DOMAIN rv.dirty : rv.dirty[u].slot >= from}}

(* collect_vote_lockouts reads the last vote of every vote account of the  *)
(* bank; the fork choice then takes the dirty set.                         *)
ComputeStats(acc, s) ==
  LET landed == tree.landed[BankKey(s)]
      FrozenHash(t) == IF IsFrozen(t) THEN banks[t].hash ELSE NoSlot
      voters == {v \in Voter : landed[v] # NoSlot}
      rv == FoldSet(LAMBDA v, r : CheckAddVote(r, v, landed[v],
                                               FrozenHash(landed[v])),
                    acc.rv, voters)
  IN [acc EXCEPT
        !.fc = AddVotes(@, TakeVotesDirtySet(rv, acc.fc.tree_root[1])),
        !.rv = [rv EXCEPT !.dirty = << >>]]

(* tower_duplicate_confirmed_forks: the frozen slots that more than 52% of *)
(* the stake voted for, or for a descendant of, according to bank b.       *)
DuplicateConfirmedForks(b, done) ==
  {s \in DOMAIN banks \ done :
     /\ IsFrozen(s) /\ BankKey(s) \in Fork(BankKey(b))
     /\ LET voters == {v \in Voter : tree.landed[BankKey(b)][v] >= s}
        IN 100 * StakeSum(voters) > 52 * StakeSum(Voter)}

(* mark_slots_duplicate_confirmed for one slot.                            *)
MarkSlotDuplicateConfirmed(acc, s) ==
  LET h == banks[s].hash
      known == Lookup(acc.dcs, s)
  IN IF s <= root THEN acc
     ELSE [acc EXCEPT
             !.done = @ \cup {s},
             !.dcs = Put(@, s, h),
             !.st = IF known = None
                    THEN CheckDuplicateConfirmed(@, s, h, Frozen(h))
                    ELSE IF known # h
                    THEN [@ EXCEPT !.fc = Panic(@, "two versions confirmed")]
                    ELSE @]

Ascending(S) == SetToSortSeq(S, <)

ComputeBankStats ==
  LET new == Ascending({s \in DOMAIN banks : s >= root /\ IsFrozen(s)
                                              /\ s \notin computed})
      stats == FoldLeft(ComputeStats, [fc |-> fc, rv |-> replay_votes], new)
      Mark(acc, b) ==
        FoldLeft(MarkSlotDuplicateConfirmed, acc,
                 Ascending(DuplicateConfirmedForks(b, acc.done)))
      marked == FoldLeft(Mark, [st |-> [State EXCEPT !.fc = stats.fc],
                                dcs |-> duplicate_confirmed_slots,
                                done |-> confirmed_hash], new)
  IN /\ AtOrBefore("stats") /\ stage' = "vote"
     /\ computed' = computed \cup Range(new)
     /\ replay_votes' = stats.rv
     /\ SetState(marked.st)
     /\ duplicate_confirmed_slots' = marked.dcs
     /\ confirmed_hash' = marked.done
     /\ UNCHANGED <<tree, shreds, proofs, banks, root,
                    duplicate_slots_tracker, epoch_slots_frozen_slots,
                    descendants, last_vote, channels,
                 popular_pruned_forks_requests>>

-----------------------------------------------------------------------------
(* select_forks needs the bank of the best block, and the last vote in the *)
(* fork choice.  Which of the two heaviest banks gets the vote, and which  *)
(* confirmed block of its fork it roots, is up to the tower (Tower).       *)

BankOf(key) == IsFrozen(key[1]) /\ banks[key[1]].hash = key[2]

SelectForksPanics ==
  \/ ~BankOf(BestOverallSlot(fc))
  \/ last_vote # NoKey /\ ~ContainsBlock(fc, last_vote)

Votable ==
  {k \in {BestOverallSlot(fc)} \cup
         (IF ~ContainsBlock(fc, last_vote) THEN {}
          ELSE {HeaviestSlotOnSameVotedFork(fc, last_vote)}) :
     BankOf(k) /\ k[1] > last_vote[1]}

NoVote ==
  /\ Alive /\ stage = "vote" /\ stage' = "dump"
  /\ fc' = IF SelectForksPanics THEN Panic(fc, "no bank to select") ELSE fc
  /\ UNCHANGED <<tree, storeVars, bankVars, stateVars, replay_votes,
                 descendants, last_vote, channels, requests,
                 popular_pruned_forks_requests>>

From(f, s) == Restrict(f, {t \in DOMAIN f : t >= s})

(* handle_votable_bank; handle_new_root when the vote roots a block.       *)
Vote(k, r) ==
  /\ Alive /\ stage = "vote" /\ ~SelectForksPanics /\ stage' = "dump"
  /\ k \in Votable /\ last_vote' = k
  /\ r \in Fork(k) /\ r[1] >= root /\ BankOf(r)
  /\ IsDuplicateConfirmed(fc, r)
  /\ IF r[1] = root
     THEN UNCHANGED <<bankVars, fc, stateVars>>
     ELSE LET kept == {s \in DOMAIN banks : r \in Fork(BankKey(s))}
          IN /\ root' = r[1]
             /\ banks' = Restrict(banks, kept)
             /\ computed' = computed \cap kept
             /\ confirmed_hash' = confirmed_hash \cap kept
             /\ fc' = SetTreeRoot(fc, r)
             /\ duplicate_slots_tracker' =
                  {s \in duplicate_slots_tracker : s >= r[1]}
             /\ duplicate_confirmed_slots' =
                  From(duplicate_confirmed_slots, r[1])
             /\ epoch_slots_frozen_slots' =
                  From(epoch_slots_frozen_slots, r[1])
             /\ UNCHANGED <<duplicate_slots_to_repair,
                            purge_repair_slot_counter>>
  /\ UNCHANGED <<tree, storeVars, replay_votes, descendants, channels,
                 requests,
                 popular_pruned_forks_requests>>

-----------------------------------------------------------------------------
(* dump_then_repair_correct_slots for one slot, on the record of what it   *)
(* reaches; D is the loop's snapshot of the descendants, which a root set  *)
(* in this iteration has not updated.                                      *)

Clear(acc, S) ==
  [acc EXCEPT !.shreds = [s \in DOMAIN @ |-> IF s \in S THEN 0 ELSE @[s]],
              !.proofs = @ \ S, !.bank_hashes = Drop(@, S)]

(* Mutant: the banks above the dumped one stay.                            *)
PurgeOnlySlot(acc, s) ==
  IF s \notin DOMAIN acc.D
  THEN IF root <= s THEN Clear(acc, {s}) ELSE acc
  ELSE [Clear(acc, {s}) EXCEPT !.banks = Drop(@, {s}),
                               !.D = Drop(@, {s}), !.gone = @ \cup {s}]

(* purge_unconfirmed_duplicate_slot.                                       *)
PurgeUnconfirmedDuplicateSlot(acc, s) ==
  LET below == acc.D[s]
      purged == below \cup {s}
  IN IF s \notin DOMAIN acc.D
     THEN IF root <= s THEN Clear(acc, {s}) ELSE acc
     ELSE IF ~(purged \subseteq DOMAIN acc.banks)
     THEN [acc EXCEPT !.fc = Panic(@, "dumped bank already purged")]
     ELSE [Clear(acc, {s} \cup (below \cap DOMAIN acc.bank_hashes)) EXCEPT
             !.banks = Drop(@, purged),
             !.D = [t \in DOMAIN @ \ purged |-> @[t] \ purged],
             !.gone = @ \cup purged]

DumpSlot(acc, s) ==
  LET done == [acc EXCEPT !.to_repair = Drop(@, {s})]
      bank == acc.banks[s]
      attempt == Lookup(acc.counter, s) + 1
  IN IF acc.fc.panic # "none" THEN acc
     ELSE IF /\ s \in DOMAIN acc.banks
             /\ \/ bank.status = "active"
                \/ bank.status = "frozen" /\ bank.hash = acc.to_repair[s]
     THEN done
     ELSE IF attempt > MaxAttempts
     THEN [acc EXCEPT !.fc = Panic(@, "repair attempts exhausted")]
     ELSE PurgeUnconfirmedDuplicateSlot(
            [done EXCEPT !.counter = Put(@, s, attempt),
                         !.dumped = @ \cup {s}], s)

(* A block of the blockstore that does not descend from the root.          *)
IsPruned(s) ==
  /\ s \in DOMAIN shreds /\ shreds[s] # 0 /\ s > root
  /\ \A k \in DOMAIN tree.parent :
       k[1] = s /\ tree.shreds[k] = shreds[s] => BankKey(root) \notin Fork(k)

DumpThenRepairCorrectSlots(order) ==
  /\ Alive /\ stage = "dump" /\ stage' = "generate"
  /\ order \in SetToSeqs(DOMAIN duplicate_slots_to_repair)
  /\ LET all == FoldLeft(DumpSlot,
           [fc |-> fc, banks |-> banks, D |-> descendants, gone |-> {},
            to_repair |-> duplicate_slots_to_repair,
            counter |-> purge_repair_slot_counter, shreds |-> shreds,
            proofs |-> proofs, bank_hashes |-> bank_hashes,
            dumped |-> {}], order)
     IN /\ fc' = all.fc /\ banks' = all.banks /\ shreds' = all.shreds
        /\ proofs' = all.proofs /\ bank_hashes' = all.bank_hashes
        /\ duplicate_slots_to_repair' = all.to_repair
        /\ purge_repair_slot_counter' = all.counter
        /\ computed' = computed \ all.gone
        /\ confirmed_hash' = confirmed_hash \ all.gone
        /\ popular_pruned_forks_requests' =
             {s \in popular_pruned_forks_requests \ all.dumped : IsPruned(s)}
  /\ descendants' = << >>
  /\ UNCHANGED <<tree, root, duplicate_slots_tracker,
                 duplicate_confirmed_slots, epoch_slots_frozen_slots,
                 replay_votes, last_vote, channels, requests>>

-----------------------------------------------------------------------------
(* The other threads.  Turbine or repair brings a version of a slot; which *)
(* one is not the node's choice, also after a dump.                        *)

InsertShreds(s, v) ==
  /\ Alive /\ shreds[s] = 0 /\ v \in Versions(s)
  /\ shreds' = [shreds EXCEPT ![s] = v]
  /\ UNCHANGED <<tree, proofs, bank_hashes, bankVars, fc, stateVars,
                 replay_votes, descendants, last_vote, stage, channels,
                 requests,
                 popular_pruned_forks_requests>>

(* The window service stores a proof and sends the slot, unless the        *)
(* blockstore has one; so does the handler of the proofs that gossip       *)
(* brings, perhaps before any shred of the slot is there.                  *)
DetectDuplicate(s) ==
  /\ Alive /\ Cardinality(Versions(s)) > 1 /\ s \notin proofs
  /\ proofs' = proofs \cup {s} /\ duplicates' = duplicates \cup {s}
  /\ UNCHANGED <<tree, shreds, bank_hashes, bankVars, fc, stateVars,
                 replay_votes, descendants, last_vote, stage, confirmations,
                 ancestor_hashes, pruned_forks, requests,
                 popular_pruned_forks_requests>>

(* The vote listener counted 52% of the stake for a version of the slot.   *)
ConfirmSlot(s) ==
  LET m == [slot |-> s, hash |-> ClusterHash(s)]
  IN /\ Alive /\ s \in Confirmable \ {0} /\ m \notin confirmations
     /\ Lookup(duplicate_confirmed_slots, s) = None /\ s > root
     /\ confirmations' = confirmations \cup {m}
     /\ UNCHANGED <<tree, storeVars, bankVars, fc, stateVars, replay_votes,
                    descendants, last_vote, stage, duplicates,
                    ancestor_hashes, pruned_forks, requests,
                 popular_pruned_forks_requests>>

(* The repair service sees votes for a slot on a pruned fork, and sends it *)
(* once until it is dumped.                                                *)
FindPopularPruned(s) ==
  /\ Alive /\ IsPruned(s) /\ s \in Confirmable
  /\ s \notin popular_pruned_forks_requests
  /\ popular_pruned_forks_requests' = popular_pruned_forks_requests \cup {s}
  /\ pruned_forks' = pruned_forks \cup {s}
  /\ UNCHANGED <<tree, storeVars, bankVars, fc, stateVars, replay_votes,
                 descendants, last_vote, stage, duplicates, confirmations,
                 ancestor_hashes, requests>>

(* handle_sampled_validators_reached_agreement: the samples agree on the   *)
(* confirmed fork of the slot.  A block of it errs if the node has another *)
(* hash for its slot; where it has none, a request for a pruned slot       *)
(* compares the slots of the parents, and one for a dead slot skips it.    *)
(* The earliest block that errs is the one to repair, else the one asked   *)
(* for.  A hash that agrees above one that differs spoils the sample,      *)
(* which is retried.                                                       *)
Agreed(s) == Fork(<<s, ClusterHash(s)>>)
Matches(k) == k[1] \in DOMAIN bank_hashes /\ bank_hashes[k[1]] = k[2]
Differs(k) == k[1] \in DOMAIN bank_hashes /\ bank_hashes[k[1]] # k[2]
ParentDiffers(k) ==
  /\ k[1] \notin DOMAIN bank_hashes
  /\ \A j \in DOMAIN tree.parent :
       j[1] = k[1] /\ tree.shreds[j] = shreds[j[1]] =>
         tree.parent[j][1] # tree.parent[k][1]
Earliest(S) == CHOOSE k \in S : \A j \in S : k[1] <= j[1]

AncestorToRepair(q) ==
  LET errs == {k \in Agreed(q.slot) :
                 Differs(k) \/ (q.pruned /\ ParentDiffers(k))}
  IN IF errs = {} THEN <<q.slot, ClusterHash(q.slot)>> ELSE Earliest(errs)

ValidSample(q) ==
  LET first == AncestorToRepair(q)
  IN Differs(first) =>
       \A k \in Agreed(q.slot) : k[1] > first[1] => ~Matches(k)

(* verify_and_process_ancestor_response and                                *)
(* handle_ancestor_request_decision.  Which peers are asked, and when      *)
(* again, is left out: enough of them answer alike for a slot the cluster  *)
(* confirmed.                                                              *)
AnswerAncestorHashes(q) ==
  LET k == AncestorToRepair(q)
  IN /\ Alive /\ q \in requests /\ q.slot \in Confirmable
     /\ ValidSample(q)
     /\ requests' = requests \ {q}
     /\ ancestor_hashes' = ancestor_hashes \cup
          {[slot |-> k[1], hash |-> k[2], pruned |-> q.pruned]}
     /\ UNCHANGED <<tree, storeVars, bankVars, fc, stateVars, replay_votes,
                    descendants, last_vote, stage, duplicates, confirmations,
                    pruned_forks, popular_pruned_forks_requests>>

-----------------------------------------------------------------------------
Loop ==
  \/ GenerateNewBankForks
  \/ \E s \in DOMAIN banks : ReplayActiveBank(s)
  \/ \E m \in ancestor_hashes : ProcessAncestorHashes(m)
  \/ \E m \in confirmations : ProcessDuplicateConfirmed(m)
  \/ \E s \in pruned_forks : ProcessPopularPruned(s)
  \/ \E s \in duplicates : ProcessDuplicateSlot(s)
  \/ ComputeBankStats
  \/ NoVote
  \/ \E k \in Votable : \E r \in Fork(k) : Vote(k, r)
  \/ \E order \in SetToSeqs(DOMAIN duplicate_slots_to_repair) :
       DumpThenRepairCorrectSlots(order)

Environment ==
  \/ \E s \in DOMAIN shreds : \E v \in Versions(s) : InsertShreds(s, v)
  \/ \E s \in DOMAIN shreds : DetectDuplicate(s)
  \/ \E s \in Confirmable : ConfirmSlot(s)
  \/ \E s \in DOMAIN shreds : FindPopularPruned(s)
  \/ \E q \in requests : AnswerAncestorHashes(q)

Next == Loop \/ Environment

Spec == Init /\ [][Next]_vars

(* The loop never waits: it keeps coming round, every round drains its     *)
(* channels and a bank is replayed to its end.  Turbine and repair bring   *)
(* some version of every slot, the repair service looks for pruned forks   *)
(* in every round, and the ancestor hashes service answers for the slots   *)
(* the cluster froze.  Nobody has to notice that a slot is a duplicate.    *)
FairSpec ==
  /\ Spec
  /\ []<>(Alive => stage = "generate")
  /\ []<>(Alive => stage # "generate")
  /\ []<>(Alive => \A s \in DOMAIN banks : banks[s].status # "active")
  /\ []<>(Alive => confirmations = {})
  /\ []<>(Alive => ancestor_hashes = {})
  /\ []<>(Alive => pruned_forks = {})
  /\ []<>(Alive => \A s \in DOMAIN shreds : shreds[s] # 0)
  /\ []<>(Alive => \A s \in Confirmable :
                     IsPruned(s) => s \in popular_pruned_forks_requests)
  /\ []<>(Alive => \A q \in requests : q.slot \notin Confirmable)

-----------------------------------------------------------------------------
(* Type invariant: banks, fork choice and the verifier's maps talk about   *)
(* blocks of the scenario, and the fork choice's tree hangs together.      *)
TypeOK ==
  /\ DOMAIN fc.fork_infos \subseteq Keys /\ fc.tree_root[1] = root
  /\ \A k \in DOMAIN fc.fork_infos :
       /\ fc.fork_infos[k].parent =
            IF k = fc.tree_root THEN NoKey ELSE tree.parent[k]
       /\ fc.fork_infos[k].children =
            {j \in DOMAIN fc.fork_infos : fc.fork_infos[j].parent = k}
  /\ \A s \in DOMAIN banks : BankKey(s) \in Keys
  /\ \A s \in DOMAIN shreds : shreds[s] \in {0} \cup Versions(s)
  /\ proofs \subseteq DOMAIN shreds
  /\ \A s \in DOMAIN bank_hashes : <<s, bank_hashes[s]>> \in Keys
  /\ DOMAIN duplicate_slots_to_repair \subseteq Confirmable
  /\ \A s \in DOMAIN purge_repair_slot_counter :
       purge_repair_slot_counter[s] \in 1..MaxAttempts

(* Of the assertions and expects on this path, two can fail: the repair    *)
(* attempts of a slot may run out, which the code says needs an operator,  *)
(* and a bank to dump may be gone (see DumpedBanksExist).  In particular a *)
(* confirmed block is never marked invalid, no slot is confirmed twice,    *)
(* the best block always has its bank and the last vote stays in the tree. *)
NoUnexpectedPanic ==
  fc.panic \in {"none", "repair attempts exhausted",
                "dumped bank already purged"}

(* dump_slots expects the banks it removes to be there: "BankForks should  *)
(* not have been purged yet".                                              *)
DumpedBanksExist == fc.panic # "dumped bank already purged"

(* A frozen bank is in the fork choice, under the same parent as its bank, *)
(* also after dumps and after the root moved; and nothing survives a dump  *)
(* above a bank that was dumped.                                           *)
FrozenBanksInForkChoice ==
  \A s \in DOMAIN banks :
    /\ IsFrozen(s) => ContainsBlock(fc, BankKey(s))
    /\ s > root => BankOf(tree.parent[BankKey(s)])

(* stake_voted_subtree, kept by additions and subtractions that follow     *)
(* votes between versions, is the stake whose latest vote is in the        *)
(* subtree.                                                                *)
StakeAsVoted ==
  \A k \in DOMAIN fc.fork_infos :
    fc.fork_infos[k].stake_voted_subtree = SubtreeStake(fc, k)

(* best_slot of a block that is not excluded is where always taking the    *)
(* heaviest child that is not excluded leads, and no excluded block is on  *)
(* the way.  height and deepest_slot are those of the subtree, excluded or *)
(* not.                                                                    *)
BestIsHeaviest ==
  \A k \in DOMAIN fc.fork_infos :
    /\ IsCandidate(fc.fork_infos, k) =>
         IsHeaviestPath(fc, k, fc.fork_infos[k].best_slot)
    /\ fc.fork_infos[k].height = SubtreeHeight(fc.fork_infos, k)
    /\ IsDeepestPath(fc, k, fc.fork_infos[k].deepest_slot)

(* A frozen version of a slot known to be a duplicate is excluded until it *)
(* is confirmed, unless it is the version the ancestor hashes service      *)
(* sampled, for which on_frozen_slot does nothing; and an excluded block   *)
(* has no descendant that is a candidate, whatever order exclusions,       *)
(* confirmations and new leaves came in.                                   *)
DuplicateExcluded ==
  /\ \A s \in duplicate_slots_tracker :
       /\ s > root /\ IsFrozen(s) /\ ~IsDuplicateConfirmed(fc, BankKey(s))
       /\ Lookup(epoch_slots_frozen_slots, s) # banks[s].hash
       => ~IsCandidate(fc.fork_infos, BankKey(s))
  /\ \A k \in DOMAIN fc.fork_infos :
       fc.fork_infos[k].parent # NoKey /\ IsCandidate(fc.fork_infos, k) =>
         IsCandidate(fc.fork_infos, fc.fork_infos[k].parent)

(* The fork the node would build and vote on holds no version of a slot    *)
(* other than the one it knows to be confirmed, also right after replaying *)
(* the wrong version once more.                                            *)
BestForkAgrees ==
  \A k \in Fork(BestOverallSlot(fc)) :
    k[1] \in DOMAIN duplicate_confirmed_slots =>
      duplicate_confirmed_slots[k[1]] = k[2]

(* A confirmed block stays confirmed and a candidate as long as it is in   *)
(* the tree: no later duplicate proof, dead descendant or dump undoes it.  *)
ConfirmedStays ==
  [][\A k \in DOMAIN fc.fork_infos \cap DOMAIN fc'.fork_infos :
       IsDuplicateConfirmed(fc, k) =>
         IsDuplicateConfirmed(fc', k) /\ IsCandidate(fc'.fork_infos, k)]_vars

Replayed(s) == IsFrozen(s) /\ IsDuplicateConfirmed(fc, BankKey(s))
EverConfirmable == {k[1] : k \in UNION {t.confirmed : t \in Scenario}} \ {0}

(* Once the node knows that a version of a slot is confirmed it replays    *)
(* that version, the root passes the slot, the node stops for an operator, *)
(* or what it holds is on a fork that the root left.                       *)
ConfirmedReplayed ==
  \A s \in EverConfirmable :
    s \in DOMAIN duplicate_confirmed_slots ~>
      Replayed(s) \/ root >= s \/ ~Alive \/ IsPruned(s)

=============================================================================
