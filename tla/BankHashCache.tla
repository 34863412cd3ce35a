---------------------------- MODULE BankHashCache ----------------------------
(***************************************************************************)
(* runtime/src/bank_hash_cache.rs: the cache of bank hashes that the vote  *)
(* listener keeps in front of BankForks, and the two locks that tie it to  *)
(* the replay stage: the RwLock around BankForks and the mutex around the  *)
(* "slots were dumped" flag.  The replay stage inserts and freezes banks,  *)
(* prunes them when it sets a root, and dumps the wrong version of a       *)
(* duplicate block so that another version can be replayed in its slot     *)
(* (runtime/src/bank_forks.rs, core/src/replay_stage.rs).                  *)
(***************************************************************************)
EXTENDS Naturals

CONSTANTS
  Slot,      \* the slots above the first root, 0
  Hash,      \* the hashes of frozen banks
  Missing,   \* no bank, or no cache entry, for the slot
  Unfrozen   \* Hash::default(), the hash of a bank still being replayed

ASSUME SlotAssumption ==
  /\ Slot \subseteq Nat \ {0}
  /\ Missing \notin Hash /\ Unfrozen \notin Hash /\ Missing # Unfrozen

VARIABLES
  banks,      \* BankForks: the bank hash of each slot
  root,       \* BankForks: the root slot
  pruned,     \* slots still in the blockstore whose bank set_root pruned
  repaired,   \* history: pruned slots whose block was cleared for repair
  writer,     \* the replay stage holds BankForks' write lock
  dumping,    \* the slots dump_slots is removing, while it runs
  notified,   \* dump_slots has set the subscribers' flags
  hashes,     \* BankHashCache::hashes
  last_root,  \* BankHashCache::last_root
  slots_dumped,  \* the flag of the DumpedSlotSubscription
  locked,     \* the listener holds the mutex around that flag
  asked,      \* the slot hash() looks up in BankForks, 0 if none
  answers     \* the hashes hash() has returned since the lock was taken

bankVars == <<banks, root, pruned, repaired>>
dumpVars == <<writer, dumping, notified>>
cacheVars == <<hashes, last_root, asked, answers>>
vars == <<bankVars, dumpVars, cacheVars, slots_dumped, locked>>

Empty == [s \in Slot |-> Missing]

Init ==
  /\ banks = Empty /\ root = 0 /\ pruned = {} /\ repaired = {}
  /\ writer = FALSE /\ dumping = {} /\ notified = FALSE
  /\ hashes = Empty /\ last_root = 0 /\ slots_dumped = FALSE
  /\ locked = FALSE /\ asked = 0 /\ answers = Empty

-----------------------------------------------------------------------------
(* The replay stage.                                                       *)

(* BankForks::insert: a block of the rooted fork starts to be replayed.    *)
InsertBank(s) ==
  /\ ~writer
  /\ s > root /\ s \notin pruned /\ banks[s] = Missing
  /\ banks' = [banks EXCEPT ![s] = Unfrozen]
  /\ UNCHANGED <<root, pruned, repaired, dumpVars, cacheVars, slots_dumped,
                 locked>>

(* Bank::freeze takes no lock of BankForks, but the thread that calls it   *)
(* is the one that dumps.                                                  *)
Freeze(s, h) ==
  /\ ~writer
  /\ banks[s] = Unfrozen
  /\ banks' = [banks EXCEPT ![s] = h]
  /\ UNCHANGED <<root, pruned, repaired, dumpVars, cacheVars, slots_dumped,
                 locked>>

(* BankForks::set_root prunes the banks S: those of other forks, and the   *)
(* ancestors of the new root r that are older than the root of the         *)
(* supermajority.                                                          *)
SetRoot(r, S) ==
  /\ ~writer
  /\ r > root /\ banks[r] \in Hash
  /\ S \subseteq {s \in Slot \ {r} : banks[s] # Missing}
  /\ {s \in Slot : s < r /\ banks[s] = Unfrozen} \subseteq S
  /\ root' = r
  /\ pruned' = pruned \cup S
  /\ banks' = [s \in Slot |-> IF s \in S THEN Missing ELSE banks[s]]
  /\ UNCHANGED <<repaired, dumpVars, cacheVars, slots_dumped, locked>>

(* ReplayStage::purge_unconfirmed_duplicate_slot of a slot that has left   *)
(* BankForks: the blockstore forgets the block, and no subscriber is told. *)
PurgePruned(s) ==
  /\ ~writer
  /\ s \in pruned /\ root <= s
  /\ pruned' = pruned \ {s}
  /\ repaired' = repaired \cup {s}
  /\ UNCHANGED <<banks, root, dumpVars, cacheVars, slots_dumped, locked>>

(* The same function for a slot in BankForks, frozen with a wrong hash or  *)
(* dead, takes the write lock and calls dump_slots for it and its          *)
(* descendants.                                                            *)
LockBankForks(S) ==
  /\ ~writer
  /\ S # {} /\ S \subseteq {s \in Slot : s > root /\ banks[s] # Missing}
  /\ writer' = TRUE /\ dumping' = S
  /\ UNCHANGED <<bankVars, notified, cacheVars, slots_dumped, locked>>

(* dump_slots: set the flag under its mutex, which is released at once. *)
NotifySubscribers ==
  /\ writer /\ ~notified
  /\ ~locked
  /\ slots_dumped' = TRUE /\ notified' = TRUE
  /\ UNCHANGED <<bankVars, writer, dumping, cacheVars, locked>>

(* Mutant: the subscribers are not told. *)
RemoveUntold ==
  /\ writer
  /\ banks' = [s \in Slot |-> IF s \in dumping THEN Missing ELSE banks[s]]
  /\ writer' = FALSE /\ dumping' = {} /\ notified' = FALSE
  /\ UNCHANGED <<root, pruned, repaired, cacheVars, slots_dumped, locked>>

(* dump_slots: remove the banks; its caller then releases the write lock. *)
RemoveBanks ==
  /\ writer /\ notified
  /\ banks' = [s \in Slot |-> IF s \in dumping THEN Missing ELSE banks[s]]
  /\ writer' = FALSE /\ dumping' = {} /\ notified' = FALSE
  /\ UNCHANGED <<root, pruned, repaired, cacheVars, slots_dumped, locked>>

-----------------------------------------------------------------------------
(* The vote listener.                                                      *)

(* get_root_bank_and_prune_cache, between two batches of votes.  It reads  *)
(* BankForks when the root has moved.                                      *)
PruneCache ==
  /\ ~locked
  /\ root # last_root /\ ~writer
  /\ last_root' = root
  /\ hashes' = [s \in Slot |-> IF s < root THEN Missing ELSE hashes[s]]
  /\ UNCHANGED <<bankVars, dumpVars, asked, answers, slots_dumped, locked>>

(* track_new_votes_and_notify_confirmations takes the mutex for the whole  *)
(* of one vote...                                                          *)
Lock ==
  /\ ~locked
  /\ locked' = TRUE /\ answers' = Empty
  /\ UNCHANGED <<bankVars, dumpVars, hashes, last_root, asked, slots_dumped>>

(* ... and calls hash() for the slots it names: an invalidated cache is    *)
(* emptied first, and a miss goes on to BankForks.                         *)
QueryHash(s) ==
  /\ locked /\ asked = 0
  /\ LET cached == IF slots_dumped THEN Empty ELSE hashes
     IN  /\ hashes' = cached
         /\ IF cached[s] # Missing
            THEN answers' = [answers EXCEPT ![s] = cached[s]] /\ asked' = 0
            ELSE asked' = s /\ answers' = answers
  /\ slots_dumped' = FALSE
  /\ UNCHANGED <<bankVars, dumpVars, last_root, locked>>

(* The rest of hash(): wait for the read lock, and cache a frozen hash. *)
ReadBankForks ==
  /\ asked # 0
  /\ ~writer
  /\ IF banks[asked] \in Hash
     THEN /\ hashes' = [hashes EXCEPT ![asked] = banks[asked]]
          /\ answers' = [answers EXCEPT ![asked] = banks[asked]]
     ELSE UNCHANGED <<hashes, answers>>
  /\ asked' = 0
  /\ UNCHANGED <<bankVars, dumpVars, last_root, slots_dumped, locked>>

Unlock ==
  /\ locked /\ asked = 0
  /\ locked' = FALSE /\ answers' = Empty
  /\ UNCHANGED <<bankVars, dumpVars, hashes, last_root, asked, slots_dumped>>

Next ==
  \/ \E s \in Slot : \/ InsertBank(s)
                     \/ \E h \in Hash : Freeze(s, h)
                     \/ \E S \in SUBSET Slot : SetRoot(s, S)
                     \/ PurgePruned(s)
                     \/ QueryHash(s)
  \/ \E S \in SUBSET Slot : LockBankForks(S)
  \/ NotifySubscribers \/ RemoveBanks
  \/ PruneCache \/ Lock \/ ReadBankForks \/ Unlock

Spec == Init /\ [][Next]_vars

-----------------------------------------------------------------------------
(* Every variable has its type: the state of BankForks, of the cache and   *)
(* of the two locks.                                                       *)
TypeOK ==
  /\ banks \in [Slot -> Hash \cup {Missing, Unfrozen}]
  /\ root \in Slot \cup {0} /\ last_root \in Slot \cup {0}
  /\ pruned \subseteq Slot /\ repaired \subseteq Slot
  /\ writer \in BOOLEAN /\ notified \in BOOLEAN /\ dumping \subseteq Slot
  /\ slots_dumped \in BOOLEAN /\ locked \in BOOLEAN
  /\ asked \in Slot \cup {0}
  /\ hashes \in [Slot -> Hash \cup {Missing}]
  /\ answers \in [Slot -> Hash \cup {Missing}]

(* A hash that hash() has returned is the hash of the frozen bank that     *)
(* BankForks holds for the slot, if it holds one.                          *)
Agrees(s) ==
  answers[s] # Missing /\ banks[s] \in Hash => answers[s] = banks[s]

(* What bank_hash_cache.rs promises: as long as the listener holds the     *)
(* mutex, no answer is stale.  It keeps the promise for every slot but     *)
(* those whose pruned block was cleared for repair: dumping never makes an *)
(* answer stale, however the dump interleaves with the lookups.            *)
AnswersSurviveDumps == locked => \A s \in Slot \ repaired : Agrees(s)

(* The two locks are never waited for in a circle: the replay stage, with  *)
(* the write lock of BankForks, for the mutex, and the listener, with the  *)
(* mutex, for the read lock.                                               *)
NoLockCycle == ~(writer /\ ~notified /\ locked /\ asked # 0)
==============================================================================
