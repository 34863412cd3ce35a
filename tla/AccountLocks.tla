---------------------------- MODULE AccountLocks -----------------------------
(***************************************************************************)
(* What ThreadAwareAccountLocks promises to the schedulers that use it: an *)
(* abstract specification, of the table by itself, in which whoever locked *)
(* the accounts of a transaction on a thread unlocks them once, on that    *)
(* thread.  CentralScheduler implements it.                                *)
(***************************************************************************)
EXTENDS AccountLockTable

VARIABLES
  locks,  \* ThreadAwareAccountLocks::locks
  held    \* the thread of each transaction whose accounts are locked

lockVars == <<locks, held>>

LocksInit ==
  /\ locks = [a \in Account |-> NoLocks]
  /\ held = [x \in {} |-> NoThread]

(* try_lock_accounts, for a thread of those the caller allows. *)
TryLockAccounts(x, t) ==
  /\ x \in Tx \ DOMAIN held
  /\ t \in SchedulableThreads(locks, x)
  /\ locks' = LockAccounts(locks, x, t)
  /\ held' = [y \in DOMAIN held \cup {x} |-> IF y = x THEN t ELSE held[y]]

UnlockHeld(x) ==
  /\ x \in DOMAIN held
  /\ locks' = UnlockAccounts(locks, x, held[x])
  /\ held' = [y \in DOMAIN held \ {x} |-> held[y]]

LocksNext ==
  \/ \E x \in Tx, t \in Thread : TryLockAccounts(x, t)
  \/ \E x \in Tx : UnlockHeld(x)

LocksSpec == LocksInit /\ [][LocksNext]_lockVars

-----------------------------------------------------------------------------
(* The holders of the locks of account a on thread t. *)
WriteHolders(a, t) == {x \in DOMAIN held : held[x] = t /\ a \in Writes[x]}
ReadHolders(a, t) == {x \in DOMAIN held : held[x] = t /\ a \in Reads[x]}

LocksTypeOK ==
  /\ locks \in [Account -> AccountLock]
  /\ DOMAIN held \subseteq Tx /\ held \in [DOMAIN held -> Thread]

(* Conflicting transactions are only ever held by one thread, so that no   *)
(* two threads execute them at the same time.                              *)
ConflictsShareThread ==
  \A x, y \in DOMAIN held : Conflict(x, y) => held[x] = held[y]

(* The table counts exactly the locks that are held: none is left behind   *)
(* when a batch is done, and none is dropped before.                       *)
TableCountsHolders ==
  \A a \in Account : LET l == locks[a] IN
    /\ l.thread_set = {t \in Thread : ReadHolders(a, t) # {}}
    /\ \A t \in Thread : l.lock_counts[t] = Cardinality(ReadHolders(a, t))
    /\ \A t \in Thread : WriteHolders(a, t) # {} => l.thread_id = t
    /\ l.lock_count =
         IF l.thread_id = NoThread THEN 0
         ELSE Cardinality(WriteHolders(a, l.thread_id))
    /\ l.thread_id # NoThread => l.lock_count > 0

(* No assertion of the table can fail: what may be scheduled may be locked *)
(* on each schedulable thread, and what is held may be unlocked.           *)
LocksNeverPanic ==
  /\ \A a \in Account : MixedOnOneThread(locks[a])
  /\ \A x \in Tx : \A t \in SchedulableThreads(locks, x) : CanLock(locks, x, t)
  /\ \A x \in DOMAIN held : CanUnlock(locks, x, held[x])
==============================================================================
