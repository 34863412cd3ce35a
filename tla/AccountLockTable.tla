-------------------------- MODULE AccountLockTable ---------------------------
(***************************************************************************)
(* core/src/banking_stage/transaction_scheduler/                           *)
(* thread_aware_account_locks.rs: which worker threads a transaction may   *)
(* be given to.  A thread that already holds the locks of an account may   *)
(* get more work for it, because a thread runs its work in order; any      *)
(* other thread may only share reads.                                      *)
(* The operators take the table of locks as a parameter; the state         *)
(* machines are AccountLocks and CentralScheduler.                         *)
(***************************************************************************)
EXTENDS Naturals, FiniteSets

CONSTANTS
  Thread,    \* the worker threads, 0..num_threads-1
  NoThread,  \* not a thread: the account is not locked for writing
  Account,   \* the accounts
  Tx,        \* the transactions
  Writes,    \* Writes[x]: the accounts that x may write
  Reads      \* Reads[x]: the accounts that x only reads

ASSUME LocksAssumption ==
  /\ Thread \subseteq Nat /\ NoThread \notin Thread
  /\ IsFiniteSet(Thread) /\ IsFiniteSet(Tx)
  /\ Writes \in [Tx -> SUBSET Account] /\ Reads \in [Tx -> SUBSET Account]
  /\ \A x \in Tx : Writes[x] \cap Reads[x] = {}

(* AccountLocks: write_locks is (thread_id, lock_count), read_locks is     *)
(* (thread_set, lock_counts).  A None is NoThread or the empty set; an     *)
(* account without an entry in the map has both.                           *)
NoLocks ==
  [thread_id |-> NoThread, lock_count |-> 0, thread_set |-> {},
   lock_counts |-> [t \in Thread |-> 0]]

AccountLock ==
  [thread_id : Thread \cup {NoThread}, lock_count : Nat,
   thread_set : SUBSET Thread, lock_counts : [Thread -> Nat]]

-----------------------------------------------------------------------------
(* only_one_contained, as a set. *)
OnlyOneContained(S) == IF Cardinality(S) = 1 THEN S ELSE {}

(* schedulable_threads, for writing and for reading. *)
WriteSchedulableThreads(l) ==
  IF l.thread_id # NoThread THEN {l.thread_id}
  ELSE IF l.thread_set = {} THEN Thread
  ELSE OnlyOneContained(l.thread_set)

ReadSchedulableThreads(l) ==
  IF l.thread_id # NoThread THEN {l.thread_id} ELSE Thread

(* Its assertion on an account with locks of both kinds. *)
MixedOnOneThread(l) ==
  l.thread_id # NoThread /\ l.thread_set # {} => l.thread_set = {l.thread_id}

(* accounts_schedulable_threads *)
SchedulableThreads(table, x) ==
  {t \in Thread :
     /\ \A a \in Writes[x] : t \in WriteSchedulableThreads(table[a])
     /\ \A a \in Reads[x] : t \in ReadSchedulableThreads(table[a])}

-----------------------------------------------------------------------------
(* Locking and unlocking one account on thread t, and the assertions.      *)
CanWriteLock(l, t) ==
  /\ l.thread_set # {} => l.thread_set = {t}
  /\ l.thread_id \in {t, NoThread}
WriteLock(l, t) ==
  [thread_id |-> t, lock_count |-> l.lock_count + 1,
   thread_set |-> l.thread_set, lock_counts |-> l.lock_counts]

CanWriteUnlock(l, t) == l.thread_id = t
WriteUnlock(l, t) ==
  [thread_id |-> IF l.lock_count = 1 THEN NoThread ELSE l.thread_id,
   lock_count |-> l.lock_count - 1,
   thread_set |-> l.thread_set, lock_counts |-> l.lock_counts]

CanReadLock(l, t) == l.thread_id \in {t, NoThread}
ReadLock(l, t) ==
  [thread_id |-> l.thread_id, lock_count |-> l.lock_count,
   thread_set |-> l.thread_set \cup {t},
   lock_counts |-> [l.lock_counts EXCEPT ![t] = @ + 1]]

CanReadUnlock(l, t) == t \in l.thread_set
ReadUnlock(l, t) ==
  [thread_id |-> l.thread_id, lock_count |-> l.lock_count,
   thread_set |-> IF l.lock_counts[t] = 1 THEN l.thread_set \ {t}
                  ELSE l.thread_set,
   lock_counts |-> [l.lock_counts EXCEPT ![t] = @ - 1]]

(* lock_accounts and unlock_accounts.  The accounts of a transaction are   *)
(* distinct (validate_account_locks), so each account is touched once.     *)
CanLock(table, x, t) ==
  /\ \A a \in Writes[x] : CanWriteLock(table[a], t)
  /\ \A a \in Reads[x] : CanReadLock(table[a], t)

LockAccounts(table, x, t) ==
  [a \in Account |-> IF a \in Writes[x] THEN WriteLock(table[a], t)
                     ELSE IF a \in Reads[x] THEN ReadLock(table[a], t)
                     ELSE table[a]]

CanUnlock(table, x, t) ==
  /\ \A a \in Writes[x] : CanWriteUnlock(table[a], t)
  /\ \A a \in Reads[x] : CanReadUnlock(table[a], t)

UnlockAccounts(table, x, t) ==
  [a \in Account |-> IF a \in Writes[x] THEN WriteUnlock(table[a], t)
                     ELSE IF a \in Reads[x] THEN ReadUnlock(table[a], t)
                     ELSE table[a]]

(* Two transactions conflict if one writes what the other uses. *)
Conflict(x, y) ==
  \/ Writes[x] \cap (Writes[y] \cup Reads[y]) # {}
  \/ Writes[y] \cap Reads[x] # {}
==============================================================================
