-------------------------- MODULE SharedStateProofs ---------------------------
(***************************************************************************)
(* Proofs about state that threads share: the table of account locks of    *)
(* the central scheduler, for any accounts, transactions and worker        *)
(* threads, and the cache of bank hashes, for any slots and hashes.        *)
(***************************************************************************)
EXTENDS AccountLocks, BankHashCache, FiniteSetTheorems, TLAPS

-----------------------------------------------------------------------------
(* AccountLocks.  The invariant says of each account that its entry counts *)
(* its holders; four lemmas show what one call does to one entry, and the  *)
(* steps of the table are put together from them.                          *)

(* Entry l counts the holders W[t] and R[t] of each thread t. *)
Counts(l, W, R) ==
  /\ l.thread_set = {t \in Thread : R[t] # {}}
  /\ \A t \in Thread : l.lock_counts[t] = Cardinality(R[t])
  /\ \A t \in Thread : W[t] # {} => l.thread_id = t
  /\ l.lock_count =
       IF l.thread_id = NoThread THEN 0 ELSE Cardinality(W[l.thread_id])
  /\ l.thread_id # NoThread => l.lock_count > 0

Holders == [Thread -> SUBSET Tx]
EntryOK(l, W, R) == l \in AccountLock /\ Counts(l, W, R) /\ MixedOnOneThread(l)

(* Sets of holders are finite; one holder more or less. *)
LEMMA HoldersFinite ==
  ASSUME NEW S \in SUBSET Tx
  PROVE  /\ IsFiniteSet(S) /\ Cardinality(S) \in Nat
         /\ Cardinality(S) = 0 <=> S = {}
         /\ \A x \in Tx : x \notin S => Cardinality(S \cup {x}) = Cardinality(S) + 1
         /\ \A x \in S : Cardinality(S \ {x}) = Cardinality(S) - 1
<1>1. IsFiniteSet(S)
  BY FS_Subset, LocksAssumption DEF LocksAssumption
<1>2. Cardinality(S) \in Nat
  BY <1>1, FS_CardinalityType
<1>3. Cardinality(S) = 0 <=> S = {}
  BY <1>1, FS_EmptySet
<1>4. \A x \in Tx : x \notin S => Cardinality(S \cup {x}) = Cardinality(S) + 1
  BY <1>1, FS_AddElement
<1>5. \A x \in S : Cardinality(S \ {x}) = Cardinality(S) - 1
  BY <1>1, FS_RemoveElement
<1> QED BY <1>1, <1>2, <1>3, <1>4, <1>5

(* One holder less. *)
LEMMA OneHolderLess ==
  ASSUME NEW S \in SUBSET Tx, NEW x \in S
  PROVE  /\ Cardinality(S) \in Nat /\ Cardinality(S) # 0
         /\ Cardinality(S \ {x}) = Cardinality(S) - 1
         /\ Cardinality(S) - 1 \in Nat
         /\ Cardinality(S) = 1 <=> S \ {x} = {}
<1>1. Cardinality(S) \in Nat /\ Cardinality(S) # 0
  BY HoldersFinite
<1>2. Cardinality(S \ {x}) = Cardinality(S) - 1
  BY HoldersFinite
<1>3. S \ {x} \in SUBSET Tx
  OBVIOUS
<1>4. Cardinality(S \ {x}) = 0 <=> S \ {x} = {}
  BY <1>3, HoldersFinite, Zenon
<1>5. ASSUME NEW n \in Nat, n # 0, NEW k, k = n - 1
      PROVE  n - 1 \in Nat /\ (n = 1 <=> k = 0)
  BY <1>5
<1> QED BY <1>1, <1>2, <1>4, <1>5, Zenon

(* write_lock_account, where its assertions hold. *)
LEMMA WriteLockOK ==
  ASSUME NEW l, NEW W \in Holders, NEW R \in Holders, EntryOK(l, W, R),
         NEW t \in Thread, NEW x \in Tx, x \notin W[t], CanWriteLock(l, t)
  PROVE  EntryOK(WriteLock(l, t), [W EXCEPT ![t] = @ \cup {x}], R)
<1> DEFINE m == WriteLock(l, t)
           V == [W EXCEPT ![t] = @ \cup {x}]
<1>1. l \in AccountLock /\ Counts(l, W, R)
  BY DEF EntryOK
<1>2. /\ m.thread_id = t /\ m.lock_count = l.lock_count + 1
      /\ m.thread_set = l.thread_set /\ m.lock_counts = l.lock_counts
      /\ m \in AccountLock
  <2>1. m = [thread_id |-> t, lock_count |-> l.lock_count + 1,
             thread_set |-> l.thread_set, lock_counts |-> l.lock_counts]
    BY <1>1 DEF WriteLock, AccountLock
  <2>2. /\ l.lock_count \in Nat /\ l.thread_set \in SUBSET Thread
        /\ l.lock_counts \in [Thread -> Nat]
    BY <1>1 DEF AccountLock
  <2> HIDE DEF m
  <2>3. m \in AccountLock
    BY <2>1, <2>2 DEF AccountLock
  <2> QED BY <2>1, <2>3
<1>3. W[t] \in SUBSET Tx /\ V[t] = W[t] \cup {x}
  BY DEF Holders
<1>4. Cardinality(V[t]) = Cardinality(W[t]) + 1 /\ Cardinality(W[t]) \in Nat
  BY <1>3, HoldersFinite
<1>5. l.lock_count = Cardinality(W[t])
  <2>1. CASE l.thread_id = t
    BY <2>1, <1>1, LocksAssumption DEF Counts, LocksAssumption
  <2>2. CASE l.thread_id = NoThread
    <3>1. W[t] = {}
      BY <2>2, <1>1, LocksAssumption DEF Counts, LocksAssumption
    <3> QED BY <3>1, <2>2, <1>1, <1>3, HoldersFinite DEF Counts
  <2> QED BY <2>1, <2>2 DEF CanWriteLock
<1>6. \A u \in Thread : V[u] # {} => u = t
  <2> SUFFICES ASSUME NEW u \in Thread, u # t, V[u] # {} PROVE FALSE
    OBVIOUS
  <2>1. W[u] # {}
    BY DEF Holders
  <2>2. l.thread_id = u
    BY <2>1, <1>1 DEF Counts
  <2> QED BY <2>2, LocksAssumption DEF CanWriteLock, LocksAssumption
<1>7. Counts(m, V, R)
  BY <1>1, <1>2, <1>4, <1>5, <1>6, LocksAssumption DEF Counts, LocksAssumption
<1>8. MixedOnOneThread(m)
  BY <1>2 DEF MixedOnOneThread, CanWriteLock
<1> QED BY <1>2, <1>7, <1>8 DEF EntryOK

(* read_lock_account, where its assertion holds. *)
LEMMA ReadLockOK ==
  ASSUME NEW l, NEW W \in Holders, NEW R \in Holders, EntryOK(l, W, R),
         NEW t \in Thread, NEW x \in Tx, x \notin R[t], CanReadLock(l, t)
  PROVE  EntryOK(ReadLock(l, t), W, [R EXCEPT ![t] = @ \cup {x}])
<1> DEFINE m == ReadLock(l, t)
           V == [R EXCEPT ![t] = @ \cup {x}]
<1>1. l \in AccountLock /\ Counts(l, W, R) /\ MixedOnOneThread(l)
  BY DEF EntryOK
<1>2. /\ m.thread_id = l.thread_id /\ m.lock_count = l.lock_count
      /\ m.thread_set = l.thread_set \cup {t}
      /\ m.lock_counts = [l.lock_counts EXCEPT ![t] = @ + 1]
      /\ m \in AccountLock
  <2>1. m = [thread_id |-> l.thread_id, lock_count |-> l.lock_count,
             thread_set |-> l.thread_set \cup {t},
             lock_counts |-> [l.lock_counts EXCEPT ![t] = @ + 1]]
    BY <1>1 DEF ReadLock, AccountLock
  <2>2. /\ l.lock_count \in Nat /\ l.thread_set \in SUBSET Thread
        /\ l.lock_counts \in [Thread -> Nat]
        /\ l.thread_id \in Thread \cup {NoThread}
    BY <1>1 DEF AccountLock
  <2>3. [l.lock_counts EXCEPT ![t] = @ + 1] \in [Thread -> Nat]
    BY <2>2
  <2> HIDE DEF m
  <2>4. m \in AccountLock
    BY <2>1, <2>2, <2>3 DEF AccountLock
  <2> QED BY <2>1, <2>4
<1>3. R[t] \in SUBSET Tx /\ V[t] = R[t] \cup {x}
      /\ \A u \in Thread : u # t => V[u] = R[u]
  BY DEF Holders
<1>4. Cardinality(V[t]) = Cardinality(R[t]) + 1
  BY <1>3, HoldersFinite
<1>5. l.lock_counts \in [Thread -> Nat]
  BY <1>1 DEF AccountLock
<1> HIDE DEF m, V
<1>6. m.thread_set = {u \in Thread : V[u] # {}}
  BY <1>1, <1>2, <1>3 DEF Counts
<1>7. \A u \in Thread : m.lock_counts[u] = Cardinality(V[u])
  <2>1. m.lock_counts[t] = Cardinality(V[t])
    BY <1>1, <1>2, <1>3, <1>4, <1>5 DEF Counts
  <2>2. ASSUME NEW u \in Thread, u # t
        PROVE  m.lock_counts[u] = Cardinality(V[u])
    <3>1. m.lock_counts[u] = l.lock_counts[u]
      BY <1>2, <1>5, <2>2
    <3>2. l.lock_counts[u] = Cardinality(R[u])
      BY <1>1, Zenon DEF Counts
    <3> QED BY <1>3, <2>2, <3>1, <3>2, Zenon
  <2> QED BY <2>1, <2>2, Zenon
<1>8. Counts(m, W, V)
  BY <1>1, <1>2, <1>6, <1>7 DEF Counts
<1>9. MixedOnOneThread(m)
  BY <1>1, <1>2 DEF MixedOnOneThread, CanReadLock
<1> QED BY <1>2, <1>8, <1>9 DEF EntryOK, m, V

(* write_unlock_account, for a holder. *)
LEMMA WriteUnlockOK ==
  ASSUME NEW l, NEW W \in Holders, NEW R \in Holders, EntryOK(l, W, R),
         NEW t \in Thread, NEW x \in W[t]
  PROVE  EntryOK(WriteUnlock(l, t), [W EXCEPT ![t] = @ \ {x}], R)
<1> DEFINE m == WriteUnlock(l, t)
           V == [W EXCEPT ![t] = @ \ {x}]
<1>1. l \in AccountLock /\ Counts(l, W, R) /\ MixedOnOneThread(l)
  BY DEF EntryOK
<1>2. /\ W[t] \in SUBSET Tx /\ V[t] = W[t] \ {x} /\ V[t] \in SUBSET Tx
      /\ \A u \in Thread : u # t => V[u] = W[u]
  BY DEF Holders
<1>3. /\ l.thread_id = t /\ l.thread_id # NoThread
      /\ l.lock_count = Cardinality(W[t]) /\ l.lock_count \in Nat \ {0}
  BY <1>1, LocksAssumption DEF Counts, LocksAssumption, AccountLock
<1>4. /\ Cardinality(V[t]) = l.lock_count - 1
      /\ l.lock_count = 1 <=> V[t] = {}
  <2>1. /\ Cardinality(W[t] \ {x}) = Cardinality(W[t]) - 1
        /\ Cardinality(W[t]) = 1 <=> W[t] \ {x} = {}
    BY <1>2, OneHolderLess, Zenon
  <2> QED BY <1>2, <1>3, <2>1, Zenon
<1>5. /\ m.thread_id = IF l.lock_count = 1 THEN NoThread ELSE t
      /\ m.lock_count = l.lock_count - 1
      /\ m.thread_set = l.thread_set /\ m.lock_counts = l.lock_counts
      /\ m \in AccountLock
  <2>1. m = [thread_id |-> IF l.lock_count = 1 THEN NoThread ELSE t,
             lock_count |-> l.lock_count - 1,
             thread_set |-> l.thread_set, lock_counts |-> l.lock_counts]
    BY <1>1, <1>3 DEF WriteUnlock, AccountLock
  <2>2. /\ l.lock_count - 1 \in Nat /\ l.thread_set \in SUBSET Thread
        /\ l.lock_counts \in [Thread -> Nat]
    BY <1>1, <1>3 DEF AccountLock
  <2> HIDE DEF m
  <2>3. m \in AccountLock
    BY <2>1, <2>2 DEF AccountLock
  <2> QED BY <2>1, <2>3
<1> HIDE DEF m, V
<1>6. \A u \in Thread : u # t => V[u] = {}
  BY <1>1, <1>2, <1>3 DEF Counts
<1>7. \A u \in Thread : V[u] # {} => m.thread_id = u
  BY <1>4, <1>5, <1>6
<1>8. /\ m.lock_count = IF m.thread_id = NoThread THEN 0
                        ELSE Cardinality(V[m.thread_id])
      /\ m.thread_id # NoThread => m.lock_count > 0
  BY <1>3, <1>4, <1>5
<1>9. Counts(m, V, R)
  BY <1>1, <1>5, <1>7, <1>8 DEF Counts
<1>10. MixedOnOneThread(m)
  BY <1>1, <1>3, <1>5 DEF MixedOnOneThread
<1> QED BY <1>5, <1>9, <1>10 DEF EntryOK, m, V

(* read_unlock_account, for a holder. *)
LEMMA ReadUnlockOK ==
  ASSUME NEW l, NEW W \in Holders, NEW R \in Holders, EntryOK(l, W, R),
         NEW t \in Thread, NEW x \in R[t]
  PROVE  EntryOK(ReadUnlock(l, t), W, [R EXCEPT ![t] = @ \ {x}])
<1> DEFINE m == ReadUnlock(l, t)
           V == [R EXCEPT ![t] = @ \ {x}]
           S == IF l.lock_counts[t] = 1 THEN l.thread_set \ {t}
                ELSE l.thread_set
<1>1. l \in AccountLock /\ Counts(l, W, R) /\ MixedOnOneThread(l)
  BY DEF EntryOK
<1>2. /\ R[t] \in SUBSET Tx /\ V[t] = R[t] \ {x} /\ V[t] \in SUBSET Tx
      /\ \A u \in Thread : u # t => V[u] = R[u]
  BY DEF Holders
<1>3. /\ t \in l.thread_set /\ l.lock_counts \in [Thread -> Nat]
      /\ l.lock_counts[t] = Cardinality(R[t])
  BY <1>1 DEF Counts, AccountLock
<1>4. /\ Cardinality(V[t]) = l.lock_counts[t] - 1 /\ l.lock_counts[t] - 1 \in Nat
      /\ l.lock_counts[t] = 1 <=> V[t] = {}
  <2>1. /\ Cardinality(R[t] \ {x}) = Cardinality(R[t]) - 1
        /\ Cardinality(R[t]) - 1 \in Nat
        /\ Cardinality(R[t]) = 1 <=> R[t] \ {x} = {}
    BY <1>2, OneHolderLess
  <2> QED BY <1>2, <1>3, <2>1, Zenon
<1>5. /\ m.thread_id = l.thread_id /\ m.lock_count = l.lock_count
      /\ m.thread_set = S
      /\ m.lock_counts = [l.lock_counts EXCEPT ![t] = @ - 1]
      /\ m \in AccountLock
  <2>1. m = [thread_id |-> l.thread_id, lock_count |-> l.lock_count,
             thread_set |-> S,
             lock_counts |-> [l.lock_counts EXCEPT ![t] = @ - 1]]
    BY <1>1 DEF ReadUnlock, AccountLock
  <2>2. /\ l.lock_count \in Nat /\ S \in SUBSET Thread
        /\ l.thread_id \in Thread \cup {NoThread}
    BY <1>1 DEF AccountLock
  <2>3. [l.lock_counts EXCEPT ![t] = @ - 1] \in [Thread -> Nat]
    BY <1>3, <1>4
  <2> HIDE DEF m, S
  <2>4. m \in AccountLock
    BY <2>1, <2>2, <2>3 DEF AccountLock
  <2> QED BY <2>1, <2>4
<1> HIDE DEF m, V
<1>6. m.thread_set = {u \in Thread : V[u] # {}}
  BY <1>1, <1>2, <1>3, <1>4, <1>5 DEF Counts
<1>7. \A u \in Thread : m.lock_counts[u] = Cardinality(V[u])
  <2>1. m.lock_counts[t] = Cardinality(V[t])
    BY <1>3, <1>4, <1>5
  <2>2. ASSUME NEW u \in Thread, u # t
        PROVE  m.lock_counts[u] = Cardinality(V[u])
    <3>1. m.lock_counts[u] = l.lock_counts[u]
      BY <1>3, <1>5, <2>2
    <3>2. l.lock_counts[u] = Cardinality(R[u])
      BY <1>1, Zenon DEF Counts
    <3> QED BY <1>2, <2>2, <3>1, <3>2, Zenon
  <2> QED BY <2>1, <2>2, Zenon
<1>8. Counts(m, W, V)
  BY <1>1, <1>5, <1>6, <1>7 DEF Counts
<1>9. MixedOnOneThread(m)
  BY <1>1, <1>5 DEF MixedOnOneThread
<1> QED BY <1>5, <1>8, <1>9 DEF EntryOK, m, V

-----------------------------------------------------------------------------
(* The holders of account a, by thread. *)
WriteHoldersOf(a) == [t \in Thread |-> WriteHolders(a, t)]
ReadHoldersOf(a) == [t \in Thread |-> ReadHolders(a, t)]

(* The inductive invariant. *)
HeldOK == DOMAIN held \subseteq Tx /\ held \in [DOMAIN held -> Thread]
TableOK ==
  /\ HeldOK
  /\ locks = [a \in Account |-> locks[a]]
  /\ \A a \in Account : EntryOK(locks[a], WriteHoldersOf(a), ReadHoldersOf(a))

(* The holders of an account are sets of transactions. *)
LEMMA HoldersOfType ==
  ASSUME HeldOK, NEW a \in Account
  PROVE  WriteHoldersOf(a) \in Holders /\ ReadHoldersOf(a) \in Holders
BY DEF HeldOK, Holders, WriteHoldersOf, ReadHoldersOf, WriteHolders, ReadHolders

(* Whoever holds a lock is counted: the thread may give it back. *)
LEMMA HolderIsCounted ==
  ASSUME TableOK, NEW x \in DOMAIN held, NEW a \in Account
  PROVE  /\ a \in Writes[x] => locks[a].thread_id = held[x]
         /\ a \in Reads[x] => held[x] \in locks[a].thread_set
<1>1. held[x] \in Thread
  BY DEF TableOK, HeldOK
<1>2. a \in Writes[x] => WriteHoldersOf(a)[held[x]] # {}
  BY <1>1 DEF WriteHoldersOf, WriteHolders
<1>3. a \in Reads[x] => ReadHoldersOf(a)[held[x]] # {}
  BY <1>1 DEF ReadHoldersOf, ReadHolders
<1>4. Counts(locks[a], WriteHoldersOf(a), ReadHoldersOf(a))
  BY DEF TableOK, EntryOK
<1> QED BY <1>1, <1>2, <1>3, <1>4 DEF Counts

(* What may be scheduled on a thread may be locked there. *)
LEMMA SchedulableCanLock ==
  ASSUME TableOK, NEW x \in Tx, NEW t \in SchedulableThreads(locks, x)
  PROVE  CanLock(locks, x, t) /\ t \in Thread
<1>1. t \in Thread
  BY DEF SchedulableThreads
<1>2. ASSUME NEW a \in Writes[x] PROVE CanWriteLock(locks[a], t)
  <2> DEFINE l == locks[a]
  <2>1. a \in Account /\ t \in WriteSchedulableThreads(l)
    BY LocksAssumption DEF LocksAssumption, SchedulableThreads
  <2>2. l \in AccountLock /\ MixedOnOneThread(l)
    BY <2>1 DEF TableOK, EntryOK
  <2> SUFFICES CanWriteLock(l, t)
    OBVIOUS
  <2> HIDE DEF l
  <2>3. CASE l.thread_id # NoThread
    BY <2>1, <2>2, <2>3
       DEF WriteSchedulableThreads, MixedOnOneThread, CanWriteLock
  <2>4. CASE l.thread_id = NoThread /\ l.thread_set # {}
    <3>1. t \in l.thread_set /\ Cardinality(l.thread_set) = 1
      BY <2>1, <2>4 DEF WriteSchedulableThreads, OnlyOneContained
    <3>2. IsFiniteSet(l.thread_set)
      BY <2>2, FS_Subset, LocksAssumption DEF AccountLock, LocksAssumption
    <3>3. \E u : l.thread_set = {u}
      BY <3>1, <3>2, FS_Singleton
    <3>4. l.thread_set = {t}
      BY <3>1, <3>3
    <3> QED BY <3>4, <2>4 DEF CanWriteLock
  <2>5. CASE l.thread_id = NoThread /\ l.thread_set = {}
    BY <2>5 DEF CanWriteLock
  <2> QED BY <2>3, <2>4, <2>5
<1>3. ASSUME NEW a \in Reads[x] PROVE CanReadLock(locks[a], t)
  BY DEF SchedulableThreads, ReadSchedulableThreads, CanReadLock
<1> QED BY <1>1, <1>2, <1>3 DEF CanLock

(* What TableOK says of the table. *)
LEMMA TableOKImplies ==
  ASSUME TableOK
  PROVE  LocksTypeOK /\ TableCountsHolders /\ ConflictsShareThread
         /\ LocksNeverPanic
<1>1. LocksTypeOK
  BY DEF TableOK, HeldOK, EntryOK, LocksTypeOK
<1>2. TableCountsHolders
  <2> SUFFICES ASSUME NEW a \in Account
               PROVE  /\ locks[a].thread_set =
                            {t \in Thread : ReadHolders(a, t) # {}}
                      /\ \A t \in Thread : locks[a].lock_counts[t] =
                                           Cardinality(ReadHolders(a, t))
                      /\ \A t \in Thread : WriteHolders(a, t) # {} =>
                                           locks[a].thread_id = t
                      /\ locks[a].lock_count =
                            IF locks[a].thread_id = NoThread THEN 0
                            ELSE Cardinality(WriteHolders(a, locks[a].thread_id))
                      /\ locks[a].thread_id # NoThread =>
                            locks[a].lock_count > 0
    BY DEF TableCountsHolders
  <2>1. Counts(locks[a], WriteHoldersOf(a), ReadHoldersOf(a))
    BY DEF TableOK, EntryOK
  <2>2. locks[a].thread_id \in Thread \cup {NoThread}
    BY DEF TableOK, EntryOK, AccountLock
  <2>3. /\ \A t \in Thread : WriteHoldersOf(a)[t] = WriteHolders(a, t)
        /\ \A t \in Thread : ReadHoldersOf(a)[t] = ReadHolders(a, t)
    BY DEF WriteHoldersOf, ReadHoldersOf
  <2> QED BY <2>1, <2>2, <2>3 DEF Counts
<1>3. ConflictsShareThread
  <2> SUFFICES ASSUME NEW x \in DOMAIN held, NEW y \in DOMAIN held,
                      NEW a \in Writes[x], a \in Writes[y] \cup Reads[y]
               PROVE  held[x] = held[y]
    BY DEF ConflictsShareThread, Conflict
  <2>1. a \in Account /\ held[x] \in Thread
    BY LocksAssumption DEF LocksAssumption, TableOK, HeldOK
  <2>2. locks[a].thread_id = held[x] /\ held[x] # NoThread
    BY <2>1, HolderIsCounted, LocksAssumption DEF LocksAssumption
  <2>3. CASE a \in Writes[y]
    BY <2>1, <2>2, <2>3, HolderIsCounted
  <2>4. CASE a \in Reads[y]
    <3>1. held[y] \in locks[a].thread_set
      BY <2>1, <2>4, HolderIsCounted
    <3>2. MixedOnOneThread(locks[a])
      BY <2>1 DEF TableOK, EntryOK
    <3> QED BY <3>1, <3>2, <2>2 DEF MixedOnOneThread
  <2> QED BY <2>3, <2>4
<1>4. LocksNeverPanic
  <2>1. \A a \in Account : MixedOnOneThread(locks[a])
    BY DEF TableOK, EntryOK
  <2>2. \A x \in Tx : \A t \in SchedulableThreads(locks, x) :
          CanLock(locks, x, t)
    BY SchedulableCanLock
  <2>3. \A x \in DOMAIN held : CanUnlock(locks, x, held[x])
    <3> SUFFICES ASSUME NEW x \in DOMAIN held
                 PROVE  CanUnlock(locks, x, held[x])
      OBVIOUS
    <3>1. Writes[x] \subseteq Account /\ Reads[x] \subseteq Account
      BY LocksAssumption DEF LocksAssumption, TableOK, HeldOK
    <3> QED BY <3>1, HolderIsCounted
            DEF CanUnlock, CanWriteUnlock, CanReadUnlock
  <2> QED BY <2>1, <2>2, <2>3 DEF LocksNeverPanic
<1> QED BY <1>1, <1>2, <1>3, <1>4

-----------------------------------------------------------------------------
(* Nothing is locked at the start. *)
LEMMA InitTableOK ==
  ASSUME LocksInit
  PROVE  TableOK
<1>1. HeldOK
  BY DEF LocksInit, HeldOK
<1>2. ASSUME NEW a \in Account
      PROVE  EntryOK(locks[a], WriteHoldersOf(a), ReadHoldersOf(a))
  <2>1. locks[a] = NoLocks
    BY DEF LocksInit
  <2>2. \A t \in Thread : /\ WriteHoldersOf(a)[t] = {}
                          /\ ReadHoldersOf(a)[t] = {}
    BY DEF LocksInit, WriteHoldersOf, ReadHoldersOf, WriteHolders, ReadHolders
  <2>3. NoLocks \in AccountLock /\ MixedOnOneThread(NoLocks)
    BY DEF NoLocks, AccountLock, MixedOnOneThread
  <2>4. Counts(NoLocks, WriteHoldersOf(a), ReadHoldersOf(a))
    BY <2>2, FS_EmptySet DEF NoLocks, Counts
  <2> QED BY <2>1, <2>3, <2>4 DEF EntryOK
<1> QED BY <1>1, <1>2 DEF TableOK, LocksInit

(* Locking keeps the table that of the holders. *)
LEMMA TryLockTableOK ==
  ASSUME TableOK, NEW x \in Tx, NEW t \in Thread, TryLockAccounts(x, t)
  PROVE  TableOK'
<1>1. /\ x \notin DOMAIN held /\ t \in SchedulableThreads(locks, x)
      /\ locks' = LockAccounts(locks, x, t)
      /\ held' = [y \in DOMAIN held \cup {x} |-> IF y = x THEN t ELSE held[y]]
  BY DEF TryLockAccounts
<1>2. CanLock(locks, x, t)
  BY <1>1, SchedulableCanLock
<1>3. HeldOK /\ HeldOK'
  BY <1>1 DEF TableOK, HeldOK
<1>4. ASSUME NEW a \in Account
      PROVE  EntryOK(locks'[a], WriteHoldersOf(a)', ReadHoldersOf(a)')
  <2> DEFINE W == WriteHoldersOf(a)
             R == ReadHoldersOf(a)
  <2>1. W \in Holders /\ R \in Holders /\ EntryOK(locks[a], W, R)
    BY <1>3, HoldersOfType DEF TableOK
  <2>2. x \notin W[t] /\ x \notin R[t]
    BY <1>1 DEF WriteHoldersOf, ReadHoldersOf, WriteHolders, ReadHolders
  <2>3. W' = IF a \in Writes[x] THEN [W EXCEPT ![t] = @ \cup {x}] ELSE W
    BY <1>1, <1>3, Zenon DEF HeldOK, WriteHoldersOf, WriteHolders
  <2>4. R' = IF a \in Reads[x] THEN [R EXCEPT ![t] = @ \cup {x}] ELSE R
    BY <1>1, <1>3, Zenon DEF HeldOK, ReadHoldersOf, ReadHolders
  <2>5. ~(a \in Writes[x] /\ a \in Reads[x])
    BY LocksAssumption DEF LocksAssumption
  <2> HIDE DEF W, R
  <2>6. EntryOK(locks'[a], W', R')
    <3>1. CASE a \in Writes[x]
      <4>1. locks'[a] = WriteLock(locks[a], t) /\ CanWriteLock(locks[a], t)
        BY <3>1, <1>1, <1>2 DEF LockAccounts, CanLock
      <4>2. EntryOK(WriteLock(locks[a], t), [W EXCEPT ![t] = @ \cup {x}], R)
        BY <4>1, <2>1, <2>2, WriteLockOK
      <4> QED BY <4>1, <4>2, <3>1, <2>3, <2>4, <2>5
    <3>2. CASE a \in Reads[x]
      <4>1. locks'[a] = ReadLock(locks[a], t) /\ CanReadLock(locks[a], t)
        BY <3>2, <2>5, <1>1, <1>2 DEF LockAccounts, CanLock
      <4>2. EntryOK(ReadLock(locks[a], t), W, [R EXCEPT ![t] = @ \cup {x}])
        BY <4>1, <2>1, <2>2, ReadLockOK
      <4> QED BY <4>1, <4>2, <3>2, <2>3, <2>4, <2>5
    <3>3. CASE a \notin Writes[x] /\ a \notin Reads[x]
      BY <3>3, <1>1, <2>1, <2>3, <2>4 DEF LockAccounts
    <3> QED BY <3>1, <3>2, <3>3
  <2> QED BY <2>6 DEF W, R
<1>5. locks' = [a \in Account |-> locks'[a]]
  BY <1>1 DEF LockAccounts
<1> QED BY <1>3, <1>4, <1>5 DEF TableOK

(* So does unlocking. *)
LEMMA UnlockTableOK ==
  ASSUME TableOK, NEW x \in Tx, UnlockHeld(x)
  PROVE  TableOK'
<1> DEFINE t == held[x]
<1>1. /\ x \in DOMAIN held /\ locks' = UnlockAccounts(locks, x, t)
      /\ held' = [y \in DOMAIN held \ {x} |-> held[y]]
  BY DEF UnlockHeld
<1>2. HeldOK /\ HeldOK' /\ t \in Thread
  BY <1>1 DEF TableOK, HeldOK
<1>3. ASSUME NEW a \in Account
      PROVE  EntryOK(locks'[a], WriteHoldersOf(a)', ReadHoldersOf(a)')
  <2> DEFINE W == WriteHoldersOf(a)
             R == ReadHoldersOf(a)
  <2>1. W \in Holders /\ R \in Holders /\ EntryOK(locks[a], W, R)
    BY <1>2, HoldersOfType DEF TableOK
  <2>2. (a \in Writes[x] => x \in W[t]) /\ (a \in Reads[x] => x \in R[t])
    BY <1>1, <1>2 DEF WriteHoldersOf, ReadHoldersOf, WriteHolders, ReadHolders
  <2>3. W' = IF a \in Writes[x] THEN [W EXCEPT ![t] = @ \ {x}] ELSE W
    BY <1>1, <1>2, Zenon DEF HeldOK, WriteHoldersOf, WriteHolders
  <2>4. R' = IF a \in Reads[x] THEN [R EXCEPT ![t] = @ \ {x}] ELSE R
    BY <1>1, <1>2, Zenon DEF HeldOK, ReadHoldersOf, ReadHolders
  <2>5. ~(a \in Writes[x] /\ a \in Reads[x])
    BY LocksAssumption DEF LocksAssumption
  <2> HIDE DEF W, R, t
  <2>6. EntryOK(locks'[a], W', R')
    <3>1. CASE a \in Writes[x]
      <4>1. locks'[a] = WriteUnlock(locks[a], t)
        BY <3>1, <1>1 DEF UnlockAccounts
      <4>2. EntryOK(WriteUnlock(locks[a], t), [W EXCEPT ![t] = @ \ {x}], R)
        BY <3>1, <1>2, <2>1, <2>2, WriteUnlockOK
      <4> QED BY <4>1, <4>2, <3>1, <2>3, <2>4, <2>5
    <3>2. CASE a \in Reads[x]
      <4>1. locks'[a] = ReadUnlock(locks[a], t)
        BY <3>2, <2>5, <1>1 DEF UnlockAccounts
      <4>2. EntryOK(ReadUnlock(locks[a], t), W, [R EXCEPT ![t] = @ \ {x}])
        BY <3>2, <1>2, <2>1, <2>2, ReadUnlockOK
      <4> QED BY <4>1, <4>2, <3>2, <2>3, <2>4, <2>5
    <3>3. CASE a \notin Writes[x] /\ a \notin Reads[x]
      BY <3>3, <1>1, <2>1, <2>3, <2>4 DEF UnlockAccounts
    <3> QED BY <3>1, <3>2, <3>3
  <2> QED BY <2>6 DEF W, R
<1>4. locks' = [a \in Account |-> locks'[a]]
  BY <1>1 DEF UnlockAccounts
<1> QED BY <1>2, <1>3, <1>4 DEF TableOK

(* The invariant holds in every state of the table. *)
THEOREM LocksInvariant == LocksSpec => []TableOK
<1>1. LocksInit => TableOK
  BY InitTableOK
<1>2. TableOK /\ [LocksNext]_lockVars => TableOK'
  <2> SUFFICES ASSUME TableOK, [LocksNext]_lockVars PROVE TableOK'
    OBVIOUS
  <2>1. CASE \E x \in Tx, t \in Thread : TryLockAccounts(x, t)
    BY <2>1, TryLockTableOK
  <2>2. CASE \E x \in Tx : UnlockHeld(x)
    BY <2>2, UnlockTableOK
  <2>3. CASE UNCHANGED lockVars
    BY <2>3 DEF lockVars, TableOK, HeldOK, WriteHoldersOf, ReadHoldersOf,
                WriteHolders, ReadHolders
  <2> QED BY <2>1, <2>2, <2>3 DEF LocksNext
<1> QED BY <1>1, <1>2, PTL DEF LocksSpec

(* Whatever transactions the schedulers lock and unlock in whatever order, *)
(* two that conflict (one writes what the other uses) are never held by    *)
(* two worker threads.                                                     *)
THEOREM HeldConflictsShareThread == LocksSpec => []ConflictsShareThread
BY LocksInvariant, TableOKImplies, PTL

(* No lock is left behind or dropped early: the counts of each account are *)
(* those of its holders.                                                   *)
THEOREM LocksAreCounted == LocksSpec => [](LocksTypeOK /\ TableCountsHolders)
BY LocksInvariant, TableOKImplies, PTL

(* None of the assertions in thread_aware_account_locks.rs can fail.       *)
THEOREM LocksCannotPanic == LocksSpec => []LocksNeverPanic
BY LocksInvariant, TableOKImplies, PTL

-----------------------------------------------------------------------------
(* BankHashCache.  Dumping never makes the bank hash cache lie. *)

(* A hash h kept for slot s is still the hash of the bank, or the bank is  *)
(* gone for good: before the root, or pruned with its block kept.          *)
Lasting(s, h) ==
  \/ banks[s] = h
  \/ banks[s] = Missing /\ (s < root \/ s \in pruned)

(* The mutex is held when hash() is in progress, the write lock when       *)
(* dump_slots is.                                                          *)
LocksOK ==
  /\ asked # 0 => locked
  /\ notified => writer
  /\ ~locked => answers = Empty

(* Once the subscribers are told and until the banks are removed, the      *)
(* cache is marked as invalid or empty, and nothing has been answered.     *)
Invalidated ==
  writer /\ notified =>
    /\ slots_dumped \/ hashes = Empty
    /\ answers = Empty

(* A cache that is not marked as invalid, and the answers given under the  *)
(* lock, last, except for slots cleared for repair.                        *)
CacheLasts ==
  ~slots_dumped =>
    \A s \in Slot \ repaired : hashes[s] # Missing => Lasting(s, hashes[s])
AnswersLast ==
  \A s \in Slot \ repaired : answers[s] # Missing => Lasting(s, answers[s])

(* The inductive invariant. *)
IInv == TypeOK /\ LocksOK /\ Invalidated /\ CacheLasts /\ AnswersLast

(* Init: both locks are free and the cache is empty. *)
LEMMA InitIInv == Init => IInv
BY SlotAssumption, Zenon
DEF Init, IInv, TypeOK, LocksOK, Invalidated, CacheLasts, AnswersLast, Empty

(* A bank is inserted only in a slot that is not pruned nor rooted, so no  *)
(* lasting hash of a bank that is gone is contradicted.                    *)
LEMMA InsertBankIInv ==
  ASSUME IInv, NEW t \in Slot, InsertBank(t)
  PROVE  IInv'
<1>1. TypeOK'
  BY DEF IInv, TypeOK, InsertBank, dumpVars, cacheVars
<1>2. LocksOK' /\ Invalidated'
  BY DEF IInv, LocksOK, Invalidated, InsertBank, dumpVars, cacheVars, Empty
<1>3. CacheLasts' /\ AnswersLast'
  BY SlotAssumption
  DEF IInv, TypeOK, CacheLasts, AnswersLast, Lasting, InsertBank, dumpVars,
      cacheVars
<1>4. QED
  BY <1>1, <1>2, <1>3 DEF IInv

(* Only a bank that is not frozen is frozen, and no kept hash is of one.   *)
LEMMA FreezeIInv ==
  ASSUME IInv, NEW t \in Slot, NEW h \in Hash, Freeze(t, h)
  PROVE  IInv'
<1>1. TypeOK'
  BY DEF IInv, TypeOK, Freeze, dumpVars, cacheVars
<1>2. LocksOK' /\ Invalidated'
  BY DEF IInv, LocksOK, Invalidated, Freeze, dumpVars, cacheVars, Empty
<1>3. CacheLasts' /\ AnswersLast'
  BY SlotAssumption
  DEF IInv, TypeOK, CacheLasts, AnswersLast, Lasting, Freeze, dumpVars,
      cacheVars
<1>4. QED
  BY <1>1, <1>2, <1>3 DEF IInv

(* The banks that set_root removes are before the root or pruned. *)
LEMMA SetRootIInv ==
  ASSUME IInv, NEW r \in Slot, NEW S \in SUBSET Slot, SetRoot(r, S)
  PROVE  IInv'
<1>1. TypeOK'
  BY DEF IInv, TypeOK, SetRoot, dumpVars, cacheVars
<1>2. LocksOK' /\ Invalidated'
  BY DEF IInv, LocksOK, Invalidated, SetRoot, dumpVars, cacheVars, Empty
<1>3. ASSUME NEW s \in Slot, NEW h, Lasting(s, h)
      PROVE  Lasting(s, h)'
  <2>1. root \in Nat /\ r \in Nat /\ s \in Nat /\ root < r
    BY SlotAssumption DEF IInv, TypeOK, SetRoot
  <2>2. QED
    BY <1>3, <2>1 DEF Lasting, SetRoot, IInv, TypeOK
<1>4. CacheLasts' /\ AnswersLast'
  BY <1>3 DEF IInv, CacheLasts, AnswersLast, SetRoot, cacheVars
<1>5. QED
  BY <1>1, <1>2, <1>4 DEF IInv

(* A slot cleared for repair is excepted from then on. *)
LEMMA PurgePrunedIInv ==
  ASSUME IInv, NEW t \in Slot, PurgePruned(t)
  PROVE  IInv'
<1>1. TypeOK'
  BY DEF IInv, TypeOK, PurgePruned, dumpVars, cacheVars
<1>2. LocksOK' /\ Invalidated'
  BY DEF IInv, LocksOK, Invalidated, PurgePruned, dumpVars, cacheVars, Empty
<1>3. CacheLasts' /\ AnswersLast'
  BY DEF IInv, TypeOK, CacheLasts, AnswersLast, Lasting, PurgePruned,
         dumpVars, cacheVars
<1>4. QED
  BY <1>1, <1>2, <1>3 DEF IInv

(* The three steps of a dump: telling the subscribers invalidates the      *)
(* cache, and the banks go only when nothing valid is kept.                *)
LEMMA DumpIInv ==
  ASSUME IInv,
         \/ \E S \in SUBSET Slot : LockBankForks(S)
         \/ NotifySubscribers
         \/ RemoveBanks
  PROVE  IInv'
<1>1. ASSUME NEW S \in SUBSET Slot, LockBankForks(S)
      PROVE  IInv'
  BY <1>1 DEF IInv, TypeOK, LocksOK, Invalidated, CacheLasts, AnswersLast,
              Lasting, LockBankForks, bankVars, cacheVars, Empty
<1>2. CASE NotifySubscribers
  BY <1>2 DEF IInv, TypeOK, LocksOK, Invalidated, CacheLasts, AnswersLast,
              Lasting, NotifySubscribers, bankVars, cacheVars, Empty
<1>3. CASE RemoveBanks
  <2>1. TypeOK'
    BY <1>3, Zenon DEF IInv, TypeOK, RemoveBanks, cacheVars
  <2>2. LocksOK' /\ Invalidated'
    BY <1>3 DEF IInv, LocksOK, Invalidated, RemoveBanks, cacheVars, Empty
  <2>3. answers' = Empty /\ (~slots_dumped' => hashes' = Empty)
    BY <1>3 DEF IInv, Invalidated, RemoveBanks, cacheVars
  <2>4. CacheLasts' /\ AnswersLast'
    BY <2>3 DEF CacheLasts, AnswersLast, Empty
  <2>5. QED
    BY <2>1, <2>2, <2>4 DEF IInv
<1>4. QED
  BY <1>1, <1>2, <1>3

(* The listener's steps: a hit answers with a kept hash, a miss with the   *)
(* hash of the bank, which no dump is removing as the write lock is free.  *)
LEMMA ListenerIInv ==
  ASSUME IInv,
         \/ PruneCache \/ Lock \/ ReadBankForks \/ Unlock
         \/ \E s \in Slot : QueryHash(s)
  PROVE  IInv'
<1>1. CASE PruneCache
  BY <1>1 DEF IInv, TypeOK, LocksOK, Invalidated, CacheLasts, AnswersLast,
              Lasting, PruneCache, bankVars, dumpVars, Empty
<1>2. CASE Lock \/ Unlock
  <2>1. TypeOK' /\ answers' = Empty
    BY <1>2, Zenon DEF IInv, TypeOK, Lock, Unlock, bankVars, dumpVars, Empty
  <2>2. LocksOK' /\ Invalidated'
    BY <1>2, <2>1 DEF IInv, LocksOK, Invalidated, Lock, Unlock, dumpVars, Empty
  <2>3. CacheLasts' /\ AnswersLast'
    BY <1>2, <2>1
    DEF IInv, CacheLasts, AnswersLast, Lasting, Lock, Unlock, bankVars, Empty
  <2>4. QED
    BY <2>1, <2>2, <2>3 DEF IInv
<1>3. CASE ReadBankForks
  <2>1. TypeOK'
    BY <1>3 DEF IInv, TypeOK, ReadBankForks, bankVars, dumpVars
  <2>2. LocksOK' /\ Invalidated'
    BY <1>3 DEF IInv, TypeOK, LocksOK, Invalidated, ReadBankForks, bankVars,
                dumpVars, Empty
  <2>3. CacheLasts' /\ AnswersLast'
    BY <1>3, SlotAssumption
    DEF IInv, TypeOK, CacheLasts, AnswersLast, Lasting, ReadBankForks,
        bankVars, dumpVars
  <2>4. QED
    BY <2>1, <2>2, <2>3 DEF IInv
<1>4. ASSUME NEW t \in Slot, QueryHash(t)
      PROVE  IInv'
  <2>1. TypeOK'
    <3> DEFINE cached == IF slots_dumped THEN Empty ELSE hashes
    <3>1. Empty \in [Slot -> Hash \cup {Missing}]
      BY DEF Empty
    <3>2. cached \in [Slot -> Hash \cup {Missing}]
      BY <3>1 DEF IInv, TypeOK
    <3>3. /\ hashes' = cached
          /\ IF cached[t] # Missing
             THEN answers' = [answers EXCEPT ![t] = cached[t]] /\ asked' = 0
             ELSE asked' = t /\ answers' = answers
      BY <1>4 DEF QueryHash
    <3> HIDE DEF cached
    <3>4. /\ hashes' \in [Slot -> Hash \cup {Missing}]
          /\ answers' \in [Slot -> Hash \cup {Missing}]
          /\ asked' \in Slot \cup {0}
      BY <1>4, <3>2, <3>3 DEF IInv, TypeOK
    <3> QED
      BY <1>4, <3>4, Zenon DEF IInv, TypeOK, QueryHash, bankVars, dumpVars
  <2>2. LocksOK'
    BY <1>4, SlotAssumption
    DEF IInv, LocksOK, QueryHash, dumpVars, Empty
  <2>3. Invalidated'
    <3> SUFFICES ASSUME writer, notified
                 PROVE  hashes' = Empty /\ answers' = Empty
      BY <1>4 DEF Invalidated, QueryHash, dumpVars
    <3>1. hashes' = Empty
      BY <1>4 DEF IInv, Invalidated, QueryHash
    <3>2. Empty[t] = Missing /\ answers = Empty
      BY DEF IInv, Invalidated, Empty
    <3> QED
      BY <1>4, <3>1, <3>2 DEF QueryHash
  <2>4. CacheLasts' /\ AnswersLast'
    BY <1>4 DEF IInv, TypeOK, CacheLasts, AnswersLast, Lasting, QueryHash,
                bankVars, dumpVars, Empty
  <2>5. QED
    BY <2>1, <2>2, <2>3, <2>4 DEF IInv
<1>5. QED
  BY <1>1, <1>2, <1>3, <1>4

(* Every step keeps the invariant. *)
LEMMA NextIInv == IInv /\ [Next]_vars => IInv'
<1> SUFFICES ASSUME IInv, [Next]_vars PROVE IInv'
  OBVIOUS
<1>1. CASE Next
  BY <1>1, InsertBankIInv, FreezeIInv, SetRootIInv, PurgePrunedIInv, DumpIInv,
     ListenerIInv DEF Next
<1>2. CASE UNCHANGED vars
  BY <1>2 DEF vars, bankVars, dumpVars, cacheVars, IInv, TypeOK, LocksOK,
              Invalidated, CacheLasts, AnswersLast, Lasting, Empty
<1>3. QED
  BY <1>1, <1>2

(* The inductive invariant holds in every reachable state of the cache and *)
(* the replay stage.                                                       *)
THEOREM CacheInvariance == Spec => []IInv
BY InitIInv, NextIInv, PTL DEF Spec

(* The cache, the locks and BankForks always have their types; in          *)
(* particular the cache holds only hashes of frozen banks.                 *)
THEOREM CacheTypeCorrect == Spec => []TypeOK
<1>1. IInv => TypeOK
  BY DEF IInv
<1>2. QED
  BY <1>1, CacheInvariance, PTL

(* However a dump interleaves with the listener's lookups, no hash that    *)
(* hash() has returned under the lock differs from the hash of the frozen  *)
(* bank in BankForks, unless the slot was cleared for repair after it was  *)
(* pruned.                                                                 *)
THEOREM DumpsNeverMakeAnswersStale == Spec => []AnswersSurviveDumps
<1>1. IInv => AnswersSurviveDumps
  BY SlotAssumption
  DEF IInv, AnswersLast, Lasting, AnswersSurviveDumps, Agrees
<1>2. QED
  BY <1>1, CacheInvariance, PTL
==============================================================================
