-------------------------- MODULE SchedulingProofs --------------------------
(***************************************************************************)
(* The scheduling state machine for any number of tasks and addresses:     *)
(* first what locking and unlocking one usage queue preserve, then that    *)
(* the usage queues and the counts of blocked usages start exactly the     *)
(* tasks that LedgerOrder lets run.                                        *)
(***************************************************************************)
EXTENDS SchedulingStateMachine, TLAPS, FiniteSetTheorems

(* The elements of a concatenation. *)
LEMMA ConcatenationType ==
  ASSUME NEW S, NEW a \in Seq(S), NEW b \in Seq(S)
  PROVE  /\ a \o b \in Seq(S) /\ Len(a \o b) = Len(a) + Len(b)
         /\ \A i \in 1..(Len(a) + Len(b)) :
              (a \o b)[i] = IF i <= Len(a) THEN a[i] ELSE b[i - Len(a)]
  OBVIOUS

(* Every non-empty set of naturals has a least element. *)
LEMMA LeastNatural ==
  ASSUME NEW T \in SUBSET Nat, T # {}
  PROVE  \E m \in T : \A x \in T : m <= x
<1>1. IsWellFoundedOn(OpToRel(<, Nat), Nat)
  BY NatLessThanWellFounded, Zenon
<1>2. PICK m \in T : \A x \in T : ~(<<x, m>> \in OpToRel(<, Nat))
  BY <1>1, WFMin, Zenon
<1>3. \A x \in T : x < m <=> <<x, m>> \in OpToRel(<, Nat)
  BY DEF OpToRel
<1>4. \A x \in T : ~(x < m)
  BY <1>2, <1>3, Zenon
<1> QED
  BY <1>4

Waiters(q) == {q.blocked[i].task : i \in DOMAIN q.blocked}

(* The active tasks that hold the queue of address a. *)
Holders(q, a, ctx, act) == {t \in act : a \in Uses(ctx[t]) /\ t \notin Waiters(q)}

(* What is true of a usage queue between two calls, given the lock         *)
(* contexts of the tasks and the active ones.                              *)
QueueOK(q, a, ctx, act) ==
  LET H == Holders(q, a, ctx, act) IN
  /\ \A i \in DOMAIN q.blocked :
       /\ q.blocked[i].task \in act
       /\ a \in Uses(ctx[q.blocked[i].task])
       /\ q.blocked[i].usage = UsageOf(ctx[q.blocked[i].task], a)
  /\ \A i, j \in DOMAIN q.blocked :
       i < j => q.blocked[i].task < q.blocked[j].task
  /\ \A h \in H : \A i \in DOMAIN q.blocked : h < q.blocked[i].task
  /\ q.current.kind = "Unused" =>
       q.current = Unused /\ H = {} /\ q.blocked = <<>>
  /\ q.current.kind = "Writable" =>
       \E h \in act : H = {h} /\ UsageOf(ctx[h], a) = "Writable"
  /\ q.current.kind = "Readonly" =>
       /\ H # {} /\ q.current.count = Cardinality(H)
       /\ \A h \in H : UsageOf(ctx[h], a) = "Readonly"
       /\ q.blocked # <<>> => q.blocked[1].usage = "Writable"

-----------------------------------------------------------------------------
QueueType == [current : Usage, blocked : Seq(UsageFromTask)]

(* What membership in QueueType says. *)
LEMMA QueueTypeFacts ==
  ASSUME NEW q \in QueueType
  PROVE  /\ q = [current |-> q.current, blocked |-> q.blocked]
         /\ q.current.kind \in {"Unused", "Readonly", "Writable"}
         /\ q.current = [kind |-> q.current.kind, count |-> q.current.count]
         /\ q.current.count \in Nat
         /\ q.blocked \in Seq(UsageFromTask)
         /\ Len(q.blocked) \in Nat /\ DOMAIN q.blocked = 1..Len(q.blocked)
         /\ \A i \in DOMAIN q.blocked : /\ q.blocked[i].task \in Nat
                                        /\ q.blocked[i].usage \in RequestedUsage
<1>1. q.current \in Usage /\ q.blocked \in Seq(UsageFromTask)
      /\ q = [current |-> q.current, blocked |-> q.blocked]
  BY DEF QueueType
<1>2. \A i \in DOMAIN q.blocked : q.blocked[i] \in UsageFromTask
  BY <1>1
<1>3. \A x \in UsageFromTask : x.task \in Nat /\ x.usage \in RequestedUsage
  BY DEF UsageFromTask
<1>4. \A x \in Usage : /\ x.kind \in {"Unused", "Readonly", "Writable"}
                       /\ x.count \in Nat /\ x = [kind |-> x.kind, count |-> x.count]
  BY DEF Usage
<1>5. Len(q.blocked) \in Nat /\ DOMAIN q.blocked = 1..Len(q.blocked)
  BY <1>1
<1> QED
  BY <1>1, <1>2, <1>3, <1>4, <1>5, Zenon

(* The loop of unlock_usage_queues stops: at a writer or at the end. *)
LEMMA LeadingReadersStops ==
  ASSUME NEW blocked \in Seq(UsageFromTask)
  PROVE  LET n == LeadingReaders(blocked) IN
         /\ n \in 0..Len(blocked)
         /\ \A i \in 1..n : blocked[i].usage = "Readonly"
         /\ n < Len(blocked) => blocked[n + 1].usage = "Writable"
<1> DEFINE T == {n \in 0..Len(blocked) :
                   n < Len(blocked) => blocked[n + 1].usage = "Writable"}
<1>1. Len(blocked) \in Nat
      /\ \A i \in 1..Len(blocked) : blocked[i].usage \in RequestedUsage
  <2>1. Len(blocked) \in Nat
        /\ \A i \in 1..Len(blocked) : blocked[i] \in UsageFromTask
    OBVIOUS
  <2>2. \A x \in UsageFromTask : x.usage \in RequestedUsage
    BY DEF UsageFromTask
  <2> QED
    BY <2>1, <2>2
<1>2. T \in SUBSET Nat /\ Len(blocked) \in T
  BY <1>1
<1>3. PICK m \in T : \A x \in T : m <= x
  BY <1>2, LeastNatural, Zenon
<1>4. ASSUME NEW i \in 1..m PROVE blocked[i].usage = "Readonly"
  <2>1. m \in 0..Len(blocked)
    BY <1>3
  <2>2. i - 1 \in 0..Len(blocked) /\ ~(m <= i - 1) /\ (i - 1) + 1 = i
        /\ i \in 1..Len(blocked)
    BY <1>1, <2>1
  <2>3. i - 1 \notin T
    BY <1>3, <2>2
  <2>4. blocked[i].usage # "Writable"
    BY <2>2, <2>3
  <2> QED
    BY <2>2, <2>4, <1>1 DEF RequestedUsage
<1>5. m \in 0..Len(blocked)
      /\ (m < Len(blocked) => blocked[m + 1].usage = "Writable")
  BY <1>3
<1>6. \E n \in 0..Len(blocked) :
        /\ \A i \in 1..n : blocked[i].usage = "Readonly"
        /\ n < Len(blocked) => blocked[n + 1].usage = "Writable"
  BY <1>4, <1>5
<1> QED
  BY <1>6, Zenon DEF LeadingReaders

(* How many waiting usages an unlocked queue lets in. *)
LEMMA AdmittedPrefix ==
  ASSUME NEW q \in QueueType
  PROVE  LET n == Admitted(q) IN
         /\ n \in 0..Len(q.blocked)
         /\ n = 0 <=> StillUsed(q) \/ q.blocked = <<>>
         /\ n # 0 /\ q.blocked[1].usage = "Writable" => n = 1
         /\ n # 0 /\ q.blocked[1].usage # "Writable" =>
              /\ \A i \in 1..n : q.blocked[i].usage = "Readonly"
              /\ n < Len(q.blocked) => q.blocked[n + 1].usage = "Writable"
<1>1. q.blocked \in Seq(UsageFromTask) /\ Len(q.blocked) \in Nat
      /\ DOMAIN q.blocked = 1..Len(q.blocked)
  BY QueueTypeFacts, Zenon
<1>2. q.blocked # <<>> => Len(q.blocked) >= 1
  BY <1>1
<1> DEFINE n == LeadingReaders(q.blocked)
<1>3. /\ n \in 0..Len(q.blocked)
      /\ \A i \in 1..n : q.blocked[i].usage = "Readonly"
      /\ n < Len(q.blocked) => q.blocked[n + 1].usage = "Writable"
  BY <1>1, LeadingReadersStops
<1> HIDE DEF n
<1>4. q.blocked # <<>> /\ q.blocked[1].usage # "Writable" => n >= 1
  <2>1. CASE n = 0
    BY <2>1, <1>1, <1>2, <1>3
  <2> QED
    BY <2>1, <1>1, <1>3
<1> QED
  BY <1>1, <1>2, <1>3, <1>4 DEF Admitted, n

(* The conjuncts of QueueOK, to cite where another queue is known right. *)
LEMMA QueueOKIntro ==
  ASSUME NEW q, NEW a, NEW ctx, NEW act, NEW H,
         H = Holders(q, a, ctx, act),
         \A i \in DOMAIN q.blocked :
           /\ q.blocked[i].task \in act
           /\ a \in Uses(ctx[q.blocked[i].task])
           /\ q.blocked[i].usage = UsageOf(ctx[q.blocked[i].task], a),
         \A i, j \in DOMAIN q.blocked :
           i < j => q.blocked[i].task < q.blocked[j].task,
         \A h \in H : \A i \in DOMAIN q.blocked : h < q.blocked[i].task,
         \/ q.current = Unused /\ H = {} /\ q.blocked = <<>>
         \/ /\ q.current = Writable
            /\ \E h \in act : H = {h} /\ UsageOf(ctx[h], a) = "Writable"
         \/ /\ H # {} /\ q.current = Readonly(Cardinality(H))
            /\ \A h \in H : UsageOf(ctx[h], a) = "Readonly"
            /\ q.blocked # <<>> => q.blocked[1].usage = "Writable"
  PROVE  QueueOK(q, a, ctx, act)
<1>1. /\ Unused.kind = "Unused" /\ Writable.kind = "Writable"
      /\ \A n : Readonly(n).kind = "Readonly" /\ Readonly(n).count = n
  BY DEF Unused, Writable, Readonly
<1> QED
  BY <1>1 DEF QueueOK

(* A step of tasks that do not use the address leaves its queue right. *)
LEMMA OtherQueueOK ==
  ASSUME NEW q \in QueueType, NEW a, NEW ctx, NEW act, NEW ctx2, NEW act2,
         QueueOK(q, a, ctx, act),
         \A t \in act : a \in Uses(ctx[t]) => t \in act2 /\ ctx2[t] = ctx[t],
         \A t \in act2 : a \in Uses(ctx2[t]) => t \in act /\ ctx2[t] = ctx[t]
  PROVE  QueueOK(q, a, ctx2, act2)
<1>1. Holders(q, a, ctx2, act2) = Holders(q, a, ctx, act)
  BY DEF Holders
<1>2. \A h \in Holders(q, a, ctx, act) : h \in act2 /\ ctx2[h] = ctx[h]
  BY DEF Holders
<1> QED
  BY <1>1, <1>2 DEF QueueOK

(* try_lock_usage_queues keeps a queue right, and tells who waits in it. *)
LEMMA LockQueueOK ==
  ASSUME NEW q \in QueueType, NEW a, NEW ctx, NEW act \in SUBSET Nat,
         NEW t \in Nat, NEW ctx2, NEW use \in RequestedUsage,
         IsFiniteSet(act), \A u \in act : u < t /\ ctx2[u] = ctx[u],
         a \in Uses(ctx2[t]), use = UsageOf(ctx2[t], a),
         QueueOK(q, a, ctx, act)
  PROVE  /\ LockQueue(q, use, t) \in QueueType
         /\ QueueOK(LockQueue(q, use, t), a, ctx2, act \cup {t})
         /\ Waiters(LockQueue(q, use, t)) =
              Waiters(q) \cup IF Blocks(q, use) THEN {t} ELSE {}
<1> DEFINE q2 == LockQueue(q, use, t)
           H == Holders(q, a, ctx, act)
           H2 == Holders(q2, a, ctx2, act \cup {t})
           e == [usage |-> use, task |-> t]
           n == Len(q.blocked)
<1>1. /\ q = [current |-> q.current, blocked |-> q.blocked]
      /\ q.current.kind \in {"Unused", "Readonly", "Writable"}
      /\ q.current.count \in Nat
      /\ q.blocked \in Seq(UsageFromTask)
      /\ n \in Nat /\ DOMAIN q.blocked = 1..n
      /\ q.current \in Usage
  BY QueueTypeFacts, Zenon DEF QueueType
<1>2. Waiters(q) \subseteq act
  BY DEF QueueOK, Waiters
<1>5. t \notin act /\ \A u \in act : ctx2[u] = ctx[u]
  OBVIOUS
<1>3. CASE Blocks(q, use)
  <2>1. q2 = [current |-> q.current, blocked |-> Append(q.blocked, e)]
    BY <1>1, <1>3, Zenon DEF LockQueue
  <2>2. /\ q2.current = q.current /\ q2.blocked = Append(q.blocked, e)
        /\ e \in UsageFromTask /\ e.task = t /\ e.usage = use
    BY <2>1 DEF UsageFromTask
  <2> HIDE DEF q2, e
  <2>3. /\ DOMAIN q2.blocked = 1..(n + 1) /\ q2.blocked[n + 1] = e
        /\ \A i \in 1..n : q2.blocked[i] = q.blocked[i]
        /\ q2.blocked \in Seq(UsageFromTask)
    BY <1>1, <2>2
  <2>4. q2 \in QueueType
    BY <1>1, <2>1, <2>2, <2>3 DEF QueueType
  <2>5. Waiters(q2) = Waiters(q) \cup {t}
    <3>1. \A i \in 1..(n + 1) : i \in 1..n \/ i = n + 1
      BY <1>1
    <3>2. 1..n \subseteq 1..(n + 1) /\ n + 1 \in 1..(n + 1)
      BY <1>1
    <3> QED
      BY <1>1, <2>2, <2>3, <3>1, <3>2 DEF Waiters
  <2>6. H2 = H
    BY <1>2, <1>5, <2>5, Zenon DEF Holders
  <2>7. \A h \in H : h \in act /\ ctx2[h] = ctx[h] /\ h < t
    BY DEF Holders
  <2>8. q.current.kind # "Unused"
    BY <1>3 DEF QueueOK, Blocks, TryLockOk
  <2> HIDE DEF H, H2
  <2>9. \A i \in DOMAIN q2.blocked :
          /\ q2.blocked[i].task \in act \cup {t}
          /\ a \in Uses(ctx2[q2.blocked[i].task])
          /\ q2.blocked[i].usage = UsageOf(ctx2[q2.blocked[i].task], a)
    <3> SUFFICES ASSUME NEW i \in 1..(n + 1)
                 PROVE  /\ q2.blocked[i].task \in act \cup {t}
                        /\ a \in Uses(ctx2[q2.blocked[i].task])
                        /\ q2.blocked[i].usage = UsageOf(ctx2[q2.blocked[i].task], a)
      BY <2>3
    <3>1. CASE i = n + 1
      BY <3>1, <2>2, <2>3
    <3>2. CASE i # n + 1
      <4>1. i \in 1..n
        BY <3>2, <1>1
      <4> QED
        BY <4>1, <2>3, <1>1, SMTT(30) DEF QueueOK
    <3> QED
      BY <3>1, <3>2
  <2>10. \A i, j \in DOMAIN q2.blocked :
           i < j => q2.blocked[i].task < q2.blocked[j].task
    <3> SUFFICES ASSUME NEW i \in 1..(n + 1), NEW j \in 1..(n + 1), i < j
                 PROVE  q2.blocked[i].task < q2.blocked[j].task
      BY <2>3
    <3>1. i \in 1..n /\ q.blocked[i].task < t
      BY <1>1, <1>2 DEF Waiters
    <3>2. CASE j = n + 1
      BY <3>1, <3>2, <2>2, <2>3
    <3>3. CASE j # n + 1
      <4>1. j \in 1..n
        BY <3>3, <1>1
      <4> QED
        BY <4>1, <3>1, <2>3, <1>1, SMTT(30) DEF QueueOK
    <3> QED
      BY <3>2, <3>3
  <2>11. \A h \in H2 : \A i \in DOMAIN q2.blocked : h < q2.blocked[i].task
    <3> SUFFICES ASSUME NEW h \in H, NEW i \in 1..(n + 1)
                 PROVE  h < q2.blocked[i].task
      BY <2>3, <2>6
    <3>1. CASE i = n + 1
      BY <3>1, <2>2, <2>3, <2>7
    <3>2. CASE i # n + 1
      <4>1. i \in 1..n
        BY <3>2, <1>1
      <4> QED
        BY <4>1, <2>3, <1>1 DEF QueueOK, H
    <3> QED
      BY <3>1, <3>2
  <2>12. q2.current.kind = "Writable" =>
           \E h \in act \cup {t} : H2 = {h} /\ UsageOf(ctx2[h], a) = "Writable"
    BY <2>2, <2>6, <2>7 DEF QueueOK, H
  <2>13. q2.current.kind = "Readonly" =>
           /\ H2 # {} /\ q2.current.count = Cardinality(H2)
           /\ \A h \in H2 : UsageOf(ctx2[h], a) = "Readonly"
           /\ q2.blocked[1].usage = "Writable"
    <3> SUFFICES ASSUME q.current.kind = "Readonly"
                 PROVE  /\ H # {} /\ q.current.count = Cardinality(H)
                        /\ \A h \in H : UsageOf(ctx2[h], a) = "Readonly"
                        /\ q2.blocked[1].usage = "Writable"
      BY <2>2, <2>6
    <3>1. /\ H # {} /\ q.current.count = Cardinality(H)
          /\ \A h \in H : UsageOf(ctx2[h], a) = "Readonly"
      BY <2>7 DEF QueueOK, H
    <3>2. CASE q.blocked = <<>>
      <4>1. use = "Writable"
        BY <1>3, <3>2 DEF Blocks, TryLockOk, RequestedUsage
      <4> QED
        BY <4>1, <3>1, <3>2, <2>2, <2>3
    <3>3. CASE q.blocked # <<>>
      <4>1. 1 \in 1..n
        BY <3>3, <1>1
      <4> QED
        BY <4>1, <3>1, <3>3, <2>3 DEF QueueOK
    <3> QED
      BY <3>2, <3>3
  <2>14. QueueOK(q2, a, ctx2, act \cup {t})
    BY <2>2, <2>8, <2>9, <2>10, <2>11, <2>12, <2>13, Zenon DEF QueueOK, H2
  <2> QED
    BY <1>3, <2>4, <2>5, <2>14 DEF q2
<1>4. CASE ~Blocks(q, use)
  <2>1. q.blocked = <<>> /\ TryLockOk(q.current, use)
    BY <1>4 DEF Blocks
  <2>2. q2 = [current |-> TryLock(q.current, use), blocked |-> <<>>]
    BY <1>1, <1>4, <2>1 DEF LockQueue
  <2>3. q2.blocked = <<>> /\ q2.current = TryLock(q.current, use)
        /\ Waiters(q2) = {} /\ Waiters(q) = {} /\ DOMAIN q2.blocked = {}
    BY <2>1, <2>2 DEF Waiters
  <2>4. TryLock(q.current, use) \in Usage
    BY <1>1 DEF TryLock, Usage, Writable, Readonly
  <2>5. q2 \in QueueType
    BY <2>2, <2>4 DEF QueueType
  <2> HIDE DEF q2
  <2>6. H2 = H \cup {t} /\ t \notin H /\ H \subseteq act
    BY <1>5, <2>3, Zenon DEF Holders
  <2>7. \A h \in H : ctx2[h] = ctx[h]
    BY <2>6, Zenon
  <2>8. IsFiniteSet(H)
    BY <2>6, FS_Subset
  <2> HIDE DEF H, H2
  <2>9. CASE use = "Writable"
    <3>1. q.current.kind = "Unused" /\ H = {}
      BY <2>1, <2>9 DEF TryLockOk, QueueOK, H
    <3>2. H2 = {t} /\ q2.current.kind = "Writable"
      BY <2>3, <2>6, <2>9, <3>1 DEF TryLock, Writable
    <3>3. QueueOK(q2, a, ctx2, act \cup {t})
      BY <2>3, <2>9, <3>2, Zenon DEF QueueOK, H2
    <3> QED
      BY <1>4, <2>3, <2>5, <3>3 DEF q2
  <2>10. CASE use = "Readonly"
    <3>1. q.current.count = Cardinality(H)
          /\ \A h \in H : UsageOf(ctx2[h], a) = "Readonly"
      <4>1. CASE q.current.kind = "Unused"
        <5>1. H = {} /\ q.current = Unused
          BY <4>1 DEF QueueOK, H
        <5>2. Cardinality({}) = 0
          BY FS_EmptySet
        <5> QED
          BY <5>1, <5>2 DEF Unused
      <4>2. CASE q.current.kind = "Readonly"
        BY <4>2, <2>7 DEF QueueOK, H
      <4> QED
        BY <2>1, <4>1, <4>2, <2>10 DEF TryLockOk
    <3>2. Cardinality(H2) = q.current.count + 1
      BY <2>6, <2>8, <3>1, FS_AddElement, Zenon
    <3>3. q2.current.kind = "Readonly" /\ q2.current.count = q.current.count + 1
      BY <2>3, <2>10 DEF TryLock, Readonly
    <3>4. H2 # {} /\ \A h \in H2 : UsageOf(ctx2[h], a) = "Readonly"
      BY <2>6, <2>10, <3>1, Zenon
    <3>5. QueueOK(q2, a, ctx2, act \cup {t})
      BY <2>3, <3>2, <3>3, <3>4, Zenon DEF QueueOK, H2
    <3> QED
      BY <1>4, <2>3, <2>5, <3>5 DEF q2
  <2> QED
    BY <2>9, <2>10 DEF RequestedUsage
<1> QED
  BY <1>3, <1>4

(* unlock and the loop behind it keep a queue right: the tasks let in stop *)
(* waiting and hold it.                                                    *)
LEMMA UnlockQueueOK ==
  ASSUME NEW q \in QueueType, NEW a, NEW ctx, NEW act \in SUBSET Nat,
         IsFiniteSet(act), QueueOK(q, a, ctx, act),
         NEW t \in Holders(q, a, ctx, act)
  PROVE  /\ UnlockQueue(q) \in QueueType
         /\ QueueOK(UnlockQueue(q), a, ctx, act \ {t})
         /\ Waiters(UnlockQueue(q)) = Waiters(q) \ AdmittedTasks(q)
         /\ AdmittedTasks(q) \subseteq Waiters(q)
<1> DEFINE q2 == UnlockQueue(q)
           H == Holders(q, a, ctx, act)
           H2 == Holders(q2, a, ctx, act \ {t})
           n == Len(q.blocked)
           k == Admitted(q)
<1>1. /\ q = [current |-> q.current, blocked |-> q.blocked]
      /\ q.current.kind \in {"Unused", "Readonly", "Writable"}
      /\ q.current = [kind |-> q.current.kind, count |-> q.current.count]
      /\ q.current.count \in Nat
      /\ q.blocked \in Seq(UsageFromTask)
      /\ n \in Nat /\ DOMAIN q.blocked = 1..n
      /\ \A i \in 1..n : q.blocked[i].task \in Nat
                         /\ q.blocked[i].usage \in RequestedUsage
  BY QueueTypeFacts
<1>2. t \in H /\ H \subseteq act /\ t \in act
  BY DEF Holders
<1>3. IsFiniteSet(H)
  BY <1>2, FS_Subset
<1>4. /\ k \in 0..n
      /\ k = 0 <=> StillUsed(q) \/ q.blocked = <<>>
      /\ k # 0 /\ q.blocked[1].usage = "Writable" => k = 1
      /\ k # 0 /\ q.blocked[1].usage # "Writable" =>
           /\ \A i \in 1..k : q.blocked[i].usage = "Readonly"
           /\ k < n => q.blocked[k + 1].usage = "Writable"
  BY AdmittedPrefix
<1>5. AdmittedTasks(q) \subseteq Waiters(q)
  <2>1. 1..k \subseteq DOMAIN q.blocked
    BY <1>1, <1>4
  <2> QED
    BY <2>1, Zenon DEF AdmittedTasks, Waiters
<1>6. q.current.kind # "Unused"
  BY <1>2 DEF QueueOK
<1>7. CASE StillUsed(q)
  <2>1. q.current.kind = "Readonly" /\ q.current.count # 1 /\ k = 0
    BY <1>4, <1>7 DEF StillUsed
  <2>2. AdmittedTasks(q) = {}
    BY <2>1 DEF AdmittedTasks
  <2>3. /\ q.current.count = Cardinality(H)
        /\ \A h \in H : UsageOf(ctx[h], a) = "Readonly"
        /\ q.blocked # <<>> => q.blocked[1].usage = "Writable"
    BY <2>1 DEF QueueOK
  <2>4. Cardinality(H) >= 1
    BY <1>2, <1>3, FS_EmptySet, FS_CardinalityType
  <2> DEFINE c == [kind |-> "Readonly", count |-> q.current.count - 1]
  <2>5. q2 = [current |-> c, blocked |-> q.blocked]
    BY <1>1, <1>7, <2>1 DEF UnlockQueue
  <2>6. q2.blocked = q.blocked /\ q2.current = c /\ c \in Usage
    BY <1>1, <2>3, <2>4, <2>5 DEF Usage
  <2>7. q2 \in QueueType
    BY <1>1, <2>5, <2>6 DEF QueueType
  <2> HIDE DEF q2
  <2>8. Waiters(q2) = Waiters(q)
    BY <2>6 DEF Waiters
  <2>9. H2 = H \ {t}
    BY <2>8 DEF Holders
  <2> HIDE DEF H, H2
  <2>10. Cardinality(H2) = q.current.count - 1
    <3>1. Cardinality(H \ {t}) = Cardinality(H) - 1
      BY <1>2, <1>3, FS_RemoveElement, Zenon
    <3> QED
      BY <2>3, <2>9, <3>1
  <2>11. H2 # {}
    <3>1. Cardinality({}) = 0
      BY FS_EmptySet
    <3>2. Cardinality(H2) # 0
      BY <1>1, <2>1, <2>3, <2>4, <2>10
    <3> QED
      BY <3>1, <3>2, Zenon
  <2>12. t \notin Waiters(q)
    BY DEF Holders
  <2>13. \A i \in DOMAIN q.blocked : q.blocked[i].task \in act \ {t}
    BY <2>12 DEF QueueOK, Waiters
  <2>14. c.kind = "Readonly" /\ c.count = q.current.count - 1
    OBVIOUS
  <2> HIDE DEF c
  <2>15. \A h \in H2 : h \in H
    BY <2>9
  <2>16. QueueOK(q2, a, ctx, act \ {t})
    BY <2>3, <2>6, <2>10, <2>11, <2>13, <2>14, <2>15, Zenon DEF QueueOK, H, H2
  <2> QED
    BY <1>5, <2>2, <2>7, <2>8, <2>16, SMTT(30) DEF q2
<1>8. CASE ~StillUsed(q)
  <2>1. H = {t}
    <3>1. CASE q.current.kind = "Writable"
      BY <3>1, <1>2 DEF QueueOK
    <3>2. CASE q.current.kind = "Readonly"
      <4>1. Cardinality(H) = 1
        BY <3>2, <1>8 DEF QueueOK, StillUsed
      <4>2. \E x : H = {x}
        BY <1>3, <4>1, FS_Singleton
      <4> QED
        BY <4>2, <1>2
    <3> QED
      BY <1>1, <1>6, <3>1, <3>2
  <2> DEFINE c == IF q.blocked = <<>> THEN Unused
                  ELSE IF q.blocked[1].usage = "Writable" THEN Writable
                  ELSE Readonly(k)
             b == SubSeq(q.blocked, k + 1, n)
  <2>2. q2 = [current |-> c, blocked |-> b]
    BY <1>8 DEF UnlockQueue
  <2>4. c \in Usage
    BY <1>4 DEF Usage, Unused, Writable, Readonly
  <2>5. /\ b \in Seq(UsageFromTask) /\ Len(b) = n - k
        /\ DOMAIN b = 1..(n - k)
        /\ \A i \in 1..(n - k) : b[i] = q.blocked[k + i]
    BY <1>1, <1>4, SMTT(30)
  <2> HIDE DEF q2, b, c
  <2>3. q2.current = c /\ q2.blocked = b
    BY <2>2
  <2>6. q2 \in QueueType
    BY <2>2, <2>4, <2>5 DEF QueueType
  <2>7. Waiters(q2) = {q.blocked[i].task : i \in (k + 1)..n}
    <3>1. \A i \in 1..(n - k) : k + i \in (k + 1)..n
      BY <1>1, <1>4
    <3>2. \A i \in (k + 1)..n : i - k \in 1..(n - k) /\ k + (i - k) = i
      BY <1>1, <1>4
    <3> QED
      BY <2>3, <2>5, <3>1, <3>2, SMTT(30) DEF Waiters
  <2>8. \A i, j \in 1..n : q.blocked[i].task = q.blocked[j].task => i = j
    <3> SUFFICES ASSUME NEW i \in 1..n, NEW j \in 1..n,
                        q.blocked[i].task = q.blocked[j].task
                 PROVE  i = j
      OBVIOUS
    <3>1. i < j => q.blocked[i].task < q.blocked[j].task
      BY <1>1 DEF QueueOK
    <3>2. j < i => q.blocked[j].task < q.blocked[i].task
      BY <1>1 DEF QueueOK
    <3> QED
      BY <1>1, <3>1, <3>2
  <2>9. Waiters(q2) = Waiters(q) \ AdmittedTasks(q)
    <3>1. \A i \in 1..n : i \in 1..k \/ i \in (k + 1)..n
      BY <1>1, <1>4
    <3>2. \A i \in 1..k : i \in 1..n /\ i \notin (k + 1)..n
      BY <1>1, <1>4
    <3>3. \A i \in (k + 1)..n : i \in 1..n
      BY <1>1, <1>4
    <3>4. /\ Waiters(q) = {q.blocked[i].task : i \in 1..n}
          /\ AdmittedTasks(q) = {q.blocked[i].task : i \in 1..k}
      BY <1>1 DEF Waiters, AdmittedTasks
    <3>5. Waiters(q2) \subseteq Waiters(q) \ AdmittedTasks(q)
      BY <2>7, <2>8, <3>2, <3>3, <3>4, Zenon
    <3>6. Waiters(q) \ AdmittedTasks(q) \subseteq Waiters(q2)
      BY <2>7, <3>1, <3>4, Zenon
    <3> QED
      BY <3>5, <3>6, Zenon
  <2>10. \A u \in Waiters(q) : u \in act /\ u # t /\ a \in Uses(ctx[u])
    BY <1>1 DEF QueueOK, Waiters, Holders
  <2>11. H2 = AdmittedTasks(q)
    <3>1. \A u \in act \ {t} : a \in Uses(ctx[u]) => u \in Waiters(q)
      BY <2>1 DEF Holders
    <3> QED
      BY <1>5, <2>9, <2>10, <3>1, Zenon DEF Holders
  <2>12. H2 = {q.blocked[i].task : i \in 1..k}
    BY <2>11, Zenon DEF AdmittedTasks
  <2> HIDE DEF H, H2
  <2>13. Cardinality(H2) = k
    <3> DEFINE f == [i \in 1..k |-> q.blocked[i].task]
    <3>1. 1..k \subseteq 1..n
      BY <1>1, <1>4
    <3>2. f \in Bijection(1..k, H2)
      BY <2>8, <2>12, <3>1 DEF Bijection, Injection, Surjection, IsInjective
    <3>3. IsFiniteSet(1..k) /\ Cardinality(1..k) = k
      BY <1>4, FS_Interval
    <3>4. ExistsBijection(1..k, H2)
      BY <3>2, Zenon DEF ExistsBijection
    <3>5. Cardinality(H2) = Cardinality(1..k)
      BY <3>3, <3>4, FS_Bijection, Zenon
    <3> QED
      BY <3>3, <3>5, Zenon
  <2>14. QueueOK(q2, a, ctx, act \ {t})
    <3>1. \A i \in 1..(n - k) : k + i \in 1..n
      BY <1>1, <1>4
    <3>2. \A i \in DOMAIN q2.blocked :
            /\ q2.blocked[i].task \in act \ {t}
            /\ a \in Uses(ctx[q2.blocked[i].task])
            /\ q2.blocked[i].usage = UsageOf(ctx[q2.blocked[i].task], a)
      <4>1. \A i \in 1..n : /\ q.blocked[i].task \in act \ {t}
                            /\ a \in Uses(ctx[q.blocked[i].task])
                            /\ q.blocked[i].usage = UsageOf(ctx[q.blocked[i].task], a)
        BY <1>1, <2>10 DEF QueueOK, Waiters
      <4> QED
        BY <2>3, <2>5, <3>1, <4>1
    <3>3. \A i, j \in DOMAIN q2.blocked :
            i < j => q2.blocked[i].task < q2.blocked[j].task
      <4> SUFFICES ASSUME NEW i \in 1..(n - k), NEW j \in 1..(n - k), i < j
                   PROVE  q.blocked[k + i].task < q.blocked[k + j].task
        BY <2>3, <2>5
      <4>1. k + i \in 1..n /\ k + j \in 1..n /\ k + i < k + j
        BY <1>1, <1>4
      <4> QED
        BY <1>1, <4>1 DEF QueueOK
    <3>4. \A h \in H2 : \A i \in DOMAIN q2.blocked : h < q2.blocked[i].task
      <4> SUFFICES ASSUME NEW i \in 1..k, NEW j \in 1..(n - k)
                   PROVE  q.blocked[i].task < q.blocked[k + j].task
        BY <2>3, <2>5, <2>12
      <4>1. i \in 1..n /\ k + j \in 1..n /\ i < k + j
        BY <1>1, <1>4
      <4> QED
        BY <1>1, <4>1 DEF QueueOK
    <3>5. CASE q.blocked = <<>>
      <4>1. n = 0 /\ k = 0
        BY <1>1, <1>4, <3>5
      <4>2. c = Unused /\ H2 = {} /\ q2.blocked = <<>>
        BY <2>3, <2>5, <2>12, <3>5, <4>1 DEF c
      <4> QED
        BY <2>3, <3>2, <3>3, <3>4, <4>2, QueueOKIntro, Zenon DEF H2
    <3>6. CASE q.blocked # <<>>
      <4>1. k >= 1 /\ 1 \in 1..k /\ 1 \in 1..n
        BY <1>1, <1>4, <1>8, <3>6
      <4>2. \A i \in 1..k : i \in 1..n
        BY <1>1, <1>4
      <4>3. \A i \in 1..k : q.blocked[i].usage = UsageOf(ctx[q.blocked[i].task], a)
        BY <1>1, <4>2 DEF QueueOK
      <4>4. CASE q.blocked[1].usage = "Writable"
        <5>1. k = 1 /\ c = Writable
          BY <1>4, <3>6, <4>1, <4>4 DEF c
        <5>2. H2 = {q.blocked[1].task}
          BY <2>12, <5>1
        <5>3. UsageOf(ctx[q.blocked[1].task], a) = "Writable"
          BY <4>1, <4>3, <4>4
        <5>4. q.blocked[1].task \in act \ {t}
          BY <5>2 DEF H2, Holders
        <5> QED
          BY <2>3, <3>2, <3>3, <3>4, <5>1, <5>2, <5>3, <5>4, QueueOKIntro, Zenon DEF H2
      <4>5. CASE q.blocked[1].usage # "Writable"
        <5>1. c = Readonly(k)
          BY <3>6, <4>5 DEF c
        <5>2. H2 # {} /\ \A h \in H2 : UsageOf(ctx[h], a) = "Readonly"
          BY <1>4, <2>12, <4>1, <4>3, <4>5, SMTT(30)
        <5>3. q2.blocked # <<>> => q2.blocked[1].usage = "Writable"
          <6> SUFFICES ASSUME b # <<>> PROVE b[1].usage = "Writable"
            BY <2>3
          <6>1. 1 \in 1..(n - k) /\ k < n
            BY <1>1, <1>4, <2>5
          <6> QED
            BY <1>4, <2>5, <4>1, <4>5, <6>1
        <5> QED
          BY <2>3, <2>13, <3>2, <3>3, <3>4, <5>1, <5>2, <5>3, QueueOKIntro, Zenon DEF H2
      <4> QED
        BY <4>4, <4>5
    <3> QED
      BY <3>5, <3>6
  <2> QED
    BY <1>5, <2>6, <2>9, <2>14 DEF q2
<1> QED
  BY <1>7, <1>8
-----------------------------------------------------------------------------
WaitsFor(t) == {a \in Uses(lockContexts[t]) : t \in Waiters(usageQueues[a])}

IInv ==
  /\ TypeOK
  /\ \A a \in Address : QueueOK(usageQueues[a], a, lockContexts, Active)
  /\ \A u \in Active : /\ blockedUsageCount[u] = Cardinality(WaitsFor(u))
                       /\ u \in Started <=> WaitsFor(u) = {}
  /\ Started \subseteq Active
  /\ \A i \in DOMAIN unblockedTaskQueue : unblockedTaskQueue[i] \notin executing
  /\ \A i, j \in DOMAIN unblockedTaskQueue :
       unblockedTaskQueue[i] = unblockedTaskQueue[j] => i = j
  /\ activeTaskCount = Cardinality(Active)
-----------------------------------------------------------------------------
(* A task that waits for nothing holds each of its queues. *)
LEMMA StartedHolds ==
  ASSUME IInv, NEW t \in Started, NEW a \in Uses(lockContexts[t])
  PROVE  t \in Holders(usageQueues[a], a, lockContexts, Active)
  BY Zenon DEF IInv, WaitsFor, Holders

(* The addresses of a task are addresses. *)
LEMMA UsesType ==
  ASSUME NEW r \in Requests
  PROVE  /\ Uses(r) \subseteq Address /\ IsFiniteSet(Uses(r))
         /\ \A a \in Uses(r) : UsageOf(r, a) \in RequestedUsage
<1>1. r \in Seq(LockContext)
  BY RequestsAssumption
<1>2. \A i \in DOMAIN r : r[i] \in LockContext
  BY <1>1
<1>3. \A x \in LockContext : x.address \in Address /\ x.usage \in RequestedUsage
  BY DEF LockContext
<1>4. Uses(r) \subseteq Address
  BY <1>2, <1>3 DEF Uses
<1>5. IsFiniteSet(Uses(r))
  BY <1>4, FS_Subset, RequestsAssumption
<1>6. ASSUME NEW a \in Uses(r) PROVE UsageOf(r, a) \in RequestedUsage
  <2>1. \E i \in DOMAIN r : r[i].address = a
    BY DEF Uses
  <2> DEFINE i == CHOOSE i \in DOMAIN r : r[i].address = a
  <2>2. i \in DOMAIN r
    BY <2>1
  <2> QED
    BY <1>2, <1>3, <2>2 DEF UsageOf
<1> QED
  BY <1>4, <1>5, <1>6

(* The same for the tasks scheduled so far. *)
LEMMA TaskFacts ==
  ASSUME TypeOK
  PROVE  /\ Tasks = 1..Len(lockContexts) /\ Len(lockContexts) \in Nat
         /\ IsFiniteSet(Tasks) /\ Tasks \subseteq Nat
         /\ Active \subseteq Tasks /\ IsFiniteSet(Active)
         /\ \A t \in Tasks :
              /\ lockContexts[t] \in Requests
              /\ Uses(lockContexts[t]) \subseteq Address
              /\ IsFiniteSet(Uses(lockContexts[t]))
              /\ \A a \in Uses(lockContexts[t]) :
                   UsageOf(lockContexts[t], a) \in RequestedUsage
<1>1. lockContexts \in Seq(Requests)
  BY DEF TypeOK
<1>2. /\ Tasks = 1..Len(lockContexts) /\ Len(lockContexts) \in Nat
      /\ \A t \in Tasks : lockContexts[t] \in Requests
  BY <1>1 DEF Tasks
<1>3. IsFiniteSet(Tasks) /\ Tasks \subseteq Nat
  BY <1>2, FS_Interval
<1>4. Active \subseteq Tasks /\ IsFiniteSet(Active)
  BY <1>3, FS_Subset DEF Active
<1> QED
  BY <1>2, <1>3, <1>4, UsesType

(* The queues of IInv, one by one. *)
LEMMA QueueFacts ==
  ASSUME IInv, NEW a \in Address
  PROVE  /\ usageQueues[a] \in QueueType
         /\ QueueOK(usageQueues[a], a, lockContexts, Active)
  BY DEF IInv, TypeOK, QueueType

-----------------------------------------------------------------------------
(* The later of two conflicting active tasks waits in a queue the earlier  *)
(* one uses, so it has not started.                                        *)
LEMMA IInvLedgerOrder == IInv => InLedgerOrder
<1> SUFFICES ASSUME IInv, NEW u \in Started, NEW t \in Active, t < u,
                    Conflict(t, u)
             PROVE  FALSE
  BY DEF InLedgerOrder
<1>1. PICK a \in Uses(lockContexts[t]) \cap Uses(lockContexts[u]) :
        "Writable" \in {UsageOf(lockContexts[t], a), UsageOf(lockContexts[u], a)}
  BY DEF Conflict, Conflicting
<1>2. a \in Address /\ t \in Nat /\ u \in Nat
  BY TaskFacts DEF IInv
<1> DEFINE q == usageQueues[a]
           H == Holders(q, a, lockContexts, Active)
<1>3. q \in QueueType /\ QueueOK(q, a, lockContexts, Active)
  BY <1>2, QueueFacts
<1>4. u \in H
  BY <1>1, StartedHolds
<1>5. q.current.kind \in {"Unused", "Readonly", "Writable"}
  BY <1>3, QueueTypeFacts, Zenon
<1>6. CASE t \in H
  <2>1. t # u
    BY <1>2
  <2>2. q.current.kind # "Unused"
    BY <1>3, <1>4, Zenon DEF QueueOK
  <2>3. q.current.kind # "Writable"
    <3>1. q.current.kind = "Writable" => \E h \in Active : H = {h}
      BY <1>3, Zenon DEF QueueOK
    <3> HIDE DEF q, H
    <3>2. \A h : H # {h}
      BY <1>4, <1>6, <2>1, SMT
    <3> QED
      BY <3>1, <3>2, Zenon
  <2>4. q.current.kind # "Readonly"
    <3>1. q.current.kind = "Readonly" =>
            \A h \in H : UsageOf(lockContexts[h], a) = "Readonly"
      BY <1>3, Zenon DEF QueueOK
    <3> QED
      BY <1>1, <1>4, <1>6, <3>1, Zenon
  <2> QED
    BY <1>5, <2>2, <2>3, <2>4, Zenon
<1>7. CASE t \notin H
  <2>1. \E i \in DOMAIN q.blocked : q.blocked[i].task = t
    BY <1>1, <1>7 DEF Holders, Waiters
  <2>2. u < t
    BY <1>3, <1>4, <2>1 DEF QueueOK
  <2> QED
    BY <1>2, <2>2
<1> QED
  BY <1>6, <1>7

(* A task that has not started waits in some queue, behind an earlier task *)
(* that conflicts with it.                                                 *)
LEMMA IInvNoLostWakeup == IInv => NoLostWakeup
<1> SUFFICES ASSUME IInv, NEW u \in Active, u \notin Started
             PROVE  \E t \in Active : t < u /\ Conflict(t, u)
  BY DEF NoLostWakeup
<1>1. PICK a \in Uses(lockContexts[u]) : u \in Waiters(usageQueues[a])
  BY Zenon DEF IInv, WaitsFor
<1>2. a \in Address
  BY <1>1, TaskFacts DEF IInv
<1> DEFINE q == usageQueues[a]
           H == Holders(q, a, lockContexts, Active)
<1>3. q \in QueueType /\ QueueOK(q, a, lockContexts, Active)
  BY <1>2, QueueFacts
<1>4. PICK i \in DOMAIN q.blocked : q.blocked[i].task = u
  BY <1>1 DEF Waiters
<1>5. /\ q.current.kind \in {"Unused", "Readonly", "Writable"}
      /\ Len(q.blocked) \in Nat /\ DOMAIN q.blocked = 1..Len(q.blocked)
      /\ q.blocked[i].usage \in RequestedUsage
  BY <1>3, QueueTypeFacts, Zenon
<1>6. q.blocked # <<>> /\ q.current.kind # "Unused"
  <2>1. q.blocked # <<>>
    BY <1>4, <1>5
  <2>2. q.current.kind = "Unused" => q.blocked = <<>>
    BY <1>3, Zenon DEF QueueOK
  <2> QED
    BY <2>1, <2>2, Zenon
<1>7. \A h \in H : h \in Active /\ h < u /\ a \in Uses(lockContexts[h])
  BY <1>3, <1>4 DEF QueueOK, Holders
<1>8. q.blocked[i].usage = UsageOf(lockContexts[u], a)
  BY <1>3, <1>4 DEF QueueOK
<1>9. CASE UsageOf(lockContexts[u], a) = "Writable"
  <2>1. H # {}
    BY <1>3, <1>5, <1>6, Zenon DEF QueueOK
  <2> QED
    BY <1>1, <1>7, <1>9, <2>1, SMTT(30) DEF Conflict, Conflicting
<1>10. CASE q.current.kind = "Writable"
  <2>1. \E h \in H : UsageOf(lockContexts[h], a) = "Writable"
    BY <1>3, <1>10 DEF QueueOK
  <2> QED
    BY <1>1, <1>7, <2>1 DEF Conflict, Conflicting
<1>11. CASE /\ UsageOf(lockContexts[u], a) # "Writable"
            /\ q.current.kind = "Readonly"
  <2>1. q.blocked[1].usage = "Writable"
    BY <1>3, <1>6, <1>11 DEF QueueOK
  <2>2. 1 \in DOMAIN q.blocked /\ 1 < i
    BY <1>5, <1>8, <1>11, <2>1, SMTT(30)
  <2> DEFINE t == q.blocked[1].task
  <2>3. /\ t \in Active /\ t < u /\ a \in Uses(lockContexts[t])
        /\ UsageOf(lockContexts[t], a) = "Writable"
    BY <1>3, <1>4, <2>1, <2>2 DEF QueueOK
  <2> QED
    BY <1>1, <2>3 DEF Conflict, Conflicting
<1> QED
  BY <1>5, <1>6, <1>9, <1>10, <1>11

(* Without active tasks nobody holds a queue or waits in one.              *)
LEMMA IInvFreshWhenIdle == IInv => FreshWhenIdle
<1> SUFFICES ASSUME IInv, activeTaskCount = 0
             PROVE  /\ unblockedTaskQueue = <<>>
                    /\ \A a \in Address : usageQueues[a] = Fresh
  BY DEF FreshWhenIdle
<1>1. Active = {}
  BY TaskFacts, FS_EmptySet, Zenon DEF IInv
<1>2. unblockedTaskQueue \in Seq(Tasks) /\ Started = {}
  BY <1>1 DEF IInv, TypeOK
<1>3. unblockedTaskQueue = <<>>
  <2>1. DOMAIN unblockedTaskQueue = {}
    BY <1>2, SMTT(30) DEF Started
  <2> QED
    BY <1>2, <2>1
<1>4. ASSUME NEW a \in Address PROVE usageQueues[a] = Fresh
  <2> DEFINE q == usageQueues[a]
  <2>1. q \in QueueType /\ QueueOK(q, a, lockContexts, Active)
    BY QueueFacts
  <2>2. /\ q = [current |-> q.current, blocked |-> q.blocked]
        /\ q.current.kind \in {"Unused", "Readonly", "Writable"}
    BY <2>1, QueueTypeFacts, Zenon
  <2>3. Holders(q, a, lockContexts, Active) = {}
    BY <1>1 DEF Holders
  <2>4. q.current = Unused /\ q.blocked = <<>>
    BY <2>1, <2>2, <2>3 DEF QueueOK
  <2> QED
    BY <2>2, <2>4 DEF Fresh
<1> QED
  BY <1>3, <1>4

(* A started task holds each of its queues the way it asked for.           *)
LEMMA IInvNeverPanic == IInv => QueuesNeverPanic
<1> SUFFICES ASSUME IInv PROVE QueuesNeverPanic
  OBVIOUS
<1>1. ASSUME NEW t \in Started, NEW a \in Uses(lockContexts[t])
      PROVE  usageQueues[a].current.kind = UsageOf(lockContexts[t], a)
  <2> DEFINE q == usageQueues[a]
  <2>1. t \in Active /\ a \in Address
    BY TaskFacts DEF IInv
  <2>2. q \in QueueType /\ QueueOK(q, a, lockContexts, Active)
    BY <2>1, QueueFacts
  <2>3. t \in Holders(q, a, lockContexts, Active)
    BY StartedHolds
  <2>4. q.current.kind \in {"Unused", "Readonly", "Writable"}
    BY <2>2, QueueTypeFacts, Zenon
  <2> QED
    BY <2>2, <2>3, <2>4 DEF QueueOK
<1>2. ASSUME NEW a \in Address, usageQueues[a].current = Unused
      PROVE  usageQueues[a].blocked = <<>>
  <2>1. usageQueues[a].current.kind = "Unused"
    BY <1>2 DEF Unused
  <2>2. QueueOK(usageQueues[a], a, lockContexts, Active)
    BY QueueFacts, Zenon
  <2> QED
    BY <2>1, <2>2, Zenon DEF QueueOK
<1> QED
  BY <1>1, <1>2 DEF QueuesNeverPanic
-----------------------------------------------------------------------------
(* The state machine starts with fresh queues and no task.                 *)
LEMMA InitIInv == Init => IInv
<1> SUFFICES ASSUME Init PROVE IInv
  OBVIOUS
<1>1. Tasks = {} /\ Active = {} /\ Started = {}
  BY DEF Init, Tasks, Active, Started
<1>2. Fresh \in QueueType /\ Fresh.blocked = <<>> /\ Fresh.current = Unused
  BY DEF Fresh, QueueType, Unused, Usage
<1>3. \A a \in Address : usageQueues[a] = Fresh
  BY DEF Init
<1>4. TypeOK
  <2>1. lockContexts \in Seq(Requests) /\ unblockedTaskQueue \in Seq(Tasks)
    BY DEF Init
  <2>2. blockedUsageCount \in [Tasks -> Nat]
    BY <1>1 DEF Init
  <2>3. usageQueues \in [Address -> QueueType]
    BY <1>2 DEF Init
  <2> QED
    BY <2>1, <2>2, <2>3 DEF Init, TypeOK, counters, QueueType
<1>5. ASSUME NEW a \in Address
      PROVE  QueueOK(usageQueues[a], a, lockContexts, Active)
  BY <1>1, <1>2, <1>3 DEF QueueOK, Holders, Unused
<1>6. activeTaskCount = Cardinality(Active)
  BY <1>1, FS_EmptySet, SMTT(30) DEF Init
<1> QED
  BY <1>1, <1>4, <1>5, <1>6 DEF IInv, Init

(* The waiting tasks are active tasks that use the address. *)
LEMMA WaitersActive ==
  ASSUME IInv, NEW a \in Address, NEW u \in Waiters(usageQueues[a])
  PROVE  u \in Active /\ a \in Uses(lockContexts[u])
<1>1. PICK i \in DOMAIN usageQueues[a].blocked : usageQueues[a].blocked[i].task = u
  BY DEF Waiters
<1> QED
  BY <1>1, QueueFacts DEF QueueOK

(* The four task counters are natural numbers.                             *)
LEMMA CountersType ==
  (\A i \in DOMAIN counters : counters[i] \in Nat) <=>
     /\ activeTaskCount \in Nat /\ handledTaskCount \in Nat
     /\ unblockedTaskCount \in Nat /\ totalTaskCount \in Nat
  BY DEF counters

(* schedule_task preserves the invariant: the new task is the last in      *)
(* every queue it waits in.                                                *)
LEMMA ScheduleTaskIInv ==
  ASSUME IInv, NEW r \in Requests, ScheduleTask(r)
  PROVE  IInv'
<1> DEFINE B == BlockedUsages(r)
<1>1. TypeOK
  BY DEF IInv
<1>0. PICK t \in Nat : t = Len(lockContexts) + 1
  BY <1>1, TaskFacts
<1>2. /\ lockContexts \in Seq(Requests)
      /\ lockContexts' = Append(lockContexts, r)
      /\ blockedUsageCount \in [1..Len(lockContexts) -> Nat]
      /\ finished' = finished /\ unblockedTaskQueue' = unblockedTaskQueue
  BY <1>1, TaskFacts DEF TypeOK, ScheduleTask
<1>3. /\ t \notin Tasks /\ Tasks' = Tasks \cup {t}
      /\ lockContexts' \in Seq(Requests) /\ lockContexts'[t] = r
      /\ \A u \in Tasks : u < t /\ lockContexts'[u] = lockContexts[u]
  BY <1>0, <1>2 DEF Tasks
<1>4. /\ Active \subseteq Tasks /\ finished \subseteq Tasks
      /\ Active' = Active \cup {t} /\ t \notin Active
  BY <1>1, <1>2, <1>3 DEF Active, TypeOK
<1>5. /\ B \subseteq Uses(r) /\ IsFiniteSet(B) /\ Cardinality(B) \in Nat
      /\ Uses(r) \subseteq Address
      /\ \A a \in Uses(r) : UsageOf(r, a) \in RequestedUsage
  <2>1. B \subseteq Uses(r)
    BY DEF BlockedUsages
  <2> QED
    BY <2>1, UsesType, FS_Subset, FS_CardinalityType
<1>6. Active \subseteq Nat /\ IsFiniteSet(Active)
  BY <1>1, TaskFacts
<1>7. ASSUME NEW a \in Address
      PROVE  /\ usageQueues'[a] \in QueueType
             /\ QueueOK(usageQueues'[a], a, lockContexts', Active \cup {t})
             /\ Waiters(usageQueues'[a]) =
                  Waiters(usageQueues[a]) \cup IF a \in B THEN {t} ELSE {}
  <2>1. /\ usageQueues[a] \in QueueType
        /\ QueueOK(usageQueues[a], a, lockContexts, Active)
    BY QueueFacts
  <2>2. CASE a \in Uses(r)
    <3>1. usageQueues'[a] = LockQueue(usageQueues[a], UsageOf(r, a), t)
      BY <1>0, <2>2 DEF ScheduleTask
    <3>2. a \in B <=> Blocks(usageQueues[a], UsageOf(r, a))
      BY <2>2 DEF BlockedUsages
    <3>3. \A u \in Active : u < t /\ lockContexts'[u] = lockContexts[u]
      BY <1>3, <1>4
    <3>4. /\ a \in Uses(lockContexts'[t])
          /\ UsageOf(r, a) = UsageOf(lockContexts'[t], a)
          /\ UsageOf(r, a) \in RequestedUsage
      BY <1>3, <1>5, <2>2
    <3>5. /\ LockQueue(usageQueues[a], UsageOf(r, a), t) \in QueueType
          /\ QueueOK(LockQueue(usageQueues[a], UsageOf(r, a), t), a,
                     lockContexts', Active \cup {t})
          /\ Waiters(LockQueue(usageQueues[a], UsageOf(r, a), t)) =
               Waiters(usageQueues[a])
                 \cup IF Blocks(usageQueues[a], UsageOf(r, a)) THEN {t} ELSE {}
      <4> DEFINE q == usageQueues[a]
                 use == UsageOf(r, a)
                 ctx2 == lockContexts'
      <4>1. /\ q \in QueueType /\ QueueOK(q, a, lockContexts, Active)
            /\ Active \in SUBSET Nat /\ IsFiniteSet(Active)
            /\ use \in RequestedUsage
            /\ \A u \in Active : u < t /\ ctx2[u] = lockContexts[u]
            /\ a \in Uses(ctx2[t]) /\ use = UsageOf(ctx2[t], a)
        BY <1>6, <2>1, <3>3, <3>4
      <4> HIDE DEF q, use, ctx2
      <4>2. /\ LockQueue(q, use, t) \in QueueType
            /\ QueueOK(LockQueue(q, use, t), a, ctx2, Active \cup {t})
            /\ Waiters(LockQueue(q, use, t)) =
                 Waiters(q) \cup IF Blocks(q, use) THEN {t} ELSE {}
        BY <4>1, LockQueueOK, SMTT(30)
      <4> QED
        BY <4>2, Zenon DEF q, use, ctx2
    <3> QED
      BY <3>1, <3>2, <3>5
  <2>3. CASE a \notin Uses(r)
    <3>1. usageQueues'[a] = usageQueues[a] /\ a \notin B
      BY <1>5, <2>3 DEF ScheduleTask
    <3>2. \A u \in Active : lockContexts'[u] = lockContexts[u]
      BY <1>3, <1>4
    <3>3. \A u \in Active \cup {t} : a \in Uses(lockContexts'[u]) =>
            u \in Active /\ lockContexts'[u] = lockContexts[u]
      BY <1>3, <2>3, <3>2
    <3>4. QueueOK(usageQueues[a], a, lockContexts', Active \cup {t})
      BY <2>1, <3>2, <3>3, OtherQueueOK, SMTT(30)
    <3> QED
      BY <2>1, <3>1, <3>4
  <2> QED
    BY <2>2, <2>3
<1>8. ASSUME NEW u \in Active PROVE WaitsFor(u)' = WaitsFor(u)
  <2>1. Uses(lockContexts'[u]) = Uses(lockContexts[u]) /\ u # t
        /\ Uses(lockContexts[u]) \subseteq Address
    BY <1>1, <1>3, <1>4, TaskFacts, SMTT(30)
  <2> QED
    BY <1>7, <2>1 DEF WaitsFor
<1>9. WaitsFor(t)' = B
  <2>1. \A a \in Address : t \notin Waiters(usageQueues[a])
    BY <1>4, WaitersActive
  <2> QED
    BY <1>3, <1>5, <1>7, <2>1 DEF WaitsFor
<1>10. /\ blockedUsageCount' \in [Tasks' -> Nat]
       /\ blockedUsageCount'[t] = Cardinality(B)
       /\ \A u \in Tasks : blockedUsageCount'[u] = blockedUsageCount[u]
  <2>1. blockedUsageCount \in Seq(Nat) /\ Len(blockedUsageCount) = Len(lockContexts)
    BY <1>2
  <2>2. blockedUsageCount' = Append(blockedUsageCount, Cardinality(B))
    BY DEF ScheduleTask
  <2>3. Tasks = 1..Len(lockContexts) /\ Len(lockContexts) \in Nat
    BY <1>1, TaskFacts
  <2> QED
    <3> DEFINE c == Cardinality(B)
               n == Len(lockContexts)
    <3>1. c \in Nat /\ blockedUsageCount' = Append(blockedUsageCount, c)
          /\ n \in Nat /\ Len(blockedUsageCount) = n /\ t = n + 1
          /\ Tasks = 1..n
      BY <1>0, <1>5, <2>1, <2>2, <2>3
    <3> HIDE DEF c, n
    <3>2. /\ blockedUsageCount' \in [1..(n + 1) -> Nat]
          /\ blockedUsageCount'[n + 1] = c
          /\ \A u \in 1..n : blockedUsageCount'[u] = blockedUsageCount[u]
      <4>1. /\ blockedUsageCount' \in Seq(Nat) /\ Len(blockedUsageCount') = n + 1
            /\ \A u \in 1..n : blockedUsageCount'[u] = blockedUsageCount[u]
            /\ blockedUsageCount'[n + 1] = c
        BY <2>1, <3>1
      <4> QED
        BY <4>1
    <3>3. Tasks' = 1..(n + 1)
      BY <1>3, <3>1
    <3>4. /\ blockedUsageCount' \in [Tasks' -> Nat]
          /\ blockedUsageCount'[t] = c
          /\ \A u \in Tasks : blockedUsageCount'[u] = blockedUsageCount[u]
      BY <3>1, <3>2, <3>3
    <3> QED
      BY <3>4 DEF c
<1>11. executing' = executing \cup IF B = {} THEN {t} ELSE {}
  BY <1>0 DEF ScheduleTask
<1>12. Started' = Started \cup IF B = {} THEN {t} ELSE {}
  BY <1>2, <1>11 DEF Started
<1>13. TypeOK'
  <2>1. usageQueues' \in [Address -> QueueType]
    <3>1. usageQueues' = [a \in Address |-> usageQueues'[a]]
      BY DEF ScheduleTask
    <3> QED
      BY <1>7, <3>1
  <2>2. unblockedTaskQueue' \in Seq(Tasks')
    <3>1. unblockedTaskQueue \in Seq(Tasks) /\ Tasks \subseteq Tasks'
      BY <1>1, <1>3 DEF TypeOK
    <3> QED
      BY <1>2, <3>1
  <2>3. executing' \subseteq Tasks' /\ finished' \subseteq Tasks'
    BY <1>1, <1>2, <1>3, <1>11, Zenon DEF TypeOK
  <2>4. \A i \in DOMAIN counters' : counters'[i] \in Nat
    <3>1. /\ activeTaskCount \in Nat /\ handledTaskCount \in Nat
          /\ unblockedTaskCount \in Nat /\ totalTaskCount \in Nat
      BY <1>1, CountersType DEF TypeOK
    <3>2. /\ activeTaskCount' \in Nat /\ handledTaskCount' \in Nat
          /\ unblockedTaskCount' \in Nat /\ totalTaskCount' \in Nat
      BY <3>1 DEF ScheduleTask
    <3> QED
      BY <3>2 DEF counters
  <2> QED
    BY <1>3, <1>10, <2>1, <2>2, <2>3, <2>4, SMTT(30) DEF TypeOK, QueueType
<1>14. \A u \in Active' : /\ blockedUsageCount'[u] = Cardinality(WaitsFor(u)')
                          /\ u \in Started' <=> WaitsFor(u)' = {}
  <2>1. \A u \in Active : /\ blockedUsageCount'[u] = Cardinality(WaitsFor(u)')
                          /\ u \in Started' <=> WaitsFor(u)' = {}
    BY <1>4, <1>8, <1>10, <1>12 DEF IInv
  <2>2. t \notin Started
    BY <1>4 DEF IInv
  <2>3. /\ blockedUsageCount'[t] = Cardinality(WaitsFor(t)')
        /\ t \in Started' <=> WaitsFor(t)' = {}
    BY <1>9, <1>10, <1>12, <2>2
  <2> QED
    BY <1>4, <2>1, <2>3
<1>15. activeTaskCount' = Cardinality(Active')
  BY <1>4, <1>6, FS_AddElement, Zenon DEF IInv, ScheduleTask
<1>16. Started' \subseteq Active'
  BY <1>4, <1>12 DEF IInv
<1>17. \A i \in DOMAIN unblockedTaskQueue' : unblockedTaskQueue'[i] \notin executing'
  <2>1. \A i \in DOMAIN unblockedTaskQueue : unblockedTaskQueue[i] # t
    BY <1>4 DEF IInv, Started
  <2> QED
    BY <1>2, <1>11, <2>1 DEF IInv
<1> QED
  BY <1>2, <1>4, <1>7, <1>13, <1>14, <1>15, <1>16, <1>17, Zenon DEF IInv

(* schedule_next_unblocked_task preserves the invariant: the task moves    *)
(* from the unblocked queue to the executing ones.                         *)
LEMMA ScheduleNextUnblockedTaskIInv ==
  ASSUME IInv, ScheduleNextUnblockedTask
  PROVE  IInv' /\ Started' = Started /\ UNCHANGED <<lockContexts, finished>>
<1> DEFINE uq == unblockedTaskQueue
           n == Len(uq)
<1>1. TypeOK
  BY DEF IInv
<1>2. /\ uq \in Seq(Tasks) /\ uq # <<>> /\ uq' = Tail(uq)
      /\ executing' = executing \cup {Head(uq)}
  BY <1>1 DEF TypeOK, ScheduleNextUnblockedTask
<1>3. /\ n \in Nat \ {0} /\ DOMAIN uq = 1..n /\ Head(uq) = uq[1]
      /\ uq' \in Seq(Tasks) /\ DOMAIN uq' = 1..(n - 1)
      /\ \A i \in 1..(n - 1) : uq'[i] = uq[i + 1]
  BY <1>2
<1>4. UNCHANGED <<lockContexts, blockedUsageCount, usageQueues, activeTaskCount,
                  handledTaskCount, totalTaskCount, finished>>
  BY DEF ScheduleNextUnblockedTask
<1>5. Tasks' = Tasks /\ Active' = Active
  BY <1>4 DEF Tasks, Active
<1>6. Started' = Started
  <2>1. \A i \in 1..n : i = 1 \/ (i - 1 \in 1..(n - 1) /\ (i - 1) + 1 = i)
    BY <1>3
  <2>2. 1 \in 1..n /\ \A i \in 1..(n - 1) : i + 1 \in 1..n
    BY <1>3
  <2>3. \A i \in 2..n : uq[i] = uq'[i - 1]
    BY <1>3
  <2>4. \A u : (\E i \in DOMAIN uq : uq[i] = u) <=>
               u = Head(uq) \/ \E i \in DOMAIN uq' : uq'[i] = u
    BY <1>3, <2>1, <2>2, Zenon
  <2> QED
    BY <1>2, <2>4, Zenon DEF Started
<1>7. \A u : WaitsFor(u)' = WaitsFor(u)
  BY <1>4 DEF WaitsFor
<1>8. TypeOK'
  <2>1. executing' \subseteq Tasks
    BY <1>1, <1>2, <1>3 DEF TypeOK
  <2>2. /\ activeTaskCount' \in Nat /\ handledTaskCount' \in Nat
        /\ unblockedTaskCount' \in Nat /\ totalTaskCount' \in Nat
    BY <1>1, CountersType DEF TypeOK, ScheduleNextUnblockedTask
  <2>3. \A i \in DOMAIN counters' : counters'[i] \in Nat
    BY <2>2 DEF counters
  <2> QED
    BY <1>1, <1>3, <1>4, <1>5, <2>1, <2>3, SMTT(30) DEF TypeOK
<1>9. \A i, j \in 1..n : uq[i] = uq[j] => i = j
  BY <1>3, SMTT(30) DEF IInv
<1>10. \A i \in DOMAIN uq' : uq'[i] \notin executing'
  <2> SUFFICES ASSUME NEW i \in 1..(n - 1) PROVE uq[i + 1] \notin executing'
    BY <1>3
  <2>1. 1 \in 1..n /\ i + 1 \in 1..n /\ i + 1 # 1
    BY <1>3
  <2>2. uq[i + 1] # uq[1]
    BY <1>9, <2>1
  <2>3. uq[i + 1] \notin executing
    BY <1>3, <2>1 DEF IInv
  <2> QED
    BY <1>2, <1>3, <2>2, <2>3
<1>11. \A i, j \in DOMAIN uq' : uq'[i] = uq'[j] => i = j
  <2> SUFFICES ASSUME NEW i \in 1..(n - 1), NEW j \in 1..(n - 1),
                      uq[i + 1] = uq[j + 1]
               PROVE  i = j
    BY <1>3, SMTT(30)
  <2>1. i + 1 \in 1..n /\ j + 1 \in 1..n
    BY <1>3
  <2>2. i + 1 = j + 1
    BY <1>9, <2>1
  <2> QED
    BY <2>2
<1> QED
  BY <1>4, <1>5, <1>6, <1>7, <1>8, <1>10, <1>11, SMTT(30) DEF IInv

(* reinitialize preserves the invariant: it runs when no task is active,   *)
(* so the queues it keeps are fresh.                                       *)
LEMMA ReinitializeIInv ==
  ASSUME IInv, Reinitialize
  PROVE  IInv' /\ Started' = {} /\ finished = Tasks
<1>1. FreshWhenIdle /\ activeTaskCount = 0
  BY IInvFreshWhenIdle DEF Reinitialize
<1>2. \A a \in Address : usageQueues[a] = Fresh
  BY <1>1 DEF FreshWhenIdle
<1>3. usageQueues = [a \in Address |-> Fresh]
  BY <1>2 DEF IInv, TypeOK
<1>4. Init'
  BY <1>3 DEF Init, Reinitialize
<1>5. IInv'
  BY <1>4, InitIInv, PTL
<1>6. Active = {}
  BY <1>1, TaskFacts, FS_EmptySet, Zenon DEF IInv
<1>7. finished = Tasks
  BY <1>6, Zenon DEF IInv, TypeOK, Active
<1>8. Started' = {}
  BY DEF Reinitialize, Started
<1> QED
  BY <1>5, <1>7, <1>8

(* Who may run after a task has been descheduled, and what IInv says then. *)
LEMMA DescheduleTaskIInv ==
  ASSUME IInv, NEW t \in executing, DescheduleTask(t)
  PROVE  IInv'
<1> DEFINE W(u) == Admitting(t, u)
           R == Released(t)
           uq == unblockedTaskQueue
           n == Len(uq)
           ctx == lockContexts
<1>1. TypeOK
  BY DEF IInv
<1>2. /\ t \in Started /\ t \in Active /\ t \in Tasks /\ Active \subseteq Tasks
      /\ Active \subseteq Nat /\ IsFiniteSet(Active)
      /\ Uses(ctx[t]) \subseteq Address
  <2>1. t \in Started /\ Started \subseteq Active
    BY Zenon DEF IInv, Started
  <2>2. /\ Active \subseteq Tasks /\ Tasks \subseteq Nat /\ IsFiniteSet(Active)
        /\ \A u \in Tasks : Uses(ctx[u]) \subseteq Address
    BY <1>1, TaskFacts, Zenon
  <2> QED
    BY <2>1, <2>2, Zenon
<1>3. /\ lockContexts' = lockContexts /\ executing' = executing \ {t}
      /\ finished' = finished \cup {t} /\ Tasks' = Tasks
      /\ Active' = Active \ {t}
  BY DEF DescheduleTask, Tasks, Active
<1>4. ASSUME NEW a \in Address
      PROVE  /\ usageQueues'[a] \in QueueType
             /\ QueueOK(usageQueues'[a], a, ctx, Active \ {t})
             /\ Waiters(usageQueues'[a]) = Waiters(usageQueues[a]) \
                  IF a \in Uses(ctx[t]) THEN AdmittedTasks(usageQueues[a]) ELSE {}
             /\ a \in Uses(ctx[t]) =>
                  AdmittedTasks(usageQueues[a]) \subseteq Waiters(usageQueues[a])
  <2> DEFINE q == usageQueues[a]
  <2>1. q \in QueueType /\ QueueOK(q, a, ctx, Active)
    BY QueueFacts
  <2>2. CASE a \in Uses(ctx[t])
    <3>1. usageQueues'[a] = UnlockQueue(q)
      BY <2>2 DEF DescheduleTask
    <3>2. t \in Holders(q, a, ctx, Active)
      BY <1>2, <2>2, StartedHolds
    <3> HIDE DEF q
    <3>3. /\ UnlockQueue(q) \in QueueType
          /\ QueueOK(UnlockQueue(q), a, ctx, Active \ {t})
          /\ Waiters(UnlockQueue(q)) = Waiters(q) \ AdmittedTasks(q)
          /\ AdmittedTasks(q) \subseteq Waiters(q)
      BY <1>2, <2>1, <3>2, UnlockQueueOK, SMTT(30)
    <3>4. /\ usageQueues'[a] \in QueueType
          /\ QueueOK(usageQueues'[a], a, ctx, Active \ {t})
          /\ Waiters(usageQueues'[a]) = Waiters(q) \ AdmittedTasks(q)
      BY <3>1, <3>3, Zenon
    <3> QED
      BY <2>2, <3>3, <3>4, Zenon DEF q
  <2>3. CASE a \notin Uses(ctx[t])
    <3>1. usageQueues'[a] = q
      BY <2>3 DEF DescheduleTask
    <3>2. QueueOK(q, a, ctx, Active \ {t})
      BY <2>1, <2>3, OtherQueueOK
    <3> QED
      BY <2>1, <2>3, <3>1, <3>2, SMTT(30)
  <2> QED
    BY <2>2, <2>3, Zenon
<1>5. ASSUME NEW u \in Tasks
      PROVE  /\ W(u) \subseteq WaitsFor(u)
             /\ IsFiniteSet(WaitsFor(u)) /\ IsFiniteSet(W(u))
             /\ u \notin Active => W(u) = {}
  <2>1. ASSUME NEW a \in W(u)
        PROVE  a \in WaitsFor(u) /\ u \in Active
    <3>1. a \in Uses(ctx[t]) /\ a \in Address /\ u \in AdmittedTasks(usageQueues[a])
      BY <1>2 DEF Admitting
    <3>2. u \in Waiters(usageQueues[a])
      BY <1>4, <3>1
    <3> QED
      BY <3>1, <3>2, WaitersActive DEF WaitsFor
  <2>2. W(u) \subseteq WaitsFor(u) /\ (u \notin Active => W(u) = {})
    BY <2>1
  <2>3. IsFiniteSet(WaitsFor(u))
    <3>1. WaitsFor(u) \subseteq Uses(ctx[u]) /\ IsFiniteSet(Uses(ctx[u]))
      BY <1>1, TaskFacts DEF WaitsFor
    <3> QED
      BY <3>1, FS_Subset
  <2> QED
    BY <2>2, <2>3, FS_Subset
<1>6. ASSUME NEW u \in Active
      PROVE  WaitsFor(u)' = WaitsFor(u) \ W(u)
  <2>1. Uses(ctx[u]) \subseteq Address
    BY <1>1, <1>2, TaskFacts
  <2> QED
    BY <1>3, <1>4, <2>1 DEF WaitsFor, Admitting
<1>7. ASSUME NEW u \in Tasks
      PROVE  /\ Cardinality(W(u)) \in Nat
             /\ u \in Active => Cardinality(WaitsFor(u) \ W(u)) =
                                  blockedUsageCount[u] - Cardinality(W(u))
             /\ u \in Active => Cardinality(WaitsFor(u) \ W(u)) \in Nat
             /\ u \notin Active => Cardinality(W(u)) = 0
  <2>1. WaitsFor(u) \cap W(u) = W(u)
    BY <1>5
  <2>2. Cardinality(WaitsFor(u) \ W(u)) =
          Cardinality(WaitsFor(u)) - Cardinality(WaitsFor(u) \cap W(u))
        /\ IsFiniteSet(WaitsFor(u) \ W(u))
    BY <1>5, FS_Difference, Zenon
  <2>3. Cardinality(W(u)) \in Nat /\ Cardinality(WaitsFor(u) \ W(u)) \in Nat
    BY <1>5, <2>2, FS_CardinalityType
  <2>4. u \notin Active => Cardinality(W(u)) = 0
    BY <1>5, FS_EmptySet
  <2>5. u \in Active => blockedUsageCount[u] = Cardinality(WaitsFor(u))
    BY DEF IInv
  <2> QED
    BY <2>1, <2>2, <2>3, <2>4, <2>5, Zenon
<1>8. /\ blockedUsageCount' \in [Tasks -> Nat]
      /\ \A u \in Active : blockedUsageCount'[u] = Cardinality(WaitsFor(u) \ W(u))
  <2>1. blockedUsageCount' = [u \in Tasks |-> blockedUsageCount[u] - Cardinality(W(u))]
    BY DEF DescheduleTask
  <2>2. blockedUsageCount \in [Tasks -> Nat]
    BY <1>1 DEF TypeOK
  <2> HIDE DEF W
  <2>3. ASSUME NEW u \in Tasks PROVE blockedUsageCount[u] - Cardinality(W(u)) \in Nat
    <3>1. CASE u \in Active
      BY <3>1, <1>7, Zenon
    <3>2. CASE u \notin Active
      <4>1. Cardinality(W(u)) = 0 /\ blockedUsageCount[u] \in Nat
        BY <3>2, <1>7, <2>2, Zenon
      <4> QED
        BY <4>1
    <3> QED
      BY <3>1, <3>2
  <2>4. \A u \in Active : blockedUsageCount'[u] = Cardinality(WaitsFor(u) \ W(u))
    BY <1>2, <1>7, <2>1
  <2> QED
    BY <2>1, <2>3, <2>4
<1>9. ASSUME NEW u \in Tasks
      PROVE  u \in R <=> u \in Active /\ W(u) # {} /\ WaitsFor(u) \ W(u) = {}
  <2>1. u \in R <=> W(u) # {} /\ blockedUsageCount[u] = Cardinality(W(u))
    BY DEF Released
  <2>2. ASSUME u \in Active, WaitsFor(u) \ W(u) = {}
        PROVE  blockedUsageCount[u] = Cardinality(W(u))
    <3>1. WaitsFor(u) = W(u)
      BY <1>5, <2>2
    <3> QED
      BY <2>2, <3>1 DEF IInv
  <2>3. ASSUME u \in Active, blockedUsageCount[u] = Cardinality(W(u))
        PROVE  WaitsFor(u) \ W(u) = {}
    <3>1. Cardinality(WaitsFor(u)) = Cardinality(W(u))
      BY <2>3 DEF IInv
    <3>2. WaitsFor(u) = W(u)
      BY <1>5, <3>1, FS_Subset
    <3> QED
      BY <3>2
  <2>4. W(u) # {} => u \in Active
    BY <1>5
  <2> QED
    BY <2>1, <2>2, <2>3, <2>4
<1>10. R \subseteq Active /\ R \subseteq Tasks /\ R \cap Started = {}
  <2>1. R \subseteq Tasks
    BY DEF Released
  <2>2. ASSUME NEW u \in R PROVE u \in Active /\ u \notin Started
    <3>1. u \in Active /\ W(u) # {} /\ W(u) \subseteq WaitsFor(u)
      BY <1>5, <1>9, <2>1
    <3> QED
      BY <3>1 DEF IInv
  <2> QED
    BY <2>1, <2>2
<1> HIDE DEF W, R
<1>11. PICK s \in Bijection(1..Cardinality(R), R) : uq' = uq \o s
  BY DEF DescheduleTask, R
<1> DEFINE k == Cardinality(R)
<1>12. /\ k \in Nat
       /\ s \in [1..k -> R] /\ \A i, j \in 1..k : s[i] = s[j] => i = j
       /\ \A u \in R : \E i \in 1..k : s[i] = u
  <2>1. IsFiniteSet(R)
    BY <1>2, <1>10, FS_Subset, Zenon
  <2>2. k \in Nat
    BY <2>1, FS_CardinalityType
  <2> HIDE DEF k
  <2>3. s \in Bijection(1..k, R)
    BY <1>11 DEF k
  <2> QED
    BY <2>2, <2>3, Zenon DEF Bijection, Injection, Surjection, IsInjective
<1> HIDE DEF k
<1>13. /\ uq \in Seq(Tasks) /\ n \in Nat /\ DOMAIN uq = 1..n
       /\ s \in Seq(Tasks) /\ Len(s) = k
  <2>1. uq \in Seq(Tasks)
    BY <1>1 DEF TypeOK
  <2> QED
    BY <1>10, <1>12, <2>1
<1>14. /\ uq' \in Seq(Tasks) /\ DOMAIN uq' = 1..(n + k)
       /\ \A i \in 1..n : uq'[i] = uq[i]
       /\ \A i \in (n + 1)..(n + k) : i - n \in 1..k /\ uq'[i] = s[i - n]
  <2>1. /\ uq \o s \in Seq(Tasks) /\ Len(uq \o s) = n + k
        /\ \A i \in 1..(n + k) : (uq \o s)[i] = IF i <= n THEN uq[i] ELSE s[i - n]
    BY <1>13, ConcatenationType, Zenon
  <2>2. /\ uq' \in Seq(Tasks) /\ Len(uq') = n + k
        /\ \A i \in 1..(n + k) : uq'[i] = IF i <= n THEN uq[i] ELSE s[i - n]
    BY <1>11, <2>1
  <2> HIDE DEF n, uq
  <2>3. DOMAIN uq' = 1..(n + k)
    BY <2>2
  <2>4. \A i \in 1..n : i \in 1..(n + k) /\ i <= n
    BY <1>12, <1>13
  <2>5. \A i \in (n + 1)..(n + k) : i \in 1..(n + k) /\ ~(i <= n) /\ i - n \in 1..k
    BY <1>12, <1>13
  <2> QED
    BY <2>2, <2>3, <2>4, <2>5
<1>15. /\ \A i \in 1..n : uq[i] \in Started /\ uq[i] \notin executing
       /\ \A i \in 1..k : s[i] \in R /\ s[i] \notin Started
  BY <1>10, <1>12, <1>13 DEF IInv, Started
<1> HIDE DEF n, uq
<1>16. \A i \in 1..(n + k) : i \in 1..n \/ i \in (n + 1)..(n + k)
  BY <1>12, <1>13
<1>17. Started' = (Started \ {t}) \cup R
  <2>1. ASSUME NEW u \in Started'
        PROVE  u \in (Started \ {t}) \cup R
    <3>1. CASE u \in executing'
      BY <3>1, <1>3 DEF Started
    <3>2. CASE u \notin executing'
      <4>1. PICK i \in DOMAIN uq' : uq'[i] = u
        BY <2>1, <3>2, SMTT(30) DEF Started, uq
      <4>2. CASE i \in 1..n
        BY <4>1, <4>2, <1>14, <1>15, SMTT(30)
      <4>3. CASE i \in (n + 1)..(n + k)
        BY <4>1, <4>3, <1>14, <1>15, SMTT(30)
      <4> QED
        BY <1>14, <1>16, <4>1, <4>2, <4>3, SMTT(30)
    <3> QED
      BY <3>1, <3>2
  <2>2. \A i \in DOMAIN uq' : uq'[i] \in Started'
    BY DEF Started, uq
  <2>3. ASSUME NEW u \in Started, u # t PROVE u \in Started'
    <3>1. CASE u \in executing
      BY <3>1, <2>3, <1>3 DEF Started
    <3>2. CASE u \notin executing
      <4>1. PICK i \in 1..n : uq[i] = u
        BY <2>3, <3>2, <1>13, SMTT(30) DEF Started, uq
      <4>2. i \in DOMAIN uq'
        BY <1>12, <1>13, <1>14
      <4> QED
        BY <4>1, <4>2, <1>14, <2>2, SMTT(30)
    <3> QED
      BY <3>1, <3>2
  <2>4. ASSUME NEW u \in R PROVE u \in Started'
    <3>1. PICK i \in 1..k : s[i] = u
      BY <1>12
    <3>2. n + i \in (n + 1)..(n + k) /\ n + i \in 1..(n + k) /\ (n + i) - n = i
      BY <1>12, <1>13
    <3>3. uq'[n + i] = u
      BY <1>14, <3>1, <3>2, SMTT(30)
    <3> QED
      BY <1>14, <2>2, <3>2, <3>3, SMTT(30)
  <2> QED
    BY <2>1, <2>3, <2>4
<1>18. \A u \in Active' : /\ blockedUsageCount'[u] = Cardinality(WaitsFor(u)')
                          /\ u \in Started' <=> WaitsFor(u)' = {}
  <2> SUFFICES ASSUME NEW u \in Active, u # t
               PROVE  /\ blockedUsageCount'[u] = Cardinality(WaitsFor(u)')
                      /\ u \in Started' <=> WaitsFor(u)' = {}
    BY <1>3
  <2>1. WaitsFor(u)' = WaitsFor(u) \ W(u)
    BY <1>6
  <2>2. u \in Started <=> WaitsFor(u) = {}
    BY DEF IInv
  <2>3. u \in Tasks /\ W(u) \subseteq WaitsFor(u)
    BY <1>2, <1>5
  <2>4. u \in R <=> W(u) # {} /\ WaitsFor(u) \ W(u) = {}
    BY <1>9, <2>3
  <2>5. u \in Started' <=> WaitsFor(u)' = {}
    BY <1>17, <2>1, <2>2, <2>3, <2>4, SMTT(30)
  <2> QED
    BY <1>8, <2>1, <2>5
<1>19. TypeOK'
  <2>1. usageQueues' \in [Address -> QueueType]
    <3>1. usageQueues' = [a \in Address |-> usageQueues'[a]]
      BY DEF DescheduleTask
    <3> QED
      BY <1>4, <3>1
  <2>2. activeTaskCount \in Nat \ {0}
    BY <1>2, FS_EmptySet, FS_CardinalityType, SMTT(30) DEF IInv
  <2>3. /\ activeTaskCount' \in Nat /\ handledTaskCount' \in Nat
        /\ unblockedTaskCount' \in Nat /\ totalTaskCount' \in Nat
    BY <1>1, <2>2, CountersType DEF TypeOK, DescheduleTask
  <2>4. \A i \in DOMAIN counters' : counters'[i] \in Nat
    BY <2>3, SMTT(30) DEF counters
  <2>5. executing' \subseteq Tasks /\ finished' \subseteq Tasks
    BY <1>1, <1>2, <1>3 DEF TypeOK
  <2> QED
    BY <1>1, <1>3, <1>8, <1>14, <2>1, <2>4, <2>5, SMTT(30) DEF TypeOK, QueueType, uq
<1>20. activeTaskCount' = Cardinality(Active')
  <2>1. Cardinality(Active \ {t}) = Cardinality(Active) - 1
    BY <1>2, FS_RemoveElement, Zenon
  <2> QED
    BY <1>3, <2>1 DEF IInv, DescheduleTask
<1>21. Started' \subseteq Active'
  BY <1>2, <1>3, <1>10, <1>17, SMTT(30) DEF IInv
<1>22. \A i \in DOMAIN uq' : uq'[i] \notin executing'
  <2>1. \A u \in executing : u \in Started
    BY DEF Started
  <2> QED
    BY <1>3, <1>14, <1>15, <1>16, <2>1, SMTT(30)
<1>23. \A i, j \in DOMAIN uq' : uq'[i] = uq'[j] => i = j
  <2> SUFFICES ASSUME NEW i \in 1..(n + k), NEW j \in 1..(n + k), uq'[i] = uq'[j]
               PROVE  i = j
    BY <1>14
  <2>1. CASE i \in 1..n /\ j \in 1..n
    BY <2>1, <1>13, <1>14, SMTT(30) DEF IInv, uq
  <2>2. CASE i \in (n + 1)..(n + k) /\ j \in (n + 1)..(n + k)
    <3>1. i - n = j - n
      BY <1>12, <1>14, <2>2
    <3> QED
      BY <1>12, <1>13, <2>2, <3>1, SMTT(30)
  <2>3. ~(i \in 1..n /\ j \in (n + 1)..(n + k))
    BY <1>14, <1>15
  <2>4. ~(j \in 1..n /\ i \in (n + 1)..(n + k))
    BY <1>14, <1>15
  <2> QED
    BY <1>16, <2>1, <2>2, <2>3, <2>4, SMTT(30)
<1> QED
  BY <1>3, <1>4, <1>18, <1>19, <1>20, <1>21, <1>22, <1>23, Zenon DEF IInv, uq
-----------------------------------------------------------------------------
(* Every step of the state machine preserves the invariant.                *)
LEMMA NextIInv == IInv /\ [Next]_vars => IInv'
<1> SUFFICES ASSUME IInv, [Next]_vars PROVE IInv'
  OBVIOUS
<1>1. CASE \E r \in Requests : ScheduleTask(r)
  BY <1>1, ScheduleTaskIInv
<1>2. CASE ScheduleNextUnblockedTask
  BY <1>2, ScheduleNextUnblockedTaskIInv
<1>3. CASE \E t \in executing : DescheduleTask(t)
  BY <1>3, DescheduleTaskIInv
<1>4. CASE Reinitialize
  BY <1>4, ReinitializeIInv
<1>5. CASE UNCHANGED vars
  <2>1. UNCHANGED <<lockContexts, blockedUsageCount, usageQueues,
                    unblockedTaskQueue, activeTaskCount, handledTaskCount,
                    unblockedTaskCount, totalTaskCount, executing, finished>>
    BY <1>5 DEF vars, counters
  <2>2. Tasks' = Tasks /\ Active' = Active /\ Started' = Started
        /\ counters' = counters
    BY <2>1 DEF Tasks, Active, Started, counters
  <2>3. \A u : WaitsFor(u)' = WaitsFor(u)
    BY <2>1, SMTT(30) DEF WaitsFor
  <2>4. TypeOK'
    BY <2>1, <2>2 DEF IInv, TypeOK
  <2> QED
    BY <2>1, <2>2, <2>3, <2>4 DEF IInv
<1> QED
  BY <1>1, <1>2, <1>3, <1>4, <1>5 DEF Next

(* The queues, the counts and the started tasks agree in every reachable   *)
(* state of the scheduling state machine.                                  *)
THEOREM SchedulingInvariance == Spec => []IInv
  BY InitIInv, NextIInv, PTL DEF Spec

(* The counters never underflow and the queues hold what they should. *)
THEOREM SchedulingTypeCorrect == Spec => []TypeOK
<1>1. IInv => TypeOK
  BY DEF IInv
<1> QED
  BY <1>1, SchedulingInvariance, PTL

(* However many tasks, addresses and threads: no task starts before an     *)
(* earlier conflicting task has been descheduled.                          *)
THEOREM ExecutesInLedgerOrder == Spec => []InLedgerOrder
  BY IInvLedgerOrder, SchedulingInvariance, PTL

(* A task that has not started waits for an earlier conflicting one. *)
THEOREM LosesNoWakeup == Spec => []NoLostWakeup
  BY IInvNoLostWakeup, SchedulingInvariance, PTL

(* The promise of create_task's comment, and so reinitialize's assertions. *)
THEOREM QueuesFreshWhenIdle == Spec => []FreshWhenIdle
  BY IInvFreshWhenIdle, SchedulingInvariance, PTL

(* No unreachable! arm or assertion of the usage queues is ever hit. *)
THEOREM QueuesDoNotPanic == Spec => []QueuesNeverPanic
  BY IInvNeverPanic, SchedulingInvariance, PTL
-----------------------------------------------------------------------------
(* The started tasks are those the abstract scheduler lets run. *)
LEMMA StartedMayRun ==
  IInv => Started = Ledger!MayRun(lockContexts, finished)
<1> SUFFICES ASSUME IInv
             PROVE  Started = Ledger!MayRun(lockContexts, finished)
  OBVIOUS
<1>1. InLedgerOrder /\ NoLostWakeup /\ Started \subseteq Active
  BY IInvLedgerOrder, IInvNoLostWakeup DEF IInv
<1>2. \A r1, r2 : Ledger!Conflicting(r1, r2) <=> Conflicting(r1, r2)
  BY DEF Ledger!Conflicting, Ledger!Uses, Ledger!UsageOf, Conflicting, Uses, UsageOf
<1>3. Ledger!MayRun(lockContexts, finished) =
        {u \in Active : \A t \in Active : t < u => ~Conflict(t, u)}
  BY <1>2 DEF Ledger!MayRun, Conflict, Active, Tasks
<1> QED
  BY <1>1, <1>3 DEF InLedgerOrder, NoLostWakeup

(* The state machine implements the scheduler that recomputes from scratch *)
(* which tasks may run: the usage queues and counts are only an index.     *)
THEOREM SchedulingRefinement == Spec => ImplementsLedgerOrder
<1>1. Init => Ledger!Init
  BY DEF Init, Ledger!Init, Started
<1>2. IInv /\ IInv' /\ [Next]_vars => [Ledger!Next]_(Ledger!vars)
  <2> SUFFICES ASSUME IInv, IInv', [Next]_vars
               PROVE  Ledger!Next \/ UNCHANGED <<lockContexts, Started, finished>>
    BY DEF Ledger!vars
  <2>0. Started' = Ledger!MayRun(lockContexts', finished')
    <3>1. (Started = Ledger!MayRun(lockContexts, finished))'
      BY StartedMayRun, PTL
    <3> QED
      BY <3>1 DEF Ledger!MayRun
  <2>1. ASSUME NEW r \in Requests, ScheduleTask(r) PROVE Ledger!Submit(r)
    BY <2>0, <2>1 DEF ScheduleTask, Ledger!Submit
  <2>2. CASE ScheduleNextUnblockedTask
    BY <2>2, ScheduleNextUnblockedTaskIInv
  <2>3. ASSUME NEW t \in executing, DescheduleTask(t)
        PROVE  t \in Started /\ Ledger!Finish(t)
    <3>1. t \in Started
      BY DEF Started
    <3> QED
      BY <2>0, <2>3, <3>1 DEF DescheduleTask, Ledger!Finish
  <2>4. ASSUME Reinitialize PROVE Ledger!Clear
    BY <2>4, ReinitializeIInv DEF Reinitialize, Ledger!Clear, Tasks
  <2>5. CASE UNCHANGED vars
    BY <2>5 DEF vars, Started
  <2> QED
    BY <2>1, <2>2, <2>3, <2>4, <2>5 DEF Next, Ledger!Next
<1> QED
  BY <1>1, <1>2, SchedulingInvariance, PTL
     DEF Spec, ImplementsLedgerOrder, Ledger!Spec
=============================================================================
