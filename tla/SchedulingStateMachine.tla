----------------------- MODULE SchedulingStateMachine -----------------------
(***************************************************************************)
(* The unified scheduler's state machine: unified-scheduler-logic/src/     *)
(* lib.rs.  Tasks (transactions) lock one usage queue per account they     *)
(* touch, for reading or for writing.  A task runs when it holds all its   *)
(* queues; a task that cannot have one waits in it, in order.  All of this *)
(* runs in one scheduler thread, so each method is one step.  The caller   *)
(* (unified-scheduler-pool) runs the tasks handed out, on many threads,    *)
(* and deschedules them in whatever order they finish.                     *)
(*                                                                         *)
(* A task is its position in the order of the schedule_task calls.         *)
(***************************************************************************)
EXTENDS Integers, Sequences, FiniteSets, Functions, LockConflicts

CONSTANTS
  Requests,  \* the lists of lock contexts a task may come with
  MaxTasks   \* bound on the tasks scheduled between two reinitializations

(* account_locks::validate_account_locks refuses a duplicate address.      *)
ASSUME RequestsAssumption ==
  /\ IsFiniteSet(Address) /\ MaxTasks \in Nat
  /\ Requests \subseteq Seq(LockContext)
  /\ \A r \in Requests : \A i, j \in DOMAIN r :
       r[i].address = r[j].address => i = j

VARIABLES
  lockContexts,        \* TaskInner::lock_contexts of every task so far
  blockedUsageCount,   \* TaskInner::blocked_usage_count of every task so far
  usageQueues,         \* the UsageQueueInner of every address
  unblockedTaskQueue,  \* SchedulingStateMachine::unblocked_task_queue
  activeTaskCount, handledTaskCount, unblockedTaskCount, totalTaskCount,
  executing,           \* the tasks handed out to the caller
  finished             \* the tasks descheduled

counters ==
  <<activeTaskCount, handledTaskCount, unblockedTaskCount, totalTaskCount>>
vars == <<lockContexts, blockedUsageCount, usageQueues, unblockedTaskQueue,
          counters, executing, finished>>

Tasks == DOMAIN lockContexts

-----------------------------------------------------------------------------
(* Option<Usage>: a count of readers, only meaningful for Readonly. *)
Unused == [kind |-> "Unused", count |-> 0]
Writable == [kind |-> "Writable", count |-> 0]
Readonly(n) == [kind |-> "Readonly", count |-> n]

Fresh == [current |-> Unused, blocked |-> <<>>]

(* UsageQueueInner::try_lock: whether it succeeds, and the new usage. *)
TryLockOk(current, requested) ==
  \/ current.kind = "Unused"
  \/ current.kind = "Readonly" /\ requested = "Readonly"

TryLock(current, requested) ==
  IF requested = "Writable" THEN Writable ELSE Readonly(current.count + 1)

(* Mutant: a reader overtakes the writers that wait. *)
BlocksOvertaking(q, requested) == ~TryLockOk(q.current, requested)

(* try_lock_usage_queues for one context: no overtaking of blocked usages. *)
Blocks(q, requested) ==
  q.blocked # <<>> \/ ~TryLockOk(q.current, requested)

LockQueue(q, requested, t) ==
  IF Blocks(q, requested)
  THEN [q EXCEPT !.blocked = Append(@, [usage |-> requested, task |-> t])]
  ELSE [q EXCEPT !.current = TryLock(@, requested)]

(* Mutant: an off-by-one in the count of readers. *)
StillUsedOffByOne(q) == q.current.kind = "Readonly" /\ q.current.count # 0

(* UsageQueueInner::unlock: the queue stays locked by the other readers. *)
StillUsed(q) == q.current.kind = "Readonly" /\ q.current.count # 1

(* Mutant: only the first of several waiting readers is let in. *)
LeadingReadersOne(blocked) == 1

(* The number of blocked usages the loop of unlock_usage_queues lets in:   *)
(* the first one, and when it is a reader all the readers right behind it. *)
LeadingReaders(blocked) ==
  CHOOSE n \in 0..Len(blocked) :
    /\ \A i \in 1..n : blocked[i].usage = "Readonly"
    /\ n < Len(blocked) => blocked[n + 1].usage = "Writable"

(* Mutant: the last reader to leave wakes nobody. *)
AdmittedAfterWriter(q) ==
  IF q.current.kind = "Readonly" \/ q.blocked = <<>> THEN 0 ELSE 1

Admitted(q) ==
  IF StillUsed(q) \/ q.blocked = <<>> THEN 0
  ELSE IF q.blocked[1].usage = "Writable" THEN 1
  ELSE LeadingReaders(q.blocked)

(* Mutant: the queue is not locked again for the tasks let in. *)
UnlockQueueUnlocked(q) ==
  IF StillUsed(q) THEN [q EXCEPT !.current.count = @ - 1]
  ELSE [current |-> Unused,
        blocked |-> SubSeq(q.blocked, Admitted(q) + 1, Len(q.blocked))]

UnlockQueue(q) ==
  IF StillUsed(q) THEN [q EXCEPT !.current.count = @ - 1]
  ELSE [current |-> IF q.blocked = <<>> THEN Unused
                    ELSE IF q.blocked[1].usage = "Writable" THEN Writable
                    ELSE Readonly(Admitted(q)),
        blocked |-> SubSeq(q.blocked, Admitted(q) + 1, Len(q.blocked))]

AdmittedTasks(q) == {q.blocked[i].task : i \in 1..Admitted(q)}
-----------------------------------------------------------------------------
Init ==
  /\ lockContexts = <<>> /\ blockedUsageCount = <<>>
  /\ usageQueues = [a \in Address |-> Fresh]
  /\ unblockedTaskQueue = <<>>
  /\ activeTaskCount = 0 /\ handledTaskCount = 0
  /\ unblockedTaskCount = 0 /\ totalTaskCount = 0
  /\ executing = {} /\ finished = {}

(* The usages try_lock_usage_queues counts as blocked. *)
BlockedUsages(r) ==
  {a \in Uses(r) : Blocks(usageQueues[a], UsageOf(r, a))}

(* schedule_task: lock every queue or wait in it; a task with no blocked   *)
(* usage is handed out at once.                                            *)
ScheduleTask(r) ==
  LET t == Len(lockContexts) + 1 IN
  /\ Len(lockContexts) < MaxTasks
  /\ totalTaskCount' = totalTaskCount + 1
  /\ activeTaskCount' = activeTaskCount + 1
  /\ lockContexts' = Append(lockContexts, r)
  /\ usageQueues' = [a \in Address |->
       IF a \in Uses(r) THEN LockQueue(usageQueues[a], UsageOf(r, a), t)
       ELSE usageQueues[a]]
  /\ blockedUsageCount' = Append(blockedUsageCount, Cardinality(BlockedUsages(r)))
  /\ executing' = executing \cup IF BlockedUsages(r) = {} THEN {t} ELSE {}
  /\ UNCHANGED <<unblockedTaskQueue, handledTaskCount, unblockedTaskCount,
                 finished>>

ScheduleNextUnblockedTask ==
  /\ unblockedTaskQueue # <<>>
  /\ unblockedTaskQueue' = Tail(unblockedTaskQueue)
  /\ unblockedTaskCount' = unblockedTaskCount + 1
  /\ executing' = executing \cup {Head(unblockedTaskQueue)}
  /\ UNCHANGED <<lockContexts, blockedUsageCount, usageQueues, activeTaskCount,
                 handledTaskCount, totalTaskCount, finished>>

(* The queues of task t that let task u in when t unlocks them. *)
Admitting(t, u) ==
  {a \in Uses(lockContexts[t]) : u \in AdmittedTasks(usageQueues[a])}

(* The tasks that try_unblock releases: every usage they wait for is let   *)
(* in.                                                                     *)
Released(t) ==
  {u \in Tasks : /\ Admitting(t, u) # {}
                 /\ blockedUsageCount[u] = Cardinality(Admitting(t, u))}

(* unlock_usage_queues goes through the contexts of t in order, and a task *)
(* is released by the last of them that lets it in.                        *)
ReleasedBefore(t, u, v) ==
  LET last(x) == CHOOSE i \in DOMAIN lockContexts[t] :
        /\ lockContexts[t][i].address \in Admitting(t, x)
        /\ \A j \in DOMAIN lockContexts[t] :
             lockContexts[t][j].address \in Admitting(t, x) => j <= i
  IN  last(u) < last(v) \/ (last(u) = last(v) /\ u < v)

(* deschedule_task, for a task that was handed out and has been executed. *)
DescheduleTask(t) ==
  /\ t \in executing
  /\ activeTaskCount' = activeTaskCount - 1
  /\ handledTaskCount' = handledTaskCount + 1
  /\ usageQueues' = [a \in Address |->
       IF a \in Uses(lockContexts[t]) THEN UnlockQueue(usageQueues[a])
       ELSE usageQueues[a]]
  /\ blockedUsageCount' = [u \in Tasks |->
       blockedUsageCount[u] - Cardinality(Admitting(t, u))]
  /\ \E s \in Bijection(1..Cardinality(Released(t)), Released(t)) :
       /\ \A i, j \in DOMAIN s : i < j => ReleasedBefore(t, s[i], s[j])
       /\ unblockedTaskQueue' = unblockedTaskQueue \o s
  /\ executing' = executing \ {t}
  /\ finished' = finished \cup {t}
  /\ UNCHANGED <<lockContexts, unblockedTaskCount, totalTaskCount>>

(* reinitialize: its assertions are the guard.  The usage queues are kept. *)
Reinitialize ==
  /\ activeTaskCount = 0 /\ unblockedTaskQueue = <<>>
  /\ activeTaskCount' = 0 /\ handledTaskCount' = 0
  /\ unblockedTaskCount' = 0 /\ totalTaskCount' = 0
  /\ lockContexts' = <<>> /\ blockedUsageCount' = <<>>
  /\ executing' = {} /\ finished' = {}
  /\ UNCHANGED <<usageQueues, unblockedTaskQueue>>

Next ==
  \/ \E r \in Requests : ScheduleTask(r)
  \/ ScheduleNextUnblockedTask
  \/ \E t \in executing : DescheduleTask(t)
  \/ Reinitialize

Spec == Init /\ [][Next]_vars

(* The pool's scheduler thread keeps taking unblocked tasks, and a handler *)
(* thread returns every task it is given (handling one never blocks on     *)
(* another task), so that each is descheduled.                             *)
FairSpec ==
  /\ Spec
  /\ WF_vars(ScheduleNextUnblockedTask)
  /\ \A t \in 1..MaxTasks : WF_vars(DescheduleTask(t))
-----------------------------------------------------------------------------
Started == executing \cup {unblockedTaskQueue[i] :
                                  i \in DOMAIN unblockedTaskQueue}
Active == Tasks \ finished

Conflict(t, u) == Conflicting(lockContexts[t], lockContexts[u])

Usage == [kind : {"Unused", "Readonly", "Writable"}, count : Nat]
UsageFromTask == [usage : RequestedUsage, task : Nat]

(* Every task has its lock contexts and a count of blocked usages that     *)
(* never drops below zero; queues, counters and task sets are well typed.  *)
TypeOK ==
  /\ lockContexts \in Seq(Requests)
  /\ blockedUsageCount \in [Tasks -> Nat]
  /\ usageQueues \in [Address -> [current : Usage, blocked : Seq(UsageFromTask)]]
  /\ unblockedTaskQueue \in Seq(Tasks)
  /\ \A i \in DOMAIN counters : counters[i] \in Nat
  /\ executing \subseteq Tasks /\ finished \subseteq Tasks

(* No transaction starts before every earlier transaction it conflicts     *)
(* with has been descheduled: whatever order the handler threads finish    *)
(* in, the block is executed as if serially.                               *)
InLedgerOrder ==
  \A u \in Started, t \in Active : t < u => ~Conflict(t, u)

(* A task only waits for an earlier conflicting one: no wake-up is lost,   *)
(* and readers run in parallel whenever no writer stands between them.     *)
NoLostWakeup ==
  \A u \in Active \ Started : \E t \in Active : t < u /\ Conflict(t, u)

(* What create_task's comment promises: the usage queues are as just       *)
(* created when there is no active task, so they can be reused.            *)
FreshWhenIdle ==
  activeTaskCount = 0 => /\ unblockedTaskQueue = <<>>
                         /\ \A a \in Address : usageQueues[a] = Fresh

(* The unreachable arms of unlock are never taken: a task that may run     *)
(* finds each of its queues locked the way it asked for.  The assertion of *)
(* push_blocked_usage_from_task holds: nobody waits in an unused queue.    *)
QueuesNeverPanic ==
  /\ \A t \in Started : \A a \in Uses(lockContexts[t]) :
       usageQueues[a].current.kind = UsageOf(lockContexts[t], a)
  /\ \A a \in Address :
       usageQueues[a].current = Unused => usageQueues[a].blocked = <<>>

(* Whatever the caller does in between, a scheduled task is handled.       *)
EveryTaskIsHandled ==
  \A t \in 1..MaxTasks : t \in Active ~> t \notin Active

(* The queues and counts implement the scheduler that recomputes from      *)
(* scratch which tasks may run.                                            *)
Ledger == INSTANCE LedgerOrder WITH contexts <- lockContexts,
                                    ready <- Started
ImplementsLedgerOrder == Ledger!Spec
=============================================================================
