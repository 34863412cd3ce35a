-------------------------- MODULE CentralScheduler ---------------------------
(***************************************************************************)
(* Block production: core/src/banking_stage/transaction_scheduler.  One    *)
(* thread runs scheduler_controller.rs: it takes back what the workers     *)
(* have finished, gives them more work or cleans its buffer, and buffers   *)
(* new transactions (receive_and_buffer.rs) in a container of bounded size *)
(* (transaction_state_container.rs).  The scheduler is the one of          *)
(* prio_graph_scheduler.rs or of greedy_scheduler.rs; the workers are      *)
(* threads of their own (consume_worker.rs) behind channels.               *)
(*                                                                         *)
(* The id of a transaction in the container is the transaction itself: it  *)
(* is one that no other entry has, and it is free again when the entry is  *)
(* removed.  The same transaction may then arrive anew.                    *)
(* The outcome of a bank's checks and of execution, and the leader         *)
(* schedule, are the environment's.                                        *)
(***************************************************************************)
EXTENDS AccountLockTable, Integers, Sequences, SequencesExt

CONSTANTS
  Priority,    \* Priority[x]: TransactionPriorityId, distinct
  Cost,        \* Cost[x]: its compute units
  Extra,       \* EXTRA_CAPACITY
  MaxCus,      \* the compute units that fill a thread
  MaxScanned,  \* max_scanned_transactions_per_scheduling_pass
  LookAhead,   \* look_ahead_window_size
  ChunkSize,   \* MAX_FILTER_CHUNK_SIZE
  BatchSize,   \* target_transactions_per_batch
  Configs      \* the options: the scheduler, whether it forwards, its
               \* container's capacity and the decisions the leader
               \* schedule leads to

Decision == {"Consume", "Forward", "ForwardAndHold", "Hold"}

ASSUME SchedulerAssumption ==
  /\ Thread = 0..(Cardinality(Thread) - 1)
  /\ Priority \in [Tx -> Nat] /\ Cost \in [Tx -> Nat \ {0}]
  /\ \A x, y \in Tx : Priority[x] = Priority[y] => x = y
  /\ {Extra, MaxCus, MaxScanned, LookAhead, ChunkSize, BatchSize}
       \subseteq Nat \ {0}
  /\ Configs \subseteq
       [greedy : BOOLEAN, forwarding : BOOLEAN, capacity : Nat \ {0},
        decisions : SUBSET Decision]

VARIABLES
  config,        \* the options of this validator
  container,     \* TransactionStateContainer: priority_queue (a set), slab
                 \* and whether an expect or an assertion has failed
  locks,         \* ThreadAwareAccountLocks
  in_flight,     \* InFlightTracker
  consume_work,  \* consume_work[t]: the channel to worker t
  finished,      \* the channel from the workers
  pc,            \* where the controller's loop is
  decision,      \* what the loop has decided to do with its buffer
  receiving,     \* the finished batch that is being taken back
  pass           \* the scheduling pass in progress

vars == <<config, container, locks, in_flight, consume_work, finished, pc,
          decision, receiving, pass>>

NoBatch == [txs |-> << >>, cus |-> 0]
NoBatches == [t \in Thread |-> NoBatch]
NoAccounts == [read |-> {}, write |-> {}]
NotReceiving ==
  [thread |-> NoThread, txs |-> << >>, next |-> 1, retryable |-> {}]

(* A pass: the prio graph, what was popped of it but not yet unblocked and *)
(* what is left of the window; the unschedulable transactions, the         *)
(* accounts of blocking_locks or working_account_set, the number scanned,  *)
(* the schedulable threads, the batches not yet sent, and whether the      *)
(* inner loop is left.                                                     *)
NoPass ==
  [graph |-> {}, unblock |-> {}, window |-> 0, unschedulable |-> {},
   accounts |-> NoAccounts, scanned |-> 0, threads |-> {},
   batches |-> NoBatches, break |-> FALSE]

Alive == ~container.panic

-----------------------------------------------------------------------------
(* The container.                                                          *)

TopOf(q) == CHOOSE x \in q : \A y \in q : Priority[y] <= Priority[x]
TopN(q, n) == {x \in q : Cardinality({y \in q : Priority[y] > Priority[x]}) < n}

InState(c, s) == {x \in DOMAIN c.slab : c.slab[x] = s}
Unprocessed == InState(container, "Unprocessed")
Pending == InState(container, "Pending")

(* remove_by_id: the slab panics on an id it does not have. *)
RemoveByIds(c, S) ==
  [c EXCEPT !.slab = [x \in DOMAIN c.slab \ S |-> c.slab[x]],
            !.panic = @ \/ ~(S \subseteq DOMAIN c.slab)]

NumDropped(c) ==
  IF Cardinality(DOMAIN c.slab) > config.capacity
  THEN Cardinality(DOMAIN c.slab) - config.capacity ELSE 0

(* push_ids_into_queue: push, then drop the lowest while over capacity. *)
PushIds(c, S) ==
  LET q == c.queue \cup S
      n == NumDropped(c)
      kept == TopN(q, Cardinality(q) - n)
  IN  [RemoveByIds(c, q \ kept) EXCEPT !.queue = kept,
                                  !.panic = @ \/ n > Cardinality(q)]

(* pop, n times. *)
Pop(c, n) == [c EXCEPT !.queue = @ \ TopN(@, n)]

(* Mutant: the transaction is not pushed back into the queue. *)
RetryUnqueued(c, x) ==
  [c EXCEPT !.slab[x] = "Unprocessed", !.panic = @ \/ c.slab[x] # "Pending"]

RetryTransaction(c, x) ==
  PushIds([c EXCEPT !.slab[x] = "Unprocessed",
                    !.panic = @ \/ c.slab[x] # "Pending"], {x})

(* transaction_ttl and transition_to_pending. *)
TransitionToPending(c, x) ==
  [c EXCEPT !.slab[x] = "Pending", !.panic = @ \/ c.slab[x] # "Unprocessed"]

-----------------------------------------------------------------------------
(* Batches, and the accounts that are used or blocked.                     *)

(* ReadWriteAccountSet: check_locks, take_locks. *)
CheckLocks(s, x) ==
  /\ Writes[x] \cap (s.read \cup s.write) = {}
  /\ Reads[x] \cap s.write = {}
TakeLocks(s, x) ==
  [read |-> s.read \cup Reads[x], write |-> s.write \cup Writes[x]]

(* What a pass sends: its batches, the tracker and the channels. *)
Sending(batches) ==
  [batches |-> batches, tracker |-> in_flight, channel |-> consume_work]

Cus(out, t) == out.tracker.cus[t] + out.batches[t].cus
Num(out, t) == out.tracker.num[t] + Len(out.batches[t].txs)

(* select_thread: the least compute units, then the fewest transactions,   *)
(* then the first.                                                         *)
SelectThread(out, T) ==
  CHOOSE t \in T : \A u \in T :
    \/ Cus(out, t) < Cus(out, u)
    \/ Cus(out, t) = Cus(out, u) /\ Num(out, t) < Num(out, u)
    \/ Cus(out, t) = Cus(out, u) /\ Num(out, t) = Num(out, u) /\ t <= u

(* track_batch, under an id that no tracked batch has. *)
FreshBatchId(tracker) ==
  CHOOSE b \in 0..Cardinality(DOMAIN tracker.batches) :
    /\ b \notin DOMAIN tracker.batches
    /\ \A c \in 0..(b - 1) : c \in DOMAIN tracker.batches

TrackBatch(tracker, b, t, num, cus) ==
  [num |-> [tracker.num EXCEPT ![t] = @ + num],
   cus |-> [tracker.cus EXCEPT ![t] = @ + cus],
   batches |-> (b :> [thread |-> t, num |-> num, cus |-> cus])
                 @@ tracker.batches]

CompleteBatch(tracker, b) ==
  LET e == tracker.batches[b]
  IN  [num |-> [tracker.num EXCEPT ![e.thread] = @ - e.num],
       cus |-> [tracker.cus EXCEPT ![e.thread] = @ - e.cus],
       batches |-> [x \in DOMAIN tracker.batches \ {b} |->
                      tracker.batches[x]]]

SendBatch(out, t) ==
  LET batch == out.batches[t]
      b == FreshBatchId(out.tracker)
  IN  IF batch.txs = << >> THEN out
      ELSE [batches |-> [out.batches EXCEPT ![t] = NoBatch],
            tracker |-> TrackBatch(out.tracker, b, t, Len(batch.txs), batch.cus),
            channel |-> [out.channel EXCEPT
                           ![t] = Append(@, [batch_id |-> b,
                                             txs |-> batch.txs])]]

SendBatches(out) ==
  FoldLeft(SendBatch, out, [i \in 1..Cardinality(Thread) |-> i - 1])

AddToBatch(out, t, x) ==
  [out EXCEPT !.batches[t] = [txs |-> Append(@.txs, x), cus |-> @.cus + Cost[x]]]

-----------------------------------------------------------------------------
(* The workers and the channel back.                                       *)

(* A worker handles the batches of its channel in order.  Any of its       *)
(* transactions may be retryable, and all of them are when there is no     *)
(* bank (retry, retry_drain); nobody looks at retryable_indexes before the *)
(* message is received, so they are chosen then.                           *)
FinishWork(t) ==
  /\ Alive /\ consume_work[t] # << >>
  /\ finished' = Append(finished, Head(consume_work[t]))
  /\ consume_work' = [consume_work EXCEPT ![t] = Tail(@)]
  /\ UNCHANGED <<config, container, locks, in_flight, pc, decision, receiving,
                 pass>>

(* Mutant: only what is to be retried leaves the pending state. *)
TakeBackRetryable(c, batch) ==
  FoldLeft(LAMBDA d, x : IF x \in batch.retryable THEN RetryTransaction(d, x)
                         ELSE d,
           c, batch.txs)

(* Retry or remove each transaction of a batch, in order. *)
TakeBack(c, batch) ==
  FoldLeft(LAMBDA d, x : IF x \in batch.retryable THEN RetryTransaction(d, x)
                         ELSE RemoveByIds(d, {x}),
           c, batch.txs)

(* The accounts of a batch's transactions are unlocked one transaction     *)
(* after the other; then the container gets the batch back.                *)
UnlockOneOf(batch) ==
  /\ locks' = UnlockAccounts(locks, batch.txs[batch.next], batch.thread)
  /\ IF batch.next < Len(batch.txs)
     THEN /\ receiving' = [batch EXCEPT !.next = @ + 1]
          /\ pc' = "unlock" /\ UNCHANGED container
     ELSE /\ receiving' = NotReceiving
          /\ pc' = "receive" /\ container' = TakeBack(container, batch)

(* try_receive_completed: the tracker lets the batch go, and complete_batch *)
(* unlocks.                                                                *)
TryReceiveCompleted ==
  /\ Alive /\ pc = "receive" /\ finished # << >>
  /\ LET work == Head(finished) IN
     /\ in_flight' = CompleteBatch(in_flight, work.batch_id)
     /\ \E retryable \in SUBSET ToSet(work.txs) :
          UnlockOneOf([thread |-> in_flight.batches[work.batch_id].thread,
                       txs |-> work.txs, next |-> 1, retryable |-> retryable])
  /\ finished' = Tail(finished)
  /\ UNCHANGED <<config, consume_work, decision, pass>>

UnlockNext ==
  /\ Alive /\ pc = "unlock"
  /\ UnlockOneOf(receiving)
  /\ UNCHANGED <<config, in_flight, consume_work, finished, decision, pass>>

-----------------------------------------------------------------------------
(* PrioGraphScheduler::schedule.                                           *)

(* The main queue of the graph: what no conflicting transaction of higher  *)
(* priority blocks.  A transaction blocks until it is unblocked.           *)
Available(p) ==
  {x \in p.graph : \A y \in (p.graph \cup p.unblock) \ {x} :
                     Conflict(x, y) => Priority[x] > Priority[y]}

(* The threads that have room. *)
RoomyThreads == {t \in Thread : in_flight.cus[t] < MaxCus}

(* chunked_pops: fill the window; filtered transactions are dropped.  The  *)
(* budget that is left is that of the chunks not tried.                    *)
Popped(p, c) == TopN(c.queue, p.window)
WindowLeft(p, c) ==
  LET left == p.window - ChunkSize * (Cardinality(c.queue) \div ChunkSize + 1)
  IN  IF left > 0 THEN left ELSE 0
FillGraph(p, c, filtered) ==
  [p EXCEPT !.graph = @ \cup (Popped(p, c) \ filtered),
            !.window = WindowLeft(p, c)]
FillContainer(p, c, filtered) ==
  RemoveByIds(Pop(c, p.window), filtered)

(* Mutant: the unschedulable transactions are not pushed back. *)
OuterLoopForgets(p, c) ==
  IF p.scanned < MaxScanned /\ Available(p) # {}
  THEN pass' = p /\ container' = c /\ pc' = "schedule"
  ELSE /\ pass' = NoPass /\ pc' = "buffer"
       /\ container' = PushIds(c, p.graph)

(* The head of the outer loop.  A pass that ends pushes what it has not    *)
(* scheduled back.                                                         *)
OuterLoop(p, c) ==
  IF p.scanned < MaxScanned /\ Available(p) # {}
  THEN pass' = p /\ container' = c /\ pc' = "schedule"
  ELSE /\ pass' = NoPass /\ pc' = "buffer"
       /\ container' = PushIds(PushIds(c, p.unschedulable), p.graph)

StartPass ==
  /\ Alive /\ pc = "receive" /\ finished = << >> /\ decision = "Consume"
  /\ ~config.greedy /\ RoomyThreads # {}
  /\ LET p == [NoPass EXCEPT !.window = LookAhead, !.threads = RoomyThreads]
     IN  \E filtered \in SUBSET Popped(p, container) :
           OuterLoop(FillGraph(p, container, filtered),
                     FillContainer(p, container, filtered))
  /\ UNCHANGED <<config, locks, in_flight, consume_work, finished, decision,
                 receiving>>

(* Mutant: an unschedulable transaction does not block the others. *)
BlockNothing(p, x) == [p EXCEPT !.unschedulable = @ \cup {x}]

(* UnschedulableConflicts, with blocking_locks.take_locks. *)
Unschedulable(p, x) ==
  [p EXCEPT !.unschedulable = @ \cup {x},
            !.accounts = TakeLocks(@, x)]

(* The inner loop pops one transaction.  It is left when the pass has      *)
(* scanned enough or when the last schedulable thread is full.             *)
ScheduleNext ==
  /\ Alive /\ pc = "schedule" /\ ~config.greedy
  /\ ~pass.break /\ Available(pass) # {}
  /\ LET x == TopOf(Available(pass))
         p == [pass EXCEPT !.graph = @ \ {x}, !.unblock = @ \cup {x},
                           !.scanned = @ + 1,
                           !.break = pass.scanned + 1 >= MaxScanned]
         T == SchedulableThreads(locks, x)
         t == SelectThread(Sending(pass.batches), T)
         out == AddToBatch(Sending(pass.batches), t, x)
         sent == IF Len(out.batches[t].txs) >= BatchSize
                 THEN SendBatch(out, t) ELSE out
         full == Cus(sent, t) >= MaxCus
         room == IF full THEN p.threads \ {t} ELSE p.threads
     IN  IF CheckLocks(pass.accounts, x) /\ T # {}
         THEN /\ locks' = LockAccounts(locks, x, t)
              /\ container' = TransitionToPending(container, x)
              /\ in_flight' = sent.tracker /\ consume_work' = sent.channel
              /\ pass' = [p EXCEPT !.batches = sent.batches,
                                   !.threads = room,
                                   !.break = @ \/ (full /\ room = {})]
         ELSE /\ pass' = Unschedulable(p, x)
              /\ UNCHANGED <<container, locks, in_flight, consume_work>>
  /\ UNCHANGED <<config, finished, pc, decision, receiving>>

(* After the inner loop: all batches are sent, the window is filled up,    *)
(* and what was popped no longer blocks.                                   *)
SendAndUnblock ==
  /\ Alive /\ pc = "schedule" /\ ~config.greedy
  /\ pass.break \/ Available(pass) = {}
  /\ LET sent == SendBatches(Sending(pass.batches))
         p == [pass EXCEPT !.window = @ + Cardinality(pass.unblock),
                           !.batches = sent.batches, !.break = FALSE]
     IN  /\ in_flight' = sent.tracker /\ consume_work' = sent.channel
         /\ \E filtered \in SUBSET Popped(p, container) :
              OuterLoop([FillGraph(p, container, filtered)
                           EXCEPT !.unblock = {}],
                        FillContainer(p, container, filtered))
  /\ UNCHANGED <<config, locks, finished, decision, receiving>>

-----------------------------------------------------------------------------
(* GreedyScheduler::schedule.                                              *)

(* The head of the loop. *)
GreedyLoop(p, c, out) ==
  IF p.scanned < MaxScanned /\ p.threads # {} /\ c.queue # {}
  THEN /\ pass' = [p EXCEPT !.batches = out.batches]
       /\ container' = c /\ pc' = "schedule"
       /\ in_flight' = out.tracker /\ consume_work' = out.channel
  ELSE /\ pass' = NoPass /\ pc' = "buffer"
       /\ container' = PushIds(c, p.unschedulable)
       /\ in_flight' = SendBatches(out).tracker
       /\ consume_work' = SendBatches(out).channel

StartGreedyPass ==
  /\ Alive /\ pc = "receive" /\ finished = << >> /\ decision = "Consume"
  /\ config.greedy /\ RoomyThreads # {}
  /\ GreedyLoop([NoPass EXCEPT !.threads = RoomyThreads], container,
                Sending(NoBatches))
  /\ UNCHANGED <<config, locks, finished, decision, receiving>>

(* Mutant: a conflict with the batches does not send them. *)
KeepBatches(out, accounts, x) == [out |-> out, accounts |-> NoAccounts]

(* A transaction that conflicts with the batches has them sent first. *)
SendIfConflict(out, accounts, x) ==
  IF CheckLocks(accounts, x) THEN [out |-> out, accounts |-> accounts]
  ELSE [out |-> SendBatches(out), accounts |-> NoAccounts]

(* Mutant: the locks are not asked for the threads. *)
RoomyOnly(x) == pass.threads

GreedySchedulable(x) == SchedulableThreads(locks, x) \cap pass.threads

ScheduleGreedily ==
  /\ Alive /\ pc = "schedule" /\ config.greedy
  /\ LET x == TopOf(container.queue)
         popped == [container EXCEPT !.queue = @ \ {x}]
         w == SendIfConflict(Sending(pass.batches), pass.accounts, x)
         p == [pass EXCEPT !.scanned = @ + 1]
         T == GreedySchedulable(x)
         t == SelectThread(w.out, T)
         out == AddToBatch(w.out, t, x)
         target == Len(out.batches[t].txs) >= BatchSize
         sent == IF target THEN SendBatches(out) ELSE out
     IN  IF T # {}
         THEN /\ locks' = LockAccounts(locks, x, t)
              /\ GreedyLoop(
                   [p EXCEPT !.accounts = IF target THEN NoAccounts
                                          ELSE TakeLocks(w.accounts, x),
                             !.threads = IF Cus(sent, t) >= MaxCus
                                         THEN @ \ {t} ELSE @],
                   [TransitionToPending(popped, x)
                      EXCEPT !.panic = @ \/ ~CheckLocks(w.accounts, x)],
                   sent)
         ELSE /\ GreedyLoop([p EXCEPT !.accounts = w.accounts,
                                      !.unschedulable = @ \cup {x}],
                            popped, w.out)
              /\ UNCHANGED locks
  /\ UNCHANGED <<config, finished, decision, receiving>>

-----------------------------------------------------------------------------
(* The other steps of the controller.                                      *)

(* Both schedulers return at once when no thread has room. *)
SkipPass ==
  /\ Alive /\ pc = "receive" /\ finished = << >> /\ decision = "Consume"
  /\ RoomyThreads = {}
  /\ pc' = "buffer"
  /\ UNCHANGED <<config, container, locks, in_flight, consume_work, finished,
                 decision, receiving, pass>>

(* Mutant: the map is cleared, with the transactions in flight. *)
ClearAll(S) == [container EXCEPT !.queue = {}, !.slab = << >>]

(* The container with nothing in the queue but S. *)
Keep(S) ==
  PushIds(RemoveByIds([container EXCEPT !.queue = {}], container.queue \ S), S)

(* process_transactions when there is no bank to fill.  Forward clears the *)
(* container, after forwarding if that is enabled.  ForwardAndHold drops   *)
(* what fails the checks (clean_queue); forward_packets also drops what it *)
(* has no time for.                                                        *)
HoldOrClear ==
  /\ Alive /\ pc = "receive" /\ finished = << >>
  /\ \/ decision = "Hold" /\ UNCHANGED container
     \/ decision = "Forward" /\ container' = Keep({})
     \/ /\ decision = "ForwardAndHold"
        /\ \E S \in SUBSET container.queue : container' = Keep(S)
  /\ pc' = "buffer"
  /\ UNCHANGED <<config, locks, in_flight, consume_work, finished, decision,
                 receiving, pass>>

(* A chunk of new transactions: they enter the map, those that fail the    *)
(* checks leave it, and the others are pushed into the queue.  (With       *)
(* insert_new_transaction a chunk is one transaction.)                     *)
BufferChunk ==
  /\ Alive /\ pc = "buffer" /\ (decision = "Forward" => config.forwarding)
  /\ \E S \in SUBSET (Tx \ DOMAIN container.slab) :
       \E failed \in SUBSET S :
         /\ Cardinality(S) \in 1..Extra
         /\ container' =
              PushIds([queue |-> container.queue,
                       slab |-> container.slab
                                  @@ [x \in S \ failed |-> "Unprocessed"],
                       panic |-> Cardinality(S \cup DOMAIN container.slab)
                                   > config.capacity + Extra],
                      S \ failed)
  /\ UNCHANGED <<config, locks, in_flight, consume_work, finished, pc, decision,
                 receiving, pass>>

(* The loop starts again; make_consume_or_forward_decision. *)
Decide ==
  /\ Alive /\ pc = "buffer"
  /\ decision' \in config.decisions /\ pc' = "receive"
  /\ UNCHANGED <<config, container, locks, in_flight, consume_work, finished,
                 receiving, pass>>

Init ==
  /\ config \in Configs
  /\ container = [queue |-> {}, slab |-> << >>, panic |-> FALSE]
  /\ locks = [a \in Account |-> NoLocks]
  /\ in_flight = [num |-> [t \in Thread |-> 0], cus |-> [t \in Thread |-> 0],
                  batches |-> << >>]
  /\ consume_work = [t \in Thread |-> << >>] /\ finished = << >>
  /\ pc = "buffer" /\ decision = "Hold"
  /\ receiving = NotReceiving /\ pass = NoPass

Next ==
  \/ \E t \in Thread : FinishWork(t)
  \/ TryReceiveCompleted \/ UnlockNext
  \/ StartPass \/ ScheduleNext \/ SendAndUnblock
  \/ StartGreedyPass \/ ScheduleGreedily
  \/ SkipPass \/ HoldOrClear \/ BufferChunk \/ Decide

(* A worker keeps taking work from its channel; the controller's loop      *)
(* keeps running, and the validator is the leader again and again.         *)
Fairness ==
  /\ \A t \in Thread : \/ []<>(consume_work[t] = << >>)
                       \/ []<><<FinishWork(t)>>_consume_work
  /\ []<>(Alive => pc = "buffer")
  /\ []<>(Alive => pc = "receive" /\ decision = "Consume")

Spec == Init /\ [][Next]_vars
FairSpec == Spec /\ Fairness

-----------------------------------------------------------------------------
(* What is out with thread t: in a batch, in the channels, or being taken  *)
(* back and not yet unlocked.                                              *)
OutWith(t) ==
  ToSet(pass.batches[t].txs)
    \cup UNION {ToSet(w.txs) : w \in ToSet(consume_work[t])}
    \cup UNION {ToSet(w.txs) : w \in {v \in ToSet(finished) :
                                in_flight.batches[v.batch_id].thread = t}}
    \cup (IF receiving.thread = t
          THEN {receiving.txs[i] : i \in receiving.next..Len(receiving.txs)}
          ELSE {})
Out == UNION {OutWith(t) : t \in Thread}
Held == [x \in Out |-> CHOOSE t \in Thread : x \in OutWith(t)]

SumCost(S) == FoldSet(LAMBDA x, n : Cost[x] + n, 0, S)

TypeOK ==
  /\ config \in Configs
  /\ container.queue \subseteq Tx /\ DOMAIN container.slab \subseteq Tx
  /\ \A x \in DOMAIN container.slab :
       container.slab[x] \in {"Unprocessed", "Pending"}
  /\ container.panic \in BOOLEAN
  /\ locks \in [Account -> AccountLock]
  /\ in_flight.num \in [Thread -> Nat] /\ in_flight.cus \in [Thread -> Nat]
  /\ pc \in {"receive", "unlock", "schedule", "buffer"}
  /\ decision \in Decision

(* No assertion, expect or unwrap of the controller fails: every id popped *)
(* is in the map and unprocessed, every one that comes back is pending,    *)
(* the queue has enough to drop, the map never grows beyond its slots.     *)
NoPanic == ~container.panic

(* Nothing is lost, duplicated or forgotten: an unprocessed transaction is *)
(* in exactly one place to be scheduled from, and the pending ones are     *)
(* those that are out, whatever is cleared, dropped or retried meanwhile.  *)
(* The tracker's counts are those of the work that is out, though it is    *)
(* told of a batch only when it is sent.                                   *)
NothingLost ==
  LET back == IF receiving.thread = NoThread THEN {} ELSE ToSet(receiving.txs)
      places == <<container.queue, pass.graph, pass.unschedulable>>
  IN  /\ Unprocessed = container.queue \cup pass.graph \cup pass.unschedulable
      /\ \A i, j \in 1..3 : i # j => places[i] \cap places[j] = {}
      /\ Pending = Out \cup back
      /\ \A t, u \in Thread : t # u => OutWith(t) \cap OutWith(u) = {}
      /\ \A t \in Thread :
           LET sent == OutWith(t) \ (ToSet(pass.batches[t].txs)
                                        \cup ToSet(receiving.txs))
           IN  /\ in_flight.num[t] = Cardinality(sent)
               /\ in_flight.cus[t] = SumCost(sent)

(* No two transactions of one batch conflict: a worker executes a batch as *)
(* a whole and would have to return the later one.                         *)
BatchesConflictFree ==
  LET works == UNION {ToSet(consume_work[t]) : t \in Thread}
      batches == {w.txs : w \in works} \cup {pass.batches[t].txs : t \in Thread}
  IN  \A s \in batches : \A i, j \in DOMAIN s :
        i # j => ~Conflict(s[i], s[j])

(* The table of locks behaves as AccountLocks promises: the scheduler      *)
(* locks only what it may and unlocks each transaction once, on the thread *)
(* it was given to.                                                        *)
Table == INSTANCE AccountLocks WITH held <- Held
LocksSpec == Table!LocksSpec

(* What a step schedules. *)
NewlyScheduled == Pending' \ Pending

(* The prio-graph scheduler schedules no transaction before a conflicting  *)
(* one of higher priority that it holds, be that one in the graph, beyond  *)
(* the window, or unschedulable.                                           *)
PriorityRespected ==
  [][~config.greedy =>
       \A x \in NewlyScheduled : \A y \in Unprocessed :
         Conflict(x, y) => Priority[y] <= Priority[x]]_vars

(* What is given to a worker comes back to the container or leaves it. *)
WorkComesBack == \A x \in Tx : x \in Pending ~> x \notin Pending

(* Of the prio-graph scheduler: the transaction of highest priority is not *)
(* starved by others that keep its accounts locked on several threads.     *)
TopIsScheduled ==
  (~config.greedy /\ TopOf(Tx) \in Unprocessed) ~> TopOf(Tx) \notin Unprocessed
==============================================================================
