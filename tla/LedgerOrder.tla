---------------------------- MODULE LedgerOrder -----------------------------
(***************************************************************************)
(* What the unified scheduler promises: transactions are submitted in      *)
(* ledger order, and exactly those may run for which every earlier         *)
(* conflicting transaction has finished.  No queue, count or lock: the set *)
(* is recomputed from scratch after every step.                            *)
(***************************************************************************)
EXTENDS LockConflicts

CONSTANTS Requests, MaxTasks

VARIABLES
  contexts,  \* the lock contexts of the transactions submitted, in order
  ready,     \* the transactions that may run, or are running
  finished   \* the transactions that have been executed

vars == <<contexts, ready, finished>>

MayRun(ctx, done) ==
  {u \in DOMAIN ctx \ done :
     \A t \in DOMAIN ctx \ done : t < u => ~Conflicting(ctx[t], ctx[u])}

Init == contexts = <<>> /\ ready = {} /\ finished = {}

Submit(r) ==
  /\ Len(contexts) < MaxTasks
  /\ contexts' = Append(contexts, r)
  /\ finished' = finished
  /\ ready' = MayRun(contexts', finished')

Finish(t) ==
  /\ t \in ready
  /\ contexts' = contexts
  /\ finished' = finished \cup {t}
  /\ ready' = MayRun(contexts', finished')

(* The next block: everything submitted has been executed. *)
Clear ==
  /\ finished = DOMAIN contexts
  /\ contexts' = <<>> /\ ready' = {} /\ finished' = {}

Next ==
  \/ \E r \in Requests : Submit(r)
  \/ \E t \in ready : Finish(t)
  \/ Clear

Spec == Init /\ [][Next]_vars
=============================================================================
