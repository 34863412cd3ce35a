---------------------------- MODULE MCScheduling ----------------------------
(* The scheduling state machine for TLC: every way to lock one or two of   *)
(* the addresses.                                                          *)
EXTENDS SchedulingStateMachine

MCRequests ==
  {r \in [1..1 -> LockContext] \cup [1..2 -> LockContext] :
     \A i, j \in DOMAIN r : r[i].address = r[j].address => i = j}
=============================================================================
