------------------------- MODULE MCCentralScheduler --------------------------
EXTENDS CentralScheduler

CONSTANTS acctA, acctB, tAB, tA, tB, rA

MCThread == {0, 1}
MCAccount == {acctA, acctB}
MCTx == {tAB, tA, tB, rA}

(* tAB needs two accounts that tA and tB may lock on two threads; rA reads. *)
MCWrites == (tAB :> {acctA, acctB}) @@ (tA :> {acctA}) @@ (tB :> {acctB}) @@ (rA :> {})
MCReads == (tAB :> {}) @@ (tA :> {}) @@ (tB :> {}) @@ (rA :> {acctA})
MCPriority == (tAB :> 4) @@ (tA :> 3) @@ (rA :> 2) @@ (tB :> 1)
MCCost == (tAB :> 1) @@ (tA :> 2) @@ (tB :> 2) @@ (rA :> 1)

Prio == [greedy |-> FALSE, forwarding |-> FALSE, capacity |-> 4,
         decisions |-> {"Consume"}]
Greedy == [greedy |-> TRUE, forwarding |-> TRUE, capacity |-> 3,
           decisions |-> Decision]
BothConfigs == {Prio, Greedy}
==============================================================================
