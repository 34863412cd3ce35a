--------------------------- MODULE LockConflicts ----------------------------
(* The lock contexts of a transaction, and when two of them conflict.      *)
EXTENDS Integers, Sequences

CONSTANT Address  \* the account addresses

RequestedUsage == {"Readonly", "Writable"}
LockContext == [address : Address, usage : RequestedUsage]

Uses(r) == {r[i].address : i \in DOMAIN r}
UsageOf(r, a) == r[CHOOSE i \in DOMAIN r : r[i].address = a].usage

(* Both use an address, and one of them writes it. *)
Conflicting(r1, r2) ==
  \E a \in Uses(r1) \cap Uses(r2) :
    "Writable" \in {UsageOf(r1, a), UsageOf(r2, a)}
=============================================================================
