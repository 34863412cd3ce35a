------------------------------- MODULE Stakes -------------------------------
(***************************************************************************)
(* The stake of sets of vote accounts, as the number of the units of stake *)
(* that they hold.                                                         *)
(***************************************************************************)
EXTENDS Naturals, FiniteSets

CONSTANTS
  Validator,  \* the staked vote accounts
  Stake       \* Stake[v]: the stake delegated to v

ASSUME StakeAssumption ==
  IsFiniteSet(Validator) /\ Stake \in [Validator -> Nat]

StakeUnits(S) == UNION {{v} \X (1..Stake[v]) : v \in S}
StakeSum == [S \in SUBSET Validator |-> Cardinality(StakeUnits(S))]
StakeOf(S) == StakeSum[S]
TotalStake == StakeOf(Validator)
=============================================================================
