----------------------------- MODULE MCCluster -----------------------------
(* Four validators of equal stake: two of them are more than 38% of it,    *)
(* three more than two thirds.  The trees have forks at genesis, three     *)
(* forks at one block and a fork nested in another, with slots far enough  *)
(* apart for the first lockouts to expire.                                 *)
EXTENDS ClusterVoting, TLC

CONSTANTS v1, v2, v3, v4

AncestorsOf(parent) ==
  LET S == DOMAIN parent \cup {0}
      anc[s \in S] == IF s = 0 THEN {} ELSE anc[parent[s]] \cup {parent[s]}
  IN  anc

TwoForks == AncestorsOf(1 :> 0 @@ 3 :> 1 @@ 5 :> 3 @@ 2 :> 0 @@ 4 :> 2 @@ 8 :> 4)
ThreeForks == AncestorsOf(1 :> 0 @@ 2 :> 1 @@ 3 :> 1 @@ 4 :> 1 @@ 7 :> 2)
Nested == AncestorsOf(1 :> 0 @@ 2 :> 1 @@ 3 :> 2 @@ 4 :> 2 @@ 7 :> 1 @@ 8 :> 3)

MCTrees == {TwoForks, ThreeForks, Nested}
MCValidators == {v1, v2, v3, v4}
MCStake == [v \in MCValidators |-> 1]
MCLockout == [c \in 0..MAX_LOCKOUT_HISTORY |-> 2^c]
Symmetry == Permutations(MCValidators)
=============================================================================
