--------------------------- MODULE MCVoteListener ----------------------------
(***************************************************************************)
(* Instances of VoteListener: two validators with 4 and 2 of 6 stake (more *)
(* than 3 is duplicate confirmed, more than 4 optimistically), and small   *)
(* trees of blocks.                                                        *)
(***************************************************************************)
EXTENDS VoteListener, TLC

CONSTANTS v1, v2, g, a, b, b2, c, d, e

MCStake == v1 :> 4 @@ v2 :> 2

(* g at slot 0, a at 1, b and b2 at 2 on a, c at 3 on b, d at 3 on a, e at *)
(* 4 on c.                                                                 *)
MCSlotOf ==
  [x \in Block |-> CASE x = g -> 0 [] x = a -> 1 [] x \in {b, b2} -> 2
                     [] x \in {c, d} -> 3 [] x = e -> 4]
MCFork ==
  [x \in Block |-> CASE x = g -> {g} [] x = a -> {g, a}
                     [] x \in {b, b2, d} -> {g, a, x} [] x = c -> {g, a, b, c}
                     [] x = e -> {g, a, b, c, e}]

TowerVote(v, x) ==
  [voter |-> v, block |-> x, full |-> TRUE,
   slots |-> {MCSlotOf[y] : y \in {z \in MCFork[x] : z # g}}]
LegacyVote(v, x) == [TowerVote(v, x) EXCEPT !.full = FALSE]

(* Votes for both versions of slot 2, and for two forks of which one is    *)
(* pruned when the other is rooted.                                        *)
VersionVotes ==
  { {TowerVote(v1, c), TowerVote(v2, b)}, {TowerVote(v1, c), TowerVote(v2, b2)},
    {TowerVote(v1, d), TowerVote(v2, b)} }

Versions ==
  [votes : VersionVotes, replay : {Block \ {e}}, unpropagated : {{}},
   batch : {1}]

(* A vote above slot 3, which is pruned as d and can then be repaired and  *)
(* replayed as c.                                                          *)
Repaired ==
  [votes |-> {TowerVote(v1, e)}, replay |-> Block \ {b2},
   unpropagated |-> {}, batch |-> 1]

(* Repeated votes of one validator, one of them in the legacy form, in     *)
(* batches, whose voters the replay stage collects.                        *)
Repeated ==
  [votes |-> {TowerVote(v1, a), TowerVote(v1, b), LegacyVote(v2, b)},
   replay |-> {g, a, b}, unpropagated |-> {2}, batch |-> 2]

MCScenarios == Versions \cup {Repeated, Repaired}
==============================================================================
