-------------------------- MODULE MCDuplicateSlots ---------------------------
EXTENDS DuplicateSlots

MCVoter == {"a", "b"}
MCVoteStake == [v \in MCVoter |-> IF v = "a" THEN 1 ELSE 2]

(* Slot 1 has two versions and slot 2 builds on either; the cluster        *)
(* confirms the versions with hash "good".  On the other one slot 2 may    *)
(* fail to replay, and then it is slot 1 that has to be repaired.  Voter b *)
(* votes for the good version only, and a for both.                        *)
Split(good, dead) ==
  LET parent == (<<1, 1>> :> Genesis) @@ (<<1, 2>> :> Genesis)
                @@ (<<2, 1>> :> <<1, 1>>) @@ (<<2, 2>> :> <<1, 2>>)
  IN [parent |-> parent,
      shreds |-> [k \in DOMAIN parent |-> IF k = <<1, 2>> THEN 2 ELSE 1],
      dead |-> dead,
      confirmed |-> {Genesis, <<1, good>>, <<2, good>>},
      landed |-> [k \in {Genesis} \cup DOMAIN parent |->
                    [v \in MCVoter |->
                       IF k[1] = 2 /\ (v = "a" \/ k[2] = good) THEN 1
                       ELSE IF k[1] = 0 THEN NoSlot ELSE 0]]]

(* Slot 2 has two versions on different forks.                             *)
Pruned ==
  LET parent == (<<1, 1>> :> Genesis) @@ (<<2, 1>> :> Genesis)
                @@ (<<2, 2>> :> <<1, 1>>)
  IN [parent |-> parent,
      shreds |-> [k \in DOMAIN parent |-> k[2]],
      dead |-> {},
      confirmed |-> {Genesis, <<1, 1>>, <<2, 2>>},
      landed |-> [k \in {Genesis} \cup DOMAIN parent |->
                    [v \in MCVoter |->
                       IF k = <<2, 2>> /\ v = "b" THEN 1 ELSE NoSlot]]]

(* Two versions of slot 1, beside a fork that voter a is on.               *)
Aside ==
  LET parent == (<<1, 1>> :> Genesis) @@ (<<1, 2>> :> Genesis)
                @@ (<<2, 1>> :> Genesis) @@ (<<3, 1>> :> <<2, 1>>)
  IN [parent |-> parent,
      shreds |-> [k \in DOMAIN parent |-> k[2]],
      dead |-> {},
      confirmed |-> {Genesis, <<1, 2>>},
      landed |-> [k \in {Genesis} \cup DOMAIN parent |->
                    [v \in MCVoter |->
                       CASE k = <<3, 1>> /\ v = "a" -> 2
                         [] k = <<2, 1>> /\ v = "a" -> 0
                         [] OTHER -> NoSlot]]]

MCScenario == {Aside, Split(2, {}), Split(2, {<<2, 1>>}), Pruned}
=============================================================================
