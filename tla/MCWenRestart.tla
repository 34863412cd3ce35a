---------------------------- MODULE MCWenRestart -----------------------------
(***************************************************************************)
(* Three validators with 5, 3 and 2 of 10 stake, so that 80% is active     *)
(* with or without the third; slot 4 is in the next epoch.                 *)
(*                                                                         *)
(*      0 --- 1 --- 2 --- 4                                                *)
(*             \--- 3                                                      *)
(***************************************************************************)
EXTENDS WenRestart

Validators == {"v1", "v2", "v3"}
Slots == 0 .. 4
Forks == [s \in Slots |-> CASE s = 4 -> {0, 1, 2, 4} [] s = 3 -> {0, 1, 3}
                            [] OTHER -> 0 .. s]
FiveThreeTwo == [v1 |-> 5, v2 |-> 3, v3 |-> 2]
ThreeThreeFour == [v1 |-> 3, v2 |-> 3, v3 |-> 4]
Stakes == [e \in {0, 1} |-> IF e = 0 THEN FiveThreeTwo ELSE ThreeThreeFour]

(* What each validator has when it only has its own fork. *)
OwnBlocks(voted) ==
  [n \in Validators |-> [s \in Slots |-> IF s \in Fork[voted[n]]
                                         THEN "main" ELSE None]]

OneScenario(voted, crashesUpTo) ==
  [coordinator |-> "v1", voted |-> voted, root |-> [n \in Validators |-> 0],
   offline |-> {}, gone |-> {}, blocks |-> OwnBlocks(voted),
   snapshots |-> TRUE, torn |-> FALSE, crashes |-> crashesUpTo]

(* All on one fork, the first a slot into the next epoch.  Slot 4 counts   *)
(* for whoever has not heard of the third, but has too few votes for the   *)
(* others to repair it before it is announced.                             *)
OneFork == OneScenario([v1 |-> 4, v2 |-> 2, v3 |-> 1], 0)

(* Slot 2 is confirmed by the first and the third, if there is a third. *)
TwoForks == OneScenario([v1 |-> 2, v2 |-> 3, v3 |-> 2], 0)

(* Slot 1 came in two versions. *)
TwoVersions == [OneScenario([v1 |-> 2, v2 |-> 1, v3 |-> 1], 0) EXCEPT
                  !.blocks["v3"][1] = "other", !.snapshots = FALSE]

(* The second last voted before the first one's root; the others are in    *)
(* the next epoch.                                                         *)
OldVote == [OneScenario([v1 |-> 4, v2 |-> 1, v3 |-> 4], 0) EXCEPT
              !.root = [v1 |-> 2, v2 |-> 0, v3 |-> 1]]

(* Who hears of the third finds slot 1, who does not finds slot 2. *)
TwoDepths == OneScenario([v1 |-> 2, v2 |-> 1, v3 |-> 1], 0)

(* The root of the second is past the fork that the others are on, or      *)
(* beside it.                                                              *)
RootAhead == [OneScenario([v1 |-> 1, v2 |-> 2, v3 |-> 1], 0) EXCEPT
                !.root["v2"] = 2]
RootBeside == [OneScenario([v1 |-> 3, v2 |-> 2, v3 |-> 3], 0) EXCEPT
                 !.root["v2"] = 2]

(* Crashes, while the third is gone or does not take part.  A crash may    *)
(* empty the file that is being written.                                   *)
WithoutThird(s) == [s EXCEPT !.offline = {"v3"}, !.crashes = 2]
ThirdGone(s) == [s EXCEPT !.gone = {"v3"}, !.crashes = 1]
Torn(s) == [s EXCEPT !.torn = TRUE]

AllScenarios ==
  {OneFork, TwoForks, TwoVersions, WithoutThird(TwoForks),
   Torn(ThirdGone(TwoDepths))}
  \cup {ThirdGone(s) :
          s \in {TwoForks, TwoDepths, OldVote, RootAhead, RootBeside}}
==============================================================================
