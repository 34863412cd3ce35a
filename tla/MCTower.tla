------------------------------ MODULE MCTower ------------------------------
(* Tower for TLC: lockouts of INITIAL_LOCKOUT ^ confirmation_count slots.  *)
EXTENDS Tower

MCLOCKOUT == [c \in 0..MAX_LOCKOUT_HISTORY |-> 2 ^ c]

(* Forks: a chain 1-2-3-7 long enough to root slot 1, a fork from 1 at 5,  *)
(* and one from genesis at 12, where every lockout has expired and a bank  *)
(* off the fork of the tower's root may be voted on.                       *)
ThreeForks ==
  {<<1, 0>>, <<2, 1>>, <<3, 2>>, <<7, 3>>, <<5, 1>>, <<12, 0>>}
=============================================================================
