---------------------------- MODULE MCRetarget ----------------------------
(***************************************************************************)
(* Targets of three bytes below 4, all of them; a period of 8 seconds and  *)
(* timestamps on both sides of its quarter and its fourfold, backwards     *)
(* too; words of 8 bits, in which no sum of C wraps, as in the code none   *)
(* does in 32.                                                             *)
(***************************************************************************)
EXTENDS Retarget

MCTargets == [1..Digits -> 0..Base - 1]
=============================================================================
