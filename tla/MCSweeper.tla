------------------------------ MODULE MCSweeper ------------------------------
(* Instances of Sweeper for TLC. One unit of time is the timeout of a      *)
(* round; the grace periods are shortened to two.                          *)
EXTENDS Sweeper, TLC

Symmetry == Permutations(Sandbox)
=============================================================================
