---------------------------- MODULE MCPublishing ----------------------------
(***************************************************************************)
(* A small instance of Publishing for TLC.                                 *)
(***************************************************************************)
EXTENDS Publishing, TLC

CONSTANTS p1, p2, i1, backup

ProcessSymmetry == Permutations(Processes)
=============================================================================
