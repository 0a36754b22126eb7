----------------------------- MODULE MCRecovery -----------------------------
(* Small instances of Recovery for TLC.  Publishers are interchangeable:    *)
(* nothing tells them apart but what they hold.                             *)
EXTENDS Recovery, TLC

CONSTANTS p1, p2

Symmetry == Permutations(Publishers)
=============================================================================
