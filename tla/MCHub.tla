------------------------------- MODULE MCHub -------------------------------
(* Small instances of Hub for TLC. *)
EXTENDS Hub, TLC

CONSTANTS c1, c2, u1, ch1, ch2, p1, p2, none

MCUserOf == [c \in Conns |-> u1]
Perms == Permutations(Conns)
=============================================================================
