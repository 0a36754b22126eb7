----------------------------- MODULE MCCluster -----------------------------
(* Small instances of Cluster for TLC. *)
EXTENDS Cluster

CONSTANTS n1, n2, c1

AtFirst == [c \in Clients |-> n1]
=============================================================================
