----------------------------- MODULE MCServices -----------------------------
(* Small instances of Services for TLC. *)
EXTENDS Services

CONSTANTS kid, encryption, plain, full, unknown, none
=============================================================================
