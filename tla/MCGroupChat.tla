---------------------------- MODULE MCGroupChat ----------------------------
(* Instances of GroupChat for TLC. *)
EXTENDS GroupChat

CONSTANTS c1, c2, c3

ThreeClients == {c1, c2, c3}
MinusOne == -1
=============================================================================
