----------------------------- MODULE MCEchoPool -----------------------------
(* Instances of EchoPool for TLC. *)
EXTENDS EchoPool

CONSTANTS c1, c2

TwoClients == {c1, c2}
=============================================================================
