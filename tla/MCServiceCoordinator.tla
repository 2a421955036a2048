------------------------- MODULE MCServiceCoordinator -------------------------
(* Instances of ServiceCoordinator for TLC. *)
EXTENDS ServiceCoordinator

CONSTANTS c1, c2

TwoClients == {c1, c2}
=============================================================================
