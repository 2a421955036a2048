---------------------------- MODULE MCServiceMenu ----------------------------
(* Instances of ServiceMenu for TLC. *)
EXTENDS ServiceMenu

CONSTANTS c1, c2

TwoClients == {c1, c2}
=============================================================================
