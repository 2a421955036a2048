---------------------------- MODULE MCServicePorts ----------------------------
(* Instances of ServicePorts for TLC. *)
EXTENDS ServicePorts

CONSTANTS c1, c2, c3

ThreeClients == {c1, c2, c3}

OneAndTwo == [p \in Ports |-> p + 1]
=============================================================================
