---------------------------- MODULE MCPortStation ----------------------------
(* Instances of PortStation for TLC. *)
EXTENDS PortStation

CONSTANTS t1, t2, t3

ThreeTrains == {t1, t2, t3}
=============================================================================
