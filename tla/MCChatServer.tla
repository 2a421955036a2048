---------------------------- MODULE MCChatServer ----------------------------
(* Instances of ChatServer for TLC. *)
EXTENDS ChatServer

CONSTANTS c1, c2, c3

ThreeClients == {c1, c2, c3}
=============================================================================
