---------------------------- MODULE MCBackupServer ----------------------------
(* Instances of BackupServer for TLC. *)
EXTENDS BackupServer

CONSTANTS c1, c2

TwoClients == {c1, c2}
=============================================================================
