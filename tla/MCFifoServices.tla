--------------------------- MODULE MCFifoServices ---------------------------
(* Instances of FifoServices for TLC. *)
EXTENDS FifoServices, TLC

CONSTANTS c1, c2, c3

ThreeClients == {c1, c2, c3}

\* Each service is asked for by one client, and one user may be mistaken.
TheirWants == (c1 :> {1, 4}) @@ (c2 :> {2}) @@ (c3 :> {3})
=============================================================================
