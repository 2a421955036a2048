-------------------------- MODULE MCTypedServices --------------------------
(* Instances of TypedServices for TLC. *)
EXTENDS TypedServices, TLC

CONSTANTS c1, c2

TwoClients == {c1, c2}

\* One user may enter a type behind the array, or a 0 that the next line may turn into any.
TheirWants == (c1 :> {0, 1, 3}) @@ (c2 :> {1, 2})
=============================================================================
