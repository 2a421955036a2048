----------------------------- MODULE MCNitwRail -----------------------------
(* Instances of NitwRail for TLC. *)
EXTENDS NitwRail, TLC

CONSTANTS t1, t2, t3, p1, p2

ThreeTrains == {t1, t2, t3}
TwoPlatforms == {p1, p2}

AnyNames == Permutations(Trains) \cup Permutations(Platforms)

\* The state after a start in which the platforms connected, claimed their
\* flags and read SM's pid one after the other.  NitwRail reaches it.
Booted ==
  /\ flag = [i \in Index |-> 0]
  /\ masterPid = "master"
  /\ nusfd = <<p1, p2>>
  /\ ppc = [p \in Platforms |-> "idle"]
  /\ platform_no = (p1 :> 0 @@ p2 :> 1)
  /\ pid = [p \in Platforms |-> "master"]
  /\ mpc = "select"
  /\ NobodyCame

BootedSpec == Booted /\ [][Next]_vars /\ Fairness
=============================================================================
