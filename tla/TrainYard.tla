------------------------------ MODULE TrainYard ------------------------------
(***************************************************************************)
(* What a station master promises its trains, whatever protocol it uses:   *)
(* a train that comes in waits, is called to one platform under one        *)
(* number, and leaves only after it was called.  The call is final.  A     *)
(* train may give up at any time; the station does not notice, and may     *)
(* still call it.                                                          *)
(***************************************************************************)
CONSTANTS Trains,    \* the train processes
          Berths,    \* the platforms a train can be called to
          Numbers,   \* the train numbers the station hands out
          NoBerth    \* the berth of a train that was not called

VARIABLES phase,     \* where each train is in its visit
          berth,     \* the platform each train was called to
          number     \* the number it was called under

yard == <<phase, berth, number>>

Phases == {"away", "in", "gone", "quit"}

YardInit ==
  /\ phase = [t \in Trains |-> "away"]
  /\ berth = [t \in Trains |-> NoBerth]
  /\ number \in [Trains -> Numbers]

Enter(t) ==
  /\ phase[t] = "away"
  /\ phase' = [phase EXCEPT ![t] = "in"]
  /\ UNCHANGED <<berth, number>>

\* One call per train, under a number no called train has.
Call(t) ==
  /\ phase[t] # "away" /\ phase[t] # "gone"
  /\ berth[t] = NoBerth
  /\ \E b \in Berths : berth' = [berth EXCEPT ![t] = b]
  /\ number'[t] \in Numbers
  /\ number' = [number EXCEPT ![t] = number'[t]]
  /\ \A u \in Trains : berth[u] # NoBerth => number[u] # number'[t]
  /\ UNCHANGED phase

Depart(t) ==
  /\ phase[t] = "in"
  /\ berth[t] # NoBerth
  /\ phase' = [phase EXCEPT ![t] = "gone"]
  /\ UNCHANGED <<berth, number>>

GiveUp(t) ==
  /\ phase[t] = "in"
  /\ phase' = [phase EXCEPT ![t] = "quit"]
  /\ UNCHANGED <<berth, number>>

YardNext == \E t \in Trains : Enter(t) \/ Call(t) \/ Depart(t) \/ GiveUp(t)

YardSpec == YardInit /\ [][YardNext]_yard
=============================================================================
