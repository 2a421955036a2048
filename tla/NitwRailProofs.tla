--------------------------- MODULE NitwRailProofs ---------------------------
(***************************************************************************)
(* Proofs about NitwRail, for any number of trains and platforms, any      *)
(* queue length and any number of killed trains.                           *)
(***************************************************************************)
EXTENDS NitwRail, FiniteSetTheorems, TLAPS

\* What the types need: where main, the handler and a platform are tells which
\* of their variables are in range.
InHand == mpc \in {"scan", "claim", "dispatch", "slot", "count"}

Control ==
  /\ InHand => nsfd \in Trains
  /\ mpc \in {"claim", "dispatch"} => mi \in Index
  /\ mpc = "count" => tcnt < QueueSlots /\ queue[tcnt].fd = nsfd
  /\ hpc = "scan" => scnt < tcnt /\ mpc \notin {"boot", "dead"}
  /\ \A k \in 0 .. tcnt - 1 : queue[k].fd \in Trains
  /\ \A p \in Platforms : ppc[p] \in {"recv", "stay", "left"} => cur[p] \in Trains

TypeInv == TypeOK /\ Control

LEMMA TypeInit == Init => TypeInv
<1> SUFFICES ASSUME Init PROVE TypeInv
  OBVIOUS
<1> USE RailAssumption DEF Init, Forked, NobodyCame, ShmInit, FirstNumber, Index
<1>1. PlatformTypes
  BY DEF PlatformTypes, PlatformPC
<1>2. SharedTypes
  BY DEF SharedTypes
<1>3. MasterTypes
  BY DEF MasterTypes, MainPC
<1>4. QueueTypes
  <2>1. [fd |-> NoTrain, no |-> 0] \in [fd : Trains \cup {NoTrain}, no : Nat]
    OBVIOUS
  <2>2. QED  BY <2>1 DEF QueueTypes
<1>5. TrainTypes
  <2>1. \A t \in Trains : /\ tpc[t] = "away" /\ unread[t] = 0 /\ conn[t] = "open"
                         /\ berth[t] = NoBerth /\ number[t] = 0
    OBVIOUS
  <2>2. tpc \in [Trains -> TrainPC] /\ conn \in [Trains -> ConnState]
    BY DEF TrainPC, ConnState
  <2>3. unread \in [Trains -> Nat] /\ number \in [Trains -> Nat]
    OBVIOUS
  <2>4. berth \in [Trains -> Index \cup {NoBerth}]
    OBVIOUS
  <2>5. QED  BY <2>2, <2>3, <2>4 DEF TrainTypes
<1>6. Control
  BY DEF Control, InHand
<1>7. BooleanTypes
  BY DEF BooleanTypes
<1>8. QED
  BY <1>1, <1>2, <1>3, <1>4, <1>5, <1>6, <1>7 DEF TypeInv, TypeOK

LEMMA SendType ==
  ASSUME TrainTypes, NEW t \in Trains, Send(t), UNCHANGED <<berth, number>>
  PROVE  TrainTypes'
  BY DEF TrainTypes, Send, ConnState

LEMMA HandOverType ==
  ASSUME TrainTypes, SharedTypes, NEW t \in Trains, NEW n \in Nat, NEW i \in Index,
         HandOver(t, n, i)
  PROVE  TrainTypes' /\ fdq' \in [Platforms -> Seq(Trains)]
<1> USE DEF HandOver
<1>1. unread' \in [Trains -> Nat] /\ conn' \in [Trains -> ConnState] /\ tpc' = tpc
  BY DEF TrainTypes, Send, ConnState
<1>2. berth' \in [Trains -> Index \cup {NoBerth}] /\ number' \in [Trains -> Nat]
  BY DEF TrainTypes
<1>3. TrainTypes'
  BY <1>1, <1>2 DEF TrainTypes
<1>4. fdq' \in [Platforms -> Seq(Trains)]
  <2>1. fdq' = [fdq EXCEPT ![PlatformAt(i)] = Append(@, t)]
    OBVIOUS
  <2>2. ASSUME NEW p \in Platforms PROVE Append(fdq[p], t) \in Seq(Trains)
    BY DEF SharedTypes
  <2>3. QED  BY <2>1, <2>2 DEF SharedTypes
<1>5. QED
  BY <1>3, <1>4

LEMMA DieType ==
  ASSUME TrainTypes, SharedTypes, NEW t \in Trains, DieInHandOver(t)
  PROVE  TrainTypes' /\ fdq' \in [Platforms -> Seq(Trains)]
BY SendType DEF DieInHandOver, callVars, trainVars, TrainTypes, SharedTypes

LEMMA PlatformType ==
  ASSUME TypeInv, NEW p \in Platforms, PlatformStep(p)
  PROVE  TypeInv'
<1> USE DEF TypeInv, TypeOK, platformVars, mainVars, queueVars, trainVars, callVars,
            history
<1>1. CASE Connect(p)
  <2> USE <1>1 DEF Connect
  <2>1. PlatformTypes'  BY DEF PlatformTypes, PlatformPC
  <2>2. SharedTypes'  BY DEF SharedTypes
  <2>3. MasterTypes' /\ BooleanTypes' /\ QueueTypes' /\ TrainTypes'
    BY DEF MasterTypes, BooleanTypes, QueueTypes, TrainTypes
  <2>4. Control'  BY DEF Control, InHand, PlatformTypes
  <2>5. QED  BY <2>1, <2>2, <2>3, <2>4
<1>2. CASE ClaimScan(p)
  <2> USE <1>2 DEF ClaimScan
  <2>1. PlatformTypes'  BY RailAssumption DEF PlatformTypes, PlatformPC, Index
  <2>2. SharedTypes' /\ MasterTypes' /\ BooleanTypes' /\ QueueTypes' /\ TrainTypes'
    BY DEF SharedTypes, MasterTypes, BooleanTypes, QueueTypes, TrainTypes
  <2>3. Control'  BY DEF Control, InHand, PlatformTypes
  <2>4. QED  BY <2>1, <2>2, <2>3
<1>3. CASE ClaimWrite(p)
  <2> USE <1>3 DEF ClaimWrite
  <2>1. PlatformTypes'  BY DEF PlatformTypes, PlatformPC
  <2>2. SharedTypes'  BY DEF SharedTypes, FreeFlag
  <2>3. MasterTypes' /\ BooleanTypes' /\ QueueTypes' /\ TrainTypes'
    BY DEF MasterTypes, BooleanTypes, QueueTypes, TrainTypes
  <2>4. Control'  BY DEF Control, InHand, PlatformTypes
  <2>5. QED  BY <2>1, <2>2, <2>3, <2>4
<1>4. CASE ReadPid(p)
  <2> USE <1>4 DEF ReadPid
  <2>1. PlatformTypes'  BY DEF PlatformTypes, PlatformPC, SharedTypes
  <2>2. SharedTypes' /\ MasterTypes' /\ BooleanTypes' /\ QueueTypes' /\ TrainTypes'
    BY DEF SharedTypes, MasterTypes, BooleanTypes, QueueTypes, TrainTypes
  <2>3. Control'  BY DEF Control, InHand, PlatformTypes
  <2>4. QED  BY <2>1, <2>2, <2>3
<1>5. CASE Take(p)
  <2> USE <1>5 DEF Take
  <2>1. PlatformTypes'  BY DEF PlatformTypes, PlatformPC, SharedTypes
  <2>2. SharedTypes'  BY DEF SharedTypes
  <2>3. MasterTypes' /\ BooleanTypes' /\ QueueTypes' /\ TrainTypes'
    BY DEF MasterTypes, BooleanTypes, QueueTypes, TrainTypes
  <2>4. Control'  BY DEF Control, InHand, PlatformTypes, SharedTypes
  <2>5. QED  BY <2>1, <2>2, <2>3, <2>4
<1>6. CASE Greet(p)
  <2> USE <1>6 DEF Greet
  <2>1. PlatformTypes'  BY DEF PlatformTypes, PlatformPC
  <2>2. TrainTypes'  BY SendType DEF TrainTypes, Control
  <2>3. SharedTypes' /\ MasterTypes' /\ BooleanTypes' /\ QueueTypes'
    BY DEF SharedTypes, MasterTypes, BooleanTypes, QueueTypes
  <2>4. Control'  BY DEF Control, InHand, PlatformTypes
  <2>5. QED  BY <2>1, <2>2, <2>3, <2>4
<1>7. CASE Free(p)
  <2> USE <1>7 DEF Free
  <2>1. PlatformTypes'  BY DEF PlatformTypes, PlatformPC
  <2>2. SharedTypes'  BY DEF SharedTypes, FreeFlag
  <2>3. MasterTypes' /\ BooleanTypes' /\ QueueTypes' /\ TrainTypes'
    BY DEF MasterTypes, BooleanTypes, QueueTypes, TrainTypes
  <2>4. Control'  BY DEF Control, InHand, PlatformTypes
  <2>5. QED  BY <2>1, <2>2, <2>3, <2>4
<1>8. CASE Signal(p)
  <2> USE <1>8 DEF Signal
  <2>1. PlatformTypes'  BY DEF PlatformTypes, PlatformPC
  <2>2. BooleanTypes'  BY DEF BooleanTypes, Wake
  <2>3. TrainTypes'  BY SendType DEF TrainTypes, Control
  <2>4. SharedTypes' /\ MasterTypes' /\ QueueTypes'
    BY DEF SharedTypes, MasterTypes, QueueTypes
  <2>5. Control'  BY DEF Control, InHand, PlatformTypes
  <2>6. QED  BY <2>1, <2>2, <2>3, <2>4, <2>5
<1>9. QED
  BY <1>1, <1>2, <1>3, <1>4, <1>5, <1>6, <1>7, <1>8 DEF PlatformStep

LEMMA MainType ==
  ASSUME TypeInv, MainStep
  PROVE  TypeInv'
<1> USE DEF TypeInv, TypeOK, platformVars, mainVars, queueVars, trainVars, callVars,
            history
<1>1. CASE Publish
  <2> USE <1>1 DEF Publish
  <2>1. SharedTypes'  BY DEF SharedTypes
  <2>2. MasterTypes'  BY DEF MasterTypes, MainPC
  <2>3. PlatformTypes' /\ BooleanTypes' /\ QueueTypes' /\ TrainTypes'
    BY DEF PlatformTypes, BooleanTypes, QueueTypes, TrainTypes
  <2>4. Control'  BY DEF Control, InHand
  <2>5. QED  BY <2>1, <2>2, <2>3, <2>4
<1>2. CASE Accept
  <2> USE <1>2 DEF Accept
  <2>1. SharedTypes'  BY DEF SharedTypes
  <2>2. MasterTypes'  BY RailAssumption DEF MasterTypes, SharedTypes, MainPC
  <2>3. BooleanTypes'  BY DEF BooleanTypes
  <2>4. PlatformTypes' /\ QueueTypes' /\ TrainTypes'
    BY DEF PlatformTypes, QueueTypes, TrainTypes
  <2>5. Control'  BY DEF Control, InHand, SharedTypes
  <2>6. QED  BY <2>1, <2>2, <2>3, <2>4, <2>5
<1>3. CASE Scan
  <2> USE <1>3 DEF Scan
  <2>1. MasterTypes'  BY RailAssumption DEF MasterTypes, MainPC, Index
  <2>2. BooleanTypes'  BY DEF BooleanTypes
  <2>3. PlatformTypes' /\ SharedTypes' /\ QueueTypes' /\ TrainTypes'
    BY DEF PlatformTypes, SharedTypes, QueueTypes, TrainTypes
  <2>4. Control'  BY DEF Control, InHand, MasterTypes
  <2>5. QED  BY <2>1, <2>2, <2>3, <2>4
<1>4. CASE Claim
  <2> USE <1>4 DEF Claim
  <2>1. SharedTypes'  BY DEF SharedTypes, ClaimFlag
  <2>2. MasterTypes'  BY DEF MasterTypes, MainPC
  <2>3. PlatformTypes' /\ BooleanTypes' /\ QueueTypes' /\ TrainTypes'
    BY DEF PlatformTypes, BooleanTypes, QueueTypes, TrainTypes
  <2>4. Control'  BY DEF Control, InHand, MasterTypes
  <2>5. QED  BY <2>1, <2>2, <2>3, <2>4
<1>5. CASE Dispatch
  <2> USE <1>5 DEF Dispatch
  <2>1. nsfd \in Trains /\ mi \in Index /\ train_no \in Nat
    BY DEF Control, InHand, MasterTypes
  <2>2. TrainTypes' /\ fdq' \in [Platforms -> Seq(Trains)]
    BY <2>1, HandOverType, DieType
  <2>3. SharedTypes'  BY <2>2 DEF SharedTypes
  <2>4. MasterTypes'  BY DEF MasterTypes, MainPC, NextTrainNo, DieInHandOver
  <2>5. PlatformTypes' /\ QueueTypes' /\ BooleanTypes'
    BY DEF PlatformTypes, QueueTypes, BooleanTypes
  <2>6. Control'
    BY DEF Control, InHand, MasterTypes, DieInHandOver
  <2>7. QED  BY <2>2, <2>3, <2>4, <2>5, <2>6
<1>6. CASE Slot
  <2> USE <1>6 DEF Slot
  <2>1. nsfd \in Trains /\ tcnt \in 0 .. QueueSlots - 1
    BY RailAssumption DEF Control, InHand, QueueTypes
  <2>2. queue' = [queue EXCEPT ![tcnt] = [fd |-> nsfd, no |-> train_no]]
    OBVIOUS
  <2>3. [fd |-> nsfd, no |-> train_no] \in [fd : Trains \cup {NoTrain}, no : Nat]
    BY DEF MasterTypes
  <2>4. QueueTypes'  BY <2>1, <2>2, <2>3 DEF QueueTypes
  <2>5. MasterTypes'  BY DEF MasterTypes, MainPC
  <2>6. PlatformTypes' /\ SharedTypes' /\ BooleanTypes' /\ TrainTypes'
    BY DEF PlatformTypes, SharedTypes, BooleanTypes, TrainTypes
  <2>7. queue'[tcnt].fd = nsfd /\ \A k \in 0 .. tcnt - 1 : queue'[k] = queue[k]
    BY <2>1, <2>2 DEF QueueTypes
  <2>8. Control'  BY <2>1, <2>7 DEF Control, InHand, QueueTypes
  <2>9. QED  BY <2>4, <2>5, <2>6, <2>8
<1>7. CASE Count
  <2> USE <1>7 DEF Count
  <2>1. tcnt < QueueSlots /\ queue[tcnt].fd \in Trains
    BY DEF Control, InHand
  <2>2. QueueTypes'  BY <2>1, RailAssumption DEF QueueTypes
  <2>3. MasterTypes'  BY DEF MasterTypes, MainPC, NextTrainNo
  <2>4. BooleanTypes'  BY DEF BooleanTypes
  <2>5. PlatformTypes' /\ SharedTypes' /\ TrainTypes'
    BY DEF PlatformTypes, SharedTypes, TrainTypes
  <2>6. \A k \in 0 .. tcnt' - 1 : queue'[k].fd \in Trains
    BY <2>1 DEF QueueTypes, Control
  <2>7. Control'  BY <2>6 DEF Control, InHand, QueueTypes, MasterTypes
  <2>8. QED  BY <2>2, <2>3, <2>4, <2>5, <2>7
<1>8. QED
  BY <1>1, <1>2, <1>3, <1>4, <1>5, <1>6, <1>7 DEF MainStep

LEMMA HandlerType ==
  ASSUME TypeInv, HandlerStep
  PROVE  TypeInv'
<1> USE DEF TypeInv, TypeOK, platformVars, mainVars, queueVars, trainVars, callVars,
            history
<1>1. CASE HandlerEnter
  <2> USE <1>1 DEF HandlerEnter
  <2>1. MasterTypes'  BY RailAssumption DEF MasterTypes, MainPC
  <2>2. BooleanTypes'  BY DEF BooleanTypes
  <2>3. PlatformTypes' /\ SharedTypes' /\ QueueTypes' /\ TrainTypes'
    BY DEF PlatformTypes, SharedTypes, QueueTypes, TrainTypes
  <2>4. Control'  BY DEF Control, InHand, MasterTypes
  <2>5. QED  BY <2>1, <2>2, <2>3, <2>4
<1>2. CASE HandlerScan
  <2> USE <1>2 DEF HandlerScan
  <2>1. MasterTypes'  BY RailAssumption DEF MasterTypes, Index
  <2>2. PlatformTypes' /\ SharedTypes' /\ BooleanTypes' /\ QueueTypes' /\ TrainTypes'
    BY DEF PlatformTypes, SharedTypes, BooleanTypes, QueueTypes, TrainTypes
  <2>3. Control'  BY DEF Control, InHand, MasterTypes
  <2>4. QED  BY <2>1, <2>2, <2>3
<1>3. CASE HandlerDispatch
  <2> DEFINE t == queue[scnt].fd
             n == queue[scnt].no
  <2> USE <1>3 DEF HandlerDispatch
  <2>1. scnt < tcnt /\ scnt \in 0 .. QueueSlots - 1
    BY RailAssumption DEF Control, QueueTypes
  <2>2. t \in Trains /\ n \in Nat /\ hi \in Index
    BY <2>1 DEF Control, QueueTypes
  <2>3. DieInHandOver(t) \/ HandOver(t, n, hi)
    OBVIOUS
  <2>4. TrainTypes' /\ fdq' \in [Platforms -> Seq(Trains)]
    BY <2>2, <2>3, HandOverType, DieType
  <2>5. SharedTypes'  BY <2>4 DEF SharedTypes, ClaimFlag
  <2>6. MasterTypes'  BY DEF MasterTypes, MainPC, DieInHandOver
  <2>7. QueueTypes'  BY <2>1, RailAssumption DEF QueueTypes, Dequeue
  <2>8. BooleanTypes'  BY DEF BooleanTypes
  <2>9. PlatformTypes'  BY DEF PlatformTypes
  <2>10. Control'
    BY <2>1 DEF Control, InHand, MasterTypes, QueueTypes, DieInHandOver, Dequeue
  <2>11. QED  BY <2>4, <2>5, <2>6, <2>7, <2>8, <2>9, <2>10
<1>4. QED
  BY <1>1, <1>2, <1>3 DEF HandlerStep

LEMMA TrainType ==
  ASSUME TypeInv, NEW t \in Trains, TrainStep(t) \/ Arrive(t) \/ Quit(t)
  PROVE  TypeInv'
<1> USE DEF TypeInv, TypeOK, platformVars, mainVars, queueVars, trainVars, callVars,
            history
<1>1. CASE GetNumber(t)
  <2> USE <1>1 DEF GetNumber, Receive
  <2>1. TrainTypes'  BY DEF TrainTypes, TrainPC
  <2>2. PlatformTypes' /\ SharedTypes' /\ MasterTypes' /\ BooleanTypes' /\ QueueTypes'
    BY DEF PlatformTypes, SharedTypes, MasterTypes, BooleanTypes, QueueTypes
  <2>3. Control'  BY DEF Control, InHand
  <2>4. QED  BY <2>1, <2>2, <2>3
<1>2. CASE Berth(t)
  <2> USE <1>2 DEF Berth, Receive
  <2>1. TrainTypes'  BY DEF TrainTypes, TrainPC
  <2>2. PlatformTypes' /\ SharedTypes' /\ MasterTypes' /\ BooleanTypes' /\ QueueTypes'
    BY DEF PlatformTypes, SharedTypes, MasterTypes, BooleanTypes, QueueTypes
  <2>3. Control'  BY DEF Control, InHand
  <2>4. QED  BY <2>1, <2>2, <2>3
<1>3. CASE Leave(t)
  <2> USE <1>3 DEF Leave, Receive
  <2>1. TrainTypes'  BY DEF TrainTypes, TrainPC, ConnState
  <2>2. PlatformTypes' /\ SharedTypes' /\ MasterTypes' /\ BooleanTypes' /\ QueueTypes'
    BY DEF PlatformTypes, SharedTypes, MasterTypes, BooleanTypes, QueueTypes
  <2>3. Control'  BY DEF Control, InHand
  <2>4. QED  BY <2>1, <2>2, <2>3
<1>4. CASE Arrive(t)
  <2> USE <1>4 DEF Arrive
  <2>1. SharedTypes'  BY DEF SharedTypes
  <2>2. TrainTypes'  BY DEF TrainTypes, TrainPC
  <2>3. PlatformTypes' /\ MasterTypes' /\ BooleanTypes' /\ QueueTypes'
    BY DEF PlatformTypes, MasterTypes, BooleanTypes, QueueTypes
  <2>4. Control'  BY DEF Control, InHand
  <2>5. QED  BY <2>1, <2>2, <2>3, <2>4
<1>5. CASE Quit(t)
  <2> USE <1>5 DEF Quit
  <2>1. TrainTypes'  BY DEF TrainTypes, TrainPC, ConnState
  <2>2. PlatformTypes' /\ SharedTypes' /\ MasterTypes' /\ BooleanTypes' /\ QueueTypes'
    BY DEF PlatformTypes, SharedTypes, MasterTypes, BooleanTypes, QueueTypes
  <2>3. Control'  BY DEF Control, InHand
  <2>4. QED  BY <2>1, <2>2, <2>3
<1>6. QED
  BY <1>1, <1>2, <1>3, <1>4, <1>5 DEF TrainStep

LEMMA TypeStep == TypeInv /\ [Next]_vars => TypeInv'
<1> SUFFICES ASSUME TypeInv, [Next]_vars PROVE TypeInv'
  OBVIOUS
<1>1. CASE UNCHANGED vars
  BY <1>1 DEF vars, TypeInv, TypeOK, PlatformTypes, SharedTypes, MasterTypes, QueueTypes,
       TrainTypes, BooleanTypes, Control, InHand, platformVars, mainVars, queueVars, trainVars,
       callVars, history
<1>2. QED
  BY <1>1, PlatformType, MainType, HandlerType, TrainType DEF Next

\* Every variable keeps its type, for every number of trains and platforms.
THEOREM TypeCorrect == Spec => []TypeOK
<1>1. TypeInv => TypeOK
  BY DEF TypeInv
<1>2. QED
  BY <1>1, TypeInit, TypeStep, PTL DEF Spec

-----------------------------------------------------------------------------
(* Where the trains are.  A train that was not called is in the backlog of *)
(* the listening socket, in main's hands or in the queue, and in one of    *)
(* them only; platforms hold called trains only.                           *)

Waiting == scnt .. tcnt - 1

BacklogInv ==
  \A i \in DOMAIN backlog :
    /\ tpc[backlog[i]] # "away"
    /\ ~Called(backlog[i])
    /\ InHand => backlog[i] # nsfd
    /\ \A j \in DOMAIN backlog : j # i => backlog[j] # backlog[i]
    /\ \A k \in Waiting : queue[k].fd # backlog[i]

HandInv ==
  /\ InHand => /\ tpc[nsfd] # "away"
               /\ ~Called(nsfd)
               /\ \A k \in Waiting : queue[k].fd # nsfd
  /\ mpc = "count" => queue[tcnt].no = train_no

QueueInv ==
  \A k \in Waiting :
    /\ tpc[queue[k].fd] # "away"
    /\ ~Called(queue[k].fd)
    /\ queue[k].no < train_no
    /\ \A j \in Waiting : j # k => /\ queue[j].fd # queue[k].fd
                                   /\ queue[j].no # queue[k].no
    /\ \A t \in Trains : Called(t) => number[t] # queue[k].no

CallInv ==
  \A t \in Trains :
    /\ Called(t) => tpc[t] # "away" /\ number[t] < train_no
    /\ ~Called(t) => /\ tpc[t] \notin {"berthed", "gone"}
                     /\ tpc[t] = "ready" => unread[t] = 0 /\ mpc = "dead"
                     /\ mpc # "dead" => unread[t] = 0

PassedInv ==
  \A p \in Platforms :
    /\ \A i \in DOMAIN fdq[p] : Called(fdq[p][i])
    /\ ppc[p] \in {"recv", "stay", "left"} => Called(cur[p])

YardInv == BacklogInv /\ HandInv /\ QueueInv /\ CallInv /\ PassedInv /\ scnt <= tcnt

LEMMA YardInitInv == Init => YardInv
BY RailAssumption DEF Init, Forked, NobodyCame, YardInv, BacklogInv, HandInv, QueueInv, CallInv,
   PassedInv, Waiting, InHand, Called, FirstNumber

\* What a step must leave alone to leave YardInv alone.
Quiet ==
  /\ UNCHANGED <<backlog, nsfd, train_no, queue, scnt, tcnt, tpc, unread, fdq, berth,
                 number>>
  /\ InHand' => InHand
  /\ mpc' = "count" => mpc = "count"
  /\ mpc' = "dead" <=> mpc = "dead"
  /\ \A p \in Platforms : ppc'[p] \in {"recv", "stay", "left"} =>
       ppc[p] \in {"recv", "stay", "left"} /\ cur'[p] = cur[p]

LEMMA QuietStep == YardInv /\ Quiet => YardInv'
<1> SUFFICES ASSUME YardInv, Quiet PROVE YardInv'
  OBVIOUS
<1> USE DEF YardInv, Quiet, Called, Waiting
<1>1. BacklogInv'  BY DEF BacklogInv
<1>2. HandInv'     BY DEF HandInv
<1>3. QueueInv'    BY DEF QueueInv
<1>4. CallInv'     BY DEF CallInv
<1>5. PassedInv'   BY DEF PassedInv
<1>6. QED  BY <1>1, <1>2, <1>3, <1>4, <1>5

\* A send() to a called train disturbs none of it.
LEMMA SendStep ==
  ASSUME TypeInv, YardInv, NEW t \in Trains, Called(t), Send(t),
         UNCHANGED <<backlog, nsfd, train_no, queue, scnt, tcnt, fdq, berth, number, mpc>>,
         \A p \in Platforms : ppc'[p] \in {"recv", "stay", "left"} =>
           ppc[p] \in {"recv", "stay", "left"} /\ cur'[p] = cur[p]
  PROVE  YardInv'
<1> USE DEF YardInv, Called, Waiting
<1>1. tpc' = tpc /\ \A u \in Trains : ~Called(u) => unread'[u] = unread[u]
  BY DEF Send, TypeInv, TypeOK, TrainTypes
<1>2. BacklogInv'  BY <1>1 DEF BacklogInv, InHand
<1>3. HandInv'     BY <1>1 DEF HandInv, InHand
<1>4. QueueInv'    BY <1>1 DEF QueueInv
<1>5. CallInv'     BY <1>1 DEF CallInv
<1>6. PassedInv'   BY DEF PassedInv
<1>7. QED  BY <1>2, <1>3, <1>4, <1>5, <1>6

LEMMA PlatformYard ==
  ASSUME TypeInv, YardInv, NEW p \in Platforms, PlatformStep(p)
  PROVE  YardInv'
<1> USE DEF platformVars, mainVars, queueVars, trainVars, callVars, history
<1>0. ppc \in [Platforms -> PlatformPC] /\ cur \in [Platforms -> Trains \cup {NoTrain}]
  BY DEF TypeInv, TypeOK, PlatformTypes
<1>1. CASE Connect(p)
  BY <1>0, <1>1, QuietStep DEF Connect, Quiet, InHand
<1>2. CASE ClaimScan(p)
  BY <1>0, <1>2, QuietStep DEF ClaimScan, Quiet, InHand
<1>3. CASE ClaimWrite(p)
  BY <1>0, <1>3, QuietStep DEF ClaimWrite, Quiet, InHand
<1>4. CASE ReadPid(p)
  BY <1>0, <1>4, QuietStep DEF ReadPid, Quiet, InHand
<1>5. CASE Take(p)
  <2> USE <1>5 DEF Take, YardInv, Called, Waiting
  <2>1. Called(cur'[p]) /\ \A q \in Platforms : \A i \in DOMAIN fdq'[q] : Called(fdq'[q][i])
    BY <1>0 DEF PassedInv, TypeInv, TypeOK, SharedTypes
  <2>2. PassedInv'  BY <1>0, <2>1 DEF PassedInv
  <2>3. BacklogInv' /\ QueueInv' /\ CallInv'
    BY DEF BacklogInv, QueueInv, CallInv, InHand
  <2>4. HandInv'  BY DEF HandInv, InHand
  <2>5. QED  BY <2>2, <2>3, <2>4
<1>6. CASE Greet(p)
  <2>1. cur[p] \in Trains /\ Called(cur[p])
    BY <1>6 DEF Greet, TypeInv, Control, YardInv, PassedInv
  <2>2. CASE Send(cur[p]) /\ ppc' = [ppc EXCEPT ![p] = "stay"]
    BY <1>0, <1>6, <2>1, <2>2, SendStep DEF Greet
  <2>3. CASE ppc' = [ppc EXCEPT ![p] = "dead"] /\ UNCHANGED trainVars
    BY <1>0, <1>6, <2>3, QuietStep DEF Greet, Quiet, InHand
  <2>4. QED  BY <1>6, <2>2, <2>3 DEF Greet
<1>7. CASE Free(p)
  BY <1>0, <1>7, QuietStep DEF Free, Quiet, InHand
<1>8. CASE Signal(p)
  <2>1. cur[p] \in Trains /\ Called(cur[p])
    BY <1>8 DEF Signal, TypeInv, Control, YardInv, PassedInv
  <2>2. \A q \in Platforms : ppc'[q] \in {"recv", "stay", "left"} =>
          ppc[q] \in {"recv", "stay", "left"} /\ cur'[q] = cur[q]
    BY <1>0, <1>8 DEF Signal
  <2>3. CASE Send(cur[p])
    BY <1>8, <2>1, <2>2, <2>3, SendStep DEF Signal
  <2>4. CASE UNCHANGED trainVars
    BY <1>8, <2>2, <2>4, QuietStep DEF Signal, Quiet, InHand
  <2>5. QED  BY <1>8, <2>3, <2>4 DEF Signal
<1>9. QED
  BY <1>1, <1>2, <1>3, <1>4, <1>5, <1>6, <1>7, <1>8 DEF PlatformStep

\* What a successful hand-over does to the calls.
LEMMA HandOverCalls ==
  ASSUME TypeInv, YardInv, NEW t \in Trains, NEW n \in Nat, NEW i \in Index,
         HandOver(t, n, i)
  PROVE  /\ tpc' = tpc
         /\ berth'[t] # NoBerth /\ number'[t] = n
         /\ \A u \in Trains : u # t => /\ berth'[u] = berth[u] /\ number'[u] = number[u]
                                       /\ unread'[u] = unread[u]
         /\ \A p \in Platforms : \A j \in DOMAIN fdq'[p] : berth'[fdq'[p][j]] # NoBerth
<1> USE DEF HandOver
<1>1. TrainTypes /\ SharedTypes
  BY DEF TypeInv, TypeOK
<1>2. tpc' = tpc /\ \A u \in Trains : u # t => unread'[u] = unread[u]
  BY <1>1 DEF Send, TrainTypes
<1>3. /\ berth'[t] = i /\ number'[t] = n
      /\ \A u \in Trains : u # t => berth'[u] = berth[u] /\ number'[u] = number[u]
  BY <1>1 DEF TrainTypes
<1>4. berth'[t] # NoBerth
  BY <1>3, RailAssumption DEF Index
<1>5. ASSUME NEW p \in Platforms, NEW j \in DOMAIN fdq'[p]
      PROVE  berth'[fdq'[p][j]] # NoBerth
  <2>1. fdq[p] \in Seq(Trains) /\ \A m \in DOMAIN fdq[p] : Called(fdq[p][m])
    BY <1>1 DEF SharedTypes, YardInv, PassedInv
  <2>2. fdq'[p] = fdq[p] \/ fdq'[p] = Append(fdq[p], t)
    BY <1>1 DEF SharedTypes
  <2>3. fdq'[p][j] = t \/ (j \in DOMAIN fdq[p] /\ fdq'[p][j] = fdq[p][j])
    BY <2>1, <2>2
  <2>4. \A u \in Trains : Called(u) => berth'[u] # NoBerth
    BY <1>3, <1>4 DEF Called
  <2>5. QED  BY <1>4, <2>1, <2>3, <2>4 DEF Called
<1>6. QED  BY <1>2, <1>3, <1>4, <1>5

\* Death in a hand-over leaves the train uncalled, though it has its number.
LEMMA DieYard ==
  ASSUME TypeInv, YardInv, NEW t \in Trains, DieInHandOver(t), mpc # "dead",
         UNCHANGED <<backlog, nsfd, train_no, queueVars, ppc, cur>>
  PROVE  YardInv'
<1> USE DEF DieInHandOver, callVars, queueVars, Called, Waiting
<1>1. tpc' = tpc /\ \A u \in Trains : u # t => unread'[u] = unread[u]
  BY DEF Send, trainVars, TypeInv, TypeOK, TrainTypes
<1>2. BacklogInv'  BY <1>1 DEF YardInv, BacklogInv, InHand
<1>3. HandInv'     BY DEF HandInv, InHand
<1>4. QueueInv'    BY <1>1 DEF YardInv, QueueInv
<1>5. CallInv'     BY <1>1 DEF YardInv, CallInv
<1>6. PassedInv'   BY DEF YardInv, PassedInv
<1>7. QED  BY <1>2, <1>3, <1>4, <1>5, <1>6 DEF YardInv

LEMMA MainYard ==
  ASSUME TypeInv, YardInv, MainStep
  PROVE  YardInv'
<1> USE DEF platformVars, mainVars, queueVars, trainVars, callVars, history
<1>1. CASE Publish
  BY <1>1, QuietStep DEF Publish, Quiet, InHand
<1>2. CASE Accept
  <2> USE <1>2 DEF Accept, Called, Waiting
  <2>1. /\ Len(backlog) \in Nat /\ Len(backlog) > 0
        /\ nsfd' = backlog[1] /\ 1 \in DOMAIN backlog
        /\ \A j \in DOMAIN backlog' : j + 1 \in DOMAIN backlog /\ j + 1 # 1
                                      /\ backlog'[j] = backlog[j + 1]
    BY DEF TypeInv, TypeOK, SharedTypes
  <2>2. \A j, k \in DOMAIN backlog' : j # k => j + 1 # k + 1
    BY DEF TypeInv, TypeOK, SharedTypes
  <2>3. BacklogInv'  BY <2>1, <2>2 DEF YardInv, BacklogInv
  <2>4. HandInv'  BY <2>1 DEF YardInv, BacklogInv, HandInv, InHand
  <2>5. QueueInv' /\ CallInv' /\ PassedInv'
    BY DEF YardInv, QueueInv, CallInv, PassedInv
  <2>6. QED  BY <2>3, <2>4, <2>5 DEF YardInv
<1>3. CASE Scan
  BY <1>3, QuietStep DEF Scan, Quiet, InHand
<1>4. CASE Claim
  BY <1>4, QuietStep DEF Claim, Quiet, InHand
<1>5. CASE Dispatch
  <2> USE <1>5 DEF Dispatch
  <2>1. nsfd \in Trains /\ mi \in Index /\ train_no \in Nat
    BY DEF TypeInv, Control, InHand, TypeOK, MasterTypes
  <2>2. CASE DieInHandOver(nsfd)
    BY <2>1, <2>2, DieYard DEF DieInHandOver
  <2>3. CASE HandOver(nsfd, train_no, mi) /\ NextTrainNo /\ mpc' = "select"
    <3> USE <2>3 DEF YardInv, Waiting, Called
    <3>1. /\ tpc' = tpc
          /\ berth'[nsfd] # NoBerth /\ number'[nsfd] = train_no
          /\ \A u \in Trains : u # nsfd => /\ berth'[u] = berth[u]
                                           /\ number'[u] = number[u]
                                           /\ unread'[u] = unread[u]
          /\ \A p \in Platforms : \A j \in DOMAIN fdq'[p] : berth'[fdq'[p][j]] # NoBerth
      BY <2>1, HandOverCalls DEF Called
    <3>2. train_no' = train_no + 1
      BY DEF NextTrainNo
    <3>3. \A i \in DOMAIN backlog : backlog[i] \in Trains /\ backlog[i] # nsfd
      BY DEF TypeInv, TypeOK, SharedTypes, BacklogInv, InHand
    <3>4. \A k \in Waiting : /\ queue[k].fd \in Trains /\ queue[k].fd # nsfd
                             /\ queue[k].no \in Nat /\ queue[k].no < train_no
      BY RailAssumption DEF TypeInv, Control, TypeOK, QueueTypes, HandInv, QueueInv, InHand
    <3>5. BacklogInv'  BY <3>1, <3>3 DEF BacklogInv, InHand
    <3>6. HandInv'  BY DEF HandInv, InHand
    <3>7. QueueInv'  BY <2>1, <3>1, <3>2, <3>4 DEF QueueInv
    <3>8. CallInv'
      BY <2>1, <3>1, <3>2 DEF CallInv, HandInv, InHand, TypeInv, TypeOK, TrainTypes
    <3>9. PassedInv'
      BY <2>1, <3>1 DEF PassedInv, TypeInv, Control, Called
    <3>10. QED  BY <3>5, <3>6, <3>7, <3>8, <3>9
  <2>4. QED  BY <2>2, <2>3
<1>6. CASE Slot
  <2> USE <1>6 DEF Slot, Called, YardInv, Waiting
  <2>1. tcnt \in 0 .. QueueSlots - 1
    BY RailAssumption DEF TypeInv, TypeOK, QueueTypes
  <2>2. /\ \A k \in Waiting : queue'[k] = queue[k]
        /\ queue'[tcnt] = [fd |-> nsfd, no |-> train_no]
    BY <2>1 DEF TypeInv, TypeOK, QueueTypes
  <2>3. BacklogInv'  BY <2>2 DEF BacklogInv, InHand
  <2>4. HandInv'  BY <2>2 DEF HandInv, InHand
  <2>5. QueueInv'  BY <2>2 DEF QueueInv
  <2>6. CallInv' /\ PassedInv'  BY DEF CallInv, PassedInv
  <2>7. QED  BY <2>3, <2>4, <2>5, <2>6
<1>7. CASE Count
  <2> USE <1>7 DEF Count, Called, YardInv, Waiting, NextTrainNo
  <2>1. /\ nsfd \in Trains /\ queue[tcnt].fd = nsfd /\ queue[tcnt].no = train_no
        /\ tcnt' = tcnt + 1 /\ train_no' = train_no + 1
        /\ scnt \in Nat /\ tcnt \in Nat /\ train_no \in Nat
    BY RailAssumption DEF TypeInv, Control, InHand, HandInv, TypeOK, QueueTypes, MasterTypes
  <2>2. \A k \in scnt .. tcnt' - 1 : k \in scnt .. tcnt - 1 \/ k = tcnt
    BY <2>1
  <2>3. \A t \in Trains : number[t] \in Nat
    BY DEF TypeInv, TypeOK, TrainTypes
  <2>4. \A k \in scnt .. tcnt - 1 : queue[k].no \in Nat
    BY RailAssumption DEF TypeInv, TypeOK, QueueTypes
  <2>5. BacklogInv'  BY <2>1, <2>2 DEF BacklogInv, InHand
  <2>6. HandInv'  BY DEF HandInv, InHand
  <2>7. QueueInv'
    BY <2>1, <2>2, <2>3, <2>4 DEF QueueInv, HandInv, CallInv, InHand
  <2>8. CallInv'  BY <2>1, <2>3 DEF CallInv
  <2>9. PassedInv'  BY DEF PassedInv
  <2>10. scnt' <= tcnt'  BY <2>1
  <2>11. QED  BY <2>5, <2>6, <2>7, <2>8, <2>9, <2>10
<1>8. QED
  BY <1>1, <1>2, <1>3, <1>4, <1>5, <1>6, <1>7 DEF MainStep

LEMMA HandlerYard ==
  ASSUME TypeInv, YardInv, HandlerStep
  PROVE  YardInv'
<1> USE DEF platformVars, mainVars, queueVars, trainVars, callVars, history
<1>1. CASE HandlerEnter
  BY <1>1, QuietStep DEF HandlerEnter, Quiet, InHand
<1>2. CASE HandlerScan
  BY <1>2, QuietStep DEF HandlerScan, Quiet, InHand
<1>3. CASE HandlerDispatch
  <2> USE <1>3 DEF HandlerDispatch
  <2> PICK t, n : t = queue[scnt].fd /\ n = queue[scnt].no
    OBVIOUS
  <2>1. scnt < tcnt /\ scnt \in Nat /\ tcnt \in Nat /\ mpc # "dead" /\ scnt \in Waiting
    BY RailAssumption DEF TypeInv, Control, TypeOK, QueueTypes, Waiting
  <2>2. t \in Trains /\ n \in Nat /\ hi \in Index
    BY <2>1, RailAssumption DEF TypeInv, Control, TypeOK, QueueTypes
  <2>3. CASE DieInHandOver(t)
    BY <2>1, <2>2, <2>3, DieYard DEF HandOver, DieInHandOver
  <2>4. CASE HandOver(t, n, hi) /\ Dequeue /\ mpc' = mpc
    <3> USE <2>4 DEF YardInv, Called
    <3>1. /\ tpc' = tpc
          /\ berth'[t] # NoBerth /\ number'[t] = n
          /\ \A u \in Trains : u # t => /\ berth'[u] = berth[u]
                                        /\ number'[u] = number[u]
                                        /\ unread'[u] = unread[u]
          /\ \A p \in Platforms : \A j \in DOMAIN fdq'[p] : berth'[fdq'[p][j]] # NoBerth
      BY <2>2, HandOverCalls DEF Called
    <3>2. scnt' = scnt + 1 /\ Waiting' \subseteq Waiting /\ scnt \notin Waiting'
      BY <2>1 DEF Dequeue, Waiting
    <3>3. \A k \in Waiting' : /\ queue[k].fd \in Trains /\ queue[k].fd # t
                              /\ queue[k].no # n
      BY <2>1, <3>2 DEF QueueInv, TypeInv, Control, Waiting
    <3>4. \A i \in DOMAIN backlog : backlog[i] \in Trains /\ backlog[i] # t
      BY <2>1 DEF BacklogInv, TypeInv, TypeOK, SharedTypes
    <3>5. InHand => nsfd \in Trains /\ nsfd # t
      BY <2>1 DEF HandInv, TypeInv, Control
    <3>6. n < train_no /\ tpc[t] # "away"
      BY <2>1 DEF QueueInv
    <3>7. BacklogInv'  BY <3>1, <3>2, <3>4 DEF BacklogInv, InHand
    <3>8. HandInv'  BY <3>1, <3>2, <3>5 DEF HandInv, InHand
    <3>9. QueueInv'  BY <3>1, <3>2, <3>3 DEF QueueInv
    <3>10. CallInv'
      BY <2>2, <3>1, <3>6 DEF CallInv, TypeInv, TypeOK, TrainTypes
    <3>11. PassedInv'
      BY <2>2, <3>1 DEF PassedInv, TypeInv, Control, Called
    <3>12. scnt' <= tcnt'  BY <2>1, <3>2
    <3>13. QED  BY <3>7, <3>8, <3>9, <3>10, <3>11, <3>12
  <2>5. QED  BY <2>3, <2>4
<1>4. QED
  BY <1>1, <1>2, <1>3 DEF HandlerStep

\* A train that moves on, and is not called or on its way, disturbs nobody.
LEMMA TrainYardStep ==
  ASSUME TypeInv, YardInv, NEW t \in Trains, TrainStep(t) \/ Arrive(t) \/ Quit(t)
  PROVE  YardInv'
<1> USE DEF platformVars, mainVars, queueVars, trainVars, callVars, history, Called, Waiting
<1>0. tpc \in [Trains -> TrainPC] /\ unread \in [Trains -> Nat]
  BY DEF TypeInv, TypeOK, TrainTypes
<1>1. ASSUME NEW from, NEW to, Receive(t, from, to), from \in {"connected", "ready", "berthed"},
             to \in {"ready", "berthed", "gone"}, from = "connected" => to = "ready",
             UNCHANGED <<platformVars, mainVars, queueVars, backlog, callVars>>
      PROVE  YardInv'
  <2> USE <1>1 DEF Receive
  <2>1. /\ tpc'[t] = to /\ unread'[t] = 0 /\ unread[t] > 0 /\ tpc[t] = from
        /\ \A u \in Trains : u # t => tpc'[u] = tpc[u] /\ unread'[u] = unread[u]
    BY <1>0
  <2>2. \A u \in Trains : tpc[u] # "away" => tpc'[u] # "away"
    BY <2>1
  <2>3. BacklogInv'
    BY <2>2 DEF YardInv, BacklogInv, InHand, TypeInv, TypeOK, SharedTypes
  <2>4. HandInv'  BY <2>2 DEF YardInv, HandInv, InHand, TypeInv, Control
  <2>5. QueueInv'  BY <2>2 DEF YardInv, QueueInv, TypeInv, Control, TypeOK, QueueTypes
  <2>6. CallInv'  BY <1>0, <2>1 DEF YardInv, CallInv
  <2>7. PassedInv'  BY DEF YardInv, PassedInv
  <2>8. QED  BY <2>3, <2>4, <2>5, <2>6, <2>7 DEF YardInv
<1>2. CASE GetNumber(t)
  BY <1>1, <1>2 DEF GetNumber
<1>3. CASE Berth(t)
  BY <1>1, <1>3 DEF Berth
<1>4. CASE Leave(t)
  BY <1>1, <1>4 DEF Leave
<1>5. CASE Arrive(t)
  <2> USE <1>5 DEF Arrive
  <2>1. /\ tpc'[t] = "connected" /\ tpc[t] = "away"
        /\ \A u \in Trains : u # t => tpc'[u] = tpc[u]
    BY <1>0
  <2>2. ~Called(t)
    BY <2>1 DEF YardInv, CallInv
  <2>3. \A i \in DOMAIN backlog : backlog[i] \in Trains /\ backlog[i] # t
    BY <2>1 DEF YardInv, BacklogInv, TypeInv, TypeOK, SharedTypes
  <2>4. InHand => nsfd \in Trains /\ nsfd # t
    BY <2>1 DEF YardInv, HandInv, TypeInv, Control
  <2>5. \A k \in Waiting : queue[k].fd \in Trains /\ queue[k].fd # t
    BY <2>1, RailAssumption DEF YardInv, QueueInv, TypeInv, Control, TypeOK, QueueTypes
  <2>6. /\ Len(backlog) \in Nat /\ DOMAIN backlog = 1 .. Len(backlog)
        /\ DOMAIN backlog' = 1 .. Len(backlog) + 1
        /\ backlog'[Len(backlog) + 1] = t
        /\ \A i \in DOMAIN backlog : backlog'[i] = backlog[i]
    BY DEF TypeInv, TypeOK, SharedTypes
  <2>7. BacklogInv'
    <3> SUFFICES ASSUME NEW i \in DOMAIN backlog'
                 PROVE  /\ tpc'[backlog'[i]] # "away"
                        /\ berth[backlog'[i]] = NoBerth
                        /\ InHand => backlog'[i] # nsfd
                        /\ \A j \in DOMAIN backlog' : j # i => backlog'[j] # backlog'[i]
                        /\ \A k \in Waiting : queue[k].fd # backlog'[i]
      BY DEF BacklogInv, InHand
    <3>1. CASE i \in DOMAIN backlog
      BY <2>1, <2>3, <2>6, <3>1 DEF YardInv, BacklogInv
    <3>2. CASE i = Len(backlog) + 1
      BY <2>1, <2>2, <2>3, <2>4, <2>5, <2>6, <3>2
    <3>3. QED  BY <2>6, <3>1, <3>2
  <2>8. HandInv'  BY <2>1, <2>4 DEF YardInv, HandInv, InHand
  <2>9. QueueInv'  BY <2>1, <2>5 DEF YardInv, QueueInv
  <2>10. CallInv'  BY <2>1, <2>2 DEF YardInv, CallInv
  <2>11. PassedInv'  BY DEF YardInv, PassedInv
  <2>12. QED  BY <2>7, <2>8, <2>9, <2>10, <2>11 DEF YardInv
<1>6. CASE Quit(t)
  <2> USE <1>6 DEF Quit
  <2>1. /\ tpc'[t] = "quit" /\ unread'[t] = 0 /\ tpc[t] # "away"
        /\ \A u \in Trains : u # t => tpc'[u] = tpc[u] /\ unread'[u] = unread[u]
    BY <1>0
  <2>2. \A u \in Trains : tpc[u] # "away" => tpc'[u] # "away"
    BY <2>1
  <2>3. BacklogInv'
    BY <2>2 DEF YardInv, BacklogInv, InHand, TypeInv, TypeOK, SharedTypes
  <2>4. HandInv'  BY <2>2 DEF YardInv, HandInv, InHand, TypeInv, Control
  <2>5. QueueInv'  BY <2>2 DEF YardInv, QueueInv, TypeInv, Control, TypeOK, QueueTypes
  <2>6. CallInv'  BY <2>1 DEF YardInv, CallInv
  <2>7. PassedInv'  BY DEF YardInv, PassedInv
  <2>8. QED  BY <2>3, <2>4, <2>5, <2>6, <2>7 DEF YardInv
<1>7. QED
  BY <1>2, <1>3, <1>4, <1>5, <1>6 DEF TrainStep

LEMMA YardStep == TypeInv /\ YardInv /\ [Next]_vars => YardInv'
<1> SUFFICES ASSUME TypeInv, YardInv, [Next]_vars PROVE YardInv'
  OBVIOUS
<1>1. CASE UNCHANGED vars
  BY <1>1, QuietStep DEF vars, Quiet, InHand, platformVars, mainVars, queueVars, trainVars,
       callVars, history
<1>2. QED
  BY <1>1, PlatformYard, MainYard, HandlerYard, TrainYardStep DEF Next

LEMMA Invariance == Spec => [](TypeInv /\ YardInv)
BY TypeInit, YardInitInv, TypeStep, YardStep, PTL DEF Spec

-----------------------------------------------------------------------------
(* The whole life of the queue, its calls included.                        *)

LedgerInv ==
  /\ NobodyLost /\ CalledInTurn
  /\ \A k \in 0 .. tcnt - 1 : queue[k].no < train_no
  /\ mpc = "boot" => nsfd = NoTrain

LEMMA LedgerInitInv == Init => LedgerInv
BY DEF Init, Forked, NobodyCame, LedgerInv, NobodyLost, CalledInTurn

\* Steps that call nobody and move nobody towards the queue.
LEMMA LedgerKept ==
  ASSUME TypeInv, LedgerInv, RailAssumption,
         UNCHANGED <<queue, scnt, tcnt, backlog, nsfd, train_no, berth, number>>,
         \A t \in Trains : tpc'[t] # "away" => tpc[t] # "away",
         mpc' \in {"boot", "select"} => mpc \in {"boot", "select"},
         mpc' = "boot" => mpc = "boot"
  PROVE  LedgerInv'
<1> USE DEF LedgerInv
<1>1. NobodyLost'
  BY DEF NobodyLost, Called, Queued, Accepted
<1>2. CalledInTurn'
  BY DEF CalledInTurn, Called
<1>3. QED  BY <1>1, <1>2

LEMMA PlatformLedger ==
  ASSUME TypeInv, LedgerInv, NEW p \in Platforms, PlatformStep(p)
  PROVE  LedgerInv'
<1> USE RailAssumption DEF platformVars, mainVars, queueVars, trainVars, callVars, history
<1>1. /\ UNCHANGED <<queue, scnt, tcnt, backlog, nsfd, train_no, berth, number, mpc>>
      /\ tpc' = tpc
  BY DEF PlatformStep, Connect, ClaimScan, ClaimWrite, ReadPid, Take, Greet, Free, Signal, Send
<1>2. QED  BY <1>1, LedgerKept

\* A train that arrives is in the backlog; the others only move on.
LEMMA TrainLedger ==
  ASSUME TypeInv, LedgerInv, NEW t \in Trains, TrainStep(t) \/ Arrive(t) \/ Quit(t)
  PROVE  LedgerInv'
<1> USE RailAssumption DEF platformVars, mainVars, queueVars, trainVars, callVars, history
<1>0. tpc \in [Trains -> TrainPC]
  BY DEF TypeInv, TypeOK, TrainTypes
<1>1. CASE Arrive(t)
  <2> USE <1>1 DEF Arrive, LedgerInv
  <2>1. \A u \in Trains : u # t => tpc'[u] = tpc[u]
    BY <1>0
  <2>2. /\ backlog \in Seq(Trains) /\ backlog' = Append(backlog, t)
        /\ Len(backlog) + 1 \in DOMAIN backlog' /\ backlog'[Len(backlog) + 1] = t
        /\ \A j \in DOMAIN backlog : j \in DOMAIN backlog' /\ backlog'[j] = backlog[j]
    BY DEF TypeInv, TypeOK, SharedTypes
  <2>3. NobodyLost'
    BY <2>1, <2>2 DEF NobodyLost, Called, Queued, Accepted
  <2>4. CalledInTurn'
    BY DEF CalledInTurn, Called
  <2>5. QED  BY <2>3, <2>4
<1>2. CASE TrainStep(t) \/ Quit(t)
  <2>1. UNCHANGED <<queue, scnt, tcnt, backlog, nsfd, train_no, berth, number, mpc>>
    BY <1>2 DEF TrainStep, GetNumber, Berth, Leave, Quit
  <2>2. tpc[t] # "away" /\ \A u \in Trains : u # t => tpc'[u] = tpc[u]
    BY <1>0, <1>2 DEF TrainStep, GetNumber, Berth, Leave, Quit, Receive
  <2>3. QED  BY <2>1, <2>2, LedgerKept
<1>3. QED  BY <1>1, <1>2

\* What a hand-over by main or by the handler does to the ledger of the calls.
LEMMA HandOverLedger ==
  ASSUME TypeInv, NEW t \in Trains, NEW n \in Nat, NEW i \in Index, HandOver(t, n, i)
  PROVE  /\ tpc' = tpc /\ Called(t)' /\ number'[t] = n
         /\ \A u \in Trains : u # t => berth'[u] = berth[u] /\ number'[u] = number[u]
         /\ \A u \in Trains : Called(u) => Called(u)'
<1>1. /\ berth' = [berth EXCEPT ![t] = i] /\ number' = [number EXCEPT ![t] = n] /\ tpc' = tpc
      /\ berth \in [Trains -> Index \cup {NoBerth}] /\ number \in [Trains -> Nat]
  BY DEF HandOver, Send, TypeInv, TypeOK, TrainTypes
<1>2. i # NoBerth
  BY RailAssumption DEF Index
<1>3. QED  BY <1>1, <1>2 DEF Called

LEMMA MainLedger ==
  ASSUME TypeInv, YardInv, LedgerInv, MainStep
  PROVE  LedgerInv'
<1> USE RailAssumption DEF platformVars, mainVars, queueVars, trainVars, callVars, history
<1>0. /\ scnt \in Nat /\ tcnt \in Nat /\ train_no \in Nat /\ scnt <= tcnt
      /\ \A k \in 0 .. tcnt - 1 : queue[k].fd \in Trains
      /\ tcnt <= QueueSlots
      /\ queue \in [0 .. QueueSlots - 1 -> [fd : Trains \cup {NoTrain}, no : Nat]]
  BY DEF TypeInv, Control, TypeOK, QueueTypes, MasterTypes, YardInv
<1>1. CASE Publish \/ Scan \/ Claim
  <2>1. /\ UNCHANGED <<queue, scnt, tcnt, backlog, nsfd, train_no, berth, number, tpc>>
        /\ mpc' \in {"boot", "select"} => mpc \in {"boot", "select"}
        /\ mpc' # "boot"
    BY <1>1 DEF Publish, Scan, Claim
  <2>2. QED  BY <2>1, LedgerKept
<1>2. CASE Accept
  <2> USE <1>2 DEF Accept, LedgerInv
  <2>1. /\ backlog \in Seq(Trains) /\ backlog # <<>> /\ nsfd' = backlog[1]
        /\ \A j \in DOMAIN backlog : j = 1 \/ (j - 1 \in DOMAIN backlog' /\ backlog'[j - 1] = backlog[j])
    BY DEF TypeInv, TypeOK, SharedTypes
  <2>2. UNCHANGED <<tpc, berth, queue, scnt, tcnt>> /\ mpc = "select" /\ mpc' = "scan"
    OBVIOUS
  <2>3. NobodyLost'
    <3> SUFFICES ASSUME NEW u \in Trains, tpc[u] # "away"
                 PROVE  Called(u)' \/ Queued(u)' \/ Accepted(u)' \/ \E j \in DOMAIN backlog' : backlog'[j] = u
      BY <2>2 DEF NobodyLost
    <3>1. CASE Called(u) \/ Queued(u)
      BY <2>2, <3>1 DEF Called, Queued
    <3>2. CASE \E j \in DOMAIN backlog : backlog[j] = u
      BY <2>1, <2>2, <3>2 DEF Accepted
    <3>3. QED  BY <2>2, <3>1, <3>2 DEF NobodyLost, Accepted
  <2>4. CalledInTurn'
    BY DEF CalledInTurn, Called
  <2>5. QED  BY <2>3, <2>4
<1>3. CASE Dispatch
  <2> USE <1>3 DEF Dispatch
  <2>1. nsfd \in Trains /\ mi \in Index /\ ~Called(nsfd)
    BY DEF TypeInv, Control, YardInv, HandInv, InHand
  <2>2. CASE DieInHandOver(nsfd)
    <3>1. UNCHANGED <<berth, number, tpc, train_no>> /\ mpc' = "dead"
      BY <2>2 DEF DieInHandOver, HandOver, Send
    <3>2. QED  BY <3>1, LedgerKept
  <2>3. CASE HandOver(nsfd, train_no, mi) /\ NextTrainNo /\ mpc' = "select"
    <3> USE <2>3 DEF LedgerInv
    <3>1. /\ tpc' = tpc /\ Called(nsfd)' /\ train_no' = train_no + 1
          /\ \A u \in Trains : u # nsfd => berth'[u] = berth[u] /\ number'[u] = number[u]
          /\ \A u \in Trains : Called(u) => Called(u)'
      BY <1>0, <2>1, HandOverLedger DEF NextTrainNo
    <3>2. NobodyLost'
      BY <3>1 DEF NobodyLost, Queued, Accepted
    <3>3. \A k \in 0 .. scnt - 1 : queue[k].fd \in Trains /\ queue[k].fd # nsfd
      BY <1>0, <2>1 DEF CalledInTurn
    <3>4. CalledInTurn'
      BY <1>0, <3>1, <3>3 DEF CalledInTurn
    <3>5. \A k \in 0 .. tcnt - 1 : queue[k].no \in Nat
      BY <1>0
    <3>6. QED  BY <1>0, <3>1, <3>2, <3>4, <3>5
  <2>4. QED  BY <2>2, <2>3
<1>4. CASE Slot
  <2> USE <1>4 DEF Slot, LedgerInv
  <2>1. \A k \in 0 .. tcnt - 1 : queue'[k] = queue[k]
    BY <1>0
  <2>2. NobodyLost'
    BY <1>0, <2>1 DEF NobodyLost, Called, Queued, Accepted
  <2>3. CalledInTurn'
    BY <1>0, <2>1 DEF CalledInTurn, Called
  <2>4. QED  BY <2>1, <2>2, <2>3
<1>5. CASE Count
  <2> USE <1>5 DEF Count, LedgerInv, NextTrainNo
  <2>1. /\ queue[tcnt].fd = nsfd /\ queue[tcnt].no = train_no /\ tcnt < QueueSlots
        /\ tcnt' = tcnt + 1 /\ train_no' = train_no + 1
    BY DEF TypeInv, Control, YardInv, HandInv
  <2>2. \A k \in 0 .. tcnt' - 1 : queue[k].no \in Nat /\ (k \in 0 .. tcnt - 1 \/ k = tcnt)
    BY <1>0, <2>1
  <2>3. tcnt \in scnt .. tcnt' - 1
    BY <1>0, <2>1
  <2>4. NobodyLost'
    BY <1>0, <2>1, <2>3 DEF NobodyLost, Called, Queued, Accepted
  <2>5. \A j, k \in 0 .. tcnt' - 1 : j < k => queue[j].no < queue[k].no
    BY <1>0, <2>1, <2>2 DEF CalledInTurn
  <2>6. CalledInTurn'
    BY <2>5 DEF CalledInTurn, Called
  <2>7. \A k \in 0 .. tcnt' - 1 : queue[k].no < train_no'
    BY <1>0, <2>1, <2>2
  <2>8. QED  BY <2>4, <2>6, <2>7
<1>6. QED
  BY <1>1, <1>2, <1>3, <1>4, <1>5 DEF MainStep

LEMMA HandlerLedger ==
  ASSUME TypeInv, YardInv, LedgerInv, HandlerStep
  PROVE  LedgerInv'
<1> USE RailAssumption DEF platformVars, mainVars, queueVars, trainVars, callVars, history
<1>1. CASE HandlerEnter \/ HandlerScan
  <2>1. UNCHANGED <<queue, scnt, tcnt, backlog, nsfd, train_no, berth, number, tpc, mpc>>
    BY <1>1 DEF HandlerEnter, HandlerScan
  <2>2. QED  BY <2>1, LedgerKept
<1>2. CASE HandlerDispatch
  <2> USE <1>2 DEF HandlerDispatch
  <2> PICK t, n : t = queue[scnt].fd /\ n = queue[scnt].no
    OBVIOUS
  <2>1. /\ scnt \in Nat /\ tcnt \in Nat /\ scnt < tcnt /\ mpc \notin {"boot", "dead"}
        /\ t \in Trains /\ n \in Nat /\ hi \in Index
        /\ \A k \in 0 .. tcnt - 1 : queue[k].fd \in Trains
    BY DEF TypeInv, Control, TypeOK, QueueTypes
  <2>2. CASE DieInHandOver(t)
    <3>1. UNCHANGED <<berth, number, tpc, scnt, queue, tcnt, backlog, nsfd, train_no>> /\ mpc' = "dead"
      BY <2>2, <2>1 DEF DieInHandOver, HandOver, Send
    <3>2. QED  BY <3>1, LedgerKept
  <2>3. CASE HandOver(t, n, hi) /\ Dequeue /\ mpc' = mpc
    <3> USE <2>3 DEF LedgerInv
    <3>1. /\ tpc' = tpc /\ Called(t)' /\ number'[t] = n /\ scnt' = scnt + 1
          /\ \A u \in Trains : u # t => berth'[u] = berth[u] /\ number'[u] = number[u]
          /\ \A u \in Trains : Called(u) => Called(u)'
      BY <2>1, HandOverLedger DEF Dequeue
    <3>2. ASSUME NEW u \in Trains, Queued(u), u # t PROVE Queued(u)'
      <4>1. PICK k \in scnt .. tcnt - 1 : queue[k].fd = u
        BY <3>2 DEF Queued
      <4>2. k \in scnt' .. tcnt - 1
        BY <2>1, <3>1, <3>2, <4>1
      <4>3. QED  BY <4>1, <4>2 DEF Queued
    <3>3. NobodyLost'
      BY <3>1, <3>2 DEF NobodyLost, Accepted
    <3>4. ~Called(t)
      BY <2>1 DEF YardInv, QueueInv, Waiting
    <3>5. \A k \in 0 .. scnt - 1 : queue[k].fd \in Trains /\ queue[k].fd # t
      BY <2>1, <3>4 DEF CalledInTurn
    <3>6. \A k \in 0 .. scnt' - 1 : k \in 0 .. scnt - 1 \/ k = scnt
      BY <2>1, <3>1
    <3>7. CalledInTurn'
      BY <3>1, <3>5, <3>6 DEF CalledInTurn
    <3>8. QED  BY <3>3, <3>7
  <2>4. QED  BY <2>2, <2>3
<1>3. QED
  BY <1>1, <1>2 DEF HandlerStep

LEMMA LedgerStep == TypeInv /\ YardInv /\ LedgerInv /\ [Next]_vars => LedgerInv'
<1> SUFFICES ASSUME TypeInv, YardInv, LedgerInv, [Next]_vars PROVE LedgerInv'
  OBVIOUS
<1>1. CASE UNCHANGED vars
  BY <1>1, LedgerKept, RailAssumption DEF vars, mainVars, queueVars, trainVars, callVars
<1>2. QED
  BY <1>1, PlatformLedger, MainLedger, HandlerLedger, TrainLedger DEF Next

\* The queue shared by main and the handler that interrupts it loses, repeats
\* and renames no train and calls the trains in the order in which main accepted
\* them, however long it is and however many trains come.
THEOREM QueueCorrect == Spec => []QueueDiscipline
<1>1. TypeInv /\ YardInv => WaitersApart
  BY DEF WaitersApart, TypeInv, Control, YardInv, QueueInv, TypeOK, QueueTypes, Waiting
<1>2. LedgerInv => NobodyLost /\ CalledInTurn
  BY DEF LedgerInv
<1>3. QED
  BY <1>1, <1>2, LedgerInitInv, LedgerStep, Invariance, PTL DEF Spec, QueueDiscipline

-----------------------------------------------------------------------------
(* The station implements TrainYard.  Each step is an Enter, a Call, a     *)
(* Depart or a GiveUp, or leaves what a train sees alone.                  *)

LEMMA YardStutter ==
  ASSUME UNCHANGED <<tpc, berth, number>>
  PROVE  UNCHANGED Yard!yard
BY DEF Yard!yard, Phase

LEMMA CallMaps ==
  ASSUME TypeInv, YardInv, NEW t \in Trains, NEW n \in Nat, NEW i \in Index,
         HandOver(t, n, i), ~Called(t), tpc[t] # "away",
         \A u \in Trains : Called(u) => number[u] # n
  PROVE  Yard!Call(t)
<1>1. TrainTypes
  BY DEF TypeInv, TypeOK
<1>2. tpc[t] # "gone"
  BY DEF YardInv, CallInv
<1>3. tpc' = tpc /\ berth' = [berth EXCEPT ![t] = i] /\ number' = [number EXCEPT ![t] = n]
  BY DEF HandOver, Send
<1>4. number'[t] = n
  BY <1>1, <1>3 DEF TrainTypes
<1>5. Phase(t) # "away" /\ Phase(t) # "gone"
  BY <1>2 DEF Phase
<1>6. [u \in Trains |-> Phase(u)]' = [u \in Trains |-> Phase(u)]
  BY <1>3 DEF Phase
<1>7. QED
  BY <1>3, <1>4, <1>5, <1>6 DEF Yard!Call, Called

LEMMA PhaseStep ==
  ASSUME TrainTypes, NEW t \in Trains, NEW x \in TrainPC, tpc' = [tpc EXCEPT ![t] = x]
  PROVE  [u \in Trains |-> Phase(u)]' =
           [[u \in Trains |-> Phase(u)] EXCEPT
              ![t] = IF x \in {"away", "gone", "quit"} THEN x ELSE "in"]
BY DEF TrainTypes, Phase

LEMMA YardMaps ==
  ASSUME TypeInv, YardInv, Next
  PROVE  [Yard!YardNext]_(Yard!yard)
<1> USE DEF platformVars, mainVars, queueVars, trainVars, callVars, history
<1>0. TrainTypes
  BY DEF TypeInv, TypeOK
<1>1. ASSUME NEW p \in Platforms, PlatformStep(p) PROVE UNCHANGED Yard!yard
  <2>1. UNCHANGED <<tpc, berth, number>>
    BY <1>1 DEF PlatformStep, Connect, ClaimScan, ClaimWrite, ReadPid, Take, Greet, Free,
         Signal, Send
  <2>2. QED  BY <2>1, YardStutter
<1>2. CASE MainStep
  <2>1. CASE Dispatch
    <3>1. nsfd \in Trains /\ mi \in Index /\ train_no \in Nat
      BY <2>1 DEF Dispatch, TypeInv, Control, InHand, TypeOK, MasterTypes
    <3>2. CASE DieInHandOver(nsfd)
      BY <3>2, YardStutter DEF DieInHandOver, Send
    <3>3. CASE HandOver(nsfd, train_no, mi)
      <4>1. ~Called(nsfd) /\ tpc[nsfd] # "away"
        BY <2>1 DEF Dispatch, YardInv, HandInv, InHand
      <4>2. \A u \in Trains : Called(u) => number[u] # train_no
        BY <1>0, <3>1 DEF YardInv, CallInv, TrainTypes
      <4>3. Yard!Call(nsfd)
        BY <3>1, <3>3, <4>1, <4>2, CallMaps
      <4>4. QED  BY <3>1, <4>3 DEF Yard!YardNext
    <3>4. QED  BY <2>1, <3>2, <3>3 DEF Dispatch
  <2>2. CASE Publish \/ Accept \/ Scan \/ Claim \/ Slot \/ Count
    <3>1. UNCHANGED <<tpc, berth, number>>
      BY <2>2 DEF Publish, Accept, Scan, Claim, Slot, Count
    <3>2. QED  BY <3>1, YardStutter
  <2>3. QED  BY <1>2, <2>1, <2>2 DEF MainStep
<1>3. CASE HandlerStep
  <2>1. CASE HandlerDispatch
    <3>1. PICK t, n : t = queue[scnt].fd /\ n = queue[scnt].no
      OBVIOUS
    <3>2. scnt \in Waiting /\ t \in Trains /\ n \in Nat /\ hi \in Index
      BY <2>1, <3>1, RailAssumption
      DEF HandlerDispatch, TypeInv, Control, TypeOK, QueueTypes, Waiting
    <3>3. CASE DieInHandOver(t)
      BY <3>3, YardStutter DEF DieInHandOver, Send
    <3>4. CASE HandOver(t, n, hi)
      <4>1. /\ ~Called(t) /\ tpc[t] # "away"
            /\ \A u \in Trains : Called(u) => number[u] # n
        BY <3>1, <3>2 DEF YardInv, QueueInv
      <4>2. Yard!Call(t)
        BY <3>2, <3>4, <4>1, CallMaps
      <4>3. QED  BY <3>2, <4>2 DEF Yard!YardNext
    <3>5. QED  BY <2>1, <3>1, <3>3, <3>4 DEF HandlerDispatch
  <2>2. CASE HandlerEnter \/ HandlerScan
    <3>1. UNCHANGED <<tpc, berth, number>>
      BY <2>2 DEF HandlerEnter, HandlerScan
    <3>2. QED  BY <3>1, YardStutter
  <2>3. QED  BY <1>3, <2>1, <2>2 DEF HandlerStep
<1>4. ASSUME NEW t \in Trains, TrainStep(t) \/ Arrive(t) \/ Quit(t)
      PROVE  [Yard!YardNext]_(Yard!yard)
  <2>1. CASE GetNumber(t)
    <3>1. tpc' = [tpc EXCEPT ![t] = "ready"] /\ tpc[t] = "connected" /\ UNCHANGED <<berth, number>>
      BY <2>1 DEF GetNumber, Receive
    <3>2. UNCHANGED [u \in Trains |-> Phase(u)]
      BY <1>0, <3>1 DEF TrainTypes, Phase
    <3>3. QED  BY <3>1, <3>2 DEF Yard!yard
  <2>2. CASE Berth(t)
    <3>1. tpc' = [tpc EXCEPT ![t] = "berthed"] /\ tpc[t] = "ready" /\ UNCHANGED <<berth, number>>
      BY <2>2 DEF Berth, Receive
    <3>2. UNCHANGED [u \in Trains |-> Phase(u)]
      BY <1>0, <3>1 DEF TrainTypes, Phase
    <3>3. QED  BY <3>1, <3>2 DEF Yard!yard
  <2>3. CASE Leave(t)
    <3>1. tpc' = [tpc EXCEPT ![t] = "gone"] /\ tpc[t] = "berthed" /\ UNCHANGED <<berth, number>>
      BY <2>3 DEF Leave, Receive
    <3>2. Called(t)
      BY <3>1 DEF YardInv, CallInv
    <3>3. Yard!Depart(t)
      BY <1>0, <3>1, <3>2, PhaseStep DEF Yard!Depart, Phase, Called, TrainPC
    <3>4. QED  BY <3>3 DEF Yard!YardNext
  <2>4. CASE Arrive(t)
    <3>1. Yard!Enter(t)
      BY <1>0, <2>4, PhaseStep DEF Arrive, Yard!Enter, Phase, TrainPC
    <3>2. QED  BY <3>1 DEF Yard!YardNext
  <2>5. CASE Quit(t)
    <3>1. Yard!GiveUp(t)
      BY <1>0, <2>5, PhaseStep DEF Quit, Yard!GiveUp, Phase, TrainPC
    <3>2. QED  BY <3>1 DEF Yard!YardNext
  <2>6. QED  BY <1>4, <2>1, <2>2, <2>3, <2>4, <2>5 DEF TrainStep
<1>5. QED
  BY <1>1, <1>2, <1>3, <1>4 DEF Next

\* Whatever the interleaving of main, handler, platforms and trains, a train is
\* called once, to one platform, under a number no other train has, and leaves
\* only after it was called.
THEOREM StationImplementsYard == Spec => YardSpec
<1>1. Init => Yard!YardInit
  BY DEF Init, NobodyCame, Yard!YardInit, Phase
<1>2. TypeInv /\ YardInv /\ [Next]_vars => [Yard!YardNext]_(Yard!yard)
  <2>1. UNCHANGED vars => UNCHANGED Yard!yard
    BY YardStutter DEF vars, trainVars, callVars
  <2>2. QED  BY <2>1, YardMaps
<1>3. QED
  BY <1>1, <1>2, Invariance, PTL DEF Spec, YardSpec, Yard!YardSpec

-----------------------------------------------------------------------------
(* The flags, platforms, wake-ups and deaths, which build on the types and  *)
(* on the whereabouts of the trains (TypeInv, YardInv).                     *)

Serving(p) == ppc[p] \in {"recv", "stay", "left"}

-----------------------------------------------------------------------------
(* Sockets.  nusfd[] holds each platform once.  Before it is complete no    *)
(* train comes in and no flag is busy; after, it does not change.           *)

SocketInv ==
  /\ \A j, k \in DOMAIN nusfd : nusfd[j] = nusfd[k] => j = k
  /\ \A k \in DOMAIN nusfd : ppc[nusfd[k]] # "connect"
  /\ mpc # "boot" => Len(nusfd) = NP
  /\ mpc = "boot" =>
       /\ hpc = "off"
       /\ \A i \in Index : flag[i] # 1
       /\ \A p \in Platforms :
            fdq[p] = <<>> /\ ppc[p] \in {"connect", "scan", "claim", "attach", "idle"}

LEMMA SocketInitInv == Init => SocketInv
BY DEF Init, Forked, NobodyCame, ShmInit, SocketInv

\* Once NP platforms have connected, every platform has.
LEMMA AllConnected ==
  ASSUME TypeInv, SocketInv, Len(nusfd) = NP
  PROVE  \A p \in Platforms :
           ppc[p] # "connect" /\ \E i \in Index : PlatformAt(i) = p
<1>1. nusfd \in [1 .. NP -> Platforms]
  BY DEF TypeInv, TypeOK, SharedTypes
<1>2. nusfd \in Injection(1 .. NP, Platforms)
  BY <1>1 DEF SocketInv, Injection, IsInjective
<1>3. Cardinality(1 .. NP) = NP /\ IsFiniteSet(1 .. NP)
  BY RailAssumption, FS_Interval
<1>4. nusfd \in Surjection(1 .. NP, Platforms)
  BY <1>2, <1>3, FS_Injection, RailAssumption
<1>5. ASSUME NEW p \in Platforms
      PROVE  ppc[p] # "connect" /\ \E i \in Index : PlatformAt(i) = p
  <2>1. PICK k \in 1 .. NP : nusfd[k] = p
    BY <1>4 DEF Surjection
  <2>2. ppc[p] # "connect"
    BY <1>1, <2>1 DEF SocketInv
  <2>3. k - 1 \in Index /\ PlatformAt(k - 1) = p
    BY <2>1, RailAssumption DEF PlatformAt, Index
  <2>4. QED  BY <2>2, <2>3
<1>6. QED  BY <1>5

\* Two indices of nusfd[] never name one platform.
LEMMA OneSocketEach ==
  ASSUME TypeInv, SocketInv, mpc # "boot", NEW i \in Index, NEW j \in Index
  PROVE  PlatformAt(i) \in Platforms /\ (PlatformAt(i) = PlatformAt(j) => i = j)
<1>1. DOMAIN nusfd = 1 .. NP /\ nusfd \in [1 .. NP -> Platforms]
  BY DEF TypeInv, TypeOK, SharedTypes, SocketInv
<1>2. i + 1 \in 1 .. NP /\ j + 1 \in 1 .. NP
  BY RailAssumption DEF Index
<1>3. PlatformAt(i) = PlatformAt(j) => i + 1 = j + 1
  BY <1>1, <1>2 DEF SocketInv, PlatformAt
<1>4. QED  BY <1>1, <1>2, <1>3 DEF PlatformAt, Index

LEMMA PlatformSocket ==
  ASSUME TypeInv, SocketInv, NEW p \in Platforms, PlatformStep(p)
  PROVE  SocketInv'
<1> USE DEF platformVars, mainVars, queueVars, trainVars, callVars, history
<1>0. /\ ppc \in [Platforms -> PlatformPC] /\ platform_no \in [Platforms -> 0 .. NP]
      /\ flag \in [Index -> {-1, 0, 1}] /\ nusfd \in Seq(Platforms)
      /\ fdq \in [Platforms -> Seq(Trains)]
  BY DEF TypeInv, TypeOK, PlatformTypes, SharedTypes
<1>1. CASE Connect(p)
  <2> USE <1>1 DEF Connect
  <2>1. mpc = "boot"
    BY AllConnected DEF SocketInv
  <2>2. \A k \in DOMAIN nusfd : nusfd[k] # p
    BY DEF SocketInv
  <2>3. /\ DOMAIN nusfd' = 1 .. Len(nusfd) + 1 /\ DOMAIN nusfd = 1 .. Len(nusfd)
        /\ nusfd'[Len(nusfd) + 1] = p /\ \A k \in DOMAIN nusfd : nusfd'[k] = nusfd[k]
        /\ Len(nusfd) \in Nat
    BY <1>0
  <2>4. \A j, k \in DOMAIN nusfd' : nusfd'[j] = nusfd'[k] => j = k
    BY <2>2, <2>3 DEF SocketInv
  <2>5. \A k \in DOMAIN nusfd' : nusfd'[k] \in Platforms /\ ppc'[nusfd'[k]] # "connect"
    BY <1>0, <2>3 DEF SocketInv
  <2>6. QED  BY <1>0, <2>1, <2>4, <2>5 DEF SocketInv
<1>2. CASE ClaimScan(p) \/ ReadPid(p)
  <2>1. /\ UNCHANGED <<nusfd, mpc, hpc, flag, fdq>>
        /\ \A q \in Platforms : q # p => ppc'[q] = ppc[q]
        /\ ppc'[p] \in {"scan", "claim", "attach", "idle"}
    BY <1>0, <1>2 DEF ClaimScan, ReadPid
  <2>2. \A k \in DOMAIN nusfd : nusfd[k] \in Platforms
    BY <1>0
  <2>3. QED  BY <2>1, <2>2 DEF SocketInv
<1>3. CASE ClaimWrite(p)
  BY <1>0, <1>3 DEF ClaimWrite, FreeFlag, SocketInv
<1>4. CASE Take(p) \/ Greet(p) \/ Free(p) \/ Signal(p)
  <2>1. mpc # "boot"
    BY <1>4 DEF Take, Greet, Free, Signal, SocketInv
  <2>2. \A q \in Platforms : ppc'[q] = "connect" => ppc[q] = "connect"
    BY <1>0, <1>4 DEF Take, Greet, Free, Signal
  <2>3. UNCHANGED <<nusfd, mpc>>
    BY <1>4 DEF Take, Greet, Free, Signal
  <2>4. QED  BY <1>0, <2>1, <2>2, <2>3 DEF SocketInv
<1>5. QED
  BY <1>1, <1>2, <1>3, <1>4 DEF PlatformStep

LEMMA SocketStep == TypeInv /\ SocketInv /\ [Next]_vars => SocketInv'
<1> SUFFICES ASSUME TypeInv, SocketInv, [Next]_vars PROVE SocketInv'
  OBVIOUS
<1> USE DEF platformVars, mainVars, queueVars, trainVars, callVars, history
<1>1. CASE UNCHANGED vars
  BY <1>1 DEF vars, SocketInv
<1>2. CASE MainStep
  <2>1. CASE Publish
    BY <2>1 DEF Publish, SocketInv
  <2>2. CASE Accept \/ Scan \/ Claim \/ Dispatch \/ Slot \/ Count
    <3>1. mpc # "boot" /\ mpc' # "boot" /\ UNCHANGED <<nusfd, ppc>>
      BY <2>2 DEF Accept, Scan, Claim, Dispatch, Slot, Count, DieInHandOver
    <3>2. QED  BY <3>1 DEF SocketInv
  <2>3. QED  BY <1>2, <2>1, <2>2 DEF MainStep
<1>3. CASE HandlerStep
  <2>1. mpc # "boot"
    BY <1>3 DEF HandlerStep, HandlerEnter, HandlerScan, HandlerDispatch, SocketInv
  <2>2. mpc' # "boot" /\ UNCHANGED <<nusfd, ppc>>
    BY <1>3, <2>1 DEF HandlerStep, HandlerEnter, HandlerScan, HandlerDispatch, DieInHandOver
  <2>3. QED  BY <2>1, <2>2 DEF SocketInv
<1>4. ASSUME NEW t \in Trains, TrainStep(t) \/ Arrive(t) \/ Quit(t) PROVE SocketInv'
  <2>1. UNCHANGED <<nusfd, mpc, hpc, flag, fdq, ppc>>
    BY <1>4 DEF TrainStep, GetNumber, Berth, Leave, Arrive, Quit
  <2>2. QED  BY <2>1 DEF SocketInv
<1>5. QED
  BY <1>1, <1>2, <1>3, <1>4, PlatformSocket DEF Next

-----------------------------------------------------------------------------
(* Slots.  Whoever sets a flag holds its index, and a platform that still    *)
(* scans has passed set flags only: were there no flag left for it, every   *)
(* index would have a holder among the other NP - 1 platforms.              *)

SlotInv ==
  /\ \A i \in Index : flag[i] # -1 => \E q \in Platforms : Claimed(q) /\ platform_no[q] = i
  /\ \A p \in Platforms :
       /\ platform_no[p] \in Index
       /\ ppc[p] \in {"connect", "scan"} => \A i \in 0 .. platform_no[p] - 1 : flag[i] # -1
       /\ Claimed(p) /\ ppc[p] # "dead" => flag[platform_no[p]] # -1
  /\ mpc = "claim" => flag[mi] # -1

LEMMA SlotInitInv == Init => SlotInv
BY RailAssumption DEF Init, Forked, NobodyCame, ShmInit, SlotInv, Index, Claimed

\* NP - 1 platforms do not hold NP flags.
LEMMA AFlagIsLeft ==
  ASSUME TypeInv, SlotInv, NEW p \in Platforms, ~Claimed(p)
  PROVE  \E i \in Index : flag[i] = -1
<1> SUFFICES ASSUME \A i \in Index : flag[i] # -1 PROVE FALSE
  OBVIOUS
<1> DEFINE Others == Platforms \ {p}
           holder == [i \in Index |-> CHOOSE q \in Platforms : Claimed(q) /\ platform_no[q] = i]
<1>1. \A i \in Index : holder[i] \in Others /\ platform_no[holder[i]] = i
  BY DEF SlotInv
<1>2. holder \in [Index -> Others]
  BY <1>1
<1>3. IsFiniteSet(Index) /\ Cardinality(Index) = NP
  BY RailAssumption, FS_Interval DEF Index
<1>4. IsFiniteSet(Others) /\ Cardinality(Others) = NP - 1
  BY RailAssumption, FS_RemoveElement
<1>5. \E i, j \in Index : i # j /\ holder[i] = holder[j]
  <2> HIDE DEF holder, Others
  <2> QED  BY <1>2, <1>3, <1>4, FS_PigeonHole, RailAssumption
<1>6. QED  BY <1>1, <1>5

\* Flags once set stay set, and indices once held stay held.
LEMMA SlotKept ==
  ASSUME TypeInv, SlotInv, UNCHANGED platform_no,
         \A q \in Platforms : Claimed(q) => Claimed(q)',
         \A q \in Platforms : Claimed(q)' /\ ppc'[q] # "dead" => Claimed(q) /\ ppc[q] # "dead",
         \A q \in Platforms : ppc'[q] \in {"connect", "scan"} => ppc[q] = ppc'[q],
         \A i \in Index : flag'[i] = -1 <=> flag[i] = -1,
         mpc' = "claim" => flag'[mi'] # -1
  PROVE  SlotInv'
<1>1. \A q \in Platforms : \A i \in 0 .. platform_no[q] - 1 : i \in Index
  BY RailAssumption DEF SlotInv, Index
<1>2. \A i \in Index : flag'[i] # -1 => \E q \in Platforms : Claimed(q)' /\ platform_no'[q] = i
  BY DEF SlotInv
<1>3. QED  BY <1>1, <1>2 DEF SlotInv

LEMMA PlatformSlot ==
  ASSUME TypeInv, SlotInv, NEW p \in Platforms, PlatformStep(p)
  PROVE  SlotInv'
<1> USE DEF platformVars, mainVars, queueVars, trainVars, callVars, history
<1>0. /\ ppc \in [Platforms -> PlatformPC] /\ platform_no \in [Platforms -> 0 .. NP]
      /\ flag \in [Index -> {-1, 0, 1}]
  BY DEF TypeInv, TypeOK, PlatformTypes, SharedTypes
<1>1. CASE Connect(p)
  BY <1>0, <1>1, RailAssumption DEF Connect, SlotInv, Claimed, Index
<1>2. CASE ClaimScan(p)
  <2> USE <1>2 DEF ClaimScan
  <2>1. platform_no[p] \in Index /\ ~Claimed(p)
    BY DEF SlotInv, Claimed
  <2>2. CASE flag[platform_no[p]] = -1
    BY <1>0, <2>1, <2>2 DEF SlotInv, Claimed
  <2>3. CASE flag[platform_no[p]] # -1
    <3>1. ppc' = ppc /\ platform_no' = [platform_no EXCEPT ![p] = @ + 1]
      BY <2>1, <2>3
    <3>2. \A i \in 0 .. platform_no[p] : flag[i] # -1
      BY <2>1, <2>3 DEF SlotInv, Index
    <3>3. platform_no[p] # NP - 1
      BY <2>1, <3>2, AFlagIsLeft, RailAssumption DEF Index
    <3>4. platform_no'[p] \in Index /\ platform_no'[p] - 1 = platform_no[p]
      BY <1>0, <2>1, <3>1, <3>3, RailAssumption DEF Index
    <3>5. \A q \in Platforms : q # p => platform_no'[q] = platform_no[q]
      BY <1>0, <3>1
    <3>6. \A i \in Index : flag[i] # -1 =>
            \E q \in Platforms : Claimed(q)' /\ platform_no'[q] = i
      BY <2>1, <3>1, <3>5 DEF SlotInv, Claimed
    <3>7. \A q \in Platforms :
            /\ platform_no'[q] \in Index
            /\ ppc[q] \in {"connect", "scan"} =>
                 \A i \in 0 .. platform_no'[q] - 1 : flag[i] # -1
            /\ Claimed(q)' /\ ppc[q] # "dead" => flag[platform_no'[q]] # -1
      BY <2>1, <3>1, <3>2, <3>4, <3>5 DEF SlotInv, Claimed
    <3>8. QED  BY <3>1, <3>6, <3>7 DEF SlotInv
  <2>4. QED  BY <2>2, <2>3
<1>3. CASE ClaimWrite(p)
  <2> USE <1>3 DEF ClaimWrite, FreeFlag
  <2>1. /\ platform_no[p] \in Index /\ flag'[platform_no[p]] = 0
        /\ \A i \in Index : i # platform_no[p] => flag'[i] = flag[i]
        /\ Claimed(p)' /\ \A q \in Platforms : q # p => ppc'[q] = ppc[q]
        /\ ppc'[p] = "attach" /\ ~Claimed(p)
    BY <1>0 DEF SlotInv, Claimed
  <2>2. \A i \in Index : flag'[i] # -1 =>
          \E q \in Platforms : Claimed(q)' /\ platform_no'[q] = i
    <3> SUFFICES ASSUME NEW i \in Index, flag'[i] # -1
                 PROVE  \E q \in Platforms : Claimed(q)' /\ platform_no'[q] = i
      OBVIOUS
    <3>1. CASE i = platform_no[p]  BY <2>1, <3>1
    <3>2. CASE i # platform_no[p]
      <4>1. PICK q \in Platforms : Claimed(q) /\ platform_no[q] = i
        BY <2>1, <3>2 DEF SlotInv
      <4>2. Claimed(q)'  BY <2>1, <4>1 DEF Claimed
      <4>3. QED  BY <4>1, <4>2
    <3>3. QED  BY <3>1, <3>2
  <2>3. \A i \in Index : flag[i] # -1 => flag'[i] # -1
    BY <2>1
  <2>4. \A q \in Platforms : \A i \in 0 .. platform_no[q] - 1 : i \in Index
    BY RailAssumption DEF SlotInv, Index
  <2>5. mpc = "claim" => mi \in Index
    BY DEF TypeInv, Control
  <2>6. QED  BY <2>1, <2>2, <2>3, <2>4, <2>5 DEF SlotInv, Claimed
<1>4. CASE ReadPid(p) \/ Take(p) \/ Greet(p)
  <2>1. UNCHANGED <<flag, platform_no, mpc, mi>>
    BY <1>4 DEF ReadPid, Take, Greet
  <2>2. /\ \A q \in Platforms : q # p => ppc'[q] = ppc[q]
        /\ Claimed(p) /\ Claimed(p)' /\ ppc[p] # "dead" /\ ppc'[p] \notin {"connect", "scan"}
    BY <1>0, <1>4 DEF ReadPid, Take, Greet, Claimed
  <2>3. QED  BY <2>1, <2>2, SlotKept DEF Claimed, SlotInv
<1>5. CASE Free(p)
  <2>1. UNCHANGED <<platform_no, mpc, mi>> /\ flag' = [flag EXCEPT ![platform_no[p]] = 0]
    BY <1>5 DEF Free, FreeFlag
  <2>2. /\ \A q \in Platforms : q # p => ppc'[q] = ppc[q]
        /\ Claimed(p) /\ Claimed(p)' /\ ppc[p] # "dead" /\ ppc'[p] \notin {"connect", "scan"}
    BY <1>0, <1>5 DEF Free, Claimed
  <2>3. flag[platform_no[p]] # -1 /\ platform_no[p] \in Index
    BY <2>2 DEF SlotInv
  <2>4. \A i \in Index : flag'[i] = -1 <=> flag[i] = -1
    BY <1>0, <2>1, <2>3
  <2>5. mpc = "claim" => mi \in Index
    BY DEF TypeInv, Control
  <2>6. QED  BY <2>1, <2>2, <2>4, <2>5, SlotKept DEF Claimed, SlotInv
<1>6. CASE Signal(p)
  <2>1. UNCHANGED <<flag, platform_no, mpc, mi>>
    BY <1>6 DEF Signal
  <2>2. \A q \in Platforms : ppc'[q] = ppc[q] \/ ppc'[q] = "dead" \/ q = p
    BY <1>0, <1>6 DEF Signal
  <2>3. /\ Claimed(p) /\ Claimed(p)' /\ ppc[p] # "dead" /\ ppc'[p] \notin {"connect", "scan"}
    BY <1>0, <1>6 DEF Signal, Claimed
  <2>4. QED  BY <2>1, <2>2, <2>3, SlotKept DEF Claimed, SlotInv
<1>7. QED
  BY <1>1, <1>2, <1>3, <1>4, <1>5, <1>6 DEF PlatformStep

LEMMA SlotStep == TypeInv /\ SlotInv /\ [Next]_vars => SlotInv'
<1> SUFFICES ASSUME TypeInv, SlotInv, [Next]_vars PROVE SlotInv'
  OBVIOUS
<1> USE DEF platformVars, mainVars, queueVars, trainVars, callVars, history
<1>0. flag \in [Index -> {-1, 0, 1}]
  BY DEF TypeInv, TypeOK, SharedTypes
<1>1. CASE UNCHANGED vars
  BY <1>1 DEF vars, SlotInv, Claimed
<1>2. CASE MainStep
  <2>1. CASE Publish \/ Accept \/ Scan \/ Dispatch \/ Slot \/ Count
    <3>1. UNCHANGED <<flag, ppc, platform_no>> /\ (mpc' = "claim" => mi' = mi /\ flag[mi] # -1)
      BY <2>1 DEF Publish, Accept, Scan, Dispatch, Slot, Count, DieInHandOver
    <3>2. QED  BY <3>1 DEF SlotInv, Claimed
  <2>2. CASE Claim
    <3>1. mi \in Index /\ flag[mi] # -1
      BY <2>2 DEF Claim, TypeInv, Control, SlotInv
    <3>2. \A i \in Index : flag'[i] = -1 <=> flag[i] = -1
      BY <1>0, <2>2, <3>1 DEF Claim, ClaimFlag
    <3>3. QED  BY <2>2, <3>2, SlotKept DEF Claim, Claimed
  <2>3. QED  BY <1>2, <2>1, <2>2 DEF MainStep
<1>3. CASE HandlerStep
  <2>1. CASE HandlerEnter \/ HandlerScan
    <3>1. UNCHANGED <<flag, ppc, platform_no, mpc, mi>>
      BY <2>1 DEF HandlerEnter, HandlerScan
    <3>2. QED  BY <3>1 DEF SlotInv, Claimed
  <2>2. CASE HandlerDispatch
    <3>1. hi \in Index /\ flag[hi] # -1 /\ flag' = [flag EXCEPT ![hi] = 1]
      BY <2>2 DEF HandlerDispatch, ClaimFlag
    <3>2. UNCHANGED <<ppc, platform_no, mi>> /\ (mpc' = "claim" => mpc = "claim")
      BY <2>2 DEF HandlerDispatch, DieInHandOver
    <3>3. \A i \in Index : flag'[i] = -1 <=> flag[i] = -1
      BY <1>0, <3>1
    <3>4. mpc = "claim" => mi \in Index
      BY DEF TypeInv, Control
    <3>5. QED  BY <3>2, <3>3, <3>4, SlotKept DEF Claimed, SlotInv
  <2>3. QED  BY <1>3, <2>1, <2>2 DEF HandlerStep
<1>4. ASSUME NEW t \in Trains, TrainStep(t) \/ Arrive(t) \/ Quit(t) PROVE SlotInv'
  <2>1. UNCHANGED <<flag, ppc, platform_no, mpc, mi>>
    BY <1>4 DEF TrainStep, GetNumber, Berth, Leave, Arrive, Quit
  <2>2. QED  BY <2>1 DEF SlotInv, Claimed
<1>5. QED
  BY <1>1, <1>2, <1>3, <1>4, PlatformSlot DEF Next

\* Even though the claim loop of P.c has no lock and two platforms may claim
\* one flag, no platform ever runs past the flags into the station master's pid.
THEOREM SlotForEveryPlatform == Spec => []EveryPlatformFindsASlot
<1>1. SlotInv => EveryPlatformFindsASlot
  BY DEF SlotInv, EveryPlatformFindsASlot
<1>2. QED
  BY <1>1, TypeInit, TypeStep, SlotInitInv, SlotStep, PTL DEF Spec

-----------------------------------------------------------------------------
(* Served trains.  A train passed to a platform, or served by it, was       *)
(* announced for the index of that platform's socket; a platform is passed  *)
(* a train once.                                                            *)

ServedInv ==
  \A p \in Platforms :
    /\ \A j \in DOMAIN fdq[p] : PlatformAt(berth[fdq[p][j]]) = p
    /\ \A j, k \in DOMAIN fdq[p] : fdq[p][j] = fdq[p][k] => j = k
    /\ Serving(p) => /\ PlatformAt(berth[cur[p]]) = p
                     /\ \A j \in DOMAIN fdq[p] : fdq[p][j] # cur[p]

LEMMA ServedInitInv == Init => ServedInv
BY DEF Init, Forked, NobodyCame, ServedInv, Serving

LEMMA ServedKept ==
  ASSUME ServedInv, UNCHANGED <<nusfd, fdq, berth>>,
         \A q \in Platforms : Serving(q)' => Serving(q) /\ cur'[q] = cur[q]
  PROVE  ServedInv'
BY DEF ServedInv, PlatformAt

\* A train that was not called joins the platform it is announced for.
LEMMA HandOverServed ==
  ASSUME TypeInv, YardInv, SocketInv, ServedInv, mpc # "boot",
         NEW t \in Trains, NEW n \in Nat, NEW i \in Index, HandOver(t, n, i),
         ~Called(t), UNCHANGED <<nusfd, ppc, cur>>
  PROVE  ServedInv'
<1> USE DEF HandOver, PlatformAt
<1>1. /\ fdq \in [Platforms -> Seq(Trains)] /\ berth \in [Trains -> Index \cup {NoBerth}]
      /\ \A p \in Platforms : Serving(p) => cur[p] \in Trains /\ cur[p] # t
      /\ \A p \in Platforms : \A j \in DOMAIN fdq[p] : fdq[p][j] \in Trains /\ fdq[p][j] # t
  BY DEF TypeInv, TypeOK, SharedTypes, TrainTypes, Control, Serving, YardInv, PassedInv
<1>2. berth'[t] = i /\ \A u \in Trains : u # t => berth'[u] = berth[u]
  BY <1>1
<1>3. PlatformAt(i) \in Platforms
  BY OneSocketEach
<1>4. ASSUME NEW p \in Platforms
      PROVE  /\ \A j \in DOMAIN fdq'[p] : nusfd[berth'[fdq'[p][j]] + 1] = p
             /\ \A j, k \in DOMAIN fdq'[p] : fdq'[p][j] = fdq'[p][k] => j = k
             /\ Serving(p) => /\ nusfd[berth'[cur[p]] + 1] = p
                              /\ \A j \in DOMAIN fdq'[p] : fdq'[p][j] # cur[p]
  <2>1. CASE p # PlatformAt(i)
    <3>1. fdq'[p] = fdq[p]
      BY <1>1, <2>1
    <3>2. QED  BY <1>1, <1>2, <3>1 DEF ServedInv
  <2>2. CASE p = PlatformAt(i)
    <3>1. fdq'[p] = Append(fdq[p], t)
      BY <1>1, <2>2
    <3>2. /\ Len(fdq[p]) \in Nat /\ DOMAIN fdq[p] = 1 .. Len(fdq[p])
          /\ DOMAIN fdq'[p] = 1 .. Len(fdq[p]) + 1 /\ fdq'[p][Len(fdq[p]) + 1] = t
          /\ \A j \in DOMAIN fdq[p] : fdq'[p][j] = fdq[p][j]
      BY <1>1, <3>1
    <3>3. \A j \in DOMAIN fdq'[p] : j = Len(fdq[p]) + 1 \/ j \in DOMAIN fdq[p]
      BY <3>2
    <3>4. \A j \in DOMAIN fdq'[p] : nusfd[berth'[fdq'[p][j]] + 1] = p
      BY <1>1, <1>2, <2>2, <3>2, <3>3 DEF ServedInv
    <3>5. \A j, k \in DOMAIN fdq'[p] : fdq'[p][j] = fdq'[p][k] => j = k
      BY <1>1, <3>2, <3>3 DEF ServedInv
    <3>6. Serving(p) => /\ nusfd[berth'[cur[p]] + 1] = p
                        /\ \A j \in DOMAIN fdq'[p] : fdq'[p][j] # cur[p]
      BY <1>1, <1>2, <3>2, <3>3 DEF ServedInv
    <3>7. QED  BY <3>4, <3>5, <3>6
  <2>3. QED  BY <2>1, <2>2
<1>5. QED  BY <1>4 DEF ServedInv, Serving

LEMMA PlatformServed ==
  ASSUME TypeInv, SocketInv, ServedInv, NEW p \in Platforms, PlatformStep(p)
  PROVE  ServedInv'
<1> USE DEF platformVars, mainVars, queueVars, trainVars, callVars, history
<1>0. /\ ppc \in [Platforms -> PlatformPC] /\ cur \in [Platforms -> Trains \cup {NoTrain}]
      /\ fdq \in [Platforms -> Seq(Trains)]
  BY DEF TypeInv, TypeOK, PlatformTypes, SharedTypes
<1>1. CASE Connect(p)
  <2>1. mpc = "boot"
    BY <1>1, AllConnected DEF Connect, SocketInv
  <2>2. \A q \in Platforms : fdq'[q] = <<>> /\ ~Serving(q)'
    BY <1>0, <1>1, <2>1 DEF Connect, SocketInv, Serving
  <2>3. QED  BY <2>2 DEF ServedInv
<1>2. CASE Take(p)
  <2> USE <1>2 DEF Take
  <2>1. /\ cur'[p] = fdq[p][1] /\ fdq'[p] = Tail(fdq[p]) /\ UNCHANGED <<nusfd, berth>>
        /\ \A q \in Platforms : q # p => /\ cur'[q] = cur[q] /\ fdq'[q] = fdq[q]
                                         /\ (Serving(q)' <=> Serving(q))
    BY <1>0 DEF Serving
  <2>2. /\ 1 \in DOMAIN fdq[p]
        /\ \A j \in DOMAIN fdq'[p] : /\ j + 1 \in DOMAIN fdq[p] /\ j + 1 # 1 /\ j \in Nat
                                     /\ fdq'[p][j] = fdq[p][j + 1]
    BY <1>0, <2>1
  <2>3. \A q \in Platforms : q # p =>
          /\ \A j \in DOMAIN fdq'[q] : PlatformAt(berth[fdq'[q][j]]) = q
          /\ \A j, k \in DOMAIN fdq'[q] : fdq'[q][j] = fdq'[q][k] => j = k
          /\ Serving(q)' => /\ PlatformAt(berth[cur'[q]]) = q
                            /\ \A j \in DOMAIN fdq'[q] : fdq'[q][j] # cur'[q]
    BY <2>1 DEF ServedInv
  <2>4. \A j \in DOMAIN fdq'[p] : PlatformAt(berth[fdq'[p][j]]) = p
    BY <2>2 DEF ServedInv
  <2>5. \A j, k \in DOMAIN fdq'[p] : fdq'[p][j] = fdq'[p][k] => j = k
    <3> SUFFICES ASSUME NEW j \in DOMAIN fdq'[p], NEW k \in DOMAIN fdq'[p],
                        fdq'[p][j] = fdq'[p][k]
                 PROVE  j = k
      OBVIOUS
    <3>1. j \in Nat /\ k \in Nat
      BY <2>2
    <3>2. fdq[p][j + 1] = fdq[p][k + 1] /\ j + 1 \in DOMAIN fdq[p] /\ k + 1 \in DOMAIN fdq[p]
      BY <2>2
    <3>3. j + 1 = k + 1
      BY <3>2 DEF ServedInv
    <3>4. QED  BY <3>1, <3>3
  <2>6. PlatformAt(berth[cur'[p]]) = p /\ \A j \in DOMAIN fdq'[p] : fdq'[p][j] # cur'[p]
    BY <2>1, <2>2 DEF ServedInv
  <2>7. PlatformAt(berth)' = PlatformAt(berth)
    BY <2>1 DEF PlatformAt
  <2>8. QED  BY <2>1, <2>3, <2>4, <2>5, <2>6 DEF ServedInv, PlatformAt
<1>3. CASE ~Connect(p) /\ ~Take(p)
  <2>1. UNCHANGED <<nusfd, fdq, berth, cur>>
    BY <1>3 DEF PlatformStep, ClaimScan, ClaimWrite, ReadPid, Greet, Free, Signal
  <2>2. \A q \in Platforms : Serving(q)' => Serving(q)
    BY <1>0, <1>3 DEF PlatformStep, ClaimScan, ClaimWrite, ReadPid, Greet, Free, Signal, Serving
  <2>3. QED  BY <2>1, <2>2, ServedKept
<1>4. QED  BY <1>1, <1>2, <1>3

LEMMA ServedStep == TypeInv /\ YardInv /\ SocketInv /\ ServedInv /\ [Next]_vars => ServedInv'
<1> SUFFICES ASSUME TypeInv, YardInv, SocketInv, ServedInv, [Next]_vars PROVE ServedInv'
  OBVIOUS
<1> USE DEF platformVars, mainVars, queueVars, trainVars, callVars, history
<1>1. CASE UNCHANGED vars
  BY <1>1, ServedKept DEF vars, Serving
<1>2. CASE MainStep
  <2>1. CASE Dispatch
    <3>1. nsfd \in Trains /\ ~Called(nsfd) /\ mi \in Index /\ train_no \in Nat
      BY <2>1 DEF Dispatch, TypeInv, Control, InHand, TypeOK, MasterTypes, YardInv, HandInv
    <3>2. UNCHANGED <<nusfd, ppc, cur>> /\ mpc # "boot"
      BY <2>1 DEF Dispatch
    <3>3. CASE HandOver(nsfd, train_no, mi)
      BY <3>1, <3>2, <3>3, HandOverServed
    <3>4. CASE DieInHandOver(nsfd)
      BY <3>2, <3>4, ServedKept DEF DieInHandOver, Serving
    <3>5. QED  BY <2>1, <3>3, <3>4 DEF Dispatch
  <2>2. CASE Publish \/ Accept \/ Scan \/ Claim \/ Slot \/ Count
    <3>1. UNCHANGED <<nusfd, fdq, berth, ppc, cur>>
      BY <2>2 DEF Publish, Accept, Scan, Claim, Slot, Count
    <3>2. QED  BY <3>1, ServedKept DEF Serving
  <2>3. QED  BY <1>2, <2>1, <2>2 DEF MainStep
<1>3. CASE HandlerStep
  <2>1. CASE HandlerDispatch
    <3>1. PICK t, n : t = queue[scnt].fd /\ n = queue[scnt].no
      OBVIOUS
    <3>2. /\ scnt \in Waiting /\ t \in Trains /\ n \in Nat /\ hi \in Index
          /\ mpc # "boot" /\ UNCHANGED <<nusfd, ppc, cur>>
      BY <2>1, <3>1, RailAssumption
      DEF HandlerDispatch, TypeInv, Control, TypeOK, QueueTypes, Waiting
    <3>3. ~Called(t)
      BY <3>1, <3>2 DEF YardInv, QueueInv
    <3>4. CASE HandOver(t, n, hi)
      BY <3>2, <3>3, <3>4, HandOverServed
    <3>5. CASE DieInHandOver(t)
      BY <3>2, <3>5, ServedKept DEF DieInHandOver, Serving
    <3>6. QED  BY <2>1, <3>1, <3>4, <3>5 DEF HandlerDispatch
  <2>2. CASE HandlerEnter \/ HandlerScan
    <3>1. UNCHANGED <<nusfd, fdq, berth, ppc, cur>>
      BY <2>2 DEF HandlerEnter, HandlerScan
    <3>2. QED  BY <3>1, ServedKept DEF Serving
  <2>3. QED  BY <1>3, <2>1, <2>2 DEF HandlerStep
<1>4. ASSUME NEW t \in Trains, TrainStep(t) \/ Arrive(t) \/ Quit(t) PROVE ServedInv'
  <2>1. UNCHANGED <<nusfd, fdq, berth, ppc, cur>>
    BY <1>4 DEF TrainStep, GetNumber, Berth, Leave, Arrive, Quit
  <2>2. QED  BY <2>1, ServedKept DEF Serving
<1>5. QED
  BY <1>1, <1>2, <1>3, <1>4, PlatformServed DEF Next

\* The platform that serves a train is the one SM announced and the one the
\* platform says it is, unless the flags were claimed out of order.
THEOREM ServedWhereAnnounced == Spec => []AnnouncedWhereServed
<1>1. TypeInv /\ YardInv /\ SocketInv /\ SlotInv /\ ServedInv => AnnouncedWhereServed
  <2> SUFFICES ASSUME TypeInv, YardInv, SocketInv, SlotInv, ServedInv, Aligned,
                      NEW p \in Platforms, Serving(p)
               PROVE  berth[cur[p]] = platform_no[p]
    BY DEF AnnouncedWhereServed, Serving
  <2>1. cur[p] \in Trains /\ Called(cur[p]) /\ Claimed(p) /\ mpc # "boot"
    BY DEF TypeInv, Control, YardInv, PassedInv, Serving, Claimed, SocketInv
  <2>2. berth[cur[p]] \in Index /\ platform_no[p] \in Index
    BY <2>1 DEF TypeInv, TypeOK, TrainTypes, Called, SlotInv
  <2>3. PlatformAt(berth[cur[p]]) = p /\ PlatformAt(platform_no[p]) = p
    BY <2>1 DEF ServedInv, Aligned, PlatformAt
  <2>4. QED  BY <2>1, <2>2, <2>3, OneSocketEach
<1>2. QED
  BY <1>1, TypeInit, TypeStep, YardInitInv, YardStep, SocketInitInv, SocketStep,
     SlotInitInv, SlotStep, ServedInitInv, ServedStep, PTL DEF Spec

-----------------------------------------------------------------------------
(* Flags.  While the platforms hold the indices SM knows them by and the    *)
(* handler has not raced main, flag[i] says whether platform i is loaded or *)
(* promised a train.                                                        *)

Promised(i) == mpc = "dispatch" /\ mi = i

FlagOf(p) ==
  /\ Load(p) <= 1
  /\ ~Claimed(p) => Load(p) = 0
  /\ Claimed(p) /\ flag[platform_no[p]] = 0 => Load(p) = 0
  /\ Claimed(p) /\ ppc[p] # "dead" /\ mpc # "dead" /\ flag[platform_no[p]] = 1 =>
       Load(p) > 0 \/ Promised(platform_no[p])

FlagFacts ==
  /\ mpc = "claim" => flag[mi] = 0
  /\ mpc = "dispatch" => flag[mi] = 1 /\ Load(PlatformAt(mi)) = 0
  /\ \A p \in Platforms : FlagOf(p)

FlagInv == Aligned /\ ~raced => FlagFacts

LEMMA FlagInitInv == Init => FlagInv
BY DEF Init, Forked, NobodyCame, ShmInit, FlagInv, FlagFacts, FlagOf, Load, Claimed, Index

\* The holder of a set flag is the platform SM knows by its index.
LEMMA Holder ==
  ASSUME TypeInv, SocketInv, SlotInv, Aligned, NEW i \in Index, flag[i] # -1
  PROVE  /\ PlatformAt(i) \in Platforms
         /\ Claimed(PlatformAt(i)) /\ platform_no[PlatformAt(i)] = i
<1>1. PICK q \in Platforms : Claimed(q) /\ platform_no[q] = i
  BY DEF SlotInv
<1>2. PlatformAt(i) = q
  BY <1>1 DEF Aligned, PlatformAt
<1>3. QED  BY <1>1, <1>2

\* Once all platforms are connected, the indices of SM are fixed.
LEMMA AlignedBefore ==
  ASSUME TypeInv, SocketInv, SlotInv, mpc # "boot", [Next]_vars, (Aligned /\ ~raced)'
  PROVE  Aligned /\ ~raced /\ nusfd' = nusfd
<1> USE DEF platformVars, mainVars, queueVars, trainVars, callVars, history
<1>0. ppc \in [Platforms -> PlatformPC] /\ platform_no \in [Platforms -> 0 .. NP]
  BY DEF TypeInv, TypeOK, PlatformTypes
<1>1. \A p \in Platforms : ppc[p] # "connect"
  BY AllConnected DEF SocketInv
<1>2. nusfd' = nusfd /\ (raced => raced')
  <2>1. CASE UNCHANGED vars
    BY <2>1 DEF vars
  <2>2. ASSUME NEW p \in Platforms, PlatformStep(p) PROVE UNCHANGED <<nusfd, raced>>
    BY <1>1, <2>2 DEF PlatformStep, Connect, ClaimScan, ClaimWrite, ReadPid, Take, Greet, Free,
         Signal
  <2>3. CASE MainStep
    <3>1. UNCHANGED <<nusfd, raced>>
      BY <2>3 DEF MainStep, Publish, Accept, Scan, Claim, Dispatch, Slot, Count
    <3>2. QED  BY <3>1
  <2>4. CASE HandlerEnter \/ HandlerScan
    <3>1. UNCHANGED <<nusfd, raced>>
      BY <2>4 DEF HandlerEnter, HandlerScan
    <3>2. QED  BY <3>1
  <2>5. CASE HandlerDispatch
    BY <2>5 DEF HandlerDispatch
  <2>6. ASSUME NEW t \in Trains, TrainStep(t) \/ Arrive(t) \/ Quit(t)
        PROVE  UNCHANGED <<nusfd, raced>>
    BY <2>6 DEF TrainStep, GetNumber, Berth, Leave, Arrive, Quit
  <2>7. QED
    BY <2>1, <2>2, <2>3, <2>4, <2>5, <2>6 DEF Next, HandlerStep
<1>3. \A q \in Platforms : Claimed(q) => Claimed(q)' /\ platform_no'[q] = platform_no[q]
  <2>1. ASSUME NEW p \in Platforms, PlatformStep(p)
        PROVE  \A q \in Platforms : Claimed(q) => Claimed(q)' /\ platform_no'[q] = platform_no[q]
    <3>1. CASE ClaimScan(p)
      BY <1>0, <3>1 DEF ClaimScan, Claimed
    <3>2. CASE ~ClaimScan(p)
      BY <1>0, <2>1, <3>2 DEF PlatformStep, Connect, ClaimWrite, ReadPid, Take, Greet, Free,
           Signal, Claimed
    <3>3. QED  BY <3>1, <3>2
  <2>2. CASE UNCHANGED <<ppc, platform_no>>
    BY <2>2 DEF Claimed
  <2>3. QED
    BY <2>1, <2>2 DEF Next, vars, MainStep, HandlerStep, TrainStep, Publish, Accept, Scan, Claim,
       Dispatch, Slot, Count, HandlerEnter, HandlerScan, HandlerDispatch, GetNumber, Berth,
       Leave, Arrive, Quit
<1>4. QED  BY <1>2, <1>3 DEF Aligned

LEMMA LoadType == ASSUME TypeInv, NEW p \in Platforms PROVE Load(p) \in Nat /\ Len(fdq[p]) \in Nat
BY DEF TypeInv, TypeOK, SharedTypes, Load

\* Nothing that the flags are compared with changes, except that a platform
\* may die or come to hold a flag it has found set.
LEMMA FlagKept ==
  ASSUME FlagFacts, UNCHANGED <<flag, nusfd, fdq, ppc, platform_no>>,
         mpc' = "claim" => flag[mi'] = 0,
         mpc' = "dispatch" => mpc = "dispatch" /\ mi' = mi,
         mpc = "dispatch" => mpc' = "dispatch",
         mpc = "dead" => mpc' = "dead"
  PROVE  FlagFacts'
BY DEF FlagFacts, FlagOf, Load, Claimed, PlatformAt, Promised

LEMMA PlatformFlag ==
  ASSUME TypeInv, SocketInv, SlotInv, mpc # "boot", FlagFacts, Aligned, Aligned',
         nusfd' = nusfd, NEW p \in Platforms, PlatformStep(p)
  PROVE  FlagFacts'
<1> USE DEF platformVars, mainVars, queueVars, trainVars, callVars, history
<1>0. /\ ppc \in [Platforms -> PlatformPC] /\ platform_no \in [Platforms -> 0 .. NP]
      /\ flag \in [Index -> {-1, 0, 1}] /\ fdq \in [Platforms -> Seq(Trains)]
      /\ \A q \in Platforms : platform_no[q] \in Index /\ Len(fdq[q]) \in Nat
      /\ mpc \in {"claim", "dispatch"} => mi \in Index /\ PlatformAt(mi) \in Platforms
  BY OneSocketEach DEF TypeInv, TypeOK, PlatformTypes, SharedTypes, SlotInv, Control
<1>1. ASSUME UNCHANGED <<flag, mpc, mi, fdq, platform_no>>,
             \A q \in Platforms :
               \/ ppc'[q] = ppc[q]
               \/ ppc'[q] = "dead"
               \/ ppc[q] = "scan" /\ ppc'[q] = "claim"
               \/ ppc[q] = "attach" /\ ppc'[q] = "idle"
               \/ ppc[q] = "recv" /\ ppc'[q] = "stay"
               \/ ppc[q] = "left" /\ ppc'[q] = "idle"
      PROVE  FlagFacts'
  <2>1. ASSUME NEW q \in Platforms PROVE FlagOf(q)' /\ (Load(q) = 0 => Load(q)' = 0)
    <3>1. FlagOf(q)
      BY DEF FlagFacts
    <3>2. CASE ppc'[q] = "dead"
      <4>1. Load(q)' = Len(fdq[q]) /\ Load(q)' <= Load(q) /\ Claimed(q)'
        BY <1>0, <1>1, <3>2 DEF Load, Claimed
      <4>2. Load(q) = 0 => Load(q)' = 0
        BY <1>0, <1>1, <4>1 DEF Load
      <4>3. flag'[platform_no'[q]] = 0 => Load(q) = 0
        BY <1>1, <3>1 DEF FlagOf
      <4>4. QED  BY <1>0, <3>1, <3>2, <4>1, <4>2, <4>3 DEF FlagOf, Load
    <3>3. CASE ppc'[q] # "dead"
      BY <1>1, <3>1, <3>3 DEF FlagOf, Load, Claimed, Promised
    <3>4. QED  BY <3>2, <3>3
  <2>2. QED  BY <1>0, <1>1, <2>1 DEF FlagFacts, PlatformAt
<1>2. CASE Connect(p)
  BY <1>2, AllConnected DEF Connect, SocketInv
<1>3. CASE ClaimScan(p)
  <2> USE <1>3 DEF ClaimScan
  <2>1. CASE ppc' = [ppc EXCEPT ![p] = "claim"] /\ UNCHANGED platform_no
    BY <1>0, <1>1, <2>1
  <2>2. CASE platform_no' = [platform_no EXCEPT ![p] = @ + 1] /\ UNCHANGED ppc
    BY <1>0, <2>2 DEF FlagFacts, FlagOf, Load, Claimed, PlatformAt, Promised
  <2>3. QED  BY <1>0, <2>1, <2>2
<1>4. CASE ClaimWrite(p)
  <2> USE <1>4 DEF ClaimWrite, FreeFlag
  <2> DEFINE i == platform_no[p]
  <2>1. /\ ppc'[p] = "attach" /\ ~Claimed(p) /\ Claimed(p)' /\ i \in Index
        /\ flag'[i] = 0 /\ \A j \in Index : j # i => flag'[j] = flag[j]
        /\ \A q \in Platforms : q # p => ppc'[q] = ppc[q]
        /\ \A q \in Platforms : Load(q)' = Load(q)
    BY <1>0 DEF Claimed, Load
  <2>2. \A q \in Platforms : q # p /\ Claimed(q) => platform_no[q] # i
    BY <2>1 DEF Aligned, Claimed
  <2>3. mpc = "dispatch" => mi # i
    <3>1. mpc = "dispatch" => Claimed(PlatformAt(mi)) /\ platform_no[PlatformAt(mi)] = mi
      BY <1>0, Holder DEF FlagFacts
    <3>2. QED  BY <1>0, <2>1, <2>2, <3>1
  <2>4. FlagOf(p)'
    BY <2>1 DEF FlagFacts, FlagOf
  <2>5. ASSUME NEW q \in Platforms, q # p PROVE FlagOf(q)'
    BY <1>0, <2>1, <2>2, <2>5 DEF FlagFacts, FlagOf, Claimed, Promised
  <2>6. mpc = "claim" => flag'[mi] = 0
    BY <1>0, <2>1 DEF FlagFacts
  <2>7. mpc = "dispatch" => flag'[mi] = 1 /\ Load(PlatformAt(mi))' = 0
    BY <1>0, <2>1, <2>3 DEF FlagFacts, PlatformAt
  <2>8. QED  BY <2>4, <2>5, <2>6, <2>7 DEF FlagFacts
<1>5. CASE ReadPid(p) \/ Greet(p) \/ Signal(p)
  BY <1>0, <1>1, <1>5 DEF ReadPid, Greet, Signal
<1>6. CASE Take(p)
  <2> USE <1>6 DEF Take
  <2>1. \A q \in Platforms : q # p => ppc'[q] = ppc[q] /\ fdq'[q] = fdq[q]
    BY <1>0
  <2>2. Len(fdq'[p]) = Len(fdq[p]) - 1 /\ ppc'[p] = "recv"
    BY <1>0
  <2>3. \A q \in Platforms : Load(q)' = Load(q)
    <3>1. Load(p) = Len(fdq[p]) /\ Load(p)' = Len(fdq[p]) - 1 + 1
      BY <1>0, <2>2 DEF Load
    <3>2. \A q \in Platforms : q # p => Load(q)' = Load(q)
      BY <2>1 DEF Load
    <3>3. QED  BY <1>0, <3>1, <3>2
  <2>4. \A q \in Platforms : FlagOf(q)'
    BY <2>1, <2>2, <2>3 DEF FlagFacts, FlagOf, Claimed, Promised
  <2>5. QED  BY <1>0, <2>3, <2>4 DEF FlagFacts, PlatformAt
<1>7. CASE Free(p)
  <2> USE <1>7 DEF Free, FreeFlag
  <2> DEFINE i == platform_no[p]
  <2>1. /\ ppc'[p] = "left" /\ Claimed(p) /\ Claimed(p)' /\ i \in Index
        /\ flag'[i] = 0 /\ \A j \in Index : j # i => flag'[j] = flag[j]
        /\ \A q \in Platforms : q # p => ppc'[q] = ppc[q] /\ Load(q)' = Load(q)
        /\ Load(p) = Load(p)' + 1
    BY <1>0 DEF Claimed, Load
  <2>2. Load(p) = 1 /\ Load(p)' = 0
    BY <1>0, <2>1 DEF FlagFacts, FlagOf, Load
  <2>3. \A q \in Platforms : q # p /\ Claimed(q) => platform_no[q] # i
    BY <2>1 DEF Aligned
  <2>4. PlatformAt(i) = p
    BY <2>1 DEF Aligned, PlatformAt
  <2>5. mpc = "dispatch" => mi # i
    BY <2>2, <2>4 DEF FlagFacts
  <2>6. FlagOf(p)'
    BY <2>1, <2>2 DEF FlagOf
  <2>7. ASSUME NEW q \in Platforms, q # p PROVE FlagOf(q)'
    BY <1>0, <2>1, <2>3, <2>7 DEF FlagFacts, FlagOf, Claimed, Promised
  <2>8. mpc = "claim" => flag'[mi] = 0
    BY <1>0, <2>1 DEF FlagFacts
  <2>9. mpc = "dispatch" => flag'[mi] = 1 /\ Load(PlatformAt(mi))' = 0
    BY <1>0, <2>1, <2>2, <2>5 DEF FlagFacts, PlatformAt
  <2>10. QED  BY <2>6, <2>7, <2>8, <2>9 DEF FlagFacts
<1>8. QED
  BY <1>2, <1>3, <1>4, <1>5, <1>6, <1>7 DEF PlatformStep

\* A train handed to a platform without one is that platform's load.
LEMMA HandOverFlag ==
  ASSUME TypeInv, SocketInv, SlotInv, mpc # "boot", Aligned, FlagFacts,
         NEW t \in Trains, NEW n \in Nat, NEW i \in Index, HandOver(t, n, i),
         flag[i] # -1, Load(PlatformAt(i)) = 0, flag'[i] = 1,
         \A j \in Index : j # i => flag'[j] = flag[j],
         UNCHANGED <<nusfd, ppc, platform_no, mi>>,
         \/ mpc' = "select" /\ Promised(i)
         \/ mpc' = mpc /\ (mpc \in {"claim", "dispatch"} => mi # i)
  PROVE  FlagFacts'
<1> PICK at \in Platforms : at = PlatformAt(i) /\ at = nusfd'[i + 1]
  BY OneSocketEach DEF PlatformAt
<1>0. /\ fdq \in [Platforms -> Seq(Trains)]
      /\ \A q \in Platforms : platform_no[q] \in Index /\ Len(fdq[q]) \in Nat
      /\ mpc \in {"claim", "dispatch"} => mi \in Index
  BY OneSocketEach DEF TypeInv, TypeOK, SharedTypes, SlotInv, Control
<1>1. Claimed(at) /\ platform_no[at] = i
  BY Holder
<1>2. \A q \in Platforms : q # at /\ Claimed(q) => platform_no[q] # i
  BY <1>0, <1>1 DEF Aligned
<1>3. fdq' = [fdq EXCEPT ![at] = Append(@, t)]
  BY DEF HandOver
<1>4. Load(at)' = 1
  <2>1. Len(fdq'[at]) = Len(fdq[at]) + 1
    BY <1>0, <1>3
  <2>2. Load(at) = Len(fdq[at]) /\ ppc[at] \notin {"recv", "stay"}
    <3>1. Load(at) = 0 /\ Len(fdq[at]) \in Nat
      BY <1>0
    <3>2. ppc[at] \notin {"recv", "stay"}
      <4>1. CASE ppc[at] \in {"recv", "stay"}
        <5>1. Load(at) = Len(fdq[at]) + 1
          BY <4>1 DEF Load
        <5>2. QED  BY <3>1, <5>1
      <4>2. QED  BY <4>1
    <3>3. QED  BY <3>1, <3>2 DEF Load
  <2>3. Load(at)' = Len(fdq'[at])
    BY <1>0, <2>1, <2>2 DEF Load
  <2>4. QED  BY <1>0, <2>1, <2>2, <2>3
<1>5. \A q \in Platforms : q # at => Load(q)' = Load(q)
  BY <1>0, <1>3 DEF Load
<1>6. FlagOf(at)'
  BY <1>1, <1>4 DEF FlagOf, Claimed
<1>7. ASSUME NEW q \in Platforms, q # at PROVE FlagOf(q)'
  <2>1. FlagOf(q)
    BY DEF FlagFacts
  <2>2. Claimed(q) => flag'[platform_no[q]] = flag[platform_no[q]] /\ platform_no[q] # i
    BY <1>0, <1>2, <1>7
  <2>3. QED  BY <1>5, <1>7, <2>1, <2>2 DEF FlagOf, Claimed, Promised
<1>8. mpc' = "claim" => flag'[mi] = 0
  BY <1>0 DEF FlagFacts, Promised
<1>9. mpc' = "dispatch" => flag'[mi] = 1 /\ Load(PlatformAt(mi))' = 0
  <2> HAVE mpc' = "dispatch"
  <2>1. mpc = "dispatch" /\ mi \in Index /\ mi # i
    BY <1>0
  <2>2. PlatformAt(mi) \in Platforms /\ PlatformAt(mi) # at
    BY <2>1, OneSocketEach
  <2>3. QED  BY <1>0, <1>5, <2>1, <2>2 DEF FlagFacts, PlatformAt
<1>10. QED  BY <1>6, <1>7, <1>8, <1>9 DEF FlagFacts

LEMMA MainFlag ==
  ASSUME TypeInv, SocketInv, SlotInv, mpc # "boot", FlagFacts, Aligned, MainStep
  PROVE  FlagFacts'
<1> USE DEF platformVars, mainVars, queueVars, trainVars, callVars, history
<1>0. /\ flag \in [Index -> {-1, 0, 1}] /\ fdq \in [Platforms -> Seq(Trains)]
      /\ \A q \in Platforms : platform_no[q] \in Index
      /\ mpc \in {"claim", "dispatch"} => mi \in Index
  BY DEF TypeInv, TypeOK, SharedTypes, SlotInv, Control
<1>1. CASE Publish
  BY <1>1 DEF Publish
<1>2. CASE Accept \/ Slot \/ Count
  BY <1>2, FlagKept DEF Accept, Slot, Count
<1>3. CASE Scan
  BY <1>3, FlagKept DEF Scan
<1>4. CASE Claim
  <2> USE <1>4 DEF Claim, ClaimFlag
  <2> DEFINE at == PlatformAt(mi)
  <2>1. /\ mi \in Index /\ flag[mi] = 0 /\ flag'[mi] = 1
        /\ \A j \in Index : j # mi => flag'[j] = flag[j]
    BY <1>0 DEF FlagFacts
  <2>2. at \in Platforms /\ Claimed(at) /\ platform_no[at] = mi
    BY <2>1, Holder
  <2>3. Load(at) = 0 /\ Load(PlatformAt(mi))' = 0
    BY <2>1, <2>2 DEF FlagFacts, FlagOf, Load, PlatformAt
  <2>4. \A q \in Platforms : FlagOf(q)'
    <3> TAKE q \in Platforms
    <3>1. FlagOf(q) /\ Load(q)' = Load(q) /\ (Claimed(q)' <=> Claimed(q))
      BY DEF FlagFacts, Load, Claimed
    <3>2. CASE platform_no[q] = mi
      BY <2>1, <3>1, <3>2 DEF FlagOf, Promised
    <3>3. CASE platform_no[q] # mi
      BY <1>0, <2>1, <3>1, <3>3 DEF FlagOf, Promised
    <3>4. QED  BY <3>2, <3>3
  <2>5. QED  BY <2>1, <2>3, <2>4 DEF FlagFacts
<1>5. CASE Dispatch
  <2>1. nsfd \in Trains /\ train_no \in Nat /\ mi \in Index
    BY <1>5 DEF Dispatch, TypeInv, TypeOK, Control, InHand, MasterTypes
  <2>2. UNCHANGED <<flag, nusfd, ppc, platform_no, mi>> /\ mpc = "dispatch"
    BY <1>5 DEF Dispatch
  <2>3. flag[mi] = 1 /\ Load(PlatformAt(mi)) = 0 /\ Promised(mi)
    BY <2>2 DEF FlagFacts, Promised
  <2>4. CASE HandOver(nsfd, train_no, mi) /\ mpc' = "select"
    BY <2>1, <2>2, <2>3, <2>4, HandOverFlag
  <2>5. CASE DieInHandOver(nsfd)
    <3>1. mpc' = "dead" /\ fdq' = fdq
      BY <2>5 DEF DieInHandOver
    <3>2. QED  BY <2>2, <3>1 DEF FlagFacts, FlagOf, Load, Claimed
  <2>6. QED  BY <1>5, <2>4, <2>5 DEF Dispatch
<1>6. QED
  BY <1>1, <1>2, <1>3, <1>4, <1>5 DEF MainStep

LEMMA HandlerFlag ==
  ASSUME TypeInv, SocketInv, SlotInv, mpc # "boot", FlagFacts, Aligned, ~raced', HandlerStep
  PROVE  FlagFacts'
<1> USE DEF platformVars, mainVars, queueVars, trainVars, callVars, history
<1>1. CASE HandlerEnter \/ HandlerScan
  BY <1>1, FlagKept DEF HandlerEnter, HandlerScan, FlagFacts
<1>2. CASE HandlerDispatch
  <2>1. PICK t, n : t = queue[scnt].fd /\ n = queue[scnt].no
    OBVIOUS
  <2>2. t \in Trains /\ n \in Nat /\ hi \in Index
    BY <1>2, <2>1, RailAssumption DEF HandlerDispatch, TypeInv, Control, TypeOK, QueueTypes
  <2>3. UNCHANGED <<nusfd, ppc, platform_no, mi>> /\ flag[hi] = 0 /\ mpc # "dead"
    BY <1>2 DEF HandlerDispatch, TypeInv, Control
  <2>4. /\ flag \in [Index -> {-1, 0, 1}] /\ flag' = [flag EXCEPT ![hi] = 1]
        /\ mpc \in {"claim", "dispatch"} => mi # hi
    <3>1. ~(mpc = "claim" /\ mi = hi)
      BY <1>2, Zenon DEF HandlerDispatch
    <3>2. mpc = "dispatch" => mi # hi
      BY <2>3 DEF FlagFacts
    <3>3. QED
      BY <1>2, <3>1, <3>2 DEF HandlerDispatch, ClaimFlag, TypeInv, TypeOK, SharedTypes
  <2>5. flag'[hi] = 1 /\ \A j \in Index : j # hi => flag'[j] = flag[j]
    BY <2>2, <2>4
  <2>6. /\ PlatformAt(hi) \in Platforms /\ Claimed(PlatformAt(hi))
        /\ platform_no[PlatformAt(hi)] = hi /\ Load(PlatformAt(hi)) = 0
    BY <2>2, <2>3, Holder DEF FlagFacts, FlagOf
  <2>7. CASE HandOver(t, n, hi) /\ mpc' = mpc
    BY <2>2, <2>3, <2>4, <2>5, <2>6, <2>7, HandOverFlag
  <2>8. CASE DieInHandOver(t)
    <3>1. mpc' = "dead" /\ fdq' = fdq
      BY <2>8 DEF DieInHandOver
    <3>2. \A q \in Platforms : platform_no[q] \in Index
      BY DEF SlotInv
    <3>3. \A q \in Platforms : FlagOf(q)'
      BY <2>3, <2>5, <3>1, <3>2 DEF FlagFacts, FlagOf, Load, Claimed
    <3>4. QED  BY <3>1, <3>3 DEF FlagFacts
  <2>9. QED  BY <1>2, <2>1, <2>7, <2>8 DEF HandlerDispatch
<1>3. QED
  BY <1>1, <1>2 DEF HandlerStep

LEMMA FlagStep ==
  /\ TypeInv /\ SocketInv /\ SlotInv /\ FlagInv
  /\ [Next]_vars /\ TypeInv' /\ SocketInv'
  => FlagInv'
<1> SUFFICES ASSUME TypeInv, SocketInv, SlotInv, FlagInv, [Next]_vars, TypeInv', SocketInv',
                    (Aligned /\ ~raced)'
             PROVE  FlagFacts'
  BY DEF FlagInv
<1> USE DEF platformVars, mainVars, queueVars, trainVars, callVars, history
<1>1. CASE mpc' = "boot"
  <2>1. \A p \in Platforms : fdq'[p] = <<>> /\ ppc'[p] \notin {"recv", "stay"}
    BY <1>1 DEF SocketInv
  <2>2. \A p \in Platforms : Load(p)' = 0
    <3>1. \A p \in Platforms : Len(fdq'[p]) = 0
      BY <2>1
    <3>2. \A p \in Platforms : Load(p)' = Len(fdq'[p]) + 0
      BY <2>1 DEF Load
    <3>3. QED  BY <3>1, <3>2
  <2>3. \A p \in Platforms : Claimed(p)' => platform_no'[p] \in 0 .. NP
    BY DEF TypeInv, TypeOK, PlatformTypes
  <2>4. ASSUME NEW p \in Platforms, Claimed(p)', flag'[platform_no'[p]] = 1 PROVE FALSE
    <3>1. platform_no'[p] \in Index
      <4>1. SlotInv'  BY SlotStep
      <4>2. QED  BY <4>1 DEF SlotInv
    <3>2. QED  BY <1>1, <2>4, <3>1 DEF SocketInv
  <2>5. QED  BY <1>1, <2>2, <2>4 DEF FlagFacts, FlagOf
<1>2. CASE mpc' # "boot" /\ mpc = "boot"
  <2>1. Publish
    <3>1. \A p \in Platforms : PlatformStep(p) => mpc' = mpc
      BY DEF PlatformStep, Connect, ClaimScan, ClaimWrite, ReadPid, Take, Greet, Free, Signal
    <3>2. ~HandlerStep
      BY <1>2 DEF HandlerStep, HandlerEnter, HandlerScan, HandlerDispatch, SocketInv
    <3>3. \A t \in Trains : TrainStep(t) \/ Arrive(t) \/ Quit(t) => mpc' = mpc
      BY DEF TrainStep, GetNumber, Berth, Leave, Arrive, Quit
    <3>4. MainStep => Publish
      BY <1>2 DEF MainStep, Accept, Scan, Claim, Dispatch, Slot, Count
    <3>5. QED  BY <1>2, <3>1, <3>2, <3>3, <3>4 DEF Next, vars
  <2>2. UNCHANGED <<flag, fdq, ppc, platform_no>> /\ mpc' = "select"
    BY <2>1 DEF Publish
  <2>3. \A p \in Platforms : Load(p)' = 0
    <3>1. \A p \in Platforms : fdq'[p] = <<>> /\ ppc'[p] \notin {"recv", "stay"}
      BY <1>2, <2>2 DEF SocketInv
    <3>2. \A p \in Platforms : Len(fdq'[p]) = 0
      BY <3>1
    <3>3. \A p \in Platforms : Load(p)' = Len(fdq'[p]) + 0
      BY <3>1 DEF Load
    <3>4. QED  BY <3>2, <3>3
  <2>4. \A p \in Platforms : flag'[platform_no'[p]] # 1
    BY <1>2, <2>2 DEF SocketInv, SlotInv
  <2>5. QED  BY <2>2, <2>3, <2>4 DEF FlagFacts, FlagOf
<1>3. CASE mpc # "boot"
  <2>1. Aligned /\ ~raced /\ FlagFacts /\ nusfd' = nusfd
    BY <1>3, AlignedBefore DEF FlagInv
  <2>2. CASE UNCHANGED vars
    BY <2>1, <2>2, FlagKept DEF vars, FlagFacts
  <2>3. CASE \E t \in Trains : TrainStep(t) \/ Arrive(t) \/ Quit(t)
    <3>1. UNCHANGED <<flag, nusfd, fdq, ppc, platform_no, mpc, mi>>
      BY <2>3 DEF TrainStep, GetNumber, Berth, Leave, Arrive, Quit
    <3>2. QED  BY <2>1, <3>1, FlagKept DEF FlagFacts
  <2>4. QED
    BY <1>3, <2>1, <2>2, <2>3, PlatformFlag, MainFlag, HandlerFlag DEF Next
<1>4. QED  BY <1>1, <1>2, <1>3

LEMMA StationInvariance ==
  Spec => [](TypeInv /\ YardInv /\ SocketInv /\ SlotInv /\ ServedInv /\ FlagInv)
BY TypeInit, TypeStep, YardInitInv, YardStep, SocketInitInv, SocketStep, SlotInitInv, SlotStep,
   ServedInitInv, ServedStep, FlagInitInv, FlagStep, PTL DEF Spec

\* No flag leaks and none is freed early, as long as nobody dies, the flags were
\* claimed in order and the handler did not race main: flag[i] is 1 exactly
\* while platform i has a train or is about to be handed one.
THEOREM FlagsAreTrue == Spec => []FlagTellsTheTruth
<1>1. TypeInv /\ SlotInv /\ FlagInv => FlagTellsTheTruth
  <2> SUFFICES ASSUME TypeInv, SlotInv, FlagInv, Aligned, ~raced, mpc # "dead",
                      NEW p \in Platforms, Claimed(p), ppc[p] # "dead"
               PROVE  flag[platform_no[p]] = 1 <=>
                        Load(p) > 0 \/ (mpc = "dispatch" /\ mi = platform_no[p])
    BY DEF FlagTellsTheTruth
  <2>1. flag[platform_no[p]] \in {0, 1}
    BY DEF SlotInv, TypeInv, TypeOK, SharedTypes
  <2>2. FlagFacts /\ FlagOf(p)
    BY DEF FlagInv, FlagFacts
  <2>3. QED  BY <2>1, <2>2 DEF FlagFacts, FlagOf, Promised
<1>2. QED
  BY <1>1, StationInvariance, PTL

\* A platform has two trains only when the handler took the platform main had
\* read as free, or when the platforms claimed their flags out of order.
THEOREM OverbookingIsARace == Spec => []OverbookedOnlyByRace
<1>1. FlagInv => OverbookedOnlyByRace
  BY DEF FlagInv, FlagFacts, FlagOf, OverbookedOnlyByRace
<1>2. QED
  BY <1>1, StationInvariance, PTL

-----------------------------------------------------------------------------
(* Wake-ups.  When every flag is busy some platform has a train and will    *)
(* signal; a signal is turned into a scan; and a scan finds a free flag if   *)
(* one is left ahead of it.                                                 *)

\* A platform has no pid before it reads flag[NP], and then keeps what it read.
PidInv == \A p \in Platforms : ppc[p] \in {"connect", "scan", "claim", "attach"} => pid[p] = "unread"

Live == mpc # "dead" /\ \A p \in Platforms : ppc[p] # "dead" /\ pid[p] # "stale"

Loaded == \E p \in Platforms : fdq[p] # <<>> \/ ppc[p] \in {"recv", "stay"}

Busy == \E p \in Platforms : fdq[p] # <<>> \/ Serving(p)

Underway == pending \/ Busy \/ mpc \in {"claim", "dispatch"}

\* While all flags are busy somebody has a train.
NotAllIdle == Loaded \/ mpc = "dispatch" \/ \E i \in Index : flag[i] # 1

\* What main's scan has passed, and why it may go on.
ScanSees ==
  /\ mpc \in {"scan", "slot", "count"} /\ ~doubt /\ ~missed =>
       /\ \A k \in 0 .. mi - 1 : flag[k] # -1
       /\ hpc = "scan" \/ Underway \/ \E k \in mi .. NP - 1 : flag[k] # 1
  /\ mpc \in {"slot", "count"} => mi = NP

\* Who waits, waits for something under way.
WaitersHaveHope ==
  /\ ~missed /\ scnt < tcnt => /\ \A i \in Index : flag[i] # -1
                               /\ hpc = "scan" \/ Underway
  /\ hpc = "scan" /\ ~missed => Underway \/ \E k \in hi .. NP - 1 : flag[k] = 0

WakeFacts == NotAllIdle /\ ScanSees /\ WaitersHaveHope

WakeInv == PidInv /\ (Live => WakeFacts)

LEMMA WakeInitInv == Init => WakeInv
<1> SUFFICES ASSUME Init PROVE WakeInv
  OBVIOUS
<1> USE DEF Init, Forked, NobodyCame, ShmInit
<1>1. 0 \in Index /\ flag[0] # 1
  BY RailAssumption DEF Index
<1>2. PidInv
  BY DEF PidInv
<1>3. WakeFacts
  BY <1>1 DEF WakeFacts, NotAllIdle, ScanSees, WaitersHaveHope
<1>4. QED  BY <1>2, <1>3 DEF WakeInv

LEMMA PidStep == TypeInv /\ PidInv /\ [Next]_vars => PidInv' /\ (Live' => Live)
<1> SUFFICES ASSUME TypeInv, PidInv, [Next]_vars PROVE PidInv' /\ (Live' => Live)
  OBVIOUS
<1> USE DEF platformVars, mainVars, queueVars, trainVars, callVars, history
<1>0. /\ ppc \in [Platforms -> PlatformPC]
      /\ pid \in [Platforms -> {"unread", "zero", "stale", "master"}]
  BY DEF TypeInv, TypeOK, PlatformTypes
<1>1. CASE UNCHANGED <<ppc, pid, mpc>>
  BY <1>1 DEF PidInv, Live
<1>2. ASSUME NEW p \in Platforms, PlatformStep(p) PROVE PidInv' /\ (Live' => Live)
  <2>1. CASE ReadPid(p)
    <3>1. /\ pid[p] = "unread" /\ ppc[p] = "attach" /\ ppc'[p] = "idle" /\ mpc' = mpc
          /\ \A q \in Platforms : q # p => pid'[q] = pid[q] /\ ppc'[q] = ppc[q]
      BY <1>0, <2>1 DEF ReadPid, PidInv
    <3>2. QED  BY <3>1 DEF PidInv, Live
  <2>2. CASE Signal(p)
    <3>1. /\ pid' = pid /\ mpc' = mpc /\ ppc[p] = "left"
          /\ \A q \in Platforms : ppc'[q] = ppc[q] \/ ppc'[q] \in {"dead", "idle"}
          /\ \A q \in Platforms : ppc[q] = "dead" => ppc'[q] = "dead"
      BY <1>0, <2>2 DEF Signal
    <3>2. QED  BY <3>1 DEF PidInv, Live
  <2>3. CASE ~ReadPid(p) /\ ~Signal(p)
    <3>1. /\ pid' = pid /\ mpc' = mpc
          /\ \A q \in Platforms : q # p => ppc'[q] = ppc[q]
          /\ ppc[p] # "dead"
          /\ ppc'[p] \in {"connect", "scan", "claim", "attach"} =>
               ppc[p] \in {"connect", "scan", "claim", "attach"}
      BY <1>0, <1>2, <2>3
      DEF PlatformStep, Connect, ClaimScan, ClaimWrite, Take, Greet, Free
    <3>2. QED  BY <3>1 DEF PidInv, Live
  <2>4. QED  BY <2>1, <2>2, <2>3
<1>3. CASE MainStep \/ HandlerStep
  <2>1. UNCHANGED <<ppc, pid>>
    BY <1>3 DEF MainStep, HandlerStep, Publish, Accept, Scan, Claim, Dispatch, Slot, Count,
       HandlerEnter, HandlerScan, HandlerDispatch
  <2>2. mpc # "dead"
    BY <1>3 DEF MainStep, HandlerStep, Publish, Accept, Scan, Claim, Dispatch, Slot, Count,
       HandlerEnter, HandlerScan, HandlerDispatch, TypeInv, Control
  <2>3. QED  BY <2>1, <2>2 DEF PidInv, Live
<1>4. ASSUME NEW t \in Trains, TrainStep(t) \/ Arrive(t) \/ Quit(t)
      PROVE  UNCHANGED <<ppc, pid, mpc>>
  BY <1>4 DEF TrainStep, GetNumber, Berth, Leave, Arrive, Quit
<1>5. QED
  BY <1>1, <1>2, <1>3, <1>4 DEF Next, vars

\* Flags only become free, and nothing that was under way ends.
LEMMA WakeKept ==
  ASSUME TypeInv, WakeFacts, UNCHANGED <<mpc, mi, hpc, hi, scnt, tcnt, doubt, missed>>,
         Loaded => Loaded', Busy => Busy', pending => pending',
         \A i \in Index : flag'[i] = flag[i] \/ flag'[i] = 0
  PROVE  WakeFacts'
<1>0. (mi \in 0 .. NP) /\ (hi \in 0 .. NP)
  BY DEF TypeInv, TypeOK, MasterTypes
<1>1. Underway => Underway'
  BY DEF Underway
<1>2. \A k \in 0 .. NP - 1 : /\ flag[k] # -1 => flag'[k] # -1
                             /\ flag[k] # 1 => flag'[k] # 1
                             /\ flag[k] = 0 => flag'[k] = 0
  BY DEF Index
<1>3. NotAllIdle'
  BY <1>2 DEF WakeFacts, NotAllIdle, Index
<1>4. ScanSees'
  <2>1. /\ (\A k \in 0 .. mi - 1 : flag[k] # -1) => \A k \in 0 .. mi - 1 : flag'[k] # -1
        /\ (\E k \in mi .. NP - 1 : flag[k] # 1) => \E k \in mi .. NP - 1 : flag'[k] # 1
    BY <1>0, <1>2, RailAssumption
  <2>2. QED  BY <1>1, <2>1 DEF WakeFacts, ScanSees
<1>5. WaitersHaveHope'
  <2>1. /\ (\A i \in Index : flag[i] # -1) => \A i \in Index : flag'[i] # -1
        /\ (\E k \in hi .. NP - 1 : flag[k] = 0) => \E k \in hi .. NP - 1 : flag'[k] = 0
    BY <1>0, <1>2, RailAssumption DEF Index
  <2>2. QED  BY <1>1, <2>1 DEF WakeFacts, WaitersHaveHope
<1>6. QED  BY <1>3, <1>4, <1>5 DEF WakeFacts

LEMMA PlatformWake ==
  ASSUME TypeInv, SlotInv, Live, Live', WakeFacts, NEW p \in Platforms, PlatformStep(p)
  PROVE  WakeFacts'
<1> USE DEF platformVars, mainVars, queueVars, trainVars, callVars, history
<1>0. /\ ppc \in [Platforms -> PlatformPC] /\ flag \in [Index -> {-1, 0, 1}]
      /\ fdq \in [Platforms -> Seq(Trains)] /\ platform_no[p] \in Index
  BY DEF TypeInv, TypeOK, PlatformTypes, SharedTypes, SlotInv
<1>1. UNCHANGED <<mpc, mi, hpc, hi, scnt, tcnt, doubt, missed>>
  BY DEF PlatformStep, Connect, ClaimScan, ClaimWrite, ReadPid, Take, Greet, Free, Signal
<1>2. \A i \in Index : flag'[i] = flag[i] \/ flag'[i] = 0
  BY <1>0 DEF PlatformStep, Connect, ClaimScan, ClaimWrite, ReadPid, Take, Greet, Free, Signal,
       FreeFlag
<1>3. CASE Connect(p) \/ ClaimScan(p) \/ ClaimWrite(p) \/ ReadPid(p)
  <2>1. pending' = pending /\ fdq' = fdq
    BY <1>3 DEF Connect, ClaimScan, ClaimWrite, ReadPid
  <2>2. \A q \in Platforms : Serving(q) => ppc'[q] = ppc[q]
    BY <1>0, <1>3 DEF Connect, ClaimScan, ClaimWrite, ReadPid, Serving
  <2>3. (Loaded => Loaded') /\ (Busy => Busy')
    BY <2>1, <2>2 DEF Loaded, Busy, Serving
  <2>4. QED  BY <1>1, <1>2, <2>1, <2>3, WakeKept
<1>4. CASE Take(p) \/ Greet(p)
  <2>1. pending' = pending /\ ppc'[p] # "dead"
    BY <1>4 DEF Take, Greet, Live
  <2>2. ppc'[p] \in {"recv", "stay"}
    BY <1>0, <1>4, <2>1 DEF Take, Greet
  <2>3. Loaded' /\ Busy'
    BY <2>2 DEF Loaded, Busy, Serving
  <2>4. QED  BY <1>1, <1>2, <2>1, <2>3, WakeKept
<1>5. CASE Free(p)
  <2>1. /\ ppc'[p] = "left" /\ UNCHANGED <<pending, fdq, mpc, mi, hpc, hi, scnt, tcnt, doubt, missed>>
        /\ flag'[platform_no[p]] = 0
    BY <1>0, <1>5 DEF Free, FreeFlag
  <2>2. Busy'
    BY <2>1 DEF Busy, Serving
  <2>3. NotAllIdle'
    BY <1>0, <2>1 DEF NotAllIdle
  <2>4. Underway'
    BY <2>2 DEF Underway
  <2>5. \A k \in 0 .. NP - 1 : flag[k] # -1 => flag'[k] # -1
    BY <1>2 DEF Index
  <2>6. (mi \in 0 .. NP)
    BY DEF TypeInv, TypeOK, MasterTypes
  <2>7. (\A k \in 0 .. mi - 1 : flag[k] # -1) => \A k \in 0 .. mi - 1 : flag'[k] # -1
    BY <2>5, <2>6, RailAssumption
  <2>8. ScanSees'
    BY <1>1, <2>4, <2>7 DEF WakeFacts, ScanSees
  <2>9. WaitersHaveHope'
    BY <1>1, <2>4, <2>5 DEF WakeFacts, WaitersHaveHope, Index
  <2>10. QED  BY <2>3, <2>8, <2>9 DEF WakeFacts
<1>6. CASE Signal(p)
  <2>1. conn[cur[p]] # "broken" /\ pid[p] # "zero"
    BY <1>0, <1>6 DEF Signal, Live
  <2>2. /\ ppc' = [ppc EXCEPT ![p] = "idle"] /\ Wake(p) /\ ppc[p] = "left"
        /\ UNCHANGED <<fdq, flag>>
    BY <1>6, <2>1 DEF Signal
  <2>3. pending'
    BY <2>2 DEF Wake, Live
  <2>4. Loaded => Loaded'
    BY <1>0, <2>2 DEF Loaded
  <2>5. Underway'
    BY <2>3 DEF Underway
  <2>6. NotAllIdle'
    BY <1>1, <2>2, <2>4 DEF WakeFacts, NotAllIdle
  <2>7. ScanSees'
    BY <1>1, <2>2, <2>5 DEF WakeFacts, ScanSees
  <2>8. WaitersHaveHope'
    BY <1>1, <2>2, <2>5 DEF WakeFacts, WaitersHaveHope
  <2>9. QED  BY <2>6, <2>7, <2>8 DEF WakeFacts
<1>7. QED
  BY <1>3, <1>4, <1>5, <1>6 DEF PlatformStep

\* A train handed over is somebody's load, and no flag is unset by it.
LEMMA HandOverWake ==
  ASSUME TypeInv, SocketInv, WakeFacts, mpc # "boot", NEW t \in Trains, NEW n \in Nat,
         NEW i \in Index, HandOver(t, n, i), UNCHANGED <<mi, tcnt, doubt, missed>>,
         scnt' \in {scnt, scnt + 1}, mpc' \in {mpc, "select"},
         \A j \in Index : flag[j] # -1 => flag'[j] # -1
  PROVE  WakeFacts'
<1>0. fdq \in [Platforms -> Seq(Trains)] /\ scnt \in Nat /\ tcnt \in Nat /\ mi \in 0 .. NP
  BY RailAssumption DEF TypeInv, TypeOK, SharedTypes, QueueTypes, MasterTypes
<1>1. PICK at \in Platforms : at = PlatformAt(i)
  BY OneSocketEach
<1>2. fdq'[at] # <<>>
  <2>1. fdq'[at] = Append(fdq[at], t) /\ fdq[at] \in Seq(Trains)
    BY <1>0, <1>1 DEF HandOver
  <2>2. Len(fdq'[at]) > 0
    BY <2>1
  <2>3. QED  BY <2>2
<1>3. Loaded' /\ Busy' /\ Underway'
  BY <1>2 DEF Loaded, Busy, Underway
<1>4. (\A k \in 0 .. mi - 1 : flag[k] # -1) => \A k \in 0 .. mi - 1 : flag'[k] # -1
  BY <1>0, RailAssumption DEF Index
<1>5. NotAllIdle'  BY <1>3 DEF NotAllIdle
<1>6. ScanSees'
  BY <1>3, <1>4 DEF WakeFacts, ScanSees, Underway
<1>7. WaitersHaveHope'
  BY <1>0, <1>3 DEF WakeFacts, WaitersHaveHope
<1>8. QED  BY <1>5, <1>6, <1>7 DEF WakeFacts

LEMMA MainWake ==
  ASSUME TypeInv, SocketInv, Live', WakeFacts, MainStep
  PROVE  WakeFacts'
<1> USE DEF platformVars, mainVars, queueVars, trainVars, callVars, history
<1>0. /\ flag \in [Index -> {-1, 0, 1}] /\ mi \in 0 .. NP /\ hi \in 0 .. NP
      /\ scnt \in Nat /\ tcnt \in Nat
      /\ hpc \in {"off", "scan"}
  BY RailAssumption DEF TypeInv, TypeOK, SharedTypes, QueueTypes, MasterTypes
<1>1. CASE Publish
  BY <1>1 DEF Publish, WakeFacts, NotAllIdle, Loaded, ScanSees, WaitersHaveHope, Underway, Busy,
     Serving
<1>2. CASE Accept
  <2> USE <1>2 DEF Accept
  <2>1. UNCHANGED <<Loaded, Busy, pending, flag, scnt, tcnt, hpc, missed>>
    BY DEF Loaded, Busy, Serving
  <2>2. NotAllIdle'
    BY <2>1 DEF WakeFacts, NotAllIdle
  <2>3. WaitersHaveHope'
    BY <2>1 DEF WakeFacts, WaitersHaveHope, Underway
  <2>4. Busy \/ \E k \in 0 .. NP - 1 : flag[k] # 1
    BY DEF WakeFacts, NotAllIdle, Loaded, Busy, Serving, Index
  <2>5. ScanSees'
    BY <2>1, <2>4 DEF ScanSees, Underway
  <2>6. QED  BY <2>2, <2>3, <2>5 DEF WakeFacts
<1>3. CASE Scan
  <2> USE <1>3 DEF Scan
  <2>1. UNCHANGED <<Loaded, Busy, pending, flag, scnt, tcnt, hpc, hi, missed>> /\ hpc = "off"
    BY DEF Loaded, Busy, Serving
  <2>2. NotAllIdle'
    BY <2>1 DEF WakeFacts, NotAllIdle
  <2>3. WaitersHaveHope'
    BY <2>1 DEF WakeFacts, WaitersHaveHope, Underway
  <2>4. CASE mpc' = "claim"
    BY <2>2, <2>3, <2>4 DEF WakeFacts, ScanSees
  <2>5. CASE mi \in Index /\ flag[mi] # 0
    <3>1. mi' = mi + 1 /\ mpc' = "scan" /\ (doubt' <=> doubt \/ flag[mi] = -1)
      BY <2>5, Zenon
    <3>2. ASSUME ~doubt', ~missed'
          PROVE  /\ \A k \in 0 .. mi : flag[k] # -1
                 /\ Underway \/ \E k \in mi + 1 .. NP - 1 : flag[k] # 1
      <4>1. ~doubt /\ ~missed /\ flag[mi] # -1
        BY <2>1, <3>1, <3>2
      <4>2. flag[mi] = 1
        BY <1>0, <2>5, <4>1
      <4>3. /\ \A k \in 0 .. mi - 1 : flag[k] # -1
            /\ Underway \/ \E k \in mi .. NP - 1 : flag[k] # 1
        BY <2>1, <4>1 DEF WakeFacts, ScanSees
      <4>4. QED  BY <1>0, <4>1, <4>2, <4>3, RailAssumption
    <3>3. mi' - 1 = mi /\ mi' = mi + 1 /\ flag' = flag
      BY <1>0, <2>1, <3>1
    <3>4. Underway => Underway'
      BY <2>1, <3>1 DEF Underway
    <3>5. ScanSees'
      BY <3>1, <3>2, <3>3, <3>4 DEF ScanSees
    <3>6. QED  BY <2>2, <2>3, <3>5 DEF WakeFacts
  <2>6. CASE mi \notin Index
    <3>1. mi = NP /\ mpc' = "slot" /\ UNCHANGED <<mi, doubt>>
      BY <1>0, <2>6, RailAssumption DEF Index
    <3>2. Underway => Underway'
      BY <2>1 DEF Underway
    <3>3. ScanSees'
      BY <2>1, <3>1, <3>2 DEF WakeFacts, ScanSees
    <3>4. QED  BY <2>2, <2>3, <3>3 DEF WakeFacts
  <2>7. QED  BY <2>4, <2>5, <2>6
<1>4. CASE Claim
  <2> USE <1>4 DEF Claim
  <2>1. mpc' = "dispatch" /\ Underway' /\ UNCHANGED <<scnt, tcnt, missed>>
    BY DEF Underway
  <2>2. \A i \in Index : flag[i] # -1 => flag'[i] # -1
    BY <1>0 DEF ClaimFlag, TypeInv, Control
  <2>3. WaitersHaveHope'
    BY <2>1, <2>2 DEF WakeFacts, WaitersHaveHope
  <2>4. NotAllIdle' /\ ScanSees'
    BY <2>1 DEF NotAllIdle, ScanSees
  <2>5. QED  BY <2>3, <2>4 DEF WakeFacts
<1>5. CASE Dispatch
  <2>1. nsfd \in Trains /\ train_no \in Nat /\ mi \in Index
    BY <1>5 DEF Dispatch, TypeInv, TypeOK, Control, InHand, MasterTypes
  <2>2. mpc' # "dead"
    BY DEF Live
  <2>3. HandOver(nsfd, train_no, mi) /\ mpc' = "select"
    BY <1>5, <2>2 DEF Dispatch, DieInHandOver
  <2>4. UNCHANGED <<mi, scnt, tcnt, doubt, missed, flag>> /\ mpc # "boot"
    BY <1>5 DEF Dispatch
  <2>5. QED  BY <2>1, <2>3, <2>4, HandOverWake
<1>6. CASE Slot
  <2>1. UNCHANGED <<Loaded, Busy, pending, flag, scnt, tcnt, hpc, hi, mi, doubt, missed>>
    BY <1>6 DEF Slot, Loaded, Busy, Serving
  <2>2. mpc = "slot" /\ mpc' = "count"
    BY <1>6 DEF Slot
  <2>3. Underway => Underway'
    BY <2>1, <2>2 DEF Underway
  <2>4. NotAllIdle' /\ WaitersHaveHope'
    BY <2>1, <2>2, <2>3 DEF WakeFacts, NotAllIdle, WaitersHaveHope
  <2>5. ScanSees'
    BY <2>1, <2>2, <2>3 DEF WakeFacts, ScanSees
  <2>6. QED  BY <2>4, <2>5 DEF WakeFacts
<1>7. CASE Count
  <2>1. /\ UNCHANGED <<Loaded, Busy, pending, flag, scnt, hpc, hi, mi, doubt>>
        /\ hpc = "off" /\ mpc = "count" /\ mpc' = "select" /\ tcnt' = tcnt + 1
    BY <1>7 DEF Count, Loaded, Busy, Serving
  <2>2. missed' <=> missed \/ doubt
    BY <1>7, Zenon DEF Count
  <2>3. Underway => Underway'
    BY <2>1 DEF Underway
  <2>4. NotAllIdle' /\ ScanSees'
    BY <2>1 DEF WakeFacts, NotAllIdle, ScanSees
  <2>5. ASSUME ~missed' PROVE (\A i \in Index : flag[i] # -1) /\ Underway
    <3>1. ~doubt /\ ~missed
      BY <2>2, <2>5
    <3>2. /\ \A k \in 0 .. NP - 1 : flag[k] # -1
          /\ Underway \/ \E k \in NP .. NP - 1 : flag[k] # 1
      BY <2>1, <3>1 DEF WakeFacts, ScanSees
    <3>3. QED  BY <3>2, RailAssumption DEF Index
  <2>6. WaitersHaveHope'
    BY <2>1, <2>3, <2>5 DEF WaitersHaveHope
  <2>7. QED  BY <2>4, <2>6 DEF WakeFacts
<1>8. QED
  BY <1>1, <1>2, <1>3, <1>4, <1>5, <1>6, <1>7 DEF MainStep

LEMMA HandlerWake ==
  ASSUME TypeInv, SocketInv, Live', WakeFacts, HandlerStep
  PROVE  WakeFacts'
<1> USE DEF platformVars, mainVars, queueVars, trainVars, callVars, history
<1>0. /\ flag \in [Index -> {-1, 0, 1}] /\ mi \in 0 .. NP /\ hi \in 0 .. NP
      /\ scnt \in Nat /\ tcnt \in Nat
      /\ hpc \in {"off", "scan"}
  BY RailAssumption DEF TypeInv, TypeOK, SharedTypes, QueueTypes, MasterTypes
<1>1. CASE HandlerEnter
  <2>1. /\ UNCHANGED <<Loaded, Busy, flag, mpc, mi, scnt, tcnt, missed>>
        /\ hpc = "off" /\ hi' = 0
    BY <1>1 DEF HandlerEnter, Loaded, Busy, Serving
  <2>2. NotAllIdle'
    BY <2>1 DEF WakeFacts, NotAllIdle
  <2>3. CASE scnt < tcnt
    <3>1. hpc' = "scan" /\ doubt' = doubt
      BY <1>1, <2>3 DEF HandlerEnter
    <3>2. ScanSees'
      BY <2>1, <3>1 DEF WakeFacts, ScanSees
    <3>3. ASSUME ~missed PROVE Busy \/ mpc = "dispatch" \/ \E k \in 0 .. NP - 1 : flag[k] = 0
      <4>1. \A i \in Index : flag[i] # -1
        BY <2>3, <3>3 DEF WakeFacts, WaitersHaveHope
      <4>2. Busy \/ mpc = "dispatch" \/ \E i \in Index : flag[i] # 1
        BY DEF WakeFacts, NotAllIdle, Loaded, Busy, Serving
      <4>3. QED  BY <1>0, <4>1, <4>2 DEF Index
    <3>4. WaitersHaveHope'
      BY <2>1, <3>1, <3>3 DEF WakeFacts, WaitersHaveHope, Underway
    <3>5. QED  BY <2>2, <3>2, <3>4 DEF WakeFacts
  <2>4. CASE ~(scnt < tcnt)
    <3>1. hpc' = "off" /\ doubt'
      BY <1>1, <2>4 DEF HandlerEnter
    <3>2. ScanSees'
      BY <2>1, <3>1 DEF WakeFacts, ScanSees
    <3>3. WaitersHaveHope'
      BY <2>1, <2>4, <3>1 DEF WaitersHaveHope
    <3>4. QED  BY <2>2, <3>2, <3>3 DEF WakeFacts
  <2>5. QED  BY <2>3, <2>4
<1>2. CASE HandlerScan
  <2>1. UNCHANGED <<Loaded, Busy, pending, flag, mpc, mi, scnt, tcnt, doubt, missed>> /\ hpc = "scan"
    BY <1>2 DEF HandlerScan, Loaded, Busy, Serving
  <2>2. NotAllIdle' /\ Underway' = Underway
    BY <2>1 DEF WakeFacts, NotAllIdle, Underway
  <2>3. CASE hi \in Index
    <3>1. hi' = hi + 1 /\ hpc' = hpc /\ flag[hi] # 0
      BY <1>2, <2>3 DEF HandlerScan
    <3>2. (\E k \in hi .. NP - 1 : flag[k] = 0) => \E k \in hi + 1 .. NP - 1 : flag[k] = 0
      BY <1>0, <3>1, RailAssumption
    <3>3. ScanSees'
      BY <2>1, <2>2, <3>1 DEF WakeFacts, ScanSees
    <3>4. WaitersHaveHope'
      BY <2>1, <2>2, <3>1, <3>2 DEF WakeFacts, WaitersHaveHope
    <3>5. QED  BY <2>2, <3>3, <3>4 DEF WakeFacts
  <2>4. CASE hi \notin Index
    <3>1. hi = NP /\ hpc' = "off"
      BY <1>0, <1>2, <2>4, RailAssumption DEF HandlerScan, Index
    <3>2. ~missed => Underway
      BY <2>1, <3>1, RailAssumption DEF WakeFacts, WaitersHaveHope
    <3>3. ScanSees'
      BY <2>1, <2>2, <3>1, <3>2 DEF WakeFacts, ScanSees
    <3>4. WaitersHaveHope'
      BY <2>1, <2>2, <3>1, <3>2 DEF WakeFacts, WaitersHaveHope
    <3>5. QED  BY <2>2, <3>3, <3>4 DEF WakeFacts
  <2>5. QED  BY <2>3, <2>4
<1>3. CASE HandlerDispatch
  <2>1. PICK t, n : t = queue[scnt].fd /\ n = queue[scnt].no
    OBVIOUS
  <2>2. t \in Trains /\ n \in Nat /\ hi \in Index
    BY <1>3, <2>1, RailAssumption DEF HandlerDispatch, TypeInv, Control, TypeOK, QueueTypes
  <2>3. mpc' # "dead" /\ mpc # "boot"
    BY <1>3 DEF Live, HandlerDispatch, TypeInv, Control
  <2>4. HandOver(t, n, hi) /\ Dequeue /\ mpc' = mpc
    BY <1>3, <2>1, <2>3 DEF HandlerDispatch, DieInHandOver
  <2>5. UNCHANGED <<mi, tcnt, doubt, missed>> /\ flag' = [flag EXCEPT ![hi] = 1]
    BY <1>3 DEF HandlerDispatch, ClaimFlag
  <2>6. \A j \in Index : flag[j] # -1 => flag'[j] # -1
    BY <1>0, <2>2, <2>5
  <2>7. scnt' = scnt + 1
    BY <2>4 DEF Dequeue
  <2>8. QED  BY <2>2, <2>3, <2>4, <2>5, <2>6, <2>7, HandOverWake
<1>4. QED
  BY <1>1, <1>2, <1>3 DEF HandlerStep

LEMMA WakeStep ==
  TypeInv /\ SocketInv /\ SlotInv /\ WakeInv /\ [Next]_vars => WakeInv'
<1> SUFFICES ASSUME TypeInv, SocketInv, SlotInv, WakeInv, [Next]_vars, Live'
             PROVE  WakeFacts'
  BY PidStep DEF WakeInv
<1>1. Live /\ WakeFacts
  BY PidStep DEF WakeInv
<1> USE DEF platformVars, mainVars, queueVars, trainVars, callVars, history
<1>2. CASE UNCHANGED vars
  BY <1>1, <1>2 DEF vars, WakeFacts, NotAllIdle, ScanSees, WaitersHaveHope, Loaded, Busy,
     Underway, Serving
<1>3. ASSUME NEW t \in Trains, TrainStep(t) \/ Arrive(t) \/ Quit(t) PROVE WakeFacts'
  <2>1. UNCHANGED <<flag, fdq, ppc, pending, mpc, mi, hpc, hi, scnt, tcnt, doubt, missed>>
    BY <1>3 DEF TrainStep, GetNumber, Berth, Leave, Arrive, Quit
  <2>2. QED
    BY <1>1, <2>1, WakeKept DEF Loaded, Busy, Serving
<1>4. QED
  BY <1>1, <1>2, <1>3, PlatformWake, MainWake, HandlerWake DEF Next

\* A train waits with nobody left to wake the station master only if main
\* queued it on a scan that was already out of date, or somebody died or has a
\* stale pid of the station master.
THEOREM WaitingIsWoken == Spec => []StrandedOnlyByMissedWakeup
<1>1. TypeInv /\ YardInv /\ WakeInv => StrandedOnlyByMissedWakeup
  <2> SUFFICES ASSUME TypeInv, YardInv, WakeInv, scnt # tcnt, ~missed, Live, hpc = "off"
               PROVE  Underway
    BY DEF StrandedOnlyByMissedWakeup, Live, Underway, Busy, Serving
  <2>1. scnt < tcnt
    BY DEF YardInv, TypeInv, TypeOK, QueueTypes
  <2>2. QED  BY <2>1 DEF WakeInv, WakeFacts, WaitersHaveHope
<1>2. QED
  BY <1>1, StationInvariance, WakeInitInv, WakeStep, PTL DEF Spec

-----------------------------------------------------------------------------
(* Deaths.  Without a killed train and a pid 0, the station never sends to a *)
(* train that has gone: the train it serves has received at most what it    *)
(* was sent, and needs three messages to leave.                             *)

Cause == \/ \E t \in Trains : tpc[t] = "quit"
         \/ \E p \in Platforms : pid[p] = "zero"

\* How many messages a train has received, and how many it was sent.
Stage(t) == CASE tpc[t] = "ready" -> 1 [] tpc[t] = "berthed" -> 2 [] tpc[t] = "gone" -> 3
              [] OTHER -> 0

Sent == [t \in Trains |-> Stage(t) + unread[t]]

Alive ==
  /\ mpc # "dead"
  /\ \A t \in Trains : conn[t] # "open" => tpc[t] = "gone"
  /\ \A p \in Platforms :
       /\ ppc[p] # "dead"
       /\ \A j \in DOMAIN fdq[p] : Sent[fdq[p][j]] <= 1
       /\ ppc[p] = "recv" => Sent[cur[p]] <= 1
       /\ ppc[p] \in {"stay", "left"} => Sent[cur[p]] <= 2

CauseInv == Cause \/ Alive

LEMMA CauseInitInv == Init => CauseInv
BY DEF Init, Forked, NobodyCame, CauseInv, Alive

LEMMA SentType == ASSUME TypeInv, NEW t \in Trains PROVE Sent[t] \in Nat /\ Stage(t) \in 0 .. 3
<1>1. Stage(t) \in 0 .. 3
  BY DEF Stage
<1>2. unread[t] \in Nat
  BY DEF TypeInv, TypeOK, TrainTypes
<1>3. QED  BY <1>1, <1>2 DEF Sent

\* A train that may still be sent two messages, or has not come, is not gone.
LEMMA NotGone ==
  ASSUME TypeInv, Alive, NEW t \in Trains, Sent[t] <= 2
  PROVE  tpc[t] # "gone" /\ conn[t] = "open"
<1>1. unread[t] \in Nat
  BY DEF TypeInv, TypeOK, TrainTypes
<1>2. tpc[t] = "gone" => Stage(t) = 3
  BY DEF Stage
<1>3. tpc[t] # "gone"
  BY <1>1, <1>2 DEF Sent
<1>4. QED  BY <1>3 DEF Alive

\* A send to an open connection counts for its train alone.
LEMMA SendSent ==
  ASSUME TypeInv, NEW t \in Trains, Send(t), conn[t] = "open"
  PROVE  /\ conn' = conn /\ tpc' = tpc
         /\ Sent'[t] = Sent[t] + 1
         /\ \A u \in Trains : u # t => Sent'[u] = Sent[u]
<1>1. /\ tpc' = tpc /\ conn' = conn /\ unread' = [unread EXCEPT ![t] = @ + 1]
      /\ unread \in [Trains -> Nat]
  BY DEF Send, TypeInv, TypeOK, TrainTypes
<1>2. \A u \in Trains : Stage(u)' = Stage(u) /\ Stage(u) \in 0 .. 3
  BY <1>1 DEF Stage
<1>3. unread'[t] = unread[t] + 1 /\ \A u \in Trains : u # t => unread'[u] = unread[u]
  BY <1>1
<1>4. QED  BY <1>1, <1>2, <1>3 DEF Sent

\* What a cause is, it stays.
LEMMA CauseStays ==
  ASSUME TypeInv, PidInv, Cause, [Next]_vars
  PROVE  Cause'
<1> USE DEF platformVars, mainVars, queueVars, trainVars, callVars, history
<1>0. /\ tpc \in [Trains -> TrainPC] /\ pid \in [Platforms -> {"unread", "zero", "stale", "master"}]
  BY DEF TypeInv, TypeOK, TrainTypes, PlatformTypes
<1>1. CASE UNCHANGED <<tpc, pid>>
  BY <1>1 DEF Cause
<1>2. ASSUME NEW p \in Platforms, PlatformStep(p) PROVE Cause'
  <2>1. tpc' = tpc
    BY <1>2 DEF PlatformStep, Connect, ClaimScan, ClaimWrite, ReadPid, Take, Greet, Free, Signal,
       Send
  <2>2. \A q \in Platforms : pid[q] = "zero" => pid'[q] = "zero"
    BY <1>0, <1>2 DEF PlatformStep, Connect, ClaimScan, ClaimWrite, ReadPid, Take, Greet, Free,
       Signal, PidInv
  <2>3. QED  BY <2>1, <2>2 DEF Cause
<1>3. CASE MainStep \/ HandlerStep
  <2>1. UNCHANGED <<tpc, pid>>
    BY <1>3 DEF MainStep, HandlerStep, Publish, Accept, Scan, Claim, Dispatch, Slot, Count,
       HandlerEnter, HandlerScan, HandlerDispatch, HandOver, DieInHandOver, Send
  <2>2. QED  BY <1>1, <2>1
<1>4. ASSUME NEW t \in Trains, TrainStep(t) \/ Arrive(t) \/ Quit(t) PROVE Cause'
  <2>1. pid' = pid
    BY <1>4 DEF TrainStep, GetNumber, Berth, Leave, Arrive, Quit
  <2>2. \A u \in Trains : tpc[u] = "quit" => tpc'[u] = "quit"
    BY <1>0, <1>4 DEF TrainStep, GetNumber, Berth, Leave, Arrive, Quit, Receive
  <2>3. QED  BY <2>1, <2>2 DEF Cause
<1>5. QED
  BY <1>1, <1>2, <1>3, <1>4 DEF Next, vars

LEMMA PlatformAlive ==
  ASSUME TypeInv, YardInv, SocketInv, ServedInv, Alive, ~Cause, ~Cause',
         NEW p \in Platforms, PlatformStep(p)
  PROVE  Alive'
<1> USE DEF platformVars, mainVars, queueVars, trainVars, callVars, history
<1>0. /\ ppc \in [Platforms -> PlatformPC] /\ cur \in [Platforms -> Trains \cup {NoTrain}]
      /\ fdq \in [Platforms -> Seq(Trains)]
      /\ \A q \in Platforms : \A j \in DOMAIN fdq[q] : fdq[q][j] \in Trains
      /\ \A q \in Platforms : Serving(q) => cur[q] \in Trains
  BY DEF TypeInv, TypeOK, PlatformTypes, SharedTypes, Control, Serving
<1>1. CASE Connect(p) \/ ClaimScan(p) \/ ClaimWrite(p) \/ ReadPid(p) \/ Free(p)
  <2>1. UNCHANGED <<mpc, tpc, conn, unread, fdq, cur>>
    BY <1>1 DEF Connect, ClaimScan, ClaimWrite, ReadPid, Free
  <2>2. \A q \in Platforms : ppc'[q] = ppc[q] \/ (q = p /\ ppc'[p] \in {"scan", "claim", "attach", "idle"})
                             \/ (ppc[q] = "stay" /\ ppc'[q] = "left")
    BY <1>0, <1>1 DEF Connect, ClaimScan, ClaimWrite, ReadPid, Free
  <2>3. Sent' = Sent
    BY <2>1 DEF Sent, Stage
  <2>4. QED  BY <2>1, <2>2, <2>3 DEF Alive
<1>2. CASE Take(p)
  <2> USE <1>2 DEF Take
  <2>1. /\ UNCHANGED <<mpc, tpc, conn, unread>> /\ ppc'[p] = "recv"
        /\ \A q \in Platforms : q # p => ppc'[q] = ppc[q] /\ fdq'[q] = fdq[q] /\ cur'[q] = cur[q]
    BY <1>0
  <2>2. cur'[p] = fdq[p][1] /\ 1 \in DOMAIN fdq[p]
    BY <1>0
  <2>3. \A j \in DOMAIN fdq'[p] : j + 1 \in DOMAIN fdq[p] /\ fdq'[p][j] = fdq[p][j + 1]
    BY <1>0
  <2>4. Sent' = Sent
    BY <2>1 DEF Sent, Stage
  <2>5. Sent[cur'[p]] <= 1 /\ \A j \in DOMAIN fdq'[p] : Sent[fdq'[p][j]] <= 1
    BY <2>2, <2>3 DEF Alive
  <2>6. \A q \in Platforms :
          /\ ppc'[q] # "dead"
          /\ \A j \in DOMAIN fdq'[q] : Sent[fdq'[q][j]] <= 1
          /\ ppc'[q] = "recv" => Sent[cur'[q]] <= 1
          /\ ppc'[q] \in {"stay", "left"} => Sent[cur'[q]] <= 2
    BY <2>1, <2>5 DEF Alive
  <2>7. QED  BY <2>1, <2>4, <2>6 DEF Alive
<1>3. ASSUME Serving(p), UNCHANGED <<mpc, fdq, cur>>, Send(cur[p]), Sent[cur[p]] <= 2,
             Sent[cur[p]] <= 1 \/ ppc'[p] = "idle",
             ppc'[p] \in {"stay", "idle"}, \A q \in Platforms : q # p => ppc'[q] = ppc[q]
      PROVE  Alive'
  <2>1. PICK t \in Trains : t = cur[p]
    BY <1>0, <1>3
  <2>2. conn[t] = "open"
    BY <1>3, <2>1, NotGone
  <2>3. /\ conn' = conn /\ tpc' = tpc /\ Sent'[t] = Sent[t] + 1
        /\ \A u \in Trains : u # t => Sent'[u] = Sent[u]
    BY <1>3, <2>1, <2>2, SendSent
  <2>4. \A q \in Platforms : /\ \A j \in DOMAIN fdq[q] : fdq[q][j] # t
                             /\ q # p /\ Serving(q) => cur[q] # t
    BY <1>3, <2>1 DEF ServedInv
  <2>5. Sent[t] \in Nat
    BY SentType
  <2>6. \A q \in Platforms : \A j \in DOMAIN fdq'[q] : Sent'[fdq'[q][j]] <= 1
    BY <1>0, <1>3, <2>3, <2>4 DEF Alive
  <2>7. \A q \in Platforms : q # p =>
          /\ ppc'[q] # "dead"
          /\ ppc'[q] = "recv" => Sent'[cur'[q]] <= 1
          /\ ppc'[q] \in {"stay", "left"} => Sent'[cur'[q]] <= 2
    BY <1>0, <1>3, <2>3, <2>4 DEF Alive, Serving
  <2>8. ppc'[p] # "dead" /\ ppc'[p] # "recv" /\ (ppc'[p] \in {"stay", "left"} => Sent'[cur'[p]] <= 2)
    BY <1>3, <2>1, <2>3, <2>5
  <2>9. QED  BY <1>3, <2>3, <2>6, <2>7, <2>8 DEF Alive
<1>4. CASE Greet(p)
  <2> USE <1>4 DEF Greet
  <2>1. Serving(p) /\ cur[p] \in Trains /\ Sent[cur[p]] <= 1
    BY <1>0 DEF Serving, Alive
  <2>2. Sent[cur[p]] <= 2 /\ conn[cur[p]] = "open"
    BY <2>1, SentType, NotGone
  <2>3. Send(cur[p]) /\ ppc' = [ppc EXCEPT ![p] = "stay"]
    BY <2>2
  <2>4. QED  BY <1>0, <1>3, <2>1, <2>2, <2>3
<1>5. CASE Signal(p)
  <2> USE <1>5 DEF Signal
  <2>1. Serving(p) /\ cur[p] \in Trains /\ Sent[cur[p]] <= 2
    BY <1>0 DEF Serving, Alive
  <2>2. conn[cur[p]] = "open" /\ pid[p] # "zero"
    BY <2>1, NotGone DEF Cause
  <2>3. Send(cur[p]) /\ ppc' = [ppc EXCEPT ![p] = "idle"]
    BY <2>2
  <2>4. QED  BY <1>0, <1>3, <2>1, <2>3
<1>6. QED
  BY <1>1, <1>2, <1>4, <1>5 DEF PlatformStep

\* A train that was not called has been sent nothing, so it is there.
LEMMA UncalledSent ==
  ASSUME TypeInv, YardInv, Alive, ~Cause, NEW t \in Trains, ~Called(t)
  PROVE  Sent[t] = 0 /\ conn[t] = "open"
<1>1. unread[t] = 0 /\ tpc[t] \notin {"ready", "berthed", "gone"}
  BY DEF YardInv, CallInv, Alive
<1>2. Sent[t] = 0
  BY <1>1 DEF Sent, Stage
<1>3. QED  BY <1>1, <1>2 DEF Alive

LEMMA HandOverAlive ==
  ASSUME TypeInv, YardInv, SocketInv, Alive, ~Cause, NEW t \in Trains, NEW n \in Nat,
         NEW i \in Index, HandOver(t, n, i), ~Called(t), mpc # "boot", mpc' # "dead",
         UNCHANGED <<ppc, cur>>
  PROVE  Alive'
<1>0. /\ fdq \in [Platforms -> Seq(Trains)]
      /\ \A p \in Platforms : Serving(p) => cur[p] \in Trains /\ cur[p] # t
      /\ \A p \in Platforms : \A j \in DOMAIN fdq[p] : fdq[p][j] \in Trains /\ fdq[p][j] # t
  BY DEF TypeInv, TypeOK, SharedTypes, Control, Serving, YardInv, PassedInv
<1>1. PICK at \in Platforms : at = PlatformAt(i)
  BY OneSocketEach
<1>2. Sent[t] = 0 /\ conn[t] = "open"
  BY UncalledSent
<1>3. /\ conn' = conn /\ tpc' = tpc /\ Sent'[t] = 0 + 1
      /\ \A u \in Trains : u # t => Sent'[u] = Sent[u]
  BY <1>2, SendSent DEF HandOver
<1>4. \A p \in Platforms : p # at => fdq'[p] = fdq[p]
  BY <1>0, <1>1 DEF HandOver
<1>5. fdq'[at] = Append(fdq[at], t)
  BY <1>0, <1>1 DEF HandOver
<1>6. \A j \in DOMAIN fdq'[at] : fdq'[at][j] = t \/ (j \in DOMAIN fdq[at] /\ fdq'[at][j] = fdq[at][j])
  BY <1>0, <1>5
<1>7. \A j \in DOMAIN fdq'[at] : Sent'[fdq'[at][j]] <= 1
  BY <1>0, <1>3, <1>6 DEF Alive
<1>8. \A p \in Platforms : p # at => \A j \in DOMAIN fdq'[p] : Sent'[fdq'[p][j]] <= 1
  BY <1>0, <1>3, <1>4 DEF Alive
<1>9. \A p \in Platforms : /\ ppc[p] # "dead"
                           /\ ppc[p] = "recv" => Sent'[cur[p]] <= 1
                           /\ ppc[p] \in {"stay", "left"} => Sent'[cur[p]] <= 2
  BY <1>0, <1>3 DEF Alive, Serving
<1>10. QED  BY <1>3, <1>7, <1>8, <1>9 DEF Alive

LEMMA MasterAlive ==
  ASSUME TypeInv, YardInv, SocketInv, Alive, ~Cause, MainStep \/ HandlerStep
  PROVE  Alive'
<1> USE DEF platformVars, mainVars, queueVars, trainVars, callVars, history
<1>1. CASE Publish \/ Accept \/ Scan \/ Claim \/ Slot \/ Count \/ HandlerEnter \/ HandlerScan
  <2>1. UNCHANGED <<tpc, conn, unread, fdq, cur, ppc>> /\ mpc' # "dead"
    BY <1>1 DEF Publish, Accept, Scan, Claim, Slot, Count, HandlerEnter, HandlerScan, Alive
  <2>2. Sent' = Sent
    BY <2>1 DEF Sent, Stage
  <2>3. QED  BY <2>1, <2>2 DEF Alive
<1>2. CASE Dispatch
  <2> USE <1>2 DEF Dispatch
  <2>1. nsfd \in Trains /\ ~Called(nsfd) /\ mi \in Index /\ train_no \in Nat
    BY DEF TypeInv, Control, InHand, TypeOK, MasterTypes, YardInv, HandInv
  <2>2. conn[nsfd] = "open" /\ ppc[PlatformAt(mi)] # "dead"
    BY <2>1, UncalledSent, OneSocketEach DEF Alive
  <2>3. HandOver(nsfd, train_no, mi) /\ mpc' = "select"
    BY <2>2 DEF HandOverKills
  <2>4. QED  BY <2>1, <2>3, HandOverAlive
<1>3. CASE HandlerDispatch
  <2> USE <1>3 DEF HandlerDispatch
  <2>1. PICK t, n : t = queue[scnt].fd /\ n = queue[scnt].no
    OBVIOUS
  <2>2. /\ scnt \in Waiting /\ t \in Trains /\ n \in Nat /\ hi \in Index
        /\ mpc \notin {"boot", "dead"}
    BY <2>1, RailAssumption DEF TypeInv, Control, TypeOK, QueueTypes, Waiting
  <2>3. ~Called(t)
    BY <2>1, <2>2 DEF YardInv, QueueInv
  <2>4. conn[t] = "open" /\ ppc[PlatformAt(hi)] # "dead"
    BY <2>2, <2>3, UncalledSent, OneSocketEach DEF Alive
  <2>5. HandOver(t, n, hi) /\ mpc' = mpc
    BY <2>1, <2>4 DEF HandOverKills
  <2>6. QED  BY <2>2, <2>3, <2>5, HandOverAlive
<1>4. QED
  BY <1>1, <1>2, <1>3 DEF MainStep, HandlerStep

LEMMA TrainAlive ==
  ASSUME TypeInv, Alive, ~Cause', NEW t \in Trains, TrainStep(t) \/ Arrive(t) \/ Quit(t)
  PROVE  Alive'
<1> USE DEF platformVars, mainVars, queueVars, trainVars, callVars, history
<1>0. /\ tpc \in [Trains -> TrainPC] /\ unread \in [Trains -> Nat] /\ conn \in [Trains -> ConnState]
      /\ \A q \in Platforms : \A j \in DOMAIN fdq[q] : fdq[q][j] \in Trains
      /\ \A q \in Platforms : Serving(q) => cur[q] \in Trains
  BY DEF TypeInv, TypeOK, TrainTypes, SharedTypes, Control, Serving
<1>1. ASSUME \A u \in Trains : Sent'[u] <= Sent[u],
             \A u \in Trains : conn'[u] # "open" => tpc'[u] = "gone",
             UNCHANGED <<mpc, ppc, fdq, cur>>
      PROVE  Alive'
  <2>1. \A u \in Trains : Sent'[u] \in Int /\ Sent[u] \in Int
    <3>1. TypeInv'
      BY TrainType
    <3>2. \A u \in Trains : unread'[u] \in Nat
      BY <3>1 DEF TypeInv, TypeOK, TrainTypes
    <3>3. \A u \in Trains : Stage(u)' \in 0 .. 3
      BY DEF Stage
    <3>4. QED  BY <3>2, <3>3, SentType DEF Sent
  <2>2. \A u \in Trains : /\ Sent[u] <= 1 => Sent'[u] <= 1
                          /\ Sent[u] <= 2 => Sent'[u] <= 2
    BY <1>1, <2>1
  <2>3. \A q \in Platforms :
          /\ ppc'[q] # "dead"
          /\ \A j \in DOMAIN fdq'[q] : Sent'[fdq'[q][j]] <= 1
          /\ ppc'[q] = "recv" => Sent'[cur'[q]] <= 1
          /\ ppc'[q] \in {"stay", "left"} => Sent'[cur'[q]] <= 2
    BY <1>0, <1>1, <2>2 DEF Alive, Serving
  <2>4. QED  BY <1>1, <2>3 DEF Alive
<1>2. ASSUME NEW from, NEW to, Receive(t, from, to),
             \/ from = "connected" /\ to = "ready"
             \/ from = "ready" /\ to = "berthed"
             \/ from = "berthed" /\ to = "gone"
      PROVE  \A u \in Trains : Sent'[u] <= Sent[u]
  <2>1. /\ tpc[t] = from /\ tpc'[t] = to /\ unread'[t] = 0 /\ unread[t] \in Nat /\ unread[t] > 0
        /\ \A u \in Trains : u # t => tpc'[u] = tpc[u] /\ unread'[u] = unread[u]
    BY <1>0, <1>2 DEF Receive
  <2>2. Stage(t)' = Stage(t) + 1 /\ Stage(t) \in Int
    BY <1>2, <2>1 DEF Stage
  <2>3. Sent'[t] <= Sent[t]
    BY <2>1, <2>2 DEF Sent
  <2>4. \A u \in Trains : u # t => Sent'[u] = Sent[u]
    BY <2>1 DEF Sent, Stage
  <2>5. QED  BY <2>3, <2>4, SentType
<1>3. CASE GetNumber(t)
  <2>1. \A u \in Trains : Sent'[u] <= Sent[u]
    BY <1>2, <1>3 DEF GetNumber
  <2>2. \A u \in Trains : conn'[u] # "open" => tpc'[u] = "gone"
    BY <1>0, <1>3 DEF GetNumber, Receive, Alive
  <2>3. QED  BY <1>1, <1>3, <2>1, <2>2 DEF GetNumber
<1>4. CASE Berth(t)
  <2>1. \A u \in Trains : Sent'[u] <= Sent[u]
    BY <1>2, <1>4 DEF Berth
  <2>2. \A u \in Trains : conn'[u] # "open" => tpc'[u] = "gone"
    BY <1>0, <1>4 DEF Berth, Receive, Alive
  <2>3. QED  BY <1>1, <1>4, <2>1, <2>2 DEF Berth
<1>5. CASE Leave(t)
  <2>1. \A u \in Trains : Sent'[u] <= Sent[u]
    BY <1>2, <1>5 DEF Leave
  <2>2. \A u \in Trains : conn'[u] # "open" => tpc'[u] = "gone"
    BY <1>0, <1>5 DEF Leave, Receive, Alive
  <2>3. QED  BY <1>1, <1>5, <2>1, <2>2 DEF Leave
<1>6. CASE Arrive(t)
  <2>1. /\ tpc[t] = "away" /\ tpc'[t] = "connected" /\ unread' = unread /\ conn' = conn
        /\ \A u \in Trains : u # t => tpc'[u] = tpc[u]
        /\ UNCHANGED <<mpc, ppc, fdq, cur>>
    BY <1>0, <1>6 DEF Arrive
  <2>2. \A u \in Trains : Sent'[u] = Sent[u]
    BY <2>1 DEF Sent, Stage
  <2>3. \A u \in Trains : Sent'[u] <= Sent[u]
    BY <2>2, SentType
  <2>4. \A u \in Trains : conn'[u] # "open" => tpc'[u] = "gone"
    BY <2>1 DEF Alive
  <2>5. QED  BY <1>1, <2>1, <2>3, <2>4
<1>7. CASE Quit(t)
  <2>1. tpc'[t] = "quit"
    BY <1>0, <1>7 DEF Quit
  <2>2. QED  BY <2>1 DEF Cause
<1>8. QED
  BY <1>3, <1>4, <1>5, <1>6, <1>7 DEF TrainStep

LEMMA CauseStep ==
  TypeInv /\ YardInv /\ SocketInv /\ ServedInv /\ PidInv /\ CauseInv /\ [Next]_vars => CauseInv'
<1> SUFFICES ASSUME TypeInv, YardInv, SocketInv, ServedInv, PidInv, CauseInv, [Next]_vars,
                    ~Cause'
             PROVE  Alive'
  BY DEF CauseInv
<1>1. ~Cause /\ Alive
  BY CauseStays DEF CauseInv
<1>2. CASE UNCHANGED vars
  BY <1>1, <1>2 DEF vars, Alive, Sent, Stage, platformVars, mainVars, trainVars, callVars
<1>3. QED
  BY <1>1, <1>2, PlatformAlive, MasterAlive, TrainAlive DEF Next

\* Neither SM nor a platform dies unless a user kills a train or a platform read
\* flag[3] before SM wrote its pid there.
THEOREM NobodyDiesWithoutCause == Spec => []DeathNeedsACause
<1>1. CauseInv => DeathNeedsACause
  BY DEF CauseInv, Cause, Alive, DeathNeedsACause
<1>2. WakeInv => PidInv
  BY DEF WakeInv
<1>3. QED
  BY <1>1, <1>2, StationInvariance, WakeInitInv, WakeStep, CauseInitInv, CauseStep, PTL DEF Spec

=============================================================================
