-------------------------- MODULE PortStationProofs --------------------------
(***************************************************************************)
(* Proofs about PortStation, for any number of trains and platforms, any   *)
(* queue length, and any number of killed trains and of taken ports.       *)
(***************************************************************************)
EXTENDS PortStation, FiniteSetTheorems, TLAPS

\* Where main and the handler are tells which of their variables are in range.
InHand == mpc \in {"scan", "claim", "answer", "slot", "count"}

Control ==
  /\ InHand => nsfd \in Trains
  /\ mpc \in {"claim", "answer"} => mi \in Index
  /\ mpc = "count" => tcnt < QueueSlots /\ queue[tcnt].fd = nsfd
  /\ hpc = "scan" => scnt < tcnt /\ mpc # "dead"
  /\ \A k \in 0 .. tcnt - 1 : queue[k].fd \in Trains
  /\ \A i \in Index : ppc[i] \in {"stay", "left"} => cur[i] \in Trains

TypeInv == TypeOK /\ Control

-----------------------------------------------------------------------------
(* Where the trains are as long as SM lives.  A train that was not called  *)
(* is in the backlog, in main's hands or in the queue, and in one of them  *)
(* only.                                                                   *)

Waiting == scnt .. tcnt - 1

BacklogInv ==
  \A i \in DOMAIN backlog :
    /\ tpc[backlog[i]] # "away"
    /\ ~Called(backlog[i])
    /\ InHand => backlog[i] # nsfd
    /\ \A j \in DOMAIN backlog : j # i => backlog[j] # backlog[i]
    /\ \A k \in Waiting : queue[k].fd # backlog[i]

HandInv ==
  /\ InHand => /\ tpc[nsfd] # "away"
               /\ ~Called(nsfd)
               /\ \A k \in Waiting : queue[k].fd # nsfd
  /\ mpc = "count" => queue[tcnt].no = train_no

QueueInv ==
  \A k \in Waiting :
    /\ tpc[queue[k].fd] # "away"
    /\ ~Called(queue[k].fd)
    /\ queue[k].no < train_no
    /\ \A j \in Waiting : j # k => /\ queue[j].fd # queue[k].fd
                                   /\ queue[j].no # queue[k].no
    /\ \A t \in Trains : Called(t) => number[t] # queue[k].no

NumberInv == \A t \in Trains : Called(t) => number[t] < train_no

YardInv == mpc # "dead" => BacklogInv /\ HandInv /\ QueueInv /\ NumberInv

-----------------------------------------------------------------------------
(* Where a train is after it was called, whatever happened to SM.           *)

VisitInv ==
  \A t \in Trains :
    /\ tpc[t] = "away" => ~Called(t)
    /\ tpc[t] \in {"told", "berthed", "gone", "refused"} => Called(t)
    /\ left[t] => Called(t) /\ tpc[t] \in {"berthed", "gone", "quit"}
    /\ tpc[t] = "gone" => left[t]
    /\ tpc[t] = "berthed" /\ ~left[t] =>
         t \in AtPlatform(berth[t]) \/ (ppc[berth[t]] = "left" /\ cur[berth[t]] = t)

\* Trains that are at platform i, or on their way to its accept().
Guests(i) == {t \in Trains : berth[t] = i /\ tpc[t] \in {"berthed", "quit"} /\ ~left[t]}

\* A platform has each train once.
Arrivals(i) ==
  /\ \A k \in DOMAIN arrivals[i] : arrivals[i][k] \in Guests(i)
  /\ \A k, l \in DOMAIN arrivals[i] : arrivals[i][k] = arrivals[i][l] => k = l
  /\ ppc[i] \in {"stay", "left"} =>
       /\ cur[i] \in Guests(i)
       /\ \A k \in DOMAIN arrivals[i] : arrivals[i][k] # cur[i]

ArrivalInv == \A i \in Index : Arrivals(i)

-----------------------------------------------------------------------------
(* Flags and wake-ups.                                                      *)

\* Trains that SM sent to platform i, for which the platform has not freed its flag.
Holders(i) == {t \in Trains : berth[t] = i /\ ~left[t] /\ ~(ppc[i] = "left" /\ cur[i] = t)}

\* Main has set flag[i] for the train in its hands.  When the handler's announcement
\* kills SM just then, the flag stays set.
Answering(i) == mpc = "answer" /\ mi = i
Promised(i)  == mpc \in {"answer", "dead"} /\ mi = i

\* A busy flag has a holder even when flags race; a held flag is busy, by one train, when
\* they do not.
FlagInv ==
  /\ \A i \in Index : flag[i] = 1 => Holders(i) # {} \/ Promised(i)
  /\ ~raced =>
       /\ mpc = "claim" => flag[mi] = 0
       /\ \A i \in Index :
            /\ Holders(i) # {} \/ Answering(i) => flag[i] = 1
            /\ ~(Holders(i) # {} /\ Answering(i))
            /\ \A t, u \in Holders(i) : t = u

\* Somebody will wake SM: a train it sent out, a platform about to signal, the signal.
Hope == pending \/ \E i \in Index : Holders(i) # {} \/ ppc[i] = "left"

WakeFacts ==
  /\ (mpc = "scan" /\ mi > 0) \/ mpc \in {"slot", "count"} => doubt \/ hpc = "scan" \/ Hope
  /\ hpc = "scan" /\ hi > 0 => mpc = "answer" \/ Hope
  /\ scnt < tcnt => missed \/ hpc = "scan" \/ mpc \in {"claim", "answer"} \/ Hope

WakeInv == mpc # "dead" => WakeFacts

-----------------------------------------------------------------------------
(* Types *)

LEMMA TypeInit == Init => TypeInv
<1> SUFFICES ASSUME Init PROVE TypeInv
  OBVIOUS
<1> USE PortAssumption DEF Init, Index
<1>1. PlatformTypes
  <2>1. <<>> \in Seq(Trains)  OBVIOUS
  <2>2. arrivals \in [Index -> Seq(Trains)]  BY <2>1
  <2>3. flag \in [Index -> {0, 1}] /\ cur \in [Index -> Trains \cup {NoTrain}]  OBVIOUS
  <2>4. ppc \in [Index -> {"start", "accept", "stay", "left", "dead"}]  OBVIOUS
  <2>5. QED  BY <2>2, <2>3, <2>4 DEF PlatformTypes
<1>2. MasterTypes
  <2>1. pending \in BOOLEAN /\ raced \in BOOLEAN  OBVIOUS
  <2>2. doubt \in BOOLEAN /\ missed \in BOOLEAN  OBVIOUS
  <2>3. 0 \in 0 .. NP  OBVIOUS
  <2>4. QED  BY <2>1, <2>2, <2>3 DEF MasterTypes
<1>3. QueueTypes
  <2>1. [fd |-> NoTrain, no |-> 0] \in [fd : Trains \cup {NoTrain}, no : Nat]
    OBVIOUS
  <2>2. QED  BY <2>1 DEF QueueTypes
<1>4. TrainTypes
  <2>1. left \in [Trains -> BOOLEAN]  BY Zenon
  <2>2. tpc \in [Trains -> {"away", "connected", "told", "berthed", "gone", "refused", "quit"}]
    OBVIOUS
  <2>3. berth \in [Trains -> Index \cup {NoBerth}] /\ number \in [Trains -> Nat]
    OBVIOUS
  <2>4. QED  BY <2>1, <2>2, <2>3 DEF TrainTypes
<1>5. Control        BY DEF Control, InHand
<1>6. QED  BY <1>1, <1>2, <1>3, <1>4, <1>5 DEF TypeInv, TypeOK

LEMMA PlatformType ==
  ASSUME TypeInv, NEW i \in Index, PlatformStep(i)
  PROVE  TypeInv'
<1> USE DEF TypeInv, TypeOK, mainVars, handlerVars, queueVars, callVars, history
<1>1. UNCHANGED <<mpc, mi, nsfd, train_no, hpc, hi, queue, scnt, tcnt, backlog, tpc, berth, number,
                  raced, doubt, missed>>
  BY DEF PlatformStep, Listen, AcceptTrain, Free, FreeFlag, Signal
<1>2. QueueTypes'
  BY <1>1 DEF QueueTypes
<1>3. MasterTypes'
  <2>1. pending' \in BOOLEAN
    BY DEF PlatformStep, Listen, AcceptTrain, Free, FreeFlag, Signal, Wake, MasterTypes
  <2>2. QED  BY <1>1, <2>1 DEF MasterTypes
<1>4. TrainTypes'
  <2>1. left' \in [Trains -> BOOLEAN]
    BY DEF PlatformStep, Listen, AcceptTrain, Free, FreeFlag, Signal, TrainTypes
  <2>2. QED  BY <1>1, <2>1 DEF TrainTypes
<1>5. PlatformTypes' /\ \A j \in Index : ppc'[j] \in {"stay", "left"} => cur'[j] \in Trains
  <2>1. CASE Listen(i)
    BY <2>1 DEF Listen, PlatformTypes, Control, platformVars
  <2>2. CASE AcceptTrain(i)
    <3>1. arrivals[i] \in Seq(Trains) /\ arrivals[i] # <<>>
      BY <2>2 DEF AcceptTrain, PlatformTypes
    <3>2. Head(arrivals[i]) \in Trains /\ Tail(arrivals[i]) \in Seq(Trains)
      BY <3>1
    <3>3. QED  BY <2>2, <3>2 DEF AcceptTrain, PlatformTypes, Control
  <2>3. CASE Free(i)
    BY <2>3 DEF Free, FreeFlag, PlatformTypes, Control
  <2>4. CASE Signal(i)
    BY <2>4 DEF Signal, PlatformTypes, Control
  <2>5. QED  BY <2>1, <2>2, <2>3, <2>4 DEF PlatformStep
<1>6. Control'
  BY <1>1, <1>5 DEF Control, InHand
<1>7. QED  BY <1>2, <1>3, <1>4, <1>5, <1>6

LEMMA AnswerType ==
  ASSUME TrainTypes, NEW t \in Trains, NEW n \in Nat, NEW i \in Index, Answer(t, n, i),
         UNCHANGED <<tpc, left>>
  PROVE  TrainTypes'
BY DEF TrainTypes, Answer

LEMMA MainType == ASSUME TypeInv, MainStep PROVE TypeInv'
<1> USE DEF TypeInv, TypeOK, platformVars, mainVars, handlerVars, queueVars, callVars, history
<1>1. UNCHANGED <<ppc, cur, arrivals, hpc, hi, pending, scnt, tpc, left, raced>> /\ hpc = "off"
  BY DEF MainStep, Accept, Scan, Claim, AnswerMain, Slot, Count
<1>2. PlatformTypes'
  <2>1. flag' \in [Index -> {0, 1}]
    BY DEF MainStep, Accept, Scan, Claim, ClaimFlag, AnswerMain, Slot, Count, PlatformTypes
  <2>2. QED  BY <1>1, <2>1 DEF PlatformTypes
<1>3. CASE Accept
  <2> USE <1>3 DEF Accept
  <2>1. Head(backlog) \in Trains /\ Tail(backlog) \in Seq(Trains)
    BY DEF QueueTypes
  <2>2. MasterTypes' /\ QueueTypes' /\ TrainTypes'
    <3>0. 0 \in 0 .. NP
      BY PortAssumption
    <3>1. doubt' \in BOOLEAN
      OBVIOUS
    <3>2. MasterTypes'
      BY <1>1, <2>1, <3>0, <3>1 DEF MasterTypes
    <3>3. QED  BY <1>1, <2>1, <3>2 DEF QueueTypes, TrainTypes
  <2>3. Control'
    BY <1>1, <2>1 DEF Control, InHand
  <2>4. QED  BY <1>2, <2>2, <2>3
<1>4. CASE Scan
  <2> USE <1>4 DEF Scan
  <2>1. MasterTypes'
    BY <1>1, PortAssumption DEF MasterTypes, Index
  <2>2. QueueTypes' /\ TrainTypes'
    BY <1>1 DEF QueueTypes, TrainTypes
  <2>3. Control'
    BY <1>1 DEF Control, InHand
  <2>4. QED  BY <1>2, <2>1, <2>2, <2>3
<1>5. CASE Claim
  <2> USE <1>5 DEF Claim
  <2>1. MasterTypes' /\ QueueTypes' /\ TrainTypes'
    BY <1>1 DEF MasterTypes, QueueTypes, TrainTypes
  <2>2. Control'
    BY <1>1 DEF Control, InHand
  <2>3. QED  BY <1>2, <2>1, <2>2
<1>6. CASE AnswerMain
  <2> USE <1>6 DEF AnswerMain
  <2>1. nsfd \in Trains /\ mi \in Index /\ train_no \in Nat
    BY DEF Control, InHand, MasterTypes
  <2>2. TrainTypes'
    BY <1>1, <2>1, AnswerType
  <2>3. MasterTypes' /\ QueueTypes'
    BY <1>1 DEF MasterTypes, QueueTypes, NextTrainNo
  <2>4. Control'
    BY <1>1 DEF Control, InHand
  <2>5. QED  BY <1>2, <2>2, <2>3, <2>4
<1>7. CASE Slot
  <2> USE <1>7 DEF Slot
  <2>1. nsfd \in Trains /\ train_no \in Nat
    BY DEF Control, InHand, MasterTypes
  <2>2. tcnt \in 0 .. QueueSlots - 1
    BY PortAssumption DEF QueueTypes
  <2>3. [fd |-> nsfd, no |-> train_no] \in [fd : Trains \cup {NoTrain}, no : Nat]
    BY <2>1
  <2>4. queue' \in [0 .. QueueSlots - 1 -> [fd : Trains \cup {NoTrain}, no : Nat]]
    BY <2>3 DEF QueueTypes
  <2>5. MasterTypes' /\ QueueTypes' /\ TrainTypes'
    BY <1>1, <2>4 DEF MasterTypes, QueueTypes, TrainTypes
  <2>6. queue'[tcnt].fd = nsfd /\ \A k \in 0 .. tcnt - 1 : queue'[k] = queue[k]
    BY <2>2, PortAssumption DEF QueueTypes
  <2>7. Control'
    BY <1>1, <2>1, <2>6 DEF Control, InHand
  <2>8. QED  BY <1>2, <2>5, <2>7
<1>8. CASE Count
  <2> USE <1>8 DEF Count
  <2>1. nsfd \in Trains /\ tcnt < QueueSlots /\ queue[tcnt].fd = nsfd
    BY DEF Control, InHand
  <2>2. QueueTypes'
    BY <1>1, <2>1, PortAssumption DEF QueueTypes
  <2>3. MasterTypes' /\ TrainTypes'
    BY <1>1 DEF MasterTypes, TrainTypes, NextTrainNo
  <2>4. \A k \in 0 .. tcnt' - 1 : k \in 0 .. tcnt - 1 \/ k = tcnt
    BY PortAssumption DEF QueueTypes
  <2>5. Control'
    BY <1>1, <2>1, <2>4 DEF Control, InHand
  <2>6. QED  BY <1>2, <2>2, <2>3, <2>5
<1>9. QED  BY <1>3, <1>4, <1>5, <1>6, <1>7, <1>8 DEF MainStep

LEMMA HandlerType == ASSUME TypeInv, HandlerStep PROVE TypeInv'
<1> USE DEF TypeInv, TypeOK, platformVars, mainVars, handlerVars, queueVars, callVars, history
<1>1. UNCHANGED <<ppc, cur, arrivals, mi, nsfd, train_no, queue, tcnt, backlog, tpc, left>>
  BY DEF HandlerStep, HandlerEnter, HandlerScan, HandlerAnswer
<1>2. CASE HandlerEnter
  <2> USE <1>2 DEF HandlerEnter
  <2>1. PlatformTypes' /\ QueueTypes' /\ TrainTypes'
    BY <1>1 DEF PlatformTypes, QueueTypes, TrainTypes
  <2>2. MasterTypes'
    <3>1. pending' \in BOOLEAN  OBVIOUS
    <3>2. doubt' \in BOOLEAN  BY DEF MasterTypes
    <3>3. 0 \in 0 .. NP  BY PortAssumption
    <3>4. hpc' \in {"off", "scan"}  OBVIOUS
    <3>5. QED  BY <1>1, <3>1, <3>2, <3>3, <3>4 DEF MasterTypes
  <2>3. Control'
    BY <1>1 DEF Control, InHand, SomebodyWaits
  <2>4. QED  BY <2>1, <2>2, <2>3
<1>3. CASE HandlerScan
  <2> USE <1>3 DEF HandlerScan
  <2>1. PlatformTypes' /\ QueueTypes' /\ TrainTypes'
    BY <1>1 DEF PlatformTypes, QueueTypes, TrainTypes
  <2>2. MasterTypes'
    BY <1>1, PortAssumption DEF MasterTypes, Index
  <2>3. Control'
    BY <1>1 DEF Control, InHand
  <2>4. QED  BY <2>1, <2>2, <2>3
<1>4. CASE HandlerAnswer
  <2> USE <1>4 DEF HandlerAnswer
  <2>1. /\ scnt \in 0 .. QueueSlots - 1 /\ scnt \in 0 .. tcnt - 1 /\ hi \in Index
        /\ tcnt \in 0 .. QueueSlots
    BY PortAssumption DEF Control, QueueTypes
  <2>2. queue[scnt].fd \in Trains /\ queue[scnt].no \in Nat
    BY <2>1 DEF Control, QueueTypes
  <2>3. TrainTypes'
    BY <1>1, <2>1, <2>2, AnswerType
  <2>4. PlatformTypes'
    BY <1>1 DEF PlatformTypes, ClaimFlag
  <2>5. QueueTypes'
    <3>1. scnt' \in 0 .. tcnt
      BY <2>1, PortAssumption DEF Dequeue
    <3>2. QED  BY <1>1, <3>1 DEF QueueTypes
  <2>6. MasterTypes'
    BY <1>1 DEF MasterTypes
  <2>7. Control'
    BY <1>1 DEF Control, InHand
  <2>8. QED  BY <2>3, <2>4, <2>5, <2>6, <2>7
<1>5. QED  BY <1>2, <1>3, <1>4 DEF HandlerStep

LEMMA TrainType ==
  ASSUME TypeInv, NEW t \in Trains, TrainStep(t) \/ Arrive(t) \/ Quit(t)
  PROVE  TypeInv'
<1> USE DEF TypeInv, TypeOK, platformVars, mainVars, handlerVars, queueVars, callVars, history
<1>1. UNCHANGED <<flag, ppc, cur, mpc, mi, nsfd, train_no, hpc, hi, pending, queue, scnt, tcnt,
                  berth, number, left, raced, doubt, missed>>
  BY DEF TrainStep, GetPort, Reconnect, Join, Leave, Arrive, Quit
<1>2. MasterTypes' /\ Control'
  BY <1>1 DEF MasterTypes, Control, InHand
<1>3. TrainTypes'
  BY <1>1 DEF TrainTypes, TrainStep, GetPort, Reconnect, Join, Leave, Arrive, Quit
<1>4. QueueTypes'
  <2>1. backlog' \in Seq(Trains)
    BY DEF QueueTypes, TrainStep, GetPort, Reconnect, Join, Leave, Arrive, Quit
  <2>2. QED  BY <1>1, <2>1 DEF QueueTypes
<1>5. PlatformTypes'
  <2>1. CASE UNCHANGED arrivals
    BY <1>1, <2>1 DEF PlatformTypes
  <2>2. CASE arrivals' = [arrivals EXCEPT ![berth[t]] = Append(@, t)]
    <3>1. \A i \in Index : Append(arrivals[i], t) \in Seq(Trains)
      BY DEF PlatformTypes
    <3>2. arrivals' \in [Index -> Seq(Trains)]
      BY <2>2, <3>1 DEF PlatformTypes
    <3>3. QED  BY <1>1, <3>2 DEF PlatformTypes
  <2>3. QED  BY <2>1, <2>2 DEF TrainStep, GetPort, Reconnect, Join, Leave, Arrive, Quit
<1>6. QED  BY <1>2, <1>3, <1>4, <1>5

LEMMA TypeStep == TypeInv /\ [Next]_vars => TypeInv'
<1>1. ASSUME TypeInv, UNCHANGED vars PROVE TypeInv'
  BY <1>1 DEF vars, platformVars, mainVars, handlerVars, queueVars, callVars, history, TypeInv, TypeOK,
     PlatformTypes, MasterTypes, QueueTypes, TrainTypes, Control, InHand
<1>2. QED  BY <1>1, PlatformType, MainType, HandlerType, TrainType DEF Next

-----------------------------------------------------------------------------
(* Where the trains are as long as SM lives *)

LEMMA YardInitInv == Init => YardInv
BY PortAssumption DEF Init, YardInv, BacklogInv, HandInv, QueueInv, NumberInv, Waiting, InHand, Called

\* What a step must leave alone to leave YardInv alone.
Quiet ==
  /\ UNCHANGED <<backlog, nsfd, train_no, queue, scnt, tcnt, tpc, berth, number>>
  /\ InHand' => InHand
  /\ mpc' = "count" => mpc = "count"
  /\ mpc' # "dead" => mpc # "dead"

LEMMA QuietStep == YardInv /\ Quiet => YardInv'
<1> SUFFICES ASSUME YardInv, Quiet PROVE YardInv'
  OBVIOUS
<1> USE DEF YardInv, Quiet, Called, Waiting
<1>1. CASE mpc' = "dead"
  BY <1>1
<1>2. CASE mpc' # "dead"
  <2>1. BacklogInv'  BY <1>2 DEF BacklogInv
  <2>2. HandInv'     BY <1>2 DEF HandInv
  <2>3. QueueInv'    BY <1>2 DEF QueueInv
  <2>4. NumberInv'   BY <1>2 DEF NumberInv
  <2>5. QED  BY <2>1, <2>2, <2>3, <2>4
<1>3. QED  BY <1>1, <1>2

LEMMA AnswerCalls ==
  ASSUME TypeInv, NEW t \in Trains, NEW n \in Nat, NEW i \in Index, Answer(t, n, i)
  PROVE  /\ berth'[t] = i /\ berth'[t] # NoBerth /\ number'[t] = n
         /\ \A u \in Trains : u # t => berth'[u] = berth[u] /\ number'[u] = number[u]
<1>1. i # NoBerth
  BY PortAssumption DEF Index
<1>2. QED  BY <1>1 DEF Answer, TypeInv, TypeOK, TrainTypes

LEMMA MainYard == ASSUME TypeInv, YardInv, MainStep PROVE YardInv'
<1> USE DEF platformVars, mainVars, handlerVars, queueVars, callVars, history
<1>1. CASE Accept
  <2> USE <1>1 DEF Accept, Called, Waiting
  <2>1. /\ Len(backlog) \in Nat /\ Len(backlog) > 0
        /\ nsfd' = backlog[1] /\ 1 \in DOMAIN backlog
        /\ \A j \in DOMAIN backlog' : j + 1 \in DOMAIN backlog /\ j + 1 # 1
                                      /\ backlog'[j] = backlog[j + 1]
    BY DEF TypeInv, TypeOK, QueueTypes
  <2>2. \A j, k \in DOMAIN backlog' : j # k => j + 1 # k + 1
    BY DEF TypeInv, TypeOK, QueueTypes
  <2>3. BacklogInv'  BY <2>1, <2>2 DEF YardInv, BacklogInv
  <2>4. HandInv'  BY <2>1 DEF YardInv, BacklogInv, HandInv, InHand
  <2>5. QueueInv' /\ NumberInv'
    BY DEF YardInv, QueueInv, NumberInv
  <2>6. QED  BY <2>3, <2>4, <2>5 DEF YardInv
<1>2. CASE Scan
  BY <1>2, QuietStep DEF Scan, Quiet, InHand
<1>3. CASE Claim
  BY <1>3, QuietStep DEF Claim, Quiet, InHand
<1>4. CASE AnswerMain
  <2> USE <1>4 DEF AnswerMain
  <2>1. nsfd \in Trains /\ mi \in Index /\ train_no \in Nat /\ mpc # "dead"
    BY DEF TypeInv, Control, InHand, TypeOK, MasterTypes
  <2>2. CASE mpc' = "dead"
    BY <2>2 DEF YardInv
  <2>3. CASE NextTrainNo /\ mpc' = "select"
    <3> USE <2>3 DEF YardInv, Waiting, Called
    <3>1. /\ berth'[nsfd] # NoBerth /\ number'[nsfd] = train_no
          /\ \A u \in Trains : u # nsfd => berth'[u] = berth[u] /\ number'[u] = number[u]
      BY <2>1, AnswerCalls
    <3>2. train_no' = train_no + 1
      BY DEF NextTrainNo
    <3>3. \A i \in DOMAIN backlog : backlog[i] \in Trains /\ backlog[i] # nsfd
      BY DEF TypeInv, TypeOK, QueueTypes, BacklogInv, InHand
    <3>4. \A k \in Waiting : /\ queue[k].fd \in Trains /\ queue[k].fd # nsfd
                             /\ queue[k].no \in Nat /\ queue[k].no < train_no
      BY PortAssumption DEF TypeInv, Control, TypeOK, QueueTypes, HandInv, QueueInv, InHand
    <3>5. BacklogInv'  BY <3>1, <3>3 DEF BacklogInv, InHand
    <3>6. HandInv'  BY DEF HandInv, InHand
    <3>7. QueueInv'  BY <2>1, <3>1, <3>2, <3>4 DEF QueueInv
    <3>8. NumberInv'
      BY <2>1, <3>1, <3>2 DEF NumberInv, TypeInv, TypeOK, TrainTypes
    <3>9. QED  BY <3>5, <3>6, <3>7, <3>8
  <2>4. QED  BY <2>2, <2>3
<1>5. CASE Slot
  <2> USE <1>5 DEF Slot, Called, YardInv, Waiting
  <2>1. tcnt \in 0 .. QueueSlots - 1
    BY PortAssumption DEF TypeInv, TypeOK, QueueTypes
  <2>2. /\ \A k \in Waiting : queue'[k] = queue[k]
        /\ queue'[tcnt] = [fd |-> nsfd, no |-> train_no]
    BY <2>1 DEF TypeInv, TypeOK, QueueTypes
  <2>3. BacklogInv'  BY <2>2 DEF BacklogInv, InHand
  <2>4. HandInv'  BY <2>2 DEF HandInv, InHand
  <2>5. QueueInv'  BY <2>2 DEF QueueInv
  <2>6. NumberInv'  BY DEF NumberInv
  <2>7. QED  BY <2>3, <2>4, <2>5, <2>6
<1>6. CASE Count
  <2> USE <1>6 DEF Count, Called, YardInv, Waiting, NextTrainNo
  <2>1. /\ nsfd \in Trains /\ queue[tcnt].fd = nsfd /\ queue[tcnt].no = train_no
        /\ tcnt' = tcnt + 1 /\ train_no' = train_no + 1
        /\ scnt \in Nat /\ tcnt \in Nat /\ train_no \in Nat
    BY PortAssumption DEF TypeInv, Control, InHand, HandInv, TypeOK, QueueTypes, MasterTypes
  <2>2. \A k \in scnt .. tcnt' - 1 : k \in scnt .. tcnt - 1 \/ k = tcnt
    BY <2>1
  <2>3. \A t \in Trains : number[t] \in Nat
    BY DEF TypeInv, TypeOK, TrainTypes
  <2>4. \A k \in scnt .. tcnt - 1 : queue[k].no \in Nat
    BY PortAssumption DEF TypeInv, TypeOK, QueueTypes
  <2>5. BacklogInv'  BY <2>1, <2>2 DEF BacklogInv, InHand
  <2>6. HandInv'  BY DEF HandInv, InHand
  <2>7. QueueInv'
    BY <2>1, <2>2, <2>3, <2>4 DEF QueueInv, HandInv, NumberInv, InHand
  <2>8. NumberInv'  BY <2>1, <2>3 DEF NumberInv
  <2>9. QED  BY <2>5, <2>6, <2>7, <2>8
<1>7. QED
  BY <1>1, <1>2, <1>3, <1>4, <1>5, <1>6 DEF MainStep

LEMMA HandlerYard == ASSUME TypeInv, YardInv, HandlerStep PROVE YardInv'
<1> USE DEF platformVars, mainVars, handlerVars, queueVars, callVars, history
<1>1. CASE HandlerEnter
  BY <1>1, QuietStep DEF HandlerEnter, Quiet, InHand
<1>2. CASE HandlerScan
  BY <1>2, QuietStep DEF HandlerScan, Quiet, InHand
<1>3. CASE HandlerAnswer
  <2> USE <1>3 DEF HandlerAnswer
  <2> PICK t, n : t = queue[scnt].fd /\ n = queue[scnt].no
    OBVIOUS
  <2>1. scnt < tcnt /\ scnt \in Nat /\ tcnt \in Nat /\ mpc # "dead" /\ scnt \in Waiting
    BY PortAssumption DEF TypeInv, Control, TypeOK, QueueTypes, Waiting
  <2>2. t \in Trains /\ n \in Nat /\ hi \in Index
    BY <2>1, PortAssumption DEF TypeInv, Control, TypeOK, QueueTypes
  <2>3. CASE mpc' = "dead"
    BY <2>3 DEF YardInv
  <2>4. CASE Dequeue /\ mpc' = mpc
    <3> USE <2>4 DEF YardInv, Called
    <3>1. /\ berth'[t] # NoBerth /\ number'[t] = n
          /\ \A u \in Trains : u # t => berth'[u] = berth[u] /\ number'[u] = number[u]
      BY <2>2, AnswerCalls
    <3>2. scnt' = scnt + 1 /\ Waiting' \subseteq Waiting /\ scnt \notin Waiting'
      BY <2>1 DEF Dequeue, Waiting
    <3>3. \A k \in Waiting' : /\ queue[k].fd \in Trains /\ queue[k].fd # t
                              /\ queue[k].no # n
      BY <2>1, <3>2 DEF QueueInv, TypeInv, Control, Waiting
    <3>4. \A i \in DOMAIN backlog : backlog[i] \in Trains /\ backlog[i] # t
      BY <2>1 DEF BacklogInv, TypeInv, TypeOK, QueueTypes
    <3>5. InHand => nsfd \in Trains /\ nsfd # t
      BY <2>1 DEF HandInv, TypeInv, Control
    <3>6. n < train_no
      BY <2>1 DEF QueueInv
    <3>7. BacklogInv'  BY <2>1, <3>1, <3>2, <3>4 DEF BacklogInv, InHand
    <3>8. HandInv'  BY <2>1, <3>1, <3>2, <3>5 DEF HandInv, InHand
    <3>9. QueueInv'  BY <2>1, <3>1, <3>2, <3>3 DEF QueueInv
    <3>10. NumberInv'
      BY <2>1, <2>2, <3>1, <3>6 DEF NumberInv, TypeInv, TypeOK, TrainTypes
    <3>11. QED  BY <3>7, <3>8, <3>9, <3>10
  <2>5. QED  BY <2>3, <2>4
<1>4. QED
  BY <1>1, <1>2, <1>3 DEF HandlerStep

LEMMA TrainYardStep ==
  ASSUME TypeInv, YardInv, VisitInv, NEW t \in Trains, TrainStep(t) \/ Arrive(t) \/ Quit(t)
  PROVE  YardInv'
<1> USE DEF platformVars, mainVars, handlerVars, queueVars, callVars, history, Called, Waiting
<1>0. tpc \in [Trains -> {"away", "connected", "told", "berthed", "gone", "refused", "quit"}]
  BY DEF TypeInv, TypeOK, TrainTypes
<1>1. UNCHANGED <<mpc, nsfd, train_no, queue, scnt, tcnt, berth, number>>
  BY DEF TrainStep, GetPort, Reconnect, Join, Leave, Arrive, Quit
<1>2. CASE mpc = "dead"
  BY <1>1, <1>2 DEF YardInv
<1>3. CASE mpc # "dead"
  <2> USE <1>1, <1>3 DEF YardInv
  <2>1. \A u \in Trains : tpc[u] # "away" => tpc'[u] # "away"
    BY <1>0 DEF TrainStep, GetPort, Reconnect, Join, Leave, Arrive, Quit
  <2>2. HandInv'  BY <2>1 DEF HandInv, InHand, TypeInv, Control
  <2>3. QueueInv'
    <3>1. \A k \in Waiting : queue[k].fd \in Trains
      BY PortAssumption DEF TypeInv, Control, TypeOK, QueueTypes
    <3>2. QED  BY <2>1, <3>1 DEF QueueInv
  <2>4. NumberInv'  BY DEF NumberInv
  <2>5. CASE backlog' = backlog
    <3>1. BacklogInv'
      BY <2>1, <2>5 DEF BacklogInv, InHand, TypeInv, TypeOK, QueueTypes
    <3>2. QED  BY <2>2, <2>3, <2>4, <3>1
  <2>6. CASE Arrive(t)
    <3> USE <2>6 DEF Arrive
    <3>1. tpc'[t] = "connected" /\ tpc[t] = "away" /\ ~Called(t)
      BY <1>0 DEF VisitInv
    <3>2. \A i \in DOMAIN backlog : backlog[i] \in Trains /\ backlog[i] # t
      BY <3>1 DEF BacklogInv, TypeInv, TypeOK, QueueTypes
    <3>3. InHand => nsfd \in Trains /\ nsfd # t
      BY <3>1 DEF HandInv, TypeInv, Control
    <3>4. \A k \in Waiting : queue[k].fd \in Trains /\ queue[k].fd # t
      BY <3>1, PortAssumption DEF QueueInv, TypeInv, Control, TypeOK, QueueTypes
    <3>5. /\ Len(backlog) \in Nat /\ DOMAIN backlog = 1 .. Len(backlog)
          /\ DOMAIN backlog' = 1 .. Len(backlog) + 1
          /\ backlog'[Len(backlog) + 1] = t
          /\ \A i \in DOMAIN backlog : backlog'[i] = backlog[i]
      BY DEF TypeInv, TypeOK, QueueTypes
    <3>6. BacklogInv'
      <4> SUFFICES ASSUME NEW i \in DOMAIN backlog'
                   PROVE  /\ tpc'[backlog'[i]] # "away"
                          /\ berth[backlog'[i]] = NoBerth
                          /\ InHand => backlog'[i] # nsfd
                          /\ \A j \in DOMAIN backlog' : j # i => backlog'[j] # backlog'[i]
                          /\ \A k \in Waiting : queue[k].fd # backlog'[i]
        BY DEF BacklogInv, InHand
      <4>1. CASE i \in DOMAIN backlog
        BY <2>1, <3>2, <3>5, <4>1 DEF BacklogInv
      <4>2. CASE i = Len(backlog) + 1
        BY <3>1, <3>2, <3>3, <3>4, <3>5, <4>2
      <4>3. QED  BY <3>5, <4>1, <4>2
    <3>7. QED  BY <2>2, <2>3, <2>4, <3>6
  <2>7. QED
    BY <2>5, <2>6 DEF TrainStep, GetPort, Reconnect, Leave, Quit
<1>4. QED  BY <1>2, <1>3

LEMMA YardStep == TypeInv /\ YardInv /\ VisitInv /\ [Next]_vars => YardInv'
<1> SUFFICES ASSUME TypeInv, YardInv, VisitInv, [Next]_vars PROVE YardInv'
  OBVIOUS
<1> USE DEF platformVars, mainVars, handlerVars, queueVars, callVars, history
<1>1. CASE UNCHANGED vars
  BY <1>1, QuietStep DEF vars, Quiet, InHand
<1>2. ASSUME NEW i \in Index, PlatformStep(i) PROVE YardInv'
  <2>1. UNCHANGED <<mpc, nsfd, train_no, queue, scnt, tcnt, backlog, tpc, berth, number>>
    BY <1>2 DEF PlatformStep, Listen, AcceptTrain, Free, FreeFlag, Signal
  <2>2. QED  BY <2>1, QuietStep DEF Quiet, InHand
<1>3. QED  BY <1>1, <1>2, MainYard, HandlerYard, TrainYardStep DEF Next

-----------------------------------------------------------------------------
(* Where a train is after it was called *)

LEMMA VisitInit == Init => VisitInv /\ ArrivalInv
<1> SUFFICES ASSUME Init PROVE VisitInv /\ ArrivalInv
  OBVIOUS
<1>1. \A t \in Trains : tpc[t] = "away" /\ ~Called(t) /\ ~left[t]
  BY DEF Init, Called
<1>2. \A i \in Index : ppc[i] = "start" /\ arrivals[i] = <<>>
  BY DEF Init
<1>3. QED  BY <1>1, <1>2 DEF VisitInv, ArrivalInv, Arrivals

LEMMA ArrivalsKept ==
  ASSUME TypeInv, NEW i \in Index, Arrivals(i), arrivals'[i] = arrivals[i], cur'[i] = cur[i],
         ppc'[i] \in {"stay", "left"} => ppc[i] \in {"stay", "left"},
         \A t \in Trains : t \in Guests(i) => t \in Guests(i)'
  PROVE  Arrivals(i)'
<1>1. /\ \A k \in DOMAIN arrivals[i] : arrivals[i][k] \in Trains
      /\ ppc[i] \in {"stay", "left"} => cur[i] \in Trains
  BY DEF TypeInv, TypeOK, PlatformTypes, Control
<1>2. \A k \in DOMAIN arrivals'[i] : arrivals'[i][k] \in Guests(i)'
  BY <1>1 DEF Arrivals
<1>3. ppc'[i] \in {"stay", "left"} => cur'[i] \in Guests(i)'
  BY <1>1 DEF Arrivals
<1>4. QED  BY <1>2, <1>3 DEF Arrivals

LEMMA PlatformVisit ==
  ASSUME TypeInv, VisitInv, ArrivalInv, NEW i \in Index, PlatformStep(i)
  PROVE  VisitInv' /\ ArrivalInv'
<1> USE DEF Called
<1>0. /\ ppc \in [Index -> {"start", "accept", "stay", "left", "dead"}]
      /\ cur \in [Index -> Trains \cup {NoTrain}] /\ arrivals \in [Index -> Seq(Trains)]
      /\ left \in [Trains -> BOOLEAN]
      /\ \A t \in Trains : berth[t] # NoBerth => berth[t] \in Index
  BY DEF TypeInv, TypeOK, PlatformTypes, TrainTypes
<1>1. UNCHANGED <<tpc, berth>>
  BY DEF PlatformStep, Listen, AcceptTrain, Free, FreeFlag, Signal, callVars
<1>2. CASE Listen(i)
  <2>1. /\ UNCHANGED <<arrivals, cur, left>> /\ ppc[i] = "start" /\ ppc'[i] \in {"accept", "dead"}
        /\ \A j \in Index : j # i => ppc'[j] = ppc[j]
    BY <1>0, <1>2 DEF Listen, platformVars
  <2>2. \A j \in Index : /\ ppc'[j] = "stay" <=> ppc[j] = "stay"
                         /\ ppc'[j] = "left" <=> ppc[j] = "left"
    BY <2>1
  <2>3. VisitInv'
    BY <1>0, <1>1, <2>1, <2>2 DEF VisitInv, AtPlatform
  <2>4. ArrivalInv'
    BY <1>1, <2>1, <2>2, ArrivalsKept DEF ArrivalInv, Guests
  <2>5. QED  BY <2>3, <2>4
<1>3. CASE AcceptTrain(i)
  <2>1. /\ UNCHANGED left /\ ppc[i] = "accept" /\ ppc'[i] = "stay"
        /\ cur'[i] = arrivals[i][1] /\ Len(arrivals[i]) \in Nat /\ Len(arrivals[i]) > 0
        /\ arrivals'[i] = Tail(arrivals[i])
        /\ \A j \in Index : j # i => ppc'[j] = ppc[j] /\ cur'[j] = cur[j] /\ arrivals'[j] = arrivals[j]
    BY <1>0, <1>3 DEF AcceptTrain
  <2>2. /\ 1 \in DOMAIN arrivals[i]
        /\ \A k \in DOMAIN arrivals'[i] : /\ k + 1 \in DOMAIN arrivals[i] /\ k + 1 # 1
                                          /\ arrivals'[i][k] = arrivals[i][k + 1]
        /\ \A k, l \in DOMAIN arrivals'[i] : k + 1 = l + 1 => k = l
        /\ \A k \in DOMAIN arrivals[i] : k # 1 => k - 1 \in DOMAIN arrivals'[i] /\ (k - 1) + 1 = k
    BY <1>0, <2>1
  <2>3. \A t \in Trains : t \in AtPlatform(i) => t \in AtPlatform(i)'
    <3> SUFFICES ASSUME NEW t \in Trains, t \in AtPlatform(i)
                 PROVE  t \in AtPlatform(i)'
      OBVIOUS
    <3>1. PICK k \in DOMAIN arrivals[i] : arrivals[i][k] = t
      BY <2>1 DEF AtPlatform
    <3>2. CASE k = 1
      BY <2>1, <3>1, <3>2 DEF AtPlatform
    <3>3. CASE k # 1
      BY <2>2, <3>1, <3>3 DEF AtPlatform
    <3>4. QED  BY <3>2, <3>3
  <2>4. \A j \in Index : j # i => AtPlatform(j)' = AtPlatform(j)
    BY <2>1 DEF AtPlatform
  <2>5. VisitInv'
    BY <1>0, <1>1, <2>1, <2>3, <2>4 DEF VisitInv
  <2>6. ArrivalInv'
    <3>1. \A t, j : t \in Guests(j) <=> t \in Guests(j)'
      BY <1>1, <2>1 DEF Guests
    <3>2. /\ \A k \in DOMAIN arrivals[i] : arrivals[i][k] \in Guests(i)
          /\ \A k, l \in DOMAIN arrivals[i] : arrivals[i][k] = arrivals[i][l] => k = l
      BY DEF ArrivalInv, Arrivals
    <3>3. \A k \in DOMAIN arrivals'[i] : arrivals'[i][k] \in Guests(i)' /\ arrivals'[i][k] # cur'[i]
      BY <2>1, <2>2, <3>1, <3>2
    <3>4. \A k, l \in DOMAIN arrivals'[i] : arrivals'[i][k] = arrivals'[i][l] => k = l
      BY <2>2, <3>2
    <3>5. cur'[i] \in Guests(i)'
      BY <2>1, <2>2, <3>1, <3>2
    <3>6. Arrivals(i)'
      BY <3>3, <3>4, <3>5 DEF Arrivals
    <3>7. \A j \in Index : j # i => Arrivals(j)'
      BY <2>1, <3>1, ArrivalsKept DEF ArrivalInv
    <3>8. QED  BY <3>6, <3>7 DEF ArrivalInv
  <2>7. QED  BY <2>5, <2>6
<1>4. CASE Free(i)
  <2>1. /\ UNCHANGED <<arrivals, cur, left>> /\ ppc[i] = "stay" /\ ppc'[i] = "left"
        /\ \A j \in Index : j # i => ppc'[j] = ppc[j]
    BY <1>0, <1>4 DEF Free
  <2>2. \A t \in Trains : t \in AtPlatform(i) => t \in AtPlatform(i)' \/ cur[i] = t
    BY <2>1 DEF AtPlatform
  <2>3. \A j \in Index : j # i => AtPlatform(j)' = AtPlatform(j)
    BY <2>1 DEF AtPlatform
  <2>4. VisitInv'
    BY <1>0, <1>1, <2>1, <2>2, <2>3 DEF VisitInv
  <2>5. ArrivalInv'
    BY <1>1, <2>1, ArrivalsKept DEF ArrivalInv, Guests
  <2>6. QED  BY <2>4, <2>5
<1>5. CASE Signal(i)
  <2>1. PICK c \in Trains : c = cur[i]
    BY <1>5 DEF Signal, TypeInv, Control
  <2>2. /\ UNCHANGED <<arrivals, cur>> /\ ppc[i] = "left" /\ ppc'[i] = "accept" /\ left'[c]
        /\ \A t \in Trains : t # c => left'[t] = left[t]
        /\ \A j \in Index : j # i => ppc'[j] = ppc[j]
    BY <1>0, <1>5, <2>1 DEF Signal
  <2>3. c \in Guests(i) /\ \A k \in DOMAIN arrivals[i] : arrivals[i][k] # c
    BY <2>1, <2>2 DEF ArrivalInv, Arrivals
  <2>4. \A j \in Index : AtPlatform(j)' = AtPlatform(j)
    BY <2>2 DEF AtPlatform
  <2>5. VisitInv'
    <3> SUFFICES ASSUME NEW t \in Trains
                 PROVE  /\ tpc[t] = "away" => ~Called(t)
                        /\ tpc[t] \in {"told", "berthed", "gone", "refused"} => Called(t)
                        /\ left'[t] => Called(t) /\ tpc[t] \in {"berthed", "gone", "quit"}
                        /\ tpc[t] = "gone" => left'[t]
                        /\ tpc[t] = "berthed" /\ ~left'[t] =>
                             t \in AtPlatform(berth[t])'
                             \/ (ppc'[berth[t]] = "left" /\ cur'[berth[t]] = t)
      BY <1>1 DEF VisitInv
    <3>1. CASE t = c
      <4>1. berth[c] # NoBerth
        BY <2>3, PortAssumption DEF Index, Guests
      <4>2. tpc[c] \in {"berthed", "quit"}
        BY <2>3 DEF Guests
      <4>3. QED  BY <2>2, <3>1, <4>1, <4>2 DEF VisitInv
    <3>2. CASE t # c
      <4>1. tpc[t] = "berthed" => berth[t] \in Index
        BY <1>0 DEF VisitInv
      <4>2. left'[t] = left[t]
        BY <2>2, <3>2
      <4>3. ASSUME tpc[t] = "berthed", ~left[t]
            PROVE  t \in AtPlatform(berth[t])' \/ (ppc'[berth[t]] = "left" /\ cur'[berth[t]] = t)
        <5>1. t \in AtPlatform(berth[t]) \/ (ppc[berth[t]] = "left" /\ cur[berth[t]] = t)
          BY <4>3 DEF VisitInv
        <5>2. CASE t \in AtPlatform(berth[t])
          BY <1>1, <2>4, <4>1, <4>3, <5>2
        <5>3. CASE ppc[berth[t]] = "left" /\ cur[berth[t]] = t
          <6>1. berth[t] # i
            BY <2>1, <3>2, <5>3
          <6>2. QED  BY <2>2, <4>1, <4>3, <5>3, <6>1
        <5>4. QED  BY <5>1, <5>2, <5>3
      <4>4. QED  BY <4>2, <4>3 DEF VisitInv
    <3>3. QED  BY <3>1, <3>2
  <2>6. ArrivalInv'
    <3>1. \A t \in Trains, j \in Index : t \in Guests(j) /\ (t # c \/ j # i) => t \in Guests(j)'
      BY <1>1, <2>2, <2>3 DEF Guests
    <3>2. \A j \in Index : j # i => Arrivals(j)'
      BY <2>2, <3>1, ArrivalsKept DEF ArrivalInv
    <3>3. Arrivals(i)'
      <4>1. \A k \in DOMAIN arrivals[i] : arrivals[i][k] \in Trains
        BY <1>0
      <4>2. \A k \in DOMAIN arrivals[i] : arrivals[i][k] \in Guests(i)'
        BY <2>3, <3>1, <4>1 DEF ArrivalInv, Arrivals
      <4>3. \A k, l \in DOMAIN arrivals[i] : arrivals[i][k] = arrivals[i][l] => k = l
        BY DEF ArrivalInv, Arrivals
      <4>4. QED  BY <2>2, <4>2, <4>3 DEF Arrivals
    <3>4. QED  BY <3>2, <3>3 DEF ArrivalInv
  <2>7. QED  BY <2>5, <2>6
<1>6. QED  BY <1>2, <1>3, <1>4, <1>5 DEF PlatformStep

\* A train that is called has not been anywhere yet.
LEMMA AnswerVisit ==
  ASSUME TypeInv, VisitInv, ArrivalInv, NEW t \in Trains, NEW n \in Nat, NEW i \in Index,
         Answer(t, n, i), ~Called(t), tpc[t] # "away",
         UNCHANGED <<tpc, left, ppc, cur, arrivals>>
  PROVE  VisitInv' /\ ArrivalInv'
<1>1. /\ berth'[t] # NoBerth /\ \A u \in Trains : u # t => berth'[u] = berth[u]
      /\ berth[t] = NoBerth
  BY AnswerCalls DEF Called
<1>2. tpc[t] \notin {"told", "berthed", "gone", "refused"} /\ ~left[t]
  BY DEF VisitInv
<1>3. VisitInv'
  BY <1>1, <1>2 DEF VisitInv, Called, AtPlatform
<1>4. ArrivalInv'
  <2>1. \A j \in Index : j # NoBerth
    BY PortAssumption DEF Index
  <2>2. \A j \in Index : /\ \A k \in DOMAIN arrivals[j] : arrivals[j][k] \in Trains
                         /\ ppc[j] \in {"stay", "left"} => cur[j] \in Trains
    BY DEF TypeInv, TypeOK, PlatformTypes, Control
  <2>3. \A u \in Trains, j \in Index : u \in Guests(j) => u \in Guests(j)'
    BY <1>1, <2>1 DEF Guests
  <2>4. QED  BY <2>3, ArrivalsKept DEF ArrivalInv
<1>5. QED  BY <1>3, <1>4

LEMMA StationVisit ==
  ASSUME TypeInv, YardInv, VisitInv, ArrivalInv, MainStep \/ HandlerStep
  PROVE  VisitInv' /\ ArrivalInv'
<1> USE DEF platformVars, mainVars, handlerVars, queueVars, callVars, history
<1>1. UNCHANGED <<tpc, left, ppc, cur, arrivals>>
  BY DEF MainStep, Accept, Scan, Claim, AnswerMain, Slot, Count, HandlerStep, HandlerEnter,
         HandlerScan, HandlerAnswer
<1>2. CASE AnswerMain
  <2>1. /\ nsfd \in Trains /\ mi \in Index /\ train_no \in Nat
        /\ ~Called(nsfd) /\ tpc[nsfd] # "away" /\ Answer(nsfd, train_no, mi)
    BY <1>2 DEF AnswerMain, TypeInv, Control, InHand, TypeOK, MasterTypes, YardInv, HandInv
  <2>2. QED  BY <1>1, <2>1, AnswerVisit
<1>3. CASE HandlerAnswer
  <2> PICK t, n : t = queue[scnt].fd /\ n = queue[scnt].no
    OBVIOUS
  <2>1. scnt < tcnt /\ scnt \in Nat /\ tcnt \in Nat /\ mpc # "dead" /\ scnt \in Waiting
    BY <1>3, PortAssumption DEF HandlerAnswer, TypeInv, Control, TypeOK, QueueTypes, Waiting
  <2>2. t \in Trains /\ n \in Nat /\ hi \in Index /\ Answer(t, n, hi)
    BY <1>3, <2>1, PortAssumption DEF HandlerAnswer, TypeInv, Control, TypeOK, QueueTypes
  <2>3. ~Called(t) /\ tpc[t] # "away"
    BY <2>1 DEF YardInv, QueueInv
  <2>4. QED  BY <1>1, <2>2, <2>3, AnswerVisit
<1>4. CASE UNCHANGED berth
  BY <1>1, <1>4 DEF VisitInv, ArrivalInv, Arrivals, Called, AtPlatform, Guests
<1>5. QED
  BY <1>2, <1>3, <1>4 DEF MainStep, Accept, Scan, Claim, Slot, Count, HandlerStep, HandlerEnter,
         HandlerScan

LEMMA TrainVisit ==
  ASSUME TypeInv, VisitInv, ArrivalInv, NEW t \in Trains, TrainStep(t) \/ Arrive(t) \/ Quit(t)
  PROVE  VisitInv' /\ ArrivalInv'
<1> USE DEF platformVars, mainVars, handlerVars, queueVars, callVars, history, Called
<1>0. /\ tpc \in [Trains -> {"away", "connected", "told", "berthed", "gone", "refused", "quit"}]
      /\ arrivals \in [Index -> Seq(Trains)] /\ \A u \in Trains : berth[u] \in Index \cup {NoBerth}
  BY DEF TypeInv, TypeOK, TrainTypes, PlatformTypes
<1>1. UNCHANGED <<ppc, cur, berth, left>>
  BY DEF TrainStep, GetPort, Reconnect, Join, Leave, Arrive, Quit
<1>2. \A i \in Index : /\ \A k \in DOMAIN arrivals[i] : arrivals[i][k] \in Trains
                       /\ ppc[i] \in {"stay", "left"} => cur[i] \in Trains
  BY <1>0 DEF TypeInv, Control
<1>3. CASE arrivals' = arrivals /\ ~(tpc[t] = "told" /\ tpc'[t] = "berthed")
  <2>1. /\ \A u \in Trains : u # t => tpc'[u] = tpc[u]
        /\ tpc[t] \in {"berthed", "quit"} /\ ~left[t] => tpc'[t] \in {"berthed", "quit"}
        /\ tpc'[t] = "away" => tpc[t] = "away"
        /\ tpc'[t] \in {"told", "berthed", "gone", "refused"} => Called(t)
        /\ left[t] => tpc'[t] \in {"berthed", "gone", "quit"}
        /\ tpc'[t] = "gone" => left[t]
        /\ tpc'[t] # "berthed"
    BY <1>0, <1>3 DEF TrainStep, GetPort, Reconnect, Join, Leave, Arrive, Quit, VisitInv
  <2>2. \A i \in Index : AtPlatform(i)' = AtPlatform(i)
    BY <1>1, <1>3 DEF AtPlatform
  <2>3. \A u \in Trains : tpc[u] = "berthed" => berth[u] \in Index
    BY <1>0 DEF VisitInv
  <2>4. VisitInv'
    BY <1>1, <2>1, <2>2, <2>3 DEF VisitInv
  <2>5. \A u \in Trains, i \in Index : u \in Guests(i) => u \in Guests(i)'
    BY <1>1, <2>1 DEF Guests
  <2>6. ArrivalInv'
    BY <1>1, <1>3, <2>5, ArrivalsKept DEF ArrivalInv
  <2>7. QED  BY <2>4, <2>6
<1>4. CASE tpc[t] = "told" /\ Join(t)
  <2>1. PICK b \in Index : b = berth[t]
    BY <1>0, <1>4 DEF VisitInv
  <2>2. /\ tpc'[t] = "berthed" /\ \A u \in Trains : u # t => tpc'[u] = tpc[u]
        /\ arrivals'[b] = Append(arrivals[b], t) /\ \A i \in Index : i # b => arrivals'[i] = arrivals[i]
    BY <1>0, <1>4, <2>1 DEF Join
  <2>3. /\ Len(arrivals[b]) \in Nat /\ DOMAIN arrivals[b] = 1 .. Len(arrivals[b])
        /\ DOMAIN arrivals'[b] = 1 .. Len(arrivals[b]) + 1
        /\ \A k \in DOMAIN arrivals[b] : arrivals'[b][k] = arrivals[b][k] /\ k \in DOMAIN arrivals'[b]
        /\ arrivals'[b][Len(arrivals[b]) + 1] = t
        /\ \A k \in DOMAIN arrivals'[b] : k \in DOMAIN arrivals[b] \/ k = Len(arrivals[b]) + 1
    BY <1>0, <2>2
  <2>4. \A i \in Index : AtPlatform(i) \subseteq AtPlatform(i)'
    BY <1>1, <2>2, <2>3 DEF AtPlatform
  <2>5. t \in AtPlatform(b)'
    BY <2>3 DEF AtPlatform
  <2>6. Called(t) /\ ~left[t]
    BY <1>4 DEF VisitInv
  <2>7. \A u \in Trains : tpc[u] = "berthed" => berth[u] \in Index
    BY <1>0 DEF VisitInv
  <2>8. VisitInv'
    BY <1>1, <2>1, <2>2, <2>4, <2>5, <2>6, <2>7 DEF VisitInv
  <2>9. \A u \in Trains, i \in Index : u \in Guests(i) => u # t /\ u \in Guests(i)'
    BY <1>1, <1>4, <2>2 DEF Guests
  <2>10. t \in Guests(b)'
    BY <1>1, <2>1, <2>2, <2>6 DEF Guests
  <2>11. \A k \in DOMAIN arrivals[b] : arrivals[b][k] # t
    BY <1>2, <2>9 DEF ArrivalInv, Arrivals
  <2>12. Arrivals(b)'
    <3>1. \A k \in DOMAIN arrivals[b] : arrivals[b][k] \in Guests(b)'
      BY <1>2, <2>9 DEF ArrivalInv, Arrivals
    <3>2. \A k \in DOMAIN arrivals'[b] : arrivals'[b][k] \in Guests(b)'
      BY <2>3, <2>10, <3>1
    <3>3. \A k, l \in DOMAIN arrivals[b] : arrivals[b][k] = arrivals[b][l] => k = l
      BY DEF ArrivalInv, Arrivals
    <3>4. \A k, l \in DOMAIN arrivals'[b] : arrivals'[b][k] = arrivals'[b][l] => k = l
      BY <2>3, <2>11, <3>3
    <3>5. ppc[b] \in {"stay", "left"} =>
            cur[b] \in Guests(b)' /\ cur[b] # t /\ \A k \in DOMAIN arrivals[b] : arrivals[b][k] # cur[b]
      BY <1>2, <2>9 DEF ArrivalInv, Arrivals
    <3>6. ppc[b] \in {"stay", "left"} => \A k \in DOMAIN arrivals'[b] : arrivals'[b][k] # cur[b]
      BY <2>3, <3>5
    <3>7. QED  BY <1>1, <3>2, <3>4, <3>5, <3>6 DEF Arrivals
  <2>13. \A i \in Index : i # b => Arrivals(i)'
    BY <1>1, <2>2, <2>9, ArrivalsKept DEF ArrivalInv
  <2>14. ArrivalInv'
    BY <2>12, <2>13 DEF ArrivalInv
  <2>15. QED  BY <2>8, <2>14
<1>5. CASE arrivals' = arrivals /\ tpc[t] # "told"
  BY <1>3, <1>5
<1>6. CASE arrivals' = arrivals /\ tpc'[t] # "berthed"
  BY <1>3, <1>6
<1>7. QED
  <2>1. CASE Reconnect(t)
    <3>1. CASE tpc' = [tpc EXCEPT ![t] = "refused"] /\ UNCHANGED arrivals
      BY <1>0, <1>6, <3>1
    <3>2. QED  BY <1>4, <2>1, <3>1 DEF Reconnect
  <2>2. CASE GetPort(t) \/ Leave(t) \/ Arrive(t) \/ Quit(t)
    <3>1. arrivals' = arrivals /\ tpc'[t] # "berthed"
      BY <1>0, <2>2 DEF GetPort, Leave, Arrive, Quit
    <3>2. QED  BY <1>6, <3>1
  <2>3. QED  BY <2>1, <2>2 DEF TrainStep

LEMMA VisitStep ==
  TypeInv /\ YardInv /\ VisitInv /\ ArrivalInv /\ [Next]_vars => VisitInv' /\ ArrivalInv'
<1> SUFFICES ASSUME TypeInv, YardInv, VisitInv, ArrivalInv, [Next]_vars
             PROVE  VisitInv' /\ ArrivalInv'
  OBVIOUS
<1>1. CASE UNCHANGED vars
  BY <1>1 DEF vars, platformVars, callVars, VisitInv, ArrivalInv, Arrivals, Called, AtPlatform, Guests
<1>2. QED  BY <1>1, PlatformVisit, StationVisit, TrainVisit DEF Next

-----------------------------------------------------------------------------
(* Holders: who may keep a flag busy *)

LEMMA HoldersKept ==
  ASSUME UNCHANGED <<berth, left>>, NEW i,
         ppc'[i] = "left" <=> ppc[i] = "left", cur'[i] = cur[i] \/ ppc[i] # "left"
  PROVE  Holders(i)' = Holders(i)
BY DEF Holders

LEMMA GuestsHold ==
  ASSUME ArrivalInv, NEW i \in Index, ppc[i] \in {"stay", "left"}
  PROVE  cur[i] \in Trains /\ berth[cur[i]] = i /\ ~left[cur[i]] /\ tpc[cur[i]] \in {"berthed", "quit"}
BY DEF ArrivalInv, Arrivals, Guests

LEMMA AnswerHolds ==
  ASSUME TypeInv, VisitInv, ArrivalInv, NEW t \in Trains, NEW n \in Nat, NEW i \in Index,
         Answer(t, n, i), ~Called(t), UNCHANGED <<left, ppc, cur>>
  PROVE  /\ Holders(i)' = Holders(i) \cup {t}
         /\ \A j \in Index : j # i => Holders(j)' = Holders(j)
<1>1. /\ berth'[t] = i /\ \A u \in Trains : u # t => berth'[u] = berth[u]
      /\ berth[t] = NoBerth /\ \A j \in Index : j # NoBerth
  BY AnswerCalls, PortAssumption DEF Called, Index
<1>2. ~left[t]
  BY DEF VisitInv
<1>3. ~(ppc[i] = "left" /\ cur[i] = t)
  BY <1>1, GuestsHold
<1>4. QED  BY <1>1, <1>2, <1>3 DEF Holders

\* A platform's step passes the train on, from held to about to signal to the signal.
LEMMA PlatformHolds ==
  ASSUME TypeInv, ArrivalInv, NEW i \in Index, PlatformStep(i)
  PROVE  /\ \A j \in Index : j # i => Holders(j)' = Holders(j) /\ ppc'[j] = ppc[j]
         /\ Holders(i)' = Holders(i) \/ Free(i)
         /\ Free(i) => cur[i] \in Holders(i) /\ Holders(i)' = Holders(i) \ {cur[i]} /\ ppc'[i] = "left"
         /\ ppc[i] = "left" => pending' = (mpc # "dead")
<1>0. /\ ppc \in [Index -> {"start", "accept", "stay", "left", "dead"}]
      /\ cur \in [Index -> Trains \cup {NoTrain}] /\ left \in [Trains -> BOOLEAN]
  BY DEF TypeInv, TypeOK, PlatformTypes, TrainTypes
<1>1. CASE Listen(i)
  <2>1. /\ UNCHANGED <<berth, left, cur>> /\ ppc[i] = "start" /\ ppc'[i] # "left" /\ ~Free(i)
        /\ \A j \in Index : j # i => ppc'[j] = ppc[j]
    BY <1>0, <1>1 DEF Listen, Free, callVars
  <2>2. QED  BY <2>1, HoldersKept
<1>2. CASE AcceptTrain(i)
  <2>1. /\ UNCHANGED <<berth, left>> /\ ppc[i] = "accept" /\ ppc'[i] = "stay" /\ ~Free(i)
        /\ \A j \in Index : j # i => ppc'[j] = ppc[j] /\ cur'[j] = cur[j]
    BY <1>0, <1>2 DEF AcceptTrain, Free, callVars
  <2>2. QED  BY <2>1, HoldersKept
<1>3. CASE Free(i)
  <2>1. /\ UNCHANGED <<berth, left, cur>> /\ ppc[i] = "stay" /\ ppc'[i] = "left"
        /\ \A j \in Index : j # i => ppc'[j] = ppc[j]
    BY <1>0, <1>3 DEF Free, callVars
  <2>2. Holders(i)' = Holders(i) \ {cur[i]} /\ cur[i] \in Holders(i)
    BY <2>1, GuestsHold DEF Holders
  <2>3. QED  BY <1>3, <2>1, <2>2, HoldersKept
<1>4. CASE Signal(i)
  <2>1. PICK c \in Trains : c = cur[i]
    BY <1>4 DEF Signal, TypeInv, Control
  <2>2. /\ UNCHANGED <<berth, cur>> /\ ppc[i] = "left" /\ ppc'[i] = "accept" /\ ~Free(i)
        /\ left'[c] /\ \A t \in Trains : t # c => left'[t] = left[t]
        /\ \A j \in Index : j # i => ppc'[j] = ppc[j]
        /\ pending' = (mpc # "dead")
    BY <1>0, <1>4, <2>1 DEF Signal, Free, Wake, callVars
  <2>3. berth[c] = i
    BY <2>1, <2>2, GuestsHold
  <2>4. \A j \in Index : Holders(j)' = Holders(j)
    <3>1. Holders(i)' = Holders(i)
      BY <2>1, <2>2 DEF Holders
    <3>2. ASSUME NEW j \in Index, j # i PROVE Holders(j)' = Holders(j)
      BY <2>2, <2>3, <3>2 DEF Holders
    <3>3. QED  BY <3>1, <3>2
  <2>5. QED  BY <2>2, <2>4
<1>5. QED  BY <1>1, <1>2, <1>3, <1>4 DEF PlatformStep

LEMMA AnswerMainHolds ==
  ASSUME TypeInv, YardInv, VisitInv, ArrivalInv, AnswerMain
  PROVE  /\ mi \in Index
         /\ \E t \in Trains : \A j \in Index :
              Holders(j)' = IF j = mi THEN Holders(j) \cup {t} ELSE Holders(j)
<1> PICK t, n, i : t = nsfd /\ n = train_no /\ i = mi
  OBVIOUS
<1>1. t \in Trains /\ i \in Index /\ n \in Nat
  BY DEF AnswerMain, TypeInv, Control, InHand, TypeOK, MasterTypes
<1>2. ~Called(t)
  BY DEF AnswerMain, InHand, YardInv, HandInv
<1>3. Answer(t, n, i) /\ UNCHANGED <<left, ppc, cur>>
  BY DEF AnswerMain, platformVars
<1>4. QED  BY <1>1, <1>2, <1>3, AnswerHolds

LEMMA HandlerAnswerHolds ==
  ASSUME TypeInv, YardInv, VisitInv, ArrivalInv, HandlerAnswer
  PROVE  /\ hi \in Index
         /\ \E t \in Trains : \A j \in Index :
              Holders(j)' = IF j = hi THEN Holders(j) \cup {t} ELSE Holders(j)
<1> PICK t, n, i : t = queue[scnt].fd /\ n = queue[scnt].no /\ i = hi
  OBVIOUS
<1>1. scnt < tcnt /\ scnt \in Nat /\ tcnt \in Nat /\ mpc # "dead" /\ scnt \in Waiting
  BY PortAssumption DEF HandlerAnswer, TypeInv, Control, TypeOK, QueueTypes, Waiting
<1>2. t \in Trains /\ n \in Nat /\ i \in Index
  BY <1>1, PortAssumption DEF HandlerAnswer, TypeInv, Control, TypeOK, QueueTypes
<1>3. Answer(t, n, i) /\ UNCHANGED <<left, ppc, cur>>
  BY DEF HandlerAnswer, platformVars
<1>4. ~Called(t)
  BY <1>1 DEF YardInv, QueueInv
<1>5. QED  BY <1>2, <1>3, <1>4, AnswerHolds

\* Every other step of SM, and every step of a train, leaves the holders alone.
LEMMA OthersHold ==
  ASSUME UNCHANGED <<berth, left, ppc, cur>>
  PROVE  \A i : Holders(i)' = Holders(i)
BY DEF Holders

-----------------------------------------------------------------------------
(* Flags *)

LEMMA FlagInit == Init => FlagInv
<1> SUFFICES ASSUME Init PROVE FlagInv
  OBVIOUS
<1>1. \A i \in Index : flag[i] = 0 /\ Holders(i) = {}
  BY PortAssumption DEF Init, Holders, Index
<1>2. mpc = "select" /\ mi = 0
  BY DEF Init
<1>3. QED  BY <1>1, <1>2 DEF FlagInv, Answering

LEMMA PlatformFlag ==
  ASSUME TypeInv, ArrivalInv, FlagInv, NEW i \in Index, PlatformStep(i)
  PROVE  FlagInv'
<1>1. /\ \A j \in Index : j # i => Holders(j)' = Holders(j)
      /\ Holders(i)' = Holders(i) \/ Free(i)
      /\ Free(i) => cur[i] \in Holders(i) /\ Holders(i)' = Holders(i) \ {cur[i]}
  BY PlatformHolds
<1>2. UNCHANGED <<mpc, mi, raced>>
  BY DEF PlatformStep, Listen, AcceptTrain, Free, Signal, mainVars, history
<1>3. CASE ~Free(i)
  <2>1. flag' = flag
    BY <1>3 DEF PlatformStep, Listen, AcceptTrain, Signal
  <2>2. \A j \in Index : Holders(j)' = Holders(j)
    BY <1>1, <1>3
  <2>3. QED  BY <1>2, <2>1, <2>2 DEF FlagInv, Answering, Promised
<1>4. CASE Free(i)
  <2>1. flag'[i] = 0 /\ \A j \in Index : j # i => flag'[j] = flag[j]
    BY <1>4 DEF Free, FreeFlag, TypeInv, TypeOK, PlatformTypes
  <2>2. \A j \in Index : flag'[j] = 1 => Holders(j)' # {} \/ Promised(j)'
    BY <1>1, <1>2, <2>1 DEF FlagInv, Promised
  <2>3. ASSUME ~raced
        PROVE  /\ mpc = "claim" => flag'[mi] = 0
               /\ \A j \in Index :
                    /\ Holders(j)' # {} \/ Answering(j)' => flag'[j] = 1
                    /\ ~(Holders(j)' # {} /\ Answering(j)')
                    /\ \A t, u \in Holders(j)' : t = u
    <3>1. Holders(i)' = {} /\ ~Answering(i)
      BY <1>1, <1>4, <2>3 DEF FlagInv
    <3>2. \A j \in Index : Answering(j)' <=> Answering(j)
      BY <1>2 DEF Answering
    <3>3. mpc = "claim" => flag'[mi] = 0
      BY <2>1, <2>3 DEF FlagInv, TypeInv, Control
    <3>4. QED  BY <1>1, <2>1, <2>3, <3>1, <3>2, <3>3 DEF FlagInv
  <2>4. QED  BY <1>2, <2>2, <2>3 DEF FlagInv
<1>5. QED  BY <1>3, <1>4

LEMMA MainFlag ==
  ASSUME TypeInv, YardInv, VisitInv, ArrivalInv, FlagInv, MainStep
  PROVE  FlagInv'
<1>0. flag \in [Index -> {0, 1}] /\ raced' = raced
  BY DEF TypeInv, TypeOK, PlatformTypes, MainStep, Accept, Scan, Claim, AnswerMain, Slot, Count,
         history
<1>1. CASE Accept \/ Scan \/ Slot \/ Count
  <2>1. /\ UNCHANGED <<flag, berth, left, ppc, cur>> /\ mpc \notin {"answer", "dead"}
        /\ mpc' # "answer" /\ (mpc' = "claim" => flag[mi'] = 0)
    BY <1>1 DEF Accept, Scan, Slot, Count, platformVars, callVars
  <2>2. \A j \in Index : Holders(j)' = Holders(j)
    BY <2>1, OthersHold
  <2>3. QED  BY <1>0, <2>1, <2>2 DEF FlagInv, Answering, Promised
<1>2. CASE Claim
  <2>1. /\ UNCHANGED <<berth, left, ppc, cur, mi>> /\ mpc = "claim" /\ mpc' = "answer"
        /\ mi \in Index /\ flag' = [flag EXCEPT ![mi] = 1]
    BY <1>2 DEF Claim, ClaimFlag, TypeInv, Control, platformVars, callVars
  <2>2. \A j \in Index : Holders(j)' = Holders(j)
    BY <2>1, OthersHold
  <2>3. flag'[mi] = 1 /\ \A j \in Index : j # mi => flag'[j] = flag[j]
    BY <1>0, <2>1
  <2>4. \A j \in Index : ~Answering(j) /\ ~Promised(j) /\ (Answering(j)' <=> j = mi) /\ (Promised(j)' <=> j = mi)
    BY <2>1 DEF Answering, Promised
  <2>5. \A j \in Index : flag'[j] = 1 => Holders(j)' # {} \/ Promised(j)'
    BY <2>2, <2>3, <2>4 DEF FlagInv
  <2>6. ASSUME ~raced
        PROVE  \A j \in Index :
                    /\ Holders(j)' # {} \/ Answering(j)' => flag'[j] = 1
                    /\ ~(Holders(j)' # {} /\ Answering(j)')
                    /\ \A t, u \in Holders(j)' : t = u
    <3>1. Holders(mi) = {}
      BY <2>1, <2>6 DEF FlagInv
    <3>2. QED  BY <2>2, <2>3, <2>4, <2>6, <3>1 DEF FlagInv
  <2>7. QED  BY <1>0, <2>1, <2>5, <2>6 DEF FlagInv
<1>3. CASE AnswerMain
  <2> PICK m \in Index : m = mi
    BY <1>3, AnswerMainHolds
  <2>1. PICK t \in Trains : \A j \in Index :
              Holders(j)' = IF j = m THEN Holders(j) \cup {t} ELSE Holders(j)
    BY <1>3, AnswerMainHolds
  <2>2. UNCHANGED <<flag, mi>> /\ mpc = "answer" /\ mpc' \in {"select", "dead"}
    BY <1>3 DEF AnswerMain
  <2>3. \A j \in Index : (Answering(j) <=> j = m) /\ (Promised(j) <=> j = m) /\ ~Answering(j)'
    BY <2>2 DEF Answering, Promised
  <2>4. \A j \in Index : flag'[j] = 1 => Holders(j)' # {} \/ Promised(j)'
    BY <2>1, <2>2, <2>3 DEF FlagInv
  <2>5. ASSUME ~raced
        PROVE  \A j \in Index :
                    /\ Holders(j)' # {} => flag[j] = 1
                    /\ \A u, v \in Holders(j)' : u = v
    <3>1. Holders(m) = {} /\ flag[m] = 1
      BY <2>1, <2>3, <2>5 DEF FlagInv
    <3>2. ASSUME NEW j \in Index
          PROVE  (Holders(j)' # {} => flag[j] = 1) /\ \A u, v \in Holders(j)' : u = v
      <4>1. CASE j = m
        BY <2>1, <3>1, <4>1
      <4>2. CASE j # m
        BY <2>1, <2>5, <4>2 DEF FlagInv
      <4>3. QED  BY <4>1, <4>2
    <3>3. QED  BY <3>2
  <2>6. QED  BY <1>0, <2>2, <2>3, <2>4, <2>5 DEF FlagInv
<1>4. QED  BY <1>1, <1>2, <1>3 DEF MainStep

LEMMA HandlerFlag ==
  ASSUME TypeInv, YardInv, VisitInv, ArrivalInv, FlagInv, HandlerStep
  PROVE  FlagInv'
<1>1. CASE HandlerEnter \/ HandlerScan
  <2>1. UNCHANGED <<flag, berth, left, ppc, cur, mpc, mi, raced>>
    BY <1>1 DEF HandlerEnter, HandlerScan, platformVars, callVars, mainVars, history
  <2>2. \A j \in Index : Holders(j)' = Holders(j)
    BY <2>1, OthersHold
  <2>3. QED  BY <2>1, <2>2 DEF FlagInv, Answering, Promised
<1>2. CASE HandlerAnswer
  <2> PICK h \in Index : h = hi
    BY <1>2, HandlerAnswerHolds
  <2>1. PICK t \in Trains : \A j \in Index :
              Holders(j)' = IF j = h THEN Holders(j) \cup {t} ELSE Holders(j)
    BY <1>2, HandlerAnswerHolds
  <2>2. Holders(h)' # {} /\ \A j \in Index : j # h => Holders(j)' = Holders(j)
    BY <2>1
  <2>3. /\ flag[h] = 0 /\ flag'[h] = 1 /\ \A j \in Index : j # h => flag'[j] = flag[j]
        /\ mi' = mi /\ mpc' \in {mpc, "dead"}
        /\ ~raced' => ~raced /\ ~(mpc = "claim" /\ mi = h)
    BY <1>2 DEF HandlerAnswer, ClaimFlag, TypeInv, TypeOK, PlatformTypes
  <2>4. \A j \in Index : (Promised(j) => Promised(j)') /\ (Answering(j)' => Answering(j))
    BY <2>3 DEF Promised, Answering
  <2>5. \A j \in Index : flag'[j] = 1 => Holders(j)' # {} \/ Promised(j)'
    BY <2>1, <2>2, <2>3, <2>4 DEF FlagInv
  <2>6. ASSUME ~raced'
        PROVE  /\ mpc' = "claim" => flag'[mi'] = 0
               /\ \A j \in Index :
                    /\ Holders(j)' # {} \/ Answering(j)' => flag'[j] = 1
                    /\ ~(Holders(j)' # {} /\ Answering(j)')
                    /\ \A u, v \in Holders(j)' : u = v
    <3>1. Holders(h) = {} /\ ~Answering(h)
      BY <2>1, <2>3, <2>6 DEF FlagInv
    <3>2. mpc' = "claim" => flag'[mi'] = 0
      BY <2>3, <2>6 DEF FlagInv, TypeInv, Control
    <3>3. ASSUME NEW j \in Index
          PROVE  /\ Holders(j)' # {} \/ Answering(j)' => flag'[j] = 1
                 /\ ~(Holders(j)' # {} /\ Answering(j)')
                 /\ \A u, v \in Holders(j)' : u = v
      <4>1. CASE j = h
        BY <2>1, <2>3, <2>4, <3>1, <4>1
      <4>2. CASE j # h
        BY <2>2, <2>3, <2>4, <2>6, <4>2 DEF FlagInv
      <4>3. QED  BY <4>1, <4>2
    <3>4. QED  BY <3>2, <3>3
  <2>7. QED  BY <2>5, <2>6 DEF FlagInv
<1>3. QED  BY <1>1, <1>2 DEF HandlerStep

LEMMA FlagStep ==
  TypeInv /\ YardInv /\ VisitInv /\ ArrivalInv /\ FlagInv /\ [Next]_vars => FlagInv'
<1> SUFFICES ASSUME TypeInv, YardInv, VisitInv, ArrivalInv, FlagInv, [Next]_vars
             PROVE  FlagInv'
  OBVIOUS
<1>1. ASSUME UNCHANGED <<flag, berth, left, ppc, cur, mpc, mi, raced>> PROVE FlagInv'
  BY <1>1, OthersHold DEF FlagInv, Answering, Promised
<1>2. CASE UNCHANGED vars
  BY <1>1, <1>2 DEF vars, platformVars, mainVars, callVars, history
<1>3. ASSUME NEW t \in Trains, TrainStep(t) \/ Arrive(t) \/ Quit(t) PROVE FlagInv'
  BY <1>1, <1>3 DEF TrainStep, GetPort, Reconnect, Join, Leave, Arrive, Quit, platformVars,
     mainVars, callVars, history
<1>4. QED  BY <1>2, <1>3, PlatformFlag, MainFlag, HandlerFlag DEF Next

-----------------------------------------------------------------------------
(* Wake-ups *)

LEMMA HopeKept ==
  ASSUME UNCHANGED <<pending, berth, left, ppc, cur>>
  PROVE  Hope' <=> Hope
<1>1. \A i \in Index : Holders(i)' = Holders(i)
  BY OthersHold
<1>2. QED  BY <1>1 DEF Hope

\* While SM lives, what will wake it is handed on from step to step.
LEMMA PlatformHope ==
  ASSUME TypeInv, ArrivalInv, NEW i \in Index, PlatformStep(i), mpc # "dead", Hope
  PROVE  Hope'
<1>1. /\ \A j \in Index : j # i => Holders(j)' = Holders(j) /\ ppc'[j] = ppc[j]
      /\ Holders(i)' = Holders(i) \/ ppc'[i] = "left"
      /\ ppc[i] = "left" => pending'
  BY PlatformHolds
<1>2. pending => pending'
  BY DEF PlatformStep, Listen, AcceptTrain, Free, Signal, Wake, handlerVars
<1>3. QED  BY <1>1, <1>2 DEF Hope

LEMMA WakeInit == Init => WakeInv
BY DEF Init, WakeInv, WakeFacts

LEMMA MainWake ==
  ASSUME TypeInv, YardInv, VisitInv, ArrivalInv, FlagInv, WakeInv, MainStep
  PROVE  WakeInv'
<1>0. mi \in 0 .. NP /\ NP \in Nat \ {0} /\ flag \in [Index -> {0, 1}]
  BY PortAssumption DEF TypeInv, TypeOK, MasterTypes, PlatformTypes
<1>1. CASE AnswerMain
  <2>1. Hope'
    <3> PICK m \in Index : m = mi
      BY <1>1, AnswerMainHolds
    <3>1. Holders(m)' # {}
      BY <1>1, AnswerMainHolds
    <3>2. QED  BY <3>1 DEF Hope
  <2>2. QED  BY <2>1 DEF WakeInv, WakeFacts
<1>2. ASSUME ~AnswerMain
      PROVE  /\ mpc # "dead" /\ hpc = "off" /\ UNCHANGED <<pending, hpc, scnt>>
             /\ (Hope' <=> Hope)
  <2>1. mpc # "dead" /\ hpc = "off" /\ UNCHANGED <<pending, berth, left, ppc, cur, hpc, scnt>>
    BY <1>2 DEF MainStep, Accept, Scan, Claim, Slot, Count, platformVars, handlerVars, queueVars,
       callVars
  <2>2. QED  BY <2>1, HopeKept
<1>3. CASE Accept
  BY <1>2, <1>3 DEF Accept, AnswerMain, WakeInv, WakeFacts, queueVars
<1>4. CASE Scan
  <2>1. CASE mi \in Index /\ flag[mi] = 0
    BY <1>2, <1>4, <2>1 DEF Scan, AnswerMain, WakeInv, WakeFacts, Index, queueVars
  <2>2. CASE mi \in Index /\ flag[mi] # 0
    <3>1. flag[mi] = 1 /\ ~Promised(mi)
      BY <1>0, <1>4, <2>2 DEF Scan, Promised
    <3>2. Hope
      BY <2>2, <3>1 DEF FlagInv, Hope
    <3>3. QED  BY <1>2, <1>4, <3>2 DEF Scan, AnswerMain, WakeInv, WakeFacts
  <2>3. CASE mi \notin Index
    <3>1. mi > 0
      BY <1>0, <2>3 DEF Index
    <3>2. QED
      BY <1>2, <1>4, <2>3, <3>1 DEF Scan, AnswerMain, WakeInv, WakeFacts, queueVars, history
  <2>4. QED  BY <2>1, <2>2, <2>3
<1>5. CASE Claim
  BY <1>2, <1>5 DEF Claim, AnswerMain, WakeInv, WakeFacts
<1>6. CASE Slot
  BY <1>2, <1>6 DEF Slot, AnswerMain, WakeInv, WakeFacts, history
<1>7. CASE Count
  BY <1>2, <1>7 DEF Count, AnswerMain, WakeInv, WakeFacts
<1>8. QED  BY <1>1, <1>3, <1>4, <1>5, <1>6, <1>7 DEF MainStep

LEMMA HandlerWake ==
  ASSUME TypeInv, YardInv, VisitInv, ArrivalInv, FlagInv, WakeInv, HandlerStep
  PROVE  WakeInv'
<1>0. /\ hi \in 0 .. NP /\ NP \in Nat \ {0} /\ flag \in [Index -> {0, 1}]
      /\ hpc = "scan" => mpc # "dead"
  BY PortAssumption DEF TypeInv, Control, TypeOK, MasterTypes, PlatformTypes
<1>1. CASE HandlerAnswer
  <2>1. Hope'
    <3> PICK h \in Index : h = hi
      BY <1>1, HandlerAnswerHolds
    <3>1. Holders(h)' # {}
      BY <1>1, HandlerAnswerHolds
    <3>2. QED  BY <3>1 DEF Hope
  <2>2. QED  BY <2>1 DEF WakeInv, WakeFacts
<1>2. CASE HandlerEnter
  BY <1>2 DEF HandlerEnter, SomebodyWaits, WakeInv, WakeFacts, mainVars, queueVars
<1>3. CASE HandlerScan
  <2>1. Hope' <=> Hope
    BY <1>3, HopeKept DEF HandlerScan, platformVars, callVars
  <2>2. CASE hi \in Index /\ flag[hi] # 0
    <3>1. flag[hi] = 1 /\ mpc # "dead" /\ hpc = "scan" /\ hpc' = "scan" /\ mpc' = mpc
      BY <1>0, <1>3, <2>2 DEF HandlerScan, mainVars
    <3>2. mpc = "answer" \/ Hope
      BY <2>2, <3>1 DEF FlagInv, Promised, Hope
    <3>3. QED  BY <2>1, <3>1, <3>2 DEF WakeInv, WakeFacts
  <2>3. CASE hi \notin Index
    <3>1. hi > 0
      BY <1>0, <2>3 DEF Index
    <3>2. /\ hpc = "scan" /\ hpc' = "off" /\ mpc # "dead"
          /\ UNCHANGED <<mpc, mi, scnt, tcnt, doubt, missed>>
      BY <1>0, <1>3, <2>3 DEF HandlerScan, mainVars, queueVars, history
    <3>3. mpc = "answer" \/ Hope
      BY <3>1, <3>2 DEF WakeInv, WakeFacts
    <3>4. QED  BY <2>1, <3>2, <3>3 DEF WakeInv, WakeFacts
  <2>4. QED  BY <1>3, <2>2, <2>3 DEF HandlerScan
<1>4. QED  BY <1>1, <1>2, <1>3 DEF HandlerStep

LEMMA WakeStep ==
  TypeInv /\ YardInv /\ VisitInv /\ ArrivalInv /\ FlagInv /\ WakeInv /\ [Next]_vars => WakeInv'
<1> SUFFICES ASSUME TypeInv, YardInv, VisitInv, ArrivalInv, FlagInv, WakeInv, [Next]_vars
             PROVE  WakeInv'
  OBVIOUS
<1>1. ASSUME UNCHANGED <<berth, left, ppc, cur, mainVars, handlerVars, queueVars, history>>
      PROVE  WakeInv'
  <2>1. Hope' <=> Hope
    BY <1>1, HopeKept DEF handlerVars
  <2>2. QED
    BY <1>1, <2>1 DEF WakeInv, WakeFacts, mainVars, handlerVars, queueVars, history
<1>2. CASE UNCHANGED vars
  BY <1>1, <1>2 DEF vars, platformVars, callVars
<1>3. ASSUME NEW t \in Trains, TrainStep(t) \/ Arrive(t) \/ Quit(t) PROVE WakeInv'
  BY <1>1, <1>3 DEF TrainStep, GetPort, Reconnect, Join, Leave, Arrive, Quit, platformVars,
     callVars
<1>4. ASSUME NEW i \in Index, PlatformStep(i) PROVE WakeInv'
  <2>1. mpc # "dead" /\ Hope => Hope'
    BY <1>4, PlatformHope
  <2>2. UNCHANGED <<mainVars, hpc, hi, queueVars, history>>
    BY <1>4 DEF PlatformStep, Listen, AcceptTrain, Free, Signal, handlerVars
  <2>3. QED  BY <2>1, <2>2 DEF WakeInv, WakeFacts, mainVars, queueVars, history
<1>5. QED  BY <1>2, <1>3, <1>4, MainWake, HandlerWake DEF Next

LEMMA FlagWakeInit == Init => FlagInv /\ WakeInv
BY FlagInit, WakeInit

IInv == TypeInv /\ YardInv /\ VisitInv /\ ArrivalInv /\ FlagInv /\ WakeInv

LEMMA Invariance == Spec => []IInv
<1>1. Init => IInv
  BY TypeInit, YardInitInv, VisitInit, FlagWakeInit DEF IInv
<1>2. IInv /\ [Next]_vars => IInv'
  BY TypeStep, YardStep, VisitStep, FlagStep, WakeStep DEF IInv
<1>3. QED  BY <1>1, <1>2, PTL DEF Spec

-----------------------------------------------------------------------------
(* What the invariants say of the trains SM sent to a platform.  A holder   *)
(* is on its way, at the platform, or lost.                                 *)

LEMMA HoldersAre ==
  ASSUME TypeInv, VisitInv, ArrivalInv, NEW i \in Index
  PROVE  Holders(i) = Bound(i) \cup {t \in Trains : LostOnTheWay(t, i)}
<1>1. i # NoBerth /\ TrainTypes
  BY PortAssumption DEF Index, TypeInv, TypeOK
<1>2. \A t \in AtPlatform(i) : t \in Guests(i) /\ ~(ppc[i] = "left" /\ cur[i] = t)
  BY DEF ArrivalInv, Arrivals, AtPlatform
<1>3. ppc[i] = "left" => cur[i] \in Guests(i)
  BY DEF ArrivalInv, Arrivals
<1>4. ASSUME NEW t \in Trains
      PROVE  t \in Holders(i) <=> t \in Bound(i) \/ LostOnTheWay(t, i)
  <2>1. CASE tpc[t] \in {"connected", "told"}
    <3>1. ~left[t]
      BY <2>1 DEF VisitInv
    <3>2. ~(ppc[i] = "left" /\ cur[i] = t) /\ t \notin AtPlatform(i)
      BY <1>2, <1>3, <2>1 DEF Guests
    <3>3. QED  BY <2>1, <3>1, <3>2 DEF Holders, Bound, LostOnTheWay
  <2>2. CASE tpc[t] = "berthed"
    <3>1. t \in Bound(i) <=> t \in AtPlatform(i)
      BY <2>2 DEF Bound
    <3>2. t \in AtPlatform(i) => t \in Holders(i)
      BY <1>2 DEF Guests, Holders
    <3>3. t \in Holders(i) => t \in AtPlatform(i)
      BY <2>2 DEF VisitInv, Holders
    <3>4. QED  BY <2>2, <3>1, <3>2, <3>3 DEF LostOnTheWay
  <2>3. CASE tpc[t] \in {"away", "gone"}
    <3>1. t \notin AtPlatform(i)
      BY <1>2, <2>3 DEF Guests
    <3>2. t \notin Holders(i)
      BY <1>1, <2>3 DEF Holders, VisitInv, Called
    <3>3. QED  BY <2>3, <3>1, <3>2 DEF Bound, LostOnTheWay
  <2>4. CASE tpc[t] \in {"refused", "quit"}
    <3>1. t \in Bound(i) <=> t \in AtPlatform(i)
      BY <2>4 DEF Bound
    <3>2. t \in AtPlatform(i) => t \in Holders(i)
      BY <1>2 DEF Guests, Holders
    <3>3. QED  BY <2>4, <3>1, <3>2 DEF Holders, LostOnTheWay
  <2>5. QED  BY <1>1, <2>1, <2>2, <2>3, <2>4 DEF TrainTypes
<1>5. AtPlatform(i) \subseteq Trains
  BY <1>2 DEF Guests
<1>6. QED  BY <1>4, <1>5 DEF Holders, Bound

LEMMA AtMostOne ==
  ASSUME NEW S, \A t, u \in S : t = u
  PROVE  Cardinality(S) <= 1
<1>1. CASE S = {}
  <2>1. Cardinality({}) = 0
    BY FS_EmptySet
  <2>2. QED  BY <1>1, <2>1
<1>2. CASE S # {}
  <2>1. PICK t : S = {t}
    BY <1>2
  <2>2. Cardinality({t}) = 1
    BY FS_Singleton
  <2>3. QED  BY <2>1, <2>2
<1>3. QED  BY <1>1, <1>2

\* Unless main and the handler claimed one platform at once, a flag is 1 exactly while one
\* train is on its way to the platform or at it, or for ever once such a train was lost,
\* and each train at a platform was sent there.
THEOREM StationCorrect == Spec => []StationInv
<1>1. IInv => StationInv
  <2> SUFFICES ASSUME IInv PROVE StationInv
    OBVIOUS
  <2> USE DEF IInv
  <2>1. \A i \in Index : Holders(i) # {} <=> Bound(i) # {} \/ Leaked(i)
    BY HoldersAre DEF Leaked
  <2>2. FlagTellsTheTruth
    <3> SUFFICES ASSUME ~raced, NEW i \in Index
                 PROVE  /\ Cardinality(Bound(i)) <= 1
                        /\ Bound(i) # {} \/ Leaked(i) \/ (mpc = "answer" /\ mi = i) => flag[i] = 1
                        /\ flag[i] = 1 =>
                             Bound(i) # {} \/ Leaked(i) \/ (mpc \in {"answer", "dead"} /\ mi = i)
      BY DEF FlagTellsTheTruth
    <3>1. \A t, u \in Bound(i) : t = u
      BY HoldersAre DEF FlagInv
    <3>2. Cardinality(Bound(i)) <= 1
      BY <3>1, AtMostOne
    <3>3. QED  BY <2>1, <3>2 DEF FlagInv, Promised, Answering
  <2>3. ServedWhereSent
    BY DEF ServedWhereSent, ArrivalInv, Arrivals, AtPlatform, Guests
  <2>4. QED  BY <2>2, <2>3 DEF StationInv, TypeInv
<1>2. QED  BY <1>1, Invariance, PTL

\* Trains wait with nobody left to wake SM only after a missed wake-up, when SM died, or
\* when a train that never came broke the chain.
THEOREM WaitingIsWoken == Spec => []StrandedOnlyByMissOrLeak
<1>1. IInv => StrandedOnlyByMissOrLeak
  <2> SUFFICES ASSUME IInv, scnt # tcnt, mpc # "dead" PROVE StrandedOnlyByMissOrLeak
    BY DEF StrandedOnlyByMissOrLeak
  <2> USE DEF IInv
  <2>1. scnt < tcnt
    BY DEF TypeInv, TypeOK, QueueTypes
  <2>2. \A i \in Index : Holders(i) # {} => Bound(i) # {} \/ Leaked(i)
    BY HoldersAre DEF Leaked
  <2>3. missed \/ hpc = "scan" \/ mpc \in {"claim", "answer"} \/ Hope
    BY <2>1 DEF WakeInv, WakeFacts
  <2>4. QED  BY <2>2, <2>3 DEF Hope, StrandedOnlyByMissOrLeak
<1>2. QED  BY <1>1, Invariance, PTL

-----------------------------------------------------------------------------
(* The station implements TrainYard.  Each step is an Enter, a Call, a      *)
(* Depart or a GiveUp, or leaves what a train sees alone.                   *)

Phases == [u \in Trains |-> Phase(u)]

LEMMA YardStutter ==
  ASSUME UNCHANGED <<tpc, berth, number>>
  PROVE  UNCHANGED Yard!yard
BY DEF Yard!yard, Phase

LEMMA CallMaps ==
  ASSUME TypeInv, VisitInv, NEW t \in Trains, NEW n \in Nat, NEW i \in Index,
         Answer(t, n, i), UNCHANGED tpc, ~Called(t), tpc[t] # "away",
         \A u \in Trains : Called(u) => number[u] # n
  PROVE  Yard!Call(t)
<1>1. tpc[t] # "gone"
  BY DEF VisitInv
<1>2. berth' = [berth EXCEPT ![t] = i] /\ number' = [number EXCEPT ![t] = n] /\ number'[t] = n
  BY DEF Answer, TypeInv, TypeOK, TrainTypes
<1>3. Phase(t) # "away" /\ Phase(t) # "gone"
  BY <1>1 DEF Phase
<1>4. Phases' = Phases
  BY DEF Phase, Phases
<1>5. QED  BY <1>2, <1>3, <1>4 DEF Yard!Call, Called, Phases

LEMMA PhaseStep ==
  ASSUME TrainTypes, NEW t \in Trains, NEW x, tpc' = [tpc EXCEPT ![t] = x],
         x \in {"away", "connected", "told", "berthed", "gone", "refused", "quit"}
  PROVE  Phases' = [Phases EXCEPT ![t] = CASE x \in {"away", "gone"} -> x
                                           [] x \in {"refused", "quit"} -> "quit"
                                           [] OTHER -> "in"]
BY DEF TrainTypes, Phase, Phases

LEMMA MainMaps ==
  ASSUME TypeInv, YardInv, VisitInv, MainStep
  PROVE  [Yard!YardNext]_(Yard!yard)
<1>1. CASE AnswerMain
  <2>1. PICK t, n, i : t = nsfd /\ n = train_no /\ i = mi
    OBVIOUS
  <2>2. t \in Trains /\ n \in Nat /\ i \in Index /\ Answer(t, n, i) /\ UNCHANGED tpc
    BY <1>1, <2>1 DEF AnswerMain, TypeInv, Control, InHand, TypeOK, MasterTypes
  <2>3. ~Called(t) /\ tpc[t] # "away"
    BY <1>1, <2>1 DEF AnswerMain, YardInv, HandInv, InHand
  <2>4. \A u \in Trains : Called(u) => number[u] # n
    BY <1>1, <2>1 DEF AnswerMain, YardInv, NumberInv, TypeInv, TypeOK, TrainTypes, MasterTypes
  <2>5. Yard!Call(t)
    BY <2>2, <2>3, <2>4, CallMaps
  <2>6. QED  BY <2>2, <2>5 DEF Yard!YardNext
<1>2. CASE Accept \/ Scan \/ Claim \/ Slot \/ Count
  <2>1. UNCHANGED <<tpc, berth, number>>
    BY <1>2 DEF Accept, Scan, Claim, Slot, Count, callVars
  <2>2. QED  BY <2>1, YardStutter
<1>3. QED  BY <1>1, <1>2 DEF MainStep

LEMMA HandlerMaps ==
  ASSUME TypeInv, YardInv, VisitInv, HandlerStep
  PROVE  [Yard!YardNext]_(Yard!yard)
<1>1. CASE HandlerAnswer
  <2>1. PICK t, n, i : t = queue[scnt].fd /\ n = queue[scnt].no /\ i = hi
    OBVIOUS
  <2>2. scnt \in Waiting /\ t \in Trains /\ n \in Nat /\ i \in Index /\ mpc # "dead"
    BY <1>1, <2>1, PortAssumption
    DEF HandlerAnswer, TypeInv, Control, TypeOK, QueueTypes, Waiting
  <2>3. Answer(t, n, i) /\ UNCHANGED tpc
    BY <1>1, <2>1 DEF HandlerAnswer
  <2>4. /\ ~Called(t) /\ tpc[t] # "away"
        /\ \A u \in Trains : Called(u) => number[u] # n
    BY <2>1, <2>2 DEF YardInv, QueueInv
  <2>5. Yard!Call(t)
    BY <2>2, <2>3, <2>4, CallMaps
  <2>6. QED  BY <2>2, <2>5 DEF Yard!YardNext
<1>2. CASE HandlerEnter \/ HandlerScan
  <2>1. UNCHANGED <<tpc, berth, number>>
    BY <1>2 DEF HandlerEnter, HandlerScan, callVars
  <2>2. QED  BY <2>1, YardStutter
<1>3. QED  BY <1>1, <1>2 DEF HandlerStep

LEMMA TrainMaps ==
  ASSUME TypeInv, VisitInv, NEW t \in Trains, TrainStep(t) \/ Arrive(t) \/ Quit(t)
  PROVE  [Yard!YardNext]_(Yard!yard)
<1>0. TrainTypes /\ UNCHANGED <<berth, number>>
  BY DEF TypeInv, TypeOK, TrainStep, GetPort, Reconnect, Leave, Arrive, Quit, callVars
<1>1. CASE tpc' = [tpc EXCEPT ![t] = "told"] /\ tpc[t] = "connected"
  <2>1. Phases' = Phases
    BY <1>0, <1>1 DEF TrainTypes, Phase, Phases
  <2>2. QED  BY <1>0, <2>1 DEF Yard!yard, Phases
<1>2. CASE tpc' = [tpc EXCEPT ![t] = "berthed"] /\ tpc[t] = "told"
  <2>1. Phases' = Phases
    BY <1>0, <1>2 DEF TrainTypes, Phase, Phases
  <2>2. QED  BY <1>0, <2>1 DEF Yard!yard, Phases
<1>3. CASE tpc' = [tpc EXCEPT ![t] = "refused"] /\ tpc[t] = "told"
  <2>1. Yard!GiveUp(t)
    BY <1>0, <1>3, PhaseStep DEF Yard!GiveUp, Phase, Phases
  <2>2. QED  BY <2>1 DEF Yard!YardNext
<1>4. CASE Leave(t)
  <2>1. tpc' = [tpc EXCEPT ![t] = "gone"] /\ tpc[t] = "berthed" /\ Called(t)
    BY <1>4 DEF Leave, VisitInv
  <2>2. Yard!Depart(t)
    BY <1>0, <2>1, PhaseStep DEF Yard!Depart, Phase, Phases, Called
  <2>3. QED  BY <2>2 DEF Yard!YardNext
<1>5. CASE Arrive(t)
  <2>1. Yard!Enter(t)
    BY <1>0, <1>5, PhaseStep DEF Arrive, Yard!Enter, Phase, Phases
  <2>2. QED  BY <2>1 DEF Yard!YardNext
<1>6. CASE Quit(t)
  <2>1. Yard!GiveUp(t)
    BY <1>0, <1>6, PhaseStep DEF Quit, Yard!GiveUp, Phase, Phases
  <2>2. QED  BY <2>1 DEF Yard!YardNext
<1>7. QED
  BY <1>1, <1>2, <1>3, <1>4, <1>5, <1>6 DEF TrainStep, GetPort, Reconnect, Join

\* A train is sent to one platform, once, under a number no other train has, and leaves only
\* after it was sent there, whatever the interleaving, with trains killed and platforms missing.
THEOREM StationImplementsYard == Spec => YardSpec
<1>1. Init => Yard!YardInit
  BY DEF Init, Yard!YardInit, Phase
<1>2. IInv /\ [Next]_vars => [Yard!YardNext]_(Yard!yard)
  <2> SUFFICES ASSUME IInv, [Next]_vars PROVE [Yard!YardNext]_(Yard!yard)
    OBVIOUS
  <2>1. CASE UNCHANGED vars
    BY <2>1, YardStutter DEF vars, callVars
  <2>2. ASSUME NEW i \in Index, PlatformStep(i) PROVE UNCHANGED Yard!yard
    <3>1. UNCHANGED <<tpc, berth, number>>
      BY <2>2 DEF PlatformStep, Listen, AcceptTrain, Free, Signal, callVars
    <3>2. QED  BY <3>1, YardStutter
  <2>3. QED  BY <2>1, <2>2, MainMaps, HandlerMaps, TrainMaps DEF IInv, Next
<1>3. QED  BY <1>1, <1>2, Invariance, PTL DEF Spec, YardSpec, Yard!YardSpec
=============================================================================
