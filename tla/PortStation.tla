----------------------------- MODULE PortStation -----------------------------
(***************************************************************************)
(* MID/Mid 4: the station master station_master.c, the three platform      *)
(* processes platform.c it starts with popen(), and the trains train.c.    *)
(*                                                                         *)
(* Same queue, flags and SIGUSR1 handler as nitwrail, but a train is sent  *)
(* to its platform by port number: SM answers, closes, and the train       *)
(* connects again.  Nobody tells SM whether the train ever got there.      *)
(*                                                                         *)
(* Program order and signals are treated as in NitwRail.  Once SM has died *)
(* the model no longer follows the trains it had not called.               *)
(***************************************************************************)
EXTENDS Integers, Sequences, FiniteSets

CONSTANTS Trains,      \* the train processes that ever connect
          NP,          \* platforms, ports and pipes: 3 in the code
          QueueSlots,  \* length of queue[] and no[]: 100 in the code
          MaxQuits,    \* bound: how many trains are killed by their user
          MaxBindFailures,  \* bound: how many platforms find their port taken
          NoTrain, NoBerth

ASSUME PortAssumption ==
  /\ NP \in Nat \ {0}
  /\ QueueSlots \in Nat /\ MaxQuits \in Nat /\ MaxBindFailures \in Nat
  /\ NoTrain \notin Trains
  /\ NoBerth \notin 0 .. NP - 1

Index == 0 .. NP - 1

VARIABLES
  flag,        \* flag[0..NP-1]: 0 free, 1 busy
  ppc,         \* where each platform process is
  cur,         \* the train it serves
  arrivals,    \* connections to its port it has not accepted
  mpc, mi,     \* where main is, and its loop variable i
  nsfd,        \* the train main has just accepted
  train_no,    \* the next train number
  hpc, hi,     \* is the handler active, and its loop variable i
  pending,     \* SIGUSR1 is pending for SM
  queue, scnt, tcnt,
  backlog,     \* connections to SM it has not accepted
  tpc,         \* where each train process is
  berth,       \* the platform whose port SM sent a train
  number,      \* the number it sent
  left,        \* "Left" was sent to the train
  raced, doubt, missed  \* history, as in NitwRail

platformVars == <<ppc, cur>>
mainVars     == <<mpc, mi, nsfd, train_no>>
handlerVars  == <<hpc, hi, pending>>
queueVars    == <<queue, scnt, tcnt>>
callVars     == <<berth, number>>
history      == <<raced, doubt, missed>>
vars == <<flag, platformVars, arrivals, mainVars, handlerVars, queueVars, backlog,
          tpc, callVars, left, history>>

\* shm_init(): every platform is free from the start.
Init ==
  /\ flag = [i \in Index |-> 0]
  /\ ppc = [i \in Index |-> "start"]
  /\ cur = [i \in Index |-> NoTrain]
  /\ arrivals = [i \in Index |-> <<>>]
  /\ mpc = "select" /\ mi = 0 /\ nsfd = NoTrain /\ train_no = 1
  /\ hpc = "off" /\ hi = 0 /\ pending = FALSE
  /\ queue = [k \in 0 .. QueueSlots - 1 |-> [fd |-> NoTrain, no |-> 0]]
  /\ scnt = 0 /\ tcnt = 0
  /\ backlog = <<>>
  /\ tpc = [t \in Trains |-> "away"]
  /\ berth = [t \in Trains |-> NoBerth]
  /\ number = [t \in Trains |-> 0]
  /\ left = [t \in Trains |-> FALSE]
  /\ raced = FALSE /\ doubt = FALSE /\ missed = FALSE

-----------------------------------------------------------------------------
(* platform.c *)

\* bind() and listen() on the platform's port, or exit when it is taken.
Listen(i) ==
  /\ ppc[i] = "start"
  /\ \/ ppc' = [ppc EXCEPT ![i] = "accept"]
     \/ /\ Cardinality({j \in Index : ppc[j] = "dead"}) < MaxBindFailures
        /\ ppc' = [ppc EXCEPT ![i] = "dead"]
  /\ UNCHANGED <<flag, cur, arrivals, mainVars, handlerVars, queueVars, backlog, tpc,
                 callVars, left, history>>

\* accept() and recv() of the compartment details, or of the end of the stream.
AcceptTrain(i) ==
  /\ ppc[i] = "accept"
  /\ arrivals[i] # <<>>
  /\ cur' = [cur EXCEPT ![i] = Head(arrivals[i])]
  /\ arrivals' = [arrivals EXCEPT ![i] = Tail(@)]
  /\ ppc' = [ppc EXCEPT ![i] = "stay"]
  /\ UNCHANGED <<flag, mainVars, handlerVars, queueVars, backlog, tpc, callVars, left,
                 history>>

FreeForgotten(i) == UNCHANGED flag   \* mutant
\* flag[platform_no]=0
FreeFlag(i) == flag' = [flag EXCEPT ![i] = 0]

\* sleep(50); flag[platform_no]=0
Free(i) ==
  /\ ppc[i] = "stay"
  /\ FreeFlag(i)
  /\ ppc' = [ppc EXCEPT ![i] = "left"]
  /\ UNCHANGED <<cur, arrivals, mainVars, handlerVars, queueVars, backlog, tpc, callVars,
                 left, history>>

WakeForgotten == UNCHANGED pending   \* mutant
\* kill(pid,SIGUSR1)
Wake == pending' = (mpc # "dead")

\* send "Left", the first message on this connection, and wake SM.
Signal(i) ==
  /\ ppc[i] = "left"
  /\ left' = [left EXCEPT ![cur[i]] = TRUE]
  /\ Wake
  /\ ppc' = [ppc EXCEPT ![i] = "accept"]
  /\ UNCHANGED <<flag, cur, arrivals, mainVars, hpc, hi, queueVars, backlog, tpc, callVars,
                 history>>

-----------------------------------------------------------------------------
(* station_master.c, main() *)

\* send the train its port and number, and close().  announce() then writes to
\* every platform's pipe, and SIGPIPE kills SM if one of them has exited.
Answer(t, n, i) ==
  /\ berth' = [berth EXCEPT ![t] = i]
  /\ number' = [number EXCEPT ![t] = n]

AnnounceKills == \E i \in Index : ppc[i] = "dead"

\* flag[i]=1
ClaimFlag(i) == flag' = [flag EXCEPT ![i] = 1]

Accept ==
  /\ mpc = "select" /\ hpc = "off"
  /\ backlog # <<>>
  /\ nsfd' = Head(backlog)
  /\ backlog' = Tail(backlog)
  /\ mi' = 0
  /\ mpc' = "scan"
  /\ doubt' = FALSE
  /\ UNCHANGED <<flag, platformVars, arrivals, train_no, handlerVars, queueVars, tpc,
                 callVars, left, raced, missed>>

\* if(flag[i]==0) break, for one i
Scan ==
  /\ mpc = "scan" /\ hpc = "off"
  /\ \/ /\ mi \in Index /\ flag[mi] = 0
        /\ mpc' = "claim" /\ UNCHANGED mi
     \/ /\ mi \in Index /\ flag[mi] # 0
        /\ mi' = mi + 1 /\ UNCHANGED mpc
     \/ /\ mi \notin Index
        /\ mpc' = "slot" /\ UNCHANGED mi
  /\ UNCHANGED <<flag, platformVars, arrivals, nsfd, train_no, handlerVars, queueVars,
                 backlog, tpc, callVars, left, history>>

Claim ==
  /\ mpc = "claim" /\ hpc = "off"
  /\ ClaimFlag(mi)
  /\ mpc' = "answer"
  /\ UNCHANGED <<platformVars, arrivals, mi, nsfd, train_no, handlerVars, queueVars,
                 backlog, tpc, callVars, left, history>>

SameTrainNo == UNCHANGED train_no   \* mutant
\* train_no++
NextTrainNo == train_no' = train_no + 1

AnswerMain ==
  /\ mpc = "answer" /\ hpc = "off"
  /\ Answer(nsfd, train_no, mi)
  /\ IF AnnounceKills
       THEN mpc' = "dead" /\ UNCHANGED train_no
       ELSE mpc' = "select" /\ NextTrainNo
  /\ UNCHANGED <<flag, platformVars, arrivals, mi, nsfd, handlerVars, queueVars, backlog,
                 tpc, left, history>>

\* queue[tcnt]=nsfd; no[tcnt]=train_no.  The model stops at the end of the arrays.
Slot ==
  /\ mpc = "slot" /\ hpc = "off"
  /\ tcnt < QueueSlots
  /\ queue' = [queue EXCEPT ![tcnt] = [fd |-> nsfd, no |-> train_no]]
  /\ mpc' = "count"
  /\ UNCHANGED <<flag, platformVars, arrivals, mi, nsfd, train_no, handlerVars, scnt, tcnt,
                 backlog, tpc, callVars, left, history>>

\* tcnt++; train_no++
Count ==
  /\ mpc = "count" /\ hpc = "off"
  /\ tcnt' = tcnt + 1
  /\ NextTrainNo
  /\ mpc' = "select"
  /\ missed' = (missed \/ doubt)
  /\ UNCHANGED <<flag, platformVars, arrivals, mi, nsfd, handlerVars, queue, scnt, backlog,
                 tpc, callVars, left, raced, doubt>>

-----------------------------------------------------------------------------
(* station_master.c, handler() *)

OffByOne == scnt <= tcnt   \* mutant
\* if(scnt<tcnt)
SomebodyWaits == scnt < tcnt

HandlerEnter ==
  /\ pending /\ hpc = "off" /\ mpc # "dead"
  /\ pending' = FALSE
  /\ hi' = 0
  /\ IF SomebodyWaits
       THEN hpc' = "scan" /\ UNCHANGED doubt
       ELSE hpc' = "off" /\ doubt' = TRUE
  /\ UNCHANGED <<flag, platformVars, arrivals, mainVars, queueVars, backlog, tpc, callVars,
                 left, raced, missed>>

HandlerScan ==
  /\ hpc = "scan"
  /\ \/ hi \in Index /\ flag[hi] # 0 /\ hi' = hi + 1 /\ UNCHANGED hpc
     \/ hi \notin Index /\ hpc' = "off" /\ UNCHANGED hi
  /\ UNCHANGED <<flag, platformVars, arrivals, mainVars, pending, queueVars, backlog, tpc,
                 callVars, left, history>>

\* scnt++
Dequeue == scnt' = scnt + 1

\* flag[i]==0 found: flag[i]=1, answer queue[scnt], scnt++
HandlerAnswer ==
  /\ hpc = "scan" /\ hi \in Index
  /\ flag[hi] = 0
  /\ ClaimFlag(hi)
  /\ hpc' = "off"
  /\ raced' = (raced \/ (mpc = "claim" /\ mi = hi))
  /\ Answer(queue[scnt].fd, queue[scnt].no, hi)
  /\ IF AnnounceKills
       THEN mpc' = "dead" /\ UNCHANGED scnt
       ELSE Dequeue /\ UNCHANGED mpc
  /\ UNCHANGED <<platformVars, arrivals, mi, nsfd, train_no, hi, pending, queue, tcnt,
                 backlog, tpc, left, doubt, missed>>

-----------------------------------------------------------------------------
(* train.c *)

Arrive(t) ==
  /\ tpc[t] = "away" /\ mpc # "dead"
  /\ tpc' = [tpc EXCEPT ![t] = "connected"]
  /\ backlog' = Append(backlog, t)
  /\ UNCHANGED <<flag, platformVars, arrivals, mainVars, handlerVars, queueVars, callVars,
                 left, history>>

\* recv the port and the number, close, sleep(1).
GetPort(t) ==
  /\ tpc[t] = "connected" /\ berth[t] # NoBerth
  /\ tpc' = [tpc EXCEPT ![t] = "told"]
  /\ UNCHANGED <<flag, platformVars, arrivals, mainVars, handlerVars, queueVars, backlog,
                 callVars, left, history>>

\* connect() to the platform and send the compartment details.
Join(t) ==
  /\ tpc' = [tpc EXCEPT ![t] = "berthed"]
  /\ arrivals' = [arrivals EXCEPT ![berth[t]] = Append(@, t)]

\* connect() again; exit(1) if the platform does not listen.
Reconnect(t) ==
  /\ tpc[t] = "told"
  /\ IF ppc[berth[t]] \in {"start", "dead"}
       THEN tpc' = [tpc EXCEPT ![t] = "refused"] /\ UNCHANGED arrivals
       ELSE Join(t)
  /\ UNCHANGED <<flag, platformVars, mainVars, handlerVars, queueVars, backlog, callVars,
                 left, history>>

\* recv "Left"
Leave(t) ==
  /\ tpc[t] = "berthed" /\ left[t]
  /\ tpc' = [tpc EXCEPT ![t] = "gone"]
  /\ UNCHANGED <<flag, platformVars, arrivals, mainVars, handlerVars, queueVars, backlog,
                 callVars, left, history>>

\* The user kills the train process.
Quit(t) ==
  /\ tpc[t] \in {"connected", "told", "berthed"}
  /\ Cardinality({u \in Trains : tpc[u] = "quit"}) < MaxQuits
  /\ tpc' = [tpc EXCEPT ![t] = "quit"]
  /\ UNCHANGED <<flag, platformVars, arrivals, mainVars, handlerVars, queueVars, backlog,
                 callVars, left, history>>

-----------------------------------------------------------------------------
PlatformStep(i) == Listen(i) \/ AcceptTrain(i) \/ Free(i) \/ Signal(i)
MainStep        == Accept \/ Scan \/ Claim \/ AnswerMain \/ Slot \/ Count
HandlerStep     == HandlerEnter \/ HandlerScan \/ HandlerAnswer
TrainStep(t)    == GetPort(t) \/ Reconnect(t) \/ Leave(t)

Next == \/ MainStep
        \/ HandlerStep
        \/ \E i \in Index : PlatformStep(i)
        \/ \E t \in Trains : TrainStep(t) \/ Arrive(t) \/ Quit(t)

Spec == Init /\ [][Next]_vars

\* As in NitwRail: processes run, nobody obliges a train to come.
Fairness == /\ WF_vars(MainStep)
            /\ WF_vars(HandlerStep)
            /\ \A i \in Index : WF_vars(PlatformStep(i))
            /\ \A t \in Trains : WF_vars(TrainStep(t))

FairSpec == Spec /\ Fairness

-----------------------------------------------------------------------------
(* Properties *)

PlatformTypes ==
  /\ flag \in [Index -> {0, 1}]
  /\ ppc \in [Index -> {"start", "accept", "stay", "left", "dead"}]
  /\ cur \in [Index -> Trains \cup {NoTrain}]
  /\ arrivals \in [Index -> Seq(Trains)]

MasterTypes ==
  /\ mpc \in {"select", "scan", "claim", "answer", "slot", "count", "dead"}
  /\ mi \in 0 .. NP /\ nsfd \in Trains \cup {NoTrain} /\ train_no \in Nat
  /\ hpc \in {"off", "scan"} /\ hi \in 0 .. NP
  /\ pending \in BOOLEAN /\ raced \in BOOLEAN /\ doubt \in BOOLEAN /\ missed \in BOOLEAN

QueueTypes ==
  /\ queue \in [0 .. QueueSlots - 1 -> [fd : Trains \cup {NoTrain}, no : Nat]]
  /\ scnt \in 0 .. tcnt /\ tcnt \in 0 .. QueueSlots
  /\ backlog \in Seq(Trains)

TrainTypes ==
  /\ tpc \in [Trains -> {"away", "connected", "told", "berthed", "gone", "refused", "quit"}]
  /\ berth \in [Trains -> Index \cup {NoBerth}]
  /\ number \in [Trains -> Nat]
  /\ left \in [Trains -> BOOLEAN]

TypeOK == PlatformTypes /\ MasterTypes /\ QueueTypes /\ TrainTypes

Called(t) == berth[t] # NoBerth

AtPlatform(i) == {arrivals[i][k] : k \in DOMAIN arrivals[i]} \cup
                 IF ppc[i] = "stay" THEN {cur[i]} ELSE {}

\* Trains that will still come to platform i, or are there.
Bound(i) == {t \in Trains : berth[t] = i /\ tpc[t] \in {"connected", "told"}} \cup
            AtPlatform(i)

\* A train sent to platform i that never got there and never will.
LostOnTheWay(t, i) ==
  /\ berth[t] = i
  /\ tpc[t] \in {"refused", "quit"}
  /\ ~left[t] /\ t \notin AtPlatform(i) /\ ~(ppc[i] = "left" /\ cur[i] = t)

Leaked(i) == \E t \in Trains : LostOnTheWay(t, i)

\* Each platform serves the trains SM sent to it.
ServedWhereSent ==
  \A i \in Index : \A t \in AtPlatform(i) : berth[t] = i

\* A flag is 1 exactly while one train is on its way to the platform or at it,
\* or for ever, once a train that was sent there was refused or killed before
\* it arrived: only the platform frees its flag, and only after serving.  It is
\* also 1 while main is about to answer a train, and stays so if the handler's
\* announcement kills SM in between.
FlagTellsTheTruth ==
  ~raced => \A i \in Index :
    /\ Cardinality(Bound(i)) <= 1
    /\ Bound(i) # {} \/ Leaked(i) \/ (mpc = "answer" /\ mi = i) => flag[i] = 1
    /\ flag[i] = 1 =>
         Bound(i) # {} \/ Leaked(i) \/ (mpc \in {"answer", "dead"} /\ mi = i)

\* The flags tell the truth, and the trains at a platform are those SM sent there.
StationInv == TypeOK /\ FlagTellsTheTruth /\ ServedWhereSent

\* A train waits with nobody left to wake SM only on a missed wake-up, when SM
\* died, or when a train that never came broke the chain of wake-ups.  One lost
\* train is enough, with a platform free: two departures may raise one signal,
\* and then the only train that the handler answered must be the next to wake SM.
StrandedOnlyByMissOrLeak ==
  \/ scnt = tcnt
  \/ missed \/ mpc = "dead"
  \/ pending \/ hpc # "off" \/ mpc \in {"claim", "answer"}
  \/ \E i \in Index : Bound(i) # {} \/ ppc[i] = "left"
  \/ \E i \in Index : Leaked(i)

Phase(t) == CASE tpc[t] \in {"away", "gone"} -> tpc[t]
              [] tpc[t] \in {"refused", "quit"} -> "quit"
              [] OTHER -> "in"

\* The promise of TrainYard: one call, one number of its own, no departure
\* before the call.
Yard == INSTANCE TrainYard WITH
  Berths  <- Index,
  Numbers <- Nat,
  phase   <- [t \in Trains |-> Phase(t)]

YardSpec == Yard!YardSpec

\* When every platform listens in time, no user kills a train and no wake-up is
\* missed, every train is called, served and leaves.
EveryTrainLeaves ==
  [](/\ ~missed
     /\ \A i \in Index : ppc[i] # "dead"
     /\ \A t \in Trains : tpc[t] \notin {"refused", "quit"}) =>
    \A t \in Trains : tpc[t] = "connected" ~> tpc[t] = "gone"
=============================================================================
