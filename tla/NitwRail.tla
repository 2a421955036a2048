------------------------------- MODULE NitwRail -------------------------------
(***************************************************************************)
(* RAW_Socket/nitwrail: the station master SM.c, the platform processes    *)
(* P.c it forks, and the train processes T.c that visit.                   *)
(*                                                                         *)
(* The station master accepts a train, looks in shared memory for a free   *)
(* platform and passes it the train's socket; when all are busy the train  *)
(* waits in a queue that only the SIGUSR1 handler empties, one train per   *)
(* call.  A platform clears its own flag and raises SIGUSR1 when its train *)
(* leaves.  There is no lock: main, the handler that interrupts it and the *)
(* platforms all touch flag[], one memory access per step here.            *)
(*                                                                         *)
(* The builds considered keep memory accesses in program order (the        *)
(* repository has no optimising build); SIGUSR1 is blocked while its       *)
(* handler runs, as signal(2) does, and pending signals do not queue.      *)
(* Once SM has died the model no longer follows what reads the end of its  *)
(* sockets.                                                                *)
(***************************************************************************)
EXTENDS Integers, Sequences, FiniteSets

CONSTANTS Trains,      \* the T processes that ever connect
          Platforms,   \* the P processes SM forks
          NP,          \* how many platforms there are: 3 in the code
          QueueSlots,  \* length of queue[] and no[]: 100 in the code
          MaxQuits,    \* bound: how many trains are killed by their user
          NoTrain, NoBerth

ASSUME RailAssumption ==
  /\ NP \in Nat \ {0}
  /\ IsFiniteSet(Platforms) /\ Cardinality(Platforms) = NP
  /\ QueueSlots \in Nat
  /\ MaxQuits \in Nat
  /\ NoTrain \notin Trains
  /\ NoBerth \notin 0 .. NP - 1

Index == 0 .. NP - 1

VARIABLES
  flag,        \* flag[0..NP-1]: -1 not claimed, 0 free, 1 busy
  masterPid,   \* flag[NP]: 0, the pid of an earlier run, or SM's
  nusfd,       \* SM's platform sockets, in the order they connected
  fdq,         \* descriptors passed to a platform and not yet read
  ppc,         \* where each platform process is
  platform_no, \* its loop variable i, then its platform_no
  pid,         \* its copy of flag[NP]
  cur,         \* its nsfd: the train it serves
  mpc,         \* where SM's main loop is
  mi,          \* its loop variable i
  nsfd,        \* the train it has just accepted
  train_no,    \* the next train number
  hpc, hi,     \* is the handler active, and its loop variable i
  pending,     \* SIGUSR1 is pending for SM
  queue,       \* queue[] and no[] as one array of records
  scnt, tcnt,  \* trains taken from, and put into, the queue
  backlog,     \* connections SM has not accepted yet
  tpc,         \* where each train process is
  unread,      \* messages sent to a train and not yet received by it
  conn,        \* its connection, as the station's side sees it
  berth,       \* the platform index announced for a train
  number,      \* the number announced for a train
  raced,       \* history: the handler took the platform main had picked
  doubt,       \* history: what main's scan saw may be out of date
  missed       \* history: a train was queued on such a scan

platformVars == <<ppc, platform_no, pid, cur>>
mainVars     == <<mpc, mi, nsfd, train_no>>
queueVars    == <<queue, scnt, tcnt>>
trainVars    == <<tpc, unread, conn>>
callVars     == <<fdq, berth, number>>
history      == <<raced, doubt, missed>>
vars == <<flag, masterPid, nusfd, platformVars, mainVars, hpc, hi, pending,
          queueVars, backlog, trainVars, callVars, history>>

PlatformPC == {"connect", "scan", "claim", "attach", "idle", "recv", "stay",
               "left", "dead"}
MainPC     == {"boot", "select", "scan", "claim", "dispatch", "slot", "count",
               "dead"}
TrainPC    == {"away", "connected", "ready", "berthed", "gone", "quit"}

ShmInitSkipped == flag = [i \in Index |-> 0]   \* mutant
\* shm_init() marks every platform as not claimed.
ShmInit == flag = [i \in Index |-> -1]

\* shm_init() and the three fork()s; flag[NP] is what an earlier run left.
Forked ==
  /\ ShmInit
  /\ masterPid \in {"zero", "stale"}
  /\ nusfd = <<>>
  /\ ppc = [p \in Platforms |-> "connect"]
  /\ platform_no = [p \in Platforms |-> 0]
  /\ pid = [p \in Platforms |-> "unread"]
  /\ mpc = "boot"

FirstNumberZero == train_no = 0   \* mutant
FirstNumber == train_no = 1

NobodyCame ==
  /\ fdq = [p \in Platforms |-> <<>>]
  /\ cur = [p \in Platforms |-> NoTrain]
  /\ mi = 0 /\ nsfd = NoTrain /\ FirstNumber
  /\ hpc = "off" /\ hi = 0 /\ pending = FALSE
  /\ queue = [k \in 0 .. QueueSlots - 1 |-> [fd |-> NoTrain, no |-> 0]]
  /\ scnt = 0 /\ tcnt = 0
  /\ backlog = <<>>
  /\ tpc = [t \in Trains |-> "away"]
  /\ unread = [t \in Trains |-> 0]
  /\ conn = [t \in Trains |-> "open"]
  /\ berth = [t \in Trains |-> NoBerth]
  /\ number = [t \in Trains |-> 0]
  /\ raced = FALSE /\ doubt = FALSE /\ missed = FALSE

Init == Forked /\ NobodyCame

-----------------------------------------------------------------------------
(* Sockets.  When a train has closed (fin), the first send to it is        *)
(* answered by a reset; when it died with bytes unread (reset), the next   *)
(* call reports the error.  A send after either raises SIGPIPE (broken),   *)
(* which kills the sender.                                                 *)

ConnState == {"open", "fin", "reset", "broken"}

Send(t) ==
  /\ unread' = IF conn[t] = "open" THEN [unread EXCEPT ![t] = @ + 1] ELSE unread
  /\ conn' = IF conn[t] = "open" THEN conn ELSE [conn EXCEPT ![t] = "broken"]
  /\ UNCHANGED tpc

-----------------------------------------------------------------------------
(* P.c *)

FreeForgotten(p) == UNCHANGED flag   \* mutant
\* flag[platform_no]=0
FreeFlag(p) == flag' = [flag EXCEPT ![platform_no[p]] = 0]

WakeForgotten(p) == UNCHANGED pending   \* mutant
\* kill(pid,SIGUSR1): a stale pid signals nobody.
Wake(p) == pending' = (pending \/ (pid[p] # "stale" /\ mpc # "dead"))

\* main() connects to ./usfd; SM's accept_UDS hands out nusfd[] in that order.
Connect(p) ==
  /\ ppc[p] = "connect"
  /\ ppc' = [ppc EXCEPT ![p] = "scan"]
  /\ nusfd' = Append(nusfd, p)
  /\ UNCHANGED <<flag, masterPid, platform_no, pid, cur, mainVars, hpc, hi,
                 pending, queueVars, backlog, trainVars, callVars, history>>

\* for(i=0;i<3;i++) if(flag[i]==-1): the read of one flag.
ClaimScan(p) ==
  /\ ppc[p] = "scan"
  /\ IF platform_no[p] \in Index
       THEN IF flag[platform_no[p]] = -1
              THEN /\ ppc' = [ppc EXCEPT ![p] = "claim"]
                   /\ UNCHANGED platform_no
              ELSE /\ platform_no' = [platform_no EXCEPT ![p] = @ + 1]
                   /\ UNCHANGED ppc
       ELSE /\ ppc' = [ppc EXCEPT ![p] = "attach"]
            /\ UNCHANGED platform_no
  /\ UNCHANGED <<flag, masterPid, nusfd, pid, cur, mainVars, hpc, hi, pending,
                 queueVars, backlog, trainVars, callVars, history>>

\* flag[i]=0; break; platform_no=i.
ClaimWrite(p) ==
  /\ ppc[p] = "claim"
  /\ FreeFlag(p)
  /\ ppc' = [ppc EXCEPT ![p] = "attach"]
  /\ UNCHANGED <<masterPid, nusfd, platform_no, pid, cur, mainVars, hpc, hi,
                 pending, queueVars, backlog, trainVars, callVars, history>>

\* int pid=flag[3]
ReadPid(p) ==
  /\ ppc[p] = "attach"
  /\ pid' = [pid EXCEPT ![p] = masterPid]
  /\ ppc' = [ppc EXCEPT ![p] = "idle"]
  /\ UNCHANGED <<flag, masterPid, nusfd, platform_no, cur, mainVars, hpc, hi,
                 pending, queueVars, backlog, trainVars, callVars, history>>

\* read_fd(cusfd,&nsfd)
Take(p) ==
  /\ ppc[p] = "idle"
  /\ fdq[p] # <<>>
  /\ cur' = [cur EXCEPT ![p] = Head(fdq[p])]
  /\ fdq' = [fdq EXCEPT ![p] = Tail(@)]
  /\ ppc' = [ppc EXCEPT ![p] = "recv"]
  /\ UNCHANGED <<flag, masterPid, nusfd, platform_no, pid, mainVars, hpc, hi,
                 pending, queueVars, backlog, trainVars, berth, number, history>>

\* recv() the compartment details, the end of the stream or its error when the
\* train has quit, and send() platform_no.
Greet(p) ==
  /\ ppc[p] = "recv"
  /\ tpc[cur[p]] # "connected"
  /\ IF conn[cur[p]] \in {"reset", "broken"}
       THEN /\ ppc' = [ppc EXCEPT ![p] = "dead"]
            /\ UNCHANGED trainVars
       ELSE /\ ppc' = [ppc EXCEPT ![p] = "stay"]
            /\ Send(cur[p])
  /\ UNCHANGED <<flag, masterPid, nusfd, platform_no, pid, cur, mainVars, hpc,
                 hi, pending, queueVars, backlog, callVars, history>>

\* sleep(10); flag[platform_no]=0
Free(p) ==
  /\ ppc[p] = "stay"
  /\ FreeFlag(p)
  /\ ppc' = [ppc EXCEPT ![p] = "left"]
  /\ UNCHANGED <<masterPid, nusfd, platform_no, pid, cur, mainVars, hpc, hi,
                 pending, queueVars, backlog, trainVars, callVars, history>>

\* send "Left" and kill(pid,SIGUSR1).  Pid 0 signals the whole process group,
\* where only SM has a handler.
Signal(p) ==
  /\ ppc[p] = "left"
  /\ IF conn[cur[p]] = "broken"
       THEN /\ ppc' = [ppc EXCEPT ![p] = "dead"]
            /\ UNCHANGED <<trainVars, pending>>
       ELSE /\ Send(cur[p])
            /\ Wake(p)
            /\ ppc' = IF pid[p] = "zero"
                        THEN [q \in Platforms |-> "dead"]
                        ELSE [ppc EXCEPT ![p] = "idle"]
  /\ UNCHANGED <<flag, masterPid, nusfd, platform_no, pid, cur, mainVars, hpc,
                 hi, queueVars, backlog, callVars, history>>

-----------------------------------------------------------------------------
(* SM.c, main().  A step of main is possible only outside the handler.     *)

ClaimForgotten(i) == UNCHANGED flag   \* mutant
\* flag[i]=1
ClaimFlag(i) == flag' = [flag EXCEPT ![i] = 1]

SameTrainNo == UNCHANGED train_no   \* mutant
\* train_no++
NextTrainNo == train_no' = train_no + 1

DequeueAll == scnt' = tcnt   \* mutant
\* scnt++
Dequeue == scnt' = scnt + 1

AlwaysFirst(i) == nusfd[1]   \* mutant
\* nusfd[i]: the platform process at the other end of SM's i-th socket.
PlatformAt(i) == nusfd[i + 1]

\* All platforms connected: flag[3]=getpid(), listen, signal(SIGUSR1,handler).
Publish ==
  /\ mpc = "boot"
  /\ Len(nusfd) = NP
  /\ masterPid' = "master"
  /\ mpc' = "select"
  /\ UNCHANGED <<flag, nusfd, platformVars, mi, nsfd, train_no, hpc, hi, pending,
                 queueVars, backlog, trainVars, callVars, history>>

\* select() and accept()
Accept ==
  /\ mpc = "select" /\ hpc = "off"
  /\ backlog # <<>>
  /\ nsfd' = Head(backlog)
  /\ backlog' = Tail(backlog)
  /\ mi' = 0
  /\ mpc' = "scan"
  /\ doubt' = FALSE
  /\ UNCHANGED <<flag, masterPid, nusfd, platformVars, train_no, hpc, hi, pending,
                 queueVars, trainVars, callVars, raced, missed>>

\* if(flag[i]==0) break, read for one i; i!=3 decides where the train goes.
Scan ==
  /\ mpc = "scan" /\ hpc = "off"
  /\ IF mi \in Index
       THEN IF flag[mi] = 0
              THEN /\ mpc' = "claim"
                   /\ UNCHANGED <<mi, doubt>>
              ELSE /\ mi' = mi + 1
                   /\ doubt' = (doubt \/ flag[mi] = -1)
                   /\ UNCHANGED mpc
       ELSE /\ mpc' = "slot"
            /\ UNCHANGED <<mi, doubt>>
  /\ UNCHANGED <<flag, masterPid, nusfd, platformVars, nsfd, train_no, hpc, hi,
                 pending, queueVars, backlog, trainVars, callVars, raced, missed>>

Claim ==
  /\ mpc = "claim" /\ hpc = "off"
  /\ ClaimFlag(mi)
  /\ mpc' = "dispatch"
  /\ UNCHANGED <<masterPid, nusfd, platformVars, mi, nsfd, train_no, hpc, hi,
                 pending, queueVars, backlog, trainVars, callVars, history>>

\* send the train its number n, write_fd() it to platform i and announce() it.
HandOver(t, n, i) ==
  /\ Send(t)
  /\ fdq' = [fdq EXCEPT ![PlatformAt(i)] = Append(@, t)]
  /\ berth' = [berth EXCEPT ![t] = i]
  /\ number' = [number EXCEPT ![t] = n]

\* SIGPIPE kills SM in that send(), or in the write to a platform that died.
HandOverKills(t, i) == conn[t] = "broken" \/ ppc[PlatformAt(i)] = "dead"

DieInHandOver(t) ==
  /\ mpc' = "dead"
  /\ IF conn[t] = "broken" THEN UNCHANGED trainVars ELSE Send(t)
  /\ UNCHANGED callVars

Dispatch ==
  /\ mpc = "dispatch" /\ hpc = "off"
  /\ IF HandOverKills(nsfd, mi)
       THEN /\ DieInHandOver(nsfd)
            /\ UNCHANGED train_no
       ELSE /\ HandOver(nsfd, train_no, mi)
            /\ NextTrainNo
            /\ mpc' = "select"
  /\ UNCHANGED <<flag, masterPid, nusfd, platformVars, mi, nsfd, hpc, hi, pending,
                 queueVars, backlog, history>>

\* queue[tcnt]=nsfd; no[tcnt]=train_no.  Past the end of the arrays the
\* behaviour is undefined and the model stops.
Slot ==
  /\ mpc = "slot" /\ hpc = "off"
  /\ tcnt < QueueSlots
  /\ queue' = [queue EXCEPT ![tcnt] = [fd |-> nsfd, no |-> train_no]]
  /\ mpc' = "count"
  /\ UNCHANGED <<flag, masterPid, nusfd, platformVars, mi, nsfd, train_no, hpc, hi,
                 pending, scnt, tcnt, backlog, trainVars, callVars, history>>

\* tcnt++; train_no++
Count ==
  /\ mpc = "count" /\ hpc = "off"
  /\ tcnt' = tcnt + 1
  /\ NextTrainNo
  /\ mpc' = "select"
  /\ missed' = (missed \/ doubt)
  /\ UNCHANGED <<flag, masterPid, nusfd, platformVars, mi, nsfd, hpc, hi, pending,
                 queue, scnt, backlog, trainVars, callVars, raced, doubt>>

-----------------------------------------------------------------------------
(* SM.c, handler(): interrupts main between any two of its steps. *)

HandlerEnter ==
  /\ pending /\ hpc = "off"
  /\ mpc \notin {"boot", "dead"}
  /\ pending' = FALSE
  /\ hi' = 0
  /\ IF scnt < tcnt
       THEN hpc' = "scan" /\ UNCHANGED doubt
       ELSE hpc' = "off" /\ doubt' = TRUE
  /\ UNCHANGED <<flag, masterPid, nusfd, platformVars, mainVars, queueVars, backlog,
                 trainVars, callVars, raced, missed>>

\* if(flag[i]==0) break, read for one i that is not free; i==3 returns.
HandlerScan ==
  /\ hpc = "scan"
  /\ IF hi \in Index
       THEN flag[hi] # 0 /\ hi' = hi + 1 /\ UNCHANGED hpc
       ELSE hpc' = "off" /\ UNCHANGED hi
  /\ UNCHANGED <<flag, masterPid, nusfd, platformVars, mainVars, pending, queueVars,
                 backlog, trainVars, callVars, history>>

\* flag[i]==0 found: flag[i]=1, hand over queue[scnt], scnt++.
HandlerDispatch ==
  LET t == queue[scnt].fd  n == queue[scnt].no IN
  /\ hpc = "scan" /\ hi \in Index
  /\ flag[hi] = 0
  /\ ClaimFlag(hi)
  /\ hpc' = "off"
  /\ raced' = (raced \/ (mpc = "claim" /\ mi = hi))
  /\ IF HandOverKills(t, hi)
       THEN /\ DieInHandOver(t)
            /\ UNCHANGED scnt
       ELSE /\ HandOver(t, n, hi)
            /\ Dequeue
            /\ UNCHANGED mpc
  /\ UNCHANGED <<masterPid, nusfd, platformVars, mi, nsfd, train_no, hi, pending,
                 queue, tcnt, backlog, doubt, missed>>

-----------------------------------------------------------------------------
(* T.c *)

\* connect(): refused, and so no visit, unless SM listens.
Arrive(t) ==
  /\ tpc[t] = "away"
  /\ mpc \notin {"boot", "dead"}
  /\ tpc' = [tpc EXCEPT ![t] = "connected"]
  /\ backlog' = Append(backlog, t)
  /\ UNCHANGED <<flag, masterPid, nusfd, platformVars, mainVars, hpc, hi, pending,
                 queueVars, unread, conn, callVars, history>>

\* A recv() returns all that has arrived.
Receive(t, from, to) ==
  /\ tpc[t] = from
  /\ unread[t] > 0
  /\ tpc' = [tpc EXCEPT ![t] = to]
  /\ unread' = [unread EXCEPT ![t] = 0]

\* mutant
HangUpEarly(t) ==
  /\ Receive(t, "connected", "gone")
  /\ conn' = [conn EXCEPT ![t] = "fin"]
  /\ UNCHANGED <<flag, masterPid, nusfd, platformVars, mainVars, hpc, hi, pending,
                 queueVars, backlog, callVars, history>>

\* recv the number, send the compartment details.
GetNumber(t) ==
  /\ Receive(t, "connected", "ready")
  /\ UNCHANGED <<flag, masterPid, nusfd, platformVars, mainVars, hpc, hi, pending,
                 queueVars, backlog, conn, callVars, history>>

\* recv the platform number.
Berth(t) ==
  /\ Receive(t, "ready", "berthed")
  /\ UNCHANGED <<flag, masterPid, nusfd, platformVars, mainVars, hpc, hi, pending,
                 queueVars, backlog, conn, callVars, history>>

\* recv "Left" and return from main().
Leave(t) ==
  /\ Receive(t, "berthed", "gone")
  /\ conn' = [conn EXCEPT ![t] = "fin"]
  /\ UNCHANGED <<flag, masterPid, nusfd, platformVars, mainVars, hpc, hi, pending,
                 queueVars, backlog, callVars, history>>

\* The user kills the train process.
Quit(t) ==
  /\ tpc[t] \in {"connected", "ready", "berthed"}
  /\ Cardinality({u \in Trains : tpc[u] = "quit"}) < MaxQuits
  /\ tpc' = [tpc EXCEPT ![t] = "quit"]
  /\ conn' = [conn EXCEPT ![t] = IF unread[t] > 0 THEN "reset" ELSE "fin"]
  /\ unread' = [unread EXCEPT ![t] = 0]
  /\ UNCHANGED <<flag, masterPid, nusfd, platformVars, mainVars, hpc, hi, pending,
                 queueVars, backlog, callVars, history>>

-----------------------------------------------------------------------------
PlatformStep(p) == \/ Connect(p) \/ ClaimScan(p) \/ ClaimWrite(p) \/ ReadPid(p)
                   \/ Take(p) \/ Greet(p) \/ Free(p) \/ Signal(p)
MainStep     == Publish \/ Accept \/ Scan \/ Claim \/ Dispatch \/ Slot \/ Count
HandlerStep  == HandlerEnter \/ HandlerScan \/ HandlerDispatch
TrainStep(t) == GetNumber(t) \/ Berth(t) \/ Leave(t)

Next == \/ MainStep
        \/ HandlerStep
        \/ \E p \in Platforms : PlatformStep(p)
        \/ \E t \in Trains : TrainStep(t) \/ Arrive(t) \/ Quit(t)

Spec == Init /\ [][Next]_vars

\* The kernel schedules every process and delivers pending signals; nobody
\* obliges a train to come, nor a user to kill one.
Fairness == /\ WF_vars(MainStep)
            /\ WF_vars(HandlerStep)
            /\ \A p \in Platforms : WF_vars(PlatformStep(p))
            /\ \A t \in Trains : WF_vars(TrainStep(t))

FairSpec == Spec /\ Fairness

-----------------------------------------------------------------------------
(* Properties *)

PlatformTypes ==
  /\ ppc \in [Platforms -> PlatformPC]
  /\ platform_no \in [Platforms -> 0 .. NP]
  /\ pid \in [Platforms -> {"unread", "zero", "stale", "master"}]
  /\ cur \in [Platforms -> Trains \cup {NoTrain}]

SharedTypes ==
  /\ flag \in [Index -> {-1, 0, 1}]
  /\ masterPid \in {"zero", "stale", "master"}
  /\ nusfd \in Seq(Platforms)
  /\ fdq \in [Platforms -> Seq(Trains)]
  /\ backlog \in Seq(Trains)

MasterTypes ==
  /\ mpc \in MainPC /\ mi \in 0 .. NP
  /\ nsfd \in Trains \cup {NoTrain}
  /\ train_no \in Nat \ {0}
  /\ hpc \in {"off", "scan"} /\ hi \in 0 .. NP

BooleanTypes ==
  /\ pending \in BOOLEAN
  /\ raced \in BOOLEAN /\ doubt \in BOOLEAN /\ missed \in BOOLEAN

QueueTypes ==
  /\ queue \in [0 .. QueueSlots - 1 -> [fd : Trains \cup {NoTrain}, no : Nat]]
  /\ scnt \in 0 .. QueueSlots /\ tcnt \in 0 .. QueueSlots

TrainTypes ==
  /\ tpc \in [Trains -> TrainPC]
  /\ unread \in [Trains -> Nat]
  /\ conn \in [Trains -> ConnState]
  /\ berth \in [Trains -> Index \cup {NoBerth}]
  /\ number \in [Trains -> Nat]

TypeOK == /\ PlatformTypes /\ SharedTypes /\ MasterTypes /\ BooleanTypes
          /\ QueueTypes /\ TrainTypes

Called(t)   == berth[t] # NoBerth
Claimed(p)  == ppc[p] \notin {"connect", "scan", "claim"}
Load(p)     == Len(fdq[p]) + IF ppc[p] \in {"recv", "stay"} THEN 1 ELSE 0

\* Every platform found the index SM knows it by: the platforms claimed their
\* flags in the order in which they connected.
Aligned == \A p \in Platforms : Claimed(p) => nusfd[platform_no[p] + 1] = p

\* The claim loop of P.c:181-187 has no lock and no else branch.  Even when two
\* platforms claim one flag, no platform runs past the flags, where its
\* flag[platform_no]=0 would overwrite the station master's pid.
EveryPlatformFindsASlot ==
  \A p \in Platforms : Claimed(p) => platform_no[p] \in Index

\* What waits is distinct, uncalled and numbered apart from every called train.
WaitersApart ==
  LET waiting == scnt .. tcnt - 1 IN
  /\ scnt <= tcnt
  /\ \A k \in waiting :
       /\ queue[k].fd \in Trains
       /\ ~Called(queue[k].fd)
       /\ queue[k].no < train_no
       /\ \A j \in waiting : j # k => /\ queue[j].fd # queue[k].fd
                                      /\ queue[j].no # queue[k].no
       /\ \A t \in Trains : Called(t) => number[t] # queue[k].no

\* Where a train is that has come and is not called: not yet accepted, the train that main
\* has accepted last, or in the queue.
Queued(t)   == \E k \in scnt .. tcnt - 1 : queue[k].fd = t
Accepted(t) == mpc # "select" /\ nsfd = t
NobodyLost ==
  \A t \in Trains : tpc[t] # "away" =>
    Called(t) \/ Queued(t) \/ Accepted(t) \/ \E j \in DOMAIN backlog : backlog[j] = t

\* The queue holds trains in the order of their numbers, in which main accepted them, and
\* those that the handler has called are the first scnt of them, each by its number.
CalledInTurn ==
  /\ \A j, k \in 0 .. tcnt - 1 : j < k => queue[j].no < queue[k].no
  /\ \A k \in 0 .. scnt - 1 : Called(queue[k].fd) /\ number[queue[k].fd] = queue[k].no

\* The queue that main fills and the handler that interrupts it empties loses, repeats and
\* renames no train, and is first in, first out.  (A train that finds a platform free when
\* main accepts it overtakes those that wait: SM.c:281 does not look at the queue.)
QueueDiscipline == WaitersApart /\ NobodyLost /\ CalledInTurn

\* flag[i] is 1 exactly while platform i has a train or is about to be handed
\* one: no flag leaks and none is freed early, as long as nobody dies, the
\* flags were claimed in order and the handler did not race main for one.
FlagTellsTheTruth ==
  Aligned /\ ~raced /\ mpc # "dead" =>
    \A p \in Platforms : Claimed(p) /\ ppc[p] # "dead" =>
      (flag[platform_no[p]] = 1 <=>
         Load(p) > 0 \/ (mpc = "dispatch" /\ mi = platform_no[p]))

\* A platform is given a second train while it serves one only when the handler
\* took the platform that main had read as free (SM.c:281-286), or when the
\* platforms claimed their flags out of order (P.c:181-187).
OverbookedOnlyByRace ==
  Aligned /\ ~raced => \A p \in Platforms : Load(p) <= 1

\* The platform that serves a train is the one SM announced and the platform
\* says it is, unless the flags were claimed out of order.
AnnouncedWhereServed ==
  Aligned => \A p \in Platforms :
    ppc[p] \in {"recv", "stay", "left"} => berth[cur[p]] = platform_no[p]

\* A train waits with nobody left to wake the station master only if main
\* queued it on a scan that was already out of date: a platform had become
\* free, and signalled, after the scan passed it.
StrandedOnlyByMissedWakeup ==
  \/ scnt = tcnt
  \/ missed
  \/ mpc = "dead" \/ \E p \in Platforms : ppc[p] = "dead" \/ pid[p] = "stale"
  \/ pending \/ hpc # "off"
  \/ mpc \in {"claim", "dispatch"}
  \/ \E p \in Platforms : fdq[p] # <<>> \/ ppc[p] \in {"recv", "stay", "left"}

\* Neither SM nor a platform dies unless a user kills a train or a platform
\* read flag[3] before SM wrote its pid there (P.c:190, SM.c:226).
DeathNeedsACause ==
  (mpc = "dead" \/ \E p \in Platforms : ppc[p] = "dead") =>
    \/ \E t \in Trains : tpc[t] = "quit"
    \/ \E p \in Platforms : pid[p] = "zero"

\* Where a train is in its visit, as its user sees it.
Phase(t) == IF tpc[t] \in {"away", "gone", "quit"} THEN tpc[t] ELSE "in"

\* What the station promises its trains: TrainYard.
Yard == INSTANCE TrainYard WITH
  Berths  <- Index,
  Numbers <- Nat,
  phase   <- [t \in Trains |-> Phase(t)]

YardSpec == Yard!YardSpec

\* Every platform knows SM's pid, and no wake-up was missed.
Healthy == /\ \A p \in Platforms : pid[p] \in {"unread", "master"}
           /\ ~missed

\* At a healthy station where no user kills a train (MaxQuits = 0), every train that
\* connects is called and leaves, if "Left" is never received together with the
\* platform number: T.c would then wait for it for ever (T.c:61-63).
EveryTrainLeaves ==
  [](Healthy /\ \A t \in Trains : unread[t] <= 1) =>
    \A t \in Trains : tpc[t] = "connected" ~> tpc[t] = "gone"
=============================================================================
