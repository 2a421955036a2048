------------------------- MODULE ServiceCoordinator -------------------------
(***************************************************************************)
(* OS_Using_Poll/Service_Cordinator: the coordinator sc.c, the servers s.c *)
(* and the clients client.c (Programs_Using_Select holds the same programs *)
(* with select() in the client).                                           *)
(*                                                                         *)
(* A client puts the name of its fifo into shared memory and sends SIGUSR1 *)
(* to the coordinator, whose handler waits on a semaphore for a free       *)
(* server and marks one in s[].  A marked server takes the next name,      *)
(* answers one request over the client's two fifos, and frees itself.      *)
(* d->in, d->out and the names are shared without a lock.                  *)
(*                                                                         *)
(* A name is its client.  The coordinator has started when the model does; *)
(* servers start whenever their user likes.  SIGUSR1 is blocked while the  *)
(* handler runs, and a second pending signal is lost.                      *)
(***************************************************************************)
EXTENDS Integers, FiniteSets

CONSTANTS Clients,  \* the client processes
          NS,       \* No_of_Servers: 2 in the code
          Slots,    \* length of d->name[]: 30 in the code
          NoName

Servers == 0 .. NS - 1

ASSUME CoordinatorAssumption ==
  /\ NS \in Nat \ {0} /\ Slots \in Nat
  /\ IsFiniteSet(Clients)
  /\ Cardinality(Clients) < Slots
  /\ NoName \notin Clients

VARIABLES
  name, in, out,  \* struct Data
  s,              \* s[i]: 1 when server i has been given a client
  sem,            \* the semaphore
  pending,        \* SIGUSR1 is pending for the coordinator
  hpc, hi,        \* where the handler is, and its loop variable i
  spc,            \* where each server is
  job,            \* the name it has copied
  stmp,           \* its copy of d->in in d->in++
  cpc,            \* where each client is
  slot, ctmp,     \* the d->out it indexed with, and its copy in d->out++
  line,           \* the request in the client's fifo: "none", "sent", "taken"
  reply,          \* the reply in its other fifo
  outRaced,       \* history: two clients were putting their names at once
  inRaced,        \* history: two servers were taking a name at once
  coalesced,      \* history: a signal was lost to one already pending
  reset           \* history: a starting server changed the semaphore

dataVars   == <<name, in, out>>
handlerVars == <<hpc, hi>>
serverVars == <<spc, job, stmp>>
clientVars == <<cpc, slot, ctmp>>
fifoVars   == <<line, reply>>
history    == <<outRaced, inRaced, coalesced, reset>>
vars == <<dataVars, s, sem, pending, handlerVars, serverVars, clientVars, fifoVars, history>>

Init ==
  /\ name = [k \in 0 .. Slots - 1 |-> NoName] /\ in = 0 /\ out = 0
  /\ s = [n \in Servers |-> 0]
  /\ sem = NS
  /\ pending = FALSE
  /\ hpc = "off" /\ hi = 0
  /\ spc = [n \in Servers |-> "off"]
  /\ job = [n \in Servers |-> NoName]
  /\ stmp = [n \in Servers |-> 0]
  /\ cpc = [c \in Clients |-> "away"]
  /\ slot = [c \in Clients |-> 0] /\ ctmp = [c \in Clients |-> 0]
  /\ line = [c \in Clients |-> "none"]
  /\ reply = [c \in Clients |-> FALSE]
  /\ outRaced = FALSE /\ inRaced = FALSE /\ coalesced = FALSE /\ reset = FALSE

-----------------------------------------------------------------------------
(* client.c *)

Putting == {"located", "named", "loaded"}

\* The fifos are made; d->out is read as an index ...
Locate(c) ==
  /\ cpc[c] = "away"
  /\ slot' = [slot EXCEPT ![c] = out]
  /\ outRaced' = (outRaced \/ \E d \in Clients : cpc[d] \in Putting)
  /\ cpc' = [cpc EXCEPT ![c] = "located"]
  /\ UNCHANGED <<dataVars, s, sem, pending, handlerVars, serverVars, ctmp, fifoVars,
                 inRaced, coalesced, reset>>

\* ... of the element the name is copied to.
PutName(c) ==
  /\ cpc[c] = "located"
  /\ name' = [name EXCEPT ![slot[c]] = c]
  /\ cpc' = [cpc EXCEPT ![c] = "named"]
  /\ UNCHANGED <<in, out, s, sem, pending, handlerVars, serverVars, slot, ctmp, fifoVars,
                 history>>

\* d->out++ reads d->out ...
LoadOut(c) ==
  /\ cpc[c] = "named"
  /\ ctmp' = [ctmp EXCEPT ![c] = out]
  /\ cpc' = [cpc EXCEPT ![c] = "loaded"]
  /\ UNCHANGED <<dataVars, s, sem, pending, handlerVars, serverVars, slot, fifoVars,
                 history>>

OutForgotten(c) == ctmp[c]   \* mutant
NextOut(c) == ctmp[c] + 1

\* ... and writes it back.  The two threads start to open the fifos.
StoreOut(c) ==
  /\ cpc[c] = "loaded"
  /\ out' = NextOut(c)
  /\ cpc' = [cpc EXCEPT ![c] = "open"]
  /\ UNCHANGED <<name, in, s, sem, pending, handlerVars, serverVars, slot, ctmp, fifoVars,
                 history>>

SignalForgotten == UNCHANGED pending   \* mutant
\* kill(*p,SIGUSR1)
Wake == pending' = TRUE

Signal(c) ==
  /\ cpc[c] = "open"
  /\ Wake
  /\ coalesced' = (coalesced \/ pending)
  /\ cpc' = [cpc EXCEPT ![c] = "waiting"]
  /\ UNCHANGED <<dataVars, s, sem, handlerVars, serverVars, slot, ctmp, fifoVars,
                 outRaced, inRaced, reset>>

\* The client's threads are waiting at, or have opened, its fifos.
AtFifos(c) == cpc[c] \in {"open", "waiting"}

\* A server has the fifo open to read the request.
Opened(c) == \E n \in Servers : job[n] = c /\ spc[n] \in {"reply fifo", "read"}

\* function2(): the user types a request, which is written.
Type(c) ==
  /\ AtFifos(c) /\ Opened(c)
  /\ line[c] = "none"
  /\ line' = [line EXCEPT ![c] = "sent"]
  /\ UNCHANGED <<dataVars, s, sem, pending, handlerVars, serverVars, clientVars, reply,
                 history>>

\* function1() reads the reply; both threads are joined and the client exits.
Leave(c) ==
  /\ cpc[c] = "waiting"
  /\ reply[c] /\ line[c] # "none"
  /\ cpc' = [cpc EXCEPT ![c] = "gone"]
  /\ UNCHANGED <<dataVars, s, sem, pending, handlerVars, serverVars, slot, ctmp, fifoVars,
                 history>>

Client(c) == Locate(c) \/ PutName(c) \/ LoadOut(c) \/ StoreOut(c) \/ Signal(c)
             \/ Type(c) \/ Leave(c)

-----------------------------------------------------------------------------
(* sc.c, handler() *)

Enter ==
  /\ hpc = "off" /\ pending
  /\ pending' = FALSE
  /\ hpc' = "wait"
  /\ UNCHANGED <<dataVars, s, sem, hi, serverVars, clientVars, fifoVars, history>>

\* semop(sem,&wait,1)
Down == sem > 0 /\ sem' = sem - 1

SemWait ==
  /\ hpc = "wait"
  /\ Down
  /\ hpc' = "scan" /\ hi' = 0
  /\ UNCHANGED <<dataVars, s, pending, serverVars, clientVars, fifoVars, history>>

\* The first i with s[i]==0 is marked; without one the handler returns all the same.
\* No other process turns a 0 into a 1, so the test and the mark are one step.
Scan ==
  /\ hpc = "scan"
  /\ \/ /\ hi < NS /\ s[hi] = 0
        /\ s' = [s EXCEPT ![hi] = 1]
        /\ hpc' = "off" /\ UNCHANGED hi
     \/ /\ hi < NS /\ s[hi] = 1
        /\ hi' = hi + 1
        /\ UNCHANGED <<s, hpc>>
     \/ /\ hi = NS
        /\ hpc' = "off"
        /\ UNCHANGED <<s, hi>>
  /\ UNCHANGED <<dataVars, sem, pending, serverVars, clientVars, fifoVars, history>>

Coordinator == Enter \/ SemWait \/ Scan

-----------------------------------------------------------------------------
(* s.c *)

\* semctl(sem,0,SETVAL,No_of_Servers), by every server that starts.
Start(n) ==
  /\ spc[n] = "off"
  /\ sem' = NS
  /\ reset' = (reset \/ sem # NS)
  /\ spc' = [spc EXCEPT ![n] = "idle"]
  /\ UNCHANGED <<dataVars, s, pending, handlerVars, job, stmp, clientVars, fifoVars,
                 outRaced, inRaced, coalesced>>

Taking == {"copied", "loaded"}

\* if(s[num]==1) strcpy(fifoname,d->name[d->in])
CopyName(n) ==
  /\ spc[n] = "idle" /\ s[n] = 1
  /\ job' = [job EXCEPT ![n] = name[in]]
  /\ inRaced' = (inRaced \/ \E m \in Servers : spc[m] \in Taking)
  /\ spc' = [spc EXCEPT ![n] = "copied"]
  /\ UNCHANGED <<dataVars, s, sem, pending, handlerVars, stmp, clientVars, fifoVars,
                 outRaced, coalesced, reset>>

\* d->in++ reads d->in ...
LoadIn(n) ==
  /\ spc[n] = "copied"
  /\ stmp' = [stmp EXCEPT ![n] = in]
  /\ spc' = [spc EXCEPT ![n] = "loaded"]
  /\ UNCHANGED <<dataVars, s, sem, pending, handlerVars, job, clientVars, fifoVars, history>>

InForgotten(n) == stmp[n]   \* mutant
NextIn(n) == stmp[n] + 1

\* ... and writes it back.  An empty name cannot be opened: read() and write() then
\* fail at once.
StoreIn(n) ==
  /\ spc[n] = "loaded"
  /\ in' = NextIn(n)
  /\ spc' = [spc EXCEPT ![n] = IF job[n] = NoName THEN "free" ELSE "request fifo"]
  /\ UNCHANGED <<name, out, s, sem, pending, handlerVars, job, stmp, clientVars, fifoVars,
                 history>>

\* open() of either fifo waits for the client to open its other end.
OpenFifo(n, from, to) ==
  /\ spc[n] = from
  /\ AtFifos(job[n])
  /\ spc' = [spc EXCEPT ![n] = to]
  /\ UNCHANGED <<dataVars, s, sem, pending, handlerVars, job, stmp, clientVars, fifoVars,
                 history>>

OpenFifos(n) == OpenFifo(n, "request fifo", "reply fifo") \/ OpenFifo(n, "reply fifo", "read")

\* read() of the request, or of the end of the fifo once the client has exited.
ReadRequest(n) ==
  /\ spc[n] = "read"
  /\ \/ /\ line[job[n]] = "sent"
        /\ line' = [line EXCEPT ![job[n]] = "taken"]
     \/ /\ line[job[n]] # "sent" /\ cpc[job[n]] = "gone"
        /\ UNCHANGED line
  /\ spc' = [spc EXCEPT ![n] = "write"]
  /\ UNCHANGED <<dataVars, s, sem, pending, handlerVars, job, stmp, clientVars, reply,
                 history>>

\* write() of the reply; SIGPIPE if the client has exited.
WriteReply(n) ==
  /\ spc[n] = "write"
  /\ \/ /\ cpc[job[n]] # "gone"
        /\ reply' = [reply EXCEPT ![job[n]] = TRUE]
        /\ spc' = [spc EXCEPT ![n] = "free"]
     \/ /\ cpc[job[n]] = "gone"
        /\ spc' = [spc EXCEPT ![n] = "dead"]
        /\ UNCHANGED reply
  /\ UNCHANGED <<dataVars, s, sem, pending, handlerVars, job, stmp, clientVars, line,
                 history>>

\* s[num]=0
Free(n) ==
  /\ spc[n] = "free"
  /\ s' = [s EXCEPT ![n] = 0]
  /\ job' = [job EXCEPT ![n] = NoName]
  /\ spc' = [spc EXCEPT ![n] = "post"]
  /\ UNCHANGED <<dataVars, sem, pending, handlerVars, stmp, clientVars, fifoVars, history>>

UpTwice == sem' = sem + 2   \* mutant
\* semop(sem,&sign,1)
Up == sem' = sem + 1

Post(n) ==
  /\ spc[n] = "post"
  /\ Up
  /\ spc' = [spc EXCEPT ![n] = "idle"]
  /\ UNCHANGED <<dataVars, s, pending, handlerVars, job, stmp, clientVars, fifoVars, history>>

Serve(n) == CopyName(n) \/ LoadIn(n) \/ StoreIn(n) \/ OpenFifos(n) \/ ReadRequest(n)
            \/ WriteReply(n) \/ Free(n) \/ Post(n)

-----------------------------------------------------------------------------
Next ==
  \/ Coordinator
  \/ \E n \in Servers : Start(n) \/ Serve(n)
  \/ \E c \in Clients : Client(c)

Spec == Init /\ [][Next]_vars

\* Processes run, every server is started, and a user who has a prompt types.
Fairness ==
  /\ WF_vars(Coordinator)
  /\ \A n \in Servers : WF_vars(Start(n)) /\ WF_vars(Serve(n))
  /\ \A c \in Clients : WF_vars(PutName(c) \/ LoadOut(c) \/ StoreOut(c) \/ Signal(c))
                        /\ WF_vars(Type(c)) /\ WF_vars(Leave(c))

FairSpec == Spec /\ Fairness

-----------------------------------------------------------------------------
(* Properties *)

DataTypes ==
  /\ name \in [0 .. Slots - 1 -> Clients \union {NoName}]
  /\ in \in Nat /\ out \in Nat /\ sem \in Nat
  /\ outRaced \in BOOLEAN /\ inRaced \in BOOLEAN
  /\ coalesced \in BOOLEAN /\ reset \in BOOLEAN

HandlerTypes ==
  /\ pending \in BOOLEAN
  /\ hpc \in {"off", "wait", "scan"} /\ hi \in 0 .. NS

ServerTypes ==
  /\ s \in [Servers -> {0, 1}]
  /\ spc \in [Servers -> {"off", "idle", "request fifo", "reply fifo", "read", "write",
                          "free", "post", "dead"} \union Taking]
  /\ job \in [Servers -> Clients \union {NoName}]
  /\ stmp \in [Servers -> Nat]

ClientTypes ==
  /\ cpc \in [Clients -> {"away", "open", "waiting", "gone"} \union Putting]
  /\ slot \in [Clients -> 0 .. Slots - 1] /\ ctmp \in [Clients -> Nat]
  /\ line \in [Clients -> {"none", "sent", "taken"}]
  /\ reply \in [Clients -> BOOLEAN]

TypeOK == DataTypes /\ HandlerTypes /\ ServerTypes /\ ClientTypes

\* The semaphore counts the servers that are not marked, less the one the handler is
\* about to mark and those that have not posted yet, unless a server was started
\* while it was below its initial value.
Unmarked == {n \in Servers : s[n] = 0}
InScan   == IF hpc = "scan" THEN 1 ELSE 0
Posting  == {n \in Servers : spc[n] = "post"}

SemaphoreCountsFree ==
  reset \/ sem + InScan + Cardinality(Posting) = Cardinality(Unmarked)

\* A handler that has passed the semaphore finds a server to mark, or else the
\* signal of a client is thrown away; only a reset of the semaphore leads to that.
ScanFindsAServer == hpc = "scan" /\ hi = NS => reset

\* What the semaphore has to do with s[].
SemaphoreInv == TypeOK /\ SemaphoreCountsFree /\ ScanFindsAServer

\* Servers that were marked and have not taken their name yet.
Owed == {n \in Servers : s[n] = 1 /\ spc[n] \in {"off", "idle", "post"} \union Taking}

\* The servers never run ahead of the clients: for every server marked there is a
\* name put before, whatever signals were lost and however the semaphore was reset.
\* If they did, every later client would be answered one place too late.
ServersBehindClients ==
  outRaced \/ in + Cardinality(Owed) <= out

\* Two servers work for one client only if both read d->in before one of them had
\* counted; the one that comes late dies of SIGPIPE or waits at the fifos for ever.
OneServerEach ==
  \A m, n \in Servers : m # n /\ job[m] # NoName /\ job[m] = job[n] => inRaced \/ outRaced

\* What the names have to do with the servers.
NamesInv == ServersBehindClients /\ OneServerEach

\* Unless a signal or a name was lost, the calls under way (clients about to signal,
\* the pending signal, the one in the handler, the servers marked) are as many as the
\* names not taken yet: every name put gets a server, and no server goes without.
Calling   == {c \in Clients : cpc[c] = "open"}
Signalled == (IF pending THEN 1 ELSE 0) + (IF hpc = "off" THEN 0 ELSE 1)

CallsMatchNames ==
  coalesced \/ reset \/ inRaced \/ outRaced
    \/ Cardinality(Calling) + Signalled + Cardinality(Owed) = out - in

\* When none of these accidents happens, a client that has called is answered.
EveryCallIsAnswered ==
  [](~coalesced /\ ~reset /\ ~inRaced /\ ~outRaced) =>
    \A c \in Clients : (cpc[c] = "waiting") ~> (cpc[c] = "gone")
=============================================================================
