---------------------------- MODULE ServicePorts ----------------------------
(***************************************************************************)
(* Basic Socket Programs/ISS2: a server that polls the ports of port.txt   *)
(* in turn, one second each, and starts a service process s1..s4 for every *)
(* client while cnt[], in shared memory, says that the port has seats left. *)
(* The server takes a seat with cnt[i]--, a service gives it back with      *)
(* cnt[i]++, and nothing keeps the two apart: each is a read and a write    *)
(* here.                                                                   *)
(*                                                                         *)
(* Requests carry no text.  The server never closes a connection it has     *)
(* handed to a service, so no client sees one end, and one day accept()    *)
(* fails: the server notices it only when it has taken the seat, and exits.*)
(* The services hold the sockets of the ports then.                        *)
(***************************************************************************)
EXTENDS Integers, Sequences, FiniteSets

CONSTANTS Clients,   \* the client processes
          NP,        \* No_of_Ports: 4 in the code
          Capacity,  \* the last column of port.txt: 5, 3, 4, 1 in the file
          MaxFiles,  \* connections for which the server has descriptors
          MaxQuits,  \* bound: how many clients are killed by their user
          NoClient

Ports == 0 .. NP - 1

ASSUME PortsAssumption ==
  /\ NP \in Nat \ {0}
  /\ Capacity \in [Ports -> Nat]
  /\ MaxFiles \in Nat /\ MaxQuits \in Nat
  /\ IsFiniteSet(Clients)
  /\ NoClient \notin Clients

VARIABLES
  cnt,      \* shared memory: seats left at each port
  mpc, mi,  \* where the server is, and the port it polls
  nsfd,     \* the client it has just accepted, if accept() did not fail
  mtmp,     \* its copy of cnt[i] in cnt[i]--
  backlog,  \* connections to each port not yet accepted
  spc,      \* where the service process of each client is
  stmp,     \* its copy of cnt[k] in cnt[k]++
  port,     \* the port a client connected to
  cpc,      \* where each client is
  inbox,    \* what the client's socket holds: an admission, a refusal, or a reply
  asked,    \* the connection holds a request
  fin,      \* how the client's end was closed
  raced     \* history: ports where a cnt++ or cnt-- was lost

serverVars  == <<mpc, mi, nsfd, mtmp>>
serviceVars == <<spc, stmp>>
socketVars  == <<inbox, asked, fin>>
vars == <<cnt, serverVars, backlog, serviceVars, port, cpc, socketVars, raced>>

\* get_shm() after init().
InitCnt == cnt = Capacity

Init ==
  /\ InitCnt
  /\ mpc = "poll" /\ mi = 0 /\ nsfd = NoClient /\ mtmp = 0
  /\ backlog = [p \in Ports |-> <<>>]
  /\ spc = [c \in Clients |-> "none"]
  /\ stmp = [c \in Clients |-> 0]
  /\ port = [c \in Clients |-> 0]
  /\ cpc = [c \in Clients |-> "away"]
  /\ inbox = [c \in Clients |-> "none"]
  /\ asked = [c \in Clients |-> FALSE]
  /\ fin = [c \in Clients |-> "no"]
  /\ raced = {}

\* send(): a client that has closed answers with a reset; nobody gets what is sent to -1.
SendTo(c, m) ==
  \/ c = NoClient /\ UNCHANGED <<inbox, fin>>
  \/ c # NoClient /\ fin[c] = "no" /\ inbox' = [inbox EXCEPT ![c] = m] /\ UNCHANGED fin
  \/ c # NoClient /\ fin[c] # "no" /\ fin' = [fin EXCEPT ![c] = "reset"] /\ UNCHANGED inbox

\* The server holds a descriptor for every client that has, or had, a service.
OutOfFiles == Cardinality({c \in Clients : spc[c] # "none"}) >= MaxFiles

Running == {c \in Clients : spc[c] \in {"read", "write", "store"}}
Listened == mpc # "dead" \/ Running # {}

-----------------------------------------------------------------------------
(* server.c *)

PastTheEnd == mi + 1          \* mutant
SkipPort == (mi + 2) % NP   \* mutant
\* i=(i+1)%No_of_Ports
NextPort == (mi + 1) % NP

\* select() on one port times out ...
Timeout ==
  /\ mpc = "poll"
  /\ backlog[mi] = <<>>
  /\ mi' = NextPort
  /\ UNCHANGED <<cnt, mpc, nsfd, mtmp, backlog, serviceVars, port, cpc, socketVars, raced>>

\* ... or a connection is accepted; without a descriptor for it, it stays in the backlog.
Accept ==
  /\ mpc = "poll"
  /\ backlog[mi] # <<>>
  /\ \/ /\ ~OutOfFiles
        /\ nsfd' = Head(backlog[mi])
        /\ backlog' = [backlog EXCEPT ![mi] = Tail(@)]
     \/ OutOfFiles /\ UNCHANGED <<nsfd, backlog>>
  /\ mpc' = "check"
  /\ UNCHANGED <<cnt, mi, mtmp, serviceVars, port, cpc, socketVars, raced>>

AlwaysRoom(p) == TRUE   \* mutant
\* cnt[i]!=0
Room(p) == cnt[p] # 0

\* send "-1", and close().
Refuse ==
  /\ mpc = "check" /\ ~Room(mi)
  /\ SendTo(nsfd, "no")
  /\ nsfd' = NoClient
  /\ mi' = NextPort
  /\ mpc' = "poll"
  /\ UNCHANGED <<cnt, mtmp, backlog, serviceVars, port, cpc, asked, raced>>

\* send "1"
Admit ==
  /\ mpc = "check" /\ Room(mi)
  /\ SendTo(nsfd, "yes")
  /\ mpc' = "load"
  /\ UNCHANGED <<cnt, mi, nsfd, mtmp, backlog, serviceVars, port, cpc, asked, raced>>

\* cnt[i]-- reads cnt[i] ...
TakeSeat ==
  /\ mpc = "load"
  /\ mtmp' = cnt[mi]
  /\ mpc' = "store"
  /\ UNCHANGED <<cnt, mi, nsfd, backlog, serviceVars, port, cpc, socketVars, raced>>

\* nsfd==-1, and exit()
AfterCount == IF nsfd = NoClient THEN "dead" ELSE "fork"

\* ... and writes it back.
StoreTaken ==
  /\ mpc = "store"
  /\ cnt' = [cnt EXCEPT ![mi] = mtmp - 1]
  /\ raced' = IF mtmp = cnt[mi] THEN raced ELSE raced \union {mi}
  /\ mpc' = AfterCount
  /\ UNCHANGED <<mi, nsfd, mtmp, backlog, serviceVars, port, cpc, socketVars>>

\* fork(), dup2(), execl() of the service.
Fork ==
  /\ mpc = "fork"
  /\ spc' = [spc EXCEPT ![nsfd] = "read"]
  /\ nsfd' = NoClient
  /\ mi' = NextPort
  /\ mpc' = "poll"
  /\ UNCHANGED <<cnt, mtmp, backlog, stmp, port, cpc, socketVars, raced>>

Server == Timeout \/ Accept \/ Refuse \/ Admit \/ TakeSeat \/ StoreTaken \/ Fork

-----------------------------------------------------------------------------
(* s1.c; s2.c, s3.c and s4.c count at their own port and do the same *)

Request(c) ==
  /\ spc[c] = "read"
  /\ asked[c]
  /\ asked' = [asked EXCEPT ![c] = FALSE]
  /\ spc' = [spc EXCEPT ![c] = "write"]
  /\ UNCHANGED <<cnt, serverVars, backlog, stmp, port, cpc, inbox, fin, raced>>

Answer(c) ==
  /\ spc[c] = "write"
  /\ SendTo(c, "reply")
  /\ spc' = [spc EXCEPT ![c] = "read"]
  /\ UNCHANGED <<cnt, serverVars, backlog, stmp, port, cpc, asked, raced>>

\* The client was killed with a message unread: read() fails, which is not 0, and
\* write() raises SIGPIPE.  The seat is not given back.
Die(c) ==
  /\ spc[c] = "read"
  /\ ~asked[c] /\ fin[c] = "rst"
  /\ spc' = [spc EXCEPT ![c] = "dead"]
  /\ UNCHANGED <<cnt, serverVars, backlog, stmp, port, cpc, socketVars, raced>>

\* read() returns 0
AtEnd(c) == ~asked[c] /\ fin[c] \in {"fin", "reset"}

\* cnt[k]++ reads cnt[k] ...
ReturnSeat(c) ==
  /\ spc[c] = "read"
  /\ AtEnd(c)
  /\ stmp' = [stmp EXCEPT ![c] = cnt[port[c]]]
  /\ spc' = [spc EXCEPT ![c] = "store"]
  /\ UNCHANGED <<cnt, serverVars, backlog, port, cpc, socketVars, raced>>

SeatKept(c) == stmp[c]   \* mutant
OneMore(c) == stmp[c] + 1

\* ... and writes it back; the service exits.
StoreReturned(c) ==
  /\ spc[c] = "store"
  /\ cnt' = [cnt EXCEPT ![port[c]] = OneMore(c)]
  /\ raced' = IF stmp[c] = cnt[port[c]] THEN raced ELSE raced \union {port[c]}
  /\ spc' = [spc EXCEPT ![c] = "done"]
  /\ UNCHANGED <<serverVars, backlog, stmp, port, cpc, socketVars>>

Service(c) == Request(c) \/ Answer(c) \/ Die(c) \/ ReturnSeat(c) \/ StoreReturned(c)

-----------------------------------------------------------------------------
(* client.c *)

Connect(c) ==
  /\ cpc[c] = "away"
  /\ \/ /\ Listened
        /\ \E p \in Ports :
             /\ port' = [port EXCEPT ![c] = p]
             /\ backlog' = [backlog EXCEPT ![p] = Append(@, c)]
        /\ cpc' = [cpc EXCEPT ![c] = "joining"]
     \/ /\ ~Listened
        /\ cpc' = [cpc EXCEPT ![c] = "gone"]
        /\ UNCHANGED <<port, backlog>>
  /\ UNCHANGED <<cnt, serverVars, serviceVars, socketVars, raced>>

\* recv() into m[], which has no room made for a terminator: "-1" is recognised
\* only if the byte after it happens to be 0.
Greeted(c) ==
  /\ cpc[c] = "joining"
  /\ inbox[c] # "none"
  /\ inbox' = [inbox EXCEPT ![c] = "none"]
  /\ \/ inbox[c] = "yes" /\ cpc' = [cpc EXCEPT ![c] = "typing"]
     \/ inbox[c] = "no"  /\ \/ cpc' = [cpc EXCEPT ![c] = "gone"]
                            \/ cpc' = [cpc EXCEPT ![c] = "fooled"]
  /\ UNCHANGED <<cnt, serverVars, backlog, serviceVars, port, asked, fin, raced>>

\* A connection that nobody will accept any more is reset, and recv() fails: the client
\* looks at its uninitialised m[] all the same.
LoseServer(c) ==
  /\ cpc[c] = "joining" /\ ~Listened
  /\ \E j \in DOMAIN backlog[port[c]] : backlog[port[c]][j] = c
  /\ cpc' \in {[cpc EXCEPT ![c] = "gone"], [cpc EXCEPT ![c] = "fooled"]}
  /\ UNCHANGED <<cnt, serverVars, backlog, serviceVars, port, socketVars, raced>>

Ask(c) ==
  /\ cpc[c] = "typing"
  /\ asked' = [asked EXCEPT ![c] = TRUE]
  /\ cpc' = [cpc EXCEPT ![c] = "waiting"]
  /\ UNCHANGED <<cnt, serverVars, backlog, serviceVars, port, inbox, fin, raced>>

Read(c) ==
  /\ cpc[c] = "waiting"
  /\ inbox[c] = "reply"
  /\ inbox' = [inbox EXCEPT ![c] = "none"]
  /\ cpc' = [cpc EXCEPT ![c] = "typing"]
  /\ UNCHANGED <<cnt, serverVars, backlog, serviceVars, port, asked, fin, raced>>

\* The user kills the client.  With an unread message the kernel sends a reset.
Quit(c) ==
  /\ cpc[c] \in {"joining", "typing", "waiting"}
  /\ Cardinality({d \in Clients : fin[d] # "no"}) < MaxQuits
  /\ fin' = [fin EXCEPT ![c] = IF inbox[c] = "none" THEN "fin" ELSE "rst"]
  /\ inbox' = [inbox EXCEPT ![c] = "none"]
  /\ cpc' = [cpc EXCEPT ![c] = "gone"]
  /\ UNCHANGED <<cnt, serverVars, backlog, serviceVars, port, asked, raced>>

Client(c) ==
  Connect(c) \/ Greeted(c) \/ LoseServer(c) \/ Ask(c) \/ Read(c) \/ Quit(c)

-----------------------------------------------------------------------------
Next == Server \/ \E c \in Clients : Service(c) \/ Client(c)

Spec == Init /\ [][Next]_vars

\* The server and the services run, and clients receive what has arrived.
Fairness ==
  /\ WF_vars(Server)
  /\ \A c \in Clients : WF_vars(Service(c)) /\ WF_vars(Greeted(c) \/ Read(c))

FairSpec == Spec /\ Fairness

-----------------------------------------------------------------------------
(* Properties *)

TypeOK ==
  /\ cnt \in [Ports -> Int]
  /\ mpc \in {"poll", "check", "load", "store", "fork", "dead"}
  /\ mi \in Ports
  /\ nsfd \in Clients \union {NoClient}
  /\ mpc \in {"poll", "dead"} => nsfd = NoClient
  /\ mpc = "fork" => nsfd # NoClient
  /\ mtmp \in Int
  /\ backlog \in [Ports -> Seq(Clients)]
  /\ spc \in [Clients -> {"none", "read", "write", "store", "done", "dead"}]
  /\ stmp \in [Clients -> Int]
  /\ port \in [Clients -> Ports]
  /\ cpc \in [Clients -> {"away", "joining", "typing", "waiting", "gone", "fooled"}]
  /\ inbox \in [Clients -> {"none", "yes", "no", "reply"}]
  /\ asked \in [Clients -> BOOLEAN]
  /\ fin \in [Clients -> {"no", "fin", "rst", "reset"}]
  /\ raced \subseteq Ports

\* The clients of port p for which a seat was taken and not given back.
Seated(p) ==
  {c \in Clients : /\ port[c] = p
                   /\ \/ spc[c] \in {"read", "write", "store", "dead"}
                      \/ mpc = "fork" /\ nsfd = c}

\* The seat that the server took for a connection it had not got.
LastSeat(p) == IF mpc = "dead" /\ mi = p THEN 1 ELSE 0

\* cnt[] accounts for the seats: what it says is left and the clients that hold a
\* seat, those whose service died of SIGPIPE included, add up to the capacity of the
\* port, but for one seat that is gone when the server has exited, unless a cnt[i]-- of
\* the server and a cnt[i]++ of a service, or two of the latter, have met.
AccountBalances ==
  \A p \in Ports :
    p \in raced \/ cnt[p] + Cardinality(Seated(p)) + LastSeat(p) = Capacity[p]

\* The server tests cnt[i]==0, not cnt[i]<=0: even with lost updates, and although
\* services count between the test and the decrement, cnt[] is never negative.
NeverNegative == \A p \in Ports : cnt[p] >= 0

\* Every connection is greeted, with an admission or a refusal, whatever the port, as long
\* as the server has descriptors.
EveryClientIsGreeted ==
  \A c \in Clients : (cpc[c] = "joining") ~> (cpc[c] # "joining" \/ OutOfFiles)
=============================================================================
