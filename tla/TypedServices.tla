--------------------------- MODULE TypedServices ---------------------------
(***************************************************************************)
(* UDS_Programs/TSS: the server reads from each client a type of service   *)
(* and passes the client's socket over a Unix domain socket to s1 or s2,   *)
(* where a thread answers the client's lines.  The server keeps its own    *)
(* copy of every socket.                                                   *)
(*                                                                         *)
(* recv() takes all that has arrived: a stream is the sequence of the      *)
(* kinds of pieces on their way, where a piece that follows one of its     *)
(* kind adds nothing.                                                      *)
(***************************************************************************)
EXTENDS Integers, Sequences, FiniteSets

CONSTANTS Clients,      \* the client processes
          Wants,        \* the types that its user may enter, any number for scanf()
          MaxKills      \* bound: how many clients are killed by their user

ASSUME TypedAssumption ==
  /\ IsFiniteSet(Clients)
  /\ Wants \in [Clients -> SUBSET Int]
  /\ MaxKills \in Nat

Services == {"s1", "s2"}
NoOfService == 4        \* No_of_service, though nusfd[] has two elements

VARIABLES
  mpc, cur,      \* where main is, and its client
  nusfd,         \* the services, in the order in which they connected
  inbox,         \* the sockets on their way to each service
  alive,         \* the services that run
  tpc, by,       \* where the thread of each client is, and in which service
  backlog,       \* connections not yet accepted
  toClient, toServer,   \* the two directions of each connection
  fin,           \* how the client's end was closed
  cpc, type,     \* where each client is, and the type it asked for
  cut            \* history: clients whose first line the server took, or a part of it

serverVars  == <<mpc, cur, nusfd>>
serviceVars == <<inbox, alive, tpc, by>>
streamVars  == <<toClient, toServer, fin>>
clientVars  == <<cpc, type>>
vars == <<serverVars, serviceVars, backlog, streamVars, clientVars, cut>>

\* accept_UDS() numbers the services as they come, not by their names.
Init ==
  /\ mpc = "accept" /\ cur = {}
  /\ nusfd \in {<<"s1", "s2">>, <<"s2", "s1">>}
  /\ inbox = [s \in Services |-> <<>>] /\ alive = Services
  /\ tpc = [c \in Clients |-> "none"] /\ by = [c \in Clients |-> "none"]
  /\ backlog = <<>>
  /\ toClient = [c \in Clients |-> <<>>] /\ toServer = [c \in Clients |-> <<>>]
  /\ fin = [c \in Clients |-> "no"]
  /\ cpc = [c \in Clients |-> "away"] /\ type = [c \in Clients |-> 0]
  /\ cut = {}

Join(q, m) == IF q # <<>> /\ q[Len(q)] = m THEN q ELSE Append(q, m)

\* send() to a client.  The first one to a client that was killed passes or fails without
\* a signal, the next one raises SIGPIPE.
Broken(c) == fin[c] \in {"closed", "reset"}
Put(c, m) ==
  /\ toClient' = IF fin[c] = "no" THEN [toClient EXCEPT ![c] = Join(@, m)] ELSE toClient
  /\ fin' = CASE fin[c] = "fin" -> [fin EXCEPT ![c] = "closed"]
               [] fin[c] = "rst" -> [fin EXCEPT ![c] = "reset"]
               [] OTHER -> fin

-----------------------------------------------------------------------------
(* server.c *)

Accept ==
  /\ mpc = "accept" /\ backlog # <<>>
  /\ mpc' = "recv" /\ cur' = {Head(backlog)}
  /\ backlog' = Tail(backlog)
  /\ UNCHANGED <<nusfd, serviceVars, streamVars, clientVars, cut>>

NoType == 0

\* A type with text behind it, as atoi() reads them: the type, if the text does not begin
\* with a digit; else a number of several digits, which is no type but after a 0.
WithText(t) == {t, NoType} \union (IF t = 0 THEN 1 .. NoOfService ELSE {})

\* What atoi() makes of the ten bytes, and the text that stays in the socket.
Atoi(c) ==
  CASE toServer[c] = <<>>       -> {<<NoType, <<>>>>}
    [] toServer[c] = <<"type">> -> {<<type[c], <<>>>>}
    [] OTHER -> WithText(type[c]) \X {<<>>, Tail(toServer[c])}

\* write_fd() to a service that is dead raises SIGPIPE.
Pass(c, s) ==
  /\ \/ s \in alive /\ inbox' = [inbox EXCEPT ![s] = Append(@, c)] /\ mpc' = "accept"
     \/ s \notin alive /\ mpc' = "dead" /\ UNCHANGED inbox
  /\ UNCHANGED <<toClient, fin>>

Accepted == {c \in Clients : cpc[c] # "away" /\ \A j \in DOMAIN backlog : backlog[j] # c}

\* Beyond nusfd[] there may be any number: no socket of the server at all, sfd, which is not
\* connected and raises SIGPIPE, a service, or a client, who gets the two bytes without the
\* descriptor.
PassBeyond(c) ==
  \/ mpc' \in {"accept", "dead"} /\ UNCHANGED <<inbox, toClient, fin>>
  \/ \E s \in Services : Pass(c, s)
  \/ \E d \in Accepted :
       /\ Put(d, "junk")
       /\ mpc' = IF Broken(d) THEN "dead" ELSE "accept"
       /\ UNCHANGED inbox

Refuse(c) == Put(c, "sorry") /\ mpc' = "accept" /\ UNCHANGED inbox

AboveZero == 2 .. NoOfService   \* mutant
\* i>=0&&i<No_of_service, for i one less than the type
Known == 1 .. NoOfService

\* recv() of the type waits for the user of this one client.
RecvType ==
  /\ mpc = "recv"
  /\ \E c \in cur :
       /\ toServer[c] # <<>> \/ fin[c] # "no"
       /\ \E got \in Atoi(c) :
            /\ toServer' = [toServer EXCEPT ![c] = got[2]]
            /\ \/ got[1] \in Known /\ got[1] <= 2 /\ Pass(c, nusfd[got[1]])
               \/ got[1] \in Known /\ got[1] > 2  /\ PassBeyond(c)
               \/ got[1] \notin Known /\ Refuse(c)
       /\ cut' = IF Len(toServer[c]) > 1 THEN cut \union {c} ELSE cut
  /\ cur' = {}
  /\ UNCHANGED <<nusfd, alive, tpc, by, backlog, clientVars>>

Server == Accept \/ RecvType

-----------------------------------------------------------------------------
(* s1.c and s2.c *)

\* read_fd() and pthread_create()
ReadFd(s) ==
  /\ s \in alive /\ inbox[s] # <<>>
  /\ inbox' = [inbox EXCEPT ![s] = Tail(@)]
  /\ tpc' = [tpc EXCEPT ![Head(inbox[s])] = "recv"]
  /\ by' = [by EXCEPT ![Head(inbox[s])] = s]
  /\ UNCHANGED <<serverVars, alive, backlog, streamVars, clientVars, cut>>

\* When the server is gone, read_fd() returns at once for ever, and a thread is started
\* for each element of nsfd[] and then beyond: this may end the service at any time.
Overrun(s) ==
  /\ s \in alive /\ inbox[s] = <<>> /\ mpc = "dead"
  /\ alive' = alive \ {s}
  /\ UNCHANGED <<serverVars, inbox, tpc, by, backlog, streamVars, clientVars, cut>>

NotSent == "recv"   \* mutant
\* The text is converted and sent back.
AfterRecv == "send"

\* The end of a client that was killed with something unread makes recv() fail, which is
\* not ret==0, and the send() that follows raises SIGPIPE in the whole service.
Recv(c) ==
  /\ tpc[c] = "recv" /\ by[c] \in alive
  /\ \/ /\ toServer[c] # <<>>
        /\ toServer' = [toServer EXCEPT ![c] = <<>>]
        /\ tpc' = [tpc EXCEPT ![c] = AfterRecv]
        /\ UNCHANGED <<alive, fin>>
     \/ /\ toServer[c] = <<>> /\ fin[c] \in {"fin", "closed", "reset"}
        /\ tpc' = [tpc EXCEPT ![c] = "end"]
        /\ UNCHANGED <<alive, toServer, fin>>
     \/ /\ toServer[c] = <<>> /\ fin[c] = "rst"
        /\ fin' = [fin EXCEPT ![c] = "reset"]
        /\ alive' = alive \ {by[c]}
        /\ UNCHANGED <<tpc, toServer>>
  /\ UNCHANGED <<serverVars, inbox, by, backlog, toClient, clientVars, cut>>

\* Killed clients have had at most one send() before, unless some were sent stray bytes.
Send(c) ==
  /\ tpc[c] = "send" /\ by[c] \in alive
  /\ Put(c, "reply")
  /\ alive' = IF Broken(c) THEN alive \ {by[c]} ELSE alive
  /\ tpc' = [tpc EXCEPT ![c] = "recv"]
  /\ UNCHANGED <<serverVars, inbox, by, backlog, toServer, clientVars, cut>>

Thread(c) == Recv(c) \/ Send(c)

Program(s) == ReadFd(s) \/ Overrun(s) \/ \E c \in Clients : by[c] = s /\ Thread(c)
S1 == Program("s1")
S2 == Program("s2")

-----------------------------------------------------------------------------
(* client.c *)

\* Somebody has the other end of the connection.
Held(c) ==
  \/ mpc # "dead"
  \/ by[c] \in alive
  \/ \E s \in alive : \E j \in DOMAIN inbox[s] : inbox[s][j] = c

Connect(c) ==
  /\ cpc[c] = "away" /\ mpc # "dead"
  /\ cpc' = [cpc EXCEPT ![c] = "type"]
  /\ backlog' = Append(backlog, c)
  /\ UNCHANGED <<serverVars, serviceVars, streamVars, type, cut>>

EnterType(c, t) ==
  /\ cpc[c] = "type"
  /\ cpc' = [cpc EXCEPT ![c] = "line"]
  /\ type' = [type EXCEPT ![c] = t]
  /\ toServer' = [toServer EXCEPT ![c] = Append(@, "type")]
  /\ UNCHANGED <<serverVars, serviceVars, backlog, toClient, fin, cut>>

EnterLine(c) ==
  /\ cpc[c] = "line"
  /\ \/ /\ Held(c)
        /\ cpc' = [cpc EXCEPT ![c] = "wait"]
        /\ toServer' = [toServer EXCEPT ![c] = Join(@, "line")]
     \/ ~Held(c) /\ cpc' = [cpc EXCEPT ![c] = "gone"] /\ UNCHANGED toServer
  /\ UNCHANGED <<serverVars, serviceVars, backlog, toClient, fin, type, cut>>

\* At the end of the connection recv() returns 0, which the client takes for a result.
Hear(c) ==
  /\ cpc[c] = "wait"
  /\ toClient[c] # <<>> \/ ~Held(c)
  /\ cpc' = [cpc EXCEPT ![c] = "line"]
  /\ toClient' = [toClient EXCEPT ![c] = <<>>]
  /\ UNCHANGED <<serverVars, serviceVars, backlog, toServer, fin, type, cut>>

\* The user kills the client; with something unread the kernel sends a reset.
Kill(c) ==
  /\ cpc[c] \in {"type", "line", "wait"}
  /\ Cardinality({d \in Clients : fin[d] # "no"}) < MaxKills
  /\ cpc' = [cpc EXCEPT ![c] = "gone"]
  /\ fin' = [fin EXCEPT ![c] = IF toClient[c] = <<>> THEN "fin" ELSE "rst"]
  /\ UNCHANGED <<serverVars, serviceVars, backlog, toClient, toServer, type, cut>>

User(c) == Connect(c) \/ (\E t \in Wants[c] : EnterType(c, t)) \/ EnterLine(c) \/ Kill(c)

Next ==
  \/ Server \/ S1 \/ S2
  \/ \E c \in Clients : Hear(c) \/ User(c)

Spec == Init /\ [][Next]_vars

\* Processes and threads run.  Users need not do anything.
Fairness ==
  /\ WF_vars(Server)
  /\ \A s \in Services : WF_vars(ReadFd(s))
  /\ \A c \in Clients : WF_vars(Thread(c)) /\ WF_vars(Hear(c))

FairSpec == Spec /\ Fairness

-----------------------------------------------------------------------------
(* Properties *)

TypeOK ==
  /\ mpc \in {"accept", "recv", "dead"} /\ cur \in SUBSET Clients
  /\ nusfd \in [1 .. 2 -> Services]
  /\ inbox \in [Services -> Seq(Clients)] /\ alive \subseteq Services
  /\ tpc \in [Clients -> {"none", "recv", "send", "end"}]
  /\ by \in [Clients -> Services \union {"none"}]
  /\ backlog \in Seq(Clients)
  /\ toClient \in [Clients -> Seq({"reply", "sorry", "junk"})]
  /\ toServer \in [Clients -> Seq({"type", "line"})]
  /\ fin \in [Clients -> {"no", "fin", "closed", "rst", "reset"}]
  /\ cpc \in [Clients -> {"away", "type", "line", "wait", "gone"}]
  /\ type \in [Clients -> Int]
  /\ cut \subseteq Clients

\* The server may have taken the client's number to an element behind nusfd[].
Beyond(c) == type[c] \in 3 .. NoOfService \/ (type[c] = 0 /\ c \in cut)

\* A service dies only after the server, by a client of its own that was killed with a
\* reply unread, or by one that was killed and then sent stray bytes; the server dies only
\* by passing a client to a service that died so, or by an element behind nusfd[].
Stray == \E c, d \in Clients : Beyond(c) /\ Broken(d)
KilledBy(s) == \E c \in Clients : by[c] = s /\ fin[c] = "reset"
DeathsSpread ==
  /\ \A s \in Services \ alive : mpc = "dead" \/ KilledBy(s) \/ Stray
  /\ mpc = "dead" => (\E c \in Clients : Beyond(c)) \/ \E s \in Services \ alive : KilledBy(s)

\* A client and its thread wait for each other only when the server took the client's
\* first line together with the type.
BothWaitOnlyIfCut ==
  \A c \in Clients :
    (/\ cpc[c] = "wait" /\ toClient[c] = <<>>
     /\ tpc[c] = "recv" /\ by[c] \in alive /\ toServer[c] = <<>>) => c \in cut

\* Deaths and waiting are explained.
TypedInv == TypeOK /\ DeathsSpread /\ BothWaitOnlyIfCut

\* Who sends a line gets an answer, if every user that connects enters a type, unless the
\* line was cut, the type is not served, or the service or the server died.
EveryLineIsAnswered ==
  (\A d \in Clients : []<>(cpc[d] # "type")) =>
    \A c \in Clients :
      (cpc[c] = "wait") ~>
        (cpc[c] # "wait" \/ c \in cut \/ type[c] \notin 1 .. 2 \/ alive # Services
         \/ mpc = "dead")
=============================================================================
