---------------------------- MODULE ServiceMenu ----------------------------
(***************************************************************************)
(* Basic Socket Programs/multi_thread_fork: a server that prints a menu of *)
(* services, starts the process of a service when a client first asks for  *)
(* it, and answers with the port of that service, to which the client      *)
(* connects one second later.  A service has a thread for each client.     *)
(*                                                                         *)
(* Types are 1..NT; 0 is any other number a user may type.  port.txt gives *)
(* line t the port that s_t.c binds, so a port is the type it belongs to,  *)
(* and 0 is a port nobody has.  The text of requests is left out.          *)
(***************************************************************************)
EXTENDS Integers, Sequences, FiniteSets

CONSTANTS Clients,          \* the client processes
          NT,               \* No_of_Ports: 4 in the code
          MaxQuits,         \* bound: how many clients are killed by their user
          MaxBindFailures,  \* bound: how many services find their port in use
          NoClient

Types == 1 .. NT

ASSUME MenuAssumption ==
  /\ NT \in 1 .. 4
  /\ MaxQuits \in Nat /\ MaxBindFailures \in Nat
  /\ IsFiniteSet(Clients)
  /\ NoClient \notin Clients

VARIABLES
  mpc, cur, i,  \* where the server is, the client it accepted, and the type it asked for
  st,           \* st[]: services started
  backlog,      \* connections to the server not yet accepted
  svc,          \* each service process
  sbacklog,     \* connections to each service not yet accepted
  thr,          \* the service's thread for each client
  cpc,          \* where each client is
  want,         \* the type its user typed, or -1
  told,         \* the server's answer: a port, 0 for "not available", or -1 for none
  port,         \* the port it read from that answer
  asked,        \* the connection to the service holds a request
  reply,        \* it holds a reply the client has not read
  fin,          \* how the client's end of it was closed
  early         \* history: clients that came before their service listened

serverVars  == <<mpc, cur, i, st>>
serviceVars == <<svc, sbacklog, thr>>
menuVars    == <<want, told, port>>
socketVars  == <<asked, reply, fin>>
vars == <<serverVars, backlog, serviceVars, cpc, menuVars, socketVars, early>>

Init ==
  /\ mpc = "accept" /\ cur = NoClient /\ i = 0
  /\ st = [t \in Types |-> 0]
  /\ backlog = <<>>
  /\ svc = [t \in Types |-> "none"]
  /\ sbacklog = [t \in Types |-> <<>>]
  /\ thr = [c \in Clients |-> "none"]
  /\ cpc = [c \in Clients |-> "away"]
  /\ want = [c \in Clients |-> -1]
  /\ told = [c \in Clients |-> -1]
  /\ port = [c \in Clients |-> 0]
  /\ asked = [c \in Clients |-> FALSE]
  /\ reply = [c \in Clients |-> FALSE]
  /\ fin = [c \in Clients |-> "no"]
  /\ early = {}

-----------------------------------------------------------------------------
(* server.c *)

Accept ==
  /\ mpc = "accept"
  /\ backlog # <<>>
  /\ cur' = Head(backlog)
  /\ backlog' = Tail(backlog)
  /\ mpc' = "recv"
  /\ UNCHANGED <<i, st, serviceVars, cpc, menuVars, socketVars, early>>

\* atoi(type)-1 as an index into S[]
IndexOf(t) == t

\* recv() waits until this client has typed or is gone; an empty string is number 0.
RecvType ==
  /\ mpc = "recv"
  /\ want[cur] # -1 \/ cpc[cur] = "gone"
  /\ i' = IF want[cur] = -1 THEN 0 ELSE IndexOf(want[cur])
  /\ mpc' = IF i' \in Types THEN "start" ELSE "sorry"
  /\ UNCHANGED <<cur, st, backlog, serviceVars, cpc, menuVars, socketVars, early>>

StartForgotten == UNCHANGED svc   \* mutant
\* fork() and execl(S[i].service)
Exec == svc' = [svc EXCEPT ![i] = "starting"]

\* if(st[i]==0)
StartService ==
  /\ mpc = "start"
  /\ \/ /\ st[i] = 0
        /\ st' = [st EXCEPT ![i] = 1]
        /\ Exec
     \/ /\ st[i] = 1
        /\ UNCHANGED <<st, svc>>
  /\ mpc' = "port"
  /\ UNCHANGED <<cur, i, backlog, sbacklog, thr, cpc, menuVars, socketVars, early>>

NotToldSorry(t) == IF t = 0 THEN UNCHANGED told ELSE told' = [told EXCEPT ![cur] = t]  \* mutant
\* send() of a port, or of "This type service is not available".
Tell(t) == told' = [told EXCEPT ![cur] = t]

Answer ==
  /\ \/ mpc = "port"  /\ Tell(i)
     \/ mpc = "sorry" /\ Tell(0)
  /\ mpc' = "accept" /\ cur' = NoClient
  /\ UNCHANGED <<i, st, backlog, serviceVars, cpc, want, port, socketVars, early>>

Server == Accept \/ RecvType \/ StartService \/ Answer

-----------------------------------------------------------------------------
(* s1.c; the other services differ in the text and in not closing fd *)

\* bind() and listen()
Listen(t) ==
  /\ svc[t] = "starting"
  /\ svc' = [svc EXCEPT ![t] = "listening"]
  /\ UNCHANGED <<serverVars, backlog, sbacklog, thr, cpc, menuVars, socketVars, early>>

\* bind() fails while connections of an earlier run linger on the port.
BindFails(t) ==
  /\ svc[t] = "starting"
  /\ Cardinality({u \in Types : svc[u] = "exited"}) < MaxBindFailures
  /\ svc' = [svc EXCEPT ![t] = "exited"]
  /\ UNCHANGED <<serverVars, backlog, sbacklog, thr, cpc, menuVars, socketVars, early>>

\* pthread_create() with a slot of nsfd[] that no other thread uses
NewThread(c) == thr' = [thr EXCEPT ![c] = "recv"]

AcceptClient(t) ==
  /\ svc[t] = "listening"
  /\ sbacklog[t] # <<>>
  /\ NewThread(Head(sbacklog[t]))
  /\ sbacklog' = [sbacklog EXCEPT ![t] = Tail(@)]
  /\ UNCHANGED <<serverVars, backlog, svc, cpc, menuVars, socketVars, early>>

Process(t) == Listen(t) \/ AcceptClient(t)

Recv(c) ==
  /\ thr[c] = "recv"
  /\ asked[c]
  /\ asked' = [asked EXCEPT ![c] = FALSE]
  /\ thr' = [thr EXCEPT ![c] = "send"]
  /\ UNCHANGED <<serverVars, backlog, svc, sbacklog, cpc, menuVars, reply, fin, early>>

\* if(ret==0) break; a reset that follows the end of the stream changes nothing.
AtEnd(c) == fin[c] \in {"fin", "reset"}

RecvEnd(c) ==
  /\ thr[c] = "recv" /\ ~asked[c]
  /\ AtEnd(c)
  /\ thr' = [thr EXCEPT ![c] = "done"]
  /\ UNCHANGED <<serverVars, backlog, svc, sbacklog, cpc, menuVars, socketVars, early>>

\* recv() fails when the client was killed with its reply unread.  That is not 0, and
\* the send() of the empty buffer raises SIGPIPE, which ends all threads.
RecvError(c) ==
  /\ thr[c] = "recv" /\ ~asked[c]
  /\ fin[c] # "no" /\ ~AtEnd(c)
  /\ svc' = [svc EXCEPT ![port[c]] = "dead"]
  /\ thr' = [d \in Clients |->
               IF port[d] = port[c] /\ thr[d] \in {"recv", "send"} THEN "done" ELSE thr[d]]
  /\ sbacklog' = [sbacklog EXCEPT ![port[c]] = <<>>]
  /\ UNCHANGED <<serverVars, backlog, cpc, menuVars, socketVars, early>>

\* A client that is gone answers the send() with a reset.
Send(c) ==
  /\ thr[c] = "send"
  /\ \/ fin[c] = "no" /\ reply' = [reply EXCEPT ![c] = TRUE] /\ UNCHANGED fin
     \/ fin[c] # "no" /\ fin' = [fin EXCEPT ![c] = "reset"] /\ UNCHANGED reply
  /\ thr' = [thr EXCEPT ![c] = "recv"]
  /\ UNCHANGED <<serverVars, backlog, svc, sbacklog, cpc, menuVars, asked, early>>

Thread(c) == Recv(c) \/ RecvEnd(c) \/ RecvError(c) \/ Send(c)

-----------------------------------------------------------------------------
(* client.c *)

Connect(c) ==
  /\ cpc[c] = "away"
  /\ cpc' = [cpc EXCEPT ![c] = "menu"]
  /\ backlog' = Append(backlog, c)
  /\ UNCHANGED <<serverVars, serviceVars, menuVars, socketVars, early>>

Type(c) ==
  /\ cpc[c] = "menu"
  /\ \E t \in 0 .. NT : want' = [want EXCEPT ![c] = t]
  /\ cpc' = [cpc EXCEPT ![c] = "typed"]
  /\ UNCHANGED <<serverVars, backlog, serviceVars, told, port, socketVars, early>>

\* recv() into m[]: no terminator follows the four digits, and what the stack held
\* there may make it another number.  Below 1000 is no port, and the client exits.
GetPort(c) ==
  /\ cpc[c] = "typed"
  /\ told[c] # -1
  /\ \/ /\ told[c] = 0
        /\ cpc' = [cpc EXCEPT ![c] = "gone"]
        /\ UNCHANGED port
     \/ /\ told[c] # 0
        /\ port' \in {[port EXCEPT ![c] = p] : p \in {0, told[c]}}
        /\ cpc' = [cpc EXCEPT ![c] = "told"]
  /\ UNCHANGED <<serverVars, backlog, serviceVars, want, told, socketVars, early>>

Listening(p) == p \in Types /\ svc[p] = "listening"

\* sleep(1), then connect() to the service, or exit.
Reconnect(c) ==
  /\ cpc[c] = "told"
  /\ \/ /\ Listening(port[c])
        /\ sbacklog' = [sbacklog EXCEPT ![port[c]] = Append(@, c)]
        /\ cpc' = [cpc EXCEPT ![c] = "prompt"]
        /\ UNCHANGED early
     \/ /\ ~Listening(port[c])
        /\ early' = IF port[c] \in Types /\ svc[port[c]] = "starting"
                      THEN early \union {c} ELSE early
        /\ cpc' = [cpc EXCEPT ![c] = "refused"]
        /\ UNCHANGED sbacklog
  /\ UNCHANGED <<serverVars, backlog, svc, thr, menuVars, socketVars>>

Ask(c) ==
  /\ cpc[c] = "prompt"
  /\ asked' = [asked EXCEPT ![c] = TRUE]
  /\ cpc' = [cpc EXCEPT ![c] = "waiting"]
  /\ UNCHANGED <<serverVars, backlog, serviceVars, menuVars, reply, fin, early>>

Read(c) ==
  /\ cpc[c] = "waiting"
  /\ reply[c]
  /\ reply' = [reply EXCEPT ![c] = FALSE]
  /\ cpc' = [cpc EXCEPT ![c] = "prompt"]
  /\ UNCHANGED <<serverVars, backlog, serviceVars, menuVars, asked, fin, early>>

\* The service is dead: recv() returns 0 or fails, and a later send() ends the client.
LoseService(c) ==
  /\ cpc[c] = "waiting"
  /\ ~reply[c] /\ svc[port[c]] = "dead"
  /\ cpc' = [cpc EXCEPT ![c] = "cut off"]
  /\ UNCHANGED <<serverVars, backlog, serviceVars, menuVars, socketVars, early>>

\* The user kills the client.  With a reply unread the kernel sends a reset.
Quit(c) ==
  /\ cpc[c] \in {"menu", "typed", "told", "prompt", "waiting"}
  /\ Cardinality({d \in Clients : fin[d] # "no"}) < MaxQuits
  /\ fin' = [fin EXCEPT ![c] = IF reply[c] THEN "rst" ELSE "fin"]
  /\ cpc' = [cpc EXCEPT ![c] = "gone"]
  /\ UNCHANGED <<serverVars, backlog, serviceVars, menuVars, asked, reply, early>>

Client(c) == GetPort(c) \/ Reconnect(c) \/ Read(c) \/ LoseService(c)

User(c) == Connect(c) \/ Type(c) \/ Ask(c) \/ Quit(c)

-----------------------------------------------------------------------------
Next ==
  \/ Server
  \/ \E t \in Types : Process(t) \/ BindFails(t)
  \/ \E c \in Clients : Thread(c) \/ Client(c) \/ User(c)

Spec == Init /\ [][Next]_vars

\* Processes and threads run.  Nobody is obliged to connect or to type.
Fairness ==
  /\ WF_vars(Server)
  /\ \A t \in Types : WF_vars(Process(t))
  /\ \A c \in Clients : WF_vars(Thread(c)) /\ WF_vars(Client(c))

FairSpec == Spec /\ Fairness

-----------------------------------------------------------------------------
(* Properties *)

TypeOK ==
  /\ mpc \in {"accept", "recv", "start", "sorry", "port"}
  /\ cur \in Clients \union {NoClient} /\ (cur = NoClient <=> mpc = "accept")
  /\ i \in 0 .. NT
  /\ st \in [Types -> {0, 1}]
  /\ backlog \in Seq(Clients)
  /\ svc \in [Types -> {"none", "starting", "listening", "exited", "dead"}]
  /\ sbacklog \in [Types -> Seq(Clients)]
  /\ thr \in [Clients -> {"none", "recv", "send", "done"}]
  /\ cpc \in [Clients -> {"away", "menu", "typed", "told", "prompt", "waiting", "cut off",
                          "refused", "gone"}]
  /\ want \in [Clients -> -1 .. NT] /\ told \in [Clients -> -1 .. NT]
  /\ port \in [Clients -> 0 .. NT]
  /\ asked \in [Clients -> BOOLEAN] /\ reply \in [Clients -> BOOLEAN]
  /\ fin \in [Clients -> {"no", "fin", "rst", "reset"}]
  /\ early \subseteq Clients

\* A client is refused at its port only if it misread the number, came before the
\* service listened, or the service has ended: the server names no port before it has
\* started the service, and starts no service twice.
RefusedForAReason ==
  \A c \in Clients :
    cpc[c] = "refused" => \/ port[c] = 0 \/ c \in early
                          \/ svc[port[c]] \in {"exited", "dead"}

\* A service dies, for all its clients and for ever, only because one of them was
\* killed with a reply unread.
DiesOnlyByReset ==
  \A t \in Types : svc[t] = "dead" => \E c \in Clients : port[c] = t /\ fin[c] = "rst"

\* Who is refused, and what kills a service, is explained.
MenuInv == TypeOK /\ RefusedForAReason /\ DiesOnlyByReset

\* The server waits for one client to type and for no other: when no client stays at
\* the menu for ever, every client that has typed is told a port or that there is none.
EveryClientIsTold ==
  (\A c \in Clients : []<>(cpc[c] # "menu")) =>
    \A c \in Clients : (cpc[c] = "typed") ~> (cpc[c] # "typed")
=============================================================================
