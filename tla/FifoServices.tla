---------------------------- MODULE FifoServices ----------------------------
(***************************************************************************)
(* MSS and the log server, in OS_Using_Poll and, but for the clients' way  *)
(* of waiting, the same in Programs_Using_Select: clients write requests   *)
(* into the server's fifo; for each the server starts the service s1, s2   *)
(* or s3, which talks to the client through two fifos of the client's own. *)
(* The services of the log server also write two lines into a log fifo,    *)
(* which the server reads once per pass.                                   *)
(*                                                                         *)
(* A request always is 255 bytes long, so that one read() takes one.  Each *)
(* client has fifos of its own: users do not give a name twice.            *)
(***************************************************************************)
EXTENDS Integers, Sequences, FiniteSets

CONSTANTS Clients,      \* the client processes
          Wants,        \* the types its user may ask for; only s1, s2 and s3 exist
          MaxKills      \* bound: how many clients are killed by their user

ASSUME FifoAssumption ==
  /\ IsFiniteSet(Clients)
  /\ Wants \in [Clients -> SUBSET Nat]
  /\ MaxKills \in Nat

Programs == 1 .. 3

VARIABLES
  logging,       \* the log server, or MSS
  server,        \* the server and its copies: where each is, and its buf
  req,           \* the requests in the server's fifo
  service,       \* the services, in the order in which they were started
  lines,         \* how many lines are in the log fifo
  cpc, type,     \* where each client is, and the type it asks for
  number, answer \* what is in the client's two fifos

serverVars == <<logging, server, req>>
clientVars == <<cpc, type, number, answer>>
vars == <<serverVars, service, lines, clientVars>>

Init ==
  /\ logging \in BOOLEAN
  /\ server = <<[pc |-> "poll", buf |-> <<>>]>>
  /\ req = <<>> /\ service = <<>> /\ lines = 0
  /\ cpc = [c \in Clients |-> "away"]
  /\ type = [c \in Clients |-> 0]
  /\ number = [c \in Clients |-> FALSE] /\ answer = [c \in Clients |-> 0]

\* The processes that have the server's fifo open for writing.
Writers == {c \in Clients : cpc[c] \in {"open", "asked"}}

-----------------------------------------------------------------------------
(* mss.c and server.c; k counts the server and its copies *)

Moves(k, pc) == server' = [server EXCEPT ![k].pc = pc]

AnyEvent == req # <<>> \/ Writers = {}   \* mutant
\* res>=0&&fds[0].revents==1: POLLIN, and not POLLHUP with it.
Hears == req # <<>> /\ Writers # {}

\* A pass that finds nothing is left out.
Poll(k) ==
  /\ server[k].pc = "poll"
  /\ \/ Hears /\ Moves(k, "read")
     \/ ~Hears /\ lines > 0 /\ Moves(k, "log")
  /\ UNCHANGED <<logging, req, service, lines, clientVars>>

AllAtOnce == <<>>   \* mutant
OneRequest == Tail(req)

\* read() blocks while the fifo is empty, and returns 0 when nobody can write to it: then
\* buf still holds the request before.
Read(k) ==
  /\ server[k].pc = "read"
  /\ \/ req # <<>> /\ server' = [server EXCEPT ![k] = [pc |-> "fork", buf |-> Head(req)]]
                   /\ req' = OneRequest
     \/ req = <<>> /\ Writers = {} /\ Moves(k, "fork") /\ UNCHANGED req
  /\ UNCHANGED <<logging, service, lines, clientVars>>

\* execl() of a service, which learns the client's name through a pipe.
Started(k) == [client |-> server[k].buf[1], type |-> server[k].buf[2], pc |-> "open"]

\* A child whose execl() fails goes on in the server's loop.
Fork(k) ==
  /\ server[k].pc = "fork"
  /\ \/ /\ Started(k).type \in Programs
        /\ service' = Append(service, Started(k))
        /\ Moves(k, "log")
     \/ /\ Started(k).type \notin Programs
        /\ LET next == [server[k] EXCEPT !.pc = "log"] IN
           server' = Append([server EXCEPT ![k] = next], next)
        /\ UNCHANGED service
  /\ UNCHANGED <<logging, req, lines, clientVars>>

\* One read() for all lines that have come; printf() shows the first of them.
ReadLog(k) ==
  /\ server[k].pc = "log"
  /\ lines' = 0
  /\ Moves(k, "poll")
  /\ UNCHANGED <<logging, req, service, clientVars>>

Server(k) == Poll(k) \/ Read(k) \/ Fork(k) \/ ReadLog(k)

-----------------------------------------------------------------------------
(* s1.c, s2.c, s3.c *)

Client(s) == service[s].client
Goes(s, pc) == service' = [service EXCEPT ![s].pc = pc]

\* open() of the client's fifos waits for the client to open them, too.
Open(s) ==
  /\ service[s].pc = "open"
  /\ cpc[Client(s)] = "asked"
  /\ Goes(s, "read")
  /\ UNCHANGED <<serverVars, lines, clientVars>>

\* Without a writer read() returns 0 and in[] is uninitialized: either it looks empty and
\* the service reads on for ever, or it holds something.
ReadNumber(s) ==
  /\ service[s].pc = "read"
  /\ \/ /\ number[Client(s)]
        /\ number' = [number EXCEPT ![Client(s)] = FALSE]
        /\ Goes(s, "write")
     \/ /\ ~number[Client(s)] /\ cpc[Client(s)] # "asked"
        /\ \E pc \in {"write", "spin"} : Goes(s, pc)
        /\ UNCHANGED number
  /\ lines' = IF logging /\ service'[s].pc = "write" THEN lines + 1 ELSE lines
  /\ UNCHANGED <<serverVars, cpc, type, answer>>

\* write() to a client that is gone raises SIGPIPE.
Reply(s) ==
  /\ service[s].pc = "write"
  /\ \/ /\ cpc[Client(s)] = "asked"
        /\ answer' = [answer EXCEPT ![Client(s)] = service[s].type]
        /\ Goes(s, IF logging THEN "log" ELSE "end")
     \/ /\ cpc[Client(s)] # "asked"
        /\ Goes(s, "dead")
        /\ UNCHANGED answer
  /\ UNCHANGED <<serverVars, lines, cpc, type, number>>

LogAnswer(s) ==
  /\ service[s].pc = "log"
  /\ lines' = lines + 1
  /\ Goes(s, "end")
  /\ UNCHANGED <<serverVars, clientVars>>

Service(s) == Open(s) \/ ReadNumber(s) \/ Reply(s) \/ LogAnswer(s)

Square(s) == service[s].type = 1 /\ Service(s)
Cube(s)   == service[s].type = 2 /\ Service(s)
Fourth(s) == service[s].type = 3 /\ Service(s)

-----------------------------------------------------------------------------
(* client.c *)

OpenFifo(c) ==
  /\ cpc[c] = "away"
  /\ cpc' = [cpc EXCEPT ![c] = "open"]
  /\ UNCHANGED <<serverVars, service, lines, type, number, answer>>

Ask(c, t) ==
  /\ cpc[c] = "open"
  /\ cpc' = [cpc EXCEPT ![c] = "asked"]
  /\ type' = [type EXCEPT ![c] = t]
  /\ req' = Append(req, <<c, t>>)
  /\ UNCHANGED <<logging, server, service, lines, number, answer>>

MustType(c) ==
  ~number[c] /\ \E s \in DOMAIN service : Client(s) = c /\ service[s].pc = "read"

\* function2: its open() waits for the service.
Type(c) ==
  /\ cpc[c] = "asked" /\ MustType(c)
  /\ number' = [number EXCEPT ![c] = TRUE]
  /\ UNCHANGED <<serverVars, service, lines, cpc, type, answer>>

\* function1: read() blocks, or select() says when there is something.
Hear(c) ==
  /\ cpc[c] = "asked" /\ answer[c] # 0
  /\ cpc' = [cpc EXCEPT ![c] = "done"]
  /\ UNCHANGED <<serverVars, service, lines, type, number, answer>>

\* The user kills the client.
Kill(c) ==
  /\ cpc[c] \in {"open", "asked"}
  /\ Cardinality({d \in Clients : cpc[d] = "killed"}) < MaxKills
  /\ cpc' = [cpc EXCEPT ![c] = "killed"]
  /\ UNCHANGED <<serverVars, service, lines, type, number, answer>>

User(c) == OpenFifo(c) \/ (\E t \in Wants[c] : Ask(c, t)) \/ Type(c) \/ Kill(c)

Next ==
  \/ \E k \in DOMAIN server : Server(k)
  \/ \E s \in DOMAIN service : Square(s) \/ Cube(s) \/ Fourth(s)
  \/ \E c \in Clients : Hear(c) \/ User(c)

Spec == Init /\ [][Next]_vars

\* There are never more servers and services than this: with each request that is taken, the
\* copies that wait in read() may start their last requests again and so double.
MostCopies == Cardinality(SUBSET Clients)

\* Processes run.  Users need not do anything.
Fairness ==
  /\ \A k \in 1 .. MostCopies : WF_vars(k \in DOMAIN server /\ Server(k))
  /\ \A s \in 1 .. MostCopies : WF_vars(s \in DOMAIN service /\ Service(s))
  /\ \A c \in Clients : WF_vars(Hear(c))

FairSpec == Spec /\ Fairness

-----------------------------------------------------------------------------
(* Properties *)

TypeOK ==
  /\ logging \in BOOLEAN
  /\ server \in Seq([pc : {"poll", "read", "fork", "log"},
                     buf : (Clients \X Nat) \union {<<>>}])
  /\ req \in Seq(Clients \X Nat)
  /\ service \in Seq([client : Clients, type : Programs,
                      pc : {"open", "read", "write", "log", "end", "spin", "dead"}])
  /\ Len(server) + Len(service) <= MostCopies
  /\ lines \in Nat
  /\ cpc \in [Clients -> {"away", "open", "asked", "done", "killed"}]
  /\ type \in [Clients -> Nat]
  /\ number \in [Clients -> BOOLEAN] /\ answer \in [Clients -> Programs \union {0}]

\* The server and its copies never all wait in read() at once: whoever polled last saw a
\* request, and one of them gets it.
SomebodyListens ==
  (\A k \in DOMAIN server : server[k].pc = "read") => req # <<>> \/ Writers = {}

\* A client gets a second service only from a copy of the server that polled when it did,
\* found the fifo closed and started its last request again; the client is gone by then.
TwiceOnlyByACopy ==
  \A s1, s2 \in DOMAIN service :
    (s1 < s2 /\ Client(s1) = Client(s2)) =>
      Len(server) > 1 /\ service[s2].pc = "open" /\ Client(s2) \notin Writers

\* What a client is told is computed by the program it asked for.
RightAnswer == \A c \in Clients : answer[c] # 0 => answer[c] = type[c]

\* A service fails only because of its client's end.
FailsOnlyWithItsClient ==
  \A s \in DOMAIN service : service[s].pc \in {"spin", "dead"} => cpc[Client(s)] = "killed"

\* Requests are started once, unless a copy of the server is about, and served rightly.
FifoInv ==
  /\ TypeOK /\ SomebodyListens /\ TwiceOnlyByACopy /\ RightAnswer
  /\ FailsOnlyWithItsClient

\* A client that asks for a program that exists is answered, if its user types, however
\* many copies of the server take requests from each other.
EveryRequestIsAnswered ==
  \A c \in Clients :
    []<>(~MustType(c)) =>
      ((cpc[c] = "asked" /\ type[c] \in Programs) ~> cpc[c] \in {"done", "killed"})

\* A line in the log fifo is read.
EveryLineIsRead == (lines > 0) ~> (lines = 0)

\* Requests and log lines do not stay behind.
ServiceGoesOn == EveryRequestIsAnswered /\ EveryLineIsRead
=============================================================================
