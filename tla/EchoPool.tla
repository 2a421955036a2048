------------------------------ MODULE EchoPool ------------------------------
(***************************************************************************)
(* MID/Mid 5: a server that relays what it reads from a pipe, a fifo, a    *)
(* popen()ed process and its terminal to its clients, and on SIGUSR1 gives *)
(* the next client an echo server of its own.  flag[i] in shared memory is *)
(* 1 while client i has one; the echo server clears it with the number     *)
(* that the client tells it.                                               *)
(*                                                                         *)
(* recv() and read() take all that has arrived, and strcmp() and atoi()    *)
(* see the first piece of it.  So a stream is the sequence of the kinds of *)
(* pieces on their way, where text that follows text of its kind adds      *)
(* nothing.  Full socket buffers are left out.                             *)
(***************************************************************************)
EXTENDS Integers, Sequences, FiniteSets

CONSTANTS Clients,      \* the client processes
          Rounds,       \* lines an echo server echoes: 10 in the code
          MaxLines,     \* bound: how often the sources say something
          MaxEvents     \* bound: signals sent and clients killed by their users, together

ASSUME PoolAssumption ==
  /\ IsFiniteSet(Clients)
  /\ Rounds \in Nat \ {0}
  /\ MaxLines \in Nat
  /\ MaxEvents \in Nat

Nobody == Cardinality(Clients)            \* an index that no client has
Index  == 0 .. Nobody - 1

VARIABLES
  mpc, mi,       \* where main is, and its i, over ffd[] and over nsfd[]
  nsfd, cnt,     \* accepted clients, and how many of them count
  ecnt, flag,    \* whose turn it was, and who has an echo server
  pending, sent, \* SIGUSR1 is pending; signals sent so far
  said,          \* lines read from the sources so far
  backlog,       \* connections not yet accepted
  echo,          \* the echo servers, in the order in which they were started
  toClient, toServer,   \* the two directions of each connection
  fin,           \* how the client's end was closed
  cpc,           \* where each client is
  misread,       \* history: an echo server took another number than its client's
  deaf           \* history: clients for which a piece got lost behind another

mainVars    == <<mpc, mi, nsfd, cnt>>
inputVars   == <<pending, sent, said>>
streamVars  == <<toClient, toServer, fin>>
history     == <<misread, deaf>>
vars == <<mainVars, ecnt, flag, inputVars, backlog, echo, streamVars, cpc, history>>

Init ==
  /\ mpc = "select" /\ mi = 0
  /\ nsfd = <<>> /\ cnt = 0
  /\ ecnt = -1 /\ flag = [i \in Index |-> 0]
  /\ pending = FALSE /\ sent = 0
  /\ said = 0
  /\ backlog = <<>> /\ echo = <<>>
  /\ toClient = [c \in Clients |-> <<>>] /\ toServer = [c \in Clients |-> <<>>]
  /\ fin = [c \in Clients |-> "no"]
  /\ cpc = [c \in Clients |-> "away"]
  /\ misread = FALSE /\ deaf = {}

\* A piece joins the stream; text after text of the same kind is one piece.
Join(q, m) == IF q # <<>> /\ q[Len(q)] = m THEN q ELSE Append(q, m)

\* send() to a client: one whose user killed it lets the first one pass, and the
\* next one raises SIGPIPE.
Broken(c) == fin[c] = "reset"
Put(c, m) ==
  IF fin[c] = "no"
    THEN toClient' = [toClient EXCEPT ![c] = Join(@, m)] /\ UNCHANGED fin
    ELSE fin' = [fin EXCEPT ![c] = "reset"] /\ UNCHANGED toClient

Happened == sent + Cardinality({c \in Clients : fin[c] # "no"})

-----------------------------------------------------------------------------
(* Server.c: main *)

\* The handler can interrupt these lines, but what it does there it could do before or
\* after them.
Accept ==
  /\ mpc = "select" /\ backlog # <<>>
  /\ nsfd' = Append(nsfd, Head(backlog))
  /\ flag' = [flag EXCEPT ![cnt] = 0]
  /\ Put(Head(backlog), "num")
  /\ cnt' = cnt + 1
  /\ backlog' = Tail(backlog)
  /\ mpc' = "poll" /\ mi' = 0
  /\ UNCHANGED <<ecnt, inputVars, echo, toServer, cpc, history>>

\* read() of ffd[k] into msg, after select() found nothing in the sources from mi on before
\* it.  A source has something to say or not as it pleases.  A pass without a connection
\* and a line changes nothing and is left out.
Poll(k) ==
  /\ \/ mpc = "select" /\ backlog = <<>>
     \/ mpc = "poll" /\ k >= mi
  /\ said < MaxLines /\ said' = said + 1
  /\ mpc' = "test" /\ mi' = 0
  /\ UNCHANGED <<nsfd, cnt, ecnt, flag, pending, sent, backlog, echo, streamVars, cpc,
                 history>>

Pipe     == Poll(0)
Fifo     == Poll(1)
P3       == Poll(2)
Terminal == Poll(3)

PassEnds ==
  /\ mpc = "poll"
  /\ mpc' = "select" /\ mi' = 0
  /\ UNCHANGED <<nsfd, cnt, ecnt, flag, inputVars, backlog, echo, streamVars, cpc,
                 history>>

\* Both loops use i: ffd[] goes on one after the last client.
AfterRelay == mi + 1

\* if(flag[i]==0), for the next client
Test ==
  /\ mpc = "test"
  /\ \/ mi < cnt /\ flag[mi] = 0 /\ mpc' = "send" /\ UNCHANGED mi
     \/ mi < cnt /\ flag[mi] # 0 /\ mi' = mi + 1 /\ UNCHANGED mpc
     \/ mi >= cnt /\ mpc' = "poll" /\ mi' = AfterRelay
  /\ UNCHANGED <<nsfd, cnt, ecnt, flag, inputVars, backlog, echo, streamVars, cpc,
                 history>>

Relay ==
  /\ mpc = "send"
  /\ Put(nsfd[mi + 1], "news")
  /\ mpc' = IF Broken(nsfd[mi + 1]) THEN "dead" ELSE "test"
  /\ mi' = mi + 1
  /\ UNCHANGED <<nsfd, cnt, ecnt, flag, inputVars, backlog, echo, toServer, cpc,
                 history>>

Main == Accept \/ PassEnds \/ Test \/ Relay

-----------------------------------------------------------------------------
(* Server.c: the handler of SIGUSR1 *)

NextTurn == (ecnt + 1) % cnt

ClaimForgotten(i) == UNCHANGED flag   \* mutant
Claim(i) == flag' = [flag EXCEPT ![i] = 1]

\* fork() and execl("e") on the client's socket
Fork(i) == echo' = Append(echo, [client |-> nsfd[i + 1], pc |-> "hello",
                                 left |-> Rounds, no |-> -1])

\* It interrupts main anywhere; with cnt==0 the division raises SIGFPE.
Handler ==
  /\ pending /\ mpc # "dead"
  /\ pending' = FALSE
  /\ \/ /\ cnt = 0
        /\ mpc' = "dead"
        /\ UNCHANGED <<ecnt, flag, echo>>
     \/ /\ cnt > 0
        /\ ecnt' = NextTurn
        /\ \/ flag[ecnt'] = 0 /\ Claim(ecnt') /\ Fork(ecnt')
           \/ flag[ecnt'] # 0 /\ UNCHANGED <<flag, echo>>
        /\ UNCHANGED mpc
  /\ UNCHANGED <<mi, nsfd, cnt, sent, said, backlog, streamVars, cpc, history>>

-----------------------------------------------------------------------------
(* Echo_server.c; k counts the echo servers *)

Own(c) == CHOOSE i \in 0 .. cnt - 1 : nsfd[i + 1] = c

Goes(k, pc) == echo' = [echo EXCEPT ![k].pc = pc]

Readable(c) == toServer[c] # <<>> \/ fin[c] # "no"

\* read(): a reset connection fails once.
Take(c) ==
  /\ Readable(c)
  /\ toServer' = [toServer EXCEPT ![c] = <<>>]
  /\ fin' = IF toServer[c] = <<>> /\ fin[c] = "rst" THEN [fin EXCEPT ![c] = "reset"] ELSE fin

EchoWrites(k, m, pc) ==
  LET c == echo[k].client IN
  /\ Put(c, m)
  /\ Goes(k, IF Broken(c) THEN "dead" ELSE pc)
  /\ UNCHANGED <<mainVars, ecnt, flag, inputVars, backlog, toServer, cpc, history>>

Hello(k) == echo[k].pc = "hello" /\ EchoWrites(k, "e", "number")

\* atoi() of what comes first: the client's number, a line of text, or nothing.
NumbersIn(c) ==
  IF toServer[c] = <<>> THEN {0}
  ELSE IF Head(toServer[c]) = "num" THEN {Own(c)}
  ELSE 0 .. Nobody

ReadNumber(k) ==
  LET c == echo[k].client IN
  /\ echo[k].pc = "number"
  /\ Take(c)
  /\ \E n \in NumbersIn(c) :
       /\ echo' = [echo EXCEPT ![k].pc = "read", ![k].no = n]
       /\ misread' = (misread \/ n # Own(c))
  /\ deaf' = IF Len(toServer[c]) > 1 THEN deaf \union {c} ELSE deaf
  /\ UNCHANGED <<mainVars, ecnt, flag, inputVars, backlog, toClient, cpc>>

ReadLine(k) ==
  /\ echo[k].pc = "read"
  /\ Take(echo[k].client)
  /\ Goes(k, "write")
  /\ UNCHANGED <<mainVars, ecnt, flag, inputVars, backlog, toClient, cpc, history>>

SameRound(k) == echo[k].left   \* mutant
\* j++
NextRound(k) == echo[k].left - 1

WriteEcho(k) ==
  LET c == echo[k].client IN
  /\ echo[k].pc = "write"
  /\ Put(c, "echo")
  /\ echo' = [echo EXCEPT ![k].left = NextRound(k),
                          ![k].pc = IF Broken(c) THEN "dead"
                                    ELSE IF NextRound(k) = 0 THEN "end" ELSE "read"]
  /\ UNCHANGED <<mainVars, ecnt, flag, inputVars, backlog, toServer, cpc, history>>

End(k) == echo[k].pc = "end" /\ EchoWrites(k, "end", "free")

\* flag[client_no]=0
FreeFlag(k) ==
  flag' = IF echo[k].no \in Index THEN [flag EXCEPT ![echo[k].no] = 0] ELSE flag

Free(k) ==
  /\ echo[k].pc = "free"
  /\ FreeFlag(k)
  /\ Goes(k, "bye")
  /\ UNCHANGED <<mainVars, ecnt, inputVars, backlog, streamVars, cpc, history>>

\* What printf() wrote to the client's socket leaves the buffer when the process exits.
Exit(k) ==
  /\ echo[k].pc = "bye"
  /\ Put(echo[k].client, "bye")
  /\ Goes(k, "gone")
  /\ UNCHANGED <<mainVars, ecnt, flag, inputVars, backlog, toServer, cpc, history>>

Echo(k) ==
  \/ Hello(k) \/ ReadNumber(k) \/ ReadLine(k) \/ WriteEcho(k) \/ End(k) \/ Free(k)
  \/ Exit(k)

-----------------------------------------------------------------------------
(* client.c *)

Connect(c) ==
  /\ cpc[c] = "away"
  /\ cpc' = [cpc EXCEPT ![c] = "number"]
  /\ backlog' = Append(backlog, c)
  /\ UNCHANGED <<mainVars, ecnt, flag, inputVars, echo, streamVars, history>>

Control == {"e", "end"}

\* recv() of all that has come, of which the client sees the first piece.
Recv(c, heard) ==
  LET q == toClient[c]
      lost == {j \in DOMAIN q : q[j] \in Control /\ ~(j = 1 /\ q[j] = heard)}
  IN /\ q # <<>>
     /\ toClient' = [toClient EXCEPT ![c] = <<>>]
     /\ deaf' = IF lost # {} THEN deaf \union {c} ELSE deaf

GetNumber(c) ==
  /\ cpc[c] = "number"
  /\ Recv(c, "num")
  /\ cpc' = [cpc EXCEPT ![c] = "idle"]
  /\ UNCHANGED <<mainVars, ecnt, flag, inputVars, backlog, echo, toServer, fin, misread>>

\* if(strcmp(buf,"e")==0) echochat(cfd,m), which begins by sending the number.
Listen(c) ==
  /\ cpc[c] = "idle"
  /\ Recv(c, "e")
  /\ \/ /\ Head(toClient[c]) = "e"
        /\ toServer' = [toServer EXCEPT ![c] = Join(@, "num")]
        /\ cpc' = [cpc EXCEPT ![c] = "chat"]
     \/ Head(toClient[c]) # "e" /\ UNCHANGED <<toServer, cpc>>
  /\ UNCHANGED <<mainVars, ecnt, flag, inputVars, backlog, echo, fin, misread>>

\* The user types a line.
Type(c) ==
  /\ cpc[c] = "chat"
  /\ toServer' = [toServer EXCEPT ![c] = Join(@, "line")]
  /\ cpc' = [cpc EXCEPT ![c] = "wait"]
  /\ UNCHANGED <<mainVars, ecnt, flag, inputVars, backlog, echo, toClient, fin, history>>

Hear(c) ==
  /\ cpc[c] = "wait"
  /\ Recv(c, "end")
  /\ cpc' = [cpc EXCEPT ![c] = IF Head(toClient[c]) = "end" THEN "idle" ELSE "chat"]
  /\ UNCHANGED <<mainVars, ecnt, flag, inputVars, backlog, echo, toServer, fin, misread>>

\* Nobody has the other end any more.
LoseServer(c) ==
  /\ cpc[c] \in {"number", "idle", "wait"}
  /\ toClient[c] = <<>>
  /\ mpc = "dead" /\ \A k \in DOMAIN echo : echo[k].pc \in {"gone", "dead"}
  /\ cpc' = [cpc EXCEPT ![c] = "gone"]
  /\ UNCHANGED <<mainVars, ecnt, flag, inputVars, backlog, echo, streamVars, history>>

\* The user kills the client; with something unread the kernel sends a reset.
Quit(c) ==
  /\ cpc[c] \in {"number", "idle", "chat", "wait"}
  /\ Happened < MaxEvents
  /\ fin' = [fin EXCEPT ![c] = IF toClient[c] = <<>> THEN "fin" ELSE "rst"]
  /\ cpc' = [cpc EXCEPT ![c] = "gone"]
  /\ UNCHANGED <<mainVars, ecnt, flag, inputVars, backlog, echo, toClient, toServer,
                 history>>

Client(c) == GetNumber(c) \/ Listen(c) \/ Hear(c) \/ LoseServer(c)

User(c) == Connect(c) \/ Type(c) \/ Quit(c)

-----------------------------------------------------------------------------
(* signal.c: its user enters a number *)

\* SIGUSR1 does not queue.
Signal ==
  /\ Happened < MaxEvents
  /\ sent' = sent + 1 /\ pending' = TRUE
  /\ UNCHANGED <<mainVars, ecnt, flag, said, backlog, echo, streamVars, cpc, history>>

Next ==
  \/ Main \/ Handler \/ Signal
  \/ Pipe \/ Fifo \/ P3 \/ Terminal
  \/ \E k \in DOMAIN echo : Echo(k)
  \/ \E c \in Clients : Client(c) \/ User(c)

Spec == Init /\ [][Next]_vars

\* Processes run and signals are delivered.  Nobody need speak, type or signal.
Fairness ==
  /\ WF_vars(Main) /\ WF_vars(Handler)
  /\ \A k \in 1 .. MaxEvents : WF_vars(k \in DOMAIN echo /\ Echo(k))
  /\ \A c \in Clients : WF_vars(Client(c))

FairSpec == Spec /\ Fairness

-----------------------------------------------------------------------------
(* Properties *)

TypeOK ==
  /\ mpc \in {"select", "poll", "test", "send", "dead"}
  /\ mi \in 0 .. cnt + 1
  /\ nsfd \in Seq(Clients) /\ cnt = Len(nsfd)
  /\ ecnt \in -1 .. cnt - 1 /\ flag \in [Index -> {0, 1}]
  /\ pending \in BOOLEAN /\ sent \in 0 .. MaxEvents
  /\ said \in 0 .. MaxLines
  /\ backlog \in Seq(Clients)
  /\ echo \in Seq([client : Clients, left : 0 .. Rounds, no : -1 .. Nobody,
                   pc : {"hello", "number", "read", "write", "end", "free", "bye", "gone",
                         "dead"}])
  /\ toClient \in [Clients -> Seq({"num", "news", "e", "echo", "end", "bye"})]
  /\ toServer \in [Clients -> Seq({"num", "line"})]
  /\ fin \in [Clients -> {"no", "fin", "rst", "reset"}]
  /\ cpc \in [Clients -> {"away", "number", "idle", "chat", "wait", "gone"}]
  /\ misread \in BOOLEAN /\ deaf \subseteq Clients

\* The echo servers of client c that have not cleared a flag, the killed ones included.
Busy(c) == {k \in DOMAIN echo : echo[k].client = c /\ echo[k].pc \notin {"bye", "gone"}}

\* As long as every echo server was told its client's own number, flag[i] is 1 exactly
\* while client i has an echo server, and it has one at most.
FlagTellsTheTruth ==
  ~misread => \A i \in 0 .. cnt - 1 :
    /\ Cardinality(Busy(nsfd[i + 1])) <= 1
    /\ flag[i] = 1 <=> Busy(nsfd[i + 1]) # {}

\* An echo server takes a wrong number only from a client that was killed or that another
\* echo server has talked to as well: the line with which the client fetched the "end" of
\* an earlier session is still in its socket, or a number mistaken elsewhere has cleared the
\* client's flag, and two echo servers read from it by turns.
WrongOnlyShared ==
  \A k \in DOMAIN echo :
    LET c == echo[k].client IN
    \/ echo[k].no \in {-1, Own(c)} \/ fin[c] # "no"
    \/ \E j \in DOMAIN echo \ {k} : echo[j].client = c

\* The server ends only when it is signalled before it has a client, or when it writes
\* again to a client that was killed.
DiesForAReason == mpc = "dead" => cnt = 0 \/ \E c \in Clients : Broken(c)

\* Flags, numbers and deaths are explained.
PoolInv == TypeOK /\ FlagTellsTheTruth /\ WrongOnlyShared /\ DiesForAReason

Over(k) == k \in DOMAIN echo /\ echo[k].pc = "gone"

\* A session begins, echoes and ends, if its user types, nothing that client and echo
\* server wait for gets lost behind other text, and numbers are not mistaken: client and
\* echo server do not wait for each other.
EverySessionEnds ==
  \A k \in 1 .. MaxEvents : \A c \in Clients :
    []<>(cpc[c] # "chat") =>
      ((k \in DOMAIN echo /\ echo[k].client = c) ~>
         (Over(k) \/ misread \/ c \in deaf \/ fin[c] # "no"))
=============================================================================
