----------------------------- MODULE ChatServer -----------------------------
(***************************************************************************)
(* The chat servers of OS_Using_Poll and Programs_Using_Select.  A client  *)
(* writes the name of its fifo into shared memory and sends SIGUSR1; the   *)
(* server's handler opens the fifo, appends "1" to the name where it is,   *)
(* and opens the second fifo.  What a client writes goes to all others.    *)
(*                                                                         *)
(* A name is <<c, n>>: client c's, with "1" appended n times.  Texts are   *)
(* left out: a fifo has something in it or not.  strcpy() and sprintf()    *)
(* are one step each.                                                      *)
(***************************************************************************)
EXTENDS Integers, Sequences, FiniteSets

CONSTANTS Clients,      \* the client processes
          MaxKills      \* bound: how many clients are killed by their user

ASSUME ChatAssumption == IsFiniteSet(Clients) /\ MaxKills \in Nat

NoFile == <<>>          \* an open() that failed

VARIABLES
  poll,          \* the server with poll(), or the one with select()
  fifoname,      \* the name in shared memory
  pending,       \* SIGUSR1 is pending
  hpc, name,     \* where the handler is, and the name that open() was given
  pfd, fd,       \* what is read from and written to, for each client
  mpc, i,        \* where main is, and its i
  toServer, toClient,   \* something is in the two fifos of each client
  cpc,           \* where each client is
  raced          \* history: a client began to join while another one did

handlerVars == <<hpc, name, pfd, fd>>
mainVars    == <<mpc, i>>
fifoVars    == <<toServer, toClient>>
vars == <<poll, fifoname, pending, handlerVars, mainVars, fifoVars, cpc, raced>>

Init ==
  /\ poll \in BOOLEAN
  /\ fifoname = NoFile /\ pending = FALSE
  /\ hpc = "none" /\ name = NoFile
  /\ pfd = <<>> /\ fd = <<>>
  /\ mpc = "pass" /\ i = 1
  /\ toServer = [c \in Clients |-> FALSE] /\ toClient = [c \in Clients |-> FALSE]
  /\ cpc = [c \in Clients |-> "away"]
  /\ raced = FALSE

Held(f, fds) == \E k \in DOMAIN fds : fds[k] = f

-----------------------------------------------------------------------------
(* server.c: the handler of SIGUSR1, which main waits for *)

Deliver ==
  /\ pending /\ hpc = "none" /\ mpc # "dead"
  /\ pending' = FALSE
  /\ hpc' = "reader" /\ name' = fifoname
  /\ UNCHANGED <<poll, fifoname, pfd, fd, mainVars, fifoVars, cpc, raced>>

\* open() waits for the other end: a client's threads, or the server itself.
CanRead(f)  == (f[2] = 0 /\ cpc[f[1]] = "in") \/ Held(f, fd)
CanWrite(f) == (f[2] = 1 /\ cpc[f[1]] = "in") \/ Held(f, pfd)
Missing(f)  == f[2] > 1

\* pfd[nfd].fd=open(fifoname,O_RDONLY)
OpenReader ==
  /\ hpc = "reader"
  /\ \/ CanRead(name) /\ pfd' = Append(pfd, name)
     \/ Missing(name) /\ pfd' = Append(pfd, NoFile)
  /\ hpc' = "append"
  /\ UNCHANGED <<poll, fifoname, pending, name, fd, mainVars, fifoVars, cpc, raced>>

AsItWas == fifoname   \* mutant
\* sprintf(fifoname,"%s%d",fifoname,1), whatever the name is by now
Appended == [fifoname EXCEPT ![2] = @ + 1]

AppendOne ==
  /\ hpc = "append"
  /\ fifoname' = Appended
  /\ hpc' = "name"
  /\ UNCHANGED <<poll, pending, name, pfd, fd, mainVars, fifoVars, cpc, raced>>

TakeName ==
  /\ hpc = "name"
  /\ hpc' = "writer" /\ name' = fifoname
  /\ UNCHANGED <<poll, fifoname, pending, pfd, fd, mainVars, fifoVars, cpc, raced>>

\* fd[nfd]=open(fifoname,O_WRONLY), and nfd++
OpenWriter ==
  /\ hpc = "writer"
  /\ \/ CanWrite(name) /\ fd' = Append(fd, name)
     \/ Missing(name) /\ fd' = Append(fd, NoFile)
  /\ hpc' = "none" /\ name' = NoFile
  /\ UNCHANGED <<poll, fifoname, pending, pfd, mainVars, fifoVars, cpc, raced>>

Handler == Deliver \/ OpenReader \/ AppendOne \/ TakeName \/ OpenWriter

-----------------------------------------------------------------------------
(* server.c: main *)

Text(k) ==
  LET f == pfd[k] IN
  f # NoFile /\ IF f[2] = 0 THEN toServer[f[1]] ELSE toClient[f[1]]
Ended(k) == pfd[k] # NoFile /\ ~CanRead(pfd[k])

\* revents==1 is POLLIN without POLLHUP; select() returns for the end of a fifo, too.
Ready(k) == IF poll THEN Text(k) /\ ~Ended(k) ELSE Text(k) \/ Ended(k)

Nfd == Len(fd)
AlwaysFirst == 1   \* mutant
\* i=(i+1)%nfd, or the loop that begins with 0
AfterTurn == IF poll THEN 1 ELSE (i % Nfd) + 1

\* poll() looks at all and takes the first, select() at number i.
Chosen == IF poll THEN {k \in 1 .. Nfd : Ready(k) /\ \A l \in 1 .. k - 1 : ~Ready(l)}
          ELSE {k \in 1 .. Nfd : k = i /\ Ready(k)}

Read ==
  /\ mpc = "pass" /\ hpc = "none"
  /\ \E k \in Chosen :
       /\ i' = k
       /\ toServer' = [c \in Clients |-> toServer[c] /\ pfd[k] # <<c, 0>>]
       /\ toClient' = [c \in Clients |-> toClient[c] /\ pfd[k] # <<c, 1>>]
  /\ mpc' = "relay"
  /\ UNCHANGED <<poll, fifoname, pending, handlerVars, cpc, raced>>

\* Nothing in number i: the loop with select() goes on to the next one.
Skip ==
  /\ mpc = "pass" /\ hpc = "none" /\ ~poll /\ Nfd > 0 /\ ~Ready(i)
  /\ i' = AfterTurn
  /\ UNCHANGED <<poll, fifoname, pending, handlerVars, mpc, fifoVars, cpc, raced>>

\* write() to all others.  A fifo that nobody reads any more raises SIGPIPE.
Relay ==
  LET to == {fd[j] : j \in 1 .. Nfd \ {i}} \ {NoFile}
      unread == {f \in to : cpc[f[1]] = "gone" /\ ~Held(f, pfd)}
  IN /\ mpc = "relay" /\ hpc = "none"
     /\ \/ /\ unread = {}
           /\ toClient' = [c \in Clients |-> toClient[c] \/ <<c, 1>> \in to]
           /\ toServer' = [c \in Clients |-> toServer[c] \/ <<c, 0>> \in to]
           /\ mpc' = "pass" /\ i' = AfterTurn
        \/ unread # {} /\ mpc' = "dead" /\ UNCHANGED <<i, fifoVars>>
     /\ UNCHANGED <<poll, fifoname, pending, handlerVars, cpc, raced>>

Main == Read \/ Skip \/ Relay

-----------------------------------------------------------------------------
(* client.c *)

Joining == pending \/ hpc # "none" \/ \E c \in Clients : cpc[c] = "named"

\* strcpy(fifoname1,fifoname)
Name(c) ==
  /\ cpc[c] = "away"
  /\ cpc' = [cpc EXCEPT ![c] = "named"]
  /\ fifoname' = <<c, 0>>
  /\ raced' = (raced \/ Joining)
  /\ UNCHANGED <<poll, pending, handlerVars, mainVars, fifoVars>>

\* The two threads, and kill(); SIGUSR1 does not queue.
Join(c) ==
  /\ cpc[c] = "named"
  /\ cpc' = [cpc EXCEPT ![c] = "in"]
  /\ pending' = TRUE
  /\ UNCHANGED <<poll, fifoname, handlerVars, mainVars, fifoVars, raced>>

\* function2, whose open() waits for the server
Type(c) ==
  /\ cpc[c] = "in" /\ Held(<<c, 0>>, pfd) /\ mpc # "dead"
  /\ toServer' = [toServer EXCEPT ![c] = TRUE]
  /\ UNCHANGED <<poll, fifoname, pending, handlerVars, mainVars, toClient, cpc, raced>>

\* function1
Hear(c) ==
  /\ cpc[c] = "in" /\ toClient[c]
  /\ toClient' = [toClient EXCEPT ![c] = FALSE]
  /\ UNCHANGED <<poll, fifoname, pending, handlerVars, mainVars, toServer, cpc, raced>>

\* The user kills the client.
Kill(c) ==
  /\ cpc[c] \in {"named", "in"}
  /\ Cardinality({d \in Clients : cpc[d] = "gone"}) < MaxKills
  /\ cpc' = [cpc EXCEPT ![c] = "gone"]
  /\ UNCHANGED <<poll, fifoname, pending, handlerVars, mainVars, fifoVars, raced>>

User(c) == Name(c) \/ Type(c) \/ Kill(c)

Next == Handler \/ Main \/ \E c \in Clients : Join(c) \/ Hear(c) \/ User(c)

Spec == Init /\ [][Next]_vars

\* Processes run and signals are delivered.  Users need not do anything.
Fairness ==
  /\ WF_vars(Handler) /\ WF_vars(Main)
  /\ \A c \in Clients : WF_vars(Join(c)) /\ WF_vars(Hear(c))

FairSpec == Spec /\ Fairness

-----------------------------------------------------------------------------
(* Properties *)

Files == {NoFile} \union (Clients \X Nat)

HandlerTypes ==
  /\ fifoname \in Files /\ name \in Files /\ pending \in BOOLEAN
  /\ hpc \in {"none", "reader", "append", "name", "writer"}
  /\ pfd \in Seq(Files) /\ fd \in Seq(Files)
  /\ Len(pfd) - Len(fd) = IF hpc \in {"append", "name", "writer"} THEN 1 ELSE 0

MainTypes ==
  /\ poll \in BOOLEAN /\ raced \in BOOLEAN
  /\ mpc \in {"pass", "relay", "dead"} /\ i \in Nat \ {0}
  /\ toServer \in [Clients -> BOOLEAN] /\ toClient \in [Clients -> BOOLEAN]
  /\ cpc \in [Clients -> {"away", "named", "in", "gone"}]

TypeOK == HandlerTypes /\ MainTypes

\* As long as clients join one after the other, each of them has one element of pfd[]
\* and fd[], which are its own two fifos; so no message comes back to its sender.
PairsMatch ==
  ~raced =>
    /\ \A k \in 1 .. Nfd : pfd[k][2] = 0 /\ fd[k] = <<pfd[k][1], 1>>
    /\ \A k, l \in 1 .. Nfd : pfd[k] = pfd[l] => k = l

\* A client that sent its signal is in pfd[] and fd[] once no signal is left to handle:
\* one pending bit is enough for clients that join one after the other.
EveryoneJoins ==
  (~raced /\ ~pending /\ hpc = "none") =>
    \A c \in Clients : cpc[c] = "in" => Held(<<c, 0>>, pfd) /\ Held(<<c, 1>>, fd)

\* The handler waits for a file that nobody will open only when clients raced or the
\* client was killed.
HangsForAReason ==
  (hpc \in {"reader", "writer"} /\ ~CanRead(name) /\ ~CanWrite(name) /\ ~Missing(name)) =>
    raced \/ cpc[name[1]] = "gone"

\* The server ends only after a client was killed.
DiesForAReason == mpc = "dead" => \E c \in Clients : cpc[c] = "gone"

\* Joining, waiting and the server's end are explained.
ChatInv == TypeOK /\ PairsMatch /\ EveryoneJoins /\ HangsForAReason /\ DiesForAReason

\* What a client types is read, as long as clients join one after the other and nobody is
\* killed; with poll() only if the others fall silent, since each pass serves the first.
EveryMessageIsRead ==
  \A c \in Clients :
    (poll => <>[](\A d \in Clients \ {c} : ~toServer[d])) =>
      (toServer[c] ~> (~toServer[c] \/ raced \/ \E d \in Clients : cpc[d] = "gone"))
=============================================================================
