---------------------------- MODULE BackupServer ----------------------------
(***************************************************************************)
(* UDS_Programs/BackUp server: the echo server server.c, the backup bs.c it *)
(* starts, and the clients client.c.                                       *)
(*                                                                         *)
(* The server passes its listening socket and every connection it accepts  *)
(* to the backup over a UNIX socket.  After more than five requests it     *)
(* sends SIGUSR1 and returns from main, which ends its service threads;    *)
(* the backup then serves the descriptors it has read so far and goes on   *)
(* accepting.  Between these two moments both processes read from the same *)
(* connections.                                                            *)
(*                                                                         *)
(* Requests carry no text: a socket buffer is empty or not, as TCP merges  *)
(* what has not been read.  The capitals are left out.  A thread's local   *)
(* variables are reset when it no longer uses them, which loses nothing.   *)
(***************************************************************************)
EXTENDS Integers, Sequences, FiniteSets

CONSTANTS Clients,   \* the client processes
          Limit,     \* the server hands over when cnt > Limit: 5 in the code
          MaxQuits,  \* bound: how many clients are killed by their user
          Listener,  \* sfd, the first descriptor passed
          NoClient, NoFd

ASSUME BackupAssumption ==
  /\ Limit \in Nat /\ MaxQuits \in Nat
  /\ IsFiniteSet(Clients)
  /\ Listener \notin Clients /\ NoClient \notin Clients /\ NoClient # Listener

\* The descriptors the backup's kernel gives connections, lowest free one first.
Fds == 1 .. Cardinality(Clients)

ASSUME FdAssumption == NoFd \notin Fds

VARIABLES
  (* the server *)
  spc,       \* where main is; "gone" when the process has ended
  cur,       \* nsfd[i], the connection main has accepted and not given a thread
  thr,       \* where the service thread of each connection is
  got,       \* what its recv() gave: a request, or nothing and an error
  tmp, cnt,  \* the thread's copy of cnt, and cnt; both stay at Limit + 1
  (* the backup *)
  bpc,       \* where main is; "dead" when the process has ended
  flag,      \* the SIGUSR1 handler has run
  nsfd,      \* nsfd[0..i-1]: the descriptors read
  eofs,      \* how many of them read_fd() left unset, at the end of the stream
  top,       \* nsfd[i], where the accept loop puts every connection
  files,     \* the connection behind each open descriptor
  threads,   \* its service threads
  (* the kernel *)
  uds,       \* descriptors passed and not yet read
  backlog,   \* connections nobody has accepted
  asked,     \* a request is in the connection's buffer
  answer,    \* a reply is in the client's buffer
  fin,       \* how the client's end was closed
  (* the clients *)
  cpc,
  (* history *)
  dropped,   \* clients whose request was with a thread when its process ended
  miscounted,\* a cnt++ has been lost
  received,  \* requests and errors received by the server, up to Limit + 1
  raced,     \* nsfd[i] was overwritten before a new thread had read it
  astray     \* a reply was not sent to the client that asked

serverVars == <<spc, cur, thr, got, tmp, cnt>>
backupVars == <<bpc, flag, nsfd, eofs, top, files, threads>>
socketVars == <<uds, backlog, asked, answer, fin>>
history    == <<dropped, miscounted, received, raced, astray>>
vars == <<serverVars, backupVars, socketVars, cpc, history>>

Init ==
  /\ spc = "bind" /\ cur = NoClient
  /\ thr = [c \in Clients |-> "none"]
  /\ got = [c \in Clients |-> "nothing"]
  /\ tmp = [c \in Clients |-> 0] /\ cnt = 0
  /\ bpc = "test" /\ flag = FALSE
  /\ nsfd = <<>> /\ eofs = 0 /\ top = NoFd
  /\ files = [f \in Fds |-> NoClient]
  /\ threads = <<>>
  /\ uds = <<>> /\ backlog = <<>>
  /\ asked = [c \in Clients |-> FALSE]
  /\ answer = [c \in Clients |-> FALSE]
  /\ fin = [c \in Clients |-> "no"]
  /\ cpc = [c \in Clients |-> "away"]
  /\ dropped = {} /\ miscounted = FALSE /\ received = 0
  /\ raced = FALSE /\ astray = FALSE

Elements(s) == {s[k] : k \in DOMAIN s}
AtMost(n, max) == IF n < max THEN n ELSE max

-----------------------------------------------------------------------------
(* Connections *)

\* Some process has a descriptor of the listening socket.
Listening ==
  /\ spc # "bind"
  /\ \/ spc # "gone"
     \/ Listener \in Elements(uds)
     \/ Listener \in Elements(nsfd) /\ bpc # "dead"

\* The server has a descriptor of the connection.
ServerHas(c) == spc # "gone" /\ (cur = c \/ thr[c] \notin {"none", "done"})

\* The connection is open at the servers' end, unread descriptors included.
Held(c) ==
  \/ c \in Elements(backlog) /\ Listening
  \/ ServerHas(c)
  \/ c \in Elements(uds)
  \/ c \in {files[f] : f \in Fds}
  \/ \E k \in DOMAIN threads : threads[k].pc = "recv" /\ threads[k].file = c

\* send() on a connection that was reset, and the reset already reported, raises SIGPIPE.
BrokenPipe(c) == fin[c] = "reset"

NoReply(c, g) == UNCHANGED <<answer, fin>>   \* mutant
\* Any other send() reaches the client, or is answered with a reset.
SendTo(c, g) ==
  IF fin[c] = "no"
    THEN /\ answer' = [answer EXCEPT ![c] = @ \/ g = "request"]
         /\ UNCHANGED fin
    ELSE /\ fin' = [fin EXCEPT ![c] = "reset"]
         /\ UNCHANGED answer

\* recv() returns a request, -1 after a reset, or 0 once the client has closed.
RecvRequest(c) == asked[c] /\ asked' = [asked EXCEPT ![c] = FALSE] /\ UNCHANGED fin
RecvError(c)   == ~asked[c] /\ fin[c] = "rst" /\ fin' = [fin EXCEPT ![c] = "reset"]
                  /\ UNCHANGED asked
AtEnd(c)       == ~asked[c] /\ fin[c] \in {"fin", "reset"}

-----------------------------------------------------------------------------
(* server.c, main() *)

\* The port is taken: exit(1).
BindFails ==
  /\ spc = "bind"
  /\ spc' = "gone"
  /\ UNCHANGED <<cur, thr, got, tmp, cnt, backupVars, socketVars, cpc, history>>

\* bind(), listen() and write_fd() of the listening socket.
Start ==
  /\ spc = "bind"
  /\ spc' = "accept"
  /\ uds' = <<Listener>>
  /\ UNCHANGED <<cur, thr, got, tmp, cnt, backupVars, backlog, asked, answer, fin, cpc,
                 history>>

Accept ==
  /\ spc = "accept"
  /\ backlog # <<>>
  /\ cur' = Head(backlog)
  /\ backlog' = Tail(backlog)
  /\ spc' = "pass"
  /\ UNCHANGED <<thr, got, tmp, cnt, backupVars, uds, asked, answer, fin, cpc, history>>

\* write_fd(nusfd[0],nsfd[i])
PassFd == uds' = Append(uds, cur)

Pass ==
  /\ spc = "pass"
  /\ PassFd
  /\ spc' = "create"
  /\ UNCHANGED <<cur, thr, got, tmp, cnt, backupVars, backlog, asked, answer, fin, cpc,
                 history>>

Create ==
  /\ spc = "create"
  /\ thr' = [thr EXCEPT ![cur] = "recv"]
  /\ cur' = NoClient
  /\ spc' = "check"
  /\ UNCHANGED <<got, tmp, cnt, backupVars, socketVars, cpc, history>>

\* if(cnt>5) break
Check ==
  /\ spc = "check"
  /\ spc' = IF cnt > Limit THEN "kill" ELSE "accept"
  /\ UNCHANGED <<cur, thr, got, tmp, cnt, backupVars, socketVars, cpc, history>>

SignalIgnored == UNCHANGED flag   \* mutant
\* handle(): flag=1
Handle == flag' = TRUE

\* kill(pid,SIGUSR1).  The handler runs before the backup's next instruction.
Kill ==
  /\ spc = "kill"
  /\ Handle
  /\ spc' = "return"
  /\ UNCHANGED <<cur, thr, got, tmp, cnt, bpc, nsfd, eofs, top, files, threads, socketVars,
                 cpc, history>>

\* The process ends, its threads with it.
ServerEnds ==
  /\ spc' = "gone"
  /\ cur' = NoClient
  /\ thr' = [c \in Clients |-> IF thr[c] = "none" THEN "none" ELSE "done"]
  /\ dropped' = dropped \union
                  {c \in Clients : thr[c] \in {"load", "store", "send"}
                                   /\ got[c] = "request"}

\* return 0
Return ==
  /\ spc = "return"
  /\ ServerEnds
  /\ UNCHANGED <<got, tmp, cnt, backupVars, socketVars, cpc, miscounted, received, raced,
                 astray>>

ServerMain == Start \/ Accept \/ Pass \/ Create \/ Check \/ Kill \/ Return

-----------------------------------------------------------------------------
(* server.c, service() *)

Recv(c) ==
  /\ thr[c] = "recv"
  /\ \/ /\ RecvRequest(c)
        /\ got' = [got EXCEPT ![c] = "request"]
     \/ /\ RecvError(c)
        /\ got' = [got EXCEPT ![c] = "nothing"]
  /\ thr' = [thr EXCEPT ![c] = "load"]
  /\ received' = AtMost(received + 1, Limit + 1)
  /\ UNCHANGED <<spc, cur, tmp, cnt, backupVars, uds, backlog, answer, cpc, dropped,
                 miscounted, raced, astray>>

\* if(ret==0) { close(fd); break; }
RecvEnd(c) ==
  /\ thr[c] = "recv"
  /\ AtEnd(c)
  /\ thr' = [thr EXCEPT ![c] = "done"]
  /\ UNCHANGED <<spc, cur, got, tmp, cnt, backupVars, socketVars, cpc, history>>

\* cnt++ reads cnt ...
Load(c) ==
  /\ thr[c] = "load"
  /\ tmp' = [tmp EXCEPT ![c] = cnt]
  /\ thr' = [thr EXCEPT ![c] = "store"]
  /\ UNCHANGED <<spc, cur, got, cnt, backupVars, socketVars, cpc, history>>

CountTwice(c) == AtMost(tmp[c] + 2, Limit + 1)   \* mutant
Counted(c) == AtMost(tmp[c] + 1, Limit + 1)

\* ... and writes it back, whatever the other threads did meanwhile.
Store(c) ==
  /\ thr[c] = "store"
  /\ cnt' = Counted(c)
  /\ miscounted' = (miscounted \/ tmp[c] # cnt)
  /\ tmp' = [tmp EXCEPT ![c] = 0]
  /\ thr' = [thr EXCEPT ![c] = "send"]
  /\ UNCHANGED <<spc, cur, got, backupVars, socketVars, cpc, dropped, received, raced,
                 astray>>

Send(c) ==
  /\ thr[c] = "send"
  /\ \/ /\ ~BrokenPipe(c)
        /\ SendTo(c, got[c])
        /\ thr' = [thr EXCEPT ![c] = "recv"]
        /\ UNCHANGED <<spc, cur, dropped>>
     \/ /\ BrokenPipe(c)
        /\ ServerEnds
        /\ UNCHANGED <<answer, fin>>
  /\ got' = [got EXCEPT ![c] = "nothing"]
  /\ UNCHANGED <<tmp, cnt, backupVars, uds, backlog, asked, cpc, miscounted, received,
                 raced, astray>>

Service(c) == Recv(c) \/ RecvEnd(c) \/ Load(c) \/ Store(c) \/ Send(c)

-----------------------------------------------------------------------------
(* bs.c, main() *)

\* while(flag==0)
Test ==
  /\ bpc = "test" /\ ~flag
  /\ bpc' = "read"
  /\ UNCHANGED <<serverVars, flag, nsfd, eofs, top, files, threads, socketVars, cpc, history>>

LowestFree == CHOOSE f \in Fds : /\ files[f] = NoClient
                                 /\ \A g \in Fds : g < f => files[g] # NoClient

\* sleep(1); read_fd(cusfd,&nsfd[i]); i++;
ReadFd ==
  /\ bpc = "read"
  /\ uds # <<>>
  /\ uds' = Tail(uds)
  /\ IF Head(uds) = Listener
       THEN nsfd' = <<Listener>> /\ UNCHANGED files
       ELSE /\ nsfd' = Append(nsfd, LowestFree)
            /\ files' = [files EXCEPT ![LowestFree] = Head(uds)]
  /\ bpc' = "test"
  /\ UNCHANGED <<serverVars, flag, eofs, top, threads, backlog, asked, answer, fin, cpc,
                 history>>

\* The server is gone: read_fd() leaves what the stack held in nsfd[i].  One such
\* read is enough to follow: only a server that ends without SIGUSR1 causes more,
\* and then nsfd[] is never used.
ReadEnd ==
  /\ bpc = "read"
  /\ uds = <<>> /\ spc = "gone"
  /\ eofs = 0
  /\ \E f \in Fds \union {NoFd} : nsfd' = Append(nsfd, f)
  /\ eofs' = 1
  /\ bpc' = "test"
  /\ UNCHANGED <<serverVars, flag, top, files, threads, socketVars, cpc, history>>

LastSlot(j) == Len(nsfd)   \* mutant
\* The j-th thread is given nsfd[j], which is element j + 1 of the sequence.
SlotOf(j) == j + 1

Thread(p, f) == [pc |-> p, fd |-> f, file |-> NoClient, got |-> "nothing"]

\* sfd=nsfd[0], and a service thread for every other descriptor read.
TakeOver ==
  /\ bpc = "test" /\ flag
  /\ nsfd # <<>>
  /\ threads' = [j \in 1 .. Len(nsfd) - 1 |-> Thread("loop", nsfd[SlotOf(j)])]
  /\ bpc' = "accept"
  /\ UNCHANGED <<serverVars, flag, nsfd, eofs, top, files, socketVars, cpc, history>>

\* The process ends; the descriptors it had not read are closed with the UNIX socket.
BackupEnds ==
  /\ bpc' = "dead"
  /\ uds' = <<>>
  /\ files' = [f \in Fds |-> NoClient]
  /\ threads' = <<>>
  /\ dropped' = dropped \union
                  {threads[k].file : k \in {j \in DOMAIN threads :
                                              threads[j].pc = "send"
                                              /\ threads[j].got = "request"}}

\* SIGUSR1 before the first read_fd(): accept() on an unset descriptor, exit(1).
TakeOverTooSoon ==
  /\ bpc = "test" /\ flag
  /\ nsfd = <<>>
  /\ BackupEnds
  /\ UNCHANGED <<serverVars, flag, nsfd, eofs, top, backlog, asked, answer, fin, cpc,
                 miscounted, received, raced, astray>>

BackupAccept ==
  /\ bpc = "accept"
  /\ backlog # <<>>
  /\ backlog' = Tail(backlog)
  /\ files' = [files EXCEPT ![LowestFree] = Head(backlog)]
  /\ top' = LowestFree
  /\ raced' = (raced \/ \E k \in DOMAIN threads : threads[k].pc = "new")
  /\ bpc' = "create"
  /\ UNCHANGED <<serverVars, flag, nsfd, eofs, threads, uds, asked, answer, fin, cpc,
                 dropped, miscounted, received, astray>>

\* i is not incremented: every such thread is given the address of the same slot.
NewThread == threads' = Append(threads, Thread("new", NoFd))

BackupCreate ==
  /\ bpc = "create"
  /\ NewThread
  /\ bpc' = "accept"
  /\ UNCHANGED <<serverVars, flag, nsfd, eofs, top, files, socketVars, cpc, history>>

BackupMain == Test \/ ReadFd \/ ReadEnd \/ TakeOver \/ TakeOverTooSoon
              \/ BackupAccept \/ BackupCreate

-----------------------------------------------------------------------------
(* bs.c, service() *)

Moves(k, from, to) ==
  /\ threads[k].pc = from
  /\ threads' = [threads EXCEPT ![k] = Thread(to, threads[k].fd)]

\* int fd=(*t)
Begin(k) ==
  /\ threads[k].pc = "new"
  /\ threads' = [threads EXCEPT ![k].pc = "loop", ![k].fd = top]
  /\ UNCHANGED <<serverVars, bpc, flag, nsfd, eofs, top, files, socketVars, cpc, history>>

\* recv() looks the descriptor up.  On a closed one the thread only spins.
Enter(k) ==
  LET f == threads[k].fd IN
  /\ threads[k].pc = "loop"
  /\ f # NoFd /\ files[f] # NoClient
  /\ threads' = [threads EXCEPT ![k].pc = "recv", ![k].file = files[f]]
  /\ UNCHANGED <<serverVars, bpc, flag, nsfd, eofs, top, files, socketVars, cpc, history>>

BackupRecv(k) ==
  /\ threads[k].pc = "recv"
  /\ \/ /\ RecvRequest(threads[k].file)
        /\ threads' = [threads EXCEPT ![k].pc = "send", ![k].got = "request"]
     \/ /\ RecvError(threads[k].file)
        /\ threads' = [threads EXCEPT ![k].pc = "send", ![k].got = "nothing"]
  /\ UNCHANGED <<serverVars, bpc, flag, nsfd, eofs, top, files, uds, backlog, answer, cpc,
                 history>>

BackupRecvEnd(k) ==
  /\ Moves(k, "recv", "close")
  /\ AtEnd(threads[k].file)
  /\ UNCHANGED <<serverVars, bpc, flag, nsfd, eofs, top, files, socketVars, cpc, history>>

\* close(fd): whatever the descriptor stands for by now.
Close(k) ==
  /\ Moves(k, "close", "done")
  /\ files' = [files EXCEPT ![threads[k].fd] = NoClient]
  /\ UNCHANGED <<serverVars, bpc, flag, nsfd, eofs, top, socketVars, cpc, history>>

\* while(1)
Again(k) == Moves(k, "send", "loop")

\* send() looks the descriptor up once more.
BackupSend(k) ==
  LET c == files[threads[k].fd] IN
  /\ threads[k].pc = "send"
  /\ astray' = (astray \/ (threads[k].got = "request" /\ threads[k].file # c))
  /\ \/ /\ c = NoClient
        /\ Again(k)
        /\ UNCHANGED <<bpc, uds, files, answer, fin, dropped>>
     \/ /\ c # NoClient /\ ~BrokenPipe(c)
        /\ SendTo(c, threads[k].got)
        /\ Again(k)
        /\ UNCHANGED <<bpc, uds, files, dropped>>
     \/ /\ c # NoClient /\ BrokenPipe(c)
        /\ BackupEnds
        /\ UNCHANGED <<answer, fin>>
  /\ UNCHANGED <<serverVars, flag, nsfd, eofs, top, backlog, asked, cpc, miscounted,
                 received, raced>>

BackupService(k) ==
  Begin(k) \/ Enter(k) \/ BackupRecv(k) \/ BackupRecvEnd(k) \/ Close(k) \/ BackupSend(k)

-----------------------------------------------------------------------------
(* client.c *)

Connected(c) == cpc[c] \in {"typing", "waiting"}

\* connect(), or exit(1) when nobody listens.
Connect(c) ==
  /\ cpc[c] = "away"
  /\ \/ /\ Listening
        /\ backlog' = Append(backlog, c)
        /\ cpc' = [cpc EXCEPT ![c] = "typing"]
     \/ /\ ~Listening
        /\ cpc' = [cpc EXCEPT ![c] = "gone"]
        /\ UNCHANGED backlog
  /\ UNCHANGED <<serverVars, backupVars, uds, asked, answer, fin, history>>

\* The user types a line, which is sent.
Ask(c) ==
  /\ cpc[c] = "typing" /\ Held(c)
  /\ asked' = [asked EXCEPT ![c] = TRUE]
  /\ cpc' = [cpc EXCEPT ![c] = "waiting"]
  /\ UNCHANGED <<serverVars, backupVars, uds, backlog, answer, fin, history>>

\* recv() of the reply.
Read(c) ==
  /\ cpc[c] = "waiting"
  /\ answer[c]
  /\ answer' = [answer EXCEPT ![c] = FALSE]
  /\ cpc' = [cpc EXCEPT ![c] = "typing"]
  /\ UNCHANGED <<serverVars, backupVars, uds, backlog, asked, fin, history>>

\* The last descriptor of the connection was closed under the client.  With the
\* listening socket the kernel closes all connections that nobody has accepted.
CutOff(c) ==
  /\ Connected(c) /\ ~Held(c) /\ ~answer[c]
  /\ cpc' = [cpc EXCEPT ![c] = "cut off"]
  /\ backlog' = IF Listening THEN backlog ELSE <<>>
  /\ UNCHANGED <<serverVars, backupVars, uds, asked, answer, fin, history>>

\* The user kills the client.  With an unread reply the kernel sends a reset.
Quit(c) ==
  /\ Connected(c)
  /\ Cardinality({d \in Clients : fin[d] # "no"}) < MaxQuits
  /\ fin' = [fin EXCEPT ![c] = IF answer[c] THEN "rst" ELSE "fin"]
  /\ answer' = [answer EXCEPT ![c] = FALSE]
  /\ cpc' = [cpc EXCEPT ![c] = "gone"]
  /\ UNCHANGED <<serverVars, backupVars, uds, backlog, asked, history>>

Client(c) == Connect(c) \/ Ask(c) \/ Read(c) \/ CutOff(c) \/ Quit(c)

-----------------------------------------------------------------------------
Next ==
  \/ BindFails
  \/ ServerMain
  \/ BackupMain
  \/ \E c \in Clients : Service(c) \/ Client(c)
  \/ \E k \in DOMAIN threads : BackupService(k)

Spec == Init /\ [][Next]_vars

\* The processes that are scheduled.  Nobody has to type, connect or be killed.
MaxThreads == Cardinality(Clients) + 1

Fairness ==
  /\ WF_vars(ServerMain) /\ WF_vars(BackupMain)
  /\ \A c \in Clients : WF_vars(Service(c)) /\ WF_vars(Read(c))
  /\ \A k \in 1 .. MaxThreads : WF_vars(k \in DOMAIN threads /\ BackupService(k))

FairSpec == Spec /\ Fairness

-----------------------------------------------------------------------------
(* Properties *)

ServiceStates == {"none", "recv", "load", "store", "send", "done"}
ThreadStates  == {"new", "loop", "recv", "send", "close", "done"}

ServerTypes ==
  /\ spc \in {"bind", "accept", "pass", "create", "check", "kill", "return", "gone"}
  /\ cur \in Clients \union {NoClient}
  /\ thr \in [Clients -> ServiceStates]
  /\ got \in [Clients -> {"nothing", "request"}]
  /\ tmp \in [Clients -> 0 .. Limit + 1] /\ cnt \in 0 .. Limit + 1

BackupTypes ==
  /\ bpc \in {"test", "read", "accept", "create", "dead"}
  /\ flag \in BOOLEAN
  /\ nsfd \in Seq(Fds \union {Listener, NoFd}) /\ eofs \in {0, 1}
  /\ top \in Fds \union {NoFd}
  /\ files \in [Fds -> Clients \union {NoClient}]
  /\ threads \in Seq([pc : ThreadStates, fd : Fds \union {NoFd},
                      file : Clients \union {NoClient}, got : {"nothing", "request"}])

KernelTypes ==
  /\ uds \in Seq(Clients \union {Listener}) /\ backlog \in Seq(Clients)
  /\ asked \in [Clients -> BOOLEAN] /\ answer \in [Clients -> BOOLEAN]
  /\ fin \in [Clients -> {"no", "fin", "rst", "reset"}]

ClientTypes ==
  /\ cpc \in [Clients -> {"away", "typing", "waiting", "gone", "cut off"}]
  /\ dropped \subseteq Clients
  /\ miscounted \in BOOLEAN /\ raced \in BOOLEAN /\ astray \in BOOLEAN
  /\ received \in 0 .. Limit + 1

TypeOK ==
  /\ ServerTypes /\ BackupTypes /\ KernelTypes /\ ClientTypes
  /\ Len(threads) <= MaxThreads

\* A thread has received the request and has not answered it yet.
InHand(c) ==
  \/ thr[c] \in {"load", "store", "send"} /\ got[c] = "request"
  \/ \E k \in DOMAIN threads : /\ threads[k].pc = "send" /\ threads[k].got = "request"
                               /\ threads[k].file = c

\* A client that waits for a reply has its request in the socket or in the hands
\* of a thread, whichever of the two processes took it, unless that process has
\* ended with it or the reply went to another client.
RequestAccountedFor ==
  \A c \in Clients :
    cpc[c] = "waiting" /\ ~answer[c] => asked[c] \/ InHand(c) \/ c \in dropped \/ astray

\* Two threads of the backup have been given the same descriptor: by the shared
\* slot of the accept loop, or by a descriptor read from the end of the stream.
SharedFd == raced \/ (eofs = 1 /\ nsfd[Len(nsfd)] \in Fds)

\* A reply reaches the client that asked, unless a descriptor had two threads, one
\* of which closed it so that its number went to another connection.
AstrayOnlyIfShared == astray => SharedFd

\* A connection is closed under a client only when a process died of SIGPIPE or
\* was woken too soon, the server could not start, or two threads shared a descriptor.
CutOffOnlyIfShared ==
  \A c \in Clients :
    cpc[c] = "cut off" => SharedFd \/ bpc = "dead" \/ (spc = "gone" /\ ~flag)

\* A thread of the backup serves the connection, or will when it starts.
Served(c) ==
  \E k \in DOMAIN threads :
    \/ threads[k].pc \in {"loop", "send"} /\ threads[k].fd # NoFd
       /\ files[threads[k].fd] = c
    \/ threads[k].pc = "recv" /\ threads[k].file = c
    \/ threads[k].pc = "new" /\ files[top] = c

\* After the handover every connection is served by the backup, waits to be
\* accepted, or is one of those whose descriptor the backup had not read when it
\* was woken; these are open for ever and nobody serves them.
UnservedOnlyIfUnread ==
  \A c \in Clients :
    /\ Connected(c) /\ Held(c)
    /\ spc = "gone" /\ bpc = "accept"
    => \/ Served(c) \/ SharedFd
       \/ c \in Elements(backlog) \/ c \in Elements(uds)

\* Whatever goes wrong with a connection at the handover has one of these reasons.
HandoverExplained ==
  TypeOK /\ AstrayOnlyIfShared /\ CutOffOnlyIfShared /\ UnservedOnlyIfUnread

\* The server's threads that are at cnt++.
Counting == {c \in Clients : thr[c] \in {"load", "store"}}

\* As long as the server runs, cnt is the number of requests received, except for those
\* being counted, unless two threads of the server have run cnt++ at the same time.
CountsEveryRequest ==
  spc = "gone" \/ miscounted
  \/ received = AtMost(cnt + Cardinality(Counting), Limit + 1)

\* A server that has signalled the backup is followed by it: the backup leaves its
\* read loop and accepts, unless the signal came before its first read_fd().
TakesOver == (spc = "return") ~> (bpc \in {"accept", "create", "dead"})

\* The reasons for which a request is never answered.
Forgotten(c) ==
  \/ c \in dropped \/ SharedFd
  \/ bpc = "accept" /\ c \in Elements(uds)
  \/ spc = "gone" /\ ~flag
  \/ bpc = "dead"

\* A request is answered, before, during and after the handover, or was forgotten
\* for one of the reasons above.
EveryRequestIsAnswered ==
  \A c \in Clients : (cpc[c] = "waiting") ~> (cpc[c] # "waiting" \/ Forgotten(c))

\* The service goes on: the handover happens, and no request is forgotten by it.
ServiceGoesOn == TakesOver /\ EveryRequestIsAnswered
=============================================================================
