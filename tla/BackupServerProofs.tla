------------------------- MODULE BackupServerProofs -------------------------
(***************************************************************************)
(* Proofs about BackupServer, for any number of clients and any Limit.     *)
(* They follow each connection from the backlog through the UNIX socket to *)
(* a descriptor of the backup, and each descriptor to its thread.          *)
(***************************************************************************)
EXTENDS BackupServer, FiniteSetTheorems, SequenceTheorems, TLAPS

\* The server ended before it signalled the backup: it never will be replaced.
NeverReplaced == spc = "gone" /\ ~flag

\* Where the processes are when the server starts, hands over and has handed over.
PhaseInv ==
  /\ spc = "bind" => /\ nsfd = <<>> /\ uds = <<>> /\ backlog = <<>> /\ ~flag
                     /\ \A c \in Clients : cpc[c] \in {"away", "gone"}
  /\ flag => spc \in {"return", "gone"}
  /\ bpc \in {"test", "read"} => threads = <<>>
  /\ bpc \in {"accept", "create"} => flag /\ nsfd # <<>>
  /\ bpc = "dead" => /\ flag /\ uds = <<>> /\ threads = <<>>
                     /\ \A f \in Fds : files[f] = NoClient
  /\ eofs = 1 => /\ spc = "gone" /\ uds = <<>>
                  /\ nsfd # <<>> /\ nsfd[Len(nsfd)] \in Fds \union {NoFd}

\* The listening socket is the first thing passed and the first thing read.
ListenerInv ==
  /\ \A j \in DOMAIN uds : uds[j] = Listener <=> j = 1 /\ nsfd = <<>>
  /\ nsfd # <<>> => nsfd[1] = Listener \/ NeverReplaced
  /\ nsfd = <<>> /\ uds = <<>> => spc = "bind" \/ NeverReplaced \/ bpc = "dead"

\* A connection is accepted once, and only its own threads serve a client.
AcceptInv ==
  /\ \A j \in DOMAIN backlog : cpc[backlog[j]] # "away" /\ thr[backlog[j]] = "none"
  /\ \A j, k \in DOMAIN backlog : backlog[j] = backlog[k] => j = k
  /\ spc \in {"pass", "create"} =>
       /\ cur \in Clients /\ cpc[cur] # "away" /\ thr[cur] = "none"
       /\ \A j \in DOMAIN backlog : backlog[j] # cur
  /\ \A c \in Clients : cpc[c] = "away" => thr[c] = "none"
  /\ \A c \in Clients : cpc[c] \in {"away", "typing", "waiting"} => fin[c] = "no"

\* Every thread of the backup that has received something knows from whom, and by which
\* descriptor.
FileInv ==
  \A k \in DOMAIN threads :
    /\ threads[k].pc \in {"recv", "send"} => threads[k].file \in Clients
    /\ threads[k].pc \in {"recv", "send", "close"} => threads[k].fd \in Fds

\* There are no more connections under way and open than clients that have connected,
\* and no more descriptors read than clients, Listener and the end of the stream.
Used    == {f \in Fds : files[f] # NoClient}
Came    == {c \in Clients : cpc[c] # "away"}
InHands == IF spc = "pass" THEN 1 ELSE 0
Passed  == IF nsfd = <<>> /\ uds # <<>> THEN Len(uds) - 1 ELSE Len(uds)
Begun   == IF bpc = "create" THEN 1 ELSE 0

RoomInv ==
  /\ Cardinality(Used) + Passed + InHands + Len(backlog) <= Cardinality(Came)
  /\ bpc \in {"test", "read"} =>
       Len(nsfd) + Len(uds) + InHands + Len(backlog) <= Cardinality(Came) + 1 + eofs
  /\ bpc \in {"accept", "create"} =>
       Len(threads) + Begun + Len(uds) + Len(backlog) <= Cardinality(Came) + eofs

\* The connection of a client is at one of these places, or may have been cut off for a
\* reason.
Excused == SharedFd \/ bpc = "dead" \/ NeverReplaced

PlaceInv ==
  \A c \in Clients :
    Connected(c) =>
      \/ Excused
      \/ c \in Elements(backlog) \/ c \in Elements(uds)
      \/ spc = "pass" /\ cur = c
      \/ \E f \in Fds : files[f] = c

\* Before the takeover, nsfd[1], nsfd[2], ... are the descriptors in use.
Read0 == 2 .. Len(nsfd) - eofs
ReadInv ==
  bpc \in {"test", "read"} =>
    /\ \A j \in Read0 : nsfd[j] \in Fds /\ files[nsfd[j]] # NoClient
    /\ \A j, k \in Read0 : nsfd[j] = nsfd[k] => j = k
    /\ \A f \in Fds : files[f] # NoClient => \E j \in Read0 : nsfd[j] = f

\* After it, each descriptor in use has its thread, unless two threads were given one.
Runs(k)  == threads[k].pc \in {"loop", "recv", "send", "close"}
Fresh(k) == threads[k].pc = "new"
Topped   == bpc = "create" \/ \E k \in DOMAIN threads : Fresh(k)

\* What a thread works on is what its descriptor stands for, to the end.
FdIsOpen ==
  \A k \in DOMAIN threads :
    /\ Runs(k) /\ threads[k].fd # NoFd => files[threads[k].fd] # NoClient
    /\ threads[k].pc \in {"recv", "send"} => files[threads[k].fd] = threads[k].file
    /\ threads[k].pc = "close" => fin[files[threads[k].fd]] # "no"

OnePerFd ==
  \A j, k \in DOMAIN threads :
    Runs(j) /\ Runs(k) /\ threads[j].fd = threads[k].fd /\ threads[j].fd # NoFd => j = k

EveryFdRuns ==
  \A f \in Fds : files[f] # NoClient =>
    \/ \E k \in DOMAIN threads : Runs(k) /\ threads[k].fd = f
    \/ Topped /\ f = top

TopIsFresh ==
  /\ \A j, k \in DOMAIN threads : Fresh(j) /\ Fresh(k) => j = k
  /\ bpc = "create" => \A k \in DOMAIN threads : ~Fresh(k)
  /\ Topped => /\ top \in Fds /\ files[top] # NoClient
               /\ \A k \in DOMAIN threads : Runs(k) => threads[k].fd # top

OwnInv ==
  bpc \in {"accept", "create"} /\ ~SharedFd
    => FdIsOpen /\ OnePerFd /\ EveryFdRuns /\ TopIsFresh

IInv ==
  /\ TypeOK /\ PhaseInv /\ ListenerInv /\ AcceptInv /\ FileInv /\ RoomInv /\ PlaceInv
  /\ ReadInv /\ OwnInv /\ AstrayOnlyIfShared /\ CutOffOnlyIfShared

-----------------------------------------------------------------------------
(* Sequences, numbers and descriptors *)

LEMMA Appended ==
  ASSUME NEW S, NEW q \in Seq(S), NEW x \in S
  PROVE  /\ Append(q, x) \in Seq(S)
         /\ Len(Append(q, x)) = Len(q) + 1
         /\ DOMAIN Append(q, x) = 1 .. Len(q) + 1
         /\ \A j \in 1 .. Len(q) : Append(q, x)[j] = q[j]
         /\ Append(q, x)[Len(q) + 1] = x
BY AppendProperties, LenProperties

LEMMA Beheaded ==
  ASSUME NEW S, NEW q \in Seq(S), q # <<>>
  PROVE  /\ Head(q) \in S /\ Head(q) = q[1] /\ 1 \in DOMAIN q
         /\ Tail(q) \in Seq(S)
         /\ Len(Tail(q)) = Len(q) - 1
         /\ DOMAIN Tail(q) = 1 .. Len(q) - 1
         /\ \A j \in 1 .. Len(q) - 1 : Tail(q)[j] = q[j + 1]
BY HeadTailProperties, LenProperties, EmptySeq

LEMMA EmptyIsZero ==
  ASSUME NEW S, NEW q \in Seq(S)
  PROVE  /\ Len(q) \in Nat /\ DOMAIN q = 1 .. Len(q)
         /\ q = <<>> <=> Len(q) = 0
BY LenProperties, EmptySeq

LEMMA Saturates ==
  ASSUME NEW n \in Nat, NEW m \in Nat
  PROVE  /\ AtMost(n, m) \in 0 .. m
         /\ n <= m => AtMost(n, m) = n
         /\ n >= m => AtMost(n, m) = m
BY DEF AtMost

\* A nonempty set of numbers has a least element: the numbers below all of F are as many
\* as that element.
LEMMA Least ==
  ASSUME NEW F \in SUBSET Nat, F # {}
  PROVE  \E f \in F : \A g \in F : f <= g
<1>1. PICK e : e \in F  OBVIOUS
<1> DEFINE D == {m \in 0 .. e : \A k \in 0 .. m : k \notin F}
<1>2. IsFiniteSet(D) /\ Cardinality(D) \in Nat
  <2>1. IsFiniteSet(0 .. e)
    BY <1>1, FS_Interval
  <2>2. D \in SUBSET (0 .. e)  OBVIOUS
  <2> QED  BY <2>1, <2>2, FS_Subset, FS_CardinalityType
<1>3. ASSUME NEW m \in D PROVE m + 1 <= Cardinality(D)
  <2>0. m \in 0 .. e /\ \A k \in 0 .. m : k \notin F
    BY <1>3
  <2>1. ASSUME NEW x \in 0 .. m PROVE x \in D
    BY <2>0, <1>1
  <2>2. Cardinality(0 .. m) = m + 1
    BY FS_Interval
  <2>3. (0 .. m) \in SUBSET D
    BY <2>1
  <2> QED  BY <2>3, <2>2, <1>2, FS_Subset
<1>4. ASSUME NEW m \in 0 .. e, m \notin D PROVE Cardinality(D) <= m
  <2>1. D \in SUBSET (0 .. m - 1)
    <3>1. ASSUME NEW x \in D, x >= m PROVE FALSE
      BY <3>1, <1>4
    <3> QED  BY <3>1
  <2>2. m \in Nat /\ m - 1 \in Int
    BY <1>1
  <2>3. IsFiniteSet(0 .. m - 1)
    BY <2>2, FS_Interval
  <2>4. Cardinality(0 .. m - 1) = m
    <3>1. Cardinality(0 .. m - 1) = IF 0 > m - 1 THEN 0 ELSE (m - 1) - 0 + 1
      BY <2>2, FS_Interval
    <3> QED  BY <3>1, <2>2
  <2> QED  BY <2>1, <2>3, <2>4, FS_Subset
<1>5. PICK d \in Nat : d = Cardinality(D)
  BY <1>2
<1>6. d <= e
  BY <1>4, <1>5, <1>1
<1>7. d \notin D
  BY <1>3, <1>5
<1>8. \A k \in 0 .. d - 1 : k \notin F
  <2>1. CASE d = 0
    BY <2>1
  <2>2. CASE d # 0
    <3>1. d - 1 \in 0 .. e
      BY <2>2, <1>6, <1>1
    <3>2. d - 1 \in D
      BY <3>1, <1>4, <1>5
    <3> QED  BY <3>2
  <2> QED  BY <2>1, <2>2
<1>9. d \in F
  <2>1. PICK k \in 0 .. d : k \in F
    BY <1>6, <1>7, <1>1
  <2> QED  BY <2>1, <1>8
<1> HIDE DEF D
<1> QED  BY <1>8, <1>9

LEMMA Numbers ==
  /\ Cardinality(Clients) \in Nat
  /\ Fds \in SUBSET Nat /\ IsFiniteSet(Fds) /\ Cardinality(Fds) = Cardinality(Clients)
  /\ NoFd \notin Fds /\ NoClient \notin Clients /\ Listener \notin Clients
<1>1. Cardinality(Clients) \in Nat
  BY BackupAssumption, FS_CardinalityType
<1>2. IsFiniteSet(Fds) /\ Cardinality(Fds) = Cardinality(Clients)
  BY <1>1, FS_Interval DEF Fds
<1> QED  BY <1>1, <1>2, BackupAssumption, FdAssumption DEF Fds

\* As long as fewer descriptors are open than there are clients, the kernel has one.
LEMMA FreeFd ==
  ASSUME Cardinality(Used) < Cardinality(Clients)
  PROVE  LowestFree \in Fds /\ files[LowestFree] = NoClient
<1> DEFINE F == {f \in Fds : files[f] = NoClient}
<1>1. F # {}
  <2>1. ASSUME F = {} PROVE FALSE
    <3>1. Used = Fds
      BY <2>1 DEF Used
    <3> QED  BY <3>1, Numbers
  <2> QED  BY <2>1
<1>2. F \in SUBSET Nat
  BY Numbers
<1>3. PICK f \in F : \A g \in F : f <= g
  BY <1>1, <1>2, Least
<1>4. \A g \in Fds : g < f => files[g] # NoClient
  BY <1>2, <1>3
<1>5. \E h \in Fds : /\ files[h] = NoClient
                     /\ \A g \in Fds : g < h => files[g] # NoClient
  BY <1>3, <1>4
<1> QED  BY <1>5 DEF LowestFree

LEMMA Sets ==
  /\ IsFiniteSet(Used) /\ Cardinality(Used) \in Nat
  /\ IsFiniteSet(Came) /\ Cardinality(Came) \in Nat
  /\ Cardinality(Came) <= Cardinality(Clients)
<1>1. Used \in SUBSET Fds /\ Came \in SUBSET Clients
  BY DEF Used, Came
<1> QED  BY <1>1, Numbers, BackupAssumption, FS_Subset, FS_CardinalityType

\* There is room for what the backup is about to read or to accept.
LEMMA RoomToRead ==
  ASSUME TypeOK, RoomInv, ListenerInv, PhaseInv, uds # <<>>, Head(uds) # Listener
  PROVE  LowestFree \in Fds /\ files[LowestFree] = NoClient /\ nsfd # <<>>
<1>1. uds[1] # Listener /\ 1 \in DOMAIN uds /\ Len(uds) \in Nat \ {0}
  BY Beheaded, EmptyIsZero DEF TypeOK, KernelTypes
<1>2. nsfd # <<>>
  BY <1>1 DEF ListenerInv
<1>3. Passed = Len(uds)
  BY <1>2 DEF Passed
<1>4. Len(backlog) \in Nat /\ InHands \in Nat
  BY EmptyIsZero DEF TypeOK, KernelTypes, InHands
<1>5. Cardinality(Used) < Cardinality(Clients)
  BY <1>1, <1>3, <1>4, Sets, Numbers DEF RoomInv
<1> QED  BY <1>2, <1>5, FreeFd

LEMMA RoomToAccept ==
  ASSUME TypeOK, RoomInv, backlog # <<>>
  PROVE  LowestFree \in Fds /\ files[LowestFree] = NoClient
<1>1. Len(backlog) \in Nat \ {0} /\ InHands \in Nat
  BY EmptyIsZero DEF TypeOK, KernelTypes, InHands
<1>2. Passed \in Nat
  BY EmptyIsZero DEF TypeOK, KernelTypes, Passed
<1>3. Cardinality(Used) < Cardinality(Clients)
  BY <1>1, <1>2, Sets, Numbers DEF RoomInv
<1> QED  BY <1>3, FreeFd

-----------------------------------------------------------------------------
(* Types, the number of threads left aside *)

\* What the processes leave alone.
LEMMA Frames ==
  /\ BackupMain \/ (\E k \in DOMAIN threads : BackupService(k))
     \/ (\E c \in Clients : Client(c)) => UNCHANGED serverVars
  /\ BindFails \/ ServerMain \/ (\E c \in Clients : Service(c) \/ Client(c))
       => UNCHANGED <<bpc, nsfd, eofs, top, files, threads>>
  /\ BindFails \/ ServerMain \/ (\E c \in Clients : Service(c)) \/ BackupMain
     \/ (\E k \in DOMAIN threads : BackupService(k)) => UNCHANGED cpc
<1>1. BackupMain => UNCHANGED <<serverVars, cpc>>
  BY DEF BackupMain, Test, ReadFd, ReadEnd, TakeOver, TakeOverTooSoon, BackupAccept,
         BackupCreate
<1>2. ASSUME NEW k \in DOMAIN threads, BackupService(k) PROVE UNCHANGED <<serverVars, cpc>>
  BY <1>2 DEF BackupService, Begin, Enter, BackupRecv, BackupRecvEnd, Close, BackupSend
<1>3. ASSUME NEW c \in Clients, Client(c)
      PROVE  UNCHANGED serverVars /\ UNCHANGED <<bpc, nsfd, eofs, top, files, threads>>
  BY <1>3 DEF Client, Connect, Ask, Read, CutOff, Quit, backupVars
<1>4. BindFails \/ ServerMain => UNCHANGED <<bpc, nsfd, eofs, top, files, threads, cpc>>
  BY DEF BindFails, ServerMain, Start, Accept, Pass, Create, Check, Kill, Return, backupVars
<1>5. ASSUME NEW c \in Clients, Service(c)
      PROVE  UNCHANGED <<bpc, nsfd, eofs, top, files, threads, cpc>>
  BY <1>5 DEF Service, Recv, RecvEnd, Load, Store, Send, backupVars
<1> QED  BY <1>1, <1>2, <1>3, <1>4, <1>5

LEMMA ServerTypesStep ==
  ASSUME TypeOK, [Next]_vars
  PROVE  ServerTypes'
<1> USE DEF TypeOK, ServerTypes, ServiceStates
<1>1. ASSUME BindFails PROVE ServerTypes'
  BY <1>1 DEF BindFails
<1>2. ASSUME Start PROVE ServerTypes'
  BY <1>2 DEF Start
<1>3. ASSUME Accept PROVE ServerTypes'
  <2>1. Head(backlog) \in Clients
    BY <1>3, Beheaded DEF Accept, KernelTypes
  <2> QED  BY <1>3, <2>1 DEF Accept
<1>4. ASSUME Pass PROVE ServerTypes'
  BY <1>4 DEF Pass
<1>5. ASSUME Create PROVE ServerTypes'
  BY <1>5 DEF Create
<1>6. ASSUME Check PROVE ServerTypes'
  BY <1>6 DEF Check
<1>7. ASSUME Kill PROVE ServerTypes'
  BY <1>7 DEF Kill
<1>8. ASSUME Return PROVE ServerTypes'
  BY <1>8 DEF Return, ServerEnds
<1>9. ASSUME NEW c \in Clients, Recv(c) PROVE ServerTypes'
  BY <1>9 DEF Recv
<1>10. ASSUME NEW c \in Clients, RecvEnd(c) PROVE ServerTypes'
  BY <1>10 DEF RecvEnd
<1>11. ASSUME NEW c \in Clients, Load(c) PROVE ServerTypes'
  BY <1>11 DEF Load
<1>12. ASSUME NEW c \in Clients, Store(c) PROVE ServerTypes'
  BY <1>12, BackupAssumption DEF Store, Counted, AtMost
<1>13. ASSUME NEW c \in Clients, Send(c) PROVE ServerTypes'
  BY <1>13 DEF Send, ServerEnds
<1>14. ASSUME UNCHANGED serverVars PROVE ServerTypes'
  BY <1>14 DEF serverVars
<1> QED  BY <1>1, <1>2, <1>3, <1>4, <1>5, <1>6, <1>7, <1>8, <1>9, <1>10, <1>11, <1>12,
            <1>13, <1>14, Frames DEF Next, ServerMain, Service, vars

\* The record of a thread.
ThreadRecord == [pc : ThreadStates, fd : Fds \union {NoFd},
                 file : Clients \union {NoClient}, got : {"nothing", "request"}]

LEMMA ThreadIsOne ==
  ASSUME NEW p \in ThreadStates, NEW f \in Fds \union {NoFd}
  PROVE  /\ Thread(p, f) \in ThreadRecord
         /\ Thread(p, f).pc = p /\ Thread(p, f).fd = f
         /\ Thread(p, f).file = NoClient /\ Thread(p, f).got = "nothing"
BY DEF Thread, ThreadRecord

\* How an action of thread k changes threads.
LEMMA OneThread ==
  ASSUME TypeOK, NEW k \in DOMAIN threads, NEW r \in ThreadRecord,
         threads' = [threads EXCEPT ![k] = r]
  PROVE  /\ threads' \in Seq(ThreadRecord)
         /\ DOMAIN threads' = DOMAIN threads /\ Len(threads') = Len(threads)
         /\ threads'[k] = r
         /\ \A j \in DOMAIN threads : j # k => threads'[j] = threads[j]
<1>1. threads \in Seq(ThreadRecord)
  BY DEF TypeOK, BackupTypes, ThreadRecord
<1> QED  BY <1>1, ExceptSeq, LenProperties

LEMMA ThreadTypes ==
  ASSUME TypeOK
  PROVE  /\ threads \in Seq(ThreadRecord) /\ DOMAIN threads = 1 .. Len(threads)
         /\ Len(threads) \in Nat
         /\ \A k \in DOMAIN threads :
              /\ threads[k] \in ThreadRecord
              /\ threads[k].pc \in ThreadStates
              /\ threads[k].fd \in Fds \union {NoFd}
              /\ threads[k].file \in Clients \union {NoClient}
              /\ threads[k].got \in {"nothing", "request"}
<1>1. threads \in Seq(ThreadRecord)
  BY DEF TypeOK, BackupTypes, ThreadRecord
<1>2. \A k \in DOMAIN threads : threads[k] \in ThreadRecord
  BY <1>1, ElementOfSeq, LenProperties
<1> QED  BY <1>1, <1>2, LenProperties DEF ThreadRecord

\* Thread k goes to p, with descriptor f; the others stay where they are.
Goes(k, p, f) ==
  /\ threads' \in Seq(ThreadRecord)
  /\ DOMAIN threads' = DOMAIN threads /\ Len(threads') = Len(threads)
  /\ threads'[k].pc = p /\ threads'[k].fd = f
  /\ \A j \in DOMAIN threads : j # k => threads'[j] = threads[j]

LEMMA ThreadActs ==
  ASSUME TypeOK, NEW k \in DOMAIN threads
  PROVE  /\ Begin(k) => Goes(k, "loop", top) /\ threads[k].pc = "new"
         /\ Enter(k) => /\ Goes(k, "recv", threads[k].fd) /\ threads[k].pc = "loop"
                        /\ threads'[k].file = files[threads[k].fd]
         /\ BackupRecv(k) => /\ Goes(k, "send", threads[k].fd) /\ threads[k].pc = "recv"
                             /\ threads'[k].file = threads[k].file
         /\ BackupRecvEnd(k) => Goes(k, "close", threads[k].fd) /\ threads[k].pc = "recv"
         /\ Close(k) => Goes(k, "done", threads[k].fd) /\ threads[k].pc = "close"
         /\ Again(k) => Goes(k, "loop", threads[k].fd) /\ threads[k].pc = "send"
<1>1. /\ threads[k] \in ThreadRecord
      /\ threads[k].fd \in Fds \union {NoFd}
      /\ threads[k].file \in Clients \union {NoClient}
      /\ threads[k].got \in {"nothing", "request"}
  BY ThreadTypes
<1>2. ASSUME NEW p \in ThreadStates, NEW f \in Fds \union {NoFd},
             NEW c \in Clients \union {NoClient}, NEW g \in {"nothing", "request"},
             threads' = [threads EXCEPT ![k] = [pc |-> p, fd |-> f, file |-> c, got |-> g]]
      PROVE  Goes(k, p, f) /\ threads'[k].file = c
  <2>1. [pc |-> p, fd |-> f, file |-> c, got |-> g] \in ThreadRecord
    BY DEF ThreadRecord
  <2> QED  BY <1>2, <2>1, OneThread DEF Goes
<1>3. ASSUME Begin(k) PROVE Goes(k, "loop", top) /\ threads[k].pc = "new"
  <2>1. threads' = [threads EXCEPT ![k] = [[@ EXCEPT !.pc = "loop"] EXCEPT !.fd = top]]
    BY <1>3 DEF Begin
  <2>2. [[threads[k] EXCEPT !.pc = "loop"] EXCEPT !.fd = top]
           = [pc |-> "loop", fd |-> top, file |-> threads[k].file, got |-> threads[k].got]
    <3> DEFINE r == [threads[k] EXCEPT !.pc = "loop"]
    <3>1. r = [pc |-> "loop", fd |-> threads[k].fd, file |-> threads[k].file,
               got |-> threads[k].got]
      BY <1>1 DEF ThreadRecord
    <3> HIDE DEF r
    <3>2. [r EXCEPT !.fd = top]
            = [pc |-> "loop", fd |-> top, file |-> threads[k].file, got |-> threads[k].got]
      BY <3>1
    <3> QED  BY <3>2 DEF r
  <2>3. top \in Fds \union {NoFd} /\ "loop" \in ThreadStates
    BY DEF TypeOK, BackupTypes, ThreadStates
  <2>4. threads[k].pc = "new"
    BY <1>3 DEF Begin
  <2> QED  BY <1>1, <1>2, <2>1, <2>2, <2>3, <2>4
<1>4. ASSUME Enter(k)
      PROVE  /\ Goes(k, "recv", threads[k].fd) /\ threads[k].pc = "loop"
             /\ threads'[k].file = files[threads[k].fd]
  <2> DEFINE c == files[threads[k].fd]
  <2>1. threads' = [threads EXCEPT ![k] = [[@ EXCEPT !.pc = "recv"] EXCEPT !.file = c]]
    BY <1>4 DEF Enter
  <2>2. [[threads[k] EXCEPT !.pc = "recv"] EXCEPT !.file = c]
           = [pc |-> "recv", fd |-> threads[k].fd, file |-> c, got |-> threads[k].got]
    <3> DEFINE r == [threads[k] EXCEPT !.pc = "recv"]
    <3>1. r = [pc |-> "recv", fd |-> threads[k].fd, file |-> threads[k].file,
               got |-> threads[k].got]
      BY <1>1 DEF ThreadRecord
    <3> HIDE DEF r
    <3>2. [r EXCEPT !.file = c]
            = [pc |-> "recv", fd |-> threads[k].fd, file |-> c, got |-> threads[k].got]
      BY <3>1
    <3> QED  BY <3>2 DEF r
  <2>3. c \in Clients \union {NoClient} /\ "recv" \in ThreadStates
    BY <1>1, <1>4 DEF Enter, TypeOK, BackupTypes, ThreadStates
  <2>4. threads[k].pc = "loop"
    BY <1>4 DEF Enter
  <2> HIDE DEF c
  <2>5. Goes(k, "recv", threads[k].fd) /\ threads'[k].file = c
    BY <1>1, <1>2, <2>1, <2>2, <2>3
  <2> QED  BY <2>4, <2>5 DEF c
<1>5. ASSUME BackupRecv(k)
      PROVE  /\ Goes(k, "send", threads[k].fd) /\ threads[k].pc = "recv"
             /\ threads'[k].file = threads[k].file
  <2>1. PICK g \in {"nothing", "request"} :
          threads' = [threads EXCEPT ![k] = [pc |-> "send", fd |-> threads[k].fd,
                        file |-> threads[k].file, got |-> g]]
    BY <1>1, <1>5 DEF BackupRecv, ThreadRecord
  <2>2. "send" \in ThreadStates
    BY DEF ThreadStates
  <2> QED  BY <1>1, <1>2, <1>5, <2>1, <2>2 DEF BackupRecv
<1>6. ASSUME NEW p \in ThreadStates, NEW q \in ThreadStates, Moves(k, p, q)
      PROVE  Goes(k, q, threads[k].fd) /\ threads[k].pc = p
  <2>1. threads' = [threads EXCEPT ![k] = [pc |-> q, fd |-> threads[k].fd,
                      file |-> NoClient, got |-> "nothing"]]
    BY <1>6 DEF Moves, Thread
  <2> QED  BY <1>1, <1>2, <1>6, <2>1 DEF Moves
<1>7. {"recv", "send", "loop", "close", "done"} \in SUBSET ThreadStates
  BY DEF ThreadStates
<1> QED  BY <1>3, <1>4, <1>5, <1>6, <1>7 DEF BackupRecvEnd, Close, Again

\* When the backup takes over, its threads are those of nsfd[1], nsfd[2], ...
LEMMA TakenOver ==
  ASSUME TypeOK, PhaseInv, ListenerInv, ReadInv, TakeOver
  PROVE  /\ threads' \in Seq(ThreadRecord) /\ Len(nsfd) \in Nat \ {0}
         /\ DOMAIN threads' = 1 .. Len(nsfd) - 1 /\ Len(threads') = Len(nsfd) - 1
         /\ \A j \in 1 .. Len(nsfd) - 1 :
              /\ nsfd[j + 1] \in Fds \union {NoFd}
              /\ threads'[j].pc = "loop" /\ threads'[j].fd = nsfd[j + 1]
              /\ threads'[j].file = NoClient
<1>1. /\ nsfd \in Seq(Fds \union {Listener, NoFd}) /\ nsfd # <<>> /\ Len(nsfd) \in Nat \ {0}
      /\ eofs \in {0, 1} /\ DOMAIN nsfd = 1 .. Len(nsfd)
  BY EmptyIsZero DEF TakeOver, TypeOK, BackupTypes
<1>2. ASSUME NEW j \in 1 .. Len(nsfd) - 1 PROVE nsfd[j + 1] \in Fds \union {NoFd}
  <2>1. CASE j + 1 \in Read0
    BY <2>1 DEF ReadInv, TakeOver
  <2>2. CASE j + 1 \notin Read0
    <3>1. PICK n \in Nat, e \in {0, 1} : n = Len(nsfd) /\ e = eofs
      BY <1>1
    <3>2. j + 1 \notin 2 .. n - e
      BY <2>2, <3>1 DEF Read0
    <3>3. e = 1 /\ j + 1 = n
      BY <3>1, <3>2
    <3> QED  BY <3>1, <3>3 DEF PhaseInv
  <2> QED  BY <2>1, <2>2
<1>3. threads' = [j \in 1 .. Len(nsfd) - 1 |-> Thread("loop", nsfd[j + 1])]
  BY DEF TakeOver, SlotOf
<1>4. ASSUME NEW j \in 1 .. Len(nsfd) - 1
      PROVE  /\ Thread("loop", nsfd[j + 1]) \in ThreadRecord
             /\ threads'[j].pc = "loop" /\ threads'[j].fd = nsfd[j + 1]
             /\ threads'[j].file = NoClient
  BY <1>2, <1>3, ThreadIsOne DEF ThreadStates
<1>5. threads' \in Seq(ThreadRecord) /\ Len(threads') = Len(nsfd) - 1
  BY <1>1, <1>3, <1>4, IsASeq
<1>6. DOMAIN threads' = 1 .. Len(nsfd) - 1
  BY <1>3
<1> QED  BY <1>1, <1>2, <1>4, <1>5, <1>6

LEMMA BackupTypesStep ==
  ASSUME TypeOK, PhaseInv, ListenerInv, RoomInv, ReadInv, [Next]_vars
  PROVE  BackupTypes'
<1> USE DEF TypeOK, BackupTypes
<1>0. threads \in Seq(ThreadRecord) /\ ThreadRecord = [pc : ThreadStates,
        fd : Fds \union {NoFd}, file : Clients \union {NoClient}, got : {"nothing", "request"}]
  BY DEF ThreadRecord
<1>1. ASSUME Test PROVE BackupTypes'
  BY <1>1 DEF Test
<1>2. ASSUME ReadFd PROVE BackupTypes'
  <2>1. CASE Head(uds) = Listener
    <3>1. <<Listener>> \in Seq(Fds \union {Listener, NoFd})
      OBVIOUS
    <3> QED  BY <1>2, <2>1, <3>1 DEF ReadFd
  <2>2. CASE Head(uds) # Listener
    <3>1. LowestFree \in Fds
      BY <1>2, <2>2, RoomToRead DEF ReadFd
    <3>2. Head(uds) \in Clients
      BY <1>2, <2>2, Beheaded DEF ReadFd, KernelTypes
    <3>3. Append(nsfd, LowestFree) \in Seq(Fds \union {Listener, NoFd})
      BY <3>1, Appended
    <3>4. [files EXCEPT ![LowestFree] = Head(uds)] \in [Fds -> Clients \union {NoClient}]
      BY <3>2
    <3> QED  BY <1>2, <2>2, <3>3, <3>4 DEF ReadFd
  <2> QED  BY <2>1, <2>2
<1>3. ASSUME ReadEnd PROVE BackupTypes'
  <2>1. \A f \in Fds \union {NoFd} : Append(nsfd, f) \in Seq(Fds \union {Listener, NoFd})
    BY Appended
  <2> QED  BY <1>3, <2>1 DEF ReadEnd
<1>4. ASSUME BackupEnds, UNCHANGED <<flag, nsfd, eofs, top>> PROVE BackupTypes'
  BY <1>4 DEF BackupEnds
<1>5. ASSUME TakeOver PROVE BackupTypes'
  BY <1>0, <1>5, TakenOver DEF TakeOver
<1>6. ASSUME BackupAccept PROVE BackupTypes'
  <2>1. LowestFree \in Fds
    BY <1>6, RoomToAccept DEF BackupAccept
  <2>2. Head(backlog) \in Clients
    BY <1>6, Beheaded DEF BackupAccept, KernelTypes
  <2>3. [files EXCEPT ![LowestFree] = Head(backlog)] \in [Fds -> Clients \union {NoClient}]
    BY <2>2
  <2> QED  BY <1>6, <2>1, <2>3 DEF BackupAccept
<1>7. ASSUME BackupCreate PROVE BackupTypes'
  <2>1. Append(threads, Thread("new", NoFd)) \in Seq(ThreadRecord)
    BY <1>0, ThreadIsOne, Appended DEF ThreadStates
  <2> QED  BY <1>0, <1>7, <2>1 DEF BackupCreate, NewThread
<1>8. ASSUME NEW k \in DOMAIN threads, BackupService(k) PROVE BackupTypes'
  <2>1. ASSUME threads' \in Seq(ThreadRecord), files' \in [Fds -> Clients \union {NoClient}],
               UNCHANGED <<bpc, flag, nsfd, eofs, top>>
        PROVE  BackupTypes'
    BY <1>0, <2>1
  <2>2. ASSUME Begin(k) \/ Enter(k) \/ BackupRecv(k) \/ BackupRecvEnd(k) PROVE BackupTypes'
    BY <2>1, <2>2, ThreadActs DEF Begin, Enter, BackupRecv, BackupRecvEnd, Goes
  <2>3. ASSUME Close(k) PROVE BackupTypes'
    <3>1. [files EXCEPT ![threads[k].fd] = NoClient] \in [Fds -> Clients \union {NoClient}]
      OBVIOUS
    <3> QED  BY <2>1, <2>3, <3>1, ThreadActs DEF Close, Goes
  <2>4. ASSUME BackupSend(k) PROVE BackupTypes'
    BY <1>4, <2>1, <2>4, ThreadActs DEF BackupSend, Goes
  <2> QED  BY <1>8, <2>2, <2>3, <2>4 DEF BackupService
<1>9. ASSUME Kill PROVE BackupTypes'
  BY <1>9 DEF Kill, Handle
<1>10. ASSUME UNCHANGED backupVars PROVE BackupTypes'
  BY <1>10 DEF backupVars
<1> QED  BY <1>1, <1>2, <1>3, <1>4, <1>5, <1>6, <1>7, <1>8, <1>9, <1>10
        DEF Next, ServerMain, BackupMain, Service, Client, vars, BindFails, Start, Accept,
            Pass, Create, Check, Return, Recv, RecvEnd, Load, Store, Send, Connect, Ask,
            Read, CutOff, Quit, TakeOverTooSoon

LEMMA KernelTypesStep ==
  ASSUME TypeOK, AcceptInv, [Next]_vars
  PROVE  KernelTypes'
<1> USE DEF TypeOK, KernelTypes
<1>0. uds # <<>> => Tail(uds) \in Seq(Clients \union {Listener})
  BY Beheaded
<1>1. backlog # <<>> => Tail(backlog) \in Seq(Clients)
  BY Beheaded
<1>2. <<>> \in Seq(Clients) /\ <<>> \in Seq(Clients \union {Listener})
  OBVIOUS
<1>3. ASSUME NEW c, NEW g, SendTo(c, g) PROVE /\ answer' \in [Clients -> BOOLEAN]
                                              /\ fin' \in [Clients -> {"no", "fin", "rst", "reset"}]
  <2>1. CASE fin[c] = "no"
    <3>1. fin' = fin
      BY <1>3, <2>1 DEF SendTo
    <3>2. answer' = [answer EXCEPT ![c] = @ \/ g = "request"]
      BY <1>3, <2>1 DEF SendTo
    <3>3. (answer[c] \/ g = "request") \in BOOLEAN
      OBVIOUS
    <3> QED  BY <3>1, <3>2, <3>3
  <2>2. CASE fin[c] # "no"
    BY <1>3, <2>2 DEF SendTo
  <2> QED  BY <2>1, <2>2
<1>4. ASSUME Start PROVE KernelTypes'
  BY <1>4 DEF Start
<1>5. ASSUME Accept PROVE KernelTypes'
  BY <1>1, <1>5 DEF Accept
<1>6. ASSUME Pass PROVE KernelTypes'
  <2>1. cur \in Clients
    BY <1>6 DEF Pass, AcceptInv
  <2>2. Append(uds, cur) \in Seq(Clients \union {Listener})
    BY <2>1, Appended
  <2> QED  BY <1>6, <2>2 DEF Pass, PassFd
<1>7. ASSUME ReadFd PROVE KernelTypes'
  BY <1>0, <1>7 DEF ReadFd
<1>8. ASSUME BackupEnds, UNCHANGED <<backlog, asked, answer, fin>> PROVE KernelTypes'
  BY <1>2, <1>8 DEF BackupEnds
<1>9. ASSUME BackupAccept PROVE KernelTypes'
  BY <1>1, <1>9 DEF BackupAccept
<1>10. ASSUME NEW c \in Clients, Recv(c) PROVE KernelTypes'
  BY <1>10 DEF Recv, RecvRequest, RecvError
<1>11. ASSUME NEW c \in Clients, Send(c) PROVE KernelTypes'
  BY <1>3, <1>11 DEF Send
<1>12. ASSUME NEW k \in DOMAIN threads, BackupRecv(k) PROVE KernelTypes'
  BY <1>12 DEF BackupRecv, RecvRequest, RecvError
<1>13. ASSUME NEW k \in DOMAIN threads, BackupSend(k) PROVE KernelTypes'
  BY <1>3, <1>8, <1>13 DEF BackupSend
<1>14. ASSUME NEW c \in Clients, Connect(c) PROVE KernelTypes'
  <2>1. Append(backlog, c) \in Seq(Clients)
    BY Appended
  <2> QED  BY <1>14, <2>1 DEF Connect
<1>15. ASSUME NEW c \in Clients, Ask(c) \/ Read(c) \/ Quit(c) PROVE KernelTypes'
  BY <1>15 DEF Ask, Read, Quit
<1>16. ASSUME NEW c \in Clients, CutOff(c) PROVE KernelTypes'
  BY <1>2, <1>16 DEF CutOff
<1>17. ASSUME UNCHANGED socketVars PROVE KernelTypes'
  BY <1>17 DEF socketVars
<1> QED
  BY <1>4, <1>5, <1>6, <1>7, <1>8, <1>9, <1>10, <1>11, <1>12, <1>13, <1>14, <1>15, <1>16,
     <1>17
  DEF Next, ServerMain, BackupMain, Service, BackupService, Client, vars, BindFails, Create,
      Check, Kill, Return, RecvEnd, Load, Store, Test, ReadEnd, TakeOver, TakeOverTooSoon,
      BackupCreate, Begin, Enter, BackupRecvEnd, Close

LEMMA ReceivedBounded ==
  ASSUME TypeOK
  PROVE  AtMost(received + 1, Limit + 1) \in 0 .. Limit + 1
<1>0. received \in 0 .. Limit + 1
  BY Zenon DEF TypeOK, ClientTypes
<1>1. PICK r \in Nat : r = received
  BY <1>0, BackupAssumption
<1>2. r + 1 \in Nat /\ Limit + 1 \in Nat
  BY BackupAssumption
<1> QED  BY <1>1, <1>2, Saturates

LEMMA ClientTypesStep ==
  ASSUME TypeOK, FileInv, [Next]_vars
  PROVE  ClientTypes'
<1> USE DEF TypeOK, ClientTypes
<1>1. ASSUME NEW c \in Clients, Client(c) PROVE ClientTypes'
  BY <1>1 DEF Client, Connect, Ask, Read, CutOff, Quit, history
<1>2. ASSUME ServerEnds, UNCHANGED <<cpc, miscounted, received, raced, astray>>
      PROVE  ClientTypes'
  BY <1>2 DEF ServerEnds
<1>3. ASSUME BackupEnds, UNCHANGED <<cpc, miscounted, received, raced>>, astray' \in BOOLEAN
      PROVE  ClientTypes'
  <2>1. \A k \in DOMAIN threads : threads[k].pc = "send" => threads[k].file \in Clients
    BY DEF FileInv
  <2>2. {threads[k].file : k \in {j \in DOMAIN threads : threads[j].pc = "send"
                                                         /\ threads[j].got = "request"}}
          \subseteq Clients
    BY <2>1
  <2>3. dropped' \subseteq Clients
    BY <1>3, <2>2 DEF BackupEnds
  <2> QED  BY <1>3, <2>3
<1>4. ASSUME NEW c \in Clients, Recv(c) PROVE ClientTypes'
  <2>1. received' = AtMost(received + 1, Limit + 1)
    BY <1>4 DEF Recv
  <2>2. received' \in 0 .. Limit + 1
    BY <2>1, ReceivedBounded
  <2>3. UNCHANGED <<cpc, dropped, miscounted, raced, astray>>
    BY <1>4 DEF Recv
  <2> QED  BY <2>2, <2>3
<1>5. ASSUME NEW c \in Clients, Store(c) PROVE ClientTypes'
  <2>1. (miscounted \/ tmp[c] # cnt) \in BOOLEAN
    OBVIOUS
  <2> QED  BY <1>5, <2>1 DEF Store
<1>6. ASSUME NEW c \in Clients, Send(c) PROVE ClientTypes'
  BY <1>2, <1>6 DEF Send
<1>7. ASSUME BackupAccept PROVE ClientTypes'
  <2>1. (raced \/ \E k \in DOMAIN threads : threads[k].pc = "new") \in BOOLEAN
    OBVIOUS
  <2> QED  BY <1>7, <2>1 DEF BackupAccept
<1>8. ASSUME NEW k \in DOMAIN threads, BackupSend(k) PROVE ClientTypes'
  <2>1. astray' \in BOOLEAN
    BY <1>8 DEF BackupSend
  <2> QED  BY <1>3, <1>8, <2>1 DEF BackupSend
<1>9. ASSUME UNCHANGED <<cpc, history>> PROVE ClientTypes'
  BY <1>9 DEF history
<1>10. ASSUME TakeOverTooSoon PROVE ClientTypes'
  BY <1>3, <1>10 DEF TakeOverTooSoon
<1>11. ASSUME Return PROVE ClientTypes'
  BY <1>2, <1>11 DEF Return
<1> QED
  BY <1>1, <1>4, <1>5, <1>6, <1>7, <1>8, <1>9, <1>10, <1>11
  DEF Next, ServerMain, BackupMain, Service, BackupService, vars, BindFails, Start, Accept,
      Pass, Create, Check, Kill, RecvEnd, Load, Test, ReadFd, ReadEnd, TakeOver,
      BackupCreate, Begin, Enter, BackupRecv, BackupRecvEnd, Close

-----------------------------------------------------------------------------
(* The phases of the processes, and the listening socket *)

\* No thread of the backup runs before it takes over or after it has died.
LEMMA ThreadsRunLate ==
  ASSUME TypeOK, PhaseInv, NEW k \in DOMAIN threads
  PROVE  bpc \in {"accept", "create"} /\ flag /\ nsfd # <<>> /\ threads # <<>>
<1>1. threads # <<>>
  BY EmptySeq, ThreadTypes
<1> QED  BY <1>1 DEF PhaseInv, TypeOK, BackupTypes

\* What a step of a thread of the backup may do to the rest.
LEMMA ThreadSteps ==
  ASSUME TypeOK, NEW k \in DOMAIN threads, BackupService(k)
  PROVE  /\ UNCHANGED <<serverVars, flag, nsfd, eofs, top, backlog, cpc, raced, miscounted,
                        received>>
         /\ \/ UNCHANGED <<bpc, uds, dropped>> /\ \E p \in ThreadStates : \E f : Goes(k, p, f)
            \/ BackupEnds
<1>1. ASSUME Begin(k) \/ Enter(k) \/ BackupRecv(k) \/ BackupRecvEnd(k) \/ Close(k)
      PROVE  /\ UNCHANGED <<serverVars, flag, nsfd, eofs, top, backlog, cpc, raced,
                            miscounted, received>>
             /\ UNCHANGED <<bpc, uds, dropped>> /\ \E p \in ThreadStates : \E f : Goes(k, p, f)
  <2>1. \E p \in ThreadStates : \E f : Goes(k, p, f)
    BY <1>1, ThreadActs DEF ThreadStates
  <2> QED  BY <1>1, <2>1 DEF Begin, Enter, BackupRecv, BackupRecvEnd, Close, socketVars, history
<1>2. ASSUME BackupSend(k)
      PROVE  /\ UNCHANGED <<serverVars, flag, nsfd, eofs, top, backlog, cpc, raced,
                            miscounted, received>>
             /\ \/ UNCHANGED <<bpc, uds, dropped>> /\ Again(k)
                \/ BackupEnds
  BY <1>2 DEF BackupSend
<1>3. Again(k) => \E p \in ThreadStates : \E f : Goes(k, p, f)
  BY ThreadActs DEF ThreadStates
<1> QED  BY <1>1, <1>2, <1>3 DEF BackupService

LEMMA PhaseStep ==
  ASSUME TypeOK, PhaseInv, ListenerInv, [Next]_vars
  PROVE  PhaseInv'
<1> USE DEF PhaseInv
<1>0. flag \in BOOLEAN /\ eofs \in {0, 1} /\ nsfd \in Seq(Fds \union {Listener, NoFd})
      /\ spc \in {"bind", "accept", "pass", "create", "check", "kill", "return", "gone"}
      /\ bpc \in {"test", "read", "accept", "create", "dead"}
  BY DEF TypeOK, BackupTypes, ServerTypes
<1>1. ASSUME BindFails PROVE PhaseInv'
  BY <1>1 DEF BindFails, backupVars, socketVars
<1>2. ASSUME Start PROVE PhaseInv'
  BY <1>0, <1>2 DEF Start, backupVars
<1>3. ASSUME Accept \/ Pass \/ Create \/ Check PROVE PhaseInv'
  BY <1>0, <1>3 DEF Accept, Pass, Create, Check, backupVars, socketVars
<1>4. ASSUME Kill PROVE PhaseInv'
  BY <1>0, <1>4 DEF Kill, Handle, socketVars
<1>5. ASSUME ServerEnds, spc # "bind", UNCHANGED <<backupVars, uds, backlog, cpc>>
      PROVE  PhaseInv'
  BY <1>0, <1>5 DEF ServerEnds, backupVars
<1>6. ASSUME Return PROVE PhaseInv'
  BY <1>5, <1>6 DEF Return, socketVars
<1>7. ASSUME NEW c \in Clients, Recv(c) \/ RecvEnd(c) \/ Load(c) \/ Store(c) PROVE PhaseInv'
  BY <1>7 DEF Recv, RecvEnd, Load, Store, backupVars, socketVars
<1>8. ASSUME NEW c \in Clients, Send(c) PROVE PhaseInv'
  BY <1>5, <1>8 DEF Send, backupVars
<1>9. ASSUME Test PROVE PhaseInv'
  BY <1>9 DEF Test, serverVars, socketVars
<1>10. ASSUME ReadFd PROVE PhaseInv'
  BY <1>0, <1>10 DEF ReadFd, serverVars
<1>11. ASSUME ReadEnd PROVE PhaseInv'
  <2>1. PICK f \in Fds \union {NoFd} : nsfd' = Append(nsfd, f)
    BY <1>11 DEF ReadEnd
  <2>2. nsfd' # <<>> /\ nsfd'[Len(nsfd')] = f
    BY <1>0, <2>1, AppendProperties
  <2> QED  BY <1>11, <2>2 DEF ReadEnd, serverVars, socketVars
<1>12. ASSUME TakeOver PROVE PhaseInv'
  BY <1>12 DEF TakeOver, serverVars, socketVars
<1>13. ASSUME BackupEnds, flag, UNCHANGED <<serverVars, flag, nsfd, eofs, backlog, cpc>>
       PROVE  PhaseInv'
  BY <1>0, <1>13 DEF BackupEnds, serverVars
<1>14. ASSUME TakeOverTooSoon PROVE PhaseInv'
  BY <1>13, <1>14 DEF TakeOverTooSoon
<1>15. ASSUME BackupAccept \/ BackupCreate PROVE PhaseInv'
  BY <1>15 DEF BackupAccept, BackupCreate, serverVars, socketVars
<1>16. ASSUME NEW k \in DOMAIN threads, BackupService(k) PROVE PhaseInv'
  <2>1. bpc \in {"accept", "create"} /\ flag
    BY ThreadsRunLate
  <2>2. CASE BackupEnds
    BY <1>13, <1>16, <2>1, <2>2, ThreadSteps
  <2>3. CASE UNCHANGED <<bpc, uds, dropped>>
    BY <1>16, <2>1, <2>3, ThreadSteps DEF serverVars
  <2> QED  BY <1>16, <2>2, <2>3, ThreadSteps
<1>17. ASSUME NEW c \in Clients, Client(c) PROVE PhaseInv'
  <2>1. UNCHANGED <<serverVars, backupVars, uds>>
    BY <1>17 DEF Client, Connect, Ask, Read, CutOff, Quit
  <2>2. CASE spc # "bind"
    BY <1>0, <2>1, <2>2 DEF serverVars, backupVars
  <2>3. CASE spc = "bind"
    <3>1. ~Listening /\ ~Connected(c)
      BY <2>3 DEF Listening, Connected
    <3>2. backlog' = backlog /\ cpc' = [cpc EXCEPT ![c] = "gone"]
      BY <1>17, <3>1 DEF Client, Connect, Ask, Read, CutOff, Quit, Connected
    <3>3. \A d \in Clients : cpc'[d] \in {"away", "gone"}
      BY <2>3, <3>2 DEF TypeOK, ClientTypes
    <3> QED  BY <1>0, <2>1, <2>3, <3>2, <3>3 DEF serverVars, backupVars
  <2> QED  BY <2>2, <2>3
<1>18. ASSUME UNCHANGED vars PROVE PhaseInv'
  BY <1>18 DEF vars, serverVars, backupVars, socketVars
<1> QED
  BY <1>1, <1>2, <1>3, <1>4, <1>6, <1>7, <1>8, <1>9, <1>10, <1>11, <1>12, <1>14, <1>15, <1>16,
     <1>17, <1>18 DEF Next, ServerMain, BackupMain, Service

LEMMA NeverStays ==
  ASSUME TypeOK, PhaseInv, [Next]_vars, NeverReplaced
  PROVE  NeverReplaced'
<1> USE DEF NeverReplaced
<1>1. ServerMain => FALSE
  BY DEF ServerMain, Start, Accept, Pass, Create, Check, Kill, Return
<1>2. ASSUME NEW c \in Clients, Service(c) PROVE NeverReplaced'
  BY <1>2 DEF Service, Recv, RecvEnd, Load, Store, Send, ServerEnds, backupVars
<1>3. BackupMain => NeverReplaced'
  BY DEF BackupMain, Test, ReadFd, ReadEnd, TakeOver, TakeOverTooSoon, BackupAccept,
         BackupCreate, serverVars
<1>4. ASSUME NEW k \in DOMAIN threads, BackupService(k) PROVE NeverReplaced'
  BY <1>4, ThreadSteps DEF serverVars
<1>5. ASSUME NEW c \in Clients, Client(c) PROVE NeverReplaced'
  <2>1. spc' = spc
    BY <1>5, Frames DEF serverVars
  <2>2. flag' = flag
    BY <1>5 DEF Client, Connect, Ask, Read, CutOff, Quit, backupVars
  <2> QED  BY <2>1, <2>2
<1> QED  BY <1>1, <1>2, <1>3, <1>4, <1>5 DEF Next, BindFails, vars, serverVars, backupVars

LEMMA ListenerStep ==
  ASSUME TypeOK, PhaseInv, ListenerInv, AcceptInv, RoomInv, [Next]_vars
  PROVE  ListenerInv'
<1> USE DEF ListenerInv
<1>0. /\ nsfd \in Seq(Fds \union {Listener, NoFd}) /\ uds \in Seq(Clients \union {Listener})
      /\ DOMAIN uds = 1 .. Len(uds) /\ Len(uds) \in Nat
      /\ DOMAIN nsfd = 1 .. Len(nsfd) /\ Len(nsfd) \in Nat
  BY LenProperties DEF TypeOK, BackupTypes, KernelTypes
<1>1. NeverReplaced => NeverReplaced'
  BY NeverStays
<1>2. ASSUME BindFails PROVE ListenerInv'
  BY <1>2 DEF BindFails, backupVars, socketVars, PhaseInv, NeverReplaced
<1>3. ASSUME Start PROVE ListenerInv'
  <2>1. nsfd' = <<>> /\ uds' = <<Listener>>
    BY <1>3 DEF Start, PhaseInv, backupVars
  <2> QED  BY <2>1
<1>4. ASSUME Pass PROVE ListenerInv'
  <2>1. cur \in Clients /\ cur # Listener
    BY <1>4, Numbers DEF Pass, AcceptInv
  <2>2. uds' = Append(uds, cur) /\ nsfd' = nsfd
    BY <1>4 DEF Pass, PassFd, backupVars
  <2>3. ~(nsfd = <<>> /\ uds = <<>>)
    BY <1>4 DEF Pass, NeverReplaced, PhaseInv
  <2>4. /\ DOMAIN uds' = 1 .. Len(uds) + 1 /\ uds' # <<>>
        /\ \A j \in 1 .. Len(uds) : uds'[j] = uds[j]
        /\ uds'[Len(uds) + 1] = cur
    BY <1>0, <2>1, <2>2, Appended, AppendProperties
  <2>5. uds # <<>> => Len(uds) + 1 # 1
    BY <1>0, EmptyIsZero
  <2>6. \A j \in DOMAIN uds' : uds'[j] = Listener <=> j = 1 /\ nsfd = <<>>
    BY <1>0, <2>1, <2>3, <2>4, <2>5
  <2> QED  BY <1>1, <2>2, <2>3, <2>4, <2>6
<1>5. ASSUME UNCHANGED <<nsfd, uds>>, spc' = "bind" => spc = "bind", bpc = "dead" => bpc' = "dead",
             spc # "bind" \/ spc' = "bind"
      PROVE  ListenerInv'
  BY <1>1, <1>5
<1>6. ASSUME Accept \/ Create \/ Check \/ Kill \/ Return PROVE ListenerInv'
  BY <1>5, <1>6 DEF Accept, Create, Check, Kill, Return, ServerEnds, backupVars, socketVars
<1>7. ASSUME NEW c \in Clients, Service(c) PROVE ListenerInv'
  <2>1. spc = "bind" => spc' = "bind" \/ NeverReplaced'
    BY <1>7 DEF Service, Recv, RecvEnd, Load, Store, Send, ServerEnds, NeverReplaced, PhaseInv,
                backupVars
  <2>2. UNCHANGED <<nsfd, uds, bpc>>
    BY <1>7 DEF Service, Recv, RecvEnd, Load, Store, Send, backupVars, socketVars
  <2> QED  BY <1>1, <2>1, <2>2
<1>8. ASSUME Test \/ TakeOver \/ BackupAccept \/ BackupCreate PROVE ListenerInv'
  BY <1>5, <1>8 DEF Test, TakeOver, BackupAccept, BackupCreate, serverVars, socketVars
<1>9. ASSUME ReadFd PROVE ListenerInv'
  <2>1. uds # <<>> /\ uds' = Tail(uds)
    BY <1>9 DEF ReadFd
  <2>2. /\ Head(uds) = uds[1] /\ 1 \in DOMAIN uds
        /\ DOMAIN uds' = 1 .. Len(uds) - 1
        /\ \A j \in 1 .. Len(uds) - 1 : uds'[j] = uds[j + 1] /\ j + 1 \in DOMAIN uds
    BY <1>0, <2>1, Beheaded
  <2>3. ASSUME NEW j \in DOMAIN uds' PROVE uds'[j] # Listener
    <3>1. PICK n \in Nat : n = Len(uds)
      BY <1>0
    <3>2. j \in 1 .. n - 1 /\ j + 1 \in DOMAIN uds /\ uds'[j] = uds[j + 1]
      BY <2>2, <3>1
    <3>3. j + 1 # 1
      BY <3>2
    <3> QED  BY <3>2, <3>3 DEF ListenerInv
  <2>4. nsfd' # <<>> /\ (nsfd'[1] = Listener \/ NeverReplaced)
    <3>1. CASE Head(uds) = Listener
      <4>1. nsfd' = <<Listener>>
        BY <1>9, <3>1 DEF ReadFd
      <4> QED  BY <4>1
    <3>2. CASE Head(uds) # Listener
      <4>1. nsfd # <<>> /\ LowestFree \in Fds
        BY <2>1, <3>2, RoomToRead
      <4>2. nsfd' = Append(nsfd, LowestFree)
        BY <1>9, <3>2 DEF ReadFd
      <4>3. nsfd' # <<>> /\ nsfd'[1] = nsfd[1]
        BY <1>0, <4>1, <4>2, AppendProperties, EmptyIsZero
      <4> QED  BY <4>1, <4>3
    <3> QED  BY <3>1, <3>2
  <2> QED  BY <1>1, <2>3, <2>4
<1>10. ASSUME ReadEnd PROVE ListenerInv'
  <2>1. PICK f \in Fds \union {NoFd} : nsfd' = Append(nsfd, f)
    BY <1>10 DEF ReadEnd
  <2>2. uds = <<>> /\ uds' = uds /\ nsfd' # <<>>
    BY <1>0, <1>10, <2>1, AppendProperties DEF ReadEnd, socketVars
  <2>3. CASE nsfd = <<>>
    BY <1>1, <1>10, <2>2, <2>3 DEF ReadEnd
  <2>4. CASE nsfd # <<>>
    <3>1. nsfd'[1] = nsfd[1]
      BY <1>0, <2>1, <2>4, AppendProperties, EmptyIsZero
    <3> QED  BY <1>1, <2>2, <2>4, <3>1
  <2> QED  BY <2>3, <2>4
<1>11. ASSUME BackupEnds, UNCHANGED nsfd PROVE ListenerInv'
  BY <1>1, <1>11 DEF BackupEnds
<1>12. ASSUME TakeOverTooSoon PROVE ListenerInv'
  BY <1>11, <1>12 DEF TakeOverTooSoon
<1>13. ASSUME NEW k \in DOMAIN threads, BackupService(k) PROVE ListenerInv'
  BY <1>5, <1>11, <1>13, ThreadSteps DEF serverVars
<1>14. ASSUME (\E c \in Clients : Client(c)) \/ UNCHANGED vars PROVE ListenerInv'
  <2>1. UNCHANGED <<nsfd, uds, spc, bpc>>
    BY <1>14 DEF Client, Connect, Ask, Read, CutOff, Quit, vars, serverVars, backupVars,
                 socketVars
  <2> QED  BY <1>5, <2>1
<1> QED
  BY <1>2, <1>3, <1>4, <1>6, <1>7, <1>8, <1>9, <1>10, <1>12, <1>13, <1>14
  DEF Next, ServerMain, BackupMain

-----------------------------------------------------------------------------
(* Who has been accepted, and whom the threads serve *)

\* What is left when the head of the backlog is taken.
LEMMA Dequeued ==
  ASSUME NEW q \in Seq(Clients), q # <<>>
  PROVE  /\ Head(q) = q[1] /\ 1 \in DOMAIN q /\ Head(q) \in Clients
         /\ \A j \in DOMAIN Tail(q) : j + 1 \in DOMAIN q /\ Tail(q)[j] = q[j + 1] /\ j \in Nat \ {0}
         /\ Tail(q) \in Seq(Clients)
BY Beheaded, LenProperties

\* send() and recv() change the state of a connection only after the client has closed it.
LEMMA OpenStays ==
  ASSUME TypeOK, NEW c, NEW g, NEW d \in Clients, fin[d] = "no",
         SendTo(c, g) \/ RecvRequest(c) \/ RecvError(c)
  PROVE  fin'[d] = "no"
<1>1. fin' = fin \/ (fin[c] # "no" /\ fin' = [fin EXCEPT ![c] = "reset"])
  BY DEF SendTo, RecvRequest, RecvError
<1> QED  BY <1>1 DEF TypeOK, KernelTypes

LEMMA OpenStaysOpen ==
  ASSUME TypeOK, NEW d \in Clients, fin[d] = "no",
         \/ BindFails \/ ServerMain \/ BackupMain
         \/ \E c \in Clients : Service(c)
         \/ \E k \in DOMAIN threads : BackupService(k)
         \/ \E c \in Clients : Connect(c) \/ Ask(c) \/ Read(c) \/ CutOff(c)
  PROVE  fin'[d] = "no"
<1>1. BindFails \/ ServerMain \/ BackupMain => fin' = fin
  BY DEF BindFails, ServerMain, Start, Accept, Pass, Create, Check, Kill, Return, BackupMain,
         Test, ReadFd, ReadEnd, TakeOver, TakeOverTooSoon, BackupAccept, BackupCreate,
         socketVars
<1>2. ASSUME NEW c \in Clients, Service(c) PROVE fin'[d] = "no"
  BY <1>2, OpenStays DEF Service, Recv, RecvEnd, Load, Store, Send, socketVars
<1>3. ASSUME NEW k \in DOMAIN threads, BackupService(k) PROVE fin'[d] = "no"
  <2>1. ASSUME Begin(k) \/ Enter(k) \/ BackupRecvEnd(k) \/ Close(k) PROVE fin' = fin
    BY <2>1 DEF Begin, Enter, BackupRecvEnd, Close, socketVars
  <2>2. ASSUME BackupRecv(k) PROVE fin'[d] = "no"
    BY <2>2, OpenStays DEF BackupRecv
  <2>3. ASSUME BackupSend(k) PROVE fin'[d] = "no"
    BY <2>3, OpenStays DEF BackupSend
  <2> QED  BY <1>3, <2>1, <2>2, <2>3 DEF BackupService
<1>4. ASSUME NEW c \in Clients, Connect(c) \/ Ask(c) \/ Read(c) \/ CutOff(c) PROVE fin' = fin
  BY <1>4 DEF Connect, Ask, Read, CutOff
<1> QED  BY <1>1, <1>2, <1>3, <1>4

\* The part of AcceptInv about the order of events.
QueueInv ==
  /\ \A j \in DOMAIN backlog : cpc[backlog[j]] # "away" /\ thr[backlog[j]] = "none"
  /\ \A j, k \in DOMAIN backlog : backlog[j] = backlog[k] => j = k
  /\ spc \in {"pass", "create"} =>
       /\ cur \in Clients /\ cpc[cur] # "away" /\ thr[cur] = "none"
       /\ \A j \in DOMAIN backlog : backlog[j] # cur
  /\ \A c \in Clients : cpc[c] = "away" => thr[c] = "none"

OpenInv == \A c \in Clients : cpc[c] \in {"away", "typing", "waiting"} => fin[c] = "no"

LEMMA AcceptParts == AcceptInv <=> QueueInv /\ OpenInv
BY DEF AcceptInv, QueueInv, OpenInv

LEMMA OpenStep ==
  ASSUME TypeOK, OpenInv, [Next]_vars
  PROVE  OpenInv'
<1> USE DEF OpenInv
<1>1. ASSUME UNCHANGED cpc, \A d \in Clients : fin[d] = "no" => fin'[d] = "no" PROVE OpenInv'
  BY <1>1
<1>2. BindFails \/ ServerMain \/ BackupMain => OpenInv'
  BY <1>1, Frames, OpenStaysOpen
<1>3. ASSUME NEW c \in Clients, Service(c) PROVE OpenInv'
  BY <1>1, <1>3, Frames, OpenStaysOpen
<1>4. ASSUME NEW k \in DOMAIN threads, BackupService(k) PROVE OpenInv'
  BY <1>1, <1>4, Frames, OpenStaysOpen
<1>5. ASSUME NEW c \in Clients, Client(c) PROVE OpenInv'
  <2>1. cpc \in [Clients -> {"away", "typing", "waiting", "gone", "cut off"}]
        /\ fin \in [Clients -> {"no", "fin", "rst", "reset"}]
    BY DEF TypeOK, ClientTypes, KernelTypes
  <2>2. ASSUME Connect(c) \/ Ask(c) \/ Read(c) \/ CutOff(c) PROVE OpenInv'
    BY <2>1, <2>2 DEF Connect, Ask, Read, CutOff, Connected
  <2>3. ASSUME Quit(c) PROVE OpenInv'
    BY <2>1, <2>3 DEF Quit
  <2> QED  BY <1>5, <2>2, <2>3 DEF Client
<1> QED  BY <1>1, <1>2, <1>3, <1>4, <1>5 DEF Next, vars, socketVars

LEMMA QueueStep ==
  ASSUME TypeOK, QueueInv, [Next]_vars
  PROVE  QueueInv'
<1> USE DEF QueueInv
<1>0. /\ backlog \in Seq(Clients) /\ DOMAIN backlog = 1 .. Len(backlog) /\ Len(backlog) \in Nat
      /\ cpc \in [Clients -> {"away", "typing", "waiting", "gone", "cut off"}]
      /\ thr \in [Clients -> ServiceStates]
      /\ \A j \in DOMAIN backlog : backlog[j] \in Clients
  <2>1. backlog \in Seq(Clients)
    BY DEF TypeOK, KernelTypes
  <2>2. DOMAIN backlog = 1 .. Len(backlog) /\ Len(backlog) \in Nat
        /\ \A j \in DOMAIN backlog : backlog[j] \in Clients
    BY <2>1, LenProperties, ElementOfSeq
  <2> QED  BY <2>1, <2>2 DEF TypeOK, ClientTypes, ServerTypes
<1>1. ASSUME BindFails \/ Start \/ Check \/ Kill PROVE QueueInv'
  BY <1>1 DEF BindFails, Start, Check, Kill, socketVars
<1>2. ASSUME Accept PROVE QueueInv'
  <2>1. /\ backlog' = Tail(backlog) /\ cur' = backlog[1] /\ cur' \in Clients
        /\ 1 \in DOMAIN backlog /\ UNCHANGED <<thr, cpc>>
        /\ \A j \in DOMAIN backlog' :
             j + 1 \in DOMAIN backlog /\ backlog'[j] = backlog[j + 1] /\ j \in Nat \ {0}
    BY <1>0, <1>2, Dequeued DEF Accept
  <2> QED  BY <2>1
<1>3. ASSUME Pass PROVE QueueInv'
  BY <1>3 DEF Pass
<1>4. ASSUME Create PROVE QueueInv'
  BY <1>0, <1>4 DEF Create, socketVars
<1>5. ASSUME ServerEnds, UNCHANGED <<backlog, cpc>> PROVE QueueInv'
  BY <1>0, <1>5 DEF ServerEnds
<1>6. ASSUME NEW c \in Clients, NEW p \in ServiceStates, thr[c] # "none",
             thr' = [thr EXCEPT ![c] = p], UNCHANGED <<spc, cur, backlog, cpc>>
      PROVE  QueueInv'
  BY <1>0, <1>6
<1>7. ASSUME NEW c \in Clients, Service(c) PROVE QueueInv'
  <2>1. Recv(c) \/ RecvEnd(c) \/ Load(c) \/ Store(c) => QueueInv'
    BY <1>6 DEF Recv, RecvEnd, Load, Store, ServiceStates, socketVars
  <2>2. Send(c) => QueueInv'
    BY <1>5, <1>6 DEF Send, ServiceStates
  <2> QED  BY <1>7, <2>1, <2>2 DEF Service
<1>8. ASSUME Return PROVE QueueInv'
  BY <1>5, <1>8 DEF Return, socketVars
<1>9. ASSUME UNCHANGED <<serverVars, backlog, cpc>> PROVE QueueInv'
  BY <1>9 DEF serverVars
<1>10. Test \/ ReadFd \/ ReadEnd \/ TakeOver \/ TakeOverTooSoon \/ BackupCreate => QueueInv'
  BY <1>9 DEF Test, ReadFd, ReadEnd, TakeOver, TakeOverTooSoon, BackupCreate, socketVars
<1>11. ASSUME NEW k \in DOMAIN threads, BackupService(k) PROVE QueueInv'
  BY <1>9, <1>11, ThreadSteps
<1>12. ASSUME BackupAccept PROVE QueueInv'
  <2>1. /\ backlog' = Tail(backlog) /\ UNCHANGED <<serverVars, cpc>>
        /\ \A j \in DOMAIN backlog' :
             j + 1 \in DOMAIN backlog /\ backlog'[j] = backlog[j + 1] /\ j \in Nat
    BY <1>0, <1>12, Dequeued DEF BackupAccept
  <2> QED  BY <2>1 DEF serverVars
<1>13. ASSUME NEW c \in Clients, Connect(c) PROVE QueueInv'
  <2>1. UNCHANGED serverVars /\ cpc[c] = "away"
    BY <1>13 DEF Connect
  <2>2. \A d \in Clients : cpc[d] # "away" => cpc'[d] # "away"
    BY <1>0, <1>13 DEF Connect
  <2>3. cpc'[c] # "away" /\ \A d \in Clients : cpc'[d] = "away" => cpc[d] = "away"
    BY <1>0, <1>13 DEF Connect
  <2>4. CASE Listening
    <3>1. backlog' = Append(backlog, c)
      BY <1>13, <2>4 DEF Connect
    <3>0. /\ DOMAIN backlog' = 1 .. Len(backlog) + 1
          /\ \A j \in 1 .. Len(backlog) : backlog'[j] = backlog[j]
          /\ backlog'[Len(backlog) + 1] = c
      <4>1. backlog \in Seq(Clients)
        BY <1>0
      <4> QED  BY <3>1, <4>1, Appended
    <3>2. \A j \in DOMAIN backlog' :
            \/ j \in DOMAIN backlog /\ backlog'[j] = backlog[j]
            \/ j = Len(backlog) + 1 /\ backlog'[j] = c
      <4>1. PICK n \in Nat : n = Len(backlog)
        BY <1>0
      <4>2. \A j \in 1 .. n + 1 : j \in 1 .. n \/ j = n + 1
        BY <4>1
      <4>3. DOMAIN backlog = 1 .. n /\ DOMAIN backlog' = 1 .. n + 1
        BY <1>0, <3>0, <4>1
      <4> QED  BY <3>0, <4>1, <4>2, <4>3
    <3>3. \A j \in 1 .. Len(backlog) : backlog[j] # c
      BY <1>0, <2>1
    <3>4. thr[c] = "none" /\ (spc \in {"pass", "create"} => cur # c)
      BY <2>1
    <3>5. \A j \in DOMAIN backlog' : cpc'[backlog'[j]] # "away" /\ thr'[backlog'[j]] = "none"
      BY <1>0, <2>1, <2>2, <2>3, <3>2, <3>4 DEF serverVars
    <3>6. \A j, k \in DOMAIN backlog' : backlog'[j] = backlog'[k] => j = k
      BY <1>0, <3>2, <3>3
    <3>7. spc' \in {"pass", "create"} =>
            /\ cur' \in Clients /\ cpc'[cur'] # "away" /\ thr'[cur'] = "none"
            /\ \A j \in DOMAIN backlog' : backlog'[j] # cur'
      BY <1>0, <2>1, <2>2, <3>2, <3>4 DEF serverVars
    <3>8. \A d \in Clients : cpc'[d] = "away" => thr'[d] = "none"
      BY <2>1, <2>3 DEF serverVars
    <3> QED  BY <3>5, <3>6, <3>7, <3>8
  <2>5. CASE ~Listening
    <3>1. backlog' = backlog
      BY <1>13, <2>5 DEF Connect
    <3> QED  BY <1>0, <2>1, <2>2, <2>3, <3>1 DEF serverVars
  <2> QED  BY <2>4, <2>5
<1>14. ASSUME NEW c \in Clients, Ask(c) \/ Read(c) \/ CutOff(c) \/ Quit(c) PROVE QueueInv'
  <2>1. UNCHANGED serverVars /\ (backlog' = backlog \/ backlog' = <<>>)
    BY <1>14 DEF Ask, Read, CutOff, Quit
  <2>2. \A d \in Clients : cpc'[d] = "away" <=> cpc[d] = "away"
    BY <1>0, <1>14 DEF Ask, Read, CutOff, Quit, Connected
  <2>3. CASE backlog' = <<>>
    BY <2>1, <2>2, <2>3 DEF serverVars
  <2>4. CASE backlog' = backlog
    BY <1>0, <2>1, <2>2, <2>4 DEF serverVars
  <2> QED  BY <2>1, <2>3, <2>4
<1>15. ASSUME UNCHANGED vars PROVE QueueInv'
  BY <1>9, <1>15 DEF vars, socketVars
<1> QED
  BY <1>1, <1>2, <1>3, <1>4, <1>7, <1>8, <1>10, <1>11, <1>12, <1>13, <1>14, <1>15
  DEF Next, ServerMain, BackupMain, Client

LEMMA FileStep ==
  ASSUME TypeOK, PhaseInv, ListenerInv, ReadInv, FileInv, [Next]_vars
  PROVE  FileInv'
<1> USE DEF FileInv
<1>1. ASSUME TakeOver PROVE FileInv'
  BY <1>1, TakenOver
<1>2. ASSUME BackupCreate PROVE FileInv'
  <2>1. /\ DOMAIN threads' = 1 .. Len(threads) + 1
        /\ \A j \in 1 .. Len(threads) : threads'[j] = threads[j]
        /\ threads'[Len(threads) + 1].pc = "new"
    BY <1>2, ThreadTypes, ThreadIsOne, Appended DEF BackupCreate, NewThread, ThreadStates
  <2> QED  BY <2>1, ThreadTypes
<1>3. ASSUME NEW k \in DOMAIN threads, NEW p \in ThreadStates, NEW f, Goes(k, p, f),
             p \in {"recv", "send"} => threads'[k].file \in Clients,
             p \in {"recv", "send", "close"} => f \in Fds
      PROVE  FileInv'
  BY <1>3 DEF Goes
<1>4. ASSUME threads' = <<>> PROVE FileInv'
  BY <1>4
<1>5. ASSUME NEW k \in DOMAIN threads, BackupService(k) PROVE FileInv'
  <2>1. Begin(k) \/ Close(k) \/ Again(k) => FileInv'
    BY <1>3, ThreadActs DEF ThreadStates
  <2>2. BackupRecv(k) \/ BackupRecvEnd(k) => FileInv'
    BY <1>3, ThreadActs DEF ThreadStates
  <2>3. Enter(k) => FileInv'
    <3>1. Enter(k) => threads[k].fd \in Fds /\ files[threads[k].fd] \in Clients
      BY ThreadTypes DEF Enter, TypeOK, BackupTypes
    <3> QED  BY <1>3, <3>1, ThreadActs DEF ThreadStates
  <2>4. BackupSend(k) => FileInv'
    BY <1>4, <2>1 DEF BackupSend, BackupEnds
  <2> QED  BY <1>5, <2>1, <2>2, <2>3, <2>4 DEF BackupService
<1>6. ASSUME UNCHANGED threads PROVE FileInv'
  BY <1>6
<1> QED
  BY <1>1, <1>2, <1>4, <1>5, <1>6, Frames
  DEF Next, BackupMain, Test, ReadFd, ReadEnd, TakeOverTooSoon, BackupEnds, BackupAccept,
      vars, backupVars

-----------------------------------------------------------------------------
(* Connections under way are no more than the clients that have come *)

LEMMA RoomNumbers ==
  ASSUME TypeOK
  PROVE  /\ Cardinality(Used) \in Nat /\ Cardinality(Came) \in Nat
         /\ Passed \in Nat /\ InHands \in {0, 1} /\ Begun \in {0, 1} /\ eofs \in {0, 1}
         /\ Len(backlog) \in Nat /\ Len(uds) \in Nat /\ Len(nsfd) \in Nat
         /\ Len(threads) \in Nat
         /\ nsfd = <<>> /\ uds # <<>> => Passed = Len(uds) - 1
         /\ nsfd # <<>> \/ uds = <<>> => Passed = Len(uds)
<1>1. Len(backlog) \in Nat /\ Len(uds) \in Nat /\ Len(nsfd) \in Nat /\ Len(threads) \in Nat
      /\ (uds = <<>> <=> Len(uds) = 0) /\ eofs \in {0, 1}
  BY EmptyIsZero, ThreadTypes DEF TypeOK, BackupTypes, KernelTypes
<1> QED  BY <1>1, Sets DEF Passed, InHands, Begun

LEMMA UsedChanges ==
  ASSUME TypeOK
  PROVE  /\ IsFiniteSet(Used') /\ Cardinality(Used') \in Nat
         /\ files' = files => Cardinality(Used') = Cardinality(Used)
         /\ (\A f \in Fds : files'[f] = files[f] \/ files'[f] = NoClient)
              => Cardinality(Used') <= Cardinality(Used)
         /\ \A f \in Fds, c \in Clients :
              files[f] = NoClient /\ files' = [files EXCEPT ![f] = c]
                => Cardinality(Used') = Cardinality(Used) + 1
<1>1. Used' \in SUBSET Fds
  BY DEF Used
<1>2. IsFiniteSet(Used') /\ Cardinality(Used') \in Nat
  BY <1>1, Numbers, FS_Subset, FS_CardinalityType
<1>3. files' = files => Used' = Used
  BY DEF Used
<1>4. ASSUME \A f \in Fds : files'[f] = files[f] \/ files'[f] = NoClient
      PROVE  Cardinality(Used') <= Cardinality(Used)
  <2>1. Used' \in SUBSET Used
    BY <1>4 DEF Used
  <2> QED  BY <2>1, Sets, FS_Subset
<1>5. ASSUME NEW f \in Fds, NEW c \in Clients,
             files[f] = NoClient, files' = [files EXCEPT ![f] = c]
      PROVE  Cardinality(Used') = Cardinality(Used) + 1
  <2>1. Used' = Used \union {f} /\ f \notin Used
    BY <1>5, Numbers DEF Used, TypeOK, BackupTypes
  <2> QED  BY <2>1, Sets, FS_AddElement
<1> QED  BY <1>2, <1>3, <1>4, <1>5

LEMMA CameChanges ==
  ASSUME TypeOK
  PROVE  /\ cpc' = cpc => Cardinality(Came') = Cardinality(Came)
         /\ \A c \in Clients, p \in {"typing", "waiting", "gone", "cut off"} :
              cpc' = [cpc EXCEPT ![c] = p] =>
                /\ cpc[c] # "away" => Cardinality(Came') = Cardinality(Came)
                /\ cpc[c] = "away" => Cardinality(Came') = Cardinality(Came) + 1
<1>1. cpc' = cpc => Came' = Came
  BY DEF Came
<1>2. ASSUME NEW c \in Clients, NEW p \in {"typing", "waiting", "gone", "cut off"},
             cpc' = [cpc EXCEPT ![c] = p]
      PROVE  /\ cpc[c] # "away" => Cardinality(Came') = Cardinality(Came)
             /\ cpc[c] = "away" => Cardinality(Came') = Cardinality(Came) + 1
  <2>1. Came' = Came \union {c}
    BY <1>2 DEF Came, TypeOK, ClientTypes
  <2>2. c \in Came <=> cpc[c] # "away"
    BY DEF Came
  <2>3. c \in Came => Came' = Came
    BY <2>1
  <2> QED  BY <2>1, <2>2, <2>3, Sets, FS_AddElement
<1> QED  BY <1>1, <1>2

\* Nothing has grown but the number of clients that have come.
LEMMA RoomKept ==
  ASSUME TypeOK, RoomInv,
         Cardinality(Used') \in Nat, Cardinality(Used') <= Cardinality(Used),
         Cardinality(Came') \in Nat, Cardinality(Came') >= Cardinality(Came),
         Len(backlog') \in Nat, Len(backlog') <= Len(backlog),
         UNCHANGED <<nsfd, uds, eofs, Len(threads)>>,
         spc' = "pass" => spc = "pass",
         bpc' \in {"test", "read"} => bpc \in {"test", "read"},
         bpc' \in {"accept", "create"} => bpc' = bpc
  PROVE  RoomInv'
<1>1. InHands' \in {0, 1} /\ InHands' <= InHands
  BY RoomNumbers DEF InHands
<1>2. bpc' \in {"accept", "create"} => Begun' = Begun
  BY DEF Begun
<1>3. Passed' = Passed
  BY DEF Passed
<1>4. PICK u1 \in Nat, u2 \in Nat, c1 \in Nat, c2 \in Nat, b1 \in Nat, b2 \in Nat,
           h1 \in {0, 1}, h2 \in {0, 1}, p \in Nat :
        /\ u1 = Cardinality(Used) /\ u2 = Cardinality(Used')
        /\ c1 = Cardinality(Came) /\ c2 = Cardinality(Came')
        /\ b1 = Len(backlog) /\ b2 = Len(backlog') /\ h1 = InHands /\ h2 = InHands' /\ p = Passed
  BY <1>1, RoomNumbers
<1>5. PICK n \in Nat, l \in Nat, t \in Nat, s \in {0, 1}, e \in {0, 1} :
        n = Len(nsfd) /\ l = Len(uds) /\ t = Len(threads) /\ s = Begun /\ e = eofs
  BY RoomNumbers
<1>6. u2 <= u1 /\ c2 >= c1 /\ b2 <= b1 /\ h2 <= h1
  BY <1>1, <1>4
<1>7. u2 + p + h2 + b2 <= c2
  <2>1. u1 + p + h1 + b1 <= c1
    BY <1>4 DEF RoomInv
  <2> QED  BY <1>6, <2>1
<1>8. bpc \in {"test", "read"} => n + l + h2 + b2 <= c2 + 1 + e
  <2>1. bpc \in {"test", "read"} => n + l + h1 + b1 <= c1 + 1 + e
    BY <1>4, <1>5 DEF RoomInv
  <2> QED  BY <1>6, <2>1
<1>9. bpc \in {"accept", "create"} => t + s + l + b2 <= c2 + e
  <2>1. bpc \in {"accept", "create"} => t + s + l + b1 <= c1 + e
    BY <1>4, <1>5 DEF RoomInv
  <2> QED  BY <1>6, <2>1
<1> QED  BY <1>2, <1>3, <1>4, <1>5, <1>7, <1>8, <1>9 DEF RoomInv

LEMMA RoomStart ==
  ASSUME TypeOK, PhaseInv, RoomInv, Start
  PROVE  RoomInv'
<1>1. /\ nsfd' = <<>> /\ uds' = <<Listener>> /\ eofs' = eofs /\ spc' = "accept" /\ bpc' = bpc
      /\ UNCHANGED <<backlog, files, cpc>> /\ spc = "bind" /\ bpc \in {"test", "read"}
      /\ nsfd = <<>> /\ uds = <<>>
  BY DEF Start, PhaseInv, backupVars, TypeOK, BackupTypes
<1>2. Cardinality(Used') = Cardinality(Used) /\ Cardinality(Came') = Cardinality(Came)
  BY <1>1, UsedChanges, CameChanges
<1>3. Passed' = 0 /\ InHands' = 0 /\ Passed = 0 /\ InHands = 0
      /\ Len(nsfd') = 0 /\ Len(uds') = 1 /\ Len(nsfd) = 0 /\ Len(uds) = 0
  BY <1>1, EmptySeq DEF Passed, InHands
<1>4. PICK u \in Nat, c \in Nat, b \in Nat, e \in {0, 1} :
        u = Cardinality(Used) /\ c = Cardinality(Came) /\ b = Len(backlog) /\ e = eofs
  BY RoomNumbers
<1>5. u + 0 + 0 + b <= c
  BY <1>3, <1>4 DEF RoomInv
<1>6. u + 0 + 0 + b <= c /\ 0 + 1 + 0 + b <= c + 1 + e
  BY <1>5
<1> QED  BY <1>1, <1>2, <1>3, <1>4, <1>6 DEF RoomInv

LEMMA RoomAccept ==
  ASSUME TypeOK, RoomInv, Accept
  PROVE  RoomInv'
<1>1. /\ spc' = "pass" /\ InHands = 0 /\ InHands' = 1
      /\ UNCHANGED <<nsfd, uds, eofs, threads, bpc, files, cpc>>
  BY DEF Accept, backupVars, InHands
<1>2. Cardinality(Used') = Cardinality(Used) /\ Cardinality(Came') = Cardinality(Came)
  BY <1>1, UsedChanges, CameChanges
<1>3. Len(backlog') = Len(backlog) - 1
  BY Beheaded DEF Accept, TypeOK, KernelTypes
<1>4. Passed' = Passed /\ Begun' = Begun
  BY <1>1 DEF Passed, Begun
<1>5. PICK u \in Nat, c \in Nat, b \in Nat, p \in Nat, n \in Nat, l \in Nat, t \in Nat,
           s \in {0, 1}, e \in {0, 1} :
        /\ u = Cardinality(Used) /\ c = Cardinality(Came) /\ b = Len(backlog) /\ p = Passed
        /\ n = Len(nsfd) /\ l = Len(uds) /\ t = Len(threads) /\ s = Begun /\ e = eofs
  BY RoomNumbers
<1>6. u + p + 0 + b <= c
  BY <1>1, <1>5 DEF RoomInv
<1>7. bpc \in {"test", "read"} => n + l + 0 + b <= c + 1 + e
  BY <1>1, <1>5 DEF RoomInv
<1>8. bpc \in {"accept", "create"} => t + s + l + b <= c + e
  BY <1>5 DEF RoomInv
<1>9. /\ u + p + 1 + (b - 1) <= c
      /\ bpc \in {"test", "read"} => n + l + 1 + (b - 1) <= c + 1 + e
      /\ bpc \in {"accept", "create"} => t + s + l + (b - 1) <= c + e
  BY <1>6, <1>7, <1>8
<1> QED  BY <1>1, <1>2, <1>3, <1>4, <1>5, <1>9 DEF RoomInv

LEMMA RoomPass ==
  ASSUME TypeOK, PhaseInv, ListenerInv, AcceptInv, RoomInv, Pass
  PROVE  RoomInv'
<1>1. /\ spc = "pass" /\ spc' = "create" /\ InHands = 1 /\ InHands' = 0
      /\ UNCHANGED <<nsfd, eofs, threads, bpc, files, cpc, backlog>>
      /\ uds' = Append(uds, cur) /\ cur \in Clients
  BY DEF Pass, PassFd, backupVars, InHands, AcceptInv
<1>2. Cardinality(Used') = Cardinality(Used) /\ Cardinality(Came') = Cardinality(Came)
  BY <1>1, UsedChanges, CameChanges
<1>3. bpc \in {"test", "read"} /\ ~(nsfd = <<>> /\ uds = <<>>)
  BY <1>1 DEF PhaseInv, ListenerInv, NeverReplaced, TypeOK, BackupTypes
<1>4. Len(uds') = Len(uds) + 1 /\ uds' # <<>>
  BY <1>1, AppendProperties DEF TypeOK, KernelTypes
<1>5. PICK u \in Nat, c \in Nat, b \in Nat, p \in Nat, n \in Nat, l \in Nat, e \in {0, 1} :
        /\ u = Cardinality(Used) /\ c = Cardinality(Came) /\ b = Len(backlog) /\ p = Passed
        /\ n = Len(nsfd) /\ l = Len(uds) /\ e = eofs
  BY RoomNumbers
<1>6. Passed' = p + 1
  <2>1. CASE nsfd = <<>>
    <3>1. p = l - 1 /\ Passed' = (l + 1) - 1
      BY <1>1, <1>3, <1>4, <1>5, <2>1, RoomNumbers DEF Passed
    <3> QED  BY <3>1
  <2>2. CASE nsfd # <<>>
    BY <1>1, <1>4, <1>5, <2>2, RoomNumbers DEF Passed
  <2> QED  BY <2>1, <2>2
<1>7. u + p + 1 + b <= c /\ n + l + 1 + b <= c + 1 + e
  BY <1>1, <1>3, <1>5 DEF RoomInv
<1>8. u + (p + 1) + 0 + b <= c /\ n + (l + 1) + 0 + b <= c + 1 + e
  BY <1>7
<1> QED  BY <1>1, <1>2, <1>3, <1>4, <1>5, <1>6, <1>8 DEF RoomInv

LEMMA RoomReadFd ==
  ASSUME TypeOK, PhaseInv, ListenerInv, RoomInv, ReadFd
  PROVE  RoomInv'
<1>1. /\ bpc = "read" /\ bpc' = "test" /\ uds # <<>> /\ uds' = Tail(uds)
      /\ UNCHANGED <<spc, eofs, threads, cpc, backlog>>
  BY DEF ReadFd, serverVars
<1>2. Cardinality(Came') = Cardinality(Came) /\ InHands' = InHands
  BY <1>1, CameChanges DEF InHands
<1>3. PICK u \in Nat, c \in Nat, b \in Nat, p \in Nat, n \in Nat, l \in Nat, e \in {0, 1},
           h \in {0, 1} :
        /\ u = Cardinality(Used) /\ c = Cardinality(Came) /\ b = Len(backlog) /\ p = Passed
        /\ n = Len(nsfd) /\ l = Len(uds) /\ e = eofs /\ h = InHands
  BY RoomNumbers
<1>4. /\ Len(uds') = l - 1 /\ Head(uds) = uds[1] /\ 1 \in DOMAIN uds
      /\ Head(uds) # Listener => Head(uds) \in Clients
  BY <1>1, <1>3, Beheaded DEF TypeOK, KernelTypes
<1>5. u + p + h + b <= c /\ n + l + h + b <= c + 1 + e
  BY <1>1, <1>3 DEF RoomInv
<1>6. CASE Head(uds) = Listener
  <2>1. nsfd = <<>> /\ nsfd' = <<Listener>> /\ files' = files
    BY <1>4, <1>6 DEF ReadFd, ListenerInv
  <2>2. n = 0 /\ Len(nsfd') = 1 /\ p = l - 1 /\ Passed' = l - 1
    BY <1>1, <1>3, <1>4, <2>1, RoomNumbers DEF Passed
  <2>3. Cardinality(Used') = u
    BY <1>3, <2>1, UsedChanges
  <2>4. u + (l - 1) + h + b <= c /\ 1 + (l - 1) + h + b <= c + 1 + e
    BY <1>5, <2>2
  <2> QED  BY <1>1, <1>2, <1>3, <1>4, <2>2, <2>3, <2>4 DEF RoomInv
<1>7. CASE Head(uds) # Listener
  <2>1. /\ nsfd # <<>> /\ nsfd' = Append(nsfd, LowestFree) /\ LowestFree \in Fds
        /\ files[LowestFree] = NoClient /\ files' = [files EXCEPT ![LowestFree] = Head(uds)]
    BY <1>1, <1>7, RoomToRead DEF ReadFd
  <2>2. nsfd' # <<>> /\ Len(nsfd') = n + 1
    BY <1>3, <2>1, AppendProperties DEF TypeOK, BackupTypes
  <2>3. p = l /\ Passed' = l - 1
    BY <1>3, <1>4, <2>1, <2>2, RoomNumbers DEF Passed
  <2>4. Cardinality(Used') = u + 1
    BY <1>3, <1>4, <1>7, <2>1, UsedChanges
  <2>5. (u + 1) + (l - 1) + h + b <= c /\ (n + 1) + (l - 1) + h + b <= c + 1 + e
    BY <1>5, <2>3
  <2> QED  BY <1>1, <1>2, <1>3, <1>4, <2>2, <2>3, <2>4, <2>5 DEF RoomInv
<1> QED  BY <1>6, <1>7

LEMMA RoomReadEnd ==
  ASSUME TypeOK, RoomInv, ReadEnd
  PROVE  RoomInv'
<1>1. /\ bpc = "read" /\ bpc' = "test" /\ uds = <<>> /\ eofs = 0 /\ eofs' = 1
      /\ UNCHANGED <<spc, threads, cpc, backlog, uds, files>>
  BY DEF ReadEnd, serverVars, socketVars
<1>2. Cardinality(Came') = Cardinality(Came) /\ InHands' = InHands
      /\ Cardinality(Used') = Cardinality(Used) /\ Passed' = Passed
  BY <1>1, CameChanges, UsedChanges DEF InHands, Passed
<1>3. PICK f \in Fds \union {NoFd} : nsfd' = Append(nsfd, f)
  BY DEF ReadEnd
<1>4. Len(nsfd') = Len(nsfd) + 1
  BY <1>3, AppendProperties DEF TypeOK, BackupTypes
<1>5. PICK c \in Nat, b \in Nat, n \in Nat, l \in Nat, h \in {0, 1} :
        /\ c = Cardinality(Came) /\ b = Len(backlog) /\ n = Len(nsfd) /\ l = Len(uds)
        /\ h = InHands
  BY RoomNumbers
<1>6. n + l + h + b <= c + 1 + 0
  BY <1>1, <1>5 DEF RoomInv
<1>7. (n + 1) + l + h + b <= c + 1 + 1
  BY <1>6
<1> QED  BY <1>1, <1>2, <1>4, <1>5, <1>7 DEF RoomInv

LEMMA RoomTakeOver ==
  ASSUME TypeOK, PhaseInv, ListenerInv, ReadInv, RoomInv, TakeOver
  PROVE  RoomInv'
<1>1. /\ bpc = "test" /\ bpc' = "accept" /\ Begun' = 0
      /\ UNCHANGED <<spc, eofs, nsfd, cpc, backlog, uds, files>>
  BY DEF TakeOver, serverVars, socketVars, Begun
<1>2. Cardinality(Came') = Cardinality(Came) /\ InHands' = InHands
      /\ Cardinality(Used') = Cardinality(Used) /\ Passed' = Passed
  BY <1>1, CameChanges, UsedChanges DEF InHands, Passed
<1>3. Len(threads') = Len(nsfd) - 1
  BY TakenOver
<1>4. PICK c \in Nat, b \in Nat, n \in Nat, l \in Nat, h \in {0, 1}, e \in {0, 1} :
        /\ c = Cardinality(Came) /\ b = Len(backlog) /\ n = Len(nsfd) /\ l = Len(uds)
        /\ h = InHands /\ e = eofs
  BY RoomNumbers
<1>5. n + l + h + b <= c + 1 + e
  BY <1>1, <1>4 DEF RoomInv
<1>6. (n - 1) + 0 + l + b <= c + e
  BY <1>5
<1> QED  BY <1>1, <1>2, <1>3, <1>4, <1>6 DEF RoomInv

LEMMA RoomBackupAccept ==
  ASSUME TypeOK, RoomInv, BackupAccept
  PROVE  RoomInv'
<1>1. /\ bpc = "accept" /\ bpc' = "create" /\ Begun = 0 /\ Begun' = 1 /\ backlog # <<>>
      /\ UNCHANGED <<spc, eofs, nsfd, cpc, threads, uds>>
  BY DEF BackupAccept, serverVars, Begun
<1>2. Cardinality(Came') = Cardinality(Came) /\ InHands' = InHands /\ Passed' = Passed
  BY <1>1, CameChanges DEF InHands, Passed
<1>3. Len(backlog') = Len(backlog) - 1 /\ Head(backlog) \in Clients
  BY Beheaded DEF BackupAccept, TypeOK, KernelTypes
<1>4. Cardinality(Used') = Cardinality(Used) + 1
  BY <1>1, <1>3, RoomToAccept, UsedChanges DEF BackupAccept
<1>5. PICK u \in Nat, p \in Nat, c \in Nat, b \in Nat, t \in Nat, l \in Nat, h \in {0, 1},
           e \in {0, 1} :
        /\ u = Cardinality(Used) /\ p = Passed /\ c = Cardinality(Came) /\ b = Len(backlog)
        /\ t = Len(threads) /\ l = Len(uds) /\ h = InHands /\ e = eofs
  BY RoomNumbers
<1>6. u + p + h + b <= c /\ t + 0 + l + b <= c + e
  BY <1>1, <1>5 DEF RoomInv
<1>7. (u + 1) + p + h + (b - 1) <= c /\ t + 1 + l + (b - 1) <= c + e
  BY <1>6
<1> QED  BY <1>1, <1>2, <1>3, <1>4, <1>5, <1>7 DEF RoomInv

LEMMA RoomBackupCreate ==
  ASSUME TypeOK, RoomInv, BackupCreate
  PROVE  RoomInv'
<1>1. /\ bpc = "create" /\ bpc' = "accept" /\ Begun = 1 /\ Begun' = 0
      /\ UNCHANGED <<spc, eofs, nsfd, cpc, backlog, uds, files>>
  BY DEF BackupCreate, serverVars, socketVars, Begun
<1>2. Cardinality(Came') = Cardinality(Came) /\ InHands' = InHands /\ Passed' = Passed
      /\ Cardinality(Used') = Cardinality(Used)
  BY <1>1, CameChanges, UsedChanges DEF InHands, Passed
<1>3. Len(threads') = Len(threads) + 1
  BY ThreadTypes, ThreadIsOne, Appended DEF BackupCreate, NewThread, ThreadStates
<1>4. PICK c \in Nat, b \in Nat, t \in Nat, l \in Nat, e \in {0, 1} :
        /\ c = Cardinality(Came) /\ b = Len(backlog) /\ t = Len(threads) /\ l = Len(uds)
        /\ e = eofs
  BY RoomNumbers
<1>5. t + 1 + l + b <= c + e
  BY <1>1, <1>4 DEF RoomInv
<1>6. (t + 1) + 0 + l + b <= c + e
  BY <1>5
<1> QED  BY <1>1, <1>2, <1>3, <1>4, <1>6 DEF RoomInv

LEMMA RoomBackupEnds ==
  ASSUME TypeOK, RoomInv, BackupEnds, UNCHANGED <<spc, cpc, backlog, nsfd>>
  PROVE  RoomInv'
<1>1. Cardinality(Came') = Cardinality(Came) /\ InHands' = InHands
  BY CameChanges DEF InHands
<1>2. bpc' = "dead" /\ Len(uds') = 0 /\ Passed' = 0 /\ Cardinality(Used') = 0
  <2>1. uds' = <<>> /\ Used' = {} /\ bpc' = "dead"
    BY DEF BackupEnds, Used
  <2> QED  BY <2>1, EmptySeq, FS_EmptySet DEF Passed
<1>3. PICK u \in Nat, p \in Nat, c \in Nat, b \in Nat, h \in {0, 1} :
        /\ u = Cardinality(Used) /\ p = Passed /\ c = Cardinality(Came) /\ b = Len(backlog)
        /\ h = InHands
  BY RoomNumbers
<1>4. u + p + h + b <= c
  BY <1>3 DEF RoomInv
<1>5. 0 + 0 + h + b <= c
  BY <1>4
<1> QED  BY <1>1, <1>2, <1>3, <1>5 DEF RoomInv

LEMMA RoomConnect ==
  ASSUME TypeOK, RoomInv, NEW c \in Clients, Connect(c)
  PROVE  RoomInv'
<1>1. UNCHANGED <<spc, bpc, nsfd, uds, eofs, threads, files>> /\ cpc[c] = "away"
  BY DEF Connect, serverVars, backupVars
<1>2. InHands' = InHands /\ Passed' = Passed /\ Begun' = Begun
      /\ Cardinality(Used') = Cardinality(Used)
  BY <1>1, UsedChanges DEF InHands, Passed, Begun
<1>3. Cardinality(Came') = Cardinality(Came) + 1
  <2>1. PICK p \in {"typing", "gone"} : cpc' = [cpc EXCEPT ![c] = p]
    BY DEF Connect
  <2> QED  BY <1>1, <2>1, CameChanges
<1>4. PICK u \in Nat, k \in Nat, b \in Nat, p \in Nat, n \in Nat, l \in Nat, t \in Nat,
           h \in {0, 1}, s \in {0, 1}, e \in {0, 1} :
        /\ u = Cardinality(Used) /\ k = Cardinality(Came) /\ b = Len(backlog) /\ p = Passed
        /\ n = Len(nsfd) /\ l = Len(uds) /\ t = Len(threads) /\ h = InHands /\ s = Begun
        /\ e = eofs
  BY RoomNumbers
<1>5. PICK b2 \in {b, b + 1} : b2 = Len(backlog')
  BY <1>4, AppendProperties DEF Connect, TypeOK, KernelTypes
<1>6. /\ u + p + h + b <= k
      /\ bpc \in {"test", "read"} => n + l + h + b <= k + 1 + e
      /\ bpc \in {"accept", "create"} => t + s + l + b <= k + e
  BY <1>4 DEF RoomInv
<1>7. /\ u + p + h + b2 <= k + 1
      /\ bpc \in {"test", "read"} => n + l + h + b2 <= (k + 1) + 1 + e
      /\ bpc \in {"accept", "create"} => t + s + l + b2 <= (k + 1) + e
  BY <1>5, <1>6
<1> QED  BY <1>1, <1>2, <1>3, <1>4, <1>5, <1>7 DEF RoomInv

LEMMA RoomStep ==
  ASSUME TypeOK, PhaseInv, ListenerInv, AcceptInv, ReadInv, RoomInv, [Next]_vars
  PROVE  RoomInv'
<1>0. /\ Cardinality(Used') \in Nat
      /\ files' = files => Cardinality(Used') <= Cardinality(Used)
      /\ Len(backlog) \in Nat
      /\ cpc' = cpc => Cardinality(Came') \in Nat /\ Cardinality(Came') >= Cardinality(Came)
  <2>1. PICK u \in Nat, c \in Nat : u = Cardinality(Used) /\ c = Cardinality(Came)
    BY RoomNumbers
  <2>2. files' = files => Cardinality(Used') = u
    BY <2>1, UsedChanges
  <2>3. cpc' = cpc => Cardinality(Came') = c
    BY <2>1, CameChanges
  <2> QED  BY <2>1, <2>2, <2>3, RoomNumbers, UsedChanges
<1>1. ASSUME UNCHANGED <<cpc, files, backlog, nsfd, uds, eofs, threads, bpc>>,
             spc' = "pass" => spc = "pass"
      PROVE  RoomInv'
  BY <1>0, <1>1, RoomKept
<1>2. BindFails \/ Create \/ Check \/ Kill \/ Return => RoomInv'
  BY <1>1 DEF BindFails, Create, Check, Kill, Return, ServerEnds, backupVars, socketVars
<1>3. ASSUME NEW c \in Clients, Service(c) PROVE RoomInv'
  <2>1. UNCHANGED <<cpc, files, nsfd, eofs, threads, bpc, backlog, uds>>
    BY <1>3 DEF Service, Recv, RecvEnd, Load, Store, Send, backupVars, socketVars
  <2>2. spc' = "pass" => spc = "pass"
    BY <1>3 DEF Service, Recv, RecvEnd, Load, Store, Send, ServerEnds
  <2> QED  BY <1>1, <2>1, <2>2
<1>4. Test => RoomInv'
  BY <1>0, RoomKept DEF Test, serverVars, socketVars
<1>5. TakeOverTooSoon => RoomInv'
  BY RoomBackupEnds DEF TakeOverTooSoon, serverVars
<1>6. ASSUME NEW k \in DOMAIN threads, BackupService(k) PROVE RoomInv'
  <2>1. UNCHANGED <<spc, nsfd, eofs, backlog, cpc>>
    BY <1>6, ThreadSteps DEF serverVars
  <2>2. CASE BackupEnds
    BY <2>1, <2>2, RoomBackupEnds
  <2>3. CASE ~BackupEnds
    <3>1. UNCHANGED <<bpc, uds>> /\ Len(threads') = Len(threads)
      BY <1>6, <2>3, ThreadSteps DEF Goes
    <3>2. \A f \in Fds : files'[f] = files[f] \/ files'[f] = NoClient
      BY <1>6, <2>3 DEF BackupService, Begin, Enter, BackupRecv, BackupRecvEnd, Close,
                        BackupSend, TypeOK, BackupTypes
    <3>3. Cardinality(Used') <= Cardinality(Used)
      BY <3>2, UsedChanges
    <3> QED  BY <1>0, <2>1, <3>1, <3>3, RoomKept
  <2> QED  BY <2>2, <2>3
<1>7. ASSUME NEW c \in Clients, Ask(c) \/ Read(c) \/ CutOff(c) \/ Quit(c) PROVE RoomInv'
  <2>1. UNCHANGED <<spc, bpc, nsfd, uds, eofs, threads, files>>
    BY <1>7 DEF Ask, Read, CutOff, Quit, serverVars, backupVars
  <2>2. Len(backlog') \in Nat /\ Len(backlog') <= Len(backlog)
    <3>1. backlog' = backlog \/ backlog' = <<>>
      BY <1>7 DEF Ask, Read, CutOff, Quit
    <3> QED  BY <1>0, <3>1, EmptySeq
  <2>3. Cardinality(Came') = Cardinality(Came)
    <3>1. cpc[c] # "away"
      BY <1>7 DEF Ask, Read, CutOff, Quit, Connected
    <3>2. PICK p \in {"typing", "waiting", "gone", "cut off"} : cpc' = [cpc EXCEPT ![c] = p]
      BY <1>7 DEF Ask, Read, CutOff, Quit
    <3> QED  BY <3>1, <3>2, CameChanges
  <2> QED  BY <1>0, <2>1, <2>2, <2>3, RoomNumbers, RoomKept
<1>8. UNCHANGED vars => RoomInv'
  BY <1>1 DEF vars, serverVars, backupVars, socketVars
<1> QED
  BY <1>2, <1>3, <1>4, <1>5, <1>6, <1>7, <1>8, RoomStart, RoomAccept, RoomPass, RoomReadFd,
     RoomReadEnd, RoomTakeOver, RoomBackupAccept, RoomBackupCreate, RoomConnect
  DEF Next, ServerMain, BackupMain, Client

-----------------------------------------------------------------------------
(* Where a connection is *)

LEMMA SharedStays ==
  ASSUME TypeOK, PhaseInv, SharedFd, [Next]_vars
  PROVE  SharedFd'
<1>1. raced => raced'
  <2>1. BackupAccept => (raced => raced')
    BY DEF BackupAccept
  <2>2. BindFails \/ ServerMain \/ Test \/ ReadFd \/ ReadEnd \/ TakeOver \/ TakeOverTooSoon
        \/ BackupCreate \/ (\E c \in Clients : Service(c) \/ Client(c)) => raced' = raced
    BY DEF BindFails, ServerMain, Start, Accept, Pass, Create, Check, Kill, Return, Test,
           ReadFd, ReadEnd, TakeOver, TakeOverTooSoon, BackupCreate, Service, Recv, RecvEnd,
           Load, Store, Send, Client, Connect, Ask, Read, CutOff, Quit, history
  <2>3. ASSUME NEW k \in DOMAIN threads, BackupService(k) PROVE raced' = raced
    BY <2>3, ThreadSteps
  <2>4. UNCHANGED vars => raced' = raced
    BY DEF vars, history
  <2> QED  BY <2>1, <2>2, <2>3, <2>4 DEF Next, BackupMain
<1>2. eofs = 1 => UNCHANGED <<eofs, nsfd>>
  <2>1. eofs = 1 => ~ReadFd /\ ~ReadEnd
    BY DEF PhaseInv, ReadFd, ReadEnd
  <2>2. Test \/ TakeOver \/ TakeOverTooSoon \/ BackupAccept \/ BackupCreate
          => UNCHANGED <<eofs, nsfd>>
    BY DEF Test, TakeOver, TakeOverTooSoon, BackupAccept, BackupCreate
  <2>3. ASSUME NEW k \in DOMAIN threads, BackupService(k) PROVE UNCHANGED <<eofs, nsfd>>
    BY <2>3, ThreadSteps
  <2> QED  BY <2>1, <2>2, <2>3, Frames DEF Next, BackupMain, vars, backupVars
<1>3. SharedFd <=> raced \/ (eofs = 1 /\ nsfd[Len(nsfd)] \in Fds)
  BY DEF SharedFd
<1>4. CASE raced
  BY <1>1, <1>4 DEF SharedFd
<1>5. CASE eofs = 1 /\ nsfd[Len(nsfd)] \in Fds
  <2>1. eofs' = 1 /\ nsfd' = nsfd
    BY <1>2, <1>5
  <2> QED  BY <1>5, <2>1 DEF SharedFd
<1> QED  BY <1>3, <1>4, <1>5

LEMMA DeadStays ==
  ASSUME TypeOK, PhaseInv, bpc = "dead", [Next]_vars
  PROVE  bpc' = "dead"
<1>1. ~BackupMain
  BY DEF BackupMain, Test, ReadFd, ReadEnd, TakeOver, TakeOverTooSoon, BackupAccept,
         BackupCreate
<1>2. ~\E k \in DOMAIN threads : BackupService(k)
  BY ThreadsRunLate
<1> QED  BY <1>1, <1>2, Frames DEF Next, vars, backupVars

LEMMA ExcusedStays ==
  ASSUME TypeOK, PhaseInv, Excused, [Next]_vars
  PROVE  Excused'
BY SharedStays, DeadStays, NeverStays DEF Excused

LEMMA SomebodyListens ==
  ASSUME TypeOK, ListenerInv, spc # "bind", ~Excused
  PROVE  Listening
<1>1. CASE nsfd = <<>>
  <2>1. uds # <<>>
    BY <1>1 DEF ListenerInv, Excused
  <2>2. 1 \in DOMAIN uds
    BY <2>1, Beheaded DEF TypeOK, KernelTypes
  <2>3. uds[1] = Listener
    BY <1>1, <2>2 DEF ListenerInv
  <2> QED  BY <2>2, <2>3 DEF Listening, Elements
<1>2. CASE nsfd # <<>>
  <2>1. nsfd[1] = Listener /\ bpc # "dead"
    BY <1>2 DEF ListenerInv, Excused
  <2>2. 1 \in DOMAIN nsfd
    BY <1>2, Beheaded DEF TypeOK, BackupTypes
  <2> QED  BY <2>1, <2>2 DEF Listening, Elements
<1> QED  BY <1>1, <1>2

\* No connection is closed while its client is there, without an excuse.
LEMMA HeldOrExcused ==
  ASSUME TypeOK, PhaseInv, ListenerInv, PlaceInv, NEW c \in Clients, Connected(c), ~Held(c)
  PROVE  Excused
<1> SUFFICES ASSUME ~Excused PROVE FALSE
  OBVIOUS
<1>1. spc # "bind"
  BY DEF PhaseInv, Connected
<1>2. Listening
  BY <1>1, SomebodyListens
<1>3. \/ c \in Elements(backlog) \/ c \in Elements(uds)
      \/ spc = "pass" /\ cur = c
      \/ \E f \in Fds : files[f] = c
  BY DEF PlaceInv
<1> QED  BY <1>2, <1>3 DEF Held, ServerHas

Place(c) ==
  \/ c \in Elements(backlog) \/ c \in Elements(uds)
  \/ spc = "pass" /\ cur = c
  \/ \E f \in Fds : files[f] = c

LEMMA ElementsOf ==
  /\ \A q \in Seq(Clients \union {Listener}), c \in Clients \union {Listener} :
       \A d \in Clients : d \in Elements(Append(q, c)) <=> d \in Elements(q) \/ d = c
  /\ \A q \in Seq(Clients \union {Listener}) : q # <<>> =>
       \A d \in Clients : d \in Elements(q) <=> d \in Elements(Tail(q)) \/ d = Head(q)
<1>1. ASSUME NEW q \in Seq(Clients \union {Listener}), NEW c \in Clients \union {Listener},
             NEW d \in Clients
      PROVE  d \in Elements(Append(q, c)) <=> d \in Elements(q) \/ d = c
  <2>1. PICK n \in Nat : n = Len(q) /\ DOMAIN q = 1 .. n
    BY LenProperties
  <2>2. /\ DOMAIN Append(q, c) = 1 .. n + 1
        /\ \A j \in 1 .. n : Append(q, c)[j] = q[j]
        /\ Append(q, c)[n + 1] = c
    BY <2>1, Appended
  <2>3. \A j : j \in 1 .. n + 1 <=> j \in 1 .. n \/ j = n + 1
    BY <2>1
  <2> QED  BY <2>1, <2>2, <2>3 DEF Elements
<1>2. ASSUME NEW q \in Seq(Clients \union {Listener}), q # <<>>, NEW d \in Clients
      PROVE  d \in Elements(q) <=> d \in Elements(Tail(q)) \/ d = Head(q)
  <2>1. PICK n \in Nat : n = Len(q) /\ DOMAIN q = 1 .. n
    BY LenProperties
  <2>2. /\ DOMAIN Tail(q) = 1 .. n - 1 /\ 1 \in DOMAIN q /\ Head(q) = q[1]
        /\ \A j \in 1 .. n - 1 : Tail(q)[j] = q[j + 1]
    BY <1>2, <2>1, Beheaded
  <2>3. ASSUME d \in Elements(q) PROVE d \in Elements(Tail(q)) \/ d = Head(q)
    <3>1. PICK j \in 1 .. n : q[j] = d
      BY <2>1, <2>3 DEF Elements
    <3>2. CASE j = 1
      BY <2>2, <3>1, <3>2
    <3>3. CASE j # 1
      <4>1. j - 1 \in 1 .. n - 1 /\ (j - 1) + 1 = j
        BY <2>1, <3>3
      <4>2. Tail(q)[j - 1] = d
        BY <2>2, <3>1, <4>1
      <4> QED  BY <2>2, <4>1, <4>2 DEF Elements
    <3> QED  BY <3>2, <3>3
  <2>4. ASSUME d \in Elements(Tail(q)) PROVE d \in Elements(q)
    <3>1. PICK j \in 1 .. n - 1 : Tail(q)[j] = d
      BY <2>2, <2>4 DEF Elements
    <3>2. j + 1 \in 1 .. n /\ q[j + 1] = d
      BY <2>1, <2>2, <3>1
    <3> QED  BY <2>1, <3>2 DEF Elements
  <2> QED  BY <2>2, <2>3, <2>4 DEF Elements
<1> QED  BY <1>1, <1>2

LEMMA PlaceStep ==
  ASSUME TypeOK, PhaseInv, ListenerInv, AcceptInv, RoomInv, PlaceInv, OwnInv, [Next]_vars
  PROVE  PlaceInv'
<1> SUFFICES ASSUME NEW c \in Clients, Connected(c)', ~Excused' PROVE Place(c)'
  BY DEF PlaceInv, Place
<1>0. ~Excused
  BY ExcusedStays
<1>1. Connected(c) => Place(c)
  BY <1>0 DEF PlaceInv, Place
<1>2. /\ backlog \in Seq(Clients \union {Listener}) /\ uds \in Seq(Clients \union {Listener})
      /\ files \in [Fds -> Clients \union {NoClient}]
      /\ cpc \in [Clients -> {"away", "typing", "waiting", "gone", "cut off"}]
      /\ backlog # <<>> => Head(backlog) \in Clients
  <2>1. backlog \in Seq(Clients) /\ uds \in Seq(Clients \union {Listener})
    BY DEF TypeOK, KernelTypes
  <2>2. backlog \in Seq(Clients \union {Listener})
    BY <2>1, SeqMonotonic
  <2> QED  BY <2>1, <2>2, Beheaded DEF TypeOK, BackupTypes, ClientTypes
<1>3. UNCHANGED cpc => Place(c)
  BY <1>1 DEF Connected
<1>4. ASSUME UNCHANGED <<cpc, backlog, uds, files>>, spc = "pass" => spc' = "pass" /\ cur' = cur
      PROVE  Place(c)'
  BY <1>3, <1>4 DEF Place
<1>5. BindFails \/ Create \/ Check \/ Kill \/ Return => Place(c)'
  BY <1>4 DEF BindFails, Create, Check, Kill, Return, ServerEnds, backupVars, socketVars
<1>6. ASSUME Start PROVE Place(c)'
  BY <1>3, <1>6 DEF Start, PhaseInv, Connected, Place, Elements, backupVars
<1>7. ASSUME Accept PROVE Place(c)'
  <2>1. c \in Elements(backlog) => c \in Elements(backlog') \/ cur' = c
    BY <1>2, <1>7, ElementsOf DEF Accept
  <2> QED  BY <1>3, <1>7, <2>1 DEF Accept, Place, backupVars
<1>8. ASSUME Pass PROVE Place(c)'
  <2>1. cur \in Clients
    BY <1>8 DEF Pass, AcceptInv
  <2>2. c \in Elements(uds') <=> c \in Elements(uds) \/ c = cur
    BY <1>2, <1>8, <2>1, ElementsOf DEF Pass, PassFd
  <2> QED  BY <1>3, <1>8, <2>2 DEF Pass, Place, backupVars
<1>9. ASSUME NEW d \in Clients, Service(d) PROVE Place(c)'
  <2>1. UNCHANGED <<cpc, backlog, uds, files, flag>>
    BY <1>9 DEF Service, Recv, RecvEnd, Load, Store, Send, backupVars, socketVars
  <2>2. UNCHANGED <<spc, cur>> \/ spc' = "gone"
    BY <1>9 DEF Service, Recv, RecvEnd, Load, Store, Send, ServerEnds
  <2>3. spc = "pass" => spc' # "gone"
    BY <2>1 DEF PhaseInv, Excused, NeverReplaced
  <2> QED  BY <1>4, <2>1, <2>2, <2>3
<1>10. Test \/ ReadEnd \/ TakeOver \/ BackupCreate => Place(c)'
  BY <1>4 DEF Test, ReadEnd, TakeOver, BackupCreate, serverVars, socketVars
<1>11. ASSUME NEW f \in Fds, NEW d \in Clients, files[f] = NoClient,
              files' = [files EXCEPT ![f] = d]
       PROVE  (\E g \in Fds : files[g] = c) \/ d = c => \E g \in Fds : files'[g] = c
  BY <1>2, <1>11, Numbers
<1>12. ASSUME ReadFd PROVE Place(c)'
  <2>1. c \in Elements(uds) => c \in Elements(uds') \/ c = Head(uds)
    BY <1>2, <1>12, ElementsOf DEF ReadFd
  <2>2. CASE Head(uds) = Listener
    <3>1. c # Listener
      BY Numbers
    <3>2. files' = files
      BY <1>12, <2>2 DEF ReadFd
    <3> QED  BY <1>3, <1>12, <2>1, <2>2, <3>1, <3>2 DEF ReadFd, Place, serverVars
  <2>3. CASE Head(uds) # Listener
    <3>1. Head(uds) \in Clients
      <4>1. uds # <<>> /\ uds \in Seq(Clients \union {Listener})
        BY <1>2, <1>12 DEF ReadFd
      <4>2. Head(uds) \in Clients \union {Listener}
        BY <4>1, Beheaded
      <4> QED  BY <2>3, <4>2
    <3>2. /\ LowestFree \in Fds /\ files[LowestFree] = NoClient
          /\ files' = [files EXCEPT ![LowestFree] = Head(uds)]
      BY <1>12, <2>3, RoomToRead DEF ReadFd
    <3>3. (\E g \in Fds : files[g] = c) \/ Head(uds) = c => \E g \in Fds : files'[g] = c
      BY <1>11, <3>1, <3>2
    <3> QED  BY <1>3, <1>12, <2>1, <3>3 DEF ReadFd, Place, serverVars
  <2> QED  BY <2>2, <2>3
<1>13. ~BackupEnds
  BY DEF BackupEnds, Excused
<1>14. ASSUME BackupAccept PROVE Place(c)'
  <2>1. c \in Elements(backlog) => c \in Elements(backlog') \/ c = Head(backlog)
    BY <1>2, <1>14, ElementsOf DEF BackupAccept
  <2>2. /\ LowestFree \in Fds /\ files[LowestFree] = NoClient /\ Head(backlog) \in Clients
        /\ files' = [files EXCEPT ![LowestFree] = Head(backlog)]
    BY <1>2, <1>14, RoomToAccept DEF BackupAccept
  <2>3. (\E g \in Fds : files[g] = c) \/ Head(backlog) = c => \E g \in Fds : files'[g] = c
    BY <1>11, <2>2
  <2> QED  BY <1>3, <1>14, <2>1, <2>3 DEF BackupAccept, Place, serverVars
<1>15. ASSUME NEW k \in DOMAIN threads, BackupService(k) PROVE Place(c)'
  <2>1. UNCHANGED <<spc, cur, backlog, cpc, uds>>
    BY <1>13, <1>15, ThreadSteps DEF serverVars
  <2>2. CASE Close(k)
    <3>1. bpc \in {"accept", "create"} /\ ~SharedFd
      BY <1>0, ThreadsRunLate DEF Excused
    <3>2. threads[k].pc = "close"
      BY <2>2, ThreadActs
    <3>3. fin[files[threads[k].fd]] # "no"
      BY <3>1, <3>2 DEF OwnInv, FdIsOpen
    <3>4. fin[c] = "no"
      BY <2>1 DEF AcceptInv, Connected
    <3>5. files' = [files EXCEPT ![threads[k].fd] = NoClient]
      BY <2>2 DEF Close
    <3>6. \A f \in Fds : files[f] = c => files'[f] = c
      BY <1>2, <3>3, <3>4, <3>5
    <3> QED  BY <1>3, <2>1, <3>6 DEF Place
  <2>3. CASE ~Close(k)
    <3>1. files' = files
      BY <1>13, <1>15, <2>3 DEF BackupService, Begin, Enter, BackupRecv, BackupRecvEnd,
                                BackupSend
    <3> QED  BY <1>4, <2>1, <3>1
  <2> QED  BY <2>2, <2>3
<1>16. ASSUME NEW d \in Clients, Client(d) PROVE Place(c)'
  <2>1. UNCHANGED <<spc, cur, files, uds>>
    BY <1>16 DEF Client, Connect, Ask, Read, CutOff, Quit, serverVars, backupVars
  <2>2. CASE Connect(d)
    <3>1. CASE Listening
      <4>1. backlog' = Append(backlog, d)
        BY <2>2, <3>1 DEF Connect
      <4>2. c \in Elements(backlog') <=> c \in Elements(backlog) \/ c = d
        BY <1>2, <4>1, ElementsOf
      <4>3. c # d => Connected(c)
        BY <1>2, <2>2 DEF Connect, Connected
      <4> QED  BY <1>1, <2>1, <4>2, <4>3 DEF Place
    <3>2. CASE ~Listening
      <4>1. backlog' = backlog /\ cpc' = [cpc EXCEPT ![d] = "gone"]
        BY <2>2, <3>2 DEF Connect
      <4>2. Connected(c)
        BY <1>2, <4>1 DEF Connected
      <4> QED  BY <1>1, <2>1, <4>1, <4>2 DEF Place
    <3> QED  BY <3>1, <3>2
  <2>3. CASE Ask(d) \/ Read(d) \/ Quit(d)
    <3>1. backlog' = backlog /\ Connected(c)
      BY <1>2, <2>3 DEF Ask, Read, Quit, Connected
    <3> QED  BY <1>1, <2>1, <3>1 DEF Place
  <2>4. CASE CutOff(d)
    <3>1. Connected(c) /\ Connected(d)
      BY <1>2, <2>4 DEF CutOff, Connected
    <3>2. spc # "bind"
      BY <3>1 DEF PhaseInv, Connected
    <3>3. backlog' = backlog
      BY <1>0, <2>4, <3>2, SomebodyListens DEF CutOff
    <3> QED  BY <1>1, <2>1, <3>1, <3>3 DEF Place
  <2> QED  BY <1>16, <2>2, <2>3, <2>4 DEF Client
<1>17. UNCHANGED vars => Place(c)'
  BY <1>4 DEF vars, serverVars, backupVars, socketVars
<1> QED
  BY <1>5, <1>6, <1>7, <1>8, <1>9, <1>10, <1>12, <1>13, <1>14, <1>15, <1>16, <1>17
  DEF Next, ServerMain, BackupMain, TakeOverTooSoon

-----------------------------------------------------------------------------
(* Which thread has which descriptor *)

LEMMA ReadStep ==
  ASSUME TypeOK, PhaseInv, ListenerInv, RoomInv, ReadInv, [Next]_vars
  PROVE  ReadInv'
<1>0. PICK n \in Nat, e \in {0, 1} : n = Len(nsfd) /\ e = eofs
  BY EmptyIsZero DEF TypeOK, BackupTypes
<1>1. Read0 = 2 .. n - e /\ nsfd \in Seq(Fds \union {Listener, NoFd})
      /\ files \in [Fds -> Clients \union {NoClient}] /\ (nsfd = <<>> <=> n = 0)
  BY <1>0, EmptyIsZero DEF Read0, TypeOK, BackupTypes
<1>2. ASSUME UNCHANGED <<nsfd, eofs, files>>, bpc' \in {"test", "read"} => bpc \in {"test", "read"}
      PROVE  ReadInv'
  BY <1>2 DEF ReadInv, Read0
<1>3. ASSUME ReadFd PROVE ReadInv'
  <2>1. uds # <<>> /\ bpc = "read" /\ e = 0 /\ eofs' = 0
    BY <1>0, <1>3 DEF ReadFd, PhaseInv
  <2>2. CASE Head(uds) = Listener
    <3>1. nsfd = <<>> /\ n = 0
      <4>1. Head(uds) = uds[1] /\ 1 \in DOMAIN uds
        BY <2>1, Beheaded DEF TypeOK, KernelTypes
      <4> QED  BY <1>1, <2>2, <4>1 DEF ListenerInv
    <3>2. nsfd' = <<Listener>> /\ files' = files
      BY <1>3, <2>2 DEF ReadFd
    <3>3. Read0 = {} /\ Read0' = {}
      <4>1. Len(nsfd') = 1
        BY <3>2
      <4>2. Read0' = 2 .. 1 - 0
        BY <2>1, <4>1 DEF Read0
      <4> QED  BY <1>1, <2>1, <3>1, <4>2
    <3> QED  BY <2>1, <3>2, <3>3 DEF ReadInv
  <2>3. CASE Head(uds) # Listener
    <3> DEFINE low == LowestFree
    <3>1. low \in Fds /\ files[low] = NoClient /\ n # 0 /\ Head(uds) \in Clients
      <4>1. Head(uds) \in Clients \union {Listener}
        BY <2>1, Beheaded DEF TypeOK, KernelTypes
      <4> QED  BY <1>1, <2>1, <2>3, <4>1, RoomToRead
    <3>2. nsfd' = Append(nsfd, low) /\ files' = [files EXCEPT ![low] = Head(uds)]
      BY <1>3, <2>3 DEF ReadFd
    <3>3. Head(uds) # NoClient
      BY <3>1, Numbers
    <3> HIDE DEF low
    <3>4. /\ Len(nsfd') = n + 1 /\ nsfd'[n + 1] = low
          /\ \A j \in 1 .. n : nsfd'[j] = nsfd[j]
      BY <1>0, <1>1, <3>1, <3>2, Appended
    <3>5. Read0 = 2 .. n /\ Read0' = 2 .. n + 1
      BY <1>1, <2>1, <3>4 DEF Read0
    <3>6. ASSUME NEW j \in Read0'
          PROVE  \/ j \in Read0 /\ nsfd'[j] = nsfd[j] /\ nsfd[j] # low
                 \/ j = n + 1 /\ nsfd'[j] = low
      <4>1. j \in 2 .. n \/ j = n + 1
        BY <1>0, <3>5
      <4>2. j \in 2 .. n => nsfd'[j] = nsfd[j] /\ nsfd[j] # low
        BY <1>0, <2>1, <3>1, <3>4, <3>5 DEF ReadInv
      <4> QED  BY <3>4, <3>5, <4>1, <4>2
    <3>7. ASSUME NEW j \in Read0' PROVE nsfd'[j] \in Fds /\ files'[nsfd'[j]] # NoClient
      <4>1. CASE j \in Read0 /\ nsfd'[j] = nsfd[j] /\ nsfd[j] # low
        <5>1. nsfd[j] \in Fds /\ files[nsfd[j]] # NoClient
          BY <2>1, <4>1 DEF ReadInv
        <5>2. files'[nsfd[j]] = files[nsfd[j]]
          BY <1>1, <3>1, <3>2, <4>1, <5>1
        <5> QED  BY <4>1, <5>1, <5>2
      <4>2. CASE nsfd'[j] = low
        <5>1. files'[low] = Head(uds)
          BY <1>1, <3>1, <3>2
        <5> QED  BY <3>1, <3>3, <4>2, <5>1
      <4> QED  BY <3>6, <4>1, <4>2
    <3>8. \A j, k \in Read0' : nsfd'[j] = nsfd'[k] => j = k
      BY <2>1, <3>6 DEF ReadInv
    <3>9. ASSUME NEW f \in Fds, files'[f] # NoClient PROVE \E j \in Read0' : nsfd'[j] = f
      <4>1. CASE f = low
        <5>1. n + 1 \in Read0'
          BY <1>0, <3>1, <3>5
        <5> QED  BY <3>4, <4>1, <5>1
      <4>2. CASE f # low
        <5>1. files[f] # NoClient
          BY <1>1, <3>2, <3>9, <4>2
        <5>2. PICK j \in Read0 : nsfd[j] = f
          BY <2>1, <5>1 DEF ReadInv
        <5>3. j \in Read0' /\ nsfd'[j] = nsfd[j]
          BY <1>0, <3>4, <3>5
        <5> QED  BY <5>2, <5>3
      <4> QED  BY <4>1, <4>2
    <3> QED  BY <3>7, <3>8, <3>9 DEF ReadInv
  <2> QED  BY <2>2, <2>3
<1>4. ASSUME ReadEnd PROVE ReadInv'
  <2>1. bpc = "read" /\ e = 0 /\ eofs' = 1 /\ files' = files
    BY <1>0, <1>4 DEF ReadEnd
  <2>2. PICK f \in Fds \union {NoFd} : nsfd' = Append(nsfd, f)
    BY <1>4 DEF ReadEnd
  <2>3. Len(nsfd') = n + 1 /\ \A j \in 1 .. n : nsfd'[j] = nsfd[j]
    BY <1>0, <1>1, <2>2, Appended
  <2>4. Read0 = 2 .. n /\ Read0' = 2 .. (n + 1) - 1 /\ (n + 1) - 1 = n
    BY <1>0, <1>1, <2>1, <2>3 DEF Read0
  <2>5. Read0' = Read0 /\ \A j \in Read0 : nsfd'[j] = nsfd[j]
    BY <1>0, <2>3, <2>4
  <2> QED  BY <2>1, <2>5 DEF ReadInv
<1>5. BindFails \/ ServerMain \/ (\E c \in Clients : Service(c) \/ Client(c)) => ReadInv'
  BY <1>2, Frames
<1>6. Test => ReadInv'
  BY <1>2 DEF Test
<1>7. TakeOver \/ TakeOverTooSoon \/ BackupAccept \/ BackupCreate => ReadInv'
  BY DEF TakeOver, TakeOverTooSoon, BackupEnds, BackupAccept, BackupCreate, ReadInv
<1>8. ASSUME NEW k \in DOMAIN threads, BackupService(k) PROVE ReadInv'
  <2>1. bpc' \notin {"test", "read"}
    BY <1>8, ThreadSteps, ThreadsRunLate DEF BackupEnds
  <2> QED  BY <2>1 DEF ReadInv
<1>9. UNCHANGED vars => ReadInv'
  BY <1>2 DEF vars, backupVars
<1> QED
  BY <1>3, <1>4, <1>5, <1>6, <1>7, <1>8, <1>9 DEF Next, BackupMain

\* A connection that the client has closed stays closed.
LEMMA ClosedStays ==
  ASSUME TypeOK, NEW d \in Clients, fin[d] # "no", [Next]_vars
  PROVE  fin'[d] # "no"
<1>0. fin \in [Clients -> {"no", "fin", "rst", "reset"}]
  BY DEF TypeOK, KernelTypes
<1>1. ASSUME NEW c, NEW g, SendTo(c, g) \/ RecvRequest(c) \/ RecvError(c)
      PROVE  fin'[d] # "no"
  BY <1>0, <1>1 DEF SendTo, RecvRequest, RecvError
<1>2. BindFails \/ ServerMain \/ BackupMain => fin' = fin
  BY DEF BindFails, ServerMain, Start, Accept, Pass, Create, Check, Kill, Return, BackupMain,
         Test, ReadFd, ReadEnd, TakeOver, TakeOverTooSoon, BackupAccept, BackupCreate,
         socketVars
<1>3. ASSUME NEW c \in Clients, Service(c) PROVE fin'[d] # "no"
  BY <1>1, <1>3 DEF Service, Recv, RecvEnd, Load, Store, Send, socketVars
<1>4. ASSUME NEW k \in DOMAIN threads, BackupService(k) PROVE fin'[d] # "no"
  <2>1. ASSUME Begin(k) \/ Enter(k) \/ BackupRecvEnd(k) \/ Close(k) PROVE fin' = fin
    BY <2>1 DEF Begin, Enter, BackupRecvEnd, Close, socketVars
  <2>2. BackupRecv(k) => fin'[d] # "no"
    BY <1>1 DEF BackupRecv
  <2>3. BackupSend(k) => fin'[d] # "no"
    BY <1>1 DEF BackupSend
  <2> QED  BY <1>4, <2>1, <2>2, <2>3 DEF BackupService
<1>5. ASSUME NEW c \in Clients, Client(c) PROVE fin'[d] # "no"
  BY <1>0, <1>5 DEF Client, Connect, Ask, Read, CutOff, Quit
<1> QED  BY <1>2, <1>3, <1>4, <1>5 DEF Next, vars, socketVars

\* The four parts of OwnInv, and what the other invariants say of a thread.
Owned == FdIsOpen /\ OnePerFd /\ EveryFdRuns /\ TopIsFresh

Closed == \A d \in Clients : fin[d] # "no" => fin'[d] # "no"

LEMMA ThreadFacts ==
  ASSUME TypeOK, FileInv
  PROVE  /\ files \in [Fds -> Clients \union {NoClient}] /\ NoFd \notin Fds
         /\ \A k \in DOMAIN threads :
              /\ threads[k].fd \in Fds \union {NoFd}
              /\ threads[k].pc \in {"recv", "send", "close"} => threads[k].fd \in Fds
BY ThreadTypes, Numbers DEF TypeOK, BackupTypes, FileInv

LEMMA OwnKept ==
  ASSUME TypeOK, FileInv, Owned, Closed, UNCHANGED <<bpc, files, top, threads>>
  PROVE  Owned'
<1>1. FdIsOpen'
  <2> SUFFICES ASSUME NEW k \in DOMAIN threads
               PROVE  threads[k].pc = "close" => fin'[files[threads[k].fd]] # "no"
    BY DEF Owned, FdIsOpen, Runs
  <2>1. ASSUME threads[k].pc = "close" PROVE files[threads[k].fd] \in Clients
    BY <2>1, ThreadFacts DEF Owned, FdIsOpen, Runs
  <2> QED  BY <2>1 DEF Owned, FdIsOpen, Closed
<1>2. OnePerFd' /\ EveryFdRuns' /\ TopIsFresh'
  BY DEF Owned, OnePerFd, EveryFdRuns, TopIsFresh, Runs, Fresh, Topped
<1> QED  BY <1>1, <1>2 DEF Owned

\* A step of a thread that goes on with its descriptor.
LEMMA OwnRuns ==
  ASSUME TypeOK, FileInv, Owned, Closed, UNCHANGED <<bpc, files, top>>,
         NEW k \in DOMAIN threads, Runs(k),
         NEW p \in {"loop", "recv", "send", "close"}, Goes(k, p, threads[k].fd),
         p \in {"recv", "send"} => files[threads[k].fd] = threads'[k].file,
         p = "close" => fin'[files[threads[k].fd]] # "no"
  PROVE  Owned'
<1>1. /\ DOMAIN threads' = DOMAIN threads
      /\ threads'[k].pc = p /\ threads'[k].fd = threads[k].fd
      /\ \A j \in DOMAIN threads : j # k => threads'[j] = threads[j]
  BY DEF Goes
<1>2. \A j \in DOMAIN threads : /\ threads'[j].fd = threads[j].fd
                                /\ Runs(j)' <=> Runs(j)
                                /\ Fresh(j)' <=> Fresh(j)
  BY <1>1 DEF Runs, Fresh
<1>3. FdIsOpen'
  <2> SUFFICES ASSUME NEW j \in DOMAIN threads
               PROVE  /\ Runs(j) /\ threads[j].fd # NoFd => files[threads[j].fd] # NoClient
                      /\ threads'[j].pc \in {"recv", "send"}
                           => files[threads[j].fd] = threads'[j].file
                      /\ threads'[j].pc = "close" => fin'[files[threads[j].fd]] # "no"
    BY <1>1, <1>2 DEF FdIsOpen
  <2>1. Runs(j) /\ threads[j].fd # NoFd => files[threads[j].fd] # NoClient
    BY DEF Owned, FdIsOpen
  <2>2. threads'[j].pc \in {"recv", "send"} => files[threads[j].fd] = threads'[j].file
    BY <1>1 DEF Owned, FdIsOpen
  <2>3. ASSUME j # k, threads[j].pc = "close" PROVE fin'[files[threads[j].fd]] # "no"
    <3>1. files[threads[j].fd] \in Clients
      BY <2>3, ThreadFacts DEF Owned, FdIsOpen, Runs
    <3> QED  BY <2>3, <3>1 DEF Owned, FdIsOpen, Closed
  <2> QED  BY <1>1, <2>1, <2>2, <2>3
<1>4. OnePerFd' /\ EveryFdRuns'
  BY <1>1, <1>2 DEF Owned, OnePerFd, EveryFdRuns, Topped
<1>5. TopIsFresh'
  BY <1>1, <1>2 DEF Owned, TopIsFresh, Topped
<1> QED  BY <1>3, <1>4, <1>5 DEF Owned

LEMMA OwnBegin ==
  ASSUME TypeOK, FileInv, Owned, Closed, NEW k \in DOMAIN threads, Begin(k)
  PROVE  Owned'
<1>1. UNCHANGED <<bpc, files, top, fin>>
  BY DEF Begin, socketVars
<1>2. Goes(k, "loop", top) /\ Fresh(k)
  BY ThreadActs DEF Fresh
<1>3. /\ DOMAIN threads' = DOMAIN threads
      /\ threads'[k].pc = "loop" /\ threads'[k].fd = top
      /\ \A j \in DOMAIN threads : j # k => threads'[j] = threads[j]
  BY <1>2 DEF Goes
<1>4. /\ top \in Fds /\ files[top] # NoClient /\ bpc # "create"
      /\ \A j \in DOMAIN threads : Runs(j) => threads[j].fd # top
      /\ \A j \in DOMAIN threads : Fresh(j) => j = k
  BY <1>2 DEF Owned, TopIsFresh, Topped
<1>5. /\ Runs(k)' /\ ~Fresh(k)' /\ ~Runs(k)
      /\ \A j \in DOMAIN threads : j # k => /\ Runs(j)' <=> Runs(j)
                                            /\ Fresh(j)' <=> Fresh(j)
  BY <1>2, <1>3 DEF Runs, Fresh
<1>6. FdIsOpen'
  <2> SUFFICES ASSUME NEW j \in DOMAIN threads
               PROVE  /\ Runs(j)' /\ threads'[j].fd # NoFd => files[threads'[j].fd] # NoClient
                      /\ threads'[j].pc \in {"recv", "send"}
                           => files[threads'[j].fd] = threads'[j].file
                      /\ threads'[j].pc = "close" => fin[files[threads'[j].fd]] # "no"
    BY <1>1, <1>3 DEF FdIsOpen
  <2> QED  BY <1>3, <1>4, <1>5 DEF Owned, FdIsOpen
<1>7. OnePerFd'
  BY <1>3, <1>4, <1>5 DEF Owned, OnePerFd
<1>8. EveryFdRuns'
  BY <1>1, <1>3, <1>5 DEF Owned, EveryFdRuns
<1>9. TopIsFresh'
  BY <1>1, <1>3, <1>4, <1>5 DEF TopIsFresh, Topped
<1> QED  BY <1>6, <1>7, <1>8, <1>9 DEF Owned

LEMMA OwnClose ==
  ASSUME TypeOK, FileInv, Owned, Closed, NEW k \in DOMAIN threads, Close(k)
  PROVE  Owned'
<1> DEFINE d == threads[k].fd
<1>1. UNCHANGED <<bpc, top, fin>> /\ files' = [files EXCEPT ![d] = NoClient]
  BY DEF Close, socketVars
<1>2. Goes(k, "done", d) /\ threads[k].pc = "close"
  BY ThreadActs
<1>3. d \in Fds /\ d # NoFd /\ Runs(k)
  BY <1>2, ThreadFacts DEF Runs
<1>4. /\ DOMAIN threads' = DOMAIN threads /\ threads'[k].pc = "done"
      /\ \A j \in DOMAIN threads : j # k => threads'[j] = threads[j]
  BY <1>2 DEF Goes
<1>5. /\ ~Runs(k)' /\ ~Fresh(k)' /\ ~Fresh(k)
      /\ \A j \in DOMAIN threads : j # k => /\ Runs(j)' <=> Runs(j)
                                            /\ Fresh(j)' <=> Fresh(j)
  BY <1>2, <1>4 DEF Runs, Fresh
<1>6. \A j \in DOMAIN threads : j # k /\ Runs(j) => threads[j].fd # d
  BY <1>3 DEF Owned, OnePerFd
<1>7. files'[d] = NoClient /\ \A f \in Fds : f # d => files'[f] = files[f]
  BY <1>1, <1>3, ThreadFacts
<1> HIDE DEF d
<1>8. FdIsOpen'
  <2> SUFFICES ASSUME NEW j \in DOMAIN threads, j # k
               PROVE  /\ Runs(j) /\ threads[j].fd # NoFd => files'[threads[j].fd] # NoClient
                      /\ threads[j].pc \in {"recv", "send"}
                           => files'[threads[j].fd] = threads[j].file
                      /\ threads[j].pc = "close" => fin[files'[threads[j].fd]] # "no"
    BY <1>1, <1>4, <1>5 DEF FdIsOpen
  <2>1. ASSUME Runs(j), threads[j].fd # NoFd PROVE files'[threads[j].fd] = files[threads[j].fd]
    BY <1>6, <1>7, <2>1, ThreadFacts
  <2>2. threads[j].pc \in {"recv", "send", "close"} => Runs(j) /\ threads[j].fd # NoFd
    BY ThreadFacts DEF Runs
  <2> QED  BY <2>1, <2>2 DEF Owned, FdIsOpen
<1>9. OnePerFd'
  BY <1>4, <1>5 DEF Owned, OnePerFd
<1>10. EveryFdRuns'
  <2> SUFFICES ASSUME NEW f \in Fds, files'[f] # NoClient
               PROVE  \/ \E j \in DOMAIN threads' : Runs(j)' /\ threads'[j].fd = f
                      \/ Topped' /\ f = top
    BY <1>1 DEF EveryFdRuns
  <2>1. f # d /\ files[f] # NoClient
    BY <1>7
  <2>2. CASE \E j \in DOMAIN threads : Runs(j) /\ threads[j].fd = f
    BY <1>4, <1>5, <2>1, <2>2 DEF d
  <2>3. CASE Topped /\ f = top
    BY <1>1, <1>4, <1>5, <2>3 DEF Topped
  <2> QED  BY <2>1, <2>2, <2>3 DEF Owned, EveryFdRuns
<1>11. TopIsFresh'
  <2>1. Topped' => Topped
    BY <1>1, <1>4, <1>5 DEF Topped
  <2>2. ASSUME Topped
        PROVE  /\ top \in Fds /\ files'[top] # NoClient
               /\ \A j \in DOMAIN threads : Runs(j) => threads[j].fd # top
    <3>1. /\ top \in Fds /\ files[top] # NoClient
          /\ \A j \in DOMAIN threads : Runs(j) => threads[j].fd # top
      BY <2>2 DEF Owned, TopIsFresh
    <3>2. top # d
      BY <1>3, <3>1 DEF d
    <3> QED  BY <1>7, <3>1, <3>2
  <2>3. /\ \A i, j \in DOMAIN threads' : Fresh(i)' /\ Fresh(j)' => i = j
        /\ bpc' = "create" => \A j \in DOMAIN threads' : ~Fresh(j)'
    BY <1>1, <1>4, <1>5 DEF Owned, TopIsFresh
  <2>4. Topped' => /\ top' \in Fds /\ files'[top'] # NoClient
                   /\ \A j \in DOMAIN threads' : Runs(j)' => threads'[j].fd # top'
    BY <1>1, <1>4, <1>5, <2>1, <2>2
  <2> QED  BY <2>3, <2>4 DEF TopIsFresh
<1> QED  BY <1>8, <1>9, <1>10, <1>11 DEF Owned

LEMMA OwnTakeOver ==
  ASSUME TypeOK, PhaseInv, ListenerInv, ReadInv, TakeOver, ~SharedFd
  PROVE  Owned'
<1>0. PICK n \in Nat \ {0}, e \in {0, 1} : n = Len(nsfd) /\ e = eofs
  BY TakenOver DEF TypeOK, BackupTypes
<1>1. /\ UNCHANGED <<files, top>> /\ bpc' = "accept" /\ bpc = "test"
      /\ DOMAIN threads' = 1 .. n - 1
      /\ \A j \in 1 .. n - 1 : /\ nsfd[j + 1] \in Fds \union {NoFd}
                               /\ threads'[j].pc = "loop" /\ threads'[j].fd = nsfd[j + 1]
  BY <1>0, TakenOver DEF TakeOver
<1>2. Read0 = 2 .. n - e
  BY <1>0 DEF Read0
<1>3. ASSUME NEW j \in 1 .. n - 1, threads'[j].fd # NoFd
      PROVE  j + 1 \in Read0
  <2>1. j + 1 \in 2 .. n - e \/ (e = 1 /\ j + 1 = n)
    BY <1>0
  <2>2. ~(e = 1 /\ j + 1 = n)
    <3>1. ASSUME e = 1, j + 1 = n PROVE FALSE
      <4>1. nsfd[n] \in Fds
        BY <1>1, <1>3, <3>1
      <4> QED  BY <1>0, <3>1, <4>1 DEF SharedFd
    <3> QED  BY <3>1
  <2> QED  BY <1>2, <2>1, <2>2
<1>4. /\ \A j \in Read0 : nsfd[j] \in Fds /\ files[nsfd[j]] # NoClient
      /\ \A j, k \in Read0 : nsfd[j] = nsfd[k] => j = k
      /\ \A f \in Fds : files[f] # NoClient => \E j \in Read0 : nsfd[j] = f
  BY <1>1 DEF ReadInv
<1>5. \A j \in DOMAIN threads' : Runs(j)' /\ ~Fresh(j)'
  BY <1>1 DEF Runs, Fresh
<1>6. FdIsOpen'
  BY <1>1, <1>3, <1>4 DEF FdIsOpen
<1>7. OnePerFd'
  <2> SUFFICES ASSUME NEW j \in 1 .. n - 1, NEW k \in 1 .. n - 1,
                      threads'[j].fd = threads'[k].fd, threads'[j].fd # NoFd
               PROVE  j = k
    BY <1>1 DEF OnePerFd
  <2>1. j + 1 \in Read0 /\ k + 1 \in Read0 /\ nsfd[j + 1] = nsfd[k + 1]
    BY <1>1, <1>3
  <2>2. j + 1 = k + 1
    BY <1>4, <2>1
  <2> QED  BY <1>0, <2>2
<1>8. EveryFdRuns'
  <2> SUFFICES ASSUME NEW f \in Fds, files[f] # NoClient
               PROVE  \E j \in DOMAIN threads' : Runs(j)' /\ threads'[j].fd = f
    BY <1>1 DEF EveryFdRuns
  <2>1. PICK i \in Read0 : nsfd[i] = f
    BY <1>4
  <2>2. i - 1 \in 1 .. n - 1 /\ (i - 1) + 1 = i
    BY <1>0, <1>2
  <2>3. threads'[i - 1].fd = f /\ Runs(i - 1)'
    BY <1>1, <2>1, <2>2 DEF Runs
  <2> QED  BY <1>1, <2>2, <2>3
<1>9. TopIsFresh'
  BY <1>1, <1>5 DEF TopIsFresh, Topped
<1> QED  BY <1>6, <1>7, <1>8, <1>9 DEF Owned

LEMMA OwnAccept ==
  ASSUME TypeOK, FileInv, RoomInv, Owned, BackupAccept, ~raced'
  PROVE  Owned'
<1> DEFINE low == LowestFree
<1>1. low \in Fds /\ files[low] = NoClient /\ Head(backlog) \in Clients
  BY RoomToAccept, Beheaded DEF BackupAccept, TypeOK, KernelTypes
<1>2. Head(backlog) # NoClient
  BY <1>1, Numbers
<1>3. /\ UNCHANGED <<threads, fin>> /\ bpc = "accept" /\ bpc' = "create" /\ top' = low
      /\ files' = [files EXCEPT ![low] = Head(backlog)]
  BY DEF BackupAccept
<1>4. \A k \in DOMAIN threads : ~Fresh(k)
  BY DEF BackupAccept, Fresh
<1> HIDE DEF low
<1>5. files'[low] # NoClient /\ \A f \in Fds : f # low => files'[f] = files[f]
  BY <1>1, <1>2, <1>3, ThreadFacts
<1>6. ASSUME NEW k \in DOMAIN threads, Runs(k) PROVE threads[k].fd # low
  BY <1>1, <1>6, ThreadFacts DEF Owned, FdIsOpen
<1>7. ~Topped /\ Topped'
  BY <1>3, <1>4 DEF Topped
<1>8. FdIsOpen'
  <2> SUFFICES ASSUME NEW j \in DOMAIN threads
               PROVE  /\ Runs(j) /\ threads[j].fd # NoFd => files'[threads[j].fd] # NoClient
                      /\ threads[j].pc \in {"recv", "send"}
                           => files'[threads[j].fd] = threads[j].file
                      /\ threads[j].pc = "close" => fin[files'[threads[j].fd]] # "no"
    BY <1>3 DEF FdIsOpen, Runs
  <2>1. ASSUME Runs(j), threads[j].fd # NoFd PROVE files'[threads[j].fd] = files[threads[j].fd]
    BY <1>5, <1>6, <2>1, ThreadFacts
  <2>2. threads[j].pc \in {"recv", "send", "close"} => Runs(j) /\ threads[j].fd # NoFd
    BY ThreadFacts DEF Runs
  <2> QED  BY <2>1, <2>2 DEF Owned, FdIsOpen
<1>9. OnePerFd'
  BY <1>3 DEF Owned, OnePerFd, Runs
<1>10. EveryFdRuns'
  <2> SUFFICES ASSUME NEW f \in Fds, files'[f] # NoClient, f # low
               PROVE  \E k \in DOMAIN threads : Runs(k) /\ threads[k].fd = f
    BY <1>3, <1>7 DEF EveryFdRuns, Runs
  <2> QED  BY <1>5, <1>7 DEF Owned, EveryFdRuns
<1>11. TopIsFresh'
  BY <1>1, <1>3, <1>4, <1>5, <1>6 DEF TopIsFresh, Fresh, Runs
<1> QED  BY <1>8, <1>9, <1>10, <1>11 DEF Owned

LEMMA OwnCreate ==
  ASSUME TypeOK, FileInv, Owned, BackupCreate
  PROVE  Owned'
<1>1. UNCHANGED <<files, top, fin>> /\ bpc = "create" /\ bpc' = "accept"
  BY DEF BackupCreate, socketVars
<1>2. PICK n \in Nat : n = Len(threads) /\ DOMAIN threads = 1 .. n
  BY ThreadTypes
<1>3. /\ DOMAIN threads' = 1 .. n + 1
      /\ threads'[n + 1].pc = "new"
      /\ \A j \in 1 .. n : threads'[j] = threads[j]
  <2>1. threads' = Append(threads, Thread("new", NoFd))
    BY DEF BackupCreate, NewThread
  <2>2. Thread("new", NoFd) \in ThreadRecord /\ Thread("new", NoFd).pc = "new"
    BY ThreadIsOne DEF ThreadStates
  <2> QED  BY <1>2, <2>1, <2>2, Appended, ThreadTypes
<1>4. \A j : j \in 1 .. n + 1 <=> j \in 1 .. n \/ j = n + 1
  BY <1>2
<1>5. n + 1 \notin 1 .. n /\ n + 1 \in 1 .. n + 1
  BY <1>2
<1>6. /\ ~Runs(n + 1)' /\ Fresh(n + 1)'
      /\ \A j \in 1 .. n : /\ Runs(j)' <=> Runs(j)
                           /\ ~Fresh(j)' /\ threads'[j] = threads[j]
  BY <1>1, <1>2, <1>3 DEF Owned, TopIsFresh, Runs, Fresh
<1>7. Topped /\ Topped'
  BY <1>1, <1>3, <1>5, <1>6 DEF Topped
<1>8. FdIsOpen'
  <2> SUFFICES ASSUME NEW j \in 1 .. n
               PROVE  /\ Runs(j) /\ threads[j].fd # NoFd => files[threads[j].fd] # NoClient
                      /\ threads[j].pc \in {"recv", "send"}
                           => files[threads[j].fd] = threads[j].file
                      /\ threads[j].pc = "close" => fin[files[threads[j].fd]] # "no"
    BY <1>1, <1>3, <1>4, <1>6 DEF FdIsOpen
  <2> QED  BY <1>2 DEF Owned, FdIsOpen
<1>9. OnePerFd'
  BY <1>2, <1>3, <1>4, <1>6 DEF Owned, OnePerFd
<1>10. EveryFdRuns'
  <2> SUFFICES ASSUME NEW f \in Fds, files[f] # NoClient, f # top
               PROVE  \E j \in DOMAIN threads' : Runs(j)' /\ threads'[j].fd = f
    BY <1>1, <1>7 DEF EveryFdRuns
  <2>1. PICK k \in DOMAIN threads : Runs(k) /\ threads[k].fd = f
    BY DEF Owned, EveryFdRuns
  <2> QED  BY <1>2, <1>3, <1>4, <1>6, <2>1
<1>11. TopIsFresh'
  BY <1>1, <1>2, <1>3, <1>4, <1>6, <1>7 DEF Owned, TopIsFresh
<1> QED  BY <1>8, <1>9, <1>10, <1>11 DEF Owned

LEMMA OwnStep ==
  ASSUME TypeOK, PhaseInv, ListenerInv, AcceptInv, FileInv, RoomInv, ReadInv, OwnInv,
         [Next]_vars
  PROVE  OwnInv'
<1> SUFFICES ASSUME bpc' \in {"accept", "create"}, ~SharedFd' PROVE Owned'
  BY DEF OwnInv, Owned
<1>0. ~SharedFd /\ Closed
  BY SharedStays, ClosedStays DEF Closed
<1>1. bpc \in {"accept", "create"} => Owned
  BY <1>0 DEF OwnInv, Owned
<1>2. ~BackupEnds
  BY DEF BackupEnds
<1>3. UNCHANGED <<bpc, files, top, threads>> => Owned'
  BY <1>0, <1>1, OwnKept
<1>4. BindFails \/ ServerMain \/ (\E c \in Clients : Service(c) \/ Client(c)) => Owned'
  BY <1>3, Frames
<1>5. ~Test /\ ~ReadFd /\ ~ReadEnd
  BY DEF Test, ReadFd, ReadEnd
<1>6. TakeOver => Owned'
  BY <1>0, OwnTakeOver
<1>7. ~TakeOverTooSoon
  BY <1>2 DEF TakeOverTooSoon
<1>8. ASSUME BackupAccept PROVE Owned'
  <2>1. ~raced'
    BY DEF SharedFd
  <2> QED  BY <1>1, <1>8, <2>1, OwnAccept DEF BackupAccept
<1>9. BackupCreate => Owned'
  BY <1>1, OwnCreate DEF BackupCreate
<1>10. ASSUME NEW k \in DOMAIN threads, BackupService(k) PROVE Owned'
  <2>1. Owned
    BY <1>1, ThreadsRunLate
  <2>2. Begin(k) => Owned'
    BY <1>0, <2>1, OwnBegin
  <2>3. Close(k) => Owned'
    BY <1>0, <2>1, OwnClose
  <2>4. ASSUME Enter(k) PROVE Owned'
    <3>1. UNCHANGED <<bpc, files, top>>
      BY <2>4 DEF Enter
    <3> QED  BY <1>0, <2>1, <2>4, <3>1, OwnRuns, ThreadActs DEF Runs
  <2>5. ASSUME BackupRecv(k) PROVE Owned'
    <3>1. UNCHANGED <<bpc, files, top>>
      BY <2>5 DEF BackupRecv
    <3>2. threads[k].pc = "recv" /\ threads'[k].file = threads[k].file
      BY <2>5, ThreadActs
    <3>3. files[threads[k].fd] = threads[k].file
      BY <2>1, <3>2 DEF Owned, FdIsOpen
    <3> QED  BY <1>0, <2>1, <2>5, <3>1, <3>2, <3>3, OwnRuns, ThreadActs DEF Runs
  <2>6. ASSUME BackupRecvEnd(k) PROVE Owned'
    <3>1. UNCHANGED <<bpc, files, top, fin>> /\ fin[threads[k].file] # "no"
      BY <2>6 DEF BackupRecvEnd, AtEnd, socketVars
    <3>2. threads[k].pc = "recv"
      BY <2>6, ThreadActs
    <3>3. files[threads[k].fd] = threads[k].file
      BY <2>1, <3>2 DEF Owned, FdIsOpen
    <3> QED  BY <1>0, <2>1, <2>6, <3>1, <3>2, <3>3, OwnRuns, ThreadActs DEF Runs
  <2>7. ASSUME BackupSend(k) PROVE Owned'
    <3>1. UNCHANGED <<bpc, files, top>> /\ Again(k)
      BY <1>2, <2>7 DEF BackupSend
    <3> QED  BY <1>0, <2>1, <3>1, OwnRuns, ThreadActs DEF Runs
  <2> QED  BY <1>10, <2>2, <2>3, <2>4, <2>5, <2>6, <2>7 DEF BackupService
<1>11. UNCHANGED vars => Owned'
  BY <1>3 DEF vars, backupVars
<1> QED
  BY <1>4, <1>5, <1>6, <1>7, <1>8, <1>9, <1>10, <1>11 DEF Next, BackupMain

-----------------------------------------------------------------------------
(* What a client sees of the handover *)

LEMMA AstrayStep ==
  ASSUME TypeOK, PhaseInv, OwnInv, AstrayOnlyIfShared, [Next]_vars
  PROVE  AstrayOnlyIfShared'
<1> SUFFICES ASSUME astray' PROVE SharedFd'
  BY DEF AstrayOnlyIfShared
<1>1. CASE SharedFd
  BY <1>1, SharedStays
<1>2. CASE ~SharedFd
  <2>1. ~astray
    BY <1>2 DEF AstrayOnlyIfShared
  <2>2. BindFails \/ ServerMain \/ BackupMain \/ (\E c \in Clients : Service(c) \/ Client(c))
          => astray' = astray
    BY DEF BindFails, ServerMain, Start, Accept, Pass, Create, Check, Kill, Return,
           BackupMain, Test, ReadFd, ReadEnd, TakeOver, TakeOverTooSoon, BackupAccept,
           BackupCreate, Service, Recv, RecvEnd, Load, Store, Send, Client, Connect, Ask,
           Read, CutOff, Quit, history
  <2>3. ASSUME NEW k \in DOMAIN threads, BackupService(k) PROVE FALSE
    <3>1. ~(Begin(k) \/ Enter(k) \/ BackupRecv(k) \/ BackupRecvEnd(k) \/ Close(k))
      BY <2>1 DEF Begin, Enter, BackupRecv, BackupRecvEnd, Close, history
    <3>2. threads[k].pc = "send" /\ threads[k].file # files[threads[k].fd]
      BY <2>1, <2>3, <3>1 DEF BackupService, BackupSend
    <3>3. bpc \in {"accept", "create"}
      BY ThreadsRunLate
    <3> QED  BY <1>2, <3>2, <3>3 DEF OwnInv, FdIsOpen
  <2>4. ~UNCHANGED vars
    BY <2>1 DEF vars, history
  <2> QED  BY <2>1, <2>2, <2>3, <2>4 DEF Next
<1> QED  BY <1>1, <1>2

LEMMA CutOffStep ==
  ASSUME TypeOK, PhaseInv, ListenerInv, PlaceInv, CutOffOnlyIfShared, [Next]_vars
  PROVE  CutOffOnlyIfShared'
<1> SUFFICES ASSUME NEW c \in Clients, cpc'[c] = "cut off" PROVE Excused'
  BY DEF CutOffOnlyIfShared, Excused, NeverReplaced
<1>1. CASE cpc[c] = "cut off"
  BY <1>1, ExcusedStays DEF CutOffOnlyIfShared, Excused, NeverReplaced
<1>2. CASE cpc[c] # "cut off"
  <2>1. cpc' # cpc
    BY <1>2
  <2>2. PICK d \in Clients : Client(d)
    BY <2>1, Frames DEF Next, vars
  <2>3. CutOff(c)
    BY <1>2, <2>2 DEF Client, Connect, Ask, Read, CutOff, Quit, TypeOK, ClientTypes
  <2>4. Connected(c) /\ ~Held(c)
    BY <2>3 DEF CutOff
  <2> QED  BY <2>4, HeldOrExcused, ExcusedStays
<1> QED  BY <1>1, <1>2

LEMMA EachIsServed ==
  ASSUME TypeOK, PhaseInv, AcceptInv, PlaceInv, OwnInv
  PROVE  UnservedOnlyIfUnread
<1> SUFFICES ASSUME NEW c \in Clients, Connected(c), spc = "gone", bpc = "accept", ~SharedFd,
                    c \notin Elements(backlog), c \notin Elements(uds)
             PROVE  Served(c)
  BY DEF UnservedOnlyIfUnread
<1>1. ~Excused
  BY DEF PhaseInv, Excused, NeverReplaced
<1>2. PICK f \in Fds : files[f] = c
  BY <1>1 DEF PlaceInv
<1>3. c # NoClient /\ f # NoFd
  BY Numbers
<1>4. FdIsOpen /\ EveryFdRuns
  BY DEF OwnInv
<1>5. fin[c] = "no"
  BY DEF AcceptInv, Connected
<1>6. ASSUME NEW k \in DOMAIN threads, Runs(k), threads[k].fd = f PROVE Served(c)
  BY <1>2, <1>3, <1>4, <1>5, <1>6 DEF FdIsOpen, Runs, Served
<1>7. ASSUME Topped, f = top PROVE Served(c)
  BY <1>2, <1>7 DEF Topped, Fresh, Served
<1> QED  BY <1>2, <1>3, <1>4, <1>6, <1>7 DEF EveryFdRuns

LEMMA ThreadsBounded ==
  ASSUME BackupTypes', KernelTypes', PhaseInv', RoomInv'
  PROVE  Len(threads') <= MaxThreads
<1>1. Cardinality(Came') \in Nat /\ Cardinality(Came') <= Cardinality(Clients)
  <2>1. Came' \in SUBSET Clients
    BY DEF Came
  <2> QED  BY <2>1, BackupAssumption, FS_Subset, FS_CardinalityType
<1>2. /\ Len(threads') \in Nat /\ Len(uds') \in Nat /\ Len(backlog') \in Nat
      /\ eofs' \in {0, 1} /\ Begun' \in {0, 1}
      /\ threads' = <<>> => Len(threads') = 0
  BY EmptyIsZero DEF BackupTypes, KernelTypes, Begun
<1>3. Cardinality(Clients) \in Nat
  BY Numbers
<1>4. CASE bpc' \in {"accept", "create"}
  <2>1. Len(threads') + Begun' + Len(uds') + Len(backlog') <= Cardinality(Came') + eofs'
    BY <1>4 DEF RoomInv
  <2> QED  BY <1>1, <1>2, <1>3, <2>1 DEF MaxThreads
<1>5. CASE bpc' \notin {"accept", "create"}
  <2>1. threads' = <<>>
    BY <1>5 DEF PhaseInv, BackupTypes
  <2> QED  BY <1>2, <1>3, <2>1 DEF MaxThreads
<1> QED  BY <1>4, <1>5

LEMMA InitIInv ==
  ASSUME Init
  PROVE  IInv
<1>0. 0 \in 0 .. Limit + 1
  BY BackupAssumption
<1>1. ServerTypes /\ KernelTypes /\ ClientTypes
  <2>1. ServerTypes
    BY <1>0 DEF Init, ServerTypes, ServiceStates
  <2>2. KernelTypes
    BY DEF Init, KernelTypes
  <2>3. received \in 0 .. Limit + 1
    BY <1>0 DEF Init
  <2>4. ClientTypes
    BY <2>3 DEF Init, ClientTypes
  <2> QED  BY <2>1, <2>2, <2>4
<1>2. BackupTypes
  <2>1. threads = <<>> /\ nsfd = <<>>
    BY DEF Init
  <2>2. /\ threads \in Seq([pc : ThreadStates, fd : Fds \union {NoFd},
                          file : Clients \union {NoClient}, got : {"nothing", "request"}])
        /\ nsfd \in Seq(Fds \union {Listener, NoFd})
    BY <2>1, EmptySeq
  <2>3. files \in [Fds -> Clients \union {NoClient}] /\ bpc = "test" /\ flag = FALSE
        /\ eofs = 0 /\ top = NoFd
    BY DEF Init
  <2> QED  BY <2>2, <2>3 DEF BackupTypes
<1>3. Len(threads) <= MaxThreads
  BY Numbers DEF Init, MaxThreads
<1>4. TypeOK
  BY <1>1, <1>2, <1>3 DEF TypeOK
<1>5. PhaseInv /\ ListenerInv /\ AcceptInv /\ FileInv
  BY DEF Init, PhaseInv, ListenerInv, AcceptInv, FileInv
<1>6. Used = {} /\ Came = {}
  BY DEF Init, Used, Came
<1>7. RoomInv
  BY <1>6, FS_EmptySet DEF Init, RoomInv, Passed, InHands
<1>8. PlaceInv /\ OwnInv /\ AstrayOnlyIfShared /\ CutOffOnlyIfShared
  BY DEF Init, PlaceInv, OwnInv, AstrayOnlyIfShared, CutOffOnlyIfShared, Connected
<1>9. ReadInv
  <2>1. Read0 = {}
    BY DEF Init, Read0
  <2> QED  BY <2>1 DEF Init, ReadInv
<1> QED  BY <1>4, <1>5, <1>7, <1>8, <1>9 DEF IInv

LEMMA Step ==
  ASSUME IInv, [Next]_vars
  PROVE  IInv'
<1> USE DEF IInv
<1>1. PhaseInv' /\ ListenerInv' /\ RoomInv' /\ FileInv'
  BY PhaseStep, ListenerStep, RoomStep, FileStep
<1>2. QueueInv /\ OpenInv
  BY AcceptParts
<1>3. AcceptInv'
  BY <1>2, QueueStep, OpenStep DEF AcceptInv, QueueInv, OpenInv
<1>4. PlaceInv' /\ ReadInv' /\ OwnInv'
  BY PlaceStep, ReadStep, OwnStep
<1>5. AstrayOnlyIfShared' /\ CutOffOnlyIfShared'
  BY AstrayStep, CutOffStep
<1>6. ServerTypes' /\ BackupTypes' /\ KernelTypes' /\ ClientTypes'
  BY ServerTypesStep, BackupTypesStep, KernelTypesStep, ClientTypesStep
<1>7. Len(threads') <= MaxThreads
  BY <1>1, <1>6, ThreadsBounded
<1>8. TypeOK'
  BY <1>6, <1>7 DEF TypeOK, MaxThreads
<1> QED  BY <1>1, <1>3, <1>4, <1>5, <1>8

LEMMA Invariance == Spec => []IInv
BY InitIInv, Step, PTL DEF Spec

\* Whatever goes wrong with a connection at the handover has one of the reasons listed.
THEOREM HandoverCorrect == Spec => []HandoverExplained
<1>1. IInv => HandoverExplained
  BY EachIsServed DEF IInv, HandoverExplained
<1> QED  BY <1>1, Invariance, PTL

-----------------------------------------------------------------------------
(* No request is lost silently *)

\* The two ways to have a request in hand.
AtServer(c) == thr[c] \in {"load", "store", "send"} /\ got[c] = "request"
AtThread(k, c) ==
  threads[k].pc = "send" /\ threads[k].got = "request" /\ threads[k].file = c

LEMMA Hands ==
  ASSUME NEW c
  PROVE  /\ InHand(c) <=> AtServer(c) \/ \E k \in DOMAIN threads : AtThread(k, c)
         /\ InHand(c)' <=> AtServer(c)' \/ \E k \in DOMAIN threads' : AtThread(k, c)'
BY DEF InHand, AtServer, AtThread

\* A reply to a client that is there arrives, and no reply is taken back.
LEMMA Replies ==
  ASSUME TypeOK, NEW c \in Clients, NEW d, NEW g, SendTo(d, g), ~answer'[c]
  PROVE  ~answer[c] /\ (d = c /\ fin[c] = "no" => g # "request")
<1>1. answer \in [Clients -> BOOLEAN]
  BY DEF TypeOK, KernelTypes
<1>2. CASE fin[d] = "no"
  <2>1. answer' = [answer EXCEPT ![d] = (answer[d] \/ g = "request")]
    BY <1>2 DEF SendTo
  <2>2. CASE d = c
    <3>1. answer'[c] = (answer[c] \/ g = "request")
      BY <1>1, <2>1, <2>2
    <3> QED  BY <3>1
  <2>3. CASE d # c
    <3>1. answer'[c] = answer[c]
      BY <1>1, <2>1, <2>3
    <3> QED  BY <2>3, <3>1
  <2> QED  BY <2>2, <2>3
<1>3. CASE fin[d] # "no"
  <2>1. answer' = answer
    BY <1>3 DEF SendTo
  <2> QED  BY <1>3, <2>1
<1> QED  BY <1>2, <1>3

\* What a process that ends had in hand is counted as dropped.
LEMMA EndsDrop ==
  ASSUME TypeOK, NEW c \in Clients, c \notin dropped'
  PROVE  /\ ServerEnds => ~AtServer(c) /\ c \notin dropped
         /\ BackupEnds => /\ \A k \in DOMAIN threads : ~AtThread(k, c)
                          /\ c \notin dropped
<1>1. ASSUME ServerEnds PROVE ~AtServer(c) /\ c \notin dropped
  BY <1>1 DEF ServerEnds, AtServer
<1>2. ASSUME BackupEnds PROVE c \notin dropped /\ \A k \in DOMAIN threads : ~AtThread(k, c)
  BY <1>2 DEF BackupEnds, AtThread
<1> QED  BY <1>1, <1>2

LEMMA AccountedStep ==
  ASSUME TypeOK, PhaseInv, ListenerInv, AcceptInv, FileInv, ReadInv,
         RequestAccountedFor, [Next]_vars
  PROVE  RequestAccountedFor'
<1> SUFFICES ASSUME NEW c \in Clients, cpc'[c] = "waiting", ~answer'[c],
                    c \notin dropped', ~astray'
             PROVE  asked'[c] \/ InHand(c)'
  BY DEF RequestAccountedFor
<1> DEFINE Before == asked[c] \/ AtServer(c) \/ \E k \in DOMAIN threads : AtThread(k, c)
           After  == asked'[c] \/ AtServer(c)' \/ \E k \in DOMAIN threads' : AtThread(k, c)'
<1> SUFFICES After
  BY Hands
<1>0. asked \in [Clients -> BOOLEAN] /\ thr \in [Clients -> ServiceStates]
      /\ got \in [Clients -> {"nothing", "request"}]
      /\ cpc \in [Clients -> {"away", "typing", "waiting", "gone", "cut off"}]
  BY DEF TypeOK, ServerTypes, KernelTypes, ClientTypes
<1>1. ASSUME cpc[c] = "waiting", ~answer[c], c \notin dropped, ~astray
      PROVE  Before
  BY <1>1, Hands DEF RequestAccountedFor
<1>2. cpc[c] = "waiting" => fin[c] = "no"
  BY DEF AcceptInv
<1>3. ASSUME UNCHANGED <<cpc, asked, answer, thr, got, threads, dropped, astray>>
      PROVE  After
  BY <1>1, <1>3 DEF AtServer, AtThread
<1>4. ASSUME NEW d \in Clients, Client(d) PROVE After
  <2>1. UNCHANGED <<thr, got, threads, dropped, astray>>
    BY <1>4 DEF Client, Connect, Ask, Read, CutOff, Quit, serverVars, backupVars, history
  <2>2. Before => asked[c] \/ After
    BY <2>1 DEF AtServer, AtThread
  <2>3. CASE Connect(d) \/ CutOff(d)
    <3>1. cpc[c] = "waiting" /\ UNCHANGED <<asked, answer>>
      BY <1>0, <2>3 DEF Connect, CutOff
    <3> QED  BY <1>1, <2>1, <2>2, <3>1
  <2>4. CASE Ask(d)
    <3>1. asked' = [asked EXCEPT ![d] = TRUE] /\ answer' = answer
          /\ cpc' = [cpc EXCEPT ![d] = "waiting"]
      BY <2>4 DEF Ask
    <3>2. CASE c = d
      BY <1>0, <3>1, <3>2
    <3>3. CASE c # d
      <4>1. cpc[c] = "waiting" /\ asked'[c] = asked[c]
        BY <1>0, <3>1, <3>3
      <4> QED  BY <1>1, <2>1, <2>2, <3>1, <4>1
    <3> QED  BY <3>2, <3>3
  <2>5. CASE Read(d) \/ Quit(d)
    <3>1. c # d /\ cpc[c] = "waiting" /\ asked' = asked
          /\ answer' = [answer EXCEPT ![d] = FALSE]
      BY <1>0, <2>5 DEF Read, Quit
    <3>2. answer'[c] = answer[c]
      BY <3>1 DEF TypeOK, KernelTypes
    <3> QED  BY <1>1, <2>1, <2>2, <3>1, <3>2
  <2> QED  BY <1>4, <2>3, <2>4, <2>5 DEF Client
<1>5. BindFails \/ Start \/ Accept \/ Pass \/ Check \/ Kill => After
  BY <1>3 DEF BindFails, Start, Accept, Pass, Check, Kill, backupVars, socketVars, history
<1>6. ASSUME Create PROVE After
  <2>1. UNCHANGED <<cpc, asked, answer, got, threads, dropped, astray>>
        /\ thr' = [thr EXCEPT ![cur] = "recv"] /\ thr[cur] = "none"
    BY <1>6 DEF Create, AcceptInv, backupVars, socketVars, history
  <2>2. AtServer(c) => AtServer(c)'
    BY <1>0, <2>1 DEF AtServer
  <2> QED  BY <1>1, <2>1, <2>2 DEF AtThread
<1>7. ASSUME Return PROVE After
  <2>1. UNCHANGED <<cpc, asked, answer, threads, astray>> /\ ServerEnds
    BY <1>7 DEF Return, backupVars, socketVars
  <2> QED  BY <1>1, <2>1, EndsDrop DEF AtThread
<1>8. ASSUME NEW d \in Clients, Service(d) PROVE After
  <2>1. UNCHANGED <<cpc, threads, astray>>
    BY <1>8 DEF Service, Recv, RecvEnd, Load, Store, Send, backupVars, history
  <2>2. \A k \in DOMAIN threads : AtThread(k, c) => AtThread(k, c)'
    BY <2>1 DEF AtThread
  <2>3. cpc[c] = "waiting" /\ fin[c] = "no"
    BY <1>2, <2>1
  <2>4. CASE Recv(d)
    <3>1. UNCHANGED <<answer, dropped>> /\ thr' = [thr EXCEPT ![d] = "load"]
          /\ thr[d] = "recv"
      BY <2>4 DEF Recv
    <3>2. CASE c = d
      <4>1. RecvRequest(d) /\ got' = [got EXCEPT ![d] = "request"]
        BY <2>3, <2>4, <3>2 DEF Recv, RecvError
      <4> QED  BY <1>0, <3>1, <3>2, <4>1 DEF AtServer
    <3>3. CASE c # d
      <4>1. asked'[c] = asked[c] /\ thr'[c] = thr[c] /\ got'[c] = got[c]
        BY <1>0, <2>4, <3>3 DEF Recv, RecvRequest, RecvError
      <4> QED  BY <1>1, <2>1, <2>2, <2>3, <3>1, <4>1 DEF AtServer
    <3> QED  BY <3>2, <3>3
  <2>5. CASE RecvEnd(d)
    <3>1. c # d /\ UNCHANGED <<asked, answer, got, dropped>>
          /\ thr' = [thr EXCEPT ![d] = "done"]
      BY <2>3, <2>5 DEF RecvEnd, AtEnd, socketVars, history
    <3> QED  BY <1>0, <1>1, <2>1, <2>2, <2>3, <3>1 DEF AtServer
  <2>6. CASE Load(d) \/ Store(d)
    <3>1. UNCHANGED <<asked, answer, got, dropped>>
          /\ \E p \in {"store", "send"} : thr' = [thr EXCEPT ![d] = p]
      BY <2>6 DEF Load, Store, socketVars, history
    <3>2. AtServer(c) => AtServer(c)'
      BY <1>0, <3>1 DEF AtServer
    <3> QED  BY <1>1, <2>1, <2>2, <2>3, <3>1, <3>2
  <2>7. CASE Send(d)
    <3>1. thr[d] = "send" /\ asked' = asked /\ got' = [got EXCEPT ![d] = "nothing"]
      BY <2>7 DEF Send
    <3>2. CASE BrokenPipe(d)
      <4>1. ServerEnds /\ answer' = answer
        BY <2>7, <3>2 DEF Send
      <4> QED  BY <1>1, <2>1, <2>2, <2>3, <3>1, <4>1, EndsDrop
    <3>3. CASE ~BrokenPipe(d)
      <4>1. SendTo(d, got[d]) /\ thr' = [thr EXCEPT ![d] = "recv"] /\ dropped' = dropped
        BY <2>7, <3>3 DEF Send
      <4>2. ~answer[c] /\ (d = c => got[c] # "request")
        BY <2>3, <4>1, Replies
      <4>3. Before
        BY <1>1, <2>1, <2>3, <4>1, <4>2
      <4>4. AtServer(c) => AtServer(c)'
        BY <1>0, <3>1, <4>1, <4>2 DEF AtServer
      <4> QED  BY <2>1, <2>2, <3>1, <4>3, <4>4
    <3> QED  BY <3>2, <3>3
  <2> QED  BY <1>8, <2>4, <2>5, <2>6, <2>7 DEF Service
<1>9. Test \/ ReadFd \/ ReadEnd \/ BackupAccept => After
  BY <1>3 DEF Test, ReadFd, ReadEnd, BackupAccept, serverVars, socketVars, history
<1>10. ASSUME TakeOver \/ TakeOverTooSoon PROVE After
  <2>1. UNCHANGED <<cpc, asked, answer, thr, got, astray>> /\ threads = <<>>
        /\ (dropped' = dropped \/ BackupEnds)
    BY <1>10 DEF TakeOver, TakeOverTooSoon, PhaseInv, serverVars, socketVars, history
  <2>2. c \notin dropped
    BY <2>1, EndsDrop
  <2>3. DOMAIN threads = {}
    BY <2>1
  <2> QED  BY <1>1, <2>1, <2>2, <2>3 DEF AtServer
<1>11. ASSUME BackupCreate PROVE After
  <2>1. UNCHANGED <<cpc, asked, answer, thr, got, dropped, astray>>
    BY <1>11 DEF BackupCreate, serverVars, socketVars, history
  <2>2. \A k \in DOMAIN threads : k \in DOMAIN threads' /\ threads'[k] = threads[k]
    <3>1. Thread("new", NoFd) \in ThreadRecord
      BY ThreadIsOne DEF ThreadStates
    <3>2. PICK n \in Nat : n = Len(threads) /\ DOMAIN threads = 1 .. n
      BY ThreadTypes
    <3>3. DOMAIN threads' = 1 .. n + 1 /\ \A j \in 1 .. n : threads'[j] = threads[j]
      BY <1>11, <3>1, <3>2, Appended, ThreadTypes DEF BackupCreate, NewThread
    <3> QED  BY <3>2, <3>3
  <2> QED  BY <1>1, <2>1, <2>2 DEF AtServer, AtThread
<1>12. ASSUME NEW k \in DOMAIN threads, BackupService(k) PROVE After
  <2>1. UNCHANGED <<cpc, thr, got>>
    BY <1>12, ThreadSteps DEF serverVars
  <2>2. cpc[c] = "waiting" /\ fin[c] = "no" /\ (AtServer(c) => AtServer(c)')
    BY <1>2, <2>1 DEF AtServer
  <2>3. ASSUME NEW p, NEW f, Goes(k, p, f)
        PROVE  /\ DOMAIN threads' = DOMAIN threads
               /\ \A j \in DOMAIN threads : j # k /\ AtThread(j, c) => AtThread(j, c)'
    BY <2>3 DEF Goes, AtThread
  <2>4. CASE Begin(k) \/ Enter(k) \/ BackupRecvEnd(k) \/ Close(k)
    <3>1. UNCHANGED <<asked, answer, dropped, astray>>
      BY <2>4 DEF Begin, Enter, BackupRecvEnd, Close, socketVars, history
    <3>2. threads[k].pc # "send" /\ \E p, f : Goes(k, p, f)
      BY <2>4, ThreadActs
    <3>3. ~AtThread(k, c)
      BY <3>2 DEF AtThread
    <3> QED  BY <1>1, <2>2, <2>3, <3>1, <3>2, <3>3
  <2>5. CASE BackupRecv(k)
    <3>1. UNCHANGED <<answer, dropped, astray>>
      BY <2>5 DEF BackupRecv, history
    <3>2. threads[k].pc = "recv" /\ Goes(k, "send", threads[k].fd)
          /\ threads'[k].file = threads[k].file
      BY <2>5, ThreadActs
    <3>3. ~AtThread(k, c)
      BY <3>2 DEF AtThread
    <3>4. CASE threads[k].file = c
      <4>1. threads' = [threads EXCEPT ![k].pc = "send", ![k].got = "request"]
        BY <2>2, <2>5, <3>4 DEF BackupRecv, RecvError
      <4>2. threads[k] \in ThreadRecord /\ threads \in Seq(ThreadRecord)
        BY ThreadTypes
      <4>3. threads'[k].got = "request"
        BY <4>1, <4>2 DEF ThreadRecord
      <4>4. AtThread(k, c)'
        BY <3>2, <3>4, <4>3 DEF AtThread, Goes
      <4> QED  BY <2>3, <3>2, <4>4
    <3>5. CASE threads[k].file # c
      <4>1. asked'[c] = asked[c]
        BY <1>0, <2>5, <3>5 DEF BackupRecv, RecvRequest, RecvError
      <4> QED  BY <1>1, <2>2, <2>3, <3>1, <3>2, <3>3, <4>1
    <3> QED  BY <3>4, <3>5
  <2>6. CASE BackupSend(k)
    <3> DEFINE d == files[threads[k].fd]
    <3>1. asked' = asked /\ ~astray
      BY <2>6 DEF BackupSend
    <3>2. AtThread(k, c) => d = c
      BY <2>6 DEF BackupSend, AtThread
    <3>3. CASE BackupEnds
      <4>1. c \notin dropped /\ \A j \in DOMAIN threads : ~AtThread(j, c)
        BY <3>3, EndsDrop
      <4>2. answer' = answer
        BY <2>6, <3>3, ThreadsRunLate DEF BackupSend, BackupEnds
      <4> QED  BY <1>1, <2>2, <3>1, <4>1, <4>2
    <3>4. CASE ~BackupEnds
      <4>1. Again(k) /\ dropped' = dropped
        BY <2>6, <3>4 DEF BackupSend
      <4>2. Goes(k, "loop", threads[k].fd)
        BY <4>1, ThreadActs
      <4>3. ~answer[c] /\ ~AtThread(k, c)
        <5>1. CASE d = NoClient
          <6>1. answer' = answer /\ c # NoClient
            BY <2>6, <3>4, <5>1, Numbers DEF BackupSend
          <6> QED  BY <3>2, <5>1, <6>1
        <5>2. CASE d # NoClient
          <6>1. SendTo(d, threads[k].got)
            BY <2>6, <3>4, <5>2 DEF BackupSend
          <6>2. ~answer[c] /\ (d = c => threads[k].got # "request")
            BY <2>2, <6>1, Replies
          <6> QED  BY <3>2, <6>2 DEF AtThread
        <5> QED  BY <5>1, <5>2
      <4> QED  BY <1>1, <2>2, <2>3, <3>1, <4>1, <4>2, <4>3
    <3> QED  BY <3>3, <3>4
  <2> QED  BY <1>12, <2>4, <2>5, <2>6 DEF BackupService
<1>13. UNCHANGED vars => After
  BY <1>3 DEF vars, serverVars, backupVars, socketVars, history
<1> QED
  BY <1>4, <1>5, <1>6, <1>7, <1>8, <1>9, <1>10, <1>11, <1>12, <1>13
  DEF Next, ServerMain, BackupMain

\* A client that waits has its request in the socket or in the hands of a thread, unless a
\* process has ended with it or the reply has gone astray.
THEOREM RequestsAccounted == Spec => []RequestAccountedFor
<1>1. Init => RequestAccountedFor
  BY DEF Init, RequestAccountedFor
<1>2. IInv /\ RequestAccountedFor /\ [Next]_vars => RequestAccountedFor'
  BY AccountedStep DEF IInv
<1> QED  BY <1>1, <1>2, Invariance, PTL DEF Spec

-----------------------------------------------------------------------------
(* What decides on the handover: the number of requests *)

LEMMA CountingIsFinite ==
  /\ IsFiniteSet(Counting) /\ Cardinality(Counting) \in Nat
  /\ IsFiniteSet(Counting') /\ Cardinality(Counting') \in Nat
<1>1. Counting \in SUBSET Clients /\ Counting' \in SUBSET Clients
  BY DEF Counting
<1> QED  BY <1>1, BackupAssumption, FS_Subset, FS_CardinalityType

\* Counting up to a maximum, one by one, is counting all up to the maximum.
LEMMA OneMore ==
  ASSUME NEW n \in Nat, NEW q \in Nat, NEW m \in Nat
  PROVE  /\ AtMost(AtMost(n + q, m) + 1, m) = AtMost(n + (q + 1), m)
         /\ AtMost(AtMost(n + 1, m) + q, m) = AtMost(n + (q + 1), m)
BY DEF AtMost

LEMMA CountsStep ==
  ASSUME TypeOK, AcceptInv, CountsEveryRequest, [Next]_vars
  PROVE  CountsEveryRequest'
<1> SUFFICES ASSUME spc' # "gone", ~miscounted'
             PROVE  received' = AtMost(cnt' + Cardinality(Counting'), Limit + 1)
  BY DEF CountsEveryRequest
<1>0. PICK n \in Nat, q \in Nat, m \in Nat :
        n = cnt /\ q = Cardinality(Counting) /\ m = Limit + 1
  <2>1. cnt \in Nat /\ Limit + 1 \in Nat
    BY BackupAssumption DEF TypeOK, ServerTypes
  <2> QED  BY <2>1, CountingIsFinite
<1>1. ASSUME spc # "gone", ~miscounted PROVE received = AtMost(n + q, m)
  BY <1>0, <1>1 DEF CountsEveryRequest
<1>2. thr \in [Clients -> ServiceStates] /\ tmp \in [Clients -> 0 .. Limit + 1]
  BY DEF TypeOK, ServerTypes
<1>3. ASSUME UNCHANGED <<cnt, miscounted, received>>, spc = "gone" => spc' = "gone",
             Counting' = Counting
      PROVE  received' = AtMost(cnt' + Cardinality(Counting'), Limit + 1)
  BY <1>0, <1>1, <1>3
<1>4. ASSUME NEW c \in Clients, NEW p, thr' = [thr EXCEPT ![c] = p],
             thr[c] \in {"load", "store"} <=> p \in {"load", "store"}
      PROVE  Counting' = Counting
  BY <1>2, <1>4 DEF Counting
<1>5. ASSUME NEW c \in Clients, Recv(c)
      PROVE  received' = AtMost(cnt' + Cardinality(Counting'), Limit + 1)
  <2>1. /\ UNCHANGED <<spc, cnt, miscounted>> /\ thr[c] = "recv"
        /\ thr' = [thr EXCEPT ![c] = "load"]
        /\ received' = AtMost(received + 1, Limit + 1)
    BY <1>5 DEF Recv
  <2>2. Counting' = Counting \union {c} /\ c \notin Counting
    BY <1>2, <2>1 DEF Counting
  <2>3. Cardinality(Counting') = q + 1
    BY <1>0, <2>2, CountingIsFinite, FS_AddElement
  <2>4. received' = AtMost(AtMost(n + q, m) + 1, m)
    BY <1>0, <1>1, <2>1
  <2>5. received' = AtMost(n + (q + 1), m)
    BY <2>4, OneMore
  <2> QED  BY <1>0, <2>1, <2>3, <2>5
<1>6. ASSUME NEW c \in Clients, Store(c)
      PROVE  received' = AtMost(cnt' + Cardinality(Counting'), Limit + 1)
  <2>1. /\ UNCHANGED <<spc, received>> /\ thr[c] = "store" /\ ~miscounted /\ tmp[c] = cnt
        /\ thr' = [thr EXCEPT ![c] = "send"] /\ cnt' = AtMost(tmp[c] + 1, Limit + 1)
    BY <1>6 DEF Store, Counted
  <2>2. Counting' = Counting \ {c} /\ c \in Counting
    BY <1>2, <2>1 DEF Counting
  <2>3. PICK k \in Nat : k = Cardinality(Counting')
    BY CountingIsFinite
  <2>4. k = q - 1
    BY <1>0, <2>2, <2>3, CountingIsFinite, FS_RemoveElement
  <2>5. q = k + 1
    BY <1>0, <2>3, <2>4
  <2>6. received' = AtMost(n + (k + 1), m)
    BY <1>1, <2>1, <2>5
  <2>7. cnt' = AtMost(n + 1, m)
    BY <1>0, <2>1
  <2>8. AtMost(AtMost(n + 1, m) + k, m) = AtMost(n + (k + 1), m)
    BY OneMore
  <2> QED  BY <1>0, <2>3, <2>6, <2>7, <2>8
<1>7. ASSUME NEW c \in Clients, RecvEnd(c) \/ Load(c) \/ Send(c)
      PROVE  received' = AtMost(cnt' + Cardinality(Counting'), Limit + 1)
  <2>1. UNCHANGED <<spc, cnt, miscounted, received>>
    BY <1>7 DEF RecvEnd, Load, Send, ServerEnds, history
  <2>2. \/ thr[c] = "recv" /\ thr' = [thr EXCEPT ![c] = "done"]
        \/ thr[c] = "load" /\ thr' = [thr EXCEPT ![c] = "store"]
        \/ thr[c] = "send" /\ thr' = [thr EXCEPT ![c] = "recv"]
    BY <1>7 DEF RecvEnd, Load, Send, ServerEnds
  <2>3. Counting' = Counting
    BY <1>4, <2>2
  <2> QED  BY <1>3, <2>1, <2>3
<1>8. ASSUME Create PROVE Counting' = Counting
  BY <1>4, <1>8 DEF Create, AcceptInv
<1>9. Start \/ Accept \/ Pass \/ Check \/ Kill \/ UNCHANGED serverVars => Counting' = Counting
  BY DEF Start, Accept, Pass, Check, Kill, Counting, serverVars
<1>10. ServerMain => /\ UNCHANGED <<cnt, miscounted, received>> /\ spc # "gone"
                     /\ ~Return
  BY DEF ServerMain, Start, Accept, Pass, Create, Check, Kill, Return, ServerEnds, history
<1>11. ServerMain => received' = AtMost(cnt' + Cardinality(Counting'), Limit + 1)
  BY <1>3, <1>8, <1>9, <1>10 DEF ServerMain
<1>12. ~BindFails
  BY DEF BindFails
<1>13. BackupMain \/ (\E c \in Clients : Client(c)) => UNCHANGED <<miscounted, received>>
  BY DEF BackupMain, Test, ReadFd, ReadEnd, TakeOver, TakeOverTooSoon, BackupAccept,
         BackupCreate, Client, Connect, Ask, Read, CutOff, Quit, history
<1>14. (\E k \in DOMAIN threads : BackupService(k)) => UNCHANGED <<miscounted, received>>
  BY ThreadSteps
<1>15. ASSUME UNCHANGED <<serverVars, miscounted, received>>
       PROVE  received' = AtMost(cnt' + Cardinality(Counting'), Limit + 1)
  BY <1>3, <1>9, <1>15 DEF serverVars
<1>16. UNCHANGED vars => received' = AtMost(cnt' + Cardinality(Counting'), Limit + 1)
  BY <1>15 DEF vars, history
<1> QED
  BY <1>5, <1>6, <1>7, <1>11, <1>12, <1>13, <1>14, <1>15, <1>16, Frames DEF Next, Service

\* The server hands over by the number of requests it has received, unless it has lost one
\* of them at cnt++.
THEOREM CountCorrect == Spec => []CountsEveryRequest
<1>1. Init => CountsEveryRequest
  <2> SUFFICES ASSUME Init PROVE received = AtMost(cnt + Cardinality(Counting), Limit + 1)
    BY DEF CountsEveryRequest
  <2>1. Counting = {} /\ cnt = 0 /\ received = 0
    BY DEF Init, Counting
  <2> QED  BY <2>1, FS_EmptySet, BackupAssumption DEF AtMost
<1>2. IInv /\ CountsEveryRequest /\ [Next]_vars => CountsEveryRequest'
  BY CountsStep DEF IInv
<1> QED  BY <1>1, <1>2, Invariance, PTL DEF Spec
=============================================================================
