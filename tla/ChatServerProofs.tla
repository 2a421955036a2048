-------------------------- MODULE ChatServerProofs --------------------------
(***************************************************************************)
(* Proofs about ChatServer, for any number of clients and both servers.    *)
(* The second part is about FifoServices, through an instance: the servers  *)
(* whose clients join in the same way, over a fifo and with a signal.      *)
(***************************************************************************)
EXTENDS ChatServer, FiniteSetTheorems, FunctionTheorems, TLAPS

\* What holds whether or not clients race.
RunInv ==
  /\ fifoname = NoFile => ~pending /\ hpc = "none" /\ \A c \in Clients : cpc[c] = "away"
  /\ hpc \in {"reader", "writer"} => name # NoFile
  /\ mpc = "relay" => Nfd > 0

Handling == pending \/ hpc # "none"

\* c has sent the signal that is pending or being handled; its name is in shared memory.
Joiner(c) ==
  /\ cpc[c] \in {"in", "gone"}
  /\ fifoname = <<c, IF hpc \in {"name", "writer"} THEN 1 ELSE 0>>
  /\ hpc \in {"reader", "writer"} => name = fifoname
  /\ hpc \in {"append", "name", "writer"} => pfd[Len(pfd)] = <<c, 0>>
  /\ hpc \in {"none", "reader"} => ~Held(<<c, 0>>, pfd)

\* One client at a time has its name in shared memory until it has been taken in.
OneAtATime ==
  ~raced =>
    /\ \A c \in Clients : cpc[c] = "named" => ~Handling /\ fifoname = <<c, 0>>
    /\ pending => hpc = "none"
    /\ Handling => \E c \in Clients : Joiner(c)

\* pfd[] has the first fifo of clients that sent a signal, each once, fd[] their second.
PairsInv ==
  ~raced =>
    /\ \A k \in 1 .. Len(pfd) : \E c \in Clients : pfd[k] = <<c, 0>> /\ cpc[c] \in {"in", "gone"}
    /\ \A k \in 1 .. Nfd : fd[k] = <<pfd[k][1], 1>>
    /\ \A k, l \in 1 .. Len(pfd) : pfd[k] = pfd[l] => k = l
    /\ \A c \in Clients : cpc[c] = "in" =>
         \/ Handling /\ Joiner(c)
         \/ Held(<<c, 0>>, pfd) /\ Held(<<c, 1>>, fd)

IInv == TypeOK /\ RunInv /\ OneAtATime /\ PairsInv /\ DiesForAReason

LEMMA AppendFacts ==
  ASSUME NEW q \in Seq(Files), NEW x \in Files
  PROVE  /\ Append(q, x) \in Seq(Files) /\ Len(Append(q, x)) = Len(q) + 1
         /\ \A k \in 1 .. Len(q) : Append(q, x)[k] = q[k]
         /\ Append(q, x)[Len(q) + 1] = x
         /\ \A f : Held(f, Append(q, x)) <=> Held(f, q) \/ f = x
<1>1. /\ Append(q, x) \in Seq(Files) /\ Len(Append(q, x)) = Len(q) + 1
      /\ \A k \in 1 .. Len(q) : Append(q, x)[k] = q[k]
      /\ Append(q, x)[Len(q) + 1] = x
  OBVIOUS
<1>2. /\ Len(q) \in Nat /\ DOMAIN q = 1 .. Len(q)
      /\ DOMAIN Append(q, x) = 1 .. Len(q) + 1
      /\ \A k \in 1 .. Len(q) + 1 : k \in 1 .. Len(q) \/ k = Len(q) + 1
  OBVIOUS
<1>3. ASSUME NEW f PROVE Held(f, Append(q, x)) <=> Held(f, q) \/ f = x
  BY <1>1, <1>2 DEF Held
<1>4. QED  BY <1>1, <1>3

LEMMA InitInv == Init => IInv
<1> SUFFICES ASSUME Init PROVE IInv
  OBVIOUS
<1>1. HandlerTypes
  <2>1. pfd = <<>> /\ fd = <<>>
    BY DEF Init
  <2>2. pfd \in Seq(Files) /\ fd \in Seq(Files) /\ Len(pfd) = 0 /\ Len(fd) = 0
    BY <2>1
  <2>3. fifoname \in Files /\ name \in Files /\ pending \in BOOLEAN /\ hpc = "none"
    BY DEF Init, Files
  <2>4. QED  BY <2>2, <2>3 DEF HandlerTypes
<1>2. MainTypes
  <2>1. poll \in BOOLEAN /\ raced \in BOOLEAN /\ mpc = "pass" /\ i = 1
    BY DEF Init
  <2>2. toServer \in [Clients -> BOOLEAN] /\ toClient \in [Clients -> BOOLEAN]
    BY Zenon DEF Init
  <2>3. cpc \in [Clients -> {"away", "named", "in", "gone"}]
    BY DEF Init
  <2>4. QED  BY <2>1, <2>2, <2>3 DEF MainTypes
<1>3. RunInv /\ OneAtATime /\ DiesForAReason
  BY DEF Init, RunInv, OneAtATime, DiesForAReason, Handling
<1>4. PairsInv
  BY DEF Init, PairsInv, Nfd
<1>5. QED  BY <1>1, <1>2, <1>3, <1>4 DEF IInv, TypeOK

-----------------------------------------------------------------------------
(* The handler *)

LEMMA DeliverStep == ASSUME IInv, Deliver PROVE IInv'
<1> USE DEF IInv, TypeOK
<1>1. /\ pending /\ hpc = "none" /\ ~pending' /\ pending' \in BOOLEAN /\ hpc' = "reader" /\ name' = fifoname
      /\ UNCHANGED <<poll, fifoname, pfd, fd, mpc, i, toServer, toClient, cpc, raced>>
  BY DEF Deliver, mainVars, fifoVars
<1>2. HandlerTypes' /\ MainTypes'
  BY <1>1 DEF HandlerTypes, MainTypes
<1>3. RunInv' /\ DiesForAReason'
  BY <1>1 DEF RunInv, DiesForAReason, Nfd
<1>4. \A c \in Clients : Joiner(c) => Joiner(c)'
  BY <1>1 DEF Joiner
<1>5. Handling /\ Handling'
  BY <1>1 DEF Handling
<1>6. OneAtATime'
  BY <1>1, <1>4, <1>5 DEF OneAtATime
<1>7. PairsInv'
  BY <1>1, <1>4, <1>5 DEF PairsInv, Nfd
<1>8. QED  BY <1>2, <1>3, <1>6, <1>7

LEMMA OpenReaderStep == ASSUME IInv, OpenReader PROVE IInv'
<1> USE DEF IInv, TypeOK
<1>1. PICK f \in Files : pfd' = Append(pfd, f) /\ (f = name \/ (f = NoFile /\ Missing(name)))
  BY DEF OpenReader, HandlerTypes, Files
<1>2. /\ hpc = "reader" /\ hpc' = "append"
      /\ UNCHANGED <<poll, fifoname, pending, name, fd, mpc, i, toServer, toClient, cpc, raced>>
  BY DEF OpenReader, mainVars, fifoVars
<1>3. /\ pfd' \in Seq(Files) /\ Len(pfd') = Len(pfd) + 1
      /\ \A k \in 1 .. Len(pfd) : pfd'[k] = pfd[k]
      /\ pfd'[Len(pfd) + 1] = f
      /\ \A g : Held(g, pfd') <=> Held(g, pfd) \/ g = f
  BY <1>1, AppendFacts DEF HandlerTypes
<1>4. Len(pfd) \in Nat /\ Len(fd) = Len(pfd)
  BY <1>2 DEF HandlerTypes
<1>5. HandlerTypes' /\ MainTypes'
  BY <1>2, <1>3, <1>4 DEF HandlerTypes, MainTypes
<1>6. RunInv' /\ DiesForAReason'
  BY <1>2 DEF RunInv, DiesForAReason, Nfd
<1>7. ASSUME ~raced
      PROVE  \E c \in Clients : /\ Joiner(c) /\ Joiner(c)' /\ f = <<c, 0>> /\ name = <<c, 0>>
  <2>1. PICK c \in Clients : Joiner(c)
    BY <1>2, <1>7 DEF OneAtATime, Handling
  <2>2. name = <<c, 0>> /\ f = <<c, 0>>
    BY <1>1, <1>2, <2>1 DEF Joiner, Missing
  <2>3. Joiner(c)'
    BY <1>2, <1>3, <2>1, <2>2 DEF Joiner
  <2>4. QED  BY <2>1, <2>2, <2>3
<1>8. Handling /\ Handling'
  BY <1>2 DEF Handling
<1>9. OneAtATime'
  BY <1>2, <1>7, <1>8 DEF OneAtATime
<1>10. PairsInv'
  <2> SUFFICES ASSUME ~raced
               PROVE  PairsInv'
    BY <1>2 DEF PairsInv
  <2>1. PICK c \in Clients : /\ Joiner(c) /\ Joiner(c)' /\ f = <<c, 0>>
    BY <1>7
  <2>2. \A k \in 1 .. Len(pfd) : pfd[k] # f
    <3>1. ~Held(<<c, 0>>, pfd)
      BY <1>2, <2>1 DEF Joiner
    <3>2. DOMAIN pfd = 1 .. Len(pfd)
      BY DEF HandlerTypes
    <3>3. QED  BY <2>1, <3>1, <3>2 DEF Held
  <2>3. \A k \in 1 .. Len(pfd') : k \in 1 .. Len(pfd) \/ k = Len(pfd) + 1
    BY <1>3, <1>4
  <2>4. \A k \in 1 .. Len(pfd') : \E d \in Clients : pfd'[k] = <<d, 0>> /\ cpc'[d] \in {"in", "gone"}
    BY <1>2, <1>3, <2>1, <2>3 DEF PairsInv, Joiner
  <2>5. \A k \in 1 .. Nfd' : fd'[k] = <<pfd'[k][1], 1>>
    BY <1>2, <1>3, <1>4 DEF PairsInv, Nfd
  <2>6. \A k, l \in 1 .. Len(pfd') : pfd'[k] = pfd'[l] => k = l
    BY <1>3, <2>2, <2>3 DEF PairsInv
  <2>7. \A d \in Clients : cpc'[d] = "in" =>
          \/ Handling' /\ Joiner(d)'
          \/ Held(<<d, 0>>, pfd') /\ Held(<<d, 1>>, fd')
    <3> SUFFICES ASSUME NEW d \in Clients, cpc[d] = "in", d # c
                 PROVE  Held(<<d, 0>>, pfd') /\ Held(<<d, 1>>, fd')
      BY <1>2, <1>8, <2>1
    <3>1. ~Joiner(d)
      BY <2>1 DEF Joiner
    <3>2. QED  BY <1>2, <1>3, <3>1 DEF PairsInv
  <2>8. QED  BY <2>4, <2>5, <2>6, <2>7 DEF PairsInv
<1>11. QED  BY <1>5, <1>6, <1>9, <1>10

LEMMA AppendOneStep == ASSUME IInv, AppendOne PROVE IInv'
<1> USE DEF IInv, TypeOK
<1>1. /\ hpc = "append" /\ hpc' = "name" /\ fifoname' = [fifoname EXCEPT ![2] = @ + 1]
      /\ UNCHANGED <<poll, pending, name, pfd, fd, mpc, i, toServer, toClient, cpc, raced>>
  BY DEF AppendOne, Appended, mainVars, fifoVars
<1>2. PICK c \in Clients, n \in Nat : fifoname = <<c, n>>
  <2>1. fifoname # NoFile
    BY <1>1 DEF RunInv
  <2>2. QED  BY <2>1 DEF HandlerTypes, Files
<1>3. fifoname' = <<c, n + 1>>
  BY <1>1, <1>2
<1>4. HandlerTypes' /\ MainTypes'
  BY <1>1, <1>3 DEF HandlerTypes, MainTypes, Files
<1>5. RunInv' /\ DiesForAReason'
  BY <1>1, <1>3 DEF RunInv, DiesForAReason, Nfd, NoFile
<1>6. \A d \in Clients : Joiner(d) => Joiner(d)'
  BY <1>1, <1>2, <1>3 DEF Joiner
<1>7. Handling /\ Handling'
  BY <1>1 DEF Handling
<1>8. OneAtATime'
  BY <1>1, <1>6, <1>7 DEF OneAtATime
<1>9. PairsInv'
  BY <1>1, <1>6, <1>7 DEF PairsInv, Nfd
<1>10. QED  BY <1>4, <1>5, <1>8, <1>9

LEMMA TakeNameStep == ASSUME IInv, TakeName PROVE IInv'
<1> USE DEF IInv, TypeOK
<1>1. /\ hpc = "name" /\ hpc' = "writer" /\ name' = fifoname
      /\ UNCHANGED <<poll, fifoname, pending, pfd, fd, mpc, i, toServer, toClient, cpc, raced>>
  BY DEF TakeName, mainVars, fifoVars
<1>2. HandlerTypes' /\ MainTypes'
  BY <1>1 DEF HandlerTypes, MainTypes
<1>3. RunInv' /\ DiesForAReason'
  BY <1>1 DEF RunInv, DiesForAReason, Nfd
<1>4. \A c \in Clients : Joiner(c) => Joiner(c)'
  BY <1>1 DEF Joiner
<1>5. Handling /\ Handling'
  BY <1>1 DEF Handling
<1>6. OneAtATime'
  BY <1>1, <1>4, <1>5 DEF OneAtATime
<1>7. PairsInv'
  BY <1>1, <1>4, <1>5 DEF PairsInv, Nfd
<1>8. QED  BY <1>2, <1>3, <1>6, <1>7

\* The client is taken in: its second fifo lands beside its first.
LEMMA OpenWriterStep == ASSUME IInv, OpenWriter PROVE IInv'
<1> USE DEF IInv, TypeOK
<1>1. PICK f \in Files : fd' = Append(fd, f) /\ (f = name \/ (f = NoFile /\ Missing(name)))
  BY DEF OpenWriter, HandlerTypes, Files
<1>2. /\ hpc = "writer" /\ hpc' = "none" /\ name' = NoFile
      /\ UNCHANGED <<poll, fifoname, pending, pfd, mpc, i, toServer, toClient, cpc, raced>>
  BY DEF OpenWriter, mainVars, fifoVars
<1>3. /\ fd' \in Seq(Files) /\ Len(fd') = Len(fd) + 1
      /\ \A k \in 1 .. Len(fd) : fd'[k] = fd[k]
      /\ fd'[Len(fd) + 1] = f
      /\ \A g : Held(g, fd') <=> Held(g, fd) \/ g = f
  BY <1>1, AppendFacts DEF HandlerTypes
<1>4. Len(fd) \in Nat /\ Len(pfd) \in Nat /\ Len(pfd) = Len(fd) + 1 /\ DOMAIN pfd = 1 .. Len(pfd)
  BY <1>2 DEF HandlerTypes
<1>5. HandlerTypes' /\ MainTypes'
  BY <1>2, <1>3, <1>4 DEF HandlerTypes, MainTypes, Files
<1>6. RunInv' /\ DiesForAReason'
  <2>1. fifoname # NoFile
    BY <1>2 DEF RunInv
  <2>2. mpc' = "relay" => Nfd' > 0
    BY <1>3, <1>4 DEF Nfd
  <2>3. QED  BY <1>2, <2>1, <2>2 DEF RunInv, DiesForAReason
<1>7. CASE raced
  BY <1>2, <1>5, <1>6, <1>7 DEF OneAtATime, PairsInv
<1>8. CASE ~raced
  <2>1. PICK c \in Clients : Joiner(c)
    BY <1>2, <1>8 DEF OneAtATime, Handling
  <2>2. name = <<c, 1>> /\ f = <<c, 1>> /\ pfd[Len(pfd)] = <<c, 0>>
    BY <1>1, <1>2, <2>1 DEF Joiner, Missing
  <2>3. Handling /\ ~Handling' /\ ~pending
    BY <1>2, <1>8 DEF Handling, OneAtATime
  <2>4. OneAtATime'
    BY <1>2, <1>8, <2>3 DEF OneAtATime
  <2>5. \A k \in 1 .. Nfd' : fd'[k] = <<pfd'[k][1], 1>>
    <3>1. \A k \in 1 .. Nfd' : k \in 1 .. Len(fd) \/ k = Len(fd) + 1
      BY <1>3, <1>4 DEF Nfd
    <3>2. pfd[Len(fd) + 1][1] = c
      BY <1>4, <2>2
    <3>3. QED  BY <1>2, <1>3, <1>8, <2>2, <3>1, <3>2 DEF PairsInv, Nfd
  <2>6. \A d \in Clients : cpc'[d] = "in" => Held(<<d, 0>>, pfd') /\ Held(<<d, 1>>, fd')
    <3> SUFFICES ASSUME NEW d \in Clients, cpc[d] = "in"
                 PROVE  Held(<<d, 0>>, pfd) /\ Held(<<d, 1>>, fd')
      BY <1>2
    <3>1. CASE d = c
      BY <1>3, <1>4, <2>2, <3>1 DEF Held
    <3>2. CASE d # c
      <4>1. ~Joiner(d)
        BY <2>1, <3>2 DEF Joiner
      <4>2. QED  BY <1>3, <1>8, <4>1 DEF PairsInv
    <3>3. QED  BY <3>1, <3>2
  <2>7. PairsInv'
    BY <1>2, <1>8, <2>5, <2>6 DEF PairsInv
  <2>8. QED  BY <1>5, <1>6, <2>4, <2>7
<1>9. QED  BY <1>7, <1>8

-----------------------------------------------------------------------------
(* main *)

LEMMA MainSteps == ASSUME IInv, Main PROVE IInv'
<1> USE DEF IInv, TypeOK
<1>1. UNCHANGED <<poll, fifoname, pending, hpc, name, pfd, fd, cpc, raced>>
  BY DEF Main, Read, Skip, Relay, handlerVars, fifoVars
<1>2. Len(fd) \in Nat
  BY DEF HandlerTypes
<1>3. AfterTurn \in Nat \ {0} \/ Nfd = 0
  BY <1>2 DEF AfterTurn, Nfd, MainTypes
<1>4. /\ mpc' \in {"pass", "relay", "dead"} /\ i' \in Nat \ {0}
      /\ toServer' \in [Clients -> BOOLEAN] /\ toClient' \in [Clients -> BOOLEAN]
      /\ mpc' = "relay" => Nfd > 0
  <2>1. CASE Read
    <3>1. PICK k \in 1 .. Nfd :
            /\ i' = k /\ mpc' = "relay"
            /\ toServer' = [c \in Clients |-> toServer[c] /\ pfd[k] # <<c, 0>>]
            /\ toClient' = [c \in Clients |-> toClient[c] /\ pfd[k] # <<c, 1>>]
      BY <2>1 DEF Read, Chosen
    <3>2. k \in Nat \ {0} /\ Nfd > 0
      BY <1>2, <3>1 DEF Nfd
    <3>3. toServer' \in [Clients -> BOOLEAN] /\ toClient' \in [Clients -> BOOLEAN]
      BY <3>1, Zenon
    <3>4. QED  BY <3>1, <3>2, <3>3
  <2>2. CASE Skip
    BY <1>2, <1>3, <2>2 DEF Skip, Nfd, MainTypes, RunInv, fifoVars
  <2>3. CASE Relay
    <3> DEFINE to == {fd[j] : j \in 1 .. Nfd \ {i}} \ {NoFile}
    <3>1. \/ /\ toClient' = [c \in Clients |-> toClient[c] \/ <<c, 1>> \in to]
             /\ toServer' = [c \in Clients |-> toServer[c] \/ <<c, 0>> \in to]
             /\ mpc' = "pass" /\ i' = AfterTurn
          \/ mpc' = "dead" /\ UNCHANGED <<i, toServer, toClient>>
      BY <2>3 DEF Relay, fifoVars
    <3>2. Nfd > 0
      BY <2>3 DEF Relay, RunInv
    <3>3. AfterTurn \in Nat \ {0}
      BY <1>2, <1>3, <3>2
    <3>4. CASE mpc' = "dead" /\ UNCHANGED <<i, toServer, toClient>>
      BY <3>4 DEF MainTypes
    <3>5. CASE /\ toClient' = [c \in Clients |-> toClient[c] \/ <<c, 1>> \in to]
               /\ toServer' = [c \in Clients |-> toServer[c] \/ <<c, 0>> \in to]
               /\ mpc' = "pass" /\ i' = AfterTurn
      <4> HIDE DEF to
      <4>1. toServer' \in [Clients -> BOOLEAN] /\ toClient' \in [Clients -> BOOLEAN]
        BY <3>5, Zenon
      <4>2. QED  BY <3>3, <3>5, <4>1
    <3>6. QED  BY <3>1, <3>4, <3>5
  <2>4. QED  BY <2>1, <2>2, <2>3 DEF Main
<1>5. HandlerTypes' /\ MainTypes'
  BY <1>1, <1>4 DEF HandlerTypes, MainTypes
<1>6. RunInv'
  BY <1>1, <1>4 DEF RunInv, Nfd
<1>7. OneAtATime' /\ PairsInv'
  BY <1>1 DEF OneAtATime, PairsInv, Handling, Joiner, Nfd
<1>8. DiesForAReason'
  <2> SUFFICES ASSUME mpc' = "dead", mpc # "dead"
               PROVE  \E c \in Clients : cpc[c] = "gone"
    BY <1>1 DEF DiesForAReason
  <2>1. PICK f \in {fd[j] : j \in 1 .. Nfd \ {i}} \ {NoFile} : cpc[f[1]] = "gone"
    BY DEF Main, Read, Skip, Relay
  <2>2. f \in Files \ {NoFile}
    BY <1>2, <2>1 DEF HandlerTypes, Nfd
  <2>3. f[1] \in Clients
    BY <2>2 DEF Files
  <2>4. QED  BY <2>1, <2>3
<1>9. QED  BY <1>5, <1>6, <1>7, <1>8

-----------------------------------------------------------------------------
(* The clients *)

LEMMA NameStep == ASSUME IInv, NEW c \in Clients, Name(c) PROVE IInv'
<1> USE DEF IInv, TypeOK
<1>1. /\ cpc[c] = "away" /\ cpc' = [cpc EXCEPT ![c] = "named"] /\ fifoname' = <<c, 0>>
      /\ raced' \in BOOLEAN /\ (~raced' => ~raced /\ ~Joining)
      /\ UNCHANGED <<poll, pending, hpc, name, pfd, fd, mpc, i, toServer, toClient>>
  BY DEF Name, handlerVars, mainVars, fifoVars, MainTypes
<1>2. cpc'[c] = "named" /\ \A d \in Clients : d # c => cpc'[d] = cpc[d]
  BY <1>1 DEF MainTypes
<1>3. HandlerTypes'
  BY <1>1 DEF HandlerTypes, Files
<1>4. MainTypes'
  BY <1>1 DEF MainTypes
<1>5. RunInv' /\ DiesForAReason'
  BY <1>1, <1>2 DEF RunInv, DiesForAReason, Nfd, NoFile
<1>6. CASE raced'
  BY <1>3, <1>4, <1>5, <1>6 DEF OneAtATime, PairsInv
<1>7. CASE ~raced'
  <2>1. ~raced /\ ~Handling /\ ~Handling' /\ \A d \in Clients : cpc[d] # "named"
    BY <1>1, <1>7 DEF Joining, Handling
  <2>2. OneAtATime'
    BY <1>1, <1>2, <2>1 DEF OneAtATime, Handling
  <2>3. PairsInv'
    BY <1>1, <1>2, <2>1 DEF PairsInv, Nfd
  <2>4. QED  BY <1>3, <1>4, <1>5, <2>2, <2>3
<1>8. QED  BY <1>6, <1>7

LEMMA JoinStep == ASSUME IInv, NEW c \in Clients, Join(c) PROVE IInv'
<1> USE DEF IInv, TypeOK
<1>1. /\ cpc[c] = "named" /\ cpc' = [cpc EXCEPT ![c] = "in"] /\ pending' /\ pending' \in BOOLEAN
      /\ UNCHANGED <<poll, fifoname, hpc, name, pfd, fd, mpc, i, toServer, toClient, raced>>
  BY DEF Join, handlerVars, mainVars, fifoVars
<1>2. cpc'[c] = "in" /\ \A d \in Clients : d # c => cpc'[d] = cpc[d]
  BY <1>1 DEF MainTypes
<1>3. HandlerTypes' /\ MainTypes'
  BY <1>1 DEF HandlerTypes, MainTypes
<1>4. RunInv' /\ DiesForAReason'
  <2>1. fifoname # NoFile
    BY <1>1 DEF RunInv
  <2>2. QED  BY <1>1, <1>2, <2>1 DEF RunInv, DiesForAReason, Nfd
<1>5. CASE raced
  BY <1>1, <1>3, <1>4, <1>5 DEF OneAtATime, PairsInv
<1>6. CASE ~raced
  <2>1. ~Handling /\ hpc = "none" /\ fifoname = <<c, 0>> /\ Handling'
    BY <1>1, <1>6 DEF OneAtATime, Handling
  <2>2. ~Held(<<c, 0>>, pfd)
    <3>1. DOMAIN pfd = 1 .. Len(pfd)
      BY DEF HandlerTypes
    <3>2. QED  BY <1>1, <1>6, <3>1 DEF PairsInv, Held
  <2>3. Joiner(c)'
    BY <1>1, <1>2, <2>1, <2>2 DEF Joiner
  <2>4. \A d \in Clients : cpc'[d] # "named"
    BY <1>1, <1>2, <1>6, <2>1 DEF OneAtATime
  <2>5. OneAtATime'
    BY <1>1, <2>1, <2>3, <2>4 DEF OneAtATime
  <2>6. PairsInv'
    BY <1>1, <1>2, <1>6, <2>1, <2>3 DEF PairsInv, Nfd
  <2>7. QED  BY <1>3, <1>4, <2>5, <2>6
<1>7. QED  BY <1>5, <1>6

LEMMA TypeHearStep == ASSUME IInv, NEW c \in Clients, Type(c) \/ Hear(c) PROVE IInv'
<1> USE DEF IInv, TypeOK
<1>1. UNCHANGED <<poll, fifoname, pending, hpc, name, pfd, fd, mpc, i, cpc, raced>>
  BY DEF Type, Hear, handlerVars, mainVars
<1>2. toServer' \in [Clients -> BOOLEAN] /\ toClient' \in [Clients -> BOOLEAN]
  BY DEF Type, Hear, MainTypes
<1>3. HandlerTypes' /\ MainTypes'
  BY <1>1, <1>2 DEF HandlerTypes, MainTypes
<1>4. RunInv' /\ DiesForAReason' /\ OneAtATime' /\ PairsInv'
  BY <1>1 DEF RunInv, DiesForAReason, OneAtATime, PairsInv, Handling, Joiner, Nfd
<1>5. QED  BY <1>3, <1>4

LEMMA KillStep == ASSUME IInv, NEW c \in Clients, Kill(c) PROVE IInv'
<1> USE DEF IInv, TypeOK
<1>1. /\ cpc[c] \in {"named", "in"} /\ cpc' = [cpc EXCEPT ![c] = "gone"]
      /\ UNCHANGED <<poll, fifoname, pending, hpc, name, pfd, fd, mpc, i, toServer, toClient, raced>>
  BY DEF Kill, handlerVars, mainVars, fifoVars
<1>2. cpc'[c] = "gone" /\ \A d \in Clients : d # c => cpc'[d] = cpc[d]
  BY <1>1 DEF MainTypes
<1>3. HandlerTypes' /\ MainTypes'
  BY <1>1 DEF HandlerTypes, MainTypes
<1>4. RunInv' /\ DiesForAReason'
  <2>1. fifoname # NoFile
    BY <1>1 DEF RunInv
  <2>2. QED  BY <1>1, <1>2, <2>1 DEF RunInv, DiesForAReason, Nfd
<1>5. \A d \in Clients : Joiner(d) => Joiner(d)'
  BY <1>1, <1>2 DEF Joiner
<1>6. Handling' <=> Handling
  BY <1>1 DEF Handling
<1>7. OneAtATime'
  BY <1>1, <1>2, <1>5, <1>6 DEF OneAtATime
<1>8. PairsInv'
  BY <1>1, <1>2, <1>5, <1>6 DEF PairsInv, Nfd
<1>9. QED  BY <1>3, <1>4, <1>7, <1>8

-----------------------------------------------------------------------------
LEMMA StepInv == IInv /\ [Next]_vars => IInv'
<1> SUFFICES ASSUME IInv, [Next]_vars PROVE IInv'
  OBVIOUS
<1>1. CASE Handler
  BY <1>1, DeliverStep, OpenReaderStep, AppendOneStep, TakeNameStep, OpenWriterStep DEF Handler
<1>2. CASE Main
  BY <1>2, MainSteps
<1>3. CASE \E c \in Clients : Join(c) \/ Hear(c) \/ User(c)
  BY <1>3, NameStep, JoinStep, TypeHearStep, KillStep DEF User
<1>4. CASE UNCHANGED vars
  <2> USE <1>4 DEF vars, handlerVars, mainVars, fifoVars, IInv
  <2>1. TypeOK'
    BY DEF TypeOK, HandlerTypes, MainTypes
  <2>2. RunInv' /\ DiesForAReason' /\ OneAtATime' /\ PairsInv'
    BY DEF RunInv, DiesForAReason, OneAtATime, PairsInv, Handling, Joiner, Nfd
  <2>3. QED  BY <2>1, <2>2
<1>5. QED  BY <1>1, <1>2, <1>3, <1>4 DEF Next

\* The invariant says what the run checks.
LEMMA InvImplies == IInv => ChatInv
<1> SUFFICES ASSUME IInv PROVE ChatInv
  OBVIOUS
<1> USE DEF IInv, TypeOK
<1>1. Len(pfd) \in Nat /\ Len(fd) \in Nat /\ Len(fd) <= Len(pfd)
  BY DEF HandlerTypes
<1>2. PairsMatch
  <2> SUFFICES ASSUME ~raced
               PROVE  /\ \A k \in 1 .. Nfd : pfd[k][2] = 0 /\ fd[k] = <<pfd[k][1], 1>>
                      /\ \A k, l \in 1 .. Nfd : pfd[k] = pfd[l] => k = l
    BY DEF PairsMatch
  <2>1. \A k \in 1 .. Nfd : k \in 1 .. Len(pfd)
    BY <1>1 DEF Nfd
  <2>2. \A k \in 1 .. Nfd : pfd[k][2] = 0
    BY <2>1 DEF PairsInv
  <2>3. QED  BY <2>1, <2>2 DEF PairsInv
<1>3. EveryoneJoins
  BY DEF EveryoneJoins, PairsInv, Handling
<1>4. HangsForAReason
  <2> SUFFICES ASSUME hpc \in {"reader", "writer"}, ~CanRead(name), ~CanWrite(name), ~raced
               PROVE  cpc[name[1]] = "gone"
    BY DEF HangsForAReason
  <2>1. PICK c \in Clients : Joiner(c)
    BY DEF OneAtATime, Handling
  <2>2. name = <<c, 0>> \/ name = <<c, 1>>
    BY <2>1 DEF Joiner
  <2>3. cpc[c] # "in"
    BY <2>2 DEF CanRead, CanWrite
  <2>4. QED  BY <2>1, <2>2, <2>3 DEF Joiner
<1>5. QED  BY <1>2, <1>3, <1>4 DEF ChatInv

\* For any number of clients, with poll() and with select(): as long as clients join one
\* after the other, pfd[] and fd[] hold the two fifos of each client that joined, once and
\* side by side; the handler hangs and the server ends only for the reasons given.
THEOREM ChatCorrect == Spec => []ChatInv
<1>1. Init => IInv                    BY InitInv
<1>2. IInv /\ [Next]_vars => IInv'    BY StepInv
<1>3. IInv => ChatInv                 BY InvImplies
<1>4. QED  BY <1>1, <1>2, <1>3, PTL DEF Spec

-----------------------------------------------------------------------------
(* FifoServices, MSS and the log server, whose clients are others *)

CONSTANT Wants
VARIABLES logging, server, req, service, lines, type, number, answer

Fifo == INSTANCE FifoServices

\* There are as many sets of clients as processes.
LEMMA FifoFinite ==
  ASSUME Fifo!FifoAssumption
  PROVE  IsFiniteSet(Clients) /\ Fifo!MostCopies = Cardinality(SUBSET Clients)
<1>1. IsFiniteSet(Clients)
  BY DEF Fifo!FifoAssumption, IsFiniteSet, Fifo!IsFiniteSet
<1>2. Fifo!MostCopies = Cardinality(SUBSET Clients)
  BY DEF Fifo!MostCopies, Cardinality, Fifo!Cardinality
<1>3. QED  BY <1>1, <1>2

\* The client of a request has not been served, nor is about to be.
InReq(c) == \E j \in DOMAIN req : req[j][1] = c
Untouched(c) ==
  /\ \A k \in DOMAIN server : server[k].buf = <<>> \/ server[k].buf[1] # c
  /\ \A s \in DOMAIN service : Fifo!Client(s) # c
  /\ answer[c] = 0

\* A client asks once, and only who has asked is known to the server.
AskInv ==
  /\ \A c \in Clients : cpc[c] \in {"away", "open"} => ~InReq(c)
  /\ \A c \in Clients : cpc[c] \in {"away", "open"} \/ InReq(c) => Untouched(c)
  /\ \A a, j \in DOMAIN req : req[a][1] = req[j][1] => a = j

\* What is known of a request is what the client asked for.
Truthful ==
  /\ \A j \in DOMAIN req : req[j][2] = type[req[j][1]]
  /\ \A k \in DOMAIN server : server[k].buf # <<>> => server[k].buf[2] = type[server[k].buf[1]]
  /\ \A s \in DOMAIN service : service[s].type = type[Fifo!Client(s)]

\* A buf is empty only before the first request.
BufInv ==
  \A k \in DOMAIN server :
    server[k].buf = <<>> => Len(server) = 1 /\ server[k].pc # "fork"

\* Whoever is the last to wait in read() has something to read.
ListenInv == (\A k \in DOMAIN server : server[k].pc = "read") => req # <<>>

\* The request that is about to be started is started for the first time, by this process
\* only, or by a copy when its client is gone.
NotStarted(k) ==
  /\ \A s \in DOMAIN service : Fifo!Client(s) # server[k].buf[1]
  /\ \A j \in DOMAIN server :
       server[j].pc = "fork" /\ server[j].buf[1] = server[k].buf[1] => j = k
ByACopy(k) == Len(server) > 1 /\ server[k].buf[1] \notin Fifo!Writers
ForkInv == \A k \in DOMAIN server : server[k].pc = "fork" => NotStarted(k) \/ ByACopy(k)

\* While a service talks to its client nobody has answered the client.
ServiceInv ==
  /\ \A s \in DOMAIN service : service[s].pc \in {"read", "write"} =>
       answer[Fifo!Client(s)] = 0 /\ cpc[Fifo!Client(s)] \in {"asked", "killed"}
  /\ \A c \in Clients : answer[c] # 0 =>
       \E s \in DOMAIN service : Fifo!Client(s) = c /\ service[s].pc \in {"log", "end"}

\* Every request that is taken may double the processes, and no other step adds to what
\* may still become of them.
Taken    == {c \in Clients : cpc[c] \notin {"away", "open"} /\ ~InReq(c)}
Reading  == {k \in DOMAIN server : server[k].pc = "read"}
Forking  == {k \in DOMAIN server : server[k].pc = "fork"}
Becoming == Len(server) + Len(service) + Cardinality(Forking)
CopyInv ==
  /\ Becoming <= Cardinality(SUBSET Taken)
  /\ req = <<>> => Becoming + Cardinality(Reading) <= Cardinality(SUBSET Taken)

\* TypeOK without the bound on the processes, which CopyInv implies.
ServerPcs  == {"poll", "read", "fork", "log"}
ServicePcs == {"open", "read", "write", "log", "end", "spin", "dead"}
ServerProcess  == [pc : ServerPcs, buf : (Clients \X Nat) \union {<<>>}]
ServiceProcess == [client : Clients, type : Fifo!Programs, pc : ServicePcs]
FifoTypes ==
  /\ logging \in BOOLEAN
  /\ server \in Seq(ServerProcess) /\ req \in Seq(Clients \X Nat)
  /\ service \in Seq(ServiceProcess)
  /\ lines \in Nat
  /\ cpc \in [Clients -> {"away", "open", "asked", "done", "killed"}]
  /\ type \in [Clients -> Nat]
  /\ number \in [Clients -> BOOLEAN] /\ answer \in [Clients -> Fifo!Programs \union {0}]

FifoIInv ==
  /\ FifoTypes /\ AskInv /\ Truthful /\ BufInv /\ ListenInv /\ ForkInv /\ ServiceInv /\ CopyInv
  /\ Fifo!TwiceOnlyByACopy /\ Fifo!RightAnswer /\ Fifo!FailsOnlyWithItsClient

-----------------------------------------------------------------------------
(* Sequences and sets *)

LEMMA FifoPair ==
  ASSUME NEW p \in Clients \X Nat
  PROVE  p[1] \in Clients /\ p[2] \in Nat /\ p # <<>>
OBVIOUS

LEMMA FifoAppend ==
  ASSUME NEW S, NEW q \in Seq(S), NEW m \in S
  PROVE  /\ Append(q, m) \in Seq(S) /\ Len(Append(q, m)) = Len(q) + 1 /\ Len(q) \in Nat
         /\ DOMAIN q = 1 .. Len(q) /\ DOMAIN Append(q, m) = 1 .. Len(q) + 1
         /\ \A j \in 1 .. Len(q) : Append(q, m)[j] = q[j]
         /\ Append(q, m)[Len(q) + 1] = m
OBVIOUS

LEMMA FifoTail ==
  ASSUME NEW S, NEW q \in Seq(S), q # <<>>
  PROVE  /\ Tail(q) \in Seq(S) /\ Head(q) = q[1] /\ q[1] \in S /\ 1 \in DOMAIN q
         /\ \A j \in DOMAIN Tail(q) : j \in Nat \ {0} /\ j + 1 \in DOMAIN q /\ Tail(q)[j] = q[j + 1]
         /\ \A j \in DOMAIN q : j = 1 \/ (j - 1 \in DOMAIN Tail(q) /\ Tail(q)[j - 1] = q[j])
OBVIOUS

LEMMA FifoExcept ==
  ASSUME NEW S, NEW q \in Seq(S), NEW k \in DOMAIN q, NEW m \in S
  PROVE  LET r == [q EXCEPT ![k] = m] IN
         /\ r \in Seq(S) /\ Len(r) = Len(q) /\ DOMAIN r = DOMAIN q /\ r[k] = m
         /\ \A j \in DOMAIN q : j # k => r[j] = q[j]
OBVIOUS

\* With one element more there are twice as many subsets.
LEMMA FifoDoubling ==
  ASSUME NEW S, IsFiniteSet(S), NEW x, x \notin S
  PROVE  Cardinality(SUBSET (S \union {x})) = 2 * Cardinality(SUBSET S)
<1> DEFINE A == SUBSET S
           B == {T \union {x} : T \in A}
           f == [T \in A |-> T \union {x}]
<1>1. SUBSET (S \union {x}) = A \union B
  <2>1. ASSUME NEW T \in SUBSET (S \union {x}), x \in T PROVE T \in B
    <3>1. T \ {x} \in A /\ T = (T \ {x}) \union {x}
      BY <2>1
    <3>2. QED  BY <3>1
  <2>2. ASSUME NEW T \in SUBSET (S \union {x}), x \notin T PROVE T \in A
    BY <2>2
  <2>3. A \subseteq SUBSET (S \union {x}) /\ B \subseteq SUBSET (S \union {x})
    OBVIOUS
  <2>4. QED  BY <2>1, <2>2, <2>3
<1>2. A \cap B = {}
  OBVIOUS
<1>3. IsFiniteSet(A) /\ Cardinality(A) \in Nat
  BY FS_SUBSET, FS_CardinalityType
<1>4. f \in Bijection(A, B)
  <2>1. f \in [A -> B]
    OBVIOUS
  <2>2. \A T, U \in A : f[T] = f[U] => T = U
    <3> SUFFICES ASSUME NEW T \in A, NEW U \in A, T \union {x} = U \union {x} PROVE T = U
      OBVIOUS
    <3>1. x \notin T /\ x \notin U
      OBVIOUS
    <3>2. \A y : y \in T <=> y \in U
      BY <3>1
    <3>3. QED  BY <3>2
  <2>3. \A V \in B : \E T \in A : f[T] = V
    OBVIOUS
  <2>4. QED  BY <2>1, <2>2, <2>3, Fun_IsBij
<1>5. IsFiniteSet(B) /\ Cardinality(B) = Cardinality(A)
  <2>1. ExistsBijection(A, B)
    BY <1>4, Fun_ExistsBij
  <2>2. QED  BY <1>3, <2>1, FS_Bijection
<1>6. Cardinality(A \union B) = Cardinality(A) + Cardinality(B) - Cardinality(A \cap B)
  BY <1>3, <1>5, FS_Union
<1>7. Cardinality({}) = 0
  BY FS_EmptySet
<1> HIDE DEF A, B
<1>8. Cardinality(A \union B) = 2 * Cardinality(A)
  <2>1. Cardinality(A \cap B) = 0
    BY <1>2, <1>7
  <2> DEFINE n == Cardinality(A)
             m == Cardinality(A \cap B)
             b == Cardinality(B)
             u == Cardinality(A \union B)
  <2>2. n \in Nat /\ b = n /\ m = 0 /\ u = n + b - m
    BY <1>3, <1>5, <1>6, <2>1
  <2> HIDE DEF n, m, b, u
  <2>3. u = 2 * n
    BY <2>2
  <2>4. QED  BY <2>3 DEF u, n
<1>9. QED  BY <1>1, <1>8 DEF A

LEMMA FifoSubsets ==
  ASSUME NEW S, IsFiniteSet(S)
  PROVE  IsFiniteSet(SUBSET S) /\ Cardinality(SUBSET S) \in Nat
BY FS_SUBSET, FS_CardinalityType

LEMMA FifoMoreSubsets ==
  ASSUME NEW S, IsFiniteSet(S), NEW T \in SUBSET S
  PROVE  Cardinality(SUBSET T) <= Cardinality(SUBSET S)
<1>1. SUBSET T \in SUBSET (SUBSET S)
  OBVIOUS
<1>2. IsFiniteSet(SUBSET S)
  BY FifoSubsets
<1>3. QED  BY <1>1, <1>2, FS_Subset

-----------------------------------------------------------------------------
(* One process of the server, or one service, goes on *)

LEMMA MovesFacts ==
  ASSUME server \in Seq(ServerProcess), NEW k \in DOMAIN server, NEW pc \in ServerPcs, Fifo!Moves(k, pc)
  PROVE  /\ server' \in Seq(ServerProcess) /\ Len(server') = Len(server)
         /\ DOMAIN server' = DOMAIN server
         /\ server'[k].pc = pc /\ server'[k].buf = server[k].buf
         /\ \A j \in DOMAIN server : j # k => server'[j] = server[j]
<1> DEFINE m == [server[k] EXCEPT !.pc = pc]
<1>1. server[k] \in ServerProcess
  OBVIOUS
<1>2. m \in ServerProcess /\ m.pc = pc /\ m.buf = server[k].buf
  BY <1>1 DEF ServerProcess
<1>3. server' = [server EXCEPT ![k] = m]
  BY DEF Fifo!Moves
<1> HIDE DEF m
<1>4. QED  BY <1>2, <1>3, FifoExcept

LEMMA GoesFacts ==
  ASSUME service \in Seq(ServiceProcess), NEW s \in DOMAIN service, NEW pc \in ServicePcs, Fifo!Goes(s, pc)
  PROVE  /\ service' \in Seq(ServiceProcess) /\ Len(service') = Len(service)
         /\ DOMAIN service' = DOMAIN service
         /\ service'[s].pc = pc
         /\ \A r \in DOMAIN service : /\ service'[r].client = service[r].client
                                      /\ service'[r].type = service[r].type
                                      /\ r # s => service'[r] = service[r]
<1> DEFINE m == [service[s] EXCEPT !.pc = pc]
<1>1. service[s] \in ServiceProcess
  OBVIOUS
<1>2. m \in ServiceProcess /\ m.pc = pc /\ m.client = service[s].client /\ m.type = service[s].type
  BY <1>1 DEF ServiceProcess
<1>3. service' = [service EXCEPT ![s] = m]
  BY DEF Fifo!Goes
<1> HIDE DEF m
<1>4. /\ service' \in Seq(ServiceProcess) /\ Len(service') = Len(service)
      /\ DOMAIN service' = DOMAIN service /\ service'[s] = m
      /\ \A j \in DOMAIN service : j # s => service'[j] = service[j]
  BY <1>2, <1>3, FifoExcept
<1>5. QED  BY <1>2, <1>4

\* The records of the processes.
LEMMA FifoRecords ==
  ASSUME FifoTypes
  PROVE  /\ \A k \in DOMAIN server :
              /\ server[k].pc \in ServerPcs
              /\ server[k].buf # <<>> =>
                   server[k].buf[1] \in Clients /\ server[k].buf[2] \in Nat
         /\ \A s \in DOMAIN service : Fifo!Client(s) \in Clients /\ service[s].pc \in ServicePcs
         /\ \A j \in DOMAIN req : req[j] # <<>> /\ req[j][1] \in Clients /\ req[j][2] \in Nat
<1>1. ASSUME NEW k \in DOMAIN server
      PROVE  /\ server[k].pc \in ServerPcs
             /\ server[k].buf # <<>> => server[k].buf[1] \in Clients /\ server[k].buf[2] \in Nat
  <2>1. server[k] \in ServerProcess
    BY DEF FifoTypes
  <2>2. server[k].pc \in ServerPcs /\ server[k].buf \in (Clients \X Nat) \union {<<>>}
    BY <2>1 DEF ServerProcess
  <2>3. QED  BY <2>2, FifoPair
<1>2. ASSUME NEW s \in DOMAIN service PROVE Fifo!Client(s) \in Clients /\ service[s].pc \in ServicePcs
  <2>1. service[s] \in ServiceProcess
    BY DEF FifoTypes
  <2>2. QED  BY <2>1 DEF ServiceProcess, Fifo!Client
<1>3. ASSUME NEW j \in DOMAIN req PROVE req[j] # <<>> /\ req[j][1] \in Clients /\ req[j][2] \in Nat
  <2>1. req[j] \in Clients \X Nat
    BY DEF FifoTypes
  <2>2. QED  BY <2>1, FifoPair
<1>4. QED  BY <1>1, <1>2, <1>3

\* Counting processes.
LEMMA FifoCounts ==
  ASSUME Fifo!FifoAssumption,
         FifoTypes
  PROVE  /\ Len(server) \in Nat /\ Len(service) \in Nat /\ DOMAIN server = 1 .. Len(server)
         /\ DOMAIN service = 1 .. Len(service)
         /\ IsFiniteSet(Reading) /\ Cardinality(Reading) \in Nat
         /\ IsFiniteSet(Forking) /\ Cardinality(Forking) \in Nat
         /\ Cardinality(Reading) + Cardinality(Forking) <= Len(server)
         /\ IsFiniteSet(Taken) /\ Cardinality(SUBSET Taken) \in Nat
         /\ Cardinality(SUBSET Taken) <= Fifo!MostCopies
<1>1. /\ Len(server) \in Nat /\ Len(service) \in Nat /\ DOMAIN server = 1 .. Len(server)
      /\ DOMAIN service = 1 .. Len(service)
  BY DEF FifoTypes
<1>2. IsFiniteSet(1 .. Len(server)) /\ Cardinality(1 .. Len(server)) = Len(server)
  <2> DEFINE n == Len(server)
  <2>1. n \in Nat /\ n \in Int /\ 1 \in Int
    BY <1>1
  <2> HIDE DEF n
  <2>2. /\ IsFiniteSet(1 .. n)
        /\ Cardinality(1 .. n) = IF 1 > n THEN 0 ELSE n - 1 + 1
    BY <2>1, FS_Interval
  <2>3. IsFiniteSet(1 .. n) /\ Cardinality(1 .. n) = n
    BY <2>1, <2>2
  <2>4. QED  BY <2>3 DEF n
<1>3. Reading \in SUBSET (1 .. Len(server)) /\ Forking \in SUBSET (1 .. Len(server))
  BY <1>1 DEF Reading, Forking
<1>4. IsFiniteSet(Reading) /\ IsFiniteSet(Forking)
  BY <1>2, <1>3, FS_Subset
<1>5. Cardinality(Reading) \in Nat /\ Cardinality(Forking) \in Nat
  BY <1>4, FS_CardinalityType
<1>6. Cardinality(Reading) + Cardinality(Forking) <= Len(server)
  <2>1. Reading \cap Forking = {}
    BY DEF Reading, Forking
  <2>2. Cardinality(Reading \cap Forking) = 0
    BY <2>1, FS_EmptySet
  <2>3. Cardinality(Reading \union Forking)
          = Cardinality(Reading) + Cardinality(Forking) - Cardinality(Reading \cap Forking)
    BY <1>4, FS_Union
  <2>4. Cardinality(Reading \union Forking) <= Cardinality(1 .. Len(server))
    <3>1. Reading \union Forking \in SUBSET (1 .. Len(server))  BY <1>3
    <3>2. QED  BY <1>2, <3>1, FS_Subset
  <2>5. QED  BY <1>1, <1>2, <1>5, <2>2, <2>3, <2>4
<1>7. Taken \in SUBSET Clients /\ IsFiniteSet(Clients)
  BY FifoFinite DEF Taken
<1>8. IsFiniteSet(Taken)
  BY <1>7, FS_Subset
<1>9. Cardinality(SUBSET Taken) \in Nat /\ Cardinality(SUBSET Taken) <= Fifo!MostCopies
  BY <1>7, <1>8, FifoFinite, FifoSubsets, FifoMoreSubsets
<1>10. QED  BY <1>1, <1>4, <1>5, <1>6, <1>8, <1>9

\* Steps that change neither who reads nor who forks, and take nothing back.
LEMMA CopiesKept ==
  ASSUME Fifo!FifoAssumption,
         FifoTypes, FifoTypes', CopyInv, Len(server') = Len(server), Len(service') = Len(service),
         Forking' = Forking, req' # <<>> \/ (req = <<>> /\ Reading' = Reading),
         Taken \subseteq Taken'
  PROVE  CopyInv'
<1>1. IsFiniteSet(Taken') /\ Taken \in SUBSET (Taken')
  <2>1. IsFiniteSet(Clients) /\ Taken' \in SUBSET Clients
    BY FifoFinite DEF Taken
  <2>2. QED  BY <2>1, FS_Subset
<1>2. Cardinality(SUBSET Taken) <= Cardinality(SUBSET (Taken'))
  BY <1>1, FifoMoreSubsets
<1>3. Cardinality(SUBSET Taken) \in Nat /\ Cardinality(SUBSET (Taken')) \in Nat
  BY <1>1, FifoCounts, FifoSubsets
<1>4. Becoming' = Becoming /\ Becoming \in Nat /\ Cardinality(Reading) \in Nat
  BY FifoCounts DEF Becoming
<1>5. Becoming' <= Cardinality(SUBSET (Taken'))
  BY <1>2, <1>3, <1>4 DEF CopyInv
<1>6. req' = <<>> => Becoming' + Cardinality(Reading') <= Cardinality(SUBSET (Taken'))
  <2> SUFFICES ASSUME req' = <<>> PROVE Becoming' + Cardinality(Reading') <= Cardinality(SUBSET (Taken'))
    OBVIOUS
  <2>1. Reading' = Reading /\ Becoming + Cardinality(Reading) <= Cardinality(SUBSET Taken)
    BY DEF CopyInv
  <2>2. QED  BY <1>2, <1>3, <1>4, <2>1
<1>7. QED  BY <1>5, <1>6 DEF CopyInv

LEMMA FifoInit ==
  ASSUME Fifo!FifoAssumption
  PROVE  Fifo!Init => FifoIInv
<1> SUFFICES ASSUME Fifo!Init PROVE FifoIInv
  OBVIOUS
<1> USE DEF Fifo!Init, Fifo!FifoAssumption
<1> DEFINE p == [pc |-> "poll", buf |-> <<>>]
<1>1. /\ server \in Seq(ServerProcess) /\ Len(server) = 1 /\ DOMAIN server = {1}
      /\ server[1].pc = "poll" /\ server[1].buf = <<>>
  <2>1. p \in ServerProcess
    BY DEF ServerProcess, ServerPcs
  <2>2. server = <<p>>
    OBVIOUS
  <2>3. p.pc = "poll" /\ p.buf = <<>>
    OBVIOUS
  <2> HIDE DEF p
  <2>4. server \in Seq(ServerProcess) /\ Len(server) = 1 /\ server[1] = p
    BY <2>1, <2>2
  <2>5. DOMAIN server = 1 .. 1
    BY <2>4
  <2>6. 1 .. 1 = {1}
    OBVIOUS
  <2>7. QED  BY <2>3, <2>4, <2>5, <2>6
<1>2. DOMAIN req = {} /\ DOMAIN service = {} /\ Len(service) = 0
  <2>1. DOMAIN <<>> = {} /\ Len(<<>>) = 0
    OBVIOUS
  <2>2. QED  BY <2>1
<1>3. FifoTypes
  <2>1. req \in Seq(Clients \X Nat) /\ service \in Seq(ServiceProcess)
    OBVIOUS
  <2>2. QED  BY <1>1, <2>1 DEF FifoTypes
<1>4. AskInv /\ Truthful /\ BufInv /\ ListenInv /\ ForkInv /\ ServiceInv
  <2>1. \A c \in Clients : ~InReq(c) /\ Untouched(c)
    BY <1>1, <1>2 DEF InReq, Untouched
  <2>2. AskInv      BY <1>2, <2>1 DEF AskInv
  <2>3. Truthful    BY <1>1, <1>2 DEF Truthful
  <2>4. BufInv      BY <1>1 DEF BufInv
  <2>5. ListenInv   BY <1>1 DEF ListenInv
  <2>6. ForkInv     BY <1>1 DEF ForkInv
  <2>7. ServiceInv  BY <1>2 DEF ServiceInv
  <2>8. QED  BY <2>2, <2>3, <2>4, <2>5, <2>6, <2>7
<1>5. CopyInv
  <2>1. Reading = {} /\ Forking = {}
    BY <1>1 DEF Reading, Forking
  <2>2. Cardinality(Reading) = 0 /\ Cardinality(Forking) = 0
    BY <2>1, FS_EmptySet
  <2>3. Cardinality(SUBSET Taken) >= 1
    <3>1. {{}} \in SUBSET (SUBSET Taken) /\ IsFiniteSet(SUBSET Taken)
      BY <1>3, FifoCounts, FifoSubsets
    <3>2. Cardinality({{}}) = 1
      BY FS_Singleton
    <3>3. Cardinality({{}}) <= Cardinality(SUBSET Taken)
      BY <3>1, FS_Subset
    <3>4. QED  BY <1>3, <3>2, <3>3, FifoCounts
  <2>4. Cardinality(SUBSET Taken) \in Nat
    BY <1>3, FifoCounts
  <2>5. QED  BY <1>1, <1>2, <2>2, <2>3, <2>4 DEF CopyInv, Becoming
<1>6. Fifo!TwiceOnlyByACopy /\ Fifo!RightAnswer /\ Fifo!FailsOnlyWithItsClient
  BY <1>2 DEF Fifo!TwiceOnlyByACopy, Fifo!RightAnswer, Fifo!FailsOnlyWithItsClient
<1>7. QED  BY <1>3, <1>4, <1>5, <1>6 DEF FifoIInv

-----------------------------------------------------------------------------
(* The server and its copies *)

\* Nobody begins to fork, and the clients that are gone stay so.
LEMMA ForkKept ==
  ASSUME FifoIInv, DOMAIN service' = DOMAIN service,
         \A s \in DOMAIN service : Fifo!Client(s)' = Fifo!Client(s),
         \A j \in DOMAIN server' :
           server'[j].pc = "fork" => j \in DOMAIN server /\ server'[j] = server[j],
         Len(server) \in Nat, Len(server') \in Nat, Len(server') >= Len(server),
         \A c \in Clients : c \in Fifo!Writers' => c \in Fifo!Writers \/ Untouched(c)
  PROVE  ForkInv'
<1> SUFFICES ASSUME NEW k \in DOMAIN server', server'[k].pc = "fork"
             PROVE  NotStarted(k)' \/ ByACopy(k)'
  BY DEF ForkInv
<1>1. k \in DOMAIN server /\ server'[k] = server[k] /\ server[k].pc = "fork"
  OBVIOUS
<1>2. server[k].buf # <<>> /\ server[k].buf[1] \in Clients
  BY <1>1, FifoRecords DEF FifoIInv, BufInv
<1>3. NotStarted(k) => NotStarted(k)'
  BY <1>1 DEF NotStarted
<1>4. ByACopy(k) => ByACopy(k)'
  BY <1>1, <1>2 DEF ByACopy, Untouched
<1>5. QED  BY <1>1, <1>3, <1>4 DEF FifoIInv, ForkInv

\* What does not depend on where the server's processes are.
LEMMA MoveKeeps ==
  ASSUME FifoIInv, NEW k \in DOMAIN server, NEW pc \in ServerPcs, Fifo!Moves(k, pc),
         UNCHANGED <<logging, req, service, cpc, type, number, answer>>, lines' \in Nat,
         pc = "fork" => server[k].buf # <<>>
  PROVE  /\ FifoTypes' /\ AskInv' /\ Truthful' /\ BufInv' /\ ServiceInv'
         /\ Fifo!TwiceOnlyByACopy' /\ Fifo!RightAnswer' /\ Fifo!FailsOnlyWithItsClient'
<1> USE DEF FifoIInv
<1>1. /\ server' \in Seq(ServerProcess) /\ Len(server') = Len(server)
      /\ DOMAIN server' = DOMAIN server
      /\ server'[k].pc = pc /\ server'[k].buf = server[k].buf
      /\ \A j \in DOMAIN server : j # k => server'[j] = server[j]
  BY MovesFacts DEF FifoTypes
<1>2. \A j \in DOMAIN server : server'[j].buf = server[j].buf
  BY <1>1
<1>3. FifoTypes'
  BY <1>1 DEF FifoTypes
<1>4. \A c \in Clients : (InReq(c)' <=> InReq(c)) /\ (Untouched(c) => Untouched(c)')
  BY <1>1, <1>2 DEF InReq, Untouched, Fifo!Client
<1>5. AskInv'
  BY <1>4 DEF AskInv
<1>6. Truthful'
  BY <1>1, <1>2 DEF Truthful, Fifo!Client
<1>7. BufInv'
  BY <1>1 DEF BufInv
<1>8. ServiceInv' /\ Fifo!RightAnswer' /\ Fifo!FailsOnlyWithItsClient'
  BY DEF ServiceInv, Fifo!RightAnswer, Fifo!FailsOnlyWithItsClient, Fifo!Client
<1>9. Fifo!TwiceOnlyByACopy'
  BY <1>1 DEF Fifo!TwiceOnlyByACopy, Fifo!Client, Fifo!Writers
<1>10. QED  BY <1>3, <1>5, <1>6, <1>7, <1>8, <1>9

LEMMA FifoPoll == ASSUME Fifo!FifoAssumption,
         FifoIInv, NEW k \in DOMAIN server, Fifo!Poll(k) PROVE FifoIInv'
<1>1. PICK pc \in {"read", "log"} :
        /\ server[k].pc = "poll" /\ Fifo!Moves(k, pc) /\ (pc = "read" => req # <<>>)
        /\ UNCHANGED <<logging, req, service, lines, cpc, type, number, answer>>
  BY DEF Fifo!Poll, Fifo!Hears, Fifo!clientVars
<1>2. pc \in ServerPcs /\ lines' \in Nat
  BY <1>1 DEF ServerPcs, FifoIInv, FifoTypes
<1>3. /\ FifoTypes' /\ AskInv' /\ Truthful' /\ BufInv' /\ ServiceInv'
      /\ Fifo!TwiceOnlyByACopy' /\ Fifo!RightAnswer' /\ Fifo!FailsOnlyWithItsClient'
  BY <1>1, <1>2, MoveKeeps
<1>4. /\ Len(server') = Len(server) /\ Len(server) \in Nat /\ DOMAIN server' = DOMAIN server
      /\ server'[k].pc = pc
      /\ \A j \in DOMAIN server : j # k => server'[j] = server[j]
  BY <1>1, <1>2, MovesFacts, FifoCounts DEF FifoIInv, FifoTypes
<1>5. ListenInv'
  BY <1>1, <1>4 DEF ListenInv
<1>6. ForkInv'
  <2>1. \A s \in DOMAIN service : Fifo!Client(s)' = Fifo!Client(s)
    BY <1>1 DEF Fifo!Client
  <2>2. \A c \in Clients : c \in Fifo!Writers' => c \in Fifo!Writers
    BY <1>1 DEF Fifo!Writers
  <2>3. QED  BY <1>1, <1>4, <2>1, <2>2, ForkKept
<1>7. CopyInv'
  <2>1. Forking' = Forking
    BY <1>1, <1>4 DEF Forking
  <2>2. pc = "log" => Reading' = Reading
    BY <1>1, <1>4 DEF Reading
  <2>3. Taken \subseteq Taken'
    BY <1>1 DEF Taken, InReq
  <2>4. QED  BY <1>1, <1>3, <1>4, <2>1, <2>2, <2>3, CopiesKept DEF FifoIInv
<1>8. QED  BY <1>3, <1>5, <1>6, <1>7 DEF FifoIInv

LEMMA FifoReadLog == ASSUME Fifo!FifoAssumption,
         FifoIInv, NEW k \in DOMAIN server, Fifo!ReadLog(k) PROVE FifoIInv'
<1>1. /\ server[k].pc = "log" /\ Fifo!Moves(k, "poll") /\ lines' = 0
      /\ UNCHANGED <<logging, req, service, cpc, type, number, answer>>
  BY DEF Fifo!ReadLog, Fifo!clientVars
<1>2. "poll" \in ServerPcs /\ lines' \in Nat
  BY <1>1 DEF ServerPcs
<1>3. /\ FifoTypes' /\ AskInv' /\ Truthful' /\ BufInv' /\ ServiceInv'
      /\ Fifo!TwiceOnlyByACopy' /\ Fifo!RightAnswer' /\ Fifo!FailsOnlyWithItsClient'
  BY <1>1, <1>2, MoveKeeps
<1>4. /\ Len(server') = Len(server) /\ Len(server) \in Nat /\ DOMAIN server' = DOMAIN server
      /\ server'[k].pc = "poll"
      /\ \A j \in DOMAIN server : j # k => server'[j] = server[j]
  BY <1>1, <1>2, MovesFacts, FifoCounts DEF FifoIInv, FifoTypes
<1>5. ListenInv'
  BY <1>1, <1>4 DEF ListenInv
<1>6. ForkInv'
  <2>1. \A s \in DOMAIN service : Fifo!Client(s)' = Fifo!Client(s)
    BY <1>1 DEF Fifo!Client
  <2>2. \A c \in Clients : c \in Fifo!Writers' => c \in Fifo!Writers
    BY <1>1 DEF Fifo!Writers
  <2>3. QED  BY <1>1, <1>4, <2>1, <2>2, ForkKept
<1>7. CopyInv'
  <2>1. Forking' = Forking /\ Reading' = Reading
    BY <1>1, <1>4 DEF Forking, Reading
  <2>2. Taken \subseteq Taken'
    BY <1>1 DEF Taken, InReq
  <2>3. QED  BY <1>1, <1>3, <1>4, <2>1, <2>2, CopiesKept DEF FifoIInv
<1>8. QED  BY <1>3, <1>5, <1>6, <1>7 DEF FifoIInv

\* Who comes back from read() leaves the readers and is about to fork.
LEMMA ReaderForks ==
  ASSUME Fifo!FifoAssumption,
         FifoTypes, FifoTypes', NEW k \in DOMAIN server, server[k].pc = "read",
         DOMAIN server' = DOMAIN server, Len(server') = Len(server), service' = service,
         server'[k].pc = "fork", \A j \in DOMAIN server : j # k => server'[j] = server[j]
  PROVE  /\ Cardinality(Reading) >= 1 /\ Cardinality(Reading') = Cardinality(Reading) - 1
         /\ Becoming' = Becoming + 1
<1>1. Reading' = Reading \ {k} /\ k \in Reading
  BY DEF Reading
<1>2. Forking' = Forking \union {k} /\ k \notin Forking
  BY DEF Forking
<1>3. /\ IsFiniteSet(Reading) /\ Cardinality(Reading) \in Nat
      /\ IsFiniteSet(Forking) /\ Cardinality(Forking) \in Nat
      /\ Len(server) \in Nat /\ Len(service) \in Nat
  BY FifoCounts
<1>4. Cardinality(Reading') = Cardinality(Reading) - 1
  BY <1>1, <1>3, FS_RemoveElement
<1>5. Cardinality(Forking') = Cardinality(Forking) + 1
  BY <1>2, <1>3, FS_AddElement
<1>6. Cardinality(Reading) >= 1
  <2>1. Cardinality(Reading) # 0
    BY <1>1, <1>3, FS_EmptySet
  <2>2. QED  BY <1>3, <2>1
<1>7. Becoming' = Becoming + 1
  BY <1>3, <1>5 DEF Becoming
<1>8. QED  BY <1>4, <1>6, <1>7

\* A request is taken for the first time.
LEMMA FifoReadFresh ==
  ASSUME Fifo!FifoAssumption,
         FifoIInv, NEW k \in DOMAIN server, server[k].pc = "read", req # <<>>,
         server' = [server EXCEPT ![k] = [pc |-> "fork", buf |-> Head(req)]], req' = Tail(req),
         UNCHANGED <<logging, service, lines, cpc, type, number, answer>>
  PROVE  FifoIInv'
<1> USE DEF FifoIInv
<1> DEFINE m == [pc |-> "fork", buf |-> Head(req)]
           c == req[1][1]
<1>1. /\ req' \in Seq(Clients \X Nat) /\ Head(req) = req[1] /\ req[1] \in Clients \X Nat
      /\ 1 \in DOMAIN req
      /\ \A j \in DOMAIN req' : j \in Nat \ {0} /\ j + 1 \in DOMAIN req /\ req'[j] = req[j + 1]
      /\ \A j \in DOMAIN req : j = 1 \/ (j - 1 \in DOMAIN req' /\ req'[j - 1] = req[j])
  BY FifoTail DEF FifoTypes
<1>2. m \in ServerProcess /\ m.pc = "fork" /\ m.buf = req[1]
  BY <1>1 DEF ServerProcess, ServerPcs
<1>3. /\ server' \in Seq(ServerProcess) /\ Len(server') = Len(server) /\ DOMAIN server' = DOMAIN server
      /\ server'[k] = m
      /\ \A j \in DOMAIN server : j # k => server'[j] = server[j]
  <2>1. server' = [server EXCEPT ![k] = m]
    OBVIOUS
  <2> HIDE DEF m
  <2>2. QED  BY <1>2, <2>1, FifoExcept DEF FifoTypes
<1>4. server'[k].pc = "fork" /\ server'[k].buf = req[1]
  BY <1>2, <1>3
<1> HIDE DEF m
<1>5. c \in Clients /\ req[1] # <<>>
  BY <1>1, FifoRecords
<1>6. InReq(c) /\ Untouched(c) /\ cpc[c] \notin {"away", "open"}
  BY <1>1, <1>5 DEF InReq, AskInv
<1>7. ASSUME NEW d \in Clients
      PROVE  /\ InReq(d)' => InReq(d) /\ d # c
             /\ InReq(d) => d = c \/ InReq(d)'
  <2>1. InReq(d)' => InReq(d) /\ d # c
    <3> SUFFICES ASSUME NEW j \in DOMAIN req', req'[j][1] = d PROVE InReq(d) /\ d # c
      BY DEF InReq
    <3>1. j + 1 \in DOMAIN req /\ req[j + 1][1] = d /\ j + 1 # 1
      BY <1>1
    <3>2. d # c
      BY <1>1, <3>1 DEF AskInv
    <3>3. QED  BY <3>1, <3>2 DEF InReq
  <2>2. InReq(d) => d = c \/ InReq(d)'
    BY <1>1 DEF InReq
  <2>3. QED  BY <2>1, <2>2
<1>8. FifoTypes'
  BY <1>1, <1>3 DEF FifoTypes
<1>9. AskInv'
  <2>1. \A d \in Clients : cpc'[d] \in {"away", "open"} => ~InReq(d)'
    BY <1>7 DEF AskInv
  <2>2. \A d \in Clients : cpc'[d] \in {"away", "open"} \/ InReq(d)' => Untouched(d)'
    <3> SUFFICES ASSUME NEW d \in Clients, cpc[d] \in {"away", "open"} \/ InReq(d)'
                 PROVE  Untouched(d)'
      OBVIOUS
    <3>1. d # c /\ Untouched(d)
      BY <1>6, <1>7 DEF AskInv
    <3>2. QED  BY <1>3, <1>4, <3>1 DEF Untouched, Fifo!Client
  <2>3. ASSUME NEW a \in DOMAIN req', NEW j \in DOMAIN req', req'[a][1] = req'[j][1] PROVE a = j
    <3>1. a + 1 = j + 1 /\ a \in Nat /\ j \in Nat
      BY <1>1, <2>3 DEF AskInv
    <3>2. QED  BY <3>1
  <2>4. QED  BY <2>1, <2>2, <2>3 DEF AskInv
<1>10. Truthful'
  <2>1. \A j \in DOMAIN req' : req'[j][2] = type[req'[j][1]]
    BY <1>1 DEF Truthful
  <2>2. \A j \in DOMAIN server' :
          server'[j].buf # <<>> => server'[j].buf[2] = type[server'[j].buf[1]]
    BY <1>1, <1>3, <1>4 DEF Truthful
  <2>3. QED  BY <2>1, <2>2 DEF Truthful, Fifo!Client
<1>11. BufInv'
  <2>1. DOMAIN server = 1 .. Len(server) /\ Len(server) \in Nat
    BY FifoCounts
  <2>2. QED  BY <1>3, <1>4, <1>5, <2>1 DEF BufInv
<1>12. ListenInv'
  BY <1>3, <1>4 DEF ListenInv
<1>13. ForkInv'
  <2> SUFFICES ASSUME NEW j \in DOMAIN server', server'[j].pc = "fork"
               PROVE  NotStarted(j)' \/ ByACopy(j)'
    BY DEF ForkInv
  <2>0. \A a \in DOMAIN server : server[a].pc = "fork" => server[a].buf # <<>> /\ server[a].buf[1] # c
    BY <1>6 DEF BufInv, Untouched
  <2>1. CASE j = k
    <3>1. \A s \in DOMAIN service' : Fifo!Client(s)' # server'[j].buf[1]
      BY <1>4, <1>6, <2>1 DEF Untouched, Fifo!Client
    <3>2. \A a \in DOMAIN server' :
            server'[a].pc = "fork" /\ server'[a].buf[1] = server'[j].buf[1] => a = j
      BY <1>3, <1>4, <2>0, <2>1
    <3>3. QED  BY <3>1, <3>2 DEF NotStarted
  <2>2. CASE j # k
    <3>1. server'[j] = server[j] /\ server[j].pc = "fork" /\ j \in DOMAIN server
      BY <1>3, <2>2
    <3>2. server[j].buf[1] # c
      BY <2>0, <3>1
    <3>3. NotStarted(j) => NotStarted(j)'
      <4> SUFFICES ASSUME NotStarted(j) PROVE NotStarted(j)'
        OBVIOUS
      <4>1. \A s \in DOMAIN service' : Fifo!Client(s)' # server'[j].buf[1]
        BY <3>1 DEF NotStarted, Fifo!Client
      <4>2. \A a \in DOMAIN server' :
              server'[a].pc = "fork" /\ server'[a].buf[1] = server'[j].buf[1] => a = j
        BY <1>3, <1>4, <3>1, <3>2 DEF NotStarted
      <4>3. QED  BY <4>1, <4>2 DEF NotStarted
    <3>4. ByACopy(j) => ByACopy(j)'
      BY <1>3, <3>1 DEF ByACopy, Fifo!Writers
    <3>5. QED  BY <3>1, <3>3, <3>4 DEF ForkInv
  <2>3. QED  BY <2>1, <2>2
<1>14. ServiceInv' /\ Fifo!RightAnswer' /\ Fifo!FailsOnlyWithItsClient'
  BY DEF ServiceInv, Fifo!RightAnswer, Fifo!FailsOnlyWithItsClient, Fifo!Client
<1>15. Fifo!TwiceOnlyByACopy'
  BY <1>3 DEF Fifo!TwiceOnlyByACopy, Fifo!Client, Fifo!Writers
<1>16. CopyInv'
  <2>1. /\ Cardinality(Reading) >= 1 /\ Cardinality(Reading') = Cardinality(Reading) - 1
        /\ Becoming' = Becoming + 1
    BY <1>3, <1>4, <1>8, ReaderForks
  <2>2. Taken \union {c} \in SUBSET (Taken') /\ c \notin Taken
    BY <1>5, <1>6, <1>7 DEF Taken
  <2>3. /\ IsFiniteSet(Taken) /\ Cardinality(SUBSET Taken) \in Nat
        /\ Cardinality(Reading) \in Nat /\ Cardinality(Forking) \in Nat
        /\ Cardinality(Reading) + Cardinality(Forking) <= Len(server)
        /\ Len(server) \in Nat /\ Len(service) \in Nat /\ DOMAIN server = 1 .. Len(server)
    BY FifoCounts
  <2>4. IsFiniteSet(Taken') /\ Cardinality(SUBSET (Taken')) \in Nat
    <3>1. IsFiniteSet(Clients) /\ Taken' \in SUBSET Clients
      BY FifoFinite DEF Taken
    <3>2. IsFiniteSet(Taken')
      BY <3>1, FS_Subset
    <3>3. QED  BY <3>2, FifoSubsets
  <2>5. Cardinality(SUBSET (Taken \union {c})) = 2 * Cardinality(SUBSET Taken)
    BY <2>2, <2>3, FifoDoubling
  <2>6. Cardinality(SUBSET (Taken \union {c})) <= Cardinality(SUBSET (Taken'))
    BY <2>2, <2>4, FifoMoreSubsets
  <2>7. Becoming + Cardinality(Reading) <= 2 * Becoming /\ Becoming \in Nat /\ Becoming >= 1
    BY <2>3 DEF Becoming
  <2>8. Becoming <= Cardinality(SUBSET Taken)
    BY DEF CopyInv
  <2>9. Becoming' + Cardinality(Reading') <= Cardinality(SUBSET (Taken'))
    BY <2>1, <2>3, <2>4, <2>5, <2>6, <2>7, <2>8
  <2>10. Becoming' <= Cardinality(SUBSET (Taken'))
    BY <2>1, <2>3, <2>4, <2>5, <2>6, <2>7, <2>8
  <2>11. QED  BY <2>9, <2>10 DEF CopyInv
<1>17. QED
  BY <1>8, <1>9, <1>10, <1>11, <1>12, <1>13, <1>14, <1>15, <1>16

\* With nobody to write, the request before is started again; somebody else runs.
LEMMA FifoReadAgain ==
  ASSUME Fifo!FifoAssumption,
         FifoIInv, NEW k \in DOMAIN server, server[k].pc = "read", req = <<>>, Fifo!Writers = {},
         Fifo!Moves(k, "fork"), UNCHANGED <<logging, req, service, lines, cpc, type, number, answer>>
  PROVE  FifoIInv'
<1>1. Len(server) > 1 /\ Len(server) \in Nat
  <2>1. DOMAIN server = 1 .. Len(server) /\ Len(server) \in Nat
    BY FifoCounts DEF FifoIInv
  <2>2. Len(server) # 1
    BY <2>1 DEF FifoIInv, ListenInv
  <2>3. QED  BY <2>1, <2>2
<1>2. server[k].buf # <<>>
  <2> SUFFICES ASSUME server[k].buf = <<>> PROVE FALSE
    OBVIOUS
  <2>1. Len(server) = 1
    BY DEF FifoIInv, BufInv
  <2>2. QED  BY <1>1, <2>1
<1>3. "fork" \in ServerPcs /\ lines' \in Nat
  BY DEF ServerPcs, FifoIInv, FifoTypes
<1>4. /\ FifoTypes' /\ AskInv' /\ Truthful' /\ BufInv' /\ ServiceInv'
      /\ Fifo!TwiceOnlyByACopy' /\ Fifo!RightAnswer' /\ Fifo!FailsOnlyWithItsClient'
  BY <1>2, <1>3, MoveKeeps
<1>5. /\ Len(server') = Len(server) /\ DOMAIN server' = DOMAIN server
      /\ server'[k].pc = "fork"
      /\ \A j \in DOMAIN server : j # k => server'[j] = server[j]
  BY <1>3, MovesFacts DEF FifoIInv, FifoTypes
<1>6. ListenInv'
  BY <1>5 DEF ListenInv
<1>7. ForkInv'
  <2>1. Fifo!Writers' = {}
    BY DEF Fifo!Writers
  <2>2. QED  BY <1>1, <1>5, <2>1 DEF ForkInv, ByACopy
<1>8. CopyInv'
  <2>1. /\ Cardinality(Reading) >= 1 /\ Cardinality(Reading') = Cardinality(Reading) - 1
        /\ Becoming' = Becoming + 1
    BY <1>4, <1>5, ReaderForks DEF FifoIInv
  <2>2. Taken' = Taken
    BY DEF Taken, InReq
  <2>3. Cardinality(SUBSET Taken) \in Nat /\ Cardinality(Reading) \in Nat /\ Becoming \in Nat
    BY FifoCounts DEF FifoIInv, Becoming
  <2>4. Becoming + Cardinality(Reading) <= Cardinality(SUBSET Taken)
    BY DEF FifoIInv, CopyInv
  <2>5. QED  BY <2>1, <2>2, <2>3, <2>4 DEF CopyInv
<1>9. QED  BY <1>4, <1>6, <1>7, <1>8 DEF FifoIInv

\* execl(): the first service of the client, or one of a client that is gone.
LEMMA FifoForkService ==
  ASSUME Fifo!FifoAssumption,
         FifoIInv, NEW k \in DOMAIN server, server[k].pc = "fork", Fifo!Started(k).type \in Fifo!Programs,
         service' = Append(service, Fifo!Started(k)), Fifo!Moves(k, "log"),
         UNCHANGED <<logging, req, lines, cpc, type, number, answer>>
  PROVE  FifoIInv'
<1> USE DEF FifoIInv
<1> DEFINE m == Fifo!Started(k)
           c == server[k].buf[1]
           n == Len(service) + 1
<1>1. server[k].buf # <<>> /\ c \in Clients
  BY FifoRecords DEF BufInv
<1>2. /\ m \in ServiceProcess /\ m.client = c /\ m.type = server[k].buf[2] /\ m.pc = "open"
      /\ m.type \in Fifo!Programs
  BY <1>1 DEF Fifo!Started, ServiceProcess, ServicePcs
<1>3. /\ service' \in Seq(ServiceProcess) /\ Len(service') = n /\ Len(service) \in Nat
      /\ DOMAIN service = 1 .. Len(service) /\ DOMAIN service' = 1 .. n
      /\ \A j \in 1 .. Len(service) : service'[j] = service[j]
      /\ service'[n] = m
  <2>1. service' = Append(service, m)
    OBVIOUS
  <2> HIDE DEF m
  <2>2. QED  BY <1>2, <2>1, FifoAppend DEF FifoTypes
<1>4. service'[n].client = c /\ service'[n].type = server[k].buf[2] /\ service'[n].pc = "open"
  BY <1>2, <1>3
<1> HIDE DEF m
<1>5. \A s \in DOMAIN service' : s = n \/ (s \in DOMAIN service /\ service'[s] = service[s])
  BY <1>3
<1>6. \A s \in DOMAIN service : s \in DOMAIN service' /\ service'[s] = service[s]
  BY <1>3
<1>7. n \in DOMAIN service' /\ n \in Nat
  BY <1>3
<1>8. /\ server' \in Seq(ServerProcess) /\ Len(server') = Len(server)
      /\ DOMAIN server' = DOMAIN server
      /\ server'[k].pc = "log" /\ server'[k].buf = server[k].buf
      /\ \A j \in DOMAIN server : j # k => server'[j] = server[j]
  <2>1. "log" \in ServerPcs  BY DEF ServerPcs
  <2>2. QED  BY <2>1, MovesFacts DEF FifoTypes
<1>9. \A j \in DOMAIN server : server'[j].buf = server[j].buf
  BY <1>8
<1> HIDE DEF n
<1>10. FifoTypes'
  BY <1>3, <1>8 DEF FifoTypes
<1>11. AskInv'
  <2>1. \A d \in Clients : InReq(d)' <=> InReq(d)
    BY DEF InReq
  <2>2. ASSUME NEW d \in Clients, Untouched(d) PROVE Untouched(d)'
    <3>1. d # c
      BY <1>1, <2>2 DEF Untouched
    <3>2. \A s \in DOMAIN service' : service'[s].client # d
      BY <1>4, <1>5, <2>2, <3>1 DEF Untouched, Fifo!Client
    <3>3. QED  BY <1>8, <1>9, <2>2, <3>2 DEF Untouched, Fifo!Client
  <2>3. QED  BY <2>1, <2>2 DEF AskInv
<1>12. Truthful'
  <2>1. \A s \in DOMAIN service' : service'[s].type = type[service'[s].client]
    BY <1>1, <1>4, <1>5 DEF Truthful, Fifo!Client
  <2>2. QED  BY <1>8, <1>9, <2>1 DEF Truthful, Fifo!Client
<1>13. BufInv'
  BY <1>1, <1>8 DEF BufInv
<1>14. ListenInv'
  BY <1>8 DEF ListenInv
<1>15. ForkInv'
  <2> SUFFICES ASSUME NEW j \in DOMAIN server', server'[j].pc = "fork"
               PROVE  NotStarted(j)' \/ ByACopy(j)'
    BY DEF ForkInv
  <2>1. j \in DOMAIN server /\ j # k /\ server'[j] = server[j] /\ server[j].pc = "fork"
    BY <1>8
  <2>2. ByACopy(j) => ByACopy(j)'
    BY <1>8, <2>1 DEF ByACopy, Fifo!Writers
  <2>3. NotStarted(j) => NotStarted(j)'
    <3> SUFFICES ASSUME NotStarted(j) PROVE NotStarted(j)'
      OBVIOUS
    <3>1. c # server[j].buf[1]
      BY <2>1 DEF NotStarted
    <3>2. \A s \in DOMAIN service' : service'[s].client # server'[j].buf[1]
      BY <1>4, <1>5, <2>1, <3>1 DEF NotStarted, Fifo!Client
    <3>3. \A a \in DOMAIN server' :
            server'[a].pc = "fork" /\ server'[a].buf[1] = server'[j].buf[1] => a = j
      BY <1>8, <2>1 DEF NotStarted
    <3>4. QED  BY <3>2, <3>3 DEF NotStarted, Fifo!Client
  <2>4. QED  BY <2>1, <2>2, <2>3 DEF ForkInv
<1>16. ServiceInv'
  <2>1. \A s \in DOMAIN service' : service'[s].pc \in {"read", "write"} =>
          answer'[service'[s].client] = 0 /\ cpc'[service'[s].client] \in {"asked", "killed"}
    BY <1>4, <1>5 DEF ServiceInv, Fifo!Client
  <2>2. \A d \in Clients : answer'[d] # 0 =>
          \E s \in DOMAIN service' : service'[s].client = d /\ service'[s].pc \in {"log", "end"}
    BY <1>6 DEF ServiceInv, Fifo!Client
  <2>3. QED  BY <2>1, <2>2 DEF ServiceInv, Fifo!Client
<1>17. CopyInv'
  <2>1. Forking' = Forking \ {k} /\ k \in Forking /\ Reading' = Reading
    BY <1>8 DEF Forking, Reading
  <2>2. /\ IsFiniteSet(Forking) /\ Cardinality(Forking) \in Nat /\ Len(server) \in Nat
    BY FifoCounts
  <2>3. Cardinality(Forking') = Cardinality(Forking) - 1
    BY <2>1, <2>2, FS_RemoveElement
  <2>4. Becoming' = Becoming
    BY <1>3, <1>8, <2>2, <2>3 DEF Becoming, n
  <2>5. Taken' = Taken
    BY DEF Taken, InReq
  <2>6. QED  BY <2>1, <2>4, <2>5 DEF CopyInv
<1>18. Fifo!TwiceOnlyByACopy'
  <2> SUFFICES ASSUME NEW s1 \in DOMAIN service', NEW s2 \in DOMAIN service', s1 < s2,
                      service'[s1].client = service'[s2].client
               PROVE  /\ Len(server') > 1 /\ service'[s2].pc = "open"
                      /\ service'[s2].client \notin Fifo!Writers'
    BY DEF Fifo!TwiceOnlyByACopy, Fifo!Client
  <2>1. s1 # n /\ s1 \in DOMAIN service /\ service'[s1] = service[s1]
    BY <1>3, <1>5 DEF n
  <2>2. CASE s2 = n
    <3>1. Fifo!Client(s1) = c
      BY <1>4, <2>1, <2>2 DEF Fifo!Client
    <3>2. ~NotStarted(k)
      BY <2>1, <3>1 DEF NotStarted
    <3>3. Len(server) > 1 /\ c \notin Fifo!Writers
      BY <3>2 DEF ForkInv, ByACopy
    <3>4. QED  BY <1>4, <1>8, <2>2, <3>3 DEF Fifo!Writers
  <2>3. CASE s2 # n
    <3>1. s2 \in DOMAIN service /\ service'[s2] = service[s2]
      BY <1>5, <2>3
    <3>2. QED  BY <1>8, <2>1, <3>1 DEF Fifo!TwiceOnlyByACopy, Fifo!Client, Fifo!Writers
  <2>4. QED  BY <2>2, <2>3
<1>19. Fifo!RightAnswer' /\ Fifo!FailsOnlyWithItsClient'
  <2>1. Fifo!RightAnswer'
    BY DEF Fifo!RightAnswer
  <2>2. \A s \in DOMAIN service' : service'[s].pc \in {"spin", "dead"} =>
          cpc'[service'[s].client] = "killed"
    BY <1>4, <1>5 DEF Fifo!FailsOnlyWithItsClient, Fifo!Client
  <2>3. QED  BY <2>1, <2>2 DEF Fifo!FailsOnlyWithItsClient, Fifo!Client
<1>20. QED
  BY <1>10, <1>11, <1>12, <1>13, <1>14, <1>15, <1>16, <1>17, <1>18, <1>19

\* A child that finds no program is a copy of its parent.
LEMMA FifoForkCopy ==
  ASSUME Fifo!FifoAssumption,
         FifoIInv, NEW k \in DOMAIN server, server[k].pc = "fork",
         LET next == [server[k] EXCEPT !.pc = "log"] IN
           server' = Append([server EXCEPT ![k] = next], next),
         UNCHANGED <<logging, req, service, lines, cpc, type, number, answer>>
  PROVE  FifoIInv'
<1> USE DEF FifoIInv
<1> DEFINE next == [server[k] EXCEPT !.pc = "log"]
           moved == [server EXCEPT ![k] = next]
           n == Len(server) + 1
<1>1. server[k] \in ServerProcess /\ server[k].buf # <<>>
  BY DEF BufInv, FifoTypes
<1>2. next \in ServerProcess /\ next.pc = "log" /\ next.buf = server[k].buf
  BY <1>1 DEF ServerProcess, ServerPcs
<1>3. server' = Append(moved, next)
  OBVIOUS
<1>4. /\ moved \in Seq(ServerProcess) /\ Len(moved) = Len(server) /\ moved[k] = next
      /\ \A j \in DOMAIN server : j # k => moved[j] = server[j]
  <2> HIDE DEF next
  <2>1. QED  BY <1>2, FifoExcept DEF FifoTypes
<1> HIDE DEF moved
<1>5. /\ server' \in Seq(ServerProcess) /\ Len(server') = n /\ Len(server) \in Nat
      /\ DOMAIN server' = 1 .. n /\ DOMAIN server = 1 .. Len(server)
      /\ server'[n] = next /\ server'[k] = next
      /\ \A j \in DOMAIN server : j # k => server'[j] = server[j]
  <2>0. DOMAIN server = 1 .. Len(server) /\ Len(server) \in Nat
    BY FifoCounts
  <2> HIDE DEF next
  <2>3. /\ Append(moved, next) \in Seq(ServerProcess)
        /\ Len(Append(moved, next)) = Len(moved) + 1
        /\ DOMAIN Append(moved, next) = 1 .. Len(moved) + 1
        /\ \A j \in 1 .. Len(moved) : Append(moved, next)[j] = moved[j]
        /\ Append(moved, next)[Len(moved) + 1] = next
    <3>1. PICK q \in Seq(ServerProcess) : q = moved
      BY <1>4
    <3>2. PICK m \in ServerProcess : m = next
      BY <1>2
    <3>3. /\ Append(q, m) \in Seq(ServerProcess) /\ Len(Append(q, m)) = Len(q) + 1
          /\ DOMAIN Append(q, m) = 1 .. Len(q) + 1
          /\ \A j \in 1 .. Len(q) : Append(q, m)[j] = q[j]
          /\ Append(q, m)[Len(q) + 1] = m
      BY FifoAppend
    <3>4. QED  BY <3>1, <3>2, <3>3
  <2>1. /\ server' \in Seq(ServerProcess) /\ Len(server') = n
        /\ DOMAIN server' = 1 .. n
        /\ \A j \in 1 .. Len(server) : server'[j] = moved[j]
        /\ server'[n] = next
    BY <1>3, <1>4, <2>3
  <2>2. QED  BY <1>4, <2>0, <2>1
<1>6. /\ server'[n].pc = "log" /\ server'[n].buf = server[k].buf
      /\ server'[k].pc = "log" /\ server'[k].buf = server[k].buf
  BY <1>2, <1>5
<1> HIDE DEF next
<1>7. \A j \in DOMAIN server' : \/ j \in {k, n} /\ server'[j].pc = "log" /\ server'[j].buf = server[k].buf
                                \/ j # k /\ j \in DOMAIN server /\ server'[j] = server[j]
  BY <1>5, <1>6
<1>8. Len(server') > 1 /\ Len(server') >= Len(server)
  BY <1>5
<1>9. FifoTypes'
  BY <1>5 DEF FifoTypes
<1>10. AskInv'
  <2>1. \A d \in Clients : InReq(d)' <=> InReq(d)
    BY DEF InReq
  <2>2. ASSUME NEW d \in Clients, Untouched(d) PROVE Untouched(d)'
    <3>1. server[k].buf[1] # d
      BY <1>1, <2>2 DEF Untouched
    <3>2. QED  BY <1>7, <2>2, <3>1 DEF Untouched, Fifo!Client
  <2>3. QED  BY <2>1, <2>2 DEF AskInv
<1>11. Truthful'
  <2>1. server[k].buf[2] = type[server[k].buf[1]]
    BY <1>1 DEF Truthful
  <2>2. QED  BY <1>7, <2>1 DEF Truthful, Fifo!Client
<1>12. BufInv'
  <2>1. \A j \in DOMAIN server' : server'[j].buf # <<>>
    <3>1. ASSUME NEW j \in DOMAIN server, server[j].buf = <<>> PROVE j = k
      BY <1>5, <3>1 DEF BufInv
    <3>2. QED  BY <1>1, <1>7, <3>1
  <2>2. QED  BY <2>1 DEF BufInv
<1>13. ListenInv'
  <2>1. n \in DOMAIN server'  BY <1>5
  <2>2. QED  BY <1>6, <2>1 DEF ListenInv
<1>14. ForkInv'
  <2>1. \A s \in DOMAIN service : Fifo!Client(s)' = Fifo!Client(s)
    BY DEF Fifo!Client
  <2>2. \A j \in DOMAIN server' :
          server'[j].pc = "fork" => j \in DOMAIN server /\ server'[j] = server[j]
    BY <1>7
  <2>3. \A c \in Clients : c \in Fifo!Writers' => c \in Fifo!Writers
    BY DEF Fifo!Writers
  <2>4. Len(server) \in Nat /\ Len(server') \in Nat
    BY <1>5
  <2>5. QED  BY <1>8, <2>1, <2>2, <2>3, <2>4, ForkKept
<1>15. ServiceInv' /\ Fifo!RightAnswer' /\ Fifo!FailsOnlyWithItsClient'
  BY DEF ServiceInv, Fifo!RightAnswer, Fifo!FailsOnlyWithItsClient, Fifo!Client
<1>16. Fifo!TwiceOnlyByACopy'
  BY <1>8 DEF Fifo!TwiceOnlyByACopy, Fifo!Client, Fifo!Writers
<1>17. CopyInv'
  <2>1. Forking' = Forking \ {k} /\ k \in Forking
    BY <1>5, <1>6, <1>7 DEF Forking
  <2>2. Reading' = Reading
    BY <1>5, <1>6, <1>7 DEF Reading
  <2>3. IsFiniteSet(Forking) /\ Cardinality(Forking) \in Nat /\ Len(service) \in Nat
    BY FifoCounts
  <2>4. Cardinality(Forking') = Cardinality(Forking) - 1
    BY <2>1, <2>3, FS_RemoveElement
  <2>5. Becoming' = Becoming
    BY <1>5, <2>3, <2>4 DEF Becoming
  <2>6. Taken' = Taken
    BY DEF Taken, InReq
  <2>7. QED  BY <2>2, <2>5, <2>6 DEF CopyInv
<1>18. QED
  BY <1>9, <1>10, <1>11, <1>12, <1>13, <1>14, <1>15, <1>16, <1>17

LEMMA FifoServer == ASSUME Fifo!FifoAssumption,
         FifoIInv, NEW k \in DOMAIN server, Fifo!Server(k) PROVE FifoIInv'
<1>1. CASE Fifo!Read(k)
  <2>1. /\ server[k].pc = "read"
        /\ UNCHANGED <<logging, service, lines, cpc, type, number, answer>>
    BY <1>1 DEF Fifo!Read, Fifo!clientVars
  <2>2. CASE /\ req # <<>> /\ server' = [server EXCEPT ![k] = [pc |-> "fork", buf |-> Head(req)]]
             /\ req' = Tail(req)
    BY <2>1, <2>2, FifoReadFresh
  <2>3. CASE req = <<>> /\ Fifo!Writers = {} /\ Fifo!Moves(k, "fork") /\ UNCHANGED req
    BY <2>1, <2>3, FifoReadAgain
  <2>4. QED  BY <1>1, <2>2, <2>3 DEF Fifo!Read, Fifo!OneRequest
<1>2. CASE Fifo!Fork(k)
  <2>1. server[k].pc = "fork" /\ UNCHANGED <<logging, req, lines, cpc, type, number, answer>>
    BY <1>2 DEF Fifo!Fork, Fifo!clientVars
  <2>2. CASE /\ Fifo!Started(k).type \in Fifo!Programs
             /\ service' = Append(service, Fifo!Started(k))
             /\ Fifo!Moves(k, "log")
    BY <2>1, <2>2, FifoForkService
  <2>3. CASE /\ LET next == [server[k] EXCEPT !.pc = "log"] IN
                  server' = Append([server EXCEPT ![k] = next], next)
             /\ UNCHANGED service
    BY <2>1, <2>3, FifoForkCopy
  <2>4. QED  BY <1>2, <2>2, <2>3 DEF Fifo!Fork
<1>3. QED  BY <1>1, <1>2, FifoPoll, FifoReadLog DEF Fifo!Server

-----------------------------------------------------------------------------
(* The services *)

\* The other service of a client that is being talked to, or still listens, waits for ever.
LEMMA FifoAlone ==
  ASSUME Fifo!FifoAssumption,
         FifoIInv, NEW s \in DOMAIN service, NEW r \in DOMAIN service, r # s,
         Fifo!Client(r) = Fifo!Client(s), service[s].pc # "open" \/ Fifo!Client(s) \in Fifo!Writers
  PROVE  service[r].pc = "open"
<1>1. s \in Nat /\ r \in Nat
  BY FifoCounts DEF FifoIInv
<1>2. CASE r < s
  BY <1>2 DEF FifoIInv, Fifo!TwiceOnlyByACopy
<1>3. CASE s < r
  BY <1>3 DEF FifoIInv, Fifo!TwiceOnlyByACopy
<1>4. QED  BY <1>1, <1>2, <1>3

\* What does not depend on how far a service is.
LEMMA GoKeeps ==
  ASSUME Fifo!FifoAssumption,
         FifoIInv, NEW s \in DOMAIN service, NEW pc \in ServicePcs, Fifo!Goes(s, pc),
         UNCHANGED <<logging, server, req, cpc, type>>, lines' \in Nat,
         number' \in [Clients -> BOOLEAN], answer' \in [Clients -> Fifo!Programs \union {0}],
         \A c \in Clients : c # Fifo!Client(s) => answer'[c] = answer[c],
         service[s].pc # "open" \/ Fifo!Client(s) \in Fifo!Writers
  PROVE  /\ FifoTypes' /\ AskInv' /\ Truthful' /\ BufInv' /\ ListenInv' /\ ForkInv' /\ CopyInv'
         /\ Fifo!TwiceOnlyByACopy'
<1> USE DEF FifoIInv
<1>1. /\ service' \in Seq(ServiceProcess) /\ Len(service') = Len(service)
      /\ DOMAIN service' = DOMAIN service
      /\ service'[s].pc = pc
      /\ \A r \in DOMAIN service : /\ service'[r].client = service[r].client
                                   /\ service'[r].type = service[r].type
                                   /\ r # s => service'[r] = service[r]
  BY GoesFacts DEF FifoTypes
<1>2. \A r \in DOMAIN service : Fifo!Client(r)' = Fifo!Client(r)
  BY <1>1 DEF Fifo!Client
<1>3. FifoTypes'
  BY <1>1 DEF FifoTypes
<1>4. \A c \in Clients : (InReq(c)' <=> InReq(c)) /\ (Untouched(c) => Untouched(c)')
  <2>1. \A c \in Clients : InReq(c)' <=> InReq(c)
    BY DEF InReq
  <2>2. ASSUME NEW c \in Clients, Untouched(c) PROVE Untouched(c)'
    <3>1. c # Fifo!Client(s)  BY <2>2 DEF Untouched
    <3>2. QED  BY <1>1, <1>2, <2>2, <3>1 DEF Untouched
  <2>3. QED  BY <2>1, <2>2
<1>5. AskInv'
  BY <1>4 DEF AskInv
<1>6. Truthful'
  BY <1>1, <1>2 DEF Truthful
<1>7. BufInv' /\ ListenInv'
  BY DEF BufInv, ListenInv
<1>8. ForkInv'
  <2>1. Len(server) \in Nat
    BY FifoCounts
  <2>2. \A c \in Clients : c \in Fifo!Writers' => c \in Fifo!Writers
    BY DEF Fifo!Writers
  <2>3. QED  BY <1>1, <1>2, <2>1, <2>2, ForkKept
<1>9. CopyInv'
  <2>1. Forking' = Forking /\ Reading' = Reading /\ Taken' = Taken
    BY DEF Forking, Reading, Taken, InReq
  <2>2. QED  BY <1>1, <2>1 DEF CopyInv, Becoming
<1>10. Fifo!TwiceOnlyByACopy'
  <2> SUFFICES ASSUME NEW s1 \in DOMAIN service, NEW s2 \in DOMAIN service, s1 < s2,
                      Fifo!Client(s1) = Fifo!Client(s2)
               PROVE  Len(server) > 1 /\ service'[s2].pc = "open" /\ Fifo!Client(s2) \notin Fifo!Writers
    BY <1>1, <1>2 DEF Fifo!TwiceOnlyByACopy, Fifo!Writers
  <2>1. Len(server) > 1 /\ service[s2].pc = "open" /\ Fifo!Client(s2) \notin Fifo!Writers
    BY DEF Fifo!TwiceOnlyByACopy
  <2>2. s2 # s
    BY <2>1
  <2>3. QED  BY <1>1, <2>1, <2>2
<1>11. QED  BY <1>3, <1>5, <1>6, <1>7, <1>8, <1>9, <1>10

LEMMA FifoOpenStep == ASSUME Fifo!FifoAssumption,
         FifoIInv, NEW s \in DOMAIN service, Fifo!Open(s) PROVE FifoIInv'
<1> USE DEF FifoIInv
<1> DEFINE c == Fifo!Client(s)
<1>1. /\ service[s].pc = "open" /\ cpc[c] = "asked" /\ Fifo!Goes(s, "read")
      /\ UNCHANGED <<logging, server, req, lines, cpc, type, number, answer>>
  BY DEF Fifo!Open, Fifo!serverVars, Fifo!clientVars
<1>2. "read" \in ServicePcs /\ c \in Clients /\ c \in Fifo!Writers
  BY <1>1, FifoRecords DEF ServicePcs, Fifo!Writers
<1>3. /\ FifoTypes' /\ AskInv' /\ Truthful' /\ BufInv' /\ ListenInv' /\ ForkInv' /\ CopyInv'
      /\ Fifo!TwiceOnlyByACopy'
  BY <1>1, <1>2, GoKeeps DEF FifoTypes
<1>4. /\ DOMAIN service' = DOMAIN service /\ service'[s].pc = "read"
      /\ \A r \in DOMAIN service : /\ service'[r].client = service[r].client
                                   /\ r # s => service'[r] = service[r]
  BY <1>1, <1>2, GoesFacts DEF FifoTypes
<1>5. answer[c] = 0
  <2> SUFFICES ASSUME answer[c] # 0 PROVE FALSE
    OBVIOUS
  <2>1. PICK r \in DOMAIN service : Fifo!Client(r) = c /\ service[r].pc \in {"log", "end"}
    BY <1>2 DEF ServiceInv
  <2>2. r # s
    BY <1>1, <2>1
  <2>3. QED  BY <1>2, <2>1, <2>2, FifoAlone
<1>6. ServiceInv'
  <2>1. \A r \in DOMAIN service' : service'[r].pc \in {"read", "write"} =>
          answer'[service'[r].client] = 0 /\ cpc'[service'[r].client] \in {"asked", "killed"}
    BY <1>1, <1>4, <1>5 DEF ServiceInv, Fifo!Client
  <2>2. \A d \in Clients : answer'[d] # 0 =>
          \E r \in DOMAIN service' : service'[r].client = d /\ service'[r].pc \in {"log", "end"}
    BY <1>1, <1>4 DEF ServiceInv, Fifo!Client
  <2>3. QED  BY <2>1, <2>2 DEF ServiceInv, Fifo!Client
<1>7. Fifo!RightAnswer' /\ Fifo!FailsOnlyWithItsClient'
  <2>1. Fifo!RightAnswer'  BY <1>1 DEF Fifo!RightAnswer
  <2>2. \A r \in DOMAIN service' : service'[r].pc \in {"spin", "dead"} =>
          cpc'[service'[r].client] = "killed"
    BY <1>1, <1>4 DEF Fifo!FailsOnlyWithItsClient, Fifo!Client
  <2>3. QED  BY <2>1, <2>2 DEF Fifo!FailsOnlyWithItsClient, Fifo!Client
<1>8. QED  BY <1>3, <1>6, <1>7

LEMMA FifoNumberStep == ASSUME Fifo!FifoAssumption,
         FifoIInv, NEW s \in DOMAIN service, Fifo!ReadNumber(s) PROVE FifoIInv'
<1> USE DEF FifoIInv
<1> DEFINE c == Fifo!Client(s)
<1>1. PICK pc \in {"write", "spin"} :
        /\ service[s].pc = "read" /\ Fifo!Goes(s, pc) /\ (pc = "spin" => cpc[c] # "asked")
        /\ UNCHANGED <<logging, server, req, cpc, type, answer>>
  BY DEF Fifo!ReadNumber, Fifo!serverVars
<1>2. /\ lines' = (IF logging /\ service'[s].pc = "write" THEN lines + 1 ELSE lines)
      /\ number' = [number EXCEPT ![c] = FALSE] \/ number' = number
  BY DEF Fifo!ReadNumber
<1>3. pc \in ServicePcs /\ c \in Clients /\ lines' \in Nat /\ number' \in [Clients -> BOOLEAN]
  <2>1. pc \in ServicePcs          BY <1>1 DEF ServicePcs
  <2>2. c \in Clients              BY FifoRecords
  <2>3. lines' \in Nat             BY <1>2 DEF FifoTypes
  <2>4. number' \in [Clients -> BOOLEAN]
    <3>1. number \in [Clients -> BOOLEAN]  BY DEF FifoTypes
    <3>2. QED  BY <1>2, <3>1
  <2>5. QED  BY <2>1, <2>2, <2>3, <2>4
<1>4. /\ FifoTypes' /\ AskInv' /\ Truthful' /\ BufInv' /\ ListenInv' /\ ForkInv' /\ CopyInv'
      /\ Fifo!TwiceOnlyByACopy'
  BY <1>1, <1>3, GoKeeps DEF FifoTypes
<1>5. /\ DOMAIN service' = DOMAIN service /\ service'[s].pc = pc
      /\ \A r \in DOMAIN service : /\ service'[r].client = service[r].client
                                   /\ r # s => service'[r] = service[r]
  BY <1>1, <1>3, GoesFacts DEF FifoTypes
<1>6. answer[c] = 0 /\ cpc[c] \in {"asked", "killed"}
  BY <1>1 DEF ServiceInv
<1>7. ServiceInv'
  <2>1. \A r \in DOMAIN service' : service'[r].pc \in {"read", "write"} =>
          answer'[service'[r].client] = 0 /\ cpc'[service'[r].client] \in {"asked", "killed"}
    BY <1>1, <1>5, <1>6 DEF ServiceInv, Fifo!Client
  <2>2. \A d \in Clients : answer'[d] # 0 =>
          \E r \in DOMAIN service' : service'[r].client = d /\ service'[r].pc \in {"log", "end"}
    BY <1>1, <1>5 DEF ServiceInv, Fifo!Client
  <2>3. QED  BY <2>1, <2>2 DEF ServiceInv, Fifo!Client
<1>8. Fifo!RightAnswer' /\ Fifo!FailsOnlyWithItsClient'
  <2>1. Fifo!RightAnswer'  BY <1>1 DEF Fifo!RightAnswer
  <2>2. \A r \in DOMAIN service' : service'[r].pc \in {"spin", "dead"} =>
          cpc'[service'[r].client] = "killed"
    BY <1>1, <1>5, <1>6 DEF Fifo!FailsOnlyWithItsClient, Fifo!Client
  <2>3. QED  BY <2>1, <2>2 DEF Fifo!FailsOnlyWithItsClient, Fifo!Client
<1>9. QED  BY <1>4, <1>7, <1>8

LEMMA FifoReplyStep == ASSUME Fifo!FifoAssumption,
         FifoIInv, NEW s \in DOMAIN service, Fifo!Reply(s) PROVE FifoIInv'
<1> USE DEF FifoIInv
<1> DEFINE c == Fifo!Client(s)
<1>1. /\ service[s].pc = "write"
      /\ UNCHANGED <<logging, server, req, lines, cpc, type, number>>
  BY DEF Fifo!Reply, Fifo!serverVars
<1>2. PICK pc \in {"log", "end", "dead"} :
        /\ Fifo!Goes(s, pc)
        /\ \/ pc \in {"log", "end"} /\ answer' = [answer EXCEPT ![c] = service[s].type]
           \/ pc = "dead" /\ cpc[c] # "asked" /\ UNCHANGED answer
  BY DEF Fifo!Reply
<1>3. pc \in ServicePcs /\ c \in Clients /\ service[s].type \in Fifo!Programs
  <2>1. pc \in ServicePcs      BY <1>2 DEF ServicePcs
  <2>2. c \in Clients          BY FifoRecords
  <2>3. service[s] \in ServiceProcess
    BY DEF FifoTypes
  <2>4. QED  BY <2>1, <2>2, <2>3 DEF ServiceProcess
<1>4. /\ answer' \in [Clients -> Fifo!Programs \union {0}]
      /\ \A d \in Clients : d # c => answer'[d] = answer[d]
      /\ pc # "dead" => answer'[c] = service[s].type /\ answer'[c] # 0
      /\ pc = "dead" => answer'[c] = answer[c]
  <2>1. answer \in [Clients -> Fifo!Programs \union {0}]
    BY DEF FifoTypes
  <2>2. service[s].type # 0
    BY <1>3 DEF Fifo!Programs
  <2>3. QED  BY <1>2, <1>3, <2>1, <2>2
<1>5. /\ FifoTypes' /\ AskInv' /\ Truthful' /\ BufInv' /\ ListenInv' /\ ForkInv' /\ CopyInv'
      /\ Fifo!TwiceOnlyByACopy'
  BY <1>1, <1>2, <1>3, <1>4, GoKeeps DEF FifoTypes
<1>6. /\ DOMAIN service' = DOMAIN service /\ service'[s].pc = pc
      /\ \A r \in DOMAIN service : /\ service'[r].client = service[r].client
                                   /\ r # s => service'[r] = service[r]
  BY <1>2, <1>3, GoesFacts DEF FifoTypes
<1>7. answer[c] = 0 /\ cpc[c] \in {"asked", "killed"}
  BY <1>1 DEF ServiceInv
<1>8. \A r \in DOMAIN service : r # s /\ Fifo!Client(r) = c => service[r].pc = "open"
  BY <1>1, FifoAlone
<1>9. ServiceInv'
  <2>1. ASSUME NEW r \in DOMAIN service', service'[r].pc \in {"read", "write"}
        PROVE  /\ answer'[service'[r].client] = 0
               /\ cpc'[service'[r].client] \in {"asked", "killed"}
    <3>1. r # s /\ r \in DOMAIN service /\ service'[r] = service[r]
      BY <1>2, <1>6, <2>1
    <3>2. Fifo!Client(r) # c /\ Fifo!Client(r) \in Clients
      BY <1>8, <2>1, <3>1, FifoRecords
    <3>3. QED  BY <1>1, <1>4, <2>1, <3>1, <3>2 DEF ServiceInv, Fifo!Client
  <2>2. ASSUME NEW d \in Clients, answer'[d] # 0
        PROVE  \E r \in DOMAIN service' : service'[r].client = d /\ service'[r].pc \in {"log", "end"}
    <3>1. CASE d = c
      <4>1. pc # "dead"
        BY <1>4, <1>7, <2>2, <3>1
      <4>2. QED  BY <1>2, <1>6, <3>1, <4>1 DEF Fifo!Client
    <3>2. CASE d # c
      <4>1. PICK r \in DOMAIN service : Fifo!Client(r) = d /\ service[r].pc \in {"log", "end"}
        BY <1>4, <2>2, <3>2 DEF ServiceInv
      <4>2. r # s
        BY <3>2, <4>1
      <4>3. QED  BY <1>6, <4>1, <4>2 DEF Fifo!Client
    <3>3. QED  BY <3>1, <3>2
  <2>3. QED  BY <2>1, <2>2 DEF ServiceInv, Fifo!Client
<1>10. Fifo!RightAnswer'
  <2>1. service[s].type = type[c]
    BY DEF Truthful
  <2>2. QED  BY <1>1, <1>2, <1>4, <1>7, <2>1 DEF Fifo!RightAnswer
<1>11. Fifo!FailsOnlyWithItsClient'
  <2>1. \A r \in DOMAIN service' : service'[r].pc \in {"spin", "dead"} =>
          cpc'[service'[r].client] = "killed"
    BY <1>1, <1>2, <1>6, <1>7 DEF Fifo!FailsOnlyWithItsClient, Fifo!Client
  <2>2. QED  BY <2>1 DEF Fifo!FailsOnlyWithItsClient, Fifo!Client
<1>12. QED  BY <1>5, <1>9, <1>10, <1>11

LEMMA FifoLogStep == ASSUME Fifo!FifoAssumption,
         FifoIInv, NEW s \in DOMAIN service, Fifo!LogAnswer(s) PROVE FifoIInv'
<1> USE DEF FifoIInv
<1>1. /\ service[s].pc = "log" /\ Fifo!Goes(s, "end") /\ lines' = lines + 1
      /\ UNCHANGED <<logging, server, req, cpc, type, number, answer>>
  BY DEF Fifo!LogAnswer, Fifo!serverVars, Fifo!clientVars
<1>2. "end" \in ServicePcs /\ lines' \in Nat
  BY <1>1 DEF ServicePcs, FifoTypes
<1>3. /\ FifoTypes' /\ AskInv' /\ Truthful' /\ BufInv' /\ ListenInv' /\ ForkInv' /\ CopyInv'
      /\ Fifo!TwiceOnlyByACopy'
  BY <1>1, <1>2, GoKeeps DEF FifoTypes
<1>4. /\ DOMAIN service' = DOMAIN service /\ service'[s].pc = "end"
      /\ \A r \in DOMAIN service : /\ service'[r].client = service[r].client
                                   /\ r # s => service'[r] = service[r]
  BY <1>1, <1>2, GoesFacts DEF FifoTypes
<1>5. ServiceInv'
  <2>1. \A r \in DOMAIN service' : service'[r].pc \in {"read", "write"} =>
          answer'[service'[r].client] = 0 /\ cpc'[service'[r].client] \in {"asked", "killed"}
    BY <1>1, <1>4 DEF ServiceInv, Fifo!Client
  <2>2. \A d \in Clients : answer'[d] # 0 =>
          \E r \in DOMAIN service' : service'[r].client = d /\ service'[r].pc \in {"log", "end"}
    BY <1>1, <1>4 DEF ServiceInv, Fifo!Client
  <2>3. QED  BY <2>1, <2>2 DEF ServiceInv, Fifo!Client
<1>6. Fifo!RightAnswer' /\ Fifo!FailsOnlyWithItsClient'
  <2>1. Fifo!RightAnswer'  BY <1>1 DEF Fifo!RightAnswer
  <2>2. \A r \in DOMAIN service' : service'[r].pc \in {"spin", "dead"} =>
          cpc'[service'[r].client] = "killed"
    BY <1>1, <1>4 DEF Fifo!FailsOnlyWithItsClient, Fifo!Client
  <2>3. QED  BY <2>1, <2>2 DEF Fifo!FailsOnlyWithItsClient, Fifo!Client
<1>7. QED  BY <1>3, <1>5, <1>6

-----------------------------------------------------------------------------
(* The clients *)

\* A client that comes is unknown; one that ends had its answer, or was killed.
LEMMA FifoComesAndGoes ==
  ASSUME Fifo!FifoAssumption,
         FifoIInv, NEW c \in Clients, NEW to, cpc' = [cpc EXCEPT ![c] = to],
         \/ cpc[c] = "away" /\ to = "open"
         \/ cpc[c] = "asked" /\ answer[c] # 0 /\ to = "done"
         \/ cpc[c] \in {"open", "asked"} /\ to = "killed",
         UNCHANGED <<logging, server, req, service, lines, type, number, answer>>
  PROVE  FifoIInv'
<1> USE DEF FifoIInv
<1>1. cpc \in [Clients -> {"away", "open", "asked", "done", "killed"}]
  BY DEF FifoTypes
<1>2. /\ cpc'[c] = to /\ \A d \in Clients : d # c => cpc'[d] = cpc[d]
      /\ cpc' \in [Clients -> {"away", "open", "asked", "done", "killed"}]
  BY <1>1
<1>3. \A d \in Clients : (InReq(d)' <=> InReq(d)) /\ (Untouched(d)' <=> Untouched(d))
  BY DEF InReq, Untouched, Fifo!Client
<1>4. \A s \in DOMAIN service : Fifo!Client(s)' = Fifo!Client(s) /\ Fifo!Client(s) \in Clients
  BY FifoRecords DEF Fifo!Client
<1>5. to = "open" => \A s \in DOMAIN service : Fifo!Client(s) # c
  BY DEF AskInv, Untouched
<1>6. FifoTypes'
  BY <1>2 DEF FifoTypes
<1>7. AskInv'
  <2>1. cpc'[c] \in {"away", "open"} => cpc[c] \in {"away", "open"}
    BY <1>2
  <2>2. \A d \in Clients : cpc'[d] \in {"away", "open"} => cpc[d] \in {"away", "open"}
    BY <1>2, <2>1
  <2>3. QED  BY <1>3, <2>2 DEF AskInv
<1>8. Truthful' /\ BufInv' /\ ListenInv' /\ Fifo!RightAnswer'
  BY DEF Truthful, BufInv, ListenInv, Fifo!RightAnswer, Fifo!Client
<1>9. \A d \in Clients : d \in Fifo!Writers' => d \in Fifo!Writers \/ (d = c /\ to = "open")
  BY <1>2 DEF Fifo!Writers
<1>10. ForkInv'
  <2>1. \A d \in Clients : d \in Fifo!Writers' => d \in Fifo!Writers \/ Untouched(d)
    BY <1>9 DEF AskInv
  <2>2. Len(server) \in Nat
    BY FifoCounts
  <2>3. QED  BY <1>4, <2>1, <2>2, ForkKept
<1>11. ServiceInv'
  <2>1. \A s \in DOMAIN service : service[s].pc \in {"read", "write"} =>
          cpc'[Fifo!Client(s)] \in {"asked", "killed"}
    BY <1>2, <1>4, <1>5 DEF ServiceInv
  <2>2. QED  BY <1>4, <2>1 DEF ServiceInv
<1>12. CopyInv'
  <2>1. Taken \subseteq Taken'
    BY <1>2, <1>3 DEF Taken
  <2>2. Forking' = Forking /\ Reading' = Reading
    BY DEF Forking, Reading
  <2>3. QED  BY <1>6, <2>1, <2>2, CopiesKept
<1>13. Fifo!TwiceOnlyByACopy'
  <2>1. \A s \in DOMAIN service : Fifo!Client(s) \in Fifo!Writers' => Fifo!Client(s) \in Fifo!Writers
    BY <1>4, <1>5, <1>9
  <2>2. QED  BY <1>4, <2>1 DEF Fifo!TwiceOnlyByACopy
<1>14. Fifo!FailsOnlyWithItsClient'
  BY <1>2, <1>4 DEF Fifo!FailsOnlyWithItsClient
<1>15. QED  BY <1>6, <1>7, <1>8, <1>10, <1>11, <1>12, <1>13, <1>14

LEMMA FifoAskStep ==
  ASSUME Fifo!FifoAssumption,
         FifoIInv, NEW c \in Clients, NEW t \in Wants[c], Fifo!Ask(c, t) PROVE FifoIInv'
<1> USE DEF FifoIInv
<1> DEFINE m == <<c, t>>
           n == Len(req) + 1
<1>1. /\ cpc[c] = "open" /\ cpc' = [cpc EXCEPT ![c] = "asked"] /\ type' = [type EXCEPT ![c] = t]
      /\ req' = Append(req, m)
      /\ UNCHANGED <<logging, server, service, lines, number, answer>>
  BY DEF Fifo!Ask
<1>2. t \in Nat /\ m \in Clients \X Nat /\ m[1] = c /\ m[2] = t
  BY DEF Fifo!FifoAssumption
<1> HIDE DEF m
<1>3. /\ cpc \in [Clients -> {"away", "open", "asked", "done", "killed"}] /\ type \in [Clients -> Nat]
  BY DEF FifoTypes
<1>4. /\ cpc'[c] = "asked" /\ \A d \in Clients : d # c => cpc'[d] = cpc[d] /\ type'[d] = type[d]
      /\ cpc' \in [Clients -> {"away", "open", "asked", "done", "killed"}]
      /\ type'[c] = t /\ type' \in [Clients -> Nat]
  BY <1>1, <1>2, <1>3
<1>5. /\ req' \in Seq(Clients \X Nat) /\ Len(req') = n /\ Len(req) \in Nat
      /\ DOMAIN req = 1 .. Len(req) /\ DOMAIN req' = 1 .. n
      /\ \A j \in 1 .. Len(req) : req'[j] = req[j]
      /\ req'[n] = m
  BY <1>1, <1>2, FifoAppend DEF FifoTypes
<1>6. /\ \A j \in DOMAIN req' : j = n \/ (j \in DOMAIN req /\ req'[j] = req[j])
      /\ \A j \in DOMAIN req : j \in DOMAIN req' /\ req'[j] = req[j]
      /\ n \in DOMAIN req' /\ req'[n][1] = c /\ req'[n][2] = t /\ req' # <<>>
  BY <1>2, <1>5
<1> HIDE DEF n
<1>7. ~InReq(c) /\ Untouched(c)
  BY <1>1 DEF AskInv
<1>8. \A d \in Clients : (InReq(d)' <=> InReq(d) \/ d = c) /\ (Untouched(d)' <=> Untouched(d))
  <2>1. \A d \in Clients : Untouched(d)' <=> Untouched(d)
    BY <1>1 DEF Untouched, Fifo!Client
  <2>2. ASSUME NEW d \in Clients PROVE InReq(d)' <=> InReq(d) \/ d = c
    BY <1>6 DEF InReq
  <2>3. QED  BY <2>1, <2>2
<1>9. \A s \in DOMAIN service : Fifo!Client(s)' = Fifo!Client(s) /\ Fifo!Client(s) \in Clients /\ Fifo!Client(s) # c
  BY <1>1, <1>7, FifoRecords DEF Fifo!Client, Untouched
<1>10. FifoTypes'
  BY <1>1, <1>4, <1>5 DEF FifoTypes
<1>11. AskInv'
  <2>1. \A d \in Clients : cpc'[d] \in {"away", "open"} => ~InReq(d)'
    BY <1>4, <1>8 DEF AskInv
  <2>2. \A d \in Clients : cpc'[d] \in {"away", "open"} \/ InReq(d)' => Untouched(d)'
    BY <1>4, <1>7, <1>8 DEF AskInv
  <2>3. ASSUME NEW a \in DOMAIN req', NEW j \in DOMAIN req', req'[a][1] = req'[j][1] PROVE a = j
    <3>1. \A h \in DOMAIN req : req[h][1] # c
      BY <1>7 DEF InReq
    <3>2. QED  BY <1>6, <2>3, <3>1 DEF AskInv
  <2>4. QED  BY <2>1, <2>2, <2>3 DEF AskInv
<1>12. Truthful'
  <2>1. \A j \in DOMAIN req' : req'[j][2] = type'[req'[j][1]]
    <3>1. \A h \in DOMAIN req : req[h][1] # c /\ req[h][1] \in Clients
      BY <1>7, FifoRecords DEF InReq
    <3>2. QED  BY <1>4, <1>6, <3>1 DEF Truthful
  <2>2. \A k \in DOMAIN server' :
          server'[k].buf # <<>> => server'[k].buf[2] = type'[server'[k].buf[1]]
    <3>1. \A k \in DOMAIN server : server[k].buf # <<>> =>
            server[k].buf[1] # c /\ server[k].buf[1] \in Clients
      BY <1>7, FifoRecords DEF Untouched
    <3>2. QED  BY <1>1, <1>4, <3>1 DEF Truthful
  <2>3. \A s \in DOMAIN service : service[s].type = type'[Fifo!Client(s)]
    BY <1>4, <1>9 DEF Truthful
  <2>4. QED  BY <1>1, <1>9, <2>1, <2>2, <2>3 DEF Truthful
<1>13. BufInv'
  BY <1>1 DEF BufInv
<1>14. ListenInv'
  BY <1>6 DEF ListenInv
<1>15. \A d \in Clients : d \in Fifo!Writers' <=> d \in Fifo!Writers
  BY <1>1, <1>4 DEF Fifo!Writers
<1>16. ForkInv'
  <2>1. Len(server) \in Nat
    BY FifoCounts
  <2>2. QED  BY <1>1, <1>9, <1>15, <2>1, ForkKept
<1>17. ServiceInv'
  <2>1. \A s \in DOMAIN service : cpc'[Fifo!Client(s)] = cpc[Fifo!Client(s)]
    BY <1>4, <1>9
  <2>2. QED  BY <1>1, <1>9, <2>1 DEF ServiceInv
<1>18. CopyInv'
  <2>1. Taken \subseteq Taken'
    BY <1>1, <1>4, <1>8 DEF Taken
  <2>2. Forking' = Forking
    BY <1>1 DEF Forking
  <2>3. QED  BY <1>1, <1>6, <1>10, <2>1, <2>2, CopiesKept
<1>19. Fifo!TwiceOnlyByACopy'
  BY <1>1, <1>9, <1>15 DEF Fifo!TwiceOnlyByACopy
<1>20. Fifo!RightAnswer'
  <2>1. answer[c] = 0
    BY <1>7 DEF Untouched
  <2>2. QED  BY <1>1, <1>4, <2>1 DEF Fifo!RightAnswer
<1>21. Fifo!FailsOnlyWithItsClient'
  BY <1>1, <1>4, <1>9 DEF Fifo!FailsOnlyWithItsClient
<1>22. QED
  BY <1>10, <1>11, <1>12, <1>13, <1>14, <1>16, <1>17, <1>18, <1>19, <1>20, <1>21

LEMMA FifoOnlyNumber ==
  ASSUME FifoIInv, UNCHANGED <<logging, server, req, service, lines, cpc, type, answer>>,
         number' \in [Clients -> BOOLEAN]
  PROVE  FifoIInv'
<1> USE DEF FifoIInv
<1>1. FifoTypes'
  BY DEF FifoTypes
<1>2. AskInv' /\ Truthful' /\ BufInv' /\ ListenInv'
  BY DEF AskInv, InReq, Untouched, Truthful, BufInv, ListenInv, Fifo!Client
<1>3. ForkInv' /\ ServiceInv'
  BY DEF ForkInv, NotStarted, ByACopy, Fifo!Writers, ServiceInv, Fifo!Client
<1>4. CopyInv'
  <2>1. Forking' = Forking /\ Reading' = Reading /\ Taken' = Taken
    BY DEF Forking, Reading, Taken, InReq
  <2>2. QED  BY <2>1 DEF CopyInv, Becoming
<1>5. Fifo!TwiceOnlyByACopy' /\ Fifo!RightAnswer' /\ Fifo!FailsOnlyWithItsClient'
  BY DEF Fifo!TwiceOnlyByACopy, Fifo!RightAnswer, Fifo!FailsOnlyWithItsClient, Fifo!Client, Fifo!Writers
<1>6. QED  BY <1>1, <1>2, <1>3, <1>4, <1>5

LEMMA FifoClient == ASSUME Fifo!FifoAssumption,
         FifoIInv, NEW c \in Clients, Fifo!Hear(c) \/ Fifo!User(c) PROVE FifoIInv'
<1>1. CASE Fifo!OpenFifo(c) \/ Fifo!Hear(c) \/ Fifo!Kill(c)
  BY <1>1, FifoComesAndGoes DEF Fifo!OpenFifo, Fifo!Hear, Fifo!Kill, Fifo!serverVars
<1>2. CASE Fifo!Type(c)
  <2>1. UNCHANGED <<logging, server, req, service, lines, cpc, type, answer>>
    BY <1>2 DEF Fifo!Type, Fifo!serverVars
  <2>2. number \in [Clients -> BOOLEAN]
    BY DEF FifoIInv, FifoTypes
  <2>3. number' \in [Clients -> BOOLEAN]
    BY <1>2, <2>2 DEF Fifo!Type
  <2>4. QED  BY <2>1, <2>3, FifoOnlyNumber
<1>3. QED  BY <1>1, <1>2, FifoAskStep DEF Fifo!User

-----------------------------------------------------------------------------

LEMMA FifoStep ==
  ASSUME Fifo!FifoAssumption
  PROVE  FifoIInv /\ [Fifo!Next]_(Fifo!vars) => FifoIInv'
<1> SUFFICES ASSUME FifoIInv, [Fifo!Next]_(Fifo!vars) PROVE FifoIInv'
  OBVIOUS
<1>1. CASE \E k \in DOMAIN server : Fifo!Server(k)
  BY <1>1, FifoServer
<1>2. CASE \E s \in DOMAIN service : Fifo!Square(s) \/ Fifo!Cube(s) \/ Fifo!Fourth(s)
  BY <1>2, FifoOpenStep, FifoNumberStep, FifoReplyStep, FifoLogStep
  DEF Fifo!Square, Fifo!Cube, Fifo!Fourth, Fifo!Service
<1>3. CASE \E c \in Clients : Fifo!Hear(c) \/ Fifo!User(c)
  BY <1>3, FifoClient
<1>4. CASE UNCHANGED Fifo!vars
  <2>1. UNCHANGED <<logging, server, req, service, lines, cpc, type, number, answer>>
    BY <1>4 DEF Fifo!vars, Fifo!serverVars, Fifo!clientVars
  <2>2. number' \in [Clients -> BOOLEAN]
    BY <2>1 DEF FifoIInv, FifoTypes
  <2>3. QED  BY <2>1, <2>2, FifoOnlyNumber
<1>5. QED  BY <1>1, <1>2, <1>3, <1>4 DEF Fifo!Next

LEMMA FifoImplied ==
  ASSUME Fifo!FifoAssumption
  PROVE  FifoIInv => Fifo!FifoInv
<1> SUFFICES ASSUME FifoIInv PROVE Fifo!FifoInv
  OBVIOUS
<1>1. FifoTypes /\ CopyInv /\ ListenInv /\ Fifo!TwiceOnlyByACopy /\ Fifo!RightAnswer /\ Fifo!FailsOnlyWithItsClient
  BY DEF FifoIInv
<1>2. Len(server) + Len(service) <= Fifo!MostCopies
  <2>1. /\ Len(server) \in Nat /\ Len(service) \in Nat /\ Cardinality(Forking) \in Nat
        /\ Cardinality(SUBSET Taken) \in Nat /\ Cardinality(SUBSET Taken) <= Fifo!MostCopies
    BY <1>1, FifoCounts
  <2>2. Fifo!MostCopies \in Nat
    BY FifoFinite, FifoSubsets
  <2>3. Len(server) + Len(service) + Cardinality(Forking) <= Cardinality(SUBSET Taken)
    BY <1>1 DEF CopyInv, Becoming
  <2>4. QED  BY <2>1, <2>2, <2>3
<1>3. Fifo!TypeOK
  BY <1>1, <1>2 DEF FifoTypes, Fifo!TypeOK, ServerProcess, ServiceProcess, ServerPcs, ServicePcs
<1>4. Fifo!SomebodyListens
  BY <1>1 DEF ListenInv, Fifo!SomebodyListens
<1>5. QED  BY <1>1, <1>3, <1>4 DEF Fifo!FifoInv

\* Requests are started once, unless a copy of the server is about, and served rightly, for
\* any number of clients that want any types; servers and services never are more than
\* there are sets of clients.
THEOREM FifoCorrect ==
  ASSUME Fifo!FifoAssumption
  PROVE  Fifo!Spec => []Fifo!FifoInv
<1>1. Fifo!Init => FifoIInv
  BY FifoInit
<1>2. FifoIInv /\ [Fifo!Next]_(Fifo!vars) => FifoIInv'
  BY FifoStep
<1>3. FifoIInv => Fifo!FifoInv
  BY FifoImplied
<1>4. QED  BY <1>1, <1>2, <1>3, PTL DEF Fifo!Spec
=============================================================================
