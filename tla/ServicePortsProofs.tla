------------------------- MODULE ServicePortsProofs -------------------------
(***************************************************************************)
(* Proofs about ServicePorts.  The inductive invariant says where a client *)
(* is on its way from the backlog through nsfd to its service: in one place *)
(* only, and with the port it connected to (Place).  From it follows that   *)
(* an undisturbed cnt[] balances (Balance); that no test, load or store can *)
(* make it negative needs only the values in flight (InFlight).            *)
(*                                                                         *)
(* The second part is about ServiceMenu, the server that starts the same   *)
(* services on first use, through an instance.                             *)
(***************************************************************************)
EXTENDS ServicePorts, FiniteSetTheorems, TLAPS

-----------------------------------------------------------------------------
(* Types *)

ServerTypes ==
  /\ mpc \in {"poll", "check", "load", "store", "fork", "dead"}
  /\ mi \in Ports
  /\ nsfd \in Clients \union {NoClient}
  /\ mpc \in {"poll", "dead"} => nsfd = NoClient
  /\ mpc = "fork" => nsfd # NoClient
  /\ mtmp \in Int

CountTypes ==
  /\ cnt \in [Ports -> Int]
  /\ stmp \in [Clients -> Int]
  /\ raced \subseteq Ports

PlaceTypes ==
  /\ backlog \in [Ports -> Seq(Clients)]
  /\ spc \in [Clients -> {"none", "read", "write", "store", "done", "dead"}]
  /\ port \in [Clients -> Ports]

ClientTypes ==
  /\ cpc \in [Clients -> {"away", "joining", "typing", "waiting", "gone", "fooled"}]
  /\ inbox \in [Clients -> {"none", "yes", "no", "reply"}]
  /\ asked \in [Clients -> BOOLEAN]
  /\ fin \in [Clients -> {"no", "fin", "rst", "reset"}]

LEMMA TypeParts == TypeOK <=> ServerTypes /\ CountTypes /\ PlaceTypes /\ ClientTypes
  BY DEF TypeOK, ServerTypes, CountTypes, PlaceTypes, ClientTypes

LEMMA NextPortIsAPort == ASSUME mi \in Ports PROVE NextPort \in Ports
  BY PortsAssumption DEF NextPort, Ports

LEMMA TypeInit == Init => TypeOK
<1>1. 0 \in Ports
  BY PortsAssumption DEF Ports
<1>2. Capacity \in [Ports -> Int]
  BY PortsAssumption
<1> QED  BY <1>1, <1>2 DEF Init, InitCnt, TypeOK

\* What every send() does to the client's socket.
LEMMA SendTypes ==
  ASSUME ClientTypes, NEW c \in Clients \union {NoClient},
         NEW m \in {"none", "yes", "no", "reply"},
         SendTo(c, m), UNCHANGED <<cpc, asked>>
  PROVE  ClientTypes'
<1>1. inbox' \in [Clients -> {"none", "yes", "no", "reply"}]
  BY DEF SendTo, ClientTypes
<1>2. fin' \in [Clients -> {"no", "fin", "rst", "reset"}]
  BY DEF SendTo, ClientTypes
<1> QED  BY <1>1, <1>2 DEF ClientTypes

LEMMA TypeStep == TypeOK /\ [Next]_vars => TypeOK'
<1> SUFFICES ASSUME TypeOK, [Next]_vars PROVE TypeOK'
  OBVIOUS
<1>0. ServerTypes /\ CountTypes /\ PlaceTypes /\ ClientTypes
  BY TypeParts
<1> SUFFICES ServerTypes' /\ CountTypes' /\ PlaceTypes' /\ ClientTypes'
  BY DEF TypeOK, ServerTypes, CountTypes, PlaceTypes, ClientTypes
<1>n. mi \in Ports /\ NextPort \in Ports
  BY <1>0, NextPortIsAPort DEF ServerTypes
<1>c. NoClient \notin Clients
  BY PortsAssumption
<1>1. CASE Timeout
  BY <1>0, <1>1, <1>n DEF Timeout, serviceVars, socketVars, ServerTypes, CountTypes,
     PlaceTypes, ClientTypes
<1>2. CASE Accept
  <2>1. backlog[mi] \in Seq(Clients) /\ backlog[mi] # <<>>
    BY <1>0, <1>2, <1>n DEF Accept, PlaceTypes
  <2>2. Head(backlog[mi]) \in Clients /\ Tail(backlog[mi]) \in Seq(Clients)
    BY <2>1
  <2>3. ServerTypes'
    BY <1>0, <1>2, <2>2 DEF Accept, ServerTypes
  <2>4. PlaceTypes'
    <3>1. backlog' \in [Ports -> Seq(Clients)]
      BY <1>0, <1>2, <2>2 DEF Accept, PlaceTypes
    <3> QED  BY <1>0, <1>2, <3>1 DEF Accept, PlaceTypes, serviceVars
  <2> QED  BY <1>0, <1>2, <2>3, <2>4 DEF Accept, serviceVars, socketVars, CountTypes,
              ClientTypes
<1>3. CASE Refuse
  <2>1. nsfd \in Clients \union {NoClient}
    BY <1>0, <1>3 DEF Refuse, ServerTypes
  <2>2. ClientTypes'
    BY <1>0, <1>3, <2>1, SendTypes DEF Refuse
  <2> QED  BY <1>0, <1>3, <1>n, <2>2 DEF Refuse, serviceVars, ServerTypes, CountTypes,
              PlaceTypes
<1>4. CASE Admit
  <2>1. nsfd \in Clients \union {NoClient}
    BY <1>0, <1>4 DEF Admit, ServerTypes
  <2>2. ClientTypes'
    BY <1>0, <1>4, <2>1, SendTypes DEF Admit
  <2> QED  BY <1>0, <1>4, <2>2 DEF Admit, serviceVars, ServerTypes, CountTypes, PlaceTypes
<1>5. CASE TakeSeat
  BY <1>0, <1>5 DEF TakeSeat, serviceVars, socketVars, ServerTypes, CountTypes, PlaceTypes,
     ClientTypes
<1>6. CASE StoreTaken
  BY <1>0, <1>6 DEF StoreTaken, AfterCount, serviceVars, socketVars, ServerTypes, CountTypes,
     PlaceTypes, ClientTypes
<1>7. CASE Fork
  BY <1>0, <1>7, <1>n DEF Fork, socketVars, ServerTypes, CountTypes, PlaceTypes, ClientTypes
<1>8. ASSUME NEW c \in Clients, Service(c)
      PROVE  ServerTypes' /\ CountTypes' /\ PlaceTypes' /\ ClientTypes'
  <2>1. CASE Request(c)
    BY <1>0, <2>1 DEF Request, serverVars, ServerTypes, CountTypes, PlaceTypes, ClientTypes
  <2>2. CASE Answer(c)
    <3>1. ClientTypes'
      BY <1>0, <2>2, SendTypes DEF Answer
    <3> QED  BY <1>0, <2>2, <3>1 DEF Answer, serverVars, ServerTypes, CountTypes, PlaceTypes
  <2>3. CASE Die(c)
    BY <1>0, <2>3 DEF Die, serverVars, socketVars, ServerTypes, CountTypes, PlaceTypes,
       ClientTypes
  <2>4. CASE ReturnSeat(c)
    BY <1>0, <2>4 DEF ReturnSeat, serverVars, socketVars, ServerTypes, CountTypes,
       PlaceTypes, ClientTypes
  <2>5. CASE StoreReturned(c)
    BY <1>0, <2>5 DEF StoreReturned, OneMore, serverVars, socketVars, ServerTypes,
       CountTypes, PlaceTypes, ClientTypes
  <2> QED  BY <1>8, <2>1, <2>2, <2>3, <2>4, <2>5 DEF Service
<1>9. ASSUME NEW c \in Clients, Client(c)
      PROVE  ServerTypes' /\ CountTypes' /\ PlaceTypes' /\ ClientTypes'
  <2>1. CASE Connect(c)
    <3>1. PlaceTypes'
      <4>1. CASE UNCHANGED <<port, backlog>>
        BY <1>0, <2>1, <4>1 DEF Connect, serviceVars, PlaceTypes
      <4>2. ASSUME NEW p \in Ports, port' = [port EXCEPT ![c] = p],
                   backlog' = [backlog EXCEPT ![p] = Append(@, c)]
            PROVE  PlaceTypes'
        BY <1>0, <2>1, <4>2 DEF Connect, serviceVars, PlaceTypes
      <4> QED  BY <2>1, <4>1, <4>2 DEF Connect
    <3>2. ClientTypes'
      BY <1>0, <2>1 DEF Connect, socketVars, ClientTypes
    <3> QED  BY <1>0, <2>1, <3>1, <3>2 DEF Connect, serverVars, serviceVars, ServerTypes,
                CountTypes
  <2>2. CASE Greeted(c)
    BY <1>0, <2>2 DEF Greeted, serverVars, serviceVars, ServerTypes, CountTypes, PlaceTypes,
       ClientTypes
  <2>3. CASE Ask(c)
    BY <1>0, <2>3 DEF Ask, serverVars, serviceVars, ServerTypes, CountTypes, PlaceTypes,
       ClientTypes
  <2>4. CASE Read(c)
    BY <1>0, <2>4 DEF Read, serverVars, serviceVars, ServerTypes, CountTypes, PlaceTypes,
       ClientTypes
  <2>5. CASE Quit(c)
    BY <1>0, <2>5 DEF Quit, serverVars, serviceVars, ServerTypes, CountTypes, PlaceTypes,
       ClientTypes
  <2>6. CASE LoseServer(c)
    BY <1>0, <2>6 DEF LoseServer, serverVars, serviceVars, socketVars, ServerTypes,
       CountTypes, PlaceTypes, ClientTypes
  <2> QED  BY <1>9, <2>1, <2>2, <2>3, <2>4, <2>5, <2>6 DEF Client
<1>10. CASE UNCHANGED vars
  BY <1>0, <1>10 DEF vars, serverVars, serviceVars, socketVars, ServerTypes, CountTypes,
     PlaceTypes, ClientTypes
<1> QED
  BY <1>1, <1>2, <1>3, <1>4, <1>5, <1>6, <1>7, <1>8, <1>9, <1>10 DEF Next, Server

\* The state of the server, the services, the clients and their sockets keeps its
\* type: in particular main has a connection when it starts a service, and none when it
\* polls or has exited.
THEOREM TypeCorrect == Spec => []TypeOK
<1>1. Init => TypeOK
  BY TypeInit
<1>2. TypeOK /\ [Next]_vars => TypeOK'
  BY TypeStep
<1> QED  BY <1>1, <1>2, PTL DEF Spec

-----------------------------------------------------------------------------
(* cnt[] is never negative *)

\* A seat is taken only from a count that was positive when tested, and services
\* only add; so the copies in flight never lead below zero.
InFlight ==
  /\ \A p \in Ports : cnt[p] >= 0
  /\ mpc = "load" => cnt[mi] >= 1
  /\ mpc = "store" => mtmp >= 1
  /\ \A c \in Clients : spc[c] = "store" => stmp[c] >= 0

LEMMA InFlightInit == Init => InFlight
<1>1. \A p \in Ports : Capacity[p] \in Nat
  BY PortsAssumption
<1> QED  BY <1>1 DEF Init, InitCnt, InFlight

LEMMA InFlightStep == TypeOK /\ InFlight /\ [Next]_vars => InFlight'
<1> SUFFICES ASSUME TypeOK, InFlight, [Next]_vars PROVE InFlight'
  OBVIOUS
<1>0. ServerTypes /\ CountTypes /\ PlaceTypes
  BY TypeParts
<1>1. CASE Timeout \/ Accept \/ Refuse
  BY <1>0, <1>1 DEF Timeout, Accept, Refuse, serviceVars, InFlight, ServerTypes
<1>2. CASE Admit
  <2>1. cnt[mi] >= 1
    BY <1>0, <1>2 DEF Admit, Room, InFlight, ServerTypes, CountTypes
  <2> QED  BY <1>2, <2>1 DEF Admit, serviceVars, InFlight
<1>3. CASE TakeSeat
  BY <1>3 DEF TakeSeat, serviceVars, InFlight
<1>4. CASE StoreTaken
  BY <1>0, <1>4 DEF StoreTaken, AfterCount, serviceVars, InFlight, ServerTypes, CountTypes
<1>5. CASE Fork
  BY <1>0, <1>5 DEF Fork, InFlight, PlaceTypes
<1>6. ASSUME NEW c \in Clients, Service(c) PROVE InFlight'
  <2>1. CASE Request(c) \/ Answer(c) \/ Die(c)
    BY <1>0, <2>1 DEF Request, Answer, Die, serverVars, InFlight, PlaceTypes
  <2>2. CASE ReturnSeat(c)
    BY <1>0, <2>2 DEF ReturnSeat, serverVars, InFlight, PlaceTypes, CountTypes
  <2>3. CASE StoreReturned(c)
    <3>1. port[c] \in Ports /\ stmp[c] \in Int /\ stmp[c] >= 0
      BY <1>0, <2>3 DEF StoreReturned, InFlight, PlaceTypes, CountTypes
    <3>2. cnt' = [cnt EXCEPT ![port[c]] = stmp[c] + 1]
      BY <2>3 DEF StoreReturned, OneMore
    <3>3. \A p \in Ports : cnt'[p] >= 0
      BY <1>0, <3>1, <3>2 DEF InFlight, CountTypes
    <3>4. mpc = "load" => cnt'[mi] >= 1
      BY <1>0, <3>1, <3>2 DEF InFlight, ServerTypes, CountTypes
    <3>5. mpc' = mpc /\ mi' = mi /\ mtmp' = mtmp
      BY <2>3 DEF StoreReturned, serverVars
    <3>6. \A d \in Clients : spc'[d] = "store" => stmp'[d] >= 0
      BY <1>0, <2>3 DEF StoreReturned, InFlight, PlaceTypes
    <3> QED  BY <3>3, <3>4, <3>5, <3>6 DEF InFlight
  <2> QED  BY <1>6, <2>1, <2>2, <2>3 DEF Service
<1>7. ASSUME NEW c \in Clients, Client(c) PROVE InFlight'
  <2>1. UNCHANGED <<cnt, mpc, mi, mtmp, spc, stmp>>
    BY <1>7 DEF Client, Connect, Greeted, LoseServer, Ask, Read, Quit, serverVars, serviceVars
  <2> QED  BY <2>1 DEF InFlight
<1>8. CASE UNCHANGED vars
  BY <1>8 DEF vars, serverVars, serviceVars, InFlight
<1> QED  BY <1>1, <1>2, <1>3, <1>4, <1>5, <1>6, <1>7, <1>8 DEF Next, Server

\* cnt[] stays at zero or above for any number of clients and ports, whatever
\* updates are lost.
THEOREM CountNeverNegative == Spec => []NeverNegative
<1>1. Init => InFlight
  BY InFlightInit
<1>2. TypeOK /\ InFlight /\ [Next]_vars => InFlight'
  BY InFlightStep
<1>3. InFlight => NeverNegative
  BY DEF InFlight, NeverNegative
<1> QED  BY <1>1, <1>2, <1>3, TypeCorrect, PTL DEF Spec

-----------------------------------------------------------------------------
(* cnt[] accounts for the seats *)

\* A client is in one backlog at most, or in nsfd, with its own port, and has no
\* service yet; a client that has not connected has none either.
Place ==
  /\ \A p \in Ports : \A k \in 1 .. Len(backlog[p]) :
       LET c == backlog[p][k] IN
       /\ port[c] = p /\ spc[c] = "none" /\ cpc[c] # "away" /\ c # nsfd
       /\ \A j \in 1 .. Len(backlog[p]) : j # k => backlog[p][j] # c
  /\ nsfd # NoClient => port[nsfd] = mi /\ spc[nsfd] = "none" /\ cpc[nsfd] # "away"
  /\ \A c \in Clients : cpc[c] = "away" => spc[c] = "none"

LEMMA PlaceInit == Init => Place
  BY DEF Init, Place

LEMMA PlaceStep == TypeOK /\ Place /\ [Next]_vars => Place'
<1> SUFFICES ASSUME TypeOK, Place, [Next]_vars PROVE Place'
  OBVIOUS
<1>0. ServerTypes /\ PlaceTypes /\ ClientTypes /\ NoClient \notin Clients
  BY TypeParts, PortsAssumption
<1>1. CASE Timeout
  BY <1>0, <1>1 DEF Timeout, serviceVars, Place, ServerTypes
<1>2. CASE Accept /\ OutOfFiles
  <2>1. UNCHANGED <<backlog, spc, port, cpc, nsfd, mi>>
    BY <1>2 DEF Accept, serviceVars
  <2> QED  BY <2>1 DEF Place
<1>3. CASE Accept /\ ~OutOfFiles
  <2>1. PICK p \in Ports : p = mi
    BY <1>0 DEF ServerTypes
  <2>2. backlog[p] \in Seq(Clients) /\ backlog[p] # <<>>
    BY <1>0, <1>3, <2>1 DEF Accept, PlaceTypes
  <2>3. nsfd = NoClient
    BY <1>0, <1>3 DEF Accept, ServerTypes
  <2>4. /\ nsfd' = backlog[p][1] /\ nsfd' \in Clients
        /\ backlog' = [backlog EXCEPT ![p] = Tail(backlog[p])]
        /\ UNCHANGED <<mi, spc, port, cpc>>
    BY <1>3, <2>1, <2>2 DEF Accept, serviceVars
  <2>5. 1 \in 1 .. Len(backlog[p])
    BY <2>2
  <2>6. port[nsfd'] = mi' /\ spc'[nsfd'] = "none" /\ cpc'[nsfd'] # "away"
    BY <2>1, <2>4, <2>5 DEF Place
  <2>7. ASSUME NEW q \in Ports, NEW k \in 1 .. Len(backlog'[q])
        PROVE  LET c == backlog'[q][k] IN
               /\ port'[c] = q /\ spc'[c] = "none" /\ cpc'[c] # "away" /\ c # nsfd'
               /\ \A j \in 1 .. Len(backlog'[q]) : j # k => backlog'[q][j] # c
    <3>1. CASE q = p
      <4>1. backlog'[q] = Tail(backlog[p])
        BY <1>0, <2>4, <3>1 DEF PlaceTypes
      <4>2. /\ Len(backlog'[q]) = Len(backlog[p]) - 1
            /\ \A j \in 1 .. Len(backlog'[q]) : backlog'[q][j] = backlog[p][j + 1]
        BY <2>2, <4>1
      <4>3. /\ k + 1 \in 1 .. Len(backlog[p]) /\ k + 1 # 1
            /\ \A j \in 1 .. Len(backlog'[q]) : j + 1 \in 1 .. Len(backlog[p])
        BY <2>2, <4>2
      <4> QED  BY <2>4, <2>5, <3>1, <4>2, <4>3 DEF Place
    <3>2. CASE q # p
      <4>1. backlog'[q] = backlog[q]
        BY <1>0, <2>4, <3>2 DEF PlaceTypes
      <4>2. port[backlog[q][k]] = q /\ port[nsfd'] = p
        BY <2>1, <2>4, <2>6, <4>1 DEF Place
      <4> QED  BY <2>4, <3>2, <4>1, <4>2 DEF Place
    <3> QED  BY <3>1, <3>2
  <2>8. \A c \in Clients : cpc'[c] = "away" => spc'[c] = "none"
    BY <2>4 DEF Place
  <2> QED  BY <2>4, <2>6, <2>7, <2>8 DEF Place
<1>4. CASE Refuse
  <2>1. /\ UNCHANGED <<backlog, spc, port, cpc>> /\ nsfd' = NoClient
    BY <1>4 DEF Refuse, serviceVars
  <2>2. \A p \in Ports : \A k \in 1 .. Len(backlog[p]) : backlog[p][k] \in Clients
    BY <1>0 DEF PlaceTypes
  <2> QED  BY <1>0, <2>1, <2>2 DEF Place
<1>5. CASE Admit \/ TakeSeat \/ StoreTaken
  <2>1. UNCHANGED <<backlog, spc, port, cpc, nsfd, mi>>
    BY <1>5 DEF Admit, TakeSeat, StoreTaken, serviceVars
  <2> QED  BY <2>1 DEF Place
<1>6. CASE Fork
  <2>1. nsfd \in Clients /\ nsfd # NoClient
    BY <1>0, <1>6 DEF Fork, ServerTypes
  <2>2. /\ UNCHANGED <<backlog, port, cpc>> /\ nsfd' = NoClient
        /\ spc' = [spc EXCEPT ![nsfd] = "read"]
    BY <1>6 DEF Fork
  <2>3. \A p \in Ports : \A k \in 1 .. Len(backlog[p]) : backlog[p][k] \in Clients
    BY <1>0 DEF PlaceTypes
  <2> QED  BY <1>0, <2>1, <2>2, <2>3 DEF Place, PlaceTypes
<1>7. ASSUME NEW c \in Clients, Service(c) PROVE Place'
  <2>1. UNCHANGED <<backlog, port, cpc, nsfd, mi>>
    BY <1>7 DEF Service, Request, Answer, Die, ReturnSeat, StoreReturned, serverVars
  <2>2. /\ spc[c] # "none"
        /\ \A d \in Clients : d # c => spc'[d] = spc[d]
    BY <1>0, <1>7 DEF Service, Request, Answer, Die, ReturnSeat, StoreReturned, PlaceTypes
  <2>3. \A p \in Ports : \A k \in 1 .. Len(backlog[p]) : backlog[p][k] \in Clients
    BY <1>0 DEF PlaceTypes
  <2> QED  BY <1>0, <2>1, <2>2, <2>3 DEF Place, ServerTypes
<1>8. ASSUME NEW c \in Clients, Connect(c), ~Listened PROVE Place'
  <2>1. /\ UNCHANGED <<backlog, port, spc, nsfd, mi>>
        /\ cpc[c] = "away" /\ cpc' = [cpc EXCEPT ![c] = "gone"]
    BY <1>8 DEF Connect, serverVars, serviceVars
  <2>2. \A d \in Clients : cpc'[d] = "away" => cpc[d] = "away"
    BY <1>0, <2>1 DEF ClientTypes
  <2>3. \A p \in Ports : \A k \in 1 .. Len(backlog[p]) : backlog[p][k] \in Clients
    BY <1>0 DEF PlaceTypes
  <2> QED  BY <1>0, <2>1, <2>2, <2>3 DEF Place, ServerTypes
<1>9. ASSUME NEW c \in Clients, Connect(c), Listened PROVE Place'
  <2>1. PICK r \in Ports : /\ port' = [port EXCEPT ![c] = r]
                           /\ backlog' = [backlog EXCEPT ![r] = Append(@, c)]
    BY <1>9 DEF Connect
  <2>2. /\ cpc[c] = "away" /\ cpc' = [cpc EXCEPT ![c] = "joining"]
        /\ UNCHANGED <<spc, nsfd, mi>>
    BY <1>9 DEF Connect, serverVars, serviceVars
  <2>3. \A p \in Ports : \A k \in 1 .. Len(backlog[p]) :
          backlog[p][k] \in Clients /\ backlog[p][k] # c
    BY <1>0, <2>2 DEF PlaceTypes, Place
  <2>4. c # nsfd /\ spc[c] = "none"
    BY <1>0, <2>2 DEF Place
  <2>5. ASSUME NEW q \in Ports, NEW k \in 1 .. Len(backlog'[q])
        PROVE  LET d == backlog'[q][k] IN
               /\ port'[d] = q /\ spc'[d] = "none" /\ cpc'[d] # "away" /\ d # nsfd'
               /\ \A j \in 1 .. Len(backlog'[q]) : j # k => backlog'[q][j] # d
    <3>1. CASE q = r
      <4>1. backlog[q] \in Seq(Clients) /\ backlog'[q] = Append(backlog[q], c)
        BY <1>0, <2>1, <3>1 DEF PlaceTypes
      <4>2. /\ Len(backlog'[q]) = Len(backlog[q]) + 1
            /\ \A j \in 1 .. Len(backlog[q]) : backlog'[q][j] = backlog[q][j]
            /\ backlog'[q][Len(backlog[q]) + 1] = c
            /\ Len(backlog[q]) \in Nat
        BY <4>1
      <4>3. CASE k = Len(backlog[q]) + 1
        BY <1>0, <2>1, <2>2, <2>3, <2>4, <3>1, <4>2, <4>3 DEF PlaceTypes, ClientTypes
      <4>4. CASE k \in 1 .. Len(backlog[q])
        <5>1. /\ backlog[q][k] # c /\ backlog[q][k] \in Clients
              /\ backlog'[q][k] = backlog[q][k]
          BY <2>3, <4>2, <4>4
        <5>2. /\ port'[backlog[q][k]] = q /\ spc'[backlog[q][k]] = "none"
              /\ cpc'[backlog[q][k]] # "away" /\ backlog[q][k] # nsfd'
          BY <1>0, <2>1, <2>2, <4>4, <5>1 DEF Place, PlaceTypes, ClientTypes
        <5>3. \A j \in 1 .. Len(backlog'[q]) : j # k => backlog'[q][j] # backlog[q][k]
          BY <4>2, <4>4, <5>1 DEF Place
        <5> QED  BY <5>1, <5>2, <5>3
      <4> QED  BY <4>2, <4>3, <4>4
    <3>2. CASE q # r
      <4>1. backlog'[q] = backlog[q]
        BY <1>0, <2>1, <3>2 DEF PlaceTypes
      <4>2. backlog[q][k] # c /\ backlog[q][k] \in Clients
        BY <2>3, <4>1
      <4> QED  BY <1>0, <2>1, <2>2, <4>1, <4>2 DEF Place, PlaceTypes, ClientTypes
    <3> QED  BY <3>1, <3>2
  <2>6. nsfd' # NoClient => /\ port'[nsfd'] = mi' /\ spc'[nsfd'] = "none"
                            /\ cpc'[nsfd'] # "away"
    BY <1>0, <2>1, <2>2, <2>4 DEF Place, ServerTypes, PlaceTypes, ClientTypes
  <2>7. \A d \in Clients : cpc'[d] = "away" => spc'[d] = "none"
    BY <1>0, <2>2 DEF Place, ClientTypes
  <2> QED  BY <2>5, <2>6, <2>7 DEF Place
<1>10. ASSUME NEW c \in Clients, Greeted(c) \/ LoseServer(c) \/ Ask(c) \/ Read(c) \/ Quit(c)
      PROVE  Place'
  <2>1. UNCHANGED <<backlog, port, spc, nsfd, mi>>
    BY <1>10 DEF Greeted, LoseServer, Ask, Read, Quit, serverVars, serviceVars
  <2>2. \A d \in Clients : cpc'[d] = "away" <=> cpc[d] = "away"
    BY <1>0, <1>10 DEF Greeted, LoseServer, Ask, Read, Quit, ClientTypes
  <2>3. \A p \in Ports : \A k \in 1 .. Len(backlog[p]) : backlog[p][k] \in Clients
    BY <1>0 DEF PlaceTypes
  <2> QED  BY <1>0, <2>1, <2>2, <2>3 DEF Place, ServerTypes
<1>11. CASE UNCHANGED vars
  BY <1>11 DEF vars, serverVars, serviceVars, Place
<1> QED
  BY <1>1, <1>3, <1>4, <1>5, <1>6, <1>7, <1>9, <1>10, <1>11, <1>2, <1>8
  DEF Next, Server, Client

LEMMA SeatedFinite == ASSUME NEW p PROVE IsFiniteSet(Seated(p))
<1>1. IsFiniteSet(Clients) /\ Seated(p) \in SUBSET Clients
  BY PortsAssumption DEF Seated
<1> QED  BY <1>1, FS_Subset

LEMMA BalanceInit == Init => AccountBalances
<1> SUFFICES ASSUME Init, NEW p \in Ports
             PROVE  cnt[p] + Cardinality(Seated(p)) + LastSeat(p) = Capacity[p]
  BY DEF AccountBalances
<1>1. Seated(p) = {} /\ LastSeat(p) = 0
  BY DEF Init, Seated, LastSeat
<1>2. cnt[p] = Capacity[p] /\ Capacity[p] \in Nat
  BY PortsAssumption DEF Init, InitCnt
<1> QED  BY <1>1, <1>2, FS_EmptySet

\* Steps that change no count and nobody's seat.
LEMMA SameSeats ==
  ASSUME AccountBalances, UNCHANGED <<cnt, raced>>,
         (mpc # "dead" /\ mpc' # "dead") \/ UNCHANGED <<mpc, mi>>,
         \A p \in Ports : Seated(p)' = Seated(p)
  PROVE  AccountBalances'
<1>1. \A p \in Ports : LastSeat(p)' = LastSeat(p)
  BY DEF LastSeat
<1>2. QED  BY <1>1 DEF AccountBalances

LEMMA BalanceStep == TypeOK /\ Place /\ AccountBalances /\ [Next]_vars => AccountBalances'
<1> SUFFICES ASSUME TypeOK, Place, AccountBalances, [Next]_vars PROVE AccountBalances'
  OBVIOUS
<1>0. ServerTypes /\ CountTypes /\ PlaceTypes /\ ClientTypes /\ NoClient \notin Clients
  BY TypeParts, PortsAssumption
<1>1. CASE Timeout \/ Accept \/ Refuse \/ Admit \/ TakeSeat
  <2>1. /\ UNCHANGED <<cnt, raced, spc, port>>
        /\ mpc \notin {"fork", "dead"} /\ mpc' \notin {"fork", "dead"}
    BY <1>1 DEF Timeout, Accept, Refuse, Admit, TakeSeat, serviceVars
  <2>2. \A p \in Ports : Seated(p)' = Seated(p)
    BY <2>1 DEF Seated
  <2> QED  BY <2>1, <2>2, SameSeats
<1>2. CASE StoreTaken /\ nsfd = NoClient
  <2>1. PICK q \in Ports : q = mi
    BY <1>0 DEF ServerTypes
  <2>2. /\ UNCHANGED <<spc, port, nsfd, mi>> /\ mpc = "store" /\ mpc' = "dead"
        /\ cnt' = [cnt EXCEPT ![q] = mtmp - 1]
        /\ raced' = IF mtmp = cnt[q] THEN raced ELSE raced \union {q}
    BY <1>2, <2>1 DEF StoreTaken, AfterCount, serviceVars
  <2>3. /\ \A p \in Ports : Seated(p)' = Seated(p) /\ LastSeat(p) = 0
        /\ LastSeat(q)' = 1 /\ \A p \in Ports \ {q} : LastSeat(p)' = 0
    BY <2>1, <2>2 DEF Seated, LastSeat
  <2>4. Cardinality(Seated(q)) \in Nat
    BY SeatedFinite, FS_CardinalityType
  <2>5. q \notin raced' => /\ cnt'[q] = cnt[q] - 1 /\ cnt[q] \in Int
                           /\ cnt[q] + Cardinality(Seated(q)) + 0 = Capacity[q]
    BY <1>0, <2>2, <2>3 DEF CountTypes, AccountBalances
  <2>6. q \in raced' \/ cnt'[q] + Cardinality(Seated(q)') + LastSeat(q)' = Capacity[q]
    BY <2>3, <2>4, <2>5
  <2>7. \A p \in Ports \ {q} :
          p \in raced' \/ cnt'[p] + Cardinality(Seated(p)') + LastSeat(p)' = Capacity[p]
    BY <1>0, <2>2, <2>3 DEF CountTypes, AccountBalances
  <2> QED  BY <2>6, <2>7 DEF AccountBalances
<1>3. CASE StoreTaken /\ nsfd # NoClient
  <2>1. PICK c \in Clients : c = nsfd /\ port[c] = mi /\ spc[c] = "none"
    BY <1>0, <1>3 DEF StoreTaken, ServerTypes, Place
  <2>2. PICK q \in Ports : q = mi
    BY <1>0 DEF ServerTypes
  <2>3. /\ UNCHANGED <<spc, port, nsfd>> /\ mpc = "store" /\ mpc' = "fork"
        /\ cnt' = [cnt EXCEPT ![q] = mtmp - 1]
        /\ raced' = IF mtmp = cnt[q] THEN raced ELSE raced \union {q}
    BY <1>3, <2>2 DEF StoreTaken, AfterCount, serviceVars
  <2>4. c \notin Seated(q) /\ Seated(q)' = Seated(q) \union {c}
    BY <2>1, <2>2, <2>3 DEF Seated
  <2>5. \A p \in Ports \ {q} : Seated(p)' = Seated(p)
    BY <2>1, <2>2, <2>3 DEF Seated
  <2>6. \A p \in Ports : LastSeat(p) = 0 /\ LastSeat(p)' = 0
    BY <2>3 DEF LastSeat
  <2>7. Cardinality(Seated(q)') = Cardinality(Seated(q)) + 1
        /\ Cardinality(Seated(q)) \in Nat
    BY <2>4, SeatedFinite, FS_AddElement, FS_CardinalityType
  <2>8. q \notin raced' => /\ cnt'[q] = cnt[q] - 1 /\ cnt[q] \in Int
                           /\ cnt[q] + Cardinality(Seated(q)) + 0 = Capacity[q]
    BY <1>0, <2>3, <2>6 DEF CountTypes, AccountBalances
  <2>9. q \in raced' \/ cnt'[q] + Cardinality(Seated(q)') + LastSeat(q)' = Capacity[q]
    BY <2>7, <2>8, <2>6
  <2>10. \A p \in Ports \ {q} :
          p \in raced' \/ cnt'[p] + Cardinality(Seated(p)') + LastSeat(p)' = Capacity[p]
    BY <1>0, <2>3, <2>5, <2>6 DEF CountTypes, AccountBalances
  <2> QED  BY <2>9, <2>10 DEF AccountBalances
<1>4. CASE Fork
  <2>1. nsfd \in Clients
    BY <1>0, <1>4 DEF Fork, ServerTypes
  <2>2. /\ UNCHANGED <<cnt, raced, port>> /\ mpc = "fork" /\ mpc' = "poll"
        /\ spc' = [spc EXCEPT ![nsfd] = "read"]
    BY <1>4 DEF Fork, socketVars
  <2>3. \A p \in Ports : Seated(p)' = Seated(p)
    BY <1>0, <2>1, <2>2 DEF Seated, PlaceTypes
  <2> QED  BY <2>2, <2>3, SameSeats
<1>5. ASSUME NEW c \in Clients, Request(c) \/ Answer(c) \/ Die(c) \/ ReturnSeat(c)
      PROVE  AccountBalances'
  <2>1. /\ UNCHANGED <<cnt, raced, port, mpc, mi, nsfd>>
        /\ spc[c] \in {"read", "write"}
        /\ \E v \in {"read", "write", "store", "dead"} : spc' = [spc EXCEPT ![c] = v]
    BY <1>5 DEF Request, Answer, Die, ReturnSeat, serverVars
  <2>2. \A p \in Ports : Seated(p)' = Seated(p)
    BY <1>0, <2>1 DEF Seated, PlaceTypes
  <2> QED  BY <2>1, <2>2, SameSeats
<1>6. ASSUME NEW c \in Clients, StoreReturned(c) PROVE AccountBalances'
  <2>1. PICK q \in Ports : q = port[c]
    BY <1>0 DEF PlaceTypes
  <2>2. /\ UNCHANGED <<port, nsfd, mpc, mi>> /\ spc[c] = "store"
        /\ spc' = [spc EXCEPT ![c] = "done"]
        /\ cnt' = [cnt EXCEPT ![q] = stmp[c] + 1]
        /\ raced' = IF stmp[c] = cnt[q] THEN raced ELSE raced \union {q}
    BY <1>6, <2>1 DEF StoreReturned, OneMore, serverVars
  <2>3. c # nsfd
    BY <1>0, <2>2 DEF Place
  <2>4. c \in Seated(q) /\ Seated(q)' = Seated(q) \ {c}
    BY <1>0, <2>1, <2>2, <2>3 DEF Seated, PlaceTypes
  <2>5. \A p \in Ports \ {q} : Seated(p)' = Seated(p)
    BY <1>0, <2>1, <2>2 DEF Seated, PlaceTypes
  <2>6. \A p \in Ports : LastSeat(p)' = LastSeat(p) /\ LastSeat(p) \in 0 .. 1
    BY <2>2 DEF LastSeat
  <2>7. Cardinality(Seated(q)') = Cardinality(Seated(q)) - 1
        /\ Cardinality(Seated(q)) \in Nat
    BY <2>4, SeatedFinite, FS_RemoveElement, FS_CardinalityType
  <2>8. q \notin raced' => /\ cnt'[q] = cnt[q] + 1 /\ cnt[q] \in Int
                           /\ cnt[q] + Cardinality(Seated(q)) + LastSeat(q) = Capacity[q]
    BY <1>0, <2>2 DEF CountTypes, AccountBalances
  <2>9. q \in raced' \/ cnt'[q] + Cardinality(Seated(q)') + LastSeat(q)' = Capacity[q]
    BY <2>7, <2>8, <2>6
  <2>10. \A p \in Ports \ {q} :
          p \in raced' \/ cnt'[p] + Cardinality(Seated(p)') + LastSeat(p)' = Capacity[p]
    BY <1>0, <2>2, <2>5, <2>6 DEF CountTypes, AccountBalances
  <2> QED  BY <2>9, <2>10 DEF AccountBalances
<1>7. ASSUME NEW c \in Clients, Connect(c) PROVE AccountBalances'
  <2>1. /\ UNCHANGED <<cnt, raced, spc, mpc, mi, nsfd>>
        /\ port' = port \/ \E r \in Ports : port' = [port EXCEPT ![c] = r]
    BY <1>7 DEF Connect, serverVars, serviceVars
  <2>2. spc[c] = "none" /\ c # nsfd
    BY <1>0, <1>7 DEF Connect, Place
  <2>3. \A p \in Ports : Seated(p)' = Seated(p)
    BY <1>0, <2>1, <2>2 DEF Seated, PlaceTypes
  <2> QED  BY <2>1, <2>3, SameSeats
<1>8. ASSUME NEW c \in Clients, Greeted(c) \/ LoseServer(c) \/ Ask(c) \/ Read(c) \/ Quit(c)
      PROVE  AccountBalances'
  <2>1. UNCHANGED <<cnt, raced, port, spc, mpc, mi, nsfd>>
    BY <1>8 DEF Greeted, LoseServer, Ask, Read, Quit, serverVars, serviceVars
  <2>2. \A p \in Ports : Seated(p)' = Seated(p)
    BY <2>1 DEF Seated
  <2> QED  BY <2>1, <2>2, SameSeats
<1>9. CASE UNCHANGED vars
  <2>1. UNCHANGED <<cnt, raced, port, spc, mpc, mi, nsfd>>
    BY <1>9 DEF vars, serverVars, serviceVars
  <2>2. \A p \in Ports : Seated(p)' = Seated(p)
    BY <2>1 DEF Seated
  <2> QED  BY <2>1, <2>2, SameSeats
<1> QED
  BY <1>1, <1>3, <1>4, <1>5, <1>6, <1>7, <1>8, <1>9, <1>2 DEF Next, Server, Service, Client

\* At every port where no update of cnt[] was lost, the seats left and the seats
\* taken add up to the capacity: a refused client was refused by a full port, and the
\* only seats that never come back are those of services killed by SIGPIPE and the one
\* that the server took when accept() had failed.
THEOREM AccountsBalance == Spec => []AccountBalances
<1>1. Init => Place /\ AccountBalances
  BY PlaceInit, BalanceInit
<1>2. TypeOK /\ Place /\ AccountBalances /\ [Next]_vars => Place' /\ AccountBalances'
  BY PlaceStep, BalanceStep
<1> QED  BY <1>1, <1>2, TypeCorrect, PTL DEF Spec

-----------------------------------------------------------------------------
(* ServiceMenu, whose clients, ports and connections are others with the same names *)

CONSTANTS NT, MaxBindFailures
VARIABLES cur, i, st, svc, sbacklog, thr, want, told, reply, early

Menu == INSTANCE ServiceMenu

\* A client that has connected to a service keeps its port.
Connected(c) == cpc[c] \in {"prompt", "waiting", "cut off", "gone"}

\* A number that the server or a client has is that of a service that was started.
StartedInv ==
  /\ mpc \in {"start", "port"} => i \in Menu!Types
  /\ mpc = "port" => svc[i] # "none"
  /\ \A t \in Menu!Types : st[t] = 0 <=> svc[t] = "none"
  /\ \A c \in Clients : told[c] \in Menu!Types => svc[told[c]] # "none"
  /\ \A c \in Clients : port[c] \in Menu!Types => svc[port[c]] # "none"

\* Whom a service has not yet accepted, and whom it has; one with either listens.
QueuedInv ==
  /\ \A t \in Menu!Types : sbacklog[t] # <<>> => svc[t] = "listening"
  /\ \A t \in Menu!Types : \A j \in DOMAIN sbacklog[t] :
       Connected(sbacklog[t][j]) /\ port[sbacklog[t][j]] = t

ThreadInv ==
  \A c \in Clients :
    /\ thr[c] # "none" => Connected(c) /\ port[c] \in Menu!Types
    /\ thr[c] \in {"recv", "send"} => svc[port[c]] = "listening"

HeldInv == QueuedInv /\ ThreadInv /\ \A c \in Clients : fin[c] # "no" => cpc[c] = "gone"

MenuIInv == Menu!MenuInv /\ StartedInv /\ HeldInv

LEMMA HeldKept ==
  ASSUME HeldInv, UNCHANGED <<sbacklog, thr, cpc, port, fin>>,
         \A t \in Menu!Types : svc[t] = "listening" => svc'[t] = "listening"
  PROVE  HeldInv'
<1>1. QueuedInv'
  BY DEF HeldInv, QueuedInv, Connected
<1>2. ThreadInv'
  BY DEF HeldInv, ThreadInv, Connected
<1>3. QED  BY <1>1, <1>2 DEF HeldInv

LEMMA StartedKept ==
  ASSUME StartedInv, UNCHANGED <<mpc, i, st, told, port>>,
         \A t \in Menu!Types : svc'[t] = "none" <=> svc[t] = "none"
  PROVE  StartedInv'
BY DEF StartedInv

LEMMA MenuInit ==
  ASSUME Menu!MenuAssumption
  PROVE  Menu!Init => MenuIInv
<1> SUFFICES ASSUME Menu!Init PROVE MenuIInv
  OBVIOUS
<1> USE DEF Menu!Init, Menu!Types, Menu!MenuAssumption
<1>1. Menu!TypeOK
  <2>1. /\ backlog \in Seq(Clients) /\ sbacklog \in [Menu!Types -> Seq(Clients)]
        /\ asked \in [Clients -> BOOLEAN] /\ reply \in [Clients -> BOOLEAN]
    OBVIOUS
  <2>2. QED  BY <2>1 DEF Menu!TypeOK
<1>2. Menu!RefusedForAReason /\ Menu!DiesOnlyByReset
  BY DEF Menu!RefusedForAReason, Menu!DiesOnlyByReset
<1>3. StartedInv /\ HeldInv
  BY DEF StartedInv, HeldInv, QueuedInv, ThreadInv
<1>4. QED  BY <1>1, <1>2, <1>3 DEF MenuIInv, Menu!MenuInv

-----------------------------------------------------------------------------
(* The server *)

LEMMA MenuAccept == ASSUME Menu!MenuAssumption,
         MenuIInv, Menu!Accept PROVE MenuIInv'
<1> USE DEF MenuIInv, Menu!MenuInv
<1>1. /\ mpc = "accept" /\ mpc' = "recv" /\ cur' = Head(backlog) /\ backlog' = Tail(backlog)
      /\ backlog # <<>>
      /\ UNCHANGED <<i, st, svc, sbacklog, thr, cpc, want, told, port, asked, reply, fin, early>>
  BY DEF Menu!Accept, Menu!serviceVars, Menu!menuVars, Menu!socketVars
<1>2. cur' \in Clients /\ backlog' \in Seq(Clients)
  <2>1. backlog \in Seq(Clients) /\ backlog # <<>>
    BY <1>1 DEF Menu!TypeOK
  <2>2. QED  BY <1>1, <2>1
<1>3. Menu!TypeOK'
  BY <1>1, <1>2 DEF Menu!TypeOK, Menu!MenuAssumption
<1>4. Menu!RefusedForAReason' /\ Menu!DiesOnlyByReset'
  BY <1>1 DEF Menu!RefusedForAReason, Menu!DiesOnlyByReset
<1>5. StartedInv' /\ HeldInv'
  BY <1>1, HeldKept DEF StartedInv
<1>6. QED  BY <1>3, <1>4, <1>5

LEMMA MenuRecvType == ASSUME Menu!MenuAssumption,
         MenuIInv, Menu!RecvType PROVE MenuIInv'
<1> USE DEF MenuIInv, Menu!MenuInv
<1>1. /\ mpc = "recv" /\ i' = (IF want[cur] = -1 THEN 0 ELSE want[cur])
      /\ mpc' = IF i' \in Menu!Types THEN "start" ELSE "sorry"
      /\ UNCHANGED <<cur, st, backlog, svc, sbacklog, thr, cpc, want, told, port, asked, reply,
                     fin, early>>
  BY DEF Menu!RecvType, Menu!IndexOf, Menu!serviceVars, Menu!menuVars, Menu!socketVars
<1>2. i' \in 0 .. NT
  <2>1. want[cur] \in -1 .. NT
    BY <1>1 DEF Menu!TypeOK
  <2>2. QED  BY <1>1, <2>1 DEF Menu!MenuAssumption
<1>3. Menu!TypeOK'
  BY <1>1, <1>2 DEF Menu!TypeOK
<1>4. Menu!RefusedForAReason' /\ Menu!DiesOnlyByReset'
  BY <1>1 DEF Menu!RefusedForAReason, Menu!DiesOnlyByReset
<1>5. StartedInv' /\ HeldInv'
  BY <1>1, HeldKept DEF StartedInv
<1>6. QED  BY <1>3, <1>4, <1>5

\* A service is started when st[i] says that none was: none has ended before.
LEMMA MenuStartService == ASSUME Menu!MenuAssumption,
         MenuIInv, Menu!StartService PROVE MenuIInv'
<1> USE DEF MenuIInv, Menu!MenuInv
<1>1. /\ mpc = "start" /\ mpc' = "port" /\ i \in Menu!Types
      /\ \/ st[i] = 0 /\ st' = [st EXCEPT ![i] = 1] /\ svc' = [svc EXCEPT ![i] = "starting"]
         \/ st[i] = 1 /\ UNCHANGED <<st, svc>>
      /\ UNCHANGED <<cur, i, backlog, sbacklog, thr, cpc, want, told, port, asked, reply, fin,
                     early>>
  BY DEF Menu!StartService, Menu!Exec, Menu!menuVars, Menu!socketVars, StartedInv
<1>2. /\ svc \in [Menu!Types -> {"none", "starting", "listening", "exited", "dead"}]
      /\ st \in [Menu!Types -> {0, 1}]
  BY DEF Menu!TypeOK
<1>3. Menu!TypeOK'
  BY <1>1, <1>2 DEF Menu!TypeOK
<1>4. /\ svc'[i] # "none" /\ st'[i] = 1
      /\ \A t \in Menu!Types : svc'[t] # svc[t] => svc[t] = "none" /\ svc'[t] = "starting"
      /\ \A t \in Menu!Types : t # i => svc'[t] = svc[t] /\ st'[t] = st[t]
  BY <1>1, <1>2 DEF StartedInv
<1>5. Menu!RefusedForAReason'
  <2> SUFFICES ASSUME NEW c \in Clients, cpc[c] = "refused", port[c] # 0, c \notin early
               PROVE  svc'[port[c]] \in {"exited", "dead"}
    BY <1>1 DEF Menu!RefusedForAReason
  <2>1. svc[port[c]] \in {"exited", "dead"}
    BY DEF Menu!RefusedForAReason
  <2>2. port[c] \in Menu!Types
    <3>1. port[c] \in 0 .. NT  BY DEF Menu!TypeOK
    <3>2. QED  BY <3>1 DEF Menu!Types, Menu!MenuAssumption
  <2>3. QED  BY <1>4, <2>1, <2>2
<1>6. Menu!DiesOnlyByReset'
  BY <1>1, <1>4 DEF Menu!DiesOnlyByReset
<1>7. StartedInv'
  BY <1>1, <1>4 DEF StartedInv
<1>8. HeldInv'
  BY <1>1, <1>4, HeldKept
<1>9. QED  BY <1>3, <1>5, <1>6, <1>7, <1>8

LEMMA MenuAnswer == ASSUME Menu!MenuAssumption,
         MenuIInv, Menu!Answer PROVE MenuIInv'
<1> USE DEF MenuIInv, Menu!MenuInv
<1>1. PICK c \in Clients : c = cur
  BY DEF Menu!Answer, Menu!TypeOK
<1>2. PICK p \in 0 .. NT :
        /\ told' = [told EXCEPT ![c] = p]
        /\ p \in Menu!Types => svc[p] # "none"
  <2>1. CASE mpc = "port" /\ told' = [told EXCEPT ![c] = i]
    <3>1. i \in 0 .. NT /\ svc[i] # "none"
      BY <2>1 DEF StartedInv, Menu!TypeOK
    <3>2. QED  BY <2>1, <3>1
  <2>2. CASE told' = [told EXCEPT ![c] = 0]
    <3>1. 0 \in 0 .. NT /\ 0 \notin Menu!Types
      BY DEF Menu!Types, Menu!MenuAssumption
    <3>2. QED  BY <2>2, <3>1
  <2>3. QED  BY <1>1, <2>1, <2>2 DEF Menu!Answer, Menu!Tell
<1>3. /\ mpc' = "accept" /\ cur' = NoClient
      /\ UNCHANGED <<i, st, backlog, svc, sbacklog, thr, cpc, want, port, asked, reply, fin,
                     early>>
  BY DEF Menu!Answer, Menu!serviceVars, Menu!socketVars
<1>4. /\ told \in [Clients -> -1 .. NT] /\ p \in -1 .. NT
      /\ told'[c] = p /\ \A d \in Clients : d # c => told'[d] = told[d]
  <2>1. told \in [Clients -> -1 .. NT]  BY DEF Menu!TypeOK
  <2>2. p \in -1 .. NT                  BY DEF Menu!MenuAssumption
  <2>3. QED  BY <1>2, <2>1, <2>2
<1>5. told' \in [Clients -> -1 .. NT]
  BY <1>2, <1>4
<1>6. Menu!TypeOK'
  BY <1>3, <1>5 DEF Menu!TypeOK
<1>7. Menu!RefusedForAReason' /\ Menu!DiesOnlyByReset'
  BY <1>3 DEF Menu!RefusedForAReason, Menu!DiesOnlyByReset
<1>8. StartedInv'
  BY <1>2, <1>3, <1>4 DEF StartedInv
<1>9. HeldInv'
  BY <1>3, HeldKept
<1>10. QED  BY <1>6, <1>7, <1>8, <1>9

-----------------------------------------------------------------------------
(* The services *)

\* bind() succeeds or fails: the service was starting, so nobody is connected to it.
LEMMA MenuBind == ASSUME Menu!MenuAssumption,
         MenuIInv, NEW t \in Menu!Types, Menu!Listen(t) \/ Menu!BindFails(t) PROVE MenuIInv'
<1> USE DEF MenuIInv, Menu!MenuInv
<1>1. PICK to \in {"listening", "exited"} :
        /\ svc[t] = "starting" /\ svc' = [svc EXCEPT ![t] = to]
        /\ UNCHANGED <<mpc, cur, i, st, backlog, sbacklog, thr, cpc, want, told, port, asked,
                       reply, fin, early>>
  BY DEF Menu!Listen, Menu!BindFails, Menu!serverVars, Menu!menuVars, Menu!socketVars
<1>2. svc \in [Menu!Types -> {"none", "starting", "listening", "exited", "dead"}]
  BY DEF Menu!TypeOK
<1>3. svc'[t] = to /\ \A u \in Menu!Types : u # t => svc'[u] = svc[u]
  BY <1>1, <1>2
<1>4. Menu!TypeOK'
  BY <1>1, <1>2 DEF Menu!TypeOK
<1>5. Menu!RefusedForAReason'
  <2> SUFFICES ASSUME NEW c \in Clients, cpc[c] = "refused", port[c] # 0, c \notin early
               PROVE  svc'[port[c]] \in {"exited", "dead"}
    BY <1>1 DEF Menu!RefusedForAReason
  <2>1. svc[port[c]] \in {"exited", "dead"}
    BY DEF Menu!RefusedForAReason
  <2>2. port[c] \in Menu!Types
    <3>1. port[c] \in 0 .. NT  BY DEF Menu!TypeOK
    <3>2. QED  BY <3>1 DEF Menu!Types, Menu!MenuAssumption
  <2>3. QED  BY <1>1, <1>3, <2>1, <2>2
<1>6. Menu!DiesOnlyByReset'
  BY <1>1, <1>3 DEF Menu!DiesOnlyByReset
<1>7. StartedInv'
  BY <1>1, <1>3, StartedKept
<1>8. HeldInv'
  BY <1>1, <1>3, HeldKept
<1>9. QED  BY <1>4, <1>5, <1>6, <1>7, <1>8

LEMMA MenuAcceptClient == ASSUME MenuIInv, NEW t \in Menu!Types, Menu!AcceptClient(t) PROVE MenuIInv'
<1> USE DEF MenuIInv, Menu!MenuInv
<1>1. PICK c : c = Head(sbacklog[t])
  OBVIOUS
<1>2. /\ svc[t] = "listening" /\ sbacklog[t] # <<>> /\ thr' = [thr EXCEPT ![c] = "recv"]
      /\ sbacklog' = [sbacklog EXCEPT ![t] = Tail(sbacklog[t])]
      /\ UNCHANGED <<mpc, cur, i, st, backlog, svc, cpc, want, told, port, asked, reply, fin,
                     early>>
  BY <1>1 DEF Menu!AcceptClient, Menu!NewThread, Menu!serverVars, Menu!menuVars, Menu!socketVars
<1>3. /\ sbacklog \in [Menu!Types -> Seq(Clients)]
      /\ thr \in [Clients -> {"none", "recv", "send", "done"}]
  BY DEF Menu!TypeOK
<1>4. sbacklog[t] \in Seq(Clients)
  BY <1>3
<1>5. /\ 1 \in DOMAIN sbacklog[t] /\ c = sbacklog[t][1] /\ c \in Clients
      /\ Tail(sbacklog[t]) \in Seq(Clients)
      /\ \A j \in DOMAIN Tail(sbacklog[t]) :
           j + 1 \in DOMAIN sbacklog[t] /\ Tail(sbacklog[t])[j] = sbacklog[t][j + 1]
  BY <1>1, <1>2, <1>4
<1>6. /\ sbacklog'[t] = Tail(sbacklog[t]) /\ thr'[c] = "recv"
      /\ \A u \in Menu!Types : u # t => sbacklog'[u] = sbacklog[u]
      /\ \A d \in Clients : d # c => thr'[d] = thr[d]
  BY <1>2, <1>3, <1>5
<1>7. \A u \in Menu!Types : \A k \in DOMAIN sbacklog[u] :
        cpc[sbacklog[u][k]] \in {"prompt", "waiting", "cut off", "gone"} /\ port[sbacklog[u][k]] = u
  BY DEF HeldInv, QueuedInv, Connected
<1>8. Menu!TypeOK'
  <2>1. sbacklog' \in [Menu!Types -> Seq(Clients)]
    BY <1>2, <1>3, <1>5
  <2>2. thr' \in [Clients -> {"none", "recv", "send", "done"}]
    BY <1>2, <1>3
  <2>3. QED  BY <1>2, <2>1, <2>2 DEF Menu!TypeOK
<1>9. Menu!RefusedForAReason' /\ Menu!DiesOnlyByReset' /\ StartedInv'
  BY <1>2, StartedKept DEF Menu!RefusedForAReason, Menu!DiesOnlyByReset
<1>10. QueuedInv'
  <2>1. ASSUME NEW u \in Menu!Types, NEW j \in DOMAIN sbacklog'[u]
        PROVE  /\ cpc[sbacklog'[u][j]] \in {"prompt", "waiting", "cut off", "gone"}
               /\ port[sbacklog'[u][j]] = u
    <3>1. CASE u = t
      <4>1. PICK k \in DOMAIN sbacklog[t] : sbacklog'[u][j] = sbacklog[t][k]
        BY <1>5, <1>6, <2>1, <3>1
      <4>2. cpc[sbacklog[t][k]] \in {"prompt", "waiting", "cut off", "gone"} /\ port[sbacklog[t][k]] = t
        BY <1>7
      <4>3. QED  BY ONLY <3>1, <4>1, <4>2
    <3>2. CASE u # t
      <4>1. sbacklog'[u] = sbacklog[u]  BY <1>6, <3>2
      <4>2. QED  BY <1>7, <2>1, <4>1
    <3>3. QED  BY <3>1, <3>2
  <2>2. ASSUME NEW u \in Menu!Types, sbacklog'[u] # <<>> PROVE svc[u] = "listening"
    BY <1>2, <1>6, <2>2 DEF HeldInv, QueuedInv
  <2>3. QED  BY <1>2, <2>1, <2>2 DEF QueuedInv, Connected
<1>11. ThreadInv'
  <2>1. Connected(c) /\ port[c] = t
    BY <1>5, <1>7 DEF Connected
  <2>2. QED  BY <1>2, <1>6, <2>1 DEF HeldInv, ThreadInv, Connected
<1>12. QED  BY <1>2, <1>8, <1>9, <1>10, <1>11 DEF HeldInv

\* What a thread's step is without its effect on the service.
ThreadMoves(c, to) ==
  /\ thr[c] \in {"recv", "send"} /\ thr' = [thr EXCEPT ![c] = to]
  /\ \/ fin' = fin
     \/ fin[c] # "no" /\ fin' = [fin EXCEPT ![c] = "reset"]
  /\ asked' \in [Clients -> BOOLEAN] /\ reply' \in [Clients -> BOOLEAN]
  /\ UNCHANGED <<mpc, cur, i, st, backlog, svc, sbacklog, cpc, want, told, port, early>>

\* A thread goes on; its send() may meet the reset of a client whose service lives on.
LEMMA MenuThreadMoves ==
  ASSUME MenuIInv, NEW c \in Clients, NEW to \in {"recv", "send", "done"}, ThreadMoves(c, to)
  PROVE  MenuIInv'
<1> USE DEF MenuIInv, Menu!MenuInv, ThreadMoves
<1>1. /\ thr \in [Clients -> {"none", "recv", "send", "done"}]
      /\ fin \in [Clients -> {"no", "fin", "rst", "reset"}]
  BY DEF Menu!TypeOK
<1>2. /\ thr'[c] = to /\ \A d \in Clients : d # c => thr'[d] = thr[d] /\ fin'[d] = fin[d]
      /\ fin'[c] # "no" => fin[c] # "no"
  BY <1>1
<1>3. Menu!TypeOK'
  <2>1. thr' \in [Clients -> {"none", "recv", "send", "done"}]
    BY <1>1
  <2>2. fin' \in [Clients -> {"no", "fin", "rst", "reset"}]
    BY <1>1
  <2>3. QED  BY <2>1, <2>2 DEF Menu!TypeOK
<1>4. Menu!RefusedForAReason' /\ StartedInv'
  BY StartedKept DEF Menu!RefusedForAReason
<1>5. Menu!DiesOnlyByReset'
  <2> SUFFICES ASSUME NEW t \in Menu!Types, svc[t] = "dead"
               PROVE  \E d \in Clients : port[d] = t /\ fin'[d] = "rst"
    BY DEF Menu!DiesOnlyByReset
  <2>1. PICK d \in Clients : port[d] = t /\ fin[d] = "rst"
    BY DEF Menu!DiesOnlyByReset
  <2>2. svc[port[c]] = "listening"
    BY DEF HeldInv, ThreadInv
  <2>3. d # c
    BY <2>1, <2>2
  <2>4. QED  BY <1>2, <2>1, <2>3
<1>6. QueuedInv'
  BY DEF HeldInv, QueuedInv, Connected
<1>7. ThreadInv'
  BY <1>2 DEF HeldInv, ThreadInv, Connected
<1>8. \A d \in Clients : fin'[d] # "no" => cpc'[d] = "gone"
  BY <1>2 DEF HeldInv
<1>9. QED  BY <1>3, <1>4, <1>5, <1>6, <1>7, <1>8 DEF HeldInv

\* recv() fails: the client was killed with a reply unread, and takes the service with it.
LEMMA MenuRecvError == ASSUME Menu!MenuAssumption,
         MenuIInv, NEW c \in Clients, Menu!RecvError(c) PROVE MenuIInv'
<1> USE DEF MenuIInv, Menu!MenuInv
<1>1. PICK t \in Menu!Types : t = port[c]
  BY DEF Menu!RecvError, HeldInv, ThreadInv
<1>2. /\ thr[c] = "recv" /\ fin[c] \notin {"no", "fin", "reset"}
      /\ svc' = [svc EXCEPT ![t] = "dead"]
      /\ thr' = [d \in Clients |->
                   IF port[d] = t /\ thr[d] \in {"recv", "send"} THEN "done" ELSE thr[d]]
      /\ sbacklog' = [sbacklog EXCEPT ![t] = <<>>]
      /\ UNCHANGED <<mpc, cur, i, st, backlog, cpc, want, told, port, asked, reply, fin, early>>
  BY <1>1 DEF Menu!RecvError, Menu!AtEnd, Menu!serverVars, Menu!menuVars, Menu!socketVars
<1>3. /\ svc \in [Menu!Types -> {"none", "starting", "listening", "exited", "dead"}]
      /\ sbacklog \in [Menu!Types -> Seq(Clients)]
      /\ thr \in [Clients -> {"none", "recv", "send", "done"}]
      /\ fin \in [Clients -> {"no", "fin", "rst", "reset"}]
  BY DEF Menu!TypeOK
<1>4. fin[c] = "rst" /\ svc[t] = "listening"
  BY <1>1, <1>2, <1>3 DEF HeldInv, ThreadInv
<1>5. /\ svc'[t] = "dead" /\ sbacklog'[t] = <<>>
      /\ \A u \in Menu!Types : u # t => svc'[u] = svc[u] /\ sbacklog'[u] = sbacklog[u]
  BY <1>2, <1>3
<1>6. \A d \in Clients :
        /\ thr'[d] # "none" => thr[d] # "none"
        /\ thr'[d] \in {"recv", "send"} => thr[d] \in {"recv", "send"} /\ port[d] # t
  BY <1>2, <1>3
<1>7. Menu!TypeOK'
  <2>1. svc' \in [Menu!Types -> {"none", "starting", "listening", "exited", "dead"}]
    BY <1>2, <1>3
  <2>2. sbacklog' \in [Menu!Types -> Seq(Clients)]
    <3>1. <<>> \in Seq(Clients)  OBVIOUS
    <3>2. QED  BY <1>2, <1>3, <3>1
  <2>3. thr' \in [Clients -> {"none", "recv", "send", "done"}]
    BY <1>2, <1>3
  <2>4. QED  BY <1>2, <2>1, <2>2, <2>3 DEF Menu!TypeOK
<1>8. Menu!RefusedForAReason'
  <2> SUFFICES ASSUME NEW d \in Clients, cpc[d] = "refused", port[d] # 0, d \notin early
               PROVE  svc'[port[d]] \in {"exited", "dead"}
    BY <1>2 DEF Menu!RefusedForAReason
  <2>1. svc[port[d]] \in {"exited", "dead"}
    BY DEF Menu!RefusedForAReason
  <2>2. port[d] \in Menu!Types
    <3>1. port[d] \in 0 .. NT  BY DEF Menu!TypeOK
    <3>2. QED  BY <3>1 DEF Menu!Types, Menu!MenuAssumption
  <2>3. QED  BY <1>5, <2>1, <2>2
<1>9. Menu!DiesOnlyByReset'
  BY <1>1, <1>2, <1>4, <1>5 DEF Menu!DiesOnlyByReset
<1>10. StartedInv'
  BY <1>2, <1>4, <1>5, StartedKept
<1>11. QueuedInv'
  <2>1. ASSUME NEW u \in Menu!Types, NEW j \in DOMAIN sbacklog'[u]
        PROVE  /\ cpc[sbacklog'[u][j]] \in {"prompt", "waiting", "cut off", "gone"}
               /\ port[sbacklog'[u][j]] = u
    <3>1. u # t /\ sbacklog'[u] = sbacklog[u]
      BY <1>5, <2>1
    <3>2. \A k \in DOMAIN sbacklog[u] :
            cpc[sbacklog[u][k]] \in {"prompt", "waiting", "cut off", "gone"} /\ port[sbacklog[u][k]] = u
      BY DEF HeldInv, QueuedInv, Connected
    <3>3. QED  BY <2>1, <3>1, <3>2
  <2>2. ASSUME NEW u \in Menu!Types, sbacklog'[u] # <<>> PROVE svc'[u] = "listening"
    <3>1. u # t /\ sbacklog'[u] = sbacklog[u] /\ svc'[u] = svc[u]
      BY <1>5, <2>2
    <3>2. QED  BY <2>2, <3>1 DEF HeldInv, QueuedInv
  <2>3. UNCHANGED <<cpc, port>>
    BY <1>2
  <2>4. QED  BY <2>1, <2>2, <2>3 DEF QueuedInv, Connected
<1>12. ThreadInv'
  <2>1. ASSUME NEW d \in Clients, thr'[d] \in {"recv", "send"} PROVE svc'[port[d]] = "listening"
    BY <1>5, <1>6, <2>1 DEF HeldInv, ThreadInv
  <2>2. ASSUME NEW d \in Clients, thr'[d] # "none"
        PROVE  cpc[d] \in {"prompt", "waiting", "cut off", "gone"} /\ port[d] \in Menu!Types
    BY <1>6, <2>2 DEF HeldInv, ThreadInv, Connected
  <2>3. QED  BY <1>2, <2>1, <2>2 DEF ThreadInv, Connected
<1>13. QED  BY <1>2, <1>7, <1>8, <1>9, <1>10, <1>11, <1>12 DEF HeldInv

LEMMA MenuThread == ASSUME Menu!MenuAssumption,
         MenuIInv, NEW c \in Clients, Menu!Thread(c) PROVE MenuIInv'
<1>1. asked \in [Clients -> BOOLEAN] /\ reply \in [Clients -> BOOLEAN]
  BY DEF MenuIInv, Menu!MenuInv, Menu!TypeOK
<1>2. CASE Menu!Recv(c)
  <2>1. /\ thr[c] = "recv" /\ thr' = [thr EXCEPT ![c] = "send"] /\ fin' = fin
        /\ asked' = [asked EXCEPT ![c] = FALSE] /\ reply' = reply
        /\ UNCHANGED <<mpc, cur, i, st, backlog, svc, sbacklog, cpc, want, told, port, early>>
    BY <1>2 DEF Menu!Recv, Menu!serverVars, Menu!menuVars
  <2>2. asked' \in [Clients -> BOOLEAN]  BY <1>1, <2>1
  <2>3. ThreadMoves(c, "send")           BY <1>1, <2>1, <2>2 DEF ThreadMoves
  <2>4. QED  BY <2>3, MenuThreadMoves
<1>3. CASE Menu!RecvEnd(c)
  <2>1. /\ thr[c] = "recv" /\ thr' = [thr EXCEPT ![c] = "done"] /\ fin' = fin
        /\ asked' = asked /\ reply' = reply
        /\ UNCHANGED <<mpc, cur, i, st, backlog, svc, sbacklog, cpc, want, told, port, early>>
    BY <1>3 DEF Menu!RecvEnd, Menu!serverVars, Menu!menuVars, Menu!socketVars
  <2>2. ThreadMoves(c, "done")  BY <1>1, <2>1 DEF ThreadMoves
  <2>3. QED  BY <2>2, MenuThreadMoves
<1>4. CASE Menu!RecvError(c)
  BY <1>4, MenuRecvError
<1>5. CASE Menu!Send(c)
  <2>1. /\ thr[c] = "send" /\ thr' = [thr EXCEPT ![c] = "recv"] /\ asked' = asked
        /\ \/ reply' = [reply EXCEPT ![c] = TRUE] /\ fin' = fin
           \/ fin[c] # "no" /\ fin' = [fin EXCEPT ![c] = "reset"] /\ reply' = reply
        /\ UNCHANGED <<mpc, cur, i, st, backlog, svc, sbacklog, cpc, want, told, port, early>>
    BY <1>5 DEF Menu!Send, Menu!serverVars, Menu!menuVars
  <2>2. reply' \in [Clients -> BOOLEAN]  BY <1>1, <2>1
  <2>3. ThreadMoves(c, "recv")           BY <1>1, <2>1, <2>2 DEF ThreadMoves
  <2>4. QED  BY <2>3, MenuThreadMoves
<1>6. QED  BY <1>2, <1>3, <1>4, <1>5 DEF Menu!Thread

-----------------------------------------------------------------------------
(* The clients *)

ClientPC == {"away", "menu", "typed", "told", "prompt", "waiting", "cut off", "refused", "gone"}

\* What a client's step is that neither learns a port nor reaches a service.
ClientMoves(c, to) ==
  /\ cpc[c] # "gone" /\ cpc' = [cpc EXCEPT ![c] = to]
  /\ Connected(c) => to \in {"prompt", "waiting", "cut off", "gone"}
  /\ to = "refused" => port[c] = 0 \/ c \in early' \/ svc[port[c]] \in {"exited", "dead"}
  /\ early \subseteq early' /\ early' \subseteq Clients
  /\ \/ fin' = fin
     \/ to = "gone" /\ \E f \in {"fin", "rst"} : fin' = [fin EXCEPT ![c] = f]
  /\ backlog' \in Seq(Clients) /\ want' \in [Clients -> -1 .. NT]
  /\ asked' \in [Clients -> BOOLEAN] /\ reply' \in [Clients -> BOOLEAN]
  /\ UNCHANGED <<mpc, cur, i, st, svc, sbacklog, thr, told, port>>

LEMMA MenuClientMoves ==
  ASSUME MenuIInv, NEW c \in Clients, NEW to \in ClientPC, ClientMoves(c, to)
  PROVE  MenuIInv'
<1> USE DEF MenuIInv, Menu!MenuInv
<1>1. cpc \in [Clients -> ClientPC] /\ fin \in [Clients -> {"no", "fin", "rst", "reset"}]
  BY DEF Menu!TypeOK, ClientPC
<1>2. /\ cpc'[c] = to /\ cpc[c] # "gone" /\ fin[c] = "no"
      /\ \A d \in Clients : d # c => cpc'[d] = cpc[d] /\ fin'[d] = fin[d]
      /\ fin'[c] # "no" => to = "gone"
  BY <1>1 DEF ClientMoves, HeldInv
<1>3. Menu!TypeOK'
  <2>1. cpc' \in [Clients -> ClientPC]
    BY <1>1 DEF ClientMoves
  <2>2. fin' \in [Clients -> {"no", "fin", "rst", "reset"}]
    BY <1>1 DEF ClientMoves
  <2>3. QED  BY <2>1, <2>2 DEF ClientMoves, Menu!TypeOK, ClientPC
<1>4. Menu!RefusedForAReason'
  BY <1>2 DEF ClientMoves, Menu!RefusedForAReason
<1>5. Menu!DiesOnlyByReset'
  <2>1. UNCHANGED <<svc, port>>
    BY DEF ClientMoves
  <2>2. \A d \in Clients : fin[d] = "rst" => fin'[d] = "rst"
    BY <1>2
  <2>3. QED  BY <2>1, <2>2 DEF Menu!DiesOnlyByReset
<1>6. StartedInv'
  BY StartedKept DEF ClientMoves
<1>7. \A d \in Clients : Connected(d) => Connected(d)'
  BY <1>2 DEF ClientMoves, Connected
<1>8. QueuedInv'
  <2>1. UNCHANGED <<svc, sbacklog, port>>
    BY DEF ClientMoves
  <2>2. \A t \in Menu!Types : \A j \in DOMAIN sbacklog[t] : sbacklog[t][j] \in Clients
    <3>1. sbacklog \in [Menu!Types -> Seq(Clients)]  BY DEF Menu!TypeOK
    <3>2. QED  BY <3>1
  <2>3. QED  BY <1>7, <2>1, <2>2 DEF HeldInv, QueuedInv, Connected
<1>9. ThreadInv'
  <2>1. UNCHANGED <<svc, thr, port>>
    BY DEF ClientMoves
  <2>2. QED  BY <1>7, <2>1 DEF HeldInv, ThreadInv
<1>10. \A d \in Clients : fin'[d] # "no" => cpc'[d] = "gone"
  BY <1>2 DEF HeldInv
<1>11. QED  BY <1>3, <1>4, <1>5, <1>6, <1>8, <1>9, <1>10 DEF HeldInv

\* The number that a client reads is that of a service, or of none.
LEMMA MenuGetPort == ASSUME Menu!MenuAssumption,
         MenuIInv, NEW c \in Clients, Menu!GetPort(c) PROVE MenuIInv'
<1> USE DEF MenuIInv, Menu!MenuInv
<1>1. /\ backlog \in Seq(Clients) /\ want \in [Clients -> -1 .. NT] /\ early \subseteq Clients
      /\ asked \in [Clients -> BOOLEAN] /\ reply \in [Clients -> BOOLEAN]
      /\ cpc \in [Clients -> ClientPC] /\ port \in [Clients -> 0 .. NT]
  BY DEF Menu!TypeOK, ClientPC
<1>2. /\ cpc[c] = "typed"
      /\ UNCHANGED <<mpc, cur, i, st, backlog, svc, sbacklog, thr, want, told, asked, reply, fin,
                     early>>
  BY DEF Menu!GetPort, Menu!serverVars, Menu!serviceVars, Menu!socketVars
<1>3. CASE cpc' = [cpc EXCEPT ![c] = "gone"] /\ UNCHANGED port
  <2>1. ClientMoves(c, "gone")
    BY <1>1, <1>2, <1>3 DEF ClientMoves
  <2>2. "gone" \in ClientPC  BY DEF ClientPC
  <2>3. QED  BY <2>1, <2>2, MenuClientMoves
<1>4. ASSUME NEW p \in {0, told[c]}, told[c] \notin {-1, 0},
             port' = [port EXCEPT ![c] = p], cpc' = [cpc EXCEPT ![c] = "told"]
      PROVE  MenuIInv'
  <2>1. told[c] \in Menu!Types /\ p \in 0 .. NT
    <3>1. told[c] \in -1 .. NT  BY DEF Menu!TypeOK
    <3>2. QED  BY <1>4, <3>1 DEF Menu!Types, Menu!MenuAssumption
  <2>2. /\ port'[c] = p /\ cpc'[c] = "told"
        /\ \A d \in Clients : d # c => port'[d] = port[d] /\ cpc'[d] = cpc[d]
    BY <1>1, <1>4, <2>1
  <2>3. fin[c] = "no" /\ thr[c] = "none" /\ ~Connected(c)
    BY <1>2 DEF HeldInv, ThreadInv, Connected
  <2>4. Menu!TypeOK'
    <3>1. port' \in [Clients -> 0 .. NT]      BY <1>1, <1>4, <2>1
    <3>2. cpc' \in [Clients -> ClientPC]      BY <1>1, <1>4 DEF ClientPC
    <3>3. QED  BY <1>2, <3>1, <3>2 DEF Menu!TypeOK, ClientPC
  <2>5. Menu!RefusedForAReason'
    BY <1>2, <2>2 DEF Menu!RefusedForAReason
  <2>6. Menu!DiesOnlyByReset'
    <3> SUFFICES ASSUME NEW t \in Menu!Types, svc[t] = "dead"
                 PROVE  \E d \in Clients : port'[d] = t /\ fin[d] = "rst"
      BY <1>2 DEF Menu!DiesOnlyByReset
    <3>1. PICK d \in Clients : port[d] = t /\ fin[d] = "rst"
      BY DEF Menu!DiesOnlyByReset
    <3>2. QED  BY <2>2, <2>3, <3>1
  <2>7. StartedInv'
    <3>1. 0 \notin Menu!Types /\ svc[told[c]] # "none"
      BY <2>1 DEF Menu!Types, StartedInv
    <3>2. \A d \in Clients : port'[d] \in Menu!Types => svc[port'[d]] # "none"
      BY <1>4, <2>2, <3>1 DEF StartedInv
    <3>3. QED  BY <1>2, <3>2 DEF StartedInv
  <2>8. QueuedInv'
    <3>1. sbacklog \in [Menu!Types -> Seq(Clients)]
      BY DEF Menu!TypeOK
    <3>2. \A t \in Menu!Types : \A j \in DOMAIN sbacklog[t] :
            sbacklog[t][j] \in Clients /\ sbacklog[t][j] # c
      BY <2>3, <3>1 DEF HeldInv, QueuedInv
    <3>3. \A t \in Menu!Types : \A j \in DOMAIN sbacklog[t] :
            /\ cpc'[sbacklog[t][j]] \in {"prompt", "waiting", "cut off", "gone"}
            /\ port'[sbacklog[t][j]] = t
      <4> TAKE t \in Menu!Types
      <4> TAKE j \in DOMAIN sbacklog[t]
      <4>1. PICK d \in Clients : d = sbacklog[t][j] /\ d # c
        BY <3>2
      <4>2. cpc[d] \in {"prompt", "waiting", "cut off", "gone"} /\ port[d] = t
        BY <4>1 DEF HeldInv, QueuedInv, Connected
      <4>3. QED  BY <2>2, <4>1, <4>2
    <3>4. UNCHANGED <<svc, sbacklog>>  BY <1>2
    <3>5. QED  BY <3>3, <3>4 DEF HeldInv, QueuedInv, Connected
  <2>9. ThreadInv'
    BY <1>2, <2>2, <2>3 DEF HeldInv, ThreadInv, Connected
  <2>10. \A d \in Clients : fin'[d] # "no" => cpc'[d] = "gone"
    BY <1>2, <2>2, <2>3 DEF HeldInv
  <2>11. QED  BY <2>4, <2>5, <2>6, <2>7, <2>8, <2>9, <2>10 DEF HeldInv
<1>5. QED  BY <1>3, <1>4 DEF Menu!GetPort

\* A client is refused by a service that has not begun to listen or has ended: there is one.
LEMMA MenuReconnect == ASSUME Menu!MenuAssumption,
         MenuIInv, NEW c \in Clients, Menu!Reconnect(c) PROVE MenuIInv'
<1> USE DEF MenuIInv, Menu!MenuInv
<1>1. /\ backlog \in Seq(Clients) /\ want \in [Clients -> -1 .. NT] /\ early \subseteq Clients
      /\ asked \in [Clients -> BOOLEAN] /\ reply \in [Clients -> BOOLEAN]
      /\ cpc \in [Clients -> ClientPC] /\ sbacklog \in [Menu!Types -> Seq(Clients)]
      /\ svc \in [Menu!Types -> {"none", "starting", "listening", "exited", "dead"}]
      /\ port[c] \in 0 .. NT
  BY DEF Menu!TypeOK, ClientPC
<1>2. PICK p \in 0 .. NT : p = port[c]
  BY <1>1
<1>3. /\ cpc[c] = "told"
      /\ UNCHANGED <<mpc, cur, i, st, backlog, svc, thr, want, told, port, asked, reply, fin>>
  BY DEF Menu!Reconnect, Menu!serverVars, Menu!menuVars, Menu!socketVars
<1>4. CASE /\ ~Menu!Listening(p) /\ cpc' = [cpc EXCEPT ![c] = "refused"] /\ UNCHANGED sbacklog
           /\ early' = IF p \in Menu!Types /\ svc[p] = "starting" THEN early \union {c} ELSE early
  <2>1. early \subseteq early' /\ early' \subseteq Clients
    BY <1>1, <1>4
  <2>2. p = 0 \/ c \in early' \/ svc[p] \in {"exited", "dead"}
    <3>1. p = 0 \/ p \in Menu!Types
      BY DEF Menu!Types, Menu!MenuAssumption
    <3>2. p \in Menu!Types => svc[p] # "none"
      BY <1>2 DEF StartedInv
    <3>3. QED  BY <1>1, <1>4, <3>1, <3>2 DEF Menu!Listening
  <2>3. ClientMoves(c, "refused")
    BY <1>1, <1>2, <1>3, <1>4, <2>1, <2>2 DEF ClientMoves, Connected
  <2>4. "refused" \in ClientPC  BY DEF ClientPC
  <2>5. QED  BY <2>3, <2>4, MenuClientMoves
<1>5. CASE /\ Menu!Listening(p) /\ cpc' = [cpc EXCEPT ![c] = "prompt"] /\ UNCHANGED early
           /\ sbacklog' = [sbacklog EXCEPT ![p] = Append(sbacklog[p], c)]
  <2>1. p \in Menu!Types /\ svc[p] = "listening" /\ sbacklog[p] \in Seq(Clients)
    BY <1>1, <1>5 DEF Menu!Listening
  <2>2. /\ Append(sbacklog[p], c) \in Seq(Clients)
        /\ \A j \in DOMAIN Append(sbacklog[p], c) :
             \/ j \in DOMAIN sbacklog[p] /\ Append(sbacklog[p], c)[j] = sbacklog[p][j]
             \/ Append(sbacklog[p], c)[j] = c
    BY <2>1
  <2>3. /\ sbacklog'[p] = Append(sbacklog[p], c) /\ cpc'[c] = "prompt"
        /\ \A t \in Menu!Types : t # p => sbacklog'[t] = sbacklog[t]
        /\ \A d \in Clients : d # c => cpc'[d] = cpc[d]
    BY <1>1, <1>5, <2>1
  <2>4. Menu!TypeOK'
    <3>1. cpc' \in [Clients -> ClientPC]           BY <1>1, <1>5 DEF ClientPC
    <3>2. sbacklog' \in [Menu!Types -> Seq(Clients)]    BY <1>1, <1>5, <2>2
    <3>3. QED  BY <1>3, <1>5, <3>1, <3>2 DEF Menu!TypeOK, ClientPC
  <2>5. Menu!RefusedForAReason' /\ Menu!DiesOnlyByReset' /\ StartedInv'
    BY <1>3, <1>5, <2>3, StartedKept DEF Menu!RefusedForAReason, Menu!DiesOnlyByReset
  <2>6. \A d \in Clients : Connected(d) => cpc'[d] \in {"prompt", "waiting", "cut off", "gone"}
    BY <2>3 DEF Connected
  <2>7. QueuedInv'
    <3>1. \A t \in Menu!Types : \A k \in DOMAIN sbacklog[t] :
            /\ cpc'[sbacklog[t][k]] \in {"prompt", "waiting", "cut off", "gone"}
            /\ port[sbacklog[t][k]] = t
      <4>1. \A t \in Menu!Types : \A k \in DOMAIN sbacklog[t] : sbacklog[t][k] \in Clients
        BY <1>1
      <4>2. QED  BY <2>6, <4>1 DEF HeldInv, QueuedInv
    <3>2. ASSUME NEW t \in Menu!Types, NEW j \in DOMAIN sbacklog'[t]
          PROVE  /\ cpc'[sbacklog'[t][j]] \in {"prompt", "waiting", "cut off", "gone"}
                 /\ port[sbacklog'[t][j]] = t
      <4>1. CASE t = p /\ sbacklog'[t][j] = c
        BY <1>2, <2>3, <4>1
      <4>2. CASE \E k \in DOMAIN sbacklog[t] : sbacklog'[t][j] = sbacklog[t][k]
        BY <3>1, <4>2
      <4>3. QED  BY <2>1, <2>2, <2>3, <3>2, <4>1, <4>2
    <3>3. \A t \in Menu!Types : sbacklog'[t] # <<>> => svc[t] = "listening"
      BY <2>1, <2>3 DEF HeldInv, QueuedInv
    <3>4. UNCHANGED <<svc, port>>  BY <1>3
    <3>5. QED  BY <3>2, <3>3, <3>4 DEF QueuedInv, Connected
  <2>8. ThreadInv'
    BY <1>3, <2>6 DEF HeldInv, ThreadInv, Connected
  <2>9. \A d \in Clients : fin'[d] # "no" => cpc'[d] = "gone"
    BY <1>3, <2>3 DEF HeldInv
  <2>10. QED  BY <2>4, <2>5, <2>7, <2>8, <2>9 DEF HeldInv
<1>6. QED  BY <1>2, <1>4, <1>5 DEF Menu!Reconnect

\* The other steps of a client.
LEMMA MenuClientOther ==
  ASSUME Menu!MenuAssumption,
         MenuIInv, NEW c \in Clients,
         Menu!Connect(c) \/ Menu!Type(c) \/ Menu!Ask(c) \/ Menu!Read(c) \/ Menu!LoseService(c) \/ Menu!Quit(c)
  PROVE  MenuIInv'
<1>1. /\ backlog \in Seq(Clients) /\ want \in [Clients -> -1 .. NT] /\ early \subseteq Clients
      /\ asked \in [Clients -> BOOLEAN] /\ reply \in [Clients -> BOOLEAN]
  BY DEF MenuIInv, Menu!MenuInv, Menu!TypeOK
<1>2. {"menu", "typed", "waiting", "prompt", "cut off", "gone"} \subseteq ClientPC
  BY DEF ClientPC
<1>3. CASE Menu!Connect(c)
  <2>1. backlog' \in Seq(Clients)
    BY <1>1, <1>3 DEF Menu!Connect
  <2>2. ClientMoves(c, "menu")
    BY <1>1, <1>3, <2>1 DEF Menu!Connect, ClientMoves, Connected, Menu!serverVars, Menu!serviceVars, Menu!menuVars, Menu!socketVars
  <2>3. QED  BY <1>2, <2>2, MenuClientMoves
<1>4. CASE Menu!Type(c)
  <2>1. want' \in [Clients -> -1 .. NT]
    <3>1. PICK t \in 0 .. NT : want' = [want EXCEPT ![c] = t]
      BY <1>4 DEF Menu!Type
    <3>2. t \in -1 .. NT  BY DEF Menu!MenuAssumption
    <3>3. QED  BY <1>1, <3>1, <3>2
  <2>2. ClientMoves(c, "typed")
    BY <1>1, <1>4, <2>1 DEF Menu!Type, ClientMoves, Connected, Menu!serverVars, Menu!serviceVars, Menu!socketVars
  <2>3. QED  BY <1>2, <2>2, MenuClientMoves
<1>5. CASE Menu!Ask(c)
  <2>1. asked' \in [Clients -> BOOLEAN]
    BY <1>1, <1>5 DEF Menu!Ask
  <2>2. ClientMoves(c, "waiting")
    BY <1>1, <1>5, <2>1 DEF Menu!Ask, ClientMoves, Menu!serverVars, Menu!serviceVars, Menu!menuVars
  <2>3. QED  BY <1>2, <2>2, MenuClientMoves
<1>6. CASE Menu!Read(c)
  <2>1. reply' \in [Clients -> BOOLEAN]
    BY <1>1, <1>6 DEF Menu!Read
  <2>2. ClientMoves(c, "prompt")
    BY <1>1, <1>6, <2>1 DEF Menu!Read, ClientMoves, Menu!serverVars, Menu!serviceVars, Menu!menuVars
  <2>3. QED  BY <1>2, <2>2, MenuClientMoves
<1>7. CASE Menu!LoseService(c)
  <2>1. ClientMoves(c, "cut off")
    BY <1>1, <1>7 DEF Menu!LoseService, ClientMoves, Menu!serverVars, Menu!serviceVars, Menu!menuVars, Menu!socketVars
  <2>2. QED  BY <1>2, <2>1, MenuClientMoves
<1>8. CASE Menu!Quit(c)
  <2>1. ClientMoves(c, "gone")
    BY <1>1, <1>8 DEF Menu!Quit, ClientMoves, Menu!serverVars, Menu!serviceVars, Menu!menuVars
  <2>2. QED  BY <1>2, <2>1, MenuClientMoves
<1>9. QED  BY <1>3, <1>4, <1>5, <1>6, <1>7, <1>8

-----------------------------------------------------------------------------
LEMMA MenuStep ==
  ASSUME Menu!MenuAssumption
  PROVE  MenuIInv /\ [Menu!Next]_(Menu!vars) => MenuIInv'
<1> SUFFICES ASSUME MenuIInv, [Menu!Next]_(Menu!vars) PROVE MenuIInv'
  OBVIOUS
<1>1. CASE Menu!Server
  BY <1>1, MenuAccept, MenuRecvType, MenuStartService, MenuAnswer DEF Menu!Server
<1>2. CASE \E t \in Menu!Types : Menu!Process(t) \/ Menu!BindFails(t)
  BY <1>2, MenuBind, MenuAcceptClient DEF Menu!Process
<1>3. CASE \E c \in Clients : Menu!Thread(c) \/ Menu!Client(c) \/ Menu!User(c)
  BY <1>3, MenuThread, MenuGetPort, MenuReconnect, MenuClientOther DEF Menu!Client, Menu!User
<1>4. CASE UNCHANGED Menu!vars
  <2> USE <1>4 DEF Menu!vars, Menu!serverVars, Menu!serviceVars, Menu!menuVars, Menu!socketVars, MenuIInv, Menu!MenuInv
  <2>1. Menu!TypeOK'
    BY DEF Menu!TypeOK
  <2>2. Menu!RefusedForAReason' /\ Menu!DiesOnlyByReset'
    BY DEF Menu!RefusedForAReason, Menu!DiesOnlyByReset
  <2>3. StartedInv' /\ HeldInv'
    BY StartedKept, HeldKept
  <2>4. QED  BY <2>1, <2>2, <2>3
<1>5. QED  BY <1>1, <1>2, <1>3, <1>4 DEF Menu!Next

\* For any number of clients and up to four services, whoever is killed and whichever
\* service finds its port in use: a client is refused only for one of the reasons given,
\* and a service that dies was taken along by a client that was killed with a reply unread.
THEOREM MenuCorrect ==
  ASSUME Menu!MenuAssumption
  PROVE  Menu!Spec => []Menu!MenuInv
<1>1. Menu!Init => MenuIInv                        BY MenuInit
<1>2. MenuIInv /\ [Menu!Next]_(Menu!vars) => MenuIInv'    BY MenuStep
<1>3. MenuIInv => Menu!MenuInv                     BY DEF MenuIInv
<1>4. QED  BY <1>1, <1>2, <1>3, PTL DEF Menu!Spec
=============================================================================
