--------------------------- MODULE EchoPoolProofs ---------------------------
(***************************************************************************)
(* Proofs about EchoPool, for any number of clients, lines and signals.    *)
(* Flags are right as long as numbers are (FlagInv), and a number is right  *)
(* when the echo server that reads it is its client's first: until then     *)
(* what comes first from a client is its number (NumberInv).               *)
(*                                                                         *)
(* The second part is about TypedServices, through an instance.            *)
(***************************************************************************)
EXTENDS EchoPool, FiniteSetTheorems, FunctionTheorems, TLAPS

-----------------------------------------------------------------------------
(* The inductive invariant *)

\* Where main is in its loop over the clients.
LoopInv ==
  /\ mpc = "test" => mi <= cnt
  /\ mpc = "send" => mi < cnt

\* A client is in the backlog or in nsfd[], once; echo servers are for clients in nsfd[].
Accepted(c) == \E i \in 0 .. cnt - 1 : nsfd[i + 1] = c
OnceInv ==
  /\ \A i, j \in 0 .. cnt - 1 : nsfd[i + 1] = nsfd[j + 1] => i = j
  /\ \A i, j \in DOMAIN backlog : backlog[i] = backlog[j] => i = j
  /\ \A j \in DOMAIN backlog : ~Accepted(backlog[j]) /\ cpc[backlog[j]] # "away"
  /\ \A c \in Clients : Accepted(c) => cpc[c] # "away"
  /\ \A k \in DOMAIN echo : Accepted(echo[k].client)

\* Killed clients are gone.
GoneInv == \A c \in Clients : fin[c] # "no" => cpc[c] = "gone"

\* What an echo server has done is seen in its number and its rounds.
EchoInv ==
  \A k \in DOMAIN echo :
    /\ echo[k].pc \in {"hello", "number"} => echo[k].no = -1
    /\ echo[k].pc \in {"read", "write", "end", "free", "bye", "gone"} => echo[k].no # -1
    /\ echo[k].pc \in {"hello", "number", "read", "write"} => echo[k].left > 0

\* Until a number has been mistaken the flags are right and echo servers know their clients.
FlagInv ==
  ~misread =>
    /\ \A i \in 0 .. cnt - 1 :
         /\ \A k, l \in Busy(nsfd[i + 1]) : k = l
         /\ flag[i] = 1 <=> Busy(nsfd[i + 1]) # {}
    /\ \A k \in DOMAIN echo : echo[k].no \in {-1, Own(echo[k].client)}

\* As long as no echo server has read from a client, what comes first is the number.
Fresh(c) == \A k \in DOMAIN echo : echo[k].client = c => echo[k].no = -1
HasEnd(c) == \E j \in DOMAIN toClient[c] : toClient[c][j] = "end"
NumberOf(c) ==
  (fin[c] = "no" /\ Fresh(c)) =>
    /\ toServer[c] = <<>> \/ Head(toServer[c]) = "num"
    /\ cpc[c] \in {"chat", "wait"} => toServer[c] # <<>>
    /\ cpc[c] \in {"away", "number", "idle"} => toServer[c] = <<>>
    /\ ~HasEnd(c)
NumberInv == \A c \in Clients : NumberOf(c)

PoolIInv ==
  /\ TypeOK /\ LoopInv /\ OnceInv /\ GoneInv /\ EchoInv /\ FlagInv /\ NumberInv
  /\ WrongOnlyShared /\ DiesForAReason

-----------------------------------------------------------------------------
(* Sequences *)

LEMMA PoolAppend ==
  ASSUME NEW S, NEW q \in Seq(S), NEW m \in S
  PROVE  /\ Append(q, m) \in Seq(S) /\ Len(Append(q, m)) = Len(q) + 1 /\ Len(q) \in Nat
         /\ DOMAIN q = 1 .. Len(q) /\ DOMAIN Append(q, m) = 1 .. Len(q) + 1
         /\ \A j \in 1 .. Len(q) : Append(q, m)[j] = q[j]
         /\ Append(q, m)[Len(q) + 1] = m
OBVIOUS

LEMMA PoolTail ==
  ASSUME NEW S, NEW q \in Seq(S), q # <<>>
  PROVE  /\ Tail(q) \in Seq(S) /\ Head(q) = q[1] /\ q[1] \in S /\ 1 \in DOMAIN q
         /\ \A j \in DOMAIN Tail(q) : j \in Nat \ {0} /\ j + 1 \in DOMAIN q /\ Tail(q)[j] = q[j + 1]
OBVIOUS

LEMMA PoolExcept ==
  ASSUME NEW S, NEW q \in Seq(S), NEW k \in DOMAIN q, NEW m \in S
  PROVE  LET r == [q EXCEPT ![k] = m] IN
         /\ r \in Seq(S) /\ Len(r) = Len(q) /\ DOMAIN r = DOMAIN q /\ r[k] = m
         /\ \A j \in DOMAIN q : j # k => r[j] = q[j]
OBVIOUS

LEMMA PoolElement ==
  ASSUME NEW S, NEW q \in Seq(S), NEW k \in DOMAIN q
  PROVE  q[k] \in S
OBVIOUS

\* A stream keeps what comes first when a piece joins it.
LEMMA PoolJoin ==
  ASSUME NEW S, NEW q \in Seq(S), NEW m \in S
  PROVE  /\ Join(q, m) \in Seq(S) /\ Join(q, m) # <<>>
         /\ q = <<>> => Head(Join(q, m)) = m
         /\ q # <<>> => Head(Join(q, m)) = Head(q)
         /\ \A j \in DOMAIN Join(q, m) :
              Join(q, m)[j] = m \/ (j \in DOMAIN q /\ Join(q, m)[j] = q[j])
<1>1. CASE q # <<>> /\ q[Len(q)] = m
  BY <1>1 DEF Join
<1>2. CASE ~(q # <<>> /\ q[Len(q)] = m)
  <2>1. Join(q, m) = Append(q, m)
    BY <1>2 DEF Join
  <2>2. Append(q, m) \in Seq(S) /\ Append(q, m) # <<>>
    <3>1. Append(q, m) \in Seq(S) /\ Len(q) + 1 \in DOMAIN Append(q, m)
      OBVIOUS
    <3>2. QED  BY <3>1
  <2>3. q = <<>> => Head(Append(q, m)) = m
    OBVIOUS
  <2>4. q # <<>> => Head(Append(q, m)) = Head(q)
    OBVIOUS
  <2>5. ASSUME NEW j \in DOMAIN Append(q, m)
        PROVE  Append(q, m)[j] = m \/ (j \in DOMAIN q /\ Append(q, m)[j] = q[j])
    BY PoolAppend
  <2>6. QED  BY <2>1, <2>2, <2>3, <2>4, <2>5
<1>3. QED  BY <1>1, <1>2

\* Clients that occur once in a sequence are as many as there are at most.
LEMMA PoolDistinct ==
  ASSUME PoolAssumption, NEW q \in Seq(Clients), NEW n, n = Len(q),
         \A i, j \in 0 .. n - 1 : q[i + 1] = q[j + 1] => i = j
  PROVE  n \in Nat /\ Nobody \in Nat /\ n <= Nobody
<1>1. Nobody \in Nat
  BY FS_CardinalityType DEF PoolAssumption, Nobody
<1>2. n \in Nat /\ DOMAIN q = 1 .. n
  OBVIOUS
<1>3. IsFiniteSet(1 .. n) /\ Cardinality(1 .. n) = n
  <2>1. 1 \in Int /\ n \in Int
    BY <1>2
  <2>2. IsFiniteSet(1 .. n)
    BY <2>1, FS_Interval
  <2>3. Cardinality(1 .. n) = IF 1 > n THEN 0 ELSE n - 1 + 1
    BY <2>1, FS_Interval
  <2>4. QED  BY <1>2, <2>2, <2>3
<1>4. \A i, j \in 1 .. n : q[i] = q[j] => i = j
  <2> SUFFICES ASSUME NEW i \in 1 .. n, NEW j \in 1 .. n, q[i] = q[j] PROVE i = j
    OBVIOUS
  <2>1. i - 1 \in 0 .. n - 1 /\ j - 1 \in 0 .. n - 1 /\ (i - 1) + 1 = i /\ (j - 1) + 1 = j
    BY <1>2
  <2>2. i - 1 = j - 1
    BY <2>1
  <2>3. QED  BY <1>2, <2>2
<1>5. q \in [1 .. n -> Clients]
  BY <1>2
<1>6. q \in Injection(1 .. n, Clients)
  BY <1>4, <1>5, Fun_IsInj
<1>7. Cardinality(1 .. n) <= Cardinality(Clients)
  <2>1. IsFiniteSet(Clients)
    BY DEF PoolAssumption
  <2>2. QED  BY <1>6, <2>1, FS_Injection
<1>8. QED  BY <1>1, <1>2, <1>3, <1>7 DEF Nobody

\* The place of a client in nsfd[] is the one at which it is found.
LEMMA PoolPlace ==
  ASSUME NEW q, NEW n \in Nat, \A i, j \in 0 .. n - 1 : q[i + 1] = q[j + 1] => i = j,
         NEW i \in 0 .. n - 1
  PROVE  (CHOOSE j \in 0 .. n - 1 : q[j + 1] = q[i + 1]) = i
<1> DEFINE o == CHOOSE j \in 0 .. n - 1 : q[j + 1] = q[i + 1]
<1>1. o \in 0 .. n - 1 /\ q[o + 1] = q[i + 1]
  OBVIOUS
<1>2. QED  BY <1>1

\* The number of a client, as Own finds it.
PlaceIn(q, n, c) == CHOOSE i \in 0 .. n - 1 : q[i + 1] = c

-----------------------------------------------------------------------------
(* What the parts of the invariant depend on *)

EchoServers ==
  [client : Clients, left : 0 .. Rounds, no : -1 .. Nobody,
   pc : {"hello", "number", "read", "write", "end", "free", "bye", "gone", "dead"}]
Pieces == {"num", "news", "e", "echo", "end", "bye"}
FinTypes == {"no", "fin", "rst", "reset"}

LEMMA PoolInit == ASSUME PoolAssumption, Init PROVE PoolIInv
<1>1. Nobody \in Nat /\ Rounds \in Nat /\ MaxLines \in Nat /\ MaxEvents \in Nat
  BY FS_CardinalityType DEF PoolAssumption, Nobody
<1>2. TypeOK
  <2>1. mpc = "select" /\ mi \in 0 .. cnt + 1 /\ nsfd \in Seq(Clients) /\ cnt = Len(nsfd)
    BY DEF Init
  <2>2. ecnt \in -1 .. cnt - 1 /\ flag \in [Index -> {0, 1}]
    BY DEF Init
  <2>a. pending \in BOOLEAN /\ misread \in BOOLEAN
    BY DEF Init
  <2>3. sent \in 0 .. MaxEvents /\ said \in 0 .. MaxLines
    BY <1>1 DEF Init
  <2>4. backlog \in Seq(Clients) /\ echo \in Seq(EchoServers) /\ deaf \subseteq Clients
    BY DEF Init
  <2>5. /\ toClient \in [Clients -> Seq(Pieces)] /\ toServer \in [Clients -> Seq({"num", "line"})]
        /\ fin \in [Clients -> FinTypes]
        /\ cpc \in [Clients -> {"away", "number", "idle", "chat", "wait", "gone"}]
    BY DEF Init, FinTypes
  <2>6. QED  BY <2>1, <2>2, <2>a, <2>3, <2>4, <2>5 DEF TypeOK, EchoServers, Pieces, FinTypes
<1>3. LoopInv /\ GoneInv /\ EchoInv /\ DiesForAReason
  BY DEF Init, LoopInv, GoneInv, EchoInv, DiesForAReason
<1>4. OnceInv /\ FlagInv /\ WrongOnlyShared
  BY DEF Init, OnceInv, Accepted, FlagInv, WrongOnlyShared
<1>5. NumberInv
  BY DEF Init, NumberInv, NumberOf, HasEnd
<1>6. QED  BY <1>2, <1>3, <1>4, <1>5 DEF PoolIInv

LEMMA PoolNumbers ==
  ASSUME PoolAssumption, TypeOK, OnceInv
  PROVE  Nobody \in Nat /\ cnt \in Nat /\ cnt <= Nobody
<1>1. nsfd \in Seq(Clients) /\ cnt = Len(nsfd)
  BY DEF TypeOK
<1>2. \A i, j \in 0 .. cnt - 1 : nsfd[i + 1] = nsfd[j + 1] => i = j
  BY DEF OnceInv
<1>3. QED  BY <1>1, <1>2, PoolDistinct

\* Own finds the number under which the server accepted a client.
LEMMA PoolOwn ==
  ASSUME PoolAssumption, TypeOK, OnceInv
  PROVE  /\ \A i \in 0 .. cnt - 1 : nsfd[i + 1] \in Clients /\ Own(nsfd[i + 1]) = i
         /\ \A c : Accepted(c) =>
              Own(c) \in 0 .. cnt - 1 /\ Own(c) \in Index /\ nsfd[Own(c) + 1] = c
<1>1. cnt \in Nat /\ cnt <= Nobody /\ Nobody \in Nat
  BY PoolNumbers
<1>2. ASSUME NEW i \in 0 .. cnt - 1 PROVE nsfd[i + 1] \in Clients /\ Own(nsfd[i + 1]) = i
  <2>1. nsfd \in Seq(Clients) /\ cnt = Len(nsfd)
    BY DEF TypeOK
  <2>2. nsfd[i + 1] \in Clients
    BY <1>1, <2>1
  <2>3. Own(nsfd[i + 1]) = i
    BY <1>1, PoolPlace DEF Own, OnceInv
  <2>4. QED  BY <2>2, <2>3
<1>3. ASSUME NEW c, Accepted(c)
      PROVE  Own(c) \in 0 .. cnt - 1 /\ Own(c) \in Index /\ nsfd[Own(c) + 1] = c
  <2>1. PICK i \in 0 .. cnt - 1 : nsfd[i + 1] = c
    BY <1>3 DEF Accepted
  <2>2. Own(c) = i
    BY <1>2, <2>1
  <2>3. QED  BY <1>1, <2>1, <2>2 DEF Index
<1>4. QED  BY <1>2, <1>3

LEMMA PoolEchoes ==
  ASSUME TypeOK, OnceInv, NEW k \in DOMAIN echo
  PROVE  /\ echo \in Seq(EchoServers) /\ echo[k] \in EchoServers
         /\ echo[k].client \in Clients /\ Accepted(echo[k].client)
<1>1. echo \in Seq(EchoServers)
  BY DEF TypeOK, EchoServers
<1>2. echo[k] \in EchoServers
  BY <1>1, PoolElement
<1>3. QED  BY <1>1, <1>2 DEF EchoServers, OnceInv

LEMMA PoolQueued ==
  ASSUME TypeOK
  PROVE  \A j \in DOMAIN backlog : backlog[j] \in Clients
<1>1. backlog \in Seq(Clients)
  BY DEF TypeOK
<1>2. QED  BY <1>1, PoolElement

\* A part of the invariant is kept while nothing happens to what it speaks of.
LEMMA PoolOnceFrame ==
  ASSUME TypeOK, OnceInv, nsfd' = nsfd, cnt' = cnt, backlog' = backlog,
         \A d \in Clients : cpc[d] # "away" => cpc'[d] # "away",
         \A k \in DOMAIN echo' : k \in DOMAIN echo /\ echo'[k].client = echo[k].client
  PROVE  OnceInv'
<1>1. \A c : Accepted(c)' <=> Accepted(c)
  BY DEF Accepted
<1>2. \A i, j \in 0 .. cnt' - 1 : nsfd'[i + 1] = nsfd'[j + 1] => i = j
  BY DEF OnceInv
<1>3. \A i, j \in DOMAIN backlog' : backlog'[i] = backlog'[j] => i = j
  BY DEF OnceInv
<1>4. \A j \in DOMAIN backlog' : ~Accepted(backlog[j])' /\ cpc'[backlog'[j]] # "away"
  BY <1>1, PoolQueued DEF OnceInv
<1>5. \A c \in Clients : Accepted(c)' => cpc'[c] # "away"
  BY <1>1 DEF OnceInv
<1>6. \A k \in DOMAIN echo' : Accepted(echo[k].client)' /\ echo'[k].client = echo[k].client
  BY <1>1 DEF OnceInv
<1>7. QED  BY <1>2, <1>3, <1>4, <1>5, <1>6 DEF OnceInv, Accepted

LEMMA PoolGoneFrame ==
  ASSUME GoneInv, \A d \in Clients : fin'[d] # "no" => fin[d] # "no",
         \A d \in Clients : cpc[d] = "gone" => cpc'[d] = "gone"
  PROVE  GoneInv'
BY DEF GoneInv

LEMMA PoolFlagFrame ==
  ASSUME FlagInv, UNCHANGED <<misread, cnt, nsfd, flag, echo>>
  PROVE  FlagInv'
BY DEF FlagInv, Busy, Own

LEMMA PoolWrongFrame ==
  ASSUME WrongOnlyShared, UNCHANGED <<cnt, nsfd>>, DOMAIN echo' = DOMAIN echo,
         \A k \in DOMAIN echo : echo'[k].client = echo[k].client /\ echo'[k].no = echo[k].no,
         \A k \in DOMAIN echo : fin[echo[k].client] # "no" => fin'[echo[k].client] # "no"
  PROVE  WrongOnlyShared'
<1>2. ASSUME NEW k \in DOMAIN echo'
      PROVE  \/ echo'[k].no \in {-1, Own(echo[k].client)'} \/ fin'[echo'[k].client] # "no"
             \/ \E j \in DOMAIN echo' \ {k} : echo'[j].client = echo'[k].client
  <2>1. \/ echo[k].no \in {-1, Own(echo[k].client)} \/ fin[echo[k].client] # "no"
        \/ \E j \in DOMAIN echo \ {k} : echo[j].client = echo[k].client
    BY <1>2 DEF WrongOnlyShared
  <2>2. Own(echo[k].client)' = Own(echo[k].client)
    BY <1>2 DEF Own
  <2>3. QED  BY <1>2, <2>1, <2>2
<1>3. QED  BY <1>2 DEF WrongOnlyShared, Own

LEMMA PoolNumberFrame ==
  ASSUME NEW d \in Clients, NumberOf(d), Fresh(d)' => Fresh(d),
         fin[d] # "no" => fin'[d] # "no", toServer'[d] = toServer[d], cpc'[d] = cpc[d],
         HasEnd(d)' => HasEnd(d)
  PROVE  NumberOf(d)'
BY DEF NumberOf

LEMMA PoolDiesFrame ==
  ASSUME DiesForAReason, mpc' = mpc, cnt' = cnt,
         \A d \in Clients : fin[d] = "reset" => fin'[d] = "reset"
  PROVE  DiesForAReason'
BY DEF DiesForAReason, Broken

LEMMA PoolFresh ==
  ASSUME NEW d, DOMAIN echo' = DOMAIN echo,
         \A k \in DOMAIN echo : echo'[k].client = echo[k].client /\ echo'[k].no = echo[k].no
  PROVE  Fresh(d)' <=> Fresh(d)
BY DEF Fresh

\* What sending to a client does.
LEMMA PoolPut ==
  ASSUME TypeOK, NEW c \in Clients, NEW m \in Pieces, Put(c, m)
  PROVE  /\ toClient' \in [Clients -> Seq(Pieces)] /\ fin' \in [Clients -> FinTypes]
         /\ \A d \in Clients : fin'[d] = "no" <=> fin[d] = "no"
         /\ \A d \in Clients : fin[d] = "reset" => fin'[d] = "reset"
         /\ \A d \in Clients : d # c \/ m # "end" => (HasEnd(d)' => HasEnd(d))
<1>1. toClient \in [Clients -> Seq(Pieces)] /\ fin \in [Clients -> FinTypes]
  BY DEF TypeOK, Pieces, FinTypes
<1>2. CASE fin[c] = "no"
  <2>1. toClient' = [toClient EXCEPT ![c] = Join(toClient[c], m)] /\ fin' = fin
    BY <1>2 DEF Put
  <2>2. /\ Join(toClient[c], m) \in Seq(Pieces)
        /\ \A j \in DOMAIN Join(toClient[c], m) :
             Join(toClient[c], m)[j] = m
               \/ (j \in DOMAIN toClient[c] /\ Join(toClient[c], m)[j] = toClient[c][j])
    <3>1. PICK q \in Seq(Pieces) : q = toClient[c]
      BY <1>1
    <3>2. /\ Join(q, m) \in Seq(Pieces)
          /\ \A j \in DOMAIN Join(q, m) :
               Join(q, m)[j] = m \/ (j \in DOMAIN q /\ Join(q, m)[j] = q[j])
      BY PoolJoin
    <3>3. QED  BY <3>1, <3>2
  <2>3. toClient' \in [Clients -> Seq(Pieces)]
    BY <1>1, <2>1, <2>2
  <2>4. toClient'[c] = Join(toClient[c], m) /\ \A d \in Clients : d # c => toClient'[d] = toClient[d]
    BY <1>1, <2>1
  <2>5. \A d \in Clients : d # c \/ m # "end" => (HasEnd(d)' => HasEnd(d))
    BY <2>2, <2>4 DEF HasEnd
  <2>6. QED  BY <1>1, <2>1, <2>3, <2>5
<1>3. CASE fin[c] # "no"
  <2>1. fin' = [fin EXCEPT ![c] = "reset"] /\ toClient' = toClient
    BY <1>3 DEF Put
  <2>2. \A d \in Clients : HasEnd(d)' <=> HasEnd(d)
    BY <2>1 DEF HasEnd
  <2>3. QED  BY <1>1, <1>3, <2>1, <2>2 DEF FinTypes
<1>4. QED  BY <1>2, <1>3

-----------------------------------------------------------------------------
(* Main *)

LEMMA PoolMainFrame ==
  ASSUME PoolIInv, UNCHANGED <<nsfd, cnt, flag, backlog, echo, toServer, cpc, misread>>,
         \A d \in Clients : fin'[d] = "no" <=> fin[d] = "no",
         \A d \in Clients : HasEnd(d)' => HasEnd(d)
  PROVE  OnceInv' /\ GoneInv' /\ EchoInv' /\ FlagInv' /\ NumberInv' /\ WrongOnlyShared'
<1>0. TypeOK /\ OnceInv
  BY DEF PoolIInv
<1>1. OnceInv'
  BY <1>0, PoolOnceFrame
<1>2. GoneInv'
  BY PoolGoneFrame DEF PoolIInv
<1>3. EchoInv'
  BY DEF PoolIInv, EchoInv
<1>4. FlagInv'
  BY PoolFlagFrame DEF PoolIInv
<1>5. NumberInv'
  <2> SUFFICES ASSUME NEW d \in Clients PROVE NumberOf(d)'
    BY DEF NumberInv
  <2>1. NumberOf(d) /\ (Fresh(d)' => Fresh(d))
    BY DEF PoolIInv, NumberInv, Fresh
  <2>2. QED  BY <2>1, PoolNumberFrame
<1>6. WrongOnlyShared'
  <2>1. \A k \in DOMAIN echo : echo[k].client \in Clients
    BY <1>0, PoolEchoes
  <2>2. QED  BY <2>1, PoolWrongFrame DEF PoolIInv
<1>7. QED  BY <1>1, <1>2, <1>3, <1>4, <1>5, <1>6

LEMMA PoolSame ==
  ASSUME UNCHANGED <<toClient, fin>>
  PROVE  \A d : (fin'[d] = "no" <=> fin[d] = "no") /\ (HasEnd(d)' <=> HasEnd(d))
BY DEF HasEnd

LEMMA PoolAccept ==
  ASSUME PoolAssumption, PoolIInv, Accept
  PROVE  PoolIInv'
<1>0. /\ TypeOK /\ OnceInv /\ mpc = "select" /\ backlog # <<>>
      /\ Put(Head(backlog), "num")
      /\ nsfd' = Append(nsfd, Head(backlog)) /\ flag' = [flag EXCEPT ![cnt] = 0]
      /\ cnt' = cnt + 1 /\ backlog' = Tail(backlog) /\ mpc' = "poll" /\ mi' = 0
      /\ ecnt' = ecnt /\ pending' = pending /\ sent' = sent /\ said' = said /\ echo' = echo
      /\ toServer' = toServer /\ cpc' = cpc /\ misread' = misread /\ deaf' = deaf
  BY DEF Accept, PoolIInv, inputVars, history
<1>1. cnt \in Nat /\ nsfd \in Seq(Clients) /\ cnt = Len(nsfd) /\ backlog \in Seq(Clients)
  BY <1>0, PoolNumbers DEF TypeOK
<1>2. PICK b \in Clients : b = Head(backlog)
  BY <1>0, <1>1, PoolTail
<1>3. /\ backlog' \in Seq(Clients) /\ b = backlog[1] /\ 1 \in DOMAIN backlog
      /\ \A j \in DOMAIN backlog' : j \in Nat \ {0} /\ j + 1 \in DOMAIN backlog
                                    /\ backlog'[j] = backlog[j + 1]
  BY <1>0, <1>1, <1>2, PoolTail
<1>4. /\ nsfd' \in Seq(Clients) /\ Len(nsfd') = cnt' /\ nsfd'[cnt + 1] = b
      /\ \A i \in 0 .. cnt - 1 : nsfd'[i + 1] = nsfd[i + 1]
  <2>1. /\ Append(nsfd, b) \in Seq(Clients) /\ Len(Append(nsfd, b)) = cnt + 1
        /\ Append(nsfd, b)[cnt + 1] = b
        /\ \A j \in 1 .. cnt : Append(nsfd, b)[j] = nsfd[j]
    BY <1>1, PoolAppend
  <2>2. \A i \in 0 .. cnt - 1 : i + 1 \in 1 .. cnt
    BY <1>1
  <2>3. QED  BY <1>0, <1>2, <2>1, <2>2
<1>5. ~Accepted(b) /\ cpc[b] # "away"
  BY <1>0, <1>3 DEF OnceInv
<1>6. \A i, j \in 0 .. cnt' - 1 : nsfd'[i + 1] = nsfd'[j + 1] => i = j
  <2>1. \A i \in 0 .. cnt' - 1 : i = cnt \/ i \in 0 .. cnt - 1
    BY <1>0, <1>1
  <2>2. \A i \in 0 .. cnt - 1 : nsfd[i + 1] # b
    BY <1>5 DEF Accepted
  <2>3. \A i, j \in 0 .. cnt - 1 : nsfd[i + 1] = nsfd[j + 1] => i = j
    BY <1>0 DEF OnceInv
  <2>4. QED  BY <1>4, <2>1, <2>2, <2>3
<1>7. cnt' \in Nat /\ Nobody \in Nat /\ cnt' <= Nobody /\ cnt \in Index
  <2>1. cnt' \in Nat /\ Nobody \in Nat /\ cnt' <= Nobody
    BY <1>4, <1>6, PoolDistinct
  <2>2. QED  BY <1>0, <1>1, <2>1 DEF Index
<1>8. /\ toClient' \in [Clients -> Seq(Pieces)] /\ fin' \in [Clients -> FinTypes]
      /\ \A d \in Clients : fin'[d] = "no" <=> fin[d] = "no"
      /\ \A d \in Clients : HasEnd(d)' => HasEnd(d)
  <2>1. Put(b, "num") /\ "num" \in Pieces
    BY <1>0, <1>2 DEF Pieces
  <2>2. QED  BY <1>0, <2>1, PoolPut
<1>9. TypeOK'
  <2>1. mi' \in 0 .. cnt' + 1 /\ ecnt' \in -1 .. cnt' - 1
    BY <1>0, <1>1 DEF TypeOK
  <2>2. flag' \in [Index -> {0, 1}]
    BY <1>0, <1>7 DEF TypeOK
  <2>3. QED  BY <1>0, <1>3, <1>4, <1>8, <2>1, <2>2 DEF TypeOK, Pieces, FinTypes
<1>10. \A c : Accepted(c)' <=> (Accepted(c) \/ c = b)
  <2>1. 0 .. cnt' - 1 = (0 .. cnt - 1) \union {cnt}
    BY <1>0, <1>1
  <2>2. QED  BY <1>4, <2>1 DEF Accepted
<1>11. OnceInv'
  <2>1. \A i, j \in DOMAIN backlog' : backlog'[i] = backlog'[j] => i = j
    <3> SUFFICES ASSUME NEW i \in DOMAIN backlog', NEW j \in DOMAIN backlog',
                        backlog'[i] = backlog'[j]
                 PROVE  i = j
      OBVIOUS
    <3>1. i + 1 = j + 1
      BY <1>0, <1>3 DEF OnceInv
    <3>2. QED  BY <1>3, <3>1
  <2>2. \A j \in DOMAIN backlog' : ~Accepted(backlog[j])' /\ cpc'[backlog'[j]] # "away"
    <3> SUFFICES ASSUME NEW j \in DOMAIN backlog'
                 PROVE  ~Accepted(backlog[j])' /\ cpc'[backlog'[j]] # "away"
      OBVIOUS
    <3>1. j \in Nat \ {0} /\ j + 1 \in DOMAIN backlog /\ backlog'[j] = backlog[j + 1]
      BY <1>3
    <3>2. ~Accepted(backlog[j + 1]) /\ cpc[backlog[j + 1]] # "away"
      BY <1>0, <3>1 DEF OnceInv
    <3>3. backlog[j + 1] # b
      <4>1. j + 1 # 1
        BY <3>1
      <4>2. QED  BY <1>0, <1>3, <3>1, <4>1 DEF OnceInv
    <3>4. ~Accepted(backlog[j])'
      <4>1. ~(Accepted(backlog[j + 1]) \/ backlog[j + 1] = b)
        BY <3>2, <3>3
      <4>2. \A i \in 0 .. cnt' - 1 : nsfd'[i + 1] # backlog[j + 1]
        BY <1>10, <4>1 DEF Accepted
      <4>3. QED  BY <3>1, <4>2 DEF Accepted
    <3>5. QED  BY <1>0, <3>1, <3>2, <3>4
  <2>3. \A c \in Clients : Accepted(c)' => cpc'[c] # "away"
    BY <1>0, <1>5, <1>10 DEF OnceInv
  <2>4. \A k \in DOMAIN echo' : Accepted(echo[k].client)'
    <3> SUFFICES ASSUME NEW k \in DOMAIN echo PROVE Accepted(echo[k].client)'
      BY <1>0
    <3>1. PICK c : c = echo[k].client
      OBVIOUS
    <3>2. Accepted(c)'
      BY <1>0, <1>10, <3>1 DEF OnceInv
    <3>3. QED  BY <1>0, <3>1, <3>2 DEF Accepted
  <2>5. QED  BY <1>0, <1>6, <2>1, <2>2, <2>3, <2>4 DEF OnceInv, Accepted
<1>12. \A c : Accepted(c) => Own(c)' = Own(c)
  <2> SUFFICES ASSUME NEW c, Accepted(c) PROVE Own(c)' = Own(c)
    OBVIOUS
  <2>1. PICK i \in 0 .. cnt - 1 : nsfd[i + 1] = c /\ Own(c) = i
    BY <1>0, PoolOwn DEF Accepted
  <2>2. i \in 0 .. cnt' - 1 /\ nsfd'[i + 1] = c
    BY <1>0, <1>1, <1>4, <2>1
  <2>3. (CHOOSE j \in 0 .. cnt' - 1 : nsfd'[j + 1] = nsfd'[i + 1]) = i
    BY <1>6, <1>7, <2>2, PoolPlace
  <2>4. QED  BY <2>1, <2>2, <2>3 DEF Own
<1>13. \A k \in DOMAIN echo : Own(echo[k].client)' = Own(echo[k].client)
  <2> SUFFICES ASSUME NEW k \in DOMAIN echo PROVE Own(echo[k].client)' = Own(echo[k].client)
    OBVIOUS
  <2>1. PICK c : c = echo[k].client
    OBVIOUS
  <2>2. Accepted(c)
    BY <1>0, <2>1 DEF OnceInv
  <2>3. PlaceIn(nsfd', cnt', c) = PlaceIn(nsfd, cnt, c)
    BY <1>12, <2>2 DEF Own, PlaceIn
  <2>4. Own(echo[k].client)' = PlaceIn(nsfd', cnt', echo'[k].client)
    BY DEF Own, PlaceIn
  <2>5. Own(echo[k].client) = PlaceIn(nsfd, cnt, echo[k].client)
    BY DEF Own, PlaceIn
  <2>6. QED  BY <1>0, <2>1, <2>3, <2>4, <2>5
<1>14. FlagInv'
  <2> SUFFICES ASSUME ~misread
               PROVE  /\ \A i \in 0 .. cnt' - 1 :
                           /\ \A k, l \in Busy(nsfd[i + 1])' : k = l
                           /\ flag'[i] = 1 <=> Busy(nsfd[i + 1])' # {}
                      /\ \A k \in DOMAIN echo : echo[k].no \in {-1, Own(echo[k].client)'}
    BY <1>0 DEF FlagInv
  <2>2. ASSUME NEW i \in 0 .. cnt' - 1
        PROVE  /\ \A k, l \in Busy(nsfd[i + 1])' : k = l
               /\ flag'[i] = 1 <=> Busy(nsfd[i + 1])' # {}
    <3>1. PICK c : c = nsfd'[i + 1]
      OBVIOUS
    <3>a. Busy(nsfd[i + 1])' = Busy(c)
      BY <1>0, <3>1 DEF Busy
    <3>2. CASE i = cnt
      <4>1. c = b /\ flag'[i] = 0
        BY <1>0, <1>4, <1>7, <3>1, <3>2 DEF TypeOK
      <4>2. Busy(c) = {}
        BY <1>0, <1>5, <4>1 DEF OnceInv, Busy
      <4>3. QED  BY <3>a, <4>1, <4>2
    <3>3. CASE i # cnt
      <4>1. i \in 0 .. cnt - 1
        BY <1>0, <1>1, <3>3
      <4>2. c = nsfd[i + 1] /\ i \in Index /\ flag'[i] = flag[i]
        BY <1>0, <1>1, <1>4, <1>7, <3>1, <3>3, <4>1 DEF Index, TypeOK
      <4>3. /\ \A k, l \in Busy(c) : k = l
            /\ flag[i] = 1 <=> Busy(c) # {}
        BY <4>1, <4>2 DEF PoolIInv, FlagInv
      <4>4. QED  BY <3>a, <4>2, <4>3
    <3>4. QED  BY <3>2, <3>3
  <2>3. \A k \in DOMAIN echo : echo[k].no \in {-1, Own(echo[k].client)'}
    BY <1>0, <1>13 DEF PoolIInv, FlagInv
  <2>4. QED  BY <2>2, <2>3
<1>15. WrongOnlyShared'
  <2>1. ASSUME NEW k \in DOMAIN echo
        PROVE  \/ echo'[k].no \in {-1, Own(echo[k].client)'} \/ fin'[echo'[k].client] # "no"
               \/ \E j \in DOMAIN echo' \ {k} : echo'[j].client = echo'[k].client
    <3>1. \/ echo[k].no \in {-1, Own(echo[k].client)} \/ fin[echo[k].client] # "no"
          \/ \E j \in DOMAIN echo \ {k} : echo[j].client = echo[k].client
      BY DEF PoolIInv, WrongOnlyShared
    <3>2. echo[k].client \in Clients
      BY <1>0, PoolEchoes
    <3>3. QED  BY <1>0, <1>8, <1>13, <3>1, <3>2
  <2>2. QED  BY <1>0, <2>1 DEF WrongOnlyShared
<1>16. NumberInv'
  <2> SUFFICES ASSUME NEW d \in Clients PROVE NumberOf(d)'
    BY DEF NumberInv
  <2>1. NumberOf(d) /\ (Fresh(d)' => Fresh(d))
    BY <1>0 DEF PoolIInv, NumberInv, Fresh
  <2>2. QED  BY <1>0, <1>8, <2>1, PoolNumberFrame
<1>17. LoopInv' /\ EchoInv' /\ DiesForAReason'
  BY <1>0 DEF PoolIInv, LoopInv, EchoInv, DiesForAReason
<1>18. GoneInv'
  BY <1>0, <1>8, PoolGoneFrame DEF PoolIInv
<1>19. QED  BY <1>9, <1>11, <1>14, <1>15, <1>16, <1>17, <1>18 DEF PoolIInv

LEMMA PoolPoll ==
  ASSUME PoolAssumption, PoolIInv, NEW k, Poll(k)
  PROVE  PoolIInv'
<1>0. /\ TypeOK /\ mpc' = "test" /\ mi' = 0 /\ said < MaxLines /\ said' = said + 1
      /\ nsfd' = nsfd /\ cnt' = cnt /\ ecnt' = ecnt /\ flag' = flag /\ pending' = pending
      /\ sent' = sent /\ backlog' = backlog /\ echo' = echo /\ toClient' = toClient
      /\ toServer' = toServer /\ fin' = fin /\ cpc' = cpc /\ misread' = misread /\ deaf' = deaf
  BY DEF Poll, PoolIInv, streamVars, history
<1>1. cnt \in Nat
  BY <1>0, PoolNumbers DEF PoolIInv
<1>2. TypeOK'
  <2>1. said' \in 0 .. MaxLines /\ mi' \in 0 .. cnt' + 1
    BY <1>0, <1>1 DEF TypeOK, PoolAssumption
  <2>2. QED  BY <1>0, <2>1 DEF TypeOK
<1>3. LoopInv' /\ DiesForAReason'
  BY <1>0, <1>1 DEF LoopInv, DiesForAReason
<1>4. OnceInv' /\ GoneInv' /\ EchoInv' /\ FlagInv' /\ NumberInv' /\ WrongOnlyShared'
  BY <1>0, PoolSame, PoolMainFrame
<1>5. QED  BY <1>2, <1>3, <1>4 DEF PoolIInv

LEMMA PoolPassEnds ==
  ASSUME PoolAssumption, PoolIInv, PassEnds
  PROVE  PoolIInv'
<1>0. /\ TypeOK /\ mpc' = "select" /\ mi' = 0
      /\ nsfd' = nsfd /\ cnt' = cnt /\ ecnt' = ecnt /\ flag' = flag /\ pending' = pending
      /\ sent' = sent /\ said' = said /\ backlog' = backlog /\ echo' = echo
      /\ toClient' = toClient /\ toServer' = toServer /\ fin' = fin /\ cpc' = cpc
      /\ misread' = misread /\ deaf' = deaf
  BY DEF PassEnds, PoolIInv, inputVars, streamVars, history
<1>1. cnt \in Nat
  BY <1>0, PoolNumbers DEF PoolIInv
<1>2. TypeOK'
  BY <1>0, <1>1 DEF TypeOK
<1>3. LoopInv' /\ DiesForAReason'
  BY <1>0 DEF LoopInv, DiesForAReason
<1>4. OnceInv' /\ GoneInv' /\ EchoInv' /\ FlagInv' /\ NumberInv' /\ WrongOnlyShared'
  BY <1>0, PoolSame, PoolMainFrame
<1>5. QED  BY <1>2, <1>3, <1>4 DEF PoolIInv

LEMMA PoolTest ==
  ASSUME PoolAssumption, PoolIInv, Test
  PROVE  PoolIInv'
<1>0. /\ TypeOK /\ mpc = "test"
      /\ nsfd' = nsfd /\ cnt' = cnt /\ ecnt' = ecnt /\ flag' = flag /\ pending' = pending
      /\ sent' = sent /\ said' = said /\ backlog' = backlog /\ echo' = echo
      /\ toClient' = toClient /\ toServer' = toServer /\ fin' = fin /\ cpc' = cpc
      /\ misread' = misread /\ deaf' = deaf
  BY DEF Test, PoolIInv, inputVars, streamVars, history
<1>1. \/ mi < cnt /\ mpc' = "send" /\ mi' = mi
      \/ mi < cnt /\ mi' = mi + 1 /\ mpc' = "test"
      \/ mi >= cnt /\ mpc' = "poll" /\ mi' = mi + 1
  BY <1>0 DEF Test, AfterRelay
<1>2. cnt \in Nat /\ mi \in 0 .. cnt
  <2>1. cnt \in Nat
    BY <1>0, PoolNumbers DEF PoolIInv
  <2>2. QED  BY <1>0, <2>1 DEF PoolIInv, TypeOK, LoopInv
<1>3. TypeOK'
  <2>1. mi' \in 0 .. cnt' + 1 /\ mpc' \in {"select", "poll", "test", "send", "dead"}
    BY <1>0, <1>1, <1>2
  <2>2. QED  BY <1>0, <2>1 DEF TypeOK
<1>4. LoopInv' /\ DiesForAReason'
  BY <1>0, <1>1, <1>2 DEF LoopInv, DiesForAReason
<1>5. OnceInv' /\ GoneInv' /\ EchoInv' /\ FlagInv' /\ NumberInv' /\ WrongOnlyShared'
  BY <1>0, PoolSame, PoolMainFrame
<1>6. QED  BY <1>3, <1>4, <1>5 DEF PoolIInv

LEMMA PoolRelay ==
  ASSUME PoolAssumption, PoolIInv, Relay
  PROVE  PoolIInv'
<1>0. /\ TypeOK /\ mpc = "send" /\ mi' = mi + 1 /\ Put(nsfd[mi + 1], "news")
      /\ mpc' = IF Broken(nsfd[mi + 1]) THEN "dead" ELSE "test"
      /\ nsfd' = nsfd /\ cnt' = cnt /\ ecnt' = ecnt /\ flag' = flag /\ pending' = pending
      /\ sent' = sent /\ said' = said /\ backlog' = backlog /\ echo' = echo
      /\ toServer' = toServer /\ cpc' = cpc /\ misread' = misread /\ deaf' = deaf
  BY DEF Relay, PoolIInv, inputVars, history
<1>1. cnt \in Nat /\ mi \in 0 .. cnt - 1
  <2>1. cnt \in Nat
    BY <1>0, PoolNumbers DEF PoolIInv
  <2>2. QED  BY <1>0, <2>1 DEF PoolIInv, TypeOK, LoopInv
<1>2. PICK c \in Clients : c = nsfd[mi + 1]
  BY <1>0, <1>1, PoolOwn DEF PoolIInv
<1>3. /\ toClient' \in [Clients -> Seq(Pieces)] /\ fin' \in [Clients -> FinTypes]
      /\ \A d \in Clients : fin'[d] = "no" <=> fin[d] = "no"
      /\ \A d \in Clients : fin[d] = "reset" => fin'[d] = "reset"
      /\ \A d \in Clients : HasEnd(d)' => HasEnd(d)
  <2>1. Put(c, "news") /\ "news" \in Pieces
    BY <1>0, <1>2 DEF Pieces
  <2>2. QED  BY <1>0, <2>1, PoolPut
<1>4. TypeOK'
  <2>1. mi' \in 0 .. cnt' + 1 /\ mpc' \in {"select", "poll", "test", "send", "dead"}
    BY <1>0, <1>1
  <2>2. QED  BY <1>0, <1>3, <2>1 DEF TypeOK, Pieces, FinTypes
<1>5. LoopInv'
  <2>1. mpc' \in {"dead", "test"} /\ mi' <= cnt'
    BY <1>0, <1>1
  <2>2. QED  BY <2>1 DEF LoopInv
<1>6. DiesForAReason'
  <2>1. mpc' = "dead" => fin[c] = "reset"
    BY <1>0, <1>2 DEF Broken
  <2>2. QED  BY <1>3, <2>1 DEF DiesForAReason, Broken
<1>7. OnceInv' /\ GoneInv' /\ EchoInv' /\ FlagInv' /\ NumberInv' /\ WrongOnlyShared'
  BY <1>0, <1>3, PoolMainFrame
<1>8. QED  BY <1>4, <1>5, <1>6, <1>7 DEF PoolIInv

-----------------------------------------------------------------------------
(* The handler of SIGUSR1, and signal.c *)

LEMMA PoolTurn ==
  ASSUME NEW n \in Nat \ {0}, NEW e \in -1 .. n - 1
  PROVE  (e + 1) % n \in 0 .. n - 1
OBVIOUS

\* The handler does not start an echo server, or it dies.
LEMMA PoolHandlerRests ==
  ASSUME PoolAssumption, PoolIInv, Handler, UNCHANGED <<flag, echo>>
  PROVE  PoolIInv'
<1>0. /\ TypeOK /\ OnceInv /\ pending' = FALSE /\ mpc # "dead"
      /\ mi' = mi /\ nsfd' = nsfd /\ cnt' = cnt /\ flag' = flag
      /\ sent' = sent /\ said' = said /\ backlog' = backlog /\ echo' = echo
      /\ toClient' = toClient /\ toServer' = toServer /\ fin' = fin /\ cpc' = cpc
      /\ misread' = misread /\ deaf' = deaf
  BY DEF Handler, PoolIInv, streamVars, history
<1>1. \/ cnt = 0 /\ mpc' = "dead" /\ ecnt' = ecnt
      \/ cnt > 0 /\ ecnt' = (ecnt + 1) % cnt /\ mpc' = mpc
  BY DEF Handler, NextTurn
<1>2. cnt \in Nat
  BY <1>0, PoolNumbers
<1>3. ecnt' \in -1 .. cnt - 1
  <2>1. ecnt \in -1 .. cnt - 1
    BY <1>0 DEF TypeOK
  <2>2. CASE cnt > 0
    <3>1. cnt \in Nat \ {0} /\ ecnt' = (ecnt + 1) % cnt
      BY <1>1, <1>2, <2>2
    <3>2. (ecnt + 1) % cnt \in 0 .. cnt - 1
      BY <2>1, <3>1, PoolTurn
    <3>3. QED  BY <1>2, <3>1, <3>2
  <2>3. CASE ~(cnt > 0)
    BY <1>1, <2>1, <2>3
  <2>4. QED  BY <2>2, <2>3
<1>4. mpc' \in {mpc, "dead"} /\ (mpc' = "dead" => cnt' = 0)
  BY <1>0, <1>1
<1>5. TypeOK'
  <2>1. pending' \in BOOLEAN
    BY <1>0
  <2>2. mpc' \in {"select", "poll", "test", "send", "dead"}
    BY <1>0, <1>4 DEF TypeOK
  <2>3. QED  BY <1>0, <1>3, <2>1, <2>2 DEF TypeOK
<1>6. LoopInv' /\ DiesForAReason'
  BY <1>0, <1>4 DEF PoolIInv, LoopInv, DiesForAReason
<1>7. OnceInv' /\ GoneInv' /\ EchoInv' /\ FlagInv' /\ NumberInv' /\ WrongOnlyShared'
  BY <1>0, PoolSame, PoolMainFrame
<1>8. QED  BY <1>5, <1>6, <1>7 DEF PoolIInv

\* The handler starts the echo server of client t.
LEMMA PoolForks ==
  ASSUME PoolAssumption, PoolIInv, NEW t \in 0 .. cnt - 1, flag[t] = 0, Claim(t), Fork(t),
         ecnt' = t, pending' = FALSE,
         UNCHANGED <<mpc, mi, nsfd, cnt, sent, said, backlog, toClient, toServer, fin, cpc,
                     misread, deaf>>
  PROVE  PoolIInv'
<1>0. /\ TypeOK /\ OnceInv /\ flag' = [flag EXCEPT ![t] = 1]
      /\ echo' = Append(echo, [client |-> nsfd[t + 1], pc |-> "hello",
                               left |-> Rounds, no |-> -1])
      /\ mpc' = mpc /\ mi' = mi /\ nsfd' = nsfd /\ cnt' = cnt /\ sent' = sent /\ said' = said
      /\ backlog' = backlog /\ toClient' = toClient /\ toServer' = toServer /\ fin' = fin
      /\ cpc' = cpc /\ misread' = misread /\ deaf' = deaf
  BY DEF PoolIInv, Claim, Fork
<1>1. cnt \in Nat /\ Nobody \in Nat /\ cnt <= Nobody /\ t \in Index /\ Rounds \in Nat \ {0}
  <2>1. cnt \in Nat /\ Nobody \in Nat /\ cnt <= Nobody
    BY <1>0, PoolNumbers
  <2>2. QED  BY <2>1 DEF Index, PoolAssumption
<1>2. PICK c \in Clients : c = nsfd[t + 1] /\ Accepted(c)
  BY <1>0, PoolOwn DEF Accepted
<1>3. PICK r \in EchoServers :
        r = [client |-> c, pc |-> "hello", left |-> Rounds, no |-> -1]
  <2>1. Rounds \in 0 .. Rounds /\ -1 \in -1 .. Nobody
    BY <1>1
  <2>2. [client |-> c, pc |-> "hello", left |-> Rounds, no |-> -1] \in EchoServers
    BY <2>1 DEF EchoServers
  <2>3. QED  BY <2>2
<1>4. /\ r.client = c /\ r.pc = "hello" /\ r.left > 0 /\ r.no = -1
  BY <1>1, <1>3
<1>5. PICK n \in Nat : n = Len(echo)
  BY <1>0 DEF TypeOK
<1>6. /\ echo' \in Seq(EchoServers) /\ DOMAIN echo = 1 .. n /\ DOMAIN echo' = 1 .. n + 1
      /\ echo'[n + 1] = r /\ \A k \in DOMAIN echo : echo'[k] = echo[k]
  <2>1. echo \in Seq(EchoServers)
    BY <1>0 DEF TypeOK, EchoServers
  <2>2. echo' = Append(echo, r)
    BY <1>0, <1>2, <1>3
  <2>3. /\ Append(echo, r) \in Seq(EchoServers) /\ DOMAIN echo = 1 .. n
        /\ DOMAIN Append(echo, r) = 1 .. n + 1 /\ Append(echo, r)[n + 1] = r
        /\ \A k \in 1 .. n : Append(echo, r)[k] = echo[k]
    BY <1>5, <2>1, PoolAppend
  <2>4. QED  BY <2>2, <2>3
<1>7. \A k \in DOMAIN echo' : k \in DOMAIN echo \/ k = n + 1
  BY <1>6
<1>8. n + 1 \in DOMAIN echo' /\ n + 1 \notin DOMAIN echo /\ DOMAIN echo \subseteq DOMAIN echo'
  BY <1>6
<1>9. TypeOK'
  <2>1. flag' \in [Index -> {0, 1}] /\ ecnt' \in -1 .. cnt' - 1
    BY <1>0, <1>1 DEF TypeOK
  <2>2. pending' \in BOOLEAN
    OBVIOUS
  <2>3. QED  BY <1>0, <1>6, <2>1, <2>2 DEF TypeOK, EchoServers
<1>10. LoopInv' /\ GoneInv' /\ DiesForAReason'
  BY <1>0 DEF PoolIInv, LoopInv, GoneInv, DiesForAReason, Broken
<1>11. EchoInv'
  <2> SUFFICES ASSUME NEW k \in DOMAIN echo'
               PROVE  /\ echo'[k].pc \in {"hello", "number"} => echo'[k].no = -1
                      /\ echo'[k].pc \in {"read", "write", "end", "free", "bye", "gone"}
                           => echo'[k].no # -1
                      /\ echo'[k].pc \in {"hello", "number", "read", "write"}
                           => echo'[k].left > 0
    BY DEF EchoInv
  <2>1. CASE k \in DOMAIN echo
    BY <1>6, <2>1 DEF PoolIInv, EchoInv
  <2>2. CASE k = n + 1
    BY <1>4, <1>6, <2>2
  <2>3. QED  BY <1>7, <2>1, <2>2
<1>12. OnceInv'
  <2>1. \A d : Accepted(d)' <=> Accepted(d)
    BY <1>0 DEF Accepted
  <2>2. \A k \in DOMAIN echo' : Accepted(echo'[k].client)
    BY <1>0, <1>2, <1>4, <1>6, <1>7 DEF OnceInv
  <2>3. \A k \in DOMAIN echo' : \E i \in 0 .. cnt' - 1 : nsfd'[i + 1] = echo'[k].client
    BY <1>0, <2>2 DEF Accepted
  <2>4. \A j \in DOMAIN backlog' : ~Accepted(backlog[j])' /\ cpc'[backlog'[j]] # "away"
    BY <1>0 DEF OnceInv, Accepted
  <2>5. \A d \in Clients : Accepted(d)' => cpc'[d] # "away"
    BY <1>0, <2>1 DEF OnceInv
  <2>6. /\ \A i, j \in 0 .. cnt' - 1 : nsfd'[i + 1] = nsfd'[j + 1] => i = j
        /\ \A i, j \in DOMAIN backlog' : backlog'[i] = backlog'[j] => i = j
    BY <1>0 DEF OnceInv
  <2>7. \A k \in DOMAIN echo' : Accepted(echo[k].client)'
    BY <2>3 DEF Accepted
  <2>8. QED  BY <2>4, <2>5, <2>6, <2>7 DEF OnceInv
<1>13. \A d : Fresh(d)' => Fresh(d)
  BY <1>6, <1>8 DEF Fresh
<1>14. NumberInv'
  <2> SUFFICES ASSUME NEW d \in Clients PROVE NumberOf(d)'
    BY DEF NumberInv
  <2>1. NumberOf(d) /\ (HasEnd(d)' => HasEnd(d))
    BY <1>0 DEF PoolIInv, NumberInv, HasEnd
  <2>2. QED  BY <1>0, <1>13, <2>1, PoolNumberFrame
<1>15. \A k \in DOMAIN echo : Own(echo[k].client)' = Own(echo[k].client)
  BY <1>0, <1>6 DEF Own
<1>16. WrongOnlyShared'
  <2> SUFFICES ASSUME NEW k \in DOMAIN echo'
               PROVE  \/ echo'[k].no \in {-1, Own(echo[k].client)'} \/ fin'[echo'[k].client] # "no"
                      \/ \E j \in DOMAIN echo' \ {k} : echo'[j].client = echo'[k].client
    BY DEF WrongOnlyShared
  <2>1. CASE k \in DOMAIN echo
    <3>1. \/ echo[k].no \in {-1, Own(echo[k].client)} \/ fin[echo[k].client] # "no"
          \/ \E j \in DOMAIN echo \ {k} : echo[j].client = echo[k].client
      BY <2>1 DEF PoolIInv, WrongOnlyShared
    <3>2. QED  BY <1>0, <1>6, <1>8, <1>15, <2>1, <3>1
  <2>2. CASE k = n + 1
    BY <1>4, <1>6, <2>2
  <2>3. QED  BY <1>7, <2>1, <2>2
<1>17. FlagInv'
  <2> SUFFICES ASSUME ~misread'
               PROVE  /\ \A i \in 0 .. cnt' - 1 :
                           /\ \A k, l \in Busy(nsfd[i + 1])' : k = l
                           /\ flag'[i] = 1 <=> Busy(nsfd[i + 1])' # {}
                      /\ \A k \in DOMAIN echo' : echo'[k].no \in {-1, Own(echo[k].client)'}
    BY DEF FlagInv
  <2>0. ~misread /\ FlagInv
    BY <1>0 DEF PoolIInv
  <2>1. ASSUME NEW i \in 0 .. cnt' - 1
        PROVE  /\ \A k, l \in Busy(nsfd[i + 1])' : k = l
               /\ flag'[i] = 1 <=> Busy(nsfd[i + 1])' # {}
    <3>1. PICK d : d = nsfd[i + 1]
      OBVIOUS
    <3>2. Busy(nsfd[i + 1])' = {k \in DOMAIN echo' : echo'[k].client = d
                                                      /\ echo'[k].pc \notin {"bye", "gone"}}
      BY <1>0, <3>1 DEF Busy
    <3>3. /\ \A k, l \in Busy(d) : k = l
          /\ flag[i] = 1 <=> Busy(d) # {}
      <4>1. i \in 0 .. cnt - 1
        BY <1>0
      <4>2. QED  BY <2>0, <3>1, <4>1 DEF FlagInv
    <3>4. CASE i = t
      <4>1. Busy(d) = {} /\ d = c /\ flag'[i] = 1
        BY <1>0, <1>1, <1>2, <3>1, <3>3, <3>4 DEF TypeOK
      <4>2. \A k \in DOMAIN echo : ~(echo[k].client = d /\ echo[k].pc \notin {"bye", "gone"})
        BY <4>1 DEF Busy
      <4>3. Busy(nsfd[i + 1])' = {n + 1}
        BY <1>4, <1>6, <1>7, <1>8, <3>2, <4>1, <4>2
      <4>4. QED  BY <4>1, <4>3
    <3>5. CASE i # t
      <4>1. d # c
        BY <1>0, <1>2, <3>1, <3>5 DEF OnceInv
      <4>2. i \in Index /\ flag'[i] = flag[i]
        BY <1>0, <1>1, <3>5 DEF TypeOK, Index
      <4>3. \A k \in DOMAIN echo' :
              (echo'[k].client = d /\ echo'[k].pc \notin {"bye", "gone"}) <=> k \in Busy(d)
        <5> SUFFICES ASSUME NEW k \in DOMAIN echo'
                     PROVE  (echo'[k].client = d /\ echo'[k].pc \notin {"bye", "gone"})
                              <=> k \in Busy(d)
          OBVIOUS
        <5>1. CASE k \in DOMAIN echo
          BY <1>6, <5>1 DEF Busy
        <5>2. CASE k = n + 1
          BY <1>4, <1>6, <1>8, <4>1, <5>2 DEF Busy
        <5>3. QED  BY <1>7, <5>1, <5>2
      <4>4. Busy(d) \subseteq DOMAIN echo'
        BY <1>8 DEF Busy
      <4>5. Busy(nsfd[i + 1])' = Busy(d)
        BY <3>2, <4>3, <4>4
      <4>6. QED  BY <3>3, <4>2, <4>5
    <3>6. QED  BY <3>4, <3>5
  <2>2. ASSUME NEW k \in DOMAIN echo' PROVE echo'[k].no \in {-1, Own(echo[k].client)'}
    <3>1. CASE k \in DOMAIN echo
      BY <1>6, <1>15, <2>0, <3>1 DEF FlagInv
    <3>2. CASE k = n + 1
      BY <1>4, <1>6, <3>2
    <3>3. QED  BY <1>7, <3>1, <3>2
  <2>3. QED  BY <2>1, <2>2
<1>18. QED  BY <1>9, <1>10, <1>11, <1>12, <1>14, <1>16, <1>17 DEF PoolIInv

LEMMA PoolHandler ==
  ASSUME PoolAssumption, PoolIInv, Handler
  PROVE  PoolIInv'
<1>1. CASE UNCHANGED <<flag, echo>>
  BY <1>1, PoolHandlerRests
<1>2. CASE ~(UNCHANGED <<flag, echo>>)
  <2>1. /\ cnt > 0 /\ ecnt' = (ecnt + 1) % cnt /\ flag[ecnt'] = 0 /\ Claim(ecnt') /\ Fork(ecnt')
        /\ pending' = FALSE
        /\ UNCHANGED <<mpc, mi, nsfd, cnt, sent, said, backlog, toClient, toServer, fin, cpc,
                       misread, deaf>>
    BY <1>2 DEF Handler, NextTurn, streamVars, history
  <2>2. cnt \in Nat /\ ecnt \in -1 .. cnt - 1
    BY PoolNumbers DEF PoolIInv, TypeOK
  <2>3. cnt \in Nat \ {0}
    BY <2>1, <2>2
  <2>4. ecnt' \in 0 .. cnt - 1
    BY <2>1, <2>2, <2>3, PoolTurn
  <2>5. PICK t \in 0 .. cnt - 1 : t = ecnt'
    BY <2>4
  <2>6. flag[t] = 0 /\ Claim(t) /\ Fork(t)
    BY <2>1, <2>5
  <2>7. QED  BY <2>1, <2>5, <2>6, PoolForks
<1>3. QED  BY <1>1, <1>2

LEMMA PoolSignal ==
  ASSUME PoolAssumption, PoolIInv, Signal
  PROVE  PoolIInv'
<1>0. /\ TypeOK /\ Happened < MaxEvents /\ sent' = sent + 1 /\ pending' = TRUE
      /\ mpc' = mpc /\ mi' = mi /\ nsfd' = nsfd /\ cnt' = cnt /\ ecnt' = ecnt /\ flag' = flag
      /\ said' = said /\ backlog' = backlog /\ echo' = echo /\ toClient' = toClient
      /\ toServer' = toServer /\ fin' = fin /\ cpc' = cpc /\ misread' = misread /\ deaf' = deaf
  BY DEF Signal, PoolIInv, mainVars, streamVars, history
<1>1. sent' \in 0 .. MaxEvents
  <2> DEFINE S == {c \in Clients : fin[c] # "no"}
             n == Cardinality(S)
  <2>1. IsFiniteSet(S)
    BY FS_Subset DEF PoolAssumption
  <2>2. n \in Nat
    BY <2>1, FS_CardinalityType
  <2>3. sent + n < MaxEvents
    BY <1>0 DEF Happened
  <2> HIDE DEF n
  <2>4. sent \in Nat /\ MaxEvents \in Nat
    BY <1>0 DEF TypeOK, PoolAssumption
  <2>5. QED  BY <1>0, <2>2, <2>3, <2>4
<1>2. TypeOK'
  <2>1. pending' \in BOOLEAN
    BY <1>0
  <2>2. QED  BY <1>0, <1>1, <2>1 DEF TypeOK
<1>3. LoopInv' /\ DiesForAReason'
  BY <1>0 DEF PoolIInv, LoopInv, DiesForAReason, Broken
<1>4. OnceInv' /\ GoneInv' /\ EchoInv' /\ FlagInv' /\ NumberInv' /\ WrongOnlyShared'
  BY <1>0, PoolSame, PoolMainFrame
<1>5. QED  BY <1>2, <1>3, <1>4 DEF PoolIInv

-----------------------------------------------------------------------------
(* Echo servers *)

\* What EchoInv says of one echo server.
EchoOf(r) ==
  /\ r.pc \in {"hello", "number"} => r.no = -1
  /\ r.pc \in {"read", "write", "end", "free", "bye", "gone"} => r.no # -1
  /\ r.pc \in {"hello", "number", "read", "write"} => r.left > 0

LEMMA PoolMoves ==
  ASSUME TypeOK, NEW k \in DOMAIN echo, NEW r \in EchoServers, echo' = [echo EXCEPT ![k] = r]
  PROVE  /\ echo' \in Seq(EchoServers) /\ DOMAIN echo' = DOMAIN echo /\ echo'[k] = r
         /\ \A j \in DOMAIN echo : j # k => echo'[j] = echo[j]
<1>1. echo \in Seq(EchoServers)
  BY DEF TypeOK, EchoServers
<1>2. QED  BY <1>1, PoolExcept

\* An echo server takes a step with which it learns no number.
LEMMA PoolEchoFrame ==
  ASSUME PoolAssumption, PoolIInv, NEW k \in DOMAIN echo, NEW r \in EchoServers,
         r.client = echo[k].client, r.no = echo[k].no, EchoOf(r),
         echo' = [echo EXCEPT ![k] = r],
         UNCHANGED <<mpc, mi, nsfd, cnt, backlog, cpc, misread>>,
         \A d \in Clients : fin'[d] = "no" <=> fin[d] = "no",
         \A d \in Clients : fin[d] = "reset" => fin'[d] = "reset"
  PROVE  /\ LoopInv' /\ OnceInv' /\ GoneInv' /\ EchoInv' /\ WrongOnlyShared' /\ DiesForAReason'
         /\ \A d : Fresh(d)' <=> Fresh(d)
         /\ ~misread => \A j \in DOMAIN echo' : echo'[j].no \in {-1, Own(echo[j].client)'}
<1>0. TypeOK /\ OnceInv
  BY DEF PoolIInv
<1>1. /\ echo' \in Seq(EchoServers) /\ DOMAIN echo' = DOMAIN echo /\ echo'[k] = r
      /\ \A j \in DOMAIN echo : j # k => echo'[j] = echo[j]
  BY <1>0, PoolMoves
<1>2. \A j \in DOMAIN echo : echo'[j].client = echo[j].client /\ echo'[j].no = echo[j].no
  BY <1>1
<1>3. LoopInv' /\ DiesForAReason'
  BY DEF PoolIInv, LoopInv, DiesForAReason, Broken
<1>4. OnceInv'
  BY <1>0, <1>1, <1>2, PoolOnceFrame
<1>5. GoneInv'
  BY PoolGoneFrame DEF PoolIInv
<1>6. EchoInv'
  <2> SUFFICES ASSUME NEW j \in DOMAIN echo' PROVE EchoOf(echo'[j])
    BY DEF EchoInv, EchoOf
  <2>1. CASE j = k
    BY <1>1, <2>1
  <2>2. CASE j # k
    BY <1>1, <2>2 DEF PoolIInv, EchoInv, EchoOf
  <2>3. QED  BY <2>1, <2>2
<1>7. WrongOnlyShared'
  <2>1. \A j \in DOMAIN echo : echo[j].client \in Clients
    BY <1>0, PoolEchoes
  <2>2. QED  BY <1>1, <1>2, <2>1, PoolWrongFrame DEF PoolIInv
<1>8. \A d : Fresh(d)' <=> Fresh(d)
  BY <1>1, <1>2 DEF Fresh
<1>9. ASSUME ~misread, NEW j \in DOMAIN echo'
      PROVE  echo'[j].no \in {-1, Own(echo[j].client)'}
  <2>1. echo[j].no \in {-1, Own(echo[j].client)}
    BY <1>1, <1>9 DEF PoolIInv, FlagInv
  <2>2. echo'[j].client = echo[j].client /\ echo'[j].no = echo[j].no
    BY <1>1, <1>2, <1>9
  <2>3. Own(echo[j].client)' = Own(echo[j].client)
    BY <2>2 DEF Own
  <2>4. QED  BY <2>1, <2>2, <2>3
<1>10. QED  BY <1>3, <1>4, <1>5, <1>6, <1>7, <1>8, <1>9

\* It sends something to its client.
LEMMA PoolWrites ==
  ASSUME PoolAssumption, PoolIInv, NEW k \in DOMAIN echo, NEW r \in EchoServers,
         r.client = echo[k].client, r.no = echo[k].no, EchoOf(r),
         r.pc \in {"bye", "gone"} <=> echo[k].pc \in {"bye", "gone"},
         NEW m \in Pieces, m = "end" => r.no # -1, Put(echo[k].client, m),
         echo' = [echo EXCEPT ![k] = r],
         UNCHANGED <<mpc, mi, nsfd, cnt, ecnt, flag, pending, sent, said, backlog, toServer,
                     cpc, misread, deaf>>
  PROVE  PoolIInv'
<1>0. TypeOK /\ OnceInv
  BY DEF PoolIInv
<1>1. PICK c \in Clients : c = echo[k].client
  BY <1>0, PoolEchoes
<1>2. /\ toClient' \in [Clients -> Seq(Pieces)] /\ fin' \in [Clients -> FinTypes]
      /\ \A d \in Clients : fin'[d] = "no" <=> fin[d] = "no"
      /\ \A d \in Clients : fin[d] = "reset" => fin'[d] = "reset"
      /\ \A d \in Clients : d # c \/ m # "end" => (HasEnd(d)' => HasEnd(d))
  <2>1. Put(c, m)
    BY <1>1
  <2>2. QED  BY <1>0, <2>1, PoolPut
<1>3. /\ echo' \in Seq(EchoServers) /\ DOMAIN echo' = DOMAIN echo /\ echo'[k] = r
      /\ \A j \in DOMAIN echo : j # k => echo'[j] = echo[j]
  BY <1>0, PoolMoves
<1>4. /\ LoopInv' /\ OnceInv' /\ GoneInv' /\ EchoInv' /\ WrongOnlyShared' /\ DiesForAReason'
      /\ \A d : Fresh(d)' <=> Fresh(d)
      /\ ~misread => \A j \in DOMAIN echo' : echo'[j].no \in {-1, Own(echo[j].client)'}
  BY <1>2, PoolEchoFrame
<1>5. TypeOK'
  BY <1>0, <1>2, <1>3 DEF TypeOK, EchoServers, Pieces, FinTypes
<1>6. NumberInv'
  <2> SUFFICES ASSUME NEW d \in Clients PROVE NumberOf(d)'
    BY DEF NumberInv
  <2>1. NumberOf(d)
    BY DEF PoolIInv, NumberInv
  <2>2. CASE d # c \/ m # "end"
    BY <1>2, <1>4, <2>1, <2>2, PoolNumberFrame
  <2>3. CASE d = c /\ m = "end"
    <3>1. ~Fresh(d)
      BY <1>1, <2>3 DEF Fresh
    <3>2. QED  BY <1>4, <3>1 DEF NumberOf
  <2>4. QED  BY <2>2, <2>3
<1>7. FlagInv'
  <2> SUFFICES ASSUME ~misread'
               PROVE  /\ \A i \in 0 .. cnt' - 1 :
                           /\ \A j, l \in Busy(nsfd[i + 1])' : j = l
                           /\ flag'[i] = 1 <=> Busy(nsfd[i + 1])' # {}
                      /\ \A j \in DOMAIN echo' : echo'[j].no \in {-1, Own(echo[j].client)'}
    BY DEF FlagInv
  <2>0. ~misread /\ FlagInv
    BY DEF PoolIInv
  <2>1. ASSUME NEW i \in 0 .. cnt' - 1
        PROVE  /\ \A j, l \in Busy(nsfd[i + 1])' : j = l
               /\ flag'[i] = 1 <=> Busy(nsfd[i + 1])' # {}
    <3>1. \A j \in DOMAIN echo :
            /\ echo'[j].client = echo[j].client
            /\ echo'[j].pc \in {"bye", "gone"} <=> echo[j].pc \in {"bye", "gone"}
      BY <1>3
    <3>2. Busy(nsfd[i + 1])' = Busy(nsfd[i + 1])
      BY <1>3, <3>1 DEF Busy
    <3>3. i \in 0 .. cnt - 1 /\ flag' = flag
      OBVIOUS
    <3>4. QED  BY <2>0, <3>2, <3>3 DEF FlagInv
  <2>2. QED  BY <1>4, <2>0, <2>1
<1>8. QED  BY <1>4, <1>5, <1>6, <1>7 DEF PoolIInv

LEMMA PoolEchoWrites ==
  ASSUME PoolAssumption, PoolIInv, NEW k \in DOMAIN echo, NEW m \in Pieces,
         NEW pc \in {"number", "free", "gone"}, NEW pd \in {pc, "dead"},
         \/ echo[k].pc = "hello" /\ pc = "number" /\ m # "end"
         \/ echo[k].pc = "end" /\ pc = "free"
         \/ echo[k].pc = "bye" /\ pc = "gone" /\ pd = pc /\ m # "end",
         Put(echo[k].client, m), Goes(k, pd),
         UNCHANGED <<mpc, mi, nsfd, cnt, ecnt, flag, pending, sent, said, backlog, toServer,
                     cpc, misread, deaf>>
  PROVE  PoolIInv'
<1>1. PICK e \in EchoServers : e = echo[k]
  BY PoolEchoes DEF PoolIInv
<1>2. PICK r \in EchoServers : r = [e EXCEPT !.pc = pd]
  BY DEF EchoServers
<1>3. r.client = e.client /\ r.no = e.no /\ r.left = e.left /\ r.pc = pd
  BY <1>1, <1>2 DEF EchoServers
<1>4. EchoOf(e)
  BY <1>1 DEF PoolIInv, EchoInv, EchoOf
<1>5. EchoOf(r) /\ (r.pc \in {"bye", "gone"} <=> e.pc \in {"bye", "gone"})
                /\ (m = "end" => r.no # -1)
  BY <1>1, <1>3, <1>4 DEF EchoOf
<1>6. echo' = [echo EXCEPT ![k] = r]
  BY <1>1, <1>2 DEF Goes
<1>7. QED  BY <1>1, <1>3, <1>5, <1>6, PoolWrites

LEMMA PoolWriteEcho ==
  ASSUME PoolAssumption, PoolIInv, NEW k \in DOMAIN echo, WriteEcho(k)
  PROVE  PoolIInv'
<1>1. PICK e \in EchoServers : e = echo[k]
  BY PoolEchoes DEF PoolIInv
<1>2. EchoOf(e) /\ e.pc = "write"
  BY <1>1 DEF PoolIInv, EchoInv, EchoOf, WriteEcho
<1>3. PICK n \in 0 .. Rounds : n = e.left - 1
  BY <1>2 DEF EchoServers, EchoOf, PoolAssumption
<1>4. PICK pd \in {"dead", "end", "read"} :
        /\ pd = IF Broken(echo[k].client) THEN "dead" ELSE IF n = 0 THEN "end" ELSE "read"
  OBVIOUS
<1>5. PICK r \in EchoServers : r = [e EXCEPT !.left = n, !.pc = pd]
  BY DEF EchoServers
<1>6. r.client = e.client /\ r.no = e.no /\ r.left = n /\ r.pc = pd
  BY <1>5 DEF EchoServers
<1>7. EchoOf(r) /\ r.pc \notin {"bye", "gone"}
  <2>1. pd = "read" => n > 0
    <3>1. pd = "read" => n # 0
      BY <1>4
    <3>2. n \in Nat
      BY <1>3
    <3>3. QED  BY <3>1, <3>2
  <2>2. e.no # -1
    BY <1>2 DEF EchoOf
  <2>3. pd \in {"dead", "end", "read"}
    BY <1>4
  <2>4. QED  BY <1>6, <2>1, <2>2, <2>3 DEF EchoOf
<1>8. echo' = [echo EXCEPT ![k] = r]
  BY <1>1, <1>3, <1>4, <1>5 DEF WriteEcho, NextRound
<1>9. /\ Put(echo[k].client, "echo") /\ "echo" \in Pieces
      /\ UNCHANGED <<mpc, mi, nsfd, cnt, ecnt, flag, pending, sent, said, backlog, toServer,
                     cpc, misread, deaf>>
  BY DEF WriteEcho, Pieces, mainVars, inputVars, history
<1>10. PICK m \in Pieces : m = "echo"
  BY <1>9
<1>11. Put(echo[k].client, m) /\ m # "end"
  BY <1>9, <1>10
<1>12. QED  BY <1>1, <1>2, <1>6, <1>7, <1>8, <1>9, <1>11, PoolWrites

LEMMA PoolTake ==
  ASSUME TypeOK, NEW c \in Clients, Take(c)
  PROVE  /\ toServer' \in [Clients -> Seq({"num", "line"})] /\ fin' \in [Clients -> FinTypes]
         /\ \A d \in Clients : fin'[d] = "no" <=> fin[d] = "no"
         /\ \A d \in Clients : fin[d] = "reset" => fin'[d] = "reset"
         /\ \A d \in Clients : d # c => toServer'[d] = toServer[d]
         /\ toServer[c] # <<>> \/ fin[c] # "no"
<1>1. toServer' = [toServer EXCEPT ![c] = <<>>]
  BY DEF Take
<1>2. fin' = fin \/ (fin[c] = "rst" /\ fin' = [fin EXCEPT ![c] = "reset"])
  BY DEF Take
<1>3. toServer' \in [Clients -> Seq({"num", "line"})] /\ fin \in [Clients -> FinTypes]
  BY <1>1 DEF TypeOK, FinTypes
<1>4. \A d \in Clients : d # c => toServer'[d] = toServer[d]
  BY <1>1 DEF TypeOK
<1>5. /\ fin' \in [Clients -> FinTypes]
      /\ \A d \in Clients : fin'[d] = "no" <=> fin[d] = "no"
      /\ \A d \in Clients : fin[d] = "reset" => fin'[d] = "reset"
  <2>1. CASE fin' = fin
    BY <1>3, <2>1
  <2>2. CASE fin[c] = "rst" /\ fin' = [fin EXCEPT ![c] = "reset"]
    BY <1>3, <2>2 DEF FinTypes
  <2>3. QED  BY <1>2, <2>1, <2>2
<1>6. toServer[c] # <<>> \/ fin[c] # "no"
  BY DEF Take, Readable
<1>7. QED  BY <1>3, <1>4, <1>5, <1>6

\* The flags and those who use them stay the same.
LEMMA PoolFlagsStay ==
  ASSUME FlagInv, UNCHANGED <<cnt, nsfd, flag>>, misread' => misread, misread => misread',
         DOMAIN echo' = DOMAIN echo,
         \A j \in DOMAIN echo :
           /\ echo'[j].client = echo[j].client
           /\ echo'[j].pc \in {"bye", "gone"} <=> echo[j].pc \in {"bye", "gone"},
         ~misread => \A j \in DOMAIN echo' : echo'[j].no \in {-1, Own(echo[j].client)'}
  PROVE  FlagInv'
<1> SUFFICES ASSUME ~misread'
             PROVE  /\ \A i \in 0 .. cnt' - 1 :
                         /\ \A j, l \in Busy(nsfd[i + 1])' : j = l
                         /\ flag'[i] = 1 <=> Busy(nsfd[i + 1])' # {}
                    /\ \A j \in DOMAIN echo' : echo'[j].no \in {-1, Own(echo[j].client)'}
  BY DEF FlagInv
<1>1. ASSUME NEW i \in 0 .. cnt' - 1
      PROVE  /\ \A j, l \in Busy(nsfd[i + 1])' : j = l
             /\ flag'[i] = 1 <=> Busy(nsfd[i + 1])' # {}
  <2>1. Busy(nsfd[i + 1])' = Busy(nsfd[i + 1])
    BY DEF Busy
  <2>2. i \in 0 .. cnt - 1 /\ flag' = flag /\ ~misread
    OBVIOUS
  <2>3. /\ \A j, l \in Busy(nsfd[i + 1]) : j = l
        /\ flag[i] = 1 <=> Busy(nsfd[i + 1]) # {}
    BY <2>2 DEF FlagInv
  <2>4. QED  BY <2>1, <2>2, <2>3
<1>2. QED  BY <1>1

LEMMA PoolReadLine ==
  ASSUME PoolAssumption, PoolIInv, NEW k \in DOMAIN echo, ReadLine(k)
  PROVE  PoolIInv'
<1>0. /\ TypeOK /\ OnceInv /\ echo[k].pc = "read" /\ Take(echo[k].client) /\ Goes(k, "write")
      /\ mpc' = mpc /\ mi' = mi /\ nsfd' = nsfd /\ cnt' = cnt /\ ecnt' = ecnt /\ flag' = flag
      /\ pending' = pending /\ sent' = sent /\ said' = said /\ backlog' = backlog
      /\ toClient' = toClient /\ cpc' = cpc /\ misread' = misread /\ deaf' = deaf
  BY DEF ReadLine, PoolIInv, mainVars, inputVars, history
<1>1. PICK e \in EchoServers : e = echo[k] /\ e.client \in Clients
  BY <1>0, PoolEchoes
<1>2. PICK r \in EchoServers : r = [e EXCEPT !.pc = "write"]
  BY DEF EchoServers
<1>3. r.client = e.client /\ r.no = e.no /\ r.left = e.left /\ r.pc = "write"
  BY <1>2 DEF EchoServers
<1>4. EchoOf(e) /\ e.no # -1
  BY <1>0, <1>1 DEF PoolIInv, EchoInv, EchoOf
<1>5. EchoOf(r)
  BY <1>0, <1>1, <1>3, <1>4 DEF EchoOf
<1>6. echo' = [echo EXCEPT ![k] = r]
  BY <1>0, <1>1, <1>2 DEF Goes
<1>7. PICK c \in Clients : c = e.client
  BY <1>1
<1>8. /\ toServer' \in [Clients -> Seq({"num", "line"})] /\ fin' \in [Clients -> FinTypes]
      /\ \A d \in Clients : fin'[d] = "no" <=> fin[d] = "no"
      /\ \A d \in Clients : fin[d] = "reset" => fin'[d] = "reset"
      /\ \A d \in Clients : d # c => toServer'[d] = toServer[d]
  <2>1. Take(c)
    BY <1>0, <1>1, <1>7
  <2>2. QED  BY <1>0, <2>1, PoolTake
<1>9. /\ echo' \in Seq(EchoServers) /\ DOMAIN echo' = DOMAIN echo /\ echo'[k] = r
      /\ \A j \in DOMAIN echo : j # k => echo'[j] = echo[j]
  BY <1>0, <1>6, PoolMoves
<1>10. /\ LoopInv' /\ OnceInv' /\ GoneInv' /\ EchoInv' /\ WrongOnlyShared' /\ DiesForAReason'
       /\ \A d : Fresh(d)' <=> Fresh(d)
       /\ ~misread => \A j \in DOMAIN echo' : echo'[j].no \in {-1, Own(echo[j].client)'}
  BY <1>0, <1>1, <1>3, <1>5, <1>6, <1>8, PoolEchoFrame
<1>11. TypeOK'
  BY <1>0, <1>8, <1>9 DEF TypeOK, EchoServers, FinTypes
<1>12. NumberInv'
  <2> SUFFICES ASSUME NEW d \in Clients PROVE NumberOf(d)'
    BY DEF NumberInv
  <2>1. CASE d # c
    <3>1. NumberOf(d) /\ (HasEnd(d)' => HasEnd(d))
      BY <1>0 DEF PoolIInv, NumberInv, HasEnd
    <3>2. QED  BY <1>0, <1>8, <1>10, <2>1, <3>1, PoolNumberFrame
  <2>2. CASE d = c
    <3>1. ~Fresh(d)
      BY <1>1, <1>4, <1>7, <2>2 DEF Fresh
    <3>2. QED  BY <1>10, <3>1 DEF NumberOf
  <2>3. QED  BY <2>1, <2>2
<1>13. FlagInv'
  <2>1. \A j \in DOMAIN echo :
          /\ echo'[j].client = echo[j].client
          /\ echo'[j].pc \in {"bye", "gone"} <=> echo[j].pc \in {"bye", "gone"}
    BY <1>0, <1>1, <1>3, <1>9
  <2>2. QED  BY <1>0, <1>9, <1>10, <2>1, PoolFlagsStay DEF PoolIInv
<1>14. QED  BY <1>10, <1>11, <1>12, <1>13 DEF PoolIInv

LEMMA PoolReadNumber ==
  ASSUME PoolAssumption, PoolIInv, NEW k \in DOMAIN echo, ReadNumber(k)
  PROVE  PoolIInv'
<1>0. /\ TypeOK /\ OnceInv /\ echo[k].pc = "number" /\ Take(echo[k].client)
      /\ mpc' = mpc /\ mi' = mi /\ nsfd' = nsfd /\ cnt' = cnt /\ ecnt' = ecnt /\ flag' = flag
      /\ pending' = pending /\ sent' = sent /\ said' = said /\ backlog' = backlog
      /\ toClient' = toClient /\ cpc' = cpc
  BY DEF ReadNumber, PoolIInv, mainVars, inputVars
<1>1. PICK e \in EchoServers : e = echo[k] /\ e.client \in Clients /\ Accepted(e.client)
  BY <1>0, PoolEchoes
<1>2. PICK c \in Clients : c = e.client /\ c = echo[k].client /\ Accepted(c)
  BY <1>1
<1>3. PICK n \in NumbersIn(c) : /\ echo' = [echo EXCEPT ![k].pc = "read", ![k].no = n]
                                /\ misread' = (misread \/ n # Own(c))
  BY <1>2 DEF ReadNumber
<1>4. deaf' \subseteq Clients
  <2>1. deaf' = deaf \/ deaf' = deaf \union {c}
    BY <1>2 DEF ReadNumber
  <2>2. QED  BY <1>0, <2>1 DEF TypeOK
<1>5. Nobody \in Nat /\ Own(c) \in 0 .. Nobody /\ cnt \in Nat
  <2>1. Own(c) \in Index /\ Nobody \in Nat /\ cnt \in Nat
    BY <1>0, <1>2, PoolOwn, PoolNumbers
  <2>2. QED  BY <2>1 DEF Index
<1>6. toServer[c] # <<>> => Head(toServer[c]) \in {"num", "line"}
  <2>1. toServer[c] \in Seq({"num", "line"})
    BY <1>0 DEF TypeOK
  <2>2. QED  BY <2>1
<1>7. /\ toServer[c] = <<>> => n = 0
      /\ (toServer[c] # <<>> /\ Head(toServer[c]) = "num") => n = Own(c)
      /\ n \in 0 .. Nobody
  <2>1. CASE toServer[c] = <<>>
    <3>1. NumbersIn(c) = {0}
      BY <2>1 DEF NumbersIn
    <3>2. QED  BY <1>5, <2>1, <3>1
  <2>2. CASE toServer[c] # <<>> /\ Head(toServer[c]) = "num"
    <3>1. NumbersIn(c) = {Own(c)}
      BY <2>2 DEF NumbersIn
    <3>2. QED  BY <1>5, <2>2, <3>1
  <2>3. CASE toServer[c] # <<>> /\ Head(toServer[c]) = "line"
    <3>1. NumbersIn(c) = 0 .. Nobody
      BY <2>3 DEF NumbersIn
    <3>2. QED  BY <2>3, <3>1
  <2>4. QED  BY <1>6, <2>1, <2>2, <2>3
<1>8. PICK r \in EchoServers : r = [e EXCEPT !.pc = "read", !.no = n]
  <2>1. n \in -1 .. Nobody
    BY <1>5, <1>7
  <2>2. QED  BY <2>1 DEF EchoServers
<1>9. r.client = c /\ r.no = n /\ r.no # -1 /\ r.left = e.left /\ r.pc = "read"
  <2>1. r.client = c /\ r.no = n /\ r.left = e.left /\ r.pc = "read"
    BY <1>2, <1>8 DEF EchoServers
  <2>2. QED  BY <1>5, <1>7, <2>1
<1>10. echo' = [echo EXCEPT ![k] = r]
  BY <1>1, <1>3, <1>8
<1>11. /\ echo' \in Seq(EchoServers) /\ DOMAIN echo' = DOMAIN echo /\ echo'[k] = r
       /\ \A j \in DOMAIN echo : j # k => echo'[j] = echo[j]
  BY <1>0, <1>10, PoolMoves
<1>12. \A j \in DOMAIN echo :
         /\ echo'[j].client = echo[j].client
         /\ echo'[j].pc \in {"bye", "gone"} <=> echo[j].pc \in {"bye", "gone"}
  BY <1>0, <1>2, <1>9, <1>11
<1>13. /\ toServer' \in [Clients -> Seq({"num", "line"})] /\ fin' \in [Clients -> FinTypes]
       /\ \A d \in Clients : fin'[d] = "no" <=> fin[d] = "no"
       /\ \A d \in Clients : fin[d] = "reset" => fin'[d] = "reset"
       /\ \A d \in Clients : d # c => toServer'[d] = toServer[d]
       /\ toServer[c] # <<>> \/ fin[c] # "no"
  <2>1. Take(c)
    BY <1>0, <1>2
  <2>2. QED  BY <1>0, <2>1, PoolTake
<1>14. e.left > 0 /\ e.no = -1
  BY <1>0, <1>1 DEF PoolIInv, EchoInv
<1>15. TypeOK'
  <2>1. misread' \in BOOLEAN
    BY <1>3
  <2>2. QED  BY <1>0, <1>4, <1>11, <1>13, <2>1 DEF TypeOK, EchoServers, FinTypes
<1>16. LoopInv' /\ DiesForAReason'
  BY <1>0, <1>13 DEF PoolIInv, LoopInv, DiesForAReason, Broken
<1>17. OnceInv'
  BY <1>0, <1>11, <1>12, PoolOnceFrame
<1>18. GoneInv'
  BY <1>0, <1>13, PoolGoneFrame DEF PoolIInv
<1>19. EchoInv'
  <2> SUFFICES ASSUME NEW j \in DOMAIN echo' PROVE EchoOf(echo'[j])
    BY DEF EchoInv, EchoOf
  <2>1. CASE j = k
    BY <1>9, <1>11, <1>14, <2>1 DEF EchoOf
  <2>2. CASE j # k
    BY <1>11, <2>2 DEF PoolIInv, EchoInv, EchoOf
  <2>3. QED  BY <2>1, <2>2
<1>20. \A j \in DOMAIN echo : Own(echo[j].client)' = Own(echo[j].client)
  BY <1>0, <1>12 DEF Own
<1>21. WrongOnlyShared'
  <2> SUFFICES ASSUME NEW j \in DOMAIN echo
               PROVE  \/ echo'[j].no \in {-1, Own(echo[j].client)'} \/ fin'[echo'[j].client] # "no"
                      \/ \E i \in DOMAIN echo' \ {j} : echo'[i].client = echo'[j].client
    BY <1>11 DEF WrongOnlyShared
  <2>1. CASE j # k
    <3>1. \/ echo[j].no \in {-1, Own(echo[j].client)} \/ fin[echo[j].client] # "no"
          \/ \E i \in DOMAIN echo \ {j} : echo[i].client = echo[j].client
      BY DEF PoolIInv, WrongOnlyShared
    <3>2. echo[j].client \in Clients
      BY <1>0, PoolEchoes
    <3>3. QED  BY <1>11, <1>12, <1>13, <1>20, <2>1, <3>1, <3>2
  <2>2. CASE j = k
    <3>1. CASE fin[c] # "no"
      BY <1>9, <1>11, <1>13, <2>2, <3>1
    <3>2. CASE fin[c] = "no" /\ Fresh(c)
      <4>1. toServer[c] # <<>> /\ Head(toServer[c]) = "num"
        BY <1>13, <3>2 DEF PoolIInv, NumberInv, NumberOf
      <4>2. n = Own(c)
        BY <1>7, <4>1
      <4>3. Own(c) = PlaceIn(nsfd, cnt, c) /\ Own(echo[k].client) = PlaceIn(nsfd, cnt, echo[k].client)
        BY DEF Own, PlaceIn
      <4>4. Own(echo[k].client)' = n
        BY <1>2, <1>20, <4>2, <4>3
      <4>5. QED  BY <1>9, <1>11, <2>2, <4>4
    <3>3. CASE fin[c] = "no" /\ ~Fresh(c)
      <4>1. PICK i \in DOMAIN echo : echo[i].client = c /\ echo[i].no # -1
        BY <3>3 DEF Fresh
      <4>2. i # k
        BY <1>1, <1>14, <4>1
      <4>3. QED  BY <1>2, <1>11, <1>12, <2>2, <4>1, <4>2
    <3>4. QED  BY <3>1, <3>2, <3>3
  <2>3. QED  BY <2>1, <2>2
<1>22. NumberInv'
  <2> SUFFICES ASSUME NEW d \in Clients PROVE NumberOf(d)'
    BY DEF NumberInv
  <2>1. CASE d # c
    <3>1. NumberOf(d) /\ (HasEnd(d)' => HasEnd(d))
      BY <1>0 DEF PoolIInv, NumberInv, HasEnd
    <3>2. Fresh(d)' => Fresh(d)
      BY <1>2, <1>11, <2>1 DEF Fresh
    <3>3. QED  BY <1>0, <1>13, <2>1, <3>1, <3>2, PoolNumberFrame
  <2>2. CASE d = c
    <3>1. ~Fresh(d)'
      BY <1>9, <1>11, <2>2 DEF Fresh
    <3>2. QED  BY <3>1 DEF NumberOf
  <2>3. QED  BY <2>1, <2>2
<1>23. FlagInv'
  <2>1. CASE misread'
    BY <2>1 DEF FlagInv
  <2>2. CASE ~misread'
    <3>1. ~misread /\ n = Own(c) /\ FlagInv
      BY <1>3, <2>2 DEF PoolIInv
    <3>2. ASSUME NEW j \in DOMAIN echo' PROVE echo'[j].no \in {-1, Own(echo[j].client)'}
      <4>1. CASE j # k
        BY <1>11, <1>20, <3>1, <3>2, <4>1 DEF FlagInv
      <4>2. CASE j = k
        <5>1. Own(c) = PlaceIn(nsfd, cnt, c)
                /\ Own(echo[k].client) = PlaceIn(nsfd, cnt, echo[k].client)
          BY DEF Own, PlaceIn
        <5>2. Own(echo[k].client)' = n
          BY <1>2, <1>20, <3>1, <5>1
        <5>3. QED  BY <1>9, <1>11, <4>2, <5>2
      <4>3. QED  BY <4>1, <4>2
    <3>3. misread' => misread
      BY <2>2
    <3>4. misread => misread'
      BY <3>1
    <3>5. QED  BY <1>0, <1>11, <1>12, <3>1, <3>2, <3>3, <3>4, PoolFlagsStay
  <2>3. QED  BY <2>1, <2>2
<1>24. QED  BY <1>15, <1>16, <1>17, <1>18, <1>19, <1>21, <1>22, <1>23 DEF PoolIInv

LEMMA PoolFree ==
  ASSUME PoolAssumption, PoolIInv, NEW k \in DOMAIN echo, Free(k)
  PROVE  PoolIInv'
<1>0. /\ TypeOK /\ OnceInv /\ echo[k].pc = "free" /\ FreeFlag(k) /\ Goes(k, "bye")
      /\ mpc' = mpc /\ mi' = mi /\ nsfd' = nsfd /\ cnt' = cnt /\ ecnt' = ecnt
      /\ pending' = pending /\ sent' = sent /\ said' = said /\ backlog' = backlog
      /\ toClient' = toClient /\ toServer' = toServer /\ fin' = fin /\ cpc' = cpc
      /\ misread' = misread /\ deaf' = deaf
  BY DEF Free, PoolIInv, mainVars, inputVars, streamVars, history
<1>1. PICK e \in EchoServers : e = echo[k] /\ e.client \in Clients /\ Accepted(e.client)
  BY <1>0, PoolEchoes
<1>2. PICK r \in EchoServers : r = [e EXCEPT !.pc = "bye"]
  BY DEF EchoServers
<1>3. r.client = e.client /\ r.no = e.no /\ r.left = e.left /\ r.pc = "bye"
  BY <1>2 DEF EchoServers
<1>4. e.no # -1
  BY <1>0, <1>1 DEF PoolIInv, EchoInv
<1>5. EchoOf(r)
  BY <1>3, <1>4 DEF EchoOf
<1>6. echo' = [echo EXCEPT ![k] = r]
  BY <1>0, <1>1, <1>2 DEF Goes
<1>7. /\ echo' \in Seq(EchoServers) /\ DOMAIN echo' = DOMAIN echo /\ echo'[k] = r
      /\ \A j \in DOMAIN echo : j # k => echo'[j] = echo[j]
  BY <1>0, <1>6, PoolMoves
<1>8. \A d \in Clients : (fin'[d] = "no" <=> fin[d] = "no") /\ (fin[d] = "reset" => fin'[d] = "reset")
  BY <1>0
<1>9. /\ LoopInv' /\ OnceInv' /\ GoneInv' /\ EchoInv' /\ WrongOnlyShared' /\ DiesForAReason'
      /\ \A d : Fresh(d)' <=> Fresh(d)
      /\ ~misread => \A j \in DOMAIN echo' : echo'[j].no \in {-1, Own(echo[j].client)'}
  BY <1>0, <1>1, <1>3, <1>5, <1>6, <1>8, PoolEchoFrame
<1>10. flag' \in [Index -> {0, 1}]
  BY <1>0 DEF FreeFlag, TypeOK
<1>11. TypeOK'
  BY <1>0, <1>7, <1>10 DEF TypeOK, EchoServers
<1>12. NumberInv'
  <2> SUFFICES ASSUME NEW d \in Clients PROVE NumberOf(d)'
    BY DEF NumberInv
  <2>1. NumberOf(d) /\ (HasEnd(d)' => HasEnd(d))
    BY <1>0 DEF PoolIInv, NumberInv, HasEnd
  <2>2. QED  BY <1>0, <1>9, <2>1, PoolNumberFrame
<1>13. FlagInv'
  <2> SUFFICES ASSUME ~misread'
               PROVE  /\ \A i \in 0 .. cnt' - 1 :
                           /\ \A j, l \in Busy(nsfd[i + 1])' : j = l
                           /\ flag'[i] = 1 <=> Busy(nsfd[i + 1])' # {}
                      /\ \A j \in DOMAIN echo' : echo'[j].no \in {-1, Own(echo[j].client)'}
    BY DEF FlagInv
  <2>0. ~misread /\ FlagInv
    BY <1>0 DEF PoolIInv
  <2>1. PICK t : t = Own(e.client)
    OBVIOUS
  <2>2. t \in 0 .. cnt - 1 /\ t \in Index /\ nsfd[t + 1] = e.client
    BY <1>0, <1>1, <2>1, PoolOwn
  <2>3. e.no = t
    <3>1. echo[k].no \in {-1, Own(echo[k].client)}
      BY <2>0 DEF FlagInv
    <3>2. Own(e.client) = PlaceIn(nsfd, cnt, e.client)
            /\ Own(echo[k].client) = PlaceIn(nsfd, cnt, echo[k].client)
      BY DEF Own, PlaceIn
    <3>3. QED  BY <1>1, <1>4, <2>1, <3>1, <3>2
  <2>4. flag' = [flag EXCEPT ![t] = 0]
    BY <1>0, <1>1, <2>2, <2>3 DEF FreeFlag
  <2>5. ASSUME NEW i \in 0 .. cnt' - 1
        PROVE  /\ \A j, l \in Busy(nsfd[i + 1])' : j = l
               /\ flag'[i] = 1 <=> Busy(nsfd[i + 1])' # {}
    <3>1. PICK d : d = nsfd[i + 1]
      OBVIOUS
    <3>2. Busy(nsfd[i + 1])' = {j \in DOMAIN echo : echo'[j].client = d
                                                     /\ echo'[j].pc \notin {"bye", "gone"}}
      BY <1>0, <1>7, <3>1 DEF Busy
    <3>3. i \in 0 .. cnt - 1
      BY <1>0
    <3>4. /\ \A j, l \in Busy(d) : j = l
          /\ flag[i] = 1 <=> Busy(d) # {}
      BY <2>0, <3>1, <3>3 DEF FlagInv
    <3>5. CASE i = t
      <4>1. d = e.client /\ flag'[i] = 0
        BY <1>0, <2>2, <2>4, <3>1, <3>5 DEF TypeOK
      <4>2. k \in Busy(d)
        BY <1>0, <1>1, <4>1 DEF Busy
      <4>3. \A j \in DOMAIN echo : ~(echo'[j].client = d /\ echo'[j].pc \notin {"bye", "gone"})
        <5> SUFFICES ASSUME NEW j \in DOMAIN echo, echo'[j].client = d,
                            echo'[j].pc \notin {"bye", "gone"}
                     PROVE  FALSE
          OBVIOUS
        <5>1. j # k
          BY <1>3, <1>7
        <5>2. j \in Busy(d)
          BY <1>7, <5>1 DEF Busy
        <5>3. QED  BY <3>4, <4>2, <5>1, <5>2
      <4>4. Busy(nsfd[i + 1])' = {}
        BY <3>2, <4>3
      <4>5. QED  BY <4>1, <4>4
    <3>6. CASE i # t
      <4>1. d # e.client
        BY <1>0, <2>2, <3>1, <3>3, <3>6 DEF OnceInv
      <4>2. i \in Index /\ flag'[i] = flag[i]
        <5>1. i \in Index
          BY <1>0, <3>3, PoolNumbers DEF Index
        <5>2. QED  BY <1>0, <2>4, <3>6, <5>1 DEF TypeOK
      <4>3. \A j \in DOMAIN echo :
              (echo'[j].client = d /\ echo'[j].pc \notin {"bye", "gone"}) <=> j \in Busy(d)
        BY <1>1, <1>3, <1>7, <4>1 DEF Busy
      <4>4. Busy(d) \subseteq DOMAIN echo
        BY DEF Busy
      <4>5. Busy(nsfd[i + 1])' = Busy(d)
        BY <3>2, <4>3, <4>4
      <4>6. QED  BY <3>4, <4>2, <4>5
    <3>7. QED  BY <3>5, <3>6
  <2>6. QED  BY <1>9, <2>0, <2>5
<1>14. QED  BY <1>9, <1>11, <1>12, <1>13 DEF PoolIInv

-----------------------------------------------------------------------------
(* Clients and their users *)

\* A client or its user takes a step.
LEMMA PoolClientFrame ==
  ASSUME PoolAssumption, PoolIInv,
         UNCHANGED <<mpc, mi, nsfd, cnt, flag, echo, misread>>,
         \A d \in Clients : fin[d] # "no" => fin'[d] # "no",
         \A d \in Clients : fin[d] = "reset" => fin'[d] = "reset"
  PROVE  /\ LoopInv' /\ EchoInv' /\ FlagInv' /\ WrongOnlyShared' /\ DiesForAReason'
         /\ \A d : Fresh(d)' <=> Fresh(d)
<1>1. TypeOK /\ OnceInv
  BY DEF PoolIInv
<1>2. LoopInv' /\ EchoInv' /\ DiesForAReason'
  BY DEF PoolIInv, LoopInv, EchoInv, DiesForAReason, Broken
<1>3. FlagInv'
  BY PoolFlagFrame DEF PoolIInv
<1>4. WrongOnlyShared'
  <2>1. \A k \in DOMAIN echo : echo[k].client \in Clients
    BY <1>1, PoolEchoes
  <2>2. QED  BY <2>1, PoolWrongFrame DEF PoolIInv
<1>5. \A d : Fresh(d)' <=> Fresh(d)
  BY DEF Fresh
<1>6. QED  BY <1>2, <1>3, <1>4, <1>5

LEMMA PoolRecv ==
  ASSUME TypeOK, NEW c \in Clients, NEW heard, Recv(c, heard)
  PROVE  /\ toClient' \in [Clients -> Seq(Pieces)] /\ deaf' \subseteq Clients
         /\ toClient[c] # <<>> /\ ~HasEnd(c)'
         /\ \A d \in Clients : HasEnd(d)' => HasEnd(d)
<1>1. toClient \in [Clients -> Seq(Pieces)]
  BY DEF TypeOK, Pieces
<1>2. toClient' = [toClient EXCEPT ![c] = <<>>] /\ toClient[c] # <<>>
  BY DEF Recv
<1>3. deaf' = deaf \/ deaf' = deaf \union {c}
  BY DEF Recv
<1>4. toClient' \in [Clients -> Seq(Pieces)]
  BY <1>1, <1>2
<1>5. deaf' \subseteq Clients
  BY <1>3 DEF TypeOK
<1>6. toClient'[c] = <<>> /\ \A d \in Clients : d # c => toClient'[d] = toClient[d]
  BY <1>1, <1>2
<1>7. ~HasEnd(c)'
  BY <1>6 DEF HasEnd
<1>8. \A d \in Clients : HasEnd(d)' => HasEnd(d)
  BY <1>6 DEF HasEnd
<1>9. QED  BY <1>2, <1>4, <1>5, <1>7, <1>8

\* Its place changes from one to another, its sockets not.
LEMMA PoolPlaces ==
  ASSUME PoolIInv, NEW c \in Clients, NEW x \in {"number", "idle", "chat", "wait", "gone"},
         cpc[c] \notin {"away", "gone"}, cpc' = [cpc EXCEPT ![c] = x],
         UNCHANGED <<nsfd, cnt, backlog, echo, fin>>
  PROVE  /\ OnceInv' /\ GoneInv'
         /\ cpc' \in [Clients -> {"away", "number", "idle", "chat", "wait", "gone"}]
         /\ cpc'[c] = x /\ \A d \in Clients : d # c => cpc'[d] = cpc[d]
<1>1. TypeOK /\ OnceInv /\ GoneInv
  BY DEF PoolIInv
<1>2. cpc \in [Clients -> {"away", "number", "idle", "chat", "wait", "gone"}]
  BY <1>1 DEF TypeOK
<1>3. /\ cpc' \in [Clients -> {"away", "number", "idle", "chat", "wait", "gone"}]
      /\ cpc'[c] = x /\ \A d \in Clients : d # c => cpc'[d] = cpc[d]
  BY <1>2
<1>4. OnceInv'
  <2>1. \A d \in Clients : cpc[d] # "away" => cpc'[d] # "away"
    BY <1>3
  <2>2. QED  BY <1>1, <2>1, PoolOnceFrame
<1>5. GoneInv'
  <2>1. \A d \in Clients : cpc[d] = "gone" => cpc'[d] = "gone"
    BY <1>3
  <2>2. QED  BY <1>1, <2>1, PoolGoneFrame
<1>6. QED  BY <1>3, <1>4, <1>5

LEMMA PoolGetNumber ==
  ASSUME PoolAssumption, PoolIInv, NEW c \in Clients, GetNumber(c)
  PROVE  PoolIInv'
<1>0. /\ TypeOK /\ cpc[c] = "number" /\ Recv(c, "num") /\ cpc' = [cpc EXCEPT ![c] = "idle"]
      /\ mpc' = mpc /\ mi' = mi /\ nsfd' = nsfd /\ cnt' = cnt /\ ecnt' = ecnt /\ flag' = flag
      /\ pending' = pending /\ sent' = sent /\ said' = said /\ backlog' = backlog
      /\ echo' = echo /\ toServer' = toServer /\ fin' = fin /\ misread' = misread
  BY DEF GetNumber, PoolIInv, mainVars, inputVars
<1>1. /\ toClient' \in [Clients -> Seq(Pieces)] /\ deaf' \subseteq Clients
      /\ ~HasEnd(c)' /\ \A d \in Clients : HasEnd(d)' => HasEnd(d)
  BY <1>0, PoolRecv
<1>2. /\ OnceInv' /\ GoneInv'
      /\ cpc' \in [Clients -> {"away", "number", "idle", "chat", "wait", "gone"}]
      /\ cpc'[c] = "idle" /\ \A d \in Clients : d # c => cpc'[d] = cpc[d]
  BY <1>0, PoolPlaces
<1>3. /\ LoopInv' /\ EchoInv' /\ FlagInv' /\ WrongOnlyShared' /\ DiesForAReason'
      /\ \A d : Fresh(d)' <=> Fresh(d)
  BY <1>0, PoolClientFrame
<1>4. TypeOK'
  BY <1>0, <1>1, <1>2 DEF TypeOK, Pieces
<1>5. NumberInv'
  <2> SUFFICES ASSUME NEW d \in Clients PROVE NumberOf(d)'
    BY DEF NumberInv
  <2>1. NumberOf(d)
    BY DEF PoolIInv, NumberInv
  <2>2. CASE d # c
    BY <1>0, <1>1, <1>2, <1>3, <2>1, <2>2, PoolNumberFrame
  <2>3. CASE d = c
    BY <1>0, <1>1, <1>2, <1>3, <2>1, <2>3 DEF NumberOf
  <2>4. QED  BY <2>2, <2>3
<1>6. QED  BY <1>2, <1>3, <1>4, <1>5 DEF PoolIInv

LEMMA PoolListen ==
  ASSUME PoolAssumption, PoolIInv, NEW c \in Clients, Listen(c)
  PROVE  PoolIInv'
<1>0. /\ TypeOK /\ OnceInv /\ GoneInv /\ cpc[c] = "idle" /\ Recv(c, "e")
      /\ \/ /\ toServer' = [toServer EXCEPT ![c] = Join(toServer[c], "num")]
            /\ cpc' = [cpc EXCEPT ![c] = "chat"]
         \/ toServer' = toServer /\ cpc' = cpc
      /\ mpc' = mpc /\ mi' = mi /\ nsfd' = nsfd /\ cnt' = cnt /\ ecnt' = ecnt /\ flag' = flag
      /\ pending' = pending /\ sent' = sent /\ said' = said /\ backlog' = backlog
      /\ echo' = echo /\ fin' = fin /\ misread' = misread
  BY DEF Listen, PoolIInv, mainVars, inputVars
<1>1. /\ toClient' \in [Clients -> Seq(Pieces)] /\ deaf' \subseteq Clients
      /\ ~HasEnd(c)' /\ \A d \in Clients : HasEnd(d)' => HasEnd(d)
  BY <1>0, PoolRecv
<1>2. /\ LoopInv' /\ EchoInv' /\ FlagInv' /\ WrongOnlyShared' /\ DiesForAReason'
      /\ \A d : Fresh(d)' <=> Fresh(d)
  BY <1>0, PoolClientFrame
<1>3. CASE toServer' = toServer /\ cpc' = cpc
  <2>1. OnceInv' /\ GoneInv'
    <3>1. OnceInv'
      BY <1>0, <1>3, PoolOnceFrame
    <3>2. GoneInv'
      BY <1>0, <1>3, PoolGoneFrame
    <3>3. QED  BY <3>1, <3>2
  <2>2. TypeOK'
    BY <1>0, <1>1, <1>3 DEF TypeOK, Pieces
  <2>3. NumberInv'
    <3> SUFFICES ASSUME NEW d \in Clients PROVE NumberOf(d)'
      BY DEF NumberInv
    <3>1. NumberOf(d)
      BY DEF PoolIInv, NumberInv
    <3>2. QED  BY <1>0, <1>1, <1>2, <1>3, <3>1, PoolNumberFrame
  <2>4. QED  BY <1>2, <2>1, <2>2, <2>3 DEF PoolIInv
<1>4. CASE /\ toServer' = [toServer EXCEPT ![c] = Join(toServer[c], "num")]
           /\ cpc' = [cpc EXCEPT ![c] = "chat"]
  <2>1. /\ OnceInv' /\ GoneInv'
        /\ cpc' \in [Clients -> {"away", "number", "idle", "chat", "wait", "gone"}]
        /\ cpc'[c] = "chat" /\ \A d \in Clients : d # c => cpc'[d] = cpc[d]
    BY <1>0, <1>4, PoolPlaces
  <2>2. PICK q \in Seq({"num", "line"}) : q = toServer[c]
    BY <1>0 DEF TypeOK
  <2>3. PICK r : r = Join(q, "num")
    OBVIOUS
  <2>4. r \in Seq({"num", "line"}) /\ r # <<>> /\ (q = <<>> => Head(r) = "num")
    <3>1. "num" \in {"num", "line"}
      OBVIOUS
    <3>2. QED  BY <2>3, <3>1, PoolJoin
  <2>5. /\ toServer' \in [Clients -> Seq({"num", "line"})] /\ toServer'[c] = r
        /\ \A d \in Clients : d # c => toServer'[d] = toServer[d]
    BY <1>0, <1>4, <2>2, <2>3, <2>4 DEF TypeOK
  <2>6. TypeOK'
    BY <1>0, <1>1, <2>1, <2>5 DEF TypeOK, Pieces
  <2>7. NumberInv'
    <3> SUFFICES ASSUME NEW d \in Clients PROVE NumberOf(d)'
      BY DEF NumberInv
    <3>1. NumberOf(d)
      BY DEF PoolIInv, NumberInv
    <3>2. CASE d # c
      BY <1>0, <1>1, <1>2, <2>1, <2>5, <3>1, <3>2, PoolNumberFrame
    <3>3. CASE d = c
      <4>1. (fin[c] = "no" /\ Fresh(c)) => q = <<>>
        BY <1>0, <2>2, <3>1, <3>3 DEF NumberOf
      <4>2. QED  BY <1>0, <1>1, <1>2, <2>1, <2>4, <2>5, <3>3, <4>1 DEF NumberOf
    <3>4. QED  BY <3>2, <3>3
  <2>8. QED  BY <1>2, <2>1, <2>6, <2>7 DEF PoolIInv
<1>5. QED  BY <1>0, <1>3, <1>4

LEMMA PoolType ==
  ASSUME PoolAssumption, PoolIInv, NEW c \in Clients, Type(c)
  PROVE  PoolIInv'
<1>0. /\ TypeOK /\ cpc[c] = "chat" /\ cpc' = [cpc EXCEPT ![c] = "wait"]
      /\ toServer' = [toServer EXCEPT ![c] = Join(toServer[c], "line")]
      /\ mpc' = mpc /\ mi' = mi /\ nsfd' = nsfd /\ cnt' = cnt /\ ecnt' = ecnt /\ flag' = flag
      /\ pending' = pending /\ sent' = sent /\ said' = said /\ backlog' = backlog
      /\ echo' = echo /\ toClient' = toClient /\ fin' = fin /\ misread' = misread /\ deaf' = deaf
  BY DEF Type, PoolIInv, mainVars, inputVars, history
<1>1. /\ OnceInv' /\ GoneInv'
      /\ cpc' \in [Clients -> {"away", "number", "idle", "chat", "wait", "gone"}]
      /\ cpc'[c] = "wait" /\ \A d \in Clients : d # c => cpc'[d] = cpc[d]
  BY <1>0, PoolPlaces
<1>2. /\ LoopInv' /\ EchoInv' /\ FlagInv' /\ WrongOnlyShared' /\ DiesForAReason'
      /\ \A d : Fresh(d)' <=> Fresh(d)
  BY <1>0, PoolClientFrame
<1>3. PICK q \in Seq({"num", "line"}) : q = toServer[c]
  BY <1>0 DEF TypeOK
<1>4. PICK r : r = Join(q, "line")
  OBVIOUS
<1>5. r \in Seq({"num", "line"}) /\ r # <<>> /\ (q # <<>> => Head(r) = Head(q))
  <2>1. "line" \in {"num", "line"}
    OBVIOUS
  <2>2. QED  BY <1>4, <2>1, PoolJoin
<1>6. /\ toServer' \in [Clients -> Seq({"num", "line"})] /\ toServer'[c] = r
      /\ \A d \in Clients : d # c => toServer'[d] = toServer[d]
  BY <1>0, <1>3, <1>4, <1>5 DEF TypeOK
<1>7. TypeOK'
  BY <1>0, <1>1, <1>6 DEF TypeOK
<1>8. \A d : HasEnd(d)' <=> HasEnd(d)
  BY <1>0, PoolSame
<1>9. NumberInv'
  <2> SUFFICES ASSUME NEW d \in Clients PROVE NumberOf(d)'
    BY DEF NumberInv
  <2>1. NumberOf(d)
    BY DEF PoolIInv, NumberInv
  <2>2. CASE d # c
    BY <1>0, <1>1, <1>2, <1>6, <1>8, <2>1, <2>2, PoolNumberFrame
  <2>3. CASE d = c
    <3>1. (fin[c] = "no" /\ Fresh(c)) => q # <<>> /\ Head(q) = "num" /\ ~HasEnd(c)
      BY <1>0, <1>3, <2>1, <2>3 DEF NumberOf
    <3>2. QED  BY <1>0, <1>1, <1>2, <1>5, <1>6, <1>8, <2>3, <3>1 DEF NumberOf
  <2>4. QED  BY <2>2, <2>3
<1>10. QED  BY <1>1, <1>2, <1>7, <1>9 DEF PoolIInv

LEMMA PoolHear ==
  ASSUME PoolAssumption, PoolIInv, NEW c \in Clients, Hear(c)
  PROVE  PoolIInv'
<1>0. /\ TypeOK /\ cpc[c] = "wait" /\ Recv(c, "end")
      /\ cpc' = [cpc EXCEPT ![c] = IF Head(toClient[c]) = "end" THEN "idle" ELSE "chat"]
      /\ mpc' = mpc /\ mi' = mi /\ nsfd' = nsfd /\ cnt' = cnt /\ ecnt' = ecnt /\ flag' = flag
      /\ pending' = pending /\ sent' = sent /\ said' = said /\ backlog' = backlog
      /\ echo' = echo /\ toServer' = toServer /\ fin' = fin /\ misread' = misread
  BY DEF Hear, PoolIInv, mainVars, inputVars
<1>1. /\ toClient' \in [Clients -> Seq(Pieces)] /\ deaf' \subseteq Clients
      /\ toClient[c] # <<>> /\ ~HasEnd(c)' /\ \A d \in Clients : HasEnd(d)' => HasEnd(d)
  BY <1>0, PoolRecv
<1>2. PICK x \in {"idle", "chat"} : x = IF Head(toClient[c]) = "end" THEN "idle" ELSE "chat"
  OBVIOUS
<1>3. /\ OnceInv' /\ GoneInv'
      /\ cpc' \in [Clients -> {"away", "number", "idle", "chat", "wait", "gone"}]
      /\ cpc'[c] = x /\ \A d \in Clients : d # c => cpc'[d] = cpc[d]
  <2>1. cpc' = [cpc EXCEPT ![c] = x]
    BY <1>0, <1>2
  <2>2. QED  BY <1>0, <2>1, PoolPlaces
<1>4. /\ LoopInv' /\ EchoInv' /\ FlagInv' /\ WrongOnlyShared' /\ DiesForAReason'
      /\ \A d : Fresh(d)' <=> Fresh(d)
  BY <1>0, PoolClientFrame
<1>5. TypeOK'
  BY <1>0, <1>1, <1>3 DEF TypeOK, Pieces
<1>6. ~HasEnd(c) => x = "chat"
  <2>1. PICK q \in Seq(Pieces) : q = toClient[c]
    BY <1>0 DEF TypeOK, Pieces
  <2>2. 1 \in DOMAIN q /\ Head(q) = q[1]
    BY <1>1, <2>1, PoolTail
  <2>3. QED  BY <1>2, <2>1, <2>2 DEF HasEnd
<1>7. NumberInv'
  <2> SUFFICES ASSUME NEW d \in Clients PROVE NumberOf(d)'
    BY DEF NumberInv
  <2>1. NumberOf(d)
    BY DEF PoolIInv, NumberInv
  <2>2. CASE d # c
    BY <1>0, <1>1, <1>3, <1>4, <2>1, <2>2, PoolNumberFrame
  <2>3. CASE d = c
    BY <1>0, <1>1, <1>3, <1>4, <1>6, <2>1, <2>3 DEF NumberOf
  <2>4. QED  BY <2>2, <2>3
<1>8. QED  BY <1>3, <1>4, <1>5, <1>7 DEF PoolIInv

LEMMA PoolLoseServer ==
  ASSUME PoolAssumption, PoolIInv, NEW c \in Clients, LoseServer(c)
  PROVE  PoolIInv'
<1>0. /\ TypeOK /\ cpc[c] \in {"number", "idle", "wait"} /\ cpc' = [cpc EXCEPT ![c] = "gone"]
      /\ mpc' = mpc /\ mi' = mi /\ nsfd' = nsfd /\ cnt' = cnt /\ ecnt' = ecnt /\ flag' = flag
      /\ pending' = pending /\ sent' = sent /\ said' = said /\ backlog' = backlog
      /\ echo' = echo /\ toClient' = toClient /\ toServer' = toServer /\ fin' = fin
      /\ misread' = misread /\ deaf' = deaf
  BY DEF LoseServer, PoolIInv, mainVars, inputVars, streamVars, history
<1>1. /\ OnceInv' /\ GoneInv'
      /\ cpc' \in [Clients -> {"away", "number", "idle", "chat", "wait", "gone"}]
      /\ cpc'[c] = "gone" /\ \A d \in Clients : d # c => cpc'[d] = cpc[d]
  BY <1>0, PoolPlaces
<1>2. /\ LoopInv' /\ EchoInv' /\ FlagInv' /\ WrongOnlyShared' /\ DiesForAReason'
      /\ \A d : Fresh(d)' <=> Fresh(d)
  BY <1>0, PoolClientFrame
<1>3. TypeOK'
  BY <1>0, <1>1 DEF TypeOK
<1>4. \A d : HasEnd(d)' <=> HasEnd(d)
  BY <1>0, PoolSame
<1>5. NumberInv'
  <2> SUFFICES ASSUME NEW d \in Clients PROVE NumberOf(d)'
    BY DEF NumberInv
  <2>1. NumberOf(d)
    BY DEF PoolIInv, NumberInv
  <2>2. CASE d # c
    BY <1>0, <1>1, <1>2, <1>4, <2>1, <2>2, PoolNumberFrame
  <2>3. CASE d = c
    BY <1>0, <1>1, <1>2, <1>4, <2>1, <2>3 DEF NumberOf
  <2>4. QED  BY <2>2, <2>3
<1>6. QED  BY <1>1, <1>2, <1>3, <1>5 DEF PoolIInv

LEMMA PoolQuit ==
  ASSUME PoolAssumption, PoolIInv, NEW c \in Clients, Quit(c)
  PROVE  PoolIInv'
<1>0. /\ TypeOK /\ OnceInv /\ GoneInv /\ cpc[c] \in {"number", "idle", "chat", "wait"}
      /\ fin' = [fin EXCEPT ![c] = IF toClient[c] = <<>> THEN "fin" ELSE "rst"]
      /\ cpc' = [cpc EXCEPT ![c] = "gone"]
      /\ mpc' = mpc /\ mi' = mi /\ nsfd' = nsfd /\ cnt' = cnt /\ ecnt' = ecnt /\ flag' = flag
      /\ pending' = pending /\ sent' = sent /\ said' = said /\ backlog' = backlog
      /\ echo' = echo /\ toClient' = toClient /\ toServer' = toServer
      /\ misread' = misread /\ deaf' = deaf
  BY DEF Quit, PoolIInv, mainVars, inputVars, history
<1>1. PICK x \in {"fin", "rst"} : fin' = [fin EXCEPT ![c] = x]
  BY <1>0
<1>2. fin[c] = "no"
  BY <1>0 DEF GoneInv
<1>3. /\ fin' \in [Clients -> FinTypes] /\ fin'[c] = x
      /\ \A d \in Clients : d # c => fin'[d] = fin[d]
  BY <1>0, <1>1 DEF TypeOK, FinTypes
<1>4. /\ cpc' \in [Clients -> {"away", "number", "idle", "chat", "wait", "gone"}]
      /\ cpc'[c] = "gone" /\ \A d \in Clients : d # c => cpc'[d] = cpc[d]
  BY <1>0 DEF TypeOK
<1>5. /\ \A d \in Clients : fin[d] # "no" => fin'[d] # "no"
      /\ \A d \in Clients : fin[d] = "reset" => fin'[d] = "reset"
  BY <1>1, <1>2, <1>3
<1>6. OnceInv'
  <2>1. \A d \in Clients : cpc[d] # "away" => cpc'[d] # "away"
    BY <1>4
  <2>2. QED  BY <1>0, <2>1, PoolOnceFrame
<1>7. GoneInv'
  BY <1>0, <1>3, <1>4 DEF GoneInv
<1>8. /\ LoopInv' /\ EchoInv' /\ FlagInv' /\ WrongOnlyShared' /\ DiesForAReason'
      /\ \A d : Fresh(d)' <=> Fresh(d)
  BY <1>0, <1>5, PoolClientFrame
<1>9. TypeOK'
  BY <1>0, <1>3, <1>4 DEF TypeOK, FinTypes
<1>10. \A d : HasEnd(d)' <=> HasEnd(d)
  BY <1>0 DEF HasEnd
<1>11. NumberInv'
  <2> SUFFICES ASSUME NEW d \in Clients PROVE NumberOf(d)'
    BY DEF NumberInv
  <2>1. NumberOf(d)
    BY DEF PoolIInv, NumberInv
  <2>2. CASE d # c
    BY <1>0, <1>4, <1>5, <1>8, <1>10, <2>1, <2>2, PoolNumberFrame
  <2>3. CASE d = c
    BY <1>1, <1>3, <2>3 DEF NumberOf
  <2>4. QED  BY <2>2, <2>3
<1>12. QED  BY <1>6, <1>7, <1>8, <1>9, <1>11 DEF PoolIInv

LEMMA PoolConnect ==
  ASSUME PoolAssumption, PoolIInv, NEW c \in Clients, Connect(c)
  PROVE  PoolIInv'
<1>0. /\ TypeOK /\ OnceInv /\ cpc[c] = "away" /\ cpc' = [cpc EXCEPT ![c] = "number"]
      /\ backlog' = Append(backlog, c)
      /\ mpc' = mpc /\ mi' = mi /\ nsfd' = nsfd /\ cnt' = cnt /\ ecnt' = ecnt /\ flag' = flag
      /\ pending' = pending /\ sent' = sent /\ said' = said
      /\ echo' = echo /\ toClient' = toClient /\ toServer' = toServer /\ fin' = fin
      /\ misread' = misread /\ deaf' = deaf
  BY DEF Connect, PoolIInv, mainVars, inputVars, streamVars, history
<1>1. PICK n \in Nat : n = Len(backlog)
  BY <1>0 DEF TypeOK
<1>2. /\ backlog' \in Seq(Clients) /\ DOMAIN backlog = 1 .. n /\ DOMAIN backlog' = 1 .. n + 1
      /\ backlog'[n + 1] = c /\ \A j \in 1 .. n : backlog'[j] = backlog[j]
  <2>1. backlog \in Seq(Clients)
    BY <1>0 DEF TypeOK
  <2>2. QED  BY <1>0, <1>1, <2>1, PoolAppend
<1>3. \A j \in DOMAIN backlog' : j \in DOMAIN backlog \/ j = n + 1
  BY <1>2
<1>4. /\ cpc' \in [Clients -> {"away", "number", "idle", "chat", "wait", "gone"}]
      /\ cpc'[c] = "number" /\ \A d \in Clients : d # c => cpc'[d] = cpc[d]
  BY <1>0 DEF TypeOK
<1>5. ~Accepted(c) /\ \A j \in DOMAIN backlog : backlog[j] # c
  BY <1>0 DEF OnceInv
<1>6. OnceInv'
  <2>1. \A d : Accepted(d)' <=> Accepted(d)
    BY <1>0 DEF Accepted
  <2>2. \A i, j \in DOMAIN backlog' : backlog'[i] = backlog'[j] => i = j
    <3> SUFFICES ASSUME NEW i \in DOMAIN backlog', NEW j \in DOMAIN backlog',
                        backlog'[i] = backlog'[j]
                 PROVE  i = j
      OBVIOUS
    <3>1. CASE i \in DOMAIN backlog /\ j \in DOMAIN backlog
      BY <1>0, <1>2, <3>1 DEF OnceInv
    <3>2. CASE i = n + 1 \/ j = n + 1
      BY <1>2, <1>3, <1>5, <3>2
    <3>3. QED  BY <1>3, <3>1, <3>2
  <2>3. ASSUME NEW j \in DOMAIN backlog'
        PROVE  ~Accepted(backlog[j])' /\ cpc'[backlog'[j]] # "away"
    <3>1. PICK d \in Clients : d = backlog'[j]
      BY <1>2, PoolElement
    <3>2. ~Accepted(d) /\ cpc'[d] # "away"
      <4>1. CASE j \in DOMAIN backlog
        BY <1>0, <1>2, <1>4, <1>5, <3>1, <4>1 DEF OnceInv
      <4>2. CASE j = n + 1
        BY <1>2, <1>4, <1>5, <3>1, <4>2
      <4>3. QED  BY <1>3, <4>1, <4>2
    <3>3. QED  BY <1>0, <3>1, <3>2 DEF Accepted
  <2>4. \A d \in Clients : Accepted(d)' => cpc'[d] # "away"
    BY <1>0, <1>4, <2>1 DEF OnceInv
  <2>5. \A k \in DOMAIN echo' : Accepted(echo[k].client)'
    BY <1>0 DEF OnceInv, Accepted
  <2>6. \A i, j \in 0 .. cnt' - 1 : nsfd'[i + 1] = nsfd'[j + 1] => i = j
    BY <1>0 DEF OnceInv
  <2>7. QED  BY <2>2, <2>3, <2>4, <2>5, <2>6 DEF OnceInv
<1>7. GoneInv'
  BY <1>0, <1>4 DEF PoolIInv, GoneInv
<1>8. /\ LoopInv' /\ EchoInv' /\ FlagInv' /\ WrongOnlyShared' /\ DiesForAReason'
      /\ \A d : Fresh(d)' <=> Fresh(d)
  BY <1>0, PoolClientFrame
<1>9. TypeOK'
  BY <1>0, <1>2, <1>4 DEF TypeOK
<1>10. \A d : HasEnd(d)' <=> HasEnd(d)
  BY <1>0, PoolSame
<1>11. NumberInv'
  <2> SUFFICES ASSUME NEW d \in Clients PROVE NumberOf(d)'
    BY DEF NumberInv
  <2>1. NumberOf(d)
    BY DEF PoolIInv, NumberInv
  <2>2. CASE d # c
    BY <1>0, <1>4, <1>8, <1>10, <2>1, <2>2, PoolNumberFrame
  <2>3. CASE d = c
    BY <1>0, <1>4, <1>8, <1>10, <2>1, <2>3 DEF NumberOf
  <2>4. QED  BY <2>2, <2>3
<1>12. QED  BY <1>6, <1>7, <1>8, <1>9, <1>11 DEF PoolIInv

-----------------------------------------------------------------------------
(* The invariant *)

LEMMA PoolEcho ==
  ASSUME PoolAssumption, PoolIInv, NEW k \in DOMAIN echo, Echo(k)
  PROVE  PoolIInv'
<1> DEFINE Rest == UNCHANGED <<mpc, mi, nsfd, cnt, ecnt, flag, pending, sent, said, backlog,
                               toServer, cpc, misread, deaf>>
<1>1. CASE Hello(k)
  <2>1. echo[k].pc = "hello" /\ Put(echo[k].client, "e") /\ Rest
    BY <1>1 DEF Hello, EchoWrites, mainVars, inputVars, history
  <2>2. PICK pd \in {"number", "dead"} : Goes(k, pd)
    BY <1>1 DEF Hello, EchoWrites
  <2>3. "e" \in Pieces /\ "e" # "end" /\ "number" \in {"number", "free", "gone"}
    BY DEF Pieces
  <2>4. QED  BY <2>1, <2>2, <2>3, PoolEchoWrites
<1>2. CASE End(k)
  <2>1. echo[k].pc = "end" /\ Put(echo[k].client, "end") /\ Rest
    BY <1>2 DEF End, EchoWrites, mainVars, inputVars, history
  <2>2. PICK pd \in {"free", "dead"} : Goes(k, pd)
    BY <1>2 DEF End, EchoWrites
  <2>3. "end" \in Pieces /\ "free" \in {"number", "free", "gone"}
    BY DEF Pieces
  <2>4. QED  BY <2>1, <2>2, <2>3, PoolEchoWrites
<1>3. CASE Exit(k)
  <2>1. echo[k].pc = "bye" /\ Put(echo[k].client, "bye") /\ Goes(k, "gone") /\ Rest
    BY <1>3 DEF Exit, mainVars, inputVars, history
  <2>2. /\ "bye" \in Pieces /\ "bye" # "end" /\ "gone" \in {"number", "free", "gone"}
        /\ "gone" \in {"gone", "dead"}
    BY DEF Pieces
  <2>3. QED  BY <2>1, <2>2, PoolEchoWrites
<1>4. QED
  BY <1>1, <1>2, <1>3, PoolReadNumber, PoolReadLine, PoolWriteEcho, PoolFree DEF Echo

LEMMA PoolStutter ==
  ASSUME PoolIInv, UNCHANGED vars
  PROVE  PoolIInv'
<1>0. /\ mpc' = mpc /\ mi' = mi /\ nsfd' = nsfd /\ cnt' = cnt /\ ecnt' = ecnt /\ flag' = flag
      /\ pending' = pending /\ sent' = sent /\ said' = said /\ backlog' = backlog
      /\ echo' = echo /\ toClient' = toClient /\ toServer' = toServer /\ fin' = fin
      /\ cpc' = cpc /\ misread' = misread /\ deaf' = deaf
  BY DEF vars, mainVars, inputVars, streamVars, history
<1>1. TypeOK' /\ LoopInv' /\ DiesForAReason'
  BY <1>0 DEF PoolIInv, TypeOK, LoopInv, DiesForAReason, Broken
<1>2. OnceInv' /\ GoneInv' /\ EchoInv' /\ FlagInv' /\ NumberInv' /\ WrongOnlyShared'
  BY <1>0, PoolSame, PoolMainFrame
<1>3. QED  BY <1>1, <1>2 DEF PoolIInv

LEMMA PoolNext ==
  ASSUME PoolAssumption, PoolIInv, [Next]_vars
  PROVE  PoolIInv'
<1>1. CASE Main
  BY <1>1, PoolAccept, PoolPassEnds, PoolTest, PoolRelay DEF Main
<1>2. CASE Handler \/ Signal
  BY <1>2, PoolHandler, PoolSignal
<1>3. CASE Pipe \/ Fifo \/ P3 \/ Terminal
  BY <1>3, PoolPoll DEF Pipe, Fifo, P3, Terminal
<1>4. CASE \E k \in DOMAIN echo : Echo(k)
  BY <1>4, PoolEcho
<1>5. CASE \E c \in Clients : Client(c)
  BY <1>5, PoolGetNumber, PoolListen, PoolHear, PoolLoseServer DEF Client
<1>6. CASE \E c \in Clients : User(c)
  BY <1>6, PoolConnect, PoolType, PoolQuit DEF User
<1>7. CASE UNCHANGED vars
  BY <1>7, PoolStutter
<1>8. QED  BY <1>1, <1>2, <1>3, <1>4, <1>5, <1>6, <1>7 DEF Next

\* At most one element is all there is when any two are the same.
LEMMA PoolOne ==
  ASSUME NEW S, \A j, l \in S : j = l
  PROVE  Cardinality(S) <= 1
<1>1. CASE S = {}
  BY <1>1, FS_EmptySet
<1>2. CASE S # {}
  <2>1. PICK j \in S : S = {j}
    BY <1>2
  <2>2. Cardinality(S) = 1
    BY <2>1, FS_Singleton
  <2>3. QED  BY <2>2
<1>3. QED  BY <1>1, <1>2

LEMMA PoolImplies == ASSUME PoolIInv PROVE PoolInv
<1>1. FlagTellsTheTruth
  <2> SUFFICES ASSUME ~misread, NEW i \in 0 .. cnt - 1
               PROVE  /\ Cardinality(Busy(nsfd[i + 1])) <= 1
                      /\ flag[i] = 1 <=> Busy(nsfd[i + 1]) # {}
    BY DEF FlagTellsTheTruth
  <2>1. /\ \A k, l \in Busy(nsfd[i + 1]) : k = l
        /\ flag[i] = 1 <=> Busy(nsfd[i + 1]) # {}
    BY DEF PoolIInv, FlagInv
  <2>2. QED  BY <2>1, PoolOne
<1>2. QED  BY <1>1 DEF PoolIInv, PoolInv

\* Flags, numbers and deaths are explained, for any number of clients, lines, signals and
\* killed clients (MID/Mid 5: Server.c, its handler, Echo_server.c).
THEOREM PoolCorrect == Spec => []PoolInv
<1>1. Init => PoolIInv
  BY PoolInit, PoolAssumption
<1>2. PoolIInv /\ [Next]_vars => PoolIInv'
  BY PoolNext, PoolAssumption
<1>3. PoolIInv => PoolInv
  BY PoolImplies
<1>4. QED  BY <1>1, <1>2, <1>3, PTL DEF Spec

-----------------------------------------------------------------------------
(* TypedServices, the server that passes its clients to services by their type *)

CONSTANTS Wants, MaxKills
VARIABLES cur, nusfd, inbox, alive, tpc, by, type, cut

Typed == INSTANCE TypedServices

\* Where a client is for the server: not yet read from, or passed on to a service.
InBacklog(c) == \E j \in DOMAIN backlog : backlog[j] = c
Waiting(c)   == cpc[c] = "away" \/ InBacklog(c) \/ c \in cur
Queued(c)    == \E s \in Typed!Services : \E j \in DOMAIN inbox[s] : inbox[s][j] = c
Passed(c)    == Queued(c) \/ tpc[c] # "none"

\* A client is in one place, once.
PlaceInv ==
  /\ \A c \in Clients :
       /\ tpc[c] = "none" <=> by[c] = "none"
       /\ Queued(c) => tpc[c] = "none"
       /\ Waiting(c) => ~Passed(c)
       /\ Passed(c) => cpc[c] \notin {"away", "type"}
       /\ InBacklog(c) => cpc[c] # "away" /\ c \notin cur
       /\ c \in cur => cpc[c] # "away"
  /\ \A j, k \in DOMAIN backlog : backlog[j] = backlog[k] => j = k
  /\ \A s, t \in Typed!Services : \A j \in DOMAIN inbox[s], k \in DOMAIN inbox[t] :
       inbox[s][j] = inbox[t][k] => s = t /\ j = k

\* Clients that were killed are gone, and a type is entered once.
UserInv ==
  \A c \in Clients :
    /\ fin[c] # "no" => cpc[c] = "gone"
    /\ cpc[c] \in {"away", "type"} => type[c] = 0 /\ c \notin cut

NoneBeyond == \A c \in Clients : ~Typed!Beyond(c)

\* What the server will find when it reads from a client.
Beginning(c) ==
  Waiting(c) =>
    /\ toServer[c] \in {<<>>, <<"type">>, <<"type", "line">>}
    /\ cpc[c] \in {"away", "type"} => toServer[c] = <<>>
    /\ cpc[c] = "line" => toServer[c] \in {<<"type">>, <<"type", "line">>}
    /\ cpc[c] = "wait" => toServer[c] = <<"type", "line">>
    /\ NoneBeyond =>
         /\ toClient[c] = <<>> /\ fin[c] \in {"no", "fin"}
         /\ cpc[c] = "line" /\ mpc # "dead" => toServer[c] = <<"type">>

\* As long as no type is beyond nusfd[], client and service take turns.
Turn(c) ==
  (NoneBeyond /\ Passed(c) /\ Typed!Held(c)) =>
    /\ cpc[c] = "line" => tpc[c] # "send" /\ toServer[c] = <<>> /\ toClient[c] = <<>>
    /\ tpc[c] = "send" \/ toServer[c] # <<>> => toClient[c] = <<>> /\ fin[c] \in {"no", "fin"}
    /\ tpc[c] = "send" => toServer[c] = <<>>

\* Who waits has something coming, from the thread or to it, unless its line was cut.
Coming(c) ==
  (cpc[c] = "wait" /\ Passed(c) /\ tpc[c] \in {"none", "recv"}) =>
    toClient[c] # <<>> \/ toServer[c] # <<>> \/ c \in cut

TalkInv == \A c \in Clients : Beginning(c) /\ Turn(c) /\ Coming(c)

TypedIInv == Typed!TypeOK /\ Typed!DeathsSpread /\ PlaceInv /\ UserInv /\ TalkInv

-----------------------------------------------------------------------------
(* Streams *)

ToClientKinds == {"reply", "sorry", "junk"}
ToServerKinds == {"type", "line"}
Ends == {"no", "fin", "closed", "rst", "reset"}

LEMMA JoinFacts ==
  ASSUME NEW S, NEW q \in Seq(S), NEW m \in S
  PROVE  Typed!Join(q, m) \in Seq(S) /\ Typed!Join(q, m) # <<>>
<1>1. Append(q, m) \in Seq(S) /\ Append(q, m) # <<>>
  <2>1. Append(q, m) \in Seq(S) /\ Len(Append(q, m)) = Len(q) + 1 /\ Len(q) \in Nat
    OBVIOUS
  <2>2. Len(Append(q, m)) # 0
    BY <2>1
  <2>3. QED  BY <2>1, <2>2
<1>2. CASE q # <<>> /\ q[Len(q)] = m
  BY <1>2 DEF Typed!Join
<1>3. CASE ~(q # <<>> /\ q[Len(q)] = m)
  BY <1>1, <1>3 DEF Typed!Join
<1>4. QED  BY <1>2, <1>3

LEMMA PairIs ==
  ASSUME NEW q \in Seq(ToServerKinds), Len(q) = 2, q[1] = "type", q[2] = "line"
  PROVE  q = <<"type", "line">>
OBVIOUS

LEMMA AppendIs ==
  ASSUME NEW S, NEW q \in Seq(S), NEW m \in S
  PROVE  /\ Append(q, m) \in Seq(S) /\ Len(Append(q, m)) = Len(q) + 1
         /\ \A j \in 1 .. Len(q) : Append(q, m)[j] = q[j]
         /\ Append(q, m)[Len(q) + 1] = m
OBVIOUS

LEMMA TypeAndLine ==
  ASSUME NEW q \in Seq(ToServerKinds), Len(q) = 1, q[1] = "type"
  PROVE  Append(q, "line") = <<"type", "line">>
<1>1. "line" \in ToServerKinds
  BY DEF ToServerKinds
<1>2. /\ Append(q, "line") \in Seq(ToServerKinds) /\ Len(Append(q, "line")) = Len(q) + 1
      /\ \A j \in 1 .. Len(q) : Append(q, "line")[j] = q[j]
      /\ Append(q, "line")[Len(q) + 1] = "line"
  BY <1>1, AppendIs
<1> DEFINE r == Append(q, "line")
<1>3. r \in Seq(ToServerKinds) /\ Len(r) = 2 /\ r[1] = "type" /\ r[2] = "line"
  <2> HIDE DEF r
  <2>1. /\ r \in Seq(ToServerKinds) /\ Len(r) = Len(q) + 1
        /\ \A j \in 1 .. Len(q) : r[j] = q[j]
        /\ r[Len(q) + 1] = "line"
    BY <1>2 DEF r
  <2>2. QED  BY <2>1
<1>4. QED
  <2> HIDE DEF r
  <2>1. r = <<"type", "line">>  BY <1>3, PairIs
  <2>2. QED  BY <2>1 DEF r

\* A line behind the type; another one joins it.
LEMMA JoinLine ==
  ASSUME NEW q \in Seq(ToServerKinds), q \in {<<"type">>, <<"type", "line">>}
  PROVE  Typed!Join(q, "line") = <<"type", "line">>
<1>1. CASE q = <<"type">>
  <2>1. Len(q) = 1 /\ q[1] = "type"
    BY <1>1
  <2>2. Append(q, "line") = <<"type", "line">>
    BY <2>1, TypeAndLine
  <2>3. QED  BY <2>1, <2>2 DEF Typed!Join
<1>2. CASE q = <<"type", "line">>
  <2>1. q # <<>> /\ q[Len(q)] = "line"
    BY <1>2
  <2>2. QED  BY <1>2, <2>1 DEF Typed!Join
<1>3. QED  BY <1>1, <1>2

\* send(): one who listens gets the piece, one who was killed answers at most once.
LEMMA PutFacts ==
  ASSUME NEW c \in Clients, NEW m \in ToClientKinds, Typed!Put(c, m),
         toClient \in [Clients -> Seq(ToClientKinds)], fin \in [Clients -> Ends]
  PROVE  /\ toClient' \in [Clients -> Seq(ToClientKinds)] /\ fin' \in [Clients -> Ends]
         /\ \A d \in Clients : d # c => toClient'[d] = toClient[d] /\ fin'[d] = fin[d]
         /\ \/ fin[c] = "no" /\ fin'[c] = "no" /\ toClient'[c] # <<>>
            \/ fin[c] # "no" /\ toClient'[c] = toClient[c] /\ fin'[c] \in {"closed", "reset"}
         /\ fin[c] \in {"closed", "reset"} => fin'[c] = fin[c]
         /\ fin[c] = "fin" => fin'[c] = "closed"
<1>1. Typed!Join(toClient[c], m) \in Seq(ToClientKinds) /\ Typed!Join(toClient[c], m) # <<>>
  BY JoinFacts
<1>2. fin[c] \in Ends
  OBVIOUS
<1>3. CASE fin[c] = "no"
  <2>1. toClient' = [toClient EXCEPT ![c] = Typed!Join(toClient[c], m)] /\ fin' = fin
    BY <1>3 DEF Typed!Put
  <2>2. QED  BY <1>1, <1>3, <2>1
<1>4. CASE fin[c] # "no"
  <2>1. toClient' = toClient
    BY <1>4 DEF Typed!Put
  <2>2. PICK e \in {"closed", "reset"} :
          /\ fin' = IF fin[c] \in {"fin", "rst"} THEN [fin EXCEPT ![c] = e] ELSE fin
          /\ fin[c] \in {"closed", "reset"} \/ e = (IF fin[c] = "fin" THEN "closed" ELSE "reset")
    BY <1>2, <1>4 DEF Typed!Put, Ends
  <2>3. QED  BY <1>2, <1>4, <2>1, <2>2 DEF Ends
<1>5. QED  BY <1>3, <1>4

-----------------------------------------------------------------------------
(* What most steps keep *)

Types ==
  /\ toClient \in [Clients -> Seq(ToClientKinds)] /\ fin \in [Clients -> Ends]
  /\ toServer \in [Clients -> Seq(ToServerKinds)]
  /\ tpc \in [Clients -> {"none", "recv", "send", "end"}]
  /\ by \in [Clients -> Typed!Services \union {"none"}]
  /\ inbox \in [Typed!Services -> Seq(Clients)] /\ backlog \in Seq(Clients)
  /\ cpc \in [Clients -> {"away", "type", "line", "wait", "gone"}]
  /\ type \in [Clients -> Int]

LEMMA TypesHold == Typed!TypeOK => Types
BY DEF Typed!TypeOK, Types, ToClientKinds, ToServerKinds, Ends

LEMMA PlaceKept ==
  ASSUME PlaceInv, UNCHANGED <<cur, inbox, by, backlog>>,
         \A c \in Clients : /\ tpc'[c] = "none" <=> tpc[c] = "none"
                            /\ cpc'[c] = "away" <=> cpc[c] = "away"
                            /\ cpc'[c] = "type" => cpc[c] = "type"
  PROVE  /\ PlaceInv'
         /\ \A c \in Clients : /\ Waiting(c)' <=> Waiting(c)
                               /\ Passed(c)' <=> Passed(c)
<1>1. ASSUME NEW c \in Clients
      PROVE  /\ Waiting(c)' <=> Waiting(c)
             /\ InBacklog(c)' <=> InBacklog(c)
             /\ Passed(c)' <=> Passed(c)
             /\ Queued(c)' <=> Queued(c)
  <2>1. (InBacklog(c)' <=> InBacklog(c)) /\ (Queued(c)' <=> Queued(c))
    BY DEF InBacklog, Queued
  <2>2. QED  BY <2>1 DEF Waiting, Passed
<1>2. \A c \in Clients :
        /\ tpc'[c] = "none" <=> by'[c] = "none"
        /\ Queued(c)' => tpc'[c] = "none"
        /\ Waiting(c)' => ~Passed(c)'
        /\ Passed(c)' => cpc'[c] \notin {"away", "type"}
        /\ InBacklog(c)' => cpc'[c] # "away" /\ c \notin cur'
        /\ c \in cur' => cpc'[c] # "away"
  BY <1>1 DEF PlaceInv
<1>3. PlaceInv'
  BY <1>2 DEF PlaceInv
<1>4. QED  BY <1>1, <1>3

\* Deaths, once explained, stay explained.
Remembers ==
  \A c \in Clients :
    /\ by[c] # "none" => by'[c] = by[c]
    /\ fin[c] = "reset" => fin'[c] = "reset"
    /\ fin[c] = "closed" => fin'[c] = "closed"
    /\ Typed!Beyond(c) => Typed!Beyond(c)'

LEMMA DeathsStay ==
  ASSUME Remembers
  PROVE  /\ NoneBeyond' => NoneBeyond
         /\ Typed!Stray => Typed!Stray'
         /\ \A s \in Typed!Services : Typed!KilledBy(s) => Typed!KilledBy(s)'
BY DEF Remembers, NoneBeyond, Typed!Stray, Typed!KilledBy, Typed!Broken, Typed!Services

LEMMA DeathsKept ==
  ASSUME Typed!DeathsSpread, Remembers, UNCHANGED <<mpc, alive>>
  PROVE  Typed!DeathsSpread'
BY DeathsStay DEF Typed!DeathsSpread, NoneBeyond

\* Whom nobody serves any more, nobody will serve.
LEMMA HeldBefore ==
  ASSUME UNCHANGED <<mpc, by, inbox>>, alive' \subseteq alive, NEW c \in Clients, Typed!Held(c)'
  PROVE  Typed!Held(c)
BY DEF Typed!Held

\* A step in which d takes no part.
Aside(d) ==
  /\ cpc'[d] = cpc[d] /\ tpc'[d] = tpc[d]
  /\ toClient'[d] = toClient[d] /\ toServer'[d] = toServer[d] /\ fin'[d] = fin[d]
  /\ cut \subseteq cut'
  /\ NoneBeyond' => NoneBeyond
  /\ mpc = "dead" => mpc' = "dead"
  /\ Waiting(d)' => Waiting(d)
  /\ Passed(d)' => Passed(d)
  /\ Typed!Held(d)' => Typed!Held(d)

LEMMA AsideKeeps ==
  ASSUME NEW d \in Clients, Beginning(d), Turn(d), Coming(d), Aside(d)
  PROVE  Beginning(d)' /\ Turn(d)' /\ Coming(d)'
<1>1. Beginning(d)'  BY DEF Aside, Beginning
<1>2. Turn(d)'   BY DEF Aside, Turn
<1>3. Coming(d)' BY DEF Aside, Coming
<1>4. QED  BY <1>1, <1>2, <1>3

LEMMA TypedInit ==
  ASSUME Typed!TypedAssumption
  PROVE  Typed!Init => TypedIInv
<1> SUFFICES ASSUME Typed!Init PROVE TypedIInv
  OBVIOUS
<1> USE DEF Typed!Init, Typed!TypedAssumption
<1>1. Typed!TypeOK
  <2>1. /\ nusfd \in [1 .. 2 -> Typed!Services]
        /\ inbox \in [Typed!Services -> Seq(Clients)] /\ backlog \in Seq(Clients)
    BY DEF Typed!Services
  <2>2. /\ toClient \in [Clients -> Seq(ToClientKinds)]
        /\ toServer \in [Clients -> Seq(ToServerKinds)]
    OBVIOUS
  <2>3. QED  BY <2>1, <2>2 DEF Typed!TypeOK, ToClientKinds, ToServerKinds
<1>2. \A c \in Clients : ~InBacklog(c) /\ ~Queued(c) /\ ~Passed(c)
  BY DEF InBacklog, Queued, Passed
<1>3. PlaceInv
  BY <1>2 DEF PlaceInv
<1>4. Typed!DeathsSpread /\ UserInv
  BY DEF Typed!DeathsSpread, UserInv
<1>5. TalkInv
  BY <1>2 DEF TalkInv, Beginning, Turn, Coming
<1>6. QED  BY <1>1, <1>3, <1>4, <1>5 DEF TypedIInv

-----------------------------------------------------------------------------
(* The users *)

LEMMA TypedConnect == ASSUME TypedIInv, NEW c \in Clients, Typed!Connect(c) PROVE TypedIInv'
<1> USE TypesHold DEF TypedIInv
<1>1. /\ cpc[c] = "away" /\ mpc # "dead" /\ cpc' = [cpc EXCEPT ![c] = "type"]
      /\ backlog' = Append(backlog, c)
      /\ UNCHANGED <<mpc, cur, nusfd, inbox, alive, tpc, by, toClient, toServer, fin, type, cut>>
  BY DEF Typed!Connect, Typed!serverVars, Typed!serviceVars, Typed!streamVars
<1>2. cpc \in [Clients -> {"away", "type", "line", "wait", "gone"}] /\ backlog \in Seq(Clients)
  BY DEF Types
<1>3. cpc'[c] = "type" /\ \A d \in Clients : d # c => cpc'[d] = cpc[d]
  BY <1>1, <1>2
<1>4. /\ backlog' \in Seq(Clients) /\ Len(backlog') = Len(backlog) + 1 /\ Len(backlog) \in Nat
      /\ \A j \in 1 .. Len(backlog) : backlog'[j] = backlog[j]
      /\ backlog'[Len(backlog) + 1] = c
      /\ DOMAIN backlog = 1 .. Len(backlog) /\ DOMAIN backlog' = 1 .. Len(backlog) + 1
  <2>1. DOMAIN backlog = 1 .. Len(backlog) /\ Len(backlog) \in Nat
    BY <1>2
  <2>2. /\ backlog' \in Seq(Clients) /\ Len(backlog') = Len(backlog) + 1
        /\ \A j \in 1 .. Len(backlog) : backlog'[j] = backlog[j]
        /\ backlog'[Len(backlog) + 1] = c
    BY <1>1, <1>2, AppendIs
  <2>3. DOMAIN backlog' = 1 .. Len(backlog')
    BY <2>2
  <2>4. QED  BY <2>1, <2>2, <2>3
<1>5. ASSUME NEW d \in Clients PROVE InBacklog(d)' <=> InBacklog(d) \/ d = c
  <2>1. CASE d = c
    <3>1. Len(backlog) + 1 \in DOMAIN backlog'  BY <1>4
    <3>2. QED  BY <1>4, <2>1, <3>1 DEF InBacklog
  <2>2. CASE d # c
    <3>1. \A j \in DOMAIN backlog' : j \in DOMAIN backlog \/ j = Len(backlog) + 1
      BY <1>4
    <3>2. \A j \in DOMAIN backlog : j \in DOMAIN backlog'
      BY <1>4
    <3>3. QED  BY <1>4, <2>2, <3>1, <3>2 DEF InBacklog
  <2>3. QED  BY <2>1, <2>2
<1>6. \A d \in Clients : (Queued(d)' <=> Queued(d)) /\ (Passed(d)' <=> Passed(d))
  BY <1>1 DEF Queued, Passed
<1>7. Waiting(c) /\ ~Passed(c) /\ ~InBacklog(c) /\ c \notin cur
  BY <1>1 DEF PlaceInv, Waiting
<1>8. Typed!TypeOK'
  <2>1. cpc' \in [Clients -> {"away", "type", "line", "wait", "gone"}]
    BY <1>1, <1>2
  <2>2. QED  BY <1>1, <1>4, <2>1 DEF Typed!TypeOK
<1>9. Typed!DeathsSpread'
  BY <1>1, DeathsKept DEF Remembers, Typed!Beyond
<1>10. UserInv'
  BY <1>1, <1>3 DEF UserInv
<1>11. PlaceInv'
  <2>1. \A d \in Clients :
          /\ tpc'[d] = "none" <=> by'[d] = "none"
          /\ Queued(d)' => tpc'[d] = "none"
          /\ Waiting(d)' => ~Passed(d)'
          /\ Passed(d)' => cpc'[d] \notin {"away", "type"}
          /\ InBacklog(d)' => cpc'[d] # "away" /\ d \notin cur'
          /\ d \in cur' => cpc'[d] # "away"
    <3>1. UNCHANGED <<cur, tpc, by>>  BY <1>1
    <3>2. QED  BY <1>3, <1>5, <1>6, <1>7, <3>1 DEF PlaceInv, Waiting
  <2>2. \A j, k \in DOMAIN backlog' : backlog'[j] = backlog'[k] => j = k
    <3>1. \A j \in DOMAIN backlog : backlog[j] # c
      BY <1>7 DEF InBacklog
    <3>2. QED  BY <1>4, <3>1 DEF PlaceInv
  <2>3. QED  BY <1>1, <2>1, <2>2 DEF PlaceInv
<1>12. TalkInv'
  <2>1. ASSUME NEW d \in Clients, d # c PROVE Aside(d)
    <3>1. NoneBeyond' => NoneBeyond   BY <1>1 DEF NoneBeyond, Typed!Beyond
    <3>2. Typed!Held(d)' => Typed!Held(d)         BY <1>1, HeldBefore
    <3>3. Waiting(d)' => Waiting(d)   BY <1>1, <1>3, <1>5, <2>1 DEF Waiting
    <3>4. QED  BY <1>1, <1>3, <1>6, <2>1, <3>1, <3>2, <3>3 DEF Aside
  <2>2. Beginning(c)'
    <3>1. UNCHANGED <<toServer, toClient, fin, type>>  BY <1>1
    <3>2. NoneBeyond' => NoneBeyond                   BY <1>1 DEF NoneBeyond, Typed!Beyond
    <3>3. QED  BY <1>1, <1>3, <1>7, <3>1, <3>2 DEF TalkInv, Beginning
  <2>3. Turn(c)' /\ Coming(c)'
    BY <1>6, <1>7 DEF Turn, Coming
  <2>4. QED  BY <2>1, <2>2, <2>3, AsideKeeps DEF TalkInv
<1>13. QED  BY <1>8, <1>9, <1>10, <1>11, <1>12

\* What a step of a connected client leaves alone.
UserMoves(c, to) ==
  /\ cpc[c] \notin {"away", "gone"} /\ cpc' = [cpc EXCEPT ![c] = to]
  /\ to \in {"line", "wait", "gone"}
  /\ UNCHANGED <<mpc, cur, nusfd, inbox, alive, tpc, by, backlog, cut>>
  /\ toClient' \in [Clients -> Seq(ToClientKinds)] /\ toServer' \in [Clients -> Seq(ToServerKinds)]
  /\ fin' \in [Clients -> Ends] /\ type' \in [Clients -> Int]
  /\ \A d \in Clients : d # c =>
       /\ toClient'[d] = toClient[d] /\ toServer'[d] = toServer[d]
       /\ fin'[d] = fin[d] /\ type'[d] = type[d]
  /\ Typed!Beyond(c) => type'[c] = type[c]
  /\ fin'[c] # "no" => to = "gone"

LEMMA UserKeeps ==
  ASSUME TypedIInv, NEW c \in Clients, NEW to, UserMoves(c, to)
  PROVE  /\ Typed!TypeOK' /\ Typed!DeathsSpread' /\ PlaceInv' /\ UserInv'
         /\ \A d \in Clients : d # c => Beginning(d)' /\ Turn(d)' /\ Coming(d)'
         /\ Waiting(c)' => Waiting(c)
         /\ Passed(c)' => Passed(c)
         /\ Typed!Held(c)' => Typed!Held(c)
         /\ NoneBeyond' => NoneBeyond
         /\ cpc'[c] = to
<1> USE TypesHold DEF TypedIInv
<1>1. cpc \in [Clients -> {"away", "type", "line", "wait", "gone"}] /\ type \in [Clients -> Int]
  BY DEF Types
<1>2. /\ cpc'[c] = to /\ \A d \in Clients : d # c => cpc'[d] = cpc[d]
      /\ cpc[c] \notin {"away", "gone"} /\ to \in {"line", "wait", "gone"}
      /\ UNCHANGED <<mpc, cur, nusfd, inbox, alive, tpc, by, backlog, cut>>
  BY <1>1 DEF UserMoves
<1>3. fin[c] = "no"
  BY <1>2 DEF UserInv
<1>4. Remembers /\ (NoneBeyond' => NoneBeyond)
  <2>1. \A d \in Clients : Typed!Beyond(d) => Typed!Beyond(d)'
    BY <1>2 DEF Typed!Beyond, UserMoves
  <2>2. Remembers
    BY <1>2, <1>3, <2>1 DEF Remembers, UserMoves
  <2>3. QED  BY <2>2, DeathsStay
<1>5. Typed!TypeOK'
  <2>1. cpc' \in [Clients -> {"away", "type", "line", "wait", "gone"}]
    BY <1>1, <1>2 DEF UserMoves
  <2>2. QED  BY <1>2, <2>1 DEF Typed!TypeOK, UserMoves, ToClientKinds, ToServerKinds, Ends
<1>6. Typed!DeathsSpread'
  BY <1>2, <1>4, DeathsKept
<1>7. /\ PlaceInv'
      /\ \A d \in Clients : /\ Waiting(d)' <=> Waiting(d)
                            /\ Passed(d)' <=> Passed(d)
  BY <1>2, PlaceKept
<1>8. UserInv'
  BY <1>2 DEF UserInv, UserMoves
<1>9. \A d \in Clients : Typed!Held(d)' => Typed!Held(d)
  BY <1>2, HeldBefore
<1>10. ASSUME NEW d \in Clients, d # c PROVE Beginning(d)' /\ Turn(d)' /\ Coming(d)'
  <2>1. Aside(d)
    BY <1>2, <1>4, <1>7, <1>9, <1>10 DEF Aside, UserMoves
  <2>2. QED  BY <2>1, AsideKeeps DEF TalkInv
<1>11. QED  BY <1>2, <1>4, <1>5, <1>6, <1>7, <1>8, <1>9, <1>10

LEMMA EnterTypeStep ==
  ASSUME Typed!TypedAssumption,
         TypedIInv, NEW c \in Clients, NEW t \in Wants[c], Typed!EnterType(c, t) PROVE TypedIInv'
<1> USE TypesHold DEF TypedIInv
<1>1. /\ cpc[c] = "type" /\ cpc' = [cpc EXCEPT ![c] = "line"] /\ type' = [type EXCEPT ![c] = t]
      /\ toServer' = [toServer EXCEPT ![c] = Append(toServer[c], "type")]
      /\ UNCHANGED <<mpc, cur, nusfd, inbox, alive, tpc, by, backlog, toClient, fin, cut>>
  BY DEF Typed!EnterType, Typed!serverVars, Typed!serviceVars
<1>2. /\ toServer \in [Clients -> Seq(ToServerKinds)] /\ type \in [Clients -> Int]
      /\ toClient \in [Clients -> Seq(ToClientKinds)] /\ fin \in [Clients -> Ends]
  BY DEF Types
<1>3. t \in Int /\ ~Typed!Beyond(c)
  BY <1>1 DEF Typed!TypedAssumption, UserInv, Typed!Beyond
<1>4. Append(toServer[c], "type") \in Seq(ToServerKinds)
  <2>1. "type" \in ToServerKinds  BY DEF ToServerKinds
  <2>2. QED  BY <1>2, <2>1, AppendIs
<1>5. /\ toServer'[c] = Append(toServer[c], "type") /\ type[c] = 0
      /\ \A d \in Clients : d # c => toServer'[d] = toServer[d] /\ type'[d] = type[d]
      /\ fin[c] = "no"
  BY <1>1, <1>2 DEF UserInv
<1>6. UserMoves(c, "line")
  <2>1. toServer' \in [Clients -> Seq(ToServerKinds)]  BY <1>1, <1>2, <1>4
  <2>2. type' \in [Clients -> Int]                     BY <1>1, <1>2, <1>3
  <2>3. QED  BY <1>1, <1>2, <1>3, <1>5, <2>1, <2>2 DEF UserMoves
<1>7. ~Passed(c)
  BY <1>1 DEF PlaceInv
<1>8. Waiting(c) => toServer'[c] = <<"type">>
  <2> SUFFICES ASSUME Waiting(c) PROVE toServer'[c] = <<"type">>
    OBVIOUS
  <2>1. toServer[c] = <<>>
    BY <1>1 DEF TalkInv, Beginning
  <2>2. Append(<<>>, "type") = <<"type">>
    OBVIOUS
  <2>3. QED  BY <1>5, <2>1, <2>2
<1>9. Beginning(c)'
  <2>1. Waiting(c)' => Waiting(c)      BY <1>6, UserKeeps
  <2>2. NoneBeyond' => NoneBeyond      BY <1>6, UserKeeps
  <2>3. cpc'[c] = "line"               BY <1>6, UserKeeps
  <2>4. UNCHANGED <<toClient, fin>>    BY <1>1
  <2>5. QED  BY <1>8, <2>1, <2>2, <2>3, <2>4 DEF TalkInv, Beginning
<1>10. Turn(c)' /\ Coming(c)'
  <2>1. ~Passed(c)'  BY <1>6, <1>7, UserKeeps
  <2>2. QED  BY <2>1 DEF Turn, Coming
<1>11. QED  BY <1>6, <1>9, <1>10, UserKeeps DEF TalkInv

\* A client that has sent a line waits; one that finds its connection closed ends.
LEMMA EnterLineStep == ASSUME TypedIInv, NEW c \in Clients, Typed!EnterLine(c) PROVE TypedIInv'
<1> USE TypesHold DEF TypedIInv
<1>1. /\ cpc[c] = "line"
      /\ UNCHANGED <<mpc, cur, nusfd, inbox, alive, tpc, by, backlog, toClient, fin, type, cut>>
  BY DEF Typed!EnterLine, Typed!serverVars, Typed!serviceVars
<1>2. /\ toServer \in [Clients -> Seq(ToServerKinds)] /\ type \in [Clients -> Int]
      /\ toClient \in [Clients -> Seq(ToClientKinds)] /\ fin \in [Clients -> Ends]
      /\ fin[c] = "no"
  BY <1>1 DEF Types, UserInv
<1>3. CASE /\ Typed!Held(c) /\ cpc' = [cpc EXCEPT ![c] = "wait"]
           /\ toServer' = [toServer EXCEPT ![c] = Typed!Join(toServer[c], "line")]
  <2>1. Typed!Join(toServer[c], "line") \in Seq(ToServerKinds) /\ Typed!Join(toServer[c], "line") # <<>>
    <3>1. "line" \in ToServerKinds  BY DEF ToServerKinds
    <3>2. QED  BY <1>2, <3>1, JoinFacts
  <2>2. /\ toServer'[c] = Typed!Join(toServer[c], "line")
        /\ \A d \in Clients : d # c => toServer'[d] = toServer[d]
    BY <1>2, <1>3
  <2>3. UserMoves(c, "wait")
    <3>1. toServer' \in [Clients -> Seq(ToServerKinds)]  BY <1>2, <1>3, <2>1
    <3>2. QED  BY <1>1, <1>2, <1>3, <2>2, <3>1 DEF UserMoves
  <2>4. /\ Waiting(c)' => Waiting(c)
        /\ Passed(c)' => Passed(c)
        /\ NoneBeyond' => NoneBeyond
        /\ cpc'[c] = "wait"
    BY <2>3, UserKeeps
  <2>5. Beginning(c)'
    <3>1. Waiting(c) => toServer'[c] = <<"type", "line">>
      BY <1>1, <1>2, <2>2, JoinLine DEF TalkInv, Beginning
    <3>2. QED  BY <1>1, <2>4, <3>1 DEF TalkInv, Beginning
  <2>6. Turn(c)'
    <3> SUFFICES ASSUME NoneBeyond, Passed(c) PROVE Turn(c)'
      BY <2>4 DEF Turn
    <3>1. tpc[c] # "send" /\ toClient[c] = <<>>
      BY <1>1, <1>3 DEF TalkInv, Turn
    <3>2. QED  BY <1>1, <1>2, <2>4, <3>1 DEF Turn
  <2>7. Coming(c)'
    BY <2>1, <2>2 DEF Coming
  <2>8. QED  BY <2>3, <2>5, <2>6, <2>7, UserKeeps DEF TalkInv
<1>4. CASE cpc' = [cpc EXCEPT ![c] = "gone"] /\ UNCHANGED toServer
  <2>1. UserMoves(c, "gone")
    BY <1>1, <1>2, <1>4 DEF UserMoves
  <2>2. /\ Waiting(c)' => Waiting(c)
        /\ Passed(c)' => Passed(c)
        /\ Typed!Held(c)' => Typed!Held(c)
        /\ NoneBeyond' => NoneBeyond
        /\ cpc'[c] = "gone"
    BY <2>1, UserKeeps
  <2>3. UNCHANGED <<toServer, toClient, fin, tpc, mpc>>
    BY <1>1, <1>4
  <2>4. Beginning(c)' /\ Turn(c)' /\ Coming(c)'
    BY <2>2, <2>3 DEF TalkInv, Beginning, Turn, Coming
  <2>5. QED  BY <2>1, <2>4, UserKeeps DEF TalkInv
<1>5. QED  BY <1>3, <1>4 DEF Typed!EnterLine

LEMMA HearStep == ASSUME TypedIInv, NEW c \in Clients, Typed!Hear(c) PROVE TypedIInv'
<1> USE TypesHold DEF TypedIInv
<1>1. /\ cpc[c] = "wait" /\ cpc' = [cpc EXCEPT ![c] = "line"]
      /\ toClient[c] # <<>> \/ ~Typed!Held(c)
      /\ toClient' = [toClient EXCEPT ![c] = <<>>]
      /\ UNCHANGED <<mpc, cur, nusfd, inbox, alive, tpc, by, backlog, toServer, fin, type, cut>>
  BY DEF Typed!Hear, Typed!serverVars, Typed!serviceVars
<1>2. /\ toServer \in [Clients -> Seq(ToServerKinds)] /\ type \in [Clients -> Int]
      /\ toClient \in [Clients -> Seq(ToClientKinds)] /\ fin \in [Clients -> Ends]
      /\ fin[c] = "no"
  BY <1>1 DEF Types, UserInv
<1>3. toClient'[c] = <<>> /\ \A d \in Clients : d # c => toClient'[d] = toClient[d]
  BY <1>1, <1>2
<1>4. UserMoves(c, "line")
  <2>1. <<>> \in Seq(ToClientKinds)                    OBVIOUS
  <2>2. toClient' \in [Clients -> Seq(ToClientKinds)]  BY <1>1, <1>2, <2>1
  <2>3. QED  BY <1>1, <1>2, <1>3, <2>2 DEF UserMoves
<1>5. /\ Waiting(c)' => Waiting(c)
      /\ Passed(c)' => Passed(c)
      /\ Typed!Held(c)' => Typed!Held(c)
      /\ NoneBeyond' => NoneBeyond
      /\ cpc'[c] = "line"
  BY <1>4, UserKeeps
<1>6. Beginning(c)'
  <2> SUFFICES ASSUME Waiting(c) PROVE Beginning(c)'
    BY <1>5 DEF Beginning
  <2>1. toServer[c] = <<"type", "line">>
    BY <1>1 DEF TalkInv, Beginning
  <2>2. NoneBeyond => mpc = "dead"
    <3>1. NoneBeyond => toClient[c] = <<>>
      BY DEF TalkInv, Beginning
    <3>2. QED  BY <1>1, <3>1 DEF Typed!Held
  <2>3. NoneBeyond => fin[c] \in {"no", "fin"}
    BY <1>2
  <2>4. UNCHANGED <<toServer, fin, mpc>>
    BY <1>1
  <2>5. QED  BY <1>3, <1>5, <2>1, <2>2, <2>3, <2>4 DEF Beginning
<1>7. Turn(c)'
  <2> SUFFICES ASSUME NoneBeyond, Passed(c), Typed!Held(c) PROVE Turn(c)'
    BY <1>5 DEF Turn
  <2>1. tpc[c] # "send" /\ toServer[c] = <<>>
    BY <1>1 DEF TalkInv, Turn
  <2>2. UNCHANGED <<toServer, fin, tpc>>
    BY <1>1
  <2>3. QED  BY <1>3, <1>5, <2>1, <2>2 DEF Turn
<1>8. Coming(c)'
  BY <1>5 DEF Coming
<1>9. QED  BY <1>4, <1>6, <1>7, <1>8, UserKeeps DEF TalkInv

LEMMA TypedKill == ASSUME TypedIInv, NEW c \in Clients, Typed!Kill(c) PROVE TypedIInv'
<1> USE TypesHold DEF TypedIInv
<1>1. /\ cpc[c] \in {"type", "line", "wait"} /\ cpc' = [cpc EXCEPT ![c] = "gone"]
      /\ fin' = [fin EXCEPT ![c] = IF toClient[c] = <<>> THEN "fin" ELSE "rst"]
      /\ UNCHANGED <<mpc, cur, nusfd, inbox, alive, tpc, by, backlog, toClient, toServer, type, cut>>
  BY DEF Typed!Kill, Typed!serverVars, Typed!serviceVars
<1>2. /\ toServer \in [Clients -> Seq(ToServerKinds)] /\ type \in [Clients -> Int]
      /\ toClient \in [Clients -> Seq(ToClientKinds)] /\ fin \in [Clients -> Ends]
  BY DEF Types
<1>3. /\ fin'[c] = (IF toClient[c] = <<>> THEN "fin" ELSE "rst")
      /\ \A d \in Clients : d # c => fin'[d] = fin[d]
  BY <1>1, <1>2
<1>4. UserMoves(c, "gone")
  <2>1. fin' \in [Clients -> Ends]  BY <1>1, <1>2 DEF Ends
  <2>2. QED  BY <1>1, <1>2, <1>3, <2>1 DEF UserMoves
<1>5. /\ Waiting(c)' => Waiting(c)
      /\ Passed(c)' => Passed(c)
      /\ Typed!Held(c)' => Typed!Held(c)
      /\ NoneBeyond' => NoneBeyond
      /\ cpc'[c] = "gone"
  BY <1>4, UserKeeps
<1>6. Beginning(c)' /\ Turn(c)' /\ Coming(c)'
  <2>1. UNCHANGED <<toServer, toClient, tpc, mpc>>
    BY <1>1
  <2>2. Beginning(c)'   BY <1>3, <1>5, <2>1 DEF TalkInv, Beginning
  <2>3. Turn(c)'    BY <1>3, <1>5, <2>1 DEF TalkInv, Turn
  <2>4. Coming(c)'  BY <1>5 DEF Coming
  <2>5. QED  BY <2>2, <2>3, <2>4
<1>7. QED  BY <1>4, <1>6, UserKeeps DEF TalkInv

-----------------------------------------------------------------------------
(* The server *)

\* The server takes the first of the backlog, who is not there again.
LEMMA TypedAccept == ASSUME TypedIInv, Typed!Accept PROVE TypedIInv'
<1> USE TypesHold DEF TypedIInv
<1>1. PICK c \in Clients :
        /\ backlog # <<>> /\ c = Head(backlog) /\ mpc = "accept" /\ mpc' = "recv" /\ cur' = {c}
        /\ backlog' = Tail(backlog)
        /\ UNCHANGED <<nusfd, inbox, alive, tpc, by, toClient, toServer, fin, cpc, type, cut>>
  <2>1. backlog \in Seq(Clients)  BY DEF Types
  <2>2. backlog # <<>>            BY DEF Typed!Accept
  <2>3. Head(backlog) \in Clients BY <2>1, <2>2
  <2>4. QED  BY <2>3 DEF Typed!Accept, Typed!serviceVars, Typed!streamVars, Typed!clientVars
<1>2. backlog \in Seq(Clients)
  BY DEF Types
<1>3. /\ backlog' \in Seq(Clients) /\ 1 \in DOMAIN backlog /\ backlog[1] = c
      /\ \A j \in DOMAIN backlog' : j + 1 \in DOMAIN backlog /\ backlog'[j] = backlog[j + 1]
      /\ DOMAIN backlog' \subseteq Nat \ {0}
  BY <1>1, <1>2
<1>4. InBacklog(c) /\ Waiting(c) /\ ~Passed(c) /\ cpc[c] # "away"
  BY <1>3 DEF InBacklog, Waiting, PlaceInv
<1>5. ASSUME NEW d \in Clients PROVE InBacklog(d)' => InBacklog(d) /\ d # c
  <2> SUFFICES ASSUME NEW j \in DOMAIN backlog', backlog'[j] = d PROVE InBacklog(d) /\ d # c
    BY DEF InBacklog
  <2>1. j + 1 \in DOMAIN backlog /\ backlog[j + 1] = d /\ j + 1 # 1
    BY <1>3
  <2>2. d # c
    BY <1>3, <2>1 DEF PlaceInv
  <2>3. QED  BY <2>1, <2>2 DEF InBacklog
<1>6. \A d \in Clients : /\ Queued(d)' <=> Queued(d)
                         /\ Passed(d)' <=> Passed(d)
                         /\ Waiting(d)' => Waiting(d)
  <2>1. \A d \in Clients : (Queued(d)' <=> Queued(d)) /\ (Passed(d)' <=> Passed(d))
    BY <1>1 DEF Queued, Passed
  <2>2. \A d \in Clients : Waiting(d)' => Waiting(d)
    BY <1>1, <1>4, <1>5 DEF Waiting
  <2>3. QED  BY <2>1, <2>2
<1>7. Typed!TypeOK'
  BY <1>1, <1>3 DEF Typed!TypeOK
<1>8. Typed!DeathsSpread' /\ UserInv'
  <2>1. Typed!DeathsSpread'
    BY <1>1 DEF Typed!DeathsSpread, Typed!Stray, Typed!KilledBy, Typed!Broken, Typed!Beyond
  <2>2. UserInv'       BY <1>1 DEF UserInv
  <2>3. QED  BY <2>1, <2>2
<1>9. PlaceInv'
  <2>1. \A d \in Clients :
          /\ tpc'[d] = "none" <=> by'[d] = "none"
          /\ Queued(d)' => tpc'[d] = "none"
          /\ Waiting(d)' => ~Passed(d)'
          /\ Passed(d)' => cpc'[d] \notin {"away", "type"}
          /\ InBacklog(d)' => cpc'[d] # "away" /\ d \notin cur'
          /\ d \in cur' => cpc'[d] # "away"
    BY <1>1, <1>4, <1>5, <1>6 DEF PlaceInv
  <2>2. \A j, k \in DOMAIN backlog' : backlog'[j] = backlog'[k] => j = k
    <3> SUFFICES ASSUME NEW j \in DOMAIN backlog', NEW k \in DOMAIN backlog', backlog'[j] = backlog'[k]
                 PROVE  j = k
      OBVIOUS
    <3>1. j + 1 = k + 1 /\ j \in Nat /\ k \in Nat
      BY <1>3 DEF PlaceInv
    <3>2. QED  BY <3>1
  <2>3. QED  BY <1>1, <2>1, <2>2 DEF PlaceInv
<1>10. TalkInv'
  <2>1. NoneBeyond' => NoneBeyond
    BY <1>1 DEF NoneBeyond, Typed!Beyond
  <2>2. ASSUME NEW d \in Clients PROVE Aside(d)
    BY <1>1, <1>6, <2>1 DEF Aside, Typed!Held
  <2>3. QED  BY <2>2, AsideKeeps DEF TalkInv
<1>11. QED  BY <1>7, <1>8, <1>9, <1>10

\* What recv() of the type may leave in the stream.
LEMMA AtoiFacts ==
  ASSUME TypedIInv, NEW c \in Clients, NEW got \in Typed!Atoi(c)
  PROVE  /\ got[2] \in Seq(ToServerKinds)
         /\ \/ got[1] \in {type[c], Typed!NoType}
            \/ type[c] = 0 /\ toServer[c] \notin {<<>>, <<"type">>}
         /\ toServer[c] \in {<<>>, <<"type">>} => got[2] = <<>>
<1> USE TypesHold DEF TypedIInv
<1>1. toServer[c] \in Seq(ToServerKinds) /\ <<>> \in Seq(ToServerKinds)
  BY DEF Types
<1>2. CASE toServer[c] = <<>>
  <2>1. Typed!Atoi(c) = {<<Typed!NoType, <<>>>>}
    BY <1>2 DEF Typed!Atoi
  <2>2. got = <<Typed!NoType, <<>>>>
    BY <2>1
  <2>3. got[1] = Typed!NoType /\ got[2] = <<>>
    BY <2>2
  <2>4. QED  BY <1>1, <2>3
<1>3. CASE toServer[c] = <<"type">>
  <2>1. toServer[c] # <<>>
    BY <1>3
  <2>2. Typed!Atoi(c) = {<<type[c], <<>>>>}
    BY <1>3, <2>1 DEF Typed!Atoi
  <2>3. got = <<type[c], <<>>>>
    BY <2>2
  <2>4. got[1] = type[c] /\ got[2] = <<>>
    BY <2>3
  <2>5. QED  BY <1>1, <2>4
<1>4. CASE toServer[c] # <<>> /\ toServer[c] # <<"type">>
  <2>1. Tail(toServer[c]) \in Seq(ToServerKinds)
    BY <1>1, <1>4
  <2>2. Typed!Atoi(c) = Typed!WithText(type[c]) \X {<<>>, Tail(toServer[c])}
    BY <1>4 DEF Typed!Atoi
  <2>3. got[1] \in Typed!WithText(type[c]) /\ got[2] \in {<<>>, Tail(toServer[c])}
    BY <2>2
  <2>4. got[1] \in {type[c], Typed!NoType} \/ type[c] = 0
    BY <2>3 DEF Typed!WithText
  <2>5. QED  BY <1>1, <1>4, <2>1, <2>3, <2>4
<1>5. QED  BY <1>2, <1>3, <1>4

\* What becomes of the client whose type was read: it is passed to s, ...
PassedTo(c, s) ==
  /\ s \in alive /\ inbox' = [inbox EXCEPT ![s] = Append(inbox[s], c)] /\ mpc' = "accept"
  /\ UNCHANGED <<toClient, fin>>

\* ... or the server ends, as the service does not exist any more, ...
EndsBy(s) == s \notin alive /\ mpc' = "dead" /\ UNCHANGED <<inbox, toClient, fin>>

\* ... or, with a number beyond nusfd[], it is lost, or the server ends, ...
LostBeyond(c) ==
  Typed!Beyond(c)' /\ mpc' \in {"accept", "dead"} /\ UNCHANGED <<inbox, toClient, fin>>

\* ... or another client gets two bytes, ...
JunkTo(c, d) ==
  /\ Typed!Beyond(c)' /\ Typed!Put(d, "junk") /\ UNCHANGED inbox
  /\ mpc' = IF Typed!Broken(d) THEN "dead" ELSE "accept"

\* ... or it is refused.
LEMMA RecvOutcome ==
  ASSUME TypedIInv, Typed!RecvType
  PROVE  \E c \in cur :
           /\ toServer[c] # <<>> \/ fin[c] # "no"
           /\ \E q \in Seq(ToServerKinds) :
                /\ toServer' = [toServer EXCEPT ![c] = q]
                /\ toServer[c] \in {<<>>, <<"type">>} => q = <<>>
           /\ \/ \E s \in Typed!Services : PassedTo(c, s) \/ EndsBy(s)
              \/ LostBeyond(c)
              \/ \E d \in Clients : JunkTo(c, d)
              \/ Typed!Refuse(c)
           /\ cut' = IF Len(toServer[c]) > 1 THEN cut \union {c} ELSE cut
<1> USE TypesHold DEF TypedIInv
<1>1. PICK c \in cur :
        /\ toServer[c] # <<>> \/ fin[c] # "no"
        /\ \E got \in Typed!Atoi(c) :
             /\ toServer' = [toServer EXCEPT ![c] = got[2]]
             /\ \/ got[1] \in Typed!Known /\ got[1] <= 2 /\ Typed!Pass(c, nusfd[got[1]])
                \/ got[1] \in Typed!Known /\ got[1] > 2  /\ Typed!PassBeyond(c)
                \/ got[1] \notin Typed!Known /\ Typed!Refuse(c)
        /\ cut' = IF Len(toServer[c]) > 1 THEN cut \union {c} ELSE cut
  BY DEF Typed!RecvType
<1>2. c \in Clients
  BY DEF Typed!TypeOK
<1>3. PICK got \in Typed!Atoi(c) :
        /\ toServer' = [toServer EXCEPT ![c] = got[2]]
        /\ \/ got[1] \in Typed!Known /\ got[1] <= 2 /\ Typed!Pass(c, nusfd[got[1]])
           \/ got[1] \in Typed!Known /\ got[1] > 2  /\ Typed!PassBeyond(c)
           \/ got[1] \notin Typed!Known /\ Typed!Refuse(c)
  BY <1>1
<1>4. /\ got[2] \in Seq(ToServerKinds)
      /\ \/ got[1] \in {type[c], Typed!NoType}
         \/ type[c] = 0 /\ toServer[c] \notin {<<>>, <<"type">>}
      /\ toServer[c] \in {<<>>, <<"type">>} => got[2] = <<>>
  BY <1>2, AtoiFacts
<1>5. \A s : Typed!Pass(c, s) => PassedTo(c, s) \/ EndsBy(s)
  BY DEF Typed!Pass, PassedTo, EndsBy
<1>6. CASE got[1] \in Typed!Known /\ got[1] <= 2 /\ Typed!Pass(c, nusfd[got[1]])
  <2>1. got[1] \in 1 .. 2 /\ nusfd \in [1 .. 2 -> Typed!Services]
    BY <1>6 DEF Typed!Known, Typed!NoOfService, Typed!TypeOK
  <2>2. nusfd[got[1]] \in Typed!Services
    BY <2>1
  <2>3. QED  BY <1>1, <1>3, <1>4, <1>5, <1>6, <2>2
<1>7. CASE got[1] \in Typed!Known /\ got[1] > 2 /\ Typed!PassBeyond(c)
  <2>1. Typed!Beyond(c)'
    <3>1. type' = type
      BY DEF Typed!RecvType, Typed!clientVars
    <3>2. CASE got[1] \in {type[c], Typed!NoType}
      <4>1. type[c] \in 3 .. Typed!NoOfService
        BY <1>7, <3>2 DEF Typed!NoType, Typed!Known, Typed!NoOfService
      <4>2. QED  BY <3>1, <4>1 DEF Typed!Beyond
    <3>3. CASE type[c] = 0 /\ toServer[c] \notin {<<>>, <<"type">>}
      <4>1. toServer[c] = <<"type", "line">>
        BY <1>1, <1>2, <3>3 DEF TalkInv, Beginning, Waiting
      <4>2. Len(toServer[c]) > 1
        BY <4>1
      <4>3. QED  BY <1>1, <3>1, <3>3, <4>2 DEF Typed!Beyond
    <3>4. QED  BY <1>4, <3>2, <3>3
  <2>2. \/ \E s \in Typed!Services : PassedTo(c, s) \/ EndsBy(s)
        \/ LostBeyond(c)
        \/ \E d \in Clients : JunkTo(c, d)
    BY <1>5, <1>7, <2>1 DEF Typed!PassBeyond, LostBeyond, JunkTo, Typed!Accepted
  <2>3. QED  BY <1>1, <1>3, <1>4, <2>2
<1>8. QED  BY <1>1, <1>3, <1>4, <1>6, <1>7

\* The server is done with c, whichever way.
RecvMoves(c, q) ==
  /\ c \in cur /\ mpc = "recv" /\ mpc' \in {"accept", "dead"} /\ cur' = {}
  /\ toServer[c] # <<>> \/ fin[c] # "no"
  /\ toServer' = [toServer EXCEPT ![c] = q] /\ q \in Seq(ToServerKinds)
  /\ toServer[c] \in {<<>>, <<"type">>} => q = <<>>
  /\ cut' = IF Len(toServer[c]) > 1 THEN cut \union {c} ELSE cut
  /\ UNCHANGED <<nusfd, alive, tpc, by, backlog, cpc, type>>
  /\ toClient' \in [Clients -> Seq(ToClientKinds)] /\ fin' \in [Clients -> Ends]
  /\ \A d \in Clients : /\ fin[d] = "no" <=> fin'[d] = "no"
                        /\ fin[d] \in {"closed", "reset"} => fin'[d] = fin[d]

\* The clients that get nothing do not notice it.
LEMMA RecvKeeps ==
  ASSUME TypedIInv, NEW c \in Clients, NEW q, RecvMoves(c, q)
  PROVE  /\ UserInv' /\ Remembers /\ (NoneBeyond' => NoneBeyond)
         /\ Waiting(c) /\ ~Passed(c) /\ tpc[c] = "none" /\ cpc[c] \notin {"away", "type"}
         /\ ~Waiting(c)'
         /\ \A d \in Clients : /\ Waiting(d)' => Waiting(d)
                               /\ InBacklog(d)' <=> InBacklog(d)
         /\ \A d \in Clients :
              (/\ d # c /\ (Passed(d)' => Passed(d))
               /\ toClient'[d] = toClient[d] /\ fin'[d] = fin[d]) =>
              Beginning(d)' /\ Turn(d)' /\ Coming(d)'
<1> USE TypesHold DEF TypedIInv
<1>1. /\ c \in cur /\ mpc = "recv" /\ cur' = {}
      /\ toServer[c] # <<>> \/ fin[c] # "no"
      /\ toServer' = [toServer EXCEPT ![c] = q]
      /\ cut \subseteq cut'
      /\ UNCHANGED <<nusfd, alive, tpc, by, backlog, cpc, type>>
      /\ \A d \in Clients : /\ fin[d] = "no" <=> fin'[d] = "no"
                            /\ fin[d] \in {"closed", "reset"} => fin'[d] = fin[d]
  BY DEF RecvMoves
<1>2. toServer \in [Clients -> Seq(ToServerKinds)]
  BY DEF Types
<1>3. Remembers /\ (NoneBeyond' => NoneBeyond)
  <2>1. Remembers  BY <1>1 DEF Remembers, Typed!Beyond
  <2>2. QED  BY <2>1, DeathsStay
<1>4. Waiting(c) /\ ~Passed(c) /\ ~InBacklog(c) /\ cpc[c] # "away"
  BY <1>1 DEF PlaceInv, Waiting
<1>5. cpc[c] # "type" /\ tpc[c] = "none"
  <2>1. cpc[c] # "type"   BY <1>1, <1>4 DEF TalkInv, Beginning, UserInv
  <2>2. QED  BY <1>4, <2>1 DEF Passed
<1>6. \A d \in Clients : InBacklog(d)' <=> InBacklog(d)
  BY <1>1 DEF InBacklog
<1>7. ~Waiting(c)' /\ \A d \in Clients : Waiting(d)' => Waiting(d)
  BY <1>1, <1>4, <1>6 DEF Waiting
<1>8. ASSUME NEW d \in Clients, d # c, Passed(d)' => Passed(d),
             toClient'[d] = toClient[d], fin'[d] = fin[d]
      PROVE  Beginning(d)' /\ Turn(d)' /\ Coming(d)'
  <2>1. toServer'[d] = toServer[d]
    BY <1>1, <1>2, <1>8
  <2>2. Typed!Held(d)
    BY <1>1 DEF Typed!Held
  <2>3. Aside(d)
    BY <1>1, <1>3, <1>7, <1>8, <2>1, <2>2 DEF Aside
  <2>4. QED  BY <2>3, AsideKeeps DEF TalkInv
<1>9. UserInv'
  <2>1. \A d \in Clients : d # c => (d \in cut' <=> d \in cut)
    BY DEF RecvMoves
  <2>2. cpc'[c] \notin {"away", "type"}
    BY <1>1, <1>4, <1>5
  <2>3. QED  BY <1>1, <2>1, <2>2 DEF UserInv
<1>10. QED  BY <1>3, <1>4, <1>5, <1>6, <1>7, <1>8, <1>9

LEMMA RecvTypes ==
  ASSUME TypedIInv, NEW c \in Clients, NEW q, RecvMoves(c, q), inbox' \in [Typed!Services -> Seq(Clients)]
  PROVE  Typed!TypeOK'
<1>1. Typed!TypeOK /\ cut \subseteq Clients
  BY DEF TypedIInv, Typed!TypeOK
<1>2. toServer' \in [Clients -> Seq(ToServerKinds)]
  BY <1>1, TypesHold DEF Types, RecvMoves
<1>3. cut' \subseteq Clients
  BY <1>1 DEF RecvMoves
<1>4. toClient' \in [Clients -> Seq(ToClientKinds)] /\ fin' \in [Clients -> Ends]
  BY DEF RecvMoves
<1>5. cur' = {} /\ mpc' \in {"accept", "dead"} /\ UNCHANGED <<nusfd, alive, tpc, by, backlog, cpc, type>>
  BY DEF RecvMoves
<1>6. QED  BY <1>1, <1>2, <1>3, <1>4, <1>5 DEF Typed!TypeOK, ToClientKinds, ToServerKinds, Ends

\* The client is the last of the inbox of s, and nowhere else.
LEMMA PassStep ==
  ASSUME TypedIInv, NEW c \in Clients, NEW q, RecvMoves(c, q), NEW s \in Typed!Services, PassedTo(c, s)
  PROVE  TypedIInv'
<1> USE TypesHold DEF TypedIInv
<1>1. /\ s \in alive /\ inbox' = [inbox EXCEPT ![s] = Append(inbox[s], c)] /\ mpc' = "accept"
      /\ UNCHANGED <<toClient, fin, alive, tpc, by, backlog, cpc, type>> /\ cur' = {}
      /\ toServer' = [toServer EXCEPT ![c] = q] /\ mpc = "recv"
      /\ toServer[c] \in {<<>>, <<"type">>} => q = <<>>
      /\ cut' = IF Len(toServer[c]) > 1 THEN cut \union {c} ELSE cut
  BY DEF PassedTo, RecvMoves
<1>2. /\ UserInv' /\ Remembers /\ (NoneBeyond' => NoneBeyond)
      /\ Waiting(c) /\ ~Passed(c) /\ tpc[c] = "none" /\ cpc[c] \notin {"away", "type"}
      /\ ~Waiting(c)'
      /\ \A d \in Clients : /\ Waiting(d)' => Waiting(d)
                            /\ InBacklog(d)' <=> InBacklog(d)
      /\ \A d \in Clients :
           (/\ d # c /\ (Passed(d)' => Passed(d))
            /\ toClient'[d] = toClient[d] /\ fin'[d] = fin[d]) =>
           Beginning(d)' /\ Turn(d)' /\ Coming(d)'
  BY RecvKeeps
<1>3. /\ inbox \in [Typed!Services -> Seq(Clients)] /\ toServer \in [Clients -> Seq(ToServerKinds)]
      /\ inbox[s] \in Seq(Clients)
  BY DEF Types
<1>4. /\ inbox'[s] \in Seq(Clients) /\ inbox'[s] = Append(inbox[s], c)
      /\ \A t \in Typed!Services : t # s => inbox'[t] = inbox[t]
      /\ inbox' \in [Typed!Services -> Seq(Clients)]
  BY <1>1, <1>3, AppendIs
<1>5. /\ Len(inbox[s]) \in Nat
      /\ DOMAIN inbox[s] = 1 .. Len(inbox[s]) /\ DOMAIN inbox'[s] = 1 .. Len(inbox[s]) + 1
      /\ \A j \in 1 .. Len(inbox[s]) : inbox'[s][j] = inbox[s][j]
      /\ inbox'[s][Len(inbox[s]) + 1] = c
  <2>1. DOMAIN inbox[s] = 1 .. Len(inbox[s]) /\ Len(inbox[s]) \in Nat
    BY <1>3
  <2>2. /\ Len(inbox'[s]) = Len(inbox[s]) + 1
        /\ \A j \in 1 .. Len(inbox[s]) : inbox'[s][j] = inbox[s][j]
        /\ inbox'[s][Len(inbox[s]) + 1] = c
    BY <1>3, <1>4, AppendIs
  <2>3. DOMAIN inbox'[s] = 1 .. Len(inbox'[s])
    BY <1>4
  <2>4. QED  BY <2>1, <2>2, <2>3
<1>6. ASSUME NEW t \in Typed!Services, NEW j \in DOMAIN inbox'[t]
      PROVE  \/ j \in DOMAIN inbox[t] /\ inbox'[t][j] = inbox[t][j]
             \/ t = s /\ j = Len(inbox[s]) + 1 /\ inbox'[t][j] = c
  <2>1. CASE t = s
    <3>1. j \in 1 .. Len(inbox[s]) \/ j = Len(inbox[s]) + 1
      BY <1>5, <2>1
    <3>2. QED  BY <1>5, <2>1, <3>1
  <2>2. CASE t # s
    BY <1>4, <2>2
  <2>3. QED  BY <2>1, <2>2
<1>7. \A t \in Typed!Services : \A j \in DOMAIN inbox[t] : inbox[t][j] # c
  BY <1>2 DEF Passed, Queued
<1>8. \A d \in Clients : Queued(d)' => Queued(d) \/ d = c
  BY <1>6 DEF Queued
<1>9. \A d \in Clients : d # c => (Passed(d)' => Passed(d))
  BY <1>1, <1>8 DEF Passed
<1>10. Typed!TypeOK'
  BY <1>4, RecvTypes
<1>11. Typed!DeathsSpread'
  <2>1. mpc' # "dead" /\ mpc # "dead" /\ UNCHANGED alive
    BY <1>1
  <2>2. QED  BY <1>2, <2>1, DeathsStay DEF Typed!DeathsSpread
<1>12. PlaceInv'
  <2>1. \A d \in Clients :
          /\ tpc'[d] = "none" <=> by'[d] = "none"
          /\ Queued(d)' => tpc'[d] = "none"
          /\ Waiting(d)' => ~Passed(d)'
          /\ Passed(d)' => cpc'[d] \notin {"away", "type"}
          /\ InBacklog(d)' => cpc'[d] # "away" /\ d \notin cur'
          /\ d \in cur' => cpc'[d] # "away"
    <3>1. UNCHANGED <<tpc, by, cpc>> /\ cur' = {}  BY <1>1
    <3>2. QED  BY <1>2, <1>8, <1>9, <3>1 DEF PlaceInv
  <2>2. \A j, k \in DOMAIN backlog' : backlog'[j] = backlog'[k] => j = k
    BY <1>1 DEF PlaceInv
  <2>3. ASSUME NEW t \in Typed!Services, NEW u \in Typed!Services,
               NEW j \in DOMAIN inbox'[t], NEW k \in DOMAIN inbox'[u], inbox'[t][j] = inbox'[u][k]
        PROVE  t = u /\ j = k
    <3>1. \A v, w \in Typed!Services : \A a \in DOMAIN inbox[v], b \in DOMAIN inbox[w] :
            inbox[v][a] = inbox[w][b] => v = w /\ a = b
      BY DEF PlaceInv
    <3>2. CASE j \in DOMAIN inbox[t] /\ inbox'[t][j] = inbox[t][j]
      <4>1. inbox'[t][j] # c
        BY <1>7, <3>2
      <4>2. k \in DOMAIN inbox[u] /\ inbox'[u][k] = inbox[u][k]
        BY <1>6, <2>3, <4>1
      <4>3. inbox[t][j] = inbox[u][k] /\ j \in DOMAIN inbox[t] /\ k \in DOMAIN inbox[u]
        BY <2>3, <3>2, <4>2
      <4>4. QED  BY <3>1, <4>3
    <3>3. CASE t = s /\ j = Len(inbox[s]) + 1 /\ inbox'[t][j] = c
      <4>1. ~(k \in DOMAIN inbox[u] /\ inbox'[u][k] = inbox[u][k])
        BY <1>7, <2>3, <3>3
      <4>2. u = s /\ k = Len(inbox[s]) + 1
        BY <1>6, <4>1
      <4>3. QED  BY <3>3, <4>2
    <3>4. QED  BY <1>6, <3>2, <3>3
  <2>4. QED  BY <2>1, <2>2, <2>3 DEF PlaceInv
<1>13. TalkInv'
  <2>1. \A d \in Clients : d # c => Beginning(d)' /\ Turn(d)' /\ Coming(d)'
    <3>1. \A d \in Clients : toClient'[d] = toClient[d] /\ fin'[d] = fin[d]  BY <1>1
    <3>2. QED  BY <1>2, <1>9, <3>1
  <2>2. Beginning(c)'
    BY <1>2 DEF Beginning
  <2>3. toServer'[c] = q /\ UNCHANGED <<tpc, cpc, toClient, fin>>
    BY <1>1, <1>3
  <2>4. Turn(c)'
    <3> SUFFICES ASSUME NoneBeyond PROVE Turn(c)'
      BY <1>2 DEF Turn
    <3>1. /\ toClient[c] = <<>> /\ fin[c] \in {"no", "fin"}
          /\ cpc[c] = "line" => toServer[c] = <<"type">>
      BY <1>1, <1>2 DEF TalkInv, Beginning
    <3>2. cpc[c] = "line" => q = <<>>
      BY <1>1, <3>1
    <3>3. QED  BY <1>2, <2>3, <3>1, <3>2 DEF Turn
  <2>5. Coming(c)'
    <3> SUFFICES ASSUME cpc[c] = "wait" PROVE c \in cut'
      BY <1>1 DEF Coming
    <3>1. toServer[c] = <<"type", "line">>
      BY <1>2 DEF TalkInv, Beginning
    <3>2. Len(toServer[c]) > 1
      BY <3>1
    <3>3. QED  BY <1>1, <3>2
  <2>6. QED  BY <2>1, <2>2, <2>4, <2>5 DEF TalkInv
<1>14. QED  BY <1>2, <1>10, <1>11, <1>12, <1>13

\* The client goes nowhere; at most one client, itself or another, is sent something.
LEMMA DropStep ==
  ASSUME TypedIInv, NEW c \in Clients, NEW q, RecvMoves(c, q), UNCHANGED inbox,
         mpc' = "dead" => \/ ~NoneBeyond'
                          \/ \E s \in Typed!Services \ alive : Typed!KilledBy(s),
         \A d \in Clients : \/ d = c
                            \/ toClient'[d] = toClient[d] /\ fin'[d] = fin[d]
                            \/ fin[d] # "no" /\ toClient'[d] = toClient[d] /\ ~NoneBeyond'
                            \/ toClient'[d] # <<>> /\ ~NoneBeyond'
  PROVE  TypedIInv'
<1> USE TypesHold DEF TypedIInv
<1>1. /\ UNCHANGED <<inbox, alive, tpc, by, backlog, cpc, type>> /\ cur' = {}
      /\ toServer' = [toServer EXCEPT ![c] = q] /\ mpc = "recv"
      /\ cut \subseteq cut'
  BY DEF RecvMoves
<1>2. /\ UserInv' /\ Remembers /\ (NoneBeyond' => NoneBeyond)
      /\ Waiting(c) /\ ~Passed(c) /\ tpc[c] = "none" /\ cpc[c] \notin {"away", "type"}
      /\ ~Waiting(c)'
      /\ \A d \in Clients : /\ Waiting(d)' => Waiting(d)
                            /\ InBacklog(d)' <=> InBacklog(d)
      /\ \A d \in Clients :
           (/\ d # c /\ (Passed(d)' => Passed(d))
            /\ toClient'[d] = toClient[d] /\ fin'[d] = fin[d]) =>
           Beginning(d)' /\ Turn(d)' /\ Coming(d)'
  BY RecvKeeps
<1>3. \A d \in Clients : (Queued(d)' <=> Queued(d)) /\ (Passed(d)' <=> Passed(d))
  BY <1>1 DEF Queued, Passed
<1>4. toServer \in [Clients -> Seq(ToServerKinds)] /\ inbox \in [Typed!Services -> Seq(Clients)]
  BY DEF Types
<1>5. Typed!TypeOK'
  BY <1>1, <1>4, RecvTypes
<1>6. Typed!DeathsSpread'
  <2>1. (Typed!Stray => Typed!Stray') /\ \A s \in Typed!Services : Typed!KilledBy(s) => Typed!KilledBy(s)'
    BY <1>2, DeathsStay
  <2>2. mpc # "dead" /\ alive' = alive
    BY <1>1
  <2>3. mpc' = "dead" => ~NoneBeyond' \/ \E s \in Typed!Services \ alive' : Typed!KilledBy(s)'
    BY <2>1, <2>2
  <2>4. \A s \in Typed!Services \ alive' : mpc' = "dead" \/ Typed!KilledBy(s)' \/ Typed!Stray'
    BY <2>1, <2>2 DEF Typed!DeathsSpread
  <2>5. QED  BY <2>3, <2>4 DEF Typed!DeathsSpread, NoneBeyond
<1>7. PlaceInv'
  <2>1. \A d \in Clients :
          /\ tpc'[d] = "none" <=> by'[d] = "none"
          /\ Queued(d)' => tpc'[d] = "none"
          /\ Waiting(d)' => ~Passed(d)'
          /\ Passed(d)' => cpc'[d] \notin {"away", "type"}
          /\ InBacklog(d)' => cpc'[d] # "away" /\ d \notin cur'
          /\ d \in cur' => cpc'[d] # "away"
    <3>1. UNCHANGED <<tpc, by, cpc>> /\ cur' = {}  BY <1>1
    <3>2. QED  BY <1>2, <1>3, <3>1 DEF PlaceInv
  <2>2. UNCHANGED <<inbox, backlog>>
    BY <1>1
  <2>3. QED  BY <2>1, <2>2 DEF PlaceInv
<1>8. Beginning(c)' /\ Turn(c)' /\ Coming(c)'
  <2>1. ~Passed(c)'   BY <1>2, <1>3
  <2>2. QED  BY <1>2, <2>1 DEF Beginning, Turn, Coming
<1>9. ASSUME NEW d \in Clients, d # c PROVE Beginning(d)' /\ Turn(d)' /\ Coming(d)'
  <2>1. CASE toClient'[d] = toClient[d] /\ fin'[d] = fin[d]
    BY <1>2, <1>3, <1>9, <2>1
  <2>2. CASE /\ ~NoneBeyond'
             /\ (fin[d] # "no" /\ toClient'[d] = toClient[d]) \/ toClient'[d] # <<>>
    <3>1. toServer'[d] = toServer[d] /\ UNCHANGED <<tpc, cpc>>
      BY <1>1, <1>4, <1>9
    <3>2. Beginning(d)'
      BY <1>2, <2>2, <3>1 DEF TalkInv, Beginning
    <3>3. Turn(d)'
      BY <2>2 DEF Turn
    <3>4. Coming(d)'
      BY <1>1, <1>3, <2>2, <3>1 DEF TalkInv, Coming, UserInv
    <3>5. QED  BY <3>2, <3>3, <3>4
  <2>3. QED  BY <1>9, <2>1, <2>2
<1>10. TalkInv'
  BY <1>8, <1>9 DEF TalkInv
<1>11. QED  BY <1>2, <1>5, <1>6, <1>7, <1>10

LEMMA TypedRecvType == ASSUME TypedIInv, Typed!RecvType PROVE TypedIInv'
<1> USE TypesHold DEF TypedIInv
<1>1. /\ mpc = "recv" /\ cur' = {} /\ cur \subseteq Clients
      /\ UNCHANGED <<nusfd, alive, tpc, by, backlog, cpc, type>>
  BY DEF Typed!RecvType, Typed!clientVars, Typed!TypeOK
<1>2. /\ toClient \in [Clients -> Seq(ToClientKinds)] /\ fin \in [Clients -> Ends]
  BY DEF Types
<1>3. PICK c \in cur :
        /\ toServer[c] # <<>> \/ fin[c] # "no"
        /\ \E q \in Seq(ToServerKinds) :
             /\ toServer' = [toServer EXCEPT ![c] = q]
             /\ toServer[c] \in {<<>>, <<"type">>} => q = <<>>
        /\ \/ \E s \in Typed!Services : PassedTo(c, s) \/ EndsBy(s)
           \/ LostBeyond(c)
           \/ \E d \in Clients : JunkTo(c, d)
           \/ Typed!Refuse(c)
        /\ cut' = IF Len(toServer[c]) > 1 THEN cut \union {c} ELSE cut
  BY RecvOutcome
<1>4. PICK q \in Seq(ToServerKinds) :
        /\ toServer' = [toServer EXCEPT ![c] = q]
        /\ toServer[c] \in {<<>>, <<"type">>} => q = <<>>
  BY <1>3
<1>5. c \in Clients
  BY <1>1
<1>6. ASSUME mpc' \in {"accept", "dead"},
             toClient' \in [Clients -> Seq(ToClientKinds)], fin' \in [Clients -> Ends],
             \A d \in Clients : /\ fin[d] = "no" <=> fin'[d] = "no"
                                /\ fin[d] \in {"closed", "reset"} => fin'[d] = fin[d]
      PROVE  RecvMoves(c, q)
  BY <1>1, <1>3, <1>4, <1>6 DEF RecvMoves
<1>7. CASE \E s \in Typed!Services : PassedTo(c, s)
  <2>1. PICK s \in Typed!Services : PassedTo(c, s)
    BY <1>7
  <2>2. RecvMoves(c, q)
    BY <1>2, <1>6, <2>1 DEF PassedTo
  <2>3. QED  BY <1>5, <2>1, <2>2, PassStep
<1>8. CASE \E s \in Typed!Services : EndsBy(s)
  <2>1. PICK s \in Typed!Services : EndsBy(s)
    BY <1>8
  <2>2. s \notin alive /\ mpc' = "dead" /\ UNCHANGED <<inbox, toClient, fin>>
    BY <2>1 DEF EndsBy
  <2>3. RecvMoves(c, q)
    BY <1>2, <1>6, <2>2
  <2>4. Typed!Stray \/ Typed!KilledBy(s)
    BY <1>1, <2>2 DEF Typed!DeathsSpread
  <2>5. Typed!Stray => ~NoneBeyond'
    BY <1>5, <2>3, RecvKeeps DEF Typed!Stray, NoneBeyond
  <2>6. QED  BY <1>5, <2>2, <2>3, <2>4, <2>5, DropStep
<1>9. CASE LostBeyond(c)
  <2>1. /\ mpc' \in {"accept", "dead"} /\ UNCHANGED <<inbox, toClient, fin>>
        /\ ~NoneBeyond'
    BY <1>5, <1>9 DEF LostBeyond, NoneBeyond
  <2>2. RecvMoves(c, q)
    BY <1>2, <1>6, <2>1
  <2>3. QED  BY <1>5, <2>1, <2>2, DropStep
<1>10. CASE \E d \in Clients : JunkTo(c, d)
  <2>1. PICK d \in Clients : JunkTo(c, d)
    BY <1>10
  <2>2. /\ Typed!Beyond(c)' /\ Typed!Put(d, "junk") /\ UNCHANGED inbox
        /\ mpc' = IF Typed!Broken(d) THEN "dead" ELSE "accept"
    BY <2>1 DEF JunkTo
  <2>3. "junk" \in ToClientKinds
    BY DEF ToClientKinds
  <2>4. /\ toClient' \in [Clients -> Seq(ToClientKinds)] /\ fin' \in [Clients -> Ends]
        /\ \A e \in Clients : e # d => toClient'[e] = toClient[e] /\ fin'[e] = fin[e]
        /\ \/ fin[d] = "no" /\ fin'[d] = "no" /\ toClient'[d] # <<>>
           \/ fin[d] # "no" /\ toClient'[d] = toClient[d] /\ fin'[d] \in {"closed", "reset"}
        /\ fin[d] \in {"closed", "reset"} => fin'[d] = fin[d]
    BY <1>2, <2>2, <2>3, PutFacts
  <2>5. mpc' \in {"accept", "dead"} /\ ~NoneBeyond'
    BY <1>5, <2>2 DEF NoneBeyond
  <2>6. RecvMoves(c, q)
    BY <1>6, <2>4, <2>5
  <2>7. QED  BY <1>5, <2>2, <2>4, <2>5, <2>6, DropStep
<1>11. CASE Typed!Refuse(c)
  <2>1. Typed!Put(c, "sorry") /\ mpc' = "accept" /\ UNCHANGED inbox
    BY <1>11 DEF Typed!Refuse
  <2>2. "sorry" \in ToClientKinds
    BY DEF ToClientKinds
  <2>3. /\ toClient' \in [Clients -> Seq(ToClientKinds)] /\ fin' \in [Clients -> Ends]
        /\ \A e \in Clients : e # c => toClient'[e] = toClient[e] /\ fin'[e] = fin[e]
        /\ \/ fin[c] = "no" /\ fin'[c] = "no"
           \/ fin[c] # "no" /\ fin'[c] \in {"closed", "reset"}
        /\ fin[c] \in {"closed", "reset"} => fin'[c] = fin[c]
    BY <1>2, <1>5, <2>1, <2>2, PutFacts
  <2>4. RecvMoves(c, q)
    BY <1>6, <2>1, <2>3
  <2>5. QED  BY <1>5, <2>1, <2>3, <2>4, DropStep
<1>12. QED  BY <1>3, <1>7, <1>8, <1>9, <1>10, <1>11

-----------------------------------------------------------------------------
(* The services *)

\* The first of the inbox gets a thread: it was there once, and nowhere else.
LEMMA TypedReadFd == ASSUME TypedIInv, NEW s \in Typed!Services, Typed!ReadFd(s) PROVE TypedIInv'
<1> USE TypesHold DEF TypedIInv
<1>1. inbox \in [Typed!Services -> Seq(Clients)] /\ inbox[s] \in Seq(Clients)
  BY DEF Types
<1>2. PICK c \in Clients :
        /\ s \in alive /\ inbox[s] # <<>> /\ c = Head(inbox[s])
        /\ inbox' = [inbox EXCEPT ![s] = Tail(inbox[s])]
        /\ tpc' = [tpc EXCEPT ![c] = "recv"] /\ by' = [by EXCEPT ![c] = s]
        /\ UNCHANGED <<mpc, cur, nusfd, alive, backlog, toClient, toServer, fin, cpc, type, cut>>
  <2>1. inbox[s] # <<>>             BY DEF Typed!ReadFd
  <2>2. Head(inbox[s]) \in Clients  BY <1>1, <2>1
  <2>3. QED  BY <2>2 DEF Typed!ReadFd, Typed!serverVars, Typed!streamVars, Typed!clientVars
<1>3. /\ inbox'[s] \in Seq(Clients) /\ 1 \in DOMAIN inbox[s] /\ inbox[s][1] = c
      /\ \A j \in DOMAIN inbox'[s] : j + 1 \in DOMAIN inbox[s] /\ inbox'[s][j] = inbox[s][j + 1]
      /\ DOMAIN inbox'[s] \subseteq Nat \ {0} /\ DOMAIN inbox[s] \subseteq Nat
  <2>1. inbox'[s] = Tail(inbox[s]) /\ inbox[s] # <<>> /\ c = Head(inbox[s])
    BY <1>1, <1>2
  <2>2. QED  BY <1>1, <2>1
<1>4. \A t \in Typed!Services : t # s => inbox'[t] = inbox[t]
  BY <1>1, <1>2
<1>5. \A v, w \in Typed!Services : \A a \in DOMAIN inbox[v], b \in DOMAIN inbox[w] :
        inbox[v][a] = inbox[w][b] => v = w /\ a = b
  BY DEF PlaceInv
<1>6. Queued(c) /\ tpc[c] = "none" /\ by[c] = "none" /\ ~Waiting(c) /\ Passed(c)
  BY <1>3 DEF Queued, Passed, PlaceInv
\* The element of the shorter inbox is one of the longer inbox.
<1>7. ASSUME NEW t \in Typed!Services, NEW j \in DOMAIN inbox'[t]
      PROVE  \E k \in DOMAIN inbox[t] : /\ inbox'[t][j] = inbox[t][k] /\ inbox[t][k] # c
                                        /\ k = IF t = s THEN j + 1 ELSE j
  <2>1. CASE t = s
    <3>1. j + 1 \in DOMAIN inbox[s] /\ inbox'[s][j] = inbox[s][j + 1] /\ j + 1 # 1
      BY <1>3, <2>1
    <3>2. inbox[s][j + 1] # c
      BY <1>3, <1>5, <3>1
    <3>3. QED  BY <2>1, <3>1, <3>2
  <2>2. CASE t # s
    <3>1. j \in DOMAIN inbox[t] /\ inbox'[t][j] = inbox[t][j]
      BY <1>4, <2>2
    <3>2. inbox[t][j] # c
      BY <1>3, <1>5, <2>2, <3>1
    <3>3. QED  BY <2>2, <3>1, <3>2
  <2>3. QED  BY <2>1, <2>2
<1>8. /\ tpc'[c] = "recv" /\ by'[c] = s
      /\ \A d \in Clients : d # c => tpc'[d] = tpc[d] /\ by'[d] = by[d]
      /\ tpc' \in [Clients -> {"none", "recv", "send", "end"}]
      /\ by' \in [Clients -> Typed!Services \union {"none"}]
      /\ s # "none"
  <2>1. /\ tpc \in [Clients -> {"none", "recv", "send", "end"}]
        /\ by \in [Clients -> Typed!Services \union {"none"}]
    BY DEF Types
  <2>2. s # "none"
    BY DEF Typed!Services
  <2>3. QED  BY <1>2, <2>1, <2>2
<1>9. ASSUME NEW d \in Clients
      PROVE  /\ Queued(d)' => Queued(d) /\ d # c
             /\ InBacklog(d)' <=> InBacklog(d)
             /\ Waiting(d)' <=> Waiting(d)
             /\ Passed(d)' => Passed(d)
  <2>1. Queued(d)' => Queued(d) /\ d # c
    <3> SUFFICES ASSUME NEW t \in Typed!Services, NEW j \in DOMAIN inbox'[t], inbox'[t][j] = d
                 PROVE  Queued(d) /\ d # c
      BY DEF Queued
    <3>1. PICK k \in DOMAIN inbox[t] : inbox'[t][j] = inbox[t][k] /\ inbox[t][k] # c
      BY <1>7
    <3>2. QED  BY <3>1 DEF Queued
  <2>2. InBacklog(d)' <=> InBacklog(d)
    BY <1>2 DEF InBacklog
  <2>3. Waiting(d)' <=> Waiting(d)
    BY <1>2, <2>2 DEF Waiting
  <2>4. Passed(d)' => Passed(d)
    BY <1>6, <1>8, <2>1 DEF Passed
  <2>5. QED  BY <2>1, <2>2, <2>3, <2>4
<1>10. Typed!TypeOK'
  <2>1. inbox' \in [Typed!Services -> Seq(Clients)]
    BY <1>1, <1>2, <1>3
  <2>2. QED  BY <1>2, <1>8, <2>1 DEF Typed!TypeOK
<1>11. Typed!DeathsSpread'
  <2>1. Remembers
    BY <1>2, <1>6, <1>8 DEF Remembers, Typed!Beyond
  <2>2. QED  BY <1>2, <2>1, DeathsKept
<1>12. UserInv'
  BY <1>2 DEF UserInv
<1>13. PlaceInv'
  <2>1. \A d \in Clients :
          /\ tpc'[d] = "none" <=> by'[d] = "none"
          /\ Queued(d)' => tpc'[d] = "none"
          /\ Waiting(d)' => ~Passed(d)'
          /\ Passed(d)' => cpc'[d] \notin {"away", "type"}
          /\ InBacklog(d)' => cpc'[d] # "away" /\ d \notin cur'
          /\ d \in cur' => cpc'[d] # "away"
    <3>1. UNCHANGED <<cpc, cur>>  BY <1>2
    <3>2. QED  BY <1>6, <1>8, <1>9, <3>1 DEF PlaceInv
  <2>2. \A j, k \in DOMAIN backlog' : backlog'[j] = backlog'[k] => j = k
    BY <1>2 DEF PlaceInv
  <2>3. ASSUME NEW t \in Typed!Services, NEW u \in Typed!Services,
               NEW j \in DOMAIN inbox'[t], NEW k \in DOMAIN inbox'[u], inbox'[t][j] = inbox'[u][k]
        PROVE  t = u /\ j = k
    <3>1. PICK a \in DOMAIN inbox[t] : /\ inbox'[t][j] = inbox[t][a]
                                       /\ a = IF t = s THEN j + 1 ELSE j
      BY <1>7
    <3>2. PICK b \in DOMAIN inbox[u] : /\ inbox'[u][k] = inbox[u][b]
                                       /\ b = IF u = s THEN k + 1 ELSE k
      BY <1>7
    <3>3. inbox[t][a] = inbox[u][b]
      BY <2>3, <3>1, <3>2
    <3>4. t = u /\ a = b
      BY <1>5, <3>3
    <3>5. t = s => j \in Nat /\ k \in Nat
      BY <1>3, <3>4
    <3>6. QED  BY <3>1, <3>2, <3>4, <3>5
  <2>4. QED  BY <2>1, <2>2, <2>3 DEF PlaceInv
<1>14. TalkInv'
  <2>1. NoneBeyond' => NoneBeyond
    BY <1>2 DEF NoneBeyond, Typed!Beyond
  <2>2. ASSUME NEW d \in Clients PROVE Typed!Held(d)' => Typed!Held(d)
    <3>1. CASE d = c
      <4>1. \E j \in DOMAIN inbox[s] : inbox[s][j] = c
        BY <1>3
      <4>2. QED  BY <1>2, <3>1, <4>1 DEF Typed!Held
    <3>2. CASE d # c
      <4> SUFFICES ASSUME NEW t \in alive, NEW j \in DOMAIN inbox'[t], inbox'[t][j] = d
                   PROVE  Typed!Held(d)
        BY <1>2, <1>8, <3>2 DEF Typed!Held
      <4>1. t \in Typed!Services
        BY DEF Typed!TypeOK
      <4>2. PICK k \in DOMAIN inbox[t] : inbox'[t][j] = inbox[t][k]
        BY <1>7, <4>1
      <4>3. QED  BY <4>2 DEF Typed!Held
    <3>3. QED  BY <3>1, <3>2
  <2>3. ASSUME NEW d \in Clients, d # c PROVE Aside(d)
    BY <1>2, <1>8, <1>9, <2>1, <2>2, <2>3 DEF Aside
  <2>4. Beginning(c)'
    BY <1>6, <1>9 DEF Beginning
  <2>5. UNCHANGED <<cpc, toClient, toServer, fin, cut>>
    BY <1>2
  <2>6. Turn(c)'
    BY <1>6, <1>8, <2>1, <2>2, <2>5 DEF TalkInv, Turn
  <2>7. Coming(c)'
    BY <1>6, <1>8, <2>5 DEF TalkInv, Coming
  <2>8. QED  BY <2>3, <2>4, <2>6, <2>7, AsideKeeps DEF TalkInv
<1>15. QED  BY <1>10, <1>11, <1>12, <1>13, <1>14

\* A service that spins on the end of the server has run out of its array.
LEMMA TypedOverrun == ASSUME TypedIInv, NEW s \in Typed!Services, Typed!Overrun(s) PROVE TypedIInv'
<1> USE TypesHold DEF TypedIInv
<1>1. /\ mpc = "dead" /\ alive' = alive \ {s}
      /\ UNCHANGED <<mpc, cur, nusfd, inbox, tpc, by, backlog, toClient, toServer, fin, cpc, type, cut>>
  BY DEF Typed!Overrun, Typed!serverVars, Typed!streamVars, Typed!clientVars
<1>2. Typed!TypeOK' /\ UserInv'
  <2>1. Typed!TypeOK'  BY <1>1 DEF Typed!TypeOK
  <2>2. UserInv' BY <1>1 DEF UserInv
  <2>3. QED  BY <2>1, <2>2
<1>3. PlaceInv' /\ \A d \in Clients : (Waiting(d)' <=> Waiting(d)) /\ (Passed(d)' <=> Passed(d))
  BY <1>1, PlaceKept
<1>4. Typed!DeathsSpread'
  <2>1. Remembers
    BY <1>1 DEF Remembers, Typed!Beyond
  <2>2. (NoneBeyond' => NoneBeyond) /\ \A t \in Typed!Services : Typed!KilledBy(t) => Typed!KilledBy(t)'
    BY <2>1, DeathsStay
  <2>3. mpc = "dead" /\ mpc' = "dead" /\ Typed!Services \ alive \subseteq Typed!Services \ alive'
    BY <1>1
  <2>4. ~NoneBeyond' \/ \E t \in Typed!Services \ alive' : Typed!KilledBy(t)'
    BY <2>2, <2>3 DEF Typed!DeathsSpread, NoneBeyond
  <2>5. QED  BY <2>3, <2>4 DEF Typed!DeathsSpread, NoneBeyond
<1>5. TalkInv'
  <2>1. NoneBeyond' => NoneBeyond
    BY <1>1 DEF NoneBeyond, Typed!Beyond
  <2>2. \A d \in Clients : Typed!Held(d)' => Typed!Held(d)
    BY <1>1, HeldBefore
  <2>3. ASSUME NEW d \in Clients PROVE Aside(d)
    BY <1>1, <1>3, <2>1, <2>2 DEF Aside
  <2>4. QED  BY <2>3, AsideKeeps DEF TalkInv
<1>6. QED  BY <1>2, <1>3, <1>4, <1>5

\* What a step of the thread of c leaves alone.
ThreadMoves(c, to) ==
  /\ tpc[c] \in {"recv", "send"} /\ tpc' = [tpc EXCEPT ![c] = to] /\ to \in {"recv", "send", "end"}
  /\ by[c] \in alive
  /\ UNCHANGED <<mpc, cur, nusfd, inbox, by, backlog, cpc, type, cut>>
  /\ toClient' \in [Clients -> Seq(ToClientKinds)] /\ toServer' \in [Clients -> Seq(ToServerKinds)]
  /\ fin' \in [Clients -> Ends]
  /\ fin[c] = "no" <=> fin'[c] = "no"
  /\ fin[c] \in {"closed", "reset"} => fin'[c] = fin[c]
  /\ \A d \in Clients : d # c =>
       toClient'[d] = toClient[d] /\ toServer'[d] = toServer[d] /\ fin'[d] = fin[d]
  /\ \/ alive' = alive
     \/ alive' = alive \ {by[c]} /\ (fin'[c] = "reset" \/ Typed!Stray')

LEMMA ThreadKeeps ==
  ASSUME TypedIInv, NEW c \in Clients, NEW to, ThreadMoves(c, to)
  PROVE  /\ Typed!TypeOK' /\ Typed!DeathsSpread' /\ PlaceInv' /\ UserInv'
         /\ \A d \in Clients : d # c => Beginning(d)' /\ Turn(d)' /\ Coming(d)'
         /\ Beginning(c)'
         /\ Passed(c) /\ Typed!Held(c)
         /\ NoneBeyond' => NoneBeyond
         /\ tpc'[c] = to
<1> USE TypesHold DEF TypedIInv
<1>1. /\ tpc \in [Clients -> {"none", "recv", "send", "end"}]
      /\ by \in [Clients -> Typed!Services \union {"none"}]
  BY DEF Types
<1>2. /\ tpc[c] \in {"recv", "send"} /\ by[c] \in alive
      /\ tpc' = [tpc EXCEPT ![c] = to] /\ to \in {"recv", "send", "end"}
      /\ UNCHANGED <<mpc, cur, nusfd, inbox, by, backlog, cpc, type, cut>>
      /\ fin[c] = "no" <=> fin'[c] = "no"
      /\ fin[c] \in {"closed", "reset"} => fin'[c] = fin[c]
      /\ \A d \in Clients : d # c =>
           toClient'[d] = toClient[d] /\ toServer'[d] = toServer[d] /\ fin'[d] = fin[d]
      /\ alive' \subseteq alive
  BY DEF ThreadMoves
<1>3. /\ tpc'[c] = to /\ \A d \in Clients : d # c => tpc'[d] = tpc[d]
      /\ tpc' \in [Clients -> {"none", "recv", "send", "end"}]
  BY <1>1, <1>2
<1>4. Typed!TypeOK'
  <2>1. /\ toClient' \in [Clients -> Seq(ToClientKinds)]
        /\ toServer' \in [Clients -> Seq(ToServerKinds)] /\ fin' \in [Clients -> Ends]
    BY DEF ThreadMoves
  <2>2. QED  BY <1>2, <1>3, <2>1 DEF Typed!TypeOK, ToClientKinds, ToServerKinds, Ends
<1>5. UserInv'
  BY <1>2 DEF UserInv
<1>6. PlaceInv' /\ \A d \in Clients : (Waiting(d)' <=> Waiting(d)) /\ (Passed(d)' <=> Passed(d))
  <2>1. \A d \in Clients : /\ tpc'[d] = "none" <=> tpc[d] = "none"
                           /\ cpc'[d] = "away" <=> cpc[d] = "away"
                           /\ cpc'[d] = "type" => cpc[d] = "type"
    BY <1>2, <1>3
  <2>2. UNCHANGED <<cur, inbox, by, backlog>>
    BY <1>2
  <2>3. QED  BY <2>1, <2>2, PlaceKept
<1>7. Passed(c) /\ ~Waiting(c) /\ Typed!Held(c)
  <2>1. Passed(c)  BY <1>2 DEF Passed
  <2>2. QED  BY <1>2, <2>1 DEF PlaceInv, Typed!Held
<1>8. NoneBeyond' => NoneBeyond
  BY <1>2 DEF NoneBeyond, Typed!Beyond
<1>9. Typed!DeathsSpread'
  <2>1. Remembers
    BY <1>2 DEF Remembers, Typed!Beyond
  <2>2. /\ NoneBeyond' => NoneBeyond
        /\ Typed!Stray => Typed!Stray'
        /\ \A t \in Typed!Services : Typed!KilledBy(t) => Typed!KilledBy(t)'
    BY <2>1, DeathsStay
  <2>3. mpc' = "dead" => ~NoneBeyond' \/ \E t \in Typed!Services \ alive' : Typed!KilledBy(t)'
    BY <1>2, <2>2 DEF Typed!DeathsSpread, NoneBeyond
  <2>4. ASSUME NEW t \in Typed!Services \ alive' PROVE mpc' = "dead" \/ Typed!KilledBy(t)' \/ Typed!Stray'
    <3>1. CASE t \notin alive
      BY <1>2, <2>2, <3>1 DEF Typed!DeathsSpread
    <3>2. CASE t \in alive
      <4>1. t = by[c] /\ (fin'[c] = "reset" \/ Typed!Stray')
        BY <2>4, <3>2 DEF ThreadMoves
      <4>2. QED  BY <1>2, <4>1 DEF Typed!KilledBy
    <3>3. QED  BY <3>1, <3>2
  <2>5. QED  BY <2>3, <2>4 DEF Typed!DeathsSpread, NoneBeyond
<1>10. ASSUME NEW d \in Clients, d # c PROVE Beginning(d)' /\ Turn(d)' /\ Coming(d)'
  <2>1. Typed!Held(d)' => Typed!Held(d)
    BY <1>2, HeldBefore
  <2>2. Aside(d)
    BY <1>2, <1>3, <1>6, <1>8, <1>10, <2>1 DEF Aside
  <2>3. QED  BY <2>2, AsideKeeps DEF TalkInv
<1>11. Beginning(c)'
  BY <1>6, <1>7 DEF Beginning
<1>12. QED  BY <1>3, <1>4, <1>5, <1>6, <1>7, <1>8, <1>9, <1>10, <1>11

LEMMA TypedRecv == ASSUME TypedIInv, NEW c \in Clients, Typed!Recv(c) PROVE TypedIInv'
<1> USE TypesHold DEF TypedIInv
<1>1. /\ tpc[c] = "recv" /\ by[c] \in alive
      /\ UNCHANGED <<mpc, cur, nusfd, inbox, by, backlog, toClient, cpc, type, cut>>
  BY DEF Typed!Recv, Typed!serverVars, Typed!clientVars
<1>2. /\ tpc \in [Clients -> {"none", "recv", "send", "end"}]
      /\ toServer \in [Clients -> Seq(ToServerKinds)]
      /\ toClient \in [Clients -> Seq(ToClientKinds)] /\ fin \in [Clients -> Ends]
  BY DEF Types
<1>3. ASSUME NEW to, ThreadMoves(c, to), Turn(c)', Coming(c)' PROVE TypedIInv'
  BY <1>3, ThreadKeeps DEF TalkInv
<1>4. CASE /\ toServer[c] # <<>> /\ toServer' = [toServer EXCEPT ![c] = <<>>]
           /\ tpc' = [tpc EXCEPT ![c] = Typed!AfterRecv] /\ UNCHANGED <<alive, fin>>
  <2>1. /\ toServer'[c] = <<>> /\ \A d \in Clients : d # c => toServer'[d] = toServer[d]
        /\ toServer' \in [Clients -> Seq(ToServerKinds)]
    <3>1. <<>> \in Seq(ToServerKinds)  OBVIOUS
    <3>2. QED  BY <1>2, <1>4, <3>1
  <2>2. ThreadMoves(c, "send")
    BY <1>1, <1>2, <1>4, <2>1 DEF ThreadMoves, Typed!AfterRecv
  <2>3. /\ Passed(c) /\ Typed!Held(c) /\ tpc'[c] = "send"
        /\ NoneBeyond' => NoneBeyond
    BY <2>2, ThreadKeeps
  <2>4. Turn(c)'
    <3>1. UNCHANGED <<cpc, toClient, fin>>  BY <1>1, <1>4
    <3>2. NoneBeyond => toClient[c] = <<>> /\ fin[c] \in {"no", "fin"} /\ cpc[c] # "line"
      BY <1>4, <2>3 DEF TalkInv, Turn
    <3>3. QED  BY <2>1, <2>3, <3>1, <3>2 DEF Turn
  <2>5. Coming(c)'
    BY <2>3 DEF Coming
  <2>6. QED  BY <1>3, <2>2, <2>4, <2>5
<1>5. CASE /\ toServer[c] = <<>> /\ fin[c] \in {"fin", "closed", "reset"}
           /\ tpc' = [tpc EXCEPT ![c] = "end"] /\ UNCHANGED <<alive, toServer, fin>>
  <2>1. ThreadMoves(c, "end")
    BY <1>1, <1>2, <1>5 DEF ThreadMoves
  <2>2. /\ Passed(c) /\ Typed!Held(c) /\ tpc'[c] = "end"
        /\ NoneBeyond' => NoneBeyond
    BY <2>1, ThreadKeeps
  <2>3. cpc[c] = "gone" /\ UNCHANGED <<cpc, toClient, toServer, fin>>
    BY <1>1, <1>5 DEF UserInv
  <2>4. Turn(c)' /\ Coming(c)'
    BY <1>5, <2>2, <2>3 DEF Turn, Coming
  <2>5. QED  BY <1>3, <2>1, <2>4
<1>6. CASE /\ toServer[c] = <<>> /\ fin[c] = "rst" /\ fin' = [fin EXCEPT ![c] = "reset"]
           /\ alive' = alive \ {by[c]} /\ UNCHANGED <<tpc, toServer>>
  <2>1. /\ fin'[c] = "reset" /\ \A d \in Clients : d # c => fin'[d] = fin[d]
        /\ fin' \in [Clients -> Ends]
    BY <1>2, <1>6 DEF Ends
  <2>2. tpc' = [tpc EXCEPT ![c] = "recv"]
    BY <1>1, <1>2, <1>6
  <2>3. ThreadMoves(c, "recv")
    BY <1>1, <1>2, <1>6, <2>1, <2>2 DEF ThreadMoves
  <2>4. /\ Passed(c) /\ Typed!Held(c) /\ tpc'[c] = "recv"
        /\ NoneBeyond' => NoneBeyond
    BY <2>3, ThreadKeeps
  <2>5. cpc[c] = "gone" /\ UNCHANGED <<cpc, toClient, toServer>>
    BY <1>1, <1>6 DEF UserInv
  <2>6. Turn(c)' /\ Coming(c)'
    BY <1>6, <2>4, <2>5 DEF Turn, Coming
  <2>7. QED  BY <1>3, <2>3, <2>6
<1>7. QED  BY <1>4, <1>5, <1>6 DEF Typed!Recv

\* Only who was sent something before it was killed, or a stray message, ends the service.
LEMMA TypedSend == ASSUME TypedIInv, NEW c \in Clients, Typed!Send(c) PROVE TypedIInv'
<1> USE TypesHold DEF TypedIInv
<1>1. /\ tpc[c] = "send" /\ by[c] \in alive /\ Typed!Put(c, "reply")
      /\ alive' = IF Typed!Broken(c) THEN alive \ {by[c]} ELSE alive
      /\ tpc' = [tpc EXCEPT ![c] = "recv"]
      /\ UNCHANGED <<mpc, cur, nusfd, inbox, by, backlog, toServer, cpc, type, cut>>
  BY DEF Typed!Send, Typed!serverVars, Typed!clientVars
<1>2. /\ tpc \in [Clients -> {"none", "recv", "send", "end"}]
      /\ toServer \in [Clients -> Seq(ToServerKinds)]
      /\ toClient \in [Clients -> Seq(ToClientKinds)] /\ fin \in [Clients -> Ends]
  BY DEF Types
<1>3. "reply" \in ToClientKinds
  BY DEF ToClientKinds
<1>4. /\ toClient' \in [Clients -> Seq(ToClientKinds)] /\ fin' \in [Clients -> Ends]
      /\ \A d \in Clients : d # c => toClient'[d] = toClient[d] /\ fin'[d] = fin[d]
      /\ \/ fin[c] = "no" /\ fin'[c] = "no" /\ toClient'[c] # <<>>
         \/ fin[c] # "no" /\ toClient'[c] = toClient[c] /\ fin'[c] \in {"closed", "reset"}
      /\ fin[c] \in {"closed", "reset"} => fin'[c] = fin[c]
  BY <1>1, <1>2, <1>3, PutFacts
<1>5. Passed(c) /\ Typed!Held(c)
  BY <1>1 DEF Passed, Typed!Held
<1>6. Typed!Broken(c) => Typed!Stray'
  <2> SUFFICES ASSUME Typed!Broken(c) PROVE Typed!Stray'
    OBVIOUS
  <2>1. ~NoneBeyond
    BY <1>1, <1>5 DEF TalkInv, Turn, Typed!Broken
  <2>2. \E d \in Clients : Typed!Beyond(d)'
    BY <1>1, <2>1 DEF NoneBeyond, Typed!Beyond
  <2>3. Typed!Broken(c)'
    BY <1>4 DEF Typed!Broken
  <2>4. QED  BY <2>2, <2>3 DEF Typed!Stray
<1>7. ThreadMoves(c, "recv")
  <2>1. \/ alive' = alive
        \/ alive' = alive \ {by[c]} /\ (fin'[c] = "reset" \/ Typed!Stray')
    BY <1>1, <1>6
  <2>2. QED  BY <1>1, <1>2, <1>4, <2>1 DEF ThreadMoves
<1>8. /\ tpc'[c] = "recv"
      /\ NoneBeyond' => NoneBeyond
  BY <1>7, ThreadKeeps
<1>9. Turn(c)'
  <2>1. NoneBeyond => cpc[c] # "line" /\ toServer[c] = <<>>
    BY <1>1, <1>5 DEF TalkInv, Turn
  <2>2. UNCHANGED <<cpc, toServer>>
    BY <1>1
  <2>3. QED  BY <1>8, <2>1, <2>2 DEF Turn
<1>10. Coming(c)'
  <2>1. cpc[c] = "wait" => toClient'[c] # <<>>
    BY <1>4 DEF UserInv
  <2>2. QED  BY <1>1, <2>1 DEF Coming
<1>11. QED  BY <1>7, <1>9, <1>10, ThreadKeeps DEF TalkInv

-----------------------------------------------------------------------------

LEMMA TypedStutter == ASSUME TypedIInv, UNCHANGED Typed!vars PROVE TypedIInv'
<1>1. UNCHANGED <<mpc, cur, nusfd, inbox, alive, tpc, by, backlog, toClient, toServer, fin, cpc,
                  type, cut>>
  BY DEF Typed!vars, Typed!serverVars, Typed!serviceVars, Typed!streamVars, Typed!clientVars
<1>2. Typed!TypeOK' /\ UserInv' /\ Typed!DeathsSpread'
  <2>1. Typed!TypeOK'       BY <1>1 DEF TypedIInv, Typed!TypeOK
  <2>2. UserInv'      BY <1>1 DEF TypedIInv, UserInv
  <2>3. Typed!DeathsSpread' BY <1>1, DeathsKept DEF TypedIInv, Remembers, Typed!Beyond
  <2>4. QED  BY <2>1, <2>2, <2>3
<1>3. PlaceInv' /\ \A d \in Clients : (Waiting(d)' <=> Waiting(d)) /\ (Passed(d)' <=> Passed(d))
  BY <1>1, PlaceKept DEF TypedIInv
<1>4. TalkInv'
  <2>1. NoneBeyond' => NoneBeyond
    BY <1>1 DEF NoneBeyond, Typed!Beyond
  <2>2. \A d \in Clients : Typed!Held(d)' => Typed!Held(d)
    BY <1>1, HeldBefore
  <2>3. ASSUME NEW d \in Clients PROVE Aside(d)
    BY <1>1, <1>3, <2>1, <2>2 DEF Aside
  <2>4. QED  BY <2>3, AsideKeeps DEF TypedIInv, TalkInv
<1>5. QED  BY <1>2, <1>3, <1>4 DEF TypedIInv

LEMMA TypedStep ==
  ASSUME Typed!TypedAssumption
  PROVE  TypedIInv /\ [Typed!Next]_(Typed!vars) => TypedIInv'
<1> SUFFICES ASSUME TypedIInv, [Typed!Next]_(Typed!vars) PROVE TypedIInv'
  OBVIOUS
<1>1. ASSUME NEW s \in Typed!Services, Typed!Program(s) PROVE TypedIInv'
  BY <1>1, TypedReadFd, TypedOverrun, TypedRecv, TypedSend DEF Typed!Program, Typed!Thread
<1>2. CASE Typed!Server
  BY <1>2, TypedAccept, TypedRecvType DEF Typed!Server
<1>3. CASE Typed!S1 \/ Typed!S2
  <2>1. "s1" \in Typed!Services /\ "s2" \in Typed!Services  BY DEF Typed!Services
  <2>2. QED  BY <1>1, <1>3, <2>1 DEF Typed!S1, Typed!S2
<1>4. ASSUME NEW c \in Clients, Typed!Hear(c) \/ Typed!User(c) PROVE TypedIInv'
  BY <1>4, HearStep, TypedConnect, EnterTypeStep, EnterLineStep, TypedKill DEF Typed!User
<1>5. CASE UNCHANGED Typed!vars
  BY <1>5, TypedStutter
<1>6. QED  BY <1>2, <1>3, <1>4, <1>5 DEF Typed!Next

\* Who waits for the answer to a line that nobody reads any more had it cut.
LEMMA TypedImplied == TypedIInv => Typed!TypedInv
<1> SUFFICES ASSUME TypedIInv, NEW c \in Clients, cpc[c] = "wait", toClient[c] = <<>>,
                    tpc[c] = "recv", toServer[c] = <<>>
             PROVE  c \in cut
  BY DEF TypedIInv, Typed!TypedInv, Typed!BothWaitOnlyIfCut
<1>1. Passed(c)
  BY DEF Passed
<1>2. QED  BY <1>1 DEF TypedIInv, TalkInv, Coming

\* Deaths and waiting are explained, for any number of clients that want any types: a
\* service or the server ends only by a client killed with a reply unread or by a stray
\* message, and client and thread wait for each other only if a line was cut.
THEOREM TypedCorrect ==
  ASSUME Typed!TypedAssumption
  PROVE  Typed!Spec => []Typed!TypedInv
<1>1. Typed!Init => TypedIInv
  BY TypedInit
<1>2. TypedIInv /\ [Typed!Next]_(Typed!vars) => TypedIInv'
  BY TypedStep
<1>3. TypedIInv => Typed!TypedInv
  BY TypedImplied
<1>4. QED  BY <1>1, <1>2, <1>3, PTL DEF Typed!Spec
=============================================================================
