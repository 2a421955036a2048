------------------------ MODULE ServiceCoordinatorProofs ------------------------
(***************************************************************************)
(* Proofs about ServiceCoordinator, for any number of clients and servers. *)
(* They count: the names put, the clients that have called, the servers    *)
(* that owe a client.                                                      *)
(***************************************************************************)
EXTENDS ServiceCoordinator, FiniteSetTheorems, TLAPS

\* Clients that have counted their name in d->out, and those that have signalled.
Stored  == {c \in Clients : cpc[c] \in {"open", "waiting", "gone"}}
Callers == {c \in Clients : cpc[c] \in {"waiting", "gone"}}

\* A server that works is marked, and knows whom it works for.
MarkInv ==
  \A n \in Servers :
    /\ spc[n] \notin {"off", "idle", "post"} => s[n] = 1
    /\ spc[n] \in {"request fifo", "reply fifo", "read", "write"} => job[n] \in Clients

\* d->out never passes the names that were counted, and is exact without a race.
OutInv ==
  /\ out <= Cardinality(Stored)
  /\ \A c \in Clients : cpc[c] = "loaded" => ctmp[c] <= Cardinality(Stored)
  /\ ~outRaced =>
       /\ out = Cardinality(Stored)
       /\ \A c \in Clients : cpc[c] = "loaded" => ctmp[c] = out
       /\ \A c, d \in Clients : cpc[c] \in Putting /\ cpc[d] \in Putting => c = d

\* Names taken, names owed and signals under way are at most the clients that called.
\* Every server may be about to write its old copy of d->in.
Due == Cardinality(Owed) + Signalled

CallInv ==
  /\ in + Due <= Cardinality(Callers)
  /\ \A n \in Servers : spc[n] = "loaded" => stmp[n] + Due <= Cardinality(Callers)
  /\ ~inRaced =>
       /\ \A n \in Servers : spc[n] = "loaded" => stmp[n] = in
       /\ \A m, n \in Servers : spc[m] \in Taking /\ spc[n] \in Taking => m = n

\* The handler that has passed the semaphore has a free server before it.
ScanInv ==
  ~reset => /\ sem + InScan + Cardinality(Posting) = Cardinality(Unmarked)
            /\ hpc = "scan" => \E n \in hi .. NS - 1 : s[n] = 0

\* Without a race each client finds its name at its own index.
NameInv ==
  ~outRaced =>
    /\ \A c \in Clients :
         /\ cpc[c] \in Putting => slot[c] = out
         /\ c \in Stored => slot[c] < out
         /\ cpc[c] \notin {"away", "located"} => name[slot[c]] = c
    /\ \A k \in 0 .. out - 1 : name[k] \in Stored /\ slot[name[k]] = k

\* Without a race each name is taken by one server.
JobInv ==
  ~inRaced /\ ~outRaced =>
    \A n \in Servers : job[n] # NoName =>
      /\ job[n] \in Stored
      /\ slot[job[n]] <= in
      /\ spc[n] \notin Taking => slot[job[n]] < in
      /\ \A m \in Servers : m # n => job[m] # job[n]

IInv == TypeOK /\ MarkInv /\ OutInv /\ CallInv /\ ScanInv /\ NameInv /\ JobInv /\ CallsMatchNames

-----------------------------------------------------------------------------
(* Counting *)

LEMMA Subsets ==
  /\ \A T \in SUBSET Servers : IsFiniteSet(T) /\ Cardinality(T) \in Nat
  /\ \A T \in SUBSET Clients :
       IsFiniteSet(T) /\ Cardinality(T) \in Nat /\ Cardinality(T) <= Cardinality(Clients)
<1>1. IsFiniteSet(Servers) /\ IsFiniteSet(Clients)
  BY FS_Interval, CoordinatorAssumption DEF Servers
<1>2. QED  BY <1>1, FS_Subset, FS_CardinalityType

LEMMA Grows ==
  ASSUME NEW S, NEW x, IsFiniteSet(S), x \notin S
  PROVE  Cardinality(S \cup {x}) = Cardinality(S) + 1
BY FS_AddElement

LEMMA Shrinks ==
  ASSUME NEW S, NEW x, IsFiniteSet(S), x \in S
  PROVE  Cardinality(S \ {x}) = Cardinality(S) - 1
BY FS_RemoveElement

LEMMA Counts ==
  /\ Cardinality(Stored) \in Nat /\ Cardinality(Callers) \in Nat /\ Cardinality(Calling) \in Nat
  /\ Cardinality(Callers) <= Cardinality(Stored)
  /\ Cardinality(Owed) \in Nat /\ Cardinality(Posting) \in Nat /\ Cardinality(Unmarked) \in Nat
  /\ IsFiniteSet(Stored) /\ IsFiniteSet(Callers) /\ IsFiniteSet(Calling)
  /\ IsFiniteSet(Owed) /\ IsFiniteSet(Posting) /\ IsFiniteSet(Unmarked)
<1>1. /\ Stored \in SUBSET Clients /\ Callers \in SUBSET Clients /\ Calling \in SUBSET Clients
      /\ Owed \in SUBSET Servers /\ Posting \in SUBSET Servers /\ Unmarked \in SUBSET Servers
      /\ Callers \in SUBSET Stored
  BY DEF Stored, Callers, Calling, Owed, Posting, Unmarked
<1>2. QED  BY <1>1, Subsets, FS_Subset

\* As long as a client has not counted its name, there is an index left for it.
LEMMA RoomForOne ==
  ASSUME NEW c \in Clients, c \notin Stored
  PROVE  Cardinality(Stored) + 1 < Slots
<1>1. Stored \cup {c} \in SUBSET Clients
  BY DEF Stored
<1>2. Cardinality(Stored \cup {c}) = Cardinality(Stored) + 1
  BY Counts, Grows
<1>3. Cardinality(Stored) + 1 <= Cardinality(Clients)
  BY <1>1, <1>2, Subsets
<1>4. Cardinality(Clients) \in Nat
  BY CoordinatorAssumption, FS_CardinalityType
<1>5. QED  BY <1>3, <1>4, Counts, CoordinatorAssumption

\* A server that is owed a client's name finds one at d->in.
LEMMA InBehind ==
  ASSUME TypeOK, CallInv, NEW n \in Owed
  PROVE  in < Cardinality(Callers) /\ Cardinality(Callers) < Slots
<1>1. Cardinality(Owed) > 0
  BY Counts, FS_EmptySet
<1>2. Signalled \in Nat
  BY DEF Signalled
<1>3. Callers \in SUBSET Clients
  BY DEF Callers
<1>4. Cardinality(Clients) \in Nat
  BY CoordinatorAssumption, FS_CardinalityType
<1>5. Cardinality(Callers) < Slots
  BY <1>3, <1>4, Subsets, CoordinatorAssumption
<1>6. QED  BY <1>1, <1>2, <1>5, Counts DEF CallInv, Due, TypeOK, DataTypes

-----------------------------------------------------------------------------
(* Types *)

LEMMA TypeInit == Init => TypeOK /\ MarkInv
<1> SUFFICES ASSUME Init PROVE TypeOK /\ MarkInv
  OBVIOUS
<1> USE CoordinatorAssumption DEF Init, Servers
<1>1. DataTypes
  BY DEF DataTypes
<1>2. HandlerTypes
  <2>1. pending \in BOOLEAN /\ hpc \in {"off", "wait", "scan"}
    OBVIOUS
  <2>2. hi \in 0 .. NS
    OBVIOUS
  <2>3. QED  BY <2>1, <2>2 DEF HandlerTypes
<1>3. ServerTypes
  BY DEF ServerTypes
<1>4. ClientTypes
  <2>1. CASE Clients = {}
    BY <2>1 DEF ClientTypes
  <2>2. CASE Clients # {}
    <3>1. PICK c : c \in Clients
      BY <2>2
    <3>2. c \notin Stored
      BY DEF Stored
    <3>3. Slots > 0
      BY <3>1, <3>2, RoomForOne, Counts
    <3>4. QED  BY <3>3 DEF ClientTypes
  <2>3. QED  BY <2>1, <2>2
<1>5. MarkInv
  BY DEF MarkInv
<1>6. QED  BY <1>1, <1>2, <1>3, <1>4, <1>5 DEF TypeOK

\* A client's step leaves the servers and the handler alone.
LEMMA ClientFrame ==
  ASSUME NEW c \in Clients, Client(c)
  PROVE  UNCHANGED <<in, s, sem, handlerVars, serverVars, inRaced, reset>>
BY DEF Client, Locate, PutName, LoadOut, StoreOut, Signal, Type, Leave, dataVars, fifoVars,
       clientVars, history

LEMMA ClientType ==
  ASSUME TypeOK, MarkInv, OutInv, NEW c \in Clients, Client(c)
  PROVE  TypeOK' /\ MarkInv'
<1> USE DEF TypeOK, dataVars, fifoVars, clientVars, history
<1>1. UNCHANGED <<in, s, sem, hpc, hi, spc, job, stmp, inRaced, reset>>
  BY ClientFrame DEF handlerVars, serverVars
<1>2. MarkInv'
  BY <1>1 DEF MarkInv
<1>3. ServerTypes'
  BY <1>1 DEF ServerTypes
<1>4. HandlerTypes'
  <2>1. pending' = pending \/ pending' = TRUE
    BY DEF Client, Locate, PutName, LoadOut, StoreOut, Signal, Wake, Type, Leave
  <2>2. QED  BY <1>1, <2>1 DEF HandlerTypes
<1>5. outRaced' \in BOOLEAN /\ coalesced' \in BOOLEAN
  BY DEF DataTypes, Client, Locate, PutName, LoadOut, StoreOut, Signal, Type, Leave
<1>6. CASE Locate(c)
  <2>1. out \in 0 .. Slots - 1
    <3>1. c \notin Stored
      BY <1>6 DEF Locate, Stored
    <3>2. QED  BY <3>1, RoomForOne, Counts, CoordinatorAssumption DEF OutInv, DataTypes
  <2>2. DataTypes'
    BY <1>1, <1>5, <1>6 DEF Locate, DataTypes
  <2>3. ClientTypes'
    BY <1>6, <2>1 DEF Locate, ClientTypes, Putting
  <2>4. QED  BY <1>2, <1>3, <1>4, <2>2, <2>3
<1>7. CASE PutName(c)
  <2>1. DataTypes'
    BY <1>1, <1>5, <1>7 DEF PutName, DataTypes, ClientTypes
  <2>2. ClientTypes'
    BY <1>7 DEF PutName, ClientTypes, Putting
  <2>3. QED  BY <1>2, <1>3, <1>4, <2>1, <2>2
<1>8. CASE LoadOut(c)
  <2>1. DataTypes' /\ ClientTypes'
    BY <1>1, <1>5, <1>8 DEF LoadOut, DataTypes, ClientTypes, Putting
  <2>2. QED  BY <1>2, <1>3, <1>4, <2>1
<1>9. CASE StoreOut(c)
  <2>1. DataTypes' /\ ClientTypes'
    BY <1>1, <1>5, <1>9 DEF StoreOut, NextOut, DataTypes, ClientTypes, Putting
  <2>2. QED  BY <1>2, <1>3, <1>4, <2>1
<1>10. CASE Signal(c) \/ Type(c) \/ Leave(c)
  <2>1. DataTypes' /\ ClientTypes'
    BY <1>1, <1>5, <1>10 DEF Signal, Type, Leave, DataTypes, ClientTypes, Putting
  <2>2. QED  BY <1>2, <1>3, <1>4, <2>1
<1>11. QED  BY <1>6, <1>7, <1>8, <1>9, <1>10 DEF Client

LEMMA CoordinatorType ==
  ASSUME TypeOK, MarkInv, Coordinator
  PROVE  TypeOK' /\ MarkInv'
<1> USE DEF TypeOK, dataVars, fifoVars, clientVars, serverVars, history
<1>1. UNCHANGED <<name, in, out, spc, job, stmp, cpc, slot, ctmp, line, reply, outRaced, inRaced,
                  coalesced, reset>>
  BY DEF Coordinator, Enter, SemWait, Scan
<1>2. /\ pending' \in BOOLEAN /\ sem' \in Nat /\ hpc' \in {"off", "wait", "scan"}
      /\ hi' \in 0 .. NS
  <2>1. pending' \in BOOLEAN
    BY DEF Coordinator, Enter, SemWait, Scan, HandlerTypes
  <2>2. sem' \in Nat
    BY DEF Coordinator, Enter, SemWait, Down, Scan, DataTypes
  <2>3. hpc' \in {"off", "wait", "scan"}
    BY DEF Coordinator, Enter, SemWait, Scan, HandlerTypes
  <2>4. hi' \in 0 .. NS
    BY CoordinatorAssumption DEF Coordinator, Enter, SemWait, Scan, HandlerTypes
  <2>5. QED  BY <2>1, <2>2, <2>3, <2>4
<1>3. s' = s \/ (hi \in Servers /\ s' = [s EXCEPT ![hi] = 1])
  BY CoordinatorAssumption DEF Coordinator, Enter, SemWait, Scan, Servers, HandlerTypes
<1>4. DataTypes' /\ HandlerTypes' /\ ClientTypes'
  BY <1>1, <1>2 DEF DataTypes, HandlerTypes, ClientTypes
<1>5. ServerTypes'
  BY <1>1, <1>3 DEF ServerTypes
<1>6. MarkInv'
  BY <1>1, <1>3 DEF MarkInv, ServerTypes
<1>7. QED  BY <1>4, <1>5, <1>6

\* A server's step leaves the clients and the handler alone.
LEMMA ServerFrame ==
  ASSUME NEW n \in Servers, Start(n) \/ Serve(n)
  PROVE  UNCHANGED <<name, out, pending, hpc, hi, cpc, slot, ctmp, outRaced, coalesced>>
BY DEF Start, Serve, CopyName, LoadIn, StoreIn, OpenFifos, OpenFifo, ReadRequest, WriteReply, Free,
       Post, dataVars, handlerVars, clientVars, history

LEMMA ServerType ==
  ASSUME TypeOK, MarkInv, CallInv, NEW n \in Servers, Start(n) \/ Serve(n)
  PROVE  TypeOK' /\ MarkInv'
<1> USE DEF TypeOK, dataVars, fifoVars, serverVars, history
<1>1. UNCHANGED <<name, out, pending, hpc, hi, cpc, slot, ctmp, outRaced, coalesced>>
  BY ServerFrame
<1>2. HandlerTypes'
  BY <1>1 DEF HandlerTypes
<1>3. CASE Start(n)
  BY <1>1, <1>2, <1>3, CoordinatorAssumption
  DEF Start, DataTypes, ServerTypes, ClientTypes, MarkInv
<1>4. CASE CopyName(n)
  <2>1. n \in Owed
    BY <1>4 DEF CopyName, Owed
  <2>2. name[in] \in Clients \cup {NoName}
    BY <2>1, InBehind, Counts, CoordinatorAssumption DEF DataTypes
  <2>3. DataTypes' /\ ClientTypes'
    BY <1>1, <1>4 DEF CopyName, DataTypes, ClientTypes
  <2>4. ServerTypes'
    BY <1>4, <2>2 DEF CopyName, ServerTypes, Taking
  <2>5. MarkInv'
    BY <1>4 DEF CopyName, MarkInv, ServerTypes
  <2>6. QED  BY <1>2, <2>3, <2>4, <2>5
<1>5. CASE LoadIn(n)
  BY <1>1, <1>2, <1>5 DEF LoadIn, DataTypes, ServerTypes, ClientTypes, MarkInv, Taking
<1>6. CASE StoreIn(n)
  <2>1. stmp[n] \in Nat
    BY DEF ServerTypes
  <2>2. in' \in Nat
    <3>1. in' = stmp[n] + 1
      BY <1>6 DEF StoreIn, NextIn
    <3>2. QED  BY <2>1, <3>1
  <2>3. DataTypes' /\ ClientTypes'
    BY <1>1, <1>6, <2>2 DEF StoreIn, DataTypes, ClientTypes
  <2>4. ServerTypes' /\ MarkInv'
    BY <1>6 DEF StoreIn, ServerTypes, MarkInv, Taking
  <2>5. QED  BY <1>2, <2>3, <2>4
<1>7. CASE OpenFifos(n)
  BY <1>1, <1>2, <1>7
  DEF OpenFifos, OpenFifo, DataTypes, ServerTypes, ClientTypes, MarkInv, Taking
<1>8. CASE ReadRequest(n)
  <2>1. job[n] \in Clients
    BY <1>8 DEF ReadRequest, MarkInv
  <2>2. ClientTypes'
    BY <1>1, <1>8, <2>1 DEF ReadRequest, ClientTypes
  <2>3. QED
    BY <1>1, <1>2, <1>8, <2>2 DEF ReadRequest, DataTypes, ServerTypes, MarkInv, Taking
<1>9. CASE WriteReply(n)
  <2>1. job[n] \in Clients
    BY <1>9 DEF WriteReply, MarkInv
  <2>2. ClientTypes'
    BY <1>1, <1>9, <2>1 DEF WriteReply, ClientTypes
  <2>3. QED
    BY <1>1, <1>2, <1>9, <2>2 DEF WriteReply, DataTypes, ServerTypes, MarkInv, Taking
<1>10. CASE Free(n)
  BY <1>1, <1>2, <1>10 DEF Free, DataTypes, ServerTypes, ClientTypes, MarkInv
<1>11. CASE Post(n)
  <2>1. DataTypes' /\ ClientTypes'
    BY <1>1, <1>11 DEF Post, Up, DataTypes, ClientTypes
  <2>2. ServerTypes' /\ MarkInv'
    BY <1>11 DEF Post, ServerTypes, MarkInv
  <2>3. QED  BY <1>2, <2>1, <2>2
<1>12. QED
  BY <1>3, <1>4, <1>5, <1>6, <1>7, <1>8, <1>9, <1>10, <1>11 DEF Serve

LEMMA TypeStep ==
  ASSUME TypeOK, MarkInv, OutInv, CallInv, [Next]_vars
  PROVE  TypeOK' /\ MarkInv'
<1>1. CASE UNCHANGED vars
  BY <1>1 DEF vars, dataVars, handlerVars, serverVars, clientVars, fifoVars, history, TypeOK, DataTypes,
     HandlerTypes, ServerTypes, ClientTypes, MarkInv
<1>2. QED  BY <1>1, ClientType, CoordinatorType, ServerType DEF Next

-----------------------------------------------------------------------------
(* Names *)

\* The clients that have counted, are about to signal and have signalled, step by step.
LEMMA ClientCounts ==
  ASSUME TypeOK, NEW c \in Clients, Client(c)
  PROVE  /\ IF StoreOut(c) THEN c \notin Stored /\ Stored' = Stored \cup {c} ELSE Stored' = Stored
         /\ IF Signal(c) THEN c \notin Callers /\ Callers' = Callers \cup {c} ELSE Callers' = Callers
         /\ StoreOut(c) => c \notin Calling /\ Calling' = Calling \cup {c}
         /\ Signal(c) => c \in Calling /\ Calling' = Calling \ {c}
         /\ ~StoreOut(c) /\ ~Signal(c) => Calling' = Calling
<1> USE DEF Stored, Callers, Calling
<1>0. cpc \in [Clients -> {"away", "open", "waiting", "gone"} \union Putting]
  BY DEF TypeOK, ClientTypes
<1>1. CASE StoreOut(c)
  BY <1>0, <1>1 DEF StoreOut, Signal
<1>2. CASE Signal(c)
  BY <1>0, <1>2 DEF StoreOut, Signal
<1>3. CASE Locate(c)
  BY <1>0, <1>3 DEF StoreOut, Signal, Locate
<1>4. CASE PutName(c)
  BY <1>0, <1>4 DEF StoreOut, Signal, PutName
<1>5. CASE LoadOut(c)
  BY <1>0, <1>5 DEF StoreOut, Signal, LoadOut
<1>6. CASE Leave(c)
  BY <1>0, <1>6 DEF StoreOut, Signal, Leave
<1>7. CASE Type(c)
  <2>1. cpc' = cpc
    BY <1>7 DEF Type, clientVars
  <2>2. cpc[c] \in {"open", "waiting"} /\ ~StoreOut(c)
    BY <1>7 DEF Type, AtFifos, StoreOut
  <2>3. ~Signal(c)
    BY <2>1, <2>2, <1>0 DEF Signal
  <2>4. QED  BY <2>1, <2>2, <2>3
<1>8. QED  BY <1>1, <1>2, <1>3, <1>4, <1>5, <1>6, <1>7 DEF Client

LEMMA OutNameInit == Init => OutInv /\ NameInv
<1> SUFFICES ASSUME Init PROVE OutInv /\ NameInv
  OBVIOUS
<1>1. Stored = {}
  BY DEF Init, Stored
<1>2. Cardinality(Stored) = 0
  BY <1>1, FS_EmptySet
<1>3. QED  BY <1>1, <1>2 DEF Init, OutInv, NameInv, Putting

LEMMA ClientOut ==
  ASSUME TypeOK, OutInv, NEW c \in Clients, Client(c)
  PROVE  OutInv'
<1> DEFINE N == Cardinality(Stored)
<1>0. /\ cpc \in [Clients -> {"away", "open", "waiting", "gone"} \union Putting]
      /\ ctmp \in [Clients -> Nat] /\ N \in Nat /\ out \in Nat
  BY Counts DEF TypeOK, ClientTypes, DataTypes
<1>1. CASE StoreOut(c)
  <2>1. Cardinality(Stored)' = N + 1
    <3>1. c \notin Stored /\ Stored' = Stored \cup {c}
      BY <1>1, ClientCounts
    <3>2. QED  BY <3>1, Counts, Grows
  <2>2. /\ out' = ctmp[c] + 1 /\ cpc[c] = "loaded" /\ ctmp' = ctmp /\ outRaced' = outRaced
        /\ cpc' = [cpc EXCEPT ![c] = "open"] /\ ctmp[c] \in Nat
    BY <1>0, <1>1 DEF StoreOut, NextOut, history
  <2>3. out' <= N + 1 /\ (~outRaced => out' = N + 1)
    BY <1>0, <2>2 DEF OutInv
  <2>4. ASSUME NEW d \in Clients, cpc'[d] \in Putting
        PROVE  d # c /\ cpc[d] = cpc'[d] /\ outRaced
    <3>1. d # c /\ cpc[d] = cpc'[d]
      BY <1>0, <2>2, <2>4 DEF Putting
    <3>2. QED  BY <2>2, <2>4, <3>1 DEF OutInv, Putting
  <2>5. \A d \in Clients : cpc'[d] = "loaded" => ctmp'[d] <= N + 1
    BY <1>0, <2>2, <2>4 DEF OutInv, Putting
  <2>6. QED  BY <2>1, <2>2, <2>3, <2>4, <2>5 DEF OutInv, Putting
<1>2. CASE LoadOut(c)
  <2>1. Stored' = Stored
    BY <1>2, ClientCounts DEF LoadOut, StoreOut
  <2>2. /\ out' = out /\ ctmp' = [ctmp EXCEPT ![c] = out] /\ outRaced' = outRaced
        /\ cpc' = [cpc EXCEPT ![c] = "loaded"] /\ cpc[c] \in Putting
    BY <1>2 DEF LoadOut, dataVars, history, Putting
  <2>3. QED  BY <1>0, <2>1, <2>2 DEF OutInv, Putting
<1>3. CASE Locate(c)
  <2>1. Stored' = Stored
    BY <1>3, ClientCounts DEF Locate, StoreOut
  <2>2. /\ out' = out /\ ctmp' = ctmp /\ cpc' = [cpc EXCEPT ![c] = "located"]
        /\ ~outRaced' => ~outRaced /\ \A d \in Clients : cpc[d] \notin Putting
    BY <1>3 DEF Locate, dataVars
  <2>3. \A d \in Clients : d # c => cpc'[d] = cpc[d]
    BY <1>0, <2>2
  <2>4. cpc'[c] # "loaded"
    BY <1>0, <2>2
  <2>5. QED  BY <2>1, <2>2, <2>3, <2>4 DEF OutInv, Putting
<1>4. CASE PutName(c) \/ Signal(c) \/ Type(c) \/ Leave(c)
  <2>1. Stored' = Stored
    <3>1. ~StoreOut(c)
      BY <1>4 DEF PutName, Signal, Type, Leave, AtFifos, StoreOut
    <3>2. QED  BY <3>1, ClientCounts
  <2>2. UNCHANGED <<out, ctmp, outRaced>>
    BY <1>4 DEF PutName, Signal, Type, Leave, dataVars, clientVars, history
  <2>3. \A d \in Clients : /\ cpc'[d] \in Putting => cpc[d] \in Putting
                           /\ cpc'[d] = "loaded" => cpc[d] = "loaded"
    BY <1>0, <1>4 DEF PutName, Signal, Type, Leave, clientVars, Putting
  <2>4. QED  BY <2>1, <2>2, <2>3 DEF OutInv
<1>5. QED  BY <1>1, <1>2, <1>3, <1>4 DEF Client

LEMMA ClientName ==
  ASSUME TypeOK, OutInv, NameInv, NEW c \in Clients, Client(c)
  PROVE  NameInv'
<1>0. /\ cpc \in [Clients -> {"away", "open", "waiting", "gone"} \union Putting]
      /\ slot \in [Clients -> 0 .. Slots - 1] /\ out \in Nat
      /\ name \in [0 .. Slots - 1 -> Clients \union {NoName}]
  BY DEF TypeOK, ClientTypes, DataTypes
<1> SUFFICES ASSUME ~outRaced'
             PROVE  /\ \A d \in Clients :
                         /\ cpc'[d] \in Putting => slot'[d] = out'
                         /\ d \in Stored' => slot'[d] < out'
                         /\ cpc'[d] \notin {"away", "located"} => name'[slot'[d]] = d
                    /\ \A k \in 0 .. out' - 1 : name'[k] \in Stored' /\ slot'[name'[k]] = k
  BY DEF NameInv
<1>1. ~outRaced
  BY DEF Client, Locate, PutName, LoadOut, StoreOut, Signal, Type, Leave, history
<1>2. CASE Locate(c)
  <2>1. Stored' = Stored /\ c \notin Stored
    BY <1>2, ClientCounts DEF Locate, StoreOut, Stored
  <2>2. /\ UNCHANGED <<out, name>> /\ slot' = [slot EXCEPT ![c] = out]
        /\ cpc' = [cpc EXCEPT ![c] = "located"] /\ \A d \in Clients : cpc[d] \notin Putting
    BY <1>2 DEF Locate, dataVars
  <2>3. \A d \in Clients : d # c => cpc'[d] = cpc[d] /\ slot'[d] = slot[d]
    BY <1>0, <2>2
  <2>4. cpc'[c] = "located" /\ slot'[c] = out
    BY <1>0, <2>2
  <2>5. \A k \in 0 .. out - 1 : name[k] \in Stored /\ slot'[name[k]] = k
    BY <1>1, <2>1, <2>3 DEF NameInv, Stored
  <2>6. QED  BY <1>1, <2>1, <2>2, <2>3, <2>4, <2>5 DEF NameInv
<1>3. CASE PutName(c)
  <2>1. Stored' = Stored /\ c \notin Stored
    BY <1>3, ClientCounts DEF PutName, StoreOut, Stored
  <2>2. /\ UNCHANGED <<out, slot>> /\ name' = [name EXCEPT ![slot[c]] = c]
        /\ cpc[c] = "located" /\ cpc' = [cpc EXCEPT ![c] = "named"]
    BY <1>3 DEF PutName
  <2>3. slot[c] = out
    BY <1>1, <2>2 DEF NameInv, Putting
  <2>4. name'[out] = c /\ \A k \in 0 .. out - 1 : name'[k] = name[k]
    <3>1. out \in 0 .. Slots - 1
      BY <1>0, <2>3
    <3>2. QED  BY <1>0, <2>2, <2>3, <3>1
  <2>5. ASSUME NEW d \in Clients, d # c
        PROVE  cpc'[d] = cpc[d] /\ cpc[d] \notin Putting
    BY <1>0, <1>1, <2>2, <2>5 DEF OutInv, Putting
  <2>6. \A d \in Clients : d # c /\ cpc[d] \notin {"away", "located"} => name'[slot[d]] = d
    <3> SUFFICES ASSUME NEW d \in Clients, d # c, cpc[d] \notin {"away", "located"}
                 PROVE  name'[slot[d]] = d
      OBVIOUS
    <3>1. d \in Stored
      BY <1>0, <2>5 DEF Stored
    <3>2. slot[d] \in 0 .. out - 1 /\ name[slot[d]] = d
      BY <1>0, <1>1, <3>1 DEF NameInv
    <3>3. QED  BY <2>4, <3>2
  <2>7. cpc'[c] = "named"
    BY <1>0, <2>2
  <2>8. QED
    BY <1>1, <2>1, <2>2, <2>3, <2>4, <2>5, <2>6, <2>7 DEF NameInv
<1>4. CASE StoreOut(c)
  <2>1. Stored' = Stored \cup {c}
    BY <1>4, ClientCounts
  <2>2. /\ UNCHANGED <<name, slot>> /\ cpc[c] = "loaded" /\ cpc' = [cpc EXCEPT ![c] = "open"]
        /\ out' = out + 1
    <3>1. ctmp[c] = out
      BY <1>1, <1>4 DEF StoreOut, OutInv
    <3>2. QED  BY <1>4, <3>1 DEF StoreOut, NextOut
  <2>3. slot[c] = out /\ name[out] = c
    BY <1>1, <2>2 DEF NameInv, Putting
  <2>4. \A d \in Clients : cpc'[d] \notin Putting
    BY <1>0, <1>1, <2>2 DEF OutInv, Putting
  <2>5. ASSUME NEW d \in Clients
        PROVE  /\ d \in Stored' => slot[d] < out + 1
               /\ cpc'[d] \notin {"away", "located"} => name[slot[d]] = d
    <3>1. CASE d = c
      BY <1>0, <2>3, <3>1
    <3>2. CASE d # c
      <4>1. cpc'[d] = cpc[d]
        BY <1>0, <2>2, <3>2
      <4>2. slot[d] \in Nat
        BY <1>0
      <4>3. QED  BY <1>0, <1>1, <2>1, <3>2, <4>1, <4>2 DEF NameInv
    <3>3. QED  BY <3>1, <3>2
  <2>6. ASSUME NEW k \in 0 .. out
        PROVE  name[k] \in Stored' /\ slot[name[k]] = k
    <3>1. CASE k = out
      BY <2>1, <2>3, <3>1
    <3>2. CASE k # out
      <4>1. k \in 0 .. out - 1
        BY <1>0, <3>2
      <4>2. QED  BY <1>1, <2>1, <4>1 DEF NameInv
    <3>3. QED  BY <3>1, <3>2
  <2>7. 0 .. out' - 1 = 0 .. out
    BY <1>0, <2>2
  <2>8. QED  BY <2>2, <2>4, <2>5, <2>6, <2>7
<1>5. CASE LoadOut(c) \/ Signal(c) \/ Type(c) \/ Leave(c)
  <2>1. Stored' = Stored
    <3>1. ~StoreOut(c)
      BY <1>5 DEF LoadOut, Signal, Type, Leave, AtFifos, StoreOut
    <3>2. QED  BY <3>1, ClientCounts
  <2>2. UNCHANGED <<out, name, slot>>
    BY <1>5 DEF LoadOut, Signal, Type, Leave, dataVars, clientVars, history
  <2>3. \A d \in Clients : /\ cpc'[d] \in Putting => cpc[d] \in Putting
                           /\ cpc'[d] \notin {"away", "located"} => cpc[d] \notin {"away", "located"}
    BY <1>0, <1>5 DEF LoadOut, Signal, Type, Leave, clientVars, Putting
  <2>4. QED  BY <1>1, <2>1, <2>2, <2>3 DEF NameInv
<1>6. QED  BY <1>2, <1>3, <1>4, <1>5 DEF Client

LEMMA OutNameStep ==
  ASSUME TypeOK, OutInv, NameInv, [Next]_vars
  PROVE  OutInv' /\ NameInv'
<1>1. ASSUME UNCHANGED <<name, out, cpc, slot, ctmp, outRaced>>
      PROVE  OutInv' /\ NameInv'
  BY <1>1 DEF OutInv, NameInv, Stored
<1>2. CASE UNCHANGED vars
  BY <1>1, <1>2 DEF vars, dataVars, clientVars, history
<1>3. CASE Coordinator
  BY <1>1, <1>3 DEF Coordinator, Enter, SemWait, Scan, dataVars, clientVars, history
<1>4. ASSUME NEW n \in Servers, Start(n) \/ Serve(n) PROVE OutInv' /\ NameInv'
  BY <1>1, <1>4, ServerFrame
<1>5. QED  BY <1>2, <1>3, <1>4, ClientOut, ClientName DEF Next

-----------------------------------------------------------------------------
(* Calls *)

LEMMA DueIsNat == Signalled \in Nat /\ Due \in Nat /\ Due = Cardinality(Owed) + Signalled
<1>1. Signalled \in Nat
  BY DEF Signalled
<1>2. QED  BY <1>1, Counts DEF Due

\* Marking a server hands the signal on to it.
LEMMA MarkOwes ==
  ASSUME TypeOK, MarkInv, Scan, hi < NS, s[hi] = 0
  PROVE  /\ IsFiniteSet(Owed') /\ Cardinality(Owed)' = Cardinality(Owed) + 1
         /\ Signalled' = Signalled - 1
         /\ Cardinality(Unmarked)' = Cardinality(Unmarked) - 1 /\ Posting' = Posting
         /\ hpc = "scan" /\ hpc' = "off"
<1>0. s \in [Servers -> {0, 1}] /\ hpc = "scan" /\ UNCHANGED <<pending, spc>>
  BY DEF TypeOK, ServerTypes, Scan, serverVars
<1> PICK h : h = hi
  OBVIOUS
<1>1. h \in Servers /\ s[h] = 0
  BY CoordinatorAssumption DEF Servers, TypeOK, HandlerTypes
<1>2. s' = [s EXCEPT ![h] = 1] /\ hpc' = "off"
  BY <1>0, <1>1, CoordinatorAssumption DEF Scan, TypeOK, HandlerTypes
<1>3. s'[h] = 1 /\ \A n \in Servers : n # h => s'[n] = s[n]
  BY <1>0, <1>1, <1>2
<1>4. spc[h] \in {"off", "idle", "post"}
  <2>1. s[h] # 1
    BY <1>1
  <2>2. QED  BY <1>1, <2>1 DEF MarkInv
<1>5. Owed' = Owed \cup {h} /\ h \notin Owed
  BY <1>0, <1>1, <1>3, <1>4 DEF Owed
<1>6. Unmarked' = Unmarked \ {h} /\ h \in Unmarked
  BY <1>1, <1>3 DEF Unmarked
<1>7. Posting' = Posting
  BY <1>0 DEF Posting
<1>8. Signalled' = Signalled - 1
  BY <1>0, <1>2 DEF Signalled
<1>9. IsFiniteSet(Owed \cup {h}) /\ Cardinality(Owed \cup {h}) = Cardinality(Owed) + 1
  BY <1>5, Counts, FS_AddElement
<1>10. Cardinality(Unmarked \ {h}) = Cardinality(Unmarked) - 1
  BY <1>6, Counts, Shrinks
<1>11. QED  BY <1>0, <1>2, <1>5, <1>6, <1>7, <1>8, <1>9, <1>10

\* The servers that owe a client, are free and are about to post, step by step.
LEMMA ServerCounts ==
  ASSUME TypeOK, MarkInv, NEW n \in Servers, Start(n) \/ Serve(n)
  PROVE  /\ IF StoreIn(n) THEN n \in Owed /\ Owed' = Owed \ {n} ELSE Owed' = Owed
         /\ IF Free(n) THEN n \notin Unmarked /\ Unmarked' = Unmarked \cup {n}
                       ELSE Unmarked' = Unmarked
         /\ Free(n) => n \notin Posting /\ Posting' = Posting \cup {n}
         /\ Post(n) => n \in Posting /\ Posting' = Posting \ {n}
         /\ ~Free(n) /\ ~Post(n) => Posting' = Posting
<1> USE DEF Owed, Unmarked, Posting, Taking
<1>0. /\ s \in [Servers -> {0, 1}]
      /\ spc \in [Servers -> {"off", "idle", "request fifo", "reply fifo", "read", "write",
                              "free", "post", "dead"} \union Taking]
  BY DEF TypeOK, ServerTypes
<1>1. CASE StoreIn(n)
  <2>1. spc[n] = "loaded" /\ s' = s /\ ~Free(n) /\ ~Post(n) /\ s[n] = 1
    BY <1>1 DEF StoreIn, Free, Post, MarkInv
  <2>2. spc'[n] \in {"free", "request fifo"} /\ \A m \in Servers : m # n => spc'[m] = spc[m]
    BY <1>0, <1>1 DEF StoreIn
  <2>3. QED  BY <1>1, <2>1, <2>2
<1>2. CASE Free(n)
  <2>1. spc[n] = "free" /\ s[n] = 1 /\ ~StoreIn(n) /\ ~Post(n)
    BY <1>2 DEF StoreIn, Free, Post, MarkInv
  <2>2. /\ spc'[n] = "post" /\ s'[n] = 0
        /\ \A m \in Servers : m # n => spc'[m] = spc[m] /\ s'[m] = s[m]
    BY <1>0, <1>2 DEF Free
  <2>3. QED  BY <1>2, <2>1, <2>2
<1>3. CASE Post(n)
  <2>1. spc[n] = "post" /\ s' = s /\ ~StoreIn(n) /\ ~Free(n)
    BY <1>3 DEF StoreIn, Free, Post
  <2>2. spc'[n] = "idle" /\ \A m \in Servers : m # n => spc'[m] = spc[m]
    BY <1>0, <1>3 DEF Post
  <2>3. QED  BY <1>3, <2>1, <2>2
<1>4. CASE Start(n) \/ CopyName(n) \/ LoadIn(n)
  <2>1. /\ spc[n] \in {"off", "idle", "copied"} /\ s' = s /\ ~StoreIn(n) /\ ~Free(n) /\ ~Post(n)
    BY <1>4 DEF Start, CopyName, LoadIn, StoreIn, Free, Post
  <2>2. spc'[n] \in {"idle", "copied", "loaded"} /\ \A m \in Servers : m # n => spc'[m] = spc[m]
    BY <1>0, <1>4 DEF Start, CopyName, LoadIn
  <2>3. QED  BY <2>1, <2>2
<1>5. CASE OpenFifos(n) \/ ReadRequest(n) \/ WriteReply(n)
  <2>1. /\ spc[n] \in {"request fifo", "reply fifo", "read", "write"} /\ s' = s
        /\ ~StoreIn(n) /\ ~Free(n) /\ ~Post(n)
    BY <1>5 DEF OpenFifos, OpenFifo, ReadRequest, WriteReply, StoreIn, Free, Post
  <2>2. /\ spc'[n] \in {"reply fifo", "read", "write", "free", "dead"}
        /\ \A m \in Servers : m # n => spc'[m] = spc[m]
    BY <1>0, <1>5 DEF OpenFifos, OpenFifo, ReadRequest, WriteReply
  <2>3. QED  BY <2>1, <2>2
<1>6. QED  BY <1>1, <1>2, <1>3, <1>4, <1>5 DEF Serve

LEMMA CallInit == Init => CallInv /\ JobInv
<1> SUFFICES ASSUME Init PROVE CallInv /\ JobInv
  OBVIOUS
<1>1. Owed = {}
  BY DEF Init, Owed
<1>2. Due = 0
  BY <1>1, FS_EmptySet DEF Init, Due, Signalled
<1>3. \A n \in Servers : spc[n] = "off" /\ job[n] = NoName
  BY DEF Init
<1>4. in = 0
  BY DEF Init
<1>5. CallInv
  BY <1>2, <1>3, <1>4, Counts DEF CallInv, Taking
<1>6. JobInv
  BY <1>3 DEF JobInv
<1>7. QED  BY <1>5, <1>6

LEMMA ClientCall ==
  ASSUME TypeOK, OutInv, CallInv, NEW c \in Clients, Client(c)
  PROVE  CallInv'
<1>0. /\ in \in Nat /\ stmp \in [Servers -> Nat] /\ Cardinality(Owed) \in Nat
      /\ Cardinality(Callers) \in Nat
  BY Counts DEF TypeOK, DataTypes, ServerTypes
<1>1. UNCHANGED <<in, s, hpc, spc, stmp, inRaced>>
  BY ClientFrame DEF handlerVars, serverVars
<1>2. Owed' = Owed
  BY <1>1 DEF Owed
<1>3. CASE Signal(c)
  <2>1. Cardinality(Callers)' = Cardinality(Callers) + 1
    <3>1. c \notin Callers /\ Callers' = Callers \cup {c}
      BY <1>3, ClientCounts
    <3>2. QED  BY <3>1, Counts, Grows
  <2>2. Signalled' <= Signalled + 1 /\ Signalled \in Nat /\ Signalled' \in Nat
    BY <1>1, <1>3 DEF Signal, Wake, Signalled
  <2>3. Due' <= Due + 1 /\ Due \in Nat /\ Due' \in Nat
    BY <1>0, <1>2, <2>2 DEF Due
  <2>4. QED  BY <1>0, <1>1, <2>1, <2>3 DEF CallInv
<1>4. CASE ~Signal(c)
  <2>1. Callers' = Callers
    BY <1>4, ClientCounts
  <2>2. pending' = pending
    BY <1>4 DEF Client, Locate, PutName, LoadOut, StoreOut, Type, Leave
  <2>3. QED  BY <1>1, <1>2, <2>1, <2>2 DEF CallInv, Due, Signalled
<1>5. QED  BY <1>3, <1>4

LEMMA CoordinatorCall ==
  ASSUME TypeOK, MarkInv, CallInv, Coordinator
  PROVE  CallInv'
<1>0. /\ in \in Nat /\ stmp \in [Servers -> Nat] /\ Cardinality(Owed) \in Nat
      /\ Cardinality(Callers) \in Nat /\ Signalled \in Nat
  BY Counts, DueIsNat DEF TypeOK, DataTypes, ServerTypes
<1>1. UNCHANGED <<in, spc, stmp, inRaced, cpc>>
  BY DEF Coordinator, Enter, SemWait, Scan, dataVars, serverVars, clientVars, history
<1>2. Callers' = Callers
  BY <1>1 DEF Callers
<1>3. Due' \in Nat /\ Due' <= Due
  <2>1. CASE Enter \/ SemWait \/ (Scan /\ ~(hi < NS /\ s[hi] = 0))
    <3>1. Owed' = Owed
      BY <1>1, <2>1, CoordinatorAssumption
      DEF Owed, Enter, SemWait, Scan, TypeOK, HandlerTypes
    <3>2. Signalled' \in Nat /\ Signalled' <= Signalled
      BY <2>1 DEF Signalled, Enter, SemWait, Scan
    <3>3. QED  BY <1>0, <3>1, <3>2 DEF Due
  <2>2. CASE Scan /\ hi < NS /\ s[hi] = 0
    <3>1. /\ Cardinality(Owed)' = Cardinality(Owed) + 1
          /\ Signalled' = Signalled - 1
      BY <2>2, MarkOwes
    <3>2. QED  BY <1>0, <3>1 DEF Due
  <2>3. QED  BY <2>1, <2>2 DEF Coordinator
<1>4. Due \in Nat
  BY <1>0 DEF Due
<1>5. QED  BY <1>0, <1>1, <1>2, <1>3, <1>4 DEF CallInv

LEMMA ServerCall ==
  ASSUME TypeOK, MarkInv, CallInv, NEW n \in Servers, Start(n) \/ Serve(n)
  PROVE  CallInv'
<1>0. spc \in [Servers -> {"off", "idle", "request fifo", "reply fifo", "read", "write",
                              "free", "post", "dead"} \union Taking]
  BY DEF TypeOK, ServerTypes
<1>a. /\ in \in Nat /\ Cardinality(Owed) \in Nat /\ Cardinality(Callers) \in Nat
      /\ Signalled \in Nat /\ Due \in Nat /\ \A m \in Servers : stmp[m] \in Nat
  BY Counts, DueIsNat DEF TypeOK, DataTypes, ServerTypes
<1>1. Signalled' = Signalled /\ Callers' = Callers
  BY ServerFrame DEF Signalled, Callers
<1>2. CASE StoreIn(n)
  <2>1. Due' = Due - 1
    <3>1. n \in Owed /\ Owed' = Owed \ {n}
      BY <1>2, ServerCounts
    <3>2. Cardinality(Owed)' = Cardinality(Owed) - 1
      BY <3>1, Counts, Shrinks
    <3>3. QED  BY <1>a, <1>1, <3>2 DEF Due
  <2>2. /\ in' = stmp[n] + 1 /\ spc[n] = "loaded" /\ UNCHANGED <<stmp, inRaced>>
        /\ \A m \in Servers : /\ m # n => spc'[m] = spc[m]
                              /\ m = n => spc'[m] \in {"free", "request fifo"}
    BY <1>0, <1>2 DEF StoreIn, NextIn, history
  <2>3. in' + Due' <= Cardinality(Callers)
    <3>1. stmp[n] + Due <= Cardinality(Callers)
      BY <2>2 DEF CallInv
    <3>2. in' = stmp[n] + 1
      BY <2>2
    <3>3. QED  BY <1>a, <2>1, <3>1, <3>2
  <2>4. ASSUME NEW m \in Servers, spc'[m] = "loaded"
        PROVE  stmp'[m] + Due' <= Cardinality(Callers)
    <3>1. stmp[m] + Due <= Cardinality(Callers) /\ stmp'[m] = stmp[m]
      BY <2>2, <2>4 DEF CallInv
    <3>2. QED  BY <1>a, <2>1, <3>1
  <2>5. ASSUME ~inRaced' PROVE \A m \in Servers : spc'[m] \notin Taking
    BY <2>2, <2>5 DEF CallInv, Taking
  <2>6. QED  BY <1>1, <2>3, <2>4, <2>5 DEF CallInv, Taking
<1>3. CASE ~StoreIn(n)
  <2>1. Due' = Due
    BY <1>1, <1>3, ServerCounts DEF Due
  <2>2. CASE CopyName(n)
    <3>1. /\ UNCHANGED <<in, stmp>> /\ spc[n] = "idle"
          /\ ~inRaced' => ~inRaced /\ \A m \in Servers : spc[m] \notin Taking
      BY <2>2 DEF CopyName, dataVars
    <3>2. \A m \in Servers : /\ m # n => spc'[m] = spc[m]
                             /\ m = n => spc'[m] = "copied"
      BY <1>0, <2>2 DEF CopyName
    <3>3. QED  BY <1>1, <2>1, <3>1, <3>2 DEF CallInv, Taking
  <2>3. CASE LoadIn(n)
    <3>1. /\ UNCHANGED <<in, inRaced>> /\ spc[n] = "copied"
      BY <2>3 DEF LoadIn, dataVars, history
    <3>2. \A m \in Servers : /\ m # n => spc'[m] = spc[m] /\ stmp'[m] = stmp[m]
                             /\ m = n => spc'[m] = "loaded" /\ stmp'[m] = in
      BY <1>0, <2>3 DEF LoadIn, TypeOK, ServerTypes
    <3>3. QED  BY <1>1, <2>1, <3>1, <3>2 DEF CallInv, Taking
  <2>4. CASE ~CopyName(n) /\ ~LoadIn(n)
    <3>1. UNCHANGED <<in, stmp, inRaced>>
      BY <1>3, <2>4 DEF Start, Serve, OpenFifos, OpenFifo, ReadRequest, WriteReply, Free, Post,
         dataVars, serverVars, history
    <3>2. \A m \in Servers : spc'[m] \in Taking => spc'[m] = spc[m]
      BY <1>0, <1>3, <2>4 DEF Start, Serve, OpenFifos, OpenFifo, ReadRequest, WriteReply, Free,
         Post, Taking
    <3>3. QED  BY <1>1, <2>1, <3>1, <3>2 DEF CallInv, Taking
  <2>5. QED  BY <2>2, <2>3, <2>4
<1>4. QED  BY <1>2, <1>3

LEMMA CallStep ==
  ASSUME TypeOK, MarkInv, OutInv, CallInv, [Next]_vars
  PROVE  CallInv'
<1>1. CASE UNCHANGED vars
  BY <1>1 DEF vars, dataVars, handlerVars, serverVars, clientVars, history, CallInv, Due, Owed,
     Signalled, Callers
<1>2. QED  BY <1>1, ClientCall, CoordinatorCall, ServerCall DEF Next

\* A name is handed to one server, when servers do not race for d->in.
LEMMA CopyJob ==
  ASSUME TypeOK, MarkInv, OutInv, CallInv, NameInv, JobInv, NEW n \in Servers, CopyName(n)
  PROVE  JobInv'
<1> SUFFICES ASSUME ~inRaced', ~outRaced'
             PROVE  \A m \in Servers : job'[m] # NoName =>
                      /\ job'[m] \in Stored'
                      /\ slot'[job'[m]] <= in'
                      /\ spc'[m] \notin Taking => slot'[job'[m]] < in'
                      /\ \A k \in Servers : k # m => job'[k] # job'[m]
  BY DEF JobInv
<1>0. /\ UNCHANGED <<in, cpc, slot>> /\ ~inRaced /\ ~outRaced /\ s[n] = 1 /\ spc[n] = "idle"
      /\ \A m \in Servers : spc[m] \notin Taking
      /\ job' = [job EXCEPT ![n] = name[in]] /\ spc' = [spc EXCEPT ![n] = "copied"]
  BY DEF CopyName, dataVars, clientVars
<1>1. in \in 0 .. out - 1
  <2>1. n \in Owed
    BY <1>0 DEF Owed
  <2>2. in < Cardinality(Stored) /\ in \in Nat
    BY <2>1, InBehind, Counts DEF TypeOK, DataTypes
  <2>3. out = Cardinality(Stored)
    BY <1>0 DEF OutInv
  <2>4. QED  BY <2>2, <2>3, Counts
<1>2. name[in] \in Stored /\ slot[name[in]] = in /\ in \in Nat
  BY <1>0, <1>1 DEF NameInv, TypeOK, DataTypes
<1>3. ASSUME NEW m \in Servers, m # n, job[m] # NoName
      PROVE  job[m] \in Stored /\ slot[job[m]] < in /\ job[m] # name[in]
  <2>1. job[m] \in Stored /\ slot[job[m]] < in
    BY <1>0, <1>3 DEF JobInv
  <2>2. QED  BY <1>2, <2>1
<1>4. /\ job'[n] = name[in] /\ spc'[n] = "copied"
      /\ \A m \in Servers : m # n => job'[m] = job[m] /\ spc'[m] = spc[m]
  BY <1>0 DEF TypeOK, ServerTypes
<1>5. Stored' = Stored
  BY <1>0 DEF Stored
<1>6. \A m, k \in Servers : m # n /\ k # n /\ m # k /\ job[m] # NoName => job[m] # job[k]
  BY <1>0 DEF JobInv
<1>7. name[in] # NoName
  BY <1>2, CoordinatorAssumption DEF Stored
<1>8. ASSUME NEW m \in Servers, job'[m] # NoName
      PROVE  /\ job'[m] \in Stored
             /\ slot[job'[m]] <= in
             /\ spc'[m] \notin Taking => slot[job'[m]] < in
             /\ \A k \in Servers : k # m => job'[k] # job'[m]
  <2>1. CASE m = n
    BY <1>2, <1>3, <1>4, <1>7, <2>1 DEF Taking
  <2>2. CASE m # n
    <3>1. job[m] \in Stored /\ slot[job[m]] < in /\ job[m] # name[in] /\ job'[m] = job[m]
      BY <1>3, <1>4, <1>8, <2>2
    <3>2. slot[job[m]] \in Nat
      BY <3>1 DEF Stored, TypeOK, ClientTypes
    <3>3. QED  BY <1>2, <1>4, <1>6, <1>8, <2>2, <3>1, <3>2
  <2>3. QED  BY <2>1, <2>2
<1>9. QED  BY <1>0, <1>5, <1>8

LEMMA ServerJob ==
  ASSUME TypeOK, MarkInv, OutInv, CallInv, NameInv, JobInv, NEW n \in Servers, Start(n) \/ Serve(n)
  PROVE  JobInv'
<1>0. /\ spc \in [Servers -> {"off", "idle", "request fifo", "reply fifo", "read", "write",
                              "free", "post", "dead"} \union Taking]
      /\ job \in [Servers -> Clients \union {NoName}] /\ in \in Nat
  BY DEF TypeOK, ServerTypes, DataTypes
<1>1. UNCHANGED <<cpc, slot, outRaced>>
  BY ServerFrame
<1>2. Stored' = Stored
  BY <1>1 DEF Stored
<1>3. CASE CopyName(n)
  BY <1>3, CopyJob
<1>4. CASE StoreIn(n)
  <2> SUFFICES ASSUME ~inRaced', ~outRaced'
               PROVE  \A m \in Servers : job[m] # NoName =>
                        /\ job[m] \in Stored
                        /\ slot[job[m]] < in'
                        /\ \A k \in Servers : k # m => job[k] # job[m]
    <3>1. job' = job
      BY <1>4 DEF StoreIn
    <3>2. \A c \in Stored : slot[c] \in Nat
      BY DEF Stored, TypeOK, ClientTypes
    <3>3. in' \in Nat
      <4>1. stmp[n] \in Nat
        BY DEF TypeOK, ServerTypes
      <4>2. in' = stmp[n] + 1
        BY <1>4 DEF StoreIn, NextIn
      <4>3. QED  BY <4>1, <4>2
    <3>4. QED  BY <1>1, <1>2, <3>1, <3>2, <3>3 DEF JobInv
  <2>1. ~inRaced /\ ~outRaced /\ spc[n] = "loaded"
    <3>1. inRaced' = inRaced /\ spc[n] = "loaded"
      BY <1>4 DEF StoreIn, history
    <3>2. outRaced' = outRaced
      BY <1>1
    <3>3. QED  BY <3>1, <3>2
  <2>2. in' = in + 1
    <3>1. stmp[n] = in
      BY <2>1 DEF CallInv
    <3>2. QED  BY <1>4, <3>1 DEF StoreIn, NextIn
  <2>3. ASSUME NEW m \in Servers, job[m] # NoName
        PROVE  /\ job[m] \in Stored /\ slot[job[m]] <= in
               /\ \A k \in Servers : k # m => job[k] # job[m]
    BY <2>1, <2>3 DEF JobInv
  <2>4. \A c \in Stored : slot[c] \in Nat
    BY DEF Stored, TypeOK, ClientTypes
  <2>5. ASSUME NEW m \in Servers, job[m] # NoName PROVE slot[job[m]] < in'
    <3>1. slot[job[m]] <= in /\ slot[job[m]] \in Nat
      BY <2>3, <2>4, <2>5
    <3>2. in \in Nat
      BY <1>0
    <3>3. QED  BY <2>2, <3>1, <3>2
  <2>6. QED  BY <2>3, <2>5
<1>5. CASE Start(n) \/ LoadIn(n) \/ OpenFifos(n) \/ ReadRequest(n) \/ WriteReply(n) \/ Free(n) \/ Post(n)
  <2>1. UNCHANGED <<in, inRaced>>
    BY <1>5 DEF Start, LoadIn, OpenFifos, OpenFifo, ReadRequest, WriteReply, Free, Post, dataVars, history
  <2>2. \A m \in Servers : job'[m] = NoName \/ job'[m] = job[m]
    BY <1>0, <1>5 DEF Start, LoadIn, OpenFifos, OpenFifo, ReadRequest, WriteReply, Free, Post, serverVars
  <2>3. \A m \in Servers : spc'[m] \notin Taking => spc[m] \notin Taking
    BY <1>0, <1>5 DEF Start, LoadIn, OpenFifos, OpenFifo, ReadRequest, WriteReply, Free, Post, Taking
  <2>4. QED  BY <1>1, <1>2, <2>1, <2>2, <2>3 DEF JobInv
<1>6. QED  BY <1>3, <1>4, <1>5 DEF Serve

LEMMA JobStep ==
  ASSUME TypeOK, MarkInv, OutInv, CallInv, NameInv, JobInv, [Next]_vars
  PROVE  JobInv'
<1>1. CASE UNCHANGED vars
  BY <1>1 DEF vars, dataVars, serverVars, clientVars, history, JobInv, Stored
<1>2. CASE Coordinator
  <2>1. UNCHANGED <<in, spc, job, cpc, slot, inRaced, outRaced>>
    BY <1>2 DEF Coordinator, Enter, SemWait, Scan, dataVars, serverVars, clientVars, history
  <2>2. QED  BY <2>1 DEF JobInv, Stored
<1>3. ASSUME NEW c \in Clients, Client(c) PROVE JobInv'
  <2>0. ~outRaced' => ~outRaced
    BY <1>3 DEF Client, Locate, PutName, LoadOut, StoreOut, Signal, Type, Leave, history
  <2>1. UNCHANGED <<in, spc, job, inRaced>>
    BY <1>3, ClientFrame DEF serverVars
  <2>2. ASSUME NEW d \in Stored PROVE d \in Stored' /\ slot'[d] = slot[d]
    <3>1. Stored \subseteq Stored'
      BY <1>3, ClientCounts
    <3>2. CASE Locate(c)
      <4>1. d # c
        BY <3>2 DEF Locate, Stored
      <4>2. QED  BY <3>1, <3>2, <4>1 DEF Locate, Stored, TypeOK, ClientTypes
    <3>3. CASE ~Locate(c)
      <4>1. slot' = slot
        BY <1>3, <3>3 DEF Client, PutName, LoadOut, StoreOut, Signal, Type, Leave, clientVars
      <4>2. QED  BY <3>1, <4>1
    <3>4. QED  BY <3>2, <3>3
  <2>3. QED  BY <2>0, <2>1, <2>2 DEF JobInv
<1>4. QED  BY <1>1, <1>2, <1>3, ServerJob DEF Next

-----------------------------------------------------------------------------
(* The semaphore *)

LEMMA ScanInit == Init => ScanInv
<1> SUFFICES ASSUME Init PROVE ScanInv
  OBVIOUS
<1>1. Posting = {} /\ InScan = 0 /\ Unmarked = Servers /\ sem = NS /\ hpc = "off"
  BY DEF Init, Posting, InScan, Unmarked
<1>2. Cardinality(Servers) = NS
  BY FS_Interval, CoordinatorAssumption DEF Servers
<1>3. QED  BY <1>1, <1>2, FS_EmptySet, CoordinatorAssumption DEF ScanInv

LEMMA CoordinatorScan ==
  ASSUME TypeOK, MarkInv, ScanInv, Coordinator
  PROVE  ScanInv'
<1>0. /\ sem \in Nat /\ hi \in 0 .. NS /\ NS \in Nat /\ Cardinality(Unmarked) \in Nat
      /\ Cardinality(Posting) \in Nat
  BY Counts, CoordinatorAssumption DEF TypeOK, DataTypes, HandlerTypes
<1>1. UNCHANGED <<spc, reset>>
  BY DEF Coordinator, Enter, SemWait, Scan, serverVars, history
<1>2. Posting' = Posting
  BY <1>1 DEF Posting
<1> SUFFICES ASSUME ~reset
             PROVE  /\ sem' + InScan' + Cardinality(Posting) = Cardinality(Unmarked)'
                    /\ hpc' = "scan" => \E n \in hi' .. NS - 1 : s'[n] = 0
  BY <1>1, <1>2 DEF ScanInv
<1>3. /\ sem + InScan + Cardinality(Posting) = Cardinality(Unmarked)
      /\ hpc = "scan" => \E n \in hi .. NS - 1 : s[n] = 0
  BY DEF ScanInv
<1>4. CASE Enter
  <2>1. s' = s /\ sem' = sem /\ InScan' = InScan /\ hpc' # "scan"
    BY <1>4 DEF Enter, InScan
  <2>2. QED  BY <1>3, <2>1 DEF Unmarked
<1>5. CASE SemWait
  <2>1. s' = s /\ sem > 0 /\ sem' = sem - 1 /\ InScan = 0 /\ InScan' = 1 /\ hi' = 0
    BY <1>5 DEF SemWait, Down, InScan
  <2>2. Unmarked' = Unmarked
    BY <2>1 DEF Unmarked
  <2>3. Unmarked # {}
    <3>1. Cardinality(Unmarked) # 0
      BY <1>0, <1>3, <2>1
    <3>2. QED  BY <3>1, FS_EmptySet
  <2>4. \E n \in 0 .. NS - 1 : s[n] = 0
    BY <2>3 DEF Unmarked, Servers
  <2>5. sem' + InScan' + Cardinality(Posting) = Cardinality(Unmarked)
    BY <1>0, <1>3, <2>1
  <2>6. QED  BY <2>1, <2>2, <2>4, <2>5
<1>6. CASE Scan /\ hi < NS /\ s[hi] = 0
  <2>1. /\ Cardinality(Unmarked)' = Cardinality(Unmarked) - 1
        /\ InScan = 1 /\ InScan' = 0 /\ hpc' = "off"
    BY <1>6, MarkOwes DEF InScan
  <2>2. sem' = sem
    BY <1>6 DEF Scan
  <2>3. sem' + InScan' + Cardinality(Posting) = Cardinality(Unmarked)'
    BY <1>0, <1>3, <2>1, <2>2
  <2>4. QED  BY <2>1, <2>3
<1>7. CASE Scan /\ hi < NS /\ s[hi] = 1
  <2>1. s' = s /\ sem' = sem /\ InScan' = InScan /\ hi' = hi + 1 /\ hpc = "scan"
    BY <1>0, <1>7 DEF Scan, InScan
  <2>2. Unmarked' = Unmarked
    BY <2>1 DEF Unmarked
  <2>3. PICK n \in hi .. NS - 1 : s[n] = 0
    BY <1>3, <2>1
  <2>4. n # hi
    BY <1>7, <2>3
  <2>5. n \in hi' .. NS - 1
    BY <1>0, <2>1, <2>3, <2>4
  <2>6. QED  BY <1>3, <2>1, <2>2, <2>3, <2>5
<1>8. CASE Scan /\ hi = NS
  <2>1. FALSE
    <3>1. \E n \in hi .. NS - 1 : s[n] = 0
      BY <1>3, <1>8 DEF Scan
    <3>2. QED  BY <1>0, <1>8, <3>1
  <2>2. QED  BY <2>1
<1>9. QED  BY <1>4, <1>5, <1>6, <1>7, <1>8 DEF Coordinator, Scan

LEMMA ServerScan ==
  ASSUME TypeOK, MarkInv, ScanInv, NEW n \in Servers, Start(n) \/ Serve(n)
  PROVE  ScanInv'
<1>0. /\ sem \in Nat /\ Cardinality(Unmarked) \in Nat /\ Cardinality(Posting) \in Nat
      /\ InScan \in Nat
  <2>1. InScan \in Nat
    BY DEF InScan
  <2>2. QED  BY <2>1, Counts DEF TypeOK, DataTypes
<1>1. UNCHANGED <<hpc, hi>> /\ InScan' = InScan
  BY ServerFrame DEF InScan
<1>2. ~reset' => ~reset
  BY DEF Start, Serve, CopyName, LoadIn, StoreIn, OpenFifos, OpenFifo, ReadRequest, WriteReply,
         Free, Post, history
<1> SUFFICES ASSUME ~reset'
             PROVE  /\ sem' + InScan + Cardinality(Posting)' = Cardinality(Unmarked)'
                    /\ hpc = "scan" => \E k \in hi .. NS - 1 : s'[k] = 0
  BY <1>1 DEF ScanInv
<1>3. /\ sem + InScan + Cardinality(Posting) = Cardinality(Unmarked)
      /\ hpc = "scan" => \E k \in hi .. NS - 1 : s[k] = 0
  BY <1>2 DEF ScanInv
<1>4. (\E k \in hi .. NS - 1 : s[k] = 0) => \E k \in hi .. NS - 1 : s'[k] = 0
  <2>1. CASE Free(n)
    <3>1. \A k \in Servers : s[k] = 0 => s'[k] = 0
      BY <2>1 DEF Free, TypeOK, ServerTypes
    <3>2. hi .. NS - 1 \subseteq Servers
      BY CoordinatorAssumption DEF TypeOK, HandlerTypes, Servers
    <3>3. QED  BY <3>1, <3>2
  <2>2. CASE ~Free(n)
    <3>1. s' = s
      BY <2>2 DEF Start, Serve, CopyName, LoadIn, StoreIn, OpenFifos, OpenFifo, ReadRequest,
         WriteReply, Post
    <3>2. QED  BY <3>1
  <2>3. QED  BY <2>1, <2>2
<1>5. CASE Free(n)
  <2>1. /\ n \notin Unmarked /\ Unmarked' = Unmarked \cup {n}
        /\ n \notin Posting /\ Posting' = Posting \cup {n}
    BY <1>5, ServerCounts
  <2>2. /\ Cardinality(Unmarked)' = Cardinality(Unmarked) + 1
        /\ Cardinality(Posting)' = Cardinality(Posting) + 1
    BY <2>1, Counts, Grows
  <2>3. sem' = sem
    BY <1>5 DEF Free
  <2>4. QED  BY <1>0, <1>3, <1>4, <2>2, <2>3
<1>6. CASE Post(n)
  <2>1. /\ Unmarked' = Unmarked /\ n \in Posting /\ Posting' = Posting \ {n}
    BY <1>6, ServerCounts DEF Post, Free
  <2>2. Cardinality(Posting)' = Cardinality(Posting) - 1
    BY <2>1, Counts, Shrinks
  <2>3. sem' = sem + 1
    BY <1>6 DEF Post, Up
  <2>4. QED  BY <1>0, <1>3, <1>4, <2>1, <2>2, <2>3
<1>7. CASE ~Free(n) /\ ~Post(n)
  <2>1. Unmarked' = Unmarked /\ Posting' = Posting
    BY <1>7, ServerCounts
  <2>2. sem' = sem
    BY <1>7 DEF Start, Serve, CopyName, LoadIn, StoreIn, OpenFifos, OpenFifo, ReadRequest, WriteReply
  <2>3. QED  BY <1>3, <1>4, <2>1, <2>2
<1>8. QED  BY <1>5, <1>6, <1>7

LEMMA ScanStep ==
  ASSUME TypeOK, MarkInv, ScanInv, [Next]_vars
  PROVE  ScanInv'
<1>1. ASSUME UNCHANGED <<s, sem, spc, hpc, hi, reset>> PROVE ScanInv'
  BY <1>1 DEF ScanInv, InScan, Posting, Unmarked
<1>2. CASE UNCHANGED vars
  BY <1>1, <1>2 DEF vars, handlerVars, serverVars, history
<1>3. ASSUME NEW c \in Clients, Client(c) PROVE ScanInv'
  BY <1>1, <1>3, ClientFrame DEF handlerVars, serverVars
<1>4. QED  BY <1>2, <1>3, CoordinatorScan, ServerScan DEF Next

-----------------------------------------------------------------------------
(* Calls and names *)

LEMMA MatchInit == Init => CallsMatchNames
<1> SUFFICES ASSUME Init PROVE CallsMatchNames
  OBVIOUS
<1>1. Calling = {} /\ Owed = {} /\ Signalled = 0 /\ in = 0 /\ out = 0
  BY DEF Init, Calling, Owed, Signalled
<1>2. QED  BY <1>1, FS_EmptySet DEF CallsMatchNames

Balance == Cardinality(Calling) + Signalled + Cardinality(Owed) = out - in

LEMMA ClientMatch ==
  ASSUME TypeOK, OutInv, CallsMatchNames, NEW c \in Clients, Client(c)
  PROVE  CallsMatchNames'
<1>0. /\ in \in Nat /\ out \in Nat /\ Cardinality(Calling) \in Nat /\ Cardinality(Owed) \in Nat
      /\ Signalled \in Nat
  BY Counts, DueIsNat DEF TypeOK, DataTypes
<1>1. UNCHANGED <<in, s, hpc, spc, inRaced, reset>>
  BY ClientFrame DEF handlerVars, serverVars
<1>2. Owed' = Owed
  BY <1>1 DEF Owed
<1>3. (~outRaced' => ~outRaced) /\ (~coalesced' => ~coalesced)
  <2>1. ~outRaced' => ~outRaced
    BY DEF Client, Locate, PutName, LoadOut, StoreOut, Signal, Type, Leave, history
  <2>2. ~coalesced' => ~coalesced
    BY DEF Client, Locate, PutName, LoadOut, StoreOut, Signal, Type, Leave, history
  <2>3. QED  BY <2>1, <2>2
<1> SUFFICES ASSUME ~coalesced', ~outRaced', Balance PROVE Balance'
  BY <1>1, <1>3 DEF CallsMatchNames, Balance
<1>4. CASE StoreOut(c)
  <2>1. Cardinality(Calling)' = Cardinality(Calling) + 1
    <3>1. c \notin Calling /\ Calling' = Calling \cup {c}
      BY <1>4, ClientCounts
    <3>2. QED  BY <3>1, Counts, Grows
  <2>2. out' = out + 1 /\ Signalled' = Signalled
    <3>1. ctmp[c] = out
      BY <1>3, <1>4 DEF StoreOut, OutInv
    <3>2. QED  BY <1>1, <1>4, <3>1 DEF StoreOut, NextOut, Signalled
  <2>3. Cardinality(Owed)' = Cardinality(Owed) /\ in' = in
    BY <1>1, <1>2
  <2>4. Cardinality(Calling) + Signalled + Cardinality(Owed) = out - in
    BY DEF Balance
  <2>5. out' - in' = (out - in) + 1
    BY <1>0, <2>2, <2>3
  <2>6. Cardinality(Calling)' + Signalled' + Cardinality(Owed)' = (out - in) + 1
    <3>1. Cardinality(Calling)' + Signalled' + Cardinality(Owed)'
            = (Cardinality(Calling) + 1) + Signalled + Cardinality(Owed)
      BY <2>1, <2>2, <2>3
    <3>2. PICK a, b, d, x, y : /\ a = Cardinality(Calling) /\ b = Signalled
                               /\ d = Cardinality(Owed) /\ x = out /\ y = in
      OBVIOUS
    <3>3. a \in Nat /\ b \in Nat /\ d \in Nat /\ x \in Nat /\ y \in Nat
      BY <1>0, <3>2
    <3>4. a + b + d = x - y
      BY <2>4, <3>2
    <3>5. (a + 1) + b + d = (x - y) + 1 /\ a + b + (d - 1) = (x - y) - 1
      BY <3>3, <3>4
    <3>6. QED  BY <3>1, <3>2, <3>5
  <2>7. QED  BY <2>5, <2>6 DEF Balance
<1>5. CASE Signal(c)
  <2>1. Cardinality(Calling)' = Cardinality(Calling) - 1
    <3>1. c \in Calling /\ Calling' = Calling \ {c}
      BY <1>5, ClientCounts
    <3>2. QED  BY <3>1, Counts, Shrinks
  <2>2. out' = out /\ Signalled' = Signalled + 1
    <3>1. ~pending
      BY <1>5 DEF Signal
    <3>2. QED  BY <1>1, <1>5, <3>1 DEF Signal, Wake, Signalled, dataVars
  <2>3. QED  BY <1>0, <1>1, <1>2, <2>1, <2>2 DEF Balance
<1>6. CASE ~StoreOut(c) /\ ~Signal(c)
  <2>1. Calling' = Calling
    BY <1>6, ClientCounts
  <2>2. out' = out /\ pending' = pending
    BY <1>6 DEF Client, Locate, PutName, LoadOut, Type, Leave, dataVars
  <2>3. QED  BY <1>1, <1>2, <2>1, <2>2 DEF Balance, Signalled
<1>7. QED  BY <1>4, <1>5, <1>6

LEMMA CoordinatorMatch ==
  ASSUME TypeOK, MarkInv, ScanInv, CallsMatchNames, Coordinator
  PROVE  CallsMatchNames'
<1>0. /\ in \in Nat /\ out \in Nat /\ Cardinality(Calling) \in Nat /\ Cardinality(Owed) \in Nat
      /\ Signalled \in Nat
  BY Counts, DueIsNat DEF TypeOK, DataTypes
<1>1. UNCHANGED <<in, out, spc, cpc, inRaced, outRaced, coalesced, reset>>
  BY DEF Coordinator, Enter, SemWait, Scan, dataVars, serverVars, clientVars, history
<1>2. Calling' = Calling
  BY <1>1 DEF Calling
<1> SUFFICES ASSUME ~reset, Balance PROVE Balance'
  BY <1>1 DEF CallsMatchNames, Balance
<1>3. CASE Scan /\ hi < NS /\ s[hi] = 0
  <2>1. Cardinality(Owed)' = Cardinality(Owed) + 1 /\ Signalled' = Signalled - 1
    BY <1>3, MarkOwes
  <2>2. QED  BY <1>0, <1>1, <1>2, <2>1 DEF Balance
<1>4. CASE Scan /\ hi = NS
  <2>1. \E n \in hi .. NS - 1 : s[n] = 0
    BY <1>4 DEF ScanInv, Scan
  <2>2. FALSE
    BY <1>4, <2>1, CoordinatorAssumption
  <2>3. QED  BY <2>2
<1>5. CASE Enter \/ SemWait \/ (Scan /\ hi < NS /\ s[hi] = 1)
  <2>1. s' = s
    BY <1>5, CoordinatorAssumption DEF Enter, SemWait, Scan, TypeOK, HandlerTypes
  <2>2. Owed' = Owed
    BY <1>1, <2>1 DEF Owed
  <2>3. Signalled' = Signalled
    BY <1>5, CoordinatorAssumption DEF Enter, SemWait, Scan, Signalled, TypeOK, HandlerTypes
  <2>4. QED  BY <1>1, <1>2, <2>2, <2>3 DEF Balance
<1>6. QED  BY <1>3, <1>4, <1>5 DEF Coordinator, Scan

LEMMA ServerMatch ==
  ASSUME TypeOK, MarkInv, CallInv, CallsMatchNames, NEW n \in Servers, Start(n) \/ Serve(n)
  PROVE  CallsMatchNames'
<1>0. /\ in \in Nat /\ out \in Nat /\ Cardinality(Calling) \in Nat /\ Cardinality(Owed) \in Nat
      /\ Signalled \in Nat
  BY Counts, DueIsNat DEF TypeOK, DataTypes
<1>1. out' = out /\ Calling' = Calling /\ Signalled' = Signalled
  BY ServerFrame DEF Calling, Signalled
<1>2. /\ coalesced' <=> coalesced
      /\ outRaced' <=> outRaced
  BY ServerFrame
<1>3. ~reset' => ~reset
  BY DEF Start, Serve, CopyName, LoadIn, StoreIn, OpenFifos, OpenFifo, ReadRequest, WriteReply,
         Free, Post, history
<1>4. ~inRaced' => ~inRaced
  BY DEF Start, Serve, CopyName, LoadIn, StoreIn, OpenFifos, OpenFifo, ReadRequest, WriteReply,
         Free, Post, history
<1> SUFFICES ASSUME ~inRaced, Balance PROVE Balance'
  BY <1>2, <1>3, <1>4 DEF CallsMatchNames, Balance
<1>5. CASE StoreIn(n)
  <2>1. Cardinality(Owed)' = Cardinality(Owed) - 1
    <3>1. n \in Owed /\ Owed' = Owed \ {n}
      BY <1>5, ServerCounts
    <3>2. QED  BY <3>1, Counts, Shrinks
  <2>2. in' = in + 1
    <3>1. stmp[n] = in
      BY <1>5 DEF StoreIn, CallInv
    <3>2. QED  BY <1>5, <3>1 DEF StoreIn, NextIn
  <2>3. Cardinality(Calling)' = Cardinality(Calling) /\ Signalled' = Signalled /\ out' = out
    BY <1>1
  <2>4. Cardinality(Calling) + Signalled + Cardinality(Owed) = out - in
    BY DEF Balance
  <2>5. out' - in' = (out - in) - 1
    BY <1>0, <2>2, <2>3
  <2>6. Cardinality(Calling)' + Signalled' + Cardinality(Owed)' = (out - in) - 1
    <3>1. Cardinality(Calling)' + Signalled' + Cardinality(Owed)'
            = Cardinality(Calling) + Signalled + (Cardinality(Owed) - 1)
      BY <2>1, <2>2, <2>3
    <3>2. PICK a, b, d, x, y : /\ a = Cardinality(Calling) /\ b = Signalled
                               /\ d = Cardinality(Owed) /\ x = out /\ y = in
      OBVIOUS
    <3>3. a \in Nat /\ b \in Nat /\ d \in Nat /\ x \in Nat /\ y \in Nat
      BY <1>0, <3>2
    <3>4. a + b + d = x - y
      BY <2>4, <3>2
    <3>5. (a + 1) + b + d = (x - y) + 1 /\ a + b + (d - 1) = (x - y) - 1
      BY <3>3, <3>4
    <3>6. QED  BY <3>1, <3>2, <3>5
  <2>7. QED  BY <2>5, <2>6 DEF Balance
<1>6. CASE ~StoreIn(n)
  <2>1. Owed' = Owed
    BY <1>6, ServerCounts
  <2>2. in' = in
    BY <1>6 DEF Start, Serve, CopyName, LoadIn, OpenFifos, OpenFifo, ReadRequest, WriteReply,
       Free, Post, dataVars
  <2>3. QED  BY <1>1, <2>1, <2>2 DEF Balance
<1>7. QED  BY <1>5, <1>6

LEMMA MatchStep ==
  ASSUME TypeOK, MarkInv, OutInv, CallInv, ScanInv, CallsMatchNames, [Next]_vars
  PROVE  CallsMatchNames'
<1>1. CASE UNCHANGED vars
  BY <1>1 DEF vars, dataVars, handlerVars, serverVars, clientVars, history, CallsMatchNames, Calling,
     Owed, Signalled
<1>2. QED  BY <1>1, ClientMatch, CoordinatorMatch, ServerMatch DEF Next

-----------------------------------------------------------------------------
LEMMA Invariance == Spec => []IInv
<1>1. Init => IInv
  BY TypeInit, OutNameInit, CallInit, ScanInit, MatchInit DEF IInv
<1>2. IInv /\ [Next]_vars => IInv'
  BY TypeStep, OutNameStep, CallStep, JobStep, ScanStep, MatchStep DEF IInv
<1>3. QED  BY <1>1, <1>2, PTL DEF Spec

\* The semaphore counts the servers that are free, up to the handler and those about to
\* post, and the handler finds one, unless a starting server reset it.
THEOREM SemaphoreCorrect == Spec => []SemaphoreInv
<1>1. IInv => SemaphoreInv
  <2> SUFFICES ASSUME IInv PROVE SemaphoreInv
    OBVIOUS
  <2>1. SemaphoreCountsFree
    BY DEF IInv, ScanInv, SemaphoreCountsFree
  <2>2. ScanFindsAServer
    <3> SUFFICES ASSUME hpc = "scan", hi = NS, ~reset PROVE FALSE
      BY DEF ScanFindsAServer
    <3>1. \E n \in NS .. NS - 1 : s[n] = 0
      BY DEF IInv, ScanInv
    <3>2. QED  BY <3>1, CoordinatorAssumption
  <2>3. QED  BY <2>1, <2>2 DEF IInv, SemaphoreInv
<1>2. QED  BY <1>1, Invariance, PTL

\* Servers never run ahead of the clients that put their names, whatever signals are lost
\* and however the semaphore is reset, and no two of them work for one client, unless two
\* clients or two servers raced.
THEOREM NamesCorrect == Spec => []NamesInv
<1>1. IInv => NamesInv
  <2> SUFFICES ASSUME IInv PROVE NamesInv
    OBVIOUS
  <2>1. ServersBehindClients
    <3> SUFFICES ASSUME ~outRaced PROVE in + Cardinality(Owed) <= out
      BY DEF ServersBehindClients
    <3>1. out = Cardinality(Stored)
      BY DEF IInv, OutInv
    <3>2. in + Due <= Cardinality(Callers)
      BY DEF IInv, CallInv
    <3>3. in \in Nat
      BY DEF IInv, TypeOK, DataTypes
    <3>4. QED  BY <3>1, <3>2, <3>3, Counts, DueIsNat
  <2>2. OneServerEach
    BY DEF IInv, JobInv, OneServerEach
  <2>3. QED  BY <2>1, <2>2 DEF NamesInv
<1>2. QED  BY <1>1, Invariance, PTL

\* Without an accident, the calls under way are as many as the names not taken yet.
THEOREM CallsCorrect == Spec => []CallsMatchNames
<1>1. IInv => CallsMatchNames
  BY DEF IInv
<1>2. QED  BY <1>1, Invariance, PTL
=============================================================================
