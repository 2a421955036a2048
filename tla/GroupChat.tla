----------------------------- MODULE GroupChat -----------------------------
(***************************************************************************)
(* group_chat of the basic socket programs.  The server talks to one       *)
(* client at a time: it lists the groups 1 to i, reads the number that the *)
(* user typed, starts a group on port+j when j is greater than i, and      *)
(* answers port+j.  The client connects to that port and chats.            *)
(*                                                                         *)
(* A port is the number that is added to the server's: 0 is the server     *)
(* itself, and a client that was sent there talks to it once more.  A user *)
(* may type a negative number; the answer is then a port below the         *)
(* server's, where none of these programs listens.  The server's port is   *)
(* 1000 at least, so that a client takes any other answer for a port.      *)
(* What is said is a number: what atoi() makes of it.                      *)
(***************************************************************************)
EXTENDS Integers, Sequences, FiniteSets

CONSTANTS Clients,      \* the client processes
          MinNumber, MaxNumber,   \* bounds: the numbers that users type
          MaxKills      \* bound: how many clients are killed by their user

Numbers == MinNumber .. MaxNumber
None    == MaxNumber + 1

ASSUME GroupAssumption ==
  /\ IsFiniteSet(Clients) /\ None \notin Clients
  /\ MinNumber \in Int /\ MinNumber <= 0
  /\ MaxNumber \in Nat \ {0} /\ MaxKills \in Nat

Groups == 1 .. MaxNumber
Below  == {j \in Numbers : j < 0}

VARIABLES
  spc, cur, made,       \* where the server is, its client, and its i
  queue, broken,        \* the backlog; the server's next send() raises SIGPIPE
  starting, open,       \* processes of each group before bind(); those that listen
  n, turn,              \* each group: its n, and i of its chat thread
  cpc, num, said,       \* each client: where it is, its number, its first line of chat
  skipped, early        \* history: a number was left out; who came before bind()

serverVars == <<spc, cur, made>>
groupVars  == <<starting, open>>
chatVars   == <<n, turn>>
clientVars == <<cpc, num, said>>
vars == <<serverVars, queue, broken, groupVars, chatVars, clientVars, skipped, early>>

Init ==
  /\ spc = "accept" /\ cur = None /\ made = 0
  /\ queue = <<>> /\ broken = FALSE
  /\ starting = [g \in Groups |-> 0] /\ open = {}
  /\ n = [g \in Groups |-> 0] /\ turn = [g \in Groups |-> 0]
  /\ cpc = [c \in Clients |-> "away"]
  /\ num = [c \in Clients |-> None] /\ said = [c \in Clients |-> None]
  /\ skipped = FALSE /\ early = {}

\* The groups inherit the socket on which the server listens.
Listened == spc # "dead" \/ open # {} \/ \E g \in Groups : starting[g] > 0

-----------------------------------------------------------------------------
(* server.c *)

NotGreeted(c) == cpc[c]   \* mutant
\* A new client has the list of groups; one that was sent here takes it for chat.
Greeted(c) == IF cpc[c] = "waits" THEN "asked" ELSE cpc[c]

Accept ==
  /\ spc = "accept" /\ queue # <<>>
  /\ cur' = Head(queue) /\ queue' = Tail(queue)
  /\ cpc' = [cpc EXCEPT ![Head(queue)] = Greeted(Head(queue))]
  /\ broken' = (cpc[Head(queue)] = "gone")
  /\ spc' = "recv"
  /\ UNCHANGED <<made, groupVars, chatVars, num, said, skipped, early>>

Heard(c) == cpc[c] \in {"typed", "gone"} \/ (cpc[c] = "chats" /\ said[c] # None)

\* recv() of a connection that ended leaves the empty buffer, which is 0.
Typed(c) == IF said[c] # None THEN said[c] ELSE IF num[c] # None THEN num[c] ELSE 0

SameCount == made   \* mutant
NextCount == made + 1

\* recv(), the new group, and send(), in which the server dies if the client was reset.
Answer ==
  /\ spc = "recv" /\ Heard(cur)
  /\ LET j == Typed(cur) IN
       /\ IF j > made
            THEN /\ starting' = [starting EXCEPT ![j] = @ + 1]
                 /\ made' = NextCount
            ELSE UNCHANGED <<starting, made>>
       /\ skipped' = (skipped \/ j > made + 1)
  /\ cpc' = [cpc EXCEPT ![cur] = IF @ = "typed" THEN "told" ELSE @]
  /\ spc' = IF broken THEN "dead" ELSE "accept"
  /\ cur' = None /\ broken' = FALSE
  /\ UNCHANGED <<queue, open, chatVars, num, said, early>>

Server == Accept \/ Answer

-----------------------------------------------------------------------------
(* group.c *)

\* bind() fails for the second process of a group, which exits.
Bind(g) ==
  /\ starting[g] > 0
  /\ starting' = [starting EXCEPT ![g] = @ - 1]
  /\ open' = open \union {g}
  /\ UNCHANGED <<serverVars, queue, broken, chatVars, clientVars, skipped, early>>

\* The chat thread waits for n and then takes turns.  Its nsfd[] is the global one, which
\* main hides by its own: the thread asks descriptor 0, a pipe, and sends there, which fails.
Chat(g) ==
  /\ n[g] # 0
  /\ turn' = [turn EXCEPT ![g] = (@ + 1) % n[g]]
  /\ UNCHANGED <<serverVars, queue, broken, groupVars, n, clientVars, skipped, early>>

-----------------------------------------------------------------------------
(* client.c *)

\* connect() to the server, which succeeds as long as somebody holds its socket.
Start(c) ==
  /\ cpc[c] = "away"
  /\ IF Listened
       THEN cpc' = [cpc EXCEPT ![c] = "waits"] /\ queue' = Append(queue, c)
       ELSE cpc' = [cpc EXCEPT ![c] = "refused"] /\ UNCHANGED queue
  /\ UNCHANGED <<serverVars, broken, groupVars, chatVars, num, said, skipped, early>>

EnterNumber(c) ==
  /\ cpc[c] = "asked"
  /\ \E j \in Numbers : num' = [num EXCEPT ![c] = j]
  /\ cpc' = [cpc EXCEPT ![c] = "typed"]
  /\ UNCHANGED <<serverVars, queue, broken, groupVars, chatVars, said, skipped, early>>

\* connect() to the port of the answer, a second later; an answer below 1000 ends the
\* client as well.
Reconnect(c) ==
  LET j == num[c] IN
  /\ cpc[c] = "told"
  /\ \/ /\ j = 0 /\ Listened
        /\ cpc' = [cpc EXCEPT ![c] = "chats"] /\ queue' = Append(queue, c)
        /\ UNCHANGED <<n, early>>
     \/ /\ j \in open
        /\ cpc' = [cpc EXCEPT ![c] = "chats"] /\ n' = [n EXCEPT ![j] = @ + 1]
        /\ UNCHANGED <<queue, early>>
     \/ /\ IF j = 0 THEN ~Listened ELSE j \notin open
        /\ cpc' = [cpc EXCEPT ![c] = "refused"]
        /\ early' = IF j \in Groups /\ starting[j] > 0 THEN early \union {c} ELSE early
        /\ UNCHANGED <<queue, n>>
  /\ UNCHANGED <<serverVars, broken, groupVars, turn, num, said, skipped>>

\* msend: the first line of chat
Say(c) ==
  /\ cpc[c] = "chats" /\ said[c] = None
  /\ \E j \in Numbers : said' = [said EXCEPT ![c] = j]
  /\ UNCHANGED <<serverVars, queue, broken, groupVars, chatVars, cpc, num, skipped, early>>

\* The server ended with no group to hold its socket: the answer is not a port.
Exit(c) ==
  /\ cpc[c] = "waits" /\ ~Listened
  /\ cpc' = [cpc EXCEPT ![c] = "refused"]
  /\ UNCHANGED <<serverVars, queue, broken, groupVars, chatVars, num, said, skipped, early>>

\* The user kills the client; a line it has not read resets the connection.
Kill(c) ==
  /\ cpc[c] \in {"waits", "asked", "typed", "told", "chats"}
  /\ Cardinality({d \in Clients : cpc[d] = "gone"}) < MaxKills
  /\ cpc' = [cpc EXCEPT ![c] = "gone"]
  /\ broken' \in IF c = cur /\ cpc[c] # "typed" THEN BOOLEAN ELSE {broken}
  /\ UNCHANGED <<serverVars, queue, groupVars, chatVars, num, said, skipped, early>>

User(c) == Start(c) \/ EnterNumber(c) \/ Say(c) \/ Kill(c)

Next ==
  \/ Server
  \/ \E g \in Groups : Bind(g) \/ Chat(g)
  \/ \E c \in Clients : Reconnect(c) \/ Exit(c) \/ User(c)

Spec == Init /\ [][Next]_vars

\* Processes run.  Users need not do anything.
Fairness ==
  /\ WF_vars(Server)
  /\ \A g \in Groups : WF_vars(Bind(g))
  /\ \A c \in Clients : WF_vars(Reconnect(c)) /\ WF_vars(Exit(c))

FairSpec == Spec /\ Fairness

-----------------------------------------------------------------------------
(* Properties *)

ServerTypes ==
  /\ spc \in {"accept", "recv", "dead"} /\ cur \in Clients \union {None} /\ made \in Nat
  /\ queue \in Seq(Clients) /\ broken \in BOOLEAN /\ skipped \in BOOLEAN

GroupTypes ==
  /\ starting \in [Groups -> Nat] /\ open \subseteq Groups
  /\ n \in [Groups -> Nat] /\ turn \in [Groups -> Nat]
  /\ \A g \in Groups : turn[g] = 0 \/ turn[g] < n[g]

ClientTypes ==
  /\ cpc \in [Clients -> {"away", "waits", "asked", "typed", "told", "chats", "refused", "gone"}]
  /\ num \in [Clients -> Numbers \union {None}] /\ said \in [Clients -> Numbers \union {None}]
  /\ early \subseteq Clients

TypeOK == ServerTypes /\ GroupTypes /\ ClientTypes

\* As long as users leave no number out, the server's i says which groups there are: 1 to
\* i, each started once, whoever is killed and whoever talks to the server by mistake.
ListIsTrue ==
  ~skipped =>
    \A g \in Groups :
      starting[g] + (IF g \in open THEN 1 ELSE 0) = (IF g <= made THEN 1 ELSE 0)

\* A client finds nobody on its port only when its user typed a negative number; when it
\* came before its group had called bind(), or a number was left out before; or, having
\* typed 0 or nothing yet, when the server has ended and no group holds its socket.
RefusedForAReason ==
  \A c \in Clients : cpc[c] = "refused" =>
    \/ num[c] \in Below
    \/ num[c] \in Groups /\ (skipped \/ c \in early)
    \/ num[c] \in {0, None} /\ spc = "dead"

\* Only one client at a time is in the server's dialogue: nobody else has been asked, so
\* the list that a user chooses from is still true when the answer is read.
OneDialogue ==
  \A c \in Clients : cpc[c] \in {"asked", "typed"} => spc = "recv" /\ cur = c

\* The server ends only after a client was killed.
DiesForAReason == spc = "dead" => \E c \in Clients : cpc[c] = "gone"

\* The list, refusals, the dialogue and the server's end.
GroupInv == TypeOK /\ ListIsTrue /\ RefusedForAReason /\ OneDialogue /\ DiesForAReason

\* A user at the prompt, or in a chat with the server, types something or is killed.
UsersType ==
  \A c \in Clients :
    /\ []<>(cpc[c] # "asked")
    /\ []<>~(cpc[c] = "chats" /\ num[c] = 0 /\ said[c] = None)

\* If users type, every client that has connected gets its turn or the server has ended.
EveryClientIsAsked ==
  UsersType => \A c \in Clients : cpc[c] = "waits" ~> (cpc[c] # "waits" \/ spc = "dead")
=============================================================================
