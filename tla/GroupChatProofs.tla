-------------------------- MODULE GroupChatProofs --------------------------
(***************************************************************************)
(* Proofs about GroupChat, for any number of clients and groups and any    *)
(* numbers that users type.                                                *)
(***************************************************************************)
EXTENDS GroupChat, TLAPS

\* What a client has typed and been told by the time it is where it is.
DialogueInv ==
  /\ spc = "recv" <=> cur \in Clients
  /\ broken => spc = "recv" /\ cpc[cur] = "gone"
  /\ \A c \in Clients :
       /\ cpc[c] \in {"away", "waits", "asked", "typed", "told"} => said[c] = None
       /\ cpc[c] \in {"away", "waits", "asked"} => num[c] = None
       /\ cpc[c] \in {"typed", "told"} => num[c] \in Numbers
       /\ cpc[c] = "told" /\ ~skipped => num[c] <= made

IInv == GroupInv /\ DialogueInv

LEMMA InitInv == Init => IInv
<1> SUFFICES ASSUME Init PROVE IInv
  OBVIOUS
<1> USE GroupAssumption DEF Init
<1>1. TypeOK
  <2>1. ServerTypes
    <3>1. queue \in Seq(Clients)  OBVIOUS
    <3>2. broken \in BOOLEAN /\ skipped \in BOOLEAN  OBVIOUS
    <3>3. QED  BY <3>1, <3>2 DEF ServerTypes
  <2>2. GroupTypes   BY DEF GroupTypes
  <2>3. ClientTypes  BY DEF ClientTypes
  <2>4. QED  BY <2>1, <2>2, <2>3 DEF TypeOK
<1>2. ListIsTrue
  BY DEF ListIsTrue, Groups, Numbers
<1>3. RefusedForAReason /\ OneDialogue /\ DiesForAReason /\ DialogueInv
  BY DEF RefusedForAReason, OneDialogue, DiesForAReason, DialogueInv, None
<1>4. QED  BY <1>1, <1>2, <1>3 DEF IInv, GroupInv

\* The server takes the head of the queue; nobody else is in its dialogue.
LEMMA AcceptStep == ASSUME IInv, Accept PROVE IInv'
<1> USE DEF IInv, GroupInv, serverVars, groupVars, chatVars
<1>1. PICK c \in Clients :
        /\ c = Head(queue) /\ cur' = c /\ queue' = Tail(queue) /\ spc = "accept" /\ spc' = "recv"
        /\ cpc' = [cpc EXCEPT ![c] = Greeted(c)] /\ broken' = (cpc[c] = "gone")
        /\ UNCHANGED <<made, starting, open, n, turn, num, said, skipped, early>>
  <2>1. Head(queue) \in Clients
    BY DEF Accept, TypeOK, ServerTypes
  <2>2. QED  BY <2>1 DEF Accept
<1>2. /\ cpc'[c] = Greeted(c) /\ \A d \in Clients : d # c => cpc'[d] = cpc[d]
      /\ Greeted(c) = IF cpc[c] = "waits" THEN "asked" ELSE cpc[c]
  BY <1>1 DEF TypeOK, ClientTypes, Greeted
<1>3. TypeOK'
  <2>1. ServerTypes'
    <3>1. queue' \in Seq(Clients)
      <4>1. queue \in Seq(Clients) /\ queue # <<>>
        BY DEF Accept, TypeOK, ServerTypes
      <4>2. QED  BY <1>1, <4>1
    <3>2. broken' \in BOOLEAN  BY <1>1
    <3>3. skipped' \in BOOLEAN /\ made' \in Nat  BY <1>1 DEF TypeOK, ServerTypes
    <3>4. QED  BY <1>1, <3>1, <3>2, <3>3 DEF ServerTypes
  <2>2. GroupTypes'
    BY <1>1 DEF TypeOK, GroupTypes
  <2>3. ClientTypes'
    BY <1>1, <1>2 DEF TypeOK, ClientTypes
  <2>4. QED  BY <2>1, <2>2, <2>3 DEF TypeOK
<1>4. ListIsTrue'
  BY <1>1 DEF ListIsTrue
<1>5. RefusedForAReason' /\ OneDialogue' /\ DiesForAReason'
  BY <1>1, <1>2 DEF RefusedForAReason, OneDialogue, DiesForAReason
<1>6. DialogueInv'
  BY <1>1, <1>2 DEF DialogueInv
<1>7. QED  BY <1>3, <1>4, <1>5, <1>6

\* The server answers: a new group is the next one, unless a number is left out.
LEMMA AnswerStep == ASSUME IInv, Answer PROVE IInv'
<1> USE DEF IInv, GroupInv, serverVars, groupVars, chatVars
<1>1. PICK c \in Clients : c = cur
  BY DEF Answer, DialogueInv
<1>2. PICK j : j = Typed(c)
  OBVIOUS
<1>3. /\ spc = "recv" /\ cur = c /\ j \in Numbers
      /\ cpc[c] = "typed" => j = num[c]
      /\ cpc[c] \in {"typed", "chats", "gone"}
  <2>1. spc = "recv" /\ cpc[c] \in {"typed", "chats", "gone"}
    BY <1>1 DEF Answer, Heard
  <2>2. 0 \in Numbers /\ num[c] \in Numbers \union {None} /\ said[c] \in Numbers \union {None}
    BY GroupAssumption DEF TypeOK, ClientTypes, Numbers
  <2>3. cpc[c] = "typed" => said[c] = None /\ num[c] \in Numbers
    BY DEF DialogueInv
  <2>4. None \notin Numbers
    BY GroupAssumption DEF None, Numbers
  <2>5. QED  BY <1>1, <1>2, <2>1, <2>2, <2>3, <2>4 DEF Typed
<1>4. /\ skipped' <=> skipped \/ j > made + 1
      /\ \/ j > made /\ starting' = [starting EXCEPT ![j] = @ + 1] /\ made' = made + 1
         \/ ~(j > made) /\ UNCHANGED <<starting, made>>
      /\ cpc' = [cpc EXCEPT ![c] = IF @ = "typed" THEN "told" ELSE @]
      /\ spc' = IF broken THEN "dead" ELSE "accept"
      /\ cur' = None /\ broken' = FALSE
      /\ UNCHANGED <<queue, open, n, turn, num, said, early>>
  BY <1>1, <1>2 DEF Answer, NextCount
<1>5. /\ cpc'[c] = (IF cpc[c] = "typed" THEN "told" ELSE cpc[c])
      /\ \A d \in Clients : d # c => cpc'[d] = cpc[d]
  BY <1>4 DEF TypeOK, ClientTypes
<1>6. made \in Nat /\ made' \in Nat /\ made <= made'
  BY <1>4 DEF TypeOK, ServerTypes
<1>7. j > made => j \in Groups
  BY <1>3, <1>6, GroupAssumption DEF Groups, Numbers
<1>8. TypeOK'
  <2>1. ServerTypes'
    <3>1. skipped' \in BOOLEAN  BY DEF Answer
    <3>2. QED  BY <1>4, <1>6, <3>1 DEF TypeOK, ServerTypes
  <2>2. GroupTypes'
    <3>1. starting \in [Groups -> Nat]  BY DEF TypeOK, GroupTypes
    <3>2. starting' \in [Groups -> Nat]  BY <1>4, <1>7, <3>1
    <3>3. QED  BY <1>4, <3>2 DEF TypeOK, GroupTypes
  <2>3. ClientTypes'
    BY <1>4, <1>5 DEF TypeOK, ClientTypes
  <2>4. QED  BY <2>1, <2>2, <2>3 DEF TypeOK
<1>9. ListIsTrue'
  <2> SUFFICES ASSUME ~skipped', NEW g \in Groups
               PROVE  starting'[g] + (IF g \in open THEN 1 ELSE 0) = (IF g <= made' THEN 1 ELSE 0)
    BY <1>4 DEF ListIsTrue
  <2>1. /\ ~skipped /\ ~(j > made + 1) /\ g \in Int /\ j \in Int
        /\ starting[g] + (IF g \in open THEN 1 ELSE 0) = (IF g <= made THEN 1 ELSE 0)
    BY <1>3, <1>4 DEF ListIsTrue, Groups, Numbers
  <2>2. CASE j > made
    <3>1. j = made + 1 /\ made' = j /\ starting' = [starting EXCEPT ![j] = @ + 1]
      BY <1>4, <1>6, <2>1, <2>2
    <3>2. CASE g = j
      <4>1. starting'[g] = starting[g] + 1 /\ starting[g] \in Nat
        BY <3>1, <3>2 DEF TypeOK, GroupTypes
      <4>2. QED  BY <1>6, <2>1, <3>1, <3>2, <4>1
    <3>3. CASE g # j
      <4>1. starting'[g] = starting[g] /\ (g <= made' <=> g <= made)
        BY <1>6, <2>1, <3>1, <3>3 DEF TypeOK, GroupTypes
      <4>2. QED  BY <2>1, <4>1
    <3>4. QED  BY <3>2, <3>3
  <2>3. CASE ~(j > made)
    BY <1>4, <2>1, <2>3
  <2>4. QED  BY <2>2, <2>3
<1>10. RefusedForAReason'
  BY <1>3, <1>4, <1>5 DEF RefusedForAReason
<1>11. OneDialogue'
  BY <1>3, <1>5 DEF OneDialogue
<1>12. DiesForAReason'
  BY <1>3, <1>4, <1>5 DEF DiesForAReason, DialogueInv
<1>13. DialogueInv'
  <2>1. ASSUME NEW d \in Clients, cpc'[d] = "told", ~skipped' PROVE num[d] <= made'
    <3>1. CASE d = c /\ cpc[c] = "typed"
      <4>1. j = num[d] /\ ~(j > made + 1) /\ j \in Int
        BY <1>3, <1>4, <2>1, <3>1 DEF Numbers
      <4>2. QED  BY <1>4, <1>6, <4>1
    <3>2. CASE cpc[d] = "told"
      <4>1. num[d] <= made /\ num[d] \in Int
        BY <1>4, <2>1, <3>2 DEF DialogueInv, Numbers
      <4>2. QED  BY <1>6, <4>1
    <3>3. QED  BY <1>5, <2>1, <3>1, <3>2
  <2>2. \A d \in Clients :
          /\ cpc'[d] \in {"away", "waits", "asked", "typed", "told"} => said[d] = None
          /\ cpc'[d] \in {"typed", "told"} => num[d] \in Numbers
    BY <1>5 DEF DialogueInv
  <2>3. spc' # "recv" /\ cur' \notin Clients /\ ~broken'
    BY <1>4, GroupAssumption
  <2>4. QED  BY <1>4, <2>1, <2>2, <2>3 DEF DialogueInv
<1>14. QED  BY <1>8, <1>9, <1>10, <1>11, <1>12, <1>13

\* A process of the group binds its port, or finds it taken: the sum in ListIsTrue stays,
\* since the group is not open as long as a process that the list counts is starting.
LEMMA BindStep == ASSUME IInv, NEW g \in Groups, Bind(g) PROVE IInv'
<1> USE DEF IInv, GroupInv
<1>1. /\ starting[g] > 0 /\ starting' = [starting EXCEPT ![g] = @ - 1]
      /\ open' = open \union {g}
      /\ UNCHANGED <<spc, cur, made, queue, broken, n, turn, cpc, num, said, skipped, early>>
  BY DEF Bind, serverVars, chatVars, clientVars
<1>2. starting \in [Groups -> Nat] /\ starting' \in [Groups -> Nat]
  BY <1>1 DEF TypeOK, GroupTypes
<1>3. TypeOK'
  <2>1. ServerTypes' /\ ClientTypes'
    BY <1>1 DEF TypeOK, ServerTypes, ClientTypes
  <2>2. GroupTypes'
    BY <1>1, <1>2 DEF TypeOK, GroupTypes
  <2>3. QED  BY <2>1, <2>2 DEF TypeOK
<1>4. ListIsTrue'
  <2> SUFFICES ASSUME ~skipped, NEW h \in Groups
               PROVE  starting'[h] + (IF h \in open' THEN 1 ELSE 0) = (IF h <= made THEN 1 ELSE 0)
    BY <1>1 DEF ListIsTrue
  <2>1. starting[h] + (IF h \in open THEN 1 ELSE 0) = (IF h <= made THEN 1 ELSE 0)
    BY DEF ListIsTrue
  <2>2. CASE h = g
    <3>1. starting'[g] = starting[g] - 1 /\ starting[g] \in Nat /\ g \in open'
      BY <1>1, <1>2
    <3>2. g \notin open
      BY <1>1, <2>1, <2>2, <3>1
    <3>3. QED  BY <2>1, <2>2, <3>1, <3>2
  <2>3. CASE h # g
    BY <1>1, <1>2, <2>1, <2>3
  <2>4. QED  BY <2>2, <2>3
<1>5. RefusedForAReason' /\ OneDialogue' /\ DiesForAReason' /\ DialogueInv'
  BY <1>1 DEF RefusedForAReason, OneDialogue, DiesForAReason, DialogueInv
<1>6. QED  BY <1>3, <1>4, <1>5

\* The chat thread goes to the next of the n that main has accepted, or to the first.
LEMMA ChatStep == ASSUME IInv, NEW g \in Groups, Chat(g) PROVE IInv'
<1> USE DEF IInv, GroupInv
<1>1. UNCHANGED <<spc, cur, made, queue, broken, starting, open, n, cpc, num, said, skipped, early>>
  BY DEF Chat, serverVars, groupVars, clientVars
<1>2. turn' \in [Groups -> Nat] /\ \A h \in Groups : turn'[h] = 0 \/ turn'[h] < n[h]
  <2>1. n[g] \in Nat \ {0} /\ turn \in [Groups -> Nat]
    BY DEF Chat, TypeOK, GroupTypes
  <2>2. turn' = [turn EXCEPT ![g] = (@ + 1) % n[g]]
    BY DEF Chat
  <2>3. (turn[g] + 1) % n[g] \in 0 .. n[g] - 1
    BY <2>1
  <2>4. QED  BY <2>1, <2>2, <2>3 DEF TypeOK, GroupTypes
<1>3. TypeOK'
  <2>1. ServerTypes' /\ ClientTypes'
    BY <1>1 DEF TypeOK, ServerTypes, ClientTypes
  <2>2. GroupTypes'
    BY <1>1, <1>2 DEF TypeOK, GroupTypes
  <2>3. QED  BY <2>1, <2>2 DEF TypeOK
<1>4. ListIsTrue' /\ RefusedForAReason' /\ OneDialogue' /\ DiesForAReason' /\ DialogueInv'
  BY <1>1 DEF ListIsTrue, RefusedForAReason, OneDialogue, DiesForAReason, DialogueInv
<1>5. QED  BY <1>3, <1>4

\* What the steps of one client's own position leave true.
LEMMA ClientMoves ==
  ASSUME IInv, NEW c \in Clients, NEW to \in {"waits", "asked", "typed", "chats", "refused", "gone"},
         cpc' = [cpc EXCEPT ![c] = to],
         UNCHANGED <<spc, cur, made, starting, open, turn, skipped>>,
         queue' \in Seq(Clients), broken' \in BOOLEAN, n' \in [Groups -> Nat],
         num' \in [Clients -> Numbers \union {None}], said' \in [Clients -> Numbers \union {None}],
         early' \subseteq Clients, early \subseteq early',
         \A d \in Clients : d # c => num'[d] = num[d] /\ said'[d] = said[d],
         broken' => spc = "recv" /\ cpc'[cur] = "gone",
         to \in {"waits", "asked", "typed"} => said'[c] = None,
         to = "typed" => num'[c] \in Numbers,
         to \in {"asked", "typed"} => spc = "recv" /\ cur = c,
         to \in {"waits", "asked"} => num'[c] = None,
         \A g \in Groups : n[g] <= n'[g],
         to = "refused" => \/ num'[c] \in Below
                           \/ num'[c] \in Groups /\ (skipped \/ c \in early')
                           \/ num'[c] \in {0, None} /\ spc = "dead",
         cpc[c] # "gone"
  PROVE  IInv'
<1> USE DEF IInv, GroupInv
<1>1. cpc'[c] = to /\ \A d \in Clients : d # c => cpc'[d] = cpc[d]
  BY DEF TypeOK, ClientTypes
<1>2. TypeOK'
  <2>1. ServerTypes'
    BY DEF TypeOK, ServerTypes
  <2>2. GroupTypes'
    <3>1. \A g \in Groups : n[g] \in Nat /\ n'[g] \in Nat /\ turn[g] \in Nat
      BY DEF TypeOK, GroupTypes
    <3>2. QED  BY <3>1 DEF TypeOK, GroupTypes
  <2>3. ClientTypes'
    <3>1. cpc' \in [Clients -> {"away", "waits", "asked", "typed", "told", "chats", "refused", "gone"}]
      BY DEF TypeOK, ClientTypes
    <3>2. QED  BY <3>1 DEF ClientTypes
  <2>4. QED  BY <2>1, <2>2, <2>3 DEF TypeOK
<1>3. ListIsTrue'
  BY DEF ListIsTrue
<1>4. RefusedForAReason' /\ OneDialogue' /\ DiesForAReason'
  BY <1>1 DEF RefusedForAReason, OneDialogue, DiesForAReason
<1>5. DialogueInv'
  BY <1>1 DEF DialogueInv
<1>6. QED  BY <1>2, <1>3, <1>4, <1>5

LEMMA StartStep == ASSUME IInv, NEW c \in Clients, Start(c) PROVE IInv'
<1> USE DEF IInv, GroupInv
<1>1. /\ cpc[c] = "away" /\ said[c] = None /\ num[c] = None
      /\ UNCHANGED <<spc, cur, made, broken, starting, open, n, turn, num, said, skipped, early>>
  BY DEF Start, DialogueInv, serverVars, groupVars, chatVars
<1>2. /\ queue \in Seq(Clients) /\ broken \in BOOLEAN /\ n \in [Groups -> Nat] /\ \A g \in Groups : n[g] <= n[g]
      /\ num \in [Clients -> Numbers \union {None}] /\ said \in [Clients -> Numbers \union {None}]
      /\ early \subseteq Clients /\ cpc \in [Clients -> {"away", "waits", "asked", "typed", "told", "chats", "refused", "gone"}]
  BY DEF TypeOK, ServerTypes, GroupTypes, ClientTypes
<1>3. ASSUME NEW to, cpc' = [cpc EXCEPT ![c] = to] PROVE broken' => spc = "recv" /\ cpc'[cur] = "gone"
  BY <1>1, <1>2, <1>3 DEF DialogueInv
<1>4. CASE Listened
  <2>1. cpc' = [cpc EXCEPT ![c] = "waits"] /\ queue' = Append(queue, c)
    BY <1>4 DEF Start
  <2>2. queue' \in Seq(Clients)
    BY <1>2, <2>1
  <2>3. QED  BY <1>1, <1>2, <1>3, <2>1, <2>2, ClientMoves
<1>5. CASE ~Listened
  <2>1. cpc' = [cpc EXCEPT ![c] = "refused"] /\ queue' = queue
    BY <1>5 DEF Start
  <2>2. spc = "dead"
    BY <1>5 DEF Listened
  <2>3. QED  BY <1>1, <1>2, <1>3, <2>1, <2>2, ClientMoves
<1>6. QED  BY <1>4, <1>5

LEMMA ExitStep == ASSUME IInv, NEW c \in Clients, Exit(c) PROVE IInv'
<1> USE DEF IInv, GroupInv
<1>1. /\ cpc[c] = "waits" /\ num[c] = None /\ spc = "dead" /\ cpc' = [cpc EXCEPT ![c] = "refused"]
      /\ UNCHANGED <<spc, cur, made, queue, broken, starting, open, n, turn, num, said, skipped, early>>
  BY DEF Exit, Listened, DialogueInv, serverVars, groupVars, chatVars
<1>2. /\ queue \in Seq(Clients) /\ broken \in BOOLEAN /\ n \in [Groups -> Nat] /\ \A g \in Groups : n[g] <= n[g]
      /\ num \in [Clients -> Numbers \union {None}] /\ said \in [Clients -> Numbers \union {None}]
      /\ early \subseteq Clients
  BY DEF TypeOK, ServerTypes, GroupTypes, ClientTypes
<1>3. ~broken
  BY <1>1 DEF DialogueInv
<1>4. QED  BY <1>1, <1>2, <1>3, ClientMoves

\* The list that the user chose from is still the server's: OneDialogue.
LEMMA EnterNumberStep == ASSUME IInv, NEW c \in Clients, EnterNumber(c) PROVE IInv'
<1> USE DEF IInv, GroupInv
<1>1. PICK j \in Numbers :
        /\ cpc[c] = "asked" /\ num' = [num EXCEPT ![c] = j] /\ cpc' = [cpc EXCEPT ![c] = "typed"]
        /\ UNCHANGED <<spc, cur, made, queue, broken, starting, open, n, turn, said, skipped, early>>
  BY DEF EnterNumber, serverVars, groupVars, chatVars
<1>2. /\ queue \in Seq(Clients) /\ broken \in BOOLEAN /\ n \in [Groups -> Nat] /\ \A g \in Groups : n[g] <= n[g]
      /\ num \in [Clients -> Numbers \union {None}] /\ said \in [Clients -> Numbers \union {None}]
      /\ early \subseteq Clients /\ cpc \in [Clients -> {"away", "waits", "asked", "typed", "told", "chats", "refused", "gone"}]
  BY DEF TypeOK, ServerTypes, GroupTypes, ClientTypes
<1>3. said[c] = None /\ spc = "recv" /\ cur = c /\ ~broken
  BY <1>1 DEF OneDialogue, DialogueInv
<1>4. num' \in [Clients -> Numbers \union {None}] /\ num'[c] = j /\ \A d \in Clients : d # c => num'[d] = num[d]
  BY <1>1, <1>2
<1>5. QED  BY <1>1, <1>2, <1>3, <1>4, ClientMoves

\* A client that was told a listed number finds the group open, or comes too early.
LEMMA ReconnectStep == ASSUME IInv, NEW c \in Clients, Reconnect(c) PROVE IInv'
<1> USE DEF IInv, GroupInv
<1>1. /\ cpc[c] = "told"
      /\ UNCHANGED <<spc, cur, made, broken, starting, open, turn, num, said, skipped>>
  BY DEF Reconnect, serverVars, groupVars
<1>2. /\ queue \in Seq(Clients) /\ broken \in BOOLEAN /\ n \in [Groups -> Nat] /\ \A g \in Groups : n[g] <= n[g]
      /\ num \in [Clients -> Numbers \union {None}] /\ said \in [Clients -> Numbers \union {None}]
      /\ early \subseteq Clients /\ cpc \in [Clients -> {"away", "waits", "asked", "typed", "told", "chats", "refused", "gone"}]
      /\ starting \in [Groups -> Nat] /\ open \subseteq Groups
  BY DEF TypeOK, ServerTypes, GroupTypes, ClientTypes
<1>3. ASSUME NEW to, cpc' = [cpc EXCEPT ![c] = to] PROVE broken' => spc = "recv" /\ cpc'[cur] = "gone"
  BY <1>1, <1>2, <1>3 DEF DialogueInv
<1>4. PICK j \in Numbers : j = num[c]
  BY <1>1 DEF DialogueInv
<1>5. CASE j = 0 /\ Listened /\ cpc' = [cpc EXCEPT ![c] = "chats"] /\ queue' = Append(queue, c)
           /\ UNCHANGED <<n, early>>
  <2>1. queue' \in Seq(Clients)
    BY <1>2, <1>5
  <2>2. QED  BY <1>1, <1>2, <1>3, <1>5, <2>1, ClientMoves
<1>6. CASE j \in open /\ cpc' = [cpc EXCEPT ![c] = "chats"] /\ n' = [n EXCEPT ![j] = @ + 1]
           /\ UNCHANGED <<queue, early>>
  <2>1. j \in Groups
    BY <1>2, <1>6
  <2>2. n' \in [Groups -> Nat] /\ \A g \in Groups : n[g] <= n'[g]
    BY <1>2, <1>6, <2>1
  <2>3. QED  BY <1>1, <1>2, <1>3, <1>6, <2>2, ClientMoves
<1>7. CASE /\ IF j = 0 THEN ~Listened ELSE j \notin open
           /\ cpc' = [cpc EXCEPT ![c] = "refused"]
           /\ early' = IF j \in Groups /\ starting[j] > 0 THEN early \union {c} ELSE early
           /\ UNCHANGED <<queue, n>>
  <2>1. early' \subseteq Clients /\ early \subseteq early'
    BY <1>2, <1>7
  <2>2. \/ j \in Below
        \/ j \in Groups /\ (skipped \/ c \in early')
        \/ j \in {0, None} /\ spc = "dead"
    <3>1. CASE j = 0
      BY <1>7, <3>1 DEF Listened
    <3>2. CASE j < 0
      BY <3>2 DEF Below
    <3>3. CASE j > 0 /\ ~skipped
      <4>1. j \in Groups /\ j \notin open /\ j <= made
        BY <1>1, <1>4, <1>7, <3>3, GroupAssumption DEF Groups, Numbers, DialogueInv
      <4>2. starting[j] > 0
        <5>1. starting[j] + (IF j \in open THEN 1 ELSE 0) = (IF j <= made THEN 1 ELSE 0)
          BY <3>3, <4>1 DEF ListIsTrue
        <5>2. QED  BY <1>2, <4>1, <5>1
      <4>3. QED  BY <1>7, <4>1, <4>2
    <3>4. CASE j > 0 /\ skipped
      BY <3>4, GroupAssumption DEF Groups, Numbers
    <3>5. j \in Int
      BY GroupAssumption DEF Numbers
    <3>6. QED  BY <3>1, <3>2, <3>3, <3>4, <3>5
  <2>3. QED  BY <1>1, <1>2, <1>3, <1>4, <1>7, <2>1, <2>2, ClientMoves
<1>8. QED
  BY <1>4, <1>5, <1>6, <1>7 DEF Reconnect

LEMMA SayStep == ASSUME IInv, NEW c \in Clients, Say(c) PROVE IInv'
<1> USE DEF IInv, GroupInv
<1>1. PICK j \in Numbers :
        /\ cpc[c] = "chats" /\ said' = [said EXCEPT ![c] = j]
        /\ UNCHANGED <<spc, cur, made, queue, broken, starting, open, n, turn, cpc, num, skipped, early>>
  BY DEF Say, serverVars, groupVars, chatVars
<1>2. said' \in [Clients -> Numbers \union {None}] /\ \A d \in Clients : d # c => said'[d] = said[d]
  BY <1>1 DEF TypeOK, ClientTypes
<1>3. TypeOK'
  <2>1. ServerTypes' /\ GroupTypes'
    BY <1>1 DEF TypeOK, ServerTypes, GroupTypes
  <2>2. ClientTypes'
    BY <1>1, <1>2 DEF TypeOK, ClientTypes
  <2>3. QED  BY <2>1, <2>2 DEF TypeOK
<1>4. ListIsTrue' /\ RefusedForAReason' /\ OneDialogue' /\ DiesForAReason'
  BY <1>1 DEF ListIsTrue, RefusedForAReason, OneDialogue, DiesForAReason
<1>5. DialogueInv'
  BY <1>1, <1>2 DEF DialogueInv
<1>6. QED  BY <1>3, <1>4, <1>5

\* The next send() is in danger only when it is the dead client that the server answers.
LEMMA KillStep == ASSUME IInv, NEW c \in Clients, Kill(c) PROVE IInv'
<1> USE DEF IInv, GroupInv
<1>1. /\ cpc[c] \in {"waits", "asked", "typed", "told", "chats"} /\ cpc' = [cpc EXCEPT ![c] = "gone"]
      /\ broken' \in IF c = cur /\ cpc[c] # "typed" THEN BOOLEAN ELSE {broken}
      /\ UNCHANGED <<spc, cur, made, queue, starting, open, n, turn, num, said, skipped, early>>
  BY DEF Kill, serverVars, groupVars, chatVars
<1>2. /\ queue \in Seq(Clients) /\ broken \in BOOLEAN /\ n \in [Groups -> Nat] /\ \A g \in Groups : n[g] <= n[g]
      /\ num \in [Clients -> Numbers \union {None}] /\ said \in [Clients -> Numbers \union {None}]
      /\ early \subseteq Clients /\ cpc \in [Clients -> {"away", "waits", "asked", "typed", "told", "chats", "refused", "gone"}]
  BY DEF TypeOK, ServerTypes, GroupTypes, ClientTypes
<1>3. broken' \in BOOLEAN
  BY <1>1, <1>2
<1>4. broken' => spc = "recv" /\ cpc'[cur] = "gone"
  <2>1. CASE c = cur
    BY <1>1, <1>2, <2>1, GroupAssumption DEF DialogueInv, TypeOK, ServerTypes
  <2>2. CASE c # cur
    BY <1>1, <1>2, <2>2 DEF DialogueInv
  <2>3. QED  BY <2>1, <2>2
<1>5. QED  BY <1>1, <1>2, <1>3, <1>4, ClientMoves

LEMMA StepInv == IInv /\ [Next]_vars => IInv'
<1> SUFFICES ASSUME IInv, [Next]_vars PROVE IInv'
  OBVIOUS
<1>1. CASE Server
  BY <1>1, AcceptStep, AnswerStep DEF Server
<1>2. CASE \E g \in Groups : Bind(g) \/ Chat(g)
  BY <1>2, BindStep, ChatStep
<1>3. CASE \E c \in Clients : Reconnect(c) \/ Exit(c) \/ User(c)
  BY <1>3, ReconnectStep, ExitStep, StartStep, EnterNumberStep, SayStep, KillStep DEF User
<1>4. CASE UNCHANGED vars
  <2> USE <1>4 DEF vars, serverVars, groupVars, chatVars, clientVars
  <2>1. TypeOK'
    BY DEF IInv, GroupInv, TypeOK, ServerTypes, GroupTypes, ClientTypes
  <2>2. ListIsTrue' /\ RefusedForAReason' /\ OneDialogue' /\ DiesForAReason'
    BY DEF IInv, GroupInv, ListIsTrue, RefusedForAReason, OneDialogue, DiesForAReason
  <2>3. DialogueInv'
    BY DEF IInv, DialogueInv
  <2>4. QED  BY <2>1, <2>2, <2>3 DEF IInv, GroupInv
<1>5. QED  BY <1>1, <1>2, <1>3, <1>4 DEF Next

\* For any number of clients and groups, and any numbers that users type, negative ones
\* included: the server's list is true as long as nobody leaves a number out, who is refused
\* typed a negative number, came too early, met a missing number or the server's end, one
\* dialogue at a time is held, and the server ends only after a client was killed.
THEOREM GroupCorrect == Spec => []GroupInv
<1>1. Init => IInv                    BY InitInv
<1>2. IInv /\ [Next]_vars => IInv'    BY StepInv
<1>3. IInv => GroupInv                BY DEF IInv
<1>4. QED  BY <1>1, <1>2, <1>3, PTL DEF Spec
=============================================================================
