# Verification of the CN-CS352 programs

The repository is a set of small C programs that talk through sockets, UNIX
sockets, shared memory, semaphores and signals. They share no code: each
directory is a system of a few processes with its own protocol. This project
models the ones whose processes share state or race with each other, checks the
models with TLC, and proves the main results with TLAPS.

## 1. Inventory

### nitwrail station: `src/RAW_Socket/nitwrail` (SM.c, P.c, T.c, tv.c)

*State.* Shared memory `flag[0..3]` (three platform flags and, in `flag[3]`, the
station master's pid); in SM the platform sockets `nusfd[]`, the queue
`queue[]`/`no[]` with its counters `scnt`, `tcnt`, and `train_no`; in each platform
`platform_no`, the pid it read and the train it serves.

*Operations.* SM forks three platforms, accepts trains, passes a train's socket to
a free platform (`write_fd`) or queues the train. A platform greets the train,
keeps it for a while, clears its flag and sends SIGUSR1 to SM; SM's handler takes
one train out of the queue. A train receives its number, then its platform, then
"Left". `tv.c` shows the announcements SM puts on a raw socket.

*Hard.* No lock anywhere: platforms claim flags by scanning for -1; SM's main loop
is interrupted by its own handler between the scan and the claim; SIGUSR1 does not
queue; a killed train leads to SIGPIPE in whoever sends to it; a platform may read
`flag[3]` before SM has written it, and then signals its whole process group.

*Correct when.* Trains are called once and in turn, under numbers of their own;
flags say which platforms are busy; nobody is stranded; processes die only for a
known cause.

### Mid 4 station: `src/MID/Mid 4` (station_master.c, platform.c, train.c)

The same queue, flags and handler, but SM answers a train with a *port number* and
the train connects again, one second later, to the platform. *Hard:* SM has marked
the platform busy and forgotten the train; only the platform can free the flag, and
only if the train arrives. A platform whose port is taken exits, and the next
announcement to it kills SM.

### BackUp server: `src/UDS_Programs/BackUp server` (server.c, bs.c, client.c)

*State.* The server's `cnt` of requests; the UNIX socket over which it passes the
listening socket and every connection; the backup's `nsfd[]`, `i` and `flag`; the
descriptors both processes hold of the same connections.

*Operations.* One thread per connection echoes in capitals, in either process.
After an accept that finds `cnt>5` the server sends SIGUSR1 and exits. The backup
then serves what it has read and accepts new clients.

*Hard.* `cnt++` in several threads; SIGUSR1 while descriptors are still unread;
`read_fd()` at the end of the stream; both processes reading one connection; one
slot `nsfd[i]` for all threads of the accept loop; `close()` of a number that has
been given to another connection.

*Correct when.* A request is answered or was lost for one of the reasons the code
cannot avoid; nobody is left connected and unserved otherwise.

### ISS2 and ISS: `src/Basic Socket Programs/ISS2`, `.../ISS`

*State.* `cnt[4]` in shared memory: seats left at each port of `port.txt`.

*Operations.* The server polls the ports in turn, accepts, and (ISS2) refuses with
"-1" when `cnt[i]==0`, or takes a seat with `cnt[i]--` and execs the service, whose
`cnt[k]++` gives it back when its client has closed.

*Hard.* `cnt[i]--` and `cnt[k]++` in different processes lose updates; the test is
earlier than the decrement; a service killed by SIGPIPE keeps its seat; the server never
closes a connection, and looks whether `accept()` failed only after it took the seat.

*Correct when.* Seats left and seats taken add up to the capacity; no count is
negative; every connection gets an answer as long as the server has descriptors.

### multi_thread_fork: `src/Basic Socket Programs/multi_thread_fork`

*State.* The server's `st[4]` (service started); each service process with its threads.

*Operations.* A client connects and types 1 to 4; the server starts the program of
that line of `port.txt` if it has not before and answers with its port; the client
connects there, one second later, and is served by a thread.

*Hard.* The port is sent before the service listens; the server waits for the user of
one client at a time; a reset by one client raises SIGPIPE in the process that serves
all, which nobody restarts.

*Correct when.* A client reaches the service its user typed, or is refused for a known
reason; everybody is told.

### Service coordinator: `src/OS_Using_Poll/Service_Cordinator` (sc.c, s.c, client.c)

*State.* In shared memory the names of the clients' fifos `d->name[]` with `d->in` and
`d->out`, `s[]` (server `i` has been given a client) and the coordinator's pid; a
semaphore that starts at `No_of_Servers`.

*Operations.* A client puts its name at `d->out` and sends SIGUSR1; the coordinator's
handler waits at the semaphore and marks the first free server; a marked server takes
the name at `d->in`, squares one number over the client's two fifos, clears its mark
and posts the semaphore.

*Hard.* SIGUSR1 does not queue, and the handler blocks in `semop`; two clients may use
one place and two servers one name; every server that starts sets the semaphore again;
a server that comes second to a client waits at its fifo or dies of SIGPIPE.

*Correct when.* There are as many calls under way as names not taken; the semaphore
counts the free servers; a client has one server and is answered.

### Mid 5: `src/MID/Mid 5` (Server.c, Echo_server.c, client.c, fifo.c, pipe.c, p3.c, signal.c)

*State.* The server's sockets `nsfd[]` with `cnt`, the turn `ecnt`, its four sources;
in shared memory `flag[]`, 1 for a client that has an echo server.

*Operations.* Main relays what a pipe, a fifo, a `popen()`ed process and the terminal
say to every client whose flag is 0. SIGUSR1 gives the next client in turn an echo
server of its own, a process on the same socket, which says "e", reads the client's
number, echoes ten lines, says "end" and clears the flag with that number.

*Hard.* The handler runs between main's test of `flag[i]` and its `send`; server, echo
server and client read whole buffers and look at the first word; what is left in the
socket after a session is read by the next; `% cnt` with no client; dead clients stay
in `nsfd[]`.

*Correct when.* A flag is set while its client has an echo server; an echo server that is
the first to read from its client takes no other number than the client's; the server ends
for a known reason; sessions end.

### TSS: `src/UDS_Programs/TSS` (server.c, s1.c, s2.c, client.c)

*State.* The server's `nusfd[2]`, the services' sockets, one thread per client in s1 or s2.

*Operations.* The server reads a client's type and passes its socket to the service of
that type; a thread there answers line by line.

*Hard.* Four types are allowed and two elements exist; one `recv` may take type and
first line together, and "0" with a line "3..." is type 3; a reset makes a service send once more and die of SIGPIPE, with
all its clients, and the server after it.

*Correct when.* Deaths have a killed client behind them, or a number beyond the two
elements; client and service wait for
each other only when two lines were read as one; every other line is answered.

### MSS and log server: `src/OS_Using_Poll/{MSS,log_Server}`, `src/Programs_Using_Select/{MSS,log_server}`

*State.* The request fifo, the server's buffer and revents, one process per request with
the client's two fifos, the log fifo.

*Operations.* The server polls, reads one request, forks a service, which answers over the
client's fifos; the services of the log server also log two lines.

*Hard.* A child whose `execl` fails becomes a second server on the same fifo; two servers
are told of one request; a read of 0 bytes leaves the last request in the buffer; a
request whose writer has gone shows as POLLIN|POLLHUP and is not seen; services open
fifos of clients that are dead.

*Correct when.* Somebody always waits for requests; a request is started twice only by
such a copy; everybody else gets the answer of the right service.

### Chat server: `src/OS_Using_Poll/Chat_server`, `src/Programs_Using_Select/chat_application`

*State.* In shared memory one fifo name and the server's pid; `pfd[]` and `fd[]` with `nfd`.

*Operations.* A client writes its name, starts its two threads and sends SIGUSR1; the
handler opens the fifo, appends "1" to the name where it lies and opens the second.
Main reads from one client and writes to all others.

*Hard.* One name for all clients, changed by both sides; coalesced signals; a handler that
blocks in `open`; the server opening its own fifo twice; SIGPIPE from a killed client;
`poll()` passes that always begin with client 0, `select()` that sees the end of a fifo
again and again.

*Correct when.* Clients that join one after the other all have their own pair of fifos;
the handler waits for ever only after a race or a death; what is typed is read.

### group_chat: `src/Basic Socket Programs/group_chat` (server.c, group.c, client.c)

*State.* The server's `i`; each group's two arrays `nsfd[]`, `n` and the thread's `i`.

*Operations.* The server lists groups 1 to `i`, reads a number `j`, starts a group on
port+j if `j>i`, and answers port+j. The number may be negative. The client connects to
the port and chats. A group's thread takes its members in turn.

*Hard.* `i` counts groups but users name them; the client connects one second later
whether or not the group listens; answer port+0 leads back to the server; groups
inherit the listening socket, so that clients of a dead server wait. (`main` of group.c
has an `nsfd[]` of its own that hides the global one, so its thread asks descriptor 0 and
relays nothing. That is plain from group.c:21 and 91 and no run is about it.)

*Correct when.* The list names the groups there are; whoever is refused was too early, met
a missing number or typed a negative one; every client is asked.

### Not modelled

| component | why |
|---|---|
| PassFD | two processes that read one file in strict alternation; `p2.c` does not compile (`sockaddr_uwn`) |
| ISS | ISS2 without the refusal: `cnt[]` simply goes below 0 when a port is full, and balances as in ISS2 |
| concurrent_chat, interactive_chat | two processes, each sends what its user types |
| interactive, UDP, Get_PeerName, mss | one request, one reply, nothing shared |
| Mid 3, ALL_in_One | fixed sets of processes; the ways of waiting are those of Mid 5, the fifo servers and the chat server |
| Basic_RAW, HDR_INCL, tv.c | they format and print packets and decide nothing |

`PROJECT.json` lists every component, and every hazard with its line.

## 2. Modules

| module | models | built on |
|---|---|---|
| `TrainYard` | what a station promises a train: one call, under a number of its own, before it leaves | |
| `NitwRail` | nitwrail: SM, its handler, the platforms, the trains | refines `TrainYard` |
| `NitwRailProofs` | proofs about `NitwRail`: types, queue, refinement; flags, platforms, wake-ups, deaths | `NitwRail`, TLAPS |
| `PortStation` | Mid 4 | refines `TrainYard` |
| `PortStationProofs` | proofs about `PortStation` | `PortStation`, TLAPS |
| `BackupServer` | BackUp server: both processes, their threads, descriptors, clients | |
| `BackupServerProofs` | proofs about `BackupServer` | `BackupServer`, TLAPS |
| `ServicePorts` | ISS2: the server, its services, the clients | |
| `ServicePortsProofs` | proofs about `ServicePorts`, and about `ServiceMenu` | `ServicePorts`, an instance of `ServiceMenu`, TLAPS |
| `ServiceMenu` | multi_thread_fork: the server, its services and their threads, the clients | |
| `ServiceCoordinator` | the coordinator's handler, the servers, the clients | |
| `ServiceCoordinatorProofs` | proofs about `ServiceCoordinator` | `ServiceCoordinator`, TLAPS |
| `EchoPool` | Mid 5: main, handler, echo servers, sources, clients | |
| `EchoPoolProofs` | proofs about `EchoPool`, and about `TypedServices` | `EchoPool`, an instance of `TypedServices`, TLAPS |
| `TypedServices` | TSS: the server, s1 and s2 with their threads, the clients | |
| `FifoServices` | MSS and the log server: the servers and their copies, services, clients | |
| `ChatServer` | the fifo chat servers: handler, both main loops, clients | |
| `ChatServerProofs` | proofs about `ChatServer`, and about `FifoServices` | `ChatServer`, an instance of `FifoServices`, TLAPS |
| `GroupChat` | group_chat: the server, the groups, the clients | |
| `GroupChatProofs` | proofs about `GroupChat` | `GroupChat`, TLAPS |
| `MC...` | constants, symmetry and starting states for TLC | each module above |

Each definition is commented with the statement it stands for; `PROJECT.json` maps
it to its lines. Operators commented as mutants are alternatives for one definition,
used to see that a property notices a bug at that place; no specification uses them.

### How code becomes actions

* One action per access to shared memory, per system call or per run of statements
  that touch only local state. `cnt++` on a shared word is a load and a store;
  SM's scan of `flag[]` is one step per flag.
* SM's main loop and its handler are one process: `mpc` moves only while `hpc` is
  "off", and the handler can start between any two steps of main. SIGUSR1 is one
  bit (`pending`): a second signal before the handler starts is lost.
* A message is its meaning: trains, clients and connections are model values, and a
  socket buffer holds "a request" or not, because TCP merges what was not read.
* A killed client closes with FIN, or with a reset if it left bytes unread. The
  first `send` after a FIN is accepted and answered with a reset; `recv` after a FIN
  returns 0; `recv` after a reset fails once; a `send` after a reported reset raises
  SIGPIPE, also when it sends no bytes. This is what Linux does.
* A stream of `EchoPool` or `TypedServices` is the sequence of the kinds of pieces on
  their way; a `recv` takes all of it and the program sees the first piece. Text behind
  text of its kind adds nothing.
* Uninitialised memory is a choice: the slot `nsfd[i]` that `read_fd` did not set
  may hold any number; the byte after "-1" in the ISS2 client may be 0 or not.
* `raced`, `doubt`, `missed`, `miscounted`, `astray`, `dropped`, `received`,
  `skipped`, `early` and the four of `ServiceCoordinator` are history variables: no guard reads them; they say which accident has happened, so that
  an invariant can name the only causes of a bad state.
* In the modules from `PortStation` on, the invariants of a run are conjuncts of a few
  named ones (`StationInv`, `NamesInv`, `ChatInv`, ...), with `TypeOK` among them.

### NitwRail

`Connect`, `ClaimScan`, `ClaimWrite`, `ReadPid`, `Take`, `Greet`, `Free` and
`Signal` are a platform's program; `Publish`, `Accept`, `Scan`, `Claim`,
`Dispatch`, `Slot`, `Count` are SM's main; `HandlerEnter`, `HandlerScan`,
`HandlerDispatch` its handler; `Arrive`, `GetNumber`, `Berth`, `Leave`, `Quit` a
train. `HandOver` is `write_fd` with what follows from it; `DieInHandOver` its
SIGPIPE. `masterPid` is `flag[3]`: 0, left by an earlier run, or SM's.

### PortStation

As above, with `Listen`, `AcceptTrain`, `Free`, `Signal` for a platform and
`GetPort`, `Reconnect` for a train's second connection. `AnnounceKills` is the
broken pipe of a platform that exited.

### BackupServer

`ServerMain` and `Service(c)` are the two kinds of threads of the server,
`BackupMain` and `BackupService(k)` those of the backup, `Client(c)` a client.
`uds` is the UNIX socket with the descriptors in flight; `files` is the backup's
descriptor table, from which numbers are given out lowest first; a thread keeps the
number (`fd`) and, while it is inside `recv`, the connection (`file`), because a
close by another thread changes the first and not the second. `Held` says that some
process or some message still has the connection open; connections nobody has accepted
go with the last descriptor of the listening socket (`CutOff`).

### ServicePorts

`Timeout`, `Accept`, `Refuse`, `Admit`, `TakeSeat`, `StoreTaken`, `Fork` are the
server; `Request`, `Answer`, `Die`, `ReturnSeat`, `StoreReturned` a service;
`Greeted` is the client's first `recv`, `LoseServer` the same when it fails. Without
descriptors (`OutOfFiles`) `accept()` fails: `nsfd` is `NoClient`, what is sent to it
reaches nobody, and after the count the server is "dead" (`AfterCount`).

### ServiceMenu

`Accept`, `RecvType`, `StartService`, `Answer` are the server; `Listen`, `BindFails`,
`AcceptClient` the main thread of a service and `Thread(c)` its thread for client `c`;
`Connect`, `Type`, `GetPort`, `Reconnect`, `Ask`, `Read` and `LoseService` a client. A
port is the type it belongs to; a number misread from the unterminated `m[]` is port 0,
which nobody has.

### ServiceCoordinator

`Enter`, `SemWait` and `Scan` are the handler in sc.c; `Start`, then `CopyName`,
`LoadIn`, `StoreIn`, `OpenFifos`, `ReadRequest`, `WriteReply`, `Free` and `Post` are a
server; `Locate`, `PutName`, `LoadOut`, `StoreOut`, `Signal`, `Type` and `Leave` a
client. A fifo opens when both ends are there: `AtFifos` and `Opened`. Test and mark of
`s[i]` are one step because nobody else turns a 0 into a 1. `outRaced`, `inRaced`,
`coalesced` and `reset` record the four accidents.

### EchoPool

`Accept`, `Poll(k)`, `PassEnds`, `Test` and `Relay` are main, `Handler` the handler with
its `Fork` and `Claim`; `Hello`, `ReadNumber`, `ReadLine`, `WriteEcho`, `End`, `Free`
and `Exit` an echo server; `GetNumber`, `Listen`, `Type`, `Hear` and `LoseServer` a
client. `NumbersIn` is what `atoi` may find at the head of a stream.

### TypedServices

`Accept` and `RecvType` are the server, with `Pass` for `write_fd` and `PassBeyond` for
the descriptors behind `nusfd[]`, the listening socket among them; `Atoi` is what the
server may read, alone or with text behind it (`WithText`); `ReadFd`, `Overrun`, `Recv` and `Send` are s1 and s2;
`Connect`, `EnterType`, `EnterLine` and `Hear` a client. `Held` says whether somebody
has the other end of a client's socket.

### FifoServices

A server is an element of `server`, and a failed `execl` appends one: `Poll`, `Read`,
`Fork` and, for the log server, `ReadLog`. A service is an element of `service`: `Open`,
`ReadNumber`, `Reply`, `LogAnswer`. `OpenFifo`, `Ask`, `Type` and `Hear` are a client.

### ChatServer

`Deliver`, `OpenReader`, `AppendOne`, `TakeName` and `OpenWriter` are the handler,
during which main stands still; `Read` and `Relay` are main, and `Skip` the `select()`
loop's step to the next client. `poll`, chosen at the start, says which of the two
servers it is. `CanRead` and `CanWrite` say when an `open` returns. `Name` and `Join`
are a client's `main`, `Type` and `Hear` its threads.

### GroupChat

`Accept` and `Answer` are the server, `Bind` the start of a group and `Chat` its thread,
which takes turns and does nothing else that anybody notices. `Start`, `EnterNumber`, `Reconnect` and
`Say` are a client. A port is what is added to the server's. `Listened` says who still
holds the server's socket. Numbers below 0 lead to a port where nothing listens.

## 3. Runs

| run | instance | question | result |
|---|---|---|---|
| `rail_quits` | 2 platforms started in any order, 3 trains, 1 killed | can the unlocked claim of flags run past the array; is a train served where it was announced; queue discipline, causes of death, refinement of `TrainYard` | no; yes, unless flags were claimed out of order; hold |
| `rail_busy` | 2 platforms, 3 trains, started in order | truth of the flags, double booking, stranded trains; does every train get called and leave | bad states only through the handler's race with main's scan (`raced`, `missed`); yes, if no wake-up is missed and "Left" is not read together with the platform |
| `port` | 2 platforms, 3 trains, 1 killed, 1 port taken | flags, stranded trains, right platform, refinement of `TrainYard`; does every train leave | a train lost on the way leaks its flag, and one is enough to strand others; yes, if none is refused and no wake-up is missed |
| `backup` | 2 clients, 1 killed, handover after more than two counted requests | fate of requests, replies and connections; are requests counted and answered, does the backup take over | lost only with a process, unread descriptors or a shared number; yes, with lost updates and the exceptions of `Forgotten` |
| `ports` | 3 clients, 2 killed, 2 ports of 1 and 2 seats, descriptors for 2 | balance of seats, no negative count; is everybody greeted | hold; a balance is lost only by a lost update, a seat only with its service or with the server; yes, until descriptors run out |
| `menu` | 2 clients, both may be killed, 2 services, 1 fails to bind | who is refused and why; what ends a service; is everybody told a port | refused by haste, a misread number or an ended service; a service ends only by a reset; yes, while users type |
| `desk` | 2 clients, 2 servers that start at any time | do calls, names, marks and semaphore agree; one server per client; is every call answered | they agree except after one of the four accidents; yes, if none happens |
| `echo` | 2 clients, 1 line from the sources, 2 signals or killed clients | whose flag is set; which numbers are mistaken; why the server ends; do sessions end | only after another echo server has talked to the client, and then others' flags are cleared; yes, unless a word somebody waits for came behind other text |
| `typed` | 2 clients, both may be killed, one may ask for a type behind the array or for type 0 | how deaths spread; who waits for whom; is every line answered | from a client killed with a reply unread, or from stray bytes, to a service and then the server; the server also by a number behind the array; only when type and line were read together; yes, but for that |
| `fifo` | 3 clients, 1 killed, 1 may ask for a missing program, either server | do servers go on; are requests started twice; are they answered | yes; only by copies that race for an empty fifo; yes |
| `chat` | 3 clients, 1 killed, either server | does everybody join with its own fifos; why does the handler hang or the server end; is what is typed read | yes, if clients join one after the other; a race or a killed client; yes with `select()`, with `poll()` only when the others fall silent |
| `group` | 3 clients, 1 killed, numbers -1 to 2 | is the list true; who is refused; is everybody asked | yes, unless a number is left out; whoever comes too early, met a missing number or typed a negative one, and whoever the dead server would have served; yes, if users type |

What the runs say about the code, beyond "holds": main can give a train to a platform
the handler has just filled; a train can be queued just after the last wake-up and wait
for ever; in Mid 4 a single refused train can strand another although a platform is
free, because two departures raise one signal and the train then called never wakes SM;
a platform that starts fast reads pid 0 and later kills the whole process group; the
backup never serves descriptors it had not read when SIGUSR1 came, and never takes over
from a server that died of SIGPIPE; at the coordinator, two calls that coalesce leave a
client waiting although a server is free, and a server started late makes the handler
throw a call away; a service of multi_thread_fork that died is never started again; in
Mid 5 an echo server can clear another client's flag with a line it takes for a number;
two clients of the chat server that join at once can leave the handler in `open()` for
ever, or the server reading its own fifo; the ISS2 server takes one more seat before it
exits without descriptors.

A remark on multi_thread_fork that no run is about: server.c:85-86 prints "Service 1 :
Capital to Small." and "Service 2 : Small to Capital.", `port.txt` starts `s1` for type
1, and s1.c:37-38 turns small letters into capitals.

### Bounds

*Platforms.* The code has three. The runs have two: two can claim in either order and
race for one flag, and the handler and main compete for one platform, while the other
one is what the scan has already passed. *Trains.* Three are one per platform and one in
the queue or just accepted. *QueueSlots* is at least the number of trains; the code has
100 and never checks for the end, where the model stops. *MaxQuits*, *MaxKills* bound
killed processes; one is enough to break a chain of wake-ups, two in `ports` give lost
updates between services as well as with the server, two in `typed` end both services
and then the server. *Limit* is 2 instead of 5: one thread can be at `cnt++` while the
other receives, counts and answers, and a lost count is seen before `cnt` is as high as
it matters. `cnt` and `received` stay at `Limit+1`, as only `cnt>Limit` is asked. *Clients.* In `backup`, with one connection
passed and one accepted, a number can be shared, closed and given out again; in `desk`
both clients can use one place and call at once. *Slots* is 4, two more than the
clients; the code has 30 and never wraps. *NS* is 2 as in the code. *NT* is 2: one
service that dies or fails and one that does not. *Capacity* 1 and 2: a full port, and
one on which two services count at once. *Rounds* is 1 instead of 10: a session still
ends with a line that may be left over. *MaxLines* 1 and *MaxEvents* 2: one line is
enough to come between test and session, and two signals start two sessions of one
client or one of each. *Wants* lets one client ask for what does not exist and the
others for what does, so that copies and overruns meet ordinary clients. *MaxNumber* is
2, with three clients: a number left out, one typed twice, and 0; *MinNumber* is -1, and
all negative numbers are alike. *MaxFiles* is 2 instead of about 1000: two services can
count at once, and the third client finds the server without a descriptor. Each client of
`GroupChat` says one line, since only the first one sent to the server is read. The
listen backlogs (3 to 10) are longer than the number of processes in any run. `eofs`
stops at one read of the end of the stream: more happen only when the result is never
used.

`rail_busy` starts when the platforms have claimed their flags in order, a state that
`rail_quits` reaches from the beginning.

`CHECK_DEADLOCK FALSE` is in the runs where the supply of trains or clients is finite
and the processes then wait, or where the server may exit.

### Fairness

Weak fairness for each process or thread that the operating system schedules, and for
the `recv` calls of trains and clients that have data. Nobody is obliged to connect, to
type or to be killed, and no port has to be taken. Where a server waits for one user
(`menu`, `typed`, `group`) the property says "if users type", and in `chat` with
`poll()` "if the others fall silent". All waits are sleeps, blocking calls
or bounded loops, so weak fairness is what the scheduler gives; no action needs strong
fairness.

## 4. Proofs

All theorems are about the specifications themselves, for every value of the constants
that the `ASSUME`s of the modules allow: any number of trains, platforms, clients,
servers and groups, any length of queue, any number of processes killed. Each proof has
the same form: an inductive invariant (`IInv`, or one per subject that builds on earlier
ones), its initial step, one step per action, and what the run's invariant needs of it.
The assumptions say that processes are finitely many, that bounds are numbers, that there
is at least one platform or server, and that "no train", "no client" and "no descriptor"
are none of the real ones; `ServiceCoordinator` also that there are more places for names
than clients (30 in the code), `NitwRail` that there are as many platforms as flags.

**NitwRail.** `TypeCorrect` proves `TypeOK`. It is not inductive: that main's
`nsfd` is a train, that `mi` is an index and that queue entries are trains depend on
where main and the handler are, which `Control` adds. `QueueCorrect` proves
`QueueDiscipline`; the invariant `YardInv` strengthens it to follow a train from the
backlog to main's hand, to the queue and to its call, so that no train is in two of
these places and numbers already used stay below `train_no`. That every train which came is
in one of them, and that the entries taken off the queue were called in its order, each with
the number it was queued with, is `LedgerInv`: one can only say so because `Dequeue` moves
`scnt` and leaves the entries in the array.
`StationImplementsYard` proves `Spec => YardSpec`: every step is a call, an entry, a
departure, a train that gives up, or leaves all three mapped variables alone.

The second part of `NitwRailProofs` adds one invariant per subject. `SlotInv`: whoever set a flag
holds its index, and a platform still scanning has passed set flags only; were none left
for it, NP flags would have holders among NP - 1 platforms. So no platform writes behind the flags, although
two may claim one (`SlotForEveryPlatform`). `ServedInv`: what was passed to a platform was
announced for the index of its socket; that this is the index the platform claimed is
`Aligned`, the hypothesis of `ServedWhereAnnounced` and of the next two. `FlagInv`: a flag
is 1 as long as its platform has a load or main has promised it one, and never both, until
`raced`. `WakeInv`: while all flags are busy somebody is loaded and will signal, and a scan
that has passed free flags is followed by a signal it will see. `CauseInv`: a train has
received at most what it was sent (`Sent`), and needs three messages to leave, so nobody
sends to a train that has left.

**PortStation.** `IInv` follows trains (`YardInv`, `VisitInv`, `ArrivalInv`) and flags
(`FlagInv`: a busy flag has a holder, a train that was sent to the platform and not yet
freed its flag; without a race exactly one). A holder is on its way, at the platform, or
lost, which is `FlagTellsTheTruth`. `Hope` in `WakeInv` is a holder or a pending signal, so
that waiting trains without hope have been missed. `StationImplementsYard` proves the
refinement. The proof showed that main's promise can outlive SM: when the handler's
announcement kills SM between main's `flag[i]=1` and its answer, the flag stays 1 with
nobody bound for the platform. `FlagTellsTheTruth` says so now.

**BackupServer.** `IInv` follows a connection. `AcceptInv`: a connection is in the backlog
at most once and before any thread of the server has it. `ListenerInv`: the listening
socket is the first thing passed and read. `RoomInv` counts connections under way and open
against the clients that have come, which is why the kernel always finds a free descriptor
and threads are at most `MaxThreads`; that `LowestFree` then exists is `Least`, proved by
counting. `PlaceInv`: the connection of a client is in the backlog, in main's hands, in the
UNIX socket or behind a descriptor, unless there is an excuse. `ReadInv` before and `OwnInv`
after the takeover match descriptors and threads one to one, as long as no slot was shared
(`SharedFd`); then a thread answers whom it received from (`AstrayOnlyIfShared`) and every
open connection has its thread (`UnservedOnlyIfUnread`). `CountsEveryRequest` adds the
threads at `cnt++`. Its earlier form was false for more requests than the run had: a thread
that dies of SIGPIPE ends the server while another is at `cnt++`. It now speaks of the
server as long as it runs, and the run's `Limit` is 2, where TLC sees the difference.

**ServicePorts.** `TypeCorrect`. `CountNeverNegative`: the inductive invariant
`InFlight` says that the value main tested, and later the value it loaded, is at least
1 (services only add), and that values loaded by services are at least 0; this holds
whatever is lost. `AccountsBalance`: at every port without a lost update, seats left
plus seats taken equal the capacity. It needs `Place`, which puts each client in one
backlog at most, with its own port and no service yet, so that `StoreTaken` adds a
client that was not seated and `StoreReturned` removes one that was. The exception is
`LastSeat`: a server that runs out of descriptors takes a seat for the failed accept
before it exits, and gives it to nobody.

**ServiceCoordinator.** All three invariants of `desk`. They are sums over sets of
processes, so the lemmas say how each action moves a process from one set to another.
`CallInv`, names taken plus names owed plus signals under way are at most the clients that
called, holds even with every accident, because each server that is about to write its
copy of `d->in` is counted with that copy; `OutInv` bounds the index a client may write to.
`ScanInv` is the semaphore's balance, `NameInv` and `JobInv` follow one name from its place
to its one server.

**ChatServer.** `OneAtATime` (unless two names met, the client whose name is in shared
memory is the one that waits, signalled or is being handled) and `PairsInv` (`fd[k]` is the
second fifo of the client whose first is `pfd[k]`, and every client in is at one index or
in the handler) carry each other through the handler's five steps.

**GroupChat.** `DialogueInv` knows where a client stands towards the server, so that a
number told is at most the groups made unless a number was left out. With it the conjuncts
of `GroupInv` are inductive. Users type any number from `MinNumber` to `MaxNumber`; the
proof needs no bound on how negative the first may be.

**EchoPool.** `PoolInv` says when the shared `flag[]` may be trusted, and it stands or falls
with the numbers: `FlagInv` (while no number was mistaken, a client has at most the one echo
server, and its flag says so) needs that what an echo server clears is its own client's
flag. A number is right if it comes first in the socket, and that is `NumberInv`: until an
echo server has read from a client, the client's stream is empty or begins with its number,
and it has not been sent "end". `OnceInv` gives every client one place in `nsfd[]`, from
which follows that `nsfd[]` never has more than `Nobody` elements. The proof attempt changed
the model in three points. `Own(c)` chose among all indices and was undetermined behind
`cnt`; it now looks where the server does. `NumbersIn` listed cases that overlapped for an
empty stream. And the property about mistaken numbers was false: it allowed them only to
later echo servers of a client, and TLC, asked for four signals, showed a flag cleared by
somebody else's mistake while the client's *first* echo server had not read yet; the server
starts a second one, and it is the first that reads what the second one's client wrote.
`WrongOnlyShared` says what is true: the client was killed or another echo server talks to
it as well.

**TypedServices.** `TypedInv` says how deaths spread and that client and thread wait for
each other only if a line was cut. Its invariant follows a client from the backlog through
`cur` and the inboxes to a thread, in one place at a time, and says for each of them what is
in the two directions of the connection (whose turn it is to speak), as long as nothing was cut and no number led behind `nusfd[]`.
`Beyond` names the clients with such a number: those that ask for it, and those whose type
0 was read together with a line that begins with a digit.

**FifoServices.** `FifoInv` with its bound on processes. A server that polls has seen a
request or will see one (`ListenInv`); somebody always does, so servers never all wait in
`read()`. Copies that wait may start their last request again, and each of them may fail in
turn. `CopyInv` is the count that bounds this: servers, services and those about to be
forked are at most the number of *sets* of clients whose request was taken, because one
request can at most double them. The bound in the model had been two for each client; the
induction did not go through, and TLC showed nine servers with four clients. It is
`MostCopies == Cardinality(SUBSET Clients)` now, also in the fairness condition, which
quantifies over that many processes.

**ServiceMenu.** `MenuInv` needs `StartedInv` (a port that somebody holds is that of a
service that was started) and `HeldInv` (whoever queues at a service or has a thread there
is connected to a service that listens), for at most four services.

The last three are proved about an *instance* of their module, in the module of a system
like it: `Typed == INSTANCE TypedServices` in `EchoPoolProofs`, `Fifo == INSTANCE
FifoServices` in `ChatServerProofs`, `Menu == INSTANCE ServiceMenu` in `ServicePortsProofs`.
Modules of different systems use the same names (`Init`, `Accept`, `cpc`), so that one
module cannot extend two of them; variables and constants of the instance that the other
module lacks are declared there. An `ASSUME` of an instance is not a fact, so these theorems
state it as a hypothesis: `FifoCorrect` reads `ASSUME Fifo!FifoAssumption PROVE Fifo!Spec =>
[]Fifo!FifoInv`. It is the same `ASSUME` that TLC evaluates in the run, and `Fifo!Spec` is
the specification of the run with the same names for its variables.

Only model-checked: liveness (every `~>` property, `ServiceGoesOn`, `EveryMessageIsRead` and
the others whose names begin with `Every`, except `EveryPlatformFindsASlot`), which rests on
fairness and is out of the prover's reach. Every invariant and every refinement of the runs
is proved.

## 5. Not modelled

The components of the table at the end of section 1. In those that are modelled: the
text of requests, replies and announcements; the display `tv.c`; what processes do after
the station master has died; failures of `fork`, `execl` (except where MSS's request
names the program), `shmget` and `socket`; limits of 100 array elements and, but
for `ServicePorts`, of 1024 descriptors; socket buffers and fifos that fill up; fifo names given twice; what the
services of TSS read from descriptors they never got once the server is gone; what
chat and group clients do after their server's end. Memory accesses are in program
order. Each pair of poll() and select() programs is one module: `FifoServices`, where
they behave alike, and `ChatServer`, where `poll` tells them apart.

## 6. Plan

Done: all modules of section 2; theorems for every invariant of every run and for both
refinements of `TrainYard`.

Further work: a state-machine statement of what a service promises a client (one answer for
each request, or a named loss), which `ServicePorts`, `ServiceMenu` and `TypedServices` would
refine as the stations refine `TrainYard`; and the components of section 5 that share code
paths with those modelled.
