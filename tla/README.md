# GioNet in TLA+

GioNet is a C++ library that gives multiplayer games "connections" over UDP:
a server with any number of peers, clients, and between each client and the
server a reliability layer that numbers, acks, resends and orders the packets
marked reliable.  This directory models that library in TLA+, checks the models
with TLC and proves with TLAPS every safety property that the passing runs check, but
for one that speaks of enabled steps, also across wraps of the ids where the network
keeps the order.
Three more models take apart what the first one simplifies: the threads inside one
Connection, the server with its peers, and the client with its socket; a fourth is
the wire format.

Paths below are relative to `src/`.  `Connection.cpp:132` means
`src/GioNet/src/Connection.cpp`, line 132; headers are in `src/GioNet/inc/`.

## 1. The system

### 1.1 Components

**Packet ids** (`Packet.h`, used in `Connection.cpp`).  A 16-bit unsigned id;
0 is `InvalidId`, which unreliable packets carry, so the ids of reliable packets
go 1, 2, ..., 65535, 1, ...  Operations: the next id (sender and receiver each
have their own code for it), subtraction (of the unsigned type, so it passes
through 0), and "is this id later than that one", which takes a distance of more
than half the type for a wrap.  Correct when the three agree with each other.

**Connection** (`Connection.cpp`, `Connection.h`).  One end of one connection.
State: the two `PacketStream`s `incoming` and `outgoing` — a map
`reliablePackets` from id to packet, a queue `readyPackets`, a `sequenceNumber`
and a `lock` each — and the atomic `currentAckId`.  Operations: `Schedule` (the
application sends), `PopReadyOutgoingPacket` (the send thread takes a packet and
`AddAckHeader` puts the acks on it), `Received` (the listen thread hands a packet
over: `ProcessAcks` erases the copies the header acks and reschedules the ones it
does not, `UpdateAckId` and `EnqueueProcessablePackets` put reliable packets into
the order of their ids), `PopReadyIncomingPacket` (the packet goes to the
application).  Correct when reliable packets reach the application once, in order
and without gaps; when no packet is forgotten before the peer has it; when the ack
id is the latest one; and when what is missing is sent again.

**Server** (`Server.cpp`, `Server.h`).  State: `peers`, a map from address to
Connection, under `peersMutex`; the socket; the two threads; three delegates.
Operations: `Start`, `Stop`, `Broadcast`, `Send`, `GetPeers`, `HasPeer`,
`TryGetPeer`, `AddPeer`, `RemovePeer`, and the loops `ListenThread`
(receive a datagram, find or add its peer, `Received`, then
`ProcessReceivedPackets` for all peers) and `SendThread` (for each peer pop and
send all that is ready).  Correct when every address has one Connection for as
long as the server runs and its packets go to that one; when no thread iterates
the map while another changes it; when `Stop` ends both threads.

**Client** (`Client.cpp`, `Client.h`).  State: the socket, one Connection, two
threads.  Operations: `Start` (ping, then the threads), `Stop`, `Send`, and the
loops `ListenThread` (which drops what does not come from the server and calls
`Stop` when a receive fails) and `SendThread`.  Correct when the server learns of
the client, and when after `Stop`, an error or the destructor both threads end
before what they use is gone.

**Socket** (`Socket.cpp`, `Socket.h`).  State: the handle and the address
information.  Operations: `SendTo`, `ReceiveFrom`, `Bind`, `Close`,
`FreeAddressInfo`, and a TCP half that nothing in the repository uses.  An error
in any of them closes the socket; nothing guards the handle.  Correct when the
handle is closed once.

**Packet and Buffer** (`Packet.cpp`, `Buffer.cpp`).  The header byte (type and
flags), the fields of a packet, and a byte buffer that is written at its end and read
from its front.  Correct when reading gives back what was written.

**NetAddress** (`Core.cpp`).  Address and port, the key of the server's map;
`==` takes all loopback addresses for equal, the hash does not.

**NetSystem, Logger, Message, Peer.**  A singleton that starts Winsock and makes
clients and servers; output; a pair of buffer and flag; a struct nothing uses.

**Chat, NetworkingWin.**  Example applications: a relay on top of the server, and
two ends that send each other a message "Ping!" every 500 ms (a reliable one:
`Message::reliable` is true unless the application sets it otherwise, which none
here does).

### 1.2 How they interact

```
 application thread        Schedule                     Schedule
                              |                            |
 client            +----- Connection                 Connection x peers -----+  server
                   |     send | listen                send | listen          |
                   +----- Socket  ~~~~~~~~~ UDP ~~~~~~~~~ Socket ------------+
```

Each host has three threads: the application calls `Schedule`, the send thread
loops over `PopReadyOutgoingPacket` and `SendTo`, the listen thread loops over
`ReceiveFrom`, `Received` and `PopReadyIncomingPacket`, and calls the
application's delegate from that thread.  They share the Connection (two locks
and an atomic), the socket (nothing guards it) and, in the server, the map of
peers (`peersMutex`, which not every reader takes).

### 1.3 What is hard

* Loss, duplication and reordering of datagrams: every header repeats acks, and
  may be old when it arrives.
* Ids that wrap, and an id comparison that only holds up to half the type.
* Retransmission without a timer: a packet is sent again only when a header acks
  a later one and not it, and a header covers only four earlier ids.
* Calls on a Connection that consist of several regions of two locks, made by
  three threads.
* Start, Stop, errors and destructors racing the threads, through a socket and a
  map of peers that they share.
* One server process for many clients: relays, announcements and joins interleave,
  an error in one place ends it for all, and a restart meets clients that remember.

`PROJECT.json` lists these as hazards, each at its line, with the property that
watches it or the reason there is none.

## 2. The modules

| Module | What it is |
| --- | --- |
| `PacketIds` | the id arithmetic, for any size of the id type |
| `Connection` | two Connections and the network between them, one action per call |
| `ReliableStream` | what one direction promises: an ordered stream without gaps |
| `ConnectionProperties` | the properties, the fairness, the refinement mapping |
| `ConnectionInvariants` | the inductive invariants behind them |
| `MCConnection` | the instances for TLC |
| `ConnectionProofs` | type correctness, proved |
| `DeliveryProofs` | ordered delivery and the refinement, proved |
| `AckProofs` | acks, resending and progress of the reordering buffer, proved |
| `LapProofs` | ordered delivery and the refinement when ids wrap, proved |
| `ConnectionThreads` | the calls of `Connection` taken apart into lock regions |
| `ThreadInvariants`, `ThreadProofs` | what its threads have in their hands; its properties, proved |
| `ConnectionRestart` | `Connection` with a server that restarts |
| `Server`, `ServerProperties` | a server that relays among its clients, with three threads |
| `ServerInvariants`, `ServerProofs` | where the messages of each source are; its safety properties, proved |
| `Socket` | one socket that several threads close |
| `Client`, `ClientProperties` | a client from its constructor to the end of its threads |
| `ClientInvariants`, `ClientProofs` | who closes the socket and how far; its safety properties, proved |
| `Wire` | header bits, and the bytes that values are written to and read from |
| `WireProofs` | what is written is what is read, proved |
| `MCConnectionThreads`, `MCConnectionRestart`, `MCServer`, `MCClient`, `MCWire` | their instances for TLC |

`Connection` extends `PacketIds`; `ConnectionProperties` instantiates
`ReliableStream` once per direction.  `ConnectionThreads` and `ConnectionRestart`
extend `Connection` and its properties, so that the same definitions are checked
again under finer steps and a fault.  `Server` and `Client` stand on what
`Connection` is shown to be: to the server a Connection is an ordered stream, to
the client a queue of packets and a count of messages made ready.  `Client` extends `Socket`.

### 2.1 State and actions of `Connection`

| Variable (per host) | Code |
| --- | --- |
| `outReliable`, `outReady`, `outSeq` | `outgoing.reliablePackets`, `.readyPackets`, `.sequenceNumber` |
| `inReliable`, `inReady`, `inSeq` | the same of `incoming` |
| `ackId` | `currentAckId` |
| `net` | datagrams on their way to the host |
| `scheduled`, `delivered` | history: how many reliable messages the application has scheduled, and which its delegate has been given |

| Action | Code |
| --- | --- |
| `ScheduleReliable`, `ScheduleUnreliable` | `Schedule`, with and without the flag |
| `PopReadyOutgoingPacket` | `PopReadyOutgoingPacket` with `AddAckHeader`, and the `SendTo` that follows in both send threads |
| `Received` | `Received`: `ProcessAcks`, then `UpdateAckId`, the store and `EnqueueProcessablePackets`, or the push of an unreliable packet |
| `PopReadyIncomingPacket` | `PopReadyIncomingPacket` and the delegate |
| `Lose` | UDP drops a datagram |

A packet is a record of the fields the reliability layer reads.  Its payload is
replaced by the *ordinal* of the message: 1 for the first reliable message the
host scheduled, 2 for the second.  An ordinal never wraps, so a message can be
told from an older one that had the same id, which the code cannot do and the
properties must.  All unreliable payloads are one value, `Unsequenced`; a ping is
an unreliable packet.  An absent entry of a map is `Absent`.

Bit i of `ackBitset` acks `ackId - (i + 1)`; `acks` is the set of the numbers
i + 1 whose bit is on.  Only `sizeof(ackBitset)` = 4 bits are ever used
(`Connection.cpp:110`, `:189`), which is what `AckCount` is.  The bit loop of
`ProcessAcks` erases and reschedules one id after the other.  The ids it visits
are distinct (the type has more than four values), so one step that erases the
acked ids and appends the rescheduled packets in the order of the loop has the
same effect.

`net` is a set: two identical datagrams in flight are one, which a network that
loses or duplicates cannot tell from two.  A duplicated datagram is one that stays
in flight when it is received.  In the runs without faults a second identical
datagram is absorbed by the first; that removes only repetitions of a delivery that
happens anyway.

Every action is atomic here; `ConnectionThreads` has the smaller steps.

### 2.2 Bounds

`MaxReliable` (messages a host schedules), `MaxAhead` (messages scheduled but not
yet delivered: the application's flow control, which the library has none of),
`MaxReady` (a queue is not filled further by `Schedule`, or by a receive, when it
is longer), `MaxInFlight` (datagrams under way to a host) and `MaxPossibleId` (the
size of the id type, 65535 in the program).  All are CONSTANTS and appear as
guards.  The theorems hold for every value of `MaxReady` and `MaxInFlight`.

### 2.3 `ConnectionThreads`

For the hosts in `Threaded` each thread has a program counter (`listenAt`,
`sendAt`) and what it holds in its hands (`inHand`, `making`).

| Action | Code |
| --- | --- |
| `BeginReceived` | `ReceiveFrom`, and the lock of `Received` |
| `ProcessAck` | one turn of the loop of `ProcessAcks`: `PacketAcked` or `ReschedulePacket` under `outgoing.lock` |
| `UpdateAckId` | the atomic `currentAckId` is stored |
| `EndReceived` | the store, `EnqueueProcessablePackets`, the unlock |
| `BeginPop`, `Pop` | `PopNextReadyPacket` under `outgoing.lock` |
| `LoadAckId`, `ReadBit` | `AddAckHeader`: the atomic load, then `HasReceivedPacket` under `incoming.lock` for each bit |
| `SendTo` | the datagram leaves |

`incoming.lock` is held exactly when `listenAt` is not "idle", and `outgoing.lock`
by the send thread exactly in "pop"; the other regions of `outgoing.lock` are
single steps.  That `EndReceived` is one step is sound: only the listen thread
writes what it touches, and every reader takes `incoming.lock`.  `UpdateAckId` is
the exception, since the ack id is read without a lock, and has a step of its own.

`NoDeadlock` asks of every reachable state whether the locks let anybody go on: when a
thread is inside `Received` or `PopReadyOutgoingPacket`, some step of those calls is
enabled (`InsideCall`, `CallGoesOn`).  The listen thread waits for `outgoing.lock` with
`incoming.lock` in its hands (`ProcessAck`), the send thread for `incoming.lock`
(`ReadBit`); were `outgoing.lock` held during `AddAckHeader`, each would wait for the
other.

### 2.4 `ConnectionRestart`

One action more: `Restart` replaces the server's Connection by none, and the first
datagram of the client makes a fresh one (`AddPeer`).  The client keeps its own.
Datagrams in flight survive.

### 2.5 `Server`

| Variable | Code |
| --- | --- |
| `open`, `asked` | the socket is valid; `request_stop` has been called |
| `peers`, `lives` | the map of peers; a second Connection for an address is made only after `Stop` cleared the map |
| `released`, `taken` | per Connection, how many messages `Received` has made ready and the listen thread has popped |
| `queue`, `sent` | `outgoing.readyPackets`; what went out (history) |
| `at`, `conn`, `visit`, `line` | per thread: program counter, the Connection and the message it works on, the rest of the loop over peers |
| `audience` | per thread: the peers that its `Broadcast` has yet to schedule for |
| `since` | history: what had been taken of each client when a Connection was made |

| Action | Code |
| --- | --- |
| `Loop` | the condition of both `while` loops |
| `Arrives`, `ReceiveFails`, `TryGetPeer`, `AddPeer`, `Received` | `ListenThread` |
| `ProcessPeer`, `PopReadyIncoming` | `ProcessReceivedPackets` |
| `GetPeers`, `Schedule`, `Broadcasted` | `Broadcast`, for whichever thread called it: a copy under `peersMutex`, then one `Schedule` per peer |
| `CopyPeers`, `NextPeer`, `SendTo`, `Drained` | `SendThread` |
| `TypeLine` | `ChatServer::Send` of an operator's line |
| `Close`, `RequestStop`, `ClearPeers` | `Stop` |
| `DestroyMembers` | the end of `~Server` |

The delegates are those of `Chat.cpp`: a message popped is relayed to all but its
source, a new peer is announced to all.  The iteration order of the unordered map
is any order.  `ClearPeers` while a thread looks at the map (`Iterating`: the listen thread
in `TryGetPeer`, `AddPeer`, `GetPeers` and `ProcessReceivedPackets`, the send thread in
`GetPeers`; `clear` takes no mutex, so that theirs does not help), and `DestroyMembers`
while a thread is about to use a member, are undefined behaviour: the outcomes are
that the thread finds the entries still there (any of those it has not come to), or
`crashed`, after which nothing more happens.

### 2.6 `Socket` and `Client`

`Socket` has the handle and the address information as two booleans and walks each
thread through `Close` and `FreeAddressInfo`, one test, release or assignment a
step.  `closes` and `frees` count the calls of `closesocket` and `freeaddrinfo`.

`Client` has the application thread walk through `Start` (ping, send thread, listen
thread), `BindDataReceived` before or after it (`BindsFirst`: `Chat.cpp` before,
`NetworkingWin.cpp` after), its loop of `Send`, then `Stop` and the joins of the
destructor.  The listen thread blocks in `recvfrom` until a datagram comes or the
handle is closed.  An error of a call closes the socket from the thread that made
it.  The server at the other end knows the client once a datagram has arrived; then it
may send messages, each of them any number of times (`Answer`), and the network loses
datagrams of both directions (`Lose`).

What `Connection` is shown to do with them appears as counts, which is all an ordered
stream needs: `released`, how many messages `Received` has made ready, which a datagram
advances by none (sent again, or behind a gap), one or more (it closes a gap); `taken`,
how many of those `ProcessIncomingPacket` has popped; `heard`, how many the delegate
has been given.

The `else Stop()` of `Client.cpp:98-101` is not in the model because it cannot be
reached: a receive that fails leaves `addr` blank, which is not the server's
address, and line 88 goes on with the loop.

### 2.7 `Wire`

A header byte is the set of its bits, a buffer a sequence of bytes, integers are
little-endian.  `Construct` and `Fill` make packets as the program does
(`Schedule` gives an id, `AddAckHeader` the acks); `Write` appends a packet, a
string or an integer to the buffer and `Read` takes one from its front, in any
interleaving.  The length of a string is an `int32_t`; of one that reads as negative
nothing is taken (`Length`), so texts are assumed shorter than 2^31 bytes.  `SetFlags` is the branch that sets; no caller takes the one that
clears.  `unread` and `intact` remember what was written.  Each read and write
names the type of its value, as the template argument does.

### 2.8 Bounds of these models

`ConnectionThreads` and `ConnectionRestart` keep the bounds of 2.2.  `Server`:
`MaxSent` messages per client, `MaxLines` lines of the operator.  `Client`:
`MaxQueued`, `MaxInFlight`, `MaxAnswers`.  `Wire`: `MaxUnread`, and small sets of
ids, bitsets and texts at the edges of a byte and of the types.

## 3. What TLC checks

Deadlock is checked only in `reads_back`.  Elsewhere the model may stop: when
every message is scheduled and delivered there is nothing left but threads that
poll empty queues, when both threads have ended there is nothing left at all, and
`crashed` ends a behaviour.

The calls on a Connection (`MCConnection`):

* **both_ends.**  The client sends one reliable message and unreliable ones, the server three
  reliable ones, over a network that does everything, with five ids.  `InOrder`,
  `NothingForgotten`, the two inductive invariants `DeliveryInv` and `AckInv`, and the
  refinement of `ReliableStream` towards the client (`threads` has the other
  direction).  Three messages are enough to overtake one another, to be acked by id and
  by bit, and to be resent; ids 1 and 3 are exactly HalfId apart, so that when one
  arrives after the other without 2 in between, `UpdateAckId` takes neither for the
  later one.  Two datagrams in flight per direction are enough to reorder.  The theorems
  take it from there.
* **wrap_in_order.**  Sixteen messages of a type with seven ids on a network that
  keeps their order (one datagram in flight, some received twice): the ids wrap more
  than twice, as in `ReliabilityTests.cpp:187`.  The server sends two of its own, whose
  headers make the client erase copies and look for packets to resend.  `TypeOK`,
  `InOrder`, and `LapInv`, the inductive invariant of 4.2.  The constraint
  `FirstHeadersInTime` is the hypothesis of the theorems there: it leaves out the
  behaviours in which a header of the first lap is under way until its receiver uses
  the last ids of the ring (5.1 tells what happens then).
* **wrap_reordered** (violated).  As before, but two datagrams may overtake each
  other; see the findings.
* **gaps.**  Five messages, all of which may be ahead of the receiver, and unreliable
  traffic from the server that carries the acks back, with loss, under fairness.
  `CatchesUp`: whatever is lost, again and again the application has every message up
  to the ack id, and the sender keeps no copy of a message its peer has.  Neither
  condition, once met for a message, is lost again, so this is that every gap closes.
  `MissingRescheduled`: whichever header arrives makes the sender reschedule
  everything the receiver lacks below the ack id.  `AckIdIsLatest`: the ack id does not
  fall back, whatever arrives late.  `NoStall`: the message that closes a gap releases
  all that waits behind it.
* **tail_lost** (violated).  With loss, `GuaranteedToArrive`, which promises the same
  of a message that nothing follows.
* **resend_window_exceeded** (violated).  `MissingRescheduled` with six messages ahead.

The threads inside it (`MCConnectionThreads`):

* **threads.**  The server taken apart, three messages to it and two from it, with
  loss and duplication.  Its send thread gathers a header, and pops what is resent,
  while its listen thread is inside `Received`.  `AcksReceived`: every header, on its
  way, in the making or being processed, acks only what its host has stored or is about
  to store under the lock.  `AsksForMissing`: conversely, whichever header arrives or is
  being processed, and however old it is, has the bit of every message its maker still
  lacks below the ack id, has it off, and finds the copy at the sender.
  `ForgottenIsStored`; `NoDeadlock`, that a thread inside a call or the one it waits for
  can go on, whatever locks the two hold; `NoStall`, as of whole calls;
  `LatestInv`, that the published ack id is never below a packet stored or about to be;
  the refinement of `ReliableStream`; the type invariant and the inductive invariant
  `ThreadInv`, which has `InOrder` in it.

A restart (`MCConnectionRestart`):

* **server_restarts** (violated).  See the findings.

The server (`MCServer`):

* **relay.**  Two clients join at any time, one of them sends a message, and the
  operator types two lines, which the application thread broadcasts while the listen
  thread relays and announces.  `NobodyPassedOver`: between two datagrams every
  message taken since a client joined is sent or queued to it.  `OperatorInOrder`,
  `NoEcho` and the type invariant.
* **server_stops.**  One client sends two messages to another while Stop and the
  destructor may come at any moment and any call may fail.  `HeardInOrder`: what goes
  out is what was taken since the client joined, each once, in order and with none
  left out.  `ServerInv` is the inductive invariant behind the server's safety
  properties (4.4).  Under fairness `EveryoneHears`, that every message received goes
  out unless the socket is closed, and `ThreadsEnd`.

The client (`MCClient`):

* **client_stops.**  A client that talks and may be stopped, loss in both directions, and
  errors in any call.  `ThreadsEnd`: both threads end, even one that is blocked in
  `recvfrom`.  `NothingLeaks`: once the client is gone its handle and address information
  have been released at least once; `ClientInv` is why.  `ServerLearns`: as long as the
  application keeps sending, and not all datagrams are lost, the server learns of the
  client, unless the socket is closed.  `AnswersHeard` says nothing of what the network
  loses: what the Connection makes ready has been given to the delegate, each message
  once, before the listen thread looks for the next datagram or ends, also when another
  thread closes the socket under it.  The delegate is bound before Start, as in
  `Chat.cpp`.

The wire (`MCWire`):

* **reads_back.**  Two values at a time, interleaved writes and reads: each value
  comes out as it went in (`ReadsBack`), no byte is left over (`BytesMatch`: the payload
  can be cut up into the bytes of the values that are left), the header of a packet says
  what it was made with (`HeaderAsAsked`), and all of it has its type.

Why the bounds are enough.  In `ConnectionThreads` the interesting window is one
call of each thread: one datagram in hand, one in the making, and one in flight to
each host.  Three messages let a header name an id that is stored, one being stored
and one not yet received; two of the server let it have one to resend.  Five messages in `gaps` are as many as a header can cover,
the ack id and four below it.  In `Server` the order between two messages needs two of
them from one source, be it a client or the operator, and two threads that broadcast;
two clients give a source to leave out and a peer to reach, and either order of
joining.  A Connection is made twice for an address only if the map is
cleared, which happens once.  In `Client` a queue of two shows a packet that is
left when the first fails, and each of three threads is in `Close` at most once; with
two messages of the server one datagram may make two ready, or one and then the other.

### 3.1 Fairness

`FairSpec` assumes, for each host:

* weak fairness of `PopReadyOutgoingPacket` and of `PopReadyIncomingPacket`: both
  threads loop without ever blocking on anything but the socket
  (`Client.cpp:107-125`, `Server.cpp:223-263`);
* weak fairness of `ScheduleUnreliable`, for the hosts that send unreliable
  messages at all: an application that keeps sending messages with `reliable`
  switched off.  Without it no header would come back once the reliable messages
  are all sent, and nothing could be acked or resent; the library sends none on its
  own;
* strong fairness of the reception of each id: a network may lose a packet any
  number of times, but not every copy of a packet that is sent again and again.

`ScheduleReliable` and `Lose` are not fair.

`Server` assumes weak fairness of its listen and send threads, and of
`RequestStop`, the rest of a `Stop` that has begun: the scheduler lets threads run
and a mutex held for a few instructions is not withheld for ever.  That a datagram
arrives, or an application stops the server, is not assumed.

`Client` assumes weak fairness of each thread, of the application's `Send` (the loop
of `NetworkingWin.cpp:48-52` sends every 500 ms), and strong fairness of `Arrives`: not every datagram is lost.

## 4. What TLAPS proves

Each theorem is about the specification TLC checks, and holds for every value of
the constants that the assumptions of the modules allow.  Those with an invariant of
their own name (`DeliveryInvariant`, `AckInvariant`, `LapInvariant`, `ThreadInvariant`,
`ServerInvariant`, `ClientInvariant`) are the inductive arguments; each invariant is
also checked by TLC in a run, and the other theorems follow from them.

### 4.1 The calls on a Connection

For every number of messages, every size of the id type above four, every `MaxReady`
and `MaxInFlight`, and every set of faults:

* `TypeCorrect`: `Spec => []TypeOK`.  In particular ids never leave the type,
  however often they wrap.
* `DeliveryInvariant`, `DeliveredInOrder`: under `NoIdReuse` (fewer messages per
  direction than ids), `Spec => []DeliveryInv` and so `Spec => []InOrder`.
* `ImplementsStreamToServer`, `ImplementsStreamToClient`: under `NoIdReuse` each
  direction refines `ReliableStream`.
* `AckInvariant`, `NeverForgotten`: under `NoIdReuse`, `Spec => []AckInv` and so
  `Spec => []NothingForgotten`.
* `AckIdLatest`, `NeverStalls`: if moreover ids are always less than HalfId apart
  (`NoHalfwaySpread`), the ack id is the latest id received and no message whose
  predecessors are released is held back.
* `WindowSuffices`: under `NoIdReuse` and `MaxAhead <= AckCount + 1`,
  `Spec => MissingRescheduled`.

Why the invariants are what they are.  `InOrder` speaks of `delivered` alone, and
nothing in it says why the next message popped is the next in order.
`DeliveryInv` follows each message on its way: everything the sender has, in its
map, its queue or in flight, carries under id n the message n (`SenderInv`); the
receiver has stored and released everything up to its sequence number, and has
stored nothing that was not sent (`ReceiverInv`); and its ready queue holds the
messages between the last one delivered and the sequence number, in order, with
unreliable ones in between (`ReadyInv`).  An action touches one or two of these
places, and the proof has one step per action.

`AckInv` adds that every header, made or in flight, acks only ids the peer of its
receiver has stored (`SoundHeader`; the stored ids only grow, so a header stays
sound however old it gets), and that a copy is erased only after that
(`CopiesKept`).  `AheadInv` says how far the sender is ahead; with it an ack id is
at most `AckCount + 1` above the sequence number of the receiver, so that what is
missing is among the four ids the header covers.

### 4.2 Ids that wrap (`LapProofs`)

The theorems of 4.1 stop where ids are used twice, and `wrap_reordered` shows that they
must.  On a network that keeps the order they go on.  `KeepsOrder` says so of the
constants: one datagram in flight to a host at a time, and none lost; it may still be
received any number of times, also after the sender has queued more.

* `LapInvariant`, `WrapsInOrder`, `WrapsImplementStreams`: under `KeepsOrder`, and of
  every behaviour in which `FirstHeadersInTime` holds throughout, `[]LapInv`, and so
  `[]InOrder`, `StreamToServer` and `StreamToClient`, for any number of messages and
  laps, in both directions.
* `OneWayInOrder`: under `KeepsOrder`, if one host sends nothing at all, `LapInv` and
  `InOrder` hold of every behaviour.  This is the case of `ReliabilityTests.cpp:187`.

Nothing that identifies a message by its id is left to build on: `IdOf(m)` is the id of
message m, the remainder of its lap.  `LapInv` counts in messages instead.  There is a
number k such that the peer has released the first k messages and nothing else: its
sequence number and its ack id are both `IdOf(k)`, what is in flight is message k or
k + 1, and what waits in the queue of the sender are the messages after that, in order
(`ReleasedUpTo`).  A packet is thus the one just released, whose id is the ack id, or
the next one.  The loop of `EnqueueProcessablePackets` stops at the ack id before it
comes to the packets of the lap before, which `incoming.reliablePackets` still holds
(`LoopStopsAtLatest`); `UpdateAckId` takes the next id for a later one, on every
lap, because the type has more than four ids (`NextIsLater`).

The other half is that nothing is sent again, since a message sent again would no longer
be k or k + 1.  A host has every id up to its ack id, and, from its second lap
on, the rest of the ring as well; so the bits of its headers are on
(`AcksInTurn`), except for headers made before that.  Those have bits off for the last
ids of the ring, and are harmless as long as no packet of these ids is in
`outgoing.reliablePackets` (`NothingToResend`).  That is `FirstHeadersInTime`, and
it is needed: TLC finds the counterexample of 5.1 without it.  The program has 65535
ids, so that such a header would have to be under way for 65531 messages.

### 4.3 The threads inside it (`ThreadProofs`)

`Spec` of `ConnectionThreads` is `ThreadSpec`; the theorems hold for any set of
`Threaded` hosts.

* `ThreadTypeCorrect`, without any assumption about ids.
* `ThreadInvariant`, `ThreadsDeliverInOrder`, `ThreadsImplementStream`,
  `ThreadsAckReceived`, `ThreadsNeverForget`: under `NoIdReuse`, `InOrder` and
  `StreamToServer` hold of the finer steps as they do of whole calls, and so do
  `AcksReceived` and `ForgottenIsStored`.
* `ThreadsAckLatest`, `ThreadsNeverStall`: under `NoHalfwaySpread`, `LatestInv` and
  `NoStall`.
* `ThreadsAskForMissing`: under `NoIdReuse` and `MaxAhead <= AckCount + 1`,
  `AsksForMissing`.

`DeliveryInv` is inductive here, too, but not alone: the packet that a thread has
taken out of a queue and not yet put anywhere is in none of the places it looks at.
`HandsGenuine` says that what the listen thread holds was made by the peer and what
the send thread holds is a packet of its host.  `AckInv` does not hold here: between
`UpdateAckId` and the store (`Connection.cpp:61-62`) the ack id names a packet that is
not stored.  It is weakened by exactly that: an ack id, a bit or an erased copy is of a
packet that its host has received *or is about to store* (`MayAck`,
`CopiesKeptOrStored`).  That is enough, because the only one to look is the peer, which
must not erase its copy, and because "about to store" ends only in the store.
The proof of `AcksReceived` is the one where each step of `AddAckHeader` counts: the ack
id is loaded, then each bit is read, while the other thread receives; what is received
only grows, so bits read later than the ack id are as sound as those read with it.

`ThreadsAskForMissing` reads `AcksReceived` backwards.  A message the peer lacks is
above its sequence number, the ack id of any header is of a message sent, and at most
`MaxAhead` messages lie between: the header has a bit for it.  The bit is off, or it
would be a false ack; and no header that arrived before can have erased the copy.

`ThreadsNeverStall` needs `LatestInv`.  `Received` publishes the ack id, lets the send
thread read it, and compares once more before the loop of `EnqueueProcessablePackets`
runs up to it.  That loop must not stop short: the ack id it runs to is at least every
id stored, and when it stops at the ack id there is nothing above.

`NoDeadlock` stays with TLC, since it says what is enabled.

### 4.4 The server (`ServerProofs`)

For any finite or infinite set of clients, any number of messages and lines, and any
set of faults, with `ServerAssumption` only:

* `ServerTypeCorrect`, `ServerInvariant`;
* `NeverEchoes`: `NoEcho`; `RelaysInOrder`: `HeardInOrder`; `LinesInOrder`:
  `OperatorInOrder`; `RelaysToEverybody`: `NobodyPassedOver`.

The properties speak of what went out; the reason is what is on its way.  For a source
and a client, what went out followed by what is queued is one unbroken run of messages
(`HoldsRun`), which ends at `LastOf`: the message the listen thread took last, or the
one before it while the broadcast of that one has yet to come to this client
(`Pending`).  So `Schedule` appends the next number, a relay to others moves neither
end, and a client that joins begins an empty run at what had been taken by then.  The
operator's lines are the same with another thread (`LastLine`).  This holds of every
peer while the socket is open (`RelayInv`); once it is closed a packet popped for a
send that fails is gone, nothing more goes out, and what has gone out stays in order.
`LifeInv` says that an address has one Connection until `Stop` clears the map and that
the socket is closed by then; `WorkInv` and `LineInv`, that threads work on Connections
that were made and broadcast what they took last; `EchoInv`, that nothing of a client
is queued or about to be queued to it.

### 4.5 The client and its socket (`ClientProofs`)

For every bound and every set of faults, with the delegate bound before or after Start:

* `ClientTypeCorrect`, `ClientInvariant`;
* `ReleasesAll`: `NothingLeaks`;
* `DelegateHears`: `AnswersHeard`, when the delegate is bound before Start (`BindsFirst`).

`closes` and `frees` have no bound in the model: that they stay within three each is
part of the type invariant and needs `ReleaseInv`.  As long as the handle is not
forgotten, the closes are as many as the threads that are about to forget it; after
that only those that found the handle before can close it again, and their number is
counted with them.  `InTurn` orders the releases: information before handle, release
before oblivion.  `StopInv` adds that Stop is through with Close only when the handle is
gone, whichever thread took it away, and `NothingLeaks` follows.  `NoSocket` is the
client whose constructor failed.  `AnswerInv` follows the messages of the server: no
more are given to the delegate than are popped, popped than made ready, made ready than
sent, and the listen thread leaves its loop over them only when none is left.  When the
delegate is bound before Start, popped and given are the same, and `AnswersHeard`
follows.

### 4.6 The wire (`WireProofs`)

For every set of ids below 65536, of bitsets of 32 bits, and of texts shorter than 2^31
bytes, whose length is not negative as an `int32_t`, however many values are waiting:

* `WireTypeCorrect`; `ReadsWhatWasWritten`: `ReadsBack`; `BytesAlwaysMatch`:
  `BytesMatch`; `HeadersAsAsked`: `HeaderAsAsked`.

The four are inductive together.  An integer is the sum of its bytes by weight
(`FourBytes`), a field stands where the fields before it end (`PacketIsWritten`), so
that what `Read` takes from the front is the first value with exactly its bytes
(`ValueIsRead`), and the cut of the rest is the old one, moved (`ReadFirst`).

### 4.7 Assumptions, and what is only model-checked

`NoIdReuse` is needed, or a network that keeps the order: `wrap_reordered` shows what
happens without either.  So is `NoHalfwaySpread` for `AckIdIsLatest`, `LatestInv` and
`NoStall`: with three messages and five ids, loss makes ids 1 and 3 arrive one after the
other, HalfId apart, `UpdateAckId` takes neither for the later one, and TLC finds these
three violated.  What is proved under `NoIdReuse` alone covers those ids, and those
further apart that it takes the wrong way round: a wrong ack id delays, it neither
misorders nor loses.  `both_ends` has the former; the latter only the theorems have.  (`CatchesUp` is about
delay: with nine ids instead of fifteen `gaps` violates it.)  The bound of
`WindowSuffices` is needed (`resend_window_exceeded`).  The server, the client and the wire need nothing beyond
the assumptions their modules state.

Only model-checked: everything under fairness (`CatchesUp`, `EveryoneHears`,
`ThreadsEnd`, `ServerLearns`) and what is ENABLED (`NoDeadlock`), neither of which the
prover does.

## 5. Findings

* **A packet of the previous lap is released again** (`wrap_reordered`, a bug in
  the code).  `incoming.reliablePackets` is never emptied.  Once the ids have
  wrapped, the lookup at `Connection.cpp:177` finds the packet that had the id on
  the previous lap.  If packet 2 of the new lap overtakes packet 1, the old packet
  1 goes to the application, and the new one is stored but never released.
* **The last packet may never arrive** (`tail_lost`, against `Readme.md:7-8`).  A
  packet is sent again only when a later one is acked and it is not
  (`Connection.cpp:205`).  A lost packet that no later reliable one follows stays
  lost, whatever else the two ends exchange.
* **The header covers four ids, not thirty-two** (`resend_window_exceeded`, against
  `ReliabilityTests.cpp:263`).  `sizeof` gives bytes.  A packet missing more than
  four below the ack id is neither acked nor rescheduled.

* **A restarted server's messages are forgotten** (`server_restarts`, a bug).
  Nothing tells a client that the server is a new one.  Its first message has id 1,
  which the client has from before: the client acks it with whatever header it
  sends next, the server erases its copy, and the client drops the message as a
  duplicate.

### 5.1 Observations

No run asserts the following; most are outcomes the models contain, which is why the
properties say "or `crashed`" and "unless the socket is closed".

* *A header that is a lap late.*  Between two ends that both send, a header made before
  its host had received anything has all bits off, those of the last ids of the ring
  among them (0 - 1 is 65535).  If it arrives when its receiver has packets of these ids
  in `outgoing.reliablePackets`, they are sent again, though the peer has released them
  (`Connection.cpp:217`); on the next lap the old packet is released in the place of the
  new one.  Without the constraint of `wrap_in_order`, and with unreliable packets from
  the server, TLC finds this with one datagram in flight and no faults; it takes the
  delay of one datagram by nearly 65535 messages.

* *Stop clears the map under the other threads.*  `Server.cpp:45` takes no mutex, nor
  does the loop at `:225`; `GetPeers` does (`:50`), in vain.  `ClearPeers` during
  `Iterating` may crash.
* *Members end before the threads that use them.*  The threads are declared before the
  map, the mutex and the delegates (`Server.h:27-39`), so they are joined after those
  are destroyed; `Client.h:28-32` has the same order.  `DestroyMembers` may crash.
* *One failed call ends the server for all.*  Any error of `recvfrom` or `sendto`
  closes the one socket (`Socket.cpp:112`, `:147`).  A datagram of more than 512 bytes
  is such an error, and nothing limits a message's length.  What was queued for the
  peers never goes out: `EveryoneHears` promises nothing once the socket is closed.
* *One ping.*  `Client.cpp:25` sends it once.  If it is lost, and the application only
  listens, the server never learns of the client: `ServerLearns` needs the fairness of
  `Send`.
* *The address is used after Close freed it.*  The send thread tests the socket and
  uses the address information later; the assertion of `Socket.cpp:105` fails.
* *The handle is closed twice.*  Closing it makes the blocked `recvfrom` of the listen
  thread fail, which then may find the handle still valid and close it as well, or free
  the address information a second time: `closes` and `frees` exceed 1.  No property
  says otherwise; `NothingLeaks` says "at least once", and the type invariant "at most
  three times".
* *The last answer may be lost for good.*  As in `tail_lost`: a last message of the server
  that the network loses is never sent again, so nothing promises that the client hears
  all that the server sends.  `AnswersHeard` begins where the Connection has it.
* *Messages before the delegate is bound are dropped.*  `NetworkingWin.cpp:41-42`
  binds it after Start; with that order `AnswersHeard` does not hold.
* *Clearing a flag would clear a type bit.*  `Packet.cpp:65` does not shift; no caller
  clears a flag.
* *A ping's payload would be serialized*, against the message at `Packet.cpp:38`, which
  is never logged because the parameter it tests has been moved from.

## 6. Not modelled, and the plan

Not modelled for good: the TCP half of `Socket`, `Server::RemovePeer` and
`BindPeerDisconnected`, and the setters of sequence numbers, which have no caller
outside the tests; `Logger`, `Message`, `Peer`, `NetSystem`, which keep no state
that matters; the prompt and output of `Chat` and the parsing of arguments; Winsock
itself, which appears as the network and as results of calls.  `NetAddress` compares
all loopback addresses as equal while their hashes differ, but every key of the
server's map comes from `inet_ntop`, and two loopback clients with one port would
need sockets bound by hand.  A client made with a host name other than "localhost"
drops everything it receives (`Client.cpp:87` compares the name with a numeric
address); the applications ask for an address.

Hazards no property covers, and why, are in `PROJECT.json` with a note: a header that is
a lap late, the lengths of the ready queue and of the map of copies, a message too long
for `recvfrom`, the double close, and undefined behaviour that the code is exposed to.
Most are outcomes the models contain and section 5.1 describes.

`ConnectionThreads` does not refine `Connection` under any mapping that keeps the
datagrams: if packets 3 and 1 arrive between `LoadAckId` and `ReadBit`, the header has
ack id 2 and the bit of 1, but at no moment was 2 the ack id and 1 received.  So what was wanted of the
refinement, `NoStall` and the resending of what is missing, is stated and proved of the
threads directly (4.3).

What remains: the threads when ids wrap; `ConnectionRestart` up to the restart of the
server; and everything under fairness, should the prover come to do it.
