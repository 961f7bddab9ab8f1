# A TLA+ development of MIPTP_cpp

MIPTP_cpp is a small network stack: a link layer with ARP, a network layer with
distance-vector routing, and a transport layer with a Go-Back-N sliding window.
Each node runs three processes that talk over Unix sockets. This directory holds
models of it for TLC, the properties that make it correct, and theorems checked by
TLAPS. All definitions are read off the code in `src/`; comments in the modules say
where the code's names were kept and what was abstracted.

## 1. Inventory

| component | state | operations | hard parts |
|---|---|---|---|
| `ClientHandler` | stage, peer address and ports, window, sequence base, current ack, receive buffer, keepalive flag, timer | `handleSock`, `handleTimer`, `receiveFrame` | sequence numbers that wrap, retransmission, three kinds of events in any order |
| `transport_deamon` | `client_vector`, `frame_out_queue` | accept, dispatch by port, erase failed handlers | ports reused while old frames travel, events of erased handlers, SIGPIPE |
| applications (`file_sender`, `file_receiver`, `TransportInterface`) | their socket | request, write, read, close | partial requests, dying at any moment |
| `MIPTPFrame`, `MIPFrame` | bytes | setters and getters | 14-bit ports, 4-bit TTL, uninitialised upper half of a sequence number |
| `MIP_deamon` | ARP table with reply flags, local addresses, `lookup_queue` | ARP request and reply, expiry, forwarding, pairing of lookups | pairing by order only, one-sided loss of a link, TTL |
| `routing_deamon` | distance-vector table, neighbour list, two queues | main thread, update thread, lookup thread | threads, shared list without a lock, blocking sockets |
| `DistanceVectorTable` | routes (destination, via, cost) | add, set to infinity, pack and unpack advertisements, update | convergence after a failure, advertisements only on change |
| `CrossIPC`, `TimerWrapper`, `EventPoll`, `RawSock` | descriptors | wrappers of system calls | WouldBlock, end of file, SIGPIPE, EINTR, edge triggering, descriptors used again |
| the three processes of a node, `CrossForkExec` | `m_closed`, `running`, what they hold of each other's sockets | fork and exec, SIGINT, join | a signal at any moment, blocking sockets, inherited descriptors |

How they interact: an application connects to its node's `transport_deamon`, which
makes a `ClientHandler` for it. Handlers put frames on `frame_out_queue`; the daemon
sends them to its `MIP_deamon`, which asks `routing_deamon` for the next hop, finds
it by ARP and sends it over a raw socket. A frame that arrives is delivered upwards
or forwarded. `MIP_deamon` reports found and lost neighbours to `routing_deamon`,
which keeps the table and exchanges advertisements with the neighbours through
`MIP_deamon`.

`PROJECT.json` lists the hazards of this code with the line where each bites and
the properties that cover it.

## 2. Plan

Written, in this order:

1. `ClientHandler` - the endpoint of a connection, as operators on records.
2. `Connection` - two endpoints, their applications, a lossy path.
3. `ReliableStream` - what a connection promises; `Connection` implements it.
4. `TransportDaemon` - all handlers of all nodes, ports, dispatch, erasure.
5. `ClientHandlerProofs` - the types of a handler.
6. `ConnectionInvariant`, `ConnectionProofs` - the inductive invariants of a connection, and
   what they give: its types, its safety and the refinement of `ReliableStream`.

7. `DistanceVectorTable` - the operations of the routing table.
8. `RoutingDeamon`, `RoutingNode` - routing_deamon's handlers, and its three threads step by
   step; `RoutingDeamonProofs` - what the operations on the table and on the list of neighbours
   return; `RoutingProofs` - what the threads keep whatever the neighbours say.
9. `MIPDeamon` - the handlers of MIP_deamon.
10. `Network` - nodes composed of 7 to 9, with links that fail and come back.
11. `ByteVector`, `MIPFrame`, `MIPTPFrame` - the frames as bytes; `FramePath` - the buffers they
    go through; `FrameChannel` - what those promise.

12. `TransportEvents` - the event loop of one transport_deamon: epoll's batches, descriptors
    that are used again, a socket that is full.
13. `NodeProcesses` - start, signals, blocking sockets and end of a node's three processes;
    `NodeProcessesProofs`.
14. `TransportDaemonProofs`, `TransportEventsProofs` - the safety of all handlers of all nodes,
    and of one daemon's event loop.
15. `NetworkProofs` - the safety of a network of any shape, and how short the ways are in one
    in which no link failed.

Next:

16. `Network`: a topology with a loop and a tail, where the TTL ends a packet.
17. Ports above 2^14, and a reply to the former owner of a port.
18. Proofs: that a field of a header word is read as it was written, whatever is written to
    the fields beside it, and the types of `FramePath`.

## 3. The modules

**`ClientHandler`** has no variables. A handler is a record with the fields of the
class, a socket is a record of what the kernel and the application hold: request
items written, chunks written and not read, a pending edge, whether the application
closed, its answer, the chunks it was given and how many of them it has not read. Each
method is an operator of the same name; an entry point returns the new handler, the new
socket and the frames it queued. `handleSock` in `stage_application` reads the items of
a request one by one and keeps its progress in `m_type`, `m_dest_address`,
`m_dest_port`, as the code does. Abstractions: data is counted in chunks (what one
`read` returns); the window is the sequence of its used slots, so `m_used_slots` is its
length and the `std::rotate` of `moveWindow` is the removal of a prefix; the socket of
an application holds `SockCapacity` chunks. `Result` has no separate destination, since
every frame queued by a handler goes to its `m_dest_address`. The stage `sigpipe` is not
in the code: it marks a daemon killed by SIGPIPE, which is what `send` on a socket the
application closed does (`CrossIPC.cpp` passes no `MSG_NOSIGNAL`, nobody ignores the
signal). `getSequenceNumber` adds a multiple of 2^16 for the uninitialised upper half.

**`Connection`** composes two handlers. `client`, `server` are handlers, `capp`, `sapp`
their applications' sockets, `toServer`, `toClient` the frames under way (the sender's
`frame_out_queue`, the daemons, the links and the receiver's `transport_sock` in one
FIFO), `losses` and `last` only bound the runs. One action per event the daemon serves
(`...SockEvent`, `...Timer`, `...Receive`), one per thing an application does, one per
loss. Chunk k of the stream is the number k, so order, gaps and duplicates show.
`Pace` says how timers relate to the network: `"any"` lets a timer expire at any moment;
`"quiet"` only when no frame is under way and no socket event pending (the timeout
exceeds a round trip); `"alternate"` moreover makes the two timers take turns (both
daemons run with the same timeout, as in the repository's topology scripts).

**`ReliableStream`** is the promise: chunks are written, taken over by the far end in
order, forgotten by the sender no earlier than that, and given to the reader in order.

**`TransportDaemon`** keeps a handler and a socket for every application, a channel for
every pair of nodes, and runs the same operators. `client_vector(n)` is the set of live
handlers of node n, `getFreePort` gives the lowest free port, `receiveTransportSock`
hands a frame to the owner of its port or drops it. An erased handler keeps its record
(for the properties) but is in no `client_vector`; its frames stay in the channel, as the
daemon does not purge `frame_out_queue`. A killed daemon serves nobody.

**`ConnectionInvariant`** states the inductive invariant of a connection (section 6).

**`DistanceVectorTable`** has one operator per method. Each method holds `m_mutex` from
start to end, so an operator is a step. A table is a function from the known destinations
to columns (via, cost); the order of columns matters to no operation. `Changed` is the set of
destinations an advertisement changes, `update` the new table and `Changed # {}` its result.

**`RoutingDeamon`** holds the handlers of `routing_deamon.cpp` as operators on a record of
the globals. The update thread walks over `neighbour_mip_vec` without a lock while the main
thread inserts and erases, which is a data race. The storage is modelled to say what it reads:
`neighbour_mip_vec` is followed by the `spare` slots of the same allocation, erasing shifts
the slots down and leaves the last one as it was, and an insertion without a spare slot moves
the vector and leaves the walk in freed storage, where it reads any address.

**`RoutingNode`** runs the three threads, cut where another may come between: at locks,
notifications, operations of the table, and reads of the vector. `main`, `update_thread` and
`lookup_thread` say where each is; a waiting thread wakes by `notify_one` or spuriously. Its
other side is any MIP_deamon that reports local addresses first, finds neighbours it has not
and loses those it has (`arp`). `told` is what each neighbour was told last.

**`MIPDeamon`** holds the handlers of `MIP_deamon.cpp`: each returns the new globals and what it
wrote on each socket and interface. Interfaces are known by their MIP address, which stands for
the MAC address too. **`Network`** gives every node a MIP_deamon, a routing_deamon and the sockets
between them, and every pair of linked interfaces a FIFO. `ReceiveRawSock`,
`ReceiveTransportSock`, `ReceiveAdvertSock`, `ReceiveAnswerSock` and `Timer` are the branches of
MIP_deamon's loop; `ReadUpdate`, `ReadLookup`, `StartWalk`, `Walk`, `AnswerLookup` the threads of
routing_deamon. A failed link drops what is sent over it; what is under way may still arrive. In
the code an ARP timer expires when its 2 s are over, whatever is under way. `TimeOut` lets it
expire at rest (an exchange of messages takes less than 2 s), or with up to `Overlap` messages and
frames under way: then a neighbour's answer may be late, which to the node that waits for it is a
short outage, and `failures` and `repairs` count it as one. `Pace` says what waits for the network
to come to rest: with `"packets"` starts, failures, repairs and the first packet do, and from that
packet, a repair or an early time-out on the node with the least name works before the others;
with `"serial"` it does so from the start; with `"prompt"` nothing waits. The proofs take any
`Pace` and any `Overlap`. This leaves interleavings between nodes out of the runs, not those
within one. `Walks` are the walks over links, whether they work or not: what `WaysExist` holds the
tables against at every moment, `WaysShort` and `ShortestPaths` only at rest. `WaysExist` says
that no table lists less than the shortest walk, `WaysShort` that none lists more, as long as no
link failed and no time-out was ahead of an answer.

**`ByteVector`, `MIPFrame`, `MIPTPFrame`** are the two frame classes on their `m_data`, a
sequence of bytes, each the set of its bits: setters that clear and insert bits of a header
word, sizes that are rounded up to words (`MIPFrame::setMsgSize`) and padded for it
(`MIPTPFrame::setMsgSize`), `resize` that keeps what was there. `MIPFrame::setSize` leaves the
frame 4 bytes longer than its comment says (MIPFrame.hpp, "Set total size of frame"); its only
caller, `recvMipFrame`, asks for the maximum and sets the size again. **`FramePath`** follows
frames through the buffers of nodes in a line: `window` and `ack` of a ClientHandler, the
static frames of MIP_deamon's handlers (`sending`, `hearing`, `advertising`, `greeting`), that
of transport_deamon (`taking`), the queues and sockets between them. An action is a handler,
with routes and ARP pairs that are there and stay; losing those is the matter of `Network`.
`SendARP` copies what it finds behind a pointer that `resize` may have made stale: freed
memory the first time (`Junk`), the frame's own header later. The Ethernet protocol number,
which nothing reads, is left out. **`FrameChannel`** is the abstract channel: what is put in
comes out, unchanged and in order.

**`TransportEvents`** is main's loop of one transport_deamon, with the handlers of
`ClientHandler`. `Wait` is `epoll_wait`: it takes up to `MaxBatch` of the ready descriptors,
those that the last batch had no room for first; an edge (`arrived`, an application's `event`)
is gone once reported, a level (`backlog`, an expired timer) is not. `ServeTransport`,
`receiveApplicationSock`, `ServeSock` and `ServeTimer` are the branches that look a descriptor
up, in the daemon's state at that time, and `ServeNobody` the empty last one: the batch keeps
descriptors of handlers that were erased while it was served. `Accept` gives a new handler the
lowest free descriptors, as the kernel does, so it may inherit such an event. Every branch ends
with `sendTransportSock`. `expired` is not cleared by `handleTimer`'s reading, which does not
happen, but by setting the timer again. Frames are counted, not kept. A loop serves
one connection of the backlog per event; without two free descriptors an exception ends the daemon.

**`NodeProcesses`** has the main thread of each process at a place of its life: not yet
started, before its loop (MIP_deamon in two places, `StartMIP` and `SetUpMIP`, for it writes a
message between making its event loop and registering its timer), at the test of `isClosed()`, in `epoll_wait`, in a batch, joining its
child or threads, ended, or ended by an exception, SIGPIPE or SIGINT. A thread that reads or
writes a message has the operations before it in `todo`; one that has to wait blocks. `closed`
is `m_closed`, which `sigintHandler` sets and `epoll = EventPoll(100)` resets. What the
messages say is left open (`ServeNetwork` sends any of them, or none). As nobody sets
close-on-exec, routing_deamon holds both ends of its own sockets and MIP_deamon both ends of
`transport_sock`: `Widowed` says whom the death of others reaches. `Interrupted` is the choice
between SA_RESTART and EINTR, as `sa_flags` is never initialised. A SIGINT that the kernel
gives to a worker thread is ignored (`main_thread_id`), which is a step that changes nothing.
`EndBatch` waits for what epoll would report again anyway, which leaves out empty turns.

`MCConnection`, `MCTransportDaemon`, `MCTransportEvents`, `MCRoutingNode`, `MCNetwork`,
`MCFramePath` and `MCNodeProcesses` instantiate them.

Operators named `Bug...` are mutations of the operator that follows them; no
specification uses them. They show that each property can fail.

## 4. The runs

| run | instance | shows |
|---|---|---|
| `window` | window 2, sequence space 3, 3 chunks, 3 frames per channel, any loss, any pace, garbage upper halves | `TypeOK`, `StreamIntact`, `AckNeverAhead`, `StreamNumbers`, `AnsweredOnce`, `ImplementsStream` |
| `live` | window 2, 4 chunks, a socket that takes one, one loss, timers that take turns, either application may close | `ToldAfterServer`, `NoSpuriousFailure`, `PeerLossDetected`, `Delivery` |
| `heir` | two clients of node 1, on node 2 two servers that want the same port, the first may close, any loss, quiet pace | `TypeOK`, `DataFromPeerOnly`, `PortsDistinct` |
| `handover` | no loss, slow reader | `AcknowledgedIsHandedOver` is violated |
| `splice` | no loss, quiet network, one client after the other | `OneStream` is violated |
| `threads` | one node, two other addresses, 3 update messages, 2 lookups, a stop at any moment | `TypeOK`, `LocalRoutes`, `NeighboursTold`, `RaisedByVia`, `Advertises`, `Answers`, `Terminates` |
| `line` | three nodes in a line started in any order; one link fails at rest and comes back, or one time-out strikes with up to two messages or frames under way; 3 packets of the end and of the router | `TypeOK`, `ShortestPaths`, `WaysShort`, `LookupsPaired`, `DeliveredRightly`, `NeighboursAgree`, `WaysExist`, `ComesToRest` |
| `reroute` | three nodes in a ring, one link fails for good, no frame is lost | `EveryNodeReachable` is violated |
| `stale` | two nodes, the link fails while frames are under way | `OfflineDetected` is violated |
| `path` | three nodes in a line, two frames of any kind from any of them | `TypeOK`, `HopsCounted`, `ImplementsChannel` |
| `events` | two connecting applications, the first may close, descriptors for one at a time, batches of 3, room for 1 packet | `TypeOK`, `TimeoutIsOwn`, `Answered`, `Drained`, `FramesLeave` |
| `processes` | sockets with room for 1 write, any number of SIGINTs to each process | `TypeOK`, `NeverBothWait`, `NodeGoesDown`, `EndsTogether` |

Bounds. The code has a window of 10 and 40 sequence numbers. The runs use the tightest
space the algorithm allows, one number more than the window, so that numbers wrap after
three frames and a confusion between two turns would show at once; with 3 or 4 chunks
and 2 or 3 frames per channel every number is reused while older copies of it are under
way. A frame beyond `MaxChannel` is lost, which a lossy path may do anyway. `MaxChunks`
bounds what the application writes. Socket capacity 1 makes partial writes common, and lets the
socket of a slow reader fill. In `live` that is why `Delivery` has an exception besides a server
application that closes, `GivenUp`: once the client closed, the server may give up with
acknowledged chunks it could not hand over, which is what `handover` shows to be a loss. Without
that exception the property fails in this run; with a socket that takes the whole stream it would
hold, and say less.

For the routing layer infinity is 3 or 4 instead of 255, more than the longest way plus a hop, so
that counting up to it shows at once. Two neighbours and three messages are enough for a neighbour
to be found or lost in every position of a walk, to be found again, and for the vector to grow
into new storage once (from one slot to two) and to shrink. Three nodes are the least with a node
that forwards, and, in the ring, with two ways to one destination. The TTL is 3 instead of 15; no
way of these networks is that long, so the runs do not show a packet that is dropped for it.

With `Overlap` 2 a time-out of `line` may strike between a broadcast and its answer, or while an
advertisement of the neighbour it declares lost waits in a socket or travels, and something else
may be before or behind it. More than two at a time, and more than one early time-out, only the
proofs cover; so it is with nodes that start while others are at work, as the nodes of the line
find it at rest.

For `path` the largest frame is 38 bytes instead of 1514, which leaves 14 for a chunk; both
are 2 more than a multiple of 4, which is what the sizes depend on (`PathAssumption`). Chunks of
1, 3 and 14 bytes and acknowledgements without a message give all four paddings and the longest
frame, advertisements of 4 and 6 bytes one that MIPFrame rounds up.
Addresses, ports and numbers have alternate or all bits set. Two frames are enough because a
buffer holds what the one frame before left in it.

For `events` the window is 1 and the sequence space 2, as data is not the question. Descriptors
for a single handler make every connection but the first use the descriptors of one that was
erased. With three events in a batch all of transport_sock, a handler's socket and its timer, or
application_sock and both events of a handler, are served together, and others are left for the
next batch. Two packets, where the socket of the other direction takes one, are enough to leave
a packet or a frame behind.

For `processes` a socket with room for one write blocks as early as possible. A message is two
writes where the code makes two to four, which is enough to be interrupted or deserted between
two of them; an answer without a next hop, a single write, is left out (`Answers`). Queues are
counted up to one: what a further element does is what the first one does again.

Deadlock is not checked (`CHECK_DEADLOCK FALSE`): a connection really stops once both
ends failed, or when a client gave up before the server listened; a routing_deamon stops once
it has terminated; a network rests, up to its timers, when the bounds are used up, and so do
the buffers of `path`; a daemon without applications or packets waits, a node may end.

### What the violations show

* `handover`: the server acknowledges a frame when it enters `m_msg_buffer`. When the
  client is done it goes away, the server's keepalive fails, and the handler is erased
  with whatever the slow application has not taken. Nothing was lost on the way. `Delivery`
  excludes just this case.
* `splice`: client 1 transfers data and ends; its port is free at once. Client 2 gets the
  same port and connects to the same server, which still serves client 1's connection and
  answers the request as a keepalive. Client 2 starts at sequence number 0, the server
  expects another: data of client 2 is appended to the stream of client 1, or dropped by an
  acknowledgement of client 1's numbers.
* `reroute`: in the ring A-B-C the link from C to A fails. A gives up the routes through
  it and says so to B. B still reaches C's addresses directly, its table does not change, so
  it advertises nothing, and A keeps infinity although there is a way through B.
* `stale`: A hears B's broadcast, answers, and advertises. The answer is lost, the
  advertisement arrives: B has a route through A but no ARP pair of A. When the link then
  fails for good, no pair times out at B and the route stays.

### What the runs of the processes show

`NeverBothWait` and the two liveness properties hold with the exceptions they state, and
those are real: told to end, a node may stay for ever when a message was under way. If
MIP_deamon leaves its loop between two reads, or while a worker of routing_deamon writes to a
full socket, that worker is never woken, because routing_deamon itself holds the other end; its
`join` does not return, and no parent's does (`Deserted`). Likewise MIP_deamon writes to a
transport_deamon that has left. MIP_deamon's own end is noticed by nobody: routing_deamon and
transport_deamon go on, only the end of routing_deamon takes the others along. A SIGINT that
comes before the event loop is made closes descriptor 0 and is forgotten; after `isClosed()` was
tested, before an `accept` in the same batch, or before MIP_deamon has registered its timer
(`SetUpMIP`), it ends the process by an exception, which leaves the named socket's path behind.

`TimeoutIsOwn` says that the event a former handler left behind is not an answer by itself.
It does arm the timer of the new handler, whose application may not have asked yet: if that
expires in the batch in which the request is read, the application is told of a timeout the
moment it has asked. The property counts that as the timer's own expiry.

## 5. Fairness

`Fairness` is weak fairness of the events the daemon's loop serves (a pending edge, an
expired timer, a frame that arrived) and of the listening application's reads. The code
justifies it: `epoll_wait` returns every pending event, a timer descriptor stays readable
until it is set again, and each pass serves the whole batch. Applications need not write,
request or close. The network may lose at most `MaxLosses` frames in `live`; with `Pace`
`"alternate"` a timer that stays due is always served. Without turns two expiries of one
end may fall between two of the other, and one lost frame then ends the connection: the
redundancy of the keepalive depends on equal timeouts.

`FairSpec` of `RoutingNode` is weak fairness of each thread: the operating system runs a
thread that can go on. The main thread need not be given messages, and need not stop.
`FairSpec` of `Network` is weak fairness of `Serve`, all that the daemons and the links do
by themselves; timers, starts, failures and applications need not happen. `ComesToRest` says
that the daemons run out of work, whichever of it is done first.

In `TransportEvents` the daemon waits and serves (`Progress`: some event of a batch is served,
each leaves it), MIP_deamon takes packets, an armed timer expires, and an application that began
a request finishes it. Packets, connections and closes need not happen. `FramesLeave` needs no
more: nothing wakes the daemon when `transport_sock` has room again, but the timer of the
handler whose frame it is does.

In `NodeProcesses` every thread that can go on does, and a batch ends (strong fairness of
`EndBatch`: a batch has at most 20 events). Signals and messages need not come.

## 6. Proofs

`ClientHandlerProofs` shows that every entry point maps well-typed handlers, sockets and
frames to well-typed results, for all window sizes, sequence sizes, port limits and
capacities that satisfy `HandlerAssumption`. It includes that `loadFrames` stays within
the `WindowSize` slots of the array it indexes without a check, and that `getFreePort`
returns a port that is free. It begins with the arithmetic of wrapping numbers.

`ConnectionProofs` begins with `TypeCorrect == Spec => []TypeOK`, by induction, one step per
action; `TypeOK` is inductive as it stands because the types include the bound of the
window and of the socket.

Its second part proves `StreamCorrect == Spec => []StreamIntact`, `AcksCorrect == Spec =>
[]AckNeverAhead` and `StreamNumbersCorrect`. Neither of the first two formulas is inductive:
whether a frame of number n is the next chunk or a copy of one that came a turn earlier depends on
what is under way. The strengthening is `StreamNumbers` of `ConnectionInvariant`, which the run
`window` checks. It counts from the start of the stream, without wrapping: `Dropped` chunks have
left the client's window, the server took `Received`, the client loaded `Loaded`.

* The counts are ordered, Dropped <= Received <= Loaded.
* Slot i of the window holds chunk Dropped + i under that chunk's number modulo
  `SequenceSize`; the socket holds the chunks after `Loaded` (`ClientNumbers`). What the
  server gave away and what it buffers are the first `Received` chunks (`ServerNumbers`).
* A data frame under way carries a chunk k with Received < k + WindowSize, and no frame is
  a window ahead of a later one (`DataNumbers`). So a frame with the number the server
  waits for carries the chunk it waits for: the distance between the two counts is less
  than `SequenceSize` (lemma `ModEq` of `ClientHandlerProofs`). The second half keeps the first
  true when the server moves on.
* Acknowledgements under way name counts from Dropped to Received, in ascending order
  (`AckNumbers`). So the client moves its window by exactly the distance to the count
  meant, and an acknowledgement overtaken by a later one is never read as a new one.

The proof has one lemma per entry point and side (`ClientSock`, `ClientFrame`,
`ServerFrame`, ...), which says how the numbers of a handler move, lemmas about taking
frames off a channel and putting them on it, and one step per action (`NextNumbers`). Used of
the constants: `WindowSize < SequenceSize` and the assumptions of `HandlerAssumption` and
`ConnectionAssumption`. The bounds of the runs (`MaxChunks`, `MaxChannel`, `Pace`,
`Lossy`, `MayClose`) are arbitrary.

Its third part has what a connection promises its applications. `ConnectionIsStream == Spec =>
ImplementsStream` is the refinement of `ReliableStream`: given the invariant at both ends of a
step, each entry point either writes, takes over, forgets or hands on chunks of the stream or
leaves it alone, because a client never loses what is written and not loaded (`Kept`) and a
server never takes back what it handed over. `ToldCorrect` (`ToldAfterServer`) and
`AnsweredOnceCorrect` (the action property `AnsweredOnce`) say that a request is answered once,
the client's success after the server's. `ToldAfterServer` alone says nothing of a reply under
way, nor of a server that is connected; the strengthening `RequestAnswers` does, and that
a handler in a stage that waits for a peer has not answered (`Unanswered`).

`RoutingProofs` proves two theorems about a routing_deamon, for every set of addresses, of
local ones and of advertisements, and every interleaving of its threads: `RoutesCorrect ==
Spec => []LocalRoutes` and `RaisesCorrect == Spec => RaisedByVia`. `LocalRoutes` is not
inductive, and neither theorem follows from the types. The strengthening `IInv` says:

* the columns of local addresses that are in the table already are right, and only local
  addresses cost 0 (`Sound`): so a discovery, which sets a column to one hop whatever it was,
  can only raise one that is local, and no neighbour is local;
* the message the main thread is working on came from MIP_deamon, and is no neighbour's
  before all local addresses are in: the table changes in a later step than the
  one that read the message, and an advertisement that came first could claim a local
  address.

There is one lemma per operation of the table (in `RoutingDeamonProofs`, which `NetworkProofs`
uses too), one for all that leave it alone, and one step per action. Used of the constants:
`INF_COST > HOP_COST` and that local addresses are addresses.

Its second half proves `TypeCorrect` and `NeighboursToldCorrect == Spec => []NeighboursTold`.
That a neighbour knows the table when the threads have nothing left to do is a statement about
all steps on the way to it, each of which may race with the unlocked walk. `ToldInv`:

* `TypesKept`, `StorageKept`: a walk stays within the storage it began with, or that storage was
  replaced and freed; so every slot it reads holds an address, the right one or not.
* `LocalsFirst`: while a local address comes in there is no neighbour to be told of it.
* `WalkRight`: unless all neighbours are to be told again (`AllPending`), the walk reads
  the list as it is. Only a discovery or a loss changes the list, and both queue an update that
  leaves nobody out: so a walk that missed, repeated or invented a neighbour is followed by one
  that does not.
* `Covered(x)`, for every neighbour x: an update that does not leave x out is on its way
  (`Pending`), or the walk has yet to come to x (`WillSend`), or x knows the table but for what
  goes through x (`Knows`). The sender of an advertisement is left out of the update it causes:
  what that changes goes through the sender (`SenderKnows`).

Assumed of the constants besides: there is an address, without which MIP_deamon does not start
(`MIP_deamon.cpp:443`).

`NodeProcessesProofs` proves, for sockets and queues of every size, that the types hold
(`TypeCorrect == Spec => []TypeOK`) and that MIP_deamon and routing_deamon never both wait
(`NeverBothWaitCorrect == Spec => []NeverBothWait`). The second is not inductive. Its
strengthening `IInv` says how far messages have got:

* `Shapes`: what a main thread may have before it, and that nothing is before it unless it
  serves an event; that workers only write, each on its own socket. This is where the
  proof uses that the answers of routing_deamon come from its workers.
* `UpdatesFramed`: while both processes live, first and second halves alternate in
  `update_in`; its last item is a first half exactly when MIP_deamon has the second before
  it; if it is empty, routing_deamon is inside a message exactly when MIP_deamon is; else
  routing_deamon finds the beginning of a message unless it is inside one.
* `LookupsFramed`: a lookup is one item, and routing_deamon reads only one that is there.

So if routing_deamon waits, it waits for the second half of an update, its socket is
empty, and MIP_deamon is about to write that half into it (`OneMovesOn`). Used of the
constants: only that a socket holds at least one write.

`TransportDaemonProofs` proves, for any number of nodes and applications, any assignment of
requests and any loss, `TypeCorrect`, `PortsCorrect == Spec => []PortsDistinct` and
`DataFromPeerCorrect == Spec => []DataFromPeerOnly`. The inductive invariant `DaemonInv` is
`PortsDistinct` and `DataInv`, which relates an end to the frames of its node: the request a
handler has read is a part of the one written (`EndInv`), only its own application's chunks are
in its window, and a data frame that left node m carries chunks of a client of m under that
client's port (`FrameFrom`). A server takes data only from the address and port it is bound to, so
what it buffers comes from one node and port; that it may be of two clients that owned the
port one after the other is what the run `heir` shows. `PortsDistinct` needs that
`getFreePort` sees the handlers that are live, and that a listening port is refused when it
is in use. There is one lemma for what an entry point does to the ends of a connection
(`EntryEnds`), one for the data (`EntryData`), and one step per action.

`TransportEventsProofs` proves `TypeCorrect` and `TimeoutCorrect == Spec => []TimeoutIsOwn`: no
application is told that its time is up because of a timer event of the handler that had the
descriptor before. It holds for every number of applications, of descriptors, of events in a batch
and of packets, and is true for a reason no line of the code names. `EventsInv`:

* Descriptors are handed out in `Pairs`, a socket and a timer (`FdsDistinct`): accept takes the
  two lowest free ones, and both are closed together.
* `StaleHarmless`: a handler is erased while one of its own events is handled, so at most one
  event of a pair nobody owns is left in the batch. If that is the timer's, the next owner of
  the pair has no event of its own socket in this batch, so it has not read its request when it
  meets the stale one; and a timer event changes nothing in a handler that has no request.
* `BacklogOK`: who waits to be accepted has no descriptors, and a handler as it is made.

A call that reads packets until `WouldBlock` serves any number of them; the model has a recursive
function for it. What each packet keeps all of them keep (`LoopDefined`, `TransportSafe`), by the
least number of packets for which it would not be so. Assumed of the constants: a frame that
arrives is of a frame's type.

`NetworkProofs` proves the safety of `Network` for every finite set of addresses, any nodes,
links, failures and packets, and every interleaving: `TypeCorrect`, `AgreeCorrect == Spec =>
[]NeighboursAgree`, `LookupsCorrect == Spec => []LookupsPaired`, `DeliveredCorrect == Spec =>
[]DeliveredRightly` and `WaysCorrect == Spec => []WaysExist`. The inductive invariant `NetInv` says
of each node (`NodeOK`) and of each link:

* `Leads`: whoever knows routing_deamon's neighbours and reads the messages that are on
  `update_in` knows MIP_deamon's. `NeighboursAgree` is the case of no messages. That both lists
  have the same length needs that neither has duplicates (`Apart`, `NoTwice`), which is what the
  comment at `MIP_deamon.cpp:48` says of `arp_pair_vec` and nothing enforces: a pair is
  added only where there is none.
* The destinations of the answers, lookups and frames that wait are the same in the same order;
  `LookupsPaired` is inductive given that an answer is read only where a frame waits.
* Every frame with a packet, under way or in `lookup_queue`, is one an application sends, with an
  address of its node (`Meant`), or without a source where it waits for its first hop (`Own`).
  Every other frame, wherever it is, has the interface that sent it as its source (`FramesOf`).
* `WaysOK`: columns list ways there are links for. That is not inductive by itself. The
  table is sent in parts that travel and wait, while the sender's table moves on and the receiver
  may declare the sender lost: so advertisements that wait in `update_out`, are on a link or wait in
  `update_in` list ways from their sender too (`ToTell`, `FramesOf`, `News`), and the sender is
  at the other end of a link of the receiver. Poisoning the ways through the receiver
  and infinity take nothing away from this (`PackWays`); a hop to the sender adds the link
  (`NewTableWays`).

A handler has one lemma for what it returns (`TimerOK`, `ARPOK`, `TransportOK`, ...), which says
that its `Effect` keeps `EffectOK`, and one for its step. Assumed of the constants: that there are
finitely many addresses, without which an interface has no place in `raw_sock_vec`, and
`INF_COST > HOP_COST`. `TTL`, `Pace`, `Overlap` and the bounds of the runs are arbitrary, so these
theorems hold of time-outs and starts at any moment, however much is under way.

`WaysShortCorrect == Spec => []WaysShort` is the other half: with `WaysCorrect` the tables of a
network at rest in which all nodes run, no link failed and no time-out came before an answer
(`failures = 0`) name the shortest ways, in every network in which an interface is on one link and
a node on a link once (`PlainLinks`), and for ways shorter than `INF_COST`. What holds at
rest is proved from what holds on the way there (`ShortInv`, with `NetInv` in `Calm`), in any
interleaving of the nodes, their threads and packets:

* `LinkOK`, of each link and direction. What is under way on it from table to table
  (`UnderWay`: in `update_out`, on the wire, in `update_in`) is in order (`InOrder`): a later
  advertisement asks no more than an earlier one for what both list. To apply one makes no column
  dearer (`Heeded`), the sender has the way still and no dearer (`Since`), and a column through
  the sender is never cheaper than the sender's own and a hop (`Owed`). This needs that tables
  only ever get cheaper (`Cheaper`), which is what the first failure ends.
* `Covered`, of each neighbour: an announcement that does not leave it out waits (`Pending`), or
  the walk is still to come to it (`WillSend`), or what it has and what is under way to it
  tells all that the table lists and it should know (`Arrives`). An announcement leaves out the
  neighbour an advertisement came from, and split horizon leaves out the ways through it: the
  columns such an advertisement changes are just those.
* `WalkRight`: a walk whose storage was replaced under it reads any address, so it covers nobody;
  but then the discovery that replaced it has put an announcement to all in the queue.
* `NodeCalm` and `WireCalm`: neighbours run, no loss is ever reported, a node's own addresses
  reach its table before its first neighbour does, and of two nodes that run each has heard of
  the other since its last time-out, or will (`WillHear`). That is what makes a time-out lose
  nobody, and why it has to come at rest: ahead of an answer it loses a neighbour that is there.

At rest nothing is under way, so `Covered` and `Owed` leave that each table lists what its
neighbours' do for at most a hop more (`RestHop`), and the walk of least length for which the claim
fails would have a shorter one behind its first link (`RestShort`).

Model-checked only: liveness and the fairness it rests on (`ENABLED` is out of the prover's
reach); `ShortestPaths` where a link failed, for tables get dearer then, and it holds only as long
as no link comes back and no way is left but through the failed link (section 5);
`NoSpuriousFailure`, which depends on the pace of the timers and the number of losses;
the properties the code violates; and `FramePath` (`TypeOK`, `HopsCounted`,
`ImplementsChannel`), whose codecs are arithmetic on single bits.

## 7. Not modelled

The two layers are not composed: `Network` sends and delivers packets, `TransportDaemon` uses
channels that lose frames; a frame takes one way through the lines of the runs, so that channels
in order are what `Network` gives it, while a network that changes its ways may reorder frames.
Of the file programs only their use of the transport is modelled, not what they write into the
stream (a name, a size, bytes). Left out for good: signals other than SIGPIPE and SIGINT, failures
of fork and exec, the path of the named socket, the choice of interfaces, the Windows half of
`CrossIPC`, `EthernetFrame`, `CircleBuffer`, `main.cpp` (used by no daemon), the empty
`transport_deamon_init.cpp`, and the file comparison and generation programs. An application that
dies with its answer unread makes the kernel report a reset instead of an end of file;
the models let an application close before its answer or after it has read it.
