----------------------------- MODULE Connection -----------------------------
(***************************************************************************)
(* One connection of the transport layer: an application that connects, an *)
(* application that listens, the ClientHandler each of them has in the     *)
(* transport daemon of its node, and what lies between the two handlers.   *)
(* A channel stands for the sender's frame_out_queue, the MIP daemons and  *)
(* the links on the way, and the receiver's transport_sock: it keeps the   *)
(* order and may lose any frame.                                           *)
(***************************************************************************)
EXTENDS ClientHandler, FiniteSets

CONSTANTS
  MaxChunks,    \* bound: chunks the client application writes
  MaxChannel,   \* bound: frames in a channel, the ones in excess are lost
  Lossy,        \* TRUE: the network loses any number of frames
  MaxLosses,    \* bound: frames it loses if ~Lossy, besides those in excess
  Pace,         \* when a timer may expire: "any", "quiet" or "alternate"
  UpperHalf,    \* what the stack may leave in the upper half of a sequence number
  MayClose      \* the applications that may close: subset of {"client", "server"}

ASSUME ConnectionAssumption ==
  /\ MaxChunks \in Nat /\ MaxChannel \in Nat /\ MaxLosses \in Nat
  /\ Lossy \in BOOLEAN
  /\ Pace \in {"any", "quiet", "alternate"}
  /\ UpperHalf \subseteq Int /\ 0 \in UpperHalf
  /\ MayClose \subseteq {"client", "server"}
  /\ PortLimit > 2

VARIABLES
  client,    \* handler of the connecting application
  server,    \* handler of the listening application
  capp,      \* socket of the connecting application
  sapp,      \* socket of the listening application
  toServer,  \* frames on their way to the server's node
  toClient,  \* frames on their way to the client's node
  losses,    \* frames lost so far, unless Lossy
  last       \* the endpoint whose timer expired last, when Pace = "alternate"

vars == <<client, server, capp, sapp, toServer, toClient, losses, last>>

ClientAddress == 1
ServerAddress == 2
ListenPort    == 2   \* getFreePort gives the client port 1

Init ==
  /\ client = NewHandler /\ server = NewHandler
  /\ capp = NewSock([kind |-> "client", address |-> ServerAddress, port |-> ListenPort])
  /\ sapp = NewSock([kind |-> "server", address |-> 0, port |-> ListenPort])
  /\ toServer = <<>> /\ toClient = <<>>
  /\ losses = 0 /\ last = "server"

Post(channel, frames) ==
  SubSeq(channel \o frames, 1, LowerOf(Len(channel) + Len(frames), MaxChannel))

(***************************************************************************)
(* The daemons' event loop: one entry point of one handler at a time.  An  *)
(* event of a handler that failed finds nothing in client_vector.          *)
(***************************************************************************)
ClientDoes(r) ==
  /\ client' = r.handler /\ capp' = r.sock
  /\ toServer' = Post(toServer, r.out)
  /\ UNCHANGED <<server, sapp, losses>>

ServerDoes(r) ==
  /\ server' = r.handler /\ sapp' = r.sock
  /\ toClient' = Post(toClient, r.out)
  /\ UNCHANGED <<client, capp, losses>>

ClientSockEvent ==
  /\ Alive(client) /\ capp.event
  /\ ClientDoes(handleSock(client, [capp EXCEPT !.event = FALSE], {client.m_source_port}))
  /\ UNCHANGED <<toClient, last>>

ServerSockEvent ==
  /\ Alive(server) /\ sapp.event
  /\ ServerDoes(handleSock(server, [sapp EXCEPT !.event = FALSE], {server.m_source_port}))
  /\ UNCHANGED <<toServer, last>>

\* "quiet": the timeout exceeds the time any exchange takes, so that a timer
\* expires when nothing is under way.  "alternate": moreover the two daemons
\* run with equal timeouts, so that their timers take turns.
Quiet ==
  /\ toServer = <<>> /\ toClient = <<>>
  /\ ~(Alive(client) /\ capp.event) /\ ~(Alive(server) /\ sapp.event)
MayExpire(me, other) ==
  /\ Pace # "any" => Quiet
  /\ Pace = "alternate" => (last = other.m_type \/ ~Alive(other) \/ ~other.m_timer)

TakeTurn(me) == last' = IF Pace = "alternate" THEN me ELSE last

ClientTimer ==
  /\ Alive(client) /\ client.m_timer
  /\ MayExpire(client, server)
  /\ TakeTurn("client")
  /\ ClientDoes(handleTimer(client, capp, {client.m_source_port}))
  /\ UNCHANGED toClient

ServerTimer ==
  /\ Alive(server) /\ server.m_timer
  /\ MayExpire(server, client)
  /\ TakeTurn("server")
  /\ ServerDoes(handleTimer(server, sapp, {server.m_source_port}))
  /\ UNCHANGED toServer

ClientReceive ==
  /\ toClient # <<>>
  /\ toClient' = Tail(toClient)
  /\ UNCHANGED last
  /\ LET f == Head(toClient)
     IN  IF Alive(client) /\ f.dest = client.m_source_port
         THEN \E u \in UpperHalf :
                ClientDoes(receiveFrame(client, capp, ServerAddress, f,
                                        getSequenceNumber(f, u)))
         ELSE UNCHANGED <<client, server, capp, sapp, toServer, losses>>

ServerReceive ==
  /\ toServer # <<>>
  /\ toServer' = Tail(toServer)
  /\ UNCHANGED last
  /\ LET f == Head(toServer)
     IN  IF Alive(server) /\ f.dest = server.m_source_port
         THEN \E u \in UpperHalf :
                ServerDoes(receiveFrame(server, sapp, ClientAddress, f,
                                        getSequenceNumber(f, u)))
         ELSE UNCHANGED <<client, server, capp, sapp, toClient, losses>>

(***************************************************************************)
(* The applications (TransportInterface, file_sender, file_receiver).      *)
(* Writing and closing raise an edge on the daemon's end of the socket.    *)
(***************************************************************************)
ClientAppRequests ==
  /\ ~capp.closed /\ Alive(client) /\ capp.request < RequestItems("client")
  /\ capp' = [capp EXCEPT !.request = @ + 1, !.event = TRUE]
  /\ UNCHANGED <<client, server, sapp, toServer, toClient, losses, last>>

ServerAppRequests ==
  /\ ~sapp.closed /\ Alive(server) /\ sapp.request < RequestItems("server")
  /\ sapp' = [sapp EXCEPT !.request = @ + 1, !.event = TRUE]
  /\ UNCHANGED <<client, server, capp, toServer, toClient, losses, last>>

Written == client.m_total_data_loaded + Len(capp.in)

\* The k-th chunk of the stream is the number k.
ClientAppWrites ==
  /\ ~capp.closed /\ capp.reply = "success" /\ Alive(client)
  /\ Written < MaxChunks
  /\ capp' = [capp EXCEPT !.in = Append(@, Written + 1), !.event = TRUE]
  /\ UNCHANGED <<client, server, sapp, toServer, toClient, losses, last>>

ServerAppReads ==
  /\ ~sapp.closed /\ sapp.unread > 0
  /\ sapp' = [sapp EXCEPT !.unread = @ - 1]
  /\ UNCHANGED <<client, server, capp, toServer, toClient, losses, last>>

ClientAppCloses ==
  /\ "client" \in MayClose /\ ~capp.closed
  /\ capp' = [capp EXCEPT !.closed = TRUE, !.event = TRUE]
  /\ UNCHANGED <<client, server, sapp, toServer, toClient, losses, last>>

ServerAppCloses ==
  /\ "server" \in MayClose /\ ~sapp.closed
  /\ sapp' = [sapp EXCEPT !.closed = TRUE, !.event = TRUE]
  /\ UNCHANGED <<client, server, capp, toServer, toClient, losses, last>>

(***************************************************************************)
(* The network loses a frame.                                              *)
(***************************************************************************)
Lose == IF Lossy THEN UNCHANGED losses ELSE losses < MaxLosses /\ losses' = losses + 1

LoseToServer ==
  /\ toServer # <<>> /\ toServer' = Tail(toServer)
  /\ Lose
  /\ UNCHANGED <<client, server, capp, sapp, toClient, last>>

LoseToClient ==
  /\ toClient # <<>> /\ toClient' = Tail(toClient)
  /\ Lose
  /\ UNCHANGED <<client, server, capp, sapp, toServer, last>>

Next ==
  \/ ClientSockEvent \/ ServerSockEvent \/ ClientTimer \/ ServerTimer
  \/ ClientReceive \/ ServerReceive
  \/ ClientAppRequests \/ ServerAppRequests \/ ClientAppWrites \/ ServerAppReads
  \/ ClientAppCloses \/ ServerAppCloses
  \/ LoseToServer \/ LoseToClient

Spec == Init /\ [][Next]_vars

\* The event loop serves every event that stays pending: timers are level
\* triggered and armed again by each expiry, channels and sockets are drained
\* until they are empty.  The listening application reads what it is sent, and
\* both finish the request they began.
Fairness ==
  /\ WF_vars(ClientSockEvent) /\ WF_vars(ServerSockEvent)
  /\ WF_vars(ClientTimer) /\ WF_vars(ServerTimer)
  /\ WF_vars(ClientReceive) /\ WF_vars(ServerReceive)
  /\ WF_vars(ServerAppReads)

FairSpec == Spec /\ Fairness

(***************************************************************************)
(* Properties                                                              *)
(***************************************************************************)
Chunk == Nat \ {0}

\* The types of the variables; a window never has more frames than slots.
TypeOK ==
  /\ client \in HandlerType(Chunk) /\ server \in HandlerType(Chunk)
  /\ capp \in SockType(Chunk) /\ sapp \in SockType(Chunk)
  /\ toServer \in Seq(FrameType(Chunk)) /\ toClient \in Seq(FrameType(Chunk))
  /\ losses \in Nat /\ last \in {"client", "server"}

\* What the listening application was given, followed by what its handler holds
\* for it, is exactly the beginning of what the connecting application wrote:
\* in order, without a gap, a duplicate or a chunk of another turn of the
\* sequence numbers, whatever is lost, repeated or acknowledged twice.
StreamIntact ==
  sapp.delivered \o server.m_msg_buffer = [i \in 1..server.m_total_data_received |-> i]

\* A chunk leaves the client's window only when the server holds it: a stale
\* acknowledgement of an earlier turn of the sequence numbers, or one read with
\* a garbage upper half, never releases data that did not arrive.
AckNeverAhead ==
  client.m_total_data_loaded - Len(client.m_frame_window) <= server.m_total_data_received

\* The connecting application is told of a connection only if the listening one
\* was told of it before.
ToldAfterServer == capp.reply = "success" => sapp.reply = "success"

\* An application gets one answer: the timer armed for the request, which keeps
\* running in the connection, never adds a timeout to a success.
AnsweredOnce ==
  [][/\ capp.reply # "none" => capp'.reply = capp.reply
     /\ sapp.reply # "none" => sapp'.reply = sapp.reply]_vars

\* "redundancy in case we lose a request": with both ends connected, timers that
\* take turns and one lost frame at most, neither end gives the connection up,
\* except the client once its application closed and all data was acknowledged,
\* and both once the listening application closed.
NoSpuriousFailure ==
  [][client.m_stage = "connected" /\ server.m_stage = "connected" =>
       /\ Alive(server') \/ sapp.closed
       /\ \/ Alive(client') \/ sapp.closed
          \/ capp.closed /\ capp'.in = <<>> /\ client'.m_frame_window = <<>>]_vars

\* An end whose peer is gone finds out: it does not stay connected, or waiting
\* for a reply, for ever.
PeerLossDetected ==
  /\ ~Alive(client) ~> server.m_stage \notin {"connected", "wait_reply"}
  /\ ~Alive(server) ~> client.m_stage \notin {"connected", "wait_reply"}

\* The connecting application closed, and the server gave the connection up with
\* chunk k acknowledged but not handed over: the socket was full, and m_msg_buffer
\* went with the handler.
GivenUp(k) == capp.closed /\ ~Alive(server) /\ server.m_total_data_received >= k

\* Every chunk the connecting application wrote reaches the listening one, unless
\* that one closes, or the server has taken the chunk and gives up before the
\* socket has room for it, which it does only once the other side closed.
Delivery ==
  \A k \in 1..MaxChunks :
    Written >= k ~> Len(sapp.delivered) >= k \/ sapp.closed \/ GivenUp(k)

\* README.md:20, "Two nodes can reliably transmit data between eachother": a
\* server that gives the connection up has handed over what it acknowledged.
AcknowledgedIsHandedOver ==
  ~Alive(server) /\ ~sapp.closed =>
    Len(sapp.delivered) >= client.m_total_data_loaded - Len(client.m_frame_window)

\* A connection implements the stream: each step is one step of the stream or
\* none of it.
Stream == INSTANCE ReliableStream WITH
  written   <- Written,
  accepted  <- sapp.delivered \o server.m_msg_buffer,
  forgotten <- client.m_total_data_loaded - Len(client.m_frame_window),
  delivered <- Len(sapp.delivered)
ImplementsStream == Stream!Spec
=============================================================================
