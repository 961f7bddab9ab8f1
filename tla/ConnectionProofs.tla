-------------------------- MODULE ConnectionProofs --------------------------
(***************************************************************************)
(* Theorems about a connection, for every window, sequence space, channel  *)
(* bound, loss and pace: its types; that its stream is intact, for which   *)
(* StreamNumbers is inductive; that it is a reliable stream, and answers the*)
(* request for it once and in the right order.                             *)
(***************************************************************************)
EXTENDS ConnectionInvariant, ClientHandlerProofs, SequenceTheorems

\* Every step of the network is one of these.
LEMMA PostOK ==
  ASSUME NEW T, NEW channel \in Seq(T), NEW frames \in Seq(T)
  PROVE  Post(channel, frames) \in Seq(T)
<1> DEFINE n == LowerOf(Len(channel) + Len(frames), MaxChannel)
<1>1. /\ channel \o frames \in Seq(T) /\ Len(channel \o frames) = Len(channel) + Len(frames)
      /\ Len(channel) + Len(frames) \in Nat
  OBVIOUS
<1>2. n \in Nat /\ n <= Len(channel \o frames)
  BY <1>1, ConnectionAssumption DEF LowerOf
<1> HIDE DEF n
<1>3. Post(channel, frames) = SubSeq(channel \o frames, 1, n)
  BY DEF Post, n
<1> QED BY <1>1, <1>2, <1>3, SubSeqOK

\* A channel without its first frame is a channel.
LEMMA TailOK ==
  ASSUME NEW T, NEW q \in Seq(T), q # <<>>
  PROVE  Tail(q) \in Seq(T) /\ Head(q) \in T
OBVIOUS

\* The number read from a frame is an integer, whatever its upper half.
LEMMA NumberOK ==
  ASSUME NEW f \in FrameType(Chunk), NEW u \in UpperHalf
  PROVE  getSequenceNumber(f, u) \in Int
<1>1. f.seq \in Int /\ u \in Int
  BY ConnectionAssumption, HandlerAssumption DEF FrameType
<1> QED BY <1>1 DEF getSequenceNumber

\* What the applications do to a socket keeps its type.
LEMMA SockOK ==
  ASSUME NEW s \in SockType(Chunk)
  PROVE  /\ \A b \in BOOLEAN : [s EXCEPT !.event = b] \in SockType(Chunk)
         /\ \A n \in 0..3 : [s EXCEPT !.request = n, !.event = TRUE] \in SockType(Chunk)
         /\ \A q \in Seq(Chunk) : [s EXCEPT !.in = q, !.event = TRUE] \in SockType(Chunk)
         /\ \A n \in 0..SockCapacity : [s EXCEPT !.unread = n] \in SockType(Chunk)
         /\ [s EXCEPT !.closed = TRUE, !.event = TRUE] \in SockType(Chunk)
         /\ s.request \in 0..3 /\ s.in \in Seq(Chunk) /\ s.unread \in 0..SockCapacity
BY DEF SockType

\* A step of a handler keeps the types.
LEMMA ClientDoesOK ==
  ASSUME TypeOK, NEW r, ResultOK(r, Chunk), ClientDoes(r)
  PROVE  /\ client' \in HandlerType(Chunk) /\ server' \in HandlerType(Chunk)
         /\ capp' \in SockType(Chunk) /\ sapp' \in SockType(Chunk)
         /\ toServer' \in Seq(FrameType(Chunk)) /\ losses' \in Nat
BY PostOK DEF TypeOK, ResultOK, ClientDoes

\* A step of the server that returns a well-typed result keeps the types.
LEMMA ServerDoesOK ==
  ASSUME TypeOK, NEW r, ResultOK(r, Chunk), ServerDoes(r)
  PROVE  /\ client' \in HandlerType(Chunk) /\ server' \in HandlerType(Chunk)
         /\ capp' \in SockType(Chunk) /\ sapp' \in SockType(Chunk)
         /\ toClient' \in Seq(FrameType(Chunk)) /\ losses' \in Nat
BY PostOK DEF TypeOK, ResultOK, ServerDoes

\* Both ends start well typed.
LEMMA InitType == Init => TypeOK
<1> SUFFICES ASSUME Init PROVE TypeOK
  OBVIOUS
<1>1. NewHandler \in HandlerType(Chunk)
  BY HandlerAssumption DEF NewHandler, HandlerType, HandlerRecord, Types, Stages
<1>2. \A kind \in {"client", "server"} : \A address \in Nat :
        NewSock([kind |-> kind, address |-> address, port |-> ListenPort]) \in SockType(Chunk)
  BY HandlerAssumption DEF NewSock, SockType, ListenPort
<1> QED BY <1>1, <1>2 DEF Init, TypeOK, ServerAddress

\* Every step of a connection keeps the types.
LEMMA NextType == TypeOK /\ [Next]_vars => TypeOK'
<1> SUFFICES ASSUME TypeOK, [Next]_vars PROVE TypeOK'
  OBVIOUS
<1> USE DEF TypeOK
<1>1. CASE ClientSockEvent
  <2>1. ResultOK(handleSock(client, [capp EXCEPT !.event = FALSE],
                            {client.m_source_port}), Chunk)
    BY SockOK, handleSockOK
  <2> QED BY <1>1, <2>1, ClientDoesOK DEF ClientSockEvent
<1>2. CASE ServerSockEvent
  <2>1. ResultOK(handleSock(server, [sapp EXCEPT !.event = FALSE],
                            {server.m_source_port}), Chunk)
    BY SockOK, handleSockOK
  <2> QED BY <1>2, <2>1, ServerDoesOK DEF ServerSockEvent
<1>3. CASE ClientTimer
  <2>1. ResultOK(handleTimer(client, capp, {client.m_source_port}), Chunk)
    BY handleTimerOK
  <2> QED BY <1>3, <2>1, ClientDoesOK DEF ClientTimer, TakeTurn
<1>4. CASE ServerTimer
  <2>1. ResultOK(handleTimer(server, sapp, {server.m_source_port}), Chunk)
    BY handleTimerOK
  <2> QED BY <1>4, <2>1, ServerDoesOK DEF ServerTimer, TakeTurn
<1>5. CASE ClientReceive
  <2>1. Tail(toClient) \in Seq(FrameType(Chunk)) /\ Head(toClient) \in FrameType(Chunk)
    BY <1>5, TailOK DEF ClientReceive
  <2>2. ASSUME NEW u \in UpperHalf
        PROVE  ResultOK(receiveFrame(client, capp, ServerAddress, Head(toClient),
                                     getSequenceNumber(Head(toClient), u)), Chunk)
    <3>1. getSequenceNumber(Head(toClient), u) \in Int
      BY <2>1, NumberOK
    <3>2. ServerAddress \in Nat
      BY DEF ServerAddress
    <3> QED BY <2>1, <3>1, <3>2, receiveFrameOK
  <2> QED BY <1>5, <2>1, <2>2, ClientDoesOK DEF ClientReceive
<1>6. CASE ServerReceive
  <2>1. Tail(toServer) \in Seq(FrameType(Chunk)) /\ Head(toServer) \in FrameType(Chunk)
    BY <1>6, TailOK DEF ServerReceive
  <2>2. ASSUME NEW u \in UpperHalf
        PROVE  ResultOK(receiveFrame(server, sapp, ClientAddress, Head(toServer),
                                     getSequenceNumber(Head(toServer), u)), Chunk)
    <3>1. getSequenceNumber(Head(toServer), u) \in Int
      BY <2>1, NumberOK
    <3>2. ClientAddress \in Nat
      BY DEF ClientAddress
    <3> QED BY <2>1, <3>1, <3>2, receiveFrameOK
  <2> QED BY <1>6, <2>1, <2>2, ServerDoesOK DEF ServerReceive
<1>7. CASE ClientAppRequests
  <2>1. capp.request + 1 \in 0..3
    <3>1. capp.request \in 0..3
      BY SockOK
    <3>2. capp.request < 3
      BY <1>7, <3>1 DEF ClientAppRequests, RequestItems
    <3> QED BY ONLY <3>1, <3>2
  <2>2. capp' \in SockType(Chunk)
    BY <1>7, <2>1, SockOK DEF ClientAppRequests
  <2> QED BY <1>7, <2>2 DEF ClientAppRequests
<1>8. CASE ServerAppRequests
  <2>1. sapp.request + 1 \in 0..3
    <3>1. sapp.request \in 0..3
      BY SockOK
    <3>2. sapp.request < 3
      BY <1>8, <3>1 DEF ServerAppRequests, RequestItems
    <3> QED BY ONLY <3>1, <3>2
  <2>2. sapp' \in SockType(Chunk)
    BY <1>8, <2>1, SockOK DEF ServerAppRequests
  <2> QED BY <1>8, <2>2 DEF ServerAppRequests
<1>9. CASE ClientAppWrites
  <2>1. capp.in \in Seq(Chunk) /\ client.m_total_data_loaded \in Nat
    BY DEF SockType, HandlerType, HandlerRecord
  <2>2. Append(capp.in, Written + 1) \in Seq(Chunk)
    BY <2>1 DEF Written, Chunk
  <2>3. capp' \in SockType(Chunk)
    BY <1>9, <2>2, SockOK DEF ClientAppWrites
  <2> QED BY <1>9, <2>3 DEF ClientAppWrites
<1>10. CASE ServerAppReads
  <2>1. sapp.unread - 1 \in 0..SockCapacity
    <3>1. sapp.unread \in 0..SockCapacity
      BY SockOK
    <3>2. sapp.unread > 0
      BY <1>10 DEF ServerAppReads
    <3> QED BY ONLY <3>1, <3>2, HandlerAssumption
  <2>2. sapp' \in SockType(Chunk)
    BY <1>10, <2>1, SockOK DEF ServerAppReads
  <2> QED BY <1>10, <2>2 DEF ServerAppReads
<1>11. CASE ClientAppCloses
  BY <1>11, SockOK DEF ClientAppCloses
<1>12. CASE ServerAppCloses
  BY <1>12, SockOK DEF ServerAppCloses
<1>13. CASE LoseToServer
  BY <1>13, TailOK DEF LoseToServer, Lose
<1>14. CASE LoseToClient
  BY <1>14, TailOK DEF LoseToClient, Lose
<1>15. CASE UNCHANGED vars
  BY <1>15 DEF vars
<1> QED
  BY <1>1, <1>2, <1>3, <1>4, <1>5, <1>6, <1>7, <1>8, <1>9, <1>10, <1>11, <1>12,
     <1>13, <1>14, <1>15 DEF Next

\* The types hold in every state, and with them the bound of the window: a
\* client never indexes m_frame_window beyond its WindowSize slots, and nothing
\* is written to an application that its socket cannot hold.
THEOREM TypeCorrect == Spec => []TypeOK
<1>1. Init => TypeOK
  BY InitType
<1>2. TypeOK /\ [Next]_vars => TypeOK'
  BY NextType
<1> QED BY <1>1, <1>2, PTL DEF Spec

(***************************************************************************)
(* Entry points that do not touch the stream: requests, answers, probes.   *)
(***************************************************************************)
SameNumbers(h, g) ==
  /\ g.m_frame_window = h.m_frame_window /\ g.m_sequence_base = h.m_sequence_base
  /\ g.m_total_data_loaded = h.m_total_data_loaded
  /\ g.m_msg_buffer = h.m_msg_buffer /\ g.m_current_ack = h.m_current_ack
  /\ g.m_total_data_received = h.m_total_data_received

SameStream(s, t) == t.ask = s.ask /\ t.in = s.in /\ t.delivered = s.delivered

Control(out) == \A i \in 1..Len(out) : out[i].type \in {"request", "reply"}

Untouched(h, s, r) ==
  /\ SameNumbers(h, r.handler) /\ r.handler.m_type \in {h.m_type, s.ask.kind}
  /\ SameStream(s, r.sock)
  /\ Control(r.out)

\* A request or reply carries no stream.
LEMMA ControlSeq ==
  ASSUME NEW h, NEW type \in {"request", "reply"}
  PROVE  Control(<<Frame(type, h, 0, <<>>)>>) /\ Control(<<>>)
BY DEF Control, Frame

\* Answering a request leaves the stream alone.
LEMMA ReplyUntouched ==
  ASSUME NEW h \in HandlerType(Chunk), NEW s \in SockType(Chunk), NEW reply, NEW stage
  PROVE  LET r == Reply(h, s, reply, stage)
         IN  SameNumbers(h, r.handler) /\ r.handler.m_type = h.m_type /\ SameStream(s, r.sock)
BY DEF Reply, SameNumbers, SameStream, HandlerType, HandlerRecord, SockType

\* Sending an answer to the application leaves the stream alone.
LEMMA AnswerUntouched ==
  ASSUME NEW h \in HandlerType(Chunk), NEW s \in SockType(Chunk)
  PROVE  /\ Untouched(h, s, Refuse(h, s))
         /\ Untouched(h, s, replyTimeout(h, s))
         /\ Untouched(h, s, acceptReply(h, s))
         /\ Untouched(h, s, Result(h, s, <<>>))
<1>1. Control(<<>>)
  BY ControlSeq
<1>2. \A reply, stage :
        LET r == Reply(h, s, reply, stage)
        IN  SameNumbers(h, r.handler) /\ r.handler.m_type = h.m_type /\ SameStream(s, r.sock)
  BY ReplyUntouched
<1>3. SameNumbers(h, h) /\ SameStream(s, s)
  BY DEF SameNumbers, SameStream
<1> QED
  BY <1>1, <1>2, <1>3 DEF Untouched, Refuse, replyTimeout, acceptReply, Result

\* So does setting the timer.
LEMMA ArmedUntouched ==
  ASSUME NEW h \in HandlerType(Chunk), NEW s \in SockType(Chunk)
  PROVE  Untouched(h, s, Result([h EXCEPT !.m_timer = TRUE], s, <<>>))
<1> DEFINE armed == [h EXCEPT !.m_timer = TRUE]
<1>1. SameNumbers(h, armed) /\ armed.m_type = h.m_type /\ SameStream(s, s)
  BY DEF SameNumbers, SameStream, HandlerType, HandlerRecord
<1> QED BY <1>1, ControlSeq DEF Untouched, Result

\* Reading a request from the application leaves the stream alone.
LEMMA RequestUntouched ==
  ASSUME NEW h \in HandlerType(Chunk), NEW s \in SockType(Chunk), NEW used
  PROVE  Untouched(h, s, handleRequest(h, s, used))
<1> DEFINE r    == readRequest(h, s)
           port == getFreePort(used)
           conn == [r EXCEPT !.m_source_port = port, !.m_stage = "wait_reply",
                             !.m_timer = TRUE]
<1>1. r \in HandlerType(Chunk)
  BY DEF readRequest, HandlerType, HandlerRecord, SockType, Types
<1>2. SameNumbers(h, r) /\ r.m_type \in {h.m_type, s.ask.kind}
  BY DEF readRequest, SameNumbers, HandlerType, HandlerRecord
<1>3. r.m_type \in {h.m_type, s.ask.kind} /\ r.m_type \in Types
  BY <1>1, <1>2 DEF HandlerType, HandlerRecord
<1> HIDE DEF r, port
<1>6. SameNumbers(h, conn) /\ conn.m_type = r.m_type
  BY <1>1, <1>2 DEF SameNumbers, HandlerType, HandlerRecord
<1>7. SameStream(s, s) /\ Control(<<>>) /\ Control(<<Frame("request", conn, 0, <<>>)>>)
  BY ControlSeq DEF SameStream
<1>8. Untouched(h, s, Refuse(r, s))
  <2>1. Untouched(r, s, Refuse(r, s))
    BY <1>1, AnswerUntouched
  <2> QED BY <2>1, <1>2, <1>3 DEF Untouched, SameNumbers
<1>9. CASE s.request < RequestItems(r.m_type)
  <2> DEFINE g == [r EXCEPT !.m_stage = IF s.closed THEN "failure" ELSE r.m_stage]
  <2>1. handleRequest(h, s, used) = Result(g, s, <<>>)
    BY <1>1, <1>9 DEF handleRequest, r, RequestItems, SockType
  <2>2. SameNumbers(h, g) /\ g.m_type = r.m_type
    BY <1>1, <1>2 DEF SameNumbers, HandlerType, HandlerRecord
  <2> HIDE DEF g
  <2> QED BY <2>1, <2>2, <1>3, <1>7 DEF Untouched, Result
<1>10. CASE ~(s.request < RequestItems(r.m_type)) /\ r.m_type = "server"
  <2> DEFINE g == [r EXCEPT !.m_source_port = s.ask.port, !.m_stage = "listen"]
  <2>1. handleRequest(h, s, used) =
          IF isPortFree(s.ask.port, used) THEN Result(g, s, <<>>) ELSE Refuse(r, s)
    BY <1>10 DEF handleRequest, r, RequestItems, SockType
  <2>2. SameNumbers(h, g) /\ g.m_type = r.m_type
    BY <1>1, <1>2 DEF SameNumbers, HandlerType, HandlerRecord
  <2> HIDE DEF g
  <2> QED BY <2>1, <2>2, <1>3, <1>7, <1>8 DEF Untouched, Result
<1>11. CASE ~(s.request < RequestItems(r.m_type)) /\ r.m_type = "client"
  <2>1. handleRequest(h, s, used) =
          IF port > 0 THEN Result(conn, s, <<Frame("request", conn, 0, <<>>)>>)
          ELSE Refuse(r, s)
    BY <1>11 DEF handleRequest, r, port, RequestItems, SockType
  <2> HIDE DEF conn
  <2> QED BY <2>1, <1>3, <1>6, <1>7, <1>8 DEF Untouched, Result
<1>12. r.m_type = "null" => s.request < RequestItems(r.m_type)
  BY DEF r, readRequest, RequestItems, SockType
<1> QED BY <1>3, <1>9, <1>10, <1>11, <1>12 DEF Types

\* Taking up a request or reply leaves the stream alone.
LEMMA AcceptUntouched ==
  ASSUME NEW h \in HandlerType(Chunk), NEW s \in SockType(Chunk),
         NEW from \in Nat, NEW f \in FrameType(Chunk)
  PROVE  Untouched(h, s, acceptRequest(h, s, from, f))
<1> DEFINE bound == [h EXCEPT !.m_dest_address = from, !.m_dest_port = f.source,
                              !.m_timer = TRUE]
           r     == Reply(bound, s, "success", "connected")
           out   == IF s.closed THEN <<>> ELSE <<Frame("reply", bound, 0, <<>>)>>
<1>1. f.source \in Nat
  BY HandlerAssumption DEF FrameType
<1>2. bound \in HandlerType(Chunk) /\ SameNumbers(h, bound) /\ bound.m_type = h.m_type
  BY <1>1 DEF SameNumbers, HandlerType, HandlerRecord
<1>3. Control(out)
  BY ControlSeq
<1>4. acceptRequest(h, s, from, f) = Result(r.handler, r.sock, out)
  BY DEF acceptRequest
<1> HIDE DEF bound, out
<1>5. SameNumbers(bound, r.handler) /\ r.handler.m_type = bound.m_type /\ SameStream(s, r.sock)
  BY <1>2, ReplyUntouched
<1> HIDE DEF r
<1> QED BY <1>2, <1>3, <1>4, <1>5 DEF Untouched, SameNumbers, Result

\* A probe leaves the stream alone.
LEMMA ProbeUntouched ==
  ASSUME NEW h \in HandlerType(Chunk), NEW s \in SockType(Chunk), NEW f
  PROVE  Untouched(h, s, receiveProbe(h, s, f))
<1> DEFINE g   == [h EXCEPT !.m_connected_reply = TRUE]
           out == IF f.type = "request" THEN <<Frame("reply", h, 0, <<>>)>> ELSE <<>>
<1>1. SameNumbers(h, g) /\ g.m_type = h.m_type
  BY DEF SameNumbers, HandlerType, HandlerRecord
<1>2. Control(out)
  BY ControlSeq
<1>3. receiveProbe(h, s, f) = Result(g, s, out)
  BY DEF receiveProbe
<1> HIDE DEF g, out
<1> QED BY <1>1, <1>2, <1>3 DEF Untouched, SameStream, Result

(***************************************************************************)
(* The client.                                                             *)
(***************************************************************************)
NewData(out, h) ==
  \A i \in 1..Len(out) : out[i].type = "data" =>
    /\ ChunkIn(out[i]) \in Dropped(h) + 1..Loaded(h)
    /\ Carries(out[i], ChunkIn(out[i]))

\* What an entry point does to the numbers of a client that has dropped d
\* chunks when it returns.
ClientStep(h, r, d) ==
  /\ ClientNumbers(r.handler, r.sock)
  /\ Dropped(r.handler) = d /\ Loaded(h) <= Loaded(r.handler)
  /\ NewData(r.out, r.handler)

\* The ranges of the numbers of a handler and its socket.
LEMMA HandlerFacts ==
  ASSUME NEW h \in HandlerType(Chunk)
  PROVE  /\ h.m_frame_window \in Seq(FrameType(Chunk))
         /\ Len(h.m_frame_window) \in 0..WindowSize
         /\ Loaded(h) \in Nat /\ Received(h) \in Nat /\ Dropped(h) \in Int
         /\ Loaded(h) = Dropped(h) + Len(h.m_frame_window)
         /\ h.m_sequence_base \in 0..SequenceSize - 1
         /\ h.m_current_ack \in 0..SequenceSize - 1
         /\ h.m_msg_buffer \in Seq(Chunk)
<1>1. /\ h.m_frame_window \in Seq(FrameType(Chunk)) /\ Len(h.m_frame_window) <= WindowSize
      /\ h.m_total_data_loaded \in Nat /\ h.m_total_data_received \in Nat
      /\ h.m_sequence_base \in 0..SequenceSize - 1
      /\ h.m_current_ack \in 0..SequenceSize - 1
      /\ h.m_msg_buffer \in Seq(Chunk)
  BY DEF HandlerType, HandlerRecord
<1>2. Len(h.m_frame_window) \in Nat
  BY <1>1
<1> QED BY <1>1, <1>2, HandlerAssumption DEF Loaded, Received, Dropped

\* Requests, replies and acknowledgements are no data.
LEMMA NoData ==
  ASSUME NEW out, NEW h, Control(out)
  PROVE  NewData(out, h)
BY DEF Control, NewData

\* A client that leaves the stream alone keeps its numbers.
LEMMA ClientUntouched ==
  ASSUME NEW h \in HandlerType(Chunk), NEW s, NEW r, Untouched(h, s, r),
         ClientNumbers(h, s)
  PROVE  ClientStep(h, r, Dropped(h))
<1>1. /\ Dropped(r.handler) = Dropped(h) /\ Loaded(r.handler) = Loaded(h)
      /\ r.handler.m_type # "server"
  BY DEF Untouched, SameNumbers, ClientNumbers, Loaded, Dropped
<1>2. ClientNumbers(r.handler, r.sock)
  BY <1>1 DEF Untouched, SameNumbers, SameStream, ClientNumbers
<1>3. NewData(r.out, r.handler)
  BY NoData DEF Untouched
<1>4. Loaded(h) <= Loaded(h)
  BY HandlerFacts
<1> QED BY <1>1, <1>2, <1>3, <1>4 DEF ClientStep

\* The frames of the window carry the chunks after Dropped.
LEMMA WindowData ==
  ASSUME NEW h \in HandlerType(Chunk), NEW s, ClientNumbers(h, s)
  PROVE  NewData(queueWindow(h), h)
<1> SUFFICES ASSUME NEW i \in 1..Len(h.m_frame_window)
             PROVE  /\ ChunkIn(h.m_frame_window[i]) \in Dropped(h) + 1..Loaded(h)
                    /\ Carries(h.m_frame_window[i], ChunkIn(h.m_frame_window[i]))
  BY DEF NewData, queueWindow
<1>1. Carries(h.m_frame_window[i], Dropped(h) + i)
  BY DEF ClientNumbers
<1>2. ChunkIn(h.m_frame_window[i]) = Dropped(h) + i
  BY <1>1 DEF Carries, ChunkIn
<1>3. Dropped(h) + i \in Dropped(h) + 1..Loaded(h)
  BY HandlerFacts
<1> QED BY <1>1, <1>2, <1>3

\* An element of a concatenation is an element of one of its parts.
LEMMA ConcatSeq ==
  ASSUME NEW T, NEW U, NEW a \in Seq(T), NEW b \in Seq(U)
  PROVE  /\ Len(a \o b) = Len(a) + Len(b)
         /\ \A i \in 1..Len(a) : (a \o b)[i] = a[i]
         /\ \A i \in Len(a) + 1..Len(a) + Len(b) : (a \o b)[i] = b[i - Len(a)]
OBVIOUS

\* Loading the window numbers the chunks in the order of the socket.
LEMMA LoadNumbers ==
  ASSUME NEW h \in HandlerType(Chunk), NEW s \in SockType(Chunk), ClientNumbers(h, s)
  PROVE  ClientStep(h, loadFrames(h, s), Dropped(h))
<1> DEFINE used  == Len(h.m_frame_window)
           n     == LowerOf(WindowSize - used, Len(s.in))
           seq(i) == (h.m_sequence_base + used + i - 1) % SequenceSize
           fresh == [i \in 1..n |-> Frame("data", h, seq(i), <<s.in[i]>>)]
           eof   == used + n < WindowSize /\ s.closed
           stage == IF eof /\ used + n = 0 THEN "failure" ELSE h.m_stage
           rest  == SubSeq(s.in, n + 1, Len(s.in))
           g == [h EXCEPT !.m_frame_window = @ \o fresh,
                          !.m_total_data_loaded = @ + n, !.m_stage = stage]
           t == [s EXCEPT !.in = rest]
           d == Dropped(h)
<1>1. loadFrames(h, s) = Result(g, t, <<>>)
  BY DEF loadFrames
<1>2. /\ g.m_frame_window = h.m_frame_window \o fresh
      /\ g.m_total_data_loaded = h.m_total_data_loaded + n
      /\ g.m_sequence_base = h.m_sequence_base /\ g.m_type = h.m_type
      /\ t.in = rest /\ t.ask = s.ask
  <2> HIDE DEF fresh, n, stage, rest
  <2> QED BY DEF HandlerType, HandlerRecord, SockType
<1> HIDE DEF g, t, stage
<1>3. /\ h.m_frame_window \in Seq(FrameType(Chunk)) /\ used \in 0..WindowSize
      /\ s.in \in Seq(Chunk) /\ Len(s.in) \in Nat
      /\ d \in Nat /\ Loaded(h) = d + used /\ Loaded(h) \in Nat
      /\ h.m_sequence_base = d % SequenceSize
  BY HandlerFacts DEF ClientNumbers, SockType
<1>4. n \in Nat /\ n <= Len(s.in)
  <2> HIDE DEF used, d
  <2> QED BY <1>3, HandlerAssumption DEF LowerOf
<1> HIDE DEF n
<1>5. fresh \in Seq({fresh[i] : i \in 1..n}) /\ Len(fresh) = n
  <2>1. fresh \in [1..n -> {fresh[i] : i \in 1..n}]
    OBVIOUS
  <2> HIDE DEF fresh
  <2> QED BY ONLY <1>4, <2>1, FunctionIsSeq
<1>6. /\ Len(g.m_frame_window) = used + n
      /\ \A i \in 1..used : g.m_frame_window[i] = h.m_frame_window[i]
      /\ \A i \in used + 1..used + n : g.m_frame_window[i] = fresh[i - used]
  <2> DEFINE w == h.m_frame_window
  <2> HIDE DEF fresh, w
  <2>1. /\ Len(w \o fresh) = Len(w) + n
        /\ \A i \in 1..Len(w) : (w \o fresh)[i] = w[i]
        /\ \A i \in Len(w) + 1..Len(w) + n : (w \o fresh)[i] = fresh[i - Len(w)]
    <3>1. w \in Seq(FrameType(Chunk))
      BY <1>3 DEF w
    <3> QED BY ONLY <3>1, <1>5, ConcatSeq
  <2> QED BY <2>1, <1>2 DEF w
<1>7. Loaded(g) = Loaded(h) + n /\ Dropped(g) = d
  <2> HIDE DEF used, d, fresh
  <2> QED BY <1>2, <1>3, <1>4, <1>6 DEF Loaded, Dropped
<1>8. ASSUME NEW i \in 1..used + n
      PROVE  Carries(g.m_frame_window[i], d + i)
  <2>1. CASE i <= used
    <3>1. i \in 1..used
      BY <2>1
    <3> QED BY <3>1, <1>6 DEF ClientNumbers
  <2>2. CASE ~(i <= used)
    <3> DEFINE j == i - used
    <3>1. j \in 1..n /\ i \in used + 1..used + n /\ used + j = i
      BY <2>2, <1>3, <1>4
    <3>2. g.m_frame_window[i] = Frame("data", h, seq(j), <<s.in[j]>>)
      BY <3>1, <1>6
    <3>3. s.in[j] = d + i
      <4>1. j \in 1..Len(s.in)
        BY <3>1, <1>3, <1>4
      <4>2. s.in[j] = Loaded(h) + j
        BY <4>1 DEF ClientNumbers
      <4> QED BY <4>2, <3>1, <1>3
    <3>4. seq(j) = (d + i - 1) % SequenceSize
      <4>1. seq(j) = ((d % SequenceSize) + (i - 1)) % SequenceSize
        <5>1. h.m_sequence_base + used + j - 1 = h.m_sequence_base + (i - 1)
          BY <3>1, HandlerFacts
        <5> QED BY <5>1, <1>3
      <4>2. d + (i - 1) = d + i - 1 /\ i - 1 \in Int /\ d \in Int
        BY <1>3
      <4>3. SequenceSize \in Nat \ {0}
        BY HandlerAssumption
      <4> QED BY ONLY <4>1, <4>2, <4>3, ModAdd
    <3> HIDE DEF seq, j, fresh, rest, d, used
    <3>5. /\ g.m_frame_window[i].type = "data" /\ g.m_frame_window[i].msg = <<s.in[j]>>
          /\ g.m_frame_window[i].seq = seq(j)
      BY ONLY <3>2 DEF Frame
    <3>6. <<s.in[j]>> = <<d + i>>
      BY ONLY <3>3
    <3>7. d \in Int /\ i \in Int
      BY <1>3
    <3>8. g.m_frame_window[i].seq = ((d + i) - 1) % SequenceSize
      BY ONLY <3>4, <3>5, <3>7
    <3> QED BY ONLY <3>5, <3>6, <3>8 DEF Carries
  <2> QED BY <2>1, <2>2
<1>9. ASSUME NEW i \in 1..Len(rest)
      PROVE  rest[i] = Loaded(g) + i
  <2>1. rest[i] = s.in[n + i] /\ n + i \in 1..Len(s.in)
    BY <1>3, <1>4
  <2>2. s.in[n + i] = Loaded(h) + (n + i)
    BY <2>1 DEF ClientNumbers
  <2> QED BY <2>1, <2>2, <1>3, <1>4, <1>7
<1>10. ClientNumbers(g, t)
  BY <1>2, <1>3, <1>6, <1>7, <1>8, <1>9 DEF ClientNumbers
<1>11. NewData(<<>>, g)
  BY DEF NewData
<1> QED BY <1>1, <1>3, <1>4, <1>7, <1>10, <1>11 DEF ClientStep, Result

\* A socket event of the client keeps its numbers and drops nothing.
LEMMA ClientSock ==
  ASSUME NEW h \in HandlerType(Chunk), NEW s \in SockType(Chunk), NEW used,
         ClientNumbers(h, s)
  PROVE  ClientStep(h, handleSock(h, s, used), Dropped(h))
<1>1. ClientStep(h, handleRequest(h, s, used), Dropped(h))
  BY RequestUntouched, ClientUntouched
<1>2. ClientStep(h, Result(h, s, <<>>), Dropped(h))
  BY AnswerUntouched, ClientUntouched
<1>3. ClientStep(h, loadFrames(h, s), Dropped(h))
  BY LoadNumbers
<1>4. h.m_type # "server"
  BY DEF ClientNumbers
<1> QED BY <1>1, <1>2, <1>3, <1>4 DEF handleSock

\* Maintaining the client keeps its numbers and drops nothing.
LEMMA ClientMaintains ==
  ASSUME NEW h \in HandlerType(Chunk), NEW s \in SockType(Chunk), NEW used,
         ClientNumbers(h, s)
  PROVE  ClientStep(h, maintain(h, s, used), Dropped(h))
<1> DEFINE first == handleSock(h, s, used)
           g     == first.handler
           probe == Frame("request", h, 0, <<>>)
           gone  == [g EXCEPT !.m_stage = "failure"]
           kept  == [g EXCEPT !.m_connected_reply = FALSE]
<1>1. ClientStep(h, first, Dropped(h)) /\ h.m_type # "server"
  BY ClientSock DEF ClientNumbers
<1>2. g \in HandlerType(Chunk) /\ first.sock \in SockType(Chunk)
  BY handleSockOK DEF ResultOK
<1> HIDE DEF first
<1>3. maintain(h, s, used) =
        IF g.m_stage = "sigpipe" THEN first
        ELSE IF ~h.m_connected_reply
        THEN Result(gone, first.sock, queueWindow(g))
        ELSE Result(kept, first.sock, Append(queueWindow(g), probe))
  BY <1>1 DEF maintain, first
<1>4. ClientNumbers(g, first.sock) /\ Dropped(g) = Dropped(h) /\ Loaded(h) <= Loaded(g)
  BY <1>1 DEF ClientStep
<1>5. NewData(queueWindow(g), g)
  BY <1>2, <1>4, WindowData
<1>6. NewData(Append(queueWindow(g), probe), g)
  <2>1. queueWindow(g) \in Seq(FrameType(Chunk)) /\ probe.type # "data"
    BY <1>2, queueWindowOK DEF Frame
  <2> HIDE DEF g, probe
  <2> QED BY <1>5, <2>1 DEF NewData
<1>7. ASSUME NEW k, SameNumbers(g, k), k.m_type = g.m_type, NEW out, NewData(out, g)
      PROVE  ClientStep(h, Result(k, first.sock, out), Dropped(h))
  <2>1. Dropped(k) = Dropped(g) /\ Loaded(k) = Loaded(g)
    BY <1>7 DEF SameNumbers, Loaded, Dropped
  <2>2. ClientNumbers(k, first.sock) /\ NewData(out, k)
    BY <1>4, <1>7, <2>1 DEF SameNumbers, ClientNumbers, NewData
  <2> QED BY <2>1, <2>2, <1>4 DEF ClientStep, Result
<1>8. /\ SameNumbers(g, gone) /\ gone.m_type = g.m_type
      /\ SameNumbers(g, kept) /\ kept.m_type = g.m_type
  BY <1>2 DEF SameNumbers, HandlerType, HandlerRecord
<1> HIDE DEF g, gone, kept, probe
<1> QED BY <1>1, <1>3, <1>5, <1>6, <1>7, <1>8

\* A timer tick of the client keeps its numbers and drops nothing.
LEMMA ClientTimerStep ==
  ASSUME NEW h \in HandlerType(Chunk), NEW s \in SockType(Chunk), NEW used,
         ClientNumbers(h, s)
  PROVE  ClientStep(h, handleTimer(h, s, used), Dropped(h))
<1>1. /\ ClientStep(h, replyTimeout(h, s), Dropped(h))
      /\ ClientStep(h, Result([h EXCEPT !.m_timer = TRUE], s, <<>>), Dropped(h))
  BY AnswerUntouched, ArmedUntouched, ClientUntouched
<1>2. ClientStep(h, maintain(h, s, used), Dropped(h))
  BY ClientMaintains
<1> QED BY <1>1, <1>2 DEF handleTimer

\* With a clean number the client finds how far an acknowledgement reaches.
LEMMA MovesFound ==
  ASSUME NEW b \in Nat, NEW a \in Nat, b <= a, a <= b + WindowSize,
         NEW base, NEW seq, base = b % SequenceSize, seq = a % SequenceSize
  PROVE  (IF seq < base THEN seq + SequenceSize ELSE seq) - base = a - b
<1> DEFINE S == SequenceSize
           d == a - b
<1>1. S \in Nat \ {0} /\ WindowSize \in Nat /\ WindowSize < S
  BY HandlerAssumption
<1>2. d \in 0..WindowSize /\ base \in 0..S - 1 /\ seq \in 0..S - 1
  BY <1>1, ModRange
<1>3. seq = (base + d) % S
  <2>1. b + d = a /\ d \in Int /\ b \in Int
    BY <1>2
  <2> HIDE DEF d
  <2> QED BY <1>1, <2>1, ModAdd
<1> HIDE DEF d
<1> DEFINE x == base + d
<1>4. x = base + d /\ x \in 0..2 * S - 1 /\ seq = x % S
  BY <1>1, <1>2, <1>3
<1> HIDE DEF x, S
<1>5. x % S = IF x < S THEN x ELSE x - S
  BY ONLY <1>1, <1>4, ModSmall
<1>6. (IF seq < base THEN seq + S ELSE seq) - base = d
  BY ONLY <1>1, <1>2, <1>4, <1>5
<1> QED BY <1>6 DEF d, S

\* A number with a garbage upper half never moves the window.
LEMMA GarbageIgnored ==
  ASSUME NEW base \in 0..SequenceSize - 1, NEW low \in 0..SequenceSize - 1,
         NEW u \in Int, u # 0, NEW seq, seq = low + 65536 * u
  PROVE  \/ (IF seq < base THEN seq + SequenceSize ELSE seq) - base <= 0
         \/ seq >= base + WindowSize /\ seq > SequenceSize - 1 /\ ~(seq < base)
<1>1. /\ WindowSize \in Nat \ {0} /\ SequenceSize \in Nat
      /\ SequenceSize > WindowSize /\ 2 * SequenceSize <= 65536
  BY HandlerAssumption
<1>2. CASE u >= 1
  BY ONLY <1>1, <1>2, u \in Int, base \in 0..SequenceSize - 1,
     low \in 0..SequenceSize - 1, seq = low + 65536 * u
<1>3. CASE u <= -1
  BY ONLY <1>1, <1>3, u \in Int, base \in 0..SequenceSize - 1,
     low \in 0..SequenceSize - 1, seq = low + 65536 * u
<1> QED BY <1>2, <1>3

\* The elements of a sequence that lost its first ones.
LEMMA DropSeq ==
  ASSUME NEW T, NEW w \in Seq(T), NEW m \in 0..Len(w)
  PROVE  LET v == SubSeq(w, m + 1, Len(w))
         IN  Len(v) = Len(w) - m /\ \A i \in 1..Len(v) : v[i] = w[m + i]
OBVIOUS

\* Moving the window drops that many chunks and keeps the other numbers.
LEMMA MoveNumbers ==
  ASSUME NEW h \in HandlerType(Chunk), NEW s, ClientNumbers(h, s),
         NEW moves \in 1..Len(h.m_frame_window)
  PROVE  LET g == moveWindow(h, moves)
         IN  /\ ClientNumbers(g, s)
             /\ Dropped(g) = Dropped(h) + moves /\ Loaded(g) = Loaded(h)
<1> DEFINE w == h.m_frame_window
           v == SubSeq(w, moves + 1, Len(w))
           b == (h.m_sequence_base + moves) % SequenceSize
           g == [h EXCEPT !.m_frame_window = v, !.m_sequence_base = b]
<1>1. moveWindow(h, moves) = g
  BY DEF moveWindow
<1>2. /\ w \in Seq(FrameType(Chunk)) /\ Len(w) \in Nat /\ Dropped(h) \in Nat
      /\ Loaded(h) = Dropped(h) + Len(w)
      /\ h.m_sequence_base = Dropped(h) % SequenceSize
  BY HandlerFacts DEF ClientNumbers
<1>3. Len(v) = Len(w) - moves /\ \A i \in 1..Len(v) : v[i] = w[moves + i]
  <2>1. moves \in 0..Len(w)
    BY <1>2
  <2> HIDE DEF w
  <2> QED BY <1>2, <2>1, DropSeq
<1> HIDE DEF w, v, b
<1>4. /\ g.m_frame_window = v /\ g.m_sequence_base = b
      /\ g.m_type = h.m_type /\ g.m_total_data_loaded = h.m_total_data_loaded
  BY DEF HandlerType, HandlerRecord
<1> HIDE DEF g
<1>5. Loaded(g) = Loaded(h)
  BY <1>4 DEF Loaded
<1>6. Dropped(g) = Dropped(h) + moves
  <2>1. Dropped(g) = Loaded(h) - Len(v)
    BY <1>4, <1>5 DEF Dropped
  <2>2. Len(v) \in Int /\ moves \in Int
    BY <1>2, <1>3 DEF w
  <2> QED BY ONLY <1>2, <1>3, <2>1, <2>2
<1>7. b = (Dropped(h) + moves) % SequenceSize
  <2>1. SequenceSize \in Nat \ {0} /\ Dropped(h) \in Int /\ moves \in Int
    BY <1>2, HandlerAssumption DEF w
  <2>2. b = ((Dropped(h) % SequenceSize) + moves) % SequenceSize
    BY <1>2 DEF b
  <2> QED BY ONLY <2>1, <2>2, ModAdd
<1>8. ASSUME NEW i \in 1..Len(v)
      PROVE  Carries(v[i], Dropped(g) + i)
  <2>1. moves + i \in 1..Len(w) /\ moves \in Int /\ i \in Int
    BY <1>2, <1>3 DEF w
  <2>2. Carries(w[moves + i], Dropped(h) + (moves + i))
    BY <2>1 DEF ClientNumbers, w
  <2>3. Dropped(h) + (moves + i) = Dropped(g) + i
    BY ONLY <1>2, <1>6, <2>1
  <2> QED BY <1>3, <2>2, <2>3
<1>9. Dropped(g) \in Nat
  BY <1>2, <1>6 DEF w
<1>10. ClientNumbers(g, s)
  BY <1>4, <1>5, <1>6, <1>7, <1>8, <1>9 DEF ClientNumbers
<1> QED BY <1>1, <1>5, <1>6, <1>10

\* An acknowledgement of a chunks moves the window to a, or not at all.
LEMMA SackNumbers ==
  ASSUME NEW h \in HandlerType(Chunk), NEW s \in SockType(Chunk), ClientNumbers(h, s),
         NEW a \in Dropped(h)..Loaded(h),
         NEW u \in Int, NEW seq, seq = (a % SequenceSize) + 65536 * u
  PROVE  \E d \in {Dropped(h), a} : ClientStep(h, receiveSack(h, s, seq), d)
<1> DEFINE base  == h.m_sequence_base
           moves == calcMoves(h, seq)
           moved == IF seq # base THEN moveWindow(h, moves) ELSE h
<1>1. /\ Dropped(h) \in Nat /\ a \in Nat /\ Dropped(h) <= a /\ a <= Dropped(h) + WindowSize
      /\ a - Dropped(h) \in 0..Len(h.m_frame_window)
      /\ base = Dropped(h) % SequenceSize /\ base \in 0..SequenceSize - 1
      /\ Loaded(h) \in Nat
  <2>1. Dropped(h) \in Nat /\ base = Dropped(h) % SequenceSize
    BY DEF ClientNumbers
  <2>2. /\ Len(h.m_frame_window) \in 0..WindowSize /\ base \in 0..SequenceSize - 1
        /\ Loaded(h) \in Nat /\ Loaded(h) = Dropped(h) + Len(h.m_frame_window)
    BY HandlerFacts
  <2>3. /\ a \in Nat /\ Dropped(h) <= a /\ a <= Dropped(h) + WindowSize
        /\ a - Dropped(h) \in 0..Len(h.m_frame_window)
    <3>1. a \in Dropped(h)..Loaded(h) /\ WindowSize \in Nat
      BY HandlerAssumption
    <3> QED BY ONLY <2>1, <2>2, <3>1
  <2> QED BY <2>1, <2>2, <2>3
<1>2. ClientStep(h, Result(h, s, <<>>), Dropped(h))
  BY AnswerUntouched, ClientUntouched
<1>3. ClientStep(h, Result(h, s, queueWindow(h)), Dropped(h))
  BY <1>1, WindowData DEF ClientStep, Result
<1>4. receiveSack(h, s, seq) =
        IF seqInsideWindow(h, seq) \/ seq = (base + WindowSize) % SequenceSize
        THEN Result(moved, s, queueWindow(moved)) ELSE Result(h, s, <<>>)
  BY DEF receiveSack
<1>5. CASE u = 0
  <2>1. seq = a % SequenceSize
    <3>1. a % SequenceSize \in Int
      BY <1>1, HandlerAssumption
    <3> QED BY <1>5, <3>1
  <2>2. moves = a - Dropped(h)
    BY <1>1, <2>1, MovesFound DEF calcMoves
  <2>3. CASE moves \in 1..Len(h.m_frame_window) /\ seq # base
    <3> HIDE DEF moves
    <3>1. /\ ClientNumbers(moved, s) /\ Dropped(moved) = a /\ Loaded(moved) = Loaded(h)
      BY <1>1, <2>2, <2>3, MoveNumbers
    <3>2. moved \in HandlerType(Chunk)
      BY <2>3, <1>1, <2>2, moveWindowOK
    <3> HIDE DEF moved
    <3>3. ClientStep(h, Result(moved, s, queueWindow(moved)), a)
      BY <3>1, <3>2, <1>1, WindowData DEF ClientStep, Result
    <3> QED BY <1>2, <1>4, <3>3
  <2>4. CASE ~(moves \in 1..Len(h.m_frame_window) /\ seq # base)
    <3>1. seq # base => ~(moves > 0)
      BY <2>2, <2>4, <1>1
    <3>2. moved = h
      BY <3>1 DEF moveWindow
    <3> QED BY <1>2, <1>3, <1>4, <3>2
  <2> QED BY <2>3, <2>4
<1>6. CASE u # 0
  <2> DEFINE low == a % SequenceSize
  <2>1. low \in 0..SequenceSize - 1
    BY <1>1, HandlerAssumption
  <2> HIDE DEF low
  <2>2. \/ moves <= 0
        \/ seq >= base + WindowSize /\ seq > SequenceSize - 1 /\ ~(seq < base)
    BY <1>1, <1>6, <2>1, GarbageIgnored DEF calcMoves, low
  <2>3. seq \in Int
    BY <2>1 DEF low
  <2>4. CASE moves <= 0
    <3>1. ~(moves > 0)
      <4>1. base \in Int /\ SequenceSize \in Int
        BY <1>1, HandlerAssumption
      <4> HIDE DEF base
      <4>2. moves \in Int
        BY ONLY <2>3, <4>1 DEF moves, calcMoves, base
      <4> HIDE DEF moves
      <4> QED BY ONLY <4>2, <2>4
    <3>2. moved = h
      BY <3>1 DEF moveWindow
    <3> QED BY <1>2, <1>3, <1>4, <3>2
  <2>5. CASE seq >= base + WindowSize /\ seq > SequenceSize - 1 /\ ~(seq < base)
    <3>1. ~seqInsideWindow(h, seq)
      BY <2>5, <2>3, <1>1, HandlerAssumption DEF seqInsideWindow
    <3>2. seq # (base + WindowSize) % SequenceSize
      <4>1. (base + WindowSize) % SequenceSize \in 0..SequenceSize - 1
        <5>1. base + WindowSize \in Int /\ SequenceSize \in Nat \ {0}
          BY <1>1, HandlerAssumption
        <5> QED BY ONLY <5>1, ModRange
      <4> QED BY <4>1, <2>5, <2>3, HandlerAssumption
    <3> QED BY <1>2, <1>4, <3>1, <3>2
  <2> QED BY <2>2, <2>4, <2>5
<1> QED BY <1>5, <1>6

\* A frame the client receives drops nothing, or, when it is an acknowledgement
\* of a count within the window, exactly the chunks before that count.
LEMMA ClientFrame ==
  ASSUME NEW h \in HandlerType(Chunk), NEW s \in SockType(Chunk), ClientNumbers(h, s),
         NEW from \in Nat, NEW f \in FrameType(Chunk), NEW u \in Int,
         NEW top \in Dropped(h)..Loaded(h),
         f.type = "sack" => \E a \in Dropped(h)..top : f.seq = a % SequenceSize
  PROVE  \E d : /\ ClientStep(h, receiveFrame(h, s, from, f, getSequenceNumber(f, u)), d)
                /\ \/ d = Dropped(h)
                   \/ /\ f.type = "sack" /\ d \in Dropped(h)..top
                      /\ f.seq = d % SequenceSize
<1> DEFINE seq == getSequenceNumber(f, u)
           r   == receiveFrame(h, s, from, f, seq)
<1>1. /\ ClientStep(h, acceptRequest(h, s, from, f), Dropped(h))
      /\ ClientStep(h, acceptReply(h, s), Dropped(h))
      /\ ClientStep(h, receiveProbe(h, s, f), Dropped(h))
      /\ ClientStep(h, Result(h, s, <<>>), Dropped(h))
  BY AcceptUntouched, AnswerUntouched, ProbeUntouched, ClientUntouched
<1>2. ASSUME f.type = "sack"
      PROVE  \E d \in Dropped(h)..top :
               /\ ClientStep(h, receiveSack(h, s, seq), d)
               /\ d = Dropped(h) \/ f.seq = d % SequenceSize
  <2>1. PICK a \in Dropped(h)..top : f.seq = a % SequenceSize
    BY <1>2
  <2>2. seq = (a % SequenceSize) + 65536 * u
    BY <2>1 DEF getSequenceNumber
  <2> HIDE DEF seq
  <2>3. \E d \in {Dropped(h), a} : ClientStep(h, receiveSack(h, s, seq), d)
    <3>1. a \in Dropped(h)..Loaded(h)
      BY HandlerFacts
    <3> QED BY <2>2, <3>1, SackNumbers
  <2>4. Dropped(h) \in Dropped(h)..top
    BY HandlerFacts
  <2> QED BY <2>1, <2>3, <2>4
<1>3. h.m_type # "server"
  BY DEF ClientNumbers
<1> HIDE DEF seq
<1>4. \/ ClientStep(h, r, Dropped(h))
      \/ f.type = "sack" /\ r = receiveSack(h, s, seq)
  BY <1>1, <1>3 DEF receiveFrame
<1> HIDE DEF r
<1>5. ClientStep(h, r, Dropped(h)) \/ \E d \in Dropped(h)..top :
         f.type = "sack" /\ ClientStep(h, r, d) /\ (d = Dropped(h) \/ f.seq = d % SequenceSize)
  BY <1>2, <1>4
<1> QED BY <1>5 DEF r, seq

(***************************************************************************)
(* The server.                                                             *)
(***************************************************************************)
\* What an entry point does to the numbers of a server that has taken k chunks
\* when it returns.
ServerStep(r, k) ==
  /\ ServerNumbers(r.handler, r.sock) /\ Received(r.handler) = k
  /\ \A i \in 1..Len(r.out) : r.out[i].type = "sack" => r.out[i].seq = k % SequenceSize

\* A server that leaves the stream alone keeps its numbers.
LEMMA ServerUntouched ==
  ASSUME NEW h, NEW s, NEW r, Untouched(h, s, r), ServerNumbers(h, s)
  PROVE  ServerStep(r, Received(h))
<1>1. /\ Received(r.handler) = Received(h) /\ r.handler.m_type # "client"
  BY DEF Untouched, SameNumbers, ServerNumbers, Received
<1>2. ServerNumbers(r.handler, r.sock)
  BY <1>1 DEF Untouched, SameNumbers, SameStream, ServerNumbers
<1>3. \A i \in 1..Len(r.out) : r.out[i].type # "sack"
  BY DEF Untouched, Control
<1> QED BY <1>1, <1>2, <1>3 DEF ServerStep

\* A sequence is what it begins with and the rest.
LEMMA SplitSeq ==
  ASSUME NEW T, NEW q \in Seq(T), NEW b \in Seq(T), NEW n \in 0..Len(b)
  PROVE  (q \o SubSeq(b, 1, n)) \o SubSeq(b, n + 1, Len(b)) = q \o b
<1> DEFINE u == SubSeq(b, 1, n)
           v == SubSeq(b, n + 1, Len(b))
<1>1. u \in Seq(T) /\ v \in Seq(T)
  BY SubSeqOK
<1>2. u \o v = b
  <2>1. /\ 1 \in 1..Len(b) + 1 /\ n \in 1 - 1..Len(b) /\ Len(b) \in n..Len(b)
    OBVIOUS
  <2>2. u \o v = SubSeq(b, 1, Len(b))
    BY ONLY <2>1, ConcatAdjacentSubSeq, b \in Seq(T) DEF u, v
  <2> QED BY <2>2, SubSeqFull
<1>3. (q \o u) \o v = q \o (u \o v)
  <2> HIDE DEF u, v
  <2> QED BY <1>1, ConcatAssociative
<1> QED BY <1>2, <1>3

\* Flushing moves chunks from the buffer to the socket, in order.
LEMMA FlushNumbers ==
  ASSUME NEW h \in HandlerType(Chunk), NEW s \in SockType(Chunk), ServerNumbers(h, s)
  PROVE  ServerStep(sendToSock(h, s), Received(h))
<1> DEFINE b    == h.m_msg_buffer
           n    == LowerOf(Len(b), SockCapacity - s.unread)
           rest == SubSeq(b, n + 1, Len(b))
           part == s.delivered \o SubSeq(b, 1, n)
           g == [h EXCEPT !.m_msg_buffer = rest]
           t == [s EXCEPT !.delivered = part, !.unread = @ + n]
           stage == IF b = <<>> THEN h.m_stage ELSE "sigpipe"
           dead == [h EXCEPT !.m_stage = stage]
<1>1. sendToSock(h, s) = IF s.closed THEN Result(dead, s, <<>>) ELSE Result(g, t, <<>>)
  BY DEF sendToSock
<1>2. /\ b \in Seq(Chunk) /\ s.delivered \in Seq(Chunk) /\ s.unread \in 0..SockCapacity
      /\ Len(b) \in Nat
  BY HandlerFacts DEF SockType
<1>3. n \in 0..Len(b)
  BY <1>2, HandlerAssumption DEF LowerOf
<1> HIDE DEF n
<1>4. part \o rest = s.delivered \o b
  <2> HIDE DEF b
  <2> QED BY <1>2, <1>3, SplitSeq
<1> HIDE DEF rest, part, stage
<1>5. /\ g.m_msg_buffer = rest /\ g.m_type = h.m_type /\ g.m_frame_window = h.m_frame_window
      /\ g.m_current_ack = h.m_current_ack
      /\ g.m_total_data_received = h.m_total_data_received
      /\ t.delivered = part /\ t.ask = s.ask
  BY DEF HandlerType, HandlerRecord, SockType
<1>6. /\ dead.m_msg_buffer = b /\ dead.m_type = h.m_type
      /\ dead.m_frame_window = h.m_frame_window
      /\ dead.m_current_ack = h.m_current_ack
      /\ dead.m_total_data_received = h.m_total_data_received
  BY DEF HandlerType, HandlerRecord
<1> HIDE DEF g, t, dead
<1>7. ServerNumbers(g, t) /\ Received(g) = Received(h)
  BY <1>4, <1>5 DEF ServerNumbers, Received
<1>8. ServerNumbers(dead, s) /\ Received(dead) = Received(h)
  BY <1>6 DEF ServerNumbers, Received
<1> QED BY <1>1, <1>7, <1>8 DEF ServerStep, Result

\* The acknowledgement names the count received.
LEMMA AckSeq ==
  ASSUME NEW h, NEW s, ServerNumbers(h, s)
  PROVE  \A i \in 1..Len(queueAck(h)) : queueAck(h)[i].seq = Received(h) % SequenceSize
BY DEF queueAck, Frame, ServerNumbers

\* A socket event of the server keeps its numbers.
LEMMA ServerSock ==
  ASSUME NEW h \in HandlerType(Chunk), NEW s \in SockType(Chunk), NEW used,
         ServerNumbers(h, s)
  PROVE  ServerStep(handleSock(h, s, used), Received(h))
<1>1. ServerStep(handleRequest(h, s, used), Received(h))
  BY RequestUntouched, ServerUntouched
<1>2. ServerStep(Result(h, s, <<>>), Received(h))
  BY AnswerUntouched, ServerUntouched
<1>3. ServerStep(sendToSock(h, s), Received(h))
  BY FlushNumbers
<1>4. h.m_type # "client"
  BY DEF ServerNumbers
<1> QED BY <1>1, <1>2, <1>3, <1>4 DEF handleSock

\* Maintaining the server keeps its numbers.
LEMMA ServerMaintains ==
  ASSUME NEW h \in HandlerType(Chunk), NEW s \in SockType(Chunk), NEW used,
         ServerNumbers(h, s)
  PROVE  ServerStep(maintain(h, s, used), Received(h))
<1> DEFINE first  == handleSock(h, s, used)
           mid    == first.handler
           resend == IF h.m_type = "server" THEN queueAck(mid) ELSE queueWindow(mid)
           final   == IF h.m_type = "server" THEN sendToSock(mid, first.sock) ELSE first
           probe  == Frame("request", h, 0, <<>>)
           g      == final.handler
           gone   == [g EXCEPT !.m_stage = "failure"]
           kept   == [g EXCEPT !.m_connected_reply = FALSE]
           k      == Received(h)
<1>1. ServerStep(first, k)
  BY ServerSock
<1>2. mid \in HandlerType(Chunk) /\ first.sock \in SockType(Chunk) /\ ResultOK(first, Chunk)
  BY handleSockOK DEF ResultOK
<1> HIDE DEF first, mid, k
<1>3. ServerNumbers(mid, first.sock) /\ Received(mid) = k
  BY <1>1 DEF ServerStep, mid
<1>4. ServerStep(final, k)
  BY <1>1, <1>2, <1>3, FlushNumbers
<1>5. ResultOK(final, Chunk)
  BY <1>2, sendToSockOK
<1> HIDE DEF final
<1>6. /\ resend \in Seq(FrameType(Chunk))
      /\ \A i \in 1..Len(resend) : resend[i].seq = k % SequenceSize
  <2>1. resend \in Seq(FrameType(Chunk))
    BY <1>2, queueAckOK, queueWindowOK
  <2>2. queueWindow(mid) = <<>>
    BY <1>3 DEF queueWindow, ServerNumbers
  <2>3. \A i \in 1..Len(queueAck(mid)) : queueAck(mid)[i].seq = k % SequenceSize
    BY <1>3, AckSeq
  <2> QED BY <2>1, <2>2, <2>3
<1>7. maintain(h, s, used) =
        IF g.m_stage = "sigpipe" THEN final
        ELSE IF ~h.m_connected_reply THEN Result(gone, final.sock, resend)
        ELSE Result(kept, final.sock, Append(resend, probe))
  BY DEF maintain, first, mid, final
<1>8. probe.type = "request"
  BY DEF Frame
<1> HIDE DEF resend, probe
<1>9. /\ \A i \in 1..Len(resend) : resend[i].type = "sack" =>
           resend[i].seq = k % SequenceSize
      /\ \A i \in 1..Len(Append(resend, probe)) : Append(resend, probe)[i].type = "sack" =>
           Append(resend, probe)[i].seq = k % SequenceSize
  BY <1>6, <1>8
<1>10. /\ SameNumbers(g, gone) /\ gone.m_type = g.m_type
       /\ SameNumbers(g, kept) /\ kept.m_type = g.m_type
  BY <1>5 DEF ResultOK, SameNumbers, HandlerType, HandlerRecord
<1> HIDE DEF gone, kept
<1>11. /\ ServerNumbers(gone, final.sock) /\ Received(gone) = k
       /\ ServerNumbers(kept, final.sock) /\ Received(kept) = k
  BY <1>4, <1>10 DEF ServerStep, SameNumbers, ServerNumbers, Received
<1> QED BY <1>4, <1>7, <1>9, <1>11 DEF ServerStep, Result, k

\* A timer tick of the server keeps its numbers.
LEMMA ServerTimerStep ==
  ASSUME NEW h \in HandlerType(Chunk), NEW s \in SockType(Chunk), NEW used,
         ServerNumbers(h, s)
  PROVE  ServerStep(handleTimer(h, s, used), Received(h))
<1>1. /\ ServerStep(replyTimeout(h, s), Received(h))
      /\ ServerStep(Result([h EXCEPT !.m_timer = TRUE], s, <<>>), Received(h))
  BY AnswerUntouched, ArmedUntouched, ServerUntouched
<1>2. ServerStep(maintain(h, s, used), Received(h))
  BY ServerMaintains
<1> QED BY <1>1, <1>2 DEF handleTimer

\* A prefix of the stream with its next chunk is the next prefix.
LEMMA PrefixGrows ==
  ASSUME NEW n \in Nat
  PROVE  Prefix(n) \o <<n + 1>> = Prefix(n + 1)
<1> DEFINE w == Prefix(n) \o <<n + 1>>
           v == Prefix(n + 1)
<1>1. Prefix(n) \in Seq(Nat) /\ Len(Prefix(n)) = n /\ \A i \in 1..n : Prefix(n)[i] = i
  BY DEF Prefix
<1>2. v \in Seq(Nat) /\ Len(v) = n + 1 /\ \A i \in 1..n + 1 : v[i] = i
  BY DEF Prefix
<1>3. w \in Seq(Nat) /\ Len(w) = n + 1 /\ \A i \in 1..n + 1 : w[i] = i
  BY <1>1
<1> HIDE DEF v, w
<1>4. \A i \in 1..Len(w) : w[i] = v[i]
  BY <1>2, <1>3
<1>5. w = v
  BY ONLY <1>2, <1>3, <1>4, SeqEqual
<1> QED BY <1>5 DEF v, w

\* Data is taken only if it is the next chunk: the number of the frame tells,
\* since the frame is less than a window away from the chunk waited for.
LEMMA TakeNumbers ==
  ASSUME NEW h \in HandlerType(Chunk), NEW s \in SockType(Chunk), ServerNumbers(h, s),
         NEW f \in FrameType(Chunk), NEW u \in Int, NEW k \in Nat \ {0}, Carries(f, k),
         Received(h) < k + WindowSize, k <= Received(h) + WindowSize,
         NEW seq, seq = f.seq + 65536 * u
  PROVE  \/ ServerStep(receiveData(h, s, f, seq), Received(h))
         \/ k = Received(h) + 1 /\ ServerStep(receiveData(h, s, f, seq), k)
<1> DEFINE R     == Received(h)
           ack   == (h.m_current_ack + 1) % SequenceSize
           buf   == h.m_msg_buffer \o f.msg
           total == h.m_total_data_received + Len(f.msg)
           g     == [h EXCEPT !.m_current_ack = ack, !.m_msg_buffer = buf,
                              !.m_total_data_received = total]
<1>1. receiveData(h, s, f, seq) =
        IF seq = h.m_current_ack THEN Result(g, s, <<>>) ELSE Result(h, s, queueAck(h))
  BY DEF receiveData
<1>2. ServerStep(Result(h, s, queueAck(h)), R)
  BY AckSeq DEF ServerStep, Result
<1>3. /\ R \in Nat /\ h.m_current_ack = R % SequenceSize
      /\ h.m_current_ack \in 0..SequenceSize - 1 /\ f.seq \in 0..SequenceSize - 1
      /\ f.seq = (k - 1) % SequenceSize /\ f.msg = <<k>>
  BY HandlerFacts DEF ServerNumbers, Carries, FrameType
<1>4. SequenceSize \in Nat \ {0} /\ WindowSize < SequenceSize /\ SequenceSize <= 65536
      /\ WindowSize \in Nat
  BY HandlerAssumption
<1>5. CASE seq # h.m_current_ack
  BY <1>1, <1>2, <1>5
<1>6. CASE seq = h.m_current_ack
  <2>1. f.seq = h.m_current_ack
    <3>1. u = 0
      BY ONLY <1>3, <1>4, <1>6, u \in Int, seq = f.seq + 65536 * u
    <3> QED BY ONLY <1>3, <1>6, <3>1, seq = f.seq + 65536 * u
  <2>2. k = R + 1
    <3> DEFINE m == k - 1
    <3>1. m \in Int /\ R \in Int /\ m < R + SequenceSize /\ R < m + SequenceSize
      BY <1>3, <1>4
    <3>2. m % SequenceSize = R % SequenceSize
      BY <1>3, <2>1
    <3>3. SequenceSize \in Nat \ {0}
      BY <1>4
    <3> HIDE DEF m, R
    <3>4. m = R
      BY ONLY <3>1, <3>2, <3>3, ModEq
    <3> QED BY <3>4, <3>1 DEF m
  <2> HIDE DEF R
  <2>3. ack = k % SequenceSize
    <3>1. ((R % SequenceSize) + 1) % SequenceSize = (R + 1) % SequenceSize
      <4>1. R \in Int /\ 1 \in Int /\ SequenceSize \in Nat \ {0}
        BY <1>3, <1>4
      <4> QED BY ONLY <4>1, ModAdd
    <3> QED BY <3>1, <1>3, <2>2
  <2>4. total = k
    <3>1. Len(f.msg) = 1 /\ h.m_total_data_received = R
      BY <1>3 DEF R, Received
    <3> QED BY <3>1, <2>2
  <2>5. s.delivered \o buf = Prefix(k)
    <3> DEFINE d == s.delivered
               b == h.m_msg_buffer
    <3>1. d \in Seq(Nat) /\ b \in Seq(Nat) /\ <<k>> \in Seq(Nat)
      BY HandlerFacts DEF SockType, Chunk
    <3>2. buf = b \o <<k>>
      BY <1>3
    <3>3. d \o b = Prefix(R)
      BY DEF ServerNumbers, R
    <3> HIDE DEF d, b, buf
    <3>4. d \o buf = (d \o b) \o <<k>>
      BY ONLY <3>1, <3>2, ConcatAssociative
    <3> QED BY <1>3, <2>2, <3>3, <3>4, PrefixGrows DEF d
  <2> HIDE DEF ack, buf, total
  <2>6. /\ g.m_current_ack = ack /\ g.m_msg_buffer = buf
        /\ g.m_total_data_received = total /\ g.m_type = h.m_type
        /\ g.m_frame_window = h.m_frame_window
    BY DEF HandlerType, HandlerRecord
  <2> HIDE DEF g
  <2>7. ServerNumbers(g, s) /\ Received(g) = k
    BY <2>3, <2>4, <2>5, <2>6 DEF ServerNumbers, Received
  <2>8. receiveData(h, s, f, seq) = Result(g, s, <<>>)
    BY <1>1, <1>6
  <2>9. ServerStep(Result(g, s, <<>>), k)
    BY <2>7 DEF ServerStep, Result
  <2> QED BY <2>2, <2>8, <2>9 DEF R
<1> QED BY <1>5, <1>6

\* A frame the server receives leaves its count, or is the data of the next
\* chunk and raises it by one.
LEMMA ServerFrame ==
  ASSUME NEW h \in HandlerType(Chunk), NEW s \in SockType(Chunk), ServerNumbers(h, s),
         NEW from \in Nat, NEW f \in FrameType(Chunk), NEW u \in Int,
         f.type = "data" =>
           /\ ChunkIn(f) \in Nat \ {0} /\ Carries(f, ChunkIn(f))
           /\ Received(h) < ChunkIn(f) + WindowSize
           /\ ChunkIn(f) <= Received(h) + WindowSize
  PROVE  LET r == receiveFrame(h, s, from, f, getSequenceNumber(f, u))
         IN  \/ ServerStep(r, Received(h))
             \/ /\ f.type = "data" /\ ChunkIn(f) = Received(h) + 1
                /\ ServerStep(r, Received(h) + 1)
<1> DEFINE seq == getSequenceNumber(f, u)
           r   == receiveFrame(h, s, from, f, seq)
<1>1. /\ ServerStep(acceptRequest(h, s, from, f), Received(h))
      /\ ServerStep(acceptReply(h, s), Received(h))
      /\ ServerStep(receiveProbe(h, s, f), Received(h))
      /\ ServerStep(Result(h, s, <<>>), Received(h))
  BY AcceptUntouched, AnswerUntouched, ProbeUntouched, ServerUntouched
<1>2. ASSUME f.type = "data"
      PROVE  \/ ServerStep(receiveData(h, s, f, seq), Received(h))
             \/ /\ ChunkIn(f) = Received(h) + 1
                /\ ServerStep(receiveData(h, s, f, seq), ChunkIn(f))
  <2>1. seq = f.seq + 65536 * u
    BY DEF getSequenceNumber
  <2> HIDE DEF seq
  <2> QED BY <1>2, <2>1, TakeNumbers
<1>3. h.m_type # "client"
  BY DEF ServerNumbers
<1> HIDE DEF seq
<1>4. \/ ServerStep(r, Received(h))
      \/ f.type = "data" /\ r = receiveData(h, s, f, seq)
  BY <1>1, <1>3 DEF receiveFrame
<1> HIDE DEF r
<1>5. \/ ServerStep(r, Received(h))
      \/ f.type = "data" /\ ChunkIn(f) = Received(h) + 1 /\ ServerStep(r, Received(h) + 1)
  BY <1>2, <1>4
<1> QED BY <1>5 DEF r, seq

(***************************************************************************)
(* The channels.                                                           *)
(***************************************************************************)
\* What follows the frames under way is a part of what was posted.
LEMMA PostElement ==
  ASSUME NEW T, NEW q \in Seq(T), NEW frames \in Seq(T)
  PROVE  LET p == Post(q, frames)
         IN  /\ p \in Seq(T)
             /\ \A i \in 1..Len(p) :
                  \/ i \in 1..Len(q) /\ p[i] = q[i]
                  \/ /\ i > Len(q) /\ i - Len(q) \in 1..Len(frames)
                     /\ p[i] = frames[i - Len(q)]
<1> DEFINE w == q \o frames
           n == LowerOf(Len(q) + Len(frames), MaxChannel)
           p == Post(q, frames)
<1>1. /\ w \in Seq(T) /\ Len(w) = Len(q) + Len(frames)
      /\ Len(q) \in Nat /\ Len(frames) \in Nat
      /\ \A i \in 1..Len(q) : w[i] = q[i]
      /\ \A i \in Len(q) + 1..Len(q) + Len(frames) : w[i] = frames[i - Len(q)]
  OBVIOUS
<1>2. n \in Nat /\ n <= Len(w)
  BY <1>1, ConnectionAssumption DEF LowerOf
<1> HIDE DEF w, n
<1>3. p = SubSeq(w, 1, n)
  BY DEF Post, w, n
<1>4. p \in Seq(T) /\ Len(p) = n /\ \A i \in 1..n : p[i] = w[i]
  BY <1>1, <1>2, <1>3
<1> HIDE DEF p
<1>5. ASSUME NEW i \in 1..Len(p)
      PROVE  \/ i \in 1..Len(q) /\ p[i] = q[i]
             \/ /\ i > Len(q) /\ i - Len(q) \in 1..Len(frames)
                /\ p[i] = frames[i - Len(q)]
  <2>1. i \in 1..n /\ p[i] = w[i]
    BY <1>4
  <2>2. CASE i <= Len(q)
    BY <1>1, <2>1, <2>2
  <2>3. CASE ~(i <= Len(q))
    <3>1. i \in Len(q) + 1..Len(q) + Len(frames) /\ i > Len(q)
      BY <1>1, <1>2, <2>1, <2>3
    <3>2. w[i] = frames[i - Len(q)] /\ i - Len(q) \in 1..Len(frames)
      BY <1>1, <3>1
    <3> QED BY <2>1, <3>1, <3>2
  <2> QED BY <2>2, <2>3
<1> QED BY <1>4, <1>5 DEF p

\* The elements of the tail of a sequence.
LEMMA TailElement ==
  ASSUME NEW T, NEW q \in Seq(T), q # <<>>
  PROVE  /\ Tail(q) \in Seq(T) /\ Head(q) = q[1] /\ 1 \in 1..Len(q)
         /\ \A i \in 1..Len(Tail(q)) : i + 1 \in 1..Len(q) /\ Tail(q)[i] = q[i + 1]
OBVIOUS

\* The window queued behind frames that were loaded before.
LEMMA PostData ==
  ASSUME NEW q \in Seq(FrameType(Chunk)), NEW received \in Nat,
         NEW loaded \in Nat, DataNumbers(q, received, loaded),
         NEW h \in HandlerType(Chunk), Dropped(h) \in Nat,
         Dropped(h) <= received, received <= Loaded(h), loaded <= Loaded(h),
         NEW out \in Seq(FrameType(Chunk)), NewData(out, h)
  PROVE  DataNumbers(Post(q, out), received, Loaded(h))
<1> DEFINE p == Post(q, out)
           New(f) == /\ f.type = "data" => ChunkIn(f) \in Dropped(h) + 1..Loaded(h)
                     /\ f.type = "data" => Carries(f, ChunkIn(f))
           Old(f) == /\ f.type = "data" => ChunkIn(f) \in 1..loaded
                     /\ f.type = "data" => Carries(f, ChunkIn(f))
                     /\ f.type = "data" => received < ChunkIn(f) + WindowSize
<1>1. /\ WindowSize \in Nat \ {0} /\ Loaded(h) \in Nat
      /\ Loaded(h) <= Dropped(h) + WindowSize
  BY HandlerFacts, HandlerAssumption
<1>2. \A i \in 1..Len(q) : Old(q[i])
  BY DEF DataNumbers
<1>3. \A i \in 1..Len(out) : New(out[i])
  BY DEF NewData
<1>4. \A i \in 1..Len(p) :
        \/ i \in 1..Len(q) /\ p[i] = q[i] /\ Old(p[i])
        \/ i > Len(q) /\ New(p[i])
  BY <1>2, <1>3, PostElement
<1> HIDE DEF p
<1>5. ASSUME NEW i \in 1..Len(p), p[i].type = "data"
      PROVE  /\ ChunkIn(p[i]) \in 1..Loaded(h) /\ Carries(p[i], ChunkIn(p[i]))
             /\ received < ChunkIn(p[i]) + WindowSize
  <2> DEFINE c == ChunkIn(p[i])
  <2>1. CASE Old(p[i])
    <3>1. c \in 1..loaded
      BY <1>5, <2>1
    <3>2. c \in 1..Loaded(h)
      <4> HIDE DEF c
      <4> QED BY <1>1, <3>1
    <3> QED BY <1>5, <2>1, <3>2
  <2>2. CASE New(p[i])
    <3>1. c \in Dropped(h) + 1..Loaded(h)
      BY <1>5, <2>2
    <3>2. c \in 1..Loaded(h) /\ received < c + WindowSize
      <4> HIDE DEF c
      <4> QED BY <1>1, <3>1
    <3> QED BY <1>5, <2>2, <3>2
  <2> QED BY <1>4, <2>1, <2>2
<1>6. ASSUME NEW i \in 1..Len(p), NEW j \in 1..Len(p),
             i < j, p[i].type = "data", p[j].type = "data"
      PROVE  ChunkIn(p[i]) < ChunkIn(p[j]) + WindowSize
  <2>1. CASE j \in 1..Len(q) /\ p[j] = q[j]
    <3>1. i \in 1..Len(q) /\ p[i] = q[i]
      BY <1>4, <1>6, <2>1
    <3> QED BY <1>6, <2>1, <3>1 DEF DataNumbers
  <2>2. CASE New(p[j])
    <3> DEFINE c == ChunkIn(p[i])
               e == ChunkIn(p[j])
    <3>1. c \in 1..Loaded(h) /\ e \in Dropped(h) + 1..Loaded(h)
      BY <1>5, <1>6, <2>2
    <3> HIDE DEF c, e
    <3>2. c < e + WindowSize
      BY <1>1, <3>1
    <3> QED BY <3>2 DEF c, e
  <2> QED BY <1>4, <2>1, <2>2
<1>7. DataNumbers(p, received, Loaded(h))
  BY <1>5, <1>6 DEF DataNumbers
<1> QED BY <1>7 DEF p

\* Data behind the first frame of the channel stays as numbered; when the first
\* frame is the next chunk, also after the server has taken it.
LEMMA TailData ==
  ASSUME NEW q \in Seq(FrameType(Chunk)), q # <<>>, NEW received \in Nat,
         NEW loaded \in Nat, DataNumbers(q, received, loaded)
  PROVE  /\ DataNumbers(Tail(q), received, loaded)
         /\ Head(q).type = "data" /\ ChunkIn(Head(q)) = received + 1 =>
              DataNumbers(Tail(q), received + 1, loaded)
<1> DEFINE p == Tail(q)
<1>1. /\ Head(q) = q[1] /\ 1 \in 1..Len(q)
      /\ \A i \in 1..Len(p) : i + 1 \in 1..Len(q) /\ p[i] = q[i + 1]
  BY TailElement
<1> HIDE DEF p
<1>2. ASSUME NEW i \in 1..Len(p), p[i].type = "data"
      PROVE  /\ ChunkIn(p[i]) \in 1..loaded /\ Carries(p[i], ChunkIn(p[i]))
             /\ received < ChunkIn(p[i]) + WindowSize
  BY <1>1, <1>2 DEF DataNumbers
<1>3. ASSUME NEW i \in 1..Len(p), NEW j \in 1..Len(p),
             i < j, p[i].type = "data", p[j].type = "data"
      PROVE  ChunkIn(p[i]) < ChunkIn(p[j]) + WindowSize
  <2>1. i + 1 < j + 1 /\ i + 1 \in 1..Len(q) /\ j + 1 \in 1..Len(q)
    BY <1>1, <1>3
  <2> QED BY <1>1, <1>3, <2>1 DEF DataNumbers
<1>4. DataNumbers(p, received, loaded)
  BY <1>2, <1>3 DEF DataNumbers
<1>5. ASSUME Head(q).type = "data", ChunkIn(Head(q)) = received + 1
      PROVE  DataNumbers(p, received + 1, loaded)
  <2>1. ASSUME NEW i \in 1..Len(p), p[i].type = "data"
        PROVE  received + 1 < ChunkIn(p[i]) + WindowSize
    <3>1. 1 < i + 1 /\ i + 1 \in 1..Len(q) /\ q[i + 1].type = "data"
      BY <1>1, <2>1
    <3>2. ChunkIn(q[1]) < ChunkIn(q[i + 1]) + WindowSize
      BY <1>1, <1>5, <3>1 DEF DataNumbers
    <3> QED BY <1>1, <1>5, <3>2
  <2> QED BY <1>2, <1>3, <2>1 DEF DataNumbers
<1> QED BY <1>4, <1>5 DEF p

\* Positions less than a turn apart are told apart by their numbers.
LEMMA SamePosition ==
  ASSUME NEW dropped \in Nat, NEW top \in Nat, top <= dropped + WindowSize,
         NEW a \in dropped..top, NEW b \in dropped..top,
         a % SequenceSize = b % SequenceSize
  PROVE  a = b
<1>1. SequenceSize \in Nat \ {0} /\ WindowSize \in Nat /\ WindowSize < SequenceSize
  BY HandlerAssumption
<1>2. a \in Int /\ b \in Int /\ a < b + SequenceSize /\ b < a + SequenceSize
  BY <1>1
<1>3. SequenceSize \in Nat \ {0}
  BY <1>1
<1> QED BY ONLY <1>2, <1>3, ModEq, a % SequenceSize = b % SequenceSize

\* An acknowledgement queued behind older ones.
LEMMA PostAcks ==
  ASSUME NEW q \in Seq(FrameType(Chunk)), NEW dropped \in Nat, NEW received \in Nat,
         dropped <= received, NEW k \in Nat, received <= k, k <= dropped + WindowSize,
         AckNumbers(q, dropped, received),
         NEW out \in Seq(FrameType(Chunk)),
         \A i \in 1..Len(out) : out[i].type = "sack" => out[i].seq = k % SequenceSize
  PROVE  AckNumbers(Post(q, out), dropped, k)
<1> DEFINE p == Post(q, out)
           New(f) == f.type = "sack" => f.seq = k % SequenceSize
<1>1. \A i \in 1..Len(p) :
        \/ i \in 1..Len(q) /\ p[i] = q[i]
        \/ i > Len(q) /\ New(p[i])
  <2>1. \A i \in 1..Len(out) : New(out[i])
    OBVIOUS
  <2> HIDE DEF New
  <2> QED BY <2>1, PostElement
<1> HIDE DEF p
<1>2. dropped..received \subseteq dropped..k /\ k \in dropped..k
  OBVIOUS
<1>3. ASSUME NEW i \in 1..Len(p), p[i].type = "sack"
      PROVE  \E a \in dropped..k : p[i].seq = a % SequenceSize
  <2>1. CASE i \in 1..Len(q) /\ p[i] = q[i]
    BY <1>2, <1>3, <2>1 DEF AckNumbers
  <2>2. CASE New(p[i])
    BY <1>2, <1>3, <2>2
  <2> QED BY <1>1, <2>1, <2>2
<1>4. ASSUME NEW i \in 1..Len(p), NEW j \in 1..Len(p),
             i < j, p[i].type = "sack", p[j].type = "sack",
             NEW a \in dropped..k, NEW b \in dropped..k,
             p[i].seq = a % SequenceSize, p[j].seq = b % SequenceSize
      PROVE  a <= b
  <2>1. CASE j \in 1..Len(q) /\ p[j] = q[j]
    <3>1. i \in 1..Len(q) /\ p[i] = q[i]
      BY <1>1, <1>4, <2>1
    <3>2. PICK c \in dropped..received : p[i].seq = c % SequenceSize
      BY <1>4, <3>1 DEF AckNumbers
    <3>3. PICK e \in dropped..received : p[j].seq = e % SequenceSize
      BY <1>4, <2>1 DEF AckNumbers
    <3>4. c <= e
      BY <1>4, <2>1, <3>1, <3>2, <3>3 DEF AckNumbers
    <3>5. a = c /\ b = e
      BY <1>2, <1>4, <3>2, <3>3, SamePosition
    <3> QED BY <3>4, <3>5
  <2>2. CASE New(p[j])
    <3>1. b = k
      BY <1>2, <1>4, <2>2, SamePosition
    <3> QED BY <3>1
  <2> QED BY <1>1, <2>1, <2>2
<1>5. AckNumbers(p, dropped, k)
  BY <1>3, <1>4 DEF AckNumbers
<1> QED BY <1>5 DEF p

\* Acknowledgements behind the first frame stay as numbered; when the first frame
\* is one, also after the client has dropped the chunks it names.
LEMMA TailAcks ==
  ASSUME NEW q \in Seq(FrameType(Chunk)), q # <<>>, NEW dropped \in Nat,
         NEW received \in Nat, AckNumbers(q, dropped, received)
  PROVE  /\ AckNumbers(Tail(q), dropped, received)
         /\ \A d \in dropped..received :
              Head(q).type = "sack" /\ Head(q).seq = d % SequenceSize =>
                AckNumbers(Tail(q), d, received)
<1> DEFINE p == Tail(q)
<1>1. /\ Head(q) = q[1] /\ 1 \in 1..Len(q)
      /\ \A i \in 1..Len(p) : i + 1 \in 1..Len(q) /\ p[i] = q[i + 1]
  BY TailElement
<1> HIDE DEF p
<1>2. ASSUME NEW i \in 1..Len(p), p[i].type = "sack"
      PROVE  \E a \in dropped..received : p[i].seq = a % SequenceSize
  BY <1>1, <1>2 DEF AckNumbers
<1>3. ASSUME NEW i \in 1..Len(p), NEW j \in 1..Len(p),
             i < j, p[i].type = "sack", p[j].type = "sack",
             NEW a \in dropped..received, NEW b \in dropped..received,
             p[i].seq = a % SequenceSize, p[j].seq = b % SequenceSize
      PROVE  a <= b
  <2>1. i + 1 < j + 1 /\ i + 1 \in 1..Len(q) /\ j + 1 \in 1..Len(q)
    BY <1>1, <1>3
  <2>2. /\ q[i + 1].type = "sack" /\ q[i + 1].seq = a % SequenceSize
        /\ q[j + 1].type = "sack" /\ q[j + 1].seq = b % SequenceSize
    BY <1>1, <1>3
  <2> DEFINE x == i + 1
             y == j + 1
  <2>3. /\ x \in 1..Len(q) /\ y \in 1..Len(q) /\ x < y
        /\ q[x].type = "sack" /\ q[x].seq = a % SequenceSize
        /\ q[y].type = "sack" /\ q[y].seq = b % SequenceSize
    BY <2>1, <2>2
  <2> HIDE DEF x, y
  <2> QED BY <2>3 DEF AckNumbers
<1>4. AckNumbers(p, dropped, received)
  BY <1>2, <1>3 DEF AckNumbers
<1>5. ASSUME NEW d \in dropped..received,
             Head(q).type = "sack", Head(q).seq = d % SequenceSize
      PROVE  AckNumbers(p, d, received)
  <2>1. d..received \subseteq dropped..received
    OBVIOUS
  <2>2. ASSUME NEW i \in 1..Len(p), p[i].type = "sack"
        PROVE  \E a \in d..received : p[i].seq = a % SequenceSize
    <3>1. PICK a \in dropped..received : p[i].seq = a % SequenceSize
      BY <1>2, <2>2
    <3>2. 1 < i + 1 /\ i + 1 \in 1..Len(q) /\ p[i] = q[i + 1]
      BY <1>1
    <3>3. d <= a
      BY <1>1, <1>5, <2>2, <3>1, <3>2 DEF AckNumbers
    <3>4. a \in d..received
      BY <3>3
    <3> QED BY <3>1, <3>4
  <2> QED BY <1>3, <2>1, <2>2 DEF AckNumbers
<1> QED BY <1>4, <1>5 DEF p

(***************************************************************************)
(* The steps of a connection.                                              *)
(***************************************************************************)
LEMMA CountFacts ==
  ASSUME TypeOK, StreamNumbers
  PROVE  /\ Dropped(client) \in Nat /\ Received(server) \in Nat /\ Loaded(client) \in Nat
         /\ Dropped(client) <= Received(server) /\ Received(server) <= Loaded(client)
         /\ Loaded(client) <= Dropped(client) + WindowSize
         /\ WindowSize \in Nat
<1>1. client \in HandlerType(Chunk) /\ server \in HandlerType(Chunk)
  BY DEF TypeOK
<1>2. /\ Dropped(client) \in Nat /\ Dropped(client) <= Received(server)
      /\ Received(server) <= Loaded(client)
  BY DEF StreamNumbers, ClientNumbers
<1>3. /\ Received(server) \in Nat /\ Loaded(client) \in Nat
      /\ Loaded(client) = Dropped(client) + Len(client.m_frame_window)
      /\ Len(client.m_frame_window) \in 0..WindowSize
  BY <1>1, HandlerFacts
<1>4. WindowSize \in Nat
  BY HandlerAssumption
<1> QED BY ONLY <1>2, <1>3, <1>4

\* A step of the client that keeps its numbers keeps StreamNumbers.
LEMMA ClientDoesNumbers ==
  ASSUME TypeOK, StreamNumbers, NEW r, ResultOK(r, Chunk), ClientDoes(r),
         NEW d \in Dropped(client)..Received(server), ClientStep(client, r, d),
         AckNumbers(toClient', d, Received(server))
  PROVE  StreamNumbers'
<1>1. /\ client' = r.handler /\ capp' = r.sock /\ toServer' = Post(toServer, r.out)
      /\ server' = server /\ sapp' = sapp
  BY DEF ClientDoes
<1>2. /\ client' \in HandlerType(Chunk) /\ r.out \in Seq(FrameType(Chunk))
      /\ toServer \in Seq(FrameType(Chunk))
  BY <1>1 DEF ResultOK, TypeOK
<1>3. /\ ClientNumbers(client', capp') /\ Dropped(client') = d
      /\ Loaded(client) <= Loaded(client') /\ NewData(r.out, client')
  BY <1>1 DEF ClientStep
<1>4. /\ Received(server) \in Nat /\ Loaded(client) \in Nat /\ d \in Nat
      /\ d <= Received(server) /\ Received(server) <= Loaded(client)
      /\ Loaded(client') \in Nat
  BY <1>2, CountFacts, HandlerFacts
<1>5. Received(server) <= Loaded(client')
  BY <1>3, <1>4
<1>6. DataNumbers(toServer, Received(server), Loaded(client))
  BY DEF StreamNumbers
<1>7. DataNumbers(toServer', Received(server), Loaded(client'))
  BY <1>1, <1>2, <1>3, <1>4, <1>5, <1>6, PostData
<1> QED BY <1>1, <1>3, <1>4, <1>5, <1>7 DEF StreamNumbers

\* A step of the server that keeps its numbers keeps StreamNumbers.
LEMMA ServerDoesNumbers ==
  ASSUME TypeOK, StreamNumbers, NEW r, ResultOK(r, Chunk), ServerDoes(r),
         NEW k \in Received(server)..Loaded(client), ServerStep(r, k),
         DataNumbers(toServer', k, Loaded(client))
  PROVE  StreamNumbers'
<1>1. /\ server' = r.handler /\ sapp' = r.sock /\ toClient' = Post(toClient, r.out)
      /\ client' = client /\ capp' = capp
  BY DEF ServerDoes
<1>2. r.out \in Seq(FrameType(Chunk)) /\ toClient \in Seq(FrameType(Chunk))
  BY DEF ResultOK, TypeOK
<1>3. /\ ServerNumbers(server', sapp') /\ Received(server') = k
      /\ \A i \in 1..Len(r.out) : r.out[i].type = "sack" => r.out[i].seq = k % SequenceSize
  BY <1>1 DEF ServerStep
<1>4. /\ Dropped(client) \in Nat /\ Received(server) \in Nat /\ k \in Nat
      /\ Dropped(client) <= Received(server) /\ Received(server) <= k
      /\ k <= Loaded(client) /\ k <= Dropped(client) + WindowSize /\ Dropped(client) <= k
  BY CountFacts
<1>5. AckNumbers(toClient, Dropped(client), Received(server))
  BY DEF StreamNumbers
<1>6. AckNumbers(toClient', Dropped(client), k)
  BY <1>1, <1>2, <1>3, <1>4, <1>5, PostAcks
<1> QED BY <1>1, <1>3, <1>4, <1>6 DEF StreamNumbers

\* Nothing is loaded, received or on its way at the start.
LEMMA InitNumbers == Init => StreamNumbers
<1> SUFFICES ASSUME Init PROVE StreamNumbers
  OBVIOUS
<1>1. /\ 0 % SequenceSize = 0 /\ SequenceSize \in Nat \ {0}
  <2>1. SequenceSize \in Nat \ {0} /\ 0 \in 0..2 * SequenceSize - 1 /\ 0 < SequenceSize
    BY HandlerAssumption
  <2> QED BY ONLY <2>1, ModSmall
<1>2. Loaded(client) = 0 /\ Dropped(client) = 0 /\ Received(server) = 0
  BY DEF Init, NewHandler, Loaded, Dropped, Received
<1>3. ClientNumbers(client, capp)
  BY <1>1, <1>2 DEF Init, NewHandler, NewSock, ClientNumbers
<1>4. <<>> \o <<>> = Prefix(0)
  BY DEF Prefix
<1>5. ServerNumbers(server, sapp)
  BY <1>1, <1>2, <1>4 DEF Init, NewHandler, NewSock, ServerNumbers
<1>6. DataNumbers(<<>>, 0, 0) /\ AckNumbers(<<>>, 0, 0)
  BY DEF DataNumbers, AckNumbers
<1> QED BY <1>2, <1>3, <1>5, <1>6 DEF Init, StreamNumbers

\* A step that leaves the handlers, the chunks and the channels alone.
LEMMA SameStreamNumbers ==
  ASSUME StreamNumbers, UNCHANGED <<client, server, toServer, toClient>>,
         capp'.ask = capp.ask, capp'.in = capp.in,
         sapp'.ask = sapp.ask, sapp'.delivered = sapp.delivered
  PROVE  StreamNumbers'
BY DEF StreamNumbers, ClientNumbers, ServerNumbers

\* Taking the first frame off the channel to the server.
LEMMA TailToServer ==
  ASSUME TypeOK, StreamNumbers, toServer # <<>>
  PROVE  /\ DataNumbers(Tail(toServer), Received(server), Loaded(client))
         /\ Head(toServer).type = "data" /\ ChunkIn(Head(toServer)) = Received(server) + 1 =>
              DataNumbers(Tail(toServer), Received(server) + 1, Loaded(client))
         /\ Head(toServer) \in FrameType(Chunk)
         /\ Head(toServer).type = "data" =>
              /\ ChunkIn(Head(toServer)) \in 1..Loaded(client)
              /\ Carries(Head(toServer), ChunkIn(Head(toServer)))
              /\ Received(server) < ChunkIn(Head(toServer)) + WindowSize
<1>1. toServer \in Seq(FrameType(Chunk))
  BY DEF TypeOK
<1>2. DataNumbers(toServer, Received(server), Loaded(client))
  BY DEF StreamNumbers
<1>3. Head(toServer) = toServer[1] /\ 1 \in 1..Len(toServer)
      /\ Head(toServer) \in FrameType(Chunk)
  BY <1>1, TailElement
<1>4. Head(toServer).type = "data" =>
        /\ ChunkIn(Head(toServer)) \in 1..Loaded(client)
        /\ Carries(Head(toServer), ChunkIn(Head(toServer)))
        /\ Received(server) < ChunkIn(Head(toServer)) + WindowSize
  BY <1>2, <1>3 DEF DataNumbers
<1> QED BY <1>1, <1>2, <1>3, <1>4, CountFacts, TailData

\* Taking the first frame off the channel to the client.
LEMMA TailToClient ==
  ASSUME TypeOK, StreamNumbers, toClient # <<>>
  PROVE  /\ AckNumbers(Tail(toClient), Dropped(client), Received(server))
         /\ \A d \in Dropped(client)..Received(server) :
              Head(toClient).type = "sack" /\ Head(toClient).seq = d % SequenceSize =>
                AckNumbers(Tail(toClient), d, Received(server))
         /\ Head(toClient) \in FrameType(Chunk)
         /\ Head(toClient).type = "sack" =>
              \E a \in Dropped(client)..Received(server) :
                Head(toClient).seq = a % SequenceSize
<1>1. toClient \in Seq(FrameType(Chunk))
  BY DEF TypeOK
<1>2. AckNumbers(toClient, Dropped(client), Received(server))
  BY DEF StreamNumbers
<1>3. Head(toClient) = toClient[1] /\ 1 \in 1..Len(toClient)
      /\ Head(toClient) \in FrameType(Chunk)
  BY <1>1, TailElement
<1>4. Head(toClient).type = "sack" =>
        \E a \in Dropped(client)..Received(server) : Head(toClient).seq = a % SequenceSize
  BY <1>2, <1>3 DEF AckNumbers
<1> QED BY <1>1, <1>2, <1>3, <1>4, CountFacts, TailAcks

\* Receiving a frame at the client keeps StreamNumbers.
LEMMA ClientReceiveNumbers ==
  ASSUME TypeOK, StreamNumbers, ClientReceive
  PROVE  StreamNumbers'
<1> DEFINE f == Head(toClient)
<1>1. toClient # <<>> /\ toClient' = Tail(toClient)
  BY DEF ClientReceive
<1>2. AckNumbers(toClient', Dropped(client), Received(server)) /\ f \in FrameType(Chunk)
  BY <1>1, TailToClient
<1>3. CASE UNCHANGED <<client, server, capp, sapp, toServer, losses>>
  BY <1>2, <1>3 DEF StreamNumbers, ClientNumbers, ServerNumbers
<1>4. ASSUME NEW u \in UpperHalf,
             ClientDoes(receiveFrame(client, capp, ServerAddress, f, getSequenceNumber(f, u)))
      PROVE  StreamNumbers'
  <2> DEFINE r == receiveFrame(client, capp, ServerAddress, f, getSequenceNumber(f, u))
  <2>1. /\ client \in HandlerType(Chunk) /\ capp \in SockType(Chunk)
        /\ ServerAddress \in Nat /\ u \in Int /\ ClientNumbers(client, capp)
        /\ getSequenceNumber(f, u) \in Int
    BY <1>2, NumberOK, ConnectionAssumption DEF TypeOK, ServerAddress, StreamNumbers
  <2>2. ResultOK(r, Chunk)
    BY <1>2, <2>1, receiveFrameOK
  <2>3. Received(server) \in Dropped(client)..Loaded(client)
    BY CountFacts
  <2>4. f.type = "sack" => \E a \in Dropped(client)..Received(server) :
                              f.seq = a % SequenceSize
    BY <1>1, TailToClient
  <2>5. PICK d : /\ ClientStep(client, r, d)
                 /\ \/ d = Dropped(client)
                    \/ /\ f.type = "sack" /\ d \in Dropped(client)..Received(server)
                       /\ f.seq = d % SequenceSize
    <3> HIDE DEF f
    <3> QED BY <1>2, <2>1, <2>3, <2>4, ClientFrame
  <2>6. d \in Dropped(client)..Received(server)
    BY <2>5, CountFacts
  <2>7. AckNumbers(toClient', d, Received(server))
    BY <1>1, <1>2, <2>5, <2>6, TailToClient
  <2> HIDE DEF r
  <2>8. ClientDoes(r)
    BY <1>4 DEF r
  <2> QED BY <2>2, <2>5, <2>6, <2>7, <2>8, ClientDoesNumbers
<1> QED BY <1>3, <1>4 DEF ClientReceive

\* Receiving a frame at the server keeps StreamNumbers.
LEMMA ServerReceiveNumbers ==
  ASSUME TypeOK, StreamNumbers, ServerReceive
  PROVE  StreamNumbers'
<1> DEFINE f == Head(toServer)
<1>1. toServer # <<>> /\ toServer' = Tail(toServer)
  BY DEF ServerReceive
<1>2. /\ DataNumbers(toServer', Received(server), Loaded(client))
      /\ f \in FrameType(Chunk)
  BY <1>1, TailToServer
<1>3. CASE UNCHANGED <<client, server, capp, sapp, toClient, losses>>
  BY <1>2, <1>3 DEF StreamNumbers, ClientNumbers, ServerNumbers
<1>4. ASSUME NEW u \in UpperHalf,
             ServerDoes(receiveFrame(server, sapp, ClientAddress, f, getSequenceNumber(f, u)))
      PROVE  StreamNumbers'
  <2> DEFINE r == receiveFrame(server, sapp, ClientAddress, f, getSequenceNumber(f, u))
  <2>1. /\ server \in HandlerType(Chunk) /\ sapp \in SockType(Chunk)
        /\ ClientAddress \in Nat /\ u \in Int /\ ServerNumbers(server, sapp)
        /\ getSequenceNumber(f, u) \in Int
    BY <1>2, NumberOK, ConnectionAssumption DEF TypeOK, ClientAddress, StreamNumbers
  <2>2. ResultOK(r, Chunk)
    BY <1>2, <2>1, receiveFrameOK
  <2>3. f.type = "data" =>
          /\ ChunkIn(f) \in 1..Loaded(client) /\ Carries(f, ChunkIn(f))
          /\ Received(server) < ChunkIn(f) + WindowSize
    BY <1>1, TailToServer
  <2>4. f.type = "data" =>
          ChunkIn(f) \in Nat \ {0} /\ ChunkIn(f) <= Received(server) + WindowSize
    <3> SUFFICES ASSUME ChunkIn(f) \in 1..Loaded(client)
                 PROVE  ChunkIn(f) \in Nat \ {0}
                        /\ ChunkIn(f) <= Received(server) + WindowSize
      BY <2>3
    <3> DEFINE c == ChunkIn(f)
    <3> HIDE DEF c, f
    <3>1. c \in 1..Loaded(client)
      BY DEF c
    <3>2. c \in Nat \ {0} /\ c <= Received(server) + WindowSize
      BY <3>1, CountFacts
    <3> QED BY <3>2 DEF c
  <2>5. \/ ServerStep(r, Received(server))
        \/ /\ f.type = "data" /\ ChunkIn(f) = Received(server) + 1
           /\ ServerStep(r, Received(server) + 1)
    <3> HIDE DEF f
    <3> QED BY <1>2, <2>1, <2>3, <2>4, ServerFrame
  <2> HIDE DEF r
  <2>6. ServerDoes(r)
    BY <1>4 DEF r
  <2>7. CASE ServerStep(r, Received(server))
    <3>1. Received(server) \in Received(server)..Loaded(client)
      BY CountFacts
    <3> QED BY <1>2, <2>2, <2>6, <2>7, <3>1, ServerDoesNumbers
  <2>8. CASE /\ f.type = "data" /\ ChunkIn(f) = Received(server) + 1
             /\ ServerStep(r, Received(server) + 1)
    <3>1. Received(server) + 1 \in Received(server)..Loaded(client)
      BY <2>3, <2>8, CountFacts
    <3>2. DataNumbers(toServer', Received(server) + 1, Loaded(client))
      BY <1>1, <2>8, TailToServer
    <3> QED BY <2>2, <2>6, <2>8, <3>1, <3>2, ServerDoesNumbers
  <2> QED BY <2>5, <2>7, <2>8
<1> QED BY <1>3, <1>4 DEF ServerReceive

\* Every step keeps the numbers.
LEMMA NextNumbers == TypeOK /\ StreamNumbers /\ [Next]_vars => StreamNumbers'
<1> SUFFICES ASSUME TypeOK, StreamNumbers, [Next]_vars PROVE StreamNumbers'
  OBVIOUS
<1>1. /\ client \in HandlerType(Chunk) /\ server \in HandlerType(Chunk)
      /\ capp \in SockType(Chunk) /\ sapp \in SockType(Chunk)
      /\ ClientNumbers(client, capp) /\ ServerNumbers(server, sapp)
      /\ AckNumbers(toClient, Dropped(client), Received(server))
      /\ DataNumbers(toServer, Received(server), Loaded(client))
  BY DEF TypeOK, StreamNumbers
<1>2. /\ Dropped(client) \in Dropped(client)..Received(server)
      /\ Received(server) \in Received(server)..Loaded(client)
  BY CountFacts
<1>3. CASE ClientSockEvent
  <2> DEFINE s == [capp EXCEPT !.event = FALSE]
             r == handleSock(client, s, {client.m_source_port})
  <2>0. s \in SockType(Chunk) /\ s.in = capp.in /\ s.ask = capp.ask
    BY <1>1, Notified
  <2> HIDE DEF s, r
  <2>1. s \in SockType(Chunk) /\ ClientNumbers(client, s)
    BY <1>1, <2>0 DEF ClientNumbers
  <2> USE DEF r
  <2>2. ResultOK(r, Chunk) /\ ClientStep(client, r, Dropped(client))
    BY <1>1, <2>1, handleSockOK, ClientSock
  <2>3. ClientDoes(r) /\ toClient' = toClient
    BY <1>3 DEF ClientSockEvent, s
  <2> HIDE DEF r
  <2> QED BY <1>1, <1>2, <2>2, <2>3, ClientDoesNumbers
<1>4. CASE ServerSockEvent
  <2> DEFINE s == [sapp EXCEPT !.event = FALSE]
             r == handleSock(server, s, {server.m_source_port})
  <2>0. s \in SockType(Chunk) /\ s.delivered = sapp.delivered /\ s.ask = sapp.ask
    BY <1>1, Notified
  <2> HIDE DEF s, r
  <2>1. s \in SockType(Chunk) /\ ServerNumbers(server, s)
    BY <1>1, <2>0 DEF ServerNumbers
  <2> USE DEF r
  <2>2. ResultOK(r, Chunk) /\ ServerStep(r, Received(server))
    BY <1>1, <2>1, handleSockOK, ServerSock
  <2>3. ServerDoes(r) /\ toServer' = toServer
    BY <1>4 DEF ServerSockEvent, s
  <2> HIDE DEF r
  <2> QED BY <1>1, <1>2, <2>2, <2>3, ServerDoesNumbers
<1>5. CASE ClientTimer
  <2> DEFINE r == handleTimer(client, capp, {client.m_source_port})
  <2>1. ResultOK(r, Chunk) /\ ClientStep(client, r, Dropped(client))
    BY <1>1, handleTimerOK, ClientTimerStep
  <2>2. ClientDoes(r) /\ toClient' = toClient
    BY <1>5 DEF ClientTimer
  <2> HIDE DEF r
  <2> QED BY <1>1, <1>2, <2>1, <2>2, ClientDoesNumbers
<1>6. CASE ServerTimer
  <2> DEFINE r == handleTimer(server, sapp, {server.m_source_port})
  <2>1. ResultOK(r, Chunk) /\ ServerStep(r, Received(server))
    BY <1>1, handleTimerOK, ServerTimerStep
  <2>2. ServerDoes(r) /\ toServer' = toServer
    BY <1>6 DEF ServerTimer
  <2> HIDE DEF r
  <2> QED BY <1>1, <1>2, <2>1, <2>2, ServerDoesNumbers
<1>7. CASE ClientReceive
  BY <1>7, ClientReceiveNumbers
<1>8. CASE ServerReceive
  BY <1>8, ServerReceiveNumbers
<1>9. CASE ClientAppWrites
  <2>1. /\ capp' = [capp EXCEPT !.in = Append(@, Written + 1), !.event = TRUE]
        /\ UNCHANGED <<client, server, sapp, toServer, toClient>>
    BY <1>9 DEF ClientAppWrites
  <2>2. /\ capp.in \in Seq(Chunk) /\ Written = Loaded(client) + Len(capp.in)
        /\ Loaded(client) \in Nat /\ Len(capp.in) \in Nat
    BY <1>1, CountFacts DEF SockType, Written, Loaded
  <2> DEFINE q == Append(capp.in, Written + 1)
  <2>3. capp'.in = q /\ capp'.ask = capp.ask
    BY <1>1, <2>1 DEF SockType
  <2>4. ASSUME NEW i \in 1..Len(q)
        PROVE  q[i] = Loaded(client) + i
    <3>1. CASE i <= Len(capp.in)
      <4>1. i \in 1..Len(capp.in) /\ q[i] = capp.in[i]
        BY <2>2, <3>1
      <4> QED BY <1>1, <4>1 DEF ClientNumbers
    <3>2. CASE ~(i <= Len(capp.in))
      <4>1. i = Len(capp.in) + 1 /\ q[i] = Written + 1
        BY <2>2, <3>2
      <4> QED BY <2>2, <4>1
    <3> QED BY <3>1, <3>2
  <2> HIDE DEF q
  <2> QED BY <1>1, <2>1, <2>3, <2>4 DEF StreamNumbers, ClientNumbers
<1>10. CASE ClientAppRequests \/ ClientAppCloses
  <2>1. capp'.ask = capp.ask /\ capp'.in = capp.in
    BY <1>1, <1>10 DEF ClientAppRequests, ClientAppCloses, SockType
  <2> QED BY <1>10, <2>1, SameStreamNumbers DEF ClientAppRequests, ClientAppCloses
<1>11. CASE ServerAppRequests \/ ServerAppCloses \/ ServerAppReads
  <2>1. sapp'.ask = sapp.ask /\ sapp'.delivered = sapp.delivered
    BY <1>1, <1>11 DEF ServerAppRequests, ServerAppCloses, ServerAppReads, SockType
  <2> QED
    BY <1>11, <2>1, SameStreamNumbers DEF ServerAppRequests, ServerAppCloses, ServerAppReads
<1>12. CASE LoseToServer
  BY <1>12, TailToServer DEF LoseToServer, StreamNumbers
<1>13. CASE LoseToClient
  BY <1>13, TailToClient DEF LoseToClient, StreamNumbers
<1>14. CASE UNCHANGED vars
  BY <1>14, SameStreamNumbers DEF vars
<1> QED
  BY <1>3, <1>4, <1>5, <1>6, <1>7, <1>8, <1>9, <1>10, <1>11, <1>12, <1>13, <1>14 DEF Next

\* The invariant holds in every reachable state.
LEMMA NumbersCorrect == Spec => []Inv
<1>1. Init => Inv
  BY InitType, InitNumbers DEF Inv
<1>2. Inv /\ [Next]_vars => Inv'
  BY NextType, NextNumbers DEF Inv
<1> QED BY <1>1, <1>2, PTL DEF Spec

\* For every window and every larger sequence space, whatever is lost, repeated
\* or read with a garbage upper half: the listening application gets exactly
\* the beginning of what the connecting one wrote.
THEOREM StreamCorrect == Spec => []StreamIntact
<1>1. Inv => StreamIntact
  BY DEF Inv, StreamNumbers, ServerNumbers, StreamIntact, Received, Prefix
<1> QED BY <1>1, NumbersCorrect, PTL

\* For the same parameters: the client releases a chunk only when the server
\* has it.
THEOREM AcksCorrect == Spec => []AckNeverAhead
<1>1. Inv => AckNeverAhead
  BY DEF Inv, StreamNumbers, AckNeverAhead, Loaded, Dropped, Received
<1> QED BY <1>1, NumbersCorrect, PTL

\* For the same parameters: what the client's window and socket hold continues
\* what the server took, and every number in the handlers and on the way stands
\* for the right chunk.
THEOREM StreamNumbersCorrect == Spec => []StreamNumbers
<1>1. Inv => StreamNumbers
  BY DEF Inv
<1> QED BY <1>1, NumbersCorrect, PTL

(***************************************************************************)
(* A connection implements ReliableStream.  Beyond the invariant, a step   *)
(* needs its two ends: that a client never loses what was written before   *)
(* it is loaded, and that a server never takes back what it handed over.   *)
(***************************************************************************)
Kept(h, s, r) == Loaded(r.handler) + Len(r.sock.in) = Loaded(h) + Len(s.in)

\* Requests, answers and probes keep what was written and what was delivered.
LEMMA UntouchedKept ==
  ASSUME NEW h, NEW s, NEW r, Untouched(h, s, r)
  PROVE  Kept(h, s, r) /\ r.sock.delivered = s.delivered
BY DEF Untouched, SameNumbers, SameStream, Kept, Loaded

\* What loadFrames takes from the socket goes to the window.
LEMMA LoadKept ==
  ASSUME NEW h \in HandlerType(Chunk), NEW s \in SockType(Chunk)
  PROVE  Kept(h, s, loadFrames(h, s))
<1> DEFINE n == LowerOf(WindowSize - Len(h.m_frame_window), Len(s.in))
           r == loadFrames(h, s)
<1>1. r.handler.m_total_data_loaded = h.m_total_data_loaded + n
  BY DEF loadFrames, Result, HandlerType, HandlerRecord
<1>2. r.sock.in = SubSeq(s.in, n + 1, Len(s.in))
  BY DEF loadFrames, Result, SockType
<1>3. s.in \in Seq(Chunk) /\ n \in Nat /\ n <= Len(s.in)
  BY HandlerFacts, HandlerAssumption DEF SockType, LowerOf
<1>4. Loaded(h) \in Nat
  BY HandlerFacts
<1> HIDE DEF n, r
<1>5. Len(r.sock.in) = Len(s.in) - n
  BY <1>2, <1>3
<1> QED BY <1>1, <1>3, <1>4, <1>5 DEF Kept, Loaded, r

\* An acknowledgement moves the window, not what was loaded.
LEMMA SackKept ==
  ASSUME NEW h \in HandlerType(Chunk), NEW s, NEW seq
  PROVE  Kept(h, s, receiveSack(h, s, seq))
<1>1. \A moves : moveWindow(h, moves).m_total_data_loaded = h.m_total_data_loaded
  BY DEF moveWindow, HandlerType, HandlerRecord
<1> QED BY <1>1 DEF receiveSack, Result, Kept, Loaded

\* No entry point of a client loses a chunk that was written.
LEMMA ClientKept ==
  ASSUME NEW h \in HandlerType(Chunk), NEW s \in SockType(Chunk), NEW used,
         ClientNumbers(h, s)
  PROVE  /\ Kept(h, s, handleSock(h, s, used))
         /\ Kept(h, s, handleTimer(h, s, used))
         /\ \A seq : \A from \in Nat, f \in FrameType(Chunk) :
              Kept(h, s, receiveFrame(h, s, from, f, seq))
<1>1. h.m_type # "server"
  BY DEF ClientNumbers
<1>2. /\ Kept(h, s, Result(h, s, <<>>))
      /\ Kept(h, s, Result([h EXCEPT !.m_timer = TRUE], s, <<>>))
      /\ Kept(h, s, replyTimeout(h, s)) /\ Kept(h, s, acceptReply(h, s))
  BY AnswerUntouched, ArmedUntouched, UntouchedKept
<1>3. Kept(h, s, handleSock(h, s, used))
  <2>1. Kept(h, s, handleRequest(h, s, used))
    BY RequestUntouched, UntouchedKept
  <2> QED BY <1>1, <1>2, <2>1, LoadKept DEF handleSock
<1>4. Kept(h, s, maintain(h, s, used))
  <2> DEFINE r == handleSock(h, s, used)
             g == [r.handler EXCEPT !.m_stage = "failure"]
             k == [r.handler EXCEPT !.m_connected_reply = FALSE]
  <2>1. r.handler \in HandlerType(Chunk)
    BY handleSockOK DEF ResultOK
  <2> HIDE DEF r
  <2>2. Loaded(g) = Loaded(r.handler) /\ Loaded(k) = Loaded(r.handler)
    BY <2>1 DEF Loaded, HandlerType, HandlerRecord
  <2>3. /\ maintain(h, s, used).sock = r.sock
        /\ Loaded(maintain(h, s, used).handler) = Loaded(r.handler)
    <3> HIDE DEF g, k
    <3>1. \/ maintain(h, s, used) = r
          \/ \E out : maintain(h, s, used) = Result(g, r.sock, out)
          \/ \E out : maintain(h, s, used) = Result(k, r.sock, out)
      BY <1>1 DEF maintain, r, g, k
    <3> QED BY <2>2, <3>1 DEF Result
  <2> QED BY <1>3, <2>3 DEF Kept, r
<1>5. Kept(h, s, handleTimer(h, s, used))
  BY <1>2, <1>4 DEF handleTimer
<1>6. ASSUME NEW from \in Nat, NEW f \in FrameType(Chunk), NEW seq
      PROVE  Kept(h, s, receiveFrame(h, s, from, f, seq))
  <2>1. Kept(h, s, acceptRequest(h, s, from, f)) /\ Kept(h, s, receiveProbe(h, s, f))
    BY AcceptUntouched, ProbeUntouched, UntouchedKept
  <2> QED BY <1>1, <1>2, <2>1, SackKept DEF receiveFrame
<1> QED BY <1>3, <1>5, <1>6

\* A server adds to what it handed over; a frame hands nothing over.
LEMMA ServerDelivers ==
  ASSUME NEW h \in HandlerType(Chunk), NEW s \in SockType(Chunk), NEW used,
         ServerNumbers(h, s)
  PROVE  /\ Len(s.delivered) <= Len(handleSock(h, s, used).sock.delivered)
         /\ Len(s.delivered) <= Len(handleTimer(h, s, used).sock.delivered)
         /\ \A seq : \A from \in Nat, f \in FrameType(Chunk) :
              receiveFrame(h, s, from, f, seq).sock.delivered = s.delivered
<1> DEFINE More(t, r) == Len(t.delivered) <= Len(r.sock.delivered)
<1>1. h.m_type # "client"
  BY DEF ServerNumbers
<1>2. ASSUME NEW g \in HandlerType(Chunk), NEW t \in SockType(Chunk)
      PROVE  More(t, sendToSock(g, t))
  <2> DEFINE n    == LowerOf(Len(g.m_msg_buffer), SockCapacity - t.unread)
             part == SubSeq(g.m_msg_buffer, 1, n)
  <2>1. /\ t.delivered \in Seq(Chunk) /\ Len(t.delivered) \in Nat
        /\ g.m_msg_buffer \in Seq(Chunk) /\ n \in Nat /\ n <= Len(g.m_msg_buffer)
    <3>1. t.delivered \in Seq(Chunk) /\ t.unread \in 0..SockCapacity
      BY DEF SockType
    <3>2. g.m_msg_buffer \in Seq(Chunk) /\ Len(g.m_msg_buffer) \in Nat
      BY HandlerFacts
    <3> QED BY <3>1, <3>2, HandlerAssumption DEF LowerOf
  <2>2. \/ sendToSock(g, t).sock.delivered = t.delivered
        \/ sendToSock(g, t).sock.delivered = t.delivered \o part
    BY DEF sendToSock, Result, SockType
  <2> HIDE DEF n
  <2>3. part \in Seq(Chunk)
    BY <2>1
  <2> HIDE DEF part
  <2> QED BY <2>1, <2>2, <2>3
<1>3. Len(s.delivered) \in Nat
  BY DEF SockType
<1>4. \A r : r.sock.delivered = s.delivered => More(s, r)
  BY <1>3
<1>5. /\ Result(h, s, <<>>).sock.delivered = s.delivered
      /\ Result([h EXCEPT !.m_timer = TRUE], s, <<>>).sock.delivered = s.delivered
      /\ replyTimeout(h, s).sock.delivered = s.delivered
      /\ acceptReply(h, s).sock.delivered = s.delivered
      /\ handleRequest(h, s, used).sock.delivered = s.delivered
  BY AnswerUntouched, ArmedUntouched, RequestUntouched, UntouchedKept
<1>7. ASSUME NEW from \in Nat, NEW f \in FrameType(Chunk), NEW seq
      PROVE  receiveFrame(h, s, from, f, seq).sock.delivered = s.delivered
  <2>1. /\ acceptRequest(h, s, from, f).sock.delivered = s.delivered
        /\ receiveProbe(h, s, f).sock.delivered = s.delivered
    BY AcceptUntouched, ProbeUntouched, UntouchedKept
  <2>2. receiveData(h, s, f, seq).sock.delivered = s.delivered
    BY DEF receiveData, Result
  <2> QED BY <1>1, <1>5, <2>1, <2>2 DEF receiveFrame
<1>8. More(s, handleSock(h, s, used))
  BY <1>1, <1>2, <1>4, <1>5 DEF handleSock
<1>9. More(s, maintain(h, s, used))
  <2> DEFINE first == handleSock(h, s, used)
             final == IF h.m_type = "server" THEN sendToSock(first.handler, first.sock)
                      ELSE first
  <2>1. first.handler \in HandlerType(Chunk) /\ first.sock \in SockType(Chunk)
    BY handleSockOK DEF ResultOK
  <2>2. final.sock \in SockType(Chunk)
    BY <2>1, sendToSockOK DEF ResultOK
  <2> HIDE DEF first, final
  <2>3. /\ Len(first.sock.delivered) \in Nat /\ Len(final.sock.delivered) \in Nat
        /\ h.m_type # "server" => final = first
    <3>1. first.sock.delivered \in Seq(Chunk) /\ final.sock.delivered \in Seq(Chunk)
      BY ONLY <2>1, <2>2 DEF SockType
    <3> QED BY ONLY <3>1 DEF final
  <2>4. Len(first.sock.delivered) <= Len(final.sock.delivered)
    <3>1. CASE h.m_type = "server"
      BY <1>2, <2>1, <3>1 DEF final
    <3>2. CASE h.m_type # "server"
      BY ONLY <2>3, <3>2
    <3> QED BY <3>1, <3>2
  <2>5. Len(s.delivered) <= Len(first.sock.delivered)
    BY <1>8 DEF first
  <2>6. maintain(h, s, used).sock = final.sock
    BY DEF maintain, Result, first, final
  <2> QED BY <1>3, <2>3, <2>4, <2>5, <2>6
<1>10. More(s, handleTimer(h, s, used))
  BY <1>4, <1>5, <1>9 DEF handleTimer
<1> QED BY <1>7, <1>8, <1>10

\* The counts of the stream under the refinement mapping.
MappedCounts ==
  /\ sapp.delivered \o server.m_msg_buffer = Stream!Prefix(Received(server))
  /\ Dropped(client) = client.m_total_data_loaded - Len(client.m_frame_window)
  /\ Received(server) \in 0..Written /\ Written \in Nat
  /\ Dropped(client) \in 0..Received(server)
  /\ Len(sapp.delivered) \in 0..Received(server)

\* They are ordered as the stream has them.
LEMMA MappedFacts == Inv => MappedCounts
<1> SUFFICES ASSUME Inv PROVE MappedCounts
  OBVIOUS
<1>1. ServerNumbers(server, sapp) /\ TypeOK /\ StreamNumbers
  BY DEF Inv, StreamNumbers
<1>2. /\ Dropped(client) \in Nat /\ Received(server) \in Nat /\ Loaded(client) \in Nat
      /\ Dropped(client) <= Received(server) /\ Received(server) <= Loaded(client)
  BY <1>1, CountFacts
<1>3. Len(capp.in) \in Nat /\ Written = Loaded(client) + Len(capp.in)
  BY <1>1 DEF TypeOK, SockType, Written, Loaded
<1>4. sapp.delivered \o server.m_msg_buffer = Stream!Prefix(Received(server))
  BY <1>1 DEF ServerNumbers, Prefix, Stream!Prefix
<1>5. Len(sapp.delivered) \in 0..Received(server)
  <2> DEFINE a == sapp.delivered
             b == server.m_msg_buffer
  <2>1. a \in Seq(Chunk) /\ b \in Seq(Chunk)
    BY <1>1, HandlerFacts DEF TypeOK, SockType
  <2>2. a \o b = Prefix(Received(server))
    BY <1>1 DEF ServerNumbers
  <2>3. Len(Prefix(Received(server))) = Received(server)
    BY <1>2 DEF Prefix
  <2> HIDE DEF a, b
  <2>4. Len(a \o b) = Len(a) + Len(b) /\ Len(a) \in Nat /\ Len(b) \in Nat
    BY <2>1
  <2>5. Len(a) \in 0..Received(server)
    BY <1>2, <2>2, <2>3, <2>4
  <2> QED BY <2>5 DEF a
<1> QED BY <1>2, <1>3, <1>4, <1>5 DEF MappedCounts, Dropped, Loaded

\* What a step of a connection may do to those counts: write a chunk, take the
\* next one over, release or deliver some, or nothing.
Advances ==
  \/ /\ Written' = Written + 1 /\ Received(server)' = Received(server)
     /\ UNCHANGED <<Dropped(client), sapp.delivered>>
  \/ /\ Received(server)' = Received(server) + 1
     /\ UNCHANGED <<Written, Dropped(client), sapp.delivered>>
  \/ /\ Dropped(client) <= Dropped(client)'
     /\ UNCHANGED <<Written, Received(server), sapp.delivered>>
  \/ /\ Len(sapp.delivered) <= Len(sapp.delivered)'
     /\ UNCHANGED <<Written, Received(server), Dropped(client)>>

\* A step that advances so is a step of the stream, or none of it.
LEMMA AdvancesStream ==
  ASSUME Inv, Inv', Advances
  PROVE  [Stream!Next]_(Stream!vars)
<1> DEFINE W == Written
           A == sapp.delivered \o server.m_msg_buffer
           D == client.m_total_data_loaded - Len(client.m_frame_window)
           L == Len(sapp.delivered)
           R == Received(server)
<1>1. /\ A = Stream!Prefix(R) /\ D = Dropped(client) /\ W \in Nat
      /\ R \in 0..W /\ D \in 0..R /\ L \in 0..R
  BY MappedFacts DEF MappedCounts
<1>2. /\ A' = Stream!Prefix(R') /\ D' = Dropped(client)' /\ W' \in Nat
      /\ R' \in 0..W' /\ D' \in 0..R' /\ L' \in 0..R'
  <2>1. MappedCounts'
    BY MappedFacts, PTL
  <2> QED BY <2>1 DEF MappedCounts
<1>3. \/ W' = W + 1 /\ R' = R /\ D' = D /\ L' = L
      \/ R' = R + 1 /\ W' = W /\ D' = D /\ L' = L
      \/ D <= D' /\ W' = W /\ R' = R /\ L' = L
      \/ L <= L' /\ W' = W /\ R' = R /\ D' = D
  <2> HIDE DEF W, R
  <2> QED BY <1>1, <1>2 DEF Advances, W, R
<1>4. (W' = W /\ A' = A /\ D' = D /\ L' = L) => UNCHANGED Stream!vars
  BY DEF Stream!vars
<1> HIDE DEF W, A, D, L, R
<1>5. CASE W' = W + 1 /\ R' = R /\ D' = D /\ L' = L
  <2>1. A' = A
    BY <1>1, <1>2, <1>5
  <2>2. Stream!Write
    BY <1>5, <2>1 DEF Stream!Write, W, A, D, L
  <2> QED BY <2>2 DEF Stream!Next
<1>6. CASE R' = R + 1 /\ W' = W /\ D' = D /\ L' = L
  <2> DEFINE n == R + 1
  <2>1. n \in 1..W /\ n - 1 = R
    BY <1>1, <1>2, <1>6
  <2>2. A = Stream!Prefix(n - 1) /\ A' = Stream!Prefix(n)
    BY <1>1, <1>2, <1>6, <2>1
  <2> HIDE DEF n
  <2>3. Stream!Accept
    BY <1>6, <2>1, <2>2 DEF Stream!Accept, W, A, D, L
  <2> QED BY <2>3 DEF Stream!Next
<1>7. CASE D <= D' /\ W' = W /\ R' = R /\ L' = L
  <2>1. A' = A
    BY <1>1, <1>2, <1>7
  <2>2. CASE D' = D
    BY <1>4, <1>7, <2>1, <2>2
  <2>3. CASE D' # D
    <3>1. R \in 1..W /\ D' \in (D + 1)..R
      BY <1>1, <1>2, <1>7, <2>3
    <3>2. Stream!Forget
      BY <1>1, <1>7, <2>1, <3>1 DEF Stream!Forget, W, A, D, L
    <3> QED BY <3>2 DEF Stream!Next
  <2> QED BY <2>2, <2>3
<1>8. CASE L <= L' /\ W' = W /\ R' = R /\ D' = D
  <2>1. A' = A
    BY <1>1, <1>2, <1>8
  <2>2. CASE L' = L
    BY <1>4, <1>8, <2>1, <2>2
  <2>3. CASE L' # L
    <3>1. R \in 1..W /\ L' \in (L + 1)..R
      BY <1>1, <1>2, <1>8, <2>3
    <3>2. Stream!Deliver
      BY <1>1, <1>8, <2>1, <3>1 DEF Stream!Deliver, W, A, D, L
    <3> QED BY <3>2 DEF Stream!Next
  <2> QED BY <2>2, <2>3
<1> QED BY <1>3, <1>5, <1>6, <1>7, <1>8

\* A step of the client releases chunks or nothing.
LEMMA ClientAdvances ==
  ASSUME NEW r, ClientDoes(r), NEW d, ClientStep(client, r, d), Dropped(client) <= d,
         NEW s, s.in = capp.in, Kept(client, s, r)
  PROVE  Advances
<1>1. Written' = Written
  BY DEF ClientDoes, Kept, Written, Loaded
<1>2. Dropped(client)' = d /\ Received(server)' = Received(server)
  BY DEF ClientDoes, ClientStep, Dropped, Received, Loaded
<1> QED BY <1>1, <1>2 DEF ClientDoes, Advances

\* A step of the server takes a chunk over, delivers some, or does nothing.
LEMMA ServerAdvances ==
  ASSUME NEW r, ServerDoes(r),
         \/ /\ ServerStep(r, Received(server))
            /\ Len(sapp.delivered) <= Len(r.sock.delivered)
         \/ /\ ServerStep(r, Received(server) + 1)
            /\ r.sock.delivered = sapp.delivered
  PROVE  Advances
<1>1. Written' = Written /\ Dropped(client)' = Dropped(client)
  BY DEF ServerDoes, Written, Dropped, Loaded
<1>2. Received(server)' = Received(r.handler) /\ sapp' = r.sock
  BY DEF ServerDoes, Received
<1> QED BY <1>1, <1>2 DEF ServerStep, Advances

\* A step that leaves handlers and chunks alone.
LEMMA StutterAdvances ==
  ASSUME Inv, UNCHANGED <<client, server>>, Len(capp'.in) = Len(capp.in),
         sapp'.delivered = sapp.delivered
  PROVE  Advances
<1>1. Dropped(client) <= Dropped(client)
  BY CountFacts DEF Inv
<1> QED BY <1>1 DEF Advances, Written, Dropped, Received, Loaded

\* A frame received by the client.
LEMMA ClientReceiveAdvances ==
  ASSUME Inv, ClientReceive
  PROVE  Advances
<1> DEFINE f == Head(toClient)
<1>1. TypeOK /\ StreamNumbers /\ toClient # <<>>
  BY DEF Inv, ClientReceive
<1>2. CASE UNCHANGED <<client, server, capp, sapp, toServer, losses>>
  BY <1>2, StutterAdvances
<1>3. ASSUME NEW u \in UpperHalf,
             ClientDoes(receiveFrame(client, capp, ServerAddress, f, getSequenceNumber(f, u)))
      PROVE  Advances
  <2> DEFINE r == receiveFrame(client, capp, ServerAddress, f, getSequenceNumber(f, u))
  <2>1. /\ client \in HandlerType(Chunk) /\ capp \in SockType(Chunk)
        /\ ServerAddress \in Nat /\ u \in Int /\ ClientNumbers(client, capp)
        /\ f \in FrameType(Chunk)
    BY <1>1, TailToClient, ConnectionAssumption DEF TypeOK, ServerAddress, StreamNumbers
  <2>2. /\ Received(server) \in Dropped(client)..Loaded(client)
        /\ Dropped(client) <= Dropped(client)
    BY <1>1, CountFacts
  <2>3. f.type = "sack" => \E a \in Dropped(client)..Received(server) :
                              f.seq = a % SequenceSize
    BY <1>1, TailToClient
  <2> HIDE DEF f
  <2>4. PICK d : /\ ClientStep(client, r, d)
                 /\ d = Dropped(client) \/ d \in Dropped(client)..Received(server)
    BY <2>1, <2>2, <2>3, ClientFrame
  <2>5. Dropped(client) <= d
    BY <2>2, <2>4
  <2>6. Kept(client, capp, r)
    BY <2>1, ClientKept
  <2>7. ClientDoes(r)
    BY <1>3 DEF f
  <2> HIDE DEF r
  <2> QED BY <2>4, <2>5, <2>6, <2>7, ClientAdvances
<1> QED BY <1>2, <1>3 DEF ClientReceive

\* A frame received by the server.
LEMMA ServerReceiveAdvances ==
  ASSUME Inv, ServerReceive
  PROVE  Advances
<1> DEFINE f == Head(toServer)
<1>1. TypeOK /\ StreamNumbers /\ toServer # <<>>
  BY DEF Inv, ServerReceive
<1>2. CASE UNCHANGED <<client, server, capp, sapp, toClient, losses>>
  BY <1>2, StutterAdvances
<1>3. ASSUME NEW u \in UpperHalf,
             ServerDoes(receiveFrame(server, sapp, ClientAddress, f, getSequenceNumber(f, u)))
      PROVE  Advances
  <2> DEFINE r == receiveFrame(server, sapp, ClientAddress, f, getSequenceNumber(f, u))
  <2>1. /\ server \in HandlerType(Chunk) /\ sapp \in SockType(Chunk)
        /\ ClientAddress \in Nat /\ u \in Int /\ ServerNumbers(server, sapp)
        /\ f \in FrameType(Chunk) /\ Len(sapp.delivered) \in Nat
    BY <1>1, TailToServer, ConnectionAssumption
       DEF TypeOK, ClientAddress, StreamNumbers, SockType
  <2>2. f.type = "data" =>
          /\ ChunkIn(f) \in 1..Loaded(client) /\ Carries(f, ChunkIn(f))
          /\ Received(server) < ChunkIn(f) + WindowSize
    BY <1>1, TailToServer
  <2> HIDE DEF f
  <2>3. f.type = "data" =>
          ChunkIn(f) \in Nat \ {0} /\ ChunkIn(f) <= Received(server) + WindowSize
    <3> DEFINE c == ChunkIn(f)
    <3> HIDE DEF c
    <3>1. c \in 1..Loaded(client) =>
            c \in Nat \ {0} /\ c <= Received(server) + WindowSize
      BY <1>1, CountFacts
    <3> QED BY <2>2, <3>1 DEF c
  <2>4. ServerStep(r, Received(server)) \/ ServerStep(r, Received(server) + 1)
    BY <2>1, <2>2, <2>3, ServerFrame
  <2>5. r.sock.delivered = sapp.delivered
    BY <2>1, ServerDelivers
  <2>6. ServerDoes(r)
    BY <1>3 DEF f
  <2> HIDE DEF r
  <2> QED BY <2>1, <2>4, <2>5, <2>6, ServerAdvances
<1> QED BY <1>2, <1>3 DEF ServerReceive

\* Every step advances the stream, or leaves it.
LEMMA NextAdvances == Inv /\ [Next]_vars => Advances
<1> SUFFICES ASSUME Inv, [Next]_vars PROVE Advances
  OBVIOUS
<1>1. /\ TypeOK /\ StreamNumbers
      /\ client \in HandlerType(Chunk) /\ server \in HandlerType(Chunk)
      /\ capp \in SockType(Chunk) /\ sapp \in SockType(Chunk)
      /\ ClientNumbers(client, capp) /\ ServerNumbers(server, sapp)
  BY DEF Inv, TypeOK, StreamNumbers
<1>2. Dropped(client) <= Dropped(client)
  BY <1>1, CountFacts
<1>3. CASE ClientSockEvent
  <2> DEFINE s == [capp EXCEPT !.event = FALSE]
             r == handleSock(client, s, {client.m_source_port})
  <2>1. s \in SockType(Chunk) /\ s.in = capp.in /\ s.ask = capp.ask
    BY <1>1, Notified
  <2>2. ClientDoes(r)
    BY <1>3 DEF ClientSockEvent
  <2> HIDE DEF s
  <2>3. ClientNumbers(client, s)
    BY <1>1, <2>1 DEF ClientNumbers
  <2>4. ClientStep(client, r, Dropped(client)) /\ Kept(client, s, r)
    BY <1>1, <2>1, <2>3, ClientSock, ClientKept
  <2> HIDE DEF r
  <2> QED BY <1>2, <2>1, <2>2, <2>4, ClientAdvances
<1>4. CASE ServerSockEvent
  <2> DEFINE s == [sapp EXCEPT !.event = FALSE]
             r == handleSock(server, s, {server.m_source_port})
  <2>1. s \in SockType(Chunk) /\ s.delivered = sapp.delivered /\ s.ask = sapp.ask
    BY <1>1, Notified
  <2>2. ServerDoes(r)
    BY <1>4 DEF ServerSockEvent
  <2> HIDE DEF s
  <2>3. ServerNumbers(server, s)
    BY <1>1, <2>1 DEF ServerNumbers
  <2>4. /\ ServerStep(r, Received(server))
        /\ Len(sapp.delivered) <= Len(r.sock.delivered)
    BY <1>1, <2>1, <2>3, ServerSock, ServerDelivers
  <2> HIDE DEF r
  <2> QED BY <2>2, <2>4, ServerAdvances
<1>5. CASE ClientTimer
  <2> DEFINE r == handleTimer(client, capp, {client.m_source_port})
  <2>1. ClientDoes(r)
    BY <1>5 DEF ClientTimer
  <2>2. ClientStep(client, r, Dropped(client)) /\ Kept(client, capp, r)
    BY <1>1, ClientTimerStep, ClientKept
  <2> HIDE DEF r
  <2> QED BY <1>2, <2>1, <2>2, ClientAdvances
<1>6. CASE ServerTimer
  <2> DEFINE r == handleTimer(server, sapp, {server.m_source_port})
  <2>1. ServerDoes(r)
    BY <1>6 DEF ServerTimer
  <2>2. /\ ServerStep(r, Received(server))
        /\ Len(sapp.delivered) <= Len(r.sock.delivered)
    BY <1>1, ServerTimerStep, ServerDelivers
  <2> HIDE DEF r
  <2> QED BY <2>1, <2>2, ServerAdvances
<1>7. CASE ClientReceive
  BY <1>7, ClientReceiveAdvances
<1>8. CASE ServerReceive
  BY <1>8, ServerReceiveAdvances
<1>9. CASE ClientAppWrites
  <2>1. capp.in \in Seq(Chunk)
    BY <1>1 DEF SockType
  <2>2. /\ capp'.in = Append(capp.in, Written + 1)
        /\ UNCHANGED <<client, server, sapp>>
    BY <1>1, <1>9 DEF ClientAppWrites, SockType
  <2>3. Len(capp'.in) = Len(capp.in) + 1 /\ Len(capp.in) \in Nat
    BY <2>1, <2>2
  <2>4. Loaded(client) \in Nat
    BY <1>1, HandlerFacts
  <2>5. Written' = Written + 1
    BY <2>2, <2>3, <2>4 DEF Written, Loaded
  <2> QED BY <2>2, <2>5 DEF Advances, Dropped, Received, Loaded
<1>10. CASE ClientAppRequests \/ ClientAppCloses
  <2>1. capp'.in = capp.in
    BY <1>1, <1>10 DEF ClientAppRequests, ClientAppCloses, SockType
  <2> QED BY <1>10, <2>1, StutterAdvances DEF ClientAppRequests, ClientAppCloses
<1>11. CASE ServerAppRequests \/ ServerAppCloses \/ ServerAppReads
  <2>1. sapp'.delivered = sapp.delivered
    BY <1>1, <1>11 DEF ServerAppRequests, ServerAppCloses, ServerAppReads, SockType
  <2> QED
    BY <1>11, <2>1, StutterAdvances DEF ServerAppRequests, ServerAppCloses, ServerAppReads
<1>12. CASE LoseToServer \/ LoseToClient \/ UNCHANGED vars
  BY <1>12, StutterAdvances DEF LoseToServer, LoseToClient, vars
<1> QED
  BY <1>3, <1>4, <1>5, <1>6, <1>7, <1>8, <1>9, <1>10, <1>11, <1>12 DEF Next

\* A connection is a reliable stream, for every window, sequence space, channel,
\* loss and pace: the far end takes the chunks over in the order they were
\* written, each once; the sender forgets only what was taken over; and the
\* reader is given no chunk twice and none that was not taken over.
THEOREM ConnectionIsStream == Spec => ImplementsStream
<1>1. Init => Stream!Init
  <2> SUFFICES ASSUME Init PROVE Stream!Init
    OBVIOUS
  <2>1. /\ client.m_total_data_loaded = 0 /\ client.m_frame_window = <<>>
        /\ server.m_msg_buffer = <<>> /\ capp.in = <<>> /\ sapp.delivered = <<>>
    BY DEF Init, NewHandler, NewSock
  <2>2. <<>> \o <<>> = <<>> /\ Len(<<>>) = 0 /\ 0 + 0 = 0 /\ 0 - 0 = 0
    OBVIOUS
  <2> QED BY ONLY <2>1, <2>2 DEF Stream!Init, Written
<1>2. Inv /\ Inv' /\ [Next]_vars => [Stream!Next]_(Stream!vars)
  BY NextAdvances, AdvancesStream
<1> QED BY <1>1, <1>2, NumbersCorrect, PTL DEF Spec, ImplementsStream, Stream!Spec

(***************************************************************************)
(* The applications are answered once, and the listening one first.        *)
(***************************************************************************)
\* What an entry point does to the answer its application has, or waits for.
AnswerStep(h, s, r) ==
  /\ Unanswered(r.handler, r.sock)
  /\ s.reply # "none" => r.sock.reply = s.reply
  /\ r.handler.m_stage = "connected" => h.m_stage = "connected" \/ r.sock.reply = "success"
  /\ r.handler.m_stage = "listen" => h.m_stage = "listen" \/ r.handler.m_type = "server"

\* An entry point that answers nothing stays in its stage or fails.
NoAnswer(h, s, r) ==
  r.sock.reply = s.reply /\ r.handler.m_stage \in {h.m_stage, "failure", "sigpipe"}

LEMMA NoAnswerStep ==
  ASSUME NEW h, NEW s, NEW r, Unanswered(h, s), NoAnswer(h, s, r)
  PROVE  AnswerStep(h, s, r)
BY DEF NoAnswer, AnswerStep, Unanswered

\* The entry points of an established connection answer nothing.
LEMMA StreamNoAnswer ==
  ASSUME NEW h \in HandlerType(Chunk), NEW s \in SockType(Chunk)
  PROVE  /\ NoAnswer(h, s, Result(h, s, <<>>))
         /\ NoAnswer(h, s, Result([h EXCEPT !.m_timer = TRUE], s, <<>>))
         /\ NoAnswer(h, s, loadFrames(h, s)) /\ NoAnswer(h, s, sendToSock(h, s))
         /\ \A f : NoAnswer(h, s, receiveProbe(h, s, f))
         /\ \A f, seq : NoAnswer(h, s, receiveData(h, s, f, seq))
         /\ \A seq : NoAnswer(h, s, receiveSack(h, s, seq))
<1>1. /\ NoAnswer(h, s, Result(h, s, <<>>))
      /\ NoAnswer(h, s, Result([h EXCEPT !.m_timer = TRUE], s, <<>>))
      /\ \A f : NoAnswer(h, s, receiveProbe(h, s, f))
  BY DEF NoAnswer, Result, receiveProbe, HandlerType, HandlerRecord
<1>2. NoAnswer(h, s, loadFrames(h, s)) /\ NoAnswer(h, s, sendToSock(h, s))
  BY DEF NoAnswer, Result, loadFrames, sendToSock, HandlerType, HandlerRecord, SockType
<1>3. \A f, seq : NoAnswer(h, s, receiveData(h, s, f, seq))
  BY DEF NoAnswer, Result, receiveData, HandlerType, HandlerRecord
<1>4. \A moves : moveWindow(h, moves).m_stage = h.m_stage
  BY DEF moveWindow, HandlerType, HandlerRecord
<1>5. \A seq : NoAnswer(h, s, receiveSack(h, s, seq))
  BY <1>4 DEF NoAnswer, Result, receiveSack
<1> QED BY <1>1, <1>2, <1>3, <1>5

\* A timer tick of a connection answers nothing.
LEMMA MaintainNoAnswer ==
  ASSUME NEW h \in HandlerType(Chunk), NEW s \in SockType(Chunk), NEW used,
         h.m_stage = "connected"
  PROVE  NoAnswer(h, s, maintain(h, s, used))
<1> DEFINE first == handleSock(h, s, used)
           final == IF h.m_type = "server" THEN sendToSock(first.handler, first.sock)
                    ELSE first
           g == [final.handler EXCEPT !.m_stage = "failure"]
           k == [final.handler EXCEPT !.m_connected_reply = FALSE]
<1>1. ResultOK(first, Chunk) /\ NoAnswer(h, s, first)
  BY handleSockOK, StreamNoAnswer DEF handleSock
<1> HIDE DEF first
<1>2. ResultOK(final, Chunk) /\ NoAnswer(first.handler, first.sock, final)
  <2>1. NoAnswer(first.handler, first.sock, first)
    BY DEF NoAnswer
  <2> QED BY <1>1, <2>1, sendToSockOK, StreamNoAnswer DEF ResultOK
<1> HIDE DEF final
<1>3. g.m_stage = "failure" /\ k.m_stage = final.handler.m_stage
  BY <1>2 DEF ResultOK, HandlerType, HandlerRecord
<1>4. \/ maintain(h, s, used) = final
      \/ \E out : maintain(h, s, used) = Result(g, final.sock, out)
      \/ \E out : maintain(h, s, used) = Result(k, final.sock, out)
  <2> HIDE DEF g, k
  <2> QED BY DEF maintain, first, final, g, k
<1> HIDE DEF g, k
<1> QED BY <1>1, <1>2, <1>3, <1>4 DEF NoAnswer, Result

\* Reply answers with what it is given, or dies.
LEMMA ReplyAnswers ==
  ASSUME NEW h \in HandlerType(Chunk), NEW s \in SockType(Chunk), NEW reply, NEW stage
  PROVE  LET r == Reply(h, s, reply, stage)
         IN  /\ r.handler.m_type = h.m_type
             /\ \/ r.handler.m_stage = "sigpipe" /\ r.sock.reply = s.reply
                \/ r.handler.m_stage = stage /\ r.sock.reply = reply
BY DEF Reply, HandlerType, HandlerRecord, SockType

NoReply(out) == \A i \in 1..Len(out) : out[i].type # "reply"

\* Sequences without a reply: none, one frame of another type, one more such.
LEMMA NoReplySeq ==
  ASSUME NEW h, NEW type, type # "reply"
  PROVE  /\ NoReply(<<>>)
         /\ \A seq : NoReply(<<Frame(type, h, seq, <<>>)>>)
         /\ \A out \in Seq(FrameType(Chunk)) :
              NoReply(out) => NoReply(Append(out, Frame(type, h, 0, <<>>)))
<1> DEFINE f == Frame(type, h, 0, <<>>)
<1>1. f.type # "reply"
  BY DEF Frame
<1>2. NoReply(<<>>) /\ \A seq : NoReply(<<Frame(type, h, seq, <<>>)>>)
  BY DEF NoReply, Frame
<1> HIDE DEF f
<1>3. \A out \in Seq(FrameType(Chunk)) : NoReply(out) => NoReply(Append(out, f))
  BY <1>1 DEF NoReply
<1> QED BY <1>2, <1>3 DEF f

\* A request is taken up without an answer, or refused.
LEMMA RequestAnswer ==
  ASSUME NEW h \in HandlerType(Chunk), NEW s \in SockType(Chunk), NEW used,
         h.m_stage = "application", Unanswered(h, s)
  PROVE  LET r == handleRequest(h, s, used)
         IN  AnswerStep(h, s, r) /\ r.sock.reply # "success" /\ NoReply(r.out)
<1> DEFINE r    == readRequest(h, s)
           port == getFreePort(used)
           conn == [r EXCEPT !.m_source_port = port, !.m_stage = "wait_reply",
                             !.m_timer = TRUE]
           part == [r EXCEPT !.m_stage = IF s.closed THEN "failure" ELSE r.m_stage]
           lstn == [r EXCEPT !.m_source_port = s.ask.port, !.m_stage = "listen"]
<1>1. r \in HandlerType(Chunk) /\ r.m_stage = "application" /\ s.reply = "none"
  BY DEF readRequest, HandlerType, HandlerRecord, SockType, Types, Unanswered
<1> HIDE DEF r, port
<1>2. /\ conn.m_stage = "wait_reply" /\ part.m_stage \in {"failure", "application"}
      /\ lstn.m_stage = "listen" /\ lstn.m_type = r.m_type
  BY <1>1 DEF HandlerType, HandlerRecord
<1>3. \/ handleRequest(h, s, used) = Result(part, s, <<>>)
      \/ handleRequest(h, s, used) = Refuse(r, s)
      \/ handleRequest(h, s, used) = Result(lstn, s, <<>>) /\ r.m_type = "server"
      \/ handleRequest(h, s, used) = Result(conn, s, <<Frame("request", conn, 0, <<>>)>>)
  <2>1. CASE s.request < RequestItems(r.m_type)
    <3>1. handleRequest(h, s, used) = Result(part, s, <<>>)
      BY <1>1, <2>1 DEF handleRequest, r, RequestItems, SockType
    <3> QED BY <3>1
  <2>2. CASE ~(s.request < RequestItems(r.m_type)) /\ r.m_type = "server"
    <3>1. handleRequest(h, s, used) =
            IF isPortFree(s.ask.port, used) THEN Result(lstn, s, <<>>) ELSE Refuse(r, s)
      BY <2>2 DEF handleRequest, r, RequestItems, SockType
    <3> QED BY <2>2, <3>1
  <2>3. CASE ~(s.request < RequestItems(r.m_type)) /\ r.m_type = "client"
    <3>1. handleRequest(h, s, used) =
            IF port > 0 THEN Result(conn, s, <<Frame("request", conn, 0, <<>>)>>)
            ELSE Refuse(r, s)
      BY <2>3 DEF handleRequest, r, port, RequestItems, SockType
    <3> QED BY <3>1
  <2>4. r.m_type \in Types
    BY <1>1 DEF HandlerType, HandlerRecord
  <2>5. r.m_type = "null" => s.request < RequestItems(r.m_type)
    BY DEF r, readRequest, RequestItems, SockType
  <2> QED BY <2>1, <2>2, <2>3, <2>4, <2>5 DEF Types
<1> HIDE DEF conn, part, lstn
<1>4. /\ Refuse(r, s).handler.m_stage \in {"failure", "sigpipe"}
      /\ Refuse(r, s).sock.reply \in {"none", "usedport"} /\ Refuse(r, s).out = <<>>
  BY <1>1, ReplyAnswers DEF Refuse, Result
<1>5. NoReply(<<>>) /\ NoReply(<<Frame("request", conn, 0, <<>>)>>)
  BY NoReplySeq
<1> QED BY <1>1, <1>2, <1>3, <1>4, <1>5 DEF AnswerStep, Unanswered, Result

\* Every entry point answers an application that has no answer, or none; it
\* answers "success" only on a reply, unless it listens.
LEMMA EntryAnswers ==
  ASSUME NEW h \in HandlerType(Chunk), NEW s \in SockType(Chunk), NEW used,
         Unanswered(h, s)
  PROVE  /\ AnswerStep(h, s, handleSock(h, s, used))
         /\ AnswerStep(h, s, handleTimer(h, s, used))
         /\ handleSock(h, s, used).sock.reply = "success" => s.reply = "success"
         /\ handleTimer(h, s, used).sock.reply = "success" => s.reply = "success"
         /\ \A seq : \A from \in Nat, f \in FrameType(Chunk) :
              LET r == receiveFrame(h, s, from, f, seq)
              IN  /\ AnswerStep(h, s, r)
                  /\ r.sock.reply = "success" =>
                       s.reply = "success" \/ f.type = "reply" \/ h.m_stage = "listen"
<1>1. \A r : NoAnswer(h, s, r) =>
               AnswerStep(h, s, r) /\ (r.sock.reply = "success" => s.reply = "success")
  BY NoAnswerStep DEF NoAnswer
<1>2. /\ AnswerStep(h, s, handleSock(h, s, used))
      /\ handleSock(h, s, used).sock.reply = "success" => s.reply = "success"
  BY <1>1, RequestAnswer, StreamNoAnswer DEF handleSock
<1>3. /\ AnswerStep(h, s, handleTimer(h, s, used))
      /\ handleTimer(h, s, used).sock.reply = "success" => s.reply = "success"
  <2>1. CASE h.m_stage = "wait_reply"
    <3>1. s.reply = "none"
      BY <2>1 DEF Unanswered
    <3>2. /\ replyTimeout(h, s).handler.m_stage \in {"failure", "sigpipe"}
          /\ replyTimeout(h, s).sock.reply \in {"none", "timeout"}
      BY <3>1, ReplyAnswers DEF replyTimeout, Result
    <3>3. handleTimer(h, s, used) = replyTimeout(h, s)
      BY <2>1 DEF handleTimer
    <3> QED BY <3>1, <3>2, <3>3 DEF AnswerStep, Unanswered
  <2>2. CASE h.m_stage = "connected"
    <3>1. handleTimer(h, s, used) = maintain(h, s, used)
      BY <2>2 DEF handleTimer
    <3> QED BY <1>1, <2>2, <3>1, MaintainNoAnswer
  <2>3. CASE h.m_stage \notin {"wait_reply", "connected"}
    <3>1. handleTimer(h, s, used) = Result([h EXCEPT !.m_timer = TRUE], s, <<>>)
      BY <2>3 DEF handleTimer
    <3> QED BY <1>1, <3>1, StreamNoAnswer
  <2> QED BY <2>1, <2>2, <2>3
<1>4. ASSUME NEW from \in Nat, NEW f \in FrameType(Chunk), NEW seq
      PROVE  LET r == receiveFrame(h, s, from, f, seq)
             IN  /\ AnswerStep(h, s, r)
                 /\ r.sock.reply = "success" =>
                      s.reply = "success" \/ f.type = "reply" \/ h.m_stage = "listen"
  <2>1. CASE h.m_stage = "listen" /\ f.type = "request"
    <3> DEFINE bound == [h EXCEPT !.m_dest_address = from, !.m_dest_port = f.source,
                                  !.m_timer = TRUE]
               r     == Reply(bound, s, "success", "connected")
    <3>1. f.source \in Nat
      BY HandlerAssumption DEF FrameType
    <3>2. bound \in HandlerType(Chunk)
      BY <3>1 DEF HandlerType, HandlerRecord
    <3>3. /\ acceptRequest(h, s, from, f).handler = r.handler
          /\ acceptRequest(h, s, from, f).sock = r.sock
      BY DEF acceptRequest, Result
    <3> HIDE DEF bound
    <3>4. \/ r.handler.m_stage = "sigpipe" /\ r.sock.reply = s.reply
          \/ r.handler.m_stage = "connected" /\ r.sock.reply = "success"
      BY <3>2, ReplyAnswers
    <3>5. s.reply = "none"
      BY <2>1 DEF Unanswered
    <3>6. receiveFrame(h, s, from, f, seq) = acceptRequest(h, s, from, f)
      BY <2>1 DEF receiveFrame
    <3> HIDE DEF r
    <3> QED BY <2>1, <3>3, <3>4, <3>5, <3>6 DEF AnswerStep, Unanswered
  <2>2. CASE h.m_stage = "wait_reply" /\ f.type = "reply"
    <3>1. s.reply = "none"
      BY <2>2 DEF Unanswered
    <3>2. LET r == acceptReply(h, s)
          IN  \/ r.handler.m_stage = "sigpipe" /\ r.sock.reply = s.reply
              \/ r.handler.m_stage = "connected" /\ r.sock.reply = "success"
      BY ReplyAnswers DEF acceptReply, Result
    <3>3. receiveFrame(h, s, from, f, seq) = acceptReply(h, s)
      BY <2>2 DEF receiveFrame
    <3> QED BY <2>2, <3>1, <3>2, <3>3 DEF AnswerStep, Unanswered
  <2>3. CASE ~(\/ h.m_stage = "listen" /\ f.type = "request"
               \/ h.m_stage = "wait_reply" /\ f.type = "reply")
    <3>1. NoAnswer(h, s, receiveFrame(h, s, from, f, seq))
      BY <2>3, StreamNoAnswer DEF receiveFrame
    <3> QED BY <1>1, <3>1
  <2> QED BY <2>1, <2>2, <2>3
<1> QED BY <1>2, <1>3, <1>4

\* A server replies only when its application was told.
LEMMA ServerReplies ==
  ASSUME NEW h \in HandlerType(Chunk), NEW s \in SockType(Chunk), NEW used,
         ServerNumbers(h, s), Unanswered(h, s),
         h.m_stage = "connected" => s.reply = "success"
  PROVE  /\ NoReply(handleSock(h, s, used).out) /\ NoReply(handleTimer(h, s, used).out)
         /\ \A seq : \A from \in Nat, f \in FrameType(Chunk) :
              LET r == receiveFrame(h, s, from, f, seq)
              IN  NoReply(r.out) \/ r.sock.reply = "success"
<1>1. h.m_type # "client" /\ NoReply(<<>>)
  BY NoReplySeq DEF ServerNumbers
<1>2. NoReply(handleSock(h, s, used).out)
  <2>1. sendToSock(h, s).out = <<>> /\ Result(h, s, <<>>).out = <<>>
    BY DEF sendToSock, Result
  <2> QED BY <1>1, <2>1, RequestAnswer DEF handleSock
<1>3. NoReply(maintain(h, s, used).out)
  <2> DEFINE first  == handleSock(h, s, used)
             mid    == first.handler
             resend == IF h.m_type = "server" THEN queueAck(mid) ELSE queueWindow(mid)
             final  == IF h.m_type = "server" THEN sendToSock(mid, first.sock) ELSE first
             probe  == Frame("request", h, 0, <<>>)
  <2>1. ResultOK(first, Chunk) /\ ServerNumbers(mid, first.sock)
    BY handleSockOK, ServerSock DEF ServerStep
  <2> HIDE DEF first
  <2>2. NoReply(final.out)
    BY <1>1, <1>2 DEF sendToSock, Result, first
  <2>3. resend \in Seq(FrameType(Chunk)) /\ NoReply(resend)
    <3>1. resend \in Seq(FrameType(Chunk))
      BY <2>1, queueAckOK, queueWindowOK DEF ResultOK
    <3>2. queueWindow(mid) = <<>>
      BY <2>1 DEF queueWindow, ServerNumbers
    <3>3. NoReply(queueAck(mid))
      BY NoReplySeq DEF queueAck
    <3> QED BY <1>1, <3>1, <3>2, <3>3
  <2> HIDE DEF mid, resend, final
  <2>4. NoReply(Append(resend, probe))
    BY <2>3, NoReplySeq
  <2>5. maintain(h, s, used).out \in {final.out, resend, Append(resend, probe)}
    BY DEF maintain, Result, first, mid, resend, final
  <2> HIDE DEF probe
  <2> QED BY <2>2, <2>3, <2>4, <2>5
<1>4. NoReply(handleTimer(h, s, used).out)
  <2>1. replyTimeout(h, s).out = <<>> /\ Result([h EXCEPT !.m_timer = TRUE], s, <<>>).out = <<>>
    BY DEF replyTimeout, Result
  <2> QED BY <1>1, <1>3, <2>1 DEF handleTimer
<1>5. ASSUME NEW from \in Nat, NEW f \in FrameType(Chunk), NEW seq
      PROVE  LET r == receiveFrame(h, s, from, f, seq)
             IN  NoReply(r.out) \/ r.sock.reply = "success"
  <2>1. CASE h.m_stage = "listen" /\ f.type = "request"
    <3>1. receiveFrame(h, s, from, f, seq) = acceptRequest(h, s, from, f)
      BY <2>1 DEF receiveFrame
    <3>2. \/ acceptRequest(h, s, from, f).out = <<>>
          \/ acceptRequest(h, s, from, f).sock.reply = "success"
      BY DEF acceptRequest, Result, Reply, SockType
    <3> QED BY <1>1, <3>1, <3>2
  <2>2. CASE h.m_stage = "connected" /\ f.type \in {"request", "reply"}
    <3>1. receiveFrame(h, s, from, f, seq).sock = s
      BY <2>2 DEF receiveFrame, receiveProbe, Result
    <3> QED BY <2>2, <3>1
  <2>3. CASE h.m_stage = "connected" /\ f.type = "data"
    <3>1. receiveFrame(h, s, from, f, seq).sock = s
      BY <1>1, <2>3 DEF receiveFrame, receiveData, Result
    <3> QED BY <2>3, <3>1
  <2>4. CASE ~(\/ h.m_stage = "listen" /\ f.type = "request"
               \/ h.m_stage = "connected" /\ f.type \in {"request", "reply", "data"})
    <3>1. receiveFrame(h, s, from, f, seq).out = <<>>
      BY <1>1, <2>4 DEF receiveFrame, acceptReply, Result
    <3> QED BY <1>1, <3>1
  <2> QED BY <2>1, <2>2, <2>3, <2>4
<1> QED BY <1>2, <1>4, <1>5

\* Nobody is answered at the start.
LEMMA InitAnswers == Init => RequestAnswers
BY DEF Init, NewHandler, NewSock, RequestAnswers, Unanswered, ToldAfterServer

\* A step of the client keeps the answers; "success" needs a told server.
LEMMA ClientDoesAnswers ==
  ASSUME RequestAnswers, NEW r, ClientDoes(r), NEW s, s.reply = capp.reply,
         AnswerStep(client, s, r), r.handler.m_type # "server",
         r.sock.reply = "success" => capp.reply = "success" \/ sapp.reply = "success",
         \A i \in 1..Len(toClient') : toClient'[i].type = "reply" => sapp.reply = "success"
  PROVE  RequestAnswers' /\ (capp.reply # "none" => capp'.reply = capp.reply)
BY DEF RequestAnswers, ToldAfterServer, ClientDoes, AnswerStep, Unanswered

\* A step of the server keeps the answers, if its replies follow its answer.
LEMMA ServerDoesAnswers ==
  ASSUME TypeOK, RequestAnswers, NEW r, ResultOK(r, Chunk), ServerDoes(r),
         NEW s, s.reply = sapp.reply, AnswerStep(server, s, r),
         NoReply(r.out) \/ r.sock.reply = "success"
  PROVE  RequestAnswers' /\ (sapp.reply # "none" => sapp'.reply = sapp.reply)
<1> DEFINE q == toClient
           p == Post(q, r.out)
<1>1. /\ server' = r.handler /\ sapp' = r.sock /\ toClient' = p
      /\ client' = client /\ capp' = capp
  BY DEF ServerDoes
<1>2. /\ q \in Seq(FrameType(Chunk)) /\ r.out \in Seq(FrameType(Chunk))
  BY DEF TypeOK, ResultOK
<1>3. \A i \in 1..Len(p) :
        \/ i \in 1..Len(q) /\ p[i] = q[i]
        \/ i - Len(q) \in 1..Len(r.out) /\ p[i] = r.out[i - Len(q)]
  BY <1>2, PostElement
<1>4. sapp.reply # "none" => sapp'.reply = sapp.reply
  BY <1>1 DEF AnswerStep
<1> HIDE DEF p
<1>5. ASSUME NEW i \in 1..Len(p), p[i].type = "reply"
      PROVE  sapp'.reply = "success"
  <2>1. CASE i \in 1..Len(q) /\ p[i] = q[i]
    BY <1>4, <1>5, <2>1 DEF RequestAnswers
  <2>2. CASE i - Len(q) \in 1..Len(r.out) /\ p[i] = r.out[i - Len(q)]
    BY <1>1, <1>5, <2>2 DEF NoReply
  <2> QED BY <1>3, <2>1, <2>2
<1> QED BY <1>1, <1>4, <1>5 DEF RequestAnswers, ToldAfterServer, AnswerStep, Unanswered

\* A step that leaves stages, answers and replies alone, or loses some replies.
LEMMA StutterAnswers ==
  ASSUME RequestAnswers, UNCHANGED <<client, server>>,
         capp'.reply = capp.reply, sapp'.reply = sapp.reply,
         \A i \in 1..Len(toClient') : toClient'[i].type = "reply" => sapp.reply = "success"
  PROVE  RequestAnswers'
BY DEF RequestAnswers, ToldAfterServer, Unanswered

\* No step takes an answer back or changes it.
KeepsAnswers ==
  /\ capp.reply # "none" => capp'.reply = capp.reply
  /\ sapp.reply # "none" => sapp'.reply = sapp.reply

\* Every step keeps the invariant and the answers.
LEMMA NextAnswers ==
  ASSUME Inv, Inv', RequestAnswers, [Next]_vars
  PROVE  RequestAnswers' /\ KeepsAnswers
<1>1. /\ TypeOK /\ client.m_stage # "listen"
      /\ client \in HandlerType(Chunk) /\ server \in HandlerType(Chunk)
      /\ capp \in SockType(Chunk) /\ sapp \in SockType(Chunk)
      /\ ServerNumbers(server, sapp) /\ client'.m_type # "server"
      /\ Unanswered(client, capp) /\ Unanswered(server, sapp)
      /\ server.m_stage = "connected" => sapp.reply = "success"
  BY DEF Inv, TypeOK, StreamNumbers, ClientNumbers, RequestAnswers
<1>2. \A i \in 1..Len(toClient) : toClient[i].type = "reply" => sapp.reply = "success"
  BY DEF RequestAnswers
<1>3. ASSUME toClient # <<>>
      PROVE  /\ \A i \in 1..Len(Tail(toClient)) :
                  Tail(toClient)[i].type = "reply" => sapp.reply = "success"
             /\ Head(toClient).type = "reply" => sapp.reply = "success"
             /\ Head(toClient) \in FrameType(Chunk)
  <2> DEFINE q == toClient
  <2>1. q \in Seq(FrameType(Chunk))
    BY <1>1 DEF TypeOK
  <2>2. /\ Head(q) = q[1] /\ 1 \in 1..Len(q) /\ Head(q) \in FrameType(Chunk)
        /\ \A i \in 1..Len(Tail(q)) : i + 1 \in 1..Len(q) /\ Tail(q)[i] = q[i + 1]
    BY <1>3, <2>1, TailElement
  <2> QED BY <1>2, <2>2
<1>4. CASE ClientSockEvent
  <2> DEFINE s == [capp EXCEPT !.event = FALSE]
             r == handleSock(client, s, {client.m_source_port})
  <2>1. s \in SockType(Chunk) /\ s.reply = capp.reply
    BY <1>1, Notified
  <2>2. ClientDoes(r) /\ toClient' = toClient
    BY <1>4 DEF ClientSockEvent
  <2> HIDE DEF s
  <2>3. AnswerStep(client, s, r) /\ (r.sock.reply = "success" => s.reply = "success")
    BY <1>1, <2>1, EntryAnswers DEF Unanswered
  <2> HIDE DEF r
  <2>4. r.handler.m_type # "server" /\ sapp' = sapp
    BY <1>1, <2>2 DEF ClientDoes
  <2> QED BY <1>2, <2>1, <2>2, <2>3, <2>4, ClientDoesAnswers DEF KeepsAnswers
<1>5. CASE ServerSockEvent
  <2> DEFINE s == [sapp EXCEPT !.event = FALSE]
             r == handleSock(server, s, {server.m_source_port})
  <2>1. /\ s \in SockType(Chunk) /\ s.reply = sapp.reply /\ s.delivered = sapp.delivered
        /\ s.ask = sapp.ask
    BY <1>1, Notified
  <2>2. ServerDoes(r)
    BY <1>5 DEF ServerSockEvent
  <2> HIDE DEF s
  <2>3. ServerNumbers(server, s) /\ Unanswered(server, s)
    BY <1>1, <2>1 DEF ServerNumbers, Unanswered
  <2>4. AnswerStep(server, s, r) /\ NoReply(r.out) /\ ResultOK(r, Chunk)
    BY <1>1, <2>1, <2>3, EntryAnswers, ServerReplies, handleSockOK
  <2> HIDE DEF r
  <2>5. capp' = capp
    BY <2>2 DEF ServerDoes
  <2> QED BY <1>1, <2>1, <2>2, <2>4, <2>5, ServerDoesAnswers DEF KeepsAnswers
<1>6. CASE ClientTimer
  <2> DEFINE r == handleTimer(client, capp, {client.m_source_port})
  <2>1. ClientDoes(r) /\ toClient' = toClient
    BY <1>6 DEF ClientTimer
  <2>2. AnswerStep(client, capp, r) /\ (r.sock.reply = "success" => capp.reply = "success")
    BY <1>1, EntryAnswers
  <2> HIDE DEF r
  <2>3. r.handler.m_type # "server" /\ sapp' = sapp
    BY <1>1, <2>1 DEF ClientDoes
  <2> QED BY <1>2, <2>1, <2>2, <2>3, ClientDoesAnswers DEF KeepsAnswers
<1>7. CASE ServerTimer
  <2> DEFINE r == handleTimer(server, sapp, {server.m_source_port})
  <2>1. ServerDoes(r)
    BY <1>7 DEF ServerTimer
  <2>2. AnswerStep(server, sapp, r) /\ NoReply(r.out) /\ ResultOK(r, Chunk)
    BY <1>1, EntryAnswers, ServerReplies, handleTimerOK
  <2> HIDE DEF r
  <2>3. capp' = capp
    BY <2>1 DEF ServerDoes
  <2> QED BY <1>1, <2>1, <2>2, <2>3, ServerDoesAnswers DEF KeepsAnswers
<1>8. CASE ClientReceive
  <2> DEFINE f == Head(toClient)
  <2>1. toClient # <<>> /\ toClient' = Tail(toClient)
    BY <1>8 DEF ClientReceive
  <2>2. CASE UNCHANGED <<client, server, capp, sapp, toServer, losses>>
    BY <1>3, <2>1, <2>2, StutterAnswers DEF KeepsAnswers
  <2>3. ASSUME NEW u \in UpperHalf,
               ClientDoes(receiveFrame(client, capp, ServerAddress, f,
                                       getSequenceNumber(f, u)))
        PROVE  RequestAnswers' /\ KeepsAnswers
    <3> DEFINE seq == getSequenceNumber(f, u)
               r   == receiveFrame(client, capp, ServerAddress, f, seq)
    <3>1. f \in FrameType(Chunk) /\ ServerAddress \in Nat
      BY <1>3, <2>1 DEF ServerAddress
    <3>2. f.type = "reply" => sapp.reply = "success"
      BY <1>3, <2>1
    <3>3. ClientDoes(r)
      BY <2>3
    <3> HIDE DEF f, seq
    <3>4. /\ AnswerStep(client, capp, r)
          /\ r.sock.reply = "success" => capp.reply = "success" \/ f.type = "reply"
      BY <1>1, <3>1, EntryAnswers
    <3> HIDE DEF r
    <3>5. r.handler.m_type # "server" /\ sapp' = sapp
      BY <1>1, <3>3 DEF ClientDoes
    <3> QED BY <1>3, <2>1, <3>2, <3>3, <3>4, <3>5, ClientDoesAnswers DEF KeepsAnswers
  <2> QED BY <1>8, <2>2, <2>3 DEF ClientReceive
<1>9. CASE ServerReceive
  <2> DEFINE f == Head(toServer)
  <2>1. toServer # <<>>
    BY <1>9 DEF ServerReceive
  <2>2. CASE UNCHANGED <<client, server, capp, sapp, toClient, losses>>
    BY <1>2, <2>2, StutterAnswers DEF KeepsAnswers
  <2>3. ASSUME NEW u \in UpperHalf,
               ServerDoes(receiveFrame(server, sapp, ClientAddress, f,
                                       getSequenceNumber(f, u)))
        PROVE  RequestAnswers' /\ KeepsAnswers
    <3> DEFINE seq == getSequenceNumber(f, u)
               r   == receiveFrame(server, sapp, ClientAddress, f, seq)
    <3>1. f \in FrameType(Chunk) /\ ClientAddress \in Nat
      BY <1>1, <2>1, TailOK DEF TypeOK, ClientAddress
    <3>2. seq \in Int
      BY <3>1, NumberOK
    <3>3. ServerDoes(r)
      BY <2>3
    <3> HIDE DEF f, seq
    <3>4. AnswerStep(server, sapp, r) /\ (NoReply(r.out) \/ r.sock.reply = "success")
      BY <1>1, <3>1, EntryAnswers, ServerReplies
    <3>5. ResultOK(r, Chunk)
      BY <1>1, <3>1, <3>2, receiveFrameOK
    <3> HIDE DEF r
    <3>6. capp' = capp
      BY <3>3 DEF ServerDoes
    <3> QED BY <1>1, <3>3, <3>4, <3>5, <3>6, ServerDoesAnswers DEF KeepsAnswers
  <2> QED BY <1>9, <2>2, <2>3 DEF ServerReceive
<1>10. CASE ClientAppRequests \/ ClientAppCloses \/ ClientAppWrites
  <2>1. capp'.reply = capp.reply /\ UNCHANGED <<client, server, sapp, toClient>>
    BY <1>1, <1>10 DEF ClientAppRequests, ClientAppCloses, ClientAppWrites, SockType
  <2> QED BY <1>2, <2>1, StutterAnswers DEF KeepsAnswers
<1>11. CASE ServerAppRequests \/ ServerAppCloses \/ ServerAppReads
  <2>1. sapp'.reply = sapp.reply /\ UNCHANGED <<client, server, capp, toClient>>
    BY <1>1, <1>11 DEF ServerAppRequests, ServerAppCloses, ServerAppReads, SockType
  <2> QED BY <1>2, <2>1, StutterAnswers DEF KeepsAnswers
<1>12. CASE LoseToServer \/ UNCHANGED vars
  BY <1>2, <1>12, StutterAnswers DEF LoseToServer, vars, KeepsAnswers
<1>13. CASE LoseToClient
  BY <1>3, <1>13, StutterAnswers DEF LoseToClient, KeepsAnswers
<1> QED
  BY <1>4, <1>5, <1>6, <1>7, <1>8, <1>9, <1>10, <1>11, <1>12, <1>13 DEF Next

\* Both invariants hold in every reachable state, and no step changes an answer.
LEMMA AnswersCorrect == Spec => [](Inv /\ RequestAnswers) /\ [][KeepsAnswers]_vars
<1>1. Init => RequestAnswers
  BY InitAnswers
<1>2. Inv /\ Inv' /\ RequestAnswers /\ [Next]_vars => RequestAnswers' /\ KeepsAnswers
  BY NextAnswers
<1> QED BY <1>1, <1>2, NumbersCorrect, PTL DEF Spec

\* Whatever is lost, repeated or late: the connecting application is told of a
\* connection only after the listening one was told.
THEOREM ToldCorrect == Spec => []ToldAfterServer
<1>1. RequestAnswers => ToldAfterServer
  BY DEF RequestAnswers
<1> QED BY <1>1, AnswersCorrect, PTL

\* Neither application gets a second answer, such as the timeout of the timer
\* that was armed for a request which succeeded.
THEOREM AnsweredOnceCorrect == Spec => AnsweredOnce
<1>1. KeepsAnswers => /\ capp.reply # "none" => capp'.reply = capp.reply
                      /\ sapp.reply # "none" => sapp'.reply = sapp.reply
  BY DEF KeepsAnswers
<1> QED BY <1>1, AnswersCorrect, PTL DEF AnsweredOnce
=============================================================================
