---------------------------- MODULE ClientHandler ----------------------------
(***************************************************************************)
(* The class ClientHandler of the transport daemon: the state of one       *)
(* endpoint of a connection and its three entry points, handleSock,        *)
(* handleTimer and receiveFrame, as operators.  An entry point takes the   *)
(* handler record h and the record s of the socket that joins it to its    *)
(* application, and returns both together with the frames it puts on       *)
(* m_out_queue (all of them are addressed to m_dest_address).  Connection  *)
(* and TransportDaemon run these operators as actions.                     *)
(*                                                                         *)
(* Data is counted in chunks: a chunk is what one read() of the            *)
(* application socket returns, hence the payload of one data frame.  The   *)
(* field m_used_slots is the length of m_frame_window, which holds the     *)
(* used slots only.                                                        *)
(***************************************************************************)
EXTENDS Integers, Sequences

CONSTANTS
  WindowSize,     \* m_window_size
  SequenceSize,   \* m_sequence_size
  PortLimit,      \* number of ports a frame can carry: 2^14
  SockCapacity    \* chunks that fit in the buffer of an application socket

\* The window may not cover the whole sequence space, or an acknowledgement
\* of the complete window equals one of nothing, and twice the numbers fit in
\* the two bytes a frame has for one.  (The code: 10 and 40.)
ASSUME HandlerAssumption ==
  /\ WindowSize \in Nat \ {0}
  /\ SequenceSize \in Nat /\ SequenceSize > WindowSize /\ 2 * SequenceSize <= 65536
  /\ PortLimit \in Nat \ {0}
  /\ SockCapacity \in Nat \ {0}

(***************************************************************************)
(* State                                                                   *)
(***************************************************************************)
Types == {"null", "server", "client"}

\* "sigpipe" is not a stage of the code: it marks a daemon that was killed by
\* SIGPIPE while it wrote to a socket the application had closed.
Stages == {"application", "listen", "wait_reply", "connected", "failure", "sigpipe"}

NewHandler ==
  [m_type |-> "null", m_stage |-> "application",
   m_dest_address |-> 0, m_dest_port |-> 0, m_source_port |-> 0,
   m_sequence_base |-> 0, m_current_ack |-> 0,
   m_frame_window |-> <<>>, m_msg_buffer |-> <<>>,
   m_total_data_loaded |-> 0, m_total_data_received |-> 0,
   m_connected_reply |-> TRUE, m_timer |-> FALSE]

Alive(h) == h.m_stage \notin {"failure", "sigpipe"}

\* The application's end of a socket.  ask is the request it makes, of which
\* request items are written so far; in holds chunks written and not yet read
\* by the daemon, event an edge that epoll has yet to report; delivered holds
\* what the daemon wrote, whose last unread chunks the application has not
\* read.
NewSock(ask) ==
  [ask |-> ask, request |-> 0, in |-> <<>>, event |-> FALSE, closed |-> FALSE,
   reply |-> "none", delivered |-> <<>>, unread |-> 0]

Frame(type, h, seq, msg) ==
  [type |-> type, dest |-> h.m_dest_port % PortLimit,
   source |-> h.m_source_port % PortLimit, seq |-> seq, msg |-> msg]

Result(h, s, out) == [handler |-> h, sock |-> s, out |-> out]

LowerOf(m, n) == IF m < n THEN m ELSE n

FrameType(Chunk) ==
  [type: {"request", "reply", "data", "sack"}, dest: 0..PortLimit - 1,
   source: 0..PortLimit - 1, seq: 0..SequenceSize - 1, msg: Seq(Chunk)]

HandlerRecord(Chunk) ==
  [m_type: Types, m_stage: Stages,
   m_dest_address: Nat, m_dest_port: Nat, m_source_port: Nat,
   m_sequence_base: 0..SequenceSize - 1, m_current_ack: 0..SequenceSize - 1,
   m_frame_window: Seq(FrameType(Chunk)), m_msg_buffer: Seq(Chunk),
   m_total_data_loaded: Nat, m_total_data_received: Nat,
   m_connected_reply: BOOLEAN, m_timer: BOOLEAN]

\* m_frame_window is an array of WindowSize slots that loadFrames indexes
\* without a check.
HandlerType(Chunk) ==
  {h \in HandlerRecord(Chunk) : Len(h.m_frame_window) <= WindowSize}

SockType(Chunk) ==
  [ask: [kind: {"client", "server"}, address: Nat, port: Nat], request: 0..3,
   in: Seq(Chunk), event: BOOLEAN, closed: BOOLEAN,
   reply: {"none", "success", "timeout", "usedport"},
   delivered: Seq(Chunk), unread: 0..SockCapacity]

(***************************************************************************)
(* The sliding window of a client                                          *)
(***************************************************************************)
seqInsideWindow(h, seq) ==
  LET last == h.m_sequence_base + WindowSize
  IN  IF seq < h.m_sequence_base THEN seq + SequenceSize < last ELSE seq < last

BugCalcMoves(h, seq) ==  \* mutant: an acknowledgement taken to include seq itself
  (IF seq < h.m_sequence_base THEN seq + SequenceSize ELSE seq) - h.m_sequence_base + 1

calcMoves(h, seq) ==
  (IF seq < h.m_sequence_base THEN seq + SequenceSize ELSE seq) - h.m_sequence_base

BugMoveWindow(h, moves) ==  \* mutant: the frames are dropped, the base stays
  IF moves > 0 THEN [h EXCEPT !.m_frame_window = SubSeq(@, moves + 1, Len(@))] ELSE h

moveWindow(h, moves) ==
  IF moves > 0
  THEN [h EXCEPT !.m_frame_window = SubSeq(@, moves + 1, Len(@)),
                 !.m_sequence_base = (@ + moves) % SequenceSize]
  ELSE h

BugLoadFrames(h, s) ==  \* mutant: the loop runs while used <= WindowSize
  LET used  == Len(h.m_frame_window)
      n     == LowerOf(WindowSize + 1 - used, Len(s.in))
      fresh == [i \in 1..n |-> Frame("data", h,
                 (h.m_sequence_base + used + i - 1) % SequenceSize, <<s.in[i]>>)]
  IN  Result([h EXCEPT !.m_frame_window = @ \o fresh, !.m_total_data_loaded = @ + n],
             [s EXCEPT !.in = SubSeq(@, n + 1, Len(@))], <<>>)

\* Reads chunks until the window is full or the socket is empty; an end of file
\* is met only by a read, that is when the window has a free slot left.
loadFrames(h, s) ==
  LET used  == Len(h.m_frame_window)
      n     == LowerOf(WindowSize - used, Len(s.in))
      fresh == [i \in 1..n |-> Frame("data", h,
                 (h.m_sequence_base + used + i - 1) % SequenceSize, <<s.in[i]>>)]
      eof   == used + n < WindowSize /\ s.closed
  IN  Result([h EXCEPT !.m_frame_window = @ \o fresh,
                       !.m_total_data_loaded = @ + n,
                       !.m_stage = IF eof /\ used + n = 0 THEN "failure" ELSE @],
             [s EXCEPT !.in = SubSeq(@, n + 1, Len(@))], <<>>)

queueWindow(h) == h.m_frame_window

(***************************************************************************)
(* The receiving side of a server                                          *)
(***************************************************************************)
queueAck(h) == <<Frame("sack", h, h.m_current_ack, <<>>)>>

BugSendToSock(h, s) ==  \* mutant: a partial write is taken for a complete one
  LET n == Len(h.m_msg_buffer)
  IN  Result([h EXCEPT !.m_msg_buffer = <<>>],
             [s EXCEPT !.delivered = @ \o h.m_msg_buffer, !.unread = @ + n], <<>>)

\* Writes what fits in the socket; on a closed socket a write of at least one
\* byte raises SIGPIPE.
sendToSock(h, s) ==
  LET n == LowerOf(Len(h.m_msg_buffer), SockCapacity - s.unread)
  IN  IF s.closed
      THEN Result([h EXCEPT !.m_stage = IF h.m_msg_buffer = <<>> THEN @ ELSE "sigpipe"],
                  s, <<>>)
      ELSE Result([h EXCEPT !.m_msg_buffer = SubSeq(@, n + 1, Len(@))],
                  [s EXCEPT !.delivered = @ \o SubSeq(h.m_msg_buffer, 1, n),
                            !.unread = @ + n], <<>>)

(***************************************************************************)
(* handleSock: an edge on the application socket                           *)
(***************************************************************************)
BugIsPortFree(port, used) == port > 0  \* mutant: the handlers are not searched

isPortFree(port, used) == port \notin used

\* The lowest free port; 0 when there is none.
getFreePort(used) ==
  LET free == {p \in 1..(PortLimit - 2) : isPortFree(p, used)}
  IN  IF free = {} THEN 0 ELSE CHOOSE p \in free : \A q \in free : p <= q

\* One byte is written as the first data of the socket: it always fits, so
\* that the handlers of WouldBlock around it never run.
Reply(h, s, reply, stage) ==
  IF s.closed THEN [handler |-> [h EXCEPT !.m_stage = "sigpipe"], sock |-> s]
  ELSE [handler |-> [h EXCEPT !.m_stage = stage], sock |-> [s EXCEPT !.reply = reply]]

Refuse(h, s) ==
  LET r == Reply(h, s, "usedport", "failure") IN Result(r.handler, r.sock, <<>>)

\* The items of the request that have been written are read one by one, in as
\* many calls as it takes; the call that reads the last one acts on it.
readRequest(h, s) ==
  [h EXCEPT !.m_type = IF s.request >= 1 THEN s.ask.kind ELSE @,
            !.m_dest_address =
               IF s.request >= 2 /\ s.ask.kind = "client" THEN s.ask.address ELSE @,
            !.m_dest_port =
               IF s.request >= 3 /\ s.ask.kind = "client" THEN s.ask.port ELSE @]

RequestItems(kind) == IF kind = "client" THEN 3 ELSE 2

BugHandleRequest(h, s, used) ==  \* mutant: the call that reads the type leaves the rest
  LET r    == readRequest(h, s)
      conn == [r EXCEPT !.m_source_port = getFreePort(used), !.m_stage = "wait_reply",
                        !.m_timer = TRUE]
  IN  CASE h.m_type = "null" -> Result([h EXCEPT !.m_type = r.m_type], s, <<>>)
        [] h.m_type # "null" /\ s.request = 3 ->
             Result(conn, s, <<Frame("request", conn, 0, <<>>)>>)
        [] OTHER -> Result(r, s, <<>>)

handleRequest(h, s, used) ==
  LET r    == readRequest(h, s)
      port == getFreePort(used)
      conn == [r EXCEPT !.m_source_port = port, !.m_stage = "wait_reply", !.m_timer = TRUE]
  IN  CASE s.request < RequestItems(r.m_type) ->
             Result([r EXCEPT !.m_stage = IF s.closed THEN "failure" ELSE @], s, <<>>)
        [] s.request >= RequestItems(r.m_type) /\ r.m_type = "server" ->
             IF isPortFree(s.ask.port, used)
             THEN Result([r EXCEPT !.m_source_port = s.ask.port, !.m_stage = "listen"],
                         s, <<>>)
             ELSE Refuse(r, s)
        [] s.request >= RequestItems(r.m_type) /\ r.m_type = "client" ->
             IF port > 0 THEN Result(conn, s, <<Frame("request", conn, 0, <<>>)>>)
             ELSE Refuse(r, s)

handleSock(h, s, used) ==
  CASE h.m_stage = "application" -> handleRequest(h, s, used)
    [] h.m_stage = "connected" /\ h.m_type = "server" -> sendToSock(h, s)
    [] h.m_stage = "connected" /\ h.m_type = "client" -> loadFrames(h, s)
    [] OTHER -> Result(h, s, <<>>)

(***************************************************************************)
(* handleTimer: the timer expired                                          *)
(***************************************************************************)
replyTimeout(h, s) ==
  LET r == Reply(h, s, "timeout", "failure") IN Result(r.handler, r.sock, <<>>)

BugMaintainForever(h, s, used) ==  \* mutant: m_connected_reply is not reset
  LET first == handleSock(h, s, used)
      last  == IF h.m_type = "server" THEN sendToSock(first.handler, first.sock) ELSE first
  IN  IF last.handler.m_stage = "sigpipe" THEN last
      ELSE Result(last.handler, last.sock,
                  Append(IF h.m_type = "server" THEN queueAck(last.handler)
                         ELSE queueWindow(last.handler), Frame("request", h, 0, <<>>)))

\* The server flushes its buffer and acknowledges, the client reloads and
\* resends its window; then the connection is given up if nothing vouched for
\* it since the last expiry, and probed with a request otherwise.
maintain(h, s, used) ==
  LET first  == handleSock(h, s, used)
      mid    == first.handler
      resend == IF h.m_type = "server" THEN queueAck(mid) ELSE queueWindow(mid)
      last   == IF h.m_type = "server" THEN sendToSock(mid, first.sock) ELSE first
  IN  IF last.handler.m_stage = "sigpipe" THEN last
      ELSE IF ~h.m_connected_reply
      THEN Result([last.handler EXCEPT !.m_stage = "failure"], last.sock, resend)
      ELSE Result([last.handler EXCEPT !.m_connected_reply = FALSE], last.sock,
                  Append(resend, Frame("request", h, 0, <<>>)))

\* The timer is armed again in every case.
handleTimer(h, s, used) ==
  CASE h.m_stage = "wait_reply" -> replyTimeout(h, s)
    [] h.m_stage = "connected"  -> maintain(h, s, used)
    [] h.m_stage \notin {"wait_reply", "connected"} ->
         Result([h EXCEPT !.m_timer = TRUE], s, <<>>)

(***************************************************************************)
(* receiveFrame: a frame for the handler's port arrived                    *)
(***************************************************************************)
\* The number is copied into the low half of an uninitialised int, whose upper
\* half is whatever the stack held.
getSequenceNumber(f, upper) == f.seq + 65536 * upper

BugAcceptRequest(h, s, from, f) ==  \* mutant: the application is not told
  LET bound == [h EXCEPT !.m_dest_address = from, !.m_dest_port = f.source, !.m_timer = TRUE]
  IN  Result([bound EXCEPT !.m_stage = "connected"], s, <<Frame("reply", bound, 0, <<>>)>>)

acceptRequest(h, s, from, f) ==
  LET bound == [h EXCEPT !.m_dest_address = from, !.m_dest_port = f.source, !.m_timer = TRUE]
      r     == Reply(bound, s, "success", "connected")
  IN  Result(r.handler, r.sock,
             IF s.closed THEN <<>> ELSE <<Frame("reply", bound, 0, <<>>)>>)

BugAcceptReply(h, s) ==  \* mutant: the stage is not advanced
  LET r == Reply(h, s, "success", "wait_reply") IN Result(r.handler, r.sock, <<>>)

acceptReply(h, s) ==
  LET r == Reply(h, s, "success", "connected") IN Result(r.handler, r.sock, <<>>)

BugReceiveData(h, s, f, seq) ==  \* mutant: the order is not checked
  Result([h EXCEPT !.m_current_ack = (@ + 1) % SequenceSize,
                   !.m_msg_buffer = @ \o f.msg,
                   !.m_total_data_received = @ + Len(f.msg)], s, <<>>)

receiveData(h, s, f, seq) ==
  IF seq = h.m_current_ack
  THEN Result([h EXCEPT !.m_current_ack = (@ + 1) % SequenceSize,
                        !.m_msg_buffer = @ \o f.msg,
                        !.m_total_data_received = @ + Len(f.msg)], s, <<>>)
  ELSE Result(h, s, queueAck(h))

BugReceiveSack(h, s, seq) ==  \* mutant: the number just after the window is refused
  IF seqInsideWindow(h, seq)
  THEN LET moved == IF seq # h.m_sequence_base THEN moveWindow(h, calcMoves(h, seq)) ELSE h
       IN  Result(moved, s, queueWindow(moved))
  ELSE Result(h, s, <<>>)

receiveSack(h, s, seq) ==
  IF seqInsideWindow(h, seq) \/ seq = (h.m_sequence_base + WindowSize) % SequenceSize
  THEN LET moved == IF seq # h.m_sequence_base THEN moveWindow(h, calcMoves(h, seq)) ELSE h
       IN  Result(moved, s, queueWindow(moved))
  ELSE Result(h, s, <<>>)

BugReceiveProbe(h, s, f) ==  \* mutant: only a reply vouches for the connection
  Result([h EXCEPT !.m_connected_reply = @ \/ f.type = "reply"], s,
         IF f.type = "request" THEN <<Frame("reply", h, 0, <<>>)>> ELSE <<>>)

\* A request of the peer vouches for the connection as much as a reply does.
receiveProbe(h, s, f) ==
  Result([h EXCEPT !.m_connected_reply = TRUE], s,
         IF f.type = "request" THEN <<Frame("reply", h, 0, <<>>)>> ELSE <<>>)

BugFromPeer(h, from, f) == from = h.m_dest_address  \* mutant: the port is not checked

fromPeer(h, from, f) == from = h.m_dest_address /\ f.source = h.m_dest_port

receiveFrame(h, s, from, f, seq) ==
  CASE h.m_stage = "listen" /\ f.type = "request" -> acceptRequest(h, s, from, f)
    [] h.m_stage = "wait_reply" /\ f.type = "reply" -> acceptReply(h, s)
    [] h.m_stage = "connected" /\ fromPeer(h, from, f) /\ f.type \in {"request", "reply"} ->
         receiveProbe(h, s, f)
    [] h.m_stage = "connected" /\ fromPeer(h, from, f) /\ f.type = "data"
         /\ h.m_type = "server" -> receiveData(h, s, f, seq)
    [] h.m_stage = "connected" /\ fromPeer(h, from, f) /\ f.type = "sack"
         /\ h.m_type = "client" -> receiveSack(h, s, seq)
    [] OTHER -> Result(h, s, <<>>)
=============================================================================
