------------------------ MODULE ClientHandlerProofs ------------------------
(***************************************************************************)
(* What the entry points of a ClientHandler return, for every window and   *)
(* sequence size: the types of their results, and the arithmetic of their  *)
(* wrapping numbers.                                                       *)
(***************************************************************************)
EXTENDS ClientHandler, WellFoundedInduction, TLAPS

\* A well-typed result of an entry point.
ResultOK(r, Chunk) ==
  /\ r.handler \in HandlerType(Chunk)
  /\ r.sock \in SockType(Chunk)
  /\ r.out \in Seq(FrameType(Chunk))

\* A frame built by a handler is a frame.
LEMMA FrameOK ==
  ASSUME NEW Chunk, NEW h \in HandlerType(Chunk),
         NEW type \in {"request", "reply", "data", "sack"},
         NEW seq \in 0..SequenceSize - 1, NEW msg \in Seq(Chunk)
  PROVE  Frame(type, h, seq, msg) \in FrameType(Chunk)
<1>1. h.m_dest_port \in Nat /\ h.m_source_port \in Nat
  BY DEF HandlerType, HandlerRecord
<1>2. /\ h.m_dest_port % PortLimit \in 0..PortLimit - 1
      /\ h.m_source_port % PortLimit \in 0..PortLimit - 1
  BY <1>1, HandlerAssumption
<1> QED BY <1>2, HandlerAssumption DEF Frame, FrameType

\* A control frame, of sequence number 0 and without data.
LEMMA ControlOK ==
  ASSUME NEW Chunk, NEW h \in HandlerType(Chunk), NEW type \in {"request", "reply"}
  PROVE  Frame(type, h, 0, <<>>) \in FrameType(Chunk)
<1>1. 0 \in 0..SequenceSize - 1 /\ <<>> \in Seq(Chunk)
  BY HandlerAssumption
<1> QED BY <1>1, FrameOK

\* Dropping a prefix of a sequence, or keeping one, keeps its type.
LEMMA SubSeqOK ==
  ASSUME NEW T, NEW q \in Seq(T), NEW m \in Int, NEW n \in Int,
         m >= 1, n <= Len(q)
  PROVE  SubSeq(q, m, n) \in Seq(T)
  OBVIOUS

(* A function on 1..n is a sequence of length n: how the code fills a vector. *)
LEMMA FunctionIsSeq ==
  ASSUME NEW T, NEW n \in Nat, NEW f \in [1..n -> T]
  PROVE  f \in Seq(T) /\ Len(f) = n
OBVIOUS

\* Moving the window by any number of slots keeps the handler well typed.
LEMMA moveWindowOK ==
  ASSUME NEW Chunk, NEW h \in HandlerType(Chunk), NEW moves \in Int
  PROVE  moveWindow(h, moves) \in HandlerType(Chunk)
<1>1. CASE moves > 0
  <2> DEFINE base == (h.m_sequence_base + moves) % SequenceSize
             w    == SubSeq(h.m_frame_window, moves + 1, Len(h.m_frame_window))
  <2>1. base \in 0..SequenceSize - 1
    <3>1. h.m_sequence_base \in Nat
      BY HandlerAssumption DEF HandlerType, HandlerRecord
    <3> QED BY <3>1, HandlerAssumption
  <2>2. w \in Seq(FrameType(Chunk)) /\ Len(w) <= WindowSize
    <3>1. h.m_frame_window \in Seq(FrameType(Chunk)) /\ Len(h.m_frame_window) <= WindowSize
      BY DEF HandlerType, HandlerRecord
    <3> QED BY <1>1, <3>1, HandlerAssumption
  <2>3. moveWindow(h, moves) = [h EXCEPT !.m_frame_window = w, !.m_sequence_base = base]
    BY <1>1 DEF moveWindow
  <2> HIDE DEF base, w
  <2> QED BY <2>1, <2>2, <2>3 DEF HandlerType, HandlerRecord
<1>2. CASE ~(moves > 0)
  BY <1>2 DEF moveWindow
<1> QED BY <1>1, <1>2

\* Filling the window from the socket keeps it within WindowSize and well typed.
LEMMA loadFramesOK ==
  ASSUME NEW Chunk, NEW h \in HandlerType(Chunk), NEW s \in SockType(Chunk)
  PROVE  ResultOK(loadFrames(h, s), Chunk)
<1> DEFINE used  == Len(h.m_frame_window)
           n     == LowerOf(WindowSize - used, Len(s.in))
           seq(i) == (h.m_sequence_base + used + i - 1) % SequenceSize
           fresh == [i \in 1..n |-> Frame("data", h, seq(i), <<s.in[i]>>)]
           eof   == used + n < WindowSize /\ s.closed
           stage == IF eof /\ used + n = 0 THEN "failure" ELSE h.m_stage
           rest  == SubSeq(s.in, n + 1, Len(s.in))
           slots == h.m_frame_window \o fresh
           total == h.m_total_data_loaded + n
           h2    == [h EXCEPT !.m_frame_window = slots,
                              !.m_total_data_loaded = total, !.m_stage = stage]
           s2    == [s EXCEPT !.in = rest]
<1>1. /\ h.m_frame_window \in Seq(FrameType(Chunk)) /\ used \in 0..WindowSize
      /\ s.in \in Seq(Chunk) /\ h.m_sequence_base \in Nat
      /\ h.m_total_data_loaded \in Nat /\ stage \in Stages
  BY HandlerAssumption DEF HandlerType, HandlerRecord, SockType, Stages
<1> HIDE DEF used, stage
<1>2. /\ n \in Nat /\ n <= Len(s.in) /\ used + n <= WindowSize
  <2>1. Len(s.in) \in Nat /\ WindowSize - used \in Nat /\ WindowSize \in Nat
    BY <1>1, HandlerAssumption
  <2> QED BY <1>1, <2>1 DEF LowerOf
<1> HIDE DEF n
<1>3. \A i \in 1..n : /\ seq(i) \in 0..SequenceSize - 1 /\ <<s.in[i]>> \in Seq(Chunk)
  <2> HIDE DEF fresh, rest, slots, total, h2, s2, eof
  <2> SUFFICES ASSUME NEW i \in 1..n
              PROVE  /\ seq(i) \in 0..SequenceSize - 1 /\ <<s.in[i]>> \in Seq(Chunk)
    OBVIOUS
  <2>1. h.m_sequence_base + used + i - 1 \in Int
    BY <1>1, <1>2
  <2>2. seq(i) \in 0..SequenceSize - 1
    BY ONLY <2>1, HandlerAssumption
  <2>3. s.in[i] \in Chunk
    BY <1>1, <1>2
  <2>4. <<s.in[i]>> \in Seq(Chunk)
    BY <2>3
  <2> QED BY ONLY <2>2, <2>4
<1>4. fresh \in Seq(FrameType(Chunk)) /\ Len(fresh) = n
  <2>1. \A i \in 1..n : Frame("data", h, seq(i), <<s.in[i]>>) \in FrameType(Chunk)
    BY <1>3, FrameOK
  <2> HIDE DEF seq, eof, rest, slots, total, h2, s2
  <2>2. fresh \in [1..n -> FrameType(Chunk)]
    BY <2>1
  <2> HIDE DEF fresh
  <2> QED BY ONLY <1>2, <2>2, FunctionIsSeq
<1> HIDE DEF fresh
<1>5. slots \in Seq(FrameType(Chunk)) /\ Len(slots) <= WindowSize /\ total \in Nat
  BY <1>1, <1>2, <1>4, HandlerAssumption DEF used
<1>6. rest \in Seq(Chunk)
  BY <1>1, <1>2, SubSeqOK
<1>7. h2 \in HandlerType(Chunk)
  <2> HIDE DEF slots, total
  <2> QED BY <1>1, <1>5 DEF HandlerType, HandlerRecord
<1>8. s2 \in SockType(Chunk)
  BY <1>6 DEF SockType
<1>9. loadFrames(h, s) = Result(h2, s2, <<>>)
  BY DEF loadFrames, fresh, used, n, stage
<1> QED BY <1>7, <1>8, <1>9 DEF ResultOK, Result

(***************************************************************************)
(* What the events of an application leave of its socket.                  *)
(***************************************************************************)
\* A socket whose event was taken, or that has a new one.
LEMMA Notified ==
  ASSUME NEW Chunk, NEW s \in SockType(Chunk), NEW b \in BOOLEAN
  PROVE  LET t == [s EXCEPT !.event = b]
         IN  /\ t \in SockType(Chunk) /\ t.ask = s.ask /\ t.reply = s.reply
             /\ t.in = s.in /\ t.delivered = s.delivered
BY DEF SockType

\* A socket with another item of a request.
LEMMA Requested ==
  ASSUME NEW Chunk, NEW s \in SockType(Chunk), NEW n \in 0..3
  PROVE  LET t == [s EXCEPT !.request = n, !.event = TRUE]
         IN  /\ t \in SockType(Chunk) /\ t.ask = s.ask /\ t.reply = s.reply
             /\ t.in = s.in /\ t.delivered = s.delivered
BY DEF SockType

\* A socket that was written to.
LEMMA WrittenTo ==
  ASSUME NEW Chunk, NEW s \in SockType(Chunk), NEW q \in Seq(Chunk)
  PROVE  LET t == [s EXCEPT !.in = q, !.event = TRUE]
         IN  /\ t \in SockType(Chunk) /\ t.ask = s.ask /\ t.reply = s.reply
             /\ t.in = q /\ t.delivered = s.delivered
BY DEF SockType

\* A socket that was read from.
LEMMA ReadFrom ==
  ASSUME NEW Chunk, NEW s \in SockType(Chunk), NEW n \in 0..SockCapacity
  PROVE  LET t == [s EXCEPT !.unread = n]
         IN  /\ t \in SockType(Chunk) /\ t.ask = s.ask /\ t.reply = s.reply
             /\ t.in = s.in /\ t.delivered = s.delivered
BY DEF SockType

\* A socket that was closed.
LEMMA ClosedBy ==
  ASSUME NEW Chunk, NEW s \in SockType(Chunk)
  PROVE  LET t == [s EXCEPT !.closed = TRUE, !.event = TRUE]
         IN  /\ t \in SockType(Chunk) /\ t.ask = s.ask /\ t.reply = s.reply
             /\ t.in = s.in /\ t.delivered = s.delivered
BY DEF SockType

\* The acknowledgement a handler sends is a frame.
LEMMA queueAckOK ==
  ASSUME NEW Chunk, NEW h \in HandlerType(Chunk)
  PROVE  queueAck(h) \in Seq(FrameType(Chunk))
<1>1. h.m_current_ack \in 0..SequenceSize - 1 /\ <<>> \in Seq(Chunk)
  BY DEF HandlerType, HandlerRecord
<1>2. Frame("sack", h, h.m_current_ack, <<>>) \in FrameType(Chunk)
  BY <1>1, FrameOK
<1> QED BY <1>2 DEF queueAck

\* Resending the window sends frames.
LEMMA queueWindowOK ==
  ASSUME NEW Chunk, NEW h \in HandlerType(Chunk)
  PROVE  queueWindow(h) \in Seq(FrameType(Chunk))
BY DEF queueWindow, HandlerType, HandlerRecord

\* Flushing the message buffer keeps buffer, socket and stage well typed.
LEMMA sendToSockOK ==
  ASSUME NEW Chunk, NEW h \in HandlerType(Chunk), NEW s \in SockType(Chunk)
  PROVE  ResultOK(sendToSock(h, s), Chunk)
<1> DEFINE n     == LowerOf(Len(h.m_msg_buffer), SockCapacity - s.unread)
           stage == IF h.m_msg_buffer = <<>> THEN h.m_stage ELSE "sigpipe"
           rest  == SubSeq(h.m_msg_buffer, n + 1, Len(h.m_msg_buffer))
           given == s.delivered \o SubSeq(h.m_msg_buffer, 1, n)
<1>1. /\ h.m_msg_buffer \in Seq(Chunk) /\ s.delivered \in Seq(Chunk)
      /\ s.unread \in 0..SockCapacity /\ stage \in Stages
  BY DEF HandlerType, HandlerRecord, SockType, Stages
<1>2. n \in Nat /\ n <= Len(h.m_msg_buffer) /\ s.unread + n \in 0..SockCapacity
  BY <1>1, HandlerAssumption DEF LowerOf
<1> HIDE DEF n, stage
<1>3. rest \in Seq(Chunk) /\ SubSeq(h.m_msg_buffer, 1, n) \in Seq(Chunk)
  BY <1>1, <1>2, SubSeqOK
<1>4. given \in Seq(Chunk)
  BY <1>1, <1>3
<1> HIDE DEF rest, given
<1>5. [h EXCEPT !.m_stage = stage] \in HandlerType(Chunk)
  BY <1>1 DEF HandlerType, HandlerRecord
<1>6. [h EXCEPT !.m_msg_buffer = rest] \in HandlerType(Chunk)
  BY <1>3 DEF HandlerType, HandlerRecord
<1>7. [s EXCEPT !.delivered = given, !.unread = @ + n] \in SockType(Chunk)
  BY <1>2, <1>4 DEF SockType
<1>8. sendToSock(h, s) =
        IF s.closed THEN Result([h EXCEPT !.m_stage = stage], s, <<>>)
        ELSE Result([h EXCEPT !.m_msg_buffer = rest],
                    [s EXCEPT !.delivered = given, !.unread = @ + n], <<>>)
  BY DEF sendToSock, n, stage, rest, given
<1> QED BY <1>5, <1>6, <1>7, <1>8 DEF ResultOK, Result

\* A nonempty set of natural numbers has a least element.
LEMMA NatMin ==
  ASSUME NEW T, T \subseteq Nat, T # {}
  PROVE  \E x \in T : \A y \in T : x <= y
<1> DEFINE less == {ss \in Nat \X Nat : ss[1] < ss[2]}
<1>1. IsWellFoundedOn(less, Nat)
  BY NatLessThanWellFounded DEF OpToRel
<1>2. PICK x \in T : \A y \in T : <<y, x>> \notin less
  <2> HIDE DEF less
  <2> QED BY <1>1, WFMin, Zenon
<1>3. ASSUME NEW y \in T, y < x PROVE FALSE
  <2> DEFINE p == <<y, x>>
  <2>1. p \in Nat \X Nat /\ p[1] < p[2]
    BY <1>3
  <2>2. p \in less
    BY <2>1
  <2> QED BY <1>2, <2>2
<1> QED BY <1>3

\* getFreePort returns a free port below the limit, or 0 if there is none.
LEMMA getFreePortOK ==
  ASSUME NEW used
  PROVE  /\ getFreePort(used) \in Nat /\ getFreePort(used) < PortLimit
         /\ getFreePort(used) > 0 => getFreePort(used) \notin used
<1> DEFINE free == {p \in 1..(PortLimit - 2) : isPortFree(p, used)}
<1>1. CASE free = {}
  BY <1>1, HandlerAssumption DEF getFreePort
<1>2. CASE free # {}
  <2>1. free \subseteq Nat /\ \A p \in free : p < PortLimit
    BY HandlerAssumption
  <2>2. \E p \in free : \A q \in free : p <= q
    BY <1>2, <2>1, NatMin
  <2>3. getFreePort(used) = CHOOSE p \in free : \A q \in free : p <= q
    BY <1>2 DEF getFreePort
  <2>4. getFreePort(used) \in free
    <3> HIDE DEF free
    <3> QED BY <2>2, <2>3
  <2> QED BY <2>1, <2>4 DEF isPortFree
<1> QED BY <1>1, <1>2
Replies == {"none", "success", "timeout", "usedport"}

\* A handler that answers a request is well typed.
LEMMA ReplyOK ==
  ASSUME NEW Chunk, NEW h \in HandlerType(Chunk), NEW s \in SockType(Chunk),
         NEW reply \in Replies, NEW stage \in Stages
  PROVE  /\ Reply(h, s, reply, stage).handler \in HandlerType(Chunk)
         /\ Reply(h, s, reply, stage).sock \in SockType(Chunk)
<1>1. \A g \in Stages : [h EXCEPT !.m_stage = g] \in HandlerType(Chunk)
  BY DEF HandlerType, HandlerRecord
<1>2. [s EXCEPT !.reply = reply] \in SockType(Chunk)
  BY DEF SockType, Replies
<1> QED BY <1>1, <1>2 DEF Reply, Stages

\* An answer without frames.
LEMMA AnswerOK ==
  ASSUME NEW Chunk, NEW h \in HandlerType(Chunk), NEW s \in SockType(Chunk),
         NEW reply \in Replies, NEW stage \in Stages,
         NEW out \in Seq(FrameType(Chunk)), NEW r,
         r = Reply(h, s, reply, stage)
  PROVE  ResultOK(Result(r.handler, r.sock, out), Chunk)
BY ReplyOK DEF ResultOK, Result

\* Reading a request from the application socket returns a well-typed result.
LEMMA handleRequestOK ==
  ASSUME NEW Chunk, NEW h \in HandlerType(Chunk), NEW s \in SockType(Chunk), NEW used
  PROVE  ResultOK(handleRequest(h, s, used), Chunk)
<1> DEFINE r    == readRequest(h, s)
           port == getFreePort(used)
           conn == [r EXCEPT !.m_source_port = port, !.m_stage = "wait_reply", !.m_timer = TRUE]
<1>1. r \in HandlerType(Chunk)
  <2>1. s.ask.kind \in {"client", "server"} /\ s.ask.address \in Nat /\ s.ask.port \in Nat
    BY DEF SockType
  <2> QED BY <2>1 DEF readRequest, HandlerType, HandlerRecord, Types
<1>2. port \in Nat
  BY getFreePortOK
<1> HIDE DEF r, port
<1>3. CASE s.request < RequestItems(r.m_type)
  <2> DEFINE stage == IF s.closed THEN "failure" ELSE r.m_stage
  <2>1. stage \in Stages
    BY <1>1 DEF HandlerType, HandlerRecord, Stages
  <2> HIDE DEF stage
  <2>2. [r EXCEPT !.m_stage = stage] \in HandlerType(Chunk)
    BY <1>1, <2>1 DEF HandlerType, HandlerRecord
  <2>3. handleRequest(h, s, used) = Result([r EXCEPT !.m_stage = stage], s, <<>>)
    BY <1>1, <1>3 DEF handleRequest, r, stage, RequestItems, SockType
  <2> QED BY <2>2, <2>3 DEF ResultOK, Result
<1>4. ResultOK(Refuse(r, s), Chunk)
  <2>1. <<>> \in Seq(FrameType(Chunk)) /\ "usedport" \in Replies /\ "failure" \in Stages
    BY DEF Replies, Stages
  <2> QED BY <1>1, <2>1, AnswerOK DEF Refuse
<1>5. CASE ~(s.request < RequestItems(r.m_type)) /\ r.m_type = "server"
  <2> DEFINE r2 == [r EXCEPT !.m_source_port = s.ask.port, !.m_stage = "listen"]
  <2>1. s.ask.port \in Nat
    BY DEF SockType
  <2>2. r2 \in HandlerType(Chunk)
    BY <1>1, <2>1 DEF HandlerType, HandlerRecord, Stages
  <2>3. handleRequest(h, s, used) =
          IF isPortFree(s.ask.port, used) THEN Result(r2, s, <<>>) ELSE Refuse(r, s)
    BY <1>5 DEF handleRequest, r, RequestItems, SockType
  <2> QED BY <1>4, <2>2, <2>3 DEF ResultOK, Result
<1>6. CASE ~(s.request < RequestItems(r.m_type)) /\ r.m_type = "client"
  <2>1. conn \in HandlerType(Chunk)
    BY <1>1, <1>2 DEF HandlerType, HandlerRecord, Stages
  <2>2. Frame("request", conn, 0, <<>>) \in FrameType(Chunk)
    BY <2>1, ControlOK
  <2>3. handleRequest(h, s, used) =
          IF port > 0 THEN Result(conn, s, <<Frame("request", conn, 0, <<>>)>>)
          ELSE Refuse(r, s)
    BY <1>6 DEF handleRequest, r, port, RequestItems, SockType
  <2> HIDE DEF conn
  <2> QED BY <1>4, <2>1, <2>2, <2>3 DEF ResultOK, Result
<1>7. r.m_type = "null" => s.request < RequestItems(r.m_type)
  BY DEF r, readRequest, RequestItems, SockType
<1>8. r.m_type \in Types
  BY <1>1 DEF HandlerType, HandlerRecord
<1> QED BY <1>3, <1>5, <1>6, <1>7, <1>8 DEF Types

\* handleSock, and an answer that changes nothing.
LEMMA handleSockOK ==
  ASSUME NEW Chunk, NEW h \in HandlerType(Chunk), NEW s \in SockType(Chunk), NEW used
  PROVE  ResultOK(handleSock(h, s, used), Chunk)
<1>1. ResultOK(Result(h, s, <<>>), Chunk)
  BY DEF ResultOK, Result
<1> QED BY <1>1, handleRequestOK, sendToSockOK, loadFramesOK DEF handleSock

\* Maintaining a connection returns a well-typed result.
LEMMA maintainOK ==
  ASSUME NEW Chunk, NEW h \in HandlerType(Chunk), NEW s \in SockType(Chunk), NEW used
  PROVE  ResultOK(maintain(h, s, used), Chunk)
<1> DEFINE first  == handleSock(h, s, used)
           mid    == first.handler
           resend == IF h.m_type = "server" THEN queueAck(mid) ELSE queueWindow(mid)
           last   == IF h.m_type = "server" THEN sendToSock(mid, first.sock) ELSE first
           probe  == Frame("request", h, 0, <<>>)
<1>1. ResultOK(first, Chunk)
  BY handleSockOK
<1>2. mid \in HandlerType(Chunk) /\ first.sock \in SockType(Chunk)
  BY <1>1 DEF ResultOK
<1> HIDE DEF first, mid
<1>3. ResultOK(last, Chunk)
  BY <1>1, <1>2, sendToSockOK
<1>4. resend \in Seq(FrameType(Chunk))
  BY <1>2, queueAckOK, queueWindowOK
<1>5. probe \in FrameType(Chunk)
  BY ControlOK
<1> HIDE DEF last, resend, probe
<1>6. /\ [last.handler EXCEPT !.m_stage = "failure"] \in HandlerType(Chunk)
      /\ [last.handler EXCEPT !.m_connected_reply = FALSE] \in HandlerType(Chunk)
  BY <1>3 DEF ResultOK, HandlerType, HandlerRecord, Stages
<1>7. Append(resend, probe) \in Seq(FrameType(Chunk))
  BY <1>4, <1>5
<1>8. maintain(h, s, used) =
        IF last.handler.m_stage = "sigpipe" THEN last
        ELSE IF ~h.m_connected_reply
        THEN Result([last.handler EXCEPT !.m_stage = "failure"], last.sock, resend)
        ELSE Result([last.handler EXCEPT !.m_connected_reply = FALSE], last.sock,
                    Append(resend, probe))
  BY DEF maintain, first, mid, last, resend, probe
<1> QED BY <1>3, <1>4, <1>6, <1>7, <1>8 DEF ResultOK, Result

\* A timer tick returns a well-typed result.
LEMMA handleTimerOK ==
  ASSUME NEW Chunk, NEW h \in HandlerType(Chunk), NEW s \in SockType(Chunk), NEW used
  PROVE  ResultOK(handleTimer(h, s, used), Chunk)
<1>1. ResultOK(Result([h EXCEPT !.m_timer = TRUE], s, <<>>), Chunk)
  <2>1. [h EXCEPT !.m_timer = TRUE] \in HandlerType(Chunk)
    BY DEF HandlerType, HandlerRecord
  <2> QED BY <2>1 DEF ResultOK, Result
<1>2. ResultOK(replyTimeout(h, s), Chunk)
  <2>1. <<>> \in Seq(FrameType(Chunk)) /\ "timeout" \in Replies /\ "failure" \in Stages
    BY DEF Replies, Stages
  <2> QED BY <2>1, AnswerOK DEF replyTimeout
<1> QED BY <1>1, <1>2, maintainOK DEF handleTimer

\* Taking up a peer's request keeps the handler well typed.
LEMMA acceptRequestOK ==
  ASSUME NEW Chunk, NEW h \in HandlerType(Chunk), NEW s \in SockType(Chunk),
         NEW from \in Nat, NEW f \in FrameType(Chunk)
  PROVE  ResultOK(acceptRequest(h, s, from, f), Chunk)
<1> DEFINE bound == [h EXCEPT !.m_dest_address = from, !.m_dest_port = f.source,
                              !.m_timer = TRUE]
           out   == IF s.closed THEN <<>> ELSE <<Frame("reply", bound, 0, <<>>)>>
<1>1. f.source \in Nat
  BY HandlerAssumption DEF FrameType
<1>2. bound \in HandlerType(Chunk)
  BY <1>1 DEF HandlerType, HandlerRecord
<1>3. Frame("reply", bound, 0, <<>>) \in FrameType(Chunk)
  BY <1>2, ControlOK
<1>4. out \in Seq(FrameType(Chunk))
  BY <1>3
<1>5. "success" \in Replies /\ "connected" \in Stages
  BY DEF Replies, Stages
<1>6. acceptRequest(h, s, from, f) =
        LET r == Reply(bound, s, "success", "connected") IN Result(r.handler, r.sock, out)
  BY DEF acceptRequest
<1> HIDE DEF bound, out
<1> QED BY <1>2, <1>4, <1>5, <1>6, AnswerOK

\* Taking up a peer's reply keeps the handler well typed.
LEMMA acceptReplyOK ==
  ASSUME NEW Chunk, NEW h \in HandlerType(Chunk), NEW s \in SockType(Chunk)
  PROVE  ResultOK(acceptReply(h, s), Chunk)
<1>1. <<>> \in Seq(FrameType(Chunk)) /\ "success" \in Replies /\ "connected" \in Stages
  BY DEF Replies, Stages
<1> QED BY <1>1, AnswerOK DEF acceptReply

\* Receiving data returns a well-typed result.
LEMMA receiveDataOK ==
  ASSUME NEW Chunk, NEW h \in HandlerType(Chunk), NEW s \in SockType(Chunk),
         NEW f \in FrameType(Chunk), NEW seq
  PROVE  ResultOK(receiveData(h, s, f, seq), Chunk)
<1> DEFINE ack   == (h.m_current_ack + 1) % SequenceSize
           buf   == h.m_msg_buffer \o f.msg
           total == h.m_total_data_received + Len(f.msg)
           h2    == [h EXCEPT !.m_current_ack = ack, !.m_msg_buffer = buf,
                              !.m_total_data_received = total]
<1>1. /\ h.m_current_ack \in Nat /\ h.m_msg_buffer \in Seq(Chunk)
      /\ h.m_total_data_received \in Nat /\ f.msg \in Seq(Chunk)
  BY HandlerAssumption DEF HandlerType, HandlerRecord, FrameType
<1>2. ack \in 0..SequenceSize - 1 /\ buf \in Seq(Chunk) /\ total \in Nat
  BY <1>1, HandlerAssumption
<1>3. receiveData(h, s, f, seq) =
        IF seq = h.m_current_ack THEN Result(h2, s, <<>>) ELSE Result(h, s, queueAck(h))
  BY DEF receiveData
<1> HIDE DEF ack, buf, total
<1>4. h2 \in HandlerType(Chunk)
  BY <1>2 DEF HandlerType, HandlerRecord
<1> QED BY <1>3, <1>4, queueAckOK DEF ResultOK, Result

\* Receiving an acknowledgement, of any number, keeps the handler well typed.
LEMMA receiveSackOK ==
  ASSUME NEW Chunk, NEW h \in HandlerType(Chunk), NEW s \in SockType(Chunk), NEW seq \in Int
  PROVE  ResultOK(receiveSack(h, s, seq), Chunk)
<1> DEFINE moved == IF seq # h.m_sequence_base THEN moveWindow(h, calcMoves(h, seq)) ELSE h
<1>1. calcMoves(h, seq) \in Int
  BY HandlerAssumption DEF calcMoves, HandlerType, HandlerRecord
<1>2. moved \in HandlerType(Chunk)
  BY <1>1, moveWindowOK
<1>3. ResultOK(Result(moved, s, queueWindow(moved)), Chunk)
  <2> HIDE DEF moved
  <2> QED BY <1>2, queueWindowOK DEF ResultOK, Result
<1>4. ResultOK(Result(h, s, <<>>), Chunk)
  BY DEF ResultOK, Result
<1> QED BY <1>3, <1>4 DEF receiveSack

\* Receiving a probe of a request or reply returns a well-typed result.
LEMMA receiveProbeOK ==
  ASSUME NEW Chunk, NEW h \in HandlerType(Chunk), NEW s \in SockType(Chunk),
         NEW f \in FrameType(Chunk)
  PROVE  ResultOK(receiveProbe(h, s, f), Chunk)
<1>1. Frame("reply", h, 0, <<>>) \in FrameType(Chunk)
  BY ControlOK
<1>2. [h EXCEPT !.m_connected_reply = TRUE] \in HandlerType(Chunk)
  BY DEF HandlerType, HandlerRecord
<1> QED BY <1>1, <1>2 DEF receiveProbe, ResultOK, Result

\* Receiving any frame, under any sequence number read from it, returns a
\* well-typed result.
LEMMA receiveFrameOK ==
  ASSUME NEW Chunk, NEW h \in HandlerType(Chunk), NEW s \in SockType(Chunk),
         NEW from \in Nat, NEW f \in FrameType(Chunk), NEW seq \in Int
  PROVE  ResultOK(receiveFrame(h, s, from, f, seq), Chunk)
<1>1. ResultOK(Result(h, s, <<>>), Chunk)
  BY DEF ResultOK, Result
<1> QED BY <1>1, acceptRequestOK, acceptReplyOK, receiveDataOK, receiveSackOK,
           receiveProbeOK DEF receiveFrame

(***************************************************************************)
(* Facts about numbers that wrap: what the arithmetic modulo               *)
(* m_sequence_size rests on.                                               *)
(***************************************************************************)
\* A remainder is below the sequence size.
LEMMA ModRange ==
  ASSUME NEW S \in Nat \ {0}, NEW a \in Int
  PROVE  a % S \in 0..S - 1
OBVIOUS

\* An integer is a multiple of the sequence size and its remainder.
LEMMA DivMod ==
  ASSUME NEW S \in Nat \ {0}, NEW a \in Int
  PROVE  a = S * (a \div S) + (a % S) /\ a \div S \in Int
OBVIOUS

\* The only multiple of S strictly between -S and S is 0.
LEMMA NoMultiple ==
  ASSUME NEW S \in Nat \ {0}, NEW k \in Int, -S < S * k, S * k < S
  PROVE  k = 0
<1>1. ASSUME k >= 1 PROVE FALSE
  <2>1. S * (k - 1) >= 0
    BY <1>1
  <2>2. S * k = S * (k - 1) + S
    OBVIOUS
  <2> QED BY <2>1, <2>2
<1>2. ASSUME k <= -1 PROVE FALSE
  <2>1. S * (0 - 1 - k) >= 0
    BY <1>2
  <2>2. S * k = -(S * (0 - 1 - k)) - S
    OBVIOUS
  <2> QED BY <2>1, <2>2
<1> QED BY <1>1, <1>2

\* Quotient and remainder are unique.
LEMMA ModUnique ==
  ASSUME NEW S \in Nat \ {0}, NEW q \in Int, NEW r \in 0..S - 1, NEW x \in Int,
         x = S * q + r
  PROVE  x % S = r
<1> DEFINE d == x \div S
           m == x % S
<1>1. x = S * d + m /\ d \in Int /\ m \in 0..S - 1
  BY DivMod, ModRange
<1> HIDE DEF d, m
<1>2. S * (q - d) = S * q - S * d /\ S * q \in Int /\ S * d \in Int /\ q - d \in Int
  BY <1>1
<1>3. S * (q - d) = m - r
  BY <1>1, <1>2
<1>4. -S < S * (q - d) /\ S * (q - d) < S
  BY ONLY <1>1, <1>3, S \in Nat \ {0}, r \in 0..S - 1
<1>5. q - d = 0
  BY ONLY <1>2, <1>4, NoMultiple, S \in Nat \ {0}
<1>6. S * (q - d) = 0
  BY ONLY <1>5, S \in Nat \ {0}
<1>7. m = r
  BY ONLY <1>1, <1>3, <1>6, r \in 0..S - 1
<1> QED BY <1>7 DEF m

\* Two numbers less than S apart with one remainder are equal: what tells the
\* turns of the sequence numbers apart.
LEMMA ModEq ==
  ASSUME NEW S \in Nat \ {0}, NEW a \in Int, NEW b \in Int,
         a < b + S, b < a + S, a % S = b % S
  PROVE  a = b
<1> DEFINE d == a \div S
           e == b \div S
           m == a % S
<1>1. a = S * d + m /\ d \in Int /\ b = S * e + m /\ e \in Int /\ m \in 0..S - 1
  BY DivMod, ModRange
<1> HIDE DEF d, e, m
<1>2. S * (e - d) = S * e - S * d /\ S * e \in Int /\ S * d \in Int /\ e - d \in Int
  BY <1>1
<1>3. S * (e - d) = b - a
  BY <1>1, <1>2
<1>4. -S < S * (e - d) /\ S * (e - d) < S
  BY ONLY <1>3, S \in Nat \ {0}, a \in Int, b \in Int, a < b + S, b < a + S
<1>5. e - d = 0
  BY ONLY <1>2, <1>4, NoMultiple, S \in Nat \ {0}
<1>6. S * (e - d) = 0
  BY ONLY <1>5, S \in Nat \ {0}
<1> QED BY ONLY <1>3, <1>6, a \in Int, b \in Int

\* Counting on from a remainder.
LEMMA ModAdd ==
  ASSUME NEW S \in Nat \ {0}, NEW a \in Int, NEW b \in Int
  PROVE  ((a % S) + b) % S = (a + b) % S
<1> DEFINE d == a \div S
           e == (a + b) \div S
           m == a % S
           r == (a + b) % S
           c == e - d
           x == m + b
<1>1. /\ a = S * d + m /\ d \in Int /\ m \in 0..S - 1
      /\ a + b = S * e + r /\ e \in Int /\ r \in 0..S - 1
  <2>1. a + b \in Int
    OBVIOUS
  <2>2. a = S * d + m /\ d \in Int /\ m \in 0..S - 1
    BY ONLY DivMod, ModRange, S \in Nat \ {0}, a \in Int
  <2>3. a + b = S * e + r /\ e \in Int /\ r \in 0..S - 1
    BY ONLY <2>1, DivMod, ModRange, S \in Nat \ {0}
  <2> QED BY <2>2, <2>3
<1> HIDE DEF d, e, m, r
<1>2. S * c = S * e - S * d /\ S * e \in Int /\ S * d \in Int /\ c \in Int
  BY <1>1
<1> HIDE DEF c
<1>3. x = S * c + r /\ x \in Int
  BY <1>1, <1>2
<1> HIDE DEF x
<1>4. x % S = r
  BY ONLY <1>1, <1>2, <1>3, ModUnique, S \in Nat \ {0}
<1> QED BY <1>4 DEF m, r, x

\* A number below S is its own remainder, one of the next turn loses S.
LEMMA ModSmall ==
  ASSUME NEW S \in Nat \ {0}, NEW x \in 0..2 * S - 1
  PROVE  x % S = IF x < S THEN x ELSE x - S
<1>1. CASE x < S
  <2>1. x \in 0..S - 1 /\ x \in Int
    BY <1>1
  <2>2. S * 0 = 0
    OBVIOUS
  <2>3. x = S * 0 + x
    BY <2>1, <2>2
  <2>4. x % S = x
    BY ONLY <2>1, <2>3, ModUnique, S \in Nat \ {0}, 0 \in Int
  <2> QED BY <1>1, <2>4
<1>2. CASE ~(x < S)
  <2>1. x - S \in 0..S - 1 /\ x \in Int
    BY <1>2
  <2>2. S * 1 = S
    OBVIOUS
  <2>3. x = S * 1 + (x - S)
    BY <2>1, <2>2
  <2>4. x % S = x - S
    BY ONLY <2>1, <2>3, ModUnique, S \in Nat \ {0}, 1 \in Int
  <2> QED BY <1>2, <2>4
<1> QED BY <1>1, <1>2
=============================================================================
