------------------------ MODULE TransportDaemonProofs ------------------------
(***************************************************************************)
(* Theorems about the transport daemons, for every set of applications and *)
(* nodes, every window and every loss: ports are distinct, and a port and  *)
(* an address tell whose data a listening application is given.            *)
(***************************************************************************)
EXTENDS TransportDaemon, ClientHandlerProofs

(***************************************************************************)
(* The inductive invariant.                                                *)
(***************************************************************************)
\* The port of a handler: none before its request is complete, one that fits in
\* a frame unless the application asked for it.
PortOK(h) ==
  /\ h.m_stage = "application" => h.m_source_port = 0
  /\ h.m_type # "server" => h.m_source_port < PortLimit

\* Only a client fills its window, once it is connected, under its own port.
WindowOK(h) ==
  /\ h.m_type # "client" \/ h.m_stage = "application" => h.m_frame_window = <<>>
  /\ \A i \in 1..Len(h.m_frame_window) : h.m_frame_window[i].source = h.m_source_port

\* Only a server has data for its application.
BufferOK(h, s) ==
  h.m_type # "server" => h.m_msg_buffer = <<>> /\ s.delivered = <<>>

\* Application c sits behind the address and port that a's handler is bound to.
Behind(a, c) ==
  /\ handler[a].m_stage \notin {"application", "listen"}
  /\ handler[c].m_stage # "application"
  /\ NodeOf[c] = handler[a].m_dest_address
  /\ handler[c].m_source_port = handler[a].m_dest_port

\* The chunks that may be in the hands of a's handler and socket.
Data(a) ==
  IF Ask[a].kind = "client" THEN {x \in Chunk : x.app = a}
  ELSE {x \in Chunk : Behind(a, x.app)}

\* Data under way from node m was written behind the port it comes from.
FrameFrom(f, m) ==
  f.type = "data" => \A j \in 1..Len(f.msg) :
    LET c == f.msg[j].app
    IN  /\ NodeOf[c] = m /\ handler[c].m_stage # "application"
        /\ handler[c].m_source_port = f.source

FramesFrom(w, m) == \A i \in 1..Len(w) : FrameFrom(w[i], m)

EndInv(a) ==
  /\ sock[a].ask = Ask[a] /\ handler[a].m_type \in {"null", Ask[a].kind}
  /\ PortOK(handler[a]) /\ WindowOK(handler[a]) /\ BufferOK(handler[a], sock[a])
  /\ handler[a] \in HandlerType(Data(a)) /\ sock[a] \in SockType(Data(a))
  /\ a \notin accepted => handler[a].m_stage = "application"

DataInv ==
  /\ TypeOK
  /\ \A a \in App : EndInv(a)
  /\ \A m, n \in Node : FramesFrom(net[m][n], m)

DaemonInv == DataInv /\ PortsDistinct

(***************************************************************************)
(* What an entry point does to the ends of a connection.                   *)
(***************************************************************************)
SameEnds(h, g) ==
  /\ g.m_type = h.m_type /\ g.m_source_port = h.m_source_port
  /\ g.m_dest_address = h.m_dest_address /\ g.m_dest_port = h.m_dest_port

\* An entry point that does not bind the handler.
Unbound(h, s, r) ==
  /\ SameEnds(h, r.handler) /\ r.sock.ask = s.ask
  /\ r.handler.m_stage = h.m_stage \/ r.handler.m_stage \notin {"application", "listen"}
  /\ r.out # <<>> => r.handler.m_stage # "application"

\* What every entry point of a handler with ports in use on its node does.
EndsStep(h, s, r, used) ==
  LET g == r.handler
  IN  /\ r.sock.ask = s.ask /\ g.m_type \in {h.m_type, s.ask.kind} /\ PortOK(g)
      /\ h.m_stage # "application" =>
           g.m_stage # "application" /\ g.m_source_port = h.m_source_port
      /\ g.m_source_port = h.m_source_port \/ g.m_source_port \notin used
      /\ h.m_stage \notin {"application", "listen"} =>
           /\ g.m_stage \notin {"application", "listen"}
           /\ g.m_dest_address = h.m_dest_address /\ g.m_dest_port = h.m_dest_port
      /\ r.out # <<>> => g.m_stage # "application"

\* A handler that is not bound takes such a step.
LEMMA UnboundStep ==
  ASSUME NEW h, NEW s, NEW r, NEW used, PortOK(h), Unbound(h, s, r)
  PROVE  EndsStep(h, s, r, used)
BY DEF Unbound, SameEnds, EndsStep, PortOK

\* An answer binds nothing.
LEMMA ReplyEnds ==
  ASSUME NEW Chunks, NEW h \in HandlerType(Chunks), NEW s \in SockType(Chunks),
         NEW reply, NEW stage
  PROVE  LET r == Reply(h, s, reply, stage)
         IN  /\ SameEnds(h, r.handler) /\ r.handler.m_stage \in {stage, "sigpipe"}
             /\ r.sock.ask = s.ask
<1>1. CASE s.closed
  BY <1>1 DEF Reply, SameEnds, HandlerType, HandlerRecord
<1>2. CASE ~s.closed
  BY <1>2 DEF Reply, SameEnds, HandlerType, HandlerRecord, SockType
<1> QED BY <1>1, <1>2

\* The entry points of a connection, and the answers, bind nothing.
LEMMA StreamUnbound ==
  ASSUME NEW Chunks, NEW h \in HandlerType(Chunks), NEW s \in SockType(Chunks)
  PROVE  /\ Unbound(h, s, Result(h, s, <<>>))
         /\ Unbound(h, s, Result([h EXCEPT !.m_timer = TRUE], s, <<>>))
         /\ Unbound(h, s, loadFrames(h, s)) /\ Unbound(h, s, sendToSock(h, s))
         /\ Unbound(h, s, replyTimeout(h, s)) /\ Unbound(h, s, acceptReply(h, s))
         /\ Unbound(h, s, Refuse(h, s))
<1>1. /\ Unbound(h, s, Result(h, s, <<>>))
      /\ Unbound(h, s, Result([h EXCEPT !.m_timer = TRUE], s, <<>>))
  BY DEF Unbound, SameEnds, Result, HandlerType, HandlerRecord
<1>2. Unbound(h, s, loadFrames(h, s)) /\ Unbound(h, s, sendToSock(h, s))
  BY DEF Unbound, SameEnds, Result, loadFrames, sendToSock, HandlerType, HandlerRecord,
         SockType
<1>3. ASSUME NEW reply, NEW stage, stage \notin {"application", "listen"}
      PROVE  LET r == Reply(h, s, reply, stage)
             IN  Unbound(h, s, Result(r.handler, r.sock, <<>>))
  BY <1>3, ReplyEnds DEF Unbound, Result
<1> QED BY <1>1, <1>2, <1>3 DEF replyTimeout, acceptReply, Refuse

\* Nor do the frames of an established connection.
LEMMA FramesUnbound ==
  ASSUME NEW Chunks, NEW h \in HandlerType(Chunks), NEW s \in SockType(Chunks),
         h.m_stage = "connected", NEW f, NEW seq
  PROVE  /\ Unbound(h, s, receiveProbe(h, s, f)) /\ Unbound(h, s, receiveData(h, s, f, seq))
         /\ Unbound(h, s, receiveSack(h, s, seq))
<1>1. /\ Unbound(h, s, receiveProbe(h, s, f))
      /\ Unbound(h, s, receiveData(h, s, f, seq))
  BY DEF Unbound, SameEnds, Result, receiveProbe, receiveData, HandlerType, HandlerRecord
<1>2. \A moves : /\ SameEnds(h, moveWindow(h, moves))
                 /\ moveWindow(h, moves).m_stage = "connected"
  BY DEF moveWindow, SameEnds, HandlerType, HandlerRecord
<1>3. Unbound(h, s, receiveSack(h, s, seq))
  BY <1>2 DEF Unbound, receiveSack, Result, SameEnds
<1> QED BY <1>1, <1>3

\* A timer tick of a connection binds nothing.
LEMMA MaintainUnbound ==
  ASSUME NEW Chunks, NEW h \in HandlerType(Chunks), NEW s \in SockType(Chunks), NEW used,
         h.m_stage = "connected"
  PROVE  Unbound(h, s, maintain(h, s, used))
<1> DEFINE first == handleSock(h, s, used)
           final == IF h.m_type = "server" THEN sendToSock(first.handler, first.sock)
                    ELSE first
           g == [final.handler EXCEPT !.m_stage = "failure"]
           k == [final.handler EXCEPT !.m_connected_reply = FALSE]
<1>1. ResultOK(first, Chunks) /\ Unbound(h, s, first)
  BY handleSockOK, StreamUnbound DEF handleSock
<1> HIDE DEF first
<1>2. /\ ResultOK(final, Chunks) /\ SameEnds(h, final.handler) /\ final.sock.ask = s.ask
      /\ final.handler.m_stage \notin {"application", "listen"}
  <2>1. /\ ResultOK(sendToSock(first.handler, first.sock), Chunks)
        /\ Unbound(first.handler, first.sock, sendToSock(first.handler, first.sock))
    BY <1>1, sendToSockOK, StreamUnbound DEF ResultOK
  <2> QED BY <1>1, <2>1 DEF Unbound, SameEnds
<1> HIDE DEF final
<1>3. /\ SameEnds(final.handler, g) /\ g.m_stage = "failure"
      /\ SameEnds(final.handler, k) /\ k.m_stage = final.handler.m_stage
  BY <1>2 DEF SameEnds, ResultOK, HandlerType, HandlerRecord
<1>4. \/ maintain(h, s, used) = final
      \/ \E out : maintain(h, s, used) = Result(g, final.sock, out)
      \/ \E out : maintain(h, s, used) = Result(k, final.sock, out)
  <2> HIDE DEF g, k
  <2> QED BY DEF maintain, first, final, g, k
<1> HIDE DEF g, k
<1> QED BY <1>2, <1>3, <1>4 DEF Unbound, SameEnds, Result

\* Reading a request binds a handler to a port that is free, or not at all.
LEMMA RequestEnds ==
  ASSUME NEW Chunks, NEW h \in HandlerType(Chunks), NEW s \in SockType(Chunks), NEW used,
         h.m_stage = "application", PortOK(h)
  PROVE  EndsStep(h, s, handleRequest(h, s, used), used)
<1> DEFINE r    == readRequest(h, s)
           port == getFreePort(used)
           conn == [r EXCEPT !.m_source_port = port, !.m_stage = "wait_reply",
                             !.m_timer = TRUE]
           part == [r EXCEPT !.m_stage = IF s.closed THEN "failure" ELSE r.m_stage]
           lstn == [r EXCEPT !.m_source_port = s.ask.port, !.m_stage = "listen"]
<1>1. /\ r \in HandlerType(Chunks) /\ r.m_stage = "application" /\ r.m_source_port = 0
      /\ r.m_type \in {h.m_type, s.ask.kind} /\ r.m_type \in Types
  BY DEF readRequest, HandlerType, HandlerRecord, SockType, Types, PortOK
<1>2. port \in Nat /\ port < PortLimit /\ (port > 0 => port \notin used) /\ 0 < PortLimit
  BY getFreePortOK, HandlerAssumption
<1> HIDE DEF r, port
<1>3. /\ conn.m_stage = "wait_reply" /\ conn.m_source_port = port /\ conn.m_type = r.m_type
      /\ part.m_stage \in {"failure", "application"} /\ part.m_source_port = 0
      /\ part.m_type = r.m_type
      /\ lstn.m_stage = "listen" /\ lstn.m_type = r.m_type
      /\ lstn.m_source_port = s.ask.port
  BY <1>1 DEF HandlerType, HandlerRecord
<1>4. \/ handleRequest(h, s, used) = Result(part, s, <<>>)
      \/ handleRequest(h, s, used) = Refuse(r, s)
      \/ /\ handleRequest(h, s, used) = Result(lstn, s, <<>>)
         /\ r.m_type = "server" /\ s.ask.port \notin used
      \/ /\ handleRequest(h, s, used) =
              Result(conn, s, <<Frame("request", conn, 0, <<>>)>>)
         /\ port > 0
  <2>1. CASE s.request < RequestItems(r.m_type)
    <3>1. handleRequest(h, s, used) = Result(part, s, <<>>)
      BY <1>1, <2>1 DEF handleRequest, r, RequestItems, SockType
    <3> QED BY <3>1
  <2>2. CASE ~(s.request < RequestItems(r.m_type)) /\ r.m_type = "server"
    <3>1. handleRequest(h, s, used) =
            IF isPortFree(s.ask.port, used) THEN Result(lstn, s, <<>>) ELSE Refuse(r, s)
      BY <2>2 DEF handleRequest, r, RequestItems, SockType
    <3> QED BY <2>2, <3>1 DEF isPortFree
  <2>3. CASE ~(s.request < RequestItems(r.m_type)) /\ r.m_type = "client"
    <3>1. handleRequest(h, s, used) =
            IF port > 0 THEN Result(conn, s, <<Frame("request", conn, 0, <<>>)>>)
            ELSE Refuse(r, s)
      BY <2>3 DEF handleRequest, r, port, RequestItems, SockType
    <3> QED BY <3>1
  <2>4. r.m_type = "null" => s.request < RequestItems(r.m_type)
    BY DEF r, readRequest, RequestItems, SockType
  <2> QED BY <1>1, <2>1, <2>2, <2>3, <2>4 DEF Types
<1> HIDE DEF conn, part, lstn
<1>5. /\ SameEnds(r, Refuse(r, s).handler) /\ Refuse(r, s).sock.ask = s.ask
      /\ Refuse(r, s).handler.m_stage \in {"failure", "sigpipe"} /\ Refuse(r, s).out = <<>>
  BY <1>1, ReplyEnds DEF Refuse, Result
<1>6. h.m_source_port = 0
  BY DEF PortOK
<1>7. CASE handleRequest(h, s, used) = Result(part, s, <<>>)
  BY <1>1, <1>2, <1>3, <1>6, <1>7 DEF EndsStep, PortOK, Result
<1>8. CASE handleRequest(h, s, used) = Refuse(r, s)
  BY <1>1, <1>2, <1>5, <1>6, <1>8 DEF EndsStep, PortOK, SameEnds
<1>9. CASE /\ handleRequest(h, s, used) = Result(lstn, s, <<>>)
           /\ r.m_type = "server" /\ s.ask.port \notin used
  BY <1>1, <1>3, <1>9 DEF EndsStep, PortOK, Result
<1>10. CASE /\ handleRequest(h, s, used) =
                 Result(conn, s, <<Frame("request", conn, 0, <<>>)>>)
            /\ port > 0
  BY <1>1, <1>2, <1>3, <1>10 DEF EndsStep, PortOK, Result
<1> QED BY <1>4, <1>7, <1>8, <1>9, <1>10

\* Every entry point binds a listening handler at most once, and a port only as
\* long as the request is read.
LEMMA EntryEnds ==
  ASSUME NEW Chunks, NEW h \in HandlerType(Chunks), NEW s \in SockType(Chunks), NEW used,
         PortOK(h)
  PROVE  /\ EndsStep(h, s, handleSock(h, s, used), used)
         /\ EndsStep(h, s, handleTimer(h, s, used), used)
         /\ \A seq : \A from \in Nat, f \in FrameType(Chunks) :
              EndsStep(h, s, receiveFrame(h, s, from, f, seq), used)
<1>1. \A r : Unbound(h, s, r) => EndsStep(h, s, r, used)
  BY UnboundStep
<1>2. EndsStep(h, s, handleSock(h, s, used), used)
  BY <1>1, RequestEnds, StreamUnbound DEF handleSock
<1>3. EndsStep(h, s, handleTimer(h, s, used), used)
  BY <1>1, StreamUnbound, MaintainUnbound DEF handleTimer
<1>4. ASSUME NEW from \in Nat, NEW f \in FrameType(Chunks), NEW seq
      PROVE  EndsStep(h, s, receiveFrame(h, s, from, f, seq), used)
  <2>1. CASE h.m_stage = "listen" /\ f.type = "request"
    <3> DEFINE bound == [h EXCEPT !.m_dest_address = from, !.m_dest_port = f.source,
                                  !.m_timer = TRUE]
               r     == Reply(bound, s, "success", "connected")
    <3>1. f.source \in Nat
      BY HandlerAssumption DEF FrameType
    <3>2. /\ bound \in HandlerType(Chunks) /\ bound.m_type = h.m_type
          /\ bound.m_source_port = h.m_source_port
      BY <3>1 DEF HandlerType, HandlerRecord
    <3>3. /\ acceptRequest(h, s, from, f).handler = r.handler
          /\ acceptRequest(h, s, from, f).sock = r.sock
      BY DEF acceptRequest, Result
    <3> HIDE DEF bound
    <3>4. /\ SameEnds(bound, r.handler) /\ r.handler.m_stage \in {"connected", "sigpipe"}
          /\ r.sock.ask = s.ask
      BY <3>2, ReplyEnds
    <3>5. receiveFrame(h, s, from, f, seq) = acceptRequest(h, s, from, f)
      BY <2>1 DEF receiveFrame
    <3> HIDE DEF r
    <3> QED BY <2>1, <3>2, <3>3, <3>4, <3>5 DEF EndsStep, SameEnds, PortOK
  <2>2. CASE ~(h.m_stage = "listen" /\ f.type = "request")
    <3>1. Unbound(h, s, receiveFrame(h, s, from, f, seq))
      BY <2>2, StreamUnbound, FramesUnbound DEF receiveFrame
    <3> QED BY <1>1, <3>1
  <2> QED BY <2>1, <2>2
<1> QED BY <1>2, <1>3, <1>4

(***************************************************************************)
(* What an entry point does to the data a handler holds and sends.         *)
(***************************************************************************)
\* Data leaves under the port of the client that sends it.
OutOK(r) ==
  \A i \in 1..Len(r.out) : r.out[i].type = "data" =>
    r.out[i].source = r.handler.m_source_port /\ r.handler.m_type = "client"

DataStep(r) == WindowOK(r.handler) /\ BufferOK(r.handler, r.sock) /\ OutOK(r)

\* An entry point that moves no data.
Idle(h, s, r) ==
  /\ r.handler.m_frame_window = h.m_frame_window
  /\ r.handler.m_msg_buffer = h.m_msg_buffer /\ r.sock.delivered = s.delivered
  /\ \A i \in 1..Len(r.out) : r.out[i].type # "data"

LEMMA IdleStep ==
  ASSUME NEW h, NEW s, NEW r, Unbound(h, s, r), Idle(h, s, r),
         WindowOK(h), BufferOK(h, s)
  PROVE  DataStep(r)
<1>1. WindowOK(r.handler)
  BY DEF Unbound, SameEnds, Idle, WindowOK
<1>2. BufferOK(r.handler, r.sock) /\ OutOK(r)
  BY DEF Unbound, SameEnds, Idle, BufferOK, OutOK
<1> QED BY <1>1, <1>2 DEF DataStep

\* A frame that carries no data.
LEMMA ControlIdle ==
  ASSUME NEW h, NEW type \in {"request", "reply", "sack"}, NEW seq
  PROVE  /\ \A i \in 1..Len(<<Frame(type, h, seq, <<>>)>>) :
              <<Frame(type, h, seq, <<>>)>>[i].type # "data"
         /\ \A i \in 1..Len(<<>>) : <<>>[i].type # "data"
BY DEF Frame

\* Answers, probes and acknowledgements move no data.
LEMMA AnswersIdle ==
  ASSUME NEW Chunks, NEW h \in HandlerType(Chunks), NEW s \in SockType(Chunks)
  PROVE  /\ Idle(h, s, Result(h, s, <<>>))
         /\ Idle(h, s, Result([h EXCEPT !.m_timer = TRUE], s, <<>>))
         /\ Idle(h, s, replyTimeout(h, s)) /\ Idle(h, s, acceptReply(h, s))
         /\ Idle(h, s, Refuse(h, s)) /\ \A f : Idle(h, s, receiveProbe(h, s, f))
<1>1. \A reply, stage :
        LET r == Reply(h, s, reply, stage)
        IN  /\ r.handler.m_frame_window = h.m_frame_window
            /\ r.handler.m_msg_buffer = h.m_msg_buffer /\ r.sock.delivered = s.delivered
  BY DEF Reply, HandlerType, HandlerRecord, SockType
<1>2. /\ Idle(h, s, Result(h, s, <<>>))
      /\ Idle(h, s, Result([h EXCEPT !.m_timer = TRUE], s, <<>>))
  BY DEF Idle, Result, HandlerType, HandlerRecord
<1>3. \A f : Idle(h, s, receiveProbe(h, s, f))
  <2> TAKE f
  <2>1. /\ receiveProbe(h, s, f).handler.m_frame_window = h.m_frame_window
        /\ receiveProbe(h, s, f).handler.m_msg_buffer = h.m_msg_buffer
        /\ receiveProbe(h, s, f).sock = s
    BY DEF receiveProbe, Result, HandlerType, HandlerRecord
  <2>2. \A i \in 1..Len(receiveProbe(h, s, f).out) :
          receiveProbe(h, s, f).out[i].type # "data"
    <3>1. receiveProbe(h, s, f).out \in {<<>>, <<Frame("reply", h, 0, <<>>)>>}
      BY DEF receiveProbe, Result
    <3> QED BY <3>1, ControlIdle
  <2> QED BY <2>1, <2>2 DEF Idle
<1> QED BY <1>1, <1>2, <1>3 DEF Idle, Result, replyTimeout, acceptReply, Refuse

\* Loading fills the window of a client under its port.
LEMMA LoadStep ==
  ASSUME NEW Chunks, NEW h \in HandlerType(Chunks), NEW s \in SockType(Chunks),
         h.m_type = "client", h.m_stage = "connected",
         PortOK(h), WindowOK(h), BufferOK(h, s)
  PROVE  DataStep(loadFrames(h, s))
<1> DEFINE used  == Len(h.m_frame_window)
           n     == LowerOf(WindowSize - used, Len(s.in))
           seq(i) == (h.m_sequence_base + used + i - 1) % SequenceSize
           fresh == [i \in 1..n |-> Frame("data", h, seq(i), <<s.in[i]>>)]
           r     == loadFrames(h, s)
           w     == h.m_frame_window
<1>1. /\ r.handler.m_frame_window = w \o fresh
      /\ r.handler.m_type = "client" /\ r.handler.m_source_port = h.m_source_port
      /\ r.handler.m_stage # "application" /\ r.out = <<>>
  <2>1. r.handler.m_frame_window = w \o fresh
    BY DEF loadFrames, Result, HandlerType, HandlerRecord
  <2>2. /\ r.handler.m_type = "client" /\ r.handler.m_source_port = h.m_source_port
        /\ r.handler.m_stage # "application" /\ r.out = <<>>
    BY DEF loadFrames, Result, HandlerType, HandlerRecord
  <2> QED BY <2>1, <2>2
<1>2. /\ w \in Seq(FrameType(Chunks)) /\ n \in Nat /\ h.m_source_port \in 0..PortLimit - 1
  <2>1. w \in Seq(FrameType(Chunks)) /\ Len(w) <= WindowSize /\ Len(w) \in Nat
    BY DEF HandlerType, HandlerRecord
  <2>2. Len(s.in) \in Nat
    BY DEF SockType
  <2>3. h.m_source_port \in Nat /\ h.m_source_port < PortLimit
    BY DEF PortOK, HandlerType, HandlerRecord
  <2> QED BY <2>1, <2>2, <2>3, HandlerAssumption DEF LowerOf
<1>3. h.m_source_port % PortLimit = h.m_source_port
  <2>1. PortLimit \in Nat \ {0} /\ h.m_source_port \in 0..2 * PortLimit - 1
        /\ h.m_source_port < PortLimit
    BY <1>2, HandlerAssumption
  <2> QED BY <2>1, ModSmall
<1>4. \A i \in 1..n : fresh[i].source = h.m_source_port
  BY <1>3 DEF Frame
<1> HIDE DEF n
<1>5. fresh \in Seq({fresh[i] : i \in 1..n}) /\ Len(fresh) = n
  <2>1. fresh \in [1..n -> {fresh[i] : i \in 1..n}]
    OBVIOUS
  <2> HIDE DEF fresh
  <2> QED BY ONLY <1>2, <2>1, FunctionIsSeq
<1> HIDE DEF fresh, r, w
<1>6. \A i \in 1..Len(w \o fresh) : (w \o fresh)[i].source = h.m_source_port
  <2>1. \A i \in 1..Len(w) : w[i].source = h.m_source_port
    BY DEF WindowOK, w
  <2> TAKE i \in 1..Len(w \o fresh)
  <2>2. \/ i \in 1..Len(w) /\ (w \o fresh)[i] = w[i]
        \/ i - Len(w) \in 1..n /\ (w \o fresh)[i] = fresh[i - Len(w)]
    BY <1>2, <1>5
  <2> QED BY <1>4, <2>1, <2>2
<1>7. WindowOK(r.handler)
  BY <1>1, <1>6 DEF WindowOK
<1>8. r.handler.m_msg_buffer = h.m_msg_buffer /\ r.sock.delivered = s.delivered
  BY DEF r, loadFrames, Result, HandlerType, HandlerRecord, SockType
<1> QED BY <1>1, <1>7, <1>8 DEF DataStep, BufferOK, OutOK, r

\* An acknowledgement shortens the window of a client and resends the rest.
LEMMA SackStep ==
  ASSUME NEW Chunks, NEW h \in HandlerType(Chunks), NEW s \in SockType(Chunks),
         h.m_type = "client", h.m_stage = "connected", WindowOK(h), BufferOK(h, s),
         NEW seq \in Int
  PROVE  DataStep(receiveSack(h, s, seq))
<1>1. ASSUME NEW moves \in Int
      PROVE  LET g == moveWindow(h, moves)
             IN  /\ WindowOK(g) /\ g.m_type = "client"
                 /\ g.m_source_port = h.m_source_port /\ g.m_msg_buffer = h.m_msg_buffer
  <2> DEFINE g == moveWindow(h, moves)
             w == h.m_frame_window
  <2>1. w \in Seq(FrameType(Chunks))
    BY DEF HandlerType, HandlerRecord
  <2>2. /\ g.m_type = "client" /\ g.m_stage = "connected"
        /\ g.m_source_port = h.m_source_port /\ g.m_msg_buffer = h.m_msg_buffer
    BY DEF moveWindow, HandlerType, HandlerRecord
  <2>3. \/ g.m_frame_window = w
        \/ moves > 0 /\ g.m_frame_window = SubSeq(w, moves + 1, Len(w))
    BY DEF moveWindow, HandlerType, HandlerRecord
  <2>4. \A i \in 1..Len(w) : w[i].source = h.m_source_port
    BY DEF WindowOK
  <2> HIDE DEF g, w
  <2>5. moves > 0 => \A i \in 1..Len(SubSeq(w, moves + 1, Len(w))) :
          /\ i + moves \in 1..Len(w)
          /\ SubSeq(w, moves + 1, Len(w))[i] = w[i + moves]
    BY <2>1
  <2>6. \A i \in 1..Len(g.m_frame_window) : g.m_frame_window[i].source = h.m_source_port
    BY <2>3, <2>4, <2>5
  <2>7. WindowOK(g)
    BY <2>2, <2>6 DEF WindowOK
  <2> QED BY <2>2, <2>7 DEF g
<1>2. calcMoves(h, seq) \in Int
  BY HandlerAssumption DEF calcMoves, HandlerType, HandlerRecord
<1>3. \/ receiveSack(h, s, seq) = Result(h, s, <<>>)
      \/ receiveSack(h, s, seq) = Result(h, s, h.m_frame_window)
      \/ LET g == moveWindow(h, calcMoves(h, seq))
         IN  receiveSack(h, s, seq) = Result(g, s, g.m_frame_window)
  BY DEF receiveSack, queueWindow
<1>4. \A g : WindowOK(g) /\ g.m_type = "client" /\ g.m_msg_buffer = h.m_msg_buffer =>
               /\ DataStep(Result(g, s, g.m_frame_window))
               /\ DataStep(Result(g, s, <<>>))
  BY DEF DataStep, WindowOK, BufferOK, OutOK, Result
<1> QED BY <1>1, <1>2, <1>3, <1>4

\* A server moves data to its buffer and to its application, none to a window.
LEMMA ServerDataStep ==
  ASSUME NEW Chunks, NEW h \in HandlerType(Chunks), NEW s \in SockType(Chunks),
         h.m_type = "server", WindowOK(h)
  PROVE  /\ DataStep(sendToSock(h, s))
         /\ \A f, seq : DataStep(receiveData(h, s, f, seq))
<1>1. ASSUME NEW r, r.handler.m_type = "server", r.handler.m_frame_window = <<>>,
             \A i \in 1..Len(r.out) : r.out[i].type # "data"
      PROVE  DataStep(r)
  BY <1>1 DEF DataStep, WindowOK, BufferOK, OutOK
<1>2. h.m_frame_window = <<>>
  BY DEF WindowOK
<1>3. /\ sendToSock(h, s).handler.m_type = "server"
      /\ sendToSock(h, s).handler.m_frame_window = <<>> /\ sendToSock(h, s).out = <<>>
  BY <1>2 DEF sendToSock, Result, HandlerType, HandlerRecord
<1>4. DataStep(sendToSock(h, s))
  BY <1>1, <1>3, ControlIdle
<1>5. ASSUME NEW f, NEW seq
      PROVE  DataStep(receiveData(h, s, f, seq))
  <2> DEFINE r == receiveData(h, s, f, seq)
  <2>1. r.handler.m_type = "server" /\ r.handler.m_frame_window = <<>>
    BY <1>2 DEF receiveData, Result, HandlerType, HandlerRecord
  <2>2. r.out \in {<<>>, <<Frame("sack", h, h.m_current_ack, <<>>)>>}
    BY DEF receiveData, queueAck, Result
  <2> HIDE DEF r
  <2>3. \A i \in 1..Len(r.out) : r.out[i].type # "data"
    BY <2>2, ControlIdle
  <2>4. DataStep(r)
    BY <1>1, <2>1, <2>3
  <2> QED BY <2>4 DEF r
<1> QED BY <1>4, <1>5

\* A request is read before there is any data.
LEMMA RequestDataStep ==
  ASSUME NEW Chunks, NEW h \in HandlerType(Chunks), NEW s \in SockType(Chunks), NEW used,
         h.m_stage = "application", h.m_type \in {"null", s.ask.kind},
         WindowOK(h), BufferOK(h, s)
  PROVE  DataStep(handleRequest(h, s, used))
<1> DEFINE r    == readRequest(h, s)
           port == getFreePort(used)
           conn == [r EXCEPT !.m_source_port = port, !.m_stage = "wait_reply",
                             !.m_timer = TRUE]
           part == [r EXCEPT !.m_stage = IF s.closed THEN "failure" ELSE r.m_stage]
           lstn == [r EXCEPT !.m_source_port = s.ask.port, !.m_stage = "listen"]
           Empty(g) == g.m_frame_window = <<>> /\ g.m_msg_buffer = h.m_msg_buffer
                       /\ g.m_type = r.m_type
<1>1. /\ r \in HandlerType(Chunks) /\ Empty(r)
      /\ r.m_type \in {h.m_type, s.ask.kind} /\ r.m_type \in Types
  BY DEF readRequest, HandlerType, HandlerRecord, SockType, Types, WindowOK
<1>2. r.m_type = "null" => s.request < RequestItems(r.m_type)
  BY DEF r, readRequest, RequestItems, SockType
<1>3. s.request \in Int
  BY DEF SockType
<1> HIDE DEF r, port
<1>4. Empty(conn) /\ Empty(part) /\ Empty(lstn)
  BY <1>1 DEF HandlerType, HandlerRecord
<1>5. Empty(Refuse(r, s).handler) /\ Refuse(r, s).sock.delivered = s.delivered
      /\ Refuse(r, s).out = <<>>
  <2>1. Idle(r, s, Refuse(r, s)) /\ Unbound(r, s, Refuse(r, s))
    BY <1>1, AnswersIdle, StreamUnbound
  <2> QED BY <1>1, <2>1 DEF Idle, Unbound, SameEnds, Refuse, Result
<1> DEFINE probe == <<Frame("request", conn, 0, <<>>)>>
<1>6. /\ \A i \in 1..Len(probe) : probe[i].type # "data"
      /\ \A i \in 1..Len(<<>>) : <<>>[i].type # "data"
  BY ControlIdle
<1>7. handleRequest(h, s, used) \in
        {Result(part, s, <<>>), Result(lstn, s, <<>>), Refuse(r, s), Result(conn, s, probe)}
  <2> HIDE DEF conn, part, lstn
  <2>1. CASE s.request < RequestItems(r.m_type)
    <3>1. handleRequest(h, s, used) = Result(part, s, <<>>)
      BY <1>1, <2>1, <1>3 DEF handleRequest, r, RequestItems, part
    <3> QED BY <3>1
  <2>2. CASE ~(s.request < RequestItems(r.m_type)) /\ r.m_type = "server"
    <3>1. handleRequest(h, s, used) =
            IF isPortFree(s.ask.port, used) THEN Result(lstn, s, <<>>) ELSE Refuse(r, s)
      BY <2>2, <1>3 DEF handleRequest, r, RequestItems, lstn
    <3> QED BY <3>1
  <2>3. CASE ~(s.request < RequestItems(r.m_type)) /\ r.m_type = "client"
    <3>1. handleRequest(h, s, used) =
            IF port > 0 THEN Result(conn, s, probe) ELSE Refuse(r, s)
      BY <2>3, <1>3 DEF handleRequest, r, port, RequestItems, conn
    <3> QED BY <3>1
  <2> QED BY <1>1, <1>2, <2>1, <2>2, <2>3 DEF Types
<1> HIDE DEF conn, part, lstn, probe
<1>8. ASSUME NEW g, Empty(g), NEW t, t.delivered = s.delivered,
             NEW out, \A i \in 1..Len(out) : out[i].type # "data"
      PROVE  DataStep(Result(g, t, out))
  BY <1>1, <1>8 DEF DataStep, WindowOK, BufferOK, OutOK, Result
<1>9. Refuse(r, s) = Result(Refuse(r, s).handler, Refuse(r, s).sock, <<>>)
  BY DEF Refuse, Result
<1> QED BY <1>4, <1>5, <1>6, <1>7, <1>8, <1>9

\* A timer tick sends data only from the window of a client.
LEMMA MaintainDataStep ==
  ASSUME NEW Chunks, NEW h \in HandlerType(Chunks), NEW s \in SockType(Chunks), NEW used,
         h.m_stage = "connected", PortOK(h), WindowOK(h), BufferOK(h, s)
  PROVE  DataStep(maintain(h, s, used))
<1> DEFINE first  == handleSock(h, s, used)
           mid    == first.handler
           resend == IF h.m_type = "server" THEN queueAck(mid) ELSE queueWindow(mid)
           final  == IF h.m_type = "server" THEN sendToSock(mid, first.sock) ELSE first
           g      == final.handler
           gone   == [g EXCEPT !.m_stage = "failure"]
           kept   == [g EXCEPT !.m_connected_reply = FALSE]
           probe  == Frame("request", h, 0, <<>>)
<1>1. ResultOK(first, Chunks) /\ Unbound(h, s, first) /\ DataStep(first)
  BY handleSockOK, StreamUnbound, LoadStep, ServerDataStep, AnswersIdle, IdleStep
     DEF handleSock
<1>2. mid.m_type = h.m_type /\ mid.m_source_port = h.m_source_port
  BY <1>1 DEF Unbound, SameEnds
<1> HIDE DEF first
<1>3. /\ mid \in HandlerType(Chunks) /\ first.sock \in SockType(Chunks)
      /\ WindowOK(mid) /\ BufferOK(mid, first.sock)
  BY <1>1 DEF ResultOK, DataStep
<1> HIDE DEF mid
<1>4. /\ ResultOK(final, Chunks) /\ DataStep(final)
      /\ g.m_type = h.m_type /\ g.m_source_port = h.m_source_port
      /\ g.m_stage # "application"
  <2>1. CASE h.m_type = "server"
    <3>1. /\ ResultOK(sendToSock(mid, first.sock), Chunks)
          /\ DataStep(sendToSock(mid, first.sock))
          /\ Unbound(mid, first.sock, sendToSock(mid, first.sock))
      BY <1>2, <1>3, <2>1, sendToSockOK, ServerDataStep, StreamUnbound
    <3>2. mid.m_stage # "application"
      BY <1>1 DEF Unbound, mid
    <3> QED BY <1>2, <2>1, <3>1, <3>2 DEF Unbound, SameEnds
  <2>2. CASE h.m_type # "server"
    BY <1>1, <2>2 DEF Unbound, SameEnds
  <2> QED BY <2>1, <2>2
<1>5. /\ resend \in Seq(FrameType(Chunks))
      /\ \A i \in 1..Len(resend) : resend[i].type = "data" =>
           resend[i].source = g.m_source_port /\ g.m_type = "client"
  <2>1. resend \in Seq(FrameType(Chunks))
    BY <1>3, queueAckOK, queueWindowOK
  <2>2. CASE h.m_type = "server"
    <3>1. resend = <<Frame("sack", mid, mid.m_current_ack, <<>>)>>
      BY <2>2 DEF queueAck
    <3> HIDE DEF resend
    <3> QED BY <2>1, <3>1, ControlIdle
  <2>3. CASE h.m_type # "server"
    <3>1. resend = mid.m_frame_window
      BY <2>3 DEF queueWindow
    <3>2. /\ mid.m_type # "client" => mid.m_frame_window = <<>>
          /\ \A i \in 1..Len(mid.m_frame_window) :
               mid.m_frame_window[i].source = mid.m_source_port
      BY <1>3 DEF WindowOK
    <3> HIDE DEF resend
    <3> QED BY <1>2, <1>4, <2>1, <3>1, <3>2
  <2> QED BY <2>2, <2>3
<1>6. maintain(h, s, used) =
        IF g.m_stage = "sigpipe" THEN final
        ELSE IF ~h.m_connected_reply THEN Result(gone, final.sock, resend)
        ELSE Result(kept, final.sock, Append(resend, probe))
  BY DEF maintain, first, mid
<1>7. probe.type # "data"
  BY DEF Frame
<1> HIDE DEF resend, final, probe
<1>8. /\ SameEnds(g, gone) /\ gone.m_stage = "failure"
      /\ SameEnds(g, kept) /\ kept.m_stage = g.m_stage
      /\ gone.m_frame_window = g.m_frame_window /\ gone.m_msg_buffer = g.m_msg_buffer
      /\ kept.m_frame_window = g.m_frame_window /\ kept.m_msg_buffer = g.m_msg_buffer
  BY <1>4 DEF SameEnds, ResultOK, HandlerType, HandlerRecord
<1>9. \A i \in 1..Len(Append(resend, probe)) : Append(resend, probe)[i].type = "data" =>
         Append(resend, probe)[i].source = g.m_source_port /\ g.m_type = "client"
  BY <1>5, <1>7
<1> HIDE DEF gone, kept
<1>10. /\ WindowOK(gone) /\ BufferOK(gone, final.sock)
       /\ WindowOK(kept) /\ BufferOK(kept, final.sock)
  BY <1>4, <1>8 DEF DataStep, WindowOK, BufferOK, SameEnds
<1> QED BY <1>4, <1>5, <1>6, <1>8, <1>9, <1>10 DEF DataStep, OutOK, SameEnds, Result

\* Every entry point keeps data where it belongs.
LEMMA EntryData ==
  ASSUME NEW Chunks, NEW h \in HandlerType(Chunks), NEW s \in SockType(Chunks), NEW used,
         h.m_type \in {"null", s.ask.kind}, PortOK(h), WindowOK(h), BufferOK(h, s)
  PROVE  /\ DataStep(handleSock(h, s, used))
         /\ DataStep(handleTimer(h, s, used))
         /\ \A from \in Nat, f \in FrameType(Chunks), seq \in Int :
              DataStep(receiveFrame(h, s, from, f, seq))
<1>1. \A r : Unbound(h, s, r) /\ Idle(h, s, r) => DataStep(r)
  BY IdleStep
<1>2. DataStep(handleSock(h, s, used))
  BY <1>1, StreamUnbound, AnswersIdle, LoadStep, ServerDataStep, RequestDataStep
     DEF handleSock
<1>3. DataStep(handleTimer(h, s, used))
  BY <1>1, StreamUnbound, AnswersIdle, MaintainDataStep DEF handleTimer
<1>4. ASSUME NEW from \in Nat, NEW f \in FrameType(Chunks), NEW seq \in Int
      PROVE  DataStep(receiveFrame(h, s, from, f, seq))
  <2>1. CASE h.m_stage = "listen" /\ f.type = "request"
    <3> DEFINE bound == [h EXCEPT !.m_dest_address = from, !.m_dest_port = f.source,
                                  !.m_timer = TRUE]
               a     == Reply(bound, s, "success", "connected")
               out   == IF s.closed THEN <<>> ELSE <<Frame("reply", bound, 0, <<>>)>>
               r     == Result(a.handler, a.sock, out)
    <3>1. f.source \in Nat
      BY HandlerAssumption DEF FrameType
    <3>2. /\ bound \in HandlerType(Chunks) /\ bound.m_type = h.m_type
          /\ bound.m_source_port = h.m_source_port /\ bound.m_stage = h.m_stage
          /\ bound.m_frame_window = h.m_frame_window /\ bound.m_msg_buffer = h.m_msg_buffer
      BY <3>1 DEF HandlerType, HandlerRecord
    <3>3. receiveFrame(h, s, from, f, seq) = r
      BY <2>1 DEF receiveFrame, acceptRequest
    <3>4. \A i \in 1..Len(out) : out[i].type # "data"
      BY ControlIdle
    <3> HIDE DEF bound, out
    <3>5. SameEnds(bound, a.handler) /\ a.handler.m_stage \in {"connected", "sigpipe"}
      BY <3>2, ReplyEnds
    <3>6. /\ a.handler.m_frame_window = bound.m_frame_window
          /\ a.handler.m_msg_buffer = bound.m_msg_buffer /\ a.sock.delivered = s.delivered
      BY <3>2 DEF Reply, HandlerType, HandlerRecord, SockType
    <3> HIDE DEF a
    <3>7. WindowOK(r.handler)
      BY <3>2, <3>5, <3>6 DEF WindowOK, SameEnds, Result
    <3>8. BufferOK(r.handler, r.sock) /\ OutOK(r)
      BY <3>2, <3>4, <3>5, <3>6 DEF BufferOK, OutOK, SameEnds, Result
    <3> QED BY <3>3, <3>7, <3>8 DEF DataStep
  <2>2. CASE ~(h.m_stage = "listen" /\ f.type = "request")
    <3>1. DataStep(Result(h, s, <<>>)) /\ DataStep(acceptReply(h, s))
      BY <1>1, StreamUnbound, AnswersIdle
    <3>2. h.m_stage = "connected" => DataStep(receiveProbe(h, s, f))
      BY <1>1, FramesUnbound, AnswersIdle
    <3>3. h.m_type = "server" => DataStep(receiveData(h, s, f, seq))
      BY ServerDataStep
    <3>4. h.m_type = "client" /\ h.m_stage = "connected" => DataStep(receiveSack(h, s, seq))
      BY SackStep
    <3> QED BY <2>2, <3>1, <3>2, <3>3, <3>4 DEF receiveFrame
  <2> QED BY <2>1, <2>2
<1> QED BY <1>2, <1>3, <1>4

\* A handler looks into a frame only if it is data of its peer.
LEMMA LooksIntoPeerOnly ==
  ASSUME NEW h, NEW s, NEW from, NEW f \in FrameType(Chunk), NEW seq,
         ~(h.m_stage \notin {"application", "listen"} /\ h.m_type = "server"
           /\ f.type = "data" /\ fromPeer(h, from, f))
  PROVE  LET e == [f EXCEPT !.msg = <<>>]
         IN  receiveFrame(h, s, from, f, seq) = receiveFrame(h, s, from, e, seq)
<1> DEFINE e == [f EXCEPT !.msg = <<>>]
<1>1. e.type = f.type /\ e.source = f.source
  BY DEF FrameType
<1> HIDE DEF e
<1>2. /\ fromPeer(h, from, e) = fromPeer(h, from, f)
      /\ acceptRequest(h, s, from, e) = acceptRequest(h, s, from, f)
      /\ receiveProbe(h, s, e) = receiveProbe(h, s, f)
  BY <1>1 DEF fromPeer, acceptRequest, receiveProbe
<1>3. receiveFrame(h, s, from, f, seq) = receiveFrame(h, s, from, e, seq)
  BY <1>1, <1>2 DEF receiveFrame
<1> QED BY <1>3 DEF e

\* An empty frame has the type of the frames of any chunks.
LEMMA EmptyFrame ==
  ASSUME NEW Chunks, NEW f \in FrameType(Chunk)
  PROVE  [f EXCEPT !.msg = <<>>] \in FrameType(Chunks)
<1>1. \A S : <<>> \in Seq(S)
  OBVIOUS
<1>2. f \in [type: {"request", "reply", "data", "sack"}, dest: 0..PortLimit - 1,
             source: 0..PortLimit - 1, seq: 0..SequenceSize - 1, msg: Seq(Chunk)]
  BY DEF FrameType
<1> QED BY <1>1, <1>2 DEF FrameType

\* Sequences of some chunks are sequences of more.
LEMMA TypeGrows ==
  ASSUME NEW C, NEW D, C \subseteq D
  PROVE  /\ Seq(C) \subseteq Seq(D) /\ FrameType(C) \subseteq FrameType(D)
         /\ HandlerType(C) \subseteq HandlerType(D) /\ SockType(C) \subseteq SockType(D)
<1>1. \A S, T : S \subseteq T => Seq(S) \subseteq Seq(T)
  OBVIOUS
<1>2. Seq(C) \subseteq Seq(D)
  BY <1>1
<1>3. FrameType(C) \subseteq FrameType(D)
  BY <1>2 DEF FrameType
<1>4. HandlerRecord(C) \subseteq HandlerRecord(D)
  <2>1. Seq(FrameType(C)) \subseteq Seq(FrameType(D))
    BY <1>1, <1>3
  <2> QED BY <1>2, <2>1 DEF HandlerRecord
<1>5. HandlerType(C) \subseteq HandlerType(D)
  BY <1>4 DEF HandlerType
<1>6. SockType(C) \subseteq SockType(D)
  BY <1>2 DEF SockType
<1> QED BY <1>2, <1>3, <1>5, <1>6

(***************************************************************************)
(* What a step does to the whole network.                                  *)
(***************************************************************************)
\* Nothing binds a bound handler anew, and no handler changes its port.
EndsKept ==
  \A c \in App :
    /\ handler[c].m_stage # "application" =>
         handler'[c].m_stage # "application"
         /\ handler'[c].m_source_port = handler[c].m_source_port
    /\ handler[c].m_stage \notin {"application", "listen"} =>
         /\ handler'[c].m_stage \notin {"application", "listen"}
         /\ handler'[c].m_dest_address = handler[c].m_dest_address
         /\ handler'[c].m_dest_port = handler[c].m_dest_port

\* Who sits behind an address and a port stays there.
LEMMA BehindStays ==
  ASSUME EndsKept
  PROVE  /\ \A a, c \in App : Behind(a, c) => Behind(a, c)'
         /\ \A a \in App : Data(a) \subseteq Data(a)'
         /\ \A f \in FrameType(Chunk), m \in Node : FrameFrom(f, m) => FrameFrom(f, m)'
<1>1. \A a, c \in App : Behind(a, c) => Behind(a, c)'
  BY DEF EndsKept, Behind
<1>2. \A a \in App : Data(a) \subseteq Data(a)'
  <2> TAKE a \in App
  <2>1. CASE Ask[a].kind = "client"
    BY <2>1 DEF Data
  <2>2. CASE Ask[a].kind # "client"
    <3>1. \A x \in Chunk : x.app \in App
      BY DEF Chunk
    <3>2. \A x \in Chunk : Behind(a, x.app) => Behind(a, x.app)'
      BY <1>1, <3>1
    <3> QED BY <2>2, <3>2 DEF Data
  <2> QED BY <2>1, <2>2
<1>3. ASSUME NEW f \in FrameType(Chunk), NEW m \in Node, FrameFrom(f, m)
      PROVE  FrameFrom(f, m)'
  <2>1. \A j \in 1..Len(f.msg) : f.msg[j].app \in App
    <3>1. f.msg \in Seq(Chunk)
      BY DEF FrameType
    <3>2. \A j \in 1..Len(f.msg) : f.msg[j] \in Chunk
      BY <3>1
    <3> QED BY <3>2 DEF Chunk
  <2> QED BY <1>3, <2>1 DEF FrameFrom, EndsKept
<1> QED BY <1>1, <1>2, <1>3

\* Sending keeps a channel a sequence of frames, of the old ones and the new.
LEMMA SendOK ==
  ASSUME NEW T, NEW channel \in Seq(T), NEW out \in Seq(T), NEW n \in Nat,
         n <= Len(channel) + Len(out)
  PROVE  /\ SubSeq(channel \o out, 1, n) \in Seq(T)
         /\ \A i \in 1..Len(SubSeq(channel \o out, 1, n)) :
              \/ i \in 1..Len(channel) /\ SubSeq(channel \o out, 1, n)[i] = channel[i]
              \/ /\ i - Len(channel) \in 1..Len(out)
                 /\ SubSeq(channel \o out, 1, n)[i] = out[i - Len(channel)]
<1> DEFINE w == channel \o out
<1>1. /\ w \in Seq(T) /\ Len(w) = Len(channel) + Len(out)
      /\ \A i \in 1..Len(w) :
           \/ i \in 1..Len(channel) /\ w[i] = channel[i]
           \/ i - Len(channel) \in 1..Len(out) /\ w[i] = out[i - Len(channel)]
  OBVIOUS
<1> HIDE DEF w
<1>2. /\ SubSeq(w, 1, n) \in Seq(T) /\ Len(SubSeq(w, 1, n)) = n
      /\ \A i \in 1..n : SubSeq(w, 1, n)[i] = w[i]
  BY <1>1
<1> QED BY <1>1, <1>2 DEF w

\* What an entry point keeps for its own handler it keeps for the network.
LEMMA DoesKeeps ==
  ASSUME DataInv, NEW a \in App, NEW s, NEW r, NEW net0, NEW used,
         s.ask = Ask[a], a \in accepted, accepted' = accepted,
         ResultOK(r, Data(a)), EndsStep(handler[a], s, r, used), DataStep(r),
         net0 \in [Node -> [Node -> Seq(FrameType(Chunk))]],
         \A m, n \in Node : FramesFrom(net0[m][n], m),
         Does(a, r, net0)
  PROVE  DataInv' /\ EndsKept
<1> DEFINE g == r.handler
           m0 == NodeOf[a]
           n0 == g.m_dest_address
           ch == net0[m0][n0]
           w  == SubSeq(ch \o r.out, 1, LowerOf(Len(ch) + Len(r.out), MaxChannel))
<1>1. /\ handler \in [App -> HandlerType(Chunk)] /\ sock \in [App -> SockType(Chunk)]
      /\ handler' = [handler EXCEPT ![a] = r.handler]
      /\ sock' = [sock EXCEPT ![a] = r.sock]
  BY DEF DataInv, TypeOK, Does
<1>2. /\ handler'[a] = g /\ sock'[a] = r.sock
      /\ \A b \in App : b # a => handler'[b] = handler[b] /\ sock'[b] = sock[b]
  BY <1>1
<1>3. EndsKept
  BY <1>2 DEF EndsKept, EndsStep
<1>4. /\ \A b \in App : Data(b) \subseteq Data(b)'
      /\ \A f \in FrameType(Chunk), m \in Node : FrameFrom(f, m) => FrameFrom(f, m)'
  BY <1>3, BehindStays
<1>5. \A b \in App : Data(b) \subseteq Chunk /\ Data(b)' \subseteq Chunk
  BY DEF Data
<1>6. EndInv(a)'
  <2>1. /\ r.handler \in HandlerType(Data(a)') /\ r.sock \in SockType(Data(a)')
    BY <1>4, TypeGrows DEF ResultOK
  <2>2. EndInv(a)
    BY DEF DataInv
  <2>3. /\ r.sock.ask = Ask[a] /\ g.m_type \in {"null", Ask[a].kind}
        /\ PortOK(g) /\ WindowOK(g) /\ BufferOK(g, r.sock)
    BY <2>2 DEF EndInv, EndsStep, DataStep
  <2> QED BY <1>2, <2>1, <2>3 DEF EndInv
<1>7. ASSUME NEW b \in App, b # a PROVE EndInv(b)'
  <2>1. EndInv(b)
    BY DEF DataInv
  <2>2. handler[b] \in HandlerType(Data(b)') /\ sock[b] \in SockType(Data(b)')
    BY <1>4, <2>1, TypeGrows DEF EndInv
  <2> QED BY <1>2, <1>7, <2>1, <2>2 DEF EndInv
<1>8. \A b \in App : /\ handler'[b] \in HandlerType(Chunk)
                     /\ sock'[b] \in SockType(Chunk)
  <2> TAKE b \in App
  <2>1. handler'[b] \in HandlerType(Data(b)') /\ sock'[b] \in SockType(Data(b)')
    BY <1>6, <1>7 DEF EndInv
  <2> QED BY <1>5, <2>1, TypeGrows
<1>9. /\ handler' \in [App -> HandlerType(Chunk)] /\ sock' \in [App -> SockType(Chunk)]
      /\ accepted' \subseteq App
  BY <1>1, <1>8 DEF DataInv, TypeOK
<1>10. ASSUME NEW i \in 1..Len(r.out) PROVE FrameFrom(r.out[i], m0)'
  <2>1. CASE r.out[i].type # "data"
    BY <2>1 DEF FrameFrom
  <2>2. CASE r.out[i].type = "data"
    <3>1. r.out[i].source = g.m_source_port /\ g.m_type = "client" /\ r.out # <<>>
      BY <1>10, <2>2 DEF DataStep, OutOK
    <3>2. g.m_stage # "application"
      BY <3>1 DEF EndsStep
    <3>3. Ask[a].kind = "client"
      BY <1>2, <1>6, <3>1 DEF EndInv
    <3>4. r.out[i] \in FrameType(Data(a))
      BY <1>10 DEF ResultOK
    <3>5. \A j \in 1..Len(r.out[i].msg) : r.out[i].msg[j] \in Data(a)
      BY <3>4 DEF FrameType
    <3>6. \A j \in 1..Len(r.out[i].msg) : r.out[i].msg[j].app = a
      BY <3>3, <3>5 DEF Data
    <3> QED BY <1>2, <3>1, <3>2, <3>6 DEF FrameFrom
  <2> QED BY <2>1, <2>2
<1>11. \A m, n \in Node : net0[m][n] \in Seq(FrameType(Chunk)) /\ FramesFrom(net0[m][n], m)'
  <2> TAKE m, n \in Node
  <2>1. net0[m][n] \in Seq(FrameType(Chunk)) /\ FramesFrom(net0[m][n], m)
    OBVIOUS
  <2>2. \A i \in 1..Len(net0[m][n]) : net0[m][n][i] \in FrameType(Chunk)
    BY <2>1
  <2> QED BY <1>4, <2>1, <2>2 DEF FramesFrom
<1>12. CASE r.out = <<>> \/ n0 \notin Node
  <2>1. net' = net0
    BY <1>12 DEF Does
  <2>2. \A m, n \in Node : FramesFrom(net[m][n], m)'
    BY <1>11, <2>1 DEF FramesFrom
  <2> QED BY <1>3, <1>6, <1>7, <1>9, <1>11, <2>1, <2>2 DEF DataInv, TypeOK
<1>13. CASE ~(r.out = <<>> \/ n0 \notin Node)
  <2>1. net' = [net0 EXCEPT ![m0][n0] = w]
    BY <1>13 DEF Does
  <2>2. m0 \in Node /\ n0 \in Node
    BY <1>13, DaemonAssumption
  <2>3. r.out \in Seq(FrameType(Chunk)) /\ ch \in Seq(FrameType(Chunk))
    <3>1. r.out \in Seq(FrameType(Data(a)))
      BY DEF ResultOK
    <3>2. FrameType(Data(a)) \subseteq FrameType(Chunk)
      BY <1>5, TypeGrows
    <3>3. r.out \in Seq(FrameType(Chunk))
      BY <3>1, <3>2, TypeGrows
    <3> QED BY <1>11, <2>2, <3>3
  <2>4. /\ LowerOf(Len(ch) + Len(r.out), MaxChannel) \in Nat
        /\ LowerOf(Len(ch) + Len(r.out), MaxChannel) <= Len(ch) + Len(r.out)
    <3>1. Len(ch) \in Nat /\ Len(r.out) \in Nat
      BY <2>3
    <3> HIDE DEF ch
    <3> QED BY <3>1, DaemonAssumption DEF LowerOf
  <2>5. FramesFrom(ch, m0)'
    BY <1>11, <2>2
  <2> HIDE DEF g, n0
  <2>6. /\ w \in Seq(FrameType(Chunk))
        /\ \A i \in 1..Len(w) :
             \/ i \in 1..Len(ch) /\ w[i] = ch[i]
             \/ i - Len(ch) \in 1..Len(r.out) /\ w[i] = r.out[i - Len(ch)]
    <3> HIDE DEF ch
    <3> QED BY <2>3, <2>4, SendOK
  <2>7. FramesFrom(w, m0)'
    <3> HIDE DEF ch, w
    <3>1. \A i \in 1..Len(w) : FrameFrom(w[i], m0)'
      BY <1>10, <2>5, <2>6 DEF FramesFrom
    <3> QED BY <3>1 DEF FramesFrom
  <2> HIDE DEF ch, w
  <2>8. \A m, n \in Node : net'[m][n] = IF m = m0 /\ n = n0 THEN w ELSE net0[m][n]
    BY <2>1, <2>2
  <2>9. ASSUME NEW m \in Node, NEW n \in Node
        PROVE  FramesFrom(net[m][n], m)'
    <3>1. CASE m = m0 /\ n = n0
      <4>1. net'[m][n] = w
        BY <2>8, <3>1
      <4> QED BY <2>7, <3>1, <4>1 DEF FramesFrom
    <3>2. CASE ~(m = m0 /\ n = n0)
      <4>1. net'[m][n] = net0[m][n] /\ FramesFrom(net0[m][n], m)'
        BY <1>11, <2>8, <3>2
      <4> QED BY <4>1 DEF FramesFrom
    <3> QED BY <3>1, <3>2
  <2>10. net' \in [Node -> [Node -> Seq(FrameType(Chunk))]]
    BY <2>1, <2>2, <2>6
  <2> QED BY <1>3, <1>6, <1>7, <1>9, <2>9, <2>10 DEF DataInv, TypeOK
<1> QED BY <1>12, <1>13

\* A frame hands a handler only chunks that were written behind its peer.
LEMMA FrameGives ==
  ASSUME DataInv, NEW a \in App, NEW m \in Node, NEW f \in FrameType(Chunk),
         FrameFrom(f, m), NEW seq \in Int
  PROVE  /\ ResultOK(receiveFrame(handler[a], sock[a], m, f, seq), Data(a))
         /\ EndsStep(handler[a], sock[a], receiveFrame(handler[a], sock[a], m, f, seq),
                     UsedPorts(NodeOf[a]))
         /\ DataStep(receiveFrame(handler[a], sock[a], m, f, seq))
<1> DEFINE h == handler[a]
           s == sock[a]
           r == receiveFrame(h, s, m, f, seq)
           looks == /\ h.m_stage \notin {"application", "listen"} /\ h.m_type = "server"
                    /\ f.type = "data" /\ fromPeer(h, m, f)
<1>1. EndInv(a) /\ m \in Nat
  BY DaemonAssumption DEF DataInv
<1>2. h \in HandlerType(Data(a)) /\ s \in SockType(Data(a))
  BY <1>1 DEF EndInv
<1>3. EndsStep(h, s, r, UsedPorts(NodeOf[a])) /\ DataStep(r)
  <2>1. h \in HandlerType(Chunk) /\ s \in SockType(Chunk)
    BY DEF DataInv, TypeOK
  <2>2. h.m_type \in {"null", s.ask.kind} /\ PortOK(h) /\ WindowOK(h) /\ BufferOK(h, s)
    BY <1>1 DEF EndInv
  <2> HIDE DEF h, s
  <2> QED BY <1>1, <2>1, <2>2, EntryEnds, EntryData
<1>4. \E e \in FrameType(Data(a)) : r = receiveFrame(h, s, m, e, seq)
  <2>1. CASE looks
    <3>1. f.msg \in Seq(Chunk)
      BY DEF FrameType
    <3>2. \A j \in 1..Len(f.msg) : f.msg[j] \in Data(a)
      <4> TAKE j \in 1..Len(f.msg)
      <4>1. /\ NodeOf[f.msg[j].app] = m /\ handler[f.msg[j].app].m_stage # "application"
            /\ handler[f.msg[j].app].m_source_port = f.source
        BY <2>1 DEF FrameFrom
      <4>2. m = h.m_dest_address /\ f.source = h.m_dest_port
        BY <2>1 DEF fromPeer
      <4>3. Behind(a, f.msg[j].app)
        BY <2>1, <4>1, <4>2 DEF Behind
      <4>4. Ask[a].kind # "client"
        BY <1>1, <2>1 DEF EndInv
      <4>5. f.msg[j] \in Chunk
        BY <3>1
      <4> QED BY <4>3, <4>4, <4>5 DEF Data
    <3>3. f.msg \in Seq(Data(a))
      BY <3>1, <3>2
    <3>4. f \in FrameType(Data(a))
      BY <3>3 DEF FrameType
    <3> QED BY <3>4
  <2>2. CASE ~looks
    <3>1. [f EXCEPT !.msg = <<>>] \in FrameType(Data(a))
      BY EmptyFrame
    <3>2. r = receiveFrame(h, s, m, [f EXCEPT !.msg = <<>>], seq)
      <4> HIDE DEF h, s
      <4> QED BY <2>2, LooksIntoPeerOnly
    <3> QED BY <3>1, <3>2
  <2> QED BY <2>1, <2>2
<1> HIDE DEF h, s
<1>5. ResultOK(r, Data(a))
  BY <1>1, <1>2, <1>4, receiveFrameOK
<1> QED BY <1>3, <1>5 DEF h, s

\* The entry points a daemon calls on its own account.
LEMMA CallGives ==
  ASSUME DataInv, NEW a \in App, NEW used
  PROVE  LET s    == [sock[a] EXCEPT !.event = FALSE]
             sr   == handleSock(handler[a], s, used)
             tr   == handleTimer(handler[a], sock[a], used)
         IN  /\ s.ask = Ask[a] /\ sock[a].ask = Ask[a]
             /\ ResultOK(sr, Data(a)) /\ EndsStep(handler[a], s, sr, used) /\ DataStep(sr)
             /\ ResultOK(tr, Data(a)) /\ EndsStep(handler[a], sock[a], tr, used)
             /\ DataStep(tr)
<1> DEFINE h == handler[a]
           t == sock[a]
           s == [sock[a] EXCEPT !.event = FALSE]
<1>1. EndInv(a)
  BY DEF DataInv
<1>2. /\ h \in HandlerType(Data(a)) /\ t \in SockType(Data(a)) /\ t.ask = Ask[a]
      /\ h.m_type \in {"null", Ask[a].kind}
      /\ PortOK(h) /\ WindowOK(h) /\ BufferOK(h, t)
  BY <1>1 DEF EndInv
<1>3. s \in SockType(Data(a)) /\ s.ask = Ask[a] /\ BufferOK(h, s)
  BY <1>2 DEF SockType, BufferOK
<1> HIDE DEF h, t, s
<1>4. /\ ResultOK(handleSock(h, s, used), Data(a))
      /\ EndsStep(h, s, handleSock(h, s, used), used) /\ DataStep(handleSock(h, s, used))
  BY <1>2, <1>3, handleSockOK, EntryEnds, EntryData
<1>5. /\ ResultOK(handleTimer(h, t, used), Data(a))
      /\ EndsStep(h, t, handleTimer(h, t, used), used) /\ DataStep(handleTimer(h, t, used))
  BY <1>2, handleTimerOK, EntryEnds, EntryData
<1> QED BY <1>2, <1>3, <1>4, <1>5 DEF h, t, s

(***************************************************************************)
(* The actions keep the invariant.                                         *)
(***************************************************************************)
LEMMA InitDataInv == Init => DataInv
<1> SUFFICES ASSUME Init PROVE DataInv
  OBVIOUS
<1>1. ASSUME NEW a \in App
      PROVE  EndInv(a) /\ handler[a] \in HandlerType(Chunk) /\ sock[a] \in SockType(Chunk)
  <2>1. handler[a] = NewHandler /\ sock[a] = NewSock(Ask[a])
    BY DEF Init
  <2>2. Ask[a] \in [kind: {"client", "server"}, address: Nat, port: Nat]
    BY DaemonAssumption
  <2>3. ASSUME NEW C
        PROVE  NewHandler \in HandlerType(C) /\ NewSock(Ask[a]) \in SockType(C)
    <3>1. <<>> \in Seq(C) /\ <<>> \in Seq(FrameType(C)) /\ Len(<<>>) = 0
      OBVIOUS
    <3>2. NewHandler \in HandlerType(C)
      BY <3>1, HandlerAssumption
         DEF NewHandler, HandlerType, HandlerRecord, Types, Stages
    <3>3. NewSock(Ask[a]) \in SockType(C)
      BY <3>1, <2>2, HandlerAssumption DEF NewSock, SockType
    <3> QED BY <3>2, <3>3
  <2>4. PortOK(NewHandler) /\ WindowOK(NewHandler) /\ BufferOK(NewHandler, NewSock(Ask[a]))
    BY HandlerAssumption DEF PortOK, WindowOK, BufferOK, NewHandler, NewSock
  <2>5. /\ NewSock(Ask[a]).ask = Ask[a] /\ NewHandler.m_type = "null"
        /\ NewHandler.m_stage = "application"
    BY DEF NewSock, NewHandler
  <2> QED BY <2>1, <2>3, <2>4, <2>5 DEF EndInv
<1>2. \A m, n \in Node : net[m][n] = <<>>
  BY DEF Init
<1>3. /\ handler \in [App -> HandlerType(Chunk)] /\ sock \in [App -> SockType(Chunk)]
      /\ accepted \subseteq App
  BY <1>1 DEF Init
<1>4. net \in [Node -> [Node -> Seq(FrameType(Chunk))]]
  BY DEF Init
<1>5. \A m, n \in Node : FramesFrom(net[m][n], m)
  BY <1>2 DEF FramesFrom
<1> QED BY <1>1, <1>3, <1>4, <1>5 DEF DataInv, TypeOK

\* A step that leaves the handlers alone keeps what is known of each end.
LEMMA QuietKeeps ==
  ASSUME DataInv, handler' = handler, accepted \subseteq accepted', accepted' \subseteq App,
         sock' \in [App -> SockType(Chunk)],
         \A a \in App : /\ sock'[a].ask = sock[a].ask
                        /\ sock'[a].delivered = sock[a].delivered
                        /\ sock'[a] \in SockType(Data(a)),
         net' \in [Node -> [Node -> Seq(FrameType(Chunk))]],
         \A m, n \in Node : \A i \in 1..Len(net'[m][n]) : FrameFrom(net'[m][n][i], m)
  PROVE  DataInv'
<1>1. EndsKept
  BY DEF EndsKept
<1>2. /\ \A b \in App : Data(b) \subseteq Data(b)'
      /\ \A f \in FrameType(Chunk), m \in Node : FrameFrom(f, m) => FrameFrom(f, m)'
  BY <1>1, BehindStays
<1>3. ASSUME NEW a \in App PROVE EndInv(a)'
  <2>1. EndInv(a)
    BY DEF DataInv
  <2>2. handler[a] \in HandlerType(Data(a)') /\ sock'[a] \in SockType(Data(a)')
    BY <1>2, <2>1, TypeGrows DEF EndInv
  <2>3. BufferOK(handler[a], sock'[a])
    BY <2>1 DEF EndInv, BufferOK
  <2> QED BY <2>1, <2>2, <2>3 DEF EndInv
<1>4. ASSUME NEW m \in Node, NEW n \in Node PROVE FramesFrom(net[m][n], m)'
  <2> SUFFICES ASSUME NEW i \in 1..Len(net'[m][n]) PROVE FrameFrom(net[m][n][i], m)'
    BY DEF FramesFrom
  <2>1. FrameFrom(net'[m][n][i], m)
    OBVIOUS
  <2> QED BY ONLY <2>1, handler' = handler DEF FrameFrom
<1> QED BY <1>3, <1>4 DEF DataInv, TypeOK

\* The frames left after the first one was taken from a channel.
LEMMA TakeKeeps ==
  ASSUME DataInv, NEW m \in Node, NEW n \in Node, net[m][n] # <<>>
  PROVE  LET net0 == [net EXCEPT ![m][n] = Tail(@)]
         IN  /\ net0 \in [Node -> [Node -> Seq(FrameType(Chunk))]]
             /\ \A k, l \in Node : FramesFrom(net0[k][l], k)
             /\ Head(net[m][n]) \in FrameType(Chunk) /\ FrameFrom(Head(net[m][n]), m)
<1> DEFINE net0 == [net EXCEPT ![m][n] = Tail(@)]
           ch   == net[m][n]
<1>1. /\ net \in [Node -> [Node -> Seq(FrameType(Chunk))]]
      /\ ch \in Seq(FrameType(Chunk)) /\ ch # <<>> /\ FramesFrom(ch, m)
  BY DEF DataInv, TypeOK
<1>2. \A k, l \in Node : net0[k][l] = IF k = m /\ l = n THEN Tail(ch) ELSE net[k][l]
  BY ONLY m \in Node, n \in Node, <1>1
<1> HIDE DEF ch
<1>3. /\ Tail(ch) \in Seq(FrameType(Chunk)) /\ Head(ch) \in FrameType(Chunk)
      /\ \A i \in 1..Len(Tail(ch)) : i + 1 \in 1..Len(ch) /\ Tail(ch)[i] = ch[i + 1]
      /\ 1 \in 1..Len(ch) /\ Head(ch) = ch[1]
  <2> DEFINE T == FrameType(Chunk)
  <2>1. ch \in Seq(T) /\ ch # <<>>
    BY <1>1
  <2> HIDE DEF T
  <2>2. /\ Tail(ch) \in Seq(T) /\ Head(ch) \in T
        /\ \A i \in 1..Len(Tail(ch)) : i + 1 \in 1..Len(ch) /\ Tail(ch)[i] = ch[i + 1]
        /\ 1 \in 1..Len(ch) /\ Head(ch) = ch[1]
    BY ONLY <2>1
  <2> QED BY ONLY <2>2 DEF T
<1>4. FramesFrom(Tail(ch), m) /\ FrameFrom(Head(ch), m)
  BY ONLY <1>1, <1>3 DEF FramesFrom
<1>5. net0 \in [Node -> [Node -> Seq(FrameType(Chunk))]]
  <2> DEFINE S == Seq(FrameType(Chunk))
  <2>1. net \in [Node -> [Node -> S]] /\ Tail(ch) \in S
    BY <1>1, <1>3
  <2> HIDE DEF S
  <2>2. net0 \in [Node -> [Node -> S]]
    BY ONLY m \in Node, n \in Node, <2>1 DEF ch
  <2> QED BY ONLY <2>2 DEF S
<1> HIDE DEF net0
<1>6. \A k, l \in Node : FramesFrom(net0[k][l], k)
  BY <1>2, <1>4 DEF DataInv
<1> QED BY <1>3, <1>4, <1>5, <1>6 DEF net0, ch

\* What an application does to its socket.
LEMMA AppKeeps ==
  ASSUME DataInv, NEW a \in App, AppStep(a)
  PROVE  DataInv'
<1>1. /\ handler' = handler /\ accepted' = accepted /\ net' = net
      /\ accepted \subseteq App /\ sock \in [App -> SockType(Chunk)]
      /\ net \in [Node -> [Node -> Seq(FrameType(Chunk))]]
  BY DEF AppStep, AppRequests, AppWrites, AppReads, AppCloses, DataInv, TypeOK
<1>2. \A b \in App : sock[b] \in SockType(Data(b)) /\ sock[b].ask = Ask[b]
  BY DEF DataInv, EndInv
<1> DEFINE t == sock'[a]
<1>3. /\ \A b \in App : b # a => sock'[b] = sock[b]
      /\ t \in SockType(Data(a)) /\ t.ask = sock[a].ask
      /\ t.delivered = sock[a].delivered
  <2>1. CASE AppRequests(a)
    <3>1. sock' = [sock EXCEPT ![a].request = @ + 1, ![a].event = TRUE]
      BY <2>1 DEF AppRequests
    <3>2. t = [sock[a] EXCEPT !.request = @ + 1, !.event = TRUE]
      BY <1>1, <3>1
    <3>3. sock[a].request + 1 \in 0..3
      <4>1. sock[a].request \in 0..3 /\ sock[a].request < RequestItems(Ask[a].kind)
        BY <1>2, <2>1 DEF AppRequests, SockType
      <4> QED BY <4>1 DEF RequestItems
    <3>4. t \in SockType(Data(a)) /\ t.ask = sock[a].ask /\ t.delivered = sock[a].delivered
      <4> DEFINE s == sock[a]
                 n == sock[a].request + 1
      <4>1. s \in SockType(Data(a)) /\ n \in 0..3
        BY <1>2, <3>3
      <4>2. t = [s EXCEPT !.request = n, !.event = TRUE]
        BY <3>2
      <4> HIDE DEF s, n, t
      <4>3. t \in SockType(Data(a)) /\ t.ask = s.ask /\ t.delivered = s.delivered
        BY ONLY <4>1, <4>2, Requested
      <4> QED BY <4>3 DEF s
    <3> QED BY ONLY <1>1, <3>1, <3>4
  <2>2. CASE AppWrites(a)
    <3> DEFINE c == ChunkOf(a, Written(a) + 1)
    <3>1. sock' = [sock EXCEPT ![a].in = Append(@, c), ![a].event = TRUE]
      BY <2>2 DEF AppWrites
    <3>2. t = [sock[a] EXCEPT !.in = Append(@, c), !.event = TRUE]
      BY <1>1, <3>1
    <3>3. c \in Data(a)
      <4>1. sock[a].in \in Seq(Chunk) /\ handler[a].m_total_data_loaded \in Nat
        BY <1>1 DEF SockType, DataInv, TypeOK, HandlerType, HandlerRecord
      <4>2. Written(a) + 1 \in Nat \ {0}
        BY <4>1 DEF Written
      <4>3. c \in Chunk /\ c.app = a
        BY <4>2 DEF Chunk, ChunkOf
      <4> QED BY <2>2, <4>3 DEF AppWrites, Data
    <3> HIDE DEF c
    <3>4. Append(sock[a].in, c) \in Seq(Data(a))
      <4>1. sock[a].in \in Seq(Data(a))
        BY <1>2 DEF SockType
      <4> QED BY <3>3, <4>1
    <3>5. t \in SockType(Data(a)) /\ t.ask = sock[a].ask /\ t.delivered = sock[a].delivered
      <4> DEFINE s == sock[a]
                 q == Append(sock[a].in, c)
                 D == Data(a)
      <4>1. s \in SockType(D) /\ q \in Seq(D)
        BY <1>2, <3>4
      <4>2. t = [s EXCEPT !.in = q, !.event = TRUE]
        BY <3>2
      <4> HIDE DEF s, q, t, D
      <4>3. [s EXCEPT !.in = q, !.event = TRUE] \in SockType(D)
        BY ONLY <4>1, WrittenTo
      <4>4. t.ask = s.ask /\ t.delivered = s.delivered
        BY ONLY <4>1, <4>2 DEF SockType
      <4> QED BY <4>2, <4>3, <4>4 DEF s, D
    <3> QED BY ONLY <1>1, <3>1, <3>5
  <2>3. CASE AppReads(a)
    <3>1. sock' = [sock EXCEPT ![a].unread = @ - 1]
      BY <2>3 DEF AppReads
    <3>2. t = [sock[a] EXCEPT !.unread = @ - 1]
      BY <1>1, <3>1
    <3>3. sock[a].unread - 1 \in 0..SockCapacity
      BY <1>2, <2>3, HandlerAssumption DEF AppReads, SockType
    <3>4. t \in SockType(Data(a)) /\ t.ask = sock[a].ask /\ t.delivered = sock[a].delivered
      <4> DEFINE s == sock[a]
                 n == sock[a].unread - 1
      <4>1. s \in SockType(Data(a)) /\ n \in 0..SockCapacity
        BY <1>2, <3>3
      <4>2. t = [s EXCEPT !.unread = n]
        BY <3>2
      <4> HIDE DEF s, n, t
      <4>3. t \in SockType(Data(a)) /\ t.ask = s.ask /\ t.delivered = s.delivered
        BY ONLY <4>1, <4>2, ReadFrom
      <4> QED BY <4>3 DEF s
    <3> QED BY ONLY <1>1, <3>1, <3>4
  <2>4. CASE AppCloses(a)
    <3>1. sock' = [sock EXCEPT ![a].closed = TRUE, ![a].event = TRUE]
      BY <2>4 DEF AppCloses
    <3>2. t = [sock[a] EXCEPT !.closed = TRUE, !.event = TRUE]
      BY <1>1, <3>1
    <3>3. t \in SockType(Data(a)) /\ t.ask = sock[a].ask /\ t.delivered = sock[a].delivered
      BY ONLY <1>2, <3>2, ClosedBy
    <3> QED BY ONLY <1>1, <3>1, <3>3
  <2> QED BY <2>1, <2>2, <2>3, <2>4 DEF AppStep
<1> HIDE DEF t
<1>4. \A b \in App : /\ sock'[b].ask = sock[b].ask
                     /\ sock'[b].delivered = sock[b].delivered
                     /\ sock'[b] \in SockType(Data(b))
  BY <1>2, <1>3 DEF t
<1>5. sock' \in [App -> SockType(Chunk)]
  <2>1. Data(a) \subseteq Chunk
    BY DEF Data
  <2>2. t \in SockType(Chunk)
    BY <1>3, <2>1, TypeGrows
  <2>3. DOMAIN sock' = App /\ sock' = [b \in App |-> sock'[b]]
    BY <1>1 DEF AppStep, AppRequests, AppWrites, AppReads, AppCloses
  <2> QED BY <1>1, <1>3, <2>2, <2>3 DEF t
<1>6. \A m, n \in Node : \A i \in 1..Len(net'[m][n]) : FrameFrom(net'[m][n][i], m)
  BY <1>1 DEF DataInv, FramesFrom
<1> QED BY <1>1, <1>4, <1>5, <1>6, QuietKeeps

\* A call of the daemon on a socket or a timer.
LEMMA CallKeeps ==
  ASSUME DataInv, NEW a \in App, handleClientHandlerSock(a) \/ handleClientHandlerTimer(a)
  PROVE  DataInv'
<1> DEFINE used == UsedPorts(NodeOf[a])
           s    == [sock[a] EXCEPT !.event = FALSE]
           sr   == handleSock(handler[a], s, used)
           tr   == handleTimer(handler[a], sock[a], used)
<1>1. a \in accepted /\ accepted' = accepted
  BY DEF handleClientHandlerSock, handleClientHandlerTimer, Serving, client_vector
<1>2. /\ net \in [Node -> [Node -> Seq(FrameType(Chunk))]]
      /\ \A m, n \in Node : FramesFrom(net[m][n], m)
  BY DEF DataInv, TypeOK
<1>3. /\ s.ask = Ask[a] /\ sock[a].ask = Ask[a]
      /\ ResultOK(sr, Data(a)) /\ EndsStep(handler[a], s, sr, used) /\ DataStep(sr)
      /\ ResultOK(tr, Data(a)) /\ EndsStep(handler[a], sock[a], tr, used) /\ DataStep(tr)
  BY CallGives
<1>4. Does(a, sr, net) \/ Does(a, tr, net)
  BY DEF handleClientHandlerSock, handleClientHandlerTimer
<1> HIDE DEF used, s, sr, tr
<1> QED BY <1>1, <1>2, <1>3, <1>4, DoesKeeps

\* The number the code reads from a frame.
LEMMA NumberOK ==
  ASSUME NEW f \in FrameType(Chunk)
  PROVE  getSequenceNumber(f, 0) \in Int
BY HandlerAssumption DEF getSequenceNumber, FrameType

\* A frame that arrives, or is lost.
LEMMA FrameKeeps ==
  ASSUME DataInv, NEW m \in Node, NEW n \in Node, receiveTransportSock(m, n) \/ Lose(m, n)
  PROVE  DataInv'
<1> DEFINE f    == Head(net[m][n])
           net0 == [net EXCEPT ![m][n] = Tail(@)]
<1>1. net[m][n] # <<>> /\ accepted' = accepted
  BY DEF receiveTransportSock, Lose
<1>2. /\ net0 \in [Node -> [Node -> Seq(FrameType(Chunk))]]
      /\ \A k, l \in Node : FramesFrom(net0[k][l], k)
      /\ f \in FrameType(Chunk) /\ FrameFrom(f, m)
  BY <1>1, TakeKeeps
<1>3. \/ net' = net0 /\ handler' = handler /\ sock' = sock
      \/ \E a \in Owners(n, f.dest) :
           Does(a, receiveFrame(handler[a], sock[a], m, f, getSequenceNumber(f, 0)), net0)
  BY DEF receiveTransportSock, Lose
<1> HIDE DEF f, net0
<1>4. CASE net' = net0 /\ handler' = handler /\ sock' = sock
  <2>1. accepted \subseteq App /\ sock \in [App -> SockType(Chunk)]
    BY DEF DataInv, TypeOK
  <2>2. \A a \in App : sock[a] \in SockType(Data(a))
    BY DEF DataInv, EndInv
  <2>3. \A k, l \in Node : \A i \in 1..Len(net'[k][l]) : FrameFrom(net'[k][l][i], k)
    BY <1>2, <1>4 DEF FramesFrom
  <2> QED BY <1>1, <1>2, <1>4, <2>1, <2>2, <2>3, QuietKeeps
<1>5. ASSUME NEW a \in Owners(n, f.dest),
             Does(a, receiveFrame(handler[a], sock[a], m, f, getSequenceNumber(f, 0)), net0)
      PROVE  DataInv'
  <2> DEFINE seq == getSequenceNumber(f, 0)
             r   == receiveFrame(handler[a], sock[a], m, f, seq)
  <2>1. a \in accepted /\ a \in App
    BY DEF Owners, client_vector, DataInv, TypeOK
  <2>2. seq \in Int
    BY <1>2, NumberOK
  <2>3. sock[a].ask = Ask[a]
    BY <2>1 DEF DataInv, EndInv
  <2>4. Does(a, r, net0)
    BY <1>5
  <2> HIDE DEF seq
  <2>5. /\ ResultOK(r, Data(a)) /\ DataStep(r)
        /\ EndsStep(handler[a], sock[a], r, UsedPorts(NodeOf[a]))
    BY <1>2, <2>1, <2>2, FrameGives
  <2> HIDE DEF r
  <2> QED BY <1>1, <1>2, <2>1, <2>3, <2>4, <2>5, DoesKeeps
<1> QED BY <1>3, <1>4, <1>5

\* An entry point gives its handler no port of another handler on the node.
LEMMA DoesDistinct ==
  ASSUME PortsDistinct, NEW a \in App, NEW s, NEW r, NEW net0,
         handler \in [App -> HandlerType(Chunk)], Serving(a), accepted' = accepted,
         EndsStep(handler[a], s, r, UsedPorts(NodeOf[a])), Does(a, r, net0)
  PROVE  PortsDistinct'
<1> DEFINE port(b) == handler[b].m_source_port
           port2(b) == handler'[b].m_source_port
<1>1. /\ handler'[a] = r.handler
      /\ \A b \in App : b # a => handler'[b] = handler[b]
  BY DEF Does
<1>2. \A b \in App : Serving(b)' => Serving(b)
  <2>1. Running(NodeOf[a])
    BY DEF Serving, client_vector
  <2>2. \A n : Running(n)' => Running(n)
    BY <1>1, <2>1 DEF Running
  <2> QED BY <1>1, <2>2 DEF Serving, client_vector
<1>3. \A b \in App : Serving(b) /\ NodeOf[b] = NodeOf[a] => port(b) \in UsedPorts(NodeOf[a])
  BY DEF Serving, UsedPorts
<1>4. port2(a) = port(a) \/ port2(a) \notin UsedPorts(NodeOf[a])
  BY <1>1 DEF EndsStep
<1>5. \A b \in App : b # a => port2(b) = port(b)
  BY <1>1
<1>6. \A b, c \in App :
        /\ b # c /\ Serving(b) /\ Serving(c) /\ NodeOf[b] = NodeOf[c] /\ port(b) # 0
        => port(b) # port(c)
  BY DEF PortsDistinct
<1> HIDE DEF port, port2
<1>7. \A b, c \in App :
        /\ b # c /\ Serving(b)' /\ Serving(c)' /\ NodeOf[b] = NodeOf[c] /\ port2(b) # 0
        => port2(b) # port2(c)
  BY <1>2, <1>3, <1>4, <1>5, <1>6
<1> QED BY <1>7 DEF PortsDistinct, port2

\* Every step keeps the ports of a daemon distinct.
LEMMA NextDistinct ==
  ASSUME DaemonInv, Next
  PROVE  PortsDistinct'
<1>1. /\ handler \in [App -> HandlerType(Chunk)] /\ accepted \subseteq App
      /\ PortsDistinct /\ DataInv
  BY DEF DaemonInv, DataInv, TypeOK
<1>2. ASSUME handler' = handler, accepted' = accepted PROVE PortsDistinct'
  <2>1. \A b \in App : Serving(b)' <=> Serving(b)
    BY <1>2 DEF Serving, client_vector, Running
  <2> QED BY <1>1, <1>2, <2>1 DEF PortsDistinct
<1>3. ASSUME NEW a \in App, receiveApplicationSock(a) PROVE PortsDistinct'
  <2>1. handler' = handler /\ accepted' = accepted \cup {a} /\ a \notin accepted
    BY <1>3 DEF receiveApplicationSock
  <2>2. handler[a].m_source_port = 0
    BY <1>1, <2>1 DEF DataInv, EndInv, PortOK
  <2>3. \A b \in App : b # a /\ Serving(b)' => Serving(b)
    BY <2>1 DEF Serving, client_vector, Running
  <2> QED BY <1>1, <2>1, <2>2, <2>3 DEF PortsDistinct
<1>4. ASSUME NEW a \in App, handleClientHandlerSock(a) \/ handleClientHandlerTimer(a)
      PROVE  PortsDistinct'
  <2> DEFINE used == UsedPorts(NodeOf[a])
             s    == [sock[a] EXCEPT !.event = FALSE]
             sr   == handleSock(handler[a], s, used)
             tr   == handleTimer(handler[a], sock[a], used)
  <2>1. /\ Serving(a) /\ accepted' = accepted
        /\ Does(a, sr, net) \/ Does(a, tr, net)
    BY <1>4 DEF handleClientHandlerSock, handleClientHandlerTimer
  <2>2. /\ EndsStep(handler[a], s, sr, used)
        /\ EndsStep(handler[a], sock[a], tr, used)
    BY <1>1, CallGives
  <2> HIDE DEF s, sr, tr
  <2> QED BY <1>1, <2>1, <2>2, DoesDistinct
<1>5. ASSUME NEW m \in Node, NEW n \in Node, receiveTransportSock(m, n) \/ Lose(m, n)
      PROVE  PortsDistinct'
  <2> DEFINE f    == Head(net[m][n])
             net0 == [net EXCEPT ![m][n] = Tail(@)]
  <2>1. net[m][n] # <<>> /\ accepted' = accepted
    BY <1>5 DEF receiveTransportSock, Lose
  <2>2. f \in FrameType(Chunk) /\ FrameFrom(f, m)
    BY <1>1, <2>1, TakeKeeps
  <2>3. \/ handler' = handler
        \/ /\ Running(n)
           /\ \E a \in Owners(n, f.dest) :
                Does(a, receiveFrame(handler[a], sock[a], m, f, getSequenceNumber(f, 0)), net0)
    BY <1>5 DEF receiveTransportSock, Lose
  <2> HIDE DEF f, net0
  <2>4. ASSUME NEW a \in Owners(n, f.dest),
               Does(a, receiveFrame(handler[a], sock[a], m, f, getSequenceNumber(f, 0)), net0)
        PROVE  PortsDistinct'
    <3> DEFINE r == receiveFrame(handler[a], sock[a], m, f, getSequenceNumber(f, 0))
    <3>1. a \in App /\ Serving(a)
      BY <1>1 DEF Owners, client_vector, Serving
    <3>2. EndsStep(handler[a], sock[a], r, UsedPorts(NodeOf[a]))
      BY <1>1, <2>2, <3>1, NumberOK, FrameGives
    <3>3. Does(a, r, net0)
      BY <2>4
    <3> HIDE DEF r
    <3> QED BY <1>1, <2>1, <3>1, <3>2, <3>3, DoesDistinct
  <2> QED BY <1>2, <2>1, <2>3, <2>4
<1>6. ASSUME NEW a \in App, AppStep(a) PROVE PortsDistinct'
  BY <1>2, <1>6 DEF AppStep, AppRequests, AppWrites, AppReads, AppCloses
<1> QED BY <1>3, <1>4, <1>5, <1>6 DEF Next

(***************************************************************************)
(* The theorems.                                                           *)
(***************************************************************************)
LEMMA InvCorrect == Spec => []DaemonInv
<1>1. Init => DaemonInv
  <2>1. Init => PortsDistinct
    BY DEF Init, PortsDistinct, NewHandler
  <2> QED BY <2>1, InitDataInv DEF DaemonInv
<1>2. DaemonInv /\ [Next]_vars => DaemonInv'
  <2> SUFFICES ASSUME DaemonInv, [Next]_vars PROVE DaemonInv'
    OBVIOUS
  <2>1. CASE UNCHANGED vars
    <3>1. DataInv' <=> DataInv
      BY <2>1 DEF vars, DataInv, TypeOK, EndInv, FramesFrom, FrameFrom, Data, Behind
    <3>2. PortsDistinct' <=> PortsDistinct
      BY <2>1 DEF vars, PortsDistinct, Serving, client_vector, Running
    <3> QED BY <3>1, <3>2 DEF DaemonInv
  <2>2. CASE Next
    <3>1. DataInv
      BY DEF DaemonInv
    <3>2. ASSUME NEW a \in App, receiveApplicationSock(a) PROVE DataInv'
      <4>1. /\ handler' = handler /\ sock' = sock /\ net' = net
            /\ accepted' = accepted \cup {a} /\ accepted \subseteq App
            /\ sock \in [App -> SockType(Chunk)]
            /\ net \in [Node -> [Node -> Seq(FrameType(Chunk))]]
        BY <3>1, <3>2 DEF receiveApplicationSock, DataInv, TypeOK
      <4>2. \A b \in App : sock[b] \in SockType(Data(b))
        BY <3>1 DEF DataInv, EndInv
      <4>3. \A m, n \in Node : \A i \in 1..Len(net'[m][n]) : FrameFrom(net'[m][n][i], m)
        BY <3>1, <4>1 DEF DataInv, FramesFrom
      <4> QED BY <3>1, <4>1, <4>2, <4>3, QuietKeeps
    <3>3. DataInv'
      BY <2>2, <3>1, <3>2, AppKeeps, CallKeeps, FrameKeeps DEF Next
    <3> QED BY <2>2, <3>3, NextDistinct DEF DaemonInv
  <2> QED BY <2>1, <2>2
<1> QED BY <1>1, <1>2, PTL DEF Spec

\* The daemons keep their types: no call leaves a handler, a socket or a channel
\* with a value the code has no place for, the window included.
THEOREM TypeCorrect == Spec => []TypeOK
<1>1. DaemonInv => TypeOK
  BY DEF DaemonInv, DataInv
<1> QED BY <1>1, InvCorrect, PTL

\* Two handlers of a daemon never hold the same port, whatever the applications
\* ask for and however many fail (transport_deamon's search of client_vector).
THEOREM PortsCorrect == Spec => []PortsDistinct
<1>1. DaemonInv => PortsDistinct
  BY DEF DaemonInv
<1> QED BY <1>1, InvCorrect, PTL

\* A listening application gets data only from applications behind the address
\* and port its handler is bound to, although ports change their owners while
\* frames of the former owner are under way.
THEOREM DataFromPeerCorrect == Spec => []DataFromPeerOnly
<1>1. DataInv => DataFromPeerOnly
  <2> SUFFICES ASSUME DataInv, NEW a \in App, NEW i \in 1..Len(Taken(a))
               PROVE  /\ NodeOf[Taken(a)[i].app] = handler[a].m_dest_address
                      /\ handler[Taken(a)[i].app].m_source_port = handler[a].m_dest_port
    BY DEF DataFromPeerOnly
  <2> DEFINE d == sock[a].delivered
             b == handler[a].m_msg_buffer
  <2>1. EndInv(a)
    BY DEF DataInv
  <2>2. d \in Seq(Data(a)) /\ b \in Seq(Data(a))
    BY <2>1 DEF EndInv, HandlerType, HandlerRecord, SockType
  <2>3. handler[a].m_type = "server"
    <3>1. ASSUME d = <<>>, b = <<>> PROVE FALSE
      <4>1. Taken(a) = <<>> \o <<>>
        BY <3>1 DEF Taken
      <4>2. Len(Taken(a)) = 0
        BY <4>1
      <4> QED BY <4>2
    <3> QED BY <2>1, <3>1 DEF EndInv, BufferOK
  <2>4. Ask[a].kind = "server"
    BY <2>1, <2>3 DEF EndInv
  <2>5. Taken(a)[i] \in Data(a)
    <3>1. i \in 1..Len(d \o b)
      BY DEF Taken
    <3> HIDE DEF d, b
    <3>2. (d \o b)[i] \in Data(a)
      BY <2>2, <3>1
    <3> QED BY <3>2 DEF Taken, d, b
  <2>6. Behind(a, Taken(a)[i].app)
    BY <2>4, <2>5 DEF Data
  <2> QED BY <2>6 DEF Behind
<1>2. DaemonInv => DataFromPeerOnly
  BY <1>1 DEF DaemonInv
<1> QED BY <1>2, InvCorrect, PTL
=============================================================================
