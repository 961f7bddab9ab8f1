------------------------ MODULE TransportEventsProofs ------------------------
(***************************************************************************)
(* Theorems about the event loop of a transport daemon, for every number   *)
(* of applications, descriptors and events of a batch: an event that an    *)
(* erased handler left in the batch does its successor no harm.            *)
(***************************************************************************)
EXTENDS TransportEvents, ClientHandlerProofs, FiniteSetTheorems

(***************************************************************************)
(* The inductive invariant.  A handler takes two descriptors at once and   *)
(* gives both back at once, so they always are one of the same pairs; it   *)
(* is erased while one of its own events is handled, so that at most one   *)
(* event of it stays in the batch.  The next owner of the pair meets that  *)
(* event before it has read its request, or has no event of its own left   *)
(* that would make it read.                                                *)
(***************************************************************************)
Pair(k) == [sock |-> FirstFd + 2 * k, timer |-> FirstFd + 2 * k + 1]

Pairs == {Pair(k) : k \in {n \in 0..LastFd : FirstFd + 2 * n + 1 <= LastFd}}

DaemonType ==
  [handler : [App -> HandlerType({})], sock : [App -> SockType({})],
   fd : [App -> Pairs \cup {NoFd}], expired : [App -> BOOLEAN],
   queue : 0..MaxQueue, outbox : 0..SockPackets]

\* A handler with descriptors has not failed.
Sane(d) ==
  /\ d \in DaemonType
  /\ \A a \in App : d.fd[a] # NoFd => d.handler[a].m_stage # "failure"

\* No pair has two owners.
FdsDistinct(d) ==
  \A a, b \in App : a # b /\ d.fd[a] # NoFd => d.fd[a] # d.fd[b]

\* Only a timer that expired is readable, and only that told the time is up.
RangOnly(d, ringing) ==
  \A a \in App : d.expired[a] \/ d.sock[a].reply = "timeout" => a \in ringing

\* Who was not accepted yet.
Fresh(d, a) == d.fd[a] = NoFd /\ d.handler[a].m_stage = "application"

BacklogOK(d) ==
  /\ backlog \in Seq(connected)
  /\ \A i, j \in 1..Len(backlog) : i # j => backlog[i] # backlog[j]
  /\ \A i \in 1..Len(backlog) : Fresh(d, backlog[i])
  /\ \A a \in App \ connected : Fresh(d, a)

\* A timer event in the batch that is not of a's own making finds a before its
\* request, and will find it so.
StaleHarmless(d, ringing, events) ==
  /\ \A a \in App : d.fd[a] # NoFd /\ a \notin ringing /\ d.fd[a].timer \in events =>
       d.handler[a].m_stage = "application" /\ d.fd[a].sock \notin events
  /\ \A p \in Pairs : (\A a \in App : d.fd[a] # p) =>
       p.sock \notin events \/ p.timer \notin events

\* What a call on a handler keeps.
CallsInv(d, ringing, events) ==
  /\ Sane(d) /\ FdsDistinct(d) /\ RangOnly(d, ringing)
  /\ StaleHarmless(d, ringing, events)

Descriptors == {transport_fd, application_fd} \cup FirstFd..LastFd

EventsInv ==
  /\ running \in BOOLEAN /\ arrived \in BOOLEAN
  /\ connected \subseteq App /\ rang \subseteq App /\ inbox \in Seq(Input)
  /\ passed \subseteq Descriptors /\ batch \subseteq Descriptors
  /\ CallsInv(Daemon, rang, batch)
  /\ BacklogOK(Daemon)
  /\ application_fd \in batch => backlog # <<>>

(***************************************************************************)
(* Pairs of descriptors                                                    *)
(***************************************************************************)
\* Two pairs that share a descriptor are one.
LEMMA PairsApart ==
  ASSUME NEW p \in Pairs, NEW q \in Pairs,
         {p.sock, p.timer} \cap {q.sock, q.timer} # {}
  PROVE  p = q
<1>1. PICK k \in Nat : p = Pair(k)
  BY EventsAssumption DEF Pairs
<1>2. PICK m \in Nat : q = Pair(m)
  BY EventsAssumption DEF Pairs
<1>3. k = m
  <2>1. /\ p.sock = 6 + 2 * k /\ p.timer = 6 + 2 * k + 1
        /\ q.sock = 6 + 2 * m /\ q.timer = 6 + 2 * m + 1
    BY <1>1, <1>2 DEF Pair, FirstFd
  <2> QED BY <2>1
<1> QED BY <1>1, <1>2, <1>3

\* The descriptors of a pair are two of those a process gives out.
LEMMA PairInRange ==
  ASSUME NEW p \in Pairs
  PROVE  /\ p.sock \in FirstFd..LastFd /\ p.timer \in FirstFd..LastFd
         /\ p.sock # p.timer /\ p # NoFd /\ p.sock # 0
<1>1. PICK k \in Nat : p = Pair(k) /\ FirstFd + 2 * k + 1 <= LastFd
  BY EventsAssumption DEF Pairs
<1>2. p.sock = 6 + 2 * k /\ p.timer = 6 + 2 * k + 1
  BY <1>1 DEF Pair, FirstFd
<1> QED BY <1>1, <1>2, EventsAssumption DEF FirstFd, NoFd

\* No two handlers share a descriptor.
LEMMA OwnerUnique ==
  ASSUME NEW d, Sane(d), FdsDistinct(d), NEW a \in App, NEW b \in App, a # b,
         d.fd[a] # NoFd, d.fd[b] # NoFd
  PROVE  /\ d.fd[a].sock \notin {d.fd[b].sock, d.fd[b].timer}
         /\ d.fd[a].timer \notin {d.fd[b].sock, d.fd[b].timer}
<1>1. d.fd[a] \in Pairs /\ d.fd[b] \in Pairs
  BY DEF Sane, DaemonType
<1>2. d.fd[a] # d.fd[b]
  BY DEF FdsDistinct
<1> QED BY <1>1, <1>2, PairsApart

(***************************************************************************)
(* Calls on a handler                                                      *)
(***************************************************************************)
\* What Called and Erased leave, field by field.
LEMMA CalledErased ==
  ASSUME NEW d \in DaemonType, NEW a \in App, NEW r, ResultOK(r, {}),
         NEW armed \in BOOLEAN, NEW e, e = Erased(Called(d, a, r, armed), a)
  PROVE  /\ e \in DaemonType
         /\ \A b \in App : b # a =>
              /\ e.fd[b] = d.fd[b] /\ e.handler[b] = d.handler[b]
              /\ e.sock[b] = d.sock[b] /\ e.expired[b] = d.expired[b]
         /\ e.handler[a] = r.handler /\ e.sock[a] = r.sock
         /\ e.expired[a] => d.expired[a]
         /\ e.fd[a] = IF r.handler.m_stage = "failure" THEN NoFd ELSE d.fd[a]
<1> DEFINE c == Called(d, a, r, armed)
           queue == LowerOf(d.queue + Len(r.out), MaxQueue)
<1>1. /\ r.handler \in HandlerType({}) /\ r.sock \in SockType({})
      /\ Len(r.out) \in Nat
  BY DEF ResultOK
<1>2. queue \in 0..MaxQueue
  <2>1. d.queue \in Nat /\ MaxQueue \in Nat
    BY EventsAssumption DEF DaemonType
  <2> QED BY <1>1, <2>1 DEF LowerOf
<1>3. /\ d.handler \in [App -> HandlerType({})] /\ d.sock \in [App -> SockType({})]
      /\ d.fd \in [App -> Pairs \cup {NoFd}] /\ d.expired \in [App -> BOOLEAN]
      /\ d.outbox \in 0..SockPackets
  BY DEF DaemonType
<1> DEFINE handlers == [d.handler EXCEPT ![a] = r.handler]
           socks == [d.sock EXCEPT ![a] = r.sock]
           ready == d.expired[a] /\ ~armed
           timers == [d.expired EXCEPT ![a] = ready]
           fds == [d.fd EXCEPT ![a] = NoFd]
           quiet == [timers EXCEPT ![a] = FALSE]
<1>4. ready \in BOOLEAN /\ (ready => d.expired[a])
  BY <1>3
<1> HIDE DEF ready
<1>5. /\ handlers \in [App -> HandlerType({})] /\ socks \in [App -> SockType({})]
      /\ timers \in [App -> BOOLEAN] /\ quiet \in [App -> BOOLEAN]
      /\ fds \in [App -> Pairs \cup {NoFd}]
  BY <1>1, <1>3, <1>4
<1>8. \A b \in App : IF b = a THEN /\ handlers[b] = r.handler /\ socks[b] = r.sock
                                   /\ timers[b] = ready /\ quiet[b] = FALSE
                                   /\ fds[b] = NoFd
                     ELSE /\ handlers[b] = d.handler[b] /\ socks[b] = d.sock[b]
                          /\ timers[b] = d.expired[b] /\ quiet[b] = d.expired[b]
                          /\ fds[b] = d.fd[b]
  BY <1>3
<1>9. c = [d EXCEPT !.handler = handlers, !.sock = socks, !.expired = timers,
                    !.queue = queue]
  BY DEF Called, DaemonType, ready
<1> HIDE DEF queue, handlers, socks, timers, fds, quiet
<1>10. /\ c \in DaemonType /\ c.fd = d.fd /\ c.handler = handlers
       /\ c.sock = socks /\ c.expired = timers
  BY <1>2, <1>3, <1>5, <1>9 DEF DaemonType
<1> HIDE DEF c
<1>6. CASE r.handler.m_stage = "failure"
  <2>1. c.handler[a].m_stage = "failure"
    BY <1>6, <1>8, <1>10
  <2>2. e = [c EXCEPT !.fd = fds, !.expired = quiet]
    BY <2>1, <1>10 DEF Erased, c, DaemonType, fds, quiet
  <2>3. /\ e.fd = fds /\ e.handler = c.handler /\ e.sock = c.sock
        /\ e.expired = quiet /\ e \in DaemonType
    BY <1>5, <1>10, <2>2 DEF DaemonType
  <2> QED BY <1>6, <1>8, <1>10, <2>3
<1>7. CASE r.handler.m_stage # "failure"
  <2>1. e = c
    BY <1>7, <1>8, <1>10 DEF Erased, c
  <2> QED BY <1>4, <1>7, <1>8, <1>10, <2>1
<1> QED BY <1>6, <1>7

\* A handler that was erased left at most one event in the batch, the other is
\* the one that was handled: a call on a that handles an event of its own.
LEMMA CallSafe ==
  ASSUME NEW d, NEW ringing, NEW events, CallsInv(d, ringing, events),
         NEW a \in App, d.fd[a] # NoFd,
         NEW f \in events, f \in {d.fd[a].sock, d.fd[a].timer},
         NEW r, ResultOK(r, {}), r.sock.reply = "timeout" => a \in ringing,
         NEW armed \in BOOLEAN, NEW e, e = Erased(Called(d, a, r, armed), a)
  PROVE  CallsInv(e, ringing, events \ {f})
<1>1. /\ Sane(d) /\ FdsDistinct(d) /\ RangOnly(d, ringing)
      /\ StaleHarmless(d, ringing, events) /\ d \in DaemonType
  BY DEF CallsInv, Sane
<1>2. /\ e \in DaemonType
      /\ \A b \in App : b # a =>
           /\ e.fd[b] = d.fd[b] /\ e.handler[b] = d.handler[b]
           /\ e.sock[b] = d.sock[b] /\ e.expired[b] = d.expired[b]
      /\ e.handler[a] = r.handler /\ e.sock[a] = r.sock
      /\ e.expired[a] => d.expired[a]
      /\ e.fd[a] = IF r.handler.m_stage = "failure" THEN NoFd ELSE d.fd[a]
  BY <1>1, CalledErased
<1>3. Sane(e)
  BY <1>1, <1>2 DEF Sane
<1>4. FdsDistinct(e)
  BY <1>1, <1>2 DEF FdsDistinct
<1>5. RangOnly(e, ringing)
  BY <1>1, <1>2 DEF RangOnly
<1>6. d.fd[a] \in Pairs /\ \A b \in App : e.fd[b] \in Pairs \cup {NoFd}
  BY <1>1, <1>2 DEF DaemonType
<1>7. ASSUME NEW b \in App, e.fd[b] # NoFd, b \notin ringing,
             e.fd[b].timer \in events \ {f}
      PROVE  e.handler[b].m_stage = "application" /\ e.fd[b].sock \notin events \ {f}
  <2>1. d.fd[b] = e.fd[b]
    BY <1>2, <1>7
  <2>2. d.handler[b].m_stage = "application" /\ d.fd[b].sock \notin events
    BY <1>1, <1>7, <2>1 DEF StaleHarmless
  <2>3. b # a
    BY <1>7, <2>1, <2>2
  <2> QED BY <1>2, <2>1, <2>2, <2>3
<1>8. ASSUME NEW p \in Pairs, \A b \in App : e.fd[b] # p
      PROVE  p.sock \notin events \ {f} \/ p.timer \notin events \ {f}
  <2>1. CASE p = d.fd[a]
    BY <2>1
  <2>2. CASE p # d.fd[a]
    <3>1. \A b \in App : d.fd[b] # p
      BY <1>2, <1>8, <2>2
    <3> QED BY <1>1, <3>1 DEF StaleHarmless
  <2> QED BY <2>1, <2>2
<1>9. StaleHarmless(e, ringing, events \ {f})
  BY <1>7, <1>8 DEF StaleHarmless
<1> QED BY <1>3, <1>4, <1>5, <1>9 DEF CallsInv

\* A call that handles a frame for a does a no harm either, as long as it fails
\* no handler and lets a wait for its request.
LEMMA FrameSafe ==
  ASSUME NEW d, NEW ringing, NEW events, CallsInv(d, ringing, events),
         NEW a \in App, d.fd[a] # NoFd,
         NEW r, ResultOK(r, {}), r.sock.reply = "timeout" => a \in ringing,
         r.handler.m_stage # "failure",
         d.handler[a].m_stage = "application" => r.handler.m_stage = "application",
         NEW armed \in BOOLEAN, NEW e, e = Erased(Called(d, a, r, armed), a)
  PROVE  CallsInv(e, ringing, events)
<1>1. /\ Sane(d) /\ FdsDistinct(d) /\ RangOnly(d, ringing)
      /\ StaleHarmless(d, ringing, events) /\ d \in DaemonType
  BY DEF CallsInv, Sane
<1>2. /\ e \in DaemonType
      /\ \A b \in App : e.fd[b] = d.fd[b]
      /\ \A b \in App : b # a =>
           /\ e.handler[b] = d.handler[b]
           /\ e.sock[b] = d.sock[b] /\ e.expired[b] = d.expired[b]
      /\ e.handler[a] = r.handler /\ e.sock[a] = r.sock
      /\ e.expired[a] => d.expired[a]
  BY <1>1, CalledErased
<1>3. Sane(e)
  BY <1>1, <1>2 DEF Sane
<1>4. FdsDistinct(e)
  BY <1>1, <1>2 DEF FdsDistinct
<1>5. RangOnly(e, ringing)
  BY <1>1, <1>2 DEF RangOnly
<1>6. StaleHarmless(e, ringing, events)
  BY <1>1, <1>2 DEF StaleHarmless
<1> QED BY <1>3, <1>4, <1>5, <1>6 DEF CallsInv

\* Handling one event less does no harm.
LEMMA FewerEvents ==
  ASSUME NEW d, NEW ringing, NEW events, CallsInv(d, ringing, events), NEW f
  PROVE  CallsInv(d, ringing, events \ {f})
BY DEF CallsInv, StaleHarmless

\* Writing frames changes no handler.
LEMMA SendSafe ==
  ASSUME NEW d, NEW ringing, NEW events, CallsInv(d, ringing, events),
         NEW e, e = sendTransportSock(d)
  PROVE  /\ CallsInv(e, ringing, events)
         /\ e.fd = d.fd /\ e.handler = d.handler /\ e.sock = d.sock
         /\ e.expired = d.expired
<1> DEFINE n == LowerOf(d.queue, SockPackets - d.outbox)
           queue == d.queue - n
           outb == d.outbox + n
<1>1. d \in DaemonType
  BY DEF CallsInv, Sane
<1>2. queue \in 0..MaxQueue /\ outb \in 0..SockPackets
  <2>1. /\ d.queue \in 0..MaxQueue /\ d.outbox \in 0..SockPackets
        /\ MaxQueue \in Nat /\ SockPackets \in Nat
    BY <1>1, EventsAssumption DEF DaemonType
  <2> QED BY <2>1 DEF LowerOf
<1>3. e = [d EXCEPT !.queue = queue, !.outbox = outb]
  BY <1>1 DEF sendTransportSock, DaemonType
<1> HIDE DEF queue, outb
<1>4. /\ e \in DaemonType /\ e.fd = d.fd /\ e.handler = d.handler
      /\ e.sock = d.sock /\ e.expired = d.expired
  BY <1>1, <1>2, <1>3 DEF DaemonType
<1> QED BY <1>4 DEF CallsInv, Sane, FdsDistinct, RangOnly, StaleHarmless

(***************************************************************************)
(* Which calls tell that the time is up                                    *)
(***************************************************************************)
\* A call on the socket of a never tells that the time is up.
LEMMA SockNoTimeout ==
  ASSUME NEW h \in HandlerType({}), NEW s \in SockType({}), NEW used
  PROVE  handleSock(h, s, used).sock.reply \in {s.reply, "usedport"}
<1>1. handleRequest(h, s, used).sock.reply \in {s.reply, "usedport"}
  <2>1. \A r : Refuse(r, s).sock.reply \in {s.reply, "usedport"}
    BY DEF Refuse, Reply, Result, SockType
  <2> DEFINE r == readRequest(h, s)
             items == RequestItems(r.m_type)
  <2>2. /\ r.m_type \in {"null", "server", "client"} /\ items \in Nat
        /\ s.request \in Nat
        /\ r.m_type = "null" => s.request < items
    <3>1. s.request \in 0..3 /\ s.ask.kind \in {"server", "client"}
      BY DEF SockType
    <3>2. h.m_type \in {"null", "server", "client"}
      BY DEF HandlerType, HandlerRecord, Types
    <3>3. r.m_type \in {"null", h.m_type, s.ask.kind} /\ (r.m_type = "null" => s.request = 0)
      BY <3>1 DEF readRequest, HandlerType, HandlerRecord
    <3>4. items \in 1..3
      BY DEF RequestItems
    <3> HIDE DEF r, items
    <3> QED BY ONLY <3>1, <3>2, <3>3, <3>4
  <2> HIDE DEF r, items
  <2>3. CASE s.request < items
    <3> DEFINE stage == IF s.closed THEN "failure" ELSE r.m_stage
               rest == [r EXCEPT !.m_stage = stage]
    <3>1. handleRequest(h, s, used) = Result(rest, s, <<>>)
      BY <2>3 DEF handleRequest, r, items, RequestItems, SockType
    <3> HIDE DEF rest
    <3> QED BY <3>1 DEF Result
  <2>4. CASE ~(s.request < items) /\ r.m_type = "server"
    <3> DEFINE bound == [r EXCEPT !.m_source_port = s.ask.port, !.m_stage = "listen"]
    <3>1. handleRequest(h, s, used) =
            IF isPortFree(s.ask.port, used) THEN Result(bound, s, <<>>) ELSE Refuse(r, s)
      BY <2>4 DEF handleRequest, r, items, RequestItems, SockType
    <3> HIDE DEF bound
    <3> QED BY <2>1, <3>1 DEF Result
  <2>5. CASE ~(s.request < items) /\ r.m_type = "client"
    <3> DEFINE port == getFreePort(used)
               conn == [r EXCEPT !.m_source_port = port, !.m_stage = "wait_reply",
                                 !.m_timer = TRUE]
               out == <<Frame("request", conn, 0, <<>>)>>
    <3>1. handleRequest(h, s, used) =
            IF port > 0 THEN Result(conn, s, out) ELSE Refuse(r, s)
      BY <2>5 DEF handleRequest, r, items, RequestItems, SockType
    <3> HIDE DEF port, conn, out
    <3>2. CASE port > 0
      BY <3>1, <3>2 DEF Result
    <3>3. CASE ~(port > 0)
      BY <2>1, <3>1, <3>3
    <3> QED BY <3>2, <3>3
  <2> QED BY <2>2, <2>3, <2>4, <2>5
<1>2. sendToSock(h, s).sock.reply = s.reply
  BY DEF sendToSock, Result, SockType
<1>3. loadFrames(h, s).sock.reply = s.reply
  BY DEF loadFrames, Result, SockType
<1> QED BY <1>1, <1>2, <1>3 DEF handleSock, Result

\* A handler that still waits for its request ignores its timer.
LEMMA TimerNoTimeout ==
  ASSUME NEW h, NEW s \in SockType({}), NEW used, h.m_stage = "application"
  PROVE  handleTimer(h, s, used).sock = s
BY DEF handleTimer, Result

\* A frame never fails a handler, tells that the time is up, or takes a handler
\* out of its first stage.
LEMMA FrameNoTimeout ==
  ASSUME NEW h \in HandlerType({}), NEW s \in SockType({}), h.m_stage # "failure",
         NEW from \in Nat, NEW f \in FrameType({}), NEW seq,
         NEW r, r = receiveFrame(h, s, from, f, seq)
  PROVE  /\ r.sock.reply \in {s.reply, "success"}
         /\ r.handler.m_stage # "failure"
         /\ h.m_stage = "application" => r.handler.m_stage = "application"
<1>1. ASSUME NEW g \in HandlerType({}), NEW q, q = Reply(g, s, "success", "connected")
      PROVE  q.sock.reply \in {s.reply, "success"} /\ q.handler.m_stage # "failure"
  BY <1>1 DEF Reply, HandlerType, HandlerRecord, SockType
<1>2. CASE h.m_stage = "listen" /\ f.type = "request"
  <2> DEFINE bound == [h EXCEPT !.m_dest_address = from, !.m_dest_port = f.source,
                                !.m_timer = TRUE]
             q == Reply(bound, s, "success", "connected")
  <2>1. f.source \in Nat
    BY HandlerAssumption DEF FrameType
  <2>2. bound \in HandlerType({})
    BY <2>1 DEF HandlerType, HandlerRecord
  <2>3. r.handler = q.handler /\ r.sock = q.sock
    BY <1>2 DEF receiveFrame, acceptRequest, Result
  <2> HIDE DEF q, bound
  <2>4. q.sock.reply \in {s.reply, "success"} /\ q.handler.m_stage # "failure"
    BY <1>1, <2>2 DEF q
  <2> QED BY <1>2, <2>3, <2>4
<1>3. CASE h.m_stage = "wait_reply" /\ f.type = "reply"
  <2> DEFINE q == Reply(h, s, "success", "connected")
  <2>1. r.handler = q.handler /\ r.sock = q.sock
    BY <1>3 DEF receiveFrame, acceptReply, Result
  <2> HIDE DEF q
  <2>2. q.sock.reply \in {s.reply, "success"} /\ q.handler.m_stage # "failure"
    BY <1>1 DEF q
  <2> QED BY <1>3, <2>1, <2>2
<1>4. CASE h.m_stage = "connected"
  <2>1. \/ r = receiveProbe(h, s, f) \/ r = receiveData(h, s, f, seq)
        \/ r = receiveSack(h, s, seq) \/ r = Result(h, s, <<>>)
    BY <1>4 DEF receiveFrame
  <2>2. ASSUME NEW q, q = receiveProbe(h, s, f) \/ q = receiveData(h, s, f, seq)
        PROVE  q.sock = s /\ q.handler.m_stage = h.m_stage
    <3> DEFINE ack == (h.m_current_ack + 1) % SequenceSize
               buf == h.m_msg_buffer \o f.msg
               total == h.m_total_data_received + Len(f.msg)
               got == [h EXCEPT !.m_current_ack = ack, !.m_msg_buffer = buf,
                                !.m_total_data_received = total]
               vouched == [h EXCEPT !.m_connected_reply = TRUE]
    <3>1. got.m_stage = h.m_stage /\ vouched.m_stage = h.m_stage
      <4> HIDE DEF ack, buf, total
      <4> QED BY DEF HandlerType, HandlerRecord
    <3>2. q.sock = s /\ q.handler \in {h, got, vouched}
      <4>1. q.sock = s
        BY <2>2 DEF receiveProbe, receiveData, Result
      <4>2. CASE q = receiveProbe(h, s, f)
        <5> HIDE DEF got
        <5> QED BY <4>1, <4>2 DEF receiveProbe, Result
      <4>3. CASE q = receiveData(h, s, f, seq)
        <5>1. receiveData(h, s, f, seq) =
                IF seq = h.m_current_ack THEN Result(got, s, <<>>)
                ELSE Result(h, s, queueAck(h))
          BY DEF receiveData
        <5> HIDE DEF got, vouched
        <5> QED BY <4>1, <4>3, <5>1 DEF Result
      <4> QED BY <2>2, <4>2, <4>3
    <3> HIDE DEF got, vouched
    <3> QED BY <3>1, <3>2
  <2>3. ASSUME NEW q, q = receiveSack(h, s, seq)
        PROVE  q.sock = s /\ q.handler.m_stage = h.m_stage
    <3>1. \A moves : moveWindow(h, moves).m_stage = h.m_stage
      BY DEF moveWindow, HandlerType, HandlerRecord
    <3> QED BY <2>3, <3>1 DEF receiveSack, Result
  <2>4. r.sock = s /\ r.handler.m_stage = h.m_stage
    BY <2>1, <2>2, <2>3 DEF Result
  <2> QED BY <1>4, <2>4
<1>5. CASE ~(h.m_stage = "listen" /\ f.type = "request")
           /\ ~(h.m_stage = "wait_reply" /\ f.type = "reply") /\ h.m_stage # "connected"
  <2>1. r = Result(h, s, <<>>)
    BY <1>5 DEF receiveFrame
  <2> QED BY <1>5, <2>1 DEF Result
<1> QED BY <1>2, <1>3, <1>4, <1>5

(***************************************************************************)
(* The entry points                                                        *)
(***************************************************************************)
\* The call that serves the socket of a.
LEMMA SockSafe ==
  ASSUME NEW d, NEW ringing, NEW events, CallsInv(d, ringing, events),
         NEW a \in App, d.fd[a] # NoFd, d.fd[a].sock \in events
  PROVE  /\ CallsInv(handleClientHandlerSock(d, a), ringing, events \ {d.fd[a].sock})
         /\ \A b \in App : Fresh(d, b) => Fresh(handleClientHandlerSock(d, a), b)
<1> DEFINE s == [d.sock[a] EXCEPT !.event = FALSE]
           r == handleSock(d.handler[a], s, UsedPorts(d))
           armed == Arms(d.handler[a], r.handler)
           e == Erased(Called(d, a, r, armed), a)
<1>1. d \in DaemonType /\ RangOnly(d, ringing)
  BY DEF CallsInv, Sane
<1>2. /\ d.handler[a] \in HandlerType({}) /\ d.sock[a] \in SockType({})
      /\ s \in SockType({}) /\ s.reply = d.sock[a].reply
  <2>1. d.handler[a] \in HandlerType({}) /\ d.sock[a] \in SockType({})
    BY <1>1 DEF DaemonType
  <2> QED BY <2>1, Notified
<1> HIDE DEF s
<1>3. ResultOK(r, {})
  BY <1>2, handleSockOK
<1>4. r.sock.reply = "timeout" => a \in ringing
  BY <1>1, <1>2, SockNoTimeout DEF RangOnly
<1>5. armed \in BOOLEAN
  BY DEF Arms
<1>6. handleClientHandlerSock(d, a) = e
  BY DEF handleClientHandlerSock, s
<1> HIDE DEF r, armed
<1>7. CallsInv(e, ringing, events \ {d.fd[a].sock})
  BY <1>3, <1>4, <1>5, CallSafe
<1>8. \A b \in App : b # a => e.fd[b] = d.fd[b] /\ e.handler[b] = d.handler[b]
  BY <1>1, <1>3, <1>5, CalledErased
<1> QED BY <1>6, <1>7, <1>8 DEF Fresh

\* The call that serves the timer of a.
LEMMA TimerSafe ==
  ASSUME NEW d, NEW ringing, NEW events, CallsInv(d, ringing, events),
         NEW a \in App, d.fd[a] # NoFd, d.fd[a].timer \in events
  PROVE  /\ CallsInv(handleClientHandlerTimer(d, a), ringing, events \ {d.fd[a].timer})
         /\ \A b \in App : Fresh(d, b) => Fresh(handleClientHandlerTimer(d, a), b)
<1> DEFINE r == handleTimer(d.handler[a], d.sock[a], UsedPorts(d))
           armed == TRUE
           e == Erased(Called(d, a, r, armed), a)
<1>1. d \in DaemonType /\ RangOnly(d, ringing) /\ StaleHarmless(d, ringing, events)
  BY DEF CallsInv, Sane
<1>2. d.handler[a] \in HandlerType({}) /\ d.sock[a] \in SockType({})
  BY <1>1 DEF DaemonType
<1>3. ResultOK(r, {})
  BY <1>2, handleTimerOK
<1>4. r.sock.reply = "timeout" => a \in ringing
  <2> SUFFICES ASSUME a \notin ringing PROVE r.sock.reply # "timeout"
    OBVIOUS
  <2>1. d.handler[a].m_stage = "application"
    BY <1>1 DEF StaleHarmless
  <2>2. r.sock = d.sock[a]
    BY <1>2, <2>1, TimerNoTimeout
  <2> QED BY <1>1, <2>2 DEF RangOnly
<1>5. handleClientHandlerTimer(d, a) = e
  BY DEF handleClientHandlerTimer
<1>8. armed \in BOOLEAN
  OBVIOUS
<1> HIDE DEF r, armed
<1>6. CallsInv(e, ringing, events \ {d.fd[a].timer})
  BY <1>3, <1>4, <1>8, CallSafe
<1>7. \A b \in App : b # a => e.fd[b] = d.fd[b] /\ e.handler[b] = d.handler[b]
  BY <1>1, <1>3, <1>8, CalledErased
<1> QED BY <1>5, <1>6, <1>7 DEF Fresh

\* The call that handles one frame.
LEMMA ReceiveSafe ==
  ASSUME NEW d, NEW ringing, NEW events, CallsInv(d, ringing, events), NEW p \in Input
  PROVE  /\ CallsInv(Receive(d, p), ringing, events)
         /\ \A b \in App : Fresh(d, b) => Fresh(Receive(d, p), b)
<1> DEFINE owners == {a \in client_vector(d) : d.handler[a].m_source_port = p.frame.dest}
           a == CHOOSE a \in owners : TRUE
           r == receiveFrame(d.handler[a], d.sock[a], p.from, p.frame, p.frame.seq)
           armed == Arms(d.handler[a], r.handler)
           e == Erased(Called(d, a, r, armed), a)
<1>1. CASE owners = {}
  <2>1. Receive(d, p) = d
    BY <1>1 DEF Receive
  <2> QED BY <2>1
<1>2. CASE owners # {}
  <2>1. a \in owners
    BY <1>2
  <2>2. a \in App /\ d.fd[a] # NoFd
    BY <2>1 DEF client_vector
  <2>3. Receive(d, p) = e
    BY <1>2 DEF Receive
  <2> HIDE DEF owners, a
  <2>4. /\ d \in DaemonType /\ RangOnly(d, ringing) /\ d.handler[a].m_stage # "failure"
    BY <2>2 DEF CallsInv, Sane
  <2>5. d.handler[a] \in HandlerType({}) /\ d.sock[a] \in SockType({})
    BY <2>2, <2>4 DEF DaemonType
  <2>6. p.from \in Nat /\ p.frame \in FrameType({})
    BY EventsAssumption
  <2>7. p.frame.seq \in Int
    BY <2>6, HandlerAssumption DEF FrameType
  <2>8. ResultOK(r, {})
    BY <2>5, <2>6, <2>7, receiveFrameOK
  <2>9. /\ r.sock.reply \in {d.sock[a].reply, "success"}
        /\ r.handler.m_stage # "failure"
        /\ d.handler[a].m_stage = "application" => r.handler.m_stage = "application"
    BY <2>4, <2>5, <2>6, FrameNoTimeout
  <2>10. r.sock.reply = "timeout" => a \in ringing
    BY <2>2, <2>4, <2>9 DEF RangOnly
  <2>11. armed \in BOOLEAN
    BY DEF Arms
  <2> HIDE DEF r, armed
  <2>12. CallsInv(e, ringing, events)
    BY <2>2, <2>8, <2>9, <2>10, <2>11, FrameSafe
  <2>13. \A b \in App : b # a => e.fd[b] = d.fd[b] /\ e.handler[b] = d.handler[b]
    BY <2>2, <2>4, <2>8, <2>11, CalledErased
  <2> QED BY <2>2, <2>3, <2>12, <2>13 DEF Fresh
<1> QED BY <1>1, <1>2

\* g gives the state of the daemon after each of the first n packets.
Loop(g, d, packets, n) ==
  g = [i \in 0..n |-> IF i = 0 THEN d ELSE Receive(g[i - 1], packets[i])]

\* The loop over the packets is defined: there is such a function.
LEMMA LoopDefined ==
  ASSUME NEW d, NEW packets, NEW n \in Nat
  PROVE  \E g : Loop(g, d, packets, n)
<1> DEFINE step(g, i) == IF i = 0 THEN d ELSE Receive(g[i - 1], packets[i])
           T == {m \in Nat : ~ \E g : g = [i \in 0..m |-> step(g, i)]}
<1>1. ASSUME T # {} PROVE FALSE
  <2>1. T \subseteq Nat
    OBVIOUS
  <2> HIDE DEF T
  <2>2. PICK m \in T : \A k \in T : m <= k
    BY <1>1, <2>1, NatMin
  <2>3. m \in Nat /\ ~ \E g : g = [i \in 0..m |-> step(g, i)]
    BY <2>2 DEF T
  <2>4. CASE m = 0
    <3> DEFINE g == [i \in 0..m |-> d]
    <3>1. \A i \in 0..m : i = 0
      BY <2>4
    <3> HIDE DEF step
    <3>2. \A i \in 0..m : step(g, i) = d
      BY <3>1 DEF step
    <3>3. g = [i \in 0..m |-> step(g, i)]
      BY <3>2
    <3> QED BY <2>3, <3>3
  <2>5. CASE m # 0
    <3>1. m - 1 \in Nat /\ m - 1 \notin T
      BY <2>2, <2>3, <2>5
    <3>2. PICK f : f = [i \in 0..m - 1 |-> step(f, i)]
      BY <3>1 DEF T
    <3> DEFINE g == [i \in 0..m |-> IF i = m THEN step(f, m) ELSE f[i]]
    <3>3. \A i \in 0..m : step(g, i) = step(f, i)
      <4> SUFFICES ASSUME NEW i \in 0..m PROVE step(g, i) = step(f, i)
        OBVIOUS
      <4>1. CASE i = 0
        BY <4>1
      <4>2. CASE i # 0
        <5>1. i - 1 \in 0..m /\ i - 1 # m
          BY <2>3, <4>2
        <5>2. g[i - 1] = f[i - 1]
          BY <5>1
        <5> QED BY <5>2
      <4> QED BY <4>1, <4>2
    <3> HIDE DEF step
    <3>4. \A i \in 0..m : g[i] = step(f, i)
      <4> SUFFICES ASSUME NEW i \in 0..m PROVE g[i] = step(f, i)
        OBVIOUS
      <4>1. CASE i = m
        BY <4>1
      <4>2. CASE i # m
        <5>1. i \in 0..m - 1
          BY <2>3, <4>2
        <5> QED BY <3>2, <4>2, <5>1
      <4> QED BY <4>1, <4>2
    <3>5. g = [i \in 0..m |-> step(g, i)]
      BY <3>3, <3>4
    <3> QED BY <2>3, <3>5
  <2> QED BY <2>4, <2>5
<1>2. n \notin T
  BY <1>1
<1> QED BY <1>2 DEF Loop

\* The call that serves transport_sock, which handles every packet in it.
LEMMA TransportSafe ==
  ASSUME NEW d, NEW ringing, NEW events, CallsInv(d, ringing, events),
         NEW packets \in Seq(Input)
  PROVE  /\ CallsInv(receiveTransportSock(d, packets), ringing, events)
         /\ \A b \in App : Fresh(d, b) => Fresh(receiveTransportSock(d, packets), b)
<1> DEFINE n == Len(packets)
           step(g, i) == IF i = 0 THEN d ELSE Receive(g[i - 1], packets[i])
           after == CHOOSE g : Loop(g, d, packets, n)
           safe(e) == /\ CallsInv(e, ringing, events)
                      /\ \A b \in App : Fresh(d, b) => Fresh(e, b)
           T == {i \in 0..n : ~safe(after[i])}
<1>1. n \in Nat /\ \A i \in 1..n : packets[i] \in Input
  OBVIOUS
<1>2. \E g : Loop(g, d, packets, n)
  BY <1>1, LoopDefined
<1>3. Loop(after, d, packets, n)
  BY <1>2
<1>4. receiveTransportSock(d, packets) = after[n]
  BY DEF receiveTransportSock, Receivable, Loop
<1> HIDE DEF after
<1>5. \A i \in 0..n : after[i] = step(after, i)
  <2> HIDE DEF step
  <2> QED BY <1>3 DEF Loop, step
<1>6. ASSUME T # {} PROVE FALSE
  <2>1. T \subseteq Nat
    BY <1>1
  <2> HIDE DEF T
  <2>2. PICK m \in T : \A k \in T : m <= k
    BY <1>6, <2>1, NatMin
  <2>3. m \in 0..n /\ ~safe(after[m])
    BY <2>2 DEF T
  <2>4. CASE m = 0
    <3>1. after[m] = d
      BY <1>5, <2>3, <2>4
    <3> QED BY <2>3, <3>1
  <2>5. CASE m # 0
    <3>1. m - 1 \in 0..n /\ m \in 1..n /\ m - 1 \notin T
      BY <1>1, <2>2, <2>3, <2>5
    <3>2. after[m] = Receive(after[m - 1], packets[m])
      BY <1>5, <2>3, <2>5
    <3>3. safe(after[m - 1])
      BY <3>1 DEF T
    <3>4. packets[m] \in Input
      BY <1>1, <3>1
    <3>5. safe(Receive(after[m - 1], packets[m]))
      BY <3>3, <3>4, ReceiveSafe
    <3> QED BY <2>3, <3>2, <3>5
  <2> QED BY <2>4, <2>5
<1>7. safe(after[n])
  BY <1>1, <1>6
<1> QED BY <1>4, <1>7

(***************************************************************************)
(* Accepting a connection                                                  *)
(***************************************************************************)
\* Every descriptor that is given out is the lower or the upper one of a pair.
LEMMA Halves ==
  ASSUME NEW f \in Nat, f >= FirstFd
  PROVE  \E k \in Nat : f = FirstFd + 2 * k \/ f = FirstFd + 2 * k + 1
<1> DEFINE k == (f - 6) \div 2
<1>1. k \in Nat /\ (f - 6 = 2 * k \/ f - 6 = 2 * k + 1)
  BY DEF FirstFd
<1> HIDE DEF k
<1>2. f = FirstFd + 2 * k \/ f = FirstFd + 2 * k + 1
  BY <1>1 DEF FirstFd
<1> QED BY <1>1, <1>2

\* A set of two elements or more has two.
LEMMA TwoElements ==
  ASSUME NEW S, IsFiniteSet(S), Cardinality(S) >= 2
  PROVE  \E x, y \in S : x # y
<1> SUFFICES ASSUME \A x, y \in S : x = y PROVE FALSE
  OBVIOUS
<1>1. CASE S = {}
  <2>1. Cardinality(S) = 0
    BY <1>1, FS_EmptySet
  <2> QED BY <2>1
<1>2. CASE S # {}
  <2>1. PICK x \in S : S = {x}
    BY <1>2
  <2>2. Cardinality(S) = 1
    BY <2>1, FS_Singleton
  <2> QED BY <2>2
<1> QED BY <1>1, <1>2

\* Lowest finds the least element.
LEMMA LowestOK ==
  ASSUME NEW S, S \subseteq Nat, S # {}
  PROVE  Lowest(S) \in S /\ \A g \in S : Lowest(S) <= g
BY NatMin DEF Lowest

\* What is free of a pair is free of the other half too.
LEMMA FreeHalves ==
  ASSUME NEW d, d \in DaemonType, NEW k \in Nat,
         FirstFd + 2 * k + 1 <= LastFd
  PROVE  FirstFd + 2 * k \in Free(d) <=> FirstFd + 2 * k + 1 \in Free(d)
<1> DEFINE p == Pair(k)
<1>1. p \in Pairs
  <2>1. k \in 0..LastFd
    BY EventsAssumption DEF FirstFd
  <2> QED BY <2>1 DEF Pairs
<1>2. p.sock = FirstFd + 2 * k /\ p.timer = FirstFd + 2 * k + 1
  BY DEF Pair
<1> HIDE DEF p
<1>3. p.sock \in FirstFd..LastFd /\ p.timer \in FirstFd..LastFd
  BY <1>1, PairInRange
<1>4. ASSUME NEW f \in {p.sock, p.timer}
      PROVE  f \in Free(d) <=> \A a \in App : d.fd[a] # p
  <2>1. f \in Free(d) <=>
          \A a \in client_vector(d) : f \notin {d.fd[a].sock, d.fd[a].timer}
    <3> DEFINE of(a) == {d.fd[a].sock, d.fd[a].timer}
               taken == UNION {of(a) : a \in client_vector(d)}
    <3>1. f \in Free(d) <=> f \notin taken
      BY <1>3 DEF Free
    <3> HIDE DEF of
    <3>2. f \in taken <=> \E a \in client_vector(d) : f \in of(a)
      OBVIOUS
    <3> HIDE DEF taken
    <3>3. f \in Free(d) <=> \A a \in client_vector(d) : f \notin of(a)
      BY <3>1, <3>2
    <3> QED BY <3>3 DEF of
  <2>2. ASSUME NEW a \in App
        PROVE  d.fd[a] = p <=>
                 a \in client_vector(d) /\ f \in {d.fd[a].sock, d.fd[a].timer}
    <3>1. p # NoFd
      BY <1>1, PairInRange
    <3>2. d.fd[a] \in Pairs \cup {NoFd}
      BY DEF DaemonType
    <3>3. ASSUME a \in client_vector(d), f \in {d.fd[a].sock, d.fd[a].timer}
          PROVE  d.fd[a] = p
      <4>1. d.fd[a] \in Pairs
        BY <3>2, <3>3 DEF client_vector
      <4>2. {d.fd[a].sock, d.fd[a].timer} \cap {p.sock, p.timer} # {}
        BY <3>3
      <4> QED BY <1>1, <4>1, <4>2, PairsApart
    <3>4. ASSUME d.fd[a] = p
          PROVE  a \in client_vector(d) /\ f \in {d.fd[a].sock, d.fd[a].timer}
      BY <3>1, <3>4 DEF client_vector
    <3> QED BY <3>3, <3>4
  <2> QED BY <2>1, <2>2 DEF client_vector
<1> QED BY <1>2, <1>4

\* With two descriptors free, accept and timerfd_create get those of a free
\* pair.
LEMMA AcceptPair ==
  ASSUME NEW d, d \in DaemonType, Cardinality(Free(d)) >= 2,
         NEW low, low = Lowest(Free(d)), NEW high, high = Lowest(Free(d) \ {low})
  PROVE  /\ [sock |-> low, timer |-> high] \in Pairs
         /\ \A a \in App : d.fd[a] # [sock |-> low, timer |-> high]
<1> DEFINE F == Free(d)
<1>1. F \subseteq FirstFd..LastFd /\ F \subseteq Nat
  BY EventsAssumption DEF Free, FirstFd
<1>2. IsFiniteSet(F)
  <2>1. IsFiniteSet(FirstFd..LastFd)
    BY EventsAssumption, FS_Interval DEF FirstFd
  <2> QED BY <1>1, <2>1, FS_Subset
<1>3. PICK x \in F, y \in F : x # y
  BY <1>2, TwoElements
<1>4. low \in F /\ \A g \in F : low <= g
  <2> HIDE DEF F
  <2> QED BY <1>1, <1>3, LowestOK DEF F
<1>5. low \in Nat /\ low >= FirstFd
  BY <1>1, <1>4, EventsAssumption DEF FirstFd
<1>6. PICK k \in Nat : low = FirstFd + 2 * k \/ low = FirstFd + 2 * k + 1
  BY <1>5, Halves
<1> HIDE DEF F
<1>7. low + 1 <= LastFd
  <2>1. PICK z \in F : z # low
    BY <1>3
  <2>2. low <= z /\ z <= LastFd /\ z \in Nat
    BY <1>1, <1>4, <2>1, EventsAssumption DEF FirstFd
  <2> QED BY <1>5, <2>1, <2>2, EventsAssumption
<1>8. low = FirstFd + 2 * k
  <2>1. ASSUME low = FirstFd + 2 * k + 1 PROVE FALSE
    <3>1. FirstFd + 2 * k + 1 <= LastFd
      BY <1>5, <1>7, <2>1, EventsAssumption
    <3>2. FirstFd + 2 * k \in F
      BY <1>4, <2>1, <3>1, FreeHalves DEF F
    <3>3. low <= FirstFd + 2 * k
      BY <1>4, <3>2
    <3> QED BY <2>1, <3>3 DEF FirstFd
  <2> QED BY <1>6, <2>1
<1>9. low + 1 \in F
  BY <1>4, <1>7, <1>8, FreeHalves DEF F
<1>10. high = low + 1
  <2> DEFINE G == F \ {low}
  <2>1. G \subseteq Nat /\ low + 1 \in G
    <3>1. low + 1 # low
      BY ONLY <1>5
    <3> QED BY <1>1, <1>9, <3>1
  <2> HIDE DEF G
  <2>2. Lowest(G) \in G /\ Lowest(G) <= low + 1
    BY <2>1, LowestOK
  <2>3. Lowest(G) \in Nat /\ low <= Lowest(G) /\ Lowest(G) # low
    BY <1>1, <1>4, <2>2 DEF G
  <2>4. Lowest(G) = low + 1
    BY <1>5, <2>2, <2>3
  <2>5. G = Free(d) \ {low}
    BY DEF G, F
  <2>6. high = Lowest(G)
    BY <2>5
  <2> QED BY <2>4, <2>6
<1> DEFINE p == [sock |-> low, timer |-> high]
<1>11. p = Pair(k)
  BY <1>8, <1>10 DEF Pair
<1>12. p \in Pairs
  <2>1. k \in 0..LastFd /\ FirstFd + 2 * k + 1 <= LastFd
    BY <1>7, <1>8, EventsAssumption DEF FirstFd
  <2> QED BY <1>11, <2>1 DEF Pairs
<1>13. ASSUME NEW a \in App, d.fd[a] = p PROVE FALSE
  <2>1. p # NoFd /\ p.sock = low
    BY <1>12, PairInRange
  <2> HIDE DEF p
  <2>2. low \notin Free(d)
    <3>1. a \in client_vector(d) /\ low \in {d.fd[a].sock, d.fd[a].timer}
      BY <1>13, <2>1 DEF client_vector
    <3>2. low \in UNION {{d.fd[b].sock, d.fd[b].timer} : b \in client_vector(d)}
      BY <3>1
    <3> QED BY <3>2 DEF Free
  <2> QED BY <1>4, <2>2 DEF F
<1> QED BY <1>12, <1>13

\* The call that serves application_sock: the new handler may inherit an event,
\* which finds it before its request.
LEMMA AcceptSafe ==
  ASSUME NEW d, NEW ringing, NEW events, CallsInv(d, ringing, events),
         NEW a \in App, Fresh(d, a), Cardinality(Free(d)) >= 2
  PROVE  /\ CallsInv(Accept(d, a), ringing, events)
         /\ \A b \in App : b # a /\ Fresh(d, b) => Fresh(Accept(d, a), b)
<1> DEFINE low == Lowest(Free(d))
           high == Lowest(Free(d) \ {low})
           p == [sock |-> low, timer |-> high]
           fds == [d.fd EXCEPT ![a] = p]
           e == [d EXCEPT !.fd = fds]
<1>1. /\ Sane(d) /\ FdsDistinct(d) /\ RangOnly(d, ringing)
      /\ StaleHarmless(d, ringing, events) /\ d \in DaemonType
  BY DEF CallsInv, Sane
<1>2. p \in Pairs /\ \A b \in App : d.fd[b] # p
  BY <1>1, AcceptPair
<1>3. Accept(d, a) = e
  BY <1>1 DEF Accept, DaemonType
<1> HIDE DEF p
<1>4. d.fd \in [App -> Pairs \cup {NoFd}]
  BY <1>1 DEF DaemonType
<1>5. /\ fds \in [App -> Pairs \cup {NoFd}] /\ fds[a] = p
      /\ \A b \in App : b # a => fds[b] = d.fd[b]
  BY <1>2, <1>4
<1> HIDE DEF fds
<1>6. /\ e \in DaemonType /\ e.fd = fds /\ e.handler = d.handler
      /\ e.sock = d.sock /\ e.expired = d.expired
  BY <1>1, <1>5 DEF DaemonType
<1> HIDE DEF e
<1>7. Sane(e)
  BY <1>1, <1>5, <1>6 DEF Sane, Fresh
<1>8. FdsDistinct(e)
  <2>1. ASSUME NEW b \in App, NEW c \in App, b # c, fds[b] # NoFd
        PROVE  fds[b] # fds[c]
    <3>1. CASE b = a
      BY <1>2, <1>5, <2>1, <3>1
    <3>2. CASE c = a
      BY <1>2, <1>5, <2>1, <3>2
    <3>3. CASE b # a /\ c # a
      BY <1>1, <1>5, <2>1, <3>3 DEF FdsDistinct
    <3> QED BY <3>1, <3>2, <3>3
  <2> QED BY <1>6, <2>1 DEF FdsDistinct
<1>9. RangOnly(e, ringing)
  BY <1>1, <1>6 DEF RangOnly
<1>10. StaleHarmless(e, ringing, events)
  <2>1. ASSUME NEW b \in App, e.fd[b] # NoFd, b \notin ringing, e.fd[b].timer \in events
        PROVE  e.handler[b].m_stage = "application" /\ e.fd[b].sock \notin events
    <3>1. CASE b = a
      <4>1. e.fd[b] = p /\ e.handler[b].m_stage = "application"
        BY <1>5, <1>6, <3>1 DEF Fresh
      <4>2. p.sock \notin events \/ p.timer \notin events
        BY <1>1, <1>2 DEF StaleHarmless
      <4> QED BY <2>1, <4>1, <4>2
    <3>2. CASE b # a
      BY <1>1, <1>5, <1>6, <2>1, <3>2 DEF StaleHarmless
    <3> QED BY <3>1, <3>2
  <2>2. ASSUME NEW q \in Pairs, \A b \in App : e.fd[b] # q
        PROVE  q.sock \notin events \/ q.timer \notin events
    <3>1. \A b \in App : d.fd[b] # q
      <4> SUFFICES ASSUME NEW b \in App, d.fd[b] = q PROVE FALSE
        OBVIOUS
      <4>1. CASE b = a
        <5>1. q = NoFd
          BY <4>1 DEF Fresh
        <5> QED BY <5>1, PairInRange
      <4>2. CASE b # a
        BY <1>5, <1>6, <2>2, <4>2
      <4> QED BY <4>1, <4>2
    <3> QED BY <1>1, <3>1 DEF StaleHarmless
  <2> QED BY <2>1, <2>2 DEF StaleHarmless
<1>11. CallsInv(e, ringing, events)
  BY <1>7, <1>8, <1>9, <1>10 DEF CallsInv
<1> QED BY <1>3, <1>5, <1>6, <1>11 DEF Fresh

(***************************************************************************)
(* The steps                                                               *)
(***************************************************************************)
\* The invariant holds at first.
LEMMA EventsInit == Init => EventsInv
<1> SUFFICES ASSUME Init PROVE EventsInv
  OBVIOUS
<1> USE DEF Init
<1>1. NewHandler \in HandlerType({})
  BY HandlerAssumption
     DEF NewHandler, HandlerType, HandlerRecord, Types, Stages
<1>2. \A a \in App : NewSock(Ask[a]) \in SockType({}) /\ NewSock(Ask[a]).reply = "none"
  BY EventsAssumption, HandlerAssumption DEF NewSock, SockType
<1>3. NewHandler.m_stage = "application"
  BY DEF NewHandler
<1>4. Daemon \in DaemonType
  BY <1>1, <1>2, EventsAssumption DEF Daemon, DaemonType
<1>5. \A a \in App : /\ Daemon.fd[a] = NoFd /\ Daemon.handler[a] = NewHandler
                     /\ Daemon.expired[a] = FALSE /\ Daemon.sock[a].reply = "none"
  BY <1>2 DEF Daemon
<1> HIDE DEF Init
<1>6. CallsInv(Daemon, rang, batch)
  BY <1>4, <1>5 DEF Init, CallsInv, Sane, FdsDistinct, RangOnly, StaleHarmless
<1>7. BacklogOK(Daemon)
  BY <1>3, <1>5 DEF Init, BacklogOK, Fresh
<1>8. <<>> \in Seq(Input)
  OBVIOUS
<1> QED BY <1>6, <1>7, <1>8 DEF Init, EventsInv

\* A step outside the daemon, which leaves the handlers and the batch alone.
LEMMA QuietStep ==
  ASSUME EventsInv, fd' = fd, handler' = handler, batch' = batch,
         sock' \in [App -> SockType({})], expired' \in [App -> BOOLEAN],
         \A a \in App : sock'[a].reply = sock[a].reply,
         \A a \in App : expired'[a] => expired[a] \/ a \in rang',
         frame_out_queue' \in 0..MaxQueue, outbox' \in 0..SockPackets,
         rang \subseteq rang'
  PROVE  /\ CallsInv(Daemon, rang, batch)'
         /\ \A a \in App : Fresh(Daemon, a) => Fresh(Daemon', a)
<1>1. /\ Daemon \in DaemonType /\ Sane(Daemon) /\ FdsDistinct(Daemon)
      /\ RangOnly(Daemon, rang) /\ StaleHarmless(Daemon, rang, batch)
  BY DEF EventsInv, CallsInv, Sane
<1>2. /\ Daemon.fd = fd /\ Daemon.handler = handler /\ Daemon.sock = sock
      /\ Daemon.expired = expired
  BY DEF Daemon
<1>3. /\ Daemon'.fd = fd /\ Daemon'.handler = handler /\ Daemon'.sock = sock'
      /\ Daemon'.expired = expired'
  BY DEF Daemon
<1>4. Daemon' \in DaemonType
  <2>1. fd \in [App -> Pairs \cup {NoFd}] /\ handler \in [App -> HandlerType({})]
    BY <1>1, <1>2 DEF DaemonType
  <2> QED BY <2>1 DEF Daemon, DaemonType
<1>5. Sane(Daemon')
  BY <1>1, <1>2, <1>3, <1>4 DEF Sane
<1>6. FdsDistinct(Daemon')
  BY <1>1, <1>2, <1>3 DEF FdsDistinct
<1>7. RangOnly(Daemon', rang')
  BY <1>1, <1>2, <1>3 DEF RangOnly
<1>8. StaleHarmless(Daemon', rang', batch')
  BY <1>1, <1>2, <1>3 DEF StaleHarmless
<1>9. CallsInv(Daemon', rang', batch')
  BY <1>5, <1>6, <1>7, <1>8 DEF CallsInv
<1> QED BY <1>2, <1>3, <1>9 DEF Fresh

\* Served leaves what the call left, with less to send.
LEMMA ServedSafe ==
  ASSUME EventsInv, NEW f, NEW d, CallsInv(d, rang, batch \ {f}), Served(f, d)
  PROVE  /\ CallsInv(Daemon, rang, batch)'
         /\ Daemon'.fd = d.fd /\ Daemon'.handler = d.handler
         /\ running' \in BOOLEAN /\ rang' = rang /\ connected' = connected
         /\ passed' = passed /\ batch' = batch \ {f}
<1> DEFINE e == sendTransportSock(d)
<1>1. /\ CallsInv(e, rang, batch \ {f}) /\ e.fd = d.fd /\ e.handler = d.handler
  BY SendSafe
<1>2. /\ batch' = batch \ {f}
      /\ handler' = e.handler /\ sock' = e.sock /\ fd' = e.fd /\ expired' = e.expired
      /\ frame_out_queue' = e.queue /\ outbox' = e.outbox
      /\ running' = (\A a \in App : e.handler[a].m_stage # "sigpipe")
      /\ connected' = connected /\ rang' = rang /\ passed' = passed
  BY DEF Served
<1> HIDE DEF e
<1>3. e \in DaemonType
  BY <1>1 DEF CallsInv, Sane
<1>4. e = [handler |-> e.handler, sock |-> e.sock, fd |-> e.fd, expired |-> e.expired,
           queue |-> e.queue, outbox |-> e.outbox]
  BY <1>3 DEF DaemonType
<1>5. Daemon' = e
  BY <1>2, <1>4 DEF Daemon
<1>6. CallsInv(Daemon', rang', batch')
  BY <1>1, <1>2, <1>5
<1>7. running' \in BOOLEAN
  BY <1>2, Zenon
<1> QED BY <1>1, <1>2, <1>5, <1>6, <1>7

\* The backlog is as good as it was when neither it nor a handler of it changed.
LEMMA BacklogKept ==
  ASSUME BacklogOK(Daemon), backlog' = backlog, connected' = connected,
         connected \subseteq App,
         \A a \in App : Fresh(Daemon, a) => Fresh(Daemon', a)
  PROVE  BacklogOK(Daemon)'
<1>1. \A i \in 1..Len(backlog) : backlog[i] \in App
  BY DEF BacklogOK
<1>2. (\A i \in 1..Len(backlog) : Fresh(Daemon, backlog[i]))'
  BY <1>1 DEF BacklogOK
<1>3. (\A a \in App \ connected : Fresh(Daemon, a))'
  BY DEF BacklogOK
<1> QED BY <1>2, <1>3 DEF BacklogOK

\* What is ready belongs to a live handler, and a readable timer expired.
LEMMA ReadyOwned ==
  ASSUME EventsInv
  PROVE  /\ Ready \subseteq Descriptors
         /\ application_fd \in Ready => backlog # <<>>
         /\ \A p \in Pairs : p.sock \in Ready \/ p.timer \in Ready =>
              \E a \in App : fd[a] = p
         /\ \A a \in App : fd[a] # NoFd /\ fd[a].timer \in Ready => a \in rang
<1>1. /\ Daemon \in DaemonType /\ Sane(Daemon) /\ FdsDistinct(Daemon)
      /\ RangOnly(Daemon, rang)
  BY DEF EventsInv, CallsInv, Sane
<1>2. Daemon.fd = fd /\ Daemon.expired = expired
  BY DEF Daemon
<1>3. /\ fd \in [App -> Pairs \cup {NoFd}]
      /\ \A a \in App : expired[a] => a \in rang
  BY <1>1, <1>2 DEF DaemonType, RangOnly
<1>4. client_vector(Daemon) = {a \in App : fd[a] # NoFd}
  BY <1>2 DEF client_vector
<1>5. ASSUME NEW f \in Ready
      PROVE  \/ f = transport_fd
             \/ f = application_fd /\ backlog # <<>>
             \/ \E a \in App : fd[a] # NoFd /\ f = fd[a].sock
             \/ \E a \in App : fd[a] # NoFd /\ f = fd[a].timer /\ expired[a]
  <2>1. \/ f \in (IF arrived THEN {transport_fd} ELSE {})
        \/ f \in (IF backlog # <<>> THEN {application_fd} ELSE {})
        \/ f \in {fd[a].sock : a \in {b \in client_vector(Daemon) : sock[b].event}}
        \/ f \in {fd[a].timer : a \in {b \in client_vector(Daemon) : expired[b]}}
    BY <1>5 DEF Ready
  <2> QED BY <1>4, <2>1
<1>6. ASSUME NEW a \in App, fd[a] # NoFd
      PROVE  /\ fd[a] \in Pairs /\ fd[a].sock \in FirstFd..LastFd
             /\ fd[a].timer \in FirstFd..LastFd /\ fd[a].sock # fd[a].timer
  BY <1>3, <1>6, PairInRange
<1>7. transport_fd \notin FirstFd..LastFd /\ application_fd \notin FirstFd..LastFd
      /\ transport_fd # application_fd
  BY DEF transport_fd, application_fd, FirstFd
<1>8. Ready \subseteq Descriptors
  BY <1>5, <1>6 DEF Descriptors
<1>9. ASSUME application_fd \in Ready PROVE backlog # <<>>
  BY <1>5, <1>6, <1>7, <1>9
<1>10. ASSUME NEW p \in Pairs, NEW f \in Ready, f \in {p.sock, p.timer}
       PROVE  \E a \in App : fd[a] = p
  <2>1. f # transport_fd /\ f # application_fd
    BY <1>7, <1>10, PairInRange
  <2>2. PICK a \in App : fd[a] # NoFd /\ f \in {fd[a].sock, fd[a].timer}
    BY <1>5, <1>10, <2>1
  <2>3. fd[a] \in Pairs /\ {fd[a].sock, fd[a].timer} \cap {p.sock, p.timer} # {}
    BY <1>6, <1>10, <2>2
  <2> QED BY <2>3, PairsApart
<1>11. ASSUME NEW a \in App, fd[a] # NoFd, fd[a].timer \in Ready PROVE a \in rang
  <2>1. PICK b \in App : /\ fd[b] # NoFd
                         /\ \/ fd[a].timer = fd[b].sock
                            \/ fd[a].timer = fd[b].timer /\ expired[b]
    BY <1>5, <1>6, <1>7, <1>11
  <2>2. b = a
    BY <1>1, <1>2, <1>11, <2>1, OwnerUnique
  <2>3. expired[a]
    BY <1>6, <1>11, <2>1, <2>2
  <2> QED BY <1>3, <2>3
<1> QED BY <1>8, <1>9, <1>10, <1>11

\* A new batch holds events of live handlers only.
LEMMA WaitStep == EventsInv /\ Wait => EventsInv'
<1> SUFFICES ASSUME EventsInv, Wait PROVE EventsInv'
  OBVIOUS
<1>1. /\ batch' \subseteq Ready /\ passed' = Ready \ batch'
      /\ arrived' = (arrived /\ transport_fd \notin batch')
      /\ sock' = [a \in App |->
                    [sock[a] EXCEPT !.event = @ /\ (fd[a] = NoFd \/ fd[a].sock \notin batch')]]
      /\ UNCHANGED <<running, connected, backlog, fd, handler, expired, rang,
                     frame_out_queue, outbox, inbox>>
  BY DEF Wait
<1>2. /\ Daemon \in DaemonType /\ Sane(Daemon) /\ FdsDistinct(Daemon)
      /\ RangOnly(Daemon, rang) /\ BacklogOK(Daemon)
  BY DEF EventsInv, CallsInv, Sane
<1>3. /\ Daemon.fd = fd /\ Daemon.handler = handler /\ Daemon.sock = sock
      /\ Daemon.expired = expired
  BY DEF Daemon
<1>4. /\ Daemon'.fd = fd /\ Daemon'.handler = handler /\ Daemon'.sock = sock'
      /\ Daemon'.expired = expired
  BY <1>1 DEF Daemon
<1>5. sock' \in [App -> SockType({})] /\ \A a \in App : sock'[a].reply = sock[a].reply
  <2>1. sock \in [App -> SockType({})]
    BY <1>2, <1>3 DEF DaemonType
  <2> DEFINE event(a) == sock[a].event /\ (fd[a] = NoFd \/ fd[a].sock \notin batch')
  <2>2. \A a \in App : event(a) \in BOOLEAN
    BY <2>1 DEF SockType
  <2>3. sock' = [a \in App |-> [sock[a] EXCEPT !.event = event(a)]]
    BY <1>1
  <2> HIDE DEF event
  <2>4. \A a \in App : /\ [sock[a] EXCEPT !.event = event(a)] \in SockType({})
                       /\ [sock[a] EXCEPT !.event = event(a)].reply = sock[a].reply
    BY <2>1, <2>2 DEF SockType
  <2> QED BY <2>3, <2>4
<1>6. Daemon' \in DaemonType
  <2>1. /\ fd \in [App -> Pairs \cup {NoFd}] /\ handler \in [App -> HandlerType({})]
        /\ expired \in [App -> BOOLEAN]
        /\ frame_out_queue \in 0..MaxQueue /\ outbox \in 0..SockPackets
    BY <1>2 DEF DaemonType, Daemon
  <2> QED BY <1>1, <1>5, <2>1 DEF Daemon, DaemonType
<1>7. Sane(Daemon') /\ FdsDistinct(Daemon')
  BY <1>2, <1>3, <1>4, <1>6 DEF Sane, FdsDistinct
<1>8. RangOnly(Daemon', rang')
  BY <1>1, <1>2, <1>3, <1>4, <1>5 DEF RangOnly
<1>9. StaleHarmless(Daemon', rang', batch')
  <2>1. ASSUME NEW a \in App, fd[a] # NoFd, fd[a].timer \in batch' PROVE a \in rang
    BY <1>1, <2>1, ReadyOwned
  <2>2. ASSUME NEW p \in Pairs, \A a \in App : fd[a] # p
        PROVE  p.sock \notin batch'
    BY <1>1, <2>2, ReadyOwned
  <2> QED BY <1>1, <1>4, <2>1, <2>2 DEF StaleHarmless
<1>10. CallsInv(Daemon', rang', batch')
  BY <1>7, <1>8, <1>9 DEF CallsInv
<1>11. BacklogOK(Daemon)'
  <2>1. \A a \in App : Fresh(Daemon, a) => Fresh(Daemon', a)
    BY <1>3, <1>4 DEF Fresh
  <2>2. connected \subseteq App
    BY DEF EventsInv
  <2> QED BY <1>1, <1>2, <2>1, <2>2, BacklogKept
<1>12. /\ passed' \subseteq Descriptors /\ batch' \subseteq Descriptors
       /\ application_fd \in batch' => backlog' # <<>>
       /\ arrived' \in BOOLEAN
  <2>1. arrived' \in BOOLEAN
    BY <1>1 DEF EventsInv
  <2> QED BY <1>1, <2>1, ReadyOwned
<1> QED BY <1>1, <1>10, <1>11, <1>12 DEF EventsInv

\* Serving transport_sock.
LEMMA ServeTransportStep == EventsInv /\ ServeTransport => EventsInv'
<1> SUFFICES ASSUME EventsInv, ServeTransport PROVE EventsInv'
  OBVIOUS
<1> DEFINE d == receiveTransportSock(Daemon, inbox)
<1>1. /\ Served(transport_fd, d) /\ UNCHANGED <<backlog, arrived>>
      /\ inbox' = SubSeq(inbox, Receivable(inbox) + 1, Len(inbox))
  BY DEF ServeTransport
<1>2. /\ CallsInv(Daemon, rang, batch) /\ inbox \in Seq(Input) /\ BacklogOK(Daemon)
      /\ connected \subseteq App
  BY DEF EventsInv
<1>3. /\ CallsInv(d, rang, batch)
      /\ \A b \in App : Fresh(Daemon, b) => Fresh(d, b)
  BY <1>2, TransportSafe
<1> HIDE DEF d
<1>4. CallsInv(d, rang, batch \ {transport_fd})
  BY <1>3, FewerEvents
<1>5. /\ CallsInv(Daemon, rang, batch)'
      /\ Daemon'.fd = d.fd /\ Daemon'.handler = d.handler
      /\ running' \in BOOLEAN /\ rang' = rang /\ connected' = connected
      /\ passed' = passed /\ batch' = batch \ {transport_fd}
  BY <1>1, <1>4, ServedSafe
<1>6. \A b \in App : Fresh(Daemon, b) => Fresh(Daemon', b)
  BY <1>3, <1>5 DEF Fresh
<1>7. BacklogOK(Daemon)'
  BY <1>1, <1>2, <1>5, <1>6, BacklogKept
<1>8. inbox' \in Seq(Input)
  BY <1>1, <1>2, SubSeqOK DEF Receivable
<1> QED BY <1>1, <1>5, <1>7, <1>8 DEF EventsInv

\* Serving the socket or the timer of a handler.
LEMMA ServeHandlerStep ==
  ASSUME NEW a \in App PROVE EventsInv /\ (ServeSock(a) \/ ServeTimer(a)) => EventsInv'
<1> SUFFICES ASSUME EventsInv, ServeSock(a) \/ ServeTimer(a) PROVE EventsInv'
  OBVIOUS
<1>1. /\ CallsInv(Daemon, rang, batch) /\ BacklogOK(Daemon) /\ connected \subseteq App
  BY DEF EventsInv
<1>2. Daemon.fd = fd
  BY DEF Daemon
<1>3. PICK f, d : /\ Served(f, d) /\ CallsInv(d, rang, batch \ {f})
                  /\ \A b \in App : Fresh(Daemon, b) => Fresh(d, b)
  <2>1. CASE ServeSock(a)
    BY <1>1, <1>2, <2>1, SockSafe DEF ServeSock
  <2>2. CASE ServeTimer(a)
    BY <1>1, <1>2, <2>2, TimerSafe DEF ServeTimer
  <2> QED BY <2>1, <2>2
<1>4. UNCHANGED <<backlog, inbox, arrived>>
  BY DEF ServeSock, ServeTimer
<1>5. /\ CallsInv(Daemon, rang, batch)'
      /\ Daemon'.fd = d.fd /\ Daemon'.handler = d.handler
      /\ running' \in BOOLEAN /\ rang' = rang /\ connected' = connected
      /\ passed' = passed /\ batch' = batch \ {f}
  BY <1>3, ServedSafe
<1>6. \A b \in App : Fresh(Daemon, b) => Fresh(Daemon', b)
  BY <1>3, <1>5 DEF Fresh
<1>7. BacklogOK(Daemon)'
  BY <1>1, <1>4, <1>5, <1>6, BacklogKept
<1> QED BY <1>4, <1>5, <1>7 DEF EventsInv

\* Serving an event whose owner is gone.
LEMMA ServeNobodyStep == EventsInv /\ ServeNobody => EventsInv'
<1> SUFFICES ASSUME EventsInv, ServeNobody PROVE EventsInv'
  OBVIOUS
<1>1. PICK f : Served(f, Daemon)
  BY DEF ServeNobody
<1>2. UNCHANGED <<backlog, inbox, arrived>>
  BY DEF ServeNobody
<1>3. /\ CallsInv(Daemon, rang, batch) /\ BacklogOK(Daemon) /\ connected \subseteq App
  BY DEF EventsInv
<1>4. CallsInv(Daemon, rang, batch \ {f})
  BY <1>3, FewerEvents
<1>5. /\ CallsInv(Daemon, rang, batch)'
      /\ Daemon'.fd = Daemon.fd /\ Daemon'.handler = Daemon.handler
      /\ running' \in BOOLEAN /\ rang' = rang /\ connected' = connected
      /\ passed' = passed /\ batch' = batch \ {f}
  BY <1>1, <1>4, ServedSafe
<1>6. BacklogOK(Daemon)'
  BY <1>2, <1>3, <1>5, BacklogKept DEF Fresh
<1> QED BY <1>2, <1>5, <1>6 DEF EventsInv

\* What is left of a sequence without its first element.
LEMMA TailOK ==
  ASSUME NEW T, NEW q \in Seq(T), q # <<>>
  PROVE  /\ Head(q) = q[1] /\ q[1] \in T /\ 1 \in 1..Len(q) /\ Tail(q) \in Seq(T)
         /\ \A i \in 1..Len(Tail(q)) : /\ i + 1 \in 1..Len(q) /\ i + 1 # 1
                                       /\ Tail(q)[i] = q[i + 1]
OBVIOUS

\* A sequence with one more element.
LEMMA AppendOK ==
  ASSUME NEW T, NEW q \in Seq(T), NEW S, T \subseteq S, NEW x \in S
  PROVE  /\ Append(q, x) \in Seq(S) /\ Len(Append(q, x)) = Len(q) + 1
         /\ \A i \in 1..Len(q) + 1 :
              Append(q, x)[i] = IF i = Len(q) + 1 THEN x ELSE q[i]
         /\ \A i \in 1..Len(q) : q[i] \in T
<1>1. q \in Seq(S)
  OBVIOUS
<1> QED BY <1>1

\* Accepting a connection.
LEMMA AcceptStep == EventsInv /\ receiveApplicationSock => EventsInv'
<1> SUFFICES ASSUME EventsInv, receiveApplicationSock PROVE EventsInv'
  OBVIOUS
<1>1. /\ CallsInv(Daemon, rang, batch) /\ BacklogOK(Daemon) /\ connected \subseteq App
      /\ backlog # <<>> /\ UNCHANGED <<inbox, arrived>>
  BY DEF EventsInv, receiveApplicationSock
<1>2. CASE /\ Cardinality(Free(Daemon)) >= 2
           /\ Served(application_fd, Accept(Daemon, Head(backlog)))
           /\ backlog' = Tail(backlog)
  <2> DEFINE a == Head(backlog)
             d == Accept(Daemon, a)
  <2>1. /\ backlog \in Seq(connected) /\ a = backlog[1] /\ a \in App /\ a \in connected
        /\ 1 \in 1..Len(backlog) /\ Fresh(Daemon, a)
    BY <1>1, TailOK DEF BacklogOK
  <2> HIDE DEF a
  <2>2. CallsInv(Daemon, rang, batch \ {application_fd})
    BY <1>1, FewerEvents
  <2>3. /\ CallsInv(d, rang, batch \ {application_fd})
        /\ \A b \in App : b # a /\ Fresh(Daemon, b) => Fresh(d, b)
    BY <1>2, <2>1, <2>2, AcceptSafe
  <2>4. Served(application_fd, d)
    BY <1>2 DEF a
  <2> HIDE DEF d
  <2>5. /\ CallsInv(Daemon, rang, batch)'
        /\ Daemon'.fd = d.fd /\ Daemon'.handler = d.handler
        /\ running' \in BOOLEAN /\ rang' = rang /\ connected' = connected
        /\ passed' = passed /\ batch' = batch \ {application_fd}
    BY <2>3, <2>4, ServedSafe
  <2>6. \A b \in App : b # a /\ Fresh(Daemon, b) => Fresh(Daemon', b)
    BY <2>3, <2>5 DEF Fresh
  <2>7. /\ backlog' \in Seq(connected)
        /\ \A i \in 1..Len(backlog') : /\ i + 1 \in 1..Len(backlog) /\ i + 1 # 1
                                       /\ backlog'[i] = backlog[i + 1]
    BY <1>1, <1>2, <2>1, TailOK
  <2>8. \A i, j \in 1..Len(backlog') : i # j => backlog'[i] # backlog'[j]
    <3> SUFFICES ASSUME NEW i \in 1..Len(backlog'), NEW j \in 1..Len(backlog'), i # j
                 PROVE  backlog'[i] # backlog'[j]
      OBVIOUS
    <3>1. i + 1 # j + 1
      OBVIOUS
    <3> QED BY <1>1, <2>7, <3>1 DEF BacklogOK
  <2>9. \A i \in 1..Len(backlog') : Fresh(Daemon', backlog'[i])
    <3> SUFFICES ASSUME NEW i \in 1..Len(backlog') PROVE Fresh(Daemon', backlog'[i])
      OBVIOUS
    <3>1. i + 1 \in 1..Len(backlog) /\ i + 1 # 1 /\ backlog'[i] = backlog[i + 1]
      BY <2>7
    <3>2. backlog[i + 1] # a
      BY <1>1, <2>1, <3>1 DEF BacklogOK
    <3>3. backlog[i + 1] \in App
      BY <1>1, <2>1, <3>1
    <3>4. Fresh(Daemon, backlog[i + 1])
      BY <1>1, <3>1 DEF BacklogOK
    <3> QED BY <2>6, <3>1, <3>2, <3>3, <3>4
  <2>10. \A b \in App \ connected : Fresh(Daemon', b)
    BY <1>1, <2>1, <2>6 DEF BacklogOK
  <2>11. BacklogOK(Daemon)'
    BY <2>5, <2>7, <2>8, <2>9, <2>10 DEF BacklogOK
  <2> QED BY <1>1, <2>5, <2>11 DEF EventsInv
<1>3. CASE /\ running' = FALSE
           /\ UNCHANGED <<connected, backlog, daemon, rang, batch, passed>>
  <2>1. UNCHANGED <<connected, backlog, handler, sock, fd, expired, frame_out_queue,
                    outbox, rang, batch, passed, inbox, arrived>>
    BY <1>1, <1>3 DEF daemon
  <2>2. Daemon' = Daemon
    BY <2>1 DEF Daemon
  <2>3. CallsInv(Daemon', rang', batch')
    BY <1>1, <2>1, <2>2
  <2>4. BacklogOK(Daemon)'
    BY <1>1, <2>1, <2>2, BacklogKept
  <2> QED BY <1>3, <2>1, <2>3, <2>4 DEF EventsInv
<1> QED BY <1>2, <1>3 DEF receiveApplicationSock

\* An application connects.
LEMMA ConnectStep == ASSUME NEW a \in App PROVE EventsInv /\ AppConnects(a) => EventsInv'
<1> SUFFICES ASSUME EventsInv, AppConnects(a) PROVE EventsInv'
  OBVIOUS
<1>1. /\ a \notin connected /\ connected' = connected \cup {a}
      /\ backlog' = Append(backlog, a)
      /\ UNCHANGED <<running, handler, sock, fd, expired, frame_out_queue, outbox,
                     rang, inbox, arrived, batch, passed>>
  BY DEF AppConnects, daemon
<1>2. /\ CallsInv(Daemon, rang, batch) /\ BacklogOK(Daemon) /\ connected \subseteq App
  BY DEF EventsInv
<1>3. Daemon' = Daemon
  BY <1>1 DEF Daemon
<1>4. CallsInv(Daemon', rang', batch')
  BY <1>1, <1>2, <1>3
<1> DEFINE n == Len(backlog)
<1>5. backlog \in Seq(connected) /\ connected \subseteq connected' /\ a \in connected'
  BY <1>1, <1>2 DEF BacklogOK
<1>6. /\ backlog' \in Seq(connected') /\ Len(backlog') = n + 1 /\ n \in Nat
      /\ \A i \in 1..n + 1 : backlog'[i] = IF i = n + 1 THEN a ELSE backlog[i]
      /\ \A i \in 1..n : backlog[i] \in connected
  BY <1>1, <1>5, AppendOK
<1>7. /\ \A i, j \in 1..n : i # j => backlog[i] # backlog[j]
      /\ \A i \in 1..n : Fresh(Daemon, backlog[i])
      /\ Fresh(Daemon, a)
      /\ \A b \in App \ connected' : Fresh(Daemon, b)
  BY <1>1, <1>2 DEF BacklogOK
<1> HIDE DEF n
<1>8. \A i \in 1..n + 1 : i = n + 1 \/ i \in 1..n
  BY <1>6
<1>9. \A i, j \in 1..n + 1 : i # j => backlog'[i] # backlog'[j]
  BY <1>1, <1>6, <1>7, <1>8
<1>10. \A i \in 1..n + 1 : Fresh(Daemon, backlog'[i])
  BY <1>6, <1>7, <1>8
<1>11. BacklogOK(Daemon)'
  BY <1>3, <1>6, <1>7, <1>9, <1>10 DEF BacklogOK
<1>12. backlog' # <<>> /\ connected' \subseteq App
  BY <1>1, <1>2, <1>6
<1> QED BY <1>1, <1>4, <1>11, <1>12 DEF EventsInv

\* The other steps of the environment.
LEMMA OutsideStep ==
  ASSUME EventsInv,
         \/ PacketArrives
         \/ MIPTakes
         \/ \E a \in App : AppRequests(a) \/ AppCloses(a) \/ TimerExpires(a)
  PROVE  EventsInv'
<1>1. /\ CallsInv(Daemon, rang, batch) /\ BacklogOK(Daemon) /\ connected \subseteq App
      /\ Daemon \in DaemonType
  BY DEF EventsInv, CallsInv, Sane
<1>2. /\ sock \in [App -> SockType({})] /\ expired \in [App -> BOOLEAN]
      /\ frame_out_queue \in 0..MaxQueue /\ outbox \in 0..SockPackets
  BY <1>1 DEF DaemonType, Daemon
<1>3. /\ UNCHANGED <<running, connected, backlog, fd, handler, frame_out_queue, batch, passed>>
      /\ outbox' \in 0..SockPackets /\ rang \subseteq rang' /\ rang' \subseteq App
      /\ inbox' \in Seq(Input) /\ arrived' \in BOOLEAN
      /\ sock' \in [App -> SockType({})] /\ expired' \in [App -> BOOLEAN]
      /\ \A a \in App : sock'[a].reply = sock[a].reply
      /\ \A a \in App : expired'[a] => expired[a] \/ a \in rang'
  <2>1. CASE PacketArrives
    <3>1. PICK p \in Input : inbox' = Append(inbox, p)
      BY <2>1 DEF PacketArrives
    <3>2. inbox' \in Seq(Input)
      BY <3>1 DEF EventsInv
    <3> QED BY <1>2, <2>1, <3>2 DEF PacketArrives, daemon, EventsInv
  <2>2. CASE MIPTakes
    <3>1. outbox' \in 0..SockPackets
      BY <1>2, <2>2, EventsAssumption DEF MIPTakes
    <3> QED BY <1>2, <2>2, <3>1 DEF MIPTakes, EventsInv
  <2>3. ASSUME NEW a \in App, AppRequests(a) \/ AppCloses(a)
        PROVE  /\ sock' \in [App -> SockType({})]
               /\ \A b \in App : sock'[b].reply = sock[b].reply
    <3>1. PICK s : /\ s \in SockType({}) /\ s.reply = sock[a].reply
                   /\ sock' = [sock EXCEPT ![a] = s]
      <4>1. CASE AppRequests(a)
        <5> DEFINE items == sock[a].request + 1
                   s == [sock[a] EXCEPT !.request = items, !.event = TRUE]
        <5>1. sock' = [sock EXCEPT ![a] = s]
          BY <1>2, <4>1 DEF AppRequests
        <5>2. sock[a].request \in 0..3 /\ sock[a].request < 3
          BY <1>2, <4>1 DEF AppRequests, RequestItems, SockType
        <5>3. items \in 0..3
          BY ONLY <5>2
        <5> HIDE DEF items
        <5>4. sock[a] \in SockType({})
          BY <1>2
        <5>5. s \in SockType({}) /\ s.reply = sock[a].reply
          <6> DEFINE t == sock[a]
          <6>1. t \in SockType({}) /\ s = [t EXCEPT !.request = items, !.event = TRUE]
            BY <5>4
          <6> HIDE DEF s, t
          <6>2. s \in SockType({}) /\ s.reply = t.reply
            BY ONLY <5>3, <6>1, Requested
          <6> QED BY <6>2 DEF t
        <5> QED BY <5>1, <5>5
      <4>2. CASE AppCloses(a)
        <5> DEFINE s == [sock[a] EXCEPT !.closed = TRUE, !.event = TRUE]
        <5>1. sock' = [sock EXCEPT ![a] = s]
          BY <1>2, <4>2 DEF AppCloses
        <5>2. sock[a] \in SockType({})
          BY <1>2
        <5>3. s \in SockType({}) /\ s.reply = sock[a].reply
          BY ONLY <5>2, ClosedBy
        <5> QED BY <5>1, <5>3
      <4> QED BY <2>3, <4>1, <4>2
    <3> QED BY <1>2, <3>1
  <2>4. ASSUME NEW a \in App, AppRequests(a) \/ AppCloses(a)
        PROVE  UNCHANGED <<running, connected, backlog, fd, handler, frame_out_queue,
                           batch, passed, outbox, rang, inbox, arrived, expired>>
    BY <2>4 DEF AppRequests, AppCloses
  <2>5. CASE \E a \in App : AppRequests(a) \/ AppCloses(a)
    BY <1>2, <2>3, <2>4, <2>5 DEF EventsInv
  <2>6. CASE \E a \in App : TimerExpires(a)
    <3>1. PICK a \in App : TimerExpires(a)
      BY <2>6
    <3>2. expired' = [expired EXCEPT ![a] = TRUE] /\ rang' = rang \cup {a}
      BY <3>1 DEF TimerExpires
    <3>3. /\ expired' \in [App -> BOOLEAN]
          /\ \A b \in App : expired'[b] => expired[b] \/ b \in rang'
      BY <1>2, <3>2
    <3>4. rang \subseteq rang' /\ rang' \subseteq App
      BY <3>2 DEF EventsInv
    <3> QED BY <1>2, <3>1, <3>3, <3>4 DEF TimerExpires, EventsInv
  <2> QED BY <2>1, <2>2, <2>5, <2>6
<1>4. /\ CallsInv(Daemon, rang, batch)'
      /\ \A a \in App : Fresh(Daemon, a) => Fresh(Daemon', a)
  BY <1>2, <1>3, QuietStep
<1>5. BacklogOK(Daemon)'
  BY <1>1, <1>3, <1>4, BacklogKept
<1> QED BY <1>3, <1>4, <1>5 DEF EventsInv

\* Every step keeps the invariant.
LEMMA EventsStep == EventsInv /\ [Next]_vars => EventsInv'
<1> SUFFICES ASSUME EventsInv, [Next]_vars PROVE EventsInv'
  OBVIOUS
<1>1. CASE Wait
  BY <1>1, WaitStep
<1>2. CASE Serve
  BY <1>2, ServeTransportStep, ServeHandlerStep, ServeNobodyStep, AcceptStep DEF Serve
<1>3. CASE \E a \in App : AppConnects(a)
  BY <1>3, ConnectStep
<1>4. CASE \/ PacketArrives
           \/ MIPTakes
           \/ \E a \in App : AppRequests(a) \/ AppCloses(a) \/ TimerExpires(a)
  BY <1>4, OutsideStep
<1>5. CASE UNCHANGED vars
  <2>1. UNCHANGED <<running, connected, backlog, handler, sock, fd, expired,
                    frame_out_queue, outbox, rang, inbox, arrived, batch, passed>>
    BY <1>5 DEF vars, daemon
  <2>2. Daemon' = Daemon
    BY <2>1 DEF Daemon
  <2>3. CallsInv(Daemon', rang', batch')
    BY <2>1, <2>2 DEF EventsInv
  <2>4. BacklogOK(Daemon)'
    BY <2>1, <2>2, BacklogKept DEF EventsInv
  <2> QED BY <2>1, <2>3, <2>4 DEF EventsInv
<1> QED BY <1>1, <1>2, <1>3, <1>4, <1>5 DEF Next

\* The invariant holds in every state.
LEMMA EventsInvariant == Spec => []EventsInv
<1> QED BY EventsInit, EventsStep, PTL DEF Spec

\* The types of the variables: a handler always has a socket and a timer that
\* are two of the descriptors a process gives out, or neither.
THEOREM TypeCorrect == Spec => []TypeOK
<1>1. EventsInv => TypeOK
  <2> SUFFICES ASSUME EventsInv PROVE TypeOK
    OBVIOUS
  <2>1. Daemon \in DaemonType
    BY DEF EventsInv, CallsInv, Sane
  <2>2. /\ handler \in [App -> HandlerType({})] /\ sock \in [App -> SockType({})]
        /\ fd \in [App -> Pairs \cup {NoFd}] /\ expired \in [App -> BOOLEAN]
        /\ frame_out_queue \in 0..MaxQueue /\ outbox \in 0..SockPackets
    BY <2>1 DEF Daemon, DaemonType
  <2> DEFINE D == {0} \cup FirstFd..LastFd
  <2>3. \A p \in Pairs : p \in [sock: D, timer: D]
    <3> SUFFICES ASSUME NEW p \in Pairs PROVE p \in [sock: D, timer: D]
      OBVIOUS
    <3>1. p.sock \in D /\ p.timer \in D
      BY PairInRange
    <3>2. p = [sock |-> p.sock, timer |-> p.timer]
      BY DEF Pairs, Pair
    <3> HIDE DEF D
    <3> QED BY <3>1, <3>2
  <2>4. NoFd \in [sock: D, timer: D]
    BY DEF NoFd
  <2>5. fd \in [App -> [sock: D, timer: D]]
    <3> HIDE DEF D
    <3> QED BY <2>2, <2>3, <2>4
  <2>6. backlog \in Seq(connected)
    BY DEF EventsInv, BacklogOK
  <2> QED BY <2>2, <2>5, <2>6 DEF TypeOK, EventsInv, Descriptors
<1> QED BY <1>1, EventsInvariant, PTL

\* An application is told that the time is up only after its own timer expired,
\* whatever the handler that had its descriptors before left in the batch: the
\* call of ClientHandler::handleTimer that writes the answer.
THEOREM TimeoutCorrect == Spec => []TimeoutIsOwn
<1>1. EventsInv => TimeoutIsOwn
  BY DEF EventsInv, CallsInv, RangOnly, Daemon, TimeoutIsOwn
<1> QED BY <1>1, EventsInvariant, PTL
=============================================================================
