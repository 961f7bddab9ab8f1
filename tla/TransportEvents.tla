-------------------------- MODULE TransportEvents --------------------------
(***************************************************************************)
(* The event loop of one transport daemon: epoll hands main a batch of     *)
(* file descriptors, main looks up who owns each of them and calls that    *)
(* owner's entry point, then writes what frame_out_queue holds while       *)
(* transport_sock takes it.  A handler that fails is erased and its two    *)
(* descriptors are closed; the next connection gets the lowest free ones,  *)
(* while the batch may still hold events of the former owner.              *)
(*                                                                         *)
(* The handlers are those of ClientHandler.  Frames that leave are only    *)
(* counted, what the connections carry is the business of Connection and   *)
(* TransportDaemon.                                                        *)
(***************************************************************************)
EXTENDS ClientHandler, FiniteSets

CONSTANTS
  App,          \* applications; one that connects again is another element
  Ask,          \* the request each application makes
  MayClose,     \* the applications that may close
  Input,        \* the frames MIP_deamon may pass on: [from, frame]
  LastFd,       \* the highest descriptor the process may have
  MaxBatch,     \* events of a batch (20)
  SockPackets,  \* packets that transport_sock takes before it would block
  MaxInbox,     \* bound: packets that wait in it for the daemon
  MaxQueue      \* bound: up to where frames in frame_out_queue are counted

ASSUME EventsAssumption ==
  /\ IsFiniteSet(App) /\ MayClose \subseteq App
  /\ Ask \in [App -> [kind: {"client", "server"}, address: Nat, port: Nat]]
  /\ Input \subseteq [from: Nat, frame: FrameType({})]
  /\ LastFd \in Nat /\ MaxBatch \in Nat \ {0}
  /\ SockPackets \in Nat \ {0} /\ MaxInbox \in Nat /\ MaxQueue \in Nat

VARIABLES
  running,          \* FALSE: SIGPIPE or an error nobody catches ended the daemon
  connected,        \* applications that connected to application_sock
  backlog,          \* those of them not yet accepted
  fd,               \* the descriptors of each handler in client_vector
  handler,          \* the handler of each application, kept after it failed
  sock,             \* the socket of each application
  expired,          \* expired[a]: a's timer is readable
  rang,             \* history: whose timer ever expired
  frame_out_queue,  \* how many frames it holds
  outbox, inbox,    \* packets in transport_sock, towards MIP_deamon and from it
  arrived,          \* an edge of transport_sock that epoll has to report
  batch,            \* descriptors of the current batch still to be served
  passed            \* ready descriptors the last batch had no room for

daemon == <<handler, sock, fd, expired, frame_out_queue, outbox>>
vars == <<running, connected, backlog, daemon, rang, inbox, arrived, batch, passed>>

\* The descriptors below are taken before the loop starts: 5 is epoll's own.
transport_fd   == 3
application_fd == 4
FirstFd        == 6

NoFd == [sock |-> 0, timer |-> 0]

Init ==
  /\ running = TRUE /\ connected = {} /\ backlog = <<>>
  /\ fd = [a \in App |-> NoFd]
  /\ handler = [a \in App |-> NewHandler]
  /\ sock = [a \in App |-> NewSock(Ask[a])]
  /\ expired = [a \in App |-> FALSE] /\ rang = {}
  /\ frame_out_queue = 0 /\ outbox = 0 /\ inbox = <<>> /\ arrived = FALSE
  /\ batch = {} /\ passed = {}

(***************************************************************************)
(* The daemon's state as a record, which the entry points pass on          *)
(***************************************************************************)
Daemon ==
  [handler |-> handler, sock |-> sock, fd |-> fd, expired |-> expired,
   queue |-> frame_out_queue, outbox |-> outbox]

client_vector(d) == {a \in App : d.fd[a] # NoFd}

UsedPorts(d) == {d.handler[a].m_source_port : a \in client_vector(d)}

Free(d) ==
  (FirstFd..LastFd) \ UNION {{d.fd[a].sock, d.fd[a].timer} : a \in client_vector(d)}

Lowest(S) == CHOOSE f \in S : \A g \in S : f <= g

\* The calls that set the timer, besides handleTimer.
Arms(h, r) ==
  <<h.m_stage, r.m_stage>> \in {<<"application", "wait_reply">>, <<"listen", "connected">>}

\* A call on a's handler returned r, having set the timer or not.
Called(d, a, r, armed) ==
  [d EXCEPT !.handler[a] = r.handler, !.sock[a] = r.sock,
            !.expired[a] = @ /\ ~armed,
            !.queue = LowerOf(@ + Len(r.out), MaxQueue)]

\* A handler that failed is destroyed, which closes both its descriptors.
Erased(d, a) ==
  IF d.handler[a].m_stage = "failure"
  THEN [d EXCEPT !.fd[a] = NoFd, !.expired[a] = FALSE] ELSE d

BugSendTransportSock(d) ==  \* mutant: nothing is sent once a send found no room
  IF d.outbox = SockPackets \/ d.queue > SockPackets - d.outbox THEN d
  ELSE [d EXCEPT !.queue = 0, !.outbox = @ + d.queue]

BugSendBlindly(d) ==  \* mutant: that the socket would block is not noticed
  [d EXCEPT !.queue = 0, !.outbox = @ + d.queue]

\* Writes until the queue is empty or the socket would block.
sendTransportSock(d) ==
  LET n == LowerOf(d.queue, SockPackets - d.outbox)
  IN  [d EXCEPT !.queue = @ - n, !.outbox = @ + n]

(***************************************************************************)
(* The entry points                                                        *)
(***************************************************************************)
handleClientHandlerSock(d, a) ==
  LET r == handleSock(d.handler[a], [d.sock[a] EXCEPT !.event = FALSE], UsedPorts(d))
  IN  Erased(Called(d, a, r, Arms(d.handler[a], r.handler)), a)

handleClientHandlerTimer(d, a) ==
  LET r == handleTimer(d.handler[a], d.sock[a], UsedPorts(d))
  IN  Erased(Called(d, a, r, TRUE), a)

\* A frame goes to the handler that has its port, if there is one.
Receive(d, p) ==
  LET owners == {a \in client_vector(d) : d.handler[a].m_source_port = p.frame.dest}
      a      == CHOOSE a \in owners : TRUE
      r      == receiveFrame(d.handler[a], d.sock[a], p.from, p.frame, p.frame.seq)
  IN  IF owners = {} THEN d ELSE Erased(Called(d, a, r, Arms(d.handler[a], r.handler)), a)

BugReceivable(packets) == 1  \* mutant: one packet for each event

\* How many packets one call receives: all, as transport_sock is edge triggered.
Receivable(packets) == Len(packets)

receiveTransportSock(d, packets) ==
  LET after[i \in 0..Len(packets)] ==
        IF i = 0 THEN d ELSE Receive(after[i - 1], packets[i])
  IN  after[Receivable(packets)]

BugAccept(d, a) ==  \* mutant: a request that is already there is handled at once
  LET low  == Lowest(Free(d))
      fds  == [sock |-> low, timer |-> Lowest(Free(d) \ {low})]
  IN  handleClientHandlerSock([d EXCEPT !.fd[a] = fds], a)

\* accept and timerfd_create each take the lowest free descriptor.
Accept(d, a) ==
  LET low == Lowest(Free(d))
  IN  [d EXCEPT !.fd[a] = [sock |-> low, timer |-> Lowest(Free(d) \ {low})]]

(***************************************************************************)
(* main                                                                    *)
(***************************************************************************)
Ready ==
  (IF arrived THEN {transport_fd} ELSE {})
  \cup (IF backlog # <<>> THEN {application_fd} ELSE {})
  \cup {fd[a].sock : a \in {b \in client_vector(Daemon) : sock[b].event}}
  \cup {fd[a].timer : a \in {b \in client_vector(Daemon) : expired[b]}}

\* epoll_wait: an edge is reported once, a level as long as it lasts; what a
\* batch had no room for comes first in the next.
Wait ==
  /\ running /\ batch = {} /\ Ready # {}
  /\ batch' \in {B \in SUBSET Ready :
                   /\ Cardinality(B) = LowerOf(Cardinality(Ready), MaxBatch)
                   /\ passed \cap Ready \subseteq B \/ B \subseteq passed}
  /\ passed' = Ready \ batch'
  /\ arrived' = (arrived /\ transport_fd \notin batch')
  /\ sock' = [a \in App |->
                [sock[a] EXCEPT !.event = @ /\ (fd[a] = NoFd \/ fd[a].sock \notin batch')]]
  /\ UNCHANGED <<running, connected, backlog, fd, handler, expired, rang,
                 frame_out_queue, outbox, inbox>>

\* An event of descriptor f was handled, which left the daemon as d.
Served(f, d) ==
  \E e \in {sendTransportSock(d)} :
      /\ batch' = batch \ {f}
      /\ handler' = e.handler /\ sock' = e.sock /\ fd' = e.fd /\ expired' = e.expired
      /\ frame_out_queue' = e.queue /\ outbox' = e.outbox
      /\ running' = \A a \in App : e.handler[a].m_stage # "sigpipe"
      /\ UNCHANGED <<connected, rang, passed>>

ServeTransport ==
  /\ running /\ transport_fd \in batch
  /\ Served(transport_fd, receiveTransportSock(Daemon, inbox))
  /\ inbox' = SubSeq(inbox, Receivable(inbox) + 1, Len(inbox))
  /\ UNCHANGED <<backlog, arrived>>

\* One connection of the backlog.  Without two free descriptors accept or
\* timerfd_create fails with an error that nobody catches.
receiveApplicationSock ==
  /\ running /\ application_fd \in batch
  /\ \/ /\ Cardinality(Free(Daemon)) >= 2
        /\ Served(application_fd, Accept(Daemon, Head(backlog)))
        /\ backlog' = Tail(backlog)
     \/ /\ Cardinality(Free(Daemon)) < 2
        /\ running' = FALSE
        /\ UNCHANGED <<connected, backlog, daemon, rang, batch, passed>>
  /\ UNCHANGED <<inbox, arrived>>

ServeSock(a) ==
  /\ running /\ fd[a] # NoFd /\ fd[a].sock \in batch
  /\ Served(fd[a].sock, handleClientHandlerSock(Daemon, a))
  /\ UNCHANGED <<backlog, inbox, arrived>>

ServeTimer(a) ==
  /\ running /\ fd[a] # NoFd /\ fd[a].timer \in batch
  /\ Served(fd[a].timer, handleClientHandlerTimer(Daemon, a))
  /\ UNCHANGED <<backlog, inbox, arrived>>

\* An event of a handler that was erased earlier in the batch.
ServeNobody ==
  /\ running
  /\ \E f \in batch \ {transport_fd, application_fd} :
       /\ \A a \in client_vector(Daemon) : f \notin {fd[a].sock, fd[a].timer}
       /\ Served(f, Daemon)
  /\ UNCHANGED <<backlog, inbox, arrived>>

Serve ==
  ServeTransport \/ receiveApplicationSock \/ ServeNobody
  \/ \E a \in App : ServeSock(a) \/ ServeTimer(a)

(***************************************************************************)
(* The applications, the timers and MIP_deamon                             *)
(***************************************************************************)
AppConnects(a) ==
  /\ running /\ a \notin connected
  /\ connected' = connected \cup {a} /\ backlog' = Append(backlog, a)
  /\ UNCHANGED <<running, daemon, rang, inbox, arrived, batch, passed>>

AppRequests(a) ==
  /\ running /\ a \in connected /\ ~sock[a].closed
  /\ sock[a].request < RequestItems(Ask[a].kind)
  /\ sock' = [sock EXCEPT ![a].request = @ + 1, ![a].event = TRUE]
  /\ UNCHANGED <<running, connected, backlog, fd, handler, expired, rang,
                 frame_out_queue, outbox, inbox, arrived, batch, passed>>

AppCloses(a) ==
  /\ running /\ a \in MayClose /\ a \in connected /\ ~sock[a].closed
  /\ sock' = [sock EXCEPT ![a].closed = TRUE, ![a].event = TRUE]
  /\ UNCHANGED <<running, connected, backlog, fd, handler, expired, rang,
                 frame_out_queue, outbox, inbox, arrived, batch, passed>>

TimerExpires(a) ==
  /\ running /\ fd[a] # NoFd /\ handler[a].m_timer /\ ~expired[a]
  /\ expired' = [expired EXCEPT ![a] = TRUE]
  /\ rang' = rang \cup {a}
  /\ UNCHANGED <<running, connected, backlog, fd, handler, sock,
                 frame_out_queue, outbox, inbox, arrived, batch, passed>>

PacketArrives ==
  /\ running /\ Len(inbox) < MaxInbox
  /\ \E p \in Input : inbox' = Append(inbox, p)
  /\ arrived' = TRUE
  /\ UNCHANGED <<running, connected, backlog, daemon, rang, batch, passed>>

MIPTakes ==
  /\ running /\ outbox > 0
  /\ outbox' = outbox - 1
  /\ UNCHANGED <<running, connected, backlog, fd, handler, sock, expired, rang,
                 frame_out_queue, inbox, arrived, batch, passed>>

Next ==
  \/ Wait \/ Serve \/ PacketArrives \/ MIPTakes
  \/ \E a \in App : AppConnects(a) \/ AppRequests(a) \/ AppCloses(a) \/ TimerExpires(a)

Spec == Init /\ [][Next]_vars

\* Of all steps, those of Serve that handle an event.
Progress == running /\ \E f \in batch : batch' = batch \ {f}

\* The daemon and MIP_deamon are scheduled, timers expire, and applications
\* finish their requests.
Fairness ==
  /\ WF_vars(Wait) /\ WF_batch(Progress) /\ WF_vars(MIPTakes)
  /\ \A a \in App : WF_vars(TimerExpires(a)) /\ WF_vars(AppRequests(a))

FairSpec == Spec /\ Fairness

(***************************************************************************)
(* Properties                                                              *)
(***************************************************************************)
\* The types of the variables.
TypeOK ==
  /\ running \in BOOLEAN /\ arrived \in BOOLEAN
  /\ connected \subseteq App /\ rang \subseteq App
  /\ backlog \in Seq(connected)
  /\ fd \in [App -> [sock: {0} \cup FirstFd..LastFd, timer: {0} \cup FirstFd..LastFd]]
  /\ handler \in [App -> HandlerType({})]
  /\ sock \in [App -> SockType({})]
  /\ expired \in [App -> BOOLEAN]
  /\ frame_out_queue \in 0..MaxQueue /\ outbox \in 0..SockPackets
  /\ inbox \in Seq(Input)
  /\ passed \subseteq {transport_fd, application_fd} \cup FirstFd..LastFd
  /\ batch \subseteq {transport_fd, application_fd} \cup FirstFd..LastFd

\* An application is told that the time is up only after its own timer expired:
\* never on an event that the handler before it left in the batch.
TimeoutIsOwn == \A a \in App : sock[a].reply = "timeout" => a \in rang

\* A connect request that was written is answered, in whatever batches and on
\* whatever edges its parts arrive, unless the daemon ends or its application
\* closes.
Answered ==
  \A a \in App :
    sock[a].request = 3 ~> (sock[a].reply # "none" \/ sock[a].closed \/ ~running)

\* Nothing is left in transport_sock, which reports an edge only once.
Drained == inbox # <<>> ~> (inbox = <<>> \/ ~running)

\* Nothing wakes the daemon when transport_sock has room again.  A queued frame
\* leaves all the same, as long as a handler with a timer lives.
NothingQueued ==
  \/ frame_out_queue = 0 \/ ~running
  \/ \A a \in App : fd[a] # NoFd => ~handler[a].m_timer

FramesLeave == []<>NothingQueued \/ []<><<outbox' > outbox>>_vars
=============================================================================
