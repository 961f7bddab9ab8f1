--------------------------- MODULE NodeProcesses ---------------------------
(***************************************************************************)
(* The processes of one node: transport_deamon starts MIP_deamon, which    *)
(* starts routing_deamon, and each waits for its child before it ends.     *)
(* Each has a main thread in an epoll loop, routing_deamon two workers     *)
(* besides.  They talk over sockets that hold a few writes and block, and  *)
(* SIGINT may meet a process anywhere.                                     *)
(*                                                                         *)
(* A message is a series of writes, here of two at most: the first item of *)
(* one tells how many follow.  What the messages say is the business of    *)
(* MIPDeamon and RoutingDeamon.                                            *)
(*                                                                         *)
(* Nobody sets close-on-exec: a child inherits every descriptor its parent *)
(* has open.  So routing_deamon holds all ends of all sockets but its      *)
(* parents' epolls, and MIP_deamon both ends of transport_sock: no reader  *)
(* of theirs ever meets an end of file, no writer SIGPIPE, unless the      *)
(* holders are gone too.                                                   *)
(***************************************************************************)
EXTENDS Naturals, Sequences

CONSTANTS
  SockItems,    \* writes that fit in a socket
  Answers,      \* how many writes the answer to a lookup has: 2, or 1 without a hop
  MaxQueue,     \* bound: up to where update_queue and lookup_queue are counted
  MaySignal     \* the processes that may get a SIGINT

Process == {"transport", "MIP", "routing"}
Worker  == {"update", "lookup"}

\* The threads that block in reads and writes, main threads under the names of
\* their processes.
Thread == {"MIP", "routing"} \cup Worker

ASSUME ProcessesAssumption ==
  SockItems \in Nat \ {0} /\ MaxQueue \in Nat \ {0}
  /\ Answers \subseteq 1..2 /\ MaySignal \subseteq Process

\* Where writes may block: out of MIP_deamon into transport_sock, into
\* routing_deamon and out of it.  (transport_deamon's own writes do not block:
\* what does not fit stays in frame_out_queue.)
Sock == {"packets_out", "update_in", "update_out", "lookup_in", "lookup_out"}

VARIABLES
  at,         \* where the main thread of each process is
  closed,     \* the processes whose epoll is closed (m_closed)
  sock,       \* what was written and not read
  todo,       \* the reads and writes each thread has before it
  queue,      \* how many elements update_queue and lookup_queue have
  worker      \* whether a worker runs

vars == <<at, closed, sock, todo, queue, worker>>

Places == {"absent", "start", "setup", "enter", "wait", "serve", "join", "ended", "aborted"}

Init ==
  /\ at = [p \in Process |-> IF p = "transport" THEN "start" ELSE "absent"]
  /\ closed = {}
  /\ sock = [s \in Sock |-> <<>>]
  /\ todo = [t \in Thread |-> <<>>]
  /\ queue = [w \in Worker |-> 0]
  /\ worker = [w \in Worker |-> FALSE]

Gone(p) == at[p] \in {"ended", "aborted"}

\* A mutation: MIP_deamon keeps the ends of the sockets it gave to its child.
BugWidowed(p) == p = "transport" /\ Gone("MIP") /\ Gone("routing")

\* Whom an end of file or SIGPIPE would reach: no process is left that holds the
\* other end of its sockets.
Widowed(p) ==
  CASE p = "transport" -> Gone("MIP") /\ (Gone("routing") \/ at["routing"] = "absent")
    [] p = "MIP"       -> Gone("routing")
    [] p = "routing"   -> FALSE

(***************************************************************************)
(* Reads and writes                                                        *)
(***************************************************************************)
Op == [op: {"send", "recv"}, on: Sock, item: 0..1]

Send(s, item) == [op |-> "send", on |-> s, item |-> item]
Recv(s)       == [op |-> "recv", on |-> s, item |-> 0]

\* A message of n writes.
Message(s, n) == [i \in 1..n |-> Send(s, IF i = 1 THEN n - 1 ELSE 0)]

\* The first operation of a thread has to wait.
Blocked(t) ==
  /\ todo[t] # <<>>
  /\ LET o == Head(todo[t])
     IN  IF o.op = "send" THEN Len(sock[o.on]) = SockItems ELSE sock[o.on] = <<>>

\* What a thread does next, having read the first item of a message: the reads
\* of the rest.
Rest(o, n) == [i \in 1..n |-> Recv(o.on)]

Operate(t) ==
  /\ todo[t] # <<>> /\ ~Blocked(t)
  /\ LET o == Head(todo[t])
     IN  IF o.op = "send"
         THEN /\ sock' = [sock EXCEPT ![o.on] = Append(@, o.item)]
              /\ todo' = [todo EXCEPT ![t] = Tail(@)]
         ELSE /\ sock' = [sock EXCEPT ![o.on] = Tail(@)]
              /\ todo' = [todo EXCEPT ![t] = Rest(o, Head(sock[o.on])) \o Tail(@)]

(***************************************************************************)
(* The loop of a main thread                                               *)
(***************************************************************************)
Moves(p, place) == at' = [at EXCEPT ![p] = place]

\* Ending takes the workers along, and what a thread was about to do.
Threads(p) == CASE p = "transport" -> {} [] p = "MIP" -> {"MIP"}
                [] p = "routing" -> {"routing"} \cup Worker

Ends(p, how) ==
  /\ Moves(p, how)
  /\ todo' = [t \in Thread |-> IF t \in Threads(p) THEN <<>> ELSE todo[t]]
  /\ worker' = [w \in Worker |-> worker[w] /\ p # "routing"]
  /\ closed' = closed \ {p}
  /\ queue' = [w \in Worker |-> IF p = "routing" THEN 0 ELSE queue[w]]

\* while (!epoll.isClosed()): the loop is entered again, or left, which closes
\* the sockets or clears running.
Test(p) == Moves(p, IF p \in closed THEN "join" ELSE "enter")

\* epoll_wait on a closed descriptor fails with an error nobody catches.
EnterWait(p) ==
  /\ at[p] = "enter"
  /\ IF p \in closed THEN Ends(p, "aborted")
     ELSE Moves(p, "wait") /\ UNCHANGED <<closed, todo, queue, worker>>
  /\ UNCHANGED sock

\* An event is served, the first of a batch or a later one.
Serving(p) ==
  /\ at[p] \in {"wait", "serve"} /\ (p \in Thread => todo[p] = <<>>)
  /\ Moves(p, "serve")

\* The next read meets an end of file, the next write SIGPIPE: that of an event,
\* or that of the message under way, unless it goes to transport_deamon or reads
\* what is still there.
Fails(p) ==
  /\ Widowed(p)
  /\ (p \in Thread /\ todo[p] # <<>>) =>
       LET o == Head(todo[p])
       IN  o.on # "packets_out" /\ (o.op = "recv" => sock[o.on] = <<>>)

\* Neither is caught.
Bereave(p) ==
  /\ Fails(p) /\ at[p] \in {"setup", "wait", "serve"}
  /\ Ends(p, "aborted")
  /\ UNCHANGED sock

\* What epoll reports in any case: the closed end of a socket, and packets.
Pending(p) == Fails(p) \/ (p = "transport" /\ sock["packets_out"] # <<>>)

\* The events of a batch are done, those too that came while it was served.
EndBatch(p) ==
  /\ at[p] = "serve" /\ (p \in Thread => todo[p] = <<>>)
  /\ Pending(p) => p \in closed
  /\ Test(p)
  /\ UNCHANGED <<closed, sock, todo, queue, worker>>

(***************************************************************************)
(* transport_deamon                                                        *)
(***************************************************************************)
ForkMIP ==
  /\ at["transport"] = "start" /\ at["MIP"] = "absent"
  /\ Moves("MIP", "start")
  /\ UNCHANGED <<closed, sock, todo, queue, worker>>

\* epoll = EventPoll(100) forgets a SIGINT that came before.
StartTransport ==
  /\ at["transport"] = "start" /\ at["MIP"] # "absent"
  /\ Moves("transport", "enter")
  /\ closed' = closed \ {"transport"}
  /\ UNCHANGED <<sock, todo, queue, worker>>

ServePackets ==
  /\ sock["packets_out"] # <<>> /\ Serving("transport")
  /\ sock' = [sock EXCEPT !["packets_out"] = <<>>]
  /\ UNCHANGED <<closed, todo, queue, worker>>

\* An event of an application or a timer.
ServeApplication ==
  /\ Serving("transport")
  /\ UNCHANGED <<closed, sock, todo, queue, worker>>

\* A connection is accepted; epoll_ctl fails when SIGINT came in this batch.
AcceptApplication ==
  /\ at["transport"] = "serve" /\ "transport" \in closed
  /\ Ends("transport", "aborted")
  /\ UNCHANGED sock

(***************************************************************************)
(* MIP_deamon                                                              *)
(***************************************************************************)
\* It starts routing_deamon and tells it its own address.
StartMIP ==
  /\ at["MIP"] = "start" /\ at["routing"] = "absent"
  /\ at' = [at EXCEPT !["MIP"] = "setup", !["routing"] = "start"]
  /\ closed' = closed \ {"MIP"}
  /\ todo' = [todo EXCEPT !["MIP"] = Message("update_in", 2)]
  /\ UNCHANGED <<sock, queue, worker>>

\* Sockets and the timer are registered, before and after that message: epoll_ctl
\* fails when SIGINT came meanwhile, outside of the try.  Then the loop is tested.
SetUpMIP ==
  /\ at["MIP"] = "setup" /\ UNCHANGED sock
  /\ \/ "MIP" \in closed /\ Len(todo["MIP"]) # 1 /\ Ends("MIP", "aborted")
     \/ todo["MIP"] = <<>> /\ Test("MIP") /\ UNCHANGED <<closed, todo, queue, worker>>

\* A frame or a packet arrives, or the timer expires: MIP_deamon tells
\* routing_deamon of a neighbour or an advertisement, asks it for a next hop,
\* hands a packet over, or does none of it.
ServeNetwork ==
  /\ Serving("MIP")
  /\ \E ops \in {<<>>, Message("update_in", 2), Message("lookup_in", 1),
                 Message("packets_out", 1)} :
       todo' = [todo EXCEPT !["MIP"] = ops]
  /\ UNCHANGED <<closed, sock, queue, worker>>

\* An advertisement to send, or the answer to a lookup.
receiveFrom(s) ==
  /\ sock[s] # <<>> /\ Serving("MIP")
  /\ todo' = [todo EXCEPT !["MIP"] = <<Recv(s)>>]
  /\ UNCHANGED <<closed, sock, queue, worker>>

OperateMIP ==
  /\ ~Fails("MIP") /\ Operate("MIP")
  /\ UNCHANGED <<at, closed, queue, worker>>

(***************************************************************************)
(* routing_deamon                                                          *)
(***************************************************************************)
StartRouting ==
  /\ at["routing"] = "start"
  /\ Moves("routing", "enter")
  /\ closed' = closed \ {"routing"}
  /\ worker' = [w \in Worker |-> TRUE]
  /\ UNCHANGED <<sock, todo, queue>>

InOf(w)  == IF w = "update" THEN "update_in" ELSE "lookup_in"
OutOf(w) == IF w = "update" THEN "update_out" ELSE "lookup_out"

\* A mutation: the main thread answers what it has read itself.
BugAfterwards(w) == <<Send(OutOf(w), 0)>>

\* What the main thread does with a message it has read, besides queueing it.
Afterwards(w) == <<>>

\* Whatever is read is queued for a worker; an update that changes nothing
\* is not.
receiveSock(w) ==
  /\ sock[InOf(w)] # <<>> /\ Serving("routing")
  /\ todo' = [todo EXCEPT !["routing"] = <<Recv(InOf(w))>> \o Afterwards(w)]
  /\ queue' \in {[queue EXCEPT ![w] = IF @ < MaxQueue THEN @ + 1 ELSE @]}
                \cup (IF w = "update" THEN {queue} ELSE {})
  /\ UNCHANGED <<closed, sock, worker>>

OperateRouting ==
  /\ Operate("routing")
  /\ UNCHANGED <<at, closed, queue, worker>>

\* A mutation: running is cleared after the threads were joined.
BugStopping == at["routing"] \in {"ended", "aborted"}

\* running is cleared: the workers leave their loops.
Stopping == at["routing"] \in {"join", "ended", "aborted"}

\* A mutation: a worker waits without a predicate and wakes for nothing.
BugQueued(w) == TRUE

\* What update_blocker and lookup_blocker wait for.
Queued(w) == queue[w] > 0

\* A worker takes an element of its queue: an advertisement for a neighbour, the
\* answer to a lookup, with or without a next hop.
Take(w) ==
  /\ worker[w] /\ todo[w] = <<>> /\ Queued(w) /\ ~Stopping
  /\ \E n \in IF w = "update" THEN {2} ELSE Answers :
       todo' = [todo EXCEPT ![w] = Message(OutOf(w), n)]
  /\ queue' = [queue EXCEPT ![w] = @ - 1]
  /\ UNCHANGED <<at, closed, sock, worker>>

OperateWorker(w) ==
  /\ Operate(w)
  /\ UNCHANGED <<at, closed, queue, worker>>

LeaveWorker(w) ==
  /\ worker[w] /\ todo[w] = <<>> /\ Stopping
  /\ worker' = [worker EXCEPT ![w] = FALSE]
  /\ UNCHANGED <<at, closed, sock, todo, queue>>

(***************************************************************************)
(* The end of a process                                                    *)
(***************************************************************************)
Joined(p) ==
  CASE p = "transport" -> Gone("MIP")
    [] p = "MIP"       -> Gone("routing")
    [] p = "routing"   -> \A w \in Worker : ~worker[w]

Join(p) ==
  /\ at[p] = "join" /\ Joined(p)
  /\ Ends(p, "ended")
  /\ UNCHANGED sock

\* A blocking call that SIGINT interrupts fails with an error nobody catches,
\* or goes on: sa_flags is not initialised, SA_RESTART may be set.
Interrupted(p) ==
  \/ \E t \in Threads(p) : Blocked(t)
  \/ at[p] = "join" /\ p # "routing"

\* Before it set its handler a process is killed.
Unprepared(p) == at[p] = "start" /\ (p = "transport" => at["MIP"] = "absent")

\* epoll_wait is left in any case, with an exception that the loop catches.
Signal(p) ==
  /\ p \in MaySignal /\ at[p] # "absent" /\ ~Gone(p)
  /\ \/ /\ at[p] = "wait"
        /\ Moves(p, "join")
        /\ closed' = closed \cup {p} /\ UNCHANGED <<todo, queue, worker>>
     \/ /\ at[p] # "wait"
        /\ closed' = closed \cup {p} /\ UNCHANGED <<at, todo, queue, worker>>
     \/ /\ Interrupted(p) \/ Unprepared(p)
        /\ Ends(p, "aborted")
  /\ UNCHANGED sock

Loop(p) == EnterWait(p) \/ EndBatch(p) \/ Bereave(p) \/ Join(p)

transport_deamon ==
  ForkMIP \/ StartTransport \/ ServePackets \/ ServeApplication \/ AcceptApplication

MIP_deamon ==
  StartMIP \/ SetUpMIP \/ ServeNetwork \/ OperateMIP
  \/ receiveFrom("update_out") \/ receiveFrom("lookup_out")

routing_deamon ==
  StartRouting \/ OperateRouting
  \/ \E w \in Worker : receiveSock(w) \/ Take(w) \/ OperateWorker(w) \/ LeaveWorker(w)

Next ==
  \/ transport_deamon \/ MIP_deamon \/ routing_deamon
  \/ \E p \in Process : Loop(p) \/ Signal(p)

Spec == Init /\ [][Next]_vars

\* What the threads do by themselves.
TransportStep == Loop("transport") \/ ForkMIP \/ StartTransport \/ ServePackets
MIPStep       == Loop("MIP") \/ StartMIP \/ SetUpMIP \/ OperateMIP
RoutingStep   == Loop("routing") \/ StartRouting \/ OperateRouting
WorkerStep(w) == Take(w) \/ OperateWorker(w) \/ LeaveWorker(w)

\* Every thread is scheduled and a batch of events has an end.
Fairness ==
  /\ WF_vars(TransportStep) /\ WF_vars(MIPStep) /\ WF_vars(RoutingStep)
  /\ \A w \in Worker : WF_vars(WorkerStep(w))
  /\ SF_vars(EndBatch("MIP") \/ Bereave("MIP")) /\ SF_vars(EndBatch("routing"))

FairSpec == Spec /\ Fairness

(***************************************************************************)
(* Properties                                                              *)
(***************************************************************************)
\* The types of the variables; no socket holds more than fits.
TypeOK ==
  /\ at \in [Process -> Places]
  /\ closed \subseteq Process
  /\ sock \in [Sock -> Seq(0..1)] /\ \A s \in Sock : Len(sock[s]) <= SockItems
  /\ todo \in [Thread -> Seq(Op)]
  /\ queue \in [Worker -> 0..MaxQueue]
  /\ worker \in [Worker -> BOOLEAN]

\* MIP_deamon and routing_deamon write to each other on sockets that block, and
\* an advertisement or an answer may find its socket full; but the workers write
\* them, so the main threads never both wait, each for the other.
NeverBothWait == ~(Blocked("MIP") /\ Blocked("routing"))

\* A node does not outlive its routing_deamon: the others meet the end of their
\* sockets, unless MIP_deamon waits for transport_deamon, which reads no more.
Left(p) == Gone(p) \/ at[p] = "join"

NodeGoesDown ==
  Gone("routing") ~> ((\A p \in Process : Gone(p)) \/ (Blocked("MIP") /\ Left("transport")))

\* A SIGINT that comes before the loop is forgotten and does not count.
ToldToEnd == \A p \in Process : (p \in closed /\ at[p] # "start") \/ Gone(p)

\* A thread waits for a process that reads and writes no more.
Deserted ==
  \/ Blocked("MIP") /\ (Left("transport") \/ Left("routing"))
  \/ Left("MIP") /\ \E t \in Thread \ {"MIP"} : Blocked(t)

\* Told to end, all processes end, but for those whose other side has left
\* while a message was on its way.
EndsTogether == ToldToEnd ~> ((\A p \in Process : Gone(p)) \/ Deserted)
=============================================================================
