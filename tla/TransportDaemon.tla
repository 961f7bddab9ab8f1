-------------------------- MODULE TransportDaemon --------------------------
(***************************************************************************)
(* The transport daemons of a network of nodes: each accepts applications, *)
(* keeps a ClientHandler for each of them in client_vector, gives out      *)
(* ports, hands every arriving frame to the handler that has its port, and *)
(* erases handlers that failed.  An erased handler frees its port, which   *)
(* the next application may get while frames of its former owner are       *)
(* under way.  Between two nodes lies one channel, as in Connection.       *)
(***************************************************************************)
EXTENDS ClientHandler, FiniteSets

CONSTANTS
  App,         \* applications; one that restarts is another element
  Node,        \* addresses of the nodes, positive numbers
  NodeOf,      \* the node each application runs on
  Ask,         \* the request each application makes
  MaxChunks,   \* bound: chunks an application writes
  MaxChannel,  \* bound: frames in a channel, the ones in excess are lost
  Lossy,       \* TRUE: the network loses frames
  Pace,        \* when a timer may expire: "any" or "quiet"
  MayClose     \* the applications that may close

ASSUME DaemonAssumption ==
  /\ Node \subseteq Nat \ {0} /\ IsFiniteSet(App)
  /\ NodeOf \in [App -> Node]
  /\ Ask \in [App -> [kind: {"client", "server"}, address: Nat, port: Nat]]
  /\ MaxChunks \in Nat /\ MaxChannel \in Nat
  /\ Lossy \in BOOLEAN /\ Pace \in {"any", "quiet"}
  /\ MayClose \subseteq App

VARIABLES
  accepted,  \* the applications whose connection a daemon accepted
  handler,   \* the handler of each application, kept after it failed
  sock,      \* the socket of each application
  net        \* net[m][n]: frames on their way from node m to node n

vars == <<accepted, handler, sock, net>>

Init ==
  /\ accepted = {}
  /\ handler = [a \in App |-> NewHandler]
  /\ sock = [a \in App |-> NewSock(Ask[a])]
  /\ net = [m \in Node |-> [n \in Node |-> <<>>]]

(***************************************************************************)
(* client_vector and the ports                                             *)
(***************************************************************************)
\* SIGPIPE kills the daemon with all its handlers.
Running(n) == \A a \in App : NodeOf[a] = n => handler[a].m_stage # "sigpipe"

client_vector(n) ==
  {a \in accepted : NodeOf[a] = n /\ Alive(handler[a]) /\ Running(n)}

UsedPorts(n) == {handler[a].m_source_port : a \in client_vector(n)}

Serving(a) == a \in client_vector(NodeOf[a])

\* An entry point of a's handler returned r: its frames leave for the node it
\* is bound to.  net0 is the network after the frame being handled was taken.
Does(a, r, net0) ==
  LET m == NodeOf[a]
      n == r.handler.m_dest_address
  IN  /\ handler' = [handler EXCEPT ![a] = r.handler]
      /\ sock' = [sock EXCEPT ![a] = r.sock]
      /\ net' = IF r.out = <<>> \/ n \notin Node THEN net0
                ELSE [net0 EXCEPT ![m][n] =
                       SubSeq(@ \o r.out, 1, LowerOf(Len(@) + Len(r.out), MaxChannel))]

(***************************************************************************)
(* The event loop                                                          *)
(***************************************************************************)
receiveApplicationSock(a) ==
  /\ a \notin accepted /\ Running(NodeOf[a])
  /\ accepted' = accepted \cup {a}
  /\ UNCHANGED <<handler, sock, net>>

handleClientHandlerSock(a) ==
  /\ Serving(a) /\ sock[a].event
  /\ Does(a, handleSock(handler[a], [sock[a] EXCEPT !.event = FALSE],
                        UsedPorts(NodeOf[a])), net)
  /\ UNCHANGED accepted

Quiet ==
  /\ \A m, n \in Node : net[m][n] = <<>>
  /\ \A a \in App : ~(Serving(a) /\ sock[a].event)

handleClientHandlerTimer(a) ==
  /\ Serving(a) /\ handler[a].m_timer
  /\ Pace = "quiet" => Quiet
  /\ Does(a, handleTimer(handler[a], sock[a], UsedPorts(NodeOf[a])), net)
  /\ UNCHANGED accepted

\* The handlers a daemon would pass a frame for port to: one at most, if ports
\* are distinct.
Owners(n, port) == {a \in client_vector(n) : handler[a].m_source_port = port}

receiveTransportSock(m, n) ==
  /\ net[m][n] # <<>> /\ Running(n)
  /\ LET f    == Head(net[m][n])
         net0 == [net EXCEPT ![m][n] = Tail(@)]
     IN  \/ \E a \in Owners(n, f.dest) :
              Does(a, receiveFrame(handler[a], sock[a], m, f, getSequenceNumber(f, 0)), net0)
         \/ /\ Owners(n, f.dest) = {}
            /\ net' = net0 /\ UNCHANGED <<handler, sock>>
  /\ UNCHANGED accepted

(***************************************************************************)
(* The applications and the network                                        *)
(***************************************************************************)
AppRequests(a) ==
  /\ Serving(a) /\ ~sock[a].closed /\ sock[a].request < RequestItems(Ask[a].kind)
  /\ sock' = [sock EXCEPT ![a].request = @ + 1, ![a].event = TRUE]
  /\ UNCHANGED <<accepted, handler, net>>

Written(a) == handler[a].m_total_data_loaded + Len(sock[a].in)

\* The k-th chunk application a writes.
ChunkOf(a, k) == [app |-> a, k |-> k]

AppWrites(a) ==
  /\ Serving(a) /\ ~sock[a].closed
  /\ Ask[a].kind = "client" /\ sock[a].reply = "success"
  /\ Written(a) < MaxChunks
  /\ sock' = [sock EXCEPT ![a].in = Append(@, ChunkOf(a, Written(a) + 1)),
                          ![a].event = TRUE]
  /\ UNCHANGED <<accepted, handler, net>>

AppReads(a) ==
  /\ ~sock[a].closed /\ sock[a].unread > 0
  /\ sock' = [sock EXCEPT ![a].unread = @ - 1]
  /\ UNCHANGED <<accepted, handler, net>>

AppCloses(a) ==
  /\ a \in MayClose /\ a \in accepted /\ ~sock[a].closed
  /\ sock' = [sock EXCEPT ![a].closed = TRUE, ![a].event = TRUE]
  /\ UNCHANGED <<accepted, handler, net>>

Lose(m, n) ==
  /\ Lossy /\ net[m][n] # <<>>
  /\ net' = [net EXCEPT ![m][n] = Tail(@)]
  /\ UNCHANGED <<accepted, handler, sock>>

AppStep(a) == AppRequests(a) \/ AppWrites(a) \/ AppReads(a) \/ AppCloses(a)

Next ==
  \/ \E a \in App : \/ receiveApplicationSock(a) \/ handleClientHandlerSock(a)
                    \/ handleClientHandlerTimer(a) \/ AppStep(a)
  \/ \E m, n \in Node : receiveTransportSock(m, n) \/ Lose(m, n)

Spec == Init /\ [][Next]_vars

(***************************************************************************)
(* Properties                                                              *)
(***************************************************************************)
Chunk == [app: App, k: Nat \ {0}]

\* The types of the variables.
TypeOK ==
  /\ accepted \subseteq App
  /\ handler \in [App -> HandlerType(Chunk)]
  /\ sock \in [App -> SockType(Chunk)]
  /\ net \in [Node -> [Node -> Seq(FrameType(Chunk))]]

\* Two handlers of a daemon never hold the same port: a port is given out again
\* only after its handler was erased.
PortsDistinct ==
  \A a, b \in App :
    /\ a # b /\ Serving(a) /\ Serving(b) /\ NodeOf[a] = NodeOf[b]
    /\ handler[a].m_source_port # 0
    => handler[a].m_source_port # handler[b].m_source_port

\* What a listening application was given, and what is held for it.
Taken(a) == sock[a].delivered \o handler[a].m_msg_buffer

\* A listening application gets data only from applications that sit behind the
\* address and port its handler is bound to, whoever else sends to its port.
DataFromPeerOnly ==
  \A a \in App : \A i \in 1..Len(Taken(a)) :
    LET c == Taken(a)[i].app
    IN  /\ NodeOf[c] = handler[a].m_dest_address
        /\ handler[c].m_source_port = handler[a].m_dest_port

\* README.md:20, "Two nodes can reliably transmit data between eachother": what
\* a listening application gets is the beginning of what one application wrote.
OneStream ==
  \A a \in App : Taken(a) # <<>> =>
    \A i \in 1..Len(Taken(a)) : Taken(a)[i] = ChunkOf(Taken(a)[1].app, i)
=============================================================================
