------------------------------ MODULE Network ------------------------------
(***************************************************************************)
(* Nodes that each run a MIP_deamon and a routing_deamon, and the links    *)
(* between their interfaces.  Each daemon serves one event at a time; the  *)
(* update thread's walk and the lookup thread take steps between.  What    *)
(* the threads of one routing_deamon do to each other in finer steps is    *)
(* the matter of RoutingNode.                                              *)
(***************************************************************************)
EXTENDS RoutingDeamon, FiniteSets, SequencesExt

CONSTANTS
  Node,
  Links,         \* sets of interfaces that hear each other
  NodeOf,        \* the node of each interface
  TTL,
  Down,          \* the links that may fail and come back
  MaxFailures,   \* bound of the runs: how often they fail
  MaxRepairs,    \* bound of the runs: how often they come back
  Sends,         \* the packets applications send: [node, dest, msg]
  Overlap,       \* bound: how much may be under way when a timer expires
  Pace           \* what waits for the network to come to rest: nothing ("prompt"),
                 \* starts, failures and repairs ("packets"), and in "serial" the
                 \* nodes with work take turns besides

M == INSTANCE MIPDeamon

ASSUME NetworkAssumption ==
  /\ IsFiniteSet(MIPAddress) /\ NodeOf \in [MIPAddress -> Node]
  /\ UNION Links \subseteq MIPAddress
  /\ Down \subseteq Links /\ MaxFailures \in Nat /\ MaxRepairs \in Nat
  /\ Sends \subseteq [node : Node, dest : MIPAddress, msg : Seq(Nat)]
  /\ TTL \in Nat /\ Overlap \in Nat
  /\ Pace \in {"prompt", "packets", "serial"}

VARIABLES
  mip,         \* the MIP_deamon of each node
  daemon,      \* its routing_deamon
  started,     \* the nodes that run
  update_in,   \* update_sock, towards routing_deamon
  update_out,  \* update_sock, towards MIP_deamon
  lookup_in,   \* lookup_sock, towards routing_deamon
  lookup_out,  \* lookup_sock, towards MIP_deamon
  wire,        \* the frames on their way to each interface, from each other
  up,          \* the links that work
  failures,    \* how often links failed
  repairs,     \* how often they came back
  unsent,      \* packets applications have not sent
  delivered    \* packets handed to each transport_deamon

vars == <<mip, daemon, started, update_in, update_out, lookup_in, lookup_out,
          wire, up, failures, repairs, unsent, delivered>>

Interfaces(n) == {a \in MIPAddress : NodeOf[a] = n}
Socks(n)      == SetToSeq(Interfaces(n))
Hears(a, b)   == a # b /\ \E l \in Links : {a, b} \subseteq l
HearsNow(a, b) == a # b /\ \E l \in up : {a, b} \subseteq l

Init ==
  /\ mip = [n \in Node |-> M!NewMIP(Interfaces(n))]
  /\ daemon = [n \in Node |-> NewDeamon]
  /\ started = {}
  /\ update_in = [n \in Node |-> <<>>] /\ update_out = [n \in Node |-> <<>>]
  /\ lookup_in = [n \in Node |-> <<>>] /\ lookup_out = [n \in Node |-> <<>>]
  /\ wire = [p \in {q \in MIPAddress \X MIPAddress : Hears(q[1], q[2])} |-> <<>>]
  /\ up = Links /\ failures = 0 /\ repairs = 0
  /\ unsent = Sends
  /\ delivered = [n \in Node |-> {}]

(***************************************************************************)
(* The network at rest: nothing is under way, no thread has work.          *)
(***************************************************************************)
HasWork(n) ==
  \/ update_in[n] # <<>> \/ update_out[n] # <<>>
  \/ lookup_in[n] # <<>> \/ lookup_out[n] # <<>>
  \/ daemon[n].update_queue # <<>> \/ daemon[n].lookup_queue # <<>>
  \/ Walking(daemon[n])
  \/ \E p \in DOMAIN wire : NodeOf[p[2]] = n /\ wire[p] # <<>>

Rest == \A n \in Node : ~HasWork(n)

\* Whether nodes start, links fail and links come back.
MayChange == Pace = "prompt" \/ Rest

\* The messages between daemons, announcements to make and frames that are under way.
Backlog ==
  MapThenSumSet(LAMBDA n : Len(update_in[n]) + Len(update_out[n])
                           + Len(daemon[n].update_queue), Node)
  + MapThenSumSet(LAMBDA p : Len(wire[p]), DOMAIN wire)

\* Unless the network is at rest an answer may be later than the time-out, which to
\* the node that waits for it is a short outage: failures and repairs count it.
TimeOut ==
  \/ Rest /\ UNCHANGED <<failures, repairs>>
  \/ /\ ~Rest /\ Backlog <= Overlap
     /\ failures < MaxFailures /\ failures' = failures + 1
     /\ repairs < MaxRepairs /\ repairs' = repairs + 1

\* With "serial" one node at a time works; with "packets" so from the first packet,
\* which is sent at rest, repair or early time-out on.
Sending == unsent # Sends
MaySend == Pace = "packets" /\ ~Sending => Rest
OneAtATime == Pace = "serial" \/ (Pace = "packets" /\ (Sending \/ repairs > 0))
MayServe(n) == OneAtATime /\ ~Rest => n = CHOOSE m \in Node : HasWork(m)

\* What of out travels from p[1] to p[2]: what is for that interface, or for
\* all, if the link works.
For(out, p) ==
  {o \in ToSet(out) : o.sock = p[1] /\ (o.to = {} \/ p[2] \in o.to) /\ HearsNow(p[1], p[2])}
Carried(out, p) ==
  LET sent == M!Keep(out, For(out, p))
  IN  [i \in DOMAIN sent |-> sent[i].frame]

\* MIP_deamon of node n did effect e, having read a frame of the pair taken, if any.
Does(n, e, taken) ==
  /\ mip' = [mip EXCEPT ![n] = e.mip]
  /\ update_in' = [update_in EXCEPT ![n] = @ \o e.update]
  /\ lookup_in' = [lookup_in EXCEPT ![n] = @ \o e.lookup]
  /\ delivered' = [delivered EXCEPT ![n] = @ \cup {e.transport[i] : i \in DOMAIN e.transport}]
  /\ wire' = [p \in DOMAIN wire |->
                (IF p = taken THEN Tail(wire[p]) ELSE wire[p]) \o Carried(e.out, p)]

NothingTaken == <<>>

(***************************************************************************)
(* MIP_deamon.                                                             *)
(***************************************************************************)
Start(n) ==
  /\ n \notin started /\ MayChange
  /\ started' = started \cup {n}
  /\ Does(n, M!startUp(mip[n], Socks(n)), NothingTaken)
  /\ UNCHANGED <<daemon, update_out, lookup_out, up, failures, repairs, unsent>>

Timer(n) ==
  /\ n \in started /\ TimeOut
  /\ Does(n, M!handleTimer(mip[n], Socks(n)), NothingTaken)
  /\ UNCHANGED <<daemon, started, update_out, lookup_out, up, unsent>>

ReceiveRawSock(n, p) ==
  /\ n \in started /\ NodeOf[p[2]] = n /\ wire[p] # <<>>
  /\ Does(n, M!receiveRawSock(mip[n], p[2], Head(wire[p])), p)
  /\ UNCHANGED <<daemon, started, update_out, lookup_out, up, failures, repairs, unsent>>

ReceiveTransportSock(n, s) ==
  /\ n \in started /\ s \in unsent /\ s.node = n /\ MaySend
  /\ unsent' = unsent \ {s}
  /\ Does(n, M!receiveTransportSock(mip[n], M!Packet(s.dest, s.msg)), NothingTaken)
  /\ UNCHANGED <<daemon, started, update_out, lookup_out, up, failures, repairs>>

ReceiveAdvertSock(n) ==
  /\ update_out[n] # <<>>
  /\ LET m == Head(update_out[n])
     IN  Does(n, M!receiveUpdateSock(mip[n], m.dest, m.advert), NothingTaken)
  /\ update_out' = [update_out EXCEPT ![n] = Tail(@)]
  /\ UNCHANGED <<daemon, started, lookup_out, up, failures, repairs, unsent>>

ReceiveAnswerSock(n) ==
  /\ lookup_out[n] # <<>>
  /\ Does(n, M!receiveLookupSock(mip[n], Head(lookup_out[n]).via), NothingTaken)
  /\ lookup_out' = [lookup_out EXCEPT ![n] = Tail(@)]
  /\ UNCHANGED <<daemon, started, update_out, up, failures, repairs, unsent>>

(***************************************************************************)
(* routing_deamon: the main thread, the update thread, the lookup thread.  *)
(***************************************************************************)
ReadUpdate(n) ==
  /\ update_in[n] # <<>>
  /\ update_in' = [update_in EXCEPT ![n] = Tail(@)]
  /\ daemon' = [daemon EXCEPT ![n] = receiveUpdateSock(@, Head(update_in[n]))]
  /\ UNCHANGED <<mip, started, update_out, lookup_in, lookup_out, wire, up, failures,
                 repairs, unsent, delivered>>

ReadLookup(n) ==
  /\ lookup_in[n] # <<>>
  /\ lookup_in' = [lookup_in EXCEPT ![n] = Tail(@)]
  /\ daemon' = [daemon EXCEPT ![n] = receiveLookupSock(@, Head(lookup_in[n]))]
  /\ UNCHANGED <<mip, started, update_in, update_out, lookup_out, wire, up, failures,
                 repairs, unsent, delivered>>

StartWalk(n) ==
  /\ ~Walking(daemon[n]) /\ daemon[n].update_queue # <<>>
  /\ daemon' = [daemon EXCEPT ![n] = popUpdate(@)]
  /\ UNCHANGED <<mip, started, update_in, update_out, lookup_in, lookup_out, wire, up,
                 failures, repairs, unsent, delivered>>

Walk(n) ==
  /\ Walking(daemon[n])
  /\ \E dest \in Targets(daemon[n]) :
       update_out' = [update_out EXCEPT ![n] = @ \o Advertised(daemon[n], dest)]
  /\ daemon' = [daemon EXCEPT ![n] = stepWalk(@)]
  /\ UNCHANGED <<mip, started, update_in, lookup_in, lookup_out, wire, up, failures,
                 repairs, unsent, delivered>>

\* The answer is the next hop alone; whose it is is kept for LookupsPaired.
AnswerLookup(n) ==
  /\ daemon[n].lookup_queue # <<>>
  /\ lookup_out' = [lookup_out EXCEPT ![n] =
       Append(@, [about |-> Head(daemon[n].lookup_queue), via |-> Answer(daemon[n])])]
  /\ daemon' = [daemon EXCEPT ![n] = popLookup(@)]
  /\ UNCHANGED <<mip, started, update_in, update_out, lookup_in, wire, up, failures,
                 repairs, unsent, delivered>>

(***************************************************************************)
(* The links.                                                              *)
(***************************************************************************)
Fail(l) ==
  /\ l \in Down \cap up /\ failures < MaxFailures /\ MayChange
  /\ up' = up \ {l} /\ failures' = failures + 1
  /\ UNCHANGED <<mip, daemon, started, update_in, update_out, lookup_in, lookup_out, wire,
                 repairs, unsent, delivered>>

Repair(l) ==
  /\ l \in Down \ up /\ repairs < MaxRepairs /\ MayChange
  /\ up' = up \cup {l} /\ repairs' = repairs + 1
  /\ UNCHANGED <<mip, daemon, started, update_in, update_out, lookup_in, lookup_out, wire,
                 failures, unsent, delivered>>

\* A frame on a link that failed, or for a node that does not run, is lost.
Lose(n, p) ==
  /\ NodeOf[p[2]] = n /\ wire[p] # <<>>
  /\ ~HearsNow(p[1], p[2]) \/ n \notin started
  /\ wire' = [wire EXCEPT ![p] = Tail(@)]
  /\ UNCHANGED <<mip, daemon, started, update_in, update_out, lookup_in, lookup_out, up,
                 failures, repairs, unsent, delivered>>

Serve ==
  \E n \in Node :
    /\ MayServe(n)
    /\ \/ ReceiveAdvertSock(n) \/ ReceiveAnswerSock(n)
       \/ ReadUpdate(n) \/ ReadLookup(n)
       \/ StartWalk(n) \/ Walk(n) \/ AnswerLookup(n)
       \/ \E p \in DOMAIN wire : ReceiveRawSock(n, p) \/ Lose(n, p)

Disturb ==
  \/ \E n \in Node : Start(n) \/ Timer(n) \/ \E s \in unsent : ReceiveTransportSock(n, s)
  \/ \E l \in Down : Fail(l) \/ Repair(l)

Next == Serve \/ Disturb

Spec == Init /\ [][Next]_vars

\* The daemons serve what arrives and their threads run on.
FairSpec == Spec /\ WF_vars(Serve)

(***************************************************************************)
(* Properties                                                              *)
(***************************************************************************)
Table(n) == daemon[n].distance_vector_table

WellFormed(f) ==
  /\ f.tra \in {"A", "ZERO", "R", "T"} /\ f.dest \in MIPAddress /\ f.source \in MIPAddress
  /\ f.ttl \in 0..TTL
  /\ f.tra = "R" => f.msg \in Adverts

\* The types; what an interface hears but for the packets that were forwarded to
\* it comes from the other end of its link.
TypeOK ==
  /\ \A n \in Node :
       /\ Table(n) \in Tables
       /\ \A p \in ToSet(mip[n].arp_pair_vec) :
            p.sock \in Interfaces(n) /\ Hears(p.mip, p.sock) /\ p.reply \in BOOLEAN
       /\ \A i \in DOMAIN mip[n].lookup_queue : WellFormed(mip[n].lookup_queue[i].frame)
       /\ \A m \in ToSet(update_out[n]) : m.dest \in MIPAddress /\ m.advert \in Adverts
  /\ \A p \in DOMAIN wire : \A i \in DOMAIN wire[p] :
       WellFormed(wire[p][i]) /\ (wire[p][i].tra # "T" => wire[p][i].source = p[1])
  /\ started \subseteq Node /\ up \subseteq Links /\ unsent \subseteq Sends

\* MIP_deamon and routing_deamon, which learn of neighbours in turn, agree on
\* them whenever no update message is under way, and neither lists one twice.
NeighboursAgree ==
  \A n \in Node : update_in[n] = <<>> =>
    LET pairs == mip[n].arp_pair_vec
    IN  /\ Neighbours(daemon[n]) = {p.mip : p \in ToSet(pairs)}
        /\ Cardinality(Neighbours(daemon[n])) = Len(pairs)
        /\ Len(daemon[n].neighbour_mip_vec) = Len(pairs)

\* Node m is within k links of n, over links that work.
Near(n) == {m \in Node : \E a \in Interfaces(n), b \in Interfaces(m) : HearsNow(a, b)}
Reach(n) ==
  LET ball[k \in 0..Cardinality(Node)] ==
        IF k = 0 THEN {n} ELSE ball[k - 1] \cup UNION {Near(m) : m \in ball[k - 1]}
  IN  ball

\* Both ends of each working link know each other, and of no other link.
Settled ==
  /\ Rest /\ started = Node
  /\ \A n \in Node : {b \in MIPAddress : M!Known(mip[n], b)} =
                     {b \in MIPAddress : \E a \in Interfaces(n) : HearsNow(a, b)}

Connected(n, a) == NodeOf[a] \in Reach(n)[Cardinality(Node)]

Distance(n, a) ==
  LET ball == Reach(n)
  IN  CHOOSE k \in DOMAIN ball :
        NodeOf[a] \in ball[k] /\ \A j \in 0..k - 1 : NodeOf[a] \notin ball[j]

Cheap(n, a) == a \in DOMAIN Table(n) /\ Table(n)[a].cost < INF_COST

\* At rest every node has a way to every node there is a way to.
EveryNodeReachable ==
  Settled => \A n \in Node, a \in MIPAddress : Connected(n, a) => Cheap(n, a)

\* At rest a node that went offline costs infinity.
OfflineDetected ==
  Settled => \A n \in Node, a \in MIPAddress : ~Connected(n, a) => ~Cheap(n, a)

\* At rest every way is a shortest one, and what cannot be reached costs
\* infinity; as long as no link came back, for an outage that ends before the
\* ARP pairs time out loses advertisements for good.
ShortestPaths ==
  repairs = 0 =>
  /\ EveryNodeReachable /\ OfflineDetected
  /\ Settled => \A n \in Node, a \in MIPAddress :
       Connected(n, a) => Table(n)[a].cost = Distance(n, a)

\* The nodes n and m with a walk of k links from n to m, over links that work or not.
Beside(n, m) == \E a \in Interfaces(n), b \in Interfaces(m) : Hears(a, b)
Walks[k \in 0..INF_COST] ==
  {p \in Node \X Node : IF k = 0 THEN p[1] = p[2]
                        ELSE \E m \in Node : Beside(p[1], m) /\ <<m, p[2]>> \in Walks[k - 1]}

\* However stale an advertisement is, and whoever was lost meanwhile, no table lists
\* a way there are no links for: the next hop is at the other end of a link of the
\* node, and what is left of the cost is the length of a walk from there.
WaysExist ==
  \A n \in Node : \A to \in DOMAIN Table(n) :
    LET c == Table(n)[to]
    IN  /\ c.cost = 0 => NodeOf[to] = n
        /\ c.cost \in 1..INF_COST - 1 =>
             /\ \E a \in Interfaces(n) : Hears(c.via, a)
             /\ <<NodeOf[c.via], NodeOf[to]>> \in Walks[c.cost - 1]

\* No interface is on two links, and no node is on a link twice.
PlainLinks ==
  /\ \A l \in Links : \A a, b \in l : NodeOf[a] = NodeOf[b] => a = b
  /\ \A l, k \in Links : l # k => l \cap k = {}

\* As long as no link failed and no time-out came before an answer, whatever order
\* advertisements crossed in and whichever were folded into one or left a neighbour
\* out: once the network is at rest no way costs more than the shortest walk to the
\* destination.
WaysShort ==
  failures = 0 /\ PlainLinks /\ Rest /\ started = Node =>
    \A n \in Node, to \in MIPAddress, k \in 0..INF_COST - 1 :
      <<n, NodeOf[to]>> \in Walks[k] => to \in DOMAIN Table(n) /\ Table(n)[to].cost <= k

\* The exchange of advertisements comes to an end.
ComesToRest == []<>Rest

\* Each lookup of a node is for the frame that is as long in its queue.
LookupsPaired ==
  \A n \in Node :
    LET asked == [i \in DOMAIN lookup_out[n] |-> lookup_out[n][i].about]
                 \o daemon[n].lookup_queue \o lookup_in[n]
    IN  asked = [i \in DOMAIN mip[n].lookup_queue |-> mip[n].lookup_queue[i].frame.dest]

\* Whatever becomes of the ways meanwhile, a packet is handed to no other node
\* than the one it was sent to, with an address its sender can be answered at;
\* forwarding nodes leave both alone.
DeliveredRightly ==
  \A n \in Node : \A packet \in delivered[n] :
    \E s \in Sends :
      /\ s.msg = packet.msg /\ NodeOf[s.dest] = n
      /\ NodeOf[packet.mip] = s.node
=============================================================================
