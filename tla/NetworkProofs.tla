---------------------------- MODULE NetworkProofs ----------------------------
(***************************************************************************)
(* Theorems about a network of nodes, for every topology, every packet     *)
(* sent and every failure: the types, that MIP_deamon and routing_deamon   *)
(* agree on the neighbours, that answers and lookups are paired, that      *)
(* packets go where they were sent, that tables list ways there are, and   *)
(* shortest ones once the network is at rest, if no link failed.           *)
(***************************************************************************)
EXTENDS Network, RoutingDeamonProofs, FiniteSetTheorems, SequenceTheorems

(***************************************************************************)
(* The inductive invariant.                                                *)
(***************************************************************************)
\* Frame f carries a packet that an application sends, under an address of its node.
Meant(f) ==
  \E s \in Sends : s.msg = f.msg /\ s.dest = f.dest /\ NodeOf[f.source] = s.node

\* So does a frame that this node is to send first, but for the address.
Own(n, f) == \E s \in Sends : s.node = n /\ s.msg = f.msg /\ s.dest = f.dest

Frame ==
  [tra : {"A", "ZERO", "R", "T"}, dest : MIPAddress, source : MIPAddress, ttl : 0..TTL,
   msg : Adverts \cup Seq(Nat)]

\* The advertisements that list no other ways than there are, from node n on.
AdvertsOf(n) ==
  {x \in Adverts : \A to \in DOMAIN x : x[to] < INF_COST => <<n, NodeOf[to]>> \in Walks[x[to]]}

\* What interface a puts on its links.
FramesOf(a) ==
  {f \in Frame : /\ f.tra = "R" => f.msg \in AdvertsOf(NodeOf[a])
                 /\ IF f.tra = "T" THEN Meant(f) ELSE f.source = a}

ARPPair(n) ==
  {p \in [mip : MIPAddress, reply : BOOLEAN, sock : Interfaces(n)] : Hears(p.mip, p.sock)}

\* The frames in lookup_queue of node n.
Waiting(n) ==
  {w \in [sourced : BOOLEAN, frame : Frame] :
     /\ w.frame.tra = "T"
     /\ IF w.sourced THEN Meant(w.frame) ELSE Own(n, w.frame)}

\* A list of pairs with an address each of its own.
Apart(pairs) == \A i, j \in DOMAIN pairs : i # j => pairs[i].mip # pairs[j].mip

MIPType(n) ==
  {m \in [raw_sock_vec : {Interfaces(n)}, arp_pair_vec : Seq(ARPPair(n)),
          lookup_queue : Seq(Waiting(n))] : Apart(m.arp_pair_vec)}

Handed(n, packet) ==
  \E s \in Sends : s.msg = packet.msg /\ NodeOf[s.dest] = n /\ NodeOf[packet.mip] = s.node

ToTell(n) == [dest : MIPAddress, advert : AdvertsOf(n)]
Answered  == [about : MIPAddress, via : Seq(MIPAddress)]

DaemonOK(d) ==
  /\ d \in DeamonType /\ d.walk.next >= 1 /\ StorageOK(d)
  /\ NoTwice(d.neighbour_mip_vec)

\* The neighbours of a MIP_deamon.
Partners(m) == {m.arp_pair_vec[i].mip : i \in DOMAIN m.arp_pair_vec}

\* Who knows S and reads the messages q knows T.
Path(g, S, q, T) ==
  /\ g \in [0..Len(q) -> SUBSET MIPAddress] /\ g[0] = S /\ g[Len(q)] = T
  /\ \A i \in 1..Len(q) : g[i] = Learnt(g[i - 1], q[i])
Leads(S, q, T) == \E g : Path(g, S, q, T)

\* b is at the other end of a link of node n.
Linked(n, b) == \E a \in Interfaces(n) : Hears(b, a)

\* What MIP_deamon of node n tells its routing_deamon.
News(n) ==
  {u \in Update : /\ u.option = "LOCAL_MIP" => NodeOf[u.mip] = n
                  /\ u.option \in {"ARP_DISCOVERY", "ADVERTISEMENT"} => Linked(n, u.mip)
                  /\ u.option = "ADVERTISEMENT" => u.advert \in AdvertsOf(NodeOf[u.mip])}

\* There is the way that column c of a table of node n lists.
WayOK(n, to, c) ==
  /\ c.cost = 0 => NodeOf[to] = n
  /\ c.cost \in 1..INF_COST - 1 =>
       Linked(n, c.via) /\ <<NodeOf[c.via], NodeOf[to]>> \in Walks[c.cost - 1]
WaysOK(n, t) == \A to \in DOMAIN t : WayOK(n, to, t[to])

\* What the lookups and their answers are about.
Dests(q)  == [i \in DOMAIN q |-> q[i].frame.dest]
Abouts(q) == [i \in DOMAIN q |-> q[i].about]

\* MIP_deamon m, routing_deamon d, what is between them, and the packets handed over.
NodeOK(n, m, d, ui, uo, li, lo, handed) ==
  /\ m \in MIPType(n) /\ DaemonOK(d) /\ WaysOK(n, d.distance_vector_table)
  /\ ui \in Seq(News(n)) /\ uo \in Seq(ToTell(n))
  /\ li \in Seq(MIPAddress) /\ lo \in Seq(Answered)
  /\ \A packet \in handed : Handed(n, packet)
  /\ Leads(Neighbours(d), ui, Partners(m))
  /\ Abouts(lo) \o d.lookup_queue \o li = Dests(m.lookup_queue)

Wires == {q \in MIPAddress \X MIPAddress : Hears(q[1], q[2])}

Domains ==
  /\ DOMAIN mip = Node /\ DOMAIN daemon = Node /\ DOMAIN delivered = Node
  /\ DOMAIN update_in = Node /\ DOMAIN update_out = Node
  /\ DOMAIN lookup_in = Node /\ DOMAIN lookup_out = Node /\ DOMAIN wire = Wires

NetInv ==
  /\ Domains
  /\ \A n \in Node : NodeOK(n, mip[n], daemon[n], update_in[n], update_out[n],
                            lookup_in[n], lookup_out[n], delivered[n])
  /\ \A p \in Wires : wire[p] \in Seq(FramesOf(p[1]))
  /\ started \subseteq Node /\ up \subseteq Links /\ unsent \subseteq Sends

(***************************************************************************)
(* The ways there are.                                                     *)
(***************************************************************************)
\* The walks of k links, if f gives the shorter ones.
WalksOf(f, k) ==
  {p \in Node \X Node : IF k = 0 THEN p[1] = p[2]
                        ELSE \E m \in Node : Beside(p[1], m) /\ <<m, p[2]>> \in f[k - 1]}

\* The recursion is defined: there is such a function.
LEMMA WalksDefined ==
  \E f : f = [k \in 0..INF_COST |-> WalksOf(f, k)]
<1> DEFINE T == {m \in Nat : ~ \E f : f = [k \in 0..m |-> WalksOf(f, k)]}
<1>1. ASSUME T # {} PROVE FALSE
  <2>1. T \subseteq Nat
    OBVIOUS
  <2> HIDE DEF T
  <2>2. PICK m \in T : \A k \in T : m <= k
    BY <1>1, <2>1, LeastNumber
  <2>3. m \in Nat /\ ~ \E f : f = [k \in 0..m |-> WalksOf(f, k)]
    BY <2>2 DEF T
  <2>4. CASE m = 0
    <3> DEFINE same == {p \in Node \X Node : p[1] = p[2]}
               g == [k \in 0..m |-> same]
    <3>1. \A k \in 0..m : WalksOf(g, k) = same
      BY <2>4 DEF WalksOf
    <3>2. g = [k \in 0..m |-> WalksOf(g, k)]
      <4> HIDE DEF same
      <4> QED BY <3>1
    <3> QED BY <2>3, <3>2
  <2>5. CASE m # 0
    <3>1. m - 1 \in Nat /\ m - 1 \notin T
      BY <2>2, <2>3, <2>5
    <3>2. PICK f : f = [k \in 0..m - 1 |-> WalksOf(f, k)]
      BY <3>1 DEF T
    <3> DEFINE g == [k \in 0..m |-> IF k = m THEN WalksOf(f, m) ELSE f[k]]
    <3>3. \A k \in 0..m : WalksOf(g, k) = WalksOf(f, k)
      <4> SUFFICES ASSUME NEW k \in 0..m PROVE WalksOf(g, k) = WalksOf(f, k)
        OBVIOUS
      <4>1. CASE k = 0
        BY <4>1 DEF WalksOf
      <4>2. CASE k # 0
        <5>1. k - 1 \in 0..m /\ k - 1 # m
          BY <2>3, <4>2
        <5>2. g[k - 1] = f[k - 1]
          BY <5>1
        <5> HIDE DEF g
        <5> QED BY <5>2 DEF WalksOf
      <4> QED BY <4>1, <4>2
    <3>4. \A k \in 0..m : g[k] = WalksOf(f, k)
      <4> SUFFICES ASSUME NEW k \in 0..m PROVE g[k] = WalksOf(f, k)
        OBVIOUS
      <4>1. CASE k = m
        BY <4>1
      <4>2. CASE k # m
        <5>1. k \in 0..m - 1
          BY <2>3, <4>2
        <5> QED BY <3>2, <4>2, <5>1
      <4> QED BY <4>1, <4>2
    <3>5. g = [k \in 0..m |-> WalksOf(g, k)]
      BY <3>3, <3>4
    <3> QED BY <2>3, <3>5
  <2> QED BY <2>4, <2>5
<1>2. INF_COST \in Nat /\ INF_COST \notin T
  BY <1>1, TableAssumption
<1> QED BY <1>2

\* Walks are made longer at their begin.
LEMMA WalksAre ==
  /\ \A n \in Node : <<n, n>> \in Walks[0]
  /\ \A k \in 1..INF_COST : \A n, m, o \in Node :
       Beside(n, m) /\ <<m, o>> \in Walks[k - 1] => <<n, o>> \in Walks[k]
<1>1. Walks = [k \in 0..INF_COST |-> WalksOf(Walks, k)]
  <2>1. Walks = CHOOSE f : f = [k \in 0..INF_COST |-> WalksOf(f, k)]
    BY DEF Walks, WalksOf
  <2> QED BY <2>1, WalksDefined
<1> DEFINE W == Walks
<1> HIDE DEF W
<1>2. \A k \in 0..INF_COST : W[k] = WalksOf(W, k)
  BY <1>1 DEF W
<1>3. INF_COST \in Nat
  BY TableAssumption
<1>4. ASSUME NEW n \in Node PROVE <<n, n>> \in W[0]
  BY <1>2, <1>3 DEF WalksOf
<1>5. ASSUME NEW k \in 1..INF_COST, NEW n \in Node, NEW m \in Node, NEW o \in Node,
             Beside(n, m), <<m, o>> \in W[k - 1]
      PROVE  <<n, o>> \in W[k]
  <2>1. k \in 0..INF_COST /\ k # 0
    BY <1>3
  <2>2. W[k] = {p \in Node \X Node : \E q \in Node : Beside(p[1], q) /\ <<q, p[2]>> \in W[k - 1]}
    BY <1>2, <2>1 DEF WalksOf
  <2> QED BY <1>5, <2>2
<1> QED BY <1>4, <1>5 DEF W

\* A way through the other end of a link is a hop longer.
LEMMA WayOn ==
  ASSUME NEW n \in Node, NEW b \in MIPAddress, Linked(n, b), NEW to \in MIPAddress,
         NEW k \in 1..INF_COST, <<NodeOf[b], NodeOf[to]>> \in Walks[k - 1]
  PROVE  <<n, NodeOf[to]>> \in Walks[k]
<1>1. NodeOf[b] \in Node /\ NodeOf[to] \in Node
  BY NetworkAssumption
<1>2. Beside(n, NodeOf[b])
  <2>1. b \in Interfaces(NodeOf[b])
    BY DEF Interfaces
  <2>2. PICK a \in Interfaces(n) : Hears(b, a)
    BY DEF Linked
  <2>3. Hears(a, b)
    BY <2>2 DEF Hears
  <2> QED BY <2>1, <2>2, <2>3 DEF Beside
<1> QED BY <1>1, <1>2, WalksAre

\* What a node advertises of a table that lists no other ways than there are.
LEMMA PackWays ==
  ASSUME NEW n \in Node, NEW t \in Tables, WaysOK(n, t), NEW dest
  PROVE  packAdvertisment(t, dest) \in AdvertsOf(n)
<1> DEFINE x == packAdvertisment(t, dest)
<1>1. x \in Adverts
  BY PackOK
<1>2. ASSUME NEW to \in DOMAIN x, x[to] < INF_COST
      PROVE  <<n, NodeOf[to]>> \in Walks[x[to]]
  <2> DEFINE c == t[to]
  <2>1. to \in DOMAIN t /\ x[to] = c.cost
    BY DEF packAdvertisment
  <2>2. c \in Column /\ to \in MIPAddress
    BY <2>1, TableShape
  <2>3. WayOK(n, to, c)
    BY <2>1 DEF WaysOK
  <2> HIDE DEF c, x
  <2>4. c.cost \in Nat /\ c.via \in MIPAddress /\ INF_COST \in Nat
    BY <2>2, TableAssumption DEF Column, Cost
  <2>5. CASE c.cost = 0
    BY <2>1, <2>3, <2>5, WalksAre DEF WayOK
  <2>6. CASE c.cost # 0
    <3>1. c.cost \in 1..INF_COST - 1 /\ c.cost \in 1..INF_COST
      BY <1>2, <2>1, <2>4, <2>6
    <3>2. Linked(n, c.via) /\ <<NodeOf[c.via], NodeOf[to]>> \in Walks[c.cost - 1]
      BY <2>3, <3>1 DEF WayOK
    <3> QED BY <2>1, <2>2, <2>4, <3>1, <3>2, WayOn
  <2> QED BY <2>5, <2>6
<1> QED BY <1>1, <1>2 DEF AdvertsOf

\* A table with the news in it lists no other ways than there are either.
LEMMA NewTableWays ==
  ASSUME NEW n \in Node, NEW t \in Tables, WaysOK(n, t), NEW msg \in News(n)
  PROVE  WaysOK(n, NewTable(t, msg))
<1> DEFINE x == msg.mip
<1>1. msg \in Update /\ x \in MIPAddress
  BY UpdateShape DEF News
<1>2. INF_COST \in Nat /\ INF_COST > 1 /\ HOP_COST = 1
  BY TableAssumption DEF HOP_COST
<1>3. \A to \in DOMAIN t : to \in MIPAddress /\ t[to] \in Column /\ WayOK(n, to, t[to])
  BY TableShape DEF WaysOK
<1>4. CASE msg.option = "LOCAL_MIP"
  <2> DEFINE c == [via |-> x, cost |-> 0]
             u == addLocalMip(t, x)
  <2>1. NewTable(t, msg) = u /\ NodeOf[x] = n
    BY <1>4 DEF NewTable, News
  <2>2. WayOK(n, x, c)
    BY <1>2, <2>1 DEF WayOK
  <2>3. \A to \in DOMAIN u : WayOK(n, to, u[to])
    BY <1>3, <2>2 DEF addLocalMip
  <2> QED BY <2>1, <2>3 DEF WaysOK
<1>5. CASE msg.option = "ARP_DISCOVERY"
  <2> DEFINE c == [via |-> x, cost |-> HOP_COST]
             u == addArpDiscovery(t, x)
  <2>1. NewTable(t, msg) = u /\ Linked(n, x)
    BY <1>5 DEF NewTable, News
  <2>2. <<NodeOf[x], NodeOf[x]>> \in Walks[0]
    BY <1>1, WalksAre, NetworkAssumption
  <2>3. WayOK(n, x, c)
    BY <1>2, <2>1, <2>2 DEF WayOK
  <2>4. \A to \in DOMAIN u : WayOK(n, to, u[to])
    BY <1>3, <2>3 DEF addArpDiscovery
  <2> QED BY <2>1, <2>4 DEF WaysOK
<1>6. CASE msg.option = "ARP_LOSTCONNECTION"
  <2> DEFINE u == setViaInfinity(t, x)
  <2>1. NewTable(t, msg) = u
    BY <1>6 DEF NewTable
  <2>2. ASSUME NEW to \in DOMAIN t PROVE WayOK(n, to, [t[to] EXCEPT !.cost = INF_COST])
    <3>1. [t[to] EXCEPT !.cost = INF_COST].cost = INF_COST
      BY <1>3 DEF Column
    <3> QED BY <1>2, <3>1 DEF WayOK
  <2>3. \A to \in DOMAIN u : WayOK(n, to, u[to])
    BY <1>3, <2>2 DEF setViaInfinity
  <2> QED BY <2>1, <2>3 DEF WaysOK
<1>7. CASE msg.option = "ADVERTISEMENT"
  <2> DEFINE a == msg.advert
             u == update(t, x, a)
  <2>1. NewTable(t, msg) = u /\ Linked(n, x) /\ a \in AdvertsOf(NodeOf[x])
    BY <1>7 DEF NewTable, News
  <2>2. a \in Adverts /\ \A to \in DOMAIN a : to \in MIPAddress /\ a[to] \in Cost
    BY <2>1, AdvertShape DEF AdvertsOf
  <2>3. ASSUME NEW to \in DOMAIN a
        PROVE  WayOK(n, to, [via |-> x, cost |-> Through(a, to)])
    <3> DEFINE k == Through(a, to)
    <3>1. k = IF a[to] < INF_COST THEN a[to] + 1 ELSE INF_COST
      BY <1>2 DEF Through
    <3>2. k # 0
      BY <1>2, <2>2, <3>1 DEF Cost
    <3>3. ASSUME k \in 1..INF_COST - 1 PROVE <<NodeOf[x], NodeOf[to]>> \in Walks[k - 1]
      <4>1. a[to] < INF_COST /\ k - 1 = a[to]
        BY <1>2, <2>2, <3>1, <3>3 DEF Cost
      <4> QED BY <2>1, <4>1 DEF AdvertsOf
    <3> HIDE DEF k
    <3> QED BY <2>1, <3>2, <3>3 DEF WayOK, k
  <2>4. \A to \in DOMAIN u : WayOK(n, to, u[to])
    <3>1. \A to \in Changed(t, x, a) : to \in DOMAIN a
      BY DEF Changed
    <3>2. \A to \in DOMAIN a : to \in Changed(t, x, a) \/ to \in DOMAIN t
      BY DEF Changed
    <3> QED BY <1>3, <2>3, <3>1, <3>2 DEF update
  <2> QED BY <2>1, <2>4 DEF WaysOK
<1> QED BY <1>1, <1>4, <1>5, <1>6, <1>7, UpdateShape

(***************************************************************************)
(* What is kept of a sequence.                                             *)
(***************************************************************************)
\* g gives what is kept of each of the first n items.
Kept(g, q, S, n) ==
  g = [i \in 0..n |-> IF i = 0 THEN <<>>
                      ELSE IF q[i] \in S THEN Append(g[i - 1], q[i]) ELSE g[i - 1]]

\* The recursion is defined: there is such a function.
LEMMA KeptDefined ==
  ASSUME NEW q, NEW S, NEW n \in Nat
  PROVE  \E g : Kept(g, q, S, n)
<1> DEFINE step(g, i) == IF i = 0 THEN <<>>
                         ELSE IF q[i] \in S THEN Append(g[i - 1], q[i]) ELSE g[i - 1]
           T == {m \in Nat : ~ \E g : g = [i \in 0..m |-> step(g, i)]}
<1>1. ASSUME T # {} PROVE FALSE
  <2>1. T \subseteq Nat
    OBVIOUS
  <2> HIDE DEF T
  <2>2. PICK m \in T : \A k \in T : m <= k
    BY <1>1, <2>1, LeastNumber
  <2>3. m \in Nat /\ ~ \E g : g = [i \in 0..m |-> step(g, i)]
    BY <2>2 DEF T
  <2>4. CASE m = 0
    <3> DEFINE g == [i \in 0..m |-> <<>>]
    <3>1. \A i \in 0..m : i = 0
      BY <2>4
    <3> HIDE DEF step
    <3>2. \A i \in 0..m : step(g, i) = <<>>
      BY <3>1 DEF step
    <3>3. g = [i \in 0..m |-> step(g, i)]
      BY <3>2
    <3> QED BY <2>3, <3>3
  <2>5. CASE m # 0
    <3>1. m - 1 \in Nat /\ m - 1 \notin T
      BY <2>2, <2>3, <2>5
    <3>2. PICK f : f = [i \in 0..m - 1 |-> step(f, i)]
      BY <3>1 DEF T
    <3> DEFINE g == [i \in 0..m |-> IF i = m THEN step(f, m) ELSE f[i]]
    <3>3. \A i \in 0..m : step(g, i) = step(f, i)
      <4> SUFFICES ASSUME NEW i \in 0..m PROVE step(g, i) = step(f, i)
        OBVIOUS
      <4>1. CASE i = 0
        BY <4>1
      <4>2. CASE i # 0
        <5>1. i - 1 \in 0..m /\ i - 1 # m
          BY <2>3, <4>2
        <5>2. g[i - 1] = f[i - 1]
          BY <5>1
        <5> HIDE DEF g
        <5> QED BY <5>2
      <4> QED BY <4>1, <4>2
    <3> HIDE DEF step
    <3>4. \A i \in 0..m : g[i] = step(f, i)
      <4> SUFFICES ASSUME NEW i \in 0..m PROVE g[i] = step(f, i)
        OBVIOUS
      <4>1. CASE i = m
        BY <4>1
      <4>2. CASE i # m
        <5>1. i \in 0..m - 1
          BY <2>3, <4>2
        <5> QED BY <3>2, <4>2, <5>1
      <4> QED BY <4>1, <4>2
    <3>5. g = [i \in 0..m |-> step(g, i)]
      BY <3>3, <3>4
    <3> QED BY <2>3, <3>5
  <2> QED BY <2>4, <2>5
<1>2. n \notin T
  BY <1>1
<1> QED BY <1>2 DEF Kept

\* k is what is kept of the first n items of q.
Chosen(k, q, S, n) ==
  /\ k \in Seq({q[j] : j \in 1..n})
  /\ \A i \in 1..Len(k) : k[i] \in S
  /\ \A j \in 1..n : q[j] \in S => \E i \in 1..Len(k) : k[i] = q[j]

\* One more item.
LEMMA ChosenMore ==
  ASSUME NEW q, NEW S, NEW n \in Nat, n # 0, NEW k, Chosen(k, q, S, n - 1)
  PROVE  Chosen(IF q[n] \in S THEN Append(k, q[n]) ELSE k, q, S, n)
<1> DEFINE T == {q[j] : j \in 1..n}
<1>1. 1..n - 1 \subseteq 1..n /\ n \in 1..n /\ \A j \in 1..n : j = n \/ j \in 1..n - 1
  OBVIOUS
<1>2. k \in Seq(T)
  <2>1. {q[j] : j \in 1..n - 1} \subseteq T
    BY <1>1
  <2> HIDE DEF T
  <2>2. \A i \in 1..Len(k) : k[i] \in T
    BY <2>1 DEF Chosen
  <2> QED BY <2>2 DEF Chosen
<1>3. q[n] \in T
  BY <1>1
<1>4. CASE q[n] \in S
  <2> DEFINE a == Append(k, q[n])
  <2> HIDE DEF T
  <2>1. /\ a \in Seq(T) /\ Len(a) = Len(k) + 1 /\ a[Len(k) + 1] = q[n]
        /\ \A i \in 1..Len(k) : a[i] = k[i]
    BY <1>2, <1>3
  <2> HIDE DEF a
  <2>2. Len(k) \in Nat
    BY <1>2
  <2>3. /\ \A i \in 1..Len(k) + 1 : i \in 1..Len(k) \/ i = Len(k) + 1
        /\ 1..Len(k) \subseteq 1..Len(k) + 1 /\ Len(k) + 1 \in 1..Len(k) + 1
    BY <2>2
  <2>4. \A i \in 1..Len(a) : a[i] \in S
    BY <1>4, <2>1, <2>3 DEF Chosen
  <2>5. \A j \in 1..n : q[j] \in S => \E i \in 1..Len(a) : a[i] = q[j]
    BY <1>1, <2>1, <2>3 DEF Chosen
  <2> QED BY <1>4, <2>1, <2>4, <2>5 DEF Chosen, T, a
<1>5. CASE q[n] \notin S
  BY <1>1, <1>2, <1>5 DEF Chosen
<1> QED BY <1>4, <1>5

\* One more item, with an address of its own.
LEMMA ApartMore ==
  ASSUME NEW q, NEW S, NEW n \in Nat, n # 0, NEW k, Chosen(k, q, S, n - 1), Apart(k),
         \A i, j \in 1..n : i # j => q[i].mip # q[j].mip
  PROVE  Apart(IF q[n] \in S THEN Append(k, q[n]) ELSE k)
<1> DEFINE T == {q[j] : j \in 1..n - 1}
           a == Append(k, q[n])
           Q == T \cup {q[n]}
<1>1. k \in Seq(Q) /\ \A i \in 1..Len(k) : k[i] \in T
  BY DEF Chosen
<1>2. q[n] \in Q
  OBVIOUS
<1>3. \A x \in T : x.mip # q[n].mip
  <2> SUFFICES ASSUME NEW j \in 1..n - 1 PROVE q[j].mip # q[n].mip
    OBVIOUS
  <2>1. j \in 1..n /\ n \in 1..n /\ j # n
    OBVIOUS
  <2> QED BY <2>1
<1> HIDE DEF T, Q
<1>4. /\ DOMAIN a = 1..Len(k) + 1 /\ a[Len(k) + 1] = q[n] /\ Len(k) \in Nat
      /\ DOMAIN k = 1..Len(k) /\ \A i \in 1..Len(k) : a[i] = k[i]
  BY <1>1, <1>2
<1> HIDE DEF a
<1>5. Apart(a)
  <2> SUFFICES ASSUME NEW i \in 1..Len(k) + 1, NEW j \in 1..Len(k) + 1, i # j
               PROVE  a[i].mip # a[j].mip
    BY <1>4 DEF Apart
  <2>1. CASE i \in 1..Len(k) /\ j \in 1..Len(k)
    BY <1>4, <2>1 DEF Apart
  <2>2. CASE i = Len(k) + 1
    <3>1. j \in 1..Len(k)
      BY <1>4, <2>2
    <3> QED BY <1>1, <1>3, <1>4, <2>2, <3>1
  <2>3. CASE j = Len(k) + 1
    <3>1. i \in 1..Len(k)
      BY <1>4, <2>3
    <3> QED BY <1>1, <1>3, <1>4, <2>3, <3>1
  <2> QED BY <1>4, <2>1, <2>2, <2>3
<1> QED BY <1>5 DEF a

\* What SelectSeq does: all that is in S is kept, and nothing else; addresses that
\* were apart stay apart.
LEMMA KeepFacts ==
  ASSUME NEW T, NEW q \in Seq(T), NEW S
  PROVE  LET k == M!Keep(q, S)
         IN  /\ k \in Seq(T) /\ Chosen(k, q, S, Len(q))
             /\ Apart(q) => Apart(k)
<1> DEFINE n == Len(q)
           step(g, i) == IF i = 0 THEN <<>>
                         ELSE IF q[i] \in S THEN Append(g[i - 1], q[i]) ELSE g[i - 1]
           kept == CHOOSE g : Kept(g, q, S, n)
           right(i) == Chosen(kept[i], q, S, i) /\ (Apart(q) => Apart(kept[i]))
           W == {i \in 0..n : ~right(i)}
<1>1. n \in Nat /\ DOMAIN q = 1..n /\ \A i \in 1..n : q[i] \in T
  OBVIOUS
<1>2. \E g : Kept(g, q, S, n)
  BY <1>1, KeptDefined
<1>3. Kept(kept, q, S, n)
  BY <1>2
<1>4. M!Keep(q, S) = kept[n]
  BY DEF M!Keep, Kept
<1> HIDE DEF kept
<1>5. \A i \in 0..n : kept[i] = step(kept, i)
  <2> HIDE DEF step
  <2> QED BY <1>3 DEF Kept, step
<1> HIDE DEF n
<1>6. ASSUME W # {} PROVE FALSE
  <2>1. W \subseteq Nat
    BY <1>1
  <2> HIDE DEF W
  <2>2. PICK m \in W : \A i \in W : m <= i
    BY <1>6, <2>1, LeastNumber
  <2>3. m \in 0..n /\ ~right(m)
    BY <2>2 DEF W
  <2>4. CASE m = 0
    <3>1. kept[m] = <<>>
      BY <1>5, <2>3, <2>4
    <3>2. Chosen(<<>>, q, S, m) /\ Apart(<<>>)
      BY <2>4 DEF Chosen, Apart
    <3> QED BY <2>3, <3>1, <3>2
  <2>5. CASE m # 0
    <3>1. m - 1 \in 0..n /\ m \in 1..n /\ m - 1 \notin W /\ m \in Nat /\ 1..m \subseteq 1..n
      BY <1>1, <2>2, <2>3, <2>5
    <3>2. kept[m] = IF q[m] \in S THEN Append(kept[m - 1], q[m]) ELSE kept[m - 1]
      BY <1>5, <2>3, <2>5
    <3>3. right(m - 1)
      BY <3>1 DEF W
    <3>4. Chosen(kept[m], q, S, m)
      BY <2>5, <3>1, <3>2, <3>3, ChosenMore
    <3>5. Apart(q) => Apart(kept[m])
      <4> SUFFICES ASSUME Apart(q) PROVE Apart(kept[m])
        OBVIOUS
      <4>1. \A i, j \in 1..m : i # j => q[i].mip # q[j].mip
        <5>1. \A i \in 1..m : i \in 1..Len(q)
          BY ONLY <1>1, <3>1
        <5> QED BY ONLY <5>1, Apart(q) DEF Apart
      <4> QED BY <2>5, <3>1, <3>2, <3>3, <4>1, ApartMore
    <3> QED BY <2>3, <3>4, <3>5
  <2> QED BY <2>4, <2>5
<1>7. right(n)
  BY <1>1, <1>6
<1>8. kept[n] \in Seq(T)
  <2>1. \A i \in 1..Len(kept[n]) : kept[n][i] \in T
    BY <1>1, <1>7 DEF Chosen
  <2> QED BY <1>7, <2>1 DEF Chosen
<1> QED BY ONLY <1>4, <1>7, <1>8 DEF n

(***************************************************************************)
(* What a sequence of messages leads to.                                   *)
(***************************************************************************)
\* What says nothing of neighbours leaves them as they are.
LEMMA LeadsNowhere ==
  ASSUME NEW S \in SUBSET MIPAddress, NEW q \in Seq(Update),
         \A i \in 1..Len(q) : q[i].option \in {"LOCAL_MIP", "ADVERTISEMENT"}
  PROVE  Leads(S, q, S)
<1> DEFINE g == [i \in 0..Len(q) |-> S]
<1>1. Len(q) \in Nat
  OBVIOUS
<1>2. /\ g \in [0..Len(q) -> SUBSET MIPAddress]
      /\ 0 \in 0..Len(q) /\ Len(q) \in 0..Len(q)
      /\ \A i \in 1..Len(q) : i \in 0..Len(q) /\ i - 1 \in 0..Len(q)
  BY <1>1
<1>3. \A i \in 1..Len(q) : Learnt(S, q[i]) = S
  BY DEF Learnt
<1>4. Path(g, S, q, S)
  BY <1>2, <1>3 DEF Path
<1> QED BY <1>4 DEF Leads

\* Those that were lost go, one after the other.
LEMMA LeadsAway ==
  ASSUME NEW S \in SUBSET MIPAddress, NEW q \in Seq(Update),
         \A i \in 1..Len(q) : q[i].option = "ARP_LOSTCONNECTION"
  PROVE  Leads(S, q, S \ {q[i].mip : i \in 1..Len(q)})
<1> DEFINE gone(i) == {q[j].mip : j \in 1..i}
           g == [i \in 0..Len(q) |-> S \ gone(i)]
<1>1. Len(q) \in Nat
  OBVIOUS
<1>2. /\ g \in [0..Len(q) -> SUBSET MIPAddress]
      /\ 0 \in 0..Len(q) /\ Len(q) \in 0..Len(q)
      /\ \A i \in 1..Len(q) : i \in 0..Len(q) /\ i - 1 \in 0..Len(q)
  BY <1>1
<1>3. gone(0) = {}
  OBVIOUS
<1>4. ASSUME NEW i \in 1..Len(q) PROVE S \ gone(i) = Learnt(S \ gone(i - 1), q[i])
  <2>1. \A j : j \in 1..i <=> j \in 1..i - 1 \/ j = i
    BY <1>1
  <2>2. gone(i) = gone(i - 1) \cup {q[i].mip}
    BY <2>1
  <2> HIDE DEF gone
  <2>3. Learnt(S \ gone(i - 1), q[i]) = (S \ gone(i - 1)) \ {q[i].mip}
    BY DEF Learnt
  <2> QED BY <2>2, <2>3
<1>5. Path(g, S, q, S \ gone(Len(q)))
  <2> HIDE DEF gone
  <2> QED BY <1>2, <1>3, <1>4 DEF Path
<1> QED BY <1>5 DEF Leads

\* One message.
LEMMA LeadsOne ==
  ASSUME NEW S \in SUBSET MIPAddress, NEW msg \in Update
  PROVE  Leads(S, <<msg>>, Learnt(S, msg))
<1> DEFINE g == [i \in 0..1 |-> IF i = 0 THEN S ELSE Learnt(S, msg)]
<1>1. Learnt(S, msg) \in SUBSET MIPAddress
  BY UpdateShape DEF Learnt
<1>2. Len(<<msg>>) = 1 /\ <<msg>>[1] = msg /\ \A i \in 1..1 : i = 1
  OBVIOUS
<1>3. g \in [0..1 -> SUBSET MIPAddress] /\ g[0] = S /\ g[1] = Learnt(S, msg)
  BY <1>1
<1> HIDE DEF g
<1>4. Path(g, S, <<msg>>, Learnt(S, msg))
  BY <1>2, <1>3 DEF Path
<1> QED BY <1>4 DEF Leads

\* One sequence of messages, and then another.
LEMMA LeadsOn ==
  ASSUME NEW S, NEW q \in Seq(Update), NEW T, NEW r \in Seq(Update), NEW U,
         Leads(S, q, T), Leads(T, r, U)
  PROVE  Leads(S, q \o r, U)
<1>1. PICK g : Path(g, S, q, T)
  BY DEF Leads
<1>2. PICK h : Path(h, T, r, U)
  BY DEF Leads
<1> DEFINE m == Len(q)
           n == Len(r)
           f == [i \in 0..m + n |-> IF i <= m THEN g[i] ELSE h[i - m]]
<1>3. /\ m \in Nat /\ n \in Nat /\ Len(q \o r) = m + n
      /\ \A i \in 1..m + n : (q \o r)[i] = IF i <= m THEN q[i] ELSE r[i - m]
  BY Joined
<1>4. /\ g \in [0..m -> SUBSET MIPAddress] /\ g[0] = S /\ g[m] = T
      /\ \A i \in 1..m : g[i] = Learnt(g[i - 1], q[i])
  BY <1>1 DEF Path
<1>5. /\ h \in [0..n -> SUBSET MIPAddress] /\ h[0] = T /\ h[n] = U
      /\ \A i \in 1..n : h[i] = Learnt(h[i - 1], r[i])
  BY <1>2 DEF Path
<1> DEFINE p == q \o r
<1> HIDE DEF m, n, p
<1>6. f \in [0..m + n -> SUBSET MIPAddress]
  <2> SUFFICES ASSUME NEW i \in 0..m + n
               PROVE  (IF i <= m THEN g[i] ELSE h[i - m]) \in SUBSET MIPAddress
    OBVIOUS
  <2>1. CASE i <= m
    <3>1. i \in 0..m
      BY <1>3, <2>1
    <3> QED BY <1>4, <2>1, <3>1
  <2>2. CASE ~(i <= m)
    <3>1. i - m \in 0..n
      BY <1>3, <2>2
    <3> QED BY <1>5, <2>2, <3>1
  <2> QED BY <2>1, <2>2
<1>7. f[0] = S
  BY <1>3, <1>4
<1>8. f[m + n] = U
  <2>1. CASE n = 0
    BY <1>3, <1>4, <1>5, <2>1
  <2>2. CASE n # 0
    <3> DEFINE l == m + n
    <3>1. ~(l <= m) /\ l - m = n /\ l \in 0..l
      BY <1>3, <2>2
    <3> HIDE DEF l
    <3>2. f[l] = h[l - m]
      BY <3>1 DEF l
    <3> QED BY <1>5, <3>1, <3>2 DEF l
  <2> QED BY <2>1, <2>2
<1>9. ASSUME NEW i \in 1..m + n PROVE f[i] = Learnt(f[i - 1], p[i])
  <2>1. i \in 0..m + n /\ i - 1 \in 0..m + n
    BY <1>3
  <2>2. CASE i <= m
    <3>1. i \in 1..m /\ i - 1 <= m
      BY <1>3, <2>2
    <3> QED BY <1>3, <1>4, <2>1, <2>2, <3>1 DEF p
  <2>3. CASE i = m + 1
    <3>1. /\ ~(i <= m) /\ i - m = 1 /\ 1 \in 1..n /\ i - 1 = m /\ m <= m /\ 1 - 1 = 0
      BY <1>3, <2>3
    <3>2. f[i] = h[1] /\ f[i - 1] = g[m] /\ p[i] = r[1]
      BY <1>3, <2>1, <3>1 DEF p
    <3>3. h[1] = Learnt(h[0], r[1])
      BY <1>5, <3>1
    <3> QED BY <1>4, <1>5, <3>2, <3>3
  <2>4. CASE ~(i <= m) /\ i # m + 1
    <3>1. /\ ~(i - 1 <= m) /\ i - m \in 1..n /\ (i - 1) - m = (i - m) - 1
      BY <1>3, <2>4
    <3>2. f[i] = h[i - m] /\ f[i - 1] = h[(i - m) - 1] /\ p[i] = r[i - m]
      BY <1>3, <2>1, <2>4, <3>1 DEF p
    <3> QED BY <1>5, <3>1, <3>2
  <2> QED BY <2>2, <2>3, <2>4
<1> HIDE DEF f
<1>10. Path(f, S, p, U)
  BY <1>3, <1>6, <1>7, <1>8, <1>9 DEF Path, p
<1> QED BY <1>10 DEF Leads, p

\* What is still to read once the first message was read.
LEMMA LeadsLess ==
  ASSUME NEW S, NEW q \in Seq(Update), NEW T, q # <<>>, Leads(S, q, T)
  PROVE  Leads(Learnt(S, Head(q)), Tail(q), T)
<1>1. PICK g : Path(g, S, q, T)
  BY DEF Leads
<1> DEFINE n == Len(q)
           t == Tail(q)
           f == [i \in 0..n - 1 |-> g[i + 1]]
<1>2. /\ n \in Nat /\ n >= 1 /\ Len(t) = n - 1 /\ Head(q) = q[1]
      /\ \A i \in 1..n - 1 : t[i] = q[i + 1]
  OBVIOUS
<1>3. /\ g \in [0..n -> SUBSET MIPAddress] /\ g[0] = S /\ g[n] = T
      /\ \A i \in 1..n : g[i] = Learnt(g[i - 1], q[i])
  BY <1>1 DEF Path
<1> HIDE DEF n, t
<1>4. f \in [0..n - 1 -> SUBSET MIPAddress]
  <2>1. \A i \in 0..n - 1 : i + 1 \in 0..n
    BY <1>2
  <2> QED BY <1>3, <2>1
<1>5. f[0] = Learnt(S, q[1])
  <2>1. 0 \in 0..n - 1 /\ 1 \in 1..n /\ 1 - 1 = 0 /\ 0 + 1 = 1
    BY <1>2
  <2> QED BY <1>3, <2>1
<1>6. f[n - 1] = T
  <2>1. n - 1 \in 0..n - 1 /\ n - 1 + 1 = n
    BY <1>2
  <2> QED BY <1>3, <2>1
<1>7. ASSUME NEW i \in 1..n - 1 PROVE f[i] = Learnt(f[i - 1], t[i])
  <2>1. /\ i \in 0..n - 1 /\ i - 1 \in 0..n - 1 /\ i + 1 \in 1..n
        /\ i + 1 - 1 = i /\ i - 1 + 1 = i
    BY <1>2
  <2>2. f[i] = g[i + 1] /\ f[i - 1] = g[i] /\ t[i] = q[i + 1]
    BY <1>2, <2>1
  <2>3. g[i + 1] = Learnt(g[i], q[i + 1])
    BY <1>3, <2>1
  <2> QED BY <2>2, <2>3
<1> HIDE DEF f
<1>8. Path(f, Learnt(S, Head(q)), t, T)
  BY <1>2, <1>4, <1>5, <1>6, <1>7 DEF Path
<1> QED BY <1>8 DEF Leads, t

\* Nothing to read changes nothing.
LEMMA LeadsNothing ==
  ASSUME NEW S, NEW T, Leads(S, <<>>, T)
  PROVE  S = T
<1>1. PICK g : Path(g, S, <<>>, T)
  BY DEF Leads
<1>2. Len(<<>>) = 0
  OBVIOUS
<1> QED BY <1>1, <1>2 DEF Path

(***************************************************************************)
(* The handlers of MIP_deamon.                                             *)
(***************************************************************************)
\* What MIP_deamon writes to its interfaces.
Out ==
  {o \in [sock : MIPAddress, to : SUBSET MIPAddress, frame : Frame] :
     o.frame \in FramesOf(o.sock)}

\* What a handler of node n may do to globals m.
EffectOK(n, m, e) ==
  /\ e.mip \in MIPType(n) /\ e.update \in Seq(News(n))
  /\ e.lookup \in Seq(MIPAddress) /\ e.out \in Seq(Out)
  /\ \A i \in DOMAIN e.transport : Handed(n, e.transport[i])
  /\ Leads(Partners(m), e.update, Partners(e.mip))

\* A frame that waits was asked about.
LookupsAsked(m, e) == Dests(e.mip.lookup_queue) = Dests(m.lookup_queue) \o e.lookup

\* What the fields of the globals are.
LEMMA MIPShape ==
  ASSUME NEW n \in Node, NEW m \in MIPType(n)
  PROVE  /\ m.raw_sock_vec = Interfaces(n) /\ m.arp_pair_vec \in Seq(ARPPair(n))
         /\ m.lookup_queue \in Seq(Waiting(n)) /\ Apart(m.arp_pair_vec)
         /\ Partners(m) \in SUBSET MIPAddress
         /\ Interfaces(n) \subseteq MIPAddress /\ \A a \in Interfaces(n) : NodeOf[a] = n
<1>1. m.arp_pair_vec \in Seq(ARPPair(n))
  BY DEF MIPType
<1>2. \A i \in DOMAIN m.arp_pair_vec : m.arp_pair_vec[i] \in ARPPair(n)
  BY <1>1
<1>3. Partners(m) \in SUBSET MIPAddress
  BY <1>2 DEF Partners, ARPPair
<1> QED BY <1>1, <1>3 DEF MIPType, Interfaces

\* New globals, made of their fields.
LEMMA MIPMade ==
  ASSUME NEW n \in Node, NEW m \in MIPType(n)
  PROVE  /\ \A v \in Seq(ARPPair(n)) :
              Apart(v) => /\ [m EXCEPT !.arp_pair_vec = v] \in MIPType(n)
                          /\ [m EXCEPT !.arp_pair_vec = v].arp_pair_vec = v
                          /\ [m EXCEPT !.arp_pair_vec = v].lookup_queue = m.lookup_queue
         /\ \A q \in Seq(Waiting(n)) :
              /\ [m EXCEPT !.lookup_queue = q] \in MIPType(n)
              /\ [m EXCEPT !.lookup_queue = q].lookup_queue = q
              /\ Partners([m EXCEPT !.lookup_queue = q]) = Partners(m)
BY DEF MIPType, Partners

\* Two sequences of the same length and items are one.
LEMMA SeqsEqual ==
  ASSUME NEW T, NEW p \in Seq(T), NEW q \in Seq(T), Len(p) = Len(q),
         \A i \in 1..Len(p) : p[i] = q[i]
  PROVE  p = q
OBVIOUS

\* A function on the first numbers is a sequence.
LEMMA ListOf ==
  ASSUME NEW T, NEW n \in Nat, NEW f \in [1..n -> T]
  PROVE  f \in Seq(T) /\ Len(f) = n /\ DOMAIN f = 1..n
OBVIOUS

\* The destinations of frames that wait.
LEMMA DestsOf ==
  ASSUME NEW n \in Node, NEW q \in Seq(Waiting(n))
  PROVE  /\ Dests(q) \in Seq(MIPAddress) /\ Dests(q) \o <<>> = Dests(q)
         /\ \A w \in Waiting(n) : Dests(Append(q, w)) = Dests(q) \o <<w.frame.dest>>
         /\ q # <<>> => Dests(q) # <<>> /\ Dests(Tail(q)) = Tail(Dests(q))
<1>1. \A w \in Waiting(n) : w.frame.dest \in MIPAddress
  BY DEF Waiting, Frame
<1>2. DOMAIN q = 1..Len(q) /\ Len(q) \in Nat /\ \A i \in 1..Len(q) : q[i] \in Waiting(n)
  OBVIOUS
<1>3. /\ Dests(q) \in Seq(MIPAddress) /\ Len(Dests(q)) = Len(q)
      /\ \A i \in 1..Len(q) : Dests(q)[i] = q[i].frame.dest
  BY <1>1, <1>2 DEF Dests
<1>4. ASSUME NEW w \in Waiting(n) PROVE Dests(Append(q, w)) = Dests(q) \o <<w.frame.dest>>
  <2> DEFINE a == Append(q, w)
             d == w.frame.dest
             b == Dests(q) \o <<d>>
  <2>1. /\ DOMAIN a = 1..Len(q) + 1 /\ a[Len(q) + 1] = w
        /\ \A i \in 1..Len(q) : a[i] = q[i]
        /\ \A i \in 1..Len(q) + 1 : a[i] \in Waiting(n)
    OBVIOUS
  <2>2. d \in MIPAddress
    BY <1>1
  <2> HIDE DEF a, d
  <2>3. /\ Dests(a) \in Seq(MIPAddress) /\ Len(Dests(a)) = Len(q) + 1
        /\ \A i \in 1..Len(q) + 1 : Dests(a)[i] = a[i].frame.dest
    BY <1>1, <1>2, <2>1 DEF Dests
  <2>4. /\ b \in Seq(MIPAddress) /\ Len(b) = Len(q) + 1 /\ b[Len(q) + 1] = d
        /\ \A i \in 1..Len(q) : b[i] = Dests(q)[i]
    BY <1>2, <1>3, <2>2
  <2> HIDE DEF b
  <2>5. \A i \in 1..Len(q) + 1 : i \in 1..Len(q) \/ i = Len(q) + 1
    BY <1>2
  <2>6. \A i \in 1..Len(q) + 1 : Dests(a)[i] = b[i]
    BY <1>3, <2>1, <2>3, <2>4, <2>5 DEF d
  <2>7. Dests(a) = b
    BY <2>3, <2>4, <2>6, SeqsEqual
  <2> QED BY <2>7 DEF a, b, d
<1>5. ASSUME q # <<>> PROVE Dests(q) # <<>> /\ Dests(Tail(q)) = Tail(Dests(q))
  <2> DEFINE t == Tail(q)
             b == Tail(Dests(q))
             l == Len(q) - 1
  <2>1. Len(q) >= 1
    BY <1>5
  <2>2. Dests(q) # <<>>
    BY <1>3, <2>1
  <2>3. /\ DOMAIN t = 1..l /\ l \in Nat /\ \A i \in 1..l : t[i] = q[i + 1] /\ i + 1 \in 1..Len(q)
    BY <1>2, <2>1
  <2>4. b \in Seq(MIPAddress) /\ Len(b) = l /\ \A i \in 1..l : b[i] = Dests(q)[i + 1]
    BY <1>3, <2>2
  <2> HIDE DEF t, b, l
  <2>5. /\ Dests(t) \in Seq(MIPAddress) /\ Len(Dests(t)) = l
        /\ \A i \in 1..l : Dests(t)[i] = t[i].frame.dest
    BY <1>1, <1>2, <2>3 DEF Dests
  <2>6. \A i \in 1..l : Dests(t)[i] = b[i]
    BY <1>3, <2>3, <2>4, <2>5
  <2>7. Dests(t) = b
    BY <2>4, <2>5, <2>6, SeqsEqual
  <2> QED BY <2>2, <2>7 DEF t, b
<1> QED BY <1>3, <1>4, <1>5

\* The fields of an effect.
LEMMA EffectShape ==
  ASSUME NEW n, NEW m, NEW e \in MIPType(n), NEW news \in Seq(News(n)),
         NEW asked \in Seq(MIPAddress), NEW transport, NEW out \in Seq(Out),
         \A i \in DOMAIN transport : Handed(n, transport[i]),
         Leads(Partners(m), news, Partners(e)),
         Dests(e.lookup_queue) = Dests(m.lookup_queue) \o asked
  PROVE  LET f == M!Effect(e, news, asked, transport, out)
         IN  EffectOK(n, m, f) /\ LookupsAsked(m, f)
BY DEF M!Effect, EffectOK, LookupsAsked

\* Handlers that change nothing but write frames, or packets.
LEMMA QuietOK ==
  ASSUME NEW n \in Node, NEW m \in MIPType(n), NEW transport, NEW out \in Seq(Out),
         \A i \in DOMAIN transport : Handed(n, transport[i])
  PROVE  LET f == M!Effect(m, <<>>, <<>>, transport, out)
         IN  EffectOK(n, m, f) /\ LookupsAsked(m, f)
<1>1. <<>> \in Seq(Update) /\ <<>> \in Seq(News(n)) /\ <<>> \in Seq(MIPAddress)
  OBVIOUS
<1>2. Leads(Partners(m), <<>>, Partners(m))
  <2>1. \A i \in 1..Len(<<>>) : <<>>[i].option \in {"LOCAL_MIP", "ADVERTISEMENT"}
    OBVIOUS
  <2> QED BY <1>1, <2>1, MIPShape, LeadsNowhere
<1>3. Dests(m.lookup_queue) = Dests(m.lookup_queue) \o <<>>
  BY MIPShape, DestsOf
<1> QED BY <1>1, <1>2, <1>3, EffectShape

\* Frames MIP_deamon makes itself.
LEMMA MadeOK ==
  ASSUME NEW sock \in MIPAddress, NEW dest \in MIPAddress
  PROVE  /\ \A tra \in {"A", "ZERO"} : M!MIPFrame(tra, dest, sock, TTL, <<>>) \in FramesOf(sock)
         /\ \A advert \in AdvertsOf(NodeOf[sock]) : M!MIPFrame("R", dest, sock, TTL, advert) \in FramesOf(sock)
<1>1. TTL \in 0..TTL /\ <<>> \in Seq(Nat)
  BY NetworkAssumption
<1> QED BY <1>1 DEF M!MIPFrame, FramesOf, Frame, AdvertsOf

\* Frames on their way out.
LEMMA SentOK ==
  ASSUME NEW sock \in MIPAddress, NEW frame \in FramesOf(sock)
  PROVE  /\ \A mac \in MIPAddress : <<M!Unicast(sock, mac, frame)>> \in Seq(Out)
         /\ M!Broadcast(sock, frame) \in Out
<1>1. \A mac \in MIPAddress : M!Unicast(sock, mac, frame) \in Out
  BY DEF M!Unicast, Out, FramesOf
<1>2. M!Broadcast(sock, frame) \in Out
  BY DEF M!Broadcast, Out, FramesOf
<1>3. \A o \in Out : <<o>> \in Seq(Out)
  OBVIOUS
<1> HIDE DEF M!Unicast, M!Broadcast
<1> QED BY <1>1, <1>2, <1>3

\* Every interface asks who is there.
LEMMA AskedAround ==
  ASSUME NEW socks \in Seq(MIPAddress)
  PROVE  [i \in DOMAIN socks |-> M!BroadcastFrame(socks[i])] \in Seq(Out)
<1>1. \A i \in DOMAIN socks : M!BroadcastFrame(socks[i]) \in Out
  BY MadeOK, SentOK DEF M!BroadcastFrame
<1>2. DOMAIN socks = 1..Len(socks) /\ Len(socks) \in Nat
  OBVIOUS
<1> HIDE DEF M!BroadcastFrame
<1> QED BY <1>1, <1>2

\* The pair that is found has the address that was looked for.
LEMMA PairOfOK ==
  ASSUME NEW n \in Node, NEW m, m.arp_pair_vec \in Seq(ARPPair(n)), NEW x, M!Known(m, x)
  PROVE  M!PairOf(m, x) \in ARPPair(n) /\ M!PairOf(m, x).mip = x
<1> DEFINE v == m.arp_pair_vec
           places == {i \in DOMAIN v : v[i].mip = x}
           first(i) == v[i].mip = x /\ \A j \in 1..i - 1 : v[j].mip # x
           at == CHOOSE i \in DOMAIN v : first(i)
<1>1. DOMAIN v = 1..Len(v) /\ \A i \in DOMAIN v : v[i] \in ARPPair(n)
  OBVIOUS
<1>2. places \subseteq Nat /\ places # {}
  BY <1>1 DEF M!Known
<1>3. PICK i \in places : \A j \in places : i <= j
  <2> HIDE DEF places
  <2> QED BY <1>2, LeastNumber
<1>4. first(i)
  <2>1. ASSUME NEW j \in 1..i - 1, v[j].mip = x PROVE FALSE
    <3>1. j \in places /\ ~(i <= j)
      BY <1>1, <1>3, <2>1
    <3> QED BY <1>3, <3>1
  <2> QED BY <1>3, <2>1
<1>5. at \in DOMAIN v /\ first(at)
  <2> HIDE DEF first
  <2> QED BY <1>3, <1>4
<1>6. M!PairOf(m, x) = v[at]
  BY DEF M!PairOf
<1> HIDE DEF at
<1> QED BY <1>1, <1>5, <1>6

\* Whom a pair names is a partner, and the other way round.
LEMMA KnownPartner ==
  ASSUME NEW m, NEW x
  PROVE  M!Known(m, x) <=> x \in Partners(m)
BY DEF M!Known, Partners

\* The messages to routing_deamon tell what is so.
LEMMA MessagesOK ==
  ASSUME NEW n \in Node, NEW x \in MIPAddress
  PROVE  /\ NodeOf[x] = n => [option |-> "LOCAL_MIP", mip |-> x] \in News(n)
         /\ Linked(n, x) => M!Discovery(x) \in News(n)
         /\ M!LostConnection(x) \in News(n)
         /\ Linked(n, x) =>
              \A a \in AdvertsOf(NodeOf[x]) :
                [option |-> "ADVERTISEMENT", mip |-> x, advert |-> a] \in News(n)
BY DEF News, Update, M!Discovery, M!LostConnection, AdvertsOf

\* News are messages.
LEMMA NewsShape ==
  ASSUME NEW n \in Node, NEW q \in Seq(News(n))
  PROVE  q \in Seq(Update)
<1>1. News(n) \subseteq Update
  BY DEF News
<1> QED BY <1>1

\* main, before its loop: the local addresses.
LEMMA StartUpOK ==
  ASSUME NEW n \in Node, NEW m \in MIPType(n), NEW socks \in Seq(Interfaces(n))
  PROVE  LET e == M!startUp(m, socks) IN EffectOK(n, m, e) /\ LookupsAsked(m, e)
<1> DEFINE news == [i \in DOMAIN socks |-> [option |-> "LOCAL_MIP", mip |-> socks[i]]]
           out == [i \in DOMAIN socks |-> M!BroadcastFrame(socks[i])]
<1>1. DOMAIN socks = 1..Len(socks) /\ Len(socks) \in Nat /\ socks \in Seq(MIPAddress)
      /\ \A i \in DOMAIN socks : socks[i] \in MIPAddress
  BY MIPShape
<1>2. out \in Seq(Out)
  BY <1>1, AskedAround
<1>3. news \in Seq(News(n)) /\ \A i \in 1..Len(news) : news[i].option = "LOCAL_MIP"
  <2>1. \A i \in DOMAIN socks : NodeOf[socks[i]] = n
    BY MIPShape
  <2> QED BY <1>1, <2>1, MessagesOK
<1>4. M!startUp(m, socks) = M!Effect(m, news, <<>>, <<>>, out)
  BY DEF M!startUp
<1> HIDE DEF news, out
<1>5. Leads(Partners(m), news, Partners(m))
  BY <1>3, NewsShape, MIPShape, LeadsNowhere
<1>6. Dests(m.lookup_queue) = Dests(m.lookup_queue) \o <<>> /\ <<>> \in Seq(MIPAddress)
  BY MIPShape, DestsOf
<1>7. \A i \in DOMAIN <<>> : Handed(n, <<>>[i])
  OBVIOUS
<1> QED BY <1>2, <1>3, <1>4, <1>5, <1>6, <1>7, EffectShape

\* Every ARP_TIMEOUT: those that are dropped are those reported.
LEMMA TimerOK ==
  ASSUME NEW n \in Node, NEW m \in MIPType(n), NEW socks \in Seq(Interfaces(n))
  PROVE  LET e == M!handleTimer(m, socks) IN EffectOK(n, m, e) /\ LookupsAsked(m, e)
<1> DEFINE v    == m.arp_pair_vec
           lost == M!Keep(v, M!Silent(v))
           kept == M!Keep(v, M!Replied(v))
           left == [i \in DOMAIN kept |-> [kept[i] EXCEPT !.reply = FALSE]]
           news == [i \in DOMAIN lost |-> M!LostConnection(lost[i].mip)]
           out  == [i \in DOMAIN socks |-> M!BroadcastFrame(socks[i])]
           m2   == [m EXCEPT !.arp_pair_vec = left]
<1>1. /\ v \in Seq(ARPPair(n)) /\ DOMAIN v = 1..Len(v) /\ Apart(v)
      /\ \A i \in DOMAIN v : v[i] \in ARPPair(n)
  BY MIPShape
<1>2. M!handleTimer(m, socks) = M!Effect(m2, news, <<>>, <<>>, out)
  BY DEF M!handleTimer
<1>3. /\ lost \in Seq(ARPPair(n)) /\ Chosen(lost, v, M!Silent(v), Len(v))
      /\ kept \in Seq(ARPPair(n)) /\ Chosen(kept, v, M!Replied(v), Len(v)) /\ Apart(kept)
  BY <1>1, KeepFacts
<1> HIDE DEF v, lost, kept
<1>4. /\ \A i \in 1..Len(lost) : \E j \in DOMAIN v : ~v[j].reply /\ lost[i] = v[j]
      /\ \A j \in DOMAIN v : ~v[j].reply => \E i \in 1..Len(lost) : lost[i] = v[j]
  BY <1>1, <1>3 DEF Chosen, M!Silent
<1>5. /\ \A i \in 1..Len(kept) : \E j \in DOMAIN v : v[j].reply /\ kept[i] = v[j]
      /\ \A j \in DOMAIN v : v[j].reply => \E i \in 1..Len(kept) : kept[i] = v[j]
  BY <1>1, <1>3 DEF Chosen, M!Replied
<1>6. /\ DOMAIN kept = 1..Len(kept) /\ Len(kept) \in Nat
      /\ DOMAIN lost = 1..Len(lost) /\ Len(lost) \in Nat
      /\ \A i \in 1..Len(kept) : kept[i] \in ARPPair(n)
      /\ \A i \in 1..Len(lost) : lost[i] \in ARPPair(n)
  BY <1>3
<1>7. \A i \in 1..Len(kept) : /\ [kept[i] EXCEPT !.reply = FALSE] \in ARPPair(n)
                             /\ [kept[i] EXCEPT !.reply = FALSE].mip = kept[i].mip
  BY <1>6 DEF ARPPair
<1>8. /\ left \in Seq(ARPPair(n)) /\ DOMAIN left = 1..Len(kept)
      /\ \A i \in 1..Len(kept) : left[i].mip = kept[i].mip
  <2>1. left \in [1..Len(kept) -> ARPPair(n)]
    BY <1>6, <1>7
  <2>2. \A i \in 1..Len(kept) : left[i] = [kept[i] EXCEPT !.reply = FALSE]
    BY <1>6
  <2> HIDE DEF left
  <2> QED BY <1>6, <1>7, <2>1, <2>2, ListOf
<1>9. Apart(left)
  BY <1>3, <1>6, <1>8 DEF Apart
<1>10. /\ news \in Seq(News(n)) /\ Len(news) = Len(lost)
       /\ \A i \in 1..Len(news) : news[i].option = "ARP_LOSTCONNECTION" /\ news[i].mip = lost[i].mip
  <2>1. \A i \in 1..Len(lost) : M!LostConnection(lost[i].mip) \in News(n)
    BY <1>6, MessagesOK DEF ARPPair
  <2> QED BY <1>6, <2>1 DEF M!LostConnection
<1> HIDE DEF left, news
<1>11. m2 \in MIPType(n) /\ m2.arp_pair_vec = left /\ m2.lookup_queue = m.lookup_queue
  BY <1>8, <1>9, MIPMade
<1> HIDE DEF m2
<1>12. Partners(m2) = Partners(m) \ {news[i].mip : i \in 1..Len(news)}
  <2> DEFINE K == {kept[i].mip : i \in 1..Len(kept)}
             L == {lost[i].mip : i \in 1..Len(lost)}
             P == {v[i].mip : i \in DOMAIN v}
  <2>1. ASSUME NEW i \in 1..Len(kept) PROVE kept[i].mip \in P /\ kept[i].mip \notin L
    <3>1. PICK j \in DOMAIN v : v[j].reply /\ kept[i] = v[j]
      BY <1>5
    <3>2. ASSUME NEW k \in 1..Len(lost), lost[k].mip = kept[i].mip PROVE FALSE
      <4>1. PICK l \in DOMAIN v : ~v[l].reply /\ lost[k] = v[l]
        BY <1>4
      <4> QED BY <1>1, <3>1, <3>2, <4>1 DEF Apart
    <3> QED BY <3>1, <3>2
  <2>2. ASSUME NEW j \in DOMAIN v, v[j].mip \notin L PROVE v[j].mip \in K
    <3>1. v[j].reply
      BY <1>4, <2>2
    <3>2. PICK i \in 1..Len(kept) : kept[i] = v[j]
      BY <1>5, <3>1
    <3> QED BY <3>2
  <2>3. K = P \ L
    BY <2>1, <2>2
  <2>4. Partners(m) = P
    BY DEF Partners, v
  <2>5. Partners(m2) = K
    BY <1>8, <1>11 DEF Partners
  <2>6. {news[i].mip : i \in 1..Len(news)} = L
    BY <1>10
  <2> QED BY <2>3, <2>4, <2>5, <2>6
<1>13. Leads(Partners(m), news, Partners(m2))
  <2>1. Partners(m) \in SUBSET MIPAddress
    BY MIPShape
  <2>2. Leads(Partners(m), news, Partners(m) \ {news[i].mip : i \in 1..Len(news)})
    BY <1>10, <2>1, NewsShape, LeadsAway
  <2> QED BY <1>12, <2>2
<1>14. socks \in Seq(MIPAddress)
  BY MIPShape
<1>15. out \in Seq(Out)
  BY <1>14, AskedAround
<1> HIDE DEF out
<1>16. Dests(m2.lookup_queue) = Dests(m.lookup_queue) \o <<>> /\ <<>> \in Seq(MIPAddress)
  BY <1>11, MIPShape, DestsOf
<1>17. \A i \in DOMAIN <<>> : Handed(n, <<>>[i])
  OBVIOUS
<1> QED BY <1>2, <1>10, <1>11, <1>13, <1>15, <1>16, <1>17, EffectShape

\* An ARP frame: who is new becomes a partner, and is reported.
LEMMA ARPOK ==
  ASSUME NEW n \in Node, NEW m \in MIPType(n), NEW sock \in Interfaces(n),
         NEW f, f.source \in MIPAddress, Hears(f.source, sock)
  PROVE  LET e == M!receiveARP(m, sock, f) IN EffectOK(n, m, e) /\ LookupsAsked(m, e)
<1> DEFINE x  == f.source
           v  == m.arp_pair_vec
           m2 == IF M!Known(m, x) THEN M!Heard(m, x) ELSE M!addARPPair(m, sock, x)
           news == IF M!Known(m, x) THEN <<>> ELSE <<M!Discovery(x)>>
           out == IF f.tra = "A" THEN <<M!ResponseFrame(M!PairOf(m2, x))>> ELSE <<>>
<1>1. M!receiveARP(m, sock, f) = M!Effect(m2, news, <<>>, <<>>, out)
  BY DEF M!receiveARP
<1>2. /\ v \in Seq(ARPPair(n)) /\ DOMAIN v = 1..Len(v) /\ Len(v) \in Nat /\ Apart(v)
      /\ \A i \in DOMAIN v : v[i] \in ARPPair(n)
      /\ Partners(m) \in SUBSET MIPAddress /\ sock \in MIPAddress
  BY MIPShape
<1>3. /\ m2 \in MIPType(n) /\ m2.lookup_queue = m.lookup_queue
      /\ Partners(m2) = Partners(m) \cup {x}
  <2>1. CASE M!Known(m, x)
    <3> DEFINE w == [i \in DOMAIN v |-> IF v[i].mip = x THEN [v[i] EXCEPT !.reply = TRUE] ELSE v[i]]
    <3>1. \A i \in DOMAIN v : w[i] \in ARPPair(n) /\ w[i].mip = v[i].mip
      BY <1>2 DEF ARPPair
    <3>2. m2 = [m EXCEPT !.arp_pair_vec = w]
      BY <2>1 DEF M!Heard
    <3>3. DOMAIN w = 1..Len(v)
      BY <1>2
    <3>4. w \in [1..Len(v) -> ARPPair(n)]
      BY <1>2, <3>1
    <3> HIDE DEF w, m2
    <3>5. Apart(w)
      BY <1>2, <3>1, <3>3 DEF Apart
    <3>6. m2 \in MIPType(n) /\ m2.lookup_queue = m.lookup_queue /\ m2.arp_pair_vec = w
      BY <1>2, <3>2, <3>4, <3>5, ListOf, MIPMade
    <3>7. Partners(m2) = Partners(m)
      BY <1>2, <3>1, <3>3, <3>6 DEF Partners
    <3> QED BY <2>1, <3>6, <3>7, KnownPartner
  <2>2. CASE ~M!Known(m, x)
    <3> DEFINE p == [mip |-> x, reply |-> TRUE, sock |-> sock]
               w == Append(v, p)
    <3>1. p \in ARPPair(n) /\ p.mip = x
      BY DEF ARPPair
    <3>2. m2 = [m EXCEPT !.arp_pair_vec = w]
      BY <2>2 DEF M!addARPPair
    <3> HIDE DEF p, m2
    <3>3. /\ w \in Seq(ARPPair(n)) /\ DOMAIN w = 1..Len(v) + 1 /\ w[Len(v) + 1] = p
          /\ \A i \in 1..Len(v) : w[i] = v[i]
      BY <1>2, <3>1
    <3> HIDE DEF w
    <3>4. /\ \A i \in 1..Len(v) + 1 : i \in 1..Len(v) \/ i = Len(v) + 1
          /\ 1..Len(v) \subseteq 1..Len(v) + 1 /\ Len(v) + 1 \in 1..Len(v) + 1
      BY <1>2
    <3>5. \A i \in 1..Len(v) : v[i].mip # x
      BY <1>2, <2>2 DEF M!Known
    <3>6. Apart(w)
      BY <1>2, <3>1, <3>3, <3>4, <3>5 DEF Apart
    <3>7. m2 \in MIPType(n) /\ m2.lookup_queue = m.lookup_queue /\ m2.arp_pair_vec = w
      BY <3>2, <3>3, <3>6, MIPMade
    <3>8. Partners(m2) = Partners(m) \cup {x}
      BY <1>2, <3>1, <3>3, <3>4, <3>7 DEF Partners
    <3> QED BY <3>7, <3>8
  <2> QED BY <2>1, <2>2
<1>4. news \in Seq(News(n)) /\ Leads(Partners(m), news, Partners(m2))
  <2>1. CASE M!Known(m, x)
    <3>1. news = <<>> /\ Partners(m2) = Partners(m)
      BY <1>3, <2>1, KnownPartner
    <3>2. news \in Seq(News(n)) /\ \A i \in 1..Len(news) : news[i].option = "LOCAL_MIP"
      BY <3>1
    <3> QED BY <1>2, <3>1, <3>2, NewsShape, LeadsNowhere
  <2>2. CASE ~M!Known(m, x)
    <3>1. news = <<M!Discovery(x)>> /\ M!Discovery(x) \in News(n) /\ M!Discovery(x) \in Update
      BY <2>2, MessagesOK DEF Linked, News
    <3>2. Learnt(Partners(m), M!Discovery(x)) = Partners(m) \cup {x}
      BY DEF Learnt, M!Discovery
    <3> HIDE DEF M!Discovery, news
    <3>3. Leads(Partners(m), news, Partners(m2))
      BY <1>2, <1>3, <3>1, <3>2, LeadsOne
    <3> QED BY <3>1, <3>3
  <2> QED BY <2>1, <2>2
<1> HIDE DEF news
<1>5. out \in Seq(Out)
  <2> DEFINE p == M!PairOf(m2, x)
  <2>1. m2.arp_pair_vec \in Seq(ARPPair(n)) /\ M!Known(m2, x)
    BY <1>3, MIPShape, KnownPartner
  <2>2. p \in ARPPair(n)
    BY <2>1, PairOfOK
  <2> HIDE DEF p, m2
  <2>3. p.mip \in MIPAddress /\ p.sock \in MIPAddress
    BY <2>2, MIPShape DEF ARPPair
  <2>4. M!MIPFrame("ZERO", p.mip, p.sock, TTL, <<>>) \in FramesOf(p.sock)
    BY <2>3, MadeOK
  <2>5. <<M!ResponseFrame(p)>> \in Seq(Out)
    BY <2>3, <2>4, SentOK DEF M!ResponseFrame
  <2>6. <<>> \in Seq(Out)
    OBVIOUS
  <2> HIDE DEF M!ResponseFrame
  <2> QED BY <2>5, <2>6 DEF p
<1> HIDE DEF out, m2
<1>6. Dests(m2.lookup_queue) = Dests(m.lookup_queue) \o <<>> /\ <<>> \in Seq(MIPAddress)
  BY <1>3, MIPShape, DestsOf
<1>7. \A i \in DOMAIN <<>> : Handed(n, <<>>[i])
  OBVIOUS
<1> QED BY <1>1, <1>3, <1>4, <1>5, <1>6, <1>7, EffectShape

\* A frame that waits for its next hop is asked about.
LEMMA QueuedOK ==
  ASSUME NEW n \in Node, NEW m \in MIPType(n), NEW w \in Waiting(n)
  PROVE  LET e == M!Effect([m EXCEPT !.lookup_queue = Append(@, w)],
                           <<>>, <<w.frame.dest>>, <<>>, <<>>)
         IN  EffectOK(n, m, e) /\ LookupsAsked(m, e)
<1> DEFINE q  == Append(m.lookup_queue, w)
           m2 == [m EXCEPT !.lookup_queue = q]
<1>1. m.lookup_queue \in Seq(Waiting(n)) /\ Partners(m) \in SUBSET MIPAddress
  BY MIPShape
<1>2. q \in Seq(Waiting(n)) /\ Dests(q) = Dests(m.lookup_queue) \o <<w.frame.dest>>
  BY <1>1, DestsOf
<1> HIDE DEF q
<1>3. m2 \in MIPType(n) /\ m2.lookup_queue = q /\ Partners(m2) = Partners(m)
  BY <1>2, MIPMade
<1> HIDE DEF m2
<1>4. w.frame.dest \in MIPAddress
  BY DEF Waiting, Frame
<1>5. /\ <<w.frame.dest>> \in Seq(MIPAddress) /\ <<>> \in Seq(Out)
      /\ <<>> \in Seq(Update) /\ <<>> \in Seq(News(n))
  BY <1>4
<1>6. \A i \in DOMAIN <<>> : Handed(n, <<>>[i])
  OBVIOUS
<1>7. Leads(Partners(m), <<>>, Partners(m2))
  <2>1. \A i \in 1..Len(<<>>) : <<>>[i].option \in {"LOCAL_MIP", "ADVERTISEMENT"}
    OBVIOUS
  <2> QED BY <1>1, <1>3, <1>5, <2>1, LeadsNowhere
<1> QED BY <1>2, <1>3, <1>5, <1>6, <1>7, EffectShape DEF q, m2

\* An advertisement is passed on.
LEMMA AdvertisementOK ==
  ASSUME NEW n \in Node, NEW m \in MIPType(n), NEW f, f.source \in MIPAddress,
         Linked(n, f.source), f.msg \in AdvertsOf(NodeOf[f.source])
  PROVE  LET e == M!receiveAdvertisement(m, f) IN EffectOK(n, m, e) /\ LookupsAsked(m, e)
<1> DEFINE msg == [option |-> "ADVERTISEMENT", mip |-> f.source, advert |-> f.msg]
<1>1. msg \in News(n) /\ msg \in Update /\ msg.option = "ADVERTISEMENT"
  BY MessagesOK DEF News
<1>2. M!receiveAdvertisement(m, f) = M!Effect(m, <<msg>>, <<>>, <<>>, <<>>)
  BY DEF M!receiveAdvertisement
<1> HIDE DEF msg
<1>3. /\ <<msg>> \in Seq(Update) /\ <<msg>> \in Seq(News(n))
      /\ <<>> \in Seq(MIPAddress) /\ <<>> \in Seq(Out)
  BY <1>1
<1>4. \A i \in 1..Len(<<msg>>) : <<msg>>[i].option \in {"LOCAL_MIP", "ADVERTISEMENT"}
  BY <1>1
<1>5. Partners(m) \in SUBSET MIPAddress /\ Dests(m.lookup_queue) = Dests(m.lookup_queue) \o <<>>
  BY MIPShape, DestsOf
<1>6. Leads(Partners(m), <<msg>>, Partners(m))
  BY <1>3, <1>4, <1>5, LeadsNowhere
<1>7. \A i \in DOMAIN <<>> : Handed(n, <<>>[i])
  OBVIOUS
<1> QED BY <1>2, <1>3, <1>5, <1>6, <1>7, EffectShape

\* A packet is delivered if it is for this node; else it goes on or ends here.
LEMMA TransportOK ==
  ASSUME NEW n \in Node, NEW m \in MIPType(n), NEW f \in Frame, f.tra = "T", Meant(f)
  PROVE  LET e == M!receiveTransport(m, f) IN EffectOK(n, m, e) /\ LookupsAsked(m, e)
<1>1. /\ m.raw_sock_vec = Interfaces(n) /\ \A a \in Interfaces(n) : NodeOf[a] = n
      /\ <<>> \in Seq(Out)
  BY MIPShape
<1>2. CASE f.dest \in m.raw_sock_vec
  <2> DEFINE packet == M!Packet(f.source, f.msg)
  <2>1. packet.mip = f.source /\ packet.msg = f.msg
    BY DEF M!Packet
  <2>2. Handed(n, packet)
    BY <1>1, <1>2, <2>1 DEF Meant, Handed
  <2>3. M!receiveTransport(m, f) = M!Effect(m, <<>>, <<>>, <<packet>>, <<>>)
    BY <1>2 DEF M!receiveTransport
  <2> HIDE DEF packet
  <2>4. \A i \in DOMAIN <<packet>> : Handed(n, <<packet>>[i])
    BY <2>2
  <2> QED BY <1>1, <2>3, <2>4, QuietOK
<1>3. CASE f.dest \notin m.raw_sock_vec /\ f.ttl = 0
  <2>1. M!receiveTransport(m, f) = M!Effect(m, <<>>, <<>>, <<>>, <<>>)
    BY <1>3 DEF M!receiveTransport
  <2>2. \A i \in DOMAIN <<>> : Handed(n, <<>>[i])
    OBVIOUS
  <2> QED BY <1>1, <2>1, <2>2, QuietOK
<1>4. CASE f.dest \notin m.raw_sock_vec /\ f.ttl # 0
  <2> DEFINE g == [f EXCEPT !.ttl = @ - 1]
             w == [sourced |-> TRUE, frame |-> g]
  <2>1. f.ttl - 1 \in 0..TTL
    BY <1>4, NetworkAssumption DEF Frame
  <2>2. /\ g \in Frame /\ g.tra = "T" /\ g.msg = f.msg /\ g.dest = f.dest
        /\ g.source = f.source
    BY <2>1 DEF Frame
  <2> HIDE DEF g
  <2>3. Meant(g)
    BY <2>2 DEF Meant
  <2>4. w \in Waiting(n) /\ w.frame.dest = f.dest
    BY <2>2, <2>3 DEF Waiting
  <2>5. M!receiveTransport(m, f) =
          M!Effect([m EXCEPT !.lookup_queue = Append(@, w)], <<>>, <<f.dest>>, <<>>, <<>>)
    BY <1>4 DEF M!receiveTransport, g
  <2> HIDE DEF w
  <2> QED BY <2>4, <2>5, QueuedOK
<1> QED BY <1>2, <1>3, <1>4

\* Whatever an interface hears from the other end of its link.
LEMMA RawSockOK ==
  ASSUME NEW n \in Node, NEW m \in MIPType(n), NEW from \in MIPAddress,
         NEW sock \in Interfaces(n), Hears(from, sock), NEW f \in FramesOf(from)
  PROVE  LET e == M!receiveRawSock(m, sock, f) IN EffectOK(n, m, e) /\ LookupsAsked(m, e)
<1>1. /\ f \in Frame /\ f.tra \in {"A", "ZERO", "R", "T"} /\ f.source \in MIPAddress
      /\ f.tra = "R" => f.msg \in AdvertsOf(NodeOf[from])
      /\ f.tra = "T" => Meant(f)
      /\ f.tra # "T" => f.source = from
      /\ Linked(n, from)
  BY DEF FramesOf, Frame, Linked
<1>2. CASE f.tra \in {"A", "ZERO"}
  <2>1. M!receiveRawSock(m, sock, f) = M!receiveARP(m, sock, f)
    BY <1>2 DEF M!receiveRawSock
  <2> QED BY <1>1, <1>2, <2>1, ARPOK
<1>3. CASE f.tra = "R"
  <2>1. M!receiveRawSock(m, sock, f) = M!receiveAdvertisement(m, f)
    BY <1>3 DEF M!receiveRawSock
  <2> QED BY <1>1, <1>3, <2>1, AdvertisementOK
<1>4. CASE f.tra = "T"
  <2>1. M!receiveRawSock(m, sock, f) = M!receiveTransport(m, f)
    BY <1>4 DEF M!receiveRawSock
  <2> QED BY <1>1, <1>4, <2>1, TransportOK
<1> QED BY <1>1, <1>2, <1>3, <1>4

\* A packet an application sends is for its own node, or waits for its next hop.
LEMMA TransportSockOK ==
  ASSUME NEW n \in Node, NEW m \in MIPType(n), NEW s \in Sends, s.node = n
  PROVE  LET e == M!receiveTransportSock(m, M!Packet(s.dest, s.msg))
         IN  EffectOK(n, m, e) /\ LookupsAsked(m, e)
<1> DEFINE packet == M!Packet(s.dest, s.msg)
<1>1. /\ packet.mip = s.dest /\ packet.msg = s.msg
      /\ s.dest \in MIPAddress /\ s.msg \in Seq(Nat) /\ TTL \in 0..TTL
  BY NetworkAssumption DEF M!Packet
<1>2. /\ m.raw_sock_vec = Interfaces(n) /\ \A a \in Interfaces(n) : NodeOf[a] = n
      /\ <<>> \in Seq(Out)
  BY MIPShape
<1> HIDE DEF packet
<1>3. CASE packet.mip \in m.raw_sock_vec
  <2>1. Handed(n, packet)
    BY <1>1, <1>2, <1>3 DEF Handed
  <2>2. M!receiveTransportSock(m, packet) = M!Effect(m, <<>>, <<>>, <<packet>>, <<>>)
    BY <1>3 DEF M!receiveTransportSock
  <2>3. \A i \in DOMAIN <<packet>> : Handed(n, <<packet>>[i])
    BY <2>1
  <2> QED BY <1>2, <2>2, <2>3, QuietOK DEF packet
<1>4. CASE packet.mip \notin m.raw_sock_vec
  <2> DEFINE g == M!MIPFrame("T", packet.mip, packet.mip, TTL, packet.msg)
             w == [sourced |-> FALSE, frame |-> g]
  <2>1. g \in Frame /\ g.tra = "T" /\ g.msg = s.msg /\ g.dest = s.dest
    BY <1>1 DEF Frame, M!MIPFrame
  <2>2. M!receiveTransportSock(m, packet) =
          M!Effect([m EXCEPT !.lookup_queue = Append(@, w)], <<>>, <<packet.mip>>, <<>>, <<>>)
    BY <1>4 DEF M!receiveTransportSock
  <2> HIDE DEF g
  <2>3. w \in Waiting(n) /\ w.frame.dest = packet.mip
    BY <1>1, <2>1 DEF Waiting, Own
  <2> HIDE DEF w
  <2> QED BY <2>2, <2>3, QueuedOK DEF packet
<1> QED BY <1>3, <1>4

\* An advertisement goes to the neighbour it is for, if there is a pair of it.
LEMMA AdvertSockOK ==
  ASSUME NEW n \in Node, NEW m \in MIPType(n), NEW dest \in MIPAddress,
         NEW advert \in AdvertsOf(n)
  PROVE  LET e == M!receiveUpdateSock(m, dest, advert) IN EffectOK(n, m, e) /\ LookupsAsked(m, e)
<1>1. \A i \in DOMAIN <<>> : Handed(n, <<>>[i])
  OBVIOUS
<1>2. CASE ~M!Known(m, dest)
  <2>1. <<>> \in Seq(Out)
    OBVIOUS
  <2>2. M!receiveUpdateSock(m, dest, advert) = M!Effect(m, <<>>, <<>>, <<>>, <<>>)
    BY <1>2 DEF M!receiveUpdateSock
  <2> QED BY <1>1, <2>1, <2>2, QuietOK
<1>3. CASE M!Known(m, dest)
  <2> DEFINE p == M!PairOf(m, dest)
             f == M!MIPFrame("R", p.mip, p.sock, TTL, advert)
             out == <<M!Unicast(p.sock, p.mip, f)>>
  <2>1. p \in ARPPair(n)
    BY <1>3, MIPShape, PairOfOK
  <2>2. M!receiveUpdateSock(m, dest, advert) = M!Effect(m, <<>>, <<>>, <<>>, out)
    BY <1>3 DEF M!receiveUpdateSock
  <2> HIDE DEF p
  <2>3. p.mip \in MIPAddress /\ p.sock \in MIPAddress /\ NodeOf[p.sock] = n
    BY <2>1, MIPShape DEF ARPPair
  <2>4. f \in FramesOf(p.sock)
    BY <2>3, MadeOK
  <2> HIDE DEF f
  <2>5. out \in Seq(Out)
    BY <2>3, <2>4, SentOK
  <2> HIDE DEF out
  <2> QED BY <1>1, <2>2, <2>5, QuietOK
<1> QED BY <1>2, <1>3

\* The answer ends the wait of the first frame.
LEMMA LookupSockOK ==
  ASSUME NEW n \in Node, NEW m \in MIPType(n), m.lookup_queue # <<>>,
         NEW via \in Seq(MIPAddress)
  PROVE  LET e == M!receiveLookupSock(m, via)
         IN  /\ EffectOK(n, m, e) /\ e.lookup = <<>>
             /\ Dests(e.mip.lookup_queue) = Tail(Dests(m.lookup_queue))
<1> DEFINE first == Head(m.lookup_queue)
           rest  == Tail(m.lookup_queue)
           m2    == [m EXCEPT !.lookup_queue = rest]
           p     == M!PairOf(m, via[1])
           g     == [first.frame EXCEPT !.source =
                       IF first.sourced THEN first.frame.source ELSE p.sock]
           sent  == IF via = <<>> \/ ~M!Known(m, via[1]) THEN <<>>
                    ELSE <<M!Unicast(p.sock, p.mip, g)>>
<1>1. M!receiveLookupSock(m, via) = M!Effect(m2, <<>>, <<>>, <<>>, sent)
  BY DEF M!receiveLookupSock
<1>2. /\ m.lookup_queue \in Seq(Waiting(n)) /\ Partners(m) \in SUBSET MIPAddress
      /\ rest \in Seq(Waiting(n)) /\ first \in Waiting(n)
  BY MIPShape
<1>3. m2 \in MIPType(n) /\ m2.lookup_queue = rest /\ Partners(m2) = Partners(m)
  <2> HIDE DEF rest
  <2> QED BY <1>2, MIPMade
<1>4. sent \in Seq(Out)
  <2>1. CASE via = <<>> \/ ~M!Known(m, via[1])
    <3>1. sent = <<>>
      BY <2>1
    <3> QED BY <3>1
  <2>2. CASE via # <<>> /\ M!Known(m, via[1])
    <3>1. p \in ARPPair(n)
      BY <2>2, MIPShape, PairOfOK
    <3> HIDE DEF p, first
    <3>2. p.mip \in MIPAddress /\ p.sock \in MIPAddress /\ NodeOf[p.sock] = n
      BY <3>1, MIPShape DEF ARPPair
    <3>3. /\ first.frame \in Frame /\ first.frame.tra = "T"
          /\ IF first.sourced THEN Meant(first.frame) ELSE Own(n, first.frame)
      BY <1>2 DEF Waiting
    <3>4. /\ g \in Frame /\ g.tra = "T" /\ g.msg = first.frame.msg
          /\ g.dest = first.frame.dest
          /\ g.source = IF first.sourced THEN first.frame.source ELSE p.sock
      BY <3>2, <3>3 DEF Frame
    <3>5. Meant(g)
      <4> HIDE DEF g
      <4>1. CASE first.sourced
        BY <3>3, <3>4, <4>1 DEF Meant
      <4>2. CASE ~first.sourced
        BY <3>2, <3>3, <3>4, <4>2 DEF Meant, Own
      <4> QED BY <4>1, <4>2
    <3>6. g \in FramesOf(p.sock)
      <4> HIDE DEF g
      <4> QED BY <3>4, <3>5 DEF FramesOf
    <3> HIDE DEF g
    <3>7. <<M!Unicast(p.sock, p.mip, g)>> \in Seq(Out)
      BY <3>2, <3>6, SentOK
    <3> QED BY <2>2, <3>7
  <2> QED BY <2>1, <2>2
<1> HIDE DEF sent, m2
<1>5. Leads(Partners(m), <<>>, Partners(m2)) /\ <<>> \in Seq(News(n)) /\ <<>> \in Seq(MIPAddress)
  <2>1. \A i \in 1..Len(<<>>) : <<>>[i].option \in {"LOCAL_MIP", "ADVERTISEMENT"}
    OBVIOUS
  <2>2. <<>> \in Seq(Update) /\ <<>> \in Seq(News(n)) /\ <<>> \in Seq(MIPAddress)
    OBVIOUS
  <2> QED BY <1>2, <1>3, <2>1, <2>2, LeadsNowhere
<1>6. EffectOK(n, m, M!Effect(m2, <<>>, <<>>, <<>>, sent))
  <2>1. \A i \in DOMAIN <<>> : Handed(n, <<>>[i])
    OBVIOUS
  <2> QED BY <1>3, <1>4, <1>5, <2>1 DEF EffectOK, M!Effect
<1>7. Dests(m2.lookup_queue) = Tail(Dests(m.lookup_queue))
  BY <1>2, <1>3, DestsOf
<1> QED BY <1>1, <1>6, <1>7 DEF M!Effect

(***************************************************************************)
(* The interfaces of a node, and what goes over its links.                 *)
(***************************************************************************)
\* raw_sock_vec in the order of some list.
LEMMA SocksOK ==
  ASSUME NEW n \in Node
  PROVE  Socks(n) \in Seq(Interfaces(n))
<1> DEFINE S == Interfaces(n)
           c == Cardinality(S)
<1>1. S \in SUBSET MIPAddress /\ IsFiniteSet(MIPAddress)
  BY NetworkAssumption DEF Interfaces
<1> HIDE DEF S
<1>2. IsFiniteSet(S)
  BY <1>1, FS_Subset
<1>3. c \in Nat /\ ExistsBijection(1..c, S)
  BY <1>2, FS_CardinalityType
<1>4. \E f \in [1..c -> S] : IsInjective(f)
  <2> HIDE DEF c
  <2> QED BY <1>3 DEF ExistsBijection, Bijection, Injection, Surjection, IsInjective
<1>5. SetToSeq(S) \in [1..c -> S]
  BY <1>4 DEF SetToSeq
<1> HIDE DEF c
<1>6. SetToSeq(S) \in Seq(S)
  BY <1>3, <1>5, ListOf
<1> QED BY <1>6 DEF S, Socks

\* What a link carries comes from the interface at its begin.
LEMMA CarriedOK ==
  ASSUME NEW out \in Seq(Out), NEW p \in Wires
  PROVE  Carried(out, p) \in Seq(FramesOf(p[1]))
<1> DEFINE S == For(out, p)
           sent == M!Keep(out, S)
<1>1. /\ sent \in Seq(Out) /\ Chosen(sent, out, S, Len(out))
  BY KeepFacts
<1>2. /\ DOMAIN sent = 1..Len(sent) /\ Len(sent) \in Nat
      /\ \A i \in 1..Len(sent) : sent[i] \in Out /\ sent[i] \in S
  <2> HIDE DEF sent, S
  <2> QED BY <1>1 DEF Chosen
<1>3. \A o \in S : o.sock = p[1]
  BY DEF For
<1> HIDE DEF sent, S
<1>4. \A i \in 1..Len(sent) : sent[i].frame \in FramesOf(p[1])
  BY <1>2, <1>3 DEF Out
<1>5. [i \in DOMAIN sent |-> sent[i].frame] \in [1..Len(sent) -> FramesOf(p[1])]
  BY <1>2, <1>4
<1>6. [i \in DOMAIN sent |-> sent[i].frame] \in Seq(FramesOf(p[1]))
  BY <1>2, <1>5, ListOf
<1> QED BY <1>6 DEF Carried, sent, S

(***************************************************************************)
(* The steps of the network.                                               *)
(***************************************************************************)
\* What the others have is left alone.
Others(n) ==
  \A k \in Node \ {n} :
    /\ mip'[k] = mip[k] /\ daemon'[k] = daemon[k] /\ delivered'[k] = delivered[k]
    /\ update_in'[k] = update_in[k] /\ update_out'[k] = update_out[k]
    /\ lookup_in'[k] = lookup_in[k] /\ lookup_out'[k] = lookup_out[k]

\* A step of one node.
LEMMA OneNode ==
  ASSUME NetInv, NEW n \in Node, Others(n), Domains',
         NodeOK(n, mip'[n], daemon'[n], update_in'[n], update_out'[n],
                lookup_in'[n], lookup_out'[n], delivered'[n]),
         \A p \in Wires : wire'[p] \in Seq(FramesOf(p[1])),
         started' \subseteq Node, up' \subseteq Links, unsent' \subseteq Sends
  PROVE  NetInv'
<1>1. ASSUME NEW k \in Node
      PROVE  NodeOK(k, mip'[k], daemon'[k], update_in'[k], update_out'[k],
                    lookup_in'[k], lookup_out'[k], delivered'[k])
  <2>1. CASE k = n
    BY <2>1
  <2>2. CASE k # n
    <3>1. NodeOK(k, mip[k], daemon[k], update_in[k], update_out[k], lookup_in[k],
                 lookup_out[k], delivered[k])
      BY DEF NetInv
    <3> QED BY <2>2, <3>1 DEF Others
  <2> QED BY <2>1, <2>2
<1> QED BY <1>1 DEF NetInv

\* The effect of a handler of MIP_deamon.
LEMMA DoesOK ==
  ASSUME NetInv, NEW n \in Node, NEW e, EffectOK(n, mip[n], e),
         NEW taken, taken \in Wires => wire[taken] # <<>>, Does(n, e, taken)
  PROVE  /\ \A k \in Node \ {n} :
              /\ mip'[k] = mip[k] /\ update_in'[k] = update_in[k]
              /\ lookup_in'[k] = lookup_in[k] /\ delivered'[k] = delivered[k]
         /\ DOMAIN mip' = Node /\ DOMAIN update_in' = Node
         /\ DOMAIN lookup_in' = Node /\ DOMAIN delivered' = Node /\ DOMAIN wire' = Wires
         /\ mip'[n] = e.mip /\ mip'[n] \in MIPType(n)
         /\ update_in'[n] \in Seq(News(n))
         /\ Leads(Neighbours(daemon[n]), update_in'[n], Partners(mip'[n]))
         /\ lookup_in'[n] = lookup_in[n] \o e.lookup /\ lookup_in'[n] \in Seq(MIPAddress)
         /\ \A packet \in delivered'[n] : Handed(n, packet)
         /\ \A p \in Wires : wire'[p] \in Seq(FramesOf(p[1]))
<1>1. /\ NodeOK(n, mip[n], daemon[n], update_in[n], update_out[n], lookup_in[n],
                lookup_out[n], delivered[n])
      /\ Domains /\ \A p \in Wires : wire[p] \in Seq(FramesOf(p[1]))
  BY DEF NetInv
<1>2. /\ DOMAIN mip = Node /\ DOMAIN update_in = Node /\ DOMAIN lookup_in = Node
      /\ DOMAIN delivered = Node /\ DOMAIN wire = Wires
  BY <1>1 DEF Domains
<1>3. /\ mip' = [mip EXCEPT ![n] = e.mip]
      /\ update_in' = [update_in EXCEPT ![n] = update_in[n] \o e.update]
      /\ lookup_in' = [lookup_in EXCEPT ![n] = lookup_in[n] \o e.lookup]
      /\ delivered' = [delivered EXCEPT ![n] =
                         delivered[n] \cup {e.transport[i] : i \in DOMAIN e.transport}]
      /\ wire' = [p \in DOMAIN wire |->
                    (IF p = taken THEN Tail(wire[p]) ELSE wire[p]) \o Carried(e.out, p)]
  BY DEF Does
<1>4. /\ update_in[n] \in Seq(News(n)) /\ lookup_in[n] \in Seq(MIPAddress)
      /\ Leads(Neighbours(daemon[n]), update_in[n], Partners(mip[n]))
      /\ \A packet \in delivered[n] : Handed(n, packet)
  BY <1>1 DEF NodeOK
<1>5. /\ e.mip \in MIPType(n) /\ e.update \in Seq(News(n))
      /\ e.lookup \in Seq(MIPAddress) /\ e.out \in Seq(Out)
      /\ \A i \in DOMAIN e.transport : Handed(n, e.transport[i])
      /\ Leads(Partners(mip[n]), e.update, Partners(e.mip))
  BY DEF EffectOK
<1>6. /\ mip'[n] = e.mip /\ update_in'[n] = update_in[n] \o e.update
      /\ lookup_in'[n] = lookup_in[n] \o e.lookup
      /\ delivered'[n] = delivered[n] \cup {e.transport[i] : i \in DOMAIN e.transport}
  BY <1>2, <1>3
<1>7. /\ \A k \in Node \ {n} :
           /\ mip'[k] = mip[k] /\ update_in'[k] = update_in[k]
           /\ lookup_in'[k] = lookup_in[k] /\ delivered'[k] = delivered[k]
      /\ DOMAIN mip' = Node /\ DOMAIN update_in' = Node
      /\ DOMAIN lookup_in' = Node /\ DOMAIN delivered' = Node /\ DOMAIN wire' = Wires
  BY <1>2, <1>3
<1>8. ASSUME NEW p \in Wires PROVE wire'[p] \in Seq(FramesOf(p[1]))
  <2> DEFINE F == FramesOf(p[1])
             rest == IF p = taken THEN Tail(wire[p]) ELSE wire[p]
             more == Carried(e.out, p)
  <2>1. wire'[p] = rest \o more
    BY <1>2, <1>3
  <2>2. more \in Seq(F)
    BY <1>5, CarriedOK
  <2>3. wire[p] \in Seq(F)
    BY <1>1
  <2> HIDE DEF F, more
  <2>4. rest \in Seq(F)
    BY <2>3
  <2> HIDE DEF rest
  <2> QED BY <2>1, <2>2, <2>4 DEF F
<1>9. Leads(Neighbours(daemon[n]), update_in[n] \o e.update, Partners(e.mip))
  BY <1>4, <1>5, NewsShape, LeadsOn
<1>10. update_in[n] \o e.update \in Seq(News(n)) /\ lookup_in[n] \o e.lookup \in Seq(MIPAddress)
  BY <1>4, <1>5
<1>11. \A packet \in delivered'[n] : Handed(n, packet)
  BY <1>4, <1>5, <1>6
<1> QED BY <1>5, <1>6, <1>7, <1>8, <1>9, <1>10, <1>11

(***************************************************************************)
(* The lookups on their way from MIP_deamon to routing_deamon and back.    *)
(***************************************************************************)
\* What the answers are about.
LEMMA AboutsOf ==
  ASSUME NEW q \in Seq(Answered)
  PROVE  /\ Abouts(q) \in Seq(MIPAddress)
         /\ \A w \in Answered : Abouts(Append(q, w)) = Abouts(q) \o <<w.about>>
         /\ q # <<>> => Abouts(q) # <<>> /\ Abouts(Tail(q)) = Tail(Abouts(q))
<1>1. \A w \in Answered : w.about \in MIPAddress
  BY DEF Answered
<1>2. DOMAIN q = 1..Len(q) /\ Len(q) \in Nat /\ \A i \in 1..Len(q) : q[i] \in Answered
  OBVIOUS
<1>3. /\ Abouts(q) \in Seq(MIPAddress) /\ Len(Abouts(q)) = Len(q)
      /\ \A i \in 1..Len(q) : Abouts(q)[i] = q[i].about
  BY <1>1, <1>2 DEF Abouts
<1>4. ASSUME NEW w \in Answered PROVE Abouts(Append(q, w)) = Abouts(q) \o <<w.about>>
  <2> DEFINE a == Append(q, w)
             d == w.about
             b == Abouts(q) \o <<d>>
  <2>1. /\ DOMAIN a = 1..Len(q) + 1 /\ a[Len(q) + 1] = w
        /\ \A i \in 1..Len(q) : a[i] = q[i]
        /\ \A i \in 1..Len(q) + 1 : a[i] \in Answered
    OBVIOUS
  <2>2. d \in MIPAddress
    BY <1>1
  <2> HIDE DEF a, d
  <2>3. /\ Abouts(a) \in Seq(MIPAddress) /\ Len(Abouts(a)) = Len(q) + 1
        /\ \A i \in 1..Len(q) + 1 : Abouts(a)[i] = a[i].about
    BY <1>1, <1>2, <2>1 DEF Abouts
  <2>4. /\ b \in Seq(MIPAddress) /\ Len(b) = Len(q) + 1 /\ b[Len(q) + 1] = d
        /\ \A i \in 1..Len(q) : b[i] = Abouts(q)[i]
    BY <1>2, <1>3, <2>2
  <2> HIDE DEF b
  <2>5. \A i \in 1..Len(q) + 1 : i \in 1..Len(q) \/ i = Len(q) + 1
    BY <1>2
  <2>6. \A i \in 1..Len(q) + 1 : Abouts(a)[i] = b[i]
    BY <1>3, <2>1, <2>3, <2>4, <2>5 DEF d
  <2>7. Abouts(a) = b
    BY <2>3, <2>4, <2>6, SeqsEqual
  <2> QED BY <2>7 DEF a, b, d
<1>5. ASSUME q # <<>> PROVE Abouts(q) # <<>> /\ Abouts(Tail(q)) = Tail(Abouts(q))
  <2> DEFINE t == Tail(q)
             b == Tail(Abouts(q))
             l == Len(q) - 1
  <2>1. Len(q) >= 1
    BY <1>5
  <2>2. Abouts(q) # <<>>
    BY <1>3, <2>1
  <2>3. /\ DOMAIN t = 1..l /\ l \in Nat /\ \A i \in 1..l : t[i] = q[i + 1] /\ i + 1 \in 1..Len(q)
    BY <1>2, <2>1
  <2>4. b \in Seq(MIPAddress) /\ Len(b) = l /\ \A i \in 1..l : b[i] = Abouts(q)[i + 1]
    BY <1>3, <2>2
  <2> HIDE DEF t, b, l
  <2>5. /\ Abouts(t) \in Seq(MIPAddress) /\ Len(Abouts(t)) = l
        /\ \A i \in 1..l : Abouts(t)[i] = t[i].about
    BY <1>1, <1>2, <2>3 DEF Abouts
  <2>6. \A i \in 1..l : Abouts(t)[i] = b[i]
    BY <1>3, <2>3, <2>4, <2>5
  <2>7. Abouts(t) = b
    BY <2>4, <2>5, <2>6, SeqsEqual
  <2> QED BY <2>2, <2>7 DEF t, b
<1> QED BY <1>3, <1>4, <1>5

\* A sequence is its first item and the others.
LEMMA Unqueued ==
  ASSUME NEW T, NEW q \in Seq(T), q # <<>>
  PROVE  /\ Head(q) \in T /\ Tail(q) \in Seq(T) /\ <<Head(q)>> \in Seq(T)
         /\ q = <<Head(q)>> \o Tail(q)
         /\ \A r \in Seq(T) : (q \o r) # <<>> /\ Tail(q \o r) = Tail(q) \o r
<1>1. /\ Head(q) \in T /\ Tail(q) \in Seq(T) /\ <<Head(q)>> \in Seq(T)
  OBVIOUS
<1> DEFINE h == <<Head(q)>>
           t == Tail(q)
<1>2. /\ Len(h) = 1 /\ h[1] = q[1] /\ Len(t) = Len(q) - 1 /\ Len(q) \in Nat /\ Len(q) >= 1
      /\ \A i \in 1..Len(q) - 1 : t[i] = q[i + 1]
  OBVIOUS
<1>3. h \in Seq(T) /\ t \in Seq(T)
  BY <1>1
<1> HIDE DEF h, t
<1>4. /\ h \o t \in Seq(T) /\ Len(h \o t) = Len(h) + Len(t)
      /\ \A i \in 1..Len(h) + Len(t) : (h \o t)[i] = IF i <= Len(h) THEN h[i] ELSE t[i - Len(h)]
  BY <1>3, Joined
<1> DEFINE c == h \o t
<1> HIDE DEF c
<1>5. c \in Seq(T) /\ Len(c) = Len(q)
  BY <1>2, <1>4 DEF c
<1>6. ASSUME NEW i \in 1..Len(q) PROVE c[i] = q[i]
  <2>1. CASE i = 1
    BY <1>2, <1>4, <2>1 DEF c
  <2>2. CASE i # 1
    <3>1. ~(i <= 1) /\ i - 1 \in 1..Len(q) - 1 /\ i - 1 + 1 = i /\ i \in 1..1 + (Len(q) - 1)
      BY <1>2, <2>2
    <3> QED BY <1>2, <1>4, <3>1 DEF c
  <2> QED BY <2>1, <2>2
<1>7. q = c
  BY <1>5, <1>6, SeqsEqual
<1>8. ASSUME NEW r \in Seq(T) PROVE (q \o r) # <<>> /\ Tail(q \o r) = t \o r
  <2>1. q \o r = h \o (t \o r)
    BY <1>3, <1>7, ConcatAssociative DEF c
  <2> DEFINE s == t \o r
  <2>2. s \in Seq(T)
    BY <1>3
  <2> HIDE DEF s
  <2>3. Head(q) \in T
    BY <1>1
  <2>4. <<Head(q)>> \o s # <<>> /\ Tail(<<Head(q)>> \o s) = s
    <3> DEFINE x == Head(q)
    <3> HIDE DEF x
    <3>1. x \in T
      BY <2>3 DEF x
    <3>2. <<x>> \o s # <<>> /\ Tail(<<x>> \o s) = s
      BY <2>2, <3>1
    <3> QED BY <3>2 DEF x
  <2> QED BY <2>1, <2>4 DEF h, s
<1> QED BY <1>1, <1>7, <1>8 DEF c, h, t

\* Three queues in a row: the head of the last moves to the end of the middle one.
LEMMA MovesOn ==
  ASSUME NEW T, NEW a \in Seq(T), NEW q \in Seq(T), NEW l \in Seq(T), l # <<>>
  PROVE  a \o (q \o <<Head(l)>>) \o Tail(l) = a \o q \o l
<1> DEFINE h == <<Head(l)>>
           t == Tail(l)
<1>1. h \in Seq(T)
  BY Unqueued
<1>2. t \in Seq(T)
  BY Unqueued
<1>3. l = h \o t
  BY Unqueued
<1> HIDE DEF h, t
<1>4. a \o q \o h = a \o (q \o h)
  BY <1>1, ConcatAssociative
<1>5. a \o q \o h \o t = a \o q \o (h \o t)
  <2> DEFINE aq == a \o q
  <2>1. aq \in Seq(T)
    OBVIOUS
  <2> HIDE DEF aq
  <2>2. aq \o h \o t = aq \o (h \o t)
    BY ONLY <1>1, <1>2, <2>1, ConcatAssociative, SMTT(40)
  <2> QED BY ONLY <2>2 DEF aq
<1> QED BY <1>3, <1>4, <1>5 DEF h, t

\* The head of the middle one moves to the end of the first.
LEMMA MovesOut ==
  ASSUME NEW T, NEW a \in Seq(T), NEW q \in Seq(T), NEW l \in Seq(T), q # <<>>
  PROVE  a \o <<Head(q)>> \o Tail(q) \o l = a \o q \o l
<1> DEFINE h == <<Head(q)>>
           t == Tail(q)
<1>1. h \in Seq(T) /\ t \in Seq(T) /\ q = h \o t
  BY Unqueued
<1> HIDE DEF h, t
<1>2. a \o h \o t = a \o q
  BY <1>1, ConcatAssociative
<1> QED BY <1>2 DEF h, t

\* The head of the first one leaves.
LEMMA Leaves ==
  ASSUME NEW T, NEW a \in Seq(T), NEW q \in Seq(T), NEW l \in Seq(T), a # <<>>
  PROVE  Tail(a) \o q \o l = Tail(a \o q \o l)
<1> DEFINE aq == a \o q
<1>1. aq \in Seq(T) /\ aq # <<>> /\ Tail(aq) = Tail(a) \o q
  BY Unqueued
<1> HIDE DEF aq
<1>2. Tail(aq \o l) = Tail(aq) \o l
  BY <1>1, Unqueued
<1> QED BY <1>1, <1>2 DEF aq

\* The parts of the invariant at a node.
LEMMA NodeParts ==
  ASSUME NetInv, NEW n \in Node
  PROVE  /\ mip[n] \in MIPType(n) /\ DaemonOK(daemon[n])
         /\ WaysOK(n, daemon[n].distance_vector_table)
         /\ update_in[n] \in Seq(News(n)) /\ update_out[n] \in Seq(ToTell(n))
         /\ lookup_in[n] \in Seq(MIPAddress) /\ lookup_out[n] \in Seq(Answered)
         /\ \A packet \in delivered[n] : Handed(n, packet)
         /\ Leads(Neighbours(daemon[n]), update_in[n], Partners(mip[n]))
         /\ Abouts(lookup_out[n]) \o daemon[n].lookup_queue \o lookup_in[n] =
              Dests(mip[n].lookup_queue)
         /\ daemon[n] \in DeamonType /\ daemon[n].lookup_queue \in Seq(MIPAddress)
BY DEF NetInv, NodeOK, DaemonOK, DeamonType

\* The lookups a handler asks join those under way.
LEMMA AskedOK ==
  ASSUME NetInv, NEW n \in Node, NEW e, e.lookup \in Seq(MIPAddress),
         LookupsAsked(mip[n], e)
  PROVE  Abouts(lookup_out[n]) \o daemon[n].lookup_queue \o (lookup_in[n] \o e.lookup) =
           Dests(e.mip.lookup_queue)
<1> DEFINE a == Abouts(lookup_out[n])
           q == daemon[n].lookup_queue
           l == lookup_in[n]
           x == e.lookup
<1>1. a \in Seq(MIPAddress)
  BY NodeParts, AboutsOf
<1>2. q \in Seq(MIPAddress)
  BY NodeParts
<1>3. l \in Seq(MIPAddress)
  BY NodeParts
<1>4. x \in Seq(MIPAddress)
  OBVIOUS
<1>5. a \o q \o l = Dests(mip[n].lookup_queue)
  BY NodeParts
<1>6. Dests(e.mip.lookup_queue) = Dests(mip[n].lookup_queue) \o x
  BY DEF LookupsAsked
<1> HIDE DEF a, q, l, x
<1>7. a \o q \o (l \o x) = a \o q \o l \o x
  <2> DEFINE aq == a \o q
  <2>1. aq \in Seq(MIPAddress)
    BY <1>1, <1>2
  <2> HIDE DEF aq
  <2>2. aq \o l \o x = aq \o (l \o x)
    BY <1>3, <1>4, <2>1, ConcatAssociative
  <2> QED BY <2>2 DEF aq
<1> QED BY <1>5, <1>6, <1>7 DEF a, q, l, x

\* A handler of MIP_deamon, and what it read from routing_deamon.
LEMMA EffectStep ==
  ASSUME NetInv, NEW n \in Node, NEW e, EffectOK(n, mip[n], e),
         NEW taken, taken \in Wires => wire[taken] # <<>>, Does(n, e, taken),
         UNCHANGED daemon, DOMAIN update_out' = Node, DOMAIN lookup_out' = Node,
         update_out'[n] \in Seq(ToTell(n)), lookup_out'[n] \in Seq(Answered),
         \A k \in Node \ {n} : update_out'[k] = update_out[k] /\ lookup_out'[k] = lookup_out[k],
         Abouts(lookup_out'[n]) \o daemon[n].lookup_queue \o (lookup_in[n] \o e.lookup) =
           Dests(e.mip.lookup_queue),
         started' \subseteq Node, up' \subseteq Links, unsent' \subseteq Sends
  PROVE  NetInv'
<1>1. /\ \A k \in Node \ {n} :
           /\ mip'[k] = mip[k] /\ update_in'[k] = update_in[k]
           /\ lookup_in'[k] = lookup_in[k] /\ delivered'[k] = delivered[k]
      /\ DOMAIN mip' = Node /\ DOMAIN update_in' = Node
      /\ DOMAIN lookup_in' = Node /\ DOMAIN delivered' = Node /\ DOMAIN wire' = Wires
      /\ mip'[n] = e.mip /\ mip'[n] \in MIPType(n)
      /\ update_in'[n] \in Seq(News(n))
      /\ Leads(Neighbours(daemon[n]), update_in'[n], Partners(mip'[n]))
      /\ lookup_in'[n] = lookup_in[n] \o e.lookup /\ lookup_in'[n] \in Seq(MIPAddress)
      /\ \A packet \in delivered'[n] : Handed(n, packet)
      /\ \A p \in Wires : wire'[p] \in Seq(FramesOf(p[1]))
  BY DoesOK
<1>2. daemon' = daemon
  OBVIOUS
<1>3. Others(n)
  BY <1>1, <1>2 DEF Others
<1>4. Domains'
  BY <1>1, <1>2 DEF NetInv, Domains
<1>5. Abouts(lookup_out'[n]) \o daemon[n].lookup_queue \o lookup_in'[n] =
        Dests(mip'[n].lookup_queue)
  BY <1>1
<1>6. DaemonOK(daemon[n]) /\ WaysOK(n, daemon[n].distance_vector_table)
  BY NodeParts
<1>7. NodeOK(n, mip'[n], daemon'[n], update_in'[n], update_out'[n],
             lookup_in'[n], lookup_out'[n], delivered'[n])
  BY <1>1, <1>2, <1>5, <1>6 DEF NodeOK
<1> QED BY <1>1, <1>3, <1>4, <1>7, OneNode

\* A handler of MIP_deamon that reads nothing from routing_deamon.
LEMMA HandlerStep ==
  ASSUME NetInv, NEW n \in Node, NEW e, EffectOK(n, mip[n], e), LookupsAsked(mip[n], e),
         NEW taken, taken \in Wires => wire[taken] # <<>>, Does(n, e, taken),
         UNCHANGED <<daemon, update_out, lookup_out>>,
         started' \subseteq Node, up' \subseteq Links, unsent' \subseteq Sends
  PROVE  NetInv'
<1>1. daemon' = daemon /\ update_out' = update_out /\ lookup_out' = lookup_out
  OBVIOUS
<1>2. e.lookup \in Seq(MIPAddress)
  BY DEF EffectOK
<1>3. Abouts(lookup_out'[n]) \o daemon[n].lookup_queue \o (lookup_in[n] \o e.lookup) =
        Dests(e.mip.lookup_queue)
  BY ONLY NetInv, n \in Node, LookupsAsked(mip[n], e), <1>1, <1>2, AskedOK
<1>4. /\ DOMAIN update_out' = Node /\ DOMAIN lookup_out' = Node
      /\ update_out'[n] \in Seq(ToTell(n)) /\ lookup_out'[n] \in Seq(Answered)
      /\ \A k \in Node \ {n} : update_out'[k] = update_out[k] /\ lookup_out'[k] = lookup_out[k]
  BY <1>1, NodeParts DEF NetInv, Domains
<1> QED BY <1>1, <1>3, <1>4, EffectStep

\* No wire was read.
LEMMA NothingRead ==
  NothingTaken \notin Wires
BY DEF NothingTaken, Wires

LEMMA StartStep ==
  ASSUME NetInv, NEW n \in Node, Start(n)
  PROVE  NetInv'
<1> DEFINE e == M!startUp(mip[n], Socks(n))
<1>1. mip[n] \in MIPType(n) /\ Socks(n) \in Seq(Interfaces(n))
  BY NodeParts, SocksOK
<1>2. EffectOK(n, mip[n], e) /\ LookupsAsked(mip[n], e)
  BY <1>1, StartUpOK
<1> HIDE DEF e
<1>3. Does(n, e, NothingTaken) /\ UNCHANGED <<daemon, update_out, lookup_out>>
  BY DEF Start, e
<1>4. started' \subseteq Node /\ up' \subseteq Links /\ unsent' \subseteq Sends
  BY DEF Start, NetInv
<1> QED BY <1>2, <1>3, <1>4, NothingRead, HandlerStep

LEMMA TimerStep ==
  ASSUME NetInv, NEW n \in Node, Timer(n)
  PROVE  NetInv'
<1> DEFINE e == M!handleTimer(mip[n], Socks(n))
<1>1. mip[n] \in MIPType(n) /\ Socks(n) \in Seq(Interfaces(n))
  BY NodeParts, SocksOK
<1>2. EffectOK(n, mip[n], e) /\ LookupsAsked(mip[n], e)
  BY <1>1, TimerOK
<1> HIDE DEF e
<1>3. Does(n, e, NothingTaken) /\ UNCHANGED <<daemon, update_out, lookup_out>>
  BY DEF Timer, e
<1>4. started' \subseteq Node /\ up' \subseteq Links /\ unsent' \subseteq Sends
  BY DEF Timer, NetInv
<1> QED BY <1>2, <1>3, <1>4, NothingRead, HandlerStep

LEMMA RawSockStep ==
  ASSUME NetInv, NEW n \in Node, NEW p \in Wires, ReceiveRawSock(n, p)
  PROVE  NetInv'
<1> DEFINE f == Head(wire[p])
           e == M!receiveRawSock(mip[n], p[2], f)
<1>1. /\ NodeOf[p[2]] = n /\ wire[p] # <<>> /\ Does(n, e, p)
      /\ UNCHANGED <<daemon, update_out, lookup_out>>
      /\ started' \subseteq Node /\ up' \subseteq Links /\ unsent' \subseteq Sends
  BY DEF ReceiveRawSock, NetInv
<1>2. p[1] \in MIPAddress /\ p[2] \in Interfaces(n) /\ Hears(p[1], p[2])
  BY <1>1 DEF Wires, Interfaces
<1>3. f \in FramesOf(p[1])
  <2>1. wire[p] \in Seq(FramesOf(p[1]))
    BY DEF NetInv
  <2> QED BY <1>1, <2>1, Unqueued
<1>4. mip[n] \in MIPType(n)
  BY NodeParts
<1> HIDE DEF f
<1>5. EffectOK(n, mip[n], e) /\ LookupsAsked(mip[n], e)
  BY <1>2, <1>3, <1>4, RawSockOK
<1> HIDE DEF e
<1> QED BY <1>1, <1>5, HandlerStep

LEMMA TransportSockStep ==
  ASSUME NetInv, NEW n \in Node, NEW s \in unsent, ReceiveTransportSock(n, s)
  PROVE  NetInv'
<1> DEFINE e == M!receiveTransportSock(mip[n], M!Packet(s.dest, s.msg))
<1>1. /\ s.node = n /\ Does(n, e, NothingTaken) /\ UNCHANGED <<daemon, update_out, lookup_out>>
      /\ s \in Sends
      /\ started' \subseteq Node /\ up' \subseteq Links /\ unsent' \subseteq Sends
  BY DEF ReceiveTransportSock, NetInv
<1>2. mip[n] \in MIPType(n)
  BY NodeParts
<1>3. EffectOK(n, mip[n], e) /\ LookupsAsked(mip[n], e)
  BY <1>1, <1>2, TransportSockOK
<1> HIDE DEF e
<1> QED BY <1>1, <1>3, NothingRead, HandlerStep

LEMMA AdvertSockStep ==
  ASSUME NetInv, NEW n \in Node, ReceiveAdvertSock(n)
  PROVE  NetInv'
<1> DEFINE told == Head(update_out[n])
           e == M!receiveUpdateSock(mip[n], told.dest, told.advert)
<1>1. /\ update_out[n] # <<>> /\ Does(n, e, NothingTaken) /\ UNCHANGED <<daemon, lookup_out>>
      /\ update_out' = [update_out EXCEPT ![n] = Tail(update_out[n])]
      /\ started' \subseteq Node /\ up' \subseteq Links /\ unsent' \subseteq Sends
  BY DEF ReceiveAdvertSock, NetInv
<1>2. update_out[n] \in Seq(ToTell(n)) /\ lookup_out[n] \in Seq(Answered) /\ mip[n] \in MIPType(n)
  BY NodeParts
<1>3. told \in ToTell(n) /\ Tail(update_out[n]) \in Seq(ToTell(n))
  BY <1>1, <1>2, Unqueued
<1>4. told.dest \in MIPAddress /\ told.advert \in AdvertsOf(n)
  BY <1>3 DEF ToTell
<1> HIDE DEF told
<1>5. EffectOK(n, mip[n], e) /\ LookupsAsked(mip[n], e)
  BY <1>2, <1>4, AdvertSockOK
<1> HIDE DEF e
<1>6. e.lookup \in Seq(MIPAddress)
  BY <1>5 DEF EffectOK
<1>7. Abouts(lookup_out[n]) \o daemon[n].lookup_queue \o (lookup_in[n] \o e.lookup) =
        Dests(e.mip.lookup_queue)
  BY ONLY NetInv, n \in Node, <1>5, <1>6, AskedOK
<1>8. /\ DOMAIN update_out' = Node /\ DOMAIN lookup_out' = Node
      /\ update_out'[n] \in Seq(ToTell(n)) /\ lookup_out'[n] \in Seq(Answered)
      /\ \A k \in Node \ {n} : update_out'[k] = update_out[k] /\ lookup_out'[k] = lookup_out[k]
      /\ lookup_out' = lookup_out
  BY <1>1, <1>2, <1>3 DEF NetInv, Domains
<1> QED BY <1>1, <1>5, <1>7, <1>8, NothingRead, EffectStep

\* The answer and the frame it is for leave at once.
LEMMA AnswerSockStep ==
  ASSUME NetInv, NEW n \in Node, ReceiveAnswerSock(n)
  PROVE  NetInv'
<1> DEFINE lo == lookup_out[n]
           via == Head(lo).via
           e == M!receiveLookupSock(mip[n], via)
           a == Abouts(lo)
           q == daemon[n].lookup_queue
           l == lookup_in[n]
<1>1. /\ lo # <<>> /\ Does(n, e, NothingTaken) /\ UNCHANGED <<daemon, update_out>>
      /\ lookup_out' = [lookup_out EXCEPT ![n] = Tail(lo)]
      /\ started' \subseteq Node /\ up' \subseteq Links /\ unsent' \subseteq Sends
  BY DEF ReceiveAnswerSock, NetInv
<1>2. /\ update_out[n] \in Seq(ToTell(n)) /\ lo \in Seq(Answered) /\ mip[n] \in MIPType(n)
      /\ a \o q \o l = Dests(mip[n].lookup_queue)
  BY NodeParts
<1>3. q \in Seq(MIPAddress)
  BY NodeParts
<1>4. l \in Seq(MIPAddress)
  BY NodeParts
<1>5. a \in Seq(MIPAddress)
  BY <1>2, AboutsOf
<1>6. a # <<>> /\ Abouts(Tail(lo)) = Tail(a)
  BY <1>1, <1>2, AboutsOf
<1>7. Head(lo) \in Answered /\ Tail(lo) \in Seq(Answered)
  BY <1>1, <1>2, Unqueued
<1>8. via \in Seq(MIPAddress)
  BY <1>7 DEF Answered
<1> HIDE DEF via, q, l, a
<1>9. a \o q \o l # <<>> /\ Tail(a) \o q \o l = Tail(a \o q \o l)
  <2> DEFINE aq == a \o q
  <2>1. aq # <<>>
    BY <1>3, <1>5, <1>6, Unqueued
  <2>2. aq \in Seq(MIPAddress)
    BY <1>3, <1>5
  <2> HIDE DEF aq
  <2>3. aq \o l # <<>>
    BY <1>4, <2>1, <2>2, Unqueued
  <2> QED BY <1>3, <1>4, <1>5, <1>6, <2>3, Leaves DEF aq
<1>10. mip[n].lookup_queue # <<>>
  <2>1. Dests(<<>>) = <<>>
    BY DEF Dests
  <2> QED BY <1>2, <1>9, <2>1
<1>11. /\ EffectOK(n, mip[n], e) /\ e.lookup = <<>>
       /\ Dests(e.mip.lookup_queue) = Tail(Dests(mip[n].lookup_queue))
  BY <1>2, <1>8, <1>10, LookupSockOK
<1> HIDE DEF e
<1>12. l \o e.lookup = l
  BY <1>4, <1>11
<1>13. /\ DOMAIN update_out' = Node /\ DOMAIN lookup_out' = Node
       /\ update_out'[n] \in Seq(ToTell(n)) /\ lookup_out'[n] = Tail(lo)
       /\ lookup_out'[n] \in Seq(Answered)
       /\ \A k \in Node \ {n} : update_out'[k] = update_out[k] /\ lookup_out'[k] = lookup_out[k]
  BY <1>1, <1>2, <1>7 DEF NetInv, Domains
<1>14. Abouts(lookup_out'[n]) \o q \o (l \o e.lookup) = Dests(e.mip.lookup_queue)
  BY <1>2, <1>6, <1>9, <1>11, <1>12, <1>13
<1> QED BY <1>1, <1>11, <1>13, <1>14, NothingRead, EffectStep DEF q, l

\* A step of routing_deamon.
LEMMA DeamonStep ==
  ASSUME NetInv, NEW n \in Node, NEW d, DaemonOK(d),
         WaysOK(n, d.distance_vector_table), daemon' = [daemon EXCEPT ![n] = d],
         UNCHANGED <<mip, wire, delivered, started, up, unsent>>,
         DOMAIN update_in' = Node, DOMAIN update_out' = Node,
         DOMAIN lookup_in' = Node, DOMAIN lookup_out' = Node,
         \A k \in Node \ {n} :
           /\ update_in'[k] = update_in[k] /\ update_out'[k] = update_out[k]
           /\ lookup_in'[k] = lookup_in[k] /\ lookup_out'[k] = lookup_out[k],
         update_in'[n] \in Seq(News(n)), update_out'[n] \in Seq(ToTell(n)),
         lookup_in'[n] \in Seq(MIPAddress), lookup_out'[n] \in Seq(Answered),
         Leads(Neighbours(d), update_in'[n], Partners(mip[n])),
         Abouts(lookup_out'[n]) \o d.lookup_queue \o lookup_in'[n] = Dests(mip[n].lookup_queue)
  PROVE  NetInv'
<1>1. /\ mip' = mip /\ wire' = wire /\ delivered' = delivered
      /\ started' = started /\ up' = up /\ unsent' = unsent
  OBVIOUS
<1>2. /\ daemon'[n] = d /\ DOMAIN daemon' = Node
      /\ \A k \in Node \ {n} : daemon'[k] = daemon[k]
  BY DEF NetInv, Domains
<1>3. Others(n)
  BY <1>1, <1>2 DEF Others
<1>4. Domains'
  BY <1>1, <1>2 DEF NetInv, Domains
<1>5. mip[n] \in MIPType(n) /\ \A packet \in delivered[n] : Handed(n, packet)
  BY NodeParts
<1>6. NodeOK(n, mip'[n], daemon'[n], update_in'[n], update_out'[n],
             lookup_in'[n], lookup_out'[n], delivered'[n])
  BY <1>1, <1>2, <1>5 DEF NodeOK
<1> QED BY <1>1, <1>3, <1>4, <1>6, OneNode DEF NetInv

\* The domains, at a step.
LEMMA DomainsNow ==
  ASSUME NetInv
  PROVE  /\ DOMAIN update_in = Node /\ DOMAIN update_out = Node
         /\ DOMAIN lookup_in = Node /\ DOMAIN lookup_out = Node
BY DEF NetInv, Domains

\* The list follows the message that was read.
LEMMA ReadUpdateStep ==
  ASSUME NetInv, NEW n \in Node, ReadUpdate(n)
  PROVE  NetInv'
<1> DEFINE msg == Head(update_in[n])
           d == receiveUpdateSock(daemon[n], msg)
<1>1. /\ update_in[n] # <<>> /\ update_in' = [update_in EXCEPT ![n] = Tail(update_in[n])]
      /\ daemon' = [daemon EXCEPT ![n] = d]
      /\ UNCHANGED <<mip, wire, delivered, started, up, unsent>>
      /\ update_out' = update_out /\ lookup_in' = lookup_in /\ lookup_out' = lookup_out
  BY DEF ReadUpdate
<1>2. /\ update_in[n] \in Seq(News(n)) /\ update_out[n] \in Seq(ToTell(n))
      /\ lookup_in[n] \in Seq(MIPAddress) /\ lookup_out[n] \in Seq(Answered)
      /\ DaemonOK(daemon[n])
      /\ WaysOK(n, daemon[n].distance_vector_table)
      /\ Leads(Neighbours(daemon[n]), update_in[n], Partners(mip[n]))
      /\ Abouts(lookup_out[n]) \o daemon[n].lookup_queue \o lookup_in[n] =
           Dests(mip[n].lookup_queue)
  BY NodeParts
<1>3. msg \in News(n) /\ msg \in Update /\ Tail(update_in[n]) \in Seq(News(n))
  BY <1>1, <1>2, Unqueued DEF News
<1>4. Leads(Learnt(Neighbours(daemon[n]), msg), Tail(update_in[n]), Partners(mip[n]))
  BY <1>1, <1>2, NewsShape, LeadsLess
<1> HIDE DEF msg
<1>5. /\ DaemonOK(d) /\ d.lookup_queue = daemon[n].lookup_queue
      /\ Neighbours(d) = Learnt(Neighbours(daemon[n]), msg)
      /\ WaysOK(n, d.distance_vector_table)
  <2> DEFINE t == daemon[n].distance_vector_table
  <2>1. WaysOK(n, NewTable(t, msg))
    BY <1>2, <1>3, NewTableWays DEF DaemonOK, DeamonType
  <2> HIDE DEF d, t
  <2>2. d.distance_vector_table \in {t, NewTable(t, msg)}
    BY <1>2, <1>3, UpdateHandled DEF DaemonOK, d, t
  <2> QED BY <1>2, <1>3, <2>1, <2>2, UpdateHandled DEF DaemonOK, d, t
<1> HIDE DEF d
<1>6. /\ update_in'[n] = Tail(update_in[n]) /\ DOMAIN update_in' = Node
      /\ \A k \in Node \ {n} : update_in'[k] = update_in[k]
  BY <1>1, DomainsNow
<1> QED BY <1>1, <1>2, <1>3, <1>4, <1>5, <1>6, DomainsNow, DeamonStep

\* A lookup moves to the queue of the lookup thread.
LEMMA ReadLookupStep ==
  ASSUME NetInv, NEW n \in Node, ReadLookup(n)
  PROVE  NetInv'
<1> DEFINE l == lookup_in[n]
           a == Abouts(lookup_out[n])
           q == daemon[n].lookup_queue
           d == receiveLookupSock(daemon[n], Head(l))
<1>1. /\ l # <<>> /\ lookup_in' = [lookup_in EXCEPT ![n] = Tail(l)]
      /\ daemon' = [daemon EXCEPT ![n] = d]
      /\ UNCHANGED <<mip, wire, delivered, started, up, unsent>>
      /\ update_in' = update_in /\ update_out' = update_out /\ lookup_out' = lookup_out
  BY DEF ReadLookup
<1>2. /\ update_in[n] \in Seq(News(n)) /\ update_out[n] \in Seq(ToTell(n))
      /\ lookup_out[n] \in Seq(Answered) /\ DaemonOK(daemon[n])
      /\ WaysOK(n, daemon[n].distance_vector_table)
      /\ Leads(Neighbours(daemon[n]), update_in[n], Partners(mip[n]))
      /\ a \o q \o l = Dests(mip[n].lookup_queue)
  BY NodeParts
<1>3. l \in Seq(MIPAddress)
  BY NodeParts
<1>4. q \in Seq(MIPAddress)
  BY NodeParts
<1>5. a \in Seq(MIPAddress)
  BY <1>2, AboutsOf
<1>6. Head(l) \in MIPAddress /\ Tail(l) \in Seq(MIPAddress)
  BY <1>1, <1>3, Unqueued
<1>7. DaemonOK(d) /\ d.lookup_queue = Append(q, Head(l)) /\ Neighbours(d) = Neighbours(daemon[n])
      /\ d.distance_vector_table = daemon[n].distance_vector_table
  <2>1. /\ d \in DeamonType /\ d.lookup_queue = Append(q, Head(l))
        /\ d.walk = daemon[n].walk /\ d.spare = daemon[n].spare
        /\ d.neighbour_mip_vec = daemon[n].neighbour_mip_vec
        /\ d.distance_vector_table = daemon[n].distance_vector_table
    BY <1>2, <1>6, LookupHandled DEF DaemonOK
  <2> HIDE DEF d
  <2> QED BY <1>2, <2>1 DEF DaemonOK, StorageOK, Walking, Neighbours
<1>8. a \o Append(q, Head(l)) \o Tail(l) = a \o q \o l
  <2>1. l # <<>>
    BY <1>1
  <2> HIDE DEF a, q, l
  <2>2. a \o (q \o <<Head(l)>>) \o Tail(l) = a \o q \o l
    <3>1. a \in Seq(MIPAddress) /\ q \in Seq(MIPAddress) /\ l \in Seq(MIPAddress)
      BY <1>3, <1>4, <1>5
    <3> QED BY ONLY <2>1, <3>1, MovesOn
  <2>3. Append(q, Head(l)) = q \o <<Head(l)>>
    BY <1>4, <1>6, AppendIsConcat
  <2> QED BY <2>2, <2>3
<1> HIDE DEF d
<1>9. /\ lookup_in'[n] = Tail(l) /\ DOMAIN lookup_in' = Node
      /\ \A k \in Node \ {n} : lookup_in'[k] = lookup_in[k]
  BY <1>1, DomainsNow
<1>10. Abouts(lookup_out'[n]) \o d.lookup_queue \o lookup_in'[n] = Dests(mip[n].lookup_queue)
  BY <1>1, <1>2, <1>7, <1>8, <1>9
<1> QED BY <1>1, <1>2, <1>6, <1>7, <1>9, <1>10, DomainsNow, DeamonStep

LEMMA StartWalkStep ==
  ASSUME NetInv, NEW n \in Node, StartWalk(n)
  PROVE  NetInv'
<1> DEFINE d == popUpdate(daemon[n])
<1>1. /\ daemon[n].update_queue # <<>> /\ daemon' = [daemon EXCEPT ![n] = d]
      /\ UNCHANGED <<mip, wire, delivered, started, up, unsent>>
      /\ update_in' = update_in /\ update_out' = update_out
      /\ lookup_in' = lookup_in /\ lookup_out' = lookup_out
  BY DEF StartWalk
<1>2. /\ update_in[n] \in Seq(News(n)) /\ update_out[n] \in Seq(ToTell(n))
      /\ lookup_in[n] \in Seq(MIPAddress) /\ lookup_out[n] \in Seq(Answered)
      /\ DaemonOK(daemon[n])
      /\ WaysOK(n, daemon[n].distance_vector_table)
      /\ Leads(Neighbours(daemon[n]), update_in[n], Partners(mip[n]))
      /\ Abouts(lookup_out[n]) \o daemon[n].lookup_queue \o lookup_in[n] =
           Dests(mip[n].lookup_queue)
  BY NodeParts
<1>3. Same(daemon[n], d) /\ StorageOK(d) /\ d.walk.next >= 1
  BY <1>1, <1>2, WalkStarts DEF DaemonOK
<1> HIDE DEF d
<1>4. /\ DaemonOK(d) /\ d.lookup_queue = daemon[n].lookup_queue
      /\ Neighbours(d) = Neighbours(daemon[n])
      /\ WaysOK(n, d.distance_vector_table)
  BY <1>2, <1>3 DEF DaemonOK, Same, Neighbours
<1> QED BY <1>1, <1>2, <1>4, DomainsNow, DeamonStep

\* The update thread writes to a neighbour.
LEMMA WalkStep ==
  ASSUME NetInv, NEW n \in Node, Walk(n)
  PROVE  NetInv'
<1> DEFINE d == stepWalk(daemon[n])
<1>1. PICK dest \in Targets(daemon[n]) :
        update_out' = [update_out EXCEPT ![n] = update_out[n] \o Advertised(daemon[n], dest)]
  BY DEF Walk
<1>2. /\ Walking(daemon[n]) /\ daemon' = [daemon EXCEPT ![n] = d]
      /\ UNCHANGED <<mip, wire, delivered, started, up, unsent>>
      /\ update_in' = update_in /\ lookup_in' = lookup_in /\ lookup_out' = lookup_out
  BY DEF Walk
<1>3. /\ update_in[n] \in Seq(News(n)) /\ update_out[n] \in Seq(ToTell(n))
      /\ lookup_in[n] \in Seq(MIPAddress) /\ lookup_out[n] \in Seq(Answered)
      /\ DaemonOK(daemon[n])
      /\ WaysOK(n, daemon[n].distance_vector_table)
      /\ Leads(Neighbours(daemon[n]), update_in[n], Partners(mip[n]))
      /\ Abouts(lookup_out[n]) \o daemon[n].lookup_queue \o lookup_in[n] =
           Dests(mip[n].lookup_queue)
  BY NodeParts
<1>4. Same(daemon[n], d) /\ StorageOK(d) /\ d.walk.next >= 1
  BY <1>2, <1>3, WalkGoesOn DEF DaemonOK
<1> HIDE DEF d
<1>5. /\ DaemonOK(d) /\ d.lookup_queue = daemon[n].lookup_queue
      /\ Neighbours(d) = Neighbours(daemon[n])
      /\ WaysOK(n, d.distance_vector_table)
  BY <1>3, <1>4 DEF DaemonOK, Same, Neighbours
<1>6. dest \in MIPAddress
  BY <1>1, <1>2, <1>3, TargetsOK DEF DaemonOK
<1>7. Advertised(daemon[n], dest) \in Seq(ToTell(n))
  <2>1. packAdvertisment(daemon[n].distance_vector_table, dest) \in AdvertsOf(n)
    BY <1>3, PackWays DEF DaemonOK, DeamonType
  <2> QED BY <1>6, <2>1, AdvertisedOK DEF ToTell
<1> DEFINE more == Advertised(daemon[n], dest)
<1> HIDE DEF more
<1>8. update_out[n] \o more \in Seq(ToTell(n))
  BY <1>3, <1>7 DEF more
<1>9. /\ update_out'[n] = update_out[n] \o more /\ DOMAIN update_out' = Node
      /\ \A k \in Node \ {n} : update_out'[k] = update_out[k]
  BY <1>1, DomainsNow DEF more
<1> QED BY <1>2, <1>3, <1>5, <1>8, <1>9, DomainsNow, DeamonStep

\* The lookup thread answers the first lookup.
LEMMA AnswerLookupStep ==
  ASSUME NetInv, NEW n \in Node, AnswerLookup(n)
  PROVE  NetInv'
<1> DEFINE l == lookup_in[n]
           lo == lookup_out[n]
           q == daemon[n].lookup_queue
           d == popLookup(daemon[n])
           answer == [about |-> Head(q), via |-> Answer(daemon[n])]
<1>1. /\ q # <<>> /\ lookup_out' = [lookup_out EXCEPT ![n] = Append(lo, answer)]
      /\ daemon' = [daemon EXCEPT ![n] = d]
      /\ UNCHANGED <<mip, wire, delivered, started, up, unsent>>
      /\ update_in' = update_in /\ update_out' = update_out /\ lookup_in' = lookup_in
  BY DEF AnswerLookup
<1>2. /\ update_in[n] \in Seq(News(n)) /\ update_out[n] \in Seq(ToTell(n))
      /\ lo \in Seq(Answered) /\ DaemonOK(daemon[n])
      /\ WaysOK(n, daemon[n].distance_vector_table)
      /\ Leads(Neighbours(daemon[n]), update_in[n], Partners(mip[n]))
      /\ Abouts(lo) \o q \o l = Dests(mip[n].lookup_queue)
  BY NodeParts
<1>3. l \in Seq(MIPAddress)
  BY NodeParts
<1>4. q \in Seq(MIPAddress)
  BY NodeParts
<1>5. Abouts(lo) \in Seq(MIPAddress)
  BY <1>2, AboutsOf
<1>6. /\ d \in DeamonType /\ d.lookup_queue = Tail(q)
      /\ d.walk = daemon[n].walk /\ d.spare = daemon[n].spare
      /\ d.neighbour_mip_vec = daemon[n].neighbour_mip_vec
      /\ d.distance_vector_table = daemon[n].distance_vector_table
      /\ Head(q) \in MIPAddress /\ Answer(daemon[n]) \in Seq(MIPAddress)
  BY <1>1, <1>2, LookupAnswered DEF DaemonOK
<1>7. answer \in Answered /\ answer.about = Head(q)
  BY <1>6 DEF Answered
<1> HIDE DEF d, answer
<1>8. /\ DaemonOK(d) /\ Neighbours(d) = Neighbours(daemon[n])
      /\ WaysOK(n, d.distance_vector_table)
  BY <1>2, <1>6 DEF DaemonOK, StorageOK, Walking, Neighbours
<1>9. Abouts(Append(lo, answer)) = Abouts(lo) \o <<Head(q)>>
  BY <1>2, <1>7, AboutsOf
<1>10. Abouts(lo) \o <<Head(q)>> \o Tail(q) \o l = Abouts(lo) \o q \o l
  <2> DEFINE a == Abouts(lo)
  <2> HIDE DEF a, q, l
  <2>1. a \in Seq(MIPAddress)
    BY <1>5 DEF a
  <2>2. q # <<>> /\ q \in Seq(MIPAddress) /\ l \in Seq(MIPAddress)
    BY <1>1, <1>3, <1>4 DEF q
  <2> DEFINE T == MIPAddress
  <2> HIDE DEF T
  <2>3. a \in Seq(T) /\ q \in Seq(T) /\ l \in Seq(T) /\ q # <<>>
    BY ONLY <2>1, <2>2 DEF T
  <2>4. a \o <<Head(q)>> \o Tail(q) \o l = a \o q \o l
    BY ONLY <2>3, MovesOut
  <2> QED BY <2>4 DEF a
<1>11. Append(lo, answer) \in Seq(Answered)
  BY <1>2, <1>7
<1>12. /\ lookup_out'[n] = Append(lo, answer) /\ DOMAIN lookup_out' = Node
       /\ \A k \in Node \ {n} : lookup_out'[k] = lookup_out[k]
  BY <1>1, DomainsNow
<1>13. Abouts(lookup_out'[n]) \o d.lookup_queue \o lookup_in'[n] = Dests(mip[n].lookup_queue)
  BY <1>1, <1>2, <1>6, <1>9, <1>10, <1>12
<1> QED BY <1>1, <1>2, <1>3, <1>8, <1>11, <1>12, <1>13, DomainsNow, DeamonStep

\* A link fails or comes back.
LEMMA LinkStep ==
  ASSUME NetInv, NEW l \in Down, Fail(l) \/ Repair(l)
  PROVE  NetInv'
<1>1. /\ mip' = mip /\ daemon' = daemon /\ started' = started /\ update_in' = update_in
      /\ update_out' = update_out /\ lookup_in' = lookup_in /\ lookup_out' = lookup_out
      /\ wire' = wire /\ unsent' = unsent /\ delivered' = delivered
  BY DEF Fail, Repair
<1>2. up' \subseteq Links
  BY NetworkAssumption DEF Fail, Repair, NetInv
<1> QED BY <1>1, <1>2 DEF NetInv, Domains

\* A frame is lost.
LEMMA LoseStep ==
  ASSUME NetInv, NEW n \in Node, NEW p \in Wires, Lose(n, p)
  PROVE  NetInv'
<1>1. /\ mip' = mip /\ daemon' = daemon /\ started' = started /\ update_in' = update_in
      /\ update_out' = update_out /\ lookup_in' = lookup_in /\ lookup_out' = lookup_out
      /\ unsent' = unsent /\ delivered' = delivered /\ up' = up
      /\ wire[p] # <<>> /\ wire' = [wire EXCEPT ![p] = Tail(wire[p])]
  BY DEF Lose
<1>2. DOMAIN wire = Wires /\ \A q \in Wires : wire[q] \in Seq(FramesOf(q[1]))
  BY DEF NetInv, Domains
<1>3. Tail(wire[p]) \in Seq(FramesOf(p[1]))
  BY <1>1, <1>2, Unqueued
<1>4. DOMAIN wire' = Wires /\ \A q \in Wires : wire'[q] \in Seq(FramesOf(q[1]))
  BY <1>1, <1>2, <1>3
<1> QED BY <1>1, <1>4 DEF NetInv, Domains

\* Nothing happens.
LEMMA IdleStep ==
  ASSUME NetInv, UNCHANGED vars
  PROVE  NetInv'
BY DEF NetInv, Domains, vars

\* At the begin nothing is known, and nothing is under way.
LEMMA InitNetInv ==
  Init => NetInv
<1> SUFFICES ASSUME Init PROVE NetInv
  OBVIOUS
<1>1. Domains
  BY DEF Init, Domains, Wires
<1>2. ASSUME NEW n \in Node
      PROVE  NodeOK(n, mip[n], daemon[n], update_in[n], update_out[n],
                    lookup_in[n], lookup_out[n], delivered[n])
  <2> DEFINE m == M!NewMIP(Interfaces(n))
             d == NewDeamon
  <2>1. /\ mip[n] = m /\ daemon[n] = d /\ update_in[n] = <<>> /\ update_out[n] = <<>>
        /\ lookup_in[n] = <<>> /\ lookup_out[n] = <<>> /\ delivered[n] = {}
    BY DEF Init
  <2>2. /\ m.raw_sock_vec = Interfaces(n) /\ m.arp_pair_vec = <<>> /\ m.lookup_queue = <<>>
        /\ m \in MIPType(n)
    <3>1. <<>> \in Seq(ARPPair(n)) /\ <<>> \in Seq(Waiting(n)) /\ Apart(<<>>)
      BY DEF Apart
    <3> QED BY <3>1 DEF M!NewMIP, MIPType
  <2>3. EmptyTable \in Tables
    <3>1. EmptyTable \in [{} -> Column]
      BY DEF EmptyTable
    <3> QED BY <3>1, IsTable
  <2>4. /\ d.neighbour_mip_vec = <<>> /\ d.lookup_queue = <<>> /\ d.walk = Idle
        /\ d \in DeamonType /\ d.distance_vector_table = EmptyTable
    BY <2>3 DEF NewDeamon, DeamonType, Idle
  <2> HIDE DEF m, d
  <2>5. DaemonOK(d)
    BY <2>4 DEF DaemonOK, StorageOK, Walking, Idle, NoTwice
  <2>6. /\ Neighbours(d) = {} /\ Partners(m) = {}
        /\ WaysOK(n, d.distance_vector_table)
    BY <2>2, <2>4 DEF Neighbours, Partners, WaysOK, EmptyTable
  <2>7. Leads({}, <<>>, {})
    <3>1. <<>> \in Seq(Update)
      OBVIOUS
    <3>2. \A i \in 1..Len(<<>>) : <<>>[i].option \in {"LOCAL_MIP", "ADVERTISEMENT"}
      OBVIOUS
    <3> QED BY <3>1, <3>2, LeadsNowhere
  <2>8. Abouts(<<>>) \o d.lookup_queue \o <<>> = Dests(m.lookup_queue)
    <3>1. Abouts(<<>>) = <<>> /\ Dests(<<>>) = <<>> /\ <<>> \o <<>> \o <<>> = <<>>
      BY DEF Abouts, Dests
    <3> QED BY <2>2, <2>4, <3>1
  <2>9. /\ <<>> \in Seq(News(n)) /\ <<>> \in Seq(ToTell(n))
        /\ <<>> \in Seq(MIPAddress) /\ <<>> \in Seq(Answered)
    OBVIOUS
  <2> QED BY <2>1, <2>2, <2>5, <2>6, <2>7, <2>8, <2>9 DEF NodeOK
<1>3. \A p \in Wires : wire[p] \in Seq(FramesOf(p[1]))
  <2>1. \A p \in Wires : wire[p] = <<>>
    BY DEF Init, Wires
  <2>2. \A F : <<>> \in Seq(F)
    OBVIOUS
  <2> QED BY <2>1, <2>2
<1> QED BY <1>1, <1>2, <1>3 DEF Init, NetInv

\* Every step keeps the invariant.
LEMMA NextNetInv ==
  NetInv /\ [Next]_vars => NetInv'
<1> SUFFICES ASSUME NetInv, [Next]_vars PROVE NetInv'
  OBVIOUS
<1>1. CASE UNCHANGED vars
  BY <1>1, IdleStep
<1>2. CASE Serve
  <2>1. PICK n \in Node :
          \/ ReceiveAdvertSock(n) \/ ReceiveAnswerSock(n)
          \/ ReadUpdate(n) \/ ReadLookup(n)
          \/ StartWalk(n) \/ Walk(n) \/ AnswerLookup(n)
          \/ \E p \in DOMAIN wire : ReceiveRawSock(n, p) \/ Lose(n, p)
    BY <1>2 DEF Serve
  <2>2. CASE ReceiveAdvertSock(n)
    BY <2>2, AdvertSockStep
  <2>3. CASE ReceiveAnswerSock(n)
    BY <2>3, AnswerSockStep
  <2>4. CASE ReadUpdate(n)
    BY <2>4, ReadUpdateStep
  <2>5. CASE ReadLookup(n)
    BY <2>5, ReadLookupStep
  <2>6. CASE StartWalk(n)
    BY <2>6, StartWalkStep
  <2>7. CASE Walk(n)
    BY <2>7, WalkStep
  <2>8. CASE AnswerLookup(n)
    BY <2>8, AnswerLookupStep
  <2>9. CASE \E p \in DOMAIN wire : ReceiveRawSock(n, p) \/ Lose(n, p)
    <3>1. PICK p \in Wires : ReceiveRawSock(n, p) \/ Lose(n, p)
      BY <2>9 DEF NetInv, Domains
    <3> QED BY <3>1, RawSockStep, LoseStep
  <2> QED BY <2>1, <2>2, <2>3, <2>4, <2>5, <2>6, <2>7, <2>8, <2>9
<1>3. CASE Disturb
  <2>1. CASE \E n \in Node : Start(n) \/ Timer(n) \/ \E s \in unsent : ReceiveTransportSock(n, s)
    BY <2>1, StartStep, TimerStep, TransportSockStep
  <2>2. CASE \E l \in Down : Fail(l) \/ Repair(l)
    BY <2>2, LinkStep
  <2> QED BY <1>3, <2>1, <2>2 DEF Disturb
<1> QED BY <1>1, <1>2, <1>3 DEF Next

\* The invariant holds all along.
LEMMA NetInvHolds ==
  Spec => []NetInv
<1> QED BY InitNetInv, NextNetInv, PTL DEF Spec

(***************************************************************************)
(* The theorems.                                                           *)
(***************************************************************************)
\* A list without repetitions is as long as the set of what is in it.
LEMMA SizeOf ==
  ASSUME NEW T, NEW v \in Seq(T), NoTwice(v)
  PROVE  Cardinality({v[i] : i \in DOMAIN v}) = Len(v)
<1> DEFINE n == Len(v)
           S == {v[i] : i \in DOMAIN v}
<1>1. n \in Nat /\ DOMAIN v = 1..n
  OBVIOUS
<1>2. v \in [1..n -> S]
  OBVIOUS
<1> HIDE DEF n
<1>3. v \in Bijection(1..n, S)
  BY <1>1, <1>2 DEF Bijection, Injection, Surjection, IsInjective, NoTwice
<1>4. IsFiniteSet(1..n) /\ Cardinality(1..n) = n
  <2>1. 1 \in Int /\ n \in Int /\ (IF 1 > n THEN 0 ELSE n - 1 + 1) = n
    BY <1>1
  <2> QED BY <2>1, FS_Interval
<1>5. ExistsBijection(1..n, S)
  BY <1>3 DEF ExistsBijection
<1> QED BY <1>4, <1>5, FS_Bijection DEF n

\* What MIP_deamon and routing_deamon keep, write and put on the links of any network
\* is of the types their parsers and tables expect (MIP_deamon.cpp, routing_deamon.cpp);
\* only a packet that was forwarded has another source than the interface it left.
THEOREM TypeCorrect == Spec => []TypeOK
<1>1. NetInv => TypeOK
  <2> SUFFICES ASSUME NetInv PROVE TypeOK
    OBVIOUS
  <2>1. ASSUME NEW n \in Node
        PROVE  /\ Table(n) \in Tables
               /\ \A p \in ToSet(mip[n].arp_pair_vec) :
                    p.sock \in Interfaces(n) /\ Hears(p.mip, p.sock) /\ p.reply \in BOOLEAN
               /\ \A i \in DOMAIN mip[n].lookup_queue : WellFormed(mip[n].lookup_queue[i].frame)
               /\ \A m \in ToSet(update_out[n]) : m.dest \in MIPAddress /\ m.advert \in Adverts
    <3>1. /\ mip[n] \in MIPType(n) /\ daemon[n] \in DeamonType
          /\ update_out[n] \in Seq(ToTell(n))
      BY NodeParts
    <3>2. Table(n) \in Tables
      BY <3>1 DEF Table, DeamonType
    <3>3. /\ mip[n].arp_pair_vec \in Seq(ARPPair(n))
          /\ mip[n].lookup_queue \in Seq(Waiting(n))
      BY <3>1, MIPShape
    <3>4. \A p \in ToSet(mip[n].arp_pair_vec) :
            p.sock \in Interfaces(n) /\ Hears(p.mip, p.sock) /\ p.reply \in BOOLEAN
      <4>1. \A p \in ToSet(mip[n].arp_pair_vec) : p \in ARPPair(n)
        BY <3>3 DEF ToSet
      <4> QED BY <4>1 DEF ARPPair
    <3>5. ASSUME NEW i \in DOMAIN mip[n].lookup_queue
          PROVE  WellFormed(mip[n].lookup_queue[i].frame)
      <4>1. mip[n].lookup_queue[i] \in Waiting(n)
        BY <3>3
      <4> QED BY <4>1 DEF Waiting, Frame, WellFormed
    <3>6. \A m \in ToSet(update_out[n]) : m.dest \in MIPAddress /\ m.advert \in Adverts
      <4>1. \A m \in ToSet(update_out[n]) : m \in ToTell(n)
        BY <3>1 DEF ToSet
      <4> QED BY <4>1 DEF ToTell, AdvertsOf
    <3> QED BY <3>2, <3>4, <3>5, <3>6
  <2>2. ASSUME NEW p \in DOMAIN wire, NEW i \in DOMAIN wire[p]
        PROVE  WellFormed(wire[p][i]) /\ (wire[p][i].tra # "T" => wire[p][i].source = p[1])
    <3>1. wire[p] \in Seq(FramesOf(p[1]))
      BY DEF NetInv, Domains
    <3>2. wire[p][i] \in FramesOf(p[1])
      BY <3>1
    <3> QED BY <3>2 DEF FramesOf, Frame, WellFormed, AdvertsOf
  <2>3. started \subseteq Node /\ up \subseteq Links /\ unsent \subseteq Sends
    BY DEF NetInv
  <2> QED BY <2>1, <2>2, <2>3 DEF TypeOK
<1> QED BY <1>1, NetInvHolds, PTL

\* MIP_deamon's ARP pairs and routing_deamon's list are the same neighbours whenever
\* no update message is under way, and neither has one twice, however discoveries,
\* time-outs and packets interleave: the comment at MIP_deamon.cpp:48, that there
\* can be no duplicates, is right.
THEOREM AgreeCorrect == Spec => []NeighboursAgree
<1>1. NetInv => NeighboursAgree
  <2> SUFFICES ASSUME NetInv, NEW n \in Node, update_in[n] = <<>>
               PROVE  LET pairs == mip[n].arp_pair_vec
                      IN  /\ Neighbours(daemon[n]) = {p.mip : p \in ToSet(pairs)}
                          /\ Cardinality(Neighbours(daemon[n])) = Len(pairs)
                          /\ Len(daemon[n].neighbour_mip_vec) = Len(pairs)
    BY DEF NeighboursAgree
  <2> DEFINE v == mip[n].arp_pair_vec
             w == daemon[n].neighbour_mip_vec
             a == [i \in DOMAIN v |-> v[i].mip]
  <2>1. /\ mip[n] \in MIPType(n) /\ DaemonOK(daemon[n])
        /\ Leads(Neighbours(daemon[n]), <<>>, Partners(mip[n]))
    BY NodeParts
  <2>2. Neighbours(daemon[n]) = Partners(mip[n])
    BY <2>1, LeadsNothing
  <2>3. /\ v \in Seq(ARPPair(n)) /\ Apart(v) /\ DOMAIN v = 1..Len(v) /\ Len(v) \in Nat
        /\ \A i \in 1..Len(v) : v[i].mip \in MIPAddress
    <3>1. v \in Seq(ARPPair(n)) /\ Apart(v)
      BY <2>1, MIPShape
    <3>2. \A i \in 1..Len(v) : v[i] \in ARPPair(n)
      BY <3>1
    <3> QED BY <3>1, <3>2 DEF ARPPair
  <2>4. w \in Seq(MIPAddress) /\ NoTwice(w)
    BY <2>1 DEF DaemonOK, DeamonType
  <2>5. Neighbours(daemon[n]) = {w[i] : i \in DOMAIN w}
    BY DEF Neighbours
  <2>6. /\ Partners(mip[n]) = {v[i].mip : i \in DOMAIN v}
        /\ {v[i].mip : i \in DOMAIN v} = {p.mip : p \in ToSet(v)}
    BY DEF Partners, ToSet
  <2> HIDE DEF v, w
  <2>7. a \in Seq(MIPAddress) /\ Len(a) = Len(v) /\ DOMAIN a = 1..Len(v)
    <3>1. a \in [1..Len(v) -> MIPAddress]
      BY <2>3
    <3> QED BY <2>3, <3>1, ListOf
  <2>8. \A i \in DOMAIN v : a[i] = v[i].mip
    OBVIOUS
  <2> HIDE DEF a
  <2>9. NoTwice(a) /\ {a[i] : i \in DOMAIN a} = {v[i].mip : i \in DOMAIN v}
    BY <2>3, <2>7, <2>8 DEF NoTwice, Apart
  <2>10. Cardinality({a[i] : i \in DOMAIN a}) = Len(a)
    BY <2>7, <2>9, SizeOf
  <2>11. Cardinality({w[i] : i \in DOMAIN w}) = Len(w)
    BY <2>4, SizeOf
  <2> QED BY <2>2, <2>5, <2>6, <2>7, <2>9, <2>10, <2>11 DEF v, w
<1> QED BY <1>1, NetInvHolds, PTL

\* The answer MIP_deamon reads next is always for the frame that waits longest: the
\* lookups under way, in the queue of the lookup thread and answered are, in this
\* order, for the frames of lookup_queue (MIP_deamon.cpp, receiveLookupSock, which
\* pops the front for whatever answer it reads).
THEOREM LookupsCorrect == Spec => []LookupsPaired
<1>1. NetInv => LookupsPaired
  <2> SUFFICES ASSUME NetInv, NEW n \in Node
               PROVE  Abouts(lookup_out[n]) \o daemon[n].lookup_queue \o lookup_in[n] =
                        Dests(mip[n].lookup_queue)
    BY DEF LookupsPaired, Abouts, Dests
  <2> QED BY NodeParts
<1> QED BY <1>1, NetInvHolds, PTL

\* A packet is handed to no other node than the one it was sent to, with an address
\* of its sender, whatever loops and detours forwarding takes it through, in a
\* network of any shape: only the first node writes the source (MIP_deamon.cpp,
\* receiveLookupSock), and no node writes the destination.
THEOREM DeliveredCorrect == Spec => []DeliveredRightly
<1>1. NetInv => DeliveredRightly
  <2> SUFFICES ASSUME NetInv, NEW n \in Node, NEW packet \in delivered[n]
               PROVE  Handed(n, packet)
    BY DEF DeliveredRightly, Handed
  <2> QED BY NodeParts
<1> QED BY <1>1, NetInvHolds, PTL

\* However stale an advertisement is by the time it is read, whoever was lost, found
\* again or failed meanwhile: no table of any network of any shape lists a way that
\* there are no links for.  Infinity, which is told and added to like any cost, never
\* comes out as the length of a way (DistanceVectorTable.cpp, update).
THEOREM WaysCorrect == Spec => []WaysExist
<1>1. NetInv => WaysExist
  <2> SUFFICES ASSUME NetInv, NEW n \in Node, NEW to \in DOMAIN Table(n)
               PROVE  WayOK(n, to, Table(n)[to])
    BY DEF WaysExist, WayOK, Linked
  <2>1. WaysOK(n, Table(n))
    BY NodeParts DEF Table
  <2> QED BY <2>1 DEF WaysOK
<1> QED BY <1>1, NetInvHolds, PTL

(***************************************************************************)
(* Advertisements in the order they were sent.                             *)
(***************************************************************************)
\* The advertisement that lists nothing: how messages count that are none.
Nothing == [to \in {} |-> 0]

\* Advertisement y, sent after x, asks no more for what both list.
Over(x, y)  == \A to \in DOMAIN x \cap DOMAIN y : y[to] <= x[to]
Above(R, S) == \A x \in R, y \in S : Over(x, y)

\* What the messages of q carry, read by means of g.
Contents(q, g) == {g[q[i]] : i \in DOMAIN q}
Falling(q, g)  == \A i, j \in DOMAIN q : i < j => Over(g[q[i]], g[q[j]])

\* Nothing is in order with whatever there is.
LEMMA NothingOver ==
  /\ \A x : Over(x, Nothing) /\ Over(Nothing, x)
  /\ \A S, R : R \subseteq {Nothing} => Above(S, R) /\ Above(R, S)
<1>1. DOMAIN Nothing = {}
  BY DEF Nothing
<1> HIDE DEF Nothing
<1> QED BY <1>1 DEF Over, Above

\* Two queues, one behind the other.
LEMMA QueuesJoined ==
  ASSUME NEW T, NEW q \in Seq(T), NEW r \in Seq(T), NEW g
  PROVE  /\ Contents(q \o r, g) = Contents(q, g) \cup Contents(r, g)
         /\ Falling(q, g) /\ Falling(r, g) /\ Above(Contents(q, g), Contents(r, g)) =>
              Falling(q \o r, g)
<1> DEFINE s == q \o r
           m == Len(q)
<1>1. /\ m \in Nat /\ Len(r) \in Nat /\ DOMAIN s = 1..m + Len(r)
      /\ DOMAIN q = 1..m /\ DOMAIN r = 1..Len(r)
      /\ \A i \in 1..m + Len(r) : s[i] = IF i <= m THEN q[i] ELSE r[i - m]
  BY Joined
<1> HIDE DEF s, m
<1>2. \A i \in DOMAIN s : \/ i \in DOMAIN q /\ s[i] = q[i]
                          \/ ~(i <= m) /\ i - m \in DOMAIN r /\ s[i] = r[i - m]
  BY <1>1
<1>3. /\ \A i \in DOMAIN q : i \in DOMAIN s /\ s[i] = q[i]
      /\ \A i \in DOMAIN r : i + m \in DOMAIN s /\ s[i + m] = r[i]
  <2>1. ASSUME NEW i \in DOMAIN r PROVE i + m \in DOMAIN s /\ s[i + m] = r[i]
    <3>1. i + m \in 1..m + Len(r) /\ ~(i + m <= m) /\ i + m - m = i
      BY <1>1
    <3> QED BY <1>1, <3>1
  <2> QED BY <1>1, <2>1
<1>4. Contents(s, g) = Contents(q, g) \cup Contents(r, g)
  <2>1. ASSUME NEW x \in Contents(s, g) PROVE x \in Contents(q, g) \cup Contents(r, g)
    BY <1>2 DEF Contents
  <2>2. ASSUME NEW x \in Contents(q, g) PROVE x \in Contents(s, g)
    BY <1>3 DEF Contents
  <2>3. ASSUME NEW x \in Contents(r, g) PROVE x \in Contents(s, g)
    <3>1. PICK i \in DOMAIN r : x = g[r[i]]
      BY DEF Contents
    <3>2. i + m \in DOMAIN s /\ x = g[s[i + m]]
      BY <1>3, <3>1
    <3> QED BY <3>2 DEF Contents
  <2> QED BY <2>1, <2>2, <2>3
<1>5. ASSUME Falling(q, g), Falling(r, g), Above(Contents(q, g), Contents(r, g)),
             NEW i \in DOMAIN s, NEW j \in DOMAIN s, i < j
      PROVE  Over(g[s[i]], g[s[j]])
  <2>1. CASE j <= m
    <3>1. i \in DOMAIN q /\ j \in DOMAIN q /\ s[i] = q[i] /\ s[j] = q[j]
      BY <1>1, <1>5, <2>1
    <3> QED BY <1>5, <3>1 DEF Falling
  <2>2. CASE i <= m /\ ~(j <= m)
    <3>1. i \in DOMAIN q /\ s[i] = q[i] /\ j - m \in DOMAIN r /\ s[j] = r[j - m]
      BY <1>1, <1>5, <2>2
    <3>2. g[s[i]] \in Contents(q, g) /\ g[s[j]] \in Contents(r, g)
      BY <3>1 DEF Contents
    <3> QED BY <1>5, <3>2 DEF Above
  <2>3. CASE ~(i <= m)
    <3>1. /\ i - m \in DOMAIN r /\ s[i] = r[i - m] /\ j - m \in DOMAIN r /\ s[j] = r[j - m]
          /\ i - m < j - m
      BY <1>1, <1>5, <2>3
    <3> QED BY <1>5, <3>1 DEF Falling
  <2>4. i \in Int /\ j \in Int
    BY <1>1
  <2> QED BY <1>1, <1>5, <2>1, <2>2, <2>3, <2>4
<1> QED BY <1>4, <1>5 DEF Falling, s

\* A queue whose first message was taken.
LEMMA QueueTaken ==
  ASSUME NEW T, NEW q \in Seq(T), q # <<>>, NEW g
  PROVE  /\ Contents(q, g) = {g[Head(q)]} \cup Contents(Tail(q), g)
         /\ Falling(q, g) => /\ Falling(Tail(q), g)
                             /\ Above({g[Head(q)]}, Contents(Tail(q), g))
<1> DEFINE s == Tail(q)
           m == Len(q)
           h == Head(q)
<1>1. /\ m \in Nat /\ m >= 1 /\ DOMAIN s = 1..m - 1 /\ DOMAIN q = 1..m /\ h = q[1]
      /\ \A i \in 1..m - 1 : s[i] = q[i + 1]
  OBVIOUS
<1> HIDE DEF s, m, h
<1>2. /\ 1 \in DOMAIN q
      /\ \A i \in DOMAIN s : i + 1 \in DOMAIN q /\ 1 < i + 1 /\ s[i] = q[i + 1]
      /\ \A i \in DOMAIN q : i = 1 \/ (i - 1 \in DOMAIN s /\ s[i - 1] = q[i])
  <2>1. ASSUME NEW i \in DOMAIN q, i # 1 PROVE i - 1 \in DOMAIN s /\ s[i - 1] = q[i]
    <3>1. i - 1 \in 1..m - 1 /\ i - 1 + 1 = i
      BY <1>1, <2>1
    <3> QED BY <1>1, <3>1
  <2> QED BY <1>1, <2>1
<1>3. Contents(q, g) = {g[h]} \cup Contents(s, g)
  <2>1. ASSUME NEW x \in Contents(q, g) PROVE x \in {g[h]} \cup Contents(s, g)
    BY <1>1, <1>2 DEF Contents
  <2>2. ASSUME NEW x \in Contents(s, g) PROVE x \in Contents(q, g)
    <3>1. PICK i \in DOMAIN s : x = g[s[i]]
      BY DEF Contents
    <3>2. i + 1 \in DOMAIN q /\ x = g[q[i + 1]]
      BY <1>2, <3>1
    <3> QED BY <3>2 DEF Contents
  <2>3. g[h] \in Contents(q, g)
    BY <1>1, <1>2 DEF Contents
  <2> QED BY <2>1, <2>2, <2>3
<1>4. ASSUME Falling(q, g), NEW i \in DOMAIN s, NEW j \in DOMAIN s, i < j
      PROVE  Over(g[s[i]], g[s[j]])
  <2>1. i + 1 < j + 1
    BY <1>1, <1>4
  <2> QED BY <1>2, <1>4, <2>1 DEF Falling
<1>5. ASSUME Falling(q, g), NEW x \in Contents(s, g) PROVE Over(g[h], x)
  <2>1. PICK i \in DOMAIN s : x = g[s[i]]
    BY DEF Contents
  <2> QED BY <1>1, <1>2, <1>5, <2>1 DEF Falling
<1> QED BY <1>3, <1>4, <1>5 DEF Falling, Above, s, h

\* A queue of one message, or none.
LEMMA QueueOfOne ==
  ASSUME NEW x, NEW g
  PROVE  /\ Contents(<<x>>, g) = {g[x]} /\ Falling(<<x>>, g)
         /\ Contents(<<>>, g) = {} /\ Falling(<<>>, g)
<1>1. /\ DOMAIN <<x>> = {1} /\ <<x>>[1] = x /\ DOMAIN <<>> = {}
      /\ \A i, j \in {1} : ~(i < j)
  OBVIOUS
<1> QED BY <1>1 DEF Contents, Falling

\* A queue that carries nothing.
LEMMA QueueOfNothing ==
  ASSUME NEW q, NEW g, Contents(q, g) \subseteq {Nothing}
  PROVE  Falling(q, g)
<1>1. \A i \in DOMAIN q : g[q[i]] = Nothing
  BY DEF Contents
<1> QED BY <1>1, NothingOver DEF Falling

(***************************************************************************)
(* What is under way on a link.                                            *)
(***************************************************************************)
\* A hop more, which infinity is not counted up by.
Cap(c) == IF c < INF_COST THEN c + 1 ELSE INF_COST

\* Node m, whose table is t, may have told x: t costs no more since, and its own
\* addresses cost nothing.
Since(x, t, m) ==
  \A to \in DOMAIN x :
    to \in DOMAIN t /\ t[to].cost <= x[to] /\ (NodeOf[to] = m => x[to] = 0)

\* To hear x from b makes no column of u cost more.
Heeded(u, b, x) ==
  \A to \in DOMAIN x : to \in DOMAIN u /\ u[to].via = b => Cap(x[to]) <= u[to].cost

\* What goes through b in u costs no less than in t, the table of b's node, and a hop.
Owed(u, b, t) ==
  \A to \in DOMAIN u : u[to].via = b =>
    NodeOf[to] = NodeOf[b] \/ (to \in DOMAIN t /\ Cap(t[to].cost) <= u[to].cost)

\* Advertisements S are under way from b, at a node with table t, to one with u.
Stands(S, t, u, b) ==
  /\ \A x \in S : Since(x, t, NodeOf[b]) /\ Heeded(u, b, x)
  /\ Owed(u, b, t)

\* A table that lists as much as t, for no higher cost.
Cheaper(t, t2) == \A to \in DOMAIN t : to \in DOMAIN t2 /\ t2[to].cost <= t[to].cost

\* Costs, a hop on.
LEMMA CapFacts ==
  /\ INF_COST \in Nat /\ INF_COST > 1
  /\ \A c \in Cost : Cap(c) \in Cost /\ Cap(c) >= 1 /\ Cap(c) >= c /\ Cap(c) <= c + 1
  /\ \A c, e \in Cost : c <= e => Cap(c) <= Cap(e)
  /\ \A c, e \in Cost : c < INF_COST /\ Cap(e) <= c => e <= c
  /\ Cap(0) = 1
  /\ \A x, to : Through(x, to) = Cap(x[to])
BY TableAssumption DEF Cap, Cost, HOP_COST, Through

\* Costs in tables and advertisements.
LEMMA CostsAre ==
  /\ \A t \in Tables : \A to \in DOMAIN t : t[to].cost \in Cost /\ t[to].cost \in Int
  /\ \A x \in Adverts : \A to \in DOMAIN x : x[to] \in Cost /\ x[to] \in Int
  /\ Nothing \in Adverts
<1>1. Nothing \in Adverts
  <2>1. Nothing \in [{} -> Cost]
    BY DEF Nothing
  <2> QED BY <2>1 DEF Adverts
<1> QED BY <1>1, TableShape, AdvertShape DEF Column, Cost

\* Less is under way.
LEMMA StandsFewer ==
  ASSUME NEW S, NEW R, NEW t, NEW u, NEW b, Stands(S, t, u, b), R \subseteq S \cup {Nothing}
  PROVE  Stands(R, t, u, b)
<1>1. DOMAIN Nothing = {}
  BY DEF Nothing
<1> HIDE DEF Nothing
<1>2. Since(Nothing, t, NodeOf[b]) /\ Heeded(u, b, Nothing)
  BY <1>1 DEF Since, Heeded
<1> QED BY <1>2 DEF Stands

\* The sender learns of more and of cheaper ways.
LEMMA StandsCheaper ==
  ASSUME NEW S \in SUBSET Adverts, NEW t \in Tables, NEW t2 \in Tables, NEW u \in Tables, NEW b,
         Stands(S, t, u, b), Cheaper(t, t2)
  PROVE  Stands(S, t2, u, b)
<1>1. ASSUME NEW x \in S PROVE Since(x, t2, NodeOf[b])
  <2> SUFFICES ASSUME NEW to \in DOMAIN x PROVE to \in DOMAIN t2 /\ t2[to].cost <= x[to]
    BY DEF Stands, Since
  <2>1. to \in DOMAIN t /\ t[to].cost <= x[to]
    BY DEF Stands, Since
  <2>2. to \in DOMAIN t2 /\ t2[to].cost <= t[to].cost
    BY <2>1 DEF Cheaper
  <2>3. t[to].cost \in Int /\ t2[to].cost \in Int /\ x[to] \in Int
    BY <2>1, <2>2, CostsAre
  <2> QED BY <2>1, <2>2, <2>3
<1>2. ASSUME NEW to \in DOMAIN u, u[to].via = b, to \in DOMAIN t, Cap(t[to].cost) <= u[to].cost
      PROVE  to \in DOMAIN t2 /\ Cap(t2[to].cost) <= u[to].cost
  <2>1. to \in DOMAIN t2 /\ t2[to].cost <= t[to].cost
    BY <1>2 DEF Cheaper
  <2>2. t[to].cost \in Cost /\ t2[to].cost \in Cost /\ u[to].cost \in Int
    BY <1>2, <2>1, CostsAre
  <2>3. /\ Cap(t2[to].cost) <= Cap(t[to].cost)
        /\ Cap(t2[to].cost) \in Cost /\ Cap(t[to].cost) \in Cost
    BY <2>1, <2>2, CapFacts
  <2>4. Cap(t2[to].cost) \in Int /\ Cap(t[to].cost) \in Int
    BY <2>3 DEF Cost
  <2> QED BY <1>2, <2>1, <2>2, <2>3, <2>4
<1> QED BY <1>1, <1>2 DEF Stands, Owed

\* The sender tells what its table lists now.
LEMMA StandsTold ==
  ASSUME NEW S \in SUBSET Adverts, NEW t \in Tables, NEW u \in Tables, NEW b, NEW dest,
         Stands(S, t, u, b),
         \A to \in DOMAIN t : NodeOf[to] = NodeOf[b] => t[to].cost = 0,
         \A to \in DOMAIN u : NodeOf[to] = NodeOf[b] => u[to].cost # 0
  PROVE  LET x == packAdvertisment(t, dest)
         IN  Stands(S \cup {x}, t, u, b) /\ Above(S, {x})
<1> DEFINE x == packAdvertisment(t, dest)
<1>1. \A to \in DOMAIN x : to \in DOMAIN t /\ x[to] = t[to].cost
  BY DEF packAdvertisment
<1> HIDE DEF x
<1>2. Since(x, t, NodeOf[b])
  BY <1>1, CostsAre DEF Since
<1>3. ASSUME NEW to \in DOMAIN x, to \in DOMAIN u, u[to].via = b
      PROVE  Cap(x[to]) <= u[to].cost
  <2>1. CASE NodeOf[to] = NodeOf[b]
    <3>1. x[to] = 0 /\ u[to].cost # 0
      BY <1>1, <1>3, <2>1
    <3>2. u[to].cost \in Cost
      BY <1>3, CostsAre
    <3>3. u[to].cost >= 1
      BY <3>1, <3>2 DEF Cost
    <3> QED BY <3>1, <3>3, CapFacts
  <2>2. CASE NodeOf[to] # NodeOf[b]
    BY <1>1, <1>3, <2>2 DEF Stands, Owed
  <2> QED BY <2>1, <2>2
<1>4. Above(S, {x})
  BY <1>1 DEF Stands, Since, Above, Over
<1> QED BY <1>2, <1>3, <1>4 DEF Stands, Heeded, x

\* The receiver changed its table from u to v: what goes through b is as it was,
\* or at the node of b, or as advertisement x, the oldest under way, says.
LEMMA StandsTurned ==
  ASSUME NEW S \in SUBSET Adverts, NEW x \in S, NEW R \in SUBSET S, Above({x}, R),
         NEW t \in Tables, NEW u \in Tables, NEW v \in Tables, NEW b, Stands(S, t, u, b),
         \A to \in DOMAIN v : v[to].via = b =>
           \/ to \in DOMAIN u /\ v[to] = u[to]
           \/ NodeOf[to] = NodeOf[b] /\ v[to].cost >= 1
           \/ to \in DOMAIN x /\ v[to].cost = Cap(x[to])
  PROVE  Stands(R, t, v, b)
<1>1. ASSUME NEW y \in R, NEW to \in DOMAIN y, to \in DOMAIN v, v[to].via = b
      PROVE  Cap(y[to]) <= v[to].cost
  <2>1. CASE to \in DOMAIN u /\ v[to] = u[to]
    BY <1>1, <2>1 DEF Stands, Heeded
  <2>2. CASE NodeOf[to] = NodeOf[b] /\ v[to].cost >= 1
    <3>1. y[to] = 0
      BY <2>2 DEF Stands, Since
    <3> QED BY <2>2, <3>1, CapFacts
  <2>3. CASE to \in DOMAIN x /\ v[to].cost = Cap(x[to])
    <3>1. y[to] <= x[to]
      BY <2>3 DEF Above, Over
    <3>2. y[to] \in Cost /\ x[to] \in Cost
      BY <2>3, CostsAre
    <3> QED BY <2>3, <3>1, <3>2, CapFacts
  <2> QED BY <1>1, <2>1, <2>2, <2>3
<1>2. ASSUME NEW to \in DOMAIN v, v[to].via = b, NodeOf[to] # NodeOf[b]
      PROVE  to \in DOMAIN t /\ Cap(t[to].cost) <= v[to].cost
  <2>1. CASE to \in DOMAIN u /\ v[to] = u[to]
    BY <1>2, <2>1 DEF Stands, Owed
  <2>2. CASE to \in DOMAIN x /\ v[to].cost = Cap(x[to])
    <3>1. to \in DOMAIN t /\ t[to].cost <= x[to]
      BY <2>2 DEF Stands, Since
    <3>2. t[to].cost \in Cost /\ x[to] \in Cost
      BY <2>2, <3>1, CostsAre
    <3> QED BY <2>2, <3>1, <3>2, CapFacts
  <2> QED BY <1>2, <2>1, <2>2
<1> QED BY <1>1, <1>2 DEF Stands, Heeded, Owed

\* Between q and q2 the messages in front that carry X left and some that carry R
\* joined behind.
Passes(g, q, q2, X, R) ==
  \E C : /\ Contents(q, g) = X \cup C /\ Contents(q2, g) = C \cup R
         /\ Falling(q, g) => Above(X, C) /\ (Above(C, R) => Falling(q2, g))

LEMMA PassesNothing ==
  ASSUME NEW g, NEW q
  PROVE  Passes(g, q, q, {}, {})
BY DEF Passes, Above

LEMMA PassesOn ==
  ASSUME NEW T, NEW g, NEW q \in Seq(T), NEW r \in Seq(T), Falling(r, g)
  PROVE  /\ Passes(g, q, q \o r, {}, Contents(r, g))
         /\ q # <<>> => Passes(g, q, Tail(q) \o r, {g[Head(q)]}, Contents(r, g))
<1> DEFINE R == Contents(r, g)
<1>1. Passes(g, q, q \o r, {}, R)
  <2> DEFINE C == Contents(q, g)
  <2>1. Contents(q \o r, g) = C \cup R
    BY QueuesJoined
  <2>2. Falling(q, g) /\ Above(C, R) => Falling(q \o r, g)
    BY QueuesJoined
  <2>3. Above({}, C)
    BY DEF Above
  <2> HIDE DEF C, R
  <2>4. C = {} \cup C
    OBVIOUS
  <2> QED BY <2>1, <2>2, <2>3, <2>4 DEF Passes, C
<1>2. ASSUME q # <<>> PROVE Passes(g, q, Tail(q) \o r, {g[Head(q)]}, R)
  <2> DEFINE s == Tail(q)
             C == Contents(s, g)
  <2>1. s \in Seq(T)
    BY <1>2
  <2>2. /\ Contents(q, g) = {g[Head(q)]} \cup C
        /\ Falling(q, g) => Falling(s, g) /\ Above({g[Head(q)]}, C)
    BY <1>2, QueueTaken
  <2> HIDE DEF s
  <2>3. /\ Contents(s \o r, g) = C \cup R
        /\ Falling(s, g) /\ Above(C, R) => Falling(s \o r, g)
    BY <2>1, QueuesJoined
  <2> HIDE DEF C, R
  <2> QED BY <2>2, <2>3 DEF Passes, s
<1> QED BY <1>1, <1>2

\* What the messages to routing_deamon, the frames and the messages to MIP_deamon
\* carry of b, of anyone and to a.
TellsOf(b) == [u \in Update |->
                 IF u.option = "ADVERTISEMENT" /\ u.mip = b THEN u.advert ELSE Nothing]
Carries    == [f \in Frame |-> IF f.tra = "R" THEN f.msg ELSE Nothing]
SaysTo(a)  == [x \in [dest : MIPAddress, advert : Adverts] |->
                 IF x.dest = a THEN x.advert ELSE Nothing]

\* On the way from p[1] to p[2], with i, w and o for update_in there, the wire and
\* update_out at the begin: in all, and in order.
UnderWay(p, i, w, o) ==
  Contents(i, TellsOf(p[1])) \cup Contents(w, Carries) \cup Contents(o, SaysTo(p[2]))

InOrder(p, i, w, o) ==
  LET I == Contents(i, TellsOf(p[1]))
      W == Contents(w, Carries)
      O == Contents(o, SaysTo(p[2]))
  IN  /\ Falling(i, TellsOf(p[1])) /\ Falling(w, Carries) /\ Falling(o, SaysTo(p[2]))
      /\ Above(I, W) /\ Above(I, O) /\ Above(W, O)

\* What changed on the way between i, w, o and i2, w2, o2: what carries X was read,
\* what carries R is new, and nothing else was lost if kept.
Flows(p, i, w, o, i2, w2, o2, X, R, kept) ==
  \E Xw, Xo, Ri, Rw :
    /\ Passes(TellsOf(p[1]), i, i2, X, Ri) /\ Passes(Carries, w, w2, Xw, Rw)
    /\ Passes(SaysTo(p[2]), o, o2, Xo, R)
    /\ Ri \subseteq Xw \cup {Nothing} /\ Rw \subseteq Xo \cup {Nothing}
    /\ kept => Xw \subseteq Ri \cup {Nothing} /\ Xo \subseteq Rw \cup {Nothing}

\* It keeps its order.
LEMMA PipeFlows ==
  ASSUME NEW p, NEW i, NEW w, NEW o, InOrder(p, i, w, o), NEW i2, NEW w2, NEW o2,
         NEW X, NEW R, NEW kept \in BOOLEAN, Flows(p, i, w, o, i2, w2, o2, X, R, kept),
         Above(UnderWay(p, i, w, o), R)
  PROVE  /\ InOrder(p, i2, w2, o2)
         /\ UnderWay(p, i2, w2, o2) \subseteq UnderWay(p, i, w, o) \cup R \cup {Nothing}
         /\ kept => UnderWay(p, i, w, o) \subseteq UnderWay(p, i2, w2, o2) \cup X \cup {Nothing}
         /\ R \subseteq UnderWay(p, i2, w2, o2)
<1> DEFINE gi == TellsOf(p[1])
           go == SaysTo(p[2])
           I == Contents(i, gi)
           W == Contents(w, Carries)
           O == Contents(o, go)
           I2 == Contents(i2, gi)
           W2 == Contents(w2, Carries)
           O2 == Contents(o2, go)
<1>0. PICK Xw, Xo, Ri, Rw :
        /\ Passes(gi, i, i2, X, Ri) /\ Passes(Carries, w, w2, Xw, Rw)
        /\ Passes(go, o, o2, Xo, R)
        /\ Ri \subseteq Xw \cup {Nothing} /\ Rw \subseteq Xo \cup {Nothing}
        /\ kept => Xw \subseteq Ri \cup {Nothing} /\ Xo \subseteq Rw \cup {Nothing}
  BY DEF Flows
<1>1. PICK CI : /\ I = X \cup CI /\ I2 = CI \cup Ri
                /\ Falling(i, gi) => Above(X, CI) /\ (Above(CI, Ri) => Falling(i2, gi))
  BY <1>0 DEF Passes
<1>2. PICK CW : /\ W = Xw \cup CW /\ W2 = CW \cup Rw
                /\ Falling(w, Carries) => Above(Xw, CW) /\ (Above(CW, Rw) => Falling(w2, Carries))
  BY <1>0 DEF Passes
<1>3. PICK CO : /\ O = Xo \cup CO /\ O2 = CO \cup R
                /\ Falling(o, go) => Above(Xo, CO) /\ (Above(CO, R) => Falling(o2, go))
  BY <1>0 DEF Passes
<1>4. /\ Falling(i, gi) /\ Falling(w, Carries) /\ Falling(o, go)
      /\ Above(I, W) /\ Above(I, O) /\ Above(W, O)
  BY DEF InOrder
<1>5. Above(I, R) /\ Above(W, R) /\ Above(O, R)
  BY DEF UnderWay, Above
<1> HIDE DEF I, W, O, I2, W2, O2, gi, go
<1>6. \A S : Above(S, {Nothing}) /\ Above({Nothing}, S)
  BY NothingOver
<1>7. Above(CI, Ri) /\ Above(CW, Rw) /\ Above(CO, R)
  BY <1>0, <1>1, <1>2, <1>3, <1>4, <1>5, <1>6 DEF Above
<1>8. Above(I2, W2)
  BY <1>0, <1>1, <1>2, <1>3, <1>4, <1>6 DEF Above
<1>9. Above(I2, O2)
  BY <1>0, <1>1, <1>2, <1>3, <1>4, <1>5, <1>6 DEF Above
<1>10. Above(W2, O2)
  BY <1>0, <1>2, <1>3, <1>4, <1>5, <1>6 DEF Above
<1>11. InOrder(p, i2, w2, o2)
  BY <1>1, <1>2, <1>3, <1>4, <1>7, <1>8, <1>9, <1>10 DEF InOrder, gi, go, I2, W2, O2
<1>12. UnderWay(p, i, w, o) = I \cup W \cup O /\ UnderWay(p, i2, w2, o2) = I2 \cup W2 \cup O2
  BY DEF UnderWay, gi, go, I, W, O, I2, W2, O2
<1>13. UnderWay(p, i2, w2, o2) \subseteq UnderWay(p, i, w, o) \cup R \cup {Nothing}
  BY <1>0, <1>1, <1>2, <1>3, <1>12
<1>14. ASSUME kept
       PROVE  UnderWay(p, i, w, o) \subseteq UnderWay(p, i2, w2, o2) \cup X \cup {Nothing}
  BY <1>0, <1>1, <1>2, <1>3, <1>12, <1>14
<1> QED BY <1>3, <1>11, <1>12, <1>13, <1>14

(***************************************************************************)
(* What is still to come on a link.                                        *)
(***************************************************************************)
\* Neighbour a is told of all that d lists: by an announcement that waits, by the
\* walk, or by what is under way to a node with table u, if it does not know.
Pending(d, a) == \E k \in DOMAIN d.update_queue : a \notin d.update_queue[k]

WillSend(d, a) ==
  /\ a \notin d.walk.exclude
  /\ \E k \in DOMAIN d.neighbour_mip_vec :
       d.neighbour_mip_vec[k] = a /\ d.walk.next <= k /\ k <= d.walk.last

Arrives(S, t, u, a) ==
  \A to \in DOMAIN t : t[to].via # a /\ t[to].cost < INF_COST =>
    \/ to \in DOMAIN u /\ u[to].cost <= t[to].cost + 1
    \/ \E x \in S : to \in DOMAIN x /\ x[to] <= t[to].cost

Covered(d, u, S, a) ==
  a \in Neighbours(d) =>
    Pending(d, a) \/ WillSend(d, a) \/ Arrives(S, d.distance_vector_table, u, a)

\* A walk finds the list as it was, or the announcement of the neighbour whose
\* discovery replaced its storage still waits.
WalkRight(d) ==
  Walking(d) =>
    IF d.walk.freed THEN \E k \in DOMAIN d.update_queue : d.update_queue[k] = {}
                    ELSE d.walk.last <= Len(d.neighbour_mip_vec)

\* From p[1], at a node with routing_deamon d, to p[2], at a node with table u.
LinkOK(p, d, u, i, w, o) ==
  LET S == UnderWay(p, i, w, o)
  IN  /\ InOrder(p, i, w, o)
      /\ Stands(S, d.distance_vector_table, u, p[1])
      /\ Covered(d, u, S, p[2])

Told == [dest : MIPAddress, advert : Adverts]

\* What is under way are advertisements.
LEMMA UnderWayType ==
  ASSUME NEW p, NEW i \in Seq(Update), NEW w \in Seq(FramesOf(p[1])), NEW o \in Seq(Told)
  PROVE  UnderWay(p, i, w, o) \in SUBSET Adverts
<1>1. Nothing \in Adverts
  BY CostsAre
<1> HIDE DEF Nothing
<1>2. \A u \in Update : TellsOf(p[1])[u] \in Adverts
  BY <1>1, UpdateShape DEF TellsOf
<1>3. \A f \in FramesOf(p[1]) : Carries[f] \in Adverts
  BY <1>1 DEF FramesOf, Carries, AdvertsOf
<1>4. \A x \in Told : SaysTo(p[2])[x] \in Adverts
  BY <1>1 DEF Told, SaysTo
<1>5. /\ \A k \in DOMAIN i : i[k] \in Update
      /\ \A k \in DOMAIN w : w[k] \in FramesOf(p[1])
      /\ \A k \in DOMAIN o : o[k] \in Told
  OBVIOUS
<1> QED BY <1>2, <1>3, <1>4, <1>5 DEF UnderWay, Contents

\* As long as nothing but Nothing is lost all still arrives.
LEMMA ArrivesStill ==
  ASSUME NEW S, NEW R, NEW t, NEW u, NEW a, Arrives(S, t, u, a), S \subseteq R \cup {Nothing}
  PROVE  Arrives(R, t, u, a)
<1>1. DOMAIN Nothing = {}
  BY DEF Nothing
<1> HIDE DEF Nothing
<1> QED BY <1>1 DEF Arrives

\* What is under way moves on.
LEMMA LinkFlows ==
  ASSUME NEW p, NEW d, NEW u, NEW i, NEW w, NEW o, LinkOK(p, d, u, i, w, o),
         NEW i2, NEW w2, NEW o2, NEW kept \in BOOLEAN,
         Flows(p, i, w, o, i2, w2, o2, {}, {}, kept), p[2] \in Neighbours(d) => kept
  PROVE  LinkOK(p, d, u, i2, w2, o2)
<1> DEFINE S == UnderWay(p, i, w, o)
           R == UnderWay(p, i2, w2, o2)
<1>1. InOrder(p, i, w, o) /\ Above(S, {})
  BY DEF LinkOK, Above
<1>2. /\ InOrder(p, i2, w2, o2) /\ R \subseteq S \cup {} \cup {Nothing}
      /\ kept => S \subseteq R \cup {} \cup {Nothing}
  BY <1>1, PipeFlows
<1>3. Stands(S, d.distance_vector_table, u, p[1]) /\ Covered(d, u, S, p[2])
  BY DEF LinkOK
<1> HIDE DEF S, R
<1>4. Stands(R, d.distance_vector_table, u, p[1])
  BY <1>2, <1>3, StandsFewer
<1>5. Covered(d, u, R, p[2])
  <2> SUFFICES ASSUME p[2] \in Neighbours(d), Arrives(S, d.distance_vector_table, u, p[2])
               PROVE  Arrives(R, d.distance_vector_table, u, p[2])
    BY <1>3 DEF Covered
  <2>1. S \subseteq R \cup {Nothing}
    BY <1>2
  <2> QED BY <2>1, ArrivesStill
<1> QED BY <1>2, <1>4, <1>5 DEF LinkOK, R

\* The routing_deamon at the begin does a step from d to e.
LEMMA LinkBegins ==
  ASSUME NEW p, NEW d \in DeamonType, NEW e \in DeamonType, NEW u \in Tables,
         NEW i \in Seq(Update), NEW w \in Seq(FramesOf(p[1])), NEW o \in Seq(Told),
         LinkOK(p, d, u, i, w, o),
         Cheaper(d.distance_vector_table, e.distance_vector_table),
         p[2] \in Neighbours(e) =>
           \/ Pending(e, p[2]) \/ WillSend(e, p[2])
           \/ /\ p[2] \in Neighbours(d) /\ ~Pending(d, p[2]) /\ ~WillSend(d, p[2])
              /\ \A to \in DOMAIN e.distance_vector_table :
                   e.distance_vector_table[to].via # p[2] =>
                     /\ to \in DOMAIN d.distance_vector_table
                     /\ e.distance_vector_table[to] = d.distance_vector_table[to]
  PROVE  LinkOK(p, e, u, i, w, o)
<1> DEFINE S == UnderWay(p, i, w, o)
           t == d.distance_vector_table
           v == e.distance_vector_table
<1>1. /\ InOrder(p, i, w, o) /\ Stands(S, t, u, p[1]) /\ Covered(d, u, S, p[2])
  BY DEF LinkOK
<1>2. t \in Tables /\ v \in Tables
  BY DEF DeamonType
<1>3. S \in SUBSET Adverts
  BY UnderWayType
<1> HIDE DEF S
<1>4. Stands(S, v, u, p[1])
  BY <1>1, <1>2, <1>3, StandsCheaper
<1> HIDE DEF t, v
<1>5. Covered(e, u, S, p[2])
  <2> SUFFICES ASSUME p[2] \in Neighbours(d), ~Pending(d, p[2]), ~WillSend(d, p[2]),
                      \A to \in DOMAIN v : v[to].via # p[2] => to \in DOMAIN t /\ v[to] = t[to]
               PROVE  Arrives(S, v, u, p[2])
    BY DEF Covered, v, t
  <2>1. Arrives(S, t, u, p[2])
    BY <1>1 DEF Covered, t
  <2> QED BY <2>1 DEF Arrives
<1> QED BY <1>1, <1>4, <1>5 DEF LinkOK, S, v

\* The update thread there takes an announcement.
LEMMA LinkStarts ==
  ASSUME NEW p, NEW d \in DeamonType, NEW u \in Tables, NEW i \in Seq(Update),
         NEW w \in Seq(FramesOf(p[1])), NEW o \in Seq(Told), LinkOK(p, d, u, i, w, o),
         d.update_queue # <<>>, ~Walking(d)
  PROVE  LinkOK(p, popUpdate(d), u, i, w, o) /\ WalkRight(popUpdate(d))
<1> DEFINE e == popUpdate(d)
           q == d.update_queue
           a == p[2]
<1>1. /\ e \in DeamonType /\ e.neighbour_mip_vec = d.neighbour_mip_vec
      /\ e.distance_vector_table = d.distance_vector_table
  BY WalkStarts DEF Same
<1>2. /\ e.update_queue = Tail(q) /\ e.walk.exclude = Head(q) /\ e.walk.next = 1
      /\ e.walk.last = Len(d.neighbour_mip_vec) /\ ~e.walk.freed
  BY DEF popUpdate, DeamonType
<1>3. q \in Seq(SUBSET MIPAddress) /\ q # <<>>
  BY DEF DeamonType
<1>4. /\ d.neighbour_mip_vec \in Seq(MIPAddress) /\ d.walk.next \in Nat /\ d.walk.last \in Nat
  BY DEF DeamonType
<1> HIDE DEF e, q, a
<1>5. \A k \in DOMAIN q : k = 1 \/ (k - 1 \in DOMAIN Tail(q) /\ Tail(q)[k - 1] = q[k])
  BY <1>3
<1>6. ~WillSend(d, a)
  BY <1>4 DEF WillSend, Walking
<1>7. ASSUME a \in Neighbours(e), Pending(d, a) PROVE Pending(e, a) \/ WillSend(e, a)
  <2>1. PICK k \in DOMAIN q : a \notin q[k]
    BY <1>7 DEF Pending, q
  <2>2. CASE k = 1
    <3>1. a \notin e.walk.exclude
      BY <1>2, <1>3, <2>1, <2>2
    <3>2. PICK j \in DOMAIN e.neighbour_mip_vec : e.neighbour_mip_vec[j] = a
      BY <1>7 DEF Neighbours
    <3>3. 1 <= j /\ j <= e.walk.last
      BY <1>1, <1>2, <1>4, <3>2
    <3> QED BY <1>2, <3>1, <3>2, <3>3 DEF WillSend
  <2>3. CASE k # 1
    <3>1. k - 1 \in DOMAIN e.update_queue /\ a \notin e.update_queue[k - 1]
      BY <1>2, <1>5, <2>1, <2>3
    <3> QED BY <3>1 DEF Pending
  <2> QED BY <2>2, <2>3
<1>8. Cheaper(d.distance_vector_table, e.distance_vector_table)
  <2>1. \A to \in DOMAIN d.distance_vector_table : d.distance_vector_table[to].cost \in Int
    BY CostsAre DEF DeamonType
  <2> QED BY <1>1, <2>1 DEF Cheaper
<1>9. LinkOK(p, e, u, i, w, o)
  BY <1>1, <1>6, <1>7, <1>8, LinkBegins DEF Neighbours, a
<1>10. WalkRight(e)
  BY <1>1, <1>2, <1>4 DEF WalkRight
<1> QED BY <1>9, <1>10 DEF e

\* The update thread there writes to a neighbour.
LEMMA LinkWalks ==
  ASSUME NEW p, NEW d \in DeamonType, NEW u \in Tables, NEW i \in Seq(Update),
         NEW w \in Seq(FramesOf(p[1])), NEW o \in Seq(Told), LinkOK(p, d, u, i, w, o),
         Walking(d), WalkRight(d), d.walk.next >= 1, NEW dest \in Targets(d), dest \in MIPAddress,
         \A to \in DOMAIN d.distance_vector_table :
           NodeOf[to] = NodeOf[p[1]] => d.distance_vector_table[to].cost = 0,
         \A to \in DOMAIN u : NodeOf[to] = NodeOf[p[1]] => u[to].cost # 0
  PROVE  LinkOK(p, stepWalk(d), u, i, w, o \o Advertised(d, dest))
<1> DEFINE e == stepWalk(d)
           a == p[2]
           r == Advertised(d, dest)
           t == d.distance_vector_table
           x == packAdvertisment(t, a)
           R == Contents(r, SaysTo(a))
           S == UnderWay(p, i, w, o)
           S2 == UnderWay(p, i, w, o \o r)
<1>1. /\ e.neighbour_mip_vec = d.neighbour_mip_vec /\ e.distance_vector_table = t
      /\ e.update_queue = d.update_queue
      /\ e.walk = IF d.walk.next = d.walk.last THEN Idle
                  ELSE [d.walk EXCEPT !.next = d.walk.next + 1]
  BY DEF stepWalk, DeamonType
<1>2. /\ d.neighbour_mip_vec \in Seq(MIPAddress) /\ d.spare \in Seq(MIPAddress)
      /\ d.walk \in [exclude : SUBSET MIPAddress, next : Nat, last : Nat, freed : BOOLEAN]
      /\ t \in Tables
  BY DEF DeamonType
<1>3. /\ InOrder(p, i, w, o) /\ Stands(S, t, u, p[1]) /\ Covered(d, u, S, a)
  BY DEF LinkOK
<1>4. S \in SUBSET Adverts
  BY UnderWayType
<1>5. Stands(S \cup {x}, t, u, p[1]) /\ Above(S, {x})
  <2> DEFINE b == p[1]
  <2>1. /\ S \in SUBSET Adverts /\ t \in Tables /\ Stands(S, t, u, b)
        /\ \A to \in DOMAIN t : NodeOf[to] = NodeOf[b] => t[to].cost = 0
        /\ \A to \in DOMAIN u : NodeOf[to] = NodeOf[b] => u[to].cost # 0
    BY <1>2, <1>3, <1>4
  <2>2. u \in Tables
    OBVIOUS
  <2> HIDE DEF S, t, a, b
  <2>3. Stands(S \cup {packAdvertisment(t, a)}, t, u, b)
    BY ONLY <2>1, <2>2, StandsTold
  <2>4. Above(S, {packAdvertisment(t, a)})
    BY ONLY <2>1, <2>2, StandsTold
  <2> QED BY <2>3, <2>4 DEF b
<1>6. r \in Seq(Told)
  <2>1. packAdvertisment(t, dest) \in Adverts
    BY <1>2, PackOK
  <2> QED BY <2>1, AdvertisedOK DEF Told
<1>7. /\ R \subseteq {Nothing, x} /\ Falling(r, SaysTo(a))
      /\ dest = a /\ dest \notin d.walk.exclude => R = {x}
  <2> DEFINE y == [dest |-> dest, advert |-> packAdvertisment(t, dest)]
             g == SaysTo(a)
  <2>1. r = IF dest \in d.walk.exclude THEN <<>> ELSE <<y>>
    BY DEF Advertised
  <2>2. y \in Told
    BY <1>2, PackOK DEF Told
  <2>3. g[y] = IF dest = a THEN x ELSE Nothing
    BY <2>2 DEF SaysTo, Told
  <2> HIDE DEF y, g, x
  <2>4. CASE dest \in d.walk.exclude
    <3>1. r = <<>>
      BY <2>1, <2>4
    <3> QED BY <2>4, <3>1, QueueOfOne
  <2>5. CASE dest \notin d.walk.exclude
    <3>1. r = <<y>>
      BY <2>1, <2>5
    <3>2. Contents(<<y>>, g) = {g[y]} /\ Falling(<<y>>, g)
      BY QueueOfOne
    <3> QED BY <2>3, <3>1, <3>2 DEF g
  <2> QED BY <2>4, <2>5
<1> HIDE DEF S, S2, R, r, x
<1>8. Above(S, R)
  BY <1>5, <1>7, NothingOver DEF Above
<1>9. Flows(p, i, w, o, i, w, o \o r, {}, R, TRUE)
  <2>1. Passes(SaysTo(a), o, o \o r, {}, R)
    BY <1>6, <1>7, PassesOn DEF R
  <2>2. Passes(TellsOf(p[1]), i, i, {}, {}) /\ Passes(Carries, w, w, {}, {})
    BY PassesNothing
  <2> QED BY <2>1, <2>2 DEF Flows
<1>10. /\ InOrder(p, i, w, o \o r) /\ S2 \subseteq S \cup R \cup {Nothing}
       /\ S \subseteq S2 \cup {} \cup {Nothing} /\ R \subseteq S2
  <2>1. Above(UnderWay(p, i, w, o), R) /\ TRUE \in BOOLEAN
    BY <1>8 DEF S
  <2>2. InOrder(p, i, w, o) /\ Flows(p, i, w, o, i, w, o \o r, {}, R, TRUE)
    BY <1>3, <1>9
  <2>3. /\ InOrder(p, i, w, o \o r)
        /\ UnderWay(p, i, w, o \o r) \subseteq UnderWay(p, i, w, o) \cup R \cup {Nothing}
        /\ TRUE => UnderWay(p, i, w, o) \subseteq UnderWay(p, i, w, o \o r) \cup {} \cup {Nothing}
        /\ R \subseteq UnderWay(p, i, w, o \o r)
    BY ONLY <2>1, <2>2, PipeFlows
  <2> QED BY <2>3 DEF S, S2
<1>11. Stands(S2, t, u, p[1])
  BY <1>5, <1>7, <1>10, StandsFewer
<1>12. Covered(e, u, S2, a)
  <2> SUFFICES ASSUME a \in Neighbours(d), ~Pending(d, a)
               PROVE  WillSend(e, a) \/ Arrives(S2, t, u, a)
    BY <1>1 DEF Covered, Neighbours, Pending
  <2>1. CASE Arrives(S, t, u, a)
    <3>1. S \subseteq S2 \cup {Nothing}
      BY <1>10
    <3> QED BY <2>1, <3>1, ArrivesStill
  <2>2. CASE WillSend(d, a)
    <3>1. PICK k \in DOMAIN d.neighbour_mip_vec :
            d.neighbour_mip_vec[k] = a /\ d.walk.next <= k /\ k <= d.walk.last
      BY <2>2 DEF WillSend
    <3>2. ~d.walk.freed /\ d.walk.last <= Len(d.neighbour_mip_vec)
      BY DEF WalkRight, Pending
    <3>3. CASE k = d.walk.next
      <4>1. (d.neighbour_mip_vec \o d.spare)[k] = d.neighbour_mip_vec[k]
        <5> DEFINE vec == d.neighbour_mip_vec
                   spare == d.spare
        <5>1. vec \in Seq(MIPAddress) /\ spare \in Seq(MIPAddress) /\ k \in DOMAIN vec
          BY <1>2
        <5> HIDE DEF vec, spare
        <5>2. k \in 1..Len(vec)
          BY <5>1
        <5>3. /\ Len(vec) \in Nat /\ Len(spare) \in Nat
              /\ \A j \in 1..Len(vec) + Len(spare) :
                   (vec \o spare)[j] = IF j <= Len(vec) THEN vec[j] ELSE spare[j - Len(vec)]
          BY ONLY <5>1, Joined
        <5>4. (vec \o spare)[k] = vec[k]
          BY ONLY <5>2, <5>3
        <5> QED BY <5>4 DEF vec, spare
      <4>2. dest = a
        BY <3>1, <3>2, <3>3, <4>1 DEF Targets
      <4>3. x \in S2
        BY <1>7, <1>10, <2>2, <4>2 DEF WillSend
      <4>4. \A to \in DOMAIN t : t[to].via # a => to \in DOMAIN x /\ x[to] = t[to].cost
        BY DEF x, packAdvertisment
      <4>5. \A to \in DOMAIN t : t[to].cost <= t[to].cost
        BY <1>2, CostsAre
      <4> QED BY <4>3, <4>4, <4>5 DEF Arrives
    <3>4. CASE k # d.walk.next
      <4>1. k \in Nat /\ d.walk.next \in Nat /\ d.walk.last \in Nat
        BY <1>2
      <4>2. d.walk.next # d.walk.last /\ d.walk.next + 1 <= k
        BY <3>1, <3>4, <4>1
      <4>3. /\ e.walk.next = d.walk.next + 1 /\ e.walk.last = d.walk.last
            /\ e.walk.exclude = d.walk.exclude
        BY <1>1, <1>2, <4>2
      <4> QED BY <1>1, <2>2, <3>1, <4>2, <4>3 DEF WillSend
    <3> QED BY <3>3, <3>4
  <2> QED BY <1>3, <2>1, <2>2 DEF Covered
<1> QED BY <1>1, <1>10, <1>11, <1>12 DEF LinkOK, S2, r, e

\* The walk goes on right.
LEMMA WalkStaysRight ==
  ASSUME NEW d \in DeamonType, Walking(d), WalkRight(d)
  PROVE  WalkRight(stepWalk(d))
<1> DEFINE e == stepWalk(d)
<1>1. /\ e.neighbour_mip_vec = d.neighbour_mip_vec /\ e.update_queue = d.update_queue
      /\ e.walk = IF d.walk.next = d.walk.last THEN Idle
                  ELSE [d.walk EXCEPT !.next = d.walk.next + 1]
      /\ d.walk \in [exclude : SUBSET MIPAddress, next : Nat, last : Nat, freed : BOOLEAN]
  BY DEF stepWalk, DeamonType
<1> HIDE DEF e
<1>2. CASE d.walk.next = d.walk.last
  <2>1. ~Walking(e)
    BY <1>1, <1>2 DEF Walking, Idle
  <2> QED BY <2>1 DEF WalkRight, e
<1>3. CASE d.walk.next # d.walk.last
  <2>1. e.walk.last = d.walk.last /\ e.walk.freed = d.walk.freed
    BY <1>1, <1>3
  <2> QED BY <1>1, <2>1 DEF WalkRight, e
<1> QED BY <1>2, <1>3

\* At the other end the first message is read, which turns table u into v.
LEMMA LinkEnds ==
  ASSUME NEW p, NEW d \in DeamonType, NEW u \in Tables, NEW v \in Tables,
         NEW i \in Seq(Update), NEW w \in Seq(FramesOf(p[1])), NEW o \in Seq(Told),
         LinkOK(p, d, u, i, w, o), i # <<>>, Cheaper(u, v),
         NEW x, x = TellsOf(p[1])[Head(i)],
         \A to \in DOMAIN x : to \in DOMAIN v /\ v[to].cost <= Cap(x[to]),
         \A to \in DOMAIN v : v[to].via = p[1] =>
           \/ to \in DOMAIN u /\ v[to] = u[to]
           \/ NodeOf[to] = NodeOf[p[1]] /\ v[to].cost >= 1
           \/ to \in DOMAIN x /\ v[to].cost = Cap(x[to])
  PROVE  LinkOK(p, d, v, Tail(i), w, o)
<1> DEFINE g == TellsOf(p[1])
           j == Tail(i)
           t == d.distance_vector_table
           S == UnderWay(p, i, w, o)
           S2 == UnderWay(p, j, w, o)
           W == Contents(w, Carries)
           O == Contents(o, SaysTo(p[2]))
<1>1. /\ InOrder(p, i, w, o) /\ Stands(S, t, u, p[1]) /\ Covered(d, u, S, p[2])
      /\ t \in Tables
  BY DEF LinkOK, DeamonType
<1>2. /\ Contents(i, g) = {x} \cup Contents(j, g)
      /\ Falling(i, g) => Falling(j, g) /\ Above({x}, Contents(j, g))
  BY QueueTaken
<1>3. /\ Falling(i, g) /\ Falling(w, Carries) /\ Falling(o, SaysTo(p[2]))
      /\ Above(Contents(i, g), W) /\ Above(Contents(i, g), O) /\ Above(W, O)
  BY <1>1 DEF InOrder
<1>4. S = Contents(i, g) \cup W \cup O /\ S2 = Contents(j, g) \cup W \cup O
  BY DEF UnderWay
<1>5. S \in SUBSET Adverts
  BY UnderWayType
<1> HIDE DEF S, S2, W, O, g, j
<1>6. InOrder(p, j, w, o)
  BY <1>2, <1>3 DEF InOrder, Above, W, O, g
<1>7. Above({x}, S2) /\ x \in S /\ S2 \subseteq S /\ S = S2 \cup {x}
  BY <1>2, <1>3, <1>4 DEF Above
<1>8. Stands(S2, t, v, p[1])
  <2> DEFINE b == p[1]
  <2>1. /\ S \in SUBSET Adverts /\ x \in S /\ S2 \in SUBSET S /\ Above({x}, S2)
        /\ t \in Tables /\ u \in Tables /\ v \in Tables /\ Stands(S, t, u, b)
    BY <1>1, <1>5, <1>7
  <2>2. \A to \in DOMAIN v : v[to].via = b =>
           \/ to \in DOMAIN u /\ v[to] = u[to]
           \/ NodeOf[to] = NodeOf[b] /\ v[to].cost >= 1
           \/ to \in DOMAIN x /\ v[to].cost = Cap(x[to])
    OBVIOUS
  <2> HIDE DEF S, S2, t, b
  <2>3. Stands(S2, t, v, b)
    BY ONLY <2>1, <2>2, StandsTurned
  <2> QED BY <2>3 DEF b
<1>9. Covered(d, v, S2, p[2])
  <2> SUFFICES ASSUME Arrives(S, t, u, p[2])
               PROVE  Arrives(S2, t, v, p[2])
    BY <1>1 DEF Covered
  <2> SUFFICES ASSUME NEW to \in DOMAIN t, t[to].via # p[2], t[to].cost < INF_COST
               PROVE  \/ to \in DOMAIN v /\ v[to].cost <= t[to].cost + 1
                      \/ \E y \in S2 : to \in DOMAIN y /\ y[to] <= t[to].cost
    BY DEF Arrives
  <2>1. t[to].cost \in Int
    BY <1>1, CostsAre
  <2> HIDE DEF t
  <2>2. CASE to \in DOMAIN u /\ u[to].cost <= t[to].cost + 1
    <3>1. to \in DOMAIN v /\ v[to].cost <= u[to].cost
      BY <2>2 DEF Cheaper
    <3>2. v[to].cost \in Int /\ u[to].cost \in Int
      BY <2>2, <3>1, CostsAre
    <3> QED BY <2>1, <2>2, <3>1, <3>2
  <2>3. CASE to \in DOMAIN x /\ x[to] <= t[to].cost
    <3>1. to \in DOMAIN v /\ v[to].cost <= Cap(x[to])
      BY <2>3
    <3>2. x \in Adverts
      BY <1>5, <1>7
    <3>3. x[to] \in Cost /\ x[to] \in Int /\ v[to].cost \in Int
      BY <2>3, <3>1, <3>2, CostsAre
    <3>4. Cap(x[to]) <= x[to] + 1 /\ Cap(x[to]) \in Cost
      BY <3>3, CapFacts
    <3>5. Cap(x[to]) \in Int
      BY <3>4 DEF Cost
    <3> QED BY <2>1, <2>3, <3>1, <3>3, <3>4, <3>5
  <2>4. \/ to \in DOMAIN u /\ u[to].cost <= t[to].cost + 1
        \/ \E y \in S : to \in DOMAIN y /\ y[to] <= t[to].cost
    BY DEF Arrives
  <2> QED BY <1>7, <2>2, <2>3, <2>4
<1> QED BY <1>6, <1>8, <1>9 DEF LinkOK, S2, t, j

(***************************************************************************)
(* Sequences, links, and what they carry.                                  *)
(***************************************************************************)
\* What is in two queues, one behind the other.
LEMMA InJoined ==
  ASSUME NEW T, NEW q \in Seq(T), NEW r \in Seq(T)
  PROVE  /\ \A i \in DOMAIN q : i \in DOMAIN (q \o r) /\ (q \o r)[i] = q[i]
         /\ \A j \in DOMAIN r : \E i \in DOMAIN (q \o r) : (q \o r)[i] = r[j]
         /\ \A i \in DOMAIN (q \o r) : \/ i \in DOMAIN q /\ (q \o r)[i] = q[i]
                                       \/ \E j \in DOMAIN r : (q \o r)[i] = r[j]
<1> DEFINE s == q \o r
           m == Len(q)
<1>1. /\ m \in Nat /\ Len(r) \in Nat /\ DOMAIN s = 1..m + Len(r)
      /\ DOMAIN q = 1..m /\ DOMAIN r = 1..Len(r)
      /\ \A i \in 1..m + Len(r) : s[i] = IF i <= m THEN q[i] ELSE r[i - m]
  BY Joined
<1> HIDE DEF s, m
<1>2. ASSUME NEW i \in DOMAIN s
      PROVE  (i \in DOMAIN q /\ s[i] = q[i]) \/ (\E j \in DOMAIN r : s[i] = r[j])
  <2>1. CASE i <= m
    BY <1>1, <2>1
  <2>2. CASE ~(i <= m)
    <3>1. i - m \in DOMAIN r /\ s[i] = r[i - m]
      BY <1>1, <2>2
    <3> QED BY <3>1
  <2> QED BY <2>1, <2>2
<1>3. ASSUME NEW j \in DOMAIN r PROVE \E i \in DOMAIN s : s[i] = r[j]
  <2>1. j + m \in 1..m + Len(r) /\ ~(j + m <= m) /\ j + m - m = j
    BY <1>1
  <2> QED BY <1>1, <2>1
<1>4. ASSUME NEW i \in DOMAIN q PROVE i \in DOMAIN s /\ s[i] = q[i]
  BY <1>1
<1> QED BY <1>2, <1>3, <1>4 DEF s

\* What is behind the first message.
LEMMA InTail ==
  ASSUME NEW T, NEW q \in Seq(T), q # <<>>
  PROVE  /\ 1 \in DOMAIN q /\ q[1] = Head(q) /\ Tail(q) \in Seq(T)
         /\ \A i \in DOMAIN Tail(q) : i + 1 \in DOMAIN q /\ Tail(q)[i] = q[i + 1] /\ i + 1 > 1
         /\ \A i \in DOMAIN q : i = 1 \/ (i - 1 \in DOMAIN Tail(q) /\ Tail(q)[i - 1] = q[i])
<1>1. /\ Len(q) \in Nat /\ Len(q) >= 1 /\ DOMAIN Tail(q) = 1..Len(q) - 1 /\ DOMAIN q = 1..Len(q)
      /\ Head(q) = q[1] /\ Tail(q) \in Seq(T)
      /\ \A i \in 1..Len(q) - 1 : Tail(q)[i] = q[i + 1]
  OBVIOUS
<1>2. ASSUME NEW i \in DOMAIN q, i # 1
      PROVE  i - 1 \in DOMAIN Tail(q) /\ Tail(q)[i - 1] = q[i]
  <2>1. i - 1 \in 1..Len(q) - 1 /\ i - 1 + 1 = i
    BY <1>1, <1>2
  <2> QED BY <1>1, <2>1
<1> QED BY <1>1, <1>2

\* A queue with nothing in it.
LEMMA EmptyQueue ==
  ASSUME NEW T, NEW q \in Seq(T), \A i \in DOMAIN q : FALSE
  PROVE  q = <<>>
<1>1. DOMAIN q = 1..Len(q) /\ Len(q) \in Nat
  OBVIOUS
<1> DEFINE L == Len(q)
<1>2. L \in Nat /\ \A i \in 1..L : FALSE
  BY <1>1
<1> HIDE DEF L
<1>3. ~(1 \in 1..L)
  BY <1>2
<1>4. L = 0
  BY <1>2, <1>3
<1> QED BY <1>4 DEF L

\* A queue that carries the same over and over.
LEMMA QueueOfSame ==
  ASSUME NEW q, NEW g, NEW x \in Adverts, Contents(q, g) \subseteq {x}
  PROVE  Falling(q, g)
<1>1. \A i \in DOMAIN q : g[q[i]] = x
  BY DEF Contents
<1>2. Over(x, x)
  BY CostsAre DEF Over
<1> QED BY <1>1, <1>2 DEF Falling

\* raw_sock_vec has all interfaces.
LEMMA SocksAll ==
  ASSUME NEW n \in Node, NEW a \in Interfaces(n)
  PROVE  \E i \in DOMAIN Socks(n) : Socks(n)[i] = a
<1> DEFINE S == Interfaces(n)
           c == Cardinality(S)
           f == SetToSeq(S)
<1>1. S \in SUBSET MIPAddress /\ IsFiniteSet(MIPAddress)
  BY NetworkAssumption DEF Interfaces
<1> HIDE DEF S
<1>2. IsFiniteSet(S)
  BY <1>1, FS_Subset
<1>3. c \in Nat /\ ExistsBijection(1..c, S)
  BY <1>2, FS_CardinalityType
<1>4. \E g \in [1..c -> S] : IsInjective(g)
  <2> HIDE DEF c
  <2> QED BY <1>3 DEF ExistsBijection, Bijection, Injection, Surjection, IsInjective
<1>5. f \in [1..c -> S] /\ IsInjective(f)
  BY <1>4 DEF SetToSeq
<1>6. IsFiniteSet(1..c) /\ Cardinality(1..c) = c
  <2> HIDE DEF c
  <2> QED BY <1>3, FS_Interval
<1>7. f \in Surjection(1..c, S)
  <2>1. f \in Injection(1..c, S)
    <3> HIDE DEF f, c
    <3> QED BY <1>5 DEF Injection, IsInjective
  <2> HIDE DEF f
  <2> QED BY <1>2, <1>6, <2>1, FS_Injection
<1>8. \E i \in 1..c : f[i] = a
  <2> HIDE DEF f, c
  <2> QED BY <1>7 DEF Surjection, S
<1>9. DOMAIN f = 1..c
  BY <1>5
<1> QED BY <1>8, <1>9 DEF f, S, Socks

\* What goes over the links of plain networks.
LEMMA PlainFacts ==
  ASSUME PlainLinks, NEW p \in Wires
  PROVE  /\ p[1] \in MIPAddress /\ p[2] \in MIPAddress /\ p = <<p[1], p[2]>>
         /\ NodeOf[p[1]] \in Node /\ NodeOf[p[2]] \in Node /\ NodeOf[p[1]] # NodeOf[p[2]]
         /\ <<p[2], p[1]>> \in Wires /\ Hears(p[1], p[2])
         /\ \A q \in Wires : /\ q[1] = p[1] /\ NodeOf[q[2]] = NodeOf[p[2]] => q = p
                             /\ q[2] = p[2] /\ NodeOf[q[1]] = NodeOf[p[1]] => q = p
<1>1. /\ p \in MIPAddress \X MIPAddress /\ Hears(p[1], p[2])
      /\ p[1] \in MIPAddress /\ p[2] \in MIPAddress /\ p = <<p[1], p[2]>>
  BY DEF Wires
<1>2. PICK l \in Links : {p[1], p[2]} \subseteq l /\ p[1] # p[2]
  BY <1>1 DEF Hears
<1>3. /\ \A a, b \in l : NodeOf[a] = NodeOf[b] => a = b
      /\ \A k \in Links : l # k => l \cap k = {}
  BY DEF PlainLinks
<1>4. ASSUME NEW q \in Wires, q[1] = p[1] \/ q[2] = p[2]
      PROVE  q = <<q[1], q[2]>> /\ q[1] \in l /\ q[2] \in l
  <2>1. q = <<q[1], q[2]>> /\ Hears(q[1], q[2])
    BY DEF Wires
  <2>2. PICK k \in Links : {q[1], q[2]} \subseteq k
    BY <2>1 DEF Hears
  <2>3. k = l
    BY <1>2, <1>3, <1>4, <2>2
  <2> QED BY <2>1, <2>2, <2>3
<1>5. NodeOf[p[1]] \in Node /\ NodeOf[p[2]] \in Node /\ NodeOf[p[1]] # NodeOf[p[2]]
  BY <1>1, <1>2, <1>3, NetworkAssumption
<1>6. <<p[2], p[1]>> \in Wires
  BY <1>1, <1>2 DEF Wires, Hears
<1>7. ASSUME NEW q \in Wires, q[1] = p[1], NodeOf[q[2]] = NodeOf[p[2]] PROVE q = p
  BY <1>1, <1>2, <1>3, <1>4, <1>7
<1>8. ASSUME NEW q \in Wires, q[2] = p[2], NodeOf[q[1]] = NodeOf[p[1]] PROVE q = p
  BY <1>1, <1>2, <1>3, <1>4, <1>8
<1> QED BY <1>1, <1>5, <1>6, <1>7, <1>8

\* What a link carries of what was written, and nothing else.
LEMMA CarriedFacts ==
  ASSUME NEW out \in Seq(Out), NEW p \in Wires
  PROVE  /\ \A k \in DOMAIN Carried(out, p) : \E j \in DOMAIN out :
              out[j] \in For(out, p) /\ Carried(out, p)[k] = out[j].frame
         /\ \A j \in DOMAIN out : out[j] \in For(out, p) =>
              \E k \in DOMAIN Carried(out, p) : Carried(out, p)[k] = out[j].frame
<1> DEFINE S == For(out, p)
           sent == M!Keep(out, S)
           c == Carried(out, p)
<1>1. sent \in Seq(Out) /\ Chosen(sent, out, S, Len(out))
  BY KeepFacts
<1>2. c = [i \in DOMAIN sent |-> sent[i].frame]
  BY DEF Carried
<1>3. DOMAIN out = 1..Len(out)
  OBVIOUS
<1> HIDE DEF sent, S, c
<1>4. DOMAIN sent = 1..Len(sent) /\ DOMAIN c = 1..Len(sent)
  BY <1>1, <1>2
<1>5. ASSUME NEW k \in DOMAIN c
      PROVE  \E j \in DOMAIN out : out[j] \in S /\ c[k] = out[j].frame
  <2>1. sent[k] \in S /\ sent[k] \in {out[j] : j \in 1..Len(out)}
    <3>1. sent \in Seq({out[j] : j \in 1..Len(out)}) /\ k \in 1..Len(sent)
      BY <1>1, <1>4 DEF Chosen
    <3> QED BY <1>1, <3>1 DEF Chosen
  <2> QED BY <1>2, <1>3, <1>4, <2>1
<1>6. ASSUME NEW j \in DOMAIN out, out[j] \in S
      PROVE  \E k \in DOMAIN c : c[k] = out[j].frame
  <2>1. \E k \in 1..Len(sent) : sent[k] = out[j]
    BY <1>1, <1>3, <1>6 DEF Chosen
  <2> QED BY <1>2, <1>4, <2>1
<1> QED BY <1>5, <1>6 DEF c, S

(***************************************************************************)
(* The invariant as long as no link of a plain network failed.             *)
(***************************************************************************)
\* What MIP_deamon knows, tells and has told of the nodes that run.
NodeCalm(n, m, d, ui, run) ==
  LET t == d.distance_vector_table
  IN  /\ \A x \in Partners(m) : NodeOf[x] \in run
      /\ n \notin run => Partners(m) = {} /\ ui = <<>>
      /\ \A i \in DOMAIN ui : ui[i].option # "ARP_LOSTCONNECTION"
      /\ \A i \in DOMAIN ui : ui[i].option = "LOCAL_MIP" =>
           Neighbours(d) = {} /\ \A j \in DOMAIN ui : j < i => ui[j].option = "LOCAL_MIP"
      /\ \A to \in DOMAIN t : NodeOf[to] = n => t[to] = [via |-> to, cost |-> 0]
      /\ n \in run => \A a \in Interfaces(n) :
           a \in DOMAIN t \/ \E i \in DOMAIN ui : ui[i].option = "LOCAL_MIP" /\ ui[i].mip = a
      /\ WalkRight(d)

\* The kinds of frames in w.
Kinds(w) == Contents(w, [f \in Frame |-> f.tra])

\* MIP_deamon m heard from b since its time-out, or will: w goes from b to it, and
\* back from it to b.
HeardOf(m, b) == \E i \in DOMAIN m.arp_pair_vec : m.arp_pair_vec[i].mip = b /\ m.arp_pair_vec[i].reply
WillHear(m, b, w, back) ==
  HeardOf(m, b) \/ "A" \in Kinds(w) \/ "ZERO" \in Kinds(w) \/ "A" \in Kinds(back)

\* What is on the wires to interface p[2], at a node with MIP_deamon m.
WireCalm(p, m, w, back, run) ==
  /\ "A" \in Kinds(w) \/ "ZERO" \in Kinds(w) => NodeOf[p[1]] \in run
  /\ "R" \in Kinds(w) => NodeOf[p[2]] \in run
  /\ NodeOf[p[1]] \in run /\ NodeOf[p[2]] \in run => WillHear(m, p[1], w, back)

WireNow(p) == WireCalm(p, mip[NodeOf[p[2]]], wire[p], wire[<<p[2], p[1]>>], started)

LinkNow(p) ==
  LET m == NodeOf[p[1]]
      n == NodeOf[p[2]]
  IN  LinkOK(p, daemon[m], daemon[n].distance_vector_table, update_in[n], wire[p], update_out[m])

ShortInv ==
  /\ up = Links
  /\ \A n \in Node : NodeCalm(n, mip[n], daemon[n], update_in[n], started)
  /\ \A p \in Wires : WireNow(p) /\ LinkNow(p)

\* The types of what a link depends on.
LEMMA LinkTypes ==
  ASSUME NetInv, PlainLinks, NEW p \in Wires
  PROVE  /\ \A n \in Node : /\ daemon[n] \in DeamonType /\ update_in[n] \in Seq(Update)
                            /\ daemon[n].distance_vector_table \in Tables
                            /\ update_out[n] \in Seq(Told)
         /\ wire[p] \in Seq(FramesOf(p[1])) /\ wire[p] \in Seq(Frame)
<1>1. ASSUME NEW n \in Node
      PROVE  /\ daemon[n] \in DeamonType /\ update_in[n] \in Seq(Update)
             /\ daemon[n].distance_vector_table \in Tables /\ update_out[n] \in Seq(Told)
  <2>1. /\ daemon[n] \in DeamonType /\ update_in[n] \in Seq(News(n))
        /\ update_out[n] \in Seq(ToTell(n))
    BY NodeParts
  <2>2. ToTell(n) \subseteq Told /\ News(n) \subseteq Update
    BY DEF ToTell, Told, News, AdvertsOf
  <2>3. update_in[n] \in Seq(Update) /\ update_out[n] \in Seq(Told)
    BY <2>1, <2>2
  <2> QED BY <2>1, <2>3 DEF DeamonType
<1>2. wire[p] \in Seq(FramesOf(p[1]))
  BY DEF NetInv
<1>3. FramesOf(p[1]) \subseteq Frame
  BY DEF FramesOf
<1> QED BY <1>1, <1>2, <1>3

\* What a handler of MIP_deamon of node n did.
Deed(n, e, taken) ==
  /\ EffectOK(n, mip[n], e) /\ Does(n, e, taken) /\ UNCHANGED daemon
  /\ taken \in Wires => wire[taken] # <<>>

Done(n, e, taken) ==
  /\ e.update \in Seq(Update) /\ e.out \in Seq(Out)
  /\ \A k \in Node :
       /\ mip'[k] = IF k = n THEN e.mip ELSE mip[k]
       /\ update_in'[k] = IF k = n THEN update_in[k] \o e.update ELSE update_in[k]
       /\ daemon'[k] = daemon[k]
  /\ \A p \in Wires :
       /\ wire'[p] = (IF p = taken THEN Tail(wire[p]) ELSE wire[p]) \o Carried(e.out, p)
       /\ Carried(e.out, p) \in Seq(Frame)

LEMMA DeedDone ==
  ASSUME NetInv, NEW n \in Node, NEW e, NEW taken, Deed(n, e, taken)
  PROVE  Done(n, e, taken)
<1>1. /\ DOMAIN mip = Node /\ DOMAIN update_in = Node /\ DOMAIN wire = Wires
  BY DEF NetInv, Domains
<1>2. /\ mip' = [mip EXCEPT ![n] = e.mip]
      /\ update_in' = [update_in EXCEPT ![n] = update_in[n] \o e.update]
      /\ wire' = [p \in DOMAIN wire |->
                    (IF p = taken THEN Tail(wire[p]) ELSE wire[p]) \o Carried(e.out, p)]
  BY DEF Deed, Does
<1>3. e.update \in Seq(News(n)) /\ e.out \in Seq(Out)
  BY DEF Deed, EffectOK
<1>4. e.update \in Seq(Update)
  BY <1>3, NewsShape
<1>5. \A p \in Wires : Carried(e.out, p) \in Seq(FramesOf(p[1]))
  BY <1>3, CarriedOK
<1>6. \A p \in Wires : FramesOf(p[1]) \subseteq Frame
  BY DEF FramesOf
<1>7. \A p \in Wires : Carried(e.out, p) \in Seq(Frame)
  BY <1>5, <1>6
<1>8. \A k \in Node : /\ mip'[k] = IF k = n THEN e.mip ELSE mip[k]
                      /\ update_in'[k] = IF k = n THEN update_in[k] \o e.update ELSE update_in[k]
  BY <1>1, <1>2
<1>9. \A p \in Wires : wire'[p] = (IF p = taken THEN Tail(wire[p]) ELSE wire[p])
                                     \o Carried(e.out, p)
  BY <1>1, <1>2
<1>10. \A k \in Node : daemon'[k] = daemon[k]
  BY DEF Deed
<1> QED BY <1>3, <1>4, <1>7, <1>8, <1>9, <1>10 DEF Done

\* What a link gets of it.
LEMMA DeedPasses ==
  ASSUME NetInv, PlainLinks, NEW n \in Node, NEW e, NEW taken, Deed(n, e, taken), NEW p \in Wires,
         Falling(e.update, TellsOf(p[1])), Falling(Carried(e.out, p), Carries)
  PROVE  /\ Passes(TellsOf(p[1]), update_in[NodeOf[p[2]]], update_in'[NodeOf[p[2]]], {},
                   IF NodeOf[p[2]] = n THEN Contents(e.update, TellsOf(p[1])) ELSE {})
         /\ Passes(Carries, wire[p], wire'[p],
                   IF p = taken THEN {Carries[Head(wire[p])]} ELSE {},
                   Contents(Carried(e.out, p), Carries))
<1> DEFINE k == NodeOf[p[2]]
           g == TellsOf(p[1])
           i == update_in[k]
           r == e.update
           w == wire[p]
           c == Carried(e.out, p)
<1>1. k \in Node /\ i \in Seq(Update) /\ w \in Seq(Frame)
  BY LinkTypes, PlainFacts
<1>2. /\ r \in Seq(Update) /\ c \in Seq(Frame)
      /\ update_in'[k] = IF k = n THEN i \o r ELSE i
      /\ wire'[p] = (IF p = taken THEN Tail(w) ELSE w) \o c
  <2>1. Done(n, e, taken)
    BY DeedDone
  <2> QED BY <1>1, <2>1 DEF Done
<1>3. p = taken => w # <<>>
  BY DEF Deed
<1> HIDE DEF k, g, i, r, w, c
<1>4. Passes(g, i, i \o r, {}, Contents(r, g)) /\ Passes(g, i, i, {}, {})
  BY <1>1, <1>2, PassesOn, PassesNothing DEF g, r
<1>5. /\ Passes(Carries, w, w \o c, {}, Contents(c, Carries))
      /\ w # <<>> => Passes(Carries, w, Tail(w) \o c, {Carries[Head(w)]}, Contents(c, Carries))
  BY <1>1, <1>2, PassesOn DEF c
<1>6. Passes(g, i, update_in'[k], {}, IF k = n THEN Contents(r, g) ELSE {})
  BY <1>2, <1>4
<1>7. Passes(Carries, w, wire'[p], IF p = taken THEN {Carries[Head(w)]} ELSE {},
             Contents(c, Carries))
  BY <1>2, <1>3, <1>5
<1> QED BY <1>6, <1>7 DEF k, g, i, r, w, c

\* It says nothing of ways.
Quiet(e, taken) ==
  /\ \A i \in DOMAIN e.update : e.update[i].option # "ADVERTISEMENT"
  /\ \A j \in DOMAIN e.out : e.out[j].frame.tra # "R"
  /\ taken \in Wires => Head(wire[taken]).tra # "R"

\* So the links are as they were.
LEMMA QuietLinks ==
  ASSUME NetInv, PlainLinks, ShortInv, NEW n \in Node, NEW e, NEW taken, Deed(n, e, taken),
         Quiet(e, taken), UNCHANGED update_out
  PROVE  \A p \in Wires : LinkNow(p)'
<1> SUFFICES ASSUME NEW p \in Wires PROVE LinkNow(p)'
  OBVIOUS
<1>0. Done(n, e, taken)
  BY DeedDone
<1> DEFINE a == NodeOf[p[1]]
           b == NodeOf[p[2]]
           g == TellsOf(p[1])
           r == e.update
           c == Carried(e.out, p)
<1>1. /\ a \in Node /\ b \in Node /\ r \in Seq(Update) /\ c \in Seq(Frame) /\ e.out \in Seq(Out)
      /\ wire[p] \in Seq(Frame)
  BY <1>0, PlainFacts, LinkTypes DEF Done
<1>2. Contents(r, g) \subseteq {Nothing}
  <2>1. \A i \in DOMAIN r : r[i] \in Update /\ r[i].option # "ADVERTISEMENT"
    <3>1. \A i \in DOMAIN r : r[i].option # "ADVERTISEMENT"
      BY DEF Quiet
    <3> HIDE DEF r
    <3> QED BY <1>1, <3>1
  <2> HIDE DEF r
  <2> QED BY <2>1 DEF Contents, TellsOf
<1>3. Contents(c, Carries) \subseteq {Nothing}
  <2>1. \A k \in DOMAIN c : \E j \in DOMAIN e.out : c[k] = e.out[j].frame
    BY <1>1, CarriedFacts
  <2>2. \A k \in DOMAIN c : c[k].tra # "R"
    BY <2>1 DEF Quiet
  <2> HIDE DEF c
  <2>3. \A k \in DOMAIN c : c[k] \in Frame
    BY <1>1
  <2> QED BY <2>2, <2>3 DEF Contents, Carries
<1>4. p = taken => Carries[Head(wire[p])] = Nothing
  <2> SUFFICES ASSUME p = taken PROVE Carries[Head(wire[p])] = Nothing
    OBVIOUS
  <2>1. wire[p] # <<>> /\ Head(wire[p]).tra # "R"
    BY DEF Deed, Quiet
  <2>2. Head(wire[p]) \in Frame
    BY <1>1, <2>1
  <2> QED BY <2>1, <2>2 DEF Carries
<1>5. /\ Passes(g, update_in[b], update_in'[b], {}, IF b = n THEN Contents(r, g) ELSE {})
      /\ Passes(Carries, wire[p], wire'[p],
                IF p = taken THEN {Carries[Head(wire[p])]} ELSE {}, Contents(c, Carries))
  BY <1>2, <1>3, QueueOfNothing, DeedPasses
<1>6. daemon'[a] = daemon[a] /\ daemon'[b] = daemon[b] /\ update_out'[a] = update_out[a]
  BY <1>0, <1>1 DEF Done
<1>7. LinkOK(p, daemon[a], daemon[b].distance_vector_table, update_in[b], wire[p], update_out[a])
  BY DEF ShortInv, LinkNow
<1> HIDE DEF a, b, g, r, c
<1>8. Passes(SaysTo(p[2]), update_out[a], update_out[a], {}, {})
  BY PassesNothing
<1>9. Flows(p, update_in[b], wire[p], update_out[a], update_in'[b], wire'[p], update_out[a],
            {}, {}, TRUE)
  <2> DEFINE X == IF p = taken THEN {Carries[Head(wire[p])]} ELSE {}
             I == IF b = n THEN Contents(r, g) ELSE {}
             W == Contents(c, Carries)
  <2>1. X \subseteq {Nothing} /\ I \subseteq {Nothing} /\ W \subseteq {Nothing}
    BY <1>2, <1>3, <1>4
  <2>2. Passes(g, update_in[b], update_in'[b], {}, I) /\ Passes(Carries, wire[p], wire'[p], X, W)
    BY <1>5
  <2> HIDE DEF X, I, W
  <2> QED BY <1>8, <2>1, <2>2 DEF Flows, g
<1>10. LinkOK(p, daemon[a], daemon[b].distance_vector_table, update_in'[b], wire'[p], update_out[a])
  <2>1. TRUE \in BOOLEAN
    OBVIOUS
  <2> QED BY <1>7, <1>9, <2>1, LinkFlows
<1> QED BY <1>6, <1>10 DEF LinkNow, a, b

\* The other nodes know what they knew, and so does this one if it hears of nothing
\* but those that run.
LEMMA DeedNodes ==
  ASSUME NetInv, ShortInv, NEW n \in Node, NEW e, NEW taken, Deed(n, e, taken),
         UNCHANGED started,
         \A i \in DOMAIN e.update : e.update[i].option \in {"ARP_DISCOVERY", "ADVERTISEMENT"},
         \A x \in Partners(e.mip) : x \in Partners(mip[n]) \/ NodeOf[x] \in started,
         n \in started \/ (e.update = <<>> /\ Partners(e.mip) = Partners(mip[n]))
  PROVE  \A k \in Node : NodeCalm(k, mip[k], daemon[k], update_in[k], started)'
<1>0. Done(n, e, taken)
  BY DeedDone
<1> SUFFICES ASSUME NEW k \in Node
             PROVE  NodeCalm(k, mip'[k], daemon'[k], update_in'[k], started)
  OBVIOUS
<1>1. NodeCalm(k, mip[k], daemon[k], update_in[k], started)
  BY DEF ShortInv
<1>2. CASE k # n
  BY <1>0, <1>1, <1>2 DEF Done
<1>3. CASE k = n
  <2> DEFINE ui == update_in[n]
             r == e.update
             d == daemon[n]
             s == ui \o r
  <2>1. /\ mip'[k] = e.mip /\ daemon'[k] = d /\ update_in'[k] = s /\ r \in Seq(Update)
    BY <1>0, <1>3 DEF Done
  <2>2. ui \in Seq(Update)
    BY NodeParts, NewsShape
  <2>3. NodeCalm(n, mip[n], d, ui, started)
    BY <1>1, <1>3
  <2> HIDE DEF ui, d, r
  <2>4. /\ \A i \in DOMAIN ui : i \in DOMAIN s /\ s[i] = ui[i]
        /\ \A i \in DOMAIN s : (i \in DOMAIN ui /\ s[i] = ui[i]) \/ (\E j \in DOMAIN r : s[i] = r[j])
    BY <2>1, <2>2, InJoined
  <2>5. r = <<>> => s = ui
    BY <2>1, <2>2
  <2>6. DOMAIN ui = 1..Len(ui) /\ Len(ui) \in Nat /\ DOMAIN s = 1..Len(s) /\ Len(s) \in Nat
    BY <2>1, <2>2
  <2> HIDE DEF s
  <2>7. \A i \in DOMAIN s : s[i].option \notin {"ARP_DISCOVERY", "ADVERTISEMENT"} =>
          i \in DOMAIN ui /\ s[i] = ui[i]
    BY <2>4 DEF r
  <2>8. \A i \in DOMAIN s : s[i].option # "ARP_LOSTCONNECTION"
    BY <2>3, <2>7 DEF NodeCalm
  <2>9. ASSUME NEW i \in DOMAIN s, s[i].option = "LOCAL_MIP"
        PROVE  Neighbours(d) = {} /\ \A j \in DOMAIN s : j < i => s[j].option = "LOCAL_MIP"
    <3>1. i \in DOMAIN ui /\ ui[i].option = "LOCAL_MIP"
      BY <2>7, <2>9
    <3>2. Neighbours(d) = {} /\ \A j \in DOMAIN ui : j < i => ui[j].option = "LOCAL_MIP"
      BY <2>3, <3>1 DEF NodeCalm
    <3>3. ASSUME NEW j \in DOMAIN s, j < i PROVE j \in DOMAIN ui
      BY <2>6, <3>1, <3>3
    <3> QED BY <2>4, <3>2, <3>3
  <2>10. ASSUME n \in started, NEW a \in Interfaces(n), a \notin DOMAIN d.distance_vector_table
         PROVE  \E i \in DOMAIN s : s[i].option = "LOCAL_MIP" /\ s[i].mip = a
    <3>1. PICK i \in DOMAIN ui : ui[i].option = "LOCAL_MIP" /\ ui[i].mip = a
      BY <2>3, <2>10 DEF NodeCalm
    <3> QED BY <2>4, <3>1
  <2>11. /\ \A x \in Partners(e.mip) : NodeOf[x] \in started
         /\ n \notin started => Partners(e.mip) = {} /\ s = <<>>
    BY <2>3, <2>5 DEF NodeCalm, r
  <2>12. /\ WalkRight(d)
         /\ \A to \in DOMAIN d.distance_vector_table : NodeOf[to] = n =>
              d.distance_vector_table[to] = [via |-> to, cost |-> 0]
    BY <2>3 DEF NodeCalm
  <2>13. NodeCalm(n, e.mip, d, s, started)
    BY <2>8, <2>9, <2>10, <2>11, <2>12 DEF NodeCalm
  <2> QED BY <1>3, <2>1, <2>13
<1> QED BY <1>2, <1>3

\* The kinds of frames that a link has then.
LEMMA DeedKinds ==
  ASSUME NetInv, PlainLinks, NEW n \in Node, NEW e, NEW taken, Deed(n, e, taken), NEW p \in Wires
  PROVE  /\ Kinds(wire'[p]) = Kinds(IF p = taken THEN Tail(wire[p]) ELSE wire[p])
                                \cup Kinds(Carried(e.out, p))
         /\ p = taken => Kinds(wire[p]) = {Head(wire[p]).tra} \cup Kinds(Tail(wire[p]))
         /\ \A k \in Kinds(Carried(e.out, p)) : \E j \in DOMAIN e.out :
              e.out[j] \in For(e.out, p) /\ e.out[j].frame.tra = k
         /\ \A j \in DOMAIN e.out : e.out[j] \in For(e.out, p) =>
              e.out[j].frame.tra \in Kinds(Carried(e.out, p))
<1> DEFINE g == [f \in Frame |-> f.tra]
           w == wire[p]
           v == IF p = taken THEN Tail(w) ELSE w
           c == Carried(e.out, p)
<1>0. Done(n, e, taken)
  BY DeedDone
<1>1. c \in Seq(Frame) /\ w \in Seq(Frame) /\ wire'[p] = v \o c /\ e.out \in Seq(Out)
  BY <1>0, LinkTypes DEF Done
<1>2. p = taken => w # <<>>
  BY DEF Deed
<1>3. v \in Seq(Frame)
  BY <1>1, <1>2
<1>4. /\ \A k \in DOMAIN c : \E j \in DOMAIN e.out :
           e.out[j] \in For(e.out, p) /\ c[k] = e.out[j].frame
      /\ \A j \in DOMAIN e.out : e.out[j] \in For(e.out, p) =>
           \E k \in DOMAIN c : c[k] = e.out[j].frame
  BY <1>1, CarriedFacts
<1> HIDE DEF v, c, w
<1>5. Contents(v \o c, g) = Contents(v, g) \cup Contents(c, g)
  <2> HIDE DEF g
  <2> QED BY <1>1, <1>3, QueuesJoined
<1>6. w # <<>> => Contents(w, g) = {Head(w).tra} \cup Contents(Tail(w), g)
  <2> SUFFICES ASSUME w # <<>> PROVE Contents(w, g) = {Head(w).tra} \cup Contents(Tail(w), g)
    OBVIOUS
  <2>1. Head(w) \in Frame
    BY <1>1
  <2>2. g[Head(w)] = Head(w).tra
    BY <2>1
  <2> HIDE DEF g
  <2>3. Contents(w, g) = {g[Head(w)]} \cup Contents(Tail(w), g)
    BY <1>1, QueueTaken
  <2> QED BY <2>2, <2>3
<1>7. \A k \in DOMAIN c : c[k] \in Frame
  BY <1>1
<1>8. ASSUME NEW k \in Contents(c, g)
      PROVE  \E j \in DOMAIN e.out : e.out[j] \in For(e.out, p) /\ e.out[j].frame.tra = k
  <2>1. PICK i \in DOMAIN c : k = g[c[i]]
    BY <1>8 DEF Contents
  <2>2. k = c[i].tra
    BY <1>7, <2>1
  <2>3. PICK j \in DOMAIN e.out : e.out[j] \in For(e.out, p) /\ c[i] = e.out[j].frame
    BY <1>4
  <2> QED BY <2>2, <2>3
<1>9. ASSUME NEW j \in DOMAIN e.out, e.out[j] \in For(e.out, p)
      PROVE  e.out[j].frame.tra \in Contents(c, g)
  <2>1. PICK k \in DOMAIN c : c[k] = e.out[j].frame
    BY <1>4, <1>9
  <2>2. g[c[k]] = e.out[j].frame.tra
    BY <1>7, <2>1
  <2> QED BY <2>2 DEF Contents
<1> QED BY <1>1, <1>2, <1>5, <1>6, <1>8, <1>9 DEF Kinds, v, c, w

\* Its frames tell that it runs, or are for one that runs.
Lively(e, run) ==
  \A j \in DOMAIN e.out :
    LET o == e.out[j]
    IN  /\ o.frame.tra \in {"A", "ZERO"} => NodeOf[o.sock] \in run
        /\ o.frame.tra = "R" => \E x : o.to = {x} /\ NodeOf[x] \in run

LEMMA DeedRuns ==
  ASSUME NetInv, PlainLinks, ShortInv, NEW n \in Node, NEW e, NEW taken, Deed(n, e, taken),
         Lively(e, started'), started \subseteq started', NEW p \in Wires
  PROVE  /\ "A" \in Kinds(wire'[p]) \/ "ZERO" \in Kinds(wire'[p]) => NodeOf[p[1]] \in started'
         /\ "R" \in Kinds(wire'[p]) => NodeOf[p[2]] \in started'
<1>1. \A k \in Kinds(wire'[p]) : \/ k \in Kinds(wire[p])
                                 \/ \E j \in DOMAIN e.out :
                                      e.out[j] \in For(e.out, p) /\ e.out[j].frame.tra = k
  BY DeedKinds
<1>2. WireNow(p)
  BY DEF ShortInv
<1>3. \A o \in For(e.out, p) : o.sock = p[1] /\ (o.to = {} \/ p[2] \in o.to)
  BY DEF For
<1>4. ASSUME NEW j \in DOMAIN e.out, e.out[j] \in For(e.out, p)
      PROVE  /\ e.out[j].frame.tra \in {"A", "ZERO"} => NodeOf[p[1]] \in started'
             /\ e.out[j].frame.tra = "R" => NodeOf[p[2]] \in started'
  BY <1>3, <1>4 DEF Lively
<1> QED BY <1>1, <1>2, <1>4 DEF WireNow, WireCalm

\* Who will hear of the other still will, unless what MIP_deamon reads is an answer.
LEMMA DeedHears ==
  ASSUME NetInv, PlainLinks, ShortInv, NEW n \in Node, NEW e, NEW taken, Deed(n, e, taken),
         Lively(e, started), UNCHANGED started, e.mip.arp_pair_vec = mip[n].arp_pair_vec,
         taken \in Wires => Head(wire[taken]).tra \notin {"A", "ZERO"}
  PROVE  \A p \in Wires : WireNow(p)'
<1> SUFFICES ASSUME NEW p \in Wires PROVE WireNow(p)'
  OBVIOUS
<1> DEFINE back == <<p[2], p[1]>>
           k == NodeOf[p[2]]
<1>0. Done(n, e, taken)
  BY DeedDone
<1>1. back \in Wires /\ k \in Node
  BY PlainFacts
<1>2. /\ "A" \in Kinds(wire'[p]) \/ "ZERO" \in Kinds(wire'[p]) => NodeOf[p[1]] \in started'
      /\ "R" \in Kinds(wire'[p]) => NodeOf[p[2]] \in started'
  BY DeedRuns
<1>3. ASSUME NEW q \in Wires
      PROVE  \A tra \in {"A", "ZERO"} : tra \in Kinds(wire[q]) => tra \in Kinds(wire'[q])
  BY <1>3, DeedKinds
<1>4. mip'[k].arp_pair_vec = mip[k].arp_pair_vec
  BY <1>0, <1>1 DEF Done
<1>5. WireCalm(p, mip[k], wire[p], wire[back], started)
  BY DEF ShortInv, WireNow
<1> HIDE DEF k, back
<1>6. WillHear(mip[k], p[1], wire[p], wire[back]) => WillHear(mip'[k], p[1], wire'[p], wire'[back])
  BY <1>1, <1>3, <1>4 DEF WillHear, HeardOf
<1> QED BY <1>2, <1>5, <1>6 DEF WireNow, WireCalm, k, back

(***************************************************************************)
(* MIP_deamon, as long as no link failed.                                  *)
(***************************************************************************)
\* A handler that only handles packets.
LEMMA MildDeed ==
  ASSUME NetInv, PlainLinks, ShortInv, NEW n \in Node, NEW e, NEW taken, Deed(n, e, taken),
         UNCHANGED <<started, up, update_out>>, e.update = <<>>,
         e.mip.arp_pair_vec = mip[n].arp_pair_vec,
         \A j \in DOMAIN e.out : e.out[j].frame.tra = "T",
         taken \in Wires => Head(wire[taken]).tra = "T"
  PROVE  ShortInv'
<1>1. \A i \in DOMAIN e.update : FALSE
  OBVIOUS
<1>2. Quiet(e, taken)
  BY <1>1 DEF Quiet
<1>3. \A p \in Wires : LinkNow(p)'
  BY <1>2, QuietLinks
<1>4. \A p \in Wires : WireNow(p)'
  <2>1. Lively(e, started)
    BY DEF Lively
  <2>2. taken \in Wires => Head(wire[taken]).tra \notin {"A", "ZERO"}
    OBVIOUS
  <2> QED BY <2>1, <2>2, DeedHears
<1>5. \A k \in Node : NodeCalm(k, mip[k], daemon[k], update_in[k], started)'
  <2>1. Partners(e.mip) = Partners(mip[n])
    BY DEF Partners
  <2> QED BY <1>1, <2>1, DeedNodes
<1>6. up' = Links
  BY DEF ShortInv
<1> QED BY <1>3, <1>4, <1>5, <1>6 DEF ShortInv

\* A packet that an application sends.
LEMMA TransportSockShort ==
  ASSUME NetInv, PlainLinks, ShortInv, NEW n \in Node, NEW s \in unsent, ReceiveTransportSock(n, s)
  PROVE  ShortInv'
<1> DEFINE m == mip[n]
           packet == M!Packet(s.dest, s.msg)
           e == M!receiveTransportSock(m, packet)
<1>1. /\ s.node = n /\ Does(n, e, NothingTaken) /\ UNCHANGED <<daemon, update_out, started, up>>
      /\ s \in Sends
  BY DEF ReceiveTransportSock, NetInv
<1>2. m \in MIPType(n)
  BY NodeParts
<1>3. EffectOK(n, m, e)
  BY <1>1, <1>2, TransportSockOK
<1>4. e.update = <<>> /\ e.out = <<>> /\ e.mip.arp_pair_vec = m.arp_pair_vec
  BY <1>2 DEF M!receiveTransportSock, M!Effect, MIPType
<1>5. \A j \in DOMAIN e.out : e.out[j].frame.tra = "T"
  BY <1>4
<1> HIDE DEF e
<1>6. Deed(n, e, NothingTaken) /\ NothingTaken \notin Wires
  BY <1>1, <1>3, NothingRead DEF Deed
<1> QED BY <1>1, <1>4, <1>5, <1>6, MildDeed

\* The answer is for a frame that waits.
LEMMA AnswerAwaited ==
  ASSUME NetInv, NEW n \in Node, lookup_out[n] # <<>>
  PROVE  mip[n].lookup_queue # <<>> /\ Head(lookup_out[n]).via \in Seq(MIPAddress)
<1> DEFINE lo == lookup_out[n]
           a == Abouts(lo)
           q == daemon[n].lookup_queue
           l == lookup_in[n]
<1>1. lo \in Seq(Answered) /\ a \o q \o l = Dests(mip[n].lookup_queue)
  BY NodeParts
<1>2. q \in Seq(MIPAddress) /\ l \in Seq(MIPAddress)
  BY NodeParts
<1>3. a \in Seq(MIPAddress) /\ a # <<>>
  BY <1>1, AboutsOf
<1>4. Head(lo) \in Answered
  BY <1>1, Unqueued
<1> HIDE DEF a, q, l
<1>5. a \o q \o l # <<>>
  <2> DEFINE aq == a \o q
  <2>1. aq # <<>>
    BY <1>2, <1>3, Unqueued
  <2>2. aq \in Seq(MIPAddress)
    BY <1>2, <1>3
  <2> HIDE DEF aq
  <2>3. aq \o l # <<>>
    BY <1>2, <2>1, <2>2, Unqueued
  <2> QED BY <2>3 DEF aq
<1>6. Dests(<<>>) = <<>>
  BY DEF Dests
<1> QED BY <1>1, <1>4, <1>5, <1>6 DEF Answered

\* The answer to a lookup.
LEMMA AnswerSockShort ==
  ASSUME NetInv, PlainLinks, ShortInv, NEW n \in Node, ReceiveAnswerSock(n)
  PROVE  ShortInv'
<1> DEFINE m == mip[n]
           via == Head(lookup_out[n]).via
           e == M!receiveLookupSock(m, via)
<1>1. /\ Does(n, e, NothingTaken) /\ UNCHANGED <<daemon, update_out, started, up>>
      /\ lookup_out[n] # <<>>
  BY DEF ReceiveAnswerSock
<1>2. m \in MIPType(n) /\ m.lookup_queue # <<>> /\ via \in Seq(MIPAddress)
  BY <1>1, NodeParts, AnswerAwaited
<1> HIDE DEF via
<1>3. EffectOK(n, m, e)
  BY <1>2, LookupSockOK
<1>4. e.update = <<>> /\ e.mip.arp_pair_vec = m.arp_pair_vec
  BY <1>2 DEF M!receiveLookupSock, M!Effect, MIPType
<1>5. \A j \in DOMAIN e.out : e.out[j].frame.tra = "T"
  <2> DEFINE first == Head(m.lookup_queue)
             p == M!PairOf(m, via[1])
             g == [first.frame EXCEPT !.source =
                     IF first.sourced THEN first.frame.source ELSE p.sock]
             o == M!Unicast(p.sock, p.mip, g)
  <2>1. e.out = IF via = <<>> \/ ~M!Known(m, via[1]) THEN <<>> ELSE <<o>>
    BY DEF M!receiveLookupSock, M!Effect
  <2>2. o.frame.tra = "T"
    <3>1. m.lookup_queue \in Seq(Waiting(n))
      BY <1>2, MIPShape
    <3>2. first \in Waiting(n)
      BY <1>2, <3>1
    <3> HIDE DEF first, p
    <3>3. first.frame \in Frame /\ first.frame.tra = "T"
      BY <3>2 DEF Waiting
    <3>4. g.tra = "T"
      BY <3>3 DEF Frame
    <3> QED BY <3>4 DEF M!Unicast
  <2> HIDE DEF e, o
  <2> QED BY <2>1, <2>2
<1> HIDE DEF e
<1>6. Deed(n, e, NothingTaken) /\ NothingTaken \notin Wires
  BY <1>1, <1>3, NothingRead DEF Deed
<1> QED BY <1>1, <1>4, <1>5, <1>6, MildDeed

\* A frame with a packet.
LEMMA PacketShort ==
  ASSUME NetInv, PlainLinks, ShortInv, NEW n \in Node, NEW p \in Wires, ReceiveRawSock(n, p),
         Head(wire[p]).tra = "T"
  PROVE  ShortInv'
<1> DEFINE m == mip[n]
           f == Head(wire[p])
           e == M!receiveTransport(m, f)
<1>1. /\ wire[p] # <<>> /\ Does(n, e, p) /\ UNCHANGED <<daemon, update_out, started, up>>
  BY DEF ReceiveRawSock, M!receiveRawSock
<1>2. m \in MIPType(n)
  BY NodeParts
<1>3. f \in FramesOf(p[1])
  <2>1. wire[p] \in Seq(FramesOf(p[1]))
    BY DEF NetInv
  <2> QED BY <1>1, <2>1, Unqueued
<1>4. f \in Frame /\ Meant(f)
  BY <1>3 DEF FramesOf
<1>5. e.update = <<>> /\ e.out = <<>> /\ e.mip.arp_pair_vec = m.arp_pair_vec
  BY <1>2 DEF M!receiveTransport, M!Effect, MIPType
<1> HIDE DEF f
<1>6. EffectOK(n, m, e)
  BY <1>2, <1>4, TransportOK DEF f
<1>7. \A j \in DOMAIN e.out : e.out[j].frame.tra = "T"
  BY <1>5
<1> HIDE DEF e
<1>8. Deed(n, e, p)
  BY <1>1, <1>6 DEF Deed
<1> QED BY <1>1, <1>5, <1>7, <1>8, MildDeed

\* An ARP frame from x: it was heard, and is answered if it asks.
ARPDone(n, m, x, tra, e) ==
  /\ HeardOf(e.mip, x) /\ \A b : HeardOf(m, b) => HeardOf(e.mip, b)
  /\ Partners(e.mip) = Partners(m) \cup {x}
  /\ \A i \in DOMAIN e.update : e.update[i].option = "ARP_DISCOVERY"
  /\ tra = "A" => \E pair \in ARPPair(n) : pair.mip = x /\ e.out = <<M!ResponseFrame(pair)>>
  /\ tra # "A" => e.out = <<>>

LEMMA ARPIsDone ==
  ASSUME NEW n \in Node, NEW m \in MIPType(n), NEW sock \in Interfaces(n),
         NEW f, f.source \in MIPAddress, Hears(f.source, sock)
  PROVE  ARPDone(n, m, f.source, f.tra, M!receiveARP(m, sock, f))
<1> DEFINE x == f.source
           v == m.arp_pair_vec
           m2 == IF M!Known(m, x) THEN M!Heard(m, x) ELSE M!addARPPair(m, sock, x)
           news == IF M!Known(m, x) THEN <<>> ELSE <<M!Discovery(x)>>
           out == IF f.tra = "A" THEN <<M!ResponseFrame(M!PairOf(m2, x))>> ELSE <<>>
           e == M!receiveARP(m, sock, f)
<1>1. e.mip = m2 /\ e.update = news /\ e.out = out
  BY DEF M!receiveARP, M!Effect
<1>2. v \in Seq(ARPPair(n)) /\ DOMAIN v = 1..Len(v) /\ Len(v) \in Nat
  BY MIPShape
<1>3. /\ HeardOf(m2, x) /\ (\A b : HeardOf(m, b) => HeardOf(m2, b))
      /\ Partners(m2) = Partners(m) \cup {x} /\ m2.arp_pair_vec \in Seq(ARPPair(n))
  <2>1. CASE M!Known(m, x)
    <3> DEFINE w == [i \in DOMAIN v |-> IF v[i].mip = x THEN [v[i] EXCEPT !.reply = TRUE] ELSE v[i]]
    <3>1. ASSUME NEW i \in DOMAIN v
          PROVE  /\ w[i] \in ARPPair(n) /\ w[i].mip = v[i].mip
                 /\ v[i].mip = x \/ v[i].reply => w[i].reply
      <4>1. v[i] \in ARPPair(n)
        BY <1>2
      <4>2. w[i] = IF v[i].mip = x THEN [v[i] EXCEPT !.reply = TRUE] ELSE v[i]
        OBVIOUS
      <4> HIDE DEF w, v
      <4>3. CASE v[i].mip = x
        BY <4>1, <4>2, <4>3 DEF ARPPair
      <4>4. CASE v[i].mip # x
        BY <4>1, <4>2, <4>4
      <4> QED BY <4>3, <4>4
    <3>2. m2 = [m EXCEPT !.arp_pair_vec = w]
      BY <2>1 DEF M!Heard
    <3>3. DOMAIN w = DOMAIN v /\ w \in [1..Len(v) -> ARPPair(n)]
      BY <1>2, <3>1
    <3>4. "arp_pair_vec" \in DOMAIN m
      BY DEF MIPType
    <3> HIDE DEF w, m2
    <3>5. m2.arp_pair_vec = w
      BY <3>2, <3>4
    <3>6. w \in Seq(ARPPair(n))
      BY <1>2, <3>3, ListOf
    <3>7. PICK i \in DOMAIN v : v[i].mip = x
      BY <2>1 DEF M!Known
    <3>8. HeardOf(m2, x)
      BY <3>1, <3>3, <3>5, <3>7 DEF HeardOf
    <3>9. \A b : HeardOf(m, b) => HeardOf(m2, b)
      BY <3>1, <3>3, <3>5 DEF HeardOf
    <3>10. Partners(m2) = Partners(m) /\ x \in Partners(m)
      BY <3>1, <3>3, <3>5, <3>7 DEF Partners
    <3> QED BY <3>5, <3>6, <3>8, <3>9, <3>10
  <2>2. CASE ~M!Known(m, x)
    <3> DEFINE p == [mip |-> x, reply |-> TRUE, sock |-> sock]
               w == Append(v, p)
    <3>1. p \in ARPPair(n) /\ p.mip = x /\ p.reply
      BY DEF ARPPair
    <3>2. m2 = [m EXCEPT !.arp_pair_vec = w]
      BY <2>2 DEF M!addARPPair
    <3>3. "arp_pair_vec" \in DOMAIN m
      BY DEF MIPType
    <3> HIDE DEF p, m2
    <3>4. /\ w \in Seq(ARPPair(n)) /\ DOMAIN w = 1..Len(v) + 1 /\ w[Len(v) + 1] = p
          /\ \A i \in 1..Len(v) : w[i] = v[i]
      BY <1>2, <3>1
    <3> HIDE DEF w
    <3>5. m2.arp_pair_vec = w
      BY <3>2, <3>3
    <3>6. /\ \A i \in DOMAIN w : i \in DOMAIN v \/ i = Len(v) + 1
          /\ \A i \in DOMAIN v : i \in DOMAIN w
          /\ Len(v) + 1 \in DOMAIN w
      BY <1>2, <3>4
    <3>7. HeardOf(m2, x)
      BY <3>1, <3>4, <3>5, <3>6 DEF HeardOf
    <3>8. \A b : HeardOf(m, b) => HeardOf(m2, b)
      BY <1>2, <3>4, <3>5, <3>6 DEF HeardOf
    <3>9. Partners(m2) = Partners(m) \cup {x}
      BY <1>2, <3>1, <3>4, <3>5, <3>6 DEF Partners
    <3> QED BY <3>4, <3>5, <3>7, <3>8, <3>9
  <2> QED BY <2>1, <2>2
<1>4. \A i \in DOMAIN news : news[i].option = "ARP_DISCOVERY"
  BY DEF M!Discovery
<1> HIDE DEF m2, news, e
<1>5. M!PairOf(m2, x) \in ARPPair(n) /\ M!PairOf(m2, x).mip = x
  <2>1. M!Known(m2, x)
    BY <1>3 DEF HeardOf, M!Known
  <2> QED BY <1>3, <2>1, PairOfOK
<1>6. /\ f.tra = "A" => out = <<M!ResponseFrame(M!PairOf(m2, x))>>
      /\ f.tra # "A" => out = <<>>
  OBVIOUS
<1> HIDE DEF out
<1> QED BY <1>1, <1>3, <1>4, <1>5, <1>6 DEF ARPDone, e

\* An ARP frame.
LEMMA ARPShort ==
  ASSUME NetInv, PlainLinks, ShortInv, NEW n \in Node, NEW p \in Wires, ReceiveRawSock(n, p),
         Head(wire[p]).tra \in {"A", "ZERO"}
  PROVE  ShortInv'
<1> DEFINE m == mip[n]
           f == Head(wire[p])
           x == p[1]
           e == M!receiveARP(m, p[2], f)
           back == <<p[2], p[1]>>
<1>1. /\ wire[p] # <<>> /\ Does(n, e, p) /\ UNCHANGED <<daemon, update_out, started, up>>
      /\ NodeOf[p[2]] = n /\ n \in started
  BY DEF ReceiveRawSock, M!receiveRawSock
<1>2. m \in MIPType(n) /\ p[2] \in Interfaces(n) /\ Hears(p[1], p[2]) /\ x \in MIPAddress
  BY <1>1, NodeParts, PlainFacts DEF Interfaces
<1>3. f \in FramesOf(x) /\ wire[p] \in Seq(Frame)
  <2>1. wire[p] \in Seq(FramesOf(p[1]))
    BY DEF NetInv
  <2> QED BY <1>1, <2>1, Unqueued, LinkTypes
<1>4. f.source = x /\ f.tra \in {"A", "ZERO"}
  BY <1>3 DEF FramesOf
<1> HIDE DEF f
<1>5. EffectOK(n, m, e) /\ ARPDone(n, m, x, f.tra, e)
  BY <1>2, <1>4, ARPOK, ARPIsDone
<1> HIDE DEF e
<1>6. Deed(n, e, p)
  BY <1>1, <1>5 DEF Deed
<1>7. ASSUME NEW j \in DOMAIN e.out
      PROVE  /\ f.tra = "A" /\ e.out[j].frame.tra = "ZERO" /\ e.out[j].sock = p[2]
             /\ e.out[j].to = {x}
  <2>1. PICK pair \in ARPPair(n) : pair.mip = x /\ e.out = <<M!ResponseFrame(pair)>> /\ f.tra = "A"
    BY <1>5, <1>7 DEF ARPDone
  <2>2. pair.sock \in MIPAddress /\ NodeOf[pair.sock] = n /\ Hears(pair.mip, pair.sock)
    BY DEF ARPPair, Interfaces
  <2>3. <<x, pair.sock>> \in Wires
    BY <1>2, <2>1, <2>2 DEF Wires
  <2>4. pair.sock = p[2]
    BY <1>1, <2>2, <2>3, PlainFacts
  <2>5. e.out[j] = M!ResponseFrame(pair)
    BY <1>7, <2>1
  <2> QED BY <2>1, <2>4, <2>5 DEF M!ResponseFrame, M!Unicast, M!MIPFrame
<1>8. Quiet(e, p)
  BY <1>4, <1>5, <1>7 DEF Quiet, ARPDone, f
<1>9. \A q \in Wires : LinkNow(q)'
  BY <1>1, <1>6, <1>8, QuietLinks
<1>10. NodeOf[x] \in started
  <2>1. f.tra \in Kinds(wire[p])
    BY <1>6, DeedKinds DEF f
  <2>2. WireNow(p)
    BY DEF ShortInv
  <2> QED BY <1>4, <2>1, <2>2 DEF WireNow, WireCalm
<1>11. \A k \in Node : NodeCalm(k, mip[k], daemon[k], update_in[k], started)'
  <2>1. \A i \in DOMAIN e.update : e.update[i].option \in {"ARP_DISCOVERY", "ADVERTISEMENT"}
    BY <1>5 DEF ARPDone
  <2>2. \A y \in Partners(e.mip) : y \in Partners(mip[n]) \/ NodeOf[y] \in started
    BY <1>5, <1>10 DEF ARPDone
  <2> QED BY <1>1, <1>6, <2>1, <2>2, DeedNodes
<1>12. ASSUME NEW q \in Wires PROVE WireNow(q)'
  <2> DEFINE k == NodeOf[q[2]]
             rev == <<q[2], q[1]>>
  <2>1. rev \in Wires /\ k \in Node /\ q = <<q[1], q[2]>> /\ p = <<p[1], p[2]>>
    BY PlainFacts
  <2>2. /\ "A" \in Kinds(wire'[q]) \/ "ZERO" \in Kinds(wire'[q]) => NodeOf[q[1]] \in started'
        /\ "R" \in Kinds(wire'[q]) => NodeOf[q[2]] \in started'
    <3>1. Lively(e, started') /\ started \subseteq started'
      BY <1>1, <1>7 DEF Lively
    <3> QED BY <1>6, <3>1, DeedRuns
  <2>3. Done(n, e, p)
    BY <1>6, DeedDone
  <2>4. mip'[k] = IF k = n THEN e.mip ELSE mip[k]
    BY <2>1, <2>3 DEF Done
  <2>5. \A b : HeardOf(mip[k], b) => HeardOf(mip'[k], b)
    BY <1>5, <2>4 DEF ARPDone
  <2>6. q = p => HeardOf(mip'[k], q[1])
    BY <1>1, <1>5, <2>4 DEF ARPDone
  <2>7. ASSUME NEW r \in Wires, NEW tra, tra \in Kinds(wire[r]), r # p \/ tra # f.tra
        PROVE  tra \in Kinds(wire'[r])
    BY <1>6, <2>7, DeedKinds DEF f
  <2>8. f.tra = "A" /\ rev = p => "ZERO" \in Kinds(wire'[q])
    <3> SUFFICES ASSUME f.tra = "A", rev = p PROVE "ZERO" \in Kinds(wire'[q])
      OBVIOUS
    <3>1. q[1] = p[2] /\ q[2] = p[1]
      BY <2>1
    <3>2. 1 \in DOMAIN e.out /\ e.out \in Seq(Out)
      <4>1. e.out \in Seq(Out)
        BY <2>3 DEF Done
      <4>2. PICK y : e.out = <<y>>
        BY <1>5 DEF ARPDone
      <4> QED BY <4>1, <4>2
    <3>3. e.out[1].sock = q[1] /\ e.out[1].to = {q[2]} /\ e.out[1].frame.tra = "ZERO"
      BY <1>7, <3>1, <3>2
    <3>4. HearsNow(q[1], q[2])
      BY PlainFacts DEF ShortInv, Hears, HearsNow
    <3>5. e.out[1] \in For(e.out, q)
      BY <3>2, <3>3, <3>4 DEF For, ToSet
    <3> DEFINE c == Carried(e.out, q)
    <3>6. Kinds(wire'[q]) = Kinds(IF q = p THEN Tail(wire[q]) ELSE wire[q]) \cup Kinds(c)
      BY <1>6, DeedKinds
    <3>7. \A j \in DOMAIN e.out : e.out[j] \in For(e.out, q) => e.out[j].frame.tra \in Kinds(c)
      BY <1>6, DeedKinds
    <3> HIDE DEF c
    <3>8. e.out[1].frame.tra \in Kinds(c)
      BY <3>2, <3>5, <3>7
    <3> QED BY <3>3, <3>6, <3>8
  <2>9. WireCalm(q, mip[k], wire[q], wire[rev], started)
    BY DEF ShortInv, WireNow
  <2>10. q # p /\ "A" \in Kinds(wire[rev]) => "A" \in Kinds(wire'[rev]) \/ "ZERO" \in Kinds(wire'[q])
    BY <2>1, <2>7, <2>8
  <2> HIDE DEF k, rev
  <2>11. WillHear(mip[k], q[1], wire[q], wire[rev]) => WillHear(mip'[k], q[1], wire'[q], wire'[rev])
    BY <2>5, <2>6, <2>7, <2>10 DEF WillHear
  <2> QED BY <1>1, <2>2, <2>9, <2>11 DEF WireNow, WireCalm, k, rev
<1>13. up' = Links
  BY <1>1 DEF ShortInv
<1> QED BY <1>9, <1>11, <1>12, <1>13 DEF ShortInv

\* An advertisement moves on to routing_deamon.
LEMMA AdvertisementShort ==
  ASSUME NetInv, PlainLinks, ShortInv, NEW n \in Node, NEW p \in Wires, ReceiveRawSock(n, p),
         Head(wire[p]).tra = "R"
  PROVE  ShortInv'
<1> DEFINE m == mip[n]
           f == Head(wire[p])
           e == M!receiveAdvertisement(m, f)
           u == [option |-> "ADVERTISEMENT", mip |-> f.source, advert |-> f.msg]
<1>1. /\ wire[p] # <<>> /\ Does(n, e, p) /\ UNCHANGED <<daemon, update_out, started, up>>
      /\ NodeOf[p[2]] = n /\ n \in started
  BY DEF ReceiveRawSock, M!receiveRawSock
<1>2. m \in MIPType(n) /\ p[2] \in Interfaces(n) /\ Hears(p[1], p[2]) /\ p[1] \in MIPAddress
  BY <1>1, NodeParts, PlainFacts DEF Interfaces
<1>3. f \in FramesOf(p[1])
  <2>1. wire[p] \in Seq(FramesOf(p[1]))
    BY DEF NetInv
  <2> QED BY <1>1, <2>1, Unqueued
<1>4. f \in Frame /\ f.tra = "R" /\ f.source = p[1] /\ f.msg \in AdvertsOf(NodeOf[p[1]])
  BY <1>3 DEF FramesOf
<1>5. e.update = <<u>> /\ e.out = <<>> /\ e.mip = m
  BY DEF M!receiveAdvertisement, M!Effect
<1>6. EffectOK(n, m, e)
  <2> HIDE DEF f
  <2>1. f.source \in MIPAddress /\ Linked(n, f.source) /\ f.msg \in AdvertsOf(NodeOf[f.source])
    BY <1>2, <1>4 DEF Linked
  <2> QED BY <1>2, <2>1, AdvertisementOK
<1>7. u.option = "ADVERTISEMENT" /\ u.mip = p[1] /\ u.advert = f.msg /\ u \in Update
  BY <1>4, <1>2 DEF Update, AdvertsOf
<1> HIDE DEF e, u
<1>8. Deed(n, e, p)
  BY <1>1, <1>6 DEF Deed
<1>9. \A j \in DOMAIN e.out : FALSE
  BY <1>5
<1>10. \A q \in Wires : WireNow(q)'
  <2>1. Lively(e, started)
    BY <1>9 DEF Lively
  <2>2. e.mip.arp_pair_vec = mip[n].arp_pair_vec
    BY <1>5
  <2>3. UNCHANGED started /\ Head(wire[p]).tra \notin {"A", "ZERO"}
    BY <1>1
  <2> QED BY <1>8, <2>1, <2>2, <2>3, DeedHears
<1>11. \A k \in Node : NodeCalm(k, mip[k], daemon[k], update_in[k], started)'
  <2>1. \A i \in DOMAIN e.update : e.update[i].option \in {"ARP_DISCOVERY", "ADVERTISEMENT"}
    BY <1>5, <1>7
  <2>2. \A y \in Partners(e.mip) : y \in Partners(mip[n]) \/ NodeOf[y] \in started
    BY <1>5
  <2> QED BY <1>1, <1>8, <2>1, <2>2, DeedNodes
<1>12. ASSUME NEW q \in Wires PROVE LinkNow(q)'
  <2> DEFINE a == NodeOf[q[1]]
             b == NodeOf[q[2]]
             g == TellsOf(q[1])
             I == IF b = n THEN {g[u]} ELSE {}
             X == IF q = p THEN {Carries[f]} ELSE {}
  <2>1. a \in Node /\ b \in Node
    BY PlainFacts
  <2>2. Contents(e.update, g) = {g[u]} /\ Falling(e.update, g)
    BY <1>5, QueueOfOne
  <2>3. Contents(Carried(e.out, q), Carries) = {} /\ Falling(Carried(e.out, q), Carries)
    <3>1. Carried(e.out, q) = <<>>
      <4>1. e.out \in Seq(Out)
        BY <1>8, DeedDone DEF Done
      <4>2. \A k \in DOMAIN Carried(e.out, q) : FALSE
        BY <1>9, <4>1, CarriedFacts
      <4>3. Carried(e.out, q) \in Seq(Frame)
        BY <1>8, DeedDone DEF Done
      <4> QED BY <4>2, <4>3, EmptyQueue
    <3> QED BY <3>1, QueueOfOne
  <2>4. Passes(g, update_in[b], update_in'[b], {}, I) /\ Passes(Carries, wire[q], wire'[q], X, {})
    <3>1. /\ Passes(g, update_in[b], update_in'[b], {}, IF b = n THEN Contents(e.update, g) ELSE {})
          /\ Passes(Carries, wire[q], wire'[q], IF q = p THEN {Carries[Head(wire[q])]} ELSE {},
                    Contents(Carried(e.out, q), Carries))
      BY <1>8, <2>2, <2>3, DeedPasses
    <3>2. X = IF q = p THEN {Carries[Head(wire[q])]} ELSE {}
      OBVIOUS
    <3> HIDE DEF X, g
    <3> QED BY <2>2, <2>3, <3>1, <3>2
  <2>5. I \subseteq X \cup {Nothing} /\ X \subseteq I \cup {Nothing}
    <3>1. q = p => I = {f.msg} /\ X = {f.msg}
      BY <1>1, <1>4, <1>7 DEF TellsOf, Carries
    <3>2. q # p => I \subseteq {Nothing} /\ X = {}
      <4>1. q # p /\ b = n => q[1] # p[1]
        BY <1>1, PlainFacts
      <4> QED BY <1>7, <4>1 DEF TellsOf
    <3> HIDE DEF I, X
    <3> QED BY <3>1, <3>2
  <2>6. LinkOK(q, daemon[a], daemon[b].distance_vector_table, update_in[b], wire[q], update_out[a])
    BY DEF ShortInv, LinkNow
  <2> HIDE DEF a, b, g, I, X
  <2>7. Passes(SaysTo(q[2]), update_out[a], update_out[a], {}, {})
    BY PassesNothing
  <2>8. Flows(q, update_in[b], wire[q], update_out[a], update_in'[b], wire'[q], update_out[a],
              {}, {}, TRUE)
    BY <2>4, <2>5, <2>7 DEF Flows, g
  <2>9. LinkOK(q, daemon[a], daemon[b].distance_vector_table, update_in'[b], wire'[q], update_out[a])
    <3>1. TRUE \in BOOLEAN
      OBVIOUS
    <3> QED BY <2>6, <2>8, <3>1, LinkFlows
  <2> QED BY <1>1, <2>9 DEF LinkNow, a, b
<1>13. up' = Links
  BY <1>1 DEF ShortInv
<1> QED BY <1>10, <1>11, <1>12, <1>13 DEF ShortInv

\* Nobody was lost: whom routing_deamon knows MIP_deamon knows.
LEMMA KnownStill ==
  ASSUME NetInv, ShortInv, NEW n \in Node
  PROVE  Neighbours(daemon[n]) \subseteq Partners(mip[n])
<1> DEFINE S == Neighbours(daemon[n])
           q == update_in[n]
           L == Len(q)
<1>1. Leads(S, q, Partners(mip[n])) /\ q \in Seq(Update)
  BY NodeParts, NewsShape
<1>2. \A i \in 1..L : q[i].option # "ARP_LOSTCONNECTION"
  <2>1. NodeCalm(n, mip[n], daemon[n], q, started)
    BY DEF ShortInv
  <2>2. DOMAIN q = 1..L
    BY <1>1
  <2> QED BY <2>1, <2>2 DEF NodeCalm
<1>3. L \in Nat
  BY <1>1
<1>4. PICK g : Path(g, S, q, Partners(mip[n]))
  BY <1>1 DEF Leads
<1> HIDE DEF S, q, L
<1>5. /\ g[0] = S /\ g[L] = Partners(mip[n])
      /\ \A i \in 1..L : g[i] = Learnt(g[i - 1], q[i])
  BY <1>4 DEF Path, L
<1> DEFINE T == {i \in 0..L : ~(S \subseteq g[i])}
<1>6. T = {}
  <2> SUFFICES ASSUME T # {} PROVE FALSE
    OBVIOUS
  <2>1. T \subseteq Nat
    BY <1>3
  <2> HIDE DEF T
  <2>2. PICK x \in T : \A y \in T : x <= y
    BY <2>1, LeastNumber
  <2>3. x \in 0..L /\ ~(S \subseteq g[x])
    BY DEF T
  <2>4. x # 0
    BY <1>5, <2>3
  <2>5. x \in 1..L /\ x - 1 \in 0..L /\ ~(x <= x - 1)
    BY <1>3, <2>3, <2>4
  <2>6. S \subseteq g[x - 1]
    BY <2>2, <2>5 DEF T
  <2>7. g[x - 1] \subseteq g[x]
    BY <1>2, <1>5, <2>5 DEF Learnt
  <2> QED BY <2>3, <2>6, <2>7
<1>7. L \in 0..L
  BY <1>3
<1>8. S \subseteq g[L]
  BY <1>6, <1>7
<1> QED BY <1>5, <1>8 DEF S

\* The first message of a queue is taken.
LEMMA PassesFirst ==
  ASSUME NEW T, NEW g, NEW q \in Seq(T), q # <<>>
  PROVE  Passes(g, q, Tail(q), {g[Head(q)]}, {})
<1> DEFINE C == Contents(Tail(q), g)
<1>1. /\ Contents(q, g) = {g[Head(q)]} \cup C
      /\ Falling(q, g) => Falling(Tail(q), g) /\ Above({g[Head(q)]}, C)
  BY QueueTaken
<1>2. C = C \cup {}
  OBVIOUS
<1> QED BY <1>1, <1>2 DEF Passes

\* An advertisement is put on the wire to the neighbour it is for.
LEMMA AdvertSockShort ==
  ASSUME NetInv, PlainLinks, ShortInv, NEW n \in Node, ReceiveAdvertSock(n)
  PROVE  ShortInv'
<1> DEFINE m == mip[n]
           told == Head(update_out[n])
           e == M!receiveUpdateSock(m, told.dest, told.advert)
           pair == M!PairOf(m, told.dest)
           o == M!Unicast(pair.sock, pair.mip, M!MIPFrame("R", pair.mip, pair.sock, TTL, told.advert))
<1>1. /\ update_out[n] # <<>> /\ Does(n, e, NothingTaken) /\ UNCHANGED <<daemon, started, up>>
      /\ update_out' = [update_out EXCEPT ![n] = Tail(update_out[n])]
  BY DEF ReceiveAdvertSock
<1>2. update_out[n] \in Seq(ToTell(n)) /\ m \in MIPType(n) /\ DOMAIN update_out = Node
  BY NodeParts, DomainsNow
<1>3. told \in ToTell(n)
  BY <1>1, <1>2, Unqueued
<1> HIDE DEF told
<1>4. told.dest \in MIPAddress /\ told.advert \in AdvertsOf(n) /\ told \in Told
  BY <1>3 DEF ToTell, Told, AdvertsOf
<1>5. EffectOK(n, m, e)
  BY <1>2, <1>4, AdvertSockOK
<1>6. /\ e.update = <<>> /\ e.mip = m
      /\ e.out = IF M!Known(m, told.dest) THEN <<o>> ELSE <<>>
  BY DEF M!receiveUpdateSock, M!Effect
<1>7. M!Known(m, told.dest) =>
        /\ pair.mip = told.dest /\ NodeOf[pair.sock] = n /\ pair.sock \in MIPAddress
        /\ <<pair.sock, told.dest>> \in Wires
  <2> SUFFICES ASSUME M!Known(m, told.dest)
               PROVE  /\ pair.mip = told.dest /\ NodeOf[pair.sock] = n /\ pair.sock \in MIPAddress
                      /\ <<pair.sock, told.dest>> \in Wires
    OBVIOUS
  <2>1. pair \in ARPPair(n) /\ pair.mip = told.dest
    BY <1>2, MIPShape, PairOfOK
  <2> HIDE DEF pair
  <2> QED BY <1>4, <2>1 DEF ARPPair, Interfaces, Wires, Hears
<1>8. /\ o.sock = pair.sock /\ o.to = {pair.mip} /\ o.frame.tra = "R" /\ o.frame.msg = told.advert
  BY DEF M!Unicast, M!MIPFrame
<1> HIDE DEF e, pair, o
<1>9. Deed(n, e, NothingTaken) /\ NothingTaken \notin Wires
  BY <1>1, <1>5, NothingRead DEF Deed
<1>10. \A j \in DOMAIN e.out : M!Known(m, told.dest) /\ e.out[j] = o
  BY <1>6
<1>11. M!Known(m, told.dest) => NodeOf[told.dest] \in started
  <2>1. NodeCalm(n, mip[n], daemon[n], update_in[n], started)
    BY DEF ShortInv
  <2> QED BY <2>1, KnownPartner DEF NodeCalm
<1>12. \A q \in Wires : WireNow(q)'
  <2>1. Lively(e, started)
    BY <1>7, <1>8, <1>10, <1>11 DEF Lively
  <2>2. e.mip.arp_pair_vec = mip[n].arp_pair_vec /\ UNCHANGED started
    BY <1>1, <1>6
  <2> QED BY <1>9, <2>1, <2>2, DeedHears
<1>13. \A k \in Node : NodeCalm(k, mip[k], daemon[k], update_in[k], started)'
  <2>1. \A i \in DOMAIN e.update : e.update[i].option \in {"ARP_DISCOVERY", "ADVERTISEMENT"}
    BY <1>6
  <2>2. Partners(e.mip) = Partners(mip[n]) /\ UNCHANGED started
    BY <1>1, <1>6
  <2> QED BY <1>6, <1>9, <2>1, <2>2, DeedNodes
<1>14. ASSUME NEW q \in Wires PROVE LinkNow(q)'
  <2> DEFINE a == NodeOf[q[1]]
             b == NodeOf[q[2]]
             g == SaysTo(q[2])
             c == Carried(e.out, q)
             X == IF a = n THEN {g[told]} ELSE {}
             W == Contents(c, Carries)
             kept == q[2] \in Neighbours(daemon[a])
  <2>1. a \in Node /\ b \in Node
    BY PlainFacts
  <2>2. c \in Seq(Frame) /\ e.out \in Seq(Out)
    BY <1>9, DeedDone DEF Done
  <2>3. g[told] = IF told.dest = q[2] THEN told.advert ELSE Nothing
    BY <1>4 DEF SaysTo, Told
  <2>4. \A k \in DOMAIN c : /\ c[k] = o.frame /\ c[k] \in Frame
                            /\ pair.sock = q[1] /\ pair.mip = q[2] /\ M!Known(m, told.dest)
    <3>1. \A k \in DOMAIN c : \E j \in DOMAIN e.out : e.out[j] \in For(e.out, q) /\ c[k] = e.out[j].frame
      BY <2>2, CarriedFacts
    <3>2. \A y \in For(e.out, q) : y.sock = q[1] /\ (y.to = {} \/ q[2] \in y.to)
      BY DEF For
    <3> HIDE DEF c
    <3>3. \A k \in DOMAIN c : c[k] \in Frame
      BY <2>2
    <3>4. ASSUME NEW k \in DOMAIN c
          PROVE  /\ c[k] = o.frame /\ pair.sock = q[1] /\ pair.mip = q[2]
                 /\ M!Known(m, told.dest)
      <4>1. PICK j \in DOMAIN e.out : e.out[j] \in For(e.out, q) /\ c[k] = e.out[j].frame
        BY <3>1
      <4>2. e.out[j] = o /\ M!Known(m, told.dest)
        BY <1>10
      <4>3. o.sock = q[1] /\ (o.to = {} \/ q[2] \in o.to)
        BY <3>2, <4>1, <4>2
      <4> QED BY <1>8, <4>1, <4>2, <4>3
    <3> QED BY <3>3, <3>4
  <2>5. W \subseteq {told.advert} /\ (W # {} => a = n /\ told.dest = q[2])
    <3> HIDE DEF c
    <3>1. \A k \in DOMAIN c : Carries[c[k]] = told.advert
      BY <1>8, <2>4 DEF Carries
    <3>2. W # {} => \E k \in DOMAIN c : TRUE
      BY DEF Contents
    <3> QED BY <1>7, <2>4, <3>1, <3>2 DEF Contents
  <2>6. a = n /\ told.dest = q[2] /\ kept => told.advert \in W
    <3> SUFFICES ASSUME a = n, told.dest = q[2], kept PROVE told.advert \in W
      OBVIOUS
    <3>1. M!Known(m, told.dest)
      BY KnownStill, KnownPartner
    <3>2. <<pair.sock, told.dest>> = q
      BY <1>7, <3>1, PlainFacts
    <3>3. pair.sock = q[1] /\ HearsNow(q[1], q[2])
      <4>1. Hears(q[1], q[2]) /\ q = <<q[1], q[2]>>
        BY PlainFacts
      <4> QED BY <3>2, <4>1 DEF ShortInv, Hears, HearsNow
    <3>4. e.out = <<o>>
      BY <1>6, <3>1
    <3>5. 1 \in DOMAIN e.out /\ e.out[1] = o
      BY <3>4
    <3>6. e.out[1] \in For(e.out, q)
      BY <1>7, <1>8, <3>1, <3>3, <3>5 DEF For, ToSet
    <3>7. PICK k \in DOMAIN c : c[k] = o.frame
      BY <2>2, <3>5, <3>6, CarriedFacts
    <3>8. Carries[c[k]] = told.advert
      BY <1>8, <2>4, <3>7 DEF Carries
    <3> QED BY <3>8 DEF Contents
  <2>7. Falling(c, Carries)
    <3>1. told.advert \in Adverts
      BY <1>4 DEF AdvertsOf
    <3> HIDE DEF c
    <3> QED BY <2>5, <3>1, QueueOfSame
  <2>8. /\ Passes(TellsOf(q[1]), update_in[b], update_in'[b], {}, {})
        /\ Passes(Carries, wire[q], wire'[q], {}, W)
    <3>1. /\ Contents(e.update, TellsOf(q[1])) = {} /\ Falling(e.update, TellsOf(q[1]))
      BY <1>6, QueueOfOne
    <3>2. /\ Passes(TellsOf(q[1]), update_in[b], update_in'[b], {},
                    IF b = n THEN Contents(e.update, TellsOf(q[1])) ELSE {})
          /\ Passes(Carries, wire[q], wire'[q],
                    IF q = NothingTaken THEN {Carries[Head(wire[q])]} ELSE {}, W)
      BY <1>9, <2>7, <3>1, DeedPasses
    <3>3. q # NothingTaken
      BY <1>9
    <3> HIDE DEF W, b
    <3> QED BY <3>1, <3>2, <3>3
  <2>9. Passes(g, update_out[a], update_out'[a], X, {})
    <3>1. CASE a = n
      <4>1. update_out'[a] = Tail(update_out[n])
        BY <1>1, <1>2, <3>1
      <4>2. Passes(g, update_out[n], Tail(update_out[n]), {g[Head(update_out[n])]}, {})
        <5> HIDE DEF g
        <5> QED BY <1>1, <1>2, PassesFirst
      <4> QED BY <3>1, <4>1, <4>2 DEF told
    <3>2. CASE a # n
      <4>1. update_out'[a] = update_out[a]
        BY <1>1, <1>2, <2>1, <3>2
      <4> QED BY <3>2, <4>1, PassesNothing
    <3> QED BY <3>1, <3>2
  <2>10. W \subseteq X \cup {Nothing} /\ (kept => X \subseteq W \cup {Nothing})
    <3> HIDE DEF W, kept, a
    <3> QED BY <2>3, <2>5, <2>6
  <2>11. LinkOK(q, daemon[a], daemon[b].distance_vector_table, update_in[b], wire[q], update_out[a])
    BY DEF ShortInv, LinkNow
  <2>12. kept \in BOOLEAN /\ (q[2] \in Neighbours(daemon[a]) => kept)
    OBVIOUS
  <2> HIDE DEF a, b, g, c, X, W, kept
  <2>13. Flows(q, update_in[b], wire[q], update_out[a], update_in'[b], wire'[q], update_out'[a],
               {}, {}, kept)
    BY <2>8, <2>9, <2>10 DEF Flows, g
  <2>14. LinkOK(q, daemon[a], daemon[b].distance_vector_table, update_in'[b], wire'[q], update_out'[a])
    BY <2>11, <2>12, <2>13, LinkFlows
  <2> QED BY <1>1, <2>14 DEF LinkNow, a, b
<1>15. up' = Links
  BY <1>1 DEF ShortInv
<1> QED BY <1>12, <1>13, <1>14, <1>15 DEF ShortInv

\* A frame that MIP_deamon reads.
LEMMA RawSockShort ==
  ASSUME NetInv, PlainLinks, ShortInv, NEW n \in Node, NEW p \in Wires, ReceiveRawSock(n, p)
  PROVE  ShortInv'
<1>1. wire[p] # <<>> /\ wire[p] \in Seq(Frame)
  BY LinkTypes DEF ReceiveRawSock
<1>2. Head(wire[p]) \in Frame
  BY <1>1, Unqueued
<1>3. Head(wire[p]).tra \in {"A", "ZERO", "R", "T"}
  BY <1>2 DEF Frame
<1> QED BY <1>3, ARPShort, AdvertisementShort, PacketShort

\* What routing_deamon of node n did, whose sockets are then i and o.
Turn(n, e, i, o) ==
  /\ UNCHANGED <<mip, started, wire, up>>
  /\ \A k \in Node : /\ daemon'[k] = IF k = n THEN e ELSE daemon[k]
                     /\ update_in'[k] = IF k = n THEN i ELSE update_in[k]
                     /\ update_out'[k] = IF k = n THEN o ELSE update_out[k]
  /\ NodeCalm(n, mip[n], e, i, started)
  /\ \A p \in Wires : NodeOf[p[1]] = n =>
       LET b == NodeOf[p[2]]
       IN  LinkOK(p, e, daemon[b].distance_vector_table, update_in[b], wire[p], o)
  /\ \A p \in Wires : NodeOf[p[2]] = n =>
       LET a == NodeOf[p[1]]
       IN  LinkOK(p, daemon[a], e.distance_vector_table, i, wire[p], update_out[a])

LEMMA TurnShort ==
  ASSUME NetInv, PlainLinks, ShortInv, NEW n \in Node, NEW e, NEW i, NEW o, Turn(n, e, i, o)
  PROVE  ShortInv'
<1>1. /\ \A k \in Node : /\ daemon'[k] = IF k = n THEN e ELSE daemon[k]
                         /\ update_in'[k] = IF k = n THEN i ELSE update_in[k]
                         /\ update_out'[k] = IF k = n THEN o ELSE update_out[k]
      /\ mip' = mip /\ wire' = wire /\ started' = started /\ up' = up
  BY DEF Turn
<1>2. ASSUME NEW k \in Node PROVE NodeCalm(k, mip[k], daemon[k], update_in[k], started)'
  <2>1. CASE k = n
    BY <1>1, <2>1 DEF Turn
  <2>2. CASE k # n
    BY <1>1, <2>2 DEF ShortInv
  <2> QED BY <2>1, <2>2
<1>3. ASSUME NEW p \in Wires PROVE WireNow(p)'
  BY <1>1 DEF ShortInv, WireNow
<1>4. ASSUME NEW p \in Wires PROVE LinkNow(p)'
  <2> DEFINE a == NodeOf[p[1]]
             b == NodeOf[p[2]]
  <2>1. a \in Node /\ b \in Node /\ a # b
    BY PlainFacts
  <2>2. LinkOK(p, daemon[a], daemon[b].distance_vector_table, update_in[b], wire[p], update_out[a])
    BY DEF ShortInv, LinkNow
  <2>3. LinkOK(p, daemon'[a], daemon'[b].distance_vector_table, update_in'[b], wire[p],
               update_out'[a])
    <3>1. CASE a = n
      BY <1>1, <2>1, <3>1 DEF Turn
    <3>2. CASE b = n
      BY <1>1, <2>1, <3>2 DEF Turn
    <3>3. CASE a # n /\ b # n
      BY <1>1, <2>1, <2>2, <3>3
    <3> QED BY <3>1, <3>2, <3>3
  <2> QED BY <1>1, <2>3 DEF LinkNow
<1> QED BY <1>1, <1>2, <1>3, <1>4 DEF ShortInv

\* What the lookup thread does does not touch the ways.
Alike(d, e) ==
  /\ e.distance_vector_table = d.distance_vector_table
  /\ e.neighbour_mip_vec = d.neighbour_mip_vec
  /\ e.update_queue = d.update_queue /\ e.walk = d.walk

LEMMA AlikeShort ==
  ASSUME NetInv, PlainLinks, ShortInv, NEW n \in Node, NEW e, Alike(daemon[n], e),
         daemon' = [daemon EXCEPT ![n] = e],
         UNCHANGED <<mip, started, wire, up, update_in, update_out>>
  PROVE  ShortInv'
<1> DEFINE d == daemon[n]
<1>1. /\ Neighbours(e) = Neighbours(d) /\ (WalkRight(d) => WalkRight(e))
      /\ \A a : (Pending(d, a) => Pending(e, a)) /\ (WillSend(d, a) => WillSend(e, a))
  BY DEF Alike, Neighbours, WalkRight, Walking, Pending, WillSend
<1>2. e.distance_vector_table = d.distance_vector_table
  BY DEF Alike
<1>3. NodeCalm(n, mip[n], d, update_in[n], started)
  BY DEF ShortInv
<1>4. \A p \in Wires : LinkOK(p, daemon[NodeOf[p[1]]], daemon[NodeOf[p[2]]].distance_vector_table,
                              update_in[NodeOf[p[2]]], wire[p], update_out[NodeOf[p[1]]])
  BY DEF ShortInv, LinkNow
<1>5. \A k \in Node : /\ daemon'[k] = IF k = n THEN e ELSE daemon[k]
                      /\ update_in'[k] = IF k = n THEN update_in[n] ELSE update_in[k]
                      /\ update_out'[k] = IF k = n THEN update_out[n] ELSE update_out[k]
  BY DEF NetInv, Domains
<1> HIDE DEF d
<1>6. NodeCalm(n, mip[n], e, update_in[n], started)
  BY <1>1, <1>2, <1>3 DEF NodeCalm
<1>7. ASSUME NEW p \in Wires, NodeOf[p[1]] = n
      PROVE  LinkOK(p, e, daemon[NodeOf[p[2]]].distance_vector_table,
                    update_in[NodeOf[p[2]]], wire[p], update_out[n])
  <2>1. LinkOK(p, d, daemon[NodeOf[p[2]]].distance_vector_table,
               update_in[NodeOf[p[2]]], wire[p], update_out[n])
    BY <1>4, <1>7 DEF d
  <2> QED BY <1>1, <1>2, <2>1 DEF LinkOK, Covered
<1>8. Turn(n, e, update_in[n], update_out[n])
  BY <1>2, <1>4, <1>5, <1>6, <1>7 DEF Turn, d
<1> QED BY <1>8, TurnShort

LEMMA LookupsShort ==
  ASSUME NetInv, PlainLinks, ShortInv, NEW n \in Node, ReadLookup(n) \/ AnswerLookup(n)
  PROVE  ShortInv'
<1> DEFINE d == daemon[n]
<1>1. d \in DeamonType
  BY NodeParts
<1>2. CASE ReadLookup(n)
  <2> DEFINE e == receiveLookupSock(d, Head(lookup_in[n]))
  <2>1. /\ daemon' = [daemon EXCEPT ![n] = e]
        /\ UNCHANGED <<mip, started, wire, up, update_in, update_out>>
    BY <1>2 DEF ReadLookup
  <2>2. Alike(d, e)
    BY <1>1 DEF Alike, receiveLookupSock, DeamonType
  <2> HIDE DEF e
  <2> QED BY <2>1, <2>2, AlikeShort
<1>3. CASE AnswerLookup(n)
  <2> DEFINE e == popLookup(d)
  <2>1. /\ daemon' = [daemon EXCEPT ![n] = e]
        /\ UNCHANGED <<mip, started, wire, up, update_in, update_out>>
    BY <1>3 DEF AnswerLookup
  <2>2. Alike(d, e)
    BY <1>1 DEF Alike, popLookup, DeamonType
  <2> HIDE DEF e
  <2> QED BY <2>1, <2>2, AlikeShort
<1> QED BY <1>2, <1>3

\* The update thread takes an announcement.
LEMMA StartWalkShort ==
  ASSUME NetInv, PlainLinks, ShortInv, NEW n \in Node, StartWalk(n)
  PROVE  ShortInv'
<1> DEFINE d == daemon[n]
           e == popUpdate(d)
<1>1. /\ daemon' = [daemon EXCEPT ![n] = e] /\ d.update_queue # <<>> /\ ~Walking(d)
      /\ UNCHANGED <<mip, started, wire, up, update_in, update_out>>
  BY DEF StartWalk
<1>2. d \in DeamonType
  BY NodeParts
<1>3. /\ e.neighbour_mip_vec = d.neighbour_mip_vec
      /\ e.distance_vector_table = d.distance_vector_table
      /\ ~e.walk.freed /\ e.walk.last = Len(d.neighbour_mip_vec)
      /\ Len(d.neighbour_mip_vec) \in Nat
  BY <1>2 DEF popUpdate, DeamonType
<1>4. NodeCalm(n, mip[n], d, update_in[n], started)
  BY DEF ShortInv
<1>5. \A p \in Wires : LinkOK(p, daemon[NodeOf[p[1]]], daemon[NodeOf[p[2]]].distance_vector_table,
                              update_in[NodeOf[p[2]]], wire[p], update_out[NodeOf[p[1]]])
  BY DEF ShortInv, LinkNow
<1>6. ASSUME NEW p \in Wires, NodeOf[p[1]] = n
      PROVE  LinkOK(p, e, daemon[NodeOf[p[2]]].distance_vector_table,
                    update_in[NodeOf[p[2]]], wire[p], update_out[n])
  <2> DEFINE b == NodeOf[p[2]]
             u == daemon[b].distance_vector_table
             i == update_in[b]
             w == wire[p]
             o == update_out[n]
  <2>1. b \in Node
    BY PlainFacts
  <2>2. u \in Tables /\ i \in Seq(Update) /\ w \in Seq(FramesOf(p[1])) /\ o \in Seq(Told)
    BY <2>1, LinkTypes
  <2>3. LinkOK(p, d, u, i, w, o)
    BY <1>5, <1>6
  <2> HIDE DEF d, u, i, w, o
  <2>4. LinkOK(p, popUpdate(d), u, i, w, o)
    BY <1>1, <1>2, <2>2, <2>3, LinkStarts
  <2> QED BY <2>4 DEF u, i, w, o
<1>7. \A k \in Node : /\ daemon'[k] = IF k = n THEN e ELSE daemon[k]
                      /\ update_in'[k] = IF k = n THEN update_in[n] ELSE update_in[k]
                      /\ update_out'[k] = IF k = n THEN update_out[n] ELSE update_out[k]
  BY <1>1 DEF NetInv, Domains
<1> HIDE DEF d, e
<1>8. WalkRight(e) /\ Neighbours(e) = Neighbours(d)
  BY <1>3 DEF WalkRight, Neighbours
<1>9. NodeCalm(n, mip[n], e, update_in[n], started)
  BY <1>3, <1>4, <1>8 DEF NodeCalm
<1>10. Turn(n, e, update_in[n], update_out[n])
  BY <1>1, <1>3, <1>5, <1>6, <1>7, <1>9 DEF Turn, d
<1> QED BY <1>10, TurnShort

\* The update thread writes to a neighbour.
LEMMA WalkShort ==
  ASSUME NetInv, PlainLinks, ShortInv, NEW n \in Node, Walk(n)
  PROVE  ShortInv'
<1> DEFINE d == daemon[n]
           e == stepWalk(d)
<1>1. /\ daemon' = [daemon EXCEPT ![n] = e] /\ Walking(d)
      /\ UNCHANGED <<mip, started, wire, up, update_in>>
  BY DEF Walk
<1>2. PICK dest \in Targets(d) :
        update_out' = [update_out EXCEPT ![n] = update_out[n] \o Advertised(d, dest)]
  BY DEF Walk
<1>3. d \in DeamonType /\ d.walk.next >= 1 /\ StorageOK(d)
  BY NodeParts DEF DaemonOK
<1>4. /\ e.neighbour_mip_vec = d.neighbour_mip_vec
      /\ e.distance_vector_table = d.distance_vector_table
  BY <1>3 DEF stepWalk, DeamonType
<1>5. dest \in MIPAddress
  BY <1>1, <1>2, <1>3, TargetsOK
<1>6. NodeCalm(n, mip[n], d, update_in[n], started)
  BY DEF ShortInv
<1>7. \A p \in Wires : LinkOK(p, daemon[NodeOf[p[1]]], daemon[NodeOf[p[2]]].distance_vector_table,
                              update_in[NodeOf[p[2]]], wire[p], update_out[NodeOf[p[1]]])
  BY DEF ShortInv, LinkNow
<1> DEFINE o2 == update_out[n] \o Advertised(d, dest)
<1>8. ASSUME NEW p \in Wires, NodeOf[p[1]] = n
      PROVE  LinkOK(p, e, daemon[NodeOf[p[2]]].distance_vector_table,
                    update_in[NodeOf[p[2]]], wire[p], o2)
  <2> DEFINE b == NodeOf[p[2]]
             u == daemon[b].distance_vector_table
             i == update_in[b]
             w == wire[p]
             o == update_out[n]
  <2>1. b \in Node /\ b # n
    BY <1>8, PlainFacts
  <2>2. u \in Tables /\ i \in Seq(Update) /\ w \in Seq(FramesOf(p[1])) /\ o \in Seq(Told)
    BY <2>1, LinkTypes
  <2>3. LinkOK(p, d, u, i, w, o) /\ WalkRight(d)
    BY <1>6, <1>7, <1>8 DEF NodeCalm
  <2>4. \A to \in DOMAIN d.distance_vector_table :
          NodeOf[to] = NodeOf[p[1]] => d.distance_vector_table[to].cost = 0
    <3> HIDE DEF d
    <3>1. \A to \in DOMAIN d.distance_vector_table :
            NodeOf[to] = n => d.distance_vector_table[to] = [via |-> to, cost |-> 0]
      BY <1>6 DEF NodeCalm
    <3>2. ASSUME NEW to \in DOMAIN d.distance_vector_table, NodeOf[to] = NodeOf[p[1]]
          PROVE  d.distance_vector_table[to].cost = 0
      <4>1. d.distance_vector_table[to] = [via |-> to, cost |-> 0]
        BY <1>8, <3>1, <3>2
      <4> QED BY <4>1
    <3> QED BY <3>2
  <2>5. \A to \in DOMAIN u : NodeOf[to] = NodeOf[p[1]] => u[to].cost # 0
    <3>1. WaysOK(b, u)
      BY <2>1, NodeParts
    <3> QED BY <1>8, <2>1, <3>1 DEF WaysOK, WayOK
  <2> HIDE DEF d, u, i, w, o
  <2>6. LinkOK(p, stepWalk(d), u, i, w, o \o Advertised(d, dest))
    BY <1>1, <1>2, <1>3, <1>5, <2>2, <2>3, <2>4, <2>5, LinkWalks
  <2> QED BY <2>6 DEF u, i, w, o
<1>9. \A k \in Node : /\ daemon'[k] = IF k = n THEN e ELSE daemon[k]
                      /\ update_in'[k] = IF k = n THEN update_in[n] ELSE update_in[k]
                      /\ update_out'[k] = IF k = n THEN o2 ELSE update_out[k]
  BY <1>1, <1>2 DEF NetInv, Domains
<1>10. WalkRight(e)
  BY <1>1, <1>3, <1>6, WalkStaysRight DEF NodeCalm
<1> HIDE DEF d, e, o2
<1>11. Neighbours(e) = Neighbours(d)
  BY <1>4 DEF Neighbours
<1>12. NodeCalm(n, mip[n], e, update_in[n], started)
  BY <1>4, <1>6, <1>10, <1>11 DEF NodeCalm
<1>13. Turn(n, e, update_in[n], o2)
  BY <1>1, <1>4, <1>7, <1>8, <1>9, <1>12 DEF Turn, d
<1> QED BY <1>13, TurnShort

\* A frame for a node that does not run is lost.
LEMMA LoseShort ==
  ASSUME NetInv, PlainLinks, ShortInv, NEW n \in Node, NEW p \in Wires, Lose(n, p)
  PROVE  ShortInv'
<1>1. /\ NodeOf[p[2]] = n /\ wire[p] # <<>> /\ wire' = [wire EXCEPT ![p] = Tail(wire[p])]
      /\ UNCHANGED <<mip, daemon, started, up, update_in, update_out>>
      /\ ~HearsNow(p[1], p[2]) \/ n \notin started
  BY DEF Lose
<1>2. n \notin started
  <2>1. HearsNow(p[1], p[2])
    BY PlainFacts DEF ShortInv, Hears, HearsNow
  <2> QED BY <1>1, <2>1
<1>3. DOMAIN wire = Wires
  BY DEF NetInv, Domains
<1>4. wire[p] \in Seq(Frame) /\ Head(wire[p]) \in Frame
  BY <1>1, LinkTypes, Unqueued
<1>5. Kinds(wire[p]) = {Head(wire[p]).tra} \cup Kinds(Tail(wire[p]))
  <2> DEFINE g == [f \in Frame |-> f.tra]
  <2>1. g[Head(wire[p])] = Head(wire[p]).tra
    BY <1>4
  <2> HIDE DEF g
  <2>2. Contents(wire[p], g) = {g[Head(wire[p])]} \cup Contents(Tail(wire[p]), g)
    BY <1>1, <1>4, QueueTaken
  <2> QED BY <2>1, <2>2 DEF Kinds, g
<1>6. ASSUME NEW q \in Wires PROVE Kinds(wire'[q]) \subseteq Kinds(wire[q])
                                   /\ (q # p => wire'[q] = wire[q])
  BY <1>1, <1>3, <1>5
<1>7. WireNow(p)
  BY DEF ShortInv
<1>8. ASSUME NEW q \in Wires PROVE WireNow(q)'
  <2> DEFINE rev == <<q[2], q[1]>>
             k == NodeOf[q[2]]
  <2>1. rev \in Wires /\ q = <<q[1], q[2]>> /\ p = <<p[1], p[2]>>
    BY PlainFacts
  <2>2. WireCalm(q, mip[k], wire[q], wire[rev], started)
    BY DEF ShortInv, WireNow
  <2>3. NodeOf[q[1]] \in started /\ NodeOf[q[2]] \in started => q # p /\ rev # p
    BY <1>1, <1>2, <2>1
  <2> HIDE DEF k, rev
  <2>4. /\ Kinds(wire'[q]) \subseteq Kinds(wire[q])
        /\ NodeOf[q[1]] \in started /\ NodeOf[q[2]] \in started =>
             wire'[q] = wire[q] /\ wire'[rev] = wire[rev]
    BY <1>6, <2>1, <2>3
  <2>5. WireCalm(q, mip[k], wire'[q], wire'[rev], started)
    BY <2>2, <2>4 DEF WireCalm
  <2> QED BY <1>1, <2>5 DEF WireNow, k, rev
<1>9. Head(wire[p]).tra # "R"
  BY <1>1, <1>2, <1>5, <1>7 DEF WireNow, WireCalm
<1>10. ASSUME NEW q \in Wires PROVE LinkNow(q)'
  <2> DEFINE a == NodeOf[q[1]]
             b == NodeOf[q[2]]
             i == update_in[b]
             o == update_out[a]
             X == IF q = p THEN {Carries[Head(wire[p])]} ELSE {}
  <2>1. LinkOK(q, daemon[a], daemon[b].distance_vector_table, i, wire[q], o)
    BY DEF ShortInv, LinkNow
  <2>2. X \subseteq {Nothing}
    BY <1>4, <1>9 DEF Carries
  <2>3. Passes(Carries, wire[q], wire'[q], X, {})
    <3>1. CASE q = p
      <4>1. wire'[q] = Tail(wire[p])
        BY <1>1, <1>3, <3>1
      <4> QED BY <1>1, <1>4, <3>1, <4>1, PassesFirst
    <3>2. CASE q # p
      BY <1>6, <3>2, PassesNothing
    <3> QED BY <3>1, <3>2
  <2> HIDE DEF a, b, i, o, X
  <2>4. Passes(TellsOf(q[1]), i, i, {}, {}) /\ Passes(SaysTo(q[2]), o, o, {}, {})
    BY PassesNothing
  <2>5. Flows(q, i, wire[q], o, i, wire'[q], o, {}, {}, TRUE)
    BY <2>2, <2>3, <2>4 DEF Flows
  <2>6. LinkOK(q, daemon[a], daemon[b].distance_vector_table, i, wire'[q], o)
    <3>1. TRUE \in BOOLEAN
      OBVIOUS
    <3> QED BY <2>1, <2>5, <3>1, LinkFlows
  <2> QED BY <1>1, <2>6 DEF LinkNow, a, b, i, o
<1> QED BY <1>1, <1>8, <1>10 DEF ShortInv

\* Every interface of node n asks who is there.
Asks(n, e) == e.out = [i \in DOMAIN Socks(n) |-> M!BroadcastFrame(Socks(n)[i])]

LEMMA AskedAll ==
  ASSUME NetInv, PlainLinks, ShortInv, NEW n \in Node, NEW e, Deed(n, e, NothingTaken),
         Asks(n, e)
  PROVE  /\ \A j \in DOMAIN e.out : e.out[j].frame.tra = "A" /\ NodeOf[e.out[j].sock] = n
         /\ \A p \in Wires : Kinds(wire[p]) \subseteq Kinds(wire'[p])
         /\ \A p \in Wires : NodeOf[p[1]] = n => "A" \in Kinds(wire'[p])
<1> DEFINE socks == Socks(n)
<1>1. socks \in Seq(Interfaces(n))
  BY SocksOK
<1>2. \A a \in Interfaces(n) : NodeOf[a] = n
  BY DEF Interfaces
<1>3. \A j \in DOMAIN socks : socks[j] \in Interfaces(n)
  BY <1>1
<1>4. DOMAIN e.out = DOMAIN socks /\ \A j \in DOMAIN socks : e.out[j] = M!BroadcastFrame(socks[j])
  BY DEF Asks
<1> HIDE DEF socks
<1>5. \A j \in DOMAIN e.out : /\ e.out[j].frame.tra = "A" /\ e.out[j].sock = socks[j]
                              /\ e.out[j].to = {} /\ NodeOf[e.out[j].sock] = n
  <2>1. \A a : LET o == M!BroadcastFrame(a)
                IN  o.frame.tra = "A" /\ o.sock = a /\ o.to = {}
    BY DEF M!BroadcastFrame, M!Broadcast, M!MIPFrame
  <2> QED BY <1>2, <1>3, <1>4, <2>1
<1>6. ASSUME NEW p \in Wires PROVE Kinds(wire[p]) \subseteq Kinds(wire'[p])
  BY NothingRead, DeedKinds
<1>7. ASSUME NEW p \in Wires, NodeOf[p[1]] = n PROVE "A" \in Kinds(wire'[p])
  <2>1. p[1] \in Interfaces(n) /\ HearsNow(p[1], p[2])
    BY <1>7, PlainFacts DEF Interfaces, ShortInv, Hears, HearsNow
  <2>2. PICK j \in DOMAIN socks : socks[j] = p[1]
    BY <2>1, SocksAll DEF socks
  <2>3. e.out \in Seq(Out)
    BY DeedDone DEF Done
  <2>4. e.out[j] \in ToSet(e.out)
    BY <1>4, <2>2, <2>3 DEF ToSet
  <2>5. e.out[j] \in For(e.out, p) /\ e.out[j].frame.tra = "A" /\ j \in DOMAIN e.out
    BY <1>4, <1>5, <2>1, <2>2, <2>4 DEF For
  <2> QED BY <2>5, DeedKinds
<1> QED BY <1>5, <1>6, <1>7

\* So it will hear of all that run, and they of it.
LEMMA AskedHears ==
  ASSUME NetInv, PlainLinks, ShortInv, NEW n \in Node, NEW e, Deed(n, e, NothingTaken),
         Asks(n, e), started' = started \cup {n}
  PROVE  \A p \in Wires : WireNow(p)'
<1> SUFFICES ASSUME NEW p \in Wires PROVE WireNow(p)'
  OBVIOUS
<1> DEFINE back == <<p[2], p[1]>>
           k == NodeOf[p[2]]
           c == NodeOf[p[1]]
<1>1. back \in Wires /\ k \in Node /\ back[1] = p[2]
  BY PlainFacts
<1>2. /\ \A j \in DOMAIN e.out : e.out[j].frame.tra = "A" /\ NodeOf[e.out[j].sock] = n
      /\ Kinds(wire[p]) \subseteq Kinds(wire'[p]) /\ Kinds(wire[back]) \subseteq Kinds(wire'[back])
      /\ c = n => "A" \in Kinds(wire'[p])
      /\ k = n => "A" \in Kinds(wire'[back])
  BY <1>1, AskedAll
<1>3. Lively(e, started') /\ started \subseteq started'
  BY <1>2 DEF Lively
<1>4. /\ "A" \in Kinds(wire'[p]) \/ "ZERO" \in Kinds(wire'[p]) => c \in started'
      /\ "R" \in Kinds(wire'[p]) => k \in started'
  BY <1>3, DeedRuns
<1>5. k # n => mip'[k] = mip[k]
  BY <1>1, DeedDone DEF Done
<1>6. WireCalm(p, mip[k], wire[p], wire[back], started)
  BY DEF ShortInv, WireNow
<1>7. c \in started' /\ k \in started' => c = n \/ k = n \/ (c \in started /\ k \in started)
  OBVIOUS
<1>8. c \in started /\ k \in started => WillHear(mip[k], p[1], wire[p], wire[back])
  BY <1>6 DEF WireCalm
<1> HIDE DEF back, k, c
<1>9. c \in started' /\ k \in started' => WillHear(mip'[k], p[1], wire'[p], wire'[back])
  BY <1>2, <1>5, <1>7, <1>8 DEF WillHear
<1> QED BY <1>4, <1>9 DEF WireNow, WireCalm, back, k, c

\* When the time-out comes at rest, everyone was heard of.
LEMMA TimerShort ==
  ASSUME NetInv, PlainLinks, ShortInv, NEW n \in Node, Timer(n),
         failures' = failures, failures \in Nat
  PROVE  ShortInv'
<1> DEFINE m == mip[n]
           pairs == m.arp_pair_vec
           lost == M!Keep(pairs, M!Silent(pairs))
           e == M!handleTimer(m, Socks(n))
<1>1. /\ n \in started /\ Rest /\ Does(n, e, NothingTaken)
      /\ UNCHANGED <<daemon, started, update_out, up>>
  BY DEF Timer, TimeOut
<1>2. m \in MIPType(n) /\ pairs \in Seq(ARPPair(n)) /\ Apart(pairs)
  BY NodeParts, MIPShape
<1>3. EffectOK(n, m, e)
  BY <1>2, SocksOK, TimerOK
<1>4. Deed(n, e, NothingTaken)
  BY <1>1, <1>3, NothingRead DEF Deed
<1>5. ASSUME NEW i \in DOMAIN pairs PROVE pairs[i].reply
  <2> DEFINE x == pairs[i].mip
             p == <<x, pairs[i].sock>>
             back == <<pairs[i].sock, x>>
  <2>1. pairs[i] \in ARPPair(n)
    BY <1>2
  <2>2. /\ p \in Wires /\ p[1] = x /\ p[2] = pairs[i].sock /\ NodeOf[p[2]] = n
        /\ <<p[2], p[1]>> = back
    BY <2>1 DEF ARPPair, Wires, Interfaces
  <2>3. NodeOf[x] \in started
    <3>1. x \in Partners(mip[n])
      BY DEF Partners
    <3>2. NodeCalm(n, mip[n], daemon[n], update_in[n], started)
      BY DEF ShortInv
    <3> QED BY <3>1, <3>2 DEF NodeCalm
  <2>4. \A q \in Wires : wire[q] = <<>>
    <3>1. \A q \in Wires : NodeOf[q[2]] \in Node
      BY PlainFacts
    <3>2. DOMAIN wire = Wires
      BY DEF NetInv, Domains
    <3> QED BY <1>1, <3>1, <3>2 DEF Rest, HasWork
  <2>5. back \in Wires
    BY <2>2, PlainFacts
  <2>6. WireNow(p)
    BY <2>2 DEF ShortInv
  <2>7. WillHear(mip[n], p[1], wire[p], wire[<<p[2], p[1]>>])
    BY <1>1, <2>2, <2>3, <2>6 DEF WireNow, WireCalm
  <2>8. WillHear(m, x, <<>>, <<>>)
    BY <2>2, <2>4, <2>5, <2>7
  <2>9. Kinds(<<>>) = {}
    BY QueueOfOne DEF Kinds
  <2>10. HeardOf(m, x)
    BY <2>8, <2>9 DEF WillHear
  <2>11. PICK j \in DOMAIN pairs : pairs[j].mip = x /\ pairs[j].reply
    BY <2>10 DEF HeardOf
  <2> QED BY <1>2, <2>11 DEF Apart
<1>6. \A j \in DOMAIN e.update : FALSE
  <2>1. DOMAIN e.update = DOMAIN lost
    BY DEF M!handleTimer, M!Effect
  <2> HIDE DEF e
  <2>2. M!Silent(pairs) = {}
    BY <1>5 DEF M!Silent
  <2>3. lost \in Seq(ARPPair(n)) /\ Chosen(lost, pairs, M!Silent(pairs), Len(pairs))
    <3> HIDE DEF pairs
    <3> QED BY <1>2, KeepFacts DEF lost
  <2>4. DOMAIN lost = 1..Len(lost)
    BY <2>3
  <2> HIDE DEF lost, pairs
  <2>5. \A j \in 1..Len(lost) : FALSE
    <3> SUFFICES ASSUME NEW j \in 1..Len(lost) PROVE FALSE
      OBVIOUS
    <3>1. lost \in Seq({})
      BY <2>2, <2>3 DEF Chosen
    <3>2. lost[j] \in {}
      BY <3>1
    <3> QED BY <3>2
  <2> QED BY <2>1, <2>4, <2>5
<1>7. Asks(n, e)
  BY DEF M!handleTimer, M!Effect, Asks
<1> HIDE DEF e
<1>8. e.update = <<>>
  <2>1. e.update \in Seq(Update)
    BY <1>4, DeedDone DEF Done
  <2> QED BY <1>6, <2>1, EmptyQueue
<1>9. Partners(e.mip) = Partners(mip[n])
  BY <1>3, <1>8, LeadsNothing DEF EffectOK
<1>10. \A p \in Wires : WireNow(p)'
  <2>1. started' = started \cup {n}
    BY <1>1
  <2> QED BY <1>4, <1>7, <2>1, AskedHears
<1>11. \A k \in Node : NodeCalm(k, mip[k], daemon[k], update_in[k], started)'
  BY <1>1, <1>4, <1>6, <1>9, DeedNodes
<1>12. \A p \in Wires : LinkNow(p)'
  <2>1. Quiet(e, NothingTaken)
    BY <1>4, <1>6, <1>7, NothingRead, AskedAll DEF Quiet
  <2> QED BY <1>1, <1>4, <2>1, QuietLinks
<1> QED BY <1>1, <1>10, <1>11, <1>12 DEF ShortInv

\* A node starts.
LEMMA StartShort ==
  ASSUME NetInv, PlainLinks, ShortInv, NEW n \in Node, Start(n)
  PROVE  ShortInv'
<1> DEFINE m == mip[n]
           e == M!startUp(m, Socks(n))
<1>1. /\ n \notin started /\ Does(n, e, NothingTaken) /\ started' = started \cup {n}
      /\ UNCHANGED <<daemon, update_out, up>>
  BY DEF Start
<1>2. m \in MIPType(n)
  BY NodeParts
<1>3. EffectOK(n, m, e)
  BY <1>2, SocksOK, StartUpOK
<1>4. Deed(n, e, NothingTaken)
  BY <1>1, <1>3, NothingRead DEF Deed
<1>5. /\ e.mip = m /\ DOMAIN e.update = DOMAIN Socks(n)
      /\ \A i \in DOMAIN Socks(n) : /\ e.update[i].option = "LOCAL_MIP"
                                    /\ e.update[i].mip = Socks(n)[i]
      /\ Asks(n, e)
  BY DEF M!startUp, M!Effect, Asks
<1> HIDE DEF e
<1>6. \A p \in Wires : WireNow(p)'
  BY <1>1, <1>4, <1>5, AskedHears
<1>7. \A p \in Wires : LinkNow(p)'
  <2>1. Quiet(e, NothingTaken)
    BY <1>4, <1>5, NothingRead, AskedAll DEF Quiet
  <2> QED BY <1>1, <1>4, <2>1, QuietLinks
<1>8. ASSUME NEW k \in Node PROVE NodeCalm(k, mip'[k], daemon'[k], update_in'[k], started')
  <2>1. NodeCalm(k, mip[k], daemon[k], update_in[k], started)
    BY DEF ShortInv
  <2>2. Done(n, e, NothingTaken)
    BY <1>4, DeedDone
  <2>3. CASE k # n
    <3>1. /\ mip'[k] = mip[k] /\ daemon'[k] = daemon[k] /\ update_in'[k] = update_in[k]
          /\ started \subseteq started' /\ (k \in started' <=> k \in started)
      BY <1>1, <2>2, <2>3 DEF Done
    <3> QED BY <2>1, <3>1 DEF NodeCalm
  <2>4. CASE k = n
    <3> DEFINE d == daemon[n]
               ui == e.update
    <3>1. update_in[n] = <<>> /\ Partners(m) = {}
      BY <1>1, <2>1, <2>4 DEF NodeCalm
    <3>2. mip'[n] = m /\ daemon'[n] = d /\ update_in'[n] = ui
      <4>1. ui \in Seq(Update)
        BY <2>2 DEF Done
      <4> HIDE DEF ui
      <4>2. <<>> \o ui = ui
        BY <4>1
      <4> QED BY <1>5, <2>2, <2>4, <3>1, <4>2 DEF Done, ui
    <3>3. Neighbours(d) = {}
      BY <3>1, KnownStill
    <3>4. \A i \in DOMAIN ui : ui[i].option = "LOCAL_MIP"
      BY <1>5
    <3>5. \A a \in Interfaces(n) : \E i \in DOMAIN ui : ui[i].option = "LOCAL_MIP" /\ ui[i].mip = a
      BY <1>5, SocksAll
    <3>6. n \in started'
      BY <1>1
    <3>7. /\ WalkRight(d)
          /\ \A to \in DOMAIN d.distance_vector_table : NodeOf[to] = n =>
               d.distance_vector_table[to] = [via |-> to, cost |-> 0]
      BY <2>1, <2>4 DEF NodeCalm
    <3> HIDE DEF d, ui, m
    <3>8. NodeCalm(n, m, d, ui, started')
      BY <3>1, <3>3, <3>4, <3>5, <3>6, <3>7 DEF NodeCalm
    <3> QED BY <2>4, <3>2, <3>8
  <2> QED BY <2>3, <2>4
<1> QED BY <1>1, <1>6, <1>7, <1>8 DEF ShortInv

(***************************************************************************)
(* What routing_deamon makes of a message.                                 *)
(***************************************************************************)
\* For neighbour a there is to be told what is new in e, unless all is as in d.
Tells(d, e, a) ==
  a \in Neighbours(e) =>
    \/ Pending(e, a) \/ WillSend(e, a)
    \/ /\ a \in Neighbours(d) /\ ~Pending(d, a) /\ ~WillSend(d, a)
       /\ \A to \in DOMAIN e.distance_vector_table :
            e.distance_vector_table[to].via # a =>
              /\ to \in DOMAIN d.distance_vector_table
              /\ e.distance_vector_table[to] = d.distance_vector_table[to]

LEMMA ReadTells ==
  ASSUME NEW d \in DeamonType, NEW msg \in Update, msg.option # "ARP_LOSTCONNECTION",
         msg.option = "LOCAL_MIP" => Neighbours(d) = {}, WalkRight(d)
  PROVE  LET e == receiveUpdateSock(d, msg)
         IN  /\ WalkRight(e) /\ \A a : Tells(d, e, a)
             /\ e.distance_vector_table = IF Ignored(d, msg) THEN d.distance_vector_table
                                          ELSE NewTable(d.distance_vector_table, msg)
<1> DEFINE t == d.distance_vector_table
           c == changeNeighbours(d, msg)
           r == Announcement(t, msg)
           e == receiveUpdateSock(d, msg)
           q == d.update_queue
           x == msg.mip
<1>1. /\ x \in MIPAddress /\ msg.option \in {"LOCAL_MIP", "ARP_DISCOVERY", "ADVERTISEMENT"}
      /\ msg.option = "ADVERTISEMENT" => msg.advert \in Adverts
  BY UpdateShape
<1>2. CASE Ignored(d, msg)
  <2>1. e = d
    BY <1>2 DEF receiveUpdateSock
  <2> HIDE DEF e
  <2>2. \A a : Tells(d, d, a)
    BY DEF Tells
  <2> QED BY <1>2, <2>1, <2>2 DEF e
<1>3. CASE ~Ignored(d, msg)
  <2>1. c \in DeamonType /\ ListOnly(d, c)
    BY <1>1, <1>3, NeighboursOK
  <2>2. e = addUpdateQueue(changeTable(c, msg), r)
    BY <1>3 DEF receiveUpdateSock
  <2>3. q \in Seq(SUBSET MIPAddress) /\ r \in Seq(SUBSET MIPAddress)
    BY AnnouncementType DEF DeamonType
  <2> HIDE DEF c, r, e, x
  <2>4. /\ e.neighbour_mip_vec = c.neighbour_mip_vec /\ e.walk = c.walk
        /\ e.update_queue = q \o r /\ e.distance_vector_table = NewTable(t, msg)
    BY <2>1, <2>2 DEF addUpdateQueue, changeTable, DeamonType, ListOnly
  <2> DEFINE v == NewTable(t, msg)
  <2> HIDE DEF v, q
  <2>5. /\ \A i \in DOMAIN q : i \in DOMAIN (q \o r) /\ (q \o r)[i] = q[i]
        /\ \A j \in DOMAIN r : \E i \in DOMAIN (q \o r) : (q \o r)[i] = r[j]
    BY <2>3, InJoined
  <2>6. \A a : Pending(d, a) => Pending(e, a)
    BY <2>4, <2>5 DEF Pending, q
  <2>7. \A s : r = <<s>> => \E k \in DOMAIN e.update_queue : e.update_queue[k] = s
    <3> SUFFICES ASSUME NEW s, r = <<s>> PROVE \E k \in DOMAIN (q \o r) : (q \o r)[k] = s
      BY <2>4
    <3>1. 1 \in DOMAIN r /\ r[1] = s
      OBVIOUS
    <3> QED BY <2>5, <3>1
  <2>8. ASSUME msg.option # "ARP_DISCOVERY"
        PROVE  /\ e.neighbour_mip_vec = d.neighbour_mip_vec /\ e.walk = d.walk
               /\ Neighbours(e) = Neighbours(d)
               /\ \A a : WillSend(d, a) => WillSend(e, a)
    <3>1. c = d
      BY <1>1, <2>8 DEF changeNeighbours, c
    <3> QED BY <2>4, <3>1 DEF Neighbours, WillSend
  <2>9. ASSUME msg.option # "ARP_DISCOVERY" PROVE WalkRight(e)
    <3>1. e.neighbour_mip_vec = d.neighbour_mip_vec /\ e.walk = d.walk
      BY <2>8, <2>9
    <3>2. ASSUME NEW k \in DOMAIN d.update_queue, d.update_queue[k] = {}
          PROVE  \E j \in DOMAIN e.update_queue : e.update_queue[j] = {}
      BY <2>4, <2>5, <3>2 DEF q
    <3> QED BY <3>1, <3>2 DEF WalkRight, Walking
  <2>10. CASE msg.option = "LOCAL_MIP"
    <3>1. Neighbours(e) = {}
      BY <2>8, <2>10
    <3> QED BY <1>3, <2>4, <2>9, <2>10, <3>1 DEF Tells, e, t
  <2>11. CASE msg.option = "ARP_DISCOVERY"
    <3>1. r = <<{}>>
      BY <2>11 DEF Announcement, r
    <3>2. PICK k \in DOMAIN e.update_queue : e.update_queue[k] = {}
      BY <2>7, <3>1
    <3>3. \A a : Pending(e, a)
      BY <3>2 DEF Pending
    <3>4. WalkRight(e)
      <4>1. c = Enlist(d, x)
        BY <2>11 DEF changeNeighbours, c, x
      <4>2. /\ d.neighbour_mip_vec \in Seq(MIPAddress)
            /\ d.walk \in [exclude : SUBSET MIPAddress, next : Nat, last : Nat, freed : BOOLEAN]
        BY DEF DeamonType
      <4>3. /\ c.neighbour_mip_vec = Append(d.neighbour_mip_vec, x)
            /\ c.walk.next = d.walk.next /\ c.walk.last = d.walk.last
            /\ ~c.walk.freed /\ Walking(d) => ~d.walk.freed
        BY <4>1, <4>2 DEF Enlist, DeamonType
      <4>4. /\ Len(c.neighbour_mip_vec) = Len(d.neighbour_mip_vec) + 1
            /\ Len(d.neighbour_mip_vec) \in Nat /\ d.walk.last \in Nat
        BY <1>1, <4>2, <4>3 DEF x
      <4>5. Walking(e) => Walking(d)
        BY <2>4, <4>3 DEF Walking
      <4>6. Walking(e) /\ ~e.walk.freed => e.walk.last <= Len(e.neighbour_mip_vec)
        <5> SUFFICES ASSUME Walking(e), ~e.walk.freed
                     PROVE  d.walk.last <= Len(d.neighbour_mip_vec) + 1
          BY <2>4, <4>3, <4>4
        <5>1. d.walk.last <= Len(d.neighbour_mip_vec)
          BY <2>4, <4>3, <4>5 DEF WalkRight
        <5> QED BY <4>4, <5>1
      <4> QED BY <3>2, <4>6 DEF WalkRight
    <3> QED BY <1>3, <2>4, <3>3, <3>4 DEF Tells, e, t
  <2>12. CASE msg.option = "ADVERTISEMENT"
    <3> DEFINE C == Changed(t, x, msg.advert)
    <3>1. v = update(t, x, msg.advert)
      BY <2>12 DEF NewTable, v, x
    <3>2. \A to \in DOMAIN v : \/ to \in C /\ v[to].via = x
                               \/ to \in DOMAIN t /\ v[to] = t[to]
      <4>1. \A to \in DOMAIN v : v[to] = IF to \in C THEN [via |-> x, cost |-> Through(msg.advert, to)]
                                         ELSE t[to]
        BY <3>1 DEF update
      <4>2. DOMAIN v = DOMAIN t \cup DOMAIN msg.advert
        BY <3>1 DEF update
      <4>3. \A to \in DOMAIN msg.advert : to \in C \/ to \in DOMAIN t
        BY DEF Changed
      <4> HIDE DEF C, t
      <4>4. \A to \in DOMAIN v : to \notin C => to \in DOMAIN t
        BY <4>2, <4>3
      <4>5. \A to \in C \cap DOMAIN v : v[to].via = x
        BY <4>1
      <4> QED BY <4>1, <4>4, <4>5
    <3>3. r = IF C = {} THEN <<>> ELSE <<{x}>>
      BY <2>12 DEF Announcement, r, x
    <3> HIDE DEF C, t
    <3>4. ASSUME NEW a PROVE Tells(d, e, a)
      <4>1. CASE C # {} /\ a # x
        <5>1. PICK k \in DOMAIN e.update_queue : e.update_queue[k] = {x}
          BY <2>7, <3>3, <4>1
        <5>2. Pending(e, a)
          BY <4>1, <5>1 DEF Pending
        <5> QED BY <5>2 DEF Tells
      <4>2. CASE C = {} \/ a = x
        <5>1. \A to \in DOMAIN v : v[to].via # a => to \in DOMAIN t /\ v[to] = t[to]
          BY <3>2, <4>2
        <5>2. Neighbours(e) = Neighbours(d) /\ (WillSend(d, a) => WillSend(e, a))
          BY <2>8, <2>12
        <5> QED BY <2>4, <2>6, <5>1, <5>2 DEF Tells, v, t
      <4> QED BY <4>1, <4>2
    <3> QED BY <1>3, <2>4, <2>9, <2>12, <3>4 DEF e, t
  <2> QED BY <1>1, <2>10, <2>11, <2>12
<1> QED BY <1>2, <1>3

\* Table t of node n became v by a message of x, which carried y.
TableMoves(n, t, v, x, y) ==
  /\ \A to \in DOMAIN v :
       \/ to \in DOMAIN t /\ v[to] = t[to]
       \/ to = x /\ NodeOf[x] = n /\ v[to] = [via |-> x, cost |-> 0]
       \/ to = x /\ NodeOf[x] # n /\ v[to] = [via |-> x, cost |-> 1]
       \/ /\ to \in DOMAIN y /\ NodeOf[to] # n /\ NodeOf[x] # n
          /\ v[to].via = x /\ v[to].cost = Cap(y[to])
  /\ Cheaper(t, v)
  /\ \A to \in DOMAIN y : to \in DOMAIN v /\ v[to].cost <= Cap(y[to])

LEMMA NothingMoves ==
  ASSUME NEW n, NEW t \in Tables, NEW x
  PROVE  TableMoves(n, t, t, x, Nothing)
<1>1. DOMAIN Nothing = {}
  BY DEF Nothing
<1> HIDE DEF Nothing
<1>2. Cheaper(t, t)
  BY CostsAre DEF Cheaper
<1> QED BY <1>1, <1>2 DEF TableMoves

\* What is at the other end of a link is another node.
LEMMA LinkedElsewhere ==
  ASSUME PlainLinks, NEW n \in Node, NEW x \in MIPAddress, Linked(n, x)
  PROVE  \E p \in Wires : p[1] = x /\ NodeOf[p[2]] = n /\ NodeOf[x] # n
<1>1. PICK a \in Interfaces(n) : Hears(x, a)
  BY DEF Linked
<1> DEFINE p == <<x, a>>
<1>2. p \in Wires /\ p[1] = x /\ p[2] = a /\ NodeOf[a] = n
  BY <1>1 DEF Wires, Interfaces
<1> HIDE DEF p
<1> QED BY <1>2, PlainFacts

\* The message that is read first: what it carries, and the table after it.
Carried1(msg) == IF msg.option = "ADVERTISEMENT" THEN msg.advert ELSE Nothing

LEMMA ReadMoves ==
  ASSUME NetInv, PlainLinks, ShortInv, NEW n \in Node, update_in[n] # <<>>
  PROVE  LET msg == Head(update_in[n])
             t == daemon[n].distance_vector_table
         IN  TableMoves(n, t, NewTable(t, msg), msg.mip, Carried1(msg))
<1> DEFINE ui == update_in[n]
           msg == Head(ui)
           d == daemon[n]
           t == d.distance_vector_table
           x == msg.mip
           y == Carried1(msg)
           v == NewTable(t, msg)
<1>1. ui \in Seq(News(n)) /\ ui \in Seq(Update) /\ t \in Tables /\ WaysOK(n, t)
  <2>1. ui \in Seq(News(n)) /\ WaysOK(n, t) /\ d \in DeamonType
    BY NodeParts
  <2>2. ui \in Seq(Update)
    BY <2>1, NewsShape
  <2>3. t \in Tables
    BY <2>1 DEF DeamonType
  <2> QED BY <2>1, <2>2, <2>3
<1>2. /\ msg \in News(n) /\ 1 \in DOMAIN ui /\ ui[1] = msg /\ msg \in Update
      /\ x \in MIPAddress
  BY <1>1, Unqueued, InTail, UpdateShape
<1>3. NodeCalm(n, mip[n], d, ui, started)
  BY DEF ShortInv
<1>4. msg.option \in {"LOCAL_MIP", "ARP_DISCOVERY", "ADVERTISEMENT"}
  BY <1>2, <1>3, UpdateShape DEF NodeCalm
<1> HIDE DEF ui, msg, d, t, x
<1>5. \A to \in DOMAIN t : t[to].cost \in Cost /\ t[to].cost \in Int /\ t[to].cost >= 0
  BY <1>1, CostsAre DEF Cost
<1>6. DOMAIN Nothing = {}
  BY DEF Nothing
<1>7. CASE msg.option = "LOCAL_MIP"
  <2>1. NodeOf[x] = n /\ y = Nothing /\ v = addLocalMip(t, x)
    BY <1>2, <1>7 DEF News, Carried1, NewTable, x
  <2> HIDE DEF y, v
  <2> DEFINE c == [via |-> x, cost |-> 0]
  <2>2. c.cost = 0
    OBVIOUS
  <2> HIDE DEF c
  <2>3. /\ \A to \in DOMAIN t : to \in DOMAIN v
        /\ \A to \in DOMAIN v : v[to] = IF to = x THEN c ELSE t[to]
        /\ \A to \in DOMAIN v : to = x \/ to \in DOMAIN t
    BY <2>1 DEF addLocalMip, c
  <2>4. Cheaper(t, v)
    BY <1>5, <2>2, <2>3 DEF Cheaper
  <2>5. \A to \in DOMAIN v : \/ to \in DOMAIN t /\ v[to] = t[to]
                             \/ to = x /\ NodeOf[x] = n /\ v[to] = [via |-> x, cost |-> 0]
    BY <2>1, <2>3 DEF c
  <2> QED BY <1>6, <2>1, <2>4, <2>5 DEF TableMoves, msg, t, x, y, v, d, ui
<1>8. CASE msg.option = "ARP_DISCOVERY"
  <2>1. NodeOf[x] # n /\ y = Nothing /\ v = addArpDiscovery(t, x)
    <3>1. Linked(n, x)
      BY <1>2, <1>8 DEF News, x
    <3> QED BY <1>2, <1>8, <3>1, LinkedElsewhere DEF Carried1, NewTable, x
  <2> HIDE DEF y, v
  <2> DEFINE c == [via |-> x, cost |-> 1]
  <2>2. c.cost = 1
    OBVIOUS
  <2> HIDE DEF c
  <2>3. /\ \A to \in DOMAIN t : to \in DOMAIN v
        /\ \A to \in DOMAIN v : v[to] = IF to = x THEN c ELSE t[to]
        /\ \A to \in DOMAIN v : to = x \/ to \in DOMAIN t
    BY <2>1 DEF addArpDiscovery, HOP_COST, c
  <2>4. x \in DOMAIN t => t[x].cost # 0
    BY <1>1, <2>1 DEF WaysOK, WayOK
  <2>5. x \in DOMAIN t => 1 <= t[x].cost
    BY <1>5, <2>4
  <2>6. \A to \in DOMAIN t : t[to].cost <= t[to].cost
    BY <1>5
  <2>7. Cheaper(t, v)
    BY <2>2, <2>3, <2>5, <2>6 DEF Cheaper
  <2>8. \A to \in DOMAIN v : \/ to \in DOMAIN t /\ v[to] = t[to]
                             \/ to = x /\ NodeOf[x] # n /\ v[to] = [via |-> x, cost |-> 1]
    BY <2>1, <2>3 DEF c
  <2> QED BY <1>6, <2>1, <2>7, <2>8 DEF TableMoves, msg, t, x, y, v, d, ui
<1>9. CASE msg.option = "ADVERTISEMENT"
  <2> DEFINE C == Changed(t, x, y)
  <2>1. y = msg.advert /\ y \in Adverts /\ Linked(n, x) /\ v = update(t, x, y)
    BY <1>2, <1>9, UpdateShape DEF News, Carried1, NewTable, x
  <2>2. PICK p \in Wires : p[1] = x /\ NodeOf[p[2]] = n /\ NodeOf[x] # n
    BY <1>2, <2>1, LinkedElsewhere
  <2>3. Heeded(t, x, y)
    <3> DEFINE m == NodeOf[p[1]]
               S == UnderWay(p, ui, wire[p], update_out[m])
    <3>1. LinkOK(p, daemon[m], t, ui, wire[p], update_out[m])
      BY <2>2 DEF ShortInv, LinkNow, ui, t, d
    <3>2. TellsOf(x)[ui[1]] = y
      BY <1>2, <1>9, <2>1 DEF TellsOf, x
    <3>3. y \in S
      BY <1>2, <2>2, <3>2 DEF UnderWay, Contents
    <3> HIDE DEF S
    <3>4. Stands(S, daemon[m].distance_vector_table, t, p[1])
      BY <3>1 DEF LinkOK, S
    <3> QED BY <2>2, <3>3, <3>4 DEF Stands
  <2>4. \A to \in DOMAIN y : /\ Through(y, to) = Cap(y[to]) /\ Cap(y[to]) \in Int
                             /\ Cap(y[to]) >= 1
    <3>1. \A to \in DOMAIN y : y[to] \in Cost
      BY <2>1, CostsAre
    <3>2. \A k \in Cost : k \in Int
      BY DEF Cost
    <3> QED BY <3>1, <3>2, CapFacts
  <2> HIDE DEF y, v
  <2>5. C = {to \in DOMAIN y : \/ to \notin DOMAIN t
                               \/ Cap(y[to]) < t[to].cost
                               \/ x = t[to].via /\ Cap(y[to]) # t[to].cost}
    BY <2>4 DEF Changed
  <2> HIDE DEF C
  <2>6. /\ DOMAIN v = DOMAIN t \cup DOMAIN y
        /\ \A to \in DOMAIN v : to \notin C => to \in DOMAIN t /\ v[to] = t[to]
        /\ \A to \in DOMAIN v : to \in C => v[to].via = x /\ v[to].cost = Cap(y[to])
    <3>1. DOMAIN v = DOMAIN t \cup DOMAIN y
      BY <2>1 DEF update
    <3>2. \A to \in DOMAIN v : v[to] = IF to \in C THEN [via |-> x, cost |-> Through(y, to)]
                                       ELSE t[to]
      BY <2>1 DEF update, C
    <3>3. \A to \in DOMAIN v : to \notin C => to \in DOMAIN t
      BY <2>5, <3>1
    <3>4. \A to \in C : to \in DOMAIN y
      BY <2>5
    <3>5. ASSUME NEW to \in DOMAIN v, to \in C PROVE v[to].via = x /\ v[to].cost = Cap(y[to])
      <4>1. v[to] = [via |-> x, cost |-> Through(y, to)] /\ to \in DOMAIN y
        BY <3>2, <3>4, <3>5
      <4> QED BY <2>4, <4>1
    <3>6. \A to \in DOMAIN v : to \notin C => v[to] = t[to]
      BY <3>2
    <3> QED BY <3>1, <3>3, <3>5, <3>6
  <2>7. \A to \in C : to \in DOMAIN y /\ (to \in DOMAIN t => Cap(y[to]) <= t[to].cost)
    <3>1. \A to \in DOMAIN y : to \in DOMAIN t /\ t[to].via = x => Cap(y[to]) <= t[to].cost
      BY <2>3 DEF Heeded
    <3> QED BY <1>5, <2>4, <2>5, <3>1
  <2>8. Cheaper(t, v)
    BY <1>5, <2>6, <2>7 DEF Cheaper
  <2>9. \A to \in DOMAIN y : to \in DOMAIN v /\ v[to].cost <= Cap(y[to])
    <3>1. \A to \in DOMAIN y : to \notin C => to \in DOMAIN t /\ t[to].cost <= Cap(y[to])
      BY <1>5, <2>4, <2>5
    <3> QED BY <2>4, <2>6, <3>1
  <2>10. \A to \in C : NodeOf[to] # n
    <3> SUFFICES ASSUME NEW to \in C, NodeOf[to] = n PROVE FALSE
      OBVIOUS
    <3>1. to \in DOMAIN y /\ to \in MIPAddress
      BY <2>1, <2>7, AdvertShape
    <3>2. n \in started
      BY <1>2, <1>3 DEF NodeCalm
    <3>3. to \in DOMAIN t
      <4>1. to \in Interfaces(n)
        BY <3>1 DEF Interfaces
      <4>2. \A i \in DOMAIN ui : ui[i].option # "LOCAL_MIP"
        <5> SUFFICES ASSUME NEW i \in DOMAIN ui, ui[i].option = "LOCAL_MIP" PROVE FALSE
          OBVIOUS
        <5>1. \A j \in DOMAIN ui : j < i => ui[j].option = "LOCAL_MIP"
          BY <1>3 DEF NodeCalm
        <5>2. i = 1 \/ 1 < i
          BY <1>1
        <5> QED BY <1>2, <1>9, <5>1, <5>2
      <4> QED BY <1>3, <3>2, <4>1, <4>2 DEF NodeCalm, t
    <3>4. t[to] = [via |-> to, cost |-> 0]
      BY <1>3, <3>3 DEF NodeCalm, t
    <3>5. t[to].via = to /\ t[to].cost = 0
      BY <3>4
    <3>6. to # x
      BY <2>2
    <3> QED BY <2>4, <2>5, <3>1, <3>3, <3>5, <3>6
  <2>11. \A to \in DOMAIN v :
           \/ to \in DOMAIN t /\ v[to] = t[to]
           \/ /\ to \in DOMAIN y /\ NodeOf[to] # n /\ NodeOf[x] # n
              /\ v[to].via = x /\ v[to].cost = Cap(y[to])
    BY <2>2, <2>6, <2>7, <2>10
  <2> QED BY <2>8, <2>9, <2>11 DEF TableMoves, msg, t, x, y, v, d, ui
<1> QED BY <1>4, <1>7, <1>8, <1>9

\* The main thread of routing_deamon reads a message.
LEMMA ReadUpdateShort ==
  ASSUME NetInv, PlainLinks, ShortInv, NEW n \in Node, ReadUpdate(n)
  PROVE  ShortInv'
<1> DEFINE ui == update_in[n]
           msg == Head(ui)
           d == daemon[n]
           t == d.distance_vector_table
           x == msg.mip
           y == Carried1(msg)
           e == receiveUpdateSock(d, msg)
           v == e.distance_vector_table
           q == Tail(ui)
<1>1. /\ ui # <<>> /\ update_in' = [update_in EXCEPT ![n] = q]
      /\ daemon' = [daemon EXCEPT ![n] = e]
      /\ UNCHANGED <<mip, started, wire, up, update_out>>
  BY DEF ReadUpdate
<1>2. /\ ui \in Seq(News(n)) /\ d \in DeamonType /\ StorageOK(d) /\ NoTwice(d.neighbour_mip_vec)
      /\ t \in Tables
  BY NodeParts DEF DaemonOK, DeamonType
<1>3. ui \in Seq(Update)
  BY <1>2, NewsShape
<1>4. TableMoves(n, t, NewTable(t, msg), x, y)
  BY <1>1, ReadMoves
<1>5. \A p \in Wires : LinkOK(p, daemon[NodeOf[p[1]]], daemon[NodeOf[p[2]]].distance_vector_table,
                              update_in[NodeOf[p[2]]], wire[p], update_out[NodeOf[p[1]]])
  BY DEF ShortInv, LinkNow
<1>6. NodeCalm(n, mip[n], d, ui, started)
  BY DEF ShortInv
<1>7. /\ 1 \in DOMAIN ui /\ ui[1] = msg /\ q \in Seq(Update) /\ msg \in Update
      /\ \A i \in DOMAIN q : i + 1 \in DOMAIN ui /\ q[i] = ui[i + 1] /\ i + 1 > 1
      /\ \A i \in DOMAIN ui : i = 1 \/ (i - 1 \in DOMAIN q /\ q[i - 1] = ui[i])
  BY <1>1, <1>3, InTail, Unqueued
<1>8. \A k \in Node : /\ daemon'[k] = IF k = n THEN e ELSE daemon[k]
                      /\ update_in'[k] = IF k = n THEN q ELSE update_in[k]
                      /\ update_out'[k] = IF k = n THEN update_out[n] ELSE update_out[k]
  BY <1>1 DEF NetInv, Domains
<1> HIDE DEF ui, msg, d, q
<1>9. /\ msg.option # "ARP_LOSTCONNECTION" /\ (msg.option = "LOCAL_MIP" => Neighbours(d) = {})
      /\ WalkRight(d)
  BY <1>6, <1>7 DEF NodeCalm
<1>10. /\ WalkRight(e) /\ (\A a : Tells(d, e, a))
       /\ v = IF Ignored(d, msg) THEN t ELSE NewTable(t, msg)
  BY <1>2, <1>7, <1>9, ReadTells
<1>11. e \in DeamonType /\ Neighbours(e) = Learnt(Neighbours(d), msg)
  BY <1>2, <1>7, UpdateHandled
<1>12. v \in Tables
  BY <1>11 DEF DeamonType
<1> HIDE DEF e, t, v, x, y
<1>13. TableMoves(n, t, v, x, y)
  <2>1. CASE Ignored(d, msg)
    <3>1. y = Nothing
      BY <1>9, <2>1 DEF Ignored, Carried1, y
    <3> QED BY <1>2, <1>10, <2>1, <3>1, NothingMoves
  <2> QED BY <1>4, <1>10, <2>1
<1>14. /\ Cheaper(t, v) /\ \A to \in DOMAIN y : to \in DOMAIN v /\ v[to].cost <= Cap(y[to])
  BY <1>13 DEF TableMoves
<1>15. NodeCalm(n, mip[n], e, q, started)
  <2>1. n \in started /\ \A b \in Partners(mip[n]) : NodeOf[b] \in started
    BY <1>1, <1>6 DEF NodeCalm
  <2>2. \A i \in DOMAIN q : q[i].option # "ARP_LOSTCONNECTION"
    BY <1>6, <1>7 DEF NodeCalm
  <2>3. ASSUME NEW i \in DOMAIN q, q[i].option = "LOCAL_MIP"
        PROVE  Neighbours(e) = {} /\ \A j \in DOMAIN q : j < i => q[j].option = "LOCAL_MIP"
    <3>1. i + 1 \in DOMAIN ui /\ ui[i + 1].option = "LOCAL_MIP" /\ 1 < i + 1
      BY <1>7, <2>3
    <3>2. Neighbours(d) = {} /\ \A j \in DOMAIN ui : j < i + 1 => ui[j].option = "LOCAL_MIP"
      BY <1>6, <3>1 DEF NodeCalm
    <3>3. msg.option = "LOCAL_MIP"
      BY <1>7, <3>1, <3>2
    <3>4. ASSUME NEW j \in DOMAIN q, j < i PROVE q[j].option = "LOCAL_MIP"
      <4>1. i \in Int /\ j \in Int
        BY <1>7
      <4>2. j + 1 \in DOMAIN ui /\ q[j] = ui[j + 1] /\ j + 1 < i + 1
        BY <1>7, <3>4, <4>1
      <4> QED BY <3>2, <4>2
    <3> QED BY <1>11, <3>2, <3>3, <3>4 DEF Learnt
  <2>4. ASSUME NEW to \in DOMAIN v, NodeOf[to] = n PROVE v[to] = [via |-> to, cost |-> 0]
    <3>1. to \in DOMAIN t => t[to] = [via |-> to, cost |-> 0]
      BY <1>6, <2>4 DEF NodeCalm, t
    <3> QED BY <1>13, <2>4, <3>1 DEF TableMoves
  <2>5. ASSUME NEW a \in Interfaces(n)
        PROVE  a \in DOMAIN v \/ \E i \in DOMAIN q : q[i].option = "LOCAL_MIP" /\ q[i].mip = a
    <3>1. a \in DOMAIN t \/ \E i \in DOMAIN ui : ui[i].option = "LOCAL_MIP" /\ ui[i].mip = a
      BY <1>6, <2>1 DEF NodeCalm, t
    <3>2. a \in DOMAIN t => a \in DOMAIN v
      BY <1>14 DEF Cheaper
    <3>3. msg.option = "LOCAL_MIP" /\ msg.mip = a => a \in DOMAIN v
      <4> SUFFICES ASSUME msg.option = "LOCAL_MIP", msg.mip = a PROVE a \in DOMAIN v
        OBVIOUS
      <4>1. v = addLocalMip(t, a)
        BY <1>10 DEF Ignored, NewTable
      <4> QED BY <4>1 DEF addLocalMip
    <3> QED BY <1>7, <3>1, <3>2, <3>3
  <2> QED BY <1>10, <2>1, <2>2, <2>3, <2>4, <2>5 DEF NodeCalm, v
<1>16. ASSUME NEW p \in Wires, NodeOf[p[1]] = n
       PROVE  LinkOK(p, e, daemon[NodeOf[p[2]]].distance_vector_table, update_in[NodeOf[p[2]]],
                     wire[p], update_out[n])
  <2> DEFINE b == NodeOf[p[2]]
             u == daemon[b].distance_vector_table
             i == update_in[b]
             w == wire[p]
             o == update_out[n]
  <2>1. b \in Node /\ b # n
    BY <1>16, PlainFacts
  <2>2. u \in Tables /\ i \in Seq(Update) /\ w \in Seq(FramesOf(p[1])) /\ o \in Seq(Told)
    BY <2>1, LinkTypes
  <2>3. LinkOK(p, d, u, i, w, o)
    BY <1>5, <1>16 DEF d
  <2>4. Tells(d, e, p[2])
    BY <1>10
  <2>5. Cheaper(d.distance_vector_table, e.distance_vector_table)
    BY <1>14 DEF t, v
  <2> HIDE DEF u, i, w, o
  <2>6. LinkOK(p, e, u, i, w, o)
    BY <1>2, <1>11, <2>2, <2>3, <2>4, <2>5, LinkBegins DEF Tells
  <2> QED BY <2>6 DEF u, i, w, o
<1>17. ASSUME NEW p \in Wires, NodeOf[p[2]] = n
       PROVE  LinkOK(p, daemon[NodeOf[p[1]]], v, q, wire[p], update_out[NodeOf[p[1]]])
  <2> DEFINE a == NodeOf[p[1]]
             w == wire[p]
             o == update_out[a]
             f == daemon[a]
             z == TellsOf(p[1])[Head(ui)]
  <2>1. a \in Node /\ a # n
    BY <1>17, PlainFacts
  <2>2. f \in DeamonType /\ w \in Seq(FramesOf(p[1])) /\ o \in Seq(Told)
    BY <2>1, LinkTypes
  <2>3. LinkOK(p, f, t, ui, w, o)
    BY <1>5, <1>17 DEF t, d, ui
  <2>4. DOMAIN Nothing = {}
    BY DEF Nothing
  <2> HIDE DEF Nothing
  <2>5. z = IF msg.option = "ADVERTISEMENT" /\ x = p[1] THEN msg.advert ELSE Nothing
    BY <1>7 DEF TellsOf, msg, x
  <2> HIDE DEF z
  <2>6. /\ msg.option = "ADVERTISEMENT" /\ x = p[1] => z = y
        /\ ~(msg.option = "ADVERTISEMENT" /\ x = p[1]) => DOMAIN z = {}
        /\ msg.option # "ADVERTISEMENT" => DOMAIN y = {}
    BY <2>4, <2>5 DEF y, Carried1
  <2>7. \A to \in DOMAIN z : to \in DOMAIN v /\ v[to].cost <= Cap(z[to])
    BY <1>14, <2>6
  <2>8. ASSUME NEW to \in DOMAIN v, v[to].via = p[1]
        PROVE  \/ to \in DOMAIN t /\ v[to] = t[to]
               \/ NodeOf[to] = NodeOf[p[1]] /\ v[to].cost >= 1
               \/ to \in DOMAIN z /\ v[to].cost = Cap(z[to])
    <3>1. CASE to \in DOMAIN t /\ v[to] = t[to]
      BY <3>1
    <3>2. CASE to = x /\ NodeOf[x] = n /\ v[to] = [via |-> x, cost |-> 0]
      BY <2>1, <2>8, <3>2
    <3>3. CASE to = x /\ NodeOf[x] # n /\ v[to] = [via |-> x, cost |-> 1]
      <4>1. v[to].via = x /\ v[to].cost = 1
        BY <3>3
      <4> QED BY <2>8, <3>3, <4>1
    <3>4. CASE /\ to \in DOMAIN y /\ NodeOf[to] # n /\ NodeOf[x] # n
               /\ v[to].via = x /\ v[to].cost = Cap(y[to])
      BY <2>6, <2>8, <3>4
    <3> QED BY <1>13, <3>1, <3>2, <3>3, <3>4 DEF TableMoves
  <2> HIDE DEF f, w, o
  <2>9. LinkOK(p, f, v, Tail(ui), w, o)
    <3>1. z = TellsOf(p[1])[Head(ui)]
      BY DEF z
    <3> QED BY <1>1, <1>2, <1>3, <1>12, <1>14, <2>2, <2>3, <2>7, <2>8, <3>1, LinkEnds
  <2> QED BY <2>9 DEF f, w, o, q
<1>18. Turn(n, e, q, update_out[n])
  BY <1>1, <1>8, <1>15, <1>16, <1>17 DEF Turn, v
<1> QED BY <1>18, TurnShort

(***************************************************************************)
(* The invariant, as long as no link failed and no time-out was early.     *)
(***************************************************************************)
Calm ==
  NetInv /\ failures \in Nat /\ (failures = 0 /\ PlainLinks => ShortInv)

\* At the begin nobody runs.
LEMMA InitShort ==
  ASSUME Init, NetInv, PlainLinks
  PROVE  ShortInv
<1> DEFINE d == NewDeamon
           none == <<>>
<1>1. /\ \A n \in Node : /\ daemon[n] = d /\ update_in[n] = none /\ update_out[n] = none
                         /\ mip[n] = M!NewMIP(Interfaces(n))
      /\ \A p \in Wires : wire[p] = none
      /\ started = {} /\ up = Links
  BY DEF Init, Wires
<1>2. DOMAIN none = {} /\ DOMAIN EmptyTable = {}
  BY DEF EmptyTable
<1>3. d.neighbour_mip_vec = none /\ d.walk = Idle /\ d.distance_vector_table = EmptyTable
  BY DEF NewDeamon
<1>4. \A n \in Node : M!NewMIP(Interfaces(n)).arp_pair_vec = none
  BY DEF M!NewMIP
<1> HIDE DEF d
<1>5. Neighbours(d) = {}
  BY <1>2, <1>3 DEF Neighbours
<1>6. ASSUME NEW n \in Node
      PROVE  NodeCalm(n, mip[n], daemon[n], update_in[n], started)
  <2> DEFINE m == mip[n]
  <2>1. m.arp_pair_vec = none
    BY <1>1, <1>4
  <2> HIDE DEF m
  <2>2. Partners(m) = {}
    BY <1>2, <2>1 DEF Partners
  <2>3. ~Walking(d)
    BY <1>3 DEF Walking, Idle
  <2>4. NodeCalm(n, m, d, none, {})
    <3> HIDE DEF none
    <3>1. none = <<>>
      BY DEF none
    <3> QED BY <1>2, <1>3, <2>2, <2>3, <3>1 DEF NodeCalm, WalkRight
  <2> QED BY <1>1, <2>4 DEF m
<1>7. ASSUME NEW p \in Wires PROVE WireNow(p) /\ LinkNow(p)
  <2> DEFINE I == TellsOf(p[1])
             O == SaysTo(p[2])
             back == <<p[2], p[1]>>
  <2>1. /\ NodeOf[p[1]] \in Node /\ NodeOf[p[2]] \in Node /\ back \in Wires
    BY PlainFacts
  <2>2. \A g : Contents(none, g) = {} /\ Falling(none, g)
    BY <1>2 DEF Contents, Falling
  <2> HIDE DEF none, back
  <2>3. WireNow(p)
    BY <1>1, <2>1, <2>2 DEF WireNow, WireCalm, Kinds, back
  <2>4. UnderWay(p, none, none, none) = {}
    BY <2>2 DEF UnderWay
  <2>5. InOrder(p, none, none, none)
    BY <2>2 DEF InOrder, Above
  <2>6. Stands({}, EmptyTable, EmptyTable, p[1])
    BY <1>2 DEF Stands, Owed
  <2>7. Covered(d, EmptyTable, {}, p[2])
    BY <1>5 DEF Covered
  <2>8. LinkOK(p, d, EmptyTable, none, none, none)
    BY <1>3, <2>4, <2>5, <2>6, <2>7 DEF LinkOK
  <2> QED BY <1>1, <1>3, <2>1, <2>3, <2>8 DEF LinkNow
<1> QED BY <1>1, <1>6, <1>7 DEF ShortInv

\* A step without a failure keeps it.
LEMMA NextShort ==
  ASSUME NetInv, PlainLinks, ShortInv, Next, failures' = failures, failures \in Nat
  PROVE  ShortInv'
<1>1. CASE Serve
  <2>1. PICK n \in Node :
          \/ ReceiveAdvertSock(n) \/ ReceiveAnswerSock(n)
          \/ ReadUpdate(n) \/ ReadLookup(n)
          \/ StartWalk(n) \/ Walk(n) \/ AnswerLookup(n)
          \/ \E p \in DOMAIN wire : ReceiveRawSock(n, p) \/ Lose(n, p)
    BY <1>1 DEF Serve
  <2>2. CASE ReceiveAdvertSock(n)
    BY <2>2, AdvertSockShort
  <2>3. CASE ReceiveAnswerSock(n)
    BY <2>3, AnswerSockShort
  <2>4. CASE ReadUpdate(n)
    BY <2>4, ReadUpdateShort
  <2>5. CASE ReadLookup(n) \/ AnswerLookup(n)
    BY <2>5, LookupsShort
  <2>6. CASE StartWalk(n)
    BY <2>6, StartWalkShort
  <2>7. CASE Walk(n)
    BY <2>7, WalkShort
  <2>8. CASE \E p \in DOMAIN wire : ReceiveRawSock(n, p) \/ Lose(n, p)
    <3>1. PICK p \in Wires : ReceiveRawSock(n, p) \/ Lose(n, p)
      BY <2>8 DEF NetInv, Domains
    <3> QED BY <3>1, RawSockShort, LoseShort
  <2> QED BY <2>1, <2>2, <2>3, <2>4, <2>5, <2>6, <2>7, <2>8
<1>2. CASE Disturb
  <2>1. CASE \E n \in Node : Start(n) \/ Timer(n) \/ \E s \in unsent : ReceiveTransportSock(n, s)
    BY <2>1, StartShort, TimerShort, TransportSockShort
  <2>2. ASSUME NEW l \in Down, Fail(l) PROVE FALSE
    BY <2>2 DEF Fail
  <2>3. ASSUME NEW l \in Down, Repair(l) PROVE FALSE
    BY <2>3, NetworkAssumption DEF Repair, ShortInv
  <2> QED BY <1>2, <2>1, <2>2, <2>3 DEF Disturb
<1> QED BY <1>1, <1>2 DEF Next

\* Nothing happens.
LEMMA IdleShort ==
  ASSUME ShortInv, UNCHANGED vars
  PROVE  ShortInv'
BY DEF ShortInv, WireNow, LinkNow, vars

\* The links of a network are what they are.
LEMMA PlainStays ==
  PlainLinks' <=> PlainLinks
BY DEF PlainLinks

LEMMA CalmHolds ==
  Spec => []Calm
<1>1. Init => Calm
  BY InitNetInv, InitShort DEF Calm, Init
<1>2. Calm /\ [Next]_vars => Calm'
  <2> SUFFICES ASSUME Calm, [Next]_vars PROVE Calm'
    OBVIOUS
  <2>1. NetInv' /\ NetInv
    BY NextNetInv DEF Calm
  <2>2. failures' = failures \/ failures' = failures + 1
    BY DEF Next, Serve, Disturb, Start, Timer, TimeOut, ReceiveRawSock, ReceiveTransportSock,
           ReceiveAdvertSock, ReceiveAnswerSock, ReadUpdate, ReadLookup, StartWalk, Walk,
           AnswerLookup, Fail, Repair, Lose, vars
  <2>3. failures \in Nat /\ failures' \in Nat /\ (failures' = 0 => failures' = failures)
    BY <2>2 DEF Calm
  <2>4. ASSUME failures' = 0, PlainLinks PROVE ShortInv'
    <3>1. ShortInv /\ failures' = failures
      BY <2>3, <2>4 DEF Calm
    <3>2. CASE Next
      BY <2>1, <2>3, <2>4, <3>1, <3>2, NextShort
    <3>3. CASE UNCHANGED vars
      BY <3>1, <3>3, IdleShort
    <3> QED BY <3>2, <3>3
  <2> QED BY <2>1, <2>3, <2>4, PlainStays DEF Calm
<1> QED BY <1>1, <1>2, PTL DEF Spec

(***************************************************************************)
(* The network at rest.                                                    *)
(***************************************************************************)
\* A walk is one link and a shorter walk.
LEMMA WalksFrom ==
  /\ \A n, o \in Node : <<n, o>> \in Walks[0] => n = o
  /\ \A k \in 1..INF_COST : \A n, o \in Node :
       <<n, o>> \in Walks[k] => \E m \in Node : Beside(n, m) /\ <<m, o>> \in Walks[k - 1]
<1> DEFINE W == Walks
<1>1. W = [k \in 0..INF_COST |-> WalksOf(W, k)]
  <2>1. W = CHOOSE f : f = [k \in 0..INF_COST |-> WalksOf(f, k)]
    BY DEF Walks, WalksOf
  <2> QED BY <2>1, WalksDefined
<1> HIDE DEF W
<1>2. INF_COST \in Nat /\ \A k \in 0..INF_COST : W[k] = WalksOf(W, k)
  BY <1>1, TableAssumption
<1>3. W[0] = {p \in Node \X Node : p[1] = p[2]}
  BY <1>2 DEF WalksOf
<1>4. ASSUME NEW k \in 1..INF_COST
      PROVE  W[k] = {p \in Node \X Node : \E m \in Node : Beside(p[1], m) /\ <<m, p[2]>> \in W[k - 1]}
  <2>1. k \in 0..INF_COST /\ k # 0
    BY <1>2
  <2> QED BY <1>2, <2>1 DEF WalksOf
<1> QED BY <1>3, <1>4 DEF W

\* Nothing is under way, and both ends of each link know each other.
LEMMA RestKnown ==
  ASSUME NetInv, PlainLinks, ShortInv, Rest, started = Node
  PROVE  /\ \A n \in Node : /\ update_in[n] = <<>> /\ update_out[n] = <<>>
                            /\ daemon[n].update_queue = <<>> /\ ~Walking(daemon[n])
         /\ \A p \in Wires : wire[p] = <<>> /\ p[1] \in Neighbours(daemon[NodeOf[p[2]]])
<1>1. ASSUME NEW n \in Node
      PROVE  /\ update_in[n] = <<>> /\ update_out[n] = <<>>
             /\ daemon[n].update_queue = <<>> /\ ~Walking(daemon[n])
             /\ \A p \in Wires : NodeOf[p[2]] = n => wire[p] = <<>>
  BY DEF Rest, HasWork, NetInv, Domains
<1>2. ASSUME NEW p \in Wires
      PROVE  wire[p] = <<>> /\ p[1] \in Neighbours(daemon[NodeOf[p[2]]])
  <2> DEFINE n == NodeOf[p[2]]
             back == <<p[2], p[1]>>
             none == <<>>
  <2>1. n \in Node /\ NodeOf[p[1]] \in Node /\ back \in Wires /\ NodeOf[back[2]] = NodeOf[p[1]]
    BY PlainFacts
  <2>2. wire[p] = none /\ wire[back] = none
    BY <1>1, <2>1
  <2>3. Kinds(none) = {}
    <3>1. DOMAIN none = {}
      OBVIOUS
    <3> QED BY <3>1 DEF Kinds, Contents
  <2> HIDE DEF none, back
  <2>4. HeardOf(mip[n], p[1])
    <3>1. WireCalm(p, mip[n], none, none, Node)
      BY <2>2 DEF ShortInv, WireNow, back
    <3> QED BY <2>1, <2>3, <3>1 DEF WireCalm, WillHear
  <2>5. p[1] \in Partners(mip[n])
    BY <2>4 DEF HeardOf, Partners
  <2>6. Neighbours(daemon[n]) = Partners(mip[n])
    <3>1. Leads(Neighbours(daemon[n]), update_in[n], Partners(mip[n]))
      BY <2>1, NodeParts
    <3>2. Leads(Neighbours(daemon[n]), <<>>, Partners(mip[n]))
      BY <1>1, <2>1, <3>1
    <3> QED BY <3>2, LeadsNothing
  <2> QED BY <2>2, <2>5, <2>6 DEF none
<1> QED BY <1>1, <1>2

\* Across a link a way costs at most a hop more.
LEMMA RestHop ==
  ASSUME NetInv, PlainLinks, ShortInv, Rest, started = Node, NEW p \in Wires,
         NEW to \in DOMAIN Table(NodeOf[p[1]]), Table(NodeOf[p[1]])[to].cost < INF_COST
  PROVE  /\ to \in DOMAIN Table(NodeOf[p[2]])
         /\ Table(NodeOf[p[2]])[to].cost <= Table(NodeOf[p[1]])[to].cost + 1
<1> DEFINE m == NodeOf[p[1]]
           n == NodeOf[p[2]]
           d == daemon[m]
           t == Table(m)
           u == Table(n)
           back == <<p[2], p[1]>>
           none == <<>>
<1>1. /\ m \in Node /\ n \in Node /\ back \in Wires /\ back[1] = p[2] /\ back[2] = p[1]
  BY PlainFacts
<1>2. /\ update_in[m] = none /\ update_in[n] = none /\ update_out[m] = none
      /\ update_out[n] = none /\ wire[p] = none /\ wire[back] = none
      /\ d.update_queue = none /\ ~Walking(d) /\ p[2] \in Neighbours(d)
  BY <1>1, RestKnown
<1>3. t = d.distance_vector_table /\ t \in Tables /\ u \in Tables /\ d \in DeamonType
  BY <1>1, NodeParts DEF Table, DeamonType
<1>4. LinkOK(p, d, u, none, none, none) /\ LinkOK(back, daemon[n], t, none, none, none)
  <2>1. LinkNow(p) /\ LinkNow(back)
    BY <1>1 DEF ShortInv
  <2> QED BY <1>1, <1>2, <2>1 DEF LinkNow, Table
<1>5. NodeCalm(n, mip[n], daemon[n], none, Node)
  BY <1>1, <1>2 DEF ShortInv
<1>6. DOMAIN none = {} /\ \A q : UnderWay(q, none, none, none) = {}
  <2>1. DOMAIN none = {}
    OBVIOUS
  <2> QED BY <2>1 DEF UnderWay, Contents
<1> HIDE DEF d, t, u, back, none
<1>7. t[to].cost \in Cost /\ t[to].cost < INF_COST /\ to \in DOMAIN t
  BY <1>3, CostsAre DEF t
<1>8. \A c \in Cost : c \in Int /\ c >= 0
  BY DEF Cost
<1>9. CASE t[to].via # p[2]
  <2>1. Covered(d, u, {}, p[2])
    BY <1>4, <1>6 DEF LinkOK
  <2>2. ~Pending(d, p[2])
    BY <1>2, <1>6 DEF Pending
  <2>3. ~WillSend(d, p[2])
    <3>1. d.walk.next \in Int /\ d.walk.last \in Int
      BY <1>3 DEF DeamonType
    <3>2. \A k \in DOMAIN d.neighbour_mip_vec : k \in Int
      BY <1>3 DEF DeamonType
    <3> QED BY <1>2, <3>1, <3>2 DEF WillSend, Walking
  <2>4. Arrives({}, t, u, p[2])
    BY <1>2, <1>3, <2>1, <2>2, <2>3 DEF Covered
  <2> QED BY <1>7, <1>9, <2>4 DEF Arrives, t, u
<1>10. CASE t[to].via = p[2]
  <2>1. Owed(t, p[2], u)
    BY <1>1, <1>4, <1>6 DEF LinkOK, Stands, u, Table
  <2>2. NodeOf[to] = n \/ (to \in DOMAIN u /\ Cap(u[to].cost) <= t[to].cost)
    BY <1>7, <1>10, <2>1 DEF Owed
  <2>3. CASE NodeOf[to] = n
    <3>1. to \in MIPAddress
      BY <1>3, <1>7, TableShape
    <3>2. to \in Interfaces(n)
      BY <2>3, <3>1 DEF Interfaces
    <3>3. to \in DOMAIN u
      BY <1>1, <1>5, <1>6, <3>2 DEF NodeCalm, u, Table
    <3>4. u[to] = [via |-> to, cost |-> 0]
      BY <1>5, <2>3, <3>3 DEF NodeCalm, u, Table
    <3>5. u[to].cost = 0
      BY <3>4
    <3> QED BY <1>7, <1>8, <3>3, <3>5 DEF t, u
  <2>4. CASE to \in DOMAIN u /\ Cap(u[to].cost) <= t[to].cost
    <3>1. u[to].cost \in Cost
      BY <1>3, <2>4, CostsAre
    <3>2. u[to].cost <= t[to].cost
      BY <1>7, <2>4, <3>1, CapFacts
    <3> QED BY <1>7, <1>8, <2>4, <3>1, <3>2 DEF t, u
  <2> QED BY <2>2, <2>3, <2>4
<1> QED BY <1>9, <1>10

\* So no way costs more than the shortest walk.
LEMMA RestShort ==
  ASSUME NetInv, PlainLinks, ShortInv, Rest, started = Node
  PROVE  \A n \in Node, to \in MIPAddress, k \in 0..INF_COST - 1 :
           <<n, NodeOf[to]>> \in Walks[k] => to \in DOMAIN Table(n) /\ Table(n)[to].cost <= k
<1> DEFINE Within(n, to, k) == to \in DOMAIN Table(n) /\ Table(n)[to].cost <= k
           T == {k \in 0..INF_COST - 1 : \E n \in Node, to \in MIPAddress :
                   <<n, NodeOf[to]>> \in Walks[k] /\ ~Within(n, to, k)}
<1>1. ASSUME T # {} PROVE FALSE
  <2>1. T \subseteq Nat
    OBVIOUS
  <2>2. \A k \in T : /\ k \in 0..INF_COST - 1
                     /\ \E n \in Node, to \in MIPAddress :
                          <<n, NodeOf[to]>> \in Walks[k] /\ ~Within(n, to, k)
    OBVIOUS
  <2>3. \A k \in 0..INF_COST - 1 : k \notin T =>
          \A n \in Node, to \in MIPAddress : <<n, NodeOf[to]>> \in Walks[k] => Within(n, to, k)
    OBVIOUS
  <2> HIDE DEF T
  <2>4. PICK k \in T : \A j \in T : k <= j
    BY <1>1, <2>1, LeastNumber
  <2>5. PICK n \in Node, to \in MIPAddress : <<n, NodeOf[to]>> \in Walks[k] /\ ~Within(n, to, k)
    BY <2>2, <2>4
  <2>6. k \in 0..INF_COST - 1 /\ k \in Nat /\ INF_COST \in Nat /\ NodeOf[to] \in Node
    <3>1. k \in 0..INF_COST - 1
      BY <2>2, <2>4
    <3>2. NodeOf \in [MIPAddress -> Node]
      BY NetworkAssumption
    <3> QED BY <3>1, <3>2, TableAssumption
  <2>7. CASE k = 0
    <3>1. NodeOf[to] = n /\ to \in Interfaces(n)
      BY <2>5, <2>6, <2>7, WalksFrom DEF Interfaces
    <3> DEFINE none == <<>>
    <3>2. NodeCalm(n, mip[n], daemon[n], none, Node)
      BY RestKnown DEF ShortInv
    <3>3. DOMAIN none = {}
      OBVIOUS
    <3> HIDE DEF none
    <3>4. to \in DOMAIN Table(n)
      BY <3>1, <3>2, <3>3 DEF NodeCalm, Table
    <3>5. Table(n)[to] = [via |-> to, cost |-> 0]
      BY <3>1, <3>2, <3>4 DEF NodeCalm, Table
    <3>6. Table(n)[to].cost = 0
      BY <3>5
    <3> QED BY <2>5, <2>7, <3>4, <3>6
  <2>8. CASE k # 0
    <3>1. k \in 1..INF_COST /\ k - 1 \in 0..INF_COST - 1 /\ k - 1 < k
      BY <2>6, <2>8
    <3>2. PICK m \in Node : Beside(n, m) /\ <<m, NodeOf[to]>> \in Walks[k - 1]
      BY <2>5, <2>6, <3>1, WalksFrom
    <3>3. k - 1 \notin T
      BY <2>4, <2>6, <3>1
    <3>4. Within(m, to, k - 1)
      BY <2>3, <3>1, <3>2, <3>3
    <3>5. PICK a \in Interfaces(n), b \in Interfaces(m) : Hears(a, b)
      BY <3>2 DEF Beside
    <3> DEFINE q == <<a, b>>
               p == <<b, a>>
    <3>6. q \in Wires /\ q[1] = a /\ q[2] = b
      BY <3>5 DEF Wires, Interfaces
    <3>7. p \in Wires
      BY <3>6, PlainFacts
    <3>8. NodeOf[p[1]] = m /\ NodeOf[p[2]] = n
      BY <3>5 DEF Interfaces
    <3> HIDE DEF p
    <3>9. Table(m) \in Tables /\ Table(n) \in Tables
      BY NodeParts DEF Table, DeamonType
    <3>10. Table(m)[to].cost \in Int /\ Table(m)[to].cost <= k - 1 /\ to \in DOMAIN Table(m)
      BY <3>4, <3>9, CostsAre
    <3>11. Table(m)[to].cost < INF_COST
      BY <2>6, <3>10
    <3>12. to \in DOMAIN Table(n) /\ Table(n)[to].cost <= Table(m)[to].cost + 1
      BY <3>7, <3>8, <3>10, <3>11, RestHop
    <3>13. Table(n)[to].cost \in Int
      BY <3>9, <3>12, CostsAre
    <3>14. Table(n)[to].cost <= k
      BY <2>6, <3>10, <3>12, <3>13
    <3> QED BY <2>5, <3>12, <3>14
  <2> QED BY <2>7, <2>8
<1> QED BY <1>1

\* As long as no link of a network failed and each answer comes before the next time-out
\* (failures = 0), its nodes may start at any moment, their
\* advertisements cross, and each announcement leaves out the neighbour it came from
\* (routing_deamon.cpp, receiveUpdateSock and sendAdvertisment): when the exchange is over,
\* no way costs more than the shortest walk there is.
THEOREM WaysShortCorrect == Spec => []WaysShort
<1>1. Calm => WaysShort
  BY RestShort DEF Calm, WaysShort
<1> QED BY <1>1, CalmHolds, PTL
=============================================================================
