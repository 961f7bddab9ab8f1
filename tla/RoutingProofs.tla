--------------------------- MODULE RoutingProofs ---------------------------
(***************************************************************************)
(* What the table of a routing_deamon keeps whatever its neighbours say,   *)
(* in every interleaving of its threads.                                   *)
(***************************************************************************)
EXTENDS RoutingNode, RoutingDeamonProofs

\* The fields of the records the proofs rely on.
DeamonShape(d) == "distance_vector_table" \in DOMAIN d

MainShape(m) == {"at", "msg"} \subseteq DOMAIN m

\* A message MIP_deamon may have written.
Heard(msg) ==
  \/ msg.option = "LOCAL_MIP" /\ msg.mip \in Local
  \/ msg.option \in {"ARP_DISCOVERY", "ARP_LOSTCONNECTION"} /\ msg.mip \in Remote
  \/ msg.option = "ADVERTISEMENT" /\ msg.mip \in Remote /\ msg.advert \in Adverts

\* The columns of a table: those of the node's own addresses stay what they
\* were at first, and no other is free.
Sound(t) ==
  /\ t \in Tables
  /\ \A to \in DOMAIN t : to \in Local => t[to] = [via |-> to, cost |-> 0]
  /\ \A to \in DOMAIN t : t[to].cost = 0 => to \in Local

\* The inductive invariant.
IInv ==
  /\ DeamonShape(daemon) /\ MainShape(main)
  /\ Sound(daemon.distance_vector_table)
  /\ arp \subseteq Remote
  /\ main.at = "table" =>
       Heard(main.msg) /\ (main.msg.option # "LOCAL_MIP" => Started)

\* What a change of the table may do to a column.
RaisedRightly(t, n) ==
  \A to \in DOMAIN t : n[to].cost > t[to].cost => n[to].via = t[to].via

(***************************************************************************)
(* The operations of the table.                                            *)
(***************************************************************************)

\* Adding a local address keeps a table sound.
LEMMA LocalMipSound ==
  ASSUME NEW t, Sound(t), NEW mip \in Local
  PROVE  Sound(addLocalMip(t, mip)) /\ RaisedRightly(t, addLocalMip(t, mip))
<1> DEFINE n == addLocalMip(t, mip)
<1>1. /\ DOMAIN t \subseteq MIPAddress /\ t \in [DOMAIN t -> Column] /\ mip \in MIPAddress
  BY TableShape, NodeAssumption DEF Sound
<1>2. DOMAIN n = DOMAIN t \cup {mip}
  BY DEF addLocalMip
<1>3. \A to \in DOMAIN n : n[to] = IF to = mip THEN [via |-> mip, cost |-> 0] ELSE t[to]
  BY DEF addLocalMip
<1>4. \A to \in DOMAIN n : n[to] \in Column
  BY <1>1, <1>2, <1>3, TableAssumption DEF Column, Cost
<1>5. n \in Tables
  <2>1. n \in [DOMAIN t \cup {mip} -> Column]
    BY <1>2, <1>4 DEF addLocalMip
  <2> QED
    BY <2>1, <1>1, IsTable
<1>6. \A to \in DOMAIN n : to \in Local => n[to] = [via |-> to, cost |-> 0]
  BY <1>2, <1>3 DEF Sound
<1>7. \A to \in DOMAIN n : n[to].cost = 0 => to \in Local
  BY <1>2, <1>3 DEF Sound
<1>8. RaisedRightly(t, n)
  BY <1>1, <1>2, <1>3 DEF RaisedRightly, Column, Cost
<1> QED
  BY <1>5, <1>6, <1>7, <1>8 DEF Sound

\* So does the discovery of a neighbour.
LEMMA ArpDiscoverySound ==
  ASSUME NEW t, Sound(t), NEW mip \in Remote
  PROVE  Sound(addArpDiscovery(t, mip)) /\ RaisedRightly(t, addArpDiscovery(t, mip))
<1> DEFINE n == addArpDiscovery(t, mip)
<1>1. /\ DOMAIN t \subseteq MIPAddress /\ t \in [DOMAIN t -> Column]
      /\ mip \in MIPAddress /\ mip \notin Local
  BY TableShape DEF Sound, Remote
<1>2. DOMAIN n = DOMAIN t \cup {mip}
  BY DEF addArpDiscovery
<1>3. \A to \in DOMAIN n : n[to] = IF to = mip THEN [via |-> mip, cost |-> 1] ELSE t[to]
  BY DEF addArpDiscovery, HOP_COST
<1>4. \A to \in DOMAIN n : n[to] \in Column
  BY <1>1, <1>2, <1>3, TableAssumption DEF Column, Cost, HOP_COST
<1>5. n \in Tables
  <2>1. n \in [DOMAIN t \cup {mip} -> Column]
    BY <1>2, <1>4 DEF addArpDiscovery
  <2> QED
    BY <2>1, <1>1, IsTable
<1>6. \A to \in DOMAIN n : to \in Local => n[to] = [via |-> to, cost |-> 0]
  BY <1>1, <1>2, <1>3 DEF Sound
<1>7. \A to \in DOMAIN n : n[to].cost = 0 => to \in Local
  BY <1>1, <1>2, <1>3 DEF Sound
<1>8. RaisedRightly(t, n)
  BY <1>1, <1>2, <1>3 DEF RaisedRightly, Column, Cost, Sound
<1> QED
  BY <1>5, <1>6, <1>7, <1>8 DEF Sound

\* So does the loss of one.
LEMMA ViaInfinitySound ==
  ASSUME NEW t, Sound(t), NEW via \in Remote
  PROVE  Sound(setViaInfinity(t, via)) /\ RaisedRightly(t, setViaInfinity(t, via))
<1> DEFINE n == setViaInfinity(t, via)
<1>1. DOMAIN t \subseteq MIPAddress /\ t \in [DOMAIN t -> Column] /\ via \notin Local
  BY TableShape DEF Sound, Remote
<1>2. DOMAIN n = DOMAIN t
  BY DEF setViaInfinity
<1>3. \A to \in DOMAIN n :
        \/ t[to].via # via /\ n[to] = t[to]
        \/ t[to].via = via /\ n[to] = [via |-> via, cost |-> INF_COST]
  BY <1>1 DEF setViaInfinity, Column
<1>4. \A to \in DOMAIN n : n[to] \in Column
  BY <1>1, <1>2, <1>3, TableAssumption DEF Column, Cost
<1>5. n \in Tables
  <2>1. n \in [DOMAIN t -> Column]
    BY <1>2, <1>4 DEF setViaInfinity
  <2> QED
    BY <2>1, <1>1, IsTable
<1>6. \A to \in DOMAIN n : to \in Local => n[to] = [via |-> to, cost |-> 0]
  BY <1>1, <1>2, <1>3 DEF Sound
<1>7. \A to \in DOMAIN n : n[to].cost = 0 => to \in Local
  BY <1>2, <1>3, TableAssumption DEF Sound, HOP_COST
<1>8. RaisedRightly(t, n)
  BY <1>1, <1>2, <1>3 DEF RaisedRightly, Column, Cost
<1> QED
  BY <1>5, <1>6, <1>7, <1>8 DEF Sound

\* So does any advertisement of another node, once the local addresses are in.
LEMMA UpdateSound ==
  ASSUME NEW t, Sound(t), Local \subseteq DOMAIN t,
         NEW sender \in Remote, NEW a \in Adverts
  PROVE  Sound(update(t, sender, a)) /\ RaisedRightly(t, update(t, sender, a))
<1> DEFINE n == update(t, sender, a)
<1>1. /\ DOMAIN t \subseteq MIPAddress /\ t \in [DOMAIN t -> Column]
      /\ sender \in MIPAddress /\ sender \notin Local
  BY TableShape DEF Sound, Remote
<1>2. DOMAIN n = DOMAIN t \cup DOMAIN a
  BY DEF update
<1>3. \A to \in DOMAIN n :
        \/ to \in DOMAIN t /\ n[to] = t[to]
        \/ /\ to \in Changed(t, sender, a) /\ to \in DOMAIN a
           /\ n[to] = [via |-> sender, cost |-> Through(a, to)]
  BY DEF update, Changed
<1>4. \A to \in DOMAIN a : Through(a, to) \in Cost /\ Through(a, to) > 0
  BY ThroughBounds
<1>5. \A to \in DOMAIN n : n[to] \in Column
  BY <1>1, <1>3, <1>4 DEF Column
<1>6. n \in Tables
  <2>1. n \in [DOMAIN t \cup DOMAIN a -> Column]
    BY <1>2, <1>5 DEF update
  <2> QED
    BY <2>1, <1>1, AdvertShape, IsTable
<1>7. \A to \in DOMAIN t : to \in Changed(t, sender, a) =>
        Through(a, to) < t[to].cost \/ sender = t[to].via
  BY DEF Changed
<1>8. \A to \in DOMAIN n : to \in Local => n[to] = [via |-> to, cost |-> 0]
  <2> SUFFICES ASSUME NEW to \in DOMAIN n, to \in Local
               PROVE  n[to] = [via |-> to, cost |-> 0]
    OBVIOUS
  <2>1. to \in DOMAIN t /\ t[to] = [via |-> to, cost |-> 0]
    BY DEF Sound
  <2>2. to \notin Changed(t, sender, a)
    <3> SUFFICES ASSUME to \in Changed(t, sender, a) PROVE FALSE
      OBVIOUS
    <3>1. to \in DOMAIN a
      BY DEF Changed
    <3>2. Through(a, to) < 0 \/ sender = to
      BY <1>7, <2>1
    <3> QED
      BY <3>1, <3>2, <1>1, <1>4 DEF Cost
  <2> QED
    BY <2>1, <2>2, <1>3
<1>9. \A to \in DOMAIN n : n[to].cost = 0 => to \in Local
  BY <1>3, <1>4 DEF Sound
<1>10. RaisedRightly(t, n)
  <2> SUFFICES ASSUME NEW to \in DOMAIN t, n[to].cost > t[to].cost
               PROVE  n[to].via = t[to].via
    BY DEF RaisedRightly
  <2>1. t[to].cost \in Nat
    BY <1>1 DEF Column, Cost
  <2>2. n[to] # t[to]
    BY <2>1
  <2>3. to \in Changed(t, sender, a) /\ to \in DOMAIN a /\ n[to] = [via |-> sender, cost |-> Through(a, to)]
    BY <2>2, <1>2, <1>3
  <2>4. Through(a, to) \in Nat
    BY <2>3, <1>4 DEF Cost
  <2> QED
    BY <2>1, <2>3, <2>4, <1>7
<1> QED
  BY <1>6, <1>8, <1>9, <1>10 DEF Sound

(***************************************************************************)
(* The handlers.                                                           *)
(***************************************************************************)

\* A change of the table keeps it sound, and leaves all else alone.
LEMMA ChangeTableSound ==
  ASSUME NEW d, DeamonShape(d), Sound(d.distance_vector_table), NEW msg, Heard(msg),
         msg.option # "LOCAL_MIP" => Local \subseteq DOMAIN d.distance_vector_table
  PROVE  /\ DeamonShape(changeTable(d, msg))
         /\ Sound(changeTable(d, msg).distance_vector_table)
         /\ RaisedRightly(d.distance_vector_table, changeTable(d, msg).distance_vector_table)
<1> DEFINE t == d.distance_vector_table
<1>1. /\ DeamonShape(changeTable(d, msg))
      /\ changeTable(d, msg).distance_vector_table = NewTable(t, msg)
  BY DEF changeTable, DeamonShape
<1>2. Sound(NewTable(t, msg)) /\ RaisedRightly(t, NewTable(t, msg))
  <2>1. CASE msg.option = "LOCAL_MIP"
    BY <2>1, LocalMipSound DEF Heard, NewTable
  <2>2. CASE msg.option = "ARP_DISCOVERY"
    BY <2>2, ArpDiscoverySound DEF Heard, NewTable
  <2>3. CASE msg.option = "ARP_LOSTCONNECTION"
    BY <2>3, ViaInfinitySound DEF Heard, NewTable
  <2>4. CASE msg.option = "ADVERTISEMENT"
    BY <2>4, UpdateSound DEF Heard, NewTable
  <2> QED
    BY <2>1, <2>2, <2>3, <2>4 DEF Heard
<1> QED
  BY <1>1, <1>2

\* The other operations on the globals leave the table alone.
LEMMA TableAlone ==
  ASSUME NEW d, DeamonShape(d)
  PROVE  /\ \A msg : /\ DeamonShape(changeNeighbours(d, msg))
                    /\ changeNeighbours(d, msg).distance_vector_table = d.distance_vector_table
         /\ \A x : /\ DeamonShape(addUpdateQueue(d, x))
                  /\ addUpdateQueue(d, x).distance_vector_table = d.distance_vector_table
         /\ \A x : /\ DeamonShape(receiveLookupSock(d, x))
                  /\ receiveLookupSock(d, x).distance_vector_table = d.distance_vector_table
         /\ DeamonShape(popUpdate(d)) /\ popUpdate(d).distance_vector_table = d.distance_vector_table
         /\ DeamonShape(stepWalk(d)) /\ stepWalk(d).distance_vector_table = d.distance_vector_table
         /\ DeamonShape(popLookup(d)) /\ popLookup(d).distance_vector_table = d.distance_vector_table
<1>1. \A msg : /\ DeamonShape(changeNeighbours(d, msg))
               /\ changeNeighbours(d, msg).distance_vector_table = d.distance_vector_table
  <2> TAKE msg
  <2>1. /\ DeamonShape(Enlist(d, msg.mip))
        /\ Enlist(d, msg.mip).distance_vector_table = d.distance_vector_table
    BY DEF DeamonShape, Enlist
  <2>2. /\ DeamonShape(Delist(d, msg.mip))
        /\ Delist(d, msg.mip).distance_vector_table = d.distance_vector_table
    BY DEF DeamonShape, Delist
  <2> QED
    BY <2>1, <2>2 DEF changeNeighbours
<1>2. \A x : /\ DeamonShape(addUpdateQueue(d, x))
             /\ addUpdateQueue(d, x).distance_vector_table = d.distance_vector_table
  BY DEF DeamonShape, addUpdateQueue
<1>3. \A x : /\ DeamonShape(receiveLookupSock(d, x))
             /\ receiveLookupSock(d, x).distance_vector_table = d.distance_vector_table
  BY DEF DeamonShape, receiveLookupSock
<1>4. /\ DeamonShape(popUpdate(d)) /\ popUpdate(d).distance_vector_table = d.distance_vector_table
      /\ DeamonShape(stepWalk(d)) /\ stepWalk(d).distance_vector_table = d.distance_vector_table
      /\ DeamonShape(popLookup(d)) /\ popLookup(d).distance_vector_table = d.distance_vector_table
  BY DEF DeamonShape, popUpdate, stepWalk, popLookup
<1> QED
  BY <1>1, <1>2, <1>3, <1>4

(***************************************************************************)
(* The steps.                                                              *)
(***************************************************************************)

\* At first the table is empty.
LEMMA InitInv == Init => IInv
<1> SUFFICES ASSUME Init PROVE IInv
  OBVIOUS
<1>1. EmptyTable \in Tables /\ DOMAIN EmptyTable = {}
  <2>1. EmptyTable \in [{} -> Column] /\ DOMAIN EmptyTable = {}
    BY DEF EmptyTable
  <2> QED
    BY <2>1, IsTable
<1>2. Sound(EmptyTable)
  BY <1>1 DEF Sound
<1> QED
  BY <1>2 DEF Init, IInv, NewDeamon, DeamonShape, MainShape, Waiting

\* Every step keeps the invariant, and raises a column rightly.
LEMMA NextInv ==
  ASSUME IInv, [Next]_vars
  PROVE  IInv' /\ RaisedRightly(daemon.distance_vector_table, daemon'.distance_vector_table)
<1> DEFINE t == daemon.distance_vector_table
<1> USE DEF IInv
\* A table that stays is raised rightly.
<1>0. RaisedRightly(t, t)
  <2>1. \A to \in DOMAIN t : t[to].cost \in Nat
    BY TableShape DEF Sound, Column, Cost
  <2> QED
    BY <2>1 DEF RaisedRightly
<1>1. ASSUME NEW msg \in Messages, ReadUpdate(msg)
      PROVE  IInv' /\ RaisedRightly(t, t')
  <2>1. Heard(msg) /\ (msg.option # "LOCAL_MIP" => Started) /\ arp' \subseteq Remote
    BY <1>1, NodeAssumption DEF ReadUpdate, LocalMessage, NeighbourMessage, Messages, Heard
  <2>2. CASE Ignored(daemon, msg)
    BY <1>0, <1>1, <2>1, <2>2 DEF ReadUpdate, Started
  <2>3. CASE ~Ignored(daemon, msg)
    <3>1. daemon' = changeNeighbours(daemon, msg)
          /\ main' = [at |-> "table", msg |-> msg, announcement |-> <<>>]
      BY <1>1, <2>3 DEF ReadUpdate
    <3>2. DeamonShape(daemon') /\ t' = t
      BY <3>1, TableAlone
    <3>3. MainShape(main') /\ main'.msg = msg
      BY <3>1 DEF MainShape
    <3> QED
      BY <1>0, <2>1, <3>2, <3>3 DEF Started
  <2> QED
    BY <2>2, <2>3
<1>2. ASSUME ChangeTable
      PROVE  IInv' /\ RaisedRightly(t, t')
  <2>1. /\ DeamonShape(daemon') /\ Sound(t') /\ RaisedRightly(t, t')
    BY <1>2, ChangeTableSound DEF ChangeTable, Started
  <2>2. MainShape(main') /\ main'.at = "queue"
    BY <1>2 DEF ChangeTable, MainShape
  <2> QED
    BY <1>2, <2>1, <2>2 DEF ChangeTable
<1>3. ASSUME QueueUpdate
      PROVE  IInv' /\ RaisedRightly(t, t')
  <2>1. DeamonShape(daemon') /\ t' = t
    BY <1>3, TableAlone DEF QueueUpdate
  <2>2. MainShape(main') /\ main'.at # "table"
    BY <1>3 DEF QueueUpdate, MainShape, Waiting
  <2> QED
    BY <1>0, <1>3, <2>1, <2>2 DEF QueueUpdate
<1>4. ASSUME NEW mip \in Remote, ReadLookup(mip)
      PROVE  IInv' /\ RaisedRightly(t, t')
  <2>1. DeamonShape(daemon') /\ t' = t
    BY <1>4, TableAlone DEF ReadLookup
  <2>2. MainShape(main') /\ main'.at # "table"
    BY <1>4 DEF ReadLookup, MainShape, Waiting
  <2> QED
    BY <1>0, <1>4, <2>1, <2>2 DEF ReadLookup
<1>5. ASSUME NotifyUpdate \/ NotifyLookup \/ Join \/ shutdownThreads
      PROVE  IInv' /\ RaisedRightly(t, t')
  <2>1. MainShape(main') /\ main'.at # "table"
    BY <1>5 DEF NotifyUpdate, NotifyLookup, Join, shutdownThreads, MainShape, Waiting
  <2>2. UNCHANGED <<daemon, arp>>
    BY <1>5 DEF NotifyUpdate, NotifyLookup, Join, shutdownThreads
  <2> QED
    BY <1>0, <2>1, <2>2
<1>6. ASSUME UpdateChecks \/ UpdateReads \/ UpdateSends \/ LookupChecks \/ Spurious
      PROVE  IInv' /\ RaisedRightly(t, t')
  <2>1. DeamonShape(daemon') /\ t' = t
    BY <1>6, TableAlone DEF UpdateChecks, UpdateReads, UpdateSends, LookupChecks, Spurious
  <2>2. UNCHANGED <<main, arp>>
    BY <1>6 DEF UpdateChecks, UpdateReads, UpdateSends, LookupChecks, Spurious
  <2> QED
    BY <1>0, <2>1, <2>2 DEF Started
<1>7. ASSUME UNCHANGED vars
      PROVE  IInv' /\ RaisedRightly(t, t')
  BY <1>0, <1>7 DEF vars, Started
<1> QED
  BY <1>1, <1>2, <1>3, <1>4, <1>5, <1>6, <1>7 DEF Next, MainContinues

\* Whatever its neighbours advertise and whenever its threads run, a node's own
\* addresses keep their column.
THEOREM RoutesCorrect == Spec => []LocalRoutes
<1>1. IInv => LocalRoutes
  BY DEF IInv, Sound, LocalRoutes, Started
<1>2. IInv /\ [Next]_vars => IInv'
  BY NextInv
<1> QED
  BY InitInv, <1>1, <1>2, PTL DEF Spec

\* A column gets worse only by word or loss of the neighbour it goes through.
THEOREM RaisesCorrect == Spec => RaisedByVia
<1>1. IInv /\ [Next]_vars => IInv'
  BY NextInv
<1>2. IInv /\ [Next]_vars =>
        [LET t == daemon.distance_vector_table
             n == daemon.distance_vector_table'
         IN  \A to \in DOMAIN t : n[to].cost > t[to].cost => n[to].via = t[to].via]_vars
  BY NextInv DEF RaisedRightly
<1> QED
  BY InitInv, <1>1, <1>2, PTL DEF Spec, RaisedByVia

(***************************************************************************)
(* That neighbours are told what the table says, although the update       *)
(* thread walks a list that changes under it.                              *)
(***************************************************************************)
TypesKept ==
  /\ daemon \in DeamonType
  /\ main.announcement \in Seq(SUBSET MIPAddress)
  /\ {"at", "msg", "announcement"} = DOMAIN main
  /\ update_thread \in {"check", "waiting", "walk", "send", "exit"}
  /\ lookup_thread \in {"check", "waiting", "exit"}
  /\ target \in MIPAddress /\ running \in BOOLEAN
  /\ told \in [MIPAddress -> Adverts]

\* A walk is under way only while the thread is at it.
StorageKept ==
  /\ Walking(daemon) => update_thread \in {"walk", "send"}
  /\ update_thread = "send" => Walking(daemon)
  /\ daemon.walk.next >= 1
  /\ StorageOK(daemon)

\* The local addresses come before any neighbour.
LocalsFirst ==
  /\ daemon.neighbour_mip_vec # <<>> => Started
  /\ main.at = "table" /\ main.msg.option = "LOCAL_MIP" => daemon.neighbour_mip_vec = <<>>

\* The list of neighbours changed, and all of them are to be told since.
AllPending ==
  \/ main.at = "table" /\ main.msg.option \in {"ARP_DISCOVERY", "ARP_LOSTCONNECTION"}
  \/ main.at = "queue" /\ main.announcement = <<{}>>
  \/ \E i \in 1..Len(daemon.update_queue) : daemon.update_queue[i] = {}

\* An update that does not leave x out is on its way to the update thread.
Pending(x) ==
  \/ AllPending
  \/ main.at = "queue"
     /\ \E i \in 1..Len(main.announcement) : x \notin main.announcement[i]
  \/ \E i \in 1..Len(daemon.update_queue) : x \notin daemon.update_queue[i]

\* The walk has yet to come to x.
WillSend(x) ==
  /\ Walking(daemon) /\ x \notin daemon.walk.exclude
  /\ \E i \in daemon.walk.next..daemon.walk.last : daemon.neighbour_mip_vec[i] = x

\* The neighbour x was told what table t says, but for what goes through x.
Knows(x, t, heard) ==
  \A to \in DOMAIN t : t[to].via # x => to \in DOMAIN heard /\ heard[to] = t[to].cost

\* The walk reads the neighbours, unless they changed and all are to be told.
WalkRight ==
  AllPending \/ ~Walking(daemon) \/
    /\ ~daemon.walk.freed /\ daemon.walk.last <= Len(daemon.neighbour_mip_vec)
    /\ update_thread = "send" => target = daemon.neighbour_mip_vec[daemon.walk.next]

Covered(x) ==
  Pending(x) \/ WillSend(x) \/ Knows(x, daemon.distance_vector_table, told[x])

ToldInv ==
  /\ TypesKept /\ StorageKept /\ LocalsFirst /\ WalkRight
  /\ \A x \in Neighbours(daemon) : Covered(x)

\* No change of a table gives up a column.
LEMMA TableGrows ==
  ASSUME NEW t, NEW msg, Heard(msg)
  PROVE  DOMAIN t \subseteq DOMAIN NewTable(t, msg)
BY DEF Heard, NewTable, addLocalMip, addArpDiscovery, setViaInfinity, update

\* Who is not told of an advertisement need not be: nothing has changed, or only
\* what goes through the one it came from.
LEMMA SenderKnows ==
  ASSUME NEW t, NEW sender, NEW a, NEW x, NEW heard, Knows(x, t, heard),
         Changed(t, sender, a) = {} \/ x = sender
  PROVE  Knows(x, update(t, sender, a), heard)
<1> DEFINE n == update(t, sender, a)
<1>1. \A to \in DOMAIN n :
        \/ to \in DOMAIN t /\ n[to] = t[to]
        \/ to \in Changed(t, sender, a) /\ n[to].via = sender
  BY DEF update, Changed
<1>2. \A to \in DOMAIN n : n[to].via # x => to \in DOMAIN t /\ n[to] = t[to]
  BY <1>1
<1> HIDE DEF n
<1>3. Knows(x, n, heard)
  BY <1>2 DEF Knows
<1> QED BY <1>3 DEF n

\* An advertisement tells a neighbour what it is to know.
LEMMA PackTells ==
  ASSUME NEW t \in Tables, NEW x
  PROVE  Knows(x, t, packAdvertisment(t, x)) /\ packAdvertisment(t, x) \in Adverts
<1> DEFINE K == {known \in DOMAIN t : t[known].via # x}
           a == packAdvertisment(t, x)
<1>1. a = [to \in K |-> t[to].cost]
  BY DEF packAdvertisment
<1>2. DOMAIN t \subseteq MIPAddress /\ \A to \in DOMAIN t : t[to].cost \in Cost
  BY TableShape DEF Column
<1>3. a \in [K -> Cost] /\ K \in SUBSET MIPAddress
  BY <1>1, <1>2
<1>4. a \in Adverts
  <2> HIDE DEF K, a
  <2> QED BY <1>3 DEF Adverts
<1>5. Knows(x, t, a)
  BY <1>1 DEF Knows
<1> QED BY <1>4, <1>5

\* What a message asks to be announced.
LEMMA AnnouncementOK ==
  ASSUME NEW t, NEW msg, Heard(msg)
  PROVE  /\ Announcement(t, msg) \in Seq(SUBSET MIPAddress)
         /\ msg.option \in {"ARP_DISCOVERY", "ARP_LOSTCONNECTION"} =>
              Announcement(t, msg) = <<{}>>
         /\ msg.option = "ADVERTISEMENT" /\ Changed(t, msg.mip, msg.advert) # {} =>
              Announcement(t, msg) = <<{msg.mip}>>
<1>1. msg.mip \in MIPAddress
  BY NodeAssumption DEF Heard, Remote
<1>2. <<>> \in Seq(SUBSET MIPAddress) /\ \A E \in SUBSET MIPAddress : <<E>> \in Seq(SUBSET MIPAddress)
  OBVIOUS
<1>3. {} \in SUBSET MIPAddress /\ {msg.mip} \in SUBSET MIPAddress
  BY <1>1
<1>4. Announcement(t, msg) \in {<<>>, <<{}>>, <<{msg.mip}>>}
  BY DEF Heard, Announcement
<1>5. Announcement(t, msg) \in Seq(SUBSET MIPAddress)
  BY <1>2, <1>3, <1>4
<1>6. msg.option \in {"ARP_DISCOVERY", "ARP_LOSTCONNECTION"} =>
        Announcement(t, msg) = <<{}>>
  BY DEF Announcement
<1>7. msg.option = "ADVERTISEMENT" /\ Changed(t, msg.mip, msg.advert) # {} =>
        Announcement(t, msg) = <<{msg.mip}>>
  BY DEF Announcement
<1> QED BY <1>5, <1>6, <1>7

(***************************************************************************)
(* The steps.                                                              *)
(***************************************************************************)
\* A step that leaves all but the lookup queue alone keeps who is covered.
SameNews ==
  /\ daemon'.distance_vector_table = daemon.distance_vector_table
  /\ daemon'.neighbour_mip_vec = daemon.neighbour_mip_vec
  /\ daemon'.spare = daemon.spare /\ daemon'.update_queue = daemon.update_queue
  /\ daemon'.walk = daemon.walk /\ told' = told

LEMMA ReadKeepsTold ==
  ASSUME ToldInv, IInv, NEW msg \in Messages, ReadUpdate(msg)
  PROVE  ToldInv'
<1> DEFINE arpMsg == msg.option \in {"ARP_DISCOVERY", "ARP_LOSTCONNECTION"}
<1>1. /\ main.at = "epoll" /\ UNCHANGED <<update_thread, target, lookup_thread, running, told>>
      /\ Heard(msg)
  BY NodeAssumption DEF IInv, ReadUpdate, LocalMessage, NeighbourMessage, Messages, Heard
<1>2. CASE Ignored(daemon, msg)
  <2>1. daemon' = daemon /\ main' = main
    BY <1>2 DEF ReadUpdate
  <2>2. TypesKept' /\ StorageKept' /\ LocalsFirst' /\ WalkRight'
    BY <1>1, <2>1 DEF ToldInv, TypesKept, StorageKept, StorageOK, Walking, LocalsFirst,
                      Started, WalkRight, AllPending
  <2>3. \A x \in Neighbours(daemon) : Covered(x)'
    BY <1>1, <2>1 DEF ToldInv, Covered, Pending, AllPending, WillSend, Walking, Knows
  <2> QED BY <2>1, <2>2, <2>3 DEF ToldInv
<1>3. CASE ~Ignored(daemon, msg)
  <2>1. /\ daemon' = changeNeighbours(daemon, msg)
        /\ main' = [at |-> "table", msg |-> msg, announcement |-> <<>>]
    BY <1>3 DEF ReadUpdate
  <2>2. /\ main'.at = "table" /\ main'.msg = msg /\ main'.announcement = <<>>
        /\ DOMAIN main' = {"at", "msg", "announcement"}
    BY <2>1
  <2>3. daemon \in DeamonType /\ StorageOK(daemon)
    BY DEF ToldInv, TypesKept, StorageKept
  <2>4. daemon' \in DeamonType /\ ListOnly(daemon, daemon') /\ StorageOK(daemon')
    <3>1. msg.mip \in MIPAddress
      BY <1>1, NodeAssumption DEF Heard, Remote
    <3> QED BY <1>3, <2>1, <2>3, <3>1, NeighboursOK
  <2>5. TypesKept'
    BY <1>1, <2>2, <2>4 DEF ToldInv, TypesKept
  <2>6. StorageKept'
    BY <1>1, <2>4 DEF ToldInv, StorageKept, StorageOK, Walking, ListOnly
  <2>7. CASE arpMsg
    <3>1. AllPending'
      BY <2>2, <2>7 DEF AllPending
    <3>2. Started'
      <4>1. Started
        BY <2>7 DEF ReadUpdate, NeighbourMessage
      <4> QED BY <2>4, <4>1 DEF Started, ListOnly
    <3>3. LocalsFirst' /\ WalkRight'
      BY <2>2, <2>7, <3>1, <3>2 DEF LocalsFirst, WalkRight
    <3>4. \A x : Covered(x)'
      BY <3>1 DEF Covered, Pending
    <3> QED BY <2>5, <2>6, <3>3, <3>4 DEF ToldInv
  <2>8. CASE ~arpMsg
    <3>1. daemon' = daemon
      BY <2>1, <2>8 DEF changeNeighbours
    <3>2. /\ AllPending' <=> AllPending
          /\ \A x : Pending(x)' <=> Pending(x)
      BY <1>1, <2>2, <2>8, <3>1 DEF AllPending, Pending
    <3>3. LocalsFirst'
      <4>1. msg.option = "LOCAL_MIP" => ~Started
        BY <2>8 DEF ReadUpdate, LocalMessage, NeighbourMessage, Started
      <4> QED BY <2>2, <3>1, <4>1 DEF ToldInv, LocalsFirst, Started
    <3>4. WalkRight'
      BY <1>1, <3>1, <3>2 DEF ToldInv, WalkRight, Walking
    <3>5. \A x \in Neighbours(daemon) : Covered(x)'
      BY <1>1, <3>1, <3>2 DEF ToldInv, Covered, WillSend, Walking, Knows
    <3> QED BY <2>5, <2>6, <3>1, <3>3, <3>4, <3>5 DEF ToldInv
  <2> QED BY <2>7, <2>8
<1> QED BY <1>2, <1>3

\* What changes in the table is announced to whom it concerns.
LEMMA TableKeepsTold ==
  ASSUME ToldInv, IInv, ChangeTable
  PROVE  ToldInv'
<1> DEFINE t   == daemon.distance_vector_table
           msg == main.msg
<1>1. /\ main.at = "table" /\ Heard(msg) /\ (msg.option # "LOCAL_MIP" => Started)
      /\ daemon \in DeamonType
  BY DEF ChangeTable, IInv, ToldInv, TypesKept
<1>2. /\ daemon' = [daemon EXCEPT !.distance_vector_table = NewTable(t, msg)]
      /\ main' = [main EXCEPT !.at = "queue", !.announcement = Announcement(t, msg)]
      /\ UNCHANGED <<update_thread, target, lookup_thread, running, told>>
  BY DEF ChangeTable, changeTable
<1>3. /\ main'.at = "queue" /\ main'.announcement = Announcement(t, msg)
      /\ DOMAIN main' = {"at", "msg", "announcement"}
  BY <1>2 DEF ToldInv, TypesKept
<1>4. /\ daemon'.distance_vector_table = NewTable(t, msg)
      /\ daemon'.neighbour_mip_vec = daemon.neighbour_mip_vec
      /\ daemon'.spare = daemon.spare /\ daemon'.update_queue = daemon.update_queue
      /\ daemon'.walk = daemon.walk
  BY <1>1, <1>2 DEF DeamonType
<1>5. NewTable(t, msg) \in Tables /\ DOMAIN t \subseteq DOMAIN NewTable(t, msg)
  <2>1. Sound(changeTable(daemon, msg).distance_vector_table)
    BY <1>1, ChangeTableSound DEF IInv, Started
  <2>2. changeTable(daemon, msg) = daemon'
    BY DEF ChangeTable
  <2> QED BY <1>1, <1>4, <2>1, <2>2, TableGrows DEF Sound
<1>6. TypesKept'
  <2>1. daemon' \in DeamonType
    BY <1>1, <1>2, <1>5 DEF DeamonType
  <2> HIDE DEF t, msg
  <2>2. main'.announcement \in Seq(SUBSET MIPAddress)
    BY <1>1, <1>3, AnnouncementOK
  <2> QED BY <1>2, <1>3, <2>1, <2>2 DEF ToldInv, TypesKept
<1>7. StorageKept' /\ LocalsFirst'
  BY <1>2, <1>3, <1>4, <1>5 DEF ToldInv, StorageKept, StorageOK, Walking, LocalsFirst, Started
<1>8. msg.option \in {"ARP_DISCOVERY", "ARP_LOSTCONNECTION"} => AllPending'
  BY <1>1, <1>3, AnnouncementOK DEF AllPending
<1>9. msg.option \notin {"ARP_DISCOVERY", "ARP_LOSTCONNECTION"} =>
        /\ AllPending => AllPending'
        /\ \A x : Pending(x) => Pending(x)'
  BY <1>1, <1>3, <1>4 DEF AllPending, Pending
<1> HIDE DEF t, msg
<1>10. WalkRight'
  BY <1>2, <1>4, <1>8, <1>9 DEF ToldInv, WalkRight, Walking
<1>11. ASSUME NEW x \in Neighbours(daemon)
       PROVE  Covered(x)'
  <2>0. Covered(x)
    BY DEF ToldInv
  <2>1. CASE msg.option \in {"ARP_DISCOVERY", "ARP_LOSTCONNECTION"}
    BY <1>8, <2>1 DEF Covered, Pending
  <2>2. CASE msg.option = "LOCAL_MIP"
    <3>1. daemon.neighbour_mip_vec = <<>>
      BY <1>1, <2>2 DEF ToldInv, LocalsFirst, msg
    <3> QED BY <3>1 DEF Neighbours
  <2>3. CASE msg.option = "ADVERTISEMENT"
    <3>1. CASE Pending(x) \/ WillSend(x)
      BY <1>4, <1>9, <2>3, <3>1 DEF Covered, WillSend, Walking
    <3>2. CASE Knows(x, t, told[x])
      <4>1. CASE Changed(t, msg.mip, msg.advert) = {} \/ x = msg.mip
        <5>1. Knows(x, update(t, msg.mip, msg.advert), told[x])
          BY <3>2, <4>1, SenderKnows
        <5>2. NewTable(t, msg) = update(t, msg.mip, msg.advert)
          BY <2>3 DEF NewTable
        <5>3. daemon'.distance_vector_table = update(t, msg.mip, msg.advert)
              /\ told'[x] = told[x]
          BY <1>2, <1>4, <5>2
        <5> QED BY <5>1, <5>3 DEF Covered, Knows
      <4>2. CASE Changed(t, msg.mip, msg.advert) # {} /\ x # msg.mip
        <5>1. main'.announcement = <<{msg.mip}>>
          BY <1>1, <1>3, <2>3, <4>2, AnnouncementOK
        <5>2. 1 \in 1..Len(main'.announcement) /\ x \notin main'.announcement[1]
          BY <4>2, <5>1
        <5> QED BY <1>3, <5>2 DEF Covered, Pending
      <4> QED BY <4>1, <4>2
    <3> QED BY <2>0, <3>1, <3>2 DEF Covered, t
  <2> QED BY <1>1, <2>1, <2>2, <2>3 DEF Heard
<1>12. Neighbours(daemon') = Neighbours(daemon)
  BY <1>4 DEF Neighbours
<1> QED BY <1>6, <1>7, <1>10, <1>11, <1>12 DEF ToldInv

\* Queueing an announcement keeps it on its way.
LEMMA QueueKeepsTold ==
  ASSUME ToldInv, QueueUpdate
  PROVE  ToldInv'
<1> DEFINE q == daemon.update_queue
           a == main.announcement
<1>1. /\ main.at = "queue" /\ daemon \in DeamonType
      /\ daemon' = [daemon EXCEPT !.update_queue = q \o a]
      /\ UNCHANGED <<update_thread, target, lookup_thread, running, told>>
      /\ main' \in {Waiting, [Waiting EXCEPT !.at = "notify_update"]}
  BY DEF QueueUpdate, addUpdateQueue, ToldInv, TypesKept
<1>2. /\ main'.at \notin {"queue", "table"} /\ main'.announcement = <<>>
      /\ DOMAIN main' = {"at", "msg", "announcement"}
  BY <1>1 DEF Waiting
<1>3. /\ daemon'.distance_vector_table = daemon.distance_vector_table
      /\ daemon'.neighbour_mip_vec = daemon.neighbour_mip_vec
      /\ daemon'.spare = daemon.spare /\ daemon'.update_queue = q \o a
      /\ daemon'.walk = daemon.walk
  BY <1>1 DEF DeamonType
<1>4. /\ q \in Seq(SUBSET MIPAddress) /\ a \in Seq(SUBSET MIPAddress)
      /\ q \o a \in Seq(SUBSET MIPAddress)
  BY <1>1 DEF DeamonType, ToldInv, TypesKept
<1>5. /\ \A i \in 1..Len(q) : i \in 1..Len(q \o a) /\ (q \o a)[i] = q[i]
      /\ \A i \in 1..Len(a) : Len(q) + i \in 1..Len(q \o a) /\ (q \o a)[Len(q) + i] = a[i]
  <2> HIDE DEF q, a
  <2> QED BY <1>4
<1>6. TypesKept' /\ StorageKept' /\ LocalsFirst'
  <2>1. daemon' \in DeamonType
    BY <1>1, <1>4 DEF DeamonType
  <2>2. <<>> \in Seq(SUBSET MIPAddress)
    OBVIOUS
  <2> QED BY <1>1, <1>2, <1>3, <2>1, <2>2 DEF ToldInv, TypesKept, StorageKept, StorageOK,
             Walking, LocalsFirst, Started
<1> DEFINE p == q \o a
<1> HIDE DEF p
<1>7. AllPending => AllPending'
  <2>1. CASE a = <<{}>>
    <3>1. 1 \in 1..Len(a) /\ a[1] = {}
      BY <2>1
    <3> QED BY <1>3, <1>5, <3>1 DEF AllPending
  <2>2. CASE a # <<{}>>
    BY <1>1, <1>3, <1>5, <2>2 DEF AllPending
  <2> QED BY <2>1, <2>2
<1>8. \A x : Pending(x) => Pending(x)'
  BY <1>3, <1>5, <1>7 DEF Pending
<1>9. WalkRight' /\ \A x \in Neighbours(daemon) : Covered(x)'
  BY <1>1, <1>3, <1>7, <1>8 DEF ToldInv, WalkRight, Covered, WillSend, Walking, Knows
<1>10. Neighbours(daemon') = Neighbours(daemon)
  BY <1>3 DEF Neighbours
<1> QED BY <1>6, <1>9, <1>10 DEF ToldInv

\* Lookups, notifications and the end concern no update.
LEMMA OthersKeepTold ==
  ASSUME ToldInv,
         \/ \E mip \in Remote : ReadLookup(mip)
         \/ NotifyUpdate \/ NotifyLookup \/ Join \/ shutdownThreads
         \/ LookupChecks \/ Spurious
  PROVE  ToldInv'
<1>1. SameNews /\ target' = target
  BY DEF SameNews, ToldInv, TypesKept, DeamonType, ReadLookup, receiveLookupSock,
         NotifyUpdate, NotifyLookup, Join, shutdownThreads, LookupChecks, popLookup, Spurious
<1>2. daemon' \in DeamonType
  <2>1. daemon \in DeamonType
    BY DEF ToldInv, TypesKept
  <2>2. daemon.lookup_queue \in Seq(MIPAddress)
    BY <2>1 DEF DeamonType
  <2>3. ASSUME NEW mip \in Remote, ReadLookup(mip) PROVE daemon' \in DeamonType
    <3>1. Append(daemon.lookup_queue, mip) \in Seq(MIPAddress)
      BY <2>2 DEF Remote
    <3> QED BY <2>1, <2>3, <3>1 DEF ReadLookup, receiveLookupSock, DeamonType
  <2>4. ASSUME LookupChecks PROVE daemon' \in DeamonType
    <3>1. daemon.lookup_queue # <<>> => Tail(daemon.lookup_queue) \in Seq(MIPAddress)
      BY <2>2
    <3> QED BY <2>1, <2>4, <3>1 DEF LookupChecks, popLookup, DeamonType
  <2> QED BY <2>1, <2>3, <2>4
          DEF NotifyUpdate, NotifyLookup, Join, shutdownThreads, Spurious
<1>3. /\ update_thread' \in {update_thread, "check"}
      /\ update_thread \in {"walk", "send"} => update_thread' = update_thread
  BY DEF ReadLookup, NotifyUpdate, NotifyLookup, Join, shutdownThreads, LookupChecks,
         Spurious, Woken
<1>4. lookup_thread' \in {"check", "waiting", "exit"} /\ running' \in BOOLEAN
  BY DEF ReadLookup, NotifyUpdate, NotifyLookup, Join, shutdownThreads, LookupChecks,
         Spurious, Woken, ToldInv, TypesKept
<1>5. \/ main' = main
      \/ /\ main.at \notin {"queue", "table"} /\ main'.at \notin {"queue", "table"}
         /\ main'.announcement = <<>> /\ DOMAIN main' = {"at", "msg", "announcement"}
  BY DEF ReadLookup, NotifyUpdate, NotifyLookup, Join, shutdownThreads, LookupChecks,
         Spurious, Waiting
<1>6. TypesKept'
  <2>1. <<>> \in Seq(SUBSET MIPAddress)
    OBVIOUS
  <2> QED BY <1>1, <1>2, <1>3, <1>4, <1>5, <2>1 DEF SameNews, ToldInv, TypesKept
<1>7. StorageKept' /\ LocalsFirst'
  BY <1>1, <1>3, <1>5
     DEF SameNews, ToldInv, TypesKept, StorageKept, StorageOK, Walking, LocalsFirst, Started
<1>8. (AllPending' <=> AllPending) /\ \A x : Pending(x) => Pending(x)'
  BY <1>1, <1>5 DEF SameNews, AllPending, Pending
<1>9. WalkRight'
  BY <1>1, <1>3, <1>8 DEF SameNews, ToldInv, StorageKept, WalkRight, Walking
<1>10. \A x \in Neighbours(daemon) : Covered(x)'
  BY <1>1, <1>8 DEF SameNews, ToldInv, Covered, WillSend, Walking, Knows
<1>11. Neighbours(daemon') = Neighbours(daemon)
  BY <1>1 DEF SameNews, Neighbours
<1> QED BY <1>6, <1>7, <1>9, <1>10, <1>11 DEF ToldInv

\* An entry of the queue becomes a walk over the list as it is then.
LEMMA CheckKeepsTold ==
  ASSUME ToldInv, UpdateChecks
  PROVE  ToldInv'
<1> DEFINE q == daemon.update_queue
           v == daemon.neighbour_mip_vec
<1>1. /\ daemon \in DeamonType /\ ~Walking(daemon) /\ update_thread = "check"
      /\ UNCHANGED <<main, target, lookup_thread, running, told>>
  BY DEF UpdateChecks, ToldInv, TypesKept, StorageKept
<1>2. CASE daemon' = daemon /\ update_thread' \in {"exit", "waiting"}
  <2>1. TypesKept' /\ StorageKept' /\ LocalsFirst' /\ WalkRight'
    BY <1>1, <1>2 DEF ToldInv, TypesKept, StorageKept, StorageOK, Walking, LocalsFirst,
                      Started, WalkRight, AllPending
  <2>2. \A x \in Neighbours(daemon) : Covered(x)'
    BY <1>1, <1>2 DEF ToldInv, Covered, Pending, AllPending, WillSend, Walking, Knows
  <2> QED BY <1>2, <2>1, <2>2 DEF ToldInv
<1>3. CASE q # <<>> /\ update_thread' = "walk" /\ daemon' = popUpdate(daemon)
  <2> DEFINE new == [exclude |-> Head(q), next |-> 1, last |-> Len(v), freed |-> FALSE]
  <2>1. daemon' = [daemon EXCEPT !.update_queue = Tail(q), !.walk = new]
    BY <1>3 DEF popUpdate
  <2>2. /\ q \in Seq(SUBSET MIPAddress) /\ v \in Seq(MIPAddress)
        /\ daemon.spare \in Seq(MIPAddress)
    BY <1>1 DEF DeamonType
  <2>3. /\ daemon'.distance_vector_table = daemon.distance_vector_table
        /\ daemon'.neighbour_mip_vec = v /\ daemon'.spare = daemon.spare
        /\ daemon'.update_queue = Tail(q) /\ daemon'.walk = new
    BY <1>1, <2>1 DEF DeamonType
  <2>4. daemon'.walk.exclude = Head(q) /\ daemon'.walk.next = 1
        /\ daemon'.walk.last = Len(v) /\ ~daemon'.walk.freed
    BY <2>3
  <2> HIDE DEF v
  <2>5. /\ Tail(q) \in Seq(SUBSET MIPAddress) /\ Head(q) \in SUBSET MIPAddress
        /\ \A i \in 1..Len(q) : i # 1 => i - 1 \in 1..Len(Tail(q)) /\ Tail(q)[i - 1] = q[i]
        /\ Head(q) = q[1]
    <3> HIDE DEF q
    <3> QED BY <1>3, <2>2
  <2> HIDE DEF q
  <2>6. TypesKept'
    <3>1. new \in [exclude : SUBSET MIPAddress, next : Nat, last : Nat, freed : BOOLEAN]
      BY <2>2, <2>5
    <3> HIDE DEF new
    <3>2. daemon' \in DeamonType
      BY <1>1, <2>1, <2>5, <3>1 DEF DeamonType
    <3> QED BY <1>1, <1>3, <3>2 DEF ToldInv, TypesKept
  <2>7. StorageKept' /\ LocalsFirst' /\ WalkRight'
    <3>1. Len(v) \in Nat /\ Len(daemon.spare) \in Nat
      BY <2>2
    <3>2. StorageKept'
      BY <1>3, <2>3, <2>4, <3>1 DEF StorageKept, StorageOK
    <3>3. LocalsFirst'
      BY <1>1, <2>3 DEF ToldInv, LocalsFirst, Started, v
    <3>4. WalkRight'
      BY <1>3, <2>3, <2>4, <3>1 DEF WalkRight
    <3> QED BY <3>2, <3>3, <3>4
  <2>8. ASSUME NEW x \in Neighbours(daemon) PROVE Covered(x)'
    <3>0. Covered(x) /\ ~WillSend(x)
      BY <1>1 DEF ToldInv, WillSend
    <3>1. PICK k \in 1..Len(v) : v[k] = x
      BY <2>2 DEF Neighbours, v
    <3>2. ASSUME x \notin Head(q) PROVE WillSend(x)'
      <4>1. Len(v) \in Nat /\ 1 <= Len(v)
        BY <2>2, <3>1
      <4>2. Walking(daemon)'
        BY <2>4, <4>1 DEF Walking
      <4>3. k \in daemon'.walk.next..daemon'.walk.last /\ daemon'.neighbour_mip_vec[k] = x
        BY <2>3, <2>4, <3>1
      <4> QED BY <2>4, <3>2, <4>2, <4>3 DEF WillSend
    <3>3. CASE Pending(x)
      <4>1. CASE \E i \in 1..Len(q) : x \notin q[i]
        <5>1. PICK i \in 1..Len(q) : x \notin q[i]
          BY <4>1
        <5>2. CASE i = 1
          BY <2>5, <3>2, <5>1, <5>2 DEF Covered
        <5>3. CASE i # 1
          BY <2>3, <2>5, <5>1, <5>3 DEF Covered, Pending
        <5> QED BY <5>2, <5>3
      <4>2. CASE ~\E i \in 1..Len(q) : x \notin q[i]
        BY <1>1, <3>3, <4>2 DEF Covered, Pending, AllPending, q
      <4> QED BY <4>1, <4>2
    <3>4. CASE Knows(x, daemon.distance_vector_table, told[x])
      BY <1>1, <2>3, <3>4 DEF Covered, Knows
    <3> QED BY <3>0, <3>3, <3>4 DEF Covered
  <2>9. Neighbours(daemon') = Neighbours(daemon)
    BY <2>3 DEF Neighbours, v
  <2> QED BY <2>6, <2>7, <2>8, <2>9 DEF ToldInv
<1> QED BY <1>1, <1>2, <1>3 DEF UpdateChecks

\* The walk reads a neighbour, unless all are to be told anyway.
LEMMA ReadsKeepsTold ==
  ASSUME ToldInv, UpdateReads
  PROVE  ToldInv'
<1> DEFINE w == daemon.walk
           v == daemon.neighbour_mip_vec
           spare == daemon.spare
<1>1. /\ daemon \in DeamonType /\ update_thread = "walk" /\ StorageOK(daemon)
      /\ UNCHANGED <<daemon, main, lookup_thread, running, told>>
  BY DEF UpdateReads, ToldInv, TypesKept, StorageKept
<1>2. /\ w.next \in Nat /\ w.last \in Nat /\ w.freed \in BOOLEAN /\ w.next >= 1
      /\ v \in Seq(MIPAddress) /\ spare \in Seq(MIPAddress)
  BY <1>1 DEF DeamonType, ToldInv, StorageKept
<1>3. \/ ~Walking(daemon) /\ update_thread' = "check" /\ target' = target
      \/ Walking(daemon) /\ update_thread' = "send" /\ target' \in Targets(daemon)
  BY DEF UpdateReads
<1>4. /\ Walking(daemon) => w.next <= w.last
      /\ Walking(daemon) /\ ~w.freed =>
           target' = (v \o spare)[w.next] /\ w.last <= Len(v) + Len(spare)
      /\ Walking(daemon) /\ w.freed => target' \in MIPAddress
      /\ Walking(daemon) /\ ~AllPending => ~w.freed /\ w.last <= Len(v)
  BY <1>1, <1>3 DEF Walking, Targets, StorageOK, ToldInv, WalkRight
<1> HIDE DEF w, v, spare
<1>5. /\ Walking(daemon) => target' \in MIPAddress
      /\ Walking(daemon) /\ ~AllPending => target' = v[w.next]
  BY <1>2, <1>4, SlotOK
<1>6. TypesKept'
  BY <1>1, <1>3, <1>5 DEF ToldInv, TypesKept
<1>7. StorageKept' /\ LocalsFirst'
  BY <1>1, <1>3 DEF ToldInv, StorageKept, StorageOK, Walking, LocalsFirst, Started
<1>8. (AllPending' <=> AllPending) /\ \A x : Pending(x)' <=> Pending(x)
  BY <1>1 DEF AllPending, Pending
<1>9. WalkRight'
  BY <1>1, <1>3, <1>5, <1>8 DEF ToldInv, WalkRight, Walking, w, v
<1>10. \A x \in Neighbours(daemon) : Covered(x)'
  BY <1>1, <1>8 DEF ToldInv, Covered, WillSend, Walking, Knows
<1> QED BY <1>1, <1>6, <1>7, <1>9, <1>10 DEF ToldInv

\* Who was read is told the table as it is now.
LEMMA SendKeepsTold ==
  ASSUME ToldInv, UpdateSends
  PROVE  ToldInv'
<1> DEFINE t == daemon.distance_vector_table
           w == daemon.walk
           pack == packAdvertisment(t, target)
           new == IF w.next = w.last THEN Idle ELSE [w EXCEPT !.next = w.next + 1]
<1>1. /\ daemon \in DeamonType /\ update_thread = "send" /\ Walking(daemon)
      /\ update_thread' = "walk" /\ target' = Nobody /\ target \in MIPAddress
      /\ UNCHANGED <<main, lookup_thread, running>>
      /\ told \in [MIPAddress -> Adverts] /\ w.next >= 1
  BY DEF UpdateSends, ToldInv, TypesKept, StorageKept
<1>2. /\ t \in Tables
      /\ w \in [exclude : SUBSET MIPAddress, next : Nat, last : Nat, freed : BOOLEAN]
      /\ daemon.neighbour_mip_vec \in Seq(MIPAddress) /\ daemon.spare \in Seq(MIPAddress)
  BY <1>1 DEF DeamonType
<1>3. /\ daemon' = [daemon EXCEPT !.walk = new]
      /\ daemon'.distance_vector_table = t
      /\ daemon'.neighbour_mip_vec = daemon.neighbour_mip_vec
      /\ daemon'.spare = daemon.spare /\ daemon'.update_queue = daemon.update_queue
      /\ daemon'.walk = new
  <2>1. daemon' = [daemon EXCEPT !.walk = new]
    BY DEF UpdateSends, stepWalk
  <2> QED BY <1>1, <2>1 DEF DeamonType
<1>4. told' = IF target \in w.exclude THEN told ELSE [told EXCEPT ![target] = pack]
  <2>1. CASE target \in w.exclude
    <3>1. Advertised(daemon, target) = <<>>
      BY <2>1 DEF Advertised
    <3> QED BY <2>1, <3>1 DEF UpdateSends
  <2>2. CASE target \notin w.exclude
    <3> DEFINE m == <<[dest |-> target, advert |-> pack]>>
    <3>1. Advertised(daemon, target) = m
      BY <2>2 DEF Advertised
    <3>2. m # <<>> /\ m[1].advert = pack
      OBVIOUS
    <3> HIDE DEF m
    <3>3. told' = [told EXCEPT ![target] = m[1].advert]
      BY <3>1, <3>2 DEF UpdateSends
    <3> QED BY <2>2, <3>2, <3>3
  <2> QED BY <2>1, <2>2
<1>5. Knows(target, t, pack) /\ pack \in Adverts
  BY <1>2, PackTells
<1>6. /\ w.next = w.last => new = Idle
      /\ w.next # w.last =>
           /\ new.exclude = w.exclude /\ new.next = w.next + 1 /\ new.last = w.last
           /\ new.freed = w.freed
      /\ new \in [exclude : SUBSET MIPAddress, next : Nat, last : Nat, freed : BOOLEAN]
  <2>1. Idle \in [exclude : SUBSET MIPAddress, next : Nat, last : Nat, freed : BOOLEAN]
    BY DEF Idle
  <2> HIDE DEF w
  <2>2. CASE w.next = w.last
    BY <2>1, <2>2
  <2>3. CASE w.next # w.last
    <3>1. new = [w EXCEPT !.next = w.next + 1] /\ w.next + 1 \in Nat
      BY <1>2, <2>3
    <3> HIDE DEF new
    <3> QED BY <1>2, <2>3, <3>1
  <2> QED BY <2>2, <2>3
<1>7. Idle.next = 1 /\ Idle.last = 0 /\ ~Idle.freed
  BY DEF Idle
<1> HIDE DEF pack, new
<1>8. TypesKept'
  <2>1. daemon' \in DeamonType
    BY <1>1, <1>3, <1>6 DEF DeamonType
  <2>2. told' \in [MIPAddress -> Adverts]
    BY <1>1, <1>4, <1>5
  <2>3. Nobody \in MIPAddress
    BY NodeAssumption DEF Nobody
  <2> QED BY <1>1, <2>1, <2>2, <2>3 DEF ToldInv, TypesKept
<1>9. StorageKept' /\ LocalsFirst'
  <2>1. LocalsFirst'
    BY <1>1, <1>3 DEF ToldInv, LocalsFirst, Started
  <2>2. new.next >= 1 /\ (Walking(daemon)' => new.last = w.last /\ new.freed = w.freed)
    BY <1>1, <1>2, <1>3, <1>6, <1>7 DEF Walking
  <2>3. StorageOK(daemon)'
    BY <1>1, <1>3, <2>2 DEF ToldInv, StorageKept, StorageOK
  <2> QED BY <1>1, <1>3, <2>1, <2>2, <2>3 DEF StorageKept
<1>10. (AllPending' <=> AllPending) /\ \A x : Pending(x)' <=> Pending(x)
  BY <1>1, <1>3 DEF AllPending, Pending
<1>11. WalkRight'
  BY <1>1, <1>3, <1>6, <1>7, <1>10 DEF ToldInv, WalkRight, Walking
<1>12. ASSUME NEW x \in Neighbours(daemon) PROVE Covered(x)'
  <2>0. Covered(x)
    BY DEF ToldInv
  <2>1. CASE Pending(x)
    BY <1>10, <2>1 DEF Covered
  <2>2. CASE ~Pending(x)
    <3>0. target = daemon.neighbour_mip_vec[w.next]
      BY <1>1, <2>2 DEF ToldInv, WalkRight, Pending
    <3>1. CASE x = target /\ x \notin w.exclude
      <4>1. told'[x] = pack
        BY <1>1, <1>4, <3>1
      <4> QED BY <1>3, <1>5, <3>1, <4>1 DEF Covered, Knows
    <3>2. CASE ~(x = target /\ x \notin w.exclude)
      <4>1. told'[x] = told[x]
        BY <1>1, <1>4, <3>2
      <4>2. WillSend(x) => WillSend(x)'
        <5> SUFFICES ASSUME WillSend(x) PROVE WillSend(x)'
          OBVIOUS
        <5>1. x \notin w.exclude
          BY DEF WillSend
        <5>2. PICK i \in w.next..w.last : daemon.neighbour_mip_vec[i] = x
          BY DEF WillSend
        <5>3. i # w.next
          BY <3>0, <3>2, <5>1, <5>2
        <5>4. w.next # w.last /\ i \in w.next + 1..w.last /\ w.next + 1 <= w.last
          BY <1>2, <5>2, <5>3
        <5> QED BY <1>3, <1>6, <5>1, <5>2, <5>4 DEF WillSend, Walking
      <4>3. Knows(x, t, told[x]) => Knows(x, daemon.distance_vector_table, told[x])'
        BY <1>3, <4>1 DEF Knows
      <4> QED BY <2>0, <2>2, <4>2, <4>3 DEF Covered
    <3> QED BY <3>1, <3>2
  <2> QED BY <2>1, <2>2
<1>13. Neighbours(daemon') = Neighbours(daemon)
  BY <1>3 DEF Neighbours
<1> QED BY <1>8, <1>9, <1>11, <1>12, <1>13 DEF ToldInv

LEMMA InitTold == Init => ToldInv
<1> SUFFICES ASSUME Init PROVE ToldInv
  OBVIOUS
<1>1. EmptyTable \in Tables /\ EmptyTable \in Adverts
  <2>1. EmptyTable \in [{} -> Column] /\ EmptyTable \in [{} -> Cost]
    BY DEF EmptyTable
  <2> QED BY <2>1, IsTable DEF Adverts
<1>2. Idle \in [exclude : SUBSET MIPAddress, next : Nat, last : Nat, freed : BOOLEAN]
  BY DEF Idle
<1>3. /\ <<>> \in Seq(MIPAddress) /\ <<>> \in Seq(SUBSET MIPAddress) /\ Len(<<>>) = 0
      /\ DOMAIN <<>> = {}
  OBVIOUS
<1>4. daemon \in DeamonType
  BY <1>1, <1>2, <1>3 DEF Init, NewDeamon, DeamonType
<1>5. /\ daemon.neighbour_mip_vec = <<>> /\ daemon.spare = <<>>
      /\ daemon.walk.next = 1 /\ daemon.walk.last = 0
  BY DEF Init, NewDeamon, Idle
<1>6. /\ main.at = "epoll" /\ main.announcement = <<>>
      /\ DOMAIN main = {"at", "msg", "announcement"}
  BY DEF Init, Waiting
<1>7. TypesKept
  <2>1. Nobody \in MIPAddress
    BY NodeAssumption DEF Nobody
  <2> QED BY <1>1, <1>3, <1>4, <1>6, <2>1 DEF Init, TypesKept
<1>8. StorageKept /\ LocalsFirst /\ WalkRight
  BY <1>5, <1>6 DEF Init, StorageKept, StorageOK, Walking, LocalsFirst, WalkRight
<1>9. Neighbours(daemon) = {}
  BY <1>3, <1>5 DEF Neighbours
<1> QED BY <1>7, <1>8, <1>9 DEF ToldInv

LEMMA NextTold ==
  ASSUME ToldInv, IInv, [Next]_vars
  PROVE  ToldInv'
<1>1. CASE UNCHANGED vars
  <2>1. TypesKept' /\ StorageKept' /\ LocalsFirst' /\ WalkRight'
    BY <1>1 DEF vars, ToldInv, TypesKept, StorageKept, StorageOK, Walking, LocalsFirst,
                Started, WalkRight, AllPending
  <2>2. \A x \in Neighbours(daemon) : Covered(x)'
    BY <1>1 DEF vars, ToldInv, Covered, Pending, AllPending, WillSend, Walking, Knows
  <2> QED BY <1>1, <2>1, <2>2 DEF vars, ToldInv
<1>2. CASE Next
  BY <1>2, ReadKeepsTold, TableKeepsTold, QueueKeepsTold, OthersKeepTold, CheckKeepsTold,
     ReadsKeepsTold, SendKeepsTold DEF Next, MainContinues
<1> QED BY <1>1, <1>2

LEMMA ToldInvCorrect == Spec => [](IInv /\ ToldInv)
<1>1. Init => IInv /\ ToldInv
  BY InitInv, InitTold
<1>2. IInv /\ ToldInv /\ [Next]_vars => IInv' /\ ToldInv'
  BY NextInv, NextTold
<1> QED BY <1>1, <1>2, PTL DEF Spec

\* The daemon keeps its types: what the update thread reads from storage that
\* another thread writes stays an address.
THEOREM TypeCorrect == Spec => []TypeOK
<1>1. IInv /\ ToldInv => TypeOK
  BY DEF IInv, ToldInv, TypesKept, DeamonType, TypeOK
<1> QED BY <1>1, ToldInvCorrect, PTL

\* Once the threads have nothing to do, each neighbour was last told what the
\* table says, although the update thread walks a list that changes under it
\* (sendAdvertisment without a lock, receiveUpdateSock meanwhile).
THEOREM NeighboursToldCorrect == Spec => []NeighboursTold
<1>1. ToldInv => NeighboursTold
  <2> SUFFICES ASSUME ToldInv, main.at = "epoll", daemon.update_queue = <<>>,
                      update_thread \in {"check", "waiting"},
                      NEW x \in Neighbours(daemon)
               PROVE  LET advert == packAdvertisment(daemon.distance_vector_table, x)
                      IN  \A to \in DOMAIN advert :
                            to \in DOMAIN told[x] /\ told[x][to] = advert[to]
    BY DEF NeighboursTold
  <2>1. ~Walking(daemon)
    BY DEF ToldInv, StorageKept
  <2>2. ~Pending(x) /\ ~WillSend(x)
    BY <2>1 DEF Pending, AllPending, WillSend
  <2>3. Knows(x, daemon.distance_vector_table, told[x])
    BY <2>2 DEF ToldInv, Covered
  <2> QED BY <2>3 DEF Knows, packAdvertisment
<1> QED BY <1>1, ToldInvCorrect, PTL
=============================================================================
