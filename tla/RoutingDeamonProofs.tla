-------------------------- MODULE RoutingDeamonProofs ------------------------
(***************************************************************************)
(* What the operations of the routing table and of the list of neighbours  *)
(* return: for one routing_deamon step by step (RoutingProofs), and for    *)
(* those of a whole network (NetworkProofs).                               *)
(***************************************************************************)
EXTENDS RoutingDeamon, NaturalsInduction, WellFoundedInduction, TLAPS

\* A function on addresses with columns for values is a table.
LEMMA IsTable ==
  ASSUME NEW K \in SUBSET MIPAddress, NEW f \in [K -> Column]
  PROVE  f \in Tables
BY DEF Tables

\* A table is such a function.
LEMMA TableShape ==
  ASSUME NEW t \in Tables
  PROVE  DOMAIN t \subseteq MIPAddress /\ t \in [DOMAIN t -> Column]
BY DEF Tables

\* An advertisement maps addresses to costs.
LEMMA AdvertShape ==
  ASSUME NEW a \in Adverts
  PROVE  DOMAIN a \subseteq MIPAddress /\ a \in [DOMAIN a -> Cost]
BY DEF Adverts

\* A way through a neighbour costs a hop at least.
LEMMA ThroughBounds ==
  ASSUME NEW a \in Adverts, NEW to \in DOMAIN a
  PROVE  Through(a, to) \in Cost /\ Through(a, to) > 0
BY AdvertShape, TableAssumption DEF Through, Cost, HOP_COST

DeamonType ==
  [distance_vector_table : Tables,
   neighbour_mip_vec     : Seq(MIPAddress),
   spare                 : Seq(MIPAddress),
   update_queue          : Seq(SUBSET MIPAddress),
   lookup_queue          : Seq(MIPAddress),
   walk : [exclude : SUBSET MIPAddress, next : Nat, last : Nat, freed : BOOLEAN]]

\* A walk reads what is in storage, unless that was replaced.
StorageOK(d) ==
  Walking(d) /\ ~d.walk.freed =>
    d.walk.last <= Len(d.neighbour_mip_vec) + Len(d.spare)

\* A set of numbers that is not empty has a least element.
LEMMA LeastNumber ==
  ASSUME NEW T, T \subseteq Nat, T # {}
  PROVE  \E x \in T : \A y \in T : x <= y
<1> DEFINE less == {ss \in Nat \X Nat : ss[1] < ss[2]}
<1>1. IsWellFoundedOn(less, Nat)
  BY NatLessThanWellFounded DEF OpToRel
<1>2. PICK x \in T : \A y \in T : <<y, x>> \notin less
  <2> HIDE DEF less
  <2> QED BY <1>1, WFMin, Zenon
<1>3. ASSUME NEW y \in T, y < x PROVE FALSE
  <2> DEFINE p == <<y, x>>
  <2>1. p \in Nat \X Nat /\ p[1] < p[2]
    BY <1>3
  <2>2. p \in less
    BY <2>1
  <2> QED BY <1>2, <2>2
<1> QED BY <1>3

\* What is in a sequence has a first place there.
LEMMA FirstPlace ==
  ASSUME NEW T, NEW v \in Seq(T), NEW x, \E i \in DOMAIN v : v[i] = x
  PROVE  \E i \in DOMAIN v : v[i] = x /\ \A j \in 1..i - 1 : v[j] # x
<1> DEFINE places == {i \in DOMAIN v : v[i] = x}
<1>1. places \subseteq Nat /\ places # {}
  OBVIOUS
<1>2. PICK i \in places : \A j \in places : i <= j
  <2> HIDE DEF places
  <2> QED BY <1>1, LeastNumber
<1>3. ASSUME NEW j \in 1..i - 1, v[j] = x PROVE FALSE
  <2>1. j \in places /\ ~(i <= j)
    BY <1>3
  <2> QED BY <1>2, <2>1
<1> QED BY <1>2, <1>3

\* Only the list of neighbours, its storage and the mark on the walk differ.
ListOnly(d, e) ==
  /\ e.distance_vector_table = d.distance_vector_table
  /\ e.update_queue = d.update_queue /\ e.lookup_queue = d.lookup_queue
  /\ e.walk.exclude = d.walk.exclude /\ e.walk.next = d.walk.next
  /\ e.walk.last = d.walk.last

\* What is added on one side and taken from the other leaves the sum.
LEMMA Moved ==
  ASSUME NEW m \in Nat, NEW n \in Nat
  PROVE  (m + 1) + (n - 1) = m + n /\ (m - 1) + (n + 1) = m + n
OBVIOUS

\* What a walk reads in a slot of the storage.
LEMMA SlotOK ==
  ASSUME NEW T, NEW p \in Seq(T), NEW q \in Seq(T), NEW n \in Nat, NEW last \in Nat,
         n >= 1, n <= last
  PROVE  /\ last <= Len(p) + Len(q) => (p \o q)[n] \in T
         /\ last <= Len(p) => (p \o q)[n] = p[n]
<1>1. /\ p \o q \in Seq(T) /\ Len(p \o q) = Len(p) + Len(q)
      /\ Len(p) \in Nat /\ Len(q) \in Nat
  OBVIOUS
<1>2. last <= Len(p) + Len(q) => n \in 1..Len(p \o q)
  BY <1>1
<1>3. last <= Len(p) => n \in 1..Len(p)
  BY <1>1
<1> QED BY <1>1, <1>2, <1>3

\* A new neighbour is stored without touching what a walk reads, or the walk is
\* marked.
LEMMA EnlistOK ==
  ASSUME NEW d \in DeamonType, NEW mip \in MIPAddress
  PROVE  /\ Enlist(d, mip) \in DeamonType /\ ListOnly(d, Enlist(d, mip))
         /\ StorageOK(d) => StorageOK(Enlist(d, mip))
<1> DEFINE v == d.neighbour_mip_vec
           e == Enlist(d, mip)
<1>1. v \in Seq(MIPAddress) /\ d.spare \in Seq(MIPAddress) /\ Len(v) \in Nat
  BY DEF DeamonType
<1>2. Append(v, mip) \in Seq(MIPAddress) /\ Len(Append(v, mip)) = Len(v) + 1
  BY <1>1
<1>3. CASE d.spare # <<>>
  <2>1. /\ Tail(d.spare) \in Seq(MIPAddress) /\ Len(Tail(d.spare)) = Len(d.spare) - 1
        /\ Len(d.spare) \in Nat
    BY <1>1, <1>3
  <2>2. e = [d EXCEPT !.neighbour_mip_vec = Append(v, mip), !.spare = Tail(d.spare)]
    BY <1>3 DEF Enlist
  <2> HIDE DEF e, v
  <2>3. /\ e \in DeamonType /\ ListOnly(d, e) /\ e.walk = d.walk
        /\ e.neighbour_mip_vec = Append(v, mip) /\ e.spare = Tail(d.spare)
    BY <1>2, <2>1, <2>2 DEF DeamonType, ListOnly
  <2>4. Len(e.neighbour_mip_vec) + Len(e.spare) = Len(d.neighbour_mip_vec) + Len(d.spare)
    <3>1. Len(e.neighbour_mip_vec) = Len(v) + 1 /\ Len(e.spare) = Len(d.spare) - 1
      BY <1>2, <2>1, <2>3
    <3> QED BY ONLY <1>1, <2>1, <3>1, Moved DEF v
  <2> QED BY <2>3, <2>4 DEF StorageOK, Walking, e
<1>4. CASE d.spare = <<>>
  <2> DEFINE fresh == [i \in 1..Len(v) - 1 |-> mip]
             freed == d.walk.freed \/ Walking(d)
  <2>1. fresh \in Seq(MIPAddress)
    <3>1. CASE Len(v) = 0
      <4>1. fresh = <<>>
        BY <3>1
      <4> QED BY <4>1
    <3>2. CASE Len(v) # 0
      <4>1. Len(v) - 1 \in Nat
        BY <1>1, <3>2
      <4> QED BY <4>1
    <3> QED BY <3>1, <3>2
  <2>2. /\ freed \in BOOLEAN
        /\ d.walk \in [exclude : SUBSET MIPAddress, next : Nat, last : Nat, freed : BOOLEAN]
    BY DEF Walking, DeamonType
  <2>3. e = [d EXCEPT !.neighbour_mip_vec = Append(v, mip), !.spare = fresh,
                      !.walk.freed = freed]
    BY <1>4 DEF Enlist
  <2> HIDE DEF e, v, fresh, freed
  <2>4. e.walk = [d.walk EXCEPT !.freed = freed]
    BY <2>3 DEF DeamonType
  <2>5. /\ e.walk \in [exclude : SUBSET MIPAddress, next : Nat, last : Nat, freed : BOOLEAN]
        /\ e.walk.exclude = d.walk.exclude /\ e.walk.next = d.walk.next
        /\ e.walk.last = d.walk.last /\ e.walk.freed = freed
    BY <2>2, <2>4
  <2>6. e \in DeamonType /\ ListOnly(d, e)
    BY <1>2, <2>1, <2>3, <2>5 DEF DeamonType, ListOnly
  <2>7. StorageOK(e)
    BY <2>5 DEF StorageOK, Walking, freed
  <2> QED BY <2>6, <2>7 DEF e
<1> QED BY <1>3, <1>4

\* A lost neighbour leaves its place, the storage stays.
LEMMA DelistOK ==
  ASSUME NEW d \in DeamonType, NEW mip \in Neighbours(d)
  PROVE  /\ Delist(d, mip) \in DeamonType /\ ListOnly(d, Delist(d, mip))
         /\ StorageOK(d) => StorageOK(Delist(d, mip))
<1> DEFINE v  == d.neighbour_mip_vec
           at == CHOOSE i \in DOMAIN v : v[i] = mip /\ \A j \in 1..i - 1 : v[j] # mip
           w  == SubSeq(v, 1, at - 1) \o SubSeq(v, at + 1, Len(v))
           sp == <<v[Len(v)]>> \o d.spare
           e  == Delist(d, mip)
<1>1. v \in Seq(MIPAddress) /\ d.spare \in Seq(MIPAddress) /\ Len(v) \in Nat
      /\ Len(d.spare) \in Nat
  BY DEF DeamonType
<1>2. \E i \in DOMAIN v : v[i] = mip
  BY DEF Neighbours
<1>3. at \in 1..Len(v)
  <2>1. \E i \in DOMAIN v : v[i] = mip /\ \A j \in 1..i - 1 : v[j] # mip
    BY <1>1, <1>2, FirstPlace
  <2>2. at \in DOMAIN v
    BY <2>1
  <2> HIDE DEF at
  <2> QED BY <1>1, <2>2
<1>4. e = [d EXCEPT !.neighbour_mip_vec = w, !.spare = sp]
  BY DEF Delist
<1> HIDE DEF e, at, v
<1>5. /\ SubSeq(v, 1, at - 1) \in Seq(MIPAddress) /\ Len(SubSeq(v, 1, at - 1)) = at - 1
      /\ SubSeq(v, at + 1, Len(v)) \in Seq(MIPAddress)
      /\ Len(SubSeq(v, at + 1, Len(v))) = Len(v) - at
  BY <1>1, <1>3
<1>6. w \in Seq(MIPAddress) /\ Len(w) = Len(v) - 1
  <2> DEFINE p == SubSeq(v, 1, at - 1)
             q == SubSeq(v, at + 1, Len(v))
  <2> HIDE DEF p, q
  <2>1. p \o q \in Seq(MIPAddress) /\ Len(p \o q) = Len(p) + Len(q)
    BY <1>5 DEF p, q
  <2>2. at - 1 + (Len(v) - at) = Len(v) - 1
    BY <1>1, <1>3
  <2> QED BY <1>5, <2>1, <2>2 DEF p, q
<1>7. sp \in Seq(MIPAddress) /\ Len(sp) = Len(d.spare) + 1
  BY <1>1, <1>3
<1> HIDE DEF w, sp
<1>8. /\ e \in DeamonType /\ ListOnly(d, e) /\ e.walk = d.walk
      /\ e.neighbour_mip_vec = w /\ e.spare = sp
  BY <1>4, <1>6, <1>7 DEF DeamonType, ListOnly
<1>9. Len(e.neighbour_mip_vec) + Len(e.spare) = Len(d.neighbour_mip_vec) + Len(d.spare)
  <2>1. Len(e.neighbour_mip_vec) = Len(v) - 1 /\ Len(e.spare) = Len(d.spare) + 1
    BY <1>6, <1>7, <1>8
  <2> QED BY ONLY <1>1, <2>1, Moved DEF v
<1> QED BY <1>8, <1>9 DEF StorageOK, Walking, e

\* The list a message changes stays a list of addresses.
LEMMA NeighboursOK ==
  ASSUME NEW d \in DeamonType, NEW msg, msg.mip \in MIPAddress, ~Ignored(d, msg)
  PROVE  /\ changeNeighbours(d, msg) \in DeamonType
         /\ ListOnly(d, changeNeighbours(d, msg))
         /\ StorageOK(d) => StorageOK(changeNeighbours(d, msg))
<1>1. CASE msg.option = "ARP_DISCOVERY"
  BY <1>1, EnlistOK DEF changeNeighbours
<1>2. CASE msg.option = "ARP_LOSTCONNECTION"
  BY <1>2, DelistOK DEF Ignored, changeNeighbours
<1>3. CASE msg.option \notin {"ARP_DISCOVERY", "ARP_LOSTCONNECTION"}
  BY <1>3 DEF ListOnly, changeNeighbours
<1> QED BY <1>1, <1>2, <1>3

\* A list without repetitions.
NoTwice(v) == \A i, j \in DOMAIN v : i # j => v[i] # v[j]

\* A new neighbour comes last.
LEMMA EnlistAdds ==
  ASSUME NEW d \in DeamonType, NEW mip \in MIPAddress
  PROVE  /\ Neighbours(Enlist(d, mip)) = Neighbours(d) \cup {mip}
         /\ NoTwice(d.neighbour_mip_vec) /\ mip \notin Neighbours(d) =>
              NoTwice(Enlist(d, mip).neighbour_mip_vec)
<1> DEFINE v == d.neighbour_mip_vec
           w == Append(v, mip)
<1>1. v \in Seq(MIPAddress) /\ Len(v) \in Nat /\ DOMAIN v = 1..Len(v)
  BY DEF DeamonType
<1>2. Enlist(d, mip).neighbour_mip_vec = w
  BY DEF Enlist, DeamonType
<1> HIDE DEF v
<1>3. /\ DOMAIN w = 1..Len(v) + 1 /\ w[Len(v) + 1] = mip
      /\ \A i \in 1..Len(v) : w[i] = v[i]
  BY <1>1
<1> HIDE DEF w
<1>4. Neighbours(Enlist(d, mip)) = {w[i] : i \in 1..Len(v) + 1}
  BY <1>2, <1>3 DEF Neighbours
<1>5. Neighbours(d) = {v[i] : i \in 1..Len(v)}
  BY <1>1 DEF Neighbours, v
<1>6. \A i \in 1..Len(v) + 1 : i \in 1..Len(v) \/ i = Len(v) + 1
  BY <1>1
<1>7. 1..Len(v) \subseteq 1..Len(v) + 1 /\ Len(v) + 1 \in 1..Len(v) + 1
  BY <1>1
<1>8. {w[i] : i \in 1..Len(v) + 1} = {v[i] : i \in 1..Len(v)} \cup {mip}
  BY <1>3, <1>6, <1>7
<1>9. ASSUME NoTwice(v), mip \notin Neighbours(d) PROVE NoTwice(w)
  BY <1>1, <1>3, <1>5, <1>6, <1>9 DEF NoTwice
<1> QED BY <1>2, <1>4, <1>5, <1>8, <1>9 DEF v

\* What is in the slots of two sequences, one behind the other.
LEMMA Joined ==
  ASSUME NEW T, NEW p \in Seq(T), NEW q \in Seq(T)
  PROVE  /\ p \o q \in Seq(T) /\ Len(p \o q) = Len(p) + Len(q)
         /\ \A i \in 1..Len(p) + Len(q) :
              (p \o q)[i] = IF i <= Len(p) THEN p[i] ELSE q[i - Len(p)]
OBVIOUS

\* A sequence without one of its slots has what was in the others.
LEMMA CutOut ==
  ASSUME NEW T, NEW v \in Seq(T), NEW at \in 1..Len(v)
  PROVE  LET w == SubSeq(v, 1, at - 1) \o SubSeq(v, at + 1, Len(v))
         IN  /\ w \in Seq(T) /\ Len(w) = Len(v) - 1
             /\ \A i \in 1..Len(v) - 1 : w[i] = v[IF i < at THEN i ELSE i + 1]
<1> DEFINE p == SubSeq(v, 1, at - 1)
           q == SubSeq(v, at + 1, Len(v))
<1>1. Len(v) \in Nat /\ at \in Nat
  OBVIOUS
<1>2. /\ p \in Seq(T) /\ Len(p) = at - 1 /\ \A i \in 1..at - 1 : p[i] = v[i]
      /\ q \in Seq(T) /\ Len(q) = Len(v) - at
      /\ \A i \in 1..Len(v) - at : q[i] = v[i + at]
  BY <1>1
<1> HIDE DEF p, q
<1>3. /\ p \o q \in Seq(T) /\ Len(p \o q) = Len(p) + Len(q)
      /\ \A i \in 1..Len(p) + Len(q) :
           (p \o q)[i] = IF i <= Len(p) THEN p[i] ELSE q[i - Len(p)]
  BY <1>2, Joined
<1>4. Len(p) + Len(q) = Len(v) - 1
  BY <1>1, <1>2
<1>5. ASSUME NEW i \in 1..Len(v) - 1 PROVE (p \o q)[i] = v[IF i < at THEN i ELSE i + 1]
  <2>1. CASE i < at
    <3>1. i <= Len(p) /\ i \in 1..at - 1 /\ i \in 1..Len(p) + Len(q)
      BY <1>1, <1>2, <1>4, <2>1
    <3> QED BY <1>2, <1>3, <2>1, <3>1
  <2>2. CASE ~(i < at)
    <3>1. /\ ~(i <= Len(p)) /\ i - Len(p) \in 1..Len(v) - at /\ i \in 1..Len(p) + Len(q)
          /\ i - Len(p) + at = i + 1
      BY <1>1, <1>2, <1>4, <2>2
    <3> QED BY <1>2, <1>3, <2>2, <3>1
  <2> QED BY <2>1, <2>2
<1> QED BY <1>3, <1>4, <1>5 DEF p, q

\* A lost neighbour is listed no more, if it was listed once.
LEMMA DelistRemoves ==
  ASSUME NEW d \in DeamonType, NEW mip \in Neighbours(d), NoTwice(d.neighbour_mip_vec)
  PROVE  /\ Neighbours(Delist(d, mip)) = Neighbours(d) \ {mip}
         /\ NoTwice(Delist(d, mip).neighbour_mip_vec)
<1> DEFINE v  == d.neighbour_mip_vec
           at == CHOOSE i \in DOMAIN v : v[i] = mip /\ \A j \in 1..i - 1 : v[j] # mip
           w  == SubSeq(v, 1, at - 1) \o SubSeq(v, at + 1, Len(v))
           from(i) == IF i < at THEN i ELSE i + 1
<1>1. v \in Seq(MIPAddress) /\ Len(v) \in Nat /\ DOMAIN v = 1..Len(v)
  BY DEF DeamonType
<1>2. at \in 1..Len(v) /\ v[at] = mip
  <2>1. \E i \in DOMAIN v : v[i] = mip /\ \A j \in 1..i - 1 : v[j] # mip
    BY <1>1, FirstPlace DEF Neighbours
  <2>2. at \in DOMAIN v /\ v[at] = mip
    BY <2>1
  <2> HIDE DEF at
  <2> QED BY <1>1, <2>2
<1>3. Delist(d, mip).neighbour_mip_vec = w
  BY DEF Delist, DeamonType
<1> HIDE DEF at, v
<1>4. w \in Seq(MIPAddress) /\ Len(w) = Len(v) - 1 /\ \A i \in 1..Len(v) - 1 : w[i] = v[from(i)]
  BY <1>1, <1>2, CutOut
<1> HIDE DEF w
<1>5. DOMAIN w = 1..Len(v) - 1
  BY <1>1, <1>2, <1>4
<1>6. \A i \in 1..Len(v) - 1 : from(i) \in 1..Len(v) /\ from(i) # at
  BY <1>1, <1>2
<1>7. \A i, j \in 1..Len(v) - 1 : i # j => from(i) # from(j)
  BY <1>1, <1>2
<1>8. \A k \in 1..Len(v) : k # at => \E i \in 1..Len(v) - 1 : from(i) = k
  <2> TAKE k \in 1..Len(v)
  <2> HAVE k # at
  <2>1. CASE k < at
    <3>1. k \in 1..Len(v) - 1 /\ from(k) = k
      BY <1>1, <1>2, <2>1
    <3> QED BY <3>1
  <2>2. CASE ~(k < at)
    <3>1. k - 1 \in 1..Len(v) - 1 /\ from(k - 1) = k
      BY <1>1, <1>2, <2>2
    <3> QED BY <3>1
  <2> QED BY <2>1, <2>2
<1> HIDE DEF from
<1>9. Neighbours(d) = {v[i] : i \in 1..Len(v)}
  BY <1>1 DEF Neighbours, v
<1>10. Neighbours(Delist(d, mip)) = {w[i] : i \in 1..Len(v) - 1}
  BY <1>3, <1>5 DEF Neighbours
<1>11. \A k \in 1..Len(v) : k # at => v[k] # mip
  BY <1>1, <1>2 DEF NoTwice, v
<1>12. {w[i] : i \in 1..Len(v) - 1} = {v[i] : i \in 1..Len(v)} \ {mip}
  <2>1. ASSUME NEW i \in 1..Len(v) - 1
        PROVE  w[i] \in {v[k] : k \in 1..Len(v)} /\ w[i] # mip
    BY <1>4, <1>6, <1>11
  <2>2. ASSUME NEW k \in 1..Len(v), v[k] # mip
        PROVE  \E i \in 1..Len(v) - 1 : w[i] = v[k]
    BY <1>2, <1>4, <1>8, <2>2
  <2> QED BY <2>1, <2>2
<1>13. NoTwice(w)
  <2> SUFFICES ASSUME NEW i \in 1..Len(v) - 1, NEW j \in 1..Len(v) - 1, i # j
               PROVE  w[i] # w[j]
    BY <1>5 DEF NoTwice
  <2>1. v[from(i)] # v[from(j)]
    BY <1>1, <1>6, <1>7 DEF NoTwice, v
  <2> QED BY <1>4, <2>1
<1> QED BY <1>3, <1>9, <1>10, <1>12, <1>13

(***************************************************************************)
(* The handlers.                                                           *)
(***************************************************************************)
\* The messages of MIP_deamon.
Update ==
  [option : {"LOCAL_MIP", "ARP_DISCOVERY", "ARP_LOSTCONNECTION"}, mip : MIPAddress]
  \cup [option : {"ADVERTISEMENT"}, mip : MIPAddress, advert : Adverts]

\* The neighbours after a message, if they were S before it.
Learnt(S, msg) ==
  CASE msg.option = "ARP_DISCOVERY"      -> S \cup {msg.mip}
    [] msg.option = "ARP_LOSTCONNECTION" -> S \ {msg.mip}
    [] OTHER                             -> S

\* What every message tells.
LEMMA UpdateShape ==
  ASSUME NEW msg \in Update
  PROVE  /\ msg.mip \in MIPAddress
         /\ msg.option \in {"LOCAL_MIP", "ARP_DISCOVERY", "ARP_LOSTCONNECTION", "ADVERTISEMENT"}
         /\ msg.option = "ADVERTISEMENT" => msg.advert \in Adverts
BY DEF Update

\* Every change of a table makes a table.
LEMMA NewTableOK ==
  ASSUME NEW t \in Tables, NEW msg \in Update
  PROVE  NewTable(t, msg) \in Tables
<1> DEFINE sender == msg.mip
<1>1. DOMAIN t \subseteq MIPAddress /\ \A to \in DOMAIN t : t[to] \in Column
  BY TableShape
<1>2. /\ sender \in MIPAddress /\ 0 \in Cost /\ HOP_COST \in Cost /\ INF_COST \in Cost
  BY UpdateShape, TableAssumption DEF Cost, HOP_COST
<1> HIDE DEF sender
<1>3. addLocalMip(t, sender) \in Tables
  <2>1. addLocalMip(t, sender) \in [DOMAIN t \cup {sender} -> Column]
    BY <1>1, <1>2 DEF addLocalMip, Column
  <2> QED BY <1>1, <1>2, <2>1, IsTable
<1>4. addArpDiscovery(t, sender) \in Tables
  <2>1. addArpDiscovery(t, sender) \in [DOMAIN t \cup {sender} -> Column]
    BY <1>1, <1>2 DEF addArpDiscovery, Column
  <2> QED BY <1>1, <1>2, <2>1, IsTable
<1>5. setViaInfinity(t, sender) \in Tables
  <2>1. setViaInfinity(t, sender) \in [DOMAIN t -> Column]
    BY <1>1, <1>2 DEF setViaInfinity, Column
  <2> QED BY <1>1, <2>1, IsTable
<1>6. ASSUME NEW a \in Adverts PROVE update(t, sender, a) \in Tables
  <2>1. DOMAIN a \subseteq MIPAddress /\ \A to \in DOMAIN a : Through(a, to) \in Cost
    BY AdvertShape, ThroughBounds
  <2>2. \A to \in DOMAIN t \cup DOMAIN a : to \notin Changed(t, sender, a) => to \in DOMAIN t
    BY DEF Changed
  <2>3. Changed(t, sender, a) \subseteq DOMAIN a
    BY DEF Changed
  <2>4. update(t, sender, a) \in [DOMAIN t \cup DOMAIN a -> Column]
    BY <1>1, <1>2, <2>1, <2>2, <2>3 DEF update, Column
  <2> QED BY <1>1, <2>1, <2>4, IsTable
<1> QED BY <1>3, <1>4, <1>5, <1>6, UpdateShape DEF NewTable, sender

\* What is advertised is an advertisement.
LEMMA PackOK ==
  ASSUME NEW t \in Tables, NEW dest
  PROVE  packAdvertisment(t, dest) \in Adverts
<1> DEFINE K == {known \in DOMAIN t : t[known].via # dest}
<1>1. K \in SUBSET MIPAddress /\ \A to \in K : t[to].cost \in Cost
  BY TableShape DEF Column
<1>2. packAdvertisment(t, dest) \in [K -> Cost]
  BY <1>1 DEF packAdvertisment
<1> HIDE DEF K
<1> QED BY <1>1, <1>2 DEF Adverts

\* The record, but for the walk and the list a list of it.
Same(d, e) ==
  /\ e \in DeamonType /\ e.lookup_queue = d.lookup_queue
  /\ e.neighbour_mip_vec = d.neighbour_mip_vec
  /\ e.distance_vector_table = d.distance_vector_table

\* What is queued for the update thread.
LEMMA AnnouncementType ==
  ASSUME NEW t, NEW msg \in Update
  PROVE  Announcement(t, msg) \in Seq(SUBSET MIPAddress)
<1>1. /\ <<>> \in Seq(SUBSET MIPAddress) /\ <<{}>> \in Seq(SUBSET MIPAddress)
      /\ <<{msg.mip}>> \in Seq(SUBSET MIPAddress)
  BY UpdateShape
<1>2. CASE msg.option = "LOCAL_MIP"
  BY <1>1, <1>2 DEF Announcement
<1>3. CASE msg.option = "ADVERTISEMENT"
  <2>1. CASE Changed(t, msg.mip, msg.advert) = {}
    BY <1>1, <1>3, <2>1 DEF Announcement
  <2>2. CASE Changed(t, msg.mip, msg.advert) # {}
    BY <1>1, <1>3, <2>2 DEF Announcement
  <2> QED BY <2>1, <2>2
<1>4. CASE msg.option \in {"ARP_DISCOVERY", "ARP_LOSTCONNECTION"}
  BY <1>1, <1>4 DEF Announcement
<1> QED BY <1>2, <1>3, <1>4, UpdateShape

\* The list after a message.
LEMMA ListAfter ==
  ASSUME NEW d \in DeamonType, NoTwice(d.neighbour_mip_vec), NEW msg \in Update,
         ~Ignored(d, msg)
  PROVE  /\ NoTwice(changeNeighbours(d, msg).neighbour_mip_vec)
         /\ Neighbours(changeNeighbours(d, msg)) = Learnt(Neighbours(d), msg)
<1>1. CASE msg.option = "ARP_DISCOVERY"
  BY <1>1, EnlistAdds, UpdateShape DEF changeNeighbours, Ignored, Learnt
<1>2. CASE msg.option = "ARP_LOSTCONNECTION"
  BY <1>2, DelistRemoves DEF changeNeighbours, Ignored, Learnt
<1>3. CASE msg.option \notin {"ARP_DISCOVERY", "ARP_LOSTCONNECTION"}
  BY <1>3 DEF changeNeighbours, Learnt
<1> QED BY <1>1, <1>2, <1>3

\* The whole of receiveUpdateSock: the list follows the messages.
LEMMA UpdateHandled ==
  ASSUME NEW d \in DeamonType, StorageOK(d), NoTwice(d.neighbour_mip_vec),
         NEW msg \in Update
  PROVE  LET e == receiveUpdateSock(d, msg)
         IN  /\ e \in DeamonType /\ StorageOK(e) /\ NoTwice(e.neighbour_mip_vec)
             /\ e.lookup_queue = d.lookup_queue /\ e.walk.next = d.walk.next
             /\ Neighbours(e) = Learnt(Neighbours(d), msg)
             /\ \/ e.distance_vector_table = d.distance_vector_table
                \/ e.distance_vector_table = NewTable(d.distance_vector_table, msg)
<1>1. CASE Ignored(d, msg)
  <2>1. Neighbours(d) = Learnt(Neighbours(d), msg)
    BY <1>1 DEF Ignored, Learnt
  <2> QED BY <1>1, <2>1 DEF receiveUpdateSock
<1>2. CASE ~Ignored(d, msg)
  <2> DEFINE c == changeNeighbours(d, msg)
             n == Announcement(d.distance_vector_table, msg)
             e == receiveUpdateSock(d, msg)
  <2>1. c \in DeamonType /\ ListOnly(d, c) /\ StorageOK(c)
    BY <1>2, NeighboursOK, UpdateShape
  <2>2. NoTwice(c.neighbour_mip_vec) /\ Neighbours(c) = Learnt(Neighbours(d), msg)
    BY <1>2, ListAfter
  <2>3. e = addUpdateQueue(changeTable(c, msg), n)
    BY <1>2 DEF receiveUpdateSock
  <2>4. NewTable(c.distance_vector_table, msg) \in Tables /\ n \in Seq(SUBSET MIPAddress)
    BY <2>1, NewTableOK, AnnouncementType DEF DeamonType
  <2> HIDE DEF c, n, e
  <2>5. c.update_queue \o n \in Seq(SUBSET MIPAddress)
    BY <2>1, <2>4 DEF DeamonType
  <2>6. /\ e \in DeamonType /\ e.neighbour_mip_vec = c.neighbour_mip_vec
        /\ e.spare = c.spare /\ e.walk = c.walk /\ e.lookup_queue = c.lookup_queue
        /\ e.distance_vector_table = NewTable(c.distance_vector_table, msg)
    BY <2>1, <2>3, <2>4, <2>5 DEF addUpdateQueue, changeTable, DeamonType
  <2>7. StorageOK(e) /\ Neighbours(e) = Neighbours(c)
    BY <2>1, <2>6 DEF StorageOK, Walking, Neighbours
  <2> QED BY <2>1, <2>2, <2>6, <2>7 DEF ListOnly, e
<1> QED BY <1>1, <1>2

\* A walk starts with the whole list.
LEMMA WalkStarts ==
  ASSUME NEW d \in DeamonType, d.update_queue # <<>>
  PROVE  /\ Same(d, popUpdate(d)) /\ StorageOK(popUpdate(d))
         /\ popUpdate(d).walk.next >= 1
<1> DEFINE w == [exclude |-> Head(d.update_queue), next |-> 1,
                 last |-> Len(d.neighbour_mip_vec), freed |-> FALSE]
           e == popUpdate(d)
<1>1. /\ d.update_queue \in Seq(SUBSET MIPAddress) /\ d.spare \in Seq(MIPAddress)
      /\ d.neighbour_mip_vec \in Seq(MIPAddress)
  BY DEF DeamonType
<1>2. /\ Tail(d.update_queue) \in Seq(SUBSET MIPAddress)
      /\ Head(d.update_queue) \in SUBSET MIPAddress
      /\ Len(d.neighbour_mip_vec) \in Nat /\ Len(d.spare) \in Nat
  BY <1>1
<1>3. w \in [exclude : SUBSET MIPAddress, next : Nat, last : Nat, freed : BOOLEAN]
  BY <1>2
<1>4. /\ e = [d EXCEPT !.update_queue = Tail(d.update_queue), !.walk = w]
      /\ w.next = 1 /\ w.last = Len(d.neighbour_mip_vec)
  BY DEF popUpdate
<1> HIDE DEF w, e
<1>5. /\ Same(d, e) /\ e.walk = w /\ e.spare = d.spare
      /\ e.neighbour_mip_vec = d.neighbour_mip_vec
  BY <1>2, <1>3, <1>4 DEF DeamonType, Same
<1>6. e.walk.last <= Len(e.neighbour_mip_vec) + Len(e.spare)
  <2> DEFINE m == Len(d.neighbour_mip_vec)
             n == Len(d.spare)
  <2>1. m \in Nat /\ n \in Nat
    BY <1>2
  <2>2. e.walk.last = m /\ Len(e.neighbour_mip_vec) = m /\ Len(e.spare) = n
    BY <1>4, <1>5
  <2> HIDE DEF m, n
  <2>3. m <= m + n
    BY ONLY <2>1
  <2> QED BY <2>2, <2>3
<1>7. e.walk.next >= 1
  BY <1>4, <1>5
<1> QED BY <1>5, <1>6, <1>7 DEF StorageOK, e

\* A walk goes on by one slot, or is over.
LEMMA WalkGoesOn ==
  ASSUME NEW d \in DeamonType, StorageOK(d), d.walk.next >= 1, Walking(d)
  PROVE  /\ Same(d, stepWalk(d)) /\ StorageOK(stepWalk(d))
         /\ stepWalk(d).walk.next >= 1
<1> DEFINE W == [exclude : SUBSET MIPAddress, next : Nat, last : Nat, freed : BOOLEAN]
           w == IF d.walk.next = d.walk.last THEN Idle
                ELSE [d.walk EXCEPT !.next = d.walk.next + 1]
           e == stepWalk(d)
<1>1. d.walk \in W /\ Idle \in W
  BY DEF DeamonType, Idle
<1>2. /\ w \in W /\ w.next >= 1
      /\ w.next <= w.last => w.last = d.walk.last /\ w.freed = d.walk.freed
  <2>1. CASE d.walk.next = d.walk.last
    <3>1. w = Idle
      BY <2>1
    <3> QED BY <1>1, <3>1 DEF Idle
  <2>2. CASE d.walk.next # d.walk.last
    <3>1. w = [d.walk EXCEPT !.next = d.walk.next + 1]
      BY <2>2
    <3>2. d.walk.next + 1 \in Nat /\ d.walk.next + 1 >= 1
      BY <1>1
    <3> QED BY <1>1, <3>1, <3>2
  <2> QED BY <2>1, <2>2
<1>3. e = [d EXCEPT !.walk = w]
  BY DEF stepWalk
<1> HIDE DEF w, e
<1>4. Same(d, e) /\ e.walk = w /\ e.spare = d.spare /\ e.neighbour_mip_vec = d.neighbour_mip_vec
  BY <1>2, <1>3 DEF DeamonType, Same
<1>5. StorageOK(e)
  <2> SUFFICES ASSUME w.next <= w.last, ~w.freed
               PROVE  w.last <= Len(d.neighbour_mip_vec) + Len(d.spare)
    BY <1>4 DEF StorageOK, Walking
  <2>1. w.last = d.walk.last /\ ~d.walk.freed
    BY <1>2
  <2> QED BY <2>1 DEF StorageOK
<1> QED BY <1>2, <1>4, <1>5 DEF e

\* What a walk reads is an address, the right one or not.
LEMMA TargetsOK ==
  ASSUME NEW d \in DeamonType, StorageOK(d), d.walk.next >= 1, Walking(d)
  PROVE  Targets(d) \subseteq MIPAddress
<1>1. /\ d.neighbour_mip_vec \in Seq(MIPAddress) /\ d.spare \in Seq(MIPAddress)
      /\ d.walk.next \in Nat /\ d.walk.last \in Nat
  BY DEF DeamonType
<1>2. ~d.walk.freed => (d.neighbour_mip_vec \o d.spare)[d.walk.next] \in MIPAddress
  BY <1>1, SlotOK DEF StorageOK, Walking
<1> QED BY <1>2 DEF Targets

\* What is written to a target.
LEMMA AdvertisedOK ==
  ASSUME NEW d, NEW dest \in MIPAddress,
         NEW A, packAdvertisment(d.distance_vector_table, dest) \in A
  PROVE  Advertised(d, dest) \in Seq([dest : MIPAddress, advert : A])
<1> DEFINE a == packAdvertisment(d.distance_vector_table, dest)
<1>1. a \in A
  OBVIOUS
<1> HIDE DEF a
<1>2. /\ <<>> \in Seq([dest : MIPAddress, advert : A])
      /\ <<[dest |-> dest, advert |-> a]>> \in Seq([dest : MIPAddress, advert : A])
  BY <1>1
<1> QED BY <1>2 DEF Advertised, a

\* A lookup is queued behind the others.
LEMMA LookupHandled ==
  ASSUME NEW d \in DeamonType, NEW mip \in MIPAddress
  PROVE  LET e == receiveLookupSock(d, mip)
         IN  /\ e \in DeamonType /\ e.lookup_queue = Append(d.lookup_queue, mip)
             /\ e.walk = d.walk /\ e.spare = d.spare
             /\ e.neighbour_mip_vec = d.neighbour_mip_vec
             /\ e.distance_vector_table = d.distance_vector_table
<1>1. Append(d.lookup_queue, mip) \in Seq(MIPAddress)
  BY DEF DeamonType
<1> QED BY <1>1 DEF receiveLookupSock, DeamonType

\* The first lookup is answered with a next hop, or none.
LEMMA LookupAnswered ==
  ASSUME NEW d \in DeamonType, d.lookup_queue # <<>>
  PROVE  /\ LET e == popLookup(d)
            IN  /\ e \in DeamonType /\ e.lookup_queue = Tail(d.lookup_queue)
                /\ e.walk = d.walk /\ e.spare = d.spare
                /\ e.neighbour_mip_vec = d.neighbour_mip_vec
                /\ e.distance_vector_table = d.distance_vector_table
         /\ Head(d.lookup_queue) \in MIPAddress /\ Answer(d) \in Seq(MIPAddress)
<1>1. Tail(d.lookup_queue) \in Seq(MIPAddress) /\ Head(d.lookup_queue) \in MIPAddress
  BY DEF DeamonType
<1>2. findTo(d.distance_vector_table, Head(d.lookup_queue)) =>
        d.distance_vector_table[Head(d.lookup_queue)].via \in MIPAddress
  BY TableShape DEF findTo, DeamonType, Column
<1>3. <<>> \in Seq(MIPAddress) /\ \A x \in MIPAddress : <<x>> \in Seq(MIPAddress)
  OBVIOUS
<1>4. Answer(d) \in Seq(MIPAddress)
  BY <1>2, <1>3 DEF Answer
<1> QED BY <1>1, <1>4 DEF popLookup, DeamonType
=============================================================================
