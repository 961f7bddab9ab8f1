--------------------------- MODULE RoutingDeamon ---------------------------
(***************************************************************************)
(* The handlers of routing_deamon.cpp, as operators on a record of its     *)
(* globals.  The main thread reads the two sockets, the update thread      *)
(* advertises the table, the lookup thread answers.                        *)
(*                                                                         *)
(* The update thread walks over neighbour_mip_vec without a lock while the *)
(* main thread inserts and erases.  A walk keeps the begin and the end it  *)
(* started with, so the storage of the vector is modelled: the slots in    *)
(* use, and behind them the spare ones, which keep what was in them.       *)
(***************************************************************************)
EXTENDS DistanceVectorTable, Sequences

Idle == [exclude |-> {}, next |-> 1, last |-> 0, freed |-> FALSE]

NewDeamon ==
  [distance_vector_table |-> EmptyTable,
   neighbour_mip_vec     |-> <<>>,
   spare                 |-> <<>>,
   update_queue          |-> <<>>,
   lookup_queue          |-> <<>>,
   walk                  |-> Idle]

Neighbours(d) == {d.neighbour_mip_vec[i] : i \in DOMAIN d.neighbour_mip_vec}

Walking(d) == d.walk.next <= d.walk.last

\* push_back: into a spare slot or, when there is none, into new storage of
\* twice the size.  A walk then goes on in storage that was freed.
Enlist(d, mip) ==
  IF d.spare # <<>>
  THEN [d EXCEPT !.neighbour_mip_vec = Append(@, mip), !.spare = Tail(@)]
  ELSE [d EXCEPT !.neighbour_mip_vec = Append(@, mip),
                 !.spare = [i \in 1..Len(d.neighbour_mip_vec) - 1 |-> mip],
                 !.walk.freed = @ \/ Walking(d)]

\* erase: what is behind moves down, the last slot keeps its value.
Delist(d, mip) ==
  LET v == d.neighbour_mip_vec
      at == CHOOSE i \in DOMAIN v : v[i] = mip /\ \A j \in 1..i - 1 : v[j] # mip
  IN  [d EXCEPT !.neighbour_mip_vec = SubSeq(v, 1, at - 1) \o SubSeq(v, at + 1, Len(v)),
                !.spare = <<v[Len(v)]>> \o @]

\* receiveUpdateSock, in the steps other threads may come between.  What is
\* known already is ignored.
Ignored(d, msg) ==
  \/ msg.option = "ARP_DISCOVERY" /\ msg.mip \in Neighbours(d)
  \/ msg.option = "ARP_LOSTCONNECTION" /\ msg.mip \notin Neighbours(d)

changeNeighbours(d, msg) ==
  CASE msg.option = "ARP_DISCOVERY"      -> Enlist(d, msg.mip)
    [] msg.option = "ARP_LOSTCONNECTION" -> Delist(d, msg.mip)
    [] OTHER                             -> d

NewTable(t, msg) ==
  CASE msg.option = "LOCAL_MIP"          -> addLocalMip(t, msg.mip)
    [] msg.option = "ARP_DISCOVERY"      -> addArpDiscovery(t, msg.mip)
    [] msg.option = "ARP_LOSTCONNECTION" -> setViaInfinity(t, msg.mip)
    [] msg.option = "ADVERTISEMENT"      -> update(t, msg.mip, msg.advert)

changeTable(d, msg) == [d EXCEPT !.distance_vector_table = NewTable(@, msg)]

\* A mutation: the new neighbour itself is left out.
BugAnnouncement(t, msg) ==
  CASE msg.option = "LOCAL_MIP" -> <<>>
    [] msg.option = "ADVERTISEMENT" /\ Changed(t, msg.mip, msg.advert) = {} -> <<>>
    [] OTHER -> <<{msg.mip}>>

\* A mutation: every message is passed on, to all.
BugAnnouncementAlways(t, msg) == IF msg.option = "LOCAL_MIP" THEN <<>> ELSE <<{}>>

\* What is queued for the update thread, given the table before the change.
Announcement(t, msg) ==
  CASE msg.option = "LOCAL_MIP" -> <<>>
    [] msg.option = "ADVERTISEMENT" /\ Changed(t, msg.mip, msg.advert) = {} -> <<>>
    [] msg.option = "ADVERTISEMENT" /\ Changed(t, msg.mip, msg.advert) # {} -> <<{msg.mip}>>
    [] OTHER -> <<{}>>

\* An entry names the neighbour to leave out, if any.
addUpdateQueue(d, announcement) ==
  [d EXCEPT !.update_queue = @ \o announcement]

\* The whole of it.
receiveUpdateSock(d, msg) ==
  IF Ignored(d, msg) THEN d
  ELSE addUpdateQueue(changeTable(changeNeighbours(d, msg), msg),
                      Announcement(d.distance_vector_table, msg))

receiveLookupSock(d, mip) == [d EXCEPT !.lookup_queue = Append(@, mip)]

\* The update thread takes an entry and starts to walk.
popUpdate(d) ==
  [d EXCEPT !.update_queue = Tail(@),
            !.walk = [exclude |-> Head(d.update_queue), next |-> 1,
                      last |-> Len(d.neighbour_mip_vec), freed |-> FALSE]]

\* What the walk may read in its next slot.
Targets(d) ==
  IF d.walk.freed THEN MIPAddress
  ELSE {(d.neighbour_mip_vec \o d.spare)[d.walk.next]}

\* One turn of sendAdvertisment's loop: nothing is written to the excluded one.
Advertised(d, dest) ==
  IF dest \in d.walk.exclude THEN <<>>
  ELSE <<[dest |-> dest, advert |-> packAdvertisment(d.distance_vector_table, dest)]>>

stepWalk(d) ==
  [d EXCEPT !.walk = IF d.walk.next = d.walk.last THEN Idle
                     ELSE [d.walk EXCEPT !.next = d.walk.next + 1]]

\* The lookup thread takes a request and answers it.
popLookup(d) == [d EXCEPT !.lookup_queue = Tail(@)]

Answer(d) ==
  LET mip == Head(d.lookup_queue)
  IN  IF findTo(d.distance_vector_table, mip)
      THEN <<d.distance_vector_table[mip].via>>
      ELSE <<>>
=============================================================================
