------------------------ MODULE DistanceVectorTable ------------------------
(***************************************************************************)
(* The routing table (DistanceVectorTable.cpp): for each known destination *)
(* the neighbour to go through and the cost.  A table is a function from   *)
(* the destinations it has a Column for; the order of the columns does not *)
(* matter to any operation.  Every operation holds m_mutex throughout, so  *)
(* each is one operator.                                                   *)
(***************************************************************************)
EXTENDS Naturals

CONSTANTS
  MIPAddress,   \* the addresses there are
  INF_COST      \* the cost of what cannot be reached (255)

HOP_COST == 1

ASSUME TableAssumption == INF_COST \in Nat /\ INF_COST > HOP_COST

Cost   == 0..INF_COST
Column == [via : MIPAddress, cost : Cost]

\* Functions on a subset of the addresses.
Tables  == UNION {[known -> Column] : known \in SUBSET MIPAddress}
Adverts == UNION {[known -> Cost] : known \in SUBSET MIPAddress}

EmptyTable == [to \in {} |-> 0]

\* A mutation: only the neighbour's own column is given up.
BugSetViaInfinity(t, via) ==
  [to \in DOMAIN t |-> IF to = via THEN [t[to] EXCEPT !.cost = INF_COST] ELSE t[to]]

setViaInfinity(t, via) ==
  [to \in DOMAIN t |-> IF t[to].via = via THEN [t[to] EXCEPT !.cost = INF_COST] ELSE t[to]]

\* Split horizon: nothing is told to the neighbour it goes through.  The
\* advertisement arrives as it was packed.
packAdvertisment(t, dest) ==
  [to \in {known \in DOMAIN t : t[known].via # dest} |-> t[to].cost]

\* A mutation: infinity is counted up.
BugThrough(advert, to) == advert[to] + HOP_COST

\* A mutation: the hop to the sender is not counted.
BugThroughFree(advert, to) == advert[to]

\* What a destination of the advertisement costs through its sender.
Through(advert, to) ==
  IF advert[to] < INF_COST THEN advert[to] + HOP_COST ELSE INF_COST

\* A mutation: any advertisement that differs is believed.
BugChanged(t, sender, advert) ==
  {to \in DOMAIN advert : to \notin DOMAIN t \/ Through(advert, to) # t[to].cost}

\* The destinations an advertisement changes.
Changed(t, sender, advert) ==
  {to \in DOMAIN advert :
     \/ to \notin DOMAIN t
     \/ Through(advert, to) < t[to].cost
     \/ sender = t[to].via /\ Through(advert, to) # t[to].cost}

update(t, sender, advert) ==
  [to \in DOMAIN t \cup DOMAIN advert |->
     IF to \in Changed(t, sender, advert)
     THEN [via |-> sender, cost |-> Through(advert, to)]
     ELSE t[to]]

findTo(t, to) == to \in DOMAIN t

\* MIP_deamon sends the local addresses first: there is no column of them yet.
addLocalMip(t, mip) ==
  [to \in DOMAIN t \cup {mip} |-> IF to = mip THEN [via |-> mip, cost |-> 0] ELSE t[to]]

addArpDiscovery(t, mip) ==
  [to \in DOMAIN t \cup {mip} |-> IF to = mip THEN [via |-> mip, cost |-> HOP_COST] ELSE t[to]]
=============================================================================
