---------------------------- MODULE RoutingNode ----------------------------
(***************************************************************************)
(* One routing_deamon: its three threads, step by step, against an         *)
(* arbitrary MIP_deamon at the other end of its two sockets.               *)
(***************************************************************************)
EXTENDS RoutingDeamon

CONSTANTS
  Local,        \* the addresses of this node
  HeardAdverts, \* the advertisements its neighbours may send
  MaxEvents,    \* bound of the runs: update messages after start-up
  MaxLookups    \* bound of the runs: lookups

ASSUME NodeAssumption ==
  /\ Local \subseteq MIPAddress /\ MIPAddress # {}
  /\ HeardAdverts \subseteq Adverts
  /\ MaxEvents \in Nat /\ MaxLookups \in Nat

VARIABLES
  daemon,         \* the globals both sides share
  main,           \* where the main thread is, and with which message
  update_thread,  \* where the update thread is
  target,         \* the address it read last
  lookup_thread,  \* where the lookup thread is
  running,
  arp,            \* the neighbours MIP_deamon has reported
  told,           \* what each address was told last
  events,         \* the number of update messages, for MaxEvents
  lookups         \* the number of lookups, for MaxLookups

vars == <<daemon, main, update_thread, target, lookup_thread, running, arp, told, events, lookups>>

Remote == MIPAddress \ Local

Nobody    == CHOOSE mip \in MIPAddress : TRUE
NoMessage == [option |-> "none"]
Waiting   == [at |-> "epoll", msg |-> NoMessage, announcement |-> <<>>]

Init ==
  /\ daemon = NewDeamon
  /\ main = Waiting
  /\ update_thread = "check" /\ lookup_thread = "check"
  /\ target = Nobody
  /\ running = TRUE
  /\ arp = {}
  /\ told = [x \in MIPAddress |-> EmptyTable]
  /\ events = 0 /\ lookups = 0

(***************************************************************************)
(* What MIP_deamon writes: the local addresses before anything else, a     *)
(* discovery of what it has no ARP pair of, the loss of what it has, and   *)
(* any advertisement.                                                      *)
(***************************************************************************)
Started == Local \subseteq DOMAIN daemon.distance_vector_table

LocalMessage(mip) ==
  /\ mip \in Local \ DOMAIN daemon.distance_vector_table
  /\ UNCHANGED <<arp, events>>

NeighbourMessage(msg) ==
  /\ Started /\ events < MaxEvents /\ events' = events + 1
  /\ \/ /\ msg.option = "ARP_DISCOVERY" /\ msg.mip \in Remote \ arp
        /\ arp' = arp \cup {msg.mip}
     \/ /\ msg.option = "ARP_LOSTCONNECTION" /\ msg.mip \in arp
        /\ arp' = arp \ {msg.mip}
     \/ /\ msg.option = "ADVERTISEMENT" /\ msg.mip \in Remote
        /\ UNCHANGED arp

Messages ==
  [option : {"LOCAL_MIP", "ARP_DISCOVERY", "ARP_LOSTCONNECTION"}, mip : MIPAddress]
  \cup [option : {"ADVERTISEMENT"}, mip : Remote, advert : HeardAdverts]

(***************************************************************************)
(* The main thread.                                                        *)
(***************************************************************************)
ReadUpdate(msg) ==
  /\ main.at = "epoll" /\ running
  /\ \/ msg.option = "LOCAL_MIP" /\ LocalMessage(msg.mip)
     \/ NeighbourMessage(msg)
  /\ IF Ignored(daemon, msg) THEN UNCHANGED <<daemon, main>>
     ELSE /\ daemon' = changeNeighbours(daemon, msg)
          /\ main' = [at |-> "table", msg |-> msg, announcement |-> <<>>]
  /\ UNCHANGED <<update_thread, target, lookup_thread, running, told, lookups>>

ChangeTable ==
  /\ main.at = "table"
  /\ daemon' = changeTable(daemon, main.msg)
  /\ main' = [main EXCEPT !.at = "queue",
                !.announcement = Announcement(daemon.distance_vector_table, main.msg)]
  /\ UNCHANGED <<update_thread, target, lookup_thread, running, arp, told, events, lookups>>

QueueUpdate ==
  /\ main.at = "queue"
  /\ daemon' = addUpdateQueue(daemon, main.announcement)
  /\ main' = IF main.announcement = <<>> THEN Waiting ELSE [Waiting EXCEPT !.at = "notify_update"]
  /\ UNCHANGED <<update_thread, target, lookup_thread, running, arp, told, events, lookups>>

ReadLookup(mip) ==
  /\ main.at = "epoll" /\ running
  /\ Started /\ lookups < MaxLookups /\ lookups' = lookups + 1
  /\ daemon' = receiveLookupSock(daemon, mip)
  /\ main' = [Waiting EXCEPT !.at = "notify_lookup"]
  /\ UNCHANGED <<update_thread, target, lookup_thread, running, arp, told, events>>

\* A mutation: nobody is notified.
BugWoken(thread) == thread

\* notify_one wakes the thread when it waits, and is lost otherwise.
Woken(thread) == IF thread = "waiting" THEN "check" ELSE thread

NotifyUpdate ==
  /\ main.at \in {"notify_update", "stop_update"}
  /\ update_thread' = Woken(update_thread)
  /\ main' = IF main.at = "stop_update" THEN [Waiting EXCEPT !.at = "stop_lookup"] ELSE Waiting
  /\ UNCHANGED <<daemon, target, lookup_thread, running, arp, told, events, lookups>>

NotifyLookup ==
  /\ main.at \in {"notify_lookup", "stop_lookup"}
  /\ lookup_thread' = Woken(lookup_thread)
  /\ main' = IF main.at = "stop_lookup" THEN [Waiting EXCEPT !.at = "join"] ELSE Waiting
  /\ UNCHANGED <<daemon, update_thread, target, running, arp, told, events, lookups>>

\* A mutation: the threads are joined without being notified.
BugShutdownThreads ==
  /\ main.at = "epoll" /\ running
  /\ running' = FALSE
  /\ main' = [Waiting EXCEPT !.at = "join"]
  /\ UNCHANGED <<daemon, update_thread, target, lookup_thread, arp, told, events, lookups>>

\* SIGINT closes epoll; both locks are held while running is cleared.
shutdownThreads ==
  /\ main.at = "epoll" /\ running
  /\ running' = FALSE
  /\ main' = [Waiting EXCEPT !.at = "stop_update"]
  /\ UNCHANGED <<daemon, update_thread, target, lookup_thread, arp, told, events, lookups>>

Join ==
  /\ main.at = "join" /\ update_thread = "exit" /\ lookup_thread = "exit"
  /\ main' = [Waiting EXCEPT !.at = "terminated"]
  /\ UNCHANGED <<daemon, update_thread, target, lookup_thread, running, arp, told, events, lookups>>

(***************************************************************************)
(* The update thread.                                                      *)
(***************************************************************************)
\* Under update_mutex: leave, take an entry, or wait.
UpdateChecks ==
  /\ update_thread = "check"
  /\ IF ~running THEN update_thread' = "exit" /\ UNCHANGED daemon
     ELSE IF daemon.update_queue # <<>>
     THEN update_thread' = "walk" /\ daemon' = popUpdate(daemon)
     ELSE update_thread' = "waiting" /\ UNCHANGED daemon
  /\ UNCHANGED <<main, target, lookup_thread, running, arp, told, events, lookups>>

\* The next address is read, without a lock, or the loop has ended.
UpdateReads ==
  /\ update_thread = "walk"
  /\ IF Walking(daemon)
     THEN target' \in Targets(daemon) /\ update_thread' = "send"
     ELSE update_thread' = "check" /\ UNCHANGED target
  /\ UNCHANGED <<daemon, main, lookup_thread, running, arp, told, events, lookups>>

UpdateSends ==
  /\ update_thread = "send"
  /\ \A m \in {Advertised(daemon, target)} :
       told' = IF m = <<>> THEN told ELSE [told EXCEPT ![target] = m[1].advert]
  /\ daemon' = stepWalk(daemon)
  /\ update_thread' = "walk" /\ target' = Nobody
  /\ UNCHANGED <<main, lookup_thread, running, arp, events, lookups>>

(***************************************************************************)
(* The lookup thread.                                                      *)
(***************************************************************************)
\* A mutation: it waits with entries in the queue until the next notification.
BugLookupChecks ==
  /\ lookup_thread = "check"
  /\ IF ~running THEN lookup_thread' = "exit" /\ UNCHANGED daemon
     ELSE IF daemon.lookup_queue # <<>>
     THEN lookup_thread' = "waiting" /\ daemon' = popLookup(daemon)
     ELSE lookup_thread' = "waiting" /\ UNCHANGED daemon
  /\ UNCHANGED <<main, update_thread, target, running, arp, told, events, lookups>>

LookupChecks ==
  /\ lookup_thread = "check"
  /\ IF ~running THEN lookup_thread' = "exit" /\ UNCHANGED daemon
     ELSE IF daemon.lookup_queue # <<>>
     THEN UNCHANGED lookup_thread /\ daemon' = popLookup(daemon)
     ELSE lookup_thread' = "waiting" /\ UNCHANGED daemon
  /\ UNCHANGED <<main, update_thread, target, running, arp, told, events, lookups>>

\* A condition variable may wake without reason.
Spurious ==
  /\ \/ update_thread = "waiting" /\ update_thread' = "check" /\ UNCHANGED lookup_thread
     \/ lookup_thread = "waiting" /\ lookup_thread' = "check" /\ UNCHANGED update_thread
  /\ UNCHANGED <<daemon, main, target, running, arp, told, events, lookups>>

MainContinues == ChangeTable \/ QueueUpdate \/ NotifyUpdate \/ NotifyLookup \/ Join

Next ==
  \/ \E msg \in Messages : ReadUpdate(msg)
  \/ \E mip \in Remote : ReadLookup(mip)
  \/ MainContinues \/ shutdownThreads
  \/ UpdateChecks \/ UpdateReads \/ UpdateSends
  \/ LookupChecks
  \/ Spurious

Spec == Init /\ [][Next]_vars

\* The scheduler runs each thread that can go on.
FairSpec ==
  /\ Spec
  /\ WF_vars(MainContinues)
  /\ WF_vars(UpdateChecks \/ UpdateReads \/ UpdateSends)
  /\ WF_vars(LookupChecks)

(***************************************************************************)
(* Properties                                                              *)
(***************************************************************************)
TypeOK ==
  /\ daemon.distance_vector_table \in Tables
  /\ daemon.neighbour_mip_vec \in Seq(MIPAddress) /\ daemon.spare \in Seq(MIPAddress)
  /\ daemon.update_queue \in Seq(SUBSET MIPAddress)
  /\ daemon.lookup_queue \in Seq(MIPAddress)
  /\ daemon.walk \in [exclude : SUBSET MIPAddress, next : Nat, last : Nat, freed : BOOLEAN]
  /\ update_thread \in {"check", "waiting", "walk", "send", "exit"}
  /\ lookup_thread \in {"check", "waiting", "exit"}
  /\ target \in MIPAddress /\ running \in BOOLEAN /\ arp \subseteq Remote
  /\ told \in [MIPAddress -> Adverts]

\* Whatever adverts come, a node's own addresses keep their column: nothing is
\* cheaper than 0, and nobody they go through can withdraw them.
LocalRoutes ==
  Started => \A mip \in Local :
    daemon.distance_vector_table[mip] = [via |-> mip, cost |-> 0]

\* Once the threads have nothing to do, each neighbour was last told what the
\* table says, although the update thread walks a list that changes under it.
NeighboursTold ==
  main.at = "epoll" /\ daemon.update_queue = <<>> /\ update_thread \in {"check", "waiting"} =>
    \A x \in Neighbours(daemon) :
      LET advert == packAdvertisment(daemon.distance_vector_table, x)
      IN  \A to \in DOMAIN advert : to \in DOMAIN told[x] /\ told[x][to] = advert[to]

\* A column gets worse only by word or loss of the neighbour it goes through.
RaisedByVia ==
  [][LET t == daemon.distance_vector_table
         n == daemon.distance_vector_table'
     IN  \A to \in DOMAIN t : n[to].cost > t[to].cost => n[to].via = t[to].via]_vars

\* What is queued is advertised, unless the node stops.
Advertises == daemon.update_queue # <<>> ~> (daemon.update_queue = <<>> \/ ~running)

\* Every lookup is answered, unless the node stops.
Answers == daemon.lookup_queue # <<>> ~> (daemon.lookup_queue = <<>> \/ ~running)

\* No thread sleeps through the end.
Terminates == ~running ~> main.at = "terminated"
=============================================================================
