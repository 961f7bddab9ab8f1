----------------------------- MODULE MIPDeamon -----------------------------
(***************************************************************************)
(* The handlers of MIP_deamon.cpp, as operators on a record of its         *)
(* globals.  A handler returns the new globals and what it wrote: update   *)
(* messages and lookups for routing_deamon, packets for transport_deamon,  *)
(* and frames for its interfaces.  An interface is known by its address,   *)
(* its MAC address included; arp_pair_vec keeps the order of discovery.    *)
(***************************************************************************)
EXTENDS Naturals, Sequences

CONSTANT TTL   \* what setMipTTL(0xff) leaves in four bits (15)

NewMIP(locals) ==
  [raw_sock_vec |-> locals, arp_pair_vec |-> <<>>, lookup_queue |-> <<>>]

MIPFrame(tra, dest, source, ttl, msg) ==
  [tra |-> tra, dest |-> dest, source |-> source, ttl |-> ttl, msg |-> msg]

\* A frame on its way out of interface sock, to one interface or (no one
\* named) to all on the link.
Unicast(sock, mac, frame) == [sock |-> sock, to |-> {mac}, frame |-> frame]
Broadcast(sock, frame)    == [sock |-> sock, to |-> {}, frame |-> frame]

Effect(m, update, lookup, transport, out) ==
  [mip |-> m, update |-> update, lookup |-> lookup, transport |-> transport, out |-> out]

\* std::find_if over the pairs: whether there is one of mip, and the first.
Known(m, mip) == \E i \in DOMAIN m.arp_pair_vec : m.arp_pair_vec[i].mip = mip
PairOf(m, mip) ==
  LET v == m.arp_pair_vec
  IN  v[CHOOSE i \in DOMAIN v : v[i].mip = mip /\ \A j \in 1..i - 1 : v[j].mip # mip]

\* What of q is in S, in its order: SelectSeq, unfolded.
Keep(q, S) ==
  LET kept[i \in 0..Len(q)] ==
        IF i = 0 THEN <<>>
        ELSE IF q[i] \in S THEN Append(kept[i - 1], q[i]) ELSE kept[i - 1]
  IN  kept[Len(q)]

addARPPair(m, sock, mip) ==
  [m EXCEPT !.arp_pair_vec = Append(@, [mip |-> mip, reply |-> TRUE, sock |-> sock])]

\* reply of the pair of mip is set.
Heard(m, mip) ==
  [m EXCEPT !.arp_pair_vec =
     [i \in DOMAIN @ |-> IF @[i].mip = mip THEN [@[i] EXCEPT !.reply = TRUE] ELSE @[i]]]

ResponseFrame(pair) ==
  Unicast(pair.sock, pair.mip, MIPFrame("ZERO", pair.mip, pair.sock, TTL, <<>>))

\* Its destination, 0xff, is never read.
BroadcastFrame(sock) == Broadcast(sock, MIPFrame("A", sock, sock, TTL, <<>>))

Discovery(mip)      == [option |-> "ARP_DISCOVERY", mip |-> mip]
LostConnection(mip) == [option |-> "ARP_LOSTCONNECTION", mip |-> mip]

\* The packet a transport_deamon gets or sends: whom from or to, and what.
Packet(mip, msg) == [mip |-> mip, msg |-> msg]

\* A packet for this node goes back to the transport daemon with its
\* destination in front; any other waits for its next hop.
receiveTransportSock(m, packet) ==
  IF packet.mip \in m.raw_sock_vec
  THEN Effect(m, <<>>, <<>>, <<packet>>, <<>>)
  ELSE LET frame == MIPFrame("T", packet.mip, packet.mip, TTL, packet.msg)
       IN  Effect([m EXCEPT !.lookup_queue = Append(@, [sourced |-> FALSE, frame |-> frame])],
                  <<>>, <<packet.mip>>, <<>>, <<>>)

\* A mutation: a frame without a next hop stays in the queue.
BugReceiveLookupSock(m, via) ==
  LET m2    == IF via = <<>> THEN m ELSE [m EXCEPT !.lookup_queue = Tail(@)]
      first == Head(m.lookup_queue)
      sent  == IF via = <<>> \/ ~Known(m, via[1]) THEN <<>>
               ELSE LET pair   == PairOf(m, via[1])
                        source == IF first.sourced THEN first.frame.source ELSE pair.sock
                    IN  <<Unicast(pair.sock, pair.mip, [first.frame EXCEPT !.source = source])>>
  IN  Effect(m2, <<>>, <<>>, <<>>, sent)

\* The answer, a next hop or none, is for the frame that waits longest.
receiveLookupSock(m, via) ==
  LET m2    == [m EXCEPT !.lookup_queue = Tail(@)]
      first == Head(m.lookup_queue)
      sent  == IF via = <<>> \/ ~Known(m, via[1]) THEN <<>>
               ELSE LET pair   == PairOf(m, via[1])
                        source == IF first.sourced THEN first.frame.source ELSE pair.sock
                    IN  <<Unicast(pair.sock, pair.mip, [first.frame EXCEPT !.source = source])>>
  IN  Effect(m2, <<>>, <<>>, <<>>, sent)

\* An advertisement goes out when its neighbour has an ARP pair.
receiveUpdateSock(m, dest, advert) ==
  IF ~Known(m, dest) THEN Effect(m, <<>>, <<>>, <<>>, <<>>)
  ELSE LET pair == PairOf(m, dest)
       IN  Effect(m, <<>>, <<>>, <<>>,
             <<Unicast(pair.sock, pair.mip, MIPFrame("R", pair.mip, pair.sock, TTL, advert))>>)

receiveARP(m, sock, f) ==
  LET known == Known(m, f.source)
      m2    == IF known THEN Heard(m, f.source) ELSE addARPPair(m, sock, f.source)
      news  == IF known THEN <<>> ELSE <<Discovery(f.source)>>
      out   == IF f.tra = "A" THEN <<ResponseFrame(PairOf(m2, f.source))>> ELSE <<>>
  IN  Effect(m2, news, <<>>, <<>>, out)

receiveAdvertisement(m, f) ==
  Effect(m, <<[option |-> "ADVERTISEMENT", mip |-> f.source, advert |-> f.msg]>>,
         <<>>, <<>>, <<>>)

\* A mutation: a forwarded frame is marked as one without a source.
BugReceiveTransport(m, f) ==
  IF f.dest \in m.raw_sock_vec
  THEN Effect(m, <<>>, <<>>, <<Packet(f.source, f.msg)>>, <<>>)
  ELSE IF f.ttl = 0 THEN Effect(m, <<>>, <<>>, <<>>, <<>>)
  ELSE Effect([m EXCEPT !.lookup_queue =
                 Append(@, [sourced |-> FALSE, frame |-> [f EXCEPT !.ttl = @ - 1]])],
              <<>>, <<f.dest>>, <<>>, <<>>)

\* A packet for this node is delivered, any other goes on with one hop less.
receiveTransport(m, f) ==
  IF f.dest \in m.raw_sock_vec
  THEN Effect(m, <<>>, <<>>, <<Packet(f.source, f.msg)>>, <<>>)
  ELSE IF f.ttl = 0 THEN Effect(m, <<>>, <<>>, <<>>, <<>>)
  ELSE Effect([m EXCEPT !.lookup_queue =
                 Append(@, [sourced |-> TRUE, frame |-> [f EXCEPT !.ttl = @ - 1]])],
              <<>>, <<f.dest>>, <<>>, <<>>)

receiveRawSock(m, sock, f) ==
  CASE f.tra \in {"A", "ZERO"} -> receiveARP(m, sock, f)
    [] f.tra = "R"             -> receiveAdvertisement(m, f)
    [] f.tra = "T"             -> receiveTransport(m, f)

\* The pairs that were heard of since the last time-out.
Replied(pairs) == {pairs[i] : i \in {j \in DOMAIN pairs : pairs[j].reply}}
Silent(pairs)  == {pairs[i] : i \in {j \in DOMAIN pairs : ~pairs[j].reply}}

\* A mutation: who is lost is dropped without a word.
BugHandleTimer(m, socks) ==
  LET kept == Keep(m.arp_pair_vec, Replied(m.arp_pair_vec))
  IN  Effect([m EXCEPT !.arp_pair_vec = [i \in DOMAIN kept |-> [kept[i] EXCEPT !.reply = FALSE]]],
             <<>>, <<>>, <<>>, [i \in DOMAIN socks |-> BroadcastFrame(socks[i])])

\* Every ARP_TIMEOUT: who did not answer is lost, the others have to answer
\* again, and each interface asks who is there.
handleTimer(m, socks) ==
  LET pairs == m.arp_pair_vec
      lost  == Keep(pairs, Silent(pairs))
      kept  == Keep(pairs, Replied(pairs))
  IN  Effect([m EXCEPT !.arp_pair_vec = [i \in DOMAIN kept |-> [kept[i] EXCEPT !.reply = FALSE]]],
             [i \in DOMAIN lost |-> LostConnection(lost[i].mip)],
             <<>>, <<>>, [i \in DOMAIN socks |-> BroadcastFrame(socks[i])])

\* main, before its loop.
startUp(m, socks) ==
  Effect(m, [i \in DOMAIN socks |-> [option |-> "LOCAL_MIP", mip |-> socks[i]]],
         <<>>, <<>>, [i \in DOMAIN socks |-> BroadcastFrame(socks[i])])
=============================================================================
