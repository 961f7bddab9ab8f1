----------------------------- MODULE FramePath -----------------------------
(***************************************************************************)
(* The way of a frame through the daemons of nodes in a line, byte by      *)
(* byte: from the transport_deamon that fills it in, through MIP_deamon,   *)
(* the links and the MIP_deamons that forward it, to the transport_deamon  *)
(* that hands it to a ClientHandler; and the way of an advertisement from  *)
(* one routing_deamon to the next.  Nearly every handler keeps its frame   *)
(* in a static variable, with what the frame before left in it.            *)
(***************************************************************************)
EXTENDS Integers, Sequences, FiniteSets

CONSTANTS
  FRAME_MAX_SIZE,  \* of a MIPFrame (1514)
  LastNode,            \* the nodes are 1..LastNode
  AddressOf,       \* AddressOf[<<n, m>>]: of node n's interface to neighbour m
  Slots,           \* m_frame_window of a handler
  Origins,         \* the nodes whose transport_deamon sends to node LastNode
  Chunks,          \* what an application may write
  SequenceNumbers, SourcePorts, DestPorts,
  Tables,          \* what a routing_deamon may advertise
  Junk,            \* what memory that was freed may contain
  MaxFrames        \* bound of the runs: frames made

MIPTP_MAX_SIZE == FRAME_MAX_SIZE - 18

F == INSTANCE MIPFrame
P == INSTANCE MIPTPFrame WITH FRAME_MAX_SIZE <- MIPTP_MAX_SIZE
LOCAL INSTANCE ByteVector
LOCAL INSTANCE SequencesExt

Node == 1..LastNode
Neighbours(n) == {n - 1, n + 1} \cap Node

ASSUME PathAssumption ==
  /\ LastNode \in Nat \ {0} /\ MaxFrames \in Nat
  /\ FRAME_MAX_SIZE \in Nat /\ FRAME_MAX_SIZE % 4 = 2 /\ FRAME_MAX_SIZE > 26
  /\ AddressOf \in [{e \in Node \X Node : e[2] \in Neighbours(e[1])} -> 1..254]
  /\ Origins \subseteq Node
  /\ \A c \in Chunks : c \in Seq(Byte) /\ Len(c) \in 1..P!FRAME_MAX_MSG_SIZE
  /\ SequenceNumbers \subseteq 0..65535
  /\ SourcePorts \cup DestPorts \subseteq 0..16383

VARIABLES
  window,        \* the frames of each handler's window, in either order
  ack,           \* static frame of queueAck
  out,           \* frame_out_queue and transport_sock, towards MIP_deamon
  sending,       \* static frame of MIP_deamon's receiveTransportSock
  hearing,       \* static frame of its receiveRawSock
  advertising,   \* static frame of its receiveUpdateSock
  greeting,      \* static frames of sendBroadcastFrame (A), sendResponseFrame (ZERO)
  lookup_queue,
  wire,          \* what is on its way from node to neighbour
  transport_in,  \* transport_sock, towards transport_deamon
  taking,        \* static frame of transport_deamon's receiveTransportSock
  update_out,    \* update_sock, towards MIP_deamon
  update_in,     \* update_sock, towards routing_deamon
  received,      \* what a handler or a routing_deamon was given last, and where from
  made           \* how many frames were made

vars == <<window, ack, out, sending, hearing, advertising, greeting, lookup_queue, wire,
          transport_in, taking, update_out, update_in, received, made>>

Addresses(n) == {AddressOf[<<n, m>>] : m \in Neighbours(n)}
NodeOf(a)    == CHOOSE n \in Node : a \in Addresses(n)
MAC(a)       == [i \in 1..6 |-> ByteOf(a)]
Toward(n, d) == IF d > n THEN n + 1 ELSE n - 1

Init ==
  /\ window = [n \in Origins |-> [s \in Slots |-> P!New]]
  /\ ack = [n \in Origins |-> P!New]
  /\ out = [n \in Origins |-> <<>>]
  /\ sending = [n \in Node |-> F!New] /\ hearing = [n \in Node |-> F!New]
  /\ advertising = [n \in Node |-> F!New] /\ greeting = [n \in Node |-> [tra \in {"A", "ZERO"} |-> F!New]]
  /\ lookup_queue = [n \in Node |-> <<>>]
  /\ wire = [e \in DOMAIN AddressOf |-> <<>>]
  /\ transport_in = [n \in Node |-> <<>>]
  /\ taking = [n \in Node |-> P!New]
  /\ update_out = [n \in Node |-> <<>>] /\ update_in = [n \in Node |-> <<>>]
  /\ received = <<>> /\ made = 0

\* transport_sock and update_sock carry an address, a size and bytes.
Packet(mip, size, bytes) == [mip |-> mip, size |-> size, bytes |-> bytes]

Make == made < MaxFrames /\ made' = made + 1

(***************************************************************************)
(* transport_deamon: a handler fills in a frame and queues a copy of it,   *)
(* which sendTransportSock passes on.                                      *)
(***************************************************************************)
Labelled(f, type, dest, source, seq) ==
  P!setSequenceNumber(P!setSource(P!setDest(P!setType(f, type), dest), source), seq)

Queue(n, to, f) == out' = [out EXCEPT ![n] = Append(@, Packet(to, Len(f), f))]

\* A chunk is read into a frame that has room for the largest.
loadFrames(n, s, to, dest, source, seq, chunk) ==
  LET room   == P!setMsgSize(window[n][s], P!FRAME_MAX_MSG_SIZE)
      filled == Copied(room, P!FRAME_HEADER_SIZE, chunk)
      frame  == P!setMsgSize(Labelled(filled, P!Packet_Type.data, dest, source, seq), Len(chunk))
  IN  /\ window' = [window EXCEPT ![n][s] = frame]
      /\ Queue(n, to, frame)
      /\ UNCHANGED ack

queueAck(n, to, dest, source, seq) ==
  LET frame == P!setMsgSize(Labelled(ack[n], P!Packet_Type.sack, dest, source, seq), 0)
  IN  /\ ack' = [ack EXCEPT ![n] = frame]
      /\ Queue(n, to, frame)
      /\ UNCHANGED window

Send(n) ==
  /\ Make /\ n \in Origins
  /\ \E to \in Addresses(LastNode), dest \in DestPorts, source \in SourcePorts,
        seq \in SequenceNumbers :
       \/ \E s \in Slots, chunk \in Chunks : loadFrames(n, s, to, dest, source, seq, chunk)
       \/ queueAck(n, to, dest, source, seq)
  /\ UNCHANGED <<sending, hearing, advertising, greeting, lookup_queue, wire, transport_in,
                 taking, update_out, update_in, received>>

\* The bytes of a frame as its receiver will read them.
Segment == [bytes \in Seq(Byte) |->
  [type   |-> P!getType(bytes), dest |-> P!getDest(bytes),
   source |-> P!getSource(bytes), seq |-> P!getSequenceNumber(bytes),
   msg    |-> P!getMsg(bytes)]]

TransportReceives(n) ==
  /\ transport_in[n] # <<>>
  /\ LET p     == Head(transport_in[n])
         room  == IF Len(taking[n]) # MIPTP_MAX_SIZE
                  THEN P!setSize(taking[n], MIPTP_MAX_SIZE) ELSE taking[n]
         frame == P!setSize(Copied(room, 0, p.bytes), p.size)
     IN  /\ taking' = [taking EXCEPT ![n] = frame]
         /\ received' = <<<<NodeOf(p.mip), n, "T">>, Segment[frame]>>
  /\ transport_in' = [transport_in EXCEPT ![n] = Tail(@)]
  /\ UNCHANGED <<window, ack, out, sending, hearing, advertising, greeting, lookup_queue,
                 wire, update_out, update_in, made>>

(***************************************************************************)
(* MIP_deamon.                                                             *)
(***************************************************************************)
Addressed(f, n, m) ==
  F!setEthSource(F!setEthDest(f, MAC(AddressOf[<<m, n>>])), MAC(AddressOf[<<n, m>>]))

\* The packet is read behind the header of the static frame.  What is for this
\* node goes back from where it was read, all the room there is.
receiveTransportSock(n) ==
  /\ n \in Origins /\ out[n] # <<>>
  /\ out' = [out EXCEPT ![n] = Tail(@)]
  /\ LET p     == Head(out[n])
         room  == IF F!getMsgSize(sending[n]) # F!MSG_MAX_SIZE
                  THEN F!setMsgSize(sending[n], F!MSG_MAX_SIZE) ELSE sending[n]
         read  == Copied(room, F!FRAME_HEADER_SIZE, p.bytes)
         sized == IF F!getMsgSize(read) # p.size THEN F!setMsgSize(read, p.size) ELSE read
         frame == F!setMipTTL(F!setMipDest(F!setMipTRA(sized, F!TRA.T), p.mip), 255)
     IN  IF p.mip \in Addresses(n)
         THEN /\ transport_in' = [transport_in EXCEPT ![n] =
                   Append(@, [p EXCEPT !.bytes = F!getMsg(read)])]
              /\ sending' = [sending EXCEPT ![n] = sized]
              /\ UNCHANGED lookup_queue
         ELSE /\ sending' = [sending EXCEPT ![n] = frame]
              /\ lookup_queue' = [lookup_queue EXCEPT ![n] =
                   Append(@, [sourced |-> FALSE, frame |-> frame])]
              /\ UNCHANGED transport_in
  /\ UNCHANGED <<window, ack, hearing, advertising, greeting, wire, taking, update_out,
                 update_in, received, made>>

\* The next hop is known.
receiveLookupSock(n) ==
  /\ lookup_queue[n] # <<>>
  /\ LET first == Head(lookup_queue[n])
         m     == Toward(n, NodeOf(F!getMipDest(first.frame)))
         frame == IF first.sourced THEN first.frame
                  ELSE F!setMipSource(first.frame, AddressOf[<<n, m>>])
     IN  wire' = [wire EXCEPT ![<<n, m>>] = Append(@, Addressed(frame, n, m))]
  /\ lookup_queue' = [lookup_queue EXCEPT ![n] = Tail(@)]
  /\ UNCHANGED <<window, ack, out, sending, hearing, advertising, greeting, transport_in,
                 taking, update_out, update_in, received, made>>

\* An ARP frame copies itself behind its own header, through a pointer taken
\* before setMsg makes the frame longer: the first time that memory is gone, later
\* it is the header, which tells the new length already.
SendARP(n, m, tra) ==
  /\ Make
  /\ LET f1 == F!setMipSource(F!setMipDest(F!setMipTRA(greeting[n][tra], F!TRA[tra]),
                  IF tra = "A" THEN 255 ELSE AddressOf[<<m, n>>]), AddressOf[<<n, m>>])
         f2 == F!setMipTTL(F!setMsgSize(f1, 0), 255)
         f3 == IF tra = "A" THEN F!setEthSource(F!setEthDest(f2, MAC(255)), MAC(AddressOf[<<n, m>>]))
               ELSE Addressed(f2, n, m)
         f4 == F!setMsgSize(f3, Len(f3))
     IN  \E copied \in IF Len(greeting[n][tra]) = Len(F!New) THEN Junk
                        ELSE {Slice(f4, 0, Len(f3))} :
           LET frame == Copied(f4, F!FRAME_HEADER_SIZE, copied)
           IN  /\ greeting' = [greeting EXCEPT ![n][tra] = frame]
               /\ wire' = [wire EXCEPT ![<<n, m>>] = Append(@, frame)]
  /\ UNCHANGED <<window, ack, out, sending, hearing, advertising, lookup_queue, transport_in,
                 taking, update_out, update_in, received>>

receiveUpdateSock(n) ==
  /\ update_out[n] # <<>>
  /\ LET p     == Head(update_out[n])
         m     == NodeOf(p.mip)
         read  == Copied(F!setMsgSize(advertising[n], p.size), F!FRAME_HEADER_SIZE, p.bytes)
         frame == Addressed(F!setMipTTL(F!setMipSource(F!setMipDest(F!setMipTRA(read,
                    F!TRA.R), p.mip), AddressOf[<<n, m>>]), 255), n, m)
     IN  /\ advertising' = [advertising EXCEPT ![n] = frame]
         /\ wire' = [wire EXCEPT ![<<n, m>>] = Append(@, frame)]
  /\ update_out' = [update_out EXCEPT ![n] = Tail(@)]
  /\ UNCHANGED <<window, ack, out, sending, hearing, greeting, lookup_queue, transport_in,
                 taking, update_in, received, made>>

\* What ARP frames do to the ARP pairs is the matter of MIPDeamon.
receiveRawSock(m, n) ==
  /\ wire[<<m, n>>] # <<>>
  /\ wire' = [wire EXCEPT ![<<m, n>>] = Tail(@)]
  /\ LET frame == F!recvMipFrame(hearing[n], Head(wire[<<m, n>>]))
         tra   == F!getMipTRA(frame)
         p     == Packet(F!getMipSource(frame), F!getMsgSize(frame), F!getMsg(frame))
         local == F!getMipDest(frame) \in Addresses(n)
         ttl   == F!getMipTTL(frame)
         next  == F!setMipTTL(frame, ttl - 1)
     IN  /\ transport_in' = IF tra = F!TRA.T /\ local
                            THEN [transport_in EXCEPT ![n] = Append(@, p)] ELSE transport_in
         /\ update_in' = IF tra = F!TRA.R
                         THEN [update_in EXCEPT ![n] = Append(@, p)] ELSE update_in
         /\ IF tra = F!TRA.T /\ ~local /\ ttl > 0
            THEN /\ hearing' = [hearing EXCEPT ![n] = next]
                 /\ lookup_queue' = [lookup_queue EXCEPT ![n] =
                      Append(@, [sourced |-> TRUE, frame |-> next])]
            ELSE hearing' = [hearing EXCEPT ![n] = frame] /\ UNCHANGED lookup_queue
  /\ UNCHANGED <<window, ack, out, sending, advertising, greeting, taking, update_out,
                 received, made>>

(***************************************************************************)
(* routing_deamon.                                                         *)
(***************************************************************************)

\* The number of columns in two bytes, and each column in two.
packAdvertisment(columns) ==
  <<ByteOf(Len(columns)), ByteOf(Len(columns) \div 256)>>
  \o FlattenSeq([i \in DOMAIN columns |-> <<ByteOf(columns[i].to), ByteOf(columns[i].cost)>>])

unpackAdvertisment(buf) ==
  [i \in 1..NumberOf(buf[1]) + 256 * NumberOf(buf[2]) |->
     [to |-> NumberOf(buf[2 * i + 1]), cost |-> NumberOf(buf[2 * i + 2])]]

Advertise(n, m) ==
  /\ Make
  /\ \E columns \in Tables :
       LET buf == packAdvertisment(columns)
       IN  update_out' = [update_out EXCEPT ![n] =
             Append(@, Packet(AddressOf[<<m, n>>], Len(buf), buf))]
  /\ UNCHANGED <<window, ack, out, sending, hearing, advertising, greeting, lookup_queue,
                 wire, transport_in, taking, update_in, received>>

RoutingReceives(n) ==
  /\ update_in[n] # <<>>
  /\ LET p == Head(update_in[n])
     IN  received' = <<<<NodeOf(p.mip), n, "R">>, unpackAdvertisment(p.bytes)>>
  /\ update_in' = [update_in EXCEPT ![n] = Tail(@)]
  /\ UNCHANGED <<window, ack, out, sending, hearing, advertising, greeting, lookup_queue,
                 wire, transport_in, taking, update_out, made>>

Next ==
  \E n \in Node :
    \/ Send(n) \/ TransportReceives(n) \/ RoutingReceives(n)
    \/ receiveTransportSock(n) \/ receiveLookupSock(n) \/ receiveUpdateSock(n)
    \/ \E m \in Neighbours(n) :
         \/ Advertise(n, m) \/ receiveRawSock(m, n)
         \/ \E tra \in {"A", "ZERO"} : SendARP(n, m, tra)

Spec == Init /\ [][Next]_vars

(***************************************************************************)
(* Properties                                                              *)
(***************************************************************************)

\* Between handlers every MIPFrame is as long as its header tells, which is
\* what sendMipFrame sends of it, and no MIPTPFrame is cut short.
TypeOK ==
  /\ \A n \in Node :
       /\ \A f \in {sending[n], hearing[n], advertising[n], greeting[n].A, greeting[n].ZERO}
                   \cup {e.frame : e \in ToSet(lookup_queue[n])} : F!WellSized(f)
       /\ Len(taking[n]) >= P!FRAME_HEADER_SIZE + P!getPadding(taking[n])
  /\ \A e \in DOMAIN wire : \A f \in ToSet(wire[e]) : F!WellSized(f)
  /\ \A n \in Origins : \A s \in Slots : Len(window[n][s]) <= MIPTP_MAX_SIZE
  /\ made \in 0..MaxFrames

\* Whatever the static frames held before, a packet on a link tells how many
\* nodes forwarded it, in a TTL of four bits, and a frame for one neighbour is
\* addressed by both ends of the link.
HopsCounted ==
  \A e \in DOMAIN wire : \A f \in ToSet(wire[e]) :
    LET tra == F!getMipTRA(f)
    IN  /\ tra = F!TRA.T => F!getMipTTL(f) = 15 - Cardinality(
             {n \in Node : NodeOf(F!getMipSource(f)) <= n /\ n < e[1]})
        /\ tra # F!TRA.A => F!getEthDest(f) = MAC(AddressOf[<<e[2], e[1]>>])
        /\ F!getEthSource(f) = MAC(AddressOf[e])

(***************************************************************************)
(* The channels: from an origin to the last node, and from every node to   *)
(* its neighbours.                                                         *)
(***************************************************************************)
Channels ==
  {<<n, LastNode, "T">> : n \in Origins} \cup {<<e[1], e[2], "R">> : e \in DOMAIN AddressOf}

Segments ==
  [type : {P!Packet_Type.data}, dest : DestPorts, source : SourcePorts,
   seq : SequenceNumbers, msg : Chunks]
  \cup [type : {P!Packet_Type.sack}, dest : DestPorts, source : SourcePorts,
        seq : SequenceNumbers, msg : {<<>>}]

SegmentsOf(packets) ==
  [i \in DOMAIN packets |-> Segment[P!setSize(packets[i].bytes, packets[i].size)]]

Carried(frames, n) ==
  LET from == SelectSeq(frames, LAMBDA f :
                F!getMipTRA(f) = F!TRA.T /\ NodeOf(F!getMipSource(f)) = n)
  IN  [i \in DOMAIN from |-> Segment[F!getMsg(from[i])]]

Waiting(m, n) ==
  LET here == SelectSeq(lookup_queue[m], LAMBDA e :
                IF e.sourced THEN NodeOf(F!getMipSource(e.frame)) = n ELSE m = n)
  IN  [i \in DOMAIN here |-> Segment[F!getMsg(here[i].frame)]]

\* From the last node back to the origin.
UnderWayT(n) ==
  SegmentsOf(SelectSeq(transport_in[LastNode], LAMBDA p : NodeOf(p.mip) = n))
  \o FlattenSeq([k \in 1..LastNode - n |->
       LET m == LastNode - k IN Carried(wire[<<m, m + 1>>], n) \o Waiting(m, n)])
  \o SegmentsOf(out[n])

UnderWayR(n, m) ==
  LET Read(packets) == [i \in DOMAIN packets |-> unpackAdvertisment(packets[i].bytes)]
      adverts == SelectSeq(wire[<<n, m>>], LAMBDA f : F!getMipTRA(f) = F!TRA.R)
  IN  Read(SelectSeq(update_in[m], LAMBDA p : NodeOf(p.mip) = n))
      \o [i \in DOMAIN adverts |-> unpackAdvertisment(F!getMsg(adverts[i]))]
      \o Read(SelectSeq(update_out[n], LAMBDA p : NodeOf(p.mip) = m))

\* Segments and advertisements arrive as they were sent, in order, to whom they
\* were sent: neither the padding of MIPTPFrame nor the rounding of MIPFrame,
\* nor what static frames, reused slots and copies past the end of a message
\* held before, is ever taken for content.
Channel == INSTANCE FrameChannel WITH
  Channel <- Channels,
  Content <- [c \in Channels |-> IF c[3] = "T" THEN Segments ELSE Tables],
  queue   <- [c \in Channels |-> IF c[3] = "T" THEN UnderWayT(c[1]) ELSE UnderWayR(c[1], c[2])],
  arrived <- received
ImplementsChannel == Channel!Spec
=============================================================================
