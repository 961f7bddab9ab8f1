------------------------ MODULE ConnectionInvariant ------------------------
(***************************************************************************)
(* The inductive invariants of a connection.                               *)
(*                                                                         *)
(* StreamNumbers, behind StreamIntact and AckNeverAhead.  Counted from the *)
(* start of the stream, without wrapping: the client has loaded Loaded     *)
(* chunks and dropped Dropped of them from its window, the server has      *)
(* taken Received.  The invariant says which of these counts each wrapping *)
(* number of the code stands for.                                          *)
(*                                                                         *)
(* RequestAnswers, behind ToldAfterServer and AnsweredOnce: how far each   *)
(* request is, seen from the handler, its socket and the replies sent.     *)
(***************************************************************************)
EXTENDS Connection

Loaded(h)   == h.m_total_data_loaded
Dropped(h)  == Loaded(h) - Len(h.m_frame_window)
Received(h) == h.m_total_data_received

\* Frame f carries chunk k under the number the window gives it.
Carries(f, k) ==
  f.type = "data" /\ f.msg = <<k>> /\ f.seq = (k - 1) % SequenceSize

ChunkIn(f) == f.msg[1]

\* The first n chunks of the stream.
Prefix(n) == [i \in 1..n |-> i]

\* The numbers of a client: its base stands for Dropped, its window holds the
\* chunks after it, its socket the chunks after those.
ClientNumbers(h, s) ==
  /\ h.m_type # "server" /\ s.ask.kind = "client"
  /\ Dropped(h) \in Nat /\ h.m_sequence_base = Dropped(h) % SequenceSize
  /\ \A i \in 1..Len(h.m_frame_window) : Carries(h.m_frame_window[i], Dropped(h) + i)
  /\ \A i \in 1..Len(s.in) : s.in[i] = Loaded(h) + i

\* The numbers of a server: the frame it waits for is the one after Received.
ServerNumbers(h, s) ==
  /\ h.m_type # "client" /\ s.ask.kind = "server"
  /\ h.m_frame_window = <<>>
  /\ h.m_current_ack = Received(h) % SequenceSize
  /\ s.delivered \o h.m_msg_buffer = Prefix(Received(h))

\* Data on its way was loaded and is less than a window behind the server, and
\* no frame is a window ahead of a later one: an old copy is never taken for
\* the chunk that has its number in the next turn.
DataNumbers(q, received, loaded) ==
  /\ \A i \in 1..Len(q) : q[i].type = "data" =>
       /\ ChunkIn(q[i]) \in 1..loaded /\ Carries(q[i], ChunkIn(q[i]))
       /\ received < ChunkIn(q[i]) + WindowSize
  /\ \A i, j \in 1..Len(q) : i < j /\ q[i].type = "data" /\ q[j].type = "data" =>
       ChunkIn(q[i]) < ChunkIn(q[j]) + WindowSize

\* Acknowledgements on their way name counts from Dropped to Received, in
\* ascending order.
AckNumbers(q, dropped, received) ==
  /\ \A i \in 1..Len(q) : q[i].type = "sack" =>
       \E a \in dropped..received : q[i].seq = a % SequenceSize
  /\ \A i, j \in 1..Len(q) : i < j /\ q[i].type = "sack" /\ q[j].type = "sack" =>
       \A a, b \in dropped..received :
         q[i].seq = a % SequenceSize /\ q[j].seq = b % SequenceSize => a <= b

\* The whole stream is the server's part, the window, and the socket; each
\* sequence number in it and on the way stands for the right chunk.
StreamNumbers ==
  /\ ClientNumbers(client, capp) /\ ServerNumbers(server, sapp)
  /\ Dropped(client) <= Received(server) /\ Received(server) <= Loaded(client)
  /\ DataNumbers(toServer, Received(server), Loaded(client))
  /\ AckNumbers(toClient, Dropped(client), Received(server))

Inv == TypeOK /\ StreamNumbers

\* A handler still has to answer its application up to the stages that wait for
\* a peer.
Unanswered(h, s) ==
  h.m_stage \in {"application", "listen", "wait_reply"} => s.reply = "none"

\* Only the server listens, and it is connected, or a reply of it under way,
\* only once its application was told.
RequestAnswers ==
  /\ Unanswered(client, capp) /\ Unanswered(server, sapp)
  /\ client.m_stage # "listen"
  /\ server.m_stage = "connected" => sapp.reply = "success"
  /\ \A i \in 1..Len(toClient) : toClient[i].type = "reply" => sapp.reply = "success"
  /\ ToldAfterServer
=============================================================================
