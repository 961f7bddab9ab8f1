------------------------ MODULE NodeProcessesProofs ------------------------
(***************************************************************************)
(* What holds of a node's processes for sockets and queues of every size:  *)
(* the types, and that MIP_deamon and routing_deamon never wait for each   *)
(* other.                                                                  *)
(***************************************************************************)
EXTENDS NodeProcesses, TLAPS

(***************************************************************************)
(* The inductive invariant                                                 *)
(***************************************************************************)
\* The rest of a message about a neighbour, of which the first write is done.
Half == <<Send("update_in", 0)>>

\* What the main threads may have before them.
MIPTodo ==
  {<<>>, <<Send("update_in", 1), Send("update_in", 0)>>, Half,
   <<Send("lookup_in", 0)>>, <<Send("packets_out", 0)>>,
   <<Recv("update_out")>>, <<Recv("lookup_out")>>}

Reads(s) == <<Recv(s)>>

RoutingTodo == {<<>>, Reads("update_in"), Reads("lookup_in")}

\* The workers only write, each on its own socket.
Shapes ==
  /\ todo["MIP"] \in MIPTodo /\ todo["routing"] \in RoutingTodo
  /\ at["MIP"] \notin {"setup", "serve"} => todo["MIP"] = <<>>
  /\ at["routing"] # "serve" => todo["routing"] = <<>>
  /\ \A w \in Worker : \A i \in DOMAIN todo[w] :
       todo[w][i].op = "send" /\ todo[w][i].on = OutOf(w)

\* An item that tells of another is followed by one that does not.
Alternates(s) == \A i, j \in 1..Len(s) : j = i + 1 => s[i] # s[j]

\* What is in update_in and what both sides have before them are whole
\* messages, while both live.
UpdatesFramed ==
  LET s == sock["update_in"]
  IN  /\ Alternates(s)
      /\ (~Gone("MIP") /\ ~Gone("routing")) =>
           /\ s # <<>> => (s[Len(s)] = 1 <=> todo["MIP"] = Half)
           /\ s = <<>> => (todo["MIP"] = Half <=> todo["routing"] = Reads("update_in"))
           /\ s # <<>> /\ todo["routing"] # Reads("update_in") => s[1] = 1

\* A lookup is a single write.
LookupsFramed ==
  /\ \A i \in 1..Len(sock["lookup_in"]) : sock["lookup_in"][i] = 0
  /\ todo["routing"] = Reads("lookup_in") => sock["lookup_in"] # <<>>

IInv == TypeOK /\ Shapes /\ UpdatesFramed /\ LookupsFramed

(***************************************************************************)
(* Messages                                                                *)
(***************************************************************************)
\* Reads and writes of any socket are well typed.
LEMMA OpType ==
  ASSUME NEW s \in Sock
  PROVE  /\ Recv(s) \in Op
         /\ \A x \in 0..1 : Send(s, x) \in Op
  BY DEF Recv, Send, Op

\* A message of one or two writes, spelled out.
LEMMA MessageIs ==
  ASSUME NEW s
  PROVE  /\ Message(s, 1) = <<Send(s, 0)>>
         /\ Message(s, 2) = <<Send(s, 1), Send(s, 0)>>
  BY DEF Message, Send

\* What is left to read after the first item of a message.
LEMMA RestIs ==
  ASSUME NEW o
  PROVE  /\ Rest(o, 0) = <<>>
         /\ Rest(o, 1) = <<Recv(o.on)>>
  BY DEF Rest, Recv

\* A message is a sequence of operations.
LEMMA MessageType ==
  ASSUME NEW s \in Sock, NEW n \in 1..2
  PROVE  Message(s, n) \in Seq(Op)
  <1>1. CASE n = 1
    <2>1. <<Send(s, 0)>> \in Seq(Op)
      BY OpType
    <2>2. QED
      BY <1>1, <2>1, MessageIs
  <1>2. CASE n = 2
    <2>1. <<Send(s, 1), Send(s, 0)>> \in Seq(Op)
      BY OpType
    <2>2. QED
      BY <1>2, <2>1, MessageIs
  <1>3. QED
    BY <1>1, <1>2

(***************************************************************************)
(* Types                                                                   *)
(***************************************************************************)
\* The start is well typed.
LEMMA InitType == Init => TypeOK
  BY ProcessesAssumption DEF Init, TypeOK, Process, Places, Sock, Thread, Worker

\* So is what a process leaves behind.
LEMMA EndsType ==
  ASSUME TypeOK, NEW p \in Process, NEW how \in {"ended", "aborted"},
         Ends(p, how), UNCHANGED sock
  PROVE  TypeOK'
  BY ProcessesAssumption DEF TypeOK, Ends, Moves, Process, Places, Thread, Worker

\* A read or a write keeps the types.
LEMMA OperateType ==
  ASSUME TypeOK, NEW t \in Thread, Operate(t)
  PROVE  /\ sock' \in [Sock -> Seq(0..1)]
         /\ \A s \in Sock : Len(sock'[s]) <= SockItems
         /\ todo' \in [Thread -> Seq(Op)]
  <1> DEFINE o == Head(todo[t])
  <1>1. todo \in [Thread -> Seq(Op)] /\ todo[t] \in Seq(Op) /\ todo[t] # <<>>
    BY DEF Operate, TypeOK, Op
  <1>2. o \in Op /\ Tail(todo[t]) \in Seq(Op)
    BY <1>1
  <1>3. o.on \in Sock /\ o.item \in 0..1
    BY <1>2 DEF Op
  <1>4. sock[o.on] \in Seq(0..1) /\ Len(sock[o.on]) <= SockItems
    BY <1>3 DEF TypeOK
  <1>5. CASE o.op = "send"
    <2>1. Len(sock[o.on]) # SockItems
      BY <1>1, <1>5 DEF Operate, Blocked
    <2>2. sock' = [sock EXCEPT ![o.on] = Append(@, o.item)]
          /\ todo' = [todo EXCEPT ![t] = Tail(@)]
      BY <1>5 DEF Operate
    <2>3. QED
      BY <1>1, <1>2, <1>3, <1>4, <2>1, <2>2, ProcessesAssumption DEF TypeOK
  <1>6. CASE o.op # "send"
    <2>1. sock[o.on] # <<>>
      BY <1>1, <1>6 DEF Operate, Blocked
    <2>2. sock' = [sock EXCEPT ![o.on] = Tail(@)]
          /\ todo' = [todo EXCEPT ![t] = Rest(o, Head(sock[o.on])) \o Tail(@)]
      BY <1>6 DEF Operate
    <2>3. Head(sock[o.on]) \in 0..1 /\ Tail(sock[o.on]) \in Seq(0..1)
          /\ Len(Tail(sock[o.on])) <= SockItems
      BY <1>4, <2>1, ProcessesAssumption
    <2>4. Rest(o, Head(sock[o.on])) \in Seq(Op)
      <3>1. Rest(o, 0) = <<>> /\ Rest(o, 1) = <<Recv(o.on)>>
        BY RestIs
      <3>2. <<>> \in Seq(Op) /\ <<Recv(o.on)>> \in Seq(Op)
        BY OpType, <1>3
      <3>3. Head(sock[o.on]) = 0 \/ Head(sock[o.on]) = 1
        BY <2>3
      <3>4. CASE Head(sock[o.on]) = 0
        BY <3>1, <3>2, <3>4
      <3>5. CASE Head(sock[o.on]) = 1
        BY <3>1, <3>2, <3>5
      <3>6. QED
        BY <3>3, <3>4, <3>5
    <2>5. Rest(o, Head(sock[o.on])) \o Tail(todo[t]) \in Seq(Op)
      BY <1>2, <2>4
    <2>6. QED
      BY <1>1, <1>3, <2>2, <2>3, <2>5 DEF TypeOK
  <1>7. QED
    BY <1>5, <1>6

\* The steps that give a thread operations keep the types.
LEMMA TakesType ==
  ASSUME TypeOK, NEW t \in Thread, NEW ops \in Seq(Op),
         todo' = [todo EXCEPT ![t] = ops]
  PROVE  todo' \in [Thread -> Seq(Op)]
  BY DEF TypeOK

\* Every step keeps the types.
LEMMA NextType ==
  ASSUME TypeOK, [Next]_vars
  PROVE  TypeOK'
  <1> USE DEF TypeOK
  <1>p. "transport" \in Process /\ "MIP" \in Process /\ "routing" \in Process
        /\ "MIP" \in Thread /\ "routing" \in Thread /\ Worker \subseteq Thread
        /\ "update" \in Worker /\ "lookup" \in Worker
    BY DEF Process, Thread, Worker
  <1>m. ASSUME NEW p \in Process, NEW place \in Places, Moves(p, place)
        PROVE  at' \in [Process -> Places]
    BY <1>m DEF Moves
  <1>1. CASE UNCHANGED vars
    BY <1>1 DEF vars
  <1>2. CASE transport_deamon
    <2>1. CASE AcceptApplication
      BY <2>1, <1>p, EndsType DEF AcceptApplication
    <2>2. CASE ForkMIP \/ StartTransport \/ ServeApplication
      BY <2>2, <1>p DEF ForkMIP, StartTransport, ServeApplication, Serving, Moves, Places
    <2>3. CASE ServePackets
      BY <2>3, <1>p, ProcessesAssumption DEF ServePackets, Serving, Moves, Places, Sock
    <2>4. QED
      BY <1>2, <2>1, <2>2, <2>3 DEF transport_deamon
  <1>3. CASE MIP_deamon
    <2>1. CASE StartMIP
      <3>1. Message("update_in", 2) \in Seq(Op)
        BY MessageType DEF Sock
      <3>2. QED
        BY <2>1, <3>1, <1>p, TakesType DEF StartMIP, Places
    <2>6. CASE SetUpMIP
      <3>1. CASE Ends("MIP", "aborted")
        BY <2>6, <3>1, <1>p, EndsType DEF SetUpMIP
      <3>2. CASE ~Ends("MIP", "aborted")
        BY <2>6, <3>2, <1>p DEF SetUpMIP, Test, Moves, Places
      <3>3. QED
        BY <3>1, <3>2
    <2>2. CASE ServeNetwork
      <3>1. PICK ops \in {<<>>, Message("update_in", 2), Message("lookup_in", 1),
                          Message("packets_out", 1)} :
               todo' = [todo EXCEPT !["MIP"] = ops]
        BY <2>2 DEF ServeNetwork
      <3>2. Message("update_in", 2) \in Seq(Op) /\ Message("lookup_in", 1) \in Seq(Op)
            /\ Message("packets_out", 1) \in Seq(Op) /\ <<>> \in Seq(Op)
        BY MessageType DEF Sock
      <3>3. todo' \in [Thread -> Seq(Op)]
        BY <3>1, <3>2, <1>p, TakesType
      <3>4. QED
        BY <2>2, <3>3, <1>p DEF ServeNetwork, Serving, Moves, Places
    <2>3. ASSUME NEW s \in {"update_out", "lookup_out"}, receiveFrom(s)
          PROVE  TypeOK'
      <3>1. <<Recv(s)>> \in Seq(Op)
        BY OpType DEF Sock
      <3>2. todo' \in [Thread -> Seq(Op)]
        BY <2>3, <3>1, <1>p, TakesType DEF receiveFrom
      <3>3. QED
        BY <2>3, <3>2, <1>p DEF receiveFrom, Serving, Moves, Places
    <2>4. CASE OperateMIP
      BY <2>4, <1>p, OperateType DEF OperateMIP
    <2>5. QED
      BY <1>3, <2>1, <2>2, <2>3, <2>4, <2>6 DEF MIP_deamon
  <1>4. CASE routing_deamon
    <2>1. CASE StartRouting
      BY <2>1, <1>p DEF StartRouting, Moves, Places
    <2>2. CASE OperateRouting
      BY <2>2, <1>p, OperateType DEF OperateRouting
    <2>3. ASSUME NEW w \in Worker, receiveSock(w)
          PROVE  TypeOK'
      <3>1. InOf(w) \in Sock
        BY DEF InOf, Sock, Worker
      <3>2. <<Recv(InOf(w))>> \o Afterwards(w) \in Seq(Op)
        BY <3>1, OpType DEF Afterwards
      <3>3. todo' \in [Thread -> Seq(Op)]
        BY <2>3, <3>2, <1>p, TakesType DEF receiveSock
      <3>4. queue' \in [Worker -> 0..MaxQueue]
        BY <2>3, ProcessesAssumption DEF receiveSock
      <3>5. QED
        BY <2>3, <3>3, <3>4, <1>p DEF receiveSock, Serving, Moves, Places
    <2>4. ASSUME NEW w \in Worker, Take(w)
          PROVE  TypeOK'
      <3>1. PICK n \in 1..2 : todo' = [todo EXCEPT ![w] = Message(OutOf(w), n)]
        <4>1. PICK n \in IF w = "update" THEN {2} ELSE Answers :
                 todo' = [todo EXCEPT ![w] = Message(OutOf(w), n)]
          BY <2>4 DEF Take
        <4>2. n \in 1..2
          BY ProcessesAssumption
        <4>3. QED
          BY <4>1, <4>2
      <3>2. Message(OutOf(w), n) \in Seq(Op)
        BY MessageType DEF OutOf, Sock, Worker
      <3>3. todo' \in [Thread -> Seq(Op)]
        BY <3>1, <3>2, <1>p, TakesType
      <3>4. queue' \in [Worker -> 0..MaxQueue]
        BY <2>4, ProcessesAssumption DEF Take, Queued
      <3>5. QED
        BY <2>4, <3>3, <3>4 DEF Take
    <2>5. ASSUME NEW w \in Worker, OperateWorker(w)
          PROVE  TypeOK'
      BY <2>5, <1>p, OperateType DEF OperateWorker
    <2>6. ASSUME NEW w \in Worker, LeaveWorker(w)
          PROVE  TypeOK'
      BY <2>6 DEF LeaveWorker
    <2>7. QED
      BY <1>4, <2>1, <2>2, <2>3, <2>4, <2>5, <2>6 DEF routing_deamon
  <1>5. ASSUME NEW p \in Process, Loop(p)
        PROVE  TypeOK'
    <2>1. CASE EnterWait(p)
      <3>1. CASE p \in closed
        BY <2>1, <3>1, EndsType DEF EnterWait
      <3>2. CASE p \notin closed
        BY <2>1, <3>2 DEF EnterWait, Moves, Places
      <3>3. QED
        BY <3>1, <3>2
    <2>2. CASE EndBatch(p)
      BY <2>2 DEF EndBatch, Test, Moves, Places
    <2>3. CASE Bereave(p)
      BY <2>3, EndsType DEF Bereave
    <2>4. CASE Join(p)
      BY <2>4, EndsType DEF Join
    <2>5. QED
      BY <1>5, <2>1, <2>2, <2>3, <2>4 DEF Loop
  <1>6. ASSUME NEW p \in Process, Signal(p)
        PROVE  TypeOK'
    <2>1. CASE Ends(p, "aborted")
      BY <1>6, <2>1, EndsType DEF Signal
    <2>2. CASE ~Ends(p, "aborted")
      BY <1>6, <2>2 DEF Signal, Moves, Places
    <2>3. QED
      BY <2>1, <2>2
  <1>7. QED
    BY <1>1, <1>2, <1>3, <1>4, <1>5, <1>6 DEF Next

\* Every variable has its type, sockets never hold more than fits and queues are
\* never taken from when they are empty.
THEOREM TypeCorrect == Spec => []TypeOK
  <1>1. Init => TypeOK
    BY InitType
  <1>2. TypeOK /\ [Next]_vars => TypeOK'
    BY NextType
  <1>3. QED
    BY <1>1, <1>2, PTL DEF Spec

(***************************************************************************)
(* Reads and writes, one at a time                                         *)
(***************************************************************************)
\* A write puts its item into its socket.
LEMMA SendStep ==
  ASSUME TypeOK, NEW t \in Thread, Operate(t), NEW s \in Sock, NEW x \in 0..1,
         Head(todo[t]) = Send(s, x)
  PROVE  /\ sock'[s] = Append(sock[s], x) /\ \A r \in Sock \ {s} : sock'[r] = sock[r]
         /\ todo'[t] = Tail(todo[t]) /\ \A u \in Thread \ {t} : todo'[u] = todo[u]
  <1>1. Send(s, x).op = "send" /\ Send(s, x).on = s /\ Send(s, x).item = x
    BY DEF Send
  <1>2. /\ sock' = [sock EXCEPT ![s] = Append(@, x)]
        /\ todo' = [todo EXCEPT ![t] = Tail(@)]
    BY <1>1 DEF Operate
  <1>3. QED
    BY <1>2 DEF TypeOK

\* What an item more makes of a socket.
LEMMA Appended ==
  ASSUME NEW s \in Seq(0..1), NEW x \in 0..1
  PROVE  /\ Append(s, x) # <<>>
         /\ Append(s, x)[Len(Append(s, x))] = x
         /\ Append(s, x)[1] = IF s = <<>> THEN x ELSE s[1]
         /\ (\A i \in 1..Len(s) : s[i] = x) =>
              \A i \in 1..Len(Append(s, x)) : Append(s, x)[i] = x
         /\ (Alternates(s) /\ (s # <<>> => s[Len(s)] # x)) => Alternates(Append(s, x))
  <1>1. /\ Append(s, x) \in Seq(0..1) /\ Len(Append(s, x)) = Len(s) + 1
        /\ \A i \in 1..Len(s) : Append(s, x)[i] = s[i]
        /\ Append(s, x)[Len(s) + 1] = x
        /\ Len(s) \in Nat
    OBVIOUS
  <1> DEFINE r == Append(s, x)
  <1> HIDE DEF r
  <1>2. /\ r \in Seq(0..1) /\ Len(r) = Len(s) + 1 /\ Len(s) \in Nat
        /\ \A i \in 1..Len(s) : r[i] = s[i]
        /\ r[Len(s) + 1] = x
    BY <1>1 DEF r
  <1>3. r # <<>> /\ r[Len(r)] = x
    BY <1>2
  <1>4. r[1] = IF s = <<>> THEN x ELSE s[1]
    <2>1. CASE s = <<>>
      BY <1>2, <2>1
    <2>2. CASE s # <<>>
      BY <1>2, <2>2
    <2>3. QED
      BY <2>1, <2>2
  <1>5. ASSUME \A i \in 1..Len(s) : s[i] = x, NEW i \in 1..Len(r)
        PROVE  r[i] = x
    BY <1>2, <1>5
  <1>6. ASSUME Alternates(s), s # <<>> => s[Len(s)] # x, NEW i \in 1..Len(r),
               NEW j \in 1..Len(r), j = i + 1
        PROVE  r[i] # r[j]
    <2>1. i \in 1..Len(s) /\ s # <<>>
      BY <1>2, <1>6
    <2>2. CASE j = Len(s) + 1
      <3>1. i = Len(s)
        BY <1>2, <1>6, <2>2
      <3>2. r[i] = s[Len(s)]
        BY <1>2, <2>1, <3>1
      <3>3. r[j] = x
        BY <1>2, <2>2
      <3>4. QED
        BY <1>6, <2>1, <3>2, <3>3
    <2>3. CASE j \in 1..Len(s)
      BY <1>2, <1>6, <2>1, <2>3 DEF Alternates
    <2>4. QED
      BY <1>2, <2>2, <2>3
  <1>7. QED
    BY <1>3, <1>4, <1>5, <1>6 DEF r, Alternates

\* A single read takes an item, and goes on if that tells of another.
LEMMA RecvStep ==
  ASSUME TypeOK, NEW t \in Thread, Operate(t), NEW s \in Sock, todo[t] = Reads(s)
  PROVE  /\ sock[s] # <<>>
         /\ sock'[s] = Tail(sock[s]) /\ \A r \in Sock \ {s} : sock'[r] = sock[r]
         /\ todo'[t] = IF Head(sock[s]) = 1 THEN Reads(s) ELSE <<>>
         /\ \A u \in Thread \ {t} : todo'[u] = todo[u]
  <1> DEFINE o == Recv(s)
             n == Head(sock[s])
  <1>1. o.op = "recv" /\ o.on = s
    BY DEF Recv
  <1>2. Head(todo[t]) = o /\ Tail(todo[t]) = <<>> /\ todo[t] # <<>>
    BY DEF Reads
  <1>3. sock[s] # <<>>
    BY <1>1, <1>2 DEF Operate, Blocked
  <1>4. n = 0 \/ n = 1
    BY <1>3 DEF TypeOK
  <1>5. /\ sock' = [sock EXCEPT ![s] = Tail(@)]
        /\ todo' = [todo EXCEPT ![t] = Rest(o, n) \o Tail(@)]
    BY <1>1, <1>2 DEF Operate
  <1>6. Rest(o, n) \o Tail(todo[t]) = IF n = 1 THEN Reads(s) ELSE <<>>
    <2>1. CASE n = 0
      <3>1. Rest(o, n) = <<>>
        BY <2>1, RestIs
      <3>2. Rest(o, n) \o Tail(todo[t]) = <<>>
        BY <3>1, <1>2
      <3>3. n # 1
        BY <2>1
      <3>4. QED
        BY <3>2, <3>3
    <2>2. CASE n = 1
      <3>1. Rest(o, n) = <<Recv(s)>>
        BY <1>1, <2>2, RestIs
      <3>2. Rest(o, n) \o Tail(todo[t]) = Reads(s)
        BY <3>1, <1>2 DEF Reads
      <3>3. QED
        BY <3>2, <2>2
    <2>3. QED
      BY <1>4, <2>1, <2>2
  <1>7. todo' = [todo EXCEPT ![t] = Rest(o, n) \o Tail(todo[t])]
    BY <1>5
  <1>8. /\ sock'[s] = Tail(sock[s]) /\ \A r \in Sock \ {s} : sock'[r] = sock[r]
        /\ todo'[t] = Rest(o, n) \o Tail(todo[t])
        /\ \A u \in Thread \ {t} : todo'[u] = todo[u]
    BY <1>5, <1>7 DEF TypeOK
  <1>9. QED
    BY <1>3, <1>6, <1>8

\* No two of the sequences that the main threads have before them are the same.
LEMMA Distinct ==
  /\ Half # <<>> /\ Half # <<Send("lookup_in", 0)>> /\ Half # <<Send("packets_out", 0)>>
  /\ Half # <<Send("update_in", 1), Send("update_in", 0)>>
  /\ \A s : Half # Reads(s) /\ Reads(s) # <<>>
  /\ Reads("update_in") # Reads("lookup_in")
  BY DEF Half, Reads, Send, Recv

(***************************************************************************)
(* The invariant                                                           *)
(***************************************************************************)
\* The start satisfies it.
LEMMA InitIInv == Init => IInv
  <1> SUFFICES ASSUME Init PROVE IInv
    OBVIOUS
  <1>1. TypeOK
    BY InitType
  <1>2. Shapes
    BY DEF Init, Shapes, MIPTodo, RoutingTodo, Thread, Worker
  <1>3. UpdatesFramed
    <2>1. sock["update_in"] = <<>> /\ todo["MIP"] = <<>> /\ todo["routing"] = <<>>
      BY DEF Init, Sock, Thread
    <2>2. QED
      BY <2>1, Distinct DEF UpdatesFramed, Alternates
  <1>4. LookupsFramed
    <2>1. sock["lookup_in"] = <<>> /\ todo["routing"] = <<>>
      BY DEF Init, Sock, Thread
    <2>2. QED
      BY <2>1, Distinct DEF LookupsFramed
  <1>5. QED
    BY <1>1, <1>2, <1>3, <1>4 DEF IInv

\* What a step leaves alone keeps its frames.
LEMMA Steady ==
  ASSUME IInv,
         sock'["update_in"] = sock["update_in"], sock'["lookup_in"] = sock["lookup_in"],
         todo'["MIP"] = Half <=> todo["MIP"] = Half, todo'["routing"] = todo["routing"],
         Gone("MIP") => Gone("MIP")', Gone("routing") => Gone("routing")'
  PROVE  UpdatesFramed' /\ LookupsFramed'
  BY DEF IInv, UpdatesFramed, LookupsFramed, Alternates

\* A process that ends leaves no half message behind that anyone waits for.
LEMMA EndsIInv ==
  ASSUME IInv, NEW p \in Process, NEW how \in {"ended", "aborted"},
         Ends(p, how), UNCHANGED sock
  PROVE  IInv'
  <1>1. TypeOK'
    BY EndsType DEF IInv
  <1>2. /\ at' = [at EXCEPT ![p] = how]
        /\ \A t \in Thread : todo'[t] = IF t \in Threads(p) THEN <<>> ELSE todo[t]
    BY DEF Ends, Moves
  <1>3. /\ Threads("transport") = {} /\ Threads("MIP") = {"MIP"}
        /\ Threads("routing") = {"routing", "update", "lookup"}
    BY DEF Threads, Worker
  <1>4. /\ "MIP" \in Thread /\ "routing" \in Thread
        /\ "update" \in Thread /\ "lookup" \in Thread
        /\ Worker = {"update", "lookup"} /\ Process = {"transport", "MIP", "routing"}
    BY DEF Thread, Worker, Process
  <1>5. at \in [Process -> Places]
    BY DEF IInv, TypeOK
  <1>6. Shapes'
    <2>1. todo'["MIP"] \in MIPTodo /\ todo'["routing"] \in RoutingTodo
      BY <1>2, <1>3, <1>4 DEF IInv, Shapes, MIPTodo, RoutingTodo
    <2>2. /\ at'["MIP"] \notin {"setup", "serve"} => todo'["MIP"] = <<>>
          /\ at'["routing"] # "serve" => todo'["routing"] = <<>>
      BY <1>2, <1>3, <1>4, <1>5 DEF IInv, Shapes
    <2>3. ASSUME NEW w \in Worker, NEW i \in DOMAIN todo'[w]
          PROVE  todo'[w][i].op = "send" /\ todo'[w][i].on = OutOf(w)
      BY <1>2, <1>3, <1>4 DEF IInv, Shapes
    <2>4. QED
      BY <2>1, <2>2, <2>3 DEF Shapes
  <1>7. UpdatesFramed' /\ LookupsFramed'
    <2>1. CASE p = "transport"
      BY <2>1, <1>2, <1>3, <1>4, <1>5, Steady DEF Gone
    <2>2. CASE p = "MIP"
      <3>1. Gone("MIP")'
        BY <2>2, <1>2, <1>4, <1>5 DEF Gone
      <3>2. todo'["routing"] = todo["routing"]
        BY <2>2, <1>2, <1>3, <1>4
      <3>3. QED
        BY <3>1, <3>2 DEF IInv, UpdatesFramed, LookupsFramed, Alternates
    <2>3. CASE p = "routing"
      <3>1. Gone("routing")'
        BY <2>3, <1>2, <1>4, <1>5 DEF Gone
      <3>2. todo'["routing"] = <<>>
        BY <2>3, <1>2, <1>3, <1>4
      <3>3. QED
        BY <3>1, <3>2, Distinct DEF IInv, UpdatesFramed, LookupsFramed, Alternates
    <2>4. QED
      BY <1>4, <2>1, <2>2, <2>3
  <1>8. QED
    BY <1>1, <1>6, <1>7 DEF IInv
(***************************************************************************)
(* The steps of the main threads                                           *)
(***************************************************************************)
\* The names of the threads and sockets belong where they should.
LEMMA Names ==
  /\ "MIP" \in Thread /\ "routing" \in Thread /\ "update" \in Thread /\ "lookup" \in Thread
  /\ "transport" \in Process /\ "MIP" \in Process /\ "routing" \in Process
  /\ "update" \in Worker /\ "lookup" \in Worker /\ Worker = {"update", "lookup"}
  /\ Sock = {"packets_out", "update_in", "update_out", "lookup_in", "lookup_out"}
  /\ "packets_out" \in Sock /\ "update_in" \in Sock /\ "update_out" \in Sock
  /\ "lookup_in" \in Sock /\ "lookup_out" \in Sock
  BY DEF Thread, Process, Worker, Sock

\* A step of one main thread, with the workers as they are.
LEMMA OthersShaped ==
  ASSUME IInv, NEW t \in {"MIP", "routing"}, NEW ops,
         todo'[t] = ops, \A u \in Thread \ {t} : todo'[u] = todo[u],
         t = "MIP" => ops \in MIPTodo, t = "routing" => ops \in RoutingTodo,
         at'[t] = "serve" \/ (t = "MIP" /\ at'[t] = "setup"),
         \A u \in {"MIP", "routing"} \ {t} : at'[u] = at[u] \/ todo[u] = <<>>
  PROVE  Shapes'
  <1>1. /\ todo'[t] = ops
        /\ \A u \in Thread : u # t => todo'[u] = todo[u]
    OBVIOUS
  <1>2. todo'["MIP"] \in MIPTodo /\ todo'["routing"] \in RoutingTodo
    BY <1>1, Names DEF IInv, Shapes
  <1>3. /\ at'["MIP"] \notin {"setup", "serve"} => todo'["MIP"] = <<>>
        /\ at'["routing"] # "serve" => todo'["routing"] = <<>>
    BY <1>1, Names DEF IInv, Shapes
  <1>4. \A w \in Worker : todo'[w] = todo[w]
    BY <1>1, Names
  <1>5. QED
    BY <1>2, <1>3, <1>4 DEF Shapes, IInv

\* MIP_deamon begins something new, and leaves the sockets alone.
LEMMA MIPBegins ==
  ASSUME IInv, NEW ops \in MIPTodo \ {Half}, todo["MIP"] = <<>>,
         todo' = [todo EXCEPT !["MIP"] = ops], UNCHANGED sock,
         at'["MIP"] \in {"setup", "serve"},
         ~Gone("MIP"), Gone("routing") => Gone("routing")',
         at'["routing"] = at["routing"] \/ todo["routing"] = <<>>
  PROVE  Shapes' /\ UpdatesFramed' /\ LookupsFramed'
  <1>1. todo'["MIP"] = ops /\ \A u \in Thread \ {"MIP"} : todo'[u] = todo[u]
    BY Names DEF IInv, TypeOK
  <1>2. Shapes' /\ todo'["routing"] = todo["routing"]
    BY <1>1, Names, OthersShaped
  <1>3. QED
    BY <1>1, <1>2, Distinct, Steady

\* MIP_deamon reads and writes: it never writes the second half of a message
\* before the first, and nothing else between them.
LEMMA MIPOperates ==
  ASSUME IInv, OperateMIP
  PROVE  Shapes' /\ UpdatesFramed' /\ LookupsFramed'
  <1> DEFINE s == sock["update_in"]
             l == sock["lookup_in"]
  <1>1. /\ Operate("MIP") /\ ~Fails("MIP") /\ at' = at
        /\ todo["MIP"] # <<>> /\ todo["MIP"] \in MIPTodo /\ at["MIP"] \in {"setup", "serve"}
        /\ todo \in [Thread -> Seq(Op)]
    BY DEF OperateMIP, Operate, IInv, Shapes, TypeOK
  <1>2. ~Gone("MIP") /\ (Gone("routing")' <=> Gone("routing")) /\ (Gone("MIP")' <=> Gone("MIP"))
    BY <1>1 DEF Gone
  <1>3. /\ s \in Seq(0..1) /\ l \in Seq(0..1) /\ sock \in [Sock -> Seq(0..1)]
        /\ 0 \in 0..1 /\ 1 \in 0..1 /\ TypeOK
    BY Names DEF IInv, TypeOK
  <1>4. ASSUME NEW x \in {"update_in", "lookup_in"}, NEW i, Head(todo["MIP"]) = Send(x, i)
        PROVE  ~Gone("routing")
    <2>1. Send(x, i).on # "packets_out" /\ Send(x, i).op # "recv"
      BY DEF Send
    <2>2. ~Widowed("MIP")
      BY <1>1, <1>4, <2>1 DEF Fails
    <2>3. QED
      BY <2>2 DEF Widowed
  <1>5. CASE todo["MIP"] = <<Send("update_in", 1), Send("update_in", 0)>>
    <2>1. Head(todo["MIP"]) = Send("update_in", 1) /\ Tail(todo["MIP"]) = Half
      BY <1>5 DEF Half
    <2>2. /\ sock'["update_in"] = Append(sock["update_in"], 1)
          /\ \A r \in Sock \ {"update_in"} : sock'[r] = sock[r]
          /\ todo'["MIP"] = Half /\ \A u \in Thread \ {"MIP"} : todo'[u] = todo[u]
      BY <1>1, <1>3, <2>1, Names, SendStep, Zenon
    <2>3. Shapes'
      <3>1. Half \in MIPTodo
        BY DEF MIPTodo
      <3> QED BY <1>1, <2>2, <3>1, OthersShaped
    <2>4. /\ sock'["update_in"] = Append(s, 1) /\ sock'["lookup_in"] = l
          /\ todo'["MIP"] = Half /\ todo'["routing"] = todo["routing"]
      BY <1>1, <1>3, <2>2, Names
    <2>5. ~Gone("routing") /\ todo["MIP"] # Half
      BY <1>4, <1>5, <2>1, Distinct
    <2>6. s # <<>> => s[Len(s)] # 1
      BY <1>2, <2>5 DEF IInv, UpdatesFramed
    <2>7. /\ Alternates(s)
          /\ s # <<>> /\ todo["routing"] # Reads("update_in") => s[1] = 1
      BY <1>2, <2>5 DEF IInv, UpdatesFramed
    <2>8. Alternates(Append(s, 1))
      BY <1>3, <2>6, <2>7, Appended
    <2>9. /\ Append(s, 1) # <<>> /\ Append(s, 1)[Len(Append(s, 1))] = 1
          /\ todo["routing"] # Reads("update_in") => Append(s, 1)[1] = 1
      BY <1>3, <2>7, Appended
    <2>10. UpdatesFramed'
      BY <2>4, <2>8, <2>9 DEF UpdatesFramed, Alternates
    <2>11. LookupsFramed'
      BY <2>4 DEF IInv, LookupsFramed
    <2>12. QED
      BY <2>3, <2>10, <2>11
  <1>6. CASE todo["MIP"] = Half
    <2>1. Head(todo["MIP"]) = Send("update_in", 0) /\ Tail(todo["MIP"]) = <<>>
      BY <1>6 DEF Half
    <2>2. /\ sock'["update_in"] = Append(sock["update_in"], 0)
          /\ \A r \in Sock \ {"update_in"} : sock'[r] = sock[r]
          /\ todo'["MIP"] = <<>> /\ \A u \in Thread \ {"MIP"} : todo'[u] = todo[u]
      BY <1>1, <1>3, <2>1, Names, SendStep, Zenon
    <2>3. Shapes'
      BY <1>1, <2>2, OthersShaped DEF MIPTodo
    <2>4. /\ sock'["update_in"] = Append(s, 0) /\ sock'["lookup_in"] = l
          /\ todo'["MIP"] = <<>> /\ todo'["routing"] = todo["routing"]
      BY <1>1, <1>3, <2>2, Names
    <2>5. ~Gone("routing")
      BY <1>4, <2>1
    <2>6. /\ Alternates(s)
          /\ s # <<>> => s[Len(s)] = 1
          /\ s = <<>> => todo["routing"] = Reads("update_in")
          /\ s # <<>> /\ todo["routing"] # Reads("update_in") => s[1] = 1
      BY <1>2, <1>6, <2>5 DEF IInv, UpdatesFramed
    <2>7. Alternates(Append(s, 0))
      BY <1>3, <2>6, Appended
    <2>8. /\ Append(s, 0) # <<>> /\ Append(s, 0)[Len(Append(s, 0))] = 0
          /\ todo["routing"] # Reads("update_in") => Append(s, 0)[1] = 1
      BY <1>3, <2>6, Appended
    <2>9. Append(s, 0)[Len(Append(s, 0))] # 1
      BY <2>8
    <2>12. UpdatesFramed'
      BY <2>4, <2>7, <2>8, <2>9, Distinct DEF UpdatesFramed, Alternates
    <2>10. LookupsFramed'
      BY <2>4 DEF IInv, LookupsFramed
    <2>11. QED
      BY <2>3, <2>12, <2>10
  <1>7. CASE todo["MIP"] = <<Send("lookup_in", 0)>>
    <2>1. Head(todo["MIP"]) = Send("lookup_in", 0) /\ Tail(todo["MIP"]) = <<>>
      BY <1>7
    <2>2. /\ sock'["lookup_in"] = Append(sock["lookup_in"], 0)
          /\ \A r \in Sock \ {"lookup_in"} : sock'[r] = sock[r]
          /\ todo'["MIP"] = <<>> /\ \A u \in Thread \ {"MIP"} : todo'[u] = todo[u]
      BY <1>1, <1>3, <2>1, Names, SendStep, Zenon
    <2>3. Shapes'
      BY <1>1, <2>2, OthersShaped DEF MIPTodo
    <2>4. /\ sock'["update_in"] = s /\ sock'["lookup_in"] = Append(l, 0)
          /\ todo'["MIP"] = <<>> /\ todo'["routing"] = todo["routing"]
      BY <1>1, <1>3, <2>2, Names
    <2>5. UpdatesFramed'
      BY <1>2, <1>7, <2>4, Distinct DEF IInv, UpdatesFramed, Alternates
    <2>6. /\ Append(l, 0) # <<>>
          /\ \A i \in 1..Len(Append(l, 0)) : Append(l, 0)[i] = 0
      <3>1. \A i \in 1..Len(l) : l[i] = 0
        BY DEF IInv, LookupsFramed
      <3>2. QED
        BY <1>3, <3>1, Appended, Zenon
    <2>7. LookupsFramed'
      BY <2>4, <2>6 DEF LookupsFramed
    <2>8. QED
      BY <2>3, <2>5, <2>7
  <1>8. CASE todo["MIP"] = <<Send("packets_out", 0)>>
    <2>1. Head(todo["MIP"]) = Send("packets_out", 0) /\ Tail(todo["MIP"]) = <<>>
      BY <1>8
    <2>2. /\ sock'["packets_out"] = Append(sock["packets_out"], 0)
          /\ \A r \in Sock \ {"packets_out"} : sock'[r] = sock[r]
          /\ todo'["MIP"] = <<>> /\ \A u \in Thread \ {"MIP"} : todo'[u] = todo[u]
      BY <1>1, <1>3, <2>1, Names, SendStep, Zenon
    <2>3. Shapes'
      BY <1>1, <2>2, OthersShaped DEF MIPTodo
    <2>4. /\ sock'["update_in"] = s /\ sock'["lookup_in"] = l
          /\ todo'["MIP"] = <<>> /\ todo'["routing"] = todo["routing"]
      BY <1>1, <1>3, <2>2, Names
    <2>5. QED
      BY <1>2, <1>8, <2>3, <2>4, Distinct, Steady
  <1>9. ASSUME NEW x \in {"update_out", "lookup_out"}, todo["MIP"] = Reads(x)
        PROVE  Shapes' /\ UpdatesFramed' /\ LookupsFramed'
    <2>1. PICK ops \in {<<>>, Reads(x)} :
            /\ \A r \in Sock \ {x} : sock'[r] = sock[r]
            /\ todo'["MIP"] = ops /\ \A u \in Thread \ {"MIP"} : todo'[u] = todo[u]
      BY <1>1, <1>9, Names, RecvStep DEF IInv
    <2>2. Shapes'
      BY <1>1, <2>1, OthersShaped DEF MIPTodo, Reads
    <2>3. /\ sock'["update_in"] = s /\ sock'["lookup_in"] = l
          /\ todo'["MIP"] = ops /\ todo'["routing"] = todo["routing"]
      BY <1>1, <1>3, <2>1, Names
    <2>4. QED
      BY <1>2, <1>9, <2>2, <2>3, Distinct, Steady
  <1>10. QED
    BY <1>1, <1>5, <1>6, <1>7, <1>8, <1>9 DEF MIPTodo, Reads
\* What is left of a socket when its first item is taken.
LEMMA Shortened ==
  ASSUME NEW s \in Seq(0..1), s # <<>>
  PROVE  /\ Head(s) = s[1] /\ Head(s) \in 0..1 /\ Tail(s) \in Seq(0..1)
         /\ Len(Tail(s)) = Len(s) - 1 /\ Len(s) \in Nat /\ Len(s) > 0
         /\ \A i \in 1..Len(s) - 1 : Tail(s)[i] = s[i + 1]
         /\ Tail(s) = <<>> => s[Len(s)] = s[1]
         /\ Tail(s) # <<>> => Tail(s)[Len(Tail(s))] = s[Len(s)]
         /\ Alternates(s) => Alternates(Tail(s))
         /\ Alternates(s) /\ Tail(s) # <<>> /\ s[1] # 1 => Tail(s)[1] = 1
  <1>1. /\ Head(s) = s[1] /\ Head(s) \in 0..1 /\ Tail(s) \in Seq(0..1)
        /\ Len(Tail(s)) = Len(s) - 1 /\ Len(s) \in Nat /\ Len(s) > 0
        /\ \A i \in 1..Len(s) - 1 : Tail(s)[i] = s[i + 1]
    OBVIOUS
  <1>2. Tail(s) = <<>> => s[Len(s)] = s[1]
    <2>1. ASSUME Tail(s) = <<>>
          PROVE  Len(Tail(s)) = 0
      <3>1. Len(<<>>) = 0
        OBVIOUS
      <3>2. QED
        BY <2>1, <3>1, Zenon
    <2>2. Tail(s) = <<>> => Len(s) = 1
      BY <1>1, <2>1
    <2>3. QED
      BY <2>2
  <1>3. Tail(s) # <<>> => Tail(s)[Len(Tail(s))] = s[Len(s)]
    BY <1>1
  <1>4. ASSUME Alternates(s), NEW i \in 1..Len(Tail(s)), NEW j \in 1..Len(Tail(s)), j = i + 1
        PROVE  Tail(s)[i] # Tail(s)[j]
    <2>1. Tail(s)[i] = s[i + 1] /\ Tail(s)[j] = s[j + 1]
      BY <1>1
    <2>2. s[i + 1] # s[j + 1]
      BY <1>1, <1>4 DEF Alternates
    <2>3. QED
      BY <2>1, <2>2
  <1>5. ASSUME Alternates(s), Tail(s) # <<>>, s[1] # 1
        PROVE  Tail(s)[1] = 1
    <2>1. 1 \in 1..Len(s) - 1 /\ 1 \in 1..Len(s) /\ 2 \in 1..Len(s)
      BY <1>1, <1>5
    <2>2. s[1] # s[2] /\ s[1] \in 0..1 /\ s[2] \in 0..1
      BY <2>1, <1>5 DEF Alternates
    <2>3. Tail(s)[1] = s[2]
      BY <1>1, <2>1
    <2>4. s[2] = 1
      BY <1>5, <2>2
    <2>5. QED
      BY <2>3, <2>4
  <1>6. QED
    BY <1>1, <1>2, <1>3, <1>4, <1>5 DEF Alternates

\* routing_deamon reads: an item that tells of another keeps it reading.
LEMMA RoutingOperates ==
  ASSUME IInv, OperateRouting
  PROVE  Shapes' /\ UpdatesFramed' /\ LookupsFramed'
  <1> DEFINE s == sock["update_in"]
             l == sock["lookup_in"]
  <1>1. /\ Operate("routing") /\ at' = at /\ TypeOK /\ at["routing"] = "serve"
        /\ todo["routing"] = Reads("update_in") \/ todo["routing"] = Reads("lookup_in")
    BY DEF OperateRouting, Operate, IInv, Shapes, RoutingTodo
  <1>2. (Gone("routing")' <=> Gone("routing")) /\ (Gone("MIP")' <=> Gone("MIP"))
    BY <1>1 DEF Gone
  <1>3. s \in Seq(0..1) /\ l \in Seq(0..1)
    BY Names DEF IInv, TypeOK
  <1>4. CASE todo["routing"] = Reads("update_in")
    <2>1. /\ s # <<>> /\ sock'["update_in"] = Tail(s) /\ sock'["lookup_in"] = l
          /\ todo'["routing"] = IF Head(s) = 1 THEN Reads("update_in") ELSE <<>>
          /\ \A u \in Thread \ {"routing"} : todo'[u] = todo[u]
      BY <1>1, <1>4, Names, RecvStep
    <2>2. Shapes'
      BY <1>1, <2>1, OthersShaped DEF RoutingTodo
    <2>3. /\ todo'["MIP"] = todo["MIP"] /\ todo'["routing"] # Reads("lookup_in")
          /\ todo'["routing"] = Reads("update_in") <=> s[1] = 1
      BY <1>3, <2>1, Names, Distinct, Shortened
    <2>4. Alternates(s) /\ Alternates(Tail(s))
      BY <1>3, <2>1, Shortened DEF IInv, UpdatesFramed
    <2>5. ASSUME ~Gone("MIP"), ~Gone("routing")
          PROVE  /\ Tail(s) # <<>> => (Tail(s)[Len(Tail(s))] = 1 <=> todo["MIP"] = Half)
                 /\ Tail(s) = <<>> => (todo["MIP"] = Half <=> s[1] = 1)
                 /\ Tail(s) # <<>> /\ s[1] # 1 => Tail(s)[1] = 1
      <3>1. s[Len(s)] = 1 <=> todo["MIP"] = Half
        BY <2>1, <2>5 DEF IInv, UpdatesFramed
      <3>2. Tail(s) # <<>> => Tail(s)[Len(Tail(s))] = s[Len(s)]
        BY <1>3, <2>1, Shortened
      <3>3. Tail(s) = <<>> => s[Len(s)] = s[1]
        BY <1>3, <2>1, Shortened
      <3>4. Tail(s) # <<>> /\ s[1] # 1 => Tail(s)[1] = 1
        BY <1>3, <2>1, <2>4, Shortened
      <3>5. QED
        BY <3>1, <3>2, <3>3, <3>4
    <2>6. UpdatesFramed'
      BY <1>2, <2>1, <2>3, <2>4, <2>5 DEF UpdatesFramed, Alternates
    <2>7. LookupsFramed'
      BY <2>1, <2>3 DEF IInv, LookupsFramed
    <2>8. QED
      BY <2>2, <2>6, <2>7
  <1>5. CASE todo["routing"] = Reads("lookup_in")
    <2>1. /\ l # <<>> /\ sock'["lookup_in"] = Tail(l) /\ sock'["update_in"] = s
          /\ todo'["routing"] = IF Head(l) = 1 THEN Reads("lookup_in") ELSE <<>>
          /\ \A u \in Thread \ {"routing"} : todo'[u] = todo[u]
      BY <1>1, <1>5, Names, RecvStep
    <2>2. Shapes'
      BY <1>1, <2>1, OthersShaped DEF RoutingTodo
    <2>3. \A i \in 1..Len(l) : l[i] = 0
      BY DEF IInv, LookupsFramed
    <2>4. Head(l) = 0 /\ \A i \in 1..Len(Tail(l)) : Tail(l)[i] = 0
      BY <1>3, <2>1, <2>3, Shortened
    <2>5. todo'["routing"] = <<>> /\ todo'["MIP"] = todo["MIP"]
      BY <2>1, <2>4, Names
    <2>6. LookupsFramed'
      BY <2>1, <2>4, <2>5, Distinct DEF LookupsFramed
    <2>7. UpdatesFramed'
      BY <1>2, <1>5, <2>1, <2>5, Distinct DEF IInv, UpdatesFramed, Alternates
    <2>8. QED
      BY <2>2, <2>6, <2>7
  <1>6. QED
    BY <1>1, <1>4, <1>5

\* routing_deamon begins to read what has come.
LEMMA RoutingReceives ==
  ASSUME IInv, NEW w \in Worker, receiveSock(w)
  PROVE  Shapes' /\ UpdatesFramed' /\ LookupsFramed'
  <1>1. /\ sock[InOf(w)] # <<>> /\ UNCHANGED sock
        /\ todo' = [todo EXCEPT !["routing"] = <<Recv(InOf(w))>> \o <<>>]
        /\ at["routing"] \in {"wait", "serve"} /\ at' = [at EXCEPT !["routing"] = "serve"]
        /\ todo["routing"] = <<>>
    BY Names DEF receiveSock, Afterwards, Serving, Moves
  <1>2. <<Recv(InOf(w))>> \o <<>> = Reads(InOf(w))
    BY DEF Reads
  <1>3. /\ todo'["routing"] = Reads(InOf(w))
        /\ \A u \in Thread \ {"routing"} : todo'[u] = todo[u]
    BY <1>1, <1>2, Names DEF IInv, TypeOK
  <1>4. /\ at'["MIP"] = at["MIP"] /\ at'["routing"] = "serve"
        /\ Reads(InOf(w)) \in RoutingTodo
        /\ InOf(w) = "update_in" \/ InOf(w) = "lookup_in"
    BY <1>1, Names DEF IInv, TypeOK, RoutingTodo, InOf
  <1>5. Shapes'
    BY <1>3, <1>4, OthersShaped
  <1>6. (Gone("MIP")' <=> Gone("MIP")) /\ ~Gone("routing") /\ ~Gone("routing")'
    BY <1>1, <1>4 DEF Gone
  <1>7. todo'["MIP"] = todo["MIP"]
    BY <1>3, Names
  <1>8. CASE InOf(w) = "update_in"
    BY <1>1, <1>3, <1>5, <1>6, <1>7, <1>8, Distinct
       DEF IInv, UpdatesFramed, LookupsFramed, Alternates
  <1>9. CASE InOf(w) = "lookup_in"
    BY <1>1, <1>3, <1>5, <1>6, <1>7, <1>9, Distinct
       DEF IInv, UpdatesFramed, LookupsFramed, Alternates
  <1>10. QED
    BY <1>4, <1>5, <1>8, <1>9

(***************************************************************************)
(* The steps of the workers                                                *)
(***************************************************************************)
\* A worker has writes before it, on its own socket, and touches no other.
LEMMA WorkersWrite ==
  ASSUME IInv, NEW w \in Worker, UNCHANGED at,
         \A u \in Thread \ {w} : todo'[u] = todo[u],
         \A i \in DOMAIN todo'[w] : todo'[w][i].op = "send" /\ todo'[w][i].on = OutOf(w),
         \A r \in Sock \ {OutOf(w)} : sock'[r] = sock[r]
  PROVE  Shapes' /\ UpdatesFramed' /\ LookupsFramed'
  <1>1. /\ w # "MIP" /\ w # "routing" /\ OutOf(w) # "update_in" /\ OutOf(w) # "lookup_in"
    BY DEF Worker, OutOf
  <1>2. /\ todo'["MIP"] = todo["MIP"] /\ todo'["routing"] = todo["routing"]
        /\ sock'["update_in"] = sock["update_in"] /\ sock'["lookup_in"] = sock["lookup_in"]
    BY <1>1, Names
  <1>3. ASSUME NEW v \in Worker, NEW i \in DOMAIN todo'[v]
        PROVE  todo'[v][i].op = "send" /\ todo'[v][i].on = OutOf(v)
    <2>1. CASE v = w
      BY <1>3, <2>1
    <2>2. CASE v # w
      <3>1. todo'[v] = todo[v]
        BY <2>2, Names
      <3>2. QED
        BY <1>3, <3>1 DEF IInv, Shapes
    <2>3. QED
      BY <2>1, <2>2
  <1>4. Shapes'
    BY <1>2, <1>3 DEF IInv, Shapes
  <1>5. QED
    BY <1>2, <1>4, Steady DEF Gone

\* A worker writes what it has to write.
LEMMA WorkerOperates ==
  ASSUME IInv, NEW w \in Worker, OperateWorker(w)
  PROVE  Shapes' /\ UpdatesFramed' /\ LookupsFramed'
  <1> DEFINE o == Head(todo[w])
  <1>1. /\ Operate(w) /\ UNCHANGED at /\ w \in Thread
        /\ todo \in [Thread -> Seq(Op)] /\ sock \in [Sock -> Seq(0..1)]
    BY DEF OperateWorker, IInv, TypeOK, Worker, Thread
  <1>2. todo[w] \in Seq(Op) /\ todo[w] # <<>>
    BY <1>1 DEF Operate
  <1>3. \A i \in 1..Len(todo[w]) : todo[w][i].op = "send" /\ todo[w][i].on = OutOf(w)
    BY <1>2 DEF IInv, Shapes
  <1>4. o.op = "send" /\ o.on = OutOf(w)
    BY <1>2, <1>3
  <1>5. /\ sock' = [sock EXCEPT ![OutOf(w)] = Append(@, o.item)]
        /\ todo' = [todo EXCEPT ![w] = Tail(@)]
    BY <1>1, <1>4 DEF Operate
  <1>6. /\ \A u \in Thread \ {w} : todo'[u] = todo[u]
        /\ \A r \in Sock \ {OutOf(w)} : sock'[r] = sock[r]
        /\ todo'[w] = Tail(todo[w])
    BY <1>1, <1>5
  <1>7. \A i \in DOMAIN Tail(todo[w]) : i + 1 \in 1..Len(todo[w]) /\ Tail(todo[w])[i] = todo[w][i + 1]
    BY <1>2
  <1>8. \A i \in DOMAIN todo'[w] : todo'[w][i].op = "send" /\ todo'[w][i].on = OutOf(w)
    BY <1>3, <1>6, <1>7
  <1>9. QED
    BY <1>1, <1>6, <1>8, WorkersWrite

\* A worker takes something to write.
LEMMA WorkerTakes ==
  ASSUME IInv, NEW w \in Worker, Take(w)
  PROVE  Shapes' /\ UpdatesFramed' /\ LookupsFramed'
  <1>1. UNCHANGED <<at, sock>> /\ w \in Thread /\ todo \in [Thread -> Seq(Op)]
    BY DEF Take, IInv, TypeOK, Worker, Thread
  <1>2. PICK n \in 1..2 : todo' = [todo EXCEPT ![w] = Message(OutOf(w), n)]
    <2>1. PICK n \in IF w = "update" THEN {2} ELSE Answers :
             todo' = [todo EXCEPT ![w] = Message(OutOf(w), n)]
      BY DEF Take
    <2>2. n \in 1..2
      BY ProcessesAssumption
    <2>3. QED
      BY <2>1, <2>2
  <1>3. \A u \in Thread \ {w} : todo'[u] = todo[u]
    BY <1>1, <1>2
  <1>4. todo'[w] = Message(OutOf(w), n)
    BY <1>1, <1>2
  <1>5. \A i \in DOMAIN Message(OutOf(w), n) :
          Message(OutOf(w), n)[i].op = "send" /\ Message(OutOf(w), n)[i].on = OutOf(w)
    BY DEF Message, Send
  <1>6. QED
    BY <1>1, <1>3, <1>4, <1>5, WorkersWrite

(***************************************************************************)
(* Every step                                                              *)
(***************************************************************************)
\* A step that leaves the reads and writes alone.
LEMMA Idle ==
  ASSUME IInv, UNCHANGED <<sock, todo>>,
         at'["MIP"] = at["MIP"] \/ todo["MIP"] = <<>>,
         at'["routing"] = at["routing"] \/ todo["routing"] = <<>>,
         Gone("MIP") => Gone("MIP")', Gone("routing") => Gone("routing")'
  PROVE  Shapes' /\ UpdatesFramed' /\ LookupsFramed'
  <1>1. Shapes'
    BY DEF IInv, Shapes
  <1>2. QED
    BY <1>1, Steady

\* The steps of the three loops, and a SIGINT.
LEMMA LoopIInv ==
  ASSUME IInv, NEW p \in Process, Loop(p) \/ Signal(p)
  PROVE  IInv'
  <1>1. TypeOK'
    BY NextType DEF IInv, Next
  <1>2. at \in [Process -> Places] /\ "MIP" \in Process /\ "routing" \in Process
    BY Names DEF IInv, TypeOK
  <1>3. /\ at["MIP"] \notin {"setup", "serve"} => todo["MIP"] = <<>>
        /\ at["routing"] # "serve" => todo["routing"] = <<>>
    BY DEF IInv, Shapes
  <1>4. ASSUME NEW place \in Places, Moves(p, place), UNCHANGED <<sock, todo>>,
               ~Gone(p),
               at[p] \notin {"setup", "serve"} \/ (p \in Thread => todo[p] = <<>>)
        PROVE  IInv'
    <2>1. /\ at'["MIP"] = at["MIP"] \/ todo["MIP"] = <<>>
          /\ at'["routing"] = at["routing"] \/ todo["routing"] = <<>>
          /\ Gone("MIP") => Gone("MIP")'
          /\ Gone("routing") => Gone("routing")'
      BY <1>2, <1>3, <1>4, Names DEF Moves, Gone
    <2>2. QED
      BY <1>1, <1>4, <2>1, Idle DEF IInv
  <1>5. CASE EnterWait(p)
    <2>1. CASE p \in closed
      BY <1>5, <2>1, EndsIInv DEF EnterWait
    <2>2. CASE p \notin closed
      BY <1>3, <1>4, <1>5, <2>2 DEF EnterWait, Gone, Places
    <2>3. QED
      BY <2>1, <2>2
  <1>6. CASE EndBatch(p)
    <2>1. /\ ~Gone(p) /\ UNCHANGED <<sock, todo>>
          /\ p \in Thread => todo[p] = <<>>
      BY <1>6, Names DEF EndBatch, Gone
    <2>2. CASE Moves(p, "join")
      BY <1>4, <2>1, <2>2 DEF Places
    <2>3. CASE Moves(p, "enter")
      BY <1>4, <2>1, <2>3 DEF Places
    <2>4. QED
      BY <1>6, <2>2, <2>3 DEF EndBatch, Test
  <1>7. CASE Bereave(p)
    BY <1>7, EndsIInv DEF Bereave
  <1>8. CASE Join(p)
    BY <1>8, EndsIInv DEF Join
  <1>9. CASE Signal(p)
    <2>1. CASE Ends(p, "aborted")
      BY <1>9, <2>1, EndsIInv DEF Signal
    <2>2. CASE at[p] = "wait" /\ Moves(p, "join") /\ UNCHANGED todo
      BY <1>3, <1>4, <1>9, <2>2 DEF Signal, Gone, Places
    <2>3. CASE UNCHANGED <<at, todo>>
      BY <1>1, <1>9, <2>3, Idle DEF Signal, Gone, IInv
    <2>4. QED
      BY <1>9, <2>1, <2>2, <2>3 DEF Signal
  <1>10. QED
    BY <1>5, <1>6, <1>7, <1>8, <1>9 DEF Loop

\* The other steps of the main threads that move one of them.
LEMMA ServeIInv ==
  ASSUME IInv, transport_deamon \/ StartRouting \/ StartMIP \/ SetUpMIP \/ ServeNetwork
               \/ (\E s \in {"update_out", "lookup_out"} : receiveFrom(s))
  PROVE  IInv'
  <1>1. TypeOK'
    BY NextType DEF IInv, Next, MIP_deamon, routing_deamon
  <1>2. /\ at \in [Process -> Places] /\ "MIP" \in Process /\ "routing" \in Process
        /\ "transport" \in Process /\ "MIP" \in Thread
    BY Names DEF IInv, TypeOK
  <1>3. /\ at["MIP"] \notin {"setup", "serve"} => todo["MIP"] = <<>>
        /\ at["routing"] # "serve" => todo["routing"] = <<>>
    BY DEF IInv, Shapes
  <1>4. CASE transport_deamon
    <2>1. CASE AcceptApplication
      BY <1>2, <2>1, EndsIInv DEF AcceptApplication
    <2>2. CASE ForkMIP
      <3>1. at'["MIP"] = "start" /\ at'["routing"] = at["routing"] /\ at["MIP"] = "absent"
            /\ UNCHANGED <<sock, todo>>
        BY <1>2, <2>2 DEF ForkMIP, Moves
      <3>2. QED
        BY <1>1, <1>3, <3>1, Idle DEF Gone, IInv
    <2>3. CASE StartTransport \/ ServeApplication
      <3>1. at'["MIP"] = at["MIP"] /\ at'["routing"] = at["routing"]
            /\ UNCHANGED <<sock, todo>>
        BY <1>2, <2>3 DEF StartTransport, ServeApplication, Serving, Moves
      <3>2. QED
        BY <1>1, <3>1, Idle DEF Gone, IInv
    <2>4. CASE ServePackets
      <3>1. /\ at'["MIP"] = at["MIP"] /\ at'["routing"] = at["routing"]
            /\ UNCHANGED todo
        BY <1>2, <2>4 DEF ServePackets, Serving, Moves
      <3>2. sock'["update_in"] = sock["update_in"] /\ sock'["lookup_in"] = sock["lookup_in"]
        BY <2>4, Names DEF ServePackets, IInv, TypeOK
      <3>3. Shapes'
        BY <3>1 DEF IInv, Shapes
      <3>4. QED
        BY <1>1, <3>1, <3>2, <3>3, Steady DEF Gone, IInv
    <2>5. QED
      BY <1>4, <2>1, <2>2, <2>3, <2>4 DEF transport_deamon
  <1>5. CASE StartRouting
    <2>1. at'["MIP"] = at["MIP"] /\ at["routing"] = "start" /\ UNCHANGED <<sock, todo>>
      BY <1>2, <1>5 DEF StartRouting, Moves
    <2>2. QED
      BY <1>1, <1>3, <2>1, Idle DEF Gone, IInv
  <1>6. CASE StartMIP
    <2>1. /\ at'["MIP"] = "setup" /\ at["MIP"] = "start" /\ at["routing"] = "absent"
          /\ todo' = [todo EXCEPT !["MIP"] = Message("update_in", 2)] /\ UNCHANGED sock
      BY <1>2, <1>6 DEF StartMIP
    <2>2. Message("update_in", 2) \in MIPTodo \ {Half}
      BY MessageIs, Distinct DEF MIPTodo
    <2>3. QED
      BY <1>1, <1>3, <2>1, <2>2, MIPBegins DEF Gone, IInv
  <1>11. CASE SetUpMIP
    <2>1. CASE Ends("MIP", "aborted")
      BY <1>2, <1>11, <2>1, EndsIInv DEF SetUpMIP
    <2>2. CASE ~Ends("MIP", "aborted")
      <3>1. /\ at["MIP"] = "setup" /\ todo["MIP"] = <<>> /\ UNCHANGED <<sock, todo>>
            /\ at'["routing"] = at["routing"]
        BY <1>2, <1>11, <2>2 DEF SetUpMIP, Test, Moves
      <3>2. QED
        BY <1>1, <3>1, Idle DEF Gone, IInv
    <2>3. QED
      BY <2>1, <2>2
  <1>7. ASSUME NEW ops \in MIPTodo \ {Half}, Serving("MIP"),
               todo' = [todo EXCEPT !["MIP"] = ops], UNCHANGED sock
        PROVE  IInv'
    <2>1. /\ at'["MIP"] = "serve" /\ at["MIP"] \in {"wait", "serve"}
          /\ at'["routing"] = at["routing"] /\ todo["MIP"] = <<>>
      BY <1>2, <1>7 DEF Serving, Moves
    <2>2. QED
      BY <1>1, <1>7, <2>1, MIPBegins DEF Gone, IInv
  <1>8. CASE ServeNetwork
    <2>1. PICK ops \in {<<>>, Message("update_in", 2), Message("lookup_in", 1),
                        Message("packets_out", 1)} :
             todo' = [todo EXCEPT !["MIP"] = ops]
      BY <1>8 DEF ServeNetwork
    <2>2. ops \in MIPTodo \ {Half}
      BY <2>1, MessageIs, Distinct DEF MIPTodo
    <2>3. QED
      BY <1>7, <1>8, <2>1, <2>2 DEF ServeNetwork
  <1>9. ASSUME NEW s \in {"update_out", "lookup_out"}, receiveFrom(s)
        PROVE  IInv'
    <2>1. todo' = [todo EXCEPT !["MIP"] = Reads(s)]
      BY <1>9 DEF receiveFrom, Reads
    <2>2. Reads(s) \in MIPTodo \ {Half}
      BY Distinct DEF MIPTodo, Reads
    <2>3. QED
      BY <1>7, <1>9, <2>1, <2>2 DEF receiveFrom
  <1>10. QED
    BY <1>4, <1>5, <1>6, <1>8, <1>9, <1>11

\* Every step keeps the invariant.
LEMMA NextIInv ==
  ASSUME IInv, [Next]_vars
  PROVE  IInv'
  <1>1. TypeOK'
    BY NextType DEF IInv
  <1>2. CASE UNCHANGED vars
    BY <1>2 DEF vars, IInv, TypeOK, Shapes, UpdatesFramed, LookupsFramed, Alternates, Gone
  <1>3. CASE transport_deamon
    BY <1>3, ServeIInv
  <1>4. CASE MIP_deamon
    <2>1. CASE OperateMIP
      BY <1>1, <2>1, MIPOperates DEF IInv
    <2>2. CASE ~OperateMIP
      BY <1>4, <2>2, ServeIInv DEF MIP_deamon
    <2>3. QED
      BY <2>1, <2>2
  <1>5. CASE routing_deamon
    <2>1. CASE StartRouting
      BY <2>1, ServeIInv
    <2>2. CASE OperateRouting
      BY <1>1, <2>2, RoutingOperates DEF IInv
    <2>3. ASSUME NEW w \in Worker, receiveSock(w)
          PROVE  IInv'
      BY <1>1, <2>3, RoutingReceives DEF IInv
    <2>4. ASSUME NEW w \in Worker, Take(w)
          PROVE  IInv'
      BY <1>1, <2>4, WorkerTakes DEF IInv
    <2>5. ASSUME NEW w \in Worker, OperateWorker(w)
          PROVE  IInv'
      BY <1>1, <2>5, WorkerOperates DEF IInv
    <2>6. ASSUME NEW w \in Worker, LeaveWorker(w)
          PROVE  IInv'
      <3>1. UNCHANGED <<at, sock, todo>>
        BY <2>6 DEF LeaveWorker
      <3>2. QED
        BY <1>1, <3>1, Idle DEF Gone, IInv
    <2>7. QED
      BY <1>5, <2>1, <2>2, <2>3, <2>4, <2>5, <2>6 DEF routing_deamon
  <1>6. ASSUME NEW p \in Process, Loop(p) \/ Signal(p)
        PROVE  IInv'
    BY <1>6, LoopIInv
  <1>7. QED
    BY <1>2, <1>3, <1>4, <1>5, <1>6 DEF Next

\* When routing_deamon waits, MIP_deamon has the second half of an update to
\* write and the socket is empty.
LEMMA OneMovesOn ==
  ASSUME IInv, Blocked("routing")
  PROVE  ~Blocked("MIP")
  <1>1. \/ todo["routing"] = Reads("update_in") /\ sock["update_in"] = <<>>
        \/ todo["routing"] = Reads("lookup_in") /\ sock["lookup_in"] = <<>>
    <2>1. PICK s \in {"update_in", "lookup_in"} : todo["routing"] = Reads(s)
      BY DEF Blocked, IInv, Shapes, RoutingTodo
    <2>2. Head(todo["routing"]) = Recv(s) /\ Recv(s).op = "recv" /\ Recv(s).on = s
      BY <2>1 DEF Reads, Recv
    <2>3. sock[s] = <<>>
      BY <2>2 DEF Blocked
    <2>4. QED
      BY <2>1, <2>3
  <1>2. todo["routing"] = Reads("update_in") /\ sock["update_in"] = <<>>
    BY <1>1 DEF IInv, LookupsFramed
  <1>3. CASE Gone("MIP")
    <2>1. todo["MIP"] = <<>>
      BY <1>3 DEF IInv, Shapes, Gone
    <2>2. QED
      BY <2>1 DEF Blocked
  <1>4. CASE Gone("routing")
    BY <1>2, <1>4, Distinct DEF IInv, Shapes, Gone
  <1>5. CASE ~Gone("MIP") /\ ~Gone("routing")
    <2>1. todo["MIP"] = Half
      BY <1>2, <1>5 DEF IInv, UpdatesFramed
    <2>2. /\ Head(todo["MIP"]) = Send("update_in", 0)
          /\ Send("update_in", 0).op = "send" /\ Send("update_in", 0).on = "update_in"
      BY <2>1 DEF Half, Send
    <2>3. Len(sock["update_in"]) # SockItems
      BY <1>2, ProcessesAssumption
    <2>4. QED
      BY <2>2, <2>3 DEF Blocked
  <1>6. QED
    BY <1>3, <1>4, <1>5

\* MIP_deamon and routing_deamon, which write to each other on sockets that
\* block, never both wait in a read or a write of their main threads, however
\* little the sockets hold.
THEOREM NeverBothWaitCorrect == Spec => []NeverBothWait
  <1>1. Init => IInv
    BY InitIInv
  <1>2. IInv /\ [Next]_vars => IInv'
    BY NextIInv
  <1>3. IInv => NeverBothWait
    BY OneMovesOn DEF NeverBothWait
  <1>4. QED
    BY <1>1, <1>2, <1>3, PTL DEF Spec
=============================================================================
