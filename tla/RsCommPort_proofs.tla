------------------------- MODULE RsCommPort_proofs -------------------------
(***************************************************************************)
(* Proofs about RsCommPort, for any number of clients, of threads that     *)
(* report blocks, and of messages.  The inductive invariant adds to the    *)
(* properties what the numbers that are drawn but not received yet are,    *)
(* and that connections come one after the other.                          *)
(***************************************************************************)
EXTENDS RsCommPort, FiniteSetTheorems, TLAPS

Sending(t) == pc[t] = "send"

(* Every number in use was drawn before, and by one message only.          *)
NumbersInv ==
  /\ \A t \in Callers : Sending(t) => sequenceNumber[t] < messageSequence
  /\ request # NoRequest => request.number < messageSequence
  /\ \A i \in DOMAIN received : received[i].number < messageSequence
  /\ \A t, u \in Callers :
       Sending(t) /\ Sending(u) /\ sequenceNumber[t] = sequenceNumber[u] => t = u
  /\ \A t \in Callers : Sending(t) /\ request # NoRequest =>
       sequenceNumber[t] # request.number
  /\ \A t \in Callers, i \in DOMAIN received : Sending(t) =>
       sequenceNumber[t] # received[i].number
  /\ \A i \in DOMAIN received : request # NoRequest =>
       request.number # received[i].number
  /\ UniqueNumbers

(* The filter manager has one connection at a time, and the global is the  *)
(* port of one that was made.                                              *)
ConnectionsInv ==
  /\ \A c, d \in open \union closing : c = d
  /\ open \intersect closing = {}
  /\ clientPort \in made \union {NoPort}
  /\ SendsOnOpenedPort
  /\ ConnectedClientReachable

(* The bound of the model leaves a number for every message begun.         *)
RoomInv == messageSequence + Cardinality(Begun) <= MaxSequence

RequestInv == request # NoRequest => request.port \in Clients

Inv == TypeOK /\ NumbersInv /\ ConnectionsInv /\ RoomInv /\ RequestInv
-----------------------------------------------------------------------------
LEMMA BegunFinite == IsFiniteSet(Begun) /\ Cardinality(Begun) \in Nat
<1>1. Begun \subseteq Callers
  BY DEF Begun
<1> QED
  BY <1>1, PortAssumption, FS_Subset, FS_CardinalityType

(* A step that leaves messageSequence and takes one caller out of Begun,   *)
(* or none, or draws the number of the one it takes out, keeps the room.   *)
LEMMA RoomKept ==
  ASSUME TypeOK, RoomInv, NEW t \in Callers,
         \/ messageSequence' = messageSequence /\ Begun' \subseteq Begun
         \/ t \in Begun /\ messageSequence' = messageSequence + 1 /\ Begun' = Begun \ {t}
         \/ Room /\ messageSequence' = messageSequence /\ Begun' = Begun \union {t}
         \/ Room /\ messageSequence' = messageSequence + 1 /\ Begun' = Begun
  PROVE  RoomInv'
<1>1. IsFiniteSet(Begun) /\ Cardinality(Begun) \in Nat
  BY BegunFinite
<1>2. CASE messageSequence' = messageSequence /\ Begun' \subseteq Begun
  <2>1. Cardinality(Begun') <= Cardinality(Begun) /\ Cardinality(Begun') \in Nat
    BY <1>1, <1>2, FS_Subset, FS_CardinalityType
  <2> QED
    BY <1>1, <1>2, <2>1, PortAssumption DEF RoomInv, TypeOK
<1>3. CASE t \in Begun /\ messageSequence' = messageSequence + 1 /\ Begun' = Begun \ {t}
  <2>1. Cardinality(Begun') = Cardinality(Begun) - 1
    BY <1>1, <1>3, FS_RemoveElement
  <2> QED
    BY <1>1, <1>3, <2>1, PortAssumption DEF RoomInv, TypeOK
<1>4. CASE Room /\ messageSequence' = messageSequence /\ Begun' = Begun \union {t}
  <2>1. Cardinality(Begun') = Cardinality(Begun) \/ Cardinality(Begun') = Cardinality(Begun) + 1
    BY <1>1, <1>4, FS_AddElement
  <2> QED
    BY <1>1, <1>4, <2>1, PortAssumption DEF Room, RoomInv, TypeOK
<1>5. CASE Room /\ messageSequence' = messageSequence + 1 /\ Begun' = Begun
  BY <1>1, <1>5, PortAssumption DEF Room, RoomInv, TypeOK
<1> QED
  BY <1>2, <1>3, <1>4, <1>5

(* A step that has nothing to do with numbers keeps what is known of them. *)
LEMMA NumbersKept ==
  ASSUME NumbersInv, UNCHANGED <<messageSequence, request, received>>,
         \A t \in Callers : Sending(t)' =>
           Sending(t) /\ sequenceNumber'[t] = sequenceNumber[t]
  PROVE  NumbersInv'
BY DEF NumbersInv, UniqueNumbers

(* Nor does one that changes no connection and no caller's port disturb    *)
(* what is known of the connections.                                       *)
LEMMA ConnectionsKept ==
  ASSUME ConnectionsInv, UNCHANGED connections, unload = "no" \/ unload' # "no",
         \A t \in Callers : pc'[t] \in {"number", "send"} =>
           pc[t] \in {"number", "send"} /\ localClientPort'[t] = localClientPort[t]
  PROVE  ConnectionsInv'
BY DEF ConnectionsInv, connections, SendsOnOpenedPort, ConnectedClientReachable

LEMMA InitInv == Init => Inv
<1> SUFFICES ASSUME Init PROVE Inv
  OBVIOUS
<1> USE PortAssumption DEF Init
<1>1. TypeOK
  BY DEF TypeOK, PortOrNone, PidOrNone, NoRequest
<1>2. NumbersInv
  BY DEF NumbersInv, UniqueNumbers, Sending
<1>3. ConnectionsInv
  BY DEF ConnectionsInv, SendsOnOpenedPort, ConnectedClientReachable
<1>4. Begun = {} /\ Cardinality({}) = 0
  BY FS_EmptySet DEF Begun
<1>5. RoomInv
  BY <1>4 DEF RoomInv
<1>6. RequestInv
  BY DEF RequestInv
<1> QED
  BY <1>1, <1>2, <1>3, <1>5, <1>6 DEF Inv
-----------------------------------------------------------------------------
(* Connections.  Nobody's numbers change.                                  *)
LEMMA ConnectInv ==
  ASSUME Inv, NEW c \in Clients, Connect(c)
  PROVE  Inv'
<1> USE PortAssumption DEF Inv, Connect, Accept
<1>1. TypeOK'
  BY DEF TypeOK, teardown, locals, PortOrNone, PidOrNone
<1>2. NumbersInv'
  BY NumbersKept DEF Sending, locals
<1>3. ConnectionsInv'
  BY DEF TypeOK, ConnectionsInv, teardown, locals, SendsOnOpenedPort,
         ConnectedClientReachable
<1>4. RoomInv'
  BY DEF RoomInv, Begun, locals
<1>5. RequestInv'
  BY DEF RequestInv, NoRequest
<1> QED
  BY <1>1, <1>2, <1>3, <1>4, <1>5

LEMMA ClientClosesInv ==
  ASSUME Inv, NEW c \in Clients, ClientCloses(c)
  PROVE  Inv'
<1> USE PortAssumption DEF Inv, ClientCloses
<1>1. TypeOK'
  BY DEF TypeOK, teardown, locals, PortOrNone, PidOrNone
<1>2. NumbersInv'
  BY NumbersKept DEF Sending, locals
<1>3. ConnectionsInv'
  BY DEF TypeOK, ConnectionsInv, teardown, locals, SendsOnOpenedPort,
         ConnectedClientReachable
<1>4. RoomInv'
  BY DEF RoomInv, Begun, locals
<1>5. RequestInv'
  BY DEF RequestInv, NoRequest
<1> QED
  BY <1>1, <1>2, <1>3, <1>4, <1>5

(* The connection that ends was the only one, so no open one loses its     *)
(* port.                                                                   *)
LEMMA DisconnectInv ==
  ASSUME Inv, NEW c \in Clients, Disconnect(c)
  PROVE  Inv'
<1> USE PortAssumption DEF Inv, Disconnect
<1>1. TypeOK'
  BY DEF TypeOK, teardown, locals, PortOrNone, PidOrNone
<1>2. NumbersInv'
  BY NumbersKept DEF Sending, locals
<1>3. open = {}
  BY DEF ConnectionsInv
<1>4. ConnectionsInv'
  BY <1>3 DEF TypeOK, ConnectionsInv, teardown, locals, SendsOnOpenedPort,
              ConnectedClientReachable
<1>5. RoomInv'
  BY DEF RoomInv, Begun, locals
<1>6. RequestInv'
  BY DEF RequestInv, NoRequest
<1> QED
  BY <1>1, <1>2, <1>4, <1>5, <1>6
-----------------------------------------------------------------------------
LEMMA ReceivedNumbers ==
  ASSUME TypeOK, NEW i \in DOMAIN received
  PROVE  received[i].number \in Nat
<1>1. received[i] \in Message
  BY DEF TypeOK
<1> QED
  BY <1>1, PortAssumption DEF Message

(* The report of a block.                                                  *)
LEMMA BlockInv ==
  ASSUME Inv, NEW t \in Callers, NEW p \in Pids, Block(t, p)
  PROVE  Inv'
<1> USE PortAssumption DEF Inv, Block
<1>1. TypeOK'
  BY DEF TypeOK, connections, teardown, PortOrNone, PidOrNone
<1>2. NumbersInv'
  BY NumbersKept DEF Sending, TypeOK
<1>3. ConnectionsInv'
  BY ConnectionsKept DEF TypeOK, teardown
<1>4. Begun' = Begun \union {t}
  BY DEF Begun, TypeOK
<1>5. RoomInv'
  BY <1>4, RoomKept
<1>6. RequestInv'
  BY DEF RequestInv, NoRequest
<1> QED
  BY <1>1, <1>2, <1>3, <1>5, <1>6

(* A caller that is done holds neither a number nor a port.                *)
LEMMA DoneInv ==
  ASSUME Inv, NEW t \in Callers, Done(t),
         UNCHANGED <<connections, teardown, messageSequence, blocked, request,
                     received>>
  PROVE  Inv'
<1> USE PortAssumption DEF Inv, Done
<1>1. TypeOK'
  BY DEF TypeOK, connections, teardown, PortOrNone, PidOrNone
<1>2. NumbersInv'
  BY NumbersKept DEF Sending, TypeOK
<1>3. ConnectionsInv'
  BY ConnectionsKept DEF TypeOK, teardown
<1>4. Begun' \subseteq Begun
  BY DEF Begun, TypeOK
<1>5. RoomInv'
  BY <1>4, RoomKept
<1>6. RequestInv'
  BY DEF RequestInv, NoRequest, connections
<1> QED
  BY <1>1, <1>2, <1>3, <1>5, <1>6

LEMMA SnapshotInv ==
  ASSUME Inv, NEW t \in Callers, Snapshot(t)
  PROVE  Inv'
<1>1. CASE Done(t)
  BY <1>1, DoneInv DEF Snapshot
<1>2. CASE /\ clientPort # NoPort
           /\ localClientPort' = [localClientPort EXCEPT ![t] = clientPort]
           /\ pc' = [pc EXCEPT ![t] = "number"]
           /\ UNCHANGED <<processId, sequenceNumber>>
  <2>0. UNCHANGED <<connections, teardown, messageSequence, blocked, request,
                    received>>
    BY DEF Snapshot
  <2> USE PortAssumption, <2>0 DEF Inv
  <2>1. TypeOK'
    BY <1>2 DEF TypeOK, connections, teardown, PortOrNone, PidOrNone
  <2>2. NumbersInv'
    BY <1>2, NumbersKept DEF Sending, TypeOK
  <2>3. ConnectionsInv'
    BY <1>2 DEF TypeOK, ConnectionsInv, connections, teardown,
                SendsOnOpenedPort, ConnectedClientReachable
  <2>4. Begun' \subseteq Begun
    BY <1>2 DEF Begun, TypeOK, Snapshot
  <2>5. RoomInv'
    BY <2>4, RoomKept
  <2>6. RequestInv'
    BY DEF RequestInv, NoRequest
  <2> QED
    BY <2>1, <2>2, <2>3, <2>5, <2>6
<1> QED
  BY <1>1, <1>2 DEF Snapshot

(* The number drawn is larger than every number in use.                    *)
LEMMA NumberInv ==
  ASSUME Inv, NEW t \in Callers, Number(t)
  PROVE  Inv'
<1> USE PortAssumption DEF Inv, Number, Draw
<1>1. t \in Begun /\ Begun' = Begun \ {t}
  BY DEF Begun, TypeOK
<1>2. RoomInv'
  BY <1>1, RoomKept
<1>3. messageSequence' \in 0..MaxSequence
  <2>1. Cardinality(Begun) >= 1
    BY <1>1, BegunFinite, FS_EmptySet
  <2> QED
    BY <2>1, BegunFinite DEF RoomInv, TypeOK
<1>4. TypeOK'
  BY <1>3 DEF TypeOK, connections, teardown, PortOrNone, PidOrNone
<1>5. NumbersInv'
  <2>1. \A u \in Callers : Sending(u)' =>
          \/ u = t /\ sequenceNumber'[u] = messageSequence
          \/ u # t /\ Sending(u) /\ sequenceNumber'[u] = sequenceNumber[u]
    BY DEF Sending, TypeOK
  <2>2. /\ messageSequence \in Nat
        /\ request.number \in Nat
        /\ \A u \in Callers : sequenceNumber[u] \in Nat
    BY DEF TypeOK
  <2>3. \A i \in DOMAIN received : received[i].number \in Nat
    BY ReceivedNumbers
  <2> QED
    BY <2>1, <2>2, <2>3 DEF NumbersInv, UniqueNumbers
<1>6. ConnectionsInv'
  BY DEF TypeOK, ConnectionsInv, connections, teardown, SendsOnOpenedPort,
         ConnectedClientReachable
<1>7. RequestInv'
  BY DEF RequestInv, NoRequest
<1> QED
  BY <1>2, <1>4, <1>5, <1>6, <1>7

LEMMA SendFailsInv ==
  ASSUME Inv, NEW t \in Callers, SendFails(t)
  PROVE  Inv'
BY DoneInv DEF SendFails
-----------------------------------------------------------------------------
(* A message that reaches a client is the last one received.               *)
LEMMA ReceiveLast ==
  ASSUME TypeOK, NEW m \in Message, received' = Append(received, m)
  PROVE  /\ received' \in Seq(Message)
         /\ \A i \in DOMAIN received' :
              \/ i \in DOMAIN received /\ received'[i] = received[i]
              \/ i = Len(received) + 1 /\ i \notin DOMAIN received /\ received'[i] = m
<1>1. received \in Seq(Message)
  BY DEF TypeOK
<1> QED
  BY <1>1

LEMMA DeliverInv ==
  ASSUME Inv, NEW t \in Callers, Deliver(t)
  PROVE  Inv'
<1> DEFINE m == [kind |-> "report", port |-> localClientPort[t],
                 pid |-> processId[t], number |-> sequenceNumber[t]]
<1>1. /\ Done(t) /\ Sending(t) /\ localClientPort[t] \in open
      /\ received' = Append(received, m)
      /\ UNCHANGED <<connections, teardown, messageSequence, blocked, request>>
  BY DEF Deliver, Receive, Sending
<1> USE PortAssumption DEF Inv, Done
<1>2. m \in Message
  <2>1. sequenceNumber[t] < messageSequence
    BY <1>1 DEF NumbersInv
  <2> QED
    BY <1>1, <2>1 DEF TypeOK, Message
<1>3. TypeOK'
  BY <1>1, <1>2, ReceiveLast
     DEF TypeOK, connections, teardown, PortOrNone, PidOrNone
<1>4. NumbersInv'
  <2>1. \A u \in Callers : Sending(u)' =>
          u # t /\ Sending(u) /\ sequenceNumber'[u] = sequenceNumber[u]
    BY <1>1 DEF Sending, TypeOK
  <2>2. \A i \in DOMAIN received' :
          \/ i \in DOMAIN received /\ received'[i] = received[i]
          \/ /\ i = Len(received) + 1 /\ i \notin DOMAIN received
             /\ received'[i].number = sequenceNumber[t]
    BY <1>1, <1>2, ReceiveLast
  <2> HIDE DEF m
  <2> QED
    BY <1>1, <2>1, <2>2 DEF NumbersInv, UniqueNumbers
<1>5. ConnectionsInv'
  BY <1>1, ConnectionsKept DEF TypeOK, teardown
<1>6. Begun' \subseteq Begun
  BY <1>1 DEF Begun, TypeOK
<1>7. RoomInv'
  BY <1>1, <1>6, RoomKept
<1>8. RequestInv'
  BY <1>1 DEF RequestInv, NoRequest
<1> QED
  BY <1>3, <1>4, <1>5, <1>7, <1>8
-----------------------------------------------------------------------------
(* Requests.                                                               *)
LEMMA RequestStepInv ==
  ASSUME Inv, NEW c \in Clients, NEW p \in PidOrNone, Request(c, p)
  PROVE  Inv'
<1> USE PortAssumption DEF Inv, Request, Draw
<1>1. Begun' = Begun
  BY DEF Begun, locals
<1>3. RoomInv' /\ messageSequence' \in 0..MaxSequence
  BY <1>1, BegunFinite DEF Room, RoomInv, TypeOK
<1>4. TypeOK'
  BY <1>3 DEF TypeOK, connections, teardown, locals, PortOrNone, PidOrNone
<1>5. NumbersInv'
  <2>1. /\ messageSequence \in Nat
        /\ request'.number = messageSequence
        /\ \A u \in Callers : sequenceNumber[u] \in Nat
    BY DEF TypeOK
  <2>2. \A i \in DOMAIN received : received[i].number \in Nat
    BY ReceivedNumbers
  <2> QED
    BY <2>1, <2>2 DEF NumbersInv, UniqueNumbers, Sending, locals
<1>6. ConnectionsInv'
  BY ConnectionsKept DEF teardown, locals
<1>7. RequestInv'
  BY DEF RequestInv, NoRequest
<1> QED
  BY <1>3, <1>4, <1>5, <1>6, <1>7

LEMMA ReplyInv ==
  ASSUME Inv, Reply
  PROVE  Inv'
<1> DEFINE m == [kind |-> "reply", port |-> request.port,
                 pid |-> request.pid, number |-> request.number]
<1>1. /\ request # NoRequest /\ request' = NoRequest
      /\ blocked' = blocked \ {request.pid}
      /\ received' = Append(received, m) \/ UNCHANGED received
      /\ UNCHANGED <<connections, teardown, messageSequence, locals>>
  BY DEF Reply, Receive
<1> USE PortAssumption DEF Inv
<1>2. m \in Message
  <2>1. request.number < messageSequence
    BY <1>1 DEF NumbersInv
  <2> QED
    BY <1>1, <2>1 DEF TypeOK, Message, RequestInv
<1>3. received' \in Seq(Message)
  BY <1>1, <1>2, ReceiveLast DEF TypeOK
<1>4. TypeOK'
  BY <1>1, <1>3
     DEF TypeOK, connections, teardown, locals, PortOrNone, PidOrNone, NoRequest
<1>5. NumbersInv'
  <2>1. \A i \in DOMAIN received' :
          \/ i \in DOMAIN received /\ received'[i] = received[i]
          \/ /\ i = Len(received) + 1 /\ i \notin DOMAIN received
             /\ received'[i].number = request.number
    BY <1>1, <1>2, ReceiveLast
  <2> HIDE DEF m
  <2> QED
    BY <1>1, <2>1 DEF NumbersInv, UniqueNumbers, Sending, locals
<1>6. ConnectionsInv'
  BY <1>1, ConnectionsKept DEF teardown, locals
<1>7. RoomInv'
  BY <1>1 DEF RoomInv, Begun, locals
<1>8. RequestInv'
  BY <1>1 DEF RequestInv
<1> QED
  BY <1>4, <1>5, <1>6, <1>7, <1>8
-----------------------------------------------------------------------------
(* The teardown, from its first step on.                                   *)
Teardown ==
  \/ DestroyCommPort \/ CopyClientPort \/ ClearClientPort
  \/ CloseClientPort \/ CloseServerPort

LEMMA TeardownInv ==
  ASSUME Inv, Teardown
  PROVE  Inv'
<1> USE PortAssumption DEF Inv
<1>1. UNCHANGED <<messageSequence, request, received, blocked, made, locals>>
  BY DEF Teardown, DestroyCommPort, CopyClientPort, ClearClientPort,
         CloseClientPort, CloseServerPort, connections
<1>2. unload' # "no"
  BY DEF Teardown, DestroyCommPort, CopyClientPort, ClearClientPort,
         CloseClientPort, CloseServerPort
<1>3. /\ open' \subseteq open
      /\ open' \union closing' \subseteq open \union closing
      /\ open' \intersect closing' = {}
      /\ clientPort' \in {clientPort, NoPort}
      /\ unloadPort' \in {unloadPort, clientPort}
      /\ serverPort' \in BOOLEAN
      /\ unload' \in {"no", "copy", "clear", "closeClient", "closeServer", "done"}
  BY DEF Teardown, DestroyCommPort, CopyClientPort, ClearClientPort,
         CloseClientPort, CloseServerPort, connections, TypeOK, ConnectionsInv
<1>4. TypeOK'
  BY <1>1, <1>3 DEF TypeOK, locals, PortOrNone, PidOrNone
<1>5. NumbersInv'
  BY <1>1, NumbersKept DEF Sending, locals
<1>6. ConnectionsInv'
  BY <1>1, <1>2, <1>3 DEF TypeOK, ConnectionsInv, locals, SendsOnOpenedPort,
                          ConnectedClientReachable
<1>7. RoomInv'
  BY <1>1 DEF RoomInv, Begun, locals
<1>8. RequestInv'
  BY <1>1 DEF RequestInv, NoRequest
<1> QED
  BY <1>4, <1>5, <1>6, <1>7, <1>8

LEMMA StutterInv ==
  ASSUME Inv, UNCHANGED vars
  PROVE  Inv'
BY DEF Inv, vars, connections, teardown, locals, TypeOK, NumbersInv, Sending,
       UniqueNumbers, ConnectionsInv, SendsOnOpenedPort,
       ConnectedClientReachable, RoomInv, Begun, RequestInv, NoRequest
-----------------------------------------------------------------------------
LEMMA NextInv == Inv /\ [Next]_vars => Inv'
<1> SUFFICES ASSUME Inv, [Next]_vars PROVE Inv'
  OBVIOUS
<1>1. CASE \E c \in Clients : Connect(c) \/ ClientCloses(c) \/ Disconnect(c)
  BY <1>1, ConnectInv, ClientClosesInv, DisconnectInv
<1>2. CASE \E t \in Callers, p \in Pids : Block(t, p)
  BY <1>2, BlockInv
<1>3. CASE \E t \in Callers : Notify(t) \/ Deliver(t)
  BY <1>3, SnapshotInv, NumberInv, SendFailsInv, DeliverInv DEF Notify
<1>4. CASE \/ \E c \in Clients, p \in Pids : RequestUnblock(c, p)
           \/ \E c \in Clients : OtherRequest(c)
  BY <1>4, RequestStepInv DEF RequestUnblock, OtherRequest, PidOrNone
<1>5. CASE Reply
  BY <1>5, ReplyInv
<1>6. CASE Teardown
  BY <1>6, TeardownInv
<1>7. CASE UNCHANGED vars
  BY <1>7, StutterInv
<1> QED
  BY <1>1, <1>2, <1>3, <1>4, <1>5, <1>6, <1>7 DEF Next, Teardown

LEMMA SpecInv == Spec => []Inv
BY InitInv, NextInv, PTL DEF Spec

(* Every variable of the port keeps its type (RsCommPort.c:350-382).       *)
THEOREM TypeCorrect == Spec => []TypeOK
<1>1. Inv => TypeOK
  BY DEF Inv
<1> QED
  BY <1>1, SpecInv, PTL

(* No two messages that reach clients have the same number, however many   *)
(* threads and requests draw one (RsCommPort.c:364-366, 691-693).          *)
THEOREM NumbersUnique == Spec => []UniqueNumbers
<1>1. Inv => UniqueNumbers
  BY DEF Inv, NumbersInv
<1> QED
  BY <1>1, SpecInv, PTL

(* No caller hands FltSendMessage a NULL port (RsCommPort.c:333-336).      *)
THEOREM NeverSendsOnNull == Spec => []SendsOnOpenedPort
<1>1. Inv => SendsOnOpenedPort
  BY DEF Inv, ConnectionsInv
<1> QED
  BY <1>1, SpecInv, PTL

(* Before the driver unloads, g_ClientPort is the port of the client that  *)
(* is connected (RsCommPort.c:484, 520).                                   *)
THEOREM ClientReachable == Spec => []ConnectedClientReachable
<1>1. Inv => ConnectedClientReachable
  BY DEF Inv, ConnectionsInv
<1> QED
  BY <1>1, SpecInv, PTL
=============================================================================
