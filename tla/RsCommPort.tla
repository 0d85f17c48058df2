----------------------------- MODULE RsCommPort -----------------------------
(***************************************************************************)
(* The communication port of the driver, kernel/RsCommPort.c: one client   *)
(* at a time, the report of a block, and the teardown of the port while    *)
(* clients come and go.                                                    *)
(*                                                                         *)
(* g_ClientPort and g_ServerPort are read and written without a lock, so   *)
(* every access to them is an action of its own.  What the filter manager  *)
(* does is modelled from what the code relies on: it accepts a connection  *)
(* when none is left, a connection is left until its disconnect callback   *)
(* has run, and connect and disconnect callbacks are serialized.           *)
(***************************************************************************)
EXTENDS Naturals, Sequences, FiniteSets

CONSTANTS Pids,        \* processes that get blocked
          Callers,     \* threads that report a block
          Clients,     \* connections; each is made once
          NoPid,
          NoPort,      \* a port handle that is NULL
          MaxSequence  \* bound on the numbered messages

ASSUME PortAssumption ==
  /\ NoPid \notin Pids /\ NoPort \notin Clients
  /\ MaxSequence \in Nat /\ IsFiniteSet(Callers)

VARIABLES
  open,             \* connections whose client still has its handle
  closing,          \* closed connections whose disconnect callback is due
  made,             \* connections made so far
  clientPort,       \* g_ClientPort
  serverPort,       \* is g_ServerPort created?
  unload,           \* where RsDestroyCommPort is
  unloadPort,       \* its clientPort local
  messageSequence,  \* g_MessageSequence
  blocked,          \* the blocked processes
  pc,               \* where each caller is in RsSendBlockNotification
  processId,        \* its ProcessId argument
  localClientPort,  \* its localClientPort
  sequenceNumber,   \* notification.Header.SequenceNumber
  request,          \* the unblock request being handled
  received          \* history: the messages that reached a client, in order

connections == <<open, closing, made, clientPort>>
teardown    == <<serverPort, unload, unloadPort>>
locals      == <<pc, processId, localClientPort, sequenceNumber>>
vars == <<connections, teardown, messageSequence, blocked, locals, request,
          received>>

NoRequest == [port |-> NoPort, pid |-> NoPid, number |-> 0]

Init ==
  /\ open = {} /\ closing = {} /\ made = {}
  /\ clientPort = NoPort
  /\ serverPort = TRUE
  /\ unload = "no"
  /\ unloadPort = NoPort
  /\ messageSequence = 0
  /\ blocked = {}
  /\ pc = [t \in Callers |-> "idle"]
  /\ processId = [t \in Callers |-> NoPid]
  /\ localClientPort = [t \in Callers |-> NoPort]
  /\ sequenceNumber = [t \in Callers |-> 0]
  /\ request = NoRequest
  /\ received = <<>>
-----------------------------------------------------------------------------
Accept(c) ==
  /\ serverPort
  /\ c \in Clients \ made
  /\ made' = made \union {c}
  /\ open' = open \union {c}
  /\ clientPort' = c
  /\ UNCHANGED <<closing, teardown, messageSequence, blocked, locals, request,
                 received>>

(* Mutant: a connection counts only as long as its client has the handle.  *)
ConnectOverlapping(c) == open = {} /\ Accept(c)

(* RsConnectNotifyCallback, under MaxConnections = 1.                      *)
Connect(c) == open \union closing = {} /\ Accept(c)

(* The client closes its handle, or dies.                                  *)
ClientCloses(c) ==
  /\ c \in open
  /\ open' = open \ {c}
  /\ closing' = closing \union {c}
  /\ UNCHANGED <<made, clientPort, teardown, messageSequence, blocked, locals,
                 request, received>>

(* RsDisconnectNotifyCallback: it clears the port, whoever stored it.      *)
Disconnect(c) ==
  /\ c \in closing
  /\ closing' = closing \ {c}
  /\ clientPort' = NoPort
  /\ UNCHANGED <<open, made, teardown, messageSequence, blocked, locals,
                 request, received>>
-----------------------------------------------------------------------------
(* The bound on the run: every message begun finds a number in 0..MaxSequence-1. *)
Begun == {t \in Callers : pc[t] \in {"snapshot", "number"}}
Room  == messageSequence + Cardinality(Begun) < MaxSequence

(* RsRecordOperation blocks a process and, with no lock held any more,     *)
(* calls RsSendBlockNotification.                                          *)
Block(t, p) ==
  /\ Room
  /\ pc[t] = "idle"
  /\ p \notin blocked
  /\ blocked' = blocked \union {p}
  /\ pc' = [pc EXCEPT ![t] = "snapshot"]
  /\ processId' = [processId EXCEPT ![t] = p]
  /\ UNCHANGED <<connections, teardown, messageSequence, localClientPort,
                 sequenceNumber, request, received>>

Done(t) ==
  /\ pc' = [pc EXCEPT ![t] = "idle"]
  /\ processId' = [processId EXCEPT ![t] = NoPid]
  /\ localClientPort' = [localClientPort EXCEPT ![t] = NoPort]
  /\ sequenceNumber' = [sequenceNumber EXCEPT ![t] = 0]

(* The handle is copied; without a client there is nothing to send.        *)
Snapshot(t) ==
  /\ pc[t] = "snapshot"
  /\ \/ clientPort = NoPort /\ Done(t)
     \/ /\ clientPort # NoPort
        /\ localClientPort' = [localClientPort EXCEPT ![t] = clientPort]
        /\ pc' = [pc EXCEPT ![t] = "number"]
        /\ UNCHANGED <<processId, sequenceNumber>>
  /\ UNCHANGED <<connections, teardown, messageSequence, blocked, request,
                 received>>

(* Mutant: the counter is advanced outside the lock, and an update is lost. *)
DrawShared == messageSequence' \in {messageSequence, messageSequence + 1}

(* A number for a message, drawn under g_ContextLock.                      *)
Draw == messageSequence' = messageSequence + 1

(* Mutant: the global is used for the send instead of the copy.            *)
NumberRereading(t) ==
  /\ pc[t] = "number"
  /\ Draw
  /\ sequenceNumber' = [sequenceNumber EXCEPT ![t] = messageSequence]
  /\ pc' = [pc EXCEPT ![t] = "send"]
  /\ localClientPort' = [localClientPort EXCEPT ![t] = clientPort]
  /\ UNCHANGED <<connections, teardown, blocked, processId, request, received>>

Number(t) ==
  /\ pc[t] = "number"
  /\ Draw
  /\ sequenceNumber' = [sequenceNumber EXCEPT ![t] = messageSequence]
  /\ pc' = [pc EXCEPT ![t] = "send"]
  /\ UNCHANGED <<connections, teardown, blocked, processId, localClientPort,
                 request, received>>

Receive(kind, port, pid, number) ==
  received' = Append(received, [kind |-> kind, port |-> port, pid |-> pid,
                                number |-> number])

(* FltSendMessage: the client is in FilterGetMessage and takes the report. *)
Deliver(t) ==
  /\ pc[t] = "send"
  /\ localClientPort[t] \in open
  /\ Receive("report", localClientPort[t], processId[t], sequenceNumber[t])
  /\ Done(t)
  /\ UNCHANGED <<connections, teardown, messageSequence, blocked, request>>

(* Mutant: the send has no timeout.                                        *)
SendFailsUntimed(t) ==
  /\ pc[t] = "send"
  /\ localClientPort[t] \notin open
  /\ Done(t)
  /\ UNCHANGED <<connections, teardown, messageSequence, blocked, request,
                 received>>

(* The send times out or its connection is gone; the caller goes on.       *)
SendFails(t) ==
  /\ pc[t] = "send"
  /\ Done(t)
  /\ UNCHANGED <<connections, teardown, messageSequence, blocked, request,
                 received>>
-----------------------------------------------------------------------------
(* RsMessageNotifyCallback: every reply is numbered, in a critical section *)
(* of its own.  A request it finds malformed gets none.                    *)
Request(c, p) ==
  /\ Room
  /\ request = NoRequest
  /\ c \in open
  /\ Draw
  /\ request' = [port |-> c, pid |-> p, number |-> messageSequence]
  /\ UNCHANGED <<connections, teardown, blocked, locals, received>>

RequestUnblock(c, p) == Request(c, p)

(* The queries and the changes of the configuration and of the allowlist;  *)
(* what they read and write is in RsContext and RsAllowlist.               *)
OtherRequest(c) == Request(c, NoPid)

(* Then the process is unblocked, and the reply is copied out if the       *)
(* client still waits for it.                                              *)
Reply ==
  /\ request # NoRequest
  /\ blocked' = blocked \ {request.pid}
  /\ request' = NoRequest
  /\ \/ /\ request.port \in open
        /\ Receive("reply", request.port, request.pid, request.number)
     \/ request.port \notin open /\ UNCHANGED received
  /\ UNCHANGED <<connections, teardown, messageSequence, locals>>
-----------------------------------------------------------------------------
(* RsDestroyCommPort.  The client port is tested ...                       *)
DestroyCommPort ==
  /\ unload = "no"
  /\ unload' = IF clientPort = NoPort THEN "closeServer" ELSE "copy"
  /\ UNCHANGED <<connections, serverPort, unloadPort, messageSequence, blocked,
                 locals, request, received>>

(* ... copied ...                                                          *)
CopyClientPort ==
  /\ unload = "copy"
  /\ unload' = "clear"
  /\ unloadPort' = clientPort
  /\ UNCHANGED <<connections, serverPort, messageSequence, blocked, locals,
                 request, received>>

(* ... cleared ...                                                         *)
ClearClientPort ==
  /\ unload = "clear"
  /\ unload' = "closeClient"
  /\ clientPort' = NoPort
  /\ UNCHANGED <<open, closing, made, serverPort, unloadPort, messageSequence,
                 blocked, locals, request, received>>

(* Mutant: a port closed already is closed again.                          *)
CloseClientPortTwice ==
  /\ unload = "closeClient"
  /\ unload' = "closeServer"
  /\ open' = open \ {unloadPort}
  /\ closing' = closing \union {unloadPort}
  /\ UNCHANGED <<made, clientPort, serverPort, unloadPort, messageSequence,
                 blocked, locals, request, received>>

(* ... and closed, which has the disconnect callback called unless the     *)
(* client closed it first ...                                              *)
CloseClientPort ==
  /\ unload = "closeClient"
  /\ unload' = "closeServer"
  /\ open' = open \ {unloadPort}
  /\ closing' = closing \union (open \intersect {unloadPort})
  /\ UNCHANGED <<made, clientPort, serverPort, unloadPort, messageSequence,
                 blocked, locals, request, received>>

(* ... and only then does the port stop to accept connections.             *)
CloseServerPort ==
  /\ unload = "closeServer"
  /\ serverPort' = FALSE
  /\ unload' = "done"
  /\ UNCHANGED <<connections, unloadPort, messageSequence, blocked, locals,
                 request, received>>

Notify(t) == Snapshot(t) \/ Number(t) \/ SendFails(t)

Next ==
  \/ \E c \in Clients : Connect(c) \/ ClientCloses(c) \/ Disconnect(c)
  \/ \E t \in Callers, p \in Pids : Block(t, p)
  \/ \E t \in Callers : Notify(t) \/ Deliver(t)
  \/ \E c \in Clients, p \in Pids : RequestUnblock(c, p)
  \/ \E c \in Clients : OtherRequest(c)
  \/ Reply
  \/ DestroyCommPort \/ CopyClientPort \/ ClearClientPort
  \/ CloseClientPort \/ CloseServerPort

Spec == Init /\ [][Next]_vars

(* A thread that reports a block is scheduled, and its send times out when *)
(* nobody takes the message.  No client is assumed to read anything.       *)
FairSpec == Spec /\ \A t \in Callers : WF_vars(Notify(t))
-----------------------------------------------------------------------------
PortOrNone == Clients \union {NoPort}
PidOrNone  == Pids \union {NoPid}
Message == [kind : {"report", "reply"}, port : Clients, pid : PidOrNone,
            number : 0..MaxSequence-1]

(* Every variable has its type; in particular every message that reaches a *)
(* client came over a connection and has a number that was drawn for it    *)
(* (RsCommPort.c:350-382).                                                 *)
TypeOK ==
  /\ open \subseteq made /\ closing \subseteq made /\ made \subseteq Clients
  /\ clientPort \in PortOrNone
  /\ serverPort \in BOOLEAN
  /\ unload \in {"no", "copy", "clear", "closeClient", "closeServer", "done"}
  /\ unloadPort \in PortOrNone
  /\ messageSequence \in 0..MaxSequence
  /\ blocked \subseteq Pids
  /\ pc \in [Callers -> {"idle", "snapshot", "number", "send"}]
  /\ processId \in [Callers -> PidOrNone]
  /\ localClientPort \in [Callers -> PortOrNone]
  /\ sequenceNumber \in [Callers -> 0..MaxSequence]
  /\ request \in [port : PortOrNone, pid : PidOrNone, number : 0..MaxSequence]
  /\ received \in Seq(Message)

(* No two messages that reach clients, reports or replies, have the same   *)
(* number, although callers and the message handler draw them concurrently *)
(* (RsCommPort.c:364-366, 691-693).                                        *)
UniqueNumbers ==
  \A i, j \in DOMAIN received :
    received[i].number = received[j].number => i = j

(* A caller never hands FltSendMessage a NULL port, although g_ClientPort  *)
(* may be cleared while it reports: "If we passed &g_ClientPort to         *)
(* FltSendMessage after it became NULL, we'd crash" (RsCommPort.c:333-336).*)
SendsOnOpenedPort ==
  \A t \in Callers : pc[t] \in {"number", "send"} => localClientPort[t] \in made

(* Until the driver unloads, a connected client is the one the reports go  *)
(* to: no disconnect callback of an earlier connection clears its port     *)
(* (RsCommPort.c:484, 520).                                                *)
ConnectedClientReachable ==
  unload = "no" => \A c \in open : clientPort = c

(* A caller that reports a block returns to the file operation, whatever   *)
(* the client does (RsCommPort.c:406-432).                                 *)
NotificationReturns == \A t \in Callers : pc[t] # "idle" ~> pc[t] = "idle"

(* "This closes the server port and any connected client ports. After      *)
(* this, no user-mode messages can be sent or received."                   *)
(* (RansomShield.c:503-505)                                                *)
NoClientAfterDestroy == unload = "done" => open = {}
=============================================================================
