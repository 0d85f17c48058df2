---------------------------- MODULE CommManager ----------------------------
(***************************************************************************)
(* CommManager, the connection of a user-mode program to the driver: its   *)
(* port handle, the requests it sends, and the thread that listens for the *)
(* reports of the driver.                                                  *)
(*                                                                         *)
(* Each block that holds m_mutex is one step.  Connections are made,       *)
(* closed and used for requests by the main thread of the program only     *)
(* (RsAgents); the listener runs beside it.                                *)
(*                                                                         *)
(* Of the filter manager the code relies on this: it accepts one           *)
(* connection at a time; a pending FilterGetMessage fails when its         *)
(* connection ends on either side; a handle value may be given out again   *)
(* once it was closed.  A request and a pending FilterGetMessage do not    *)
(* wait for each other.  A request may fail while its connection exists,   *)
(* or its reply be lost after the driver handled it; the three codes that  *)
(* SendRequest takes for "Driver went away or port was closed"             *)
(* (CommManager.cpp:272-277) come only of a connection that has ended,     *)
(* which may also give another.                                            *)
(***************************************************************************)
EXTENDS Naturals

CONSTANTS
  Handles, \* handle values of the process
  None,    \* INVALID_HANDLE_VALUE
  Faults   \* what may go wrong besides losing the driver

ASSUME CommAssumption ==
  /\ None \notin Handles
  /\ Faults \subseteq {"noThread", "noMemory", "otherError", "requestFails"}

VARIABLES
  hPort,      \* m_hPort
  connected,  \* m_connected
  running,    \* m_listenerRunning
  listener,   \* m_listenerThread: where it is, "none" when not joinable
  lport,      \* its hPort local
  open,       \* handles the process has not closed
  live,       \* those of them whose connection exists
  loaded      \* is the driver loaded?

ports    == <<hPort, connected, open, live>>
thread   == <<listener, lport>>
commVars == <<ports, running, thread, loaded>>

CommInit ==
  /\ hPort = None /\ connected = FALSE
  /\ running = FALSE
  /\ listener = "none" /\ lport = None
  /\ open = {} /\ live = {}
  /\ loaded \in BOOLEAN

IsConnected == connected /\ hPort # None
Reachable   == IsConnected /\ hPort \in live
-----------------------------------------------------------------------------
(* A wait on a connection that has ended returns with an error.            *)
Cut(lost) ==
  /\ live' = live \ lost
  /\ listener' = IF listener = "waiting" /\ lport \in lost THEN "broken" ELSE listener
  /\ UNCHANGED lport

DriverUnloads ==
  /\ loaded /\ loaded' = FALSE
  /\ Cut(live)
  /\ UNCHANGED <<hPort, connected, open, running>>

DriverLoads ==
  /\ ~loaded /\ loaded' = TRUE
  /\ UNCHANGED <<ports, running, thread>>
-----------------------------------------------------------------------------
(* Connect.  A handle that m_hPort still holds is overwritten, closed or   *)
(* not.                                                                    *)
Connects ==
  /\ loaded /\ live = {}
  /\ \E h \in Handles \ open :
       open' = open \union {h} /\ live' = {h} /\ hPort' = h
  /\ connected' = TRUE
  /\ UNCHANGED <<running, thread, loaded>>

ConnectFails ==
  /\ ~loaded \/ live # {}
  /\ hPort' = None /\ connected' = FALSE
  /\ UNCHANGED <<open, live, running, thread, loaded>>

(* Disconnect takes the handle under the lock ...                          *)
TakeHandle ==
  /\ hPort' = None
  /\ connected' = (connected /\ hPort = None)
  /\ UNCHANGED <<open, live, running, thread, loaded>>

(* ... and closes it outside.                                              *)
CloseHandle(h) ==
  /\ open' = open \ {h}
  /\ Cut({h})
  /\ UNCHANGED <<hPort, connected, running, loaded>>

(* SendRequest.  Without a connection nothing is sent.                     *)
RequestAnswered == Reachable /\ UNCHANGED commVars

(* A failed request marks the connection as lost, for some codes, and      *)
(* leaves its handle open.                                                 *)
NoAnswer ==
  \/ ~IsConnected /\ UNCHANGED connected
  \/ IsConnected /\ hPort \notin live /\ connected' \in BOOLEAN
  \/ Reachable /\ "requestFails" \in Faults /\ UNCHANGED connected

RequestFails ==
  NoAnswer /\ UNCHANGED <<hPort, open, live, running, thread, loaded>>
-----------------------------------------------------------------------------
(* StartListener, once connected.  m_listenerRunning alone decides whether *)
(* a thread is started.                                                    *)
ListenerKept == IsConnected /\ running /\ UNCHANGED commVars

ListenerStarted ==
  /\ IsConnected /\ ~running /\ listener = "none"
  /\ \/ running' = TRUE /\ listener' = "started"
     \/ "noThread" \in Faults /\ UNCHANGED <<running, listener>>
  /\ UNCHANGED <<ports, lport, loaded>>

(* A std::thread that is assigned to while joinable ends the program.      *)
ListenerOverwritten == IsConnected /\ ~running /\ listener # "none" /\ UNCHANGED commVars

(* StopListener ends with the join.                                        *)
JoinListener ==
  /\ listener \in {"none", "exited"}
  /\ listener' = "none" /\ lport' = None
  /\ UNCHANGED <<ports, running, loaded>>
-----------------------------------------------------------------------------
(* ListenerThreadProc.                                                     *)
AllocateBuffer ==
  /\ listener = "started"
  /\ \/ listener' = "loop" /\ UNCHANGED running
     \/ /\ "noMemory" \in Faults
        /\ running' = FALSE /\ listener' = "exited"
  /\ UNCHANGED <<ports, lport, loaded>>

ReadPort ==
  /\ listener = "loop"
  /\ lport' = hPort
  /\ listener' = IF running /\ hPort # None THEN "calling" ELSE "exited"
  /\ UNCHANGED <<ports, running, loaded>>

FilterGetMessage ==
  /\ listener = "calling"
  /\ listener' = IF lport \in live THEN "waiting" ELSE "broken"
  /\ UNCHANGED <<ports, running, lport, loaded>>

(* The driver reports a block to the connection that is waited on.         *)
Report ==
  /\ listener = "waiting"
  /\ listener' = "message"
  /\ UNCHANGED <<ports, running, lport, loaded>>

(* FilterGetMessage fails although the connection exists.                  *)
OtherError ==
  /\ "otherError" \in Faults
  /\ listener = "waiting"
  /\ listener' = "exited"
  /\ UNCHANGED <<ports, running, lport, loaded>>

(* m_listenerRunning is read after every return; a message that came too   *)
(* late is dropped.                                                        *)
MessageReturned ==
  /\ listener = "message"
  /\ listener' = IF running THEN "callback" ELSE "exited"
  /\ UNCHANGED <<ports, running, lport, loaded>>

PortClosed ==
  /\ listener = "broken"
  /\ listener' = IF running THEN "lost" ELSE "exited"
  /\ UNCHANGED <<ports, running, lport, loaded>>

(* m_connected is cleared whatever connection it stands for by now, and    *)
(* m_listenerRunning stays set.                                            *)
MarkDisconnected ==
  /\ listener = "lost"
  /\ connected' = FALSE
  /\ listener' = "exited"
  /\ UNCHANGED <<hPort, open, live, running, lport, loaded>>

(* What the listener does by itself, apart from the callback.              *)
ListenerStep ==
  \/ AllocateBuffer \/ ReadPort \/ FilterGetMessage
  \/ MessageReturned \/ PortClosed \/ MarkDisconnected

CommTypeOK ==
  /\ hPort \in Handles \union {None} /\ lport \in Handles \union {None}
  /\ connected \in BOOLEAN /\ running \in BOOLEAN /\ loaded \in BOOLEAN
  /\ listener \in {"none", "started", "loop", "calling", "waiting", "message",
                   "callback", "post", "broken", "lost", "exited"}
  /\ live \subseteq open /\ open \subseteq Handles
  /\ \A h, g \in live : h = g
  /\ live # {} => loaded
  /\ listener = "waiting" => lport \in live
=============================================================================
