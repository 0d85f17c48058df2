-------------------------- MODULE RsAgents_proofs --------------------------
(***************************************************************************)
(* Proofs about RsAgents, for any number of handles, any period of the     *)
(* health check and any number of alerts.                                  *)
(***************************************************************************)
EXTENDS RsAgents, TLAPS

(* The type invariant, apart from CommTypeOK, in two parts: one for the    *)
(* provers that know arithmetic and one for those that know Booleans.      *)
ControlTypeOK ==
  /\ program \in Programs
  /\ main \in {"connect", "reconnect", "push", "repush", "start", "restart",
               "idle", "loop", "query", "set", "save", "drain", "exit",
               "disconnect", "close", "join", "rejoin", "ended", "terminated"}
  /\ resume \in {"idle", "join", "rejoin"}
  /\ hClose \in Handles \union {None}
  /\ seen \in BOOLEAN /\ monitoring \in BOOLEAN /\ config \in BOOLEAN
  /\ missed \in BOOLEAN

(* How many alerts and messages the report that is being handled still     *)
(* adds: what the bound of the model leaves room for.                      *)
Coming == CASE listener \in {"message", "callback"} -> 2
            [] listener = "post" -> 1
            [] OTHER -> 0

CountersInv ==
  /\ tick \in 0..Ticks-1
  /\ queue \in Nat /\ messages \in Nat
  /\ queue + messages + Coming <= MaxAlerts + 1
  /\ AlertsAnnounced

(* hClose holds a handle from Disconnect to Close, and a program without a *)
(* tray goes from there to a join.  Where it connects, and from Close to   *)
(* the end, it has no handle and no listener.                              *)
Closing == main \in {"disconnect", "close"}

HandleInv ==
  /\ main = "close" => hPort = None
  /\ program # "tray" =>
       /\ Closing => resume \in {"join", "rejoin"}
       /\ main # "close" => hClose = None
       /\ main \in {"connect", "reconnect", "join", "rejoin", "ended"} => hPort = None
       /\ open \subseteq {hPort, hClose}

ThreadInv ==
  /\ program # "tray" =>
       /\ main \in {"connect", "push", "start", "reconnect", "repush", "restart"} =>
            listener = "none"
       /\ main # "terminated"
  /\ ListenerEndsFirst

(* Once a program has pushed its configuration over a connection and got   *)
(* an answer, driver and configuration differ only between a pause and its *)
(* save, or when the last request to pause or resume got none.             *)
Pushed == main \notin {"connect", "reconnect", "push", "repush"}

MonitoringInv ==
  program # "command" /\ Reachable /\ Pushed /\ ~missed =>
    IF main = "save" THEN monitoring = ~seen ELSE monitoring = config

ProgramInv ==
  /\ program # "daemon" => main \notin {"loop", "reconnect", "rejoin"} /\ resume # "rejoin"
  /\ program # "tray" => main \notin {"idle", "drain"}

Inv == /\ CommTypeOK /\ ControlTypeOK /\ CountersInv /\ HandleInv
       /\ ThreadInv /\ MonitoringInv /\ ProgramInv
-----------------------------------------------------------------------------
LEMMA InitInv == Init => Inv
<1> SUFFICES ASSUME Init PROVE Inv
  OBVIOUS
<1> USE AgentAssumption, CommAssumption DEF Init, CommInit
<1>1. CommTypeOK
  BY DEF CommTypeOK
<1>2. ControlTypeOK
  BY DEF ControlTypeOK
<1>3. CountersInv
  BY DEF CountersInv, Coming, AlertsAnnounced
<1>4. HandleInv
  BY DEF HandleInv, Closing
<1>5. ThreadInv
  BY DEF ThreadInv, ListenerEndsFirst
<1>6. MonitoringInv /\ ProgramInv
  BY DEF MonitoringInv, ProgramInv, Pushed, IsConnected
<1> QED
  BY <1>1, <1>2, <1>3, <1>4, <1>5, <1>6 DEF Inv

LEMMA ConnectInv ==
  ASSUME Inv, Connect
  PROVE  Inv'
<1> USE AgentAssumption, CommAssumption
    DEF Inv, commVars, ports, thread, control, settings, alerts, Reachable
<1>0. Connects \/ ConnectFails
  BY DEF Connect
<1>1. CommTypeOK'
  BY <1>0 DEF Connects, ConnectFails, CommTypeOK
<1>2. ControlTypeOK'
  BY DEF Connect, Connects, ConnectFails, Goto, ControlTypeOK
<1>3. CountersInv'
  BY DEF Connect, Connects, ConnectFails, Goto, CountersInv, Coming,
     AlertsAnnounced, ControlTypeOK
<1>4. HandleInv'
  BY DEF Connect, Connects, ConnectFails, Goto, HandleInv, Closing,
     ControlTypeOK
<1>5. ThreadInv'
  BY DEF Connect, Connects, ConnectFails, Goto, ThreadInv,
     ListenerEndsFirst, ControlTypeOK
<1>6. MonitoringInv' /\ ProgramInv'
  <2>1. CASE Connects
    <3>1. Goto(IF program = "command" THEN "set"
               ELSE IF main = "connect" THEN "push" ELSE "repush")
      BY <2>1 DEF Connect, Connects, ConnectFails
    <3>2. \/ program = "command" /\ main' = "set"
          \/ program # "command" /\ main' \in {"push", "repush"}
      BY <3>1 DEF Goto
    <3> QED
      BY <3>1, <3>2 DEF MonitoringInv, ProgramInv, Pushed, Connect, Goto
  <2>2. CASE ConnectFails
    <3>1. ~IsConnected'
      BY <2>2 DEF ConnectFails, IsConnected
    <3> QED
      BY <2>2, <3>1 DEF MonitoringInv, ProgramInv, Connect, Connects,
                        ConnectFails, Goto
  <2> QED
    BY <2>1, <2>2 DEF Connect
<1> QED
  BY <1>1, <1>2, <1>3, <1>4, <1>5, <1>6

LEMMA PushInv ==
  ASSUME Inv, PushToDriver
  PROVE  Inv'
<1> USE AgentAssumption, CommAssumption
    DEF Inv, commVars, ports, thread, control, settings, alerts, Reachable
<1>0. UNCHANGED commVars \/ RequestFails
  BY DEF PushToDriver, RequestAnswered, Unanswered
<1>1. CommTypeOK'
  BY <1>0 DEF RequestFails, NoAnswer, CommTypeOK
<1>2. ControlTypeOK'
  BY DEF PushToDriver, RequestAnswered, RequestFails, NoAnswer, Unanswered,
         Goto, ControlTypeOK
<1>3. CountersInv'
  BY DEF PushToDriver, RequestAnswered, RequestFails, NoAnswer, Unanswered,
         Goto, CountersInv,
     Coming, AlertsAnnounced, ControlTypeOK
<1>4. HandleInv'
  BY DEF PushToDriver, RequestAnswered, RequestFails, NoAnswer, Unanswered,
         Goto, HandleInv,
     Closing, ControlTypeOK, IsConnected
<1>5. ThreadInv'
  BY DEF PushToDriver, RequestAnswered, RequestFails, NoAnswer, Unanswered,
         Goto, ThreadInv,
     ListenerEndsFirst, ControlTypeOK
<1>6. MonitoringInv' /\ ProgramInv'
  BY DEF PushToDriver, RequestAnswered, RequestFails, NoAnswer, Unanswered,
         Goto, MonitoringInv,
     ProgramInv, Pushed, IsConnected, ControlTypeOK, CommTypeOK, HandleInv
<1> QED
  BY <1>1, <1>2, <1>3, <1>4, <1>5, <1>6

LEMMA StartInv ==
  ASSUME Inv, StartListener
  PROVE  Inv'
<1> USE AgentAssumption, CommAssumption
    DEF Inv, commVars, ports, thread, control, settings, alerts, Reachable
<1>0. UNCHANGED commVars \/ ListenerStarted
  BY DEF StartListener, ListenerKept, ListenerOverwritten
<1>1. CommTypeOK'
  BY <1>0 DEF ListenerStarted, CommTypeOK
<1>2. ControlTypeOK'
  BY DEF StartListener, ListenerKept, ListenerStarted, ListenerOverwritten,
     Goto, ControlTypeOK, Rest, IsConnected
<1>3. CountersInv'
  BY DEF StartListener, ListenerKept, ListenerStarted, ListenerOverwritten,
     Goto, CountersInv, Coming, AlertsAnnounced, ControlTypeOK, Rest,
     IsConnected
<1>4. HandleInv'
  BY DEF StartListener, ListenerKept, ListenerStarted, ListenerOverwritten,
     Goto, HandleInv, Closing, ControlTypeOK, Rest, IsConnected
<1>5. ThreadInv'
  BY DEF StartListener, ListenerKept, ListenerStarted, ListenerOverwritten,
     Goto, ThreadInv, ListenerEndsFirst, ControlTypeOK, Rest, IsConnected
<1>6. MonitoringInv' /\ ProgramInv'
  BY DEF StartListener, ListenerKept, ListenerStarted, ListenerOverwritten,
     Goto, MonitoringInv, ProgramInv, Pushed, IsConnected, ControlTypeOK,
     CommTypeOK, Rest, IsConnected
<1> QED
  BY <1>1, <1>2, <1>3, <1>4, <1>5, <1>6

LEMMA DisconnectInv ==
  ASSUME Inv, Disconnect
  PROVE  Inv'
<1> USE AgentAssumption, CommAssumption
    DEF Inv, commVars, ports, thread, control, settings, alerts, Reachable
<1>1. CommTypeOK'
  BY DEF Disconnect, TakeHandle, Goto, CommTypeOK
<1>2. ControlTypeOK'
  BY DEF Disconnect, TakeHandle, Goto, ControlTypeOK, CommTypeOK
<1>3. CountersInv'
  BY DEF Disconnect, TakeHandle, Goto, CountersInv, Coming, AlertsAnnounced,
     ControlTypeOK
<1>4. HandleInv'
  BY DEF Disconnect, TakeHandle, Goto, HandleInv, Closing, ControlTypeOK
<1>5. ThreadInv'
  BY DEF Disconnect, TakeHandle, Goto, ThreadInv, ListenerEndsFirst,
     ControlTypeOK
<1>6. MonitoringInv' /\ ProgramInv'
  BY DEF Disconnect, TakeHandle, Goto, MonitoringInv, ProgramInv, Pushed,
     IsConnected, ControlTypeOK, CommTypeOK
<1> QED
  BY <1>1, <1>2, <1>3, <1>4, <1>5, <1>6

LEMMA CloseInv ==
  ASSUME Inv, Close
  PROVE  Inv'
<1> USE AgentAssumption, CommAssumption
    DEF Inv, commVars, ports, thread, control, settings, alerts, Reachable
<1>1. CommTypeOK'
  BY DEF Close, CloseHandle, Cut, Goto, CommTypeOK
<1>2. ControlTypeOK'
  BY DEF Close, CloseHandle, Cut, Goto, ControlTypeOK
<1>3. CountersInv'
  BY DEF Close, CloseHandle, Cut, Goto, CountersInv, Coming,
     AlertsAnnounced, ControlTypeOK
<1>4. HandleInv'
  BY DEF Close, CloseHandle, Cut, Goto, HandleInv, Closing, ControlTypeOK
<1>5. ThreadInv'
  BY DEF Close, CloseHandle, Cut, Goto, ThreadInv, ListenerEndsFirst,
     ControlTypeOK, HandleInv, Closing
<1>6. MonitoringInv' /\ ProgramInv'
  BY DEF Close, CloseHandle, Cut, Goto, MonitoringInv, ProgramInv, Pushed,
     IsConnected, ControlTypeOK, CommTypeOK, HandleInv, Closing
<1> QED
  BY <1>1, <1>2, <1>3, <1>4, <1>5, <1>6

LEMMA JoinInv ==
  ASSUME Inv, Join
  PROVE  Inv'
<1> USE AgentAssumption, CommAssumption
    DEF Inv, commVars, ports, thread, control, settings, alerts, Reachable
<1>1. CommTypeOK'
  BY DEF Join, JoinListener, Goto, CommTypeOK
<1>2. ControlTypeOK'
  BY DEF Join, JoinListener, Goto, ControlTypeOK
<1>3. CountersInv'
  BY DEF Join, JoinListener, Goto, CountersInv, Coming, AlertsAnnounced,
     ControlTypeOK
<1>4. HandleInv'
  BY DEF Join, JoinListener, Goto, HandleInv, Closing, ControlTypeOK
<1>5. ThreadInv'
  BY DEF Join, JoinListener, Goto, ThreadInv, ListenerEndsFirst,
     ControlTypeOK
<1>6. MonitoringInv' /\ ProgramInv'
  BY DEF Join, JoinListener, Goto, MonitoringInv, ProgramInv, Pushed,
     IsConnected, ControlTypeOK, CommTypeOK
<1> QED
  BY <1>1, <1>2, <1>3, <1>4, <1>5, <1>6

LEMMA ExitInv ==
  ASSUME Inv, Exit
  PROVE  Inv'
<1> USE AgentAssumption, CommAssumption
    DEF Inv, commVars, ports, thread, control, settings, alerts, Reachable
<1>1. CommTypeOK'
  BY DEF Exit, StopListener, Goto, CommTypeOK
<1>2. ControlTypeOK'
  BY DEF Exit, StopListener, Goto, ControlTypeOK
<1>3. CountersInv'
  BY DEF Exit, StopListener, Goto, CountersInv, Coming, AlertsAnnounced,
     ControlTypeOK
<1>4. HandleInv'
  BY DEF Exit, StopListener, Goto, HandleInv, Closing, ControlTypeOK
<1>5. ThreadInv'
  BY DEF Exit, StopListener, Goto, ThreadInv, ListenerEndsFirst,
     ControlTypeOK
<1>6. MonitoringInv' /\ ProgramInv'
  BY DEF Exit, StopListener, Goto, MonitoringInv, ProgramInv, Pushed,
     IsConnected, ControlTypeOK, CommTypeOK
<1> QED
  BY <1>1, <1>2, <1>3, <1>4, <1>5, <1>6

LEMMA LoopInv ==
  ASSUME Inv, DaemonLoop
  PROVE  Inv'
<1> USE AgentAssumption, CommAssumption
    DEF Inv, commVars, ports, thread, control, settings, alerts, Reachable
<1>1. CommTypeOK'
  BY DEF DaemonLoop, Goto, CommTypeOK
<1>2. ControlTypeOK'
  BY DEF DaemonLoop, Goto, ControlTypeOK
<1>3. CountersInv'
  BY DEF DaemonLoop, Goto, CountersInv, Coming, AlertsAnnounced,
     ControlTypeOK
<1>4. HandleInv'
  BY DEF DaemonLoop, Goto, HandleInv, Closing, ControlTypeOK
<1>5. ThreadInv'
  BY DEF DaemonLoop, Goto, ThreadInv, ListenerEndsFirst, ControlTypeOK
<1>6. MonitoringInv' /\ ProgramInv'
  BY DEF DaemonLoop, Goto, MonitoringInv, ProgramInv, Pushed, IsConnected,
     ControlTypeOK, CommTypeOK
<1> QED
  BY <1>1, <1>2, <1>3, <1>4, <1>5, <1>6

LEMMA TimerInv ==
  ASSUME Inv, Timer
  PROVE  Inv'
<1> USE AgentAssumption, CommAssumption
    DEF Inv, commVars, ports, thread, control, settings, alerts, Reachable
<1>1. CommTypeOK'
  BY DEF Timer, Goto, CommTypeOK
<1>2. ControlTypeOK'
  BY DEF Timer, Goto, ControlTypeOK
<1>3. CountersInv'
  BY DEF Timer, Goto, CountersInv, Coming, AlertsAnnounced, ControlTypeOK
<1>4. HandleInv'
  BY DEF Timer, Goto, HandleInv, Closing, ControlTypeOK
<1>5. ThreadInv'
  BY DEF Timer, Goto, ThreadInv, ListenerEndsFirst, ControlTypeOK
<1>6. MonitoringInv' /\ ProgramInv'
  BY DEF Timer, Goto, MonitoringInv, ProgramInv, Pushed, IsConnected,
     ControlTypeOK, CommTypeOK
<1> QED
  BY <1>1, <1>2, <1>3, <1>4, <1>5, <1>6

LEMMA HealthInv ==
  ASSUME Inv, HealthCheck
  PROVE  Inv'
<1> USE AgentAssumption, CommAssumption
    DEF Inv, commVars, ports, thread, control, settings, alerts, Reachable
<1>1. CommTypeOK'
  BY DEF HealthCheck, StopListener, RequestAnswered, RequestFails, NoAnswer, Unanswered,
         Goto,
     CommTypeOK, Rest
<1>2. ControlTypeOK'
  BY DEF HealthCheck, StopListener, RequestAnswered, RequestFails, NoAnswer, Unanswered,
         Goto,
     ControlTypeOK, Rest
<1>3. CountersInv'
  BY DEF HealthCheck, StopListener, RequestAnswered, RequestFails, NoAnswer, Unanswered,
         Goto,
     CountersInv, Coming, AlertsAnnounced, ControlTypeOK, Rest
<1>4. HandleInv'
  BY DEF HealthCheck, StopListener, RequestAnswered, RequestFails, NoAnswer, Unanswered,
         Goto,
     HandleInv, Closing, ControlTypeOK, Rest
<1>5. ThreadInv'
  BY DEF HealthCheck, StopListener, RequestAnswered, RequestFails, NoAnswer, Unanswered,
         Goto,
     ThreadInv, ListenerEndsFirst, ControlTypeOK, Rest
<1>6. MonitoringInv' /\ ProgramInv'
  BY DEF HealthCheck, StopListener, RequestAnswered, RequestFails, NoAnswer, Unanswered,
         Goto,
     MonitoringInv, ProgramInv, Pushed, IsConnected, ControlTypeOK,
     CommTypeOK, Rest
<1> QED
  BY <1>1, <1>2, <1>3, <1>4, <1>5, <1>6

LEMMA ToggleInv ==
  ASSUME Inv, TogglePauseMonitoring
  PROVE  Inv'
<1> USE AgentAssumption, CommAssumption
    DEF Inv, commVars, ports, thread, control, settings, alerts, Reachable
<1>1. CommTypeOK'
  BY DEF TogglePauseMonitoring, RequestAnswered, RequestFails, NoAnswer, Unanswered,
         Goto,
     CommTypeOK
<1>2. ControlTypeOK'
  BY DEF TogglePauseMonitoring, RequestAnswered, RequestFails, NoAnswer, Unanswered,
         Goto,
     ControlTypeOK
<1>3. CountersInv'
  BY DEF TogglePauseMonitoring, RequestAnswered, RequestFails, NoAnswer, Unanswered,
         Goto,
     CountersInv, Coming, AlertsAnnounced, ControlTypeOK
<1>4. HandleInv'
  BY DEF TogglePauseMonitoring, RequestAnswered, RequestFails, NoAnswer, Unanswered,
         Goto,
     HandleInv, Closing, ControlTypeOK
<1>5. ThreadInv'
  BY DEF TogglePauseMonitoring, RequestAnswered, RequestFails, NoAnswer, Unanswered,
         Goto,
     ThreadInv, ListenerEndsFirst, ControlTypeOK
<1>6. MonitoringInv' /\ ProgramInv'
  BY DEF TogglePauseMonitoring, RequestAnswered, RequestFails, NoAnswer, Unanswered,
         Goto,
     MonitoringInv, ProgramInv, Pushed, IsConnected, ControlTypeOK,
     CommTypeOK
<1> QED
  BY <1>1, <1>2, <1>3, <1>4, <1>5, <1>6

LEMMA PauseInv ==
  ASSUME Inv, PauseOrResume
  PROVE  Inv'
<1> USE AgentAssumption, CommAssumption
    DEF Inv, commVars, ports, thread, control, settings, alerts, Reachable
<1>1. CommTypeOK'
  BY DEF PauseOrResume, RequestAnswered, RequestFails, NoAnswer, Unanswered,
         Goto, CommTypeOK,
     Rest
<1>2. ControlTypeOK'
  BY DEF PauseOrResume, RequestAnswered, RequestFails, NoAnswer, Unanswered,
         Goto, ControlTypeOK,
     Rest
<1>3. CountersInv'
  BY DEF PauseOrResume, RequestAnswered, RequestFails, NoAnswer, Unanswered,
         Goto, CountersInv,
     Coming, AlertsAnnounced, ControlTypeOK, Rest
<1>4. HandleInv'
  BY DEF PauseOrResume, RequestAnswered, RequestFails, NoAnswer, Unanswered,
         Goto, HandleInv,
     Closing, ControlTypeOK, Rest
<1>5. ThreadInv'
  BY DEF PauseOrResume, RequestAnswered, RequestFails, NoAnswer, Unanswered,
         Goto, ThreadInv,
     ListenerEndsFirst, ControlTypeOK, Rest
<1>6. MonitoringInv' /\ ProgramInv'
  BY DEF PauseOrResume, RequestAnswered, RequestFails, NoAnswer, Unanswered,
         Goto, MonitoringInv,
     ProgramInv, Pushed, IsConnected, ControlTypeOK, CommTypeOK, Rest
<1> QED
  BY <1>1, <1>2, <1>3, <1>4, <1>5, <1>6

LEMMA SaveInv ==
  ASSUME Inv, SetMonitoringEnabled
  PROVE  Inv'
<1> USE AgentAssumption, CommAssumption
    DEF Inv, commVars, ports, thread, control, settings, alerts, Reachable
<1>1. CommTypeOK'
  BY DEF SetMonitoringEnabled, Goto, CommTypeOK, Rest
<1>2. ControlTypeOK'
  BY DEF SetMonitoringEnabled, Goto, ControlTypeOK, Rest
<1>3. CountersInv'
  BY DEF SetMonitoringEnabled, Goto, CountersInv, Coming, AlertsAnnounced,
     ControlTypeOK, Rest
<1>4. HandleInv'
  BY DEF SetMonitoringEnabled, Goto, HandleInv, Closing, ControlTypeOK, Rest
<1>5. ThreadInv'
  BY DEF SetMonitoringEnabled, Goto, ThreadInv, ListenerEndsFirst,
     ControlTypeOK, Rest
<1>6. MonitoringInv' /\ ProgramInv'
  BY DEF SetMonitoringEnabled, Goto, MonitoringInv, ProgramInv, Pushed,
     IsConnected, ControlTypeOK, CommTypeOK, Rest
<1> QED
  BY <1>1, <1>2, <1>3, <1>4, <1>5, <1>6

LEMMA QueueInv ==
  ASSUME Inv, QueueAlert
  PROVE  Inv'
<1> USE AgentAssumption, CommAssumption
    DEF Inv, commVars, ports, thread, control, settings, alerts, Reachable
<1>1. CommTypeOK'
  BY DEF QueueAlert, Goto, CommTypeOK
<1>2. ControlTypeOK'
  BY DEF QueueAlert, Goto, ControlTypeOK
<1>3. CountersInv'
  BY DEF QueueAlert, Goto, CountersInv, Coming, AlertsAnnounced,
     ControlTypeOK
<1>4. HandleInv'
  BY DEF QueueAlert, Goto, HandleInv, Closing, ControlTypeOK
<1>5. ThreadInv'
  BY DEF QueueAlert, Goto, ThreadInv, ListenerEndsFirst, ControlTypeOK,
     CommTypeOK
<1>6. MonitoringInv' /\ ProgramInv'
  BY DEF QueueAlert, Goto, MonitoringInv, ProgramInv, Pushed, IsConnected,
     ControlTypeOK, CommTypeOK
<1> QED
  BY <1>1, <1>2, <1>3, <1>4, <1>5, <1>6

LEMMA PostInv ==
  ASSUME Inv, PostAlert
  PROVE  Inv'
<1> USE AgentAssumption, CommAssumption
    DEF Inv, commVars, ports, thread, control, settings, alerts, Reachable
<1>1. CommTypeOK'
  BY DEF PostAlert, Goto, CommTypeOK
<1>2. ControlTypeOK'
  BY DEF PostAlert, Goto, ControlTypeOK
<1>3. CountersInv'
  BY DEF PostAlert, Goto, CountersInv, Coming, AlertsAnnounced,
     ControlTypeOK
<1>4. HandleInv'
  BY DEF PostAlert, Goto, HandleInv, Closing, ControlTypeOK
<1>5. ThreadInv'
  BY DEF PostAlert, Goto, ThreadInv, ListenerEndsFirst, ControlTypeOK
<1>6. MonitoringInv' /\ ProgramInv'
  BY DEF PostAlert, Goto, MonitoringInv, ProgramInv, Pushed, IsConnected,
     ControlTypeOK, CommTypeOK
<1> QED
  BY <1>1, <1>2, <1>3, <1>4, <1>5, <1>6

LEMMA HandleBlockedInv ==
  ASSUME Inv, HandleBlocked
  PROVE  Inv'
<1> USE AgentAssumption, CommAssumption
    DEF Inv, commVars, ports, thread, control, settings, alerts, Reachable
<1>1. CommTypeOK'
  BY DEF HandleBlocked, Goto, CommTypeOK
<1>2. ControlTypeOK'
  BY DEF HandleBlocked, Goto, ControlTypeOK
<1>3. CountersInv'
  BY DEF HandleBlocked, Goto, CountersInv, Coming, AlertsAnnounced,
     ControlTypeOK
<1>4. HandleInv'
  BY DEF HandleBlocked, Goto, HandleInv, Closing, ControlTypeOK
<1>5. ThreadInv'
  BY DEF HandleBlocked, Goto, ThreadInv, ListenerEndsFirst, ControlTypeOK
<1>6. MonitoringInv' /\ ProgramInv'
  BY DEF HandleBlocked, Goto, MonitoringInv, ProgramInv, Pushed,
     IsConnected, ControlTypeOK, CommTypeOK
<1> QED
  BY <1>1, <1>2, <1>3, <1>4, <1>5, <1>6

LEMMA DrainInv ==
  ASSUME Inv, DrainAlert
  PROVE  Inv'
<1> USE AgentAssumption, CommAssumption
    DEF Inv, commVars, ports, thread, control, settings, alerts, Reachable
<1>1. CommTypeOK'
  BY DEF DrainAlert, Goto, CommTypeOK
<1>2. ControlTypeOK'
  BY DEF DrainAlert, Goto, ControlTypeOK
<1>3. CountersInv'
  BY DEF DrainAlert, Goto, CountersInv, Coming, AlertsAnnounced,
     ControlTypeOK
<1>4. HandleInv'
  BY DEF DrainAlert, Goto, HandleInv, Closing, ControlTypeOK
<1>5. ThreadInv'
  BY DEF DrainAlert, Goto, ThreadInv, ListenerEndsFirst, ControlTypeOK
<1>6. MonitoringInv' /\ ProgramInv'
  <2>1. /\ main = "drain" /\ main' \in {"drain", "idle"}
        /\ main' = "idle" => program = "tray"
        /\ UNCHANGED <<commVars, resume, program, seen, settings>>
    BY DEF DrainAlert, Goto, ProgramInv
  <2> QED
    BY <2>1 DEF MonitoringInv, ProgramInv, Pushed, IsConnected
<1> QED
  BY <1>1, <1>2, <1>3, <1>4, <1>5, <1>6

LEMMA UserInv ==
  ASSUME Inv, UserExits
  PROVE  Inv'
<1> USE AgentAssumption, CommAssumption
    DEF Inv, commVars, ports, thread, control, settings, alerts, Reachable
<1>1. CommTypeOK'
  BY DEF UserExits, Goto, CommTypeOK
<1>2. ControlTypeOK'
  BY DEF UserExits, Goto, ControlTypeOK
<1>3. CountersInv'
  BY DEF UserExits, Goto, CountersInv, Coming, AlertsAnnounced,
     ControlTypeOK
<1>4. HandleInv'
  BY DEF UserExits, Goto, HandleInv, Closing, ControlTypeOK
<1>5. ThreadInv'
  BY DEF UserExits, Goto, ThreadInv, ListenerEndsFirst, ControlTypeOK
<1>6. MonitoringInv' /\ ProgramInv'
  BY DEF UserExits, Goto, MonitoringInv, ProgramInv, Pushed, IsConnected,
     ControlTypeOK, CommTypeOK
<1> QED
  BY <1>1, <1>2, <1>3, <1>4, <1>5, <1>6

LEMMA DriverInv ==
  ASSUME Inv, Driver
  PROVE  Inv'
<1> USE AgentAssumption, CommAssumption
    DEF Inv, commVars, ports, thread, control, settings, alerts, Reachable
<1>1. CommTypeOK'
  BY DEF Driver, DriverUnloads, DriverLoads, Cut, Report, OtherError, Goto,
     CommTypeOK
<1>2. ControlTypeOK'
  <2>1. UNCHANGED <<program, control, config, missed>> /\ monitoring' \in {monitoring, TRUE}
    BY DEF Driver
  <2> QED BY <2>1 DEF ControlTypeOK
<1>3. CountersInv'
  BY DEF Driver, DriverUnloads, DriverLoads, Cut, Report, OtherError, Goto,
     CountersInv, Coming, AlertsAnnounced, ControlTypeOK
<1>4. HandleInv'
  BY DEF Driver, DriverUnloads, DriverLoads, Cut, Report, OtherError, Goto,
     HandleInv, Closing, ControlTypeOK
<1>5. ThreadInv'
  BY DEF Driver, DriverUnloads, DriverLoads, Cut, Report, OtherError, Goto,
     ThreadInv, ListenerEndsFirst, ControlTypeOK
<1>6. MonitoringInv' /\ ProgramInv'
  BY DEF Driver, DriverUnloads, DriverLoads, Cut, Report, OtherError, Goto,
     MonitoringInv, ProgramInv, Pushed, IsConnected, ControlTypeOK,
     CommTypeOK
<1> QED
  BY <1>1, <1>2, <1>3, <1>4, <1>5, <1>6

LEMMA ListenerInv ==
  ASSUME Inv, ListenerStep, UNCHANGED <<program, control, settings, alerts>>
  PROVE  Inv'
<1> USE AgentAssumption, CommAssumption
    DEF Inv, commVars, ports, thread, control, settings, alerts, Reachable
<1>1. CommTypeOK'
  BY DEF ListenerStep, AllocateBuffer, ReadPort, FilterGetMessage,
     MessageReturned, PortClosed, MarkDisconnected, Goto, CommTypeOK
<1>2. ControlTypeOK'
  BY DEF ListenerStep, AllocateBuffer, ReadPort, FilterGetMessage,
     MessageReturned, PortClosed, MarkDisconnected, Goto, ControlTypeOK
<1>3. CountersInv'
  BY DEF ListenerStep, AllocateBuffer, ReadPort, FilterGetMessage,
     MessageReturned, PortClosed, MarkDisconnected, Goto, CountersInv,
     Coming, AlertsAnnounced, ControlTypeOK
<1>4. HandleInv'
  BY DEF ListenerStep, AllocateBuffer, ReadPort, FilterGetMessage,
     MessageReturned, PortClosed, MarkDisconnected, Goto, HandleInv,
     Closing, ControlTypeOK
<1>5. ThreadInv'
  BY DEF ListenerStep, AllocateBuffer, ReadPort, FilterGetMessage,
     MessageReturned, PortClosed, MarkDisconnected, Goto, ThreadInv,
     ListenerEndsFirst, ControlTypeOK
<1>6. MonitoringInv' /\ ProgramInv'
  BY DEF ListenerStep, AllocateBuffer, ReadPort, FilterGetMessage,
     MessageReturned, PortClosed, MarkDisconnected, Goto, MonitoringInv,
     ProgramInv, Pushed, IsConnected, ControlTypeOK, CommTypeOK
<1> QED
  BY <1>1, <1>2, <1>3, <1>4, <1>5, <1>6

LEMMA StutterInv ==
  ASSUME Inv, UNCHANGED vars
  PROVE  Inv'
<1> USE AgentAssumption, CommAssumption
    DEF Inv, commVars, ports, thread, control, settings, alerts, Reachable
<1>1. CommTypeOK'
  BY DEF vars, Goto, CommTypeOK
<1>2. ControlTypeOK'
  BY DEF vars, Goto, ControlTypeOK
<1>3. CountersInv'
  BY DEF vars, Goto, CountersInv, Coming, AlertsAnnounced, ControlTypeOK
<1>4. HandleInv'
  BY DEF vars, Goto, HandleInv, Closing, ControlTypeOK
<1>5. ThreadInv'
  BY DEF vars, Goto, ThreadInv, ListenerEndsFirst, ControlTypeOK
<1>6. MonitoringInv' /\ ProgramInv'
  BY DEF vars, Goto, MonitoringInv, ProgramInv, Pushed, IsConnected,
     ControlTypeOK, CommTypeOK
<1> QED
  BY <1>1, <1>2, <1>3, <1>4, <1>5, <1>6
-----------------------------------------------------------------------------
LEMMA NextInv == Inv /\ [Next]_vars => Inv'
<1> SUFFICES ASSUME Inv, [Next]_vars PROVE Inv'
  OBVIOUS
<1>1. CASE Driver
  BY <1>1, DriverInv
<1>2. CASE Listener
  BY <1>2, ListenerInv, QueueInv, PostInv DEF Listener
<1>3. CASE Main
  BY <1>3, ConnectInv, PushInv, StartInv, DisconnectInv, CloseInv, JoinInv,
     ExitInv, LoopInv, HealthInv, PauseInv, SaveInv, DrainInv DEF Main
<1>4. CASE Timer \/ HandleBlocked \/ TogglePauseMonitoring \/ UserExits
  BY <1>4, TimerInv, HandleBlockedInv, ToggleInv, UserInv
<1>5. CASE UNCHANGED vars
  BY <1>5, StutterInv
<1> QED
  BY <1>1, <1>2, <1>3, <1>4, <1>5 DEF Next

LEMMA SpecInv == Spec => []Inv
BY InitInv, NextInv, PTL DEF Spec

(* Every variable of the programs and of their connection keeps its type   *)
(* (CommManager.cpp:66-73, TrayMain.cpp:219-247).                          *)
THEOREM TypeCorrect == Spec => []TypeOK
<1>1. Inv => TypeOK
  <2> SUFFICES ASSUME Inv PROVE TypeOK
    OBVIOUS
  <2>1. queue \in 0..MaxAlerts+1 /\ messages \in 0..MaxAlerts+1 /\ tick \in 0..Ticks-1
    BY AgentAssumption DEF Inv, CountersInv, Coming
  <2> QED
    BY <2>1 DEF Inv, TypeOK, ControlTypeOK
<1> QED
  BY <1>1, SpecInv, PTL

(* The daemon and the commands close every handle they open                *)
(* (CommManager.cpp:154-181, 280).                                         *)
THEOREM AllHandlesClosed == Spec => []HandlesClosed
<1>1. Inv => HandlesClosed
  BY CommAssumption DEF Inv, HandleInv, HandlesClosed, CommTypeOK
<1> QED
  BY <1>1, SpecInv, PTL

(* No program ends before its listener has (CommManager.cpp:75-79,         *)
(* 344-350).                                                               *)
THEOREM ListenerFirst == Spec => []ListenerEndsFirst
<1>1. Inv => ListenerEndsFirst
  BY DEF Inv, ThreadInv
<1> QED
  BY <1>1, SpecInv, PTL

(* The daemon never overwrites a thread it has not joined                  *)
(* (CommManager.cpp:315).                                                  *)
THEOREM DaemonNeverTerminated == Spec => []DaemonKeepsRunning
<1>1. Inv => DaemonKeepsRunning
  BY DEF Inv, ThreadInv, DaemonKeepsRunning
<1> QED
  BY <1>1, SpecInv, PTL

(* At rest, the driver monitors exactly if the configuration says so       *)
(* (TrayMain.cpp:167-179, RansomShieldModule.cpp:40-45), unless the last   *)
(* push or toggle got no answer over a connection that exists              *)
(* (CommManager.cpp:267-283): any number of such failures is made good by  *)
(* the next request that is answered.                                      *)
THEOREM ConfigFollowed == Spec => []DriverFollowsConfig
<1>1. Inv => DriverFollowsConfig
  BY DEF Inv, MonitoringInv, ProgramInv, Pushed, DriverFollowsConfig, ControlTypeOK
<1> QED
  BY <1>1, SpecInv, PTL

(* No queued alert is forgotten (NotificationManager.cpp:103-118).         *)
THEOREM NoAlertForgotten == Spec => []AlertsAnnounced
<1>1. Inv => AlertsAnnounced
  BY DEF Inv, CountersInv
<1> QED
  BY <1>1, SpecInv, PTL
=============================================================================
