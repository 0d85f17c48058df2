------------------------------ MODULE RsAgents ------------------------------
(***************************************************************************)
(* The programs that own a CommManager: the tray agent, the daemon of the  *)
(* command line client, and one of its commands.  Each drives the          *)
(* connection from its main thread while the listener delivers reports,    *)
(* and the driver may be unloaded and loaded at any time.                  *)
(*                                                                         *)
(* The push of the configuration is one step here: RsAllowlist has the     *)
(* messages of its second half, and its first message is the one that sets *)
(* whether the driver monitors.                                            *)
(***************************************************************************)
EXTENDS CommManager

CONSTANTS
  Programs,   \* those of "tray", "daemon" and "command" to model
  Ticks,      \* HEALTH_TICKS_PER_QUERY
  MaxAlerts   \* bound on the alerts and window messages under way

ASSUME AgentAssumption ==
  /\ Programs \subseteq {"tray", "daemon", "command"}
  /\ Ticks \in Nat \ {0} /\ MaxAlerts \in Nat

VARIABLES
  program,
  main,       \* where the main thread is
  resume,     \* where it goes after CloseHandle
  hClose,     \* hPortToClose of Disconnect
  tick,       \* s_healthTick, pollCounter
  seen,       \* currentlyMonitoring
  monitoring, \* g_MonitoringEnabled of the driver
  config,     \* the same in the program's configuration
  missed,     \* history: did the last request to set it get no answer on a
              \* connection that exists?
  queue,      \* m_alertQueue: how many alerts
  messages    \* WM_RSBLOCKED messages in the queue of the main thread

control == <<main, resume, hClose, tick, seen>>
settings == <<monitoring, config, missed>>
alerts  == <<queue, messages>>
vars == <<commVars, program, control, settings, alerts>>

Init ==
  /\ CommInit
  /\ program \in Programs
  /\ main = "connect" /\ resume = "idle"
  /\ hClose = None
  /\ tick = 0
  /\ seen \in BOOLEAN /\ (program # "command" => seen)
  /\ monitoring = TRUE /\ config \in BOOLEAN /\ missed = FALSE
  /\ queue = 0 /\ messages = 0

(* Where the main thread waits for what comes next.                        *)
Rest == CASE program = "tray"    -> "idle"
          [] program = "daemon"  -> "loop"
          [] program = "command" -> "exit"

Goto(label) == main' = label /\ UNCHANGED <<resume, hClose, tick, seen>>
-----------------------------------------------------------------------------
(* Connecting: at the start, on the timer of the tray, and after a failed  *)
(* health check of the daemon.  The daemon gives up after some attempts.   *)
Connect ==
  /\ main \in {"connect", "reconnect"}
  /\ \/ /\ Connects
        /\ Goto(IF program = "command" THEN "set"
                ELSE IF main = "connect" THEN "push" ELSE "repush")
     \/ /\ ConnectFails
        /\ \/ main = "connect" /\ program = "tray" /\ Goto("idle")
           \/ main = "connect" /\ program = "daemon" /\ Goto("connect")
           \/ main = "connect" /\ program # "tray" /\ Goto("exit")
           \/ main = "reconnect" /\ Goto("loop")
  /\ UNCHANGED <<program, settings, alerts>>

(* A request to set monitoring that gets no answer: when the connection    *)
(* exists the driver may have done it before the reply was lost.           *)
Unanswered(value) ==
  /\ RequestFails
  /\ IF Reachable THEN monitoring' \in {monitoring, value} /\ missed' = TRUE
                  ELSE UNCHANGED <<monitoring, missed>>

(* PushToDriver; no caller looks at its result.                            *)
PushToDriver ==
  /\ main \in {"push", "repush"}
  /\ \/ RequestAnswered /\ monitoring' = config /\ missed' = FALSE
     \/ Unanswered(config)
  /\ Goto(IF main = "push" THEN "start" ELSE "restart")
  /\ UNCHANGED <<program, config, alerts>>

(* StartListener.  Only the daemon's first call has its result looked at.  *)
StartListener ==
  /\ main \in {"start", "restart"}
  /\ \/ ListenerKept /\ Goto(Rest)
     \/ /\ ListenerStarted
        /\ Goto(IF ~running' /\ program = "daemon" /\ main = "start"
                THEN "exit" ELSE Rest)
     \/ ListenerOverwritten /\ Goto("terminated")
     \/ /\ ~IsConnected /\ UNCHANGED commVars
        /\ Goto(IF program = "daemon" /\ main = "start" THEN "exit" ELSE Rest)
  /\ UNCHANGED <<program, settings, alerts>>

(* StopListener: the flag, then Disconnect, then the join at `label'.  The *)
(* Disconnect that follows it everywhere finds no handle any more.         *)
StopListener(label) ==
  /\ running' = FALSE
  /\ main' = "disconnect" /\ resume' = label
  /\ UNCHANGED <<hPort, open, live, thread, loaded, hClose, tick, seen>>

(* Mutant: a connection that was marked as lost is not closed.             *)
DisconnectIfConnected ==
  /\ main = "disconnect" /\ main' = "close"
  /\ \/ connected /\ TakeHandle /\ hClose' = hPort
     \/ ~connected /\ UNCHANGED <<commVars, hClose>>
  /\ UNCHANGED <<resume, tick, seen, program, settings, alerts>>

Disconnect ==
  /\ main = "disconnect"
  /\ TakeHandle
  /\ hClose' = hPort /\ main' = "close"
  /\ UNCHANGED <<resume, tick, seen, program, settings, alerts>>

Close ==
  /\ main = "close"
  /\ CloseHandle(hClose)
  /\ hClose' = None /\ main' = resume /\ resume' = "idle"
  /\ UNCHANGED <<tick, seen, program, settings, alerts>>

(* Mutant: nobody waits for the listener.                                  *)
JoinSkipped ==
  /\ main \in {"join", "rejoin"}
  /\ Goto(IF main = "join" THEN "ended" ELSE "reconnect")
  /\ UNCHANGED <<commVars, program, settings, alerts>>

Join ==
  /\ main \in {"join", "rejoin"}
  /\ JoinListener
  /\ Goto(IF main = "join" THEN "ended" ELSE "reconnect")
  /\ UNCHANGED <<program, settings, alerts>>

(* Static destructors, WM_DESTROY and Shutdown all stop the listener.      *)
Exit ==
  /\ main = "exit"
  /\ StopListener("join")
  /\ UNCHANGED <<connected, program, settings, alerts>>
-----------------------------------------------------------------------------
(* Mutant: the counter is not reset after a query.                         *)
DaemonLoopUnreset ==
  /\ program = "daemon" /\ main = "loop"
  /\ \/ ~IsConnected /\ Goto("exit")
     \/ /\ IsConnected
        /\ tick' = tick + 1
        /\ main' = IF tick + 1 >= Ticks THEN "query" ELSE "loop"
        /\ UNCHANGED <<resume, hClose, seen>>
  /\ UNCHANGED <<commVars, program, settings, alerts>>

(* The daemon's loop runs while it is connected and asks the driver every  *)
(* Ticks rounds.                                                           *)
DaemonLoop ==
  /\ program = "daemon" /\ main = "loop"
  /\ \/ ~IsConnected /\ Goto("exit")
     \/ /\ IsConnected
        /\ tick' = IF tick + 1 >= Ticks THEN 0 ELSE tick + 1
        /\ main' = IF tick + 1 >= Ticks THEN "query" ELSE "loop"
        /\ UNCHANGED <<resume, hClose, seen>>
  /\ UNCHANGED <<commVars, program, settings, alerts>>

(* The tray's WM_TIMER.  The counter is read only while connected, so it   *)
(* may be reset when the reconnecting starts instead of when it succeeds.  *)
Timer ==
  /\ program = "tray" /\ main = "idle"
  /\ \/ ~IsConnected /\ tick' = 0 /\ main' = "connect"
     \/ /\ IsConnected
        /\ tick' = IF tick + 1 >= Ticks THEN 0 ELSE tick + 1
        /\ main' = IF tick + 1 >= Ticks THEN "query" ELSE "idle"
  /\ UNCHANGED <<resume, hClose, seen, commVars, program, settings, alerts>>

(* Mutant: a health check that fails is only logged.                       *)
HealthCheckIgnored ==
  /\ main = "query"
  /\ \/ RequestAnswered /\ Goto(Rest)
     \/ RequestFails /\ Goto(Rest)
  /\ UNCHANGED <<program, settings, alerts>>

(* The health check.  When it fails the daemon stops its listener and      *)
(* reconnects; the tray disconnects and leaves the rest to the timer.      *)
HealthCheck ==
  /\ main = "query"
  /\ \/ RequestAnswered /\ Goto(Rest)
     \/ program = "daemon" /\ NoAnswer /\ StopListener("rejoin")
     \/ /\ program = "tray" /\ RequestFails
        /\ main' = "disconnect" /\ resume' = "idle"
        /\ UNCHANGED <<hClose, tick, seen>>
  /\ UNCHANGED <<program, settings, alerts>>
-----------------------------------------------------------------------------
(* The tray toggles what it is told the driver does now ...                *)
TogglePauseMonitoring ==
  /\ program = "tray" /\ main = "idle"
  /\ \/ RequestAnswered /\ seen' = monitoring /\ main' = "set"
     \/ RequestFails /\ UNCHANGED <<seen, main>>
  /\ UNCHANGED <<resume, hClose, tick, program, settings, alerts>>

(* ... by a second request, which a command sends without asking ...       *)
PauseOrResume ==
  /\ main = "set"
  /\ \/ RequestAnswered /\ monitoring' = ~seen /\ missed' = FALSE /\ Goto("save")
     \/ Unanswered(~seen) /\ Goto(Rest)
  /\ UNCHANGED <<program, config, alerts>>

(* Mutant: the configuration is left as it was.                            *)
SetMonitoringForgotten ==
  /\ main = "save"
  /\ seen' = (program # "command" \/ seen)
  /\ main' = Rest
  /\ UNCHANGED <<resume, hClose, tick, commVars, program, settings, alerts>>

(* ... and then in the configuration, so that the next push agrees.        *)
SetMonitoringEnabled ==
  /\ main = "save"
  /\ config' = ~seen
  /\ seen' = (program # "command" \/ seen)
  /\ main' = Rest
  /\ UNCHANGED <<resume, hClose, tick, commVars, program, monitoring, missed,
                 alerts>>

(* WM_DESTROY.                                                             *)
UserExits ==
  /\ program = "tray" /\ main = "idle"
  /\ Goto("exit")
  /\ UNCHANGED <<commVars, program, settings, alerts>>
-----------------------------------------------------------------------------
(* Mutant: the main thread is not told of the alert.                       *)
QueueAlertSilently ==
  /\ listener = "callback"
  /\ \/ program = "tray" /\ queue' = queue + 1 /\ listener' = "loop"
     \/ program # "tray" /\ UNCHANGED queue /\ listener' = "loop"
  /\ UNCHANGED <<ports, running, lport, loaded, program, control, settings,
                 messages>>

(* The callback of the tray queues an alert ...                            *)
QueueAlert ==
  /\ listener = "callback"
  /\ \/ program = "tray" /\ queue' = queue + 1 /\ listener' = "post"
     \/ program # "tray" /\ UNCHANGED queue /\ listener' = "loop"
  /\ UNCHANGED <<ports, running, lport, loaded, program, control, settings,
                 messages>>

(* Mutant: SendMessage, which returns when the main thread handles it.     *)
SendAlert ==
  /\ listener = "post" /\ main = "idle"
  /\ messages' = messages + 1
  /\ listener' = "loop"
  /\ UNCHANGED <<ports, running, lport, loaded, program, control, settings,
                 queue>>

(* ... and then posts WM_RSBLOCKED, without waiting for anybody.           *)
PostAlert ==
  /\ listener = "post"
  /\ messages' = messages + 1
  /\ listener' = "loop"
  /\ UNCHANGED <<ports, running, lport, loaded, program, control, settings,
                 queue>>

HandleBlocked ==
  /\ program = "tray" /\ main = "idle" /\ messages > 0
  /\ messages' = messages - 1
  /\ Goto("drain")
  /\ UNCHANGED <<commVars, program, settings, queue>>

DrainAlert ==
  /\ main = "drain"
  /\ \/ queue > 0 /\ queue' = queue - 1 /\ Goto("drain")
     \/ queue = 0 /\ UNCHANGED queue /\ Goto("idle")
  /\ UNCHANGED <<commVars, program, settings, messages>>
-----------------------------------------------------------------------------
Driver ==
  /\ \/ DriverUnloads /\ UNCHANGED monitoring
     \/ DriverLoads /\ monitoring' = TRUE
     \/ queue + messages < MaxAlerts /\ Report /\ UNCHANGED monitoring
     \/ OtherError /\ UNCHANGED monitoring
  /\ UNCHANGED <<program, control, config, missed, alerts>>

Listener ==
  \/ /\ ListenerStep
     /\ UNCHANGED <<program, control, settings, alerts>>
  \/ QueueAlert
  \/ PostAlert

Main ==
  \/ Connect \/ PushToDriver \/ StartListener
  \/ Disconnect \/ Close \/ Join \/ Exit
  \/ DaemonLoop \/ HealthCheck
  \/ PauseOrResume \/ SetMonitoringEnabled
  \/ DrainAlert

Next ==
  \/ Driver \/ Listener \/ Main
  \/ Timer \/ HandleBlocked \/ TogglePauseMonitoring \/ UserExits

Spec == Init /\ [][Next]_vars

(* Both threads are scheduled.  The driver need not come back, and the     *)
(* user need not do anything.                                              *)
FairSpec == Spec /\ WF_vars(Main) /\ WF_vars(Listener)
-----------------------------------------------------------------------------
TypeOK ==
  /\ CommTypeOK
  /\ program \in Programs
  /\ main \in {"connect", "reconnect", "push", "repush", "start", "restart",
               "idle", "loop", "query", "set", "save", "drain", "exit",
               "disconnect", "close", "join", "rejoin", "ended", "terminated"}
  /\ resume \in {"idle", "join", "rejoin"}
  /\ hClose \in Handles \union {None}
  /\ tick \in 0..Ticks-1
  /\ seen \in BOOLEAN /\ monitoring \in BOOLEAN /\ config \in BOOLEAN
  /\ missed \in BOOLEAN
  /\ queue \in 0..MaxAlerts+1 /\ messages \in 0..MaxAlerts+1

(* The daemon and the commands close every handle they open: what is open  *)
(* is the current connection or about to be closed, and nothing is open at *)
(* the end.  "Don't close m_hPort here; the listener thread or Disconnect  *)
(* handles that." (CommManager.cpp:280)                                    *)
HandlesClosed ==
  program # "tray" =>
    /\ open \subseteq {hPort, hClose}
    /\ main = "ended" => open = {}

(* When the program ends, its listener has ended before: no callback runs  *)
(* in a process whose main thread is gone, and no thread object is         *)
(* destroyed joinable (CommManager.cpp:75-79, 344-350).                    *)
ListenerEndsFirst == main = "ended" => listener = "none"

(* The daemon never assigns a new thread to a std::thread that is still    *)
(* joinable, even when its listener ended by itself for lack of memory     *)
(* (CommManager.cpp:315, 369-373).                                         *)
DaemonKeepsRunning == program = "daemon" => main # "terminated"

(* Whenever a program is at rest and connected to a driver that is there,  *)
(* the driver monitors exactly if the program's configuration says so,     *)
(* through pauses, lost connections and restarts of the driver             *)
(* (TrayMain.cpp:167-179, RansomShieldModule.cpp:40-45).  They may differ  *)
(* only since a push or toggle of this very connection went without an     *)
(* answer, which leaves it open (CommManager.cpp:267-283) and which        *)
(* nobody retries (TrayMain.cpp:228, 301, Main.cpp:285, 309); the next     *)
(* one that is answered mends it.                                          *)
DriverFollowsConfig ==
  main \in {"idle", "loop"} /\ Reachable /\ ~missed => monitoring = config

(* An alert that was queued is going to be shown: the main thread is       *)
(* draining the queue, or has a message that makes it, or is about to get  *)
(* one, until the agent ends (NotificationManager.cpp:103-118).            *)
AlertsAnnounced ==
  queue > 0 => messages > 0 \/ main = "drain" \/ listener = "post"

(* Stopping the listener ends: the join returns, whatever the listener was *)
(* doing (CommManager.cpp:49-57, 326-353).                                 *)
StopReturns == main \in {"join", "rejoin"} ~> main \notin {"join", "rejoin"}

(* A daemon whose connection is gone finds out, even when its listener has *)
(* ended before, and reconnects or ends (Main.cpp:299-320).                *)
DaemonNoticesLoss ==
  program = "daemon" /\ main = "loop" /\ hPort \notin live
    ~> hPort \in live \/ main = "ended"

(* A connected agent at rest has a listener: "Receives push notifications  *)
(* (RsNotifyBlockedPid) on a background listener thread" and "Retries the  *)
(* driver connection automatically" (TrayMain.cpp:10-15).                  *)
ConnectedMeansListening ==
  main \in {"idle", "loop"} /\ IsConnected /\ hPort \in live =>
    listener \notin {"none", "exited"}
=============================================================================
