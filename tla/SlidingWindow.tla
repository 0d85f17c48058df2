---------------------------- MODULE SlidingWindow ----------------------------
(***************************************************************************)
(* The heuristic for one process, over the list of RsOperations: what the  *)
(* ring buffer of kernel/RsContext.c has to implement.                     *)
(***************************************************************************)
EXTENDS Integers, Sequences, RsOperations

CONSTANTS Thresholds,  \* values a client may set as the threshold
          Windows,     \* values a client may set as the window
          MaxClock     \* bound on the interrupt time
VARIABLES operations, isBlocked, fileCountThreshold, timeWindowTicks,
          monitoringEnabled, clock

config == <<fileCountThreshold, timeWindowTicks, monitoringEnabled>>
vars   == <<operations, isBlocked, config, clock>>

Init ==
  /\ operations = <<>>
  /\ isBlocked = FALSE
  /\ fileCountThreshold \in Thresholds \ {0}
  /\ timeWindowTicks \in Windows \ {0}
  /\ monitoringEnabled = TRUE
  /\ clock = 0

(* One monitored operation of a process that is not blocked yet, stamped   *)
(* with a time that is not in the future.                                  *)
RecordOperation ==
  /\ ~isBlocked
  /\ \E now \in 0 .. clock :
       /\ operations' = Recorded(operations, now, timeWindowTicks)
       /\ isBlocked' = (/\ monitoringEnabled
                        /\ RecentCount(operations', now, timeWindowTicks)
                             >= fileCountThreshold)
  /\ UNCHANGED <<config, clock>>

ApplyConfig ==
  /\ fileCountThreshold' \in (Thresholds \ {0}) \union {fileCountThreshold}
  /\ timeWindowTicks' \in (Windows \ {0}) \union {timeWindowTicks}
  /\ monitoringEnabled' \in BOOLEAN
  /\ UNCHANGED <<operations, isBlocked, clock>>

(* Unblocking forgets the process altogether.                              *)
UnblockProcess ==
  /\ operations' = <<>>
  /\ isBlocked' = FALSE
  /\ UNCHANGED <<config, clock>>

Tick ==
  /\ clock < MaxClock
  /\ clock' = clock + 1
  /\ UNCHANGED <<operations, isBlocked, config>>

Next == RecordOperation \/ ApplyConfig \/ UnblockProcess \/ Tick

Spec == Init /\ [][Next]_vars
=============================================================================
