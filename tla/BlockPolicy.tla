----------------------------- MODULE BlockPolicy -----------------------------
(***************************************************************************)
(* What the driver promises about tracking and blocking, without hash      *)
(* tables, locks or memory: every monitored operation asks once, is judged *)
(* in ONE atomic step on the log of its process, and is answered once.     *)
(*                                                                         *)
(* A process is blocked only by one of its own operations, only while      *)
(* monitoring is enabled, and only when its log then holds the threshold   *)
(* within the window; that operation is denied and owes a report.  From    *)
(* then on every operation is denied, until a client unblocks the process  *)
(* or the driver unloads: neither time, nor pausing, nor a new             *)
(* configuration lifts a block.  Only an operation that found no memory    *)
(* passes unrecorded.                                                      *)
(***************************************************************************)
EXTENDS Integers, Sequences, RsOperations

CONSTANTS Pids,      \* process ids the driver may track
          NoPid,     \* stands for "no process"
          Callers,   \* threads inside the driver's pre-operation callbacks
          DefaultThreshold, DefaultWindow   \* the configuration at load
VARIABLES operations,  \* per process, the log of its recorded operations
          blocked,     \* the set of blocked processes
          config,      \* threshold, window, and whether detection is enabled
          driver,      \* "loaded", "unloading" or "unloaded"
          clock,       \* the interrupt time
          call         \* per caller: phase, process, sampled time and answer

vars == <<operations, blocked, config, driver, clock, call>>

NoCall == [phase |-> "idle", pid |-> NoPid, time |-> 0, answer |-> "pending"]

Defaults == [threshold |-> DefaultThreshold, window |-> DefaultWindow,
             enabled |-> TRUE]

Init ==
  /\ operations = [p \in Pids |-> <<>>]
  /\ blocked = {}
  /\ config = Defaults
  /\ driver = "loaded"
  /\ clock = 0
  /\ call = [t \in Callers |-> NoCall]

Ask(t, p) ==
  /\ driver # "unloaded"
  /\ call[t].phase = "idle"
  /\ call' = [call EXCEPT ![t] = [NoCall EXCEPT !.phase = "asked", !.pid = p,
                                                !.time = clock]]
  /\ UNCHANGED <<operations, blocked, config, driver, clock>>

Answer(t, phase, answer) ==
  /\ call[t].phase = "asked"
  /\ call' = [call EXCEPT ![t].phase = phase, ![t].answer = answer]
  /\ UNCHANGED <<config, driver, clock>>

Refuse(t) ==
  /\ call[t].pid \in blocked
  /\ Answer(t, "answered", "deny")
  /\ UNCHANGED <<operations, blocked>>

(* The operation enters the log, which then holds enough of them or not.   *)
Record(t) ==
  /\ call[t].pid \notin blocked
  /\ operations' = [operations EXCEPT ![call[t].pid] =
                      Recorded(@, call[t].time, config.window)]

Exceeds(t) ==
  /\ config.enabled
  /\ RecentCount(operations'[call[t].pid], call[t].time, config.window)
       >= config.threshold

Admit(t) ==
  /\ Answer(t, "answered", "allow")
  /\ Record(t)
  /\ ~Exceeds(t)
  /\ UNCHANGED blocked

Detect(t) ==
  /\ Answer(t, "reporting", "deny")
  /\ Record(t)
  /\ Exceeds(t)
  /\ blocked' = blocked \union {call[t].pid}

FailOpen(t) ==
  /\ Answer(t, "answered", "failed")
  /\ UNCHANGED <<operations, blocked>>

Report(t) ==
  /\ call[t].phase = "reporting"
  /\ call' = [call EXCEPT ![t].phase = "answered"]
  /\ UNCHANGED <<operations, blocked, config, driver, clock>>

Finish(t) ==
  /\ call[t].phase = "answered"
  /\ call' = [call EXCEPT ![t] = NoCall]
  /\ UNCHANGED <<operations, blocked, config, driver, clock>>

Unblock(p) ==
  /\ driver # "unloaded"
  /\ blocked' = blocked \ {p}
  /\ operations' = [operations EXCEPT ![p] = <<>>]
  /\ UNCHANGED <<config, driver, clock, call>>

(* A client configures the driver: it never sets a threshold or a window   *)
(* of zero.                                                                *)
Configure ==
  /\ driver # "unloaded"
  /\ config' \in [threshold : Nat \ {0}, window : Nat \ {0}, enabled : BOOLEAN]
  /\ UNCHANGED <<operations, blocked, driver, clock, call>>

Forget == /\ operations' = [p \in Pids |-> <<>>]
          /\ blocked' = {}

(* The driver forgets every process on its way out; what still runs inside *)
(* it may be recorded afresh, and is forgotten with the driver's image.    *)
Unload ==
  /\ Forget
  /\ \/ driver = "loaded" /\ driver' = "unloading"
     \/ /\ driver = "unloading" /\ driver' = "unloaded"
        /\ \A t \in Callers : call[t].phase = "idle"
  /\ UNCHANGED <<config, clock, call>>

Load ==
  /\ driver = "unloaded"
  /\ driver' = "loaded"
  /\ config' = Defaults
  /\ UNCHANGED <<operations, blocked, clock, call>>

Tick ==
  /\ clock' = clock + 1
  /\ UNCHANGED <<operations, blocked, config, driver, call>>

Next ==
  \/ \E t \in Callers :
       \/ \E p \in Pids : Ask(t, p)
       \/ Refuse(t) \/ Admit(t) \/ Detect(t) \/ FailOpen(t)
       \/ Report(t) \/ Finish(t)
  \/ \E p \in Pids : Unblock(p)
  \/ Configure
  \/ Unload \/ Load
  \/ Tick

Spec == Init /\ [][Next]_vars
=============================================================================
