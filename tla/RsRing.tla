------------------------------- MODULE RsRing -------------------------------
(***************************************************************************)
(* The ring buffer of one process context (RS_PROCESS_CONTEXT.Operations,  *)
(* OperationHead, OperationCount) and the threshold test on it, as         *)
(* RecordAndEvaluate of kernel/RsContext.c runs them under the lock.       *)
(*                                                                         *)
(* `log' is a history variable: the timestamp of every operation recorded  *)
(* since the context was created, which the code never keeps.  `past'      *)
(* remembers what disturbed the log: a window that grew, a timestamp out   *)
(* of order, a live entry overwritten.  The code reads neither.            *)
(***************************************************************************)
EXTENDS Integers, Sequences, FiniteSets, RsOperations

CONSTANTS Thresholds,  \* values a client may set; 0 leaves it unchanged
          Windows,     \* values a client may set; 0 leaves it unchanged
          MaxClock,    \* bound on the interrupt time
          MaxLag,      \* bound on how long a caller stalls with its timestamp
          MaxLog       \* bound on the operations of one process
VARIABLES ring, isBlocked, fileCountThreshold, timeWindowTicks,
          monitoringEnabled, clock, log, past

config == <<fileCountThreshold, timeWindowTicks, monitoringEnabled>>
vars   == <<ring, isBlocked, config, clock, log, past>>

ASSUME BoundsAssumption ==
  /\ Thresholds \subseteq Nat /\ Windows \subseteq Nat
  /\ MaxClock \in Nat /\ MaxLag \in Nat /\ MaxLog \in Nat
-----------------------------------------------------------------------------
Slot == 0 .. MaxOps - 1

EmptyRing == [slots |-> [i \in Slot |-> 0], head |-> 0, count |-> 0]

(* The head is the next slot to write, so the oldest entry is `count'      *)
(* slots behind it.                                                        *)
Oldest(r) == (r.head + MaxOps - r.count) % MaxOps

(* The entries in the order in which they were recorded.                   *)
Contents(r) ==
  [k \in 1 .. r.count |-> r.slots[(Oldest(r) + k - 1) % MaxOps]]

(* The ring whose first slots hold `kept'; the others keep what they held. *)
Refilled(r, kept) ==
  [slots |-> [i \in Slot |-> IF i < Len(kept) THEN kept[i + 1] ELSE r.slots[i]],
   head  |-> Len(kept) % MaxOps,
   count |-> Len(kept)]

(* Mutant: the head is not wrapped when every entry of a full ring stays.  *)
PruneRingUnwrappedHead(r, now, ticks) ==
  LET kept == PruneOldOperations(Contents(r), now, ticks)
  IN  [Refilled(r, kept) EXCEPT !.head = Len(kept)]

(* Mutant: drops everything up to the last expired entry, as if timestamps *)
(* were recorded in order.                                                 *)
PruneRingAssumingOrder(r, now, ticks) ==
  LET ops     == Contents(r)
      expired == DOMAIN ops \ Survivors(ops, now, ticks)
      sorted  == {k \in DOMAIN ops : \A m \in expired : m < k}
  IN  Refilled(r, Compact(ops, sorted))

(* RsPruneOldOperations: the survivors are collected in a temporary buffer *)
(* and copied back to the slots from 0 on.                                 *)
PruneRing(r, now, ticks) ==
  IF r.count = 0
  THEN r
  ELSE Refilled(r, PruneOldOperations(Contents(r), now, ticks))

(* Mutant: the head runs past the last slot.                               *)
AppendRingUnwrapped(r, now) ==
  [slots |-> [r.slots EXCEPT ![r.head] = now],
   head  |-> r.head + 1,
   count |-> IF r.count < MaxOps THEN r.count + 1 ELSE r.count]

(* A full ring overwrites the slot at its head, which is the oldest.       *)
AppendRing(r, now) ==
  [slots |-> [r.slots EXCEPT ![r.head] = now],
   head  |-> (r.head + 1) % MaxOps,
   count |-> IF r.count < MaxOps THEN r.count + 1 ELSE r.count]

(* Mutant: an operation exactly one window old no longer counts.           *)
RecentInRingExclusive(r, now, ticks) ==
  Cardinality({k \in 1 .. r.count : now - Contents(r)[k] < ticks})

(* The precise count behind the threshold test.                            *)
RecentInRing(r, now, ticks) ==
  Cardinality({k \in 1 .. r.count : now - Contents(r)[k] <= ticks})
-----------------------------------------------------------------------------
Undisturbed == [enlarged |-> FALSE, reordered |-> FALSE, overwrote |-> FALSE]

Init ==
  /\ ring = EmptyRing
  /\ isBlocked = FALSE
  /\ fileCountThreshold \in Thresholds \ {0}
  /\ timeWindowTicks \in Windows \ {0}
  /\ monitoringEnabled = TRUE
  /\ clock = 0
  /\ log = <<>>
  /\ past = Undisturbed

(* The window of one operation stamped `now'.  A blocked process never     *)
(* gets here: the lookup before it denies the operation.                   *)
RecordAndEvaluate(now) ==
  LET pruned == PruneRing(ring, now, timeWindowTicks)
  IN  /\ ~isBlocked
      /\ ring' = AppendRing(pruned, now)
      /\ isBlocked' = (/\ RecentInRing(ring', now, timeWindowTicks)
                            >= fileCountThreshold
                       /\ monitoringEnabled)
      /\ log' = Append(log, now)
      /\ past' = [past EXCEPT
                    !.reordered = @ \/ \E k \in 1 .. Len(log) : log[k] > now,
                    !.overwrote = @ \/ pruned.count = MaxOps]
      /\ UNCHANGED <<config, clock>>

RecordOperation ==
  /\ Len(log) < MaxLog
  /\ \E now \in 0 .. clock : clock - now <= MaxLag /\ RecordAndEvaluate(now)

(* RsApplyConfig, and the pause and resume requests: 0 leaves a number     *)
(* unchanged, the flag is always taken.                                    *)
ApplyConfig(threshold, window, enabled) ==
  /\ fileCountThreshold' = IF threshold > 0 THEN threshold
                                            ELSE fileCountThreshold
  /\ timeWindowTicks' = IF window > 0 THEN window ELSE timeWindowTicks
  /\ monitoringEnabled' = enabled
  /\ past' = [past EXCEPT !.enlarged =
                @ \/ (log # <<>> /\ timeWindowTicks' > timeWindowTicks)]
  /\ UNCHANGED <<ring, isBlocked, clock, log>>

(* Unblocking frees the context; the next operation finds a zeroed one.    *)
UnblockProcess ==
  /\ ring' = EmptyRing
  /\ isBlocked' = FALSE
  /\ log' = <<>>
  /\ past' = Undisturbed
  /\ UNCHANGED <<config, clock>>

Tick ==
  /\ clock < MaxClock
  /\ clock' = clock + 1
  /\ UNCHANGED <<ring, isBlocked, config, log, past>>

Next ==
  \/ RecordOperation
  \/ \E threshold \in Thresholds, window \in Windows, enabled \in BOOLEAN :
       ApplyConfig(threshold, window, enabled)
  \/ UnblockProcess
  \/ Tick

Spec == Init /\ [][Next]_vars
-----------------------------------------------------------------------------
(* The ring is well formed: indices in range, and every entry it counts is *)
(* a timestamp that was recorded and is not in the future.                 *)
TypeOK ==
  /\ ring \in [slots : [Slot -> 0 .. clock], head : Slot, count : 0 .. MaxOps]
  /\ isBlocked \in BOOLEAN
  /\ fileCountThreshold \in Nat \ {0}
  /\ timeWindowTicks \in Nat \ {0}
  /\ monitoringEnabled \in BOOLEAN
  /\ log \in Seq(0 .. clock)

(* The operations within the window that ends at `now', over everything    *)
(* that was recorded.                                                      *)
Within(ops, now, ticks) ==
  {k \in 1 .. Len(ops) : ops[k] \in now - ticks .. now}

LastStamp == CHOOSE t \in {log[k] : k \in 1 .. Len(log)} :
               \A k \in 1 .. Len(log) : log[k] <= t

(* The ring behaves as the list of RsOperations: pruning, wrapping,        *)
(* overwriting and counting lose nothing and invent nothing.               *)
Window == INSTANCE SlidingWindow WITH operations <- Contents(ring)
RingImplementsWindow == Window!Spec

(* A step that records an operation and evaluates the threshold.           *)
Evaluates == log' # log /\ log' # <<>>

(* As long as timestamps arrive in order, the window was not enlarged and  *)
(* the threshold fits the ring, an operation is blocked exactly when it is *)
(* the threshold-th within the window, counted over EVERY operation of the *)
(* process since it is tracked: what README.md promises.                   *)
DetectionIsExact ==
  [][/\ Evaluates
     /\ ~past'.reordered /\ ~past'.enlarged
     /\ fileCountThreshold <= MaxOps
     => (isBlocked' <=>
           /\ monitoringEnabled
           /\ Cardinality(Within(log', log'[Len(log')], timeWindowTicks))
                >= fileCountThreshold)]_vars

(* Whatever the order in which callers reach the lock, an evaluation that  *)
(* leaves the process unblocked leaves fewer than threshold operations in  *)
(* the window ending at the latest timestamp: a burst is never missed      *)
(* because a stalled caller pruned or evaluated with an old time.          *)
NoMissedBurst ==
  [][/\ Evaluates
     /\ ~past'.enlarged /\ ~past'.overwrote
     /\ fileCountThreshold <= MaxOps
     /\ monitoringEnabled /\ ~isBlocked'
     => Cardinality(Within(log', LastStamp', timeWindowTicks))
          < fileCountThreshold]_vars

(* README.md: a process is blocked when it exceeds the threshold within a  *)
(* sliding window.  So no process is blocked unless SOME window of that    *)
(* length holds that many of its operations.                               *)
NoFalseAlarm ==
  [][(~isBlocked /\ isBlocked') =>
       \E end \in 0 .. clock :
         Cardinality(Within(log', end, timeWindowTicks))
           >= fileCountThreshold]_vars
=============================================================================
