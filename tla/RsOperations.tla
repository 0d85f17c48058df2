---------------------------- MODULE RsOperations ----------------------------
(***************************************************************************)
(* The operation log of one tracked process (kernel/RsContext.c), as the   *)
(* list of the timestamps it holds, oldest recorded first.  The driver     *)
(* keeps the list in a ring of RS_MAX_OPERATIONS_PER_PID slots; RsRing     *)
(* models the ring and is shown to implement these operators.              *)
(*                                                                         *)
(* The time at which an operation is recorded is sampled before the lock   *)
(* is taken, so a later element may carry an EARLIER timestamp: nothing    *)
(* below assumes that the list is sorted, and now - ops[k] can be          *)
(* negative, as the LONGLONG difference of the code can.                   *)
(***************************************************************************)
EXTENDS Integers, Sequences, FiniteSets

CONSTANT MaxOps   \* RS_MAX_OPERATIONS_PER_PID

ASSUME MaxOpsAssumption == MaxOps \in Nat \ {0}
-----------------------------------------------------------------------------
(* The positions whose age at `now' does not exceed the window.            *)
Survivors(ops, now, ticks) ==
  {k \in 1 .. Len(ops) : now - ops[k] <= ticks}

(* The place of position k once only the positions in `keep' remain.       *)
Rank(keep, k) == Cardinality({m \in keep : m <= k})

(* The elements at the positions in `keep', in their order.                *)
Compact(ops, keep) ==
  [j \in 1 .. Cardinality(keep) |->
     ops[CHOOSE k \in keep : Rank(keep, k) = j]]

(* Every element is tested, not only a prefix, so a young entry behind an  *)
(* old one is kept and an old entry behind a young one is dropped.         *)
PruneOldOperations(ops, now, ticks) ==
  Compact(ops, Survivors(ops, now, ticks))

(* Mutant: nothing is lost when the log is full.                           *)
AppendOperationUnbounded(ops, now) == Append(ops, now)

(* A full log loses the element that was recorded first.                   *)
AppendOperation(ops, now) ==
  IF Len(ops) < MaxOps THEN Append(ops, now) ELSE Append(Tail(ops), now)

RecentCount(ops, now, ticks) == Cardinality(Survivors(ops, now, ticks))

(* The log after one operation at `now', which is what the threshold is    *)
(* then compared with.                                                     *)
Recorded(ops, now, ticks) ==
  AppendOperation(PruneOldOperations(ops, now, ticks), now)
=============================================================================
