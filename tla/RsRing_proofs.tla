---------------------------- MODULE RsRing_proofs ----------------------------
(***************************************************************************)
(* The ring of kernel/RsContext.c implements the list of RsOperations, for *)
(* every capacity, window, threshold and order of timestamps, and detects  *)
(* what a log without limits would detect.                                 *)
(*                                                                         *)
(* The argument for the second: as long as timestamps are in order the     *)
(* ring holds the end of the log of all operations, and what it lacks is   *)
(* either expired or beyond its capacity (EndsWith); in any order it holds *)
(* at least the operations of the latest window, unless one of them was    *)
(* overwritten (Covers).  HistoryInv keeps both from step to step.         *)
(***************************************************************************)
EXTENDS RsRing, RsOperations_proofs, SequenceTheorems

(* Arithmetic modulo the capacity, over at most one turn of the ring.      *)
LEMMA ModLow ==
  ASSUME NEW N \in Nat \ {0}, NEW x \in 0 .. N - 1
  PROVE  x % N = x
OBVIOUS

LEMMA ModHigh ==
  ASSUME NEW N \in Nat \ {0}, NEW x \in N .. 2 * N - 1
  PROVE  x % N = x - N
OBVIOUS

Wrap(x) == IF x < MaxOps THEN x ELSE x - MaxOps

LEMMA ModIsWrap ==
  ASSUME NEW x \in 0 .. 2 * MaxOps - 1
  PROVE  x % MaxOps = Wrap(x) /\ Wrap(x) \in Slot
<1>1. MaxOps \in Nat \ {0}
  BY MaxOpsAssumption
<1>2. CASE x < MaxOps
  BY <1>1, <1>2, ModLow DEF Wrap, Slot
<1>3. CASE ~(x < MaxOps)
  <2>1. x \in MaxOps .. 2 * MaxOps - 1
    BY <1>1, <1>3
  <2>2. x % MaxOps = x - MaxOps
    BY <1>1, <2>1, ModHigh
  <2> QED BY <1>1, <1>3, <2>1, <2>2 DEF Wrap, Slot
<1> QED BY <1>2, <1>3

Rings(S) == [slots : [Slot -> S], head : Slot, count : 0 .. MaxOps]

(* Where the k-th entry of the list lies.                                  *)
At(r, k) == Wrap(Wrap(r.head + MaxOps - r.count) + k - 1)

LEMMA ContentsIs ==
  ASSUME NEW S, NEW r \in Rings(S)
  PROVE  /\ Contents(r) \in Seq(S) /\ Len(Contents(r)) = r.count
         /\ \A k \in 1 .. r.count :
              At(r, k) \in Slot /\ Contents(r)[k] = r.slots[At(r, k)]
<1>1. MaxOps \in Nat \ {0} /\ r.count \in 0 .. MaxOps /\ r.head \in 0 .. MaxOps - 1
  BY MaxOpsAssumption DEF Rings, Slot
<1> DEFINE o == Wrap(r.head + MaxOps - r.count)
<1>2. r.head + MaxOps - r.count \in 0 .. 2 * MaxOps - 1
  BY <1>1
<1>3. Oldest(r) = o /\ o \in Slot
  BY <1>2, ModIsWrap DEF Oldest
<1> HIDE DEF o
<1>4. ASSUME NEW k \in 1 .. r.count
      PROVE  (o + k - 1) % MaxOps = Wrap(o + k - 1) /\ Wrap(o + k - 1) \in Slot
  <2>1. o + k - 1 \in 0 .. 2 * MaxOps - 1
    BY <1>1, <1>3 DEF Slot
  <2> QED BY <2>1, ModIsWrap
<1>5. \A k \in 1 .. r.count :
        /\ At(r, k) \in Slot /\ r.slots[At(r, k)] \in S
        /\ r.slots[(Oldest(r) + k - 1) % MaxOps] = r.slots[At(r, k)]
  <2> TAKE k \in 1 .. r.count
  <2>1. At(r, k) = Wrap(o + k - 1)
    BY DEF At, o
  <2> QED BY <1>3, <1>4, <2>1 DEF Rings
<1>6. Contents(r) = [k \in 1 .. r.count |-> r.slots[At(r, k)]]
  BY <1>5 DEF Contents
<1>7. r.count \in Nat
  BY <1>1
<1> HIDE DEF At
<1> QED BY <1>5, <1>6, <1>7

(* Copying a list back to the slots from 0 on keeps it.                    *)
LEMMA RefilledIs ==
  ASSUME NEW S, NEW r \in Rings(S), NEW kept \in Seq(S), Len(kept) <= MaxOps
  PROVE  Refilled(r, kept) \in Rings(S) /\ Contents(Refilled(r, kept)) = kept
<1> DEFINE q == Refilled(r, kept)
<1>1. MaxOps \in Nat \ {0} /\ Len(kept) \in 0 .. MaxOps
  BY MaxOpsAssumption
<1>2. Len(kept) \in 0 .. 2 * MaxOps - 1
  BY <1>1
<1>3. Len(kept) % MaxOps = Wrap(Len(kept)) /\ Wrap(Len(kept)) \in Slot
  BY <1>2, ModIsWrap
<1>4. [i \in Slot |-> IF i < Len(kept) THEN kept[i + 1] ELSE r.slots[i]] \in [Slot -> S]
  <2>1. ASSUME NEW i \in Slot, i < Len(kept) PROVE kept[i + 1] \in S
    <3>1. i + 1 \in 1 .. Len(kept)
      BY <1>1, <2>1 DEF Slot
    <3> QED BY <3>1, ElementOfSeq
  <2> QED BY <2>1 DEF Rings
<1>5. q \in Rings(S)
  BY <1>1, <1>3, <1>4 DEF Refilled, Rings
<1>6. /\ q.count = Len(kept) /\ q.head = Wrap(Len(kept))
      /\ \A i \in Slot : i < Len(kept) => q.slots[i] = kept[i + 1]
  BY <1>3 DEF Refilled
<1>7. \A k \in 1 .. Len(kept) : At(q, k) = k - 1
  BY <1>1, <1>6 DEF At, Wrap
<1> HIDE DEF q
<1>8. /\ Contents(q) \in Seq(S) /\ Len(Contents(q)) = Len(kept)
      /\ \A k \in 1 .. Len(kept) : Contents(q)[k] = q.slots[At(q, k)]
  BY <1>5, <1>6, ContentsIs
<1>9. \A k \in 1 .. Len(kept) : Contents(q)[k] = kept[k]
  <2> TAKE k \in 1 .. Len(kept)
  <2>1. k - 1 \in Slot /\ k - 1 < Len(kept) /\ (k - 1) + 1 = k
    BY <1>1 DEF Slot
  <2> QED BY <1>6, <1>7, <1>8, <2>1
<1>10. Contents(q) = kept
  BY <1>8, <1>9, SeqEqual
<1> QED BY <1>5, <1>10 DEF q

LEMMA PruneRingIs ==
  ASSUME NEW S, NEW r \in Rings(S), NEW now, NEW ticks
  PROVE  /\ PruneRing(r, now, ticks) \in Rings(S)
         /\ Contents(PruneRing(r, now, ticks)) =
              PruneOldOperations(Contents(r), now, ticks)
<1> DEFINE ops == Contents(r)
           kept == PruneOldOperations(ops, now, ticks)
<1>1. ops \in Seq(S) /\ Len(ops) = r.count /\ r.count \in 0 .. MaxOps
  BY ContentsIs DEF Rings
<1> HIDE DEF ops
<1>2. /\ Survivors(ops, now, ticks) \in SUBSET (1 .. Len(ops))
      /\ Cardinality(Survivors(ops, now, ticks)) \in 0 .. Len(ops)
  BY <1>1, SurvivorsFinite
<1>3. /\ kept \in Seq(S) /\ Len(kept) = Cardinality(Survivors(ops, now, ticks))
  BY <1>1, <1>2, CompactType DEF PruneOldOperations
<1> HIDE DEF kept
<1>4. Len(kept) <= MaxOps /\ (r.count = 0 => Len(kept) = 0)
  BY <1>1, <1>2, <1>3, MaxOpsAssumption
<1>5. CASE r.count = 0
  <2>1. kept = <<>> /\ ops = <<>>
    BY <1>1, <1>3, <1>4, <1>5, EmptySeq
  <2> QED BY <1>5, <2>1 DEF PruneRing, ops, kept
<1>6. CASE r.count # 0
  BY <1>3, <1>4, <1>6, RefilledIs DEF PruneRing, ops, kept
<1> QED BY <1>5, <1>6

(* Appending overwrites the oldest entry exactly when the ring is full.    *)
LEMMA AppendRingIs ==
  ASSUME NEW S, NEW r \in Rings(S), NEW now \in S
  PROVE  /\ AppendRing(r, now) \in Rings(S)
         /\ Contents(AppendRing(r, now)) = AppendOperation(Contents(r), now)
<1> DEFINE q == AppendRing(r, now)
           ops == Contents(r)
<1>1. /\ MaxOps \in Nat \ {0} /\ r.count \in 0 .. MaxOps /\ r.head \in Slot
      /\ r.head \in 0 .. MaxOps - 1 /\ r.slots \in [Slot -> S]
  BY MaxOpsAssumption DEF Rings, Slot
<1>2. r.head + 1 \in 0 .. 2 * MaxOps - 1
  BY <1>1
<1>3. (r.head + 1) % MaxOps = Wrap(r.head + 1) /\ Wrap(r.head + 1) \in Slot
  BY <1>2, ModIsWrap
<1>4. q \in Rings(S)
  <2>1. [r.slots EXCEPT ![r.head] = now] \in [Slot -> S]
    BY <1>1
  <2>2. (IF r.count < MaxOps THEN r.count + 1 ELSE r.count) \in 0 .. MaxOps
    BY <1>1
  <2> QED BY <1>3, <2>1, <2>2 DEF AppendRing, Rings
<1>5. /\ q.head = Wrap(r.head + 1)
      /\ q.count = IF r.count < MaxOps THEN r.count + 1 ELSE r.count
      /\ q.slots = [r.slots EXCEPT ![r.head] = now]
  BY <1>3 DEF AppendRing
<1>6. /\ ops \in Seq(S) /\ Len(ops) = r.count
      /\ \A k \in 1 .. r.count : At(r, k) \in Slot /\ ops[k] = r.slots[At(r, k)]
  BY ContentsIs
<1> HIDE DEF q, ops
<1>7. /\ Contents(q) \in Seq(S) /\ Len(Contents(q)) = q.count
      /\ \A k \in 1 .. q.count : At(q, k) \in Slot /\ Contents(q)[k] = q.slots[At(q, k)]
  BY <1>4, ContentsIs
<1>8. \A i \in Slot : q.slots[i] = IF i = r.head THEN now ELSE r.slots[i]
  BY <1>1, <1>5
<1>9. CASE r.count < MaxOps
  <2>1. \A k \in 1 .. r.count : At(q, k) = At(r, k) /\ At(r, k) # r.head
    BY <1>1, <1>5, <1>9 DEF At, Wrap
  <2>2. At(q, r.count + 1) = r.head
    BY <1>1, <1>5, <1>9 DEF At, Wrap
  <2>3. AppendOperation(ops, now) = Append(ops, now)
    BY <1>6, <1>9 DEF AppendOperation
  <2>4. /\ Append(ops, now) \in Seq(S) /\ Len(Append(ops, now)) = r.count + 1
        /\ \A k \in 1 .. r.count : Append(ops, now)[k] = ops[k]
        /\ Append(ops, now)[r.count + 1] = now
    BY <1>6, AppendProperties
  <2>5. \A k \in 1 .. r.count + 1 : Contents(q)[k] = Append(ops, now)[k]
    <3> TAKE k \in 1 .. r.count + 1
    <3>1. CASE k \in 1 .. r.count
      <4>1. Contents(q)[k] = q.slots[At(r, k)] /\ At(r, k) \in Slot
        BY <1>1, <1>5, <1>6, <1>7, <1>9, <2>1, <3>1
      <4> QED BY <1>6, <1>8, <2>1, <2>4, <3>1, <4>1
    <3>2. CASE k = r.count + 1
      <4>1. Contents(q)[k] = q.slots[r.head]
        BY <1>1, <1>5, <1>7, <1>9, <2>2, <3>2
      <4> QED BY <1>1, <1>8, <2>4, <3>2, <4>1
    <3>3. r.count \in Nat
      BY <1>1
    <3>4. k \in 1 .. r.count \/ k = r.count + 1
      BY <3>3
    <3> QED BY <3>1, <3>2, <3>4
  <2>6. Contents(q) = Append(ops, now)
    BY <1>5, <1>7, <1>9, <2>4, <2>5, SeqEqual
  <2> QED BY <1>4, <2>3, <2>6 DEF q, ops
<1>10. CASE r.count = MaxOps
  <2>1. \A k \in 1 .. MaxOps - 1 : At(q, k) = At(r, k + 1) /\ At(q, k) # r.head
    BY <1>1, <1>5, <1>10 DEF At, Wrap
  <2>2. At(q, MaxOps) = r.head
    BY <1>1, <1>5, <1>10 DEF At, Wrap
  <2>3. AppendOperation(ops, now) = Append(Tail(ops), now)
    BY <1>1, <1>6, <1>10 DEF AppendOperation
  <2>4. ops # <<>>
    BY <1>1, <1>6, <1>10
  <2>5. /\ Tail(ops) \in Seq(S) /\ Len(Tail(ops)) = MaxOps - 1
        /\ \A k \in 1 .. MaxOps - 1 : Tail(ops)[k] = ops[k + 1]
    BY <1>6, <1>10, <2>4, HeadTailProperties
  <2> DEFINE t == Append(Tail(ops), now)
  <2>6. /\ t \in Seq(S) /\ Len(t) = MaxOps
        /\ \A k \in 1 .. MaxOps - 1 : t[k] = ops[k + 1]
        /\ t[MaxOps] = now
    <3>1. /\ t \in Seq(S) /\ Len(t) = Len(Tail(ops)) + 1
          /\ \A k \in 1 .. Len(Tail(ops)) : t[k] = Tail(ops)[k]
          /\ t[Len(Tail(ops)) + 1] = now
      BY <2>5, AppendProperties
    <3> HIDE DEF t
    <3> QED BY <1>1, <2>5, <3>1
  <2> HIDE DEF t
  <2>7. \A k \in 1 .. MaxOps : Contents(q)[k] = t[k]
    <3> TAKE k \in 1 .. MaxOps
    <3>1. CASE k \in 1 .. MaxOps - 1
      <4>0. k \in 1 .. q.count /\ k + 1 \in 1 .. MaxOps
        BY <1>1, <1>5, <1>10, <3>1
      <4>1. /\ Contents(q)[k] = q.slots[At(q, k)] /\ At(q, k) \in Slot
            /\ k + 1 \in 1 .. MaxOps
        BY <1>7, <4>0
      <4>2. Contents(q)[k] = r.slots[At(r, k + 1)]
        BY <1>8, <2>1, <3>1, <4>1
      <4> QED BY <1>6, <1>10, <2>6, <3>1, <4>1, <4>2
    <3>2. CASE k = MaxOps
      <4>1. Contents(q)[k] = q.slots[r.head]
        BY <1>1, <1>5, <1>7, <1>10, <2>2, <3>2
      <4> QED BY <1>1, <1>8, <2>6, <3>2, <4>1
    <3> QED BY <1>1, <3>1, <3>2
  <2>8. Contents(q) = t
    BY <1>5, <1>7, <1>10, <2>6, <2>7, SeqEqual
  <2> QED BY <1>4, <2>3, <2>8 DEF q, ops, t
<1> QED BY <1>1, <1>9, <1>10

-----------------------------------------------------------------------------
Times == 0 .. clock

IInv ==
  /\ clock \in Nat
  /\ ring \in Rings(Times)
  /\ isBlocked \in BOOLEAN /\ monitoringEnabled \in BOOLEAN
  /\ fileCountThreshold \in Nat \ {0} /\ timeWindowTicks \in Nat \ {0}
  /\ log \in Seq(Times)

LEMMA EmptyRingIs ==
  ASSUME NEW S, 0 \in S
  PROVE  EmptyRing \in Rings(S) /\ Contents(EmptyRing) = <<>>
<1>1. EmptyRing \in Rings(S)
  BY MaxOpsAssumption DEF EmptyRing, Rings, Slot
<1>2. Contents(EmptyRing) \in Seq(S) /\ Len(Contents(EmptyRing)) = EmptyRing.count
  BY <1>1, ContentsIs
<1>3. EmptyRing.count = 0
  BY DEF EmptyRing
<1> QED BY <1>1, <1>2, <1>3, EmptySeq

(* The whole locked window: prune, append, count.                          *)
LEMMA RecordIs ==
  ASSUME IInv, NEW now \in Times, RecordAndEvaluate(now)
  PROVE  /\ ring' \in Rings(Times)
         /\ Contents(ring') = Recorded(Contents(ring), now, timeWindowTicks)
         /\ RecentInRing(ring', now, timeWindowTicks)
              = RecentCount(Contents(ring'), now, timeWindowTicks)
<1> DEFINE pruned == PruneRing(ring, now, timeWindowTicks)
<1>1. ring' = AppendRing(pruned, now)
  BY DEF RecordAndEvaluate
<1>2. /\ pruned \in Rings(Times)
      /\ Contents(pruned) = PruneOldOperations(Contents(ring), now, timeWindowTicks)
  BY PruneRingIs DEF IInv
<1> HIDE DEF pruned
<1>3. ring' \in Rings(Times) /\ Contents(ring') = AppendOperation(Contents(pruned), now)
  BY <1>1, <1>2, AppendRingIs
<1>4. Len(Contents(ring')) = ring'.count
  BY <1>3, ContentsIs
<1> QED BY <1>2, <1>3, <1>4 DEF Recorded, RecentInRing, RecentCount, Survivors

LEMMA InvStep ==
  ASSUME IInv, [Next]_vars
  PROVE  IInv'
<1>1. CASE UNCHANGED vars
  BY <1>1 DEF vars, config, IInv, Times
<1>2. ASSUME NEW now \in Times, RecordAndEvaluate(now) PROVE IInv'
  <2>1. ring' \in Rings(Times)
    BY <1>2, RecordIs
  <2>2. log' \in Seq(Times)
    BY <1>2, AppendProperties DEF RecordAndEvaluate, IInv
  <2>3. isBlocked' \in BOOLEAN
    BY <1>2 DEF RecordAndEvaluate
  <2> QED BY <1>2, <2>1, <2>2, <2>3 DEF RecordAndEvaluate, IInv, Times, config
<1>3. ASSUME NEW threshold \in Thresholds, NEW window \in Windows,
             NEW enabled \in BOOLEAN, ApplyConfig(threshold, window, enabled)
      PROVE  IInv'
  <2>1. /\ threshold \in Nat /\ window \in Nat
        /\ UNCHANGED <<ring, isBlocked, clock, log>>
        /\ fileCountThreshold' = IF threshold > 0 THEN threshold ELSE fileCountThreshold
        /\ timeWindowTicks' = IF window > 0 THEN window ELSE timeWindowTicks
        /\ monitoringEnabled' = enabled
    BY <1>3, BoundsAssumption DEF ApplyConfig
  <2> QED BY <2>1 DEF IInv, Times
<1>4. CASE UnblockProcess
  <2>1. EmptyRing \in Rings(Times) /\ <<>> \in Seq(Times)
    BY EmptyRingIs DEF IInv, Times
  <2> QED BY <1>4, <2>1 DEF UnblockProcess, IInv, Times, config
<1>5. CASE Tick
  <2>1. clock' \in Nat /\ Times \subseteq Times'
    BY <1>5 DEF Tick, IInv, Times
  <2>2. ring' \in Rings(Times') /\ log' \in Seq(Times')
    BY <1>5, <2>1 DEF Tick, IInv, Rings
  <2> QED BY <1>5, <2>1, <2>2 DEF Tick, IInv, config
<1> QED BY <1>1, <1>2, <1>3, <1>4, <1>5 DEF Next, RecordOperation, Times

LEMMA InvInit ==
  ASSUME Init
  PROVE  IInv /\ Contents(ring) = <<>>
<1>1. 0 \in Times /\ clock \in Nat
  BY DEF Init, Times
<1>2. ring \in Rings(Times) /\ Contents(ring) = <<>>
  BY <1>1, EmptyRingIs DEF Init
<1>3. <<>> \in Seq(Times)
  OBVIOUS
<1> QED BY <1>1, <1>2, <1>3, BoundsAssumption DEF Init, IInv

LEMMA IInvHolds == Spec => []IInv
<1>1. Init => IInv
  BY InvInit
<1>2. IInv /\ [Next]_vars => IInv'
  BY InvStep
<1> QED BY <1>1, <1>2, PTL DEF Spec

(* Indices stay within the ring, and every timestamp it holds was once     *)
(* recorded: none is in the future.                                        *)
THEOREM TypeCorrect == Spec => []TypeOK
<1>1. IInv => TypeOK
  BY DEF IInv, Rings, Times, TypeOK
<1> QED BY <1>1, IInvHolds, PTL

(* The operators of the list are the same ones there.                      *)
LEMMA SameCardinality ==
  ASSUME NEW S
  PROVE  Window!Cardinality(S) = Cardinality(S)
BY DEF Window!Cardinality, Cardinality

LEMMA SameOperators ==
  ASSUME NEW ops, NEW now, NEW ticks
  PROVE  /\ Window!Recorded(ops, now, ticks) = Recorded(ops, now, ticks)
         /\ Window!RecentCount(ops, now, ticks) = RecentCount(ops, now, ticks)
<1>1. \A l : Window!Survivors(l, now, ticks) = Survivors(l, now, ticks)
  BY DEF Window!Survivors, Survivors
<1>2. \A keep, k : Window!Rank(keep, k) = Rank(keep, k)
  BY SameCardinality DEF Window!Rank, Rank
<1>3. \A l, keep : Window!Compact(l, keep) = Compact(l, keep)
  <2> TAKE l, keep
  <2> DEFINE a(j) == CHOOSE k \in keep : Window!Rank(keep, k) = j
             b(j) == CHOOSE k \in keep : Rank(keep, k) = j
  <2>1. \A j : a(j) = b(j)
    BY <1>2
  <2>2. Window!Compact(l, keep) = [j \in 1 .. Cardinality(keep) |-> l[a(j)]]
    BY SameCardinality DEF Window!Compact
  <2>3. Compact(l, keep) = [j \in 1 .. Cardinality(keep) |-> l[b(j)]]
    BY DEF Compact
  <2> HIDE DEF a, b
  <2> QED BY <2>1, <2>2, <2>3
<1>4. \A l : Window!AppendOperation(l, now) = AppendOperation(l, now)
  BY DEF Window!AppendOperation, AppendOperation
<1>5. Window!PruneOldOperations(ops, now, ticks) = PruneOldOperations(ops, now, ticks)
  BY <1>1, <1>3 DEF Window!PruneOldOperations, PruneOldOperations
<1> QED BY <1>1, <1>4, <1>5, SameCardinality
        DEF Window!Recorded, Recorded, Window!RecentCount, RecentCount

LEMMA WindowStep ==
  ASSUME IInv, [Next]_vars
  PROVE  [Window!Next]_(Window!vars)
<1>1. CASE UNCHANGED vars
  BY <1>1 DEF vars, config, Window!vars, Window!config
<1>2. ASSUME NEW now \in 0 .. clock, RecordAndEvaluate(now)
      PROVE  Window!RecordOperation
  <2>1. /\ Contents(ring') = Recorded(Contents(ring), now, timeWindowTicks)
        /\ RecentInRing(ring', now, timeWindowTicks)
             = RecentCount(Contents(ring'), now, timeWindowTicks)
    BY <1>2, RecordIs DEF Times
  <2>2. /\ Contents(ring)' = Window!Recorded(Contents(ring), now, timeWindowTicks)
        /\ RecentInRing(ring', now, timeWindowTicks)
             = Window!RecentCount(Contents(ring)', now, timeWindowTicks)
    BY <2>1, SameOperators
  <2>3. /\ ~isBlocked /\ UNCHANGED <<config, clock>>
        /\ isBlocked' = (/\ monitoringEnabled
                         /\ RecentInRing(ring', now, timeWindowTicks)
                              >= fileCountThreshold)
    BY <1>2 DEF RecordAndEvaluate
  <2> QED BY <2>2, <2>3 DEF Window!RecordOperation, Window!config, config
<1>3. ASSUME NEW threshold \in Thresholds, NEW window \in Windows,
             NEW enabled \in BOOLEAN, ApplyConfig(threshold, window, enabled)
      PROVE  Window!ApplyConfig
  <2>1. threshold \in Nat /\ window \in Nat
    BY BoundsAssumption
  <2> QED BY <1>3, <2>1 DEF ApplyConfig, Window!ApplyConfig
<1>4. CASE UnblockProcess
  <2>1. Contents(ring') = <<>>
    BY <1>4, EmptyRingIs DEF UnblockProcess, IInv, Times
  <2> QED BY <1>4, <2>1 DEF UnblockProcess, Window!UnblockProcess, Window!Next,
             Window!config, config
<1>5. CASE Tick
  BY <1>5 DEF Tick, Window!Tick, Window!Next, Window!config, config
<1> QED BY <1>1, <1>2, <1>3, <1>4, <1>5 DEF Next, RecordOperation, Window!Next

(* Pruning, wrapping, overwriting and counting implement the list: the     *)
(* ring blocks exactly when the list would, for every capacity.            *)
THEOREM RingRefinesWindow == Spec => RingImplementsWindow
<1>1. Init => Window!Init
  BY InvInit DEF Init, Window!Init
<1>2. IInv /\ [Next]_vars => [Window!Next]_(Window!vars)
  BY WindowStep
<1> QED BY <1>1, <1>2, IInvHolds, PTL DEF Spec, RingImplementsWindow, Window!Spec
-----------------------------------------------------------------------------
(* What the ring knows of the whole history, as long as nothing disturbed  *)
(* it.                                                                     *)
HistoryInv ==
  /\ past \in [enlarged : BOOLEAN, reordered : BOOLEAN, overwrote : BOOLEAN]
  /\ log = <<>> => Contents(ring) = <<>>
  /\ Latest(log)
  /\ ~past.reordered => Sorted(log)
  /\ ~past.reordered /\ ~past.enlarged =>
       EndsWith(log, Contents(ring), timeWindowTicks)
  /\ ~past.enlarged /\ ~past.overwrote =>
       Covers(log, Contents(ring), timeWindowTicks)

LEMMA EmptyHistory ==
  ASSUME NEW ticks
  PROVE  /\ Latest(<<>>) /\ Sorted(<<>>)
         /\ EndsWith(<<>>, <<>>, ticks) /\ Covers(<<>>, <<>>, ticks)
<1>1. Len(<<>>) = 0 /\ 1 .. 0 = {} /\ 0 - 0 = 0
  OBVIOUS
<1>2. EndsWith(<<>>, <<>>, ticks)
  BY <1>1 DEF EndsWith
<1>3. [i \in {} |-> i] \in [{} -> {}]
  OBVIOUS
<1>4. Covers(<<>>, <<>>, ticks)
  BY <1>1, <1>3 DEF Covers
<1> QED BY <1>1, <1>2, <1>4 DEF Latest, Sorted

LEMMA SortedAppend ==
  ASSUME NEW l \in Seq(Nat), NEW now \in Nat, Sorted(l),
         \A k \in 1 .. Len(l) : ~(l[k] > now)
  PROVE  Sorted(Append(l, now))
<1> DEFINE n   == Len(l)
           new == Append(l, now)
<1>1. /\ n \in Nat /\ Len(new) = n + 1 /\ new[n + 1] = now
      /\ \A k \in 1 .. n : new[k] = l[k] /\ l[k] \in Nat
  OBVIOUS
<1> HIDE DEF new
<1>2. /\ \A k \in 1 .. n + 1 : k \in 1 .. n \/ k = n + 1
      /\ \A k \in 1 .. n : ~(n + 1 <= k)
  BY <1>1
<1>3. \A i, k \in 1 .. n : i <= k => l[i] <= l[k]
  BY DEF Sorted
<1>4. \A k \in 1 .. n : new[k] <= now
  BY <1>1
<1>5. \A i, k \in 1 .. n + 1 : i <= k => new[i] <= new[k]
  BY <1>1, <1>2, <1>3, <1>4
<1> QED BY <1>1, <1>5 DEF Sorted, new

(* In order: the log tells exactly whether the window that ends now holds  *)
(* a number of operations that fits the ring.                              *)
LEMMA ExactCount ==
  ASSUME NEW l \in Seq(Nat), NEW ops \in Seq(Nat), NEW ticks \in Nat,
         NEW now \in Nat, NEW threshold \in Nat,
         l # <<>>, l[Len(l)] = now, Sorted(l), EndsWith(l, ops, ticks),
         \A k \in 1 .. Len(ops) : now - ops[k] <= ticks,
         threshold <= MaxOps
  PROVE  Cardinality(Within(l, now, ticks)) >= threshold
           <=> Len(ops) >= threshold
<1> DEFINE n     == Len(l)
           size  == Len(ops)
           last  == n - size + 1 .. n
           inside == Within(l, now, ticks)
<1>0. /\ \A k \in 1 .. size : ops[k] = l[n - size + k]
      /\ size # MaxOps =>
           \A i \in 1 .. n - size : \E m \in 1 .. n : l[m] - l[i] > ticks
  BY DEF EndsWith, Expired
<1>1. /\ n \in Nat \ {0} /\ size \in 0 .. n /\ n - size \in Nat
      /\ \A k \in 1 .. n : l[k] \in Nat
  BY DEF EndsWith
<1>2. \A k \in 1 .. n : l[k] <= now
  <2>1. n \in 1 .. n /\ \A k \in 1 .. n : k <= n
    BY <1>1
  <2> QED BY <2>1 DEF Sorted
<1>3. \A k \in 1 .. n : k \in inside <=> now - l[k] <= ticks
  <2>1. \A k \in 1 .. n : l[k] \in now - ticks .. now <=> now - l[k] <= ticks
    BY <1>1, <1>2
  <2> QED BY <2>1 DEF Within
<1>4. inside \in SUBSET (1 .. n)
  BY DEF Within
<1> HIDE DEF inside, n, size
<1>5. last \in SUBSET inside
  <2> SUFFICES ASSUME NEW i \in last
               PROVE  i \in inside
    OBVIOUS
  <2> DEFINE k == i - (n - size)
  <2>1. k \in 1 .. size /\ n - size + k = i /\ i \in 1 .. n
    BY <1>1
  <2> HIDE DEF k
  <2>2. ops[k] = l[i]
    <3>1. ops[k] = l[n - size + k]
      BY <1>0, <2>1
    <3> QED BY <2>1, <3>1
  <2> QED BY <1>3, <2>1, <2>2 DEF size
<1>6. Cardinality(last) = size /\ IsFiniteSet(last)
  <2> DEFINE first == n - size + 1
  <2>1. first <= n + 1 /\ first \in Int /\ n \in Int /\ n - first + 1 = size
    BY <1>1
  <2> HIDE DEF first
  <2>2. IsFiniteSet(first .. n) /\ Cardinality(first .. n) = size
    BY <2>1, IntervalCard
  <2> QED BY <2>2 DEF first
<1>7. IsFiniteSet(inside) /\ Cardinality(inside) \in Nat
  <2>1. n \in Nat
    BY <1>1
  <2>2. IsFiniteSet(inside)
    BY <1>4, <2>1, PositionsFinite
  <2> QED BY <2>2, FS_CardinalityType
<1>8. size <= Cardinality(inside)
  <2> HIDE DEF last
  <2>1. Cardinality(last) <= Cardinality(inside)
    BY <1>5, <1>7, FS_Subset
  <2> QED BY <1>6, <2>1
<1>9. CASE size = MaxOps
  <2>1. Cardinality(inside) >= threshold /\ size >= threshold
    BY <1>1, <1>7, <1>8, <1>9
  <2> QED BY <2>1 DEF inside, size
<1>10. CASE size # MaxOps
  <2>1. \A i \in 1 .. n - size : i \notin inside
    <3> SUFFICES ASSUME NEW i \in 1 .. n - size
                 PROVE  i \notin inside
      OBVIOUS
    <3>1. PICK m \in 1 .. n : l[m] - l[i] > ticks
      BY <1>0, <1>10
    <3>2. i \in 1 .. n
      BY <1>1
    <3>3. l[m] \in Nat /\ l[i] \in Nat /\ l[m] <= now
      BY <1>1, <1>2, <3>2
    <3>4. ~(now - l[i] <= ticks)
      BY <3>1, <3>3
    <3> QED BY <1>3, <3>2, <3>4
  <2>2. \A i \in 1 .. n : i \in 1 .. n - size \/ i \in last
    BY <1>1
  <2>3. inside = last
    BY <1>4, <1>5, <2>1, <2>2
  <2> QED BY <1>6, <2>3 DEF inside, size
<1> QED BY <1>9, <1>10

(* In any order: the log holds at least as many entries as the window that *)
(* ends with the latest timestamp holds operations.                        *)
LEMMA CoveredCount ==
  ASSUME NEW l \in Seq(Nat), NEW ops \in Seq(Nat), NEW ticks \in Nat,
         NEW end \in Nat, \A k \in 1 .. Len(l) : l[k] <= end,
         Covers(l, ops, ticks)
  PROVE  Cardinality(Within(l, end, ticks)) <= Len(ops)
<1> DEFINE inside == Within(l, end, ticks)
<1>1. PICK f \in [1 .. Len(ops) -> 1 .. Len(l)] :
        \A i \in 1 .. Len(l) :
          Expired(l, i, ticks) \/ \E k \in 1 .. Len(ops) : f[k] = i
  BY DEF Covers
<1>2. \A i \in inside : i \in 1 .. Len(l) /\ ~Expired(l, i, ticks)
  <2> SUFFICES ASSUME NEW i \in inside
               PROVE  i \in 1 .. Len(l) /\ ~Expired(l, i, ticks)
    OBVIOUS
  <2>1. /\ i \in 1 .. Len(l) /\ l[i] \in Nat
        /\ l[i] \in end - ticks .. end
    BY DEF Within
  <2>2. \A m \in 1 .. Len(l) : l[m] \in Nat /\ ~(l[m] - l[i] > ticks)
    BY <2>1
  <2> QED BY <2>1, <2>2 DEF Expired
<1> HIDE DEF inside
<1> DEFINE S == {k \in 1 .. Len(ops) : f[k] \in inside}
           g == [k \in S |-> f[k]]
<1>3. Len(ops) \in Nat /\ S \in SUBSET (1 .. Len(ops))
  OBVIOUS
<1>4. IsFiniteSet(S) /\ Cardinality(S) <= Len(ops)
  BY <1>3, PositionsFinite
<1>5. g \in Surjection(S, inside)
  BY <1>1, <1>2 DEF Surjection
<1>6. IsFiniteSet(inside) /\ Cardinality(inside) <= Cardinality(S)
  BY <1>4, <1>5, FS_Surjection
<1>7. Cardinality(inside) \in Nat /\ Cardinality(S) \in Nat
  BY <1>4, <1>6, FS_CardinalityType
<1> QED BY <1>3, <1>4, <1>6, <1>7 DEF inside

(* A log of timestamps is a log of naturals.                               *)
LEMMA SeqOfTimes ==
  ASSUME NEW s \in Seq(Times)
  PROVE  s \in Seq(Nat)
<1>1. Times \subseteq Nat
  BY DEF Times
<1> HIDE DEF Times
<1>2. /\ Len(s) \in Nat /\ s \in [1 .. Len(s) -> Times]
  OBVIOUS
<1>3. s \in [1 .. Len(s) -> Nat]
  BY <1>1, <1>2
<1> QED BY <1>2, <1>3

LEMMA LogTypes ==
  ASSUME IInv, NEW now \in Times
  PROVE  /\ log \in Seq(Nat) /\ Contents(ring) \in Seq(Nat)
         /\ Len(Contents(ring)) <= MaxOps
         /\ now \in Nat /\ timeWindowTicks \in Nat
<1>1. Contents(ring) \in Seq(Times) /\ Len(Contents(ring)) = ring.count
  BY ContentsIs DEF IInv
<1>2. ring.count <= MaxOps /\ Times \subseteq Nat
  BY MaxOpsAssumption DEF IInv, Rings, Times
<1>3. now \in Nat /\ log \in Seq(Times) /\ timeWindowTicks \in Nat
  BY <1>2 DEF IInv
<1> QED BY <1>1, <1>2, <1>3, SeqOfTimes

(* One more operation, whatever its timestamp.                             *)
LEMMA RecordHistory ==
  ASSUME IInv, HistoryInv, NEW now \in Times, RecordAndEvaluate(now)
  PROVE  HistoryInv'
<1> DEFINE ops    == Contents(ring)
           pruned == PruneRing(ring, now, timeWindowTicks)
<1>1. /\ log \in Seq(Nat) /\ ops \in Seq(Nat) /\ Len(ops) <= MaxOps
      /\ now \in Nat /\ timeWindowTicks \in Nat
  BY LogTypes
<1>2. /\ Contents(ring)' = Recorded(ops, now, timeWindowTicks)
      /\ log' = Append(log, now) /\ timeWindowTicks' = timeWindowTicks
  BY RecordIs DEF RecordAndEvaluate, config
<1>3. pruned.count = Cardinality(Survivors(ops, now, timeWindowTicks))
  <2>1. /\ pruned \in Rings(Times)
        /\ Contents(pruned) = PruneOldOperations(ops, now, timeWindowTicks)
    BY PruneRingIs DEF IInv
  <2>2. Len(Contents(pruned)) = pruned.count
    BY <2>1, ContentsIs
  <2>3. Len(PruneOldOperations(ops, now, timeWindowTicks))
          = Cardinality(Survivors(ops, now, timeWindowTicks))
    BY <1>1, SurvivorsFinite, CompactType DEF PruneOldOperations
  <2> HIDE DEF pruned
  <2> QED BY <2>1, <2>2, <2>3
<1>4. /\ past' \in [enlarged : BOOLEAN, reordered : BOOLEAN, overwrote : BOOLEAN]
      /\ past'.enlarged = past.enlarged
      /\ ~past'.reordered => /\ ~past.reordered
                             /\ \A k \in 1 .. Len(log) : ~(log[k] > now)
      /\ ~past'.overwrote => ~past.overwrote /\ pruned.count # MaxOps
  <2> HIDE DEF pruned
  <2> DEFINE late == \E k \in 1 .. Len(log) : log[k] > now
             full == pruned.count = MaxOps
  <2>1. past' = [past EXCEPT !.reordered = @ \/ late, !.overwrote = @ \/ full]
    BY DEF RecordAndEvaluate, pruned
  <2>2. late \in BOOLEAN /\ full \in BOOLEAN
    OBVIOUS
  <2>3. past \in [enlarged : BOOLEAN, reordered : BOOLEAN, overwrote : BOOLEAN]
    BY DEF HistoryInv
  <2>4. late <=> ~(\A k \in 1 .. Len(log) : ~(log[k] > now))
    OBVIOUS
  <2> HIDE DEF late, full
  <2>5. /\ past' \in [enlarged : BOOLEAN, reordered : BOOLEAN, overwrote : BOOLEAN]
        /\ past'.enlarged = past.enlarged
        /\ past'.reordered = (past.reordered \/ late)
        /\ past'.overwrote = (past.overwrote \/ full)
    BY <2>1, <2>2, <2>3
  <2> QED BY <2>4, <2>5 DEF full
<1> HIDE DEF ops, pruned
<1>5. log' # <<>>
  <2>1. Len(Append(log, now)) = Len(log) + 1 /\ Len(log) + 1 # 0
    BY <1>1
  <2>2. Len(<<>>) = 0
    OBVIOUS
  <2> QED BY <1>2, <2>1, <2>2
<1>6. Latest(log')
  BY <1>1, <1>2, LatestAppend DEF HistoryInv
<1>7. ~past'.reordered => Sorted(log')
  BY <1>1, <1>2, <1>4, SortedAppend DEF HistoryInv
<1>8. ~past'.reordered /\ ~past'.enlarged =>
        EndsWith(log', Contents(ring)', timeWindowTicks')
  BY <1>1, <1>2, <1>4, <1>7, EndsWithRecorded DEF HistoryInv, ops
<1>9. ~past'.enlarged /\ ~past'.overwrote =>
        Covers(log', Contents(ring)', timeWindowTicks')
  BY <1>1, <1>2, <1>3, <1>4, CoversRecorded DEF HistoryInv, ops
<1> QED BY <1>4, <1>5, <1>6, <1>7, <1>8, <1>9 DEF HistoryInv

LEMMA HistoryStep ==
  ASSUME IInv, HistoryInv, [Next]_vars
  PROVE  HistoryInv'
<1>1. CASE UNCHANGED vars
  BY <1>1 DEF vars, config, HistoryInv
<1>2. ASSUME NEW now \in 0 .. clock, RecordAndEvaluate(now)
      PROVE  HistoryInv'
  BY <1>2, RecordHistory DEF Times
<1>3. ASSUME NEW threshold \in Thresholds, NEW window \in Windows,
             NEW enabled \in BOOLEAN, ApplyConfig(threshold, window, enabled)
      PROVE  HistoryInv'
  <2>1. /\ UNCHANGED <<ring, log>> /\ Contents(ring)' = Contents(ring)
        /\ log \in Seq(Nat) /\ timeWindowTicks \in Nat /\ timeWindowTicks' \in Nat
    BY <1>3, BoundsAssumption DEF ApplyConfig, IInv, Times
  <2> DEFINE grew == log # <<>> /\ timeWindowTicks' > timeWindowTicks
  <2>2. /\ past' \in [enlarged : BOOLEAN, reordered : BOOLEAN, overwrote : BOOLEAN]
        /\ past'.enlarged = (past.enlarged \/ grew)
        /\ past'.reordered = past.reordered /\ past'.overwrote = past.overwrote
    <3>1. past' = [past EXCEPT !.enlarged = @ \/ grew]
      BY <1>3 DEF ApplyConfig
    <3>2. grew \in BOOLEAN
      OBVIOUS
    <3> HIDE DEF grew
    <3> QED BY <3>1, <3>2 DEF HistoryInv
  <2>3. CASE log = <<>>
    <3>1. Contents(ring)' = <<>> /\ log' = <<>>
      BY <2>1, <2>3 DEF HistoryInv
    <3> QED BY <2>2, <3>1, EmptyHistory DEF HistoryInv
  <2>4. CASE log # <<>> /\ timeWindowTicks' <= timeWindowTicks
    <3>1. ~grew
      BY <2>1, <2>4
    <3> HIDE DEF grew
    <3> QED BY <2>1, <2>2, <2>4, <3>1, SmallerWindow DEF HistoryInv
  <2>5. CASE log # <<>> /\ timeWindowTicks' > timeWindowTicks
    BY <2>1, <2>2, <2>5 DEF HistoryInv
  <2> QED BY <2>1, <2>3, <2>4, <2>5
<1>4. CASE UnblockProcess
  <2>1. /\ Contents(ring)' = <<>> /\ log' = <<>>
        /\ past' \in [enlarged : BOOLEAN, reordered : BOOLEAN, overwrote : BOOLEAN]
    BY <1>4, EmptyRingIs DEF UnblockProcess, IInv, Times, Undisturbed
  <2> QED BY <2>1, EmptyHistory DEF HistoryInv
<1>5. CASE Tick
  BY <1>5 DEF Tick, config, HistoryInv
<1> QED BY <1>1, <1>2, <1>3, <1>4, <1>5 DEF Next, RecordOperation

LEMMA HistoryInit == Init => HistoryInv
<1> SUFFICES ASSUME Init PROVE HistoryInv
  OBVIOUS
<1>1. log = <<>> /\ Contents(ring) = <<>>
  BY InvInit DEF Init
<1>2. past \in [enlarged : BOOLEAN, reordered : BOOLEAN, overwrote : BOOLEAN]
  BY DEF Init, Undisturbed
<1> QED BY <1>1, <1>2, EmptyHistory DEF HistoryInv

LEMMA HistoryHolds == Spec => [](IInv /\ HistoryInv)
<1>1. Init => IInv /\ HistoryInv
  BY InvInit, HistoryInit
<1>2. IInv /\ HistoryInv /\ [Next]_vars => IInv' /\ HistoryInv'
  BY InvStep, HistoryStep
<1> QED BY <1>1, <1>2, PTL DEF Spec

(* What an operation leaves: a log that lies within its window, and a      *)
(* verdict on the length of that log.                                      *)
LEMMA VerdictIs ==
  ASSUME IInv, NEW now \in Times, RecordAndEvaluate(now)
  PROVE  /\ log' \in Seq(Nat) /\ log' # <<>> /\ log'[Len(log')] = now
         /\ Contents(ring)' \in Seq(Nat)
         /\ \A k \in 1 .. Len(Contents(ring)') :
              now - Contents(ring)'[k] <= timeWindowTicks
         /\ isBlocked' <=> /\ monitoringEnabled
                           /\ Len(Contents(ring)') >= fileCountThreshold
<1> DEFINE ops == Contents(ring)
           new == Recorded(ops, now, timeWindowTicks)
<1>1. /\ log \in Seq(Nat) /\ ops \in Seq(Nat) /\ Len(ops) <= MaxOps
      /\ now \in Nat /\ timeWindowTicks \in Nat
  BY LogTypes
<1>2. /\ Contents(ring)' = new /\ log' = Append(log, now)
      /\ isBlocked' <=> /\ monitoringEnabled
                        /\ RecentCount(new, now, timeWindowTicks)
                             >= fileCountThreshold
  BY RecordIs DEF RecordAndEvaluate
<1> HIDE DEF ops
<1>3. /\ new \in Seq(Nat)
      /\ \A k \in 1 .. Len(new) : now - new[k] <= timeWindowTicks
      /\ RecentCount(new, now, timeWindowTicks) = Len(new)
  BY <1>1, RecordedType, AllRecent
<1>4. /\ Append(log, now) \in Seq(Nat) /\ Append(log, now) # <<>>
      /\ Append(log, now)[Len(Append(log, now))] = now
  <2>1. /\ Append(log, now) \in Seq(Nat)
        /\ Len(Append(log, now)) = Len(log) + 1 /\ Len(log) + 1 # 0
        /\ Append(log, now)[Len(log) + 1] = now
    BY <1>1
  <2>2. Len(<<>>) = 0
    OBVIOUS
  <2> QED BY <2>1, <2>2
<1> HIDE DEF new
<1> QED BY <1>2, <1>3, <1>4

(* The step that evaluates is the one that records.                        *)
LEMMA EvaluatesIs ==
  ASSUME [Next]_vars, Evaluates
  PROVE  /\ \E now \in Times : RecordAndEvaluate(now)
         /\ UNCHANGED <<config, clock>>
BY DEF Evaluates, Next, RecordOperation, RecordAndEvaluate, ApplyConfig,
       UnblockProcess, Tick, vars, Times

(* With timestamps in order and a window that never grew, the bounded log  *)
(* blocks exactly the operation that is the threshold-th within the window *)
(* over everything the process ever did.                                   *)
THEOREM DetectionExact == Spec => DetectionIsExact
<1> DEFINE Exact ==
             /\ Evaluates
             /\ ~past'.reordered /\ ~past'.enlarged
             /\ fileCountThreshold <= MaxOps
             => (isBlocked' <=>
                   /\ monitoringEnabled
                   /\ Cardinality(Within(log', log'[Len(log')], timeWindowTicks))
                        >= fileCountThreshold)
<1>1. ASSUME IInv, HistoryInv, IInv', HistoryInv', [Next]_vars, Evaluates,
             ~past'.reordered, ~past'.enlarged, fileCountThreshold <= MaxOps
      PROVE  isBlocked' <=>
               /\ monitoringEnabled
               /\ Cardinality(Within(log', log'[Len(log')], timeWindowTicks))
                    >= fileCountThreshold
  <2>1. PICK now \in Times : RecordAndEvaluate(now)
    BY <1>1, EvaluatesIs
  <2>2. /\ log' \in Seq(Nat) /\ log' # <<>> /\ log'[Len(log')] = now
        /\ Contents(ring)' \in Seq(Nat)
        /\ \A k \in 1 .. Len(Contents(ring)') :
             now - Contents(ring)'[k] <= timeWindowTicks
        /\ isBlocked' <=> /\ monitoringEnabled
                          /\ Len(Contents(ring)') >= fileCountThreshold
    BY <1>1, <2>1, VerdictIs
  <2>3. timeWindowTicks' = timeWindowTicks /\ now \in Nat
        /\ timeWindowTicks \in Nat /\ fileCountThreshold \in Nat
    BY <1>1, EvaluatesIs DEF config, IInv, Times
  <2>4. Sorted(log') /\ EndsWith(log', Contents(ring)', timeWindowTicks)
    BY <1>1, <2>3 DEF HistoryInv
  <2>5. Cardinality(Within(log', now, timeWindowTicks)) >= fileCountThreshold
          <=> Len(Contents(ring)') >= fileCountThreshold
    BY <1>1, <2>2, <2>3, <2>4, ExactCount
  <2> QED BY <2>2, <2>5
<1>2. IInv /\ HistoryInv /\ IInv' /\ HistoryInv' /\ [Next]_vars => [Exact]_vars
  BY <1>1
<1> QED BY <1>2, HistoryHolds, PTL DEF Spec, DetectionIsExact

(* However late a caller is, an operation that leaves the process          *)
(* unblocked leaves fewer than threshold operations in the window that     *)
(* ends with the latest timestamp.                                         *)
THEOREM NoBurstMissed == Spec => NoMissedBurst
<1> DEFINE Missed ==
             /\ Evaluates
             /\ ~past'.enlarged /\ ~past'.overwrote
             /\ fileCountThreshold <= MaxOps
             /\ monitoringEnabled /\ ~isBlocked'
             => Cardinality(Within(log', LastStamp', timeWindowTicks))
                  < fileCountThreshold
<1>1. ASSUME IInv, HistoryInv, IInv', HistoryInv', [Next]_vars, Evaluates,
             ~past'.enlarged, ~past'.overwrote, monitoringEnabled, ~isBlocked'
      PROVE  Cardinality(Within(log', LastStamp', timeWindowTicks))
               < fileCountThreshold
  <2>1. PICK now \in Times : RecordAndEvaluate(now)
    BY <1>1, EvaluatesIs
  <2>2. /\ log' \in Seq(Nat) /\ log' # <<>>
        /\ Contents(ring)' \in Seq(Nat)
        /\ ~(Len(Contents(ring)') >= fileCountThreshold)
    BY <1>1, <2>1, VerdictIs
  <2>3. timeWindowTicks' = timeWindowTicks
        /\ timeWindowTicks \in Nat /\ fileCountThreshold \in Nat
    BY <1>1, EvaluatesIs DEF config, IInv
  <2>4. Covers(log', Contents(ring)', timeWindowTicks)
    BY <1>1, <2>3 DEF HistoryInv
  <2>5. LastStamp' \in Nat /\ \A k \in 1 .. Len(log') : log'[k] <= LastStamp'
    <3> DEFINE stamps == {log'[k] : k \in 1 .. Len(log')}
               last == CHOOSE t \in stamps : \A k \in 1 .. Len(log') : log'[k] <= t
    <3>1. \E t \in stamps : \A k \in 1 .. Len(log') : log'[k] <= t
      BY <1>1, <2>2 DEF HistoryInv, Latest
    <3>2. stamps \subseteq Nat
      BY <2>2
    <3>3. LastStamp' = last
      BY DEF LastStamp
    <3> HIDE DEF stamps
    <3>4. last \in stamps /\ \A k \in 1 .. Len(log') : log'[k] <= last
      BY <3>1
    <3> HIDE DEF last
    <3> QED BY <3>2, <3>3, <3>4
  <2>6. Cardinality(Within(log', LastStamp', timeWindowTicks))
          <= Len(Contents(ring)')
    BY <2>2, <2>3, <2>4, <2>5, CoveredCount
  <2>7. Cardinality(Within(log', LastStamp', timeWindowTicks)) \in Nat
    <3>1. Len(log') \in Nat
      BY <2>2
    <3>2. Within(log', LastStamp', timeWindowTicks) \in SUBSET (1 .. Len(log'))
      BY DEF Within
    <3>3. IsFiniteSet(Within(log', LastStamp', timeWindowTicks))
      BY <3>1, <3>2, PositionsFinite
    <3> QED BY <3>3, FS_CardinalityType
  <2>8. Len(Contents(ring)') \in Nat
    BY <2>2
  <2> QED BY <2>2, <2>3, <2>6, <2>7, <2>8
<1>2. IInv /\ HistoryInv /\ IInv' /\ HistoryInv' /\ [Next]_vars => [Missed]_vars
  BY <1>1
<1> QED BY <1>2, HistoryHolds, PTL DEF Spec, NoMissedBurst
=============================================================================
