------------------------- MODULE RsOperations_proofs -------------------------
(***************************************************************************)
(* What the operators on the log of one process return, for every log,     *)
(* time, window and ring size.                                             *)
(***************************************************************************)
EXTENDS Integers, Sequences, FiniteSets, RsOperations, Functions,
        FiniteSetTheorems, TLAPS

LEMMA IntervalSize ==
  ASSUME NEW n \in Nat
  PROVE  IsFiniteSet(1 .. n) /\ Cardinality(1 .. n) = n
BY FS_Interval

LEMMA IntervalCard ==
  ASSUME NEW a \in Int, NEW b \in Int, a <= b + 1
  PROVE  IsFiniteSet(a .. b) /\ Cardinality(a .. b) = b - a + 1
BY FS_Interval

(* A set of positions is finite, and has no more members than there are    *)
(* positions.                                                              *)
LEMMA PositionsFinite ==
  ASSUME NEW n \in Nat, NEW S \in SUBSET (1 .. n)
  PROVE  /\ IsFiniteSet(S)
         /\ Cardinality(S) \in 0 .. n
<1>1. IsFiniteSet(1 .. n)
  BY FS_Interval
<1>2. Cardinality(1 .. n) = n
  BY FS_Interval
<1>3. IsFiniteSet(S) /\ Cardinality(S) <= Cardinality(1 .. n)
  BY <1>1, FS_Subset
<1>4. Cardinality(S) \in Nat
  BY <1>3, FS_CardinalityType
<1> QED
  BY <1>2, <1>3, <1>4

(* The survivors of pruning are finitely many positions of the log.        *)
LEMMA SurvivorsFinite ==
  ASSUME NEW S, NEW ops \in Seq(S), NEW now, NEW ticks
  PROVE  /\ Survivors(ops, now, ticks) \in SUBSET (1 .. Len(ops))
         /\ Cardinality(Survivors(ops, now, ticks)) \in 0 .. Len(ops)
<1>1. Survivors(ops, now, ticks) \in SUBSET (1 .. Len(ops))
  BY DEF Survivors
<1>2. Len(ops) \in Nat
  OBVIOUS
<1> QED
  BY <1>1, <1>2, PositionsFinite

(* A kept position is moved to a place among the kept ones.                *)
LEMMA RankRange ==
  ASSUME NEW n \in Nat, NEW keep \in SUBSET (1 .. n), NEW k \in keep
  PROVE  Rank(keep, k) \in 1 .. Cardinality(keep)
<1> DEFINE R == {m \in keep : m <= k}
<1>1. IsFiniteSet(keep)
  BY PositionsFinite
<1>2. IsFiniteSet(R) /\ Cardinality(R) <= Cardinality(keep)
  BY <1>1, FS_Subset
<1>3. Cardinality(R) \in Nat /\ Cardinality(keep) \in Nat
  BY <1>1, <1>2, FS_CardinalityType
<1>4. k \in R
  OBVIOUS
<1>5. Cardinality(R) # 0
  BY <1>2, <1>4, FS_EmptySet
<1> QED
  BY <1>2, <1>3, <1>5 DEF Rank

(* A later position comes later: compaction keeps the order, and no two    *)
(* positions share a place.                                                *)
LEMMA RankIncreasing ==
  ASSUME NEW n \in Nat, NEW keep \in SUBSET (1 .. n),
         NEW i \in keep, NEW k \in keep, i < k
  PROVE  Rank(keep, i) < Rank(keep, k)
<1> DEFINE Ri == {m \in keep : m <= i}
           Rk == {m \in keep : m <= k}
<1>1. IsFiniteSet(keep)
  BY PositionsFinite
<1>2. IsFiniteSet(Ri) /\ IsFiniteSet(Rk)
  BY <1>1, FS_Subset
<1>3. Ri \in SUBSET Rk
  <2> SUFFICES ASSUME NEW m \in keep, m <= i
               PROVE  m <= k
    OBVIOUS
  <2> m \in Nat /\ i \in Nat /\ k \in Nat
    OBVIOUS
  <2> QED
    OBVIOUS
<1>4. k \in Rk /\ k \notin Ri
  <2> i \in Nat /\ k \in Nat
    OBVIOUS
  <2> QED
    OBVIOUS
<1>5. Cardinality(Ri) <= Cardinality(Rk) /\ Cardinality(Ri) # Cardinality(Rk)
  BY <1>2, <1>3, <1>4, FS_Subset
<1>6. Cardinality(Ri) \in Nat /\ Cardinality(Rk) \in Nat
  BY <1>2, FS_CardinalityType
<1> QED
  BY <1>5, <1>6 DEF Rank

(* Every place is taken: the compacted log has no holes.                   *)
LEMMA RankOnto ==
  ASSUME NEW n \in Nat, NEW keep \in SUBSET (1 .. n),
         NEW j \in 1 .. Cardinality(keep)
  PROVE  \E k \in keep : Rank(keep, k) = j
<1> DEFINE places == 1 .. Cardinality(keep)
           f == [k \in keep |-> Rank(keep, k)]
<1>1. IsFiniteSet(keep) /\ Cardinality(keep) \in Nat
  BY PositionsFinite
<1>2. IsFiniteSet(places) /\ Cardinality(places) = Cardinality(keep)
  BY <1>1, FS_Interval
<1>3. f \in [keep -> places]
  BY RankRange
<1>4. \A i, k \in keep : f[i] = f[k] => i = k
  <2> SUFFICES ASSUME NEW i \in keep, NEW k \in keep, i # k
               PROVE  f[i] # f[k]
    OBVIOUS
  <2>1. Rank(keep, i) \in places /\ Rank(keep, k) \in places
    BY RankRange
  <2>2. i < k \/ k < i
    OBVIOUS
  <2>3. Rank(keep, i) < Rank(keep, k) \/ Rank(keep, k) < Rank(keep, i)
    BY <2>2, RankIncreasing
  <2> QED
    BY <1>1, <2>1, <2>3
<1>5. f \in Injection(keep, places)
  BY <1>3, <1>4 DEF Injection, IsInjective
<1>6. f \in Surjection(keep, places)
  BY <1>1, <1>2, <1>5, FS_Injection
<1>7. \E k \in keep : f[k] = j
  BY <1>6 DEF Surjection
<1> QED
  BY <1>7

(* Compaction returns a sequence of entries of the log, one per position   *)
(* kept.                                                                   *)
LEMMA CompactType ==
  ASSUME NEW S, NEW ops \in Seq(S), NEW keep \in SUBSET (1 .. Len(ops))
  PROVE  /\ Compact(ops, keep) \in Seq(S)
         /\ Len(Compact(ops, keep)) = Cardinality(keep)
<1> DEFINE at(j) == CHOOSE k \in keep : Rank(keep, k) = j
<1>1. Len(ops) \in Nat /\ \A k \in 1 .. Len(ops) : ops[k] \in S
  OBVIOUS
<1>2. Cardinality(keep) \in Nat
  BY <1>1, PositionsFinite
<1>3. \A j \in 1 .. Cardinality(keep) : at(j) \in keep
  BY <1>1, RankOnto
<1>4. \A j \in 1 .. Cardinality(keep) : ops[at(j)] \in S
  BY <1>1, <1>3
<1> HIDE DEF at
<1>5. [j \in 1 .. Cardinality(keep) |-> ops[at(j)]] \in Seq(S)
  BY <1>2, <1>4
<1>6. Len([j \in 1 .. Cardinality(keep) |-> ops[at(j)]]) = Cardinality(keep)
  BY <1>2
<1> QED
  BY <1>5, <1>6 DEF Compact, at

(* Appending never exceeds the capacity of the ring.                       *)
LEMMA AppendOperationType ==
  ASSUME NEW S, NEW ops \in Seq(S), Len(ops) <= MaxOps, NEW now \in S
  PROVE  /\ AppendOperation(ops, now) \in Seq(S)
         /\ Len(AppendOperation(ops, now)) \in 1 .. MaxOps
<1>1. CASE Len(ops) < MaxOps
  BY <1>1, MaxOpsAssumption DEF AppendOperation
<1>2. CASE ~(Len(ops) < MaxOps)
  <2>1. ops # <<>>
    BY <1>2, MaxOpsAssumption
  <2>2. Tail(ops) \in Seq(S) /\ Len(Tail(ops)) = Len(ops) - 1
    BY <2>1
  <2> QED
    BY <1>2, <2>2, MaxOpsAssumption DEF AppendOperation
<1> QED
  BY <1>1, <1>2

(* RecordAndEvaluate leaves a log of at least one operation that fits the  *)
(* ring, whatever it was before and however late the caller is.            *)
LEMMA RecordedType ==
  ASSUME NEW S, NEW ops \in Seq(S), Len(ops) <= MaxOps, NEW now \in S,
         NEW ticks
  PROVE  /\ Recorded(ops, now, ticks) \in Seq(S)
         /\ Len(Recorded(ops, now, ticks)) \in 1 .. MaxOps
<1> DEFINE pruned == PruneOldOperations(ops, now, ticks)
<1>1. /\ Survivors(ops, now, ticks) \in SUBSET (1 .. Len(ops))
      /\ Cardinality(Survivors(ops, now, ticks)) \in 0 .. Len(ops)
  BY SurvivorsFinite
<1>2. pruned \in Seq(S) /\ Len(pruned) <= Len(ops)
  BY <1>1, CompactType DEF PruneOldOperations
<1>3. Len(pruned) <= MaxOps
  BY <1>2, MaxOpsAssumption
<1> QED
  BY <1>2, <1>3, AppendOperationType DEF Recorded
-----------------------------------------------------------------------------
(* How the log of the ring relates to the history l of every operation.    *)
(* An operation has expired when a later one was more than the window      *)
(* behind it.                                                              *)
Expired(l, i, ticks) == \E m \in 1 .. Len(l) : l[m] - l[i] > ticks

Sorted(l) == \A i, k \in 1 .. Len(l) : i <= k => l[i] <= l[k]

Latest(l) ==
  l # <<>> => \E m \in 1 .. Len(l) : \A k \in 1 .. Len(l) : l[k] <= l[m]

(* Timestamps in order: the log is the end of the history, and what is     *)
(* before it has expired, unless the ring is full.                         *)
EndsWith(l, ops, ticks) ==
  /\ Len(ops) <= Len(l)
  /\ \A k \in 1 .. Len(ops) : ops[k] = l[Len(l) - Len(ops) + k]
  /\ \/ Len(ops) = MaxOps
     \/ \A i \in 1 .. Len(l) - Len(ops) : Expired(l, i, ticks)

(* Timestamps in any order: each operation of the history has expired, or  *)
(* has an entry in the log.                                                *)
Covers(l, ops, ticks) ==
  \E f \in [1 .. Len(ops) -> 1 .. Len(l)] :
    /\ \A k \in 1 .. Len(ops) : ops[k] = l[f[k]]
    /\ \A i \in 1 .. Len(l) :
         Expired(l, i, ticks) \/ \E k \in 1 .. Len(ops) : f[k] = i

(* What is recorded: the survivors of the log, in order, but for the       *)
(* oldest when the ring is full, and the new operation.                    *)
LEMMA CompactIs ==
  ASSUME NEW S, NEW ops \in Seq(S), NEW keep \in SUBSET (1 .. Len(ops))
  PROVE  \E at \in [1 .. Cardinality(keep) -> keep] :
           /\ \A j \in 1 .. Cardinality(keep) : Compact(ops, keep)[j] = ops[at[j]]
           /\ \A k \in keep : at[Rank(keep, k)] = k
<1> DEFINE at == [j \in 1 .. Cardinality(keep) |->
                    CHOOSE k \in keep : Rank(keep, k) = j]
<1>1. Len(ops) \in Nat
  OBVIOUS
<1>2. \A j \in 1 .. Cardinality(keep) : at[j] \in keep /\ Rank(keep, at[j]) = j
  BY <1>1, RankOnto
<1>3. ASSUME NEW k \in keep
      PROVE  at[Rank(keep, k)] = k
  <2>1. Rank(keep, k) \in 1 .. Cardinality(keep)
    BY <1>1, RankRange
  <2> DEFINE i == at[Rank(keep, k)]
  <2>2. i \in keep /\ Rank(keep, i) = Rank(keep, k)
    BY <1>2, <2>1
  <2> HIDE DEF i
  <2>3. Rank(keep, k) \in Int /\ i \in Int /\ k \in Int
    BY <2>1, <2>2
  <2>4. i < k => Rank(keep, i) < Rank(keep, k)
    BY <1>1, <2>2, RankIncreasing
  <2>5. k < i => Rank(keep, k) < Rank(keep, i)
    BY <1>1, <2>2, RankIncreasing
  <2>6. i = k
    BY <2>2, <2>3, <2>4, <2>5
  <2> QED
    BY <2>6 DEF i
<1>4. \A j \in 1 .. Cardinality(keep) : Compact(ops, keep)[j] = ops[at[j]]
  BY DEF Compact
<1>5. at \in [1 .. Cardinality(keep) -> keep]
  BY <1>2
<1> QED
  BY <1>2, <1>3, <1>4, <1>5


(* Every entry of the log is in the window right after an operation.       *)
LEMMA AllRecent ==
  ASSUME NEW ops \in Seq(Nat), Len(ops) <= MaxOps, NEW now \in Nat,
         NEW ticks \in Nat
  PROVE  /\ \A k \in 1 .. Len(Recorded(ops, now, ticks)) :
              now - Recorded(ops, now, ticks)[k] <= ticks
         /\ RecentCount(Recorded(ops, now, ticks), now, ticks)
              = Len(Recorded(ops, now, ticks))
<1> DEFINE keep   == Survivors(ops, now, ticks)
           pruned == Compact(ops, keep)
           new    == AppendOperation(pruned, now)
<1>1. /\ keep \in SUBSET (1 .. Len(ops))
      /\ Cardinality(keep) \in 0 .. Len(ops)
  BY SurvivorsFinite
<1>2. pruned \in Seq(Nat) /\ Len(pruned) = Cardinality(keep)
  BY <1>1, CompactType
<1>3. PICK at \in [1 .. Cardinality(keep) -> keep] :
        /\ \A j \in 1 .. Cardinality(keep) : pruned[j] = ops[at[j]]
        /\ \A k \in keep : at[Rank(keep, k)] = k
  BY <1>1, CompactIs
<1>4. \A k \in keep : now - ops[k] <= ticks
  BY DEF Survivors
<1> HIDE DEF pruned, keep
<1>5. \A j \in 1 .. Len(pruned) : now - pruned[j] <= ticks
  BY <1>2, <1>3, <1>4
<1>6. new \in Seq(Nat) /\ \A k \in 1 .. Len(new) : now - new[k] <= ticks
  <2>1. CASE Len(pruned) < MaxOps
    <3>1. new = Append(pruned, now)
      BY <2>1 DEF AppendOperation
    <3> QED
      BY <1>2, <1>5, <3>1
  <2>2. CASE ~(Len(pruned) < MaxOps)
    <3>1. new = Append(Tail(pruned), now)
      BY <2>2 DEF AppendOperation
    <3>2. pruned # <<>>
      BY <2>2, MaxOpsAssumption
    <3>3. /\ Tail(pruned) \in Seq(Nat) /\ Len(Tail(pruned)) = Len(pruned) - 1
          /\ \A k \in 1 .. Len(pruned) - 1 : Tail(pruned)[k] = pruned[k + 1]
      BY <1>2, <3>2
    <3>4. \A k \in 1 .. Len(pruned) - 1 : now - Tail(pruned)[k] <= ticks
      BY <1>2, <1>5, <3>3
    <3> HIDE DEF new
    <3> QED
      BY <1>2, <3>1, <3>3, <3>4
  <2> QED
    BY <2>1, <2>2
<1>7. Recorded(ops, now, ticks) = new
  BY DEF Recorded, PruneOldOperations, pruned, keep
<1> HIDE DEF new
<1>8. Survivors(new, now, ticks) = 1 .. Len(new)
  BY <1>6 DEF Survivors
<1>9. Cardinality(1 .. Len(new)) = Len(new)
  <2>1. Len(new) \in Nat
    BY <1>6
  <2> HIDE DEF new
  <2> QED
    BY <2>1, IntervalSize
<1> QED
  BY <1>6, <1>7, <1>8, <1>9 DEF RecentCount

(* When it is in order, what survives is its end.                          *)
LEMMA SurvivorsOfSorted ==
  ASSUME NEW ops \in Seq(Nat), Sorted(ops), NEW now \in Nat, NEW ticks \in Nat
  PROVE  LET kept == Cardinality(Survivors(ops, now, ticks))
         IN  /\ kept \in 0 .. Len(ops)
             /\ Survivors(ops, now, ticks) = Len(ops) - kept + 1 .. Len(ops)
             /\ \A j \in 1 .. kept :
                  Compact(ops, Survivors(ops, now, ticks))[j]
                    = ops[Len(ops) - kept + j]
<1> DEFINE keep == Survivors(ops, now, ticks)
           size == Cardinality(keep)
           last == Len(ops) - size + 1 .. Len(ops)
<1>1. /\ keep \in SUBSET (1 .. Len(ops)) /\ size \in 0 .. Len(ops)
      /\ Len(ops) \in Nat
  BY SurvivorsFinite
<1>2. \A i \in keep : \A k \in i .. Len(ops) : k \in keep
  BY <1>1 DEF Survivors, Sorted
<1> HIDE DEF keep, size
<1>3. ASSUME NEW i \in keep
      PROVE  i \in last
  <2>1. i .. Len(ops) \in SUBSET keep
    BY <1>2
  <2>2. IsFiniteSet(keep) /\ i \in 1 .. Len(ops)
    BY <1>1, PositionsFinite
  <2>3. Cardinality(i .. Len(ops)) <= size
    BY <2>1, <2>2, FS_Subset DEF size
  <2>4. Cardinality(i .. Len(ops)) = Len(ops) - i + 1
    <3>1. i <= Len(ops) + 1 /\ i \in Int /\ Len(ops) \in Int
      BY <1>1, <2>2
    <3> QED
      BY <3>1, IntervalCard
  <2> QED
    BY <1>1, <2>2, <2>3, <2>4
<1>4. IsFiniteSet(last) /\ Cardinality(last) = size
  <2> DEFINE first == Len(ops) - size + 1
  <2>1. /\ first <= Len(ops) + 1 /\ first \in Int /\ Len(ops) \in Int
        /\ Len(ops) - first + 1 = size
    BY <1>1
  <2> HIDE DEF first
  <2>2. IsFiniteSet(first .. Len(ops)) /\ Cardinality(first .. Len(ops)) = size
    BY <2>1, IntervalCard
  <2> QED
    BY <2>2 DEF first
<1>5. keep = last
  BY <1>3, <1>4, FS_Subset DEF size
<1>6. ASSUME NEW j \in 1 .. size
      PROVE  Compact(ops, keep)[j] = ops[Len(ops) - size + j]
  <2>1. PICK at \in [1 .. size -> keep] :
          /\ \A k \in 1 .. size : Compact(ops, keep)[k] = ops[at[k]]
          /\ \A k \in keep : at[Rank(keep, k)] = k
    BY <1>1, CompactIs DEF size
  <2> DEFINE k == Len(ops) - size + j
  <2>2. k \in keep /\ k \in Int
    BY <1>1, <1>5
  <2>3. {m \in keep : m <= k} = Len(ops) - size + 1 .. k
    BY <1>1, <1>5
  <2>4. Rank(keep, k) = j
    <3> DEFINE first == Len(ops) - size + 1
    <3>1. first <= k + 1 /\ first \in Int /\ k - first + 1 = j
      BY <1>1
    <3> HIDE DEF first, k
    <3>2. Cardinality(first .. k) = j
      BY <2>2, <3>1, IntervalCard
    <3> QED
      BY <2>3, <3>2 DEF Rank, first
  <2> QED
    BY <2>1, <2>2, <2>4
<1> QED
  BY <1>1, <1>5, <1>6 DEF keep, size

(* The relation to the history survives the recording of an operation.     *)
LEMMA EndsWithRecorded ==
  ASSUME NEW l \in Seq(Nat), NEW ops \in Seq(Nat), Len(ops) <= MaxOps,
         NEW now \in Nat, NEW ticks \in Nat,
         Sorted(Append(l, now)), EndsWith(l, ops, ticks)
  PROVE  EndsWith(Append(l, now), Recorded(ops, now, ticks), ticks)
<1> DEFINE n      == Len(l)
           new    == Append(l, now)
           keep   == Survivors(ops, now, ticks)
           kept   == Cardinality(keep)
           pruned == Compact(ops, keep)
<1>1. /\ n \in Nat /\ Len(ops) \in 0 .. n /\ MaxOps \in Nat \ {0}
      /\ new \in Seq(Nat) /\ Len(new) = n + 1 /\ new[n + 1] = now
      /\ \A k \in 1 .. n : new[k] = l[k] /\ l[k] \in Nat
  BY MaxOpsAssumption DEF EndsWith
<1>2. \A k \in 1 .. Len(ops) : ops[k] = l[n - Len(ops) + k]
  BY DEF EndsWith
<1>0. Sorted(new)
  OBVIOUS
<1> HIDE DEF new, n
<1>a. /\ \A i, k \in 1 .. n + 1 : i <= k => new[i] <= new[k]
      /\ \A i, k \in 1 .. n : i <= k => l[i] <= l[k]
  <2>1. \A i, k \in 1 .. n + 1 : i <= k => new[i] <= new[k]
    BY <1>0, <1>1 DEF Sorted
  <2>2. \A i \in 1 .. n : i \in 1 .. n + 1
    BY <1>1
  <2> QED
    BY <1>1, <2>1, <2>2
<1>b. \A k \in 1 .. Len(ops) : ops[k] \in Nat
  OBVIOUS
<1>3. Sorted(ops)
  <2> SUFFICES ASSUME NEW i \in 1 .. Len(ops), NEW k \in 1 .. Len(ops), i <= k
               PROVE  ops[i] <= ops[k]
    BY DEF Sorted
  <2>1. /\ n - Len(ops) + i \in 1 .. n /\ n - Len(ops) + k \in 1 .. n
        /\ n - Len(ops) + i <= n - Len(ops) + k
    <3>1. i \in Int /\ k \in Int /\ n \in Int /\ Len(ops) \in Int
      BY <1>1
    <3>2. /\ 1 <= i /\ i <= Len(ops) /\ 1 <= k /\ k <= Len(ops)
          /\ Len(ops) <= n
      BY <1>1
    <3> QED
      BY <3>1, <3>2
  <2>2. l[n - Len(ops) + i] <= l[n - Len(ops) + k]
    BY <1>a, <2>1
  <2> QED
    BY <1>2, <2>2
<1>4. /\ kept \in 0 .. Len(ops)
      /\ keep = Len(ops) - kept + 1 .. Len(ops)
      /\ \A j \in 1 .. kept : pruned[j] = ops[Len(ops) - kept + j]
  BY <1>3, SurvivorsOfSorted
<1>5. /\ pruned \in Seq(Nat) /\ Len(pruned) = kept
  BY SurvivorsFinite, CompactType
<1>6. \A k \in 1 .. Len(ops) : k \notin keep => now - ops[k] > ticks
  BY <1>b DEF Survivors
<1>7. Recorded(ops, now, ticks) = AppendOperation(pruned, now)
  BY DEF Recorded, PruneOldOperations
<1> HIDE DEF keep, kept, pruned
<1>8. ASSUME NEW j \in 1 .. kept
      PROVE  pruned[j] = l[n - kept + j]
  <2>1. /\ Len(ops) - kept + j \in 1 .. Len(ops)
        /\ n - Len(ops) + (Len(ops) - kept + j) = n - kept + j
    BY <1>1, <1>4
  <2> QED
    BY <1>2, <1>4, <2>1
<1>9. CASE kept < MaxOps
  <2>1. AppendOperation(pruned, now) = Append(pruned, now)
    BY <1>5, <1>9 DEF AppendOperation
  <2> DEFINE r == Append(pruned, now)
  <2>2. /\ Len(r) = kept + 1 /\ r[kept + 1] = now
        /\ \A k \in 1 .. kept : r[k] = pruned[k]
    BY <1>5
  <2> HIDE DEF r
  <2>3. Len(r) <= n + 1 /\ \A k \in 1 .. Len(r) : r[k] = new[n + 1 - Len(r) + k]
    <3>1. ASSUME NEW k \in 1 .. kept
          PROVE  r[k] = new[n + 1 - Len(r) + k]
      <4>1. n - kept + k \in 1 .. n /\ n + 1 - Len(r) + k = n - kept + k
        BY <1>1, <1>4, <2>2
      <4> QED
        BY <1>1, <1>8, <2>2, <4>1
    <3>2. r[kept + 1] = new[n + 1 - Len(r) + (kept + 1)]
      <4>1. n + 1 - Len(r) + (kept + 1) = n + 1
        BY <1>1, <1>4, <2>2
      <4> QED
        BY <1>1, <2>2, <4>1
    <3>3. \A k \in 1 .. Len(r) : k \in 1 .. kept \/ k = kept + 1
      BY <1>1, <1>4, <2>2
    <3>4. Len(r) <= n + 1
      BY <1>1, <1>4, <2>2
    <3> QED
      BY <2>2, <3>1, <3>2, <3>3, <3>4
  <2>4. ASSUME NEW i \in 1 .. n - kept
        PROVE  Expired(new, i, ticks)
    <3>1. CASE kept = Len(ops)
      <4>1. PICK m \in 1 .. n : l[m] - l[i] > ticks
        <5>1. Len(ops) # MaxOps
          BY <1>1, <1>4, <1>9, <3>1
        <5>2. i \in 1 .. Len(l) - Len(ops)
          BY <3>1 DEF n
        <5> QED
          BY <5>1, <5>2 DEF EndsWith, Expired, n
      <4>2. m \in 1 .. Len(new) /\ new[m] - new[i] > ticks
        <5>1. i \in 1 .. n /\ m \in 1 .. n + 1
          BY <1>1, <1>4
        <5> QED
          BY <1>1, <4>1, <5>1
      <4> QED
        BY <4>2 DEF Expired
    <3>2. CASE kept # Len(ops)
      <4>1. /\ Len(ops) - kept \in 1 .. Len(ops)
            /\ Len(ops) - kept \notin keep
            /\ n - kept \in 1 .. n
        BY <1>1, <1>4, <3>2
      <4>2. now - ops[Len(ops) - kept] > ticks
        BY <1>6, <4>1
      <4>3. ops[Len(ops) - kept] = l[n - kept]
        <5>1. n - Len(ops) + (Len(ops) - kept) = n - kept
          BY <1>1, <1>4
        <5> QED
          BY <1>2, <4>1, <5>1
      <4>4. l[i] <= l[n - kept] /\ i \in 1 .. n
        <5>1. i \in 1 .. n /\ i <= n - kept
          BY <1>1, <1>4
        <5> QED
          BY <1>a, <4>1, <5>1
      <4>5. n + 1 \in 1 .. Len(new) /\ new[n + 1] - new[i] > ticks
        <5>1. /\ now - l[n - kept] > ticks /\ l[n - kept] \in Nat
              /\ new[i] = l[i] /\ l[i] \in Nat
          BY <1>1, <4>1, <4>2, <4>3, <4>4
        <5>2. now - l[i] > ticks
          BY <4>4, <5>1
        <5> QED
          BY <1>1, <5>1, <5>2
      <4> QED
        BY <4>5 DEF Expired
    <3> QED
      BY <3>1, <3>2
  <2>5. Len(new) - Len(r) = n - kept
    BY <1>1, <1>4, <2>2
  <2>6. EndsWith(new, r, ticks)
    BY <1>1, <2>3, <2>4, <2>5 DEF EndsWith
  <2> QED
    BY <1>7, <2>1, <2>6 DEF r, new
<1>10. CASE ~(kept < MaxOps)
  <2>1. AppendOperation(pruned, now) = Append(Tail(pruned), now)
    BY <1>5, <1>10 DEF AppendOperation
  <2>2. kept = MaxOps /\ Len(ops) = MaxOps
    BY <1>1, <1>4, <1>10
  <2>3. pruned # <<>>
    BY <1>1, <1>5, <2>2
  <2> DEFINE r == Append(Tail(pruned), now)
  <2>4. /\ Tail(pruned) \in Seq(Nat) /\ Len(Tail(pruned)) = kept - 1
        /\ \A k \in 1 .. kept - 1 : Tail(pruned)[k] = pruned[k + 1]
    BY <1>5, <2>3
  <2>5. /\ Len(r) = kept /\ r[kept] = now
        /\ \A k \in 1 .. kept - 1 : r[k] = pruned[k + 1]
    BY <1>1, <2>2, <2>4
  <2> HIDE DEF r
  <2>6. Len(r) <= n + 1 /\ \A k \in 1 .. Len(r) : r[k] = new[n + 1 - Len(r) + k]
    <3>1. ASSUME NEW k \in 1 .. kept - 1
          PROVE  r[k] = new[n + 1 - Len(r) + k]
      <4>1. /\ k + 1 \in 1 .. kept /\ n - kept + (k + 1) \in 1 .. n
            /\ n + 1 - Len(r) + k = n - kept + (k + 1)
        BY <1>1, <1>4, <2>2, <2>5
      <4> QED
        BY <1>1, <1>8, <2>5, <4>1
    <3>2. r[kept] = new[n + 1 - Len(r) + kept]
      BY <1>1, <1>4, <2>2, <2>5
    <3>3. \A k \in 1 .. Len(r) : k \in 1 .. kept - 1 \/ k = kept
      BY <1>1, <1>4, <2>2, <2>5
    <3>4. Len(r) <= n + 1
      BY <1>1, <1>4, <2>2, <2>5
    <3> QED
      BY <3>1, <3>2, <3>3, <3>4
  <2>7. EndsWith(new, r, ticks)
    BY <1>1, <2>2, <2>5, <2>6 DEF EndsWith
  <2> QED
    BY <1>7, <2>1, <2>7 DEF r, new
<1> QED
  BY <1>9, <1>10

LEMMA CoversRecorded ==
  ASSUME NEW l \in Seq(Nat), NEW ops \in Seq(Nat), Len(ops) <= MaxOps,
         NEW now \in Nat, NEW ticks \in Nat,
         Cardinality(Survivors(ops, now, ticks)) # MaxOps,
         Covers(l, ops, ticks)
  PROVE  Covers(Append(l, now), Recorded(ops, now, ticks), ticks)
<1> DEFINE n      == Len(l)
           new    == Append(l, now)
           keep   == Survivors(ops, now, ticks)
           kept   == Cardinality(keep)
           pruned == Compact(ops, keep)
           r      == Append(pruned, now)
<1>1. /\ n \in Nat /\ Len(ops) \in Nat
      /\ new \in Seq(Nat) /\ Len(new) = n + 1 /\ new[n + 1] = now
      /\ \A k \in 1 .. n : new[k] = l[k] /\ l[k] \in Nat
  OBVIOUS
<1>2. /\ keep \in SUBSET (1 .. Len(ops)) /\ kept \in 0 .. Len(ops)
      /\ pruned \in Seq(Nat) /\ Len(pruned) = kept
  BY SurvivorsFinite, CompactType
<1>4. PICK f \in [1 .. Len(ops) -> 1 .. n] :
        /\ \A k \in 1 .. Len(ops) : ops[k] = l[f[k]]
        /\ \A i \in 1 .. n :
             Expired(l, i, ticks) \/ \E k \in 1 .. Len(ops) : f[k] = i
  BY DEF Covers
<1>5. \A k \in 1 .. Len(ops) : ops[k] \in Nat /\ (k \notin keep => now - ops[k] > ticks)
  BY DEF Survivors
<1>6. \A k \in keep : Rank(keep, k) \in 1 .. kept
  BY <1>1, <1>2, RankRange
<1>7. Recorded(ops, now, ticks) = r
  BY <1>2, MaxOpsAssumption DEF Recorded, PruneOldOperations, AppendOperation
<1> HIDE DEF n, new, keep, kept, pruned
<1>3. PICK at \in [1 .. kept -> keep] :
        /\ \A j \in 1 .. kept : pruned[j] = ops[at[j]]
        /\ \A k \in keep : at[Rank(keep, k)] = k
  <2>1. keep \in SUBSET (1 .. Len(ops))
    BY <1>2
  <2>2. \E at \in [1 .. Cardinality(keep) -> keep] :
          /\ \A j \in 1 .. Cardinality(keep) : Compact(ops, keep)[j] = ops[at[j]]
          /\ \A k \in keep : at[Rank(keep, k)] = k
    BY <2>1, CompactIs
  <2> QED
    BY <2>2 DEF kept, pruned
<1>8. /\ Len(r) = kept + 1 /\ r[kept + 1] = now
      /\ \A k \in 1 .. kept : r[k] = pruned[k]
  BY <1>2
<1> HIDE DEF r
<1> DEFINE g == [j \in 1 .. Len(r) |-> IF j = kept + 1 THEN n + 1 ELSE f[at[j]]]
<1>9. ASSUME NEW j \in 1 .. kept
      PROVE  /\ at[j] \in 1 .. Len(ops) /\ j \in 1 .. Len(r)
             /\ g[j] = f[at[j]] /\ g[j] \in 1 .. n
  <2>1. j \in 1 .. Len(r) /\ j # kept + 1
    BY <1>2, <1>8
  <2>2. at[j] \in keep
    BY <1>3
  <2>3. at[j] \in 1 .. Len(ops)
    BY <1>2, <2>2
  <2>4. f[at[j]] \in 1 .. n
    BY <1>4, <2>3
  <2> QED
    BY <2>1, <2>3, <2>4
<1>10. kept + 1 \in 1 .. Len(r) /\ g[kept + 1] = n + 1
  BY <1>2, <1>8
<1>11. \A j \in 1 .. Len(r) : j \in 1 .. kept \/ j = kept + 1
  BY <1>2, <1>8
<1>12. \A i \in 1 .. n : i \in 1 .. n + 1
  BY <1>1
<1>13. g \in [1 .. Len(r) -> 1 .. Len(new)]
  <2>1. n + 1 \in 1 .. n + 1
    BY <1>1
  <2> QED
    BY <1>1, <1>9, <1>10, <1>11, <1>12, <2>1
<1> HIDE DEF g
<1>14. \A j \in 1 .. Len(r) : r[j] = new[g[j]]
  <2>1. ASSUME NEW j \in 1 .. kept
        PROVE  r[j] = new[g[j]]
    <3>1. r[j] = ops[at[j]] /\ ops[at[j]] = l[f[at[j]]]
      BY <1>3, <1>4, <1>8, <1>9
    <3>2. g[j] = f[at[j]] /\ g[j] \in 1 .. n
      BY <1>9
    <3>3. new[g[j]] = l[g[j]]
      BY <1>1, <3>2
    <3> QED
      BY <3>1, <3>2, <3>3
  <2> QED
    BY <1>1, <1>8, <1>10, <1>11, <2>1
<1>15. ASSUME NEW i \in 1 .. n
       PROVE  Expired(new, i, ticks) \/ \E j \in 1 .. Len(r) : g[j] = i
  <2>1. CASE Expired(l, i, ticks)
    <3>1. PICK m \in 1 .. n : l[m] - l[i] > ticks
      BY <2>1 DEF Expired, n
    <3>2. m \in 1 .. Len(new) /\ new[m] - new[i] > ticks
      BY <1>1, <1>12, <3>1
    <3> QED
      BY <3>2 DEF Expired
  <2>2. ASSUME NEW k \in 1 .. Len(ops), f[k] = i, k \in keep
        PROVE  \E j \in 1 .. Len(r) : g[j] = i
    <3>1. Rank(keep, k) \in 1 .. kept /\ at[Rank(keep, k)] = k
      BY <1>3, <1>6, <2>2
    <3> QED
      BY <1>9, <2>2, <3>1
  <2>3. ASSUME NEW k \in 1 .. Len(ops), f[k] = i, k \notin keep
        PROVE  Expired(new, i, ticks)
    <3>1. now - new[i] > ticks
      BY <1>1, <1>4, <1>5, <2>3
    <3>2. n + 1 \in 1 .. Len(new) /\ new[n + 1] = now
      BY <1>1
    <3> QED
      BY <3>1, <3>2 DEF Expired
  <2> QED
    BY <1>4, <2>1, <2>2, <2>3
<1>16. \A i \in 1 .. Len(new) : i \in 1 .. n \/ i = n + 1
  BY <1>1
<1>17. \A i \in 1 .. Len(new) :
         Expired(new, i, ticks) \/ \E j \in 1 .. Len(r) : g[j] = i
  BY <1>10, <1>15, <1>16
<1>18. Covers(new, r, ticks)
  BY <1>13, <1>14, <1>17 DEF Covers
<1> QED
  BY <1>7, <1>18 DEF new

(* A smaller window expires more.                                          *)
LEMMA SmallerWindow ==
  ASSUME NEW l \in Seq(Nat), NEW ops, NEW ticks \in Nat, NEW smaller \in Nat,
         smaller <= ticks
  PROVE  /\ EndsWith(l, ops, ticks) => EndsWith(l, ops, smaller)
         /\ Covers(l, ops, ticks) => Covers(l, ops, smaller)
<1>1. ASSUME NEW i \in 1 .. Len(l), Expired(l, i, ticks)
      PROVE  Expired(l, i, smaller)
  <2>1. PICK m \in 1 .. Len(l) : l[m] - l[i] > ticks
    BY <1>1 DEF Expired
  <2>2. l[m] \in Nat /\ l[i] \in Nat
    OBVIOUS
  <2> QED
    BY <2>1, <2>2 DEF Expired
<1>2. ASSUME Len(ops) \in Nat, EndsWith(l, ops, ticks)
      PROVE  EndsWith(l, ops, smaller)
  <2>1. \A i \in 1 .. Len(l) - Len(ops) : i \in 1 .. Len(l)
    BY <1>2
  <2> QED
    BY <1>1, <1>2, <2>1 DEF EndsWith
<1>3. ASSUME Covers(l, ops, ticks)
      PROVE  Covers(l, ops, smaller)
  BY <1>1, <1>3 DEF Covers
<1> QED
  BY <1>2, <1>3

LEMMA LatestAppend ==
  ASSUME NEW l \in Seq(Nat), NEW now \in Nat, Latest(l)
  PROVE  Latest(Append(l, now))
<1> DEFINE n   == Len(l)
           new == Append(l, now)
<1>1. /\ n \in Nat /\ Len(new) = n + 1 /\ new[n + 1] = now
      /\ \A k \in 1 .. n : new[k] = l[k] /\ l[k] \in Nat
      /\ l = <<>> => n = 0
  OBVIOUS
<1> HIDE DEF new
<1>2. /\ \A k \in 1 .. n + 1 : k \in 1 .. n \/ k = n + 1
      /\ n + 1 \in 1 .. n + 1
      /\ \A k \in 1 .. n : k \in 1 .. n + 1
  BY <1>1
<1>3. CASE \A k \in 1 .. n : l[k] <= now
  <2>1. \A k \in 1 .. n + 1 : new[k] <= new[n + 1]
    BY <1>1, <1>2, <1>3
  <2> QED
    BY <1>1, <1>2, <2>1 DEF Latest, new
<1>4. CASE \E k \in 1 .. n : ~(l[k] <= now)
  <2>1. PICK i \in 1 .. n : ~(l[i] <= now)
    BY <1>4
  <2>2. l # <<>>
    BY <1>1, <2>1
  <2>3. PICK m \in 1 .. n : \A k \in 1 .. n : l[k] <= l[m]
    BY <2>2 DEF Latest
  <2>4. now <= l[m] /\ new[m] = l[m] /\ m \in 1 .. n + 1
    BY <1>1, <1>2, <2>1, <2>3
  <2>5. \A k \in 1 .. n + 1 : new[k] <= new[m]
    BY <1>1, <1>2, <2>3, <2>4
  <2> QED
    BY <1>1, <2>4, <2>5 DEF Latest, new
<1> QED
  BY <1>3, <1>4
=============================================================================
