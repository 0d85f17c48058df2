--------------------------- MODULE RsFilter_proofs ---------------------------
(***************************************************************************)
(* Proofs about RsFilter, for any number of threads and processes and any  *)
(* lists.                                                                  *)
(*                                                                         *)
(* IInv says who holds which subsystem in place, and where a call is in    *)
(* the life of its image name.  PushRight says that wherever a push of the *)
(* allowlist is, the driver's list is what it keeps of the entries handled *)
(* so far.                                                                 *)
(***************************************************************************)
EXTENDS RsFilter, SequenceTheorems, FiniteSetTheorems, TLAPS

Stages == {"unloaded", "registered", "tracking", "port", "filtering",
           "destroyPort", "closeServer", "destroyTracking", "unregister"}

(* What exists at each stage: building and dismantling go through the same *)
(* states.                                                                 *)
BuiltRight ==
  /\ stage \in Stages
  /\ stage = "unloaded" => built = {}
  /\ stage \in {"registered", "unregister"} => built = {"filter"}
  /\ stage \in {"tracking", "destroyTracking"} => built = {"filter", "tracking"}
  /\ stage \in {"port", "destroyPort", "closeServer"} =>
       built = {"filter", "tracking", "port"}
  /\ stage = "filtering" => built = {"filter", "tracking", "port", "filtering"}

(* Who uses a subsystem holds it in place; only a client that connected    *)
(* between the two closes of RsDestroyCommPort is there without the port.  *)
Used ==
  /\ connected \in BOOLEAN /\ late \in BOOLEAN /\ (late => connected)
  /\ late => stage \in {"closeServer", "destroyTracking", "unregister", "unloaded"}
  /\ connected /\ ~late => stage \in {"port", "filtering", "destroyPort"}
  /\ push = "append" => connected /\ "filter" \in built
  /\ tracked # {} => "tracking" \in built
  /\ \A t \in Threads : ~Idle(t) => "filtering" \in built

(* One callback, from the process asked for to the operation it decides.   *)
Labels == {"passed", "denied", "check", "record", "post"}

CallsRight ==
  /\ pc \in [Threads -> Labels]
  /\ pid \in [Threads -> Pids \union {NoPid}]
  /\ operation \in [Threads -> Monitored \union {"none"}]
  /\ name \in [Threads -> Names \union StaticNames \union {NoName}]
  /\ imageNames \subseteq Threads
  /\ unlisted \in [Threads -> BOOLEAN]
  /\ NamesFreed
  /\ \A t \in Threads :
       /\ Idle(t) => name[t] = NoName
       /\ pc[t] = "check" => name[t] # NoName
       /\ pc[t] \in {"check", "record"} => pid[t] \in Pids \ SystemPids

(* A name on the list is looked up before the call is judged.              *)
NoticedUnlisted ==
  \A t \in Threads :
    unlisted[t] \/ (pc[t] = "check" /\ Listed(name[t], dynamicAllowlist))

TrackedRight == blocked \subseteq tracked /\ tracked \subseteq Pids \ SystemPids

DriverInv == BuiltRight /\ Used
CallInv   == CallsRight /\ NoticedUnlisted /\ TrackedRight
IInv      == AllowlistTypeOK /\ DriverInv /\ CallInv

LEMMA InvInit ==
  ASSUME Init PROVE IInv
<1> USE FilterAssumption, AllowlistAssumption
<1>1. AllowlistTypeOK
  BY DEF Init, AllowlistInit, AllowlistTypeOK
<1>2. DriverInv
  BY DEF Init, AllowlistInit, DriverInv, BuiltRight, Stages, Used, Idle
<1>3. CallInv
  BY DEF Init, CallInv, CallsRight, Labels, NamesFreed, Idle, NoticedUnlisted,
         TrackedRight, Monitored
<1> QED BY <1>1, <1>2, <1>3 DEF IInv

-----------------------------------------------------------------------------
(* The allowlist: messages of known shape, a list within its limit.        *)
LEMMA ChunkType ==
  ASSUME NEW S, entries \in Seq(S), chunkIdx \in Nat
  PROVE  Chunk \in Seq(S)
<1> DEFINE startIdx == chunkIdx * MaxChunk
           endIdx == IF startIdx + MaxChunk < Len(entries)
                     THEN startIdx + MaxChunk ELSE Len(entries)
<1>1. startIdx \in Nat /\ MaxChunk \in Nat
  BY AllowlistAssumption
<1>2. Len(entries) \in Nat
  OBVIOUS
<1> HIDE DEF startIdx
<1>3. endIdx \in Nat /\ endIdx <= Len(entries)
  BY <1>1, <1>2
<1> HIDE DEF endIdx
<1>4. SubSeq(entries, startIdx + 1, endIdx) \in Seq(S)
  <2>1. \A i \in startIdx + 1..endIdx : entries[i] \in S
    <3> TAKE i \in startIdx + 1..endIdx
    <3>1. i \in 1..Len(entries)
      BY <1>1, <1>2, <1>3
    <3> QED BY <3>1, ElementOfSeq
  <2> QED BY <1>1, <1>3, <2>1, SubSeqProperties
<1> QED BY <1>4 DEF Chunk, startIdx, endIdx

LEMMA EntriesType ==
  ASSUME AllowlistTypeOK
  PROVE  entries \in Seq(Names \union {EmptyName})
<1>1. <<>> \in Seq(Names \union {EmptyName})
  OBVIOUS
<1> QED BY <1>1, AllowlistAssumption DEF AllowlistTypeOK

LEMMA PushType ==
  ASSUME AllowlistTypeOK, Deliver \/ PushStep
  PROVE  AllowlistTypeOK'
<1>0. MaxEntries \in Nat
  BY AllowlistAssumption
<1>1. CASE ClearDynamicAllowlist
  BY <1>0, <1>1 DEF ClearDynamicAllowlist, AllowlistTypeOK
<1>2. CASE UpdateAllowlistFull
  BY <1>2, EntriesType DEF UpdateAllowlistFull, AllowlistTypeOK
<1>3. CASE UpdateAllowlistChunk
  <2>1. Chunk \in Seq(Names \union {EmptyName})
    BY EntriesType, ChunkType DEF AllowlistTypeOK
  <2> QED BY <1>3, <2>1 DEF UpdateAllowlistChunk, AllowlistTypeOK
<1>4. CASE \E list \in Lists : PushAllowlist(list)
  BY <1>4 DEF PushAllowlist, AllowlistTypeOK
<1>5. CASE SendRequestFails \/ HandlerReturns
  BY <1>5 DEF SendRequestFails, HandlerReturns, AllowlistTypeOK
<1>6. CASE AddDynamicAllowlistEntry
  <2>1. /\ Tail(pending) \in Seq(Names \union {EmptyName})
        /\ Head(pending) \in Names \union {EmptyName}
    BY <1>6 DEF AddDynamicAllowlistEntry, AllowlistTypeOK
  <2>2. /\ dynamicAllowlist' \in Seq(Names)
        /\ Len(dynamicAllowlist') <= MaxEntries
    <3>1. CASE Head(pending) # EmptyName /\ Len(dynamicAllowlist) < MaxEntries
      <4>1. /\ dynamicAllowlist \in Seq(Names) /\ Head(pending) \in Names
            /\ dynamicAllowlist' = Append(dynamicAllowlist, Head(pending))
        BY <1>6, <2>1, <3>1 DEF AddDynamicAllowlistEntry, AllowlistTypeOK
      <4>2. /\ dynamicAllowlist' \in Seq(Names)
            /\ Len(dynamicAllowlist') = Len(dynamicAllowlist) + 1
        BY <4>1, AppendProperties
      <4> QED BY <1>0, <3>1, <4>1, <4>2
    <3>2. CASE ~(Head(pending) # EmptyName /\ Len(dynamicAllowlist) < MaxEntries)
      BY <1>6, <3>2 DEF AddDynamicAllowlistEntry, AllowlistTypeOK
    <3> QED BY <3>1, <3>2
  <2> QED BY <1>6, <2>1, <2>2 DEF AddDynamicAllowlistEntry, AllowlistTypeOK
<1>7. CASE ReplyReceived
  BY <1>7 DEF ReplyReceived, AllowlistTypeOK
<1> QED BY <1>1, <1>2, <1>3, <1>4, <1>5, <1>6, <1>7 DEF Deliver, PushStep

LEMMA ResetType ==
  ASSUME AllowlistTypeOK, AllowlistReset
  PROVE  AllowlistTypeOK'
BY AllowlistAssumption DEF AllowlistReset, AllowlistTypeOK
-----------------------------------------------------------------------------
(* What the driver keeps of a list.                                        *)
LEMMA NamedFinite ==
  ASSUME NEW S, NEW list \in Seq(S), NEW k
  PROVE  /\ IsFiniteSet(NamedUpTo(list, k))
         /\ Cardinality(NamedUpTo(list, k)) \in Nat
<1>1. Len(list) \in Nat
  OBVIOUS
<1>2. IsFiniteSet(1 .. Len(list))
  BY <1>1, FS_Interval
<1>3. NamedUpTo(list, k) \subseteq 1 .. Len(list)
  BY DEF NamedUpTo
<1>4. IsFiniteSet(NamedUpTo(list, k))
  BY <1>2, <1>3, FS_Subset
<1> QED BY <1>4, FS_CardinalityType

(* A later position has more named entries up to it.                       *)
LEMMA NamedGrows ==
  ASSUME NEW S, NEW list \in Seq(S), NEW i \in Nat, NEW k \in Nat, i <= k
  PROVE  /\ Cardinality(NamedUpTo(list, i)) <= Cardinality(NamedUpTo(list, k))
         /\ i < k /\ k \in NamedUpTo(list, k) =>
              Cardinality(NamedUpTo(list, i)) < Cardinality(NamedUpTo(list, k))
<1>1. NamedUpTo(list, i) \subseteq NamedUpTo(list, k)
  BY DEF NamedUpTo
<1>2. /\ IsFiniteSet(NamedUpTo(list, k))
      /\ Cardinality(NamedUpTo(list, i)) \in Nat
      /\ Cardinality(NamedUpTo(list, k)) \in Nat
  BY NamedFinite
<1>3. Cardinality(NamedUpTo(list, i)) <= Cardinality(NamedUpTo(list, k))
  BY <1>1, <1>2, FS_Subset
<1>4. ASSUME i < k, k \in NamedUpTo(list, k)
      PROVE  Cardinality(NamedUpTo(list, i)) # Cardinality(NamedUpTo(list, k))
  <2>1. k \notin NamedUpTo(list, i)
    BY <1>4 DEF NamedUpTo
  <2>2. NamedUpTo(list, i) # NamedUpTo(list, k)
    BY <1>4, <2>1
  <2> QED BY <1>1, <1>2, <2>2, FS_Subset
<1> QED BY <1>2, <1>3, <1>4

(* A named entry is found by its number.                                   *)
LEMMA NthIs ==
  ASSUME NEW S, NEW list \in Seq(S), NEW k \in NamedUpTo(list, Len(list))
  PROVE  Nth(list, Cardinality(NamedUpTo(list, k))) = k
<1> DEFINE all == NamedUpTo(list, Len(list))
           count(i) == Cardinality(NamedUpTo(list, i))
<1>1. \A i \in all : i \in Nat /\ i \in NamedUpTo(list, i)
  BY DEF NamedUpTo
<1>2. \A i \in Nat : count(i) \in Nat
  BY NamedFinite
<1>3. ASSUME NEW i \in all, count(i) = count(k)
      PROVE  i = k
  <2>1. /\ i \in Nat /\ k \in Nat /\ count(i) \in Nat /\ count(k) \in Nat
        /\ i \in NamedUpTo(list, i) /\ k \in NamedUpTo(list, k)
    BY <1>1, <1>2
  <2>2. ~(i < k)
    <3> SUFFICES ASSUME i < k PROVE count(i) < count(k)
      BY <1>3, <2>1
    <3> QED BY <2>1, NamedGrows
  <2>3. ~(k < i)
    <3> SUFFICES ASSUME k < i PROVE count(k) < count(i)
      BY <1>3, <2>1
    <3> QED BY <2>1, NamedGrows
  <2> QED BY <2>1, <2>2, <2>3
<1> HIDE DEF all, count
<1>4. (CHOOSE i \in all : count(i) = count(k)) = k
  BY <1>3 DEF all
<1> QED BY <1>4 DEF all, count, Nth

Lesser(m, n) == IF m < n THEN m ELSE n

(* What is kept is a sequence, as long as it has to be.                    *)
Values(list) == {list[Nth(list, j)] : j \in Nat}

LEMMA KeptType ==
  ASSUME NEW S, NEW list \in Seq(S), NEW k
  PROVE  /\ Cardinality(NamedUpTo(list, k)) \in Nat /\ MaxEntries \in Nat
         /\ Kept(list, k) \in Seq(Values(list))
         /\ Len(Kept(list, k))
              = Lesser(Cardinality(NamedUpTo(list, k)), MaxEntries)
<1> DEFINE size == Lesser(Cardinality(NamedUpTo(list, k)), MaxEntries)
<1>1. Cardinality(NamedUpTo(list, k)) \in Nat /\ MaxEntries \in Nat
  BY NamedFinite, AllowlistAssumption
<1>2. size \in Nat
  BY <1>1 DEF Lesser
<1>3. Kept(list, k) = [j \in 1 .. size |-> list[Nth(list, j)]]
  BY DEF Kept, Lesser
<1>4. \A j \in 1 .. size : list[Nth(list, j)] \in Values(list)
  BY DEF Values
<1> HIDE DEF size
<1>5. Kept(list, k) \in Seq(Values(list)) /\ Len(Kept(list, k)) = size
  BY <1>2, <1>3, <1>4
<1> QED BY <1>1, <1>5 DEF size

(* One entry more.                                                         *)
LEMMA KeptNext ==
  ASSUME NEW S, NEW list \in Seq(S), NEW k \in Nat, k < Len(list),
         NEW kept \in Seq(S), kept = Kept(list, k)
  PROVE  Kept(list, k + 1) =
           IF list[k + 1] # EmptyName /\ Len(kept) < MaxEntries
           THEN Append(kept, list[k + 1]) ELSE kept
<1> DEFINE before == Cardinality(NamedUpTo(list, k))
           after  == Cardinality(NamedUpTo(list, k + 1))
<1>1. /\ before \in Nat /\ after \in Nat /\ MaxEntries \in Nat
      /\ Len(kept) = Lesser(before, MaxEntries)
      /\ k + 1 \in 1 .. Len(list)
  BY KeptType, NamedFinite
<1>2. /\ Kept(list, k) = [j \in 1 .. Lesser(before, MaxEntries) |-> list[Nth(list, j)]]
      /\ Kept(list, k + 1)
           = [j \in 1 .. Lesser(after, MaxEntries) |-> list[Nth(list, j)]]
  BY DEF Kept, Lesser
<1>3. CASE list[k + 1] = EmptyName
  <2>1. NamedUpTo(list, k + 1) = NamedUpTo(list, k)
    BY <1>1, <1>3 DEF NamedUpTo
  <2> QED BY <1>2, <1>3, <2>1
<1>4. CASE list[k + 1] # EmptyName
  <2>1. /\ NamedUpTo(list, k + 1) = NamedUpTo(list, k) \union {k + 1}
        /\ k + 1 \notin NamedUpTo(list, k)
    BY <1>1, <1>4 DEF NamedUpTo
  <2>2. after = before + 1
    BY <2>1, NamedFinite, FS_AddElement
  <2>3. Nth(list, before + 1) = k + 1
    <3>1. k + 1 \in NamedUpTo(list, Len(list))
      BY <1>1, <1>4 DEF NamedUpTo
    <3> QED BY <2>2, <3>1, NthIs
  <2> HIDE DEF before, after
  <2>4. CASE ~(Len(kept) < MaxEntries)
    <3>1. Lesser(before, MaxEntries) = MaxEntries /\ Lesser(after, MaxEntries) = MaxEntries
      BY <1>1, <2>2, <2>4 DEF Lesser
    <3> QED BY <1>2, <2>4, <3>1
  <2>5. CASE Len(kept) < MaxEntries
    <3>1. Lesser(before, MaxEntries) = before /\ Lesser(after, MaxEntries) = before + 1
          /\ Len(kept) = before
      BY <1>1, <2>2, <2>5 DEF Lesser
    <3> DEFINE new == Append(kept, list[k + 1])
    <3>2. DOMAIN new = 1 .. before + 1 /\ new[before + 1] = list[k + 1]
          /\ new = [j \in 1 .. before + 1 |-> new[j]]
      BY <3>1
    <3>3. ASSUME NEW j \in 1 .. before
          PROVE  new[j] = list[Nth(list, j)]
      <4>1. kept[j] = list[Nth(list, j)]
        BY <1>2, <3>1
      <4>2. j \in 1 .. Len(kept)
        BY <3>1
      <4> HIDE DEF before
      <4>3. list[k + 1] \in S
        BY <1>1
      <4>4. new[j] = kept[j]
        BY <4>2, <4>3
      <4> QED BY <4>1, <4>4
    <3> HIDE DEF new
    <3>4. ASSUME NEW j \in 1 .. before + 1
          PROVE  new[j] = list[Nth(list, j)]
      <4>1. j \in 1 .. before \/ j = before + 1
        BY <1>1
      <4> QED BY <2>3, <3>2, <3>3, <4>1
    <3>5. new = Kept(list, k + 1)
      BY <1>2, <3>1, <3>2, <3>4
    <3> QED BY <1>4, <2>5, <3>5 DEF new
  <2> QED BY <2>4, <2>5
<1> QED BY <1>3, <1>4

(* What is kept of a beginning is a beginning of what is kept of the list. *)
LEMMA KeptPrefix ==
  ASSUME NEW S, NEW list \in Seq(S), NEW k \in Nat, k <= Len(list)
  PROVE  IsPrefix(Kept(list, k), Expected(list))
<1> DEFINE kept == Kept(list, k)
           all  == Kept(list, Len(list))
<1>1. /\ kept \in Seq(Values(list)) /\ all \in Seq(Values(list))
      /\ Len(kept) = Lesser(Cardinality(NamedUpTo(list, k)), MaxEntries)
      /\ Len(all) = Lesser(Cardinality(NamedUpTo(list, Len(list))), MaxEntries)
      /\ MaxEntries \in Nat /\ Cardinality(NamedUpTo(list, k)) \in Nat
      /\ Cardinality(NamedUpTo(list, Len(list))) \in Nat
  BY KeptType
<1>2. Cardinality(NamedUpTo(list, k)) <= Cardinality(NamedUpTo(list, Len(list)))
  BY NamedGrows
<1>3. Len(kept) <= Len(all) /\ Len(kept) \in Nat /\ Len(all) \in Nat
  BY <1>1, <1>2 DEF Lesser
<1>4. \A j \in 1 .. Len(kept) : kept[j] = all[j]
  <2>1. /\ DOMAIN kept = 1 .. Len(kept) /\ DOMAIN all = 1 .. Len(all)
    BY <1>1
  <2>2. /\ \A j \in DOMAIN kept : kept[j] = list[Nth(list, j)]
        /\ \A j \in DOMAIN all : all[j] = list[Nth(list, j)]
    BY DEF Kept
  <2> QED BY <1>3, <2>1, <2>2
<1> HIDE DEF kept, all
<1>5. SubSeq(kept, 1, Len(kept)) = SubSeq(all, 1, Len(kept))
  BY <1>1, <1>3, <1>4
<1> QED BY <1>3, <1>5 DEF IsPrefix, Expected, kept, all
-----------------------------------------------------------------------------
(* Chunks: all of them cover the list, fewer do not.                       *)
LEMMA TimesNext ==
  ASSUME NEW i \in Nat, NEW m \in Nat
  PROVE  i * m \in Nat /\ (i + 1) * m = i * m + m
OBVIOUS

LEMMA TimesMonotonic ==
  ASSUME NEW i \in Nat, NEW k \in Nat, NEW m \in Nat, i <= k
  PROVE  i * m <= k * m
OBVIOUS

LEMMA ChunksCover ==
  ASSUME NEW n \in Nat, NEW m \in Nat \ {0},
         NEW total, total = (n + m - 1) \div m
  PROVE  /\ total \in Nat /\ total * m >= n
         /\ \A i \in Nat : i < total => i * m < n
<1>1. total \in Int /\ total * m <= n + m - 1 /\ n + m - 1 < total * m + m
  OBVIOUS
<1>2. total \in Nat
  BY <1>1
<1>3. total * m >= n
  BY <1>1, <1>2
<1>4. ASSUME NEW i \in Nat, i < total
      PROVE  i * m < n
  <2>1. i * m + m <= total * m
    BY <1>2, <1>4, TimesNext, TimesMonotonic
  <2> QED BY <1>1, <2>1
<1> QED BY <1>2, <1>3, <1>4

(* How far the message in hand reaches, and how much of it is handled.     *)
EndIdx ==
  IF Full \/ chunkIdx * MaxChunk + MaxChunk >= Len(entries) THEN Len(entries)
  ELSE chunkIdx * MaxChunk + MaxChunk
Handled == EndIdx - Len(pending)

(* Wherever a push is, the driver's list is what it keeps of the entries   *)
(* handled so far.                                                         *)
PushRight ==
  /\ push \in {"idle", "clear", "done", "failed"} => chunkIdx = 0
  /\ push \in {"send", "append", "reply"} =>
       IF Full THEN chunkIdx = 0 ELSE chunkIdx < TotalChunks
  /\ push = "clear" => dynamicAllowlist = replaced
  /\ push = "send" => dynamicAllowlist = Kept(entries, chunkIdx * MaxChunk)
  /\ push = "append" =>
       /\ Handled >= 0
       /\ \A i \in 1 .. Len(pending) : pending[i] = entries[Handled + i]
       /\ dynamicAllowlist = Kept(entries, Handled)
  /\ push = "reply" => dynamicAllowlist = Kept(entries, EndIdx)
  /\ push = "done" => dynamicAllowlist = Expected(entries)
  /\ push = "failed" =>
       \/ dynamicAllowlist = replaced
       \/ \E k \in 0 .. Len(entries) : dynamicAllowlist = Kept(entries, k)

(* Where the message in hand starts and ends.                              *)
LEMMA Bounds ==
  ASSUME AllowlistTypeOK
  PROVE  /\ Len(entries) \in Nat /\ MaxChunk \in Nat /\ MaxEntries \in Nat
         /\ chunkIdx \in Nat /\ chunkIdx * MaxChunk \in Nat
         /\ EndIdx \in 0 .. Len(entries) /\ Len(pending) \in Nat
         /\ ~Full => 0 < TotalChunks
         /\ (~Full /\ chunkIdx < TotalChunks) => chunkIdx * MaxChunk < Len(entries)
         /\ (~Full /\ chunkIdx + 1 = TotalChunks) => EndIdx = Len(entries)
         /\ (~Full /\ chunkIdx + 1 < TotalChunks) =>
              EndIdx = (chunkIdx + 1) * MaxChunk
<1>1. /\ Len(entries) \in Nat /\ Len(pending) \in Nat /\ chunkIdx \in Nat
      /\ MaxChunk \in Nat \ {0} /\ MaxEntries \in Nat
  BY EntriesType, AllowlistAssumption DEF AllowlistTypeOK
<1>2. /\ TotalChunks \in Nat /\ TotalChunks * MaxChunk >= Len(entries)
      /\ \A i \in Nat : i < TotalChunks => i * MaxChunk < Len(entries)
  BY <1>1, ChunksCover DEF TotalChunks
<1>3. /\ chunkIdx * MaxChunk \in Nat
      /\ (chunkIdx + 1) * MaxChunk = chunkIdx * MaxChunk + MaxChunk
  BY <1>1, TimesNext
<1>4. EndIdx \in 0 .. Len(entries)
  BY <1>1, <1>3 DEF EndIdx
<1>5. ~Full => 0 < TotalChunks
  <2> SUFFICES ASSUME TotalChunks = 0 PROVE Full
    BY <1>2
  <2>1. Len(entries) = 0
    BY <1>1, <1>2
  <2> QED BY <1>1, <2>1 DEF Full
<1>6. (~Full /\ chunkIdx + 1 = TotalChunks) => EndIdx = Len(entries)
  BY <1>2, <1>3 DEF EndIdx
<1>7. (~Full /\ chunkIdx + 1 < TotalChunks) => EndIdx = (chunkIdx + 1) * MaxChunk
  <2> SUFFICES ASSUME ~Full, chunkIdx + 1 < TotalChunks
               PROVE  EndIdx = (chunkIdx + 1) * MaxChunk
    OBVIOUS
  <2> DEFINE next == chunkIdx + 1
  <2>0. next \in Nat /\ next < TotalChunks
    BY <1>1
  <2> HIDE DEF next
  <2>1. next * MaxChunk < Len(entries)
    BY <1>2, <2>0
  <2> USE DEF next
  <2> QED BY <1>1, <1>3, <2>1 DEF EndIdx
<1> QED BY <1>1, <1>2, <1>3, <1>4, <1>5, <1>6, <1>7

LEMMA SendBound ==
  ASSUME AllowlistTypeOK, PushRight, push = "send"
  PROVE  chunkIdx * MaxChunk \in 0 .. Len(entries)
<1>1. CASE Full
  <2>1. chunkIdx = 0 /\ MaxChunk \in Nat /\ Len(entries) \in Nat
    BY <1>1, Bounds DEF PushRight
  <2> QED BY <2>1
<1>2. CASE ~Full
  BY <1>2, Bounds DEF PushRight
<1> QED BY <1>1, <1>2

LEMMA KeptNothing ==
  ASSUME NEW S, NEW list \in Seq(S)
  PROVE  Kept(list, 0) = <<>>
<1>1. NamedUpTo(list, 0) = {}
  BY DEF NamedUpTo
<1>2. Cardinality(NamedUpTo(list, 0)) = 0
  BY <1>1, FS_EmptySet
<1>3. Len(Kept(list, 0)) = 0 /\ Kept(list, 0) \in Seq(Values(list))
  BY <1>2, KeptType DEF Lesser
<1> QED BY <1>3

(* One entry handled.                                                      *)
LEMMA EntryHandled ==
  ASSUME AllowlistTypeOK, PushRight, AddDynamicAllowlistEntry
  PROVE  PushRight'
<1> DEFINE S == Names \union {EmptyName}
<1>1. /\ entries \in Seq(S) /\ pending \in Seq(S) /\ dynamicAllowlist \in Seq(S)
      /\ EndIdx \in 0 .. Len(entries) /\ Len(entries) \in Nat
  BY EntriesType, Bounds, SeqMonotonic DEF AllowlistTypeOK
<1>2. /\ push = "append" /\ pending # <<>> /\ push' = push
      /\ pending' = Tail(pending) /\ entries' = entries /\ chunkIdx' = chunkIdx
      /\ Handled >= 0 /\ dynamicAllowlist = Kept(entries, Handled)
      /\ \A i \in 1 .. Len(pending) : pending[i] = entries[Handled + i]
  BY DEF AddDynamicAllowlistEntry, PushRight
<1>3. /\ Len(pending) \in Nat \ {0} /\ Len(pending') = Len(pending) - 1
      /\ \A i \in 1 .. Len(pending') : pending'[i] = pending[i + 1]
      /\ Head(pending) = pending[1]
  BY <1>1, <1>2
<1>4. /\ Handled \in Nat /\ Handled < Len(entries)
      /\ EndIdx' = EndIdx /\ Handled' = Handled + 1
  BY <1>1, <1>2, <1>3 DEF Handled, EndIdx, Full
<1>5. Head(pending) = entries[Handled + 1]
  BY <1>2, <1>3
<1>6. dynamicAllowlist' = Kept(entries, Handled + 1)
  <2>1. dynamicAllowlist' =
          IF entries[Handled + 1] # EmptyName /\ Len(dynamicAllowlist) < MaxEntries
          THEN Append(dynamicAllowlist, entries[Handled + 1]) ELSE dynamicAllowlist
    BY <1>5 DEF AddDynamicAllowlistEntry
  <2> QED BY <1>1, <1>2, <1>4, <2>1, KeptNext
<1>7. ASSUME NEW i \in 1 .. Len(pending')
      PROVE  pending'[i] = entries[Handled' + i]
  <2>1. i + 1 \in 1 .. Len(pending) /\ Handled' + i = Handled + (i + 1)
    BY <1>3, <1>4
  <2> QED BY <1>2, <1>3, <2>1
<1>8. Full' = Full /\ TotalChunks' = TotalChunks
  BY <1>2 DEF Full, TotalChunks
<1> QED BY <1>2, <1>4, <1>6, <1>7, <1>8 DEF PushRight

(* A message arrives: what it holds is what comes next in the list.        *)
LEMMA MessageArrives ==
  ASSUME AllowlistTypeOK, PushRight, UpdateAllowlistFull \/ UpdateAllowlistChunk
  PROVE  PushRight'
<1> DEFINE S == Names \union {EmptyName}
           start == chunkIdx * MaxChunk
<1>1. /\ entries \in Seq(S) /\ Len(entries) \in Nat /\ start \in Nat
      /\ EndIdx \in 0 .. Len(entries) /\ MaxChunk \in Nat
      /\ (~Full => start < Len(entries))
  BY EntriesType, Bounds DEF PushRight, UpdateAllowlistFull, UpdateAllowlistChunk
<1>2. /\ push = "send" /\ push' = "append" /\ entries' = entries
      /\ chunkIdx' = chunkIdx /\ dynamicAllowlist' = dynamicAllowlist
      /\ dynamicAllowlist = Kept(entries, start)
      /\ IF Full THEN chunkIdx = 0 ELSE chunkIdx < TotalChunks
  BY DEF PushRight, UpdateAllowlistFull, UpdateAllowlistChunk
<1>3. Full' = Full /\ TotalChunks' = TotalChunks /\ EndIdx' = EndIdx
  BY <1>2 DEF Full, TotalChunks, EndIdx
<1>4. /\ start <= EndIdx /\ Len(pending') = EndIdx - start
      /\ \A i \in 1 .. Len(pending') : pending'[i] = entries[start + i]
  <2>1. CASE Full
    <3>1. start = 0 /\ EndIdx = Len(entries) /\ pending' = entries
      BY <1>1, <1>2, <2>1 DEF UpdateAllowlistFull, UpdateAllowlistChunk, EndIdx
    <3> QED BY <1>1, <3>1
  <2>2. CASE ~Full
    <3>1. pending' = SubSeq(entries, start + 1, EndIdx) /\ start < EndIdx
      <4>1. pending' = Chunk
        BY <2>2 DEF UpdateAllowlistFull, UpdateAllowlistChunk
      <4>2. EndIdx = IF start + MaxChunk < Len(entries) THEN start + MaxChunk
                     ELSE Len(entries)
        BY <1>1, <2>2 DEF EndIdx
      <4>3. start < EndIdx
        BY <1>1, <2>2, <4>2, AllowlistAssumption
      <4> QED BY <4>1, <4>2, <4>3 DEF Chunk
    <3> HIDE DEF start
    <3>2. \A i \in start + 1 .. EndIdx : entries[i] \in S
      BY <1>1
    <3>3. /\ Len(pending') = EndIdx - (start + 1) + 1
          /\ \A i \in 1 .. EndIdx - (start + 1) + 1 : pending'[i] = entries[start + 1 + i - 1]
      BY <1>1, <3>1, <3>2, SubSeqProperties
    <3>4. EndIdx - (start + 1) + 1 = EndIdx - start
      BY <1>1
    <3>5. ASSUME NEW i \in 1 .. EndIdx - start
          PROVE  start + 1 + i - 1 = start + i
      BY <1>1
    <3> QED BY <1>1, <3>1, <3>3, <3>4, <3>5
  <2> QED BY <2>1, <2>2
<1>5. Handled' = start
  BY <1>1, <1>3, <1>4 DEF Handled
<1> QED BY <1>1, <1>2, <1>3, <1>4, <1>5 DEF PushRight

(* The client hears of it, and goes on with the next chunk or is done.     *)
LEMMA ReplyArrives ==
  ASSUME AllowlistTypeOK, PushRight, ReplyReceived
  PROVE  PushRight'
<1>1. /\ push = "reply" /\ entries' = entries /\ replaced' = replaced
      /\ dynamicAllowlist' = dynamicAllowlist /\ dynamicAllowlist = Kept(entries, EndIdx)
      /\ IF Full THEN chunkIdx = 0 ELSE chunkIdx < TotalChunks
  BY DEF PushRight, ReplyReceived
<1>2. CASE Full \/ chunkIdx + 1 = TotalChunks
  <2>1. EndIdx = Len(entries)
    <3>1. CASE Full
      BY <3>1 DEF EndIdx
    <3>2. CASE ~Full
      BY <1>2, <3>2, Bounds
    <3> QED BY <3>1, <3>2
  <2>2. push' = "done" /\ chunkIdx' = 0
    BY <1>2 DEF ReplyReceived
  <2> QED BY <1>1, <2>1, <2>2 DEF PushRight, Expected
<1>3. CASE ~(Full \/ chunkIdx + 1 = TotalChunks)
  <2>1. TotalChunks \in Int /\ chunkIdx \in Nat
    BY Bounds, AllowlistAssumption DEF TotalChunks
  <2>2. chunkIdx + 1 < TotalChunks
    BY <1>1, <1>3, <2>1
  <2>3. EndIdx = (chunkIdx + 1) * MaxChunk
    BY <1>3, <2>2, Bounds
  <2>4. push' = "send" /\ chunkIdx' = chunkIdx + 1
    BY <1>3 DEF ReplyReceived
  <2>5. Full' = Full /\ TotalChunks' = TotalChunks
    BY <1>1 DEF Full, TotalChunks
  <2> QED BY <1>1, <1>3, <2>2, <2>3, <2>4, <2>5 DEF PushRight
<1> QED BY <1>2, <1>3

LEMMA PushStepRight ==
  ASSUME AllowlistTypeOK, PushRight, Deliver \/ PushStep
  PROVE  PushRight'
<1>1. CASE ClearDynamicAllowlist
  <2>1. /\ push = "clear" /\ push' = "send" /\ dynamicAllowlist' = <<>>
        /\ entries' = entries /\ chunkIdx' = chunkIdx /\ chunkIdx = 0
    BY <1>1 DEF ClearDynamicAllowlist, PushRight
  <2>2. Kept(entries, 0) = <<>> /\ 0 * MaxChunk = 0
    BY EntriesType, KeptNothing, AllowlistAssumption
  <2>3. ~Full => 0 < TotalChunks
    BY Bounds
  <2>4. Full' = Full /\ TotalChunks' = TotalChunks
    BY <2>1 DEF Full, TotalChunks
  <2> QED BY <2>1, <2>2, <2>3, <2>4 DEF PushRight
<1>2. CASE \E list \in Lists : PushAllowlist(list)
  BY <1>2 DEF PushAllowlist, PushRight
<1>3. CASE SendRequestFails
  <2>1. /\ push' = "failed" /\ chunkIdx' = 0
        /\ dynamicAllowlist' = dynamicAllowlist /\ entries' = entries
        /\ replaced' = replaced
    BY <1>3 DEF SendRequestFails
  <2>2. \/ dynamicAllowlist = replaced
        \/ \E k \in 0 .. Len(entries) : dynamicAllowlist = Kept(entries, k)
    <3>1. CASE push = "clear"
      BY <3>1 DEF PushRight
    <3>2. CASE push = "reply"
      BY <3>2, Bounds DEF PushRight
    <3>3. CASE push = "send"
      <4>1. chunkIdx * MaxChunk \in 0 .. Len(entries)
        BY <3>3, SendBound
      <4> QED BY <3>3, <4>1 DEF PushRight
    <3> QED BY <1>3, <3>1, <3>2, <3>3 DEF SendRequestFails
  <2> QED BY <2>1, <2>2 DEF PushRight
<1>4. CASE HandlerReturns
  <2>1. /\ push = "append" /\ pending = <<>> /\ push' = "reply"
        /\ entries' = entries /\ chunkIdx' = chunkIdx
        /\ dynamicAllowlist' = dynamicAllowlist
    BY <1>4 DEF HandlerReturns
  <2>2. Handled = EndIdx
    BY <2>1, Bounds DEF Handled
  <2>3. Full' = Full /\ TotalChunks' = TotalChunks /\ EndIdx' = EndIdx
    BY <2>1 DEF Full, TotalChunks, EndIdx
  <2> QED BY <2>1, <2>2, <2>3 DEF PushRight
<1>5. CASE AddDynamicAllowlistEntry
  BY <1>5, EntryHandled
<1>6. CASE ReplyReceived
  BY <1>6, ReplyArrives
<1>7. CASE UpdateAllowlistFull \/ UpdateAllowlistChunk
  BY <1>7, MessageArrives
<1> QED BY <1>1, <1>2, <1>3, <1>4, <1>5, <1>6, <1>7 DEF Deliver, PushStep

-----------------------------------------------------------------------------
LEMMA LifecycleStep ==
  ASSUME IInv, Lifecycle
  PROVE  IInv'
<1> USE DEF IInv, DriverInv, CallInv, trackerVars, callVars
<1>1. AllowlistTypeOK' /\ TrackedRight'
  <2>1. CASE UnregisterFilter
    BY <2>1, ResetType DEF UnregisterFilter, TrackedRight
  <2>2. CASE ~UnregisterFilter
    BY <2>2 DEF Lifecycle, RegisterFilter, InitializeContextTracking,
       InitializeCommPort, StartFiltering, Unload, DestroyCommPort, CloseServerPort,
       DestroyContextTracking, AllowlistTypeOK, TrackedRight, allowlistVars, pushVars
  <2> QED BY <2>1, <2>2
<1>2. UNCHANGED callVars
  BY DEF Lifecycle, RegisterFilter, InitializeContextTracking,
     InitializeCommPort, StartFiltering, Unload, DestroyCommPort, CloseServerPort,
     DestroyContextTracking, UnregisterFilter
<1>3. CallsRight'
  BY <1>2 DEF CallsRight, NamesFreed, Idle
<1>4. BuiltRight'
  <2>1. CASE RegisterFilter \/ InitializeContextTracking
    BY <2>1 DEF RegisterFilter, InitializeContextTracking, BuiltRight, Stages
  <2>2. CASE InitializeCommPort \/ StartFiltering
    BY <2>2 DEF InitializeCommPort, StartFiltering, BuiltRight, Stages
  <2>3. CASE Unload \/ DestroyCommPort \/ CloseServerPort
    BY <2>3 DEF Unload, DestroyCommPort, CloseServerPort, BuiltRight, Stages
  <2>4. CASE DestroyContextTracking \/ UnregisterFilter
    BY <2>4 DEF DestroyContextTracking, UnregisterFilter, BuiltRight, Stages
  <2> QED BY <2>1, <2>2, <2>3, <2>4 DEF Lifecycle
<1>5. Used'
  <2>1. CASE RegisterFilter
    BY <1>2, <2>1 DEF RegisterFilter, Used, BuiltRight, Idle, allowlistVars, pushVars
  <2>2. CASE InitializeContextTracking \/ InitializeCommPort \/ StartFiltering
    BY <1>2, <2>2 DEF InitializeContextTracking, InitializeCommPort, StartFiltering,
       Used, Idle, connection, allowlistVars, pushVars
  <2>3. CASE Unload
    BY <1>2, <2>3 DEF Unload, Used, Idle, Busy, connection, allowlistVars, pushVars
  <2>4. CASE DestroyCommPort
    BY <1>2, <2>4 DEF DestroyCommPort, Used, Idle, allowlistVars, pushVars
  <2>5. CASE CloseServerPort \/ DestroyContextTracking
    <3>1. \A t \in Threads : Idle(t)
      BY <2>5 DEF CloseServerPort, DestroyContextTracking, Used, BuiltRight
    <3>2. CASE CloseServerPort
      BY <1>2, <3>1, <3>2 DEF CloseServerPort, Used, BuiltRight, Idle, connection,
         allowlistVars, pushVars
    <3>3. CASE DestroyContextTracking
      BY <1>2, <3>1, <3>3 DEF DestroyContextTracking, Used, BuiltRight, Idle,
         connection, allowlistVars, pushVars
    <3> QED BY <2>5, <3>2, <3>3
  <2>6. CASE UnregisterFilter
    <3>1. /\ stage = "unregister" /\ stage' = "unloaded" /\ built = {"filter"}
          /\ connected' \in {FALSE, connected} /\ late' = (late /\ connected')
          /\ push' # "append" /\ UNCHANGED tracked
      BY <2>6 DEF UnregisterFilter, AllowlistReset, BuiltRight
    <3>2. connected' \in BOOLEAN /\ late' \in BOOLEAN /\ (late' => connected')
      BY <3>1 DEF Used
    <3>3. connected' => late'
      BY <3>1 DEF Used
    <3>4. tracked' = {} /\ \A t \in Threads : Idle(t)
      BY <3>1 DEF Used
    <3> QED BY <1>2, <3>1, <3>2, <3>3, <3>4 DEF Used, Idle
  <2> QED BY <2>1, <2>2, <2>3, <2>4, <2>5, <2>6 DEF Lifecycle
<1>6. NoticedUnlisted'
  <2>1. CASE UnregisterFilter
    <3>1. \A t \in Threads : Idle(t)
      BY <2>1 DEF UnregisterFilter, Used, BuiltRight
    <3> QED BY <1>2, <3>1 DEF NoticedUnlisted, Idle
  <2>2. CASE ~UnregisterFilter
    BY <1>2, <2>2 DEF Lifecycle, RegisterFilter, InitializeContextTracking,
       InitializeCommPort, StartFiltering, Unload, DestroyCommPort, CloseServerPort,
       DestroyContextTracking, NoticedUnlisted, allowlistVars
  <2> QED BY <2>1, <2>2
<1> QED BY <1>1, <1>3, <1>4, <1>5, <1>6

LEMMA ClientStep ==
  ASSUME IInv, Connect \/ Disconnect \/ Push \/ \E p \in Pids : UnblockProcess(p)
  PROVE  IInv'
<1> USE DEF IInv, DriverInv, CallInv, trackerVars, callVars, driverVars, connection
<1>1. CASE Connect \/ Disconnect
  <2>1. UNCHANGED <<stage, built, callVars, trackerVars, allowlistVars>>
    BY <1>1 DEF Connect, Disconnect
  <2>2. AllowlistTypeOK' /\ TrackedRight' /\ CallsRight' /\ BuiltRight'
        /\ NoticedUnlisted'
    BY <2>1 DEF AllowlistTypeOK, TrackedRight, CallsRight, NamesFreed, Idle,
       BuiltRight, NoticedUnlisted, allowlistVars, pushVars
  <2>3. Used'
    <3>1. CASE Connect
      <4>1. /\ connected' = TRUE /\ late' = (stage = "closeServer")
            /\ ~connected /\ ~late
            /\ stage \in {"port", "filtering", "destroyPort", "closeServer"}
        BY <3>1 DEF Connect, BuiltRight, Stages, Used
      <4> QED BY <2>1, <4>1 DEF Used, Idle, allowlistVars, pushVars
    <3>2. CASE Disconnect
      BY <2>1, <3>2 DEF Disconnect, Used, Idle, allowlistVars, pushVars
    <3> QED BY <1>1, <3>1, <3>2
  <2> QED BY <2>2, <2>3
<1>2. CASE Push
  <2>1. UNCHANGED <<driverVars, pc, pid, operation, name, imageNames, trackerVars>>
    BY <1>2 DEF Push
  <2>2. AllowlistTypeOK'
    BY <1>2, PushType DEF Push
  <2>3. unlisted' = [t \in Threads |->
                       unlisted[t] \/ ~Listed(name[t], dynamicAllowlist')]
    BY <1>2 DEF Push
  <2>4. NoticedUnlisted'
    BY <2>1, <2>3 DEF NoticedUnlisted, Listed
  <2>5. unlisted' \in [Threads -> BOOLEAN]
    BY <2>3 DEF CallsRight
  <2>6. CallsRight'
    BY <2>1, <2>5 DEF CallsRight, NamesFreed, Idle
  <2>7. push' = "append" => connected /\ "filter" \in built
    BY <1>2 DEF Push, PushStep, Deliver, Used, ClearDynamicAllowlist, PushAllowlist,
       SendRequestFails, AddDynamicAllowlistEntry, HandlerReturns, ReplyReceived
  <2>8. Used' /\ BuiltRight' /\ TrackedRight'
    BY <2>1, <2>7 DEF Used, BuiltRight, TrackedRight, Idle
  <2> QED BY <2>2, <2>4, <2>6, <2>8
<1>3. ASSUME NEW p \in Pids, UnblockProcess(p) PROVE IInv'
  <2>1. /\ UNCHANGED <<driverVars, callVars, allowlistVars>>
        /\ tracked' = tracked \ {p} /\ blocked' = blocked \ {p}
    BY <1>3 DEF UnblockProcess
  <2> QED BY <2>1 DEF AllowlistTypeOK, TrackedRight, CallsRight,
     NamesFreed, Idle, BuiltRight, Used, NoticedUnlisted, allowlistVars, pushVars
<1> QED BY <1>1, <1>2, <1>3

(* A call that returns or goes on: what it leaves behind.                  *)
LEMMA ReturnLeaves ==
  ASSUME CallsRight, NoticedUnlisted, NEW t \in Threads, NEW how \in {"passed", "denied"},
         Return(t, how), imageNames' = imageNames \ {t}, UNCHANGED dynamicAllowlist
  PROVE  /\ CallsRight' /\ NoticedUnlisted'
         /\ \A u \in Threads : ~Idle(u)' => ~Idle(u)
<1>1. CallsRight'
  <2>1. NamesFreed'
    BY DEF Return, CallsRight, NamesFreed, Labels
  <2> QED BY <2>1 DEF Return, CallsRight, Labels, Idle
<1>2. NoticedUnlisted'
  BY DEF Return, CallsRight, NoticedUnlisted, Labels
<1> QED BY <1>1, <1>2 DEF Return, CallsRight, Idle

LEMMA FileOperationStep ==
  ASSUME IInv, NEW t \in Threads, FileOperation(t)
  PROVE  IInv'
<1> USE DEF IInv, DriverInv, CallInv, driverVars, connection
<1>0. UNCHANGED <<driverVars, allowlistVars>>
  BY DEF FileOperation, PassUnmonitored, LocateImageName, IsProcessAllowlisted,
     RecordOperation, PostOperation
<1>1. AllowlistTypeOK' /\ BuiltRight' /\ dynamicAllowlist' = dynamicAllowlist
  BY <1>0 DEF AllowlistTypeOK, BuiltRight, allowlistVars, pushVars
<1>2. ASSUME CallsRight', NoticedUnlisted', TrackedRight',
             tracked' # {} => "tracking" \in built,
             \A u \in Threads : ~Idle(u)' => "filtering" \in built
      PROVE  IInv'
  <2>1. Used'
    BY <1>0, <1>2 DEF Used, allowlistVars, pushVars
  <2> QED BY <1>1, <1>2, <2>1
<1>3. CASE \E p \in Pids, op \in Operations : PassUnmonitored(t, p, op)
  <2>1. /\ "filtering" \in built /\ Idle(t) /\ Return(t, "passed")
        /\ UNCHANGED <<imageNames, trackerVars>>
    BY <1>3 DEF PassUnmonitored
  <2>2. imageNames' = imageNames \ {t}
    BY <2>1 DEF CallsRight, NamesFreed, Idle
  <2>3. CallsRight' /\ NoticedUnlisted' /\ \A u \in Threads : ~Idle(u)' => ~Idle(u)
    BY <1>1, <2>1, <2>2, ReturnLeaves
  <2> QED BY <1>0, <1>2, <2>1, <2>3 DEF TrackedRight, Used, trackerVars
<1>4. ASSUME NEW p \in Pids, NEW op \in Operations, LocateImageName(t, p, op)
      PROVE  IInv'
  <2>1. /\ "filtering" \in built /\ Idle(t) /\ op \in Monitored
        /\ p \in Pids \ SystemPids /\ UNCHANGED trackerVars
    BY <1>4 DEF LocateImageName, Ignored, Operations
  <2>2. Image[p] \in Names \union StaticNames /\ Image[p] # NoName
    BY FilterAssumption
  <2>3. CallsRight'
    <3>1. CASE pc' = [pc EXCEPT ![t] = "check"]
      <4>1. /\ name' = [name EXCEPT ![t] = Image[p]]
            /\ imageNames' = imageNames \union {t}
            /\ unlisted' = [unlisted EXCEPT ![t] = ~Listed(Image[p], dynamicAllowlist)]
            /\ pid' = [pid EXCEPT ![t] = p] /\ operation' = [operation EXCEPT ![t] = op]
        BY <1>4, <3>1 DEF LocateImageName, CallsRight
      <4>2. NamesFreed'
        BY <2>2, <3>1, <4>1 DEF CallsRight, NamesFreed
      <4>3. unlisted' \in [Threads -> BOOLEAN]
        BY <4>1 DEF CallsRight, Listed
      <4> QED BY <2>1, <2>2, <3>1, <4>1, <4>2, <4>3 DEF CallsRight, Labels, Idle
    <3>2. CASE pc' = [pc EXCEPT ![t] = "record"]
      <4>1. /\ UNCHANGED <<name, imageNames, unlisted>>
            /\ pid' = [pid EXCEPT ![t] = p] /\ operation' = [operation EXCEPT ![t] = op]
        BY <1>4, <3>2 DEF LocateImageName, CallsRight
      <4>2. NamesFreed'
        BY <2>1, <3>2, <4>1 DEF CallsRight, NamesFreed, Idle
      <4> QED BY <2>1, <3>2, <4>1, <4>2 DEF CallsRight, Labels, Idle
    <3> QED BY <1>4, <3>1, <3>2 DEF LocateImageName
  <2>4. NoticedUnlisted'
    <3>1. unlisted[t]
      BY <2>1 DEF NoticedUnlisted, Idle
    <3> QED BY <1>1, <1>4, <2>1, <3>1
            DEF LocateImageName, NoticedUnlisted, CallsRight, Listed
  <2> QED BY <1>0, <1>2, <2>1, <2>3, <2>4 DEF TrackedRight, Used, trackerVars
<1>5. CASE IsProcessAllowlisted(t)
  <2>1. /\ pc[t] = "check" /\ UNCHANGED trackerVars /\ "filtering" \in built
    BY <1>5 DEF IsProcessAllowlisted, Used, Idle
  <2>2. CallsRight' /\ NoticedUnlisted'
    <3>1. CASE imageNames' = imageNames \ {t} /\ Return(t, "passed")
      BY <1>1, <3>1, ReturnLeaves
    <3>2. CASE /\ ~Listed(name[t], dynamicAllowlist)
               /\ Goto(t, "record") /\ UNCHANGED imageNames
      <4>1. NamesFreed'
        BY <2>1, <3>2 DEF Goto, CallsRight, NamesFreed
      <4>2. unlisted[t]
        BY <3>2 DEF NoticedUnlisted
      <4>3. NoticedUnlisted'
        BY <1>1, <3>2, <4>2 DEF Goto, NoticedUnlisted, CallsRight
      <4> QED BY <2>1, <3>2, <4>1, <4>3 DEF Goto, CallsRight, Labels, Idle
    <3> QED BY <1>5, <3>1, <3>2 DEF IsProcessAllowlisted
  <2> QED BY <1>0, <1>2, <2>1, <2>2 DEF TrackedRight, Used, trackerVars
<1>6. CASE RecordOperation(t)
  <2>1. /\ pc[t] = "record" /\ imageNames' = imageNames \ {t} /\ "filtering" \in built
        /\ pid[t] \in Pids \ SystemPids
    BY <1>6 DEF RecordOperation, Used, Idle, CallsRight
  <2>2. TrackedRight' /\ "tracking" \in built
    BY <1>6, <2>1 DEF RecordOperation, TrackedRight, BuiltRight, Stages, Allow, trackerVars
  <2>3. CallsRight' /\ NoticedUnlisted'
    <3>1. CASE Return(t, "passed") \/ Return(t, "denied")
      BY <1>1, <2>1, <3>1, ReturnLeaves
    <3>2. CASE Goto(t, "post")
      <4>1. NamesFreed'
        BY <2>1, <3>2 DEF Goto, CallsRight, NamesFreed
      <4>2. unlisted[t]
        BY <2>1 DEF NoticedUnlisted
      <4>3. NoticedUnlisted'
        BY <1>1, <3>2, <4>2 DEF Goto, NoticedUnlisted, CallsRight
      <4> QED BY <2>1, <3>2, <4>1, <4>3 DEF Goto, CallsRight, Labels, Idle
    <3> QED BY <1>6, <3>1, <3>2 DEF RecordOperation, Allow
  <2> QED BY <1>0, <1>2, <2>1, <2>2, <2>3
<1>7. CASE PostOperation(t)
  <2>1. /\ pc[t] = "post" /\ Return(t, "passed") /\ "filtering" \in built
        /\ UNCHANGED <<imageNames, trackerVars>>
    BY <1>7 DEF PostOperation, Used, Idle
  <2>2. imageNames' = imageNames \ {t}
    BY <2>1 DEF CallsRight, NamesFreed
  <2>3. CallsRight' /\ NoticedUnlisted'
    BY <1>1, <2>1, <2>2, ReturnLeaves
  <2> QED BY <1>0, <1>2, <2>1, <2>3 DEF TrackedRight, Used, trackerVars
<1> QED BY <1>3, <1>4, <1>5, <1>6, <1>7 DEF FileOperation
-----------------------------------------------------------------------------
LEMMA IInvHolds == Spec => []IInv
<1>1. Init => IInv
  BY InvInit
<1>2. IInv /\ [Next]_vars => IInv'
  <2> SUFFICES ASSUME IInv, [Next]_vars PROVE IInv'
    OBVIOUS
  <2>1. CASE UNCHANGED vars
    BY <2>1 DEF vars, driverVars, connection, callVars, trackerVars, allowlistVars, pushVars,
       IInv, DriverInv, CallInv, AllowlistTypeOK, BuiltRight, Used, CallsRight,
       NamesFreed, NoticedUnlisted, TrackedRight, Idle
  <2>2. CASE Next
    BY <2>2, LifecycleStep, ClientStep, FileOperationStep DEF Next
  <2> QED BY <2>1, <2>2
<1> QED BY <1>1, <1>2, PTL DEF Spec

(* Every variable keeps its type, and the processes of the system are      *)
(* never tracked.                                                          *)
THEOREM TypeCorrect == Spec => []TypeOK
<1>1. IInv => TypeOK
  <2> SUFFICES ASSUME IInv PROVE TypeOK
    OBVIOUS
  <2>1. stage \in Stages /\ built \subseteq {"filter", "tracking", "port", "filtering"}
    BY DEF IInv, DriverInv, BuiltRight, Stages
  <2>2. /\ AllowlistTypeOK /\ CallsRight /\ TrackedRight
        /\ connected \in BOOLEAN /\ late \in BOOLEAN
    BY DEF IInv, DriverInv, CallInv, Used
  <2> QED BY <2>1, <2>2 DEF Stages, CallsRight, Labels, TrackedRight, TypeOK
<1> QED BY <1>1, IInvHolds, PTL

(* No way out of a callback leaks the image name or frees it twice.        *)
THEOREM NamesAlwaysFreed == Spec => []NamesFreed
<1>1. IInv => NamesFreed
  BY DEF IInv, CallInv, CallsRight
<1> QED BY <1>1, IInvHolds, PTL

(* Callbacks never reach a subsystem that is not there, nor does a client, *)
(* unless it connected between the two closes of RsDestroyCommPort, and    *)
(* even such a client has no message in the driver once the filter is gone.*)
THEOREM SubsystemsAlwaysReady == Spec => []SubsystemsReady
<1>1. IInv => SubsystemsReady
  BY DEF IInv, DriverInv, BuiltRight, Stages, Used, Busy, SubsystemsReady
<1> QED BY <1>1, IInvHolds, PTL

(* A driver that failed to load or was unloaded leaves no memory, no       *)
(* subsystem and no handler at work behind, and no connection but one made *)
(* between the two closes of RsDestroyCommPort.                            *)
THEOREM NothingEverLeft == Spec => []NothingLeft
<1>1. IInv => NothingLeft
  BY DEF IInv, DriverInv, CallInv, BuiltRight, Used, CallsRight, NamesFreed, Idle,
         NothingLeft
<1> QED BY <1>1, IInvHolds, PTL

(* The allowlist is honoured, however the client replaces it meanwhile.    *)
THEOREM AllowlistAlwaysHonoured == Spec => AllowlistHonoured
<1>1. ASSUME IInv, [Next]_vars, NEW t \in Threads, pc[t] # "denied", pc'[t] = "denied"
      PROVE  unlisted[t]
  <2>1. pc[t] # "check" \/ pc' = pc \/ \E u \in Threads : FileOperation(u)
    BY <1>1 DEF Next, vars, callVars, Lifecycle, RegisterFilter, InitializeContextTracking,
       InitializeCommPort, StartFiltering, Unload, DestroyCommPort, CloseServerPort,
       DestroyContextTracking, UnregisterFilter, Connect, Disconnect, Push, UnblockProcess
  <2>2. ASSUME pc[t] = "check", NEW u \in Threads, FileOperation(u) PROVE FALSE
    <3>1. u = t
      BY <1>1, <2>2 DEF FileOperation, PassUnmonitored, LocateImageName,
         IsProcessAllowlisted, RecordOperation, PostOperation, Return, Goto, Allow,
         IInv, CallInv, CallsRight
    <3>2. IsProcessAllowlisted(t)
      BY <2>2, <3>1 DEF FileOperation, PassUnmonitored, LocateImageName,
         RecordOperation, PostOperation, Idle
    <3> QED BY <1>1, <3>2 DEF IsProcessAllowlisted, Return, Goto, IInv, CallInv, CallsRight
  <2> QED BY <1>1, <2>1, <2>2 DEF IInv, CallInv, NoticedUnlisted
<1>2. IInv /\ [Next]_vars =>
        [\A t \in Threads : pc[t] # "denied" /\ pc'[t] = "denied" => unlisted[t]]_vars
  BY <1>1
<1> QED BY <1>2, IInvHolds, PTL DEF Spec, AllowlistHonoured

-----------------------------------------------------------------------------
LEMMA PushHolds == Spec => [](AllowlistTypeOK /\ PushRight)
<1>1. Init => AllowlistTypeOK /\ PushRight
  BY InvInit DEF Init, AllowlistInit, PushRight, IInv
<1>2. IInv /\ PushRight /\ [Next]_vars => PushRight'
  <2> SUFFICES ASSUME IInv, PushRight, [Next]_vars PROVE PushRight'
    OBVIOUS
  <2>1. CASE UNCHANGED allowlistVars
    BY <2>1 DEF allowlistVars, pushVars, PushRight, Handled, EndIdx, Full, TotalChunks
  <2>2. CASE Deliver \/ PushStep
    BY <2>2, PushStepRight DEF IInv
  <2>3. CASE AllowlistReset
    <3>1. push' \in {"idle", "failed"}
      BY <2>3 DEF AllowlistReset
    <3>2. /\ dynamicAllowlist' = <<>> /\ entries' = <<>>
          /\ chunkIdx' = 0 /\ replaced' = <<>>
      BY <2>3 DEF AllowlistReset
    <3> QED BY <3>1, <3>2 DEF PushRight
  <2>4. \/ UNCHANGED allowlistVars \/ Deliver \/ PushStep \/ AllowlistReset
    BY DEF Next, vars, Lifecycle, RegisterFilter, InitializeContextTracking,
       InitializeCommPort, StartFiltering, Unload, DestroyCommPort, CloseServerPort,
       DestroyContextTracking, UnregisterFilter, Connect, Disconnect, Push,
       UnblockProcess, FileOperation, PassUnmonitored, LocateImageName,
       IsProcessAllowlisted, RecordOperation, PostOperation
  <2> QED BY <2>1, <2>2, <2>3, <2>4
<1>3. IInv => AllowlistTypeOK
  BY DEF IInv
<1> QED BY <1>1, <1>2, <1>3, IInvHolds, PTL DEF Spec

(* A push that reports success has installed what the driver keeps of its  *)
(* list, in one message or in chunks of any size.                          *)
THEOREM PushAlwaysInstallsList == Spec => []PushInstallsList
<1>1. PushRight => PushInstallsList
  BY DEF PushRight, PushInstallsList
<1> QED BY <1>1, PushHolds, PTL

(* However a push ends, what it leaves is no mixture of two lists.         *)
THEOREM NeverMixedList == Spec => []NoMixedList
<1>1. AllowlistTypeOK /\ PushRight => NoMixedList
  <2> SUFFICES ASSUME AllowlistTypeOK, PushRight, push # "idle",
                      ~(dynamicAllowlist = replaced /\ push \in {"clear", "failed"})
               PROVE  IsPrefix(dynamicAllowlist, Expected(entries))
    BY DEF NoMixedList
  <2>1. \E k \in 0 .. Len(entries) : dynamicAllowlist = Kept(entries, k)
    <3>1. CASE push = "send"
      <4>1. chunkIdx * MaxChunk \in 0 .. Len(entries)
        BY <3>1, SendBound
      <4> QED BY <3>1, <4>1 DEF PushRight
    <3>2. CASE push = "append"
      <4>1. /\ EndIdx \in 0 .. Len(entries) /\ Len(entries) \in Nat
            /\ Len(pending) \in Nat /\ Handled = EndIdx - Len(pending)
        BY Bounds DEF Handled
      <4>2. Handled >= 0 /\ dynamicAllowlist = Kept(entries, Handled)
        BY <3>2 DEF PushRight
      <4>3. Handled \in 0 .. Len(entries)
        BY <4>1, <4>2
      <4> QED BY <4>2, <4>3
    <3>3. CASE push \in {"reply", "done"}
      <4>1. EndIdx \in 0 .. Len(entries) /\ Len(entries) \in 0 .. Len(entries)
        BY Bounds
      <4> QED BY <3>3, <4>1 DEF PushRight, Expected
    <3>4. CASE push \in {"clear", "failed"}
      BY <3>4 DEF PushRight
    <3> QED BY <3>1, <3>2, <3>3, <3>4 DEF AllowlistTypeOK
  <2>2. PICK k \in 0 .. Len(entries) : dynamicAllowlist = Kept(entries, k)
    BY <2>1
  <2>3. k \in Nat /\ k <= Len(entries)
    BY Bounds
  <2> QED BY <2>2, <2>3, EntriesType, KeptPrefix
<1> QED BY <1>1, PushHolds, PTL

=============================================================================
