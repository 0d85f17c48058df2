------------------------ MODULE RsContext_refinement ------------------------
(***************************************************************************)
(* The tracker implements BlockPolicy: with hash table, pool, lock and     *)
(* races, every operation is judged as if in one atomic step on the log of *)
(* its process, for any number of threads, processes and addresses, any    *)
(* configuration and any ring size.                                        *)
(*                                                                         *)
(* The argument: a process has one linked context or none, so its log and  *)
(* its block are those of that context.  A lookup that finds none, and an  *)
(* allocation, change no linked context: they stutter.  The critical       *)
(* section that finds or links the context is the step that judges.        *)
(***************************************************************************)
EXTENDS RsContext_proofs

(* The linked context of a process in a pool h with the table T, its log   *)
(* and its block.                                                          *)
LookupIn(h, T, p)  == {c \in T : h[c].pid = p}
LogIn(h, T, p)     == IF LookupIn(h, T, p) = {}
                      THEN <<>>
                      ELSE h[CHOOSE c \in LookupIn(h, T, p) : TRUE].operations
BlockedIn(h, T, p) == \E c \in LookupIn(h, T, p) : h[c].isBlocked

OneEach(h, T) == \A c, d \in T : h[c].pid = h[d].pid => c = d

(* A call as the policy sees it.                                           *)
PhaseAt(label) == CASE label = "idle"   -> "idle"
                    [] label = "notify" -> "reporting"
                    [] label = "return" -> "answered"
                    [] OTHER            -> "asked"

CallOf(label, p, now, answer) ==
  [phase |-> PhaseAt(label), pid |-> p, time |-> now, answer |-> answer]

(* The mapped variables, in these terms.                                   *)
LEMMA Mapped ==
  /\ Logs = [p \in Pids |-> LogIn(heap, table, p)]
  /\ Blocked = {p \in Pids : BlockedIn(heap, table, p)}
  /\ Calls = [t \in Callers |->
                CallOf(pc[t], processId[t], currentTime[t], verdict[t])]
BY DEF Logs, LogOf, LogIn, Lookup, LookupIn, Blocked, IsBlocked, BlockedIn,
       Calls, CallOf, Phase, PhaseAt

LEMMA MappedNext ==
  /\ Logs' = [p \in Pids |-> LogIn(heap', table', p)]
  /\ Blocked' = {p \in Pids : BlockedIn(heap', table', p)}
  /\ Calls' = [t \in Callers |->
                 CallOf(pc'[t], processId'[t], currentTime'[t], verdict'[t])]
BY DEF Logs, LogOf, LogIn, Lookup, LookupIn, Blocked, IsBlocked, BlockedIn,
       Calls, CallOf, Phase, PhaseAt
-----------------------------------------------------------------------------
LEMMA PhaseIs ==
  /\ PhaseAt("idle") = "idle"
  /\ PhaseAt("firstLookup") = "asked"
  /\ PhaseAt("allocate") = "asked"
  /\ PhaseAt("secondLookup") = "asked"
  /\ PhaseAt("notify") = "reporting"
  /\ PhaseAt("return") = "answered"
BY DEF PhaseAt

(* The log and the block of a process are those of its context ...         *)
LEMMA LinkedIs ==
  ASSUME NEW h, NEW T, OneEach(h, T), NEW c \in T, NEW p, h[c].pid = p
  PROVE  /\ LogIn(h, T, p) = h[c].operations
         /\ BlockedIn(h, T, p) <=> h[c].isBlocked
<1>1. LookupIn(h, T, p) = {c}
  BY DEF LookupIn, OneEach
<1>2. (CHOOSE d \in LookupIn(h, T, p) : TRUE) = c
  BY <1>1
<1> QED
  BY <1>1, <1>2 DEF LogIn, BlockedIn

(* ... and a process without a context has neither.                        *)
LEMMA UnlinkedIs ==
  ASSUME NEW h, NEW T, NEW p, LookupIn(h, T, p) = {}
  PROVE  LogIn(h, T, p) = <<>> /\ ~BlockedIn(h, T, p)
BY DEF LogIn, BlockedIn

(* They do not change as long as the context does not.                     *)
LEMMA SameIn ==
  ASSUME NEW g, NEW h, NEW S, NEW T, NEW p,
         LookupIn(g, S, p) = LookupIn(h, T, p),
         \A c \in LookupIn(h, T, p) : g[c] = h[c]
  PROVE  /\ LogIn(g, S, p) = LogIn(h, T, p)
         /\ BlockedIn(g, S, p) <=> BlockedIn(h, T, p)
<1>1. CASE LookupIn(h, T, p) = {}
  BY <1>1, UnlinkedIs
<1>2. CASE LookupIn(h, T, p) # {}
  <2> DEFINE c == CHOOSE d \in LookupIn(h, T, p) : TRUE
  <2>1. c \in LookupIn(h, T, p)
    BY <1>2
  <2> QED
    BY <1>2, <2>1 DEF LogIn, BlockedIn
<1> QED
  BY <1>1, <1>2

(* Steps that leave the linked contexts alone leave all of them alone.     *)
LEMMA TrackerSame ==
  ASSUME table' = table, \A c \in table : heap'[c] = heap[c]
  PROVE  UNCHANGED <<Logs, Blocked>>
<1>1. ASSUME NEW p \in Pids
      PROVE  /\ LogIn(heap', table', p) = LogIn(heap, table, p)
             /\ BlockedIn(heap', table', p) <=> BlockedIn(heap, table, p)
  <2>1. /\ LookupIn(heap', table', p) = LookupIn(heap, table, p)
        /\ \A c \in LookupIn(heap, table, p) : heap'[c] = heap[c]
    BY DEF LookupIn
  <2> QED
    BY <2>1, SameIn
<1> QED
  BY <1>1, Mapped, MappedNext

(* One caller moves.                                                       *)
LEMMA OneCall ==
  ASSUME NEW t \in Callers,
         \A u \in Callers \ {t} :
           /\ pc'[u] = pc[u] /\ processId'[u] = processId[u]
           /\ currentTime'[u] = currentTime[u] /\ verdict'[u] = verdict[u]
  PROVE  Calls' = [Calls EXCEPT ![t] =
                     CallOf(pc'[t], processId'[t], currentTime'[t], verdict'[t])]
BY Mapped, MappedNext

LEMMA AllCallsSame ==
  ASSUME UNCHANGED locals
  PROVE  UNCHANGED Calls
BY Mapped, MappedNext DEF locals

LEMMA SettingsSame ==
  ASSUME UNCHANGED config
  PROVE  UNCHANGED Settings
BY DEF Settings, config
-----------------------------------------------------------------------------
(* The operators of the log are the same ones there.                       *)
LEMMA SameCardinality ==
  ASSUME NEW S
  PROVE  Policy!Cardinality(S) = Cardinality(S)
BY DEF Policy!Cardinality, Cardinality

LEMMA SameOperators ==
  ASSUME NEW ops, NEW now, NEW ticks
  PROVE  /\ Policy!Recorded(ops, now, ticks) = Recorded(ops, now, ticks)
         /\ Policy!RecentCount(ops, now, ticks) = RecentCount(ops, now, ticks)
<1>1. \A l : Policy!Survivors(l, now, ticks) = Survivors(l, now, ticks)
  BY DEF Policy!Survivors, Survivors
<1>2. \A keep, k : Policy!Rank(keep, k) = Rank(keep, k)
  BY SameCardinality DEF Policy!Rank, Rank
<1>3. \A l, keep : Policy!Compact(l, keep) = Compact(l, keep)
  <2> TAKE l, keep
  <2> DEFINE a(j) == CHOOSE k \in keep : Policy!Rank(keep, k) = j
             b(j) == CHOOSE k \in keep : Rank(keep, k) = j
  <2>1. \A j : a(j) = b(j)
    BY <1>2
  <2>2. Policy!Compact(l, keep) = [j \in 1 .. Cardinality(keep) |-> l[a(j)]]
    BY SameCardinality DEF Policy!Compact
  <2>3. Compact(l, keep) = [j \in 1 .. Cardinality(keep) |-> l[b(j)]]
    BY DEF Compact
  <2> HIDE DEF a, b
  <2> QED BY <2>1, <2>2, <2>3
<1>4. \A l : Policy!AppendOperation(l, now) = AppendOperation(l, now)
  BY DEF Policy!AppendOperation, AppendOperation
<1>5. Policy!PruneOldOperations(ops, now, ticks) = PruneOldOperations(ops, now, ticks)
  BY <1>1, <1>3 DEF Policy!PruneOldOperations, PruneOldOperations
<1> QED BY <1>1, <1>4, <1>5, SameCardinality
        DEF Policy!Recorded, Recorded, Policy!RecentCount, RecentCount
-----------------------------------------------------------------------------
(* What the invariant of the tracker leaves out: a thread outside the      *)
(* driver owes no answer, and nothing is left to run or to forget once the *)
(* driver has unloaded.                                                    *)
RInv ==
  /\ IInv
  /\ \A t \in Callers : pc[t] = "idle" => verdict[t] = "pending"
  /\ driver = "unloaded" => Drained /\ table = {}

LEMMA InitRInv == Init => RInv
BY InitIInv DEF RInv, Init, Drained

LEMMA NextRInv ==
  ASSUME RInv, [Next]_vars
  PROVE  RInv'
<1> USE DEF RInv
<1>1. IInv' /\ TypeOK
  BY NextIInv DEF IInv
<1>2. ASSUME NEW t \in Callers, NEW p \in Pids, RecordOperation(t, p)
      PROVE  RInv'
  BY <1>1, <1>2 DEF RecordOperation, TypeOK
<1>3. ASSUME NEW t \in Callers, Step(t)
      PROVE  RInv'
  <2>1. driver # "unloaded" /\ UNCHANGED driver
    BY <1>3 DEF Step, Drained, FirstLookup, CreateProcessContext,
                SecondLookup, SendBlockNotification, Return
  <2>2. /\ \A u \in Callers \ {t} : pc'[u] = pc[u] /\ verdict'[u] = verdict[u]
        /\ pc'[t] = "idle" => verdict'[t] = "pending"
    BY <1>1, <1>3 DEF Step, FirstLookup, CreateProcessContext, SecondLookup,
         UseWinner, InsertOwn, DenyBlocked, RecordAndEvaluate, Decide,
         SendBlockNotification, Return, TypeOK
  <2> QED
    BY <1>1, <2>1, <2>2
<1>4. CASE \E p \in Pids : UnblockProcess(p)
  BY <1>1, <1>4 DEF UnblockProcess, locals
<1>5. CASE DestroyContextTracking \/ UnregisterFilter \/ InitializeContextTracking
  BY <1>1, <1>5 DEF DestroyContextTracking, UnregisterFilter,
                    InitializeContextTracking, locals, Drained
<1>6. CASE \/ \E u \in Updates : ApplyConfig(u)
           \/ RequestPause \/ RequestResume \/ Tick
           \/ UNCHANGED vars
  BY <1>1, <1>6 DEF ApplyConfig, RequestPause, RequestResume, Tick, vars,
                    tracker, locals, Drained
<1> QED
  BY <1>2, <1>3, <1>4, <1>5, <1>6 DEF Next

LEMMA RInvHolds == Spec => []RInv
BY InitRInv, NextRInv, PTL DEF Spec
-----------------------------------------------------------------------------
(* The answer to a call, in either critical section.                       *)
LEMMA Answered ==
  ASSUME TypeOK, NEW t \in Callers, NEW answer, NEW next,
         pc[t] \in {"firstLookup", "allocate", "secondLookup"},
         Decide(t, answer, next),
         UNCHANGED <<config, driver, clock, processId, currentTime>>
  PROVE  Policy!Answer(t, PhaseAt(next), answer)
<1>1. Calls' = [Calls EXCEPT ![t] =
                  CallOf(next, processId[t], currentTime[t], answer)]
  <2>1. /\ \A u \in Callers \ {t} :
             /\ pc'[u] = pc[u] /\ processId'[u] = processId[u]
             /\ currentTime'[u] = currentTime[u] /\ verdict'[u] = verdict[u]
        /\ pc'[t] = next /\ verdict'[t] = answer
        /\ processId'[t] = processId[t] /\ currentTime'[t] = currentTime[t]
    BY DEF Decide, TypeOK
  <2> QED
    BY <2>1, OneCall
<1>2. Calls[t] = CallOf(pc[t], processId[t], currentTime[t], verdict[t])
  BY Mapped
<1>3. Calls[t].phase = "asked"
  BY <1>2, PhaseIs DEF CallOf
<1>4. CallOf(next, processId[t], currentTime[t], answer)
        = [Calls[t] EXCEPT !.phase = PhaseAt(next), !.answer = answer]
  <2> DEFINE x == CallOf(next, processId[t], currentTime[t], answer)
             y == [Calls[t] EXCEPT !.phase = PhaseAt(next), !.answer = answer]
             CallSet == [phase : {PhaseAt(pc[t]), PhaseAt(next)},
                         pid : {processId[t]}, time : {currentTime[t]},
                         answer : {verdict[t], answer}]
  <2>0. Calls[t] \in CallSet /\ x \in CallSet
    BY <1>2 DEF CallOf
  <2>1. y \in CallSet
    BY <2>0
  <2>2. /\ x.phase = y.phase /\ x.pid = y.pid
        /\ x.time = y.time /\ x.answer = y.answer
    BY <1>2 DEF CallOf
  <2> HIDE DEF x, y
  <2>3. x = y
    BY <2>0, <2>1, <2>2
  <2> QED
    BY <2>3 DEF x, y
<1>5. Calls' = [Calls EXCEPT ![t].phase = PhaseAt(next), ![t].answer = answer]
  BY <1>1, <1>4
<1> QED
  BY <1>3, <1>5, SettingsSame DEF Policy!Answer

(* A critical section that judges the operation on the context at c of the *)
(* pool h, which is or becomes the linked one of the process, is an atomic *)
(* judgement on its log.                                                   *)
LEMMA Judged ==
  ASSUME TypeOK, NEW t \in Callers, NEW h, NEW c \in Addresses,
         pc[t] \in {"firstLookup", "secondLookup"},
         processId[t] \in Pids,
         processId[t] \notin Blocked,
         HeapOK(h), OneEach(h, table'), c \in table', table' \subseteq Addresses,
         table \ {c} = table' \ {c},
         \A d \in table \ {c} : h[d] = heap[d],
         c \in table => heap[c].pid = processId[t],
         h[c].pid = processId[t], ~h[c].isBlocked,
         h[c].operations = Logs[processId[t]],
         RecordAndEvaluate(t, c, h),
         UNCHANGED <<config, driver, clock, processId, currentTime>>
  PROVE  Policy!Admit(t) \/ Policy!Detect(t)
<1> DEFINE p   == processId[t]
           now == currentTime[t]
           ops == Recorded(h[c].operations, now, timeWindowTicks)
           exceeded == /\ RecentCount(ops, now, timeWindowTicks)
                            >= fileCountThreshold
                       /\ monitoringEnabled
<1>1. /\ heap'[c].operations = ops
      /\ heap'[c].isBlocked <=> exceeded
      /\ \/ exceeded /\ Decide(t, "deny", "notify")
         \/ ~exceeded /\ Decide(t, "allow", "return")
  <2>1. c \in DOMAIN h /\ h[c] \in Context
    BY DEF HeapOK
  <2> HIDE DEF ops
  <2>2. CASE exceeded
    <3>1. /\ heap' = [h EXCEPT ![c].operations = ops, ![c].isBlocked = TRUE]
          /\ Decide(t, "deny", "notify")
      BY <2>2 DEF RecordAndEvaluate, Exceeded, ops
    <3> QED
      BY <2>1, <2>2, <3>1 DEF HeapOK, Context
  <2>3. CASE ~exceeded
    <3>1. /\ heap' = [h EXCEPT ![c].operations = ops]
          /\ Decide(t, "allow", "return")
      BY <2>3 DEF RecordAndEvaluate, Exceeded, ops
    <3> QED
      BY <2>1, <2>3, <3>1 DEF HeapOK, Context
  <2> QED
    BY <2>2, <2>3
<1>2. /\ \A d \in Addresses : heap'[d].pid = h[d].pid
      /\ \A d \in Addresses \ {c} : heap'[d] = h[d]
  BY RecordAndEvaluateEffect
<1> HIDE DEF ops
<1>3. /\ LogIn(heap', table', p) = ops
      /\ BlockedIn(heap', table', p) <=> exceeded
  <2>1. OneEach(heap', table') /\ heap'[c].pid = p
    BY <1>2 DEF OneEach
  <2> QED
    BY <1>1, <2>1, LinkedIs
<1>4. ASSUME NEW q \in Pids, q # p
      PROVE  /\ LogIn(heap', table', q) = LogIn(heap, table, q)
             /\ BlockedIn(heap', table', q) <=> BlockedIn(heap, table, q)
  <2>1. /\ LookupIn(heap', table', q) = LookupIn(heap, table, q)
        /\ \A d \in LookupIn(heap, table, q) : heap'[d] = heap[d]
    BY <1>2, <1>4 DEF LookupIn
  <2> QED
    BY <2>1, SameIn
<1>5. Logs' = [Logs EXCEPT ![p] = ops]
  BY <1>3, <1>4, Mapped, MappedNext
<1>6. Blocked' = IF exceeded THEN Blocked \union {p} ELSE Blocked
  <2>1. \A q \in Pids : q \in Blocked' <=> BlockedIn(heap', table', q)
    BY MappedNext
  <2>2. \A q \in Pids : q \in Blocked <=> BlockedIn(heap, table, q)
    BY Mapped
  <2>3. Blocked \subseteq Pids /\ Blocked' \subseteq Pids
    BY Mapped, MappedNext
  <2> HIDE DEF exceeded
  <2> QED
    BY <1>3, <1>4, <2>1, <2>2, <2>3
<1>7. /\ Calls[t].pid = p /\ Calls[t].time = now
      /\ Settings.window = timeWindowTicks
      /\ Settings.threshold = fileCountThreshold
      /\ Settings.enabled = monitoringEnabled
  BY Mapped DEF CallOf, Settings
<1>8. Policy!Record(t)
  <2>1. Logs' = [Logs EXCEPT ![p] =
                   Policy!Recorded(Logs[p], now, timeWindowTicks)]
    <3>1. ops = Recorded(Logs[p], now, timeWindowTicks)
      BY DEF ops
    <3>2. ops = Policy!Recorded(Logs[p], now, timeWindowTicks)
      BY <3>1, SameOperators
    <3> QED
      BY <1>5, <3>2
  <2> QED
    BY <1>7, <2>1 DEF Policy!Record
<1>9. Policy!Exceeds(t) <=> exceeded
  <2>1. Logs'[p] = ops
    BY <1>5, Mapped
  <2>2. RecentCount(ops, now, timeWindowTicks)
          = Policy!RecentCount(ops, now, timeWindowTicks)
    BY SameOperators
  <2> QED
    BY <1>7, <2>1, <2>2 DEF Policy!Exceeds
<1> HIDE DEF exceeded
<1>10. CASE exceeded
  <2>1. Policy!Answer(t, "reporting", "deny")
    BY <1>1, <1>10, Answered, PhaseIs
  <2> QED
    BY <1>6, <1>7, <1>8, <1>9, <1>10, <2>1 DEF Policy!Detect
<1>11. CASE ~exceeded
  <2>1. Policy!Answer(t, "answered", "allow")
    BY <1>1, <1>11, Answered, PhaseIs
  <2> QED
    BY <1>6, <1>8, <1>9, <1>11, <2>1 DEF Policy!Admit
<1> QED
  BY <1>10, <1>11
-----------------------------------------------------------------------------
(* The log and the block of a process with a linked context.               *)
LEMMA LinkedLog ==
  ASSUME IInv, NEW p \in Pids, NEW c \in Lookup(p)
  PROVE  /\ c \in table /\ c \in Addresses /\ heap[c].pid = p
         /\ Logs[p] = heap[c].operations
         /\ p \in Blocked <=> heap[c].isBlocked
<1>1. c \in table /\ c \in Addresses /\ heap[c].pid = p
  BY DEF Lookup, IInv, TypeOK
<1>2. OneEach(heap, table)
  BY DEF IInv, OneContextPerPid, OneEach
<1> QED
  BY <1>1, <1>2, LinkedIs, Mapped

LEMMA UnlinkedLog ==
  ASSUME NEW p \in Pids, Lookup(p) = {}
  PROVE  Logs[p] = <<>> /\ p \notin Blocked
BY UnlinkedIs, Mapped DEF Lookup, LookupIn

(* A caller that moves between two labels of the same phase stutters.      *)
LEMMA SamePhase ==
  ASSUME TypeOK, NEW t \in Callers, NEW next,
         pc' = [pc EXCEPT ![t] = next], PhaseAt(next) = PhaseAt(pc[t]),
         UNCHANGED <<processId, currentTime, verdict>>
  PROVE  UNCHANGED Calls
<1>1. \A u \in Callers : PhaseAt(pc'[u]) = PhaseAt(pc[u])
  BY DEF TypeOK
<1> QED
  BY <1>1, Mapped, MappedNext DEF CallOf

LEMMA Refused ==
  ASSUME TypeOK, NEW t \in Callers,
         pc[t] \in {"firstLookup", "secondLookup"},
         processId[t] \in Blocked,
         DenyBlocked(t),
         UNCHANGED <<config, driver, clock, processId, currentTime>>,
         UNCHANGED <<Logs, Blocked>>
  PROVE  Policy!Refuse(t)
<1>1. Policy!Answer(t, "answered", "deny")
  BY Answered, PhaseIs DEF DenyBlocked
<1>2. Calls[t].pid = processId[t]
  BY Mapped DEF CallOf
<1> QED
  BY <1>1, <1>2 DEF Policy!Refuse

(* The first critical section judges, unless it has to allocate.           *)
LEMMA FirstLookupStep ==
  ASSUME RInv, NEW t \in Callers, FirstLookup(t)
  PROVE  \/ Policy!Refuse(t) \/ Policy!Admit(t) \/ Policy!Detect(t)
         \/ UNCHANGED Policy!vars
<1> DEFINE p == processId[t]
<1>1. /\ IInv /\ TypeOK /\ pc[t] = "firstLookup" /\ p \in Pids
      /\ UNCHANGED <<table, config, driver, clock, processId, currentTime>>
  BY DEF FirstLookup, RInv, IInv, Holding
<1>2. ASSUME NEW c \in Lookup(p), heap[c].isBlocked, DenyBlocked(t),
             UNCHANGED heap
      PROVE  Policy!Refuse(t)
  <2>1. UNCHANGED <<Logs, Blocked>>
    BY <1>1, <1>2, TrackerSame
  <2>2. p \in Blocked
    BY <1>1, <1>2, LinkedLog
  <2> QED
    BY <1>1, <1>2, <2>1, <2>2, Refused
<1>3. ASSUME NEW c \in Lookup(p), ~heap[c].isBlocked,
             RecordAndEvaluate(t, c, heap)
      PROVE  Policy!Admit(t) \/ Policy!Detect(t)
  <2>1. /\ c \in table /\ c \in Addresses /\ heap[c].pid = p
        /\ Logs[p] = heap[c].operations
        /\ p \notin Blocked
    BY <1>1, <1>3, LinkedLog
  <2>2. HeapOK(heap) /\ table \subseteq Addresses /\ OneEach(heap, table)
    BY <1>1 DEF HeapOK, TypeOK, IInv, OneContextPerPid, OneEach
  <2> QED
    BY <1>1, <1>3, <2>1, <2>2, Judged
<1>4. CASE pc' = [pc EXCEPT ![t] = "allocate"] /\ UNCHANGED <<heap, verdict>>
  <2>1. UNCHANGED <<Logs, Blocked>>
    BY <1>1, <1>4, TrackerSame
  <2>2. UNCHANGED Calls
    BY <1>1, <1>4, SamePhase, PhaseIs
  <2> QED
    BY <1>1, <2>1, <2>2, SettingsSame DEF Policy!vars
<1> QED
  BY <1>2, <1>3, <1>4 DEF FirstLookup

(* The allocation is out of every lookup's reach; without memory the       *)
(* operation passes.                                                       *)
LEMMA CreateProcessContextStep ==
  ASSUME RInv, NEW t \in Callers, CreateProcessContext(t)
  PROVE  Policy!FailOpen(t) \/ UNCHANGED Policy!vars
<1>1. /\ IInv /\ TypeOK /\ pc[t] = "allocate" /\ processId[t] \in Pids
      /\ UNCHANGED <<table, config, driver, clock, processId, currentTime>>
  BY DEF CreateProcessContext, RInv, IInv, Holding
<1>2. ASSUME NEW c \in Addresses, heap[c].pid = NoPid,
             heap' = [heap EXCEPT ![c] = NewContext(processId[t])],
             pc' = [pc EXCEPT ![t] = "secondLookup"],
             UNCHANGED verdict
      PROVE  UNCHANGED Policy!vars
  <2>1. \A d \in table : heap'[d] = heap[d]
    BY <1>1, <1>2, ConstantsAssumption DEF IInv, NoDangling, TypeOK
  <2>2. UNCHANGED <<Logs, Blocked>>
    BY <1>1, <2>1, TrackerSame
  <2>3. UNCHANGED Calls
    BY <1>1, <1>2, SamePhase, PhaseIs
  <2> QED
    BY <1>1, <2>2, <2>3, SettingsSame DEF Policy!vars
<1>3. CASE Decide(t, "failed", "return") /\ UNCHANGED heap
  <2>1. UNCHANGED <<Logs, Blocked>>
    BY <1>1, <1>3, TrackerSame
  <2>2. Policy!Answer(t, "answered", "failed")
    BY <1>1, <1>3, Answered, PhaseIs
  <2> QED
    BY <2>1, <2>2 DEF Policy!FailOpen
<1> QED
  BY <1>2, <1>3 DEF CreateProcessContext

(* The second critical section always judges, on the winner's context or   *)
(* on the caller's own.                                                    *)
LEMMA SecondLookupStep ==
  ASSUME RInv, NEW t \in Callers, SecondLookup(t)
  PROVE  Policy!Refuse(t) \/ Policy!Admit(t) \/ Policy!Detect(t)
<1> DEFINE p   == processId[t]
           own == newContext[t]
<1>1. /\ IInv /\ TypeOK /\ pc[t] = "secondLookup" /\ p \in Pids
      /\ UNCHANGED <<config, driver, clock, processId, currentTime>>
  BY DEF SecondLookup, RInv, IInv, Holding
<1>2. /\ own \in Addresses \ table /\ own # Null
      /\ heap[own] = NewContext(p)
  BY <1>1, OwnContext DEF IInv, NoDangling
<1>3. HeapOK(heap) /\ table \subseteq Addresses /\ OneEach(heap, table)
  BY <1>1 DEF HeapOK, TypeOK, IInv, OneContextPerPid, OneEach
<1>4. /\ HeapOK(Discarded(t))
      /\ \A d \in table : Discarded(t)[d] = heap[d]
  BY <1>2, <1>3, FreshContexts, HeapUpdate DEF Discarded, HeapOK
<1>5. ASSUME NEW c \in Raced(t), heap[c].isBlocked, DenyBlocked(t),
             heap' = Discarded(t), UNCHANGED table
      PROVE  Policy!Refuse(t)
  <2>1. UNCHANGED <<Logs, Blocked>>
    BY <1>4, <1>5, TrackerSame
  <2>2. p \in Blocked
    BY <1>1, <1>5, LinkedLog DEF Raced
  <2> QED
    BY <1>1, <1>5, <2>1, <2>2, Refused
<1>6. ASSUME NEW c \in Raced(t), ~heap[c].isBlocked,
             RecordAndEvaluate(t, c, Discarded(t)), UNCHANGED table
      PROVE  Policy!Admit(t) \/ Policy!Detect(t)
  <2>1. /\ c \in table /\ c \in Addresses /\ heap[c].pid = p
        /\ Logs[p] = heap[c].operations
        /\ p \notin Blocked
    BY <1>1, <1>6, LinkedLog DEF Raced
  <2>2. OneEach(Discarded(t), table)
    BY <1>3, <1>4 DEF OneEach
  <2> HIDE DEF p
  <2>3. Discarded(t)[c] = heap[c]
    BY <1>4, <2>1
  <2> QED
    BY <1>1, <1>3, <1>4, <1>6, <2>1, <2>2, <2>3, Judged DEF p
<1>7. CASE InsertOwn(t)
  <2>1. /\ Lookup(p) = {}
        /\ table' = table \union {own}
        /\ RecordAndEvaluate(t, own, heap)
    BY <1>7 DEF InsertOwn, Raced
  <2>2. Logs[p] = <<>> /\ p \notin Blocked
    BY <1>1, <2>1, UnlinkedLog
  <2>3. heap[own].pid = p /\ heap[own].operations = <<>> /\ ~heap[own].isBlocked
    BY <1>2 DEF NewContext, Free
  <2>4. \A d \in table : heap[d].pid # p
    BY <2>1 DEF Lookup
  <2>5. OneEach(heap, table') /\ table' \subseteq Addresses
    BY <1>2, <1>3, <2>1, <2>3, <2>4 DEF OneEach
  <2> QED
    BY <1>1, <1>2, <1>3, <2>1, <2>2, <2>3, <2>5, Judged
<1> QED
  BY <1>5, <1>6, <1>7 DEF SecondLookup, UseWinner
-----------------------------------------------------------------------------
(* The steps outside the critical sections map one to one.                 *)
LEMMA TrackerKept ==
  ASSUME UNCHANGED tracker
  PROVE  UNCHANGED <<Logs, Blocked>>
BY TrackerSame DEF tracker

LEMMA RecordOperationStep ==
  ASSUME RInv, NEW t \in Callers, NEW p \in Pids, RecordOperation(t, p)
  PROVE  Policy!Ask(t, p)
<1>1. /\ TypeOK /\ pc[t] = "idle" /\ verdict[t] = "pending"
      /\ driver # "unloaded"
      /\ UNCHANGED <<tracker, config, driver, clock, verdict>>
  BY DEF RInv, IInv, RecordOperation
<1>2. /\ \A u \in Callers \ {t} :
           /\ pc'[u] = pc[u] /\ processId'[u] = processId[u]
           /\ currentTime'[u] = currentTime[u] /\ verdict'[u] = verdict[u]
      /\ pc'[t] = "firstLookup" /\ processId'[t] = p
      /\ currentTime'[t] = clock /\ verdict'[t] = "pending"
  BY <1>1 DEF RecordOperation, TypeOK
<1>3. Calls' = [Calls EXCEPT ![t] = CallOf("firstLookup", p, clock, "pending")]
  BY <1>2, OneCall
<1>4. CallOf("firstLookup", p, clock, "pending")
        = [phase |-> "asked", pid |-> p, time |-> clock, answer |-> "pending"]
  BY PhaseIs DEF CallOf
<1>5. [Policy!NoCall EXCEPT !.phase = "asked", !.pid = p, !.time = clock]
        = [phase |-> "asked", pid |-> p, time |-> clock, answer |-> "pending"]
  <2> DEFINE CallSet == [phase : {"idle", "asked"}, pid : {NoPid, p},
                         time : {0, clock}, answer : {"pending"}]
             x == [Policy!NoCall EXCEPT !.phase = "asked", !.pid = p,
                                        !.time = clock]
             y == [phase |-> "asked", pid |-> p, time |-> clock,
                   answer |-> "pending"]
  <2>1. Policy!NoCall \in CallSet /\ y \in CallSet
    BY DEF Policy!NoCall
  <2>2. x \in CallSet
    BY <2>1
  <2>3. x.phase = y.phase /\ x.pid = y.pid /\ x.time = y.time /\ x.answer = y.answer
    BY <2>1 DEF Policy!NoCall
  <2> HIDE DEF x, y
  <2>4. x = y
    BY <2>1, <2>2, <2>3
  <2> QED
    BY <2>4 DEF x, y
<1>6. Calls[t].phase = "idle"
  BY <1>1, Mapped, PhaseIs DEF CallOf
<1>7. Calls' = [Calls EXCEPT ![t] = [Policy!NoCall EXCEPT !.phase = "asked",
                                          !.pid = p, !.time = clock]]
  BY <1>3, <1>4, <1>5
<1> QED
  BY <1>1, <1>6, <1>7, TrackerKept, SettingsSame DEF Policy!Ask

LEMMA SendBlockNotificationStep ==
  ASSUME RInv, NEW t \in Callers, SendBlockNotification(t)
  PROVE  Policy!Report(t)
<1>1. /\ TypeOK /\ pc[t] = "notify"
      /\ UNCHANGED <<tracker, config, driver, clock, processId, currentTime,
                     verdict>>
  BY DEF RInv, IInv, SendBlockNotification
<1>2. /\ \A u \in Callers \ {t} : pc'[u] = pc[u]
      /\ pc'[t] = "return"
  BY <1>1 DEF SendBlockNotification, TypeOK
<1>3. Calls' = [Calls EXCEPT ![t] =
                  CallOf("return", processId[t], currentTime[t], verdict[t])]
  BY <1>1, <1>2, OneCall
<1>4. Calls[t] = [phase |-> "reporting", pid |-> processId[t],
                  time |-> currentTime[t], answer |-> verdict[t]]
  BY <1>1, Mapped, PhaseIs DEF CallOf
<1>5. CallOf("return", processId[t], currentTime[t], verdict[t])
        = [Calls[t] EXCEPT !.phase = "answered"]
  BY <1>4, PhaseIs DEF CallOf
<1>6. Calls' = [Calls EXCEPT ![t].phase = "answered"]
  BY <1>3, <1>5
<1> QED
  BY <1>1, <1>4, <1>6, TrackerKept, SettingsSame DEF Policy!Report

LEMMA ReturnStep ==
  ASSUME RInv, NEW t \in Callers, Return(t)
  PROVE  Policy!Finish(t)
<1>1. /\ TypeOK /\ pc[t] = "return"
      /\ UNCHANGED <<tracker, config, driver, clock>>
  BY DEF RInv, IInv, Return
<1>2. /\ \A u \in Callers \ {t} :
           /\ pc'[u] = pc[u] /\ processId'[u] = processId[u]
           /\ currentTime'[u] = currentTime[u] /\ verdict'[u] = verdict[u]
      /\ pc'[t] = "idle" /\ processId'[t] = NoPid
      /\ currentTime'[t] = 0 /\ verdict'[t] = "pending"
  BY <1>1 DEF Return, TypeOK
<1>3. Calls' = [Calls EXCEPT ![t] = CallOf("idle", NoPid, 0, "pending")]
  BY <1>2, OneCall
<1>4. CallOf("idle", NoPid, 0, "pending") = Policy!NoCall
  BY PhaseIs DEF CallOf, Policy!NoCall
<1>5. Calls[t].phase = "answered"
  BY <1>1, Mapped, PhaseIs DEF CallOf
<1> QED
  BY <1>1, <1>3, <1>4, <1>5, TrackerKept, SettingsSame DEF Policy!Finish

(* Removing the one context of a process removes its log and its block.    *)
LEMMA UnblockProcessStep ==
  ASSUME RInv, NEW p \in Pids, UnblockProcess(p)
  PROVE  Policy!Unblock(p)
<1>1. PICK c \in Lookup(p) :
        /\ table' = table \ {c}
        /\ heap' = [heap EXCEPT ![c] = Free]
  BY DEF UnblockProcess
<1>2. /\ c \in table /\ c \in Addresses /\ heap[c].pid = p
      /\ TypeOK /\ OneContextPerPid
      /\ driver # "unloaded" /\ UNCHANGED <<config, driver, clock, locals>>
  BY <1>1, LinkedLog DEF UnblockProcess, RInv, IInv
<1>3. \A d \in table' : d \in table /\ heap'[d] = heap[d] /\ heap[d].pid # p
  BY <1>1, <1>2 DEF OneContextPerPid, TypeOK
<1>4. LogIn(heap', table', p) = <<>> /\ ~BlockedIn(heap', table', p)
  <2>1. LookupIn(heap', table', p) = {}
    BY <1>3 DEF LookupIn
  <2> QED
    BY <2>1, UnlinkedIs
<1>5. ASSUME NEW q \in Pids, q # p
      PROVE  /\ LogIn(heap', table', q) = LogIn(heap, table, q)
             /\ BlockedIn(heap', table', q) <=> BlockedIn(heap, table, q)
  <2>1. /\ LookupIn(heap', table', q) = LookupIn(heap, table, q)
        /\ \A d \in LookupIn(heap, table, q) : heap'[d] = heap[d]
    BY <1>1, <1>2, <1>3, <1>5 DEF LookupIn
  <2> QED
    BY <2>1, SameIn
<1>6. Logs' = [Logs EXCEPT ![p] = <<>>]
  BY <1>4, <1>5, Mapped, MappedNext
<1>7. Blocked' = Blocked \ {p}
  BY <1>4, <1>5, Mapped, MappedNext
<1> QED
  BY <1>2, <1>6, <1>7, SettingsSame, AllCallsSame DEF Policy!Unblock

LEMMA ConfigureStep ==
  ASSUME RInv,
         (\E u \in Updates : ApplyConfig(u)) \/ RequestPause \/ RequestResume
  PROVE  Policy!Configure
<1>1. driver # "unloaded" /\ UNCHANGED <<tracker, driver, clock, locals>>
  BY DEF ApplyConfig, RequestPause, RequestResume
<1>2. TypeOK'
  BY NextIInv DEF RInv, IInv, Next
<1>3. Settings' \in [threshold : Nat \ {0}, window : Nat \ {0}, enabled : BOOLEAN]
  BY <1>2 DEF Settings, TypeOK
<1> QED
  BY <1>1, <1>3, TrackerKept, AllCallsSame DEF Policy!Configure

(* An empty table: no log, no block.                                       *)
LEMMA ForgetStep ==
  ASSUME table' = {}
  PROVE  Policy!Forget
<1>1. ASSUME NEW p \in Pids
      PROVE  LogIn(heap', table', p) = <<>> /\ ~BlockedIn(heap', table', p)
  BY UnlinkedIs DEF LookupIn
<1> QED
  BY <1>1, MappedNext DEF Policy!Forget

LEMMA LifecycleStep ==
  ASSUME RInv,
         \/ DestroyContextTracking
         \/ UnregisterFilter
         \/ InitializeContextTracking
  PROVE  Policy!Unload \/ Policy!Load
<1>1. table' = {} /\ UNCHANGED <<clock, locals>>
  BY DEF DestroyContextTracking, UnregisterFilter, InitializeContextTracking
<1>2. CASE DestroyContextTracking
  BY <1>1, <1>2, ForgetStep, SettingsSame, AllCallsSame
     DEF DestroyContextTracking, Policy!Unload
<1>3. CASE UnregisterFilter
  <2>1. \A t \in Callers : Calls[t].phase = "idle"
    BY <1>3, Mapped, PhaseIs DEF UnregisterFilter, Drained, CallOf
  <2> QED
    BY <1>1, <1>3, <2>1, ForgetStep, SettingsSame, AllCallsSame
       DEF UnregisterFilter, Policy!Unload
<1>4. CASE InitializeContextTracking
  <2>1. table = {} /\ UNCHANGED heap /\ driver = "unloaded"
    BY <1>4 DEF InitializeContextTracking, RInv
  <2>2. UNCHANGED <<Logs, Blocked>>
    BY <1>1, <2>1, TrackerSame
  <2>3. Settings' = Policy!Defaults
    BY <1>4 DEF InitializeContextTracking, Settings, Policy!Defaults
  <2> QED
    BY <1>1, <1>4, <2>2, <2>3, AllCallsSame
       DEF InitializeContextTracking, Policy!Load
<1> QED
  BY <1>2, <1>3, <1>4

LEMMA TickStep ==
  ASSUME Tick
  PROVE  Policy!Tick
BY TrackerKept, SettingsSame, AllCallsSame DEF Tick, Policy!Tick
-----------------------------------------------------------------------------
LEMMA InitRefines == Init => Policy!Init
<1> SUFFICES ASSUME Init PROVE Policy!Init
  OBVIOUS
<1>1. Logs = [p \in Pids |-> <<>>] /\ Blocked = {}
  <2>1. ASSUME NEW p \in Pids
        PROVE  Logs[p] = <<>> /\ p \notin Blocked
    BY UnlinkedLog DEF Init, Lookup
  <2> QED
    BY <2>1, Mapped
<1>2. Calls = [t \in Callers |-> Policy!NoCall]
  <2>1. CallOf("idle", NoPid, 0, "pending") = Policy!NoCall
    BY PhaseIs DEF CallOf, Policy!NoCall
  <2> QED
    BY <2>1, Mapped DEF Init
<1>3. Settings = Policy!Defaults
  BY DEF Init, Settings, Policy!Defaults
<1> QED
  BY <1>1, <1>2, <1>3 DEF Init, Policy!Init

LEMMA NextRefines ==
  ASSUME RInv, [Next]_vars
  PROVE  [Policy!Next]_(Policy!vars)
<1>1. ASSUME NEW t \in Callers, NEW p \in Pids, RecordOperation(t, p)
      PROVE  Policy!Next
  BY <1>1, RecordOperationStep DEF Policy!Next
<1>2. ASSUME NEW t \in Callers, Step(t)
      PROVE  Policy!Next \/ UNCHANGED Policy!vars
  BY <1>2, FirstLookupStep, CreateProcessContextStep, SecondLookupStep,
     SendBlockNotificationStep, ReturnStep DEF Step, Policy!Next
<1>3. ASSUME NEW p \in Pids, UnblockProcess(p)
      PROVE  Policy!Next
  BY <1>3, UnblockProcessStep DEF Policy!Next
<1>4. CASE (\E u \in Updates : ApplyConfig(u)) \/ RequestPause \/ RequestResume
  BY <1>4, ConfigureStep DEF Policy!Next
<1>5. CASE DestroyContextTracking \/ UnregisterFilter \/ InitializeContextTracking
  BY <1>5, LifecycleStep DEF Policy!Next
<1>6. CASE Tick
  BY <1>6, TickStep DEF Policy!Next
<1>7. CASE UNCHANGED vars
  BY <1>7, TrackerKept, SettingsSame, AllCallsSame DEF vars, Policy!vars
<1> QED
  BY <1>1, <1>2, <1>3, <1>4, <1>5, <1>6, <1>7 DEF Next

(* Any interleaving of threads, lookups, allocations, lost races, unblocks,*)
(* configuration changes, unloads and reloads is one in which every        *)
(* operation was judged in one atomic step on the log of its process.      *)
THEOREM TrackerRefinesPolicy == Spec => ImplementsBlockPolicy
<1>1. RInv /\ [Next]_vars => [Policy!Next]_(Policy!vars)
  BY NextRefines
<1> QED
  BY <1>1, InitRefines, RInvHolds, PTL DEF Spec, ImplementsBlockPolicy, Policy!Spec
-----------------------------------------------------------------------------
(* What the policy's steps do to the blocked processes.                    *)
LEMMA BlockedIs ==
  /\ \A p \in Pids : IsBlocked(p) <=> p \in Blocked
  /\ \A p \in Pids : IsBlocked(p)' <=> p \in Blocked'
BY DEF Blocked

LEMMA DetectBlocks ==
  ASSUME NEW t \in Callers, Policy!Detect(t)
  PROVE  /\ Blocked' = Blocked \union {processId[t]} /\ monitoringEnabled
         /\ verdict'[t] = "deny" /\ pc[t] # "notify" /\ pc'[t] = "notify"
<1>1. /\ Blocked' = Blocked \union {Calls[t].pid}
      /\ Settings.enabled
      /\ Calls[t].phase = "asked"
      /\ Calls' = [Calls EXCEPT ![t].phase = "reporting", ![t].answer = "deny"]
  BY DEF Policy!Detect, Policy!Exceeds, Policy!Answer
<1>2. /\ Calls[t] = CallOf(pc[t], processId[t], currentTime[t], verdict[t])
      /\ Calls'[t] = CallOf(pc'[t], processId'[t], currentTime'[t], verdict'[t])
      /\ t \in DOMAIN Calls
  BY Mapped, MappedNext
<1>3. /\ Calls[t].pid = processId[t] /\ PhaseAt(pc[t]) = "asked"
      /\ PhaseAt(pc'[t]) = Calls'[t].phase /\ verdict'[t] = Calls'[t].answer
  BY <1>1, <1>2 DEF CallOf
<1>4. Calls'[t].phase = "reporting" /\ Calls'[t].answer = "deny"
  <2>1. DOMAIN Calls[t] = {"phase", "pid", "time", "answer"}
    BY <1>2 DEF CallOf
  <2>2. Calls'[t] = [Calls[t] EXCEPT !.phase = "reporting", !.answer = "deny"]
    BY <1>1, <1>2
  <2> QED
    BY <2>1, <2>2
<1>5. pc[t] # "notify" /\ pc'[t] = "notify"
  BY <1>3, <1>4 DEF PhaseAt
<1> QED
  BY <1>1, <1>3, <1>4, <1>5 DEF Settings

(* The other answers, and what follows them, block and unblock nobody.     *)
LEMMA OthersKeep ==
  ASSUME NEW t \in Callers,
         \/ Policy!Refuse(t) \/ Policy!Admit(t) \/ Policy!FailOpen(t)
         \/ Policy!Report(t) \/ Policy!Finish(t)
         \/ UNCHANGED Policy!vars
  PROVE  Blocked' = Blocked
BY DEF Policy!Refuse, Policy!Admit, Policy!FailOpen, Policy!Report,
       Policy!Finish, Policy!vars

(* Blocks are explained: nobody is blocked during a pause, or by somebody  *)
(* else's operation, and nothing but a client lifts a block while the      *)
(* driver is loaded.                                                       *)
THEOREM EveryBlockExplained == Spec => BlocksExplained
<1> DEFINE Explained(p) ==
      /\ ~IsBlocked(p) /\ IsBlocked(p)' =>
           /\ monitoringEnabled
           /\ \E t \in Callers : /\ processId[t] = p /\ verdict'[t] = "deny"
                                 /\ pc[t] # "notify" /\ pc'[t] = "notify"
      /\ IsBlocked(p) /\ ~IsBlocked(p)' =>
           \/ UnblockProcess(p)
           \/ DestroyContextTracking \/ UnregisterFilter
<1>1. ASSUME RInv, [Next]_vars, NEW p \in Pids
      PROVE  Explained(p)
  <2>1. CASE Blocked' = Blocked
    BY <2>1, BlockedIs
  <2>2. ASSUME NEW t \in Callers, Step(t)
        PROVE  Policy!Detect(t) \/ Blocked' = Blocked
    BY <1>1, <2>2, FirstLookupStep, CreateProcessContextStep, SecondLookupStep,
       SendBlockNotificationStep, ReturnStep, OthersKeep DEF Step
  <2>3. ASSUME NEW t \in Callers, Policy!Detect(t)
        PROVE  Explained(p)
    BY <2>3, DetectBlocks, BlockedIs
  <2>4. ASSUME NEW q \in Pids, UnblockProcess(q)
        PROVE  Explained(p)
    <3>1. Blocked' = Blocked \ {q}
      BY <1>1, <2>4, UnblockProcessStep DEF Policy!Unblock
    <3> QED
      BY <2>4, <3>1, BlockedIs
  <2>5. CASE DestroyContextTracking \/ UnregisterFilter
    <3>1. Blocked' = {}
      BY <2>5, ForgetStep DEF DestroyContextTracking, UnregisterFilter, Policy!Forget
    <3> QED
      BY <2>5, <3>1, BlockedIs
  <2>6. CASE InitializeContextTracking
    <3>1. Policy!Unload \/ Policy!Load
      BY <1>1, <2>6, LifecycleStep
    <3>2. Blocked' = Blocked \/ Blocked' = {}
      BY <3>1 DEF Policy!Unload, Policy!Load, Policy!Forget
    <3>3. Blocked = {}
      BY <1>1, <2>6, Mapped DEF RInv, InitializeContextTracking, BlockedIn, LookupIn
    <3> QED
      BY <2>1, <3>2, <3>3
  <2>7. CASE \/ \E t \in Callers, q \in Pids : RecordOperation(t, q)
             \/ \E u \in Updates : ApplyConfig(u)
             \/ RequestPause \/ RequestResume \/ Tick \/ UNCHANGED vars
    <3>1. UNCHANGED tracker
      BY <2>7 DEF RecordOperation, ApplyConfig, RequestPause, RequestResume,
         Tick, vars
    <3> QED
      BY <2>1, <3>1, TrackerKept
  <2> QED
    BY <1>1, <2>1, <2>2, <2>3, <2>4, <2>5, <2>6, <2>7 DEF Next
<1>2. RInv /\ [Next]_vars => [\A p \in Pids : Explained(p)]_vars
  BY <1>1
<1> QED
  BY <1>2, RInvHolds, PTL DEF Spec, BlocksExplained
=============================================================================
