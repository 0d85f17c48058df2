-------------------------- MODULE RsContext_proofs --------------------------
(***************************************************************************)
(* The per-process tracker keeps one context per process, never loses or   *)
(* double-frees one, and counts them correctly, for any number of threads, *)
(* processes and addresses and any ring size.                              *)
(*                                                                         *)
(* The argument: between the two critical sections of RsRecordOperation a  *)
(* caller holds one allocation that nobody else can reach, labelled with   *)
(* the process it acts for (Holding and NoDangling).  So the free of the   *)
(* loser of a race touches no linked context, and the insert of the winner *)
(* adds a context for a process that has none, because the second lookup   *)
(* is in the same critical section.                                        *)
(***************************************************************************)
EXTENDS RsContext, RsOperations_proofs

(* A caller has an allocation of its own exactly between the two critical  *)
(* sections, and acts for a process from entry to return.                  *)
Holding ==
  \A t \in Callers :
    /\ newContext[t] # Null <=> pc[t] = "secondLookup"
    /\ pc[t] # "idle" => processId[t] \in Pids

IInv ==
  /\ TypeOK
  /\ Holding
  /\ NoDangling
  /\ OneContextPerPid
  /\ CountMatchesTable

(* A heap of well-typed contexts whose logs fit the ring.                  *)
HeapOK(h) ==
  /\ h \in [Addresses -> Context]
  /\ \A c \in Addresses : Len(h[c].operations) <= MaxOps
-----------------------------------------------------------------------------
(* A freed slot and a fresh context are well typed.                        *)
LEMMA FreshContexts ==
  /\ Free \in Context /\ Len(Free.operations) <= MaxOps
  /\ \A p \in Pids : /\ NewContext(p) \in Context
                     /\ Len(NewContext(p).operations) <= MaxOps
                     /\ NewContext(p).pid = p
<1>1. <<>> \in Seq(Nat) /\ Len(<<>>) = 0 /\ 0 <= MaxOps
  BY MaxOpsAssumption
<1> QED
  BY <1>1 DEF Free, NewContext, Context

(* Replacing one context by a well-typed one keeps the heap well typed.    *)
LEMMA HeapUpdate ==
  ASSUME NEW h, HeapOK(h), NEW c \in Addresses,
         NEW x \in Context, Len(x.operations) <= MaxOps
  PROVE  HeapOK([h EXCEPT ![c] = x])
BY DEF HeapOK

(* What RecordAndEvaluate does to the pool it is given: it changes the log *)
(* and perhaps the flag of one context, and ends the judgement of the      *)
(* caller.                                                                 *)
LEMMA RecordAndEvaluateEffect ==
  ASSUME TypeOK, NEW t \in Callers, NEW c \in Addresses, NEW h, HeapOK(h),
         RecordAndEvaluate(t, c, h)
  PROVE  /\ HeapOK(heap')
         /\ \A d \in Addresses : heap'[d].pid = h[d].pid
         /\ \A d \in Addresses \ {c} : heap'[d] = h[d]
         /\ \E next \in {"notify", "return"}, answer \in {"allow", "deny"} :
              Decide(t, answer, next)
<1> DEFINE now == currentTime[t]
           ops == Recorded(h[c].operations, now, timeWindowTicks)
<1>1. /\ h[c] \in Context
      /\ h[c].operations \in Seq(Nat) /\ Len(h[c].operations) <= MaxOps
      /\ now \in Nat /\ timeWindowTicks \in Nat
  BY DEF HeapOK, Context, TypeOK
<1>2. ops \in Seq(Nat) /\ Len(ops) \in 1 .. MaxOps
  BY <1>1, RecordedType
<1>3. Len(ops) <= MaxOps
  BY <1>2, MaxOpsAssumption
<1> HIDE DEF ops
<1>4. h \in [Addresses -> Context]
  BY DEF HeapOK
<1>5. CASE /\ heap' = [h EXCEPT ![c].operations = ops, ![c].isBlocked = TRUE]
           /\ Decide(t, "deny", "notify")
  <2> DEFINE x == [h[c] EXCEPT !.operations = ops, !.isBlocked = TRUE]
  <2>1. x \in Context /\ x.operations = ops /\ x.pid = h[c].pid
    BY <1>1, <1>2 DEF Context
  <2>2. heap' = [h EXCEPT ![c] = x]
    BY <1>4, <1>5
  <2> HIDE DEF x
  <2>3. HeapOK(heap')
    BY <1>3, <2>1, <2>2, HeapUpdate
  <2> QED
    BY <1>4, <1>5, <2>1, <2>2, <2>3
<1>6. CASE /\ heap' = [h EXCEPT ![c].operations = ops]
           /\ Decide(t, "allow", "return")
  <2> DEFINE x == [h[c] EXCEPT !.operations = ops]
  <2>1. x \in Context /\ x.operations = ops /\ x.pid = h[c].pid
    BY <1>1, <1>2 DEF Context
  <2>2. heap' = [h EXCEPT ![c] = x]
    BY <1>4, <1>6
  <2> HIDE DEF x
  <2>3. HeapOK(heap')
    BY <1>3, <2>1, <2>2, HeapUpdate
  <2> QED
    BY <1>4, <1>6, <2>1, <2>2, <2>3
<1> QED
  BY <1>5, <1>6 DEF RecordAndEvaluate, Exceeded, ops
-----------------------------------------------------------------------------
(* The freshly loaded driver satisfies the invariant.                      *)
LEMMA InitIInv == Init => IInv
<1> SUFFICES ASSUME Init PROVE IInv
  OBVIOUS
<1> USE ConstantsAssumption DEF Init
<1>1. TypeOK
  BY FreshContexts DEF TypeOK, Location
<1>2. CountMatchesTable
  BY FS_EmptySet DEF CountMatchesTable
<1>3. Holding /\ NoDangling /\ OneContextPerPid
  BY DEF Holding, NoDangling, OneContextPerPid
<1> QED
  BY <1>1, <1>2, <1>3 DEF IInv

(* The linked contexts are finitely many.                                  *)
LEMMA TableFinite ==
  ASSUME TypeOK
  PROVE  IsFiniteSet(table) /\ Cardinality(table) \in Nat
BY ConstantsAssumption, FS_Subset, FS_CardinalityType DEF TypeOK

(* The first critical section at most changes the log and the flag of a    *)
(* linked context.                                                         *)
LEMMA FirstLookupEffect ==
  ASSUME TypeOK, NEW t \in Callers, FirstLookup(t)
  PROVE  /\ HeapOK(heap')
         /\ \A d \in Addresses : heap'[d].pid = heap[d].pid
         /\ \A d \in Addresses \ table : heap'[d] = heap[d]
         /\ pc' = [pc EXCEPT ![t] = pc'[t]]
         /\ pc'[t] \in {"allocate", "notify", "return"}
         /\ verdict' \in [Callers -> {"pending", "allow", "deny", "failed"}]
<1> DEFINE Effect ==
             /\ HeapOK(heap')
             /\ \A d \in Addresses : heap'[d].pid = heap[d].pid
             /\ \A d \in Addresses \ table : heap'[d] = heap[d]
             /\ pc' = [pc EXCEPT ![t] = pc'[t]]
             /\ pc'[t] \in {"allocate", "notify", "return"}
             /\ verdict' \in [Callers -> {"pending", "allow", "deny", "failed"}]
<1> SUFFICES Effect
  OBVIOUS
<1>0. HeapOK(heap) /\ table \subseteq Addresses
  BY DEF TypeOK, HeapOK
<1>1. ASSUME NEW c \in Lookup(processId[t]),
             RecordAndEvaluate(t, c, heap)
      PROVE  Effect
  <2>1. c \in Addresses /\ c \in table
    BY <1>0 DEF Lookup
  <2>2. PICK next \in {"notify", "return"}, answer \in {"allow", "deny"} :
          Decide(t, answer, next)
    BY <1>0, <1>1, <2>1, RecordAndEvaluateEffect
  <2>3. /\ HeapOK(heap')
        /\ \A d \in Addresses : heap'[d].pid = heap[d].pid
        /\ \A d \in Addresses \ {c} : heap'[d] = heap[d]
    BY <1>0, <1>1, <2>1, RecordAndEvaluateEffect
  <2> QED
    BY <2>1, <2>2, <2>3 DEF Decide, TypeOK
<1>2. ASSUME DenyBlocked(t), UNCHANGED heap
      PROVE  Effect
  BY <1>0, <1>2 DEF DenyBlocked, Decide, TypeOK
<1>3. ASSUME pc' = [pc EXCEPT ![t] = "allocate"], UNCHANGED <<heap, verdict>>
      PROVE  Effect
  BY <1>0, <1>3 DEF TypeOK
<1> QED
  BY <1>1, <1>2, <1>3 DEF FirstLookup

(* The first critical section keeps the invariant.                         *)
LEMMA FirstLookupIInv ==
  ASSUME IInv, NEW t \in Callers, FirstLookup(t)
  PROVE  IInv'
<1> USE DEF IInv
<1>1. /\ HeapOK(heap')
      /\ \A d \in Addresses : heap'[d].pid = heap[d].pid
      /\ \A d \in Addresses \ table : heap'[d] = heap[d]
      /\ pc' = [pc EXCEPT ![t] = pc'[t]]
      /\ pc'[t] \in {"allocate", "notify", "return"}
      /\ verdict' \in [Callers -> {"pending", "allow", "deny", "failed"}]
  BY FirstLookupEffect
<1>2. /\ pc[t] = "firstLookup"
      /\ UNCHANGED <<table, trackedPidCount, config, driver, clock, processId,
                     currentTime, newContext>>
  BY DEF FirstLookup
<1>3. TypeOK'
  BY <1>1, <1>2 DEF TypeOK, HeapOK, Location, config
<1>4. Holding'
  BY <1>1, <1>2 DEF Holding, TypeOK
<1>5. NoDangling'
  BY <1>1, <1>2 DEF NoDangling, TypeOK
<1>6. OneContextPerPid'
  BY <1>1, <1>2 DEF OneContextPerPid, TypeOK
<1>7. CountMatchesTable'
  BY <1>2 DEF CountMatchesTable
<1> QED
  BY <1>3, <1>4, <1>5, <1>6, <1>7

(* An allocation takes an address that is neither linked nor held.         *)
LEMMA CreateProcessContextIInv ==
  ASSUME IInv, NEW t \in Callers, CreateProcessContext(t)
  PROVE  IInv'
<1> USE DEF IInv
<1>1. /\ pc[t] = "allocate"
      /\ UNCHANGED <<table, trackedPidCount, config, driver, clock, processId,
                     currentTime>>
  BY DEF CreateProcessContext
<1>2. processId[t] \in Pids /\ newContext[t] = Null
  BY <1>1 DEF Holding
<1>3. CASE Decide(t, "failed", "return") /\ UNCHANGED <<heap, newContext>>
  <2>1. TypeOK'
    BY <1>1, <1>3 DEF TypeOK, Decide, Location, config
  <2>2. Holding' /\ NoDangling' /\ OneContextPerPid' /\ CountMatchesTable'
    BY <1>1, <1>2, <1>3 DEF Holding, NoDangling, OneContextPerPid,
                            CountMatchesTable, Decide, TypeOK
  <2> QED
    BY <2>1, <2>2
<1>4. ASSUME NEW c \in Addresses, heap[c].pid = NoPid,
             heap' = [heap EXCEPT ![c] = NewContext(processId[t])],
             newContext' = [newContext EXCEPT ![t] = c],
             pc' = [pc EXCEPT ![t] = "secondLookup"],
             UNCHANGED verdict
      PROVE  IInv'
  <2>1. HeapOK(heap')
    BY <1>2, <1>4, FreshContexts, HeapUpdate DEF TypeOK, HeapOK
  <2>2. TypeOK'
    BY <1>1, <1>4, <2>1 DEF TypeOK, HeapOK, Location, config
  <2>3. Holding'
    BY <1>1, <1>2, <1>4, ConstantsAssumption DEF Holding, TypeOK
  <2>4. c \notin table /\ \A u \in Callers : newContext[u] # c
    BY <1>4, ConstantsAssumption, FreshContexts DEF NoDangling, Holding
  <2>5. \A d \in Addresses \ {c} : heap'[d] = heap[d]
    BY <1>4 DEF TypeOK
  <2>6. NoDangling'
    <3>1. \A d \in table' : heap'[d].pid \in Pids
      BY <1>1, <2>4, <2>5 DEF NoDangling, TypeOK
    <3>2. ASSUME NEW u \in Callers, newContext'[u] # Null
          PROVE  /\ newContext'[u] \notin table'
                 /\ heap'[newContext'[u]] = NewContext(processId'[u])
                 /\ \A v \in Callers \ {u} : newContext'[v] # newContext'[u]
      <4>1. CASE u = t
        BY <1>1, <1>4, <2>4, <4>1 DEF TypeOK
      <4>2. CASE u # t
        <5>1. newContext'[u] = newContext[u] /\ newContext[u] # c
                /\ newContext[u] \in Addresses
          BY <1>4, <2>4, <3>2, <4>2 DEF TypeOK
        <5> QED
          BY <1>1, <1>4, <2>5, <5>1, <3>2 DEF NoDangling, TypeOK
      <4> QED
        BY <4>1, <4>2
    <3> HIDE DEF IInv
    <3> QED
      BY <3>1, <3>2 DEF NoDangling
  <2>7. OneContextPerPid'
    BY <1>1, <2>4, <2>5 DEF OneContextPerPid, TypeOK
  <2>8. CountMatchesTable'
    BY <1>1 DEF CountMatchesTable
  <2> QED
    BY <2>2, <2>3, <2>6, <2>7, <2>8
<1> QED
  BY <1>3, <1>4 DEF CreateProcessContext

(* The allocation that a caller brings to the second critical section is   *)
(* its own.                                                                *)
LEMMA OwnContext ==
  ASSUME IInv, NEW t \in Callers, pc[t] = "secondLookup"
  PROVE  /\ newContext[t] \in Addresses \ table /\ newContext[t] # Null
         /\ processId[t] \in Pids
         /\ heap[newContext[t]].pid = processId[t]
         /\ \A u \in Callers \ {t} : newContext[u] # newContext[t]
BY FreshContexts DEF IInv, Holding, NoDangling, TypeOK

(* Two outcomes of the second critical section: the caller's allocation    *)
(* was freed, or linked for a process that had no context.                 *)
Lost(own) == heap'[own] = Free /\ UNCHANGED <<table, trackedPidCount>>

Won(own, p) ==
  /\ Lookup(p) = {}
  /\ heap'[own].pid = p
  /\ table' = table \union {own}
  /\ trackedPidCount' = trackedPidCount + 1

(* Both change the pool only at linked addresses and at the caller's own,  *)
(* leave the process of every linked context alone, and end the judgement. *)
LEMMA SecondLookupEffect ==
  ASSUME IInv, NEW t \in Callers, SecondLookup(t)
  PROVE  /\ HeapOK(heap')
         /\ \A d \in table : heap'[d].pid = heap[d].pid
         /\ \A d \in Addresses \ (table \union {newContext[t]}) :
              heap'[d] = heap[d]
         /\ pc' = [pc EXCEPT ![t] = pc'[t]]
         /\ pc'[t] \in {"notify", "return"}
         /\ verdict' \in [Callers -> {"pending", "allow", "deny", "failed"}]
         /\ Lost(newContext[t]) \/ Won(newContext[t], processId[t])
<1> USE DEF IInv
<1> DEFINE own == newContext[t]
           Effect ==
             /\ HeapOK(heap')
             /\ \A d \in table : heap'[d].pid = heap[d].pid
             /\ \A d \in Addresses \ (table \union {own}) : heap'[d] = heap[d]
             /\ pc' = [pc EXCEPT ![t] = pc'[t]]
             /\ pc'[t] \in {"notify", "return"}
             /\ verdict' \in [Callers -> {"pending", "allow", "deny", "failed"}]
           Linked == Lost(own) \/ Won(own, processId[t])
<1> SUFFICES Effect /\ Linked
  OBVIOUS
<1>2. /\ own \in Addresses /\ own # Null /\ own \notin table
      /\ processId[t] \in Pids
      /\ heap[own].pid = processId[t]
  BY OwnContext DEF SecondLookup
<1>3. HeapOK(heap) /\ table \subseteq Addresses
  BY DEF TypeOK, HeapOK
<1>4. /\ HeapOK(Discarded(t)) /\ Discarded(t)[own] = Free
      /\ \A d \in Addresses \ {own} : Discarded(t)[d] = heap[d]
  BY <1>2, <1>3, FreshContexts, HeapUpdate DEF Discarded, HeapOK
<1>5. ASSUME NEW c \in Raced(t), RecordAndEvaluate(t, c, Discarded(t)),
             UNCHANGED <<table, trackedPidCount>>
      PROVE  Effect /\ Linked
  <2>1. c \in Addresses /\ c \in table
    BY <1>3 DEF Raced, Lookup
  <2>2. PICK next \in {"notify", "return"}, answer \in {"allow", "deny"} :
          Decide(t, answer, next)
    BY <1>4, <1>5, <2>1, RecordAndEvaluateEffect
  <2>3. /\ HeapOK(heap')
        /\ \A d \in Addresses : heap'[d].pid = Discarded(t)[d].pid
        /\ \A d \in Addresses \ {c} : heap'[d] = Discarded(t)[d]
    BY <1>4, <1>5, <2>1, RecordAndEvaluateEffect
  <2>4. Effect
    BY <1>2, <1>3, <1>4, <2>1, <2>2, <2>3 DEF Decide, TypeOK
  <2>5. heap'[own] = Free
    BY <1>2, <1>4, <2>1, <2>3
  <2> QED
    BY <1>5, <2>4, <2>5 DEF Lost
<1>6. ASSUME DenyBlocked(t), heap' = Discarded(t),
             UNCHANGED <<table, trackedPidCount>>
      PROVE  Effect /\ Linked
  <2>1. Effect
    BY <1>2, <1>3, <1>4, <1>6 DEF DenyBlocked, Decide, TypeOK
  <2> QED
    BY <1>4, <1>6, <2>1 DEF Lost
<1>7. ASSUME InsertOwn(t)
      PROVE  Effect /\ Linked
  <2>1. /\ Lookup(processId[t]) = {}
        /\ table' = table \union {own}
        /\ trackedPidCount' = trackedPidCount + 1
        /\ RecordAndEvaluate(t, own, heap)
    BY <1>7 DEF InsertOwn, Raced
  <2>2. PICK next \in {"notify", "return"}, answer \in {"allow", "deny"} :
          Decide(t, answer, next)
    BY <1>2, <1>3, <2>1, RecordAndEvaluateEffect
  <2>3. /\ HeapOK(heap')
        /\ \A d \in Addresses : heap'[d].pid = heap[d].pid
        /\ \A d \in Addresses \ {own} : heap'[d] = heap[d]
    BY <1>2, <1>3, <2>1, RecordAndEvaluateEffect
  <2>4. Effect
    BY <1>3, <2>2, <2>3 DEF Decide, TypeOK
  <2> QED
    BY <1>2, <2>1, <2>3, <2>4 DEF Won
<1> QED
  BY <1>5, <1>6, <1>7 DEF SecondLookup, UseWinner

(* The second critical section keeps the invariant.                        *)
LEMMA SecondLookupIInv ==
  ASSUME IInv, NEW t \in Callers, SecondLookup(t)
  PROVE  IInv'
<1> USE DEF IInv, Lost, Won
<1> DEFINE own == newContext[t]
<1>1. /\ pc[t] = "secondLookup"
      /\ newContext' = [newContext EXCEPT ![t] = Null]
      /\ UNCHANGED <<config, driver, clock, processId, currentTime>>
  BY DEF SecondLookup
<1>2. /\ own \in Addresses /\ own # Null /\ own \notin table
      /\ processId[t] \in Pids
      /\ heap[own].pid = processId[t]
      /\ \A u \in Callers \ {t} : newContext[u] # own
  BY <1>1, OwnContext
<1>3. HeapOK(heap) /\ table \subseteq Addresses
  BY DEF TypeOK, HeapOK
<1>4. /\ HeapOK(heap')
      /\ \A d \in table : heap'[d].pid = heap[d].pid
      /\ \A d \in Addresses \ (table \union {own}) : heap'[d] = heap[d]
      /\ pc' = [pc EXCEPT ![t] = pc'[t]]
      /\ pc'[t] \in {"notify", "return"}
      /\ verdict' \in [Callers -> {"pending", "allow", "deny", "failed"}]
      /\ Lost(own) \/ Won(own, processId[t])
  BY SecondLookupEffect
<1>5. TypeOK'
  <2>1. table' \subseteq Addresses
    BY <1>2, <1>3, <1>4
  <2>2. trackedPidCount' \in Nat
    BY <1>4 DEF TypeOK
  <2> QED
    BY <1>1, <1>4, <2>1, <2>2 DEF TypeOK, HeapOK, Location, config
<1>6. Holding'
  BY <1>1, <1>4 DEF Holding, TypeOK
<1>7. NoDangling'
  <2>1. \A d \in table' : heap'[d].pid \in Pids
    BY <1>2, <1>4 DEF NoDangling
  <2>2. ASSUME NEW u \in Callers, newContext'[u] # Null
        PROVE  /\ newContext'[u] \notin table'
               /\ heap'[newContext'[u]] = NewContext(processId'[u])
               /\ \A v \in Callers \ {u} : newContext'[v] # newContext'[u]
    <3>1. u # t /\ newContext'[u] = newContext[u] /\ newContext[u] # own
            /\ newContext[u] \in Addresses
      BY <1>1, <1>2, <2>2 DEF TypeOK
    <3>2. newContext[u] \notin table
            /\ heap[newContext[u]] = NewContext(processId[u])
            /\ \A v \in Callers \ {u} : newContext[v] # newContext[u]
      BY <2>2, <3>1 DEF NoDangling
    <3>3. newContext'[u] \notin table'
      BY <1>4, <3>1, <3>2
    <3>4. heap'[newContext'[u]] = NewContext(processId'[u])
      BY <1>1, <1>4, <3>1, <3>2
    <3>5. \A v \in Callers \ {u} : newContext'[v] # newContext'[u]
      BY <1>1, <2>2, <3>1, <3>2 DEF TypeOK
    <3> QED
      BY <3>3, <3>4, <3>5
  <2> QED
    BY <2>1, <2>2 DEF NoDangling
<1>8. OneContextPerPid'
  <2>1. CASE UNCHANGED table
    BY <1>4, <2>1 DEF OneContextPerPid
  <2>2. CASE /\ Lookup(processId[t]) = {}
             /\ heap'[own].pid = processId[t]
             /\ table' = table \union {own}
    <3>1. \A d \in table : heap'[d].pid # heap'[own].pid
      BY <1>4, <2>2 DEF Lookup
    <3> QED
      BY <1>4, <2>2, <3>1 DEF OneContextPerPid
  <2> QED
    BY <1>4, <2>1, <2>2
<1>9. CountMatchesTable'
  BY <1>2, <1>4, TableFinite, FS_AddElement DEF CountMatchesTable
<1> QED
  BY <1>5, <1>6, <1>7, <1>8, <1>9

(* Reporting a block and returning touch only the caller's locals.         *)
LEMMA SendAndReturnIInv ==
  ASSUME IInv, NEW t \in Callers, SendBlockNotification(t) \/ Return(t)
  PROVE  IInv'
<1> USE DEF IInv
<1>1. CASE SendBlockNotification(t)
  BY <1>1 DEF SendBlockNotification, TypeOK, Holding, NoDangling, Location,
              OneContextPerPid, CountMatchesTable, tracker, config
<1>2. CASE Return(t)
  <2>1. TypeOK'
    BY <1>2 DEF Return, TypeOK, Location, tracker, config
  <2>2. newContext[t] = Null
    BY <1>2 DEF Return, Holding
  <2>3. Holding' /\ NoDangling' /\ OneContextPerPid' /\ CountMatchesTable'
    BY <1>2, <2>2 DEF Return, TypeOK, Holding, NoDangling, OneContextPerPid,
                      CountMatchesTable, tracker
  <2> QED
    BY <2>1, <2>3
<1> QED
  BY <1>1, <1>2

(* Unblocking frees a context that is linked, hence held by no caller.     *)
LEMMA UnblockProcessIInv ==
  ASSUME IInv, NEW p \in Pids, UnblockProcess(p)
  PROVE  IInv'
<1> USE DEF IInv
<1>1. PICK c \in Lookup(p) :
        /\ table' = table \ {c}
        /\ trackedPidCount' = trackedPidCount - 1
        /\ heap' = [heap EXCEPT ![c] = Free]
  BY DEF UnblockProcess
<1>2. UNCHANGED <<config, driver, clock, locals>>
  BY DEF UnblockProcess
<1>3. c \in table /\ c \in Addresses
  BY <1>1 DEF Lookup, TypeOK
<1>4. HeapOK(heap') /\ \A d \in Addresses \ {c} : heap'[d] = heap[d]
  BY <1>1, <1>3, FreshContexts, HeapUpdate DEF HeapOK, TypeOK
<1>5. CountMatchesTable' /\ trackedPidCount' \in Nat
  <2>1. Cardinality(table \ {c}) = Cardinality(table) - 1
    BY <1>3, TableFinite, FS_RemoveElement
  <2>2. Cardinality(table \ {c}) \in Nat
    BY TableFinite, FS_RemoveElement, FS_CardinalityType
  <2> QED
    BY <1>1, <2>1, <2>2 DEF CountMatchesTable
<1>6. TypeOK'
  BY <1>1, <1>2, <1>4, <1>5 DEF TypeOK, HeapOK, config, locals
<1>7. Holding'
  BY <1>2 DEF Holding, locals
<1>8. NoDangling'
  <2>1. ASSUME NEW u \in Callers, newContext[u] # Null
        PROVE  newContext[u] \in Addresses \ {c}
    BY <1>3, <2>1 DEF NoDangling, TypeOK
  <2> QED
    BY <1>1, <1>2, <1>4, <2>1 DEF NoDangling, locals, TypeOK
<1>9. OneContextPerPid'
  BY <1>1, <1>4 DEF OneContextPerPid, TypeOK
<1> QED
  BY <1>5, <1>6, <1>7, <1>8, <1>9

(* Entering the driver, the passing of time and the messages that change   *)
(* the configuration leave the tracker alone.                              *)
LEMMA OutsideTheTrackerIInv ==
  ASSUME IInv,
         \/ \E t \in Callers, p \in Pids : RecordOperation(t, p)
         \/ \E u \in Updates : ApplyConfig(u)
         \/ RequestPause \/ RequestResume \/ Tick
         \/ UNCHANGED vars
  PROVE  IInv'
<1> USE DEF IInv
<1>1. ASSUME NEW t \in Callers, NEW p \in Pids, RecordOperation(t, p)
      PROVE  IInv'
  <2>1. TypeOK'
    BY <1>1 DEF RecordOperation, TypeOK, Location, tracker, config
  <2>2. newContext[t] = Null
    BY <1>1 DEF RecordOperation, Holding
  <2>3. Holding' /\ NoDangling' /\ OneContextPerPid' /\ CountMatchesTable'
    BY <1>1, <2>2 DEF RecordOperation, TypeOK, Holding, NoDangling,
                      OneContextPerPid, CountMatchesTable, tracker
  <2> QED
    BY <2>1, <2>3
<1>2. ASSUME \/ \E u \in Updates : ApplyConfig(u)
             \/ RequestPause \/ RequestResume \/ Tick \/ UNCHANGED vars
      PROVE  IInv'
  <2>1. UNCHANGED <<tracker, locals>>
    BY <1>2 DEF ApplyConfig, RequestPause, RequestResume, Tick, vars
  <2>2. /\ fileCountThreshold' \in Nat \ {0}
        /\ timeWindowTicks' \in Nat \ {0}
        /\ monitoringEnabled' \in BOOLEAN
        /\ UNCHANGED driver
        /\ clock' \in Nat
    <3>1. CASE \E u \in Updates : ApplyConfig(u)
      <4>1. PICK u \in Updates : ApplyConfig(u)
        BY <3>1
      <4>2. u.threshold \in Nat /\ u.window \in Nat /\ u.enabled \in BOOLEAN
        BY ConstantsAssumption
      <4> QED
        BY <4>1, <4>2 DEF ApplyConfig, TypeOK
    <3>2. CASE RequestPause
      BY <3>2 DEF RequestPause, TypeOK
    <3>3. CASE RequestResume
      BY <3>3 DEF RequestResume, TypeOK
    <3>4. CASE Tick
      BY <3>4 DEF Tick, TypeOK, config
    <3>5. CASE UNCHANGED vars
      BY <3>5 DEF vars, TypeOK, config
    <3> QED
      BY <1>2, <3>1, <3>2, <3>3, <3>4, <3>5
  <2>3. TypeOK'
    BY <2>1, <2>2 DEF TypeOK, tracker, locals
  <2>4. Holding' /\ NoDangling' /\ OneContextPerPid' /\ CountMatchesTable'
    BY <2>1 DEF Holding, NoDangling, OneContextPerPid, CountMatchesTable,
                tracker, locals
  <2> QED
    BY <2>3, <2>4
<1> QED
  BY <1>1, <1>2

(* Unloading empties the table; a context held by a caller is not in it    *)
(* and survives.                                                           *)
LEMMA LifecycleIInv ==
  ASSUME IInv,
         \/ DestroyContextTracking
         \/ UnregisterFilter
         \/ InitializeContextTracking
  PROVE  IInv'
<1> USE DEF IInv
<1>1. table' = {} /\ trackedPidCount' = 0 /\ UNCHANGED <<clock, locals>>
  BY DEF DestroyContextTracking, UnregisterFilter, InitializeContextTracking
<1>2. HeapOK(heap') /\ \A d \in Addresses \ table : heap'[d] = heap[d]
  <2>1. CASE heap' = [c \in Addresses |-> IF c \in table THEN Free ELSE heap[c]]
    BY <2>1, FreshContexts DEF HeapOK, TypeOK
  <2>2. CASE UNCHANGED heap
    BY <2>2 DEF HeapOK, TypeOK
  <2> QED
    BY <2>1, <2>2 DEF DestroyContextTracking, UnregisterFilter,
                      InitializeContextTracking
<1>3. /\ fileCountThreshold' \in Nat \ {0}
      /\ timeWindowTicks' \in Nat \ {0}
      /\ monitoringEnabled' \in BOOLEAN
      /\ driver' \in {"loaded", "unloading", "unloaded"}
  BY ConstantsAssumption DEF DestroyContextTracking, UnregisterFilter,
       InitializeContextTracking, TypeOK, config
<1>4. TypeOK'
  BY <1>1, <1>2, <1>3 DEF TypeOK, HeapOK, locals
<1>5. CountMatchesTable'
  BY <1>1, FS_EmptySet DEF CountMatchesTable
<1>6. NoDangling'
  BY <1>1, <1>2 DEF NoDangling, TypeOK, locals
<1>7. Holding' /\ OneContextPerPid'
  BY <1>1 DEF Holding, OneContextPerPid, locals
<1> QED
  BY <1>4, <1>5, <1>6, <1>7

(* IInv is inductive.                                                      *)
LEMMA NextIInv == IInv /\ [Next]_vars => IInv'
<1> SUFFICES ASSUME IInv, [Next]_vars PROVE IInv'
  OBVIOUS
<1>1. CASE \E t \in Callers : Step(t)
  BY <1>1, FirstLookupIInv, CreateProcessContextIInv, SecondLookupIInv,
     SendAndReturnIInv DEF Step
<1>2. CASE \E p \in Pids : UnblockProcess(p)
  BY <1>2, UnblockProcessIInv
<1>3. CASE DestroyContextTracking \/ UnregisterFilter \/ InitializeContextTracking
  BY <1>3, LifecycleIInv
<1>4. CASE \/ \E t \in Callers, p \in Pids : RecordOperation(t, p)
           \/ \E u \in Updates : ApplyConfig(u)
           \/ RequestPause \/ RequestResume \/ Tick
           \/ UNCHANGED vars
  BY <1>4, OutsideTheTrackerIInv
<1> QED
  BY <1>1, <1>2, <1>3, <1>4 DEF Next
-----------------------------------------------------------------------------
(* Every reachable state satisfies the inductive invariant.                *)
THEOREM Inductive == Spec => []IInv
BY InitIInv, NextIInv, PTL DEF Spec

(* Types: no log exceeds the ring of a context, the counter never drops    *)
(* below zero (it is a ULONG), threshold and window stay positive.         *)
THEOREM TypeCorrect == Spec => []TypeOK
<1>1. IInv => TypeOK
  BY DEF IInv
<1> QED
  BY <1>1, Inductive, PTL

(* RsRecordOperation's double-checked locking never tracks a process       *)
(* twice, however many threads race.                                       *)
THEOREM UniqueContexts == Spec => []OneContextPerPid
<1>1. IInv => OneContextPerPid
  BY DEF IInv
<1> QED
  BY <1>1, Inductive, PTL

(* g_TrackedPidCount is the number of linked contexts.                     *)
THEOREM CountCorrect == Spec => []CountMatchesTable
<1>1. IInv => CountMatchesTable
  BY DEF IInv
<1> QED
  BY <1>1, Inductive, PTL

(* What bounds the tracker, since no code reads RS_MAX_TRACKED_PIDS: there *)
(* are no more contexts than process ids.                                  *)
THEOREM BoundedByPids ==
  IsFiniteSet(Pids) => (Spec => [](trackedPidCount <= Cardinality(Pids)))
<1> SUFFICES ASSUME IsFiniteSet(Pids)
             PROVE  Spec => [](trackedPidCount <= Cardinality(Pids))
  OBVIOUS
<1>1. IInv => trackedPidCount <= Cardinality(Pids)
  <2> SUFFICES ASSUME IInv PROVE trackedPidCount <= Cardinality(Pids)
    OBVIOUS
  <2> DEFINE f == [c \in table |-> heap[c].pid]
  <2>1. f \in Injection(table, Pids)
    BY DEF IInv, NoDangling, OneContextPerPid, Injection, IsInjective
  <2>2. Cardinality(table) <= Cardinality(Pids)
    BY <2>1, FS_Injection
  <2> QED
    BY <2>2 DEF IInv, CountMatchesTable
<1> QED
  BY <1>1, Inductive, PTL

(* No linked context is ever freed, and no allocation is shared.           *)
THEOREM MemorySafe == Spec => []NoDangling
<1>1. IInv => NoDangling
  BY DEF IInv
<1> QED
  BY <1>1, Inductive, PTL
-----------------------------------------------------------------------------
(* What NoLeak rests on when the unload callback waits for every callback: *)
(* from the destruction of the table until the next load nothing runs.     *)
DrainedInv ==
  /\ IInv
  /\ NoLeak
  /\ driver # "loaded" => Drained /\ table = {}

LEMMA InitDrainedInv == Init => DrainedInv
BY InitIInv DEF DrainedInv, Init, NoLeak

(* A caller that takes a step proves that the driver is loaded.            *)
LEMMA StepDrainedInv ==
  ASSUME UnloadDrains, DrainedInv, NEW t \in Callers, Step(t)
  PROVE  NoLeak' /\ (driver # "loaded" => Drained /\ table = {})'
<1> USE DEF DrainedInv
<1>1. driver = "loaded" /\ UNCHANGED driver
  BY DEF Step, Drained, FirstLookup, CreateProcessContext, SecondLookup,
         SendBlockNotification, Return
<1>2. CASE FirstLookup(t)
  <2>1. /\ HeapOK(heap') /\ \A d \in Addresses \ table : heap'[d] = heap[d]
        /\ UNCHANGED <<table, newContext>>
    BY <1>2, FirstLookupEffect DEF FirstLookup, IInv
  <2> QED
    BY <1>1, <2>1 DEF NoLeak
<1>3. CASE CreateProcessContext(t)
  <2>1. newContext[t] = Null
    BY <1>3 DEF CreateProcessContext, IInv, Holding
  <2>2. CASE UNCHANGED <<heap, newContext>>
    BY <1>1, <1>3, <2>2 DEF CreateProcessContext, NoLeak
  <2>3. ASSUME NEW c \in Addresses,
               heap' = [heap EXCEPT ![c] = NewContext(processId[t])],
               newContext' = [newContext EXCEPT ![t] = c],
               UNCHANGED table
        PROVE  NoLeak'
    <3>1. \A d \in Addresses \ {c} : heap'[d] = heap[d]
      BY <2>3 DEF IInv, TypeOK
    <3>2. newContext'[t] = c
      BY <2>3 DEF IInv, TypeOK
    <3>3. \A u \in Callers : newContext[u] \in Addresses => u # t
      BY <2>1, ConstantsAssumption
    <3>4. \A u \in Callers \ {t} : newContext'[u] = newContext[u]
      BY <2>3 DEF IInv, TypeOK
    <3> QED
      BY <2>3, <3>1, <3>2, <3>3, <3>4 DEF NoLeak
  <2> QED
    BY <1>1, <1>3, <2>2, <2>3 DEF CreateProcessContext
<1>4. CASE SecondLookup(t)
  <2> DEFINE own == newContext[t]
  <2>1. /\ \A d \in Addresses \ (table \union {own}) : heap'[d] = heap[d]
        /\ Lost(own) \/ Won(own, processId[t])
    BY <1>4, SecondLookupEffect
  <2>2. newContext' = [newContext EXCEPT ![t] = Null]
    BY <1>4 DEF SecondLookup
  <2>3. \A u \in Callers \ {t} : newContext'[u] = newContext[u]
    BY <2>2 DEF IInv, TypeOK
  <2>4. ASSUME NEW d \in Addresses, heap'[d] # Free
        PROVE  d \in table' \/ \E u \in Callers : newContext'[u] = d
    <3>1. CASE d \in table \/ d = own
      BY <2>1, <2>4, <3>1 DEF Lost, Won
    <3>2. CASE d \notin table /\ d # own
      <4>1. PICK u \in Callers : newContext[u] = d
        BY <2>1, <2>4, <3>2 DEF NoLeak
      <4>2. u # t
        BY <3>2, <4>1
      <4> QED
        BY <2>3, <4>1, <4>2
    <3> QED
      BY <3>1, <3>2
  <2> QED
    BY <1>1, <2>4 DEF NoLeak
<1>5. CASE SendBlockNotification(t) \/ Return(t)
  BY <1>1, <1>5 DEF SendBlockNotification, Return, NoLeak, tracker
<1> QED
  BY <1>2, <1>3, <1>4, <1>5 DEF Step

LEMMA NextDrainedInv ==
  ASSUME UnloadDrains, DrainedInv, [Next]_vars
  PROVE  DrainedInv'
<1> USE DEF DrainedInv
<1>1. IInv'
  BY NextIInv
<1>2. CASE \E t \in Callers : Step(t)
  BY <1>1, <1>2, StepDrainedInv
<1>3. ASSUME NEW t \in Callers, NEW p \in Pids, RecordOperation(t, p)
      PROVE  DrainedInv'
  BY <1>1, <1>3 DEF RecordOperation, NoLeak, tracker
<1>4. ASSUME NEW p \in Pids, UnblockProcess(p)
      PROVE  DrainedInv'
  BY <1>1, <1>4 DEF UnblockProcess, Lookup, NoLeak, locals, IInv, TypeOK
<1>5. CASE DestroyContextTracking
  <2>1. Drained /\ \A t \in Callers : newContext[t] = Null
    BY <1>5 DEF DestroyContextTracking, Drained, IInv, Holding
  <2>2. \A d \in Addresses : heap[d] # Free => d \in table
    BY <2>1, ConstantsAssumption DEF NoLeak
  <2>3. \A d \in Addresses : heap'[d] = Free
    BY <1>5, <2>2 DEF DestroyContextTracking
  <2> QED
    BY <1>1, <1>5, <2>1, <2>3 DEF DestroyContextTracking, NoLeak, locals, Drained
<1>6. CASE UnregisterFilter \/ InitializeContextTracking
  <2>1. driver # "loaded" /\ UNCHANGED <<heap, locals>> /\ table' = {}
    BY <1>6 DEF UnregisterFilter, InitializeContextTracking
  <2> QED
    BY <1>1, <2>1 DEF NoLeak, Drained, locals
<1>7. CASE \/ \E u \in Updates : ApplyConfig(u)
           \/ RequestPause \/ RequestResume \/ Tick
           \/ UNCHANGED vars
  BY <1>1, <1>7 DEF ApplyConfig, RequestPause, RequestResume, Tick, vars,
       NoLeak, Drained, tracker, locals
<1> QED
  BY <1>2, <1>3, <1>4, <1>5, <1>6, <1>7 DEF Next

(* When no callback runs during the unload callback, every context is      *)
(* linked or in a caller's hand at all times, and so none is left in the   *)
(* pool when the driver is gone.                                           *)
THEOREM LeakFree == UnloadDrains => (Spec => []NoLeak)
<1> SUFFICES ASSUME UnloadDrains PROVE Spec => []NoLeak
  OBVIOUS
<1>1. DrainedInv /\ [Next]_vars => DrainedInv'
  BY NextDrainedInv
<1>2. DrainedInv => NoLeak
  BY DEF DrainedInv
<1> QED
  BY <1>1, <1>2, InitDrainedInv, PTL DEF Spec
=============================================================================
