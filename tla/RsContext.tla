------------------------------ MODULE RsContext ------------------------------
(***************************************************************************)
(* The per-process tracker of the driver, kernel/RsContext.c.              *)
(*                                                                         *)
(* Any number of callers are inside RsRecordOperation at once, one per     *)
(* file operation in flight.  Each g_ContextLock critical section is one   *)
(* action.  Between two of them a caller holds only its locals: the time   *)
(* it sampled before the first lock, and the context it allocated with the *)
(* lock released.                                                          *)
(*                                                                         *)
(* `heap' is the pool: what each address holds, Free if nothing.  `table'  *)
(* is the set of contexts linked into g_ContextHashTable.  Both exist so   *)
(* that a second context for a process, a context freed while linked and   *)
(* a context neither linked nor freed are states the model can express.    *)
(* The buckets are left out: a lookup compares process ids, never hashes.  *)
(* So are the image name and BlockedTimestamp, which are only reported,    *)
(* and LastActivityTime, which is written and never read.                  *)
(***************************************************************************)
EXTENDS Integers, Sequences, FiniteSets, RsOperations

CONSTANTS Pids,              \* process ids that reach the tracker
          NoPid,             \* PID 0, which never reaches it
          Addresses,         \* addresses of the nonpaged pool
          Null,              \* the null pointer
          Callers,           \* threads inside RsRecordOperation
          DefaultThreshold,  \* RS_DEFAULT_FILE_COUNT_THRESHOLD
          DefaultWindow,     \* RS_DEFAULT_TIME_WINDOW_SECONDS, in ticks
          Updates,           \* contents of the RsUpdateConfig messages
          UnloadDrains,      \* is the unload callback only called, and no
                             \* operation let in, once no callback runs?
          MaxTrackedPids,    \* RS_MAX_TRACKED_PIDS, which no code reads
          MaxClock           \* bound on the interrupt time

ASSUME ConstantsAssumption ==
  /\ NoPid \notin Pids
  /\ Null \notin Addresses
  /\ IsFiniteSet(Addresses)
  /\ MaxTrackedPids \in Nat
  /\ DefaultThreshold \in Nat \ {0}
  /\ DefaultWindow \in Nat \ {0}
  /\ UnloadDrains \in BOOLEAN
  /\ Updates \subseteq [threshold : Nat, window : Nat, enabled : BOOLEAN]
  /\ MaxClock \in Nat

VARIABLES
  heap,                \* the context at each address
  table,               \* the addresses linked into the hash table
  trackedPidCount,     \* g_TrackedPidCount
  fileCountThreshold,  \* g_FileCountThreshold
  timeWindowTicks,     \* g_TimeWindowTicks
  monitoringEnabled,   \* g_MonitoringEnabled
  driver,              \* "loaded", "unloading" or "unloaded"
  clock,               \* KeQueryInterruptTime
  pc,                  \* where each caller is
  processId,           \* its ProcessId argument
  currentTime,         \* its currentTime local
  newContext,          \* its newContext local
  verdict              \* its status and *ShouldBlock, once decided

tracker == <<heap, table, trackedPidCount>>
config  == <<fileCountThreshold, timeWindowTicks, monitoringEnabled>>
locals  == <<pc, processId, currentTime, newContext, verdict>>
vars    == <<tracker, config, driver, clock, locals>>
-----------------------------------------------------------------------------
Free == [pid |-> NoPid, operations |-> <<>>, isBlocked |-> FALSE]

(* A zeroed allocation with its process id filled in.                      *)
NewContext(p) == [Free EXCEPT !.pid = p]

(* The linked contexts of a process: RsLookupProcessContext returns one.   *)
Lookup(p) == {c \in table : heap[c].pid = p}

IsBlocked(p) == \E c \in Lookup(p) : heap[c].isBlocked

(* No callback is executing.                                               *)
Drained == \A t \in Callers : pc[t] = "idle"

Init ==
  /\ heap = [c \in Addresses |-> Free]
  /\ table = {}
  /\ trackedPidCount = 0
  /\ fileCountThreshold = DefaultThreshold
  /\ timeWindowTicks = DefaultWindow
  /\ monitoringEnabled = TRUE
  /\ driver = "loaded"
  /\ clock = 0
  /\ pc = [t \in Callers |-> "idle"]
  /\ processId = [t \in Callers |-> NoPid]
  /\ currentTime = [t \in Callers |-> 0]
  /\ newContext = [t \in Callers |-> Null]
  /\ verdict = [t \in Callers |-> "pending"]
-----------------------------------------------------------------------------
(* A pre-operation callback calls RsRecordOperation, which samples the     *)
(* time before it asks for the lock.                                       *)
RecordOperation(t, p) ==
  /\ driver = "loaded" \/ (driver = "unloading" /\ ~UnloadDrains)
  /\ pc[t] = "idle"
  /\ pc' = [pc EXCEPT ![t] = "firstLookup"]
  /\ processId' = [processId EXCEPT ![t] = p]
  /\ currentTime' = [currentTime EXCEPT ![t] = clock]
  /\ UNCHANGED <<tracker, config, driver, clock, newContext, verdict>>

Decide(t, answer, next) ==
  /\ verdict' = [verdict EXCEPT ![t] = answer]
  /\ pc' = [pc EXCEPT ![t] = next]

(* The context was blocked before: deny without recording.                 *)
DenyBlocked(t) == Decide(t, "deny", "return")

(* Mutant: a pause does not keep the driver from blocking.                 *)
ExceededWhilePaused(t, context, ops) ==
  /\ RecentCount(ops, currentTime[t], timeWindowTicks) >= fileCountThreshold
  /\ ~context.isBlocked

(* Does a context whose log is now `ops' have to be blocked?               *)
Exceeded(t, context, ops) ==
  /\ RecentCount(ops, currentTime[t], timeWindowTicks) >= fileCountThreshold
  /\ ~context.isBlocked
  /\ monitoringEnabled

(* RecordAndEvaluate: prune, append, count and compare, on the context at  *)
(* address c of the pool `h'.                                              *)
RecordAndEvaluate(t, c, h) ==
  LET ops == Recorded(h[c].operations, currentTime[t], timeWindowTicks)
  IN  IF Exceeded(t, h[c], ops)
      THEN /\ heap' = [h EXCEPT ![c].operations = ops,
                                ![c].isBlocked = TRUE]
           /\ Decide(t, "deny", "notify")
      ELSE /\ heap' = [h EXCEPT ![c].operations = ops]
           /\ Decide(t, "allow", "return")

(* The first critical section.                                             *)
FirstLookup(t) ==
  /\ pc[t] = "firstLookup"
  /\ \/ \E c \in Lookup(processId[t]) :
          \/ heap[c].isBlocked /\ DenyBlocked(t) /\ UNCHANGED heap
          \/ ~heap[c].isBlocked /\ RecordAndEvaluate(t, c, heap)
     \/ /\ Lookup(processId[t]) = {}
        /\ pc' = [pc EXCEPT ![t] = "allocate"]
        /\ UNCHANGED <<heap, verdict>>
  /\ UNCHANGED <<table, trackedPidCount, config, driver, clock, processId,
                 currentTime, newContext>>

(* RsCreateProcessContext, with no lock held.  The pool may be exhausted,  *)
(* or the allocation may fail for reasons of its own.                      *)
CreateProcessContext(t) ==
  /\ pc[t] = "allocate"
  /\ \/ \E c \in {a \in Addresses : heap[a].pid = NoPid} :
          /\ heap' = [heap EXCEPT ![c] = NewContext(processId[t])]
          /\ newContext' = [newContext EXCEPT ![t] = c]
          /\ pc' = [pc EXCEPT ![t] = "secondLookup"]
          /\ UNCHANGED verdict
     \/ /\ Decide(t, "failed", "return")
        /\ UNCHANGED <<heap, newContext>>
  /\ UNCHANGED <<table, trackedPidCount, config, driver, clock, processId,
                 currentTime>>

(* Mutant: the table is not searched again after the allocation.           *)
RacedUnchecked(t) == {}

(* The context that another caller linked since the first lookup, if any.  *)
Raced(t) == Lookup(processId[t])

(* Mutant: the allocation that lost the race is forgotten.                 *)
DiscardedLeaking(t) == heap

(* The pool without the allocation that lost the race.                     *)
Discarded(t) == [heap EXCEPT ![newContext[t]] = Free]

(* Mutant: the winner's context is used without looking at its block.      *)
UseWinnerUnchecked(t) ==
  /\ \E c \in Raced(t) : RecordAndEvaluate(t, c, Discarded(t))
  /\ UNCHANGED <<table, trackedPidCount>>

(* Mutant: having lost the race, start over instead of using the winner's. *)
UseWinnerRetrying(t) ==
  /\ Raced(t) # {}
  /\ heap' = Discarded(t)
  /\ pc' = [pc EXCEPT ![t] = "firstLookup"]
  /\ UNCHANGED <<table, trackedPidCount, verdict>>

(* Another caller won, and may even have blocked the process since.        *)
UseWinner(t) ==
  /\ \E c \in Raced(t) :
       \/ heap[c].isBlocked /\ DenyBlocked(t) /\ heap' = Discarded(t)
       \/ ~heap[c].isBlocked /\ RecordAndEvaluate(t, c, Discarded(t))
  /\ UNCHANGED <<table, trackedPidCount>>

InsertOwn(t) ==
  /\ Raced(t) = {}
  /\ table' = table \union {newContext[t]}
  /\ trackedPidCount' = trackedPidCount + 1
  /\ RecordAndEvaluate(t, newContext[t], heap)

(* The second critical section.                                            *)
SecondLookup(t) ==
  /\ pc[t] = "secondLookup"
  /\ UseWinner(t) \/ InsertOwn(t)
  /\ newContext' = [newContext EXCEPT ![t] = Null]
  /\ UNCHANGED <<config, driver, clock, processId, currentTime>>

(* RsSendBlockNotification, from the caller's own copies of what it needs, *)
(* with no lock held.  It returns whatever becomes of the message: the     *)
(* send has a timeout and its status is ignored.                           *)
SendBlockNotification(t) ==
  /\ pc[t] = "notify"
  /\ pc' = [pc EXCEPT ![t] = "return"]
  /\ UNCHANGED <<tracker, config, driver, clock, processId, currentTime,
                 newContext, verdict>>

Return(t) ==
  /\ pc[t] = "return"
  /\ pc' = [pc EXCEPT ![t] = "idle"]
  /\ processId' = [processId EXCEPT ![t] = NoPid]
  /\ currentTime' = [currentTime EXCEPT ![t] = 0]
  /\ verdict' = [verdict EXCEPT ![t] = "pending"]
  /\ UNCHANGED <<tracker, config, driver, clock, newContext>>
-----------------------------------------------------------------------------
(* Mutant: the removal forgets the counter.                                *)
UnblockProcessUncounted(p) ==
  /\ driver # "unloaded"
  /\ \E c \in Lookup(p) :
       /\ table' = table \ {c}
       /\ heap' = [heap EXCEPT ![c] = Free]
  /\ UNCHANGED <<trackedPidCount, config, driver, clock, locals>>

(* Mutant: the context is freed and stays linked.                          *)
UnblockProcessLinked(p) ==
  /\ driver # "unloaded"
  /\ \E c \in Lookup(p) :
       /\ trackedPidCount' = trackedPidCount - 1
       /\ heap' = [heap EXCEPT ![c] = Free]
  /\ UNCHANGED <<table, config, driver, clock, locals>>

(* RsUnblockProcess removes the whole context.  Unblocking a process that  *)
(* is not tracked changes nothing.                                         *)
UnblockProcess(p) ==
  /\ driver # "unloaded"
  /\ \E c \in Lookup(p) :
       /\ table' = table \ {c}
       /\ trackedPidCount' = trackedPidCount - 1
       /\ heap' = [heap EXCEPT ![c] = Free]
  /\ UNCHANGED <<config, driver, clock, locals>>

(* RsApplyConfig: 0 leaves a number unchanged, the flag is always taken.   *)
ApplyConfig(u) ==
  /\ driver # "unloaded"
  /\ fileCountThreshold' = IF u.threshold > 0 THEN u.threshold
                                              ELSE fileCountThreshold
  /\ timeWindowTicks' = IF u.window > 0 THEN u.window ELSE timeWindowTicks
  /\ monitoringEnabled' = u.enabled
  /\ UNCHANGED <<tracker, driver, clock, locals>>

(* RsRequestPause and RsRequestResume.                                     *)
RequestPause ==
  /\ driver # "unloaded"
  /\ monitoringEnabled' = FALSE
  /\ UNCHANGED <<tracker, fileCountThreshold, timeWindowTicks, driver, clock,
                 locals>>

RequestResume ==
  /\ driver # "unloaded"
  /\ monitoringEnabled' = TRUE
  /\ UNCHANGED <<tracker, fileCountThreshold, timeWindowTicks, driver, clock,
                 locals>>

(* RsUnloadCallback, from RsDestroyContextTracking on.  A client that      *)
(* connected while the port was being closed (RsCommPort.c:269-283) may    *)
(* still send messages.  The callbacks are only unregistered afterwards.   *)
DestroyContextTracking ==
  /\ driver = "loaded"
  /\ UnloadDrains => Drained
  /\ heap' = [c \in Addresses |-> IF c \in table THEN Free ELSE heap[c]]
  /\ table' = {}
  /\ trackedPidCount' = 0
  /\ driver' = "unloading"
  /\ UNCHANGED <<config, clock, locals>>

(* FltUnregisterFilter waits for the callbacks that still run.  The image  *)
(* then goes away with its hash table; the pool stays as it is.            *)
UnregisterFilter ==
  /\ driver = "unloading"
  /\ Drained
  /\ table' = {}
  /\ trackedPidCount' = 0
  /\ driver' = "unloaded"
  /\ UNCHANGED <<heap, config, clock, locals>>

(* A new image: the initialised data section, RsInitializeContextTracking. *)
InitializeContextTracking ==
  /\ driver = "unloaded"
  /\ driver' = "loaded"
  /\ table' = {}
  /\ trackedPidCount' = 0
  /\ fileCountThreshold' = DefaultThreshold
  /\ timeWindowTicks' = DefaultWindow
  /\ monitoringEnabled' = TRUE
  /\ UNCHANGED <<heap, clock, locals>>

(* Time passes at any point of any call.                                   *)
Tick ==
  /\ clock < MaxClock
  /\ clock' = clock + 1
  /\ UNCHANGED <<tracker, config, driver, locals>>

(* What a caller does once it has entered.                                 *)
Step(t) ==
  \/ FirstLookup(t)
  \/ CreateProcessContext(t)
  \/ SecondLookup(t)
  \/ SendBlockNotification(t)
  \/ Return(t)

Next ==
  \/ \E t \in Callers, p \in Pids : RecordOperation(t, p)
  \/ \E t \in Callers : Step(t)
  \/ \E p \in Pids : UnblockProcess(p)
  \/ \E u \in Updates : ApplyConfig(u)
  \/ RequestPause
  \/ RequestResume
  \/ DestroyContextTracking
  \/ UnregisterFilter
  \/ InitializeContextTracking
  \/ Tick

Spec == Init /\ [][Next]_vars

(* A thread inside a callback is scheduled: it holds no lock between its   *)
(* steps and waits for none beyond a bounded critical section.             *)
FairSpec == Spec /\ \A t \in Callers : WF_vars(Step(t))
-----------------------------------------------------------------------------
Context == [pid : Pids \union {NoPid}, operations : Seq(Nat),
            isBlocked : BOOLEAN]

Location == {"idle", "firstLookup", "allocate", "secondLookup", "notify",
             "return"}

(* Types.  What is not obvious is that no log exceeds the ring, however    *)
(* calls interleave, and that the numbers RsApplyConfig accepts stay       *)
(* positive.                                                               *)
TypeOK ==
  /\ heap \in [Addresses -> Context]
  /\ \A c \in Addresses : Len(heap[c].operations) <= MaxOps
  /\ table \subseteq Addresses
  /\ trackedPidCount \in Nat
  /\ fileCountThreshold \in Nat \ {0}
  /\ timeWindowTicks \in Nat \ {0}
  /\ monitoringEnabled \in BOOLEAN
  /\ driver \in {"loaded", "unloading", "unloaded"}
  /\ clock \in Nat
  /\ pc \in [Callers -> Location]
  /\ processId \in [Callers -> Pids \union {NoPid}]
  /\ currentTime \in [Callers -> Nat]
  /\ newContext \in [Callers -> Addresses \union {Null}]
  /\ verdict \in [Callers -> {"pending", "allow", "deny", "failed"}]

(* Whatever the callers that race to track a process do, it has at most    *)
(* one linked context: with two, its operations would be split between two *)
(* counts and RsUnblockProcess would leave it blocked.                     *)
OneContextPerPid ==
  \A c, d \in table : heap[c].pid = heap[d].pid => c = d

(* g_TrackedPidCount, reported by RsGetPidCounts, counts the contexts that *)
(* are linked, although four functions update table and counter.           *)
CountMatchesTable == trackedPidCount = Cardinality(table)

(* Nothing that is linked has been freed, and a context that a caller has  *)
(* allocated is its own until it links it: not linked, not another         *)
(* caller's, and labelled with the process the caller acts for.  Else the  *)
(* free of the loser of a race would pull a context from under the lock.   *)
NoDangling ==
  /\ \A c \in table : heap[c].pid \in Pids
  /\ \A t \in Callers :
       newContext[t] # Null =>
         /\ newContext[t] \notin table
         /\ heap[newContext[t]] = NewContext(processId[t])
         /\ \A u \in Callers \ {t} : newContext[u] # newContext[t]

(* Every context in the pool is linked, or held by a caller that is about  *)
(* to link or free it.  In particular nothing is left once the driver has  *)
(* unloaded: RsDestroyContextTracking "destroys all context tracking       *)
(* data".                                                                  *)
NoLeak ==
  \A c \in Addresses :
    heap[c] # Free => c \in table \/ \E t \in Callers : newContext[t] = c

(* The tracker as BlockPolicy has it: the log of a process, the progress   *)
(* of a call, and the four mapped variables.                               *)
LogOf(p) == IF Lookup(p) = {}
            THEN <<>>
            ELSE heap[CHOOSE c \in Lookup(p) : TRUE].operations

Phase(t) == CASE pc[t] = "idle"   -> "idle"
              [] pc[t] = "notify" -> "reporting"
              [] pc[t] = "return" -> "answered"
              [] OTHER            -> "asked"

Logs     == [p \in Pids |-> LogOf(p)]
Blocked  == {p \in Pids : IsBlocked(p)}
Settings == [threshold |-> fileCountThreshold,
             window    |-> timeWindowTicks,
             enabled   |-> monitoringEnabled]
Calls    == [t \in Callers |->
               [phase |-> Phase(t), pid |-> processId[t],
                time |-> currentTime[t], answer |-> verdict[t]]]

Policy == INSTANCE BlockPolicy WITH
  operations <- Logs, blocked <- Blocked, config <- Settings, call <- Calls

(* Any interleaving of lookups, allocations, lost races, unblocks and      *)
(* configuration changes is one in which every operation was judged in one *)
(* atomic step on the log of its process: no operation is lost or counted  *)
(* twice, a blocked process is denied until it is unblocked, each block is *)
(* reported once by the operation that caused it.                          *)
ImplementsBlockPolicy == Policy!Spec

(* A process becomes blocked only while monitoring is enabled, and by an   *)
(* operation of its own that is denied and goes on to report it; the block *)
(* "stays TRUE until explicitly cleared" (RsContext.c:762-765), through    *)
(* pauses, configurations, lost races and the reuse of memory, unless the  *)
(* driver goes.                                                            *)
BlocksExplained ==
  [][\A p \in Pids :
       /\ ~IsBlocked(p) /\ IsBlocked(p)' =>
            /\ monitoringEnabled
            /\ \E t \in Callers : /\ processId[t] = p /\ verdict'[t] = "deny"
                                  /\ pc[t] # "notify" /\ pc'[t] = "notify"
       /\ IsBlocked(p) /\ ~IsBlocked(p)' =>
            \/ UnblockProcess(p)
            \/ DestroyContextTracking \/ UnregisterFilter]_vars

(* Every operation is answered: losing the race for a context any number   *)
(* of times, being unblocked or paused in between, never keeps a file      *)
(* operation waiting for ever.                                             *)
CallsReturn == \A t \in Callers : pc[t] # "idle" ~> pc[t] = "idle"

(* usermode/cli/Main.cpp:26: pausing stops the driver from blocking.       *)
PauseStopsDenials ==
  [][\A t \in Callers :
       verdict[t] = "pending" /\ verdict'[t] = "deny" => monitoringEnabled]_vars

(* kernel/RsContext.c:80: the counter enforces RS_MAX_TRACKED_PIDS.        *)
TrackedBounded == trackedPidCount <= MaxTrackedPids
=============================================================================
