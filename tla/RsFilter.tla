------------------------------ MODULE RsFilter ------------------------------
(***************************************************************************)
(* The minifilter, kernel/RansomShield.c: DriverEntry and the unload       *)
(* callback build and dismantle the subsystems, and the pre-operation      *)
(* callbacks judge writes, renames and deletes while a client connects and *)
(* replaces the allowlist (RsAllowlist).                                   *)
(*                                                                         *)
(* RsRecordOperation is one step here, as RsContext shows it to be to its  *)
(* callers; whether an operation exceeds the threshold is left open.       *)
(*                                                                         *)
(* The filter manager is what the code relies on: callbacks run only while *)
(* filtering is started, the unload callback runs after them               *)
(* (RansomShield.c:479-481), and a client port is closed, or the filter    *)
(* unregistered, after the message being handled.  Closing the server port *)
(* ends no connection: a client that connects after RsDestroyCommPort has  *)
(* closed the client port and before it closes the server port ("late")    *)
(* stays connected while the driver is dismantled, as RsCommPort shows of  *)
(* the port itself.                                                        *)
(***************************************************************************)
EXTENDS RsAllowlist, FiniteSets

CONSTANTS
  Threads,     \* threads that do file operations
  Pids,
  NoPid,
  SystemPids,  \* 0 and 4
  Image,       \* the file name of each process's image
  StaticNames, \* g_Allowlist
  NoName       \* an image name that is not known

ASSUME FilterAssumption ==
  /\ SystemPids \subseteq Pids /\ NoPid \notin Pids
  /\ Image \in [Pids -> Names \union StaticNames]
  /\ NoName \notin Names \union StaticNames \union {EmptyName}

VARIABLES
  stage,      \* where DriverEntry or the unload callback is
  built,      \* the subsystems that exist
  connected,  \* is a client connected?
  late,       \* history: did it connect between the two closes?
  pc,         \* where each thread is in its callback, or how its last ended
  pid,        \* requestorPid
  operation,  \* the operation called for
  name,       \* what processImageName points to
  imageNames, \* threads whose processImageName buffer is allocated
  unlisted,   \* history: was the name off the list at a moment of the call?
  tracked,    \* processes with a context
  blocked     \* those whose context says IsBlocked

connection  == <<connected, late>>
driverVars  == <<stage, built, connection>>
callVars    == <<pc, pid, operation, name, imageNames, unlisted>>
trackerVars == <<tracked, blocked>>
vars == <<driverVars, callVars, trackerVars, allowlistVars>>

Listed(n, list) == n \in StaticNames \/ n \in Range(list)
Idle(t) == pc[t] \in {"passed", "denied"}
Busy == \E t \in Threads : ~Idle(t)

Init ==
  /\ AllowlistInit
  /\ stage = "unloaded"
  /\ built = {}
  /\ connected = FALSE /\ late = FALSE
  /\ pc = [t \in Threads |-> "passed"]
  /\ pid = [t \in Threads |-> NoPid]
  /\ operation = [t \in Threads |-> "none"]
  /\ name = [t \in Threads |-> NoName]
  /\ imageNames = {}
  /\ unlisted = [t \in Threads |-> TRUE]
  /\ tracked = {} /\ blocked = {}
-----------------------------------------------------------------------------
(* DriverEntry: the subsystem built at each stage, and the label its       *)
(* failure jumps to.  A connection to an earlier load is none to this one. *)
RegisterFilter ==
  /\ stage = "unloaded"
  /\ built' = built \union {"filter"}
  /\ connected' = FALSE /\ late' = FALSE
  /\ stage' = "registered"
  /\ UNCHANGED <<callVars, trackerVars, allowlistVars>>

(* RsInitializeContextTracking: empty buckets, nothing that can fail.      *)
InitializeContextTracking ==
  /\ stage = "registered"
  /\ built' = built \union {"tracking"}
  /\ tracked' = {} /\ blocked' = {}
  /\ stage' = "tracking"
  /\ UNCHANGED <<connection, callVars, allowlistVars>>

InitializeCommPort ==
  /\ stage = "tracking"
  /\ \/ built' = built \union {"port"} /\ stage' = "port"
     \/ stage' = "destroyTracking" /\ UNCHANGED built
  /\ UNCHANGED <<connection, callVars, trackerVars, allowlistVars>>

(* Mutant: a failed start jumps one label too far.                         *)
StartFilteringSkippingPort ==
  /\ stage = "port"
  /\ \/ built' = built \union {"filtering"} /\ stage' = "filtering"
     \/ stage' = "destroyTracking" /\ UNCHANGED built
  /\ UNCHANGED <<connection, callVars, trackerVars, allowlistVars>>

StartFiltering ==
  /\ stage = "port"
  /\ \/ built' = built \union {"filtering"} /\ stage' = "filtering"
     \/ stage' = "destroyPort" /\ UNCHANGED built
  /\ UNCHANGED <<connection, callVars, trackerVars, allowlistVars>>

(* Mutant: the unload callback does not wait for the others.               *)
UnloadUndrained ==
  /\ stage = "filtering"
  /\ built' = built \ {"filtering"}
  /\ stage' = "destroyPort"
  /\ UNCHANGED <<connection, callVars, trackerVars, allowlistVars>>

(* RsUnloadCallback.  It and the error labels undo the same things in the  *)
(* same order.                                                             *)
Unload ==
  /\ stage = "filtering"
  /\ ~Busy
  /\ built' = built \ {"filtering"}
  /\ stage' = "destroyPort"
  /\ UNCHANGED <<connection, callVars, trackerVars, allowlistVars>>

(* RsDestroyCommPort closes the client port and then the server port; a    *)
(* client may connect in between.                                          *)
DestroyCommPort ==
  /\ stage = "destroyPort"
  /\ push # "append"
  /\ connected' = FALSE /\ late' = FALSE
  /\ stage' = "closeServer"
  /\ UNCHANGED <<built, callVars, trackerVars, allowlistVars>>

CloseServerPort ==
  /\ stage = "closeServer"
  /\ built' = built \ {"port"}
  /\ stage' = "destroyTracking"
  /\ UNCHANGED <<connection, callVars, trackerVars, allowlistVars>>

(* The hash table is emptied under its lock, which stays: a late client's  *)
(* messages find no process.                                               *)
DestroyContextTracking ==
  /\ stage = "destroyTracking"
  /\ built' = built \ {"tracking"}
  /\ tracked' = {} /\ blocked' = {}
  /\ stage' = "unregister"
  /\ UNCHANGED <<connection, callVars, allowlistVars>>

(* The image goes with the filter, and its data starts anew with the next. *)
(* Nothing in the code closes a late connection; whether the filter        *)
(* manager does is left open.                                              *)
UnregisterFilter ==
  /\ stage = "unregister"
  /\ push # "append"
  /\ built' = built \ {"filter"}
  /\ connected' \in {FALSE, connected} /\ late' = (late /\ connected')
  /\ stage' = "unloaded"
  /\ AllowlistReset
  /\ UNCHANGED <<callVars, trackerVars>>

Lifecycle ==
  \/ RegisterFilter \/ InitializeContextTracking \/ InitializeCommPort
  \/ StartFiltering \/ Unload
  \/ DestroyCommPort \/ CloseServerPort
  \/ DestroyContextTracking \/ UnregisterFilter
-----------------------------------------------------------------------------
Connect ==
  /\ "port" \in built /\ ~connected
  /\ connected' = TRUE /\ late' = (stage = "closeServer")
  /\ UNCHANGED <<stage, built, callVars, trackerVars, allowlistVars>>

(* A client does not go away while the driver handles its message.         *)
Disconnect ==
  /\ connected /\ push # "append"
  /\ connected' = FALSE /\ late' = FALSE
  /\ UNCHANGED <<stage, built, callVars, trackerVars, allowlistVars>>

(* Every call in flight notes whether the list has lost its name.          *)
Push ==
  /\ \/ connected /\ "filter" \in built /\ Deliver
     \/ PushStep
  /\ unlisted' = [t \in Threads |->
                    unlisted[t] \/ ~Listed(name[t], dynamicAllowlist')]
  /\ UNCHANGED <<driverVars, pc, pid, operation, name, imageNames, trackerVars>>

(* RsUnblockProcess, asked for by the client.                              *)
UnblockProcess(p) ==
  /\ connected /\ p \in blocked
  /\ tracked' = tracked \ {p} /\ blocked' = blocked \ {p}
  /\ UNCHANGED <<driverVars, callVars, allowlistVars>>
-----------------------------------------------------------------------------
(* The operations the driver is called for.  Of the set-information calls  *)
(* it monitors renames and deletes, in both their forms; paging writes it  *)
(* does not monitor.                                                       *)
Monitored   == {"write", "rename", "disposition"}
Unmonitored == {"pagingWrite", "otherInformation"}
Operations  == Monitored \union Unmonitored

Return(t, how) ==
  /\ pc' = [pc EXCEPT ![t] = how]
  /\ pid' = [pid EXCEPT ![t] = NoPid]
  /\ operation' = [operation EXCEPT ![t] = "none"]
  /\ name' = [name EXCEPT ![t] = NoName]
  /\ unlisted' = [unlisted EXCEPT ![t] = TRUE]

Goto(t, where) ==
  pc' = [pc EXCEPT ![t] = where] /\ UNCHANGED <<pid, operation, name, unlisted>>

(* Mutant: the test for the processes of the system is forgotten.          *)
IgnoredWithoutSystem(p, op) == op \in Unmonitored

Ignored(p, op) == op \in Unmonitored \/ p \in SystemPids

(* A pre-operation callback lets the operation pass unseen ...             *)
PassUnmonitored(t, p, op) ==
  /\ "filtering" \in built /\ Idle(t)
  /\ Ignored(p, op)
  /\ Return(t, "passed")
  /\ UNCHANGED <<driverVars, imageNames, trackerVars, allowlistVars>>

(* ... or asks for the image name, which SeLocateProcessImageName          *)
(* allocates.  It is asked only at PASSIVE_LEVEL and may fail; the         *)
(* operation then goes on without a name, and without the allowlist.       *)
LocateImageName(t, p, op) ==
  /\ "filtering" \in built /\ Idle(t)
  /\ ~Ignored(p, op)
  /\ pid' = [pid EXCEPT ![t] = p]
  /\ operation' = [operation EXCEPT ![t] = op]
  /\ \/ /\ name' = [name EXCEPT ![t] = Image[p]]
        /\ imageNames' = imageNames \union {t}
        /\ pc' = [pc EXCEPT ![t] = "check"]
        /\ unlisted' = [unlisted EXCEPT ![t] =
                          ~Listed(Image[p], dynamicAllowlist)]
     \/ /\ pc' = [pc EXCEPT ![t] = "record"]
        /\ UNCHANGED <<name, imageNames, unlisted>>
  /\ UNCHANGED <<driverVars, trackerVars, allowlistVars>>

(* Mutant: only the built-in names are looked at.                          *)
IsProcessAllowlistedStatically(t) ==
  /\ pc[t] = "check"
  /\ \/ /\ Listed(name[t], <<>>)
        /\ imageNames' = imageNames \ {t} /\ Return(t, "passed")
     \/ /\ ~Listed(name[t], <<>>)
        /\ Goto(t, "record") /\ UNCHANGED imageNames
  /\ UNCHANGED <<driverVars, trackerVars, allowlistVars>>

(* Mutant: the early return of an allowlisted process keeps the buffer.    *)
IsProcessAllowlistedLeaking(t) ==
  /\ pc[t] = "check"
  /\ \/ Listed(name[t], dynamicAllowlist) /\ Return(t, "passed")
     \/ ~Listed(name[t], dynamicAllowlist) /\ Goto(t, "record")
  /\ UNCHANGED <<imageNames, driverVars, trackerVars, allowlistVars>>

(* RsIsProcessAllowlisted: the built-in names, then the dynamic ones under *)
(* g_ContextLock.  An allowlisted process passes without being recorded.   *)
IsProcessAllowlisted(t) ==
  /\ pc[t] = "check"
  /\ \/ /\ Listed(name[t], dynamicAllowlist)
        /\ imageNames' = imageNames \ {t} /\ Return(t, "passed")
     \/ /\ ~Listed(name[t], dynamicAllowlist)
        /\ Goto(t, "record") /\ UNCHANGED imageNames
  /\ UNCHANGED <<driverVars, trackerVars, allowlistVars>>

(* An allowed rename or delete gets a post-operation callback.             *)
Allow(t) == IF operation[t] = "write" THEN Return(t, "passed") ELSE Goto(t, "post")

(* RsRecordOperation: a blocked process is denied, another one is recorded *)
(* and may exceed the threshold by it; without memory for its context it   *)
(* passes unrecorded.  The name is freed whatever comes of it.             *)
RecordOperation(t) ==
  /\ pc[t] = "record"
  /\ imageNames' = imageNames \ {t}
  /\ \/ pid[t] \in blocked /\ Return(t, "denied") /\ UNCHANGED trackerVars
     \/ /\ pid[t] \notin blocked
        /\ tracked' = tracked \union {pid[t]}
        /\ \/ Allow(t) /\ UNCHANGED blocked
           \/ Return(t, "denied") /\ blocked' = blocked \union {pid[t]}
     \/ pid[t] \notin tracked /\ Return(t, "passed") /\ UNCHANGED trackerVars
  /\ UNCHANGED <<driverVars, allowlistVars>>

(* RsPostOperationSetInformation does nothing.                             *)
PostOperation(t) ==
  /\ pc[t] = "post"
  /\ Return(t, "passed")
  /\ UNCHANGED <<driverVars, imageNames, trackerVars, allowlistVars>>

FileOperation(t) ==
  \/ \E p \in Pids, op \in Operations :
       PassUnmonitored(t, p, op) \/ LocateImageName(t, p, op)
  \/ IsProcessAllowlisted(t)
  \/ RecordOperation(t)
  \/ PostOperation(t)

Next ==
  \/ Lifecycle
  \/ Connect \/ Disconnect \/ Push
  \/ \E p \in Pids : UnblockProcess(p)
  \/ \E t \in Threads : FileOperation(t)

Spec == Init /\ [][Next]_vars
-----------------------------------------------------------------------------
TypeOK ==
  /\ AllowlistTypeOK
  /\ stage \in {"unloaded", "registered", "tracking", "port", "filtering",
                "destroyPort", "closeServer", "destroyTracking", "unregister"}
  /\ built \subseteq {"filter", "tracking", "port", "filtering"}
  /\ connected \in BOOLEAN /\ late \in BOOLEAN
  /\ pc \in [Threads -> {"passed", "denied", "check", "record", "post"}]
  /\ pid \in [Threads -> Pids \union {NoPid}]
  /\ operation \in [Threads -> Monitored \union {"none"}]
  /\ name \in [Threads -> Names \union StaticNames \union {NoName}]
  /\ imageNames \subseteq Threads
  /\ unlisted \in [Threads -> BOOLEAN]
  /\ blocked \subseteq tracked /\ tracked \subseteq Pids \ SystemPids

(* Every image name that was allocated is freed once, on every way out of  *)
(* a callback: it is allocated exactly while its callback may still use it *)
(* (RansomShield.c:746, 764, 920, 931).                                    *)
NamesFreed ==
  imageNames = {t \in Threads : pc[t] \in {"check", "record"} /\ name[t] # NoName}

(* No operation is denied to a process whose image name was known and on   *)
(* the allowlist from the beginning of the call to its end, even if the    *)
(* process is blocked, and however the list is replaced meanwhile          *)
(* (RansomShield.c:744-749, RsContext.c:1027-1029).                        *)
AllowlistHonoured ==
  [][\A t \in Threads : pc[t] # "denied" /\ pc'[t] = "denied" => unlisted[t]]_vars

(* Callbacks find every subsystem they use: "If subsystems aren't ready,   *)
(* callbacks may crash" (RansomShield.c:341-348).  So does every client    *)
(* that connected before filtering started, or while DriverEntry failed,   *)
(* up to the message it has in the driver; but not one that connected      *)
(* between the two closes of RsDestroyCommPort (RsCommPort.c:269-283): it  *)
(* may send until the filter is gone, and what it reaches by then is an    *)
(* emptied table (RsContext.c:234-271).                                    *)
SubsystemsReady ==
  /\ Busy => "tracking" \in built
  /\ connected \/ push = "append" =>
       /\ "filter" \in built \/ (late /\ push # "append")
       /\ "tracking" \in built \/ late
  /\ tracked # {} => "tracking" \in built

(* A driver that failed to load, or was unloaded, leaves nothing behind    *)
(* (RansomShield.c:446-460, 500-529), neither memory nor a handler at      *)
(* work, except that a connection made between the two closes of           *)
(* RsDestroyCommPort is closed by nobody (RsCommPort.c:269-283, against    *)
(* RansomShield.c:503-505).                                                *)
NothingLeft ==
  stage = "unloaded" =>
    /\ built = {} /\ imageNames = {} /\ tracked = {} /\ push # "append"
    /\ connected => late
=============================================================================
