# RansomShield: a verification project

RansomShield is a Windows file-system minifilter that watches writes,
renames and deletions, counts them per process in a sliding time window, blocks
a process that exceeds a threshold, and reports the block to user-mode programs.
This directory holds TLA+ models of the driver and of the programs around it,
TLC configurations that check them on small instances, and TLAPS proofs that
hold for every instance. `PROJECT.json` maps each definition to the source lines
it stands for, and lists runs, mutants, findings, hazards and theorems.

Paths below are relative to `src/`; `RsContext.c`, `RsCommPort.c` and
`RansomShield.c` are in `kernel/`, `CommManager.cpp` and `ConfigManager.cpp` in
`usermode/common/`, `TrayMain.cpp` in `usermode/tray/`, `Main.cpp` in
`usermode/cli/`.

## 1. The system

```
   file I/O of any process                        registry
            |                                        |
   RansomShield.c  pre-operation callbacks     ConfigManager
            |  (filters, then record)                |
   RsContext.c   table of per-process contexts  RansomShieldModule (facade)
            |  g_ContextLock                         |
   RsCommPort.c  one client port  <--------->  CommManager + listener thread
        reports, requests, replies                   |
                                              CLI / daemon      tray agent
```

| Component | State | Operations | Makes it correct |
|---|---|---|---|
| Tracker (`RsContext.c`) | hash table of contexts, each with a ring of 256 timestamps and `IsBlocked`; `g_TrackedPidCount`; threshold, window, `g_MonitoringEnabled`; dynamic allowlist; all under `g_ContextLock` | record, unblock, apply configuration, create/destroy, allowlist edits, queries | one context per process; counter = table; nothing leaked or dangling; every operation judged as if atomically; a burst inside the window is detected; a pushed allowlist is installed whole |
| Communication port (`RsCommPort.c`) | `g_ServerPort`, `g_ClientPort` (no lock), `g_MessageSequence` (under `g_ContextLock`) | connect/disconnect callbacks, report a block, eight requests, teardown | reports go to the connected client; never to a NULL port; distinct numbers; a report never holds the file operation |
| Minifilter callbacks (`RansomShield.c`) | `g_FilterHandle`; per call the process, the image name and its buffer | pre/post operation, `DriverEntry`, unload | filters before recording; fails open; names freed; unwinding in reverse order |
| Connection manager (`CommManager.cpp`) | port handle, connected flag, listener thread and its running flag | connect, disconnect, request, start/stop listener, push of the allowlist | handles are closed; the listener ends before its program; stopping it ends |
| Facade, CLI/daemon, tray | the configuration, the health counter, the alert queue | push configuration, toggle, reconnect, show alerts | the driver follows the configuration; queued alerts get shown; a lost connection is noticed and the listener restored |
| Configuration (`ConfigManager.cpp`) | values in memory and in the registry | set, add, remove, save, load | what load finds after a save that was cut short or partly failed |
| Event logger, deployment scripts, documents | none that decides anything | output | not modelled |

Interactions: a pre-operation callback looks at the allowlist under the lock,
then calls `RsRecordOperation`, which takes the lock twice (look up; allocate
with the lock released; look up again and record) and reports a new block after
releasing it. A client's request runs `RsMessageNotifyCallback` on the client's
thread, which calls into the tracker, each call its own critical section. The
filter manager calls connect and disconnect callbacks, serialized with each other
and with nothing else. The unload callback destroys the port, then the contexts,
then unregisters. In user mode a program's main thread connects, pushes the
configuration and starts the listener thread, which waits for reports on the same
handle and tells the main thread of them.

What is hard: the double-checked lookup; contexts freed by a client while
callers are between their lookups; times sampled before the lock; a ring that is
compacted in place and overwritten when full; reconfiguration in mid-window; the
unlocked client port; teardown and failed starts while callers and clients are
active; an allowlist that is replaced by many messages; a listener that outlives
its connection; saves that are many registry calls and can be cut short.
`PROJECT.json` lists 40 hazards at their lines, with the properties that cover
them, or the reason why no property does.

## 2. The modules

| Module | Models | Main actions |
|---|---|---|
| `RsOperations` | prune, append and count on a log of timestamps: pure operators | |
| `SlidingWindow` | abstract: the heuristic for one process over a list of its last `MaxOps` timestamps | `RecordOperation`, `ApplyConfig`, `UnblockProcess` |
| `RsRing` | the ring of one context: slots, head, count, in-place compaction | `RecordOperation` samples the time, `RecordAndEvaluate` runs under the lock |
| `BlockPolicy` | abstract: a tracker in which every operation is judged in one step, with no contexts, lookups or lock | `Ask`, `Detect`, `Admit`, `Answer`, `FailOpen`, ... |
| `RsContext` | the tracker: addresses, the table, callers between critical sections, configuration, unload | `FirstLookup`, `CreateProcessContext`, `SecondLookup`, `SendBlockNotification`, `UnblockProcess`, `DestroyContextTracking`, ... |
| `RsCommPort` | the port: connections, reports, requests with their replies, teardown | `Connect`, `Disconnect`, `Snapshot`, `Number`, `Deliver`, `SendFails`, `Reply`, `DestroyCommPort`, ... |
| `RsAllowlist` | the dynamic allowlist and the push that replaces it, message by message | `ClearDynamicAllowlist`, `UpdateAllowlistChunk`, `AddDynamicAllowlistEntry`, ... |
| `RsFilter` (extends `RsAllowlist`) | `DriverEntry`, unload, the pre- and post-operation callbacks | `StartFiltering`, `Unload`, `DestroyCommPort`, `CloseServerPort`, `LocateImageName`, `IsProcessAllowlisted`, `RecordOperation`, ... |
| `CommManager` | a program's connection to the driver and its listener thread | `Connects`, `TakeHandle`, `ReadPort`, `FilterGetMessage`, `MarkDisconnected`, ... |
| `RsAgents` (extends `CommManager`) | the main threads of the tray, the daemon and a command | `Connect`, `PushToDriver`, `StartListener`, `HealthCheck`, `Timer`, `QueueAlert`, `Join`, ... |
| `ConfigManager` | settings and allowlist, in memory and in the registry | `LoadEntry`, `AddException`, `WriteDWord`, `DeleteEntry`, `WriteEntry`, `Stop`, ... |
| `RsOperations_proofs`, `RsRing_proofs`, `RsContext_proofs`, `RsContext_refinement`, `RsCommPort_proofs`, `RsFilter_proofs`, `RsAgents_proofs`, `ConfigManager_proofs` | the theorems | |
| `MC*` | instances for TLC | |

How state corresponds to code:

* **`RsOperations`.** A log is a sequence of timestamps, oldest first. `Survivors`
  is the set of positions with `now - t <= window` (`RsContext.c:863`); `Rank`
  gives each its place after compaction, a definition without recursion so that
  it can be proved about. `AppendOperation` drops the oldest entry when the log
  is full (684-702).
* **`RsRing`.** `Operations[]`, `OperationHead` and `OperationCount` are the slots,
  head and count of the code, with the arithmetic modulo `MaxOps`. `log` and `past` are
  history the code does not keep. `SlidingWindow` is what the
  ring implements, under the mapping that reads the slots from the oldest
  on (`Contents`).
* **`RsContext`.** A context is the record at an address; freeing sets it to
  `Free`. A spinlock section is one action. A caller's program counter is the
  point between two sections. Its locals are those of `RsRecordOperation`. The
  hash chains are a set of linked addresses: buckets only make lookup fast. Pool
  exhaustion is an allocation that fails, at any time and when no address is
  left. The time is the integer `clock`, advanced by `Tick`, sampled before the
  lock as in the code (584). What the tracker is to `BlockPolicy` are the mapped
  variables `Logs`, `Blocked`, `Settings` and `Calls`.
* **`RsCommPort`.** `g_ClientPort` is read and written without a lock, so each
  access is its own action, and `RsDestroyCommPort` is five. The module says
  nothing about contexts; a `Block` stands for the critical section of
  `RsRecordOperation` that found a burst. A message is sent or fails; the code's
  5 s timeout makes the failure always possible.
* **`RsAllowlist`.** `dynamicAllowlist` is the used part of
  `g_DynamicAllowlist`. `push`, `entries` and `chunkIdx` say where the client is in
  `CommManager::PushAllowlist`; `pending` are the entries of the message being
  handled that are still to be added. Each entry is added in a critical section of
  its own (`RsContext.c:1155-1183`), so each is a step. `Kept` says which of the
  first entries of a list the driver keeps, by the number of each named entry and
  without recursion, so that it can be proved about.
* **`RsFilter`.** `stage` is the label `DriverEntry` or `RsUnloadCallback` has
  reached and `built` the subsystems that exist. Each thread has its program
  counter in the callback, the process, the name and whether the name's buffer is
  allocated. `RsRecordOperation` is one step, which `RsContext` shows it to be to its
  callers (`ImplementsBlockPolicy`); whether the threshold is exceeded is left open.
  `RsDestroyCommPort` is two steps, one for each close, and `late` says that the
  client connected between them (finding 4): such a client goes on sending while the
  tracker is torn down. It reaches a table that is empty under a lock that is still
  there, and `SubsystemsReady` lets it.
* **`CommManager`.** `hPort`, `connected`, `running` are `m_hPort`, `m_connected`,
  `m_listenerRunning`; `listener` is the listener's program counter, `"none"` when
  `m_listenerThread` is not joinable, and `lport` its local copy of the handle.
  `open` are the handles the process has not closed, `live` those whose connection
  exists. Each block under `m_mutex` is one step; closing the handle in `Disconnect`
  is another. A request may fail on a lost connection and on a live one (`NoAnswer`):
  three errors mark the connection lost, any other leaves `m_connected` TRUE
  (`CommManager.cpp:267-283`), and the driver may have handled the request or not.
* **`RsAgents`.** `main` is the program counter of the main thread, at the calls of
  `TrayMain.cpp`, `Main.cpp` and the facade; `monitoring` is the driver's
  `g_MonitoringEnabled`, `config` the program's copy; `queue` and `messages` are the
  alert queue and the `WM_RSBLOCKED` messages. `missed` is history: the last push or
  toggle on a live connection got no answer. The programs ignore the result of the
  push, so driver and configuration may then differ. Which of the three programs runs is
  chosen at the start: the driver admits one at a time.
* **`ConfigManager`.** `value` and `entry` are the registry, `setting` and
  `allowlist` each process's memory, `keys` its open keys. `m_mutex` protects
  nothing against another process on the same keys, so each registry call is a
  step, and a process may be killed between any two.

**What is assumed of the filter manager**, from what the code relies on: it
serializes the connection callbacks (`RsCommPort.c:94-97`); it accepts a
connection only when none is left, a connection being left until its disconnect
callback has run (447-450); it has closed the port when it calls that callback
(513-515). The connect callback is said to test that no client is stored (450); it
does not (484), and the model does not either. A port is not closed under a
message being handled. A pending `FilterGetMessage` fails when its connection ends
on either side, and a closed handle's value may be given out again. Closing the
server port ends no connection; whether unregistering ends one is left open, but
it waits for the message being handled. The three errors of `CommManager.cpp:272-277`
come only from a connection that has ended. In `RsFilter`
callbacks run only while filtering is started, and the unload callback after them
(`RansomShield.c:479-481`). `RsContext` has both readings of the source:
`UnloadDrains` TRUE is this one, the claim of `RsContext.c:220-228`;
FALSE is that of `RansomShield.c:519`, that `FltUnregisterFilter` is what waits.

## 3. The runs

| Run | Instance | Shows |
|---|---|---|
| `ring` | ring of 3; 206 k states | `RingImplementsWindow`: every step of the ring is a step of the list. `DetectionIsExact`: with times in order and a threshold that fits the ring, an operation is blocked exactly when it is the threshold-th in the window, over all operations ever. `NoMissedBurst`: in whatever order callers reach the lock, an unblocked process has fewer than the threshold in the latest window. |
| `ring_stalled` | violation | finding 1 |
| `context` | 2 callers, 2 processes, 3 addresses; 181 k states under symmetry | one context per process, counter = table, no dangling, no leak (callbacks drained first); `ImplementsBlockPolicy`: every run of the tracker is one of the atomic policy; `BlocksExplained`: nobody is blocked during a pause or by another's operation, and only a client or the end of the driver lifts a block |
| `context_live` | 2 callers, 1 process, callbacks not drained; 50 k states | `CallsReturn`: every call is answered, however often it loses the race |
| `context_pause` | violation | finding 2 |
| `context_bound` | violation | finding 3 |
| `port` | 2 connections, 2 callers, 2 processes, 2 numbers; 157 k states | distinct numbers over reports and replies, no send on a NULL port, connected client reachable, a report always returns |
| `port_teardown` | violation | finding 4 |
| `filter` | 2 threads, 3 processes, lists that are empty, full, too long for one message or hold an empty name; 256 k states under symmetry | a push that succeeds installs its list, one that fails leaves no mixture; names are freed once; callbacks always find the subsystems they use, and so do clients but one that connected between the two closes; nothing but such a connection is left after a failed start or an unload; no operation of a process that stays listed is denied |
| `agents` | all three programs, 2 handle values, every fault, requests that fail on a live connection among them; 325 k states | handles of daemon and commands are closed; the listener ends first; the daemon never overwrites a joinable thread; a connected driver follows the configuration unless the last push or toggle got no answer; queued alerts are announced; stopping ends; the daemon notices a loss |
| `agents_reconnect` | violation | finding 5 |
| `config` | 2 programs, lists of at most 2 of 3 names, failing open, set and delete, 2 saves; 2.7 M states under symmetry, about a minute | while no deletion failed and no other program saved: a torn save leaves the old list or a beginning of the new one; a reported success is true |

For each property of a passing run `PROJECT.json` names a mutant: a plausible
bug in one mapped definition under which TLC finds the property violated in the same
configuration. `TypeOK` carries what a type alone would not: no counter below
zero, no log or list over its limit, at most one connection.

**Findings.** 1 to 4 are disagreements between a document or comment and the
driver; 5 is a bug of the tray agent.

1. *A stalled caller convicts falsely.* Time is sampled at `RsContext.c:584`,
   before the lock. Entries stamped later than the caller's time always
   count (735), so a caller that stalls longer than the window counts operations that lie in
   no common window. `README.md:18` and `RsContext.c:711` describe a sliding
   window.
2. *Pausing does not stop denials.* `Main.cpp:26` and `SharedDefs.h:210` say the
   driver stops blocking. A process blocked earlier is still denied
   (`RsContext.c:598`), and its operations are no longer tracked.
3. *The limit on tracked processes is not enforced*, although `RsContext.c:80` and
   `RansomShield.h:95` say it is.
4. *A client may connect during the teardown* and remains connected
   after `RsDestroyCommPort` (`RsCommPort.c:269`), which `RansomShield.c:503-505`
   says cannot be. It may send until the filter is unregistered, and
   reaches only an emptied table (`RsFilter`).
5. *After a reconnect nobody listens.* The listener leaves its loop
   (`CommManager.cpp:455`) with `m_listenerRunning` set, so the tray's
   `StartListener` after the reconnect is "Already running" (302) and no alert
   arrives any more, although `TrayMain.cpp:10-15` promises both.

Met on the way and visible in the models, without a run of their own:

* `RsContext.c:220-228` and `RansomShield.c:479-481` say all callbacks have ended
  before the unload callback; `RansomShield.c:519` says unregistering waits for
  them. Only under the first does the order of the calls free everything.
* A reconnect of the tray leaks the old handle, once for each time the driver goes
  away. A failed send leaves it to "the listener thread or Disconnect"
  (`CommManager.cpp:280`), but the listener closes nothing and the tray does not call
  `Disconnect` before `Connect` overwrites `m_hPort` (146). So `HandlesClosed` is
  stated for the daemon and the commands.
* A listener of the tray that wakes up late marks a new connection as lost; the
  tray then connects over a live handle, and the driver refuses it from then on.
* A tray whose listener could not allocate its buffer has a joinable thread and
  `m_listenerRunning` FALSE: the next reconnect assigns to it, and
  `std::terminate` ends the process. The daemon always joins first
  (`DaemonKeepsRunning`).
* The result of a push is ignored (`TrayMain.cpp:228` and 301, `Main.cpp:285` and
  309) and a toggle that fails is dropped. A request whose answer is lost on a live
  connection (`CommManager.cpp:267-283`) leaves a driver that may differ from the
  configuration until a later request is answered.
* Were one of the three errors of `CommManager.cpp:272-277` to come from a connection
  that is alive, the tray's next `Connect` would drop the live handle, and the listener
  it joins at its exit would wait on that handle for ever.
* An error of `FilterGetMessage` other than a lost port ends the listener; the
  daemon stays connected and hears nothing.
* A listed name of `RS_MAX_ALLOWLIST_NAME_LEN` characters or more is saved but
  cannot be read back, and hides all later entries (`ConfigManager.cpp:140`).
* A deletion that fails is only warned of (`ConfigManager.cpp:332-338`): the save
  goes on and reports success, and an entry that was removed may be there again
  at the next load. `TornSave` and `SuccessMeansSaved` leave such saves out.
* `SharedDefs.h:423` says `MonitoringEnabled` is ignored if neither threshold nor
  window changed; `RsApplyConfig` applies it always (`RsContext.c:1134`), and pause and
  resume depend on that.
* `RansomShield.c:188` and 830 list `FileRenameInformationEx2` among the monitored
  classes; the switch at 869-873 does not have it, so such a rename is not counted.
* A process is blocked on reaching the threshold (`>=`), where `README.md:18` says on
  exceeding it.
* No program looks at the result of `Initialize`: with a key that cannot be opened
  it runs on defaults, and its saves fail.
* Two programs on the same registry keys each save everything they have in
  memory: the one that saves later undoes the other's change.

**Bounds, and why they are enough.** Two callers suffice to lose the race for a
context, two processes to mix up tables, and one address more than can be linked
at once to reuse a freed one. `MaxOps` 2 or 3 lets the ring wrap, be full with
all entries live, and be compacted to one. `MaxClock` leaves time for entries to
expire and for a stall longer than the window. `Updates` holds a configuration that is
easier and one that is harder to exceed. `MaxTrackedPids` is 2 where it is not
in question. In `RsCommPort` each connection is made once, so `Clients` bounds
reconnections: two give a stale handle and a new client; `MaxSequence` bounds
messages begun, and its guard (`Room`) is on starting a message, so that
it never stops a caller midway. In `RsFilter` `MaxEntries` 2 and `MaxChunk` 1 make a
list of three both too long for a message and too long for the driver. In
`RsAgents` two handle values are one that is current and one that leaks or is reused; `Ticks` 2
separates a round with a health check from one without; `MaxAlerts` bounds
alerts under way, with its guard on the driver's report. In `ConfigManager` two
slots have a gap, a leftover and an order; two programs interleave their saves;
`MaxSaves` 2 is a save after a torn one. Reads that fail are left out of that
instance for its size (`Faults` lacks `"read"`); the proofs cover them.
`CHECK_DEADLOCK FALSE` stands where these bounds, an unloaded driver or a program
that has ended stop a run. Symmetry is used in safety runs, never with liveness.

**Fairness.** `RsContext!FairSpec` has weak fairness of each caller's steps: a
thread in the driver is scheduled, and the spinlock is always released within a
bounded section. `RsCommPort!FairSpec` has weak fairness of a caller's own steps and of
the *failing* send, which `g_MessageTimeout` (`RsCommPort.c:113`) justifies; no
client is assumed to read, disconnect or do anything, and delivery has no fairness.
`RsAgents!FairSpec` has weak fairness of the main thread and of the listener's own
steps, which the scheduler gives; waiting for a report is not among them, and
neither are the driver's coming back, the tray's timer or the user's doing anything. Nothing is
assumed of configuration, unloading or time.

## 4. The proofs

Everything below holds for every value of the constants that satisfies the named
`ASSUME`s of its module: any number of callers, processes, addresses, clients,
handles, entries, any ring size, and for the bounds of the models any number.

| Module | Theorem | Statement |
|---|---|---|
| `RsOperations_proofs` | `RankOnto`, `RecordedType` | compaction leaves no hole; recording yields a non-empty log that fits the ring |
| `RsRing_proofs` | `TypeCorrect` | `Spec => []TypeOK` |
| | `RingRefinesWindow` | `Spec => RingImplementsWindow`: the ring refines the list |
| | `DetectionExact`, `NoBurstMissed` | `Spec => DetectionIsExact`, `Spec => NoMissedBurst`: what the bounded log decides is what the log of all operations would |
| `RsContext_proofs` | `TypeCorrect`, `UniqueContexts`, `CountCorrect`, `MemorySafe` | `Spec => []TypeOK`, `[]OneContextPerPid`, `[]CountMatchesTable`, `[]NoDangling` |
| | `LeakFree` | `UnloadDrains => (Spec => []NoLeak)` |
| | `BoundedByPids` | with finitely many process ids there are never more contexts than ids: the only bound there is (finding 3) |
| `RsContext_refinement` | `TrackerRefinesPolicy` | `Spec => ImplementsBlockPolicy`: the tracker refines the atomic policy |
| | `EveryBlockExplained` | `Spec => BlocksExplained`, an action property |
| `RsCommPort_proofs` | `TypeCorrect`, `NumbersUnique`, `NeverSendsOnNull`, `ClientReachable` | `Spec => []TypeOK`, `[]UniqueNumbers`, `[]SendsOnOpenedPort`, `[]ConnectedClientReachable` |
| `RsFilter_proofs` | `TypeCorrect`, `NamesAlwaysFreed`, `SubsystemsAlwaysReady`, `NothingEverLeft` | `Spec => []TypeOK`, `[]NamesFreed`, `[]SubsystemsReady`, `[]NothingLeft` |
| | `AllowlistAlwaysHonoured` | `Spec => AllowlistHonoured`, an action property |
| | `PushAlwaysInstallsList`, `NeverMixedList` | `Spec => []PushInstallsList`, `[]NoMixedList` |
| `RsAgents_proofs` | `TypeCorrect`, `AllHandlesClosed`, `ListenerFirst`, `DaemonNeverTerminated`, `ConfigFollowed`, `NoAlertForgotten` | `Spec => []TypeOK`, `[]HandlesClosed`, `[]ListenerEndsFirst`, `[]DaemonKeepsRunning`, `[]DriverFollowsConfig`, `[]AlertsAnnounced` |
| `ConfigManager_proofs` | `TypeCorrect`, `TornSaveHolds`, `SuccessMeansSavedHolds` | `Spec => []TypeOK`, `[]TornSave`, `[]SuccessMeansSaved` |

Each module rests on an inductive invariant, most on one; the theorems follow.

* **`RsRing`.** `IInv` says the ring's indices and slots are typed. The work is in
  lemmas about the data: the code's `%` is one subtraction (`ModIsWrap`), reading
  the ring after a prune gives the compacted list (`PruneRingIs`), after an append
  the appended list, overwritten from the oldest (`AppendRingIs`). `WindowStep`
  puts them together: every step maps to a step or a stutter of `SlidingWindow`.
  The two detection theorems compare the ring with `log`, the history of all
  operations. `HistoryInv` relates them. While the log is sorted the ring is its end,
  and either everything older has left the window or the ring is full (`EndsWith`):
  so both logs count alike up to `MaxOps`, and the threshold is not above that. In any order the ring still has every operation of the latest window
  (`Covers`), until a live one is overwritten. Neither holds once the window was enlarged,
  because what was pruned under the smaller one is gone. The lemmas about
  `EndsWith` and `Covers` are in `RsOperations_proofs`: `EndsWithRecorded` and
  `CoversRecorded` for one more operation, `SmallerWindow` for a configuration.
* **`RsContext`.** `IInv` is `TypeOK`, `OneContextPerPid`, `CountMatchesTable`,
  `NoDangling` and `Holding`; the first three are not inductive. That linking keeps
  contexts unique needs the context in a caller's hand to be labelled with its
  process, and that the free of a lost race leaves nothing dangling needs it not to
  be linked, nor in another caller's hand: that is `NoDangling`. `Holding` says when
  there is such a context. `CountMatchesTable` needs the table to be finite, from
  the finiteness of `Addresses`. `LeakFree` adds that under `UnloadDrains` no
  caller is inside while the driver unloads.
* **`RsContext` refines `BlockPolicy`.** Since a process has one linked context or
  none, its log and its block are those of that context. A first lookup that finds
  nothing and an allocation touch no linked context: they stutter. The section
  that finds, links or gives way to a context is where the operation is judged
  (`Judged` for `Admit` and `Detect`, `Refused` for `Refuse`). Each other action
  is one of the policy, with a lemma of its own. `RInv` adds to `IInv` what the mapping
  needs outside the table: an idle caller owes no answer, and an unloaded driver
  has no caller inside and no table. `EveryBlockExplained` reads off the policy which
  steps change `Blocked`.
* **`RsCommPort`.** `Inv` adds to the properties what holds of numbers that are
  drawn but not received (`NumbersInv`: no two messages in flight, and none in
  flight and received, share one), that connections follow one another
  (`ConnectionsInv`), and that the bound leaves a number for each message begun
  (`RoomInv`).
* **`RsFilter`.** `BuiltRight` ties the subsystems to the stage, `Used` says that a
  client, a message or a callback holds its subsystem in place, and which of them a late
  client finds, `CallsRight` is the
  life of a name, and `NoticedUnlisted` that a call that has not noticed its name
  off the list is still before its look-up. The push has an invariant of its own:
  `PushRight` says that the driver's list is `Kept(entries, k)` for the `k` entries
  handled so far, where `k` follows from the chunk number and what is left of the
  message. `KeptNext` is the step of the driver's handler; that the chunks cover the
  list and do not overlap is arithmetic about `*` and `\div` (`ChunksCover`, `Bounds`).
* **`RsAgents`.** `HandleInv` says where a handle may be at each point of the main
  thread, `ThreadInv` where a listener may exist, `MonitoringInv` that driver and
  configuration differ only between a pause and its save, or after a request that got no
  answer on a live connection, and `CountersInv` how
  many messages a report being handled still adds.
* **`ConfigManager`.** Both theorems speak of saves in which no deletion failed and no
  other program saved (`clean`). `Quiet` says that while nothing disturbs a save its program
  alone is saving; `Torn` follows the registry slot by slot through the save, and
  `Kept` what has been stored as long as no failure was reported. What a reader
  would load is a `CHOOSE`; `LoadIs`, `LoadWritten` and `LoadSaved` replace it by
  facts about slots, from the least-number principle.

**Model-checked only.** Liveness: `CallsReturn`, `NotificationReturns`,
`StopReturns`, `DaemonNoticesLoss`. The prover handles neither fairness nor
`ENABLED`. Every invariant and action property of a passing run, and both refinements,
are proved.

## 5. What is not modelled

* The event logger, the deployment scripts, and the user interface: printing
  commands, menus, icons, dialogs. They decide nothing.
* `LoadFromRegistry` and `ClearExceptions`: no program calls them.
* The content and limits of the replies to queries: they read, and promise no
  completeness. The layout of messages and the rejection of malformed ones. A reply whose status is
  not success ends the push early (`CommManager.cpp:738-742`); the driver's handler
  sends none (`RsCommPort.c:811-999`).
* The truncation of long names (`CommManager.cpp:690` and 723, `RsContext.c:1171`): names
  are model values.
* The exit of processes and the reuse of their ids: the driver does nothing about
  either, so the log and the block pass to the next process of that id.
* How often the tracker fails open: `BlockPolicy` permits it at any time, as memory may
  run out at any time, so the refinement says nothing about it.
* IRQL and page faults: only what they let happen (an allocation that fails, a
  name that is not known).
* ULONG overflow of the counter and of the sequence number: 2^32 contexts or messages
  are out of reach; underflow of the counter is covered by `TypeOK`.
* Buckets of the hash table; the choice of a bucket affects only time.
* The remark that `FilterSendMessage` and `FilterGetMessage` on one handle may be
  serialized (`CommManager.cpp:43-48`): taken literally, every request would wait
  for a report.
* The command that sets threshold and window together makes two saves; each is one
  of `ConfigManager`'s.

## 6. Plan

All modules of the plan are written, and all safety properties proved. What remains
worth doing:

1. The invariants that liveness rests on, as theorems: in each state in which a
   caller, the listener or the main thread waits, what it waits for is under way.
2. Queries as actions of `RsContext`, with the limit of 256 entries, if the
   programs ever rely on their completeness.
3. The `config` run with failing reads, once a larger instance can be afforded.
