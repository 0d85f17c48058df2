---------------------------- MODULE RsAllowlist ----------------------------
(***************************************************************************)
(* The dynamic allowlist of the driver and the way a client replaces it.   *)
(*                                                                         *)
(* CommManager::PushAllowlist clears the list and then sends the new one,  *)
(* whole when it fits one message and in chunks when it does not.  The     *)
(* message handler of the driver appends the entries of a message one by   *)
(* one, each in a critical section of its own, so file operations see the  *)
(* list empty and then growing.  A push may fail at each message.          *)
(*                                                                         *)
(* One push at a time: the port admits one client, and a client pushes     *)
(* from one thread.                                                        *)
(***************************************************************************)
EXTENDS Naturals, SequencesExt, FiniteSets

CONSTANTS
  Names,      \* what the user may put on the list
  EmptyName,  \* a name of length 0
  Lists,      \* the lists a client pushes
  MaxEntries, \* RS_MAX_ALLOWLIST_ENTRIES
  MaxChunk    \* RS_MAX_ALLOWLIST_CHUNK

ASSUME AllowlistAssumption ==
  /\ EmptyName \notin Names
  /\ Lists \subseteq Seq(Names \union {EmptyName})
  /\ MaxEntries \in Nat \ {0} /\ MaxChunk \in Nat \ {0}

VARIABLES
  dynamicAllowlist, \* g_DynamicAllowlist, its first g_DynamicAllowlistCount
  push,             \* where the client is in PushAllowlist
  entries,          \* its argument
  chunkIdx,         \* its loop counter
  pending,          \* entries of the handled message still to be added
  replaced          \* history: the list a push is about to clear

pushVars == <<push, entries, chunkIdx, pending, replaced>>
allowlistVars == <<dynamicAllowlist, pushVars>>

(* The positions of the entries that have a name, in a list, up to k.      *)
NamedUpTo(list, k) == {m \in 1 .. Len(list) : m <= k /\ list[m] # EmptyName}

(* Where the j-th of them is.                                              *)
Nth(list, j) ==
  CHOOSE k \in NamedUpTo(list, Len(list)) : Cardinality(NamedUpTo(list, k)) = j

(* The first k entries as the driver keeps them: those that have a name,   *)
(* in their order, as many as it has room for.                             *)
Kept(list, k) ==
  LET named == Cardinality(NamedUpTo(list, k))
  IN  [j \in 1 .. (IF named < MaxEntries THEN named ELSE MaxEntries) |->
         list[Nth(list, j)]]

(* What a client that gets no error may expect in the driver.              *)
Expected(list) == Kept(list, Len(list))

AllowlistInit ==
  /\ dynamicAllowlist = <<>>
  /\ push = "idle"
  /\ entries = <<>>
  /\ chunkIdx = 0
  /\ pending = <<>>
  /\ replaced = <<>>
-----------------------------------------------------------------------------
PushAllowlist(list) ==
  /\ push \in {"idle", "done", "failed"}
  /\ push' = "clear"
  /\ entries' = list
  /\ replaced' = dynamicAllowlist
  /\ UNCHANGED <<dynamicAllowlist, chunkIdx, pending>>

(* SendRequest fails before the message reaches the driver, or after the   *)
(* driver has handled it; the push gives up.                               *)
SendRequestFails ==
  /\ push \in {"clear", "send", "reply"}
  /\ push' = "failed"
  /\ chunkIdx' = 0
  /\ UNCHANGED <<dynamicAllowlist, entries, pending, replaced>>

(* Mutant: the clear leaves the count alone.                               *)
ClearNothing ==
  /\ push = "clear"
  /\ push' = "send"
  /\ UNCHANGED <<dynamicAllowlist, entries, chunkIdx, pending, replaced>>

ClearDynamicAllowlist ==
  /\ push = "clear"
  /\ dynamicAllowlist' = <<>>
  /\ replaced' = <<>>
  /\ push' = "send"
  /\ UNCHANGED <<entries, chunkIdx, pending>>

(* One message if the list fits, else as many chunks as it takes.          *)
Full == Len(entries) <= MaxEntries
TotalChunks == (Len(entries) + MaxChunk - 1) \div MaxChunk

(* Mutant: neighbouring chunks share an entry.                             *)
ChunkOverlapping ==
  LET startIdx == IF chunkIdx = 0 THEN 0 ELSE chunkIdx * MaxChunk - 1
      endIdx == IF startIdx + MaxChunk < Len(entries) THEN startIdx + MaxChunk
                ELSE Len(entries)
  IN  SubSeq(entries, startIdx + 1, endIdx)

(* The entries from startIdx up to endIdx, counted from 0.                 *)
Chunk ==
  LET startIdx == chunkIdx * MaxChunk
      endIdx == IF startIdx + MaxChunk < Len(entries) THEN startIdx + MaxChunk
                ELSE Len(entries)
  IN  SubSeq(entries, startIdx + 1, endIdx)

UpdateAllowlistFull ==
  /\ push = "send" /\ Full
  /\ pending' = entries
  /\ push' = "append"
  /\ UNCHANGED <<dynamicAllowlist, entries, chunkIdx, replaced>>

UpdateAllowlistChunk ==
  /\ push = "send" /\ ~Full
  /\ pending' = Chunk
  /\ push' = "append"
  /\ UNCHANGED <<dynamicAllowlist, entries, chunkIdx, replaced>>

(* A name without characters is ignored, and so is every name once the     *)
(* list is full; the client is not told.                                   *)
AddDynamicAllowlistEntry ==
  /\ push = "append" /\ pending # <<>>
  /\ pending' = Tail(pending)
  /\ IF Head(pending) # EmptyName /\ Len(dynamicAllowlist) < MaxEntries
     THEN dynamicAllowlist' = Append(dynamicAllowlist, Head(pending))
     ELSE UNCHANGED dynamicAllowlist
  /\ UNCHANGED <<push, entries, chunkIdx, replaced>>

HandlerReturns ==
  /\ push = "append" /\ pending = <<>>
  /\ push' = "reply"
  /\ UNCHANGED <<dynamicAllowlist, entries, chunkIdx, pending, replaced>>

(* The reply's Status, on which a chunked push would return early with     *)
(* hr (CommManager.cpp:738-742), is left out: the driver replies nothing   *)
(* but STATUS_SUCCESS (RsCommPort.c:811-999).                              *)
ReplyReceived ==
  /\ push = "reply"
  /\ IF Full \/ chunkIdx + 1 = TotalChunks
     THEN push' = "done" /\ chunkIdx' = 0
     ELSE push' = "send" /\ chunkIdx' = chunkIdx + 1
  /\ UNCHANGED <<dynamicAllowlist, entries, pending, replaced>>

(* What takes a connection, and what goes on without one.                  *)
Deliver ==
  ClearDynamicAllowlist \/ UpdateAllowlistFull \/ UpdateAllowlistChunk

PushStep ==
  \/ \E list \in Lists : PushAllowlist(list)
  \/ SendRequestFails
  \/ AddDynamicAllowlistEntry \/ HandlerReturns \/ ReplyReceived

(* The driver is loaded anew: its list is empty, and a push in progress    *)
(* has lost its connection.                                                *)
AllowlistReset ==
  /\ dynamicAllowlist' = <<>>
  /\ push' = IF push \in {"idle", "done"} THEN "idle" ELSE "failed"
  /\ entries' = <<>>
  /\ chunkIdx' = 0
  /\ replaced' = <<>>
  /\ UNCHANGED pending
-----------------------------------------------------------------------------
AllowlistTypeOK ==
  /\ dynamicAllowlist \in Seq(Names) /\ Len(dynamicAllowlist) <= MaxEntries
  /\ push \in {"idle", "clear", "send", "append", "reply", "done", "failed"}
  /\ entries \in Lists \union {<<>>}
  /\ chunkIdx \in Nat
  /\ pending \in Seq(Names \union {EmptyName})
  /\ replaced \in Seq(Names)

(* A push that reports success has installed the list it was given, in its *)
(* order, whole or in chunks, up to what the driver keeps                  *)
(* (CommManager.cpp:650-750, RsContext.c:1155-1183).                       *)
PushInstallsList ==
  push = "done" => dynamicAllowlist = Expected(entries)

(* However a push ends, the list is the old one or a beginning of the new  *)
(* one, never a mixture of both: a retried push finds nothing it could     *)
(* duplicate (CommManager.cpp:654-669).                                    *)
NoMixedList ==
  push # "idle" =>
    \/ dynamicAllowlist = replaced /\ push \in {"clear", "failed"}
    \/ IsPrefix(dynamicAllowlist, Expected(entries))
=============================================================================
