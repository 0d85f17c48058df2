--------------------------- MODULE ConfigManager ---------------------------
(***************************************************************************)
(* ConfigManager: the settings and the allowlist, in memory and in the     *)
(* registry.                                                               *)
(*                                                                         *)
(* m_mutex makes every public operation one block within its process, but  *)
(* the tray agent, the daemon and each command are processes of their own  *)
(* on the same registry keys.  So every call of the registry is a step:    *)
(* other processes act between two of them, a process may be killed        *)
(* between two of them, and each may fail.  LoadFromRegistry and           *)
(* ClearExceptions are left out: no program calls them.                    *)
(***************************************************************************)
EXTENDS Naturals, SequencesExt

CONSTANTS
  Processes,
  Settings,   \* the REG_DWORD values, in the order they are saved
  Values,
  Default,    \* RS_DEFAULT_...
  Names,      \* image names, each spelling one
  Folded,     \* the spelling _wcsicmp compares
  LongNames,  \* those of RS_MAX_ALLOWLIST_NAME_LEN characters or more
  Missing,    \* no such value, or one of another type
  MaxEntries, \* RS_MAX_ALLOWLIST_ENTRIES
  Faults,     \* kinds of calls that may fail
  MaxSaves    \* bound on the saves begun

ASSUME ConfigAssumption ==
  /\ Settings \in Seq(STRING) \ {<<>>}
  /\ \A i, j \in DOMAIN Settings : i # j => Settings[i] # Settings[j]
  /\ Default \in Values /\ Missing \notin Values /\ Missing \notin Names
  /\ Folded \in [Names -> Names] /\ LongNames \subseteq Names
  /\ MaxEntries \in Nat \ {0} /\ MaxSaves \in Nat
  /\ Faults \subseteq {"open", "read", "set", "delete"}

VARIABLES
  value,     \* the values of the Config key
  entry,     \* the EntryNN values of the Allowlist key
  pc,        \* what each process is doing
  keys,      \* m_hConfigKey, m_hAllowlistKey: which of them are open
  setting,   \* m_fileCountThreshold, m_timeWindowSeconds, m_monitoringEnabled
  allowlist, \* m_allowlist
  idx,       \* loop counter
  success,   \* of SaveToRegistry
  saver,     \* history: who began the last save ...
  before,    \* history: the list that could be loaded then
  saved,     \* history: the list it saves
  clean,     \* history: no deletion failed and no other save ran during it
  saves      \* how many saves were begun

registry == <<value, entry>>
memory   == <<setting, allowlist>>
history  == <<saver, before, saved, clean, saves>>
vars == <<registry, pc, keys, memory, idx, success, history>>

Slots == 0..MaxEntries-1
SettingNames == ToSet(Settings)
Same(a, b) == Folded[a] = Folded[b]
Readable(e) == e \notin LongNames \union {Missing}

(* The leading entries that the buffer of a reader can hold.               *)
Ends(list, n) ==
  /\ \A i \in 1..n : Readable(list[i])
  /\ n < Len(list) => ~Readable(list[n+1])
Leading(list) == SubSeq(list, 1, CHOOSE n \in 0..Len(list) : Ends(list, n))

(* What a process that starts now would load.                              *)
Load(e) == Leading([i \in 1..MaxEntries |-> e[i-1]])
Stored  == Load(entry)

Fails(kind) == kind \in Faults

(* Config is opened first.                                                 *)
ConfigOpen(p)    == keys[p] # "none"
AllowlistOpen(p) == keys[p] = "both"

Init ==
  /\ value \in [SettingNames -> Values \union {Missing}]
  /\ entry \in [Slots -> Names \union {Missing}]
  /\ pc = [p \in Processes |-> "off"]
  /\ keys = [p \in Processes |-> "none"]
  /\ setting = [p \in Processes |-> [s \in SettingNames |-> Default]]
  /\ allowlist = [p \in Processes |-> <<>>]
  /\ idx = [p \in Processes |-> 0]
  /\ success = [p \in Processes |-> TRUE]
  /\ saver \in Processes /\ before = Stored /\ saved = Stored /\ clean = TRUE
  /\ saves = 0

Goto(p, label, i) ==
  /\ pc' = [pc EXCEPT ![p] = label]
  /\ idx' = [idx EXCEPT ![p] = i]
-----------------------------------------------------------------------------
(* Initialize.  No program looks at its result: with a key that could not  *)
(* be opened the process goes on with the defaults.                        *)
Initialize(p) ==
  /\ pc[p] = "off"
  /\ \/ keys' = [keys EXCEPT ![p] = "both"] /\ Goto(p, "load", 1)
     \/ /\ Fails("open")
        /\ \E k \in {"none", "config"} : keys' = [keys EXCEPT ![p] = k]
        /\ Goto(p, "running", 0)
  /\ UNCHANGED <<registry, memory, success, history>>

(* ReadDWord: the value, or the default when there is none.                *)
ReadDWord(name) ==
  {IF value[name] = Missing THEN Default ELSE value[name]}
    \union (IF Fails("read") THEN {Default} ELSE {})

LoadSetting(p) ==
  /\ pc[p] = "load"
  /\ \E v \in ReadDWord(Settings[idx[p]]) :
       setting' = [setting EXCEPT ![p][Settings[idx[p]]] = v]
  /\ IF idx[p] < Len(Settings) THEN Goto(p, "load", idx[p] + 1)
                               ELSE Goto(p, "entries", 0)
  /\ UNCHANGED <<registry, keys, allowlist, success, history>>

(* The entries are read up to the first that cannot be.                    *)
LoadEntry(p) ==
  /\ pc[p] = "entries" /\ idx[p] < MaxEntries
  /\ Readable(entry[idx[p]])
  /\ allowlist' = [allowlist EXCEPT ![p] = Append(@, entry[idx[p]])]
  /\ Goto(p, "entries", idx[p] + 1)
  /\ UNCHANGED <<registry, keys, setting, success, history>>

Loaded(p) ==
  /\ pc[p] = "entries"
  /\ idx[p] < MaxEntries => ~Readable(entry[idx[p]]) \/ Fails("read")
  /\ Goto(p, "running", 0)
  /\ UNCHANGED <<registry, keys, memory, success, history>>
-----------------------------------------------------------------------------
Saving(p) == pc[p] \in {"settings", "delete", "write"}

(* Every change is followed by a save of everything.                       *)
BeginSave(p) ==
  /\ saves < MaxSaves /\ saves' = saves + 1
  /\ Goto(p, "settings", 1)
  /\ success' = [success EXCEPT ![p] = TRUE]
  /\ saver' = p /\ before' = Stored /\ saved' = allowlist'[p]
  /\ clean' = \A q \in Processes \ {p} : ~Saving(q)
  /\ UNCHANGED <<registry, keys>>

(* SetFileCountThreshold, SetTimeWindowSeconds and SetMonitoringEnabled.   *)
Set(p, name, v) ==
  /\ pc[p] = "running"
  /\ setting' = [setting EXCEPT ![p][name] = v]
  /\ UNCHANGED allowlist
  /\ BeginSave(p)

(* Mutant: the limit is off by one.                                        *)
AddOneTooMany(p, n) ==
  /\ pc[p] = "running"
  /\ \A i \in DOMAIN allowlist[p] : ~Same(allowlist[p][i], n)
  /\ Len(allowlist[p]) <= MaxEntries
  /\ allowlist' = [allowlist EXCEPT ![p] = Append(@, n)]
  /\ BeginSave(p)
  /\ UNCHANGED setting

AddException(p, n) ==
  /\ pc[p] = "running"
  /\ \A i \in DOMAIN allowlist[p] : ~Same(allowlist[p][i], n)
  /\ Len(allowlist[p]) < MaxEntries
  /\ allowlist' = [allowlist EXCEPT ![p] = Append(@, n)]
  /\ BeginSave(p)
  /\ UNCHANGED setting

RemoveException(p, n) ==
  /\ pc[p] = "running"
  /\ \E i \in DOMAIN allowlist[p] :
       /\ Same(allowlist[p][i], n)
       /\ \A j \in 1..i-1 : ~Same(allowlist[p][j], n)
       /\ allowlist' = [allowlist EXCEPT ![p] = RemoveAt(@, i)]
  /\ BeginSave(p)
  /\ UNCHANGED setting
-----------------------------------------------------------------------------
(* SaveToRegistry: the settings, ...                                       *)
WriteDWord(p) ==
  /\ pc[p] = "settings" /\ idx[p] <= Len(Settings)
  /\ LET s == Settings[idx[p]] IN
     \/ /\ ConfigOpen(p)
        /\ value' = [value EXCEPT ![s] = setting[p][s]]
        /\ UNCHANGED success
     \/ /\ ~ConfigOpen(p) \/ Fails("set")
        /\ success' = [success EXCEPT ![p] = FALSE]
        /\ UNCHANGED value
  /\ IF idx[p] < Len(Settings) THEN Goto(p, "settings", idx[p] + 1)
                               ELSE Goto(p, "delete", 0)
  /\ UNCHANGED <<entry, keys, memory, history>>

(* Mutant: deleting stops at the first entry that is not there.            *)
DeleteUntilMissing(p) ==
  /\ pc[p] = "delete"
  /\ \/ /\ AllowlistOpen(p)
        /\ entry' = [entry EXCEPT ![idx[p]] = Missing]
        /\ UNCHANGED clean
     \/ /\ ~AllowlistOpen(p) \/ Fails("delete")
        /\ clean' = (clean /\ entry[idx[p]] = Missing)
        /\ UNCHANGED entry
  /\ IF idx[p] + 1 < MaxEntries /\ entry[idx[p]] # Missing
       THEN Goto(p, "delete", idx[p] + 1) ELSE Goto(p, "write", 0)
  /\ UNCHANGED <<value, keys, memory, success, saver, before, saved, saves>>

(* ... then every EntryNN there may be is deleted, whatever comes of it,   *)
DeleteEntry(p) ==
  /\ pc[p] = "delete"
  /\ \/ /\ AllowlistOpen(p)
        /\ entry' = [entry EXCEPT ![idx[p]] = Missing]
        /\ UNCHANGED clean
     \/ /\ ~AllowlistOpen(p) \/ Fails("delete")
        /\ clean' = (clean /\ entry[idx[p]] = Missing)
        /\ UNCHANGED entry
  /\ IF idx[p] + 1 < MaxEntries THEN Goto(p, "delete", idx[p] + 1)
                                ELSE Goto(p, "write", 0)
  /\ UNCHANGED <<value, keys, memory, success, saver, before, saved, saves>>

(* Mutant: an entry that cannot be written does not fail the save.         *)
WriteEntryUnchecked(p) ==
  /\ pc[p] = "write" /\ idx[p] < Len(allowlist[p])
  /\ \/ AllowlistOpen(p) /\ entry' = [entry EXCEPT ![idx[p]] = allowlist[p][idx[p]+1]]
     \/ (~AllowlistOpen(p) \/ Fails("set")) /\ UNCHANGED entry
  /\ Goto(p, "write", idx[p] + 1)
  /\ UNCHANGED <<value, success, keys, memory, history>>

(* ... and the entries are written one by one, past those that fail.       *)
WriteEntry(p) ==
  /\ pc[p] = "write" /\ idx[p] < Len(allowlist[p])
  /\ \/ /\ AllowlistOpen(p)
        /\ entry' = [entry EXCEPT ![idx[p]] = allowlist[p][idx[p]+1]]
        /\ UNCHANGED success
     \/ /\ ~AllowlistOpen(p) \/ Fails("set")
        /\ success' = [success EXCEPT ![p] = FALSE]
        /\ UNCHANGED entry
  /\ Goto(p, "write", idx[p] + 1)
  /\ UNCHANGED <<value, keys, memory, history>>

SaveReturns(p) ==
  /\ pc[p] = "write" /\ idx[p] = Len(allowlist[p])
  /\ Goto(p, "saved", 0)
  /\ UNCHANGED <<registry, keys, memory, success, history>>

Resume(p) ==
  /\ pc[p] = "saved"
  /\ Goto(p, "running", 0)
  /\ UNCHANGED <<registry, keys, memory, success, history>>

(* The process ends, by itself or at any point of a save; the next one     *)
(* starts from the constructor.                                            *)
Stop(p) ==
  /\ pc[p] # "off"
  /\ Goto(p, "off", 0)
  /\ keys' = [keys EXCEPT ![p] = "none"]
  /\ setting' = [setting EXCEPT ![p] = [s \in SettingNames |-> Default]]
  /\ allowlist' = [allowlist EXCEPT ![p] = <<>>]
  /\ success' = [success EXCEPT ![p] = TRUE]
  /\ UNCHANGED <<registry, history>>
-----------------------------------------------------------------------------
Change(p) ==
  \/ \E s \in SettingNames, v \in Values : Set(p, s, v)
  \/ \E n \in Names : AddException(p, n) \/ RemoveException(p, n)

Next == \E p \in Processes :
  \/ Initialize(p) \/ LoadSetting(p) \/ LoadEntry(p) \/ Loaded(p)
  \/ Change(p)
  \/ WriteDWord(p) \/ DeleteEntry(p) \/ WriteEntry(p)
  \/ SaveReturns(p) \/ Resume(p) \/ Stop(p)

Spec == Init /\ [][Next]_vars
-----------------------------------------------------------------------------
Labels == {"off", "load", "entries", "running", "settings", "delete", "write",
           "saved"}

TypeOK ==
  /\ value \in [SettingNames -> Values \union {Missing}]
  /\ entry \in [Slots -> Names \union {Missing}]
  /\ pc \in [Processes -> Labels]
  /\ keys \in [Processes -> {"none", "config", "both"}]
  /\ setting \in [Processes -> [SettingNames -> Values]]
  /\ allowlist \in [Processes -> Seq(Names)]
  /\ \A p \in Processes : Len(allowlist[p]) <= MaxEntries
  /\ idx \in [Processes -> 0..MaxEntries + Len(Settings)]
  /\ success \in [Processes -> BOOLEAN]
  /\ saver \in Processes /\ before \in Seq(Names) /\ saved \in Seq(Names)
  /\ clean \in BOOLEAN /\ saves \in 0..MaxSaves

(* However a save is cut short, by a kill or by opens and sets that fail,  *)
(* and whatever was in the registry before it, the next program to start   *)
(* loads the list as it was, or a beginning of the new one: never a        *)
(* mixture, and never an entry the user removed (ConfigManager.cpp:        *)
(* 319-380).  This is promised only while no deletion of an entry that was *)
(* there failed, of which the code only warns (332-338), and no other      *)
(* program saved during the save; the next save starts afresh.             *)
TornSave == clean => Stored = before \/ IsPrefix(Stored, saved)

(* "Configuration saved to registry": a save that reports success, and     *)
(* that no failed deletion or other save disturbed, has stored exactly     *)
(* what the program has in memory, up to an entry too long to be read      *)
(* back (ConfigManager.cpp:382-386).                                       *)
SuccessMeansSaved ==
  clean /\ pc[saver] = "saved" /\ success[saver] =>
    /\ value = setting[saver]
    /\ Stored = Leading(saved)
=============================================================================
