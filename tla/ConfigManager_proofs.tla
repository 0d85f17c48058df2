------------------------ MODULE ConfigManager_proofs ------------------------
(***************************************************************************)
(* Proofs about ConfigManager, for any number of programs, settings and    *)
(* entries, and any calls that fail.                                       *)
(***************************************************************************)
EXTENDS ConfigManager, SequenceTheorems, WellFoundedInduction, TLAPS

(* A non-empty set of numbers has a least one.                             *)
LEMMA LeastNumber ==
  ASSUME NEW T, T \subseteq Nat, T # {}
  PROVE  \E x \in T : \A y \in T : x <= y
<1> DEFINE R == OpToRel(<, Nat)
<1>1. IsWellFoundedOn(R, Nat)
  BY NatLessThanWellFounded
<1>2. \A x, y \in Nat : x < y => <<x, y>> \in R
  BY DEF OpToRel
<1> HIDE DEF R
<1>3. PICK x \in T : \A y \in T : ~(<<y, x>> \in R)
  BY <1>1, WFMin
<1>4. ASSUME NEW y \in T PROVE x <= y
  <2>1. ~(y < x)
    BY <1>2, <1>3, Zenon
  <2> QED BY <2>1, SMT
<1> QED BY <1>4, Zenon

(* A reader stops somewhere ...                                            *)
LEMMA EndsExists ==
  ASSUME NEW S, NEW list \in Seq(S)
  PROVE  \E n \in 0..Len(list) : Ends(list, n)
<1> DEFINE T == {n \in 0..Len(list) : n = Len(list) \/ ~Readable(list[n+1])}
<1>1. T \subseteq Nat /\ Len(list) \in T
  OBVIOUS
<1>2. PICK n \in T : \A m \in T : n <= m
  BY <1>1, LeastNumber
<1>3. ASSUME NEW i \in 1..n PROVE Readable(list[i])
  <2>1. i-1 \in 0..Len(list) /\ i-1 < n /\ (i-1) + 1 = i
    BY <1>1
  <2>2. n \in Nat
    OBVIOUS
  <2> HIDE DEF T
  <2>3. \A m \in T : ~(m < n)
    BY <1>1, <1>2, <2>2
  <2>4. i-1 \notin T
    BY <2>1, <2>3
  <2> USE DEF T
  <2> QED BY <2>1, <2>4
<1>4. n \in 0..Len(list) /\ (n < Len(list) => ~Readable(list[n+1]))
  OBVIOUS
<1> QED BY <1>3, <1>4 DEF Ends

(* ... and in one place only.                                              *)
LEMMA LeadingIs ==
  ASSUME NEW S, NEW list \in Seq(S), NEW n \in 0..Len(list), Ends(list, n)
  PROVE  Leading(list) = SubSeq(list, 1, n)
<1>1. ASSUME NEW m \in 0..Len(list), NEW k \in 0..Len(list),
             Ends(list, m), Ends(list, k), m < k
      PROVE  FALSE
  <2>1. m+1 \in 1..k /\ m < Len(list)
    BY <1>1
  <2> QED BY <1>1, <2>1 DEF Ends
<1>2. \A m, k \in 0..Len(list) : Ends(list, m) /\ Ends(list, k) => m = k
  BY <1>1
<1> DEFINE c == CHOOSE m \in 0..Len(list) : Ends(list, m)
<1>3. c \in 0..Len(list) /\ Ends(list, c)
  OBVIOUS
<1>4. c = n
  BY <1>2, <1>3
<1> QED BY <1>4 DEF Leading

(* What a slot of the registry can hold.                                   *)
EntryValues == Names \union {Missing}

(* What is loaded are the entries before the first that cannot be read.    *)
LEMMA LoadIs ==
  ASSUME NEW e \in [Slots -> EntryValues]
  PROVE  \E n \in 0..MaxEntries :
           /\ Load(e) \in Seq(Names) /\ Len(Load(e)) = n
           /\ \A i \in 1..n : Readable(e[i-1]) /\ Load(e)[i] = e[i-1]
           /\ n < MaxEntries => ~Readable(e[n])
<1> DEFINE l == [i \in 1..MaxEntries |-> e[i-1]]
<1>0. MaxEntries \in Nat
  BY ConfigAssumption
<1>1. l \in Seq(EntryValues) /\ Len(l) = MaxEntries
  BY <1>0 DEF Slots
<1>2. PICK n \in 0..Len(l) : Ends(l, n)
  BY <1>1, EndsExists
<1>3. Load(e) = SubSeq(l, 1, n)
  BY <1>1, <1>2, LeadingIs DEF Load
<1>4. \A i \in 1..n : l[i] = e[i-1] /\ l[i] \in Names /\ Readable(l[i])
  <2> TAKE i \in 1..n
  <2>1. i \in 1..MaxEntries /\ i-1 \in Slots
    BY <1>0, <1>1 DEF Slots
  <2>2. l[i] = e[i-1] /\ e[i-1] \in EntryValues
    BY <2>1
  <2> HIDE DEF l
  <2>3. Readable(l[i])
    BY <1>2 DEF Ends
  <2> QED BY <2>2, <2>3 DEF Readable, EntryValues
<1>5. n < MaxEntries => ~Readable(e[n])
  BY <1>0, <1>1, <1>2 DEF Ends
<1>6. n \in 0..MaxEntries
  BY <1>1
<1> HIDE DEF l
<1>7. /\ SubSeq(l, 1, n) \in Seq(Names) /\ Len(SubSeq(l, 1, n)) = n
      /\ \A i \in 1..n : SubSeq(l, 1, n)[i] = l[i]
  <2>1. /\ SubSeq(l, 1, n) \in Seq(Names)
        /\ Len(SubSeq(l, 1, n)) = IF 1 <= n THEN n-1+1 ELSE 0
        /\ \A i \in 1..n-1+1 : SubSeq(l, 1, n)[i] = l[1+i-1]
    BY <1>4, <1>6, SubSeqProperties
  <2> QED BY <1>6, <2>1
<1> QED BY <1>3, <1>4, <1>5, <1>6, <1>7

LEMMA LoadEmpty ==
  ASSUME NEW e \in [Slots -> EntryValues], e[0] = Missing
  PROVE  Load(e) = <<>>
<1>1. PICK n \in 0..MaxEntries :
        /\ Load(e) \in Seq(Names) /\ Len(Load(e)) = n
        /\ \A i \in 1..n : Readable(e[i-1])
  BY LoadIs
<1>2. ~Readable(e[0])
  BY DEF Readable
<1>3. n = 0
  <2>1. CASE n > 0
    <3>1. 1 \in 1..n /\ 1-1 = 0
      BY <2>1
    <3> QED BY <1>1, <1>2, <3>1
  <2> QED BY <2>1, ConfigAssumption
<1> QED BY <1>1, <1>3

(* Every slot is empty, or among the first i and written from list s.      *)
Written(e, s, i) ==
  \A k \in Slots : e[k] = Missing \/ (k < i /\ k < Len(s) /\ e[k] = s[k+1])

LEMMA LoadWritten ==
  ASSUME NEW e \in [Slots -> EntryValues], NEW s \in Seq(Names), NEW i \in Nat,
         Written(e, s, i)
  PROVE  IsPrefix(Load(e), s)
<1>1. PICK n \in 0..MaxEntries :
        /\ Load(e) \in Seq(Names) /\ Len(Load(e)) = n
        /\ \A j \in 1..n : Readable(e[j-1]) /\ Load(e)[j] = e[j-1]
  BY LoadIs
<1>2. MaxEntries \in Nat
  BY ConfigAssumption
<1>3. \A j \in 1..n : j <= Len(s) /\ Load(e)[j] = s[j]
  <2> TAKE j \in 1..n
  <2>1. j-1 \in Slots /\ (j-1)+1 = j
    BY <1>2 DEF Slots
  <2>2. e[j-1] # Missing
    BY <1>1 DEF Readable
  <2>3. j-1 < Len(s) /\ e[j-1] = s[j]
    BY <2>1, <2>2 DEF Written
  <2> QED BY <1>1, <2>3
<1>4. n <= Len(s)
  <2>1. CASE n > 0
    BY <1>3, <2>1
  <2> QED BY <2>1
<1>5. Load(e) = SubSeq(s, 1, n)
  <2>1. /\ SubSeq(s, 1, n) \in Seq(Names)
        /\ Len(SubSeq(s, 1, n)) = n
        /\ \A j \in 1..n : SubSeq(s, 1, n)[j] = s[j]
    BY <1>4
  <2> QED BY <1>1, <1>3, <2>1, SeqEqual
<1>6. SubSeq(Load(e), 1, n) = Load(e)
  BY <1>1, SubSeqFull
<1> QED BY <1>1, <1>4, <1>5, <1>6 DEF IsPrefix

(* The registry holds list s and nothing else.                             *)
Holds(e, s) == \A k \in Slots : e[k] = IF k < Len(s) THEN s[k+1] ELSE Missing

LEMMA LoadSaved ==
  ASSUME NEW e \in [Slots -> EntryValues], NEW s \in Seq(Names),
         Len(s) <= MaxEntries, Holds(e, s)
  PROVE  Load(e) = Leading(s)
<1>1. PICK n \in 0..MaxEntries :
        /\ Load(e) \in Seq(Names) /\ Len(Load(e)) = n
        /\ \A j \in 1..n : Readable(e[j-1]) /\ Load(e)[j] = e[j-1]
        /\ n < MaxEntries => ~Readable(e[n])
  BY LoadIs
<1>2. MaxEntries \in Nat
  BY ConfigAssumption
<1>3. \A j \in 1..n : j <= Len(s) /\ Load(e)[j] = s[j] /\ Readable(s[j])
  <2> TAKE j \in 1..n
  <2>1. j-1 \in Slots /\ (j-1)+1 = j
    BY <1>2 DEF Slots
  <2>2. Readable(e[j-1]) /\ e[j-1] # Missing
    BY <1>1 DEF Readable
  <2>3. j-1 < Len(s) /\ e[j-1] = s[j]
    BY <2>1, <2>2 DEF Holds
  <2> QED BY <1>1, <2>2, <2>3
<1>4. n \in 0..Len(s)
  <2>1. CASE n > 0
    BY <1>3, <2>1
  <2> QED BY <2>1
<1>5. n < Len(s) => ~Readable(s[n+1])
  <2> HAVE n < Len(s)
  <2>1. n \in Slots /\ e[n] = s[n+1] /\ n < MaxEntries
    BY <1>2 DEF Slots, Holds
  <2> QED BY <1>1, <2>1
<1>6. Leading(s) = SubSeq(s, 1, n)
  BY <1>3, <1>4, <1>5, LeadingIs DEF Ends
<1>7. Load(e) = SubSeq(s, 1, n)
  <2>1. /\ SubSeq(s, 1, n) \in Seq(Names)
        /\ Len(SubSeq(s, 1, n)) = n
        /\ \A j \in 1..n : SubSeq(s, 1, n)[j] = s[j]
    BY <1>4
  <2> QED BY <1>1, <1>3, <2>1, SeqEqual
<1> QED BY <1>6, <1>7
-----------------------------------------------------------------------------
(* Where each program is in its loops.                                     *)
Position == \A p \in Processes :
  /\ pc[p] \in {"load", "settings"} => idx[p] \in 1..Len(Settings)
  /\ pc[p] = "entries" => idx[p] \in 0..MaxEntries /\ Len(allowlist[p]) = idx[p]
  /\ pc[p] = "delete" => idx[p] \in Slots
  /\ pc[p] = "write" => idx[p] \in 0..Len(allowlist[p])
  /\ pc[p] \in {"off", "load"} => allowlist[p] = <<>>

(* While nothing disturbs the last save, its program alone is saving, and  *)
(* the registry is between the old list and the new one.                   *)
Quiet == clean =>
  /\ \A q \in Processes \ {saver} : ~Saving(q)
  /\ Saving(saver) => saved = allowlist[saver]

Torn == clean =>
  /\ pc[saver] = "settings" => Stored = before
  /\ pc[saver] = "delete" =>
       /\ idx[saver] = 0 => Stored = before
       /\ \A k \in 0..idx[saver]-1 : entry[k] = Missing
  /\ pc[saver] = "write" => Written(entry, saved, idx[saver])

(* As long as it has reported no failure, everything up to where it is has *)
(* been stored.                                                            *)
Kept == clean /\ success[saver] =>
  /\ pc[saver] = "settings" =>
       \A j \in 1..idx[saver]-1 : value[Settings[j]] = setting[saver][Settings[j]]
  /\ pc[saver] \in {"delete", "write", "saved"} => value = setting[saver]
  /\ pc[saver] = "write" => \A k \in 0..idx[saver]-1 : entry[k] = saved[k+1]
  /\ pc[saver] = "saved" => Len(saved) <= MaxEntries /\ Holds(entry, saved)

(* The inductive invariant: the last save is followed slot by slot.        *)
TypeInv == TypeOK /\ Position
IInv == TypeInv /\ Quiet /\ Torn /\ TornSave /\ Kept

LEMMA StoredType ==
  ASSUME TypeOK PROVE Stored \in Seq(Names)
BY LoadIs DEF Stored, TypeOK, EntryValues

LEMMA TypeInit ==
  ASSUME Init PROVE TypeInv
<1>1. entry \in [Slots -> EntryValues]
  BY DEF Init, EntryValues
<1>2. Stored \in Seq(Names)
  BY <1>1, LoadIs DEF Stored
<1>3. <<>> \in Seq(Names) /\ Len(<<>>) = 0
  OBVIOUS
<1>4. Len(Settings) \in Nat
  BY ConfigAssumption
<1>5. TypeOK
  BY <1>2, <1>3, <1>4, ConfigAssumption DEF Init, TypeOK, Labels
<1>6. Position
  BY <1>3 DEF Init, Position
<1> QED BY <1>5, <1>6 DEF TypeInv

(* A step to another place of a loop, each a legal one.                    *)
Goes(p) ==
  \E label \in Labels, i \in 0..MaxEntries + Len(Settings) : Goto(p, label, i)

LEMMA GotoType ==
  ASSUME TypeOK, NEW p, Goes(p)
  PROVE  /\ pc' \in [Processes -> Labels]
         /\ idx' \in [Processes -> 0..MaxEntries + Len(Settings)]
<1>1. PICK label \in Labels, i \in 0..MaxEntries + Len(Settings) : Goto(p, label, i)
  BY DEF Goes
<1> QED BY <1>1 DEF Goto, TypeOK

LEMMA TypeStep ==
  ASSUME TypeInv, [Next]_vars
  PROVE  TypeInv'
<1> USE DEF TypeInv
<1>0. /\ Len(Settings) \in Nat /\ Len(Settings) >= 1
      /\ MaxEntries \in Nat /\ MaxEntries >= 1 /\ MaxSaves \in Nat
      /\ \A i \in 1..Len(Settings) : Settings[i] \in SettingNames
      /\ Default \in Values
  BY ConfigAssumption DEF SettingNames, ToSet
<1>s. Stored \in Seq(Names)
  BY StoredType
<1>1. CASE UNCHANGED vars
  BY <1>1 DEF vars, registry, memory, history, TypeOK, Position
<1>2. ASSUME NEW p \in Processes, Initialize(p) PROVE TypeInv'
  <2>g. Goes(p)
    BY <1>0, <1>2 DEF Initialize, Labels, Goes
  <2>1. pc' \in [Processes -> Labels] /\ idx' \in [Processes -> 0..MaxEntries + Len(Settings)]
    BY <2>g, GotoType
  <2>3. TypeOK'
    BY <1>0, <1>2, <2>1 DEF Initialize, TypeOK, registry, memory, history
  <2>2. Position'
    BY <1>0, <1>2 DEF Initialize, Goto, TypeOK, Position, registry, memory, history
  <2> QED BY <2>2, <2>3
<1>3. ASSUME NEW p \in Processes, LoadSetting(p) PROVE TypeInv'
  <2>g. Goes(p)
    BY <1>0, <1>3 DEF LoadSetting, Labels, Position, Goes
  <2>1. pc' \in [Processes -> Labels] /\ idx' \in [Processes -> 0..MaxEntries + Len(Settings)]
    BY <2>g, GotoType
  <2>3. ReadDWord(Settings[idx[p]]) \subseteq Values
    BY <1>0, <1>3 DEF LoadSetting, ReadDWord, TypeOK, Position
  <2>a. PICK v \in Values :
          setting' = [setting EXCEPT ![p][Settings[idx[p]]] = v]
    BY <1>3, <2>3 DEF LoadSetting
  <2>4. setting' \in [Processes -> [SettingNames -> Values]]
    BY <2>a DEF TypeOK
  <2>5. TypeOK'
    BY <1>0, <1>3, <2>1, <2>4 DEF LoadSetting, TypeOK, registry, history
  <2>2. Position'
    BY <1>0, <1>3 DEF LoadSetting, Goto, TypeOK, Position, registry, history
  <2> QED BY <2>2, <2>5
<1>4. ASSUME NEW p \in Processes, LoadEntry(p) PROVE TypeInv'
  <2>1. idx[p] \in Slots /\ entry[idx[p]] \in Names
    BY <1>0, <1>4 DEF LoadEntry, TypeOK, Position, Slots, Readable
  <2>2. TypeOK'
    BY <1>0, <1>4, <2>1
    DEF LoadEntry, Goto, TypeOK, Labels, Position, Slots, registry, history
  <2>3. Position'
    BY <1>0, <1>4, <2>1
    DEF LoadEntry, Goto, TypeOK, Position, Slots, registry, history
  <2> QED BY <2>2, <2>3
<1>5. ASSUME NEW p \in Processes, Loaded(p) PROVE TypeInv'
  BY <1>0, <1>5 DEF Loaded, Goto, TypeOK, Labels, Position, registry, memory, history
<1>6. ASSUME NEW p \in Processes, Change(p) PROVE TypeInv'
  <2>1. /\ allowlist' \in [Processes -> Seq(Names)]
        /\ \A q \in Processes : Len(allowlist'[q]) <= MaxEntries
        /\ \A q \in Processes : q # p => allowlist'[q] = allowlist[q]
        /\ setting' \in [Processes -> [SettingNames -> Values]]
        /\ pc[p] = "running"
        /\ BeginSave(p)
    <3>1. CASE \E name \in SettingNames, v \in Values : Set(p, name, v)
      BY <3>1 DEF Set, TypeOK
    <3>2. CASE \E n \in Names : AddException(p, n)
      BY <3>2, <1>0 DEF AddException, TypeOK
    <3>3. CASE \E n \in Names : RemoveException(p, n)
      <4>1. PICK i \in DOMAIN allowlist[p] :
              allowlist' = [allowlist EXCEPT ![p] = RemoveAt(@, i)]
        BY <3>3 DEF RemoveException
      <4> DEFINE l == allowlist[p]
      <4>2. l \in Seq(Names) /\ i \in 1..Len(l) /\ Len(l) <= MaxEntries
        BY DEF TypeOK
      <4>3. /\ RemoveAt(l, i) \in Seq(Names)
            /\ Len(RemoveAt(l, i)) = Len(l) - 1
        <5> HIDE DEF l
        <5>1. /\ SubSeq(l, 1, i-1) \in Seq(Names) /\ Len(SubSeq(l, 1, i-1)) = i-1
              /\ SubSeq(l, i+1, Len(l)) \in Seq(Names)
              /\ Len(SubSeq(l, i+1, Len(l))) = Len(l) - i
          BY <4>2
        <5> DEFINE a == SubSeq(l, 1, i-1)
                   b == SubSeq(l, i+1, Len(l))
        <5>2. RemoveAt(l, i) = a \o b
          BY DEF RemoveAt
        <5> HIDE DEF a, b
        <5>3. a \o b \in Seq(Names) /\ Len(a \o b) = Len(a) + Len(b)
          BY <5>1, ConcatProperties DEF a, b
        <5> QED BY <4>2, <5>1, <5>2, <5>3 DEF a, b
      <4> QED BY <3>3, <4>1, <4>2, <4>3, <1>0 DEF RemoveException, TypeOK
    <3> QED BY <1>6, <3>1, <3>2, <3>3 DEF Change
  <2>2. TypeOK'
    BY <1>0, <1>s, <2>1 DEF BeginSave, Goto, TypeOK, Labels, registry
  <2>3. Position'
    BY <1>0, <2>1 DEF BeginSave, Goto, TypeOK, Position, registry
  <2> QED BY <2>2, <2>3
<1>7. ASSUME NEW p \in Processes, WriteDWord(p) PROVE TypeInv'
  <2>g. Goes(p)
    BY <1>0, <1>7 DEF WriteDWord, Labels, Position, Goes
  <2>1. pc' \in [Processes -> Labels] /\ idx' \in [Processes -> 0..MaxEntries + Len(Settings)]
    BY <2>g, GotoType
  <2>3. value' \in [SettingNames -> Values \union {Missing}]
    <3> DEFINE w == Settings[idx[p]]
    <3>1. w \in SettingNames
      BY <1>0, <1>7 DEF WriteDWord, Position
    <3>2. setting[p][w] \in Values \union {Missing}
      BY <3>1 DEF TypeOK
    <3> HIDE DEF w
    <3>3. UNCHANGED value \/ value' = [value EXCEPT ![w] = setting[p][w]]
      BY <1>7 DEF WriteDWord, w
    <3> QED BY <3>2, <3>3 DEF TypeOK
  <2>4. TypeOK'
    BY <1>0, <1>7, <2>1, <2>3 DEF WriteDWord, TypeOK, memory, history
  <2>2. Position'
    BY <1>0, <1>7 DEF WriteDWord, Goto, TypeOK, Position, Slots, memory, history
  <2> QED BY <2>2, <2>4
<1>8. ASSUME NEW p \in Processes, DeleteEntry(p) PROVE TypeInv'
  <2>g. Goes(p)
    BY <1>0, <1>8 DEF DeleteEntry, Labels, Position, Slots, Goes
  <2>1. pc' \in [Processes -> Labels] /\ idx' \in [Processes -> 0..MaxEntries + Len(Settings)]
    BY <2>g, GotoType
  <2>3. TypeOK'
    BY <1>0, <1>8, <2>1 DEF DeleteEntry, TypeOK, memory
  <2>2. Position'
    BY <1>0, <1>8 DEF DeleteEntry, Goto, TypeOK, Position, Slots, memory
  <2> QED BY <2>2, <2>3
<1>9. ASSUME NEW p \in Processes, WriteEntry(p) PROVE TypeInv'
  <2>1. idx[p] \in Slots /\ allowlist[p][idx[p]+1] \in Names
    BY <1>0, <1>9 DEF WriteEntry, TypeOK, Position, Slots
  <2>g. Goes(p)
    BY <1>0, <1>9, <2>1 DEF WriteEntry, Labels, Slots, Goes
  <2>2. pc' \in [Processes -> Labels] /\ idx' \in [Processes -> 0..MaxEntries + Len(Settings)]
    BY <2>g, GotoType
  <2>4. entry' \in [Slots -> Names \union {Missing}]
    BY <1>9, <2>1 DEF WriteEntry, TypeOK
  <2>5. TypeOK'
    BY <1>0, <1>9, <2>2, <2>4 DEF WriteEntry, TypeOK, memory, history
  <2>3. Position'
    BY <1>0, <1>9, <2>1 DEF WriteEntry, Goto, TypeOK, Position, Slots, memory, history
  <2> QED BY <2>3, <2>5
<1>10. ASSUME NEW p \in Processes, SaveReturns(p) \/ Resume(p) PROVE TypeInv'
  <2>g. Goes(p)
    BY <1>0, <1>10 DEF SaveReturns, Resume, Labels, Goes
  <2>1. pc' \in [Processes -> Labels] /\ idx' \in [Processes -> 0..MaxEntries + Len(Settings)]
    BY <2>g, GotoType
  <2>2. TypeOK'
    BY <1>0, <1>10, <2>1 DEF SaveReturns, Resume, TypeOK, registry, memory, history
  <2>3. Position'
    BY <1>0, <1>10
    DEF SaveReturns, Resume, Goto, TypeOK, Position, registry, memory, history
  <2> QED BY <2>2, <2>3
<1>11. ASSUME NEW p \in Processes, Stop(p) PROVE TypeInv'
  <2>1. <<>> \in Seq(Names) /\ Len(<<>>) = 0
    OBVIOUS
  <2>2. TypeOK'
    BY <1>0, <1>11, <2>1 DEF Stop, Goto, TypeOK, Labels, registry, history
  <2>3. Position'
    BY <1>0, <1>11, <2>1 DEF Stop, Goto, TypeOK, Position, registry, history
  <2> QED BY <2>2, <2>3
<1> QED
  BY <1>1, <1>2, <1>3, <1>4, <1>5, <1>6, <1>7, <1>8, <1>9, <1>10, <1>11 DEF Next
-----------------------------------------------------------------------------
(* A step outside of a save touches neither the registry nor the other     *)
(* programs.                                                               *)
Aside(p) ==
  \/ Initialize(p) \/ LoadSetting(p) \/ LoadEntry(p) \/ Loaded(p)
  \/ SaveReturns(p) \/ Resume(p) \/ Stop(p)

LEMMA AsideStep ==
  ASSUME TypeOK, NEW p \in Processes, Aside(p)
  PROVE  /\ UNCHANGED <<value, entry, saver, before, saved, clean>>
         /\ ~Saving(p)' /\ (pc'[p] = "saved" => SaveReturns(p))
         /\ \A q \in Processes \ {p} :
              /\ pc'[q] = pc[q] /\ idx'[q] = idx[q] /\ success'[q] = success[q]
              /\ setting'[q] = setting[q] /\ allowlist'[q] = allowlist[q]
<1>1. CASE Initialize(p)
  BY <1>1 DEF Initialize, Goto, Saving, TypeOK, registry, memory, history
<1>2. CASE LoadSetting(p)
  BY <1>2 DEF LoadSetting, Goto, Saving, TypeOK, registry, memory, history
<1>3. CASE LoadEntry(p)
  BY <1>3 DEF LoadEntry, Goto, Saving, TypeOK, registry, memory, history
<1>4. CASE Loaded(p) \/ SaveReturns(p) \/ Resume(p)
  BY <1>4
  DEF Loaded, SaveReturns, Resume, Goto, Saving, TypeOK, registry, memory, history
<1>5. CASE Stop(p)
  BY <1>5 DEF Stop, Goto, Saving, TypeOK, registry, memory, history
<1> QED BY <1>1, <1>2, <1>3, <1>4, <1>5 DEF Aside

LEMMA ChangeStep ==
  ASSUME TypeOK, NEW p \in Processes, Change(p)
  PROVE  /\ UNCHANGED <<value, entry>> /\ Stored' = Stored
         /\ saver' = p /\ before' = Stored /\ saved' = allowlist'[p]
         /\ clean' = \A q \in Processes \ {p} : ~Saving(q)
         /\ pc'[p] = "settings" /\ idx'[p] = 1
         /\ \A q \in Processes \ {p} : pc'[q] = pc[q]
<1>1. BeginSave(p)
  BY DEF Change, Set, AddException, RemoveException
<1> QED BY <1>1 DEF BeginSave, Goto, TypeOK, registry, Stored

(* A step of a save.  Undisturbed, it is the last save's program's.        *)
Writes(p) == WriteDWord(p) \/ DeleteEntry(p) \/ WriteEntry(p)

LEMMA WritesStep ==
  ASSUME TypeOK, Quiet, NEW p \in Processes, Writes(p)
  PROVE  /\ UNCHANGED <<setting, allowlist, saver, before, saved>>
         /\ \A q \in Processes \ {p} : pc'[q] = pc[q]
         /\ clean' => clean /\ p = saver /\ saved = allowlist[p]
<1>1. Saving(p)
  BY DEF Writes, WriteDWord, DeleteEntry, WriteEntry, Saving
<1>2. CASE WriteDWord(p)
  BY <1>1, <1>2 DEF WriteDWord, Goto, Quiet, TypeOK, memory, history
<1>3. CASE DeleteEntry(p)
  BY <1>1, <1>3 DEF DeleteEntry, Goto, Quiet, TypeOK, memory
<1>4. CASE WriteEntry(p)
  BY <1>1, <1>4 DEF WriteEntry, Goto, Quiet, TypeOK, memory, history
<1> QED BY <1>2, <1>3, <1>4 DEF Writes

LEMMA NextCases ==
  ASSUME [Next]_vars
  PROVE  UNCHANGED vars \/ \E p \in Processes : Aside(p) \/ Change(p) \/ Writes(p)
BY DEF Next, Aside, Writes

LEMMA QuietStep ==
  ASSUME IInv, [Next]_vars
  PROVE  Quiet'
<1>0. TypeOK /\ Quiet
  BY DEF IInv, TypeInv
<1>1. CASE UNCHANGED vars
  BY <1>0, <1>1 DEF vars, history, memory, Quiet, Saving
<1>2. ASSUME NEW p \in Processes, Aside(p) PROVE Quiet'
  BY <1>0, <1>2, AsideStep DEF Quiet, Saving, TypeOK
<1>3. ASSUME NEW p \in Processes, Change(p) PROVE Quiet'
  BY <1>0, <1>3, ChangeStep DEF Quiet, Saving
<1>4. ASSUME NEW p \in Processes, Writes(p) PROVE Quiet'
  BY <1>0, <1>4, WritesStep DEF Quiet, Saving, TypeOK
<1> QED BY <1>1, <1>2, <1>3, <1>4, NextCases

LEMMA TornStep ==
  ASSUME IInv, [Next]_vars
  PROVE  Torn'
<1>0. TypeOK /\ Position /\ Quiet /\ Torn /\ entry \in [Slots -> EntryValues]
  BY DEF IInv, TypeInv, TypeOK, EntryValues
<1>e. entry \in [Slots -> EntryValues]
  BY <1>0
<1>m. MaxEntries \in Nat /\ MaxEntries >= 1
  BY ConfigAssumption
<1>1. CASE UNCHANGED vars
  BY <1>0, <1>1 DEF vars, registry, history, Torn, Stored
<1>2. ASSUME NEW p \in Processes, Aside(p) PROVE Torn'
  <2>1. CASE p = saver
    BY <1>0, <1>2, <2>1, AsideStep DEF Torn, Saving
  <2>2. CASE p # saver
    BY <1>0, <1>2, <2>2, AsideStep DEF Torn, Stored, TypeOK
  <2> QED BY <2>1, <2>2
<1>3. ASSUME NEW p \in Processes, Change(p) PROVE Torn'
  BY <1>0, <1>3, ChangeStep DEF Torn
<1>4. ASSUME NEW p \in Processes, Writes(p), clean' PROVE Torn'
  <2>0. /\ clean /\ p = saver /\ saved = allowlist[p] /\ idx[p] \in Nat
        /\ UNCHANGED <<before, saved, saver, allowlist>>
    BY <1>0, <1>4, WritesStep, ConfigAssumption DEF TypeOK
  <2>1. CASE WriteDWord(p)
    <3>1. Stored = before /\ Stored' = Stored
      BY <1>0, <2>0, <2>1 DEF WriteDWord, Torn, Stored
    <3>2. \/ pc'[p] = "settings"
          \/ pc'[p] = "delete" /\ idx'[p] = 0
      BY <1>0, <2>1 DEF WriteDWord, Goto, TypeOK
    <3> QED BY <2>0, <3>1, <3>2 DEF Torn
  <2>2. CASE DeleteEntry(p)
    <3>1. idx[p] \in Slots /\ \A k \in 0..idx[p]-1 : entry[k] = Missing
      BY <1>0, <2>0, <2>2 DEF DeleteEntry, Position, Torn
    <3>2. entry'[idx[p]] = Missing /\ \A k \in Slots : entry[k] = Missing => entry'[k] = Missing
      BY <1>0, <1>4, <2>2, <3>1 DEF DeleteEntry
    <3>3. \A k \in 0..idx[p] : entry'[k] = Missing
      BY <1>m, <3>1, <3>2 DEF Slots
    <3>4. CASE pc'[p] = "delete" /\ idx'[p] = idx[p] + 1
      BY <2>0, <3>3, <3>4 DEF Torn
    <3>5. CASE pc'[p] = "write" /\ idx[p] + 1 = MaxEntries
      BY <1>m, <2>0, <3>3, <3>5 DEF Torn, Written, Slots
    <3> QED BY <1>0, <1>m, <2>2, <3>1, <3>4, <3>5 DEF DeleteEntry, Goto, TypeOK, Slots
  <2>3. CASE WriteEntry(p)
    <3>0. saved \in Seq(Names) /\ Len(saved) <= MaxEntries
      BY <1>0, <2>0 DEF TypeOK
    <3>5. pc[p] = "write" /\ idx[p] \in 0..Len(saved) /\ idx[p] < Len(saved)
      BY <1>0, <2>0, <2>3 DEF WriteEntry, Position
    <3>1. idx[p] \in Slots /\ idx[p] < Len(saved) /\ Written(entry, saved, idx[p])
      BY <1>0, <1>m, <2>0, <3>0, <3>5 DEF Torn, Slots
    <3>2. pc'[p] = "write" /\ idx'[p] = idx[p] + 1
      BY <1>0, <2>3 DEF WriteEntry, Goto, TypeOK
    <3>6. \/ entry' = [entry EXCEPT ![idx[p]] = saved[idx[p]+1]]
          \/ entry' = entry
      BY <2>0, <2>3 DEF WriteEntry
    <3>3. \A k \in Slots :
            entry'[k] = entry[k] \/ (k = idx[p] /\ entry'[k] = saved[idx[p]+1])
      BY <1>e, <3>6
    <3>4. Written(entry', saved, idx[p] + 1)
      BY <1>m, <3>1, <3>3 DEF Written, Slots
    <3> QED BY <2>0, <3>2, <3>4 DEF Torn
  <2> QED BY <1>4, <2>1, <2>2, <2>3 DEF Writes
<1>5. ~clean' => Torn'
  BY DEF Torn
<1> QED BY <1>1, <1>2, <1>3, <1>4, <1>5, NextCases

LEMMA TornSaveStep ==
  ASSUME IInv, [Next]_vars, TypeOK', Torn'
  PROVE  TornSave'
<1>0. TypeOK /\ Position /\ Quiet /\ Torn /\ TornSave
  BY DEF IInv, TypeInv
<1>e. entry \in [Slots -> EntryValues] /\ entry' \in [Slots -> EntryValues] /\ saved' \in Seq(Names)
  BY <1>0 DEF TypeOK, EntryValues
<1>m. MaxEntries \in Nat /\ MaxEntries >= 1
  BY ConfigAssumption
<1>1. CASE UNCHANGED <<entry, before, saved, clean>>
  BY <1>0, <1>1 DEF TornSave, Stored
<1>2. ASSUME NEW p \in Processes, Aside(p) PROVE TornSave'
  BY <1>0, <1>1, <1>2, AsideStep
<1>3. ASSUME NEW p \in Processes, Change(p) PROVE TornSave'
  BY <1>0, <1>3, ChangeStep DEF TornSave
<1>4. ASSUME NEW p \in Processes, Writes(p), clean' PROVE TornSave'
  <2>0. clean /\ p = saver /\ UNCHANGED <<before, saved, saver>>
    BY <1>0, <1>4, WritesStep
  <2>1. CASE WriteDWord(p)
    BY <1>1, <2>0, <2>1, <1>4 DEF WriteDWord, history
  <2>2. CASE DeleteEntry(p)
    <3>1. idx[p] \in Slots /\ \A k \in 0..idx[p]-1 : entry[k] = Missing
      BY <1>0, <2>0, <2>2 DEF DeleteEntry, Position, Torn
    <3>2. 0 \in Slots /\ (idx[p] # 0 => 0 \in 0..idx[p]-1)
      BY <1>m, <3>1 DEF Slots
    <3>3. entry'[0] = Missing
      BY <1>e, <1>4, <2>2, <3>1, <3>2 DEF DeleteEntry
    <3>4. Stored' = <<>>
      BY <1>e, <3>3, LoadEmpty DEF Stored
    <3>5. IsPrefix(<<>>, saved')
      BY <1>e DEF IsPrefix
    <3> QED BY <3>4, <3>5 DEF TornSave
  <2>3. CASE WriteEntry(p)
    <3>1. pc'[saver'] = "write" /\ idx'[saver'] \in Nat
      BY <1>0, <1>m, <2>0, <2>3, ConfigAssumption DEF WriteEntry, Goto, TypeOK
    <3>2. Written(entry', saved', idx'[saver'])
      BY <1>4, <3>1 DEF Torn
    <3>3. IsPrefix(Stored', saved')
      BY <1>e, <3>1, <3>2, LoadWritten DEF Stored
    <3> QED BY <3>3 DEF TornSave
  <2> QED BY <1>4, <2>1, <2>2, <2>3 DEF Writes
<1>5. ~clean' => TornSave'
  BY DEF TornSave
<1>6. CASE UNCHANGED vars
  BY <1>1, <1>6 DEF vars, registry, history
<1> QED BY <1>2, <1>3, <1>4, <1>5, <1>6, NextCases

LEMMA KeptStep ==
  ASSUME IInv, [Next]_vars, TypeOK'
  PROVE  Kept'
<1>0. TypeOK /\ Position /\ Quiet /\ Torn /\ Kept
  BY DEF IInv, TypeInv
<1>e. entry \in [Slots -> EntryValues]
  BY <1>0 DEF TypeOK, EntryValues
<1>m. MaxEntries \in Nat /\ MaxEntries >= 1
  BY ConfigAssumption
<1>1. CASE UNCHANGED vars
  BY <1>0, <1>1 DEF vars, registry, memory, history, Kept, Holds
<1>2. ASSUME NEW p \in Processes, Aside(p) PROVE Kept'
  <2>1. CASE p # saver
    <3>1. /\ UNCHANGED <<value, entry, saver, saved, clean>>
          /\ pc'[saver] = pc[saver] /\ idx'[saver] = idx[saver]
          /\ success'[saver] = success[saver] /\ setting'[saver] = setting[saver]
      BY <1>0, <1>2, <2>1, AsideStep DEF TypeOK
    <3> QED BY <1>0, <3>1 DEF Kept, Holds
  <2>2. CASE p = saver /\ ~SaveReturns(p)
    BY <1>0, <1>2, <2>2, AsideStep DEF Kept, Saving
  <2>3. ASSUME p = saver, SaveReturns(p), clean', success'[p] PROVE Kept'
    <3>1. /\ UNCHANGED <<value, entry, setting, allowlist, saver, saved, clean, success>>
          /\ pc[p] = "write" /\ idx[p] = Len(allowlist[p]) /\ pc'[p] = "saved"
      BY <1>0, <2>3
      DEF SaveReturns, Goto, TypeOK, registry, memory, history
    <3>2. saved = allowlist[p] /\ saved \in Seq(Names) /\ Len(saved) <= MaxEntries
      BY <1>0, <2>3, <3>1 DEF Quiet, Saving, TypeOK
    <3>3. /\ Written(entry, saved, Len(saved))
          /\ \A k \in 0..Len(saved)-1 : entry[k] = saved[k+1]
          /\ value = setting[p]
      BY <1>0, <2>3, <3>1, <3>2 DEF Torn, Kept
    <3>4. Holds(entry, saved)
      BY <1>m, <3>2, <3>3 DEF Written, Holds, Slots
    <3> QED BY <2>3, <3>1, <3>2, <3>3, <3>4 DEF Kept, Holds
  <2>4. CASE p = saver /\ ~(clean' /\ success'[p])
    BY <1>0, <1>2, <2>4, AsideStep DEF Kept
  <2> QED BY <2>1, <2>2, <2>3, <2>4
<1>3. ASSUME NEW p \in Processes, Change(p) PROVE Kept'
  BY <1>0, <1>3, ChangeStep DEF Kept
<1>4. ASSUME NEW p \in Processes, Writes(p), clean', success'[saver'] PROVE Kept'
  <2>0. /\ clean /\ p = saver /\ saved = allowlist[p]
        /\ UNCHANGED <<setting, allowlist, saved, saver>>
    BY <1>0, <1>4, WritesStep
  <2>1. CASE WriteDWord(p)
    <3> DEFINE i == idx[p]
               w == Settings[i]
    <3>1. /\ i \in 1..Len(Settings) /\ w \in SettingNames
          /\ Len(Settings) \in Nat /\ \A j \in 1..Len(Settings) : Settings[j] \in SettingNames
          /\ SettingNames = {Settings[j] : j \in 1..Len(Settings)}
      BY <1>0, <2>1, ConfigAssumption DEF WriteDWord, Position, SettingNames, ToSet
    <3>2. success' = success /\ value' = [value EXCEPT ![w] = setting[p][w]]
      BY <1>0, <1>4, <2>0, <2>1 DEF WriteDWord, TypeOK
    <3>3. \A j \in 1..i-1 : value[Settings[j]] = setting[p][Settings[j]]
      BY <1>0, <1>4, <2>0, <2>1, <3>2 DEF Kept, WriteDWord
    <3>4. \A j \in 1..i : value'[Settings[j]] = setting[p][Settings[j]]
      <4> TAKE j \in 1..i
      <4>1. j \in 1..i-1 \/ j = i
        BY <3>1
      <4>2. Settings[j] \in SettingNames
        BY <3>1
      <4>3. value'[Settings[j]] = IF Settings[j] = w THEN setting[p][w]
                                                    ELSE value[Settings[j]]
        BY <1>0, <3>2, <4>2 DEF TypeOK
      <4> QED BY <3>3, <4>1, <4>3
    <3>5. CASE pc'[p] = "settings" /\ idx'[p] = i + 1
      BY <2>0, <3>1, <3>4, <3>5 DEF Kept
    <3>6. CASE pc'[p] = "delete" /\ i = Len(Settings)
      <4>1. \A s \in SettingNames : value'[s] = setting[p][s]
        BY <3>1, <3>4, <3>6
      <4>2. value' \in [SettingNames -> Values \union {Missing}]
            /\ setting[p] \in [SettingNames -> Values]
        BY <1>0 DEF TypeOK
      <4> DEFINE f == setting[p]
                 g == value'
      <4>4. g \in [SettingNames -> Values \union {Missing}]
            /\ f \in [SettingNames -> Values] /\ \A s \in SettingNames : g[s] = f[s]
        BY <4>1, <4>2
      <4> HIDE DEF f, g
      <4>5. g = f
        BY <4>4
      <4>3. value' = setting[p]
        BY <4>5 DEF f, g
      <4> QED BY <2>0, <3>6, <4>3 DEF Kept
    <3>7. \/ i < Len(Settings) /\ Goto(p, "settings", i + 1)
          \/ ~(i < Len(Settings)) /\ Goto(p, "delete", 0)
      BY <2>1 DEF WriteDWord
    <3> HIDE DEF i, w
    <3>8. \/ i < Len(Settings) /\ pc'[p] = "settings" /\ idx'[p] = i + 1
          \/ ~(i < Len(Settings)) /\ pc'[p] = "delete"
      BY <1>0, <3>7 DEF Goto, TypeOK
    <3> QED BY <3>1, <3>5, <3>6, <3>8
  <2>2. CASE DeleteEntry(p)
    <3>1. value = setting[p] /\ UNCHANGED <<value, success>>
      BY <1>0, <1>4, <2>0, <2>2 DEF DeleteEntry, Kept
    <3>2. pc'[p] = "delete" \/ (pc'[p] = "write" /\ idx'[p] = 0)
      BY <1>0, <2>2 DEF DeleteEntry, Goto, TypeOK
    <3> QED BY <2>0, <3>1, <3>2 DEF Kept
  <2>3. CASE WriteEntry(p)
    <3>0. saved \in Seq(Names) /\ Len(saved) <= MaxEntries
      BY <1>0, <2>0 DEF TypeOK
    <3>6. idx[p] \in 0..Len(saved) /\ idx[p] < Len(saved)
      BY <1>0, <2>0, <2>3 DEF WriteEntry, Position
    <3>1. idx[p] \in Slots
      BY <1>m, <3>0, <3>6 DEF Slots
    <3>2. success' = success /\ entry' = [entry EXCEPT ![idx[p]] = saved[idx[p]+1]]
      BY <1>0, <1>4, <2>0, <2>3 DEF WriteEntry, TypeOK
    <3>3. pc'[p] = "write" /\ idx'[p] = idx[p] + 1 /\ value' = value
      BY <1>0, <2>3 DEF WriteEntry, Goto, TypeOK
    <3>4. value = setting[p] /\ \A k \in 0..idx[p]-1 : entry[k] = saved[k+1]
      BY <1>0, <1>4, <2>0, <2>3, <3>2 DEF WriteEntry, Kept
    <3>5. \A k \in 0..idx[p] : entry'[k] = saved[k+1]
      <4> TAKE k \in 0..idx[p]
      <4>1. k \in Slots /\ (k \in 0..idx[p]-1 \/ k = idx[p])
        BY <1>m, <3>1 DEF Slots
      <4>2. entry'[k] = IF k = idx[p] THEN saved[idx[p]+1] ELSE entry[k]
        BY <1>e, <3>2, <4>1
      <4> QED BY <3>4, <4>1, <4>2
    <3> QED BY <1>m, <2>0, <3>1, <3>3, <3>4, <3>5 DEF Kept, Slots
  <2> QED BY <1>4, <2>1, <2>2, <2>3 DEF Writes
<1>5. ~(clean' /\ success'[saver']) => Kept'
  BY DEF Kept
<1> QED BY <1>1, <1>2, <1>3, <1>4, <1>5, NextCases
-----------------------------------------------------------------------------
LEMMA IInvHolds == Spec => []IInv
<1>1. Init => IInv
  <2> SUFFICES ASSUME Init PROVE IInv
    OBVIOUS
  <2>1. TypeInv
    BY TypeInit
  <2>2. Quiet /\ Torn /\ Kept /\ TornSave
    BY DEF Init, Quiet, Saving, Torn, Kept, TornSave
  <2> QED BY <2>1, <2>2 DEF IInv
<1>2. IInv /\ [Next]_vars => IInv'
  <2> SUFFICES ASSUME IInv, [Next]_vars PROVE IInv'
    OBVIOUS
  <2>1. TypeInv'
    BY TypeStep DEF IInv
  <2>2. Quiet' /\ Torn' /\ Kept'
    BY <2>1, QuietStep, TornStep, KeptStep DEF TypeInv
  <2>3. TornSave'
    BY <2>1, <2>2, TornSaveStep DEF TypeInv
  <2> QED BY <2>1, <2>2, <2>3 DEF IInv
<1> QED BY <1>1, <1>2, PTL DEF Spec

(* Every variable keeps its type; no list in memory outgrows the limit.    *)
THEOREM TypeCorrect == Spec => []TypeOK
<1>1. IInv => TypeOK
  BY DEF IInv, TypeInv
<1> QED BY <1>1, IInvHolds, PTL

(* As long as every deletion of an entry that was there succeeded, and no  *)
(* other program saved during the save (clean), then wherever the save is, *)
(* was killed, or failed to open a key or set a value, what can be loaded  *)
(* is the old list or a beginning of the new one.  A failed deletion is    *)
(* only warned of (ConfigManager.cpp:332-338) and may bring back entries   *)
(* the user removed; of that the theorem says nothing.                     *)
THEOREM TornSaveHolds == Spec => []TornSave
<1>1. IInv => TornSave
  BY DEF IInv
<1> QED BY <1>1, IInvHolds, PTL

(* A save that reports success has stored the settings and the list, if no *)
(* deletion failed in it and no other program saved meanwhile.             *)
THEOREM SuccessMeansSavedHolds == Spec => []SuccessMeansSaved
<1>1. IInv => SuccessMeansSaved
  <2> SUFFICES ASSUME IInv, clean, pc[saver] = "saved", success[saver]
               PROVE  value = setting[saver] /\ Stored = Leading(saved)
    BY DEF SuccessMeansSaved
  <2>1. value = setting[saver] /\ Len(saved) <= MaxEntries /\ Holds(entry, saved)
    BY DEF IInv, Kept
  <2>2. entry \in [Slots -> EntryValues] /\ saved \in Seq(Names)
    BY DEF IInv, TypeInv, TypeOK, EntryValues
  <2>3. Stored = Leading(saved)
    BY <2>1, <2>2, LoadSaved DEF Stored
  <2> QED BY <2>1, <2>3
<1> QED BY <1>1, IInvHolds, PTL
=============================================================================
