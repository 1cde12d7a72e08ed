------------------------ MODULE RadioMemory_proofs --------------------------
(***************************************************************************)
(* What is proved of the record of the persistence thread and of the file:  *)
(* for every configuration file, menu and budget of keys and power cuts,    *)
(* and every number of descriptors.                                         *)
(***************************************************************************)
EXTENDS RadioMemory, SequenceTheorems, Induction_proofs

(* What the copy holds after n comparisons or stores in the given order was  *)
(* so during the pass.                                                      *)
InPass(order, n) ==
  \A k \in 1 .. n : order[k] \in Restored => persistence_data[order[k]] \in sincePass[order[k]]

(* Why the record is recent: the copy only moves to values of this pass, and *)
(* a pass that is not written, or not whole, does not count as one.          *)
RecordInv ==
  /\ IsRecord(NVRAM) /\ IsRecord(persistence_data)
  /\ field \in Nat
  /\ \A f \in Restored : NVRAM[f] \in sinceLast[f]
  /\ persistencePc \in {"compare", "sync"} => \A f \in Restored : Globals[f] \in sincePass[f]
  /\ persistencePc = "compare" => InPass(Compared, field)
  /\ persistencePc = "sync" => InPass(Synced, field)

-----------------------------------------------------------------------------
(* Lemmas on the two orders.                                                *)

LEMMA Orders ==
  /\ \A f \in Restored : \E k \in 1 .. 6 : Compared[k] = f
  /\ \A f \in Restored : \E k \in 1 .. 6 : Synced[k] = f
  /\ Len(Compared) = 6 /\ Len(Synced) = 6
  /\ \A k, l \in 1 .. 6 : k # l => Synced[k] # Synced[l]
  /\ \A k \in 1 .. 6 : Synced[k] \in DOMAIN Blank /\ Synced[k] # "signature"
  /\ Restored \subseteq DOMAIN Blank
<1>1. \A f \in Restored : \E k \in 1 .. 6 : Compared[k] = f
  <2>1. /\ Compared[1] = "stream_index" /\ Compared[2] = "rss_index"
        /\ Compared[3] = "volume_level" /\ Compared[5] = "display_mode_1"
        /\ Compared[6] = "last_audio_output"
    BY DEF Compared
  <2>2. 1 \in 1 .. 6 /\ 2 \in 1 .. 6 /\ 3 \in 1 .. 6 /\ 5 \in 1 .. 6 /\ 6 \in 1 .. 6
    OBVIOUS
  <2> QED
    BY <2>1, <2>2 DEF Restored
<1>2. \A f \in Restored : \E k \in 1 .. 6 : Synced[k] = f
  <2>1. /\ Synced[1] = "stream_index" /\ Synced[2] = "rss_index"
        /\ Synced[3] = "volume_level" /\ Synced[4] = "display_mode_1"
        /\ Synced[5] = "last_audio_output"
    BY DEF Synced
  <2>2. 1 \in 1 .. 6 /\ 2 \in 1 .. 6 /\ 3 \in 1 .. 6 /\ 4 \in 1 .. 6 /\ 5 \in 1 .. 6
    OBVIOUS
  <2> QED
    BY <2>1, <2>2 DEF Restored
<1>3. Len(Compared) = 6 /\ Len(Synced) = 6
  BY DEF Compared, Synced
<1>4. \A k, l \in 1 .. 6 : k # l => Synced[k] # Synced[l]
  BY DEF Synced
<1>5. \A k \in 1 .. 6 : Synced[k] \in DOMAIN Blank /\ Synced[k] # "signature"
  BY DEF Synced, Blank
<1>6. Restored \subseteq DOMAIN Blank
  BY DEF Restored, Blank
<1> QED
  BY <1>1, <1>2, <1>3, <1>4, <1>5, <1>6

-----------------------------------------------------------------------------
(* Whatever changes a global while the thread is where it was is noted.      *)
LEMMA NotedKeeps ==
  ASSUME RecordInv, UNCHANGED persistenceVars, Noted
  PROVE  RecordInv'
<1> USE DEF persistenceVars
<1>1. \A f \in Restored : sinceLast[f] \subseteq sinceLast'[f] /\ Globals'[f] \in sinceLast'[f]
  BY DEF Noted, Is
<1>2. ASSUME persistencePc \in {"compare", "sync"}
      PROVE  \A f \in Restored : sincePass[f] \subseteq sincePass'[f] /\ Globals'[f] \in sincePass'[f]
  BY <1>2 DEF Noted, Is
<1> QED
  BY <1>1, <1>2 DEF RecordInv, InPass, IsRecord

(* And so is nothing when no global changes.                                *)
LEMMA NothingKeeps ==
  ASSUME RecordInv, UNCHANGED <<savedVars, historyVars, persistenceVars>>
  PROVE  RecordInv'
BY DEF RecordInv, InPass, IsRecord, Globals, savedVars, historyVars, persistenceVars

(* A start of the program.                                                  *)
LEMMA RestartKeeps ==
  ASSUME RecordInv, Restart
  PROVE  RecordInv'
<1>1. \A f \in Restored : NVRAM'[f] \in sinceLast'[f]
  BY DEF Restart, Noted, RecordInv
<1>2. IsRecord(persistence_data)' /\ IsRecord(NVRAM)'
  BY DEF Restart, RecordInv, IsRecord, Blank
<1> QED
  BY <1>1, <1>2 DEF Restart, RecordInv

LEMMA RestoringKeeps ==
  ASSUME RecordInv, RestorePersistence
  PROVE  RecordInv'
<1>1. \A f \in Restored : NVRAM'[f] \in sinceLast'[f]
  BY DEF RestorePersistence, Noted, RecordInv
<1> QED
  BY <1>1 DEF RestorePersistence, RecordInv, IsRecord

(* The pass of the thread.                                                  *)
LEMMA PassKeeps ==
  ASSUME RecordInv, Persistence
  PROVE  RecordInv'
<1>1. Globals' = Globals
  BY DEF Persistence, PersistenceLoads, PersistenceLooks, PersistenceCompares,
         PersistenceComparesSignature, PersistenceSyncs, PersistenceWrites, savedVars, Globals
<1>2. CASE PersistenceLoads
  BY <1>1, <1>2 DEF PersistenceLoads, RecordInv, IsRecord, historyVars
<1>3. CASE PersistenceLooks
  BY <1>1, <1>3 DEF PersistenceLooks, RecordInv, IsRecord, Is, InPass
<1>4. CASE PersistenceCompares
  <2>1. CASE persistence_data[Compared[field + 1]] = Globals[Compared[field + 1]]
    <3>1. InPass(Compared, field)'
      BY <2>1, <1>4 DEF PersistenceCompares, RecordInv, InPass, historyVars
    <3> QED
      BY <1>1, <1>4, <2>1, <3>1 DEF PersistenceCompares, RecordInv, IsRecord, historyVars
  <2>2. CASE persistence_data[Compared[field + 1]] # Globals[Compared[field + 1]]
    <3>1. field' = 0 /\ persistencePc' = "sync"
      BY <1>4, <2>2 DEF PersistenceCompares
    <3>2. InPass(Synced, field)'
      BY <3>1 DEF InPass
    <3> QED
      BY <1>1, <1>4, <3>1, <3>2 DEF PersistenceCompares, RecordInv, IsRecord, historyVars
  <2> QED
    BY <2>1, <2>2
<1>5. CASE PersistenceComparesSignature
  <2>1. CASE persistence_data.signature
    <3>1. \A f \in Restored : persistence_data[f] \in sincePass[f]
      BY <1>5, Orders DEF PersistenceComparesSignature, RecordInv, InPass
    <3>2. \A f \in Restored : NVRAM'[f] \in sinceLast'[f]
      BY <1>5, <2>1, <3>1 DEF PersistenceComparesSignature, PassEnds, RecordInv
    <3> QED
      BY <1>5, <2>1, <3>2 DEF PersistenceComparesSignature, RecordInv, IsRecord
  <2>2. CASE ~persistence_data.signature
    BY <1>1, <1>5, <2>2 DEF PersistenceComparesSignature, RecordInv, IsRecord, InPass, historyVars
  <2> QED
    BY <2>1, <2>2
<1>6. CASE PersistenceSyncs
  <2> DEFINE f == Synced[field + 1]
  <2>1. field + 1 \in 1 .. 6 /\ f \in DOMAIN Blank /\ f # "signature"
    BY <1>6, Orders DEF PersistenceSyncs, RecordInv
  <2>2. /\ IsRecord(persistence_data)'
        /\ persistence_data'[f] = Stored(f)
        /\ \A g \in DOMAIN Blank \ {f, "signature"} : persistence_data'[g] = persistence_data[g]
    BY <1>6, <2>1 DEF PersistenceSyncs, RecordInv, IsRecord, Blank
  <2>3. f \in Restored => Stored(f) = Globals[f]
    BY DEF Stored, Restored
  <2>4. InPass(Synced, field)'
    <3> SUFFICES ASSUME NEW k \in 1 .. field + 1, Synced[k] \in Restored
                 PROVE  persistence_data'[Synced[k]] \in sincePass[Synced[k]]
      BY <1>6 DEF PersistenceSyncs, InPass, historyVars
    <3>1. CASE k = field + 1
      BY <1>6, <2>2, <2>3, <3>1 DEF PersistenceSyncs, RecordInv
    <3>2. CASE k # field + 1
      <4>1. k \in 1 .. field /\ k \in 1 .. 6
        BY <2>1, <3>2 DEF RecordInv
      <4>2. Synced[k] \in DOMAIN Blank \ {f, "signature"}
        BY <2>1, <3>2, <4>1, Orders
      <4> QED
        BY <1>6, <2>2, <4>1, <4>2 DEF PersistenceSyncs, RecordInv, InPass
    <3> QED
      BY <3>1, <3>2
  <2> HIDE DEF f
  <2> QED
    BY <1>1, <1>6, <2>2, <2>4 DEF PersistenceSyncs, RecordInv, IsRecord, historyVars
<1>7. CASE PersistenceWrites
  <2>1. \A f \in Restored : persistence_data[f] \in sincePass[f]
    BY <1>7, Orders DEF PersistenceWrites, RecordInv, InPass
  <2>2. \A f \in Restored : NVRAM'[f] \in sinceLast'[f]
    BY <1>7, <2>1 DEF PersistenceWrites, PassEnds, RecordInv
  <2> QED
    BY <1>7, <2>2 DEF PersistenceWrites, RecordInv, IsRecord
<1> QED
  BY <1>2, <1>3, <1>4, <1>5, <1>6, <1>7 DEF Persistence

-----------------------------------------------------------------------------
(* Every step of the radio.                                                 *)
LEMMA RecordStep ==
  ASSUME RecordInv, [Next]_vars
  PROVE  RecordInv'
<1>1. CASE PowerCut
  BY <1>1, RestartKeeps DEF PowerCut
<1>2. CASE FactoryInit
  BY <1>2, RestartKeeps DEF FactoryInit
<1>3. CASE RestorePersistence
  BY <1>3, RestoringKeeps
<1>4. CASE Autoplay
  BY <1>4, NotedKeeps DEF Autoplay
<1>5. CASE ChooseStation \/ ChooseFeed \/ ChangeVolume
  BY <1>5, NotedKeeps DEF ChooseStation, ChooseFeed, ChangeVolume, KeyPressed, Elsewhere
<1>6. CASE PlayerChanges \/ DisplayKey \/ EnterSetup
  BY <1>6, NotedKeeps DEF PlayerChanges, DisplayKey, EnterSetup, KeyPressed, Elsewhere
<1>7. CASE SetupLeft
  BY <1>7, NotedKeeps DEF SetupLeft, Elsewhere
<1>8. CASE SetupEntered \/ LeaveSetup
  BY <1>8, NothingKeeps DEF SetupEntered, LeaveSetup, Elsewhere
<1>9. CASE EditMenu \/ SaveFirstHalf \/ SaveSecondHalf
  BY <1>9, NothingKeeps DEF EditMenu, SaveFirstHalf, SaveSecondHalf
<1>10. CASE PersistenceStep
  BY <1>10, PassKeeps DEF PersistenceStep
<1>11. CASE UNCHANGED vars
  BY <1>11, NothingKeeps DEF vars
<1> QED
  BY <1>1, <1>2, <1>3, <1>4, <1>5, <1>6, <1>7, <1>8, <1>9, <1>10, <1>11 DEF Next

LEMMA RecordStarts == Init => RecordInv
<1> SUFFICES ASSUME Init PROVE RecordInv
  OBVIOUS
<1>1. IsRecord(NVRAM)
  BY MemoryAssumption DEF Init
<1>2. IsRecord(persistence_data)
  BY DEF Init, IsRecord, Blank
<1> QED
  BY <1>1, <1>2 DEF Init, RecordInv

(* The record that a restart would restore is never older than the last pass *)
(* of the persistence thread that was completed.                            *)
THEOREM RememberedIsRecent == Spec => []RecordIsRecent
<1>1. RecordInv => RecordIsRecent
  BY DEF RecordInv, RecordIsRecent
<1> QED
  BY RecordStarts, RecordStep, <1>1, PTL DEF Spec

-----------------------------------------------------------------------------
(* What is read from a file: sequences, of whatever.                        *)

(* A sequence.                                                              *)
IsSequence(s) == \E S : s \in Seq(S)

(* One more at the end.                                                     *)
LEMMA SequenceGrows ==
  ASSUME NEW s, IsSequence(s), NEW e
  PROVE  IsSequence(Append(s, e))
<1>1. PICK S : s \in Seq(S)
  BY DEF IsSequence
<1>2. s \in Seq(S \cup {e})
  <2>1. S \subseteq S \cup {e}
    OBVIOUS
  <2> QED
    BY <1>1, <2>1, SeqMonotonic
<1>3. Append(s, e) \in Seq(S \cup {e})
  BY <1>2, AppendProperties
<1> QED
  BY <1>3 DEF IsSequence

(* What is where, with one more at the end.                                 *)
LEMMA SequenceAppended ==
  ASSUME NEW s, IsSequence(s), NEW e
  PROVE  /\ Len(s) \in Nat /\ Len(Append(s, e)) = Len(s) + 1
         /\ \A k \in 1 .. Len(s) + 1 : Append(s, e)[k] = IF k <= Len(s) THEN s[k] ELSE e
<1>1. PICK S : s \in Seq(S)
  BY DEF IsSequence
<1>2. s \in Seq(S \cup {e})
  <2>1. S \subseteq S \cup {e}
    OBVIOUS
  <2> QED
    BY <1>1, <2>1, SeqMonotonic
<1> QED
  BY <1>2, AppendProperties, LenProperties

(* One in the place of another.                                             *)
LEMMA SequenceReplaced ==
  ASSUME NEW s, IsSequence(s), NEW i, NEW e
  PROVE  IsSequence([s EXCEPT ![i] = e])
<1>1. PICK S : s \in Seq(S)
  BY DEF IsSequence
<1>2. DOMAIN s = 1 .. Len(s) /\ Len(s) \in Nat /\ \A n \in 1 .. Len(s) : s[n] \in S
  BY <1>1, LenProperties, ElementOfSeq
<1>3. [s EXCEPT ![i] = e] \in [1 .. Len(s) -> S \cup {e}]
  BY <1>1, <1>2
<1>4. [s EXCEPT ![i] = e] \in Seq(S \cup {e})
  BY <1>2, <1>3
<1> QED
  BY <1>4 DEF IsSequence

(* One sequence behind another.                                             *)
LEMMA Joined ==
  ASSUME NEW s, NEW t, IsSequence(s), IsSequence(t)
  PROVE  /\ IsSequence(s \o t) /\ Len(s) \in Nat /\ Len(t) \in Nat /\ Len(s \o t) = Len(s) + Len(t)
         /\ \A i \in 1 .. Len(s) + Len(t) : (s \o t)[i] = IF i <= Len(s) THEN s[i] ELSE t[i - Len(s)]
<1>1. PICK S : s \in Seq(S)
  BY DEF IsSequence
<1>2. PICK T : t \in Seq(T)
  BY DEF IsSequence
<1> DEFINE U == S \cup T
<1>3. s \in Seq(U) /\ t \in Seq(U)
  <2>1. S \subseteq U /\ T \subseteq U
    OBVIOUS
  <2> HIDE DEF U
  <2> QED
    BY <1>1, <1>2, <2>1, SeqMonotonic
<1> HIDE DEF U
<1>4. /\ s \o t \in Seq(U)
      /\ Len(s \o t) = Len(s) + Len(t)
      /\ \A i \in 1 .. Len(s) + Len(t) : (s \o t)[i] = IF i <= Len(s) THEN s[i] ELSE t[i - Len(s)]
  BY <1>3, ConcatProperties
<1>5. Len(s) \in Nat /\ Len(t) \in Nat
  BY <1>3, LenProperties
<1>6. IsSequence(s \o t)
  BY <1>4 DEF IsSequence
<1> QED
  BY <1>4, <1>5, <1>6

(* Two sequences with the same elements in the same places are one.         *)
LEMMA SequencesEqual ==
  ASSUME NEW s, NEW t, IsSequence(s), IsSequence(t), Len(s) = Len(t),
         \A k \in 1 .. Len(s) : s[k] = t[k]
  PROVE  s = t
<1>1. PICK S : s \in Seq(S)
  BY DEF IsSequence
<1>2. PICK T : t \in Seq(T)
  BY DEF IsSequence
<1>3. Len(s) \in Nat /\ s = [k \in 1 .. Len(s) |-> s[k]] /\ t = [k \in 1 .. Len(t) |-> t[k]]
  BY <1>1, <1>2, LenProperties
<1> QED
  BY <1>3

-----------------------------------------------------------------------------
(* What is read from a file.                                                *)

(* Memory as ReadLine makes and keeps it.                                   *)
IsMemory(m) ==
  /\ m = [f \in DOMAIN InitialMemory |-> m[f]]
  /\ m.streams \in Nat /\ m.feeds \in Nat /\ m.sounds \in Nat /\ IsSequence(m.alarms)

(* What PL_init leaves.                                                     *)
LEMMA InitialMemoryIs == IsMemory(InitialMemory) /\ InitialMemory.streams = 0
                         /\ DOMAIN InitialMemory = {"config", "alarms", "streams", "feeds", "sounds"}
<1> HIDE DEF InitialConfig
<1>1. <<>> \in Seq({})
  OBVIOUS
<1> QED
  BY <1>1 DEF IsMemory, InitialMemory, IsSequence

(* The names of the lists stand for no setting.                             *)
LEMMA ListsAreNoSettings == \A n \in {652, 344, 1173, 525} : n \notin DOMAIN SettingOf
<1>1. ASSUME NEW i \in 1 .. 39 PROVE SumsRead[i] \notin {652, 344, 1173, 525}
  BY SMTT(60) DEF SumsRead
<1>2. Len(SumsRead) = 39
  BY DEF SumsRead
<1>3. DOMAIN SettingOf = {SumsRead[i] : i \in 1 .. 39}
  BY <1>2 DEF SettingOf
<1> QED
  BY <1>1, <1>3

(* What a line makes of memory.                                             *)
ReadsOn(m, line, n) ==
  /\ IsMemory(n)
  /\ n.streams = IF line.attrib = 652 THEN m.streams + 1 ELSE m.streams
  /\ n.feeds = IF line.attrib = 344 THEN m.feeds + 1 ELSE m.feeds
  /\ n.sounds = IF line.attrib = 1173 THEN m.sounds + 1 ELSE m.sounds
  /\ n.alarms = IF line.attrib = 525 THEN ReadAlarm(m.alarms, line.value) ELSE m.alarms
  /\ n.config = IF line.attrib \in DOMAIN SettingOf
                THEN ReadSetting(m.config, SettingOf[line.attrib], line.value) ELSE m.config

(* A line adds to one list or changes one setting, and nothing else.         *)
LEMMA LineRead ==
  ASSUME NEW m, IsMemory(m), NEW line
  PROVE  ReadsOn(m, line, ReadLine(m, line))
<1> USE DEF ReadsOn
<1>0. line.attrib \in {652, 344, 1173, 525} => line.attrib \notin DOMAIN SettingOf
  BY ListsAreNoSettings
<1>1. DOMAIN m = {"config", "alarms", "streams", "feeds", "sounds"} /\ m = [f \in DOMAIN m |-> m[f]]
  BY InitialMemoryIs DEF IsMemory
<1>2. CASE line.attrib = 652
  <2>1. ReadLine(m, line) = [m EXCEPT !.streams = @ + 1]
    BY <1>2, ListsAreNoSettings DEF ReadLine
  <2> QED
    BY <1>0, <1>1, <1>2, <2>1, InitialMemoryIs DEF IsMemory
<1>3. CASE line.attrib = 344
  <2>1. ReadLine(m, line) = [m EXCEPT !.feeds = @ + 1]
    BY <1>3, ListsAreNoSettings DEF ReadLine
  <2> QED
    BY <1>0, <1>1, <1>3, <2>1, InitialMemoryIs DEF IsMemory
<1>4. CASE line.attrib = 1173
  <2>1. ReadLine(m, line) = [m EXCEPT !.sounds = @ + 1]
    BY <1>4, ListsAreNoSettings DEF ReadLine
  <2> QED
    BY <1>0, <1>1, <1>4, <2>1, InitialMemoryIs DEF IsMemory
<1>5. CASE line.attrib = 525
  <2>1. ReadLine(m, line) = [m EXCEPT !.alarms = ReadAlarm(@, line.value)]
    BY <1>5, ListsAreNoSettings DEF ReadLine
  <2>2. IsSequence(ReadAlarm(m.alarms, line.value))
    BY SequenceGrows DEF ReadAlarm, IsMemory
  <2> QED
    BY <1>0, <1>1, <1>5, <2>1, <2>2, InitialMemoryIs DEF IsMemory
<1>6. CASE line.attrib \notin {652, 344, 1173, 525} /\ line.attrib \in DOMAIN SettingOf
  <2>1. ReadLine(m, line) = [m EXCEPT !.config = ReadSetting(@, SettingOf[line.attrib], line.value)]
    BY <1>6 DEF ReadLine
  <2> QED
    BY <1>1, <1>6, <2>1, InitialMemoryIs DEF IsMemory
<1>7. CASE line.attrib \notin {652, 344, 1173, 525} /\ line.attrib \notin DOMAIN SettingOf
  <2>1. ReadLine(m, line) = m
    BY <1>7 DEF ReadLine
  <2> QED
    BY <1>7, <2>1
<1> QED
  BY <1>2, <1>3, <1>4, <1>5, <1>6, <1>7

(* The equation of Reading.                                                 *)
ReadingFits(g, lines, k) ==
  /\ g = [i \in 0 .. k |-> g[i]]
  /\ g[0] = InitialMemory
  /\ \A i \in 1 .. k : g[i] = ReadLine(g[i - 1], lines[i])

(* PL_parse_config_buffer is the recursion that Reading describes.          *)
LEMMA ReadingIsDefined ==
  ASSUME NEW lines, Len(lines) \in Nat
  PROVE  ReadingFits(Reading(lines), lines, Len(lines))
<1> DEFINE m == Len(lines)
           T == {k \in 0 .. m : \E g : ReadingFits(g, lines, k)}
           Def(g) == [i \in 0 .. m |-> IF i = 0 THEN InitialMemory ELSE ReadLine(g[i - 1], lines[i])]
<1>1. 0 \in T
  <2> DEFINE g == [i \in 0 .. 0 |-> InitialMemory]
  <2>1. ReadingFits(g, lines, 0)
    BY DEF ReadingFits
  <2> HIDE DEF g
  <2> QED
    BY <2>1
<1>2. ASSUME NEW k \in 0 .. m - 1, k \in T PROVE k + 1 \in T
  <2>1. PICK g : ReadingFits(g, lines, k)
    BY <1>2
  <2> DEFINE h == [i \in 0 .. k + 1 |-> IF i = k + 1 THEN ReadLine(g[k], lines[k + 1]) ELSE g[i]]
  <2>2. h[0] = InitialMemory
    BY <2>1 DEF ReadingFits
  <2>3. \A i \in 1 .. k + 1 : h[i] = ReadLine(h[i - 1], lines[i])
    BY <2>1 DEF ReadingFits
  <2>4. h = [i \in 0 .. k + 1 |-> h[i]]
    OBVIOUS
  <2>5. ReadingFits(h, lines, k + 1)
    <3> HIDE DEF h
    <3> QED
      BY <2>2, <2>3, <2>4 DEF ReadingFits
  <2> HIDE DEF h
  <2> QED
    BY <2>5
<1>3. m \in T
  <2> HIDE DEF T
  <2>1. \A k \in 0 .. m : k \in T
    BY <1>1, <1>2, InductionUpTo
  <2> QED
    BY <2>1
<1>4. PICK g : ReadingFits(g, lines, m)
  BY <1>3
<1>5. g = Def(g)
  BY <1>4 DEF ReadingFits
<1>6. Reading(lines) = CHOOSE h : h = Def(h)
  BY DEF Reading
<1>7. Reading(lines) = Def(Reading(lines))
  <2> HIDE DEF Def
  <2> QED
    BY <1>5, <1>6
<1> QED
  BY <1>7 DEF ReadingFits

(* A file is a sequence of lines.                                           *)
LEMMA FileIsSequence ==
  ASSUME NEW f, IsFile(f)
  PROVE  /\ FileSize \in Nat /\ FileSize >= 2 /\ BlockLines \in Nat /\ BlockLines >= 1
         /\ f \in Seq({f[i] : i \in 1 .. FileSize}) /\ Len(f) = FileSize
<1>1. FileSize \in Nat /\ FileSize >= 2 /\ BlockLines \in Nat /\ BlockLines >= 1
  BY MemoryAssumption DEF FileSize
<1> DEFINE S == {f[i] : i \in 1 .. FileSize}
<1>2. f \in [1 .. FileSize -> S]
  BY DEF IsFile
<1> HIDE DEF FileSize, S
<1>3. f \in Seq(S)
  BY <1>1, <1>2
<1>4. Len(f) = FileSize
  <2>1. DOMAIN f = 1 .. FileSize /\ DOMAIN f = 1 .. Len(f) /\ Len(f) \in Nat
    BY <1>2, <1>3, LenProperties
  <2> QED
    BY <1>1, <2>1
<1> USE DEF S
<1> QED
  BY <1>1, <1>3, <1>4

(* What is read of a file is its beginning, up to the NUL or to its end.      *)
LinesEnd(f, n) ==
  /\ n \in 0 .. FileSize /\ Len(LinesBeforeNul(f)) = n
  /\ \A i \in 1 .. n : LinesBeforeNul(f)[i] = f[i] /\ f[i].attrib # 0
  /\ n < FileSize => f[n + 1].attrib = 0

(* PL_get_next_config_line gives the lines up to the NUL and no other.      *)
LEMMA LinesAre ==
  ASSUME NEW f, IsFile(f)
  PROVE  \E n : LinesEnd(f, n)
<1> DEFINE I == {i \in 1 .. Len(f) : f[i].attrib = 0}
           S == {f[i] : i \in 1 .. FileSize}
<1>1. FileSize \in Nat /\ f \in Seq(S) /\ Len(f) = FileSize
  BY FileIsSequence
<1>2. CASE I = {}
  <2>1. LinesBeforeNul(f) = f
    BY <1>2 DEF LinesBeforeNul, SelectInSeq, Nul
  <2>2. LinesEnd(f, FileSize)
    BY <2>1, <1>1, <1>2 DEF LinesEnd
  <2> QED
    BY <2>2
<1>3. CASE I # {}
  <2>1. PICK end \in I : end = Min(I) /\ \A i \in I : end <= i
    <3>1. I \subseteq Nat
      BY <1>1
    <3>2. \E x \in I : \A y \in I : x <= y
      BY <1>3, <3>1, LeastNumber
    <3> HIDE DEF I
    <3> QED
      BY <3>2 DEF Min
  <2>2. end \in 1 .. FileSize /\ end # 0 /\ f[end].attrib = 0
    BY <1>1
  <2>3. LinesBeforeNul(f) = SubSeq(f, 1, end - 1)
    <3>1. SelectInSeq(f, LAMBDA line : line.attrib = Nul.attrib) = end
      BY <1>3, <2>1 DEF SelectInSeq, Nul
    <3> QED
      BY <2>2, <3>1 DEF LinesBeforeNul
  <2>4. Len(SubSeq(f, 1, end - 1)) = end - 1 /\ \A i \in 1 .. end - 1 : SubSeq(f, 1, end - 1)[i] = f[i]
    <3> HIDE DEF S, I
    <3> QED
      BY <1>1, <2>2, SubSeqProperties
  <2>5. \A i \in 1 .. end - 1 : f[i].attrib # 0
    BY <1>1, <2>1, <2>2
  <2>6. LinesEnd(f, end - 1)
    <3> HIDE DEF S, I
    <3> QED
      BY <1>1, <2>2, <2>3, <2>4, <2>5 DEF LinesEnd
  <2> QED
    BY <2>6
<1> QED
  BY <1>2, <1>3

-----------------------------------------------------------------------------
(* What is written to it.                                                   *)

(* The lines of a list.                                                     *)
LEMMA RepeatedLines ==
  ASSUME NEW attrib, NEW n \in Nat
  PROVE  /\ IsSequence(Repeat(attrib, n)) /\ Len(Repeat(attrib, n)) = n
         /\ \A k \in 1 .. n : Repeat(attrib, n)[k].attrib = attrib
<1> DEFINE line(k) == [attrib |-> attrib, value |-> <<k>>]
           S == {line(k) : k \in 1 .. n}
<1>1. Repeat(attrib, n) = [k \in 1 .. n |-> line(k)]
  BY DEF Repeat
<1>2. [k \in 1 .. n |-> line(k)] \in [1 .. n -> S]
  OBVIOUS
<1>3. \A k : line(k).attrib = attrib
  OBVIOUS
<1> HIDE DEF line, S
<1>4. Repeat(attrib, n) \in Seq(S) /\ Len(Repeat(attrib, n)) = n
  BY <1>1, <1>2
<1>5. \A k \in 1 .. n : Repeat(attrib, n)[k] = line(k)
  BY <1>1
<1> QED
  BY <1>3, <1>4, <1>5 DEF IsSequence

(* The lines of the alarms.                                                 *)
LEMMA AlarmLines ==
  ASSUME NEW alarms, IsSequence(alarms)
  PROVE  LET lines == [k \in 1 .. Len(alarms) |-> [attrib |-> 525, value |-> alarms[k]]]
         IN IsSequence(lines) /\ Len(lines) = Len(alarms) /\ Len(alarms) \in Nat
<1> DEFINE line(k) == [attrib |-> 525, value |-> alarms[k]]
           S == {line(k) : k \in 1 .. Len(alarms)}
<1>1. Len(alarms) \in Nat
  BY LenProperties DEF IsSequence
<1>2. [k \in 1 .. Len(alarms) |-> line(k)] \in [1 .. Len(alarms) -> S]
  OBVIOUS
<1>3. IsSequence([k \in 1 .. Len(alarms) |-> line(k)]) /\ Len([k \in 1 .. Len(alarms) |-> line(k)]) = Len(alarms)
  <2> HIDE DEF line, S
  <2>1. [k \in 1 .. Len(alarms) |-> line(k)] \in Seq(S)
    BY <1>1, <1>2
  <2>2. Len([k \in 1 .. Len(alarms) |-> line(k)]) = Len(alarms)
    BY <1>1, <1>2, <2>1
  <2> QED
    BY <2>1, <2>2 DEF IsSequence
<1> QED
  BY <1>1, <1>3

(* The line of the n-th setting.                                            *)
SettingLine(config, n) == [attrib |-> SumsWritten[n], value |-> config[Order[n]]]

(* The lines of the first n settings: of those that are written.             *)
LinesOf(config, n, lines) ==
  /\ IsSequence(lines) /\ Len(lines) \in 0 .. n
  /\ \A j \in 1 .. Len(lines) :
       \E k \in 1 .. n : IsWritten(Order[k], config[Order[k]]) /\ lines[j] = SettingLine(config, k)
  /\ \A k \in 1 .. n : IsWritten(Order[k], config[Order[k]]) =>
       \E j \in 1 .. Len(lines) : lines[j] = SettingLine(config, k)

(* One setting more.                                                        *)
LEMMA OneMoreSetting ==
  ASSUME NEW config, NEW n \in Nat, NEW lines, LinesOf(config, n, lines)
  PROVE  LinesOf(config, n + 1, IF IsWritten(Order[n + 1], config[Order[n + 1]])
                                THEN Append(lines, SettingLine(config, n + 1)) ELSE lines)
<1>1. IsSequence(lines) /\ Len(lines) \in Nat /\ Len(lines) <= n
  BY DEF LinesOf
<1>2. CASE ~IsWritten(Order[n + 1], config[Order[n + 1]])
  <2>1. \A k \in 1 .. n + 1 : IsWritten(Order[k], config[Order[k]]) => k \in 1 .. n
    BY <1>2
  <2> QED
    BY <1>1, <1>2, <2>1 DEF LinesOf
<1>3. CASE IsWritten(Order[n + 1], config[Order[n + 1]])
  <2> DEFINE e == SettingLine(config, n + 1)
             more == Append(lines, e)
  <2>1. /\ IsSequence(more) /\ Len(more) = Len(lines) + 1
        /\ \A k \in 1 .. Len(lines) + 1 : more[k] = IF k <= Len(lines) THEN lines[k] ELSE e
    BY <1>1, SequenceGrows, SequenceAppended
  <2> HIDE DEF more
  <2>2. \A j \in 1 .. Len(lines) : more[j] = lines[j]
    BY <1>1, <2>1
  <2>3. more[Len(lines) + 1] = e
    BY <1>1, <2>1
  <2>4. ASSUME NEW j \in 1 .. Len(more)
        PROVE  \E k \in 1 .. n + 1 : IsWritten(Order[k], config[Order[k]]) /\ more[j] = SettingLine(config, k)
    <3>1. CASE j \in 1 .. Len(lines)
      <4>1. PICK k \in 1 .. n : IsWritten(Order[k], config[Order[k]]) /\ lines[j] = SettingLine(config, k)
        BY <3>1 DEF LinesOf
      <4> QED
        BY <2>2, <3>1, <4>1
    <3>2. CASE j = Len(lines) + 1
      BY <1>3, <2>3, <3>2
    <3> QED
      BY <1>1, <2>1, <3>1, <3>2
  <2>5. ASSUME NEW k \in 1 .. n + 1, IsWritten(Order[k], config[Order[k]])
        PROVE  \E j \in 1 .. Len(more) : more[j] = SettingLine(config, k)
    <3>1. CASE k \in 1 .. n
      <4>1. PICK j \in 1 .. Len(lines) : lines[j] = SettingLine(config, k)
        BY <2>5, <3>1 DEF LinesOf
      <4> QED
        BY <1>1, <2>1, <2>2, <4>1
    <3>2. CASE k = n + 1
      <4>1. Len(lines) + 1 \in 1 .. Len(more)
        BY <1>1, <2>1
      <4> QED
        BY <2>3, <3>2, <4>1
    <3> QED
      BY <3>1, <3>2
  <2>6. Len(more) \in 0 .. n + 1
    BY <1>1, <2>1
  <2>7. LinesOf(config, n + 1, more)
    BY <2>1, <2>4, <2>5, <2>6 DEF LinesOf
  <2> QED
    BY <1>3, <2>7 DEF more
<1> QED
  BY <1>2, <1>3

(* The lines of the settings.                                               *)
LEMMA SettingLinesAre ==
  ASSUME NEW config
  PROVE  LinesOf(config, Len(Order), SettingLines(config))
<1> DEFINE m == Len(Order)
           line(i) == SettingLine(config, i)
           W == {line(i) : i \in 1 .. m}
           V == Seq(W)
           Added(i, s) == IF IsWritten(Order[i], config[Order[i]]) THEN Append(s, line(i)) ELSE s
           step == [i \in 1 .. m |-> [s \in V |-> Added(i, s)]]
           Def(g) == [i \in 0 .. m |-> IF i = 0 THEN <<>> ELSE Added(i, g[i - 1])]
<1>1. m \in Nat
  BY DEF Order
<1>2. <<>> \in V
  OBVIOUS
<1>3. step \in [1 .. m -> [V -> V]]
  <2>1. ASSUME NEW i \in 1 .. m, NEW s \in V PROVE Added(i, s) \in V
    <3>1. line(i) \in W
      OBVIOUS
    <3> HIDE DEF line, W
    <3> QED
      BY <3>1, AppendProperties
  <2> HIDE DEF V, Added
  <2> QED
    BY <2>1
<1>4. PICK g \in [0 .. m -> V] : g[0] = <<>> /\ \A i \in 1 .. m : g[i] = step[i][g[i - 1]]
  <2>1. StepsDefine(m, V)
    BY <1>1, Recursion
  <2> HIDE DEF V, step, m
  <2> QED
    BY <1>2, <1>3, <2>1 DEF StepsDefine
<1>5. g = Def(g)
  <2>1. \A i \in 1 .. m : g[i] = Added(i, g[i - 1])
    <3> SUFFICES ASSUME NEW i \in 1 .. m PROVE g[i] = Added(i, g[i - 1])
      OBVIOUS
    <3>1. g[i - 1] \in V
      BY <1>1, <1>4
    <3> HIDE DEF V, Added, m
    <3> QED
      BY <1>4, <3>1
  <2> HIDE DEF Added, V, m
  <2> QED
    BY <1>1, <1>4, <2>1
<1> DEFINE lines == CHOOSE h : h = Def(h)
<1>6. SettingLines(config) = lines[m]
  BY DEF SettingLines, SettingLine
<1>7. lines = Def(lines)
  <2> HIDE DEF Def
  <2> QED
    BY <1>5
<1>8. lines[0] = <<>> /\ \A i \in 1 .. m : lines[i] = Added(i, lines[i - 1])
  <2> HIDE DEF lines, Added, m
  <2> QED
    BY <1>1, <1>7
<1> HIDE DEF lines
<1>9. LinesOf(config, 0, <<>>)
  <2>1. <<>> \in Seq({}) /\ Len(<<>>) = 0
    OBVIOUS
  <2> QED
    BY <2>1 DEF LinesOf, IsSequence
<1> DEFINE T == {i \in 0 .. m : LinesOf(config, i, lines[i])}
<1>10. 0 \in T
  BY <1>1, <1>8, <1>9
<1>11. ASSUME NEW i \in 0 .. m - 1, i \in T PROVE i + 1 \in T
  <2> HIDE DEF m
  <2>1. i \in Nat /\ i + 1 \in 1 .. m /\ (i + 1) - 1 = i /\ i + 1 \in 0 .. m
    BY <1>1
  <2>2. lines[i + 1] = Added(i + 1, lines[i])
    <3> HIDE DEF Added
    <3> QED
      BY <1>8, <2>1
  <2>3. LinesOf(config, i, lines[i])
    BY <1>11
  <2>4. LinesOf(config, i + 1, lines[i + 1])
    BY <2>1, <2>2, <2>3, OneMoreSetting
  <2> QED
    BY <2>1, <2>4
<1>12. LinesOf(config, m, lines[m])
  <2> HIDE DEF m, T
  <2>1. \A i \in 0 .. m : i \in T
    BY <1>1, <1>10, <1>11, InductionUpTo
  <2>2. m \in 0 .. m
    BY <1>1
  <2>3. m \in T
    BY <2>1, <2>2
  <2> QED
    BY <2>3 DEF T
<1> QED
  BY <1>6, <1>12

(* Where the lists and the settings are in what PL_build_config builds:     *)
(* after how many lines the feeds, the sounds and the alarms end.           *)
AfterFeeds(m)  == m.streams + m.feeds
AfterSounds(m) == AfterFeeds(m) + m.sounds
AfterAlarms(m) == AfterSounds(m) + Len(m.alarms)

(* The lists one after another, and then the settings.                      *)
Built(m, lines) ==
  /\ IsSequence(lines) /\ Len(lines) = AfterAlarms(m) + Len(SettingLines(m.config))
  /\ \A i \in 1 .. Len(lines) :
       /\ i <= m.streams => lines[i].attrib = 652
       /\ m.streams < i /\ i <= AfterFeeds(m) => lines[i].attrib = 344
       /\ AfterFeeds(m) < i /\ i <= AfterSounds(m) => lines[i].attrib = 1173
       /\ AfterSounds(m) < i /\ i <= AfterAlarms(m) =>
            lines[i].attrib = 525 /\ lines[i].value = m.alarms[i - AfterSounds(m)]
       /\ AfterAlarms(m) < i => lines[i] = SettingLines(m.config)[i - AfterAlarms(m)]

(* A place behind others, counted from the last of them.                    *)
LEMMA Between == \A i, p, n \in Nat : p < i /\ i <= p + n => i - p \in 1 .. n
OBVIOUS

(* PL_build_config writes them so.                                          *)
LEMMA BuiltIs ==
  ASSUME NEW m, IsMemory(m)
  PROVE  Built(m, BuildConfig(m))
<1> DEFINE a == Repeat(652, m.streams)
           b == Repeat(344, m.feeds)
           c == Repeat(1173, m.sounds)
           d == [k \in 1 .. Len(m.alarms) |-> [attrib |-> 525, value |-> m.alarms[k]]]
           e == SettingLines(m.config)
<1>1. m.streams \in Nat /\ m.feeds \in Nat /\ m.sounds \in Nat /\ IsSequence(m.alarms)
  BY DEF IsMemory
<1>2. /\ IsSequence(a) /\ Len(a) = m.streams /\ \A k \in 1 .. m.streams : a[k].attrib = 652
      /\ IsSequence(b) /\ Len(b) = m.feeds /\ \A k \in 1 .. m.feeds : b[k].attrib = 344
      /\ IsSequence(c) /\ Len(c) = m.sounds /\ \A k \in 1 .. m.sounds : c[k].attrib = 1173
  BY <1>1, RepeatedLines
<1>3. /\ IsSequence(d) /\ Len(d) = Len(m.alarms) /\ Len(m.alarms) \in Nat
      /\ \A k \in 1 .. Len(m.alarms) : d[k].attrib = 525 /\ d[k].value = m.alarms[k]
  BY <1>1, AlarmLines
<1>4. IsSequence(e)
  BY SettingLinesAre DEF LinesOf
<1>5. BuildConfig(m) = a \o b \o c \o d \o e
  BY DEF BuildConfig
<1> HIDE DEF a, b, c, d
<1> DEFINE ab == a \o b
           abc == ab \o c
           abcd == abc \o d
           abcde == abcd \o e
<1>6. /\ IsSequence(ab) /\ Len(ab) = AfterFeeds(m)
      /\ \A i \in 1 .. AfterFeeds(m) : ab[i] = IF i <= m.streams THEN a[i] ELSE b[i - m.streams]
  BY <1>1, <1>2, Joined DEF AfterFeeds
<1> HIDE DEF ab
<1>7. /\ IsSequence(abc) /\ Len(abc) = AfterSounds(m)
      /\ \A i \in 1 .. AfterSounds(m) : abc[i] = IF i <= AfterFeeds(m) THEN ab[i] ELSE c[i - AfterFeeds(m)]
  <2>1. AfterFeeds(m) \in Nat
    BY <1>1 DEF AfterFeeds
  <2>2. IsSequence(ab) /\ IsSequence(c) /\ Len(ab) = AfterFeeds(m) /\ Len(c) = m.sounds
    BY <1>2, <1>6
  <2>3. /\ IsSequence(abc) /\ Len(abc) = Len(ab) + Len(c)
        /\ \A i \in 1 .. Len(ab) + Len(c) : abc[i] = IF i <= Len(ab) THEN ab[i] ELSE c[i - Len(ab)]
    BY <2>2, Joined
  <2> QED
    BY <2>2, <2>3 DEF AfterSounds
<1> HIDE DEF abc
<1>8. /\ IsSequence(abcd) /\ Len(abcd) = AfterAlarms(m)
      /\ \A i \in 1 .. AfterAlarms(m) : abcd[i] = IF i <= AfterSounds(m) THEN abc[i] ELSE d[i - AfterSounds(m)]
  BY <1>3, <1>7, Joined DEF AfterAlarms
<1> HIDE DEF abcd, e
<1>9. /\ IsSequence(abcde) /\ Len(abcde) = AfterAlarms(m) + Len(e)
      /\ \A i \in 1 .. AfterAlarms(m) + Len(e) :
           abcde[i] = IF i <= AfterAlarms(m) THEN abcd[i] ELSE e[i - AfterAlarms(m)]
  BY <1>4, <1>8, Joined
<1>10. abcde = BuildConfig(m)
  BY <1>5 DEF ab, abc, abcd
<1> HIDE DEF abcde
<1>11. /\ AfterFeeds(m) \in Nat /\ AfterSounds(m) \in Nat /\ AfterAlarms(m) \in Nat /\ Len(e) \in Nat
       /\ m.streams <= AfterFeeds(m) /\ AfterFeeds(m) = m.streams + m.feeds
       /\ AfterFeeds(m) <= AfterSounds(m) /\ AfterSounds(m) = AfterFeeds(m) + m.sounds
       /\ AfterSounds(m) <= AfterAlarms(m) /\ AfterAlarms(m) = AfterSounds(m) + Len(m.alarms)
  <2>1. Len(e) \in Nat
    BY <1>4, <1>8, Joined
  <2> QED
    BY <1>1, <1>3, <2>1 DEF AfterFeeds, AfterSounds, AfterAlarms
<1>12. ASSUME NEW i \in 1 .. AfterAlarms(m) + Len(e)
       PROVE  /\ i <= m.streams => abcde[i].attrib = 652
              /\ m.streams < i /\ i <= AfterFeeds(m) => abcde[i].attrib = 344
              /\ AfterFeeds(m) < i /\ i <= AfterSounds(m) => abcde[i].attrib = 1173
              /\ AfterSounds(m) < i /\ i <= AfterAlarms(m) =>
                   abcde[i].attrib = 525 /\ abcde[i].value = m.alarms[i - AfterSounds(m)]
              /\ AfterAlarms(m) < i => abcde[i] = e[i - AfterAlarms(m)]
  <2>0. i \in Nat /\ i >= 1 /\ m.streams \in Nat
    BY <1>1, <1>11
  <2>1. CASE i <= m.streams
    <3>1. i <= AfterFeeds(m) /\ i <= AfterSounds(m) /\ i <= AfterAlarms(m)
      BY <1>11, <2>0, <2>1
    <3>2. ab[i] = a[i] /\ a[i].attrib = 652
      BY <1>2, <1>6, <1>11, <2>0, <2>1, <3>1
    <3>3. abc[i] = ab[i]
      BY <1>7, <1>11, <2>0, <3>1
    <3>4. abcd[i] = abc[i]
      BY <1>8, <1>11, <2>0, <3>1
    <3>5. abcde[i] = abcd[i]
      BY <1>9, <3>1
    <3> QED
      BY <1>11, <2>0, <2>1, <3>1, <3>2, <3>3, <3>4, <3>5
  <2>2. CASE m.streams < i /\ i <= AfterFeeds(m)
    <3>1. i <= AfterSounds(m) /\ i <= AfterAlarms(m) /\ ~(i <= m.streams) /\ i - m.streams \in 1 .. m.feeds
      BY <1>1, <1>11, <2>0, <2>2
    <3>2. ab[i] = b[i - m.streams] /\ b[i - m.streams].attrib = 344
      BY <1>2, <1>6, <1>11, <2>0, <2>2, <3>1
    <3>3. abc[i] = ab[i]
      BY <1>7, <1>11, <2>0, <2>2, <3>1
    <3>4. abcd[i] = abc[i]
      BY <1>8, <1>11, <2>0, <3>1
    <3>5. abcde[i] = abcd[i]
      BY <1>9, <3>1
    <3> QED
      BY <1>11, <2>0, <2>2, <3>1, <3>2, <3>3, <3>4, <3>5
  <2>3. CASE AfterFeeds(m) < i /\ i <= AfterSounds(m)
    <3>1. i <= AfterAlarms(m) /\ ~(i <= AfterFeeds(m)) /\ ~(i <= m.streams) /\ i - AfterFeeds(m) \in 1 .. m.sounds
      <4>1. i <= AfterAlarms(m)
        BY <1>11, <2>0, <2>3
      <4>2. ~(i <= AfterFeeds(m)) /\ ~(i <= m.streams)
        BY <1>11, <2>0, <2>3
      <4>3. i - AfterFeeds(m) \in 1 .. m.sounds
        BY <1>1, <1>11, <2>0, <2>3, Between
      <4> QED
        BY <4>1, <4>2, <4>3
    <3>2. abc[i] = c[i - AfterFeeds(m)] /\ c[i - AfterFeeds(m)].attrib = 1173
      <4>1. i \in 1 .. AfterSounds(m)
        BY <1>11, <2>0, <2>3
      <4>2. abc[i] = c[i - AfterFeeds(m)]
        BY <1>7, <3>1, <4>1
      <4> QED
        BY <1>2, <3>1, <4>2
    <3>3. abcd[i] = abc[i]
      BY <1>8, <1>11, <2>0, <2>3, <3>1
    <3>4. abcde[i] = abcd[i]
      BY <1>9, <3>1
    <3> QED
      BY <1>11, <2>0, <2>3, <3>1, <3>2, <3>3, <3>4
  <2>4. CASE AfterSounds(m) < i /\ i <= AfterAlarms(m)
    <3>1. /\ ~(i <= AfterSounds(m)) /\ ~(i <= AfterFeeds(m)) /\ ~(i <= m.streams)
          /\ i - AfterSounds(m) \in 1 .. Len(m.alarms)
      <4>1. ~(i <= AfterSounds(m)) /\ ~(i <= AfterFeeds(m)) /\ ~(i <= m.streams)
        BY <1>11, <2>0, <2>4
      <4>2. i - AfterSounds(m) \in 1 .. Len(m.alarms)
        BY <1>3, <1>11, <2>0, <2>4, Between
      <4> QED
        BY <4>1, <4>2
    <3>2. /\ abcd[i] = d[i - AfterSounds(m)] /\ d[i - AfterSounds(m)].attrib = 525
          /\ d[i - AfterSounds(m)].value = m.alarms[i - AfterSounds(m)]
      BY <1>3, <1>8, <1>11, <2>0, <2>4, <3>1
    <3>3. abcde[i] = abcd[i]
      BY <1>9, <2>4
    <3> QED
      BY <1>11, <2>0, <2>4, <3>1, <3>2, <3>3
  <2>5. CASE AfterAlarms(m) < i
    <3>1. /\ ~(i <= AfterAlarms(m)) /\ ~(i <= AfterSounds(m)) /\ ~(i <= AfterFeeds(m)) /\ ~(i <= m.streams)
      BY <1>11, <2>0, <2>5
    <3> QED
      BY <1>9, <3>1
  <2> QED
    BY <1>11, <2>0, <2>1, <2>2, <2>3, <2>4, <2>5
<1>13. Built(m, abcde)
  BY <1>9, <1>12 DEF Built, e
<1> QED
  BY <1>10, <1>13

(* The numbers of the lines.                                                *)
LEMMA Places ==
  ASSUME NEW m, IsMemory(m)
  PROVE  /\ m.streams \in Nat /\ m.feeds \in Nat /\ m.sounds \in Nat /\ Len(m.alarms) \in Nat
         /\ AfterFeeds(m) \in Nat /\ AfterSounds(m) \in Nat /\ AfterAlarms(m) \in Nat
         /\ AfterFeeds(m) = m.streams + m.feeds
         /\ AfterSounds(m) = AfterFeeds(m) + m.sounds
         /\ AfterAlarms(m) = AfterSounds(m) + Len(m.alarms)
         /\ Len(SettingLines(m.config)) \in Nat /\ Len(BuildConfig(m)) \in Nat
         /\ Len(BuildConfig(m)) = AfterAlarms(m) + Len(SettingLines(m.config))
<1>1. Len(m.alarms) \in Nat
  BY AlarmLines DEF IsMemory
<1>2. IsSequence(SettingLines(m.config)) /\ Len(BuildConfig(m)) = AfterAlarms(m) + Len(SettingLines(m.config))
  BY SettingLinesAre, BuiltIs DEF LinesOf, Built
<1>3. Len(SettingLines(m.config)) \in Nat
  BY <1>2, LenProperties DEF IsSequence
<1> QED
  BY <1>1, <1>2, <1>3 DEF IsMemory, AfterFeeds, AfterSounds, AfterAlarms

(* Half of one file and half of another.                                    *)
Halves(f, g, h) ==
  /\ IsFile(h)
  /\ \A i \in 1 .. BlockLines : h[i] = f[i]
  /\ \A i \in BlockLines + 1 .. FileSize : h[i] = g[i]

(* One file before the middle and another behind it are a file.             *)
LEMMA TwoHalves ==
  ASSUME NEW f, NEW g, IsFile(f), IsFile(g)
  PROVE  Halves(f, g, SubSeq(f, 1, BlockLines) \o SubSeq(g, BlockLines + 1, FileSize))
<1> DEFINE S == {f[i] : i \in 1 .. FileSize} \cup {g[i] : i \in 1 .. FileSize}
           a == SubSeq(f, 1, BlockLines)
           b == SubSeq(g, BlockLines + 1, FileSize)
<1>1. BlockLines \in Nat /\ BlockLines >= 1 /\ FileSize = 2 * BlockLines /\ FileSize \in Nat
  BY MemoryAssumption DEF FileSize
<1>2. /\ \A i \in 1 .. BlockLines : f[i] \in S
      /\ \A i \in BlockLines + 1 .. FileSize : g[i] \in S
  BY <1>1
<1> HIDE DEF S
<1>3. a \in Seq(S) /\ Len(a) = BlockLines /\ \A i \in 1 .. BlockLines : a[i] = f[i]
  BY <1>1, <1>2, SubSeqProperties
<1>4. b \in Seq(S) /\ Len(b) = BlockLines /\ \A i \in 1 .. BlockLines : b[i] = g[BlockLines + i]
  <2>1. b \in Seq(S) /\ Len(b) = BlockLines
    BY <1>1, <1>2, SubSeqProperties
  <2>2. \A i \in 1 .. BlockLines : b[i] = g[(BlockLines + 1) + i - 1] /\ (BlockLines + 1) + i - 1 = BlockLines + i
    BY <1>1, <1>2, SubSeqProperties
  <2> HIDE DEF b
  <2> QED
    BY <2>1, <2>2
<1> HIDE DEF a, b
<1> DEFINE c == a \o b
<1>5. /\ c \in Seq(S) /\ Len(c) = FileSize
      /\ \A i \in 1 .. FileSize : c[i] = IF i <= BlockLines THEN a[i] ELSE b[i - BlockLines]
  <2>1. /\ c \in Seq(S) /\ Len(c) = Len(a) + Len(b)
        /\ \A i \in 1 .. Len(a) + Len(b) : c[i] = IF i <= Len(a) THEN a[i] ELSE b[i - Len(a)]
    BY <1>3, <1>4, ConcatProperties
  <2>2. Len(a) + Len(b) = FileSize
    BY <1>1, <1>3, <1>4
  <2> HIDE DEF c
  <2> QED
    BY <1>3, <2>1, <2>2
<1> HIDE DEF c
<1>6. IsFile(c)
  <2>1. c = [i \in 1 .. FileSize |-> c[i]]
    BY <1>5
  <2> QED
    BY <2>1 DEF IsFile
<1>7. ASSUME NEW i \in 1 .. BlockLines PROVE c[i] = f[i]
  BY <1>1, <1>3, <1>5
<1>8. ASSUME NEW i \in BlockLines + 1 .. FileSize PROVE c[i] = g[i]
  <2>1. i \in 1 .. FileSize /\ ~(i <= BlockLines) /\ i - BlockLines \in 1 .. BlockLines
        /\ BlockLines + (i - BlockLines) = i
    BY <1>1
  <2> QED
    BY <1>4, <1>5, <2>1
<1>9. Halves(f, g, c)
  BY <1>6, <1>7, <1>8 DEF Halves
<1> QED
  BY <1>9 DEF a, b, c

-----------------------------------------------------------------------------
(* The stations.                                                            *)

(* Whoever reads the line of a station has one.                             *)
LEMMA StreamIsCounted ==
  ASSUME NEW lines, Len(lines) \in Nat, NEW p \in 1 .. Len(lines), lines[p].attrib = 652
  PROVE  IsMemory(Reading(lines)[Len(lines)]) /\ Reading(lines)[Len(lines)].streams >= 1
<1> DEFINE R == Reading(lines)
           Good(i) == IsMemory(R[i]) /\ (p <= i => R[i].streams >= 1)
           T == {i \in 0 .. Len(lines) : Good(i)}
<1>1. R[0] = InitialMemory /\ \A i \in 1 .. Len(lines) : R[i] = ReadLine(R[i - 1], lines[i])
  BY ReadingIsDefined DEF ReadingFits
<1>2. 0 \in T
  BY <1>1, InitialMemoryIs
<1>3. ASSUME NEW i \in 0 .. Len(lines) - 1, i \in T PROVE i + 1 \in T
  <2>1. i + 1 \in 1 .. Len(lines) /\ (i + 1) - 1 = i
    OBVIOUS
  <2>2. R[i + 1] = ReadLine(R[i], lines[i + 1])
    BY <1>1, <2>1
  <2>3. Good(i) /\ R[i].streams \in Nat
    BY <1>3 DEF IsMemory
  <2>4. /\ IsMemory(R[i + 1])
        /\ R[i + 1].streams = IF lines[i + 1].attrib = 652 THEN R[i].streams + 1 ELSE R[i].streams
    <3>1. IsMemory(R[i])
      BY <2>3
    <3>2. ReadsOn(R[i], lines[i + 1], ReadLine(R[i], lines[i + 1]))
      <4> HIDE DEF R
      <4> QED
        BY <3>1, LineRead
    <3> QED
      BY <2>2, <3>2 DEF ReadsOn
  <2>5. p <= i + 1 => R[i + 1].streams >= 1
    BY <2>3, <2>4
  <2> HIDE DEF R
  <2> QED
    BY <2>1, <2>4, <2>5
<1> HIDE DEF T
<1>4. \A i \in 0 .. Len(lines) : i \in T
  BY <1>2, <1>3, InductionUpTo
<1>5. Len(lines) \in T
  BY <1>4
<1> QED
  BY <1>5 DEF T

(* The line of a station comes before the NUL at which reading ends.        *)
HasStation(f) ==
  \E p \in 1 .. FileSize : f[p].attrib = 652 /\ \A j \in 1 .. p : f[j].attrib # 0

(* A file with a station in it gives one.                                   *)
LEMMA StationIsRead ==
  ASSUME NEW f, IsFile(f), HasStation(f)
  PROVE  IsMemory(ParseConfigBuffer(f)) /\ ParseConfigBuffer(f).streams >= 1
<1>1. PICK p \in 1 .. FileSize : f[p].attrib = 652 /\ \A j \in 1 .. p : f[j].attrib # 0
  BY DEF HasStation
<1>2. PICK n : LinesEnd(f, n)
  BY LinesAre
<1> DEFINE lines == LinesBeforeNul(f)
<1>3. /\ FileSize \in Nat /\ n \in 0 .. FileSize /\ Len(lines) = n
      /\ \A i \in 1 .. n : lines[i] = f[i]
      /\ n < FileSize => f[n + 1].attrib = 0
  BY <1>2, FileIsSequence DEF LinesEnd
<1>4. ParseConfigBuffer(f) = Reading(lines)[Len(lines)]
  BY DEF ParseConfigBuffer
<1> HIDE DEF lines
<1>5. p \in 1 .. n
  <2> SUFFICES ASSUME n < p PROVE FALSE
    BY <1>3
  <2>1. n + 1 \in 1 .. p /\ n < FileSize
    BY <1>3
  <2> QED
    BY <1>1, <1>3, <2>1
<1>6. Len(lines) \in Nat /\ p \in 1 .. Len(lines) /\ lines[p].attrib = 652
  BY <1>1, <1>3, <1>5
<1> QED
  BY <1>4, <1>6, StreamIsCounted

(* The stations come first.                                                 *)
LEMMA BuiltBegins ==
  ASSUME NEW m, IsMemory(m), m.streams >= 1
  PROVE  Len(BuildConfig(m)) \in Nat /\ Len(BuildConfig(m)) >= 1 /\ BuildConfig(m)[1].attrib = 652
<1> DEFINE lines == BuildConfig(m)
<1>1. Len(lines) \in Nat /\ Len(lines) >= m.streams
  <2>1. /\ m.streams \in Nat /\ m.feeds \in Nat /\ m.sounds \in Nat /\ Len(m.alarms) \in Nat
        /\ Len(SettingLines(m.config)) \in Nat /\ Len(lines) \in Nat
        /\ Len(lines) = AfterAlarms(m) + Len(SettingLines(m.config))
    BY Places
  <2> HIDE DEF lines
  <2>2. Len(lines) = m.streams + m.feeds + m.sounds + Len(m.alarms) + Len(SettingLines(m.config))
    BY <2>1 DEF AfterAlarms, AfterSounds, AfterFeeds
  <2> QED
    BY <2>1, <2>2
<1>2. m.streams \in Nat
  BY DEF IsMemory
<1>3. Built(m, lines)
  BY BuiltIs
<1> HIDE DEF lines
<1>4. 1 \in 1 .. Len(lines) /\ 1 <= m.streams
  BY <1>1, <1>2
<1>5. lines[1].attrib = 652
  BY <1>3, <1>4 DEF Built
<1>6. Len(lines) \in Nat /\ Len(lines) >= 1
  BY <1>1, <1>2
<1> QED
  BY <1>5, <1>6 DEF lines

(* Why there is a station: the file has one, whichever half of it was       *)
(* written; the file under construction begins with one; the list is what   *)
(* was read from such a file; and the indices are numbers.                  *)
StationInv ==
  /\ IsMemory(memory) /\ memory.streams >= 1
  /\ G_stream_index \in Nat /\ G_stream_index < memory.streams
  /\ NVRAM.stream_index \in Nat /\ persistence_data.stream_index \in Nat
  /\ IsFile(file) /\ HasStation(file)
  /\ savePc = "half" => IsFile(G_working_config) /\ file[1].attrib = 652

(* What has nothing to do with the stations.                                *)
LEMMA StationKeeps ==
  ASSUME StationInv, UNCHANGED <<memory, G_stream_index, NVRAM, persistence_data, file, savePc, G_working_config>>
  PROVE  StationInv'
BY DEF StationInv

(* A start from a file with a station.                                      *)
LEMMA StationRestart ==
  ASSUME StationInv, Restart, IsFile(file'), HasStation(file')
  PROVE  StationInv'
<1>1. memory' = ParseConfigBuffer(file') /\ G_stream_index' = 0 /\ savePc' = "idle"
      /\ NVRAM' = NVRAM /\ persistence_data' = Blank
  BY DEF Restart
<1>2. IsMemory(memory') /\ memory'.streams >= 1
  BY <1>1, StationIsRead
<1>3. memory'.streams \in Nat
  BY <1>2 DEF IsMemory
<1> QED
  BY <1>1, <1>2, <1>3 DEF StationInv, Blank

(* The menu changes settings and alarms.                                    *)
LEMMA StationEdited ==
  ASSUME StationInv, EditMenu
  PROVE  StationInv'
<1>1. IsMemory(memory') /\ memory'.streams = memory.streams
  <2>1. CASE \E setting \in DOMAIN MenuValues : \E value \in MenuValues[setting] :
               memory' = [memory EXCEPT !.config[setting] = value]
    BY <2>1, InitialMemoryIs DEF StationInv, IsMemory
  <2>2. CASE \E i \in DOMAIN memory.alarms, alarm \in MenuAlarms :
               memory' = [memory EXCEPT !.alarms[i] = alarm]
    <3>1. PICK i \in DOMAIN memory.alarms, alarm \in MenuAlarms :
            memory' = [memory EXCEPT !.alarms = [@ EXCEPT ![i] = alarm]]
      BY <2>2
    <3>2. IsSequence([memory.alarms EXCEPT ![i] = alarm])
      BY SequenceReplaced DEF StationInv, IsMemory
    <3> QED
      BY <3>1, <3>2, InitialMemoryIs DEF StationInv, IsMemory
  <2> QED
    BY <2>1, <2>2 DEF EditMenu
<1> QED
  BY <1>1 DEF StationInv, EditMenu, savedVars, persistenceVars

(* The first half of the file that is written begins with a station.        *)
LEMMA StationSaved ==
  ASSUME StationInv, SaveFirstHalf
  PROVE  StationInv'
<1> DEFINE whole == [memory EXCEPT !.config.volume_level = <<G_volume>>]
           built == BuiltInto(G_working_config, BuildConfig(whole))
<1>1. IsMemory(whole) /\ whole.streams >= 1
  BY InitialMemoryIs DEF StationInv, IsMemory
<1>2. FileSize \in Nat /\ FileSize >= 2 /\ BlockLines \in Nat /\ BlockLines >= 1
  BY MemoryAssumption DEF FileSize
<1>3. IsFile(built) /\ built[1].attrib = 652
  <2> DEFINE lines == BuildConfig(whole)
  <2> HIDE DEF whole
  <2>1. Len(lines) \in Nat /\ Len(lines) >= 1 /\ lines[1].attrib = 652
    BY <1>1, BuiltBegins
  <2> HIDE DEF lines
  <2>2. built = BuiltInto(G_working_config, lines)
    BY DEF lines
  <2>3. 1 \in 1 .. FileSize
    BY <1>2
  <2>4. built[1] = lines[1]
    BY <2>1, <2>2, <2>3 DEF BuiltInto
  <2>5. IsFile(built)
    BY <2>2 DEF BuiltInto, IsFile
  <2> QED
    BY <2>1, <2>4, <2>5
<1>4. file' = SubSeq(built, 1, BlockLines) \o SubSeq(file, BlockLines + 1, FileSize)
      /\ G_working_config' = built /\ savePc' = "half"
  BY DEF SaveFirstHalf
<1> HIDE DEF built
<1>5. IsFile(file') /\ file'[1].attrib = 652
  <2>1. IsFile(file)
    BY DEF StationInv
  <2>2. Halves(built, file, file')
    BY <1>3, <1>4, <2>1, TwoHalves
  <2> QED
    BY <1>2, <1>3, <2>2 DEF Halves
<1>6. HasStation(file')
  BY <1>2, <1>5 DEF HasStation
<1> QED
  BY <1>3, <1>4, <1>5, <1>6 DEF StationInv, SaveFirstHalf, savedVars, persistenceVars

(* The second half leaves the first alone.                                  *)
LEMMA StationSavedWhole ==
  ASSUME StationInv, SaveSecondHalf
  PROVE  StationInv'
<1>1. FileSize \in Nat /\ FileSize >= 2 /\ BlockLines \in Nat /\ BlockLines >= 1
  BY MemoryAssumption DEF FileSize
<1>2. file' = SubSeq(file, 1, BlockLines) \o SubSeq(G_working_config, BlockLines + 1, FileSize)
      /\ savePc = "half" /\ savePc' = "idle"
  BY DEF SaveSecondHalf
<1>3. IsFile(file') /\ file'[1].attrib = 652
  <2>1. IsFile(file) /\ IsFile(G_working_config) /\ file[1].attrib = 652
    BY <1>2 DEF StationInv
  <2>2. Halves(file, G_working_config, file')
    BY <1>2, <2>1, TwoHalves
  <2> QED
    BY <1>1, <2>1, <2>2 DEF Halves
<1>4. HasStation(file')
  BY <1>1, <1>3 DEF HasStation
<1> QED
  BY <1>2, <1>3, <1>4 DEF StationInv, SaveSecondHalf, savedVars, persistenceVars

(* The record only gets the index that is selected, or keeps one.           *)
LEMMA StationThread ==
  ASSUME StationInv, RecordInv, PersistenceStep
  PROVE  StationInv'
<1>1. UNCHANGED <<memory, G_stream_index, file, savePc, G_working_config>>
  BY DEF PersistenceStep, Persistence, PersistenceLoads, PersistenceLooks, PersistenceCompares,
         PersistenceComparesSignature, PersistenceSyncs, PersistenceWrites, savedVars, memoryVars
<1>2. NVRAM'.stream_index \in Nat /\ persistence_data'.stream_index \in Nat
  <2>1. CASE PersistenceSyncs
    <3> DEFINE f == Synced[field + 1]
    <3>1. /\ persistence_data' = [persistence_data EXCEPT !.signature = TRUE, ![f] = Stored(f)]
          /\ NVRAM' = NVRAM
      BY <2>1 DEF PersistenceSyncs
    <3>2. Stored("stream_index") = G_stream_index
      BY DEF Stored, Globals
    <3>3. persistence_data = [g \in DOMAIN Blank |-> persistence_data[g]] /\ "stream_index" \in DOMAIN Blank
      BY DEF RecordInv, IsRecord, Blank
    <3> HIDE DEF f
    <3>4. persistence_data'["stream_index"] \in {persistence_data["stream_index"], G_stream_index}
      <4>1. CASE f = "stream_index"
        BY <3>1, <3>2, <3>3, <4>1
      <4>2. CASE f # "stream_index"
        BY <3>1, <3>3, <4>2
      <4> QED
        BY <4>1, <4>2
    <3> QED
      BY <3>1, <3>4 DEF StationInv
  <2>2. CASE PersistenceLoads \/ PersistenceWrites
    BY <2>2 DEF PersistenceLoads, PersistenceWrites, StationInv
  <2>3. CASE PersistenceLooks \/ PersistenceCompares \/ PersistenceComparesSignature
    BY <2>3 DEF PersistenceLooks, PersistenceCompares, PersistenceComparesSignature, StationInv
  <2> QED
    BY <2>1, <2>2, <2>3 DEF PersistenceStep, Persistence
<1> QED
  BY <1>1, <1>2 DEF StationInv

(* Every step of the radio.                                                 *)
LEMMA StationStep ==
  ASSUME HasStation(FactoryLines), StationInv, RecordInv, [Next]_vars
  PROVE  StationInv'
<1>1. CASE PowerCut
  BY <1>1, StationRestart DEF PowerCut, StationInv
<1>2. CASE RestorePersistence
  <2>1. UNCHANGED <<memory, NVRAM, persistence_data, file, savePc, G_working_config>>
    BY <1>2 DEF RestorePersistence, memoryVars
  <2>2. G_stream_index' \in Nat /\ G_stream_index' < memory.streams
    BY <1>2 DEF RestorePersistence, KeepPersistence, savedVars, StationInv, IsMemory
  <2> QED
    BY <2>1, <2>2 DEF StationInv
<1>3. CASE ChooseStation
  <2>1. UNCHANGED <<memory, NVRAM, persistence_data, file, savePc, G_working_config>>
    BY <1>3 DEF ChooseStation, Elsewhere, memoryVars, persistenceVars
  <2>2. G_stream_index' \in Nat /\ G_stream_index' < memory.streams
    BY <1>3 DEF ChooseStation, Neighbours, StationInv, IsMemory
  <2> QED
    BY <2>1, <2>2 DEF StationInv
<1>4. CASE EditMenu
  BY <1>4, StationEdited
<1>5. CASE SaveFirstHalf
  BY <1>5, StationSaved
<1>6. CASE SaveSecondHalf
  BY <1>6, StationSavedWhole
<1>7. CASE PersistenceStep
  BY <1>7, StationThread
<1>8. CASE Autoplay \/ ChooseFeed \/ ChangeVolume \/ PlayerChanges \/ DisplayKey
           \/ EnterSetup \/ SetupEntered \/ LeaveSetup \/ SetupLeft
  BY <1>8, StationKeeps DEF Autoplay, ChooseFeed, ChangeVolume, PlayerChanges, DisplayKey,
     EnterSetup, SetupEntered, LeaveSetup, SetupLeft, KeyPressed, Elsewhere, savedVars,
     memoryVars, persistenceVars
<1>9. CASE UNCHANGED vars
  BY <1>9, StationKeeps DEF vars, savedVars, memoryVars, persistenceVars
<1>10. CASE FactoryInit
  BY <1>10, StationRestart, MemoryAssumption DEF FactoryInit
<1> QED
  BY <1>1, <1>2, <1>3, <1>4, <1>5, <1>6, <1>7, <1>8, <1>9, <1>10 DEF Next

(* The station selected is always one of the list, whatever record or half- *)
(* written file a start has found, if the first file and the factory        *)
(* settings have a station at all before their end. (Without one there is   *)
(* none to select.)                                                         *)
THEOREM SelectedIsInTheList ==
  ASSUME HasStation(InitialFile), HasStation(FactoryLines)
  PROVE  Spec => []StationInList
<1>1. Init => StationInv
  <2> SUFFICES ASSUME Init PROVE StationInv
    OBVIOUS
  <2>1. IsFile(file) /\ HasStation(file) /\ memory = ParseConfigBuffer(file)
    BY MemoryAssumption DEF Init
  <2>2. IsMemory(memory) /\ memory.streams >= 1 /\ memory.streams \in Nat
    BY <2>1, StationIsRead DEF IsMemory
  <2>3. NVRAM.stream_index \in Nat
    BY MemoryAssumption DEF Init
  <2> QED
    BY <2>1, <2>2, <2>3 DEF Init, StationInv, Blank
<1>2. StationInv /\ RecordInv /\ [Next]_vars => StationInv'
  BY StationStep
<1>3. StationInv => StationInList
  BY DEF StationInv, StationInList
<1> QED
  BY <1>1, <1>2, <1>3, RecordStarts, RecordStep, PTL DEF Spec

-----------------------------------------------------------------------------
(* What is read back of what was saved: the values.                         *)

(* The tables of names. No two settings are read by the same sum.           *)
LEMMA SumsDiffer == \A i, j \in 1 .. 39 : SumsRead[i] = SumsRead[j] => i = j
BY SMTT(120) DEF SumsRead

(* All but one are read by the sum that they are written by.                *)
LEMMA SumsAgree == \A i \in 1 .. 39 : i # 26 => SumsWritten[i] = SumsRead[i]
BY SMTT(120) DEF SumsRead, SumsWritten

(* The one is the volume of the satellites: nothing is read by its sum.     *)
LEMMA Stray == SumsWritten[26] = 2159 /\ Order[26] = "HW_volume_L" /\ \A i \in 1 .. 39 : SumsRead[i] # 2159
BY SMTT(60) DEF SumsRead, SumsWritten, Order

(* Every line is that of a setting,                                         *)
LEMMA OrderIn == \A i \in 1 .. 39 : Order[i] \in Settings
BY SMTT(60) DEF Order, Settings, InitialConfig

(* and every setting has its line.                                          *)
LEMMA OrderAll == \A s \in Settings : \E i \in 1 .. 39 : Order[i] = s
BY SMTT(60) DEF Order, Settings, InitialConfig

(* The initial numbers that parsing may refuse,                             *)
LEMMA Numbers ==
  /\ InitialConfig.sleep_timer_time = <<40>> /\ InitialConfig.snooze_timer_time = <<120>>
  /\ InitialConfig.bt_spk = <<0>> /\ InitialConfig.bt_sink = <<0>>
  /\ InitialConfig.tts_speed = <<100>> /\ InitialConfig.tts_pitch = <<100>> /\ InitialConfig.tts_volume = <<100>>
  /\ InitialConfig.FFT_base_color = <<24>> /\ InitialConfig.FFT_marker_color = <<19>>
  /\ InitialConfig.matrix_clock_color = <<18>>
BY DEF InitialConfig

(* and does not.                                                            *)
LEMMA InitialAccepted ==
  ASSUME NEW s \in Settings \ Texts
  PROVE  Accepted(s, InitialConfig[s][1])
<1>1. CASE s \notin {"sleep_timer_time", "snooze_timer_time", "bt_spk", "bt_sink", "tts_speed", "tts_pitch",
                     "tts_volume", "FFT_base_color", "FFT_marker_color", "matrix_clock_color"}
  BY <1>1 DEF Accepted
<1>2. CASE s \in {"sleep_timer_time", "snooze_timer_time"}
  BY <1>2, Numbers DEF Accepted
<1>3. CASE s \in {"bt_spk", "bt_sink"}
  BY <1>3, Numbers DEF Accepted
<1>4. CASE s \in {"tts_speed", "tts_pitch", "tts_volume"}
  BY <1>4, Numbers DEF Accepted
<1>5. CASE s \in {"FFT_base_color", "FFT_marker_color", "matrix_clock_color"}
  BY <1>5, Numbers DEF Accepted
<1> QED
  BY <1>1, <1>2, <1>3, <1>4, <1>5

(* The initial texts                                                        *)
LEMMA InitialTexts ==
  /\ InitialConfig.wireless_ssid = <<"none", 4, 0>> /\ InitialConfig.wireless_password = <<"none", 4, 0>>
  /\ InitialConfig.wireless_driver = <<" ", 1, 0>> /\ InitialConfig.ip_address = <<"0.0.0.0", 7, 0>>
  /\ InitialConfig.ip_netmask = <<"0.0.0.0", 7, 0>> /\ InitialConfig.ip_gateway = <<"0.0.0.0", 7, 0>>
  /\ InitialConfig.timezone = <<"UTC", 3, 0>> /\ InitialConfig.ntp_server = <<"pool.ntp.org", 12, 0>>
  /\ InitialConfig.weather_location = <<" ", 1, 0>> /\ InitialConfig.bt_pair_with = <<"", 0, 0>>
  /\ InitialConfig.bt_speaker = <<"", 0, 0>> /\ InitialConfig.bt_source = <<"", 0, 0>>
  /\ InitialConfig.rapidapi_weather_key = <<" ", 1, 0>>
BY DEF InitialConfig

(* A text: its letters, its length, and where its first '#' is.             *)
IsText(v) == v = <<v[1], v[2], v[3]>> /\ v[2] \in Nat /\ v[3] \in Nat

(* What the parts of a text are.                                            *)
LEMMA TextIs ==
  ASSUME NEW a, NEW n \in Nat, NEW h \in Nat
  PROVE  LET v == <<a, n, h>> IN IsText(v) /\ v[1] = a /\ v[2] = n /\ v[3] = h
<1> DEFINE v == <<a, n, h>>
<1>1. v[1] = a /\ v[2] = n /\ v[3] = h
  OBVIOUS
<1> QED
  BY <1>1 DEF IsText

(* And none of the initial ones has a '#'.                                  *)
LEMMA InitialIsText ==
  ASSUME NEW s \in Texts
  PROVE  IsText(InitialConfig[s]) /\ InitialConfig[s][3] = 0
<1>1. \A a, n, v : n \in Nat /\ v = <<a, n, 0>> => IsText(v) /\ v[3] = 0
  BY TextIs
<1>2. 0 \in Nat /\ 1 \in Nat /\ 3 \in Nat /\ 4 \in Nat /\ 7 \in Nat /\ 12 \in Nat
  OBVIOUS
<1>3. \E a, n : n \in Nat /\ InitialConfig[s] = <<a, n, 0>>
  BY InitialTexts, <1>2, Zenon DEF Texts
<1> QED
  BY <1>1, <1>3, Zenon

(* The texts that are left out when they are short.                         *)
LEMMA Lengths ==
  /\ DOMAIN LeastLength = {"weather_location", "bt_pair_with", "bt_speaker", "bt_source", "rapidapi_weather_key"}
  /\ LeastLength["weather_location"] = 3 /\ LeastLength["bt_pair_with"] = 3
  /\ LeastLength["bt_speaker"] = 10 /\ LeastLength["bt_source"] = 10
  /\ LeastLength["rapidapi_weather_key"] = 11
  /\ DOMAIN LeastLength \subseteq Texts
BY DEF LeastLength, Texts

(* A value that a line of a setting may have: a text where one belongs,     *)
(* and, where PL_build_config leaves short ones out, none that a '#' makes  *)
(* so short without making it empty.                                        *)
Fits(s, v) ==
  /\ s \in Texts => IsText(v)
  /\ s \in {"weather_location", "rapidapi_weather_key"} =>
       CutAtHash(v)[2] = 0 \/ IsWritten(s, CutAtHash(v))

(* A value that is read back, if the code reads it back at all: the initial *)
(* one, or one that its line may have and parsing takes.                    *)
Keeps(s, v) ==
  \/ v = InitialConfig[s]
  \/ Fits(s, v) /\ (s \notin Texts /\ ReadBack(s, v) => Accepted(s, v[1]))

(* A text without a '#' is read whole; a part is, once cut, not cut again.  *)
LEMMA CutIs ==
  ASSUME NEW v, IsText(v)
  PROVE  /\ v[3] = 0 => CutAtHash(v) = v
         /\ CutAtHash(v)[2] > 0 => IsText(CutAtHash(v)) /\ CutAtHash(CutAtHash(v)) = CutAtHash(v)
<1>1. v[2] \in Nat /\ v[3] \in Nat
  BY DEF IsText
<1>2. CASE v[3] = 0
  BY <1>2 DEF CutAtHash
<1>3. CASE v[3] # 0
  <2>1. v[3] - 1 \in Nat
    BY <1>1, <1>3
  <2>2. CutAtHash(v) = <<v[1], v[3] - 1, 0>>
    BY <1>3 DEF CutAtHash
  <2>3. IsText(CutAtHash(v)) /\ CutAtHash(v)[3] = 0
    BY <2>1, <2>2, TextIs
  <2> QED
    BY <1>3, <2>3 DEF CutAtHash
<1> QED
  BY <1>2, <1>3

(* What is written may be on a line.                                        *)
LEMMA WrittenFits ==
  ASSUME NEW s \in Settings, NEW v, Keeps(s, v), IsWritten(s, v)
  PROVE  Fits(s, v)
<1>1. CASE v = InitialConfig[s]
  <2>1. s \in Texts => IsText(v)
    BY <1>1, InitialIsText
  <2>2. s \notin {"weather_location", "rapidapi_weather_key"}
    <3>1. InitialConfig["weather_location"][2] = 1 /\ InitialConfig["rapidapi_weather_key"][2] = 1
      <4>1. InitialConfig.weather_location = <<" ", 1, 0>> /\ InitialConfig.rapidapi_weather_key = <<" ", 1, 0>>
        BY InitialTexts, Zenon
      <4>2. \A a, w : w = <<a, 1, 0>> => w[2] = 1
        OBVIOUS
      <4> QED
        BY <4>1, <4>2, Zenon
    <3>2. ~(InitialConfig["weather_location"][2] >= 3) /\ ~(InitialConfig["rapidapi_weather_key"][2] >= 11)
      BY <3>1
    <3> QED
      BY <1>1, <3>2, Lengths, Zenon DEF IsWritten
  <2> QED
    BY <2>1, <2>2 DEF Fits
<1>2. CASE v # InitialConfig[s]
  BY <1>2 DEF Keeps
<1> QED
  BY <1>1, <1>2

(* What is written and read back is read as what it was.                    *)
LEMMA ReadsItself ==
  ASSUME NEW s \in Settings, NEW v, Keeps(s, v), ReadBack(s, v), IsWritten(s, v), NEW c
  PROVE  ReadSetting(c, s, v) = [c EXCEPT ![s] = v]
<1>1. CASE s \in Texts
  <2>1. IsText(v) /\ v[2] > 0 /\ v[3] = 0
    BY <1>1, WrittenFits DEF ReadBack, Fits
  <2>2. CutAtHash(v) = v
    BY <2>1, CutIs
  <2> QED
    BY <1>1, <2>1, <2>2 DEF ReadSetting
<1>2. CASE s \notin Texts
  <2>1. Accepted(s, v[1])
    BY <1>2, InitialAccepted DEF Keeps
  <2> QED
    BY <1>2, <2>1 DEF ReadSetting
<1> QED
  BY <1>1, <1>2

(* What is left out though it is read back is what a start has anyway.      *)
LEMMA NotWritten ==
  ASSUME NEW s \in Settings, NEW v, Keeps(s, v), ReadBack(s, v), ~IsWritten(s, v)
  PROVE  v = InitialConfig[s]
<1> SUFFICES ASSUME Fits(s, v) PROVE FALSE
  BY DEF Keeps
<1>1. s \in DOMAIN LeastLength /\ ~(v[2] >= LeastLength[s])
  BY DEF IsWritten
<1>2. s \in Texts /\ IsText(v) /\ v[2] \in Nat /\ v[2] > 0 /\ v[3] = 0
  BY <1>1, Lengths DEF Fits, IsText, ReadBack
<1>3. CutAtHash(v) = v
  BY <1>2, CutIs
<1>4. s \in {"bt_pair_with", "bt_speaker", "bt_source"}
  BY <1>1, <1>2, <1>3, Lengths DEF Fits
<1>5. IF s = "bt_pair_with" THEN v[2] > 2 ELSE v[2] > 9
  BY <1>2, <1>4 DEF ReadBack
<1> QED
  BY <1>1, <1>2, <1>4, <1>5, Lengths

(* A sum means the setting whose place it has.                              *)
LEMMA SettingOfIs ==
  ASSUME NEW i \in 1 .. 39
  PROVE  SumsRead[i] \in DOMAIN SettingOf /\ SettingOf[SumsRead[i]] = Order[i]
<1>1. Len(SumsRead) = 39
  BY DEF SumsRead
<1>2. (CHOOSE k \in 1 .. 39 : SumsRead[k] = SumsRead[i]) = i
  BY SumsDiffer
<1>3. SumsRead[i] \in {SumsRead[k] : k \in 1 .. 39}
  OBVIOUS
<1> QED
  BY <1>1, <1>2, <1>3, Zenon DEF SettingOf

(* And there are no other sums.                                             *)
LEMMA SumsOfSettings ==
  ASSUME NEW n \in DOMAIN SettingOf
  PROVE  \E i \in 1 .. 39 : n = SumsRead[i] /\ SettingOf[n] = Order[i] /\ Order[i] \in Settings
<1>1. Len(SumsRead) = 39
  BY DEF SumsRead
<1>2. PICK i \in 1 .. 39 : n = SumsRead[i]
  BY <1>1 DEF SettingOf
<1> QED
  BY <1>2, SettingOfIs, OrderIn, Zenon

-----------------------------------------------------------------------------
(* Memory that can be saved, and files that can be read.                    *)

(* An alarm has these fields, among others.                                 *)
IsAlarm(a) == {"days_of_week", "alarm_state", "alarm_type", "sound_index"} \subseteq DOMAIN a

(* An alarm that is read back as it is: of the days, the state, the type    *)
(* and the sound that PL_parse_alarm_spec takes.                            *)
KeepsAlarm(a) ==
  /\ a = [f \in DOMAIN a |-> a[f]] /\ IsAlarm(a)
  /\ ~(a.days_of_week > 127) /\ a.alarm_state \in {0, 1} /\ ~(a.alarm_type > 128) /\ ~(a.sound_index > 254)

(* A line that can be read: an alarm or the value of a setting.             *)
LineFits(line) ==
  /\ line.attrib = 525 => IsAlarm(line.value)
  /\ line.attrib \in DOMAIN SettingOf => Fits(SettingOf[line.attrib], line.value)

(* A file of such lines, up to its end.                                     *)
FileFits(f) == \A i \in 1 .. FileSize : LineFits(f[i])

(* Settings with such values.                                               *)
KeptConfig(c) == c = [s \in Settings |-> c[s]] /\ \A s \in Settings : Keeps(s, c[s])

(* Memory with such settings and alarms.                                    *)
MemoryKept(m) ==
  /\ IsMemory(m)
  /\ m.config = [s \in Settings |-> m.config[s]] /\ \A s \in Settings : Keeps(s, m.config[s])
  /\ \A k \in 1 .. Len(m.alarms) : KeepsAlarm(m.alarms[k])

(* Reading the value of a line keeps settings so.                           *)
LEMMA SettingRead ==
  ASSUME NEW c, KeptConfig(c), NEW s \in Settings, NEW v, Fits(s, v)
  PROVE  KeptConfig(ReadSetting(c, s, v))
<1>1. ASSUME NEW x, Keeps(s, x) PROVE KeptConfig([c EXCEPT ![s] = x])
  BY <1>1 DEF KeptConfig
<1>2. CASE s \in Texts /\ CutAtHash(v)[2] > 0
  <2> DEFINE x == CutAtHash(v)
  <2>1. IsText(x) /\ CutAtHash(x) = x
    BY <1>2, CutIs DEF Fits
  <2>2. ~(x[2] = 0)
    BY <1>2, <2>1 DEF IsText
  <2>3. Fits(s, x)
    BY <2>1, <2>2 DEF Fits
  <2>4. Keeps(s, x)
    BY <1>2, <2>3 DEF Keeps
  <2>5. ReadSetting(c, s, v) = [c EXCEPT ![s] = x]
    BY <1>2 DEF ReadSetting
  <2> QED
    BY <1>1, <2>4, <2>5
<1>3. CASE s \notin Texts /\ Accepted(s, v[1])
  BY <1>1, <1>3 DEF ReadSetting, Keeps
<1>4. CASE IF s \in Texts THEN ~(CutAtHash(v)[2] > 0) ELSE ~Accepted(s, v[1])
  BY <1>4 DEF ReadSetting
<1> QED
  BY <1>2, <1>3, <1>4

(* What PL_parse_alarm_spec takes, it repairs.                              *)
LEMMA AlarmKept ==
  ASSUME NEW a, IsAlarm(a), ~(a.days_of_week > 127 \/ a.alarm_state \notin {0, 1})
  PROVE  KeepsAlarm([a EXCEPT !.alarm_type = IF @ > 128 THEN 0 ELSE @,
                              !.sound_index = IF @ > 254 THEN 1 ELSE @])
<1> DEFINE b == [a EXCEPT !.alarm_type = IF @ > 128 THEN 0 ELSE @,
                          !.sound_index = IF @ > 254 THEN 1 ELSE @]
<1>1. DOMAIN b = DOMAIN a /\ b = [f \in DOMAIN b |-> b[f]]
  OBVIOUS
<1>2. /\ b.days_of_week = a.days_of_week /\ b.alarm_state = a.alarm_state
      /\ b.alarm_type = IF a.alarm_type > 128 THEN 0 ELSE a.alarm_type
      /\ b.sound_index = IF a.sound_index > 254 THEN 1 ELSE a.sound_index
  BY DEF IsAlarm
<1>3. ~(b.alarm_type > 128) /\ ~(b.sound_index > 254)
  BY <1>2
<1> HIDE DEF b
<1>4. KeepsAlarm(b)
  BY <1>1, <1>2, <1>3 DEF KeepsAlarm, IsAlarm
<1> QED
  BY <1>4 DEF b

(* So the list is one of such alarms.                                       *)
LEMMA AlarmsKept ==
  ASSUME NEW s, IsSequence(s), \A k \in 1 .. Len(s) : KeepsAlarm(s[k]), NEW a, IsAlarm(a)
  PROVE  \A k \in 1 .. Len(ReadAlarm(s, a)) : KeepsAlarm(ReadAlarm(s, a)[k])
<1> DEFINE b == [a EXCEPT !.alarm_type = IF @ > 128 THEN 0 ELSE @,
                          !.sound_index = IF @ > 254 THEN 1 ELSE @]
<1>1. CASE a.days_of_week > 127 \/ a.alarm_state \notin {0, 1}
  BY <1>1 DEF ReadAlarm
<1>2. CASE ~(a.days_of_week > 127 \/ a.alarm_state \notin {0, 1})
  <2>1. ReadAlarm(s, a) = Append(s, b)
    BY <1>2 DEF ReadAlarm
  <2>2. KeepsAlarm(b)
    BY <1>2, AlarmKept
  <2> HIDE DEF b
  <2>3. Len(s) \in Nat /\ Len(Append(s, b)) = Len(s) + 1
        /\ \A k \in 1 .. Len(s) + 1 : Append(s, b)[k] = IF k <= Len(s) THEN s[k] ELSE b
    BY SequenceAppended
  <2> QED
    BY <2>1, <2>2, <2>3
<1> QED
  BY <1>1, <1>2

(* So does reading any line that can be read.                               *)
LEMMA LineKept ==
  ASSUME NEW m, MemoryKept(m), NEW line, LineFits(line)
  PROVE  MemoryKept(ReadLine(m, line))
<1> DEFINE n == ReadLine(m, line)
<1>1. IsMemory(m) /\ KeptConfig(m.config) /\ IsSequence(m.alarms)
      /\ \A k \in 1 .. Len(m.alarms) : KeepsAlarm(m.alarms[k])
  BY DEF MemoryKept, KeptConfig, IsMemory
<1>2. ReadsOn(m, line, n)
  <2> HIDE DEF n
  <2>1. ReadsOn(m, line, ReadLine(m, line))
    BY <1>1, LineRead
  <2> QED
    BY <2>1 DEF n
<1> HIDE DEF n
<1>3. KeptConfig(n.config)
  <2>1. CASE line.attrib \in DOMAIN SettingOf
    <3>1. Fits(SettingOf[line.attrib], line.value) /\ SettingOf[line.attrib] \in Settings
      BY <2>1, SumsOfSettings DEF LineFits
    <3>2. KeptConfig(ReadSetting(m.config, SettingOf[line.attrib], line.value))
      BY <1>1, <3>1, SettingRead
    <3> QED
      BY <1>2, <2>1, <3>2 DEF ReadsOn
  <2>2. CASE line.attrib \notin DOMAIN SettingOf
    BY <1>1, <1>2, <2>2 DEF ReadsOn
  <2> QED
    BY <2>1, <2>2
<1>4. \A k \in 1 .. Len(n.alarms) : KeepsAlarm(n.alarms[k])
  <2>1. CASE line.attrib = 525
    <3>1. IsAlarm(line.value) /\ n.alarms = ReadAlarm(m.alarms, line.value)
      BY <1>2, <2>1 DEF ReadsOn, LineFits
    <3> QED
      BY <1>1, <3>1, AlarmsKept
  <2>2. CASE line.attrib # 525
    BY <1>1, <1>2, <2>2 DEF ReadsOn
  <2> QED
    BY <2>1, <2>2
<1>5. MemoryKept(n)
  BY <1>2, <1>3, <1>4 DEF ReadsOn, MemoryKept, KeptConfig
<1> QED
  BY <1>5 DEF n

(* What PL_init leaves is so.                                               *)
LEMMA InitialKept == MemoryKept(InitialMemory)
<1>1. IsMemory(InitialMemory) /\ InitialMemory.config = InitialConfig /\ InitialMemory.alarms = <<>>
  BY InitialMemoryIs DEF InitialMemory
<1>2. InitialConfig = [s \in Settings |-> InitialConfig[s]]
  BY DEF Settings, InitialConfig
<1>3. Len(<<>>) = 0 /\ \A k \in 1 .. 0 : FALSE
  OBVIOUS
<1> QED
  BY <1>1, <1>2, <1>3 DEF MemoryKept, Keeps

(* And so is what is read from a file, whole or not.                        *)
LEMMA FileKept ==
  ASSUME NEW f, IsFile(f), FileFits(f)
  PROVE  MemoryKept(ParseConfigBuffer(f))
<1>1. PICK n : LinesEnd(f, n)
  BY LinesAre
<1> DEFINE lines == LinesBeforeNul(f)
           R == Reading(lines)
           T == {i \in 0 .. n : MemoryKept(R[i])}
<1>2. /\ n \in Nat /\ n <= FileSize /\ FileSize \in Nat /\ Len(lines) = n
      /\ \A i \in 1 .. n : lines[i] = f[i] /\ LineFits(f[i])
  <2>1. FileSize \in Nat
    BY FileIsSequence
  <2>2. n \in 0 .. FileSize /\ Len(lines) = n /\ \A i \in 1 .. n : lines[i] = f[i]
    BY <1>1 DEF LinesEnd
  <2>3. \A i \in 1 .. FileSize : LineFits(f[i])
    BY DEF FileFits
  <2> HIDE DEF lines
  <2> QED
    BY <2>1, <2>2, <2>3
<1>3. ParseConfigBuffer(f) = R[n]
  BY <1>2 DEF ParseConfigBuffer
<1>4. R[0] = InitialMemory /\ \A i \in 1 .. n : R[i] = ReadLine(R[i - 1], lines[i])
  <2>1. ReadingFits(Reading(lines), lines, Len(lines))
    <3>1. Len(lines) \in Nat
      BY <1>2
    <3> HIDE DEF lines
    <3> QED
      BY <3>1, ReadingIsDefined
  <2> QED
    BY <1>2, <2>1 DEF ReadingFits
<1> HIDE DEF R, lines
<1>5. 0 \in T
  BY <1>2, <1>4, InitialKept
<1>6. ASSUME NEW i \in 0 .. n - 1, i \in T PROVE i + 1 \in T
  <2>1. i + 1 \in 1 .. n /\ (i + 1) - 1 = i
    BY <1>2
  <2>2. R[i + 1] = ReadLine(R[i], f[i + 1]) /\ LineFits(f[i + 1])
    BY <1>2, <1>4, <2>1
  <2>3. MemoryKept(ReadLine(R[i], f[i + 1]))
    BY <1>6, <2>2, LineKept
  <2> QED
    BY <1>2, <2>1, <2>2, <2>3
<1> HIDE DEF T
<1>7. \A i \in 0 .. n : i \in T
  BY <1>2, <1>5, <1>6, InductionUpTo
<1>8. n \in T
  BY <1>2, <1>7
<1> QED
  BY <1>3, <1>8 DEF T

(* Another value for a setting,                                             *)
LEMMA SettingKept ==
  ASSUME NEW m, MemoryKept(m), NEW s \in Settings, NEW v, Keeps(s, v)
  PROVE  MemoryKept([m EXCEPT !.config = [@ EXCEPT ![s] = v]])
<1> DEFINE c == [m.config EXCEPT ![s] = v]
           n == [m EXCEPT !.config = c]
<1>1. m = [f \in {"config", "alarms", "streams", "feeds", "sounds"} |-> m[f]]
  BY InitialMemoryIs DEF MemoryKept, IsMemory
<1>2. c = [r \in Settings |-> c[r]] /\ \A r \in Settings : Keeps(r, c[r])
  BY DEF MemoryKept
<1> HIDE DEF c
<1>3. /\ n = [f \in {"config", "alarms", "streams", "feeds", "sounds"} |-> n[f]]
      /\ n.config = c /\ n.alarms = m.alarms /\ n.streams = m.streams /\ n.feeds = m.feeds
      /\ n.sounds = m.sounds
  BY <1>1
<1> HIDE DEF n
<1>4. MemoryKept(n)
  BY <1>2, <1>3, InitialMemoryIs DEF MemoryKept, IsMemory
<1> QED
  BY <1>4 DEF n, c

(* or another alarm in the place of one.                                    *)
LEMMA AlarmChanged ==
  ASSUME NEW m, MemoryKept(m), NEW i \in DOMAIN m.alarms, NEW a, KeepsAlarm(a)
  PROVE  MemoryKept([m EXCEPT !.alarms = [@ EXCEPT ![i] = a]])
<1> DEFINE s == [m.alarms EXCEPT ![i] = a]
           n == [m EXCEPT !.alarms = s]
<1>1. m = [f \in {"config", "alarms", "streams", "feeds", "sounds"} |-> m[f]]
  BY InitialMemoryIs DEF MemoryKept, IsMemory
<1>2. IsSequence(m.alarms) /\ \A k \in 1 .. Len(m.alarms) : KeepsAlarm(m.alarms[k])
  BY DEF MemoryKept, IsMemory
<1>3. IsSequence(s)
  BY <1>2, SequenceReplaced
<1>4. DOMAIN s = DOMAIN m.alarms /\ \A k \in DOMAIN s : s[k] = IF k = i THEN a ELSE m.alarms[k]
  OBVIOUS
<1> HIDE DEF s
<1>5. DOMAIN s = 1 .. Len(s) /\ DOMAIN m.alarms = 1 .. Len(m.alarms)
  BY <1>2, <1>3, LenProperties DEF IsSequence
<1>6. \A k \in 1 .. Len(s) : KeepsAlarm(s[k])
  BY <1>2, <1>4, <1>5
<1>7. /\ n = [f \in {"config", "alarms", "streams", "feeds", "sounds"} |-> n[f]]
      /\ n.config = m.config /\ n.alarms = s /\ n.streams = m.streams /\ n.feeds = m.feeds
      /\ n.sounds = m.sounds
  BY <1>1
<1> HIDE DEF n
<1>8. MemoryKept(n)
  BY <1>3, <1>6, <1>7, InitialMemoryIs DEF MemoryKept, IsMemory
<1> QED
  BY <1>8 DEF n, s

(* And if both can be read, so can it.                                      *)
LEMMA HalvesFit ==
  ASSUME NEW f, NEW g, FileFits(f), FileFits(g), NEW h, Halves(f, g, h)
  PROVE  FileFits(h)
<1>1. BlockLines \in Nat /\ FileSize = 2 * BlockLines
  BY MemoryAssumption DEF FileSize
<1> SUFFICES ASSUME NEW i \in 1 .. FileSize PROVE LineFits(h[i])
  BY DEF FileFits
<1>2. CASE i \in 1 .. BlockLines
  BY <1>2 DEF Halves, FileFits
<1>3. CASE i \in BlockLines + 1 .. FileSize
  BY <1>3 DEF Halves, FileFits
<1> QED
  BY <1>1, <1>2, <1>3

-----------------------------------------------------------------------------
(* The lines of what was saved.                                             *)

(* The sums of the settings are not those of the lists, nor NUL.            *)
LEMMA SumsOfLines == \A k \in 1 .. 39 : SumsWritten[k] \notin {0, 652, 344, 1173, 525}
BY SMTT(60) DEF SumsWritten

(* What the line of a setting is read as: but for one, as that setting.       *)
SettingsLine(config, k, line) ==
  /\ line.value = config[Order[k]]
  /\ line.attrib \notin {0, 652, 344, 1173, 525}
  /\ k = 26 => line.attrib \notin DOMAIN SettingOf
  /\ k # 26 => line.attrib \in DOMAIN SettingOf /\ SettingOf[line.attrib] = Order[k]

(* Every line that SettingLines adds is one.                                *)
LEMMA SettingLineIs ==
  ASSUME NEW config, NEW k \in 1 .. 39
  PROVE  SettingsLine(config, k, SettingLine(config, k))
<1> DEFINE line == SettingLine(config, k)
<1>1. line.attrib = SumsWritten[k] /\ line.value = config[Order[k]]
  BY DEF SettingLine
<1> HIDE DEF line
<1>2. k # 26 => line.attrib \in DOMAIN SettingOf /\ SettingOf[line.attrib] = Order[k]
  BY <1>1, SumsAgree, SettingOfIs
<1>3. k = 26 => line.attrib \notin DOMAIN SettingOf
  BY <1>1, Stray, SumsOfSettings
<1> QED
  BY <1>1, <1>2, <1>3, SumsOfLines DEF line, SettingsLine

(* What is on line i.                                                       *)
LEMMA LineAt ==
  ASSUME NEW m, IsMemory(m), NEW i \in 1 .. Len(BuildConfig(m))
  PROVE  LET line == BuildConfig(m)[i]
         IN \/ i <= m.streams /\ line.attrib = 652
            \/ m.streams < i /\ i <= AfterFeeds(m) /\ line.attrib = 344
            \/ AfterFeeds(m) < i /\ i <= AfterSounds(m) /\ line.attrib = 1173
            \/ AfterSounds(m) < i /\ i <= AfterAlarms(m) /\ line.attrib = 525
                 /\ i - AfterSounds(m) \in 1 .. Len(m.alarms) /\ line.value = m.alarms[i - AfterSounds(m)]
            \/ AfterAlarms(m) < i /\ i - AfterAlarms(m) \in 1 .. Len(SettingLines(m.config))
                 /\ line = SettingLines(m.config)[i - AfterAlarms(m)]
<1> DEFINE line == BuildConfig(m)[i]
<1>1. i \in Nat /\ i <= AfterAlarms(m) + Len(SettingLines(m.config))
  BY Places
<1>2. /\ i <= m.streams => line.attrib = 652
      /\ m.streams < i /\ i <= AfterFeeds(m) => line.attrib = 344
      /\ AfterFeeds(m) < i /\ i <= AfterSounds(m) => line.attrib = 1173
      /\ AfterSounds(m) < i /\ i <= AfterAlarms(m) =>
           line.attrib = 525 /\ line.value = m.alarms[i - AfterSounds(m)]
      /\ AfterAlarms(m) < i => line = SettingLines(m.config)[i - AfterAlarms(m)]
  BY BuiltIs DEF Built
<1> HIDE DEF line
<1>3. AfterSounds(m) < i /\ i <= AfterAlarms(m) => i - AfterSounds(m) \in 1 .. Len(m.alarms)
  BY <1>1, Places, Between
<1>4. AfterAlarms(m) < i => i - AfterAlarms(m) \in 1 .. Len(SettingLines(m.config))
  BY <1>1, Places, Between
<1>5. \/ i <= m.streams
      \/ m.streams < i /\ i <= AfterFeeds(m)
      \/ AfterFeeds(m) < i /\ i <= AfterSounds(m)
      \/ AfterSounds(m) < i /\ i <= AfterAlarms(m)
      \/ AfterAlarms(m) < i
  BY <1>1, Places
<1> QED
  BY <1>2, <1>3, <1>4, <1>5 DEF line

(* What a line behind the lists is.                                         *)
LEMMA BehindLists ==
  ASSUME NEW m, IsMemory(m), NEW i \in 1 .. Len(BuildConfig(m)), AfterAlarms(m) < i
  PROVE  \E k \in 1 .. 39 : /\ IsWritten(Order[k], m.config[Order[k]])
                           /\ BuildConfig(m)[i] = SettingLine(m.config, k)
<1>1. i - AfterAlarms(m) \in 1 .. Len(SettingLines(m.config))
      /\ BuildConfig(m)[i] = SettingLines(m.config)[i - AfterAlarms(m)]
  <2>1. i \in Nat /\ i <= AfterAlarms(m) + Len(SettingLines(m.config))
    BY Places
  <2>2. i - AfterAlarms(m) \in 1 .. Len(SettingLines(m.config))
    BY <2>1, Places, Between
  <2> QED
    BY <2>2, BuiltIs DEF Built
<1>2. Len(Order) = 39
  BY DEF Order
<1>3. LinesOf(m.config, 39, SettingLines(m.config))
  BY <1>2, SettingLinesAre
<1> QED
  BY <1>1, <1>3 DEF LinesOf

(* Line i is one of the n lines behind the first lo, and how many of them      *)
(* there are among the first i.                                              *)
Within(i, lo, n) == lo < i /\ i <= lo + n
Passed(i, lo, n) == IF i <= lo THEN 0 ELSE IF i <= lo + n THEN i - lo ELSE n

(* The next line is one of them or it is not.                               *)
LEMMA OnePasses ==
  ASSUME NEW i \in Nat, NEW lo \in Nat, NEW n \in Nat
  PROVE  Passed(i + 1, lo, n) = IF Within(i + 1, lo, n) THEN Passed(i, lo, n) + 1 ELSE Passed(i, lo, n)
BY DEF Passed, Within

(* Line i is in part n of a file with lists of these lengths.                *)
InPart(i, n, a, b, c, d) ==
  /\ Within(i, 0, a) <=> n = 1
  /\ Within(i, a, b) <=> n = 2
  /\ Within(i, a + b, c) <=> n = 3
  /\ Within(i, a + b + c, d) <=> n = 4

(* Where a line is, says in which part it is.                               *)
LEMMA InOnePart ==
  ASSUME NEW a \in Nat, NEW b \in Nat, NEW c \in Nat, NEW d \in Nat, NEW i \in Nat, i # 0
  PROVE  /\ i <= a => InPart(i, 1, a, b, c, d)
         /\ a < i /\ i <= a + b => InPart(i, 2, a, b, c, d)
         /\ a + b < i /\ i <= a + b + c => InPart(i, 3, a, b, c, d)
         /\ a + b + c < i /\ i <= a + b + c + d => InPart(i, 4, a, b, c, d)
         /\ a + b + c + d < i => InPart(i, 5, a, b, c, d)
<1>1. i <= a => InPart(i, 1, a, b, c, d)
  BY DEF Within, InPart
<1>2. a < i /\ i <= a + b => InPart(i, 2, a, b, c, d)
  BY DEF Within, InPart
<1>3. a + b < i /\ i <= a + b + c => InPart(i, 3, a, b, c, d)
  BY DEF Within, InPart
<1>4. a + b + c < i /\ i <= a + b + c + d => InPart(i, 4, a, b, c, d)
  BY DEF Within, InPart
<1>5. a + b + c + d < i => InPart(i, 5, a, b, c, d)
  BY DEF Within, InPart
<1> QED
  BY <1>1, <1>2, <1>3, <1>4, <1>5

(* How many lines of each kind a line adds.                                 *)
Kinds(m, i, attrib) ==
  /\ attrib = 652 <=> Within(i, 0, m.streams)
  /\ attrib = 344 <=> Within(i, m.streams, m.feeds)
  /\ attrib = 1173 <=> Within(i, AfterFeeds(m), m.sounds)
  /\ attrib = 525 <=> Within(i, AfterSounds(m), Len(m.alarms))
  /\ attrib # 0

(* What a line is, says where it is.                                        *)
LEMMA KindOf ==
  ASSUME NEW m, IsMemory(m), NEW i \in Nat, i # 0, NEW attrib,
         \/ i <= m.streams /\ attrib = 652
         \/ m.streams < i /\ i <= AfterFeeds(m) /\ attrib = 344
         \/ AfterFeeds(m) < i /\ i <= AfterSounds(m) /\ attrib = 1173
         \/ AfterSounds(m) < i /\ i <= AfterAlarms(m) /\ attrib = 525
         \/ AfterAlarms(m) < i /\ attrib \notin {0, 652, 344, 1173, 525}
  PROVE  Kinds(m, i, attrib)
<1> DEFINE F(n) == InPart(i, n, m.streams, m.feeds, m.sounds, Len(m.alarms))
<1>1. /\ m.streams \in Nat /\ m.feeds \in Nat /\ m.sounds \in Nat /\ Len(m.alarms) \in Nat
  BY Places
<1>2. /\ i <= m.streams => F(1)
      /\ m.streams < i /\ i <= AfterFeeds(m) => F(2)
      /\ AfterFeeds(m) < i /\ i <= AfterSounds(m) => F(3)
      /\ AfterSounds(m) < i /\ i <= AfterAlarms(m) => F(4)
      /\ AfterAlarms(m) < i => F(5)
  BY <1>1, InOnePart, Zenon DEF AfterFeeds, AfterSounds, AfterAlarms
<1>3. ASSUME NEW n, F(n), attrib = 652 <=> n = 1, attrib = 344 <=> n = 2, attrib = 1173 <=> n = 3,
             attrib = 525 <=> n = 4, attrib # 0
      PROVE  Kinds(m, i, attrib)
  <2>1. /\ Within(i, 0, m.streams) <=> n = 1
        /\ Within(i, m.streams, m.feeds) <=> n = 2
        /\ Within(i, AfterFeeds(m), m.sounds) <=> n = 3
        /\ Within(i, AfterSounds(m), Len(m.alarms)) <=> n = 4
    BY <1>3, Zenon DEF InPart, AfterFeeds, AfterSounds
  <2> QED
    BY <1>3, <2>1 DEF Kinds
<1> HIDE DEF F
<1>4. PICK n \in 1 .. 5 : /\ F(n) /\ (attrib = 652 <=> n = 1) /\ (attrib = 344 <=> n = 2)
                          /\ (attrib = 1173 <=> n = 3) /\ (attrib = 525 <=> n = 4) /\ attrib # 0
  <2>1. CASE i <= m.streams /\ attrib = 652
    BY <1>2, <2>1
  <2>2. CASE m.streams < i /\ i <= AfterFeeds(m) /\ attrib = 344
    BY <1>2, <2>2
  <2>3. CASE AfterFeeds(m) < i /\ i <= AfterSounds(m) /\ attrib = 1173
    BY <1>2, <2>3
  <2>4. CASE AfterSounds(m) < i /\ i <= AfterAlarms(m) /\ attrib = 525
    BY <1>2, <2>4
  <2>5. CASE AfterAlarms(m) < i /\ attrib \notin {0, 652, 344, 1173, 525}
    BY <1>2, <2>5
  <2> QED
    BY <2>1, <2>2, <2>3, <2>4, <2>5
<1> QED
  BY <1>3, <1>4

(* So every line adds to the list it was written for.                       *)
LEMMA LineCounts ==
  ASSUME NEW m, IsMemory(m), NEW i \in 1 .. Len(BuildConfig(m))
  PROVE  LET line == BuildConfig(m)[i]
         IN /\ Kinds(m, i, line.attrib)
            /\ line.attrib = 525 => i - AfterSounds(m) \in 1 .. Len(m.alarms)
                                      /\ line.value = m.alarms[i - AfterSounds(m)]
            /\ line.attrib \notin {0, 652, 344, 1173, 525} =>
                 \E k \in 1 .. 39 : line = SettingLine(m.config, k)
<1> DEFINE line == BuildConfig(m)[i]
<1>1. i \in Nat /\ i # 0
  BY Places
<1>2. \/ i <= m.streams /\ line.attrib = 652
      \/ m.streams < i /\ i <= AfterFeeds(m) /\ line.attrib = 344
      \/ AfterFeeds(m) < i /\ i <= AfterSounds(m) /\ line.attrib = 1173
      \/ AfterSounds(m) < i /\ i <= AfterAlarms(m) /\ line.attrib = 525
           /\ i - AfterSounds(m) \in 1 .. Len(m.alarms) /\ line.value = m.alarms[i - AfterSounds(m)]
      \/ AfterAlarms(m) < i
  BY LineAt
<1>3. AfterAlarms(m) < i => \E k \in 1 .. 39 : line = SettingLine(m.config, k)
  BY BehindLists
<1> HIDE DEF line
<1>4. AfterAlarms(m) < i => line.attrib \notin {0, 652, 344, 1173, 525}
  <2> SUFFICES ASSUME AfterAlarms(m) < i PROVE line.attrib \notin {0, 652, 344, 1173, 525}
    OBVIOUS
  <2>1. PICK k \in 1 .. 39 : line = SettingLine(m.config, k)
    BY <1>3
  <2> HIDE DEF line
  <2>2. SettingLine(m.config, k).attrib \notin {0, 652, 344, 1173, 525}
    <3>1. SettingsLine(m.config, k, SettingLine(m.config, k))
      BY SettingLineIs
    <3> HIDE DEF line
    <3> QED
      BY <3>1 DEF SettingsLine
  <2> QED
    BY <2>1, <2>2
<1>5. Kinds(m, i, line.attrib)
  BY <1>1, <1>2, <1>4, KindOf
<1>6. /\ line.attrib = 525 => i - AfterSounds(m) \in 1 .. Len(m.alarms)
                               /\ line.value = m.alarms[i - AfterSounds(m)]
      /\ line.attrib \notin {0, 652, 344, 1173, 525} =>
           \E k \in 1 .. 39 : line = SettingLine(m.config, k)
  <2>1. line.attrib = 525 => i - AfterSounds(m) \in 1 .. Len(m.alarms)
                              /\ line.value = m.alarms[i - AfterSounds(m)]
    BY <1>2, <1>4
  <2>2. line.attrib \notin {0, 652, 344, 1173, 525} => AfterAlarms(m) < i
    BY <1>2
  <2> HIDE DEF line
  <2>3. line.attrib \notin {0, 652, 344, 1173, 525} => \E k \in 1 .. 39 : line = SettingLine(m.config, k)
    BY <1>3, <2>2
  <2> QED
    BY <2>1, <2>3
<1> QED
  BY <1>5, <1>6 DEF line

(* The line is read as that setting.                                        *)
Sets(line, s) == line.attrib \in DOMAIN SettingOf /\ SettingOf[line.attrib] = s

(* A line of the file that is read as a setting has its value, and was to   *)
(* be written.                                                              *)
LEMMA LineSets ==
  ASSUME NEW m, IsMemory(m), NEW i \in 1 .. Len(BuildConfig(m)), NEW s, Sets(BuildConfig(m)[i], s)
  PROVE  s \in Settings /\ IsWritten(s, m.config[s]) /\ BuildConfig(m)[i].value = m.config[s]
<1> DEFINE line == BuildConfig(m)[i]
<1>1. line.attrib \notin {652, 344, 1173, 525}
  BY ListsAreNoSettings DEF Sets
<1>2. AfterAlarms(m) < i
  <2>1. \/ i <= m.streams /\ line.attrib = 652
        \/ m.streams < i /\ i <= AfterFeeds(m) /\ line.attrib = 344
        \/ AfterFeeds(m) < i /\ i <= AfterSounds(m) /\ line.attrib = 1173
        \/ AfterSounds(m) < i /\ i <= AfterAlarms(m) /\ line.attrib = 525
             /\ i - AfterSounds(m) \in 1 .. Len(m.alarms) /\ line.value = m.alarms[i - AfterSounds(m)]
        \/ AfterAlarms(m) < i
    BY LineAt
  <2> HIDE DEF line
  <2> QED
    BY <1>1, <2>1
<1>3. PICK k \in 1 .. 39 : IsWritten(Order[k], m.config[Order[k]]) /\ line = SettingLine(m.config, k)
  BY <1>2, BehindLists
<1>4. SettingsLine(m.config, k, line)
  BY <1>3, SettingLineIs
<1>5. s = Order[k]
  BY <1>4 DEF SettingsLine, Sets
<1>6. line.value = m.config[s]
  BY <1>4, <1>5 DEF SettingsLine
<1> QED
  BY <1>3, <1>5, <1>6, OrderIn

(* And every setting that is to be written and read has a line.              *)
LEMMA EverySettingHasALine ==
  ASSUME NEW m, IsMemory(m), NEW s \in Settings, s # "HW_volume_L", IsWritten(s, m.config[s])
  PROVE  \E i \in 1 .. Len(BuildConfig(m)) : Sets(BuildConfig(m)[i], s)
<1> DEFINE lines == SettingLines(m.config)
<1>1. PICK k \in 1 .. 39 : Order[k] = s
  BY OrderAll
<1>2. k # 26
  BY <1>1, Stray
<1>3. LinesOf(m.config, 39, lines)
  <2>1. Len(Order) = 39
    BY DEF Order
  <2> QED
    BY <2>1, SettingLinesAre
<1>4. PICK j \in 1 .. Len(lines) : lines[j] = SettingLine(m.config, k)
  BY <1>1, <1>3 DEF LinesOf
<1>5. Sets(lines[j], s)
  <2>1. SettingsLine(m.config, k, SettingLine(m.config, k))
    BY SettingLineIs
  <2> HIDE DEF lines
  <2> QED
    BY <1>1, <1>2, <1>4, <2>1 DEF SettingsLine, Sets
<1> HIDE DEF lines
<1> DEFINE i == AfterAlarms(m) + j
<1>6. /\ AfterAlarms(m) \in Nat /\ Len(lines) \in Nat /\ Len(BuildConfig(m)) = AfterAlarms(m) + Len(lines)
  BY Places DEF lines
<1>7. i \in 1 .. Len(BuildConfig(m)) /\ AfterAlarms(m) < i /\ i - AfterAlarms(m) = j
  BY <1>6
<1> HIDE DEF i
<1>8. BuildConfig(m)[i] = lines[i - AfterAlarms(m)]
  BY <1>7, BuiltIs DEF Built, lines
<1> QED
  BY <1>5, <1>7, <1>8

-----------------------------------------------------------------------------
(* Reading them again.                                                      *)

(* An alarm that was kept is read as it is.                                 *)
LEMMA AlarmReadsItself ==
  ASSUME NEW s, NEW a, KeepsAlarm(a)
  PROVE  ReadAlarm(s, a) = Append(s, a)
<1> DEFINE b == [a EXCEPT !.alarm_type = IF @ > 128 THEN 0 ELSE @,
                          !.sound_index = IF @ > 254 THEN 1 ELSE @]
<1>1. b = a
  <2>1. b = [a EXCEPT !.alarm_type = a.alarm_type, !.sound_index = a.sound_index]
    BY DEF KeepsAlarm
  <2> QED
    BY <2>1 DEF KeepsAlarm
<1> QED
  BY <1>1 DEF ReadAlarm, KeepsAlarm

(* What the lists are after i lines.                                         *)
ListsSoFar(m, i, x) ==
  /\ x.streams = Passed(i, 0, m.streams)
  /\ x.feeds = Passed(i, m.streams, m.feeds)
  /\ x.sounds = Passed(i, AfterFeeds(m), m.sounds)
  /\ Len(x.alarms) = Passed(i, AfterSounds(m), Len(m.alarms))
  /\ \A k \in 1 .. Len(x.alarms) : x.alarms[k] = m.alarms[k]

(* One line further, and the lists are so again.                            *)
LEMMA ListsRead ==
  ASSUME NEW m, MemoryKept(m), NEW i \in 0 .. Len(BuildConfig(m)) - 1, NEW x, IsMemory(x),
         ListsSoFar(m, i, x), NEW y, ReadsOn(x, BuildConfig(m)[i + 1], y)
  PROVE  ListsSoFar(m, i + 1, y)
<1> DEFINE line == BuildConfig(m)[i + 1]
<1>1. IsMemory(m) /\ \A k \in 1 .. Len(m.alarms) : KeepsAlarm(m.alarms[k])
  BY DEF MemoryKept
<1>2. i \in Nat /\ i + 1 \in 1 .. Len(BuildConfig(m))
  BY <1>1, Places
<1>3. /\ m.streams \in Nat /\ m.feeds \in Nat /\ m.sounds \in Nat /\ Len(m.alarms) \in Nat
      /\ AfterFeeds(m) \in Nat /\ AfterSounds(m) \in Nat /\ 0 \in Nat
  BY <1>1, Places
<1>4. /\ y.streams = IF line.attrib = 652 THEN x.streams + 1 ELSE x.streams
      /\ y.feeds = IF line.attrib = 344 THEN x.feeds + 1 ELSE x.feeds
      /\ y.sounds = IF line.attrib = 1173 THEN x.sounds + 1 ELSE x.sounds
      /\ y.alarms = IF line.attrib = 525 THEN ReadAlarm(x.alarms, line.value) ELSE x.alarms
  BY DEF ReadsOn
<1>5. /\ line.attrib = 652 <=> Within(i + 1, 0, m.streams)
      /\ line.attrib = 344 <=> Within(i + 1, m.streams, m.feeds)
      /\ line.attrib = 1173 <=> Within(i + 1, AfterFeeds(m), m.sounds)
      /\ line.attrib = 525 <=> Within(i + 1, AfterSounds(m), Len(m.alarms))
      /\ line.attrib = 525 => (i + 1) - AfterSounds(m) \in 1 .. Len(m.alarms)
                                /\ line.value = m.alarms[(i + 1) - AfterSounds(m)]
  BY <1>1, <1>2, LineCounts DEF Kinds
<1> HIDE DEF line
<1>10. /\ Passed(i + 1, 0, m.streams) = IF Within(i + 1, 0, m.streams) THEN Passed(i, 0, m.streams) + 1 ELSE Passed(i, 0, m.streams)
       /\ Passed(i + 1, m.streams, m.feeds) =
            IF Within(i + 1, m.streams, m.feeds) THEN Passed(i, m.streams, m.feeds) + 1 ELSE Passed(i, m.streams, m.feeds)
       /\ Passed(i + 1, AfterFeeds(m), m.sounds) =
            IF Within(i + 1, AfterFeeds(m), m.sounds)
            THEN Passed(i, AfterFeeds(m), m.sounds) + 1 ELSE Passed(i, AfterFeeds(m), m.sounds)
       /\ Passed(i + 1, AfterSounds(m), Len(m.alarms)) =
            IF Within(i + 1, AfterSounds(m), Len(m.alarms))
            THEN Passed(i, AfterSounds(m), Len(m.alarms)) + 1 ELSE Passed(i, AfterSounds(m), Len(m.alarms))
  BY <1>2, <1>3, OnePasses, Zenon
<1>6. y.streams = Passed(i + 1, 0, m.streams)
  BY <1>4, <1>5, <1>10 DEF ListsSoFar
<1>7. y.feeds = Passed(i + 1, m.streams, m.feeds)
  BY <1>4, <1>5, <1>10 DEF ListsSoFar
<1>8. y.sounds = Passed(i + 1, AfterFeeds(m), m.sounds)
  BY <1>4, <1>5, <1>10 DEF ListsSoFar
<1>9. /\ Len(y.alarms) = Passed(i + 1, AfterSounds(m), Len(m.alarms))
      /\ \A n \in 1 .. Len(y.alarms) : y.alarms[n] = m.alarms[n]
  <2>1. CASE line.attrib = 525
    <3> DEFINE k == (i + 1) - AfterSounds(m)
               a == m.alarms[k]
    <3>1. k \in 1 .. Len(m.alarms) /\ KeepsAlarm(a)
      BY <1>1, <1>5, <2>1
    <3>2. y.alarms = Append(x.alarms, a)
      BY <1>4, <1>5, <2>1, <3>1, AlarmReadsItself
    <3>3. Len(x.alarms) = k - 1 /\ k - 1 \in Nat /\ \A n \in 1 .. k - 1 : x.alarms[n] = m.alarms[n]
      <4>1. Passed(i, AfterSounds(m), Len(m.alarms)) = k - 1
        BY <1>2, <1>3, <3>1 DEF Passed
      <4>2. k - 1 \in Nat
        BY <1>3, <3>1
      <4> QED
        BY <4>1, <4>2 DEF ListsSoFar
    <3>4. /\ Len(Append(x.alarms, a)) = Len(x.alarms) + 1
          /\ \A n \in 1 .. Len(x.alarms) + 1 : Append(x.alarms, a)[n] = IF n <= Len(x.alarms) THEN x.alarms[n] ELSE a
      BY SequenceAppended DEF IsMemory
    <3>5. Passed(i + 1, AfterSounds(m), Len(m.alarms)) = k
      BY <1>2, <1>3, <3>1 DEF Passed
    <3>6. k \in Nat /\ k = (k - 1) + 1
      BY <1>3, <3>1
    <3>7. a = m.alarms[k]
      OBVIOUS
    <3> HIDE DEF k, a
    <3>8. Len(y.alarms) = k
      BY <3>2, <3>3, <3>4, <3>6
    <3>9. ASSUME NEW n \in 1 .. k PROVE y.alarms[n] = m.alarms[n]
      <4>1. y.alarms[n] = IF n <= k - 1 THEN x.alarms[n] ELSE a
        BY <3>2, <3>3, <3>4, <3>6
      <4>2. CASE n <= k - 1
        BY <3>3, <3>6, <4>1, <4>2
      <4>3. CASE n = k
        BY <3>6, <3>7, <4>1, <4>3
      <4> QED
        BY <3>6, <4>2, <4>3
    <3> QED
      BY <3>5, <3>8, <3>9
  <2>2. CASE line.attrib # 525
    BY <1>4, <1>5, <1>10, <2>2 DEF ListsSoFar
  <2> QED
    BY <2>1, <2>2
<1> QED
  BY <1>6, <1>7, <1>8, <1>9 DEF ListsSoFar

(* What the settings are after i lines: each as at first or as it was, and    *)
(* as it was once its line is read.                                          *)
ConfigSoFar(m, i, c) ==
  /\ c = [s \in Settings |-> c[s]]
  /\ \A s \in Settings : ReadBack(s, m.config[s]) =>
       /\ c[s] \in {InitialConfig[s], m.config[s]}
       /\ (\E j \in 1 .. i : Sets(BuildConfig(m)[j], s)) => c[s] = m.config[s]

(* Reading a setting leaves the others alone.                               *)
LEMMA OthersStay ==
  ASSUME NEW c, c = [s \in Settings |-> c[s]], NEW s \in Settings, NEW v
  PROVE  LET d == ReadSetting(c, s, v)
         IN d = [r \in Settings |-> d[r]] /\ \A r \in Settings : r # s => d[r] = c[r]
<1> DEFINE d == ReadSetting(c, s, v)
<1>1. \E x : d \in {c, [c EXCEPT ![s] = x]}
  BY DEF ReadSetting
<1>2. PICK x : d \in {c, [c EXCEPT ![s] = x]}
  BY <1>1
<1> HIDE DEF d
<1>3. d = [r \in Settings |-> d[r]] /\ \A r \in Settings : r # s => d[r] = c[r]
  BY <1>2
<1> QED
  BY <1>3 DEF d

(* What a line may do to the settings.                                      *)
ReadsSettings(m, line, c, d) ==
  /\ d = [s \in Settings |-> d[s]]
  /\ \A s \in Settings : ReadBack(s, m.config[s]) =>
       IF Sets(line, s) THEN d[s] = m.config[s] ELSE d[s] = c[s]

(* One line further, and so are the settings.                               *)
LEMMA ConfigRead ==
  ASSUME NEW m, MemoryKept(m), NEW i \in 0 .. Len(BuildConfig(m)) - 1, NEW x,
         ConfigSoFar(m, i, x.config), NEW y, ReadsOn(x, BuildConfig(m)[i + 1], y)
  PROVE  ConfigSoFar(m, i + 1, y.config)
<1> DEFINE line == BuildConfig(m)[i + 1]
           c == x.config
           d == y.config
<1>1. IsMemory(m) /\ \A s \in Settings : Keeps(s, m.config[s])
  BY DEF MemoryKept
<1>2. Len(BuildConfig(m)) \in Nat
  BY <1>1, Places
<1>3. i \in Nat /\ i + 1 \in 1 .. Len(BuildConfig(m)) /\ \A j \in 1 .. i + 1 : j \in 1 .. i \/ j = i + 1
  BY <1>2
<1>4. \A s : Sets(line, s) => s \in Settings /\ IsWritten(s, m.config[s]) /\ line.value = m.config[s]
  BY <1>1, <1>3, LineSets
<1>5. d = IF line.attrib \in DOMAIN SettingOf THEN ReadSetting(c, SettingOf[line.attrib], line.value) ELSE c
  BY DEF ReadsOn
<1>6. ConfigSoFar(m, i, c)
  OBVIOUS
<1> SUFFICES ConfigSoFar(m, i + 1, d)
  OBVIOUS
<1> HIDE DEF c, d, line
<1>7. c = [s \in Settings |-> c[s]]
  BY <1>6 DEF ConfigSoFar
<1>8. ASSUME ReadsSettings(m, line, c, d)
      PROVE  ConfigSoFar(m, i + 1, d)
  <2> SUFFICES ASSUME NEW s \in Settings, ReadBack(s, m.config[s])
               PROVE  /\ d[s] \in {InitialConfig[s], m.config[s]}
                      /\ (\E j \in 1 .. i + 1 : Sets(BuildConfig(m)[j], s)) => d[s] = m.config[s]
    BY <1>8 DEF ReadsSettings, ConfigSoFar
  <2>1. CASE Sets(line, s)
    BY <1>8, <2>1 DEF ReadsSettings
  <2>2. CASE ~Sets(line, s)
    <3>1. d[s] = c[s]
      BY <1>8, <2>2 DEF ReadsSettings
    <3>2. c[s] \in {InitialConfig[s], m.config[s]}
      BY <1>6 DEF ConfigSoFar
    <3>3. ASSUME NEW j \in 1 .. i + 1, Sets(BuildConfig(m)[j], s) PROVE c[s] = m.config[s]
      <4>1. j # i + 1
        BY <2>2, <3>3 DEF line
      <4>2. j \in 1 .. i
        BY <1>3, <4>1
      <4> QED
        BY <1>6, <3>3, <4>2 DEF ConfigSoFar
    <3> QED
      BY <3>1, <3>2, <3>3
  <2> QED
    BY <2>1, <2>2
<1>9. CASE line.attrib \notin DOMAIN SettingOf
  <2>1. d = c /\ \A s \in Settings : ~Sets(line, s)
    BY <1>5, <1>9 DEF Sets
  <2>2. ReadsSettings(m, line, c, d)
    BY <1>7, <2>1 DEF ReadsSettings
  <2> QED
    BY <1>8, <2>2
<1>10. CASE line.attrib \in DOMAIN SettingOf
  <2> DEFINE r == SettingOf[line.attrib]
  <2>1. Sets(line, r) /\ \A s : Sets(line, s) => s = r
    BY <1>10 DEF Sets
  <2>2. r \in Settings /\ IsWritten(r, m.config[r]) /\ line.value = m.config[r]
    BY <1>4, <2>1
  <2>3. d = ReadSetting(c, r, m.config[r])
    BY <1>5, <1>10, <2>2
  <2> HIDE DEF r
  <2>4. d = [s \in Settings |-> d[s]] /\ \A s \in Settings : s # r => d[s] = c[s]
    BY <1>7, <2>2, <2>3, OthersStay
  <2>5. ReadBack(r, m.config[r]) => d[r] = m.config[r]
    <3> SUFFICES ASSUME ReadBack(r, m.config[r]) PROVE d[r] = m.config[r]
      OBVIOUS
    <3>1. ReadSetting(c, r, m.config[r]) = [c EXCEPT ![r] = m.config[r]]
      BY <1>1, <2>2, ReadsItself
    <3> QED
      BY <1>7, <2>2, <2>3, <3>1
  <2> QED
    <3>1. ReadsSettings(m, line, c, d)
      BY <2>1, <2>2, <2>4, <2>5 DEF ReadsSettings
    <3> QED
      BY <1>8, <3>1
<1> QED
  BY <1>9, <1>10

(* What was read after i lines of what PL_build_config wrote.                *)
SoFar(m, i, x) == IsMemory(x) /\ ListsSoFar(m, i, x) /\ ConfigSoFar(m, i, x.config)

(* Before the first line.                                                   *)
LEMMA NothingSoFar ==
  ASSUME NEW m, IsMemory(m)
  PROVE  SoFar(m, 0, InitialMemory)
<1>1. /\ InitialMemory.streams = 0 /\ InitialMemory.feeds = 0 /\ InitialMemory.sounds = 0
      /\ InitialMemory.alarms = <<>> /\ InitialMemory.config = InitialConfig
  BY DEF InitialMemory
<1>2. \A lo, n \in Nat : Passed(0, lo, n) = 0
  BY DEF Passed
<1>3. Len(<<>>) = 0 /\ \A k \in 1 .. 0 : FALSE
  OBVIOUS
<1>4. ListsSoFar(m, 0, InitialMemory)
  <2>1. /\ Passed(0, 0, m.streams) = 0 /\ Passed(0, m.streams, m.feeds) = 0
        /\ Passed(0, AfterFeeds(m), m.sounds) = 0 /\ Passed(0, AfterSounds(m), Len(m.alarms)) = 0
    <3>1. 0 \in Nat
      OBVIOUS
    <3> QED
      BY <1>2, <3>1, Places, Zenon
  <2> QED
    BY <1>1, <1>3, <2>1 DEF ListsSoFar
<1>5. InitialConfig = [s \in Settings |-> InitialConfig[s]]
  BY DEF Settings, InitialConfig
<1>6. ConfigSoFar(m, 0, InitialConfig)
  BY <1>3, <1>5 DEF ConfigSoFar
<1> QED
  BY <1>1, <1>4, <1>6, InitialMemoryIs DEF SoFar

(* And one line further.                                                    *)
LEMMA OneLineFurther ==
  ASSUME NEW m, MemoryKept(m), NEW i \in 0 .. Len(BuildConfig(m)) - 1, NEW x, SoFar(m, i, x)
  PROVE  SoFar(m, i + 1, ReadLine(x, BuildConfig(m)[i + 1]))
<1> DEFINE y == ReadLine(x, BuildConfig(m)[i + 1])
<1>1. ReadsOn(x, BuildConfig(m)[i + 1], y)
  BY LineRead DEF SoFar
<1> HIDE DEF y
<1>2. IsMemory(y)
  BY <1>1 DEF ReadsOn
<1>3. ListsSoFar(m, i + 1, y)
  BY <1>1, ListsRead DEF SoFar
<1>4. ConfigSoFar(m, i + 1, y.config)
  BY <1>1, ConfigRead DEF SoFar
<1>5. SoFar(m, i + 1, y)
  BY <1>2, <1>3, <1>4 DEF SoFar
<1> QED
  BY <1>5 DEF y

(* What is read is what was remembered, but for the values that the code    *)
(* does not read back.                                                      *)
SameAs(n, m) ==
  /\ \A s \in Settings : ReadBack(s, m.config[s]) => n.config[s] = m.config[s]
  /\ n.alarms = m.alarms /\ n.streams = m.streams /\ n.feeds = m.feeds /\ n.sounds = m.sounds

(* After the last line.                                                     *)
LEMMA AllIsRead ==
  ASSUME NEW m, MemoryKept(m), NEW x, SoFar(m, Len(BuildConfig(m)), x)
  PROVE  SameAs(x, m)
<1> DEFINE n == Len(BuildConfig(m))
<1>1. IsMemory(m) /\ \A s \in Settings : Keeps(s, m.config[s])
  BY DEF MemoryKept
<1>2. \A lo, k, i \in Nat : lo + k <= i => Passed(i, lo, k) = k
  BY DEF Passed
<1>3. /\ m.streams \in Nat /\ m.feeds \in Nat /\ m.sounds \in Nat /\ Len(m.alarms) \in Nat
      /\ AfterFeeds(m) \in Nat /\ AfterSounds(m) \in Nat /\ n \in Nat
      /\ m.streams + m.feeds <= n /\ AfterFeeds(m) + m.sounds <= n /\ AfterSounds(m) + Len(m.alarms) <= n
      /\ 0 + m.streams <= n /\ 0 \in Nat
  <2>1. /\ m.streams \in Nat /\ m.feeds \in Nat /\ m.sounds \in Nat /\ Len(m.alarms) \in Nat
        /\ AfterFeeds(m) \in Nat /\ AfterSounds(m) \in Nat /\ AfterAlarms(m) \in Nat
        /\ AfterFeeds(m) = m.streams + m.feeds
        /\ AfterSounds(m) = AfterFeeds(m) + m.sounds
        /\ AfterAlarms(m) = AfterSounds(m) + Len(m.alarms)
        /\ Len(SettingLines(m.config)) \in Nat /\ n \in Nat
        /\ n = AfterAlarms(m) + Len(SettingLines(m.config))
    BY <1>1, Places
  <2> HIDE DEF n
  <2>3. \A a, b \in Nat : a <= a + b
    OBVIOUS
  <2>4. /\ AfterFeeds(m) <= AfterSounds(m) /\ AfterSounds(m) <= AfterAlarms(m)
        /\ m.streams <= AfterFeeds(m) /\ AfterAlarms(m) <= n
    BY <2>1, <2>3
  <2>5. AfterFeeds(m) <= n /\ AfterSounds(m) <= n
    BY <2>1, <2>4
  <2>6. m.streams <= n /\ 0 + m.streams <= n
    BY <2>1, <2>4
  <2>7. m.streams + m.feeds <= n /\ AfterFeeds(m) + m.sounds <= n /\ AfterSounds(m) + Len(m.alarms) <= n
    BY <2>1, <2>4, <2>5
  <2> QED
    BY <2>1, <2>6, <2>7
<1>4. ListsSoFar(m, n, x) /\ ConfigSoFar(m, n, x.config) /\ IsMemory(x)
  BY DEF SoFar
<1>5. /\ Passed(n, 0, m.streams) = m.streams /\ Passed(n, m.streams, m.feeds) = m.feeds
      /\ Passed(n, AfterFeeds(m), m.sounds) = m.sounds
      /\ Passed(n, AfterSounds(m), Len(m.alarms)) = Len(m.alarms)
  <2> HIDE DEF n
  <2>1. Passed(n, 0, m.streams) = m.streams
    BY <1>3 DEF Passed
  <2>2. Passed(n, m.streams, m.feeds) = m.feeds
    BY <1>2, <1>3
  <2>3. Passed(n, AfterFeeds(m), m.sounds) = m.sounds
    BY <1>2, <1>3
  <2>4. Passed(n, AfterSounds(m), Len(m.alarms)) = Len(m.alarms)
    BY <1>2, <1>3
  <2> QED
    BY <2>1, <2>2, <2>3, <2>4
<1>6. x.streams = m.streams /\ x.feeds = m.feeds /\ x.sounds = m.sounds /\ Len(x.alarms) = Len(m.alarms)
      /\ \A k \in 1 .. Len(x.alarms) : x.alarms[k] = m.alarms[k]
  BY <1>4, <1>5 DEF ListsSoFar
<1>7. x.alarms = m.alarms
  <2>1. IsSequence(x.alarms) /\ IsSequence(m.alarms)
    BY <1>1, <1>4 DEF IsMemory
  <2> QED
    BY <1>6, <2>1, SequencesEqual
<1>8. ASSUME NEW s \in Settings, ReadBack(s, m.config[s])
      PROVE  x.config[s] = m.config[s]
  <2>1. CASE IsWritten(s, m.config[s])
    <3>1. s # "HW_volume_L"
      BY <1>8 DEF ReadBack
    <3>2. \E j \in 1 .. n : Sets(BuildConfig(m)[j], s)
      BY <1>1, <2>1, <3>1, EverySettingHasALine
    <3> HIDE DEF n
    <3> QED
      BY <1>4, <1>8, <3>2 DEF ConfigSoFar
  <2>2. CASE ~IsWritten(s, m.config[s])
    <3>1. m.config[s] = InitialConfig[s]
      BY <1>1, <1>8, <2>2, NotWritten
    <3>2. x.config[s] \in {InitialConfig[s], m.config[s]}
      BY <1>4, <1>8 DEF ConfigSoFar
    <3> QED
      BY <3>1, <3>2
  <2> QED
    BY <2>1, <2>2
<1> QED
  BY <1>6, <1>7, <1>8 DEF SameAs

(* A file with those lines in it, from its beginning to a NUL or to its end.  *)
Holds(f, lines) ==
  /\ Len(lines) <= FileSize
  /\ \A i \in 1 .. Len(lines) : f[i] = lines[i]
  /\ Len(lines) < FileSize => f[Len(lines) + 1].attrib = 0

(* What PL_save_config wrote, PL_parse_config_buffer gives back.             *)
LEMMA SavedFileIsRead ==
  ASSUME NEW m, MemoryKept(m), NEW f, IsFile(f), Holds(f, BuildConfig(m))
  PROVE  SameAs(ParseConfigBuffer(f), m)
<1> DEFINE lines == BuildConfig(m)
           n == Len(lines)
           read == LinesBeforeNul(f)
           R == Reading(read)
           T == {i \in 0 .. n : SoFar(m, i, R[i])}
<1>1. IsMemory(m)
  BY DEF MemoryKept
<1>2. n \in Nat /\ \A i \in 1 .. n : lines[i].attrib # 0
  <2>1. n \in Nat
    BY <1>1, Places
  <2>2. \A i \in 1 .. n : Kinds(m, i, lines[i].attrib)
    BY <1>1, LineCounts
  <2> QED
    BY <2>1, <2>2 DEF Kinds
<1>3. Len(read) = n /\ \A i \in 1 .. n : read[i] = lines[i]
  <2>1. PICK k : LinesEnd(f, k)
    BY LinesAre
  <2>2. /\ k \in Nat /\ k <= FileSize /\ FileSize \in Nat /\ Len(read) = k
        /\ \A i \in 1 .. k : read[i] = f[i] /\ f[i].attrib # 0
        /\ k < FileSize => f[k + 1].attrib = 0
    <3>1. FileSize \in Nat
      BY FileIsSequence
    <3>2. k \in 0 .. FileSize
      BY <2>1 DEF LinesEnd
    <3> QED
      BY <2>1, <3>1, <3>2 DEF LinesEnd
  <2>3. /\ n <= FileSize /\ \A i \in 1 .. n : f[i] = lines[i]
        /\ n < FileSize => f[n + 1].attrib = 0
    BY DEF Holds
  <2> HIDE DEF read, n, lines
  <2>4. ~(k < n)
    <3> SUFFICES ASSUME k < n PROVE FALSE
      OBVIOUS
    <3>1. k + 1 \in 1 .. n /\ k < FileSize
      BY <1>2, <2>2, <2>3
    <3> QED
      BY <1>2, <2>2, <2>3, <3>1
  <2>5. ~(n < k)
    <3> SUFFICES ASSUME n < k PROVE FALSE
      OBVIOUS
    <3>1. n + 1 \in 1 .. k /\ n < FileSize
      BY <1>2, <2>2, <2>3
    <3> QED
      BY <2>2, <2>3, <3>1
  <2>6. k = n
    BY <1>2, <2>2, <2>4, <2>5
  <2> QED
    BY <2>2, <2>3, <2>6
<1>4. R[0] = InitialMemory /\ \A i \in 1 .. n : R[i] = ReadLine(R[i - 1], lines[i])
  <2>1. ReadingFits(Reading(read), read, Len(read))
    <3>1. Len(read) \in Nat
      BY <1>2, <1>3
    <3> HIDE DEF read
    <3> QED
      BY <3>1, ReadingIsDefined
  <2> HIDE DEF read, n, lines
  <2> QED
    BY <1>3, <2>1 DEF ReadingFits
<1>5. ParseConfigBuffer(f) = R[n]
  <2>1. ParseConfigBuffer(f) = R[Len(read)]
    BY DEF ParseConfigBuffer
  <2> HIDE DEF R, read, n
  <2> QED
    BY <1>3, <2>1
<1> HIDE DEF R, read
<1>6. 0 \in T
  BY <1>1, <1>2, <1>4, NothingSoFar
<1>7. ASSUME NEW i \in 0 .. n - 1, i \in T PROVE i + 1 \in T
  <2>1. i + 1 \in 1 .. n /\ (i + 1) - 1 = i /\ i + 1 \in 0 .. n
    <3> HIDE DEF n
    <3> QED
      BY <1>2
  <2>2. R[i + 1] = ReadLine(R[i], lines[i + 1])
    BY <1>4, <2>1
  <2>3. SoFar(m, i, R[i])
    BY <1>7
  <2>4. SoFar(m, i + 1, ReadLine(R[i], lines[i + 1]))
    BY <2>3, OneLineFurther
  <2>5. SoFar(m, i + 1, R[i + 1])
    <3> HIDE DEF lines
    <3> QED
      BY <2>2, <2>4
  <2> QED
    BY <2>1, <2>5
<1>8. n \in T
  <2> HIDE DEF T, n
  <2>1. \A i \in 0 .. n : i \in T
    BY <1>2, <1>6, <1>7, InductionUpTo
  <2> QED
    BY <1>2, <2>1
<1>9. SoFar(m, Len(BuildConfig(m)), R[n])
  BY <1>8
<1> QED
  BY <1>5, <1>9, AllIsRead

-----------------------------------------------------------------------------
(* The radio, saving and starting.                                          *)

(* Everything that is remembered has its line in the file.                  *)
HasRoom(m) == m.streams + m.feeds + m.sounds + Len(m.alarms) + Len(Order) <= FileSize

(* The menu leaves a setting at a value of its kind, which parsing takes    *)
(* unless it is one of those that ReadBack names, and an alarm at values    *)
(* that are read.                                                           *)
MenuIsAccepted ==
  /\ \A s \in DOMAIN MenuValues : \A v \in MenuValues[s] :
       Fits(s, v) /\ (s \notin Texts /\ ReadBack(s, v) => Accepted(s, v[1]))
  /\ \A a \in MenuAlarms : KeepsAlarm(a)

(* Why a start finds what was saved: whatever is in the file can be read,   *)
(* what memory holds can be written and read, the buffer holds all of what  *)
(* is being saved, and after the first write the first half of it is in the *)
(* file.                                                                    *)
SavedInv ==
  /\ IsFile(file) /\ FileFits(file)
  /\ IsFile(G_working_config) /\ FileFits(G_working_config)
  /\ MemoryKept(memory)
  /\ saved.whole => SameAs(ParseConfigBuffer(file), saved.memory)
  /\ savePc = "half" =>
       /\ MemoryKept(saved.memory) /\ Holds(G_working_config, BuildConfig(saved.memory))
       /\ \A i \in 1 .. BlockLines : file[i] = G_working_config[i]

(* A NUL is read as nothing.                                                *)
LEMMA NulIsNoSetting == 0 \notin DOMAIN SettingOf
<1>1. \A i \in 1 .. 39 : SumsRead[i] # 0
  BY SMTT(60) DEF SumsRead
<1> QED
  BY <1>1, SumsOfSettings

(* What is written can be read.                                             *)
LEMMA BuiltFits ==
  ASSUME NEW m, MemoryKept(m), NEW buffer, FileFits(buffer)
  PROVE  LET f == BuiltInto(buffer, BuildConfig(m)) IN IsFile(f) /\ FileFits(f)
<1> DEFINE lines == BuildConfig(m)
           f == BuiltInto(buffer, lines)
<1>1. IsMemory(m) /\ (\A s \in Settings : Keeps(s, m.config[s])) /\ \A k \in 1 .. Len(m.alarms) : KeepsAlarm(m.alarms[k])
  BY DEF MemoryKept
<1>2. Len(lines) \in Nat /\ FileSize \in Nat
  <2>1. FileSize \in Nat
    BY MemoryAssumption DEF FileSize
  <2> QED
    BY <1>1, <2>1, Places
<1>3. ASSUME NEW i \in 1 .. Len(lines) PROVE LineFits(lines[i])
  <2>1. lines[i].attrib = 525 => IsAlarm(lines[i].value)
    <3>1. lines[i].attrib = 525 => \E k \in 1 .. Len(m.alarms) : lines[i].value = m.alarms[k]
      BY <1>1, LineCounts
    <3> HIDE DEF lines
    <3> QED
      BY <1>1, <3>1 DEF KeepsAlarm
  <2>2. ASSUME lines[i].attrib \in DOMAIN SettingOf PROVE Fits(SettingOf[lines[i].attrib], lines[i].value)
    <3> DEFINE s == SettingOf[lines[i].attrib]
    <3>1. Sets(lines[i], s)
      BY <2>2 DEF Sets
    <3> HIDE DEF s
    <3>2. s \in Settings /\ IsWritten(s, m.config[s]) /\ lines[i].value = m.config[s]
      BY <1>1, <3>1, LineSets
    <3>3. Fits(s, m.config[s])
      BY <1>1, <3>2, WrittenFits
    <3>4. Fits(s, lines[i].value)
      <4> HIDE DEF lines
      <4> QED
        BY <3>2, <3>3
    <3> QED
      BY <3>4 DEF s
  <2> HIDE DEF lines
  <2> QED
    BY <2>1, <2>2 DEF LineFits
<1>4. LineFits(Nul)
  BY NulIsNoSetting DEF LineFits, Nul
<1> HIDE DEF lines
<1>5. f = [i \in 1 .. FileSize |-> f[i]]
  BY DEF BuiltInto
<1>6. ASSUME NEW i \in 1 .. FileSize PROVE LineFits(f[i])
  <2>1. f[i] = IF i <= Len(lines) THEN lines[i] ELSE IF i = Len(lines) + 1 THEN Nul ELSE buffer[i]
    BY DEF BuiltInto
  <2> HIDE DEF f
  <2>2. CASE i <= Len(lines)
    <3>1. i \in 1 .. Len(lines)
      BY <1>2, <2>2
    <3> QED
      BY <1>3, <2>1, <2>2, <3>1
  <2>3. CASE ~(i <= Len(lines))
    BY <1>4, <2>1, <2>3 DEF FileFits
  <2> QED
    BY <2>2, <2>3
<1> HIDE DEF f
<1>7. IsFile(f) /\ FileFits(f)
  BY <1>5, <1>6 DEF IsFile, FileFits
<1> QED
  BY <1>7 DEF f, lines

(* And all of it is there, with a NUL behind it.                            *)
LEMMA BuiltHolds ==
  ASSUME NEW m, MemoryKept(m), HasRoom(m), NEW buffer
  PROVE  Holds(BuiltInto(buffer, BuildConfig(m)), BuildConfig(m))
<1> DEFINE lines == BuildConfig(m)
<1>1. IsMemory(m)
  BY DEF MemoryKept
<1>2. FileSize \in Nat
  BY MemoryAssumption DEF FileSize
<1>3. Len(lines) \in Nat /\ Len(lines) <= FileSize
  <2>1. Len(SettingLines(m.config)) <= Len(Order)
    <3>1. Len(Order) = 39
      BY DEF Order
    <3>2. LinesOf(m.config, 39, SettingLines(m.config))
      BY <3>1, SettingLinesAre
    <3>3. Len(SettingLines(m.config)) \in 0 .. 39
      BY <3>2 DEF LinesOf
    <3>4. \A k \in 0 .. 39 : k <= 39
      OBVIOUS
    <3>5. Len(SettingLines(m.config)) <= 39
      BY <3>3, <3>4, Zenon
    <3> QED
      BY <3>1, <3>5, Zenon
  <2>2. /\ m.streams \in Nat /\ m.feeds \in Nat /\ m.sounds \in Nat /\ Len(m.alarms) \in Nat
        /\ Len(SettingLines(m.config)) \in Nat /\ Len(lines) \in Nat
        /\ Len(lines) = m.streams + m.feeds + m.sounds + Len(m.alarms) + Len(SettingLines(m.config))
    <3>1. /\ m.streams \in Nat /\ m.feeds \in Nat /\ m.sounds \in Nat /\ Len(m.alarms) \in Nat
          /\ Len(SettingLines(m.config)) \in Nat /\ Len(lines) \in Nat
          /\ Len(lines) = AfterAlarms(m) + Len(SettingLines(m.config))
      BY <1>1, Places
    <3> HIDE DEF lines
    <3> QED
      BY <3>1 DEF AfterAlarms, AfterSounds, AfterFeeds
  <2>3. Len(Order) \in Nat
    BY DEF Order
  <2>4. m.streams + m.feeds + m.sounds + Len(m.alarms) + Len(Order) <= FileSize
    BY DEF HasRoom
  <2> HIDE DEF lines
  <2>5. \A a, b, c, d, e, o, z \in Nat : e <= o /\ a + b + c + d + o <= z => a + b + c + d + e <= z
    OBVIOUS
  <2> QED
    BY <1>2, <2>1, <2>2, <2>3, <2>4, <2>5
<1> HIDE DEF lines
<1> DEFINE f == BuiltInto(buffer, lines)
<1>4. \A i \in 1 .. FileSize : f[i] = IF i <= Len(lines) THEN lines[i]
                                      ELSE IF i = Len(lines) + 1 THEN Nul ELSE buffer[i]
  BY DEF BuiltInto
<1> HIDE DEF f
<1>5. \A i \in 1 .. Len(lines) : f[i] = lines[i]
  BY <1>2, <1>3, <1>4
<1>6. Len(lines) < FileSize => f[Len(lines) + 1].attrib = 0
  BY <1>2, <1>3, <1>4 DEF Nul
<1>7. Holds(f, lines)
  BY <1>3, <1>5, <1>6 DEF Holds
<1> QED
  BY <1>7 DEF f, lines

(* What touches neither memory nor file.                                    *)
LEMMA SavedKeeps ==
  ASSUME SavedInv, UNCHANGED memoryVars
  PROVE  SavedInv'
BY DEF SavedInv, memoryVars

(* The empty buffer can be read, too.                                       *)
LEMMA NulBufferFits == IsFile(NulBuffer) /\ FileFits(NulBuffer)
<1>1. LineFits(Nul)
  BY NulIsNoSetting DEF LineFits, Nul
<1>2. NulBuffer = [i \in 1 .. FileSize |-> NulBuffer[i]] /\ \A i \in 1 .. FileSize : NulBuffer[i] = Nul
  BY DEF NulBuffer
<1> QED
  BY <1>1, <1>2 DEF IsFile, FileFits

(* A start from a file that can be read.                                    *)
LEMMA SavedRestart ==
  ASSUME Restart, IsFile(file'), FileFits(file')
  PROVE  SavedInv'
<1>1. memory' = ParseConfigBuffer(file') /\ saved' = [memory |-> memory', whole |-> TRUE]
      /\ savePc' = "idle" /\ G_working_config' = NulBuffer
  BY DEF Restart
<1>2. MemoryKept(memory')
  BY <1>1, FileKept
<1>3. SameAs(ParseConfigBuffer(file'), saved'.memory)
  BY <1>1 DEF SameAs
<1> QED
  BY <1>1, <1>2, <1>3, NulBufferFits DEF SavedInv

(* The first one.                                                           *)
LEMMA SavedStarts ==
  ASSUME FileFits(InitialFile), Init
  PROVE  SavedInv
<1>1. IsFile(file) /\ FileFits(file) /\ memory = ParseConfigBuffer(file)
      /\ saved = [memory |-> memory, whole |-> TRUE] /\ savePc = "idle" /\ G_working_config = NulBuffer
  BY MemoryAssumption DEF Init
<1>2. MemoryKept(memory)
  BY <1>1, FileKept
<1>3. SameAs(ParseConfigBuffer(file), saved.memory)
  BY <1>1 DEF SameAs
<1> QED
  BY <1>1, <1>2, <1>3, NulBufferFits DEF SavedInv

(* The menu.                                                                *)
LEMMA SavedEdited ==
  ASSUME MenuIsAccepted, SavedInv, EditMenu
  PROVE  SavedInv'
<1>1. MemoryKept(memory)
  BY DEF SavedInv
<1>2. MemoryKept(memory')
  <2>1. CASE \E setting \in DOMAIN MenuValues : \E value \in MenuValues[setting] :
               memory' = [memory EXCEPT !.config[setting] = value]
    <3>0. PICK setting \in DOMAIN MenuValues : \E value \in MenuValues[setting] :
            memory' = [memory EXCEPT !.config[setting] = value]
      BY <2>1
    <3>1. PICK value \in MenuValues[setting] :
            memory' = [memory EXCEPT !.config = [@ EXCEPT ![setting] = value]]
      BY <3>0
    <3>2. setting \in Settings /\ Keeps(setting, value)
      BY MemoryAssumption DEF MenuIsAccepted, Keeps
    <3> QED
      BY <1>1, <3>1, <3>2, SettingKept
  <2>2. CASE \E i \in DOMAIN memory.alarms, alarm \in MenuAlarms :
               memory' = [memory EXCEPT !.alarms[i] = alarm]
    <3>1. PICK i \in DOMAIN memory.alarms, alarm \in MenuAlarms :
            memory' = [memory EXCEPT !.alarms = [@ EXCEPT ![i] = alarm]]
      BY <2>2
    <3>2. KeepsAlarm(alarm)
      BY DEF MenuIsAccepted
    <3> QED
      BY <1>1, <3>1, <3>2, AlarmChanged
  <2> QED
    BY <2>1, <2>2 DEF EditMenu
<1>3. savePc = "idle" /\ UNCHANGED <<G_working_config, file, savePc, saved>>
  BY DEF EditMenu, InMenu
<1> QED
  BY <1>2, <1>3 DEF SavedInv

(* The first write.                                                         *)
LEMMA SavedHalf ==
  ASSUME SavedInv, HasRoom(memory), SaveFirstHalf
  PROVE  SavedInv'
<1> DEFINE whole == [memory EXCEPT !.config = [@ EXCEPT !["volume_level"] = <<G_volume>>]]
           built == BuiltInto(G_working_config, BuildConfig(whole))
<1>1. /\ savePc' = "half" /\ G_working_config' = built
      /\ file' = SubSeq(built, 1, BlockLines) \o SubSeq(file, BlockLines + 1, FileSize)
      /\ saved' = [memory |-> whole, whole |-> FALSE] /\ memory' = memory
  BY DEF SaveFirstHalf
<1>2. MemoryKept(whole) /\ HasRoom(whole)
  <2>1. "volume_level" \in Settings
    BY DEF Settings, InitialConfig
  <2>2. Keeps("volume_level", <<G_volume>>)
    <3>1. "volume_level" \notin Texts
      BY DEF Texts
    <3>2. Accepted("volume_level", <<G_volume>>[1])
      BY DEF Accepted
    <3> QED
      BY <3>1, <3>2 DEF Keeps, Fits
  <2>3. MemoryKept(memory)
    BY DEF SavedInv
  <2>4. MemoryKept(whole)
    BY <2>1, <2>2, <2>3, SettingKept
  <2>5. memory = [f \in {"config", "alarms", "streams", "feeds", "sounds"} |-> memory[f]]
    BY <2>3, InitialMemoryIs DEF MemoryKept, IsMemory
  <2>6. whole.streams = memory.streams /\ whole.feeds = memory.feeds /\ whole.sounds = memory.sounds
        /\ whole.alarms = memory.alarms
    BY <2>5
  <2> HIDE DEF whole
  <2>7. HasRoom(whole)
    BY <2>6 DEF HasRoom
  <2> QED
    BY <2>4, <2>7
<1> HIDE DEF whole
<1>3. IsFile(built) /\ FileFits(built) /\ Holds(built, BuildConfig(whole))
  BY <1>2, BuiltFits, BuiltHolds DEF SavedInv
<1> HIDE DEF built
<1>4. Halves(built, file, file')
  BY <1>1, <1>3, TwoHalves DEF SavedInv
<1>5. IsFile(file') /\ FileFits(file') /\ \A i \in 1 .. BlockLines : file'[i] = built[i]
  BY <1>3, <1>4, HalvesFit DEF Halves, SavedInv
<1> QED
  BY <1>1, <1>2, <1>3, <1>5 DEF SavedInv

(* The second write: the file is now what was built.                        *)
LEMMA SavedWhole ==
  ASSUME SavedInv, SaveSecondHalf
  PROVE  SavedInv'
<1>1. /\ savePc = "half" /\ savePc' = "idle"
      /\ file' = SubSeq(file, 1, BlockLines) \o SubSeq(G_working_config, BlockLines + 1, FileSize)
      /\ saved' = [saved EXCEPT !.whole = TRUE]
      /\ UNCHANGED <<memory, G_working_config>>
  BY DEF SaveSecondHalf
<1>2. /\ IsFile(file) /\ FileFits(file) /\ IsFile(G_working_config) /\ FileFits(G_working_config)
      /\ MemoryKept(saved.memory) /\ Holds(G_working_config, BuildConfig(saved.memory))
      /\ \A i \in 1 .. BlockLines : file[i] = G_working_config[i]
  BY <1>1 DEF SavedInv
<1>3. Halves(file, G_working_config, file')
  BY <1>1, <1>2, TwoHalves
<1>4. FileFits(file') /\ IsFile(file')
  BY <1>2, <1>3, HalvesFit DEF Halves
<1>5. \A i \in 1 .. FileSize : file'[i] = G_working_config[i]
  <2>1. BlockLines \in Nat /\ FileSize = 2 * BlockLines
    BY MemoryAssumption DEF FileSize
  <2>2. \A i \in 1 .. FileSize : i \in 1 .. BlockLines \/ i \in BlockLines + 1 .. FileSize
    BY <2>1
  <2> QED
    BY <1>2, <1>3, <2>2 DEF Halves
<1>6. file' = G_working_config
  BY <1>2, <1>4, <1>5 DEF IsFile
<1>7. SameAs(ParseConfigBuffer(file'), saved.memory)
  BY <1>2, <1>6, SavedFileIsRead
<1>8. saved'.memory = saved.memory
  BY <1>1
<1> QED
  BY <1>1, <1>4, <1>7, <1>8 DEF SavedInv

(* Every step of the radio.                                                 *)
LEMMA SavedStep ==
  ASSUME FileFits(FactoryLines), MenuIsAccepted, SavedInv, HasRoom(memory), [Next]_vars
  PROVE  SavedInv'
<1>1. CASE PowerCut
  <2>1. IsFile(file') /\ FileFits(file')
    BY <1>1 DEF PowerCut, SavedInv
  <2> QED
    BY <1>1, <2>1, SavedRestart DEF PowerCut
<1>2. CASE FactoryInit
  <2>1. IsFile(file') /\ FileFits(file')
    BY <1>2, MemoryAssumption DEF FactoryInit
  <2> QED
    BY <1>2, <2>1, SavedRestart DEF FactoryInit
<1>3. CASE EditMenu
  BY <1>3, SavedEdited
<1>4. CASE SaveFirstHalf
  BY <1>4, SavedHalf
<1>5. CASE SaveSecondHalf
  BY <1>5, SavedWhole
<1>6. CASE RestorePersistence \/ Autoplay \/ ChooseStation \/ ChooseFeed \/ ChangeVolume
           \/ PlayerChanges \/ DisplayKey
  BY <1>6, SavedKeeps DEF RestorePersistence, Autoplay, ChooseStation, ChooseFeed, ChangeVolume,
     PlayerChanges, DisplayKey, KeyPressed, Elsewhere
<1>7. CASE EnterSetup \/ SetupEntered \/ LeaveSetup \/ SetupLeft \/ PersistenceStep
  BY <1>7, SavedKeeps DEF EnterSetup, SetupEntered, LeaveSetup, SetupLeft, PersistenceStep,
     KeyPressed, Elsewhere
<1>8. CASE UNCHANGED vars
  BY <1>8, SavedKeeps DEF vars
<1> QED
  BY <1>1, <1>2, <1>3, <1>4, <1>5, <1>6, <1>7, <1>8 DEF Next

(* What a start finds of what was saved.                                    *)
StartReads ==
  starts' # starts /\ saved.whole /\ file' = file => SameAs(memory', saved.memory)

(* Nothing else counts as a start, and a start reads the file as it was     *)
(* left.                                                                    *)
LEMMA StartsRead ==
  ASSUME SavedInv, [Next]_vars
  PROVE  StartReads
<1> SUFFICES ASSUME starts' # starts, saved.whole, file' = file
             PROVE  SameAs(memory', saved.memory)
  BY DEF StartReads
<1>1. PowerCut \/ FactoryInit
  BY DEF Next, vars, RestorePersistence, Autoplay, ChooseStation, ChooseFeed, ChangeVolume,
     PlayerChanges, DisplayKey, EnterSetup, SetupEntered, LeaveSetup, SetupLeft, EditMenu,
     SaveFirstHalf, SaveSecondHalf, PersistenceStep, KeyPressed, Elsewhere
<1>2. memory' = ParseConfigBuffer(file)
  BY <1>1 DEF PowerCut, FactoryInit, Restart
<1> QED
  BY <1>2 DEF SavedInv

(* A configuration file that was saved to its end gives back, at whatever   *)
(* restart follows and whatever came before, every setting (but those whose *)
(* values the code does not read), every alarm in its place and every list: *)
(* if the file the radio began with and the factory settings can be read,   *)
(* the menu leaves nothing that parsing would refuse, and there is room in  *)
(* the file for all that is remembered. What remains in the buffer of a     *)
(* longer file, and whatever is behind the NUL, does not matter.            *)
THEOREM WhatIsSavedIsRead ==
  ASSUME FileFits(InitialFile), FileFits(FactoryLines), MenuIsAccepted
  PROVE  Spec /\ []HasRoom(memory) => SavedIsReadBack
<1>1. Init => SavedInv
  BY SavedStarts
<1>2. SavedInv /\ HasRoom(memory) /\ [Next]_vars => SavedInv'
  BY SavedStep
<1>3. SavedInv /\ [Next]_vars =>
        (starts' # starts /\ saved.whole /\ file' = file =>
           /\ \A s \in Settings : ReadBack(s, saved.memory.config[s]) =>
                memory'.config[s] = saved.memory.config[s]
           /\ memory'.alarms = saved.memory.alarms
           /\ memory'.streams = saved.memory.streams /\ memory'.feeds = saved.memory.feeds
           /\ memory'.sounds = saved.memory.sounds)
  <2> SUFFICES ASSUME SavedInv, [Next]_vars
               PROVE  starts' # starts /\ saved.whole /\ file' = file =>
                        /\ \A s \in Settings : ReadBack(s, saved.memory.config[s]) =>
                             memory'.config[s] = saved.memory.config[s]
                        /\ memory'.alarms = saved.memory.alarms
                        /\ memory'.streams = saved.memory.streams /\ memory'.feeds = saved.memory.feeds
                        /\ memory'.sounds = saved.memory.sounds
    OBVIOUS
  <2>1. StartReads
    BY StartsRead
  <2> QED
    BY <2>1 DEF StartReads, SameAs
<1> QED
  BY <1>1, <1>2, <1>3, PTL DEF Spec, SavedIsReadBack
=============================================================================
