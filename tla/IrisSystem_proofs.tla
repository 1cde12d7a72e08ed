-------------------------- MODULE IrisSystem_proofs --------------------------
(***************************************************************************)
(* Proofs about the threads of IRIS2 together, for any number of stations,    *)
(* any length of the timers, of the pipe and of a feed, and any choice of    *)
(* keys, commands, alarms and faults; |= and ^= may be torn and the snooze    *)
(* thread's poll split, unless a theorem says otherwise.                    *)
(***************************************************************************)
EXTENDS IrisSystem, BassSharing_proofs

-----------------------------------------------------------------------------
(* Type correctness: one lemma per thread, one step per action.             *)

LEMMA PlayerKeepsTypes ==
  ASSUME TypeOK, PlayerStep
  PROVE  GlobalsTypeOK' /\ PlayerTypeOK'
<1> USE GlobalsAssumption, PlayerAssumption
    DEF TypeOK, GlobalsTypeOK, PlayerTypeOK, PlayerLocations, PlayerGoes, playerCounters,
        globalVars, modeVars, sleepVars, ttsVars, Modes, PLAYER_STOP, ALARM_ACTIVE
<1>1. CASE PlayerStarts
  BY <1>1 DEF PlayerStarts
<1>2. CASE PlayerAcquires
  BY <1>2 DEF PlayerAcquires
<1>3. CASE PlayerIsRefused
  <2>1. (cant_init + 1) % CantInitModulus \in 0 .. CantInitModulus - 1
    OBVIOUS
  <2> QED
    BY <1>3, <2>1 DEF PlayerIsRefused
<1>4. CASE PlayerCreates
  BY <1>4 DEF PlayerCreates
<1>5. CASE PlayerCannotCreate
  BY <1>5 DEF PlayerCannotCreate
<1>6. CASE PlayerFallsBack
  BY <1>6 DEF PlayerFallsBack
<1>7. CASE PlayerIterates
  BY <1>7 DEF PlayerIterates
<1>8. CASE PlayerLosesStream
  BY <1>8 DEF PlayerLosesStream
<1>9. CASE PlayerRebuffers
  BY <1>9 DEF PlayerRebuffers
<1>10. CASE PlayerLeavesLoop
  BY <1>10 DEF PlayerLeavesLoop
<1>11. CASE PlayerCleansUp
  BY <1>11 DEF PlayerCleansUp
<1> QED
  BY <1>1, <1>2, <1>3, <1>4, <1>5, <1>6, <1>7, <1>8, <1>9, <1>10, <1>11 DEF PlayerStep

LEMMA AlarmKeepsTypes ==
  ASSUME TypeOK, AlarmStep
  PROVE  GlobalsTypeOK' /\ AlarmTypeOK'
<1> USE GlobalsAssumption
    DEF TypeOK, GlobalsTypeOK, AlarmTypeOK, AlarmLocations, AlarmGoes, othersOfAlarm,
        globalVars, sleepVars, ttsVars, Modes, PLAYER_STOP
<1>1. CASE AlarmWakes
  <2>1. G_wakeup' = 0 /\ UNCHANGED <<G_player_mode, wake, othersOfAlarm>>
    BY <1>1 DEF AlarmWakes
  <2>2. alarmPc' \in {"acquire", "pause"}
    BY <1>1 DEF AlarmWakes
  <2> QED
    BY <2>1, <2>2
<1>2. CASE AlarmAcquires
  BY <1>2 DEF AlarmAcquires
<1>3. CASE AlarmIsRefused
  BY <1>3 DEF AlarmIsRefused
<1>4. CASE AlarmStarts
  BY <1>4 DEF AlarmStarts
<1>5. CASE AlarmCannotPlay
  BY <1>5 DEF AlarmCannotPlay
<1>6. CASE AlarmSoundEnds
  BY <1>6 DEF AlarmSoundEnds
<1>7. CASE AlarmTurnedOff
  BY <1>7 DEF AlarmTurnedOff
<1>8. CASE AlarmRangLongEnough
  BY <1>8 DEF AlarmRangLongEnough
<1>9. CASE AlarmCleansUp
  BY <1>9 DEF AlarmCleansUp
<1>10. CASE AlarmPauses
  BY <1>10 DEF AlarmPauses
<1> QED
  BY <1>1, <1>2, <1>3, <1>4, <1>5, <1>6, <1>7, <1>8, <1>9, <1>10 DEF AlarmStep

LEMMA TtsKeepsTypes ==
  ASSUME TypeOK, BassTypeOK', TtsStep
  PROVE  GlobalsTypeOK' /\ TtsTypeOK'
<1> USE NewsAssumption
    DEF TypeOK, GlobalsTypeOK, TtsTypeOK, TtsLocations, TtsGoes, othersOfTts,
        globalVars, modeVars, sleepVars, ttsVars, TtsMessages
<1>1. CASE TtsReads
  BY <1>1 DEF TtsReads
<1>2. CASE TtsPrepares
  BY <1>2 DEF TtsPrepares, TTS_PLAYING
<1>3. CASE TtsAcquires
  BY <1>3 DEF TtsAcquires
<1>4. CASE TtsIsRefused
  BY <1>4 DEF TtsIsRefused
<1>5. CASE TtsLowers
  BY <1>5 DEF TtsLowers, TTS_PLAYING
<1>6. CASE TtsSpeaks
  BY <1>6 DEF TtsSpeaks
<1>7. CASE TtsReleases
  <2>1. used_internal_spk'["tts"] \in BOOLEAN
    BY GlobalsAssumption DEF BassTypeOK
  <2>2. ampLeftOn' \in BOOLEAN
    BY <1>7, <2>1 DEF TtsReleases
  <2> QED
    BY <1>7, <2>2 DEF TtsReleases, TTS_STOPPED
<1>8. CASE TtsFinishes
  BY <1>8 DEF TtsFinishes, TTS_STOPPED
<1>9. CASE TtsAnnounces
  BY <1>9 DEF TtsAnnounces, TTS_PREPARING
<1> QED
  BY <1>1, <1>2, <1>3, <1>4, <1>5, <1>6, <1>7, <1>8, <1>9 DEF TtsStep

LEMMA SnoozeKeepsTypes ==
  ASSUME TypeOK, SnoozeStep
  PROVE  GlobalsTypeOK' /\ SnoozeTypeOK'
<1> USE SnoozeAssumption
    DEF TypeOK, GlobalsTypeOK, SnoozeTypeOK, SnoozeStates, Modes, globalVars, sleepVars, ttsVars
<1>1. ASSUME NEW mode \in Modes, NEW otherwise \in Modes, CountSnooze(mode, otherwise)
      PROVE  /\ G_snooze_state' \in SnoozeStates
             /\ snooze_seconds' \in 0 .. SnoozeTime
             /\ G_player_mode' \in Modes
  BY <1>1 DEF CountSnooze, SNOOZE_INACTIVE
<1>2. CASE SnoozeLooks
  <2>1. CASE SomethingHappened /\ G_snooze_state = SNOOZE_ACTIVE
    BY <1>1, <1>2, <2>1 DEF SnoozeLooks, PLAYER_STOP, SNOOZE_ACTIVE, SNOOZE_RESET, SNOOZE_INACTIVE
  <2>2. CASE ~SomethingHappened /\ G_snooze_state = SNOOZE_ACTIVE
    BY <1>1, <1>2, <2>2 DEF SnoozeLooks, SNOOZE_ACTIVE, SNOOZE_RESET, SNOOZE_INACTIVE
  <2>3. CASE G_snooze_state # SNOOZE_ACTIVE
    BY <1>2, <2>3 DEF SnoozeLooks, SNOOZE_INACTIVE
  <2> QED
    BY <2>1, <2>2, <2>3
<1>3. CASE SnoozeNotes
  BY <1>3 DEF SnoozeNotes
<1> QED
  BY <1>2, <1>3 DEF SnoozeStep

LEMMA SendKeepsTypes ==
  ASSUME NEW msg \in TtsMessages, G_TTS_thread_input \in Seq(TtsMessages), SendTts(msg)
  PROVE  G_TTS_thread_input' \in Seq(TtsMessages)
  BY DEF SendTts

LEMMA ClockKeepsTypes ==
  ASSUME TypeOK, ClockStep
  PROVE  GlobalsTypeOK' /\ ClockTypeOK'
<1> USE GlobalsAssumption
    DEF TypeOK, GlobalsTypeOK, ClockTypeOK, Modes, globalVars, modeVars, sleepVars, ttsVars
<1>1. CASE ClockTellsHour
  BY <1>1, SendKeepsTypes DEF ClockTellsHour, TtsMessages
<1>2. CASE ClockCountsSleep
  <2>1. G_player_mode' \in {G_player_mode, PLAYER_STOP} /\ wake' \in {wake, "no"}
    BY <1>2 DEF ClockCountsSleep
  <2>2. G_sleep_timer_active' \in BOOLEAN
    BY <1>2 DEF ClockCountsSleep
  <2>3. G_sleep_timer_counter' \in 0 .. SleepLimit + 1
    BY <1>2 DEF ClockCountsSleep
  <2>4. timerTicks' \in 0 .. SleepLimit
    BY <1>2 DEF ClockCountsSleep
  <2> QED
    BY <1>2, <2>1, <2>2, <2>3, <2>4 DEF ClockCountsSleep, PLAYER_STOP
<1>3. ASSUME NEW type \in AlarmTypes, ClockAlarm(type)
      PROVE  GlobalsTypeOK' /\ ClockTypeOK'
  BY <1>3, SendKeepsTypes DEF ClockAlarm, TtsMessages, PLAYER_STREAM, ALARM_ACTIVE
<1> QED
  BY <1>1, <1>2, <1>3 DEF ClockStep

LEMMA TuningKeepsTypes ==
  ASSUME GlobalsTypeOK, OtherStation
  PROVE  G_stream_index' \in 0 .. Stations - 1
  BY GlobalsAssumption DEF OtherStation, GlobalsTypeOK

LEMMA KeyboardKeepsTypes ==
  ASSUME TypeOK, KeyboardStep
  PROVE  GlobalsTypeOK' /\ ClockTypeOK'
<1> USE GlobalsAssumption
    DEF TypeOK, GlobalsTypeOK, ClockTypeOK, Modes, modeVars, sleepVars, ttsVars
<1>1. CASE KeyOnOff
  <2>1. UNCHANGED <<G_wakeup, G_stream_index, G_global_mode, ttsVars>> /\ wake' = "no"
    BY <1>1 DEF KeyOnOff
  <2>2. G_player_mode' \in Modes /\ askedBy' \in {"nobody", "user", "alarm"}
    BY <1>1 DEF KeyOnOff, PLAYER_STOP, PLAYER_STREAM
  <2>3. G_snooze_state' \in SnoozeStates
    BY <1>1 DEF KeyOnOff, SNOOZE_RESET, SnoozeStates
  <2>4. G_sleep_timer_active' \in BOOLEAN
    BY <1>1 DEF KeyOnOff
  <2>5. G_sleep_timer_counter' \in 0 .. SleepLimit + 1
    BY <1>1 DEF KeyOnOff
  <2>6. timerTicks' \in 0 .. SleepLimit
    BY <1>1 DEF KeyOnOff
  <2> QED
    BY <2>1, <2>2, <2>3, <2>4, <2>5, <2>6
<1>2. CASE KeySnooze
  BY <1>2 DEF KeySnooze, SNOOZE_ACTIVE, SNOOZE_RESET, SnoozeStates
<1>3. CASE KeySleepTimer
  BY <1>3 DEF KeySleepTimer
<1>4. CASE KeyReadRss
  BY <1>4, SendKeepsTypes DEF KeyReadRss, TtsMessages
<1>5. CASE KeyTuning
  BY <1>5, TuningKeepsTypes DEF KeyTuning
<1>6. CASE KeySetup
  BY <1>6 DEF KeySetup
<1> QED
  BY <1>1, <1>2, <1>3, <1>4, <1>5, <1>6 DEF KeyboardStep

LEMMA CommandsKeepTypes ==
  ASSUME TypeOK, CommandStep
  PROVE  GlobalsTypeOK' /\ ClockTypeOK'
<1> USE GlobalsAssumption
    DEF TypeOK, GlobalsTypeOK, ClockTypeOK, Modes, modeVars, sleepVars, ttsVars
<1>1. CASE CommandStop
  BY <1>1 DEF CommandStop, PLAYER_STOP
<1>2. CASE CommandStart
  BY <1>2 DEF CommandStart, PLAYER_STREAM
<1>3. CASE CommandTune
  BY <1>3, TuningKeepsTypes DEF CommandTune
<1>4. CASE CommandSpeak
  BY <1>4, SendKeepsTypes DEF CommandSpeak, TtsMessages
<1> QED
  BY <1>1, <1>2, <1>3, <1>4 DEF CommandStep

-----------------------------------------------------------------------------

LEMMA ThreadsAreUsers == "player" \in Users /\ "tts" \in Users /\ "alarm" \in Users
  BY GlobalsAssumption

-----------------------------------------------------------------------------
(* The threads use the library as BassSharing says.                         *)

LEMMA UserStepsAreBassSteps ==
  ASSUME NEW u \in Users,
         \/ \E noted \in BOOLEAN : ChooseOutput(u, noted)
         \/ Acquire(u) \/ InitFails(u) \/ Release(u) \/ Abandon(u)
  PROVE  BassNext
<1>1. UserStep(u)
  BY DEF UserStep
<1> QED
  BY <1>1 DEF BassNext

LEMMA PlayerUsesBass ==
  ASSUME TypeOK, PlayerStep
  PROVE  [BassNext]_bassVars
<1> USE ThreadsAreUsers, UserStepsAreBassSteps
<1>1. CASE PlayerStarts
  <2>1. used_internal_spk["player"] \in BOOLEAN
    BY DEF TypeOK, BassTypeOK
  <2> QED
    BY <1>1, <2>1 DEF PlayerStarts
<1>2. CASE PlayerAcquires
  BY <1>2 DEF PlayerAcquires
<1>3. CASE PlayerIsRefused
  BY <1>3 DEF PlayerIsRefused
<1>4. CASE PlayerCannotCreate
  BY <1>4 DEF PlayerCannotCreate
<1>5. CASE PlayerCleansUp
  BY <1>5 DEF PlayerCleansUp
<1>6. CASE \/ PlayerCreates \/ PlayerFallsBack \/ PlayerIterates \/ PlayerLosesStream
           \/ PlayerRebuffers \/ PlayerLeavesLoop
  BY <1>6 DEF PlayerCreates, PlayerFallsBack, PlayerIterates, PlayerLosesStream,
              PlayerRebuffers, PlayerLeavesLoop
<1> QED
  BY <1>1, <1>2, <1>3, <1>4, <1>5, <1>6 DEF PlayerStep

LEMMA AlarmUsesBass == AlarmStep => [BassNext]_bassVars
<1> USE ThreadsAreUsers, UserStepsAreBassSteps
<1>1. CASE AlarmWakes
  BY <1>1 DEF AlarmWakes
<1>2. CASE AlarmAcquires
  BY <1>2 DEF AlarmAcquires
<1>3. CASE AlarmIsRefused
  BY <1>3 DEF AlarmIsRefused
<1>4. CASE AlarmCannotPlay
  BY <1>4 DEF AlarmCannotPlay
<1>5. CASE AlarmCleansUp
  BY <1>5 DEF AlarmCleansUp
<1>6. CASE \/ AlarmStarts \/ AlarmSoundEnds \/ AlarmTurnedOff \/ AlarmRangLongEnough
           \/ AlarmPauses
  BY <1>6 DEF AlarmStarts, AlarmSoundEnds, AlarmTurnedOff, AlarmRangLongEnough, AlarmPauses
<1> QED
  BY <1>1, <1>2, <1>3, <1>4, <1>5, <1>6 DEF AlarmStep

LEMMA TtsUsesBass ==
  ASSUME TypeOK, TtsStep
  PROVE  [BassNext]_bassVars
<1> USE ThreadsAreUsers, UserStepsAreBassSteps
<1>1. CASE TtsReads
  <2>1. ampLeftOn \in BOOLEAN
    BY DEF TypeOK, TtsTypeOK
  <2> QED
    BY <1>1, <2>1 DEF TtsReads
<1>2. CASE TtsPrepares
  BY <1>2 DEF TtsPrepares
<1>3. CASE TtsAcquires
  BY <1>3 DEF TtsAcquires
<1>4. CASE TtsIsRefused
  BY <1>4 DEF TtsIsRefused
<1>5. CASE TtsReleases
  BY <1>5 DEF TtsReleases
<1>6. CASE TtsAnnounces \/ TtsLowers \/ TtsSpeaks \/ TtsFinishes
  BY <1>6 DEF TtsAnnounces, TtsLowers, TtsSpeaks, TtsFinishes
<1> QED
  BY <1>1, <1>2, <1>3, <1>4, <1>5, <1>6 DEF TtsStep

LEMMA OthersLeaveBass ==
  SnoozeStep \/ ClockStep \/ KeyboardStep \/ CommandStep \/ MainAutoplays
    => UNCHANGED bassVars
<1>1. SnoozeStep => UNCHANGED bassVars
  BY DEF SnoozeStep, SnoozeLooks, SnoozeNotes
<1>2. ClockStep => UNCHANGED bassVars
  BY DEF ClockStep, ClockTellsHour, ClockCountsSleep, ClockAlarm
<1>3. KeyboardStep => UNCHANGED bassVars
  BY DEF KeyboardStep, KeyOnOff, KeySnooze, KeySleepTimer, KeyReadRss, KeyTuning, KeySetup
<1>4. CommandStep => UNCHANGED bassVars
  BY DEF CommandStep, CommandStop, CommandStart, CommandTune, CommandSpeak
<1>5. MainAutoplays => UNCHANGED bassVars
  BY DEF MainAutoplays
<1> QED
  BY <1>1, <1>2, <1>3, <1>4, <1>5

LEMMA NextUsesBass ==
  ASSUME TypeOK, [Next]_vars
  PROVE  [BassNext]_bassVars
<1>1. UNCHANGED vars => UNCHANGED bassVars
  BY DEF vars
<1>2. Bluetooth => BassNext
  BY DEF Bluetooth, BassNext
<1> QED
  BY <1>1, <1>2, PlayerUsesBass, AlarmUsesBass, TtsUsesBass, OthersLeaveBass
  DEF Next, Player, Alarm, Tts, Snooze, Clock, Keyboard, External

-----------------------------------------------------------------------------
(* Types.                                                                  *)

LEMMA TypeInit == Init => TypeOK
<1> SUFFICES ASSUME Init PROVE TypeOK
  OBVIOUS
<1>1. BassTypeOK
  BY BassTypeInit DEF Init
<1>2. GlobalsTypeOK
  <2>1. G_TTS_thread_input \in Seq(TtsMessages)
    BY DEF Init, GlobalsInit
  <2>2. G_wakeup \in 0 .. StableIterations /\ G_sleep_timer_counter \in 0 .. SleepLimit + 1
    BY GlobalsAssumption DEF Init, GlobalsInit
  <2> QED
    BY <2>1, <2>2 DEF Init, GlobalsInit, GlobalsTypeOK, Modes, SnoozeStates, PLAYER_STOP,
                      SNOOZE_INACTIVE, TTS_STOPPED
<1>3. PlayerTypeOK
  BY GlobalsAssumption, PlayerAssumption
  DEF Init, PlayerInit, PlayerTypeOK, PlayerLocations
<1>4. AlarmTypeOK /\ TtsTypeOK
  <2>1. itemsLeft \in 0 .. NewsItems
    BY NewsAssumption DEF Init, TtsInit
  <2> QED
    BY <2>1 DEF Init, AlarmInit, AlarmTypeOK, AlarmLocations, TtsInit, TtsTypeOK, TtsLocations,
                TtsMessages
<1>5. SnoozeTypeOK
  BY SnoozeAssumption
  DEF Init, SnoozeInit, SnoozeTypeOK, SnoozeStates, SNOOZE_INACTIVE, Modes, PLAYER_STOP
<1>6. ClockTypeOK /\ booting \in BOOLEAN
  BY GlobalsAssumption, AutoplayAssumption DEF Init, ClockInit, ClockTypeOK
<1> QED
  BY <1>1, <1>2, <1>3, <1>4, <1>5, <1>6 DEF TypeOK

LEMMA TypeNext ==
  ASSUME TypeOK, [Next]_vars
  PROVE  TypeOK'
<1>1. BassTypeOK'
  BY NextUsesBass, BassTypeNext DEF TypeOK
<1> USE DEF PlayerTypeOK, AlarmTypeOK, TtsTypeOK, SnoozeTypeOK, ClockTypeOK,
            playerVars, playerCounters, ttsLocals, snoozeVars
<1>2. CASE Player
  BY <1>1, <1>2, PlayerKeepsTypes DEF Player, TypeOK
<1>3. CASE Alarm
  <2>1. AlarmStep /\ UNCHANGED <<playerVars, ttsLocals, snoozeVars, timerTicks, booting>>
    BY <1>3 DEF Alarm
  <2>2. GlobalsTypeOK' /\ AlarmTypeOK'
    BY <2>1, AlarmKeepsTypes
  <2> QED
    BY <1>1, <2>1, <2>2 DEF TypeOK
<1>4. CASE Tts
  BY <1>1, <1>4, TtsKeepsTypes DEF Tts, TypeOK
<1>5. CASE Snooze
  BY <1>1, <1>5, SnoozeKeepsTypes DEF Snooze, TypeOK
<1>6. CASE Clock
  BY <1>1, <1>6, ClockKeepsTypes DEF Clock, TypeOK
<1>7. CASE Keyboard
  BY <1>1, <1>7, KeyboardKeepsTypes DEF Keyboard, TypeOK
<1>8. CASE External
  BY <1>1, <1>8, CommandsKeepTypes DEF External, TypeOK
<1>9. CASE UNCHANGED <<globalVars, threadVars>>
  BY <1>1, <1>9 DEF globalVars, threadVars, TypeOK, GlobalsTypeOK
<1>10. CASE MainAutoplays
  <2>1. GlobalsTypeOK'
    BY <1>10 DEF MainAutoplays, TypeOK, GlobalsTypeOK, Modes, PLAYER_STREAM, modeVars,
                 sleepVars, ttsVars
  <2> QED
    BY <1>1, <1>10, <2>1 DEF MainAutoplays, TypeOK
<1> QED
  BY <1>2, <1>3, <1>4, <1>5, <1>6, <1>7, <1>8, <1>9, <1>10 DEF Next, Bluetooth, vars

(* Every variable keeps its type, the counters their bounds.                *)
THEOREM TypeCorrect == Spec => []TypeOK
  BY TypeInit, TypeNext, PTL DEF Spec

-----------------------------------------------------------------------------
(* The device and the library.                                             *)

(* Whatever the threads do, they use the audio library as BassSharing says.  *)
THEOREM DeviceSharesBass == Spec => BassSpec
<1>1. Init => BassInit0
  BY DEF Init
<1>2. TypeOK /\ [Next]_vars => [BassNext]_bassVars
  BY NextUsesBass
<1> QED
  BY <1>1, <1>2, TypeCorrect, PTL DEF Spec, BassSpec

(* The library is opened before it is used, by one thread, and freed after    *)
(* the last use, by one thread, in the whole device.                        *)
THEOREM DeviceImplementsLibrary == ASSUME ~Torn PROVE Spec => ImplementsLibrary
  BY DeviceSharesBass, SharingImplementsLibrary, PTL

(* No thread finds the library gone while a bit is set.                     *)
THEOREM DeviceKeepsLibraryUp == ASSUME ~Torn PROVE Spec => []BassUpWhileInUse
  BY DeviceSharesBass, LibraryIsUp, PTL
=============================================================================
