-------------------------- MODULE IrisSafety_proofs --------------------------
(***************************************************************************)
(* The safety properties of IrisSystem for all values of the constants, each *)
(* from the inductive invariant that IrisSystem states for it.               *)
(***************************************************************************)
EXTENDS IrisSystem_proofs

(* The modes, the states of the snooze and of the speech are distinct.       *)
LEMMA DistinctNames ==
  /\ PLAYER_STOP # PLAYER_STREAM /\ PLAYER_STOP # ALARM_ACTIVE /\ PLAYER_STREAM # ALARM_ACTIVE
  /\ SNOOZE_ACTIVE # SNOOZE_RESET /\ SNOOZE_ACTIVE # SNOOZE_INACTIVE
  /\ TTS_SAY_CURRENT_TIME # TTS_STOP /\ TTS_SAY_CURRENT_TIME # TTS_READ_RSS_NOW
  BY DEF PLAYER_STOP, PLAYER_STREAM, ALARM_ACTIVE, SNOOZE_ACTIVE, SNOOZE_RESET, SNOOZE_INACTIVE,
         TTS_SAY_CURRENT_TIME, TTS_STOP, TTS_READ_RSS_NOW

-----------------------------------------------------------------------------
(* Off means off.                                                          *)

LEMMA OffInvNext ==
  ASSUME OffInv, [Next]_vars
  PROVE  OffInv'
<1> USE DistinctNames DEF OffInv
<1>1. CASE UNCHANGED modeVars /\ UNCHANGED G_snooze_state
  BY <1>1 DEF modeVars
(* The player and the alarm only stop, or ring for the alarm.               *)
<1>2. CASE \/ UNCHANGED <<askedBy, G_snooze_state>> /\ G_player_mode' = PLAYER_STOP
           \/ askedBy' = "alarm"
  BY <1>2
<1>3. CASE PlayerStep
  <2>1. CASE PlayerIsRefused
    BY <2>1 DEF PlayerIsRefused
  <2>2. CASE PlayerFallsBack
    BY <2>2 DEF PlayerFallsBack, modeVars
  <2>3. CASE PlayerLosesStream
    BY <2>3 DEF PlayerLosesStream
  <2>4. CASE PlayerCannotCreate
    BY <2>4 DEF PlayerCannotCreate
  <2>5. CASE \/ PlayerStarts \/ PlayerAcquires \/ PlayerRebuffers \/ PlayerLeavesLoop
             \/ PlayerCleansUp \/ PlayerCreates \/ PlayerIterates
    BY <2>5, <1>1 DEF PlayerStarts, PlayerAcquires, PlayerRebuffers, PlayerLeavesLoop,
                      PlayerCleansUp, PlayerCreates, PlayerIterates, globalVars, modeVars
  <2> QED
    BY <1>3, <2>1, <2>2, <2>3, <2>4, <2>5 DEF PlayerStep
<1>4. CASE AlarmStep
  <2>1. CASE AlarmCannotPlay \/ AlarmSoundEnds \/ AlarmRangLongEnough
    BY <2>1, <1>2 DEF AlarmCannotPlay, AlarmSoundEnds, AlarmRangLongEnough, othersOfAlarm
  <2>2. CASE \/ AlarmWakes \/ AlarmAcquires \/ AlarmIsRefused \/ AlarmStarts \/ AlarmTurnedOff
             \/ AlarmCleansUp \/ AlarmPauses
    BY <2>2, <1>1 DEF AlarmWakes, AlarmAcquires, AlarmIsRefused, AlarmStarts, AlarmTurnedOff,
                      AlarmCleansUp, AlarmPauses, othersOfAlarm, globalVars, modeVars
  <2> QED
    BY <1>4, <2>1, <2>2 DEF AlarmStep
<1>5. CASE TtsStep
  BY <1>5, <1>1 DEF TtsStep, TtsReads, TtsAnnounces, TtsPrepares, TtsAcquires, TtsIsRefused, TtsLowers,
                    TtsSpeaks, TtsReleases, TtsFinishes, othersOfTts, globalVars, modeVars
(* A snooze is active only when somebody has asked for something.           *)
<1>6. CASE SnoozeStep
  <2>1. CASE G_snooze_state = SNOOZE_ACTIVE
    BY <1>6, <2>1 DEF SnoozeStep, SnoozeLooks, SnoozeNotes, globalVars
  <2>2. CASE G_snooze_state # SNOOZE_ACTIVE
    BY <1>6, <2>2 DEF SnoozeStep, SnoozeLooks, SnoozeNotes, globalVars
  <2> QED
    BY <2>1, <2>2
<1>7. CASE ClockStep
  BY <1>7 DEF ClockStep, ClockTellsHour, ClockCountsSleep, ClockAlarm, modeVars
<1>8. CASE KeyboardStep
  <2>1. CASE KeyOnOff
    BY <2>1 DEF KeyOnOff
  <2>2. CASE KeySnooze
    BY <2>2 DEF KeySnooze, modeVars
  <2>3. CASE KeySleepTimer \/ KeyReadRss \/ KeyTuning \/ KeySetup
    BY <2>3, <1>1 DEF KeySleepTimer, KeyReadRss, KeyTuning, KeySetup, modeVars
  <2> QED
    BY <1>8, <2>1, <2>2, <2>3 DEF KeyboardStep
<1>9. CASE CommandStep
  BY <1>9 DEF CommandStep, CommandStop, CommandStart, CommandTune, CommandSpeak, modeVars
<1>10. CASE MainAutoplays
  BY <1>10 DEF MainAutoplays, modeVars
<1>11. CASE UNCHANGED globalVars
  BY <1>11, <1>1 DEF globalVars, modeVars
<1> QED
  BY <1>3, <1>4, <1>5, <1>6, <1>7, <1>8, <1>9, <1>10, <1>11
  DEF Next, Player, Alarm, Tts, Snooze, Clock, Keyboard, External, Bluetooth, vars

(* Once the user has switched the radio off nothing but the user, a command   *)
(* or an alarm makes it heard: whatever the length of the snooze and however  *)
(* its thread's polls fall between the keys.                                *)
THEOREM OffStaysOff == Spec => []OffMeansOff
<1>1. Init => OffInv
  BY DistinctNames DEF Init, GlobalsInit, OffInv
<1>2. OffInv /\ [Next]_vars => OffInv'
  BY OffInvNext
<1>3. OffInv => OffMeansOff
  BY DEF OffInv, OffMeansOff
<1> QED
  BY <1>1, <1>2, <1>3, PTL DEF Spec

-----------------------------------------------------------------------------
(* The wake-up is forgiven only to a stable stream.                         *)

LEMMA AtMostOneAhead == ASSUME NEW a \in Nat, NEW b \in Nat, a <= 1 PROVE a <= b + 1
  OBVIOUS

LEMMA WakeInvInit == Init => WakeInv
  BY DEF Init, PlayerInit, WakeInv

LEMMA WakeInvNext ==
  ASSUME TypeOK, TypeOK', WakeInv, [Next]_vars
  PROVE  WakeInv'
<1>1. /\ StableIterations \in Nat \ {0}
      /\ G_wakeup \in 0 .. StableIterations /\ goodIterations \in 0 .. StableIterations
      /\ G_wakeup' \in 0 .. StableIterations /\ goodIterations' \in 0 .. StableIterations
  BY GlobalsAssumption DEF TypeOK, GlobalsTypeOK, PlayerTypeOK
<1> USE <1>1 DEF WakeInv
(* A wake-up that begins, or is forgotten, is no problem.                   *)
<1>2. CASE G_wakeup' = 0 \/ G_wakeup' = 1
  <2>1. goodIterations' \in Nat
    BY <1>1
  <2>2. G_wakeup' \in Nat /\ G_wakeup' <= 1
    BY <1>2
  <2> QED
    BY <2>1, <2>2, AtMostOneAhead
<1>3. CASE UNCHANGED <<playerPc, G_wakeup, goodIterations>>
  BY <1>3
<1>4. CASE PlayerStep
  <2>1. CASE PlayerIterates
    <3>1. CASE G_wakeup = 0 \/ G_wakeup = StableIterations
      BY <2>1, <3>1, <1>2 DEF PlayerIterates
    <3>2. CASE ~(G_wakeup = 0 \/ G_wakeup = StableIterations)
      <4>1. /\ playerPc = "play" /\ G_wakeup' = G_wakeup + 1
            /\ goodIterations' = IF goodIterations = StableIterations
                                   THEN goodIterations ELSE goodIterations + 1
        BY <2>1, <3>2 DEF PlayerIterates, PlayerGoes
      <4> QED
        BY <4>1, <3>2
    <3> QED
      BY <3>1, <3>2
  <2>2. CASE PlayerCreates
    BY <2>2, <1>2 DEF PlayerCreates
  <2>3. CASE \/ PlayerStarts \/ PlayerAcquires \/ PlayerIsRefused \/ PlayerCannotCreate
             \/ PlayerFallsBack \/ PlayerLosesStream \/ PlayerRebuffers
             \/ PlayerLeavesLoop \/ PlayerCleansUp
    <3>1. playerPc' # "play"
      BY <2>3 DEF PlayerStarts, PlayerAcquires, PlayerIsRefused, PlayerCannotCreate,
                  PlayerFallsBack, PlayerLosesStream, PlayerRebuffers, PlayerLeavesLoop,
                  PlayerCleansUp, PlayerGoes
    <3> QED
      BY <3>1
  <2> QED
    BY <1>4, <2>1, <2>2, <2>3 DEF PlayerStep
<1>5. CASE AlarmStep /\ UNCHANGED playerVars
  <2>1. CASE AlarmWakes
    BY <2>1, <1>2 DEF AlarmWakes
  <2>2. CASE \/ AlarmAcquires \/ AlarmIsRefused \/ AlarmStarts \/ AlarmCannotPlay
             \/ AlarmSoundEnds \/ AlarmTurnedOff \/ AlarmRangLongEnough \/ AlarmCleansUp
             \/ AlarmPauses
    <3>1. UNCHANGED G_wakeup
      BY <2>2 DEF AlarmAcquires, AlarmIsRefused, AlarmStarts, AlarmCannotPlay, AlarmSoundEnds,
                  AlarmTurnedOff, AlarmRangLongEnough, AlarmCleansUp, AlarmPauses, globalVars
    <3> QED
      BY <1>5, <1>3, <3>1 DEF playerVars, playerCounters
  <2> QED
    BY <1>5, <2>1, <2>2 DEF AlarmStep
<1>6. CASE ClockStep /\ UNCHANGED playerVars
  <2>1. G_wakeup' = 1 \/ UNCHANGED G_wakeup
    BY <1>6 DEF ClockStep, ClockTellsHour, ClockCountsSleep, ClockAlarm
  <2> QED
    BY <1>6, <1>2, <1>3, <2>1 DEF playerVars, playerCounters
<1>7. CASE (TtsStep \/ SnoozeStep \/ KeyboardStep \/ CommandStep) /\ UNCHANGED playerVars
  <2>1. TtsStep => UNCHANGED G_wakeup
    BY DEF TtsStep, TtsReads, TtsAnnounces, TtsPrepares, TtsAcquires, TtsIsRefused, TtsLowers, TtsSpeaks,
           TtsReleases, TtsFinishes, othersOfTts, globalVars
  <2>2. SnoozeStep => UNCHANGED G_wakeup
    BY DEF SnoozeStep, SnoozeLooks, SnoozeNotes, globalVars
  <2>3. KeyboardStep => UNCHANGED G_wakeup
    BY DEF KeyboardStep, KeyOnOff, KeySnooze, KeySleepTimer, KeyReadRss, KeyTuning, KeySetup
  <2>4. CommandStep => UNCHANGED G_wakeup
    BY DEF CommandStep, CommandStop, CommandStart, CommandTune, CommandSpeak
  <2> QED
    BY <1>7, <1>3, <2>1, <2>2, <2>3, <2>4 DEF playerVars, playerCounters
<1>8. CASE MainAutoplays
  BY <1>8, <1>3 DEF MainAutoplays, playerVars, playerCounters
<1>9. CASE UNCHANGED <<globalVars, threadVars>>
  BY <1>9, <1>3 DEF globalVars, threadVars, playerVars, playerCounters
<1> QED
  BY <1>4, <1>5, <1>6, <1>7, <1>8, <1>9
  DEF Next, Player, Alarm, Tts, Snooze, Clock, Keyboard, External, Bluetooth, vars

(* Who clears G_wakeup: the play loop after enough iterations, or the alarm. *)
LEMMA ForgivenStep ==
  ASSUME TypeOK, WakeInv, [Next]_vars, G_wakeup > 0, G_wakeup' = 0
  PROVE  goodIterations' = StableIterations \/ G_player_mode = ALARM_ACTIVE
<1>1. /\ StableIterations \in Nat \ {0}
      /\ G_wakeup \in 0 .. StableIterations /\ goodIterations \in 0 .. StableIterations
  BY GlobalsAssumption DEF TypeOK, GlobalsTypeOK, PlayerTypeOK
<1>2. G_wakeup' # G_wakeup
  BY <1>1
<1>3. CASE PlayerIterates
  <2>1. /\ playerPc = "play" /\ G_wakeup = StableIterations
        /\ goodIterations' = IF goodIterations = StableIterations
                               THEN goodIterations ELSE goodIterations + 1
    BY <1>1, <1>3 DEF PlayerIterates, PlayerGoes
  <2> QED
    BY <1>1, <2>1 DEF WakeInv
<1>4. CASE AlarmWakes
  BY <1>4 DEF AlarmWakes
<1>5. PlayerStep => PlayerIterates
  <2>1. ~PlayerCreates
    BY <1>1 DEF PlayerCreates
  <2> QED
    BY <1>2, <2>1 DEF PlayerStep, PlayerStarts, PlayerAcquires, PlayerIsRefused,
      PlayerCannotCreate, PlayerFallsBack, PlayerLosesStream, PlayerRebuffers,
      PlayerLeavesLoop, PlayerCleansUp, globalVars
<1>6. AlarmStep => AlarmWakes
  BY <1>2 DEF AlarmStep, AlarmAcquires, AlarmIsRefused, AlarmStarts, AlarmCannotPlay,
    AlarmSoundEnds, AlarmTurnedOff, AlarmRangLongEnough, AlarmCleansUp, AlarmPauses, globalVars
<1>7. ~TtsStep
  BY <1>2 DEF TtsStep, TtsReads, TtsAnnounces, TtsPrepares, TtsAcquires, TtsIsRefused, TtsLowers, TtsSpeaks,
    TtsReleases, TtsFinishes, othersOfTts, globalVars
<1>8. ~SnoozeStep /\ ~ClockStep
  BY <1>2 DEF SnoozeStep, SnoozeLooks, SnoozeNotes, globalVars,
    ClockStep, ClockTellsHour, ClockCountsSleep, ClockAlarm
<1>9. ~KeyboardStep /\ ~CommandStep /\ ~MainAutoplays
  BY <1>2 DEF KeyboardStep, KeyOnOff, KeySnooze, KeySleepTimer, KeyReadRss, KeyTuning, KeySetup,
    CommandStep, CommandStop, CommandStart, CommandTune, CommandSpeak, MainAutoplays
<1>10. ~UNCHANGED globalVars
  BY <1>2 DEF globalVars
<1> QED
  BY <1>3, <1>4, <1>5, <1>6, <1>7, <1>8, <1>9, <1>10
  DEF Next, Player, Alarm, Tts, Snooze, Clock, Keyboard, External, Bluetooth, vars

(* However long a stream takes to be stable, whatever alarms come meanwhile   *)
(* and however often it is created anew: the wake-up is kept until then.     *)
THEOREM ForgivenWhenStable == Spec => StableBeforeForgiven
<1>1. Init => WakeInv
  BY WakeInvInit
<1>2. TypeOK /\ TypeOK' /\ WakeInv /\ [Next]_vars => WakeInv'
  BY WakeInvNext
<1>3. TypeOK /\ WakeInv /\ [Next]_vars
        => [G_wakeup > 0 /\ G_wakeup' = 0
              => goodIterations' = StableIterations \/ G_player_mode = ALARM_ACTIVE]_vars
  BY ForgivenStep
<1> QED
  BY <1>1, <1>2, <1>3, TypeCorrect, PTL DEF Spec, StableBeforeForgiven

-----------------------------------------------------------------------------
(* The sleep timer keeps time.                                              *)

LEMMA SleepInvInit == Init => SleepInv
  BY DEF Init, GlobalsInit, SleepInv

(* A tick, in arithmetic alone: what the count becomes, and what the ticks.  *)
LEMMA TickKeepsCount ==
  ASSUME NEW limit \in Nat, NEW count \in 0 .. limit + 1, NEW ticks \in 0 .. limit,
         count = ticks \/ count > limit
  PROVE  LET counted == IF count <= limit THEN count + 1 ELSE count
             ticked  == IF ticks < limit THEN ticks + 1 ELSE ticks
         IN  /\ counted = ticked \/ counted > limit
             /\ counted = limit => ticked = limit
  OBVIOUS

LEMMA SleepTick ==
  ASSUME SleepLimit # 0, TypeOK, SleepInv, ClockCountsSleep
  PROVE  /\ SleepInv'
         /\ G_player_mode' # G_player_mode => G_sleep_timer_active /\ timerTicks' = SleepLimit
<1>1. /\ SleepLimit \in Nat /\ G_sleep_timer_counter \in 0 .. SleepLimit + 1
      /\ timerTicks \in 0 .. SleepLimit
  BY GlobalsAssumption DEF TypeOK, GlobalsTypeOK, ClockTypeOK
<1>2. G_sleep_timer_active \in BOOLEAN
  BY DEF TypeOK, GlobalsTypeOK
<1>3. CASE ~G_sleep_timer_active
  <2>1. /\ UNCHANGED <<G_player_mode, G_sleep_timer_active>>
        /\ G_sleep_timer_counter' = 0
    BY <1>3 DEF ClockCountsSleep, SleepInv
  <2> QED
    BY <1>3, <2>1 DEF SleepInv
<1>4. CASE G_sleep_timer_active
  <2> DEFINE counted == IF G_sleep_timer_counter <= SleepLimit
                          THEN G_sleep_timer_counter + 1 ELSE G_sleep_timer_counter
             ticked  == IF timerTicks < SleepLimit THEN timerTicks + 1 ELSE timerTicks
  <2>1. timerTicks' = ticked
    BY <1>4 DEF ClockCountsSleep
  <2>2. /\ counted = ticked \/ counted > SleepLimit
        /\ counted = SleepLimit => ticked = SleepLimit
    BY <1>1, <1>4, TickKeepsCount DEF SleepInv
  <2>3. CASE counted = SleepLimit /\ G_global_mode # "setup"
    <3>1. G_sleep_timer_active' = FALSE /\ G_sleep_timer_counter' = 0
      BY <1>4, <2>3 DEF ClockCountsSleep
    <3> QED
      BY <1>4, <2>1, <2>2, <2>3, <3>1 DEF SleepInv
  <2>4. CASE ~(counted = SleepLimit /\ G_global_mode # "setup")
    <3>1. /\ UNCHANGED <<G_player_mode, G_sleep_timer_active>>
          /\ G_sleep_timer_counter' = counted
      BY <1>4, <2>4 DEF ClockCountsSleep
    <3> HIDE DEF counted, ticked
    <3> QED
      BY <1>4, <2>1, <2>2, <3>1 DEF SleepInv
  <2> QED
    BY <2>3, <2>4
<1> QED
  BY <1>2, <1>3, <1>4

LEMMA SleepInvNext ==
  ASSUME SleepLimit # 0, TypeOK, SleepInv, [Next]_vars
  PROVE  SleepInv'
<1>1. CASE UNCHANGED <<G_sleep_timer_active, G_sleep_timer_counter, timerTicks>>
  BY <1>1 DEF SleepInv
<1>2. CASE KeyboardStep
  <2>1. CASE KeyOnOff
    BY <2>1, <1>1 DEF KeyOnOff, SleepInv, sleepVars
  <2>2. CASE KeySleepTimer
    BY <2>2 DEF KeySleepTimer, SleepInv
  <2>3. CASE KeySnooze \/ KeyReadRss \/ KeyTuning \/ KeySetup
    BY <2>3, <1>1 DEF KeySnooze, KeyReadRss, KeyTuning, KeySetup, sleepVars
  <2> QED
    BY <1>2, <2>1, <2>2, <2>3 DEF KeyboardStep
<1>3. CASE ClockStep
  <2>1. CASE ClockCountsSleep
    BY <2>1, SleepTick
  <2>2. CASE ClockTellsHour \/ \E type \in AlarmTypes : ClockAlarm(type)
    BY <2>2, <1>1 DEF ClockTellsHour, ClockAlarm, sleepVars
  <2> QED
    BY <1>3, <2>1, <2>2 DEF ClockStep
<1>4. CASE CommandStep
  BY <1>4, <1>1 DEF CommandStep, CommandStop, CommandStart, CommandTune, CommandSpeak, sleepVars
<1>5. CASE MainAutoplays
  BY <1>5, <1>1 DEF MainAutoplays, sleepVars
<1>6. CASE PlayerStep /\ UNCHANGED timerTicks
  BY <1>6, <1>1 DEF PlayerStep, PlayerStarts, PlayerAcquires, PlayerIsRefused, PlayerCreates,
    PlayerCannotCreate, PlayerFallsBack, PlayerIterates, PlayerLosesStream, PlayerRebuffers,
    PlayerLeavesLoop, PlayerCleansUp, globalVars, sleepVars
<1>7. CASE AlarmStep /\ UNCHANGED timerTicks
  BY <1>7, <1>1 DEF AlarmStep, AlarmWakes, AlarmAcquires, AlarmIsRefused, AlarmStarts,
    AlarmCannotPlay, AlarmSoundEnds, AlarmTurnedOff, AlarmRangLongEnough, AlarmCleansUp,
    AlarmPauses, othersOfAlarm, globalVars, sleepVars
<1>8. CASE TtsStep /\ UNCHANGED timerTicks
  BY <1>8, <1>1 DEF TtsStep, TtsReads, TtsAnnounces, TtsPrepares, TtsAcquires, TtsIsRefused, TtsLowers,
    TtsSpeaks, TtsReleases, TtsFinishes, othersOfTts, globalVars, sleepVars
<1>9. CASE SnoozeStep /\ UNCHANGED timerTicks
  BY <1>9, <1>1 DEF SnoozeStep, SnoozeLooks, SnoozeNotes, globalVars, sleepVars
<1>10. CASE UNCHANGED <<globalVars, threadVars>>
  BY <1>10, <1>1 DEF globalVars, threadVars
<1> QED
  BY <1>2, <1>3, <1>4, <1>5, <1>6, <1>7, <1>8, <1>9, <1>10
  DEF Next, Player, Alarm, Tts, Snooze, Clock, Keyboard, External, Bluetooth, vars

(* The sleep timer stops the radio neither early nor when it is off, whatever *)
(* its length and however often it is switched: unless its length is zero,   *)
(* for then it stops the radio at every tick.                               *)
THEOREM SleepTimerIsExact == ASSUME SleepLimit # 0 PROVE Spec => SleepTimerKeepsTime
<1>1. Init => SleepInv
  BY SleepInvInit
<1>2. TypeOK /\ SleepInv /\ [Next]_vars => SleepInv'
  BY SleepInvNext
<1>3. TypeOK /\ SleepInv /\ [Next]_vars
        => [ClockCountsSleep /\ G_player_mode' # G_player_mode
              => G_sleep_timer_active /\ timerTicks' = SleepLimit]_vars
  BY SleepTick
<1> QED
  BY <1>1, <1>2, <1>3, TypeCorrect, PTL DEF Spec, SleepTimerKeepsTime

-----------------------------------------------------------------------------
(* The speech thread is silent when it reads its pipe.                      *)

LEMMA SpeechInvInit == Init => SpeechInv
  BY DEF Init, TtsInit, GlobalsInit, SpeechInv, SilentWhenReading

LEMMA SpeechInvNext ==
  ASSUME TypeOK, SpeechInv, [Next]_vars
  PROVE  SpeechInv'
<1> USE DistinctNames DEF SpeechInv, SilentWhenReading, TtsGoes
<1>1. "tts" \in Users /\ "player" \in Users /\ "alarm" \in Users
      /\ at \in [Users -> Locations]
  BY ThreadsAreUsers DEF TypeOK, BassTypeOK
<1>2. CASE UNCHANGED <<ttsLocals, G_TTS_state, at["tts"]>>
  BY <1>2 DEF ttsLocals
<1>3. CASE TtsStep
  <2>1. CASE TtsReads
    BY <2>1 DEF TtsReads
  <2>2. CASE TtsPrepares
    BY <2>2 DEF TtsPrepares
  <2>3. CASE TtsAcquires
    BY <2>3 DEF TtsAcquires
  <2>4. CASE TtsIsRefused
    BY <2>4 DEF TtsIsRefused
  <2>5. CASE TtsLowers
    BY <2>5 DEF TtsLowers, bassVars
  <2>6. CASE TtsSpeaks
    BY <2>6 DEF TtsSpeaks, bassVars
  <2>7. CASE TtsReleases
    BY <2>7 DEF TtsReleases, BitCleared
  <2>8. CASE TtsFinishes
    BY <2>8 DEF TtsFinishes
  <2>9. CASE TtsAnnounces
    BY <2>9 DEF TtsAnnounces
  <2> QED
    BY <1>3, <2>1, <2>2, <2>3, <2>4, <2>5, <2>6, <2>7, <2>8, <2>9 DEF TtsStep
(* The other users of the library move themselves only.                     *)
<1>4. ASSUME NEW u \in Users, u # "tts",
             \/ \E noted \in BOOLEAN : ChooseOutput(u, noted)
             \/ Acquire(u) \/ InitFails(u) \/ Release(u) \/ Abandon(u)
      PROVE  at'["tts"] = at["tts"]
  BY <1>1, <1>4 DEF ChooseOutput, Acquire, TurnOnAmp, JoinUsers, FindUnused, InitSucceeds,
    SetBit, InitFails, ClearBit, Release, FreeBass, TurnOffAmp, Abandon,
    Goes
<1>11. used_internal_spk["player"] \in BOOLEAN
  BY <1>1 DEF TypeOK, BassTypeOK
<1>5. PlayerStep => at'["tts"] = at["tts"] /\ UNCHANGED G_TTS_state
  BY <1>1, <1>4, <1>11 DEF PlayerStep, PlayerStarts, PlayerAcquires, PlayerIsRefused, PlayerCreates,
    PlayerCannotCreate, PlayerFallsBack, PlayerIterates, PlayerLosesStream, PlayerRebuffers,
    PlayerLeavesLoop, PlayerCleansUp, globalVars, ttsVars, bassVars
<1>6. AlarmStep => at'["tts"] = at["tts"] /\ UNCHANGED G_TTS_state
  BY <1>1, <1>4 DEF AlarmStep, AlarmWakes, AlarmAcquires, AlarmIsRefused, AlarmStarts,
    AlarmCannotPlay, AlarmSoundEnds, AlarmTurnedOff, AlarmRangLongEnough, AlarmCleansUp,
    AlarmPauses, othersOfAlarm, globalVars, ttsVars, bassVars
<1>7. SnoozeStep \/ ClockStep \/ KeyboardStep \/ CommandStep \/ MainAutoplays
        => UNCHANGED G_TTS_state
  BY DEF SnoozeStep, SnoozeLooks, SnoozeNotes, ClockStep, ClockTellsHour, ClockCountsSleep,
    ClockAlarm, KeyboardStep, KeyOnOff, KeySnooze, KeySleepTimer, KeyReadRss, KeyTuning, KeySetup,
    CommandStep, CommandStop, CommandStart, CommandTune, CommandSpeak, MainAutoplays,
    globalVars, ttsVars
<1>8. SnoozeStep \/ ClockStep \/ KeyboardStep \/ CommandStep \/ MainAutoplays
        => UNCHANGED at
  BY OthersLeaveBass DEF bassVars
<1>9. Bluetooth \/ UNCHANGED vars => UNCHANGED <<ttsLocals, G_TTS_state, at>>
  BY DEF Bluetooth, BtIndicator, vars, globalVars, threadVars, bassVars
<1>10. MainAutoplays => UNCHANGED ttsLocals
  BY DEF MainAutoplays
<1> QED
  BY <1>2, <1>3, <1>5, <1>6, <1>7, <1>8, <1>9, <1>10
  DEF Next, Player, Alarm, Tts, Snooze, Clock, Keyboard, External

(* The speech thread never reads its pipe while it says that it speaks: its   *)
(* test on TTS_PLAYING after the read never ends the thread, even when the    *)
(* writes of G_BASS_in_use are torn.                                        *)
THEOREM ReadsInSilence == Spec => []SilentWhenReading
<1>1. Init => SpeechInv
  BY SpeechInvInit
<1>2. TypeOK /\ SpeechInv /\ [Next]_vars => SpeechInv'
  BY SpeechInvNext
<1>3. SpeechInv => SilentWhenReading
  BY DEF SpeechInv
<1> QED
  BY <1>1, <1>2, <1>3, TypeCorrect, PTL DEF Spec
=============================================================================
