----------------------------- MODULE AlarmThread -----------------------------
(***************************************************************************)
(* PL_alarm_thread and PL_run_alarm (alarm/alarm-thread.c): waits for the    *)
(* mode to become ALARM_ACTIVE and plays the alarm sound until it ends, the  *)
(* mode changes, or it has rung long enough.                               *)
(***************************************************************************)
EXTENDS IrisGlobals

CONSTANTS
  HasSounds,    \* G_alarm_sound_count > 0
  AlarmFaults   \* what may come about, see AlarmFaultKinds

AlarmFaultKinds ==
  {"play",   \* the channel cannot be started
   "end",    \* the channel stops: the sound is not looped, or breaks off
   "long"}   \* the sound has been ringing for ALARM_DURATION

ASSUME AlarmAssumption == HasSounds \in BOOLEAN /\ AlarmFaults \subseteq AlarmFaultKinds

VARIABLE alarmPc

AlarmLocations ==
  {"waiting",    \* for ALARM_ACTIVE
   "acquire",    \* amplifier, BASS_Init, setting the bit
   "start",      \* creating and starting the channel
   "ringing",
   "cleanUp",    \* clearing the bit, freeing the library
   "pause"}      \* one second before the mode is looked at again

AlarmTypeOK == alarmPc \in AlarmLocations

AlarmInit == alarmPc = "waiting"

AlarmGoes(from, to) == alarmPc = from /\ alarmPc' = to

othersOfAlarm == <<askedBy, G_stream_index, G_global_mode, G_snooze_state,
                   sleepVars, ttsVars>>

AlarmWakes ==
  /\ G_player_mode = ALARM_ACTIVE
  /\ G_wakeup' = 0
  /\ \/ HasSounds /\ AlarmGoes("waiting", "acquire") /\ ChooseOutput("alarm", FALSE)
     \/ ~HasSounds /\ AlarmGoes("waiting", "pause") /\ UNCHANGED bassVars
  /\ UNCHANGED <<G_player_mode, wake, othersOfAlarm>>

AlarmAcquires ==
  /\ Acquire("alarm")
  /\ AlarmGoes("acquire", IF at'["alarm"] = "in" THEN "start" ELSE "acquire")
  /\ UNCHANGED globalVars

(* The mode is still ALARM_ACTIVE: the thread tries again after the pause.  *)
AlarmIsRefused ==
  /\ InitFails("alarm")
  /\ AlarmGoes("acquire", "pause")
  /\ UNCHANGED globalVars

AlarmStarts ==
  /\ AlarmGoes("start", "ringing")
  /\ wake' = "no"
  /\ UNCHANGED <<bassVars, G_player_mode, G_wakeup, othersOfAlarm>>

(* BASS_ChannelPlay fails: the bit stays set and the amplifier on.         *)
AlarmCannotPlay ==
  /\ "play" \in AlarmFaults
  /\ AlarmGoes("start", "pause")
  /\ Abandon("alarm")
  /\ G_player_mode' = PLAYER_STOP
  /\ UNCHANGED <<G_wakeup, wake, othersOfAlarm>>

(* The sound ended: this is looked at before the mode, and the mode becomes *)
(* PLAYER_STOP whatever it was.                                            *)
AlarmSoundEnds ==
  /\ "end" \in AlarmFaults
  /\ AlarmGoes("ringing", "cleanUp")
  /\ G_player_mode' = PLAYER_STOP
  /\ UNCHANGED <<bassVars, G_wakeup, wake, othersOfAlarm>>

AlarmTurnedOff ==
  /\ G_player_mode # ALARM_ACTIVE
  /\ AlarmGoes("ringing", "cleanUp")
  /\ UNCHANGED <<bassVars, globalVars>>

(* alarm_duration is read uninitialised, so it may be reached at any time.  *)
AlarmRangLongEnough ==
  /\ "long" \in AlarmFaults
  /\ G_player_mode = ALARM_ACTIVE
  /\ AlarmGoes("ringing", "cleanUp")
  /\ G_player_mode' = PLAYER_STOP
  /\ UNCHANGED <<bassVars, G_wakeup, wake, othersOfAlarm>>

AlarmCleansUp ==
  /\ Release("alarm")
  /\ AlarmGoes("cleanUp", IF at'["alarm"] = "out" THEN "pause" ELSE "cleanUp")
  /\ UNCHANGED globalVars

AlarmPauses ==
  /\ AlarmGoes("pause", "waiting")
  /\ UNCHANGED <<bassVars, globalVars>>

AlarmStep ==
  \/ AlarmWakes     \/ AlarmAcquires  \/ AlarmIsRefused
  \/ AlarmStarts    \/ AlarmCannotPlay
  \/ AlarmSoundEnds \/ AlarmTurnedOff \/ AlarmRangLongEnough
  \/ AlarmCleansUp  \/ AlarmPauses
=============================================================================
