--------------------------- MODULE KeyboardThread ---------------------------
(***************************************************************************)
(* PL_dispatch_keyboard_event (keyboard/keyboard-thread.c): what the keys    *)
(* that concern playing, the snooze, the sleep timer and the speech do.      *)
(* G_config.bt_sink is off, there is a station, and the upper row shows the  *)
(* player, so that the tuning keys choose stations.                         *)
(***************************************************************************)
EXTENDS IrisGlobals, ClockThread

CONSTANT Keys   \* the keys somebody may press

ASSUME KeysAssumption ==
  Keys \subseteq {"ONOFF", "ONOFF_LONG", "CENTER", "CENTER_LONG", "TUNING", "SETUP"}

Press(key) ==
  /\ key \in Keys
  /\ G_global_mode = "normal"

(* Wrong: switching the radio off leaves the snooze running.                *)
OnOffKeepingSnooze ==
  /\ Press("ONOFF")
  /\ G_player_mode' = IF G_player_mode = PLAYER_STOP THEN PLAYER_STREAM ELSE PLAYER_STOP
  /\ askedBy' = IF G_player_mode = PLAYER_STOP THEN "user" ELSE "nobody"
  /\ wake' = "no"
  /\ UNCHANGED <<bassVars, G_wakeup, G_stream_index, G_global_mode, G_snooze_state,
                 sleepVars, ttsVars, timerTicks>>

(* KEY_RADIO_ONOFF.  Only switching the radio off resets the snooze and the *)
(* sleep timer; switching the alarm off does not.                          *)
KeyOnOff ==
  /\ Press("ONOFF")
  /\ \/ /\ G_player_mode = PLAYER_STREAM
        /\ G_player_mode' = PLAYER_STOP
        /\ G_sleep_timer_active' = FALSE
        /\ G_sleep_timer_counter' = 0
        /\ timerTicks' = 0
        /\ G_snooze_state' = SNOOZE_RESET
        /\ askedBy' = "nobody"
     \/ /\ G_player_mode = PLAYER_STOP
        /\ G_player_mode' = PLAYER_STREAM
        /\ askedBy' = "user"
        /\ UNCHANGED <<sleepVars, timerTicks, G_snooze_state>>
     \/ /\ G_player_mode = ALARM_ACTIVE
        /\ G_player_mode' = PLAYER_STOP
        /\ UNCHANGED <<askedBy, sleepVars, timerTicks, G_snooze_state>>
  /\ wake' = "no"
  /\ UNCHANGED <<bassVars, G_wakeup, G_stream_index, G_global_mode, ttsVars>>

(* KEY_SNOOZE_CENTER.                                                      *)
KeySnooze ==
  /\ Press("CENTER")
  /\ G_player_mode \in {PLAYER_STREAM, ALARM_ACTIVE}
  /\ G_snooze_state' = IF G_snooze_state = SNOOZE_INACTIVE THEN SNOOZE_ACTIVE ELSE SNOOZE_RESET
  /\ UNCHANGED <<bassVars, modeVars, G_wakeup, wake, G_stream_index, G_global_mode,
                 sleepVars, ttsVars, timerTicks>>

(* Wrong: the timer is switched on where it was left.                       *)
SleepTimerResumes ==
  /\ Press("ONOFF_LONG")
  /\ G_player_mode = PLAYER_STREAM
  /\ G_sleep_timer_active' = ~G_sleep_timer_active
  /\ timerTicks' = 0
  /\ UNCHANGED <<bassVars, modeVars, G_wakeup, wake, G_stream_index, G_global_mode,
                 G_snooze_state, G_sleep_timer_counter, ttsVars>>

(* KEY_RADIO_ONOFF_LONG: the sleep timer on or off.                         *)
KeySleepTimer ==
  /\ Press("ONOFF_LONG")
  /\ G_player_mode = PLAYER_STREAM
  /\ G_sleep_timer_active' = ~G_sleep_timer_active
  /\ G_sleep_timer_counter' = 0
  /\ timerTicks' = 0
  /\ UNCHANGED <<bassVars, modeVars, G_wakeup, wake, G_stream_index, G_global_mode,
                 G_snooze_state, ttsVars>>

(* KEY_SNOOZE_CENTER_LONG: start or stop the news.                          *)
KeyReadRss ==
  /\ Press("CENTER_LONG")
  /\ \/ G_TTS_state = TTS_STOPPED /\ SendTts(TTS_READ_RSS_NOW)
     \/ G_TTS_state = TTS_PLAYING /\ SendTts(TTS_STOP)
  /\ UNCHANGED <<bassVars, modeVars, G_wakeup, wake, G_stream_index, G_global_mode,
                 G_snooze_state, sleepVars, G_TTS_state, timerTicks>>

(* Wrong: the last station is followed by one that does not exist.          *)
TuneWithoutWrapping == G_stream_index' = G_stream_index + 1

(* The next or the previous station, wrapping around.                      *)
OtherStation ==
  \/ G_stream_index' = IF G_stream_index = Stations - 1 THEN 0 ELSE G_stream_index + 1
  \/ G_stream_index' = IF G_stream_index = 0 THEN Stations - 1 ELSE G_stream_index - 1

KeyTuning ==
  /\ Press("TUNING")
  /\ G_player_mode \in {PLAYER_STREAM, PLAYER_STOP}
  /\ OtherStation
  /\ wake' = "no"
  /\ UNCHANGED <<bassVars, modeVars, G_wakeup, G_global_mode, G_snooze_state,
                 sleepVars, ttsVars, timerTicks>>

(* KEY_SETUP.  In setup the other keys go to the setup thread.              *)
KeySetup ==
  /\ "SETUP" \in Keys
  /\ G_global_mode' = IF G_global_mode = "setup" THEN "normal" ELSE "setup"
  /\ UNCHANGED <<bassVars, modeVars, G_wakeup, wake, G_stream_index, G_snooze_state,
                 sleepVars, ttsVars, timerTicks>>

KeyboardStep ==
  KeyOnOff \/ KeySnooze \/ KeySleepTimer \/ KeyReadRss \/ KeyTuning \/ KeySetup
=============================================================================
