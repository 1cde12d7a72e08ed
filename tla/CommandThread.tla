---------------------------- MODULE CommandThread ----------------------------
(***************************************************************************)
(* PL_command_thread (system/commands.c): the commands that arrive at        *)
(* /var/run/iris_cmd, from the web pages and the scripts.  They change the    *)
(* mode without the conditions the keys have.                              *)
(***************************************************************************)
EXTENDS KeyboardThread

CONSTANT Commands   \* the commands somebody may send

ASSUME CommandsAssumption == Commands \subseteq {"STOP", "START", "NEXT", "TIME", "RSS"}

CommandStop ==
  /\ "STOP" \in Commands
  /\ G_player_mode' = PLAYER_STOP
  /\ wake' = "no"
  /\ UNCHANGED <<bassVars, askedBy, G_wakeup, G_stream_index, G_global_mode,
                 G_snooze_state, sleepVars, ttsVars, timerTicks>>

CommandStart ==
  /\ "START" \in Commands
  /\ G_player_mode' = PLAYER_STREAM
  /\ askedBy' = "user"
  /\ wake' = "no"
  /\ UNCHANGED <<bassVars, G_wakeup, G_stream_index, G_global_mode, G_snooze_state,
                 sleepVars, ttsVars, timerTicks>>

(* CMD_STREAM_NEXT and CMD_STREAM_PREV, in any mode.                        *)
CommandTune ==
  /\ "NEXT" \in Commands
  /\ OtherStation
  /\ wake' = "no"
  /\ UNCHANGED <<bassVars, modeVars, G_wakeup, G_global_mode, G_snooze_state,
                 sleepVars, ttsVars, timerTicks>>

(* CMD_TELL_TIME and CMD_READ_RSS, whatever the speech thread is doing.     *)
CommandSpeak ==
  /\ \/ "TIME" \in Commands /\ SendTts(TTS_SAY_CURRENT_TIME)
     \/ "RSS" \in Commands /\ SendTts(TTS_READ_RSS_NOW)
  /\ UNCHANGED <<bassVars, modeVars, G_wakeup, wake, G_stream_index, G_global_mode,
                 G_snooze_state, sleepVars, G_TTS_state, timerTicks>>

CommandStep == CommandStop \/ CommandStart \/ CommandTune \/ CommandSpeak
=============================================================================
