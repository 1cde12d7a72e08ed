----------------------------- MODULE IrisSystem -----------------------------
(***************************************************************************)
(* The threads of IRIS2 that decide what is heard, running together: the      *)
(* player, the alarm, the speech, the snooze timer, the clock, the keyboard,  *)
(* the external commands, the Bluetooth indicator, and main()'s autoplay.     *)
(***************************************************************************)
EXTENDS PlayerThread, AlarmThread, TtsThread, SnoozeThread, CommandThread

CONSTANT Autoplay   \* G_config.autoplay

ASSUME AutoplayAssumption == Autoplay \in BOOLEAN

VARIABLE booting   \* main() will start the radio by itself

threadVars == <<playerVars, alarmPc, ttsLocals, snoozeVars, timerTicks, booting>>
vars == <<bassVars, globalVars, threadVars>>

TypeOK ==
  /\ BassTypeOK /\ GlobalsTypeOK
  /\ PlayerTypeOK /\ AlarmTypeOK /\ TtsTypeOK /\ SnoozeTypeOK /\ ClockTypeOK
  /\ booting \in BOOLEAN

Init ==
  /\ BassInit0 /\ GlobalsInit
  /\ PlayerInit /\ AlarmInit /\ TtsInit /\ SnoozeInit /\ ClockInit
  /\ booting = Autoplay

-----------------------------------------------------------------------------
(* Some seconds after the start, unless the user was quicker.              *)
MainAutoplays ==
  /\ booting
  /\ booting' = FALSE
  /\ IF G_player_mode = PLAYER_STOP
       THEN G_player_mode' = PLAYER_STREAM /\ askedBy' = "user"
       ELSE UNCHANGED modeVars
  /\ UNCHANGED <<bassVars, G_wakeup, wake, G_stream_index, G_global_mode, G_snooze_state,
                 sleepVars, ttsVars, playerVars, alarmPc, ttsLocals, snoozeVars, timerTicks>>

Player   == PlayerStep /\ UNCHANGED <<alarmPc, ttsLocals, snoozeVars, timerTicks, booting>>
Alarm    == AlarmStep  /\ UNCHANGED <<playerVars, ttsLocals, snoozeVars, timerTicks, booting>>
Tts      == TtsStep    /\ UNCHANGED <<playerVars, alarmPc, snoozeVars, timerTicks, booting>>
Snooze   == SnoozeStep /\ UNCHANGED <<playerVars, alarmPc, ttsLocals, timerTicks, booting>>
Clock    == ClockStep  /\ UNCHANGED <<playerVars, alarmPc, ttsLocals, snoozeVars, booting>>
Keyboard == KeyboardStep /\ UNCHANGED <<playerVars, alarmPc, ttsLocals, snoozeVars, booting>>
External == CommandStep  /\ UNCHANGED <<playerVars, alarmPc, ttsLocals, snoozeVars, booting>>
Bluetooth == BtIndicator /\ UNCHANGED <<globalVars, threadVars>>

Next ==
  \/ MainAutoplays
  \/ Player \/ Alarm \/ Tts \/ Snooze \/ Clock
  \/ Keyboard \/ External \/ Bluetooth

Spec == Init /\ [][Next]_vars

(* The threads that poll go on polling, and the sleep timer is counted.     *)
(* Nobody has to press a key, send a command or set an alarm; a stream that  *)
(* plays may go on for ever, and so may the sound of the alarm.             *)
Fairness ==
  /\ WF_vars(Player /\ ~PlayerLosesStream /\ ~PlayerRebuffers)
  /\ WF_vars(Alarm /\ ~AlarmSoundEnds /\ ~AlarmRangLongEnough)
  /\ WF_vars(Tts) /\ WF_vars(Snooze)
  /\ WF_vars(ClockCountsSleep
             /\ UNCHANGED <<playerVars, alarmPc, ttsLocals, snoozeVars, booting>>)

FairSpec == Spec /\ Fairness

-----------------------------------------------------------------------------
(* What is expected of the threads together.                                *)

(* An alarm that finds the device silent is heard: the stream plays, or the  *)
(* alarm sound rings, unless somebody uses the keys or the audio device      *)
(* refuses to start.  Creating the stream may fail, it may stop by itself,   *)
(* and buffering may take too long, again and again.                        *)
WakeAnswered ==
  (wake = "due") ~> (wake # "due" \/ (alarmPc = "ringing" /\ G_player_mode = ALARM_ACTIVE))

(* The clock's wake-up is forgotten only when the stream it started has been *)
(* good for StableIterations iterations since it was created, or when the    *)
(* alarm sound takes over: until then a failing stream falls back to it.     *)
StableBeforeForgiven ==
  [][G_wakeup > 0 /\ G_wakeup' = 0
       => goodIterations' = StableIterations \/ G_player_mode = ALARM_ACTIVE]_vars

(* When the user has switched the radio off it stays off until the user, a   *)
(* command or an alarm asks for it: no snooze still running brings it back,  *)
(* and no thread that looked at the mode before.                            *)
OffMeansOff == askedBy = "nobody" => G_player_mode = PLAYER_STOP

(* Whatever stops the radio is obeyed: the player gives the stream up.       *)
StopIsObeyed == (G_player_mode = PLAYER_STOP)
                  ~> (playerPc = "idle" \/ G_player_mode # PLAYER_STOP)

(* A snooze ends.                                                          *)
SnoozeEnds == (G_snooze_state = SNOOZE_ACTIVE) ~> (G_snooze_state # SNOOZE_ACTIVE)

(* "Something happened" is noticed: a reset is carried out, after which the  *)
(* snooze key works again.                                                 *)
ResetAcknowledged == (G_snooze_state = SNOOZE_RESET) ~> (G_snooze_state # SNOOZE_RESET)

(* The sleep timer stops the radio only after the full time since the user   *)
(* last touched it.                                                        *)
SleepTimerKeepsTime ==
  [][ClockCountsSleep /\ G_player_mode' # G_player_mode
       => G_sleep_timer_active /\ timerTicks' = SleepLimit]_vars

(* A sleep timer that is on fires, unless its moment passed during setup.    *)
SleepTimerFires ==
  G_sleep_timer_active ~> (~G_sleep_timer_active \/ G_sleep_timer_counter > SleepLimit)

(* The speech thread reads its pipe only when it has said it is silent, so   *)
(* that the break in its loop, which would end the thread, is never taken.   *)
SilentWhenReading == ttsPc = "read" => G_TTS_state = TTS_STOPPED

(* Speech ends, or its thread does.                                        *)
SpeechEnds == (G_TTS_state # TTS_STOPPED) ~> (G_TTS_state = TTS_STOPPED)

-----------------------------------------------------------------------------
(* Inductive invariants behind the properties above (IrisSafety_proofs).     *)

(* Only an active snooze restores a mode, and switching the radio off resets *)
(* it; the snooze key does nothing while the radio is off.                  *)
OffInv ==
  askedBy = "nobody" => G_player_mode = PLAYER_STOP /\ G_snooze_state # SNOOZE_ACTIVE

(* While a stream plays, the count of the wake-up runs at most one ahead of   *)
(* the good iterations.                                                    *)
WakeInv == playerPc = "play" => G_wakeup <= goodIterations + 1

(* The counter of a sleep timer that is on holds the ticks since the user     *)
(* touched it, or is past the limit; that of one that is off is zero.        *)
SleepInv ==
  IF G_sleep_timer_active
    THEN G_sleep_timer_counter = timerTicks \/ G_sleep_timer_counter > SleepLimit
    ELSE G_sleep_timer_counter = 0

(* The speech thread speaks with its bit set, and once the bit is cleared     *)
(* after the time was told, it has said that it is silent.                   *)
SpeechInv ==
  /\ SilentWhenReading
  /\ ttsPc \in {"lower", "speak"} => at["tts"] = "in"
  /\ ttsPc = "release" /\ TTS_msg = TTS_SAY_CURRENT_TIME /\ at["tts"] \notin {"in", "xorStore"}
       => G_TTS_state = TTS_STOPPED

-----------------------------------------------------------------------------
(* What comments in the code say and the runs of MCIris*.cfg refute.        *)

(* alarm-thread.c:64: the alarm sound is always played on the internal       *)
(* speaker.                                                                *)
AlarmOnInternalSpeaker == alarmPc = "ringing" => bassDevice = "internal"

(* player-thread.c:342-344: a start that the clock asked for and that fails  *)
(* falls back to the alarm sound.                                          *)
RefusedWakeFallsBack == wake # "refused"

(* player-thread.c:342-344: a start that the user asked for and that fails   *)
(* does not ring the alarm: it is no big deal.                              *)
UserStartNeverRings ==
  [][playerPc = "create" /\ playerPc' = "fallBack" => askedBy # "user"]_vars
=============================================================================
