----------------------------- MODULE IrisGlobals -----------------------------
(***************************************************************************)
(* The global variables through which the threads of IRIS2 talk to one      *)
(* another (include/global.h).  None of them is protected by a lock: every  *)
(* thread polls them, and writes them whenever it likes.  The variables of  *)
(* the audio library and the amplifier come from BassSharing.               *)
(***************************************************************************)
EXTENDS BassSharing, Sequences

CONSTANTS
  Stations,          \* how many stations the configuration holds
  StableIterations,  \* good play-loop iterations that make a stream stable (50)
  SleepLimit,        \* clock ticks until the sleep timer fires (minutes * 60)
  MaxPipe,           \* bound: messages waiting in the pipe to the speech thread
  Garbage            \* TRUE: locals read uninitialised may hold anything

ASSUME GlobalsAssumption ==
  /\ {"player", "tts", "alarm"} \subseteq Users
  /\ InternalOnly = {"alarm"}
  /\ Stations \in Nat \ {0}
  /\ StableIterations \in Nat \ {0}
  /\ SleepLimit \in Nat
  /\ MaxPipe \in Nat
  /\ Garbage \in BOOLEAN

VARIABLES
  G_player_mode,          \* what the device should be doing
  G_wakeup,               \* > 0: the clock asked for a wake-up that is not yet safe
  G_stream_index,         \* the station selected
  G_global_mode,          \* "normal" or "setup"
  G_snooze_state,         \* written by the keyboard and by the snooze thread
  G_sleep_timer_active,
  G_sleep_timer_counter,  \* clock ticks since the sleep timer was switched on
  G_TTS_state,            \* what the speech thread says it is doing
  G_TTS_thread_input,     \* the messages in the pipe to the speech thread
  (* History, not in the program: *)
  askedBy,                \* who last asked for something to be heard, "nobody"
                          \* after the user switched the radio off
  wake                    \* "due": an alarm found the device silent and nothing
                          \* has been heard and no key pressed since;
                          \* "refused": the audio device would not start for it

modeVars  == <<G_player_mode, askedBy>>
sleepVars == <<G_sleep_timer_active, G_sleep_timer_counter>>
ttsVars   == <<G_TTS_state, G_TTS_thread_input>>
globalVars == <<G_player_mode, askedBy, G_wakeup, wake, G_stream_index, G_global_mode,
                G_snooze_state, G_sleep_timer_active, G_sleep_timer_counter,
                G_TTS_state, G_TTS_thread_input>>

PLAYER_STOP   == "stop"
PLAYER_STREAM == "stream"
ALARM_ACTIVE  == "alarm"
Modes == {PLAYER_STOP, PLAYER_STREAM, ALARM_ACTIVE}

SNOOZE_INACTIVE == "inactive"
SNOOZE_RESET    == "reset"
SNOOZE_ACTIVE   == "active"
SnoozeStates == {SNOOZE_INACTIVE, SNOOZE_RESET, SNOOZE_ACTIVE}

TTS_STOPPED   == "stopped"
TTS_PREPARING == "preparing"
TTS_PLAYING   == "playing"

TTS_SAY_CURRENT_TIME == "time"
TTS_READ_RSS_NOW     == "rss"
TTS_STOP             == "stop"
TtsMessages == {TTS_SAY_CURRENT_TIME, TTS_READ_RSS_NOW, TTS_STOP}

GlobalsTypeOK ==
  /\ G_player_mode \in Modes
  /\ G_wakeup \in 0 .. StableIterations
  /\ G_stream_index \in 0 .. Stations - 1
  /\ G_global_mode \in {"normal", "setup"}
  /\ G_snooze_state \in SnoozeStates
  /\ G_sleep_timer_active \in BOOLEAN
  /\ G_sleep_timer_counter \in 0 .. SleepLimit + 1
  /\ G_TTS_state \in {TTS_STOPPED, TTS_PREPARING, TTS_PLAYING}
  /\ G_TTS_thread_input \in Seq(TtsMessages)
  /\ askedBy \in {"nobody", "user", "alarm"}
  /\ wake \in {"no", "due", "refused"}

(* PL_init and the persistence file, before the player is started.          *)
GlobalsInit ==
  /\ G_player_mode = PLAYER_STOP
  /\ G_wakeup = 0
  /\ G_stream_index \in 0 .. Stations - 1
  /\ G_global_mode = "normal"
  /\ G_snooze_state = SNOOZE_INACTIVE
  /\ G_sleep_timer_active = FALSE
  /\ G_sleep_timer_counter = 0
  /\ G_TTS_state = TTS_STOPPED
  /\ G_TTS_thread_input = <<>>
  /\ askedBy = "nobody"
  /\ wake = "no"

(* A write to the pipe blocks when the pipe is full.                        *)
SendTts(msg) ==
  /\ Len(G_TTS_thread_input) < MaxPipe
  /\ G_TTS_thread_input' = Append(G_TTS_thread_input, msg)
=============================================================================
