---------------------------- MODULE PlayerThread ----------------------------
(***************************************************************************)
(* PL_player_thread (player/player-thread.c): waits for G_player_mode to     *)
(* become PLAYER_STREAM, takes the library, creates the stream and plays it  *)
(* until the mode is PLAYER_STOP, the station changes, or the stream breaks. *)
(*                                                                         *)
(* Here G_config.bt_sink is off.  parse_stream_spec admits only the three    *)
(* stream types the thread knows, so its "unknown type" branch is not taken. *)
(***************************************************************************)
EXTENDS IrisGlobals

CONSTANTS
  StreamFaults,     \* what may go wrong with a stream, see StreamFaultKinds
  EnoughBuffering,  \* ENOUGH_BUFFERING: 600
  CantInitModulus   \* cant_init is a uint8_t: 256 in the program

StreamFaultKinds ==
  {"create",      \* it cannot be created
   "status",      \* the channel stops by itself
   "stall",       \* the channel is stalled: it counts as playing but is silent
   "buffering"}   \* the buffer stays low

(* Each iteration adds at most 2 to buffering_timer.                        *)
ASSUME PlayerAssumption ==
  /\ StreamFaults \subseteq StreamFaultKinds
  /\ EnoughBuffering \in Nat /\ EnoughBuffering >= 2 * StableIterations
  /\ CantInitModulus \in Nat /\ CantInitModulus > 3

VARIABLES
  playerPc,
  current_stream_index,   \* the station the stream was created for
  failure_count,          \* consecutive streams that stopped by themselves
  cant_init,              \* consecutive refusals of BASS_Init, modulo 256
  buffering_timer,        \* grows while the buffer is low
  (* History: *)
  goodIterations          \* iterations of the play loop since the stream began

playerCounters == <<failure_count, cant_init, buffering_timer, goodIterations>>
playerVars == <<playerPc, current_stream_index, playerCounters>>

PlayerLocations ==
  {"idle",       \* waiting for PLAYER_STREAM
   "acquire",    \* choosing the output, BASS_Init, setting the bit
   "create",     \* creating the stream
   "fallBack",   \* creation failed and G_wakeup was set: about to ring
   "play",       \* in the play loop
   "gaveUp",     \* stopped after too many failures: about to look at G_wakeup
   "cleanUp"}    \* fading out, clearing the bit, freeing the library

PlayerTypeOK ==
  /\ playerPc \in PlayerLocations
  /\ current_stream_index \in 0 .. Stations - 1
  /\ failure_count \in 0 .. 3
  /\ cant_init \in 0 .. CantInitModulus - 1
  /\ buffering_timer \in 0 .. EnoughBuffering + 1
  /\ goodIterations \in 0 .. StableIterations

(* buffering_timer is read uninitialised, when a buffer is low; above the    *)
(* limit all values do the same.                                           *)
PlayerInit ==
  /\ playerPc = "idle"
  /\ current_stream_index = 0
  /\ failure_count = 0
  /\ cant_init = 0
  /\ buffering_timer \in IF Garbage /\ "buffering" \in StreamFaults
                           THEN 0 .. EnoughBuffering + 1 ELSE {0}
  /\ goodIterations = 0

-----------------------------------------------------------------------------
PlayerGoes(from, to) == playerPc = from /\ playerPc' = to

(* used_internal_spk is declared outside the loop: what an earlier round    *)
(* left in it is still there.                                              *)
PlayerStarts ==
  /\ G_player_mode = PLAYER_STREAM
  /\ PlayerGoes("idle", "acquire")
  /\ ChooseOutput("player", used_internal_spk["player"])
  /\ UNCHANGED <<globalVars, current_stream_index, playerCounters>>

PlayerAcquires ==
  /\ Acquire("player")
  /\ \/ /\ at'["player"] # "in"
        /\ PlayerGoes("acquire", "acquire")
        /\ UNCHANGED <<cant_init, current_stream_index>>
     \/ /\ at'["player"] = "in"
        /\ PlayerGoes("acquire", "create")
        /\ cant_init' = 0
        /\ current_stream_index' = G_stream_index
  /\ UNCHANGED <<globalVars, failure_count, buffering_timer, goodIterations>>

(* The third refusal stops the radio.  cant_init is not reset then, so the  *)
(* next start counts on from three.                                        *)
PlayerIsRefused ==
  /\ InitFails("player")
  /\ PlayerGoes("acquire", "idle")
  /\ cant_init' = (cant_init + 1) % CantInitModulus
  /\ IF cant_init' = 3
       THEN /\ G_player_mode' = PLAYER_STOP
            /\ wake' = IF wake = "due" THEN "refused" ELSE wake
       ELSE UNCHANGED <<G_player_mode, wake>>
  /\ UNCHANGED <<askedBy, G_wakeup, G_stream_index, G_global_mode, G_snooze_state,
                 sleepVars, ttsVars, current_stream_index, failure_count,
                 buffering_timer, goodIterations>>

(* Wrong: a new stream inherits the count of the one before.                *)
CreatesKeepingCount ==
  /\ PlayerGoes("create", "play")
  /\ goodIterations' = 0
  /\ UNCHANGED <<bassVars, globalVars, current_stream_index, failure_count, cant_init,
                 buffering_timer>>

PlayerCreates ==
  /\ PlayerGoes("create", "play")
  /\ G_wakeup' = IF G_wakeup > 0 THEN 1 ELSE 0
  /\ goodIterations' = 0
  /\ UNCHANGED <<bassVars, modeVars, wake, G_stream_index, G_global_mode, G_snooze_state,
                 sleepVars, ttsVars, current_stream_index, failure_count, cant_init,
                 buffering_timer>>

(* The bit stays set and the amplifier on: nothing is cleaned up.  When the *)
(* clock asked for the stream, the mode becomes ALARM_ACTIVE a millisecond  *)
(* later, whatever it has been set to meanwhile.                           *)
PlayerCannotCreate ==
  /\ "create" \in StreamFaults
  /\ PlayerGoes("create", IF G_wakeup > 0 THEN "fallBack" ELSE "idle")
  /\ Abandon("player")
  /\ G_player_mode' = PLAYER_STOP
  /\ UNCHANGED <<askedBy, G_wakeup, wake, G_stream_index, G_global_mode, G_snooze_state,
                 sleepVars, ttsVars, current_stream_index, playerCounters>>

(* Wrong: nobody wakes the alarm thread up.                                 *)
FallsBackSilently ==
  /\ PlayerGoes("fallBack", "idle") \/ PlayerGoes("gaveUp", "cleanUp")
  /\ UNCHANGED <<bassVars, globalVars, current_stream_index, playerCounters>>

PlayerFallsBack ==
  /\ PlayerGoes("fallBack", "idle") \/ PlayerGoes("gaveUp", "cleanUp")
  /\ IF playerPc = "fallBack" \/ G_wakeup > 0
       THEN G_player_mode' = ALARM_ACTIVE /\ askedBy' = "alarm"
       ELSE UNCHANGED modeVars
  /\ UNCHANGED <<bassVars, G_wakeup, wake, G_stream_index, G_global_mode,
                 G_snooze_state, sleepVars, ttsVars, current_stream_index, playerCounters>>

-----------------------------------------------------------------------------
(* Wrong: the mode is not looked at.                                       *)
GoesOnWhenStopped == G_stream_index = current_stream_index

(* The play loop.  It goes on while the mode is anything but PLAYER_STOP,   *)
(* ALARM_ACTIVE included.                                                  *)
LoopGoesOn == G_player_mode # PLAYER_STOP /\ G_stream_index = current_stream_index

(* What an iteration makes of buffering_timer.  A well-filled buffer clears  *)
(* it; a low one adds 1, another 1 when it has not moved since the last      *)
(* iteration, and one in between leaves it.                                *)
BufferingTimes ==
  IF "buffering" \in StreamFaults THEN {0} \cup {buffering_timer + k : k \in 0 .. 2} ELSE {0}

(* A stalled channel passes for a playing one, but nothing is heard.        *)
PlayerIterates ==
  /\ LoopGoesOn
  /\ PlayerGoes("play", "play")
  /\ failure_count' = 0
  /\ buffering_timer' \in BufferingTimes \cap 0 .. EnoughBuffering
  /\ G_wakeup' = IF G_wakeup = 0 \/ G_wakeup = StableIterations THEN 0 ELSE G_wakeup + 1
  /\ goodIterations' = IF goodIterations = StableIterations THEN goodIterations
                                                            ELSE goodIterations + 1
  /\ wake' \in {"no"} \cup (IF "stall" \in StreamFaults THEN {wake} ELSE {})
  /\ UNCHANGED <<bassVars, modeVars, G_stream_index, G_global_mode, G_snooze_state,
                 sleepVars, ttsVars, current_stream_index, cant_init>>

(* The channel is neither playing nor stalled: try again, but not a fourth  *)
(* time in a row.                                                          *)
PlayerLosesStream ==
  /\ LoopGoesOn
  /\ "status" \in StreamFaults
  /\ IF failure_count = 3
       THEN /\ PlayerGoes("play", "gaveUp")
            /\ failure_count' = 0
            /\ G_player_mode' = PLAYER_STOP
       ELSE /\ PlayerGoes("play", "cleanUp")
            /\ failure_count' = failure_count + 1
            /\ UNCHANGED G_player_mode
  /\ UNCHANGED <<bassVars, askedBy, G_wakeup, wake, G_stream_index, G_global_mode,
                 G_snooze_state, sleepVars, ttsVars, current_stream_index, cant_init,
                 buffering_timer, goodIterations>>

(* Buffering took too long: leave the loop with the mode as it is.         *)
PlayerRebuffers ==
  /\ LoopGoesOn
  /\ \E t \in BufferingTimes : t > EnoughBuffering
  /\ buffering_timer' = EnoughBuffering + 1
  /\ PlayerGoes("play", "cleanUp")
  /\ failure_count' = 0
  /\ UNCHANGED <<bassVars, globalVars, current_stream_index, cant_init, goodIterations>>

PlayerLeavesLoop ==
  /\ ~LoopGoesOn
  /\ PlayerGoes("play", "cleanUp")
  /\ UNCHANGED <<bassVars, globalVars, current_stream_index, playerCounters>>

PlayerCleansUp ==
  /\ Release("player")
  /\ PlayerGoes("cleanUp", IF at'["player"] = "out" THEN "idle" ELSE "cleanUp")
  /\ buffering_timer' = 0
  /\ UNCHANGED <<globalVars, current_stream_index, failure_count, cant_init, goodIterations>>

PlayerStep ==
  \/ PlayerStarts     \/ PlayerAcquires     \/ PlayerIsRefused
  \/ PlayerCreates    \/ PlayerCannotCreate \/ PlayerFallsBack
  \/ PlayerIterates   \/ PlayerLosesStream  \/ PlayerRebuffers
  \/ PlayerLeavesLoop \/ PlayerCleansUp
=============================================================================
