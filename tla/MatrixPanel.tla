----------------------------- MODULE MatrixPanel -----------------------------
(***************************************************************************)
(* The LED matrix: one buffer without a lock, on which the analyser thread   *)
(* (matrix/matrix-thread.c) draws bars while the radio plays and the clock   *)
(* thread (clock/plclock.c) the hour, and in turn with it the temperature,   *)
(* while it does not.  The player (player/player-thread.c) asks for it to be *)
(* cleared when a stream ends.                                              *)
(***************************************************************************)
EXTENDS Integers

CONSTANTS
  HourInterval, TempInterval,  \* 6 and 4 seconds
  SwapLimit                    \* 2^8

ASSUME PanelAssumption ==
  /\ HourInterval \in 1 .. SwapLimit - 1 /\ TempInterval \in 2 .. SwapLimit - 1

VARIABLES
  G_player_mode, bt_sink,
  streaming,           \* the player thread has a stream to clean up
  G_matrix_mode, G_clear_matrix,
  analyserPc, cleared,
  clockPc, display_hour, hour_temp_swap_interval,  \* display_temp is not display_hour
  matrix_temperature,  \* a setting, read from the file when the radio starts
  G_last_weather_API_call_status,
  top, bottom          \* what the two halves show

playerVars   == <<G_player_mode, bt_sink, streaming>>
analyserVars == <<G_matrix_mode, analyserPc, cleared>>
clockVars    == <<clockPc, display_hour, hour_temp_swap_interval>>
panelVars == <<playerVars, G_clear_matrix, analyserVars, clockVars, matrix_temperature,
               G_last_weather_API_call_status, top, bottom>>

PLAYER_STOP   == "stop"
PLAYER_STREAM == "stream"

PanelInit ==
  /\ G_player_mode = PLAYER_STOP /\ bt_sink \in BOOLEAN /\ streaming = FALSE
  /\ G_matrix_mode = "clock" /\ G_clear_matrix = FALSE
  /\ analyserPc = "loop" /\ cleared = FALSE
  /\ clockPc = "look" /\ display_hour = TRUE
  /\ hour_temp_swap_interval \in 0 .. SwapLimit - 1  \* it is not initialised
  /\ matrix_temperature \in BOOLEAN /\ G_last_weather_API_call_status = 0
  /\ top = "blank" /\ bottom = "blank"

Playing == G_player_mode = PLAYER_STREAM \/ bt_sink

-----------------------------------------------------------------------------
(* The radio is switched on or off, and [BT sink] in the menu.               *)
RadioSwitched ==
  /\ \/ G_player_mode' \in {PLAYER_STOP, PLAYER_STREAM} /\ UNCHANGED bt_sink
     \/ bt_sink' = ~bt_sink /\ UNCHANGED G_player_mode
  /\ UNCHANGED <<streaming, G_clear_matrix, analyserVars, top, bottom>>

PlayerOpensStream ==
  /\ G_player_mode = PLAYER_STREAM /\ ~streaming /\ streaming' = TRUE
  /\ UNCHANGED <<G_player_mode, bt_sink, G_clear_matrix, analyserVars, top, bottom>>

(* The end of the play loop, stopped or going to another station.            *)
PlayerCleansUp ==
  /\ streaming /\ streaming' = FALSE
  /\ G_clear_matrix' = (G_clear_matrix \/ G_matrix_mode = "analyser")
  /\ UNCHANGED <<G_player_mode, bt_sink, analyserVars, top, bottom>>

(* PL_matrix_analyser_thread.                                               *)
AnalyserClears ==
  /\ analyserPc = "loop" /\ analyserPc' = "play"
  /\ (~Playing /\ ~cleared) \/ G_clear_matrix
  /\ top' = "blank" /\ bottom' = "blank"
  /\ cleared' = TRUE /\ G_clear_matrix' = FALSE /\ G_matrix_mode' = "clock"
  /\ UNCHANGED playerVars

AnalyserDoesNotClear ==
  /\ analyserPc = "loop" /\ analyserPc' = "play"
  /\ (Playing \/ cleared) /\ ~G_clear_matrix
  /\ UNCHANGED <<playerVars, G_clear_matrix, cleared, G_matrix_mode, top, bottom>>

AnalyserChooses ==
  /\ analyserPc = "play"
  /\ IF Playing THEN analyserPc' = "draw" /\ G_matrix_mode' = "analyser"
                ELSE analyserPc' = "loop" /\ UNCHANGED G_matrix_mode
  /\ UNCHANGED <<playerVars, G_clear_matrix, cleared, top, bottom>>

(* Wrong: that there is something to clear is not noted.                    *)
AnalyserOnlyDraws ==
  /\ analyserPc = "draw" /\ analyserPc' = "loop"
  /\ top' = "bars" /\ bottom' = "bars"
  /\ UNCHANGED <<playerVars, G_clear_matrix, G_matrix_mode, cleared>>

AnalyserDraws ==
  /\ analyserPc = "draw" /\ analyserPc' = "loop"
  /\ top' = "bars" /\ bottom' = "bars" /\ cleared' = FALSE
  /\ UNCHANGED <<playerVars, G_clear_matrix, G_matrix_mode>>

Analyser == AnalyserClears \/ AnalyserDoesNotClear \/ AnalyserChooses \/ AnalyserDraws

ClockElsewhere == UNCHANGED <<clockVars, matrix_temperature, G_last_weather_API_call_status>>
PlayerStep   == (RadioSwitched \/ PlayerOpensStream \/ PlayerCleansUp) /\ ClockElsewhere
AnalyserStep == Analyser /\ ClockElsewhere

-----------------------------------------------------------------------------
(* The clock thread, once a second.                                         *)
TemperatureTold == matrix_temperature /\ G_last_weather_API_call_status = 1

(* The two tests in a row: the temperature counts the second it comes in.    *)
ClockLooks ==
  /\ clockPc = "look" /\ G_matrix_mode = "clock" /\ clockPc' = "draw"
  /\ LET count  == (hour_temp_swap_interval + 1) % SwapLimit
         toTemp == display_hour /\ count = HourInterval
         toHour == ~display_hour /\ count = TempInterval
     IN IF TemperatureTold
        THEN /\ display_hour' = IF toTemp \/ toHour THEN ~display_hour ELSE display_hour
             /\ hour_temp_swap_interval' = IF toTemp THEN 1 ELSE IF toHour THEN 0 ELSE count
        ELSE UNCHANGED <<display_hour, hour_temp_swap_interval>>
  /\ UNCHANGED <<playerVars, G_clear_matrix, analyserVars, matrix_temperature,
                  G_last_weather_API_call_status, top, bottom>>

ClockDraws ==
  /\ clockPc = "draw" /\ clockPc' = "look"
  /\ top' = IF display_hour THEN "hour" ELSE "temperature"
  /\ UNCHANGED <<playerVars, G_clear_matrix, analyserVars, display_hour, hour_temp_swap_interval,
                  matrix_temperature, G_last_weather_API_call_status, bottom>>

Clock == ClockLooks \/ ClockDraws

(* A weather call succeeds or fails: see WeatherScenery.                     *)
WeatherReported ==
  /\ G_last_weather_API_call_status' \in {0, 1}
  /\ UNCHANGED <<playerVars, G_clear_matrix, analyserVars, clockVars, matrix_temperature, top, bottom>>

PanelNext == PlayerStep \/ AnalyserStep \/ Clock \/ WeatherReported
PanelSpec ==
  PanelInit /\ [][PanelNext]_panelVars /\ WF_panelVars(AnalyserStep) /\ WF_panelVars(Clock)

-----------------------------------------------------------------------------
(* When the radio is off for good, no bars stay; and while the temperature   *)
(* is known it and the hour are both seen again and again.                  *)
ClockComesBack ==
  /\ <>[]~Playing => <>[](top \in {"hour", "temperature"})
  /\ <>[](~Playing /\ TemperatureTold) => []<>(top = "hour") /\ []<>(top = "temperature")
=============================================================================
