--------------------------- MODULE WeatherScenery ---------------------------
(***************************************************************************)
(* The weather: a thread that asks for it every twenty minutes (weather/    *)
(* weather-api.c) and one that plays the picture of it, frame by frame, on   *)
(* the lower half of the matrix (weather/weather-scenery.c), with one frame  *)
(* index for all pictures.  A key and a place to ask for are configured.     *)
(* Day and night have as many frames.                                       *)
(***************************************************************************)
EXTENDS MatrixPanel

CONSTANTS
  FrameCount,  \* of each kind of weather that has moving pictures
  UNKNOWN,     \* it has a single picture
  FOG          \* it has none

Weathers == DOMAIN FrameCount

ASSUME SceneryAssumption ==
  /\ FrameCount \in [Weathers -> Nat \ {0}] /\ Weathers \cap {UNKNOWN, FOG} = {} /\ UNKNOWN # FOG

VARIABLES
  get_weather, matrix_weather,  \* settings, read when the radio starts
  G_weather,
  apiPc, failed,
  sceneryPc, scenery_cleared, animation_start,
  i            \* the frame that is next

apiVars     == <<G_weather, apiPc, failed>>
sceneryVars == <<sceneryPc, scenery_cleared, animation_start, i>>
weatherVars == <<panelVars, get_weather, matrix_weather, apiVars, sceneryVars>>

(* cleared and i are not initialised; the first is looked at in other modes  *)
(* only, the second is set by animation_start.                              *)
SceneryInit ==
  /\ get_weather \in BOOLEAN /\ matrix_weather \in BOOLEAN
  /\ G_weather = UNKNOWN /\ apiPc = "top" /\ failed = FALSE
  /\ sceneryPc = "look" /\ scenery_cleared \in BOOLEAN /\ animation_start = TRUE /\ i = 0

WeatherInit == PanelInit /\ SceneryInit

PanelElsewhere ==
  UNCHANGED <<playerVars, G_clear_matrix, analyserVars, clockVars, matrix_temperature, top>>

-----------------------------------------------------------------------------
(* PL_weather_api_thread: what was known is forgotten after a failure, and   *)
(* ten minutes later it asks again.                                         *)
ApiElsewhere == PanelElsewhere /\ UNCHANGED <<bottom, get_weather, matrix_weather, sceneryVars>>

ApiForgets ==
  /\ apiPc = "top" /\ apiPc' = "request"
  /\ get_weather
  /\ IF failed THEN G_last_weather_API_call_status' = 0 /\ G_weather' = UNKNOWN
               ELSE UNCHANGED <<G_last_weather_API_call_status, G_weather>>
  /\ UNCHANGED failed /\ ApiElsewhere

ApiRequests ==
  /\ apiPc = "request"
  /\ \/ /\ apiPc' = "top" /\ failed' = TRUE /\ UNCHANGED G_last_weather_API_call_status
     \/ /\ apiPc' = "store" /\ failed' = FALSE
        /\ G_last_weather_API_call_status' = 1
  /\ UNCHANGED G_weather /\ ApiElsewhere

ApiStores ==
  /\ apiPc = "store" /\ apiPc' = "top"
  /\ G_weather' \in Weathers \cup {UNKNOWN, FOG}
  /\ UNCHANGED <<failed, G_last_weather_API_call_status>> /\ ApiElsewhere

WeatherApi == ApiForgets \/ ApiRequests \/ ApiStores

-----------------------------------------------------------------------------
(* PL_weather_scenery_thread.                                               *)
SceneryElsewhere == PanelElsewhere /\ UNCHANGED <<get_weather, matrix_weather, apiVars>>

(* G_last_weather_API_call_status is set to 1 where it should be compared.   *)
SceneryLooks ==
  /\ sceneryPc = "look" /\ G_matrix_mode = "clock"
  /\ scenery_cleared' = FALSE /\ animation_start' = FALSE
  /\ i' = IF animation_start THEN 0 ELSE i
  /\ IF get_weather /\ matrix_weather
     THEN sceneryPc' = "draw" /\ G_last_weather_API_call_status' = 1
     ELSE UNCHANGED <<sceneryPc, G_last_weather_API_call_status>>
  /\ UNCHANGED bottom /\ SceneryElsewhere

(* Wrong: the index goes on to a frame that is not there.                   *)
FrameTooFar(frame, weather) == IF frame > FrameCount[weather] THEN 0 ELSE frame
NextFrame(frame, weather) == IF frame >= FrameCount[weather] THEN 0 ELSE frame

Garbage == "garbage"   \* what lies behind the frames

SceneryDraws ==
  /\ sceneryPc = "draw" /\ sceneryPc' = "look"
  /\ IF G_weather \in Weathers
     THEN /\ i' = NextFrame(i + 1, G_weather)
          /\ bottom' = IF i < FrameCount[G_weather] THEN G_weather ELSE Garbage
     ELSE /\ UNCHANGED i
          /\ bottom' = IF G_weather = UNKNOWN THEN UNKNOWN ELSE bottom
  /\ UNCHANGED <<scenery_cleared, animation_start, G_last_weather_API_call_status>>
  /\ SceneryElsewhere

(* It clears the whole matrix, the first bars with it.                       *)
SceneryClears ==
  /\ sceneryPc = "look" /\ G_matrix_mode # "clock" /\ ~scenery_cleared
  /\ top' = "blank" /\ bottom' = "blank"
  /\ scenery_cleared' = TRUE /\ animation_start' = TRUE
  /\ UNCHANGED <<playerVars, G_clear_matrix, analyserVars, clockVars, matrix_temperature,
                  G_last_weather_API_call_status, sceneryPc, i,
                  get_weather, matrix_weather, apiVars>>

Scenery == SceneryLooks \/ SceneryDraws \/ SceneryClears

-----------------------------------------------------------------------------
WeatherElsewhere == UNCHANGED <<get_weather, matrix_weather, apiVars, sceneryVars>>
PlayerMoves  == PlayerStep /\ WeatherElsewhere
MatrixDraws  == AnalyserStep /\ WeatherElsewhere
ClockMoves   == Clock /\ WeatherElsewhere

WeatherNext == WeatherApi \/ Scenery \/ PlayerMoves \/ MatrixDraws \/ ClockMoves
WeatherSpec == /\ WeatherInit /\ [][WeatherNext]_weatherVars
               /\ WF_weatherVars(Scenery) /\ WF_weatherVars(MatrixDraws) /\ WF_weatherVars(ClockMoves)

-----------------------------------------------------------------------------
(* A weather that lasts is shown at last, and nothing else, whatever index   *)
(* the picture before it has left; unless it is fog, which has no picture.   *)
LastingWeatherIsShown ==
  \A w \in Weathers \cup {UNKNOWN} :
    <>[](~Playing /\ get_weather /\ matrix_weather /\ G_weather = w) => <>[](bottom = w)
=============================================================================
