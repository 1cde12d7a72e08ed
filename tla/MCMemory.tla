------------------------------ MODULE MCMemory ------------------------------
(***************************************************************************)
(* A file with two stations and two feeds, in which hardly a setting has its initial      *)
(* value and no two numbers that are free are the same; a template with one *)
(* station and the initial values; two alarms; and edits in the menu whose  *)
(* values are read back, and others that are not.                           *)
(***************************************************************************)
EXTENDS RadioMemory

MCAlarm(hour, state, sound) ==
  [hour |-> hour, minute |-> 30, days_of_week |-> 127, alarm_state |-> state, alarm_type |-> 2,
   sound_index |-> sound]

MCFile(streams, config) ==
  LET lines == BuildConfig([config |-> config, streams |-> streams, feeds |-> streams, sounds |-> 1,
                            alarms |-> <<MCAlarm(7, 1, 0), MCAlarm(9, 0, 1)>>])
  IN BuiltInto([i \in 1 .. FileSize |-> Nul], lines)

MCConfig ==
  [s \in Texts |-> <<s, 12, 0>>] @@
  [sleep_timer_time |-> <<300>>, snooze_timer_time |-> <<301>>, volume_level |-> <<40>>,
   tell_time_when_on |-> <<2>>, wireless_type |-> <<3>>, ssh_access |-> <<0>>,
   www_access |-> <<0>>, use_ntp |-> <<1>>, debug |-> <<1>>, basic_menu |-> <<0>>,
   autoplay |-> <<0>>, bt_spk |-> <<1>>, bt_sink |-> <<1>>, tts_speed |-> <<80>>,
   tts_pitch |-> <<81>>, tts_volume |-> <<120>>, matrix_brightness |-> <<8>>,
   HW_volume_L |-> <<100>>, HW_volume_S |-> <<101>>, HW_mastervol |-> <<102>>,
   FFT_base_color |-> <<1>>, FFT_marker_color |-> <<62>>, matrix_clock_color |-> <<63>>,
   get_weather |-> <<1>>, matrix_temperature |-> <<4>>, matrix_weather |-> <<5>>]

MCInitialFile  == MCFile(2, MCConfig)
MCFactoryLines == MCFile(1, InitialConfig)

MCMenuAlarms == {MCAlarm(6, 1, 0), MCAlarm(7, 0, 1)}

MCMenuValues ==
  [HW_volume_L |-> {<<128>>}, HW_mastervol |-> {<<0>>}, sleep_timer_time |-> {<<0>>},
   FFT_base_color |-> {<<64>>}, wireless_password |-> {<<"", 0, 0>>, <<"pass#word", 9, 5>>},
   bt_pair_with |-> {<<"ab", 2, 0>>}, autoplay |-> {<<1>>}]

(* The news were on the display, and a third station was selected.          *)
MCRecord == [signature |-> TRUE, stream_index |-> 2, rss_index |-> 1, volume_level |-> 20,
             player_mode |-> PLAYER_STREAM, display_mode_1 |-> "rss", last_audio_output |-> 0]

MCBudget(keys, edits, cuts) == [keys |-> keys, edits |-> edits, saves |-> edits, cuts |-> cuts]

MCBeginnings ==
  {[budget |-> MCBudget(2, 0, 1), record |-> Blank],
   [budget |-> MCBudget(1, 1, 1), record |-> Blank],
   [budget |-> MCBudget(1, 0, 2), record |-> MCRecord]}
=============================================================================
