-------------------------- MODULE PersistenceThread --------------------------
(***************************************************************************)
(* What the radio remembers without being told to (config/persistence-      *)
(* thread.c): a thread compares the globals with its copy of a record, one  *)
(* after another and every 20 seconds, and writes the record to NVRAM when  *)
(* one differs; main restores them from it at the next start.               *)
(***************************************************************************)
EXTENDS Naturals, Sequences

CONSTANT Descriptors  \* how many times open() succeeds in one life of the program

ASSUME DescriptorsAssumption == Descriptors \in Nat

VARIABLES
  G_stream_index, G_rss_feed_index,
  G_volume,                   \* G_config.volume_level
  G_player_mode,
  G_display_mode_upper_row,
  G_prev_output_device,       \* the device the last stream was played on
  G_global_mode,
  NVRAM,                      \* the record at NVRAM_PERSISTENCE_DATA_OFFSET
  persistence_data,           \* the thread's copy of it
  persistencePc,
  field,                      \* how many globals the pass has compared or stored
  opened,                     \* descriptors that were opened and never closed
  (* History, not in the program: for every global that is saved, the        *)
  (* values it had ...                                                       *)
  sincePass,                  \* since the pass under way began
  sinceLast                   \* since the last pass that was completed began

savedVars == <<G_stream_index, G_rss_feed_index, G_volume, G_player_mode,
               G_display_mode_upper_row, G_prev_output_device>>
persistenceVars == <<NVRAM, persistence_data, persistencePc, field, opened>>
historyVars == <<sincePass, sinceLast>>

PLAYER_STOP   == "stop"
PLAYER_STREAM == "stream"
ALARM_ACTIVE  == "alarm"

(* The order of PL_check_persistence_data, and of PL_sync_persistence_data.  *)
(* Wrong: an output that changes alone is not noticed ...                    *)
ComparedButOutput ==
  <<"stream_index", "rss_index", "volume_level", "player_mode", "display_mode_1">>
(* Wrong: ... or the record keeps the display mode it was loaded with.       *)
SyncedButDisplay ==
  <<"stream_index", "rss_index", "volume_level", "last_audio_output", "player_mode">>

Compared == <<"stream_index", "rss_index", "volume_level", "player_mode", "display_mode_1",
              "last_audio_output">>
Synced   == <<"stream_index", "rss_index", "volume_level", "display_mode_1",
              "last_audio_output", "player_mode">>
Restored == {"stream_index", "rss_index", "volume_level", "display_mode_1",
             "last_audio_output"}

Globals == [stream_index |-> G_stream_index, rss_index |-> G_rss_feed_index,
            volume_level |-> G_volume, player_mode |-> G_player_mode,
            display_mode_1 |-> G_display_mode_upper_row,
            last_audio_output |-> G_prev_output_device]

(* An area that was never written: the signature is not there.              *)
Blank == [signature |-> FALSE, stream_index |-> 0, rss_index |-> 0, volume_level |-> 0,
          player_mode |-> PLAYER_STOP, display_mode_1 |-> "off", last_audio_output |-> 0]
IsRecord(r) == r = [f \in DOMAIN Blank |-> r[f]]

Is(f) == {Globals[f]}
Nothing == [f \in Restored |-> {}]

(* The values after a step are added to what was seen.                       *)
Noted ==
  /\ sincePass' = IF persistencePc' \in {"compare", "sync"}
                  THEN [f \in Restored |-> sincePass[f] \cup Is(f)'] ELSE Nothing
  /\ sinceLast' = [f \in Restored |-> sinceLast[f] \cup Is(f)']

-----------------------------------------------------------------------------
(* Its own stack is new, so a copy that could not be read has no signature.  *)
PersistenceLoads ==
  /\ persistencePc = "load"
  /\ persistence_data' = NVRAM
  /\ persistencePc' = "look"
  /\ UNCHANGED <<NVRAM, field, opened, savedVars, G_global_mode, historyVars>>

(* While an alarm rings or setup is open there is no comparison, only       *)
(* another sleep.                                                           *)
PersistenceLooks ==
  /\ persistencePc = "look"
  /\ G_player_mode # ALARM_ACTIVE /\ G_global_mode # "setup"
  /\ persistencePc' = "compare" /\ field' = 0
  /\ sincePass' = [f \in Restored |-> Is(f)]
  /\ UNCHANGED <<NVRAM, persistence_data, opened, savedVars, G_global_mode, sinceLast>>

(* A pass is completed when NVRAM holds what the thread believes it holds.   *)
PassEnds ==
  /\ sinceLast' = IF NVRAM' = persistence_data' THEN sincePass ELSE sinceLast
  /\ sincePass' = Nothing

PersistenceCompares ==
  /\ persistencePc = "compare" /\ field < Len(Compared)
  /\ IF persistence_data[Compared[field + 1]] = Globals[Compared[field + 1]]
     THEN field' = field + 1 /\ UNCHANGED persistencePc
     ELSE field' = 0 /\ persistencePc' = "sync"
  /\ UNCHANGED <<NVRAM, persistence_data, opened, savedVars, G_global_mode, historyVars>>

PersistenceComparesSignature ==
  /\ persistencePc = "compare" /\ field = Len(Compared)
  /\ field' = 0
  /\ UNCHANGED <<NVRAM, persistence_data, opened, savedVars, G_global_mode>>
  /\ IF persistence_data.signature
     THEN persistencePc' = "look" /\ PassEnds
     ELSE persistencePc' = "sync" /\ UNCHANGED historyVars

(* An alarm that rings is not what the radio should come back to.           *)
Stored(f) ==
  IF f = "player_mode" /\ G_player_mode = ALARM_ACTIVE THEN PLAYER_STOP ELSE Globals[f]

PersistenceSyncs ==
  /\ persistencePc = "sync" /\ field < Len(Synced)
  /\ persistence_data' = [persistence_data EXCEPT !.signature = TRUE,
                                                  ![Synced[field + 1]] = Stored(Synced[field + 1])]
  /\ field' = field + 1
  /\ UNCHANGED <<NVRAM, persistencePc, opened, savedVars, G_global_mode, historyVars>>

(* Nothing closes the descriptor; when no more can be had the write fails    *)
(* and nobody notices.                                                      *)
PersistenceWrites ==
  /\ persistencePc = "sync" /\ field = Len(Synced)
  /\ IF opened < Descriptors
     THEN NVRAM' = persistence_data /\ opened' = opened + 1
     ELSE UNCHANGED <<NVRAM, opened>>
  /\ persistencePc' = "look" /\ field' = 0
  /\ UNCHANGED <<persistence_data, savedVars, G_global_mode>>
  /\ PassEnds

Persistence ==
  \/ PersistenceLoads \/ PersistenceLooks \/ PersistenceCompares
  \/ PersistenceComparesSignature \/ PersistenceSyncs \/ PersistenceWrites

-----------------------------------------------------------------------------
(* Wrong: the saved index is restored whatever the list is now.              *)
KeepsIndex(streams) ==
  IF NVRAM.signature
  THEN /\ G_stream_index' = NVRAM.stream_index
       /\ G_rss_feed_index' = NVRAM.rss_index
       /\ G_volume' = NVRAM.volume_level
       /\ G_display_mode_upper_row' = NVRAM.display_mode_1
       /\ G_prev_output_device' = NVRAM.last_audio_output
       /\ UNCHANGED G_player_mode
  ELSE UNCHANGED savedVars

(* PL_keep_persistence, with the number of streams the configuration holds.  *)
KeepPersistence(streams) ==
  IF NVRAM.signature
  THEN /\ G_stream_index' = IF streams > NVRAM.stream_index THEN NVRAM.stream_index
                            ELSE G_stream_index
       /\ G_rss_feed_index' = NVRAM.rss_index
       /\ G_volume' = NVRAM.volume_level
       /\ G_display_mode_upper_row' = NVRAM.display_mode_1
       /\ G_prev_output_device' = NVRAM.last_audio_output
       /\ UNCHANGED G_player_mode
  ELSE UNCHANGED savedVars
=============================================================================
