----------------------------- MODULE StreamVolume -----------------------------
(***************************************************************************)
(* How loud the radio is: a volume that keys and commands change, the note   *)
(* of the volume that was set last (G_prev_volume_level), and the channel     *)
(* that has it.  The player (player/player-thread.c) sets it when it opens a  *)
(* stream and when the volume differs from the note; the speech thread       *)
(* (tts/tts-thread.c) turns the stream down while it speaks and up again, and *)
(* keeps the note as well; the Bluetooth sink has a volume of its own.  There *)
(* is no lock.                                                              *)
(***************************************************************************)
EXTENDS Integers

CONSTANTS
  Loudest,              \* volumes are 1 .. Loudest
  SinkVolume,           \* 0.10, when the Bluetooth sink begins
  StreamVolumeAgain     \* 0.40, when it ends

Volumes == 1 .. Loudest
ASSUME VolumeAssumption ==
  /\ Loudest \in Nat \ {0} /\ SinkVolume \in Volumes /\ StreamVolumeAgain \in Volumes

VARIABLES
  volume_level, G_prev_volume_level,
  wanted,          \* "stream" or "stop": the player mode
  sinkOn,          \* G_config.bt_sink
  streamBit,       \* BASS_IN_USE_BY_STREAM
  channel,         \* what G_stream_chan has: a volume, or else one of the following
  volumePc,        \* of the player thread
  voicePc, voice,  \* of the speech thread, and whether it tells the "time" or "news"
  G_TTS_state,
  (* History, not in the program: *)
  missed           \* the player cannot know that the channel has another volume

volumeVars == <<volume_level, G_prev_volume_level, wanted, sinkOn, streamBit, channel,
                volumePc, voicePc, voice, G_TTS_state, missed>>

NO_CHANNEL == 0
OWN        == -1   \* as it was created
QUIET      == -2   \* 0.35, when it is created under speech
LOWERED    == -3   \* by the speech
FADING     == -4

VolumeInit ==
  /\ volume_level = Loudest /\ G_prev_volume_level = Loudest
  /\ wanted = "stop" /\ sinkOn = FALSE
  /\ streamBit = FALSE /\ channel = NO_CHANNEL /\ volumePc = "begin"
  /\ voicePc = "silent" /\ voice = "time" /\ G_TTS_state = "stopped"
  /\ missed = FALSE

PlayerGoes(from, to) == volumePc = from /\ volumePc' = to

voiceVars == <<voicePc, voice, G_TTS_state>>
demandVars == <<wanted, sinkOn>>

(* The volume is set on a channel that is there.                            *)
SetChannel(v) == channel' = IF channel = NO_CHANNEL THEN NO_CHANNEL ELSE v

-----------------------------------------------------------------------------
(* Keys, commands, and the menu.  A change that takes the volume back to the *)
(* note before the player has looked is missed, if meanwhile the volume that *)
(* is taken back was set.                                                   *)
VolumeChanges ==
  /\ volume_level' \in {volume_level - 1, volume_level + 1} \cap Volumes
  /\ missed' = (missed \/ (volume_level' = G_prev_volume_level /\ channel \in Volumes \ {volume_level'}))
  /\ UNCHANGED <<G_prev_volume_level, demandVars, streamBit, channel, volumePc, voiceVars>>

DemandChanges ==
  /\ \/ wanted' \in {"stream", "stop"} \ {wanted} /\ UNCHANGED sinkOn
     \/ sinkOn' = ~sinkOn /\ UNCHANGED wanted
  /\ UNCHANGED <<volume_level, G_prev_volume_level, streamBit, channel, volumePc, voiceVars, missed>>

-----------------------------------------------------------------------------
(* PL_player_thread.                                                        *)
PlayerNotesFirst ==
  /\ PlayerGoes("begin", "wait")
  /\ G_prev_volume_level' = volume_level
  /\ UNCHANGED <<volume_level, demandVars, streamBit, channel, voiceVars, missed>>

(* BASS_Init may be refused.                                                *)
PlayerOpens ==
  /\ wanted = "stream" /\ ~sinkOn
  /\ \/ PlayerGoes("wait", "begin") /\ UNCHANGED streamBit
     \/ PlayerGoes("wait", "open") /\ streamBit' = TRUE
  /\ UNCHANGED <<volume_level, G_prev_volume_level, demandVars, channel, voiceVars, missed>>

(* The bit stays set.                                                       *)
StreamRefused ==
  /\ PlayerGoes("open", "begin") /\ wanted' = "stop"
  /\ UNCHANGED <<volume_level, G_prev_volume_level, sinkOn, streamBit, channel, voiceVars, missed>>

StreamCreated ==
  /\ PlayerGoes("open", "created") /\ channel' = OWN
  /\ UNCHANGED <<volume_level, G_prev_volume_level, demandVars, streamBit, voiceVars, missed>>

PlayerAsksForSpeech ==
  /\ PlayerGoes("created", IF G_TTS_state = "playing" THEN "quiet" ELSE "loud")
  /\ UNCHANGED <<volume_level, G_prev_volume_level, demandVars, streamBit, channel, voiceVars, missed>>

(* 0.35 stays when the speech has turned the stream up by now.              *)
PlayerSetsQuiet ==
  /\ PlayerGoes("quiet", "play") /\ channel' = QUIET
  /\ missed' = (voicePc # "speak")
  /\ UNCHANGED <<volume_level, G_prev_volume_level, demandVars, streamBit, voiceVars>>

PlayerSetsVolume ==
  /\ PlayerGoes("loud", "play") /\ channel' = volume_level /\ missed' = FALSE
  /\ UNCHANGED <<volume_level, G_prev_volume_level, demandVars, streamBit, voiceVars>>

(* The play loop: the volume is looked at, set, and noted.                   *)
PlayerLooks ==
  /\ PlayerGoes("play", "set") /\ wanted = "stream"
  /\ G_TTS_state # "playing" /\ volume_level # G_prev_volume_level
  /\ UNCHANGED <<volume_level, G_prev_volume_level, demandVars, streamBit, channel, voiceVars, missed>>

PlayerSets ==
  /\ PlayerGoes("set", "note") /\ channel' = volume_level /\ missed' = FALSE
  /\ UNCHANGED <<volume_level, G_prev_volume_level, demandVars, streamBit, voiceVars>>

(* A change that falls between is noted and not set.                        *)
PlayerNotes ==
  /\ PlayerGoes("note", "play") /\ G_prev_volume_level' = volume_level
  /\ missed' = (missed \/ channel \in Volumes \ {volume_level})
  /\ UNCHANGED <<volume_level, demandVars, streamBit, channel, voiceVars>>

PlayerStopsForSink ==
  /\ volumePc = "play" /\ sinkOn /\ wanted' = "stop"
  /\ UNCHANGED <<volume_level, G_prev_volume_level, sinkOn, streamBit, channel, volumePc, voiceVars, missed>>

(* Stopped, another station, or a stream that broke: fade, free, clear.      *)
PlayerFades ==
  /\ PlayerGoes("play", "fade") /\ channel' = FADING
  /\ UNCHANGED <<volume_level, G_prev_volume_level, demandVars, streamBit, voiceVars, missed>>

PlayerFrees ==
  /\ PlayerGoes("fade", "clear") /\ channel' = NO_CHANNEL
  /\ UNCHANGED <<volume_level, G_prev_volume_level, demandVars, streamBit, voiceVars, missed>>

PlayerClearsBit ==
  /\ PlayerGoes("clear", "begin") /\ streamBit' = FALSE
  /\ UNCHANGED <<volume_level, G_prev_volume_level, demandVars, channel, voiceVars, missed>>

(* The Bluetooth sink: its channel may fail to be created, which nobody      *)
(* looks at; the library is opened without a bit.                           *)
SinkBegins ==
  /\ sinkOn /\ PlayerGoes("wait", "sink")
  /\ volume_level' = SinkVolume /\ channel' \in {SinkVolume, NO_CHANNEL}
  /\ UNCHANGED <<G_prev_volume_level, demandVars, streamBit, voiceVars, missed>>

SinkLooks ==
  /\ sinkOn /\ PlayerGoes("sink", "sinkNote")
  /\ IF volume_level # G_prev_volume_level THEN SetChannel(volume_level) ELSE UNCHANGED channel
  /\ UNCHANGED <<volume_level, G_prev_volume_level, demandVars, streamBit, voiceVars, missed>>

SinkNotes ==
  /\ PlayerGoes("sinkNote", "sink") /\ G_prev_volume_level' = volume_level
  /\ UNCHANGED <<volume_level, demandVars, streamBit, channel, voiceVars, missed>>

SinkEnds ==
  /\ ~sinkOn /\ PlayerGoes("sink", "begin")
  /\ volume_level' = StreamVolumeAgain /\ channel' = NO_CHANNEL
  /\ UNCHANGED <<G_prev_volume_level, demandVars, streamBit, voiceVars, missed>>

Sink == SinkBegins \/ SinkLooks \/ SinkNotes \/ SinkEnds
PlaysStream ==
  \/ PlayerAsksForSpeech \/ PlayerSetsQuiet \/ PlayerSetsVolume
  \/ PlayerLooks \/ PlayerSets \/ PlayerNotes \/ PlayerStopsForSink
  \/ PlayerFades \/ PlayerFrees \/ PlayerClearsBit
VolumePlayer ==
  PlayerNotesFirst \/ PlayerOpens \/ StreamRefused \/ StreamCreated \/ PlaysStream \/ Sink

-----------------------------------------------------------------------------
(* PL_TTS_thread.                                                           *)
VoiceGoes(from, to) ==
  /\ voicePc = from /\ voicePc' = to
  /\ UNCHANGED <<volume_level, demandVars, streamBit, volumePc>>

NewsArePrepared ==
  /\ VoiceGoes("silent", "prepare") /\ voice' = "news" /\ G_TTS_state' = "preparing"
  /\ UNCHANGED <<G_prev_volume_level, channel, missed>>

(* Refused the library while it is to tell the time the thread returns, as    *)
(* it does whenever the sink has the library, which has no bit.             *)
TimeIsRefused ==
  /\ ~streamBit /\ VoiceGoes("silent", "gone")
  /\ UNCHANGED <<G_prev_volume_level, channel, voice, G_TTS_state, missed>>

(* For the time only a stream is turned down and up, for the news whatever   *)
(* the handle stands for.                                                   *)
VoiceLowersForTime ==
  /\ streamBit \/ volumePc \notin {"sink", "sinkNote"}
  /\ VoiceGoes("silent", "lowered") /\ voice' = "time"
  /\ IF streamBit THEN SetChannel(LOWERED) ELSE UNCHANGED channel
  /\ UNCHANGED <<G_prev_volume_level, G_TTS_state, missed>>

VoiceLowersForNews ==
  /\ VoiceGoes("prepare", "lowered") /\ SetChannel(LOWERED)
  /\ UNCHANGED <<G_prev_volume_level, voice, G_TTS_state, missed>>

VoiceSpeaks ==
  /\ VoiceGoes("lowered", "speak") /\ G_TTS_state' = "playing"
  /\ UNCHANGED <<G_prev_volume_level, channel, voice, missed>>

(* PL_BASS_play_TTS_file sets the volume of a channel nobody uses.           *)
VoiceNotes ==
  /\ VoiceGoes("speak", "speak")
  /\ volume_level # G_prev_volume_level /\ G_prev_volume_level' = volume_level
  /\ UNCHANGED <<channel, voice, G_TTS_state, missed>>

(* Wrong: turned up only after the time was told.                           *)
RaisesAfterTime ==
  /\ VoiceGoes("speak", "raised")
  /\ IF voice = "time" /\ streamBit
     THEN SetChannel(volume_level) /\ missed' = (missed /\ channel = NO_CHANNEL)
     ELSE UNCHANGED <<channel, missed>>
  /\ UNCHANGED <<G_prev_volume_level, voice, G_TTS_state>>

VoiceRaises ==
  /\ VoiceGoes("speak", "raised")
  /\ IF voice = "news" \/ streamBit
     THEN SetChannel(volume_level) /\ missed' = (missed /\ channel = NO_CHANNEL)
     ELSE UNCHANGED <<channel, missed>>
  /\ UNCHANGED <<G_prev_volume_level, voice, G_TTS_state>>

VoiceStops ==
  /\ VoiceGoes("raised", "silent") /\ G_TTS_state' = "stopped"
  /\ UNCHANGED <<G_prev_volume_level, channel, voice, missed>>

Voice ==
  \/ NewsArePrepared \/ TimeIsRefused \/ VoiceLowersForTime \/ VoiceLowersForNews
  \/ VoiceSpeaks \/ VoiceNotes \/ VoiceRaises \/ VoiceStops

VolumeNext == VolumeChanges \/ DemandChanges \/ VolumePlayer \/ Voice
VolumeSpec == VolumeInit /\ [][VolumeNext]_volumeVars

-----------------------------------------------------------------------------
(* While a stream plays and nobody speaks, it has the volume that was chosen, *)
(* or the player will find that it has not; whatever was changed, noted,      *)
(* turned down and up before.  Three things go wrong: a change between        *)
(* setting and noting, a change that is taken back before the player looks,   *)
(* and a stream turned down for speech that has just turned it up.           *)
VolumeIsHeard ==
  volumePc = "play" /\ voicePc \notin {"lowered", "speak"} /\ ~missed =>
    channel = volume_level \/ volume_level # G_prev_volume_level
=============================================================================
