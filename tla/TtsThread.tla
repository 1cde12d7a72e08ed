------------------------------ MODULE TtsThread ------------------------------
(***************************************************************************)
(* PL_TTS_thread and PL_TTS_play_rss_items (tts/tts-thread.c): reads one     *)
(* message at a time from the pipe and speaks the time or the news through   *)
(* the library.  Fetching and parsing the feed keep no state the other       *)
(* threads of this model see.                                              *)
(***************************************************************************)
EXTENDS IrisGlobals

CONSTANT NewsItems   \* how many items a feed has

ASSUME NewsAssumption == NewsItems \in Nat

VARIABLES
  ttsPc,
  TTS_msg,     \* the message being served
  itemsLeft,   \* the pieces still to be spoken after the current one
  ampLeftOn    \* used_internal_spk of PL_TTS_thread, between two messages

ttsLocals == <<ttsPc, TTS_msg, itemsLeft, ampLeftOn>>

TtsLocations ==
  {"read",      \* blocked in read(), or about to be
   "wait",      \* asleep before it looks at the feed
   "prepare",   \* fetching the feed and synthesising its items
   "acquire",   \* choosing the output, BASS_Init, setting the bit
   "lower",     \* turning the stream down
   "speak",
   "release",   \* clearing the bit, freeing the library
   "finish",    \* the news are over: removing the files
   "dead"}      \* the thread function has returned

TtsTypeOK ==
  /\ ttsPc \in TtsLocations
  /\ TTS_msg \in TtsMessages
  /\ itemsLeft \in 0 .. NewsItems
  /\ ampLeftOn \in BOOLEAN

TtsInit == ttsPc = "read" /\ TTS_msg = TTS_STOP /\ itemsLeft = 0 /\ ampLeftOn = FALSE

TtsGoes(from, to) == ttsPc = from /\ ttsPc' = to

othersOfTts == <<modeVars, G_wakeup, wake, G_stream_index, G_global_mode, G_snooze_state, sleepVars>>

(* A TTS_STOP that is read finds nothing to stop: the thread reads again    *)
(* only when it is silent.  For the same reason the break on a message that *)
(* arrives while TTS_PLAYING is not taken (SilentWhenReading).              *)
TtsReads ==
  /\ G_TTS_thread_input # <<>>
  /\ TTS_msg' = Head(G_TTS_thread_input)
  /\ G_TTS_thread_input' = Tail(G_TTS_thread_input)
  /\ \/ /\ TTS_msg' = TTS_STOP
        /\ TtsGoes("read", "read")
        /\ UNCHANGED bassVars
     \/ /\ TTS_msg' = TTS_SAY_CURRENT_TIME
        /\ TtsGoes("read", "acquire")
        /\ ChooseOutput("tts", ampLeftOn)
     \/ /\ TTS_msg' = TTS_READ_RSS_NOW
        /\ TtsGoes("read", "wait")
        /\ UNCHANGED bassVars
  /\ UNCHANGED <<othersOfTts, G_TTS_state, itemsLeft, ampLeftOn>>

TtsAnnounces ==
  /\ TtsGoes("wait", "prepare")
  /\ G_TTS_state' = TTS_PREPARING
  /\ UNCHANGED <<bassVars, othersOfTts, G_TTS_thread_input, TTS_msg, itemsLeft, ampLeftOn>>

(* used_internal_spk of PL_TTS_play_rss_items is a fresh local.             *)
TtsPrepares ==
  /\ TtsGoes("prepare", "acquire")
  /\ G_TTS_state' = TTS_PLAYING
  /\ ChooseOutput("tts", FALSE)
  /\ itemsLeft' = NewsItems
  /\ UNCHANGED <<othersOfTts, G_TTS_thread_input, TTS_msg, ampLeftOn>>

TtsAcquires ==
  /\ Acquire("tts")
  /\ TtsGoes("acquire", IF at'["tts"] # "in" THEN "acquire"
                        ELSE IF TTS_msg = TTS_SAY_CURRENT_TIME THEN "lower" ELSE "speak")
  /\ UNCHANGED <<globalVars, TTS_msg, itemsLeft, ampLeftOn>>

(* Refused while telling the time the thread returns for good; refused with *)
(* the news it only skips the speaking.                                    *)
TtsIsRefused ==
  /\ InitFails("tts")
  /\ TtsGoes("acquire", IF TTS_msg = TTS_SAY_CURRENT_TIME THEN "dead" ELSE "finish")
  /\ itemsLeft' = 0
  /\ UNCHANGED <<globalVars, TTS_msg, ampLeftOn>>

(* Telling the time: TTS_PLAYING only once the stream is turned down.       *)
TtsLowers ==
  /\ TtsGoes("lower", "speak")
  /\ G_TTS_state' = TTS_PLAYING
  /\ UNCHANGED <<bassVars, othersOfTts, G_TTS_thread_input, TTS_msg, itemsLeft, ampLeftOn>>

(* One piece after the other: the time, or the items of the feed between     *)
(* the announcements.  Nothing in here looks at the pipe.                   *)
TtsSpeaks ==
  /\ IF itemsLeft > 0
       THEN TtsGoes("speak", "speak") /\ itemsLeft' = itemsLeft - 1
       ELSE TtsGoes("speak", "release") /\ UNCHANGED itemsLeft
  /\ UNCHANGED <<bassVars, globalVars, TTS_msg, ampLeftOn>>

BitCleared(u) == at[u] \in {"in", "xorStore"} /\ at'[u] \notin {"in", "xorStore"}

(* Wrong: after the time is told nobody says that the speech has stopped.    *)
ReleasesQuietly ==
  /\ Release("tts")
  /\ TtsGoes("release", IF at'["tts"] # "out" THEN "release"
                        ELSE IF TTS_msg = TTS_SAY_CURRENT_TIME THEN "read" ELSE "finish")
  /\ UNCHANGED <<globalVars, TTS_msg, itemsLeft, ampLeftOn>>

(* After the time is told TTS_STOPPED is written right after the ^=, before *)
(* the library is freed; after the news it is written last.  What the      *)
(* thread noted of the amplifier outlives the message in its own variable,  *)
(* not in that of PL_TTS_play_rss_items.                                   *)
TtsReleases ==
  /\ Release("tts")
  /\ TtsGoes("release", IF at'["tts"] # "out" THEN "release"
                        ELSE IF TTS_msg = TTS_SAY_CURRENT_TIME THEN "read" ELSE "finish")
  /\ G_TTS_state' = IF TTS_msg = TTS_SAY_CURRENT_TIME /\ BitCleared("tts")
                    THEN TTS_STOPPED ELSE G_TTS_state
  /\ ampLeftOn' = IF TTS_msg = TTS_SAY_CURRENT_TIME /\ at'["tts"] = "out"
                  THEN used_internal_spk'["tts"] ELSE ampLeftOn
  /\ UNCHANGED <<othersOfTts, G_TTS_thread_input, TTS_msg, itemsLeft>>

(* Wrong: so do the news.                                                  *)
FinishesQuietly ==
  /\ TtsGoes("finish", "read")
  /\ UNCHANGED <<bassVars, globalVars, TTS_msg, itemsLeft, ampLeftOn>>

TtsFinishes ==
  /\ TtsGoes("finish", "read")
  /\ G_TTS_state' = TTS_STOPPED
  /\ UNCHANGED <<bassVars, othersOfTts, G_TTS_thread_input, TTS_msg, itemsLeft, ampLeftOn>>

TtsStep ==
  \/ TtsReads  \/ TtsAnnounces \/ TtsPrepares \/ TtsAcquires \/ TtsIsRefused
  \/ TtsLowers \/ TtsSpeaks   \/ TtsReleases \/ TtsFinishes
=============================================================================
