---------------------------- MODULE SnoozeThread ----------------------------
(***************************************************************************)
(* PL_snooze_timer_thread (clock/snooze-thread.c): once a second it looks    *)
(* whether G_snooze_state is what it was at the end of the last look, mutes  *)
(* the device when a snooze begins and restores the mode when it is over.    *)
(***************************************************************************)
EXTENDS IrisGlobals

CONSTANTS
  SnoozeTime,   \* G_config.snooze_timer_time, in looks
  SplitPoll     \* TRUE: a key may come between a look and the note made of it

ASSUME SnoozeAssumption == SnoozeTime \in Nat \ {0} /\ SplitPoll \in BOOLEAN

VARIABLES
  snoozePc,
  snooze_seconds,
  snooze_savestate,   \* the state at the end of the last look
  save_mode           \* the mode to restore

snoozeVars == <<snoozePc, snooze_seconds, snooze_savestate, save_mode>>

SnoozeTypeOK ==
  /\ snoozePc \in {"look", "note"}
  /\ snooze_seconds \in 0 .. SnoozeTime
  /\ snooze_savestate \in SnoozeStates
  /\ save_mode \in Modes

(* All three locals are uninitialised.  The first look, before there is a    *)
(* keyboard thread, finds SNOOZE_INACTIVE and notes it; the other two keep   *)
(* what they hold.  A count above the limit acts as one at the limit.        *)
SnoozeInit ==
  /\ snoozePc = "look"
  /\ snooze_savestate = SNOOZE_INACTIVE
  /\ snooze_seconds \in IF Garbage THEN 0 .. SnoozeTime ELSE {0}
  /\ save_mode \in IF Garbage THEN Modes ELSE {PLAYER_STOP}

(* Wrong: only the beginning of a snooze is noticed.                        *)
SnoozeBegan == G_snooze_state # snooze_savestate /\ G_snooze_state = SNOOZE_ACTIVE

SomethingHappened == G_snooze_state # snooze_savestate

(* Wrong: the seconds are not counted.                                     *)
CountNothing(mode, otherwise) ==
  /\ G_player_mode' = otherwise
  /\ UNCHANGED <<G_snooze_state, snooze_seconds>>

(* One more second of an active snooze that restores `mode' in the end.     *)
CountSnooze(mode, otherwise) ==
  IF snooze_seconds + 1 >= SnoozeTime
    THEN /\ G_snooze_state' = SNOOZE_INACTIVE
         /\ snooze_seconds' = 0
         /\ G_player_mode' = mode
    ELSE /\ snooze_seconds' = snooze_seconds + 1
         /\ G_player_mode' = otherwise
         /\ UNCHANGED G_snooze_state

SnoozeLooks ==
  /\ snoozePc = "look"
  /\ \/ /\ SomethingHappened /\ G_snooze_state = SNOOZE_RESET
        /\ snooze_seconds' = 0
        /\ G_snooze_state' = SNOOZE_INACTIVE
        /\ UNCHANGED <<G_player_mode, save_mode, wake>>
     \/ /\ SomethingHappened /\ G_snooze_state = SNOOZE_ACTIVE
        /\ save_mode' = G_player_mode
        /\ CountSnooze(G_player_mode, PLAYER_STOP)
        /\ wake' = "no"
     \/ /\ ~SomethingHappened /\ G_snooze_state = SNOOZE_ACTIVE
        /\ CountSnooze(save_mode, G_player_mode)
        /\ UNCHANGED <<save_mode, wake>>
     \/ /\ G_snooze_state = SNOOZE_INACTIVE \/ (G_snooze_state = SNOOZE_RESET /\ ~SomethingHappened)
        /\ UNCHANGED <<G_player_mode, G_snooze_state, snooze_seconds, save_mode, wake>>
  /\ \/ SplitPoll /\ snoozePc' = "note" /\ UNCHANGED snooze_savestate
     \/ ~SplitPoll /\ UNCHANGED snoozePc /\ snooze_savestate' = G_snooze_state'
  /\ UNCHANGED <<bassVars, askedBy, G_wakeup, G_stream_index, G_global_mode, sleepVars, ttsVars>>

(* The note is read from the variable again, not from what was looked at.   *)
SnoozeNotes ==
  /\ snoozePc = "note"
  /\ snoozePc' = "look"
  /\ snooze_savestate' = G_snooze_state
  /\ UNCHANGED <<bassVars, globalVars, snooze_seconds, save_mode>>

SnoozeStep == SnoozeLooks \/ SnoozeNotes
=============================================================================
