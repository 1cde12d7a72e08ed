----------------------------- MODULE BassSharing -----------------------------
(***************************************************************************)
(* How the threads of IRIS2 share the BASS audio library and the internal  *)
(* amplifier.  There is no lock: a thread looks at G_BASS_in_use, one bit   *)
(* per user of the library, calls BASS_Init when no bit is set, sets its    *)
(* own bit with |=, plays, clears the bit with ^= and, when no bit is left, *)
(* calls BASS_Free and switches the amplifier off.                          *)
(*                                                                         *)
(* The same sequence is written out in PL_player_thread, PL_TTS_thread,    *)
(* PL_TTS_play_rss_items and PL_run_alarm.  Here it is one component, for   *)
(* any set of users; the threads that drive it are modules of their own.   *)
(***************************************************************************)
EXTENDS Naturals, FiniteSets

CONSTANTS
  Users,          \* the users of the library, one bit of G_BASS_in_use each
  InternalOnly,   \* the users that always take the internal speaker (the alarm)
  Torn,           \* TRUE: |=, ^= and the test after them can be interleaved
  DeviceFails,    \* TRUE: BASS_Init may be refused by the sound device
  BtStates        \* the answers the Bluetooth indicator can give

ASSUME BassAssumption ==
  /\ InternalOnly \subseteq Users
  /\ Torn \in BOOLEAN
  /\ DeviceFails \in BOOLEAN
  /\ BtStates \subseteq BOOLEAN

VARIABLES
  G_BASS_in_use,      \* the users whose bit is set
  bassDevice,         \* the device BASS runs on, "none" when it is not initialised
  G_amp_active,       \* the internal amplifier is on
  G_bt_connected,     \* the Bluetooth speaker was there at the last look
  at,                 \* where each user is in the sequence below
  used_internal_spk,  \* the user's note that it switched the amplifier on
  output,             \* the output device the user has chosen
  loaded              \* the value of G_BASS_in_use a user holds in a register

bassVars == <<G_BASS_in_use, bassDevice, G_amp_active, G_bt_connected,
              at, used_internal_spk, output, loaded>>

Outputs == {"internal", "default"}

Locations ==
  {"out",       \* not using the library
   "ampOn",     \* about to switch the amplifier on
   "check",     \* about to test G_BASS_in_use
   "init",      \* saw no bit set: about to call BASS_Init
   "register",  \* about to set its bit
   "orStore",   \* has read G_BASS_in_use, about to write it with its bit set
   "in",        \* its bit is set: it may create and play channels
   "xorStore",  \* has read G_BASS_in_use, about to write it with its bit flipped
   "test",      \* has flipped its bit, about to test what is left
   "free",      \* saw no bit left: about to call BASS_Free
   "ampOff"}    \* about to switch the amplifier off

BassTypeOK ==
  /\ G_BASS_in_use \in SUBSET Users
  /\ bassDevice \in Outputs \cup {"none"}
  /\ G_amp_active \in BOOLEAN
  /\ G_bt_connected \in BOOLEAN
  /\ at \in [Users -> Locations]
  /\ used_internal_spk \in [Users -> BOOLEAN]
  /\ output \in [Users -> Outputs]
  /\ loaded \in [Users -> SUBSET Users]

BassInit0 ==
  /\ G_BASS_in_use = {}
  /\ bassDevice = "none"
  /\ G_amp_active = FALSE
  /\ G_bt_connected = FALSE
  /\ at = [u \in Users |-> "out"]
  /\ used_internal_spk = [u \in Users |-> FALSE]
  /\ output = [u \in Users |-> "internal"]
  /\ loaded = [u \in Users |-> {}]

-----------------------------------------------------------------------------
(* Taking the library.                                                     *)

Goes(u, from, to) ==
  /\ at[u] = from
  /\ at' = [at EXCEPT ![u] = to]

Flip(S, u) == IF u \in S THEN S \ {u} ELSE S \cup {u}

(* The amplifier is needed when it is off and no Bluetooth speaker is there *)
(* (the alarm does not ask about Bluetooth); otherwise the radio and the    *)
(* speech take the default output.  `noted' is what used_internal_spk holds *)
(* before the test: a leftover of an earlier use, or FALSE where it is a    *)
(* fresh local of the function.                                            *)
ChooseOutput(u, noted) ==
  /\ \/ /\ ~G_amp_active
        /\ u \in InternalOnly \/ ~G_bt_connected
        /\ Goes(u, "out", "ampOn")
        /\ UNCHANGED output
     \/ /\ G_amp_active \/ (u \notin InternalOnly /\ G_bt_connected)
        /\ Goes(u, "out", "check")
        /\ output' = [output EXCEPT
                        ![u] = IF u \in InternalOnly THEN "internal" ELSE "default"]
  /\ used_internal_spk' = [used_internal_spk EXCEPT ![u] = noted]
  /\ UNCHANGED <<G_BASS_in_use, bassDevice, G_amp_active, G_bt_connected, loaded>>

TurnOnAmp(u) ==
  /\ Goes(u, "ampOn", "check")
  /\ G_amp_active' = TRUE
  /\ used_internal_spk' = [used_internal_spk EXCEPT ![u] = TRUE]
  /\ output' = [output EXCEPT ![u] = "internal"]
  /\ UNCHANGED <<G_BASS_in_use, bassDevice, G_bt_connected, loaded>>

(* Wrong: the bit is only set by the user that initialises the library.     *)
JoinUnregistered(u) ==
  /\ G_BASS_in_use # {}
  /\ Goes(u, "check", "in")
  /\ UNCHANGED <<G_BASS_in_use, bassDevice, G_amp_active, G_bt_connected,
                 used_internal_spk, output, loaded>>

(* Somebody's bit is set: go on to set one's own.  Between this test and the *)
(* |= there is no call, so it is one step with it unless Torn.              *)
JoinUsers(u) ==
  /\ G_BASS_in_use # {}
  /\ \/ Torn /\ Goes(u, "check", "register") /\ UNCHANGED G_BASS_in_use
     \/ ~Torn /\ Goes(u, "check", "in") /\ G_BASS_in_use' = G_BASS_in_use \cup {u}
  /\ UNCHANGED <<bassDevice, G_amp_active, G_bt_connected,
                 used_internal_spk, output, loaded>>

FindUnused(u) ==
  /\ G_BASS_in_use = {}
  /\ Goes(u, "check", "init")
  /\ UNCHANGED <<G_BASS_in_use, bassDevice, G_amp_active, G_bt_connected,
                 used_internal_spk, output, loaded>>

(* Wrong: the result of BASS_Init is not looked at.                         *)
InitUnchecked(u) ==
  /\ Goes(u, "init", "register")
  /\ bassDevice' = output[u]
  /\ UNCHANGED <<G_BASS_in_use, G_amp_active, G_bt_connected,
                 used_internal_spk, output, loaded>>

(* BASS_Init fails when the library is already initialised.                 *)
InitSucceeds(u) ==
  /\ bassDevice = "none"
  /\ Goes(u, "init", "register")
  /\ bassDevice' = output[u]
  /\ UNCHANGED <<G_BASS_in_use, G_amp_active, G_bt_connected,
                 used_internal_spk, output, loaded>>

(* Nothing is undone: an amplifier switched on above stays on.             *)
InitFails(u) ==
  /\ bassDevice # "none" \/ DeviceFails
  /\ Goes(u, "init", "out")
  /\ UNCHANGED <<G_BASS_in_use, bassDevice, G_amp_active, G_bt_connected,
                 used_internal_spk, output, loaded>>

SetBit(u) ==
  /\ \/ ~Torn /\ Goes(u, "register", "in")
        /\ G_BASS_in_use' = G_BASS_in_use \cup {u} /\ UNCHANGED loaded
     \/ Torn /\ Goes(u, "register", "orStore")
        /\ loaded' = [loaded EXCEPT ![u] = G_BASS_in_use] /\ UNCHANGED G_BASS_in_use
     \/ Goes(u, "orStore", "in")
        /\ G_BASS_in_use' = loaded[u] \cup {u} /\ UNCHANGED loaded
  /\ UNCHANGED <<bassDevice, G_amp_active, G_bt_connected, used_internal_spk, output>>

Acquire(u) ==
  TurnOnAmp(u) \/ JoinUsers(u) \/ FindUnused(u) \/ InitSucceeds(u) \/ SetBit(u)

-----------------------------------------------------------------------------
(* Giving it back.                                                         *)

(* Wrong: what is left is not tested before the library is freed.           *)
ClearAndFree(u) ==
  /\ Goes(u, "in", "free")
  /\ G_BASS_in_use' = Flip(G_BASS_in_use, u)
  /\ UNCHANGED <<bassDevice, G_amp_active, G_bt_connected, used_internal_spk, output, loaded>>

(* Wrong: the library is never freed.                                      *)
ClearOnly(u) ==
  /\ Goes(u, "in", "out")
  /\ G_BASS_in_use' = Flip(G_BASS_in_use, u)
  /\ UNCHANGED <<bassDevice, G_amp_active, G_bt_connected, used_internal_spk, output, loaded>>

(* ^= and the test of what is left: one step unless Torn.                  *)
ClearBit(u) ==
  /\ \/ /\ ~Torn
        /\ G_BASS_in_use' = Flip(G_BASS_in_use, u)
        /\ Goes(u, "in", IF G_BASS_in_use' = {} THEN "free" ELSE "out")
        /\ UNCHANGED loaded
     \/ /\ Torn /\ Goes(u, "in", "xorStore")
        /\ loaded' = [loaded EXCEPT ![u] = G_BASS_in_use]
        /\ UNCHANGED G_BASS_in_use
     \/ /\ Goes(u, "xorStore", "test")
        /\ G_BASS_in_use' = Flip(loaded[u], u)
        /\ UNCHANGED loaded
     \/ /\ Goes(u, "test", IF G_BASS_in_use = {} THEN "free" ELSE "out")
        /\ UNCHANGED <<G_BASS_in_use, loaded>>
  /\ UNCHANGED <<bassDevice, G_amp_active, G_bt_connected, used_internal_spk, output>>

(* Wrong: the chosen output is forgotten with the library.                  *)
FreeOutput(u) ==
  /\ Goes(u, "free", "out")
  /\ bassDevice' = "none"
  /\ output' = [output EXCEPT ![u] = "none"]
  /\ UNCHANGED <<G_BASS_in_use, G_amp_active, G_bt_connected, used_internal_spk, loaded>>

(* The alarm switches the amplifier off whoever switched it on; the others  *)
(* only when they noted that they did.                                     *)
FreeBass(u) ==
  /\ Goes(u, "free", IF u \in InternalOnly \/ used_internal_spk[u] THEN "ampOff" ELSE "out")
  /\ bassDevice' = "none"
  /\ UNCHANGED <<G_BASS_in_use, G_amp_active, G_bt_connected,
                 used_internal_spk, output, loaded>>

TurnOffAmp(u) ==
  /\ Goes(u, "ampOff", "out")
  /\ G_amp_active' = FALSE
  /\ used_internal_spk' = [used_internal_spk EXCEPT ![u] = FALSE]
  /\ UNCHANGED <<G_BASS_in_use, bassDevice, G_bt_connected, output, loaded>>

Release(u) == ClearBit(u) \/ FreeBass(u) \/ TurnOffAmp(u)

(* Wrong: an error path that clears the bit and does nothing more.          *)
AbandonCleared(u) ==
  /\ Goes(u, "in", "out")
  /\ G_BASS_in_use' = G_BASS_in_use \ {u}
  /\ UNCHANGED <<bassDevice, G_amp_active, G_bt_connected, used_internal_spk, output, loaded>>

(* The error paths that leave without clearing the bit, freeing the library *)
(* or switching the amplifier off.                                         *)
Abandon(u) ==
  /\ Goes(u, "in", "out")
  /\ UNCHANGED <<G_BASS_in_use, bassDevice, G_amp_active, G_bt_connected,
                 used_internal_spk, output, loaded>>

(* PL_bt_indicator: every five seconds, whether the speaker is connected.  *)
BtIndicator ==
  /\ G_bt_connected' \in BtStates
  /\ UNCHANGED <<G_BASS_in_use, bassDevice, G_amp_active,
                 at, used_internal_spk, output, loaded>>

-----------------------------------------------------------------------------
UserStep(u) ==
  \/ \E noted \in BOOLEAN : ChooseOutput(u, noted)
  \/ Acquire(u)
  \/ InitFails(u)
  \/ Release(u)
  \/ Abandon(u)

BassNext == BtIndicator \/ \E u \in Users : UserStep(u)

BassSpec == BassInit0 /\ [][BassNext]_bassVars

-----------------------------------------------------------------------------
(* Properties.                                                             *)

(* Between BASS_Init and the |= that follows it, and between the ^= that    *)
(* leaves no bit and BASS_Free, a user decides alone about the library.     *)
Deciding(u) == at[u] \in {"register", "free"}

(* While the bit of any user is set the library is initialised: nobody     *)
(* frees it under a user whose channel may be playing, and a user that      *)
(* joins because a bit is set finds a library it can call.                  *)
BassUpWhileInUse == G_BASS_in_use # {} => bassDevice # "none"

(* A user between |= and ^= has its bit set, so ^= really clears it.        *)
PlayingIsRegistered == \A u \in Users : at[u] = "in" => u \in G_BASS_in_use

(* The library is never left initialised with no bit set and nobody about  *)
(* to set one or to free it: a later BASS_Init would be refused for good.   *)
NoOrphanedLibrary ==
  bassDevice # "none" => G_BASS_in_use # {} \/ \E u \in Users : Deciding(u)

(* Only one user at a time is in one of these two windows, and it finds the *)
(* library initialised and no bit set.                                     *)
OneDecides ==
  \A u \in Users : Deciding(u) =>
    /\ bassDevice # "none"
    /\ G_BASS_in_use = {}
    /\ \A v \in Users : Deciding(v) => v = u

(* The sharing implements AudioLibrary: the bits are its holders.           *)
Library == INSTANCE AudioLibrary WITH
  device  <- bassDevice,
  holders <- G_BASS_in_use,
  opening <- {u \in Users : at[u] = "register"},
  closing <- {u \in Users : at[u] = "free"}

(* Whatever the order in which the users come and go, each step of theirs is *)
(* one that AudioLibrary allows, or none of its business.                   *)
ImplementsLibrary == Library!LibrarySpec

(* Where nobody is when |= and ^= are not torn.                             *)
Whole == \A u \in Users : at[u] \notin {"orStore", "xorStore", "test"}

(* The inductive invariant, for a build in which |= and ^= are not torn.    *)
BassInv ==
  /\ BassTypeOK
  /\ Whole
  /\ BassUpWhileInUse
  /\ PlayingIsRegistered
  /\ NoOrphanedLibrary
  /\ OneDecides
=============================================================================
