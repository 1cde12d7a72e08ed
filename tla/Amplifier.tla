------------------------------ MODULE Amplifier ------------------------------
(***************************************************************************)
(* The gains of the amplifier and its power (audio/AMP-control.c,             *)
(* audio/AMP-TAS5721.c, audio/i2c.c): the setup menu changes the gains in *)
(* place, a thread compares them every 10 ms with what it noted last and      *)
(* writes them to the registers of the chip, and so do the threads that      *)
(* switch the amplifier on and off, register after register.  There is no     *)
(* lock.  A chip that is not there and a bus that fails are left out.         *)
(***************************************************************************)
EXTENDS Integers, Sequences, FiniteSets

CONSTANTS
  AmpUsers,      \* the threads that call PL_set_amp
  GainsOf,       \* from which value to which each of the gains can be set
  InitialGains   \* AMP_INIT_SATELLITE_GAIN, AMP_INIT_SUBWOOFER_GAIN, AMP_INIT_MASTERVOL

Controller == "control"
GainNames == DOMAIN GainsOf
Gains == {g \in [GainNames -> UNION {GainsOf[n] : n \in GainNames}] :
            \A n \in GainNames : g[n] \in GainsOf[n]}

ASSUME AmplifierAssumption == Controller \notin AmpUsers /\ InitialGains \in Gains

VARIABLES
  HW_volume,       \* G_config.HW_volume_L and _S, and HW_mastervol
  HW_params_prev,
  registers,       \* CH1VOL, CH2VOL and MASTERVOL of the chip
  ampPc,           \* of the controller and the users
  ampWrites,       \* per thread: the registers it still has to write, with the values
                   \* it has read
  G_amp_active,
  chip,            \* SYSCTRL2 and SOFTMUTE: is it awake, and is it muted?
  (* History, not in the program: *)
  overtaken,       \* when a gain was last changed, some thread was writing the gains,
                   \* the controller was to note them, or had not noted the change before
  together         \* two threads have switched the amplifier at one time

powerVars == <<G_amp_active, chip, together>>
ampVars == <<HW_volume, HW_params_prev, registers, ampPc, ampWrites, powerVars, overtaken>>

(* PL_HW_init_amp switches the chip off and on, resets it and mutes it; then   *)
(* PL_set_amp(0) lets it sleep.                                             *)
ChipAtStart == [awake |-> FALSE, muted |-> TRUE]

(* PL_init_amp, and what the settings make of the gains it gives.  The        *)
(* controller's stack is not initialised.                                   *)
AmpInit ==
  /\ HW_volume \in Gains /\ HW_params_prev \in Gains /\ registers = InitialGains
  /\ ampPc = [t \in AmpUsers \cup {Controller} |-> IF t = Controller THEN "begin" ELSE "idle"]
  /\ ampWrites = [t \in AmpUsers \cup {Controller} |-> <<>>]
  /\ G_amp_active = FALSE /\ chip = ChipAtStart
  /\ overtaken = FALSE /\ together = FALSE

AmpGoes(t, from, to) == ampPc[t] = from /\ ampPc' = [ampPc EXCEPT ![t] = to]

(* PL_HW_set_amp_HW_volume, called at "call", writing at "writing": all is   *)
(* read at the call, and written one after another.                         *)
SetHWVolume(t, call, writing) ==
  /\ AmpGoes(t, call, writing)
  /\ ampWrites' = [ampWrites EXCEPT ![t] =
       [i \in 1 .. 3 |-> [gain |-> <<"L", "S", "master">>[i],
                          value |-> HW_volume[<<"L", "S", "master">>[i]]]]]
  /\ UNCHANGED <<HW_volume, HW_params_prev, registers, powerVars, overtaken>>

WritesRegister(t, writing, back) ==
  /\ AmpGoes(t, writing, IF Len(ampWrites[t]) > 1 THEN writing ELSE back)
  /\ registers' = [registers EXCEPT ![Head(ampWrites[t]).gain] = Head(ampWrites[t]).value]
  /\ ampWrites' = [ampWrites EXCEPT ![t] = Tail(@)]
  /\ UNCHANGED <<HW_volume, HW_params_prev, powerVars, overtaken>>

-----------------------------------------------------------------------------
(* PL_HW_amp_control_thread writes the gains when it begins, and then those  *)
(* that differ from what it noted ...                                       *)
(* Wrong: only the gain of the satellites is compared.                      *)
SatellitesDiffer == HW_volume["L"] # HW_params_prev["L"]
GainsDiffer == HW_volume # HW_params_prev

ControlLooks ==
  /\ AmpGoes(Controller, "look", IF GainsDiffer THEN "call" ELSE "written")
  /\ UNCHANGED <<HW_volume, HW_params_prev, registers, ampWrites, powerVars, overtaken>>

(* ... and reads them once more when it has written them, for the next       *)
(* comparison.  What was read for the first writing was not kept.            *)
ControlNotes ==
  /\ AmpGoes(Controller, "written", "look")
  /\ HW_params_prev' = HW_volume
  /\ UNCHANGED <<HW_volume, registers, ampWrites, powerVars, overtaken>>

Control ==
  \/ SetHWVolume(Controller, "begin", "first") \/ WritesRegister(Controller, "first", "look")
  \/ ControlLooks
  \/ SetHWVolume(Controller, "call", "write") \/ WritesRegister(Controller, "write", "written")
  \/ ControlNotes

(* PL_set_amp(1): the chip wakes up, its channels are opened, and the gains   *)
(* are written before the flag says so.  Not everybody looks at the flag      *)
(* before.                                                                  *)
Others(u) == {t \in AmpUsers \ {u} : ampPc[t] # "idle"}

AmpUserBegins(u, at) ==
  /\ AmpGoes(u, "idle", at)
  /\ together' = (Others(u) # {})
  /\ UNCHANGED <<HW_volume, HW_params_prev, registers, ampWrites, G_amp_active, chip, overtaken>>

WritesPower(u, from, to, written) ==
  /\ AmpGoes(u, from, to) /\ chip' = written
  /\ UNCHANGED <<HW_volume, HW_params_prev, registers, ampWrites, G_amp_active, overtaken, together>>

AmpUserIsDone(u, from, active) ==
  /\ AmpGoes(u, from, "idle")
  /\ G_amp_active' = active
  /\ UNCHANGED <<HW_volume, HW_params_prev, registers, ampWrites, chip, overtaken, together>>

(* Wrong: the channels stay as they were.                                   *)
StillMuted == chip
Unmuted == [chip EXCEPT !.muted = FALSE]

AmpIsEnabled(u) ==
  \/ WritesPower(u, "wake", "unmute", [chip EXCEPT !.awake = TRUE])
  \/ WritesPower(u, "unmute", "call", Unmuted)
  \/ SetHWVolume(u, "call", "write") \/ WritesRegister(u, "write", "written")
  \/ AmpUserIsDone(u, "written", TRUE)

(* PL_set_amp(0): they are muted, and the chip sleeps.               *)
AmpIsShutDown(u) ==
  \/ WritesPower(u, "mute", "sleep", [chip EXCEPT !.muted = TRUE])
  \/ WritesPower(u, "sleep", "asleep", [chip EXCEPT !.awake = FALSE])
  \/ AmpUserIsDone(u, "asleep", FALSE)

AmpUserStep(u) == AmpIsEnabled(u) \/ AmpIsShutDown(u)

(* A key makes a value of the menu one more or one less, or turns it over.    *)
MenuSetsGain ==
  /\ \E n \in GainNames : \E v \in GainsOf[n] \ {HW_volume[n]} :
       LET count == Cardinality(GainsOf[n])
       IN (v - HW_volume[n]) % count \in {1, count - 1} /\ HW_volume' = [HW_volume EXCEPT ![n] = v]
  /\ overtaken' = (GainsDiffer \/ ampPc[Controller] = "written"
                     \/ \E t \in DOMAIN ampPc : ampPc[t] = "write")
  /\ UNCHANGED <<HW_params_prev, registers, ampPc, ampWrites, powerVars>>

AmpNext ==
  \/ Control \/ MenuSetsGain
  \/ \E u \in AmpUsers :
       AmpUserBegins(u, "wake") \/ AmpUserBegins(u, "mute") \/ AmpUserStep(u)

AmpSpec ==
  AmpInit /\ [][AmpNext]_ampVars /\ WF_ampVars(Control)
    /\ \A u \in AmpUsers : WF_ampVars(AmpUserStep(u))

-----------------------------------------------------------------------------
(* Once the gains are left alone the chip has them, unless the last change   *)
(* overtook a thread that was writing them or a change that was not noted:   *)
(* then the old value may be written last, or the new one taken for written, *)
(* and stays in the chip until the next change.                             *)
GainsReachAmplifier ==
  \A g \in Gains : <>[](HW_volume = g /\ ~overtaken) => <>[](registers = g)

(* When nobody switches it, the chip is awake and heard if and only if        *)
(* G_amp_active says so, unless two threads have last switched it at one      *)
(* time: then one of them may leave it muted, or asleep, with the flag set.   *)
PowerFollowsFlag ==
  ~together /\ (\A u \in AmpUsers : ampPc[u] = "idle") =>
    chip = [awake |-> G_amp_active, muted |-> ~G_amp_active]
=============================================================================
