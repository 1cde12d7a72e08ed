---------------------------- MODULE TimeToSpeech ----------------------------
(***************************************************************************)
(* What the radio says the time is (tts/time-to-speech.c), while time goes  *)
(* on.  localtime() has one buffer for all threads: the clock thread         *)
(* (clock/plclock.c) may fill it again between the two reads of the speech.  *)
(***************************************************************************)
EXTENDS Integers, FiniteSets

CONSTANTS
  Hours,      \* the hours of the day that are looked at
  MaxMinutes  \* bound: how many minutes begin while one time is told

ASSUME SpeechOfTimeAssumption == Hours \subseteq 0 .. 23 /\ MaxMinutes \in Nat

VARIABLES
  clock,       \* the time, in minutes since midnight
  tm,          \* the buffer of localtime()
  tellPc,      \* "idle", "hour" and "minutes" when these are read next, "said"
  hour,        \* tm_hour, as it was read
  phrase,      \* what is said
  (* History, not in the program: *)
  shown        \* the times the clock has shown since it was asked

tellVars == <<clock, tm, tellPc, hour, phrase, shown>>

Nothing  == [say |-> "nothing", minutes |-> 0, of |-> 0]

(* Wrong: the afternoon begins at noon, which is then called midnight.       *)
FromNoon(h24)  == h24 >= 12
Afternoon(h24) == h24 > 12

(* Past or to a full hour; "quarter" and "half" are 15 and 30 minutes, and   *)
(* hour 0 is "midnight".  In the first hour from 31 on, the number of        *)
(* minutes is not passed (line 77).                                         *)
Phrases(h24, minutes) ==
  LET pm == Afternoon(h24)
      h  == IF pm THEN h24 - 12 ELSE h24
      Past(m)   == {[say |-> "past", minutes |-> m, of |-> h]}
      To(m, of) == {[say |-> "to", minutes |-> m, of |-> of]}
  IN CASE minutes \in {15, 30} -> Past(minutes)
       [] minutes = 45 -> To(15, IF h = 11 /\ pm THEN 0 ELSE h + 1)
       [] minutes \notin {15, 30, 45} /\ h = 0 ->
            IF minutes < 30 THEN Past(minutes)
            ELSE {[say |-> "to", minutes |-> m, of |-> 1] : m \in 0 .. 59}
       [] minutes \notin {15, 30, 45} /\ h # 0 ->
            IF minutes < 30 THEN Past(minutes)
            ELSE To(60 - minutes, IF h = 11 /\ pm THEN h ELSE h + 1)

(* The times somebody can take it for: midnight is one, an hour is two.      *)
Understood(p) ==
  LET t == IF p.say = "past" THEN 60 * p.of + p.minutes ELSE 60 * p.of - p.minutes
  IN IF p.of = 0 THEN {t % 1440} ELSE {t % 1440, (t + 720) % 1440}

TellInit ==
  /\ clock \in {60 * h + m : h \in Hours, m \in 0 .. 59} /\ tm = clock
  /\ tellPc = "idle" /\ hour = 0 /\ phrase = Nothing /\ shown = {}

(* A minute begins meanwhile; before, every time is one to begin at.         *)
MinutePasses ==
  /\ tellPc \in {"hour", "minutes"} /\ Cardinality(shown) <= MaxMinutes
  /\ clock' = (clock + 1) % 1440
  /\ shown' = shown \cup {clock'}
  /\ UNCHANGED <<tm, tellPc, hour, phrase>>

ClockThreadLooks ==
  /\ tellPc \in {"hour", "minutes"} /\ tm # clock /\ tm' = clock
  /\ UNCHANGED <<clock, tellPc, hour, phrase, shown>>

TellCallsLocaltime ==
  /\ tellPc = "idle" /\ tellPc' = "hour"
  /\ tm' = clock /\ shown' = {clock}
  /\ UNCHANGED <<clock, hour, phrase>>

TellReadsHour ==
  /\ tellPc = "hour" /\ tellPc' = "minutes"
  /\ hour' = tm \div 60
  /\ UNCHANGED <<clock, tm, phrase, shown>>

TellReadsMinutes ==
  /\ tellPc = "minutes" /\ tellPc' = "said"
  /\ phrase' \in Phrases(hour, tm % 60)
  /\ UNCHANGED <<clock, tm, hour, shown>>

TellReturns ==
  /\ tellPc = "said" /\ tellPc' = "idle"
  /\ hour' = 0 /\ phrase' = Nothing /\ shown' = {}
  /\ UNCHANGED <<clock, tm>>

Tell == TellCallsLocaltime \/ TellReadsHour \/ TellReadsMinutes \/ TellReturns
TellNext == MinutePasses \/ ClockThreadLooks \/ Tell
TellSpec == TellInit /\ [][TellNext]_tellVars

(* What is said is a time that the clock has shown meanwhile, unless an hour *)
(* has begun meanwhile; but not to a full hour after half past eleven at     *)
(* night or past midnight, but for the quarters (lines 77, 101 and 112).     *)
Misspoken == {t \in 0 .. 59 \cup 1380 .. 1439 : t % 60 > 30 /\ t % 60 # 45}
SpokenTimeIsTrue ==
  tellPc = "said" =>
    \/ shown \cap Understood(phrase) # {}
    \/ \E t \in shown : t \in Misspoken \/ (t % 60 = 0 /\ (t + 1439) % 1440 \in shown)
=============================================================================
