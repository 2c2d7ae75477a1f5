--------------------------------- MODULE Thermo --------------------------------
(***************************************************************************)
(* A thermostat in thermoLoop, which looks at it every half a minute: it heats   *)
(* a room that is too cold, and what it does without measurements is the alarm.  *)
(***************************************************************************)
EXTENDS Integers

CONSTANTS
  MODULUS,      \* of timestamp16, in units of the check period
  FAILED,       \* PERIOD_THERMOSTAT_FAILED, in the same units
  Inverted      \* the pin of the heater is negative in the configuration

VARIABLES
  thermo,       \* active, or not; tempX100 against the setting; and timestamp16
  heating,      \* whether the pin is HIGH
  clock,        \* millis() >> 8, of the width of timestamp16
  measured      \* the age of the measurement

thermoVars == <<thermo, heating, clock, measured>>

OLDEST == FAILED + 1
Temps == {"cold", "near", "warm"}
TypeOK ==
  /\ thermo \in [active : BOOLEAN, temp : Temps, stamp : 0 .. MODULUS - 1]
  /\ heating \in BOOLEAN /\ clock \in 0 .. MODULUS - 1 /\ measured \in 0 .. OLDEST

\* millisNZ(8, 0xFFFF)
NZ(t) == IF t = 0 THEN 1 ELSE t

Init ==
  /\ thermo \in [active : BOOLEAN, temp : {"cold"}, stamp : {0}]
  /\ heating = Inverted /\ clock \in 0 .. MODULUS - 1 /\ measured = OLDEST

\* Item::Ctrl: /val, /set and commands, which only store.
Measure ==
  /\ \E t \in Temps : thermo' = [thermo EXCEPT !.temp = t, !.stamp = NZ(clock)]
  /\ measured' = 0 /\ UNCHANGED <<heating, clock>>
Set == \E t \in Temps : thermo' = [thermo EXCEPT !.temp = t] /\ UNCHANGED <<heating, clock, measured>>
Command == \E a \in BOOLEAN : thermo' = [thermo EXCEPT !.active = a] /\ UNCHANGED <<heating, clock, measured>>

\* Mutant of Expired: without the modulus of the time stamp.
ExpiredPlain(t) == NZ(t) - thermo.stamp >= FAILED

\* isTimeOver, modulo
Expired(t) == (NZ(t) - thermo.stamp) % MODULUS >= FAILED

\* thermoRelay: an error makes the pin LOW, inverted or not.
thermoRelay(on) ==
  heating' = CASE on = "HEAT" -> ~Inverted [] on = "OFF" -> Inverted [] on = "ERROR" -> FALSE

\* What thermoLoop does when the time is t.
Look(t) ==
  \/ /\ thermo.stamp = 0 /\ UNCHANGED <<thermo, heating>>
  \/ /\ thermo.stamp # 0 /\ Expired(t)
     /\ thermo' = [thermo EXCEPT !.stamp = 0] /\ thermoRelay("ERROR")
  \/ /\ thermo.stamp # 0 /\ ~Expired(t) /\ UNCHANGED thermo
     /\ CASE ~thermo.active \/ thermo.temp = "warm" -> thermoRelay("OFF")
          [] thermo.active /\ thermo.temp = "cold" -> thermoRelay("HEAT")
          [] OTHER -> UNCHANGED heating

\* It looks in every period, or in the next but one if the loop was late.
thermoLoop ==
  \E n \in {1, 2} :
    /\ clock' = (clock + n) % MODULUS /\ measured' = IF measured + n < OLDEST THEN measured + n ELSE OLDEST
    /\ Look(clock')

Next == Measure \/ Set \/ Command \/ thermoLoop
Spec == Init /\ [][Next]_thermoVars

-----------------------------------------------------------------------------
(***************************************************************************)
(* Properties                                                              *)
(***************************************************************************)

\* Across every wrap of the time stamp: a heater is on only while there are measurements (an
\* inverted one stays on in an alarm, "BYPASS"), and the alarm is not raised while there are.
\* 1 is the error of a stamp of 0, which is made 1.
Watched ==
  /\ ~Inverted /\ heating => thermo.stamp # 0 /\ measured <= FAILED
  /\ thermo.stamp = 0 => measured + 1 >= FAILED
=============================================================================
