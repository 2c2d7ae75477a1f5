-------------------------------- MODULE Vacom --------------------------------
(***************************************************************************)
(* A fan with a Vacom drive (CH_VC) and its heater (CH_VCTEMP), by Item itself:   *)
(* a command writes registers of the drive, what failed is repeated, and        *)
(* checkFM stops a drive that reports a fault or is too hot.  The line is shared *)
(* with the Modbus gateway.                                                *)
(***************************************************************************)
EXTENDS Integers

CONSTANTS
  Speeds,       \* values that are commanded
  Half,         \* a start or stop may fail while the speed is written
  NoAnswers     \* checkFM may get no answer

VARIABLES
  fan, heater,  \* the channels: command, value, FLAG_SEND_RETRY
  vfd,          \* its registers and what it reports
  gate,         \* the air gate of the fan is open
  lineTaken,    \* modbusBusy, by the gateway
  alarm         \* history: the drive has reported a fault or its heat since the last command

vacomVars == <<fan, heater, vfd, gate, lineTaken, alarm>>

Channel == [cmd : {"ON", "XON", "OFF", "HALT"}, val : Speeds \cup {0}, retry : BOOLEAN]
TypeOK ==
  /\ fan \in Channel /\ heater \in Channel
  /\ vfd \in [run : BOOLEAN, speed : Speeds \cup {0}, heat : Speeds \cup {0}, fault : BOOLEAN, hot : BOOLEAN]
  /\ gate \in BOOLEAN /\ lineTaken \in BOOLEAN /\ alarm \in BOOLEAN

Init ==
  /\ fan \in [cmd : {"OFF"}, val : Speeds, retry : {FALSE}] /\ heater = fan
  /\ vfd = [run |-> FALSE, speed |-> 0, heat |-> 0, fault |-> FALSE, hot |-> FALSE]
  /\ gate = FALSE /\ lineTaken = FALSE /\ alarm = FALSE

Active(c) == c.cmd \in {"ON", "XON"}
Wanted(c) == IF Active(c) THEN c.val ELSE 0

\* Mutant of Driven: the result of the first write counts, not that of the second.
DrivenFirst(c, first, second) ==
  [ch |-> IF first THEN c ELSE [c EXCEPT !.retry = TRUE],
   dr |-> [vfd EXCEPT !.run = IF first THEN Wanted(c) > 0 ELSE @,
                        !.speed = IF second THEN Wanted(c) ELSE @]]

\* VacomSetFan: the drive is started or stopped, then its speed is written, whose result counts.
Driven(c, first, second) ==
  [ch |-> IF second THEN c ELSE [c EXCEPT !.retry = TRUE],
   dr |-> [vfd EXCEPT !.run = IF first THEN Wanted(c) > 0 ELSE @,
                        !.speed = IF second THEN Wanted(c) ELSE @]]

Answers == {a \in BOOLEAN \X BOOLEAN : a[1] = a[2] \/ Half}
VacomSetFan(c) ==
  /\ \/ ~lineTaken /\ \E a \in Answers :
          fan' = Driven(c, a[1], a[2]).ch /\ vfd' = Driven(c, a[1], a[2]).dr
     \/ lineTaken /\ fan' = [c EXCEPT !.retry = TRUE] /\ UNCHANGED vfd
  /\ UNCHANGED <<heater, gate, lineTaken>>

\* VacomSetHeat
VacomSetHeat(c) ==
  /\ \/ ~lineTaken /\ heater' = c /\ vfd' = [vfd EXCEPT !.heat = Wanted(c)]
     \/ heater' = [c EXCEPT !.retry = TRUE] /\ UNCHANGED vfd
  /\ UNCHANGED <<fan, gate, lineTaken>>

\* Item::Ctrl, for a channel c: what it is after a command, and whether that is executed.
Commands(c) ==
  (IF Active(c) THEN {[c EXCEPT !.cmd = "HALT"]} ELSE {[c EXCEPT !.cmd = x] : x \in {"ON", "XON"}})
    \cup (IF c.cmd # "HALT" THEN {[c EXCEPT !.cmd = "OFF"]} ELSE {})
    \cup (IF Active(c) THEN {[c EXCEPT !.val = v] : v \in Speeds} ELSE {})
Stored(c) ==
  (IF Active(c) THEN {[c EXCEPT !.cmd = "ON"]} ELSE {[c EXCEPT !.val = v] : v \in Speeds}) \ {c}

Ctrl ==
  \/ /\ \E c \in Commands(fan) : VacomSetFan(c)
     /\ alarm' = (alarm /\ ~Active(fan'))
  \/ /\ \E c \in Commands(heater) : VacomSetHeat(c)
     /\ UNCHANGED alarm
  \/ /\ fan' \in Stored(fan) /\ UNCHANGED <<heater, vfd, gate, lineTaken, alarm>>
  \/ /\ heater' \in Stored(heater) /\ UNCHANGED <<fan, vfd, gate, lineTaken, alarm>>

\* checkRetry
RetryFan ==
  /\ fan.retry /\ ~lineTaken
  /\ VacomSetFan([fan EXCEPT !.retry = FALSE]) /\ UNCHANGED alarm
RetryHeater ==
  /\ heater.retry /\ ~lineTaken
  /\ VacomSetHeat([heater EXCEPT !.retry = FALSE]) /\ UNCHANGED alarm

\* One that succeeds.
RetriedFan == RetryFan /\ ~fan'.retry
RetriedHeater == RetryHeater /\ ~heater'.retry

\* Off(), for a channel that is halted ignored.
TurnedOff(c) == IF c.cmd = "HALT" THEN c ELSE [c EXCEPT !.cmd = "OFF"]

\* Mutant of Overheat: Off() is for a line that is free.
OverheatUnsaid(c) == c

\* Too hot while it heats: Off() finds the line taken by checkFM itself, and is repeated later.
Overheat(c) == IF c.cmd = "HALT" THEN c ELSE [TurnedOff(c) EXCEPT !.retry = TRUE]

\* checkFM, in the slow polling.  The bit of the fault is that of the last answer there was,
\* which may be another one; for a fault the line is released, and Off() executed.
Turns == vfd.run /\ vfd.speed > 0 /\ ~vfd.fault
CheckFM(read, bit, pi, a) ==
  LET off  == bit /\ Active(fan)
      then == IF off THEN Driven(TurnedOff(fan), a[1], a[2]) ELSE [ch |-> fan, dr |-> vfd]
      hot  == pi /\ vfd.hot /\ vfd.heat > 0
  IN /\ ~lineTaken
     /\ fan' = IF hot THEN Overheat(then.ch) ELSE then.ch
     /\ vfd' = then.dr
     /\ gate' = (gate \/ (read /\ Turns))
     /\ alarm' = (alarm \/ off \/ hot)
     /\ UNCHANGED <<heater, lineTaken>>
Poll == \E a \in Answers : CheckFM(TRUE, vfd.fault, TRUE, a)
PollBad ==
  /\ NoAnswers
  /\ \E a \in Answers, bit, pi \in BOOLEAN : CheckFM(FALSE, bit, pi, a)

\* The gateway; the drive; the gate, closed by others.
Take == ~lineTaken /\ lineTaken' = TRUE /\ UNCHANGED <<fan, heater, vfd, gate, alarm>>
Release == lineTaken /\ lineTaken' = FALSE /\ UNCHANGED <<fan, heater, vfd, gate, alarm>>
Feels ==
  /\ vfd' \in {[vfd EXCEPT !.fault = ~@], [vfd EXCEPT !.hot = ~@]}
  /\ UNCHANGED <<fan, heater, gate, lineTaken, alarm>>
Close == gate /\ gate' = FALSE /\ UNCHANGED <<fan, heater, vfd, lineTaken, alarm>>

Outside == Ctrl \/ PollBad \/ Take \/ Feels \/ Close
Next == Outside \/ Release \/ Poll \/ RetryFan \/ RetryHeater

Spec == Init /\ [][Next]_vacomVars
FairSpec ==
  /\ Spec /\ WF_vacomVars(Release) /\ WF_vacomVars(Poll)
  /\ WF_vacomVars(RetriedFan) /\ WF_vacomVars(RetriedHeater)

-----------------------------------------------------------------------------
(***************************************************************************)
(* Properties                                                              *)
(***************************************************************************)

\* item.cpp:2215: what failed is repeated, as far as the code looks at it.  A speed and a
\* temperature that the drive does not have are to be repeated, whoever had the line.  The run
\* register is not among them: its write comes first, its result is overwritten by that of the
\* speed (item.cpp:2394-2405), and a drive that missed a start or a stop is not told again.
SpeedsRepeated ==
  /\ vfd.speed # Wanted(fan) => fan.retry
  /\ vfd.heat # Wanted(heater) => heater.retry

\* checkFM shuts down ("Shut down"): after a fault or too much heat was read the channel is off
\* until it is commanded again, and the speed in the drive is 0 or is going to be written.  Whether
\* the drive took the stop that goes with it nobody looks at, here as little as in the code.
ShutDown == alarm => ~Active(fan) /\ (vfd.speed > 0 => fan.retry)

\* In the end the drive does what the channel says, with the gate open, or is shut down.
Quiet == ~Outside
Follows ==
  /\ vfd.run = (Wanted(fan) > 0) /\ vfd.speed = Wanted(fan) /\ vfd.heat = Wanted(heater)
  /\ Turns => gate
  /\ vfd.fault => ~Active(fan)
DriveSettles == <>[][Quiet]_vacomVars => <>[]Follows
=============================================================================
