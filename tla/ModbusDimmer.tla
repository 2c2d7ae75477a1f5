----------------------------- MODULE ModbusDimmer -----------------------------
(***************************************************************************)
(* Channels of type CH_MODBUS, which Item itself writes and reads: dimmers that  *)
(* may share one register, the first by its low byte, the second by its high    *)
(* one.  What was not written is repeated; what is read back changes the channel *)
(* if somebody turned the dimmer by hand.  The line is shared with the gateway.  *)
(*                                                                         *)
(* Levels are those of the code, with its scales of 100, 255 and maxVal.        *)
(***************************************************************************)
EXTENDS Integers

CONSTANTS
  DIMMERS,      \* dimmers are 1 .. DIMMERS, polled together
  MAXVAL,       \* the fourth argument, or 0x3f
  Levels,       \* values that are commanded, of 0 .. 255
  Hands         \* levels to which the dimmers are turned by hand

Dimmers == 1 .. DIMMERS
MIN_VOLUME  == 20
INIT_VOLUME == 30

VARIABLES
  dimmer,       \* the channels: command, value, FLAG_SEND_RETRY
  lamp,         \* the registers
  taken,        \* modbusBusy, by the gateway
  wanted           \* history: what the last command makes of the lamp, -1 once turned by hand

vars == <<dimmer, lamp, taken, wanted>>

Cmds == {"ON", "XON", "OFF", "HALT"}
TypeOK ==
  /\ dimmer \in [Dimmers -> [cmd : Cmds, val : 0 .. 255, retry : BOOLEAN]]
  /\ lamp \in [Dimmers -> 0 .. MAXVAL]
  /\ taken \in BOOLEAN
  /\ wanted \in [Dimmers -> -1 .. MAXVAL]

\* map() of the Arduino library, from 0 .. a to 0 .. b.
map(x, a, b) == (x * b) \div a

\* modbusDimmerSet: what is written for a command and a value.
ToRegister(cmd, v) == IF cmd \in {"OFF", "HALT"} THEN 0 ELSE map(map(v, 255, 100), 100, MAXVAL)

Init ==
  /\ dimmer \in [Dimmers -> [cmd : {"OFF"}, val : Levels, retry : {FALSE}]]
  /\ lamp = [d \in Dimmers |-> 0] /\ taken = FALSE /\ wanted = [d \in Dimmers |-> 0]

\* modbusDimmerSet: mb_fail if the line is taken or the device does not answer.
Set(d, to, reg) ==
  /\ wanted' = [wanted EXCEPT ![d] = reg]
  /\ \/ /\ ~taken
        /\ dimmer' = [dimmer EXCEPT ![d] = to] /\ lamp' = [lamp EXCEPT ![d] = reg]
     \/ dimmer' = [dimmer EXCEPT ![d] = [to EXCEPT !.retry = TRUE]] /\ UNCHANGED lamp
  /\ UNCHANGED taken

isActive(d) == dimmer[d].cmd \in {"ON", "XON"}

\* What ON makes of a level: one that is too low is not written, but stays stored.
Started(v) == ToRegister("ON", IF map(v, 255, 100) < MIN_VOLUME THEN map(INIT_VOLUME, 100, 255) ELSE v)

\* Item::Ctrl: ON and XON are for a channel that is not active.
TurnOn(d, cmd) ==
  /\ ~isActive(d)
  /\ Set(d, [dimmer[d] EXCEPT !.cmd = cmd], Started(dimmer[d].val))

\* ON for one that is active is only stored, also for one that has XON.
TurnedOn(d) ==
  /\ isActive(d)
  /\ dimmer' = [dimmer EXCEPT ![d].cmd = "ON"]
  /\ UNCHANGED <<lamp, taken, wanted>>

TurnOffAt(d, v) == Set(d, [dimmer[d] EXCEPT !.cmd = "OFF", !.val = v], 0)

\* OFF, unless it is halted; HALT if it is active; XOFF after XON.
TurnOff(d, cmd) ==
  /\ CASE cmd = "OFF" -> dimmer[d].cmd # "HALT"
       [] cmd = "HALT" -> isActive(d)
       [] cmd = "XOFF" -> dimmer[d].cmd = "XON"
  /\ Set(d, [dimmer[d] EXCEPT !.cmd = IF cmd = "XOFF" THEN "OFF" ELSE cmd], 0)

Restore(d) == dimmer[d].cmd = "HALT" /\ Set(d, [dimmer[d] EXCEPT !.cmd = "ON"], Started(dimmer[d].val))

\* /set: a value is stored, and executed if the channel is active.
SetValue(d, v) ==
  IF isActive(d) THEN Set(d, [dimmer[d] EXCEPT !.val = v], ToRegister("ON", v))
  ELSE dimmer' = [dimmer EXCEPT ![d].val = v] /\ UNCHANGED <<lamp, taken, wanted>>

\* A value without suffix also turns the channel on and off.
SetLevel(d, v) ==
  CASE isActive(d) /\ v = 0 -> TurnOffAt(d, 0)
    [] isActive(d) /\ v # 0 -> SetValue(d, v)
    [] ~isActive(d) /\ v = 0 -> Set(d, [dimmer[d] EXCEPT !.val = 0], 0)
    [] OTHER -> Set(d, [dimmer[d] EXCEPT !.cmd = "ON", !.val = v], Started(v))

Ctrl(d) ==
  \/ \E c \in {"ON", "XON"} : TurnOn(d, c)
  \/ TurnedOn(d)
  \/ \E c \in {"OFF", "HALT", "XOFF"} : TurnOff(d, c)
  \/ Restore(d)
  \/ \E v \in Levels : SetValue(d, v) \/ SetLevel(d, v)

\* checkRetry, in every polling: the stored command and value are written.
Retry(d) ==
  /\ dimmer[d].retry /\ ~taken
  /\ LET reg == ToRegister(dimmer[d].cmd, dimmer[d].val)
     IN /\ lamp' = [lamp EXCEPT ![d] = reg] /\ wanted' = [wanted EXCEPT ![d] = reg]
        /\ dimmer' = [dimmer EXCEPT ![d].retry = FALSE]
  /\ UNCHANGED taken

Differs(d, v) == d.val # v \/ (v # 0 /\ d.cmd \in {"OFF", "HALT"})

\* Mutant of Read: what is to be repeated is not looked after.
ReadAnyway(d, data) ==
  LET v == map(data, MAXVAL, 255) IN
  IF ~Differs(d, v) THEN d
  ELSE IF v = 0 THEN [d EXCEPT !.cmd = IF @ = "HALT" THEN @ ELSE "OFF"]
  ELSE [d EXCEPT !.cmd = IF @ = "XON" THEN @ ELSE "ON", !.val = v]

\* Mutant of Read: a halted channel that is dark is taken for one that was turned off.
ReadHalt(d, data) ==
  LET v == map(data, MAXVAL, 255) IN
  IF d.retry \/ ~Differs(d, v) THEN d
  ELSE IF v = 0 THEN [d EXCEPT !.cmd = "OFF"]
  ELSE [d EXCEPT !.cmd = IF @ = "XON" THEN @ ELSE "ON", !.val = v]

\* checkModbusDimmer(data), for the channel d.
Read(d, data) ==
  LET v == map(data, MAXVAL, 255) IN
  IF d.retry \/ ~Differs(d, v) THEN d
  ELSE IF v = 0 THEN [d EXCEPT !.cmd = IF @ = "HALT" THEN @ ELSE "OFF"]
  ELSE [d EXCEPT !.cmd = IF @ = "XON" THEN @ ELSE "ON", !.val = v]

\* checkModbusDimmer, in the slow polling, whether or not the repetition before it succeeded:
\* one answer is for all dimmers of the register.
Poll ==
  /\ ~taken
  /\ dimmer' = [d \in Dimmers |-> Read(dimmer[d], lamp[d])]
  /\ UNCHANGED <<lamp, taken, wanted>>

\* The gateway, and hands.
Take == ~taken /\ taken' = TRUE /\ UNCHANGED <<dimmer, lamp, wanted>>
Release == taken /\ taken' = FALSE /\ UNCHANGED <<dimmer, lamp, wanted>>
Turn(d) ==
  /\ lamp' \in {[lamp EXCEPT ![d] = l] : l \in Hands}
  /\ wanted' = [wanted EXCEPT ![d] = -1]
  /\ UNCHANGED <<dimmer, taken>>

Outside == Take \/ \E d \in Dimmers : Ctrl(d) \/ Turn(d)
Next == Outside \/ Release \/ Poll \/ \E d \in Dimmers : Retry(d)

Spec == Init /\ [][Next]_vars
FairSpec == Spec /\ WF_vars(Poll) /\ WF_vars(Release) /\ \A d \in Dimmers : WF_vars(Retry(d))

-----------------------------------------------------------------------------
(***************************************************************************)
(* Properties                                                              *)
(***************************************************************************)

\* item.cpp:2215: a failed transaction is repeated.  A command that the lamp does not show is
\* to be repeated, unless the lamp was turned by hand since: no later command, and nothing
\* that is read in between, takes its place.
WriteRepeated == \A d \in Dimmers : wanted[d] # -1 /\ lamp[d] # wanted[d] => dimmer[d].retry

\* Only a lamp that is turned by hand, or commanded, goes on or off in what the channel
\* stores: reading back what was written changes no command.  But a level that the register
\* has no step for reads as OFF.
OwnReading(d) == wanted[d] # -1 /\ (wanted[d] > 0 \/ ~isActive(d)) /\ dimmer'[d].cmd # dimmer[d].cmd
EchoStep == Poll => \A d \in Dimmers : ~OwnReading(d)

\* In the end the channel shows what the lamp does.
Quiet == ~Outside
Shown ==
  \A d \in Dimmers :
    /\ isActive(d) <=> lamp[d] > 0
    /\ lamp[d] > 0 => dimmer[d].val = map(lamp[d], MAXVAL, 255)
DimmersSettle == <>[][Quiet]_vars => <>[]Shown
=============================================================================
