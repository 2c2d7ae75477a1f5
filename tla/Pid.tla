---------------------------------- MODULE Pid ----------------------------------
(***************************************************************************)
(* out_pid: a controller that gets measurements, and commands the item it has   *)
(* for an output.  Without measurements it raises an alarm and gives the output *)
(* a value for that.  What the PID library computes is any of Outs.            *)
(***************************************************************************)
EXTENDS Integers

CONSTANTS
  Outs,         \* outputs of the PID, of 0 .. 255
  AlarmVal,     \* the output in alarm: 0 .. 255, or -1 for none
  TIMEOUT       \* alarmTimeout, in units of its clock; 0 for none

Unsent == -2    \* prevOut: to be sent in any case

VARIABLES
  pid,          \* the channel: command, FLAG_DISABLED, FLAG_ACTION_NEEDED, and its store
  outlet        \* the item of the output: command and value

pidVars == <<pid, outlet>>

Cmds == {"ON", "XON", "OFF", "HALT"}
TypeOK ==
  /\ pid \in [cmd : Cmds, disabled : BOOLEAN, need : BOOLEAN,
              armed : BOOLEAN, age : 0 .. TIMEOUT, prev : Outs \cup {Unsent}]
  /\ outlet \in [cmd : {"ON", "OFF"}, val : Outs \cup {0, AlarmVal}]

\* What Item::Ctrl makes of the output: a command, and a value without suffix.
Commanded(t, c) == [t EXCEPT !.cmd = c]
Given(t, v) == [cmd |-> IF v = 0 THEN "OFF" ELSE "ON", val |-> v]

\* Mutant of alarm: only a value that is not 0 is sent.
alarmNonzero(t) == IF AlarmVal > 0 THEN Given(t, AlarmVal) ELSE t

\* alarm(true)
alarm(t) == IF AlarmVal >= 0 THEN Given(t, AlarmVal) ELSE t

\* Setup, at a start or with another configuration: in alarm until there is a measurement.
SetUp(p) == [p EXCEPT !.armed = TRUE, !.age = 0, !.prev = Unsent]
Init ==
  /\ \E c \in Cmds, d \in BOOLEAN :
       pid = SetUp([cmd |-> c, disabled |-> d, need |-> FALSE, armed |-> FALSE, age |-> 0, prev |-> Unsent])
  /\ outlet = alarm([cmd |-> "OFF", val |-> 0])
Setup == pid' = SetUp(pid) /\ outlet' = alarm(outlet)

\* /val
Measure ==
  /\ pid' = [pid EXCEPT !.age = 0, !.armed = FALSE, !.prev = IF pid.armed THEN Unsent ELSE @]
  /\ UNCHANGED outlet

isActive == pid.cmd # "OFF"

\* /cmd, as Item::Ctrl hands it to the driver: ON if it is not active,
\* AUTO and the like always, RESTORE after HALT; XON if it is neither active nor disabled.
TurnOn(c) ==
  /\ CASE c = "ON" -> TRUE [] c = "XON" -> ~isActive /\ ~pid.disabled
  /\ pid' = [pid EXCEPT !.cmd = c] /\ outlet' = Commanded(outlet, "ON")
TurnedOn == isActive /\ pid' = [pid EXCEPT !.cmd = "ON"] /\ UNCHANGED outlet

\* OFF unless it is halted, HALT, which is active, and XOFF after XON.
TurnOff(c) ==
  /\ CASE c = "OFF" -> pid.cmd # "HALT" [] c = "HALT" -> isActive
  /\ pid' = [pid EXCEPT !.cmd = c] /\ outlet' = Commanded(outlet, "OFF")

Enable ==
  /\ pid' = [pid EXCEPT !.disabled = FALSE, !.cmd = "ON", !.need = TRUE, !.prev = Unsent]
  /\ outlet' = Commanded(outlet, "ON")
Disable ==
  /\ pid' = [pid EXCEPT !.disabled = TRUE]
  /\ outlet' = IF isActive THEN outlet ELSE Commanded(outlet, "OFF")

Ctrl == (\E c \in {"ON", "XON"} : TurnOn(c)) \/ TurnedOn \/ (\E c \in {"OFF", "HALT"} : TurnOff(c)) \/ Enable \/ Disable

Works == isActive /\ ~pid.disabled

\* Computed: the output that goes to the item, after ON if it was off or enabled.
Sends(o) == ~pid.armed /\ (pid.need \/ (o > pid.prev + 1 \/ o < pid.prev - 1))
Compute(o) ==
  IF Sends(o) THEN [p |-> [pid EXCEPT !.need = FALSE, !.prev = o], t |-> Given(outlet, o)]
  ELSE [p |-> pid, t |-> outlet]

\* Mutant of Expired: the alarm is for a controller that was not enabled just now.
ExpiredIdle(p) == ~p.armed /\ TIMEOUT > 0 /\ p.age = TIMEOUT /\ p.cmd # "ON"

Expired(p) == ~p.armed /\ TIMEOUT > 0 /\ p.age = TIMEOUT

\* Poll, with what Compute() gives, or before its sample time.
Poll(done) ==
  /\ Works
  /\ pid' = IF Expired(done.p) THEN [done.p EXCEPT !.armed = TRUE] ELSE done.p
  /\ outlet' = IF Expired(done.p) THEN alarm(done.t) ELSE done.t
PollIdle == Poll([p |-> pid, t |-> outlet])
PollDone == \E o \in Outs : Poll(Compute(o))

Age == pid.age < TIMEOUT /\ pid' = [pid EXCEPT !.age = @ + 1] /\ UNCHANGED outlet

Outside == Setup \/ Measure \/ Ctrl
Next == Outside \/ PollIdle \/ PollDone \/ Age

Spec == Init /\ [][Next]_pidVars
FairSpec == Spec /\ WF_pidVars(PollIdle) /\ WF_pidVars(Age)

-----------------------------------------------------------------------------
(***************************************************************************)
(* Properties                                                              *)
(***************************************************************************)

\* out_pid.h: without measurements the output is forced to alarmVal, and stays there whatever
\* is commanded meanwhile, until there is a measurement.  A controller that is off has its
\* output off; a positive alarmVal turns it on at every start, so that this is for the others.
AlarmIsOut == pid.armed /\ AlarmVal >= 0 => outlet.val = AlarmVal
OffIsOff == pid.cmd = "OFF" /\ AlarmVal <= 0 => outlet.cmd = "OFF"
OutAttended == AlarmIsOut /\ OffIsOff

\* A controller that gets no measurements any more raises the alarm in the end.
Quiet == ~Outside
Alarmed == Works /\ TIMEOUT > 0 => pid.armed
PidSettles == <>[][Quiet]_pidVars => <>[]Alarmed
=============================================================================
