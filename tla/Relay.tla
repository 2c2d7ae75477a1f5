--------------------------------- MODULE Relay ---------------------------------
(***************************************************************************)
(* out_relay: slow PWM for things with inertia.  In each period the relay is on  *)
(* for the share that the value of the channel is of 255.                       *)
(***************************************************************************)
EXTENDS Integers

CONSTANTS
  Shares,       \* values of the channel, as period * val / 255
  PERIOD

VARIABLES
  relayx,       \* the channel: command, and value
  since,        \* the age of its ext, the start of a period; None if ext is 0
  contact       \* whether the pin is ACTIVE

slowVars == <<relayx, since, contact>>

None == -1
Modes == {"ON", "AUTO", "FAN"}
TypeOK ==
  /\ relayx \in [cmd : Modes \cup {"XON", "OFF", "HALT"}, val : Shares]
  /\ since \in -1 .. PERIOD /\ contact \in BOOLEAN

\* abstractOut::isActive, of a channel: ON is active with any value.
isActive(x) == x.cmd = "ON" \/ (x.cmd \notin {"OFF", "HALT"} /\ x.val > 0)

\* Setup at a start, or with another configuration, after Stop.
Starts(x) == IF isActive(x) THEN 0 ELSE None
Init ==
  /\ relayx \in [cmd : Modes \cup {"XON", "OFF", "HALT"}, val : Shares]
  /\ since = Starts(relayx) /\ contact = FALSE
Setup == since' = Starts(relayx) /\ contact' = FALSE /\ UNCHANGED relayx

\* What the driver does to turn on, which leaves the relay to Poll, and off.
Start == since' = (IF since = None THEN 0 ELSE since) /\ UNCHANGED contact
TurnOff == since' = None /\ contact' = FALSE
Stay == UNCHANGED <<since, contact>>

\* Commands that reach it: ON and XON when it is not active, modes, RESTORE after HALT,
\* XOFF after XON, OFF unless it is halted, HALT when it is active.
On ==
  \E c \in Modes \cup {"XON"} :
    /\ IF c \in {"ON", "XON"} THEN ~isActive(relayx) ELSE TRUE
    /\ relayx' = [relayx EXCEPT !.cmd = c] /\ Start
TurnedOn == isActive(relayx) /\ relayx' = [relayx EXCEPT !.cmd = "ON"] /\ Stay
Off ==
  \E c \in {"OFF", "HALT"} :
    /\ IF c = "HALT" THEN isActive(relayx) ELSE relayx.cmd # "HALT"
    /\ relayx' = [relayx EXCEPT !.cmd = c] /\ TurnOff

\* Mutant of Awaits: AUTO waits for nothing.
AwaitsOn(cmd) == cmd = "ON"

\* The commands that a value turns the relay on after: FAN and XON are not among them.
Awaits(cmd) == cmd \in {"ON", "AUTO"}

\* /set: executed for an active channel.
Set(v) ==
  /\ relayx' = [relayx EXCEPT !.val = v]
  /\ CASE isActive(relayx) -> IF v > 0 THEN Start ELSE TurnOff
       [] OTHER -> IF v > 0 /\ Awaits(relayx.cmd) THEN Start ELSE Stay

\* UP and DN without suffix are executed for any channel: a relay that is off gets a period.
Bump(v) == relayx' = [relayx EXCEPT !.val = v] /\ IF v > 0 THEN Start ELSE TurnOff

\* A value without suffix turns the channel on and off.
Value(v) ==
  CASE isActive(relayx) /\ v = 0 -> relayx' = [cmd |-> "OFF", val |-> v] /\ TurnOff
    [] ~isActive(relayx) /\ v > 0 -> relayx' = [cmd |-> "ON", val |-> v] /\ Start
    [] isActive(relayx) /\ v > 0 -> Bump(v)
    [] OTHER -> relayx' = [relayx EXCEPT !.val = v] /\ TurnOff

Ctrl == On \/ TurnedOn \/ Off \/ \E v \in Shares : Set(v) \/ Value(v) \/ Bump(v)

\* Poll
Over == since = PERIOD
NeedToOff == since >= relayx.val
Again == since # None /\ Over /\ since' = 0 /\ contact' = (contact \/ relayx.val > 0)
Opens ==
  /\ since # None /\ ~Over /\ contact /\ NeedToOff
  /\ contact' = FALSE /\ since' = IF isActive(relayx) THEN since ELSE None
Closes ==
  /\ since # None /\ ~Over /\ relayx.val > 0 /\ ~contact /\ ~NeedToOff
  /\ contact' = TRUE /\ UNCHANGED since
Poll == (Again \/ Opens \/ Closes) /\ UNCHANGED relayx

\* The loop may be late.
Tick == since \in 0 .. PERIOD - 1 /\ since' = since + 1 /\ UNCHANGED <<relayx, contact>>

Next == Setup \/ Ctrl \/ Poll \/ Tick

Spec == Init /\ [][Next]_slowVars

-----------------------------------------------------------------------------
(***************************************************************************)
(* Properties                                                              *)
(***************************************************************************)

\* Poll attends to a relay that is closed.
Timed == contact => since # None

\* A channel that is active and has a value has its periods, whatever made it so: commands,
\* values in any order, a restart.  The code misses one case: a value of 0 stops them, and
\* after FAN and XON the next value does not start them again.
Runs(x) == isActive(x) /\ x.val > 0
Missed == relayx.cmd \in {"FAN", "XON"} /\ relayx.val = 0
RunStep ==
  Runs(relayx') /\ (Runs(relayx) => since # None) /\ ~Missed => since' # None
=============================================================================
