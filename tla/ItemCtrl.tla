------------------------------ MODULE ItemCtrl ------------------------------
(***************************************************************************)
(* Item::Ctrl for on/off channels (relays handled by the core) and for one   *)
(* group of them: which commands are executed, which are ignored, what is     *)
(* stored, and the one timer per channel that carries delayed commands and    *)
(* the opposites of timed ones.  A group computes its activity from its       *)
(* members, forwards commands to them and keeps a command of its own.         *)
(*                                                                         *)
(* Values, colours, sub-items and protected pins are left out: a payload with *)
(* a number is a command for that time, in ticks, sent to the suffix cmd.  The *)
(* authorization that a timer keeps is left open.                            *)
(***************************************************************************)
EXTENDS Integers

CONSTANTS
  Items,        \* the channels, all of them members of the group
  Group,        \* the group
  Commands,     \* commands that are sent without a time, ...
  Timed,        \* ... with a time after which the opposite is due, ...
  Delayed,      \* ... with a delay, to the suffix del
  MaxTime       \* longest time, in ticks

AllCommands == {"ON", "OFF", "TOGGLE", "HALT", "RESTORE", "XON", "XOFF",
                "ENABLE", "DISABLE", "FREEZE", "UNFREEZE"}

ASSUME GroupAssumption == Group \notin Items
ASSUME CommandsAssumption == Commands \cup Timed \cup Delayed \subseteq AllCommands
ASSUME TimeAssumption == MaxTime \in Nat

VARIABLES
  channel,      \* of items and of the group: the stored command and flags, the
                \* timer (I_TIMESTAMP), and the pin of an item
  cause,        \* the command that last changed the pin of an item
  timed,        \* items that are on since a command with a time turned them on
  memo          \* the pins before the last command to the group, when that was HALT

vars == <<channel, cause, timed, memo>>

Channels == Items \cup {Group}
Stored   == {"VOID", "ON", "OFF", "HALT", "XON", "ENABLE", "DISABLE"}
Schedule == AllCommands \cup {"none"}
States   == [cmd : Stored, disabled : BOOLEAN, frozen : BOOLEAN,
             sched : Schedule, due : 0 .. MaxTime, out : BOOLEAN]

TypeOK ==
  /\ channel \in [Channels -> States]
  /\ cause \in [Items -> AllCommands \cup {"VOID"}]
  /\ timed \in [Items -> BOOLEAN]
  /\ memo \in [kind : {"none", "halt"}, out : [Items -> BOOLEAN]]

out == [i \in Items |-> channel[i].out]

\* The configuration gives a channel the command ON, or none.
Init ==
  /\ \E on \in [Items -> BOOLEAN] :
       /\ channel = [c \in Channels |->
            [cmd |-> IF c \in Items /\ on[c] THEN "ON" ELSE "VOID",
             disabled |-> FALSE, frozen |-> FALSE, sched |-> "none", due |-> 0,
             out |-> c \in Items /\ on[c]]]
       /\ cause = [i \in Items |-> IF on[i] THEN "ON" ELSE "VOID"]
       /\ memo = [kind |-> "none", out |-> on]
  /\ timed = [i \in Items |-> FALSE]

-----------------------------------------------------------------------------
(* Timers.                                                                 *)

Opposite(cmd) ==
  CASE cmd = "ON" -> "OFF"          [] cmd = "OFF" -> "ON"
    [] cmd = "XON" -> "XOFF"        [] cmd = "XOFF" -> "XON"
    [] cmd = "HALT" -> "RESTORE"    [] cmd = "RESTORE" -> "HALT"
    [] cmd = "ENABLE" -> "DISABLE"  [] cmd = "DISABLE" -> "ENABLE"
    [] cmd = "FREEZE" -> "UNFREEZE" [] cmd = "UNFREEZE" -> "FREEZE"
    [] OTHER -> "TOGGLE"

\* scheduleCommand: one timer per channel, disarmed by a time of 0.
Armed(c, cmd, ms) ==
  [c EXCEPT !.sched = IF ms > 0 THEN cmd ELSE "none", !.due = ms]

\* scheduleOppositeCommand's tests of "already there"; active is the set of
\* what isActiveNow may stand for: {TRUE}, {FALSE}, or none of them for -1.
InTarget(c, cmd, active) ==
  \/ cmd \in {"ON", "XON", "RESTORE"} /\ TRUE \in active
  \/ cmd \in {"OFF", "XOFF", "HALT"} /\ FALSE \in active
  \/ cmd = "ENABLE" /\ ~c.disabled
  \/ cmd = "DISABLE" /\ c.disabled
  \/ cmd = "FREEZE" /\ c.frozen
  \/ cmd = "UNFREEZE" /\ ~c.frozen

\* Mutant of Opposed: a channel that is already there is never armed, and one
\* that has a timer keeps it.
OpposedOnce(c, cmd, ms, active) ==
  IF ms = 0 \/ InTarget(c, cmd, active) \/ c.sched # "none" THEN c
  ELSE Armed(c, Opposite(cmd), ms)

\* scheduleOppositeCommand: nothing to undo when the command changes nothing,
\* unless a timer runs already.
Opposed(c, cmd, ms, active) ==
  IF ms = 0 \/ (InTarget(c, cmd, active) /\ c.sched = "none") THEN c
  ELSE Armed(c, Opposite(cmd), ms)

-----------------------------------------------------------------------------
(* The part of Ctrl for a single channel.                                   *)

\* isActive: by the last command.
Active(c) == c.cmd \in {"ON", "XON"}

\* Mutant of Refused: RESTORE passes, too.
RefusedNotRestore(c, cmd) == c.frozen /\ cmd \notin {"UNFREEZE", "RESTORE"}

Refused(c, cmd) == c.frozen /\ cmd # "UNFREEZE"

\* Mutant of Ignored: HALT is accepted by a channel that is off.
IgnoredNotHalt(c, cmd) ==
  \/ cmd = "ON" /\ Active(c)
  \/ cmd = "XON" /\ (c.disabled \/ Active(c))
  \/ cmd = "OFF" /\ c.cmd = "HALT"
  \/ cmd = "XOFF" /\ c.cmd # "XON"
  \/ cmd = "RESTORE" /\ c.cmd # "HALT"

\* The commands that depend on what was before.
Ignored(c, cmd) ==
  \/ cmd = "ON" /\ Active(c)
  \/ cmd = "XON" /\ (c.disabled \/ Active(c))
  \/ cmd = "OFF" /\ c.cmd = "HALT"
  \/ cmd = "HALT" /\ ~Active(c)
  \/ cmd = "XOFF" /\ c.cmd # "XON"
  \/ cmd = "RESTORE" /\ c.cmd # "HALT"

TurnsOn  == {"ON", "RESTORE", "XON"}
TurnsOff == {"OFF", "XOFF", "HALT"}

\* Mutant of Remembered: RESTORE and XOFF are stored as they are.
RememberedRaw(c, cmd) ==
  IF cmd \in {"ON", "OFF", "HALT", "XON", "RESTORE", "XOFF"} THEN cmd ELSE c.cmd

\* The command that is stored: RESTORE and XOFF become ON and OFF, HALT and XON
\* are remembered.
Remembered(c, cmd) ==
  IF cmd = "RESTORE" THEN "ON"
  ELSE IF cmd = "XOFF" THEN "OFF"
  ELSE IF cmd \in {"ON", "OFF", "HALT", "XON"} THEN cmd
  ELSE c.cmd

\* Mutant of Executed: HALT is remembered and the pin forgotten.
ExecutedHaltKeepsPin(c, cmd) ==
  [c EXCEPT !.cmd = Remembered(c, cmd),
            !.out = cmd \in TurnsOn \/ (@ /\ cmd \notin TurnsOff \ {"HALT"})]

\* What is stored, and written to the pin.
Executed(c, cmd) ==
  [c EXCEPT !.cmd      = Remembered(c, cmd),
            !.out      = cmd \in TurnsOn \/ (@ /\ cmd \notin TurnsOff),
            !.disabled = cmd = "DISABLE" \/ (@ /\ cmd # "ENABLE"),
            !.frozen   = cmd = "FREEZE" \/ (@ /\ cmd # "UNFREEZE")]

Toggled(cmd, active) ==
  IF cmd # "TOGGLE" THEN cmd ELSE IF active THEN "OFF" ELSE "ON"

\* ON to a channel that is on makes it an ordinary ON, and no more: the opposite
\* of a timed ON is not scheduled.
CtrlItem(c, cmd, ms) ==
  LET order == Toggled(cmd, Active(c))
  IN IF Refused(c, cmd) THEN c
     ELSE IF Ignored(c, order)
            THEN IF order = "ON" THEN [c EXCEPT !.cmd = "ON"] ELSE c
     ELSE Executed(Opposed(c, cmd, ms, {Active(c)}), order)

-----------------------------------------------------------------------------
(* The part of Ctrl for the group.                                         *)

GroupActive == \E i \in Items : Active(channel[i])

\* DISABLE and ENABLE are for the group itself; DISABLE is refused to those
\* who are not authorized.
CtrlFlag(g, cmd, authorized) ==
  IF cmd = "ENABLE" THEN [g EXCEPT !.disabled = FALSE, !.cmd = "ENABLE"]
  ELSE IF authorized THEN [g EXCEPT !.disabled = TRUE, !.cmd = "DISABLE"]
  ELSE g

\* XON stops at a disabled group; all the rest goes to the members.
Forwarded(g, cmd) == cmd # "XON" \/ ~g.disabled

\* Post-processing of a group command: what the group remembers.
GroupStored(g, cmd) ==
  LET set(c) == [g EXCEPT !.cmd = c]
  IN CASE cmd = "RESTORE" -> IF g.cmd = "HALT" THEN set("ON") ELSE g
       [] cmd = "XOFF"    -> IF g.cmd = "XON" THEN set("OFF") ELSE g
       [] cmd = "XON"     -> IF ~g.disabled /\ ~GroupActive THEN set("XON") ELSE g
       [] cmd = "HALT"    -> IF GroupActive THEN set("HALT") ELSE g
       [] cmd \in {"ON", "OFF"} -> set(cmd)
       [] OTHER           -> g

CtrlGroup(cmd, ms, authorized) ==
  LET g     == channel[Group]
      order == Toggled(cmd, GroupActive)
      armed == IF Forwarded(g, order) THEN Opposed(g, cmd, ms, {}) ELSE g
  IN IF Refused(g, cmd) THEN channel
     ELSE IF order \in {"ENABLE", "DISABLE"}
            THEN [channel EXCEPT ![Group] = CtrlFlag(g, order, authorized)]
     ELSE [c \in Channels |->
             IF c = Group THEN GroupStored(armed, order)
             ELSE IF Forwarded(g, order) THEN CtrlItem(channel[c], order, ms)
             ELSE channel[c]]

\* Item::Ctrl
Ctrl(c, cmd, ms, authorized) ==
  IF c = Group THEN CtrlGroup(cmd, ms, authorized)
  ELSE [channel EXCEPT ![c] = CtrlItem(@, cmd, ms)]

-----------------------------------------------------------------------------
(* History: who changed a pin, and for a limited time?                      *)

Note(cmd, ms) ==
  /\ cause' = [i \in Items |-> IF out'[i] # out[i] THEN cmd ELSE cause[i]]
  /\ timed' = [i \in Items |-> out'[i] /\ IF out[i] THEN timed[i] ELSE ms > 0]

Memo(c, cmd) ==
  IF c = Group /\ cmd = "HALT" /\ \A i \in Items : channel[i].cmd # "HALT" /\ ~channel[i].frozen
    THEN [kind |-> "halt", out |-> out]
  ELSE [kind |-> "none", out |-> out]

\* A command from MQTT, the console, an input or CAN.
Command(c, cmd, ms) ==
  /\ \E authorized \in BOOLEAN : channel' = Ctrl(c, cmd, ms, authorized)
  /\ Note(cmd, ms)
  /\ memo' = Memo(c, cmd)

\* The same with the suffix del: the delayed command takes the channel's only
\* timer over.
Delay(c, cmd, ms) ==
  /\ ~Refused(channel[c], cmd)
  /\ channel' = [channel EXCEPT ![c] = Armed(@, cmd, ms)]
  /\ memo' = [memo EXCEPT !.kind = "none"]
  /\ UNCHANGED <<cause, timed>>

Due(c) == channel[c].sched # "none" /\ channel[c].due = 0

\* Item::Poll: the timer is disarmed and its command executed.  Whose timer is
\* polled first is a matter of the configuration and of a millisecond.
Expire(c) ==
  /\ Due(c)
  /\ LET cmd == channel[c].sched
         c1  == [channel EXCEPT ![c].sched = "none"]
     IN /\ \E authorized \in BOOLEAN :
             channel' = IF c = Group
                          THEN [CtrlGroup(cmd, 0, authorized) EXCEPT ![c].sched = "none"]
                          ELSE [c1 EXCEPT ![c] = CtrlItem(@, cmd, 0)]
        /\ Note(cmd, 0)
        /\ memo' = [memo EXCEPT !.kind = "none"]

\* millis(): polling is much faster than a tick.
Tick ==
  /\ \A c \in Channels : ~Due(c)
  /\ \E c \in Channels : channel[c].due > 0
  /\ channel' = [c \in Channels |->
       [channel[c] EXCEPT !.due = IF @ > 0 THEN @ - 1 ELSE 0]]
  /\ UNCHANGED <<cause, timed, memo>>

Next ==
  \/ \E c \in Channels :
       \/ \E cmd \in Commands : Command(c, cmd, 0)
       \/ \E cmd \in Timed, ms \in 1 .. MaxTime : Command(c, cmd, ms)
       \/ \E cmd \in Delayed, ms \in 0 .. MaxTime : Delay(c, cmd, ms)
       \/ Expire(c)
  \/ Tick

Spec == Init /\ [][Next]_vars

-----------------------------------------------------------------------------
(***************************************************************************)
(* Properties                                                              *)
(***************************************************************************)

\* The pin of a channel is on exactly when the core believes the channel active.
PinIsState == \A i \in Items : channel[i].out <=> Active(channel[i])

\* RESTORE turns on only what HALT has turned off, XOFF turns off only what XON
\* has turned on, whatever commands, timers and groups came in between; and XON
\* turns on nothing that is disabled.
SwitchStep ==
  \A i \in Items :
    /\ out'[i] /\ ~out[i] /\ cause'[i] = "RESTORE" => cause[i] = "HALT"
    /\ ~out'[i] /\ out[i] /\ cause'[i] = "XOFF" => cause[i] = "XON"
    /\ out'[i] /\ ~out[i] /\ cause'[i] = "XON" => ~channel[i].disabled
SwitchRules == [][SwitchStep]_vars

\* A frozen channel keeps its pin, also when the group or its timer commands it.
FrozenStep ==
  \A i \in Items : channel[i].frozen /\ channel'[i].frozen => out'[i] = out[i]
FrozenStays == [][FrozenStep]_vars

\* The timer of a channel that is on will turn it off.
Ends(c) == c.sched \in {"OFF", "HALT", "TOGGLE"} \/ (c.sched = "XOFF" /\ c.cmd = "XON")

\* What takes that from a channel.  Its only timer is taken over, by a delayed
\* command or by a command with a time that is about the flags; ...
Taken(i) ==
  \/ \E cmd \in Delayed, ms \in 0 .. MaxTime : Delay(i, cmd, ms)
  \/ channel'[i].sched \in {"ENABLE", "DISABLE", "FREEZE", "UNFREEZE"}
\* ... the time is over while the channel is frozen, and the command refused; ...
Missed(i) == channel[i].frozen /\ Due(i)
\* ... or an ON, with a time or without one, comes to what XON has turned on, and
\* the XOFF that is due will find an ordinary ON.
MadeOrdinary(i) == channel[i].cmd = "XON" /\ channel'[i].cmd = "ON"

\* A channel that a command with a time turns on has a timer that will turn it
\* off again, and keeps it until it is off, whatever commands come to it and to
\* its group, but for the three cases above.
TimedOnStep ==
  \A i \in Items : timed'[i] =>
    \/ Ends(channel'[i])
    \/ timed[i] /\ (Ends(channel[i]) => Taken(i) \/ Missed(i) \/ MadeOrdinary(i))
TimedOnEnds == [][TimedOnStep]_vars

\* The master switch: RESTORE after HALT brings back exactly the channels that
\* were on when the group was halted (none of them halted or frozen before).
RestoreStep == memo.kind = "halt" /\ Command(Group, "RESTORE", 0) => out' = memo.out
RestoreUndoesHalt == [][RestoreStep]_vars
=============================================================================
