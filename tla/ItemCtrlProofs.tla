--------------------------- MODULE ItemCtrlProofs ---------------------------
(***************************************************************************)
(* For any number of channels, whatever commands, times and delays: the pin   *)
(* follows the stored command, and the conditional commands undo only what    *)
(* their counterparts did.                                                  *)
(***************************************************************************)
EXTENDS ItemCtrl, TLAPS

\* What the stored command says of the pin, and of how the pin got there.
Remembers(c, by) ==
  /\ c.out <=> Active(c)
  /\ c.cmd = "HALT" => by = "HALT"
  /\ c.cmd = "XON" => by = "XON"

\* The inductive invariant.
IInv == TypeOK /\ \A i \in Items : Remembers(channel[i], cause[i])

\* What a command may do to a channel in state c, leaving it in state d.
Lawful(c, d, cmd) ==
  /\ d \in States
  /\ d.out <=> Active(d)
  /\ d.cmd = "HALT" => \/ c.cmd = "HALT" /\ d.out = c.out
                       \/ c.out /\ ~d.out /\ cmd = "HALT"
  /\ d.cmd = "XON" => \/ c.cmd = "XON" /\ d.out = c.out
                      \/ ~c.out /\ d.out /\ cmd = "XON"
  /\ ~c.out /\ d.out /\ cmd = "RESTORE" => c.cmd = "HALT"
  /\ ~c.out /\ d.out /\ cmd = "XON" => ~c.disabled
  /\ c.out /\ ~d.out /\ cmd = "XOFF" => c.cmd = "XON"
  /\ c.frozen /\ d.frozen => d.out = c.out

\* TOGGLE stands for ON or OFF, every other command for itself.
Means(cmd, order) == order = cmd \/ (cmd = "TOGGLE" /\ order \in {"ON", "OFF"})

\* What every step does to channel i.
Effect(i) ==
  \E cmd \in AllCommands, order \in AllCommands :
    /\ Means(cmd, order)
    /\ Lawful(channel[i], channel'[i], order)
    /\ cause'[i] = IF channel'[i].out # channel[i].out THEN cmd ELSE cause[i]

\* States that differ in the timer at most.
SameButTimer(c, d) ==
  c.cmd = d.cmd /\ c.out = d.out /\ c.disabled = d.disabled /\ c.frozen = d.frozen

Times == 0 .. MaxTime

-----------------------------------------------------------------------------
\* The opposite of a command is a command (scheduleOppositeCommand).
LEMMA OppositeIsCommand == \A cmd \in AllCommands : Opposite(cmd) \in AllCommands
BY DEF AllCommands, Opposite

\* scheduleCommand and scheduleOppositeCommand change nothing but the timer.
LEMMA TimerOnly ==
  ASSUME NEW c \in States, NEW cmd \in AllCommands, NEW ms \in Times, NEW active \in SUBSET BOOLEAN
  PROVE  LET d == Opposed(c, cmd, ms, active)
         IN d \in States /\ SameButTimer(c, d)
<1>1. Opposite(cmd) \in Schedule
  BY OppositeIsCommand DEF Schedule
<1>2. ms \in 0 .. MaxTime
  BY DEF Times
<1>. QED
  BY <1>1, <1>2 DEF Opposed, Armed, States, Schedule, SameButTimer

\* Carrying out a command that is not to be ignored is lawful.
LEMMA ExecutedIsLawful ==
  ASSUME NEW c \in States, c.out <=> Active(c),
         NEW cmd \in AllCommands \ {"TOGGLE"}, ~Ignored(c, cmd), ~Refused(c, cmd)
  PROVE  Lawful(c, Executed(c, cmd), cmd)
<1>1. CASE cmd \in {"ON", "RESTORE"}
  BY <1>1 DEF Lawful, Executed, Remembered, TurnsOn, TurnsOff, Ignored, Refused, Active, States, Stored
<1>2. CASE cmd = "XON"
  BY <1>2 DEF Lawful, Executed, Remembered, TurnsOn, TurnsOff, Ignored, Refused, Active, States, Stored
<1>3. CASE cmd \in {"OFF", "XOFF"}
  BY <1>3 DEF Lawful, Executed, Remembered, TurnsOn, TurnsOff, Ignored, Refused, Active, States, Stored
<1>4. CASE cmd = "HALT"
  BY <1>4 DEF Lawful, Executed, Remembered, TurnsOn, TurnsOff, Ignored, Refused, Active, States, Stored
<1>5. CASE cmd \in {"ENABLE", "DISABLE", "FREEZE", "UNFREEZE"}
  BY <1>5 DEF Lawful, Executed, Remembered, TurnsOn, TurnsOff, Ignored, Refused, Active, States, Stored
<1>. QED
  BY <1>1, <1>2, <1>3, <1>4, <1>5 DEF AllCommands

\* Whatever happens to the timer first, what a command does is lawful.
LEMMA TimerDoesNotMatter ==
  ASSUME NEW c \in States, NEW b \in States, NEW d, NEW cmd,
         SameButTimer(c, b), Lawful(b, d, cmd)
  PROVE  Lawful(c, d, cmd)
BY DEF Lawful, SameButTimer

\* TOGGLE becomes ON or OFF, every other command stays what it is.
LEMMA ToggledIsCommand ==
  ASSUME NEW cmd \in AllCommands, NEW active
  PROVE  /\ Toggled(cmd, active) \in AllCommands \ {"TOGGLE"}
         /\ Means(cmd, Toggled(cmd, active))
BY DEF Toggled, Means, AllCommands

\* Whatever command a channel gets, and with whatever time, what becomes of it
\* is lawful for that command or for the one TOGGLE has been turned into.
LEMMA CtrlItemIsLawful ==
  ASSUME NEW c \in States, c.out <=> Active(c), NEW cmd \in AllCommands, NEW ms \in Times
  PROVE  Lawful(c, CtrlItem(c, cmd, ms), Toggled(cmd, Active(c)))
<1>. DEFINE order == Toggled(cmd, Active(c))
            b     == Opposed(c, cmd, ms, {Active(c)})
<1>1. order \in AllCommands \ {"TOGGLE"} /\ Means(cmd, order)
  BY ToggledIsCommand
<1>2. {Active(c)} \in SUBSET BOOLEAN
  BY DEF Active
<1>3. b \in States /\ SameButTimer(c, b)
  BY <1>2, TimerOnly
<1>4. CASE Refused(c, cmd) \/ (Ignored(c, order) /\ order # "ON")
  <2>1. CtrlItem(c, cmd, ms) = c
    BY <1>4 DEF CtrlItem
  <2>. QED
    BY <2>1 DEF Lawful
<1>5. CASE ~Refused(c, cmd) /\ Ignored(c, order) /\ order = "ON"
  <2>1. CtrlItem(c, cmd, ms) = [c EXCEPT !.cmd = "ON"]
    BY <1>5 DEF CtrlItem
  <2>2. c.out /\ Active(c)
    BY <1>5 DEF Ignored
  <2>. QED
    BY <2>1, <2>2, <1>5 DEF Lawful, Active, States, Stored
<1>6. CASE ~Refused(c, cmd) /\ ~Ignored(c, order)
  <2>1. CtrlItem(c, cmd, ms) = Executed(b, order)
    BY <1>6 DEF CtrlItem
  <2>2. ~Ignored(b, order) /\ (b.out <=> Active(b))
    BY <1>3, <1>6 DEF Ignored, Active, SameButTimer
  <2>3. ~Refused(b, order)
    BY <1>1, <1>3, <1>6 DEF Refused, Means, SameButTimer
  <2>4. Lawful(b, Executed(b, order), order)
    BY <1>1, <1>3, <2>2, <2>3, ExecutedIsLawful
  <2>. QED
    BY <2>1, <2>4, <1>3, TimerDoesNotMatter
<1>. QED
  BY <1>4, <1>5, <1>6

\* A channel that is left alone is treated lawfully.
LEMMA NothingIsLawful ==
  ASSUME NEW c \in States, c.out <=> Active(c), NEW cmd
  PROVE  Lawful(c, c, cmd)
BY DEF Lawful

-----------------------------------------------------------------------------
\* What a group remembers of a command is a state of it.
LEMMA GroupKeepsType ==
  ASSUME NEW g \in States, NEW cmd \in AllCommands, NEW authorized \in BOOLEAN
  PROVE  CtrlFlag(g, cmd, authorized) \in States /\ GroupStored(g, cmd) \in States
<1>1. CtrlFlag(g, cmd, authorized) \in States
  BY DEF CtrlFlag, States, Stored
<1>2. ASSUME NEW s \in {"ON", "OFF", "XON", "HALT"}
      PROVE  [g EXCEPT !.cmd = s] \in States
  BY DEF States, Stored
<1>3. GroupStored(g, cmd) \in {g} \cup {[g EXCEPT !.cmd = s] : s \in {"ON", "OFF", "XON", "HALT"}}
  BY DEF GroupStored, AllCommands
<1>. QED
  BY <1>1, <1>2, <1>3

\* Whether it is sent to a channel or to its group, a command is carried out
\* lawfully on every channel.
LEMMA CtrlIsLawful ==
  ASSUME IInv, NEW c \in Channels, NEW cmd \in AllCommands, NEW ms \in Times,
         NEW authorized \in BOOLEAN, NEW chs, chs = Ctrl(c, cmd, ms, authorized)
  PROVE  /\ chs \in [Channels -> States]
         /\ \A i \in Items : \E order \in AllCommands :
              Means(cmd, order) /\ Lawful(channel[i], chs[i], order)
<1>1. /\ channel \in [Channels -> States]
      /\ \A i \in Items : channel[i].out <=> Active(channel[i])
      /\ Items \subseteq Channels
  BY DEF IInv, TypeOK, Remembers, Channels
<1>2. \A i \in Items : Lawful(channel[i], channel[i], cmd)
  BY <1>1, NothingIsLawful
<1>3. Means(cmd, cmd)
  BY DEF Means
<1>4. ASSUME NEW i \in Items, NEW o \in AllCommands, NEW t \in Times
      PROVE  /\ CtrlItem(channel[i], o, t) \in States
             /\ Lawful(channel[i], CtrlItem(channel[i], o, t), Toggled(o, Active(channel[i])))
  <2>1. Lawful(channel[i], CtrlItem(channel[i], o, t), Toggled(o, Active(channel[i])))
    BY <1>1, CtrlItemIsLawful
  <2>. QED
    BY <2>1 DEF Lawful
<1>5. CASE c # Group
  <2>1. c \in Items /\ chs = [channel EXCEPT ![c] = CtrlItem(@, cmd, ms)]
    BY <1>5 DEF Ctrl, Channels
  <2>2. chs \in [Channels -> States]
    BY <2>1, <1>1, <1>4
  <2>3. ASSUME NEW i \in Items
        PROVE  \E order \in AllCommands : Means(cmd, order) /\ Lawful(channel[i], chs[i], order)
    <3>1. CASE i = c
      BY <3>1, <2>1, <1>1, <1>4, ToggledIsCommand
    <3>2. CASE i # c
      BY <3>2, <2>1, <1>1, <1>2, <1>3
    <3>. QED
      BY <3>1, <3>2
  <2>. QED
    BY <2>2, <2>3
<1>6. CASE c = Group
  <2>. DEFINE g     == channel[Group]
              order == Toggled(cmd, GroupActive)
              armed == IF Forwarded(g, order) THEN Opposed(g, cmd, ms, {}) ELSE g
  <2>1. /\ order \in AllCommands \ {"TOGGLE"}
        /\ Means(cmd, order)
    BY ToggledIsCommand
  <2>2. g \in States /\ armed \in States
    BY <1>1, TimerOnly DEF Channels
  <2>3. CASE Refused(g, cmd)
    BY <2>3, <1>6, <1>1, <1>2, <1>3 DEF Ctrl, CtrlGroup
  <2>4. CASE ~Refused(g, cmd) /\ order \in {"ENABLE", "DISABLE"}
    <3>1. chs = [channel EXCEPT ![Group] = CtrlFlag(g, order, authorized)]
      BY <2>4, <1>6 DEF Ctrl, CtrlGroup
    <3>2. CtrlFlag(g, order, authorized) \in States
      BY <2>1, <2>2, GroupKeepsType
    <3>3. \A i \in Items : chs[i] = channel[i]
      BY <3>1, <1>1, GroupAssumption
    <3>. QED
      BY <3>1, <3>2, <3>3, <1>1, <1>2, <1>3
  <2>5. CASE ~Refused(g, cmd) /\ order \notin {"ENABLE", "DISABLE"}
    <3>1. chs = [k \in Channels |->
                   IF k = Group THEN GroupStored(armed, order)
                   ELSE IF Forwarded(g, order) THEN CtrlItem(channel[k], order, ms)
                   ELSE channel[k]]
      BY <2>5, <1>6 DEF Ctrl, CtrlGroup
    <3>2. GroupStored(armed, order) \in States
      BY <2>1, <2>2, GroupKeepsType
    <3>3. \A i \in Items : i # Group /\ (chs[i] = CtrlItem(channel[i], order, ms) \/ chs[i] = channel[i])
      BY <3>1, <1>1, GroupAssumption
    <3>4. chs \in [Channels -> States]
      BY <3>1, <3>2, <1>1, <1>4, <2>1 DEF Channels
    <3>5. \A i \in Items : Toggled(order, Active(channel[i])) = order
      BY <2>1 DEF Toggled
    <3>6. \A i \in Items : Lawful(channel[i], CtrlItem(channel[i], order, ms), order)
      BY <3>5, <2>1, <1>4
    <3>7. \A i \in Items : Lawful(channel[i], channel[i], order)
      BY <1>1, NothingIsLawful
    <3>. QED
      BY <3>3, <3>4, <3>6, <3>7, <2>1
  <2>. QED
    BY <2>3, <2>4, <2>5
<1>. QED
  BY <1>5, <1>6

-----------------------------------------------------------------------------
\* Every command, delay, timer and tick keeps the types and treats every channel
\* lawfully.
LEMMA StepIsLawful ==
  ASSUME IInv, Next
  PROVE  TypeOK' /\ \A i \in Items : Effect(i)
<1>. USE DEF IInv
<1>1. /\ channel \in [Channels -> States]
      /\ cause \in [Items -> AllCommands \cup {"VOID"}]
      /\ timed \in [Items -> BOOLEAN]
      /\ memo \in [kind : {"none", "halt"}, out : [Items -> BOOLEAN]]
      /\ \A i \in Items : channel[i].out <=> Active(channel[i])
      /\ Items \subseteq Channels
  BY DEF TypeOK, Remembers, Channels
<1>2. out \in [Items -> BOOLEAN]
  BY <1>1 DEF out, States
<1>3. 0 \in Times /\ \A ms \in 1 .. MaxTime : ms \in Times
  BY TimeAssumption DEF Times
<1>4. ASSUME NEW cmd \in AllCommands, NEW ms \in Times, Note(cmd, ms),
             channel' \in [Channels -> States],
             memo' \in [kind : {"none", "halt"}, out : [Items -> BOOLEAN]],
             \A i \in Items : \E order \in AllCommands :
               Means(cmd, order) /\ Lawful(channel[i], channel'[i], order)
      PROVE  TypeOK' /\ \A i \in Items : Effect(i)
  <2>1. \A i \in Items : out'[i] = channel'[i].out /\ out[i] = channel[i].out
    BY DEF out
  <2>2. cause' = [i \in Items |-> IF out'[i] # out[i] THEN cmd ELSE cause[i]]
    BY <1>4 DEF Note
  <2>3. cause' \in [Items -> AllCommands \cup {"VOID"}]
    BY <2>2, <1>1
  <2>4. timed' \in [Items -> BOOLEAN]
    <3>. DEFINE T(i) == out'[i] /\ IF out[i] THEN timed[i] ELSE ms > 0
    <3>1. timed' = [i \in Items |-> T(i)]
      BY <1>4 DEF Note
    <3>2. \A i \in Items : T(i) \in BOOLEAN
      OBVIOUS
    <3>. HIDE DEF T
    <3>. QED
      BY <3>1, <3>2
  <2>5. \A i \in Items : cause'[i] = IF channel'[i].out # channel[i].out THEN cmd ELSE cause[i]
    BY <2>1, <2>2
  <2>. QED
    BY <2>3, <2>4, <2>5, <1>4 DEF TypeOK, Effect
<1>5. ASSUME channel' \in [Channels -> States], UNCHANGED cause,
             timed' \in [Items -> BOOLEAN],
             memo' \in [kind : {"none", "halt"}, out : [Items -> BOOLEAN]],
             \A i \in Items : SameButTimer(channel[i], channel'[i])
      PROVE  TypeOK' /\ \A i \in Items : Effect(i)
  <2>1. \A i \in Items : channel'[i] \in States
    BY <1>5, <1>1
  <2>2. "ON" \in AllCommands /\ Means("ON", "ON")
    BY DEF AllCommands, Means
  <2>3. \A i \in Items : Lawful(channel[i], channel'[i], "ON")
    BY <2>1, <1>1, <1>5 DEF Lawful, Active, SameButTimer
  <2>4. \A i \in Items : cause'[i] = cause[i] /\ channel'[i].out = channel[i].out
    BY <1>5 DEF SameButTimer
  <2>5. \A i \in Items : Effect(i)
    BY <2>2, <2>3, <2>4 DEF Effect
  <2>. QED
    BY <2>5, <1>5, <1>1 DEF TypeOK
<1>6. ASSUME NEW c \in Channels, NEW cmd \in AllCommands, NEW ms \in Times, Command(c, cmd, ms)
      PROVE  TypeOK' /\ \A i \in Items : Effect(i)
  <2>1. PICK authorized \in BOOLEAN : channel' = Ctrl(c, cmd, ms, authorized)
    BY <1>6 DEF Command
  <2>2. /\ channel' \in [Channels -> States]
        /\ \A i \in Items : \E order \in AllCommands :
             Means(cmd, order) /\ Lawful(channel[i], channel'[i], order)
    BY <2>1, CtrlIsLawful
  <2>3. memo' \in [kind : {"none", "halt"}, out : [Items -> BOOLEAN]]
    BY <1>6, <1>2 DEF Command, Memo
  <2>. QED
    BY <2>2, <2>3, <1>4, <1>6 DEF Command
<1>7. ASSUME NEW c \in Channels, NEW cmd \in AllCommands, NEW ms \in Times, Delay(c, cmd, ms)
      PROVE  TypeOK' /\ \A i \in Items : Effect(i)
  <2>1. channel' = [channel EXCEPT ![c] = Armed(@, cmd, ms)]
    BY <1>7 DEF Delay
  <2>2. \A s \in States : Armed(s, cmd, ms) \in States
    BY DEF Armed, States, Schedule, Times
  <2>3. channel' \in [Channels -> States]
    BY <2>1, <2>2, <1>1
  <2>4. \A i \in Items : SameButTimer(channel[i], channel'[i])
    <3>1. \A s \in States : SameButTimer(s, Armed(s, cmd, ms))
      BY DEF Armed, States, SameButTimer
    <3>2. \A s \in States : SameButTimer(s, s)
      BY DEF SameButTimer
    <3>. QED
      BY <2>1, <1>1, <3>1, <3>2
  <2>5. memo' \in [kind : {"none", "halt"}, out : [Items -> BOOLEAN]]
    BY <1>7, <1>1 DEF Delay
  <2>6. timed' \in [Items -> BOOLEAN]
    BY <1>7, <1>1 DEF Delay
  <2>7. UNCHANGED cause
    BY <1>7 DEF Delay
  <2>. QED
    BY <2>3, <2>4, <2>5, <2>6, <2>7, <1>5
<1>8. ASSUME NEW c \in Channels, Expire(c)
      PROVE  TypeOK' /\ \A i \in Items : Effect(i)
  <2>. DEFINE cmd == channel[c].sched
  <2>1. cmd \in AllCommands /\ Note(cmd, 0)
    BY <1>8, <1>1 DEF Expire, Due, States, Schedule
  <2>2. memo' \in [kind : {"none", "halt"}, out : [Items -> BOOLEAN]]
    BY <1>8, <1>1 DEF Expire
  <2>3. CASE c = Group
    <3>1. PICK authorized \in BOOLEAN :
            channel' = [CtrlGroup(cmd, 0, authorized) EXCEPT ![c].sched = "none"]
      BY <1>8, <2>3 DEF Expire
    <3>. DEFINE chs == CtrlGroup(cmd, 0, authorized)
    <3>2. /\ chs \in [Channels -> States]
          /\ \A i \in Items : \E order \in AllCommands :
               Means(cmd, order) /\ Lawful(channel[i], chs[i], order)
      <4>1. chs = Ctrl(c, cmd, 0, authorized)
        BY <2>3 DEF Ctrl
      <4>. QED
        BY <4>1, <2>1, <1>3, CtrlIsLawful
    <3>3. [chs[c] EXCEPT !.sched = "none"] \in States
      BY <3>2 DEF States, Schedule
    <3>4. channel' = [chs EXCEPT ![c] = [chs[c] EXCEPT !.sched = "none"]]
      BY <3>1, <3>2
    <3>5. channel' \in [Channels -> States] /\ \A i \in Items : channel'[i] = chs[i]
      BY <3>2, <3>3, <3>4, <2>3, <1>1, GroupAssumption
    <3>. QED
      BY <3>2, <3>5, <2>1, <2>2, <1>3, <1>4
  <2>4. CASE c # Group
    <3>. DEFINE b == [channel[c] EXCEPT !.sched = "none"]
                d == CtrlItem(b, cmd, 0)
    <3>1. c \in Items
      BY <2>4 DEF Channels
    <3>2. channel' = [channel EXCEPT ![c] = d]
      BY <1>8, <2>4, <1>1 DEF Expire
    <3>3. /\ b \in States /\ (b.out <=> Active(b))
          /\ SameButTimer(channel[c], b)
      BY <1>1, <3>1 DEF States, Schedule, Active, SameButTimer
    <3>4. Lawful(b, d, Toggled(cmd, Active(b)))
      BY <3>3, <2>1, <1>3, CtrlItemIsLawful
    <3>5. Lawful(channel[c], d, Toggled(cmd, Active(b)))
      BY <3>3, <3>4, <1>1, TimerDoesNotMatter
    <3>6. Toggled(cmd, Active(b)) \in AllCommands /\ Means(cmd, Toggled(cmd, Active(b)))
      BY <2>1, ToggledIsCommand
    <3>7. channel' \in [Channels -> States]
      BY <3>2, <3>5, <1>1 DEF Lawful
    <3>8. \A i \in Items : i # c => Lawful(channel[i], channel'[i], cmd)
      BY <3>2, <1>1, NothingIsLawful
    <3>9. \A i \in Items : \E order \in AllCommands :
            Means(cmd, order) /\ Lawful(channel[i], channel'[i], order)
      <4>1. Means(cmd, cmd)
        BY DEF Means
      <4>. QED
        BY <4>1, <3>1, <3>2, <3>5, <3>6, <3>8, <2>1, <1>1
    <3>. QED
      BY <3>7, <3>9, <2>1, <2>2, <1>3, <1>4
  <2>. QED
    BY <2>3, <2>4
<1>9. CASE Tick
  <2>1. channel' = [k \in Channels |-> [channel[k] EXCEPT !.due = IF @ > 0 THEN @ - 1 ELSE 0]]
    BY <1>9 DEF Tick
  <2>2. \A s \in States : [s EXCEPT !.due = IF @ > 0 THEN @ - 1 ELSE 0] \in States
    BY TimeAssumption DEF States
  <2>3. channel' \in [Channels -> States]
    BY <2>1, <2>2, <1>1
  <2>4. \A i \in Items : SameButTimer(channel[i], channel'[i])
    BY <2>1, <1>1 DEF States, SameButTimer
  <2>5. memo' \in [kind : {"none", "halt"}, out : [Items -> BOOLEAN]]
    BY <1>9, <1>1 DEF Tick
  <2>6. UNCHANGED cause /\ timed' \in [Items -> BOOLEAN]
    BY <1>9, <1>1 DEF Tick
  <2>. QED
    BY <2>3, <2>4, <2>5, <2>6, <1>5
<1>. QED
  BY <1>3, <1>6, <1>7, <1>8, <1>9, CommandsAssumption DEF Next, Times

\* The invariant holds at first, with the commands of the configuration.
LEMMA InitEstablishes == Init => IInv
<1>. SUFFICES ASSUME Init PROVE IInv
  OBVIOUS
<1>1. PICK on \in [Items -> BOOLEAN] :
        /\ channel = [c \in Channels |->
             [cmd |-> IF c \in Items /\ on[c] THEN "ON" ELSE "VOID",
              disabled |-> FALSE, frozen |-> FALSE, sched |-> "none", due |-> 0,
              out |-> c \in Items /\ on[c]]]
        /\ cause = [i \in Items |-> IF on[i] THEN "ON" ELSE "VOID"]
        /\ memo = [kind |-> "none", out |-> on]
  BY DEF Init
<1>2. timed = [i \in Items |-> FALSE]
  BY DEF Init
<1>3. ASSUME NEW c \in Channels
      PROVE  channel[c] \in States
  BY <1>1, TimeAssumption DEF States, Stored, Schedule
<1>4. channel \in [Channels -> States]
  BY <1>1, <1>3
<1>5. TypeOK
  BY <1>1, <1>2, <1>4 DEF TypeOK, AllCommands
<1>6. ASSUME NEW i \in Items
      PROVE  Remembers(channel[i], cause[i])
  BY <1>1 DEF Remembers, Active, Channels
<1>. QED
  BY <1>5, <1>6 DEF IInv

\* Every step keeps the invariant, by what StepIsLawful says of it.
LEMMA StepPreserves == IInv /\ [Next]_vars => IInv'
<1>. SUFFICES ASSUME IInv, [Next]_vars PROVE IInv'
  OBVIOUS
<1>1. CASE Next
  <2>1. TypeOK' /\ \A i \in Items : Effect(i)
    BY <1>1, StepIsLawful
  <2>2. ASSUME NEW i \in Items
        PROVE  Remembers(channel[i], cause[i])'
    BY <2>1 DEF IInv, Remembers, Effect, Lawful, Means
  <2>. QED
    BY <2>1, <2>2 DEF IInv
<1>2. CASE UNCHANGED vars
  BY <1>2 DEF vars, IInv, TypeOK, Remembers
<1>. QED
  BY <1>1, <1>2

\* Pins, stored commands and causes agree throughout.
THEOREM Invariance == Spec => []IInv
BY InitEstablishes, StepPreserves, PTL DEF Spec

\* Type correctness.
THEOREM TypeCorrect == Spec => []TypeOK
<1>1. IInv => TypeOK
  BY DEF IInv
<1>. QED
  BY <1>1, Invariance, PTL

\* isActive() answers for the pin: PinIsState holds of any number of channels.
THEOREM PinIsStateHolds == Spec => []PinIsState
<1>1. IInv => PinIsState
  BY DEF IInv, Remembers, PinIsState
<1>. QED
  BY <1>1, Invariance, PTL

\* Ctrl's conditional commands: RESTORE after HALT only, XOFF after XON only, XON
\* on what is enabled only, through groups and timers alike.
THEOREM SwitchRulesHold == Spec => SwitchRules
<1>1. ASSUME IInv, [Next]_vars
      PROVE  [SwitchStep]_vars
  <2>1. CASE Next
    <3>1. ASSUME NEW i \in Items
          PROVE  Effect(i) /\ out'[i] = channel'[i].out /\ out[i] = channel[i].out
      BY <1>1, <2>1, StepIsLawful DEF out
    <3>2. ASSUME NEW i \in Items
          PROVE  /\ out'[i] /\ ~out[i] /\ cause'[i] = "RESTORE" => cause[i] = "HALT"
                 /\ ~out'[i] /\ out[i] /\ cause'[i] = "XOFF" => cause[i] = "XON"
                 /\ out'[i] /\ ~out[i] /\ cause'[i] = "XON" => ~channel[i].disabled
      BY <1>1, <3>1 DEF IInv, Remembers, Effect, Lawful, Means
    <3>. QED
      BY <3>2 DEF SwitchStep
  <2>2. CASE UNCHANGED vars
    BY <2>2
  <2>. QED
    BY <1>1, <2>1, <2>2
<1>. QED
  BY <1>1, Invariance, PTL DEF Spec, SwitchRules

\* FREEZE holds the pin against groups, timers and direct commands.
THEOREM FrozenStaysHolds == Spec => FrozenStays
<1>1. ASSUME IInv, [Next]_vars
      PROVE  [FrozenStep]_vars
  <2>1. CASE Next
    <3>1. ASSUME NEW i \in Items
          PROVE  Effect(i) /\ out'[i] = channel'[i].out /\ out[i] = channel[i].out
      BY <1>1, <2>1, StepIsLawful DEF out
    <3>. QED
      BY <3>1 DEF Effect, Lawful, FrozenStep
  <2>2. CASE UNCHANGED vars
    BY <2>2
  <2>. QED
    BY <1>1, <2>1, <2>2
<1>. QED
  BY <1>1, Invariance, PTL DEF Spec, FrozenStays

-----------------------------------------------------------------------------
\* Timed commands.

\* What a command does to the timer of a channel that is on, or that it turns on.
Minds(c, d, ms) ==
  d.out =>
    IF c.out THEN Ends(c) => \/ Ends(d)
                             \/ d.sched \in {"ENABLE", "DISABLE", "FREEZE", "UNFREEZE"}
                             \/ c.cmd = "XON" /\ d.cmd = "ON"
    ELSE ms > 0 => Ends(d)

LEMMA SameMinds ==
  ASSUME NEW c, NEW ms
  PROVE  Minds(c, c, ms)
BY DEF Minds

\* A command with a time to a channel that is off: scheduleOppositeCommand arms what ends it.
LEMMA TurnedOnEnds ==
  ASSUME NEW c \in States, c.out <=> Active(c), NEW cmd \in AllCommands, NEW ms \in Times, ms > 0,
         ~c.out, CtrlItem(c, cmd, ms).out
  PROVE  Ends(CtrlItem(c, cmd, ms))
<1>. DEFINE order == Toggled(cmd, Active(c))
            b == Opposed(c, cmd, ms, {Active(c)})
<1>1. ~Active(c)
  OBVIOUS
<1>2. ~Refused(c, cmd) /\ ~Ignored(c, order)
  BY <1>1 DEF CtrlItem, States, Ignored
<1>3. CtrlItem(c, cmd, ms) = Executed(b, order)
  BY <1>2 DEF CtrlItem
<1>4. b.out = c.out
  BY DEF Opposed, Armed, States
<1>5. order \in TurnsOn
  BY <1>3, <1>4 DEF Executed, States, Opposed, Armed
<1>6. cmd \in {"ON", "RESTORE", "XON", "TOGGLE"}
  BY <1>5 DEF Toggled, TurnsOn
<1>7. ~InTarget(c, cmd, {Active(c)})
  BY <1>1, <1>6 DEF InTarget
<1>8. b = Armed(c, Opposite(cmd), ms)
  BY <1>7 DEF Opposed
<1>9. b.sched = Opposite(cmd)
  BY <1>8 DEF Armed, States
<1>10. Executed(b, order).sched = Opposite(cmd) /\ Executed(b, order).cmd = Remembered(b, order)
  BY <1>9, <1>8 DEF Executed, States, Armed
<1>. QED
  BY <1>1, <1>3, <1>6, <1>10 DEF Ends, Opposite, Toggled, Remembered

\* A command to a channel that is on, and that it leaves on.
LEMMA StaysOnMinds ==
  ASSUME NEW c \in States, c.out <=> Active(c), NEW cmd \in AllCommands, NEW ms \in Times,
         c.out, Ends(c), NEW d, d = CtrlItem(c, cmd, ms), d.out
  PROVE  \/ Ends(d)
         \/ d.sched \in {"ENABLE", "DISABLE", "FREEZE", "UNFREEZE"}
         \/ c.cmd = "XON" /\ d.cmd = "ON"
<1>. DEFINE order == Toggled(cmd, Active(c))
            b == Opposed(c, cmd, ms, {Active(c)})
            flagged == {"ENABLE", "DISABLE", "FREEZE", "UNFREEZE"}
<1>1. Active(c) /\ c.cmd \in {"ON", "XON"}
  BY DEF Active
<1>2. CASE Refused(c, cmd) \/ (Ignored(c, order) /\ order # "ON")
  <2>1. d = c
    BY <1>2 DEF CtrlItem
  <2>. QED
    BY <2>1
<1>3. CASE ~Refused(c, cmd) /\ order = "ON"
  <2>1. d = [c EXCEPT !.cmd = "ON"]
    BY <1>1, <1>3 DEF CtrlItem, Ignored
  <2>2. d.sched = c.sched /\ d.cmd = "ON"
    BY <2>1 DEF States
  <2>. QED
    BY <1>1, <2>2 DEF Ends
<1>4. CASE ~Refused(c, cmd) /\ ~Ignored(c, order) /\ order # "ON"
  <2>1. d = Executed(b, order)
    BY <1>4 DEF CtrlItem
  <2>2. b.sched = c.sched \/ b.sched = Opposite(cmd)
    BY TimeAssumption DEF Opposed, Armed, States, Times
  <2>3. b.cmd = c.cmd /\ DOMAIN b = DOMAIN c
    BY DEF Opposed, Armed, States
  <2>4. order \notin TurnsOff
    BY <2>1, <2>3 DEF Executed, States, TurnsOff, TurnsOn
  <2>5. order \in flagged /\ cmd = order
    BY <1>1, <1>4, <2>4 DEF Ignored, Toggled, TurnsOff, AllCommands
  <2>6. d.sched = b.sched /\ d.cmd = c.cmd
    BY <2>1, <2>3, <2>5 DEF Executed, Remembered, States
  <2>7. CASE ms = 0
    <3>1. b = c
      BY <2>7 DEF Opposed
    <3>. QED
      BY <2>6, <3>1 DEF Ends
  <2>8. CASE ms # 0
    <3>1. b.sched = c.sched \/ b.sched \in flagged
      BY <2>2, <2>5, <2>8 DEF Opposite
    <3>. QED
      BY <2>6, <3>1 DEF Ends
  <2>. QED
    BY <2>7, <2>8
<1>. QED
  BY <1>2, <1>3, <1>4

LEMMA CtrlItemMinds ==
  ASSUME NEW c \in States, c.out <=> Active(c), NEW cmd \in AllCommands, NEW ms \in Times
  PROVE  Minds(c, CtrlItem(c, cmd, ms), ms)
BY TurnedOnEnds, StaysOnMinds DEF Minds

\* A command to a channel or to the group, and what it makes of every channel.
LEMMA CtrlMinds ==
  ASSUME IInv, NEW c \in Channels, NEW cmd \in AllCommands, NEW ms \in Times,
         NEW authorized \in BOOLEAN, NEW chs, chs = Ctrl(c, cmd, ms, authorized), NEW i \in Items
  PROVE  Minds(channel[i], chs[i], ms)
<1>1. /\ channel \in [Channels -> States] /\ channel[i] \in States
      /\ (channel[i].out <=> Active(channel[i]))
      /\ i \in Channels /\ i # Group
  BY GroupAssumption DEF IInv, TypeOK, Remembers, Channels
<1>2. CASE c # Group
  <2>1. chs = [channel EXCEPT ![c] = CtrlItem(channel[c], cmd, ms)]
    BY <1>2 DEF Ctrl
  <2>2. CASE c = i
    <3>1. chs[i] = CtrlItem(channel[i], cmd, ms)
      BY <1>1, <2>1, <2>2
    <3>. QED
      BY <1>1, <3>1, CtrlItemMinds
  <2>3. CASE c # i
    <3>1. chs[i] = channel[i]
      BY <1>1, <2>1, <2>3
    <3>. QED
      BY <3>1, SameMinds
  <2>. QED
    BY <2>2, <2>3
<1>3. CASE c = Group
  <2>. DEFINE order == Toggled(cmd, GroupActive)
  <2>1. order \in AllCommands
    BY ToggledIsCommand
  <2>2. chs[i] \in {channel[i], CtrlItem(channel[i], order, ms)}
    BY <1>1, <1>3 DEF Ctrl, CtrlGroup
  <2>. HIDE DEF order
  <2>. QED
    BY <1>1, <2>1, <2>2, CtrlItemMinds, SameMinds
<1>. QED
  BY <1>2, <1>3

\* The timer that ends a channel, once it is polled.
LEMMA ExpiredIsOff ==
  ASSUME NEW c \in States, c.out <=> Active(c), c.out, Ends(c), ~c.frozen
  PROVE  ~CtrlItem([c EXCEPT !.sched = "none"], c.sched, 0).out
<1>. DEFINE b == [c EXCEPT !.sched = "none"]
            order == Toggled(c.sched, Active(b))
<1>1. b.cmd = c.cmd /\ b.out = c.out /\ b.frozen = c.frozen /\ DOMAIN b = DOMAIN c
  BY DEF States
<1>2. Active(b) /\ ~Refused(b, c.sched)
  BY <1>1 DEF Active, Refused
<1>3. order \in TurnsOff /\ ~Ignored(b, order)
  BY <1>1, <1>2 DEF Ends, Toggled, Ignored, Active, TurnsOff
<1>4. Opposed(b, c.sched, 0, {Active(b)}) = b
  BY DEF Opposed
<1>5. CtrlItem(b, c.sched, 0) = Executed(b, order)
  BY <1>2, <1>3, <1>4 DEF CtrlItem
<1>6. ~Executed(b, order).out
  BY <1>1, <1>3 DEF Executed, TurnsOn, TurnsOff, States
<1>. QED
  BY <1>5, <1>6

\* A step that treats the channels so is one that TimedOnStep allows.
LEMMA MindsSteps ==
  ASSUME IInv, NEW i \in Items, NEW ms \in Times,
         timed'[i] => out'[i] /\ IF out[i] THEN timed[i] ELSE ms > 0,
         Minds(channel[i], channel'[i], ms), timed'[i]
  PROVE  \/ Ends(channel'[i])
         \/ timed[i] /\ (Ends(channel[i]) => Taken(i) \/ Missed(i) \/ MadeOrdinary(i))
BY DEF Minds, Taken, MadeOrdinary, out

LEMMA TimedStep ==
  ASSUME IInv, [Next]_vars
  PROVE  TimedOnStep
<1>. SUFFICES ASSUME NEW i \in Items, timed'[i]
              PROVE  \/ Ends(channel'[i])
                     \/ timed[i] /\ (Ends(channel[i]) => Taken(i) \/ Missed(i) \/ MadeOrdinary(i))
  BY DEF TimedOnStep
<1>1. /\ channel \in [Channels -> States] /\ channel[i] \in States
      /\ (channel[i].out <=> Active(channel[i]))
      /\ i \in Channels /\ i # Group
  BY GroupAssumption DEF IInv, TypeOK, Remembers, Channels
<1>2. 0 \in Times /\ \A ms \in 1 .. MaxTime : ms \in Times
  BY TimeAssumption DEF Times
<1>3. ASSUME NEW c \in Channels, NEW cmd \in AllCommands, NEW ms \in Times, Command(c, cmd, ms)
      PROVE  \/ Ends(channel'[i])
             \/ timed[i] /\ (Ends(channel[i]) => Taken(i) \/ Missed(i) \/ MadeOrdinary(i))
  <2>1. PICK authorized \in BOOLEAN : channel' = Ctrl(c, cmd, ms, authorized)
    BY <1>3 DEF Command
  <2>2. Minds(channel[i], channel'[i], ms)
    BY <2>1, CtrlMinds
  <2>3. timed'[i] => out'[i] /\ IF out[i] THEN timed[i] ELSE ms > 0
    BY <1>3 DEF Command, Note
  <2>. QED
    BY <2>2, <2>3, MindsSteps
<1>4. ASSUME NEW c \in Channels, NEW cmd \in Delayed, NEW ms \in 0 .. MaxTime, Delay(c, cmd, ms)
      PROVE  timed[i] /\ (channel'[i] = channel[i] \/ Taken(i))
  <2>1. timed[i] /\ channel' = [channel EXCEPT ![c] = Armed(channel[c], cmd, ms)]
    BY <1>4 DEF Delay
  <2>2. CASE c = i
    BY <1>4, <2>1, <2>2 DEF Taken
  <2>3. CASE c # i
    BY <1>1, <2>1, <2>3
  <2>. QED
    BY <2>2, <2>3
<1>5. ASSUME NEW c \in Channels, Expire(c)
      PROVE  \/ Ends(channel'[i])
             \/ timed[i] /\ (Ends(channel[i]) => Taken(i) \/ Missed(i) \/ MadeOrdinary(i))
  <2>. DEFINE cmd == channel[c].sched
  <2>1. cmd \in AllCommands /\ Note(cmd, 0) /\ Due(c)
    BY <1>1, <1>5 DEF Expire, Due, States, Schedule
  <2>2. timed'[i] => out'[i] /\ IF out[i] THEN timed[i] ELSE 0 > 0
    BY <2>1 DEF Note
  <2>3. CASE c = Group
    <3>1. PICK authorized \in BOOLEAN :
            channel' = [CtrlGroup(cmd, 0, authorized) EXCEPT ![c].sched = "none"]
      BY <1>5, <2>3 DEF Expire
    <3>. DEFINE chs == CtrlGroup(cmd, 0, authorized)
    <3>2. chs = Ctrl(c, cmd, 0, authorized)
      BY <2>3 DEF Ctrl
    <3>. HIDE DEF cmd
    <3>3. Minds(channel[i], chs[i], 0)
      BY <1>2, <2>1, <3>2, CtrlMinds
    <3>4. channel'[i] = chs[i]
      BY <1>1, <2>3, <3>1
    <3>. QED
      BY <1>2, <2>2, <3>3, <3>4, MindsSteps
  <2>4. CASE c = i
    <3>1. channel'[i] = CtrlItem([channel[i] EXCEPT !.sched = "none"], channel[i].sched, 0)
      BY <1>1, <1>5, <2>4 DEF Expire
    <3>2. out'[i] = channel'[i].out /\ out[i] = channel[i].out
      BY DEF out
    <3>3. channel[i].out /\ timed[i] /\ channel'[i].out
      BY <2>2, <3>2
    <3>4. Ends(channel[i]) => channel[i].frozen
      BY <1>1, <3>1, <3>3, ExpiredIsOff
    <3>. QED
      BY <2>1, <2>4, <3>3, <3>4 DEF Missed
  <2>5. CASE c \notin {Group, i}
    <3>1. channel'[i] = channel[i]
      BY <1>1, <1>5, <2>5 DEF Expire
    <3>. QED
      BY <1>2, <2>2, <3>1, SameMinds, MindsSteps
  <2>. QED
    BY <2>3, <2>4, <2>5
<1>6. CASE Tick
  <2>1. channel'[i] = [channel[i] EXCEPT !.due = IF @ > 0 THEN @ - 1 ELSE 0] /\ timed[i]
    BY <1>1, <1>6 DEF Tick
  <2>2. channel'[i].sched = channel[i].sched /\ channel'[i].cmd = channel[i].cmd
    BY <1>1, <2>1 DEF States
  <2>. QED
    BY <2>1, <2>2 DEF Ends
<1>7. CASE UNCHANGED vars
  BY <1>7 DEF vars
<1>. QED
  BY <1>2, <1>3, <1>4, <1>5, <1>6, <1>7, CommandsAssumption DEF Next

\* item.cpp:1546: whatever a timed command has turned on keeps a timer that turns it off, for any
\* number of channels and all commands, times and delays, unless its only timer is taken over,
\* runs out on a frozen channel, or finds that an ON has made an XON ordinary.
THEOREM TimedOnEndsHolds == Spec => TimedOnEnds
BY Invariance, TimedStep, PTL DEF Spec, TimedOnEnds

-----------------------------------------------------------------------------
\* HALT and RESTORE of the group.  Between them only time passes, or memo is gone.
\* A channel after HALT: was says whether it was on.
Halted(c, was) ==
  ~c.frozen /\ (was => c.cmd = "HALT") /\ (~was => ~c.out /\ c.cmd # "HALT")

MemoInv ==
  memo.kind = "halt" =>
    \/ channel[Group].frozen /\ out = memo.out
    \/ ~channel[Group].frozen /\ \A i \in Items : Halted(channel[i], memo.out[i])

LEMMA HaltHalts ==
  ASSUME NEW c \in States, c.out <=> Active(c), ~c.frozen, c.cmd # "HALT", NEW ms \in Times
  PROVE  Halted(CtrlItem(c, "HALT", ms), c.out)
<1>. DEFINE b == Opposed(c, "HALT", ms, {Active(c)})
<1>1. Toggled("HALT", Active(c)) = "HALT" /\ ~Refused(c, "HALT")
  BY DEF Toggled, Refused
<1>2. CASE ~c.out
  <2>1. CtrlItem(c, "HALT", ms) = c
    BY <1>1, <1>2 DEF CtrlItem, Ignored
  <2>. QED
    BY <1>2, <2>1 DEF Halted
<1>3. CASE c.out
  <2>1. CtrlItem(c, "HALT", ms) = Executed(b, "HALT")
    BY <1>1, <1>3 DEF CtrlItem, Ignored
  <2>2. DOMAIN b = DOMAIN c /\ b.frozen = c.frozen
    BY DEF Opposed, Armed, States
  <2>. HIDE DEF b
  <2>3. Executed(b, "HALT").cmd = "HALT" /\ ~Executed(b, "HALT").frozen
    BY <2>2 DEF Executed, Remembered, States
  <2>. QED
    BY <1>3, <2>1, <2>3 DEF Halted
<1>. QED
  BY <1>2, <1>3

LEMMA RestoreRestores ==
  ASSUME NEW c \in States, c.out <=> Active(c), NEW was, Halted(c, was)
  PROVE  CtrlItem(c, "RESTORE", 0).out <=> was
<1>1. Toggled("RESTORE", Active(c)) = "RESTORE" /\ ~Refused(c, "RESTORE")
  BY DEF Toggled, Refused, Halted
<1>2. Opposed(c, "RESTORE", 0, {Active(c)}) = c
  BY DEF Opposed
<1>3. CASE was
  <2>1. CtrlItem(c, "RESTORE", 0) = Executed(c, "RESTORE")
    BY <1>1, <1>2, <1>3 DEF CtrlItem, Ignored, Halted
  <2>. QED
    BY <1>3, <2>1 DEF Executed, TurnsOn, States
<1>4. CASE ~was
  <2>1. CtrlItem(c, "RESTORE", 0) = c
    BY <1>1, <1>4 DEF CtrlItem, Ignored, Halted
  <2>. QED
    BY <1>4, <2>1 DEF Halted
<1>. QED
  BY <1>3, <1>4

\* HALT and RESTORE to a group that is not frozen reach every member.
LEMMA GroupForwards ==
  ASSUME IInv, NEW cmd \in {"HALT", "RESTORE"}, NEW ms \in Times, NEW authorized \in BOOLEAN,
         NEW chs, chs = CtrlGroup(cmd, ms, authorized)
  PROVE  /\ channel[Group].frozen => chs = channel
         /\ ~channel[Group].frozen =>
              /\ ~chs[Group].frozen
              /\ \A i \in Items : chs[i] = CtrlItem(channel[i], cmd, ms)
<1>. DEFINE g     == channel[Group]
            armed == IF Forwarded(g, cmd) THEN Opposed(g, cmd, ms, {}) ELSE g
<1>1. g \in States /\ \A i \in Items : i # Group
  BY GroupAssumption DEF IInv, TypeOK, Channels
<1>2. CASE g.frozen
  BY <1>2 DEF CtrlGroup, Refused
<1>3. CASE ~g.frozen
  <2>1. Toggled(cmd, GroupActive) = cmd /\ Forwarded(g, cmd) /\ cmd \notin {"ENABLE", "DISABLE"}
    BY DEF Toggled, Forwarded
  <2>2. chs = [k \in Channels |->
                 IF k = Group THEN GroupStored(armed, cmd)
                 ELSE IF Forwarded(g, cmd) THEN CtrlItem(channel[k], cmd, ms)
                 ELSE channel[k]]
    BY <1>3, <2>1 DEF CtrlGroup, Refused
  <2>3. armed.frozen = g.frozen /\ DOMAIN armed = DOMAIN g
    BY <1>1 DEF Opposed, Armed, States
  <2>. HIDE DEF armed
  <2>4. GroupStored(armed, cmd).frozen = g.frozen
    BY <1>1, <2>3 DEF GroupStored, States
  <2>5. \A i \in Items : chs[i] = CtrlItem(channel[i], cmd, ms)
    BY <1>1, <2>1, <2>2 DEF Channels
  <2>6. chs[Group] = GroupStored(armed, cmd)
    BY <2>2 DEF Channels
  <2>. QED
    BY <1>3, <2>4, <2>5, <2>6
<1>. QED
  BY <1>2, <1>3

LEMMA MemoStep ==
  ASSUME IInv, MemoInv, [Next]_vars
  PROVE  MemoInv'
<1>1. /\ \A i \in Items : /\ channel[i] \in States /\ (channel[i].out <=> Active(channel[i]))
                          /\ i \in Channels
      /\ channel \in [Channels -> States] /\ Group \in Channels
      /\ memo \in [kind : {"none", "halt"}, out : [Items -> BOOLEAN]]
  BY DEF IInv, TypeOK, Remembers, Channels
<1>2. ASSUME NEW c \in Channels, NEW cmd, NEW ms \in Times, Command(c, cmd, ms)
      PROVE  MemoInv'
  <2>1. memo' = Memo(c, cmd)
    BY <1>2 DEF Command
  <2>2. CASE c = Group /\ cmd = "HALT"
             /\ \A i \in Items : channel[i].cmd # "HALT" /\ ~channel[i].frozen
    <3>1. PICK authorized \in BOOLEAN : channel' = CtrlGroup("HALT", ms, authorized)
      BY <1>2, <2>2 DEF Command, Ctrl
    <3>2. memo'.out = out
      BY <2>1, <2>2 DEF Memo
    <3>3. CASE channel[Group].frozen
      <4>1. channel' = channel
        BY <3>1, <3>3, GroupForwards
      <4>. QED
        BY <3>2, <3>3, <4>1 DEF MemoInv, out
    <3>4. CASE ~channel[Group].frozen
      <4>1. ~channel'[Group].frozen
        BY <3>1, <3>4, GroupForwards
      <4>2. \A i \in Items : channel'[i] = CtrlItem(channel[i], "HALT", ms)
        BY <3>1, <3>4, GroupForwards
      <4>3. \A i \in Items : Halted(channel'[i], channel[i].out)
        BY <1>1, <2>2, <4>2, HaltHalts
      <4>4. \A i \in Items : memo'.out[i] = channel[i].out
        BY <3>2 DEF out
      <4>. QED
        BY <4>1, <4>3, <4>4 DEF MemoInv
    <3>. QED
      BY <3>3, <3>4
  <2>3. CASE ~(c = Group /\ cmd = "HALT"
               /\ \A i \in Items : channel[i].cmd # "HALT" /\ ~channel[i].frozen)
    <3>1. memo'.kind = "none"
      BY <2>1, <2>3 DEF Memo
    <3>. QED
      BY <3>1 DEF MemoInv
  <2>. QED
    BY <2>2, <2>3
<1>3. ASSUME memo' = [memo EXCEPT !.kind = "none"]
      PROVE  MemoInv'
  <2>1. memo'.kind = "none"
    BY <1>1, <1>3
  <2>. QED
    BY <2>1 DEF MemoInv
<1>4. CASE Tick
  <2>1. \A c \in Channels : /\ channel'[c].cmd = channel[c].cmd /\ channel'[c].out = channel[c].out
                            /\ channel'[c].frozen = channel[c].frozen
    <3>1. \A c \in Channels :
            channel'[c] = [channel[c] EXCEPT !.due = IF @ > 0 THEN @ - 1 ELSE 0]
      BY <1>4 DEF Tick
    <3>2. ASSUME NEW c \in Channels
          PROVE  /\ channel'[c].cmd = channel[c].cmd /\ channel'[c].out = channel[c].out
                 /\ channel'[c].frozen = channel[c].frozen
      <4>1. channel[c] \in States /\ channel'[c] = [channel[c] EXCEPT !.due = IF @ > 0 THEN @ - 1 ELSE 0]
        BY <1>1, <3>1
      <4>. QED
        BY <4>1 DEF States
    <3>. QED
      BY <3>2
  <2>2. memo' = memo
    BY <1>4 DEF Tick
  <2>3. out' = out
    BY <1>1, <2>1 DEF out
  <2>. QED
    BY <1>1, <2>1, <2>2, <2>3 DEF MemoInv, Halted
<1>5. CASE UNCHANGED vars
  BY <1>5 DEF MemoInv, Halted, vars, out
<1>6. 0 \in Times /\ \A ms \in 1 .. MaxTime : ms \in Times
  BY TimeAssumption DEF Times
<1>7. ASSUME NEW c \in Channels, NEW cmd \in Commands, Command(c, cmd, 0)
      PROVE  MemoInv'
  BY <1>2, <1>6, <1>7
<1>8. ASSUME NEW c \in Channels, NEW cmd \in Timed, NEW ms \in 1 .. MaxTime, Command(c, cmd, ms)
      PROVE  MemoInv'
  BY <1>2, <1>6, <1>8
<1>9. ASSUME NEW c \in Channels, NEW cmd \in Delayed, NEW ms \in 0 .. MaxTime, Delay(c, cmd, ms)
      PROVE  MemoInv'
  BY <1>3, <1>9 DEF Delay
<1>10. ASSUME NEW c \in Channels, Expire(c)
       PROVE  MemoInv'
  BY <1>3, <1>10 DEF Expire
<1>. QED
  BY <1>4, <1>5, <1>7, <1>8, <1>9, <1>10 DEF Next

\* item.cpp:1443: RESTORE after HALT brings a group of any number of channels back to exactly
\* what it was.
THEOREM RestoreUndoesHaltHolds == Spec => RestoreUndoesHalt
<1>1. Init => MemoInv
  <2>. SUFFICES ASSUME Init PROVE memo.kind # "halt"
    BY DEF MemoInv
  <2>1. PICK on : memo = [kind |-> "none", out |-> on]
    BY Zenon DEF Init
  <2>. QED
    BY <2>1
<1>2. IInv /\ MemoInv /\ [Next]_vars => MemoInv'
  BY MemoStep
<1>3. ASSUME IInv, MemoInv, [Next]_vars
      PROVE  [RestoreStep]_vars
  <2>1. ASSUME memo.kind = "halt", Command(Group, "RESTORE", 0)
        PROVE  out' = memo.out
    <3>1. PICK authorized \in BOOLEAN : channel' = CtrlGroup("RESTORE", 0, authorized)
      BY <2>1 DEF Command, Ctrl
    <3>2. 0 \in Times /\ memo.out \in [Items -> BOOLEAN]
      BY <1>3, TimeAssumption DEF Times, IInv, TypeOK
    <3>3. CASE channel[Group].frozen
      <4>1. channel' = channel /\ out = memo.out
        BY <1>3, <2>1, <3>1, <3>2, <3>3, GroupForwards DEF MemoInv
      <4>. QED
        BY <4>1 DEF out
    <3>4. CASE ~channel[Group].frozen
      <4>1. \A i \in Items : channel'[i] = CtrlItem(channel[i], "RESTORE", 0)
        BY <1>3, <3>1, <3>2, <3>4, GroupForwards
      <4>2. \A i \in Items : channel[i] \in States /\ (channel[i].out <=> Active(channel[i]))
        BY <1>3 DEF IInv, TypeOK, Remembers, Channels
      <4>3. \A i \in Items : channel'[i].out <=> memo.out[i]
        BY <1>3, <2>1, <3>4, <4>1, <4>2, RestoreRestores DEF MemoInv
      <4>4. channel' \in [Channels -> States]
        BY <1>3, StepPreserves DEF IInv, TypeOK
      <4>5. \A i \in Items : channel'[i].out \in BOOLEAN
        BY <4>4 DEF Channels, States
      <4>6. \A i \in Items : channel'[i].out = memo.out[i]
        BY <3>2, <4>3, <4>5
      <4>. QED
        BY <3>2, <4>6 DEF out
    <3>. QED
      BY <3>3, <3>4
  <2>. QED
    BY <2>1 DEF RestoreStep
<1>. QED
  BY <1>1, <1>2, <1>3, Invariance, PTL DEF Spec, RestoreUndoesHalt
=============================================================================
