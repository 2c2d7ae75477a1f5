------------------------------ MODULE DriverProofs ------------------------------
(***************************************************************************)
(* Proofs about drivers: Pid, Relay, ModbusDimmer, Vacom, Thermo, Sprinkler,  *)
(* CanBus, AirCond and Mercury, one after the other.  Each is an instance of   *)
(* its module with its constants and variables declared here, so that every    *)
(* theorem is about all values of the constants that its assumption allows.   *)
(***************************************************************************)
EXTENDS Integers, Sequences, TLAPS

---------------------------------------------------------------------------------
\* Pid, for any outputs, any output in alarm and any timeout.
CONSTANTS Outs, AlarmVal, TIMEOUT
VARIABLES pid, outlet
Pid == INSTANCE Pid

LEMMA PidStep ==
  ASSUME AlarmVal \in Int, Pid!OutAttended, [Pid!Next]_Pid!pidVars
  PROVE  Pid!OutAttended'
<1>. USE DEF Pid!OutAttended, Pid!AlarmIsOut, Pid!OffIsOff
<1>1. CASE Pid!Setup
  BY <1>1 DEF Pid!Setup, Pid!SetUp, Pid!alarm, Pid!Given
<1>2. CASE Pid!Measure
  BY <1>2 DEF Pid!Measure
<1>3. ASSUME NEW c \in {"ON", "XON"}, Pid!TurnOn(c)
      PROVE  Pid!OutAttended'
  BY <1>3 DEF Pid!TurnOn, Pid!Commanded
<1>4. CASE Pid!TurnedOn
  BY <1>4 DEF Pid!TurnedOn
<1>5. ASSUME NEW c \in {"OFF", "HALT"}, Pid!TurnOff(c)
      PROVE  Pid!OutAttended'
  BY <1>5 DEF Pid!TurnOff, Pid!Commanded
<1>6. CASE Pid!Enable
  BY <1>6 DEF Pid!Enable, Pid!Commanded
<1>7. CASE Pid!Disable
  BY <1>7 DEF Pid!Disable, Pid!Commanded, Pid!isActive
<1>8. CASE Pid!PollIdle
  BY <1>8 DEF Pid!PollIdle, Pid!Poll, Pid!Works, Pid!isActive, Pid!Expired, Pid!alarm, Pid!Given
<1>9. ASSUME NEW o \in Outs, Pid!Poll(Pid!Compute(o))
      PROVE  Pid!OutAttended'
  <2>1. CASE pid.armed
    BY <2>1, <1>9 DEF Pid!Poll, Pid!Works, Pid!isActive, Pid!Compute, Pid!Sends, Pid!Expired
  <2>2. CASE ~pid.armed
    BY <2>2, <1>9 DEF Pid!Poll, Pid!Works, Pid!isActive, Pid!Compute, Pid!Expired, Pid!alarm,
       Pid!Given
  <2>. QED
    BY <2>1, <2>2
<1>10. CASE Pid!Age
  BY <1>10 DEF Pid!Age
<1>11. CASE UNCHANGED Pid!pidVars
  BY <1>11 DEF Pid!pidVars
<1>. QED
  BY <1>1, <1>2, <1>3, <1>4, <1>5, <1>6, <1>7, <1>8, <1>9, <1>10, <1>11
     DEF Pid!Next, Pid!Outside, Pid!Ctrl, Pid!PollDone

\* The output of a PID without measurements is the one configured for an alarm, whatever is
\* computed and commanded meanwhile, and a PID that is off has its output off
\* (out_pid.cpp:174, out_pid.h:85).
THEOREM OutAttendedHolds ==
  ASSUME AlarmVal \in Int
  PROVE  Pid!Spec => []Pid!OutAttended
<1>1. Pid!Init => Pid!OutAttended
  BY DEF Pid!Init, Pid!SetUp, Pid!alarm, Pid!Given, Pid!OutAttended, Pid!AlarmIsOut, Pid!OffIsOff
<1>2. Pid!OutAttended /\ [Pid!Next]_Pid!pidVars => Pid!OutAttended'
  BY PidStep
<1>. QED
  BY <1>1, <1>2, PTL DEF Pid!Spec

---------------------------------------------------------------------------------
\* Relay, for any shares and any period.
CONSTANTS Shares, PERIOD
VARIABLES relayx, since, contact
Slow == INSTANCE Relay

\* The two halves of TypeOK: the pin is for the provers of sets, the times for those of numbers.
PinOK == contact \in BOOLEAN
StoreOK ==
  /\ relayx \in [cmd : Slow!Modes \cup {"XON", "OFF", "HALT"}, val : Shares]
  /\ since \in -1 .. PERIOD

LEMMA Halves == Slow!TypeOK <=> StoreOK /\ PinOK
BY DEF Slow!TypeOK, StoreOK, PinOK

LEMMA StoreKept ==
  ASSUME PERIOD \in Nat, StoreOK, [Slow!Next]_Slow!slowVars
  PROVE  StoreOK'
<1>. USE DEF StoreOK, Slow!Modes, Slow!None
<1>1. CASE Slow!Setup
  BY <1>1 DEF Slow!Setup, Slow!Starts
<1>2. CASE Slow!On
  BY <1>2 DEF Slow!On, Slow!Start
<1>3. CASE Slow!TurnedOn
  BY <1>3 DEF Slow!TurnedOn, Slow!Stay
<1>4. CASE Slow!Off
  BY <1>4 DEF Slow!Off, Slow!TurnOff
<1>5. ASSUME NEW v \in Shares, Slow!Set(v)
      PROVE  StoreOK'
  BY <1>5 DEF Slow!Set, Slow!Start, Slow!TurnOff, Slow!Stay
<1>6. ASSUME NEW v \in Shares, Slow!Bump(v)
      PROVE  StoreOK'
  BY <1>6 DEF Slow!Bump, Slow!Start, Slow!TurnOff
<1>7. ASSUME NEW v \in Shares, Slow!Value(v)
      PROVE  StoreOK'
  BY <1>7 DEF Slow!Value, Slow!Bump, Slow!Start, Slow!TurnOff
<1>8. CASE Slow!Poll
  BY <1>8 DEF Slow!Poll, Slow!Again, Slow!Opens, Slow!Closes
<1>9. CASE Slow!Tick
  BY <1>9 DEF Slow!Tick
<1>10. CASE UNCHANGED Slow!slowVars
  BY <1>10 DEF Slow!slowVars
<1>. QED
  BY <1>1, <1>2, <1>3, <1>4, <1>5, <1>6, <1>7, <1>8, <1>9, <1>10 DEF Slow!Next, Slow!Ctrl

LEMMA PinKept ==
  ASSUME PinOK, [Slow!Next]_Slow!slowVars
  PROVE  PinOK'
BY DEF PinOK, Slow!Next, Slow!Setup, Slow!Ctrl, Slow!On, Slow!TurnedOn, Slow!Off, Slow!Set,
   Slow!Value, Slow!Bump, Slow!Start, Slow!TurnOff, Slow!Stay,
       Slow!Poll, Slow!Again, Slow!Opens, Slow!Closes, Slow!Tick, Slow!slowVars

LEMMA TimedKept ==
  ASSUME PERIOD \in Nat, StoreOK, Slow!Timed, [Slow!Next]_Slow!slowVars
  PROVE  Slow!Timed'
<1>. USE DEF StoreOK, Slow!Timed, Slow!None
<1>1. CASE Slow!Setup
  BY <1>1 DEF Slow!Setup
<1>2. CASE Slow!Ctrl
  BY <1>2 DEF Slow!Ctrl, Slow!On, Slow!TurnedOn, Slow!Off, Slow!Set, Slow!Value, Slow!Bump,
     Slow!Start, Slow!TurnOff, Slow!Stay
<1>3. CASE Slow!Again
  BY <1>3 DEF Slow!Again
<1>4. CASE Slow!Opens
  BY <1>4 DEF Slow!Opens
<1>5. CASE Slow!Closes
  BY <1>5 DEF Slow!Closes
<1>6. CASE Slow!Tick
  BY <1>6 DEF Slow!Tick
<1>7. CASE UNCHANGED Slow!slowVars
  BY <1>7 DEF Slow!slowVars
<1>. QED
  BY <1>1, <1>2, <1>3, <1>4, <1>5, <1>6, <1>7 DEF Slow!Next, Slow!Poll

\* What out_relay and its channel store has its type, and Poll attends to a relay that is
\* closed: there is the start of a period (out_relay.cpp:84).
THEOREM TimedHolds ==
  ASSUME PERIOD \in Nat
  PROVE  Slow!Spec => [](Slow!TypeOK /\ Slow!Timed)
<1>1. Slow!Init => StoreOK /\ PinOK /\ Slow!Timed
  <2>. SUFFICES ASSUME Slow!Init
                PROVE  StoreOK /\ PinOK /\ Slow!Timed
    OBVIOUS
  <2>1. StoreOK
    BY DEF Slow!Init, StoreOK, Slow!Starts, Slow!None
  <2>2. PinOK /\ Slow!Timed
    BY DEF Slow!Init, PinOK, Slow!Timed
  <2>. QED
    BY <2>1, <2>2
<1>2. StoreOK /\ PinOK /\ Slow!Timed /\ [Slow!Next]_Slow!slowVars => (StoreOK /\ PinOK /\ Slow!Timed)'
  BY StoreKept, PinKept, TimedKept
<1>3. StoreOK /\ PinOK /\ Slow!Timed => Slow!TypeOK /\ Slow!Timed
  BY Halves
<1>. QED
  BY <1>1, <1>2, <1>3, PTL DEF Slow!Spec

-----------------------------------------------------------------------------
\* A value that is set, for a channel that is active or not: what isActive does not say of a
\* command whose value is 0 is in Awaits, except for FAN and XON.
LEMMA SetRuns ==
  ASSUME Shares \subseteq Nat, StoreOK, NEW v \in Shares, Slow!Set(v)
  PROVE  Slow!RunStep
<1>. USE DEF StoreOK, Slow!RunStep, Slow!Runs, Slow!isActive, Slow!Missed, Slow!Modes, Slow!None
<1>1. CASE Slow!isActive(relayx)
  BY <1>1 DEF Slow!Set, Slow!Start, Slow!TurnOff
<1>2. CASE ~Slow!isActive(relayx)
  BY <1>2 DEF Slow!Set, Slow!Start, Slow!Stay, Slow!Awaits
<1>. QED
  BY <1>1, <1>2

LEMMA StepRuns ==
  ASSUME Shares \subseteq Nat, StoreOK, Slow!Next
  PROVE  Slow!RunStep
<1>. USE DEF StoreOK, Slow!RunStep, Slow!Runs, Slow!isActive, Slow!Modes, Slow!None
<1>1. CASE Slow!Setup
  BY <1>1 DEF Slow!Setup, Slow!Starts
<1>2. CASE Slow!On
  BY <1>2 DEF Slow!On, Slow!Start
<1>3. CASE Slow!TurnedOn
  BY <1>3 DEF Slow!TurnedOn, Slow!Stay
<1>4. CASE Slow!Off
  BY <1>4 DEF Slow!Off, Slow!TurnOff
<1>5. ASSUME NEW v \in Shares, Slow!Set(v)
      PROVE  Slow!RunStep
  BY <1>5, SetRuns
<1>6. ASSUME NEW v \in Shares, Slow!Bump(v)
      PROVE  Slow!RunStep
  BY <1>6 DEF Slow!Bump, Slow!Start, Slow!TurnOff
<1>7. ASSUME NEW v \in Shares, Slow!Value(v)
      PROVE  Slow!RunStep
  BY <1>7 DEF Slow!Value, Slow!Bump, Slow!Start, Slow!TurnOff
<1>8. CASE Slow!Poll
  BY <1>8 DEF Slow!Poll, Slow!Again, Slow!Opens, Slow!Closes, Slow!Over
<1>9. CASE Slow!Tick
  BY <1>9 DEF Slow!Tick
<1>. QED
  BY <1>1, <1>2, <1>3, <1>4, <1>5, <1>6, <1>7, <1>8, <1>9 DEF Slow!Next, Slow!Ctrl

\* Whatever made a channel active, with a value: it has its periods, but for the one case that
\* the code misses (out_relay.cpp:139).
THEOREM RunsHold ==
  ASSUME PERIOD \in Nat, Shares \subseteq Nat
  PROVE  Slow!Spec => [][Slow!RunStep]_Slow!slowVars
<1>1. StoreOK /\ PinOK /\ [Slow!Next]_Slow!slowVars => [Slow!RunStep]_Slow!slowVars
  BY StepRuns
<1>2. Slow!TypeOK /\ [Slow!Next]_Slow!slowVars => [Slow!RunStep]_Slow!slowVars
  BY <1>1, Halves
<1>. QED
  BY <1>2, TimedHolds, PTL DEF Slow!Spec

---------------------------------------------------------------------------------
\* ModbusDimmer, for any number of dimmers in a register, any scale, levels and hands.
CONSTANTS DIMMERS, SCALE, Levels, Hands
VARIABLES dimmer, lamp, taken, wanted
Lamps == INSTANCE ModbusDimmer WITH MAXVAL <- SCALE

\* Of the types WriteRepeated needs only that every channel has the flag.
Flagged(c) == "retry" \in DOMAIN c
Shape ==
  /\ DOMAIN dimmer = Lamps!Dimmers /\ \A d \in Lamps!Dimmers : Flagged(dimmer[d])
  /\ DOMAIN lamp = Lamps!Dimmers
  /\ DOMAIN wanted = Lamps!Dimmers
Kept == Shape /\ Lamps!WriteRepeated

\* What is written is on its way to the lamp, or is to be repeated.
LEMMA SetKeeps ==
  ASSUME Kept, NEW d \in Lamps!Dimmers, NEW to, Flagged(to), NEW reg, Lamps!Set(d, to, reg)
  PROVE  Kept'
<1>. USE DEF Kept, Shape, Lamps!WriteRepeated
<1>1. /\ DOMAIN wanted' = Lamps!Dimmers
      /\ \A e \in Lamps!Dimmers : wanted'[e] = IF e = d THEN reg ELSE wanted[e]
  BY DEF Lamps!Set
<1>2. CASE /\ dimmer' = [dimmer EXCEPT ![d] = to]
           /\ lamp' = [lamp EXCEPT ![d] = reg]
  BY <1>1, <1>2
<1>3. CASE /\ dimmer' = [dimmer EXCEPT ![d] = [to EXCEPT !.retry = TRUE]]
           /\ UNCHANGED lamp
  <2>1. Flagged([to EXCEPT !.retry = TRUE]) /\ [to EXCEPT !.retry = TRUE].retry
    BY DEF Flagged
  <2>. QED
    BY <1>1, <1>3, <2>1
<1>. QED
  BY <1>2, <1>3 DEF Lamps!Set

\* A step that stores something, and leaves what is to be repeated.
LEMMA StoreKeeps ==
  ASSUME Kept, UNCHANGED <<lamp, wanted>>, DOMAIN dimmer' = Lamps!Dimmers,
         \A d \in Lamps!Dimmers : Flagged(dimmer'[d]) /\ (dimmer[d].retry => dimmer'[d].retry)
  PROVE  Kept'
BY DEF Kept, Shape, Lamps!WriteRepeated

LEMMA SetValueKeeps ==
  ASSUME Kept, NEW d \in Lamps!Dimmers, NEW v, Lamps!SetValue(d, v)
  PROVE  Kept'
<1>. DEFINE to == [dimmer[d] EXCEPT !.val = v]
<1>1. Flagged(to) /\ to.retry = dimmer[d].retry
  BY DEF Kept, Shape, Flagged
<1>2. CASE Lamps!isActive(d)
  <2>. DEFINE reg == Lamps!ToRegister("ON", v)
  <2>1. Lamps!Set(d, to, reg)
    BY <1>2 DEF Lamps!SetValue
  <2>. HIDE DEF to, reg
  <2>. QED
    BY <1>1, <2>1, SetKeeps
<1>3. CASE ~Lamps!isActive(d)
  <2>1. dimmer' = [dimmer EXCEPT ![d] = to] /\ UNCHANGED <<lamp, wanted>>
    BY <1>3 DEF Lamps!SetValue
  <2>2. /\ DOMAIN dimmer' = Lamps!Dimmers
        /\ \A e \in Lamps!Dimmers : dimmer'[e] = IF e = d THEN to ELSE dimmer[e]
    BY <2>1 DEF Kept, Shape
  <2>3. \A e \in Lamps!Dimmers : Flagged(dimmer'[e]) /\ (dimmer[e].retry => dimmer'[e].retry)
    BY <1>1, <2>2 DEF Kept, Shape
  <2>. QED
    BY <2>1, <2>2, <2>3, StoreKeeps
<1>. QED
  BY <1>2, <1>3

LEMMA TurnedOnKeeps ==
  ASSUME Kept, NEW d \in Lamps!Dimmers, Lamps!TurnedOn(d)
  PROVE  Kept'
<1>. DEFINE to == [dimmer[d] EXCEPT !.cmd = "ON"]
<1>1. Flagged(to) /\ to.retry = dimmer[d].retry
  BY DEF Kept, Shape, Flagged
<1>2. dimmer' = [dimmer EXCEPT ![d] = to] /\ UNCHANGED <<lamp, wanted>>
  BY DEF Lamps!TurnedOn
<1>3. /\ DOMAIN dimmer' = Lamps!Dimmers
      /\ \A e \in Lamps!Dimmers : dimmer'[e] = IF e = d THEN to ELSE dimmer[e]
  BY <1>2 DEF Kept, Shape
<1>4. \A e \in Lamps!Dimmers : Flagged(dimmer'[e]) /\ (dimmer[e].retry => dimmer'[e].retry)
  BY <1>1, <1>3 DEF Kept, Shape
<1>. QED
  BY <1>2, <1>3, <1>4, StoreKeeps

LEMMA SetLevelKeeps ==
  ASSUME Kept, NEW d \in Lamps!Dimmers, NEW v, Lamps!SetLevel(d, v)
  PROVE  Kept'
<1>. DEFINE c == dimmer[d]
<1>1. Flagged(c)
  BY DEF Kept, Shape
<1>2. /\ Flagged([c EXCEPT !.cmd = "OFF", !.val = 0])
      /\ Flagged([c EXCEPT !.val = 0])
      /\ Flagged([c EXCEPT !.cmd = "ON", !.val = v])
  BY <1>1 DEF Flagged
<1>. DEFINE off == [c EXCEPT !.cmd = "OFF", !.val = 0]
             none == [c EXCEPT !.val = 0]
             on == [c EXCEPT !.cmd = "ON", !.val = v]
             reg == Lamps!Started(v)
<1>3. Lamps!Set(d, off, 0) \/ Lamps!SetValue(d, v) \/ Lamps!Set(d, none, 0) \/ Lamps!Set(d, on, reg)
  BY DEF Lamps!SetLevel, Lamps!TurnOffAt
<1>. HIDE DEF off, none, on, reg
<1>4. Flagged(off) /\ Flagged(none) /\ Flagged(on)
  BY <1>2 DEF off, none, on
<1>. QED
  BY <1>3, <1>4, SetKeeps, SetValueKeeps

LEMMA CtrlKeeps ==
  ASSUME Kept, NEW d \in Lamps!Dimmers, Lamps!Ctrl(d)
  PROVE  Kept'
<1>. DEFINE c == dimmer[d]
<1>1. Flagged(c)
  BY DEF Kept, Shape
<1>2. ASSUME NEW cmd \in {"ON", "XON"}, Lamps!TurnOn(d, cmd)
      PROVE  Kept'
  <2>. DEFINE to == [c EXCEPT !.cmd = cmd]
              reg == Lamps!Started(c.val)
  <2>1. Lamps!Set(d, to, reg) /\ Flagged(to)
    BY <1>1, <1>2 DEF Lamps!TurnOn, Flagged
  <2>. HIDE DEF to, reg
  <2>. QED
    BY <2>1, SetKeeps
<1>3. ASSUME NEW cmd \in {"OFF", "HALT", "XOFF"}, Lamps!TurnOff(d, cmd)
      PROVE  Kept'
  <2>. DEFINE to == [c EXCEPT !.cmd = IF cmd = "XOFF" THEN "OFF" ELSE cmd]
  <2>1. Lamps!Set(d, to, 0) /\ Flagged(to)
    BY <1>1, <1>3 DEF Lamps!TurnOff, Flagged
  <2>. HIDE DEF to
  <2>. QED
    BY <2>1, SetKeeps
<1>4. CASE Lamps!Restore(d)
  <2>. DEFINE to == [c EXCEPT !.cmd = "ON"]
              reg == Lamps!Started(c.val)
  <2>1. Lamps!Set(d, to, reg) /\ Flagged(to)
    BY <1>1, <1>4 DEF Lamps!Restore, Flagged
  <2>. HIDE DEF to, reg
  <2>. QED
    BY <2>1, SetKeeps
<1>. QED
  BY <1>2, <1>3, <1>4, TurnedOnKeeps, SetValueKeeps, SetLevelKeeps DEF Lamps!Ctrl

\* What is repeated is in the register when the flag goes.
LEMMA RetryKeeps ==
  ASSUME Kept, NEW d \in Lamps!Dimmers, Lamps!Retry(d)
  PROVE  Kept'
<1>. DEFINE reg == Lamps!ToRegister(dimmer[d].cmd, dimmer[d].val)
<1>. HIDE DEF reg
<1>1. /\ lamp' = [lamp EXCEPT ![d] = reg] /\ wanted' = [wanted EXCEPT ![d] = reg]
      /\ dimmer' = [dimmer EXCEPT ![d].retry = FALSE]
  BY DEF Lamps!Retry, reg
<1>2. Flagged([dimmer[d] EXCEPT !.retry = FALSE])
  BY DEF Kept, Shape, Flagged
<1>3. dimmer' = [dimmer EXCEPT ![d] = [dimmer[d] EXCEPT !.retry = FALSE]]
  BY <1>1
<1>. QED
  BY <1>1, <1>2, <1>3 DEF Kept, Shape, Lamps!WriteRepeated

\* What is read back changes nothing that is still to be repeated.
LEMMA ReadKeeps ==
  ASSUME NEW c, Flagged(c), NEW data
  PROVE  Flagged(Lamps!Read(c, data)) /\ Lamps!Read(c, data).retry = c.retry
<1>. DEFINE v == Lamps!map(data, SCALE, 255)
            off == [c EXCEPT !.cmd = IF @ = "HALT" THEN @ ELSE "OFF"]
            on == [c EXCEPT !.cmd = IF @ = "XON" THEN @ ELSE "ON", !.val = v]
<1>1. Flagged(off) /\ off.retry = c.retry
  BY DEF Flagged
<1>2. Flagged(on) /\ on.retry = c.retry
  BY DEF Flagged
<1>. DEFINE kept == c.retry \/ ~Lamps!Differs(c, v)
<1>3. Lamps!Read(c, data) = IF kept THEN c ELSE IF v = 0 THEN off ELSE on
  BY DEF Lamps!Read
<1>. HIDE DEF v, off, on, kept
<1>. QED
  BY <1>1, <1>2, <1>3

LEMMA PollKeeps ==
  ASSUME Kept, Lamps!Poll
  PROVE  Kept'
<1>1. DOMAIN dimmer' = Lamps!Dimmers /\ \A d \in Lamps!Dimmers : dimmer'[d] = Lamps!Read(dimmer[d], lamp[d])
  BY DEF Lamps!Poll
<1>2. \A d \in Lamps!Dimmers : Flagged(dimmer'[d]) /\ dimmer'[d].retry = dimmer[d].retry
  BY <1>1, ReadKeeps DEF Kept, Shape
<1>. QED
  BY <1>1, <1>2, StoreKeeps DEF Lamps!Poll

\* A dimmer that is turned by hand owes nothing.
LEMMA TurnKeeps ==
  ASSUME Kept, NEW d \in Lamps!Dimmers, Lamps!Turn(d)
  PROVE  Kept'
BY DEF Kept, Shape, Lamps!WriteRepeated, Lamps!Turn

LEMMA LampInit == Lamps!Init => Kept
BY DEF Lamps!Init, Kept, Shape, Lamps!WriteRepeated, Flagged

LEMMA LampStep ==
  ASSUME Kept, [Lamps!Next]_Lamps!vars
  PROVE  Kept'
<1>1. CASE UNCHANGED Lamps!vars
  BY <1>1 DEF Kept, Shape, Lamps!WriteRepeated, Lamps!vars
<1>2. CASE Lamps!Take \/ Lamps!Release
  BY <1>2 DEF Kept, Shape, Lamps!WriteRepeated, Lamps!Take, Lamps!Release
<1>. QED
  BY <1>1, <1>2, CtrlKeeps, RetryKeeps, PollKeeps, TurnKeeps DEF Lamps!Next, Lamps!Outside

\* item.cpp:2215: a command that the lamp does not show is to be repeated, however many
\* dimmers, commands, readings, hands and refused transactions there are.
THEOREM WriteRepeatedHolds == Lamps!Spec => []Lamps!WriteRepeated
<1>1. Kept => Lamps!WriteRepeated
  BY DEF Kept
<1>. QED
  BY LampInit, LampStep, <1>1, PTL DEF Lamps!Spec

---------------------------------------------------------------------------------
\* Vacom, for any speeds and any failures of its writes.
CONSTANTS Speeds, Half, NoAnswers
VARIABLES fan, heater, vfd, gate, lineTaken, alarm
Vacom == INSTANCE Vacom

Drive == [run : BOOLEAN, speed : Speeds \cup {0}, heat : Speeds \cup {0}, fault : BOOLEAN, hot : BOOLEAN]

\* A channel and a value of the drive: what differs is to be repeated.
Told(c, speed) == c \in Vacom!Channel /\ (speed # Vacom!Wanted(c) => c.retry)

\* The writes of VacomSetFan.
LEMMA DrivenIs ==
  ASSUME vfd \in Drive, NEW c \in Vacom!Channel, NEW first \in BOOLEAN, NEW second \in BOOLEAN
  PROVE  /\ Vacom!Driven(c, first, second).dr \in Drive
         /\ Told(Vacom!Driven(c, first, second).ch, Vacom!Driven(c, first, second).dr.speed)
         /\ Vacom!Driven(c, first, second).dr.heat = vfd.heat
         /\ Vacom!Driven(c, first, second).dr.hot = vfd.hot
         /\ Vacom!Active(Vacom!Driven(c, first, second).ch) = Vacom!Active(c)
<1>1. Vacom!Wanted(c) \in Speeds \cup {0}
  BY DEF Vacom!Wanted, Vacom!Channel
<1>2. (Vacom!Wanted(c) > 0) \in BOOLEAN
  OBVIOUS
<1>. DEFINE d == [vfd EXCEPT !.run = IF first THEN Vacom!Wanted(c) > 0 ELSE @,
                             !.speed = IF second THEN Vacom!Wanted(c) ELSE @]
            r == [c EXCEPT !.retry = TRUE]
<1>3. /\ d \in Drive /\ d.speed = (IF second THEN Vacom!Wanted(c) ELSE vfd.speed)
      /\ d.heat = vfd.heat /\ d.hot = vfd.hot
  BY <1>1, <1>2 DEF Drive
<1>4. r \in Vacom!Channel /\ r.retry /\ Vacom!Active(r) = Vacom!Active(c)
  BY DEF Vacom!Channel, Vacom!Active
<1>5. Vacom!Driven(c, first, second) = [ch |-> IF second THEN c ELSE r, dr |-> d]
  BY DEF Vacom!Driven
<1>. HIDE DEF d, r
<1>. QED
  BY <1>3, <1>4, <1>5 DEF Told

\* An inactive channel wants nothing, whatever its value.
LEMMA InactiveWants == \A c : ~Vacom!Active(c) => Vacom!Wanted(c) = 0
BY DEF Vacom!Wanted

\* The invariant, as what is known of the fan, of the heater and of the alarm.
DriveParts ==
  /\ vfd \in Drive /\ Told(fan, vfd.speed) /\ Told(heater, vfd.heat)
  /\ gate \in BOOLEAN /\ lineTaken \in BOOLEAN /\ alarm \in BOOLEAN
  /\ alarm => ~Vacom!Active(fan)

LEMMA VacomParts ==
  ASSUME Speeds \subseteq Nat
  PROVE  DriveParts => Vacom!TypeOK /\ Vacom!SpeedsRepeated /\ Vacom!ShutDown
<1>. SUFFICES ASSUME DriveParts PROVE Vacom!TypeOK /\ Vacom!SpeedsRepeated /\ Vacom!ShutDown
  OBVIOUS
<1>1. Vacom!TypeOK /\ Vacom!SpeedsRepeated
  BY DEF DriveParts, Vacom!TypeOK, Vacom!SpeedsRepeated, Told, Drive
<1>2. alarm => ~Vacom!Active(fan) /\ (vfd.speed # 0 => fan.retry)
  BY InactiveWants DEF DriveParts, Told
<1>. QED
  BY <1>1, <1>2 DEF DriveParts, Vacom!ShutDown, Drive

LEMMA VacomSetFanTold ==
  ASSUME vfd \in Drive, NEW c \in Vacom!Channel, Vacom!VacomSetFan(c), Told(heater, vfd.heat)
  PROVE  /\ vfd' \in Drive /\ Told(fan, vfd.speed)' /\ Told(heater, vfd.heat)'
         /\ Vacom!Active(fan') = Vacom!Active(c)
<1>1. CASE lineTaken
  <2>1. [c EXCEPT !.retry = TRUE] \in Vacom!Channel
    BY DEF Vacom!Channel
  <2>. QED
    BY <1>1, <2>1 DEF Vacom!VacomSetFan, Told, Vacom!Active, Vacom!Channel, Drive, Vacom!Wanted
<1>2. CASE ~lineTaken
  <2>1. PICK a \in BOOLEAN \X BOOLEAN :
          fan' = Vacom!Driven(c, a[1], a[2]).ch /\ vfd' = Vacom!Driven(c, a[1], a[2]).dr
    BY <1>2 DEF Vacom!VacomSetFan, Vacom!Answers
  <2>2. a[1] \in BOOLEAN /\ a[2] \in BOOLEAN
    OBVIOUS
  <2>3. Told(Vacom!Driven(c, a[1], a[2]).ch, Vacom!Driven(c, a[1], a[2]).dr.speed)
    BY <2>2, DrivenIs
  <2>4. Told(fan', vfd'.speed)
    BY <2>1, <2>3
  <2>5. vfd' \in Drive /\ vfd'.heat = vfd.heat /\ Vacom!Active(fan') = Vacom!Active(c)
    BY <2>1, <2>2, DrivenIs
  <2>6. heater' = heater
    BY DEF Vacom!VacomSetFan
  <2>. QED
    BY <2>4, <2>5, <2>6 DEF Told, Vacom!Wanted, Vacom!Active
<1>. QED
  BY <1>1, <1>2

LEMMA VacomSetHeatTold ==
  ASSUME vfd \in Drive, NEW c \in Vacom!Channel, Vacom!VacomSetHeat(c), Told(fan, vfd.speed)
  PROVE  vfd' \in Drive /\ Told(fan, vfd.speed)' /\ Told(heater, vfd.heat)'
<1>1. [c EXCEPT !.retry = TRUE] \in Vacom!Channel /\ Vacom!Wanted(c) \in Speeds \cup {0}
  BY DEF Vacom!Channel, Vacom!Wanted
<1>2. CASE vfd' = [vfd EXCEPT !.heat = Vacom!Wanted(c)] /\ heater' = c
  BY <1>1, <1>2 DEF Vacom!VacomSetHeat, Told, Vacom!Active, Vacom!Wanted, Vacom!Channel, Drive
<1>3. CASE heater' = [c EXCEPT !.retry = TRUE] /\ UNCHANGED vfd
  BY <1>1, <1>3 DEF Vacom!VacomSetHeat, Told, Vacom!Active, Vacom!Wanted, Vacom!Channel, Drive
<1>. QED
  BY <1>2, <1>3 DEF Vacom!VacomSetHeat

LEMMA CommandsChannel ==
  ASSUME NEW c \in Vacom!Channel
  PROVE  Vacom!Commands(c) \subseteq Vacom!Channel
BY DEF Vacom!Commands, Vacom!Channel

LEMMA StoredTold ==
  ASSUME NEW c, NEW speed, Told(c, speed), NEW d \in Vacom!Stored(c)
  PROVE  Told(d, speed) /\ Vacom!Active(d) = Vacom!Active(c)
BY DEF Vacom!Stored, Told, Vacom!Channel, Vacom!Active, Vacom!Wanted

LEMMA OffTold ==
  ASSUME NEW c \in Vacom!Channel
  PROVE  Vacom!TurnedOff(c) \in Vacom!Channel /\ ~Vacom!Active(Vacom!TurnedOff(c))
BY DEF Vacom!TurnedOff, Vacom!Channel, Vacom!Active

LEMMA OverheatTold ==
  ASSUME NEW c, NEW speed, Told(c, speed)
  PROVE  Told(Vacom!Overheat(c), speed) /\ ~Vacom!Active(Vacom!Overheat(c))
<1>1. CASE c.cmd = "HALT"
  BY <1>1 DEF Vacom!Overheat, Vacom!Active, Told
<1>2. CASE c.cmd # "HALT"
  BY <1>2 DEF Vacom!Overheat, Vacom!TurnedOff, Vacom!Active, Told, Vacom!Channel
<1>. QED
  BY <1>1, <1>2

LEMMA CheckFMTold ==
  ASSUME DriveParts, NEW read, NEW bit \in BOOLEAN, NEW pi \in BOOLEAN, NEW a \in BOOLEAN \X BOOLEAN,
         read \in BOOLEAN, Vacom!CheckFM(read, bit, pi, a)
  PROVE  /\ vfd' \in Drive /\ Told(fan, vfd.speed)' /\ Told(heater, vfd.heat)'
         /\ gate' \in BOOLEAN /\ alarm' \in BOOLEAN
         /\ alarm' => ~Vacom!Active(fan')
<1>. DEFINE off  == bit /\ Vacom!Active(fan)
            then == IF off THEN Vacom!Driven(Vacom!TurnedOff(fan), a[1], a[2]) ELSE [ch |-> fan, dr |-> vfd]
            hot  == pi /\ vfd.hot /\ vfd.heat > 0
<1>1. /\ vfd \in Drive /\ Told(fan, vfd.speed) /\ Told(heater, vfd.heat)
      /\ gate \in BOOLEAN /\ alarm \in BOOLEAN
      /\ alarm => ~Vacom!Active(fan)
  BY DEF DriveParts
<1>2. a[1] \in BOOLEAN /\ a[2] \in BOOLEAN
  OBVIOUS
<1>3. Vacom!TurnedOff(fan) \in Vacom!Channel /\ ~Vacom!Active(Vacom!TurnedOff(fan))
  BY <1>1, OffTold DEF Told
<1>4. ASSUME off
      PROVE  /\ then.dr \in Drive /\ then.dr.heat = vfd.heat /\ Told(then.ch, then.dr.speed)
             /\ ~Vacom!Active(then.ch)
  <2>1. /\ Vacom!Driven(Vacom!TurnedOff(fan), a[1], a[2]).dr \in Drive
        /\ Told(Vacom!Driven(Vacom!TurnedOff(fan), a[1], a[2]).ch, Vacom!Driven(Vacom!TurnedOff(fan), a[1], a[2]).dr.speed)
        /\ Vacom!Driven(Vacom!TurnedOff(fan), a[1], a[2]).dr.heat = vfd.heat
        /\ Vacom!Active(Vacom!Driven(Vacom!TurnedOff(fan), a[1], a[2]).ch) = Vacom!Active(Vacom!TurnedOff(fan))
    BY <1>1, <1>2, <1>3, DrivenIs
  <2>. QED
    BY <1>3, <1>4, <2>1
<1>5. /\ then.dr \in Drive /\ then.dr.heat = vfd.heat /\ Told(then.ch, then.dr.speed)
      /\ off \/ alarm => ~Vacom!Active(then.ch)
  <2>1. CASE off
    BY <1>4, <2>1
  <2>2. CASE ~off
    <3>1. then = [ch |-> fan, dr |-> vfd]
      BY <2>2
    <3>2. then.ch = fan /\ then.dr = vfd
      BY <3>1
    <3>3. off \/ alarm => ~Vacom!Active(fan)
      BY <1>1, <2>2
    <3>. HIDE DEF then, off
    <3>. QED
      BY <1>1, <3>2, <3>3
  <2>. QED
    BY <2>1, <2>2
<1>6. /\ fan' = (IF hot THEN Vacom!Overheat(then.ch) ELSE then.ch) /\ vfd' = then.dr
      /\ gate' = (gate \/ (read /\ Vacom!Turns)) /\ alarm' = (alarm \/ off \/ hot) /\ heater' = heater
  BY DEF Vacom!CheckFM
<1>7. gate' \in BOOLEAN /\ alarm' \in BOOLEAN
  BY <1>6
<1>8. Told(Vacom!Overheat(then.ch), then.dr.speed) /\ ~Vacom!Active(Vacom!Overheat(then.ch))
  BY <1>5, OverheatTold
<1>. HIDE DEF off, then, hot
<1>9. Told(fan', vfd'.speed) /\ (alarm' => ~Vacom!Active(fan'))
  BY <1>5, <1>6, <1>8
<1>10. vfd' \in Drive /\ Told(heater', vfd'.heat)
  BY <1>1, <1>5, <1>6
<1>. QED
  BY <1>7, <1>9, <1>10 DEF Told, Vacom!Wanted, Vacom!Active

LEMMA VacomInitKept ==
  ASSUME Speeds \subseteq Nat, Vacom!Init
  PROVE  DriveParts
BY DEF Vacom!Init, DriveParts, Drive, Told, Vacom!Channel, Vacom!Wanted, Vacom!Active

LEMMA VacomStepKeeps ==
  ASSUME Speeds \subseteq Nat, DriveParts, [Vacom!Next]_Vacom!vacomVars
  PROVE  DriveParts'
<1>. USE DEF DriveParts
<1>1. DriveParts
  OBVIOUS
<1>2. fan \in Vacom!Channel /\ heater \in Vacom!Channel
  BY <1>1 DEF Told
<1>3. ASSUME Vacom!Ctrl PROVE DriveParts'
  <2>1. ASSUME NEW c \in Vacom!Commands(fan), Vacom!VacomSetFan(c), alarm' = (alarm /\ ~Vacom!Active(fan'))
        PROVE  DriveParts'
    BY <1>1, <1>2, <2>1, CommandsChannel, VacomSetFanTold DEF Vacom!VacomSetFan
  <2>2. ASSUME NEW c \in Vacom!Commands(heater), Vacom!VacomSetHeat(c), UNCHANGED alarm
        PROVE  DriveParts'
    BY <1>1, <1>2, <2>2, CommandsChannel, VacomSetHeatTold DEF Vacom!VacomSetHeat, Vacom!Active
  <2>3. ASSUME fan' \in Vacom!Stored(fan), UNCHANGED <<heater, vfd, gate, lineTaken, alarm>>
        PROVE  DriveParts'
    <3>1. Told(fan', vfd.speed) /\ Vacom!Active(fan') = Vacom!Active(fan)
      BY <1>1, <2>3, StoredTold
    <3>. QED
      BY <1>1, <2>3, <3>1
  <2>4. ASSUME heater' \in Vacom!Stored(heater), UNCHANGED <<fan, vfd, gate, lineTaken, alarm>>
        PROVE  DriveParts'
    <3>1. Told(heater', vfd.heat)
      BY <1>1, <2>4, StoredTold
    <3>. QED
      BY <1>1, <2>4, <3>1
  <2>. QED
    BY <1>3, <2>1, <2>2, <2>3, <2>4 DEF Vacom!Ctrl
<1>4. ASSUME Vacom!RetryFan PROVE DriveParts'
  <2>1. [fan EXCEPT !.retry = FALSE] \in Vacom!Channel
    BY <1>2 DEF Vacom!Channel
  <2>2. Vacom!Active([fan EXCEPT !.retry = FALSE]) = Vacom!Active(fan)
    BY <1>2 DEF Vacom!Channel, Vacom!Active
  <2>3. Vacom!VacomSetFan([fan EXCEPT !.retry = FALSE]) /\ UNCHANGED alarm
    BY <1>4 DEF Vacom!RetryFan
  <2>. QED
    BY <1>1, <2>1, <2>2, <2>3, VacomSetFanTold DEF Vacom!VacomSetFan
<1>5. ASSUME Vacom!RetryHeater PROVE DriveParts'
  <2>1. [heater EXCEPT !.retry = FALSE] \in Vacom!Channel
    BY <1>2 DEF Vacom!Channel
  <2>2. Vacom!VacomSetHeat([heater EXCEPT !.retry = FALSE]) /\ UNCHANGED alarm
    BY <1>5 DEF Vacom!RetryHeater
  <2>. QED
    BY <1>1, <2>1, <2>2, VacomSetHeatTold DEF Vacom!VacomSetHeat, Vacom!Active
<1>6. ASSUME Vacom!Poll \/ Vacom!PollBad PROVE DriveParts'
  <2>1. PICK a \in BOOLEAN \X BOOLEAN, bit \in BOOLEAN, pi \in BOOLEAN, read \in BOOLEAN :
          Vacom!CheckFM(read, bit, pi, a)
    BY <1>1, <1>6 DEF Vacom!Poll, Vacom!PollBad, Vacom!Answers, Drive
  <2>. QED
    BY <1>1, <2>1, CheckFMTold DEF Vacom!CheckFM
<1>7. ASSUME Vacom!Feels PROVE DriveParts'
  <2>1. vfd' \in Drive /\ vfd'.speed = vfd.speed /\ vfd'.heat = vfd.heat
    BY <1>1, <1>7 DEF Vacom!Feels, Drive
  <2>. QED
    BY <1>1, <1>7, <2>1 DEF Vacom!Feels
<1>8. ASSUME Vacom!Take \/ Vacom!Release \/ Vacom!Close PROVE DriveParts'
  <2>1. /\ UNCHANGED <<fan, heater, vfd, alarm>>
        /\ gate' \in BOOLEAN /\ lineTaken' \in BOOLEAN
    BY <1>1, <1>8 DEF Vacom!Take, Vacom!Release, Vacom!Close
  <2>. QED
    BY <1>1, <2>1
<1>9. ASSUME UNCHANGED Vacom!vacomVars PROVE DriveParts'
  BY <1>1, <1>9 DEF Vacom!vacomVars
<1>10. DriveParts'
  BY <1>3, <1>4, <1>5, <1>6, <1>7, <1>8, <1>9 DEF Vacom!Next, Vacom!Outside
<1>. QED
  BY <1>10

\* item.cpp:2215, VacomSetFan and VacomSetHeat: a speed or a temperature that the drive does not
\* have is to be repeated, whichever writes fail, whoever has the line and whatever the drive
\* reports meanwhile.
THEOREM SpeedsRepeatedHolds ==
  ASSUME Speeds \subseteq Nat
  PROVE  Vacom!Spec => [](Vacom!TypeOK /\ Vacom!SpeedsRepeated)
<1>1. DriveParts => Vacom!TypeOK /\ Vacom!SpeedsRepeated
  BY VacomParts
<1>. QED
  BY <1>1, VacomInitKept, VacomStepKeeps, PTL DEF Vacom!Spec

\* checkFM: after a fault, or too much heat, the channel is off until it is commanded again, and
\* what the drive was not told of it is to be repeated.
THEOREM ShutDownHolds ==
  ASSUME Speeds \subseteq Nat
  PROVE  Vacom!Spec => []Vacom!ShutDown
<1>1. DriveParts => Vacom!ShutDown
  BY VacomParts
<1>. QED
  BY <1>1, VacomInitKept, VacomStepKeeps, PTL DEF Vacom!Spec

---------------------------------------------------------------------------------
\* Thermo, for any width of its stamps and any time limit within their turn.
CONSTANTS MODULUS, FAILED, Inverted
VARIABLES thermo, heating, clock, measured
Thermo == INSTANCE Thermo

\* A stamp of the width of the clock, and periods that do not go round it.
Stampable ==
  /\ MODULUS \in Nat \ {0} /\ FAILED \in Nat \ {0} /\ FAILED + 3 < MODULUS
  /\ Inverted \in BOOLEAN

\* The remainder, within one turn of the clock.
LEMMA ModSame == ASSUME NEW m \in Nat \ {0}, NEW x \in Int, 0 <= x, x < m PROVE x % m = x
OBVIOUS
LEMMA ModOver == ASSUME NEW m \in Nat \ {0}, NEW x \in Int, m <= x, x < m + m PROVE x % m = x - m
OBVIOUS
LEMMA ModUnder == ASSUME NEW m \in Nat \ {0}, NEW x \in Int, 0 - m <= x, x < 0 PROVE x % m = x + m
OBVIOUS

\* While there is a stamp, it is that of the clock when the room was measured, and not FAILED ago.
Aged ==
  thermo.stamp # 0 =>
    /\ measured <= FAILED
    /\ \E b \in 0 .. MODULUS - 1 :
         /\ thermo.stamp = Thermo!NZ(b)
         /\ clock = b + measured \/ clock = b + measured - MODULUS

ThermoInv == Thermo!TypeOK /\ Thermo!Watched /\ Aged

\* The clock goes on, and what isTimeOver makes of it.
LEMMA StampTurns ==
  ASSUME Stampable, NEW b \in 0 .. MODULUS - 1, NEW c \in 0 .. MODULUS - 1,
         NEW age \in 0 .. FAILED, NEW n \in {1, 2}, c = b + age \/ c = b + age - MODULUS
  PROVE  LET t == (c + n) % MODULUS
             d == (Thermo!NZ(t) - Thermo!NZ(b)) % MODULUS
         IN /\ t \in 0 .. MODULUS - 1
            /\ t = b + (age + n) \/ t = b + (age + n) - MODULUS
            /\ d < FAILED => age + n <= FAILED
            /\ d >= FAILED => age + n + 1 >= FAILED
<1>. DEFINE t == (c + n) % MODULUS
            d == (Thermo!NZ(t) - Thermo!NZ(b)) % MODULUS
<1>1. t = (IF c + n < MODULUS THEN c + n ELSE c + n - MODULUS)
  <2>1. MODULUS \in Nat \ {0} /\ c + n \in Int /\ 0 <= c + n /\ c + n < MODULUS + MODULUS
    BY DEF Stampable
  <2>2. CASE c + n < MODULUS
    <3>1. (c + n) % MODULUS = c + n
      BY <2>1, <2>2, ModSame
    <3>. QED
      BY <2>2, <3>1
  <2>3. CASE MODULUS <= c + n
    <3>1. \A x \in Int : MODULUS <= x /\ x < MODULUS + MODULUS => x % MODULUS = x - MODULUS
      BY <2>1, ModOver
    <3>2. (c + n) % MODULUS = (c + n) - MODULUS
      BY <2>1, <2>3, <3>1
    <3>3. t = (c + n) - MODULUS
      BY <3>2
    <3>. HIDE DEF t
    <3>. QED
      BY <2>1, <2>3, <3>3
  <2>. QED
    BY <2>1, <2>2, <2>3
<1>2. t \in 0 .. MODULUS - 1 /\ (t = b + (age + n) \/ t = b + (age + n) - MODULUS)
  BY <1>1 DEF Stampable
<1>. HIDE DEF t
<1>3. Thermo!NZ(t) - Thermo!NZ(b) \in Int /\ Thermo!NZ(t) - Thermo!NZ(b) < MODULUS /\ 0 - MODULUS <= Thermo!NZ(t) - Thermo!NZ(b)
  BY <1>2 DEF Thermo!NZ, Stampable
<1>4. d = (IF Thermo!NZ(t) - Thermo!NZ(b) >= 0 THEN Thermo!NZ(t) - Thermo!NZ(b) ELSE Thermo!NZ(t) - Thermo!NZ(b) + MODULUS)
  BY <1>3, ModSame, ModUnder DEF Stampable
<1>. HIDE DEF d
<1>5. (d < FAILED => age + n <= FAILED) /\ (d >= FAILED => age + n + 1 >= FAILED)
  BY <1>2, <1>4 DEF Thermo!NZ, Stampable
<1>. QED
  BY <1>2, <1>5 DEF t, d

LEMMA ThermoInitKept ==
  ASSUME Stampable, Thermo!Init
  PROVE  ThermoInv
<1>1. Thermo!TypeOK
  BY DEF Thermo!Init, Thermo!TypeOK, Stampable, Thermo!Temps, Thermo!OLDEST
<1>2. Thermo!Watched /\ Aged
  BY DEF Thermo!Init, Thermo!Watched, Aged, Stampable, Thermo!OLDEST
<1>. QED
  BY <1>1, <1>2 DEF ThermoInv

LEMMA LoopKeeps ==
  ASSUME Stampable, ThermoInv, Thermo!thermoLoop
  PROVE  ThermoInv'
<1>. USE DEF ThermoInv
<1>1. PICK n \in {1, 2} :
        /\ clock' = (clock + n) % MODULUS
        /\ measured' = IF measured + n < Thermo!OLDEST THEN measured + n ELSE Thermo!OLDEST
        /\ Thermo!Look(clock')
  BY DEF Thermo!thermoLoop
<1>2. measured' \in 0 .. Thermo!OLDEST /\ clock' \in 0 .. MODULUS - 1
  BY <1>1, ModSame, ModOver DEF Thermo!TypeOK, Stampable, Thermo!OLDEST
<1>3. heating' \in BOOLEAN
  <2>1. \/ heating' = heating \/ \E on \in {"HEAT", "OFF", "ERROR"} : Thermo!thermoRelay(on)
    BY <1>1 DEF Thermo!Look
  <2>. QED
    BY <2>1 DEF Thermo!thermoRelay, Thermo!TypeOK, Stampable
<1>4. CASE thermo.stamp = 0
  <2>1. UNCHANGED <<thermo, heating>>
    BY <1>1, <1>4 DEF Thermo!Look
  <2>. QED
    BY <1>1, <1>2, <1>4, <2>1 DEF Thermo!TypeOK, Thermo!Watched, Aged, Stampable, Thermo!OLDEST
<1>5. CASE thermo.stamp # 0
  <2>1. PICK b \in 0 .. MODULUS - 1 :
          /\ thermo.stamp = Thermo!NZ(b)
          /\ clock = b + measured \/ clock = b + measured - MODULUS
    BY <1>5 DEF Aged
  <2>2. measured \in 0 .. FAILED /\ clock \in 0 .. MODULUS - 1
    BY <1>5 DEF Aged, Thermo!TypeOK, Thermo!OLDEST, Stampable
  <2>3. /\ clock' = b + (measured + n) \/ clock' = b + (measured + n) - MODULUS
        /\ ~Thermo!Expired(clock') /\ Thermo!Expired(clock') \in BOOLEAN => measured + n <= FAILED
        /\ Thermo!Expired(clock') => measured + n + 1 >= FAILED
    <3>1. LET d == (Thermo!NZ(clock') - Thermo!NZ(b)) % MODULUS
          IN /\ clock' = b + (measured + n) \/ clock' = b + (measured + n) - MODULUS
             /\ d < FAILED => measured + n <= FAILED
             /\ d >= FAILED => measured + n + 1 >= FAILED
      BY <1>1, <2>1, <2>2, StampTurns, ZenonT(60)
    <3>2. (Thermo!NZ(clock') - Thermo!NZ(b)) % MODULUS \in Int
      BY <1>2 DEF Thermo!NZ, Stampable
    <3>. QED
      BY <2>1, <3>1, <3>2 DEF Thermo!Expired, Stampable
  <2>4. CASE Thermo!Expired(clock')
    <3>1. thermo' = [thermo EXCEPT !.stamp = 0] /\ heating' = FALSE
      BY <1>1, <1>5, <2>4 DEF Thermo!Look, Thermo!thermoRelay
    <3>2. measured' + 1 >= FAILED
      BY <1>1, <2>2, <2>3, <2>4 DEF Thermo!OLDEST, Stampable
    <3>. QED
      BY <1>2, <1>3, <3>1, <3>2 DEF Thermo!TypeOK, Thermo!Watched, Aged, Stampable
  <2>5. CASE ~Thermo!Expired(clock')
    <3>1. UNCHANGED thermo
      BY <1>1, <1>5, <2>5 DEF Thermo!Look
    <3>2. measured' = measured + n /\ measured' <= FAILED
      BY <1>1, <2>2, <2>3, <2>5 DEF Thermo!OLDEST, Stampable, Thermo!Expired
    <3>. QED
      BY <1>2, <1>3, <1>5, <2>1, <2>3, <3>1, <3>2 DEF Thermo!TypeOK, Thermo!Watched, Aged, Thermo!NZ
  <2>. QED
    BY <2>4, <2>5
<1>. QED
  BY <1>4, <1>5

LEMMA ThermoStepKeeps ==
  ASSUME Stampable, ThermoInv, [Thermo!Next]_Thermo!thermoVars
  PROVE  ThermoInv'
<1>. USE DEF ThermoInv
<1>1. CASE Thermo!Measure
  <2>1. PICK t \in Thermo!Temps : thermo' = [thermo EXCEPT !.temp = t, !.stamp = Thermo!NZ(clock)]
    BY <1>1 DEF Thermo!Measure
  <2>2. thermo'.stamp = Thermo!NZ(clock) /\ measured' = 0 /\ UNCHANGED <<heating, clock>>
    BY <1>1, <2>1 DEF Thermo!Measure, Thermo!TypeOK
  <2>3. thermo'.stamp # 0 /\ thermo'.stamp \in 0 .. MODULUS - 1
    BY <2>2 DEF Thermo!NZ, Thermo!TypeOK, Stampable
  <2>4. Thermo!TypeOK'
    <3>1. Thermo!NZ(clock) \in 0 .. MODULUS - 1
      BY <2>2, <2>3
    <3>2. thermo' \in [active : BOOLEAN, temp : Thermo!Temps, stamp : 0 .. MODULUS - 1]
      BY <2>1, <3>1 DEF Thermo!TypeOK
    <3>3. 0 \in 0 .. Thermo!OLDEST
      BY DEF Thermo!OLDEST, Stampable
    <3>. QED
      BY <2>2, <3>2, <3>3 DEF Thermo!TypeOK
  <2>5. Thermo!Watched'
    BY <2>2, <2>3 DEF Thermo!Watched, Stampable
  <2>6. Aged'
    BY <2>2, <2>4 DEF Aged, Thermo!TypeOK, Stampable, Thermo!NZ
  <2>. QED
    BY <2>4, <2>5, <2>6
<1>2. CASE Thermo!Set
  BY <1>2 DEF Thermo!Set, Thermo!TypeOK, Thermo!Watched, Aged, Thermo!NZ
<1>3. CASE Thermo!Command
  BY <1>3 DEF Thermo!Command, Thermo!TypeOK, Thermo!Watched, Aged, Thermo!NZ
<1>4. CASE Thermo!thermoLoop
  BY <1>4, LoopKeeps
<1>5. CASE UNCHANGED Thermo!thermoVars
  BY <1>5 DEF Thermo!thermoVars, Thermo!TypeOK, Thermo!Watched, Aged, Thermo!NZ
<1>. QED
  BY <1>1, <1>2, <1>3, <1>4, <1>5 DEF Thermo!Next

\* thermoLoop, thermoSetCurTemp: a heater is on only with measurements, and there is no alarm
\* while there are, across every wrap of timestamp16 and with stamps of 0 made 1.
THEOREM WatchedHolds ==
  ASSUME Stampable
  PROVE  Thermo!Spec => [](Thermo!TypeOK /\ Thermo!Watched)
<1>1. ThermoInv => Thermo!TypeOK /\ Thermo!Watched
  BY DEF ThermoInv
<1>. QED
  BY <1>1, ThermoInitKept, ThermoStepKeeps, PTL DEF Thermo!Spec

---------------------------------------------------------------------------------
\* Sprinkler, for any zones, any amounts and any times, with and without a meter.
CONSTANTS ZONES, Amounts, MAXVAL, counter, DRENAGE_ON_TIME, VIN_MAX_TIME, DRENAGE_MAX_TIME
VARIABLES cmd, freezed, disabled, state, timer, second, zone, relay, meter
Water == INSTANCE Sprinkler

ZoneRecord == [on : BOOLEAN, set : 0 .. MAXVAL, val : 0 .. MAXVAL, active : BOOLEAN, pin : BOOLEAN]
RelayRecord == [out : [Water!Relays -> BOOLEAN], bit : [Water!Relays -> BOOLEAN], told : [Water!Relays -> BOOLEAN]]

\* The relays are as @lastVals and the topics say.
True(r) == r.bit = r.out /\ r.told = r.out

\* Of the tank: the relays follow its state.
TankOK ==
  /\ state \in Water!States /\ relay \in RelayRecord
  /\ Water!MainsGuarded
  /\ ~counter => True(relay)

\* At most one zone is active, and only its valve can be open.
OneActive(zs) ==
  /\ zs \in [Water!Zones -> ZoneRecord]
  /\ \A y, z \in Water!Zones : zs[y].active /\ zs[z].active => y = z
  /\ \A z \in Water!Zones : zs[z].pin => zs[z].active

\* The rest of TypeOK: the clock for the provers of numbers, the flags for those of sets.
ClockOK == timer \in 0 .. DRENAGE_MAX_TIME
FlagsOK ==
  /\ cmd \in Water!Commands /\ freezed \in BOOLEAN /\ disabled \in BOOLEAN
  /\ second \in BOOLEAN /\ meter \in BOOLEAN

LEMMA SwitchedIs ==
  ASSUME NEW r \in RelayRecord, NEW name \in Water!Relays, NEW on \in BOOLEAN
  PROVE  /\ Water!Switched(r, name, on) \in RelayRecord
         /\ True(r) => True(Water!Switched(r, name, on))
         /\ Water!Switched(r, name, on).out["vin"] = IF name = "vin" THEN on ELSE r.out["vin"]
<1>1. /\ r.out \in [Water!Relays -> BOOLEAN] /\ r.bit \in [Water!Relays -> BOOLEAN]
      /\ r.told \in [Water!Relays -> BOOLEAN] /\ "vin" \in Water!Relays
  BY DEF RelayRecord, Water!Relays
<1>2. /\ [r.out EXCEPT ![name] = on] \in [Water!Relays -> BOOLEAN]
      /\ [r.bit EXCEPT ![name] = on] \in [Water!Relays -> BOOLEAN]
      /\ [r.told EXCEPT ![name] = on] \in [Water!Relays -> BOOLEAN]
  BY <1>1, Zenon
<1>3. [r.out EXCEPT ![name] = on]["vin"] = IF name = "vin" THEN on ELSE r.out["vin"]
  BY <1>1
<1>4. Water!Switched(r, name, on) \in RelayRecord
  BY <1>1, <1>2, Zenon DEF Water!Switched, RelayRecord
<1>5. ASSUME True(r)
      PROVE  True(Water!Switched(r, name, on))
  <2>1. CASE r.out[name] = on
    <3>1. [r.out EXCEPT ![name] = on] = r.out
      BY <1>1, <2>1
    <3>. QED
      BY <1>5, <2>1, <3>1 DEF True, Water!Switched
  <2>2. CASE r.out[name] # on
    BY <1>5, <2>2 DEF True, Water!Switched
  <2>. QED
    BY <2>1, <2>2
<1>6. Water!Switched(r, name, on).out = [r.out EXCEPT ![name] = on]
  BY DEF Water!Switched
<1>. QED
  BY <1>3, <1>4, <1>5, <1>6

LEMMA MovedToIs ==
  ASSUME NEW r \in RelayRecord, NEW next \in Water!States
  PROVE  /\ Water!MovedTo(r, next) \in RelayRecord
         /\ True(r) => True(Water!MovedTo(r, next))
         /\ Water!MovedTo(r, next).out["vin"] =>
              next = "VIN" \/ (next = "FAULT_DREN" /\ r.out["vin"])
<1>1. "pump" \in Water!Relays /\ "dren" \in Water!Relays /\ "vin" \in Water!Relays /\ TRUE \in BOOLEAN /\ FALSE \in BOOLEAN
  BY DEF Water!Relays
<1>2. CASE next \in {"OFF", "FULL", "UNKNOWN"}
  <2>. DEFINE to == Water!Switched(Water!Switched(r, "dren", FALSE), "vin", FALSE)
  <2>1. to \in RelayRecord /\ (True(r) => True(to)) /\ ~to.out["vin"]
    BY <1>1, SwitchedIs
  <2>2. Water!MovedTo(r, next) = to
    BY <1>2 DEF Water!MovedTo
  <2>. HIDE DEF to
  <2>. QED
    BY <2>1, <2>2
<1>3. CASE next \in {"DREN_ON", "DREN_OPERATE"}
  <2>. DEFINE to == Water!Switched(Water!Switched(r, "dren", TRUE), "vin", FALSE)
  <2>1. to \in RelayRecord /\ (True(r) => True(to)) /\ ~to.out["vin"]
    BY <1>1, SwitchedIs
  <2>2. Water!MovedTo(r, next) = to
    BY <1>3 DEF Water!MovedTo
  <2>. HIDE DEF to
  <2>. QED
    BY <2>1, <2>2
<1>4. CASE next = "VIN"
  <2>. DEFINE to == Water!Switched(r, "vin", TRUE)
  <2>1. to \in RelayRecord /\ (True(r) => True(to))
    BY <1>1, SwitchedIs
  <2>2. Water!MovedTo(r, next) = to
    BY <1>4 DEF Water!MovedTo
  <2>. HIDE DEF to
  <2>. QED
    BY <1>4, <2>1, <2>2
<1>5. CASE next \in {"DREN_EMPTY", "FAULT_VIN"}
  <2>. DEFINE to == Water!Switched(r, "vin", FALSE)
  <2>1. to \in RelayRecord /\ (True(r) => True(to)) /\ ~to.out["vin"]
    BY <1>1, SwitchedIs
  <2>2. Water!MovedTo(r, next) = to
    BY <1>5 DEF Water!MovedTo
  <2>. HIDE DEF to
  <2>. QED
    BY <2>1, <2>2
<1>6. CASE next = "FAULT_DREN"
  <2>. DEFINE to == Water!Switched(r, "dren", FALSE)
  <2>1. to \in RelayRecord /\ (True(r) => True(to)) /\ to.out["vin"] = r.out["vin"]
    BY <1>1, SwitchedIs
  <2>2. Water!MovedTo(r, next) = to
    BY <1>6 DEF Water!MovedTo
  <2>. HIDE DEF to
  <2>. QED
    BY <1>6, <2>1, <2>2
<1>7. CASE next = "DRYING"
  <2>. DEFINE dry == Water!Switched(Water!Switched(r, "dren", FALSE), "vin", FALSE)
              to == Water!Switched(dry, "pump", TRUE)
  <2>1. dry \in RelayRecord /\ (True(r) => True(dry)) /\ ~dry.out["vin"]
    BY <1>1, SwitchedIs
  <2>2. Water!MovedTo(r, next) = to
    BY <1>7 DEF Water!MovedTo
  <2>. HIDE DEF dry
  <2>3. to \in RelayRecord /\ (True(dry) => True(to)) /\ to.out["vin"] = dry.out["vin"]
    BY <1>1, <2>1, SwitchedIs
  <2>. HIDE DEF to
  <2>. QED
    BY <2>1, <2>2, <2>3
<1>. QED
  BY <1>2, <1>3, <1>4, <1>5, <1>6, <1>7 DEF Water!States

LEMMA NextStateIs ==
  ASSUME state \in Water!States, NEW i
  PROVE  /\ Water!NextState(i) \in Water!States
         /\ Water!NextState(i) = "FAULT_DREN" => state \in {"FAULT_DREN", "DREN_OPERATE"}
BY DEF Water!NextState, Water!States

LEMMA AfterTankIs ==
  ASSUME TankOK, NEW i
  PROVE  /\ Water!AfterTank(i) \in RelayRecord
         /\ ~counter => True(Water!AfterTank(i))
         /\ Water!AfterTank(i).out["vin"] => Water!NextState(i) = "VIN"
<1>1. /\ state \in Water!States /\ relay \in RelayRecord /\ (~counter => True(relay))
      /\ (relay.out["vin"] => state = "VIN")
  BY DEF TankOK, Water!MainsGuarded
<1>2. CASE Water!NextState(i) = state \/ (state \in {"UNKNOWN", "OFF"} /\ Water!wMax(i))
  BY <1>1, <1>2 DEF Water!AfterTank
<1>3. CASE ~(Water!NextState(i) = state \/ (state \in {"UNKNOWN", "OFF"} /\ Water!wMax(i)))
  <2>1. Water!AfterTank(i) = Water!MovedTo(relay, Water!NextState(i))
    BY <1>3 DEF Water!AfterTank
  <2>. QED
    BY <1>1, <2>1, NextStateIs, MovedToIs
<1>. QED
  BY <1>2, <1>3

\* What @lastVals is written back to, with a meter, is no more than its bits.
LEMMA BitsBack ==
  ASSUME NEW r \in RelayRecord, NEW s \in RelayRecord
  PROVE  /\ [r EXCEPT !.bit = s.bit] \in RelayRecord
         /\ [r EXCEPT !.bit = s.bit].out["vin"] = r.out["vin"]
BY DEF RelayRecord

LEMMA TankKept ==
  ASSUME TankOK, [Water!Next]_Water!vars
  PROVE  TankOK'
<1>1. "pump" \in Water!Relays /\ TRUE \in BOOLEAN /\ FALSE \in BOOLEAN /\ "vin" # "pump"
  BY DEF Water!Relays
<1>2. /\ state \in Water!States /\ relay \in RelayRecord /\ (~counter => True(relay))
      /\ (relay.out["vin"] => state = "VIN")
  BY DEF TankOK, Water!MainsGuarded
<1>3. TankOK' <=> /\ state' \in Water!States /\ relay' \in RelayRecord /\ (~counter => True(relay'))
                  /\ (relay'.out["vin"] => state' = "VIN")
  BY DEF TankOK, Water!MainsGuarded, True
<1>4. CASE Water!PollFreezed
  <2>1. "OFF" \in Water!States
    BY DEF Water!States
  <2>. DEFINE to == Water!MovedTo(relay, "OFF")
  <2>2. to \in RelayRecord /\ (~counter => True(to)) /\ ~to.out["vin"]
    BY <1>2, <2>1, MovedToIs
  <2>3. state' = "OFF" /\ relay' = Water!Switched(to, "pump", FALSE)
    BY <1>4 DEF Water!PollFreezed
  <2>. HIDE DEF to
  <2>. QED
    BY <1>1, <1>2, <1>3, <2>1, <2>2, <2>3, SwitchedIs
<1>5. ASSUME NEW i \in Water!Readings, Water!PollDry(i) \/ Water!PollIdle(i)
      PROVE  TankOK'
  <2>1. state' = Water!NextState(i) /\ relay' = Water!Switched(Water!AfterTank(i), "pump", FALSE)
    BY <1>5 DEF Water!PollDry, Water!PollIdle, Water!Tank
  <2>. QED
    BY <1>1, <1>2, <1>3, <2>1, AfterTankIs, NextStateIs, SwitchedIs
<1>6. ASSUME NEW i \in Water!Readings, Water!PollWater(i)
      PROVE  TankOK'
  <2>. DEFINE z == Water!findNextZone(zone)
              wet == zone[z].active \/ (~zone[z].active /\ (~disabled \/ zone[z].set = 0))
              after == IF counter /\ wet THEN [Water!AfterTank(i) EXCEPT !.bit = relay.bit] ELSE Water!AfterTank(i)
  <2>1. PICK on \in BOOLEAN : state' = Water!NextState(i) /\ relay' = Water!Switched(after, "pump", on)
    BY <1>6 DEF Water!PollWater, Water!Tank
  <2>2. /\ after \in RelayRecord /\ (~counter => True(after))
        /\ (after.out["vin"] => Water!NextState(i) = "VIN")
    BY <1>2, AfterTankIs, BitsBack
  <2>. HIDE DEF after
  <2>. QED
    BY <1>1, <1>2, <1>3, <2>1, <2>2, NextStateIs, SwitchedIs
<1>7. CASE UNCHANGED <<state, relay>>
  BY <1>2, <1>3, <1>7
<1>8. CASE Water!CtrlOff
  <2>1. state' = state /\ relay' = Water!Switched(relay, "pump", FALSE)
    BY <1>8 DEF Water!CtrlOff
  <2>. QED
    BY <1>1, <1>2, <1>3, <2>1, SwitchedIs
<1>9. CASE Water!CtrlDry
  <2>1. "DRYING" \in Water!States
    BY DEF Water!States
  <2>2. state' = "DRYING" /\ relay' = Water!MovedTo(relay, "DRYING")
    BY <1>9 DEF Water!CtrlDry
  <2>. QED
    BY <1>2, <1>3, <2>1, <2>2, MovedToIs
<1>10. CASE Water!Setup \/ Water!Restart
  <2>1. state' = "UNKNOWN" /\ relay' = [out |-> Water!allOff, bit |-> Water!allOff, told |-> Water!allOff]
    BY <1>10 DEF Water!Setup, Water!Restart
  <2>2. Water!allOff \in [Water!Relays -> BOOLEAN] /\ Water!allOff["vin"] = FALSE
    BY DEF Water!allOff, Water!Relays
  <2>. QED
    BY <1>3, <2>1, <2>2 DEF RelayRecord, True, Water!States
<1>. QED
  BY <1>4, <1>5, <1>6, <1>7, <1>8, <1>9, <1>10 DEF Water!Next, Water!Poll, Water!Ctrl,
     Water!CtrlOn, Water!CtrlOther, Water!CtrlFlags,
     Water!CtrlReset, Water!CtrlZone, Water!Tick, Water!vars

-----------------------------------------------------------------------------
\* The zones.

LEMMA ClosedIs ==
  ASSUME NEW zs, OneActive(zs)
  PROVE  /\ OneActive(Water!Closed(zs))
         /\ \A z \in Water!Zones : /\ ~Water!Closed(zs)[z].active /\ ~Water!Closed(zs)[z].pin
                                   /\ Water!Closed(zs)[z].val = zs[z].val /\ Water!Closed(zs)[z].set = zs[z].set
<1>1. \A z \in Water!Zones : zs[z] \in ZoneRecord
  BY DEF OneActive
<1>2. \A z \in Water!Zones : Water!Closed(zs)[z] = [zs[z] EXCEPT !.active = FALSE, !.pin = FALSE]
  BY DEF Water!Closed
<1>3. ASSUME NEW z \in Water!Zones
      PROVE  /\ Water!Closed(zs)[z] \in ZoneRecord
             /\ ~Water!Closed(zs)[z].active /\ ~Water!Closed(zs)[z].pin
             /\ Water!Closed(zs)[z].val = zs[z].val /\ Water!Closed(zs)[z].set = zs[z].set
  BY <1>1, <1>2 DEF ZoneRecord
<1>4. Water!Closed(zs) \in [Water!Zones -> ZoneRecord]
  BY <1>3 DEF Water!Closed
<1>. QED
  BY <1>3, <1>4 DEF OneActive

\* One zone is changed, to what is active only if it was or no other is.
OneChanged(zs, to, z, r) == to = [zs EXCEPT ![z] = r]
Alone(zs, z, r) ==
  /\ \A y \in Water!Zones : r.active /\ zs[y].active => y = z
  /\ r.pin => r.active

LEMMA ChangeOne ==
  ASSUME NEW zs, OneActive(zs), NEW z, NEW r \in ZoneRecord, NEW to, OneChanged(zs, to, z, r),
         Alone(zs, z, r)
  PROVE  /\ OneActive(to)
         /\ \A y \in Water!Zones : to[y] = IF y = z THEN r ELSE zs[y]
<1>1. to \in [Water!Zones -> ZoneRecord] /\ \A y \in Water!Zones : to[y] = IF y = z THEN r ELSE zs[y]
  BY DEF OneActive, OneChanged
<1>2. \A x, y \in Water!Zones : to[x].active /\ to[y].active => x = y
  BY <1>1 DEF OneActive, Alone
<1>3. \A y \in Water!Zones : to[y].pin => to[y].active
  BY <1>1 DEF OneActive, Alone
<1>. QED
  BY <1>1, <1>2, <1>3 DEF OneActive

\* Nothing but the amount is changed.
SameFlags(zs, to) ==
  \A z \in Water!Zones : to[z].active = zs[z].active /\ to[z].pin = zs[z].pin

LEMMA SameFlagsKeep ==
  ASSUME NEW zs, OneActive(zs), NEW to \in [Water!Zones -> ZoneRecord], SameFlags(zs, to)
  PROVE  OneActive(to)
BY DEF OneActive, SameFlags

LEMMA ActivatedIs ==
  ASSUME NEW zs, OneActive(zs), NEW z
  PROVE  /\ OneActive(Water!Activated(zs, z))
         /\ \A y \in Water!Zones : Water!Activated(zs, z)[y].val = zs[y].val /\ Water!Activated(zs, z)[y].set = zs[y].set
<1>1. CASE zs[z].active
  BY <1>1 DEF Water!Activated
<1>2. CASE ~zs[z].active /\ disabled /\ zs[z].set > 0
  BY <1>2, ClosedIs DEF Water!Activated
<1>3. CASE ~zs[z].active /\ ~(disabled /\ zs[z].set > 0)
  <2>. DEFINE c == Water!Closed(zs)
              r == [c[z] EXCEPT !.active = TRUE, !.pin = TRUE]
  <2>1. /\ OneActive(c)
        /\ \A y \in Water!Zones : ~c[y].active /\ c[y].val = zs[y].val /\ c[y].set = zs[y].set
    BY ClosedIs
  <2>2. Water!Activated(zs, z) = [c EXCEPT ![z].active = TRUE, ![z].pin = TRUE]
    BY <1>3 DEF Water!Activated
  <2>. HIDE DEF c
  <2>3. CASE z \in Water!Zones
    <3>1. /\ r \in ZoneRecord /\ r.active /\ r.pin /\ r.val = zs[z].val /\ r.set = zs[z].set
      <4>1. c[z] \in ZoneRecord
        BY <2>1, <2>3 DEF OneActive
      <4>. QED
        BY <2>1, <2>3, <4>1 DEF ZoneRecord
    <3>2. OneChanged(c, Water!Activated(zs, z), z, r)
      BY <2>1, <2>2, <2>3 DEF OneActive, OneChanged
    <3>. HIDE DEF r
    <3>3. Alone(c, z, r)
      BY <2>1, <3>1 DEF Alone
    <3>5. /\ OneActive(Water!Activated(zs, z))
          /\ \A y \in Water!Zones : Water!Activated(zs, z)[y] = IF y = z THEN r ELSE c[y]
      BY <2>1, <3>1, <3>2, <3>3, ChangeOne
    <3>. QED
      BY <2>1, <3>1, <3>5
  <2>4. CASE z \notin Water!Zones
    <3>1. Water!Activated(zs, z) = c
      BY <2>1, <2>2, <2>4 DEF OneActive
    <3>. QED
      BY <2>1, <3>1
  <2>. QED
    BY <2>3, <2>4
<1>. QED
  BY <1>1, <1>2, <1>3

LEMMA CountedIs ==
  ASSUME MAXVAL \in Nat, NEW zs, OneActive(zs), NEW z, NEW i
  PROVE  /\ OneActive(Water!Counted(zs, z, i))
         /\ \A y \in Water!Zones \ {z} : Water!Counted(zs, z, i)[y].val = zs[y].val
<1>1. CASE ~(zs[z].active /\ Water!Counts(z, i) /\ zs[z].val < MAXVAL) \/ z \notin Water!Zones
  <2>1. Water!Counted(zs, z, i) = zs
    BY <1>1 DEF Water!Counted, OneActive
  <2>. QED
    BY <2>1
<1>2. CASE zs[z].active /\ Water!Counts(z, i) /\ zs[z].val < MAXVAL /\ z \in Water!Zones
  <2>. DEFINE r == [zs[z] EXCEPT !.val = @ + 1]
  <2>1. OneChanged(zs, Water!Counted(zs, z, i), z, r)
    BY <1>2 DEF Water!Counted, OneActive, OneChanged
  <2>2. r \in ZoneRecord /\ r.active = zs[z].active /\ r.pin = zs[z].pin
    <3>1. zs[z] \in ZoneRecord
      BY <1>2 DEF OneActive
    <3>2. zs[z].val + 1 \in 0 .. MAXVAL
      BY <1>2, <3>1 DEF ZoneRecord
    <3>. QED
      BY <3>1, <3>2 DEF ZoneRecord
  <2>. HIDE DEF r
  <2>3. Alone(zs, z, r)
    BY <1>2, <2>2 DEF OneActive, Alone
  <2>4. /\ OneActive(Water!Counted(zs, z, i))
        /\ \A y \in Water!Zones : Water!Counted(zs, z, i)[y] = IF y = z THEN r ELSE zs[y]
    BY <2>1, <2>2, <2>3, ChangeOne
  <2>. QED
    BY <2>4
<1>. QED
  BY <1>1, <1>2

LEMMA FinishedIs ==
  ASSUME NEW zs, OneActive(zs), NEW z
  PROVE  /\ OneActive(Water!Finished(zs, z))
         /\ \A y \in Water!Zones : Water!Finished(zs, z)[y].val = zs[y].val
         /\ zone[z].set > 0 /\ zone[z].val >= zone[z].set /\ z \in Water!Zones => ~Water!Finished(zs, z)[z].pin
<1>1. CASE ~(zone[z].set > 0 /\ (zone[z].val >= zone[z].set \/ disabled))
  BY <1>1 DEF Water!Finished
<1>2. CASE (zone[z].set > 0 /\ (zone[z].val >= zone[z].set \/ disabled)) /\ z \in Water!Zones
  <2>. DEFINE r == [zs[z] EXCEPT !.active = FALSE, !.pin = FALSE]
  <2>1. OneChanged(zs, Water!Finished(zs, z), z, r)
    BY <1>2 DEF Water!Finished, OneActive, OneChanged
  <2>2. r \in ZoneRecord /\ ~r.active /\ ~r.pin /\ r.val = zs[z].val
    BY <1>2 DEF OneActive, ZoneRecord
  <2>. HIDE DEF r
  <2>3. /\ OneActive(Water!Finished(zs, z))
        /\ \A y \in Water!Zones : Water!Finished(zs, z)[y] = IF y = z THEN r ELSE zs[y]
    <3>1. Alone(zs, z, r)
      BY <2>2 DEF Alone
    <3>. QED
      BY <2>1, <2>2, <3>1, ChangeOne
  <2>. QED
    BY <1>2, <2>2, <2>3
<1>3. CASE (zone[z].set > 0 /\ (zone[z].val >= zone[z].set \/ disabled)) /\ z \notin Water!Zones
  <2>1. Water!Finished(zs, z) = zs
    BY <1>3 DEF Water!Finished, OneActive
  <2>. QED
    BY <1>3, <2>1
<1>. QED
  BY <1>1, <1>2, <1>3

\* What a poll does to the zones, whichever it chooses.
LEMMA WateredIs ==
  ASSUME MAXVAL \in Nat, OneActive(zone), NEW z, NEW i
  PROVE  /\ OneActive(Water!Watered(z, i))
         /\ \A y \in Water!Zones : Water!Watered(z, i)[y].val > zone[y].val /\ zone[y].set \in 1 .. zone[y].val
                             => ~Water!Watered(z, i)[y].pin
<1>. DEFINE a == Water!Activated(zone, z)  c == Water!Counted(a, z, i)  f == Water!Finished(c, z)
<1>1. OneActive(a) /\ \A y \in Water!Zones : a[y].val = zone[y].val
  BY ActivatedIs
<1>. HIDE DEF a
<1>2. OneActive(c) /\ \A y \in Water!Zones \ {z} : c[y].val = a[y].val
  BY <1>1, CountedIs
<1>. HIDE DEF c
<1>3. /\ OneActive(f) /\ \A y \in Water!Zones : f[y].val = c[y].val
      /\ zone[z].set > 0 /\ zone[z].val >= zone[z].set /\ z \in Water!Zones => ~f[z].pin
  BY <1>2, FinishedIs
<1>4. Water!Watered(z, i) = f
  BY DEF Water!Watered, a, c
<1>. HIDE DEF f
<1>5. ASSUME NEW y \in Water!Zones, f[y].val > zone[y].val, zone[y].set \in 1 .. zone[y].val
      PROVE  ~f[y].pin
  <2>1. zone[y].val \in Nat /\ zone[y].set \in Nat
    BY DEF OneActive, ZoneRecord
  <2>2. y = z
    BY <1>1, <1>2, <1>3, <1>5, <2>1
  <2>. QED
    BY <1>3, <1>5, <2>1, <2>2
<1>. QED
  BY <1>3, <1>4, <1>5

LEMMA ZoneChanged ==
  ASSUME OneActive(zone), NEW z \in Water!Zones, NEW r \in ZoneRecord, zone' = [zone EXCEPT ![z] = r],
         r.active => zone[z].active, r.pin => zone[z].pin /\ r.active
  PROVE  OneActive(zone')
<1>1. OneChanged(zone, zone', z, r) /\ Alone(zone, z, r)
  BY DEF OneChanged, Alone, OneActive
<1>. QED
  BY <1>1, ChangeOne

LEMMA ZonesKept ==
  ASSUME Water!Configured, OneActive(zone), [Water!Next]_Water!vars
  PROVE  OneActive(zone')
<1>. USE DEF Water!Configured
<1>1. \A z \in Water!Zones : zone[z] \in ZoneRecord /\ Amounts[z] \subseteq 0 .. MAXVAL
  BY DEF OneActive, Water!Zones
<1>2. CASE zone' = Water!Closed(zone)
  BY <1>2, ClosedIs
<1>3. CASE UNCHANGED zone
  BY <1>3 DEF OneActive
<1>4. ASSUME NEW i, Water!PollWater(i)
      PROVE  OneActive(zone')
  BY <1>4, WateredIs DEF Water!PollWater
<1>5. CASE Water!CtrlReset
  <2>1. CASE zone' = [z \in Water!Zones |-> [zone[z] EXCEPT !.val = 0]]
    <3>1. 0 \in 0 .. MAXVAL
      OBVIOUS
    <3>2. ASSUME NEW z \in Water!Zones
          PROVE  /\ [zone[z] EXCEPT !.val = 0] \in ZoneRecord
                 /\ zone'[z].active = zone[z].active /\ zone'[z].pin = zone[z].pin
      BY <1>1, <2>1, <3>1 DEF ZoneRecord
    <3>3. zone' \in [Water!Zones -> ZoneRecord]
      BY <2>1, <3>2
    <3>. QED
      BY <3>2, <3>3, SameFlagsKeep DEF SameFlags
  <2>2. ASSUME NEW z \in Water!Zones, zone' = [zone EXCEPT ![z].val = 0]
        PROVE  OneActive(zone')
    <3>. DEFINE r == [zone[z] EXCEPT !.val = 0]
    <3>1. zone' = [zone EXCEPT ![z] = r]
      BY <2>2 DEF OneActive
    <3>2. r \in ZoneRecord /\ r.active = zone[z].active /\ r.pin = zone[z].pin
      BY <1>1 DEF ZoneRecord
    <3>. HIDE DEF r
    <3>3. zone[z].pin => zone[z].active
      BY DEF OneActive
    <3>. QED
      BY <3>1, <3>2, <3>3, ZoneChanged
  <2>. QED
    BY <1>5, <2>1, <2>2 DEF Water!CtrlReset
<1>6. ASSUME NEW z \in Water!Zones, Water!CtrlZone(z)
      PROVE  OneActive(zone')
  <2>1. PICK r \in {[zone[z] EXCEPT !.val = n] : n \in Amounts[z]}
                    \cup {[zone[z] EXCEPT !.set = n] : n \in Amounts[z]}
                    \cup {[zone[z] EXCEPT !.on = TRUE],
                          [zone[z] EXCEPT !.on = FALSE, !.active = FALSE, !.pin = FALSE]} :
             zone' = [zone EXCEPT ![z] = r]
    <3>1. ASSUME NEW n \in Amounts[z], zone' = [zone EXCEPT ![z].val = n]
          PROVE  zone' = [zone EXCEPT ![z] = [zone[z] EXCEPT !.val = n]]
      BY <3>1 DEF OneActive
    <3>2. ASSUME NEW n \in Amounts[z], zone' = [zone EXCEPT ![z].set = n]
          PROVE  zone' = [zone EXCEPT ![z] = [zone[z] EXCEPT !.set = n]]
      BY <3>2 DEF OneActive
    <3>3. ASSUME zone' = [zone EXCEPT ![z].on = TRUE]
          PROVE  zone' = [zone EXCEPT ![z] = [zone[z] EXCEPT !.on = TRUE]]
      BY <3>3 DEF OneActive
    <3>4. ASSUME zone' = [zone EXCEPT ![z].on = FALSE, ![z].active = FALSE, ![z].pin = FALSE]
          PROVE  zone' = [zone EXCEPT ![z] = [zone[z] EXCEPT !.on = FALSE, !.active = FALSE, !.pin = FALSE]]
      BY <3>4 DEF OneActive
    <3>. QED
      BY <1>6, <3>1, <3>2, <3>3, <3>4 DEF Water!CtrlZone
  <2>2. /\ r \in ZoneRecord /\ (r.active => zone[z].active)
        /\ (r.pin => zone[z].pin /\ r.active = zone[z].active)
    BY <1>1, <2>1 DEF ZoneRecord
  <2>3. zone[z].pin => zone[z].active
    BY DEF OneActive
  <2>. QED
    BY <2>1, <2>2, <2>3, ZoneChanged
<1>7. CASE zone' = [z \in Water!Zones |-> [zone[z] EXCEPT !.pin = FALSE]]
  <2>1. /\ zone' \in [Water!Zones -> ZoneRecord]
        /\ \A z \in Water!Zones : zone'[z].active = zone[z].active /\ ~zone'[z].pin
    BY <1>1, <1>7 DEF ZoneRecord
  <2>. QED
    BY <2>1 DEF OneActive
<1>. QED
  BY <1>2, <1>3, <1>4, <1>5, <1>6, <1>7 DEF Water!Next, Water!Poll, Water!PollFreezed,
     Water!PollDry, Water!PollIdle, Water!Ctrl, Water!CtrlOn,
     Water!CtrlOther, Water!CtrlOff, Water!CtrlDry, Water!CtrlFlags, Water!Setup, Water!Restart,
     Water!Tick, Water!vars

LEMMA CountsLastStep ==
  ASSUME Water!Configured, OneActive(zone)
  PROVE  Water!CountsLast
<1>. SUFFICES ASSUME Water!Poll
              PROVE  \A z \in Water!Zones : zone'[z].val > zone[z].val /\ zone[z].set \in 1 .. zone[z].val
                                        => ~zone'[z].pin
  BY DEF Water!CountsLast
<1>1. \A z \in Water!Zones : zone[z].val \in Nat
  BY DEF Water!Configured, OneActive, ZoneRecord
<1>2. CASE UNCHANGED zone \/ zone' = Water!Closed(zone)
  BY <1>1, <1>2, ClosedIs
<1>3. ASSUME NEW i, Water!PollWater(i)
      PROVE  \A z \in Water!Zones : zone'[z].val > zone[z].val /\ zone[z].set \in 1 .. zone[z].val
                                => ~zone'[z].pin
  <2>1. PICK z : zone' = Water!Watered(z, i)
    BY <1>3 DEF Water!PollWater
  <2>. QED
    BY <2>1, WateredIs DEF Water!Configured
<1>. QED
  BY <1>2, <1>3 DEF Water!Poll, Water!PollFreezed, Water!PollDry, Water!PollIdle

\* Of the open valves there is one at most.
LEMMA OpenIsOne ==
  ASSUME OneActive(zone)
  PROVE  Water!OneZoneOpen
BY DEF OneActive, Water!OneZoneOpen, Water!Open

LEMMA FlagsKept ==
  ASSUME Water!Configured, FlagsOK, [Water!Next]_Water!vars
  PROVE  FlagsOK'
<1>1. CASE Water!Poll
  <2>1. UNCHANGED Water!item
    BY <1>1 DEF Water!Poll, Water!PollFreezed, Water!PollDry, Water!PollIdle, Water!PollWater
  <2>2. second' \in BOOLEAN /\ meter' \in BOOLEAN
    BY <1>1 DEF Water!Poll, Water!PollFreezed, Water!PollDry, Water!PollIdle, Water!PollWater,
       FlagsOK, Water!Configured, Water!Readings
  <2>. QED
    BY <2>1, <2>2 DEF FlagsOK, Water!item
<1>2. CASE Water!Ctrl
  BY <1>2 DEF FlagsOK, Water!Ctrl, Water!CtrlOn, Water!CtrlOther, Water!CtrlOff, Water!CtrlDry,
     Water!CtrlFlags, Water!CtrlReset, Water!CtrlZone, Water!item, Water!Commands
<1>3. CASE Water!Setup \/ Water!Restart
  BY <1>3 DEF FlagsOK, Water!Setup, Water!Restart, Water!item, Water!Configured
<1>4. CASE Water!Tick
  BY <1>4 DEF FlagsOK, Water!Tick, Water!item
<1>5. CASE UNCHANGED Water!vars
  BY <1>5 DEF FlagsOK, Water!vars
<1>. QED
  BY <1>1, <1>2, <1>3, <1>4, <1>5 DEF Water!Next

LEMMA ClockKept ==
  ASSUME Water!Configured, ClockOK, [Water!Next]_Water!vars
  PROVE  ClockOK'
<1>. USE DEF ClockOK, Water!Configured
<1>1. CASE Water!PollFreezed \/ Water!CtrlDry \/ Water!Setup \/ Water!Restart
  <2>1. timer' = 0
    BY <1>1, Zenon DEF Water!PollFreezed, Water!CtrlDry, Water!Setup, Water!Restart
  <2>. QED
    BY <2>1
<1>2. ASSUME NEW i, Water!PollDry(i) \/ Water!PollIdle(i) \/ Water!PollWater(i)
      PROVE  ClockOK'
  <2>1. timer' = Water!TimerAfter(i)
    BY <1>2, Zenon DEF Water!PollDry, Water!PollIdle, Water!PollWater, Water!Tank
  <2>. QED
    BY <2>1 DEF Water!TimerAfter
<1>3. CASE Water!Tick
  <2>1. timer' = IF state \in Water!Timed /\ timer < DRENAGE_MAX_TIME THEN timer + 1 ELSE timer
    BY <1>3 DEF Water!Tick
  <2>. QED
    BY <2>1
<1>4. CASE UNCHANGED timer
  BY <1>4
<1>. QED
  BY <1>1, <1>2, <1>3, <1>4 DEF Water!Next, Water!Poll, Water!Ctrl, Water!CtrlOn,
     Water!CtrlOther, Water!CtrlOff, Water!CtrlFlags, Water!CtrlReset,
     Water!CtrlZone, Water!vars

SprinklerInv == TankOK /\ OneActive(zone) /\ FlagsOK /\ ClockOK

LEMMA SprinklerInit ==
  ASSUME Water!Configured, Water!Init
  PROVE  SprinklerInv
<1>1. Water!allOff \in [Water!Relays -> BOOLEAN] /\ Water!allOff["vin"] = FALSE
  BY DEF Water!allOff, Water!Relays
<1>2. TankOK
  BY <1>1 DEF Water!Init, TankOK, Water!MainsGuarded, RelayRecord, True, Water!States
<1>3. /\ zone \in [Water!Zones -> ZoneRecord]
      /\ \A z \in Water!Zones : ~zone[z].active /\ ~zone[z].pin
  <2>1. zone \in [Water!Zones -> [on : BOOLEAN, set : 0 .. MAXVAL, val : {0}, active : {FALSE}, pin : {FALSE}]]
    BY Zenon DEF Water!Init
  <2>2. ASSUME NEW z \in Water!Zones
        PROVE  zone[z] \in ZoneRecord /\ ~zone[z].active /\ ~zone[z].pin
    <3>1. zone[z] \in [on : BOOLEAN, set : 0 .. MAXVAL, val : {0}, active : {FALSE}, pin : {FALSE}]
      BY <2>1
    <3>2. 0 \in 0 .. MAXVAL
      BY DEF Water!Configured
    <3>. QED
      BY <3>1, <3>2 DEF ZoneRecord
  <2>. QED
    BY <2>1, <2>2
<1>4. FlagsOK
  BY DEF Water!Init, FlagsOK, Water!Commands
<1>5. ClockOK
  BY DEF Water!Init, ClockOK, Water!Configured
<1>. QED
  BY <1>2, <1>3, <1>4, <1>5 DEF SprinklerInv, OneActive

LEMMA SprinklerAlways ==
  ASSUME Water!Configured
  PROVE  Water!Spec => []SprinklerInv
<1>1. Water!Init => SprinklerInv
  BY SprinklerInit
<1>2. SprinklerInv /\ [Water!Next]_Water!vars => SprinklerInv'
  BY TankKept, ZonesKept, FlagsKept, ClockKept DEF SprinklerInv
<1>. QED
  BY <1>1, <1>2, PTL DEF Water!Spec

\* The types, through every command, reload and flood.
THEOREM SprinklerTypes ==
  ASSUME Water!Configured
  PROVE  Water!Spec => []Water!TypeOK
<1>1. SprinklerInv => Water!TypeOK
  BY DEF SprinklerInv, TankOK, OneActive, FlagsOK, ClockOK, Water!TypeOK, ZoneRecord, RelayRecord
<1>. QED
  BY <1>1, SprinklerAlways, PTL

\* sprinkler.Poll opens the mains on the way into VIN, which has a time limit, and closes
\* them whichever way it leaves that state.
THEOREM MainsGuardedHolds ==
  ASSUME Water!Configured
  PROVE  Water!Spec => []Water!MainsGuarded
<1>1. SprinklerInv => Water!MainsGuarded
  BY DEF SprinklerInv, TankOK
<1>. QED
  BY <1>1, SprinklerAlways, PTL

\* findNextZone and the loop of Poll open one zone at most: every pass closes what is not
\* the zone it waters before it opens that one, and between passes one zone is @active.
THEOREM OneZoneOpenHolds ==
  ASSUME Water!Configured
  PROVE  Water!Spec => []Water!OneZoneOpen
<1>1. SprinklerInv => Water!OneZoneOpen
  BY OpenIsOne DEF SprinklerInv
<1>. QED
  BY <1>1, SprinklerAlways, PTL

\* Without a meter nothing else writes @lastVals: its bits, and what was published of the
\* relays, are their pins.
THEOREM RelaysToldHolds ==
  ASSUME Water!Configured
  PROVE  Water!Spec => []Water!RelaysTold
<1>1. SprinklerInv => Water!RelaysTold
  BY DEF SprinklerInv, TankOK, Water!RelaysTold, True
<1>. QED
  BY <1>1, SprinklerAlways, PTL

\* A zone that has had its amount is closed by the next poll that counts for it: Poll compares
\* @val with @set in the pass in which it counts, and that pass moves on to another zone.
THEOREM NoOverrunHolds ==
  ASSUME Water!Configured
  PROVE  Water!Spec => Water!NoOverrun
<1>1. Water!Init => OneActive(zone)
  BY SprinklerInit DEF SprinklerInv
<1>2. OneActive(zone) /\ [Water!Next]_Water!vars => OneActive(zone)'
  BY ZonesKept
<1>3. OneActive(zone) /\ [Water!Next]_Water!vars => [Water!CountsLast]_Water!vars
  BY CountsLastStep
<1>. QED
  BY <1>1, <1>2, <1>3, PTL DEF Water!Spec, Water!NoOverrun

---------------------------------------------------------------------------------
\* CanBus, for any number of controllers, any configurations and any events.
CONSTANTS NODES, Held, Flash, Depth, Events, Lost
VARIABLES can, held, frames
Bus == INSTANCE CanBus

\* A controller, and what it may find in its queue.
BusNode ==
  [state : {"Unknown", "MACLookup", "Error", "ReadConfig", "Idle", "ConfigLoaded"}, id : Bus!Addrs,
   conf : Bus!Confs, crc : Bus!Confs, flash : Bus!Confs, age : 0 .. 2]
NoFrame == [type |-> "none"]

\* The queues of the holder and of the controllers.
FramesTo(n) == IF n = 0 THEN Bus!ToHolder ELSE Bus!ToNode
BusQueues == {q \in [0 .. NODES -> Seq(Bus!Frame)] : \A n \in 0 .. NODES : q[n] \in Seq(FramesTo(n))}

\* The configurations there can be are closed under changes of their item.
LEMMA BusConfs ==
  ASSUME Bus!Configured
  PROVE  /\ Bus!NoConf \in Bus!Confs /\ Flash \subseteq Bus!Confs /\ Held \subseteq [Bus!Nodes -> Bus!Confs]
         /\ \A c \in Bus!Confs : c \in Bus!Conf /\ c.addr \in Bus!Addrs
         /\ \A c \in Bus!Confs, v \in Bus!Values : [c EXCEPT !.val = v] \in Bus!Confs
         /\ 0 \in Bus!Addrs
<1>1. Bus!Versions \subseteq Bus!Conf /\ Bus!NoConf \in Bus!Versions
  <2>1. Bus!NoConf \in Bus!Conf
    BY DEF Bus!NoConf, Bus!Conf, Bus!Unset
  <2>2. ASSUME NEW h \in Held, NEW n \in Bus!Nodes  PROVE h[n] \in Bus!Conf
    BY DEF Bus!Configured
  <2>. QED
    BY <2>1, <2>2 DEF Bus!Configured, Bus!Versions
<1>2. ASSUME NEW d \in Bus!Versions
      PROVE  d \in Bus!Conf /\ d \in Bus!Confs /\ d.addr \in Bus!Addrs
  <2>1. d \in Bus!Conf
    BY <1>1
  <2>2. d = [d EXCEPT !.val = d.val] /\ d.val \in Bus!Values \cup {Bus!Unset}
    BY <2>1 DEF Bus!Conf
  <2>. QED
    BY <2>1, <2>2 DEF Bus!Confs, Bus!Addrs
<1>3. ASSUME NEW c \in Bus!Confs
      PROVE  \E d \in Bus!Versions : \E w \in Bus!Values \cup {Bus!Unset} : c = [d EXCEPT !.val = w]
  <2>1. Bus!NoConf = [Bus!NoConf EXCEPT !.val = Bus!Unset]
    BY DEF Bus!NoConf
  <2>. QED
    BY <2>1, <1>1 DEF Bus!Confs
<1>4. ASSUME NEW c \in Bus!Confs
      PROVE  /\ c \in Bus!Conf /\ c.addr \in Bus!Addrs
             /\ \A v \in Bus!Values : [c EXCEPT !.val = v] \in Bus!Confs
  <2>1. PICK d \in Bus!Versions, w \in Bus!Values \cup {Bus!Unset} : c = [d EXCEPT !.val = w]
    BY <1>3
  <2>2. d \in Bus!Conf /\ d.addr \in Bus!Addrs
    BY <1>2
  <2>3. c \in Bus!Conf /\ c.addr = d.addr
    BY <2>1, <2>2 DEF Bus!Conf
  <2>4. ASSUME NEW v \in Bus!Values  PROVE [c EXCEPT !.val = v] \in Bus!Confs
    <3>1. [c EXCEPT !.val = v] = [d EXCEPT !.val = v]
      BY <2>1, <2>2 DEF Bus!Conf
    <3>. QED
      BY <3>1 DEF Bus!Confs
  <2>. QED
    BY <2>2, <2>3, <2>4
<1>5. Flash \subseteq Bus!Confs
  BY <1>2 DEF Bus!Versions
<1>6. Held \subseteq [Bus!Nodes -> Bus!Confs]
  <2>. SUFFICES ASSUME NEW h \in Held  PROVE h \in [Bus!Nodes -> Bus!Confs]
    OBVIOUS
  <2>1. \A n \in Bus!Nodes : h[n] \in Bus!Confs
    BY <1>2 DEF Bus!Versions
  <2>. QED
    BY <2>1 DEF Bus!Configured
<1>7. 0 \in Bus!Addrs
  BY <1>1, <1>2 DEF Bus!NoConf, Bus!Addrs
<1>. QED
  BY <1>1, <1>2, <1>4, <1>5, <1>6, <1>7

\* The types as the proofs use them.
LEMMA BusTypes ==
  Bus!TypeOK <=>
    /\ can \in [Bus!Nodes -> BusNode] /\ held \in [Bus!Nodes -> Bus!Confs]
    /\ frames \in BusQueues
<1>1. Bus!TypeOK <=>
        /\ can \in [Bus!Nodes -> BusNode] /\ held \in [Bus!Nodes -> Bus!Confs]
        /\ frames \in [0 .. NODES -> Seq(Bus!Frame)]
        /\ \A n \in 0 .. NODES : frames[n] \in Seq(FramesTo(n))
  BY DEF Bus!TypeOK, BusNode, FramesTo
<1>. QED
  BY <1>1 DEF BusQueues

LEMMA BusTypesNext ==
  ASSUME can' \in [Bus!Nodes -> BusNode], held' \in [Bus!Nodes -> Bus!Confs], frames' \in BusQueues
  PROVE  Bus!TypeOK'
<1>1. /\ frames' \in [0 .. NODES -> Seq(Bus!Frame)]
      /\ \A n \in 0 .. NODES : frames'[n] \in Seq(FramesTo(n))
  BY DEF BusQueues
<1>. QED
  BY <1>1 DEF Bus!TypeOK, BusNode, FramesTo

LEMMA BusFrames ==
  ASSUME Bus!Configured, frames \in BusQueues, NEW n \in 0 .. NODES
  PROVE  /\ Bus!Rest(n) \in BusQueues
         /\ \A q \in BusQueues, f \in FramesTo(n) : Bus!Sent(q, n, f) \in BusQueues
         /\ frames[n] # <<>> => Head(frames[n]) \in FramesTo(n)
         /\ frames[n] \in Seq(FramesTo(n))
         /\ \A q \in BusQueues, s \in Seq(FramesTo(n)) : [q EXCEPT ![n] = s] \in BusQueues
<1>1. frames[n] \in Seq(FramesTo(n)) /\ \A m \in 0 .. NODES : FramesTo(m) \subseteq Bus!Frame
  BY DEF BusQueues, FramesTo, Bus!Frame
<1>2. frames[n] # <<>> => Tail(frames[n]) \in Seq(FramesTo(n)) /\ Head(frames[n]) \in FramesTo(n)
  BY <1>1
<1>3. ASSUME NEW q \in BusQueues, NEW s \in Seq(FramesTo(n))
      PROVE  [q EXCEPT ![n] = s] \in BusQueues
  <2>1. s \in Seq(Bus!Frame)
    BY <1>1
  <2>. QED
    BY <2>1 DEF BusQueues
<1>4. Bus!Rest(n) \in BusQueues
  BY <1>1, <1>2, <1>3 DEF Bus!Rest
<1>5. ASSUME NEW q \in BusQueues, NEW f \in FramesTo(n)
      PROVE  Bus!Sent(q, n, f) \in BusQueues
  <2>1. Append(q[n], f) \in Seq(FramesTo(n))
    BY DEF BusQueues
  <2>. QED
    BY <2>1, <1>3 DEF Bus!Sent
<1>. QED
  BY <1>1, <1>2, <1>3, <1>4, <1>5

\* What a controller reads, and what it does with it.
LEMMA BusProcessed ==
  ASSUME Bus!Configured, NEW nd \in BusNode, NEW f, f \in Bus!ToNode \/ f = NoFrame
  PROVE  Bus!Processed(nd, f) \in BusNode
<1>1. CASE f.type = "id"
  <2>1. f.addr \in Bus!Addrs
    BY <1>1 DEF Bus!ToNode, NoFrame
  <2>2. Bus!Looked(nd, f) \in BusNode
    <3>1. [nd EXCEPT !.state = "Idle"] \in BusNode
      BY DEF BusNode
    <3>2. [nd EXCEPT !.state = "ReadConfig", !.id = f.addr] \in BusNode
      BY <2>1 DEF BusNode
    <3>. QED
      BY <3>1, <3>2 DEF Bus!Looked
  <2>. QED
    BY <1>1, <2>2 DEF Bus!Processed
<1>2. CASE f.type # "id" /\ Bus!Obeys(nd, f)
  <2>1. f.val \in Bus!Values
    BY <1>2 DEF Bus!ToNode, Bus!Obeys, NoFrame
  <2>2. [nd.conf EXCEPT !.val = f.val] \in Bus!Confs
    BY <2>1, BusConfs DEF BusNode
  <2>3. [nd EXCEPT !.conf.val = f.val] \in BusNode
    BY <2>2 DEF BusNode
  <2>. QED
    BY <1>2, <2>3 DEF Bus!Processed
<1>3. CASE f.type # "id" /\ ~Bus!Obeys(nd, f)
  BY <1>3 DEF Bus!Processed
<1>. QED
  BY <1>1, <1>2, <1>3

LEMMA BusTimed ==
  ASSUME NEW nd \in BusNode, NEW a \in 0 .. 2
  PROVE  /\ [nd EXCEPT !.age = a] \in BusNode
         /\ [nd EXCEPT !.state = "Error", !.age = a] \in BusNode
         /\ [nd EXCEPT !.state = "MACLookup", !.age = a] \in BusNode
<1>1. ASSUME NEW x \in BusNode  PROVE [x EXCEPT !.age = a] \in BusNode
  BY DEF BusNode
<1>2. [nd EXCEPT !.state = "Error"] \in BusNode /\ [nd EXCEPT !.state = "MACLookup"] \in BusNode
  BY DEF BusNode
<1>. QED
  BY <1>1, <1>2

LEMMA BusMoved ==
  ASSUME Bus!Configured, NEW nd \in BusNode, held \in [Bus!Nodes -> Bus!Confs], NEW how
  PROVE  Bus!Moved(nd, how) \in BusNode
<1>1. [nd EXCEPT !.state = "Error", !.age = 0] \in BusNode
  <2>1. 0 \in 0 .. 2
    OBVIOUS
  <2>. QED
    BY <2>1, BusTimed, Zenon
<1>2. [nd EXCEPT !.state = "ConfigLoaded"] \in BusNode
  BY DEF BusNode
<1>3. Bus!Transfer(nd, how) \in BusNode
  <2>1. [nd EXCEPT !.state = "Error", !.conf = Bus!NoConf] \in BusNode
    BY BusConfs DEF BusNode
  <2>2. [nd EXCEPT !.state = "Error"] \in BusNode
    BY DEF BusNode
  <2>3. ASSUME Bus!Comes(nd)  PROVE Bus!Transferred(nd) \in BusNode
    <3>. DEFINE m == CHOOSE n \in Bus!getConfbyID(nd.id) : TRUE
                c == held[m]
    <3>1. m \in Bus!Nodes
      BY <2>3 DEF Bus!Comes, Bus!getConfbyID
    <3>2. c \in Bus!Confs /\ c.addr \in Bus!Addrs
      BY <3>1, BusConfs
    <3>3. Bus!Transferred(nd) =
            [nd EXCEPT !.state = "Idle", !.conf = c, !.crc = c, !.flash = c, !.id = c.addr]
      BY DEF Bus!Transferred
    <3>. HIDE DEF m, c
    <3>. QED
      BY <3>2, <3>3 DEF BusNode
  <2>. QED
    BY <2>1, <2>2, <2>3 DEF Bus!Transfer
<1>. QED
  BY <1>1, <1>2, <1>3 DEF Bus!Moved

LEMMA BusPollTypes ==
  ASSUME Bus!Configured, Bus!TypeOK, NEW n \in Bus!Nodes, NEW how, Bus!Poll(n, how)
  PROVE  Bus!TypeOK'
<1>. DEFINE f == Bus!Received(n)
            nd == Bus!Processed(can[n], f)
            use == IF Bus!Obeys(can[n], f) THEN "locked" ELSE how
<1>1. can \in [Bus!Nodes -> BusNode] /\ held \in [Bus!Nodes -> Bus!Confs]
      /\ frames \in BusQueues /\ n \in 0 .. NODES /\ 0 \in 0 .. NODES
  BY BusTypes DEF Bus!Nodes, Bus!Configured
<1>2. f \in Bus!ToNode \/ f = NoFrame
  <2>1. frames[n] # <<>> => f \in FramesTo(n) /\ n # 0
    BY <1>1, BusFrames DEF Bus!Received, Bus!Nodes
  <2>. QED
    BY <2>1 DEF Bus!Received, NoFrame, FramesTo
<1>3. can[n] \in BusNode /\ nd \in BusNode
  BY <1>1, <1>2, BusProcessed
<1>4. Bus!Rest(n) \in BusQueues
  BY <1>1, BusFrames
<1>5. CASE Bus!LooksAgain(nd)
  <2>1. Bus!Called(n, nd) /\ frames' = Bus!Sent(Bus!Rest(n), 0, Bus!Call(n)) /\ held' = held
    BY <1>5 DEF Bus!Poll
  <2>2. Bus!Call(n) \in FramesTo(0)
    BY DEF Bus!Call, FramesTo, Bus!ToHolder
  <2>3. frames' \in BusQueues
    BY <2>1, <2>2, <1>1, <1>4, BusFrames
  <2>4. [nd EXCEPT !.state = "MACLookup", !.age = 0] \in BusNode
    <3>1. 0 \in 0 .. 2
      OBVIOUS
    <3>. QED
      BY <1>3, <3>1, BusTimed, Zenon
  <2>5. can' \in [Bus!Nodes -> BusNode]
    BY <2>1, <2>4, <1>1 DEF Bus!Called
  <2>. QED
    BY <2>1, <2>3, <2>5, <1>1, BusTypesNext
<1>6. CASE ~Bus!LooksAgain(nd)
  <2>1. can' = [can EXCEPT ![n] = Bus!Moved(nd, use)] /\ frames' = Bus!Answer(n, nd) /\ held' = held
    BY <1>6 DEF Bus!Poll
  <2>2. Bus!Moved(nd, use) \in BusNode
    BY <1>1, <1>3, BusMoved
  <2>3. ASSUME Bus!Obeys(can[n], f)
        PROVE  [type |-> "status", addr |-> nd.id, val |-> nd.conf.val] \in FramesTo(0)
    <3>1. f.val \in Bus!Values /\ f.type = "command"
      BY <2>3, <1>2 DEF Bus!ToNode, Bus!Obeys, NoFrame
    <3>2. nd = [can[n] EXCEPT !.conf.val = f.val]
      BY <2>3, <3>1 DEF Bus!Processed
    <3>3. nd.conf.val = f.val
      BY <3>2, <1>3, BusConfs DEF BusNode, Bus!Conf
    <3>. QED
      BY <3>1, <3>3, <1>3 DEF BusNode, FramesTo, Bus!ToHolder
  <2>4. frames' \in BusQueues
    BY <2>1, <2>3, <1>1, <1>4, BusFrames DEF Bus!Answer
  <2>5. can' \in [Bus!Nodes -> BusNode]
    BY <2>1, <2>2, <1>1
  <2>. QED
    BY <2>1, <2>4, <2>5, <1>1, BusTypesNext
<1>. QED
  BY <1>5, <1>6

LEMMA BusStepTypes ==
  ASSUME Bus!Configured, Bus!TypeOK, [Bus!Next]_Bus!vars
  PROVE  Bus!TypeOK'
<1>1. can \in [Bus!Nodes -> BusNode] /\ held \in [Bus!Nodes -> Bus!Confs]
      /\ frames \in BusQueues /\ 0 \in 0 .. NODES
      /\ \A n \in Bus!Nodes : n \in 0 .. NODES /\ can[n] \in BusNode
  BY BusTypes DEF Bus!Nodes, Bus!Configured
<1>2. ASSUME can' \in [Bus!Nodes -> BusNode], held' \in [Bus!Nodes -> Bus!Confs], frames' \in BusQueues
      PROVE  Bus!TypeOK'
  BY <1>2, BusTypesNext
<1>3. ASSUME NEW n \in Bus!Nodes, Bus!Restart(n)
      PROVE  Bus!TypeOK'
  <2>1. Bus!Booted(can[n].flash) \in BusNode
    <3>1. can[n].flash \in Bus!Confs /\ can[n].flash.addr \in Bus!Addrs
      BY <1>1, BusConfs DEF BusNode
    <3>. QED
      BY <3>1 DEF Bus!Booted, BusNode
  <2>2. can' \in [Bus!Nodes -> BusNode]
    BY <1>1, <1>3, <2>1 DEF Bus!Restart
  <2>3. frames' \in BusQueues
    <3>1. <<>> \in Seq(FramesTo(n))
      OBVIOUS
    <3>2. frames' = [frames EXCEPT ![n] = <<>>]
      BY <1>3 DEF Bus!Restart
    <3>. QED
      BY <1>1, <3>1, <3>2, BusFrames
  <2>. QED
    BY <1>1, <1>2, <1>3, <2>2, <2>3 DEF Bus!Restart
<1>4. CASE Bus!Reload
  <2>1. held' \in [Bus!Nodes -> Bus!Confs] /\ can' = can /\ frames' = frames
    BY <1>4, BusConfs DEF Bus!Reload
  <2>. QED
    BY <1>1, <1>2, <2>1
<1>5. ASSUME NEW n \in 0 .. NODES, Bus!Lose(n)
      PROVE  Bus!TypeOK'
  <2>1. frames[n] \in Seq(FramesTo(n)) /\ frames[n] # <<>> /\ frames' = [frames EXCEPT ![n] = Tail(@)]
    BY <1>1, <1>5, BusFrames DEF Bus!Lose
  <2>2. Tail(frames[n]) \in Seq(FramesTo(n))
    BY <2>1
  <2>3. frames' \in BusQueues
    BY <1>1, <2>1, <2>2, BusFrames
  <2>. QED
    BY <1>1, <1>2, <1>5, <2>3 DEF Bus!Lose
<1>6. ASSUME NEW n \in Bus!Nodes, Bus!Setup(n)
      PROVE  Bus!TypeOK'
  <2>1. [can[n] EXCEPT !.state = "MACLookup", !.age = 0] \in BusNode
    <3>1. 0 \in 0 .. 2 /\ can[n] \in BusNode
      BY <1>1
    <3>. QED
      BY <3>1, BusTimed, Zenon
  <2>2. can' \in [Bus!Nodes -> BusNode]
    BY <1>1, <1>6, <2>1 DEF Bus!Setup, Bus!Called
  <2>3. Bus!Call(n) \in FramesTo(0)
    BY DEF Bus!Call, FramesTo, Bus!ToHolder
  <2>4. frames' \in BusQueues
    BY <1>1, <1>6, <2>3, BusFrames DEF Bus!Setup
  <2>. QED
    BY <1>1, <1>2, <1>6, <2>2, <2>4 DEF Bus!Setup
<1>7. ASSUME NEW n \in Bus!Nodes, NEW how, Bus!Poll(n, how)
      PROVE  Bus!TypeOK'
  BY <1>7, BusPollTypes
<1>8. ASSUME NEW n \in Bus!Nodes, Bus!Change(n)
      PROVE  Bus!TypeOK'
  <2>1. PICK v \in Bus!Values :
          /\ can' = [can EXCEPT ![n].conf.val = v]
          /\ frames' = IF can[n].id = 0 THEN frames
                       ELSE Bus!Sent(frames, 0, [type |-> "status", addr |-> can[n].id, val |-> v])
    BY <1>8 DEF Bus!Change
  <2>2. [can[n].conf EXCEPT !.val = v] \in Bus!Confs
    BY <1>1, BusConfs DEF BusNode
  <2>3. [can[n] EXCEPT !.conf.val = v] \in BusNode
    BY <1>1, <2>2 DEF BusNode
  <2>4. can' \in [Bus!Nodes -> BusNode]
    BY <1>1, <2>1, <2>3
  <2>5. [type |-> "status", addr |-> can[n].id, val |-> v] \in FramesTo(0)
    BY <1>1 DEF BusNode, FramesTo, Bus!ToHolder
  <2>6. frames' \in BusQueues
    BY <1>1, <2>1, <2>5, BusFrames
  <2>. QED
    BY <1>1, <1>2, <1>8, <2>4, <2>6 DEF Bus!Change
<1>9. ASSUME NEW n \in Bus!Nodes, Bus!Age(n) \/ Bus!Late(n)
      PROVE  Bus!TypeOK'
  <2>1. can[n].age + 1 \in 0 .. 2
    BY <1>1, <1>9 DEF BusNode, Bus!Age, Bus!Late
  <2>2. [can[n] EXCEPT !.age = can[n].age + 1] \in BusNode
    BY <1>1, <2>1 DEF BusNode
  <2>3. can' \in [Bus!Nodes -> BusNode] /\ held' = held /\ frames' = frames
    BY <1>1, <1>9, <2>2 DEF Bus!Age, Bus!Late, Bus!Waits
  <2>. QED
    BY <1>1, <1>2, <2>3
<1>10. CASE Bus!PollHolder
  <2>. DEFINE f == Head(frames[0])
  <2>1. f \in Bus!ToHolder
    BY <1>1, <1>10, BusFrames DEF Bus!PollHolder, FramesTo
  <2>2. CASE f.type = "status"
    <3>1. f.val \in Bus!Values
      BY <2>1, <2>2 DEF Bus!ToHolder
    <3>2. Bus!Mirrored(f) \in [Bus!Nodes -> Bus!Confs]
      <4>1. ASSUME NEW n \in Bus!Nodes  PROVE [held[n] EXCEPT !.val = f.val] \in Bus!Confs
        BY <1>1, <3>1, BusConfs
      <4>. QED
        BY <1>1, <4>1 DEF Bus!Mirrored
    <3>3. held' = Bus!Mirrored(f) /\ frames' = Bus!Rest(0) /\ can' = can
      BY <1>10, <2>2 DEF Bus!PollHolder
    <3>. QED
      BY <1>1, <1>2, <3>2, <3>3, BusFrames
  <2>3. CASE f.type # "status"
    <3>. DEFINE g == [type |-> "id", addr |-> held[f.mac].addr, crc |-> held[f.mac]]
    <3>1. held' = held /\ can' = can
          /\ frames' = IF held[f.mac] = Bus!NoConf THEN Bus!Rest(0) ELSE Bus!Sent(Bus!Rest(0), f.mac, g)
      BY <1>10, <2>3 DEF Bus!PollHolder
    <3>2. f.mac \in Bus!Nodes /\ f.mac \in 0 .. NODES /\ f.mac # 0
      BY <1>1, <2>1, <2>3 DEF Bus!ToHolder, Bus!Nodes
    <3>3. g \in FramesTo(f.mac)
      BY <1>1, <3>2, BusConfs DEF FramesTo, Bus!ToNode
    <3>4. Bus!Rest(0) \in BusQueues
      BY <1>1, BusFrames
    <3>5. Bus!Sent(Bus!Rest(0), f.mac, g) \in BusQueues
      BY <1>1, <3>2, <3>3, <3>4, BusFrames
    <3>. QED
      BY <1>1, <1>2, <3>1, <3>4, <3>5
  <2>. QED
    BY <2>2, <2>3
<1>11. ASSUME NEW n \in Bus!Nodes, Bus!remoteCtrl(n)
       PROVE  Bus!TypeOK'
  <2>1. PICK v \in Bus!Values :
          frames' = [m \in 0 .. NODES |->
            IF m \in Bus!Nodes
              THEN Append(frames[m], [type |-> "command", addr |-> held[n].addr, val |-> v])
              ELSE frames[m]]
    BY <1>11 DEF Bus!remoteCtrl
  <2>. DEFINE f == [type |-> "command", addr |-> held[n].addr, val |-> v]
  <2>2. f \in Bus!ToNode
    BY <1>1, BusConfs DEF Bus!ToNode
  <2>3. ASSUME NEW m \in 0 .. NODES
        PROVE  frames'[m] \in Seq(FramesTo(m)) /\ FramesTo(m) \subseteq Bus!Frame
    <3>1. frames[m] \in Seq(FramesTo(m)) /\ FramesTo(m) \subseteq Bus!Frame
      BY <1>1, BusFrames DEF FramesTo, Bus!Frame
    <3>2. m \in Bus!Nodes => f \in FramesTo(m)
      BY <2>2 DEF FramesTo, Bus!Nodes
    <3>3. m \in Bus!Nodes => Append(frames[m], f) \in Seq(FramesTo(m))
      BY <3>1, <3>2
    <3>. QED
      BY <2>1, <3>1, <3>3
  <2>4. frames' \in [0 .. NODES -> Seq(Bus!Frame)]
    <3>1. \A m \in 0 .. NODES : frames'[m] \in Seq(Bus!Frame)
      BY <2>3
    <3>. QED
      BY <2>1, <3>1
  <2>5. frames' \in BusQueues
    BY <2>3, <2>4 DEF BusQueues
  <2>. QED
    BY <1>1, <1>2, <1>11, <2>5 DEF Bus!remoteCtrl
<1>12. CASE UNCHANGED Bus!vars
  BY <1>1, <1>2, <1>12 DEF Bus!vars
<1>13. ASSUME NEW n \in Bus!Nodes, Bus!Fails(n)  PROVE \E how \in {"none", "half"} : Bus!Poll(n, how)
  BY <1>13 DEF Bus!Fails
<1>14. CASE Bus!Outside
  BY <1>1, <1>3, <1>4, <1>5, <1>7, <1>8, <1>9, <1>11, <1>13, <1>14 DEF Bus!Outside
<1>15. CASE \E n \in Bus!Nodes : Bus!Runs(n) \/ Bus!Poll(n, "locked") \/ Bus!Age(n)
  BY <1>6, <1>7, <1>9, <1>15 DEF Bus!Runs
<1>. QED
  BY <1>1, <1>5, <1>10, <1>12, <1>14, <1>15 DEF Bus!Next

\* Types of a bus with any configurations, events and losses.
THEOREM BusTypesHold ==
  ASSUME Bus!Configured
  PROVE  Bus!Spec => []Bus!TypeOK
<1>1. Bus!Init => Bus!TypeOK
  <2>. SUFFICES ASSUME Bus!Init  PROVE Bus!TypeOK
    OBVIOUS
  <2>1. ASSUME NEW f \in Flash  PROVE Bus!Booted(f) \in BusNode
    BY BusConfs DEF Bus!Booted, BusNode
  <2>2. can \in [Bus!Nodes -> BusNode]
    BY <2>1 DEF Bus!Init
  <2>3. held \in [Bus!Nodes -> Bus!Confs]
    BY BusConfs DEF Bus!Init
  <2>4. frames \in BusQueues
    <3>1. \A n \in 0 .. NODES : <<>> \in Seq(Bus!Frame) /\ <<>> \in Seq(FramesTo(n))
      OBVIOUS
    <3>. QED
      BY <3>1 DEF Bus!Init, BusQueues
  <2>. QED
    BY <2>2, <2>3, <2>4, BusTypes
<1>2. Bus!TypeOK /\ [Bus!Next]_Bus!vars => Bus!TypeOK'
  BY BusStepTypes
<1>. QED
  BY <1>1, <1>2, PTL DEF Bus!Spec

\* What reading a frame, and the state machine after it, leave of a controller.
BusReads(nd, f, p) ==
  /\ p.crc = nd.crc /\ p.flash = nd.flash
  /\ \/ p.conf = nd.conf /\ ~Bus!Obeys(nd, f)
     \/ p.conf = [nd.conf EXCEPT !.val = f.val] /\ Bus!Obeys(nd, f) /\ p.id = nd.id /\ p.state = nd.state
  /\ \/ p.id = nd.id /\ p.state = nd.state
     \/ /\ f.type = "id" /\ nd.state = "MACLookup"
        /\ \/ p.state = "Idle" /\ p.id = nd.id /\ nd.conf # Bus!NoConf /\ nd.crc = f.crc
           \/ p.state = "ReadConfig" /\ p.id = f.addr

BusMoves(p, how, q) ==
  \/ /\ q.crc = p.crc /\ q.flash = p.flash /\ q.id = p.id
     /\ \/ q.conf = p.conf /\ (q.state = p.state \/ q.state \in {"Error", "ConfigLoaded"})
        \/ q.conf = Bus!NoConf /\ q.state = "Error"
  \/ /\ how = "all" /\ p.state = "ReadConfig" /\ q.state = "Idle"
     /\ \E m \in Bus!Nodes : /\ held[m] # Bus!NoConf /\ held[m].addr = p.id /\ q.id = p.id
                           /\ q.conf = held[m] /\ q.crc = held[m] /\ q.flash = held[m]

LEMMA BusReadsIt ==
  ASSUME NEW nd \in BusNode, NEW f
  PROVE  BusReads(nd, f, Bus!Processed(nd, f))
<1>1. CASE f.type = "id"
  <2>1. Bus!Processed(nd, f) = Bus!Looked(nd, f) /\ ~Bus!Obeys(nd, f)
    BY <1>1 DEF Bus!Processed, Bus!Obeys
  <2>. QED
    BY <1>1, <2>1 DEF Bus!Looked, BusReads, BusNode
<1>2. CASE f.type # "id" /\ Bus!Obeys(nd, f)
  BY <1>2 DEF Bus!Processed, BusReads, BusNode
<1>3. CASE f.type # "id" /\ ~Bus!Obeys(nd, f)
  BY <1>3 DEF Bus!Processed, BusReads
<1>. QED
  BY <1>1, <1>2, <1>3

LEMMA BusMovesIt ==
  ASSUME NEW p \in BusNode, NEW how
  PROVE  BusMoves(p, how, Bus!Moved(p, how))
<1>1. BusMoves(p, how, p) /\ BusMoves(p, how, [p EXCEPT !.state = "Error"])
      /\ BusMoves(p, how, [p EXCEPT !.state = "ConfigLoaded"])
  BY DEF BusMoves, BusNode
<1>2. BusMoves(p, how, [p EXCEPT !.state = "Error", !.age = 0])
  BY DEF BusMoves, BusNode
<1>3. BusMoves(p, how, [p EXCEPT !.state = "Error", !.conf = Bus!NoConf])
  BY DEF BusMoves, BusNode
<1>4. ASSUME p.state = "ReadConfig", how = "all", Bus!Comes(p)
      PROVE  BusMoves(p, how, Bus!Transferred(p))
  <2>. DEFINE m == CHOOSE n \in Bus!getConfbyID(p.id) : TRUE
              c == held[m]
  <2>1. m \in Bus!Nodes /\ c # Bus!NoConf /\ c.addr = p.id
    BY <1>4 DEF Bus!Comes, Bus!getConfbyID
  <2>2. Bus!Transferred(p) =
          [p EXCEPT !.state = "Idle", !.conf = c, !.crc = c, !.flash = c, !.id = c.addr]
    BY DEF Bus!Transferred
  <2>. HIDE DEF m
  <2>. QED
    BY <1>4, <2>1, <2>2 DEF BusMoves, BusNode
<1>5. p.state = "ReadConfig" => BusMoves(p, how, Bus!Transfer(p, how))
  BY <1>1, <1>3, <1>4 DEF Bus!Transfer
<1>. QED
  BY <1>1, <1>2, <1>5 DEF Bus!Moved

\* A pass of a controller.
LEMMA BusPasses ==
  ASSUME Bus!Configured, Bus!TypeOK, NEW n \in Bus!Nodes, NEW how, Bus!Poll(n, how)
  PROVE  \E p, q \in BusNode :
           /\ BusReads(can[n], Bus!Received(n), p)
           /\ can' = [can EXCEPT ![n] = q] /\ held' = held
           /\ \/ /\ q.state = "MACLookup" /\ p.conf = Bus!NoConf
                 /\ q.conf = p.conf /\ q.crc = p.crc /\ q.flash = p.flash /\ q.id = p.id
                 /\ frames' = Bus!Sent(Bus!Rest(n), 0, Bus!Call(n))
              \/ /\ BusMoves(p, IF Bus!Obeys(can[n], Bus!Received(n)) THEN "locked" ELSE how, q)
                 /\ p.state = "ReadConfig" /\ how = "all" => Bus!Reported(p.id)
                 /\ frames' = Bus!Answer(n, p)
<1>. DEFINE f == Bus!Received(n)
            p == Bus!Processed(can[n], f)
            use == IF Bus!Obeys(can[n], f) THEN "locked" ELSE how
<1>1. can \in [Bus!Nodes -> BusNode] /\ held \in [Bus!Nodes -> Bus!Confs] /\ frames \in BusQueues
      /\ n \in 0 .. NODES /\ can[n] \in BusNode
  BY BusTypes DEF Bus!Nodes, Bus!Configured
<1>2. f \in Bus!ToNode \/ f = NoFrame
  <2>1. frames[n] # <<>> => f \in FramesTo(n) /\ n # 0
    BY <1>1, BusFrames DEF Bus!Received, Bus!Nodes
  <2>. QED
    BY <2>1 DEF Bus!Received, NoFrame, FramesTo
<1>3. p \in BusNode /\ BusReads(can[n], f, p)
  BY <1>1, <1>2, BusProcessed, BusReadsIt
<1>4. CASE Bus!LooksAgain(p)
  <2>. DEFINE q == [p EXCEPT !.state = "MACLookup", !.age = 0]
  <2>1. can' = [can EXCEPT ![n] = q] /\ frames' = Bus!Sent(Bus!Rest(n), 0, Bus!Call(n)) /\ held' = held
    BY <1>4 DEF Bus!Poll, Bus!Called
  <2>2. q \in BusNode
    <3>1. 0 \in 0 .. 2
      OBVIOUS
    <3>. QED
      BY <1>3, <3>1, BusTimed, Zenon
  <2>3. /\ q.state = "MACLookup" /\ p.conf = Bus!NoConf
        /\ q.conf = p.conf /\ q.crc = p.crc /\ q.flash = p.flash /\ q.id = p.id
    BY <1>3, <1>4 DEF Bus!LooksAgain, BusNode
  <2>. HIDE DEF p, q, f
  <2>. QED
    BY <1>3, <2>1, <2>2, <2>3 DEF f
<1>5. CASE ~Bus!LooksAgain(p)
  <2>. DEFINE q == Bus!Moved(p, use)
  <2>1. can' = [can EXCEPT ![n] = q] /\ frames' = Bus!Answer(n, p) /\ held' = held
    BY <1>5 DEF Bus!Poll
  <2>2. q \in BusNode /\ BusMoves(p, use, q)
    BY <1>1, <1>3, BusMoved, BusMovesIt
  <2>3. p.state = "ReadConfig" /\ how = "all" => Bus!Reported(p.id)
    BY DEF Bus!Poll
  <2>. HIDE DEF p, q, f
  <2>. QED
    BY <1>3, <2>1, <2>2, <2>3 DEF f
<1>. QED
  BY <1>4, <1>5

LEMMA BusSteps ==
  ASSUME Bus!Configured, [Bus!Next]_Bus!vars
  PROVE  \/ \E n \in Bus!Nodes : \/ Bus!Restart(n) \/ Bus!Setup(n) \/ \E how \in {"all", "none", "half", "locked"} : Bus!Poll(n, how)
                                \/ Bus!Change(n) \/ Bus!Age(n) \/ Bus!Late(n) \/ Bus!remoteCtrl(n)
         \/ Bus!PollHolder \/ ("reload" \in Events /\ Bus!Reload) \/ (\E n \in 0 .. NODES : Bus!Lose(n)) \/ UNCHANGED Bus!vars
<1>1. ASSUME NEW n \in Bus!Nodes, Bus!Fails(n)  PROVE \E how \in {"none", "half"} : Bus!Poll(n, how)
  BY <1>1 DEF Bus!Fails
<1>2. Bus!Nodes \subseteq 0 .. NODES /\ 0 \in 0 .. NODES
  BY DEF Bus!Nodes, Bus!Configured
<1>3. CASE Bus!Outside
  BY <1>1, <1>2, <1>3 DEF Bus!Outside
<1>4. CASE \E n \in Bus!Nodes : Bus!Runs(n) \/ Bus!Poll(n, "locked") \/ Bus!Age(n)
  BY <1>4 DEF Bus!Runs
<1>. QED
  BY <1>2, <1>3, <1>4 DEF Bus!Next

---------------------------------------------------------------------------------
\* What a controller runs is in its flash.
BusSavedIn(nd) == nd.crc = nd.flash /\ (nd.conf # Bus!NoConf => Bus!Same(nd.conf, nd.flash))
BusSaved == \A n \in Bus!Nodes : BusSavedIn(can[n])

LEMMA BusSavedStep ==
  ASSUME Bus!Configured, Bus!TypeOK, BusSaved, [Bus!Next]_Bus!vars
  PROVE  BusSaved'
<1>1. /\ can \in [Bus!Nodes -> BusNode] /\ held \in [Bus!Nodes -> Bus!Confs]
      /\ \A n \in Bus!Nodes : /\ can[n] \in BusNode /\ BusSavedIn(can[n])
                              /\ can[n].conf \in Bus!Conf /\ can[n].flash \in Bus!Conf
  BY BusTypes, BusConfs DEF BusSaved, BusNode
<1>2. ASSUME NEW n \in Bus!Nodes, NEW q, BusSavedIn(q), can' = [can EXCEPT ![n] = q]
      PROVE  BusSaved'
  BY <1>1, <1>2 DEF BusSaved
<1>3. ASSUME can' = can  PROVE BusSaved'
  BY <1>3 DEF BusSaved
<1>4. ASSUME NEW n \in Bus!Nodes, Bus!Restart(n)
      PROVE  BusSaved'
  <2>1. BusSavedIn(Bus!Booted(can[n].flash))
    BY DEF BusSavedIn, Bus!Booted, Bus!Same
  <2>2. can' = [can EXCEPT ![n] = Bus!Booted(can[n].flash)]
    BY <1>4 DEF Bus!Restart
  <2>. QED
    BY <2>1, <2>2, <1>2
<1>5. ASSUME NEW n \in Bus!Nodes, Bus!Setup(n)
      PROVE  BusSaved'
  <2>. DEFINE q == [can[n] EXCEPT !.state = "MACLookup", !.age = 0]
  <2>1. BusSavedIn(q)
    BY <1>1 DEF BusSavedIn, BusNode
  <2>2. can' = [can EXCEPT ![n] = q]
    BY <1>5 DEF Bus!Setup, Bus!Called
  <2>. HIDE DEF q
  <2>. QED
    BY <2>1, <2>2, <1>2
<1>6. ASSUME NEW n \in Bus!Nodes, NEW how, Bus!Poll(n, how)
      PROVE  BusSaved'
  <2>. DEFINE f == Bus!Received(n)
              use == IF Bus!Obeys(can[n], f) THEN "locked" ELSE how
  <2>1. PICK p, q \in BusNode :
          /\ BusReads(can[n], f, p) /\ can' = [can EXCEPT ![n] = q]
          /\ \/ q.conf = p.conf /\ q.crc = p.crc /\ q.flash = p.flash
             \/ BusMoves(p, use, q)
    BY <1>6, BusPasses
  <2>2. BusSavedIn(p)
    <3>1. p.crc = can[n].crc /\ p.flash = can[n].flash
      BY <2>1 DEF BusReads
    <3>2. CASE p.conf = can[n].conf
      BY <1>1, <3>1, <3>2 DEF BusSavedIn
    <3>3. CASE p.conf = [can[n].conf EXCEPT !.val = f.val] /\ can[n].conf # Bus!NoConf
      BY <1>1, <3>1, <3>3 DEF BusSavedIn, Bus!Same, Bus!Conf
    <3>. QED
      BY <2>1, <3>2, <3>3 DEF BusReads, Bus!Obeys
  <2>3. BusSavedIn(q)
    BY <2>1, <2>2 DEF BusSavedIn, BusMoves, Bus!Same
  <2>. QED
    BY <1>2, <2>1, <2>3
<1>7. ASSUME NEW n \in Bus!Nodes, Bus!Change(n)
      PROVE  BusSaved'
  <2>1. PICK v \in Bus!Values : can' = [can EXCEPT ![n].conf.val = v]
    BY <1>7 DEF Bus!Change
  <2>. DEFINE q == [can[n] EXCEPT !.conf.val = v]
  <2>2. BusSavedIn(q)
    <3>1. q.crc = can[n].crc /\ q.flash = can[n].flash /\ q.conf = [can[n].conf EXCEPT !.val = v]
      BY <1>1 DEF BusNode
    <3>2. can[n].conf # Bus!NoConf
      BY <1>7 DEF Bus!Change
    <3>. QED
      BY <1>1, <3>1, <3>2 DEF BusSavedIn, Bus!Same, Bus!Conf
  <2>3. can' = [can EXCEPT ![n] = q]
    BY <2>1
  <2>. HIDE DEF q
  <2>. QED
    BY <2>2, <2>3, <1>2
<1>8. ASSUME NEW n \in Bus!Nodes, Bus!Age(n) \/ Bus!Late(n)
      PROVE  BusSaved'
  <2>. DEFINE q == [can[n] EXCEPT !.age = can[n].age + 1]
  <2>1. can' = [can EXCEPT ![n] = q]
    BY <1>8 DEF Bus!Age, Bus!Late, Bus!Waits
  <2>2. BusSavedIn(q)
    BY <1>1 DEF BusSavedIn, BusNode
  <2>. HIDE DEF q
  <2>. QED
    BY <2>1, <2>2, <1>2
<1>9. ASSUME NEW n \in 0 .. NODES, Bus!Lose(n) \/ Bus!remoteCtrl(n) \/ Bus!PollHolder \/ Bus!Reload
             \/ UNCHANGED Bus!vars
      PROVE  can' = can
  BY <1>9 DEF Bus!Lose, Bus!remoteCtrl, Bus!PollHolder, Bus!Reload, Bus!vars
<1>10. 0 \in 0 .. NODES /\ Bus!Nodes \subseteq 0 .. NODES
  BY DEF Bus!Nodes, Bus!Configured
<1>. QED
  BY <1>3, <1>4, <1>5, <1>6, <1>7, <1>8, <1>9, <1>10, BusSteps

\* A restart gives a controller the address and the version that it runs, whatever is lost,
\* reloaded or interrupted.
THEOREM SameAfterRestartHolds ==
  ASSUME Bus!Configured
  PROVE  Bus!Spec => []Bus!SameAfterRestart
<1>1. Bus!Init => BusSaved
  <2>. SUFFICES ASSUME Bus!Init, NEW n \in Bus!Nodes  PROVE BusSavedIn(can[n])
    BY DEF BusSaved
  <2>1. PICK f \in Flash : can[n] = Bus!Booted(f)
    BY DEF Bus!Init
  <2>. QED
    BY <2>1 DEF BusSavedIn, Bus!Booted, Bus!Same
<1>2. Bus!TypeOK /\ BusSaved /\ [Bus!Next]_Bus!vars => BusSaved'
  BY BusSavedStep
<1>3. BusSaved => Bus!SameAfterRestart
  BY DEF BusSaved, BusSavedIn, Bus!SameAfterRestart
<1>4. Bus!Spec => []Bus!TypeOK
  BY BusTypesHold
<1>. QED
  BY <1>1, <1>2, <1>3, <1>4, PTL DEF Bus!Spec
---------------------------------------------------------------------------------
\* What is in a queue.
Within(s) == {s[i] : i \in DOMAIN s}
Ids(s) == {f \in Within(s) : f.type = "id"}

LEMMA WithinTail ==
  ASSUME NEW S, NEW s \in Seq(S)
  PROVE  /\ s # <<>> => Head(s) \in Within(s) /\ Within(Tail(s)) \subseteq Within(s)
         /\ \A f \in S : Within(Append(s, f)) \subseteq Within(s) \cup {f}
         /\ Within(<<>>) = {}
<1>1. ASSUME s # <<>>  PROVE Head(s) \in Within(s) /\ Within(Tail(s)) \subseteq Within(s)
  <2>1. Head(s) = s[1] /\ 1 \in DOMAIN s
    BY <1>1
  <2>2. ASSUME NEW i \in DOMAIN Tail(s)  PROVE i + 1 \in DOMAIN s /\ Tail(s)[i] = s[i + 1]
    BY <1>1
  <2>. QED
    BY <2>1, <2>2 DEF Within
<1>2. ASSUME NEW f \in S  PROVE Within(Append(s, f)) \subseteq Within(s) \cup {f}
  <2>1. ASSUME NEW i \in DOMAIN Append(s, f)
        PROVE  Append(s, f)[i] = f \/ (i \in DOMAIN s /\ Append(s, f)[i] = s[i])
    BY DEF Within
  <2>. QED
    BY <2>1 DEF Within
<1>3. Within(<<>>) = {}
  BY DEF Within
<1>. QED
  BY <1>1, <1>2, <1>3

\* A controller is sent an address only in answer to a lookup: its own, as the holder has it.
BusAnswered(n, g) ==
  /\ Bus!PollHolder /\ held[n] # Bus!NoConf
  /\ g.addr = held[n].addr /\ g.crc = held[n]

LEMMA BusQueue ==
  ASSUME Bus!Configured, Bus!TypeOK, [Bus!Next]_Bus!vars, NEW n \in Bus!Nodes
  PROVE  \/ frames'[n] \in {frames[n], <<>>}
         \/ frames[n] # <<>> /\ frames'[n] = Tail(frames[n])
         \/ \E g \in Bus!ToNode : /\ frames'[n] = Append(frames[n], g)
                                  /\ g.type = "id" => BusAnswered(n, g)
<1>1. /\ frames \in [0 .. NODES -> Seq(Bus!Frame)] /\ held \in [Bus!Nodes -> Bus!Confs]
      /\ can \in [Bus!Nodes -> BusNode] /\ frames \in BusQueues
      /\ 0 \in 0 .. NODES /\ Bus!Nodes \subseteq 0 .. NODES /\ n # 0
  BY BusTypes DEF Bus!Nodes, Bus!Configured, BusQueues
<1>2. ASSUME NEW m \in 0 .. NODES
      PROVE  /\ Bus!Rest(m)[n] = frames[n] \/ (frames[n] # <<>> /\ Bus!Rest(m)[n] = Tail(frames[n]))
             /\ \A q \in BusQueues : \A f : Bus!Sent(q, 0, f)[n] = q[n]
             /\ Bus!Rest(0)[n] = frames[n]
  <2>1. Bus!Rest(m)[n] = frames[n] \/ (frames[n] # <<>> /\ Bus!Rest(m)[n] = Tail(frames[n]))
    BY <1>1 DEF Bus!Rest
  <2>2. ASSUME NEW q \in BusQueues, NEW f  PROVE Bus!Sent(q, 0, f)[n] = q[n]
    BY <1>1 DEF Bus!Sent, BusQueues
  <2>3. Bus!Rest(0)[n] = frames[n]
    BY <1>1 DEF Bus!Rest
  <2>. QED
    BY <2>1, <2>2, <2>3
<1>3. ASSUME NEW m \in Bus!Nodes, Bus!Restart(m)
      PROVE  frames'[n] \in {frames[n], <<>>}
  BY <1>1, <1>3 DEF Bus!Restart
<1>4. ASSUME NEW m \in Bus!Nodes, Bus!Setup(m)
      PROVE  frames'[n] = frames[n]
  BY <1>1, <1>2, <1>4 DEF Bus!Setup
<1>5. ASSUME NEW m \in Bus!Nodes, NEW how, Bus!Poll(m, how)
      PROVE  frames'[n] = frames[n] \/ (frames[n] # <<>> /\ frames'[n] = Tail(frames[n]))
  <2>1. m \in 0 .. NODES /\ Bus!Rest(m) \in BusQueues
    BY <1>1, BusFrames
  <2>2. frames'[n] = Bus!Rest(m)[n]
    <3>1. PICK p : frames' = Bus!Sent(Bus!Rest(m), 0, Bus!Call(m)) \/ frames' = Bus!Answer(m, p)
      BY <1>5, BusPasses
    <3>2. frames' = Bus!Rest(m) \/ \E f : frames' = Bus!Sent(Bus!Rest(m), 0, f)
      BY <3>1 DEF Bus!Answer
    <3>. QED
      BY <1>2, <2>1, <3>2
  <2>. QED
    BY <1>2, <2>1, <2>2
<1>6. ASSUME NEW m \in Bus!Nodes, Bus!Change(m)
      PROVE  frames'[n] = frames[n]
  <2>1. frames' = frames \/ \E f : frames' = Bus!Sent(frames, 0, f)
    BY <1>6 DEF Bus!Change
  <2>. QED
    BY <1>1, <1>2, <2>1
<1>7. ASSUME NEW m \in Bus!Nodes, Bus!remoteCtrl(m)
      PROVE  \E g \in Bus!ToNode : frames'[n] = Append(frames[n], g) /\ g.type = "command"
  <2>1. PICK v \in Bus!Values :
          frames' = [k \in 0 .. NODES |->
            IF k \in Bus!Nodes
              THEN Append(frames[k], [type |-> "command", addr |-> held[m].addr, val |-> v])
              ELSE frames[k]]
    BY <1>7 DEF Bus!remoteCtrl
  <2>. DEFINE g == [type |-> "command", addr |-> held[m].addr, val |-> v]
  <2>2. g \in Bus!ToNode /\ g.type = "command"
    BY <1>1, BusConfs DEF Bus!ToNode
  <2>3. frames'[n] = Append(frames[n], g)
    BY <1>1, <2>1
  <2>. HIDE DEF g
  <2>. QED
    BY <2>2, <2>3
<1>8. CASE Bus!PollHolder
  <2>. DEFINE f == Head(frames[0])
              g == [type |-> "id", addr |-> held[f.mac].addr, crc |-> held[f.mac]]
  <2>1. f \in Bus!ToHolder
    BY <1>1, <1>8, BusFrames DEF Bus!PollHolder, FramesTo
  <2>2. CASE f.type = "status" \/ held[f.mac] = Bus!NoConf
    <3>1. frames'[n] = frames[n]
      BY <1>2, <1>8, <2>2, <1>1 DEF Bus!PollHolder
    <3>. QED
      BY <3>1
  <2>3. CASE f.type # "status" /\ held[f.mac] # Bus!NoConf
    <3>1. f.mac \in Bus!Nodes /\ f.mac \in 0 .. NODES
      BY <1>1, <2>1, <2>3 DEF Bus!ToHolder
    <3>2. frames' = Bus!Sent(Bus!Rest(0), f.mac, g)
      BY <1>8, <2>3 DEF Bus!PollHolder
    <3>3. Bus!Rest(0) \in BusQueues /\ Bus!Rest(0)[n] = frames[n]
      BY <1>1, <1>2, BusFrames
    <3>4. CASE f.mac = n
      <4>1. frames'[n] = Append(frames[n], g)
        BY <1>1, <3>2, <3>3, <3>4 DEF Bus!Sent, BusQueues
      <4>2. g \in Bus!ToNode /\ BusAnswered(n, g)
        BY <1>1, <1>8, <2>3, <3>4, BusConfs DEF Bus!ToNode, BusAnswered
      <4>. QED
        BY <4>1, <4>2
    <3>5. CASE f.mac # n
      BY <1>1, <3>2, <3>3, <3>5 DEF Bus!Sent, BusQueues
    <3>. QED
      BY <3>4, <3>5
  <2>. QED
    BY <2>2, <2>3
<1>9. ASSUME NEW m \in 0 .. NODES, Bus!Lose(m)
      PROVE  frames'[n] = frames[n] \/ (frames[n] # <<>> /\ frames'[n] = Tail(frames[n]))
  BY <1>1, <1>9 DEF Bus!Lose
<1>10. CASE Bus!Age(n) \/ Bus!Late(n) \/ Bus!Reload \/ UNCHANGED Bus!vars
  BY <1>10 DEF Bus!Age, Bus!Late, Bus!Waits, Bus!Reload, Bus!vars
<1>11. ASSUME NEW m \in Bus!Nodes, Bus!Age(m) \/ Bus!Late(m)
       PROVE  frames'[n] = frames[n]
  BY <1>11 DEF Bus!Age, Bus!Late, Bus!Waits
<1>. QED
  BY <1>3, <1>4, <1>5, <1>6, <1>7, <1>8, <1>9, <1>10, <1>11, BusSteps

LEMMA BusIds ==
  ASSUME Bus!Configured, Bus!TypeOK, [Bus!Next]_Bus!vars, NEW n \in Bus!Nodes, NEW g \in Ids(frames'[n])
  PROVE  g \in Ids(frames[n]) \/ BusAnswered(n, g)
<1>1. frames[n] \in Seq(Bus!ToNode)
  BY BusTypes DEF BusQueues, FramesTo, Bus!Nodes, Bus!Configured
<1>2. g \in Within(frames'[n]) /\ g.type = "id"
  BY DEF Ids
<1>3. g \in Within(frames[n]) \/ BusAnswered(n, g)
  <2>1. CASE frames'[n] \in {frames[n], <<>>} \/ (frames[n] # <<>> /\ frames'[n] = Tail(frames[n]))
    BY <1>1, <1>2, <2>1, WithinTail
  <2>2. CASE \E h \in Bus!ToNode : frames'[n] = Append(frames[n], h) /\ (h.type = "id" => BusAnswered(n, h))
    <3>1. PICK h \in Bus!ToNode : frames'[n] = Append(frames[n], h) /\ (h.type = "id" => BusAnswered(n, h))
      BY <2>2
    <3>2. g \in Within(frames[n]) \cup {h}
      BY <1>1, <1>2, <3>1, WithinTail
    <3>. QED
      BY <1>2, <3>1, <3>2
  <2>. QED
    BY <2>1, <2>2, BusQueue
<1>. QED
  BY <1>2, <1>3 DEF Ids

LEMMA BusReceivedId ==
  ASSUME Bus!Configured, Bus!TypeOK, NEW n \in Bus!Nodes, Bus!Received(n).type = "id"
  PROVE  Bus!Received(n) \in Ids(frames[n])
<1>1. frames[n] \in Seq(Bus!ToNode)
  BY BusTypes DEF BusQueues, FramesTo, Bus!Nodes, Bus!Configured
<1>. QED
  BY <1>1, WithinTail DEF Bus!Received, Ids
---------------------------------------------------------------------------------
\* The addresses of the controllers differ, and a configuration gives none but these.
Addressed(A) ==
  /\ A \in [Bus!Nodes -> Nat \ {0}] /\ \A m, n \in Bus!Nodes : A[m] = A[n] => m = n
  /\ \A h \in Held : \A n \in Bus!Nodes : h[n] = Bus!NoConf \/ h[n].addr = A[n]

\* A controller has its address or none; it asks for a configuration, and is told that it has
\* the one of the holder, under its address.
OwnAddress(nd, a) ==
  /\ nd.id \in {0, a} /\ nd.flash.addr \in {0, a} /\ (nd.id = 0 => nd.flash.addr = 0)
  /\ nd.state \in {"ReadConfig", "Idle"} => nd.id = a
BusOwned(A) ==
  /\ \A n \in Bus!Nodes : held[n] = Bus!NoConf \/ held[n].addr = A[n]
  /\ \A n \in Bus!Nodes : OwnAddress(can[n], A[n])
  /\ \A n \in Bus!Nodes : \A g \in Ids(frames[n]) : g.addr = A[n] /\ g.crc.addr = A[n]

LEMMA BusOwnedPoll ==
  ASSUME Bus!Configured, Bus!TypeOK, BusSaved, NEW A, Addressed(A), BusOwned(A),
         NEW n \in Bus!Nodes, NEW how, NEW p \in BusNode, NEW q \in BusNode,
         BusReads(can[n], Bus!Received(n), p),
         \/ q.state = "MACLookup" /\ q.flash = p.flash /\ q.id = p.id
         \/ BusMoves(p, how, q)
  PROVE  OwnAddress(p, A[n]) /\ OwnAddress(q, A[n])
<1>. DEFINE f == Bus!Received(n)
<1>1. OwnAddress(can[n], A[n]) /\ can[n].crc = can[n].flash
  BY DEF BusOwned, BusSaved, BusSavedIn
<1>2. OwnAddress(p, A[n])
  <2>1. CASE p.id = can[n].id /\ p.state = can[n].state
    BY <1>1, <2>1 DEF BusReads, OwnAddress
  <2>2. CASE f.type = "id" /\ p.flash = can[n].flash
             /\ \/ p.state = "Idle" /\ p.id = can[n].id /\ can[n].crc = f.crc
                \/ p.state = "ReadConfig" /\ p.id = f.addr
    <3>1. f.addr = A[n] /\ f.crc.addr = A[n]
      BY <2>2, BusReceivedId DEF BusOwned
    <3>2. A[n] # 0
      BY DEF Addressed
    <3>. QED
      BY <1>1, <2>2, <3>1, <3>2 DEF OwnAddress
  <2>. QED
    BY <2>1, <2>2 DEF BusReads
<1>3. CASE q.flash = p.flash /\ q.id = p.id /\ (q.state = p.state \/ q.state \in {"MACLookup", "Error", "ConfigLoaded"})
  BY <1>2, <1>3 DEF OwnAddress
<1>4. CASE /\ p.state = "ReadConfig" /\ q.id = p.id
           /\ \E m \in Bus!Nodes : held[m].addr = p.id /\ q.flash = held[m]
  <2>1. p.id = A[n] /\ A[n] # 0
    BY <1>2, <1>4 DEF OwnAddress, Addressed
  <2>2. q.id = A[n] /\ q.flash.addr = A[n]
    BY <1>4, <2>1
  <2>. QED
    BY <1>2, <2>1, <2>2 DEF OwnAddress
<1>. QED
  BY <1>2, <1>3, <1>4 DEF BusMoves

LEMMA BusOwnedStep ==
  ASSUME Bus!Configured, Bus!TypeOK, BusSaved, NEW A, Addressed(A), BusOwned(A), [Bus!Next]_Bus!vars
  PROVE  BusOwned(A)'
<1>1. /\ can \in [Bus!Nodes -> BusNode] /\ held \in [Bus!Nodes -> Bus!Confs]
      /\ \A n \in Bus!Nodes : can[n] \in BusNode /\ OwnAddress(can[n], A[n])
      /\ \A n \in Bus!Nodes : held[n] \in Bus!Conf
  BY BusTypes, BusConfs DEF BusOwned
<1>2. ASSUME NEW n \in Bus!Nodes, NEW g \in Ids(frames'[n])
      PROVE  g.addr = A[n] /\ g.crc.addr = A[n]
  <2>1. g \in Ids(frames[n]) \/ BusAnswered(n, g)
    BY BusIds
  <2>. QED
    BY <2>1 DEF BusOwned, BusAnswered
<1>3. \A n \in Bus!Nodes : held'[n] = Bus!NoConf \/ held'[n].addr = A[n]
  <2>1. CASE held' = held
    BY <2>1 DEF BusOwned
  <2>2. CASE Bus!Reload
    BY <2>2 DEF Bus!Reload, Addressed
  <2>3. CASE Bus!PollHolder
    <3>1. held' = held \/ held' = Bus!Mirrored(Head(frames[0]))
      BY <2>3 DEF Bus!PollHolder
    <3>2. ASSUME NEW n \in Bus!Nodes, NEW f
          PROVE  Bus!Mirrored(f)[n] = Bus!NoConf \/ Bus!Mirrored(f)[n].addr = A[n]
      <4>1. CASE n \in Bus!getConfbyID(f.addr)
        <5>1. Bus!Mirrored(f)[n] = [held[n] EXCEPT !.val = f.val] /\ held[n] # Bus!NoConf
          BY <4>1 DEF Bus!Mirrored, Bus!getConfbyID
        <5>. QED
          BY <1>1, <5>1 DEF BusOwned, Bus!Conf
      <4>2. CASE n \notin Bus!getConfbyID(f.addr)
        BY <4>2 DEF Bus!Mirrored, BusOwned
      <4>. QED
        BY <4>1, <4>2
    <3>. QED
      BY <2>1, <3>1, <3>2
  <2>4. held' = held \/ Bus!Reload \/ Bus!PollHolder
    <3>1. ASSUME NEW n \in Bus!Nodes, NEW how, Bus!Poll(n, how)  PROVE held' = held
      BY <3>1 DEF Bus!Poll
    <3>2. ASSUME NEW n \in 0 .. NODES,
                 Bus!Restart(n) \/ Bus!Setup(n) \/ Bus!Change(n) \/ Bus!Age(n) \/ Bus!Late(n)
                   \/ Bus!remoteCtrl(n) \/ Bus!Lose(n) \/ UNCHANGED Bus!vars
          PROVE  held' = held
      BY <3>2 DEF Bus!Restart, Bus!Setup, Bus!Change, Bus!Age, Bus!Late, Bus!Waits, Bus!remoteCtrl, Bus!Lose,
                  Bus!vars
    <3>3. Bus!Nodes \subseteq 0 .. NODES /\ 0 \in 0 .. NODES
      BY DEF Bus!Nodes, Bus!Configured
    <3>. QED
      BY <3>1, <3>2, <3>3, BusSteps
  <2>. QED
    BY <2>1, <2>2, <2>3, <2>4
<1>4. \A n \in Bus!Nodes : OwnAddress(can'[n], A[n])
  <2>1. ASSUME NEW m \in Bus!Nodes, NEW q, OwnAddress(q, A[m]), can' = [can EXCEPT ![m] = q]
        PROVE  \A n \in Bus!Nodes : OwnAddress(can'[n], A[n])
    BY <1>1, <2>1
  <2>2. ASSUME NEW m \in Bus!Nodes, Bus!Restart(m)
        PROVE  \A n \in Bus!Nodes : OwnAddress(can'[n], A[n])
    <3>1. OwnAddress(Bus!Booted(can[m].flash), A[m])
      BY <1>1 DEF OwnAddress, Bus!Booted
    <3>2. can' = [can EXCEPT ![m] = Bus!Booted(can[m].flash)]
      BY <2>2 DEF Bus!Restart
    <3>. QED
      BY <2>1, <3>1, <3>2
  <2>3. ASSUME NEW m \in Bus!Nodes, Bus!Setup(m)
        PROVE  \A n \in Bus!Nodes : OwnAddress(can'[n], A[n])
    <3>. DEFINE q == [can[m] EXCEPT !.state = "MACLookup", !.age = 0]
    <3>1. can' = [can EXCEPT ![m] = q]
      BY <2>3 DEF Bus!Setup, Bus!Called
    <3>2. OwnAddress(q, A[m])
      BY <1>1 DEF OwnAddress, BusNode
    <3>. HIDE DEF q
    <3>. QED
      BY <2>1, <3>1, <3>2
  <2>4. ASSUME NEW m \in Bus!Nodes, NEW how, Bus!Poll(m, how)
        PROVE  \A n \in Bus!Nodes : OwnAddress(can'[n], A[n])
    <3>. DEFINE use == IF Bus!Obeys(can[m], Bus!Received(m)) THEN "locked" ELSE how
    <3>1. PICK p, q \in BusNode :
            /\ BusReads(can[m], Bus!Received(m), p) /\ can' = [can EXCEPT ![m] = q]
            /\ \/ q.state = "MACLookup" /\ q.flash = p.flash /\ q.id = p.id
               \/ BusMoves(p, use, q)
      BY <2>4, BusPasses
    <3>. HIDE DEF use
    <3>2. OwnAddress(q, A[m])
      BY <3>1, BusOwnedPoll
    <3>. QED
      BY <2>1, <3>1, <3>2
  <2>5. ASSUME NEW m \in Bus!Nodes, Bus!Change(m)
        PROVE  \A n \in Bus!Nodes : OwnAddress(can'[n], A[n])
    <3>1. PICK v \in Bus!Values : can' = [can EXCEPT ![m].conf.val = v]
      BY <2>5 DEF Bus!Change
    <3>. DEFINE q == [can[m] EXCEPT !.conf.val = v]
    <3>2. can' = [can EXCEPT ![m] = q]
      BY <3>1
    <3>3. OwnAddress(q, A[m])
      BY <1>1 DEF OwnAddress, BusNode
    <3>. HIDE DEF q
    <3>. QED
      BY <2>1, <3>2, <3>3
  <2>6. ASSUME NEW m \in Bus!Nodes, Bus!Age(m) \/ Bus!Late(m)
        PROVE  \A n \in Bus!Nodes : OwnAddress(can'[n], A[n])
    <3>. DEFINE q == [can[m] EXCEPT !.age = can[m].age + 1]
    <3>1. can' = [can EXCEPT ![m] = q]
      BY <2>6 DEF Bus!Age, Bus!Late, Bus!Waits
    <3>2. OwnAddress(q, A[m])
      BY <1>1 DEF OwnAddress, BusNode
    <3>. HIDE DEF q
    <3>. QED
      BY <2>1, <3>1, <3>2
  <2>7. ASSUME NEW m \in 0 .. NODES,
               Bus!Lose(m) \/ Bus!remoteCtrl(m) \/ Bus!PollHolder \/ Bus!Reload \/ UNCHANGED Bus!vars
        PROVE  \A n \in Bus!Nodes : OwnAddress(can'[n], A[n])
    <3>1. can' = can
      BY <2>7 DEF Bus!Lose, Bus!remoteCtrl, Bus!PollHolder, Bus!Reload, Bus!vars
    <3>. QED
      BY <1>1, <3>1
  <2>8. Bus!Nodes \subseteq 0 .. NODES /\ 0 \in 0 .. NODES
    BY DEF Bus!Nodes, Bus!Configured
  <2>. QED
    BY <2>2, <2>3, <2>4, <2>5, <2>6, <2>7, <2>8, BusSteps
<1>. QED
  BY <1>2, <1>3, <1>4 DEF BusOwned

\* What the controllers have in flash when the model begins came from the same holder.
Acquainted(A) == \A n \in Bus!Nodes : can[n].flash.addr \in {0, A[n]}

LEMMA BusOwnedInit ==
  ASSUME Bus!Configured, NEW A, Addressed(A), Bus!Init, Acquainted(A)
  PROVE  BusSaved /\ BusOwned(A)
<1>1. ASSUME NEW n \in Bus!Nodes  PROVE BusSavedIn(can[n]) /\ OwnAddress(can[n], A[n]) /\ Ids(frames[n]) = {}
  <2>1. PICK f \in Flash : can[n] = Bus!Booted(f)
    BY DEF Bus!Init
  <2>2. can[n].flash = f /\ f.addr \in {0, A[n]} /\ A[n] # 0
    BY <2>1 DEF Bus!Booted, Acquainted, Addressed
  <2>3. frames[n] = <<>>
    BY DEF Bus!Init, Bus!Nodes, Bus!Configured
  <2>. QED
    BY <2>1, <2>2, <2>3 DEF BusSavedIn, OwnAddress, Bus!Booted, Bus!Same, Ids, Within
<1>2. ASSUME NEW n \in Bus!Nodes  PROVE held[n] = Bus!NoConf \/ held[n].addr = A[n]
  BY DEF Bus!Init, Addressed
<1>. QED
  BY <1>1, <1>2 DEF BusSaved, BusOwned

\* Where the holder gives the controllers different addresses, also with its next configuration,
\* no two ever speak under the same one, whatever is lost or interrupted.
THEOREM OneAddressHolds ==
  ASSUME Bus!Configured, NEW A, Addressed(A)
  PROVE  Bus!Spec /\ Acquainted(A) => []Bus!OneAddressEach
<1>1. Bus!Init /\ Acquainted(A) => BusSaved /\ BusOwned(A)
  BY BusOwnedInit
<1>2. Bus!TypeOK /\ BusSaved /\ BusOwned(A) /\ [Bus!Next]_Bus!vars => BusSaved' /\ BusOwned(A)'
  BY BusSavedStep, BusOwnedStep
<1>3. BusOwned(A) => Bus!OneAddressEach
  <2>1. ASSUME BusOwned(A), NEW m \in Bus!Nodes, NEW n \in Bus!Nodes, can[m].id = can[n].id
        PROVE  m = n \/ can[m].id = 0
    BY <2>1 DEF BusOwned, OwnAddress, Addressed
  <2>. QED
    BY <2>1 DEF Bus!OneAddressEach
<1>4. Bus!Spec => []Bus!TypeOK
  BY BusTypesHold
<1>. QED
  BY <1>1, <1>2, <1>3, <1>4, PTL DEF Bus!Spec
---------------------------------------------------------------------------------
\* A status of an address; a queue that tells no less of it than another.
StatusOf(f, a) == f.type = "status" /\ f.addr = a
TellsOn(s, t, a) ==
  /\ Bus!StatusesIn(s, a) = {} => Bus!StatusesIn(t, a) = {}
  /\ \A v, c \in Int : Bus!Tells(s, a, v, c) => Bus!Tells(t, a, v, c)

LEMMA StatusesAppend ==
  ASSUME NEW s \in Seq(Bus!ToHolder), NEW f \in Bus!ToHolder, NEW a
  PROVE  /\ ~StatusOf(f, a) => TellsOn(s, Append(s, f), a)
         /\ StatusOf(f, a) => \A v \in Int : Bus!Tells(Append(s, f), a, v, f.val)
<1>. DEFINE t == Append(s, f)
            last == Len(s) + 1
<1>1. /\ DOMAIN s = 1 .. Len(s) /\ DOMAIN t = 1 .. last /\ last \in DOMAIN t /\ Len(s) \in Nat
      /\ t[last] = f /\ \A i \in DOMAIN s : t[i] = s[i] /\ i \in DOMAIN t
  OBVIOUS
<1>. HIDE DEF t
<1>2. Bus!StatusesIn(s, a) \subseteq DOMAIN s /\ Bus!StatusesIn(t, a) \subseteq DOMAIN t
  BY DEF Bus!StatusesIn
<1>3. ASSUME ~StatusOf(f, a)  PROVE TellsOn(s, t, a)
  <2>1. Bus!StatusesIn(t, a) = Bus!StatusesIn(s, a)
    <3>1. ASSUME NEW i \in DOMAIN t  PROVE i = last \/ i \in DOMAIN s
      BY <1>1
    <3>. QED
      BY <1>1, <1>3, <3>1 DEF Bus!StatusesIn, StatusOf
  <2>2. \A i \in Bus!StatusesIn(s, a) : t[i] = s[i]
    BY <1>1, <1>2
  <2>. QED
    BY <2>1, <2>2 DEF TellsOn, Bus!Tells
<1>4. ASSUME StatusOf(f, a), NEW v \in Int  PROVE Bus!Tells(t, a, v, f.val)
  <2>1. last \in Bus!StatusesIn(t, a)
    BY <1>1, <1>4 DEF Bus!StatusesIn, StatusOf
  <2>2. \A j \in Bus!StatusesIn(t, a) : j <= last
    BY <1>1, <1>2
  <2>. HIDE DEF last
  <2>. QED
    BY <1>1, <2>1, <2>2 DEF Bus!Tells
<1>. QED
  BY <1>3, <1>4 DEF t

LEMMA StatusesTail ==
  ASSUME NEW s \in Seq(Bus!ToHolder), s # <<>>, NEW a
  PROVE  /\ ~StatusOf(Head(s), a) => TellsOn(s, Tail(s), a)
         /\ StatusOf(Head(s), a) =>
              \A v, c \in Int : Bus!Tells(s, a, v, c) => Bus!Tells(Tail(s), a, Head(s).val, c)
<1>. DEFINE t == Tail(s)
<1>1. /\ DOMAIN s = 1 .. Len(s) /\ DOMAIN t = 1 .. Len(s) - 1 /\ Len(s) \in Nat /\ 1 \in DOMAIN s
      /\ Head(s) = s[1] /\ \A i \in DOMAIN t : t[i] = s[i + 1]
  OBVIOUS
<1>. HIDE DEF t
<1>2. \A i \in Int : i \in Bus!StatusesIn(t, a) <=> i + 1 \in Bus!StatusesIn(s, a) \ {1}
  <2>1. ASSUME NEW i \in Int  PROVE i \in DOMAIN t <=> i + 1 \in DOMAIN s /\ i + 1 # 1
    BY <1>1
  <2>. QED
    BY <1>1, <2>1 DEF Bus!StatusesIn
<1>3. /\ \A i \in Bus!StatusesIn(s, a) : i \in Int /\ i - 1 \in Int /\ i = (i - 1) + 1
      /\ \A i \in Bus!StatusesIn(t, a) : i \in Int /\ t[i] = s[i + 1]
  BY <1>1 DEF Bus!StatusesIn
<1>4. \A i \in Bus!StatusesIn(s, a) \ {1} : i - 1 \in Bus!StatusesIn(t, a) /\ t[i - 1] = s[i]
  <2>1. ASSUME NEW i \in Bus!StatusesIn(s, a) \ {1}
        PROVE  i - 1 \in Bus!StatusesIn(t, a) /\ t[i - 1] = s[i]
    <3>1. i \in Int /\ i - 1 \in Int /\ (i - 1) + 1 = i
      BY <1>3
    <3>2. i - 1 \in Bus!StatusesIn(t, a)
      BY <1>2, <3>1
    <3>. QED
      BY <1>3, <3>1, <3>2
  <2>. QED
    BY <2>1
<1>5. ASSUME NEW v, NEW w, NEW c, Bus!Tells(s, a, v, c),
             \/ ~StatusOf(Head(s), a) /\ w = v
             \/ StatusOf(Head(s), a) /\ w = Head(s).val
      PROVE  Bus!Tells(t, a, w, c)
  <2>1. 1 \in Bus!StatusesIn(s, a) <=> StatusOf(Head(s), a)
    BY <1>1 DEF Bus!StatusesIn, StatusOf
  <2>2. CASE Bus!StatusesIn(s, a) = {}
    <3>1. Bus!StatusesIn(t, a) = {} /\ w = v
      BY <1>2, <1>3, <1>5, <2>1, <2>2
    <3>. QED
      BY <1>5, <2>2, <3>1 DEF Bus!Tells
  <2>3. CASE Bus!StatusesIn(s, a) # {}
    <3>1. PICK i \in Bus!StatusesIn(s, a) : s[i].val = c /\ \A j \in Bus!StatusesIn(s, a) : j <= i
      BY <1>5, <2>3 DEF Bus!Tells
    <3>2. CASE i = 1
      <4>1. \A j \in Bus!StatusesIn(s, a) : j = 1
        <5>1. \A j \in Bus!StatusesIn(s, a) : j \in Int /\ j >= 1
          BY <1>1 DEF Bus!StatusesIn
        <5>. QED
          BY <3>1, <3>2, <5>1
      <4>2. Bus!StatusesIn(t, a) = {}
        BY <1>2, <1>3, <4>1
      <4>3. w = c
        BY <1>1, <1>5, <2>1, <3>1, <3>2
      <4>. QED
        BY <4>2, <4>3 DEF Bus!Tells
    <3>3. CASE i # 1
      <4>1. i - 1 \in Bus!StatusesIn(t, a) /\ t[i - 1] = s[i]
        BY <1>4, <3>3
      <4>2. \A j \in Bus!StatusesIn(t, a) : j <= i - 1
        <5>1. ASSUME NEW j \in Bus!StatusesIn(t, a)  PROVE j <= i - 1
          <6>1. j \in Int /\ i \in Int /\ j + 1 \in Bus!StatusesIn(s, a)
            BY <1>2, <1>3
          <6>2. j + 1 <= i
            BY <3>1, <6>1
          <6>. QED
            BY <6>1, <6>2
        <5>. QED
          BY <5>1
      <4>3. t[i - 1].val = c
        BY <3>1, <4>1
      <4>. QED
        BY <4>1, <4>2, <4>3 DEF Bus!Tells
    <3>. QED
      BY <3>2, <3>3
  <2>. QED
    BY <2>2, <2>3
<1>6. Bus!StatusesIn(s, a) = {} => Bus!StatusesIn(t, a) = {}
  BY <1>2, <1>3
<1>. QED
  BY <1>5, <1>6 DEF t, TellsOn
---------------------------------------------------------------------------------
\* What the holder, which has h of a controller with address a, has been told of its item: by
\* statuses in its queue s, and, from a restart on, as long as the answers ids say nothing else,
\* by what it has sent itself.
Agrees(s, h, nd, a) == Bus!Tells(s, a, h.val, nd.conf.val)
ToldOf(s, ids, h, nd, a) ==
  /\ nd.id # a => Bus!StatusesIn(s, a) = {}
  /\ h = Bus!NoConf => ids = {} /\ nd.state # "Idle"
  /\ h # Bus!NoConf /\ nd.state = "Idle" => Agrees(s, h, nd, a)
  /\ h # Bus!NoConf /\ nd.state \in {"Unknown", "MACLookup"} /\ nd.conf # Bus!NoConf =>
       /\ nd.id # 0 => Agrees(s, h, nd, a) \/ (Bus!StatusesIn(s, a) = {} /\ nd.conf.val = nd.crc.val)
       /\ \A g \in ids : g.crc = nd.crc => Agrees(s, h, nd, a)
BusTold(A, n) == ToldOf(frames[0], Ids(frames[n]), held[n], can[n], A[n])

\* It stays told when the queue tells no less; also in a state in which nothing is promised.
LEMMA ToldStays ==
  ASSUME NEW s, NEW t, NEW a, NEW ids, NEW few \in SUBSET ids, NEW h, NEW nd, NEW q,
         h.val \in Int, nd.conf.val \in Int, ToldOf(s, ids, h, nd, a), s = t \/ TellsOn(s, t, a),
         \/ /\ q.id = nd.id /\ q.conf = nd.conf /\ q.crc = nd.crc
            /\ q.state = nd.state \/ (q.state = "MACLookup" /\ nd.state = "Unknown")
         \/ (q.id = nd.id \/ q.id = a) /\ q.state \notin {"Unknown", "MACLookup", "Idle"}
         \/ (q.id = nd.id \/ q.id = a) /\ q.state # "Idle" /\ q.conf = Bus!NoConf
  PROVE  ToldOf(t, few, h, q, a)
<1>1. Bus!StatusesIn(s, a) = {} => Bus!StatusesIn(t, a) = {}
  BY DEF TellsOn
<1>2. Bus!Tells(s, a, h.val, nd.conf.val) => Bus!Tells(t, a, h.val, nd.conf.val)
  BY DEF TellsOn
<1>3. CASE /\ q.id = nd.id /\ q.conf = nd.conf /\ q.crc = nd.crc
           /\ q.state = nd.state \/ (q.state = "MACLookup" /\ nd.state = "Unknown")
  BY <1>1, <1>2, <1>3 DEF ToldOf, Agrees
<1>4. CASE /\ q.id = nd.id \/ q.id = a
           /\ q.state # "Idle" /\ (q.conf = Bus!NoConf \/ q.state \notin {"Unknown", "MACLookup", "Idle"})
  BY <1>1, <1>4 DEF ToldOf
<1>. QED
  BY <1>3, <1>4

\* The item changes: a controller with an address tells it, and one without is not answered that
\* the holder has its configuration.
LEMMA ToldAnew ==
  ASSUME NEW s, NEW t, NEW a, NEW ids, NEW few \in SUBSET ids, NEW h, NEW nd, NEW q,
         ToldOf(s, ids, h, nd, a), h.val \in Int, a # 0,
         OwnAddress(nd, a), nd.crc = nd.flash, \A g \in ids : g.crc.addr = a,
         q.id = nd.id /\ q.crc = nd.crc /\ q.state = nd.state,
         IF nd.id = 0 THEN t = s ELSE Bus!Tells(t, a, h.val, q.conf.val)
  PROVE  ToldOf(t, few, h, q, a)
<1>1. CASE nd.id = 0
  <2>1. nd.crc.addr # a /\ nd.state # "Idle"
    BY <1>1 DEF OwnAddress
  <2>2. \A g \in few : g.crc # nd.crc
    BY <2>1
  <2>. QED
    BY <1>1, <2>1, <2>2 DEF ToldOf
<1>2. CASE nd.id # 0
  <2>1. nd.id = a /\ Agrees(t, h, q, a)
    BY <1>2 DEF OwnAddress, Agrees
  <2>. QED
    BY <2>1 DEF ToldOf
<1>. QED
  BY <1>1, <1>2

\* The holder's queue after a pass of a controller.
StatusFrom(p) == [type |-> "status", addr |-> p.id, val |-> p.conf.val]

LEMMA BusHears ==
  ASSUME Bus!Configured, Bus!TypeOK, NEW m \in Bus!Nodes
  PROVE  /\ Bus!Sent(Bus!Rest(m), 0, Bus!Call(m))[0] = Append(frames[0], Bus!Call(m))
         /\ Bus!Sent(frames, 0, Bus!Call(m))[0] = Append(frames[0], Bus!Call(m))
         /\ \A p \in BusNode : /\ Bus!Sent(frames, 0, StatusFrom(p))[0] = Append(frames[0], StatusFrom(p))
                               /\ Bus!Answer(m, p)[0] =
                                    IF Bus!Obeys(can[m], Bus!Received(m)) /\ p.id # 0
                                      THEN Append(frames[0], StatusFrom(p)) ELSE frames[0]
         /\ Bus!Call(m) \in Bus!ToHolder /\ \A a : ~StatusOf(Bus!Call(m), a)
         /\ frames[0] \in Seq(Bus!ToHolder)
<1>1. frames \in BusQueues /\ frames \in [0 .. NODES -> Seq(Bus!Frame)] /\ m \in 0 .. NODES /\ 0 \in 0 .. NODES
      /\ m # 0
  BY BusTypes DEF Bus!Nodes, Bus!Configured, BusQueues
<1>2. Bus!Rest(m)[0] = frames[0] /\ Bus!Rest(m) \in [0 .. NODES -> Seq(Bus!Frame)]
  BY <1>1, BusFrames DEF Bus!Rest, BusQueues
<1>3. ASSUME NEW f  PROVE /\ Bus!Sent(Bus!Rest(m), 0, f)[0] = Append(frames[0], f)
                          /\ Bus!Sent(frames, 0, f)[0] = Append(frames[0], f)
  BY <1>1, <1>2 DEF Bus!Sent
<1>4. ASSUME NEW p \in BusNode
      PROVE  Bus!Answer(m, p)[0] = IF Bus!Obeys(can[m], Bus!Received(m)) /\ p.id # 0
                                     THEN Append(frames[0], StatusFrom(p)) ELSE frames[0]
  BY <1>2, <1>3 DEF Bus!Answer, StatusFrom
<1>5. Bus!Call(m) \in Bus!ToHolder /\ \A a : ~StatusOf(Bus!Call(m), a)
  BY DEF Bus!Call, Bus!ToHolder, StatusOf
<1>6. frames[0] \in Seq(Bus!ToHolder)
  BY <1>1 DEF BusQueues, FramesTo
<1>. QED
  BY <1>3, <1>4, <1>5, <1>6

LEMMA BusToldPoll ==
  ASSUME Bus!Configured, Bus!TypeOK, BusSaved, NEW A, Addressed(A), BusOwned(A), NEW n \in Bus!Nodes,
         BusTold(A, n), NEW how, Bus!Poll(n, how), Ids(frames'[n]) \subseteq Ids(frames[n])
  PROVE  BusTold(A, n)'
<1>. DEFINE f == Bus!Received(n)
            nd == can[n]
            use == IF Bus!Obeys(nd, f) THEN "locked" ELSE how
            s == frames[0]
            a == A[n]
            h == held[n]
<1>1. PICK p, q \in BusNode :
        /\ BusReads(nd, f, p) /\ can' = [can EXCEPT ![n] = q] /\ held' = held
        /\ \/ /\ q.state = "MACLookup" /\ p.conf = Bus!NoConf
              /\ q.conf = p.conf /\ q.crc = p.crc /\ q.flash = p.flash /\ q.id = p.id
              /\ frames' = Bus!Sent(Bus!Rest(n), 0, Bus!Call(n))
           \/ /\ BusMoves(p, use, q)
              /\ p.state = "ReadConfig" /\ how = "all" => Bus!Reported(p.id)
              /\ frames' = Bus!Answer(n, p)
  BY BusPasses
<1>2. /\ nd \in BusNode /\ h \in Bus!Conf /\ nd.conf \in Bus!Conf /\ nd.crc \in Bus!Conf
      /\ h.val \in Int /\ nd.conf.val \in Int /\ p.conf.val \in Int /\ can'[n] = q
      /\ a # 0 /\ a \in Nat
  <2>1. nd \in BusNode /\ h \in Bus!Conf /\ nd.conf \in Bus!Conf /\ p.conf \in Bus!Conf /\ nd.crc \in Bus!Conf
    BY BusTypes, BusConfs DEF BusNode
  <2>2. \A c \in Bus!Conf : c.val \in Int
    BY DEF Bus!Conf, Bus!Values, Bus!Unset
  <2>3. can'[n] = q
    BY <1>1, BusTypes
  <2>. QED
    BY <2>1, <2>2, <2>3 DEF Addressed
<1>3. /\ OwnAddress(nd, a) /\ OwnAddress(p, a) /\ OwnAddress(q, a) /\ nd.crc = nd.flash
      /\ ToldOf(s, Ids(frames[n]), h, nd, a)
      /\ \A g \in Ids(frames[n]) : g.addr = a /\ g.crc.addr = a
      /\ h = Bus!NoConf \/ h.addr = a
  <2>1. \/ q.state = "MACLookup" /\ q.flash = p.flash /\ q.id = p.id
        \/ BusMoves(p, use, q)
    BY <1>1
  <2>. HIDE DEF use
  <2>2. OwnAddress(p, a) /\ OwnAddress(q, a)
    BY <1>1, <2>1, BusOwnedPoll
  <2>. QED
    BY <2>2 DEF BusOwned, BusSaved, BusSavedIn, BusTold
<1>4. ASSUME ToldOf(frames'[0], Ids(frames'[n]), h, q, a)  PROVE BusTold(A, n)'
  BY <1>1, <1>2, <1>4 DEF BusTold
<1>5. frames[0] \in Seq(Bus!ToHolder) /\ TellsOn(s, Append(s, Bus!Call(n)), a)
  BY BusHears, StatusesAppend
<1>. HIDE DEF nd, f, s, a, h
<1>6. p.id = nd.id \/ p.id = a
  <2>1. p.id = nd.id \/ (f.type = "id" /\ (p.id = nd.id \/ p.id = f.addr))
    BY <1>1 DEF BusReads
  <2>2. f.type = "id" => f.addr = a
    BY <1>3, BusReceivedId DEF f
  <2>. QED
    BY <2>1, <2>2
<1>7. CASE q.conf = Bus!NoConf /\ q.state # "Idle" /\ q.id = p.id /\ frames' = Bus!Sent(Bus!Rest(n), 0, Bus!Call(n))
  <2>1. frames'[0] = Append(s, Bus!Call(n))
    BY <1>7, BusHears DEF s
  <2>2. ToldOf(frames'[0], Ids(frames'[n]), h, q, a)
    <3>1. Ids(frames'[n]) \in SUBSET Ids(frames[n]) /\ (q.id = nd.id \/ q.id = a)
          /\ TellsOn(s, frames'[0], a)
      BY <1>5, <1>6, <1>7, <2>1
    <3>. QED
      BY <1>2, <1>3, <1>7, <3>1, ToldStays
  <2>. QED
    BY <1>4, <2>2
<1>8. CASE Bus!Obeys(nd, f) /\ frames' = Bus!Answer(n, p) /\ BusMoves(p, use, q)
  <2>1. p.id = nd.id /\ p.state = nd.state /\ p.crc = nd.crc
    BY <1>1, <1>8 DEF BusReads
  <2>2. /\ q.id = nd.id /\ q.crc = nd.crc
        /\ \/ q.conf = p.conf /\ (q.state = p.state \/ q.state \in {"Error", "ConfigLoaded"})
           \/ q.conf = Bus!NoConf /\ q.state = "Error"
    BY <1>8, <2>1 DEF BusMoves
  <2>3. frames'[0] = IF p.id # 0 THEN Append(s, StatusFrom(p)) ELSE s
    BY <1>8, BusHears DEF nd, f, s
  <2>4. ASSUME p.id # 0
        PROVE  /\ StatusFrom(p) \in Bus!ToHolder /\ StatusOf(StatusFrom(p), a)
               /\ StatusFrom(p).val = p.conf.val
    <3>1. p.conf.val \in Bus!Values
      <4>1. p.conf = [nd.conf EXCEPT !.val = f.val] /\ f.type = "command"
        <5>1. p.conf = [nd.conf EXCEPT !.val = f.val]
          BY <1>1, <1>8 DEF BusReads
        <5>. QED
          BY <1>8, <5>1 DEF Bus!Obeys
      <4>2. f \in Bus!ToNode
        <5>1. frames[n] \in Seq(Bus!ToNode)
          BY BusTypes DEF BusQueues, FramesTo, Bus!Nodes, Bus!Configured
        <5>2. f.type = "command"
          BY <1>8 DEF Bus!Obeys
        <5>. QED
          BY <5>1, <5>2 DEF f, Bus!Received
      <4>. QED
        BY <1>2, <1>8, <4>1, <4>2 DEF Bus!ToNode, Bus!Conf
    <3>2. p.id = a /\ p.id \in Bus!Addrs
      BY <1>3, <2>4 DEF OwnAddress, BusNode
    <3>. QED
      BY <3>1, <3>2 DEF StatusFrom, StatusOf, Bus!ToHolder
  <2>5. p.id # 0 => Bus!Tells(frames'[0], a, h.val, p.conf.val)
    BY <1>2, <1>5, <2>3, <2>4, StatusesAppend DEF s
  <2>6. ToldOf(frames'[0], Ids(frames'[n]), h, p, a)
    BY <1>2, <1>3, <2>1, <2>3, <2>5, ToldAnew
  <2>7. \/ q.conf = p.conf /\ q.state = p.state
        \/ q.state \notin {"Unknown", "MACLookup", "Idle"}
    BY <2>2
  <2>8. ToldOf(frames'[0], Ids(frames'[n]), h, q, a)
    BY <1>2, <2>1, <2>2, <2>6, <2>7, ToldStays
  <2>. QED
    BY <1>4, <2>8
<1>9. CASE ~Bus!Obeys(nd, f) /\ frames' = Bus!Answer(n, p) /\ BusMoves(p, use, q)
  <2>1. frames'[0] = s /\ p.conf = nd.conf /\ p.crc = nd.crc
    BY <1>1, <1>9, BusHears DEF nd, f, s, BusReads
  <2>2. ToldOf(s, Ids(frames'[n]), h, p, a)
    <3>1. CASE p.id = nd.id /\ p.state = nd.state
      BY <1>2, <1>3, <2>1, <3>1, ToldStays
    <3>2. CASE p.state = "ReadConfig"
      BY <1>2, <1>3, <1>6, <3>2, ToldStays
    <3>3. CASE /\ f.type = "id" /\ nd.state = "MACLookup"
               /\ p.state = "Idle" /\ p.id = nd.id /\ nd.conf # Bus!NoConf /\ nd.crc = f.crc
      <4>1. f \in Ids(frames[n])
        BY <3>3, BusReceivedId DEF f
      <4>2. h # Bus!NoConf /\ Agrees(s, h, nd, a)
        BY <1>3, <3>3, <4>1 DEF ToldOf
      <4>3. p.id = a
        BY <1>3, <3>3 DEF OwnAddress
      <4>. QED
        BY <2>1, <3>3, <4>2, <4>3 DEF ToldOf, Agrees
    <3>. QED
      BY <1>1, <3>1, <3>2, <3>3 DEF BusReads
  <2>3. CASE /\ q.crc = p.crc /\ q.flash = p.flash /\ q.id = p.id
             /\ \/ q.conf = p.conf /\ (q.state = p.state \/ q.state \in {"Error", "ConfigLoaded"})
                \/ q.conf = Bus!NoConf /\ q.state = "Error"
    <3>1. p.conf.val \in Int /\ Ids(frames'[n]) \in SUBSET Ids(frames'[n])
      BY <1>2
    <3>2. \/ q.conf = p.conf /\ q.state = p.state
          \/ q.state \notin {"Unknown", "MACLookup", "Idle"}
      BY <2>3
    <3>3. ToldOf(s, Ids(frames'[n]), h, q, a)
      BY <1>2, <2>2, <2>3, <3>1, <3>2, ToldStays
    <3>. QED
      BY <1>4, <2>1, <3>3
  <2>4. CASE /\ how = "all" /\ p.state = "ReadConfig" /\ q.state = "Idle"
             /\ \E m \in Bus!Nodes : /\ held[m] # Bus!NoConf /\ held[m].addr = p.id /\ q.id = p.id
                                   /\ q.conf = held[m] /\ q.crc = held[m] /\ q.flash = held[m]
    <3>1. PICK m \in Bus!Nodes : held[m] # Bus!NoConf /\ held[m].addr = p.id /\ q.id = p.id /\ q.conf = held[m]
      BY <2>4
    <3>2. p.id = a
      BY <1>3, <2>4 DEF OwnAddress
    <3>3. m = n
      <4>1. held[m].addr = A[m]
        BY <3>1 DEF BusOwned
      <4>. QED
        BY <3>1, <3>2, <4>1 DEF Addressed, a
    <3>4. Bus!StatusesIn(s, a) = {}
      BY <1>1, <1>9, <2>4, <3>2, <1>3 DEF Bus!Reported, s
    <3>5. q.conf = h /\ h # Bus!NoConf
      BY <3>1, <3>3 DEF h
    <3>6. Agrees(s, h, q, a)
      BY <3>4, <3>5 DEF Agrees, Bus!Tells
    <3>7. ToldOf(s, Ids(frames'[n]), h, q, a)
      BY <2>4, <3>1, <3>2, <3>5, <3>6 DEF ToldOf
    <3>. QED
      BY <1>4, <2>1, <3>7
  <2>. QED
    BY <1>9, <2>3, <2>4 DEF BusMoves
<1>. QED
  BY <1>1, <1>7, <1>8, <1>9

LEMMA BusToldHolder ==
  ASSUME Bus!Configured, Bus!TypeOK, [Bus!Next]_Bus!vars, BusSaved, NEW A, Addressed(A), BusOwned(A),
         NEW n \in Bus!Nodes, BusTold(A, n), Bus!PollHolder
  PROVE  BusTold(A, n)'
<1>. DEFINE s == frames[0]
            f == Head(s)
            a == A[n]
            h == held[n]
            nd == can[n]
            ids == Ids(frames[n])
<1>1. /\ nd \in BusNode /\ h \in Bus!Conf /\ h.val \in Int /\ nd.conf.val \in Int
      /\ a # 0 /\ s \in Seq(Bus!ToHolder) /\ s # <<>> /\ f \in Bus!ToHolder
  <2>1. nd \in BusNode /\ h \in Bus!Conf /\ nd.conf \in Bus!Conf
    BY BusTypes, BusConfs DEF BusNode
  <2>2. \A c \in Bus!Conf : c.val \in Int
    BY DEF Bus!Conf, Bus!Values, Bus!Unset
  <2>3. s \in Seq(Bus!ToHolder) /\ s # <<>>
    BY BusHears DEF Bus!PollHolder
  <2>4. f \in Bus!ToHolder
    BY <2>3
  <2>5. a # 0
    BY DEF Addressed
  <2>. QED
    BY <2>1, <2>2, <2>3, <2>4, <2>5
<1>2. /\ OwnAddress(nd, a) /\ nd.crc = nd.flash /\ ToldOf(s, ids, h, nd, a)
      /\ h = Bus!NoConf \/ h.addr = a
  BY DEF BusOwned, BusSaved, BusSavedIn, BusTold
<1>3. can' = can /\ frames'[0] = Tail(s)
  <2>1. frames \in [0 .. NODES -> Seq(Bus!Frame)] /\ 0 \in 0 .. NODES /\ Bus!Rest(0) \in [0 .. NODES -> Seq(Bus!Frame)]
    BY BusTypes, BusFrames DEF BusQueues, Bus!Configured
  <2>2. Bus!Rest(0)[0] = Tail(s)
    BY <1>1, <2>1 DEF Bus!Rest
  <2>3. f.type # "status" => f.mac \in Bus!Nodes /\ f.mac # 0
    BY <1>1 DEF Bus!ToHolder, Bus!Nodes
  <2>4. ASSUME NEW m, m # 0, NEW g  PROVE Bus!Sent(Bus!Rest(0), m, g)[0] = Tail(s)
    BY <2>1, <2>2, <2>4 DEF Bus!Sent
  <2>. QED
    BY <2>2, <2>3, <2>4 DEF Bus!PollHolder
<1>4. \A g \in Ids(frames'[n]) : g \in ids \/ (h # Bus!NoConf /\ g.crc = h)
  BY BusIds DEF BusAnswered
<1>5. ASSUME NEW k, held'[n] = k, ToldOf(frames'[0], Ids(frames'[n]), k, nd, a)  PROVE BusTold(A, n)'
  BY <1>3, <1>5 DEF BusTold
<1>6. /\ f.type = "status" => held' = Bus!Mirrored(f) /\ frames' = Bus!Rest(0)
      /\ f.type # "status" => held' = held
  BY DEF Bus!PollHolder
<1>7. /\ ~StatusOf(f, a) => TellsOn(s, Tail(s), a)
      /\ StatusOf(f, a) => \A v, c \in Int : Bus!Tells(s, a, v, c) => Bus!Tells(Tail(s), a, f.val, c)
  BY <1>1, StatusesTail
<1>8. Bus!StatusesIn(s, a) = {} => ~StatusOf(f, a)
  <2>1. s[1] = f /\ 1 \in DOMAIN s
    BY <1>1
  <2>. QED
    BY <2>1 DEF Bus!StatusesIn, StatusOf
<1>9. frames' = Bus!Rest(0) => Ids(frames'[n]) = ids
  <2>1. n # 0 /\ n \in 0 .. NODES
    BY DEF Bus!Nodes, Bus!Configured
  <2>. QED
    BY <2>1, BusTypes DEF Bus!Rest, BusQueues
<1>. HIDE DEF s, f, a, h, nd, ids
<1>10. CASE ~StatusOf(f, a)
  <2>1. held'[n] = h
    <3>1. CASE f.type = "status"
      <4>1. n \notin Bus!getConfbyID(f.addr)
        BY <1>2, <1>10, <3>1 DEF Bus!getConfbyID, StatusOf, h
      <4>. QED
        BY <1>6, <3>1, <4>1 DEF Bus!Mirrored, h
    <3>. QED
      BY <1>6, <3>1 DEF h
  <2>2. ToldOf(Tail(s), ids, h, nd, a)
    BY <1>1, <1>2, <1>7, <1>10, ToldStays
  <2>3. ASSUME h # Bus!NoConf, nd.crc = h, nd.state \in {"Unknown", "MACLookup"}, nd.conf # Bus!NoConf
        PROVE  Agrees(s, h, nd, a)
    <3>1. nd.id # 0
      BY <1>1, <1>2, <2>3 DEF OwnAddress
    <3>2. Agrees(s, h, nd, a) \/ (Bus!StatusesIn(s, a) = {} /\ nd.conf.val = nd.crc.val)
      BY <1>2, <2>3, <3>1 DEF ToldOf
    <3>. QED
      BY <2>3, <3>2 DEF Agrees, Bus!Tells
  <2>4. Agrees(s, h, nd, a) => Agrees(Tail(s), h, nd, a)
    BY <1>1, <1>7, <1>10 DEF Agrees, TellsOn
  <2>5. ToldOf(Tail(s), Ids(frames'[n]), h, nd, a)
    BY <1>4, <2>2, <2>3, <2>4 DEF ToldOf
  <2>. QED
    BY <1>3, <1>5, <2>1, <2>5
<1>11. CASE StatusOf(f, a)
  <2>1. f.type = "status" /\ f.addr = a /\ Ids(frames'[n]) = ids
    BY <1>6, <1>9, <1>11 DEF StatusOf
  <2>2. nd.id = a
    BY <1>2, <1>8, <1>11 DEF ToldOf
  <2>3. CASE h = Bus!NoConf
    <3>1. held'[n] = h
      BY <1>6, <2>1, <2>3 DEF Bus!Mirrored, Bus!getConfbyID, h
    <3>2. ToldOf(Tail(s), ids, h, nd, a)
      BY <1>2, <2>2, <2>3 DEF ToldOf
    <3>. QED
      BY <1>3, <1>5, <2>1, <3>1, <3>2
  <2>4. CASE h # Bus!NoConf
    <3>. DEFINE k == [h EXCEPT !.val = f.val]
    <3>1. held'[n] = k
      <4>1. n \in Bus!getConfbyID(f.addr)
        BY <1>2, <2>1, <2>4 DEF Bus!getConfbyID, h
      <4>. QED
        BY <1>6, <2>1, <4>1 DEF Bus!Mirrored, h
    <3>2. k # Bus!NoConf /\ k.val = f.val
      <4>1. h.addr = a /\ k.addr = h.addr /\ k.val = f.val
        BY <1>1, <1>2, <2>4 DEF Bus!Conf
      <4>. QED
        BY <1>1, <4>1 DEF Bus!NoConf
    <3>3. Agrees(s, h, nd, a) => Agrees(Tail(s), k, nd, a)
      BY <1>1, <1>7, <1>11, <3>2 DEF Agrees
    <3>. HIDE DEF k
    <3>4. ToldOf(Tail(s), ids, k, nd, a)
      BY <1>2, <1>8, <1>11, <2>2, <2>4, <3>2, <3>3 DEF ToldOf
    <3>. QED
      BY <1>3, <1>5, <2>1, <3>1, <3>4
  <2>. QED
    BY <2>3, <2>4
<1>. QED
  BY <1>10, <1>11

LEMMA BusToldStep ==
  ASSUME Bus!Configured, "reload" \notin Events, "status" \notin Lost,
         Bus!TypeOK, [Bus!Next]_Bus!vars, BusSaved, NEW A, Addressed(A), BusOwned(A),
         NEW n \in Bus!Nodes, BusTold(A, n)
  PROVE  BusTold(A, n)'
<1>. DEFINE s == frames[0]
            a == A[n]
            h == held[n]
            nd == can[n]
<1>1. /\ nd \in BusNode /\ h \in Bus!Conf /\ h.val \in Int /\ nd.conf.val \in Int /\ a # 0
      /\ s \in Seq(Bus!ToHolder) /\ n # 0 /\ n \in 0 .. NODES /\ Bus!Nodes \subseteq 0 .. NODES
      /\ can \in [Bus!Nodes -> BusNode] /\ 0 \in 0 .. NODES
      /\ frames \in [0 .. NODES -> Seq(Bus!Frame)]
  <2>1. nd \in BusNode /\ h \in Bus!Conf /\ nd.conf \in Bus!Conf
    BY BusTypes, BusConfs DEF BusNode
  <2>2. \A c \in Bus!Conf : c.val \in Int
    BY DEF Bus!Conf, Bus!Values, Bus!Unset
  <2>. QED
    BY <2>1, <2>2, BusTypes, BusHears DEF Addressed, Bus!Nodes, Bus!Configured, BusQueues
<1>2. /\ ToldOf(s, Ids(frames[n]), h, nd, a) /\ OwnAddress(nd, a) /\ nd.crc = nd.flash
      /\ \A g \in Ids(frames[n]) : g.crc.addr = a
  BY DEF BusTold, BusOwned, BusSaved, BusSavedIn
<1>3. CASE Bus!PollHolder
  BY <1>3, BusToldHolder
<1>4. CASE ~Bus!PollHolder
  <2>1. Ids(frames'[n]) \in SUBSET Ids(frames[n])
    BY <1>4, BusIds DEF BusAnswered
  <2>2. ASSUME can'[n] = nd, held'[n] = h, frames'[0] = s \/ TellsOn(s, frames'[0], a)
        PROVE  BusTold(A, n)'
    <3>1. ToldOf(frames'[0], Ids(frames'[n]), h, nd, a)
      BY <1>1, <1>2, <2>1, <2>2, ToldStays
    <3>. QED
      BY <2>2, <3>1 DEF BusTold
  <2>3. ASSUME NEW m \in Bus!Nodes, Bus!Restart(m)
        PROVE  BusTold(A, n)'
    <3>1. /\ can' = [can EXCEPT ![m] = Bus!Booted(can[m].flash)] /\ held' = held
          /\ frames' = [frames EXCEPT ![m] = <<>>] /\ Bus!Reported(can[m].id)
      BY <2>3 DEF Bus!Restart
    <3>2. frames'[0] = s /\ m # 0
      BY <1>1, <3>1 DEF Bus!Nodes
    <3>3. CASE m # n
      BY <1>1, <2>2, <3>1, <3>2, <3>3
    <3>4. CASE m = n
      <4>. DEFINE q == Bus!Booted(nd.flash)
      <4>1. can'[n] = q /\ frames'[n] = <<>> /\ Ids(frames'[n]) = {}
        BY <1>1, <3>1, <3>4 DEF Ids, Within
      <4>2. Bus!StatusesIn(s, a) = {}
        BY <1>2, <3>1, <3>4 DEF ToldOf, Bus!Reported
      <4>3. q.state = "Unknown" /\ q.conf = q.crc
        BY DEF Bus!Booted
      <4>. HIDE DEF q
      <4>4. ToldOf(s, {}, h, q, a)
        BY <4>2, <4>3 DEF ToldOf
      <4>. QED
        BY <3>1, <3>2, <4>1, <4>4 DEF BusTold
    <3>. QED
      BY <3>3, <3>4
  <2>4. ASSUME NEW m \in Bus!Nodes, Bus!Setup(m)
        PROVE  BusTold(A, n)'
    <3>. DEFINE q == [can[m] EXCEPT !.state = "MACLookup", !.age = 0]
    <3>1. can' = [can EXCEPT ![m] = q] /\ held' = held /\ can[m].state = "Unknown"
          /\ frames'[0] = Append(s, Bus!Call(m))
      BY <2>4, BusHears DEF Bus!Setup, Bus!Called
    <3>2. TellsOn(s, frames'[0], a)
      BY <3>1, BusHears, StatusesAppend
    <3>3. q.id = can[m].id /\ q.conf = can[m].conf /\ q.crc = can[m].crc /\ q.state = "MACLookup"
      BY <1>1 DEF BusNode
    <3>. HIDE DEF q
    <3>4. CASE m # n
      BY <1>1, <2>2, <3>1, <3>2, <3>4
    <3>5. CASE m = n
      <4>1. ToldOf(frames'[0], Ids(frames'[n]), h, q, a)
        BY <1>1, <1>2, <2>1, <3>1, <3>2, <3>3, <3>5, ToldStays
      <4>. QED
        BY <1>1, <3>1, <3>5, <4>1 DEF BusTold
    <3>. QED
      BY <3>4, <3>5
  <2>5. ASSUME NEW m \in Bus!Nodes, NEW how, Bus!Poll(m, how)
        PROVE  BusTold(A, n)'
    <3>1. CASE m = n
      BY <2>1, <2>5, <3>1, BusToldPoll
    <3>2. CASE m # n
      <4>1. PICK p, q \in BusNode :
              /\ BusReads(can[m], Bus!Received(m), p) /\ can' = [can EXCEPT ![m] = q] /\ held' = held
              /\ \/ frames' = Bus!Sent(Bus!Rest(m), 0, Bus!Call(m))
                 \/ frames' = Bus!Answer(m, p)
        BY <2>5, BusPasses
      <4>2. can'[n] = nd /\ held'[n] = h
        BY <1>1, <3>2, <4>1
      <4>3. CASE frames' = Bus!Sent(Bus!Rest(m), 0, Bus!Call(m))
        BY <2>2, <4>2, <4>3, BusHears, StatusesAppend
      <4>4. CASE frames' = Bus!Answer(m, p) /\ ~(Bus!Obeys(can[m], Bus!Received(m)) /\ p.id # 0)
        BY <2>2, <4>2, <4>4, BusHears
      <4>5. CASE frames' = Bus!Answer(m, p) /\ Bus!Obeys(can[m], Bus!Received(m)) /\ p.id # 0
        <5>1. frames'[0] = Append(s, StatusFrom(p))
          BY <4>5, BusHears
        <5>2. p.id = can[m].id /\ p.conf = [can[m].conf EXCEPT !.val = Bus!Received(m).val]
          BY <4>1, <4>5 DEF BusReads
        <5>3. p.id = A[m] /\ A[m] # a /\ p.id \in Bus!Addrs
          BY <1>1, <3>2, <4>5, <5>2 DEF BusOwned, OwnAddress, Addressed, BusNode
        <5>4. p.conf.val \in Bus!Values
          <6>1. frames[m] \in Seq(Bus!ToNode)
            BY BusTypes DEF BusQueues, FramesTo, Bus!Nodes, Bus!Configured
          <6>2. Bus!Received(m) \in Bus!ToNode /\ Bus!Received(m).type = "command"
            BY <4>5, <6>1 DEF Bus!Obeys, Bus!Received
          <6>3. can[m].conf \in Bus!Conf
            BY <1>1, BusConfs DEF BusNode
          <6>. QED
            BY <5>2, <6>2, <6>3 DEF Bus!ToNode, Bus!Conf
        <5>5. StatusFrom(p) \in Bus!ToHolder /\ ~StatusOf(StatusFrom(p), a)
          BY <5>3, <5>4 DEF StatusFrom, StatusOf, Bus!ToHolder
        <5>. QED
          BY <1>1, <2>2, <4>2, <5>1, <5>5, StatusesAppend
      <4>. QED
        BY <4>1, <4>3, <4>4, <4>5
    <3>. QED
      BY <3>1, <3>2
  <2>6. ASSUME NEW m \in Bus!Nodes, Bus!Change(m)
        PROVE  BusTold(A, n)'
    <3>1. PICK v \in Bus!Values :
            /\ can' = [can EXCEPT ![m].conf.val = v] /\ held' = held
            /\ frames' = IF can[m].id = 0 THEN frames
                         ELSE Bus!Sent(frames, 0, [type |-> "status", addr |-> can[m].id, val |-> v])
      BY <2>6 DEF Bus!Change
    <3>. DEFINE q == [can[m] EXCEPT !.conf.val = v]
                f == [type |-> "status", addr |-> can[m].id, val |-> v]
    <3>2. can' = [can EXCEPT ![m] = q] /\ can[m] \in BusNode /\ can[m].conf \in Bus!Conf
      BY <1>1, <3>1, BusConfs DEF BusNode
    <3>3. q.id = can[m].id /\ q.crc = can[m].crc /\ q.state = can[m].state /\ q.conf.val = v
      BY <3>2 DEF BusNode, Bus!Conf
    <3>4. f \in Bus!ToHolder /\ (StatusOf(f, a) <=> can[m].id = a) /\ f.val = v
      BY <3>2 DEF StatusOf, Bus!ToHolder, BusNode
    <3>5. frames'[0] = IF can[m].id = 0 THEN s ELSE Append(s, f)
      BY <1>1, <3>1 DEF Bus!Sent
    <3>. HIDE DEF q, f
    <3>6. CASE m # n
      <4>1. can[m].id # 0 => ~StatusOf(f, a)
        BY <3>4, <3>6 DEF BusOwned, OwnAddress, Addressed
      <4>2. frames'[0] = s \/ TellsOn(s, frames'[0], a)
        BY <1>1, <3>4, <3>5, <4>1, StatusesAppend
      <4>. QED
        BY <1>1, <2>2, <3>1, <3>2, <3>6, <4>2
    <3>7. CASE m = n
      <4>1. nd.id # 0 => Bus!Tells(frames'[0], a, h.val, q.conf.val)
        <5>1. nd.id # 0 => StatusOf(f, a)
          BY <1>2, <3>4, <3>7 DEF OwnAddress
        <5>. QED
          BY <1>1, <3>3, <3>4, <3>5, <3>7, <5>1, StatusesAppend
      <4>2. ToldOf(frames'[0], Ids(frames'[n]), h, q, a)
        BY <1>1, <1>2, <2>1, <3>3, <3>5, <3>7, <4>1, ToldAnew
      <4>. QED
        BY <1>1, <3>1, <3>2, <3>7, <4>2 DEF BusTold
    <3>. QED
      BY <3>6, <3>7
  <2>7. ASSUME NEW m \in Bus!Nodes, Bus!Age(m) \/ Bus!Late(m)
        PROVE  BusTold(A, n)'
    <3>. DEFINE q == [can[m] EXCEPT !.age = can[m].age + 1]
    <3>1. can' = [can EXCEPT ![m] = q] /\ held' = held /\ frames' = frames
      BY <2>7 DEF Bus!Age, Bus!Late, Bus!Waits
    <3>2. q.id = can[m].id /\ q.conf = can[m].conf /\ q.crc = can[m].crc /\ q.state = can[m].state
      BY <1>1 DEF BusNode
    <3>. HIDE DEF q
    <3>3. CASE m # n
      BY <1>1, <2>2, <3>1, <3>3
    <3>4. CASE m = n
      <4>1. ToldOf(frames'[0], Ids(frames'[n]), h, q, a)
        BY <1>1, <1>2, <2>1, <3>1, <3>2, <3>4, ToldStays
      <4>. QED
        BY <1>1, <3>1, <3>4, <4>1 DEF BusTold
    <3>. QED
      BY <3>3, <3>4
  <2>8. ASSUME NEW m \in Bus!Nodes, Bus!remoteCtrl(m)
        PROVE  BusTold(A, n)'
    <3>1. can' = can /\ held' = held /\ frames'[0] = s
      BY <1>1, <2>8 DEF Bus!remoteCtrl, Bus!Nodes
    <3>. QED
      BY <2>2, <3>1
  <2>9. ASSUME NEW m \in 0 .. NODES, Bus!Lose(m)
        PROVE  BusTold(A, n)'
    <3>1. can' = can /\ held' = held /\ frames[m] # <<>> /\ Head(frames[m]).type # "status"
          /\ frames'[0] = IF m = 0 THEN Tail(s) ELSE s
      BY <1>1, <2>9 DEF Bus!Lose
    <3>2. frames'[0] = s \/ TellsOn(s, frames'[0], a)
      BY <1>1, <3>1, StatusesTail DEF StatusOf
    <3>. QED
      BY <2>2, <3>1, <3>2
  <2>10. CASE UNCHANGED Bus!vars
    BY <2>2, <2>10 DEF Bus!vars
  <2>. QED
    BY <1>4, <2>3, <2>4, <2>5, <2>6, <2>7, <2>8, <2>9, <2>10, BusSteps
<1>. QED
  BY <1>3, <1>4

\* Where the holder has one configuration, and no status is lost, what it has of a controller
\* whose lookup was answered is true when the statuses on their way have been read: also after
\* restarts, lost lookups, answers and commands, and failed transfers.
THEOREM ItemsToldHolds ==
  ASSUME Bus!Configured, "reload" \notin Events, "status" \notin Lost, NEW A, Addressed(A)
  PROVE  Bus!Spec /\ Acquainted(A) => []Bus!ItemsTold
<1>. DEFINE AllTold == \A n \in Bus!Nodes : BusTold(A, n)
            IInv == BusSaved /\ BusOwned(A) /\ AllTold
<1>1. Bus!Init /\ Acquainted(A) => IInv
  <2>. SUFFICES ASSUME Bus!Init, Acquainted(A)  PROVE IInv
    OBVIOUS
  <2>1. BusSaved /\ BusOwned(A)
    BY BusOwnedInit
  <2>2. ASSUME NEW n \in Bus!Nodes  PROVE BusTold(A, n)
    <3>1. PICK f \in Flash : can[n] = Bus!Booted(f)
      BY DEF Bus!Init
    <3>2. frames[0] = <<>> /\ frames[n] = <<>>
      BY DEF Bus!Init, Bus!Nodes, Bus!Configured
    <3>3. Bus!StatusesIn(frames[0], A[n]) = {} /\ Ids(frames[n]) = {}
      BY <3>2 DEF Bus!StatusesIn, Ids, Within
    <3>. QED
      BY <3>1, <3>3 DEF BusTold, ToldOf, Bus!Booted
  <2>. QED
    BY <2>1, <2>2
<1>2. Bus!TypeOK /\ IInv /\ [Bus!Next]_Bus!vars => IInv'
  <2>. SUFFICES ASSUME Bus!TypeOK, IInv, [Bus!Next]_Bus!vars  PROVE IInv'
    OBVIOUS
  <2>1. BusSaved' /\ BusOwned(A)'
    BY BusSavedStep, BusOwnedStep
  <2>2. ASSUME NEW n \in Bus!Nodes  PROVE BusTold(A, n)'
    BY BusToldStep
  <2>. QED
    BY <2>1, <2>2
<1>3. IInv => Bus!ItemsTold
  <2>1. ASSUME IInv, NEW n \in Bus!Nodes, can[n].state = "Idle"
        PROVE  Bus!Tells(frames[0], held[n].addr, held[n].val, can[n].conf.val)
    <3>1. ToldOf(frames[0], Ids(frames[n]), held[n], can[n], A[n])
      BY <2>1 DEF BusTold
    <3>2. held[n] # Bus!NoConf /\ Agrees(frames[0], held[n], can[n], A[n])
      BY <2>1, <3>1 DEF ToldOf
    <3>3. held[n].addr = A[n]
      BY <2>1, <3>2 DEF BusOwned
    <3>. QED
      BY <3>2, <3>3 DEF Agrees
  <2>. QED
    BY <2>1 DEF Bus!ItemsTold
<1>4. Bus!Spec => []Bus!TypeOK
  BY BusTypesHold
<1>. QED
  BY <1>1, <1>2, <1>3, <1>4, PTL DEF Bus!Spec

---------------------------------------------------------------------------------
\* AirCond, for any commands and settings of the unit, and a line with or without losses.
CONSTANTS AcCommands, AcHand, AcFirst, AcLossy
VARIABLES acData, acPower, acCheck, acStatus, acEnabled, acAge, acRx, acUnit, acTold, acLast
Air == INSTANCE AirCond

AirRx(rx) == rx \in {Air!Silent, Air!Damaged} \/ (rx.is = "frame" /\ rx.of \in Air!Settings)
AirTold   == [set : -1 .. 24, fan : -1 .. 3]

\* The bytes of a frame are bytes.
LEMMA AirFrame ==
  ASSUME NEW s \in Air!Settings
  PROVE  \A i \in 1 .. 6 : Air!Frame(s)[i] \in 0 .. 255
<1>. DEFINE on == IF s.on THEN 1 ELSE 0
            quiet == IF s.quiet THEN 8 ELSE 0
<1>1. on \in 0 .. 1 /\ quiet \in {0, 8}
  OBVIOUS
<1>2. /\ s.mode \in 0 .. 255 /\ s.fan \in 0 .. 3 /\ s.temp \in 0 .. 24 /\ s.swing \in 0 .. 3
      /\ s.lock \in {0, 80, 128}
  BY DEF Air!Settings
<1>3. Air!Frame(s) = <<on + quiet, s.mode, s.fan, s.temp, s.swing, s.lock>>
  BY DEF Air!Frame
<1>. HIDE DEF on, quiet
<1>4. on + quiet \in 0 .. 255
  BY <1>1
<1>. QED
  BY <1>2, <1>3, <1>4

\* The power byte tells what it is made of.
LEMMA AirPowerByte ==
  ASSUME NEW s \in Air!Settings, NEW t \in Air!Settings, Air!Frame(s)[1] = Air!Frame(t)[1]
  PROVE  s.on = t.on /\ s.quiet = t.quiet
<1>1. s.on \in BOOLEAN /\ s.quiet \in BOOLEAN /\ t.on \in BOOLEAN /\ t.quiet \in BOOLEAN
  BY DEF Air!Settings
<1>2. /\ Air!Frame(s)[1] = (IF s.on THEN 1 ELSE 0) + (IF s.quiet THEN 8 ELSE 0)
      /\ Air!Frame(t)[1] = (IF t.on THEN 1 ELSE 0) + (IF t.quiet THEN 8 ELSE 0)
  BY DEF Air!Frame
<1>3. \A a \in {0, 1}, b \in {0, 1}, c \in {0, 8}, d \in {0, 8} : a + c = b + d => a = b /\ c = d
  OBVIOUS
<1>. DEFINE a == IF s.on THEN 1 ELSE 0
            b == IF t.on THEN 1 ELSE 0
            c == IF s.quiet THEN 8 ELSE 0
            d == IF t.quiet THEN 8 ELSE 0
<1>4. a \in {0, 1} /\ b \in {0, 1} /\ c \in {0, 8} /\ d \in {0, 8} /\ a + c = b + d
  BY <1>2
<1>5. a = b /\ c = d
  <2>. HIDE DEF a, b, c, d
  <2>. QED
    BY <1>3, <1>4
<1>. QED
  BY <1>1, <1>5

\* Frames are the same if their bytes are.
LEMMA AirSame ==
  ASSUME NEW s \in Air!Settings, NEW t \in Air!Settings,
         \A i \in 1 .. 6 : Air!Frame(s)[i] = Air!Frame(t)[i]
  PROVE  s = t
<1>1. s.on = t.on /\ s.quiet = t.quiet
  BY AirPowerByte
<1>2. s.mode = t.mode /\ s.fan = t.fan /\ s.temp = t.temp /\ s.swing = t.swing /\ s.lock = t.lock
  <2>1. \A u \in Air!Settings :
          /\ Air!Frame(u)[2] = u.mode /\ Air!Frame(u)[3] = u.fan /\ Air!Frame(u)[4] = u.temp
          /\ Air!Frame(u)[5] = u.swing /\ Air!Frame(u)[6] = u.lock
    BY DEF Air!Frame
  <2>2. 2 \in 1 .. 6 /\ 3 \in 1 .. 6 /\ 4 \in 1 .. 6 /\ 5 \in 1 .. 6 /\ 6 \in 1 .. 6
    OBVIOUS
  <2>. QED
    BY <2>1, <2>2
<1>. QED
  BY <1>1, <1>2 DEF Air!Settings

\* Bytes, and what is left of a sum of them.
AirByte    == 0 .. 255
AirLow(n)  == n % 256

\* What is added to the rest of a sum modulo 256 and leaves it the same is the same byte.
LEMMA AirRest ==
  ASSUME NEW c \in Nat, NEW x \in AirByte, NEW y \in AirByte, AirLow(c + x) = AirLow(c + y)
  PROVE  x = y
<1>1. x \in 0 .. 255 /\ y \in 0 .. 255 /\ (c + x) % 256 = (c + y) % 256
  BY DEF AirByte, AirLow
<1>. QED
  BY <1>1, SMTT(30)

\* A sum is of a byte and the rest, whichever byte.
LEMMA AirSums ==
  ASSUME NEW a \in Nat, NEW b \in Nat, NEW c \in Nat, NEW d \in Nat, NEW e \in Nat, NEW f \in Nat
  PROVE  /\ 34 + a + b + c + d + e + f \in Nat
         /\ 34 + b + c + d + e + f \in Nat
         /\ 34 + a + b + c + d + e + f = (34 + b + c + d + e + f) + a
         /\ 34 + b + a + c + d + e + f = (34 + b + c + d + e + f) + a
         /\ 34 + b + c + a + d + e + f = (34 + b + c + d + e + f) + a
         /\ 34 + b + c + d + a + e + f = (34 + b + c + d + e + f) + a
         /\ 34 + b + c + d + e + a + f = (34 + b + c + d + e + f) + a
         /\ 34 + b + c + d + e + f + a = (34 + b + c + d + e + f) + a
BY SMT

\* The check byte is one (out_ac.cpp:277).
LEMMA AirCRC ==
  ASSUME NEW s \in Air!Settings
  PROVE  Air!getCRC(s) \in 0 .. 255
<1>. DEFINE f == Air!Frame(s)
            n == 34 + f[1] + f[2] + f[3] + f[4] + f[5] + f[6]
<1>1. \A i \in 1 .. 6 : f[i] \in 0 .. 255
  BY AirFrame
<1>2. Air!getCRC(s) = n % 256
  BY DEF Air!getCRC
<1>. HIDE DEF f
<1>3. /\ f[1] \in Nat /\ f[2] \in Nat /\ f[3] \in Nat
      /\ f[4] \in Nat /\ f[5] \in Nat /\ f[6] \in Nat
  BY <1>1
<1>4. n \in Nat
  BY <1>3, AirSums
<1>. HIDE DEF n
<1>. QED
  BY <1>2, <1>4

\* Frames that differ in one byte at most and have the same check byte do not differ.
LEMMA AirOneByte ==
  ASSUME NEW s \in Air!Settings, NEW t \in Air!Settings, Air!OneByte(s, t),
         Air!getCRC(s) = Air!getCRC(t)
  PROVE  s = t
<1>. DEFINE f == Air!Frame(s)
            g == Air!Frame(t)
            m == 34 + f[1] + f[2] + f[3] + f[4] + f[5] + f[6]
            n == 34 + g[1] + g[2] + g[3] + g[4] + g[5] + g[6]
<1>1. PICK i \in 1 .. 6 : \A j \in 1 .. 6 \ {i} : f[j] = g[j]
  BY DEF Air!OneByte
<1>2. (\A k \in 1 .. 6 : f[k] \in AirByte) /\ (\A k \in 1 .. 6 : g[k] \in AirByte)
  BY AirFrame DEF AirByte
<1>3. AirLow(m) = AirLow(n)
  BY DEF Air!getCRC, AirLow
<1>. HIDE DEF f, g
<1>4. /\ f[1] \in Nat /\ f[2] \in Nat /\ f[3] \in Nat
      /\ f[4] \in Nat /\ f[5] \in Nat /\ f[6] \in Nat
  <2>1. ASSUME NEW k \in 1 .. 6
        PROVE  f[k] \in Nat
    <3>1. f[k] \in AirByte
      BY <1>2, Zenon
    <3>2. AirByte \subseteq Nat
      BY DEF AirByte
    <3>. QED
      BY <3>1, <3>2, Zenon
  <2>2. 1 \in 1 .. 6 /\ 2 \in 1 .. 6 /\ 3 \in 1 .. 6 /\ 4 \in 1 .. 6 /\ 5 \in 1 .. 6 /\ 6 \in 1 .. 6
    OBVIOUS
  <2>. QED
    BY <2>1, <2>2, Zenon
<1>5. f[i] = g[i]
  <2>1. CASE i = 1
    <3>. DEFINE c == 34 + f[2] + f[3] + f[4] + f[5] + f[6]
    <3>1. f[2] = g[2] /\ f[3] = g[3] /\ f[4] = g[4] /\ f[5] = g[5] /\ f[6] = g[6]
      BY <1>1, <2>1
    <3>2. c \in Nat /\ m = c + f[1]
      BY <1>4, AirSums
    <3>3. f[1] \in AirByte /\ g[1] \in AirByte
      <4>1. 1 \in 1 .. 6
        OBVIOUS
      <4>. QED
        BY <1>2, <4>1, Zenon
    <3>4. g[1] \in Nat
      BY <3>3 DEF AirByte
    <3>5. n = c + g[1]
      BY <1>4, <3>1, <3>4, AirSums
    <3>. HIDE DEF c, m, n
    <3>6. AirLow(c + f[1]) = AirLow(c + g[1])
      BY <1>3, <3>2, <3>5
    <3>7. f[1] = g[1]
      BY <3>2, <3>3, <3>6, AirRest, Zenon
    <3>. QED
      BY <2>1, <3>7
  <2>2. CASE i = 2
    <3>. DEFINE c == 34 + f[1] + f[3] + f[4] + f[5] + f[6]
    <3>1. f[1] = g[1] /\ f[3] = g[3] /\ f[4] = g[4] /\ f[5] = g[5] /\ f[6] = g[6]
      BY <1>1, <2>2
    <3>2. c \in Nat /\ m = c + f[2]
      BY <1>4, AirSums
    <3>3. f[2] \in AirByte /\ g[2] \in AirByte
      <4>1. 2 \in 1 .. 6
        OBVIOUS
      <4>. QED
        BY <1>2, <4>1, Zenon
    <3>4. g[2] \in Nat
      BY <3>3 DEF AirByte
    <3>5. n = c + g[2]
      BY <1>4, <3>1, <3>4, AirSums
    <3>. HIDE DEF c, m, n
    <3>6. AirLow(c + f[2]) = AirLow(c + g[2])
      BY <1>3, <3>2, <3>5
    <3>7. f[2] = g[2]
      BY <3>2, <3>3, <3>6, AirRest, Zenon
    <3>. QED
      BY <2>2, <3>7
  <2>3. CASE i = 3
    <3>. DEFINE c == 34 + f[1] + f[2] + f[4] + f[5] + f[6]
    <3>1. f[1] = g[1] /\ f[2] = g[2] /\ f[4] = g[4] /\ f[5] = g[5] /\ f[6] = g[6]
      BY <1>1, <2>3
    <3>2. c \in Nat /\ m = c + f[3]
      BY <1>4, AirSums
    <3>3. f[3] \in AirByte /\ g[3] \in AirByte
      <4>1. 3 \in 1 .. 6
        OBVIOUS
      <4>. QED
        BY <1>2, <4>1, Zenon
    <3>4. g[3] \in Nat
      BY <3>3 DEF AirByte
    <3>5. n = c + g[3]
      BY <1>4, <3>1, <3>4, AirSums
    <3>. HIDE DEF c, m, n
    <3>6. AirLow(c + f[3]) = AirLow(c + g[3])
      BY <1>3, <3>2, <3>5
    <3>7. f[3] = g[3]
      BY <3>2, <3>3, <3>6, AirRest, Zenon
    <3>. QED
      BY <2>3, <3>7
  <2>4. CASE i = 4
    <3>. DEFINE c == 34 + f[1] + f[2] + f[3] + f[5] + f[6]
    <3>1. f[1] = g[1] /\ f[2] = g[2] /\ f[3] = g[3] /\ f[5] = g[5] /\ f[6] = g[6]
      BY <1>1, <2>4
    <3>2. c \in Nat /\ m = c + f[4]
      BY <1>4, AirSums
    <3>3. f[4] \in AirByte /\ g[4] \in AirByte
      <4>1. 4 \in 1 .. 6
        OBVIOUS
      <4>. QED
        BY <1>2, <4>1, Zenon
    <3>4. g[4] \in Nat
      BY <3>3 DEF AirByte
    <3>5. n = c + g[4]
      BY <1>4, <3>1, <3>4, AirSums
    <3>. HIDE DEF c, m, n
    <3>6. AirLow(c + f[4]) = AirLow(c + g[4])
      BY <1>3, <3>2, <3>5
    <3>7. f[4] = g[4]
      BY <3>2, <3>3, <3>6, AirRest, Zenon
    <3>. QED
      BY <2>4, <3>7
  <2>5. CASE i = 5
    <3>. DEFINE c == 34 + f[1] + f[2] + f[3] + f[4] + f[6]
    <3>1. f[1] = g[1] /\ f[2] = g[2] /\ f[3] = g[3] /\ f[4] = g[4] /\ f[6] = g[6]
      BY <1>1, <2>5
    <3>2. c \in Nat /\ m = c + f[5]
      BY <1>4, AirSums
    <3>3. f[5] \in AirByte /\ g[5] \in AirByte
      <4>1. 5 \in 1 .. 6
        OBVIOUS
      <4>. QED
        BY <1>2, <4>1, Zenon
    <3>4. g[5] \in Nat
      BY <3>3 DEF AirByte
    <3>5. n = c + g[5]
      BY <1>4, <3>1, <3>4, AirSums
    <3>. HIDE DEF c, m, n
    <3>6. AirLow(c + f[5]) = AirLow(c + g[5])
      BY <1>3, <3>2, <3>5
    <3>7. f[5] = g[5]
      BY <3>2, <3>3, <3>6, AirRest, Zenon
    <3>. QED
      BY <2>5, <3>7
  <2>6. CASE i = 6
    <3>. DEFINE c == 34 + f[1] + f[2] + f[3] + f[4] + f[5]
    <3>1. f[1] = g[1] /\ f[2] = g[2] /\ f[3] = g[3] /\ f[4] = g[4] /\ f[5] = g[5]
      BY <1>1, <2>6
    <3>2. c \in Nat /\ m = c + f[6]
      BY <1>4, AirSums
    <3>3. f[6] \in AirByte /\ g[6] \in AirByte
      <4>1. 6 \in 1 .. 6
        OBVIOUS
      <4>. QED
        BY <1>2, <4>1, Zenon
    <3>4. g[6] \in Nat
      BY <3>3 DEF AirByte
    <3>5. n = c + g[6]
      BY <1>4, <3>1, <3>4, AirSums
    <3>. HIDE DEF c, m, n
    <3>6. AirLow(c + f[6]) = AirLow(c + g[6])
      BY <1>3, <3>2, <3>5
    <3>7. f[6] = g[6]
      BY <3>2, <3>3, <3>6, AirRest, Zenon
    <3>. QED
      BY <2>6, <3>7
  <2>. QED
    BY <2>1, <2>2, <2>3, <2>4, <2>5, <2>6
<1>6. \A k \in 1 .. 6 : f[k] = g[k]
  BY <1>1, <1>5
<1>. QED
  BY <1>6, AirSame DEF f, g

AirPowers == [on : BOOLEAN, quiet : BOOLEAN]

\* A setting with a field changed is a setting.
LEMMA AirFields ==
  ASSUME NEW s \in Air!Settings
  PROVE  /\ [on |-> s.on, quiet |-> s.quiet] \in AirPowers
         /\ s.on \in BOOLEAN /\ s.quiet \in BOOLEAN
         /\ s.temp \in 0 .. 24 /\ s.fan \in 0 .. 3
         /\ \A b \in BOOLEAN : [s EXCEPT !.on = b] \in Air!Settings
         /\ \A b \in BOOLEAN : [s EXCEPT !.quiet = b] \in Air!Settings
         /\ \A b \in BOOLEAN, q \in BOOLEAN : [s EXCEPT !.on = b, !.quiet = q] \in Air!Settings
         /\ \A m \in 0 .. 255 : [s EXCEPT !.mode = m] \in Air!Settings
         /\ \A f \in 0 .. 3 : [s EXCEPT !.fan = f] \in Air!Settings
         /\ \A t \in 0 .. 24 : [s EXCEPT !.temp = t] \in Air!Settings
         /\ \A w \in 0 .. 3 : [s EXCEPT !.swing = w] \in Air!Settings
         /\ \A l \in {0, 80, 128} : [s EXCEPT !.lock = l] \in Air!Settings
<1>1. \A b \in BOOLEAN : [s EXCEPT !.on = b] \in Air!Settings
  BY SMTT(30) DEF Air!Settings
<1>2. \A b \in BOOLEAN : [s EXCEPT !.quiet = b] \in Air!Settings
  BY SMTT(30) DEF Air!Settings
<1>3. \A b \in BOOLEAN, q \in BOOLEAN : [s EXCEPT !.on = b, !.quiet = q] \in Air!Settings
  <2>1. \A b \in BOOLEAN, q \in BOOLEAN :
          [s EXCEPT !.on = b, !.quiet = q] = [[s EXCEPT !.on = b] EXCEPT !.quiet = q]
    BY DEF Air!Settings
  <2>2. \A r \in Air!Settings : \A q \in BOOLEAN : [r EXCEPT !.quiet = q] \in Air!Settings
    BY SMTT(30) DEF Air!Settings
  <2>. QED
    BY <1>1, <2>1, <2>2, Zenon
<1>4. \A m \in 0 .. 255 : [s EXCEPT !.mode = m] \in Air!Settings
  BY SMTT(30) DEF Air!Settings
<1>5. \A f \in 0 .. 3 : [s EXCEPT !.fan = f] \in Air!Settings
  BY SMTT(30) DEF Air!Settings
<1>6. \A t \in 0 .. 24 : [s EXCEPT !.temp = t] \in Air!Settings
  BY SMTT(30) DEF Air!Settings
<1>7. \A w \in 0 .. 3 : [s EXCEPT !.swing = w] \in Air!Settings
  BY SMTT(30) DEF Air!Settings
<1>8. \A l \in {0, 80, 128} : [s EXCEPT !.lock = l] \in Air!Settings
  BY SMTT(30) DEF Air!Settings
<1>9. /\ [on |-> s.on, quiet |-> s.quiet] \in AirPowers /\ s.on \in BOOLEAN /\ s.quiet \in BOOLEAN
      /\ s.temp \in 0 .. 24 /\ s.fan \in 0 .. 3
  BY DEF Air!Settings, AirPowers
<1>. QED
  BY <1>1, <1>2, <1>3, <1>4, <1>5, <1>6, <1>7, <1>8, <1>9

LEMMA AirZero ==
  /\ Air!Zero \in Air!Settings /\ [on |-> FALSE, quiet |-> FALSE] \in AirPowers
  /\ 0 \in 0 .. 255
<1>1. 0 \in 0 .. 255 /\ 0 \in 0 .. 3 /\ 0 \in 0 .. 24
  OBVIOUS
<1>2. Air!Zero \in Air!Settings
  BY <1>1, Zenon DEF Air!Zero, Air!Settings
<1>. QED
  BY <1>2 DEF AirPowers

AirTypes ==
  /\ acData \in Air!Settings /\ acUnit \in Air!Settings /\ acPower \in AirPowers
  /\ acCheck \in 0 .. 255 /\ acStatus \in {"idle", "sending", "awaitingcmd", "poll"}
  /\ acEnabled \in BOOLEAN /\ acAge \in 0 .. 2 /\ AirRx(acRx) /\ acTold \in AirTold
  /\ acLast \in Air!Settings

LEMMA AirTypesAre == Air!TypeOK <=> AirTypes
BY DEF Air!TypeOK, AirTypes, AirPowers, AirRx, AirTold

LEMMA AirStart ==
  ASSUME Air!Configured, Air!Init
  PROVE  Air!TypeOK /\ acCheck = 0
<1>1. acTold \in AirTold
  BY DEF Air!Init, AirTold
<1>2. acPower \in AirPowers /\ acCheck \in 0 .. 255 /\ acData \in Air!Settings /\ acLast \in Air!Settings
  BY AirZero DEF Air!Init
<1>3. acAge \in 0 .. 2 /\ AirRx(acRx) /\ acUnit \in Air!Settings
  BY DEF Air!Configured, Air!Init, AirRx
<1>4. acStatus = "idle" /\ acEnabled = FALSE /\ acCheck = 0
  BY DEF Air!Init
<1>5. AirTypes
  BY <1>1, <1>2, <1>3, <1>4 DEF AirTypes
<1>. QED
  BY <1>4, <1>5, AirTypesAre

\* What a frame to send does to the state, whatever was commanded.
AirSent(s) ==
  /\ acData' = s /\ acStatus' \in {acStatus, "sending", "awaitingcmd"} /\ acAge' \in {acAge, 0}
  /\ acUnit' \in Air!Settings /\ acTold' \in AirTold /\ acCheck' \in {0, acCheck}
  /\ UNCHANGED <<acPower, acEnabled, acRx, acLast>>

LEMMA AirSendData ==
  ASSUME Air!TypeOK, NEW u \in Air!Settings, Air!SendData(u)
  PROVE  /\ acStatus' \in {acStatus, "sending"} /\ acAge' \in {acAge, 0} /\ acUnit' \in Air!Settings
BY DEF Air!TypeOK, Air!SendData

LEMMA AirSends ==
  ASSUME Air!TypeOK, NEW s \in Air!Settings, NEW told \in AirTold, Air!Sends(s, told)
  PROVE  AirSent(s)
BY AirSendData DEF Air!Sends, AirSent

LEMMA AirCommands ==
  ASSUME Air!TypeOK, NEW s \in Air!Settings, NEW u \in Air!Settings, Air!Commands(s, u)
  PROVE  AirSent(s)
<1>1. acTold \in AirTold /\ acUnit \in Air!Settings
  BY DEF Air!TypeOK, AirTold
<1>. QED
  BY <1>1, AirSendData DEF Air!Commands, AirSent

\* Every command sends a setting.
LEMMA AirCtrl ==
  ASSUME Air!Configured, Air!TypeOK, NEW c \in AcCommands, Air!Ctrl(c)
  PROVE  \E s \in Air!Settings : AirSent(s)
<1>1. /\ acData \in Air!Settings /\ acUnit \in Air!Settings /\ acPower.quiet \in BOOLEAN
      /\ acTold \in AirTold
  BY DEF Air!TypeOK, AirTold
<1>2. \A b \in BOOLEAN :
        Air!Powered(acData, b) \in Air!Settings /\ [acUnit EXCEPT !.on = b] \in Air!Settings
  <2>1. \A b \in BOOLEAN : Air!Powered(acData, b) = [acData EXCEPT !.on = b, !.quiet = acPower.quiet]
    BY DEF Air!Powered
  <2>2. \A b \in BOOLEAN, q \in BOOLEAN : [acData EXCEPT !.on = b, !.quiet = q] \in Air!Settings
    BY <1>1, AirFields
  <2>3. \A b \in BOOLEAN : [acUnit EXCEPT !.on = b] \in Air!Settings
    BY <1>1, AirFields
  <2>. QED
    BY <1>1, <2>1, <2>2, <2>3, Zenon
<1>3. \A t \in 0 .. 24 : [acTold EXCEPT !.set = t] \in AirTold
  <2>1. \A t \in 0 .. 24 : t \in -1 .. 24
    OBVIOUS
  <2>. QED
    BY <1>1, <2>1, Zenon DEF AirTold
<1>4. \A f \in 0 .. 3 : [acTold EXCEPT !.fan = f] \in AirTold
  <2>1. \A f \in 0 .. 3 : f \in -1 .. 3
    OBVIOUS
  <2>. QED
    BY <1>1, <2>1, Zenon DEF AirTold
<1>5. \/ c[1] \in {"power", "lock", "swing", "quiet"} /\ c[2] \in {"on", "off"}
      \/ c[1] = "cmd" /\ c[2] \in DOMAIN Air!Modes
      \/ c[1] = "fan" /\ c[2] \in DOMAIN Air!Speeds
      \/ c[1] = "set" /\ c[2] \in Nat
      \/ c[1] \in {"speed", "mode"} /\ c[2] \in 0 .. 255
  BY DEF Air!Configured
<1>6. CASE c[1] = "power"
  <2>1. Air!CtrlPower(c[2] = "on")
    BY <1>6, Zenon DEF Air!Ctrl
  <2>2. (c[2] = "on") \in BOOLEAN
    OBVIOUS
  <2>. QED
    BY <2>1, <2>2, <1>2, AirCommands DEF Air!CtrlPower
<1>7. CASE c[1] = "cmd"
  <2>1. Air!CtrlCmd(c[2])
    BY <1>7, Zenon DEF Air!Ctrl
  <2>2. Air!Modes[c[2]] \in 0 .. 255
    BY <1>5, <1>7 DEF Air!Modes
  <2>. DEFINE s == [Air!Powered(acData, TRUE) EXCEPT !.mode = Air!Modes[c[2]]]
              v == IF c[2] = "fan" /\ s.fan = 3 THEN [s EXCEPT !.fan = 2] ELSE s
  <2>3. s \in Air!Settings
    BY <1>2, <2>2, AirFields
  <2>4. v \in Air!Settings
    <3>. HIDE DEF s
    <3>1. 2 \in 0 .. 3
      OBVIOUS
    <3>. QED
      BY <2>3, <3>1, AirFields, Zenon
  <2>5. Air!Commands(v, v)
    BY <2>1 DEF Air!CtrlCmd
  <2>. HIDE DEF v
  <2>. QED
    BY <2>4, <2>5, AirCommands
<1>8. CASE c[1] = "set"
  <2>1. Air!CtrlSet(c[2])
    BY <1>8, Zenon DEF Air!Ctrl
  <2>. QED
    BY <2>1, <1>1, <1>3, AirFields, AirSends DEF Air!CtrlSet
<1>9. CASE c[1] = "fan"
  <2>1. Air!CtrlFan(c[2])
    BY <1>9, Zenon DEF Air!Ctrl
  <2>2. Air!Speeds[c[2]] \in 0 .. 3
    BY <1>5, <1>9 DEF Air!Speeds
  <2>. QED
    BY <2>1, <2>2, <1>1, <1>4, AirFields, AirSends DEF Air!CtrlFan
<1>10. CASE c[1] = "speed"
  <2>1. IF c[2] = 0 THEN Air!CtrlFanOff ELSE Air!CtrlFanNumber(c[2])
    BY <1>10, Zenon DEF Air!Ctrl
  <2>2. CASE c[2] = 0
    BY <2>1, <2>2, <1>1, <1>2, AirSendData DEF Air!CtrlFanOff, AirSent
  <2>3. CASE c[2] # 0
    <3>. DEFINE code == 2 - ((c[2] - 1) * 2) \div 254
                s == [Air!Powered(acData, TRUE) EXCEPT !.fan = code]
    <3>1. c[2] \in 1 .. 255
      BY <1>5, <1>10, <2>3
    <3>2. code \in 0 .. 3
      BY <3>1
    <3>3. /\ acData' = s /\ Air!SendData(s) /\ acTold' = [acTold EXCEPT !.fan = code]
          /\ acCheck' = 0 /\ UNCHANGED <<acPower, acEnabled, acRx, acLast>>
      BY <2>1, <2>3 DEF Air!CtrlFanNumber
    <3>. HIDE DEF code
    <3>4. s \in Air!Settings /\ [acTold EXCEPT !.fan = code] \in AirTold
      BY <3>2, <1>2, <1>4, AirFields
    <3>. HIDE DEF s
    <3>. QED
      BY <3>3, <3>4, AirSendData DEF AirSent
  <2>. QED
    BY <2>2, <2>3
<1>11. ASSUME NEW s \in Air!Settings, Air!CtrlField(s)
       PROVE  AirSent(s)
  BY <1>11, <1>1, AirSends DEF Air!CtrlField
<1>12. CASE c[1] = "mode"
  <2>1. Air!CtrlField([acData EXCEPT !.mode = c[2]])
    BY <1>12, Zenon DEF Air!Ctrl
  <2>. QED
    BY <2>1, <1>1, <1>5, <1>11, <1>12, AirFields
<1>13. CASE c[1] = "lock"
  <2>1. Air!CtrlField([acData EXCEPT !.lock = IF c[2] = "on" THEN 80 ELSE 0])
    BY <1>13, Zenon DEF Air!Ctrl
  <2>2. (IF c[2] = "on" THEN 80 ELSE 0) \in {0, 80, 128}
    OBVIOUS
  <2>. DEFINE l == IF c[2] = "on" THEN 80 ELSE 0
  <2>3. l \in {0, 80, 128} /\ Air!CtrlField([acData EXCEPT !.lock = l])
    BY <2>1, <2>2
  <2>. HIDE DEF l
  <2>4. [acData EXCEPT !.lock = l] \in Air!Settings
    BY <2>3, <1>1, AirFields
  <2>. QED
    BY <2>3, <2>4, <1>11
<1>14. CASE c[1] = "swing"
  <2>1. Air!CtrlField([acData EXCEPT !.swing = IF c[2] = "on" THEN 3 ELSE 0])
    BY <1>14, Zenon DEF Air!Ctrl
  <2>. DEFINE w == IF c[2] = "on" THEN 3 ELSE 0
  <2>2. w \in 0 .. 3 /\ Air!CtrlField([acData EXCEPT !.swing = w])
    BY <2>1
  <2>. HIDE DEF w
  <2>3. [acData EXCEPT !.swing = w] \in Air!Settings
    BY <2>2, <1>1, AirFields
  <2>. QED
    BY <2>2, <2>3, <1>11
<1>15. CASE c[1] = "quiet"
  <2>1. Air!CtrlField([acData EXCEPT !.quiet = c[2] = "on"])
    BY <1>15, Zenon DEF Air!Ctrl
  <2>. QED
    BY <2>1, <1>1, <1>11, AirFields
<1>. QED
  BY <1>5, <1>6, <1>7, <1>8, <1>9, <1>10, <1>12, <1>13, <1>14, <1>15

\* The check byte and the power byte are the ones of the answer taken over last.
AirKnows ==
  acCheck # 0 => acCheck = Air!getCRC(acLast) /\ acPower = [on |-> acLast.on, quiet |-> acLast.quiet]

\* Reading takes both from one frame, or neither.
LEMMA AirRead ==
  ASSUME Air!Configured, Air!TypeOK, AirKnows, NEW rx, AirRx(rx), Air!Read(rx)
  PROVE  /\ AirRx(acRx') /\ acData' \in Air!Settings /\ acPower' \in AirPowers
         /\ acCheck' \in 0 .. 255 /\ acTold' \in AirTold /\ acLast' \in Air!Settings
         /\ AirKnows'
<1>. DEFINE f == acRx.of
<1>1. CASE acRx.is = "frame" /\ Air!getCRC(acRx.of) # acCheck
  <2>1. f \in Air!Settings
    BY <1>1 DEF Air!TypeOK, Air!Silent, Air!Damaged
  <2>2. Air!getCRC(f) \in 0 .. 255
    BY <2>1, AirCRC
  <2>3. /\ acData' = f /\ acCheck' = Air!getCRC(f) /\ acPower' = [on |-> f.on, quiet |-> f.quiet]
        /\ acTold' = [set |-> f.temp, fan |-> f.fan] /\ acRx' = rx /\ acLast' = f
    BY <1>1 DEF Air!Read
  <2>. HIDE DEF f
  <2>4. /\ [set |-> f.temp, fan |-> f.fan] \in AirTold
        /\ [on |-> f.on, quiet |-> f.quiet] \in AirPowers
    <3>1. f.temp \in 0 .. 24 /\ f.fan \in 0 .. 3
      BY <2>1, AirFields, Zenon
    <3>2. f.temp \in -1 .. 24 /\ f.fan \in -1 .. 3
      BY <3>1
    <3>3. [on |-> f.on, quiet |-> f.quiet] \in AirPowers
      BY <2>1, AirFields, Zenon
    <3>. QED
      BY <3>2, <3>3 DEF AirTold
  <2>5. AirKnows'
    BY <2>3 DEF AirKnows
  <2>. QED
    BY <2>1, <2>2, <2>3, <2>4, <2>5
<1>2. CASE ~(acRx.is = "frame" /\ Air!getCRC(acRx.of) # acCheck)
  <2>1. acRx' = rx /\ UNCHANGED <<acData, acCheck, acPower, acTold, acLast>>
    BY <1>2 DEF Air!Read
  <2>. QED
    BY <2>1 DEF Air!TypeOK, AirPowers, AirTold, AirKnows
<1>. QED
  BY <1>1, <1>2

LEMMA AirStep ==
  ASSUME Air!Configured, Air!TypeOK, AirKnows, [Air!Next]_Air!vars
  PROVE  Air!TypeOK' /\ AirKnows'
<1>1. AirTypes
  BY AirTypesAre
<1>. SUFFICES AirTypes' /\ AirKnows'
  BY AirTypesAre, PTL
<1>2. AirRx(Air!Silent) /\ AirRx(Air!Damaged) /\ AirRx(Air!Answer(acUnit))
  BY <1>1 DEF AirRx, AirTypes, Air!Answer
<1>3. CASE Air!PollSending
  BY <1>1, <1>2, <1>3, AirRead DEF Air!PollSending, AirTypes
<1>4. CASE Air!PollIdle
  BY <1>1, <1>2, <1>4, AirRead DEF Air!PollIdle, AirTypes
<1>5. CASE Air!PollPoll
  <2>1. PICK rx \in IF ~acEnabled THEN {Air!Silent}
                    ELSE {Air!Answer(acUnit)}
                           \cup IF AcLossy THEN {Air!Silent, Air!Damaged} ELSE {} :
          Air!Read(rx)
    BY <1>5 DEF Air!PollPoll
  <2>2. AirRx(rx)
    BY <2>1, <1>2
  <2>. QED
    BY <1>1, <1>5, <2>1, <2>2, AirRead DEF Air!PollPoll, AirTypes
<1>6. CASE Air!PollAwaitingCmd
  <2>1. acCheck' \in 0 .. 255 /\ acCheck' \in {0, acCheck}
    BY <1>1, <1>6 DEF Air!PollAwaitingCmd, AirTypes
  <2>2. AirTypes'
    BY <1>1, <1>2, <1>6, <2>1 DEF Air!PollAwaitingCmd, AirTypes
  <2>3. AirKnows'
    BY <1>6, <2>1 DEF Air!PollAwaitingCmd, AirKnows
  <2>. QED
    BY <2>2, <2>3
<1>7. CASE Air!PollIdleFast \/ Air!Tick
  BY <1>1, <1>7 DEF Air!PollIdleFast, Air!Tick, AirTypes, AirKnows
<1>8. CASE Air!Command
  <2>1. PICK s \in Air!Settings : AirSent(s)
    BY <1>8, AirCtrl DEF Air!Command
  <2>2. acCheck' \in 0 .. 255
    BY <2>1, <1>1 DEF AirSent, AirTypes
  <2>3. AirTypes'
    BY <1>1, <2>1, <2>2 DEF AirSent, AirTypes
  <2>4. AirKnows'
    BY <2>1 DEF AirSent, AirKnows
  <2>. QED
    BY <2>3, <2>4
<1>9. CASE Air!Remote
  BY <1>1, <1>9 DEF Air!Remote, Air!Configured, AirTypes, AirKnows
<1>10. CASE Air!Reload
  <2>1. AirTypes'
    <3>1. acPower' \in AirPowers /\ acCheck' \in 0 .. 255 /\ acData' \in Air!Settings
      BY <1>10, AirZero DEF Air!Reload, Air!Fresh
    <3>2. /\ acStatus' = "idle" /\ acEnabled' = FALSE /\ acAge' = 0 /\ acRx' = Air!Silent
          /\ UNCHANGED <<acUnit, acTold, acLast>>
      BY <1>10 DEF Air!Reload, Air!Fresh
    <3>3. AirRx(acRx') /\ 0 \in 0 .. 2
      BY <1>2, <3>2
    <3>4. acUnit \in Air!Settings /\ acTold \in AirTold /\ acLast \in Air!Settings
      BY <1>1 DEF AirTypes
    <3>. QED
      BY <3>1, <3>2, <3>3, <3>4, Zenon DEF AirTypes
  <2>2. AirKnows'
    BY <1>10 DEF Air!Reload, Air!Fresh, AirKnows
  <2>. QED
    BY <2>1, <2>2
<1>11. CASE UNCHANGED Air!vars
  BY <1>1, <1>11 DEF Air!vars, AirTypes, AirKnows
<1>. QED
  BY <1>3, <1>4, <1>5, <1>6, <1>7, <1>8, <1>9, <1>10, <1>11 DEF Air!Next, Air!Poll

LEMMA AirInvariant ==
  ASSUME Air!Configured
  PROVE  Air!Spec => [](Air!TypeOK /\ AirKnows)
<1>1. Air!Init => Air!TypeOK /\ AirKnows
  BY AirStart DEF AirKnows
<1>2. (Air!TypeOK /\ AirKnows) /\ [Air!Next]_Air!vars => (Air!TypeOK /\ AirKnows)'
  BY AirStep
<1>. QED
  BY <1>1, <1>2, PTL DEF Air!Spec

\* The types, for any commands that the driver takes, any remote control and any losses.
THEOREM AirTypesHold ==
  ASSUME Air!Configured
  PROVE  Air!Spec => []Air!TypeOK
BY AirInvariant, PTL

\* For the sum of the code: a unit that differs in one byte at most from the answer taken over
\* last, and whose answer would be passed over as nothing new, does not differ, and the power byte
\* that the next command keeps is its own, whatever was commanded and lost (out_ac.cpp:478, 553).
THEOREM PowerKnownHolds ==
  ASSUME Air!Configured
  PROVE  Air!Spec => []Air!PowerKnown
<1>1. Air!TypeOK /\ AirKnows => Air!PowerKnown
  <2>. SUFFICES ASSUME Air!TypeOK, AirKnows, acCheck # 0, Air!getCRC(acUnit) = acCheck,
                       Air!OneByte(acUnit, acLast)
                PROVE  acUnit = acLast /\ acPower = [on |-> acUnit.on, quiet |-> acUnit.quiet]
    BY DEF Air!PowerKnown
  <2>1. acUnit \in Air!Settings /\ acLast \in Air!Settings
    BY DEF Air!TypeOK
  <2>2. acCheck = Air!getCRC(acLast) /\ acPower = [on |-> acLast.on, quiet |-> acLast.quiet]
    BY DEF AirKnows
  <2>3. acUnit = acLast
    BY <2>1, <2>2, AirOneByte
  <2>. QED
    BY <2>2, <2>3
<1>. QED
  BY <1>1, AirInvariant, PTL

---------------------------------------------------------------------------------
\* Mercury, for any times.
CONSTANTS Interval, WAIT, KEEP
VARIABLES mercury, session, wire, stale
Meter == INSTANCE Mercury

\* The driver with a meter.
MercuryState ==
  [status : {"INITIALIZED", "CONNECTING", "CONNECTED", "POLLING", "FAILED"},
   polled : 0 .. Meter!LAST - 1, since : 0 .. Interval + WAIT, ok : 0 .. KEEP]

LEMMA MeterInit ==
  ASSUME Meter!Configured, Meter!Init
  PROVE  Meter!TypeOK /\ Meter!GivesUpRefused
<1>1. /\ 0 \in 0 .. Meter!LAST - 1 /\ 0 \in 0 .. Interval + WAIT
      /\ 0 \in 0 .. KEEP /\ 0 \in 0 .. Interval + 1
  BY DEF Meter!Configured, Meter!LAST
<1>2. [status |-> "INITIALIZED", polled |-> 0, since |-> 0, ok |-> 0] \in MercuryState
  BY <1>1, Zenon DEF MercuryState
<1>3. Meter!TypeOK
  BY <1>1, <1>2 DEF Meter!Init, Meter!TypeOK, MercuryState
<1>4. Meter!GivesUpRefused
  BY DEF Meter!Init, Meter!GivesUpRefused
<1>. QED
  BY <1>3, <1>4

LEMMA MeterTypes ==
  ASSUME Meter!Configured, Meter!TypeOK, [Meter!Next]_Meter!mercuryVars
  PROVE  Meter!TypeOK'
<1>. USE DEF Meter!TypeOK
<1>0. /\ mercury \in MercuryState
      /\ 0 \in 0 .. Meter!LAST - 1 /\ 0 \in 0 .. Interval + WAIT /\ 0 \in 0 .. KEEP
  BY DEF Meter!Configured, Meter!LAST, MercuryState
<1>1. \A s \in {"INITIALIZED", "CONNECTING", "CONNECTED", "POLLING", "FAILED"} :
        Meter!Goes(s) \in MercuryState
  BY <1>0, Zenon DEF Meter!Goes, MercuryState
<1>2. \A s \in {"INITIALIZED", "CONNECTING", "CONNECTED", "POLLING", "FAILED"} :
        /\ [Meter!Goes(s) EXCEPT !.ok = 0] \in MercuryState
        /\ [Meter!Goes(s) EXCEPT !.since = 0] \in MercuryState
  BY <1>0, <1>1, Zenon DEF MercuryState
<1>3. CASE Meter!Setup
  <2>1. [mercury EXCEPT !.status = "INITIALIZED", !.polled = 0, !.since = 0] \in MercuryState
    BY <1>0, Zenon DEF MercuryState
  <2>. QED
    BY <2>1, <1>3 DEF Meter!Setup, MercuryState
<1>4. ASSUME ~wire, UNCHANGED wire,
             Meter!InitializedStep \/ Meter!Login \/ Meter!ConnectedStep \/ Meter!LoginFails
               \/ Meter!Unanswered \/ Meter!PollFails
      PROVE  Meter!TypeOK'
  BY <1>4, <1>1, <1>2 DEF Meter!InitializedStep, Meter!Login, Meter!ConnectedStep, Meter!LoginFails,
     Meter!Unanswered, Meter!PollFails, Meter!NoSession, MercuryState
<1>5. ASSUME ~wire, UNCHANGED wire, Meter!Answered
      PROVE  Meter!TypeOK'
  <2>. DEFINE s == IF mercury.polled = Meter!LAST - 1 THEN "CONNECTED" ELSE mercury.status
              p == (mercury.polled + 1) % Meter!LAST
  <2>1. p \in 0 .. Meter!LAST - 1
    BY <1>0 DEF Meter!LAST, MercuryState
  <2>2. s \in {"INITIALIZED", "CONNECTING", "CONNECTED", "POLLING", "FAILED"}
    BY <1>0 DEF MercuryState
  <2>3. mercury' = [mercury EXCEPT !.polled = p, !.since = 0, !.ok = 0, !.status = s]
    BY <1>5 DEF Meter!Answered
  <2>. HIDE DEF s, p
  <2>4. mercury' \in MercuryState
    BY <1>0, <2>1, <2>2, <2>3, Zenon DEF MercuryState
  <2>5. stale' \in 0 .. Interval + 1 /\ session' \in {"open", "closed", "locked"}
    BY <1>5 DEF Meter!Answered, Meter!Configured
  <2>. QED
    BY <2>4, <2>5, <1>5 DEF MercuryState
<1>6. CASE Meter!Take \/ Meter!Release \/ Meter!Closes
  BY <1>6 DEF Meter!Take, Meter!Release, Meter!Closes
<1>7. CASE Meter!Tick
  <2>1. \A most \in Nat : \A t \in 0 .. most : Meter!Capped(t, most) \in 0 .. most
    BY DEF Meter!Capped
  <2>2. Interval + WAIT \in Nat /\ Interval + 1 \in Nat /\ KEEP \in Nat
    BY DEF Meter!Configured
  <2>3. /\ Meter!Capped(mercury.since, Interval + WAIT) \in 0 .. Interval + WAIT
        /\ Meter!Capped(mercury.ok, KEEP) \in 0 .. KEEP
        /\ Meter!Capped(stale, Interval + 1) \in 0 .. Interval + 1
    BY <1>0, <2>1, <2>2, Zenon DEF MercuryState
  <2>4. mercury' = [mercury EXCEPT !.since = Meter!Capped(mercury.since, Interval + WAIT),
                                   !.ok = Meter!Capped(mercury.ok, KEEP)]
    BY <1>7 DEF Meter!Tick
  <2>5. mercury' \in MercuryState
    BY <1>0, <2>3, <2>4, Zenon DEF MercuryState
  <2>. QED
    BY <1>7, <2>3, <2>5 DEF Meter!Tick, MercuryState
<1>8. CASE UNCHANGED Meter!mercuryVars
  BY <1>8 DEF Meter!mercuryVars
<1>. QED
  BY <1>3, <1>4, <1>5, <1>6, <1>7, <1>8
     DEF Meter!Next, Meter!Outside, Meter!Poll, Meter!Failing

\* A refused login is the only way to FAILED, and only an open session leads to CONNECTED.
LEMMA MeterStep ==
  ASSUME Meter!TypeOK, Meter!GivesUpRefused, [Meter!Next]_Meter!mercuryVars
  PROVE  Meter!GivesUpRefused'
<1>. USE DEF Meter!TypeOK, Meter!GivesUpRefused
<1>1. CASE Meter!Setup
  BY <1>1 DEF Meter!Setup
<1>2. CASE Meter!InitializedStep \/ Meter!Login \/ Meter!LoginFails
  BY <1>2 DEF Meter!InitializedStep, Meter!Login, Meter!LoginFails, Meter!Goes, Meter!InTime
<1>3. CASE Meter!ConnectedStep \/ Meter!Unanswered \/ Meter!PollFails
  BY <1>3 DEF Meter!ConnectedStep, Meter!InConnected, Meter!Unanswered, Meter!PollFails, Meter!Goes,
     Meter!NoSession
<1>4. CASE Meter!Answered
  BY <1>4 DEF Meter!Answered, Meter!LAST
<1>5. CASE Meter!Take \/ Meter!Release \/ Meter!Closes \/ Meter!Tick
  BY <1>5 DEF Meter!Take, Meter!Release, Meter!Closes, Meter!Tick
<1>6. CASE UNCHANGED Meter!mercuryVars
  BY <1>6 DEF Meter!mercuryVars
<1>. QED
  BY <1>1, <1>2, <1>3, <1>4, <1>5, <1>6
     DEF Meter!Next, Meter!Outside, Meter!Poll, Meter!Failing

\* The types, for any times.
THEOREM MeterTypesHold ==
  ASSUME Meter!Configured
  PROVE  Meter!Spec => []Meter!TypeOK
<1>1. Meter!Init => Meter!TypeOK
  BY MeterInit
<1>2. Meter!TypeOK /\ [Meter!Next]_Meter!mercuryVars => Meter!TypeOK'
  BY MeterTypes
<1>. QED
  BY <1>1, <1>2, PTL DEF Meter!Spec

\* The driver gives up a meter that refuses the login and no other, and asks no values of it,
\* whatever fails and closes meanwhile (out_mercury.cpp:106, 334-374).
THEOREM GivesUpRefusedHolds ==
  ASSUME Meter!Configured
  PROVE  Meter!Spec => []Meter!GivesUpRefused
<1>1. Meter!Init => Meter!GivesUpRefused
  BY MeterInit
<1>2. Meter!TypeOK /\ Meter!GivesUpRefused /\ [Meter!Next]_Meter!mercuryVars
        => Meter!GivesUpRefused'
  BY MeterStep
<1>. QED
  BY <1>1, <1>2, MeterTypesHold, PTL DEF Meter!Spec
=================================================================================
