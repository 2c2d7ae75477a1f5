-------------------------------- MODULE Motor --------------------------------
(***************************************************************************)
(* out_Motor: motorized gates and shutters.  A command asks for a position;  *)
(* polling drives the motor up or down until its position resistor shows it, *)
(* or until its time is over.  All motors share motorQuote, the number of    *)
(* motors that may still be started.                                        *)
(*                                                                         *)
(* Positions are scaled down, times are counted in ticks, and the integers   *)
(* keep their widths: millis() and maxOnTime wrap.  The speed is left out.   *)
(***************************************************************************)
EXTENDS Integers, FiniteSets

CONSTANTS
  Motors,       \* channels of type CH_MOTOR
  QUOTE,        \* MOTOR_QUOTE
  MAX,          \* positions are 0 .. MAX (0 .. 255)
  ERR,          \* POS_ERR
  Feedback,     \* motors with a position resistor
  OnTime,       \* the sixth argument of each motor, 0 if it is not given
  DEFAULT,      \* 10000 ms
  WORD,         \* maxOnTime is an integer of 16 bits: WORD = 2^16
  CLOCK         \* millis() is taken modulo CLOCK = 2^32

ASSUME MotorsAssumption == IsFiniteSet(Motors) /\ Feedback \subseteq Motors
ASSUME QuoteAssumption == QUOTE \in Nat \ {0}
ASSUME PositionsAssumption == MAX \in Nat /\ ERR \in Nat
ASSUME TimesAssumption ==
  /\ OnTime \in [Motors -> Nat] /\ DEFAULT \in Nat \ {0}
  /\ WORD \in Nat \ {0} /\ CLOCK \in Nat \ {0, 1}

VARIABLES
  configured,   \* the tree is there and Setup has been called for all motors
  motorQuote,   \* motors that may still be started
  needed,       \* FLAG_ACTION_NEEDED
  inProcess,    \* FLAG_ACTION_IN_PROCESS
  ext,          \* time stamp of the start, or of its extension; 0: none
  drive,        \* which of pinUp and pinDown is active: "up", "down" or "off"
  target,       \* the stored value of the channel
  pos,          \* where the gate is
  now,          \* millis()
  ran           \* history: ticks since the start or its last extension

flags  == <<needed, inProcess>>
vars   == <<configured, motorQuote, needed, inProcess, ext, drive, target, pos,
            now, ran>>

Positions == 0 .. MAX
Stamps    == 0 .. CLOCK - 1

TypeOK ==
  /\ configured \in BOOLEAN
  /\ motorQuote \in 0 .. QUOTE
  /\ needed \in [Motors -> BOOLEAN] /\ inProcess \in [Motors -> BOOLEAN]
  /\ ext \in [Motors -> Stamps]
  /\ drive \in [Motors -> {"up", "down", "off"}]
  /\ target \in [Motors -> Positions] /\ pos \in [Motors -> Positions]
  /\ now \in Stamps
  /\ ran \in [Motors -> 0 .. CLOCK]

off  == [m \in Motors |-> FALSE]
zero == [m \in Motors |-> 0]

\* Before the first configuration.
Init ==
  /\ configured = FALSE
  /\ motorQuote = QUOTE
  /\ needed = off /\ inProcess = off /\ ext = zero
  /\ drive = [m \in Motors |-> "off"]
  /\ target \in [Motors -> Positions] /\ pos \in [Motors -> Positions]
  /\ now = 0
  /\ ran = zero

-----------------------------------------------------------------------------
\* getConfig: the argument is stored in an int16_t.
maxOnTime(m) ==
  LET word == OnTime[m] % WORD
  IN IF word = 0 \/ word >= WORD \div 2 THEN DEFAULT ELSE word

\* What 16 bits hold is less than what 32 bits hold.
ASSUME TimesAreShort == \A m \in Motors : maxOnTime(m) < CLOCK - 1

\* Mutant of millisNZ: millis() itself.
Millis == now

\* Never 0, which stands for no time stamp, nor the last value.
millisNZ == IF now = 0 \/ now = CLOCK - 1 THEN 1 ELSE now

isTimeOver(m) == (now - ext[m]) % CLOCK >= maxOnTime(m)

\* How far the gate has to go: nothing once the time is over; without a
\* resistor, as far as the command is from the middle.
Dif(m) ==
  IF ext[m] # 0 /\ isTimeOver(m) THEN 0
  ELSE IF m \in Feedback THEN target[m] - pos[m]
  ELSE target[m] - MAX \div 2

Direction(m) ==
  CASE Dif(m) < -ERR -> "up"
    [] Dif(m) > ERR  -> "down"
    [] OTHER         -> "off"

\* Poll lets a motor in that is in process already, or while there is quota.
Admitted(m) == configured /\ needed[m] /\ (inProcess[m] \/ motorQuote > 0)

\* The quota once m is in process.
Started(m) == IF inProcess[m] THEN motorQuote ELSE motorQuote - 1

\* Mutant of PollDrives: the start is not stamped.
PollDrivesUnstamped(m) ==
  /\ Admitted(m) /\ Direction(m) # "off"
  /\ motorQuote' = Started(m)
  /\ inProcess' = [inProcess EXCEPT ![m] = TRUE]
  /\ drive' = [drive EXCEPT ![m] = Direction(m)]
  /\ UNCHANGED <<configured, needed, ext, target, pos, now, ran>>

\* Poll, towards the target: the other pin first, then the start is stamped.
PollDrives(m) ==
  /\ Admitted(m) /\ Direction(m) # "off"
  /\ motorQuote' = Started(m)
  /\ inProcess' = [inProcess EXCEPT ![m] = TRUE]
  /\ drive' = [drive EXCEPT ![m] = Direction(m)]
  /\ ext' = [ext EXCEPT ![m] = IF @ = 0 THEN millisNZ ELSE @]
  /\ ran' = [ran EXCEPT ![m] = IF ext[m] = 0 THEN 0 ELSE @]
  /\ UNCHANGED <<configured, needed, target, pos, now>>

\* Poll, in the target zone or with the time over.
PollStops(m) ==
  /\ Admitted(m) /\ Direction(m) = "off"
  /\ motorQuote' = Started(m) + 1
  /\ inProcess' = [inProcess EXCEPT ![m] = FALSE]
  /\ needed' = [needed EXCEPT ![m] = FALSE]
  /\ drive' = [drive EXCEPT ![m] = "off"]
  /\ ext' = [ext EXCEPT ![m] = 0]
  /\ UNCHANGED <<configured, target, pos, now, ran>>

Poll(m) == PollDrives(m) \/ PollStops(m)

\* Mutant of Set: the time goes on from the start.
SetNotExtended(m, t) ==
  /\ configured
  /\ needed' = [needed EXCEPT ![m] = TRUE]
  /\ target' = [target EXCEPT ![m] = t]
  /\ ran' = [ran EXCEPT ![m] = 0]
  /\ UNCHANGED <<configured, motorQuote, inProcess, ext, drive, pos, now>>

\* Ctrl with a value, ON or OFF: a motor that runs gets its time anew.
Set(m, t) ==
  /\ configured
  /\ needed' = [needed EXCEPT ![m] = TRUE]
  /\ target' = [target EXCEPT ![m] = t]
  /\ ext' = [ext EXCEPT ![m] = IF @ = 0 THEN 0 ELSE millisNZ]
  /\ ran' = [ran EXCEPT ![m] = 0]
  /\ UNCHANGED <<configured, motorQuote, inProcess, drive, pos, now>>

\* Ctrl with anything else, ENABLE or FREEZE for instance: the motor is polled
\* towards the target it has.
Other(m) ==
  /\ configured
  /\ needed' = [needed EXCEPT ![m] = TRUE]
  /\ UNCHANGED <<configured, motorQuote, inProcess, ext, drive, target, pos, now, ran>>

\* cleanConf: Stop for every motor, and the tree is gone with its flags.
CleanConf ==
  /\ configured
  /\ configured' = FALSE
  /\ ext' = zero /\ drive' = [m \in Motors |-> "off"]
  /\ needed' = off /\ inProcess' = off
  /\ UNCHANGED <<motorQuote, target, pos, now, ran>>

\* Mutant of Setup: the quota is what the old configuration has left of it.
SetupKeepsQuota ==
  /\ ~configured
  /\ configured' = TRUE
  /\ needed' = off /\ inProcess' = off /\ ext' = zero
  /\ drive' = [m \in Motors |-> "off"]
  /\ target' \in [Motors -> Positions]
  /\ UNCHANGED <<motorQuote, pos, now, ran>>

\* Mutant of Setup: a quota for every configuration.
SetupAddsQuota ==
  /\ ~configured
  /\ configured' = TRUE
  /\ needed' = off /\ inProcess' = off /\ ext' = zero
  /\ drive' = [m \in Motors |-> "off"]
  /\ motorQuote' = motorQuote + QUOTE
  /\ target' \in [Motors -> Positions]
  /\ UNCHANGED <<pos, now, ran>>

\* applyConfig: Setup for every motor, nothing is polled in between.  The stored
\* values may have changed with the tree.
Setup ==
  /\ ~configured
  /\ configured' = TRUE
  /\ needed' = off /\ inProcess' = off /\ ext' = zero
  /\ drive' = [m \in Motors |-> "off"]
  /\ motorQuote' = QUOTE
  /\ target' \in [Motors -> Positions]
  /\ UNCHANGED <<pos, now, ran>>

\* The gate moves while its motor runs; it may be blocked.
Move(m) ==
  /\ \/ drive[m] = "up" /\ pos[m] > 0 /\ pos' = [pos EXCEPT ![m] = @ - 1]
     \/ drive[m] = "down" /\ pos[m] < MAX /\ pos' = [pos EXCEPT ![m] = @ + 1]
  /\ UNCHANGED <<configured, motorQuote, flags, ext, drive, target, now, ran>>

\* millis(): pollingLoop is much faster than a tick, so that nobody's time is
\* over for as long as a tick.
Tick ==
  /\ \A m \in Motors : drive[m] # "off" => ~isTimeOver(m)
  /\ now' = IF now = CLOCK - 1 THEN 0 ELSE now + 1
  /\ ran' = [m \in Motors |-> IF drive[m] # "off" /\ ran[m] < CLOCK THEN ran[m] + 1 ELSE ran[m]]
  /\ UNCHANGED <<configured, motorQuote, flags, ext, drive, target, pos>>

\* What comes from outside: commands and configurations.
Outside ==
  \/ \E m \in Motors, t \in Positions : Set(m, t)
  \/ \E m \in Motors : Other(m)
  \/ CleanConf

Next ==
  \/ \E m \in Motors : Poll(m) \/ Move(m)
  \/ Outside \/ Setup \/ Tick

Spec == Init /\ [][Next]_vars

\* pollingLoop polls every item in every round.
FairSpec ==
  Spec /\ WF_vars(Setup) /\ WF_vars(Tick) /\ \A m \in Motors : WF_vars(Poll(m))

-----------------------------------------------------------------------------
(***************************************************************************)
(* Properties                                                              *)
(***************************************************************************)

Running == {m \in Motors : drive[m] # "off"}
InProcess == {m \in Motors : inProcess[m]}

\* No more than MOTOR_QUOTE motors run at the same time, because each of them
\* holds a unit of the quota; and no unit is lost, also when a configuration
\* is replaced while motors run.
QuotaKept ==
  /\ Cardinality(Running) <= QUOTE
  /\ configured => motorQuote + Cardinality(InProcess) = QUOTE

\* A motor that runs has a time stamp, so that its time will be over, and is
\* still polled: no order of commands and stops leaves one running unattended.
RunningIsTimed ==
  \A m \in Running : configured /\ needed[m] /\ inProcess[m] /\ ext[m] # 0

\* A motor is not stopped before the time that maxOnTime makes of its argument,
\* unless it is where it should be (or, in the millisecond in which millis()
\* wraps, millisNZ stamps it with 1: its time is then over at once).  That is
\* the configured time only where an int16_t holds it: 60000 ms become DEFAULT.
Near(m) ==
  LET d == target[m] - (IF m \in Feedback THEN pos[m] ELSE MAX \div 2)
  IN d \in -ERR .. ERR
StopsInTime ==
  \A m \in Running : drive'[m] = "off" /\ configured' =>
    ran[m] >= maxOnTime(m) \/ Near(m) \/ ext[m] = 1
NotStoppedEarly == [][StopsInTime]_vars

\* When nobody sends commands or configurations any more, every motor, those
\* that wait for quota included, comes to rest.
AtRest == \A m \in Motors : ~needed[m] /\ drive[m] = "off"
ComesToRest == <>[][~Outside]_vars => <>[]AtRest
=============================================================================
