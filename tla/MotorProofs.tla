----------------------------- MODULE MotorProofs -----------------------------
(***************************************************************************)
(* Proofs about Motor, for any set of motors, any quota, any positions and   *)
(* times.  A motor that runs is in process, and the motors in process hold   *)
(* exactly the quota that is not free.                                      *)
(***************************************************************************)
EXTENDS Motor, FiniteSetTheorems, TLAPS

\* What is free and what is taken make up the quota.
Balance == motorQuote + Cardinality(InProcess) = QUOTE

\* The inductive invariant; without a configuration no motor is in process.
IInv ==
  /\ TypeOK
  /\ RunningIsTimed
  /\ configured => Balance
  /\ ~configured => InProcess = {}

-----------------------------------------------------------------------------
\* The motors in process are a finite set, and so is what a poll makes of it.
LEMMA Finite ==
  ASSUME TypeOK
  PROVE  /\ IsFiniteSet(InProcess) /\ Cardinality(InProcess) \in Nat
         /\ IsFiniteSet(Running) /\ Cardinality(Running) \in Nat
<1>1. InProcess \subseteq Motors /\ Running \subseteq Motors
  BY DEF InProcess, Running
<1>. QED
  BY <1>1, MotorsAssumption, FS_Subset, FS_CardinalityType

\* A poll that lets m in takes one unit unless m has one already.
LEMMA StartedBalance ==
  ASSUME TypeOK, Balance, NEW m \in Motors, Admitted(m)
  PROVE  /\ Started(m) \in 0 .. QUOTE
         /\ Started(m) + Cardinality(InProcess \cup {m}) = QUOTE
<1>1. IsFiniteSet(InProcess) /\ Cardinality(InProcess) \in Nat
  BY Finite
<1>2. motorQuote \in 0 .. QUOTE
  BY DEF TypeOK
<1>3. CASE inProcess[m]
  <2>1. m \in InProcess
    BY <1>3 DEF InProcess
  <2>2. InProcess \cup {m} = InProcess
    BY <2>1
  <2>. QED
    BY <2>2, <1>2, <1>3 DEF Started, Balance
<1>4. CASE ~inProcess[m]
  <2>1. m \notin InProcess
    BY <1>4 DEF InProcess
  <2>2. Cardinality(InProcess \cup {m}) = Cardinality(InProcess) + 1
    BY <2>1, <1>1, FS_AddElement
  <2>3. motorQuote > 0
    BY <1>4 DEF Admitted
  <2>4. Started(m) = motorQuote - 1
    BY <1>4 DEF Started
  <2>. QED
    BY <2>2, <2>3, <2>4, <1>1, <1>2, QuoteAssumption DEF Balance
<1>. QED
  BY <1>3, <1>4

\* A time stamp is a time, and never the empty one.
LEMMA MillisNZType ==
  ASSUME TypeOK
  PROVE  millisNZ \in Stamps /\ millisNZ # 0
<1>1. CLOCK \in Nat /\ CLOCK > 1
  BY TimesAssumption
<1>2. now \in 0 .. CLOCK - 1
  BY DEF TypeOK, Stamps
<1>. QED
  BY <1>1, <1>2 DEF millisNZ, Stamps

-----------------------------------------------------------------------------
\* At first there is no configuration and no motor runs.
LEMMA InitInv == Init => IInv
<1>. SUFFICES ASSUME Init PROVE IInv
  OBVIOUS
<1>1. TypeOK
  <2>1. 0 \in Stamps /\ 0 \in 0 .. CLOCK /\ QUOTE \in 0 .. QUOTE
    BY QuoteAssumption, TimesAssumption DEF Stamps
  <2>. QED
    BY <2>1 DEF Init, TypeOK, off, zero
<1>2. InProcess = {} /\ Running = {}
  BY DEF Init, InProcess, Running, off
<1>. QED
  BY <1>1, <1>2 DEF Init, IInv, RunningIsTimed

\* A poll that drives a motor.
LEMMA PollDrivesInv ==
  ASSUME IInv, NEW m \in Motors, PollDrives(m)
  PROVE  IInv'
<1>1. Started(m) \in 0 .. QUOTE /\ Started(m) + Cardinality(InProcess \cup {m}) = QUOTE
  BY StartedBalance DEF IInv, PollDrives, Admitted
<1>2. millisNZ \in Stamps /\ millisNZ # 0
  BY MillisNZType DEF IInv
<1>3. Direction(m) \in {"up", "down", "off"}
  BY DEF Direction
<1>4. InProcess' = InProcess \cup {m}
  BY DEF PollDrives, InProcess, IInv, TypeOK
<1>5. TypeOK'
  BY <1>1, <1>2, <1>3, TimesAssumption DEF IInv, TypeOK, PollDrives
<1>6. RunningIsTimed'
  <2>. SUFFICES ASSUME NEW k \in Motors, drive'[k] # "off"
                PROVE  configured' /\ needed'[k] /\ inProcess'[k] /\ ext'[k] # 0
    BY DEF RunningIsTimed, Running
  <2>1. CASE k = m
    BY <2>1, <1>2 DEF PollDrives, Admitted, IInv, TypeOK
  <2>2. CASE k # m
    BY <2>2 DEF PollDrives, IInv, TypeOK, RunningIsTimed, Running
  <2>. QED
    BY <2>1, <2>2
<1>7. configured' /\ Balance'
  BY <1>1, <1>4 DEF PollDrives, Admitted, Balance
<1>. QED
  BY <1>5, <1>6, <1>7 DEF IInv

\* A poll that stops a motor gives its unit back.
LEMMA PollStopsInv ==
  ASSUME IInv, NEW m \in Motors, PollStops(m)
  PROVE  IInv'
<1>1. Started(m) \in 0 .. QUOTE /\ Started(m) + Cardinality(InProcess \cup {m}) = QUOTE
  BY StartedBalance DEF IInv, PollStops, Admitted
<1>2. InProcess' = InProcess \ {m}
  BY DEF PollStops, InProcess, IInv, TypeOK
<1>3. IsFiniteSet(InProcess)
  BY Finite DEF IInv
<1>4. /\ Cardinality(InProcess \ {m}) \in Nat
      /\ Cardinality(InProcess \cup {m}) = Cardinality(InProcess \ {m}) + 1
  <2>. DEFINE rest == InProcess \ {m}
  <2>1. IsFiniteSet(rest)
    BY <1>3, FS_Subset
  <2>2. InProcess \cup {m} = rest \cup {m} /\ m \notin rest
    OBVIOUS
  <2>. QED
    BY <2>1, <2>2, FS_AddElement, FS_CardinalityType
<1>5. motorQuote' \in 0 .. QUOTE /\ configured' /\ Balance'
  BY <1>1, <1>2, <1>4, QuoteAssumption DEF PollStops, Admitted, Balance
<1>6. TypeOK'
  BY <1>5, TimesAssumption DEF IInv, TypeOK, PollStops, Stamps
<1>7. RunningIsTimed'
  BY DEF PollStops, Admitted, IInv, TypeOK, RunningIsTimed, Running
<1>. QED
  BY <1>5, <1>6, <1>7 DEF IInv

\* Commands.
LEMMA CtrlInv ==
  ASSUME IInv, NEW m \in Motors,
         Other(m) \/ \E t \in Positions : Set(m, t)
  PROVE  IInv'
<1>1. millisNZ \in Stamps /\ millisNZ # 0
  BY MillisNZType DEF IInv
<1>2. CASE Other(m)
  <2>1. InProcess' = InProcess
    BY <1>2 DEF Other, InProcess
  <2>2. TypeOK' /\ RunningIsTimed'
    BY <1>2 DEF Other, IInv, TypeOK, RunningIsTimed, Running
  <2>. QED
    BY <2>1, <2>2, <1>2 DEF Other, IInv, Balance
<1>3. ASSUME NEW t \in Positions, Set(m, t)
      PROVE  IInv'
  <2>1. InProcess' = InProcess
    BY <1>3 DEF Set, InProcess
  <2>2. TypeOK'
    BY <1>1, <1>3, TimesAssumption DEF Set, IInv, TypeOK, Stamps
  <2>3. RunningIsTimed'
    BY <1>1, <1>3 DEF Set, IInv, TypeOK, RunningIsTimed, Running
  <2>. QED
    BY <2>1, <2>2, <2>3, <1>3 DEF Set, IInv, Balance
<1>. QED
  BY <1>2, <1>3

\* A configuration goes or comes: all flags are cleared, and the quota is whole.
LEMMA ConfigurationInv ==
  ASSUME IInv, CleanConf \/ Setup
  PROVE  IInv'
<1>1. InProcess' = {} /\ Running' = {}
  BY DEF CleanConf, Setup, InProcess, Running, off
<1>2. TypeOK'
  <2>1. 0 \in Stamps /\ QUOTE \in 0 .. QUOTE
    BY QuoteAssumption, TimesAssumption DEF Stamps
  <2>. QED
    BY <2>1 DEF CleanConf, Setup, IInv, TypeOK, off, zero
<1>3. configured' => Balance'
  BY <1>1, FS_EmptySet, QuoteAssumption DEF CleanConf, Setup, Balance
<1>. QED
  BY <1>1, <1>2, <1>3 DEF IInv, RunningIsTimed

\* Gates and time move.
LEMMA EnvironmentInv ==
  ASSUME IInv, Tick \/ \E m \in Motors : Move(m)
  PROVE  IInv'
<1>1. InProcess' = InProcess /\ RunningIsTimed'
  BY DEF Tick, Move, flags, InProcess, IInv, RunningIsTimed, Running
<1>2. CASE Tick
  <2>1. now' \in Stamps
    BY <1>2, TimesAssumption DEF Tick, IInv, TypeOK, Stamps
  <2>2. ran' \in [Motors -> 0 .. CLOCK]
    BY <1>2, TimesAssumption DEF Tick, IInv, TypeOK
  <2>. QED
    BY <1>1, <1>2, <2>1, <2>2 DEF Tick, flags, IInv, TypeOK, Balance
<1>3. ASSUME NEW m \in Motors, Move(m)
      PROVE  IInv'
  <2>1. pos' \in [Motors -> Positions]
    BY <1>3, PositionsAssumption DEF Move, IInv, TypeOK, Positions
  <2>. QED
    BY <1>1, <1>3, <2>1 DEF Move, flags, IInv, TypeOK, Balance
<1>. QED
  BY <1>2, <1>3

\* Every step keeps the invariant.
LEMMA NextInv == IInv /\ [Next]_vars => IInv'
<1>. SUFFICES ASSUME IInv, [Next]_vars PROVE IInv'
  OBVIOUS
<1>1. ASSUME NEW m \in Motors, Poll(m) PROVE IInv'
  BY <1>1, PollDrivesInv, PollStopsInv DEF Poll
<1>2. CASE Outside
  BY <1>2, CtrlInv, ConfigurationInv DEF Outside
<1>3. CASE Setup
  BY <1>3, ConfigurationInv
<1>4. CASE Tick \/ \E m \in Motors : Move(m)
  BY <1>4, EnvironmentInv
<1>5. CASE UNCHANGED vars
  BY <1>5 DEF vars, IInv, TypeOK, RunningIsTimed, Running, Balance, InProcess
<1>. QED
  BY <1>1, <1>2, <1>3, <1>4, <1>5 DEF Next

\* The invariant holds throughout.
LEMMA Invariance == Spec => []IInv
  BY InitInv, NextInv, PTL DEF Spec

\* Type correctness; that the quota stays between 0 and QUOTE is part of it.
THEOREM TypeCorrect == Spec => []TypeOK
<1>1. IInv => TypeOK
  BY DEF IInv
<1>. QED
  BY <1>1, Invariance, PTL

\* At most MOTOR_QUOTE motors run, and the quota is never lost or duplicated,
\* whatever is commanded, stopped, timed out or configured anew.
THEOREM QuotaKeptHolds == Spec => []QuotaKept
<1>1. IInv => QuotaKept
  <2>. SUFFICES ASSUME IInv PROVE QuotaKept
    OBVIOUS
  <2>1. Running \subseteq InProcess
    BY DEF IInv, RunningIsTimed, Running, InProcess
  <2>2. IsFiniteSet(InProcess) /\ Cardinality(InProcess) \in Nat /\ Cardinality(Running) \in Nat
    BY Finite DEF IInv
  <2>3. Cardinality(Running) <= Cardinality(InProcess)
    BY <2>1, <2>2, FS_Subset
  <2>4. Cardinality(InProcess) <= QUOTE
    BY <2>2, FS_EmptySet, QuoteAssumption DEF IInv, TypeOK, Balance
  <2>. QED
    BY <2>2, <2>3, <2>4, QuoteAssumption DEF IInv, QuotaKept, Balance
<1>. QED
  BY <1>1, Invariance, PTL

\* No motor runs without a time stamp or without being polled.
THEOREM RunningIsTimedHolds == Spec => []RunningIsTimed
<1>1. IInv => RunningIsTimed
  BY DEF IInv
<1>. QED
  BY <1>1, Invariance, PTL
-----------------------------------------------------------------------------
\* How long a motor has run, by its stamp: the clock never shows more than the ticks that were
\* counted, for whatever was stamped with the time; 1 may stand for 0 and for the last value.
Counted ==
  \A m \in Motors : /\ ext[m] # 0 => drive[m] # "off"
                    /\ ext[m] > 1 => (now - ext[m]) % CLOCK <= ran[m]

LEMMA ModType ==
  ASSUME NEW c \in Nat \ {0}, NEW x \in Int
  PROVE  x % c \in 0 .. c - 1
OBVIOUS
LEMMA ModSame ==
  ASSUME NEW c \in Nat \ {0}, NEW x \in Int, 0 <= x, x < c
  PROVE  x % c = x
OBVIOUS
LEMMA ModUnder ==
  ASSUME NEW c \in Nat \ {0}, NEW x \in Int, 0 - c <= x, x < 0
  PROVE  x % c = x + c
OBVIOUS

\* The clock goes on by one.
LEMMA ModTick ==
  ASSUME NEW c \in Nat \ {0, 1}, NEW a \in 0 .. c - 1, NEW b \in 0 .. c - 1,
         NEW n, n = IF a = c - 1 THEN 0 ELSE a + 1
  PROVE  (n - b) % c <= ((a - b) % c) + 1
<1>1. n \in 0 .. c - 1
  OBVIOUS
<1>2. (a - b) % c = IF a >= b THEN a - b ELSE a - b + c
  BY ModSame, ModUnder
<1>3. (n - b) % c = IF n >= b THEN n - b ELSE n - b + c
  BY <1>1, ModSame, ModUnder
<1>. QED
  BY <1>1, <1>2, <1>3

\* The stamp of this moment counts nothing yet, or is 1.
LEMMA StampedNow ==
  ASSUME TypeOK
  PROVE  millisNZ > 1 => (now - millisNZ) % CLOCK = 0
<1>1. now \in Int /\ CLOCK \in Nat \ {0}
  BY TimesAssumption DEF TypeOK, Stamps
<1>2. millisNZ > 1 => millisNZ = now
  BY DEF millisNZ
<1>3. 0 % CLOCK = 0
  BY <1>1, ModSame
<1>. QED
  BY <1>1, <1>2, <1>3

LEMMA CountedInit == Init => Counted
BY DEF Init, Counted, zero

LEMMA CountedNext ==
  ASSUME IInv, Counted, [Next]_vars
  PROVE  Counted'
<1>. USE DEF IInv
<1>1. /\ CLOCK \in Nat \ {0, 1} /\ now \in 0 .. CLOCK - 1
      /\ ext \in [Motors -> 0 .. CLOCK - 1] /\ ran \in [Motors -> 0 .. CLOCK]
      /\ drive \in [Motors -> {"up", "down", "off"}]
  BY TimesAssumption DEF TypeOK, Stamps
<1>2. millisNZ \in 0 .. CLOCK - 1 /\ (millisNZ > 1 => (now - millisNZ) % CLOCK = 0)
  BY MillisNZType, StampedNow DEF Stamps
<1>3. ASSUME NEW m \in Motors, PollDrives(m)
      PROVE  Counted'
  <2>1. /\ drive' = [drive EXCEPT ![m] = Direction(m)] /\ Direction(m) # "off" /\ now' = now
        /\ ext' = [ext EXCEPT ![m] = IF ext[m] = 0 THEN millisNZ ELSE ext[m]]
        /\ ran' = [ran EXCEPT ![m] = IF ext[m] = 0 THEN 0 ELSE ran[m]]
    BY <1>3 DEF PollDrives
  <2>2. ASSUME NEW k \in Motors, ext'[k] > 1
        PROVE  (now' - ext'[k]) % CLOCK <= ran'[k]
    <3>1. CASE k = m /\ ext[m] = 0
      <4>1. ext'[k] = millisNZ /\ ran'[k] = 0 /\ drive'[k] # "off"
        BY <1>1, <2>1, <3>1
      <4>. QED
        BY <1>2, <2>1, <2>2, <4>1
    <3>2. CASE ~(k = m /\ ext[m] = 0)
      <4>1. ext'[k] = ext[k] /\ ran'[k] = ran[k] /\ (k # m => drive'[k] = drive[k]) /\ (k = m => drive'[k] # "off")
        BY <1>1, <2>1, <3>2
      <4>. QED
        BY <2>1, <2>2, <4>1 DEF Counted
    <3>. QED
      BY <3>1, <3>2
  <2>3. \A k \in Motors : ext'[k] # 0 => drive'[k] # "off"
    BY <1>1, <2>1 DEF Counted
  <2>. QED
    BY <2>2, <2>3 DEF Counted
<1>4. ASSUME NEW m \in Motors, PollStops(m)
      PROVE  Counted'
  BY <1>1, <1>4 DEF PollStops, Counted
<1>5. ASSUME NEW m \in Motors, NEW t \in Positions, Set(m, t)
      PROVE  Counted'
  <2>1. /\ drive' = drive /\ now' = now /\ ran' = [ran EXCEPT ![m] = 0]
        /\ ext' = [ext EXCEPT ![m] = IF ext[m] = 0 THEN 0 ELSE millisNZ]
    BY <1>5 DEF Set
  <2>2. ASSUME NEW k \in Motors, ext'[k] > 1
        PROVE  (now' - ext'[k]) % CLOCK <= ran'[k]
    <3>1. CASE k = m
      <4>1. ext'[k] = millisNZ /\ ran'[k] = 0 /\ ext[m] # 0
        BY <1>1, <2>1, <2>2, <3>1
      <4>2. drive[m] # "off"
        BY <4>1 DEF Counted
      <4>. QED
        BY <1>2, <2>1, <2>2, <3>1, <4>1, <4>2
    <3>2. CASE k # m
      <4>1. ext'[k] = ext[k] /\ ran'[k] = ran[k] /\ drive'[k] = drive[k]
        BY <1>1, <2>1, <3>2
      <4>. QED
        BY <2>1, <2>2, <4>1 DEF Counted
    <3>. QED
      BY <3>1, <3>2
  <2>3. \A k \in Motors : ext'[k] # 0 => drive'[k] # "off"
    BY <1>1, <2>1 DEF Counted
  <2>. QED
    BY <2>2, <2>3 DEF Counted
<1>6. ASSUME NEW m \in Motors, Other(m) \/ Move(m)
      PROVE  Counted'
  BY <1>6 DEF Other, Move, flags, Counted
<1>7. CASE CleanConf \/ Setup
  BY <1>7 DEF CleanConf, Setup, Counted, zero
<1>8. CASE Tick
  <2>1. /\ now' = IF now = CLOCK - 1 THEN 0 ELSE now + 1
        /\ ran' = [m \in Motors |-> IF drive[m] # "off" /\ ran[m] < CLOCK THEN ran[m] + 1 ELSE ran[m]]
        /\ ext' = ext /\ drive' = drive
    BY <1>8 DEF Tick
  <2>2. ASSUME NEW k \in Motors, ext[k] > 1
        PROVE  (now' - ext[k]) % CLOCK <= ran'[k]
    <3>1. drive[k] # "off" /\ (now - ext[k]) % CLOCK <= ran[k] /\ ran[k] \in 0 .. CLOCK
      BY <1>1, <2>2 DEF Counted
    <3>2. ext[k] \in 0 .. CLOCK - 1 /\ now' \in 0 .. CLOCK - 1
      BY <1>1, <2>1
    <3>3. (now' - ext[k]) % CLOCK <= ((now - ext[k]) % CLOCK) + 1
      BY <1>1, <2>1, <3>2, ModTick
    <3>4. (now' - ext[k]) % CLOCK \in 0 .. CLOCK - 1 /\ (now - ext[k]) % CLOCK \in 0 .. CLOCK - 1
      <4>1. CLOCK \in Nat \ {0} /\ now' - ext[k] \in Int /\ now - ext[k] \in Int
        BY <1>1, <3>2
      <4>. QED
        BY <4>1, ModType, Zenon
    <3>5. ran'[k] = IF ran[k] < CLOCK THEN ran[k] + 1 ELSE ran[k]
      BY <2>1, <3>1
    <3>. QED
      BY <1>1, <3>1, <3>3, <3>4, <3>5
  <2>. QED
    BY <2>1, <2>2 DEF Counted
<1>9. CASE UNCHANGED vars
  BY <1>9 DEF vars, Counted
<1>. QED
  BY <1>3, <1>4, <1>5, <1>6, <1>7, <1>8, <1>9 DEF Next, Outside, Poll

\* A motor that runs is stopped before maxOnTime only where it should be, whatever is commanded
\* and whenever millis() wraps; for all arguments, those that int16_t cuts included.
THEOREM NotStoppedEarlyHolds == Spec => NotStoppedEarly
<1>1. ASSUME NEW m \in Motors
      PROVE  maxOnTime(m) \in Nat
  <2>1. OnTime[m] \in Nat /\ WORD \in Nat \ {0} /\ DEFAULT \in Nat
    BY TimesAssumption
  <2>2. OnTime[m] % WORD \in Nat
    BY <2>1
  <2>. QED
    BY <2>1, <2>2 DEF maxOnTime
<1>2. IInv /\ Counted /\ [Next]_vars => StopsInTime
  <2>. SUFFICES ASSUME IInv, Counted, [Next]_vars, NEW m \in Running, drive'[m] = "off", configured'
                PROVE  ran[m] >= maxOnTime(m) \/ Near(m) \/ ext[m] = 1
    BY DEF StopsInTime
  <2>1. m \in Motors /\ drive[m] # "off" /\ configured /\ ext[m] # 0
    BY DEF Running, IInv, RunningIsTimed
  <2>2. /\ ext \in [Motors -> 0 .. CLOCK - 1] /\ ran \in [Motors -> 0 .. CLOCK] /\ CLOCK \in Nat \ {0, 1}
        /\ drive \in [Motors -> {"up", "down", "off"}] /\ now \in Int
        /\ target[m] \in Int /\ pos[m] \in Int /\ ERR \in Nat /\ MAX \in Nat
    BY <2>1, TimesAssumption, PositionsAssumption DEF IInv, TypeOK, Stamps, Positions
  <2>3. PollStops(m)
    <3>1. ASSUME NEW k \in Motors, Poll(k)
          PROVE  PollStops(m)
      BY <2>1, <2>2, <3>1 DEF Poll, PollDrives, PollStops
    <3>2. CASE Outside \/ Setup \/ Tick \/ UNCHANGED vars \/ \E k \in Motors : Move(k)
      BY <2>1, <3>2 DEF Outside, Set, Other, CleanConf, Setup, Tick, Move, vars
    <3>. QED
      BY <3>1, <3>2 DEF Next
  <2>4. ~(Dif(m) < -ERR) /\ ~(Dif(m) > ERR)
    BY <2>3 DEF PollStops, Direction
  <2>5. CASE isTimeOver(m)
    <3>1. (now - ext[m]) % CLOCK >= maxOnTime(m) /\ maxOnTime(m) \in Nat
      BY <1>1, <2>1, <2>5 DEF isTimeOver
    <3>2. ext[m] # 1 => (now - ext[m]) % CLOCK <= ran[m]
      BY <2>1, <2>2 DEF Counted
    <3>3. (now - ext[m]) % CLOCK \in Int /\ ran[m] \in Int
      BY <2>1, <2>2, ModType
    <3>. QED
      BY <3>1, <3>2, <3>3
  <2>6. CASE ~isTimeOver(m)
    <3>. DEFINE d == target[m] - (IF m \in Feedback THEN pos[m] ELSE MAX \div 2)
    <3>1. Dif(m) = d
      BY <2>6 DEF Dif
    <3>2. d \in Int
      BY <2>2
    <3>. HIDE DEF d
    <3>3. d \in -ERR .. ERR
      BY <2>2, <2>4, <3>1, <3>2
    <3>. QED
      BY <3>3 DEF Near, d
  <2>. QED
    BY <2>5, <2>6
<1>3. Spec => [](IInv /\ Counted)
  <2>1. IInv /\ Counted /\ [Next]_vars => (IInv /\ Counted)'
    BY NextInv, CountedNext
  <2>2. Init => IInv /\ Counted
    BY InitInv, CountedInit
  <2>. QED
    BY <2>1, <2>2, PTL DEF Spec
<1>4. IInv /\ Counted /\ [Next]_vars => [StopsInTime]_vars
  BY <1>2
<1>. QED
  BY <1>3, <1>4, PTL DEF Spec, NotStoppedEarly
=============================================================================
