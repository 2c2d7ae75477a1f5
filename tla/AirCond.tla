------------------------------- MODULE AirCond -------------------------------
(***************************************************************************)
(* out_AC: an air conditioner on a serial line.  The driver keeps the last     *)
(* status frame, changes it on a command and sends it back whole; every 5 s     *)
(* it asks for the status, and takes an answer over if its check byte differs   *)
(* from the last one.                                                       *)
(***************************************************************************)
EXTENDS Integers

CONSTANTS
  AcCommands,   \* what is commanded: <<suffix, command or number>>
  AcHand,       \* what the unit may be set to by its remote control
  AcFirst,      \* how the unit may be found
  AcLossy       \* frames and answers may be lost or damaged

VARIABLES
  acData,       \* data: the frame to send, as its settings
  acPower,      \* store->power: the last power byte received
  acCheck,      \* inCheck
  acStatus,     \* Status()
  acEnabled,    \* data[0]: sending is enabled
  acAge,        \* since timestamp: 0, 1 (150 ms), 2 (5 s)
  acRx,         \* the first answer in the receive buffer
  acUnit,       \* the unit
  acTold,       \* what /set and /fan published last
  acLast        \* the answer taken over last (history)

vars == <<acData, acPower, acCheck, acStatus, acEnabled, acAge, acRx, acUnit, acTold, acLast>>

\* The fields of a frame; modes and fan speeds by their codes.
Settings == [on : BOOLEAN, quiet : BOOLEAN, mode : 0 .. 255, fan : 0 .. 3, temp : 0 .. 24,
             swing : 0 .. 3, lock : {0, 80, 128}]
Zero     == [on |-> FALSE, quiet |-> FALSE, mode |-> 0, fan |-> 0, temp |-> 0,
             swing |-> 0, lock |-> 0]
Silent   == [is |-> "none"]
Damaged  == [is |-> "damaged"]
Answer(s) == [is |-> "frame", of |-> s]

Modes  == [auto |-> 0, cool |-> 1, heat |-> 2, fan |-> 3, dry |-> 4]
Speeds == [high |-> 0, med |-> 1, low |-> 2, auto |-> 3]

\* What the constants have to be: what Ctrl takes, and what a unit can be.
Configured ==
  /\ AcCommands \subseteq
       ({"power", "lock", "swing", "quiet"} \X {"on", "off"}) \cup ({"cmd"} \X DOMAIN Modes)
         \cup ({"fan"} \X DOMAIN Speeds) \cup ({"set"} \X Nat)
         \cup ({"speed", "mode"} \X (0 .. 255))
  /\ AcHand \subseteq Settings /\ AcFirst \subseteq Settings
  /\ AcLossy \in BOOLEAN

\* A frame, byte by byte: power with the quiet bit, mode, fan, temperature, swing and lock.
\* Of the bytes that are left out the length, 34, stands for all, as if they were always the same.
Frame(s) ==
  <<(IF s.on THEN 1 ELSE 0) + (IF s.quiet THEN 8 ELSE 0), s.mode, s.fan, s.temp, s.swing, s.lock>>

\* The check byte is the sum of the bytes, and so different frames may have the same.
getCRC(s) ==
  LET f == Frame(s) IN (34 + f[1] + f[2] + f[3] + f[4] + f[5] + f[6]) % 256

TypeOK ==
  /\ acData \in Settings /\ acUnit \in Settings /\ acLast \in Settings
  /\ acPower \in [on : BOOLEAN, quiet : BOOLEAN]
  /\ acCheck \in 0 .. 255
  /\ acStatus \in {"idle", "sending", "awaitingcmd", "poll"}
  /\ acEnabled \in BOOLEAN /\ acAge \in 0 .. 2
  /\ acRx \in {Silent, Damaged} \/ (acRx.is = "frame" /\ acRx.of \in Settings)
  /\ acTold \in [set : -1 .. 24, fan : -1 .. 3]

\* Mutant of Fresh: Setup keeps the check byte.
Unchecked ==
  /\ acData' = Zero /\ acPower' = [on |-> FALSE, quiet |-> FALSE] /\ acCheck' = acCheck
  /\ acStatus' = "idle" /\ acEnabled' = FALSE /\ acAge' = 0

Fresh ==
  /\ acData' = Zero /\ acPower' = [on |-> FALSE, quiet |-> FALSE] /\ acCheck' = 0
  /\ acStatus' = "idle" /\ acEnabled' = FALSE /\ acAge' = 0

\* Setup
Init ==
  /\ acData = Zero /\ acPower = [on |-> FALSE, quiet |-> FALSE] /\ acCheck = 0
  /\ acStatus = "idle" /\ acEnabled = FALSE /\ acAge = 0
  /\ acRx = Silent /\ acUnit \in AcFirst /\ acTold = [set |-> -1, fan |-> -1]
  /\ acLast = Zero

\* Stop and Setup, with a new tree; begin empties the buffer.
Reload == Fresh /\ acRx' = Silent /\ UNCHANGED <<acUnit, acTold, acLast>>

-----------------------------------------------------------------------------
\* SendData: nothing until the first polling.  The unit becomes what the frame says.
SendData(unit) ==
  IF acEnabled
    THEN /\ acStatus' = "sending" /\ acAge' = 0
         /\ acUnit' = unit \/ (AcLossy /\ UNCHANGED acUnit)
    ELSE UNCHANGED <<acStatus, acAge, acUnit>>

\* A command to change settings: the frame, changed, and whole.
Sends(s, told) ==
  /\ acData' = s /\ SendData(s) /\ acTold' = told
  /\ UNCHANGED <<acPower, acCheck, acEnabled, acRx, acLast>>

\* With /cmd the driver means to ignore the line for 5 s, and SendData sets another
\* status unless sending is disabled.
Commands(s, unit) ==
  /\ acData' = s
  /\ IF acEnabled THEN SendData(unit)
     ELSE acStatus' = "awaitingcmd" /\ acAge' = 0 /\ UNCHANGED acUnit
  /\ UNCHANGED <<acPower, acCheck, acEnabled, acRx, acTold, acLast>>

\* The power byte is built from the one received last.
Powered(s, on) == [s EXCEPT !.on = on, !.quiet = acPower.quiet]

\* /cmd ON and OFF have frames of their own.
CtrlPower(on) == Commands(Powered(acData, on), [acUnit EXCEPT !.on = on])

\* The other commands: a mode, with the fan not in automatic speed for ventilation.
CtrlCmd(mode) ==
  LET s == [Powered(acData, TRUE) EXCEPT !.mode = Modes[mode]]
      v == IF mode = "fan" /\ s.fan = 3 THEN [s EXCEPT !.fan = 2] ELSE s
  IN Commands(v, v)

CtrlSet(t) ==
  /\ t \in 0 .. 24
  /\ Sends([acData EXCEPT !.temp = t], [acTold EXCEPT !.set = t])

CtrlFan(speed) ==
  Sends([acData EXCEPT !.fan = Speeds[speed]], [acTold EXCEPT !.fan = Speeds[speed]])

\* A number: three speeds, map(n, 1, 255, 1, 3), which switch the unit on as well.
CtrlFanNumber(n) ==
  LET code == 2 - ((n - 1) * 2) \div 254
      s    == [Powered(acData, TRUE) EXCEPT !.fan = code]
  IN /\ acData' = s /\ SendData(s) /\ acTold' = [acTold EXCEPT !.fan = code]
     /\ acCheck' = 0
     /\ UNCHANGED <<acPower, acEnabled, acRx, acLast>>

\* /fan OFF or 0: the frame that switches off.
CtrlFanOff ==
  /\ acData' = Powered(acData, FALSE)
  /\ SendData([acUnit EXCEPT !.on = FALSE])
  /\ acCheck' = 0
  /\ UNCHANGED <<acPower, acEnabled, acRx, acTold, acLast>>

\* mode, lock, swing and quiet; the lock bit is sent as 80 and received as 128.
CtrlField(s) == Sends(s, acTold)

Ctrl(c) ==
  CASE c[1] = "power" -> CtrlPower(c[2] = "on")
    [] c[1] = "cmd"   -> CtrlCmd(c[2])
    [] c[1] = "set"   -> CtrlSet(c[2])
    [] c[1] = "fan"   -> CtrlFan(c[2])
    [] c[1] = "speed" -> IF c[2] = 0 THEN CtrlFanOff ELSE CtrlFanNumber(c[2])
    [] c[1] = "mode"  -> CtrlField([acData EXCEPT !.mode = c[2]])
    [] c[1] = "lock"  -> CtrlField([acData EXCEPT !.lock = IF c[2] = "on" THEN 80 ELSE 0])
    [] c[1] = "swing" -> CtrlField([acData EXCEPT !.swing = IF c[2] = "on" THEN 3 ELSE 0])
    [] c[1] = "quiet" -> CtrlField([acData EXCEPT !.quiet = c[2] = "on"])

-----------------------------------------------------------------------------
(* Poll                                                                    *)

\* A whole answer is read, and what follows it thrown away; rx may come after it.  One with
\* the check byte of the last is nothing new, otherwise InsertData takes it over and publishes.
Read(rx) ==
  /\ acRx' = rx
  /\ IF acRx.is = "frame" /\ getCRC(acRx.of) # acCheck
       THEN /\ acData' = acRx.of /\ acCheck' = getCRC(acRx.of)
            /\ acPower' = [on |-> acRx.of.on, quiet |-> acRx.of.quiet]
            /\ acTold' = [set |-> acRx.of.temp, fan |-> acRx.of.fan]
            /\ acLast' = acRx.of
       ELSE UNCHANGED <<acData, acCheck, acPower, acTold, acLast>>

\* Mutant of PollSending: the time stamp is renewed before it is looked at.
PollSendingAnew ==
  /\ acStatus = "sending"
  /\ acAge' = 0 /\ UNCHANGED acStatus
  /\ Read(Silent)
  /\ UNCHANGED <<acEnabled, acUnit>>

\* 150 ms after a frame; what was received is read in any case.
PollSending ==
  /\ acStatus = "sending"
  /\ IF acAge > 0 THEN acStatus' = "idle" /\ acAge' = 0 ELSE UNCHANGED <<acStatus, acAge>>
  /\ Read(Silent)
  /\ UNCHANGED <<acEnabled, acUnit>>

\* What was received is thrown away for 5 s.
PollAwaitingCmd ==
  /\ acStatus = "awaitingcmd"
  /\ IF acAge = 2 THEN acStatus' = "poll" /\ acAge' = 0 /\ acCheck' = 0
     ELSE UNCHANGED <<acStatus, acAge, acCheck>>
  /\ acRx' = Silent
  /\ UNCHANGED <<acData, acPower, acEnabled, acUnit, acTold, acLast>>

PollIdle ==
  /\ acStatus = "idle"
  /\ acStatus' = IF acAge = 2 THEN "poll" ELSE "idle"
  /\ Read(Silent)
  /\ UNCHANGED <<acEnabled, acAge, acUnit>>

\* The fast polling only looks at the time.
PollIdleFast ==
  /\ acStatus = "idle" /\ acAge = 2
  /\ acStatus' = "poll"
  /\ UNCHANGED <<acData, acPower, acCheck, acEnabled, acAge, acRx, acUnit, acTold, acLast>>

\* The query, which the unit answers, and what was received before.  The first one is
\* not sent, and enables sending.
PollPoll ==
  /\ acStatus = "poll"
  /\ acStatus' = "idle" /\ acAge' = 0 /\ acEnabled' = TRUE
  /\ \E rx \in IF ~acEnabled THEN {Silent}
                ELSE {Answer(acUnit)} \cup IF AcLossy THEN {Silent, Damaged} ELSE {} : Read(rx)
  /\ UNCHANGED acUnit

\* pollingLoop: the slow polling.
Poll == PollSending \/ PollAwaitingCmd \/ PollIdle \/ PollPoll

\* millis()
Tick ==
  /\ acAge < 2
  /\ acAge' = acAge + 1
  /\ UNCHANGED <<acData, acPower, acCheck, acStatus, acEnabled, acRx, acUnit, acTold, acLast>>

\* The remote control
Remote ==
  /\ acUnit' \in AcHand \ {acUnit}
  /\ UNCHANGED <<acData, acPower, acCheck, acStatus, acEnabled, acAge, acRx, acTold, acLast>>

Command == \E c \in AcCommands : Ctrl(c)

Next == Poll \/ PollIdleFast \/ Tick \/ Command \/ Remote \/ Reload

Spec == Init /\ [][Next]_vars
FairSpec == Spec /\ WF_vars(Poll) /\ WF_vars(Tick)

-----------------------------------------------------------------------------
(***************************************************************************)
(* Properties                                                              *)
(***************************************************************************)

\* Frames that differ in one byte at most.
OneByte(s, t) ==
  \E i \in 1 .. 6 : \A j \in 1 .. 6 \ {i} : Frame(s)[j] = Frame(t)[j]

\* A unit that differs in one byte at most from the answer taken over last, and whose answer
\* would be passed over as nothing new, does not differ at all, and the power byte that the next
\* command keeps is its own, whatever was commanded, lost and reset in between.  (Two bytes may
\* change and the sum stay the same, and 0, which stands for no check byte, is a sum as well:
\* then the driver keeps what is no longer so.)
PowerKnown ==
  acCheck # 0 /\ getCRC(acUnit) = acCheck /\ OneByte(acUnit, acLast) =>
    acUnit = acLast /\ acPower = [on |-> acUnit.on, quiet |-> acUnit.quiet]

\* On a line that loses nothing, when commands (or the remote control, but not both: see
\* README) cease, the frame the driver would send holds the settings of the unit, and so
\* does the temperature it has published.  (What it published of the fan may not: see README.)
Quiet    == ~(Command \/ Remote \/ Reload)
Believed == acData = acUnit /\ acTold.set = acUnit.temp
InSync   == <>[][Quiet]_vars => <>[]Believed
=============================================================================
