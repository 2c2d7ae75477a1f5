------------------------------ MODULE Multivent ------------------------------
(***************************************************************************)
(* out_Multivent: several zones with dampers, ventilated by one unit.  Each    *)
(* zone has a mode and a fan level, of its own or from its PID; the dampers     *)
(* are set in proportion to the zone that asks for most, and the unit's fan     *)
(* to the mean.  What the unit reports tells whether somebody changed it by     *)
(* hand: switched off, it stops all zones, switched on, it restores them.       *)
(*                                                                         *)
(* Temperatures are classes, and what a PID computes is any of PidLevels.       *)
(***************************************************************************)
EXTENDS Integers

CONSTANTS
  ZONES,        \* zones are 1 .. ZONES, in the order of the configuration
  Volume,       \* V
  Pids,         \* zones with a PID
  First,        \* cmd of a zone in the configuration
  turnbyfan,    \* the mode a fan level switches a zone to, "" if none
  PidLevels,    \* what a PID may compute
  ZoneCommands, \* what zones are commanded: [suffix, cmd, val]
  Reports,      \* what comes from the unit: <<suffix, value>>
  HandSets,     \* temperatures that are set at the unit
  Reconnects    \* the connection to the broker may be lost, and retained commands come again

Zones == 1 .. ZONES
AC_BOOST_HIGH_TEMP == 30
AC_PRESET_TEMP     == 21
AC_BOOST_LOW_TEMP  == 17
MINLEVEL           == 30

VARIABLES
  ventZone,     \* the objects of the zones
  ventNode,     \* the object "", of the unit
  ventTold,     \* what the unit was told
  ventSet,      \* the temperature the unit is set to
  retaining,    \* lanStatus is RETAINING_COLLECTING
  ventBefore    \* history: modes of the zones at the last stop, until they are commanded

vars == <<ventZone, ventNode, ventTold, ventSet, retaining, ventBefore>>

States == {"OFF", "ON", "FAN", "AUTO", "HEAT", "COOL", "HEATCOOL", "DRY"}
None    == ""
Unknown == "-1"
Levels == -1 .. 255

Modes == States \ {"ON"}
CommandT == {c \in [suffix : {"cmd", "fan"}, cmd : States \cup {"FREEZE", "UNFREEZE", None},
                    val : Levels] : c.suffix = "cmd" \/ c.val < 0 => c.cmd # None}

\* Configurations: zones have a volume, and none is configured as ON, which is a command and
\* never a mode.
Configured ==
  /\ ZONES \in Nat \ {0} /\ Volume \in [Zones -> Nat \ {0}]
  /\ First \in [Zones -> Modes] /\ turnbyfan \in States \cup {None}
  /\ PidLevels \subseteq 0 .. 255 /\ ZoneCommands \subseteq CommandT /\ HandSets \subseteq Levels
  /\ Reconnects \in BOOLEAN
  /\ Reports \subseteq {<<"mode", x>> : x \in States} \cup {<<"fan", x>> : x \in Levels}
       \cup {<<"val", x>> : x \in {"none", "hot", "mild", "cold"}} \cup {<<"cmd", x>> : x \in States}

TypeOK ==
  /\ ventZone \in [Zones -> [cmd : States, fan : Levels, out : -255 .. 255, pasv : BOOLEAN,
                             frozen : BOOLEAN, precmd : States \cup {None},
                             halted : States \cup {None}, fanIn : 0 .. 255,
                             pid : {"none", "manual", "auto"}]]
  /\ ventNode \in [val : {"none", "hot", "mild", "cold"}, mode : States \cup {None},
                   fan : Levels, lastCmd : States \cup {None, Unknown}, lastFan : Levels,
                   preCmd : States \cup {Unknown}, set : Levels, lastSet : Levels, preset : Levels,
                   boost : BOOLEAN]
  /\ ventTold \in [cmd : States \cup {None}, fan : Levels, set : Levels]
  /\ ventSet \in Levels /\ retaining \in BOOLEAN
  /\ ventBefore \in [Zones -> States \cup {None}]

\* Setup: what the configuration does not have is created.
NewZone(z) ==
  [cmd |-> First[z], fan |-> -1, out |-> -1, pasv |-> FALSE, frozen |-> FALSE, precmd |-> None,
   halted |-> None, fanIn |-> 0, pid |-> IF z \in Pids THEN "manual" ELSE "none"]
NewNode ==
  [val |-> "none", mode |-> None, fan |-> -1, lastCmd |-> None, lastFan |-> -1, preCmd |-> "FAN",
   set |-> AC_PRESET_TEMP, lastSet |-> -1, preset |-> AC_PRESET_TEMP, boost |-> FALSE]

Init ==
  /\ ventZone = [z \in Zones |-> NewZone(z)] /\ ventNode = NewNode
  /\ ventTold = [cmd |-> None, fan |-> -1, set |-> -1] /\ ventSet = AC_PRESET_TEMP
  /\ retaining = FALSE
  /\ ventBefore = [z \in Zones |-> None]

\* Stop and Setup, with a new tree
Reload ==
  /\ ventZone' = [z \in Zones |-> NewZone(z)] /\ ventNode' = NewNode
  /\ ventBefore' = [z \in Zones |-> None]
  /\ UNCHANGED <<ventTold, ventSet, retaining>>

-----------------------------------------------------------------------------
(* One zone.                                                               *)

\* setPassiveMode
Passive(zn, on) ==
  IF zn.pasv = on THEN zn
  ELSE IF on THEN [zn EXCEPT !.pasv = TRUE, !.fan = 0]
  ELSE [zn EXCEPT !.pasv = FALSE]

\* A mode that is not OFF: the PID works or not, and the fan has a least level, except while
\* retained commands are collected.
Entered(zn, m) ==
  LET pid == IF zn.pid = "none" \/ m = "ON" THEN zn.pid
             ELSE IF m \in {"FAN", "AUTO"} THEN "manual" ELSE "auto"
      e   == [Passive(zn, FALSE) EXCEPT !.cmd = m, !.pid = pid]
  IN IF ~retaining /\ e.fan < 20 THEN [e EXCEPT !.fan = MINLEVEL] ELSE e

Stopped(zn) ==
  [zn EXCEPT !.cmd = "OFF", !.precmd = IF zn.cmd # "OFF" THEN zn.cmd ELSE @,
             !.pid = IF @ = "none" THEN @ ELSE "manual"]

Refused(zn)  == [zone |-> zn, ends |-> "refused"]
Noted(zn)    == [zone |-> zn, ends |-> "noted"]
Accepted(zn) == [zone |-> zn, ends |-> "accepted"]

\* A command: frozen zones refuse ON and OFF, and no other mode.
ZoneCmd(zn, m) ==
  CASE m = "FREEZE"   -> Noted([zn EXCEPT !.frozen = TRUE])
    [] m = "UNFREEZE" -> Noted([zn EXCEPT !.frozen = FALSE])
    [] m \in {"ON", "OFF"} /\ zn.frozen -> Refused(zn)
    [] m = "ON" /\ ~zn.frozen /\ zn.cmd # "OFF" -> Accepted(zn)
    [] m = "ON" /\ ~zn.frozen /\ zn.cmd = "OFF" ->
         Accepted(Entered(zn, IF zn.precmd = None THEN "FAN" ELSE zn.precmd))
    [] m = "OFF" /\ ~zn.frozen -> Accepted(Stopped(zn))
    [] m \in States \ {"ON", "OFF"} -> Accepted(Entered(zn, m))

\* A fan level: refused while the PID works, unless it comes from there (force); it may
\* switch the zone on or off.
ZoneLevel(zn, v, force) ==
  LET noted == IF force THEN zn ELSE [zn EXCEPT !.fanIn = v]
      m     == IF turnbyfan = None THEN None
               ELSE IF v > 0 /\ zn.cmd = "OFF" THEN turnbyfan
               ELSE IF v = 0 /\ zn.cmd # "OFF" THEN "OFF" ELSE None
      level == [noted EXCEPT !.fan = v]
  IN IF ~force /\ zn.pid = "auto" THEN Refused(noted)
     ELSE IF m = None THEN Accepted(level) ELSE ZoneCmd(level, m)

\* /fan with AUTO makes the zone passive, with OFF not; both switch it off.
ZoneFan(zn, c, force) ==
  CASE zn.frozen     -> Refused(zn)
    [] ~zn.frozen /\ c.val >= 0 -> ZoneLevel(zn, c.val, force)
    [] ~zn.frozen /\ c.val < 0 /\ c.cmd = "AUTO" -> ZoneCmd(Passive(zn, TRUE), "OFF")
    [] ~zn.frozen /\ c.val < 0 /\ c.cmd # "AUTO" ->
         ZoneCmd(IF c.cmd = "OFF" THEN Passive(zn, FALSE) ELSE zn, c.cmd)

-----------------------------------------------------------------------------
(* The air.                                                                *)

\* Integer division of C.
Quot(a, b) == IF a >= 0 THEN a \div b ELSE -((-a) \div b)

Open(zs) == {z \in Zones : zs[z].cmd # "OFF" \/ zs[z].pasv}
AirOf(zs, z) == Volume[z] * zs[z].fan

\* The mean level, by volume: the air of the open zones, in the volume of all of them.
Sums(zs) ==
  LET sum[n \in 0 .. ZONES] ==
        IF n = 0 THEN [air |-> 0, vol |-> 0]
        ELSE LET before == sum[n - 1]
             IN [air |-> before.air + (IF n \in Open(zs) THEN AirOf(zs, n) ELSE 0),
                 vol |-> before.vol + Volume[n]]
  IN sum[ZONES]
fanV(zs) == LET all == Sums(zs) IN Quot(all.air, all.vol)

\* The zone with the highest level, the first of them; 0 if there is none.
Largest(zs) ==
  LET asks == {z \in Open(zs) : zs[z].fan > 0}
  IN IF asks = {} THEN 0
     ELSE CHOOSE z \in asks : /\ \A y \in asks : zs[y].fan <= zs[z].fan
                              /\ \A y \in asks : zs[y].fan = zs[z].fan => z <= y

\* Mutant of Share: the damper of a passive zone stays closed.
ShareOfOn(zs, z) ==
  LET l == Largest(zs)
  IN IF zs[z].cmd = "OFF" \/ l = 0 THEN 0
     ELSE Quot(Quot(AirOf(zs, z) * 255, Volume[z]) * Volume[l], AirOf(zs, l))

\* How far the damper of a zone is opened.
Share(zs, z) ==
  LET l == Largest(zs)
  IN IF z \notin Open(zs) \/ l = 0 THEN 0
     ELSE Quot(Quot(AirOf(zs, z) * 255, Volume[z]) * Volume[l], AirOf(zs, l))

\* The dampers are moved only if the fan runs.
Balanced(zs) ==
  IF fanV(zs) = 0 THEN zs ELSE [z \in Zones |-> [zs[z] EXCEPT !.out = Share(zs, z)]]

\* fanCtrl for a zone, whose answer is r: the zones, and the level for the unit (-1, -2: none).
Answered(zs, z, r) ==
  LET after == [zs EXCEPT ![z] = r.zone]
  IN IF r.ends = "accepted" THEN [zones |-> Balanced(after), level |-> fanV(after)]
     ELSE [zones |-> after, level |-> IF r.ends = "refused" THEN -2 ELSE -1]
FanCtrl(zs, z, c, force) ==
  Answered(zs, z, IF c.suffix = "fan" THEN ZoneFan(zs[z], c, force) ELSE ZoneCmd(zs[z], c.cmd))

Mode(m)  == [suffix |-> "cmd", cmd |-> m, val |-> -1]
Level(v) == [suffix |-> "fan", cmd |-> None, val |-> v]

-----------------------------------------------------------------------------
(* The unit: u has its object and what it was told.                         *)

\* sendACcmd: what was sent before is not sent again.
SendCmd(u, m) ==
  IF u.node.lastCmd = m THEN u
  ELSE [node |-> [u.node EXCEPT !.lastCmd = m, !.lastFan = -1], told |-> [u.told EXCEPT !.cmd = m]]

\* A fan level of 0 switches it off, and the next one on again, in the mode it had.
SendFan(u, v) ==
  LET runs == u.node.mode \notin {"OFF", None} \/ u.node.lastFan > 0
      mode == IF u.node.mode = None THEN Unknown ELSE u.node.mode
  IN [node |-> [u.node EXCEPT !.lastFan = v,
                              !.preCmd = IF v = 0 /\ runs THEN mode ELSE @,
                              !.lastCmd = IF v > 0 /\ ~runs THEN u.node.preCmd ELSE @],
      told |-> IF u.node.lastFan = v THEN u.told ELSE [u.told EXCEPT !.fan = v]]

SendSet(u, t) ==
  [node |-> [u.node EXCEPT !.lastSet = t],
   told |-> IF u.node.lastSet = t THEN u.told ELSE [u.told EXCEPT !.set = t]]

setBoost(u, t) ==
  IF u.node.boost THEN u
  ELSE SendSet([u EXCEPT !.node = [@ EXCEPT !.preset = u.node.set, !.boost = TRUE]], t)

\* Mutant of resetBoost: the temperature before is taken as it is.
resetBoostBlind(u) ==
  IF ~u.node.boost THEN u ELSE SendSet([u EXCEPT !.node = [@ EXCEPT !.boost = FALSE]], u.node.preset)

resetBoost(u) ==
  LET t == u.node.preset
      safe == IF t <= AC_BOOST_LOW_TEMP \/ t >= AC_BOOST_HIGH_TEMP THEN AC_PRESET_TEMP ELSE t
  IN IF ~u.node.boost THEN u ELSE SendSet([u EXCEPT !.node = [@ EXCEPT !.boost = FALSE]], safe)

unit == [node |-> ventNode, told |-> ventTold]
Unit(u) == ventNode' = u.node /\ ventTold' = u.told

-----------------------------------------------------------------------------
(* Commands.                                                               *)

\* A command to a zone; its mode at the last stop is of no interest any more.
Ctrl(z, c) ==
  LET r == FanCtrl(ventZone, z, c, FALSE)
  IN /\ ventZone' = r.zones
     /\ IF r.level >= 0 THEN Unit(SendFan(unit, r.level)) ELSE UNCHANGED <<ventNode, ventTold>>
     /\ ventBefore' = [ventBefore EXCEPT ![z] = None]
     /\ UNCHANGED <<ventSet, retaining>>

\* Mutant of StopOne: the mode is noted after the stop.
StopOneLate(zs, z) ==
  IF zs[z].cmd = "OFF" THEN zs
  ELSE LET s == FanCtrl(zs, z, Mode("OFF"), TRUE).zones IN [s EXCEPT ![z].halted = s[z].cmd]

StopOne(zs, z) ==
  IF zs[z].cmd = "OFF" THEN zs
  ELSE FanCtrl([zs EXCEPT ![z].halted = zs[z].cmd], z, Mode("OFF"), TRUE).zones

RestoreOne(zs, z) ==
  LET r == IF zs[z].halted \in {None, "OFF"} THEN zs
           ELSE FanCtrl(zs, z, Mode(zs[z].halted), TRUE).zones
  IN [r EXCEPT ![z].halted = None]

\* The zones, in order, up to the n-th.
Stopping[n \in 0 .. ZONES] == IF n = 0 THEN ventZone ELSE StopOne(Stopping[n - 1], n)
Restoring[n \in 0 .. ZONES] == IF n = 0 THEN ventZone ELSE RestoreOne(Restoring[n - 1], n)

stopAllzones ==
  /\ ventZone' = Stopping[ZONES]
  /\ ventBefore' = [z \in Zones |-> IF ventZone[z].cmd # "OFF" THEN ventZone[z].cmd ELSE ventBefore[z]]
restoreAllzones ==
  /\ ventZone' = Restoring[ZONES]
  /\ ventBefore' = [z \in Zones |-> None]

\* checkACcmd: a mode that was not commanded is somebody's, except for OFF by level 0.
ByHand(m) ==
  /\ ventNode.mode # None /\ ventNode.lastCmd # None /\ m # ventNode.lastCmd
ReportMode(m) ==
  LET n == IF ventNode.mode = None THEN [ventNode EXCEPT !.lastCmd = m]
           ELSE IF ByHand(m) THEN [ventNode EXCEPT !.lastCmd = m, !.lastFan = -1] ELSE ventNode
  IN /\ ventNode' = [n EXCEPT !.mode = m]
     /\ IF ByHand(m) /\ ~(m = "OFF" /\ ventNode.lastFan = 0)
          THEN IF m = "OFF" THEN stopAllzones ELSE restoreAllzones
          ELSE UNCHANGED <<ventZone, ventBefore>>
     /\ UNCHANGED <<ventTold, ventSet, retaining>>

\* checkACfan
ReportFan(v) ==
  /\ ventNode' = [ventNode EXCEPT !.fan = v, !.lastFan = IF v # ventNode.fan THEN -1 ELSE @]
  /\ UNCHANGED <<ventZone, ventTold, ventSet, retaining, ventBefore>>

\* checkACset; a boost is recognised, also of a driver that was restarted.
ReportSet ==
  /\ ventNode' = [ventNode EXCEPT !.set = ventSet, !.lastSet = ventSet,
                    !.boost = @ \/ ventSet \in {AC_BOOST_HIGH_TEMP, AC_BOOST_LOW_TEMP}]
  /\ UNCHANGED <<ventZone, ventTold, ventSet, retaining, ventBefore>>

\* The temperature of the air, which is forgotten after 60 s.
ReportVal(t) ==
  /\ ventNode' = [ventNode EXCEPT !.val = t]
  /\ UNCHANGED <<ventZone, ventTold, ventSet, retaining, ventBefore>>

\* A command to the item itself.
CtrlAll(m) ==
  /\ IF m = "OFF" THEN stopAllzones ELSE restoreAllzones
  /\ UNCHANGED <<ventNode, ventTold, ventSet, retaining>>

Report(r) ==
  CASE r[1] = "mode" -> ReportMode(r[2])
    [] r[1] = "fan"  -> ReportFan(r[2])
    [] r[1] = "val"  -> ReportVal(r[2])
    [] r[1] = "cmd"  -> CtrlAll(r[2])

-----------------------------------------------------------------------------
(* Poll.                                                                   *)

\* What the air is; without a temperature the last mode tells.
actualMode ==
  CASE ventNode.val = "hot"  -> "HEAT"
    [] ventNode.val = "cold" -> "COOL"
    [] ventNode.val = "mild" -> "FAN"
    [] ventNode.val = "none" -> IF ventNode.mode = None THEN "FAN" ELSE ventNode.mode

\* What a zone asks for; HEATCOOL depends on its temperature.
Wants(zn, hc) ==
  CASE zn.cmd = "HEATCOOL" -> hc
    [] zn.cmd \in {"FAN", "AUTO", "COOL", "HEAT", "OFF"} -> zn.cmd
    [] zn.cmd \in {"ON", "DRY"} -> None

\* A zone is polled: s has the zones, the level for the unit and whether a PID is at work;
\* po is what the PIDs compute now (-1: nothing), hc what HEATCOOL comes to for each, fresh
\* whether their temperatures are recent.
PollZone(s, z, po, hc, fresh) ==
  IF z \notin Pids THEN s ELSE
  LET zn     == s.zones[z]
      wants  == Wants(zn, hc[z])
      hotcold == actualMode \in {"HEAT", "COOL"}
      weak   == zn.cmd \in {"FAN", "AUTO"}
      \* with neither hot nor cold air the level is the one commanded last
      back   == ~hotcold /\ zn.pid = "auto" /\ (zn.pasv \/ weak \/ wants = "OFF")
      r1     == IF hotcold /\ (weak \/ zn.pasv)
                  THEN [zones |-> [s.zones EXCEPT ![z].pid = "auto"], level |-> -1]
                ELSE IF back
                  THEN FanCtrl([s.zones EXCEPT ![z].pid = "manual"], z, Level(zn.fanIn), TRUE)
                ELSE [zones |-> s.zones, level |-> -1]
      auto   == r1.zones[z].pid = "auto"
      asks   == wants \in {"HEAT", "COOL"}
      wrong  == asks /\ hotcold /\ wants # actualMode
      passes == ~asks /\ hotcold /\ (zn.cmd # "OFF" \/ zn.pasv)
      r2     == IF auto /\ po[z] >= 0 /\ (asks \/ passes)
                  THEN FanCtrl(r1.zones, z, Level(IF wrong THEN 0 ELSE po[z]), TRUE)
                ELSE IF auto /\ po[z] >= 0 /\ ~asks /\ actualMode = "FAN"
                  THEN [zones |-> [r1.zones EXCEPT ![z].pid = "manual"], level |-> -1]
                ELSE [zones |-> r1.zones, level |-> -1]
      later(a, b) == IF b >= 0 THEN b ELSE a
  IN [zones |-> r2.zones, level |-> later(later(s.level, r1.level), r2.level),
           active |-> s.active \/ (fresh[z] /\ asks /\ auto),
           computed |-> s.computed \/ (auto /\ po[z] >= 0 /\ asks)]

\* One round per zone, in order, from s on.
Rounds(Op(_, _), s) ==
  LET round[n \in 0 .. ZONES] == IF n = 0 THEN s ELSE Op(round[n - 1], n)
  IN round[ZONES]

Polled(po, hc, fresh) ==
  Rounds(LAMBDA s, z : PollZone(s, z, po, hc, fresh),
         [zones |-> ventZone, level |-> -1, active |-> FALSE, computed |-> FALSE])

\* The unit: boost by the balance of what the PIDs ask for, and what the zones ask for if
\* none of them is at work.
Served(p, balance) ==
  LET asked(m) == \E z \in Zones : ventZone[z].cmd = m /\ ventZone[z].fan > 0
      active == p.active /\ ~(p.computed /\ balance = "even")
      boosted == IF p.computed /\ balance = "heat" THEN setBoost(unit, AC_BOOST_HIGH_TEMP)
                 ELSE IF p.computed /\ balance = "cool" THEN setBoost(unit, AC_BOOST_LOW_TEMP)
                 ELSE unit
      mode   == IF active \/ p.level <= 0 THEN None
                ELSE IF asked("AUTO") THEN "AUTO" ELSE IF asked("FAN") THEN "FAN" ELSE None
      reset  == IF active THEN boosted ELSE resetBoost(boosted)
      moded  == IF mode = None THEN reset ELSE SendCmd(reset, mode)
      sends  == p.level > 0 \/ (p.level = 0 /\ (actualMode \notin {"HEAT", "COOL"}
                                               \/ (~active /\ mode = None)))
  IN IF sends THEN SendFan(moded, p.level) ELSE moded

\* What HEATCOOL may come to, by the temperature of each zone and the last mode of the unit.
HeatCools ==
  {hc \in [Pids -> {"HEAT", "COOL", None}] :
     \A z \in Pids : ventZone[z].cmd # "HEATCOOL" => hc[z] = None}

\* The polling waits until retained commands are collected.
Poll ==
  /\ ~retaining
  /\ \E po \in [Pids -> PidLevels \cup {-1}], fresh \in [Pids -> BOOLEAN], hc \in HeatCools :
    \E p \in {Polled(po, hc, fresh)} :
      \E balance \in IF p.computed THEN {"heat", "cool", "even", "some"} ELSE {"some"} :
        \E u \in {Served(p, balance)} :
          /\ ventZone' = p.zones
          /\ Unit(u)
          /\ UNCHANGED <<ventSet, retaining, ventBefore>>

-----------------------------------------------------------------------------
\* The unit takes the temperature it was told; somebody sets another one.
Takes ==
  /\ ventTold.set # -1
  /\ ventSet' = ventTold.set /\ ventTold' = [ventTold EXCEPT !.set = -1]
  /\ UNCHANGED <<ventZone, ventNode, retaining, ventBefore>>
HandSet ==
  /\ ventSet' \in HandSets \ {ventSet}
  /\ UNCHANGED <<ventZone, ventNode, ventTold, retaining, ventBefore>>

\* lanLoop
Collect ==
  /\ Reconnects /\ ~retaining /\ retaining' = TRUE
  /\ UNCHANGED <<ventZone, ventNode, ventTold, ventSet, ventBefore>>
Operate ==
  /\ retaining /\ retaining' = FALSE
  /\ UNCHANGED <<ventZone, ventNode, ventTold, ventSet, ventBefore>>

Command  == \E z \in Zones, c \in ZoneCommands : Ctrl(z, c)
Reported == \E r \in Reports : Report(r)

Next == Command \/ Reported \/ ReportSet \/ Poll \/ Takes \/ HandSet \/ Collect \/ Operate \/ Reload

Spec == Init /\ [][Next]_vars
\* Poll, when nothing is on
Idles == (\A z \in Zones : ventZone[z].cmd = "OFF") /\ Poll
FairSpec ==
  Spec /\ WF_vars(Idles) /\ WF_vars(ReportSet) /\ WF_vars(Takes) /\ WF_vars(Operate)

-----------------------------------------------------------------------------
(***************************************************************************)
(* Properties                                                              *)
(***************************************************************************)

\* While the unit's fan runs on our account, the damper of some zone is open: the unit never
\* blows against closed dampers, whatever zones were stopped, restored, frozen or passive.
FanHasOutlet == ventNode.lastFan > 0 => \E z \in Zones : ventZone[z].out = 255

\* documentation/modules/multivent_module_description.md:39: the zones that a manual stop
\* has switched off are restored as they were, if nobody commanded them meanwhile.
RestoreStep ==
  \A z \in Zones :
    ventZone[z].halted # None /\ ventZone'[z].halted = None /\ ventBefore[z] # None /\ ~Reload
      => ventZone'[z].cmd = ventBefore[z]
Restores == [][RestoreStep]_vars

\* When nothing is asked any more and all zones are off, the unit is not left at the
\* temperature of a boost.
Quiet   == ~(Command \/ Reported \/ HandSet \/ Collect \/ Reload)
Unboosted ==
  (\A z \in Zones : ventZone[z].cmd = "OFF") =>
    ventSet \notin {AC_BOOST_HIGH_TEMP, AC_BOOST_LOW_TEMP}
BoostEnds == <>[][Quiet]_vars => <>[]Unboosted
=============================================================================
