------------------------------ MODULE Sprinkler ------------------------------
(***************************************************************************)
(* out_sprinkler: a tank that is filled from a drain well or from the mains,  *)
(* a pump, and zones that are watered one after the other, each until it has  *)
(* had as much as it is set to.                                             *)
(*                                                                         *)
(* Inputs (floats, current sensors, the water meter) are read in every poll   *)
(* and may be anything (a full tank is not low).  Times are ticks since a     *)
(* stamp was taken, up to the longest that matters and 0 where nobody looks   *)
(* at them.  What is published is kept for the relays only.                 *)
(***************************************************************************)
EXTENDS Integers

CONSTANTS
  ZONES,        \* zones are 1 .. ZONES, in the order of the configuration
  Amounts,      \* what may be set for each zone; 0: no limit
  MAXVAL,       \* amounts are counted up to MAXVAL
  counter,      \* there is a water meter (wCtr); otherwise seconds are counted
  DRENAGE_ON_TIME, VIN_MAX_TIME, DRENAGE_MAX_TIME

\* What a configuration is.
Configured ==
  /\ counter \in BOOLEAN
  /\ ZONES \in Nat /\ MAXVAL \in Nat \ {0}
  /\ Amounts \in [1 .. ZONES -> SUBSET (0 .. MAXVAL - 1)]
  /\ DRENAGE_ON_TIME \in Nat /\ VIN_MAX_TIME \in Nat /\ DRENAGE_MAX_TIME \in Nat
  /\ DRENAGE_ON_TIME <= DRENAGE_MAX_TIME /\ VIN_MAX_TIME <= DRENAGE_MAX_TIME

VARIABLES
  cmd,          \* the command of the channel: "ON", "DRY", or "other": OFF, HALT, XON ...
  freezed, disabled,
  state,        \* @state
  timer,        \* ticks since @timer was set
  second,       \* a second has passed since @flowTimer was set
  zone,         \* cmd, set, val and @active of each zone, and its pin
  relay,        \* out: the pins of the relays; bit: their bits in @lastVals;
                \* told: what was published of them
  meter         \* LASTWCTRLSTATE

vars == <<cmd, freezed, disabled, state, timer, second, zone, relay, meter>>
item == <<cmd, freezed, disabled>>

Zones    == 1 .. ZONES
Commands == {"ON", "DRY", "other"}
States   == {"UNKNOWN", "OFF", "DREN_ON", "DREN_OPERATE", "DREN_EMPTY", "VIN",
             "FULL", "DRYING", "FAULT_VIN", "FAULT_DREN"}
Relays   == {"pump", "dren", "vin"}
Timed    == {"DREN_ON", "DREN_OPERATE", "VIN"}
Readings == [level : {"max", "min", "low"}, fbDren : BOOLEAN, fbPump : BOOLEAN, wCtr : {FALSE, counter}]
wMax(i)  == i.level = "max"
wMin(i)  == i.level # "low"

TypeOK ==
  /\ cmd \in Commands
  /\ freezed \in BOOLEAN /\ disabled \in BOOLEAN
  /\ state \in States /\ timer \in 0 .. DRENAGE_MAX_TIME /\ second \in BOOLEAN
  /\ zone \in [Zones -> [on : BOOLEAN, set : 0 .. MAXVAL, val : 0 .. MAXVAL,
                         active : BOOLEAN, pin : BOOLEAN]]
  /\ relay \in [out : [Relays -> BOOLEAN], bit : [Relays -> BOOLEAN], told : [Relays -> BOOLEAN]]
  /\ meter \in BOOLEAN

allOff == [r \in Relays |-> FALSE]

\* After Setup: valves and relays are off, the state is unknown, the amounts are
\* those of the configuration.
Init ==
  /\ cmd \in {"ON", "other"} /\ freezed = FALSE /\ disabled = FALSE
  /\ state = "UNKNOWN" /\ timer = 0 /\ second = FALSE
  /\ zone \in [Zones -> [on : BOOLEAN, set : 0 .. MAXVAL, val : {0},
                         active : {FALSE}, pin : {FALSE}]]
  /\ \A z \in Zones : zone[z].set \in Amounts[z]
  /\ relay = [out |-> allOff, bit |-> allOff, told |-> allOff]
  /\ meter = FALSE

-----------------------------------------------------------------------------
\* pump, dren and vin: the pin, and if the bit says otherwise, bit and topic.
Switched(r, name, on) ==
  [out |-> [r.out EXCEPT ![name] = on],
   bit |-> [r.bit EXCEPT ![name] = on],
   told |-> IF r.bit[name] = on THEN r.told ELSE [r.told EXCEPT ![name] = on]]

\* Mutant of MovedTo: the mains stay open when the well gives water again.
MovedToVinOpen(r, next) ==
  CASE next \in {"OFF", "FULL", "UNKNOWN"} -> Switched(Switched(r, "dren", FALSE), "vin", FALSE)
    [] next \in {"DREN_ON", "DREN_OPERATE"} -> Switched(r, "dren", TRUE)
    [] next = "VIN" -> Switched(r, "vin", TRUE)
    [] next \in {"DREN_EMPTY", "FAULT_VIN"} -> Switched(r, "vin", FALSE)
    [] next = "FAULT_DREN" -> Switched(r, "dren", FALSE)
    [] next = "DRYING" -> Switched(Switched(Switched(r, "dren", FALSE), "vin", FALSE), "pump", TRUE)

\* moveToState.
MovedTo(r, next) ==
  CASE next \in {"OFF", "FULL", "UNKNOWN"} -> Switched(Switched(r, "dren", FALSE), "vin", FALSE)
    [] next \in {"DREN_ON", "DREN_OPERATE"} -> Switched(Switched(r, "dren", TRUE), "vin", FALSE)
    [] next = "VIN" -> Switched(r, "vin", TRUE)
    [] next \in {"DREN_EMPTY", "FAULT_VIN"} -> Switched(r, "vin", FALSE)
    [] next = "FAULT_DREN" -> Switched(r, "dren", FALSE)
    [] next = "DRYING" -> Switched(Switched(Switched(r, "dren", FALSE), "vin", FALSE), "pump", TRUE)

\* Mutant of Closed: the pins are left to the next poll.
ClosedOnPaper(zs) == [z \in Zones |-> [zs[z] EXCEPT !.active = FALSE]]

\* turnOffAllZones.
Closed(zs) == [z \in Zones |-> [zs[z] EXCEPT !.active = FALSE, !.pin = FALSE]]

\* Mutant of NextState: waiting for the tank has no end.
NextStatePatient(i) ==
  CASE state \in {"UNKNOWN", "OFF"} -> IF wMax(i) THEN "FULL" ELSE "DREN_ON"
    [] state = "DREN_ON" -> IF i.fbDren THEN "DREN_OPERATE"
                            ELSE IF timer >= DRENAGE_ON_TIME THEN "DREN_EMPTY" ELSE state
    [] state = "DREN_OPERATE" -> IF ~i.fbDren THEN "DREN_EMPTY"
                                 ELSE IF wMax(i) THEN "FULL"
                                 ELSE IF ~i.fbPump /\ timer >= DRENAGE_MAX_TIME THEN "FAULT_DREN" ELSE state
    [] state = "DREN_EMPTY" -> IF wMax(i) THEN "FULL" ELSE IF cmd = "ON" THEN "VIN" ELSE state
    [] state = "VIN" -> IF i.fbDren THEN "DREN_OPERATE" ELSE IF wMax(i) THEN "FULL" ELSE state
    [] state = "FULL" -> IF wMax(i) THEN state ELSE "DREN_ON"
    [] state \in {"FAULT_VIN", "FAULT_DREN"} -> IF wMax(i) THEN "FULL" ELSE state
    [] state = "DRYING" -> state

\* Poll, the switch over @state.
NextState(i) ==
  CASE state \in {"UNKNOWN", "OFF"} -> IF wMax(i) THEN "FULL" ELSE "DREN_ON"
    [] state = "DREN_ON" -> IF i.fbDren THEN "DREN_OPERATE"
                            ELSE IF timer >= DRENAGE_ON_TIME THEN "DREN_EMPTY" ELSE state
    [] state = "DREN_OPERATE" -> IF ~i.fbDren THEN "DREN_EMPTY"
                                 ELSE IF wMax(i) THEN "FULL"
                                 ELSE IF ~i.fbPump /\ timer >= DRENAGE_MAX_TIME THEN "FAULT_DREN" ELSE state
    [] state = "DREN_EMPTY" -> IF wMax(i) THEN "FULL" ELSE IF cmd = "ON" THEN "VIN" ELSE state
    [] state = "VIN" -> IF i.fbDren THEN "DREN_OPERATE" ELSE IF wMax(i) THEN "FULL"
                        ELSE IF timer >= VIN_MAX_TIME THEN "FAULT_VIN" ELSE state
    [] state = "FULL" -> IF wMax(i) THEN state ELSE "DREN_ON"
    [] state \in {"FAULT_VIN", "FAULT_DREN"} -> IF wMax(i) THEN "FULL" ELSE state
    [] state = "DRYING" -> state

\* @timer is set when a state with a time limit is entered; a tank that is drained
\* while the pump takes water from it gets its time anew.
TimerAfter(i) ==
  IF NextState(i) # state \/ (state = "DREN_OPERATE" /\ i.fbPump) THEN 0 ELSE timer

\* findNextZone: a zone that is being watered, one that has not had its amount,
\* one without an amount; 0 if there is none.
Rank(z) ==
  CASE z.active /\ z.set > 0              -> 1
    [] z.on /\ z.set > 0 /\ z.val < z.set -> 2
    [] z.on /\ z.set = 0                  -> 3
    [] OTHER                              -> 4
findNextZone(zs) ==
  LET wanted == {z \in Zones : Rank(zs[z]) < 4}
  IN IF wanted = {} THEN 0
     ELSE CHOOSE z \in wanted : \A y \in wanted \ {z} :
            Rank(zs[z]) < Rank(zs[y]) \/ (Rank(zs[z]) = Rank(zs[y]) /\ z < y)

\* Mutant of Activated: the other zones stay open.
ActivatedBeside(zs, z) ==
  IF zs[z].active THEN zs
  ELSE IF disabled /\ zs[z].set > 0 THEN Closed(zs)
  ELSE [zs EXCEPT ![z].active = TRUE, ![z].pin = TRUE]

\* Poll: the chosen zone is opened unless it was, or may not be.
Activated(zs, z) ==
  IF zs[z].active THEN zs
  ELSE IF disabled /\ zs[z].set > 0 THEN Closed(zs)
  ELSE [Closed(zs) EXCEPT ![z].active = TRUE, ![z].pin = TRUE]

\* Poll: a pulse of the meter, or a second since the zone was opened, is added.
Counts(z, i) ==
  IF counter THEN i.wCtr /\ ~meter ELSE zone[z].active /\ zone[z].set > 0 /\ second
Counted(zs, z, i) ==
  IF zs[z].active /\ Counts(z, i) /\ zs[z].val < MAXVAL
  THEN [zs EXCEPT ![z].val = @ + 1] ELSE zs

\* Mutant of Finished: the amount is compared after it has been counted.
FinishedLate(zs, z) ==
  IF zone[z].set > 0 /\ (zone[z].val > zone[z].set \/ disabled)
  THEN [zs EXCEPT ![z].active = FALSE, ![z].pin = FALSE] ELSE zs

\* Poll: the zone is closed when it had its amount before this poll.
Finished(zs, z) ==
  IF zone[z].set > 0 /\ (zone[z].val >= zone[z].set \/ disabled)
  THEN [zs EXCEPT ![z].active = FALSE, ![z].pin = FALSE] ELSE zs

Watered(z, i) == Finished(Counted(Activated(zone, z), z, i), z)

tankReady(i, next) == next = "FULL" \/ wMax(i) \/ wMin(i) \/ i.fbPump

-----------------------------------------------------------------------------
\* Poll of a frozen channel.
PollFreezed ==
  /\ freezed
  /\ state' = "OFF"
  /\ zone' = Closed(zone)
  /\ relay' = Switched(MovedTo(relay, "OFF"), "pump", FALSE)
  /\ timer' = 0
  /\ UNCHANGED <<item, second, meter>>

\* Poll: the tank first.  A call of moveToState comes with a change of state
\* (from UNKNOWN and OFF to FULL there is none, but nothing is on there).
Tank(i) ==
  LET next == NextState(i)
  IN /\ state' = next
     /\ timer' = TimerAfter(i)

\* What the tank has done to the relays.
AfterTank(i) ==
  IF NextState(i) = state \/ (state \in {"UNKNOWN", "OFF"} /\ wMax(i)) THEN relay
  ELSE MovedTo(relay, NextState(i))

\* Poll of a channel that waters, but the tank is not ready.
PollDry(i) ==
  /\ ~freezed /\ cmd \in {"ON", "DRY"} /\ ~tankReady(i, NextState(i))
  /\ Tank(i)
  /\ zone' = Closed(zone)
  /\ relay' = Switched(AfterTank(i), "pump", FALSE)
  /\ UNCHANGED <<item, second, meter>>

\* Poll with no zone to water.
PollIdle(i) ==
  /\ ~freezed
  /\ \/ cmd \notin {"ON", "DRY"}
     \/ tankReady(i, NextState(i)) /\ findNextZone(zone) = 0
  /\ Tank(i)
  /\ relay' = Switched(AfterTank(i), "pump", FALSE)
  /\ UNCHANGED <<item, second, zone, meter>>

\* Poll with a zone to water.  With a meter @lastVals is written back as it was
\* read before the tank was looked at.
PollWater(i) ==
  LET z     == findNextZone(zone)
      opens == ~zone[z].active /\ (~disabled \/ zone[z].set = 0)
      wet   == zone[z].active \/ opens
      more  == zone[z].set > 0 /\ (zone[z].val >= zone[z].set \/ disabled)
      after == IF counter /\ wet THEN [AfterTank(i) EXCEPT !.bit = relay.bit] ELSE AfterTank(i)
  IN /\ ~freezed /\ cmd \in {"ON", "DRY"} /\ tankReady(i, NextState(i)) /\ z # 0
     /\ Tank(i)
     /\ zone' = Watered(z, i)
     /\ relay' = Switched(after, "pump", ~more \/ findNextZone(Watered(z, i)) # 0)
     /\ meter' = IF counter /\ wet THEN i.wCtr ELSE meter
     /\ second' = IF opens \/ Counts(z, i) THEN FALSE ELSE second
     /\ UNCHANGED item

Poll == PollFreezed \/ \E i \in Readings : PollDry(i) \/ PollIdle(i) \/ PollWater(i)

-----------------------------------------------------------------------------
\* Commands to the channel, after Item::Ctrl (item.cpp) has stored them.
\* In DRYING the driver turns ON into DRY; it does not see an ON that comes while the
\* channel counts as active, which after DRY depends on the value beside it.
CtrlOn ==
  /\ ~freezed
  /\ \/ cmd # "other" /\ cmd' = "ON"
     \/ cmd # "ON" /\ cmd' = IF state = "DRYING" THEN "DRY" ELSE "ON"
  /\ UNCHANGED <<freezed, disabled, state, timer, second, zone, relay, meter>>

\* XON, AUTO, COOL and others: ON for the driver or nothing, stored as they are.
CtrlOther ==
  /\ ~freezed /\ cmd' = "other"
  /\ UNCHANGED <<freezed, disabled, state, timer, second, zone, relay, meter>>

\* OFF, XOFF and HALT.
CtrlOff ==
  /\ ~freezed /\ cmd' = "other"
  /\ zone' = Closed(zone)
  /\ relay' = Switched(relay, "pump", FALSE)
  /\ UNCHANGED <<freezed, disabled, state, timer, second, meter>>

CtrlDry ==
  /\ ~freezed /\ cmd' = "DRY"
  /\ state' = "DRYING"
  /\ relay' = MovedTo(relay, "DRYING")
  /\ timer' = 0
  /\ UNCHANGED <<freezed, disabled, second, zone, meter>>

\* DISABLE and ENABLE, FREEZE and UNFREEZE, a temperature below zero.
CtrlFlags ==
  /\ \/ ~freezed /\ disabled' = ~disabled /\ UNCHANGED freezed
     \/ freezed' = ~freezed /\ UNCHANGED disabled
  /\ UNCHANGED <<cmd, state, timer, second, zone, relay, meter>>

\* RESET, refused while the channel is frozen or disabled.
CtrlReset ==
  /\ ~freezed /\ ~disabled
  /\ \/ zone' = [z \in Zones |-> [zone[z] EXCEPT !.val = 0]]
     \/ \E z \in Zones : zone' = [zone EXCEPT ![z].val = 0]
  /\ UNCHANGED <<item, state, timer, second, relay, meter>>

\* Commands to a zone: its amount and what it has had (also when the channel is
\* frozen, as for every /val), ON, OFF.
CtrlZone(z) ==
  /\ \/ \E n \in Amounts[z] : zone' = [zone EXCEPT ![z].val = n]
     \/ ~freezed /\ \E n \in Amounts[z] : zone' = [zone EXCEPT ![z].set = n]
     \/ ~freezed /\ zone' = [zone EXCEPT ![z].on = TRUE]
     \/ ~freezed /\ zone' = [zone EXCEPT ![z].on = FALSE, ![z].active = FALSE, ![z].pin = FALSE]
  /\ UNCHANGED <<item, state, timer, second, relay, meter>>

Ctrl == CtrlOn \/ CtrlOther \/ CtrlOff \/ CtrlDry \/ CtrlFlags \/ CtrlReset
        \/ \E z \in Zones : CtrlZone(z)

\* Mutant of Setup: what stood in the configuration is what the pins show.
SetupBits ==
  /\ state' = "UNKNOWN"
  /\ zone' = Closed(zone)
  /\ relay' = [relay EXCEPT !.out = allOff, !.told = relay.bit]
  /\ meter' \in {FALSE, counter}
  /\ timer' = 0
  /\ UNCHANGED <<item, second>>

\* Stop, and Setup with the configuration that was printed last, or a new one: the zones
\* are closed and inactive.  The first poll publishes all relays.
Setup ==
  /\ state' = "UNKNOWN"
  /\ zone' = Closed(zone)
  /\ relay' = [out |-> allOff, bit |-> allOff, told |-> allOff]
  /\ meter' \in {FALSE, counter}
  /\ timer' = 0
  /\ UNCHANGED <<item, second>>

\* A restart right after `save`: zones that were active when the configuration was
\* printed are active again, with their pins low.
Restart ==
  /\ state' = "UNKNOWN"
  /\ zone' = [z \in Zones |-> [zone[z] EXCEPT !.pin = FALSE]]
  /\ relay' = [out |-> allOff, bit |-> allOff, told |-> allOff]
  /\ meter' \in {FALSE, counter}
  /\ timer' = 0
  /\ UNCHANGED <<item, second>>

Tick ==
  /\ timer' = IF state \in Timed /\ timer < DRENAGE_MAX_TIME THEN timer + 1 ELSE timer
  /\ second' = (second \/ (~counter /\ \E z \in Zones : zone[z].active))
  /\ <<timer', second'>> # <<timer, second>>
  /\ UNCHANGED <<item, state, zone, relay, meter>>

Next == Poll \/ Ctrl \/ Setup \/ Restart \/ Tick

Spec == Init /\ [][Next]_vars

\* pollingLoop polls the channel in every round, also while it fills the tank.
PollVin  == state = "VIN" /\ Poll
FairSpec == Spec /\ WF_vars(PollVin) /\ WF_vars(Tick)

-----------------------------------------------------------------------------
(***************************************************************************)
(* Properties                                                              *)
(***************************************************************************)

Open == {z \in Zones : zone[z].pin}

\* Water is taken from the mains only while the machine waits for it with a
\* time limit, whatever state it came from and whoever commands in between.
MainsGuarded == relay.out.vin => state = "VIN"

\* Zones are watered one at a time: the pressure is for one, and the pulses of the meter are
\* booked to one.  The pins of the valves follow @active in one direction: an open valve is
\* one that turnOffAllZones will find.
OneZoneOpen ==
  /\ \A y, z \in Open : y = z
  /\ \A z \in Open : zone[z].active

\* A zone that has had its amount, or whose amount was set to less than it has had, is
\* closed with the next thing that a poll counts: it never runs on.  (A command may set what
\* it has had to anything, and leaves the valve as it is.)
CountsLast ==
  \A z \in Zones :
    zone'[z].val > zone[z].val /\ zone[z].set \in 1 .. zone[z].val /\ zone'[z].pin => ~Poll
NoOverrun == [][CountsLast]_vars

\* The mains are shut off in the end, whatever the floats say.
MainsShut == relay.out.vin ~> ~relay.out.vin

\* Without a meter the topics of the relays are true.  (With one, @lastVals is
\* written back stale and a relay may go off untold.)
RelaysTold == ~counter => relay.told = relay.out

\* documentation/modules/Sprinkler_module.md:136: if no zone is active, the pump is
\* switched off; so it is not switched on (but for DRY) without one.
PumpsForZone ==
  ~relay.out.pump /\ relay'.out.pump =>
    state' = "DRYING" \/ \E z \in Zones : zone'[z].active
PumpNeedsZone == [][PumpsForZone]_vars
=============================================================================
