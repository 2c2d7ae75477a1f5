------------------------------ MODULE MCDrivers ------------------------------
(***************************************************************************)
(* The drivers of single devices for TLC.  They share the processor and       *)
(* nothing else, so that a behaviour is about one of them: `driver` is chosen  *)
(* from Drivers in the initial state, the variables of the others stay Unused, *)
(* and those of Motor, which this module extends, at rest.                   *)
(***************************************************************************)
EXTENDS Motor, Sequences, TLC

CONSTANTS
  m1, m2, Time1, Time2,
  NoValue,
  Drivers       \* the cases of a run, by name

OnTimes == m1 :> Time1 @@ m2 :> Time2

VARIABLES
  driver,       \* whose behaviour this is
  cmd, freezed, disabled, state, timer, second, zone, relay, meter,
  out, todo, seen, busy, silent, due, reg, owed, own, runs,
  acData, acPower, acCheck, acStatus, acEnabled, acAge, acRx, acUnit, acTold, acLast,
  ventZone, ventNode, ventTold, ventSet, retaining, ventBefore,
  can, held, frames,
  dimmer, lamp, taken, wanted,
  fan, heater, vfd, gate, lineTaken, alarm,
  pid, outlet,
  mercury, session, wire, stale,
  relayx, since, contact,
  thermo, heating, clock, measured

sprinklerVars == <<cmd, freezed, disabled, state, timer, second, zone, relay, meter>>
modbusVars == <<out, todo, seen, busy, silent, due, reg, owed, own, runs>>
airCondVars ==
  <<acData, acPower, acCheck, acStatus, acEnabled, acAge, acRx, acUnit, acTold, acLast>>
multiventVars == <<ventZone, ventNode, ventTold, ventSet, retaining, ventBefore>>
canBusVars == <<can, held, frames>>
modbusDimmerVars == <<dimmer, lamp, taken, wanted>>
vacomVars == <<fan, heater, vfd, gate, lineTaken, alarm>>
pidVars == <<pid, outlet>>
mercuryVars == <<mercury, session, wire, stale>>
relayVars == <<relayx, since, contact>>
thermoVars == <<thermo, heating, clock, measured>>
driverVars == <<driver, vars, sprinklerVars, modbusVars, airCondVars, multiventVars,
  canBusVars, modbusDimmerVars, vacomVars, pidVars, mercuryVars, relayVars, thermoVars>>

Unused == 0

NoSprinkler ==
  /\ cmd = Unused /\ freezed = Unused /\ disabled = Unused /\ state = Unused
  /\ timer = Unused /\ second = Unused /\ zone = Unused /\ relay = Unused
  /\ meter = Unused
NoModbus ==
  /\ out = Unused /\ todo = Unused /\ seen = Unused /\ busy = Unused /\ silent = Unused
  /\ due = Unused /\ reg = Unused /\ owed = Unused /\ own = Unused /\ runs = Unused
NoAirCond ==
  /\ acData = Unused /\ acPower = Unused /\ acCheck = Unused /\ acStatus = Unused
  /\ acEnabled = Unused /\ acAge = Unused /\ acRx = Unused /\ acUnit = Unused
  /\ acTold = Unused /\ acLast = Unused
NoMultivent ==
  /\ ventZone = Unused /\ ventNode = Unused /\ ventTold = Unused /\ ventSet = Unused
  /\ retaining = Unused /\ ventBefore = Unused
NoCanBus ==
  /\ can = Unused /\ held = Unused /\ frames = Unused
NoModbusDimmer ==
  /\ dimmer = Unused /\ lamp = Unused /\ taken = Unused /\ wanted = Unused
NoVacom ==
  /\ fan = Unused /\ heater = Unused /\ vfd = Unused /\ gate = Unused
  /\ lineTaken = Unused /\ alarm = Unused
NoPid ==
  /\ pid = Unused /\ outlet = Unused
NoMercury ==
  /\ mercury = Unused /\ session = Unused /\ wire = Unused /\ stale = Unused
NoRelay ==
  /\ relayx = Unused /\ since = Unused /\ contact = Unused
NoThermo ==
  /\ thermo = Unused /\ heating = Unused /\ clock = Unused /\ measured = Unused

\* The motors are at rest.
NoMotor ==
  /\ configured = FALSE /\ motorQuote = QUOTE /\ needed = off /\ inProcess = off /\ ext = zero
  /\ drive = [m \in Motors |-> "off"] /\ target = zero /\ pos = zero /\ now = 0 /\ ran = zero

-----------------------------------------------------------------------------
\* Sprinkler: one zone with a water meter.
Metered == INSTANCE Sprinkler WITH
  ZONES <- 1, Amounts <- 1 :> {1}, MAXVAL <- 2, counter <- TRUE,
  DRENAGE_ON_TIME <- 1, VIN_MAX_TIME <- 1, DRENAGE_MAX_TIME <- 1

\* Sprinkler: two zones by time, one of them without an amount.
Zoned == INSTANCE Sprinkler WITH
  ZONES <- 2, Amounts <- 1 :> {0, 1} @@ 2 :> {0}, MAXVAL <- 2, counter <- FALSE,
  DRENAGE_ON_TIME <- 1, VIN_MAX_TIME <- 1, DRENAGE_MAX_TIME <- 2

\* Sprinkler: the tank, with a zone without an amount.
Tank == INSTANCE Sprinkler WITH
  ZONES <- 1, Amounts <- 1 :> {0}, MAXVAL <- 1, counter <- FALSE,
  DRENAGE_ON_TIME <- 1, VIN_MAX_TIME <- 1, DRENAGE_MAX_TIME <- 2

\* Modbus: two registers that are written and read.
Master == INSTANCE Modbus WITH
  PARAMS <- 2, Values <- {0, 1}, Writable <- {1, 2}, Prefetch <- {}, Changes <- {},
  Def <- <<0, 0>>, Unmapped <- <<{}, {}>>, byName <- FALSE

\* Modbus: the mapping of the first parameter refers to the register of the second.
Mapped == INSTANCE Modbus WITH
  PARAMS <- 2, Values <- {0, 1}, Writable <- {1}, Prefetch <- {}, Changes <- {},
  Def <- <<2, 0>>, Unmapped <- <<{1}, {}>>, byName <- FALSE

\* Modbus: the same by name.
Named == INSTANCE Modbus WITH
  PARAMS <- 2, Values <- {0, 1}, Writable <- {1}, Prefetch <- {}, Changes <- {},
  Def <- <<2, 0>>, Unmapped <- <<{1}, {}>>, byName <- TRUE

\* Modbus: a parameter with prefetch and sendchanges.
Careful == INSTANCE Modbus WITH
  PARAMS <- 1, Values <- {0, 1}, Writable <- {1}, Prefetch <- {1}, Changes <- {1},
  Def <- <<0>>, Unmapped <- <<{}>>, byName <- FALSE

\* Modbus: one register.
Single == INSTANCE Modbus WITH
  PARAMS <- 1, Values <- {0, 1}, Writable <- {1}, Prefetch <- {}, Changes <- {},
  Def <- <<0>>, Unmapped <- <<{}>>, byName <- FALSE

\* AirCond: everything by command, on a line that loses nothing.
Cooler == INSTANCE AirCond WITH
  AcCommands <- {<<"power", "on">>, <<"set", 20>>, <<"quiet", "on">>, <<"cmd", "fan">>},
  AcHand <- {}, AcFirst <- {[on |-> TRUE, quiet |-> FALSE, mode |-> 1, fan |-> 3, temp |-> 5, swing |-> 0, lock |-> 0]}, AcLossy <- FALSE

\* AirCond: everything by the remote control.
RemoteControl == INSTANCE AirCond WITH
  AcCommands <- {},
  AcHand <- {[on |-> TRUE, quiet |-> FALSE, mode |-> 1, fan |-> 3, temp |-> 4, swing |-> 0, lock |-> 0],
             [on |-> FALSE, quiet |-> FALSE, mode |-> 1, fan |-> 3, temp |-> 4, swing |-> 0, lock |-> 0],
             [on |-> TRUE, quiet |-> TRUE, mode |-> 2, fan |-> 2, temp |-> 6, swing |-> 0, lock |-> 0]},
  AcFirst <- {[on |-> TRUE, quiet |-> FALSE, mode |-> 1, fan |-> 3, temp |-> 4, swing |-> 0, lock |-> 0]}, AcLossy <- FALSE

\* AirCond: on a line that loses and damages frames, with a remote control that
\* may leave the sum of the frame as it was.
Noisy == INSTANCE AirCond WITH
  AcCommands <- {<<"lock", "on">>, <<"fan", "med">>, <<"speed", 0>>, <<"speed", 129>>},
  AcHand <- {[on |-> FALSE, quiet |-> FALSE, mode |-> 1, fan |-> 3, temp |-> 5, swing |-> 0, lock |-> 0]}, AcFirst <- {[on |-> TRUE, quiet |-> FALSE, mode |-> 1, fan |-> 3, temp |-> 4, swing |-> 0, lock |-> 0]}, AcLossy <- TRUE

\* Multivent: two zones of different size by fan level, and a unit that is switched by hand.
Dampers == INSTANCE Multivent WITH
  ZONES <- 2, Volume <- <<40, 80>>, Pids <- {}, First <- <<"OFF", "FAN">>, turnbyfan <- "FAN",
  PidLevels <- {}, HandSets <- {}, Reconnects <- TRUE,
  ZoneCommands <- {[suffix |-> "cmd", cmd |-> "OFF", val |-> -1], [suffix |-> "fan", cmd |-> "", val |-> 0],
    [suffix |-> "fan", cmd |-> "", val |-> 100], [suffix |-> "fan", cmd |-> "AUTO", val |-> -1]},
  Reports <- {<<"mode", "OFF">>, <<"mode", "FAN">>, <<"cmd", "OFF">>}

\* Multivent: zones that may be frozen.
Frozen == INSTANCE Multivent WITH
  ZONES <- 2, Volume <- <<40, 40>>, Pids <- {}, First <- <<"OFF", "COOL">>, turnbyfan <- "",
  PidLevels <- {}, HandSets <- {}, Reconnects <- TRUE,
  ZoneCommands <- {[suffix |-> "cmd", cmd |-> "ON", val |-> -1], [suffix |-> "cmd", cmd |-> "OFF", val |-> -1],
    [suffix |-> "cmd", cmd |-> "FREEZE", val |-> -1], [suffix |-> "cmd", cmd |-> "UNFREEZE", val |-> -1]},
  Reports <- {<<"mode", "OFF">>, <<"mode", "FAN">>}

\* Multivent: a zone with a PID beside one without.
Climate == INSTANCE Multivent WITH
  ZONES <- 2, Volume <- <<40, 80>>, Pids <- {1}, First <- <<"OFF", "OFF">>, turnbyfan <- "",
  PidLevels <- {255}, HandSets <- {}, Reconnects <- FALSE,
  ZoneCommands <- {[suffix |-> "cmd", cmd |-> "HEATCOOL", val |-> -1], [suffix |-> "fan", cmd |-> "AUTO", val |-> -1]},
  Reports <- {<<"val", "hot">>}

\* Multivent: the temperature of the unit, which is also set by hand.
Boosted == INSTANCE Multivent WITH
  ZONES <- 1, Volume <- <<40>>, Pids <- {1}, First <- <<"OFF">>, turnbyfan <- "",
  PidLevels <- {255}, HandSets <- {22}, Reconnects <- FALSE,
  ZoneCommands <- {[suffix |-> "cmd", cmd |-> "HEAT", val |-> -1], [suffix |-> "cmd", cmd |-> "OFF", val |-> -1]},
  Reports <- {<<"val", "hot">>, <<"fan", 0>>}

\* CanBus: two controllers that get their configurations from the holder.
Bus == INSTANCE CanBus WITH
  NODES <- 2, Depth <- 1, Lost <- {}, Events <- {"restart", "change"},
  Flash <- {[addr |-> 0, ver |-> 0, val |-> -1]},
  Held <- {<<[addr |-> 1, ver |-> 1, val |-> -1], [addr |-> 2, ver |-> 1, val |-> -1]>>}

\* CanBus: one, over a bus that loses frames.
Wired == INSTANCE CanBus WITH
  NODES <- 1, Depth <- 1, Lost <- {"lookup", "id"},
  Events <- {"restart", "change", "command", "fail", "late"},
  Flash <- {[addr |-> 0, ver |-> 0, val |-> -1], [addr |-> 1, ver |-> 1, val |-> -1]},
  Held <- {<<[addr |-> 1, ver |-> 1, val |-> -1]>>}

\* CanBus: one, whose configuration changes, over a bus that loses frames.
Renewed == INSTANCE CanBus WITH
  NODES <- 1, Depth <- 1, Lost <- {"lookup", "id"},
  Events <- {"reload", "restart", "change", "command", "fail", "late"},
  Flash <- {[addr |-> 0, ver |-> 0, val |-> -1], [addr |-> 1, ver |-> 1, val |-> -1]},
  Held <- {<<[addr |-> 1, ver |-> 1, val |-> -1]>>, <<[addr |-> 1, ver |-> 2, val |-> -1]>>, <<[addr |-> 0, ver |-> 0, val |-> -1]>>}

\* ModbusDimmer: two lamps at one register.
Lamps == INSTANCE ModbusDimmer WITH
  DIMMERS <- 2, MAXVAL <- 5, Levels <- {0, 76}, Hands <- {0}

\* ModbusDimmer: one lamp, and no level 0.
Lamp == INSTANCE ModbusDimmer WITH
  DIMMERS <- 1, MAXVAL <- 63, Levels <- {3, 76}, Hands <- {0, 20}

\* Vacom: a fan that may fail in every way.
Vacom1 == INSTANCE Vacom WITH
  Speeds <- {50, 80}, Half <- TRUE, NoAnswers <- TRUE

\* Vacom: a fan whose drive takes both writes or none.
Steady == INSTANCE Vacom WITH
  Speeds <- {50}, Half <- FALSE, NoAnswers <- TRUE

\* Pid: with an output of 255 in alarm, as it is by default.
Heat == INSTANCE Pid WITH
  Outs <- {0, 1, 128, 255}, AlarmVal <- 255, TIMEOUT <- 2

\* Pid: with an output of 0 in alarm.
Cool == INSTANCE Pid WITH
  Outs <- {0, 128, 255}, AlarmVal <- 0, TIMEOUT <- 2

\* Mercury: an interval within the session.
Reading == INSTANCE Mercury WITH
  Interval <- 2, WAIT <- 1, KEEP <- 3

\* Mercury: an interval that is as long as a session.
Seldom == INSTANCE Mercury WITH
  Interval <- 3, WAIT <- 1, KEEP <- 3

\* Relay: off, on, and two shares between them.
Slow == INSTANCE Relay WITH
  Shares <- {0, 1, 3, 4}, PERIOD <- 4

\* Thermo: a time stamp that wraps.
Thermo1 == INSTANCE Thermo WITH
  MODULUS <- 8, FAILED <- 3, Inverted <- FALSE

\* Thermo: a heater on an inverted pin.
Bypass == INSTANCE Thermo WITH
  MODULUS <- 8, FAILED <- 3, Inverted <- TRUE

\* The instances are configurations of the kind that the theorems about them assume.
ASSUME Configurations ==
  /\ Metered!Configured
  /\ Zoned!Configured
  /\ Tank!Configured
  /\ Master!Configured
  /\ Mapped!Configured
  /\ Named!Configured
  /\ Careful!Configured
  /\ Single!Configured
  /\ Cooler!Configured
  /\ RemoteControl!Configured
  /\ Noisy!Configured
  /\ Dampers!Configured
  /\ Frozen!Configured
  /\ Climate!Configured
  /\ Boosted!Configured
  /\ Bus!Configured
  /\ Wired!Configured
  /\ Renewed!Configured
  /\ Reading!Configured
  /\ Seldom!Configured

-----------------------------------------------------------------------------
DriversInit ==
  /\ driver \in Drivers
  /\ \/ driver = "gate" /\ Init /\ NoSprinkler /\ NoModbus /\ NoAirCond /\ NoMultivent /\ NoCanBus /\ NoModbusDimmer /\ NoVacom /\ NoPid /\ NoMercury /\ NoRelay /\ NoThermo
     \/ driver = "metered" /\ Metered!Init /\ NoMotor /\ NoModbus /\ NoAirCond /\
        NoMultivent /\ NoCanBus /\ NoModbusDimmer /\ NoVacom /\ NoPid /\ NoMercury /\
        NoRelay /\ NoThermo
     \/ driver = "zoned" /\ Zoned!Init /\ NoMotor /\ NoModbus /\ NoAirCond /\ NoMultivent /\
        NoCanBus /\ NoModbusDimmer /\ NoVacom /\ NoPid /\ NoMercury /\ NoRelay /\ NoThermo
     \/ driver = "tank" /\ Tank!Init /\ NoMotor /\ NoModbus /\ NoAirCond /\ NoMultivent /\
        NoCanBus /\ NoModbusDimmer /\ NoVacom /\ NoPid /\ NoMercury /\ NoRelay /\ NoThermo
     \/ driver = "master" /\ Master!Init /\ NoMotor /\ NoSprinkler /\ NoAirCond /\
        NoMultivent /\ NoCanBus /\ NoModbusDimmer /\ NoVacom /\ NoPid /\ NoMercury /\
        NoRelay /\ NoThermo
     \/ driver = "mapped" /\ Mapped!Init /\ NoMotor /\ NoSprinkler /\ NoAirCond /\
        NoMultivent /\ NoCanBus /\ NoModbusDimmer /\ NoVacom /\ NoPid /\ NoMercury /\
        NoRelay /\ NoThermo
     \/ driver = "named" /\ Named!Init /\ NoMotor /\ NoSprinkler /\ NoAirCond /\ NoMultivent
        /\ NoCanBus /\ NoModbusDimmer /\ NoVacom /\ NoPid /\ NoMercury /\ NoRelay /\
        NoThermo
     \/ driver = "careful" /\ Careful!Init /\ NoMotor /\ NoSprinkler /\ NoAirCond /\
        NoMultivent /\ NoCanBus /\ NoModbusDimmer /\ NoVacom /\ NoPid /\ NoMercury /\
        NoRelay /\ NoThermo
     \/ driver = "single" /\ Single!Init /\ NoMotor /\ NoSprinkler /\ NoAirCond /\
        NoMultivent /\ NoCanBus /\ NoModbusDimmer /\ NoVacom /\ NoPid /\ NoMercury /\
        NoRelay /\ NoThermo
     \/ driver = "cooler" /\ Cooler!Init /\ NoMotor /\ NoSprinkler /\ NoModbus /\
        NoMultivent /\ NoCanBus /\ NoModbusDimmer /\ NoVacom /\ NoPid /\ NoMercury /\
        NoRelay /\ NoThermo
     \/ driver = "remote" /\ RemoteControl!Init /\ NoMotor /\ NoSprinkler /\ NoModbus /\
        NoMultivent /\ NoCanBus /\ NoModbusDimmer /\ NoVacom /\ NoPid /\ NoMercury /\
        NoRelay /\ NoThermo
     \/ driver = "noisy" /\ Noisy!Init /\ NoMotor /\ NoSprinkler /\ NoModbus /\ NoMultivent
        /\ NoCanBus /\ NoModbusDimmer /\ NoVacom /\ NoPid /\ NoMercury /\ NoRelay /\
        NoThermo
     \/ driver = "dampers" /\ Dampers!Init /\ NoMotor /\ NoSprinkler /\ NoModbus /\
        NoAirCond /\ NoCanBus /\ NoModbusDimmer /\ NoVacom /\ NoPid /\ NoMercury /\ NoRelay
        /\ NoThermo
     \/ driver = "frozen" /\ Frozen!Init /\ NoMotor /\ NoSprinkler /\ NoModbus /\ NoAirCond
        /\ NoCanBus /\ NoModbusDimmer /\ NoVacom /\ NoPid /\ NoMercury /\ NoRelay /\
        NoThermo
     \/ driver = "climate" /\ Climate!Init /\ NoMotor /\ NoSprinkler /\ NoModbus /\
        NoAirCond /\ NoCanBus /\ NoModbusDimmer /\ NoVacom /\ NoPid /\ NoMercury /\ NoRelay
        /\ NoThermo
     \/ driver = "boosted" /\ Boosted!Init /\ NoMotor /\ NoSprinkler /\ NoModbus /\
        NoAirCond /\ NoCanBus /\ NoModbusDimmer /\ NoVacom /\ NoPid /\ NoMercury /\ NoRelay
        /\ NoThermo
     \/ driver = "bus" /\ Bus!Init /\ NoMotor /\ NoSprinkler /\ NoModbus /\ NoAirCond /\
        NoMultivent /\ NoModbusDimmer /\ NoVacom /\ NoPid /\ NoMercury /\ NoRelay /\
        NoThermo
     \/ driver = "wired" /\ Wired!Init /\ NoMotor /\ NoSprinkler /\ NoModbus /\ NoAirCond /\
        NoMultivent /\ NoModbusDimmer /\ NoVacom /\ NoPid /\ NoMercury /\ NoRelay /\
        NoThermo
     \/ driver = "renewed" /\ Renewed!Init /\ NoMotor /\ NoSprinkler /\ NoModbus /\
        NoAirCond /\ NoMultivent /\ NoModbusDimmer /\ NoVacom /\ NoPid /\ NoMercury /\
        NoRelay /\ NoThermo
     \/ driver = "lamps" /\ Lamps!Init /\ NoMotor /\ NoSprinkler /\ NoModbus /\ NoAirCond /\
        NoMultivent /\ NoCanBus /\ NoVacom /\ NoPid /\ NoMercury /\ NoRelay /\ NoThermo
     \/ driver = "lamp" /\ Lamp!Init /\ NoMotor /\ NoSprinkler /\ NoModbus /\ NoAirCond /\
        NoMultivent /\ NoCanBus /\ NoVacom /\ NoPid /\ NoMercury /\ NoRelay /\ NoThermo
     \/ driver = "vacom" /\ Vacom1!Init /\ NoMotor /\ NoSprinkler /\ NoModbus /\ NoAirCond
        /\ NoMultivent /\ NoCanBus /\ NoModbusDimmer /\ NoPid /\ NoMercury /\ NoRelay /\
        NoThermo
     \/ driver = "steady" /\ Steady!Init /\ NoMotor /\ NoSprinkler /\ NoModbus /\ NoAirCond
        /\ NoMultivent /\ NoCanBus /\ NoModbusDimmer /\ NoPid /\ NoMercury /\ NoRelay /\
        NoThermo
     \/ driver = "heat" /\ Heat!Init /\ NoMotor /\ NoSprinkler /\ NoModbus /\ NoAirCond /\
        NoMultivent /\ NoCanBus /\ NoModbusDimmer /\ NoVacom /\ NoMercury /\ NoRelay /\
        NoThermo
     \/ driver = "cool" /\ Cool!Init /\ NoMotor /\ NoSprinkler /\ NoModbus /\ NoAirCond /\
        NoMultivent /\ NoCanBus /\ NoModbusDimmer /\ NoVacom /\ NoMercury /\ NoRelay /\
        NoThermo
     \/ driver = "reading" /\ Reading!Init /\ NoMotor /\ NoSprinkler /\ NoModbus /\
        NoAirCond /\ NoMultivent /\ NoCanBus /\ NoModbusDimmer /\ NoVacom /\ NoPid /\
        NoRelay /\ NoThermo
     \/ driver = "seldom" /\ Seldom!Init /\ NoMotor /\ NoSprinkler /\ NoModbus /\ NoAirCond
        /\ NoMultivent /\ NoCanBus /\ NoModbusDimmer /\ NoVacom /\ NoPid /\ NoRelay /\
        NoThermo
     \/ driver = "slow" /\ Slow!Init /\ NoMotor /\ NoSprinkler /\ NoModbus /\ NoAirCond /\
        NoMultivent /\ NoCanBus /\ NoModbusDimmer /\ NoVacom /\ NoPid /\ NoMercury /\
        NoThermo
     \/ driver = "thermo" /\ Thermo1!Init /\ NoMotor /\ NoSprinkler /\ NoModbus /\ NoAirCond
        /\ NoMultivent /\ NoCanBus /\ NoModbusDimmer /\ NoVacom /\ NoPid /\ NoMercury /\
        NoRelay
     \/ driver = "bypass" /\ Bypass!Init /\ NoMotor /\ NoSprinkler /\ NoModbus /\ NoAirCond
        /\ NoMultivent /\ NoCanBus /\ NoModbusDimmer /\ NoVacom /\ NoPid /\ NoMercury /\
        NoRelay

OthersThanMotor == UNCHANGED <<driver, sprinklerVars, modbusVars, airCondVars,
  multiventVars, canBusVars, modbusDimmerVars, vacomVars, pidVars, mercuryVars, relayVars,
  thermoVars>>
OthersThanSprinkler == UNCHANGED <<driver, vars, modbusVars, airCondVars, multiventVars,
  canBusVars, modbusDimmerVars, vacomVars, pidVars, mercuryVars, relayVars, thermoVars>>
OthersThanModbus == UNCHANGED <<driver, vars, sprinklerVars, airCondVars, multiventVars,
  canBusVars, modbusDimmerVars, vacomVars, pidVars, mercuryVars, relayVars, thermoVars>>
OthersThanAirCond == UNCHANGED <<driver, vars, sprinklerVars, modbusVars, multiventVars,
  canBusVars, modbusDimmerVars, vacomVars, pidVars, mercuryVars, relayVars, thermoVars>>
OthersThanMultivent == UNCHANGED <<driver, vars, sprinklerVars, modbusVars, airCondVars,
  canBusVars, modbusDimmerVars, vacomVars, pidVars, mercuryVars, relayVars, thermoVars>>
OthersThanCanBus == UNCHANGED <<driver, vars, sprinklerVars, modbusVars, airCondVars,
  multiventVars, modbusDimmerVars, vacomVars, pidVars, mercuryVars, relayVars, thermoVars>>
OthersThanModbusDimmer == UNCHANGED <<driver, vars, sprinklerVars, modbusVars, airCondVars,
  multiventVars, canBusVars, vacomVars, pidVars, mercuryVars, relayVars, thermoVars>>
OthersThanVacom == UNCHANGED <<driver, vars, sprinklerVars, modbusVars, airCondVars,
  multiventVars, canBusVars, modbusDimmerVars, pidVars, mercuryVars, relayVars, thermoVars>>
OthersThanPid == UNCHANGED <<driver, vars, sprinklerVars, modbusVars, airCondVars,
  multiventVars, canBusVars, modbusDimmerVars, vacomVars, mercuryVars, relayVars,
  thermoVars>>
OthersThanMercury == UNCHANGED <<driver, vars, sprinklerVars, modbusVars, airCondVars,
  multiventVars, canBusVars, modbusDimmerVars, vacomVars, pidVars, relayVars, thermoVars>>
OthersThanRelay == UNCHANGED <<driver, vars, sprinklerVars, modbusVars, airCondVars,
  multiventVars, canBusVars, modbusDimmerVars, vacomVars, pidVars, mercuryVars, thermoVars>>
OthersThanThermo == UNCHANGED <<driver, vars, sprinklerVars, modbusVars, airCondVars,
  multiventVars, canBusVars, modbusDimmerVars, vacomVars, pidVars, mercuryVars, relayVars>>

NextGate == driver = "gate" /\ Next /\ OthersThanMotor
NextMetered == driver = "metered" /\ Metered!Next /\ OthersThanSprinkler
NextZoned == driver = "zoned" /\ Zoned!Next /\ OthersThanSprinkler
NextTank == driver = "tank" /\ Tank!Next /\ OthersThanSprinkler
NextMaster == driver = "master" /\ Master!Next /\ OthersThanModbus
NextMapped == driver = "mapped" /\ Mapped!Next /\ OthersThanModbus
NextNamed == driver = "named" /\ Named!Next /\ OthersThanModbus
NextCareful == driver = "careful" /\ Careful!Next /\ OthersThanModbus
NextSingle == driver = "single" /\ Single!Next /\ OthersThanModbus
NextCooler == driver = "cooler" /\ Cooler!Next /\ OthersThanAirCond
NextRemoteControl == driver = "remote" /\ RemoteControl!Next /\ OthersThanAirCond
NextNoisy == driver = "noisy" /\ Noisy!Next /\ OthersThanAirCond
NextDampers == driver = "dampers" /\ Dampers!Next /\ OthersThanMultivent
NextFrozen == driver = "frozen" /\ Frozen!Next /\ OthersThanMultivent
NextClimate == driver = "climate" /\ Climate!Next /\ OthersThanMultivent
NextBoosted == driver = "boosted" /\ Boosted!Next /\ OthersThanMultivent
NextBus == driver = "bus" /\ Bus!Next /\ OthersThanCanBus
NextWired == driver = "wired" /\ Wired!Next /\ OthersThanCanBus
NextRenewed == driver = "renewed" /\ Renewed!Next /\ OthersThanCanBus
NextLamps == driver = "lamps" /\ Lamps!Next /\ OthersThanModbusDimmer
NextLamp == driver = "lamp" /\ Lamp!Next /\ OthersThanModbusDimmer
NextVacom1 == driver = "vacom" /\ Vacom1!Next /\ OthersThanVacom
NextSteady == driver = "steady" /\ Steady!Next /\ OthersThanVacom
NextHeat == driver = "heat" /\ Heat!Next /\ OthersThanPid
NextCool == driver = "cool" /\ Cool!Next /\ OthersThanPid
NextReading == driver = "reading" /\ Reading!Next /\ OthersThanMercury
NextSeldom == driver = "seldom" /\ Seldom!Next /\ OthersThanMercury
NextSlow == driver = "slow" /\ Slow!Next /\ OthersThanRelay
NextThermo1 == driver = "thermo" /\ Thermo1!Next /\ OthersThanThermo
NextBypass == driver = "bypass" /\ Bypass!Next /\ OthersThanThermo

DriversNext == NextGate \/ NextMetered \/ NextZoned \/ NextTank \/ NextMaster \/
  NextMapped \/ NextNamed \/ NextCareful \/ NextSingle \/ NextCooler \/ NextRemoteControl
  \/ NextNoisy \/ NextDampers \/ NextFrozen \/ NextClimate \/ NextBoosted \/ NextBus \/
  NextWired \/ NextRenewed \/ NextLamps \/ NextLamp \/ NextVacom1 \/ NextSteady \/
  NextHeat \/ NextCool \/ NextReading \/ NextSeldom \/ NextSlow \/ NextThermo1 \/
  NextBypass

DriversSpec == DriversInit /\ [][DriversNext]_driverVars

\* The fairness of each driver, as its module states it.
GateSetup   == driver = "gate" /\ Setup /\ OthersThanMotor
GateTick    == driver = "gate" /\ Tick /\ OthersThanMotor
GatePoll(m) == driver = "gate" /\ Poll(m) /\ OthersThanMotor
TankVin == driver = "tank" /\ Tank!PollVin /\ OthersThanSprinkler
TankTick == driver = "tank" /\ Tank!Tick /\ OthersThanSprinkler
SinglePoll == driver = "single" /\ Single!Poll /\ OthersThanModbus
CarefulPoll == driver = "careful" /\ Careful!Poll /\ OthersThanModbus
SingleSilence == driver = "single" /\ Single!Silence /\ OthersThanModbus
CarefulSilence == driver = "careful" /\ Careful!Silence /\ OthersThanModbus
SingleInterval == driver = "single" /\ Single!Interval /\ OthersThanModbus
CarefulInterval == driver = "careful" /\ Careful!Interval /\ OthersThanModbus
CoolerPoll == driver = "cooler" /\ Cooler!Poll /\ OthersThanAirCond
RemoteControlPoll == driver = "remote" /\ RemoteControl!Poll /\ OthersThanAirCond
CoolerTick == driver = "cooler" /\ Cooler!Tick /\ OthersThanAirCond
RemoteControlTick == driver = "remote" /\ RemoteControl!Tick /\ OthersThanAirCond
BoostedIdles == driver = "boosted" /\ Boosted!Idles /\ OthersThanMultivent
BoostedReport == driver = "boosted" /\ Boosted!ReportSet /\ OthersThanMultivent
BoostedTakes == driver = "boosted" /\ Boosted!Takes /\ OthersThanMultivent
BusHolder == driver = "bus" /\ Bus!PollHolder /\ OthersThanCanBus
RenewedHolder == driver = "renewed" /\ Renewed!PollHolder /\ OthersThanCanBus
BusRuns1 == driver = "bus" /\ Bus!Runs(1) /\ OthersThanCanBus
BusAge1 == driver = "bus" /\ Bus!Age(1) /\ OthersThanCanBus
BusRuns2 == driver = "bus" /\ Bus!Runs(2) /\ OthersThanCanBus
BusAge2 == driver = "bus" /\ Bus!Age(2) /\ OthersThanCanBus
RenewedRuns1 == driver = "renewed" /\ Renewed!Runs(1) /\ OthersThanCanBus
RenewedAge1 == driver = "renewed" /\ Renewed!Age(1) /\ OthersThanCanBus
LampPoll == driver = "lamp" /\ Lamp!Poll /\ OthersThanModbusDimmer
LampRelease == driver = "lamp" /\ Lamp!Release /\ OthersThanModbusDimmer
LampRetry == driver = "lamp" /\ Lamp!Retry(1) /\ OthersThanModbusDimmer
SteadyPoll == driver = "steady" /\ Steady!Poll /\ OthersThanVacom
SteadyRelease == driver = "steady" /\ Steady!Release /\ OthersThanVacom
SteadyFan == driver = "steady" /\ Steady!RetriedFan /\ OthersThanVacom
SteadyHeater == driver = "steady" /\ Steady!RetriedHeater /\ OthersThanVacom
CoolPoll == driver = "cool" /\ Cool!PollIdle /\ OthersThanPid
CoolAge == driver = "cool" /\ Cool!Age /\ OthersThanPid
ReadingPoll == driver = "reading" /\ Reading!Poll /\ OthersThanMercury
ReadingRelease == driver = "reading" /\ Reading!Release /\ OthersThanMercury
ReadingTick == driver = "reading" /\ Reading!Tick /\ OthersThanMercury
SeldomPoll == driver = "seldom" /\ Seldom!Poll /\ OthersThanMercury
SeldomRelease == driver = "seldom" /\ Seldom!Release /\ OthersThanMercury
SeldomTick == driver = "seldom" /\ Seldom!Tick /\ OthersThanMercury

FairDriversSpec ==
  /\ DriversSpec
  /\ WF_driverVars(GateSetup)
  /\ WF_driverVars(GateTick)
  /\ \A m \in Motors : WF_driverVars(GatePoll(m))
  /\ WF_driverVars(TankVin)
  /\ WF_driverVars(TankTick)
  /\ WF_driverVars(SinglePoll)
  /\ WF_driverVars(CarefulPoll)
  /\ WF_driverVars(SingleSilence)
  /\ WF_driverVars(CarefulSilence)
  /\ WF_driverVars(SingleInterval)
  /\ WF_driverVars(CarefulInterval)
  /\ WF_driverVars(CoolerPoll)
  /\ WF_driverVars(RemoteControlPoll)
  /\ WF_driverVars(CoolerTick)
  /\ WF_driverVars(RemoteControlTick)
  /\ WF_driverVars(BoostedIdles)
  /\ WF_driverVars(BoostedReport)
  /\ WF_driverVars(BoostedTakes)
  /\ WF_driverVars(BusHolder)
  /\ WF_driverVars(RenewedHolder)
  /\ WF_driverVars(BusRuns1)
  /\ WF_driverVars(BusAge1)
  /\ WF_driverVars(BusRuns2)
  /\ WF_driverVars(BusAge2)
  /\ WF_driverVars(RenewedRuns1)
  /\ WF_driverVars(RenewedAge1)
  /\ WF_driverVars(LampPoll)
  /\ WF_driverVars(LampRelease)
  /\ WF_driverVars(LampRetry)
  /\ WF_driverVars(SteadyPoll)
  /\ WF_driverVars(SteadyRelease)
  /\ WF_driverVars(SteadyFan)
  /\ WF_driverVars(SteadyHeater)
  /\ WF_driverVars(CoolPoll)
  /\ WF_driverVars(CoolAge)
  /\ WF_driverVars(ReadingPoll)
  /\ WF_driverVars(ReadingRelease)
  /\ WF_driverVars(ReadingTick)
  /\ WF_driverVars(SeldomPoll)
  /\ WF_driverVars(SeldomRelease)
  /\ WF_driverVars(SeldomTick)

-----------------------------------------------------------------------------
(***************************************************************************)
(* The properties of the drivers, under the names of their modules.           *)
(***************************************************************************)

\* The types of the driver at work, whichever it is.
DriversTypeOK ==
  /\ TypeOK
  /\ driver = "metered" => Metered!TypeOK
  /\ driver = "zoned" => Zoned!TypeOK
  /\ driver = "tank" => Tank!TypeOK
  /\ driver = "master" => Master!TypeOK
  /\ driver = "mapped" => Mapped!TypeOK
  /\ driver = "named" => Named!TypeOK
  /\ driver = "careful" => Careful!TypeOK
  /\ driver = "single" => Single!TypeOK
  /\ driver = "cooler" => Cooler!TypeOK
  /\ driver = "remote" => RemoteControl!TypeOK
  /\ driver = "noisy" => Noisy!TypeOK
  /\ driver = "dampers" => Dampers!TypeOK
  /\ driver = "frozen" => Frozen!TypeOK
  /\ driver = "climate" => Climate!TypeOK
  /\ driver = "boosted" => Boosted!TypeOK
  /\ driver = "bus" => Bus!TypeOK
  /\ driver = "wired" => Wired!TypeOK
  /\ driver = "renewed" => Renewed!TypeOK
  /\ driver = "lamps" => Lamps!TypeOK
  /\ driver = "lamp" => Lamp!TypeOK
  /\ driver = "vacom" => Vacom1!TypeOK
  /\ driver = "steady" => Steady!TypeOK
  /\ driver = "heat" => Heat!TypeOK
  /\ driver = "cool" => Cool!TypeOK
  /\ driver = "reading" => Reading!TypeOK
  /\ driver = "seldom" => Seldom!TypeOK
  /\ driver = "slow" => Slow!TypeOK
  /\ driver = "thermo" => Thermo1!TypeOK
  /\ driver = "bypass" => Bypass!TypeOK

\* What may not stay on for ever is in the care of a timer: motors that run, and the mains of the sprinkler.
\* Vacom: after a fault or too much heat the channel is off until it is commanded, and its speed
\* in the drive 0 or to be written.
\* Pid: the output of an alarm, and of a controller that is off.
\* Mercury: a meter that refuses the login is given up, and no other.
\* Relay: a relay that is closed has a timer.
\* Thermo: a heater that is on is measured.
Attended ==
  /\ driver = "gate" => RunningIsTimed
  /\ driver = "metered" => Metered!MainsGuarded
  /\ driver = "zoned" => Zoned!MainsGuarded
  /\ driver = "vacom" => Vacom1!ShutDown
  /\ driver = "heat" => Heat!OutAttended
  /\ driver = "cool" => Cool!OutAttended
  /\ driver = "reading" => Reading!GivesUpRefused
  /\ driver = "seldom" => Seldom!GivesUpRefused
  /\ driver = "slow" => Slow!Timed
  /\ driver = "thermo" => Thermo1!Watched
  /\ driver = "bypass" => Bypass!Watched

\* What only one may have. Sprinkler: zones are watered one at a time, and an open valve is one that turnOffAllZones finds.
\* CanBus: the address of a controller.
OnlyOne ==
  /\ driver = "metered" => Metered!OneZoneOpen
  /\ driver = "zoned" => Zoned!OneZoneOpen
  /\ driver = "bus" => Bus!OneAddressEach

\* What others have of a device is true. Sprinkler: what is published of the relays, without a meter.
\* AirCond: the power byte.
\* CanBus: what the holder has of an item, and flash of what runs.
StatesTold ==
  /\ driver = "metered" => Metered!RelaysTold
  /\ driver = "zoned" => Zoned!RelaysTold
  /\ driver = "cooler" => Cooler!PowerKnown
  /\ driver = "noisy" => Noisy!PowerKnown
  /\ driver = "bus" => Bus!ItemsTold
  /\ driver = "wired" => Wired!ItemsTold
  /\ driver = "bus" => Bus!SameAfterRestart
  /\ driver = "wired" => Wired!SameAfterRestart

\* Modbus: a command to a parameter without prefetch and sendchanges is pending until the device
\* has it or three attempts have failed, its own or those of the command before it.
\* ModbusDimmer: a command that the lamp does not show is to be repeated.
\* Vacom: a speed and a temperature that the drive has not are to be repeated; of starts and
\* stops, which the code does not look at, nothing is said.
CommandsKept ==
  /\ driver = "master" => Master!WriteKept
  /\ driver = "mapped" => Mapped!WriteKept
  /\ driver = "lamps" => Lamps!WriteRepeated
  /\ driver = "lamp" => Lamp!WriteRepeated
  /\ driver = "vacom" => Vacom1!SpeedsRepeated

\* Modbus: a change of the device is executed once, or twice where the mapping refers elsewhere.
ExecutedOnce ==
  /\ driver = "master" => Master!ExecutedOnce
  /\ driver = "mapped" => Mapped!ExecutedOnce
  /\ driver = "named" => Named!ExecutedOnce

\* Multivent: the fan of the unit runs only with some damper fully open.
FanHasOutlet ==
  /\ driver = "dampers" => Dampers!FanHasOutlet
  /\ driver = "frozen" => Frozen!FanHasOutlet
  /\ driver = "climate" => Climate!FanHasOutlet

\* Sprinkler: what a zone gets beyond its amount is the last it gets.
NoOverrun ==
  [][/\ driver = "metered" => Metered!CountsLast
     /\ driver = "zoned" => Zoned!CountsLast]_driverVars

\* Sprinkler: the pump is not switched on without a zone (but for DRY).
PumpNeedsZone ==
  [][/\ driver = "metered" => Metered!PumpsForZone
     /\ driver = "zoned" => Zoned!PumpsForZone]_driverVars

\* Modbus: what we wrote ourselves executes no action.
\* ModbusDimmer: what we wrote ourselves changes no command.
NoEcho ==
  [][/\ driver = "master" => Master!EchoStep
     /\ driver = "mapped" => Mapped!EchoStep
     /\ driver = "lamps" => Lamps!EchoStep
     /\ driver = "lamp" => Lamp!EchoStep]_driverVars

\* Multivent: what a manual stop has switched off comes back as it was.
\* Relay: a value starts the periods again that a value of 0 has stopped.
Restores ==
  [][/\ driver = "dampers" => Dampers!RestoreStep
     /\ driver = "frozen" => Frozen!RestoreStep
     /\ driver = "slow" => Slow!RunStep]_driverVars

\* Sprinkler: the mains are shut in the end, whatever the floats say.
MainsShut ==
  (driver = "tank" /\ relay.out.vin) ~> (driver = "tank" /\ ~relay.out.vin)

\* When nothing is asked of a driver any more, it has done what it was asked, or given it up,
\* and what it believes of its device is true.
Settles ==
  <>[][/\ driver = "single" => Single!NoCommand
       /\ driver = "careful" => Careful!NoCommand
       /\ driver = "cooler" => Cooler!Quiet
       /\ driver = "remote" => RemoteControl!Quiet
       /\ driver = "boosted" => Boosted!Quiet
       /\ driver = "bus" => Bus!Quiet
       /\ driver = "renewed" => Renewed!Quiet
       /\ driver = "lamp" => Lamp!Quiet
       /\ driver = "steady" => Steady!Quiet
       /\ driver = "cool" => Cool!Quiet
       /\ driver = "reading" => Reading!Quiet
       /\ driver = "seldom" => Seldom!Quiet]_driverVars
    => <>[](/\ driver = "single" => Single!Given
            /\ driver = "careful" => Careful!Given
            /\ driver = "cooler" => Cooler!Believed
            /\ driver = "remote" => RemoteControl!Believed
            /\ driver = "boosted" => Boosted!Unboosted
            /\ driver = "bus" => Bus!Believed
            /\ driver = "renewed" => Renewed!Served
            /\ driver = "lamp" => Lamp!Shown
            /\ driver = "steady" => Steady!Follows
            /\ driver = "cool" => Cool!Alarmed
            /\ driver = "reading" => Reading!Fresh
            /\ driver = "seldom" => Seldom!Fresh)

=============================================================================
