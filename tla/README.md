# LightHub in TLA+

Specifications, model-checking runs and proofs for the firmware in `src/lighthub`: a
home-automation controller that reads a JSON configuration, talks MQTT over Ethernet and CAN
to its neighbours, and drives relays, dimmers, Modbus devices, motors and sensors. Paths
below are relative to `src/lighthub` unless they say otherwise; `main.cpp:613` is line 613
of `src/lighthub/main.cpp`.

## 1. Inventory

The firmware is one cooperative loop (`loop_main`): `lanLoop`, `pollingLoop` (items),
`inputLoop`, `thermoLoop`, the CAN driver. There are no threads, but there is real
interleaving:

* blocking network calls (DHCP, HTTP, the MQTT connect) call `ethernetIdle`, which polls the
  command line, so that commands run inside them, and the contacts, which a timer interrupt
  may do as well (`TIMER_INT`);
* code that waits for a Modbus answer calls `modbusIdle`, which runs `lanLoop`, the inputs
  and the CAN driver inside the waiting item;
* `mqttClient.poll` and `LHCAN.Poll` call back into items with commands from outside.

The configuration tree (`root`, `items`, `inputs`, `mqttArr`, pointers into one allocation)
is the shared state under all of them; the counter `configLocked` says that somebody holds
pointers into it. Drivers keep most of their state in that tree too, as fields of their
channel, so that `save` makes it survive a restart.

| Component | State | Operations | What is hard | What makes it right | Module |
|---|---|---|---|---|---|
| Configuration store (`main.cpp`, `config.cpp`) | tree in RAM, `/config.json`, ETag in RAM and in flash, flags | boot, `load`, `get`, `save`, `clear`, web upload, CAN configuration | a save is two writes; four sources write one file; the ETag is taken before the body is parsed | a 304 answer is true; a tag is never ahead of its file; an uploaded file is not lost; an unattended controller recovers | `ConfigStore` |
| LAN and MQTT life cycle (`lanLoop`) | `lanStatus`, `timerLanCheckTime`, the broker list, `mqttErrorRate`, `configOk` | one state per case, commands, link and lease checks | blocking calls with commands inside; the loop runs inside items; one timer for all pauses | no tree is deleted under code that uses it; items are restored before commands are taken; operation is reached | `LanLoop` |
| CAN configuration stream (`canStream`) | state, `seqNo`, buffer and failure count on both ends | open, request, read, write, flush, close | losses, late frames, late requests, retries; no frame is ever sent twice | the client gets the document or knows it has not; both ends finish | `CanStream`, `ByteStream` |
| CAN driver (`candriver.cpp`) | state, id, address, `responseTimer`; in the holder the remote configurations and their CRC | lookup by MAC, requests for ids, items and configurations, statuses | answers lost or late, a configuration replaced while a controller runs it, restarts on either side | every known controller ends up with its configuration; the holder's picture of an item is true | `CanBus` |
| Channels and groups (`Item::Ctrl`, `Item::Poll`) | per channel: stored command, flags, one timer | 11 on/off commands, with a time or a delay, to a channel or a group | conditional commands, groups with a memory of their own, timers that undo | RESTORE undoes HALT only, XOFF undoes XON only; a frozen channel keeps its pin; timed commands end | `ItemCtrl` |
| Contact inputs (`inputs.cpp`) | per input: `inStore` (state, requested state, bounce count, toggles, 16-bit time stamp) | poll from the loop, poll from an interrupt | a poll that may execute nothing leaves a request; debouncing, five times, wrap of the time stamp | no press is lost or taken for another; a switch left alone has switched; presses alternate | `Inputs` |
| Motors (`out_motor.cpp`) | per motor: flags, start time; the global quota | command, poll, configuration | start inrush, shared quota, feedback, timeouts | at most `MOTOR_QUOTE` motors run; the quota is never lost; a motor stops | `Motor` |
| Sprinkler (`out_sprinkler.cpp`) | `@state`, timers, per zone `set`, `val`, `@active`; relays | command, poll, setup | floats and sensors may say anything; zones are stopped by other zones' commands | the mains are not left open; one zone at a time; a zone gets its amount and no more | `Sprinkler` |
| Modbus masters (`out_modbus.cpp`) | `@V`, `@S`, flags and attempts of each parameter | command, write with prefetch and retries, poll a range, execute changes | commands come while an older one is on the line; what was written comes back as a change | no command is forgotten; no echo is executed; a dead device is given up | `Modbus` |
| Legacy Modbus dimmers and Vacom drives (`item.cpp`) | stored command and level, FLAG_SEND_RETRY | write, repeat, read back, fault check | one line for all; levels are rounded both ways | what failed is repeated; reading back changes no command; a drive with a fault stops | `ModbusDimmer`, `Vacom` |
| Air conditioner (`out_ac.cpp`) | the last status frame, its check byte, a timer | command, poll, answer | a frame carries all settings, and may be lost, damaged or older than a remote control | what the driver would send next is what the unit does | `AirCond` |
| Ventilation (`out_multivent.cpp`) | per zone mode, level, PID, flags; what the unit was told and has reported | zone commands, reports of the unit, poll | a hand at the unit, zones that are passive or frozen, boost | the fan never blows at closed dampers; a stop is undone exactly | `Multivent` |
| PID (`out_pid.cpp`) | age of the measurement, alarm, last output | measurement, command, poll | measurements that stop; commands during the alarm | the output is what the alarm asks for | `Pid` |
| Electric meter (`out_mercury.cpp`) | `status`, two time stamps | login, six requests, pauses | a session that the meter closes, failing requests | it is read again after any failure | `Mercury` |
| Slow PWM (`out_relay.cpp`) | start of the period, pin | command, value, poll | a period that no one attends | an active channel has periods; a closed relay is attended | `Relay` |
| Thermostats (`thermoLoop`) | setting, temperature, 16-bit stamp | measurement, command, check | a stamp that wraps | a heater without measurements goes off | `Thermo` |
| Other inputs | per input | encoders, counters, analog values, sensors | thresholds, filters | per driver | – |
| Modbus TCP gateway, UART bridge, simple outputs, counters, air quality | buffers | pass on, write, publish | little state | – | – |
| Parsing and formatting of commands, files, log, LED, DMX, 1-Wire | buffers | conversions | data, not control | not a state machine | – |

Hazards, each at its line and with the properties that would catch it, are in `PROJECT.json`
under `hazards`; where the code lets a hazard happen, and no property excludes it, a note says
so.

## 2. Plan

Done: `ConfigStore` with proofs; `LanLoop` (the life cycle over an abstraction of
`ConfigStore`: a tree is none, without or with an `mqtt` section; a file may be torn) with
proofs; `CanStream` implementing `ByteStream`, with the proof that it does; `ItemCtrl`,
`Motor` and `Inputs` with proofs; `CanBus` with proofs; the drivers that keep a state machine
of their own, with proofs: `Sprinkler`, `Modbus`, `ModbusDimmer`, `Vacom`, `Multivent`, `Pid`,
`Relay`, `Thermo`, `AirCond` and `Mercury`.

Left, in this order:

1. Compositions: `LanLoop` with `ConfigStore` in place of its `stored`/`config` pair;
   `CanStream` as the refinement of the step of `CanBus` in which a configuration is read
   (and of `ConfigStore!CanConfig`); `Modbus` under the `Suspend` and `Resume` of `LanLoop`.
2. Restart in `ItemCtrl` (`save` prints the live tree, last commands included).
3. Nested menus (`act`) in `Inputs`, a configuration replaced while a contact is closed;
   encoders, counters and analog values.
4. The Modbus TCP gateway as the other user of the line, `out_counter`, 1-Wire.
5. Proofs: what the compositions keep, and what `CanBus` keeps of `ItemsTold` when the holder
   gets another configuration.

## 3. Modules

A module is named after its part of the system, `<M>Proofs` holds its theorems, and `MC<M>`
gives it to TLC. The drivers share `MCDrivers`, and their proofs two modules: `LoopProofs`
for those that go through their configuration in a loop (`Modbus`, `Multivent`), and
`DriverProofs` for the others.

### ConfigStore, ConfigStoreProofs, MCConfigStore

Where the configuration is, and who replaces it. `root`, `configLoaded`, `etag`
(`currentConfigETAG`) and `configOk` are RAM; `nvConf` is `/config.json`, `nvEtag` and the
two flags the system block. A configuration is the number of the version the portal
published it under, `Local` (written by hand or received over CAN), `NoConfig`, or `Torn`
(what a power failure inside a save leaves). An ETag is the number of its version, 0 if
empty.

| Action | Code |
|---|---|
| `Boot`, `Load` | `setup_main`, READ_RE_CONFIG: `loadConfigFromEEPROM` (main.cpp:1613) |
| `Get`, `AutoGet` | `cmdFunctionGet`, LIBS_INITIALIZED: `loadConfigFromHttp` (main.cpp:1960), answers 200 parsed, 200 broken, 304 |
| `Save`, `SaveJson`, `SaveEtag` | `cmdFunctionSave` (main.cpp:1660) cut where power may fail |
| `PostConfig`, `PostStored` | the POST handler (main.cpp:368) and the web library |
| `CanConfig` | `canDriver::Poll`, ReadConfig (candriver.cpp:362) |
| `SetFlags`, `Clear` | `get`/`save` ON and OFF, `clear` |
| `Crash`, `Publish` | the environment |

`users` says who works on the configuration besides the portal (an operator, the web editor,
a neighbour on the CAN bus). It is chosen in `Init` from the constant `Installations` and never
changes; the properties that hold only for some installations name them. The request to the
portal and the parsing of its answer are one step, although commands may run inside the
blocking call (main.cpp:1998) and before the parse (2008): that interleaving is in `LanLoop`,
whose calls are two steps, and not here.

### LanLoop, LanLoopProofs, MCLanLoop

`lanLoop` state by state, one action each (`HaveIp` is `case HAVE_IP_ADDRESS`, and so on). A
blocking call is two steps, `call' = "http"` and its return, with the commands `CmdLoad` and
`CmdGet` in between; the nested run is `Suspend` (item code begins to wait, with or without
`configLocked`) and `Resume`. `Goto` is the tail of `lanLoop`, which overrules the switch
when the link or the lease is gone. Ticks keep the order of the five timeouts of `options.h`
(5 s < 8 s < 10 s < 30 s < 120 s). `stable` is a device of the specification: from a moment
chosen by TLC on, cable, portal and the last broker of the list work and nobody types
commands. `canIntact` (chosen in `Init`) says that configurations that come over CAN always
parse.

### ByteStream, CanStream, CanStreamProofs, MCCanStream

`ByteStream` is what a reader may expect of a stream (prefixes, a success with the last byte,
failures that are told). `CanStream` has both ends of `canStream` with their buffers, sequence
numbers, failure counts and timeouts, the `processPacket` that starts the server and the retry
of the client. A byte is its position in the document; the constants say at which positions an
inner brace opens or closes, and `Lengths` are the documents that come out as one balanced
object, which is where the parser stops: none ends with an opening brace. A stream that does
not begin with a brace is refused (candriver.cpp:373). `can_lossy` loses the first frame of a
document whose next frame begins with an inner object: the client takes that for the whole.
`faults` is the set of things that go wrong in this network; it is chosen in `Init` from the
constant `Networks`. `StreamKept` is the refinement: without losses and retries the mapping to
`ByteStream` has no `faulty` steps.

### CanBus (proofs: DriverProofs)

The rest of the CAN driver, with a transfer of `CanStream` as one step that succeeds or
fails. One holder has a section for each controller (`held[n]`: its address, the version of
its text, and the state of its item, mirrored there by statuses); `can[n]` is the
controller: state of the driver, id, the configuration it runs, the one in its flash.
`frames` are on their way, up to `Depth`, and those in `Lost` may get lost. `Runs(n)` is
`canDriver::Poll` of a controller, `PollHolder` that of the holder, `Age` the timers. What
happens outside is a set of events: a restart, a change of an item on either side, a new
configuration in the holder, a transfer that fails, a frame that is late.
A controller that obeys a command does so in a poll of its own: the command holds its
configuration, and the transfer waits for the next poll ("locked"). `Restart` waits until the
holder has read the statuses of the controller (`Reported`), because a start takes seconds,
and the holder reads its queue in every pass of its loop; a bus on which a status is older
than the restart of its sender is left out.

`ItemsTold` is what the holder is for: of a controller whose lookup was answered it has the
state of the item, or will have it when it has read the statuses on their way. It is not true
of a bus that loses statuses, because none is sent again, nor after a reload.
`OneAddressEach` is that no two controllers speak under one address, and `SameAfterRestart`
that what runs is what is in flash, up to the state of the item.

What the model shows and no property promises: the CRC in the answer to a lookup is over the
holder's live subtree, mirrored states included, so that a controller whose item has changed
since reads an equal configuration again after a restart; after a lookup that got no answer,
a controller that has a configuration runs it and never looks up again; a reload that gives
an address to another controller books statuses on the wrong item until that one restarts;
a status that is lost is not sent again.

### ItemCtrl, ItemCtrlProofs, MCItemCtrl

`Item::Ctrl` for channels that are on or off, and for one group of them. `channel[c]` has
the stored command, the flags DISABLED and FREEZED, the pin, and the timer (I_TIMESTAMP with
the scheduled command). `CtrlItem` and `CtrlGroup` follow the code from top to bottom:
frozen, toggled, ignored, opposite scheduled, executed; members first, then what the group
remembers. `Expire` is `Item::Poll`. `cause`, `timed` and `memo` are history variables the
properties use; no action reads them.

`TimedOnEnds` is about all commands, the timed ON that the documentation gives as its example
(documentation/core/mqtt_api_reference.md:286-296: "after the given time the opposite command is
executed") and freezing included. The code does not keep that promise, and the property says
how far it does: a channel that a timed command turned on has a timer that turns it off, and
loses it while it is on in three ways only, each an operator of its own:

* `Taken`: there is one timer per channel, and a delayed command or a timed one about flags
  takes it over;
* `Missed`: a frozen channel refuses what its timer orders (item.cpp:1893), and the timer is
  gone;
* `MadeOrdinary`: to a channel that XON has turned on, ON, with a time or without, only replaces
  the stored XON and schedules nothing (item.cpp:1546); the XOFF that is due finds no XON to
  undo, and the light stays on.

### Motor, MotorProofs

`out_Motor`: `PollDrives` and `PollStops` are the two ends of `Poll` (towards the target;
target zone or time over), `Set` is a command that counts ("Extend motor time"), `Other` one
that only raises FLAG_ACTION_NEEDED, `CleanConf` and `Setup` are the reload. `maxOnTime`
keeps the 16 bits of its `int16_t`, `isTimeOver` and `millisNZ` the modulus of `millis()`.
`Move` is the gate, which may be blocked. `ran` is history. `NotStoppedEarly` is about the time
`maxOnTime` makes of the argument: the documented 60000 and 120000 ms
(documentation/core/modules_real_config.md:163) do not fit, and become the default of 10 s.

### Inputs, InputsProofs, MCInputs

One contact. `store` is `inStore`; its `timestamp16` is kept as the time that has passed
since, modulo 2^16 as `isTimeOver` computes it. A poll is one step (`inputLoopBusy`), and a
composition of operators on the input in the order of `contactPoll`: `Requested` (what an
interrupt has left), `TimerStep` (what is due by time), `Sampled` (debouncing, then
`Confirmed`). `PollLoop` does all three, `PollInterrupt` the last one only, with `interrupt`
TRUE in `ChangeState`. `interrupts` says whether there are such polls: `ethernetIdle` in
every build with a network, the timer interrupt in some. `keys` is the configuration of the
input, the set of keys it has. What a command does is reduced to a lamp that `scmd` and
`scmd2` turn on and `rcmd` turns off; `lamp` and `store.presses` are history, which no guard
reads. `Touch` is a person or a bounce.

### Sprinkler (proofs: DriverProofs)

`state` is `@state`; `NextState` is the switch of `Poll`, `timer` the age of `@timer`.
`Poll` reads the floats and sensors (any values that can come together), runs the switch,
sets the relays (`relay.out`), counts (`second` or the pulses of the meter) and goes on to
the next zone; all of it is one action, because nothing waits. `Ctrl` is the commands of the
channel and of its zones, `Setup` and `Restart` what becomes of `@`-fields. Water is counted
up to `MAXVAL`. `NoOverrun` is about what a poll counts: a command may set what a zone has
had to its whole amount and leaves the valve open, until the next second or pulse is counted.

Seen in the code, beyond the finding about the pump: with a meter, `@lastVals` is written
back from a copy that `turnOffPump` does not update (out_sprinkler.cpp:672), so that a relay
goes off untold (`RelaysTold` is for channels without one); DRYING has no exit but a
command, and waters the zones; DRY does not survive a restart, though the documentation says
so; XON is stored and waters nothing; `@active` does survive, so that a restart opens the
pump before a valve.

### Modbus (proofs: LoopProofs)

`out[p]` is `@V`, `todo[p]` the flags and attempts of a parameter, `seen[p]` is `@S`,
`reg[p]` the register. An exchange is two steps (`busy`), and commands come in between.
`Concluded` is what becomes of an attempt: written, equal, cancelled, no answer. `Cleaned`
is the comparison with what has been commanded meanwhile. `owed`, `own` and `runs` are
history: the last command not yet confirmed, whether the register holds what this channel
wrote, and how often its last change was executed.

Seen in the code: a parameter with prefetch loses a command that comes during the read
before a write (out_modbus.cpp:967 compares with a copy taken at :914), and one with
`sendchanges` is compared with `@S`, which may be older than the device. That is why
`WriteKept` and `NoEcho` leave these parameters out. A command that comes back to the value
being written counts as the same command; attempts belong to the parameter and not to the
command, so that one that comes late in a series gets fewer; "def" by name uses an `@S` that
may never have been read.

### ModbusDimmer, Vacom (proofs: DriverProofs)

What `Item` does itself. `ModbusDimmer` is lamps on one line with a gateway beside them
(`taken`): `Command` writes or leaves FLAG_SEND_RETRY, `Retry` is the repetition, `Poll`
reads back through `map`, the rounding of the code. `wanted` is the last level that was
commanded, until a hand turns the lamp. `Vacom` is a fan and its heater: two registers per
command (`Driven`), `Poll` is `checkFM`, `alarm` its history.

Seen in the code: repeated read-backs may move a stored level by one step of rounding; a
level below MIN_VOLUME is raised in the first write and not in the repetition; a level for
which the register has no step reads back as OFF. Of the two writes to a drive only the
second one's result counts: a drive that missed the write to the run register is neither
started nor stopped, and not told again (item.cpp:2394-2405). `SpeedsRepeated` and `ShutDown`
are therefore about the speed and the temperature, and `Settles` about drives that take both
writes or none. A reading without an answer uses the old buffer and may see a fault in it; a
fault stops the fan and leaves the heater.

### AirCond (proofs: DriverProofs)

`acData` is the frame to send as its settings, `acCheck` the check byte by which an answer
is told to be new, `acRx` the answer in the buffer, `acUnit` the unit, `acTold` what was
published. `Command` changes `acData` and sends it whole; `Poll` asks every 5 s.

`Frame` is a setting as the bytes of the frame that differ, and `getCRC` their sum of 8 bits as
the code computes it (out_ac.cpp:277), so that two settings may have the same check byte.

`PowerKnown` is about the byte of the frame that is not taken from the frame, but kept apart
(`store->power`): a command puts it back before it switches on or off. If the unit is in a
state whose answer the driver would pass over as nothing new, and that differs from the last
answer taken over (`acLast`, history) in one byte at most, it does not differ, and the byte kept
is that of the unit. Where two bytes change and the sum does not, the driver keeps what is no
longer so, and the same after a frame whose sum is 0: the property does not promise otherwise.

`Settles` is about commands or the remote control, not both: a command sends the settings of
the last frame, and so undoes what was set by hand within the last 5 s. It is checked with
settings whose sums differ and without losses, since equal sums and lost frames leave a
difference that nothing corrects. Seen besides: /fan AUTO and then /cmd FAN leaves "auto"
published; a command before the first answer sends a frame of zeros.

### Multivent (proofs: LoopProofs)

`ventZone[z]` is the object of a zone, `ventNode` that of the unit, `ventTold` and `ventSet`
what the unit was told and is set to, `ventBefore` history. `Command` is `Ctrl` for a zone
with a suffix, `Reported` and `ReportSet` the feedback from the unit with the search for a
hand, `Poll` the PIDs and then `balance`, which sets dampers and fan. Temperatures are three
classes and the two of a boost; what a PID computes is any of `PidLevels`. Each zone with a PID
has its own reading (`HeatCools`: heating or cooling, by its own set and value, and fresh or
not). `retaining` is the time in which retained commands come again after a lost connection
(RETAINING_COLLECTING): polls wait, and a fan that is entered is not raised to the least level
(out_multivent.cpp:805).

Seen in the code: frozen zones accept modes; a zone that is commanded while the unit is
stopped by hand is restored over (`Restores` asks for the others); `/fan` with a number does
not take a zone out of the passive mode, though section 5.3 of its document says so; a level
of -1 gives a negative share of air.

### Pid, Mercury, Relay, Thermo (proofs: DriverProofs)

* `Pid`: `pid` is the channel with its store, `outlet` the item it commands. `alarm` is
  `alarm(true)`. With the default `alarmVal` of 255 `Setup` turns the output on at every
  start, HALT does not halt, and a disabled controller does not miss measurements;
  `OffIsOff` is for values that are not positive.
* `Mercury`: `mercury` is `status` with two time stamps and the number of requests answered
  in a round, `session` the meter. A refused login and a missing session have the same code
  (3), which is why a failing request is repeated without a pause. `GivesUpRefused` says
  that this code never makes the driver give up a meter that only has no session.
  Whether the meter refuses the login is chosen in `Init` and does not change.
* `Relay`: `since` is the age of `ext`. `RunStep` leaves out what the code forgets: after
  FAN and XON with a value of 0 the next value starts nothing (out_relay.cpp:139).
* `Thermo`: the stamp has its modulus, a round of `thermoLoop` is one tick. The alarm drives
  the pin LOW, which on an inverted pin is "on".

### MCDrivers

The drivers of single devices share the processor and nothing the modules name, so that a
product of them would check nothing more than each alone. A behaviour of `MCDrivers` is about
one of them: `driver` is the case, chosen in `Init`, and the variables of the others stay
`Unused`. Each case is an INSTANCE with constants of its own. A property of the run says for
every case of its driver what the module states: `Attended` is `RunningIsTimed` of Motor,
`MainsGuarded` of Sprinkler, `ShutDown` of Vacom, `OutAttended` of Pid, `Timed` of Relay,
`Watched` of Thermo, `GivesUpRefused` of Mercury; `StatesTold` is `RelaysTold` of Sprinkler,
`ItemsTold` and `SameAfterRestart` of CanBus and `PowerKnown` of AirCond; `OnlyOne` is
`OneZoneOpen` of Sprinkler and `OneAddressEach` of CanBus; `CommandsKept` is `WriteKept` of
Modbus, `WriteRepeated` of ModbusDimmer, `SpeedsRepeated` of Vacom; `NoEcho` is that of Modbus
and of ModbusDimmer; `Restores` is `RestoreStep` of Multivent and `RunStep` of Relay;
`Settles` is what each driver comes to when nothing happens any more. `Configurations` says
that the instances are such as the theorems about them assume. The theorems are about the
drivers' own modules, for all constants; what is said here of the cases is an instance of
them.

## 4. Runs

| Run | Question | Distinct states |
|---|---|---|
| `config_all` | All users and all crashes: `PortalTagIsSound`, `EtagNeverAhead`, `LocalEditKept`, `ConfigRecovered` | 9 098 |
| `config_stale_tag` | *violation*: with the web editor a 304 answer is not true after an upload, a POST and a load from flash (`NotModifiedIsSound`) | – |
| `lan_all` | Trees, sessions and timers under interleaving; convergence from every state | 113 170 |
| `lan_unlocked` | *violation*: an item that waits without the lock loses its tree | – |
| `can_all` | Refinement of `ByteStream`, delivery without faults, an end in any case | 11 882 |
| `can_lossy` | *violation*: one lost frame is a hole nobody notices | – |
| `item_all` | Commands to channels and groups in any order; timers: what is on for a time has a timer that turns it off, but for three cases | 200 606 |
| `inputs_all` | Every order of presses, bounces, passes, interrupts and ticks, for seven sets of keys | 564 112 |
| `inputs_irev` | *violation*: seen by an interrupt, presses do not alternate between `icmd` and `irev` | – |
| `drivers_all` | Safety of the drivers, 24 cases | 881 915 |
| `drivers_live` | What drivers come to, 14 cases | 186 677 |
| `sprinkler_pump` | *violation*: the pump is switched on without an active zone | – |

The five violations are findings; `PROJECT.json` quotes the comment or the document that
each contradicts. `drivers_all` takes about four minutes, `drivers_live` and `item_all` about
three, the others less.

Bounds and why they are enough:

* `ConfigStore`: 3 versions, so that file, tag, tree and portal can be three different ones
  at once and a fourth object (`Local`, `Torn`) beside them. The proofs remove the bound.
* `LanLoop`: 3 brokers (first, middle, last of a circular list), one failure allowed before
  a restart, so that restarts fall in the middle of the list. Each timeout is a different
  number of ticks in the order of the code; no guard looks at more than the order. The
  proofs of the safety properties take any list and any times in that order.
* `CanStream`: frames of 2 bytes and documents of 2, 5, 6 and 7 (the lengths at which the
  text is one object, with another inside that begins a frame), up to four frames: first, middle
  and last, full and not full; sequence numbers modulo 4 wrap after the first frame as 0xFFFF
  does and do not repeat in one document (`NoRepeat`); two transfers. The proofs take any
  sizes.
* `CanBus`: two controllers on a bus that loses nothing (`bus`), or one whose lookups,
  answers and commands get lost, with transfers that fail (`wired`); with reloads only in
  `drivers_live`. One frame on its way to the holder; two versions of a configuration, an item
  that is on or off. The proofs take any number of controllers, frames, versions and states.
* `ItemCtrl`: two channels and the group without timers (the cfg), and one channel and the
  group with timers of 1 and 2 ticks (`WithTimers` of `MCItemCtrl`, with timed ON, XON, TOGGLE
  and FREEZE and a delayed RESTORE; two timers may expire in either order, or one before the
  other command). Two channels with timers exceed what TLC
  does in minutes; the proofs cover any number of channels.
* `Motor`: two motors compete for one unit of quota; positions 0, 1, 2 with tolerance 0;
  arguments of 1, and of 3, which the word of 4 values cuts and the default of 2 replaces, on
  a clock of 4, so that every run may meet the wrap. The proofs cover any number of motors,
  any quota and all times.
* `Inputs`: one attempt of debouncing in place of two, so that bounces are filtered and get
  through; ticks of about 150 ms, in which the five times keep their order and a pass of the
  loop may be late by two; a time stamp modulo 8, one more than the longest time and a lag,
  so that every state may live through the wrap. The proofs cover every set of keys, all
  times and every number of attempts.
* `Sprinkler`: one or two zones, amounts of 1 and of no limit: each zone may be the first,
  the last, complete or unlimited while the other one is commanded. The proofs take any number
  of zones and any amounts.
* `Modbus`: one or two parameters with values 0 and 1. The hard cases take one exchange
  under way and one command that differs from what is sent; the second parameter is there
  for the order of writing and for mappings. The proofs take any number of both.
* `ModbusDimmer`: registers of 5 and of 63 steps, levels on and between steps, 0 among them;
  two lamps at one register, and one with a hand. The proof takes any registers and levels.
* `Vacom`: two speeds, so that a repetition may write an old one. `AirCond`: four or five
  commands, each of another field of the frame, and where answers get damaged or a hand sets
  the unit, a setting with the same sum as another; the proof takes all. `Multivent`: two
  zones of the same or of different size, one of them at most with a PID, connections that are
  lost in two of the cases; the proofs take any zones, each with or without a PID. `Pid`:
  outputs at the ends, next to them and between, a time out of 2.
* `Mercury`: an interval inside of a session and one as long as it; the proof takes any
  times. `Relay`: a period of 4
  with shares of 0, 1, 3 and 4: never, shortly, nearly always, always. `Thermo`: a stamp
  that wraps after 8 rounds and a failure after 3, as in the code, where ten minutes are
  less than the 4.7 hours of the stamp.

Fairness:

* `ConfigStore`: weak for boot and for the two halves of a save (the code runs to the end of
  `cmdFunctionSave` unless the power fails); strong for an automatic fetch that succeeds:
  `lanLoop` returns to LIBS_INITIALIZED as long as there is no configuration
  (`LanLoop!Converges` is that argument), and a portal that is asked again and again answers
  in the end.
* `LanLoop`: weak for the returns of network calls (all have timeouts), for time and for the
  end of a Modbus exchange; strong for a step of `lanLoop`, because `loop_main` calls it in
  every pass, between any two exchanges.
* `CanStream`: weak for both loops. Losses and retries are not fair: they need not stop.
* `Inputs`: time passes, and since a pass of `loop_main` takes `MaxLag` ticks at most,
  passes too. Interrupts are not fair, and `LampFollows` asks for nothing before the contact
  is left alone.
* Drivers: weak for polls and repetitions, because `pollingLoop` polls every item in every
  round, for the end of an exchange (the library has a timeout), for the release of the line
  by the gateway (it returns it after each exchange) and for time. Commands, failures,
  losses, hands, restarts and reloads are never fair: `Settles` says what happens once they
  cease, as `<>[][Quiet] => <>[]...`, and `MainsShut` asks for no rest at all, floats and
  commands included.

## 5. Proofs

`ConfigStoreProofs`, from `MaxVersion \in Nat \ {0}` and the sentinels being distinct:

* `TypeCorrect`.
* `EtagNeverAheadHolds`. The property is not inductive: a save copies the tree over the file
  while the tag of an older save still stands beside it, so the tree must not be behind
  either tag. `TagInv` adds that nothing is ahead of the portal, that no tag is ahead of the
  tree, and that between the two writes the file is the tree.
* `PortalTagIsSoundHolds`, with `TagHasTree`: where only the portal and an operator work, a
  tag in RAM comes with a version in RAM. With `TagInv` and a tag equal to the portal's, the
  tree is squeezed to the same version.
* `LocalEditKeptHolds`, with `EditGuarded`: once the editor has the file, the portal is off
  and no save of another tree is under way.

`LanLoopProofs`, for any number of brokers and any times in the order of the code:

* `TypeCorrect`, `LockedTreeAliveHolds`, `ServedTreeRestoredHolds`, `RetainedInTimeHolds`.
  Of the invariant `IInv`, `Held` says that only code without the lock loses its tree and
  that the lock is held by code that has one; `SessionOfTree` that in a session with a
  broker the items of the tree have been restored; `TimerYounger` that the timer was set no
  earlier than the session was opened, unless that is longer ago than the window for
  retained messages. Every state of `lanLoop` is a step of the proof.

`ItemCtrlProofs`, for any set of channels, commands, times and delays:

* `TypeCorrect`, `PinIsStateHolds`, `SwitchRulesHold`, `FrozenStaysHolds`. The invariant
  `IInv` says of every channel that its pin is its stored command, and that a stored HALT or
  XON was the last cause of a change of the pin. The steps are reduced to one relation
  between a channel before and after (`Lawful`), proved once for `CtrlItem` and carried
  through groups, timers and ticks.
* `RestoreUndoesHaltHolds`, with `MemoInv`: between HALT and RESTORE only time passes, and
  every member is halted exactly if it was on, or the group is frozen and nothing has
  changed.
* `TimedOnEndsHolds`, for all commands, timed ON and FREEZE among them. The invariant is
  `IInv`: every action is shown to leave a channel that owes an end with the timer that brings
  it, or to be one of the three exceptions (`Taken`, `Missed`, `MadeOrdinary`).

`MotorProofs`, for any finite set of motors, any quota and all times:

* `TypeCorrect`, `QuotaKeptHolds`, `RunningIsTimedHolds`. That the quota stays within its
  bounds is not inductive: it needs the balance of free and taken units, and that a running
  motor is in process. `StartedBalance` counts the set of motors in process when a poll lets
  one in.
* `NotStoppedEarlyHolds`, with `Counted`: the clock, which wraps, never shows more since the
  stamp than the ticks that have been counted, and only motors that run are stamped. A stamp
  of 1 may be the 0 that `millisNZ` avoids, and is treated apart. The arguments are any, those
  that an `int16_t` cuts included: the time meant is what `maxOnTime` leaves. The only hypothesis
  is that this is shorter than a turn of the clock (`TimesAreShort`: 16 bits against 32).

`InputsProofs`, for any sets of keys, all times and every number of attempts:

* `TypeCorrect`, `ToldValueHolds`, `PressesAlternateHolds`. A poll takes an input through
  three operators; `Kept` is what each of them preserves (`RequestedKept`, `TimerKept`,
  `SampledKept`). None of the properties is inductive alone: that the legacy action is up to
  date needs that a waiting request is for another state (`Pending`; otherwise it would be
  dropped with its legacy action) and, with interrupts, that an input without second presses
  never reaches their states (`Flat`); that presses alternate needs that the toggle points
  away from the half used last. `LoopChanged` and `InterruptChanged` say once what
  `changeState` does to each field.
* `GesturesCountedHolds`, with `Counted`: at rest the state fits the contact (it is one of
  `Down` exactly if the contact is closed) and the number of presses (`CountOK`); while a
  request waits, its state will (`Due`), because the presses were counted when the request
  was left, and the pass that carries it out counts nothing. `TimerGoalDue` and
  `ContactGoalDue` are the two ways to a new state, `LoopCounted` and `InterruptCounted` what
  `changeState` makes of the number.

`CanStreamProofs`, for documents, frames and sequence numbers of any size:

* `TypeCorrect`, in any network.
* `TransferOrdered` and `StreamKeptHolds`: in a network that loses nothing and whose reader
  begins once, every step of `CanStream` is one of `ByteStream` or stutters. The invariant
  has two parts. `InOrder`: what the parser has, what was received for it and what is on its
  way continue each other, up to what the writer has written. It is kept only in the order of
  a transfer (`Phases`): a request with the number FIRST means both "begin" and "go on after
  the first frame", so that it has to be known that the first is asked for once and the
  second answered before the third frame. The hypothesis is that the numbers count the frames
  of the document (`MaxLen <= FRAME * SEQS`, 512 kB with the 8 bytes and 16 bits of the
  code). For longer ones the property is false: the document would begin again in its middle.

`DriverProofs`, each driver as an INSTANCE whose constants and variables are those of the
proof module:

* `OutAttendedHolds` (Pid), for any outputs and any `AlarmVal \in Int`; inductive as it
  stands.
* `TimedHolds` (Relay) for any period, and `RunsHold` for any shares that are natural
  numbers.
* `WriteRepeatedHolds` (ModbusDimmer), for any number of lamps, any register and any levels:
  a step either leaves FLAG_SEND_RETRY or brings the lamp to what was wanted.
* `SpeedsRepeatedHolds`, `ShutDownHolds` (Vacom), for any speeds: a speed or temperature that
  the drive has not is repeated, and after a fault the channel of the fan is off. Of the run
  register they say nothing.
* `WatchedHolds` (Thermo). A heater is watched by the distance of two stamps that wrap, which
  says something only as long as the measurement is not a turn of the clock ago. `Aged` says
  how the stamp and the age belong together while there is a stamp; the alarm takes it away
  in time if the limit and three rounds are less than a turn (`Stampable`: the ten minutes
  are some 20 rounds, a turn some 560).
* `SprinklerTypes`, `MainsGuardedHolds`, `OneZoneOpenHolds`, `RelaysToldHolds`,
  `NoOverrunHolds` (Sprinkler), for any number of zones, amounts and times. That one valve at
  most is open needs that one zone at most is active and that a valve is open only in the
  active zone (`OneActive`), through the search for the next zone, commands to any zone, and
  restarts, after which a zone is active and its valve shut.
* `BusTypesHold` (CanBus) for any number of controllers, any configurations, events and losses,
  and `SameAfterRestartHolds`, with `BusSaved`: the CRC a controller compares is that of its
  flash, and what it runs, if anything, is the configuration in flash.
* `OneAddressHolds`, where the configurations of the holder, the next ones included, give the
  controllers the addresses `A`, all different and not 0 (`Addressed`), and no flash holds the
  address of another controller (`Acquainted`). `BusOwned`: ids on their way to a controller,
  its id, its flash and its section of the holder are all of its own address.
* `ItemsToldHolds`, with the same hypotheses, without reloads and on a bus that may lose
  anything but statuses. `BusTold` follows a controller from its start on. Statuses are on
  their way only under the address it has. Once the lookup is answered, the holder has the
  state of the item when it has read them. Before that the same is true, or none is on its
  way and the item is as flash has it: an answer with the CRC of flash, whenever it was
  sent, says that the holder has that state, and one with another CRC makes the controller
  read its section again, where state and item become the same.
* `AirTypesHold`, `PowerKnownHolds` (AirCond), for the sum of 8 bits, any commands the driver
  takes, any settings of the unit and any losses. `AirKnows`: a check byte that is kept is that
  of the last answer, whose power byte is kept with it. `AirOneByte` is the arithmetic: of two
  frames that differ in one byte, the sums differ modulo 256, since a byte is less than 256.
  Every command is reduced to one relation (`AirSent`): none of them touches the power byte.
* `MeterTypesHold`, `GivesUpRefusedHolds` (Mercury), for any times; inductive with the types.

`LoopProofs`, from `Configured` of each module:

* `WriteKeptHolds`, `ExecutedOnceHolds`, `NoEchoHolds` (Modbus), for any number of parameters
  and values. Of `MasterInv`, `BusyOK` says that what is on the line was noted for a
  parameter that still has to be written, `OwedOK` that what is owed is what is noted,
  `OwnOK` that what was written and not commanded over is in the register, and `CountedOK`
  bounds how often a change may still execute its action: once, or, where a mapping refers to
  a second parameter, as often as that one is still news. `Configured` asks that such a
  parameter refers to no third one; a longer chain could add one execution more.
* `VentTypes`, `FanHasOutletHolds`, `RestoresHolds` (Multivent), for any number of zones of
  any volume, whatever the PIDs compute, each for itself, and however often the connection is
  lost (`VentRetains`). The fan has an outlet because the largest demand
  for air is divided by itself: its damper is opened to exactly 255 (`Good`), in the integer
  arithmetic of the code. It needs that some zone has a level, since a mean of levels of -1
  is negative. `Configured` leaves out zones of volume 0, whose damper the code never sets
  (out_multivent.cpp:910; a zone without `V` has 60). `Remembered` ties the history of
  a stop to `halted`, which is never OFF.

What a loop does (`FoundIn` of Modbus; sums, stops, restores and the round of PIDs in
Multivent) is written as a function on the natural numbers and proved by its first round that
does otherwise: `Least` takes the least element of a set, `Iterates` shows with it that the
function exists, and `Induct` what it keeps from round to round.

Only model-checked: everything about liveness (`ConfigRecovered`, `Converges`, `Delivered`,
`TransferEnds`, `ComesToRest`, `LampFollows`, `MainsShut`, `Settles`), which is out of the
prover's reach, as ENABLED is. `TimedChannelsEnd` of `MCItemCtrl` is `TimedOnEnds` of an
instance with timers, and `DriversTypeOK`, `CommandsKept`, `FanHasOutlet` and the others of
`MCDrivers` join what the modules say of each driver; the theorems are about the modules.

## 6. Not modelled

* Data: JSON text, topics, colours and values, formatting, logs.
* `LanLoop`: the WiFi branch, the remembered address of DHCP (its outcome is a choice).
* `ConfigStore`: the in-place EEPROM file of AVR, Due and STM32 (a torn save may mix two
  texts there); the network settings in the same block.
* `CanStream`: a second client; a bus on which the request is late by more than a second
  (the reader asks as soon as it has parsed 8 bytes).
* `CanBus`: two holders on one bus, sub-items, the salt of ids, the distribution of the
  time.
* `ItemCtrl`: values and colours, sub-items, protected pins, nested groups, restart.
* `Inputs`: nested menus, analog contacts, encoders, the item behind the legacy action.
* `Modbus`: values in two registers, registers that are polled one by one, what a polled
  value does to the channel itself. The gateway and the nested `lanLoop` are a line that is
  taken.
* `Multivent`: cascades, which are set as the dampers; measured temperatures as numbers.
* `Pid`: the PID library, setpoints. `Mercury`: frames and values. `AirCond`: the serial
  port, callbacks that repeat fields.
* Other inputs (encoders, counters, analog values, sensors).
* The Modbus TCP gateway and the UART bridge pass frames on; the simple output drivers write
  values to hardware; the air quality sensor, DMX, Art-Net and 1-Wire are drivers over
  external libraries. `out_counter` is small and left out: after a restart a counter whose
  stored command is ON is not started.
* Parsing and formatting of commands, files, logs and LED; vendored libraries.
