------------------------------- MODULE LanLoop -------------------------------
(***************************************************************************)
(* lanLoop, the state machine that brings a controller from power-on to      *)
(* serving MQTT commands, with the two ways other code runs inside it:       *)
(*                                                                         *)
(*  - its network calls block (DHCP, HTTP, the MQTT connect); meanwhile      *)
(*    ethernetIdle polls the command line, so commands change lanStatus      *)
(*    under a call that will set it again when it returns;                   *)
(*  - item code waiting for a Modbus answer calls modbusIdle, which runs     *)
(*    lanLoop inside it.  That code holds pointers into the configuration    *)
(*    tree; configLocked tells lanLoop whether it may replace the tree.      *)
(*                                                                         *)
(* The Ethernet build of the Due and the AVR is modelled (maintain() and the *)
(* link are checked after every step).  Time is counted in ticks.           *)
(***************************************************************************)
EXTENDS Integers

CONSTANTS
  NBrokers,       \* brokers listed in a configuration with an mqtt section
  MaxErrors,      \* failed connects before the network is restarted
  \* the timeouts in ticks, and so the bound of the clock
  REINIT_TICKS, RETAIN_TICKS, RECONNECT_TICKS, RELOAD_TICKS, NOT_CONFIGURED_TICKS

ASSUME BrokersAssumption == NBrokers \in Nat \ {0} /\ MaxErrors \in Nat
ASSUME TicksAssumption ==
  /\ REINIT_TICKS \in Nat \ {0} /\ RETAIN_TICKS \in Nat /\ RECONNECT_TICKS \in Nat
  /\ RELOAD_TICKS \in Nat /\ NOT_CONFIGURED_TICKS \in Nat
  /\ REINIT_TICKS < RETAIN_TICKS /\ RETAIN_TICKS < RECONNECT_TICKS
  /\ RECONNECT_TICKS < RELOAD_TICKS /\ RELOAD_TICKS < NOT_CONFIGURED_TICKS

VARIABLES
  lanStatus,     \* the state of lanLoop
  call,          \* the blocking network call lanLoop is in, or "none"
  age,           \* ticks since timerLanCheckTime was set
  link,          \* is the cable plugged in?
  useHTTP,       \* `get ON`: the configuration is fetched when the network starts
  config,        \* the tree in RAM: none, or whether it has an mqtt section
  stored,        \* the file in flash: a configuration, none, or a torn one
  configOk,      \* MQTT was reached with this configuration
  broker,        \* mqttArr: the broker to try, counted from the first
  mqttErrorRate, \* connects failed since one succeeded or the network restarted
  connected,     \* mqttClient.connected()
  connAge,       \* ticks since the last successful connect
  restored,      \* the status topics were subscribed with this tree in place
  canIntact,     \* a configuration that comes over CAN always parses; never
                 \* changes
  suspended,     \* item code waiting for Modbus: none, or with or without lock
  stale,         \* the tree that code points into has been deleted
  stable         \* from now on network, portal and brokers work and nobody
                 \* types commands

net  == <<link, useHTTP, canIntact>>
lan  == <<lanStatus, call, age>>
tree == <<config, stored, configOk>>
mqtt == <<broker, mqttErrorRate, connected, connAge, restored>>
item == <<suspended, stale>>
vars == <<lanStatus, call, age, link, useHTTP, canIntact, config, stored, configOk, broker,
          mqttErrorRate, connected, connAge, restored, suspended, stale, stable>>

\* The states below HAVE_IP_ADDRESS in enum lan_status, in which maintain() and
\* the link are not checked and `get` is refused, and the others.
Down == {"INITIAL_STATE", "AWAITING_ADDRESS", "DO_REINIT", "REINIT", "DO_GET", "GET"}
Up   == {"HAVE_IP_ADDRESS", "LIBS_INITIALIZED",
         "IP_READY_CONFIG_LOADED_CONNECTING_TO_BROKER", "RETAINING_COLLECTING",
         "OPERATION", "OPERATION_NO_MQTT", "DO_RECONNECT", "RECONNECT",
         "DO_READ_RE_CONFIG", "READ_RE_CONFIG", "GET_IN_PROGRESS", "AWAITING_CONFIG"}

IpReady == "IP_READY_CONFIG_LOADED_CONNECTING_TO_BROKER"
Configs == {"none", "nomqtt", "mqtt"}

\* What the parser makes of a file.
Parsed(file) == IF file = "broken" THEN "none" ELSE file

TypeOK ==
  /\ lanStatus \in Up \cup Down
  /\ call \in {"none", "dhcp", "http", "connect"}
  /\ age \in 0 .. NOT_CONFIGURED_TICKS
  /\ link \in BOOLEAN /\ useHTTP \in BOOLEAN
  /\ config \in Configs /\ stored \in Configs \cup {"broken"}
  /\ configOk \in BOOLEAN
  /\ broker \in 1 .. NBrokers
  /\ mqttErrorRate \in 0 .. MaxErrors
  /\ connected \in BOOLEAN
  /\ connAge \in 0 .. RETAIN_TICKS
  /\ restored \in BOOLEAN
  /\ canIntact \in BOOLEAN
  /\ suspended \in {"none", "locked", "unlocked"}
  /\ stale \in BOOLEAN
  /\ stable \in BOOLEAN

\* Power-on; setup_main has loaded the stored configuration, if there is one.
Init ==
  /\ lanStatus = "INITIAL_STATE" /\ call = "none" /\ age = 0
  /\ link \in BOOLEAN /\ useHTTP \in BOOLEAN
  /\ stored \in Configs \cup {"broken"} /\ config = Parsed(stored) /\ configOk = FALSE
  /\ broker = 1 /\ mqttErrorRate = 0 /\ connected = FALSE /\ connAge = 0 /\ restored = FALSE
  /\ canIntact \in BOOLEAN
  /\ suspended = "none" /\ stale = FALSE
  /\ stable = FALSE

-----------------------------------------------------------------------------
\* Mutant of configLocked: item code does not count the lock up.
NeverLocked == FALSE

configLocked == suspended = "locked"

Elapsed(ticks) == age >= ticks

\* The end of lanLoop: a lost link or lease restarts the network, whatever the
\* switch has just decided.
Goto(status) ==
  lanStatus' \in IF status \in Down THEN {status}
                 ELSE IF ~link THEN {"DO_REINIT"}
                 ELSE IF stable THEN {status}
                 ELSE {status, "DO_REINIT"}

ArmTimer == age' = 0

\* The tree is deleted; whoever points into it has been left with nothing.
Deleted == stale' = (stale \/ suspended # "none")

\* Mutant of Applied: the MQTT connection survives the new configuration.
AppliedKeepsSession(cfg) ==
  /\ config' = cfg /\ configOk' = FALSE
  /\ Deleted
  /\ broker' = 1 /\ connected' = connected /\ restored' = FALSE
  /\ UNCHANGED <<connAge, mqttErrorRate>>

\* cleanConf, parse and applyConfig of a new tree: the first broker is chosen
\* and a live MQTT connection is dropped to collect the retained states anew.
Applied(cfg) ==
  /\ config' = cfg /\ configOk' = FALSE
  /\ Deleted
  /\ broker' = 1 /\ connected' = FALSE /\ restored' = FALSE
  /\ UNCHANGED <<connAge, mqttErrorRate>>

\* A new tree that does not parse leaves none.
Cleaned ==
  /\ config' = "none" /\ configOk' = FALSE
  /\ Deleted
  /\ restored' = FALSE
  /\ UNCHANGED <<broker, mqttErrorRate, connected, connAge>>

\* cleanConf refuses to delete a tree in use.
MayClean == config = "none" \/ ~configLocked

\* lanLoop runs: from loop_main, or from modbusIdle under suspended item code.
Runs(status) == call = "none" /\ lanStatus = status

InitialState ==
  /\ Runs("INITIAL_STATE")
  /\ link
  /\ call' = "dhcp"
  /\ UNCHANGED <<lanStatus, age, net, tree, mqtt, item, stable>>

\* onInitialStateInitLAN: DHCP may give no address; the address of an earlier
\* run is used after some attempts (not counted here).
DhcpDone ==
  /\ call = "dhcp"
  /\ call' = "none"
  /\ \/ Goto("HAVE_IP_ADDRESS")
     \/ ~stable /\ Goto("DO_REINIT")
  /\ UNCHANGED <<age, net, tree, mqtt, item, stable>>

HaveIp ==
  /\ Runs("HAVE_IP_ADDRESS")
  /\ Goto("LIBS_INITIALIZED")
  /\ UNCHANGED <<call, age, net, tree, mqtt, item, stable>>

\* A fetch starts only when nobody holds the tree.
LibsFetch ==
  /\ Runs("LIBS_INITIALIZED")
  /\ ~configLocked
  /\ useHTTP /\ ~configOk
  /\ call' = "http"
  /\ UNCHANGED <<lanStatus, age, net, tree, mqtt, item, stable>>

LibsNoFetch ==
  /\ Runs("LIBS_INITIALIZED")
  /\ ~configLocked
  /\ \/ useHTTP /\ configOk /\ Goto(IpReady)
     \/ ~useHTTP /\ config # "none" /\ Goto(IpReady)
     \/ ~useHTTP /\ config = "none" /\ Goto("DO_READ_RE_CONFIG")
  /\ UNCHANGED <<call, age, net, tree, mqtt, item, stable>>

\* State GET: the fetch the operator asked for, when nobody holds the tree.
Get ==
  /\ Runs("GET")
  /\ ~configLocked
  /\ lanStatus' = "GET_IN_PROGRESS" /\ call' = "http"
  /\ UNCHANGED <<age, net, tree, mqtt, item, stable>>

\* loadConfigFromHttp returns: a new configuration, saved as well; one that does
\* not parse; or 304, an error or a refused cleanConf, which leave the one we
\* have.  Once stable, the portal has the configuration in RAM, if there is one.
HttpDone ==
  /\ call = "http"
  /\ call' = "none"
  /\ \/ \E cfg \in Configs \ {"none"} :
          /\ MayClean /\ (stable => config = "none")
          /\ Applied(cfg) /\ stored' = cfg /\ Goto(IpReady)
     \/ MayClean /\ ~stable /\ Cleaned /\ Goto("DO_READ_RE_CONFIG") /\ UNCHANGED stored
     \/ /\ stable => config # "none"
        /\ Goto(IF config # "none" THEN IpReady ELSE "DO_READ_RE_CONFIG")
        /\ UNCHANGED <<tree, mqtt, stale>>
  /\ UNCHANGED <<age, net, suspended, stable>>

NoMqtt ==
  /\ Runs(IpReady)
  /\ config # "mqtt"
  /\ Goto("OPERATION_NO_MQTT")
  /\ UNCHANGED <<call, age, net, tree, mqtt, item, stable>>

\* ip_ready_config_loaded_connecting_to_broker: a session that survived a
\* network restart goes on; the timer keeps running from whoever set it last.
AlreadyConnected ==
  /\ Runs(IpReady)
  /\ config = "mqtt" /\ connected
  /\ Goto("RETAINING_COLLECTING")
  /\ UNCHANGED <<call, age, net, tree, mqtt, item, stable>>

ConnectStart ==
  /\ Runs(IpReady)
  /\ config = "mqtt" /\ ~connected
  /\ call' = "connect"
  /\ UNCHANGED <<lanStatus, age, net, tree, mqtt, item, stable>>

\* Mutant of ConnectDone: the timer is not set.
ConnectDoneUntimed ==
  /\ call = "connect" /\ call' = "none"
  /\ connected' = TRUE /\ connAge' = 0 /\ restored' = TRUE /\ configOk' = TRUE
  /\ mqttErrorRate' = 0
  /\ Goto("RETAINING_COLLECTING")
  /\ UNCHANGED <<age, net, config, stored, broker, item, stable>>

\* connect succeeded: the status topics are subscribed and 8 s are given to
\* the broker to send what it retains.
ConnectDone ==
  /\ call = "connect" /\ call' = "none"
  /\ connected' = TRUE /\ connAge' = 0 /\ restored' = TRUE /\ configOk' = TRUE
  /\ mqttErrorRate' = 0 /\ ArmTimer
  /\ Goto("RETAINING_COLLECTING")
  /\ UNCHANGED <<net, config, stored, broker, item, stable>>

\* Mutant of NextBroker: the end of the list is not noticed.
NextBrokerNoWrap == broker + 1

\* Mutant of NextBroker: the same broker is tried for ever.
NextBrokerStays == broker

\* setNextBroker: the list is circular.
NextBroker == IF broker = NBrokers THEN 1 ELSE broker + 1

\* connect failed.  Too many failures in a row restart the network.  Once
\* stable, the last broker of the list is the one that answers.
ConnectFailed ==
  /\ call = "connect" /\ call' = "none"
  /\ stable => broker # NBrokers
  /\ broker' = NextBroker
  /\ ArmTimer
  /\ \/ /\ mqttErrorRate < MaxErrors /\ mqttErrorRate' = mqttErrorRate + 1
        /\ Goto("DO_RECONNECT")
     \/ /\ mqttErrorRate = MaxErrors /\ mqttErrorRate' = 0
        /\ Goto("DO_REINIT")
  /\ UNCHANGED <<net, tree, connected, connAge, restored, item, stable>>

\* The retained states are in: unsubscribe, announce the items, take commands.
Retained ==
  /\ Runs("RETAINING_COLLECTING")
  /\ Elapsed(RETAIN_TICKS)
  /\ Goto("OPERATION")
  /\ UNCHANGED <<call, age, net, tree, mqtt, item, stable>>

LostBroker ==
  /\ Runs("OPERATION")
  /\ ~connected
  /\ Goto(IpReady)
  /\ UNCHANGED <<call, age, net, tree, mqtt, item, stable>>

\* The pauses: DO_x sets the timer, x waits for it.
DoReinit ==
  /\ Runs("DO_REINIT")
  /\ ArmTimer /\ lanStatus' = "REINIT"
  /\ UNCHANGED <<call, net, tree, mqtt, item, stable>>

Reinit ==
  /\ Runs("REINIT")
  /\ Elapsed(REINIT_TICKS)
  /\ lanStatus' = "INITIAL_STATE"
  /\ UNCHANGED <<call, age, net, tree, mqtt, item, stable>>

DoReconnect ==
  /\ Runs("DO_RECONNECT")
  /\ connected' = FALSE
  /\ ArmTimer /\ Goto("RECONNECT")
  /\ UNCHANGED <<call, net, tree, broker, mqttErrorRate, connAge, restored, item, stable>>

Reconnect ==
  /\ Runs("RECONNECT")
  /\ Elapsed(RECONNECT_TICKS)
  /\ Goto(IpReady)
  /\ UNCHANGED <<call, age, net, tree, mqtt, item, stable>>

DoGet ==
  /\ Runs("DO_GET")
  /\ connected' = FALSE /\ broker' = 1
  /\ ArmTimer /\ lanStatus' = "GET"
  /\ UNCHANGED <<call, net, tree, mqttErrorRate, connAge, restored, item, stable>>

DoReadReConfig ==
  /\ Runs("DO_READ_RE_CONFIG")
  /\ ArmTimer /\ Goto("READ_RE_CONFIG")
  /\ UNCHANGED <<call, net, tree, mqtt, item, stable>>

\* READ_RE_CONFIG: loadConfigFromEEPROM, unless the tree is in use.  A torn
\* file costs the tree we had; a missing one does not.
ReadReConfig ==
  /\ Runs("READ_RE_CONFIG")
  /\ ~configLocked
  /\ \/ /\ stored \in Configs \ {"none"}
        /\ Applied(stored) /\ Goto(IpReady)
        /\ UNCHANGED <<age, stored>>
     \/ /\ stored = "broken"
        /\ Cleaned /\ ArmTimer /\ Goto("AWAITING_CONFIG")
        /\ UNCHANGED stored
     \/ /\ stored = "none"
        /\ ArmTimer /\ Goto("AWAITING_CONFIG")
        /\ UNCHANGED <<tree, mqtt, stale>>
  /\ UNCHANGED <<call, net, suspended, stable>>

AwaitingConfig ==
  /\ Runs("AWAITING_CONFIG")
  /\ Elapsed(NOT_CONFIGURED_TICKS)
  /\ Goto("DO_REINIT")
  /\ UNCHANGED <<call, age, net, tree, mqtt, item, stable>>

\* READ_RE_CONFIG for 30 s with the tree in use: softRebootFunc.
RebootLocked ==
  /\ Runs("READ_RE_CONFIG")
  /\ configLocked
  /\ Elapsed(RELOAD_TICKS)
  /\ lanStatus' = "INITIAL_STATE" /\ age' = 0
  /\ config' = Parsed(stored) /\ configOk' = FALSE
  /\ broker' = 1 /\ mqttErrorRate' = 0 /\ connected' = FALSE /\ connAge' = 0 /\ restored' = FALSE
  /\ suspended' = "none" /\ stale' = FALSE
  /\ UNCHANGED <<call, net, stored, stable>>

\* A step in which the switch has nothing to do, but the link or the lease is
\* found lost.
LinkLost ==
  /\ call = "none" /\ lanStatus \in Up
  /\ ~link \/ ~stable
  /\ lanStatus' = "DO_REINIT"
  /\ UNCHANGED <<call, age, net, tree, mqtt, item, stable>>

LanStep ==
  \/ InitialState \/ HaveIp \/ LibsFetch \/ LibsNoFetch \/ Get \/ NoMqtt
  \/ AlreadyConnected \/ ConnectStart \/ Retained \/ LostBroker
  \/ DoReinit \/ Reinit \/ DoReconnect \/ Reconnect \/ DoGet
  \/ DoReadReConfig \/ ReadReConfig \/ AwaitingConfig \/ RebootLocked \/ LinkLost

CallReturns == DhcpDone \/ HttpDone \/ ConnectDone \/ ConnectFailed

-----------------------------------------------------------------------------
\* Commands, typed or sent to $command: also while a network call blocks.
CmdLoad ==
  /\ ~stable
  /\ lanStatus' = "DO_READ_RE_CONFIG"
  /\ UNCHANGED <<call, age, net, tree, mqtt, item, stable>>

CmdGet ==
  /\ ~stable
  /\ lanStatus \in Up
  /\ lanStatus' = "DO_GET"
  /\ UNCHANGED <<call, age, net, tree, mqtt, item, stable>>

\* canDriver::Poll, from loop_main or from modbusIdle, reads a configuration;
\* applyConfig moves lanStatus when it drops a connection or there was no MQTT.
CanConfig ==
  /\ ~stable
  /\ call = "none"
  /\ ~configLocked
  /\ \/ \E cfg \in Configs \ {"none"} :
          /\ Applied(cfg) /\ stored' = cfg
          /\ lanStatus' = IF connected \/ lanStatus = "OPERATION_NO_MQTT"
                          THEN IpReady ELSE lanStatus
     \/ ~canIntact /\ Cleaned /\ UNCHANGED <<lanStatus, stored>>
  /\ UNCHANGED <<call, age, net, suspended, stable>>

\* Item code starts a Modbus exchange: under configLocked from the fast polling,
\* a group or an input; without it from the slow polling or an MQTT command.
Suspend ==
  /\ call = "none" /\ suspended = "none" /\ config # "none"
  /\ suspended' \in {"locked", "unlocked"}
  /\ UNCHANGED <<lan, net, tree, mqtt, stale, stable>>

\* The answer or the timeout of the Modbus exchange: item code goes on.
Resume ==
  /\ call = "none" /\ suspended # "none"
  /\ suspended' = "none" /\ stale' = FALSE
  /\ UNCHANGED <<lan, net, tree, mqtt, stable>>

\* The cable is pulled or plugged, the broker drops us.
LinkChange ==
  /\ ~stable
  /\ link' = ~link
  /\ UNCHANGED <<useHTTP, canIntact, lan, tree, mqtt, item, stable>>

\* `get ON` and `get OFF`.
CmdUseHTTP ==
  /\ ~stable
  /\ useHTTP' = ~useHTTP
  /\ UNCHANGED <<lan, link, canIntact, tree, mqtt, item, stable>>

Disconnected ==
  /\ ~stable
  /\ connected /\ connected' = FALSE
  /\ UNCHANGED <<lan, net, tree, broker, mqttErrorRate, connAge, restored, item, stable>>

Stabilise ==
  /\ ~stable /\ stable' = TRUE
  /\ link' = TRUE /\ useHTTP' = TRUE
  /\ UNCHANGED <<canIntact, lan, tree, mqtt, item>>

Later(t, max) == IF t < max THEN t + 1 ELSE t

Tick ==
  /\ age' = Later(age, NOT_CONFIGURED_TICKS)
  /\ connAge' = Later(connAge, RETAIN_TICKS)
  /\ UNCHANGED <<lanStatus, call, net, tree, broker, mqttErrorRate, connected,
                 restored, item, stable>>

Next ==
  \/ LanStep \/ CallReturns \/ Tick
  \/ CmdLoad \/ CmdGet \/ CmdUseHTTP \/ CanConfig
  \/ Suspend \/ Resume
  \/ LinkChange \/ Disconnected \/ Stabilise

Spec == Init /\ [][Next]_vars

\* loop_main calls lanLoop in every pass, so also between two Modbus exchanges
\* however many there are (hence strong fairness); network calls return, time
\* passes, and a Modbus exchange ends with an answer or a timeout.
FairSpec ==
  /\ Spec
  /\ SF_vars(LanStep) /\ WF_vars(CallReturns) /\ WF_vars(Tick) /\ WF_vars(Resume)

-----------------------------------------------------------------------------
(***************************************************************************)
(* Properties                                                              *)
(***************************************************************************)

\* No code that waits for a Modbus answer comes back to a deleted tree: a
\* configuration is replaced only at a safe moment.
SuspendedTreeAlive == ~stale

\* The same for the code that holds the lock: none of the ways a tree can be
\* replaced, from the portal, from flash or over CAN, in lanLoop or beside it,
\* and at any point of its states, overlooks configLocked.
LockedTreeAlive == suspended = "locked" => SuspendedTreeAlive

\* Commands are taken only with items that had the chance to get their retained
\* states back: every way a tree can be replaced (portal, flash, CAN)
\* while the broker is connected leads through a new connection.
ServedTreeRestored == lanStatus = "OPERATION" /\ connected /\ config # "none" => restored

\* However a network restart, a reload or a fetch interrupts the collection of
\* retained states, commands are not taken before the broker had its 8 seconds
\* since the connection was made.
RetainedInTime ==
  [][lanStatus # "OPERATION" /\ lanStatus' = "OPERATION" => connAge >= RETAIN_TICKS]_vars

Serving ==
  \/ lanStatus = "OPERATION" /\ connected /\ config = "mqtt"
  \/ lanStatus = "OPERATION_NO_MQTT" /\ config = "nomqtt"

\* From every state it can get into, the controller reaches operation and stays
\* there once the cable, the portal and one of its brokers work.  A broken
\* configuration over CAN is the exception: it can leave OPERATION without a
\* tree, and nothing in lanLoop brings one back.
Converges == canIntact /\ stable ~> []Serving
=============================================================================
