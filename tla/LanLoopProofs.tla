----------------------------- MODULE LanLoopProofs -----------------------------
(***************************************************************************)
(* Proofs about LanLoop, for any number of brokers, any number of failed        *)
(* connects, and any timeouts in the order of the code.                        *)
(***************************************************************************)
EXTENDS LanLoop, TLAPS

\* TypeOK in two halves: what counts, and what does not.
Counts ==
  /\ age \in 0 .. NOT_CONFIGURED_TICKS
  /\ broker \in 1 .. NBrokers
  /\ mqttErrorRate \in 0 .. MaxErrors
  /\ connAge \in 0 .. RETAIN_TICKS
States ==
  /\ lanStatus \in Up \cup Down
  /\ call \in {"none", "dhcp", "http", "connect"}
  /\ config \in Configs /\ stored \in Configs \cup {"broken"}
  /\ suspended \in {"none", "locked", "unlocked"}
Flags ==
  /\ link \in BOOLEAN /\ useHTTP \in BOOLEAN /\ configOk \in BOOLEAN
  /\ connected \in BOOLEAN /\ restored \in BOOLEAN /\ canIntact \in BOOLEAN
  /\ stale \in BOOLEAN /\ stable \in BOOLEAN

LEMMA Halves == TypeOK <=> Counts /\ States /\ Flags
BY Zenon DEF TypeOK, Counts, States, Flags

\* Only code that waits without the lock finds its tree gone; and the lock is held by code
\* that has a tree, so that the way out of MayClean for "no tree" is not taken under it.
Held ==
  /\ stale => suspended = "unlocked"
  /\ suspended = "locked" => config # "none"

\* A session belongs to the tree it was made with.
SessionOfTree == connected /\ config # "none" => restored

\* The timer is never older than the connection, up to the time the broker gets.
TimerYounger == age <= connAge \/ connAge = RETAIN_TICKS

-----------------------------------------------------------------------------
\* What a step of lanLoop may make of lanStatus.
LEMMA GotoStates ==
  ASSUME NEW status \in Up \cup Down, Goto(status)
  PROVE  lanStatus' \in Up \cup Down /\ lanStatus' \in {status, "DO_REINIT"}
BY DEF Goto, Up, Down

\* What can happen to the four counts.
CountsStep ==
  /\ \/ age' \in {age, 0} /\ connAge' = connAge
     \/ age' = 0 /\ connAge' = 0
     \/ /\ age' = Later(age, NOT_CONFIGURED_TICKS)
        /\ connAge' = Later(connAge, RETAIN_TICKS)
  /\ broker' \in {1, broker, NextBroker}
  /\ \/ mqttErrorRate' \in {0, mqttErrorRate}
     \/ mqttErrorRate < MaxErrors /\ mqttErrorRate' = mqttErrorRate + 1

\* What can happen to the tree, to the session and to the code that waits.
Kept == UNCHANGED <<config, connected, restored, suspended, stale>>
Replaced ==
  /\ connected' = FALSE \/ config' = "none"
  /\ ~configLocked \/ config = "none" \/ suspended' = "none"
  /\ \/ suspended' = suspended /\ stale' = (stale \/ suspended # "none")
     \/ suspended' = "none" /\ stale' = FALSE
TreeStep ==
  \/ Kept
  \/ Replaced
  \/ UNCHANGED <<config, suspended, stale>> /\ (connected' = FALSE \/ restored' = TRUE)
  \/ /\ config # "none" /\ suspended = "none"
     /\ UNCHANGED <<config, connected, restored, stale>>
  \/ suspended' = "none" /\ stale' = FALSE /\ UNCHANGED <<config, connected, restored>>

LEMMA StepCounts == [Next]_vars => CountsStep
<1>. SUFFICES ASSUME [Next]_vars PROVE CountsStep
  OBVIOUS
<1>. USE DEF CountsStep, lan, net, tree, mqtt, item
<1>1. CASE UNCHANGED vars
  BY <1>1 DEF vars
<1>2. CASE LanStep
  BY <1>2 DEF LanStep, InitialState, HaveIp, LibsFetch, LibsNoFetch, Get, NoMqtt,
       AlreadyConnected, ConnectStart, Retained, LostBroker, DoReinit, Reinit, DoReconnect,
       Reconnect, DoGet, DoReadReConfig, ReadReConfig, AwaitingConfig, RebootLocked,
       LinkLost, ArmTimer, Applied, Cleaned
<1>3. CASE CallReturns
  BY <1>3 DEF CallReturns, DhcpDone, HttpDone, ConnectDone, ConnectFailed, ArmTimer,
       Applied, Cleaned
<1>4. CASE Tick
  BY <1>4 DEF Tick
<1>5. CASE CmdLoad \/ CmdGet \/ CmdUseHTTP \/ CanConfig
  BY <1>5 DEF CmdLoad, CmdGet, CmdUseHTTP, CanConfig, Applied, Cleaned
<1>6. CASE Suspend \/ Resume \/ LinkChange \/ Disconnected \/ Stabilise
  BY <1>6 DEF Suspend, Resume, LinkChange, Disconnected, Stabilise
<1>. QED
  BY <1>1, <1>2, <1>3, <1>4, <1>5, <1>6 DEF Next

LEMMA StepTree == [Next]_vars => TreeStep
<1>. SUFFICES ASSUME [Next]_vars PROVE TreeStep
  OBVIOUS
<1>. USE DEF TreeStep, Kept, lan, net, tree, mqtt, item
<1>1. CASE UNCHANGED vars
  BY <1>1 DEF vars
<1>2. CASE LanStep
  <2>1. CASE ReadReConfig
    BY <2>1 DEF ReadReConfig, Applied, Cleaned, Deleted, Replaced
  <2>2. CASE RebootLocked
    BY <2>2 DEF RebootLocked, Replaced
  <2>3. CASE DoReconnect \/ DoGet
    BY <2>3 DEF DoReconnect, DoGet
  <2>. QED
    BY <1>2, <2>1, <2>2, <2>3 DEF LanStep, InitialState, HaveIp, LibsFetch, LibsNoFetch, Get,
         NoMqtt, AlreadyConnected, ConnectStart, Retained, LostBroker, DoReinit, Reinit,
         Reconnect, DoReadReConfig, AwaitingConfig, LinkLost
<1>3. CASE CallReturns
  <2>1. CASE HttpDone
    BY <2>1 DEF HttpDone, Applied, Cleaned, Deleted, Replaced, MayClean
  <2>2. CASE DhcpDone \/ ConnectDone \/ ConnectFailed
    BY <2>2 DEF DhcpDone, ConnectDone, ConnectFailed
  <2>. QED
    BY <1>3, <2>1, <2>2 DEF CallReturns
<1>4. CASE Tick
  BY <1>4 DEF Tick
<1>5. CASE CmdLoad \/ CmdGet \/ CmdUseHTTP
  BY <1>5 DEF CmdLoad, CmdGet, CmdUseHTTP
<1>6. CASE CanConfig
  BY <1>6 DEF CanConfig, Applied, Cleaned, Deleted, Replaced
<1>7. CASE Suspend \/ Resume \/ LinkChange \/ Disconnected \/ Stabilise
  BY <1>7 DEF Suspend, Resume, LinkChange, Disconnected, Stabilise
<1>. QED
  BY <1>1, <1>2, <1>3, <1>4, <1>5, <1>6, <1>7 DEF Next

\* Whoever steps leaves lanStatus, call and the other states in their sets.
LEMMA StepStates ==
  ASSUME States, [Next]_vars
  PROVE  States'
<1>. USE DEF States, lan, net, tree, mqtt, item, Configs
<1>. DEFINE Known(s) == s \in Up \cup Down
<1>1. /\ Known(IpReady) /\ Known("HAVE_IP_ADDRESS") /\ Known("LIBS_INITIALIZED")
      /\ Known("RETAINING_COLLECTING") /\ Known("OPERATION") /\ Known("OPERATION_NO_MQTT")
      /\ Known("DO_REINIT") /\ Known("REINIT") /\ Known("INITIAL_STATE")
      /\ Known("DO_RECONNECT") /\ Known("RECONNECT") /\ Known("DO_GET") /\ Known("GET")
      /\ Known("DO_READ_RE_CONFIG") /\ Known("READ_RE_CONFIG")
      /\ Known("GET_IN_PROGRESS") /\ Known("AWAITING_CONFIG")
  BY DEF Up, Down, IpReady
<1>2. \A status : Known(status) /\ Goto(status) => Known(lanStatus')
  BY <1>1 DEF Goto
<1>3. Known(lanStatus')
  <2>. HIDE DEF Known
  <2>1. Known(lanStatus)
    BY DEF Known
  <2>2. CASE LanStep
    BY <1>1, <1>2, <2>1, <2>2 DEF LanStep, InitialState, HaveIp, LibsFetch, LibsNoFetch, Get,
         NoMqtt, AlreadyConnected, ConnectStart, Retained, LostBroker, DoReinit, Reinit,
         DoReconnect, Reconnect, DoGet, DoReadReConfig, ReadReConfig, AwaitingConfig,
         RebootLocked, LinkLost
  <2>3. CASE CallReturns
    BY <1>1, <1>2, <2>1, <2>3 DEF CallReturns, DhcpDone, HttpDone, ConnectDone, ConnectFailed
  <2>. QED
    BY <1>1, <2>1, <2>2, <2>3 DEF Next, vars, Tick, CmdLoad, CmdGet, CmdUseHTTP, CanConfig,
         Suspend, Resume, LinkChange, Disconnected, Stabilise
<1>4. call' \in {call, "none", "dhcp", "http", "connect"}
  BY DEF Next, vars, LanStep, InitialState, HaveIp, LibsFetch, LibsNoFetch, Get,
         NoMqtt, AlreadyConnected, ConnectStart, Retained, LostBroker, DoReinit, Reinit,
         DoReconnect, Reconnect, DoGet, DoReadReConfig, ReadReConfig, AwaitingConfig,
         RebootLocked, LinkLost, CallReturns, DhcpDone, HttpDone, ConnectDone, ConnectFailed,
         Tick, CmdLoad, CmdGet, CmdUseHTTP, CanConfig, Suspend, Resume, LinkChange,
         Disconnected, Stabilise
<1>5. config' \in Configs /\ stored' \in Configs \cup {"broken"}
  BY DEF Next, vars, LanStep, InitialState, HaveIp, LibsFetch, LibsNoFetch, Get,
         NoMqtt, AlreadyConnected, ConnectStart, Retained, LostBroker, DoReinit, Reinit,
         DoReconnect, Reconnect, DoGet, DoReadReConfig, ReadReConfig, AwaitingConfig,
         RebootLocked, LinkLost, CallReturns, DhcpDone, HttpDone, ConnectDone, ConnectFailed,
         Tick, CmdLoad, CmdGet, CmdUseHTTP, CanConfig, Suspend, Resume, LinkChange,
         Disconnected, Stabilise, Applied, Cleaned, Parsed
<1>6. suspended' \in {suspended, "none", "locked", "unlocked"}
  BY DEF Next, vars, LanStep, InitialState, HaveIp, LibsFetch, LibsNoFetch, Get,
         NoMqtt, AlreadyConnected, ConnectStart, Retained, LostBroker, DoReinit, Reinit,
         DoReconnect, Reconnect, DoGet, DoReadReConfig, ReadReConfig, AwaitingConfig,
         RebootLocked, LinkLost, CallReturns, DhcpDone, HttpDone, ConnectDone, ConnectFailed,
         Tick, CmdLoad, CmdGet, CmdUseHTTP, CanConfig, Suspend, Resume, LinkChange,
         Disconnected, Stabilise
<1>. QED
  BY <1>3, <1>4, <1>5, <1>6

LEMMA CountsKept ==
  ASSUME Counts, CountsStep
  PROVE  Counts'
BY BrokersAssumption, TicksAssumption DEF Counts, CountsStep, Later, NextBroker

LEMMA TimerKept ==
  ASSUME Counts, TimerYounger, CountsStep
  PROVE  TimerYounger'
BY TicksAssumption DEF Counts, TimerYounger, CountsStep, Later

\* A replaced tree was not held, and takes its session with it.
LEMMA TreeKept ==
  ASSUME States, Held, SessionOfTree, TreeStep
  PROVE  Held' /\ SessionOfTree'
<1>. USE DEF States, Held, SessionOfTree
<1>1. CASE Kept
  BY <1>1 DEF Kept
<1>2. CASE Replaced
  <2>1. suspended = "locked" => suspended' = "none" \/ config = "none"
    BY <1>2 DEF Replaced, configLocked
  <2>2. Held'
    BY <1>2, <2>1 DEF Replaced
  <2>3. SessionOfTree'
    BY <1>2 DEF Replaced
  <2>. QED
    BY <2>2, <2>3
<1>3. CASE UNCHANGED <<config, suspended, stale>> /\ (connected' = FALSE \/ restored' = TRUE)
  BY <1>3
<1>4. CASE config # "none" /\ suspended = "none" /\ UNCHANGED <<config, connected, restored, stale>>
  BY <1>4
<1>5. CASE suspended' = "none" /\ stale' = FALSE /\ UNCHANGED <<config, connected, restored>>
  BY <1>5
<1>. QED
  BY <1>1, <1>2, <1>3, <1>4, <1>5 DEF TreeStep

LEMMA FlagsKept ==
  ASSUME Flags, [Next]_vars
  PROVE  Flags'
<1>. USE DEF Flags, vars, lan, net, tree, mqtt, item
<1>1. /\ link' \in {link, TRUE, ~link} /\ useHTTP' \in {useHTTP, TRUE, ~useHTTP}
      /\ canIntact' = canIntact /\ stable' \in {stable, TRUE}
  BY DEF Next, LanStep, InitialState, HaveIp, LibsFetch, LibsNoFetch, Get,
         NoMqtt, AlreadyConnected, ConnectStart, Retained, LostBroker, DoReinit, Reinit,
         DoReconnect, Reconnect, DoGet, DoReadReConfig, ReadReConfig, AwaitingConfig,
         RebootLocked, LinkLost, CallReturns, DhcpDone, HttpDone, ConnectDone, ConnectFailed,
         Tick, CmdLoad, CmdGet, CmdUseHTTP, CanConfig, Suspend, Resume, LinkChange,
         Disconnected, Stabilise
<1>2. /\ configOk' \in {configOk, TRUE, FALSE} /\ connected' \in {connected, TRUE, FALSE}
      /\ restored' \in {restored, TRUE, FALSE}
      /\ stale' \in {stale, FALSE, stale \/ suspended # "none"}
  BY DEF Next, LanStep, InitialState, HaveIp, LibsFetch, LibsNoFetch, Get,
         NoMqtt, AlreadyConnected, ConnectStart, Retained, LostBroker, DoReinit, Reinit,
         DoReconnect, Reconnect, DoGet, DoReadReConfig, ReadReConfig, AwaitingConfig,
         RebootLocked, LinkLost, CallReturns, DhcpDone, HttpDone, ConnectDone, ConnectFailed,
         Tick, CmdLoad, CmdGet, CmdUseHTTP, CanConfig, Suspend, Resume, LinkChange,
         Disconnected, Stabilise, Applied, Cleaned, Deleted
<1>3. link' \in BOOLEAN /\ useHTTP' \in BOOLEAN /\ stable' \in BOOLEAN
  BY Zenon, <1>1
<1>4. canIntact' \in BOOLEAN
  BY Zenon, <1>1
<1>5. configOk' \in BOOLEAN /\ connected' \in BOOLEAN /\ restored' \in BOOLEAN
  BY Zenon, <1>2
<1>6. stale' \in BOOLEAN
  BY Zenon, <1>2
<1>. QED
  BY Zenon, <1>3, <1>4, <1>5, <1>6

-----------------------------------------------------------------------------
IInv == TypeOK /\ Held /\ SessionOfTree /\ TimerYounger

LEMMA IInvInit == Init => IInv
<1>. SUFFICES ASSUME Init PROVE IInv
  OBVIOUS
<1>1. Counts
  BY BrokersAssumption, TicksAssumption DEF Init, Counts
<1>2. States
  BY DEF Init, States, Up, Down, Configs, Parsed
<1>3. Flags
  BY DEF Init, Flags
<1>4. TypeOK
  BY <1>1, <1>2, <1>3, Halves
<1>5. Held /\ SessionOfTree /\ TimerYounger
  BY DEF Init, Held, SessionOfTree, TimerYounger
<1>. QED
  BY <1>4, <1>5 DEF IInv

LEMMA IInvStep == IInv /\ [Next]_vars => IInv'
<1>. SUFFICES ASSUME IInv, [Next]_vars PROVE IInv'
  OBVIOUS
<1>1. Counts /\ States /\ Flags /\ Held /\ SessionOfTree /\ TimerYounger
  BY Halves DEF IInv
<1>2. Counts' /\ TimerYounger'
  BY <1>1, StepCounts, CountsKept, TimerKept
<1>3. States' /\ Flags'
  BY <1>1, StepStates, FlagsKept
<1>4. Held' /\ SessionOfTree'
  BY <1>1, StepTree, TreeKept
<1>5. TypeOK'
  BY <1>2, <1>3 DEF TypeOK, Counts, States, Flags
<1>. QED
  BY <1>2, <1>4, <1>5 DEF IInv

LEMMA IInvHolds == Spec => []IInv
BY IInvInit, IInvStep, PTL DEF Spec

\* lanLoop's state, its calls, the list of brokers and the timers stay within their bounds.
THEOREM TypeCorrect == Spec => []TypeOK
<1>1. IInv => TypeOK
  BY DEF IInv
<1>. QED
  BY <1>1, IInvHolds, PTL

\* main.cpp:188, :688, :847, :1615: whoever holds configLocked while it waits for Modbus
\* comes back to the tree it left, whatever the portal, the flash or a neighbour sends.
THEOREM LockedTreeAliveHolds == Spec => []LockedTreeAlive
<1>1. IInv => LockedTreeAlive
  BY DEF IInv, Held, LockedTreeAlive, SuspendedTreeAlive
<1>. QED
  BY <1>1, IInvHolds, PTL

\* main.cpp:1419, :1644: commands are taken only with items that had the chance to get their
\* states back: applyConfig drops the session of the tree before.
THEOREM ServedTreeRestoredHolds == Spec => []ServedTreeRestored
<1>1. IInv => ServedTreeRestored
  BY DEF IInv, SessionOfTree, ServedTreeRestored
<1>. QED
  BY <1>1, IInvHolds, PTL

\* OPERATION is entered from RETAINING_COLLECTING only.
LEMMA ToOperation ==
  ASSUME [Next]_vars, lanStatus # "OPERATION", lanStatus' = "OPERATION"
  PROVE  Retained
<1>. USE DEF lan, net, tree, mqtt, item, Goto, IpReady, Down
<1>1. ~UNCHANGED vars
  BY DEF vars
<1>2. CASE LanStep
  BY <1>2 DEF LanStep, InitialState, HaveIp, LibsFetch, LibsNoFetch, Get, NoMqtt,
       AlreadyConnected, ConnectStart, LostBroker, DoReinit, Reinit, DoReconnect,
       Reconnect, DoGet, DoReadReConfig, ReadReConfig, AwaitingConfig, RebootLocked, LinkLost
<1>3. ~CallReturns
  BY DEF CallReturns, DhcpDone, HttpDone, ConnectDone, ConnectFailed
<1>4. ~(Tick \/ CmdLoad \/ CmdGet \/ CmdUseHTTP \/ CanConfig)
  BY DEF Tick, CmdLoad, CmdGet, CmdUseHTTP, CanConfig
<1>5. ~(Suspend \/ Resume \/ LinkChange \/ Disconnected \/ Stabilise)
  BY DEF Suspend, Resume, LinkChange, Disconnected, Stabilise
<1>. QED
  BY <1>1, <1>2, <1>3, <1>4, <1>5 DEF Next

\* main.cpp:732: the broker had its 8 seconds since the connection was made, however the
\* collection of retained states was interrupted.
THEOREM RetainedInTimeHolds == Spec => RetainedInTime
<1>1. ASSUME IInv, [Next]_vars
      PROVE  [lanStatus # "OPERATION" /\ lanStatus' = "OPERATION" => connAge >= RETAIN_TICKS]_vars
  <2>1. CASE lanStatus # "OPERATION" /\ lanStatus' = "OPERATION"
    <3>1. age >= RETAIN_TICKS
      BY <1>1, <2>1, ToOperation DEF Retained, Elapsed
    <3>2. Counts /\ TimerYounger
      BY <1>1, Halves DEF IInv
    <3>3. connAge >= RETAIN_TICKS
      BY <3>1, <3>2, TicksAssumption DEF Counts, TimerYounger
    <3>. QED
      BY <3>3
  <2>. QED
    BY <2>1
<1>. QED
  BY <1>1, IInvHolds, PTL DEF Spec, RetainedInTime
=============================================================================
