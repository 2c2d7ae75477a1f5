-------------------------------- MODULE CanBus --------------------------------
(***************************************************************************)
(* canDriver: the controllers on a CAN bus.  One of them, the holder, has the   *)
(* configurations of the others in its own; they ask it by their MAC for an    *)
(* address and read their configuration if its CRC is not that of the one they  *)
(* have.  Items take its commands and send their statuses, which the holder     *)
(* stores in the configuration it has for them.                                 *)
(*                                                                         *)
(* A configuration is an address, a version and the state stored in it, and so  *)
(* is its CRC.  Its transfer is one step here, and may fail; CanStream has its  *)
(* frames.                                                                 *)
(***************************************************************************)
EXTENDS Integers, Sequences

CONSTANTS
  NODES,        \* controllers are 1 .. NODES, by MAC; the holder is 0
  Held,         \* what canRemoteConfigObj of the holder may have for them
  Flash,        \* what they may have in flash
  Depth,        \* frames that wait for a controller
  Events,       \* what happens: "reload", "restart", "change", "command", "fail", "late"
  Lost          \* types of frames that may be lost

Nodes  == 1 .. NODES
Values == {0, 1}
Unset  == -1    \* an item that was never commanded
NoConf == [addr |-> 0, ver |-> 0, val |-> Unset]
Conf   == [addr : Nat, ver : Nat, val : Values \cup {Unset}]

\* What the constants have to be: configurations.
Configured ==
  /\ NODES \in Nat /\ Depth \in Nat
  /\ Flash \subseteq Conf /\ Held \subseteq [Nodes -> Conf]

VARIABLES
  can,          \* the controllers: state, controllerId, the tree, confCRC, flash, responseTimer
  held,         \* canRemoteConfigObj of the holder, by MAC
  frames        \* what was received and not read, by the holder and by each node

vars == <<can, held, frames>>

Versions == {NoConf} \cup Flash \cup UNION {{h[n] : n \in Nodes} : h \in Held}
Confs == {NoConf} \cup {[c EXCEPT !.val = v] : c \in Versions, v \in Values \cup {Unset}}
Addrs == {c.addr : c \in Versions}
ToHolder == [type : {"lookup"}, mac : Nodes] \cup [type : {"status"}, addr : Addrs, val : Values]
ToNode ==
  [type : {"id"}, addr : Addrs, crc : Confs] \cup [type : {"command"}, addr : Addrs, val : Values]
Frame == ToHolder \cup ToNode

TypeOK ==
  /\ can \in [Nodes -> [state : {"Unknown", "MACLookup", "Error", "ReadConfig", "Idle", "ConfigLoaded"},
                        id : Addrs, conf : Confs, crc : Confs, flash : Confs, age : 0 .. 2]]
  /\ held \in [Nodes -> Confs]
  /\ frames \in [0 .. NODES -> Seq(Frame)]
  /\ \A n \in 0 .. NODES : frames[n] \in Seq(IF n = 0 THEN ToHolder ELSE ToNode)

\* setup(): begin with the configuration in flash; getMyId is its can.addr.
Booted(flash) ==
  [state |-> "Unknown", id |-> flash.addr, conf |-> flash, crc |-> flash, flash |-> flash, age |-> 0]

Init ==
  /\ held \in Held
  /\ can \in [Nodes -> {Booted(f) : f \in Flash}]
  /\ frames = [n \in 0 .. NODES |-> <<>>]

\* Statuses come in order: those of an address have all been stored.
StatusesIn(s, id) == {i \in DOMAIN s : s[i].type = "status" /\ s[i].addr = id}
Reported(id) == StatusesIn(frames[0], id) = {}

\* A restart takes longer than the holder takes to read what was sent before.
Restart(n) ==
  /\ Len(frames[0]) < Depth /\ Reported(can[n].id)
  /\ can' = [can EXCEPT ![n] = Booted(@.flash)] /\ frames' = [frames EXCEPT ![n] = <<>>]
  /\ UNCHANGED held

\* The holder gets another configuration, and begin is called.
Reload == held' \in Held \ {held} /\ UNCHANGED <<can, frames>>

Lose(n) ==
  /\ frames[n] # <<>> /\ Head(frames[n]).type \in Lost
  /\ frames' = [frames EXCEPT ![n] = Tail(@)]
  /\ UNCHANGED <<can, held>>

Sent(q, to, f) == [q EXCEPT ![to] = Append(@, f)]
Rest(n) == [frames EXCEPT ![n] = IF @ = <<>> THEN @ ELSE Tail(@)]

-----------------------------------------------------------------------------
(* A node.                                                                 *)

\* The answer to a lookup, if it is still waited for.
Looked(nd, f) ==
  IF nd.state # "MACLookup" THEN nd
  ELSE IF nd.conf # NoConf /\ nd.crc = f.crc THEN [nd EXCEPT !.state = "Idle"]
  ELSE [nd EXCEPT !.state = "ReadConfig", !.id = f.addr]

Obeys(nd, f) == f.type = "command" /\ f.addr \in {0, nd.id} /\ nd.conf # NoConf

\* processPacket, of a node; commands go to Item::Ctrl, which stores them.
Processed(nd, f) ==
  IF f.type = "id" THEN Looked(nd, f)
  ELSE IF Obeys(nd, f) THEN [nd EXCEPT !.conf.val = f.val] ELSE nd

\* Mutant of getConfbyID: the address is not compared.
AnyConf(a) == {n \in Nodes : held[n] # NoConf}
getConfbyID(a) == {n \in Nodes : held[n] # NoConf /\ held[n].addr = a}

\* Mutant of Transferred: the configuration is not saved.
Unsaved(nd) ==
  LET c == held[CHOOSE n \in getConfbyID(nd.id) : TRUE]
  IN [nd EXCEPT !.state = "Idle", !.conf = c, !.crc = c, !.id = c.addr]

\* The holder's configuration with an address is read, replaces the tree and is saved; or
\* nothing comes, or half of a document, which has replaced the tree.
Comes(nd) == getConfbyID(nd.id) # {}
Transferred(nd) ==
  LET c == held[CHOOSE n \in getConfbyID(nd.id) : TRUE]
  IN [nd EXCEPT !.state = "Idle", !.conf = c, !.crc = c, !.flash = c, !.id = c.addr]
Transfer(nd, how) ==
  CASE how = "half" -> [nd EXCEPT !.state = "Error", !.conf = NoConf]
    [] how = "all" /\ Comes(nd) -> Transferred(nd)
    [] OTHER -> [nd EXCEPT !.state = "Error"]

\* Mutant of Moved: the time of an Error begins anew with every poll.
MovedLate(nd, how) ==
  CASE nd.state = "MACLookup" /\ nd.age = 1 -> [nd EXCEPT !.state = "Error", !.age = 0]
    [] nd.state = "Error" /\ nd.conf # NoConf -> [nd EXCEPT !.state = "ConfigLoaded"]
    [] nd.state = "Error" /\ nd.conf = NoConf -> [nd EXCEPT !.age = 0]
    [] nd.state = "ReadConfig" /\ how # "locked" -> Transfer(nd, how)
    [] OTHER -> nd

\* The states of Poll; where there is a configuration nothing is looked up again.  While the
\* configuration is in use (configLocked) none is read.
Moved(nd, how) ==
  CASE nd.state = "MACLookup" /\ nd.age = 1 -> [nd EXCEPT !.state = "Error", !.age = 0]
    [] nd.state = "Error" /\ nd.conf # NoConf -> [nd EXCEPT !.state = "ConfigLoaded"]
    [] nd.state = "ReadConfig" /\ how # "locked" -> Transfer(nd, how)
    [] OTHER -> nd

\* lookupMAC
Called(n, nd) == can' = [can EXCEPT ![n] = [nd EXCEPT !.state = "MACLookup", !.age = 0]]
Call(n) == [type |-> "lookup", mac |-> n]

\* At the end of setup().
Setup(n) ==
  /\ can[n].state = "Unknown"
  /\ Called(n, can[n]) /\ frames' = Sent(frames, 0, Call(n))
  /\ UNCHANGED held

\* What is read is processed, then the state machine moves; 10 s after an error lookupMAC is
\* repeated.  An item that was commanded sends its status.  The holder serves in order: the
\* request for the configuration comes after the statuses, one of the same pass included, which
\* therefore reads the configuration in a step of its own.
Received(n) == IF frames[n] = <<>> THEN [type |-> "none"] ELSE Head(frames[n])
LooksAgain(nd) == nd.state = "Error" /\ nd.conf = NoConf /\ nd.age = 2
Answer(n, nd) ==
  IF Obeys(can[n], Received(n)) /\ nd.id # 0
    THEN Sent(Rest(n), 0, [type |-> "status", addr |-> nd.id, val |-> nd.conf.val])
    ELSE Rest(n)
Poll(n, how) ==
  LET read == Processed(can[n], Received(n))
  IN /\ can[n].state # "Unknown"
     /\ read.state = "ReadConfig" /\ how = "all" => Reported(read.id)
     /\ IF LooksAgain(read) THEN Called(n, read) /\ frames' = Sent(Rest(n), 0, Call(n))
        ELSE /\ can' = [can EXCEPT ![n] =
                          Moved(read, IF Obeys(can[n], Received(n)) THEN "locked" ELSE how)]
             /\ frames' = Answer(n, read)
     /\ UNCHANGED held

Runs(n) == Setup(n) \/ Poll(n, "all")
Fails(n) ==
  LET read == Processed(can[n], Received(n))
  IN read.state = "ReadConfig" /\ Comes(read) /\ \E how \in {"none", "half"} : Poll(n, how)

\* sendStatus: an item of a node changes by itself.
Change(n) ==
  /\ can[n].conf # NoConf /\ can[n].state # "Unknown" /\ Len(frames[0]) < Depth
  /\ \E v \in Values :
       /\ can' = [can EXCEPT ![n].conf.val = v]
       /\ frames' = IF can[n].id = 0 THEN frames
                    ELSE Sent(frames, 0, [type |-> "status", addr |-> can[n].id, val |-> v])
  /\ UNCHANGED held

\* responseTimer: 1 s and 10 s.  An answer takes less than the second, but may be late.
Underway(n) == frames[n] # <<>> \/ \E i \in DOMAIN frames[0] : frames[0][i] = Call(n)
Waits(n) == can' = [can EXCEPT ![n].age = @ + 1] /\ UNCHANGED <<held, frames>>
Age(n) ==
  /\ \/ can[n].state = "MACLookup" /\ can[n].age = 0 /\ ~Underway(n)
     \/ can[n].state = "Error" /\ can[n].age < 2
  /\ Waits(n)
Late(n) ==
  /\ can[n].state = "MACLookup" /\ can[n].age = 0 /\ Underway(n) /\ Len(frames[0]) <= Depth
  /\ Waits(n)

-----------------------------------------------------------------------------
(* The holder.                                                             *)

\* Mutant of Mirrored: a status is stored for the first controller of the list.
MirroredFirst(f) == [held EXCEPT ![1].val = f.val]

\* A status is stored in the configuration with that address, and not sent to the bus again.
Mirrored(f) ==
  [n \in Nodes |-> IF n \in getConfbyID(f.addr) THEN [held[n] EXCEPT !.val = f.val] ELSE held[n]]

\* processPacket, of the holder: statuses, and sendRemoteID.
PollHolder ==
  /\ frames[0] # <<>>
  /\ LET f == Head(frames[0])
     IN IF f.type = "status" THEN held' = Mirrored(f) /\ frames' = Rest(0)
        ELSE /\ UNCHANGED held
             /\ frames' = IF held[f.mac] = NoConf THEN Rest(0)
                          ELSE Sent(Rest(0), f.mac, [type |-> "id", addr |-> held[f.mac].addr, crc |-> held[f.mac]])
  /\ UNCHANGED can

\* Item::remoteCtrl: nothing is stored until the status comes.
remoteCtrl(n) ==
  /\ held[n] # NoConf /\ \A m \in 0 .. NODES : Len(frames[m]) < Depth
  /\ \E v \in Values :
       LET f == [type |-> "command", addr |-> held[n].addr, val |-> v]
       IN frames' = [m \in 0 .. NODES |-> IF m \in Nodes THEN Append(frames[m], f) ELSE frames[m]]
  /\ UNCHANGED <<can, held>>

Outside ==
  \/ "reload" \in Events /\ Reload
  \/ \E n \in Nodes :
       \/ "restart" \in Events /\ Restart(n)
       \/ "change" \in Events /\ Change(n)
       \/ "command" \in Events /\ remoteCtrl(n)
       \/ "fail" \in Events /\ Fails(n)
       \/ "late" \in Events /\ Late(n)
       \/ Lose(n)

Next == Outside \/ Lose(0) \/ PollHolder \/ \E n \in Nodes : Runs(n) \/ Poll(n, "locked") \/ Age(n)

Spec == Init /\ [][Next]_vars
FairSpec == Spec /\ WF_vars(PollHolder) /\ \A n \in Nodes : WF_vars(Runs(n)) /\ WF_vars(Age(n))

-----------------------------------------------------------------------------
(***************************************************************************)
(* Properties                                                              *)
(***************************************************************************)

\* What a controller runs is what it would have after a restart, but for the state of its item.
Same(c, d) == c.addr = d.addr /\ c.ver = d.ver
SameAfterRestart == \A n \in Nodes : can[n].conf # NoConf => Same(can[n].conf, can[n].flash)

\* No two controllers speak under one address, as long as the configurations of the holder, and
\* what the controllers had of them before, have different ones.
OneAddressEach == \A m, n \in Nodes : can[m].id = can[n].id => m = n \/ can[m].id = 0

\* Of a controller whose lookup was answered, the holder has the state of the item, or will
\* have it when it has read the statuses on their way, also after restarts: as long as the
\* holder has one configuration, whose addresses differ, and no status is lost.
Tells(s, id, had, val) ==
  LET told == StatusesIn(s, id)
  IN IF told = {} THEN had = val ELSE \E i \in told : s[i].val = val /\ \A j \in told : j <= i
ItemsTold ==
  \A n \in Nodes :
    can[n].state = "Idle" => Tells(frames[0], held[n].addr, held[n].val, can[n].conf.val)

\* documentation/integrations/can_lightspot.md: a controller gets its configuration from the
\* one that holds it.  When nothing is lost, changed or restarted any more, every controller
\* that the holder knows runs a configuration, under the address in it.
Quiet == ~(Outside \/ Lose(0))
Running(n) ==
  held[n] # NoConf =>
    /\ can[n].conf # NoConf /\ can[n].id = can[n].conf.addr
    /\ can[n].state \in {"Idle", "ConfigLoaded"}
Served == \A n \in Nodes : Running(n)
BusSettles == <>[][Quiet]_vars => <>[]Served

\* And if its lookup was answered, the state that the holder has for its item is true, also
\* after a restart, when that state comes back with the configuration.
Believed == \A n \in Nodes : Running(n) /\ (held[n] # NoConf => held[n].val = can[n].conf.val)
BusTells == <>[][Quiet]_vars => <>[]Believed
=============================================================================
