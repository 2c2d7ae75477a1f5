------------------------------- MODULE Inputs -------------------------------
(***************************************************************************)
(* One contact input (a button or a switch): debouncing, the states IS_* that *)
(* tell single, double, triple and long presses apart, and the commands they  *)
(* execute.  inputLoop polls the contact from loop_main; while loop_main is   *)
(* busy, ethernetIdle polls it as well, and so does a timer interrupt in      *)
(* builds with TIMER_INT.  Such a poll (CHECK_INTERRUPT) executes nothing: it *)
(* leaves a request for the next pass.  Either one sees inputLoopBusy while   *)
(* the other polls, so that a poll is one step.                              *)
(*                                                                         *)
(* Commands are abstracted to what a lamp would make of them: scmd and scmd2  *)
(* turn it on, rcmd turns it off.  Time is counted in ticks; timestamp16 is   *)
(* kept as its distance from millis(), modulo CLOCK as in the code.          *)
(***************************************************************************)
EXTENDS Integers

CONSTANTS
  Configs,      \* configurations of an input: the sets of keys it may have
  ATTEMPTS,     \* SAME_STATE_ATTEMPTS
  T_RPT_PULSE, T_RPT, T_IDLE, T_LONG, T_REPEAT,
  CLOCK,        \* 2^16
  MaxLag        \* ticks a pass of loop_main may take

Keys == {"item", "repeat", "scmd", "rcmd", "lcmd", "rpcmd", "click",
         "scmd2", "lcmd2", "rpcmd2", "dclick", "scmd3", "lcmd3", "rpcmd3", "tclick"}

ASSUME ConfigsAssumption == \A c \in Configs : c \subseteq Keys
ASSUME AttemptsAssumption == ATTEMPTS \in Nat
ASSUME TimesAssumption ==
  /\ T_RPT_PULSE \in Nat /\ T_RPT \in Nat /\ T_IDLE \in Nat /\ T_LONG \in Nat
  /\ T_REPEAT \in Nat /\ CLOCK \in Nat \ {0} /\ MaxLag \in Nat

VARIABLES
  keys,         \* the keys of the input; never changes
  interrupts,   \* are there polls with CHECK_INTERRUPT: is there a network that
                \* loop_main waits for, or TIMER_INT?  Never changes
  contact,      \* is the contact closed?
  store,        \* inStore: what is kept of the input between two polls
  lamp,         \* history: what the commands of the input have made of the lamp,
                \* and what its legacy action has made of it
  lag,          \* ticks since loop_main polled
  steady        \* from now on nobody touches the contact

vars == <<keys, interrupts, contact, store, lamp, lag, steady>>

States == {"IDLE", "PRESSED", "RELEASED", "LONG", "REPEAT", "WAITPRESS", "WAITRELEASE",
           "PRESSED2", "RELEASED2", "LONG2", "REPEAT2", "PRESSED3", "LONG3", "REPEAT3"}

Clicks == 1 .. 3

\* inStore, with the number of presses seen since IDLE as history; a long press
\* counts as the first of those that follow it, and a long third press that
\* falls back to the second as the second.
Stores == [state : States, reqState : States \cup {"NOP"}, delayedState : BOOLEAN,
           lastValue : BOOLEAN, bounce : 0 .. ATTEMPTS, elapsed : 0 .. CLOCK - 1,
           toggle : [Clicks -> BOOLEAN], presses : 0 .. 4]

\* lit: by scmd, scmd2 and rcmd; told: by onContactChanged; used: the half of
\* scmd that was executed last; alternating: never the same one twice in a row;
\* miscounted: a click, dclick or tclick after some other number of presses.
Lamps == [lit : BOOLEAN, told : BOOLEAN, used : {"none", "icmd", "irev"}, alternating : BOOLEAN,
          miscounted : BOOLEAN]

TypeOK ==
  /\ keys \in Configs /\ interrupts \in BOOLEAN
  /\ contact \in BOOLEAN
  /\ store \in Stores /\ lamp \in Lamps
  /\ lag \in 0 .. MaxLag
  /\ steady \in BOOLEAN

\* Input::setup: everything is cleared; so does a new configuration.
Init ==
  /\ keys \in Configs /\ interrupts \in BOOLEAN
  /\ contact \in BOOLEAN
  /\ store = [state |-> "IDLE", reqState |-> "IDLE", delayedState |-> FALSE,
              lastValue |-> FALSE, bounce |-> 0, elapsed |-> 0,
              toggle |-> [k \in Clicks |-> FALSE], presses |-> 0]
  /\ lamp = [lit |-> FALSE, told |-> FALSE, used |-> "none", alternating |-> TRUE,
             miscounted |-> FALSE]
  /\ lag = 0
  /\ steady = FALSE

-----------------------------------------------------------------------------
(* changeState.  An input is passed from one operator to the next as a record *)
(* s of its store and its lamp.                                              *)

Second == {"scmd2", "lcmd2", "rpcmd2", "dclick"} \cap keys

\* The key whose command the change from one state to another executes.
Key(from, to, value) ==
  CASE to = "IDLE" ->
         (CASE from = "RELEASED"  -> "click"
            [] from = "RELEASED2" -> "dclick"
            [] from = "PRESSED3"  -> "tclick"
            [] from = "WAITPRESS" -> "none"
            [] OTHER              -> "rcmd")
    [] to = "PRESSED"  -> "scmd"
    [] to = "PRESSED2" -> "scmd2"
    [] to = "PRESSED3" -> "scmd3"
    [] to \in {"RELEASED", "WAITPRESS", "RELEASED2"} -> "rcmd"
    [] to = "LONG"  -> "lcmd"   [] to = "REPEAT"  -> "rpcmd"
    [] to = "LONG2" -> "lcmd2"  [] to = "REPEAT2" -> "rpcmd2"
    [] to = "LONG3" -> "lcmd3"  [] to = "REPEAT3" -> "rpcmd3"
    [] to = "NOP"   -> IF value THEN "scmd" ELSE "rcmd"
    [] OTHER        -> "none"

\* Without its key, a first press or a release has a default command.  (item
\* stands for emit too, which has the same part here.)
HasCommand(key, to) ==
  \/ key \in keys
  \/ "item" \in keys /\ to \in {"PRESSED", "RELEASED", "WAITPRESS", "RELEASED2"}

\* Mutant of Toggled: the toggle of every press is that of the first.
ToggledFirst(toggle, to) ==
  IF to \in {"PRESSED", "PRESSED2", "PRESSED3"} THEN [toggle EXCEPT ![1] = ~@] ELSE toggle

\* The presses alternate between two commands each.
Toggled(toggle, to) ==
  CASE to = "PRESSED"  -> [toggle EXCEPT ![1] = ~@]
    [] to = "PRESSED2" -> [toggle EXCEPT ![2] = ~@]
    [] to = "PRESSED3" -> [toggle EXCEPT ![3] = ~@]
    [] OTHER           -> toggle

Miscounted(key, presses) ==
  \/ key = "click" /\ presses > 1 /\ Second # {}
  \/ key = "dclick" /\ presses # 2
  \/ key = "tclick" /\ presses # 3

\* The half of a command that executeCommand takes.
Half(toggle) == IF toggle THEN "irev" ELSE "icmd"

\* executeCommand, which does nothing without a key of the configuration.
Executed(l, key, to, st) ==
  LET press == to = "PRESSED"
  IN IF key \notin keys THEN l
     ELSE [l EXCEPT
            !.lit = IF key \in {"scmd", "scmd2"} THEN TRUE ELSE key # "rcmd" /\ @,
            !.used = IF press THEN Half(st.toggle[1]) ELSE @,
            !.alternating = @ /\ (press => Half(st.toggle[1]) # l.used),
            !.miscounted = @ \/ Miscounted(key, st.presses)]

Moved(st, to) ==
  [st EXCEPT !.state = IF to = "NOP" THEN @ ELSE to,
             !.delayedState = FALSE,
             !.presses = CASE to = "IDLE" -> 0
                            [] to = "WAITPRESS" -> 1
                            [] st.state = "PRESSED3" /\ to = "PRESSED2" -> 2
                            [] OTHER -> @]

\* changeState for a state other than IS_REQSTATE, when none is requested: with
\* the legacy action and the command, or, in an interrupt, with a request for
\* the next pass (but a change that executes nothing is made at once).
ChangeState(s, to, interrupt, value, onTimer) ==
  LET st      == s.store
      key     == Key(st.state, to, value)
      toggled == [st EXCEPT !.toggle = Toggled(@, to)]
      legacy  == ~onTimer \/ to = "NOP"
      begun   == IF legacy /\ interrupt
                   THEN [toggled EXCEPT !.delayedState = TRUE, !.lastValue = value,
                                        !.reqState = to]
                 ELSE IF legacy THEN [toggled EXCEPT !.delayedState = FALSE] ELSE toggled
      told    == IF legacy /\ ~interrupt THEN [s.lamp EXCEPT !.told = value] ELSE s.lamp
  IN IF to = "NOP" /\ ~onTimer THEN [store |-> begun, lamp |-> told]
     ELSE IF ~HasCommand(key, to) THEN [store |-> Moved(begun, to), lamp |-> told]
     ELSE IF interrupt THEN [store |-> begun, lamp |-> told]
     ELSE [store |-> Moved(begun, to),
           lamp |-> Executed(told, key, to, st)]

\* Mutant of Requested: an interrupt's request is forgotten when the contact is
\* not found as the interrupt left it.
RequestedIfSame(s) ==
  IF ~s.store.delayedState THEN s
  ELSE IF s.store.lastValue # contact THEN [s EXCEPT !.store.delayedState = FALSE]
  ELSE ChangeState(s, s.store.reqState, FALSE, s.store.lastValue, FALSE)

\* changeState(IS_REQSTATE): what an interrupt has left to do.
Requested(s) ==
  IF ~s.store.delayedState THEN s
  ELSE IF s.store.state = s.store.reqState THEN [s EXCEPT !.store.delayedState = FALSE]
  ELSE ChangeState(s, s.store.reqState, FALSE, s.store.lastValue, FALSE)

-----------------------------------------------------------------------------
(* contactPoll                                                             *)

\* The state a timer leads to, or the same state.
TimerGoal(st) ==
  LET over(t) == st.elapsed >= t
  IN CASE st.state = "PRESSED" /\ over(T_LONG) ->
            IF {"lcmd", "rpcmd"} \cap keys = {} THEN "WAITRELEASE" ELSE "LONG"
       [] st.state = "PRESSED2" /\ over(T_LONG) ->
            IF {"lcmd2", "rpcmd2"} \cap keys = {} THEN "WAITRELEASE" ELSE "LONG2"
       [] st.state = "PRESSED3" /\ over(T_LONG) ->
            IF {"lcmd3", "rpcmd3"} \cap keys # {} THEN "LONG3"
            ELSE IF "scmd3" \in keys THEN "WAITRELEASE" ELSE "PRESSED2"
       [] st.state = "LONG"  /\ over(T_RPT) -> "REPEAT"
       [] st.state = "LONG2" /\ over(T_RPT) -> "REPEAT2"
       [] st.state = "LONG3" /\ over(T_RPT) -> "REPEAT3"
       [] st.state \in {"REPEAT", "REPEAT2", "REPEAT3"} /\ over(T_RPT_PULSE) -> st.state
       [] st.state \in {"RELEASED", "RELEASED2", "WAITPRESS"} /\ over(T_IDLE) -> "IDLE"
       [] OTHER -> "none"

Repeats == {"REPEAT", "REPEAT2", "REPEAT3"}

\* Transitions by time.  Repeats count the time anew.
TimerStep(s) ==
  LET goal == TimerGoal(s.store)
      t    == ChangeState(s, goal, FALSE, contact, TRUE)
  IN IF goal = "none" THEN s
     ELSE IF goal \in Repeats THEN [t EXCEPT !.store.elapsed = 0]
     ELSE t

\* Mutant of ContactGoal: a release during a long press is overlooked.
ContactGoalLong(state, value) ==
  IF value
  THEN CASE state = "IDLE" -> "PRESSED"
         [] state \in {"RELEASED", "WAITPRESS"} -> IF Second = {} THEN "PRESSED" ELSE "PRESSED2"
         [] state = "RELEASED2" -> "PRESSED3"
         [] OTHER -> "NOP"
  ELSE CASE state = "PRESSED" -> "RELEASED"
         [] state = "WAITRELEASE" -> "WAITPRESS"
         [] state = "PRESSED2" -> IF Second = {} THEN "IDLE" ELSE "RELEASED2"
         [] state \in {"LONG2", "REPEAT2", "LONG3", "REPEAT3", "PRESSED3"} -> "IDLE"
         [] OTHER -> "NOP"

\* The state a confirmed value of the contact leads to.
ContactGoal(state, value) ==
  IF value
  THEN CASE state = "IDLE" -> "PRESSED"
         [] state \in {"RELEASED", "WAITPRESS"} -> IF Second = {} THEN "PRESSED" ELSE "PRESSED2"
         [] state = "RELEASED2" -> "PRESSED3"
         [] OTHER -> "NOP"
  ELSE CASE state = "PRESSED" -> "RELEASED"
         [] state \in {"LONG", "REPEAT", "WAITRELEASE"} -> "WAITPRESS"
         [] state = "PRESSED2" -> IF Second = {} THEN "IDLE" ELSE "RELEASED2"
         [] state \in {"LONG2", "REPEAT2", "LONG3", "REPEAT3", "PRESSED3"} -> "IDLE"
         [] OTHER -> "NOP"

\* Mutant of Confirmed: a waiting request is replaced by a new one.
ConfirmedAnyway(s, interrupt) ==
  LET st   == s.store
      goal == ContactGoal(st.state, contact)
      seen == [s EXCEPT !.store.presses =
                 IF contact /\ ~st.lastValue /\ @ < 4 THEN @ + 1 ELSE @]
      t    == ChangeState(seen, goal, interrupt, contact,
                          goal = "NOP" /\ contact = st.lastValue)
  IN [t EXCEPT !.store.elapsed = 0, !.store.lastValue = contact]

\* A value that has been confirmed often enough.  While a request is waiting,
\* nothing but the time stamp changes, and the value is news at the next poll.
Confirmed(s, interrupt) ==
  LET st   == s.store
      goal == ContactGoal(st.state, contact)
      seen == [s EXCEPT !.store.presses =
                 IF contact /\ ~st.lastValue /\ @ < 4 THEN @ + 1 ELSE @]
      t    == ChangeState(seen, goal, interrupt, contact,
                          goal = "NOP" /\ contact = st.lastValue)
  IN IF st.delayedState THEN [s EXCEPT !.store.elapsed = 0]
     ELSE [t EXCEPT !.store.elapsed = 0, !.store.lastValue = contact]

\* Debouncing.  With the key repeat, an old value is taken for a new one.
Sampled(s, interrupt) ==
  LET st    == s.store
      again == "repeat" \in keys /\ st.elapsed >= T_REPEAT
  IN IF contact = st.lastValue /\ ~again THEN [s EXCEPT !.store.bounce = ATTEMPTS]
     ELSE IF st.bounce > 0 THEN [s EXCEPT !.store.bounce = @ - 1]
     ELSE Confirmed(s, interrupt)

Input == [store |-> store, lamp |-> lamp]

\* inputLoop(CHECK_INPUT), from loop_main.
PollLoop ==
  LET s == Sampled(TimerStep(Requested(Input)), FALSE)
  IN /\ store' = s.store /\ lamp' = s.lamp
     /\ lag' = 0
     /\ UNCHANGED <<keys, interrupts, contact, steady>>

\* inputLoop(CHECK_INTERRUPT), from ethernetIdle or TimerHandler.
PollInterrupt ==
  LET s == Sampled(Input, TRUE)
  IN /\ interrupts
     /\ store' = s.store /\ lamp' = s.lamp
     /\ UNCHANGED <<keys, interrupts, contact, lag, steady>>

\* Somebody, or the bouncing contact itself, opens or closes it.
Touch ==
  /\ ~steady
  /\ contact' = ~contact
  /\ UNCHANGED <<keys, interrupts, store, lamp, lag, steady>>

LeaveAlone ==
  /\ ~steady /\ steady' = TRUE
  /\ UNCHANGED <<keys, interrupts, contact, store, lamp, lag>>

\* Mutant of Tick: the difference of the time stamps is not cut to 16 bits.
TickWide ==
  /\ lag < MaxLag /\ lag' = lag + 1
  /\ store' = [store EXCEPT !.elapsed = @ + 1]
  /\ UNCHANGED <<keys, interrupts, contact, lamp, steady>>

\* millis(), while loop_main goes through its pass.
Tick ==
  /\ lag < MaxLag /\ lag' = lag + 1
  /\ store' = [store EXCEPT !.elapsed = (@ + 1) % CLOCK]
  /\ UNCHANGED <<keys, interrupts, contact, lamp, steady>>

Next == PollLoop \/ PollInterrupt \/ Touch \/ LeaveAlone \/ Tick

Spec == Init /\ [][Next]_vars

\* Time passes; a pass of loop_main takes MaxLag ticks at most, so that it goes
\* on polling too.
FairSpec == Spec /\ []<><<Tick>>_vars

-----------------------------------------------------------------------------
(***************************************************************************)
(* Properties                                                              *)
(***************************************************************************)

\* The legacy action of an input has told its item the value the contact was
\* last seen with, as soon as nothing is left for the next pass.  (An interrupt
\* that sees a second press with no command of its own makes the change itself
\* and tells nobody: keys for a second press are excluded then.)
ToldValue ==
  "item" \in keys /\ ~store.delayedState /\ (interrupts => Second = {})
    => lamp.told = store.lastValue

\* Where loop_main alone polls, the presses that execute scmd use icmd and irev
\* alternately.
PressesAlternate == ~interrupts => lamp.alternating

\* The same with polls from ethernetIdle and the timer interrupt between.
IrevAlternates == lamp.alternating

\* click, dclick and tclick are executed after one, two and three presses, also
\* when the presses are seen by interrupts while the loop lags behind the times
\* that tell them apart.  (Two presses are one click if the input has no key for
\* a second press.)
GesturesCounted == ~lamp.miscounted

\* An input that switches a lamp: on when pressed, once or twice, off when
\* released.
Switch ==
  /\ {"scmd", "rcmd"} \subseteq keys /\ (Second # {} => "scmd2" \in keys)
  /\ "scmd3" \notin keys

\* When the contact is left alone the lamp follows it, in whatever state of
\* debouncing, of counting presses or of waiting for a pass it is left.
LampFollows == steady ~> [](Switch => lamp.lit = contact)
=============================================================================
