----------------------------- MODULE MCItemCtrl -----------------------------
(***************************************************************************)
(* ItemCtrl for TLC: two channels and their group with every command and no   *)
(* timers, or one channel and its group with timers.  Which of the two moves   *)
(* is chosen in the initial state; the other rests.                          *)
(***************************************************************************)
EXTENDS ItemCtrl, TLC

CONSTANTS i1

VARIABLES
  timers,       \* TRUE: the channel with timers moves
  tChannel, tCause, tTimed, tMemo

timedVars == <<tChannel, tCause, tTimed, tMemo>>

Symmetry == Permutations(Items)

WithTimers == INSTANCE ItemCtrl WITH
  Items <- {i1}, MaxTime <- 2, Timed <- {"ON", "XON", "TOGGLE", "FREEZE"}, Delayed <- {"RESTORE"},
  Commands <- {"ON", "OFF", "TOGGLE", "HALT", "RESTORE", "XON", "XOFF", "DISABLE",
               "FREEZE", "UNFREEZE"},
  channel <- tChannel, cause <- tCause, timed <- tTimed, memo <- tMemo

BothInit ==
  /\ timers \in BOOLEAN
  /\ Init /\ WithTimers!Init
  /\ IF timers THEN \A i \in Items : channel[i].cmd = "VOID" ELSE tChannel[i1].cmd = "VOID"

BothNext ==
  \/ ~timers /\ Next /\ UNCHANGED <<timers, timedVars>>
  \/ timers /\ WithTimers!Next /\ UNCHANGED <<timers, vars>>

BothSpec == BothInit /\ [][BothNext]_<<timers, vars, timedVars>>

\* What a timed command has turned on keeps the timer that will turn it off again, but for
\* the cases that TimedOnStep names.
TimedChannelsEnd == WithTimers!TimedOnEnds
=============================================================================
