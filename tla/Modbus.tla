------------------------------- MODULE Modbus -------------------------------
(***************************************************************************)
(* out_Modbus: a channel whose parameters are registers of a Modbus device.   *)
(* Commands are noted in the configuration tree (@V, and bits of the object);  *)
(* Poll writes them, one exchange after the other, and reads the registers     *)
(* back to execute the actions of those that have changed (@S is what was      *)
(* read last).  Every exchange is two steps, because code that waits for the   *)
(* answer calls modbusIdle, and commands come in meanwhile.                   *)
(*                                                                         *)
(* A value fits one register; a mapping yields the value itself, or nothing   *)
(* and refers to another parameter.  One master has the line to itself.        *)
(***************************************************************************)
EXTENDS Integers

CONSTANTS
  PARAMS,       \* parameters are 1 .. PARAMS, in the order of the configuration
  Values,       \* of registers; 0 among them
  Writable,     \* parameters that are commanded: holding registers and coils
  Prefetch,     \* parameters that are read before they are written
  Changes,      \* parameters with `sendchanges`
  Def,          \* the parameter a mapping refers to by "def", 0: none
  Unmapped,     \* values whose mapping yields nothing
  byName,       \* "def" names a parameter; otherwise its register
  NoValue

Params == 1 .. PARAMS

\* What a configuration is: a parameter that a mapping refers to refers to no other.
Configured ==
  /\ PARAMS \in Nat \ {0} /\ Writable \cup Prefetch \cup Changes \subseteq Params
  /\ 0 \in Values /\ NoValue \notin Values
  /\ Def \in [Params -> 0 .. PARAMS] /\ Unmapped \in [Params -> SUBSET Values]
  /\ \A p \in Params : Def[p] = 0 \/ Def[Def[p]] = 0
  /\ byName \in BOOLEAN

VARIABLES
  out,          \* @V: what is to be written
  todo,         \* the subtype of a parameter: NEED_SEND, SEND_ERROR and attempts
  seen,         \* @S: what was read last, with VALUE_EMPTY and VALUE_OUTDATED
  busy,         \* what Poll waits for
  silent,       \* 200 ms have passed since the last frame (mbusSlenceTimer)
  due,          \* pollingInterval has passed since the last polling
  reg,          \* the device
  owed,         \* history: the last command, until it is written or given up
  own,          \* history: we wrote what the register holds, and gave nothing up since
  runs          \* history: actions executed since the device changed

vars == <<out, todo, seen, busy, silent, due, reg, owed, own, runs>>

MB_SEND_ATTEMPTS == 3
Clean == [need |-> FALSE, error |-> FALSE, tries |-> 0]
Idle  == [at |-> "none", p |-> 0, saved |-> NoValue, sent |-> NoValue, read |-> FALSE]

TypeOK ==
  /\ out \in [Params -> Values \cup {NoValue}]
  /\ todo \in [Params -> [need : BOOLEAN, error : BOOLEAN, tries : 0 .. MB_SEND_ATTEMPTS]]
  /\ seen \in [Params -> [val : Values, empty : BOOLEAN, old : BOOLEAN]]
  /\ busy \in [at : {"none", "prefetch", "write", "wait", "poll"}, p : 0 .. PARAMS,
               saved : Values \cup {NoValue}, sent : Values \cup {NoValue}, read : BOOLEAN]
  /\ silent \in BOOLEAN /\ due \in BOOLEAN
  /\ reg \in [Params -> Values]
  /\ owed \in [Params -> Values \cup {NoValue}]
  /\ own \in [Params -> BOOLEAN]
  /\ runs \in [Params -> 0 .. 3]

\* Setup: every parameter has an action, so that createLastMeasured adds its @S.
Init ==
  /\ out = [p \in Params |-> NoValue]
  /\ todo = [p \in Params |-> Clean]
  /\ seen = [p \in Params |-> [val |-> 0, empty |-> TRUE, old |-> FALSE]]
  /\ busy = Idle
  /\ silent = TRUE /\ due = FALSE
  /\ reg \in [Params -> Values]
  /\ owed = [p \in Params |-> NoValue]
  /\ own = [p \in Params |-> FALSE]
  /\ runs = [p \in Params |-> 0]

-----------------------------------------------------------------------------
(* Commands.                                                               *)

\* sendItemCmd: with `sendchanges`, what the device is believed to hold is not sent.
Equal(p, x) ==
  /\ p \in Changes /\ out[p] # NoValue
  /\ seen[p] = [val |-> x, empty |-> FALSE, old |-> FALSE]

Ctrl(p, x) ==
  /\ owed' = [owed EXCEPT ![p] = x]
  /\ IF Equal(p, x) THEN UNCHANGED <<out, todo>>
     ELSE /\ todo' = [todo EXCEPT ![p].need = TRUE]
          /\ out' = [out EXCEPT ![p] = x]
  /\ UNCHANGED <<seen, busy, silent, due, reg, own, runs>>

-----------------------------------------------------------------------------
(* Poll, writing.                                                          *)

\* The first parameter after q that is to be written; 0 if there is none.
NextToSend(q, t) ==
  LET waiting == {p \in Params : p > q /\ t[p].need /\ ~t[p].error}
  IN IF waiting = {} THEN 0 ELSE CHOOSE p \in waiting : \A r \in waiting : p <= r

\* sendModbus begins.
Sending(p) ==
  [at |-> IF p \in Prefetch THEN "prefetch" ELSE "write",
   p |-> p, saved |-> out[p], sent |-> out[p], read |-> FALSE]

PollSends ==
  /\ busy = Idle /\ silent /\ NextToSend(0, todo) # 0
  /\ busy' = Sending(NextToSend(0, todo))
  /\ UNCHANGED <<out, todo, seen, silent, due, reg, owed, own, runs>>

\* Mutant of Concluded: an attempt without an answer counts twice.
ConcludedTwice(res, t, p) ==
  IF res \in {"written", "equal", "cancelled"} THEN [t EXCEPT ![p] = Clean]
  ELSE [t EXCEPT ![p].error = TRUE,
                 ![p].tries = IF @ < MB_SEND_ATTEMPTS THEN @ + 2 ELSE @]

\* What becomes of a parameter.
Concluded(res, t, p) ==
  IF res \in {"written", "equal", "cancelled"} THEN [t EXCEPT ![p] = Clean]
  ELSE [t EXCEPT ![p].error = TRUE,
                 ![p].tries = IF @ < MB_SEND_ATTEMPTS THEN @ + 1 ELSE @]

\* Mutant of Sent: what was noted while the exchange went on is not looked at.
SentOnce(res) ==
  LET next == NextToSend(busy.p, Concluded(res, todo, busy.p))
  IN /\ todo' = Concluded(res, todo, busy.p)
     /\ busy' = IF res \in {"written", "equal"} \/ next = 0 THEN Idle ELSE Sending(next)

\* The end of sendModbus: once more if the target has changed meanwhile; otherwise
\* the next parameter, unless this one was successful.
Sent(res) ==
  LET next == NextToSend(busy.p, Concluded(res, todo, busy.p))
  IN IF out[busy.p] # busy.saved
       THEN busy' = [busy EXCEPT !.at = "wait"] /\ UNCHANGED todo
       ELSE /\ todo' = Concluded(res, todo, busy.p)
            /\ busy' = IF res \in {"written", "equal"} \/ next = 0 THEN Idle ELSE Sending(next)

\* The answer to a prefetch: a value that has changed cancels the write, one that is
\* already there makes it superfluous; without an answer it is written anyway.
Prefetched ==
  LET p == busy.p
  IN /\ busy.at = "prefetch"
     /\ silent' = FALSE
     /\ \/ busy' = [busy EXCEPT !.at = "write", !.sent = out[p]] /\ UNCHANGED <<todo, owed>>
        \/ reg[p] # seen[p].val /\ Sent("cancelled") /\ UNCHANGED owed
        \/ /\ reg[p] = seen[p].val /\ reg[p] = out[p]
           /\ Sent("equal")
           /\ owed' = IF owed[p] = reg[p] THEN [owed EXCEPT ![p] = NoValue] ELSE owed
        \/ /\ reg[p] = seen[p].val /\ reg[p] # out[p]
           /\ busy' = [busy EXCEPT !.at = "write", !.sent = out[p], !.read = TRUE]
           /\ UNCHANGED <<todo, owed>>
     /\ UNCHANGED <<out, seen, due, reg, own, runs>>

\* The device takes the value.
Taken(p) ==
  /\ reg' = [reg EXCEPT ![p] = busy.sent]
  /\ own' = [own EXCEPT ![p] = TRUE]
  /\ runs' = [q \in Params |-> IF q = p \/ Def[q] = p THEN 0 ELSE runs[q]]

\* The answer to a write, and @S of a parameter that was read before: it gets what is
\* to be written now.
Written ==
  LET p == busy.p
  IN /\ busy.at = "write"
     /\ silent' = FALSE
     /\ Taken(p)
     /\ seen' = IF busy.read THEN [seen EXCEPT ![p] = [val |-> out[p], empty |-> FALSE, old |-> FALSE]]
                ELSE seen
     /\ owed' = IF owed[p] = busy.sent THEN [owed EXCEPT ![p] = NoValue] ELSE owed
     /\ Sent("written")
     /\ UNCHANGED <<out, due>>

\* No answer: the device may have taken it.
Unanswered ==
  /\ busy.at = "write"
  /\ silent' = FALSE
  /\ Taken(busy.p) \/ UNCHANGED <<reg, own, runs>>
  /\ Sent("failed")
  /\ UNCHANGED <<out, seen, due, owed>>

Resend ==
  /\ busy.at = "wait" /\ silent
  /\ busy' = Sending(busy.p)
  /\ UNCHANGED <<out, todo, seen, silent, due, reg, owed, own, runs>>

-----------------------------------------------------------------------------
(* Poll, reading.                                                          *)

\* Mutant of Cleaned: attempts are not counted to an end.
CleanedNever(t) == [t EXCEPT !.error = FALSE]

\* Every polling lifts the errors, and gives up after three attempts.
Cleaned(t) == IF t.tries >= MB_SEND_ATTEMPTS THEN Clean ELSE [t EXCEPT !.error = FALSE]

PollReads ==
  /\ busy = Idle /\ silent /\ due /\ NextToSend(0, todo) = 0
  /\ todo' = [p \in Params |-> Cleaned(todo[p])]
  /\ owed' = [p \in Params |-> IF todo[p].tries >= MB_SEND_ATTEMPTS THEN NoValue ELSE owed[p]]
  /\ busy' = [Idle EXCEPT !.at = "poll"]
  /\ own' = [p \in Params |-> own[p] /\ todo[p].tries < MB_SEND_ATTEMPTS]
  /\ UNCHANGED <<out, seen, silent, due, reg, runs>>

\* findRegister for the parameter a mapping refers to: is there news in it?  Its
\* value is believed from then on.
Referred(s, d) ==
  IF byName
    THEN [news |-> ~s[d].old, sure |-> ~s[d].old, seen |-> [s EXCEPT ![d].old = TRUE]]
  ELSE IF s[d].val = reg[d] /\ ~s[d].empty
    THEN [news |-> ~s[d].old, sure |-> TRUE, seen |-> [s EXCEPT ![d].old = TRUE]]
  ELSE [news |-> TRUE, sure |-> TRUE,
        seen |-> [s EXCEPT ![d] = [val |-> reg[d], empty |-> FALSE, old |-> FALSE]]]

\* Mutant of Found: a value equal to the one set is news as well.
FoundEcho(f, p) ==
  LET fresh == f.seen[p].empty \/ f.seen[p].val # reg[p]
  IN IF ~fresh THEN f
     ELSE [f EXCEPT !.seen = [@ EXCEPT ![p] = [val |-> reg[p], empty |-> FALSE, old |-> FALSE]],
                    !.exec = @ \cup {p}]

\* Mutant of Found: @S stays as it was.
FoundForgotten(f, p) ==
  LET fresh == f.seen[p].empty \/ f.seen[p].val # reg[p]
  IN IF ~fresh \/ f.out[p] = reg[p] THEN f ELSE [f EXCEPT !.exec = @ \cup {p}]

\* findRegister: f has @S, @V and the parameters whose actions were executed so far.
Found(f, p) ==
  LET refers == Def[p] # 0 /\ reg[p] \in Unmapped[p]
      r      == IF refers THEN Referred(f.seen, Def[p])
                ELSE [news |-> FALSE, sure |-> FALSE, seen |-> f.seen]
      fresh  == r.seen[p].empty \/ r.seen[p].val # reg[p]
      seen1  == IF fresh THEN [r.seen EXCEPT ![p] = [val |-> reg[p], empty |-> FALSE, old |-> FALSE]]
                ELSE r.seen
      set    == f.out[p] = reg[p]
  IN IF r.sure THEN [f EXCEPT !.seen = seen1, !.exec = IF r.news \/ fresh THEN @ \cup {p} ELSE @]
     ELSE IF ~fresh \/ set THEN [f EXCEPT !.seen = seen1]
     ELSE [seen |-> seen1, exec |-> f.exec \cup {p},
           out |-> IF f.out[p] # NoValue /\ ~todo[p].need THEN [f.out EXCEPT ![p] = reg[p]] ELSE f.out]

\* The registers of one range, in the order of the parameters, up to the n-th.
FoundIn[n \in 0 .. PARAMS] ==
  IF n = 0 THEN [seen |-> seen, out |-> out, exec |-> {}] ELSE Found(FoundIn[n - 1], n)

\* The answer; the action of a parameter is a command to some other channel.
ReadAll ==
  LET f == FoundIn[PARAMS]
  IN /\ busy.at = "poll"
     /\ seen' = f.seen /\ out' = f.out
     /\ runs' = [p \in Params |-> IF p \in f.exec /\ runs[p] < 3 THEN runs[p] + 1 ELSE runs[p]]
     /\ busy' = Idle /\ silent' = FALSE /\ due' = FALSE
     /\ UNCHANGED <<todo, reg, owed, own>>

ReadNothing ==
  /\ busy.at = "poll"
  /\ busy' = Idle /\ silent' = FALSE /\ due' = FALSE
  /\ UNCHANGED <<out, todo, seen, reg, owed, own, runs>>

Poll == PollSends \/ Prefetched \/ Written \/ Unanswered \/ Resend
        \/ PollReads \/ ReadAll \/ ReadNothing

-----------------------------------------------------------------------------
\* Somebody turns the device by hand.
DeviceSets(p, x) ==
  /\ reg[p] # x
  /\ reg' = [reg EXCEPT ![p] = x]
  /\ own' = [own EXCEPT ![p] = FALSE]
  /\ runs' = [q \in Params |-> IF q = p \/ Def[q] = p THEN 0 ELSE runs[q]]
  /\ UNCHANGED <<out, todo, seen, busy, silent, due, owed>>

\* Stop and Setup with a new tree.
Reload ==
  /\ busy = Idle
  /\ out' = [p \in Params |-> NoValue]
  /\ todo' = [p \in Params |-> Clean]
  /\ seen' = [p \in Params |-> [val |-> 0, empty |-> TRUE, old |-> FALSE]]
  /\ due' = FALSE
  /\ owed' = [p \in Params |-> NoValue]
  /\ own' = [p \in Params |-> FALSE]
  /\ runs' = [p \in Params |-> 0]
  /\ UNCHANGED <<busy, silent, reg>>

\* millis(), while nothing is on the line.
Silence ==
  /\ ~silent /\ busy.at \in {"none", "wait"}
  /\ silent' = TRUE
  /\ UNCHANGED <<out, todo, seen, busy, due, reg, owed, own, runs>>
Interval ==
  /\ ~due
  /\ due' = TRUE
  /\ UNCHANGED <<out, todo, seen, busy, silent, reg, owed, own, runs>>

Command == \E p \in Writable, x \in Values : Ctrl(p, x)

Next ==
  \/ Command \/ Poll \/ Reload \/ Silence \/ Interval
  \/ \E p \in Params, x \in Values : DeviceSets(p, x)

Spec == Init /\ [][Next]_vars

\* The library answers or times out, pollingLoop polls, time passes.
FairSpec == Spec /\ WF_vars(Poll) /\ WF_vars(Silence) /\ WF_vars(Interval)

-----------------------------------------------------------------------------
(***************************************************************************)
(* Properties                                                              *)
(***************************************************************************)

\* The last command to a parameter is not forgotten before the device has confirmed it
\* or three attempts have failed, also if it comes while an older one is written.  The attempts
\* are counted for the parameter: a command that comes after the third is given up with it.
\* (Parameters with prefetch or sendchanges do lose commands, see README.)
WriteKept ==
  \A p \in Params \ (Prefetch \cup Changes) : owed[p] # NoValue => todo[p].need

\* What was written over this channel comes back when it is polled, and executes no action
\* unless a later command is about to replace it, or the mapping refers elsewhere.
EchoStep ==
  \A p \in Params : runs'[p] > runs[p] /\ own[p] /\ out[p] # NoValue =>
    \/ todo[p].need
    \/ reg[p] \in Unmapped[p]
    \/ p \in Prefetch \cup Changes
NoEcho == [][EchoStep]_vars

\* A change of the device is executed once, however often it is read; with a mapping
\* that refers elsewhere, once for each of the two parameters.
ExecutedOnce == \A p \in Params : runs[p] <= IF Def[p] = 0 THEN 1 ELSE 2

\* When commands cease, nothing stays to be sent: a device that does not answer is
\* given up.
NoCommand == ~Command
Given     == \A p \in Params : ~todo[p].need
GivenUpInTheEnd == <>[][NoCommand]_vars => <>[]Given
=============================================================================
