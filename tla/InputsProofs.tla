---------------------------- MODULE InputsProofs ----------------------------
(***************************************************************************)
(* Proofs about Inputs, for every configuration and all times.  A poll takes  *)
(* an input through at most three steps: what was requested, what is due by   *)
(* time, what the contact shows.  Each of them keeps the parts of the         *)
(* invariant that can be said of an input s alone.                          *)
(***************************************************************************)
EXTENDS Inputs, TLAPS

Goals == States \cup {"NOP"}

Typed(s) == s \in [store : Stores, lamp : Lamps]

\* The states of an input without a key for a second press.
FlatStates == {"IDLE", "PRESSED", "RELEASED", "LONG", "REPEAT", "WAITPRESS", "WAITRELEASE"}

\* A request is for another state than the present one; only interrupts leave one.
Pending(s) ==
  s.store.delayedState => interrupts /\ s.store.reqState # s.store.state

Flat(s) ==
  Second = {} => s.store.state \in FlatStates /\ s.store.reqState \in FlatStates \cup {"NOP"}

Told(s) ==
  "item" \in keys /\ ~s.store.delayedState /\ (interrupts => Second = {})
    => s.lamp.told = s.store.lastValue

\* The toggle says which half of scmd is next: not the one that was used last.
Alternating(s) ==
  ~interrupts => /\ s.lamp.alternating
                 /\ s.lamp.used # "none" => /\ "scmd" \in keys
                                            /\ s.lamp.used # Half(s.store.toggle[1])

Kept(s) == Typed(s) /\ Pending(s) /\ Flat(s) /\ Told(s) /\ Alternating(s)

LEMMA MovedTyped ==
  ASSUME NEW st \in Stores, NEW to \in Goals
  PROVE  Moved(st, to) \in Stores
<1> DEFINE goal  == IF to = "NOP" THEN st.state ELSE to
           count == CASE to = "IDLE" -> 0
                      [] to = "WAITPRESS" -> 1
                      [] st.state = "PRESSED3" /\ to = "PRESSED2" -> 2
                      [] OTHER -> st.presses
<1>1. goal \in States
  BY DEF Stores, Goals
<1>2. count \in 0 .. 4
  <2>1. CASE to = "IDLE"
    BY <2>1
  <2>2. CASE to = "WAITPRESS"
    BY <2>2
  <2>3. CASE to = "PRESSED2" /\ st.state = "PRESSED3"
    BY <2>3
  <2>4. CASE to \notin {"IDLE", "WAITPRESS"} /\ ~(st.state = "PRESSED3" /\ to = "PRESSED2")
    BY <2>4 DEF Stores
  <2> QED
    BY <2>1, <2>2, <2>3, <2>4
<1>3. Moved(st, to) = [st EXCEPT !.state = goal, !.delayedState = FALSE, !.presses = count]
  BY DEF Moved
<1> HIDE DEF goal, count
<1> QED
  BY <1>1, <1>2, <1>3 DEF Stores

LEMMA ExecutedTyped ==
  ASSUME NEW l \in Lamps, NEW st \in Stores, NEW key, NEW to
  PROVE  Executed(l, key, to, st) \in Lamps
<1> DEFINE press == to = "PRESSED"
           lit   == IF key \in {"scmd", "scmd2"} THEN TRUE ELSE key # "rcmd" /\ l.lit
           used  == IF press THEN Half(st.toggle[1]) ELSE l.used
           alternating == l.alternating /\ (press => Half(st.toggle[1]) # l.used)
           miscounted  == l.miscounted \/ Miscounted(key, st.presses)
<1>1. lit \in BOOLEAN /\ alternating \in BOOLEAN /\ miscounted \in BOOLEAN
  BY Zenon
<1>2. used \in {"none", "icmd", "irev"}
  BY DEF Half, Lamps
<1>3. Executed(l, key, to, st) = IF key \notin keys THEN l
        ELSE [l EXCEPT !.lit = lit, !.used = used, !.alternating = alternating,
                       !.miscounted = miscounted]
  BY DEF Executed
<1> HIDE DEF lit, used, alternating, miscounted
<1> QED
  BY <1>1, <1>2, <1>3 DEF Lamps

LEMMA ChangeTyped ==
  ASSUME NEW s, Typed(s), NEW to \in Goals,
         NEW interrupt \in BOOLEAN, NEW value \in BOOLEAN, NEW onTimer \in BOOLEAN
  PROVE  Typed(ChangeState(s, to, interrupt, value, onTimer))
<1> DEFINE st      == s.store
           key     == Key(st.state, to, value)
           toggled == [st EXCEPT !.toggle = Toggled(@, to)]
           legacy  == ~onTimer \/ to = "NOP"
           begun   == IF legacy /\ interrupt
                        THEN [toggled EXCEPT !.delayedState = TRUE, !.lastValue = value,
                                             !.reqState = to]
                      ELSE IF legacy THEN [toggled EXCEPT !.delayedState = FALSE] ELSE toggled
           told    == IF legacy /\ ~interrupt THEN [s.lamp EXCEPT !.told = value] ELSE s.lamp
<1>1. st \in Stores /\ s.lamp \in Lamps
  BY DEF Typed
<1>2. toggled \in Stores
  BY <1>1 DEF Stores, Toggled, Clicks
<1>3. begun \in Stores
  BY <1>2 DEF Stores, Goals
<1>4. told \in Lamps
  BY <1>1 DEF Lamps
<1>5. Moved(begun, to) \in Stores
  BY <1>3, MovedTyped
<1>6. Executed(told, key, to, st) \in Lamps
  BY <1>1, <1>4, ExecutedTyped
<1> QED
  BY <1>3, <1>4, <1>5, <1>6 DEF ChangeState, Typed
-----------------------------------------------------------------------------
\* What changeState does to the fields the invariant speaks of: in an interrupt,
InterruptChanged(s, to, value, onTimer) ==
  LET r == ChangeState(s, to, TRUE, value, onTimer)
  IN /\ r.lamp = s.lamp
     /\ r.store.reqState = to
     /\ r.store.delayedState => r.store.state = s.store.state
     /\ ~r.store.delayedState => /\ ~HasCommand(Key(s.store.state, to, value), to)
                                 /\ to = "NOP" => onTimer
     /\ r.store.state = s.store.state \/ (r.store.state = to /\ to # "NOP")

LEMMA ChangeInterrupt ==
  ASSUME NEW s, Typed(s), NEW to \in Goals, NEW value \in BOOLEAN, NEW onTimer \in BOOLEAN,
         ~onTimer \/ to = "NOP"
  PROVE  InterruptChanged(s, to, value, onTimer)
<1> DEFINE st == s.store
           b  == [[st EXCEPT !.toggle = Toggled(@, to)] EXCEPT
                    !.delayedState = TRUE, !.lastValue = value, !.reqState = to]
           key == Key(st.state, to, value)
           r  == ChangeState(s, to, TRUE, value, onTimer)
<1>1. st \in Stores
  BY DEF Typed
<1>2. /\ b.lastValue = value /\ b.reqState = to /\ b.delayedState = TRUE
      /\ b.state = st.state
  BY <1>1 DEF Stores
<1>3. r = IF to = "NOP" /\ ~onTimer THEN [store |-> b, lamp |-> s.lamp]
          ELSE IF ~HasCommand(key, to) THEN [store |-> Moved(b, to), lamp |-> s.lamp]
          ELSE [store |-> b, lamp |-> s.lamp]
  BY DEF ChangeState
<1>4. b \in Stores
  <2>1. [st EXCEPT !.toggle = Toggled(@, to)] \in Stores
    BY <1>1 DEF Stores, Toggled, Clicks
  <2> QED
    BY <2>1 DEF Stores, Goals
<1> HIDE DEF b
<1>5. /\ Moved(b, to).lastValue = value /\ Moved(b, to).reqState = to
      /\ Moved(b, to).delayedState = FALSE
      /\ Moved(b, to).state = IF to = "NOP" THEN st.state ELSE to
  BY <1>2, <1>4 DEF Moved, Stores
<1> HIDE DEF r, st, key
<1>6. CASE (to = "NOP" /\ ~onTimer) \/ HasCommand(key, to)
  <2>1. r.store = b /\ r.lamp = s.lamp
    BY <1>3, <1>6
  <2> QED
    BY <2>1, <1>2 DEF InterruptChanged, r, st, key
<1>7. CASE ~(to = "NOP" /\ ~onTimer) /\ ~HasCommand(key, to)
  <2>1. r.store = Moved(b, to) /\ r.lamp = s.lamp
    BY <1>3, <1>7
  <2>2. /\ r.lamp = s.lamp /\ r.store.lastValue = value /\ r.store.reqState = to
        /\ r.store.delayedState = FALSE
        /\ r.store.state = st.state \/ (r.store.state = to /\ to # "NOP")
    BY <2>1, <1>5
  <2> QED
    BY <2>2, <1>7 DEF InterruptChanged, r, st, key
<1> QED
  BY <1>6, <1>7

\* executeCommand tells the lamp nothing about the legacy action, and only the
\* scmd of a first press uses a half.
LEMMA ExecutedFacts ==
  ASSUME NEW l \in Lamps, NEW st \in Stores, NEW key, NEW to,
         to = "PRESSED" => key = "scmd"
  PROVE  LET e == Executed(l, key, to, st)
             pressed == to = "PRESSED" /\ "scmd" \in keys
         IN /\ e.told = l.told
            /\ e.used = IF pressed THEN Half(st.toggle[1]) ELSE l.used
            /\ e.alternating <=> l.alternating /\ (pressed => Half(st.toggle[1]) # l.used)
<1> DEFINE press == to = "PRESSED"
           lit   == IF key \in {"scmd", "scmd2"} THEN TRUE ELSE key # "rcmd" /\ l.lit
           used  == IF press THEN Half(st.toggle[1]) ELSE l.used
           alternating == l.alternating /\ (press => Half(st.toggle[1]) # l.used)
           miscounted  == l.miscounted \/ Miscounted(key, st.presses)
           e == Executed(l, key, to, st)
<1>1. e = IF key \notin keys THEN l
        ELSE [l EXCEPT !.lit = lit, !.used = used, !.alternating = alternating,
                       !.miscounted = miscounted]
  BY DEF Executed
<1>2. CASE key \notin keys
  BY <1>1, <1>2
<1>3. CASE key \in keys
  <2> HIDE DEF lit, used, alternating, miscounted
  <2>1. e.told = l.told /\ e.used = used /\ e.alternating = alternating
    BY <1>1, <1>3 DEF Lamps
  <2>2. press => "scmd" \in keys
    BY <1>3
  <2> QED
    BY <2>1, <2>2 DEF used, alternating
<1> QED
  BY <1>2, <1>3

\* and in a pass of loop_main.
LoopChanged(s, to, value, onTimer) ==
  LET r == ChangeState(s, to, FALSE, value, onTimer)
      legacy  == ~onTimer \/ to = "NOP"
      pressed == to = "PRESSED" /\ "scmd" \in keys
  IN /\ r.store.lastValue = s.store.lastValue
     /\ r.store.reqState = s.store.reqState
     /\ r.store.delayedState = FALSE
     /\ r.store.toggle = Toggled(s.store.toggle, to)
     /\ r.store.state = IF to = "NOP" THEN s.store.state ELSE to
     /\ r.lamp.told = IF legacy THEN value ELSE s.lamp.told
     /\ r.lamp.used = IF pressed THEN Half(s.store.toggle[1]) ELSE s.lamp.used
     /\ r.lamp.alternating <=>
          s.lamp.alternating /\ (pressed => Half(s.store.toggle[1]) # s.lamp.used)

LEMMA ChangeLoop ==
  ASSUME NEW s, Typed(s), NEW to \in Goals, NEW value \in BOOLEAN, NEW onTimer \in BOOLEAN
  PROVE  LoopChanged(s, to, value, onTimer)
<1> DEFINE st == s.store
           legacy  == ~onTimer \/ to = "NOP"
           pressed == to = "PRESSED" /\ "scmd" \in keys
           t  == [st EXCEPT !.toggle = Toggled(@, to)]
           b  == IF legacy THEN [t EXCEPT !.delayedState = FALSE] ELSE t
           l  == IF legacy THEN [s.lamp EXCEPT !.told = value] ELSE s.lamp
           key == Key(st.state, to, value)
           r  == ChangeState(s, to, FALSE, value, onTimer)
<1>1. st \in Stores /\ s.lamp \in Lamps
  BY DEF Typed
<1>2. t \in Stores /\ t.toggle = Toggled(st.toggle, to) /\ t.lastValue = st.lastValue
      /\ t.reqState = st.reqState /\ t.state = st.state
  BY <1>1 DEF Stores, Toggled, Clicks
<1>3. b \in Stores /\ b.toggle = Toggled(st.toggle, to) /\ b.lastValue = st.lastValue
      /\ b.reqState = st.reqState /\ b.state = st.state
      /\ (legacy => b.delayedState = FALSE)
  <2> HIDE DEF t
  <2> QED
    BY <1>2 DEF Stores
<1>4. l \in Lamps /\ l.told = (IF legacy THEN value ELSE s.lamp.told)
      /\ l.used = s.lamp.used /\ l.alternating = s.lamp.alternating
  BY <1>1 DEF Lamps
<1>5. r = IF to = "NOP" /\ ~onTimer THEN [store |-> b, lamp |-> l]
          ELSE IF ~HasCommand(key, to) THEN [store |-> Moved(b, to), lamp |-> l]
          ELSE [store |-> Moved(b, to), lamp |-> Executed(l, key, to, st)]
  BY DEF ChangeState
<1> HIDE DEF b, l
<1>6. /\ Moved(b, to).lastValue = st.lastValue /\ Moved(b, to).reqState = st.reqState
      /\ Moved(b, to).delayedState = FALSE
      /\ Moved(b, to).toggle = Toggled(st.toggle, to)
      /\ Moved(b, to).state = IF to = "NOP" THEN st.state ELSE to
  BY <1>3 DEF Moved, Stores
<1>7. to = "PRESSED" => key = "scmd"
  BY DEF Key
<1> DEFINE e == Executed(l, key, to, st)
<1>8. /\ e.told = l.told
      /\ e.used = IF pressed THEN Half(st.toggle[1]) ELSE l.used
      /\ e.alternating <=> l.alternating /\ (pressed => Half(st.toggle[1]) # l.used)
  BY <1>1, <1>4, <1>7, ExecutedFacts
<1>9. to = "PRESSED" /\ ~HasCommand(key, to) => "scmd" \notin keys
  BY <1>7 DEF HasCommand
<1> HIDE DEF r, key, e
<1>10. CASE to = "NOP" /\ ~onTimer
  <2>1. r.store = b /\ r.lamp = l
    BY <1>5, <1>10
  <2> QED
    BY <2>1, <1>3, <1>4, <1>10 DEF LoopChanged, r
<1>11. CASE ~(to = "NOP" /\ ~onTimer) /\ ~HasCommand(key, to)
  <2>1. r.store = Moved(b, to) /\ r.lamp = l
    BY <1>5, <1>11
  <2> QED
    BY <2>1, <1>4, <1>6, <1>9, <1>11 DEF LoopChanged, r
<1>12. CASE ~(to = "NOP" /\ ~onTimer) /\ HasCommand(key, to)
  <2>1. r.store = Moved(b, to) /\ r.lamp = e
    BY <1>5, <1>12 DEF e
  <2> QED
    BY <2>1, <1>4, <1>6, <1>8, <1>12 DEF LoopChanged, r
<1> QED
  BY <1>10, <1>11, <1>12

-----------------------------------------------------------------------------
\* Setting the time stamp disturbs nothing.
LEMMA StampKept ==
  ASSUME NEW s, Kept(s)
  PROVE  /\ Kept([s EXCEPT !.store.elapsed = 0])
         /\ [s EXCEPT !.store.elapsed = 0].store.delayedState = s.store.delayedState
<1> DEFINE u == [s EXCEPT !.store.elapsed = 0]
<1>1. s.store \in Stores /\ s.lamp \in Lamps
  BY DEF Kept, Typed
<1>2. 0 \in 0 .. CLOCK - 1
  BY TimesAssumption
<1>3. /\ Typed(u) /\ u.lamp = s.lamp
      /\ u.store.state = s.store.state /\ u.store.reqState = s.store.reqState
      /\ u.store.delayedState = s.store.delayedState
      /\ u.store.lastValue = s.store.lastValue /\ u.store.toggle = s.store.toggle
  BY <1>2 DEF Kept, Typed, Stores
<1> HIDE DEF u
<1>4. Kept(u)
  BY <1>3 DEF Kept, Pending, Flat, Told, Alternating
<1> QED
  BY <1>3, <1>4 DEF u

\* A request is carried out, and the legacy action made up for.
LEMMA RequestedKept ==
  ASSUME NEW s, Kept(s)
  PROVE  Kept(Requested(s)) /\ ~Requested(s).store.delayedState
<1>1. CASE ~s.store.delayedState
  BY <1>1 DEF Requested
<1>2. CASE s.store.delayedState
  <2> DEFINE to == s.store.reqState
             off == FALSE
             r  == ChangeState(s, to, FALSE, s.store.lastValue, off)
  <2>1. Typed(s) /\ s.store \in Stores
    BY DEF Kept, Typed
  <2>2. to \in Goals /\ s.store.lastValue \in BOOLEAN
    BY <2>1 DEF Stores, Goals
  <2>3. Requested(s) = r
    BY <1>2 DEF Requested, Kept, Pending
  <2>8. off \in BOOLEAN /\ ~off
    OBVIOUS
  <2>5. Typed(r)
    BY <2>1, <2>2, ChangeTyped
  <2> HIDE DEF off, r
  <2>4. /\ r.store.lastValue = s.store.lastValue /\ r.store.reqState = to
        /\ r.store.delayedState = FALSE
        /\ r.store.state = IF to = "NOP" THEN s.store.state ELSE to
        /\ r.lamp.told = s.store.lastValue
    <3>1. LoopChanged(s, to, s.store.lastValue, off)
      BY <2>1, <2>2, <2>8, ChangeLoop
    <3> QED
      BY <3>1, <2>8 DEF LoopChanged, r
  <2>6. interrupts
    BY <1>2 DEF Kept, Pending
  <2>7. Flat(r)
    BY <2>4 DEF Kept, Flat
  <2> QED
    BY <2>3, <2>4, <2>5, <2>6, <2>7 DEF Kept, Pending, Told, Alternating
<1> QED
  BY <1>1, <1>2

\* Time leads from flat states to flat states, and never to a first press.
LEMMA TimerGoalFacts ==
  ASSUME NEW st \in Stores, TimerGoal(st) # "none"
  PROVE  /\ TimerGoal(st) \in States \ {"PRESSED"}
         /\ Second = {} /\ st.state \in FlatStates => TimerGoal(st) \in FlatStates
BY DEF TimerGoal, States, FlatStates, Stores

LEMMA TimerKept ==
  ASSUME NEW s, Kept(s), ~s.store.delayedState, contact \in BOOLEAN
  PROVE  Kept(TimerStep(s)) /\ ~TimerStep(s).store.delayedState
<1> DEFINE goal == TimerGoal(s.store)
           on   == TRUE
           t    == ChangeState(s, goal, FALSE, contact, on)
<1>1. CASE goal = "none"
  BY <1>1 DEF TimerStep
<1>2. CASE goal # "none"
  <2>1. Typed(s) /\ s.store \in Stores
    BY DEF Kept, Typed
  <2>2. /\ goal \in States \ {"PRESSED"}
        /\ Second = {} /\ s.store.state \in FlatStates => goal \in FlatStates
    BY <1>2, <2>1, TimerGoalFacts
  <2> HIDE DEF goal
  <2>3. goal \in Goals /\ goal # "NOP" /\ goal # "PRESSED"
    BY <2>2 DEF Goals, States
  <2>9. on \in BOOLEAN /\ on
    OBVIOUS
  <2>7. TimerStep(s) = t \/ TimerStep(s) = [t EXCEPT !.store.elapsed = 0]
    BY <1>2 DEF TimerStep, goal
  <2>5. Typed(t)
    BY <2>1, <2>3, <2>9, ChangeTyped
  <2> HIDE DEF on, t
  <2>4. /\ t.store.lastValue = s.store.lastValue /\ t.store.reqState = s.store.reqState
        /\ t.store.delayedState = FALSE /\ t.store.state = goal
        /\ t.store.toggle = Toggled(s.store.toggle, goal)
        /\ t.lamp.told = s.lamp.told /\ t.lamp.used = s.lamp.used
        /\ t.lamp.alternating <=> s.lamp.alternating
    <3>1. LoopChanged(s, goal, contact, on)
      BY <2>1, <2>3, <2>9, ChangeLoop
    <3> QED
      BY <3>1, <2>3, <2>9 DEF LoopChanged, t
  <2>6. t.store.toggle[1] = s.store.toggle[1]
    BY <2>1, <2>3, <2>4 DEF Toggled, Stores, Clicks
  <2>8. Kept(t)
    BY <2>2, <2>4, <2>5, <2>6 DEF Kept, Pending, Flat, Told, Alternating
  <2> QED
    BY <2>4, <2>7, <2>8, StampKept
<1> QED
  BY <1>1, <1>2

\* A confirmed value asks for another state, and leaves flat states flat.  From
\* those it asks for nothing without a default command.
LEMMA ContactGoalFacts ==
  ASSUME NEW st \in Stores, NEW value \in BOOLEAN
  PROVE  /\ ContactGoal(st.state, value) \in Goals \ {st.state}
         /\ Second = {} /\ st.state \in FlatStates =>
              ContactGoal(st.state, value) \in {"PRESSED", "RELEASED", "WAITPRESS", "NOP"}
<1>1. ASSUME value
      PROVE  ContactGoal(st.state, value) \in Goals \ {st.state}
  BY <1>1 DEF ContactGoal, Goals, States, Stores
<1>2. ASSUME ~value
      PROVE  ContactGoal(st.state, value) \in Goals \ {st.state}
  BY <1>2 DEF ContactGoal, Goals, States, Stores
<1>3. ASSUME Second = {}, st.state \in FlatStates
      PROVE  ContactGoal(st.state, value) \in {"PRESSED", "RELEASED", "WAITPRESS", "NOP"}
  BY <1>3 DEF ContactGoal, FlatStates
<1> QED
  BY <1>1, <1>2, <1>3

\* The contact is believed.
LEMMA ConfirmedKept ==
  ASSUME NEW s, Kept(s), NEW interrupt \in BOOLEAN, interrupt => interrupts,
         contact \in BOOLEAN
  PROVE  Kept(Confirmed(s, interrupt))
<1>1. CASE s.store.delayedState
  BY <1>1, StampKept DEF Confirmed
<1>2. CASE ~s.store.delayedState
  <2> DEFINE goal  == ContactGoal(s.store.state, contact)
             count == IF contact /\ ~s.store.lastValue /\ s.store.presses < 4
                        THEN s.store.presses + 1 ELSE s.store.presses
             seen  == [s EXCEPT !.store.presses = count]
             on    == goal = "NOP" /\ contact = s.store.lastValue
             t     == ChangeState(seen, goal, interrupt, contact, on)
             u     == [t EXCEPT !.store.elapsed = 0, !.store.lastValue = contact]
  <2>1. Typed(s) /\ s.store \in Stores /\ s.lamp \in Lamps
    BY DEF Kept, Typed
  <2>2. /\ goal \in Goals \ {s.store.state}
        /\ Second = {} /\ s.store.state \in FlatStates =>
             goal \in {"PRESSED", "RELEASED", "WAITPRESS", "NOP"}
    BY <2>1, ContactGoalFacts
  <2>3. Confirmed(s, interrupt) = u
    BY <1>2 DEF Confirmed
  <2> HIDE DEF goal
  <2>4. on \in BOOLEAN /\ (on => goal = "NOP" /\ contact = s.store.lastValue)
        /\ (goal = "NOP" /\ contact = s.store.lastValue => on)
    OBVIOUS
  <2>5. count \in 0 .. 4
    BY <2>1 DEF Stores
  <2> HIDE DEF on, count
  <2>6. /\ Typed(seen) /\ seen.lamp = s.lamp
        /\ seen.store.state = s.store.state /\ seen.store.toggle = s.store.toggle
        /\ seen.store.lastValue = s.store.lastValue
        /\ seen.store.reqState = s.store.reqState
    BY <2>1, <2>5 DEF Typed, Stores
  <2> HIDE DEF seen
  <2>7. Typed(t)
    BY <2>2, <2>4, <2>6, ChangeTyped
  <2>8. ~on \/ goal = "NOP"
    BY <2>4
  <2> HIDE DEF t
  <2>9. 0 \in 0 .. CLOCK - 1
    BY TimesAssumption
  <2>10. /\ Typed(u) /\ u.lamp = t.lamp
         /\ u.store.state = t.store.state /\ u.store.reqState = t.store.reqState
         /\ u.store.delayedState = t.store.delayedState
         /\ u.store.lastValue = contact /\ u.store.toggle = t.store.toggle
    BY <2>7, <2>9 DEF Typed, Stores
  <2> HIDE DEF u
  <2>11. CASE interrupt
    <3>1. interrupt = TRUE /\ interrupts
      BY <2>11
    <3>2. InterruptChanged(seen, goal, contact, on)
      BY <2>2, <2>4, <2>6, <2>8, ChangeInterrupt
    <3>3. /\ t.lamp = s.lamp /\ t.store.reqState = goal
          /\ t.store.delayedState => t.store.state = s.store.state
          /\ ~t.store.delayedState => /\ ~HasCommand(Key(s.store.state, goal, contact), goal)
                                      /\ goal = "NOP" => on
          /\ t.store.state = s.store.state \/ (t.store.state = goal /\ goal # "NOP")
      BY <2>6, <3>1, <3>2 DEF InterruptChanged, t
    <3>4. Pending(u)
      BY <2>2, <2>10, <3>1, <3>3 DEF Pending
    <3>5. Flat(u)
      BY <2>2, <2>10, <3>3 DEF Kept, Flat, FlatStates
    <3>6. Told(u)
      BY <1>2, <2>2, <2>4, <2>10, <3>1, <3>3 DEF Kept, Flat, Told, HasCommand
    <3> QED
      BY <2>3, <2>10, <3>1, <3>4, <3>5, <3>6 DEF Kept, Alternating
  <2>12. CASE ~interrupt
    <3>1. interrupt = FALSE
      BY <2>12
    <3>2. LoopChanged(seen, goal, contact, on)
      BY <2>2, <2>4, <2>6, ChangeLoop
    <3>3. /\ t.store.reqState = s.store.reqState /\ t.store.delayedState = FALSE
          /\ t.store.toggle = Toggled(s.store.toggle, goal)
          /\ t.store.state = IF goal = "NOP" THEN s.store.state ELSE goal
          /\ t.lamp.told = contact
          /\ t.lamp.used = IF goal = "PRESSED" /\ "scmd" \in keys
                             THEN Half(s.store.toggle[1]) ELSE s.lamp.used
          /\ t.lamp.alternating <=>
               s.lamp.alternating /\ (goal = "PRESSED" /\ "scmd" \in keys
                                       => Half(s.store.toggle[1]) # s.lamp.used)
      BY <2>6, <2>8, <3>1, <3>2 DEF LoopChanged, t
    <3>4. Flat(u)
      BY <2>2, <2>10, <3>3 DEF Kept, Flat, FlatStates
    <3>5. u.store.toggle[1] = IF goal = "PRESSED" THEN ~s.store.toggle[1]
                              ELSE s.store.toggle[1]
      BY <2>1, <2>2, <2>10, <3>3 DEF Toggled, Stores, Clicks
    <3>6. Alternating(u)
      BY <2>1, <2>10, <3>3, <3>5 DEF Kept, Alternating, Half, Stores, Clicks
    <3>7. Pending(u)
      BY <2>10, <3>3 DEF Pending
    <3>8. u.lamp.told = contact /\ u.store.lastValue = contact
      BY <2>10, <3>3
    <3>9. Told(u)
      BY <3>8 DEF Told
    <3> QED
      BY <2>3, <2>10, <3>4, <3>6, <3>7, <3>9 DEF Kept
  <2> QED
    BY <2>11, <2>12
<1> QED
  BY <1>1, <1>2

LEMMA SampledKept ==
  ASSUME NEW s, Kept(s), NEW interrupt \in BOOLEAN, interrupt => interrupts,
         contact \in BOOLEAN
  PROVE  Kept(Sampled(s, interrupt))
<1>1. ASSUME NEW n \in 0 .. ATTEMPTS
      PROVE  Kept([s EXCEPT !.store.bounce = n])
  <2> DEFINE u == [s EXCEPT !.store.bounce = n]
  <2>1. /\ Typed(u) /\ u.lamp = s.lamp
        /\ u.store.state = s.store.state /\ u.store.reqState = s.store.reqState
        /\ u.store.delayedState = s.store.delayedState
        /\ u.store.lastValue = s.store.lastValue /\ u.store.toggle = s.store.toggle
    BY DEF Kept, Typed, Stores
  <2> HIDE DEF u
  <2>2. Kept(u)
    BY <2>1 DEF Kept, Pending, Flat, Told, Alternating
  <2> QED
    BY <2>2 DEF u
<1>2. s.store.bounce \in 0 .. ATTEMPTS
  BY DEF Kept, Typed, Stores
<1>3. Sampled(s, interrupt) = [s EXCEPT !.store.bounce = ATTEMPTS]
      \/ (s.store.bounce > 0
           /\ Sampled(s, interrupt) = [s EXCEPT !.store.bounce = s.store.bounce - 1])
      \/ Sampled(s, interrupt) = Confirmed(s, interrupt)
  BY DEF Sampled
<1>4. ATTEMPTS \in 0 .. ATTEMPTS
  BY AttemptsAssumption
<1>5. s.store.bounce > 0 => s.store.bounce - 1 \in 0 .. ATTEMPTS
  BY <1>2, AttemptsAssumption
<1>6. Kept(Confirmed(s, interrupt))
  BY ConfirmedKept
<1> QED
  BY <1>1, <1>3, <1>4, <1>5, <1>6
-----------------------------------------------------------------------------
IInv ==
  /\ keys \in Configs /\ interrupts \in BOOLEAN /\ contact \in BOOLEAN
  /\ lag \in 0 .. MaxLag /\ steady \in BOOLEAN
  /\ Kept(Input)

LEMMA InitKept == Init => IInv
<1> SUFFICES ASSUME Init PROVE IInv
  OBVIOUS
<1>1. Input.store = store /\ Input.lamp = lamp
  BY DEF Input
<1>2. store \in Stores /\ lamp \in Lamps
  BY TimesAssumption, AttemptsAssumption DEF Init, Stores, Lamps, States, Clicks
<1>3. Typed(Input)
  BY <1>2 DEF Typed, Input
<1>4. Pending(Input) /\ Flat(Input) /\ Told(Input) /\ Alternating(Input)
  BY <1>1 DEF Init, Pending, Flat, FlatStates, Told, Alternating
<1>5. lag \in 0 .. MaxLag
  BY TimesAssumption DEF Init
<1> QED
  BY <1>3, <1>4, <1>5 DEF Init, IInv, Kept

\* A poll replaces the store and the lamp by those of an input that has been kept.
LEMMA PollKept ==
  ASSUME NEW s, Kept(s), store' = s.store, lamp' = s.lamp,
         keys' = keys, interrupts' = interrupts
  PROVE  Kept(Input)'
<1>1. Input'.store = s.store /\ Input'.lamp = s.lamp
  BY DEF Input
<1>2. Typed(Input)'
  BY DEF Kept, Typed, Input, Stores, Lamps
<1>3. Second' = Second
  BY DEF Second
<1>4. Pending(Input)'
  BY <1>1 DEF Kept, Pending
<1>5. Flat(Input)'
  BY <1>1, <1>3 DEF Kept, Flat
<1>6. Told(Input)'
  BY <1>1, <1>3 DEF Kept, Told
<1>7. Alternating(Input)'
  BY <1>1 DEF Kept, Alternating, Half
<1> QED
  BY <1>2, <1>4, <1>5, <1>6, <1>7 DEF Kept

LEMMA NextKept == IInv /\ [Next]_vars => IInv'
<1> SUFFICES ASSUME IInv, [Next]_vars PROVE IInv'
  OBVIOUS
<1>1. contact \in BOOLEAN /\ Kept(Input)
  BY DEF IInv
<1>2. CASE PollLoop
  <2> DEFINE a == Requested(Input)
             b == TimerStep(a)
             c == Sampled(b, FALSE)
  <2>1. Kept(a) /\ ~a.store.delayedState
    BY <1>1, RequestedKept
  <2> HIDE DEF a
  <2>2. Kept(b)
    BY <1>1, <2>1, TimerKept
  <2> HIDE DEF b
  <2>3. Kept(c)
    BY <1>1, <2>2, SampledKept
  <2>4. store' = c.store /\ lamp' = c.lamp /\ lag' = 0
        /\ UNCHANGED <<keys, interrupts, contact, steady>>
    BY <1>2 DEF PollLoop, a, b
  <2> HIDE DEF c
  <2>5. Kept(Input)'
    BY <2>3, <2>4, PollKept
  <2> QED
    BY <2>4, <2>5, TimesAssumption DEF IInv
<1>3. CASE PollInterrupt
  <2> DEFINE c == Sampled(Input, TRUE)
  <2>1. interrupts /\ store' = c.store /\ lamp' = c.lamp
        /\ UNCHANGED <<keys, interrupts, contact, lag, steady>>
    BY <1>3 DEF PollInterrupt
  <2>2. Kept(c)
    BY <1>1, <2>1, SampledKept
  <2> HIDE DEF c
  <2>3. Kept(Input)'
    BY <2>1, <2>2, PollKept
  <2> QED
    BY <2>1, <2>3 DEF IInv
<1>4. CASE Touch \/ LeaveAlone \/ UNCHANGED vars
  <2>1. store' = Input.store /\ lamp' = Input.lamp /\ keys' = keys /\ interrupts' = interrupts
        /\ lag' = lag /\ contact' \in BOOLEAN /\ steady' \in BOOLEAN
    BY <1>4 DEF Touch, LeaveAlone, vars, Input, IInv
  <2>2. Kept(Input)'
    BY <1>1, <2>1, PollKept
  <2> QED
    BY <2>1, <2>2 DEF IInv
<1>5. CASE Tick
  <2> DEFINE u == [store |-> [store EXCEPT !.elapsed = (@ + 1) % CLOCK], lamp |-> lamp]
  <2>1. store' = u.store /\ lamp' = u.lamp /\ lag < MaxLag /\ lag' = lag + 1
        /\ UNCHANGED <<keys, interrupts, contact, steady>>
    BY <1>5 DEF Tick
  <2>2. store \in Stores /\ lamp \in Lamps
    BY <1>1 DEF Kept, Typed, Input
  <2>3. (store.elapsed + 1) % CLOCK \in 0 .. CLOCK - 1
    BY <2>2, TimesAssumption DEF Stores
  <2>4. /\ Typed(u) /\ u.lamp = Input.lamp
        /\ u.store.state = Input.store.state /\ u.store.reqState = Input.store.reqState
        /\ u.store.delayedState = Input.store.delayedState
        /\ u.store.lastValue = Input.store.lastValue
        /\ u.store.toggle = Input.store.toggle
    BY <2>2, <2>3 DEF Typed, Stores, Input
  <2> HIDE DEF u
  <2>5. Kept(u)
    BY <1>1, <2>4 DEF Kept, Pending, Flat, Told, Alternating
  <2>6. Kept(Input)'
    BY <2>1, <2>5, PollKept
  <2>7. lag' \in 0 .. MaxLag
    BY <2>1, TimesAssumption DEF IInv
  <2> QED
    BY <2>1, <2>6, <2>7 DEF IInv
<1> QED
  BY <1>2, <1>3, <1>4, <1>5 DEF Next

LEMMA Invariant == Spec => []IInv
BY InitKept, NextKept, PTL DEF Spec

\* Every field of inStore stays in its range: in particular the debouncing
\* counter and the count of presses.
THEOREM TypeCorrect == Spec => []TypeOK
<1>1. IInv => TypeOK
  BY DEF IInv, Kept, Typed, Input, TypeOK
<1> QED
  BY <1>1, Invariant, PTL

\* Whatever loop_main and the interrupts make of a contact between them, the
\* legacy action of the input is never left behind once no request waits.
THEOREM ToldValueHolds == Spec => []ToldValue
<1>1. IInv => ToldValue
  <2>1. Input.store = store /\ Input.lamp = lamp
    BY DEF Input
  <2>2. IInv => Told(Input)
    BY DEF IInv, Kept
  <2> QED
    BY <2>1, <2>2 DEF Told, ToldValue
<1> QED
  BY <1>1, Invariant, PTL

\* Without interrupts icmd and irev alternate.
THEOREM PressesAlternateHolds == Spec => []PressesAlternate
<1>1. IInv => PressesAlternate
  <2>1. Input.lamp = lamp
    BY DEF Input
  <2>2. IInv => Alternating(Input)
    BY DEF IInv, Kept
  <2> QED
    BY <2>1, <2>2 DEF Alternating, PressesAlternate
<1> QED
  BY <1>1, Invariant, PTL
-----------------------------------------------------------------------------
\* Counting.  States in which the contact was last seen closed,
Down == {"PRESSED", "LONG", "REPEAT", "WAITRELEASE", "PRESSED2", "LONG2", "REPEAT2",
         "PRESSED3", "LONG3", "REPEAT3"}

\* and what a state says of the number of presses, with keys for a second press.
CountOK(state, p) ==
  Second # {} =>
    /\ state = "IDLE" => p = 0
    /\ state \in {"PRESSED", "RELEASED", "WAITPRESS"} => p = 1
    /\ state \in {"PRESSED2", "RELEASED2"} => p = 2
    /\ state = "PRESSED3" => p = 3

\* What a change makes of the number.
Recount(state, to, p) ==
  CASE to = "IDLE" -> 0
    [] to = "WAITPRESS" -> 1
    [] state = "PRESSED3" /\ to = "PRESSED2" -> 2
    [] OTHER -> p

\* A change that counts right, and that executes no click after another number.
Due(state, to, value, p) ==
  /\ value <=> to \in Down
  /\ CountOK(to, Recount(state, to, p))
  /\ ~Miscounted(Key(state, to, value), p)

\* At rest the state fits the contact and the number; a request has been counted already.
Counted(s) ==
  /\ ~s.lamp.miscounted
  /\ ~s.store.delayedState \/ s.store.reqState = "NOP" =>
       /\ s.store.lastValue <=> s.store.state \in Down
       /\ CountOK(s.store.state, s.store.presses)
  /\ s.store.delayedState /\ s.store.reqState # "NOP" =>
       Due(s.store.state, s.store.reqState, s.store.lastValue, s.store.presses)

LEMMA StampCounts ==
  ASSUME NEW s, Typed(s), Counted(s)
  PROVE  Counted([s EXCEPT !.store.elapsed = 0])
<1> DEFINE u == [s EXCEPT !.store.elapsed = 0]
<1>1. /\ u.lamp = s.lamp
      /\ u.store.state = s.store.state /\ u.store.reqState = s.store.reqState
      /\ u.store.delayedState = s.store.delayedState
      /\ u.store.lastValue = s.store.lastValue /\ u.store.presses = s.store.presses
  BY DEF Typed, Stores
<1> HIDE DEF u
<1>2. Counted(u)
  BY <1>1 DEF Counted
<1> QED
  BY <1>2 DEF u

LEMMA MovedCounts ==
  ASSUME NEW st \in Stores, NEW to \in Goals
  PROVE  Moved(st, to).presses = Recount(st.state, to, st.presses)
BY DEF Moved, Recount, Stores

\* What changeState does to the count: in a pass of loop_main,
LoopCounted(s, to, value, onTimer) ==
  LET r == ChangeState(s, to, FALSE, value, onTimer)
  IN /\ r.store.presses = Recount(s.store.state, to, s.store.presses)
     /\ r.lamp.miscounted =>
          s.lamp.miscounted \/ Miscounted(Key(s.store.state, to, value), s.store.presses)

LEMMA CountLoop ==
  ASSUME NEW s, Typed(s), NEW to \in Goals, NEW value \in BOOLEAN, NEW onTimer \in BOOLEAN
  PROVE  LoopCounted(s, to, value, onTimer)
<1> DEFINE st == s.store
           legacy == ~onTimer \/ to = "NOP"
           t  == [st EXCEPT !.toggle = Toggled(@, to)]
           b  == IF legacy THEN [t EXCEPT !.delayedState = FALSE] ELSE t
           l  == IF legacy THEN [s.lamp EXCEPT !.told = value] ELSE s.lamp
           key == Key(st.state, to, value)
           r  == ChangeState(s, to, FALSE, value, onTimer)
           e  == Executed(l, key, to, st)
<1>1. st \in Stores /\ s.lamp \in Lamps
  BY DEF Typed
<1>2. t \in Stores /\ t.presses = st.presses /\ t.state = st.state
  BY <1>1 DEF Stores, Toggled, Clicks
<1>3. b \in Stores /\ b.presses = st.presses /\ b.state = st.state
  <2> HIDE DEF t
  <2> QED
    BY <1>2 DEF Stores
<1>4. l \in Lamps /\ l.miscounted = s.lamp.miscounted
  BY <1>1 DEF Lamps
<1>5. r = IF to = "NOP" /\ ~onTimer THEN [store |-> b, lamp |-> l]
          ELSE IF ~HasCommand(key, to) THEN [store |-> Moved(b, to), lamp |-> l]
          ELSE [store |-> Moved(b, to), lamp |-> e]
  BY DEF ChangeState
<1> HIDE DEF b, l
<1>6. Moved(b, to).presses = Recount(st.state, to, st.presses)
  BY <1>3, MovedCounts
<1>7. e.miscounted => l.miscounted \/ Miscounted(key, st.presses)
  <2> DEFINE press == to = "PRESSED"
             lit   == IF key \in {"scmd", "scmd2"} THEN TRUE ELSE key # "rcmd" /\ l.lit
             used  == IF press THEN Half(st.toggle[1]) ELSE l.used
             alternating == l.alternating /\ (press => Half(st.toggle[1]) # l.used)
             miscounted  == l.miscounted \/ Miscounted(key, st.presses)
  <2>1. e = IF key \notin keys THEN l
            ELSE [l EXCEPT !.lit = lit, !.used = used, !.alternating = alternating,
                           !.miscounted = miscounted]
    BY DEF Executed
  <2> HIDE DEF lit, used, alternating, miscounted, key, e
  <2>2. e.miscounted => l.miscounted \/ miscounted
    BY <1>4, <2>1 DEF Lamps
  <2> QED
    BY <2>2 DEF miscounted
<1>8. to = "NOP" => Recount(st.state, to, st.presses) = st.presses
  BY DEF Recount
<1> HIDE DEF r, key, e
<1>9. /\ r.store.presses = Recount(st.state, to, st.presses)
      /\ r.lamp.miscounted => s.lamp.miscounted \/ Miscounted(key, st.presses)
  BY <1>3, <1>4, <1>5, <1>6, <1>7, <1>8
<1> QED
  BY <1>9 DEF LoopCounted, r, st, key

\* and in an interrupt.
InterruptCounted(s, to, value, onTimer) ==
  LET r == ChangeState(s, to, TRUE, value, onTimer)
  IN /\ r.lamp = s.lamp /\ r.store.reqState = to
     /\ r.store.delayedState =>
          r.store.state = s.store.state /\ r.store.presses = s.store.presses
     /\ ~r.store.delayedState =>
          /\ r.store.presses = Recount(s.store.state, to, s.store.presses)
          /\ r.store.state = IF to = "NOP" THEN s.store.state ELSE to

LEMMA CountInterrupt ==
  ASSUME NEW s, Typed(s), NEW to \in Goals, NEW value \in BOOLEAN, NEW onTimer \in BOOLEAN,
         ~onTimer \/ to = "NOP"
  PROVE  InterruptCounted(s, to, value, onTimer)
<1> DEFINE st == s.store
           b  == [[st EXCEPT !.toggle = Toggled(@, to)] EXCEPT
                    !.delayedState = TRUE, !.lastValue = value, !.reqState = to]
           key == Key(st.state, to, value)
           r  == ChangeState(s, to, TRUE, value, onTimer)
<1>1. st \in Stores
  BY DEF Typed
<1>2. /\ b.reqState = to /\ b.delayedState = TRUE
      /\ b.state = st.state /\ b.presses = st.presses
  BY <1>1 DEF Stores
<1>3. r = IF to = "NOP" /\ ~onTimer THEN [store |-> b, lamp |-> s.lamp]
          ELSE IF ~HasCommand(key, to) THEN [store |-> Moved(b, to), lamp |-> s.lamp]
          ELSE [store |-> b, lamp |-> s.lamp]
  BY DEF ChangeState
<1>4. b \in Stores
  <2>1. [st EXCEPT !.toggle = Toggled(@, to)] \in Stores
    BY <1>1 DEF Stores, Toggled, Clicks
  <2> QED
    BY <2>1 DEF Stores, Goals
<1> HIDE DEF b
<1>5. /\ Moved(b, to).reqState = to /\ Moved(b, to).delayedState = FALSE
      /\ Moved(b, to).state = IF to = "NOP" THEN st.state ELSE to
  BY <1>2, <1>4 DEF Moved, Stores
<1>6. Moved(b, to).presses = Recount(st.state, to, st.presses)
  BY <1>2, <1>4, MovedCounts
<1> HIDE DEF r, st, key
<1>7. \/ r.store = b /\ r.lamp = s.lamp
      \/ r.store = Moved(b, to) /\ r.lamp = s.lamp
  BY <1>3
<1> QED
  BY <1>2, <1>5, <1>6, <1>7 DEF InterruptCounted, r, st

-----------------------------------------------------------------------------
\* A request is carried out: it has been counted when it was left.
LEMMA RequestedCounts ==
  ASSUME NEW s, Kept(s), Counted(s)
  PROVE  Counted(Requested(s))
<1>1. CASE ~s.store.delayedState
  BY <1>1 DEF Requested
<1>2. CASE s.store.delayedState
  <2> DEFINE to == s.store.reqState
             off == FALSE
             r  == ChangeState(s, to, FALSE, s.store.lastValue, off)
  <2>1. Typed(s) /\ s.store \in Stores
    BY DEF Kept, Typed
  <2>2. to \in Goals /\ s.store.lastValue \in BOOLEAN /\ s.store.state \in States
    BY <2>1 DEF Stores, Goals
  <2>3. Requested(s) = r
    BY <1>2 DEF Requested, Kept, Pending
  <2>4. off \in BOOLEAN
    OBVIOUS
  <2> HIDE DEF off, r
  <2>5. /\ r.store.lastValue = s.store.lastValue /\ r.store.delayedState = FALSE
        /\ r.store.state = IF to = "NOP" THEN s.store.state ELSE to
    <3>1. LoopChanged(s, to, s.store.lastValue, off)
      BY <2>1, <2>2, <2>4, ChangeLoop
    <3> QED
      BY <3>1 DEF LoopChanged, r
  <2>6. /\ r.store.presses = Recount(s.store.state, to, s.store.presses)
        /\ r.lamp.miscounted =>
             s.lamp.miscounted \/ Miscounted(Key(s.store.state, to, s.store.lastValue), s.store.presses)
    BY <2>1, <2>2, <2>4, CountLoop DEF LoopCounted, r
  <2>7. CASE to = "NOP"
    <3>1. /\ r.store.presses = s.store.presses
          /\ ~Miscounted(Key(s.store.state, to, s.store.lastValue), s.store.presses)
      BY <2>2, <2>6, <2>7 DEF Recount, Miscounted, Key
    <3> QED
      BY <2>3, <2>5, <2>6, <2>7, <3>1 DEF Counted
  <2>8. CASE to # "NOP"
    BY <1>2, <2>3, <2>5, <2>6, <2>8 DEF Counted, Due
  <2> QED
    BY <2>7, <2>8
<1> QED
  BY <1>1, <1>2

\* Time never takes the contact for another one, and it executes a click after one press, a
\* dclick after two.
LEMMA TimerGoalDue ==
  ASSUME NEW s, Kept(s), Counted(s), ~s.store.delayedState, TimerGoal(s.store) # "none",
         NEW value
  PROVE  LET goal == TimerGoal(s.store)
         IN /\ goal \in Down <=> s.store.state \in Down
            /\ CountOK(goal, Recount(s.store.state, goal, s.store.presses))
            /\ ~Miscounted(Key(s.store.state, goal, value), s.store.presses)
<1> DEFINE goal == TimerGoal(s.store)  state == s.store.state  p == s.store.presses
<1>1. CountOK(state, p) /\ (Second = {} => state \in FlatStates) /\ state \in States
  BY DEF Counted, Kept, Flat, Typed, Stores
<1>2. \/ state = "PRESSED" /\ goal \in {"WAITRELEASE", "LONG"}
      \/ state = "PRESSED2" /\ goal \in {"WAITRELEASE", "LONG2"}
      \/ state = "PRESSED3" /\ goal \in {"LONG3", "WAITRELEASE", "PRESSED2"}
      \/ state = "LONG" /\ goal = "REPEAT"
      \/ state = "LONG2" /\ goal = "REPEAT2"
      \/ state = "LONG3" /\ goal = "REPEAT3"
      \/ state \in Repeats /\ goal = state
      \/ state \in {"RELEASED", "RELEASED2", "WAITPRESS"} /\ goal = "IDLE"
  BY SMTT(30) DEF TimerGoal, Repeats
<1> HIDE DEF goal, state, p
<1>3. goal \in Down <=> state \in Down
  BY <1>2 DEF Down, Repeats
<1>4. CountOK(goal, Recount(state, goal, p))
  BY <1>1, <1>2 DEF CountOK, Recount, Repeats
<1>5. ~Miscounted(Key(state, goal, value), p)
  <2>1. CASE goal = "IDLE"
    <3>1. Key(state, goal, value) = IF state = "RELEASED" THEN "click"
                                    ELSE IF state = "RELEASED2" THEN "dclick" ELSE "none"
      BY <1>2, <2>1 DEF Key, Repeats
    <3> QED
      BY <1>1, <1>2, <2>1, <3>1 DEF Miscounted, CountOK, FlatStates, Repeats
  <2>2. CASE goal # "IDLE"
    <3>1. Key(state, goal, value) \notin {"click", "dclick", "tclick"}
      BY <1>2, <2>2 DEF Key, Repeats
    <3> QED
      BY <3>1 DEF Miscounted
  <2> QED
    BY <2>1, <2>2
<1> QED
  BY <1>3, <1>4, <1>5 DEF goal, state, p

LEMMA TimerCounts ==
  ASSUME NEW s, Kept(s), Counted(s), ~s.store.delayedState, contact \in BOOLEAN
  PROVE  Counted(TimerStep(s))
<1> DEFINE goal == TimerGoal(s.store)
           on   == TRUE
           t    == ChangeState(s, goal, FALSE, contact, on)
<1>1. CASE goal = "none"
  BY <1>1 DEF TimerStep
<1>2. CASE goal # "none"
  <2>1. Typed(s) /\ s.store \in Stores
    BY DEF Kept, Typed
  <2>2. goal \in States \ {"PRESSED"}
    BY <1>2, <2>1, TimerGoalFacts
  <2>3. /\ goal \in Down <=> s.store.state \in Down
        /\ CountOK(goal, Recount(s.store.state, goal, s.store.presses))
        /\ ~Miscounted(Key(s.store.state, goal, contact), s.store.presses)
    BY <1>2, TimerGoalDue
  <2> HIDE DEF goal
  <2>4. goal \in Goals /\ goal # "NOP"
    BY <2>2 DEF Goals, States
  <2>5. on \in BOOLEAN
    OBVIOUS
  <2>6. TimerStep(s) = t \/ TimerStep(s) = [t EXCEPT !.store.elapsed = 0]
    BY <1>2 DEF TimerStep, goal
  <2>7. Typed(t)
    BY <2>1, <2>4, <2>5, ChangeTyped
  <2> HIDE DEF on, t
  <2>8. /\ t.store.lastValue = s.store.lastValue /\ t.store.delayedState = FALSE
        /\ t.store.state = goal
    <3>1. LoopChanged(s, goal, contact, on)
      BY <2>1, <2>4, <2>5, ChangeLoop
    <3> QED
      BY <2>4, <3>1 DEF LoopChanged, t
  <2>9. /\ t.store.presses = Recount(s.store.state, goal, s.store.presses)
        /\ t.lamp.miscounted =>
             s.lamp.miscounted \/ Miscounted(Key(s.store.state, goal, contact), s.store.presses)
    BY <2>1, <2>4, <2>5, CountLoop DEF LoopCounted, t
  <2>10. Counted(t)
    BY <2>3, <2>8, <2>9 DEF Counted
  <2>11. Counted([t EXCEPT !.store.elapsed = 0])
    BY <2>7, <2>10, StampCounts
  <2> QED
    BY <2>6, <2>10, <2>11
<1> QED
  BY <1>1, <1>2

\* The contact leads to a state that fits it, counted with this press; it leads nowhere only
\* if it has not changed.
LEMMA ContactGoalDue ==
  ASSUME NEW s, Kept(s), Counted(s), ~s.store.delayedState, NEW value \in BOOLEAN, NEW p,
         p = IF value /\ ~s.store.lastValue /\ s.store.presses < 4
               THEN s.store.presses + 1 ELSE s.store.presses
  PROVE  LET goal == ContactGoal(s.store.state, value)
         IN /\ goal = "NOP" => p = s.store.presses /\ value = s.store.lastValue
            /\ goal # "NOP" => Due(s.store.state, goal, value, p)
<1> DEFINE goal == ContactGoal(s.store.state, value)  state == s.store.state  q == s.store.presses
           last == s.store.lastValue
<1>1. CountOK(state, q) /\ (Second = {} => state \in FlatStates) /\ state \in States
      /\ (last <=> state \in Down) /\ last \in BOOLEAN /\ q \in 0 .. 4
  BY DEF Counted, Kept, Flat, Typed, Stores
<1>2. p = IF value /\ ~last /\ q < 4 THEN q + 1 ELSE q
  OBVIOUS
<1>3. value =>
        \/ state = "IDLE" /\ goal = "PRESSED"
        \/ state \in {"RELEASED", "WAITPRESS"} /\ goal = IF Second = {} THEN "PRESSED" ELSE "PRESSED2"
        \/ state = "RELEASED2" /\ goal = "PRESSED3"
        \/ state \notin {"IDLE", "RELEASED", "WAITPRESS", "RELEASED2"} /\ goal = "NOP"
  BY DEF ContactGoal
<1>4. ~value =>
        \/ state = "PRESSED" /\ goal = "RELEASED"
        \/ state \in {"LONG", "REPEAT", "WAITRELEASE"} /\ goal = "WAITPRESS"
        \/ state = "PRESSED2" /\ goal = IF Second = {} THEN "IDLE" ELSE "RELEASED2"
        \/ state \in {"LONG2", "REPEAT2", "LONG3", "REPEAT3", "PRESSED3"} /\ goal = "IDLE"
        \/ state \notin Down /\ goal = "NOP"
  BY DEF ContactGoal, Down
<1> HIDE DEF goal, state, q, last
<1>5. CASE value
  <2>1. CASE goal = "NOP"
    <3>1. state \in Down
      BY <1>1, <1>3, <1>5, <2>1 DEF States, Down
    <3> QED
      BY <1>1, <1>2, <1>5, <2>1, <3>1 DEF goal, state, q, last
  <2>2. CASE goal # "NOP"
    <3>1. ~last /\ goal \in Down
      BY <1>1, <1>3, <1>5, <2>2 DEF Down
    <3>2. CountOK(goal, Recount(state, goal, p))
      BY <1>1, <1>2, <1>3, <1>5, <2>2, <3>1 DEF CountOK, Recount
    <3>3. Key(state, goal, value) \in {"scmd", "scmd2", "scmd3"}
      BY <1>3, <1>5, <2>2 DEF Key
    <3>4. Due(state, goal, value, p)
      BY <1>5, <3>1, <3>2, <3>3 DEF Due, Miscounted
    <3> QED
      BY <2>2, <3>4 DEF goal, state
  <2> QED
    BY <2>1, <2>2
<1>6. CASE ~value
  <2>1. p = q
    BY <1>2, <1>6
  <2>2. CASE goal = "NOP"
    <3>1. state \notin Down
      BY <1>4, <1>6, <2>2
    <3> QED
      BY <1>1, <1>6, <2>1, <2>2, <3>1 DEF goal, state, q, last
  <2>3. CASE goal # "NOP"
    <3>1. goal \notin Down
      BY <1>4, <1>6, <2>3 DEF Down
    <3>2. CountOK(goal, Recount(state, goal, p))
      BY <1>1, <1>4, <1>6, <2>1, <2>3 DEF CountOK, Recount
    <3>3. /\ Key(state, goal, value) \in {"rcmd", "tclick"}
          /\ Key(state, goal, value) = "tclick" => state = "PRESSED3"
      BY <1>4, <1>6, <2>3 DEF Key
    <3>4. ~Miscounted(Key(state, goal, value), p)
      BY <1>1, <2>1, <3>3 DEF Miscounted, CountOK, FlatStates
    <3>5. Due(state, goal, value, p)
      BY <1>6, <3>1, <3>2, <3>4 DEF Due
    <3> QED
      BY <2>3, <3>5 DEF goal, state
  <2> QED
    BY <2>2, <2>3
<1> QED
  BY <1>5, <1>6

LEMMA ConfirmedCounts ==
  ASSUME NEW s, Kept(s), Counted(s), NEW interrupt \in BOOLEAN, interrupt => interrupts,
         contact \in BOOLEAN
  PROVE  Counted(Confirmed(s, interrupt))
<1>0. Typed(s) /\ s.store \in Stores /\ s.lamp \in Lamps
  BY DEF Kept, Typed
<1>1. CASE s.store.delayedState
  BY <1>0, <1>1, StampCounts DEF Confirmed
<1>2. CASE ~s.store.delayedState
  <2> DEFINE goal  == ContactGoal(s.store.state, contact)
             count == IF contact /\ ~s.store.lastValue /\ s.store.presses < 4
                        THEN s.store.presses + 1 ELSE s.store.presses
             seen  == [s EXCEPT !.store.presses = count]
             on    == goal = "NOP" /\ contact = s.store.lastValue
             t     == ChangeState(seen, goal, interrupt, contact, on)
             u     == [t EXCEPT !.store.elapsed = 0, !.store.lastValue = contact]
  <2>1. /\ goal = "NOP" => count = s.store.presses /\ contact = s.store.lastValue
        /\ goal # "NOP" => Due(s.store.state, goal, contact, count)
    BY <1>2, ContactGoalDue
  <2>2. goal \in Goals \ {s.store.state}
    BY <1>0, ContactGoalFacts
  <2>3. Confirmed(s, interrupt) = u
    BY <1>2 DEF Confirmed
  <2>4. count \in 0 .. 4
    BY <1>0 DEF Stores
  <2> HIDE DEF goal, count
  <2>5. on \in BOOLEAN /\ (on => goal = "NOP")
    OBVIOUS
  <2> HIDE DEF on
  <2>6. /\ Typed(seen) /\ seen.lamp = s.lamp
        /\ seen.store.state = s.store.state /\ seen.store.presses = count
        /\ seen.store.lastValue = s.store.lastValue
    BY <1>0, <2>4 DEF Typed, Stores
  <2> HIDE DEF seen
  <2>7. Typed(t)
    BY <2>2, <2>5, <2>6, ChangeTyped
  <2> HIDE DEF t
  <2>8. /\ u.lamp = t.lamp /\ u.store.state = t.store.state /\ u.store.reqState = t.store.reqState
        /\ u.store.delayedState = t.store.delayedState
        /\ u.store.lastValue = contact /\ u.store.presses = t.store.presses
    BY <2>7 DEF Typed, Stores
  <2>9. ~s.lamp.miscounted /\ CountOK(s.store.state, s.store.presses)
        /\ (s.store.lastValue <=> s.store.state \in Down)
    BY <1>2 DEF Counted
  <2> HIDE DEF u
  <2>10. goal = "NOP" => Recount(s.store.state, goal, count) = count
    BY DEF Recount
  <2>11. CASE interrupt
    <3>1. interrupt = TRUE
      BY <2>11
    <3>2. /\ t.lamp = s.lamp /\ t.store.reqState = goal
          /\ t.store.delayedState =>
               t.store.state = s.store.state /\ t.store.presses = count
          /\ ~t.store.delayedState =>
               /\ t.store.presses = Recount(s.store.state, goal, count)
               /\ t.store.state = IF goal = "NOP" THEN s.store.state ELSE goal
      <4>1. InterruptCounted(seen, goal, contact, on)
        BY <1>0, <2>2, <2>5, <2>6, CountInterrupt
      <4>2. t = ChangeState(seen, goal, TRUE, contact, on)
        BY <3>1 DEF t
      <4> QED
        BY <4>1, <4>2, <2>6 DEF InterruptCounted
    <3>3. CASE goal = "NOP"
      BY <2>1, <2>3, <2>8, <2>9, <2>10, <3>2, <3>3 DEF Counted
    <3>4. CASE goal # "NOP" /\ t.store.delayedState
      BY <2>1, <2>3, <2>8, <2>9, <3>2, <3>4 DEF Counted
    <3>5. CASE goal # "NOP" /\ ~t.store.delayedState
      BY <2>1, <2>3, <2>8, <2>9, <3>2, <3>5 DEF Counted, Due
    <3> QED
      BY <3>3, <3>4, <3>5
  <2>12. CASE ~interrupt
    <3>1. interrupt = FALSE
      BY <2>12
    <3>2. /\ t.store.delayedState = FALSE
          /\ t.store.state = IF goal = "NOP" THEN s.store.state ELSE goal
      <4>1. LoopChanged(seen, goal, contact, on)
        BY <2>2, <2>5, <2>6, ChangeLoop
      <4> QED
        BY <2>6, <3>1, <4>1 DEF LoopChanged, t
    <3>3. /\ t.store.presses = Recount(s.store.state, goal, count)
          /\ t.lamp.miscounted =>
               s.lamp.miscounted \/ Miscounted(Key(s.store.state, goal, contact), count)
      <4>1. LoopCounted(seen, goal, contact, on)
        BY <1>0, <2>2, <2>5, <2>6, CountLoop
      <4> QED
        BY <2>6, <3>1, <4>1 DEF LoopCounted, t
    <3>4. CASE goal = "NOP"
      <4>1. ~Miscounted(Key(s.store.state, goal, contact), count)
        BY <3>4 DEF Miscounted, Key
      <4> QED
        BY <2>1, <2>3, <2>8, <2>9, <2>10, <3>2, <3>3, <3>4, <4>1 DEF Counted
    <3>5. CASE goal # "NOP"
      BY <2>1, <2>3, <2>8, <2>9, <3>2, <3>3, <3>5 DEF Counted, Due
    <3> QED
      BY <3>4, <3>5
  <2> QED
    BY <2>11, <2>12
<1> QED
  BY <1>1, <1>2

LEMMA SampledCounts ==
  ASSUME NEW s, Kept(s), Counted(s), NEW interrupt \in BOOLEAN, interrupt => interrupts,
         contact \in BOOLEAN
  PROVE  Counted(Sampled(s, interrupt))
<1>1. ASSUME NEW n
      PROVE  Counted([s EXCEPT !.store.bounce = n])
  <2> DEFINE u == [s EXCEPT !.store.bounce = n]
  <2>1. /\ u.lamp = s.lamp
        /\ u.store.state = s.store.state /\ u.store.reqState = s.store.reqState
        /\ u.store.delayedState = s.store.delayedState
        /\ u.store.lastValue = s.store.lastValue /\ u.store.presses = s.store.presses
    BY DEF Kept, Typed, Stores
  <2> HIDE DEF u
  <2>2. Counted(u)
    BY <2>1 DEF Counted
  <2> QED
    BY <2>2 DEF u
<1>2. Sampled(s, interrupt) = [s EXCEPT !.store.bounce = ATTEMPTS]
      \/ Sampled(s, interrupt) = [s EXCEPT !.store.bounce = s.store.bounce - 1]
      \/ Sampled(s, interrupt) = Confirmed(s, interrupt)
  BY DEF Sampled
<1>3. Counted(Confirmed(s, interrupt))
  BY ConfirmedCounts
<1> QED
  BY <1>1, <1>2, <1>3

\* The count is right in every state, of the input and of what is requested of it.
LEMMA CountedAlways == Spec => []Counted(Input)
<1>1. Init => Counted(Input)
  <2> SUFFICES ASSUME Init PROVE Counted(Input)
    OBVIOUS
  <2>1. Input.store = store /\ Input.lamp = lamp
    BY DEF Input
  <2> QED
    BY <2>1 DEF Init, Counted, CountOK, Down
<1>2. IInv /\ Counted(Input) /\ [Next]_vars => Counted(Input)'
  <2> SUFFICES ASSUME IInv, Counted(Input), [Next]_vars PROVE Counted(Input)'
    OBVIOUS
  <2>1. contact \in BOOLEAN /\ Kept(Input)
    BY DEF IInv
  <2>2. ASSUME NEW s, Counted(s), store' = s.store, lamp' = s.lamp, keys' = keys
        PROVE  Counted(Input)'
    <3>1. Input'.store = s.store /\ Input'.lamp = s.lamp
      BY <2>2 DEF Input
    <3>2. Second' = Second
      BY <2>2 DEF Second
    <3> QED
      BY <2>2, <3>1, <3>2 DEF Counted, CountOK, Due, Miscounted, Key, Recount, Down
  <2>3. CASE PollLoop
    <3> DEFINE a == Requested(Input)
               b == TimerStep(a)
               c == Sampled(b, FALSE)
    <3>1. Kept(a) /\ ~a.store.delayedState /\ Counted(a)
      BY <2>1, RequestedKept, RequestedCounts
    <3> HIDE DEF a
    <3>2. Kept(b) /\ Counted(b)
      BY <2>1, <3>1, TimerKept, TimerCounts
    <3> HIDE DEF b
    <3>3. Counted(c)
      BY <2>1, <3>2, SampledCounts
    <3>4. store' = c.store /\ lamp' = c.lamp /\ keys' = keys
      BY <2>3 DEF PollLoop, a, b
    <3> HIDE DEF c
    <3> QED
      BY <2>2, <3>3, <3>4
  <2>4. CASE PollInterrupt
    <3> DEFINE c == Sampled(Input, TRUE)
    <3>1. interrupts /\ store' = c.store /\ lamp' = c.lamp /\ keys' = keys
      BY <2>4 DEF PollInterrupt
    <3>2. Counted(c)
      BY <2>1, <3>1, SampledCounts
    <3> HIDE DEF c
    <3> QED
      BY <2>2, <3>1, <3>2
  <2>5. CASE Touch \/ LeaveAlone \/ UNCHANGED vars
    <3>1. store' = Input.store /\ lamp' = Input.lamp /\ keys' = keys
      BY <2>5 DEF Touch, LeaveAlone, vars, Input
    <3> QED
      BY <2>2, <3>1
  <2>6. CASE Tick
    <3> DEFINE u == [store |-> [store EXCEPT !.elapsed = (@ + 1) % CLOCK], lamp |-> lamp]
    <3>1. store' = u.store /\ lamp' = u.lamp /\ keys' = keys
      BY <2>6 DEF Tick
    <3>2. store \in Stores
      BY <2>1 DEF Kept, Typed, Input
    <3>3. /\ u.lamp = Input.lamp
          /\ u.store.state = Input.store.state /\ u.store.reqState = Input.store.reqState
          /\ u.store.delayedState = Input.store.delayedState
          /\ u.store.lastValue = Input.store.lastValue
          /\ u.store.presses = Input.store.presses
      BY <3>2 DEF Stores, Input
    <3> HIDE DEF u
    <3>4. Counted(u)
      BY <3>3 DEF Counted
    <3> QED
      BY <2>2, <3>1, <3>4
  <2> QED
    BY <2>3, <2>4, <2>5, <2>6 DEF Next
<1> QED
  BY <1>1, <1>2, Invariant, PTL DEF Spec

\* click, dclick and tclick are executed after one, two and three presses, for every set of
\* keys and all times, whichever of the presses are seen by interrupts.
THEOREM GesturesCountedHolds == Spec => []GesturesCounted
<1>1. Counted(Input) => GesturesCounted
  BY DEF Counted, GesturesCounted, Input
<1> QED
  BY <1>1, CountedAlways, PTL
=============================================================================
