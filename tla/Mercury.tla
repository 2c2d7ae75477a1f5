-------------------------------- MODULE Mercury --------------------------------
(***************************************************************************)
(* out_Mercury: an electric meter that answers only within a session, which it  *)
(* closes after some minutes of silence.  The driver logs in, asks for six      *)
(* groups of values, waits, and asks again.                                   *)
(***************************************************************************)
EXTENDS Integers

CONSTANTS
  \* Times, in units that are long against a round of polling.
  Interval,     \* pollingInterval
  WAIT,         \* 10000 ms, before a login
  KEEP          \* 240000 ms, without an answer

LAST == 6       \* M_POLLING6

\* What the constants have to be.
Configured == Interval \in Nat /\ WAIT \in Nat /\ KEEP \in Nat

VARIABLES
  mercury,      \* status; the requests answered of a round, for M_POLLING1 .. M_POLLING6; and
                \* the ages of timestamp and lastSuccessTS
  session,      \* of the meter: it is "locked" if it refuses what is configured for the login
  wire,         \* modbusBusy, or the silence that mbusSlenceTimer asks for
  stale         \* the age of the last complete round

mercuryVars == <<mercury, session, wire, stale>>

TypeOK ==
  /\ mercury \in [status : {"INITIALIZED", "CONNECTING", "CONNECTED", "POLLING", "FAILED"},
                polled : 0 .. LAST - 1, since : 0 .. Interval + WAIT, ok : 0 .. KEEP]
  /\ session \in {"open", "closed", "locked"} /\ wire \in BOOLEAN /\ stale \in 0 .. Interval + 1

Init ==
  /\ mercury = [status |-> "INITIALIZED", polled |-> 0, since |-> 0, ok |-> 0]
  /\ session \in {"open", "closed", "locked"} /\ wire = FALSE /\ stale = 0

\* Stop and Setup, for a new configuration or at a start; the session that Stop closes stays
\* open if the line is taken or the power was off.
Setup ==
  /\ mercury' = [mercury EXCEPT !.status = "INITIALIZED", !.polled = 0, !.since = 0]
  /\ session' \in {session, IF session = "open" THEN "closed" ELSE session}
  /\ UNCHANGED <<wire, stale>>

Goes(status) == [mercury EXCEPT !.status = status, !.polled = 0]

InTime == mercury.status = "INITIALIZED" /\ mercury.since >= WAIT
InitializedStep ==
  InTime /\ mercury' = Goes("CONNECTING") /\ UNCHANGED <<session, stale>>

\* connectMercury
Login ==
  /\ mercury.status = "CONNECTING"
  /\ IF session = "locked" THEN mercury' = Goes("FAILED") /\ session' = session
     ELSE mercury' = [Goes("CONNECTED") EXCEPT !.ok = 0] /\ session' = "open"
  /\ UNCHANGED stale
LoginFails ==
  /\ mercury.status = "CONNECTING" /\ mercury' = [Goes("INITIALIZED") EXCEPT !.since = 0]
  /\ UNCHANGED <<session, stale>>

\* Of the two checks the second has the last word.
InConnected == mercury.status = "CONNECTED" /\ (mercury.since >= Interval \/ mercury.ok >= KEEP)
ConnectedStep ==
  /\ InConnected /\ UNCHANGED <<session, stale>>
  /\ mercury' = Goes(IF mercury.since >= Interval THEN "POLLING" ELSE "INITIALIZED")

\* getCurrentVal12, getCounters
Answered ==
  /\ mercury.status = "POLLING" /\ session = "open" /\ UNCHANGED session
  /\ mercury' = [mercury EXCEPT !.polled = (@ + 1) % LAST, !.since = 0, !.ok = 0,
                            !.status = IF mercury.polled = LAST - 1 THEN "CONNECTED" ELSE @]
  /\ stale' = IF mercury.polled = LAST - 1 THEN 0 ELSE stale

\* Mutant of NoSession: fails for good, as after a refused login.
NoSessionFails == {"FAILED", "INITIALIZED"}

\* A meter without a session says so, in an answer that has another length than expected:
\* RET_NOT_CONNECTED, or an error.
NoSession == {"CONNECTING", "INITIALIZED"}
Unanswered ==
  /\ mercury.status = "POLLING" /\ session # "open"
  /\ \E s \in NoSession : mercury' = Goes(s)
  /\ UNCHANGED <<session, stale>>
PollFails ==
  /\ mercury.status = "POLLING" /\ session = "open" /\ mercury' = Goes("INITIALIZED")
  /\ UNCHANGED <<session, stale>>

Due == InTime \/ InConnected \/ mercury.status \in {"CONNECTING", "POLLING"}
Poll == ~wire /\ UNCHANGED wire /\ (InitializedStep \/ Login \/ ConnectedStep \/ Answered \/ Unanswered)
Failing == ~wire /\ UNCHANGED wire /\ (LoginFails \/ PollFails)

Take == ~wire /\ wire' = TRUE /\ UNCHANGED <<mercury, session, stale>>
Release == wire /\ wire' = FALSE /\ UNCHANGED <<mercury, session, stale>>

\* The meter closes its session, at the end of its time or with its power.
Closes == session = "open" /\ session' = "closed" /\ UNCHANGED <<mercury, wire, stale>>

Capped(t, most) == IF t < most THEN t + 1 ELSE t
Tick ==
  /\ wire \/ ~Due
  /\ mercury' = [mercury EXCEPT !.since = Capped(@, Interval + WAIT), !.ok = Capped(@, KEEP)]
  /\ stale' = Capped(stale, Interval + 1) /\ UNCHANGED <<session, wire>>

Outside == Setup \/ Failing \/ Take \/ (Closes /\ mercury.ok < KEEP)
Next == Outside \/ Poll \/ Release \/ Closes \/ Tick

Spec == Init /\ [][Next]_mercuryVars
FairSpec == Spec /\ WF_mercuryVars(Poll) /\ WF_mercuryVars(Release) /\ WF_mercuryVars(Tick)

-----------------------------------------------------------------------------
(***************************************************************************)
(* Properties                                                              *)
(***************************************************************************)

\* The driver gives up a meter that refuses the login, and no other, and asks no values of it.
GivesUpRefused ==
  /\ mercury.status = "FAILED" => session = "locked"
  /\ session = "locked" => mercury.status \notin {"CONNECTED", "POLLING"}
  /\ mercury.polled # 0 => mercury.status = "POLLING"

\* Whatever failed before, a meter that lets the driver in is read again once it answers, and
\* then in every interval; the driver gives up a meter that refuses the login, and no other.
Quiet == ~Outside
Fresh ==
  /\ (mercury.status = "FAILED") <=> (session = "locked")
  /\ session # "locked" => stale <= Interval
ReadAgain == <>[][Quiet]_mercuryVars => <>[]Fresh
=============================================================================
