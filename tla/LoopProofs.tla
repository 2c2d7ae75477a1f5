------------------------------- MODULE LoopProofs -------------------------------
(***************************************************************************)
(* Proofs about the drivers that go through their configuration in a loop:    *)
(* the Modbus master, for any number of parameters, any prefetch, sendchanges *)
(* and mappings and any values of the registers, and the ventilation, for any *)
(* number of zones of any volume, any commands and reports, and whatever the  *)
(* PIDs compute.  What a loop does is proved by the first round that does not. *)
(***************************************************************************)
EXTENDS Integers, WellFoundedInduction, TLAPS

CONSTANTS PARAMS, Values, Writable, Prefetch, Changes, Def, Unmapped, byName, NoValue
VARIABLES out, todo, seen, busy, silent, due, reg, owed, own, runs
Master == INSTANCE Modbus

\* Parameters whose commands are noted as they come, and whose writes are not prefetched.
Plain == Master!Params \ (Prefetch \cup Changes)

\* What is on the line: a parameter that is to be written, and the value noted for it.
BusyOK ==
  busy.at \in {"prefetch", "write", "wait"} =>
    /\ busy.p \in Master!Params /\ todo[busy.p].need
    /\ busy.sent # NoValue
    /\ busy.at = "prefetch" => busy.p \in Prefetch
    /\ busy.p \notin Prefetch => busy.sent = busy.saved

\* What is to be written has a value; what is owed is that value; what we have written is there.
NotedOK == \A p \in Master!Params : todo[p].need => out[p] # NoValue
OwedOK ==
  \A p \in Plain : owed[p] # NoValue => todo[p].need /\ out[p] = owed[p]
OwnOK ==
  \A p \in Plain : own[p] /\ ~todo[p].need /\ out[p] # NoValue => out[p] = reg[p]

\* A register that differs from what was read last; a mapping that refers to another parameter,
\* and how often what is known of that one may still execute an action.
Fresh(s, p) == s[p].empty \/ s[p].val # reg[p]
Refers(p) == Def[p] # 0 /\ reg[p] \in Unmapped[p]
Left(s, d) == IF Fresh(s, d) THEN 2 ELSE IF s[d].old THEN 0 ELSE 1

CountedOK ==
  \A p \in Master!Params :
    /\ Fresh(seen, p) => runs[p] = 0
    /\ ~Refers(p) => runs[p] <= 1
    /\ Refers(p) => runs[p] + Left(seen, Def[p]) <= 2

MasterInv == Master!TypeOK /\ BusyOK /\ NotedOK /\ OwedOK /\ OwnOK /\ CountedOK

Less == {p \in Nat \X Nat : p[1] < p[2]}

LEMMA LessWellFounded == IsWellFoundedOn(Less, Nat)
<1>1. IsWellFoundedOn(OpToRel(<, Nat), Nat)
  BY NatLessThanWellFounded
<1>2. OpToRel(<, Nat) = Less
  BY DEF OpToRel, Less
<1>. QED
  BY <1>1, <1>2

\* Every set of natural numbers has a least one: what a loop does is proved by the first round
\* that does not.
LEMMA Least ==
  ASSUME NEW T \in SUBSET Nat, T # {}
  PROVE  \E n \in T : \A m \in T : n <= m
<1>1. PICK n \in T : \A m \in T : <<m, n>> \notin Less
  BY LessWellFounded, WFMin
<1>2. \A m \in T : ~(m < n)
  BY <1>1 DEF Less
<1>. QED
  BY <1>1, <1>2

LEMMA NextIs ==
  ASSUME Master!Configured, NEW q, NEW t
  PROVE  /\ Master!NextToSend(q, t) \in 0 .. PARAMS
         /\ Master!NextToSend(q, t) # 0 => Master!NextToSend(q, t) > q /\ t[Master!NextToSend(q, t)].need
<1>. DEFINE waiting == {p \in Master!Params : p > q /\ t[p].need /\ ~t[p].error}
<1>1. CASE waiting = {}
  BY <1>1 DEF Master!NextToSend, Master!Configured
<1>2. CASE waiting # {}
  <2>1. waiting \in SUBSET Nat
    BY DEF Master!Params
  <2>2. \E n \in waiting : \A m \in waiting : n <= m
    BY <1>2, <2>1, Least
  <2>3. (CHOOSE n \in waiting : \A m \in waiting : n <= m) \in waiting
    BY <2>2
  <2>4. Master!NextToSend(q, t) = (CHOOSE n \in waiting : \A m \in waiting : n <= m)
    BY <1>2 DEF Master!NextToSend
  <2>. QED
    BY <2>3, <2>4 DEF Master!Params, Master!Configured
<1>. QED
  BY <1>1, <1>2

\* FoundIn is what its definition says: such a function exists up to every parameter.
Rounds(g, m) ==
  g = [n \in 0 .. m |-> IF n = 0 THEN [seen |-> seen, out |-> out, exec |-> {}]
                        ELSE Master!Found(g[n - 1], n)]

LEMMA RoundsExist ==
  ASSUME NEW m \in Nat
  PROVE  \E g : Rounds(g, m)
<1>. DEFINE T == {n \in Nat : ~\E g : Rounds(g, n)}
<1>. SUFFICES ASSUME T # {} PROVE FALSE
  OBVIOUS
<1>1. PICK k \in T : \A n \in T : k <= n
  BY Least
<1>2. CASE k = 0
  <2>. DEFINE g == [n \in 0 .. 0 |-> [seen |-> seen, out |-> out, exec |-> {}]]
  <2>1. g = [n \in 0 .. 0 |-> IF n = 0 THEN [seen |-> seen, out |-> out, exec |-> {}]
                              ELSE Master!Found(g[n - 1], n)]
    OBVIOUS
  <2>. HIDE DEF g
  <2>2. Rounds(g, 0)
    BY <2>1 DEF Rounds
  <2>. QED
    BY <1>1, <1>2, <2>2
<1>3. CASE k # 0
  <2>1. k - 1 \in Nat /\ k - 1 \notin T
    BY <1>1, <1>3
  <2>2. PICK h : Rounds(h, k - 1)
    BY <2>1
  <2>. DEFINE g == [n \in 0 .. k |-> IF n = k THEN Master!Found(h[k - 1], k) ELSE h[n]]
  <2>3. \A n \in 0 .. k - 1 : g[n] = h[n]
    BY <1>1
  <2>4. ASSUME NEW n \in 0 .. k
        PROVE  g[n] = IF n = 0 THEN [seen |-> seen, out |-> out, exec |-> {}]
                      ELSE Master!Found(g[n - 1], n)
    <3>1. CASE n = k
      <4>1. g[n] = Master!Found(h[k - 1], k) /\ g[k - 1] = h[k - 1]
        BY <1>1, <1>3, <2>3, <3>1
      <4>. QED
        BY <1>3, <3>1, <4>1
    <3>2. CASE n # k
      <4>1. n \in 0 .. k - 1 /\ (n # 0 => n - 1 \in 0 .. k - 1)
        BY <1>1, <3>2
      <4>2. h[n] = IF n = 0 THEN [seen |-> seen, out |-> out, exec |-> {}]
                   ELSE Master!Found(h[n - 1], n)
        BY <2>2, <4>1 DEF Rounds
      <4>. HIDE DEF g
      <4>. QED
        BY <2>3, <4>1, <4>2
    <3>. QED
      BY <3>1, <3>2
  <2>5. g = [n \in 0 .. k |-> g[n]]
    OBVIOUS
  <2>. HIDE DEF g
  <2>6. g = [n \in 0 .. k |-> IF n = 0 THEN [seen |-> seen, out |-> out, exec |-> {}]
                              ELSE Master!Found(g[n - 1], n)]
    BY <2>4, <2>5
  <2>7. Rounds(g, k)
    BY <2>6 DEF Rounds
  <2>. QED
    BY <1>1, <2>7
<1>. QED
  BY <1>2, <1>3

LEMMA FoundInIs ==
  ASSUME Master!Configured
  PROVE  /\ Master!FoundIn[0] = [seen |-> seen, out |-> out, exec |-> {}]
         /\ \A n \in Master!Params : Master!FoundIn[n] = Master!Found(Master!FoundIn[n - 1], n)
<1>1. PARAMS \in Nat
  BY DEF Master!Configured
<1>2. \E g : Rounds(g, PARAMS)
  BY <1>1, RoundsExist
<1>3. Master!FoundIn = CHOOSE g : Rounds(g, PARAMS)
  BY DEF Master!FoundIn, Rounds
<1>4. Rounds(Master!FoundIn, PARAMS)
  BY <1>2, <1>3
<1>5. Master!FoundIn = [n \in 0 .. PARAMS |-> IF n = 0 THEN [seen |-> seen, out |-> out, exec |-> {}]
                                       ELSE Master!Found(Master!FoundIn[n - 1], n)]
  BY <1>4 DEF Rounds
<1>6. \A n \in 0 .. PARAMS : Master!FoundIn[n] = IF n = 0 THEN [seen |-> seen, out |-> out, exec |-> {}]
                                         ELSE Master!Found(Master!FoundIn[n - 1], n)
  BY <1>5
<1>. QED
  BY <1>1, <1>6 DEF Master!Params

SeenT == [Master!Params -> [val : Values, empty : BOOLEAN, old : BOOLEAN]]
OutT  == [Master!Params -> Values \cup {NoValue}]

Read(p) == [val |-> reg[p], empty |-> FALSE, old |-> FALSE]

\* What findRegister for a mapping that refers to d may do to what was read last.
LEMMA ReferredIs ==
  ASSUME Master!Configured, reg \in [Master!Params -> Values], NEW s \in SeenT, NEW d \in Master!Params
  PROVE  LET r == Master!Referred(s, d)
         IN /\ r.seen \in SeenT
            /\ \A q \in Master!Params \ {d} : r.seen[q] = s[q]
            /\ ~Fresh(s, d) => r.seen[d] = [s[d] EXCEPT !.old = TRUE] /\ r.news = ~s[d].old
            /\ r.sure \in BOOLEAN /\ r.news \in BOOLEAN
            /\ ~r.sure => ~r.news
<1>. DEFINE told == [s EXCEPT ![d].old = TRUE]
            taken == [s EXCEPT ![d] = Read(d)]
<1>1. told \in SeenT /\ told[d] = [s[d] EXCEPT !.old = TRUE] /\ \A q \in Master!Params \ {d} : told[q] = s[q]
  BY DEF SeenT
<1>2. taken \in SeenT /\ \A q \in Master!Params \ {d} : taken[q] = s[q]
  BY DEF SeenT, Read
<1>3. CASE byName
  <2>1. Master!Referred(s, d) = [news |-> ~s[d].old, sure |-> ~s[d].old, seen |-> told]
    BY <1>3 DEF Master!Referred
  <2>2. (~s[d].old) \in BOOLEAN
    OBVIOUS
  <2>. HIDE DEF told
  <2>. QED
    BY <1>1, <2>1, <2>2
<1>4. CASE ~byName /\ s[d].val = reg[d] /\ ~s[d].empty
  <2>1. Master!Referred(s, d) = [news |-> ~s[d].old, sure |-> TRUE, seen |-> told]
    BY <1>4 DEF Master!Referred
  <2>2. (~s[d].old) \in BOOLEAN
    OBVIOUS
  <2>. HIDE DEF told
  <2>. QED
    BY <1>1, <2>1, <2>2
<1>5. CASE ~byName /\ ~(s[d].val = reg[d] /\ ~s[d].empty)
  <2>1. Master!Referred(s, d) = [news |-> TRUE, sure |-> TRUE, seen |-> taken]
    BY <1>5 DEF Master!Referred, Read
  <2>2. Fresh(s, d)
    BY <1>5 DEF Fresh
  <2>. HIDE DEF taken
  <2>. QED
    BY <1>2, <2>1, <2>2
<1>. QED
  BY <1>3, <1>4, <1>5

\* One round: what it may do to @S, to @V and to the actions.
Round(f, g, p) ==
  /\ g = [seen |-> g.seen, out |-> g.out, exec |-> g.exec]
  /\ g.seen \in SeenT /\ g.out \in OutT
  /\ ~Fresh(g.seen, p)
  /\ \A q \in Master!Params : ~Fresh(f.seen, q) => ~Fresh(g.seen, q) /\ (f.seen[q].old => g.seen[q].old)
  /\ \A q \in Master!Params \ {p} : g.out[q] = f.out[q]
  /\ \/ g.out[p] = f.out[p]
     \/ ~todo[p].need /\ f.out[p] # NoValue /\ g.out[p] = reg[p]
  /\ g.exec = f.exec \/ g.exec = f.exec \cup {p}
  /\ g.exec # f.exec /\ ~Refers(p) => Fresh(f.seen, p) /\ f.out[p] # reg[p]
  /\ g.exec # f.exec /\ Refers(p) =>
       \/ Fresh(f.seen, p)
       \/ Fresh(f.seen, Def[p])
       \/ ~f.seen[Def[p]].old /\ g.seen[Def[p]].old

LEMMA FoundRound ==
  ASSUME Master!Configured, reg \in [Master!Params -> Values], NEW f, NEW p \in Master!Params,
         f.seen \in SeenT, f.out \in OutT,
         f = [seen |-> f.seen, out |-> f.out, exec |-> f.exec]
  PROVE  Round(f, Master!Found(f, p), p)
<1>. DEFINE r == IF Refers(p) THEN Master!Referred(f.seen, Def[p])
                 ELSE [news |-> FALSE, sure |-> FALSE, seen |-> f.seen]
            fresh == r.seen[p].empty \/ r.seen[p].val # reg[p]
            seen1 == IF fresh THEN [r.seen EXCEPT ![p] = Read(p)] ELSE r.seen
            set == f.out[p] = reg[p]
            g == Master!Found(f, p)
<1>1. g = IF r.sure THEN [f EXCEPT !.seen = seen1, !.exec = IF r.news \/ fresh THEN @ \cup {p} ELSE @]
          ELSE IF ~fresh \/ set THEN [f EXCEPT !.seen = seen1]
          ELSE [seen |-> seen1, exec |-> f.exec \cup {p},
                out |-> IF f.out[p] # NoValue /\ ~todo[p].need THEN [f.out EXCEPT ![p] = reg[p]] ELSE f.out]
  BY DEF Master!Found, Refers, Read
<1>2. Refers(p) => Def[p] \in Master!Params /\ Def[p] # p
  BY DEF Master!Configured, Master!Params, Refers
<1>3. /\ r.seen \in SeenT
      /\ r.seen[p] = f.seen[p]
      /\ \A q \in Master!Params : ~Fresh(f.seen, q) => ~Fresh(r.seen, q) /\ (f.seen[q].old => r.seen[q].old)
      /\ r.sure \in BOOLEAN /\ r.news \in BOOLEAN
      /\ ~r.sure => ~r.news
      /\ ~Refers(p) => ~r.sure
      /\ Refers(p) /\ ~Fresh(f.seen, Def[p]) => r.seen[Def[p]].old /\ r.news = ~f.seen[Def[p]].old
  <2>1. CASE Refers(p)
    <3>. DEFINE x == Master!Referred(f.seen, Def[p])
    <3>1. /\ x.seen \in SeenT
          /\ \A q \in Master!Params \ {Def[p]} : x.seen[q] = f.seen[q]
          /\ ~Fresh(f.seen, Def[p]) => /\ x.seen[Def[p]] = [f.seen[Def[p]] EXCEPT !.old = TRUE]
                                       /\ x.news = ~f.seen[Def[p]].old
          /\ x.sure \in BOOLEAN /\ x.news \in BOOLEAN
          /\ ~x.sure => ~x.news
      BY <1>2, <2>1, ReferredIs
    <3>2. r = x
      BY <2>1
    <3>. HIDE DEF x, r
    <3>3. ~Fresh(f.seen, Def[p]) => x.seen[Def[p]].old /\ ~Fresh(x.seen, Def[p])
      BY <1>2, <2>1, <3>1 DEF SeenT, Fresh
    <3>. QED
      BY <1>2, <2>1, <3>1, <3>2, <3>3 DEF Fresh
  <2>2. CASE ~Refers(p)
    <3>1. r = [news |-> FALSE, sure |-> FALSE, seen |-> f.seen]
      BY <2>2
    <3>. HIDE DEF r
    <3>. QED
      BY <2>2, <3>1
  <2>. QED
    BY <2>1, <2>2
<1>4. fresh <=> Fresh(f.seen, p)
  BY <1>3 DEF Fresh
<1>. HIDE DEF r
<1>5. /\ seen1 \in SeenT /\ ~Fresh(seen1, p)
      /\ \A q \in Master!Params : ~Fresh(f.seen, q) => ~Fresh(seen1, q) /\ (f.seen[q].old => seen1[q].old)
      /\ Refers(p) => seen1[Def[p]] = r.seen[Def[p]]
  <2>1. CASE fresh
    <3>1. seen1 = [r.seen EXCEPT ![p] = Read(p)]
      BY <2>1
    <3>2. seen1 \in SeenT /\ seen1[p] = Read(p) /\ \A q \in Master!Params \ {p} : seen1[q] = r.seen[q]
      BY <1>3, <3>1 DEF SeenT, Read
    <3>3. Fresh(f.seen, p)
      BY <1>4, <2>1
    <3>. HIDE DEF seen1, fresh
    <3>4. ~Fresh(seen1, p)
      BY <3>2 DEF Fresh, Read
    <3>. QED
      BY <1>2, <1>3, <3>2, <3>3, <3>4 DEF Fresh
  <2>2. CASE ~fresh
    <3>1. seen1 = r.seen
      BY <2>2
    <3>2. ~Fresh(r.seen, p)
      BY <2>2 DEF Fresh
    <3>. HIDE DEF seen1, fresh
    <3>. QED
      BY <1>3, <3>1, <3>2
  <2>. QED
    BY <2>1, <2>2
<1>. HIDE DEF seen1, fresh
<1>6. CASE r.sure
  <2>1. g = [seen |-> seen1, out |-> f.out,
             exec |-> IF r.news \/ fresh THEN f.exec \cup {p} ELSE f.exec]
    BY <1>1, <1>6
  <2>2. Refers(p)
    BY <1>3, <1>6
  <2>. HIDE DEF g
  <2>3. r.news /\ ~Fresh(f.seen, Def[p]) => ~f.seen[Def[p]].old /\ seen1[Def[p]].old
    BY <1>3, <1>5, <2>2
  <2>. QED
    BY <1>4, <1>5, <2>1, <2>2, <2>3 DEF Round, g
<1>7. CASE ~r.sure /\ (~fresh \/ set)
  <2>1. g = [seen |-> seen1, out |-> f.out, exec |-> f.exec]
    BY <1>1, <1>7
  <2>. HIDE DEF g
  <2>. QED
    BY <1>5, <2>1 DEF Round, g
<1>8. CASE ~r.sure /\ fresh /\ ~set
  <2>1. g = [seen |-> seen1, exec |-> f.exec \cup {p},
             out |-> IF f.out[p] # NoValue /\ ~todo[p].need THEN [f.out EXCEPT ![p] = reg[p]] ELSE f.out]
    BY <1>1, <1>8
  <2>2. /\ g.out \in OutT /\ \A q \in Master!Params \ {p} : g.out[q] = f.out[q]
        /\ \/ g.out[p] = f.out[p]
           \/ ~todo[p].need /\ f.out[p] # NoValue /\ g.out[p] = reg[p]
    BY <2>1 DEF OutT
  <2>3. Fresh(f.seen, p) /\ f.out[p] # reg[p]
    BY <1>4, <1>8
  <2>. HIDE DEF g
  <2>. QED
    BY <1>5, <2>1, <2>2, <2>3 DEF Round, g
<1>. QED
  BY <1>3, <1>6, <1>7, <1>8

\* What the first n parameters have come to, against what there was before.
Prefix(f, n) ==
  /\ f = [seen |-> f.seen, out |-> f.out, exec |-> f.exec]
  /\ f.seen \in SeenT /\ f.out \in OutT /\ f.exec \in SUBSET Master!Params
  /\ \A q \in Master!Params : q > n => f.out[q] = out[q] /\ q \notin f.exec
  /\ \A q \in Master!Params : \/ f.out[q] = out[q]
                              \/ ~todo[q].need /\ out[q] # NoValue /\ f.out[q] = reg[q]
  /\ \A q \in Master!Params : ~Fresh(seen, q) => ~Fresh(f.seen, q) /\ (seen[q].old => f.seen[q].old)
  /\ \A q \in Master!Params : q <= n => ~Fresh(f.seen, q)
  /\ \A q \in f.exec : ~Refers(q) => Fresh(seen, q) /\ out[q] # reg[q]
  /\ \A q \in f.exec : Refers(q) =>
       \/ Fresh(seen, q)
       \/ Fresh(seen, Def[q])
       \/ ~seen[Def[q]].old /\ f.seen[Def[q]].old

LEMMA PrefixStep ==
  ASSUME Master!Configured, Master!TypeOK, NEW n \in Master!Params, NEW f, NEW g, Prefix(f, n - 1), Round(f, g, n)
  PROVE  Prefix(g, n)
<1>. n \in Nat /\ n - 1 \in Nat /\ n > n - 1
  BY DEF Master!Params
<1>0. \A q \in Master!Params : q \in Nat /\ (q > n => q > n - 1 /\ q # n) /\ (q <= n /\ q # n => q <= n - 1)
  BY DEF Master!Params
<1>1. /\ g = [seen |-> g.seen, out |-> g.out, exec |-> g.exec]
      /\ g.seen \in SeenT /\ g.out \in OutT
  BY DEF Round
<1>2. g.exec \in SUBSET Master!Params /\ g.exec \subseteq f.exec \cup {n}
  BY DEF Round, Prefix
<1>3. f.out[n] = out[n] /\ n \notin f.exec
  BY DEF Prefix
<1>4. \A q \in Master!Params : q > n => g.out[q] = out[q] /\ q \notin g.exec
  BY <1>0, <1>2 DEF Round, Prefix
<1>5. \A q \in Master!Params : \/ g.out[q] = out[q]
                               \/ ~todo[q].need /\ out[q] # NoValue /\ g.out[q] = reg[q]
  <2>1. ASSUME NEW q \in Master!Params \ {n}
        PROVE  \/ g.out[q] = out[q]
               \/ ~todo[q].need /\ out[q] # NoValue /\ g.out[q] = reg[q]
    BY DEF Round, Prefix
  <2>2. \/ g.out[n] = out[n]
        \/ ~todo[n].need /\ out[n] # NoValue /\ g.out[n] = reg[n]
    BY <1>3 DEF Round
  <2>. QED
    BY <2>1, <2>2
<1>6. \A q \in Master!Params : ~Fresh(f.seen, q) => ~Fresh(g.seen, q) /\ (f.seen[q].old => g.seen[q].old)
  BY DEF Round
<1>7. \A q \in Master!Params : ~Fresh(seen, q) => ~Fresh(f.seen, q) /\ (seen[q].old => f.seen[q].old)
  BY DEF Prefix
<1>8. \A q \in Master!Params : ~Fresh(seen, q) => ~Fresh(g.seen, q) /\ (seen[q].old => g.seen[q].old)
  BY <1>6, <1>7
<1>9. \A q \in Master!Params : q <= n => ~Fresh(g.seen, q)
  BY <1>0, <1>6 DEF Round, Prefix
<1>10. ASSUME NEW q \in g.exec, ~Refers(q)
       PROVE  Fresh(seen, q) /\ out[q] # reg[q]
  <2>1. CASE q \in f.exec
    BY <1>10, <2>1 DEF Prefix
  <2>2. CASE q \notin f.exec
    <3>1. q = n /\ g.exec # f.exec
      BY <1>2, <1>10, <2>2
    <3>2. Fresh(f.seen, n) /\ f.out[n] # reg[n]
      BY <1>10, <3>1 DEF Round
    <3>. QED
      BY <1>3, <1>7, <3>1, <3>2
  <2>. QED
    BY <2>1, <2>2
<1>11. ASSUME NEW q \in g.exec, Refers(q)
       PROVE  \/ Fresh(seen, q)
              \/ Fresh(seen, Def[q])
              \/ ~seen[Def[q]].old /\ g.seen[Def[q]].old
  <2>0. Def[q] \in Master!Params /\ q \in Master!Params
    BY <1>2, <1>11 DEF Master!Configured, Master!Params, Refers
  <2>1. CASE q \in f.exec
    BY <1>6, <1>7, <1>11, <2>0, <2>1 DEF Prefix
  <2>2. CASE q \notin f.exec
    <3>1. q = n /\ g.exec # f.exec
      BY <1>2, <1>11, <2>2
    <3>2. \/ Fresh(f.seen, n)
          \/ Fresh(f.seen, Def[n])
          \/ ~f.seen[Def[n]].old /\ g.seen[Def[n]].old
      BY <1>11, <3>1 DEF Round
    <3>. QED
      BY <1>7, <2>0, <3>1, <3>2
  <2>. QED
    BY <2>1, <2>2
<1>. QED
  BY <1>1, <1>2, <1>4, <1>5, <1>8, <1>9, <1>10, <1>11 DEF Prefix

LEMMA PrefixAll ==
  ASSUME Master!Configured, Master!TypeOK
  PROVE  Prefix(Master!FoundIn[PARAMS], PARAMS)
<1>. DEFINE T == {n \in 0 .. PARAMS : ~Prefix(Master!FoundIn[n], n)}
<1>1. PARAMS \in Nat /\ PARAMS \in 0 .. PARAMS
  BY DEF Master!Configured
<1>. SUFFICES ASSUME T # {} PROVE FALSE
  BY <1>1
<1>2. T \in SUBSET Nat
  BY <1>1
<1>3. PICK k \in T : \A n \in T : k <= n
  BY <1>2, Least
<1>4. CASE k = 0
  <2>1. Master!FoundIn[0] = [seen |-> seen, out |-> out, exec |-> {}]
    BY FoundInIs
  <2>2. Prefix([seen |-> seen, out |-> out, exec |-> {}], 0)
    <3>. DEFINE f == [seen |-> seen, out |-> out, exec |-> {}]
    <3>1. /\ f = [seen |-> f.seen, out |-> f.out, exec |-> f.exec]
          /\ f.seen = seen /\ f.out = out /\ f.exec = {}
      OBVIOUS
    <3>2. seen \in SeenT /\ out \in OutT
      BY DEF Master!TypeOK, SeenT, OutT
    <3>3. \A q \in Master!Params : ~(q <= 0)
      BY DEF Master!Params
    <3>. HIDE DEF f
    <3>4. Prefix(f, 0)
      BY <3>1, <3>2, <3>3 DEF Prefix
    <3>. QED
      BY <3>4 DEF f
  <2>. QED
    BY <1>3, <1>4, <2>1, <2>2
<1>5. CASE k # 0
  <2>1. k - 1 \in 0 .. PARAMS /\ k - 1 \notin T /\ k \in Master!Params
    BY <1>1, <1>3, <1>5 DEF Master!Params
  <2>2. Prefix(Master!FoundIn[k - 1], k - 1)
    BY <2>1
  <2>3. Master!FoundIn[k] = Master!Found(Master!FoundIn[k - 1], k)
    BY <2>1, FoundInIs
  <2>4. Round(Master!FoundIn[k - 1], Master!Found(Master!FoundIn[k - 1], k), k)
    BY <2>1, <2>2, FoundRound DEF Prefix, Master!TypeOK
  <2>5. Prefix(Master!Found(Master!FoundIn[k - 1], k), k)
    BY <2>1, <2>2, <2>4, PrefixStep
  <2>. QED
    BY <1>3, <2>3, <2>5
<1>. QED
  BY <1>4, <1>5

TodoT == [need : BOOLEAN, error : BOOLEAN, tries : 0 .. Master!MB_SEND_ATTEMPTS]
BusyT == [at : {"none", "prefetch", "write", "wait", "poll"}, p : 0 .. PARAMS,
          saved : Values \cup {NoValue}, sent : Values \cup {NoValue}, read : BOOLEAN]

\* What becomes of a parameter, and of the others.
LEMMA ConcludedIs ==
  ASSUME NEW res, NEW t \in [Master!Params -> TodoT], NEW p \in Master!Params
  PROVE  /\ Master!Concluded(res, t, p) \in [Master!Params -> TodoT]
         /\ \A q \in Master!Params \ {p} : Master!Concluded(res, t, p)[q] = t[q]
         /\ Master!Concluded(res, t, p)[p].need <=>
              res \notin {"written", "equal", "cancelled"} /\ t[p].need
<1>1. CASE res \in {"written", "equal", "cancelled"}
  <2>1. Master!Concluded(res, t, p) = [t EXCEPT ![p] = Master!Clean]
    BY <1>1 DEF Master!Concluded
  <2>2. Master!Clean \in TodoT /\ ~Master!Clean.need
    BY DEF Master!Clean, TodoT, Master!MB_SEND_ATTEMPTS
  <2>. QED
    BY <1>1, <2>1, <2>2
<1>2. CASE res \notin {"written", "equal", "cancelled"}
  <2>. DEFINE n == IF t[p].tries < Master!MB_SEND_ATTEMPTS THEN t[p].tries + 1 ELSE t[p].tries
              x == [t[p] EXCEPT !.error = TRUE, !.tries = n]
  <2>1. Master!Concluded(res, t, p) = [t EXCEPT ![p] = x]
    BY <1>2 DEF Master!Concluded
  <2>2. t[p] \in TodoT
    OBVIOUS
  <2>3. n \in 0 .. Master!MB_SEND_ATTEMPTS
    BY <2>2 DEF TodoT, Master!MB_SEND_ATTEMPTS
  <2>. HIDE DEF n
  <2>4. x \in TodoT /\ x.need = t[p].need
    BY <2>2, <2>3 DEF TodoT
  <2>. HIDE DEF x
  <2>. QED
    BY <1>2, <2>1, <2>4
<1>. QED
  BY <1>1, <1>2

LEMMA SendingIs ==
  ASSUME Master!TypeOK, NEW p \in Master!Params, todo[p].need, NotedOK
  PROVE  /\ Master!Sending(p) \in BusyT
         /\ Master!Sending(p).p = p /\ Master!Sending(p).sent = out[p] /\ Master!Sending(p).saved = out[p]
         /\ Master!Sending(p).at = (IF p \in Prefetch THEN "prefetch" ELSE "write")
         /\ out[p] # NoValue
<1>1. out[p] \in Values \cup {NoValue} /\ p \in 0 .. PARAMS
  BY DEF Master!TypeOK, Master!Params
<1>. QED
  BY <1>1 DEF Master!Sending, BusyT, NotedOK

\* The end of an exchange, for the parameter that was on the line and the one that follows.
LEMMA SentIs ==
  ASSUME Master!Configured, Master!TypeOK, BusyOK, NotedOK, busy.at \in {"prefetch", "write"},
         NEW res \in {"written", "equal", "cancelled", "failed"}, Master!Sent(res), out' = out
  PROVE  /\ todo' \in [Master!Params -> TodoT] /\ busy' \in BusyT
         /\ \A q \in Master!Params \ {busy.p} : todo'[q] = todo[q]
         /\ ~todo'[busy.p].need => out[busy.p] = busy.saved /\ res # "failed"
         /\ BusyOK' /\ NotedOK'
<1>. DEFINE p == busy.p
            t == Master!Concluded(res, todo, p)
            next == Master!NextToSend(p, t)
<1>0. /\ p \in Master!Params /\ todo[p].need /\ busy.sent # NoValue
      /\ p \notin Prefetch => busy.sent = busy.saved
  BY DEF BusyOK
<1>1. todo \in [Master!Params -> TodoT] /\ busy \in BusyT
  BY DEF Master!TypeOK, TodoT, BusyT
<1>2. CASE out[p] # busy.saved
  <2>1. busy' = [busy EXCEPT !.at = "wait"] /\ todo' = todo
    BY <1>2 DEF Master!Sent
  <2>2. busy' \in BusyT /\ busy'.p = p /\ busy'.sent = busy.sent /\ busy'.saved = busy.saved
          /\ busy'.at = "wait"
    BY <1>1, <2>1 DEF BusyT
  <2>. QED
    BY <1>0, <1>1, <2>1, <2>2 DEF BusyOK, NotedOK
<1>3. CASE out[p] = busy.saved
  <2>1. /\ todo' = t
        /\ busy' = IF res \in {"written", "equal"} \/ next = 0 THEN Master!Idle ELSE Master!Sending(next)
    BY <1>3 DEF Master!Sent
  <2>2. /\ t \in [Master!Params -> TodoT]
        /\ \A q \in Master!Params \ {p} : t[q] = todo[q]
        /\ t[p].need => todo[p].need
        /\ t[p].need \/ res # "failed"
    <3>1. /\ t \in [Master!Params -> TodoT]
          /\ \A q \in Master!Params \ {p} : t[q] = todo[q]
          /\ t[p].need <=> res \notin {"written", "equal", "cancelled"} /\ todo[p].need
      <4>1. p \in Master!Params /\ todo \in [Master!Params -> TodoT]
        BY <1>0, <1>1
      <4>. HIDE DEF p
      <4>. QED
        BY <4>1, ConcludedIs, Zenon DEF t
    <3>. HIDE DEF t
    <3>. QED
      BY <1>0, <3>1
  <2>3. /\ next \in 0 .. PARAMS
        /\ next # 0 => next > p /\ t[next].need
    BY NextIs
  <2>4. \A q \in Master!Params : t[q].need => todo[q].need
    BY <2>2
  <2>5. NotedOK'
    BY <2>1, <2>4 DEF NotedOK
  <2>. HIDE DEF t, next
  <2>6. CASE busy' = Master!Idle
    <3>1. Master!Idle \in BusyT /\ Master!Idle.at = "none"
      BY DEF Master!Idle, BusyT, Master!Configured
    <3>. QED
      BY <1>0, <1>3, <2>1, <2>2, <2>5, <2>6, <3>1 DEF BusyOK
  <2>7. CASE next # 0 /\ busy' = Master!Sending(next)
    <3>1. next \in Master!Params /\ todo[next].need /\ todo'[next].need
      BY <1>0, <2>1, <2>3, <2>4, <2>7 DEF Master!Params
    <3>2. /\ Master!Sending(next) \in BusyT
          /\ Master!Sending(next).p = next /\ Master!Sending(next).sent = out[next] /\ Master!Sending(next).saved = out[next]
          /\ Master!Sending(next).at = (IF next \in Prefetch THEN "prefetch" ELSE "write")
          /\ out[next] # NoValue
      BY <3>1, SendingIs
    <3>. QED
      BY <1>0, <1>3, <2>1, <2>2, <2>5, <2>7, <3>1, <3>2 DEF BusyOK
  <2>. QED
    BY <2>1, <2>6, <2>7
<1>. QED
  BY <1>2, <1>3

LEMMA CountedSame ==
  ASSUME CountedOK, UNCHANGED <<seen, reg, runs>>
  PROVE  CountedOK'
BY DEF CountedOK, Fresh, Refers, Left

\* A register that is written, by us or by hand: what has been executed for it is counted anew.
LEMMA CountedTouched ==
  ASSUME Master!Configured, Master!TypeOK, CountedOK, NEW p \in Master!Params,
         \A q \in Master!Params \ {p} : seen'[q] = seen[q] /\ reg'[q] = reg[q],
         \A q \in Master!Params : runs'[q] = IF q = p \/ Def[q] = p THEN 0 ELSE runs[q]
  PROVE  CountedOK'
<1>1. \A q \in Master!Params : Def[q] # 0 => Def[q] \in Master!Params
  BY DEF Master!Configured, Master!Params
<1>2. ASSUME NEW q \in Master!Params
      PROVE  /\ Fresh(seen, q)' => runs'[q] = 0
             /\ ~Refers(q)' => runs'[q] <= 1
             /\ Refers(q)' => runs'[q] + Left(seen, Def[q])' <= 2
  <2>1. Left(seen, Def[q])' \in {0, 1, 2}
    BY DEF Left
  <2>2. CASE q = p \/ Def[q] = p
    <3>1. runs'[q] = 0
      BY <2>2
    <3>. QED
      BY <2>1, <3>1
  <2>3. CASE ~(q = p \/ Def[q] = p)
    <3>1. runs'[q] = runs[q] /\ seen'[q] = seen[q] /\ reg'[q] = reg[q]
      BY <2>3
    <3>2. Refers(q)' = Refers(q) /\ Fresh(seen, q)' = Fresh(seen, q)
      BY <3>1 DEF Refers, Fresh
    <3>3. Refers(q) => Left(seen, Def[q])' = Left(seen, Def[q])
      <4>1. ASSUME Refers(q) PROVE seen'[Def[q]] = seen[Def[q]] /\ reg'[Def[q]] = reg[Def[q]]
        BY <1>1, <2>3, <4>1 DEF Refers
      <4>. QED
        BY <4>1 DEF Left, Fresh
    <3>. QED
      BY <3>1, <3>2, <3>3 DEF CountedOK
  <2>. QED
    BY <2>2, <2>3
<1>. QED
  BY <1>2 DEF CountedOK

LEMMA TypeParts ==
  Master!TypeOK <=> /\ out \in OutT /\ todo \in [Master!Params -> TodoT] /\ seen \in SeenT /\ busy \in BusyT
                    /\ silent \in BOOLEAN /\ due \in BOOLEAN /\ reg \in [Master!Params -> Values]
                    /\ owed \in OutT /\ own \in [Master!Params -> BOOLEAN] /\ runs \in [Master!Params -> 0 .. 3]
BY DEF Master!TypeOK, OutT, TodoT, SeenT, BusyT

LEMMA CtrlKeeps ==
  ASSUME Master!Configured, MasterInv, NEW p \in Writable, NEW x \in Values, Master!Ctrl(p, x)
  PROVE  MasterInv'
<1>. USE DEF MasterInv
<1>1. p \in Master!Params /\ x # NoValue
  BY DEF Master!Configured
<1>2. UNCHANGED <<seen, busy, silent, due, reg, own, runs>> /\ owed' = [owed EXCEPT ![p] = x]
  BY DEF Master!Ctrl
<1>3. \/ UNCHANGED <<out, todo>> /\ p \in Changes
      \/ todo' = [todo EXCEPT ![p].need = TRUE] /\ out' = [out EXCEPT ![p] = x]
  BY DEF Master!Ctrl, Master!Equal
<1>4. todo \in [Master!Params -> TodoT] /\ out \in OutT /\ owed \in OutT
  BY TypeParts
<1>5. /\ owed' \in OutT /\ owed'[p] = x /\ \A q \in Master!Params \ {p} : owed'[q] = owed[q]
  BY <1>1, <1>2, <1>4 DEF OutT
<1>6. /\ out' \in OutT /\ todo' \in [Master!Params -> TodoT]
      /\ \A q \in Master!Params \ {p} : out'[q] = out[q] /\ todo'[q] = todo[q]
      /\ \/ UNCHANGED <<out, todo>> /\ p \in Changes
         \/ todo'[p].need /\ out'[p] = x
  <2>1. CASE UNCHANGED <<out, todo>> /\ p \in Changes
    BY <1>4, <2>1
  <2>2. CASE todo' = [todo EXCEPT ![p].need = TRUE] /\ out' = [out EXCEPT ![p] = x]
    <3>1. todo'[p] = [todo[p] EXCEPT !.need = TRUE] /\ todo[p] \in TodoT
      BY <1>1, <1>4, <2>2
    <3>2. todo'[p] \in TodoT /\ todo'[p].need
      BY <3>1 DEF TodoT
    <3>3. todo' = [todo EXCEPT ![p] = todo'[p]]
      BY <1>1, <1>4, <2>2, <3>1
    <3>4. todo' \in [Master!Params -> TodoT] /\ \A q \in Master!Params \ {p} : todo'[q] = todo[q]
      BY <1>4, <2>2, <3>2, <3>3
    <3>. QED
      BY <1>1, <1>4, <2>2, <3>2, <3>4 DEF OutT
  <2>. QED
    BY <1>3, <2>1, <2>2
<1>7. Master!TypeOK'
  <2>1. /\ seen' = seen /\ busy' = busy /\ silent' = silent /\ due' = due /\ reg' = reg
        /\ own' = own /\ runs' = runs
    BY <1>2
  <2>. QED
    BY <1>5, <1>6, <2>1 DEF Master!TypeOK, OutT, TodoT
<1>8. BusyOK'
  BY <1>2, <1>6 DEF BusyOK
<1>9. NotedOK'
  BY <1>1, <1>6 DEF NotedOK
<1>10. OwedOK'
  BY <1>5, <1>6 DEF OwedOK, Plain
<1>11. OwnOK'
  BY <1>2, <1>6 DEF OwnOK, Plain
<1>12. CountedOK'
  BY <1>2, CountedSame
<1>. QED
  BY <1>7, <1>8, <1>9, <1>10, <1>11, <1>12

\* An exchange begins.
LEMMA StartKeeps ==
  ASSUME Master!Configured, MasterInv, NEW p \in Master!Params, todo[p].need, busy' = Master!Sending(p),
         UNCHANGED <<out, todo, seen, silent, due, reg, owed, own, runs>>
  PROVE  MasterInv'
<1>. USE DEF MasterInv
<1>1. /\ Master!Sending(p) \in BusyT
      /\ Master!Sending(p).p = p /\ Master!Sending(p).sent = out[p] /\ Master!Sending(p).saved = out[p]
      /\ Master!Sending(p).at = (IF p \in Prefetch THEN "prefetch" ELSE "write")
      /\ out[p] # NoValue
  BY SendingIs
<1>2. Master!TypeOK'
  BY <1>1 DEF Master!TypeOK, BusyT
<1>3. BusyOK'
  BY <1>1 DEF BusyOK
<1>4. NotedOK' /\ OwedOK' /\ OwnOK'
  BY DEF NotedOK, OwedOK, OwnOK
<1>5. CountedOK'
  BY CountedSame
<1>. QED
  BY <1>2, <1>3, <1>4, <1>5

LEMMA PollSendsKeeps ==
  ASSUME Master!Configured, MasterInv, Master!PollSends
  PROVE  MasterInv'
<1>1. Master!NextToSend(0, todo) \in Master!Params /\ todo[Master!NextToSend(0, todo)].need
  BY NextIs DEF Master!PollSends, Master!Params
<1>. QED
  BY <1>1, StartKeeps DEF Master!PollSends

LEMMA ResendKeeps ==
  ASSUME Master!Configured, MasterInv, Master!Resend
  PROVE  MasterInv'
<1>1. busy.p \in Master!Params /\ todo[busy.p].need
  BY DEF Master!Resend, MasterInv, BusyOK
<1>. QED
  BY <1>1, StartKeeps DEF Master!Resend

\* The answer to a prefetch, which only ends an exchange for a parameter that has one.
LEMMA PrefetchedKeeps ==
  ASSUME Master!Configured, MasterInv, Master!Prefetched
  PROVE  MasterInv'
<1>. USE DEF MasterInv
<1>. DEFINE p == busy.p
<1>1. /\ busy.at = "prefetch" /\ p \in Master!Params /\ p \in Prefetch /\ todo[p].need /\ out[p] # NoValue
      /\ UNCHANGED <<out, seen, due, reg, own, runs>> /\ silent' \in BOOLEAN
  BY DEF Master!Prefetched, BusyOK, NotedOK
<1>2. p \notin Plain
  BY <1>1 DEF Plain
<1>3. CountedOK'
  BY <1>1, CountedSame
<1>4. ASSUME UNCHANGED <<todo, owed>>, busy'.at = "write", busy'.p = p, busy'.sent = out[p],
             busy' \in BusyT
      PROVE  MasterInv'
  <2>1. Master!TypeOK'
    BY <1>1, <1>4 DEF Master!TypeOK, BusyT
  <2>2. BusyOK'
    BY <1>1, <1>4 DEF BusyOK
  <2>3. NotedOK' /\ OwedOK' /\ OwnOK'
    BY <1>1, <1>4 DEF NotedOK, OwedOK, OwnOK
  <2>. QED
    BY <1>3, <2>1, <2>2, <2>3
<1>5. ASSUME NEW res \in {"equal", "cancelled"}, Master!Sent(res), owed' \in OutT,
             \A q \in Master!Params \ {p} : owed'[q] = owed[q]
      PROVE  MasterInv'
  <2>1. /\ todo' \in [Master!Params -> TodoT] /\ busy' \in BusyT
        /\ \A q \in Master!Params \ {p} : todo'[q] = todo[q]
        /\ BusyOK' /\ NotedOK'
    BY <1>1, <1>5, SentIs
  <2>2. Master!TypeOK'
    BY <1>1, <1>5, <2>1 DEF Master!TypeOK, OutT, TodoT, BusyT
  <2>3. OwedOK' /\ OwnOK'
    BY <1>1, <1>2, <1>5, <2>1 DEF OwedOK, OwnOK, Plain
  <2>. QED
    BY <1>3, <2>1, <2>2, <2>3
<1>6. out[p] \in Values \cup {NoValue} /\ busy \in BusyT /\ owed \in OutT
  BY <1>1, TypeParts DEF OutT
<1>7. CASE busy' = [busy EXCEPT !.at = "write", !.sent = out[p]] /\ UNCHANGED <<todo, owed>>
  BY <1>4, <1>6, <1>7 DEF BusyT
<1>8. CASE /\ busy' = [busy EXCEPT !.at = "write", !.sent = out[p], !.read = TRUE]
           /\ UNCHANGED <<todo, owed>>
  BY <1>4, <1>6, <1>8 DEF BusyT
<1>9. CASE Master!Sent("cancelled") /\ UNCHANGED owed
  BY <1>5, <1>6, <1>9
<1>10. CASE /\ Master!Sent("equal")
            /\ owed' = IF owed[p] = reg[p] THEN [owed EXCEPT ![p] = NoValue] ELSE owed
  <2>1. owed' \in OutT /\ \A q \in Master!Params \ {p} : owed'[q] = owed[q]
    BY <1>6, <1>10 DEF OutT
  <2>. QED
    BY <1>5, <1>10, <2>1
<1>. QED
  BY <1>7, <1>8, <1>9, <1>10 DEF Master!Prefetched

\* The device takes a value.
LEMMA TakenIs ==
  ASSUME Master!Configured, Master!TypeOK, CountedOK, BusyOK, busy.at = "write", Master!Taken(busy.p),
         \A q \in Master!Params \ {busy.p} : seen'[q] = seen[q]
  PROVE  /\ reg' \in [Master!Params -> Values] /\ own' \in [Master!Params -> BOOLEAN]
         /\ runs' \in [Master!Params -> 0 .. 3]
         /\ reg'[busy.p] = busy.sent /\ \A q \in Master!Params \ {busy.p} : reg'[q] = reg[q] /\ own'[q] = own[q]
         /\ CountedOK'
<1>. DEFINE p == busy.p
<1>1. p \in Master!Params /\ busy.sent \in Values
  BY DEF BusyOK, Master!TypeOK
<1>2. /\ reg' = [reg EXCEPT ![p] = busy.sent] /\ own' = [own EXCEPT ![p] = TRUE]
      /\ runs' = [q \in Master!Params |-> IF q = p \/ Def[q] = p THEN 0 ELSE runs[q]]
  BY DEF Master!Taken
<1>3. reg \in [Master!Params -> Values] /\ own \in [Master!Params -> BOOLEAN] /\ runs \in [Master!Params -> 0 .. 3]
  BY DEF Master!TypeOK
<1>4. /\ reg' \in [Master!Params -> Values] /\ reg'[p] = busy.sent
      /\ \A q \in Master!Params \ {p} : reg'[q] = reg[q]
  BY <1>1, <1>2, <1>3
<1>5. own' \in [Master!Params -> BOOLEAN] /\ \A q \in Master!Params \ {p} : own'[q] = own[q]
  BY <1>1, <1>2, <1>3
<1>6. runs' \in [Master!Params -> 0 .. 3]
      /\ \A q \in Master!Params : runs'[q] = IF q = p \/ Def[q] = p THEN 0 ELSE runs[q]
  BY <1>1, <1>2, <1>3
<1>7. CountedOK'
  BY <1>1, <1>4, <1>6, CountedTouched
<1>. QED
  BY <1>4, <1>5, <1>6, <1>7

LEMMA WrittenKeeps ==
  ASSUME Master!Configured, MasterInv, Master!Written
  PROVE  MasterInv'
<1>. USE DEF MasterInv
<1>. DEFINE p == busy.p
<1>1. /\ busy.at = "write" /\ p \in Master!Params /\ todo[p].need /\ out[p] # NoValue
      /\ p \notin Prefetch => busy.sent = busy.saved
      /\ UNCHANGED <<out, due>> /\ silent' = FALSE /\ Master!Taken(p) /\ Master!Sent("written")
      /\ seen' = (IF busy.read THEN [seen EXCEPT ![p] = [val |-> out[p], empty |-> FALSE, old |-> FALSE]]
                  ELSE seen)
      /\ owed' = IF owed[p] = busy.sent THEN [owed EXCEPT ![p] = NoValue] ELSE owed
  BY DEF Master!Written, BusyOK, NotedOK
<1>2. seen \in SeenT /\ out \in OutT /\ owed \in OutT /\ out[p] \in Values
  BY <1>1, TypeParts DEF OutT
<1>3. seen' \in SeenT /\ \A q \in Master!Params \ {p} : seen'[q] = seen[q]
  BY <1>1, <1>2 DEF SeenT
<1>4. /\ owed' \in OutT /\ \A q \in Master!Params \ {p} : owed'[q] = owed[q]
      /\ owed'[p] = (IF owed[p] = busy.sent THEN NoValue ELSE owed[p])
  BY <1>1, <1>2 DEF OutT
<1>5. /\ reg' \in [Master!Params -> Values] /\ own' \in [Master!Params -> BOOLEAN]
      /\ runs' \in [Master!Params -> 0 .. 3]
      /\ reg'[p] = busy.sent /\ \A q \in Master!Params \ {p} : reg'[q] = reg[q] /\ own'[q] = own[q]
      /\ CountedOK'
  BY <1>1, <1>3, TakenIs
<1>6. /\ todo' \in [Master!Params -> TodoT] /\ busy' \in BusyT
      /\ \A q \in Master!Params \ {p} : todo'[q] = todo[q]
      /\ ~todo'[p].need => out[p] = busy.saved
      /\ BusyOK' /\ NotedOK'
  BY <1>1, SentIs
<1>7. Master!TypeOK'
  BY <1>1, <1>3, <1>4, <1>5, <1>6 DEF Master!TypeOK, OutT, TodoT, BusyT, SeenT
<1>8. OwedOK'
  <2>1. ASSUME p \in Plain, owed'[p] # NoValue PROVE todo'[p].need /\ out'[p] = owed'[p]
    <3>1. owed'[p] = owed[p] /\ owed[p] # busy.sent /\ out[p] = owed[p]
      BY <1>1, <1>4, <2>1 DEF OwedOK
    <3>2. busy.sent = busy.saved
      BY <1>1, <2>1 DEF Plain
    <3>. QED
      BY <1>1, <1>6, <3>1, <3>2
  <2>. QED
    BY <1>1, <1>4, <1>6, <2>1 DEF OwedOK, Plain
<1>9. OwnOK'
  <2>1. ASSUME p \in Plain, ~todo'[p].need PROVE out'[p] = reg'[p]
    <3>1. busy.sent = busy.saved
      BY <1>1, <2>1 DEF Plain
    <3>. QED
      BY <1>1, <1>5, <1>6, <2>1, <3>1
  <2>. QED
    BY <1>1, <1>5, <1>6, <2>1 DEF OwnOK, Plain
<1>. QED
  BY <1>5, <1>6, <1>7, <1>8, <1>9

LEMMA UnansweredKeeps ==
  ASSUME Master!Configured, MasterInv, Master!Unanswered
  PROVE  MasterInv'
<1>. USE DEF MasterInv
<1>. DEFINE p == busy.p
<1>1. /\ busy.at = "write" /\ p \in Master!Params
      /\ UNCHANGED <<out, seen, due, owed>> /\ silent' = FALSE /\ Master!Sent("failed")
      /\ Master!Taken(p) \/ UNCHANGED <<reg, own, runs>>
  BY DEF Master!Unanswered, BusyOK
<1>2. /\ reg' \in [Master!Params -> Values] /\ own' \in [Master!Params -> BOOLEAN]
      /\ runs' \in [Master!Params -> 0 .. 3]
      /\ \A q \in Master!Params \ {p} : reg'[q] = reg[q] /\ own'[q] = own[q]
      /\ CountedOK'
  <2>1. CASE Master!Taken(p)
    BY <1>1, <2>1, TakenIs
  <2>2. CASE UNCHANGED <<reg, own, runs>>
    BY <1>1, <2>2, CountedSame, TypeParts
  <2>. QED
    BY <1>1, <2>1, <2>2
<1>3. /\ todo' \in [Master!Params -> TodoT] /\ busy' \in BusyT
      /\ \A q \in Master!Params \ {p} : todo'[q] = todo[q]
      /\ todo'[p].need
      /\ BusyOK' /\ NotedOK'
  BY <1>1, SentIs
<1>4. Master!TypeOK'
  BY <1>1, <1>2, <1>3 DEF Master!TypeOK, OutT, TodoT, BusyT, SeenT
<1>5. OwedOK' /\ OwnOK'
  BY <1>1, <1>2, <1>3 DEF OwedOK, OwnOK, Plain
<1>. QED
  BY <1>2, <1>3, <1>4, <1>5

LEMMA PollReadsKeeps ==
  ASSUME Master!Configured, MasterInv, Master!PollReads
  PROVE  MasterInv'
<1>. USE DEF MasterInv
<1>1. /\ todo' = [p \in Master!Params |-> Master!Cleaned(todo[p])]
      /\ owed' = [p \in Master!Params |-> IF todo[p].tries >= Master!MB_SEND_ATTEMPTS THEN NoValue ELSE owed[p]]
      /\ busy' = [Master!Idle EXCEPT !.at = "poll"]
      /\ own' = [p \in Master!Params |-> own[p] /\ todo[p].tries < Master!MB_SEND_ATTEMPTS]
      /\ UNCHANGED <<out, seen, silent, due, reg, runs>>
  BY DEF Master!PollReads
<1>2. ASSUME NEW p \in Master!Params
      PROVE  /\ todo'[p] \in TodoT
             /\ todo'[p].need <=> todo[p].need /\ ~(todo[p].tries >= Master!MB_SEND_ATTEMPTS)
             /\ owed'[p] = IF todo[p].tries >= Master!MB_SEND_ATTEMPTS THEN NoValue ELSE owed[p]
             /\ own'[p] => own[p] /\ ~(todo[p].tries >= Master!MB_SEND_ATTEMPTS)
  <2>1. todo[p] \in TodoT /\ todo'[p] = Master!Cleaned(todo[p])
    BY <1>1, TypeParts
  <2>2. Master!Clean \in TodoT /\ ~Master!Clean.need
    BY DEF Master!Clean, TodoT, Master!MB_SEND_ATTEMPTS
  <2>3. /\ [todo[p] EXCEPT !.error = FALSE] \in TodoT
        /\ [todo[p] EXCEPT !.error = FALSE].need = todo[p].need
    BY <2>1 DEF TodoT
  <2>4. own'[p] => own[p] /\ todo[p].tries < Master!MB_SEND_ATTEMPTS
    BY <1>1
  <2>5. todo[p].tries \in Nat
    BY <2>1 DEF TodoT, Master!MB_SEND_ATTEMPTS
  <2>6. own'[p] => own[p] /\ ~(todo[p].tries >= Master!MB_SEND_ATTEMPTS)
    BY <2>4, <2>5 DEF Master!MB_SEND_ATTEMPTS
  <2>7. /\ todo'[p] \in TodoT
        /\ todo'[p].need <=> todo[p].need /\ ~(todo[p].tries >= Master!MB_SEND_ATTEMPTS)
    BY <2>1, <2>2, <2>3 DEF Master!Cleaned
  <2>. QED
    BY <1>1, <2>6, <2>7
<1>3. busy' \in BusyT /\ busy'.at = "poll"
  <2>1. busy' = [at |-> "poll", p |-> 0, saved |-> NoValue, sent |-> NoValue, read |-> FALSE]
    BY <1>1 DEF Master!Idle
  <2>2. 0 \in 0 .. PARAMS
    BY DEF Master!Configured
  <2>. QED
    BY <2>1, <2>2 DEF BusyT
<1>4. Master!TypeOK'
  <2>1. todo' \in [Master!Params -> TodoT]
    BY <1>1, <1>2
  <2>2. owed' \in OutT
    BY <1>1, TypeParts DEF OutT
  <2>3. own' \in [Master!Params -> BOOLEAN]
    BY <1>1
  <2>. QED
    BY <1>1, <1>3, <2>1, <2>2, <2>3 DEF Master!TypeOK, TodoT, BusyT, OutT
<1>5. BusyOK' /\ NotedOK'
  BY <1>1, <1>2, <1>3 DEF BusyOK, NotedOK
<1>6. OwedOK'
  BY <1>1, <1>2 DEF OwedOK, Plain
<1>7. OwnOK'
  BY <1>1, <1>2 DEF OwnOK, Plain
<1>8. CountedOK'
  BY <1>1, CountedSame
<1>. QED
  BY <1>4, <1>5, <1>6, <1>7, <1>8

\* The registers are read, and actions executed.
LEMMA ReadAllKeeps ==
  ASSUME Master!Configured, MasterInv, Master!ReadAll
  PROVE  MasterInv'
<1>. USE DEF MasterInv
<1>. DEFINE f == Master!FoundIn[PARAMS]
<1>0. Prefix(f, PARAMS)
  BY PrefixAll
<1>1. /\ seen' = f.seen /\ out' = f.out
      /\ runs' = [p \in Master!Params |-> IF p \in f.exec /\ runs[p] < 3 THEN runs[p] + 1 ELSE runs[p]]
      /\ busy' = Master!Idle /\ silent' = FALSE /\ due' = FALSE
      /\ UNCHANGED <<todo, reg, owed, own>>
  BY DEF Master!ReadAll
<1>. HIDE DEF f
<1>2. /\ f.seen \in SeenT /\ f.out \in OutT
      /\ \A q \in Master!Params : \/ f.out[q] = out[q]
                                  \/ ~todo[q].need /\ out[q] # NoValue /\ f.out[q] = reg[q]
      /\ \A q \in Master!Params : ~Fresh(f.seen, q)
  BY <1>0 DEF Prefix, Master!Params
<1>3. Master!Idle \in BusyT /\ Master!Idle.at = "none"
  BY DEF Master!Idle, BusyT, Master!Configured
<1>4. ASSUME NEW p \in Master!Params
      PROVE  /\ runs'[p] \in 0 .. 3
             /\ p \notin f.exec => runs'[p] = runs[p]
             /\ runs[p] <= 2 /\ p \in f.exec => runs'[p] = runs[p] + 1
  BY <1>1 DEF Master!TypeOK
<1>5. Master!TypeOK'
  <2>1. runs' \in [Master!Params -> 0 .. 3]
    BY <1>1, <1>4
  <2>. QED
    BY <1>1, <1>2, <1>3, <2>1 DEF Master!TypeOK, OutT, SeenT, BusyT
<1>6. BusyOK'
  BY <1>1, <1>3 DEF BusyOK
<1>7. NotedOK'
  BY <1>1, <1>2 DEF NotedOK
<1>8. OwedOK'
  BY <1>1, <1>2 DEF OwedOK, Plain
<1>9. OwnOK'
  BY <1>1, <1>2 DEF OwnOK, Plain
<1>10. ASSUME NEW p \in Master!Params
       PROVE  /\ ~Fresh(seen, p)'
              /\ ~Refers(p)' => runs'[p] <= 1
              /\ Refers(p)' => runs'[p] + Left(seen, Def[p])' <= 2
  <2>1. ~Fresh(seen, p)'
    BY <1>1, <1>2 DEF Fresh
  <2>2. Refers(p)' = Refers(p) /\ runs[p] \in 0 .. 3
    BY <1>1 DEF Refers, Master!TypeOK
  <2>3. /\ Fresh(seen, p) => runs[p] = 0
        /\ ~Refers(p) => runs[p] <= 1
        /\ Refers(p) => runs[p] + Left(seen, Def[p]) <= 2
    BY DEF CountedOK
  <2>4. ASSUME ~Refers(p) PROVE runs'[p] <= 1
    <3>1. p \in f.exec => Fresh(seen, p)
      BY <1>0, <2>4 DEF Prefix
    <3>. QED
      BY <1>4, <2>2, <2>3, <2>4, <3>1
  <2>5. ASSUME Refers(p) PROVE runs'[p] + Left(seen, Def[p])' <= 2
    <3>. DEFINE d == Def[p]
    <3>1. d \in Master!Params
      BY <2>5 DEF Master!Configured, Master!Params, Refers
    <3>2. Left(seen, d)' = (IF f.seen[d].old THEN 0 ELSE 1)
      <4>1. Left(seen, d)' = Left(f.seen, d)
        BY <1>1 DEF Left, Fresh
      <4>. QED
        BY <1>2, <3>1, <4>1 DEF Left
    <3>3. Left(seen, d) = (IF Fresh(seen, d) THEN 2 ELSE IF seen[d].old THEN 0 ELSE 1)
      BY DEF Left
    <3>4. ~Fresh(seen, d) => (seen[d].old => f.seen[d].old)
      BY <1>0, <3>1 DEF Prefix
    <3>5. p \in f.exec => Fresh(seen, p) \/ Fresh(seen, d) \/ (~seen[d].old /\ f.seen[d].old)
      BY <1>0, <2>5 DEF Prefix
    <3>. HIDE DEF d
    <3>6. runs[p] + Left(seen, d) <= 2
      BY <2>3, <2>5 DEF d
    <3>7. runs[p] <= 2
      BY <2>2, <3>3, <3>6
    <3>8. CASE p \notin f.exec
      BY <1>4, <2>2, <3>2, <3>3, <3>4, <3>6, <3>8 DEF d
    <3>9. CASE p \in f.exec
      <4>1. runs'[p] = runs[p] + 1
        BY <1>4, <3>7, <3>9
      <4>. QED
        BY <2>2, <2>3, <3>2, <3>3, <3>5, <3>6, <3>9, <4>1 DEF d
    <3>. QED
      BY <3>8, <3>9
  <2>. QED
    BY <2>1, <2>2, <2>4, <2>5
<1>11. CountedOK'
  BY <1>10 DEF CountedOK
<1>. QED
  BY <1>5, <1>6, <1>7, <1>8, <1>9, <1>11

LEMMA DeviceSetsKeeps ==
  ASSUME Master!Configured, MasterInv, NEW p \in Master!Params, NEW x \in Values, Master!DeviceSets(p, x)
  PROVE  MasterInv'
<1>. USE DEF MasterInv
<1>1. /\ reg' = [reg EXCEPT ![p] = x] /\ own' = [own EXCEPT ![p] = FALSE]
      /\ runs' = [q \in Master!Params |-> IF q = p \/ Def[q] = p THEN 0 ELSE runs[q]]
      /\ UNCHANGED <<out, todo, seen, busy, silent, due, owed>>
  BY DEF Master!DeviceSets
<1>2. /\ reg \in [Master!Params -> Values] /\ own \in [Master!Params -> BOOLEAN] /\ runs \in [Master!Params -> 0 .. 3]
  BY DEF Master!TypeOK
<1>3. /\ reg' \in [Master!Params -> Values] /\ own' \in [Master!Params -> BOOLEAN] /\ ~own'[p]
      /\ \A q \in Master!Params \ {p} : reg'[q] = reg[q] /\ own'[q] = own[q]
  BY <1>1, <1>2
<1>4. runs' \in [Master!Params -> 0 .. 3]
      /\ \A q \in Master!Params : runs'[q] = IF q = p \/ Def[q] = p THEN 0 ELSE runs[q]
  BY <1>1, <1>2
<1>5. CountedOK'
  BY <1>1, <1>3, <1>4, CountedTouched
<1>6. Master!TypeOK'
  BY <1>1, <1>3, <1>4 DEF Master!TypeOK
<1>7. BusyOK' /\ NotedOK' /\ OwedOK'
  BY <1>1 DEF BusyOK, NotedOK, OwedOK
<1>8. OwnOK'
  BY <1>1, <1>3 DEF OwnOK, Plain
<1>. QED
  BY <1>5, <1>6, <1>7, <1>8

\* A tree that has just been set up.
New ==
  /\ out = [p \in Master!Params |-> NoValue] /\ todo = [p \in Master!Params |-> Master!Clean]
  /\ seen = [p \in Master!Params |-> [val |-> 0, empty |-> TRUE, old |-> FALSE]]
  /\ owed = [p \in Master!Params |-> NoValue] /\ own = [p \in Master!Params |-> FALSE]
  /\ runs = [p \in Master!Params |-> 0]
  /\ busy = Master!Idle /\ silent \in BOOLEAN /\ due = FALSE /\ reg \in [Master!Params -> Values]

LEMMA NewOK ==
  ASSUME Master!Configured
  PROVE  New => MasterInv
<1>. SUFFICES ASSUME New PROVE MasterInv
  OBVIOUS
<1>1. Master!Clean \in TodoT /\ ~Master!Clean.need /\ Master!Idle \in BusyT /\ Master!Idle.at = "none" /\ 0 \in Values
  BY DEF Master!Clean, TodoT, Master!MB_SEND_ATTEMPTS, Master!Idle, BusyT, Master!Configured
<1>2. Master!TypeOK
  <2>1. [val |-> 0, empty |-> TRUE, old |-> FALSE] \in [val : Values, empty : BOOLEAN, old : BOOLEAN]
    BY <1>1
  <2>2. seen \in SeenT
    BY <2>1 DEF New, SeenT
  <2>3. todo \in [Master!Params -> TodoT]
    BY <1>1 DEF New
  <2>4. out \in OutT /\ owed \in OutT
    BY DEF New, OutT
  <2>5. own \in [Master!Params -> BOOLEAN] /\ runs \in [Master!Params -> 0 .. 3]
    BY DEF New
  <2>6. busy \in BusyT /\ reg \in [Master!Params -> Values] /\ silent \in BOOLEAN
    BY <1>1 DEF New
  <2>7. due \in BOOLEAN
    BY DEF New
  <2>. QED
    BY <2>2, <2>3, <2>4, <2>5, <2>6, <2>7, TypeParts
<1>3. BusyOK /\ NotedOK /\ OwedOK /\ OwnOK
  BY <1>1 DEF New, BusyOK, NotedOK, OwedOK, OwnOK, Plain
<1>4. CountedOK
  <2>1. \A p \in Master!Params : runs[p] = 0 /\ Left(seen, Def[p]) \in {0, 1, 2}
    BY DEF New, Left
  <2>. QED
    BY <2>1 DEF CountedOK
<1>. QED
  BY <1>2, <1>3, <1>4 DEF MasterInv

LEMMA MasterStepKeeps ==
  ASSUME Master!Configured, MasterInv, [Master!Next]_Master!vars
  PROVE  MasterInv'
<1>1. CASE Master!Command
  BY <1>1, CtrlKeeps DEF Master!Command
<1>2. CASE Master!PollSends
  BY <1>2, PollSendsKeeps
<1>3. CASE Master!Prefetched
  BY <1>3, PrefetchedKeeps
<1>4. CASE Master!Written
  BY <1>4, WrittenKeeps
<1>5. CASE Master!Unanswered
  BY <1>5, UnansweredKeeps
<1>6. CASE Master!Resend
  BY <1>6, ResendKeeps
<1>7. CASE Master!PollReads
  BY <1>7, PollReadsKeeps
<1>8. CASE Master!ReadAll
  BY <1>8, ReadAllKeeps
<1>9. CASE \E p \in Master!Params, x \in Values : Master!DeviceSets(p, x)
  BY <1>9, DeviceSetsKeeps
<1>10. CASE Master!Reload
  <2>1. reg \in [Master!Params -> Values] /\ silent \in BOOLEAN
    BY DEF MasterInv, Master!TypeOK
  <2>2. New'
    BY <1>10, <2>1 DEF Master!Reload, New
  <2>. QED
    BY <2>2, NewOK, PTL
<1>11. CASE Master!ReadNothing \/ Master!Silence \/ Master!Interval \/ UNCHANGED Master!vars
  <2>1. UNCHANGED <<out, todo, seen, reg, owed, own, runs>>
    BY <1>11 DEF Master!ReadNothing, Master!Silence, Master!Interval, Master!vars
  <2>2. Master!Idle \in BusyT /\ Master!Idle.at = "none"
    BY DEF Master!Idle, BusyT, Master!Configured
  <2>3. silent' \in BOOLEAN /\ due' \in BOOLEAN
    BY <1>11 DEF MasterInv, Master!TypeOK, Master!ReadNothing, Master!Silence, Master!Interval,
       Master!vars
  <2>4. busy' = busy \/ busy' = Master!Idle
    BY <1>11 DEF Master!ReadNothing, Master!Silence, Master!Interval, Master!vars
  <2>5. Master!TypeOK'
    BY <2>1, <2>2, <2>3, <2>4 DEF MasterInv, Master!TypeOK, BusyT
  <2>6. BusyOK'
    BY <2>1, <2>2, <2>4 DEF MasterInv, BusyOK
  <2>7. NotedOK' /\ OwedOK' /\ OwnOK'
    BY <2>1 DEF MasterInv, NotedOK, OwedOK, OwnOK
  <2>8. CountedOK'
    BY <2>1, CountedSame DEF MasterInv
  <2>. QED
    BY <2>5, <2>6, <2>7, <2>8 DEF MasterInv
<1>. QED
  BY <1>1, <1>2, <1>3, <1>4, <1>5, <1>6, <1>7, <1>8, <1>9, <1>10, <1>11 DEF Master!Next, Master!Poll

LEMMA MasterInvariant ==
  ASSUME Master!Configured
  PROVE  Master!Spec => []MasterInv
<1>1. Master!Init => MasterInv
  BY NewOK DEF Master!Init, New
<1>. QED
  BY <1>1, MasterStepKeeps, PTL DEF Master!Spec

\* A command to a plain parameter is written, or still waits with the value commanded last:
\* whatever is sent, refused, repeated, polled and changed at the device in between.
THEOREM WriteKeptHolds ==
  ASSUME Master!Configured
  PROVE  Master!Spec => [](Master!TypeOK /\ Master!WriteKept)
<1>1. MasterInv => Master!TypeOK /\ Master!WriteKept
  BY DEF MasterInv, OwedOK, Master!WriteKept, Plain
<1>. QED
  BY <1>1, MasterInvariant, PTL

\* The action of a parameter is executed once for each change of the device, and twice at most
\* where its mapping refers to another parameter that has changed as well.
THEOREM ExecutedOnceHolds ==
  ASSUME Master!Configured
  PROVE  Master!Spec => []Master!ExecutedOnce
<1>1. ASSUME MasterInv, NEW p \in Master!Params
      PROVE  runs[p] <= IF Def[p] = 0 THEN 1 ELSE 2
  <2>1. runs[p] \in 0 .. 3 /\ Left(seen, Def[p]) \in {0, 1, 2}
    BY <1>1 DEF MasterInv, Master!TypeOK, Left
  <2>2. /\ ~Refers(p) => runs[p] <= 1
        /\ Refers(p) => runs[p] + Left(seen, Def[p]) <= 2
    BY <1>1 DEF MasterInv, CountedOK
  <2>3. Refers(p) => Def[p] # 0
    BY DEF Refers
  <2>. QED
    BY <2>1, <2>2, <2>3
<1>2. MasterInv => Master!ExecutedOnce
  BY <1>1 DEF Master!ExecutedOnce
<1>. QED
  BY <1>2, MasterInvariant, PTL

\* Echo.
LEMMA EchoStepHolds ==
  ASSUME Master!Configured, MasterInv, [Master!Next]_Master!vars
  PROVE  Master!EchoStep
<1>. USE DEF MasterInv
<1>. SUFFICES ASSUME NEW p \in Master!Params, runs'[p] > runs[p], own[p], out[p] # NoValue,
                     ~todo[p].need, reg[p] \notin Unmapped[p], p \in Plain
              PROVE  FALSE
  BY DEF Master!EchoStep, Plain
<1>1. runs[p] \in 0 .. 3
  BY DEF Master!TypeOK
<1>2. CASE Master!ReadAll
  <2>1. /\ p \in Master!FoundIn[PARAMS].exec
    BY <1>1, <1>2 DEF Master!ReadAll
  <2>2. ~Refers(p)
    BY DEF Refers
  <2>3. out[p] # reg[p]
    BY <2>1, <2>2, PrefixAll DEF Prefix
  <2>. QED
    BY <2>3 DEF OwnOK
<1>3. CASE ~Master!ReadAll
  <2>1. runs'[p] = runs[p] \/ runs'[p] = 0
    BY <1>3 DEF Master!Next, Master!vars, Master!Command, Master!Ctrl, Master!Poll,
       Master!PollSends, Master!Prefetched, Master!Written, Master!Unanswered, Master!Resend,
      Master!PollReads, Master!ReadNothing, Master!DeviceSets, Master!Reload, Master!Silence,
      Master!Interval, Master!Taken
  <2>. QED
    BY <1>1, <2>1
<1>. QED
  BY <1>2, <1>3

\* A value that we have written is not executed as news when the next polling reads it back.
THEOREM NoEchoHolds ==
  ASSUME Master!Configured
  PROVE  Master!Spec => Master!NoEcho
<1>1. [](MasterInv) /\ [][Master!Next]_Master!vars => [][Master!EchoStep]_Master!vars
  <2>1. MasterInv /\ [Master!Next]_Master!vars => [Master!EchoStep]_Master!vars
    BY EchoStepHolds
  <2>. QED
    BY <2>1, PTL
<1>. QED
  BY <1>1, MasterInvariant, PTL DEF Master!Spec, Master!NoEcho

---------------------------------------------------------------------------------
\* Ventilation of several zones

CONSTANTS ZONES, Volume, Pids, First, turnbyfan, PidLevels, ZoneCommands, Reports, HandSets,
          Reconnects
VARIABLES ventZone, ventNode, ventTold, ventSet, retaining, ventBefore
Vent == INSTANCE Multivent

\* What a zone may be: ON is a command and never a mode, and what a stop has noted is a mode
\* that is on.
ZoneT == [cmd : Vent!Modes, fan : Vent!Levels, out : -255 .. 255, pasv : BOOLEAN, frozen : BOOLEAN,
          precmd : (Vent!Modes \ {"OFF"}) \cup {Vent!None}, halted : (Vent!Modes \ {"OFF"}) \cup {Vent!None}, fanIn : 0 .. 255,
          pid : {"none", "manual", "auto"}]
ZonesT == [Vent!Zones -> ZoneT]
NodeT == [val : {"none", "hot", "mild", "cold"}, mode : Vent!States \cup {Vent!None},
          fan : Vent!Levels, lastCmd : Vent!States \cup {Vent!None, Vent!Unknown}, lastFan : Vent!Levels,
          preCmd : Vent!States \cup {Vent!Unknown}, set : Vent!Levels, lastSet : Vent!Levels, preset : Vent!Levels,
          boost : BOOLEAN]
ToldT == [cmd : Vent!States \cup {Vent!None}, fan : Vent!Levels, set : Vent!Levels]

\* Some damper is open, and some zone has had a level, so that the mean is not negative.
Good(zs) == (\E z \in Vent!Zones : zs[z].out = 255) /\ (\E z \in Vent!Zones : zs[z].fan >= 0)

\* What was noted at the last stop is what is restored.
Remembered(zs, before) == \A z \in Vent!Zones : before[z] # Vent!None => before[z] = zs[z].halted

\* The inductive invariant: the types, an open damper while the fan runs, and the history.
VentInv ==
  /\ ventZone \in ZonesT /\ ventNode \in NodeT /\ ventTold \in ToldT /\ ventSet \in Vent!Levels
  /\ ventBefore \in [Vent!Zones -> Vent!States \cup {Vent!None}]
  /\ ventNode.lastFan > 0 => Good(ventZone)
  /\ Remembered(ventZone, ventBefore)

-----------------------------------------------------------------------------
\* Division of natural numbers, as far as shares and means need it.
LEMMA DivBound ==
  ASSUME NEW a \in Nat, NEW b \in Nat \ {0}, NEW c \in Nat, a <= c * b
  PROVE  a \div b \in 0 .. c
OBVIOUS

LEMMA DivSmall ==
  ASSUME NEW a \in Nat, NEW b \in Nat \ {0}, a < b
  PROVE  a \div b = 0
OBVIOUS

LEMMA DivExact ==
  ASSUME NEW a \in Nat, NEW b \in Nat \ {0}
  PROVE  (a * b) \div b = a
OBVIOUS

LEMMA TimesMono ==
  ASSUME NEW a \in Int, NEW c \in Int, NEW b \in Nat, a <= c
  PROVE  b * a <= b * c
OBVIOUS

LEMMA QuotBound ==
  ASSUME NEW a \in Int, NEW b \in Nat \ {0}, NEW c \in Nat, NEW d \in Nat, 0 - d * b <= a, a <= c * b
  PROVE  Vent!Quot(a, b) \in -d .. c
<1>1. CASE a >= 0
  <2>1. a \in Nat
    BY <1>1
  <2>2. a \div b \in 0 .. c
    BY <2>1, DivBound
  <2>. QED
    BY <1>1, <2>2 DEF Vent!Quot
<1>2. CASE ~(a >= 0)
  <2>1. -a \in Nat /\ -a <= d * b
    BY <1>2
  <2>2. (-a) \div b \in 0 .. d
    BY <2>1, DivBound
  <2>3. Vent!Quot(a, b) = -((-a) \div b)
    BY <1>2 DEF Vent!Quot
  <2>. QED
    BY <2>2, <2>3
<1>. QED
  BY <1>1, <1>2

\* A mean of more than 0 is one of a sum of more than 0; the mean is not below 0 if the sum is
\* more than -1 everywhere.
LEMMA QuotSign ==
  ASSUME NEW a \in Int, NEW b \in Nat \ {0}
  PROVE  /\ Vent!Quot(a, b) > 0 => a > 0
         /\ a > 0 - b => Vent!Quot(a, b) >= 0
<1>1. CASE a >= 0
  <2>1. a \div b \in Nat /\ (a = 0 => a \div b = 0)
    BY <1>1
  <2>. QED
    BY <1>1, <2>1 DEF Vent!Quot
<1>2. CASE ~(a >= 0)
  <2>1. -a \in Nat /\ (-a) \div b \in Nat
    BY <1>2
  <2>2. a > 0 - b => (-a) \div b = 0
    BY <1>2, DivSmall
  <2>3. Vent!Quot(a, b) = -((-a) \div b)
    BY <1>2 DEF Vent!Quot
  <2>. QED
    BY <2>1, <2>2, <2>3
<1>. QED
  BY <1>1, <1>2

\* The sums: such a function exists up to every zone.
Summed(s, zs, z) ==
  [air |-> s.air + (IF z \in Vent!Open(zs) THEN Vent!AirOf(zs, z) ELSE 0), vol |-> s.vol + Volume[z]]
SumRounds(g, zs, m) ==
  g = [n \in 0 .. m |-> IF n = 0 THEN [air |-> 0, vol |-> 0] ELSE Summed(g[n - 1], zs, n)]

LEMMA SumsExist ==
  ASSUME NEW zs, NEW m \in Nat
  PROVE  \E g : SumRounds(g, zs, m)
<1>. DEFINE T == {n \in Nat : ~\E g : SumRounds(g, zs, n)}
<1>. SUFFICES ASSUME T # {} PROVE FALSE
  OBVIOUS
<1>1. PICK k \in T : \A n \in T : k <= n
  BY Least
<1>2. CASE k = 0
  <2>. DEFINE g == [n \in 0 .. 0 |-> [air |-> 0, vol |-> 0]]
  <2>1. g = [n \in 0 .. 0 |-> IF n = 0 THEN [air |-> 0, vol |-> 0] ELSE Summed(g[n - 1], zs, n)]
    OBVIOUS
  <2>. HIDE DEF g
  <2>2. SumRounds(g, zs, 0)
    BY <2>1 DEF SumRounds
  <2>. QED
    BY <1>1, <1>2, <2>2
<1>3. CASE k # 0
  <2>1. k - 1 \in Nat /\ k - 1 \notin T
    BY <1>1, <1>3
  <2>2. PICK h : SumRounds(h, zs, k - 1)
    BY <2>1
  <2>. DEFINE g == [n \in 0 .. k |-> IF n = k THEN Summed(h[k - 1], zs, k) ELSE h[n]]
  <2>3. \A n \in 0 .. k - 1 : g[n] = h[n]
    BY <1>1
  <2>4. ASSUME NEW n \in 0 .. k
        PROVE  g[n] = IF n = 0 THEN [air |-> 0, vol |-> 0] ELSE Summed(g[n - 1], zs, n)
    <3>1. CASE n = k
      <4>1. g[n] = Summed(h[k - 1], zs, k) /\ g[k - 1] = h[k - 1]
        BY <1>1, <1>3, <2>3, <3>1
      <4>. QED
        BY <1>3, <3>1, <4>1
    <3>2. CASE n # k
      <4>1. n \in 0 .. k - 1 /\ (n # 0 => n - 1 \in 0 .. k - 1)
        BY <1>1, <3>2
      <4>2. h[n] = IF n = 0 THEN [air |-> 0, vol |-> 0] ELSE Summed(h[n - 1], zs, n)
        BY <2>2, <4>1 DEF SumRounds
      <4>. HIDE DEF g
      <4>. QED
        BY <2>3, <4>1, <4>2
    <3>. QED
      BY <3>1, <3>2
  <2>5. g = [n \in 0 .. k |-> g[n]]
    OBVIOUS
  <2>. HIDE DEF g
  <2>6. g = [n \in 0 .. k |-> IF n = 0 THEN [air |-> 0, vol |-> 0] ELSE Summed(g[n - 1], zs, n)]
    BY <2>4, <2>5
  <2>7. SumRounds(g, zs, k)
    BY <2>6 DEF SumRounds
  <2>. QED
    BY <1>1, <2>7
<1>. QED
  BY <1>2, <1>3

LEMMA SumsIs ==
  ASSUME Vent!Configured, NEW zs
  PROVE  \E g : /\ Vent!Sums(zs) = g[ZONES]
                /\ g[0] = [air |-> 0, vol |-> 0]
                /\ \A n \in Vent!Zones : g[n] = Summed(g[n - 1], zs, n)
<1>1. ZONES \in Nat
  BY DEF Vent!Configured
<1>2. \E g : SumRounds(g, zs, ZONES)
  BY <1>1, SumsExist
<1>. DEFINE g == CHOOSE f : SumRounds(f, zs, ZONES)
<1>3. Vent!Sums(zs) = g[ZONES]
  BY DEF Vent!Sums, SumRounds, Summed
<1>4. SumRounds(g, zs, ZONES)
  BY <1>2
<1>. HIDE DEF g
<1>5. \A n \in 0 .. ZONES : g[n] = IF n = 0 THEN [air |-> 0, vol |-> 0] ELSE Summed(g[n - 1], zs, n)
  BY <1>4 DEF SumRounds
<1>6. g[0] = [air |-> 0, vol |-> 0] /\ \A n \in Vent!Zones : g[n] = Summed(g[n - 1], zs, n)
  BY <1>1, <1>5 DEF Vent!Zones
<1>. QED
  BY <1>3, <1>6


\* Induction along the zones: f stays in the sets P, one for every number of zones.
LEMMA Induct ==
  ASSUME NEW m \in Nat, NEW P, NEW f, f[0] \in P[0],
         \A n \in 1 .. m : f[n - 1] \in P[n - 1] => f[n] \in P[n]
  PROVE  f[m] \in P[m]
<1>. DEFINE T == {n \in 0 .. m : f[n] \notin P[n]}
<1>. SUFFICES ASSUME T # {} PROVE FALSE
  OBVIOUS
<1>1. T \in SUBSET Nat
  OBVIOUS
<1>2. PICK k \in T : \A n \in T : k <= n
  BY <1>1, Least
<1>3. k # 0 /\ k \in 1 .. m
  BY <1>2
<1>4. k - 1 \in 0 .. m /\ k - 1 \notin T
  BY <1>2, <1>3
<1>5. f[k - 1] \in P[k - 1]
  BY <1>4
<1>. QED
  BY <1>2, <1>3, <1>5

\* A function that F takes from x on, along the zones, exists.
Walk(g, m, X, x, F) ==
  /\ g \in [0 .. m -> X] /\ g[0] = x
  /\ \A n \in 1 .. m : g[n] = F[<<n, g[n - 1]>>]

LEMMA Iterates ==
  ASSUME NEW m \in Nat, NEW X, NEW x \in X, NEW F \in [(1 .. m) \X X -> X]
  PROVE  \E g : Walk(g, m, X, x, F)
<1>. DEFINE Along(g, k) == g[0] = x /\ \A n \in 1 .. k : g[n] = F[<<n, g[n - 1]>>]
            T == {k \in 0 .. m : ~\E g \in [0 .. k -> X] : Along(g, k)}
<1>. SUFFICES ASSUME T # {} PROVE FALSE
  BY DEF Walk
<1>1. T \in SUBSET Nat
  OBVIOUS
<1>2. PICK k \in T : \A n \in T : k <= n
  BY <1>1, Least
<1>3. CASE k = 0
  <2>1. [n \in 0 .. 0 |-> x] \in [0 .. 0 -> X] /\ Along([n \in 0 .. 0 |-> x], 0)
    OBVIOUS
  <2>. QED
    BY <1>2, <1>3, <2>1
<1>4. CASE k # 0
  <2>1. k \in 1 .. m /\ k - 1 \in 0 .. m /\ k - 1 \notin T
    BY <1>2, <1>4
  <2>2. PICK h \in [0 .. k - 1 -> X] : Along(h, k - 1)
    BY <2>1
  <2>. DEFINE g == [n \in 0 .. k |-> IF n = k THEN F[<<k, h[k - 1]>>] ELSE h[n]]
  <2>3. h[k - 1] \in X /\ F[<<k, h[k - 1]>>] \in X
    BY <2>1
  <2>4. \A n \in 0 .. k : n # k => n \in 0 .. k - 1 /\ h[n] \in X
    BY <2>1
  <2>5. g \in [0 .. k -> X]
    BY <2>3, <2>4
  <2>6. \A n \in 0 .. k - 1 : g[n] = h[n]
    BY <2>1
  <2>7. g[k] = F[<<k, g[k - 1]>>]
    <3>1. g[k] = F[<<k, h[k - 1]>>] /\ g[k - 1] = h[k - 1] /\ k \in 0 .. k
      BY <2>1, <2>6
    <3>. HIDE DEF g
    <3>. QED
      BY <3>1
  <2>. HIDE DEF g
  <2>8. ASSUME NEW n \in 1 .. k
        PROVE  g[n] = F[<<n, g[n - 1]>>]
    <3>1. CASE n = k
      BY <3>1, <2>7
    <3>2. CASE n # k
      <4>1. n \in 1 .. k - 1 /\ n \in 0 .. k - 1 /\ n - 1 \in 0 .. k - 1
        BY <2>1, <3>2
      <4>. QED
        BY <4>1, <2>2, <2>6
    <3>. QED
      BY <3>1, <3>2
  <2>9. g[0] = x
    BY <2>1, <2>2, <2>6
  <2>10. \E f \in [0 .. k -> X] : Along(f, k)
    BY <2>5, <2>8, <2>9
  <2>. QED
    BY <1>2, <2>10
<1>. QED
  BY <1>3, <1>4


\* The mean level of the zones.
MeanOf(zs, n) ==
  {s \in [air : Int, vol : Nat] :
     /\ 0 - s.vol <= s.air /\ s.air <= 255 * s.vol
     /\ n > 0 => s.vol > 0
     /\ (\E z \in 1 .. n : zs[z].fan >= 0) => s.air > 0 - s.vol
     /\ s.air > 0 => \E z \in 1 .. n : z \in Vent!Open(zs) /\ zs[z].fan > 0}

\* The air of a zone, within its volume.
LEMMA AirIs ==
  ASSUME NEW v \in Nat \ {0}, NEW f \in Vent!Levels
  PROVE  /\ v * f \in Int /\ 0 - v <= v * f /\ v * f <= 255 * v
         /\ f >= 0 => v * f >= 0
         /\ v * f > 0 => f > 0
<1>1. f \in Int /\ -1 <= f /\ f <= 255
  BY DEF Vent!Levels
<1>2. v * (-1) <= v * f /\ v * f <= v * 255
  BY <1>1, TimesMono
<1>3. f >= 0 => v * 0 <= v * f
  BY <1>1, TimesMono
<1>4. ~(f > 0) => v * f <= v * 0
  BY <1>1, TimesMono
<1>5. v * f \in Int /\ v * (-1) = 0 - v /\ v * 255 = 255 * v /\ v * 0 = 0
  BY <1>1
<1>. QED
  BY <1>1, <1>2, <1>3, <1>4, <1>5

LEMMA SummedIs ==
  ASSUME Vent!Configured, NEW zs \in ZonesT, NEW n \in Vent!Zones, NEW s \in MeanOf(zs, n - 1)
  PROVE  Summed(s, zs, n) \in MeanOf(zs, n)
<1>. DEFINE a == IF n \in Vent!Open(zs) THEN Vent!AirOf(zs, n) ELSE 0
            v == Volume[n]
<1>1. v \in Nat \ {0} /\ zs[n].fan \in Vent!Levels
  BY DEF Vent!Configured, ZonesT, ZoneT
<1>2. /\ Vent!AirOf(zs, n) \in Int /\ 0 - v <= Vent!AirOf(zs, n) /\ Vent!AirOf(zs, n) <= 255 * v
      /\ zs[n].fan >= 0 => Vent!AirOf(zs, n) >= 0
      /\ Vent!AirOf(zs, n) > 0 => zs[n].fan > 0
  BY <1>1, AirIs DEF Vent!AirOf
<1>3. /\ a \in Int /\ 0 - v <= a /\ a <= 255 * v
      /\ zs[n].fan >= 0 => a >= 0
      /\ a > 0 => n \in Vent!Open(zs) /\ zs[n].fan > 0
  BY <1>1, <1>2
<1>4. /\ s.air \in Int /\ s.vol \in Nat
      /\ 0 - s.vol <= s.air /\ s.air <= 255 * s.vol
      /\ (\E z \in 1 .. n - 1 : zs[z].fan >= 0) => s.air > 0 - s.vol
      /\ s.air > 0 => \E z \in 1 .. n - 1 : z \in Vent!Open(zs) /\ zs[z].fan > 0
  BY DEF MeanOf
<1>5. Summed(s, zs, n) = [air |-> s.air + a, vol |-> s.vol + v]
  BY DEF Summed
<1>6. n \in Int /\ n \in 1 .. n /\ \A z \in 1 .. n : z = n \/ z \in 1 .. n - 1
  BY DEF Vent!Zones
<1>7. \A z \in 1 .. n - 1 : z \in 1 .. n
  BY DEF Vent!Zones
<1>. HIDE DEF a, v
<1>8. /\ s.air + a \in Int /\ s.vol + v \in Nat /\ s.vol + v > 0
      /\ 0 - (s.vol + v) <= s.air + a /\ s.air + a <= 255 * (s.vol + v)
  BY <1>1, <1>3, <1>4
<1>9. ASSUME \E z \in 1 .. n : zs[z].fan >= 0
      PROVE  s.air + a > 0 - (s.vol + v)
  <2>1. CASE zs[n].fan >= 0
    BY <1>1, <1>3, <1>4, <2>1
  <2>2. CASE ~(zs[n].fan >= 0)
    <3>1. \E z \in 1 .. n - 1 : zs[z].fan >= 0
      BY <1>6, <1>9, <2>2
    <3>. QED
      BY <1>1, <1>3, <1>4, <3>1
  <2>. QED
    BY <2>1, <2>2
<1>10. ASSUME s.air + a > 0
       PROVE  \E z \in 1 .. n : z \in Vent!Open(zs) /\ zs[z].fan > 0
  <2>1. CASE a > 0
    BY <1>3, <1>6, <2>1
  <2>2. CASE ~(a > 0)
    <3>1. s.air > 0
      BY <1>3, <1>4, <1>10, <2>2
    <3>. QED
      BY <1>4, <1>7, <3>1
  <2>. QED
    BY <2>1, <2>2
<1>11. /\ [air |-> s.air + a, vol |-> s.vol + v].air = s.air + a
       /\ [air |-> s.air + a, vol |-> s.vol + v].vol = s.vol + v
       /\ [air |-> s.air + a, vol |-> s.vol + v] \in [air : Int, vol : Nat]
  BY <1>8
<1>. DEFINE t == [air |-> s.air + a, vol |-> s.vol + v]
<1>12. /\ t \in [air : Int, vol : Nat] /\ t.air = s.air + a /\ t.vol = s.vol + v
  BY <1>11
<1>. HIDE DEF t
<1>13. t \in MeanOf(zs, n)
  BY <1>8, <1>9, <1>10, <1>12 DEF MeanOf
<1>. QED
  BY <1>5, <1>13 DEF t

LEMMA FanIs ==
  ASSUME Vent!Configured, NEW zs \in ZonesT
  PROVE  /\ Vent!fanV(zs) \in Vent!Levels
         /\ Vent!fanV(zs) > 0 => \E z \in Vent!Zones : z \in Vent!Open(zs) /\ zs[z].fan > 0
         /\ (\E z \in Vent!Zones : zs[z].fan >= 0) => Vent!fanV(zs) >= 0
<1>1. ZONES \in Nat \ {0}
  BY DEF Vent!Configured
<1>2. PICK g : /\ Vent!Sums(zs) = g[ZONES]
               /\ g[0] = [air |-> 0, vol |-> 0]
               /\ \A n \in Vent!Zones : g[n] = Summed(g[n - 1], zs, n)
  BY SumsIs
<1>. DEFINE P == [n \in 0 .. ZONES |-> MeanOf(zs, n)]
<1>3. \A n \in 0 .. ZONES : P[n] = MeanOf(zs, n)
  OBVIOUS
<1>4. g[0] \in P[0]
  <2>1. [air |-> 0, vol |-> 0] \in MeanOf(zs, 0)
    BY DEF MeanOf
  <2>. QED
    BY <1>1, <1>2, <2>1
<1>5. ASSUME NEW n \in 1 .. ZONES, g[n - 1] \in P[n - 1]
      PROVE  g[n] \in P[n]
  <2>1. n \in Vent!Zones /\ n \in 0 .. ZONES /\ n - 1 \in 0 .. ZONES
    BY <1>1 DEF Vent!Zones
  <2>2. g[n - 1] \in MeanOf(zs, n - 1)
    BY <1>3, <1>5, <2>1
  <2>3. Summed(g[n - 1], zs, n) \in MeanOf(zs, n)
    BY <2>1, <2>2, SummedIs
  <2>. QED
    BY <1>2, <1>3, <2>1, <2>3
<1>. HIDE DEF P
<1>6. g[ZONES] \in P[ZONES]
  BY <1>1, <1>4, <1>5, Induct
<1>7. Vent!Sums(zs) \in MeanOf(zs, ZONES)
  BY <1>1, <1>2, <1>3, <1>6
<1>. DEFINE a == Vent!Sums(zs).air  v == Vent!Sums(zs).vol
<1>8. /\ a \in Int /\ v \in Nat \ {0} /\ 0 - v <= a /\ a <= 255 * v
      /\ (\E z \in Vent!Zones : zs[z].fan >= 0) => a > 0 - v
      /\ a > 0 => \E z \in Vent!Zones : z \in Vent!Open(zs) /\ zs[z].fan > 0
  <2>1. /\ Vent!Sums(zs) \in [air : Int, vol : Nat]
        /\ 0 - v <= a /\ a <= 255 * v /\ (ZONES > 0 => v > 0)
        /\ (\E z \in 1 .. ZONES : zs[z].fan >= 0) => a > 0 - v
        /\ a > 0 => \E z \in 1 .. ZONES : z \in Vent!Open(zs) /\ zs[z].fan > 0
    BY <1>7 DEF MeanOf
  <2>2. a \in Int /\ v \in Nat /\ ZONES > 0
    BY <1>1, <2>1
  <2>. HIDE DEF a, v
  <2>. QED
    BY <2>1, <2>2 DEF Vent!Zones
<1>. HIDE DEF a, v
<1>9. Vent!Quot(a, v) \in -1 .. 255
  <2>1. 0 - 1 * v <= a /\ a <= 255 * v /\ 1 \in Nat /\ 255 \in Nat
    BY <1>8
  <2>. QED
    BY <1>8, <2>1, QuotBound, Zenon
<1>10. /\ Vent!Quot(a, v) > 0 => a > 0
       /\ a > 0 - v => Vent!Quot(a, v) >= 0
  BY <1>8, QuotSign
<1>11. Vent!fanV(zs) = Vent!Quot(a, v)
  BY DEF Vent!fanV, a, v
<1>. QED
  BY <1>8, <1>9, <1>10, <1>11 DEF Vent!Levels

\* The zone that asks for most, and the dampers beside its own.
LEMMA LargestIs ==
  ASSUME Vent!Configured, NEW zs \in ZonesT
  PROVE  /\ Vent!Largest(zs) = 0 => \A z \in Vent!Open(zs) : ~(zs[z].fan > 0)
         /\ Vent!Largest(zs) # 0 =>
              /\ Vent!Largest(zs) \in Vent!Open(zs) /\ zs[Vent!Largest(zs)].fan > 0
              /\ \A y \in Vent!Open(zs) : zs[y].fan <= zs[Vent!Largest(zs)].fan
<1>. DEFINE asks == {z \in Vent!Open(zs) : zs[z].fan > 0}
            best(z) == /\ \A y \in asks : zs[y].fan <= zs[z].fan
                       /\ \A y \in asks : zs[y].fan = zs[z].fan => z <= y
<1>1. CASE asks = {}
  <2>1. Vent!Largest(zs) = 0
    BY <1>1 DEF Vent!Largest
  <2>. QED
    BY <1>1, <2>1
<1>2. CASE asks # {}
  <2>1. \A z \in Vent!Open(zs) : z \in Vent!Zones /\ zs[z].fan \in Int /\ zs[z].fan <= 255
    BY DEF Vent!Open, ZonesT, ZoneT, Vent!Levels
  <2>. DEFINE D == {255 - zs[z].fan : z \in asks}
  <2>2. D \in SUBSET Nat /\ D # {}
    <3>1. \A z \in asks : 255 - zs[z].fan \in Nat
      BY <2>1
    <3>2. \A d \in D : \E z \in asks : d = 255 - zs[z].fan
      OBVIOUS
    <3>3. PICK z \in asks : TRUE
      BY <1>2
    <3>4. 255 - zs[z].fan \in D
      BY <3>3
    <3>. HIDE DEF D, asks
    <3>. QED
      BY <3>1, <3>2, <3>4
  <2>3. PICK d \in D : \A e \in D : d <= e
    BY <2>2, Least
  <2>4. PICK x \in asks : d = 255 - zs[x].fan
    BY <2>3
  <2>5. ASSUME NEW y \in asks
        PROVE  zs[y].fan <= zs[x].fan
    <3>1. d <= 255 - zs[y].fan
      BY <2>3
    <3>2. zs[x].fan \in Int /\ zs[y].fan \in Int
      BY <2>1
    <3>. HIDE DEF D, asks
    <3>. QED
      BY <2>4, <3>1, <3>2
  <2>. DEFINE E == {z \in asks : zs[z].fan = zs[x].fan}
  <2>6. E \in SUBSET Nat /\ E # {}
    BY <2>1 DEF Vent!Zones
  <2>7. PICK l \in E : \A e \in E : l <= e
    BY <2>6, Least
  <2>8. l \in asks /\ best(l)
    BY <2>5, <2>7
  <2>9. \E z \in asks : best(z)
    BY <2>8
  <2>10. Vent!Largest(zs) = CHOOSE z \in asks : best(z)
    BY <1>2 DEF Vent!Largest
  <2>11. Vent!Largest(zs) \in asks /\ best(Vent!Largest(zs))
    <3>. HIDE DEF best, asks
    <3>. QED
      BY <2>9, <2>10
  <2>12. ASSUME NEW y \in Vent!Open(zs)
         PROVE  zs[y].fan <= zs[Vent!Largest(zs)].fan
    <3>1. CASE y \in asks
      BY <2>11, <3>1
    <3>2. CASE y \notin asks
      <4>1. zs[y].fan \in Int /\ ~(zs[y].fan > 0) /\ zs[Vent!Largest(zs)].fan > 0 /\ zs[Vent!Largest(zs)].fan \in Int
        BY <2>1, <2>11, <3>2
      <4>. QED
        BY <4>1
    <3>. QED
      BY <3>1, <3>2
  <2>13. Vent!Largest(zs) # 0
    BY <2>1, <2>11 DEF Vent!Zones
  <2>. QED
    BY <2>11, <2>12, <2>13
<1>. QED
  BY <1>1, <1>2

\* A product of three natural numbers, the last of which is exact in a division.
LEMMA ShareExact ==
  ASSUME NEW v \in Nat \ {0}, NEW f \in Nat \ {0}
  PROVE  /\ ((v * f) * 255) \div v = f * 255
         /\ v * f \in Nat \ {0}
         /\ ((f * 255) * v) \div (v * f) = 255
<1>1. f * 255 \in Nat /\ (v * f) * 255 = (f * 255) * v
  OBVIOUS
<1>2. ((f * 255) * v) \div v = f * 255
  BY <1>1, DivExact
<1>3. v * f \in Nat \ {0}
  <2>1. v * 1 <= v * f
    BY TimesMono
  <2>. QED
    BY <2>1
<1>4. (f * 255) * v = 255 * (v * f)
  OBVIOUS
<1>5. (255 * (v * f)) \div (v * f) = 255
  BY <1>3, DivExact
<1>6. ((v * f) * 255) \div v = f * 255
  BY <1>1, <1>2, Zenon
<1>7. ((f * 255) * v) \div (v * f) = 255
  BY <1>4, <1>5, Zenon
<1>. QED
  BY <1>3, <1>6, <1>7, Zenon


LEMMA QuotExact ==
  ASSUME NEW v \in Nat \ {0}, NEW f \in Vent!Levels
  PROVE  Vent!Quot((v * f) * 255, v) = f * 255
<1>1. CASE f > 0
  <2>1. f \in Nat \ {0}
    BY <1>1 DEF Vent!Levels
  <2>2. ((v * f) * 255) \div v = f * 255 /\ v * f \in Nat
    BY <2>1, ShareExact
  <2>3. (v * f) * 255 >= 0
    BY <2>2
  <2>. QED
    BY <2>2, <2>3 DEF Vent!Quot
<1>2. CASE f = 0
  <2>1. (v * f) * 255 = 0 /\ f * 255 = 0 /\ 0 \div v = 0
    BY <1>2
  <2>. QED
    BY <2>1 DEF Vent!Quot
<1>3. CASE f = -1
  <2>1. (v * f) * 255 = -(255 * v) /\ f * 255 = -255 /\ 255 * v > 0 /\ 255 * v \in Nat
    BY <1>3
  <2>2. (255 * v) \div v = 255
    BY DivExact
  <2>3. -((v * f) * 255) = 255 * v /\ ~((v * f) * 255 >= 0)
    BY <2>1
  <2>4. Vent!Quot((v * f) * 255, v) = -((255 * v) \div v)
    BY <2>3, Zenon DEF Vent!Quot
  <2>. QED
    BY <2>1, <2>2, <2>4
<1>. QED
  BY <1>1, <1>2, <1>3 DEF Vent!Levels

LEMMA ShareIs ==
  ASSUME Vent!Configured, NEW zs \in ZonesT, NEW z \in Vent!Zones
  PROVE  /\ Vent!Share(zs, z) \in -255 .. 255
         /\ z = Vent!Largest(zs) => Vent!Share(zs, z) = 255
<1>. DEFINE l == Vent!Largest(zs)
            v == Volume[l]
            f == zs[z].fan
            h == zs[l].fan
<1>1. CASE z \notin Vent!Open(zs) \/ l = 0
  <2>1. Vent!Share(zs, z) = 0
    BY <1>1 DEF Vent!Share
  <2>2. z # l
    BY <1>1, LargestIs DEF Vent!Zones
  <2>. QED
    BY <2>1, <2>2
<1>2. CASE z \in Vent!Open(zs) /\ l # 0
  <2>1. l \in Vent!Open(zs) /\ h > 0 /\ f <= h
    BY <1>2, LargestIs
  <2>2. l \in Vent!Zones /\ v \in Nat \ {0} /\ Volume[z] \in Nat \ {0} /\ f \in Vent!Levels /\ h \in Vent!Levels
    BY <2>1 DEF Vent!Open, Vent!Configured, ZonesT, ZoneT
  <2>3. Vent!Share(zs, z) = Vent!Quot(Vent!Quot((Volume[z] * f) * 255, Volume[z]) * v, v * h)
    BY <1>2 DEF Vent!Share, Vent!AirOf
  <2>. HIDE DEF v, f, h
  <2>4. Vent!Quot((Volume[z] * f) * 255, Volume[z]) = f * 255
    BY <2>2, QuotExact
  <2>5. Vent!Share(zs, z) = Vent!Quot((f * 255) * v, v * h)
    BY <2>3, <2>4
  <2>6. h \in Nat \ {0} /\ f \in Int /\ -1 <= f
    BY <2>1, <2>2 DEF Vent!Levels
  <2>7. v * h \in Nat \ {0}
    BY <2>2, <2>6, ShareExact
  <2>8. (f * 255) * v \in Int /\ 0 - 255 * (v * h) <= (f * 255) * v /\ (f * 255) * v <= 255 * (v * h)
    <3>1. v * f <= v * h /\ v * (-1) <= v * f /\ v * 1 <= v * h
      BY <2>1, <2>2, <2>6, TimesMono
    <3>2. v * f \in Int /\ v * h \in Int /\ v * (-1) = 0 - v /\ v * 1 = v /\ v \in Int
      BY <2>2, <2>6
    <3>3. (f * 255) * v = 255 * (v * f)
      BY <2>2, <2>6
    <3>. DEFINE a == v * f  b == v * h
    <3>4. a \in Int /\ b \in Int /\ a <= b /\ 0 - v <= a /\ v <= b /\ (f * 255) * v = 255 * a
      BY <3>1, <3>2, <3>3
    <3>. HIDE DEF a, b
    <3>5. 255 * a \in Int /\ 0 - 255 * b <= 255 * a /\ 255 * a <= 255 * b
      BY <3>2, <3>4
    <3>. QED
      BY <3>4, <3>5 DEF b
  <2>9. Vent!Share(zs, z) \in -255 .. 255
    <3>1. Vent!Quot((f * 255) * v, v * h) \in -255 .. 255
      <4>1. 255 \in Nat
        OBVIOUS
      <4>. QED
        BY <2>7, <2>8, <4>1, QuotBound, ZenonT(60)
    <3>. QED
      BY <2>5, <3>1
  <2>10. ASSUME z = l
         PROVE  Vent!Share(zs, z) = 255
    <3>1. f = h
      BY <2>10 DEF f, h
    <3>2. ((h * 255) * v) \div (v * h) = 255
      BY <2>2, <2>6, ShareExact
    <3>3. (h * 255) * v >= 0
      BY <2>2, <2>6
    <3>4. Vent!Quot((h * 255) * v, v * h) = 255
      BY <3>2, <3>3 DEF Vent!Quot
    <3>. QED
      BY <2>5, <3>1, <3>4
  <2>. QED
    BY <2>9, <2>10
<1>. QED
  BY <1>1, <1>2

-----------------------------------------------------------------------------
\* What happens to one zone: its damper and what was noted of it stay, and a level once given
\* is never lost.
ZoneKept(zn, to) ==
  /\ to \in ZoneT /\ to.out = zn.out /\ to.halted = zn.halted
  /\ zn.fan >= 0 => to.fan >= 0
Ends == {"refused", "noted", "accepted"}

LEMMA PassiveIs ==
  ASSUME NEW zn \in ZoneT, NEW on \in BOOLEAN
  PROVE  ZoneKept(zn, Vent!Passive(zn, on)) /\ (~on => Vent!Passive(zn, on).fan = zn.fan)
<1>1. CASE zn.pasv = on
  <2>1. Vent!Passive(zn, on) = zn
    BY <1>1 DEF Vent!Passive
  <2>. QED
    BY <2>1 DEF ZoneKept
<1>2. CASE zn.pasv # on /\ on
  <2>. DEFINE e == [zn EXCEPT !.pasv = TRUE, !.fan = 0]
  <2>1. Vent!Passive(zn, on) = e
    BY <1>2 DEF Vent!Passive
  <2>2. e \in ZoneT
    <3>1. 0 \in Vent!Levels
      BY DEF Vent!Levels
    <3>. QED
      BY <3>1 DEF ZoneT
  <2>3. e.out = zn.out /\ e.halted = zn.halted /\ e.fan = 0
    BY DEF ZoneT
  <2>. HIDE DEF e
  <2>4. ZoneKept(zn, e)
    BY <2>2, <2>3 DEF ZoneKept
  <2>. QED
    BY <1>2, <2>1, <2>4
<1>3. CASE zn.pasv # on /\ ~on
  <2>. DEFINE e == [zn EXCEPT !.pasv = FALSE]
  <2>1. Vent!Passive(zn, on) = e
    BY <1>3 DEF Vent!Passive
  <2>2. e \in ZoneT
    BY DEF ZoneT
  <2>3. e.out = zn.out /\ e.halted = zn.halted /\ e.fan = zn.fan
    BY DEF ZoneT
  <2>. HIDE DEF e
  <2>. QED
    BY <2>1, <2>2, <2>3 DEF ZoneKept
<1>. QED
  BY <1>1, <1>2, <1>3

LEMMA EnteredIs ==
  ASSUME NEW zn \in ZoneT, NEW m \in Vent!Modes \ {"OFF"}
  PROVE  ZoneKept(zn, Vent!Entered(zn, m)) /\ Vent!Entered(zn, m).cmd = m
<1>. DEFINE pid == IF zn.pid = "none" \/ m = "ON" THEN zn.pid
                   ELSE IF m \in {"FAN", "AUTO"} THEN "manual" ELSE "auto"
            p == Vent!Passive(zn, FALSE)
            e == [p EXCEPT !.cmd = m, !.pid = pid]
<1>1. pid \in {"none", "manual", "auto"} /\ m \in Vent!Modes
  BY DEF ZoneT
<1>2. p \in ZoneT /\ p.out = zn.out /\ p.halted = zn.halted /\ p.fan = zn.fan
  BY PassiveIs DEF ZoneKept
<1>. HIDE DEF p, pid
<1>3. e \in ZoneT /\ e.out = zn.out /\ e.halted = zn.halted /\ e.fan = zn.fan /\ e.cmd = m
  <2>1. e \in ZoneT
    BY <1>1, <1>2 DEF ZoneT
  <2>2. e.out = p.out /\ e.halted = p.halted /\ e.fan = p.fan /\ e.cmd = m
    BY <1>2 DEF ZoneT
  <2>. QED
    BY <1>2, <2>1, <2>2
<1>4. Vent!MINLEVEL \in Vent!Levels /\ Vent!MINLEVEL >= 0
  BY DEF Vent!MINLEVEL, Vent!Levels
<1>5. Vent!Entered(zn, m) = IF ~retaining /\ e.fan < 20 THEN [e EXCEPT !.fan = Vent!MINLEVEL] ELSE e
  BY DEF Vent!Entered, p, pid
<1>. HIDE DEF e
<1>6. CASE ~retaining /\ e.fan < 20
  <2>1. [e EXCEPT !.fan = Vent!MINLEVEL] \in ZoneT
    BY <1>3, <1>4 DEF ZoneT
  <2>. QED
    BY <1>3, <1>4, <1>5, <1>6, <2>1 DEF ZoneKept, ZoneT
<1>7. CASE ~(~retaining /\ e.fan < 20)
  BY <1>3, <1>5, <1>7 DEF ZoneKept
<1>. QED
  BY <1>6, <1>7

LEMMA StoppedIs ==
  ASSUME NEW zn \in ZoneT
  PROVE  ZoneKept(zn, Vent!Stopped(zn))
<1>. DEFINE pre == IF zn.cmd # "OFF" THEN zn.cmd ELSE zn.precmd
            pid == IF zn.pid = "none" THEN zn.pid ELSE "manual"
<1>1. /\ pre \in (Vent!Modes \ {"OFF"}) \cup {Vent!None} /\ pid \in {"none", "manual", "auto"} /\ "OFF" \in Vent!Modes
  BY DEF ZoneT, Vent!Modes, Vent!States
<1>2. Vent!Stopped(zn) = [zn EXCEPT !.cmd = "OFF", !.precmd = pre, !.pid = pid]
  BY DEF Vent!Stopped, ZoneT
<1>. DEFINE e == [zn EXCEPT !.cmd = "OFF", !.precmd = pre, !.pid = pid]
<1>. HIDE DEF pre, pid
<1>3. e \in ZoneT
  BY <1>1 DEF ZoneT
<1>4. e.out = zn.out /\ e.halted = zn.halted /\ e.fan = zn.fan
  BY DEF ZoneT
<1>. HIDE DEF e
<1>5. ZoneKept(zn, e)
  BY <1>3, <1>4 DEF ZoneKept
<1>. QED
  BY <1>2, <1>5 DEF e

LEMMA ZoneCmdIs ==
  ASSUME NEW zn \in ZoneT, NEW m \in Vent!States \cup {"FREEZE", "UNFREEZE"}
  PROVE  /\ ZoneKept(zn, Vent!ZoneCmd(zn, m).zone) /\ Vent!ZoneCmd(zn, m).ends \in Ends
         /\ m \in Vent!Modes \ {"OFF"} => Vent!ZoneCmd(zn, m).zone.cmd = m /\ Vent!ZoneCmd(zn, m).ends = "accepted"
<1>. USE DEF Ends
<1>0. ZoneKept(zn, zn)
  BY DEF ZoneKept
<1>1. CASE m \in {"FREEZE", "UNFREEZE"}
  <2>1. \E b \in BOOLEAN : Vent!ZoneCmd(zn, m) = Vent!Noted([zn EXCEPT !.frozen = b])
    <3>1. CASE m = "FREEZE"
      BY <3>1 DEF Vent!ZoneCmd, Vent!States
    <3>2. CASE m = "UNFREEZE"
      BY <3>2 DEF Vent!ZoneCmd, Vent!States
    <3>. QED
      BY <1>1, <3>1, <3>2
  <2>2. PICK b \in BOOLEAN : Vent!ZoneCmd(zn, m) = Vent!Noted([zn EXCEPT !.frozen = b])
    BY <2>1
  <2>. DEFINE e == [zn EXCEPT !.frozen = b]
  <2>3. e \in ZoneT
    BY DEF ZoneT
  <2>4. e.out = zn.out /\ e.halted = zn.halted /\ e.fan = zn.fan
    BY DEF ZoneT
  <2>. HIDE DEF e
  <2>5. ZoneKept(zn, e)
    BY <2>3, <2>4 DEF ZoneKept
  <2>6. Vent!ZoneCmd(zn, m).zone = e /\ Vent!ZoneCmd(zn, m).ends = "noted"
    BY <2>2 DEF Vent!Noted, e
  <2>. QED
    BY <1>1, <2>5, <2>6 DEF Vent!Modes, Vent!States
<1>2. CASE m \in {"ON", "OFF"} /\ zn.frozen
  <2>1. Vent!ZoneCmd(zn, m) = Vent!Refused(zn)
    <3>1. CASE m = "ON"
      BY <1>2, <3>1 DEF Vent!ZoneCmd, Vent!States
    <3>2. CASE m = "OFF"
      BY <1>2, <3>2 DEF Vent!ZoneCmd, Vent!States
    <3>. QED
      BY <1>2, <3>1, <3>2
  <2>. QED
    BY <1>0, <1>2, <2>1 DEF Vent!Refused, Vent!Modes
<1>3. CASE m = "ON" /\ ~zn.frozen
  <2>1. CASE zn.cmd # "OFF"
    <3>1. Vent!ZoneCmd(zn, m) = Vent!Accepted(zn)
      BY <1>3, <2>1 DEF Vent!ZoneCmd
    <3>. QED
      BY <1>0, <1>3, <3>1 DEF Vent!Accepted, Vent!Modes
  <2>2. CASE zn.cmd = "OFF"
    <3>. DEFINE x == IF zn.precmd = Vent!None THEN "FAN" ELSE zn.precmd
    <3>1. Vent!ZoneCmd(zn, m) = Vent!Accepted(Vent!Entered(zn, x))
      BY <1>3, <2>2 DEF Vent!ZoneCmd
    <3>2. x \in Vent!Modes \ {"OFF"}
      BY DEF ZoneT, Vent!Modes, Vent!States
    <3>3. ZoneKept(zn, Vent!Entered(zn, x))
      BY <3>2, EnteredIs
    <3>. QED
      BY <1>3, <3>1, <3>3 DEF Vent!Accepted, Vent!Modes
  <2>. QED
    BY <2>1, <2>2
<1>4. CASE m = "OFF" /\ ~zn.frozen
  <2>1. Vent!ZoneCmd(zn, m) = Vent!Accepted(Vent!Stopped(zn))
    BY <1>4 DEF Vent!ZoneCmd
  <2>. QED
    BY <1>4, <2>1, StoppedIs DEF Vent!Accepted
<1>5. CASE m \in Vent!States \ {"ON", "OFF"}
  <2>1. Vent!ZoneCmd(zn, m) = Vent!Accepted(Vent!Entered(zn, m))
    BY <1>5 DEF Vent!ZoneCmd, Vent!States
  <2>. QED
    BY <1>5, <2>1, EnteredIs DEF Vent!Accepted, Vent!Modes
<1>. QED
  BY <1>1, <1>2, <1>3, <1>4, <1>5


LEMMA ZoneLevelIs ==
  ASSUME Vent!Configured, NEW zn \in ZoneT, NEW v \in 0 .. 255, NEW force \in BOOLEAN
  PROVE  ZoneKept(zn, Vent!ZoneLevel(zn, v, force).zone) /\ Vent!ZoneLevel(zn, v, force).ends \in Ends
<1>. DEFINE noted == IF force THEN zn ELSE [zn EXCEPT !.fanIn = v]
            m == IF turnbyfan = Vent!None THEN Vent!None
                 ELSE IF v > 0 /\ zn.cmd = "OFF" THEN turnbyfan
                 ELSE IF v = 0 /\ zn.cmd # "OFF" THEN "OFF" ELSE Vent!None
            level == [noted EXCEPT !.fan = v]
<1>1. noted \in ZoneT
  BY DEF ZoneT
<1>2. noted.out = zn.out /\ noted.halted = zn.halted /\ noted.fan = zn.fan
  BY DEF ZoneT
<1>. HIDE DEF noted
<1>3. level \in ZoneT
  BY <1>1 DEF ZoneT, Vent!Levels
<1>4. level.out = zn.out /\ level.halted = zn.halted /\ level.fan = v
  BY <1>1, <1>2 DEF ZoneT
<1>5. m \in Vent!States \cup {Vent!None}
  BY DEF Vent!Configured, Vent!States
<1>6. Vent!ZoneLevel(zn, v, force) = IF ~force /\ zn.pid = "auto" THEN Vent!Refused(noted)
                                ELSE IF m = Vent!None THEN Vent!Accepted(level) ELSE Vent!ZoneCmd(level, m)
  BY Zenon DEF Vent!ZoneLevel, noted
<1>. HIDE DEF m, level
<1>7. ZoneKept(zn, noted) /\ ZoneKept(zn, level)
  BY <1>1, <1>2, <1>3, <1>4 DEF ZoneKept
<1>8. CASE ~force /\ zn.pid = "auto"
  <2>1. Vent!ZoneLevel(zn, v, force) = Vent!Refused(noted)
    BY <1>6, <1>8
  <2>. QED
    BY <1>7, <2>1 DEF Vent!Refused, Ends
<1>9. CASE ~(~force /\ zn.pid = "auto") /\ m = Vent!None
  <2>1. Vent!ZoneLevel(zn, v, force) = Vent!Accepted(level)
    BY <1>6, <1>9
  <2>. QED
    BY <1>7, <2>1 DEF Vent!Accepted, Ends
<1>10. CASE ~(~force /\ zn.pid = "auto") /\ m # Vent!None
  <2>1. Vent!ZoneLevel(zn, v, force) = Vent!ZoneCmd(level, m) /\ m \in Vent!States
    BY <1>5, <1>6, <1>10
  <2>2. ZoneKept(level, Vent!ZoneCmd(level, m).zone) /\ Vent!ZoneCmd(level, m).ends \in Ends
    BY <1>3, <2>1, ZoneCmdIs
  <2>3. ZoneKept(zn, Vent!ZoneCmd(level, m).zone)
    BY <1>4, <2>2 DEF ZoneKept
  <2>. QED
    BY <2>1, <2>2, <2>3
<1>. QED
  BY <1>8, <1>9, <1>10

LEMMA ZoneFanIs ==
  ASSUME Vent!Configured, NEW zn \in ZoneT, NEW c \in Vent!CommandT, NEW force \in BOOLEAN, c.suffix = "fan"
  PROVE  ZoneKept(zn, Vent!ZoneFan(zn, c, force).zone) /\ Vent!ZoneFan(zn, c, force).ends \in Ends
<1>1. c.val \in Vent!Levels /\ c.val \in Int /\ (c.val < 0 => c.cmd \in Vent!States \cup {"FREEZE", "UNFREEZE"})
  BY DEF Vent!CommandT, Vent!Levels
<1>0. zn.frozen \in BOOLEAN
  BY DEF ZoneT
<1>2. CASE zn.frozen
  <2>1. Vent!ZoneFan(zn, c, force) = Vent!Refused(zn)
    BY <1>2 DEF Vent!ZoneFan
  <2>. QED
    BY <2>1 DEF Vent!Refused, ZoneKept, Ends
<1>3. CASE ~zn.frozen /\ c.val >= 0
  <2>1. c.val \in 0 .. 255
    BY <1>1, <1>3 DEF Vent!Levels
  <2>2. Vent!ZoneFan(zn, c, force) = Vent!ZoneLevel(zn, c.val, force)
    <3>1. ~(c.val < 0)
      BY <1>1, <1>3
    <3>. QED
      BY <1>3, <3>1, Zenon DEF Vent!ZoneFan
  <2>. QED
    BY <2>1, <2>2, ZoneLevelIs
<1>4. CASE ~zn.frozen /\ ~(c.val >= 0)
  <2>. DEFINE p == IF c.cmd = "AUTO" THEN Vent!Passive(zn, TRUE) ELSE IF c.cmd = "OFF" THEN Vent!Passive(zn, FALSE) ELSE zn
              m == IF c.cmd = "AUTO" THEN "OFF" ELSE c.cmd
  <2>0. c.val < 0
    BY <1>1, <1>4
  <2>1. Vent!ZoneFan(zn, c, force) = Vent!ZoneCmd(p, m)
    <3>1. CASE c.cmd = "AUTO"
      BY <1>4, <2>0, <3>1, Zenon DEF Vent!ZoneFan
    <3>2. CASE c.cmd # "AUTO"
      BY <1>4, <2>0, <3>2, Zenon DEF Vent!ZoneFan
    <3>. QED
      BY <3>1, <3>2
  <2>2. ZoneKept(zn, p)
    BY PassiveIs DEF ZoneKept
  <2>3. m \in Vent!States \cup {"FREEZE", "UNFREEZE"} /\ p \in ZoneT
    <3>1. c.cmd \in Vent!States \cup {"FREEZE", "UNFREEZE"} /\ "OFF" \in Vent!States
      BY <1>1, <2>0 DEF Vent!States
    <3>. QED
      BY <2>2, <3>1 DEF ZoneKept
  <2>. HIDE DEF p, m
  <2>4. ZoneKept(p, Vent!ZoneCmd(p, m).zone) /\ Vent!ZoneCmd(p, m).ends \in Ends
    BY <2>3, ZoneCmdIs
  <2>5. ZoneKept(zn, Vent!ZoneCmd(p, m).zone)
    BY <2>2, <2>4 DEF ZoneKept
  <2>. QED
    BY <2>1, <2>4, <2>5
<1>. QED
  BY <1>2, <1>3, <1>4

-----------------------------------------------------------------------------
\* What happens to the zones.
AnyFan(zs) == \E z \in Vent!Zones : zs[z].fan >= 0

\* The dampers: all else stays.
LEMMA BalancedIs ==
  ASSUME Vent!Configured, NEW zs \in ZonesT
  PROVE  /\ Vent!Balanced(zs) \in ZonesT
         /\ \A z \in Vent!Zones : /\ Vent!Balanced(zs)[z].cmd = zs[z].cmd
                                  /\ Vent!Balanced(zs)[z].halted = zs[z].halted
                                  /\ Vent!Balanced(zs)[z].fan = zs[z].fan
         /\ Vent!fanV(zs) > 0 => Good(Vent!Balanced(zs))
         /\ Good(zs) => Good(Vent!Balanced(zs))
<1>. DEFINE to == [z \in Vent!Zones |-> [zs[z] EXCEPT !.out = Vent!Share(zs, z)]]
<1>1. \A z \in Vent!Zones : zs[z] \in ZoneT /\ Vent!Share(zs, z) \in -255 .. 255
  BY ShareIs DEF ZonesT
<1>2. ASSUME NEW z \in Vent!Zones
      PROVE  /\ [zs[z] EXCEPT !.out = Vent!Share(zs, z)] \in ZoneT
             /\ [zs[z] EXCEPT !.out = Vent!Share(zs, z)].cmd = zs[z].cmd
             /\ [zs[z] EXCEPT !.out = Vent!Share(zs, z)].halted = zs[z].halted
             /\ [zs[z] EXCEPT !.out = Vent!Share(zs, z)].fan = zs[z].fan
             /\ [zs[z] EXCEPT !.out = Vent!Share(zs, z)].out = Vent!Share(zs, z)
  <2>. DEFINE x == zs[z]  s == Vent!Share(zs, z)
  <2>1. x \in ZoneT /\ s \in -255 .. 255
    BY <1>1
  <2>. HIDE DEF x, s
  <2>2. [x EXCEPT !.out = s] \in ZoneT
    BY <2>1 DEF ZoneT
  <2>3. /\ [x EXCEPT !.out = s].cmd = x.cmd /\ [x EXCEPT !.out = s].halted = x.halted
        /\ [x EXCEPT !.out = s].fan = x.fan /\ [x EXCEPT !.out = s].out = s
    BY <2>1 DEF ZoneT
  <2>. QED
    BY <2>2, <2>3 DEF x, s
<1>3. to \in ZonesT
  BY <1>2 DEF ZonesT
<1>4. \A z \in Vent!Zones : /\ to[z].cmd = zs[z].cmd /\ to[z].halted = zs[z].halted
                            /\ to[z].fan = zs[z].fan /\ to[z].out = Vent!Share(zs, z)
  BY <1>2
<1>. HIDE DEF to
<1>5. ASSUME Vent!fanV(zs) > 0
      PROVE  Good(to)
  <2>1. PICK z \in Vent!Zones : z \in Vent!Open(zs) /\ zs[z].fan > 0
    BY <1>5, FanIs
  <2>2. Vent!Largest(zs) # 0
    BY <2>1, LargestIs
  <2>3. Vent!Largest(zs) \in Vent!Zones
    BY <2>2, LargestIs DEF Vent!Open
  <2>4. to[Vent!Largest(zs)].out = 255
    BY <1>4, <2>3, ShareIs
  <2>5. zs[z].fan >= 0
    BY <2>1 DEF ZonesT, ZoneT, Vent!Levels
  <2>. QED
    BY <1>4, <2>1, <2>3, <2>4, <2>5 DEF Good
<1>6. CASE Vent!fanV(zs) = 0
  <2>1. Vent!Balanced(zs) = zs
    BY <1>6 DEF Vent!Balanced
  <2>. QED
    BY <1>6, <2>1
<1>7. CASE Vent!fanV(zs) # 0
  <2>1. Vent!Balanced(zs) = to
    BY <1>7 DEF Vent!Balanced, to
  <2>2. ASSUME Good(zs)
        PROVE  Vent!fanV(zs) > 0
    <3>1. Vent!fanV(zs) >= 0 /\ Vent!fanV(zs) \in Vent!Levels
      BY <2>2, FanIs DEF Good
    <3>. QED
      BY <1>7, <3>1 DEF Vent!Levels
  <2>. QED
    BY <1>3, <1>4, <1>5, <2>1, <2>2
<1>. QED
  BY <1>6, <1>7

\* One zone is commanded: of the others only the dampers move, and what is open stays.
Goes(zs, to, z) ==
  /\ to \in ZonesT
  /\ \A y \in Vent!Zones : to[y].halted = zs[y].halted /\ (y # z => to[y].cmd = zs[y].cmd)
  /\ Good(zs) => Good(to)

LEMMA FanCtrlIs ==
  ASSUME Vent!Configured, NEW zs \in ZonesT, NEW z \in Vent!Zones, NEW c \in Vent!CommandT, NEW force \in BOOLEAN
  PROVE  /\ Goes(zs, Vent!FanCtrl(zs, z, c, force).zones, z)
         /\ Vent!FanCtrl(zs, z, c, force).level \in -2 .. 255
         /\ Vent!FanCtrl(zs, z, c, force).level > 0 => Good(Vent!FanCtrl(zs, z, c, force).zones)
         /\ c.suffix = "cmd" /\ c.cmd \in Vent!Modes \ {"OFF"} => Vent!FanCtrl(zs, z, c, force).zones[z].cmd = c.cmd
<1>. DEFINE r == IF c.suffix = "fan" THEN Vent!ZoneFan(zs[z], c, force) ELSE Vent!ZoneCmd(zs[z], c.cmd)
            after == [zs EXCEPT ![z] = r.zone]
            to == Vent!FanCtrl(zs, z, c, force)
<1>1. zs[z] \in ZoneT /\ c.suffix \in {"cmd", "fan"}
  BY DEF ZonesT, Vent!CommandT
<1>2. /\ ZoneKept(zs[z], r.zone) /\ r.ends \in Ends
      /\ c.suffix = "cmd" /\ c.cmd \in Vent!Modes \ {"OFF"} => r.zone.cmd = c.cmd
  <2>1. CASE c.suffix = "fan"
    BY <1>1, <2>1, ZoneFanIs
  <2>2. CASE c.suffix = "cmd"
    <3>1. c.cmd \in Vent!States \cup {"FREEZE", "UNFREEZE"}
      BY <2>2 DEF Vent!CommandT
    <3>. QED
      BY <1>1, <2>2, <3>1, ZoneCmdIs
  <2>. QED
    BY <1>1, <2>1, <2>2
<1>3. to = IF r.ends = "accepted" THEN [zones |-> Vent!Balanced(after), level |-> Vent!fanV(after)]
           ELSE [zones |-> after, level |-> IF r.ends = "refused" THEN -2 ELSE -1]
  BY Zenon DEF Vent!FanCtrl, Vent!Answered
<1>. HIDE DEF r, to
<1>4. /\ after \in ZonesT /\ after[z] = r.zone
      /\ \A y \in Vent!Zones \ {z} : after[y] = zs[y]
  BY <1>2 DEF ZonesT, ZoneKept
<1>. HIDE DEF after
<1>5. /\ \A y \in Vent!Zones : /\ after[y].halted = zs[y].halted /\ (y # z => after[y].cmd = zs[y].cmd)
                               /\ after[y].out = zs[y].out /\ (zs[y].fan >= 0 => after[y].fan >= 0)
  BY <1>2, <1>4 DEF ZoneKept
<1>6. Good(zs) => Good(after)
  BY <1>5 DEF Good
<1>7. CASE r.ends = "accepted"
  <2>1. to.zones = Vent!Balanced(after) /\ to.level = Vent!fanV(after)
    BY <1>3, <1>7
  <2>2. to.level \in -2 .. 255
    BY <1>4, <2>1, FanIs DEF Vent!Levels
  <2>3. Goes(zs, to.zones, z)
    BY <1>4, <1>5, <1>6, <2>1, BalancedIs DEF Goes
  <2>4. to.level > 0 => Good(to.zones)
    BY <1>4, <2>1, BalancedIs
  <2>5. to.zones[z].cmd = r.zone.cmd
    BY <1>4, <2>1, BalancedIs
  <2>. QED
    BY <1>2, <2>2, <2>3, <2>4, <2>5 DEF to
<1>8. CASE r.ends # "accepted"
  <2>1. to.zones = after /\ to.level \in {-1, -2}
    BY <1>3, <1>8
  <2>2. Goes(zs, to.zones, z)
    BY <1>4, <1>5, <1>6, <2>1 DEF Goes
  <2>. QED
    BY <1>2, <1>4, <2>1, <2>2 DEF to
<1>. QED
  BY <1>7, <1>8


LEMMA PidIs ==
  ASSUME NEW zs \in ZonesT, NEW z \in Vent!Zones, NEW x \in {"none", "manual", "auto"}
  PROVE  Goes(zs, [zs EXCEPT ![z].pid = x], z)
<1>. DEFINE e == [zs[z] EXCEPT !.pid = x]
            to == [zs EXCEPT ![z].pid = x]
<1>1. zs[z] \in ZoneT
  BY DEF ZonesT
<1>2. e \in ZoneT
  BY <1>1 DEF ZoneT
<1>3. e.halted = zs[z].halted /\ e.out = zs[z].out /\ e.fan = zs[z].fan
  BY <1>1 DEF ZoneT
<1>4. to[z] = e /\ \A y \in Vent!Zones \ {z} : to[y] = zs[y]
  BY DEF ZonesT
<1>. HIDE DEF e
<1>5. to = [zs EXCEPT ![z] = e]
  BY DEF e
<1>6. to \in ZonesT
  BY <1>2, <1>5 DEF ZonesT
<1>. HIDE DEF to
<1>7. \A y \in Vent!Zones : to[y].halted = zs[y].halted /\ to[y].out = zs[y].out /\ to[y].fan = zs[y].fan
  BY <1>3, <1>4
<1>8. Good(zs) => Good(to)
  BY <1>7 DEF Good
<1>9. Goes(zs, to, z)
  BY <1>4, <1>6, <1>7, <1>8 DEF Goes
<1>. QED
  BY <1>9 DEF to

LEMMA CommandsAre ==
  /\ \A m \in Vent!States : Vent!Mode(m) \in Vent!CommandT /\ Vent!Mode(m).suffix = "cmd" /\ Vent!Mode(m).cmd = m
  /\ \A v \in 0 .. 255 : Vent!Level(v) \in Vent!CommandT
<1>1. ASSUME NEW m \in Vent!States
      PROVE  Vent!Mode(m) \in Vent!CommandT /\ Vent!Mode(m).suffix = "cmd" /\ Vent!Mode(m).cmd = m
  <2>1. -1 \in Vent!Levels
    BY DEF Vent!Levels
  <2>2. m # Vent!None
    BY DEF Vent!States, Vent!None
  <2>. QED
    BY <2>1, <2>2 DEF Vent!Mode, Vent!CommandT
<1>2. ASSUME NEW v \in 0 .. 255
      PROVE  Vent!Level(v) \in Vent!CommandT
  <2>1. v \in Vent!Levels /\ ~(v < 0)
    BY DEF Vent!Levels
  <2>. QED
    BY <2>1 DEF Vent!Level, Vent!CommandT
<1>. QED
  BY <1>1, <1>2

\* A zone is stopped: its mode is noted if it is on.
LEMMA StopOneIs ==
  ASSUME Vent!Configured, NEW zs \in ZonesT, NEW z \in Vent!Zones
  PROVE  /\ Vent!StopOne(zs, z) \in ZonesT
         /\ Good(zs) => Good(Vent!StopOne(zs, z))
         /\ \A y \in Vent!Zones \ {z} : /\ Vent!StopOne(zs, z)[y].cmd = zs[y].cmd
                                        /\ Vent!StopOne(zs, z)[y].halted = zs[y].halted
         /\ Vent!StopOne(zs, z)[z].halted = IF zs[z].cmd = "OFF" THEN zs[z].halted ELSE zs[z].cmd
<1>1. CASE zs[z].cmd = "OFF"
  BY <1>1 DEF Vent!StopOne
<1>2. CASE zs[z].cmd # "OFF"
  <2>. DEFINE e == [zs[z] EXCEPT !.halted = zs[z].cmd]
              noted == [zs EXCEPT ![z].halted = zs[z].cmd]
              to == Vent!FanCtrl(noted, z, Vent!Mode("OFF"), TRUE).zones
  <2>1. Vent!StopOne(zs, z) = to
    BY <1>2 DEF Vent!StopOne
  <2>2. zs[z] \in ZoneT /\ zs[z].cmd \in Vent!Modes \ {"OFF"}
    BY <1>2 DEF ZonesT, ZoneT
  <2>3. e \in ZoneT
    BY <2>2 DEF ZoneT
  <2>4. e.halted = zs[z].cmd /\ e.out = zs[z].out /\ e.fan = zs[z].fan
    BY <2>2 DEF ZoneT
  <2>5. noted[z] = e /\ \A y \in Vent!Zones \ {z} : noted[y] = zs[y]
    BY DEF ZonesT
  <2>6. noted = [zs EXCEPT ![z] = e]
    OBVIOUS
  <2>. HIDE DEF e
  <2>7. noted \in ZonesT
    BY <2>3, <2>6 DEF ZonesT
  <2>. HIDE DEF noted
  <2>8. Good(zs) => Good(noted)
    <3>1. \A y \in Vent!Zones : noted[y].out = zs[y].out /\ noted[y].fan = zs[y].fan
      BY <2>4, <2>5
    <3>. QED
      BY <3>1 DEF Good
  <2>9. Vent!Mode("OFF") \in Vent!CommandT
    BY CommandsAre DEF Vent!States
  <2>10. Goes(noted, to, z)
    BY <2>7, <2>9, FanCtrlIs
  <2>. HIDE DEF to
  <2>11. /\ to \in ZonesT /\ (Good(zs) => Good(to)) /\ to[z].halted = zs[z].cmd
         /\ \A y \in Vent!Zones \ {z} : to[y].cmd = zs[y].cmd /\ to[y].halted = zs[y].halted
    BY <2>4, <2>5, <2>8, <2>10 DEF Goes
  <2>. QED
    BY <1>2, <2>1, <2>11
<1>. QED
  BY <1>1, <1>2

\* A zone is restored: to the mode that was noted.
LEMMA RestoreOneIs ==
  ASSUME Vent!Configured, NEW zs \in ZonesT, NEW z \in Vent!Zones
  PROVE  /\ Vent!RestoreOne(zs, z) \in ZonesT
         /\ Good(zs) => Good(Vent!RestoreOne(zs, z))
         /\ \A y \in Vent!Zones \ {z} : /\ Vent!RestoreOne(zs, z)[y].cmd = zs[y].cmd
                                        /\ Vent!RestoreOne(zs, z)[y].halted = zs[y].halted
         /\ Vent!RestoreOne(zs, z)[z].halted = Vent!None
         /\ zs[z].halted # Vent!None => Vent!RestoreOne(zs, z)[z].cmd = zs[z].halted
<1>. DEFINE m == zs[z].halted
            r == IF m \in {Vent!None, "OFF"} THEN zs ELSE Vent!FanCtrl(zs, z, Vent!Mode(m), TRUE).zones
            to == [r EXCEPT ![z].halted = Vent!None]
            e == [r[z] EXCEPT !.halted = Vent!None]
<1>1. m \in (Vent!Modes \ {"OFF"}) \cup {Vent!None}
  BY DEF ZonesT, ZoneT
<1>2. Vent!RestoreOne(zs, z) = to
  BY Zenon DEF Vent!RestoreOne
<1>3. Goes(zs, r, z) /\ (m # Vent!None => r[z].cmd = m)
  <2>1. CASE m = Vent!None
    BY <2>1 DEF Goes
  <2>2. CASE m # Vent!None
    <3>1. m \in Vent!Modes \ {"OFF"} /\ m \in Vent!States /\ r = Vent!FanCtrl(zs, z, Vent!Mode(m), TRUE).zones
      BY <1>1, <2>2 DEF Vent!Modes
    <3>2. Vent!Mode(m) \in Vent!CommandT /\ Vent!Mode(m).suffix = "cmd" /\ Vent!Mode(m).cmd = m
      BY <3>1, CommandsAre
    <3>3. /\ Goes(zs, Vent!FanCtrl(zs, z, Vent!Mode(m), TRUE).zones, z)
          /\ Vent!Mode(m).suffix = "cmd" /\ Vent!Mode(m).cmd \in Vent!Modes \ {"OFF"} =>
               Vent!FanCtrl(zs, z, Vent!Mode(m), TRUE).zones[z].cmd = Vent!Mode(m).cmd
      BY <3>2, FanCtrlIs, ZenonT(60)
    <3>. HIDE DEF r, m
    <3>. QED
      BY <3>1, <3>2, <3>3
  <2>. QED
    BY <2>1, <2>2
<1>. HIDE DEF r, m
<1>4. r \in ZonesT /\ r[z] \in ZoneT
  BY <1>3 DEF Goes, ZonesT
<1>5. e \in ZoneT
  BY <1>4 DEF ZoneT
<1>6. e.halted = Vent!None /\ e.out = r[z].out /\ e.fan = r[z].fan /\ e.cmd = r[z].cmd
  BY <1>4 DEF ZoneT
<1>7. to[z] = e /\ \A y \in Vent!Zones \ {z} : to[y] = r[y]
  BY <1>4 DEF ZonesT
<1>8. to = [r EXCEPT ![z] = e]
  OBVIOUS
<1>. HIDE DEF e
<1>9. to \in ZonesT
  BY <1>4, <1>5, <1>8 DEF ZonesT
<1>. HIDE DEF to
<1>10. Good(r) => Good(to)
  <2>1. \A y \in Vent!Zones : to[y].out = r[y].out /\ to[y].fan = r[y].fan
    BY <1>6, <1>7
  <2>. QED
    BY <2>1 DEF Good
<1>11. /\ to \in ZonesT /\ (Good(zs) => Good(to)) /\ to[z].halted = Vent!None
       /\ \A y \in Vent!Zones \ {z} : to[y].cmd = zs[y].cmd /\ to[y].halted = zs[y].halted
       /\ m # Vent!None => to[z].cmd = m
  BY <1>3, <1>6, <1>7, <1>9, <1>10 DEF Goes
<1>. QED
  BY <1>2, <1>11 DEF m

\* The zones are stopped, one after the other.
Stopped1(s, n) ==
  /\ s \in ZonesT /\ (Good(ventZone) => Good(s))
  /\ \A y \in Vent!Zones :
       IF y <= n
         THEN s[y].halted = IF ventZone[y].cmd = "OFF" THEN ventZone[y].halted ELSE ventZone[y].cmd
         ELSE s[y].halted = ventZone[y].halted /\ s[y].cmd = ventZone[y].cmd

LEMMA StoppingIs ==
  ASSUME Vent!Configured, ventZone \in ZonesT
  PROVE  Stopped1(Vent!Stopping[ZONES], ZONES)
<1>1. ZONES \in Nat
  BY DEF Vent!Configured
<1>. DEFINE F == [p \in (1 .. ZONES) \X ZonesT |-> Vent!StopOne(p[2], p[1])]
<1>2. F \in [(1 .. ZONES) \X ZonesT -> ZonesT]
  BY StopOneIs DEF Vent!Zones
<1>3. \A n \in 1 .. ZONES, s \in ZonesT : F[<<n, s>>] = Vent!StopOne(s, n)
  OBVIOUS
<1>. HIDE DEF F
<1>4. PICK g : Walk(g, ZONES, ZonesT, ventZone, F)
  BY <1>1, <1>2, Iterates
<1>5. \A n \in 0 .. ZONES : g[n] = IF n = 0 THEN ventZone ELSE Vent!StopOne(g[n - 1], n)
  <2>1. ASSUME NEW n \in 0 .. ZONES, n # 0
        PROVE  g[n] = Vent!StopOne(g[n - 1], n)
    <3>1. n \in 1 .. ZONES /\ n - 1 \in 0 .. ZONES
      BY <1>1, <2>1
    <3>. QED
      BY <1>3, <1>4, <3>1 DEF Walk
  <2>. QED
    BY <1>4, <2>1 DEF Walk
<1>6. \E f : f = [n \in 0 .. ZONES |-> IF n = 0 THEN ventZone ELSE Vent!StopOne(f[n - 1], n)]
  <2>1. g = [n \in 0 .. ZONES |-> g[n]]
    BY <1>4 DEF Walk
  <2>2. g = [n \in 0 .. ZONES |-> IF n = 0 THEN ventZone ELSE Vent!StopOne(g[n - 1], n)]
    BY <1>5, <2>1
  <2>. QED
    BY <2>2
<1>7. Vent!Stopping = [n \in 0 .. ZONES |-> IF n = 0 THEN ventZone ELSE Vent!StopOne(Vent!Stopping[n - 1], n)]
  BY <1>6 DEF Vent!Stopping
<1>8. \A n \in 0 .. ZONES : Vent!Stopping[n] = IF n = 0 THEN ventZone ELSE Vent!StopOne(Vent!Stopping[n - 1], n)
  BY <1>7
<1>. DEFINE f == Vent!Stopping
            P == [n \in 0 .. ZONES |-> {s \in ZonesT : Stopped1(s, n)}]
<1>9. \A n \in 0 .. ZONES : P[n] = {s \in ZonesT : Stopped1(s, n)}
  OBVIOUS
<1>10. f[0] \in P[0]
  <2>1. Stopped1(ventZone, 0)
    BY DEF Stopped1, Vent!Zones
  <2>2. f[0] = ventZone
    BY <1>1, <1>8
  <2>. QED
    BY <1>1, <1>9, <2>1, <2>2
<1>11. ASSUME NEW n \in 1 .. ZONES, f[n - 1] \in P[n - 1]
       PROVE  f[n] \in P[n]
  <2>1. n \in Vent!Zones /\ n \in 0 .. ZONES /\ n - 1 \in 0 .. ZONES /\ n # 0
    BY <1>1 DEF Vent!Zones
  <2>2. f[n - 1] \in ZonesT /\ Stopped1(f[n - 1], n - 1) /\ f[n] = Vent!StopOne(f[n - 1], n)
    BY <1>8, <1>9, <1>11, <2>1
  <2>. HIDE DEF f
  <2>3. \A y \in Vent!Zones : /\ y <= n => y = n \/ y <= n - 1
                              /\ y <= n - 1 => y # n
                              /\ ~(y <= n) => y # n /\ ~(y <= n - 1)
    BY DEF Vent!Zones
  <2>4. ~(n <= n - 1) /\ n <= n
    BY <2>1 DEF Vent!Zones
  <2>. DEFINE t == f[n]  s == f[n - 1]
  <2>5. /\ t \in ZonesT /\ (Good(s) => Good(t))
        /\ \A y \in Vent!Zones \ {n} : t[y].cmd = s[y].cmd /\ t[y].halted = s[y].halted
        /\ t[n].halted = IF s[n].cmd = "OFF" THEN s[n].halted ELSE s[n].cmd
    BY <2>1, <2>2, StopOneIs
  <2>6. Stopped1(s, n - 1)
    BY <2>2
  <2>. HIDE DEF t, s
  <2>7. s[n].halted = ventZone[n].halted /\ s[n].cmd = ventZone[n].cmd
    BY <2>1, <2>4, <2>6 DEF Stopped1
  <2>8. ASSUME NEW y \in Vent!Zones
        PROVE  IF y <= n
                 THEN t[y].halted = IF ventZone[y].cmd = "OFF" THEN ventZone[y].halted
                                                              ELSE ventZone[y].cmd
                 ELSE t[y].halted = ventZone[y].halted /\ t[y].cmd = ventZone[y].cmd
    <3>1. CASE y = n
      BY <2>4, <2>5, <2>7, <3>1
    <3>2. CASE y # n
      BY <2>3, <2>5, <2>6, <3>2 DEF Stopped1
    <3>. QED
      BY <3>1, <3>2
  <2>9. Stopped1(t, n)
    BY <2>5, <2>6, <2>8 DEF Stopped1
  <2>. QED
    BY <1>9, <2>1, <2>5, <2>9 DEF t
<1>. HIDE DEF P, f
<1>12. f[ZONES] \in P[ZONES]
  BY <1>1, <1>10, <1>11, Induct
<1>. QED
  BY <1>1, <1>9, <1>12 DEF f


\* The zones are restored, one after the other.
Restored1(s, n) ==
  /\ s \in ZonesT /\ (Good(ventZone) => Good(s))
  /\ \A y \in Vent!Zones :
       IF y <= n
         THEN s[y].halted = Vent!None /\ (ventZone[y].halted # Vent!None => s[y].cmd = ventZone[y].halted)
         ELSE s[y].halted = ventZone[y].halted

LEMMA RestoringIs ==
  ASSUME Vent!Configured, ventZone \in ZonesT
  PROVE  Restored1(Vent!Restoring[ZONES], ZONES)
<1>1. ZONES \in Nat
  BY DEF Vent!Configured
<1>. DEFINE F == [p \in (1 .. ZONES) \X ZonesT |-> Vent!RestoreOne(p[2], p[1])]
<1>2. F \in [(1 .. ZONES) \X ZonesT -> ZonesT]
  BY RestoreOneIs DEF Vent!Zones
<1>3. \A n \in 1 .. ZONES, s \in ZonesT : F[<<n, s>>] = Vent!RestoreOne(s, n)
  OBVIOUS
<1>. HIDE DEF F
<1>4. PICK g : Walk(g, ZONES, ZonesT, ventZone, F)
  BY <1>1, <1>2, Iterates
<1>5. \A n \in 0 .. ZONES : g[n] = IF n = 0 THEN ventZone ELSE Vent!RestoreOne(g[n - 1], n)
  <2>1. ASSUME NEW n \in 0 .. ZONES, n # 0
        PROVE  g[n] = Vent!RestoreOne(g[n - 1], n)
    <3>1. n \in 1 .. ZONES /\ n - 1 \in 0 .. ZONES
      BY <1>1, <2>1
    <3>. QED
      BY <1>3, <1>4, <3>1 DEF Walk
  <2>. QED
    BY <1>4, <2>1 DEF Walk
<1>6. \E f : f = [n \in 0 .. ZONES |-> IF n = 0 THEN ventZone ELSE Vent!RestoreOne(f[n - 1], n)]
  <2>1. g = [n \in 0 .. ZONES |-> g[n]]
    BY <1>4 DEF Walk
  <2>2. g = [n \in 0 .. ZONES |-> IF n = 0 THEN ventZone ELSE Vent!RestoreOne(g[n - 1], n)]
    BY <1>5, <2>1
  <2>. QED
    BY <2>2
<1>7. Vent!Restoring = [n \in 0 .. ZONES |-> IF n = 0 THEN ventZone ELSE Vent!RestoreOne(Vent!Restoring[n - 1], n)]
  BY <1>6 DEF Vent!Restoring
<1>8. \A n \in 0 .. ZONES : Vent!Restoring[n] = IF n = 0 THEN ventZone ELSE Vent!RestoreOne(Vent!Restoring[n - 1], n)
  BY <1>7
<1>. DEFINE f == Vent!Restoring
            P == [n \in 0 .. ZONES |-> {s \in ZonesT : Restored1(s, n)}]
<1>9. \A n \in 0 .. ZONES : P[n] = {s \in ZonesT : Restored1(s, n)}
  OBVIOUS
<1>10. f[0] \in P[0]
  <2>1. Restored1(ventZone, 0)
    BY DEF Restored1, Vent!Zones
  <2>2. f[0] = ventZone
    BY <1>1, <1>8
  <2>. QED
    BY <1>1, <1>9, <2>1, <2>2
<1>11. ASSUME NEW n \in 1 .. ZONES, f[n - 1] \in P[n - 1]
       PROVE  f[n] \in P[n]
  <2>1. n \in Vent!Zones /\ n \in 0 .. ZONES /\ n - 1 \in 0 .. ZONES /\ n # 0
    BY <1>1 DEF Vent!Zones
  <2>2. f[n - 1] \in ZonesT /\ Restored1(f[n - 1], n - 1) /\ f[n] = Vent!RestoreOne(f[n - 1], n)
    BY <1>8, <1>9, <1>11, <2>1
  <2>. HIDE DEF f
  <2>3. \A y \in Vent!Zones : /\ y <= n => y = n \/ y <= n - 1
                              /\ y <= n - 1 => y # n
                              /\ ~(y <= n) => y # n /\ ~(y <= n - 1)
    BY DEF Vent!Zones
  <2>4. ~(n <= n - 1) /\ n <= n
    BY <2>1 DEF Vent!Zones
  <2>. DEFINE t == f[n]  s == f[n - 1]
  <2>5. /\ t \in ZonesT /\ (Good(s) => Good(t))
        /\ \A y \in Vent!Zones \ {n} : t[y].cmd = s[y].cmd /\ t[y].halted = s[y].halted
        /\ t[n].halted = Vent!None /\ (s[n].halted # Vent!None => t[n].cmd = s[n].halted)
    BY <2>1, <2>2, RestoreOneIs
  <2>6. Restored1(s, n - 1)
    BY <2>2
  <2>. HIDE DEF t, s
  <2>7. s[n].halted = ventZone[n].halted
    BY <2>1, <2>4, <2>6 DEF Restored1
  <2>8. ASSUME NEW y \in Vent!Zones
        PROVE  IF y <= n
                 THEN /\ t[y].halted = Vent!None
                      /\ ventZone[y].halted # Vent!None => t[y].cmd = ventZone[y].halted
                 ELSE t[y].halted = ventZone[y].halted
    <3>1. CASE y = n
      BY <2>4, <2>5, <2>7, <3>1
    <3>2. CASE y # n
      BY <2>3, <2>5, <2>6, <3>2 DEF Restored1
    <3>. QED
      BY <3>1, <3>2
  <2>9. Restored1(t, n)
    BY <2>5, <2>6, <2>8 DEF Restored1
  <2>. QED
    BY <1>9, <2>1, <2>5, <2>9 DEF t
<1>. HIDE DEF P, f
<1>12. f[ZONES] \in P[ZONES]
  BY <1>1, <1>10, <1>11, Induct
<1>. QED
  BY <1>1, <1>9, <1>12 DEF f


-----------------------------------------------------------------------------
\* A pass over the zones.  A level for the unit comes with an open damper, and what was noted of
\* the zones stays.
PassT == [zones : ZonesT, level : -2 .. 255, active : BOOLEAN, computed : BOOLEAN]
Passed(s, zs) ==
  /\ s \in PassT
  /\ s.level > 0 => Good(s.zones)
  /\ Good(zs) => Good(s.zones)
  /\ \A y \in Vent!Zones : s.zones[y].halted = zs[y].halted

\* One step of it, for one zone: the zones and a level.
Steered(r, zs) ==
  /\ r.zones \in ZonesT /\ r.level \in -2 .. 255
  /\ r.level > 0 => Good(r.zones)
  /\ Good(zs) => Good(r.zones)
  /\ \A y \in Vent!Zones : r.zones[y].halted = zs[y].halted

LEMMA SteeredByLevel ==
  ASSUME Vent!Configured, NEW zs \in ZonesT, NEW z \in Vent!Zones, NEW v \in 0 .. 255
  PROVE  Steered(Vent!FanCtrl(zs, z, Vent!Level(v), TRUE), zs)
<1>1. Vent!Level(v) \in Vent!CommandT /\ TRUE \in BOOLEAN
  BY CommandsAre
<1>2. /\ Goes(zs, Vent!FanCtrl(zs, z, Vent!Level(v), TRUE).zones, z)
      /\ Vent!FanCtrl(zs, z, Vent!Level(v), TRUE).level \in -2 .. 255
      /\ Vent!FanCtrl(zs, z, Vent!Level(v), TRUE).level > 0 => Good(Vent!FanCtrl(zs, z, Vent!Level(v), TRUE).zones)
  BY <1>1, FanCtrlIs
<1>. QED
  BY <1>2 DEF Steered, Goes

LEMMA SteeredByPid ==
  ASSUME NEW zs \in ZonesT, NEW z \in Vent!Zones, NEW x \in {"none", "manual", "auto"}
  PROVE  Steered([zones |-> [zs EXCEPT ![z].pid = x], level |-> -1], zs)
<1>1. Goes(zs, [zs EXCEPT ![z].pid = x], z)
  BY PidIs
<1>. QED
  BY <1>1 DEF Steered, Goes

LEMMA SteeredNot ==
  ASSUME NEW zs \in ZonesT
  PROVE  Steered([zones |-> zs, level |-> -1], zs)
BY DEF Steered

LEMMA PollZoneIs ==
  ASSUME Vent!Configured, NEW zs, NEW s, Passed(s, zs), NEW z \in Vent!Zones,
         NEW po \in [Pids -> PidLevels \cup {-1}], NEW hc, NEW fresh \in [Pids -> BOOLEAN]
  PROVE  Passed(Vent!PollZone(s, z, po, hc, fresh), zs)
<1>0. s \in PassT /\ s.zones \in ZonesT /\ s.level \in -2 .. 255 /\ s.active \in BOOLEAN /\ s.computed \in BOOLEAN
  BY DEF Passed, PassT
<1>1. CASE z \notin Pids
  <2>1. Vent!PollZone(s, z, po, hc, fresh) = s
    BY <1>1 DEF Vent!PollZone
  <2>. QED
    BY <2>1
<1>2. CASE z \in Pids
  <2>. DEFINE zn     == s.zones[z]
              wants  == Vent!Wants(zn, hc[z])
              hotcold == Vent!actualMode \in {"HEAT", "COOL"}
              weak   == zn.cmd \in {"FAN", "AUTO"}
              back   == ~hotcold /\ zn.pid = "auto" /\ (zn.pasv \/ weak \/ wants = "OFF")
              r1     == IF hotcold /\ (weak \/ zn.pasv)
                          THEN [zones |-> [s.zones EXCEPT ![z].pid = "auto"], level |-> -1]
                        ELSE IF back
                          THEN Vent!FanCtrl([s.zones EXCEPT ![z].pid = "manual"], z, Vent!Level(zn.fanIn), TRUE)
                        ELSE [zones |-> s.zones, level |-> -1]
              auto   == r1.zones[z].pid = "auto"
              asks   == wants \in {"HEAT", "COOL"}
              wrong  == asks /\ hotcold /\ wants # Vent!actualMode
              passes == ~asks /\ hotcold /\ (zn.cmd # "OFF" \/ zn.pasv)
              r2     == IF auto /\ po[z] >= 0 /\ (asks \/ passes)
                          THEN Vent!FanCtrl(r1.zones, z, Vent!Level(IF wrong THEN 0 ELSE po[z]), TRUE)
                        ELSE IF auto /\ po[z] >= 0 /\ ~asks /\ Vent!actualMode = "FAN"
                          THEN [zones |-> [r1.zones EXCEPT ![z].pid = "manual"], level |-> -1]
                        ELSE [zones |-> r1.zones, level |-> -1]
              later(a, b) == IF b >= 0 THEN b ELSE a
              level  == later(later(s.level, r1.level), r2.level)
              active == s.active \/ (fresh[z] /\ asks /\ auto)
              computed == s.computed \/ (auto /\ po[z] >= 0 /\ asks)
  <2>1. Vent!PollZone(s, z, po, hc, fresh) =
          [zones |-> r2.zones, level |-> level, active |-> active, computed |-> computed]
    BY <1>2, Zenon DEF Vent!PollZone
  <2>2. zn.fanIn \in 0 .. 255
    BY <1>0 DEF ZonesT, ZoneT
  <2>3. Steered(r1, s.zones)
    <3>1. CASE hotcold /\ (weak \/ zn.pasv)
      <4>1. r1 = [zones |-> [s.zones EXCEPT ![z].pid = "auto"], level |-> -1]
        BY <3>1
      <4>. HIDE DEF r1
      <4>. QED
        BY <1>0, <4>1, SteeredByPid
    <3>2. CASE ~(hotcold /\ (weak \/ zn.pasv)) /\ back
      <4>. DEFINE zt == [s.zones EXCEPT ![z].pid = "manual"]
      <4>1. r1 = Vent!FanCtrl(zt, z, Vent!Level(zn.fanIn), TRUE)
        BY <3>2, Zenon
      <4>2. Goes(s.zones, zt, z)
        BY <1>0, PidIs
      <4>. HIDE DEF r1, zt
      <4>3. Steered(r1, zt)
        <5>1. zt \in ZonesT
          BY <4>2 DEF Goes
        <5>. QED
          BY <2>2, <4>1, <5>1, SteeredByLevel
      <4>. QED
        BY <4>2, <4>3 DEF Steered, Goes
    <3>3. CASE ~(hotcold /\ (weak \/ zn.pasv)) /\ ~back
      <4>1. r1 = [zones |-> s.zones, level |-> -1]
        BY <3>3, Zenon
      <4>. HIDE DEF r1
      <4>. QED
        BY <1>0, <4>1, SteeredNot
    <3>. QED
      BY <3>1, <3>2, <3>3
  <2>. HIDE DEF r1
  <2>4. r1.zones \in ZonesT
    BY <2>3 DEF Steered
  <2>5. ~(po[z] >= 0) \/ po[z] \in 0 .. 255
    <3>1. po[z] \in PidLevels \cup {-1}
      BY <1>2
    <3>2. PidLevels \subseteq 0 .. 255
      BY DEF Vent!Configured
    <3>3. CASE po[z] \in PidLevels
      BY <3>2, <3>3
    <3>4. CASE po[z] = -1
      BY <3>4
    <3>. QED
      BY <3>1, <3>3, <3>4
  <2>6. Steered(r2, r1.zones)
    <3>. HIDE DEF auto, asks, wrong, passes
    <3>1. CASE auto /\ po[z] >= 0 /\ (asks \/ passes)
      <4>. DEFINE v == IF wrong THEN 0 ELSE po[z]
      <4>1. v \in 0 .. 255
        BY <2>5, <3>1
      <4>2. r2 = Vent!FanCtrl(r1.zones, z, Vent!Level(v), TRUE)
        BY <3>1, Zenon
      <4>. HIDE DEF v, r2
      <4>. QED
        BY <2>4, <4>1, <4>2, SteeredByLevel
    <3>2. CASE ~(auto /\ po[z] >= 0 /\ (asks \/ passes)) /\ auto /\ po[z] >= 0 /\ ~asks /\ Vent!actualMode = "FAN"
      <4>1. r2 = [zones |-> [r1.zones EXCEPT ![z].pid = "manual"], level |-> -1]
        BY <3>2, Zenon
      <4>. HIDE DEF r2
      <4>. QED
        BY <2>4, <4>1, SteeredByPid
    <3>3. CASE /\ ~(auto /\ po[z] >= 0 /\ (asks \/ passes))
               /\ ~(auto /\ po[z] >= 0 /\ ~asks /\ Vent!actualMode = "FAN")
      <4>1. r2 = [zones |-> r1.zones, level |-> -1]
        BY <3>3, Zenon
      <4>. HIDE DEF r2
      <4>. QED
        BY <2>4, <4>1, SteeredNot
    <3>. QED
      BY <3>1, <3>2, <3>3, Zenon
  <2>7. active \in BOOLEAN /\ computed \in BOOLEAN
    <3>. HIDE DEF auto, asks
    <3>1. (fresh[z] /\ asks /\ auto) \in BOOLEAN /\ (auto /\ po[z] >= 0 /\ asks) \in BOOLEAN
      OBVIOUS
    <3>2. \A a, b \in BOOLEAN : (a \/ b) \in BOOLEAN
      OBVIOUS
    <3>. QED
      BY <1>0, <3>1, <3>2, Zenon
  <2>. HIDE DEF r2, active, computed
  <2>8. level \in -2 .. 255 /\ (level > 0 => r2.level > 0 \/ r1.level > 0 \/ s.level > 0)
    BY <1>0, <2>3, <2>6 DEF Steered
  <2>. HIDE DEF level
  <2>9. /\ s.level > 0 => Good(s.zones)
        /\ Good(zs) => Good(s.zones)
        /\ \A y \in Vent!Zones : s.zones[y].halted = zs[y].halted
    BY DEF Passed
  <2>. DEFINE t == [zones |-> r2.zones, level |-> level, active |-> active, computed |-> computed]
  <2>10. t \in PassT /\ t.zones = r2.zones /\ t.level = level
    BY <2>6, <2>7, <2>8 DEF PassT, Steered
  <2>. HIDE DEF t
  <2>11. Passed(t, zs)
    BY <2>3, <2>6, <2>8, <2>9, <2>10 DEF Passed, Steered
  <2>. QED
    BY <2>1, <2>11 DEF t
<1>. QED
  BY <1>1, <1>2

LEMMA PolledIs ==
  ASSUME Vent!Configured, ventZone \in ZonesT,
         NEW po \in [Pids -> PidLevels \cup {-1}], NEW hc, NEW fresh \in [Pids -> BOOLEAN]
  PROVE  Passed(Vent!Polled(po, hc, fresh), ventZone)
<1>1. ZONES \in Nat
  BY DEF Vent!Configured
<1>. DEFINE X == {s \in PassT : Passed(s, ventZone)}
            F == [p \in (1 .. ZONES) \X X |-> Vent!PollZone(p[2], p[1], po, hc, fresh)]
            first == [zones |-> ventZone, level |-> -1, active |-> FALSE, computed |-> FALSE]
<1>2. ASSUME NEW n \in 1 .. ZONES, NEW s \in X
      PROVE  Vent!PollZone(s, n, po, hc, fresh) \in X
  <2>1. n \in Vent!Zones /\ Passed(s, ventZone)
    BY DEF Vent!Zones
  <2>2. Passed(Vent!PollZone(s, n, po, hc, fresh), ventZone)
    BY <2>1, PollZoneIs
  <2>. QED
    BY <2>2 DEF Passed
<1>3. first \in X
  <2>1. first \in PassT
    BY DEF PassT
  <2>. QED
    BY <2>1 DEF Passed
<1>4. \A n \in 1 .. ZONES, s \in X : F[<<n, s>>] = Vent!PollZone(s, n, po, hc, fresh)
  OBVIOUS
<1>5. F \in [(1 .. ZONES) \X X -> X]
  BY <1>2
<1>. HIDE DEF F, X, first
<1>6. PICK g : Walk(g, ZONES, X, first, F)
  BY <1>1, <1>3, <1>5, Iterates
<1>7. \A n \in 0 .. ZONES : g[n] = IF n = 0 THEN first ELSE Vent!PollZone(g[n - 1], n, po, hc, fresh)
  <2>1. ASSUME NEW n \in 0 .. ZONES, n # 0
        PROVE  g[n] = Vent!PollZone(g[n - 1], n, po, hc, fresh)
    <3>1. n \in 1 .. ZONES /\ n - 1 \in 0 .. ZONES
      BY <1>1, <2>1
    <3>. QED
      BY <1>4, <1>6, <3>1 DEF Walk
  <2>. QED
    BY <1>6, <2>1 DEF Walk
<1>8. \E f : f = [n \in 0 .. ZONES |-> IF n = 0 THEN first ELSE Vent!PollZone(f[n - 1], n, po, hc, fresh)]
  <2>1. g = [n \in 0 .. ZONES |-> g[n]]
    BY <1>6 DEF Walk
  <2>2. g = [n \in 0 .. ZONES |-> IF n = 0 THEN first ELSE Vent!PollZone(g[n - 1], n, po, hc, fresh)]
    BY <1>7, <2>1
  <2>. QED
    BY <2>2
<1>. DEFINE polled == CHOOSE f : f = [n \in 0 .. ZONES |->
                        IF n = 0 THEN first ELSE Vent!PollZone(f[n - 1], n, po, hc, fresh)]
            P == [n \in 0 .. ZONES |-> X]
<1>9. Vent!Polled(po, hc, fresh) = polled[ZONES]
  BY DEF Vent!Polled, Vent!Rounds, first
<1>10. polled = [n \in 0 .. ZONES |-> IF n = 0 THEN first ELSE Vent!PollZone(polled[n - 1], n, po, hc, fresh)]
  BY <1>8
<1>. HIDE DEF polled
<1>11. polled[0] \in P[0]
  BY <1>1, <1>3, <1>10
<1>12. ASSUME NEW n \in 1 .. ZONES, polled[n - 1] \in P[n - 1]
       PROVE  polled[n] \in P[n]
  <2>1. n \in 0 .. ZONES /\ n - 1 \in 0 .. ZONES /\ n # 0
    BY <1>1
  <2>2. polled[n] = Vent!PollZone(polled[n - 1], n, po, hc, fresh)
    BY <1>10, <2>1
  <2>3. polled[n - 1] \in X
    BY <1>12, <2>1
  <2>. QED
    BY <1>2, <2>1, <2>2, <2>3
<1>13. \A n \in 0 .. ZONES : P[n] = X
  OBVIOUS
<1>. HIDE DEF P
<1>14. polled[ZONES] \in P[ZONES]
  BY <1>1, <1>11, <1>12, Induct
<1>. QED
  BY <1>1, <1>9, <1>13, <1>14 DEF X

-----------------------------------------------------------------------------
\* The unit: of its fan it is told a level, or nothing.
UnitT == [node : NodeT, told : ToldT]

LEMMA SendCmdIs ==
  ASSUME NEW u \in UnitT, NEW m \in Vent!States
  PROVE  Vent!SendCmd(u, m) \in UnitT /\ Vent!SendCmd(u, m).node.lastFan \in {u.node.lastFan, -1}
<1>1. u.node \in NodeT /\ u.told \in ToldT
  BY DEF UnitT
<1>2. -1 \in Vent!Levels
  BY DEF Vent!Levels
<1>. DEFINE node == [u.node EXCEPT !.lastCmd = m, !.lastFan = -1]
            told == [u.told EXCEPT !.cmd = m]
<1>3. node \in NodeT /\ node.lastFan = -1
  BY <1>1, <1>2 DEF NodeT
<1>4. told \in ToldT
  BY <1>1 DEF ToldT
<1>5. Vent!SendCmd(u, m) = IF u.node.lastCmd = m THEN u ELSE [node |-> node, told |-> told]
  BY DEF Vent!SendCmd
<1>. HIDE DEF node, told
<1>. QED
  BY <1>3, <1>4, <1>5 DEF UnitT

LEMMA SendFanIs ==
  ASSUME NEW u \in UnitT, NEW v \in Vent!Levels
  PROVE  Vent!SendFan(u, v) \in UnitT /\ Vent!SendFan(u, v).node.lastFan = v
<1>1. u.node \in NodeT /\ u.told \in ToldT
  BY DEF UnitT
<1>. DEFINE has  == u.node.mode \notin {"OFF", Vent!None} \/ u.node.lastFan > 0
            mode == IF u.node.mode = Vent!None THEN Vent!Unknown ELSE u.node.mode
            pre  == IF v = 0 /\ has THEN mode ELSE u.node.preCmd
            last == IF v > 0 /\ ~has THEN u.node.preCmd ELSE u.node.lastCmd
            node == [u.node EXCEPT !.lastFan = v, !.preCmd = pre, !.lastCmd = last]
            told == IF u.node.lastFan = v THEN u.told ELSE [u.told EXCEPT !.fan = v]
<1>2. Vent!SendFan(u, v) = [node |-> node, told |-> told]
  BY Zenon DEF Vent!SendFan
<1>3. u.node.mode \in Vent!States \cup {Vent!None} /\ u.node.preCmd \in Vent!States \cup {Vent!Unknown}
      /\ u.node.lastCmd \in Vent!States \cup {Vent!None, Vent!Unknown}
  BY <1>1 DEF NodeT
<1>4. pre \in Vent!States \cup {Vent!Unknown} /\ last \in Vent!States \cup {Vent!None, Vent!Unknown}
  BY <1>3
<1>5. told \in ToldT
  BY <1>1 DEF ToldT
<1>. HIDE DEF pre, last, told
<1>6. node \in NodeT /\ node.lastFan = v
  BY <1>1, <1>4 DEF NodeT
<1>. HIDE DEF node
<1>. QED
  BY <1>2, <1>5, <1>6 DEF UnitT

LEMMA SendSetIs ==
  ASSUME NEW u \in UnitT, NEW t \in Vent!Levels
  PROVE  Vent!SendSet(u, t) \in UnitT /\ Vent!SendSet(u, t).node.lastFan = u.node.lastFan
<1>1. u.node \in NodeT /\ u.told \in ToldT
  BY DEF UnitT
<1>. DEFINE node == [u.node EXCEPT !.lastSet = t]
            told == IF u.node.lastSet = t THEN u.told ELSE [u.told EXCEPT !.set = t]
<1>2. Vent!SendSet(u, t) = [node |-> node, told |-> told]
  BY Zenon DEF Vent!SendSet
<1>3. told \in ToldT
  BY <1>1 DEF ToldT
<1>4. node \in NodeT /\ node.lastFan = u.node.lastFan
  BY <1>1 DEF NodeT
<1>. HIDE DEF node, told
<1>. QED
  BY <1>2, <1>3, <1>4 DEF UnitT

LEMMA setBoostIs ==
  ASSUME NEW u \in UnitT, NEW t \in Vent!Levels
  PROVE  Vent!setBoost(u, t) \in UnitT /\ Vent!setBoost(u, t).node.lastFan = u.node.lastFan
<1>1. u.node \in NodeT /\ u.told \in ToldT /\ u = [node |-> u.node, told |-> u.told]
  BY DEF UnitT
<1>. DEFINE node == [u.node EXCEPT !.preset = u.node.set, !.boost = TRUE]
            w    == [u EXCEPT !.node = node]
<1>2. Vent!setBoost(u, t) = IF u.node.boost THEN u ELSE Vent!SendSet(w, t)
  BY Zenon DEF Vent!setBoost
<1>3. node \in NodeT /\ node.lastFan = u.node.lastFan
  BY <1>1 DEF NodeT
<1>. HIDE DEF node
<1>4. w \in UnitT /\ w.node.lastFan = u.node.lastFan
  BY <1>1, <1>3 DEF UnitT
<1>. HIDE DEF w
<1>. QED
  BY <1>2, <1>4, SendSetIs

LEMMA resetBoostIs ==
  ASSUME NEW u \in UnitT
  PROVE  Vent!resetBoost(u) \in UnitT /\ Vent!resetBoost(u).node.lastFan = u.node.lastFan
<1>1. u.node \in NodeT /\ u.told \in ToldT
  BY DEF UnitT
<1>. DEFINE t    == u.node.preset
            safe == IF t <= Vent!AC_BOOST_LOW_TEMP \/ t >= Vent!AC_BOOST_HIGH_TEMP THEN Vent!AC_PRESET_TEMP ELSE t
            node == [u.node EXCEPT !.boost = FALSE]
            w    == [u EXCEPT !.node = node]
<1>2. Vent!resetBoost(u) = IF ~u.node.boost THEN u ELSE Vent!SendSet(w, safe)
  BY Zenon DEF Vent!resetBoost
<1>3. t \in Vent!Levels
  BY <1>1 DEF NodeT
<1>4. safe \in Vent!Levels
  BY <1>3 DEF Vent!AC_PRESET_TEMP, Vent!Levels
<1>5. node \in NodeT /\ node.lastFan = u.node.lastFan
  BY <1>1 DEF NodeT
<1>. HIDE DEF safe, node
<1>6. w \in UnitT /\ w.node.lastFan = u.node.lastFan
  BY <1>5 DEF UnitT
<1>. HIDE DEF w
<1>. QED
  BY <1>2, <1>4, <1>6, SendSetIs

\* What Poll makes of the unit: its fan runs only if it ran, or if the pass came to a level.
LEMMA ServedIs ==
  ASSUME NEW p, p.level \in -2 .. 255, Vent!unit \in UnitT, NEW balance
  PROVE  /\ Vent!Served(p, balance) \in UnitT
         /\ Vent!Served(p, balance).node.lastFan \in {Vent!unit.node.lastFan, p.level, -1}
<1>. DEFINE asked(m) == \E z \in Vent!Zones : ventZone[z].cmd = m /\ ventZone[z].fan > 0
            active == p.active /\ ~(p.computed /\ balance = "even")
            boosted == IF p.computed /\ balance = "heat" THEN Vent!setBoost(Vent!unit, Vent!AC_BOOST_HIGH_TEMP)
                       ELSE IF p.computed /\ balance = "cool" THEN Vent!setBoost(Vent!unit, Vent!AC_BOOST_LOW_TEMP)
                       ELSE Vent!unit
            mode   == IF active \/ p.level <= 0 THEN Vent!None
                      ELSE IF asked("AUTO") THEN "AUTO" ELSE IF asked("FAN") THEN "FAN" ELSE Vent!None
            reset  == IF active THEN boosted ELSE Vent!resetBoost(boosted)
            moded  == IF mode = Vent!None THEN reset ELSE Vent!SendCmd(reset, mode)
            sends  == p.level > 0 \/ (p.level = 0 /\ (Vent!actualMode \notin {"HEAT", "COOL"}
                                                     \/ (~active /\ mode = Vent!None)))
<1>1. Vent!Served(p, balance) = IF sends THEN Vent!SendFan(moded, p.level) ELSE moded
  BY Zenon DEF Vent!Served
<1>2. boosted \in UnitT /\ boosted.node.lastFan = Vent!unit.node.lastFan
  <2>1. Vent!AC_BOOST_HIGH_TEMP \in Vent!Levels /\ Vent!AC_BOOST_LOW_TEMP \in Vent!Levels
    BY DEF Vent!AC_BOOST_HIGH_TEMP, Vent!AC_BOOST_LOW_TEMP, Vent!Levels
  <2>. QED
    BY <2>1, setBoostIs
<1>3. mode \in {Vent!None, "AUTO", "FAN"}
  OBVIOUS
<1>4. sends => p.level \in Vent!Levels
  BY DEF Vent!Levels
<1>. HIDE DEF sends, mode, boosted, active
<1>5. reset \in UnitT /\ reset.node.lastFan = Vent!unit.node.lastFan
  BY <1>2, resetBoostIs
<1>. HIDE DEF reset
<1>6. moded \in UnitT /\ moded.node.lastFan \in {Vent!unit.node.lastFan, -1}
  <2>1. mode # Vent!None => mode \in Vent!States
    BY <1>3 DEF Vent!States
  <2>. QED
    BY <1>5, <2>1, SendCmdIs
<1>. HIDE DEF moded
<1>. QED
  BY <1>1, <1>4, <1>6, SendFanIs

-----------------------------------------------------------------------------
LEMMA NewIs ==
  ASSUME Vent!Configured
  PROVE  /\ \A z \in Vent!Zones : Vent!NewZone(z) \in ZoneT /\ Vent!NewZone(z).halted = Vent!None
         /\ Vent!NewNode \in NodeT /\ ~(Vent!NewNode.lastFan > 0)
<1>1. \A z \in Vent!Zones : Vent!NewZone(z) \in ZoneT /\ Vent!NewZone(z).halted = Vent!None
  <2>. TAKE z \in Vent!Zones
  <2>1. First[z] \in Vent!Modes
    BY DEF Vent!Configured
  <2>2. -1 \in Vent!Levels /\ -1 \in -255 .. 255 /\ 0 \in 0 .. 255
    BY DEF Vent!Levels
  <2>. DEFINE pid == IF z \in Pids THEN "manual" ELSE "none"
  <2>3. pid \in {"none", "manual", "auto"}
    OBVIOUS
  <2>. HIDE DEF pid
  <2>4. [cmd |-> First[z], fan |-> -1, out |-> -1, pasv |-> FALSE, frozen |-> FALSE, precmd |-> Vent!None,
         halted |-> Vent!None, fanIn |-> 0, pid |-> pid] \in ZoneT
    BY <2>1, <2>2, <2>3 DEF ZoneT
  <2>. QED
    BY <2>4 DEF Vent!NewZone, pid
<1>2. -1 \in Vent!Levels /\ Vent!AC_PRESET_TEMP \in Vent!Levels /\ ~(-1 > 0)
  BY DEF Vent!Levels, Vent!AC_PRESET_TEMP
<1>3. Vent!NewNode \in NodeT /\ Vent!NewNode.lastFan = -1
  <2>1. "FAN" \in Vent!States
    BY DEF Vent!States
  <2>. QED
    BY <1>2, <2>1 DEF Vent!NewNode, NodeT
<1>. QED
  BY <1>1, <1>2, <1>3

LEMMA VentInit ==
  ASSUME Vent!Configured, Vent!Init
  PROVE  VentInv
<1>1. -1 \in Vent!Levels /\ Vent!AC_PRESET_TEMP \in Vent!Levels
  BY DEF Vent!Levels, Vent!AC_PRESET_TEMP
<1>2. ventTold \in ToldT
  BY <1>1 DEF Vent!Init, ToldT
<1>3. ventZone \in ZonesT /\ ventSet \in Vent!Levels /\ ventBefore \in [Vent!Zones -> Vent!States \cup {Vent!None}]
  BY <1>1, NewIs DEF Vent!Init, ZonesT
<1>4. ventNode = Vent!NewNode /\ Remembered(ventZone, ventBefore)
  BY DEF Vent!Init, Remembered
<1>. QED
  BY <1>2, <1>3, <1>4, NewIs DEF VentInv

\* A step that leaves what was noted of the zones: the zones, their history and the unit.
LEMMA Unnoted ==
  ASSUME VentInv, ventZone' \in ZonesT, ventNode' \in NodeT, ventTold' \in ToldT, ventSet' \in Vent!Levels,
         ventNode'.lastFan > 0 => Good(ventZone'),
         \A y \in Vent!Zones : ventZone'[y].halted = ventZone[y].halted,
         ventBefore' \in [Vent!Zones -> Vent!States \cup {Vent!None}],
         \A y \in Vent!Zones : ventBefore'[y] \in {ventBefore[y], Vent!None}
  PROVE  VentInv' /\ Vent!RestoreStep
<1>1. Vent!RestoreStep
  BY DEF Vent!RestoreStep
<1>2. Remembered(ventZone', ventBefore')
  BY DEF VentInv, Remembered
<1>3. VentInv'
  BY <1>2 DEF VentInv
<1>. QED
  BY <1>1, <1>3

LEMMA UnitTyped ==
  ASSUME VentInv
  PROVE  Vent!unit \in UnitT /\ Vent!unit.node = ventNode /\ Vent!unit.told = ventTold
BY DEF VentInv, UnitT, Vent!unit

LEMMA CtrlStep ==
  ASSUME Vent!Configured, VentInv, NEW z \in Vent!Zones, NEW c \in Vent!CommandT, Vent!Ctrl(z, c)
  PROVE  VentInv' /\ Vent!RestoreStep
<1>. DEFINE r == Vent!FanCtrl(ventZone, z, c, FALSE)
<1>1. ventZone \in ZonesT /\ FALSE \in BOOLEAN
  BY DEF VentInv
<1>2. Goes(ventZone, r.zones, z) /\ r.level \in -2 .. 255 /\ (r.level > 0 => Good(r.zones))
  BY <1>1, FanCtrlIs
<1>3. /\ ventZone' = r.zones
      /\ IF r.level >= 0 THEN Vent!Unit(Vent!SendFan(Vent!unit, r.level)) ELSE UNCHANGED <<ventNode, ventTold>>
      /\ ventBefore' = [ventBefore EXCEPT ![z] = Vent!None] /\ ventSet' = ventSet
  BY DEF Vent!Ctrl
<1>. HIDE DEF r
<1>4. ventNode' \in NodeT /\ ventTold' \in ToldT /\ (ventNode'.lastFan > 0 => Good(ventZone'))
  <2>1. CASE r.level >= 0
    <3>1. r.level \in Vent!Levels
      BY <1>2, <2>1 DEF Vent!Levels
    <3>2. Vent!SendFan(Vent!unit, r.level) \in UnitT /\ Vent!SendFan(Vent!unit, r.level).node.lastFan = r.level
      BY <3>1, UnitTyped, SendFanIs
    <3>. QED
      BY <1>2, <1>3, <2>1, <3>2 DEF Vent!Unit, UnitT
  <2>2. CASE ~(r.level >= 0)
    BY <1>2, <1>3, <2>2 DEF VentInv, Goes
  <2>. QED
    BY <2>1, <2>2
<1>5. ventBefore \in [Vent!Zones -> Vent!States \cup {Vent!None}]
  BY DEF VentInv
<1>6. ventBefore' \in [Vent!Zones -> Vent!States \cup {Vent!None}] /\ \A y \in Vent!Zones : ventBefore'[y] \in {ventBefore[y], Vent!None}
  BY <1>3, <1>5
<1>7. ventZone' \in ZonesT /\ ventSet' \in Vent!Levels /\ \A y \in Vent!Zones : ventZone'[y].halted = ventZone[y].halted
  BY <1>2, <1>3 DEF Goes, VentInv
<1>. QED
  BY <1>4, <1>6, <1>7, Unnoted

\* The zones are stopped or restored; of the unit's fan nothing is told.
LEMMA StopStep ==
  ASSUME Vent!Configured, VentInv, Vent!stopAllzones, ventNode' \in NodeT, ventTold' \in ToldT, ventSet' \in Vent!Levels,
         ventNode'.lastFan \in {ventNode.lastFan, -1}
  PROVE  VentInv' /\ Vent!RestoreStep
<1>1. ventZone \in ZonesT /\ ventBefore \in [Vent!Zones -> Vent!States \cup {Vent!None}]
  BY DEF VentInv
<1>2. Stopped1(Vent!Stopping[ZONES], ZONES)
  BY <1>1, StoppingIs
<1>3. /\ ventZone' = Vent!Stopping[ZONES]
      /\ ventBefore' = [z \in Vent!Zones |-> IF ventZone[z].cmd # "OFF" THEN ventZone[z].cmd ELSE ventBefore[z]]
  BY DEF Vent!stopAllzones
<1>4. \A y \in Vent!Zones : y <= ZONES
  BY DEF Vent!Zones
<1>5. /\ ventZone' \in ZonesT /\ (Good(ventZone) => Good(ventZone'))
      /\ \A y \in Vent!Zones : ventZone'[y].halted = IF ventZone[y].cmd = "OFF" THEN ventZone[y].halted
                                                ELSE ventZone[y].cmd
  BY <1>2, <1>3, <1>4 DEF Stopped1
<1>6. \A y \in Vent!Zones : ventZone[y].cmd \in Vent!States /\ ventZone[y].cmd # Vent!None
  <2>1. \A y \in Vent!Zones : ventZone[y].cmd \in Vent!Modes
    BY <1>1 DEF ZonesT, ZoneT
  <2>2. \A m \in Vent!Modes : m \in Vent!States /\ m # Vent!None
    BY DEF Vent!Modes, Vent!States, Vent!None
  <2>. QED
    BY <2>1, <2>2
<1>7. ventBefore' \in [Vent!Zones -> Vent!States \cup {Vent!None}] /\ Remembered(ventZone', ventBefore')
  <2>1. ventBefore' \in [Vent!Zones -> Vent!States \cup {Vent!None}]
    BY <1>1, <1>3, <1>6
  <2>. QED
    BY <1>3, <1>5, <2>1 DEF Remembered, VentInv
<1>8. Vent!RestoreStep
  BY <1>5, <1>6 DEF Vent!RestoreStep
<1>9. ventNode'.lastFan > 0 => Good(ventZone')
  BY <1>5 DEF VentInv
<1>10. VentInv'
  BY <1>5, <1>7, <1>9 DEF VentInv
<1>. QED
  BY <1>8, <1>10

LEMMA RestoreIs ==
  ASSUME Vent!Configured, VentInv, Vent!restoreAllzones, ventNode' \in NodeT, ventTold' \in ToldT, ventSet' \in Vent!Levels,
         ventNode'.lastFan \in {ventNode.lastFan, -1}
  PROVE  VentInv' /\ Vent!RestoreStep
<1>1. ventZone \in ZonesT /\ Remembered(ventZone, ventBefore)
  BY DEF VentInv
<1>2. Restored1(Vent!Restoring[ZONES], ZONES)
  BY <1>1, RestoringIs
<1>3. ventZone' = Vent!Restoring[ZONES] /\ ventBefore' = [z \in Vent!Zones |-> Vent!None]
  BY DEF Vent!restoreAllzones
<1>4. \A y \in Vent!Zones : y <= ZONES
  BY DEF Vent!Zones
<1>5. /\ ventZone' \in ZonesT /\ (Good(ventZone) => Good(ventZone'))
      /\ \A y \in Vent!Zones : ventZone[y].halted # Vent!None => ventZone'[y].cmd = ventZone[y].halted
  BY <1>2, <1>3, <1>4 DEF Restored1
<1>6. Vent!RestoreStep
  BY <1>1, <1>5 DEF Vent!RestoreStep, Remembered
<1>7. ventBefore' \in [Vent!Zones -> Vent!States \cup {Vent!None}] /\ Remembered(ventZone', ventBefore')
  BY <1>3 DEF Remembered
<1>8. ventNode'.lastFan > 0 => Good(ventZone')
  BY <1>5 DEF VentInv
<1>9. VentInv'
  BY <1>5, <1>7, <1>8 DEF VentInv
<1>. QED
  BY <1>6, <1>9

LEMMA ReportModeStep ==
  ASSUME Vent!Configured, VentInv, NEW m \in Vent!States, Vent!ReportMode(m)
  PROVE  VentInv' /\ Vent!RestoreStep
<1>. DEFINE n == IF ventNode.mode = Vent!None THEN [ventNode EXCEPT !.lastCmd = m]
                 ELSE IF Vent!ByHand(m) THEN [ventNode EXCEPT !.lastCmd = m, !.lastFan = -1] ELSE ventNode
            stops == Vent!ByHand(m) /\ ~(m = "OFF" /\ ventNode.lastFan = 0)
<1>1. /\ ventNode' = [n EXCEPT !.mode = m] /\ ventTold' = ventTold /\ ventSet' = ventSet
      /\ IF stops THEN IF m = "OFF" THEN Vent!stopAllzones ELSE Vent!restoreAllzones
         ELSE ventZone' = ventZone /\ ventBefore' = ventBefore
  BY Zenon DEF Vent!ReportMode
<1>2. n \in NodeT /\ n.lastFan \in {ventNode.lastFan, -1}
  <2>1. ventNode \in NodeT /\ -1 \in Vent!Levels
    BY DEF VentInv, Vent!Levels
  <2>2. [ventNode EXCEPT !.lastCmd = m] \in NodeT /\ [ventNode EXCEPT !.lastCmd = m].lastFan = ventNode.lastFan
    BY <2>1 DEF NodeT
  <2>3. /\ [ventNode EXCEPT !.lastCmd = m, !.lastFan = -1] \in NodeT
        /\ [ventNode EXCEPT !.lastCmd = m, !.lastFan = -1].lastFan = -1
    BY <2>1 DEF NodeT
  <2>. QED
    BY <2>1, <2>2, <2>3
<1>. HIDE DEF n, stops
<1>3. ventNode' \in NodeT /\ ventNode'.lastFan \in {ventNode.lastFan, -1}
  BY <1>1, <1>2 DEF NodeT
<1>4. ventTold' \in ToldT /\ ventSet' \in Vent!Levels
  BY <1>1 DEF VentInv
<1>5. CASE stops /\ m = "OFF"
  BY <1>1, <1>3, <1>4, <1>5, StopStep
<1>6. CASE stops /\ m # "OFF"
  BY <1>1, <1>3, <1>4, <1>6, RestoreIs
<1>7. CASE ~stops
  <2>1. ventZone' = ventZone /\ ventBefore' = ventBefore
    BY <1>1, <1>7
  <2>. QED
    BY <1>3, <1>4, <2>1, Unnoted DEF VentInv
<1>. QED
  BY <1>5, <1>6, <1>7

LEMMA ReportStep ==
  ASSUME Vent!Configured, VentInv, Vent!Reported
  PROVE  VentInv' /\ Vent!RestoreStep
<1>1. PICK r \in Reports : Vent!Report(r)
  BY DEF Vent!Reported
<1>2. \/ r[1] = "mode" /\ r[2] \in Vent!States
      \/ r[1] = "fan" /\ r[2] \in Vent!Levels
      \/ r[1] = "val" /\ r[2] \in {"none", "hot", "mild", "cold"}
      \/ r[1] = "cmd" /\ r[2] \in Vent!States
  <2>1. r \in {<<"mode", x>> : x \in Vent!States} \cup {<<"fan", x>> : x \in Vent!Levels}
               \cup {<<"val", x>> : x \in {"none", "hot", "mild", "cold"}} \cup {<<"cmd", x>> : x \in Vent!States}
    BY <1>1 DEF Vent!Configured
  <2>. QED
    BY <2>1
<1>3. ventNode \in NodeT /\ ventTold \in ToldT /\ ventSet \in Vent!Levels /\ -1 \in Vent!Levels
  BY DEF VentInv, Vent!Levels
<1>4. CASE r[1] = "mode" /\ r[2] \in Vent!States
  <2>1. Vent!ReportMode(r[2])
    BY <1>1, <1>4 DEF Vent!Report
  <2>. QED
    BY <1>4, <2>1, ReportModeStep
<1>5. CASE r[1] = "fan" /\ r[2] \in Vent!Levels
  <2>1. Vent!ReportFan(r[2])
    BY <1>1, <1>5 DEF Vent!Report
  <2>. DEFINE v == IF r[2] # ventNode.fan THEN -1 ELSE ventNode.lastFan
  <2>2. v \in Vent!Levels /\ v \in {ventNode.lastFan, -1}
    BY <1>3 DEF NodeT
  <2>3. ventNode' = [ventNode EXCEPT !.fan = r[2], !.lastFan = v]
    BY <2>1 DEF Vent!ReportFan
  <2>. HIDE DEF v
  <2>4. ventNode' \in NodeT /\ ventNode'.lastFan \in {ventNode.lastFan, -1}
    BY <1>3, <1>5, <2>2, <2>3 DEF NodeT
  <2>5. ventZone' = ventZone /\ ventTold' = ventTold /\ ventSet' = ventSet /\ ventBefore' = ventBefore
    BY <2>1 DEF Vent!ReportFan
  <2>. QED
    BY <2>4, <2>5, Unnoted DEF VentInv
<1>6. CASE r[1] = "val" /\ r[2] \in {"none", "hot", "mild", "cold"}
  <2>1. Vent!ReportVal(r[2])
    BY <1>1, <1>6 DEF Vent!Report
  <2>2. ventNode' \in NodeT /\ ventNode'.lastFan = ventNode.lastFan
    BY <1>3, <1>6, <2>1 DEF Vent!ReportVal, NodeT
  <2>3. ventZone' = ventZone /\ ventTold' = ventTold /\ ventSet' = ventSet /\ ventBefore' = ventBefore
    BY <2>1 DEF Vent!ReportVal
  <2>. QED
    BY <2>2, <2>3, Unnoted DEF VentInv
<1>7. CASE r[1] = "cmd" /\ r[2] \in Vent!States
  <2>1. Vent!CtrlAll(r[2])
    BY <1>1, <1>7 DEF Vent!Report
  <2>2. ventNode' = ventNode /\ ventTold' = ventTold /\ ventSet' = ventSet /\ (Vent!stopAllzones \/ Vent!restoreAllzones)
    BY <2>1 DEF Vent!CtrlAll
  <2>. QED
    BY <1>3, <2>2, StopStep, RestoreIs
<1>. QED
  BY <1>2, <1>4, <1>5, <1>6, <1>7

LEMMA PollStep ==
  ASSUME Vent!Configured, VentInv, Vent!Poll
  PROVE  VentInv' /\ Vent!RestoreStep
<1>1. PICK po \in [Pids -> PidLevels \cup {-1}], fresh \in [Pids -> BOOLEAN], hc \in Vent!HeatCools :
        \E p \in {Vent!Polled(po, hc, fresh)} :
          \E balance \in IF p.computed THEN {"heat", "cool", "even", "some"} ELSE {"some"} :
            \E u \in {Vent!Served(p, balance)} :
              /\ ventZone' = p.zones
              /\ Vent!Unit(u)
              /\ UNCHANGED <<ventSet, retaining, ventBefore>>
  BY Zenon DEF Vent!Poll
<1>. DEFINE p == Vent!Polled(po, hc, fresh)
<1>2. PICK balance : ventZone' = p.zones /\ Vent!Unit(Vent!Served(p, balance)) /\ ventSet' = ventSet /\ ventBefore' = ventBefore
  BY <1>1
<1>3. ventZone \in ZonesT
  BY DEF VentInv
<1>4. Passed(p, ventZone)
  BY <1>3, PolledIs
<1>. HIDE DEF p
<1>5. /\ p.zones \in ZonesT /\ p.level \in -2 .. 255
      /\ p.level > 0 => Good(p.zones)
      /\ Good(ventZone) => Good(p.zones)
      /\ \A y \in Vent!Zones : p.zones[y].halted = ventZone[y].halted
  BY <1>4 DEF Passed, PassT
<1>6. /\ Vent!Served(p, balance) \in UnitT
      /\ Vent!Served(p, balance).node.lastFan \in {ventNode.lastFan, p.level, -1}
  BY <1>5, UnitTyped, ServedIs
<1>7. ventNode' \in NodeT /\ ventTold' \in ToldT /\ ventNode'.lastFan \in {ventNode.lastFan, p.level, -1}
  BY <1>2, <1>6 DEF Vent!Unit, UnitT
<1>8. ventNode'.lastFan > 0 => Good(ventZone')
  BY <1>2, <1>5, <1>7 DEF VentInv
<1>. QED
  BY <1>2, <1>5, <1>7, <1>8, Unnoted DEF VentInv

LEMMA VentStep ==
  ASSUME Vent!Configured, VentInv, [Vent!Next]_Vent!vars
  PROVE  VentInv' /\ Vent!RestoreStep
<1>1. ventNode \in NodeT /\ ventTold \in ToldT /\ ventSet \in Vent!Levels /\ -1 \in Vent!Levels
  BY DEF VentInv, Vent!Levels
<1>2. CASE Vent!Command
  <2>1. PICK z \in Vent!Zones, c \in ZoneCommands : Vent!Ctrl(z, c)
    BY <1>2 DEF Vent!Command
  <2>2. c \in Vent!CommandT
    BY <2>1 DEF Vent!Configured
  <2>. QED
    BY <2>1, <2>2, CtrlStep
<1>3. CASE Vent!Reported
  BY <1>3, ReportStep
<1>4. CASE Vent!ReportSet
  <2>1. ventNode' \in NodeT /\ ventNode'.lastFan = ventNode.lastFan
    <3>. DEFINE b == ventNode.boost \/ ventSet \in {Vent!AC_BOOST_HIGH_TEMP, Vent!AC_BOOST_LOW_TEMP}
    <3>1. b \in BOOLEAN
      <4>1. ventNode.boost \in BOOLEAN
        BY <1>1 DEF NodeT
      <4>. QED
        BY <4>1
    <3>2. ventNode' = [ventNode EXCEPT !.set = ventSet, !.lastSet = ventSet, !.boost = b]
      BY <1>4 DEF Vent!ReportSet
    <3>. HIDE DEF b
    <3>. QED
      BY <1>1, <3>1, <3>2 DEF NodeT
  <2>2. ventZone' = ventZone /\ ventTold' = ventTold /\ ventSet' = ventSet /\ ventBefore' = ventBefore
    BY <1>4 DEF Vent!ReportSet
  <2>. QED
    BY <2>1, <2>2, Unnoted DEF VentInv
<1>5. CASE Vent!Poll
  BY <1>5, PollStep
<1>6. CASE Vent!Takes
  <2>1. ventTold' \in ToldT /\ ventSet' \in Vent!Levels
    BY <1>1, <1>6 DEF Vent!Takes, ToldT
  <2>2. ventZone' = ventZone /\ ventNode' = ventNode /\ ventBefore' = ventBefore
    BY <1>6 DEF Vent!Takes
  <2>. QED
    BY <2>1, <2>2, Unnoted DEF VentInv
<1>7. CASE Vent!HandSet
  <2>1. ventSet' \in Vent!Levels
    BY <1>7 DEF Vent!HandSet, Vent!Configured
  <2>2. ventZone' = ventZone /\ ventNode' = ventNode /\ ventTold' = ventTold /\ ventBefore' = ventBefore
    BY <1>7 DEF Vent!HandSet
  <2>. QED
    BY <2>1, <2>2, Unnoted DEF VentInv
<1>8. CASE Vent!Reload
  <2>1. /\ ventZone' = [z \in Vent!Zones |-> Vent!NewZone(z)] /\ ventNode' = Vent!NewNode
        /\ ventBefore' = [z \in Vent!Zones |-> Vent!None] /\ ventTold' = ventTold /\ ventSet' = ventSet
    BY <1>8 DEF Vent!Reload
  <2>2. \A z \in Vent!Zones : Vent!NewZone(z) \in ZoneT
    BY NewIs
  <2>3. Vent!NewNode \in NodeT /\ ~(Vent!NewNode.lastFan > 0)
    BY NewIs
  <2>4. Vent!RestoreStep
    BY <1>8 DEF Vent!RestoreStep
  <2>5. ventZone' \in ZonesT /\ ventBefore' \in [Vent!Zones -> Vent!States \cup {Vent!None}]
    BY <2>1, <2>2 DEF ZonesT
  <2>6. Remembered(ventZone', ventBefore')
    BY <2>1 DEF Remembered
  <2>7. VentInv'
    BY <1>1, <2>1, <2>3, <2>5, <2>6 DEF VentInv
  <2>. QED
    BY <2>4, <2>7
<1>9. CASE Vent!Collect \/ Vent!Operate \/ UNCHANGED Vent!vars
  <2>1. /\ ventZone' = ventZone /\ ventNode' = ventNode /\ ventTold' = ventTold /\ ventSet' = ventSet
        /\ ventBefore' = ventBefore
    BY <1>9 DEF Vent!Collect, Vent!Operate, Vent!vars
  <2>. QED
    BY <2>1, Unnoted DEF VentInv
<1>. QED
  BY <1>2, <1>3, <1>4, <1>5, <1>6, <1>7, <1>8, <1>9 DEF Vent!Next

LEMMA VentHolds ==
  ASSUME Vent!Configured
  PROVE  Vent!Spec => []VentInv
<1>1. Vent!Init => VentInv
  BY VentInit
<1>2. VentInv /\ [Vent!Next]_Vent!vars => VentInv'
  BY VentStep
<1>. QED
  BY <1>1, <1>2, PTL DEF Vent!Spec

LEMMA VentRetains ==
  ASSUME Vent!Configured
  PROVE  Vent!Spec => [](retaining \in BOOLEAN)
<1>1. Vent!Init => retaining \in BOOLEAN
  BY DEF Vent!Init
<1>2. retaining \in BOOLEAN /\ [Vent!Next]_Vent!vars => (retaining \in BOOLEAN)'
  <2>. SUFFICES ASSUME retaining \in BOOLEAN, [Vent!Next]_Vent!vars
                PROVE  retaining' \in BOOLEAN
    OBVIOUS
  <2>1. CASE Vent!Command
    BY <2>1 DEF Vent!Command, Vent!Ctrl
  <2>2. CASE Vent!Reported
    <3>1. PICK r \in Reports : Vent!Report(r)
      BY <2>2 DEF Vent!Reported
    <3>2. r[1] \in {"mode", "fan", "val", "cmd"}
      <4>1. r \in {<<"mode", x>> : x \in Vent!States} \cup {<<"fan", x>> : x \in Vent!Levels}
                 \cup {<<"val", x>> : x \in {"none", "hot", "mild", "cold"}}
                 \cup {<<"cmd", x>> : x \in Vent!States}
        BY <3>1 DEF Vent!Configured
      <4>. QED
        BY <4>1
    <3>3. \/ Vent!ReportMode(r[2]) \/ Vent!ReportFan(r[2]) \/ Vent!ReportVal(r[2])
          \/ Vent!CtrlAll(r[2])
      BY <3>1, <3>2 DEF Vent!Report
    <3>. QED
      BY <3>3 DEF Vent!ReportMode, Vent!ReportFan, Vent!ReportVal, Vent!CtrlAll
  <2>3. CASE Vent!Poll
    BY <2>3 DEF Vent!Poll
  <2>4. CASE Vent!ReportSet \/ Vent!Takes \/ Vent!HandSet \/ Vent!Collect \/ Vent!Operate
               \/ Vent!Reload \/ UNCHANGED Vent!vars
    BY <2>4 DEF Vent!ReportSet, Vent!Takes, Vent!HandSet, Vent!Collect, Vent!Operate, Vent!Reload,
                Vent!vars
  <2>. QED
    BY <2>1, <2>2, <2>3, <2>4 DEF Vent!Next
<1>. QED
  BY <1>1, <1>2, PTL DEF Vent!Spec

\* The objects of the zones, of the unit and what it is told have their types, whatever is
\* commanded, reported, computed and reloaded: no damper beyond 255 either way.
THEOREM VentTypes ==
  ASSUME Vent!Configured
  PROVE  Vent!Spec => []Vent!TypeOK
<1>1. VentInv /\ retaining \in BOOLEAN => Vent!TypeOK
  <2>1. ZonesT \subseteq [Vent!Zones -> [cmd : Vent!States, fan : Vent!Levels, out : -255 .. 255, pasv : BOOLEAN,
                             frozen : BOOLEAN, precmd : Vent!States \cup {Vent!None},
                             halted : Vent!States \cup {Vent!None}, fanIn : 0 .. 255,
                             pid : {"none", "manual", "auto"}]]
    <3>1. ZoneT \subseteq [cmd : Vent!States, fan : Vent!Levels, out : -255 .. 255, pasv : BOOLEAN,
                             frozen : BOOLEAN, precmd : Vent!States \cup {Vent!None},
                             halted : Vent!States \cup {Vent!None}, fanIn : 0 .. 255,
                             pid : {"none", "manual", "auto"}]
      BY DEF ZoneT, Vent!Modes
    <3>. QED
      BY <3>1 DEF ZonesT
  <2>. QED
    BY <2>1 DEF VentInv, NodeT, ToldT, Vent!TypeOK
<1>. QED
  BY <1>1, VentHolds, VentRetains, PTL

\* FanHasOutlet: the unit's fan never runs on our account against closed dampers.
THEOREM FanHasOutletHolds ==
  ASSUME Vent!Configured
  PROVE  Vent!Spec => []Vent!FanHasOutlet
<1>1. VentInv => Vent!FanHasOutlet
  BY DEF VentInv, Vent!FanHasOutlet, Good
<1>. QED
  BY <1>1, VentHolds, PTL

\* Restores: what a stop has switched off is restored as it was, if nobody commanded it
\* meanwhile, in whatever order zones are commanded, frozen, stopped and restored.
THEOREM RestoresHolds ==
  ASSUME Vent!Configured
  PROVE  Vent!Spec => Vent!Restores
<1>1. VentInv /\ [Vent!Next]_Vent!vars => [Vent!RestoreStep]_Vent!vars
  BY VentStep
<1>. QED
  BY <1>1, VentHolds, PTL DEF Vent!Spec, Vent!Restores
=================================================================================
