----------------------------- MODULE ByteStream -----------------------------
(***************************************************************************)
(* What a reader may expect of a stream: it gets the document from its first *)
(* byte on, in order and without a gap, and is told the difference between   *)
(* the end of the document and a failure.  It may start again after one.  A   *)
(* faulty medium may deliver bytes of the document in any way, until the     *)
(* reader has a result; success then comes with a whole text, at least.     *)
(* The bytes of a document of len bytes are their positions, 1 .. len.       *)
(***************************************************************************)
EXTENDS Integers, Sequences

CONSTANT Whole(_, _)  \* a text that is complete, as part of a document of n bytes

VARIABLES
  faulty,   \* the medium loses or delays what it carries
  len, got, outcome

doc(n) == [i \in 1 .. n |-> i]

StreamInit == len \in Nat \ {0} /\ got = << >> /\ outcome = "reading"

Deliver ==
  /\ outcome = "reading"
  /\ \E n \in Len(got) + 1 .. len :
        got' = doc(n) /\ outcome' = IF n = len THEN "done" ELSE "reading"
  /\ UNCHANGED len

Garble ==
  /\ faulty
  /\ outcome = "reading"
  /\ got' \in Seq(1 .. len) /\ outcome' \in {"reading", "done"}
  /\ outcome' = "done" => Whole(got', len)
  /\ UNCHANGED len

Fail == outcome = "reading" /\ outcome' = "failed" /\ UNCHANGED <<len, got>>

Restart == outcome = "failed" /\ outcome' = "reading" /\ got' = << >> /\ UNCHANGED len

StreamNext == Deliver \/ Garble \/ Fail \/ Restart

StreamSpec == StreamInit /\ [][StreamNext]_<<len, got, outcome>>
=============================================================================
