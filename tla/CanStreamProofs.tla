---------------------------- MODULE CanStreamProofs ----------------------------
(***************************************************************************)
(* Proofs about CanStream, for documents, frames and sequence numbers of any  *)
(* size.  A transfer that begins once, in a network that loses nothing, goes  *)
(* through phases; in each of them the bytes parsed, received and on their    *)
(* way continue each other up to what the writer has written.  That needs     *)
(* sequence numbers for every frame of the document: FIRST means both         *)
(* "begin" and "go on after the first frame", and a document that makes the   *)
(* numbers go round once more would be begun again in its middle.             *)
(***************************************************************************)
EXTENDS CanStream, SequenceTheorems, TLAPS

\* While the transfer is read in a network that loses nothing, and whose reader begins once.
Kept == faults \subseteq {"slowWriter"} /\ outcome = "reading"

\* The writer works while there is something left to write.
Working == IF wState = "Idle" THEN written \in {0, len} ELSE written < len

\* No frame has more bytes than it takes.
Short == \A i \in DOMAIN frames : Len(frames[i].data) <= FRAME

\* A frame holds consecutive bytes.  FirstOf and LastOf are those of its ends.
FirstOf(f) == f.data[1]
LastOf(f)  == f.data[Len(f.data)]
Block(f) == /\ f.data # << >>
            /\ \A k \in DOMAIN f.data : f.data[k] = FirstOf(f) + k - 1

\* What the parser has, what the reader has received for it, and what is on its way, are the
\* document up to what has been written, in order and without a gap.
Received == IF rState = "FrameReceived" THEN Len(got) + Len(frame) ELSE Len(got)
InOrder ==
  /\ \A i \in DOMAIN got : got[i] = i
  /\ Len(got) < len
  /\ rState = "FrameReceived" => frame # << >> /\ ~Gap
  /\ \A i \in DOMAIN frames : Block(frames[i])
  /\ \A i \in 1 .. Len(frames) - 1 : FirstOf(frames[i + 1]) = LastOf(frames[i]) + 1
  /\ IF frames = << >> THEN written = Received
     ELSE FirstOf(frames[1]) = Received + 1 /\ LastOf(frames[Len(frames)]) = written

\* The first sequence number means two things: begin, and go on after the first frame.  The
\* first is said once, before anything is written, and the second before the third frame.
Waits == rState = "FrameRequested" \/ (rState = "StreamOpenedRead" /\ failedCount > 0)

Opened ==
  /\ wState = "Idle" /\ written = 0 /\ requests = << >> /\ frames = << >>
  /\ rState = "StreamOpenedRead" /\ rSeq = FIRST /\ got = << >> /\ failedCount = 0
Asked ==
  /\ wState = "Idle" /\ written = 0 /\ requests = <<FIRST>> /\ frames = << >>
  /\ Waits /\ rSeq = 0 /\ got = << >>
Served ==
  /\ wState = "StreamOpenedWrite" /\ wSeq = FIRST /\ written = 0
  /\ requests = << >> /\ frames = << >> /\ Waits /\ rSeq = 0 /\ got = << >>
FirstSent ==
  /\ wState \in {"waitingConfirm", "Idle"} /\ wSeq = FIRST /\ requests = << >>
  /\ written = IF len < FRAME THEN len ELSE FRAME
  /\ Len(frames) = 1 /\ frames[1].seq = FIRST
  /\ Waits /\ rSeq = 0 /\ got = << >>
FirstReceived ==
  /\ wState \in {"waitingConfirm", "Idle"} /\ wSeq = FIRST /\ requests = << >>
  /\ written = IF len < FRAME THEN len ELSE FRAME
  /\ frames = << >> /\ rSeq = FIRST /\ failedCount = 0
  /\ \/ rState = "FrameReceived" /\ got = << >>
     \/ rState = "StreamOpenedRead" /\ got # << >>
FirstConfirmed ==
  /\ wState = "waitingConfirm" /\ wSeq = FIRST /\ written = FRAME
  /\ requests # << >> /\ Head(requests) = FIRST
  /\ \A i \in 2 .. Len(requests) : requests[i] # FIRST
  /\ frames = << >> /\ rSeq = 0 /\ got # << >>
  /\ rState \in {"FrameRequested", "StreamOpenedRead"}
Later ==
  /\ wSeq # FIRST /\ rSeq # FIRST /\ got # << >> /\ written > 0
  /\ FRAME * (wSeq + 1) <= written
  /\ wState = "waitingConfirm" => FRAME * (wSeq + 2) <= written
  /\ \A i \in DOMAIN requests : requests[i] # FIRST
  /\ \A i \in DOMAIN frames : frames[i].seq # FIRST
  /\ wState = "waitingConfirm" /\ rState = "FrameRequested" => ~Silence

Phases ==
  \/ Opened \/ Asked \/ Served \/ FirstSent \/ FirstReceived \/ FirstConfirmed \/ Later

IInv == TypeOK /\ Working /\ Short /\ (Kept => InOrder /\ Phases)

\* A document has a byte at least, and no more than MaxLen.
LEMMA LengthsAre ==
  ASSUME NEW n \in Lengths
  PROVE  n \in Nat \ {0} /\ n <= MaxLen
BY SizesAssumption DEF Lengths

\* The bytes of one frame more.
LEMMA NextFrame ==
  ASSUME NEW f \in Nat, NEW n \in Nat
  PROVE  f * (n + 2) = f * (n + 1) + f /\ f * (n + 1) \in Nat
OBVIOUS

-----------------------------------------------------------------------------
\* Types.

LEMMA IsSequence ==
  ASSUME NEW S, NEW n \in Nat, NEW f \in [1 .. n -> S]
  PROVE  f \in Seq(S) /\ Len(f) = n
<1>1. f \in Seq(S)
  BY SeqDef
<1>2. 1 .. n = 1 .. Len(f) /\ Len(f) \in Nat
  BY <1>1, LenProperties
<1>. QED
  BY <1>1, <1>2

LEMMA NextBytesAre ==
  ASSUME TypeOK
  PROVE  /\ NextBytes \in Seq(1 .. len)
         /\ Len(NextBytes) = IF len - written < FRAME THEN len - written ELSE FRAME
         /\ \A k \in 1 .. Len(NextBytes) : NextBytes[k] = written + k
<1>1. len - written \in Nat /\ FRAME \in Nat /\ written \in Nat /\ len \in Nat
  BY SizesAssumption, LengthsAre DEF TypeOK
<1>. DEFINE n == IF len - written < FRAME THEN len - written ELSE FRAME
<1>2. n \in Nat /\ n <= len - written
  BY <1>1
<1>3. NextBytes = [i \in 1 .. n |-> written + i]
  BY DEF NextBytes
<1>. HIDE DEF n
<1>4. \A i \in 1 .. n : written + i \in 1 .. len
  BY <1>1, <1>2
<1>. QED
  <2>1. NextBytes \in [1 .. n -> 1 .. len]
    BY <1>3, <1>4
  <2>2. NextBytes \in Seq(1 .. len) /\ Len(NextBytes) = n
    BY <1>2, <2>1, IsSequence
  <2>. QED
    BY <1>3, <2>2 DEF n

Frames == [seq : 0 .. SEQS - 1, data : Seq(1 .. len)]

\* What is on its way, after the first frame has arrived and after another one has been sent.
LEMMA FramesTail ==
  ASSUME TypeOK, frames # << >>
  PROVE  /\ Head(frames) = frames[1] /\ Head(frames) \in Frames
         /\ Tail(frames) \in Seq(Frames) /\ Len(Tail(frames)) = Len(frames) - 1
         /\ Len(frames) \in Nat \ {0}
         /\ \A i \in 1 .. Len(Tail(frames)) : Tail(frames)[i] = frames[i + 1]
<1>1. frames \in Seq(Frames)
  BY DEF TypeOK, Frames
<1>2. Head(frames) = frames[1] /\ Len(frames) \in Nat \ {0}
  BY <1>1, EmptySeq
<1>. QED
  BY <1>1, <1>2, HeadTailProperties

LEMMA ShortTail ==
  ASSUME TypeOK, Short, frames # << >>, frames' = Tail(frames)
  PROVE  Short'
<1>1. DOMAIN frames = 1 .. Len(frames) /\ DOMAIN frames' = 1 .. Len(frames')
  BY FramesTail, LenProperties DEF TypeOK
<1>2. Len(frames') = Len(frames) - 1 /\ Len(frames) \in Nat \ {0}
  BY FramesTail
<1>3. ASSUME NEW i \in 1 .. Len(frames')
      PROVE  Len(frames'[i].data) <= FRAME
  <2>1. i + 1 \in DOMAIN frames /\ frames'[i] = frames[i + 1]
    BY <1>1, <1>2, FramesTail
  <2>. QED
    BY <2>1 DEF Short
<1>. QED
  BY <1>1, <1>3 DEF Short

LEMMA RequestsTail ==
  ASSUME TypeOK, requests # << >>
  PROVE  /\ Head(requests) = requests[1] /\ Head(requests) \in 0 .. SEQS - 1
         /\ Tail(requests) \in Seq(0 .. SEQS - 1) /\ Len(Tail(requests)) = Len(requests) - 1
         /\ Len(requests) \in Nat \ {0}
         /\ \A i \in 1 .. Len(Tail(requests)) : Tail(requests)[i] = requests[i + 1]
<1>1. requests \in Seq(0 .. SEQS - 1)
  BY DEF TypeOK
<1>2. Head(requests) = requests[1] /\ Len(requests) \in Nat \ {0}
  BY <1>1, EmptySeq
<1>. QED
  BY <1>1, <1>2, HeadTailProperties

LEMMA SendAppends ==
  ASSUME TypeOK, outcome = "reading", Send
  PROVE  /\ frames' \in Seq(Frames) /\ Len(frames') = Len(frames) + 1
         /\ \A i \in 1 .. Len(frames) : frames'[i] = frames[i]
         /\ frames'[Len(frames) + 1] = [seq |-> wSeq, data |-> NextBytes]
         /\ Len(frames) \in Nat
<1>1. [seq |-> wSeq, data |-> NextBytes] \in Frames /\ frames \in Seq(Frames)
  BY NextBytesAre DEF TypeOK, Frames
<1>2. frames' = Append(frames, [seq |-> wSeq, data |-> NextBytes])
  BY DEF Send
<1>. QED
  BY <1>1, <1>2, AppendProperties, LenProperties

LEMMA Sends ==
  ASSUME TypeOK, Short, Send
  PROVE  frames' \in Seq(Frames) /\ Short'
<1>1. CASE outcome = "reading"
  <2>1. Len(NextBytes) <= FRAME
    BY NextBytesAre, SizesAssumption DEF TypeOK
  <2>2. DOMAIN frames = 1 .. Len(frames)
    BY LenProperties DEF TypeOK
  <2>3. DOMAIN frames' = 1 .. Len(frames) + 1
    BY <1>1, SendAppends, LenProperties
  <2>4. ASSUME NEW i \in DOMAIN frames'
        PROVE  Len(frames'[i].data) <= FRAME
    <3>1. CASE i \in DOMAIN frames
      BY <1>1, <2>2, <3>1, SendAppends DEF Short
    <3>2. CASE i = Len(frames) + 1
      BY <1>1, <2>1, <3>2, SendAppends
    <3>. QED
      BY <1>1, <2>2, <2>3, <2>4, <3>1, <3>2, SendAppends
  <2>. QED
    BY <1>1, <2>4, SendAppends DEF Short
<1>2. CASE outcome # "reading"
  BY <1>2 DEF Send, TypeOK, Frames, Short
<1>. QED
  BY <1>1, <1>2

LEMMA TypeStep ==
  ASSUME TypeOK, Working, Short, [Next]_vars
  PROVE  TypeOK' /\ Working' /\ Short'
<1>. USE SizesAssumption, TriesAssumption
<1>0. /\ FIRST \in 0 .. SEQS - 1 /\ 0 \in 0 .. SEQS - 1
      /\ len \in Nat \ {0} /\ written \in 0 .. len /\ FRAME \in Nat \ {0}
  BY LengthsAre DEF TypeOK, FIRST
<1>1. CASE Request
  <2>1. requests' \in Seq(0 .. SEQS - 1)
    BY <1>1, AppendProperties DEF Request, TypeOK
  <2>2. rSeq' \in 0 .. SEQS - 1
    BY <1>0, <1>1 DEF Request, TypeOK
  <2>. QED
    BY <1>1, <2>1, <2>2 DEF Request, TypeOK, Working, Short, doc, writer
<1>2. CASE RequestFails
  BY <1>2 DEF RequestFails, TypeOK, Working, Short, doc, writer
<1>3. CASE Receive
  <2>1. /\ frame' \in Seq(1 .. len) /\ Len(frame') <= FRAME /\ rSeq' \in 0 .. SEQS - 1
    BY <1>3, FramesTail, LenProperties, SMTT(30) DEF Receive, Frames, Short, TypeOK
  <2>2. frames' \in Seq(Frames)
    BY <1>3, FramesTail DEF Receive
  <2>3. Short'
    BY <1>3, ShortTail DEF Receive
  <2>. QED
    BY <1>0, <1>3, <2>1, <2>2, <2>3 DEF Receive, TypeOK, Working, Frames, doc, writer, RETRIES
<1>4. CASE ReadTimeout
  <2>1. failedCount' \in 0 .. RETRIES
    <3>1. failedCount \in 0 .. RETRIES /\ RETRIES \in Nat
      BY DEF TypeOK, RETRIES
    <3>2. failedCount' = failedCount \/ (~(failedCount >= RETRIES) /\ failedCount' = failedCount + 1)
      BY <1>4 DEF ReadTimeout
    <3>. QED
      BY <3>1, <3>2
  <2>. QED
    BY <1>4, <2>1 DEF ReadTimeout, TypeOK, Working, Short, doc, writer
<1>5. CASE GiveUp
  BY <1>5 DEF GiveUp, TypeOK, Working, Short, doc, writer
<1>6. CASE Parse
  <2>1. frame \in Seq(1 .. len) /\ got \in Seq(1 .. len)
    BY DEF TypeOK
  <2>2. got \o frame \in Seq(1 .. len)
    BY <2>1, ConcatProperties
  <2>3. got' \in Seq(1 .. len)
    BY <1>6, <2>1, <2>2 DEF Parse
  <2>. QED
    BY <1>6, <2>3 DEF Parse, TypeOK, Working, Short, doc, writer
<1>7. CASE Retry
  <2>1. << >> \in Seq(1 .. len) /\ Len(<< >>) <= FRAME /\ frames' \in Seq(Frames) /\ 0 \in 0 .. RETRIES
    BY <1>0, <1>7, EmptySeq DEF Retry, RETRIES
  <2>2. Short'
    BY <1>7 DEF Retry, Short
  <2>3. tries' \in 1 .. MaxTries
    BY <1>7 DEF Retry, TypeOK
  <2>. QED
    BY <1>0, <1>7, <2>1, <2>2, <2>3 DEF Retry, TypeOK, Working, Frames, doc, writer
<1>8. CASE Serve
  <2>1. requests' \in Seq(0 .. SEQS - 1)
    BY <1>8, RequestsTail DEF Serve
  <2>2. /\ wState' \in {"Idle", "StreamOpenedWrite"} /\ wSeq' \in 0 .. SEQS - 1
        /\ written' \in 0 .. len
    BY <1>0, <1>8, SMTT(30) DEF Serve, TypeOK, writer
  <2>3. Working'
    BY <1>0, <1>8 DEF Serve, Working, writer, doc
  <2>. QED
    BY <1>8, <2>1, <2>2, <2>3 DEF Serve, TypeOK, Short, doc, reader
<1>9. CASE WriteFrame
  <2>1. frames' \in Seq(Frames) /\ Short'
    BY <1>9, Sends DEF WriteFrame
  <2>2. written' \in 0 .. len /\ Working'
    BY <1>0, <1>9, NextBytesAre DEF WriteFrame, Working, doc
  <2>. QED
    BY <1>9, <2>1, <2>2 DEF WriteFrame, TypeOK, Frames, doc, reader
<1>10. CASE SendFails
  <2>1. written' \in 0 .. len /\ Working'
    BY <1>0, <1>10, NextBytesAre DEF SendFails, Working, doc
  <2>. QED
    BY <1>10, <2>1 DEF SendFails, TypeOK, Short, doc, reader
<1>11. CASE Confirm
  <2>1. requests' \in Seq(0 .. SEQS - 1)
    BY <1>11, RequestsTail DEF Confirm
  <2>2. wSeq' \in 0 .. SEQS - 1
    BY <1>11, SMTT(30) DEF Confirm, TypeOK
  <2>. QED
    BY <1>11, <2>1, <2>2 DEF Confirm, TypeOK, Working, Short, doc, reader
<1>12. CASE WriteTimeout
  <2>1. written' \in 0 .. len /\ Working'
    BY <1>0, <1>12 DEF WriteTimeout, Working, doc
  <2>. QED
    BY <1>12, <2>1 DEF WriteTimeout, TypeOK, Short, doc, reader
<1>13. CASE Lose
  <2>1. frames' \in Seq(Frames) /\ Short' /\ requests' \in Seq(0 .. SEQS - 1)
    <3>1. CASE requests # << >> /\ requests' = Tail(requests) /\ UNCHANGED frames
      BY <3>1, RequestsTail DEF TypeOK, Frames, Short
    <3>2. CASE frames # << >> /\ frames' = Tail(frames) /\ UNCHANGED requests
      <4>1. Short'
        BY <3>2, ShortTail
      <4>. QED
        BY <3>2, <4>1, FramesTail DEF TypeOK
    <3>. QED
      BY <1>13, <3>1, <3>2 DEF Lose
  <2>. QED
    BY <1>13, <2>1 DEF Lose, TypeOK, Working, Frames, doc, reader, writer
<1>14. CASE UNCHANGED vars
  BY <1>14 DEF vars, TypeOK, Working, Short
<1>. QED
  BY <1>1, <1>2, <1>3, <1>4, <1>5, <1>6, <1>7, <1>8, <1>9, <1>10, <1>11, <1>12, <1>13, <1>14
     DEF Next, ReaderStep, WriterStep

-----------------------------------------------------------------------------
\* The order of the bytes, while nothing is lost.

LEMMA WhileKept ==
  ASSUME IInv, Kept
  PROVE  /\ TypeOK /\ Working /\ Short /\ InOrder /\ Phases
         /\ "loss" \notin faults /\ "retry" \notin faults /\ outcome = "reading"
         /\ len \in Nat \ {0} /\ written \in Nat /\ written <= len
         /\ Len(got) \in Nat /\ Len(frames) \in Nat /\ Len(requests) \in Nat
         /\ FRAME \in Nat \ {0} /\ FIRST \in 1 .. SEQS - 1 /\ RETRIES = 3
         /\ failedCount \in Nat /\ (got # << >> <=> Len(got) > 0)
         /\ DOMAIN got = 1 .. Len(got) /\ DOMAIN frames = 1 .. Len(frames)
         /\ DOMAIN requests = 1 .. Len(requests)
<1>1. TypeOK /\ Working /\ Short /\ InOrder /\ Phases
  BY DEF IInv
<1>2. got \in Seq(1 .. len) /\ frames \in Seq(Frames) /\ requests \in Seq(0 .. SEQS - 1)
  BY <1>1 DEF TypeOK, Frames
<1>3. /\ Len(got) \in Nat /\ Len(frames) \in Nat /\ Len(requests) \in Nat
      /\ DOMAIN got = 1 .. Len(got) /\ DOMAIN frames = 1 .. Len(frames)
      /\ DOMAIN requests = 1 .. Len(requests) /\ (got # << >> <=> Len(got) > 0)
  BY <1>2, LenProperties, EmptySeq
<1>. QED
  BY <1>1, <1>3, SizesAssumption, LengthsAre DEF Kept, TypeOK, FIRST, RETRIES

LEMMA NoWrap ==
  ASSUME NEW n \in Nat, NEW m \in Nat, n + 1 < m
  PROVE  (n + 1) % m = n + 1
OBVIOUS

LEMMA RequestKeeps ==
  ASSUME IInv, Kept, Request, Kept'
  PROVE  InOrder' /\ Phases'
<1>. USE WhileKept
<1>1. InOrder'
  BY DEF Request, Reading, InOrder, Received, Gap, Block, FirstOf, LastOf, doc, writer
<1>2. /\ requests' \in Seq(0 .. SEQS - 1) /\ Len(requests') = Len(requests) + 1
      /\ \A i \in 1 .. Len(requests) : requests'[i] = requests[i]
      /\ requests'[Len(requests) + 1] = rSeq
      /\ requests' # << >> /\ Head(requests') = requests'[1]
  <2>1. requests \in Seq(0 .. SEQS - 1) /\ rSeq \in 0 .. SEQS - 1
    BY DEF TypeOK
  <2>. QED
    BY <2>1, AppendProperties, EmptySeq DEF Request
<1>3. CASE Opened
  <2>1. requests' = <<FIRST>>
    BY <1>3 DEF Opened, Request
  <2>. QED
    BY <1>1, <1>3, <2>1 DEF Opened, Request, Asked, Waits, Phases, writer, doc
<1>4. CASE Asked \/ Served \/ FirstSent
  BY <1>4 DEF Asked, Served, FirstSent, Waits, Request, Reading
<1>5. CASE FirstReceived
  <2>1. got # << >> /\ written = Len(got) /\ written < len /\ written > 0
    BY <1>5 DEF FirstReceived, Request, Reading, InOrder, Received
  <2>2. wState = "waitingConfirm" /\ written = FRAME
    BY <1>5, <2>1 DEF FirstReceived, Working
  <2>3. requests' = <<FIRST>>
    BY <1>5 DEF FirstReceived, Request
  <2>4. FirstConfirmed'
    BY <1>5, <2>1, <2>2, <2>3 DEF FirstReceived, FirstConfirmed, Request, writer, doc
  <2>. QED
    BY <1>1, <2>4 DEF Phases
<1>6. CASE FirstConfirmed
  <2>1. \A i \in 2 .. Len(requests') : requests'[i] # FIRST
    BY <1>2, <1>6 DEF FirstConfirmed
  <2>2. FirstConfirmed'
    BY <1>2, <1>6, <2>1, EmptySeq DEF FirstConfirmed, Request, writer, doc
  <2>. QED
    BY <1>1, <2>2 DEF Phases
<1>7. CASE Later
  <2>1. ASSUME NEW i \in 1 .. Len(requests')
        PROVE  requests'[i] # FIRST
    <3>1. \A j \in 1 .. Len(requests) : requests[j] # FIRST
      BY <1>7 DEF Later
    <3>2. rSeq # FIRST /\ Len(requests) \in Nat
      BY <1>7 DEF Later
    <3>3. i \in 1 .. Len(requests) \/ i = Len(requests) + 1
      BY <1>2, <3>2
    <3>. QED
      BY <1>2, <3>1, <3>2, <3>3
  <2>2. DOMAIN requests' = 1 .. Len(requests')
    BY <1>2, LenProperties
  <2>3. Later'
    BY <1>2, <1>7, <2>1, <2>2 DEF Later, Request, Silence, writer, doc
  <2>. QED
    BY <1>1, <2>3 DEF Phases
<1>. QED
  BY <1>1, <1>3, <1>4, <1>5, <1>6, <1>7 DEF Phases

LEMMA ReadTimeoutKeeps ==
  ASSUME IInv, Kept, ReadTimeout, Kept'
  PROVE  InOrder' /\ Phases'
<1>. USE WhileKept
<1>1. rState' = "StreamOpenedRead" /\ failedCount' = failedCount + 1 /\ rState = "FrameRequested"
  BY DEF ReadTimeout, Kept, Reading
<1>2. InOrder'
  BY <1>1 DEF ReadTimeout, InOrder, Received, Gap, Block, FirstOf, LastOf, doc, writer
<1>3. ~Opened /\ ~FirstReceived
  BY <1>1 DEF Opened, FirstReceived
<1>4. CASE Asked \/ Served \/ FirstSent
  <2>1. Asked' \/ Served' \/ FirstSent'
    BY <1>1, <1>4 DEF Asked, Served, FirstSent, Waits, ReadTimeout, doc, writer
  <2>. QED
    BY <1>2, <2>1 DEF Phases
<1>5. CASE FirstConfirmed \/ Later
  <2>1. FirstConfirmed' \/ Later'
    BY <1>1, <1>5 DEF FirstConfirmed, Later, ReadTimeout, doc, writer
  <2>. QED
    BY <1>2, <2>1 DEF Phases
<1>. QED
  BY <1>2, <1>3, <1>4, <1>5 DEF Phases

LEMMA ConfirmKeeps ==
  ASSUME MaxLen <= FRAME * SEQS, IInv, Kept, Confirm, Kept'
  PROVE  InOrder' /\ Phases'
<1>. USE WhileKept
<1>1. InOrder'
  BY DEF Confirm, InOrder, Received, Gap, Block, FirstOf, LastOf, doc, reader
<1>2. /\ Head(requests) = requests[1] /\ Len(requests') = Len(requests) - 1
      /\ DOMAIN requests' = 1 .. Len(requests') /\ Len(requests) > 0
      /\ \A i \in 1 .. Len(requests') : requests'[i] = requests[i + 1]
  BY RequestsTail, LenProperties DEF Confirm
<1>3. ~Opened /\ ~Asked /\ ~Served /\ ~FirstSent /\ ~FirstReceived
  BY DEF Confirm, Opened, Asked, Served, FirstSent, FirstReceived
<1>4. CASE FirstConfirmed
  <2>1. wState' = "StreamOpenedWrite" /\ wSeq' = 0
    <3>1. (wSeq + 1) % SEQS = 0
      BY <1>4, SizesAssumption DEF FirstConfirmed, FIRST
    <3>. QED
      BY <1>4, <3>1 DEF FirstConfirmed, Confirm
  <2>2. \A i \in DOMAIN requests' : requests'[i] # FIRST
    BY <1>2, <1>4 DEF FirstConfirmed
  <2>3. FRAME * (wSeq' + 1) <= written' /\ written' > 0
    BY <1>4, <2>1 DEF FirstConfirmed, Confirm
  <2>4. Later'
    BY <1>4, <2>1, <2>2, <2>3 DEF FirstConfirmed, Later, Confirm, reader, doc
  <2>. QED
    BY <1>1, <2>4 DEF Phases
<1>5. CASE Later
  <2>1. ASSUME NEW i \in DOMAIN requests'
        PROVE  requests'[i] # FIRST
    <3>1. \A j \in 1 .. Len(requests) : requests[j] # FIRST
      BY <1>5 DEF Later
    <3>2. i + 1 \in 1 .. Len(requests) /\ requests'[i] = requests[i + 1]
      BY <1>2
    <3>. QED
      BY <3>1, <3>2
  <2>2. /\ wSeq' # FIRST /\ FRAME * (wSeq' + 1) <= written /\ wState' \in {"StreamOpenedWrite", "Error"}
    <3>1. CASE Head(requests) = wSeq
      <4>1. wSeq \in Nat /\ SEQS \in Nat /\ FRAME * (wSeq + 2) <= written /\ written < len /\ len <= MaxLen
        BY <1>5, SizesAssumption, LengthsAre DEF Later, Confirm, Working, TypeOK
      <4>2. wSeq + 2 < SEQS
        <5>1. SUFFICES ASSUME wSeq + 2 >= SEQS PROVE FALSE
          BY <4>1
        <5>2. FRAME * (wSeq + 2) >= FRAME * SEQS
          BY <4>1, <5>1
        <5>3. FRAME * (wSeq + 2) \in Nat /\ FRAME * SEQS \in Nat /\ MaxLen \in Nat
          BY <4>1, SizesAssumption
        <5>. QED
          BY <4>1, <5>2, <5>3, SMTT(30)
      <4>3. wSeq' = wSeq + 1 /\ wState' = "StreamOpenedWrite"
        <5>1. (wSeq + 1) % SEQS = wSeq + 1
          BY <4>1, <4>2, NoWrap
        <5>. QED
          BY <3>1, <5>1 DEF Confirm
      <4>. QED
        BY <4>1, <4>2, <4>3 DEF FIRST
    <3>2. CASE Head(requests) # wSeq
      BY <1>5, <3>2 DEF Later, Confirm
    <3>. QED
      BY <3>1, <3>2
  <2>3. Later'
    BY <1>5, <2>1, <2>2 DEF Later, Confirm, reader, doc
  <2>. QED
    BY <1>1, <2>3 DEF Phases
<1>. QED
  BY <1>1, <1>3, <1>4, <1>5 DEF Phases

LEMMA SeqIsFunction ==
  ASSUME NEW S, NEW s \in Seq(S)
  PROVE  s = [i \in DOMAIN s |-> s[i]]
BY SeqDef

LEMMA ReceiveKeeps ==
  ASSUME IInv, Kept, Receive, Kept'
  PROVE  InOrder' /\ Phases'
<1>. USE WhileKept
<1>1. /\ frame' = frames[1].data /\ rSeq' = frames[1].seq /\ rState' = "FrameReceived"
      /\ rState = "FrameRequested" /\ frames # << >> /\ failedCount' = 0
      /\ Len(frames) > 0 /\ Len(frames') = Len(frames) - 1
      /\ \A i \in 1 .. Len(frames') : frames'[i] = frames[i + 1]
      /\ frames' \in Seq(Frames) /\ frame' \in Seq(1 .. len)
      /\ UNCHANGED <<len, written, wState, wSeq, got, requests>>
  BY FramesTail DEF Receive, Reading, Frames, doc, writer
<1>2. /\ DOMAIN frames' = 1 .. Len(frames') /\ DOMAIN frame' = 1 .. Len(frame')
      /\ Len(frame') \in Nat /\ (frames' = << >> <=> Len(frames') = 0)
      /\ (frame' # << >> => Len(frame') > 0)
  <2>1. /\ DOMAIN frames' = 1 .. Len(frames') /\ (frames' = << >> <=> Len(frames') = 0)
    BY <1>1, LenProperties, EmptySeq
  <2>2. DOMAIN frame' = 1 .. Len(frame') /\ Len(frame') \in Nat /\ (frame' = << >> <=> Len(frame') = 0)
    BY <1>1, LenProperties, EmptySeq
  <2>. QED
    BY <2>1, <2>2
<1>3. Block(frames[1]) /\ FirstOf(frames[1]) = Len(got) + 1
  BY <1>1 DEF InOrder, Received
<1>4. frame' # << >> /\ \A k \in 1 .. Len(frame') : frame'[k] = Len(got) + k
  <2>1. /\ frame' # << >>
        /\ \A k \in DOMAIN frame' : frame'[k] = FirstOf(frames[1]) + k - 1
    BY <1>1, <1>3 DEF Block
  <2>2. ASSUME NEW k \in 1 .. Len(frame')
        PROVE  frame'[k] = Len(got) + k
    <3>1. frame'[k] = FirstOf(frames[1]) + k - 1
      BY <1>2, <2>1
    <3>. QED
      BY <1>2, <1>3, <3>1
  <2>. QED
    BY <2>1, <2>2
<1>5. ~Gap'
  <2>1. frame' = [i \in 1 .. Len(frame') |-> Len(got) + i]
    <3>1. frame' = [i \in DOMAIN frame' |-> frame'[i]]
      BY <1>1, SeqIsFunction
    <3>. QED
      BY <1>2, <1>4, <3>1
  <2>. QED
    BY <1>1, <2>1 DEF Gap
<1>6. Received' = Len(got) + Len(frame') /\ LastOf(frames[1]) = Received'
  <2>1. Received' = Len(got) + Len(frame')
    BY <1>1 DEF Received
  <2>2. Len(frame') \in 1 .. Len(frame')
    BY <1>2, <1>4
  <2>3. LastOf(frames[1]) = Len(got) + Len(frame')
    BY <1>1, <1>4, <2>2 DEF LastOf
  <2>. QED
    BY <2>1, <2>3
<1>7. IF frames' = << >> THEN written' = Received'
      ELSE FirstOf(frames'[1]) = Received' + 1 /\ LastOf(frames'[Len(frames')]) = written'
  <2>1. CASE frames' = << >>
    BY <1>1, <1>2, <1>6, <2>1, SMTT(30) DEF InOrder
  <2>2. CASE frames' # << >>
    <3>1. Len(frames') > 0 /\ frames'[1] = frames[2] /\ frames'[Len(frames')] = frames[Len(frames)]
      BY <1>1, <1>2, <2>2, SMTT(30)
    <3>2. FirstOf(frames[1 + 1]) = LastOf(frames[1]) + 1
      BY <1>1, <3>1 DEF InOrder
    <3>. QED
      BY <1>1, <1>6, <2>2, <3>1, <3>2 DEF InOrder
  <2>. QED
    BY <2>1, <2>2
<1>8. /\ \A i \in DOMAIN frames' : Block(frames'[i])
      /\ \A i \in 1 .. Len(frames') - 1 : FirstOf(frames'[i + 1]) = LastOf(frames'[i]) + 1
  <2>1. \A i \in DOMAIN frames' : frames'[i] = frames[i + 1] /\ i + 1 \in DOMAIN frames
    BY <1>1, <1>2, SMTT(30)
  <2>2. ASSUME NEW i \in 1 .. Len(frames') - 1
        PROVE  FirstOf(frames'[i + 1]) = LastOf(frames'[i]) + 1
    <3>1. i + 1 \in 1 .. Len(frames) - 1 /\ frames'[i] = frames[i + 1] /\ frames'[i + 1] = frames[(i + 1) + 1]
      BY <1>1
    <3>. QED
      BY <3>1 DEF InOrder
  <2>. QED
    BY <2>1, <2>2 DEF InOrder
<1>9. InOrder'
  <2>1. (\A i \in DOMAIN got : got[i] = i) /\ Len(got) < len
    BY DEF InOrder
  <2>. QED
    BY <1>1, <1>4, <1>5, <1>7, <1>8, <2>1 DEF InOrder
<1>10. ~Opened /\ ~Asked /\ ~Served /\ ~FirstReceived /\ ~FirstConfirmed
  BY <1>1 DEF Opened, Asked, Served, FirstReceived, FirstConfirmed
<1>11. CASE FirstSent
  <2>1. FirstReceived'
    BY <1>1, <1>2, <1>11 DEF FirstSent, FirstReceived
  <2>. QED
    BY <1>9, <2>1 DEF Phases
<1>12. CASE Later
  <2>1. \A i \in DOMAIN frames' : frames'[i].seq # FIRST
    <3>1. \A j \in 1 .. Len(frames) : frames[j].seq # FIRST
      BY <1>12 DEF Later
    <3>2. \A i \in DOMAIN frames' : frames'[i] = frames[i + 1] /\ i + 1 \in 1 .. Len(frames)
      BY <1>1, <1>2, SMTT(30)
    <3>. QED
      BY <3>1, <3>2
  <2>2. rSeq' # FIRST
    <3>1. 1 \in DOMAIN frames /\ \A j \in DOMAIN frames : frames[j].seq # FIRST
      BY <1>1, <1>12 DEF Later
    <3>. QED
      BY <1>1, <3>1
  <2>3. Later'
    BY <1>1, <1>12, <2>1, <2>2 DEF Later
  <2>. QED
    BY <1>9, <2>3 DEF Phases
<1>. QED
  BY <1>9, <1>10, <1>11, <1>12 DEF Phases

\* The document up to its n-th byte.
LEMMA CountsUp ==
  ASSUME NEW n \in Nat, NEW s \in Seq(1 .. n), \A i \in 1 .. Len(s) : s[i] = i
  PROVE  s = [i \in 1 .. Len(s) |-> i]
<1>1. DOMAIN s = 1 .. Len(s)
  BY LenProperties
<1>2. s = [i \in 1 .. Len(s) |-> s[i]]
  BY <1>1, SeqIsFunction
<1>3. [i \in 1 .. Len(s) |-> s[i]] = [i \in 1 .. Len(s) |-> i]
  OBVIOUS
<1>. QED
  BY <1>2, <1>3

\* What the parser takes while nothing is lost: the next bytes of the document.
LEMMA ParseExtends ==
  ASSUME IInv, Kept, Parse
  PROVE  /\ rState = "FrameReceived" /\ rState' = "StreamOpenedRead"
         /\ got' = got \o frame /\ got' \in Seq(1 .. len)
         /\ Len(got') = Len(got) + Len(frame) /\ Len(frame) \in Nat \ {0}
         /\ \A i \in 1 .. Len(got') : got'[i] = i
         /\ Len(got') <= len
         /\ outcome' = IF Len(got') = len THEN "done" ELSE "reading"
         /\ UNCHANGED <<doc, writer, rSeq, failedCount, requests, frames>>
<1>. USE WhileKept
<1>1. rState = "FrameReceived" /\ frame # << >> /\ frame = [i \in 1 .. Len(frame) |-> Len(got) + i]
  BY DEF Parse, Reading, InOrder, Gap
<1>2. /\ got' = got \o frame /\ rState' = "StreamOpenedRead"
      /\ outcome' = IF Whole(got', len) THEN "done" ELSE "reading"
      /\ UNCHANGED <<doc, writer, rSeq, failedCount, requests, frames>>
  BY <1>1 DEF Parse, Gap
<1>3. /\ frame \in Seq(1 .. len) /\ got \in Seq(1 .. len) /\ Len(frame) \in Nat \ {0}
      /\ DOMAIN frame = 1 .. Len(frame)
  BY <1>1, LenProperties, EmptySeq DEF TypeOK
<1>4. /\ got' \in Seq(1 .. len) /\ Len(got') = Len(got) + Len(frame)
      /\ \A i \in 1 .. Len(got) + Len(frame) :
           got'[i] = IF i <= Len(got) THEN got[i] ELSE frame[i - Len(got)]
  BY <1>2, <1>3, ConcatProperties
<1>5. ASSUME NEW i \in 1 .. Len(got')
      PROVE  got'[i] = i
  <2>1. CASE i <= Len(got)
    <3>1. i \in DOMAIN got /\ got[i] = i
      BY <2>1 DEF InOrder
    <3>. QED
      BY <1>3, <1>4, <2>1, <3>1
  <2>2. CASE i > Len(got)
    <3>1. i - Len(got) \in 1 .. Len(frame)
      BY <1>3, <1>4, <2>2
    <3>2. frame[i - Len(got)] = Len(got) + (i - Len(got))
      BY <1>1, <3>1
    <3>. QED
      BY <1>4, <2>2, <3>2, SMTT(30)
  <2>. QED
    BY <1>3, <1>4, <2>1, <2>2
<1>6. frame[Len(frame)] = Len(got') /\ frame[Len(frame)] \in 1 .. len
  <2>1. Len(frame) \in 1 .. Len(frame)
    BY <1>3
  <2>2. frame[Len(frame)] = Len(got) + Len(frame)
    BY <1>1, <2>1
  <2>3. frame[Len(frame)] \in 1 .. len
    BY <1>3, <2>1, SMTT(30)
  <2>. QED
    BY <1>4, <2>2, <2>3
<1>7. Whole(got', len) <=> Len(got') = len
  <2>1. got' = [i \in 1 .. Len(got') |-> i]
    BY <1>3, <1>4, <1>5, CountsUp
  <2>2. len \in Lengths /\ Len(got') \in 1 .. len
    BY <1>3, <1>4, <1>6 DEF TypeOK
  <2>3. Whole([i \in 1 .. Len(got') |-> i], len) <=> Len(got') = len
    BY <2>2 DEF Lengths
  <2>. QED
    BY <2>1, <2>3
<1>. QED
  BY <1>1, <1>2, <1>3, <1>4, <1>5, <1>6, <1>7, SMTT(30)

LEMMA ParseKeeps ==
  ASSUME IInv, Kept, Parse, Kept'
  PROVE  InOrder' /\ Phases'
<1>. USE WhileKept
<1>1. Len(got') < len
  BY ParseExtends DEF Kept
<1>2. DOMAIN got' = 1 .. Len(got') /\ got' # << >>
  BY ParseExtends, LenProperties, EmptySeq
<1>3. Received' = Received
  BY ParseExtends DEF Received
<1>4. InOrder'
  BY <1>1, <1>2, <1>3, ParseExtends DEF InOrder, Block, FirstOf, LastOf, doc, writer
<1>5. ~Opened /\ ~Asked /\ ~Served /\ ~FirstSent /\ ~FirstConfirmed
  BY ParseExtends DEF Opened, Asked, Served, FirstSent, FirstConfirmed, Waits
<1>6. CASE FirstReceived \/ Later
  <2>1. FirstReceived' \/ Later'
    BY <1>2, <1>6, ParseExtends DEF FirstReceived, Later, doc, writer
  <2>. QED
    BY <1>4, <2>1 DEF Phases
<1>. QED
  BY <1>4, <1>5, <1>6 DEF Phases

LEMMA ServeKeeps ==
  ASSUME IInv, Kept, Serve, Kept'
  PROVE  InOrder' /\ Phases'
<1>. USE WhileKept
<1>1. ~Opened /\ ~Served /\ ~FirstSent /\ ~FirstReceived /\ ~FirstConfirmed
  BY DEF Serve, Opened, Served, FirstSent, FirstReceived, FirstConfirmed
<1>2. CASE Asked
  <2>1. Head(requests) = FIRST /\ Tail(requests) = << >>
    BY <1>2 DEF Asked
  <2>2. Served' /\ written' = written
    BY <1>2, <2>1 DEF Asked, Served, Serve, Waits, reader, doc
  <2>3. InOrder'
    BY <2>2 DEF Serve, InOrder, Received, Gap, Block, FirstOf, LastOf, doc, reader
  <2>. QED
    BY <2>2, <2>3 DEF Phases
<1>3. CASE Later
  <2>1. /\ Head(requests) = requests[1] /\ Len(requests') = Len(requests) - 1
        /\ DOMAIN requests' = 1 .. Len(requests') /\ Len(requests) > 0
        /\ \A i \in 1 .. Len(requests') : requests'[i] = requests[i + 1]
    BY RequestsTail, LenProperties DEF Serve
  <2>2. UNCHANGED writer
    BY <1>3, <2>1 DEF Later, Serve
  <2>3. InOrder'
    BY <2>2 DEF Serve, InOrder, Received, Gap, Block, FirstOf, LastOf, doc, reader, writer
  <2>4. ASSUME NEW i \in DOMAIN requests'
        PROVE  requests'[i] # FIRST
    <3>1. \A j \in 1 .. Len(requests) : requests[j] # FIRST
      BY <1>3 DEF Later
    <3>2. i + 1 \in 1 .. Len(requests) /\ requests'[i] = requests[i + 1]
      BY <2>1
    <3>. QED
      BY <3>1, <3>2
  <2>5. Later'
    BY <1>3, <2>2, <2>4 DEF Later, Serve, reader, doc, writer
  <2>. QED
    BY <2>3, <2>5 DEF Phases
<1>. QED
  BY <1>1, <1>2, <1>3 DEF Phases

LEMMA WriteFrameKeeps ==
  ASSUME IInv, Kept, WriteFrame, Kept'
  PROVE  InOrder' /\ Phases'
<1>. USE WhileKept
<1>. DEFINE n == Len(NextBytes)  sent == [seq |-> wSeq, data |-> NextBytes]
<1>1. /\ n = (IF len - written < FRAME THEN len - written ELSE FRAME)
      /\ NextBytes \in Seq(1 .. len) /\ \A k \in 1 .. n : NextBytes[k] = written + k
  BY NextBytesAre
<1>2. /\ wState \in {"StreamOpenedWrite", "Error"} /\ written < len /\ written' = written + n
      /\ wState' = (IF written' = len THEN "Idle" ELSE "waitingConfirm")
      /\ UNCHANGED <<faults, len, wSeq, rState, rSeq, failedCount, frame, got, requests>>
  BY DEF WriteFrame, Working, doc, reader
<1>3. /\ frames' \in Seq(Frames) /\ Len(frames') = Len(frames) + 1
      /\ \A i \in 1 .. Len(frames) : frames'[i] = frames[i]
      /\ frames'[Len(frames) + 1] = sent
  BY SendAppends DEF WriteFrame
<1>4. DOMAIN frames' = 1 .. Len(frames) + 1 /\ frames' # << >>
  BY <1>3, LenProperties, EmptySeq
<1>5. n \in Nat \ {0} /\ DOMAIN NextBytes = 1 .. n /\ NextBytes # << >>
  BY <1>1, <1>2, LenProperties, EmptySeq, SMTT(30)
<1>. HIDE DEF n
<1>6. Block(sent) /\ FirstOf(sent) = written + 1 /\ LastOf(sent) = written'
  <2>1. 1 \in 1 .. n /\ n \in 1 .. n
    BY <1>5
  <2>2. NextBytes[1] = written + 1 /\ NextBytes[n] = written + n
    BY <1>1, <2>1
  <2>3. FirstOf(sent) = written + 1
    BY <2>2 DEF FirstOf
  <2>4. LastOf(sent) = written'
    BY <1>2, <2>2 DEF LastOf, n
  <2>5. Block(sent)
    <3>1. \A k \in 1 .. n : NextBytes[k] = FirstOf(sent) + k - 1
      BY <1>1, <1>5, <2>3, SMTT(30)
    <3>. QED
      BY <1>5, <3>1 DEF Block
  <2>. QED
    BY <2>3, <2>4, <2>5
<1>7. \A i \in DOMAIN frames' : Block(frames'[i])
  BY <1>3, <1>4, <1>6 DEF InOrder
<1>8. ASSUME NEW i \in 1 .. Len(frames') - 1
      PROVE  FirstOf(frames'[i + 1]) = LastOf(frames'[i]) + 1
  <2>1. CASE i < Len(frames)
    <3>1. i \in 1 .. Len(frames) - 1 /\ frames'[i] = frames[i] /\ frames'[i + 1] = frames[i + 1]
      BY <1>3, <2>1
    <3>. QED
      BY <3>1 DEF InOrder
  <2>2. CASE i = Len(frames)
    <3>1. frames # << >> /\ frames'[i] = frames[Len(frames)] /\ frames'[i + 1] = sent
      BY <1>3, <2>2, EmptySeq
    <3>2. LastOf(frames[Len(frames)]) = written
      BY <3>1 DEF InOrder
    <3>. QED
      BY <1>6, <3>1, <3>2
  <2>. QED
    BY <1>3, <2>1, <2>2
<1>9. Received' = Received
  BY <1>2 DEF Received
<1>10. FirstOf(frames'[1]) = Received' + 1 /\ LastOf(frames'[Len(frames')]) = written'
  <2>1. CASE frames = << >>
    <3>1. frames'[1] = sent /\ written = Received
      BY <1>3, <2>1, EmptySeq DEF InOrder
    <3>. QED
      BY <1>3, <1>6, <1>9, <3>1
  <2>2. CASE frames # << >>
    <3>1. frames'[1] = frames[1] /\ FirstOf(frames[1]) = Received + 1
      BY <1>3, <2>2, EmptySeq DEF InOrder
    <3>. QED
      BY <1>3, <1>6, <1>9, <3>1
  <2>. QED
    BY <2>1, <2>2
<1>11. InOrder'
  <2>1. /\ \A i \in DOMAIN got' : got'[i] = i
        /\ Len(got') < len'
        /\ rState' = "FrameReceived" => frame' # << >> /\ ~Gap'
    BY <1>2 DEF InOrder, Gap
  <2>. QED
    BY <1>4, <1>7, <1>8, <1>10, <2>1 DEF InOrder
<1>12. ~Opened /\ ~Asked /\ ~FirstSent /\ ~FirstReceived /\ ~FirstConfirmed
  BY <1>2 DEF Opened, Asked, FirstSent, FirstReceived, FirstConfirmed
<1>13. CASE Served
  <2>1. Len(frames) = 0 /\ written = 0
    BY <1>13, EmptySeq DEF Served
  <2>2. frames'[1].seq = FIRST
    BY <1>3, <1>13, <2>1 DEF Served
  <2>3. written' = IF len < FRAME THEN len ELSE FRAME
    BY <1>1, <1>2, <2>1
  <2>4. FirstSent'
    BY <1>2, <1>3, <1>13, <2>1, <2>2, <2>3 DEF Served, FirstSent, Waits
  <2>. QED
    BY <1>11, <2>4 DEF Phases
<1>14. CASE Later
  <2>1. \A i \in DOMAIN frames' : frames'[i].seq # FIRST
    BY <1>3, <1>4, <1>14 DEF Later
  <2>2. wSeq \in Nat /\ FRAME * (wSeq + 2) = FRAME * (wSeq + 1) + FRAME /\ FRAME * (wSeq + 1) \in Nat
    <3>1. wSeq \in Nat /\ FRAME \in Nat
      BY SizesAssumption DEF TypeOK
    <3>. QED
      BY <3>1, NextFrame
  <2>3. FRAME * (wSeq + 1) <= written'
    BY <1>2, <1>5, <1>14, <2>2, SMTT(30) DEF Later
  <2>4. wState' = "waitingConfirm" => FRAME * (wSeq + 2) <= written'
    <3>1. CASE len - written < FRAME
      BY <1>1, <1>2, <3>1
    <3>2. CASE ~(len - written < FRAME)
      <4>1. written' = written + FRAME /\ FRAME * (wSeq + 1) <= written
        BY <1>1, <1>2, <1>14, <3>2 DEF Later
      <4>. QED
        BY <2>2, <4>1, SMTT(30)
    <3>. QED
      BY <3>1, <3>2
  <2>5. Later'
    BY <1>2, <1>4, <1>5, <1>14, <2>1, <2>3, <2>4 DEF Later, Silence
  <2>. QED
    BY <1>11, <2>5 DEF Phases
<1>. QED
  BY <1>11, <1>12, <1>13, <1>14 DEF Phases

\* While nothing is lost the writer need not wait in vain.
LEMMA NoWriteTimeout ==
  ASSUME IInv, Kept, WriteTimeout
  PROVE  FALSE
<1>. USE WhileKept
<1>1. wState = "waitingConfirm" /\ Silence /\ rState = "FrameRequested"
  BY DEF WriteTimeout
<1>. QED
  BY <1>1, EmptySeq DEF Silence, Phases, Opened, Asked, Served, FirstSent, FirstReceived,
     FirstConfirmed, Later

LEMMA Initially ==
  ASSUME Init
  PROVE  IInv
<1>1. TypeOK
  BY SizesAssumption, TriesAssumption, LengthsAre, EmptySeq DEF Init, TypeOK, FIRST, RETRIES
<1>2. Working /\ Short /\ Opened /\ Phases
  BY DEF Init, Working, Short, Opened, Phases
<1>3. InOrder
  BY <1>1, LengthsAre, EmptySeq DEF Init, InOrder, Received, TypeOK
<1>. QED
  BY <1>1, <1>2, <1>3 DEF IInv

LEMMA StillKept ==
  ASSUME Next, Kept'
  PROVE  Kept \/ Retry
<1>1. faults' = faults
  BY DEF Next, ReaderStep, WriterStep, Request, RequestFails, Receive, ReadTimeout, GiveUp, Parse,
     Retry, Serve, WriteFrame, SendFails, Confirm, WriteTimeout, Lose, doc
<1>2. outcome = "reading" \/ Retry
  BY DEF Kept, Next, ReaderStep, WriterStep, Request, RequestFails, Receive, ReadTimeout, GiveUp,
     Parse, Serve, WriteFrame, SendFails, Confirm, WriteTimeout, Lose, reader, Reading
<1>. QED
  BY <1>1, <1>2 DEF Kept

LEMMA InductiveStep ==
  ASSUME MaxLen <= FRAME * SEQS, IInv, [Next]_vars
  PROVE  IInv'
<1>1. TypeOK' /\ Working' /\ Short'
  BY TypeStep DEF IInv
<1>2. ASSUME Kept' PROVE InOrder' /\ Phases'
  <2>1. CASE UNCHANGED vars
    <3>1. Kept /\ InOrder /\ Phases
      BY <1>2, <2>1 DEF Kept, vars, IInv
    <3>2. InOrder'
      BY <2>1, <3>1 DEF vars, InOrder, Received, Gap, Block, FirstOf, LastOf
    <3>3. Phases'
      BY <2>1, <3>1 DEF vars, Phases, Opened, Asked, Served, FirstSent, FirstReceived,
         FirstConfirmed, Later, Waits, Silence
    <3>. QED
      BY <3>2, <3>3
  <2>2. CASE Next
    <3>1. faults \subseteq {"slowWriter"}
      BY <1>2, <2>2 DEF Kept, Next, ReaderStep, WriterStep, Request, RequestFails, Receive,
         ReadTimeout, GiveUp, Parse, Retry, Serve, WriteFrame, SendFails, Confirm, WriteTimeout,
         Lose, doc
    <3>2. ~RequestFails /\ ~SendFails /\ ~Retry /\ ~Lose
      BY <3>1 DEF RequestFails, SendFails, Retry, Lose
    <3>3. Kept
      BY <1>2, <2>2, <3>2, StillKept
    <3>4. ~GiveUp /\ ~WriteTimeout
      BY <1>2, <3>3, NoWriteTimeout DEF GiveUp, Kept
    <3>. QED
      BY <1>2, <2>2, <3>2, <3>3, <3>4, RequestKeeps, ReceiveKeeps, ReadTimeoutKeeps, ParseKeeps,
         ServeKeeps, WriteFrameKeeps, ConfirmKeeps DEF Next, ReaderStep, WriterStep
  <2>. QED
    BY <2>1, <2>2
<1>. QED
  BY <1>1, <1>2 DEF IInv

\* The state of canStream at both ends, and what is on the bus, in any network.
THEOREM TypeCorrect == Spec => []TypeOK
<1>. DEFINE T == TypeOK /\ Working /\ Short
<1>1. Init => T
  BY Initially DEF IInv
<1>2. T /\ [Next]_vars => T'
  BY TypeStep
<1>. QED
  BY <1>1, <1>2, PTL DEF Spec

\* Where nothing is lost, checkState, write and the parser keep the bytes of the document in
\* order, without a gap and without one twice, however late the writer is.
THEOREM TransferOrdered ==
  ASSUME MaxLen <= FRAME * SEQS
  PROVE  Spec => []IInv
<1>1. Init => IInv
  BY Initially
<1>2. IInv /\ [Next]_vars => IInv'
  BY InductiveStep
<1>. QED
  BY <1>1, <1>2, PTL DEF Spec

LEMMA StreamStep ==
  ASSUME MaxLen <= FRAME * SEQS, IInv, IInv', [Next]_vars
  PROVE  [Stream!StreamNext]_<<len, got, outcome>>
<1>1. CASE Parse /\ Kept
  <2>1. got' = Stream!doc(Len(got')) /\ Len(got') \in Len(got) + 1 .. len
    <3>1. got' \in Seq(1 .. len) /\ \A i \in 1 .. Len(got') : got'[i] = i
      BY <1>1, ParseExtends
    <3>2. Len(got') = Len(got) + Len(frame) /\ Len(frame) \in Nat \ {0} /\ Len(got') <= len
      BY <1>1, ParseExtends
    <3>3. Len(got) \in Nat /\ len \in Nat
      BY <1>1, WhileKept
    <3>4. got' = [i \in 1 .. Len(got') |-> i]
      BY <3>1, <3>3, CountsUp
    <3>. QED
      BY <3>2, <3>3, <3>4 DEF Stream!doc
  <2>2. outcome = "reading" /\ len' = len
    BY <1>1, ParseExtends, WhileKept DEF doc
  <2>3. Stream!Deliver
    BY <1>1, <2>1, <2>2, ParseExtends DEF Stream!Deliver
  <2>. QED
    BY <2>3 DEF Stream!StreamNext
<1>2. CASE Parse /\ ~Kept
  <2>1. outcome = "reading" /\ ~(faults \subseteq {"slowWriter"}) /\ len' = len
    BY <1>2 DEF Parse, Reading, Kept, doc
  <2>2. CASE outcome' = "failed" /\ UNCHANGED got
    BY <2>1, <2>2 DEF Stream!StreamNext, Stream!Fail
  <2>3. CASE got' = got \o frame /\ outcome' = IF Whole(got', len) THEN "done" ELSE "reading"
    <3>1. got' \in Seq(1 .. len) /\ frame \in Seq(1 .. len) /\ got \in Seq(1 .. len)
      BY <2>1 DEF IInv, TypeOK
    <3>2. Stream!Garble
      BY <2>1, <2>3, <3>1 DEF Stream!Garble
    <3>. QED
      BY <3>2 DEF Stream!StreamNext
  <2>. QED
    BY <1>2, <2>2, <2>3 DEF Parse
<1>3. CASE RequestFails \/ GiveUp \/ ReadTimeout
  BY <1>3 DEF RequestFails, GiveUp, ReadTimeout, Reading, doc, Stream!StreamNext, Stream!Fail
<1>4. CASE Retry
  BY <1>4 DEF Retry, doc, Stream!StreamNext, Stream!Restart
<1>5. CASE Request \/ Receive \/ WriterStep \/ Lose \/ UNCHANGED vars
  BY <1>5 DEF Request, Receive, WriterStep, Serve, WriteFrame, SendFails, Confirm, WriteTimeout, Lose,
     doc, reader, vars
<1>. QED
  BY <1>1, <1>2, <1>3, <1>4, <1>5 DEF Next, ReaderStep

\* Every step of canStream is a step of ByteStream, or leaves what the parser has: the text
\* grows by the next bytes of the document; in a faulty one success comes with a whole object.
THEOREM StreamKeptHolds ==
  ASSUME MaxLen <= FRAME * SEQS
  PROVE  Spec => StreamKept
<1>1. Init => Stream!StreamInit
  BY LengthsAre DEF Init, Stream!StreamInit
<1>2. IInv /\ IInv' /\ [Next]_vars => [Stream!StreamNext]_<<len, got, outcome>>
  BY StreamStep
<1>3. Spec => []IInv
  BY TransferOrdered
<1>. QED
  BY <1>1, <1>2, <1>3, PTL DEF Spec, StreamKept, Stream!StreamSpec
=================================================================================
