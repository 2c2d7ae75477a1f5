------------------------------ MODULE CanStream ------------------------------
(***************************************************************************)
(* canStream: the transfer of a configuration over the CAN bus, from the     *)
(* server's writer (aJson.print into a stream opened for 'w') to the         *)
(* client's reader (aJson.parse of a stream opened for 'r').  It is a        *)
(* stop-and-wait protocol in which the request for the next frame confirms   *)
(* the last one.                                                            *)
(*                                                                         *)
(* A byte of the document is its position; frames hold FRAME of them.  A bus *)
(* controller keeps frames in order until they are read.                    *)
(***************************************************************************)
EXTENDS Integers, Sequences, FiniteSets

CONSTANTS
  MaxLen,       \* documents of up to MaxLen bytes
  FRAME,        \* bytes in a frame (8)
  SEQS,         \* sequence numbers are taken modulo SEQS (65536)
  Braces,       \* positions of the opening braces in the document
  Closers,      \* positions of the closing ones before its last byte
  MaxTries,     \* transfers the client begins
  Networks      \* the networks considered, each the set of its faults

ASSUME SizesAssumption == MaxLen \in Nat \ {0} /\ FRAME \in Nat \ {0} /\ SEQS \in Nat \ {0, 1}
ASSUME TriesAssumption == MaxTries \in Nat \ {0} /\ 1 \in Braces

\* What can go wrong between client and server:
\* "loss": frames are lost, because receive buffers overflow, the bus does not
\* take them, or another wait of the same controller reads and drops them;
\* "slowWriter": the next frame can take more than a second; "retry": a client
\* that has failed begins again.
AllFaults == {"loss", "slowWriter", "retry"}

ASSUME NetworksAssumption == Networks \subseteq SUBSET AllFaults

\* The first k bytes of a text close as many braces as they open.  The last
\* byte of a document of n bytes is its closing brace.
Balanced(text, k, n) ==
  Cardinality({i \in 1 .. k : text[i] \in Braces})
    = Cardinality({i \in 1 .. k : text[i] \in Closers \cup {n}})

\* The object that begins with the first byte of the text is in it as a whole:
\* aJson.parse reads no further.
Whole(text, n) == \E k \in 1 .. Len(text) : Balanced(text, k, n)

\* The lengths that a document can have: it is one object.
Lengths ==
  {n \in 1 .. MaxLen : \A k \in 1 .. n : Whole([i \in 1 .. k |-> i], n) <=> k = n}

VARIABLES
  faults,       \* the faults of this network; never changes
  len,          \* bytes of the document
  wState,       \* state of the writer's stream; Idle: the server polls the bus
  wSeq,         \* its seqNo
  written,      \* bytes aJson.print has put into it
  rState,       \* state of the reader's stream
  rSeq,         \* its seqNo
  failedCount,  \* timeouts since the last frame
  frame,        \* the frame received last
  got,          \* bytes of the frames that the parser has begun to read
  outcome,      \* of the transfer: reading, done or failed
  tries,        \* transfers begun
  requests,     \* sequence numbers of the requests on their way to the writer
  frames        \* frames on their way to the reader

writer == <<wState, wSeq, written>>
reader == <<rState, rSeq, failedCount, frame, got, outcome, tries>>
doc    == <<faults, len>>
vars   == <<faults, len, wState, wSeq, written, rState, rSeq, failedCount, frame, got,
            outcome, tries, requests, frames>>

FIRST == SEQS - 1   \* 0xFFFF: the seqNo of an opened stream, and of the request
                    \* that makes the server begin
RETRIES == 3

\* A writer that is late is no fault of the stream: its reader asks again.
Stream     == INSTANCE ByteStream WITH faulty <- ~(faults \subseteq {"slowWriter"})
SafeStream == INSTANCE ByteStream WITH faulty <- FALSE

TypeOK ==
  /\ faults \in Networks
  /\ len \in Lengths
  /\ wState \in {"Idle", "StreamOpenedWrite", "waitingConfirm", "Error"}
  /\ wSeq \in 0 .. SEQS - 1 /\ rSeq \in 0 .. SEQS - 1
  /\ written \in 0 .. len
  /\ rState \in {"StreamOpenedRead", "FrameRequested", "FrameReceived", "Error"}
  /\ failedCount \in 0 .. RETRIES
  /\ frame \in Seq(1 .. len) /\ Len(frame) <= FRAME
  /\ got \in Seq(1 .. len)
  /\ outcome \in {"reading", "done", "failed"}
  /\ tries \in 1 .. MaxTries
  /\ requests \in Seq(0 .. SEQS - 1)
  /\ frames \in Seq([seq : 0 .. SEQS - 1, data : Seq(1 .. len)])

\* The client has just opened its stream; the server polls the bus.
Init ==
  /\ faults \in Networks
  /\ len \in Lengths
  /\ wState = "Idle" /\ wSeq = FIRST /\ written = 0
  /\ rState = "StreamOpenedRead" /\ rSeq = FIRST /\ failedCount = 0 /\ frame = << >>
  /\ got = << >> /\ outcome = "reading" /\ tries = 1
  /\ requests = << >> /\ frames = << >>

-----------------------------------------------------------------------------
(* The reader: checkState, called by peek, available and read.              *)

Reading(state) == outcome = "reading" /\ rState = state

\* StreamOpenedRead: requestFrame.  What confirms the last frame, too.  The peek
\* for the first frame is not repeated.
Request ==
  /\ Reading("StreamOpenedRead")
  /\ failedCount > 0 => got # << >>
  /\ requests' = Append(requests, rSeq)
  /\ rSeq' = IF rSeq = FIRST THEN 0 ELSE rSeq
  /\ rState' = "FrameRequested"
  /\ UNCHANGED <<doc, writer, failedCount, frame, got, outcome, tries, frames>>

\* The bus does not take the request: there is no way out of Error.
RequestFails ==
  /\ "loss" \in faults /\ Reading("StreamOpenedRead")
  /\ rState' = "Error" /\ outcome' = "failed"
  /\ UNCHANGED <<doc, writer, rSeq, failedCount, frame, got, tries, requests, frames>>

\* FrameRequested: any frame of the transfer is the one that was asked for.
Receive ==
  /\ Reading("FrameRequested")
  /\ frames # << >>
  /\ frame' = Head(frames).data /\ rSeq' = Head(frames).seq
  /\ frames' = Tail(frames)
  /\ failedCount' = 0
  /\ rState' = "FrameReceived"
  /\ UNCHANGED <<doc, writer, got, outcome, tries, requests>>

\* Nothing is on its way: who waits now waits for a second.
Silence == requests = << >> /\ frames = << >>

\* A second has passed: the parser is told -1.  It may ask again.
ReadTimeout ==
  /\ Reading("FrameRequested")
  /\ \/ "slowWriter" \in faults
     \/ Silence /\ wState \in {"Idle", "waitingConfirm"}
  /\ IF failedCount >= RETRIES
       THEN rState' = "Error" /\ outcome' = "failed" /\ UNCHANGED failedCount
       ELSE /\ rState' = "StreamOpenedRead" /\ failedCount' = failedCount + 1
            /\ UNCHANGED outcome
  /\ UNCHANGED <<doc, writer, rSeq, frame, got, tries, requests, frames>>

\* The parser takes -1 for the end of the text, or asks again.
GiveUp ==
  /\ Reading("StreamOpenedRead")
  /\ failedCount > 0
  /\ outcome' = "failed"
  /\ UNCHANGED <<doc, writer, rState, rSeq, failedCount, frame, got, tries, requests, frames>>

Gap == frame # [i \in 1 .. Len(frame) |-> Len(got) + i]

\* The bytes of the frame go to the parser, which is done when the object is
\* complete by its braces.  It may or may not notice that something is missing,
\* but a transfer that does not start with a brace is refused before the old
\* configuration is given up.
Parse ==
  /\ Reading("FrameReceived")
  /\ \/ /\ got = << >> => Head(frame) \in Braces
        /\ got' = got \o frame
        /\ rState' = "StreamOpenedRead"
        /\ outcome' = IF Whole(got', len) THEN "done" ELSE "reading"
     \/ /\ Gap
        /\ outcome' = "failed"
        /\ UNCHANGED <<rState, got>>
  /\ UNCHANGED <<doc, writer, rSeq, failedCount, frame, tries, requests, frames>>

\* canDriver in state Error looks its MAC up again after 10 s and reads anew;
\* what has arrived meanwhile was polled and dropped.
Retry ==
  /\ "retry" \in faults /\ outcome = "failed" /\ tries < MaxTries
  /\ tries' = tries + 1
  /\ rState' = "StreamOpenedRead" /\ rSeq' = FIRST /\ failedCount' = 0
  /\ frame' = << >> /\ got' = << >> /\ outcome' = "reading"
  /\ frames' = << >>
  /\ UNCHANGED <<doc, writer, requests>>

-----------------------------------------------------------------------------
(* The server.                                                             *)

\* processPacket: a request with the first sequence number starts the transfer;
\* others, from a reader that waits in vain, are ignored.
Serve ==
  /\ wState = "Idle" /\ requests # << >>
  /\ requests' = Tail(requests)
  /\ IF Head(requests) = FIRST
       THEN wState' = "StreamOpenedWrite" /\ wSeq' = FIRST /\ written' = 0
       ELSE UNCHANGED writer
  /\ UNCHANGED <<doc, reader, frames>>

\* The bytes of the next frame, or the rest that close flushes.
NextBytes == [i \in 1 .. IF len - written < FRAME THEN len - written ELSE FRAME
                |-> written + i]

\* send.  A client that is not reading polls the bus and drops the frame.
Send == frames' = IF outcome = "reading"
                    THEN Append(frames, [seq |-> wSeq, data |-> NextBytes])
                    ELSE frames

\* Mutant of WriteFrame: the last byte of the buffer is kept out of the frame.
WriteFrameShort ==
  /\ wState \in {"StreamOpenedWrite", "Error"}
  /\ Send
  /\ written' = written + Len(NextBytes) + 1
  /\ wState' = IF written' >= len THEN "Idle" ELSE "waitingConfirm"
  /\ UNCHANGED <<doc, wSeq, reader, requests>>

\* write: bytes are buffered until the frame is full, then send; the stream that
\* has failed goes on all the same.  close does not wait for a confirmation.
WriteFrame ==
  /\ wState \in {"StreamOpenedWrite", "Error"}
  /\ Send
  /\ written' = written + Len(NextBytes)
  /\ wState' = IF written' = len THEN "Idle" ELSE "waitingConfirm"
  /\ UNCHANGED <<doc, wSeq, reader, requests>>

\* Mutant of Confirm: seqNo is not a 16-bit number.
ConfirmNoWrap ==
  /\ wState = "waitingConfirm" /\ requests # << >>
  /\ requests' = Tail(requests)
  /\ IF Head(requests) = wSeq
       THEN wState' = "StreamOpenedWrite" /\ wSeq' = wSeq + 1
       ELSE wState' = "Error" /\ UNCHANGED wSeq
  /\ UNCHANGED <<doc, written, reader, frames>>

\* The bus does not take the frame: the writer goes on with the next.
SendFails ==
  /\ "loss" \in faults
  /\ wState \in {"StreamOpenedWrite", "Error"}
  /\ written' = written + Len(NextBytes)
  /\ wState' = IF written' = len THEN "Idle" ELSE "Error"
  /\ UNCHANGED <<doc, wSeq, reader, requests, frames>>

\* waitingConfirm: the request that repeats our seqNo confirms the frame.
Confirm ==
  /\ wState = "waitingConfirm" /\ requests # << >>
  /\ requests' = Tail(requests)
  /\ IF Head(requests) = wSeq
       THEN wState' = "StreamOpenedWrite" /\ wSeq' = (wSeq + 1) % SEQS
       ELSE wState' = "Error" /\ UNCHANGED wSeq
  /\ UNCHANGED <<doc, written, reader, frames>>

\* Mutant of WriteTimeout: the stream goes on waiting for its confirmation.
WriteTimeoutWaits == wState = "waitingConfirm" /\ UNCHANGED vars

\* A second without the confirmation: the byte to be written is dropped.
WriteTimeout ==
  /\ wState = "waitingConfirm"
  /\ \/ Silence /\ rState = "FrameRequested"
     \/ requests = << >> /\ outcome # "reading"
  /\ written' = written + 1
  /\ wState' = IF written' = len THEN "Idle" ELSE "Error"
  /\ UNCHANGED <<doc, wSeq, reader, requests, frames>>

Lose ==
  /\ "loss" \in faults
  /\ \/ requests # << >> /\ requests' = Tail(requests) /\ UNCHANGED frames
     \/ frames # << >> /\ frames' = Tail(frames) /\ UNCHANGED requests
  /\ UNCHANGED <<doc, writer, reader>>

ReaderStep == Request \/ RequestFails \/ Receive \/ ReadTimeout \/ GiveUp \/ Parse
WriterStep == Serve \/ WriteFrame \/ SendFails \/ Confirm \/ WriteTimeout

Next == ReaderStep \/ WriterStep \/ Retry \/ Lose

Spec == Init /\ [][Next]_vars

\* Both loops go on; a transfer need not be begun again.
FairSpec == Spec /\ WF_vars(ReaderStep) /\ WF_vars(WriterStep)

-----------------------------------------------------------------------------
(***************************************************************************)
(* Properties                                                              *)
(***************************************************************************)

\* The configuration is transferred reliably: the client parses the server's
\* document from its first to its last byte, or knows that it has failed.
Reliable == SafeStream!StreamSpec

\* The same as far as the code keeps it: in a network that loses nothing, with a
\* reader that asks within a second, however late the writer is and whatever
\* requests it gets twice.  Otherwise, only that a result is final, that success
\* comes with a whole object, be it another one, and that a retry begins with an
\* empty text.
StreamKept == Stream!StreamSpec

\* In a working network every configuration arrives, whatever its length is
\* beside that of a frame.
Delivered == faults = {} => <>(outcome = "done" /\ got = Stream!doc(len))

\* However frames are lost, the client comes to a result, and the server, which
\* does nothing else while it sends, is free again.
TransferEnds == <>[](outcome # "reading" /\ wState = "Idle")
=============================================================================
