------------------------------ MODULE Session -------------------------------
(***************************************************************************)
(* One client connection in the hands of a TCP worker: serve_tcp in        *)
(* src/src/server.rs over the framing loops of src/src/transport.rs, with  *)
(* short reads and writes, half-closed and reset connections, deadlines    *)
(* and cancellation.                                                       *)
(*                                                                         *)
(* A step of a framing loop is its check of the deadline together with the *)
(* socket call behind it: what happens between the two cannot be told from *)
(* what happens after them.  IO_POLL is shorter than a tick, so a polled   *)
(* call comes back to its check within the tick.  respond is the contract  *)
(* that RequestHandler is checked against: no reply after the deadline.    *)
(* Lengths are written in two digits of base Base.                         *)
(***************************************************************************)
EXTENDS Integers, Sequences, SequencesExt

CONSTANTS
    Base,            \* 256
    HeaderLength,    \* HEADER_LENGTH
    FrameTimeout,    \* CLIENT_FRAME_TIMEOUT, in ticks
    RequestTimeout,  \* REQUEST_TIMEOUT
    WriteTimeout,    \* CLIENT_WRITE_TIMEOUT
    ReplyLengths,    \* lengths of the replies considered
    MaxBytes         \* bound on the bytes the client sends

(* Every reply has a header and fits a frame, so that the length check of  *)
(* write_frame passes.                                                     *)
ASSUME SessionAssumption ==
    /\ Base \in Nat \ {0, 1} /\ HeaderLength \in Nat \ {0}
    /\ FrameTimeout \in Nat \ {0} /\ RequestTimeout \in Nat \ {0}
    /\ WriteTimeout \in Nat \ {0} /\ MaxBytes \in Nat
    /\ ReplyLengths \subseteq HeaderLength..(Base * Base - 1)

VARIABLES
    stop,     \* the service's stop flag
    pc,       \* where the worker is
    inbox,    \* bytes sent by the client and not read yet
    peer,     \* "open", "closed" (no more bytes follow) or "reset"
    prefix,   \* the length prefix once it is complete, else <<>>
    field,    \* bytes of the field being read
    left,     \* ticks until the deadline in force
    rest,     \* bytes of the reply frame still to be written
    result,   \* Result of serve_tcp
    sent,     \* history: all bytes the client sent
    handled,  \* history: the messages given to respond
    replies,  \* history: the replies it returned, as message number and length
    output,   \* history: the bytes written to the client
    age       \* history: ticks since the session turned to this frame

io == <<inbox, peer, sent>>
reading == <<prefix, field>>
writing == <<rest, replies, output>>
vars == <<stop, pc, io, reading, writing, left, result, handled, age>>

Byte == 0..(Base - 1)
Encoded(n) == <<n \div Base, n % Base>>                     \* u16::to_be_bytes
DecodedSwapped(bytes) == bytes[1] + bytes[2] * Base
Decoded(bytes) == bytes[1] * Base + bytes[2]              \* u16::from_be_bytes
(* The bytes of a reply frame, named by message and position. *)
Frame(reply) == [i \in 1..(2 + reply.length) |-> <<reply.to, i>>]

Init ==
    /\ stop = FALSE /\ pc = "start"
    /\ inbox = <<>> /\ peer = "open" /\ sent = <<>>
    /\ prefix = <<>> /\ field = <<>>
    /\ left \in 0..FrameTimeout     \* first_deadline runs since the accept
    /\ rest = <<>> /\ result = "none"
    /\ handled = <<>> /\ replies = <<>> /\ output = <<>>
    /\ age = FrameTimeout - left

Remaining == ~stop /\ left > 0

Fail(e) ==
    /\ pc' = "done" /\ result' = e
    /\ UNCHANGED <<stop, io, reading, writing, left, handled, age>>

(* set_nonblocking and set_nodelay may fail on a connection that is gone. *)
Start ==
    /\ pc = "start"
    /\ \/ /\ pc' = "loop"
          /\ UNCHANGED <<stop, io, reading, writing, left, result, handled, age>>
       \/ peer = "reset" /\ Fail("error")

(* The head of the loop. *)
NextFrame ==
    /\ pc = "loop"
    /\ \/ /\ ~stop /\ pc' = "read"
          /\ UNCHANGED <<stop, io, reading, writing, left, result, handled, age>>
       \/ stop /\ Fail("ok")

Need == IF prefix = <<>> THEN 2 ELSE Decoded(prefix)

(* stream.read returns some of the bytes that are there, at most the field. *)
ReadSome(n) ==
    /\ pc = "read" /\ Remaining /\ Len(field) < Need
    /\ n \in 1..Len(inbox) /\ Len(field) + n <= Need
    /\ field' = field \o SubSeq(inbox, 1, n) /\ inbox' = SubSeq(inbox, n + 1, Len(inbox))
    /\ UNCHANGED <<stop, pc, peer, sent, prefix, writing, left, result, handled, age>>

(* EOF is clean only where a frame would begin. *)
ReadEof ==
    /\ pc = "read" /\ Remaining /\ Len(field) < Need
    /\ inbox = <<>> /\ peer = "closed"
    /\ Fail(IF prefix = <<>> /\ field = <<>> THEN "ok" ELSE "error")

ReadFailsTransient ==
    /\ pc = "read"
    /\ \/ ~stop /\ left = 0 /\ UNCHANGED vars
       \/ stop /\ Fail("cancelled")
       \/ Remaining /\ Len(field) < Need /\ peer = "reset" /\ Fail("error")
(* The deadline is over, the service stops, or the socket fails.  Time-outs *)
(* of the socket itself are transient: the loop comes back to its check.    *)
ReadFails ==
    /\ pc = "read"
    /\ \/ ~Remaining /\ Fail(IF stop THEN "cancelled" ELSE "timeout")
       \/ Remaining /\ Len(field) < Need /\ peer = "reset" /\ Fail("error")

(* The prefix is complete; the body is read under the same deadline. *)
PrefixRead ==
    /\ pc = "read" /\ prefix = <<>> /\ Len(field) = 2 /\ Remaining
    /\ \/ /\ Decoded(field) >= HeaderLength
          /\ prefix' = field /\ field' = <<>>
          /\ UNCHANGED <<stop, pc, io, writing, left, result, handled, age>>
       \/ Decoded(field) < HeaderLength /\ Fail("error")

(* The message is complete and goes to respond with a budget of its own. *)
BodyRead ==
    /\ pc = "read" /\ prefix # <<>> /\ Len(field) = Need /\ Remaining
    /\ handled' = Append(handled, field) /\ left' = RequestTimeout /\ pc' = "respond"
    /\ prefix' = <<>> /\ field' = <<>>
    /\ UNCHANGED <<stop, io, writing, result, age>>

UncappedWrite == WriteTimeout
(* request_deadline.capped(CLIENT_WRITE_TIMEOUT) *)
WriteLeft == IF left < WriteTimeout THEN left ELSE WriteTimeout

Reply(length) ==
    LET reply == [to |-> Len(handled), length |-> length]
    IN /\ pc = "respond" /\ Remaining
       /\ replies' = Append(replies, reply) /\ rest' = Frame(reply)
       /\ left' = WriteLeft /\ pc' = "write"
       /\ UNCHANGED <<stop, io, reading, output, result, handled, age>>

(* A complete exchange starts the budget of the next frame. *)
ExchangeEnds ==
    /\ pc' = "loop" /\ left' = FrameTimeout /\ age' = 0
    /\ UNCHANGED <<stop, io, reading, writing, result, handled>>

NoReply == pc = "respond" /\ ExchangeEnds

WriteSome(n) ==
    /\ pc = "write" /\ Remaining /\ n \in 1..Len(rest)
    /\ output' = output \o SubSeq(rest, 1, n)
    /\ rest' = SubSeq(rest, n + 1, Len(rest))
    /\ UNCHANGED <<stop, pc, io, reading, replies, left, result, handled, age>>

Written == pc = "write" /\ rest = <<>> /\ Remaining /\ ExchangeEnds

WriteFailsOnward ==
    /\ pc = "write"
    /\ \/ ~stop /\ left = 0 /\ ExchangeEnds
       \/ stop /\ Fail("cancelled")
       \/ Remaining /\ rest # <<>> /\ peer = "reset" /\ Fail("error")
(* The stream is given up, with part of a frame on it. *)
WriteFails ==
    /\ pc = "write"
    /\ \/ ~Remaining /\ Fail(IF stop THEN "cancelled" ELSE "timeout")
       \/ Remaining /\ rest # <<>> /\ peer = "reset" /\ Fail("error")

(* The client sends a byte, shuts its side down or resets the connection. *)
Send(b) ==
    /\ pc # "done" /\ peer = "open" /\ Len(sent) < MaxBytes
    /\ inbox' = Append(inbox, b) /\ sent' = Append(sent, b)
    /\ UNCHANGED <<stop, pc, peer, reading, writing, left, result, handled, age>>

Close(how) ==
    /\ pc # "done" /\ peer # "reset" /\ peer # how /\ peer' = how
    /\ UNCHANGED <<stop, pc, inbox, sent, reading, writing, left, result, handled, age>>

RequestStop ==
    /\ ~stop /\ pc # "done" /\ stop' = TRUE
    /\ UNCHANGED <<pc, io, reading, writing, left, result, handled, age>>

(* respond works up to its deadline, cancelled or not (Forwarder's          *)
(* DeadlineKept and CancelledInTime).                                       *)
Tick ==
    /\ left > 0
    /\ pc = "respond" \/ (pc \in {"read", "write"} /\ ~stop)
    /\ left' = left - 1 /\ age' = age + 1
    /\ UNCHANGED <<stop, pc, io, reading, writing, result, handled>>

Done == pc = "done" /\ UNCHANGED vars

Serve ==
    \/ Start \/ NextFrame
    \/ \E n \in 1..MaxBytes : ReadSome(n)
    \/ ReadEof \/ ReadFails \/ PrefixRead \/ BodyRead
    \/ \E length \in ReplyLengths : Reply(length)
    \/ NoReply
    \/ \E n \in 1..Len(rest) : WriteSome(n)
    \/ Written \/ WriteFails

Client == (\E b \in Byte : Send(b)) \/ Close("closed") \/ Close("reset")

Next == Serve \/ Client \/ RequestStop \/ Tick \/ Done

(* The worker thread runs and the clock advances; respond returns because   *)
(* Forwarder's ForwardReturns says so.  Nothing is assumed of the client.   *)
Fairness == WF_vars(Serve) /\ WF_vars(Tick)

Spec == Init /\ [][Next]_vars /\ Fairness

-----------------------------------------------------------------------------
(* What the client sent is, in order and without a byte lost or used twice, *)
(* the frames of the messages handled, the part of a frame that read_frame  *)
(* is at, and what waits in the socket; and serve_tcp ends with Ok before   *)
(* stop only when nothing but handled frames was sent.                      *)
FramesInOrder ==
    /\ sent = FlattenSeq([i \in DOMAIN handled |-> Encoded(Len(handled[i])) \o handled[i]])
                \o prefix \o field \o inbox
    /\ result = "ok" /\ ~stop => prefix = <<>> /\ field = <<>> /\ inbox = <<>>

(* The client receives whole reply frames, each once and in the order of    *)
(* the requests; only the last can be cut short, and nothing follows it: a  *)
(* failed write_frame ends the session.                                     *)
RepliesWhole ==
    LET frames == FlattenSeq([i \in DOMAIN replies |-> Frame(replies[i])])
    IN /\ frames = output \o rest
       /\ \A i, j \in DOMAIN replies : i < j => replies[i].to < replies[j].to
       /\ rest # <<>> => pc = "write" \/ (pc = "done" /\ result # "ok")

(* However the client spreads its bytes, a frame occupies the worker for at *)
(* most one frame budget and one request budget, writing included, and the  *)
(* time the connection spent in the queue counts.                           *)
ExchangeBounded == age < FrameTimeout + RequestTimeout

(* A worker gets rid of every client that stops sending, however silent,    *)
(* slow or unwilling to read it is, and of every client after stop.         *)
ReleasesWorker == <>(pc = "done")
=============================================================================
