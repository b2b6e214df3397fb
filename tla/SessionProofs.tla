--------------------------- MODULE SessionProofs ----------------------------
(***************************************************************************)
(* Proofs about Session for every frame size, budget and client: no byte   *)
(* of the client is lost, used twice or moved between frames; the client   *)
(* receives whole reply frames in order; and an exchange is bounded.       *)
(***************************************************************************)
EXTENDS Session, SequenceFacts

Places == {"start", "loop", "read", "respond", "write", "done"}
ReplyRecord == [to : Nat, length : Nat]
Cell == Nat \X Nat    \* a byte of a reply frame

(* The values serve_tcp and its framing loops hold. *)
TypeOK ==
    /\ stop \in BOOLEAN /\ pc \in Places /\ peer \in {"open", "closed", "reset"}
    /\ inbox \in Seq(Byte) /\ sent \in Seq(Byte)
    /\ field \in Seq(Byte) /\ prefix \in Seq(Byte)
    /\ prefix # <<>> => Len(prefix) = 2
    /\ left \in Nat /\ age \in Nat
    /\ handled \in Seq(Seq(Byte)) /\ replies \in Seq(ReplyRecord)
    /\ rest \in Seq(Cell) /\ output \in Seq(Cell)
    /\ result \in {"none", "ok", "error", "timeout", "cancelled"}

(* What was spent on the frame and what is left of its budgets: respond     *)
(* starts with a budget of its own, but only before the first has run out.  *)
Budgets ==
    /\ pc \in {"start", "loop", "read"} => age + left <= FrameTimeout
    /\ pc \in {"respond", "write"} => age + left < FrameTimeout + RequestTimeout
    /\ age < FrameTimeout + RequestTimeout

(* A session has a result when it is over. *)
Over == result # "none" => pc = "done"

(* A reply is only begun when the one before is written, and every reply    *)
(* answers a message that was handled and not answered before.              *)
Answering ==
    /\ pc \in {"start", "loop", "read", "respond"} => rest = <<>>
    /\ \A i \in DOMAIN replies : replies[i].to <= Len(handled)
    /\ pc = "respond" => \A i \in DOMAIN replies : replies[i].to < Len(handled)

Inv == TypeOK /\ Budgets /\ Over /\ Answering /\ FramesInOrder /\ RepliesWhole

-----------------------------------------------------------------------------
(* The bytes of frames *)

FramesOf(messages) == FlattenSeq([i \in DOMAIN messages |-> Encoded(Len(messages[i])) \o messages[i]])
CellsOf(answers) == FlattenSeq([i \in DOMAIN answers |-> Frame(answers[i])])

(* Quotient and remainder are unique: what u16::to_be_bytes rests on.       *)
LEMMA Digits ==
    ASSUME NEW B \in Nat \ {0}, NEW a \in 0..(B - 1), NEW b \in 0..(B - 1)
    PROVE  (a * B + b) \div B = a /\ (a * B + b) % B = b
<1> DEFINE x == a * B + b
           q == x \div B
           r == x % B
<1>1. x \in Nat
  <2>1. a \in Nat /\ b \in Nat
    OBVIOUS
  <2>2. a * B \in Nat
    BY <2>1
  <2> QED
    BY <2>1, <2>2
<1>2. q \in Int /\ r \in 0..(B - 1) /\ x = B * q + r
  <2> HIDE DEF x
  <2> QED
    BY <1>1
<1>3. ASSUME NEW u \in Int, NEW v \in Int, v <= u - 1 PROVE v * B <= u * B - B
  <2>1. (u - v - 1) * B >= 0
    BY <1>3
  <2> QED
    BY <2>1
<1> HIDE DEF q, r
<1>4. ~ (q <= a - 1) /\ ~ (a <= q - 1)
  BY <1>2, <1>3
<1>5. q = a
  BY <1>2, <1>4
<1>6. r = b
  <2>1. a * B \in Int /\ B * a = a * B
    OBVIOUS
  <2> QED
    BY <1>2, <1>5, <2>1
<1> QED
  BY <1>5, <1>6 DEF q, r

(* from_be_bytes and to_be_bytes are inverse on a length prefix.            *)
LEMMA PrefixRoundTrip ==
    ASSUME NEW bytes \in Seq(Byte), Len(bytes) = 2
    PROVE  Decoded(bytes) \in Nat /\ Encoded(Decoded(bytes)) = bytes
<1>1. bytes[1] \in 0..(Base - 1) /\ bytes[2] \in 0..(Base - 1)
  <2>1. 1 \in 1..Len(bytes) /\ 2 \in 1..Len(bytes)
    OBVIOUS
  <2> QED
    BY <2>1, ElementOfSeq DEF Byte
<1>2. Encoded(Decoded(bytes)) = <<bytes[1], bytes[2]>>
  BY <1>1, Digits, SessionAssumption DEF Encoded, Decoded
<1>3. Decoded(bytes) \in Nat
  BY <1>1, SessionAssumption DEF Decoded
<1> QED
  BY <1>2, <1>3

(* A length prefix consists of numbers.                                     *)
LEMMA EncodedType ==
    ASSUME NEW n \in Nat
    PROVE  Encoded(n) \in Seq(Nat)
<1>1. n \div Base \in Nat /\ n % Base \in Nat
  BY SessionAssumption
<1> QED
  BY <1>1 DEF Encoded

(* A message more is a frame more.                                          *)
LEMMA FramesGrow ==
    ASSUME NEW messages \in Seq(Seq(Nat)), NEW message \in Seq(Nat)
    PROVE  /\ FramesOf(messages) \in Seq(Nat)
           /\ FramesOf(Append(messages, message))
                = FramesOf(messages) \o (Encoded(Len(message)) \o message)
<1> DEFINE F(m) == Encoded(Len(m)) \o m
           frames == [i \in DOMAIN messages |-> F(messages[i])]
<1>1. \A m \in Seq(Nat) : F(m) \in Seq(Nat)
  BY EncodedType
<1>2. frames \in Seq(Seq(Nat))
  <2> HIDE DEF F
  <2>1. DOMAIN messages = 1..Len(messages) /\ Len(messages) \in Nat
    OBVIOUS
  <2>2. \A i \in 1..Len(messages) : F(messages[i]) \in Seq(Nat)
    BY <1>1
  <2> QED
    BY <2>1, <2>2, IsASeq
<1>3. [i \in DOMAIN Append(messages, message) |-> F(Append(messages, message)[i])]
        = Append(frames, F(message))
  <2> HIDE DEF F
  <2> QED
    OBVIOUS
<1>4. F(message) \in Seq(Nat)
  BY <1>1
<1> HIDE DEF frames
<1>5. FlattenSeq(Append(frames, F(message))) = FlattenSeq(frames) \o F(message)
  BY <1>2, <1>4, FlattenAppend
<1>6. FlattenSeq(frames) \in Seq(Nat)
  BY <1>2, FlattenType
<1> QED
  BY <1>3, <1>5, <1>6 DEF FramesOf, frames

(* A reply frame is a sequence of cells.                                    *)
LEMMA FrameType ==
    ASSUME NEW answer \in ReplyRecord
    PROVE  Frame(answer) \in Seq(Cell)
<1>1. answer.to \in Nat /\ answer.length \in Nat
  BY DEF ReplyRecord
<1>2. \A i \in 1..(2 + answer.length) : <<answer.to, i>> \in Cell
  BY <1>1 DEF Cell
<1> QED
  BY <1>1, <1>2, IsASeq DEF Frame

(* A reply more is a frame more.                                            *)
LEMMA CellsGrow ==
    ASSUME NEW answers \in Seq(ReplyRecord), NEW answer \in ReplyRecord
    PROVE  /\ CellsOf(answers) \in Seq(Cell)
           /\ CellsOf(Append(answers, answer)) = CellsOf(answers) \o Frame(answer)
<1> DEFINE frames == [i \in DOMAIN answers |-> Frame(answers[i])]
<1>1. frames \in Seq(Seq(Cell))
  <2>1. DOMAIN answers = 1..Len(answers) /\ Len(answers) \in Nat
    OBVIOUS
  <2>2. \A i \in 1..Len(answers) : Frame(answers[i]) \in Seq(Cell)
    BY FrameType
  <2> QED
    BY <2>1, <2>2, IsASeq
<1>2. [i \in DOMAIN Append(answers, answer) |-> Frame(Append(answers, answer)[i])]
        = Append(frames, Frame(answer))
  OBVIOUS
<1>3. Frame(answer) \in Seq(Cell)
  BY FrameType
<1> HIDE DEF frames
<1>4. FlattenSeq(Append(frames, Frame(answer))) = FlattenSeq(frames) \o Frame(answer)
  BY <1>1, <1>3, FlattenAppend
<1>5. FlattenSeq(frames) \in Seq(Cell)
  BY <1>1, FlattenType
<1> QED
  BY <1>2, <1>4, <1>5 DEF CellsOf, frames

-----------------------------------------------------------------------------
(* The invariant is kept *)

(* Every step of serve_tcp, of its client and of the clock keeps the types. *)
LEMMA TypeStep ==
    ASSUME Inv, [Next]_vars PROVE TypeOK'
<1> USE SessionAssumption DEF Inv, TypeOK, Places
<1>1. CASE Start
  BY <1>1 DEF Start, Fail, io, reading, writing
<1>2. CASE NextFrame
  BY <1>2 DEF NextFrame, Fail, io, reading, writing
<1>3. ASSUME NEW n \in 1..MaxBytes, ReadSome(n) PROVE TypeOK'
  <2>1. n \in 1..Len(inbox)
    BY <1>3 DEF ReadSome
  <2>2. field' \in Seq(Byte) /\ inbox' \in Seq(Byte)
    BY <1>3, <2>1, MoveBytes DEF ReadSome
  <2> QED
    BY <1>3, <2>2 DEF ReadSome, io, writing
<1>4. CASE ReadEof
  BY <1>4 DEF ReadEof, Fail, Remaining, io, reading, writing
<1>5. CASE ReadFails
  BY <1>5 DEF ReadFails, Fail, Remaining, io, reading, writing
<1>6. CASE PrefixRead
  BY <1>6 DEF PrefixRead, Fail, Remaining, io, reading, writing
<1>7. CASE BodyRead
  BY <1>7 DEF BodyRead, Remaining, Need, io, reading, writing
<1>8. ASSUME NEW length \in ReplyLengths, Reply(length) PROVE TypeOK'
  <2> DEFINE reply == [to |-> Len(handled), length |-> length]
  <2>1. reply \in ReplyRecord
    BY DEF ReplyRecord
  <2>2. replies' = Append(replies, reply) /\ rest' = Frame(reply)
    BY <1>8 DEF Reply
  <2> HIDE DEF reply
  <2>3. replies' \in Seq(ReplyRecord) /\ rest' \in Seq(Cell)
    BY <2>1, <2>2, FrameType
  <2>4. left' \in Nat
    BY <1>8 DEF Reply, WriteLeft
  <2> QED
    BY <1>8, <2>3, <2>4 DEF Reply, io, reading
<1>9. CASE NoReply
  BY <1>9 DEF NoReply, ExchangeEnds, io, reading, writing
<1>10. ASSUME NEW n \in 1..Len(rest), WriteSome(n) PROVE TypeOK'
  <2>1. output' \in Seq(Cell) /\ rest' \in Seq(Cell)
    BY <1>10, MoveBytes DEF WriteSome
  <2> QED
    BY <1>10, <2>1 DEF WriteSome, io, reading
<1>11. CASE Written
  BY <1>11 DEF Written, ExchangeEnds, Remaining, io, reading, writing
<1>12. CASE WriteFails
  BY <1>12 DEF WriteFails, Fail, Remaining, io, reading, writing
<1>13. ASSUME NEW b \in Byte, Send(b) PROVE TypeOK'
  BY <1>13 DEF Send, io, reading, writing
<1>14. ASSUME NEW how \in {"closed", "reset"}, Close(how) PROVE TypeOK'
  BY <1>14 DEF Close, io, reading, writing
<1>15. CASE RequestStop
  BY <1>15 DEF RequestStop, io, reading, writing
<1>16. CASE Tick
  BY <1>16 DEF Tick, io, reading, writing
<1>17. CASE UNCHANGED vars
  BY <1>17 DEF vars, io, reading, writing
<1> QED
  BY <1>1, <1>2, <1>3, <1>4, <1>5, <1>6, <1>7, <1>8, <1>9,
     <1>10, <1>11, <1>12, <1>13, <1>14, <1>15, <1>16, <1>17 DEF Next, Serve, Client, Done

(* A tick moves a unit from what is left to what was spent; a new budget is  *)
(* given only at the start of a frame or before the old one has run out.     *)
LEMMA BudgetsStep ==
    ASSUME Inv, [Next]_vars PROVE Budgets'
<1> USE SessionAssumption DEF Inv, TypeOK, Places, Budgets
<1>1. CASE Start
  BY <1>1 DEF Start, Fail, io, reading, writing
<1>2. CASE NextFrame
  BY <1>2 DEF NextFrame, Fail, io, reading, writing
<1>3. ASSUME NEW n \in 1..MaxBytes, ReadSome(n) PROVE Budgets'
  BY <1>3 DEF ReadSome, Remaining, Need, io, reading, writing
<1>4. CASE ReadEof
  BY <1>4 DEF ReadEof, Fail, Remaining, io, reading, writing
<1>5. CASE ReadFails
  BY <1>5 DEF ReadFails, Fail, Remaining, io, reading, writing
<1>6. CASE PrefixRead
  BY <1>6 DEF PrefixRead, Fail, Remaining, io, reading, writing
<1>7. CASE BodyRead
  BY <1>7 DEF BodyRead, Remaining, Need, io, reading, writing
<1>8. ASSUME NEW length \in ReplyLengths, Reply(length) PROVE Budgets'
  BY <1>8 DEF Reply, Remaining, WriteLeft, io, reading, writing
<1>9. CASE NoReply
  BY <1>9 DEF NoReply, ExchangeEnds, io, reading, writing
<1>10. ASSUME NEW n \in 1..Len(rest), WriteSome(n) PROVE Budgets'
  BY <1>10 DEF WriteSome, Remaining, io, reading, writing
<1>11. CASE Written
  BY <1>11 DEF Written, ExchangeEnds, Remaining, io, reading, writing
<1>12. CASE WriteFails
  BY <1>12 DEF WriteFails, Fail, Remaining, io, reading, writing
<1>13. ASSUME NEW b \in Byte, Send(b) PROVE Budgets'
  BY <1>13 DEF Send, io, reading, writing
<1>14. ASSUME NEW how \in {"closed", "reset"}, Close(how) PROVE Budgets'
  BY <1>14 DEF Close, io, reading, writing
<1>15. CASE RequestStop
  BY <1>15 DEF RequestStop, io, reading, writing
<1>16. CASE Tick
  BY <1>16 DEF Tick, io, reading, writing
<1>17. CASE UNCHANGED vars
  BY <1>17 DEF vars, io, reading, writing
<1> QED
  BY <1>1, <1>2, <1>3, <1>4, <1>5, <1>6, <1>7, <1>8, <1>9,
     <1>10, <1>11, <1>12, <1>13, <1>14, <1>15, <1>16, <1>17 DEF Next, Serve, Client, Done

(* Replies are begun one at a time, each for a later message.               *)
LEMMA AnsweringStep ==
    ASSUME Inv, [Next]_vars PROVE (Over /\ Answering)'
<1> USE SessionAssumption DEF Inv, TypeOK, Places, Over, Answering
<1>1. CASE Start
  BY <1>1 DEF Start, Fail, io, reading, writing
<1>2. CASE NextFrame
  BY <1>2 DEF NextFrame, Fail, io, reading, writing
<1>3. ASSUME NEW n \in 1..MaxBytes, ReadSome(n) PROVE (Over /\ Answering)'
  BY <1>3 DEF ReadSome, Remaining, Need, io, reading, writing
<1>4. CASE ReadEof
  BY <1>4 DEF ReadEof, Fail, Remaining, io, reading, writing
<1>5. CASE ReadFails
  BY <1>5 DEF ReadFails, Fail, Remaining, io, reading, writing
<1>6. CASE PrefixRead
  BY <1>6 DEF PrefixRead, Fail, Remaining, io, reading, writing
<1>7. CASE BodyRead
  <2>1. Len(handled') = Len(handled) + 1 /\ Len(handled) \in Nat
    BY <1>7 DEF BodyRead
  <2>2. replies' = replies /\ rest' = rest /\ pc' = "respond" /\ pc = "read" /\ result' = result
    BY <1>7 DEF BodyRead, writing
  <2>3. \A i \in DOMAIN replies : replies[i].to \in Nat
    <3>1. \A i \in DOMAIN replies : replies[i] \in ReplyRecord
      OBVIOUS
    <3> QED
      BY <3>1 DEF ReplyRecord
  <2> QED
    BY <2>1, <2>2, <2>3
<1>8. ASSUME NEW length \in ReplyLengths, Reply(length) PROVE (Over /\ Answering)'
  <2> DEFINE reply == [to |-> Len(handled), length |-> length]
  <2>1. /\ replies' = Append(replies, reply) /\ reply.to = Len(handled)
        /\ Len(handled) \in Nat /\ reply \in ReplyRecord
    BY <1>8 DEF Reply, ReplyRecord
  <2>2. pc' = "write" /\ pc = "respond" /\ handled' = handled /\ result' = result
    BY <1>8 DEF Reply
  <2> HIDE DEF reply
  <2>3. ASSUME NEW i \in DOMAIN replies' PROVE replies'[i].to <= Len(handled)
    <3>1. CASE i \in 1..Len(replies)
      <4>1. replies'[i] = replies[i] /\ i \in DOMAIN replies
        BY <2>1, <3>1
      <4> QED
        BY <4>1
    <3>2. CASE i = Len(replies) + 1
      BY <2>1, <3>2
    <3>3. DOMAIN replies' = 1..(Len(replies) + 1) /\ Len(replies) \in Nat
      BY <2>1
    <3> QED
      BY <3>1, <3>2, <3>3
  <2> QED
    BY <2>2, <2>3
<1>9. CASE NoReply
  BY <1>9 DEF NoReply, ExchangeEnds, io, reading, writing
<1>10. ASSUME NEW n \in 1..Len(rest), WriteSome(n) PROVE (Over /\ Answering)'
  BY <1>10 DEF WriteSome, Remaining, io, reading, writing
<1>11. CASE Written
  BY <1>11 DEF Written, ExchangeEnds, Remaining, io, reading, writing
<1>12. CASE WriteFails
  BY <1>12 DEF WriteFails, Fail, Remaining, io, reading, writing
<1>13. ASSUME NEW b \in Byte, Send(b) PROVE (Over /\ Answering)'
  BY <1>13 DEF Send, io, reading, writing
<1>14. ASSUME NEW how \in {"closed", "reset"}, Close(how) PROVE (Over /\ Answering)'
  BY <1>14 DEF Close, io, reading, writing
<1>15. CASE RequestStop
  BY <1>15 DEF RequestStop, io, reading, writing
<1>16. CASE Tick
  BY <1>16 DEF Tick, io, reading, writing
<1>17. CASE UNCHANGED vars
  BY <1>17 DEF vars, io, reading, writing
<1> QED
  BY <1>1, <1>2, <1>3, <1>4, <1>5, <1>6, <1>7, <1>8, <1>9,
     <1>10, <1>11, <1>12, <1>13, <1>14, <1>15, <1>16, <1>17 DEF Next, Serve, Client, Done

(* Bytes are numbers.                                                       *)
LEMMA BytesAreNumbers ==
    /\ \A s \in Seq(Byte) : s \in Seq(Nat)
    /\ \A s \in Seq(Seq(Byte)) : s \in Seq(Seq(Nat))
<1>1. Byte \subseteq Nat
  BY SessionAssumption DEF Byte
<1>2. \A s \in Seq(Byte) : s \in Seq(Nat)
  BY <1>1, SeqMonotonic
<1>3. Seq(Byte) \subseteq Seq(Nat)
  BY <1>2
<1> QED
  BY <1>2, <1>3, SeqMonotonic

(* read_frame moves bytes from the socket to the field, from the field to   *)
(* the prefix or, with the frame complete, to a message; nothing else       *)
(* touches them, and Ok before stop needs an end between frames.            *)
LEMMA FramesStep ==
    ASSUME Inv, [Next]_vars PROVE FramesInOrder'
<1> DEFINE Bytes == sent = FramesOf(handled) \o prefix \o field \o inbox
           CleanEnd == result = "ok" /\ ~stop => prefix = <<>> /\ field = <<>> /\ inbox = <<>>
<1>1. Bytes /\ CleanEnd
  BY DEF Inv, FramesInOrder, FramesOf
<1>2. SUFFICES Bytes' /\ CleanEnd'
  BY DEF FramesInOrder, FramesOf
<1>3. CleanEnd'
  <2> USE SessionAssumption, <1>1 DEF Inv, TypeOK, Places, Over
  <2>1. CASE Start
    BY <2>1 DEF Start, Fail, io, reading
  <2>2. CASE NextFrame
    BY <2>2 DEF NextFrame, Fail, io, reading
  <2>3. ASSUME NEW n \in 1..MaxBytes, ReadSome(n) PROVE CleanEnd'
    BY <2>3 DEF ReadSome, Remaining, Need, io, reading
  <2>4. CASE ReadEof
    BY <2>4 DEF ReadEof, Fail, Remaining, io, reading
  <2>5. CASE ReadFails
    BY <2>5 DEF ReadFails, Fail, Remaining, io, reading
  <2>6. CASE PrefixRead
    BY <2>6 DEF PrefixRead, Fail, Remaining, io, reading
  <2>7. CASE BodyRead
    BY <2>7 DEF BodyRead, Remaining, Need, io, reading
  <2>8. ASSUME NEW length \in ReplyLengths, Reply(length) PROVE CleanEnd'
    BY <2>8 DEF Reply, Remaining, WriteLeft, io, reading
  <2>9. CASE NoReply
    BY <2>9 DEF NoReply, ExchangeEnds, io, reading
  <2>10. ASSUME NEW n \in 1..Len(rest), WriteSome(n) PROVE CleanEnd'
    BY <2>10 DEF WriteSome, Remaining, io, reading
  <2>11. CASE Written
    BY <2>11 DEF Written, ExchangeEnds, Remaining, io, reading
  <2>12. CASE WriteFails
    BY <2>12 DEF WriteFails, Fail, Remaining, io, reading
  <2>13. ASSUME NEW b \in Byte, Send(b) PROVE CleanEnd'
    BY <2>13 DEF Send, io, reading
  <2>14. ASSUME NEW how \in {"closed", "reset"}, Close(how) PROVE CleanEnd'
    BY <2>14 DEF Close, io, reading
  <2>15. CASE RequestStop
    BY <2>15 DEF RequestStop, io, reading
  <2>16. CASE Tick
    BY <2>16 DEF Tick, io, reading
  <2>17. CASE UNCHANGED vars
    BY <2>17 DEF vars, io, reading
  <2> QED
    BY <2>1, <2>2, <2>3, <2>4, <2>5, <2>6, <2>7, <2>8, <2>9,
       <2>10, <2>11, <2>12, <2>13, <2>14, <2>15, <2>16, <2>17 DEF Next, Serve, Client, Done
<1>4. Bytes'
  <2> DEFINE F == FramesOf(handled)
  <2>1. /\ prefix \in Seq(Nat) /\ field \in Seq(Nat) /\ inbox \in Seq(Nat)
        /\ handled \in Seq(Seq(Nat)) /\ <<>> \in Seq(Nat)
    BY BytesAreNumbers DEF Inv, TypeOK
  <2>2. F \in Seq(Nat)
    BY <2>1, FramesGrow
  <2>3. F \o prefix \in Seq(Nat) /\ (F \o prefix) \o field \in Seq(Nat)
    BY <2>1, <2>2, ConcatProperties
  <2>4. CASE UNCHANGED <<sent, handled, prefix, field, inbox>>
    BY <1>1, <2>4
  <2>5. ASSUME NEW n \in 1..MaxBytes, ReadSome(n) PROVE Bytes'
    <3> DEFINE a == SubSeq(inbox, 1, n)
               b == SubSeq(inbox, n + 1, Len(inbox))
    <3>1. /\ n \in 1..Len(inbox) /\ field' = field \o a /\ inbox' = b
          /\ sent' = sent /\ handled' = handled /\ prefix' = prefix
      BY <2>5 DEF ReadSome
    <3> DEFINE X == F \o prefix
    <3> HIDE DEF X
    <3>2. X \in Seq(Nat)
      BY <2>3 DEF X
    <3>3. (X \o (field \o a)) \o b = (X \o field) \o inbox
      <4>1. field \in Seq(Nat)
        BY <2>1
      <4>2. inbox \in Seq(Nat)
        BY <2>1
      <4>3. n \in 1..Len(inbox)
        BY <3>1
      <4>4. MovedBehind(X, field, inbox, n)
        BY <3>2, <4>1, <4>2, <4>3, MoveBytesBehind
      <4> QED
        BY <4>4 DEF MovedBehind
    <3>4. X = FramesOf(handled') \o prefix' /\ sent = X \o field \o inbox
      BY <1>1, <3>1 DEF X
    <3> HIDE DEF a, b
    <3> QED
      BY <3>1, <3>3, <3>4
  <2>6. CASE PrefixRead
    <3>1. CASE Decoded(field) >= HeaderLength /\ prefix' = field /\ field' = <<>>
      <4>1. /\ prefix = <<>> /\ prefix' = field /\ field' = <<>> /\ inbox' = inbox
            /\ sent' = sent /\ handled' = handled
        BY <2>6, <3>1 DEF PrefixRead, Fail, io, reading
      <4> HIDE DEF F
      <4>2. F \o <<>> = F /\ (F \o field) \o <<>> = F \o field
        BY <2>1, <2>2, ConcatEmptySeq, ConcatProperties
      <4> QED
        BY <1>1, <4>1, <4>2 DEF F
    <3>2. CASE Fail("error")
      BY <2>4, <3>2 DEF Fail, io, reading
    <3> QED
      BY <2>6, <3>1, <3>2 DEF PrefixRead
  <2>7. CASE BodyRead
    <3>1. /\ prefix # <<>> /\ Len(field) = Decoded(prefix) /\ handled' = Append(handled, field)
          /\ prefix' = <<>> /\ field' = <<>> /\ inbox' = inbox /\ sent' = sent
      BY <2>7 DEF BodyRead, Need, io
    <3>2. Encoded(Len(field)) = prefix
      BY <3>1, PrefixRoundTrip DEF Inv, TypeOK
    <3>3. FramesOf(handled') = F \o (prefix \o field)
      BY <2>1, <3>1, <3>2, FramesGrow
    <3> HIDE DEF F
    <3>4. Assoc(F, prefix, field)
      BY <2>1, <2>2, Associative
    <3>5. FramesOf(handled') \o <<>> = FramesOf(handled')
      BY <2>3, <3>3, <3>4, ConcatEmptySeq DEF Assoc
    <3> QED
      BY <1>1, <3>1, <3>3, <3>4, <3>5 DEF F, Assoc
  <2>8. ASSUME NEW b \in Byte, Send(b) PROVE Bytes'
    <3>1. /\ inbox' = Append(inbox, b) /\ sent' = Append(sent, b)
          /\ handled' = handled /\ prefix' = prefix /\ field' = field
      BY <2>8 DEF Send, reading
    <3>2. b \in Nat
      BY SessionAssumption DEF Byte
    <3> DEFINE X == F \o prefix \o field
    <3> HIDE DEF X
    <3>3. X \in Seq(Nat) /\ sent = X \o inbox
      BY <1>1, <2>3 DEF X
    <3>4. \A x, y \in Seq(Nat), e \in Nat : x \o Append(y, e) = Append(x \o y, e)
      BY AppendBehind
    <3>5. sent' = X \o Append(inbox, b)
      BY <2>1, <3>1, <3>2, <3>3, <3>4, Zenon
    <3>6. X = FramesOf(handled') \o prefix' \o field'
      BY <3>1 DEF X
    <3> QED
      BY <3>1, <3>5, <3>6
  <2>9. CASE \/ Start \/ NextFrame \/ ReadEof \/ ReadFails \/ NoReply \/ Written \/ WriteFails
             \/ RequestStop \/ Tick \/ UNCHANGED vars
    BY <2>4, <2>9 DEF Start, NextFrame, ReadEof, ReadFails, NoReply, Written, WriteFails,
       RequestStop, Tick, ExchangeEnds, Fail, vars, io, reading
  <2>10. ASSUME NEW length \in ReplyLengths, Reply(length) PROVE Bytes'
    BY <2>4, <2>10 DEF Reply, io, reading
  <2>11. ASSUME NEW n \in 1..Len(rest), WriteSome(n) PROVE Bytes'
    BY <2>4, <2>11 DEF WriteSome, io, reading
  <2>12. ASSUME NEW how \in {"closed", "reset"}, Close(how) PROVE Bytes'
    BY <2>4, <2>12 DEF Close, reading
  <2> QED
    BY <2>5, <2>6, <2>7, <2>8, <2>9, <2>10, <2>11, <2>12 DEF Next, Serve, Client, Done
<1> QED
  BY <1>3, <1>4

(* write_frame moves the frame of the one reply in hand to the client; no   *)
(* reply begins before the last one is written, and none follows one that   *)
(* was cut short.                                                           *)
LEMMA RepliesStep ==
    ASSUME Inv, [Next]_vars PROVE RepliesWhole'
<1> DEFINE Whole == CellsOf(replies) = output \o rest
           Ordered == \A i, j \in DOMAIN replies : i < j => replies[i].to < replies[j].to
           Cut == rest # <<>> => pc = "write" \/ (pc = "done" /\ result # "ok")
<1>1. Whole /\ Ordered /\ Cut
  BY DEF Inv, RepliesWhole, CellsOf
<1>2. SUFFICES Whole' /\ Ordered' /\ Cut'
  BY DEF RepliesWhole, CellsOf
<1>3. rest \in Seq(Cell) /\ output \in Seq(Cell) /\ replies \in Seq(ReplyRecord)
  BY DEF Inv, TypeOK
<1>4. /\ pc \in {"start", "loop", "read", "respond"} => rest = <<>>
      /\ pc = "respond" => \A i \in DOMAIN replies : replies[i].to < Len(handled)
      /\ result # "none" => pc = "done"
      /\ pc \in Places
  BY DEF Inv, TypeOK, Answering, Over
<1>5. ASSUME UNCHANGED <<replies, output, rest>>, Cut' PROVE Whole' /\ Ordered' /\ Cut'
  BY <1>1, <1>5
<1>6. ASSUME NEW length \in ReplyLengths, Reply(length) PROVE Whole' /\ Ordered' /\ Cut'
  <2> DEFINE reply == [to |-> Len(handled), length |-> length]
  <2>1. /\ reply \in ReplyRecord /\ reply.to = Len(handled) /\ rest = <<>>
        /\ \A i \in DOMAIN replies : replies[i].to < Len(handled)
    BY <1>4, <1>6, SessionAssumption DEF Reply, ReplyRecord, Inv, TypeOK
  <2>2. replies' = Append(replies, reply) /\ rest' = Frame(reply) /\ output' = output /\ pc' = "write"
    BY <1>6 DEF Reply
  <2> HIDE DEF reply
  <2>3. Whole'
    <3>1. CellsOf(replies') = CellsOf(replies) \o Frame(reply)
      BY <1>3, <2>1, <2>2, CellsGrow
    <3>2. output \o <<>> = output
      BY <1>3, ConcatEmptySeq
    <3> QED
      BY <1>1, <2>1, <2>2, <3>1, <3>2
  <2>4. Ordered'
    <3>1. /\ DOMAIN replies = 1..Len(replies) /\ Len(replies) \in Nat
          /\ DOMAIN replies' = 1..(Len(replies) + 1)
          /\ \A i \in DOMAIN replies : replies'[i] = replies[i]
          /\ replies'[Len(replies) + 1] = reply
      BY <1>3, <2>1, <2>2
    <3>2. ASSUME NEW i \in DOMAIN replies', NEW j \in DOMAIN replies', i < j
          PROVE  replies'[i].to < replies'[j].to
      <4>1. i \in DOMAIN replies
        BY <3>1, <3>2
      <4>2. CASE j \in DOMAIN replies
        BY <1>1, <3>1, <3>2, <4>1, <4>2
      <4>3. CASE j = Len(replies) + 1
        BY <2>1, <3>1, <4>1, <4>3
      <4> QED
        BY <3>1, <4>2, <4>3
    <3> QED
      BY <3>2
  <2> QED
    BY <2>2, <2>3, <2>4
<1>7. ASSUME NEW n \in 1..Len(rest), WriteSome(n) PROVE Whole' /\ Ordered' /\ Cut'
  <2>1. /\ output' = output \o SubSeq(rest, 1, n) /\ rest' = SubSeq(rest, n + 1, Len(rest))
        /\ replies' = replies /\ pc = "write" /\ pc' = pc
    BY <1>7 DEF WriteSome
  <2>2. output' \o rest' = output \o rest
    BY <1>3, <2>1, MoveBytes
  <2> QED
    BY <1>1, <2>1, <2>2
<1>8. CASE \/ Start \/ NextFrame \/ ReadEof \/ ReadFails \/ PrefixRead \/ BodyRead \/ NoReply
           \/ Written \/ WriteFails \/ RequestStop \/ Tick \/ UNCHANGED vars
  <2>1. UNCHANGED <<replies, output, rest>>
    BY <1>8 DEF Start, NextFrame, ReadEof, ReadFails, PrefixRead, BodyRead, NoReply, Written,
       WriteFails, RequestStop, Tick, ExchangeEnds, Fail, vars, writing
  <2>2. Cut'
    BY <1>1, <1>4, <1>8, <2>1 DEF Places, Start, NextFrame, ReadEof, ReadFails, PrefixRead,
       BodyRead, NoReply, Written, WriteFails, RequestStop, Tick, ExchangeEnds, Fail, vars
  <2> QED
    BY <1>5, <2>1, <2>2
<1>9. ASSUME NEW n \in 1..MaxBytes, ReadSome(n) PROVE Whole' /\ Ordered' /\ Cut'
  BY <1>1, <1>5, <1>9 DEF ReadSome, writing
<1>10. ASSUME NEW b \in Byte, Send(b) PROVE Whole' /\ Ordered' /\ Cut'
  BY <1>1, <1>5, <1>10 DEF Send, writing
<1>11. ASSUME NEW how \in {"closed", "reset"}, Close(how) PROVE Whole' /\ Ordered' /\ Cut'
  BY <1>1, <1>5, <1>11 DEF Close, writing
<1> QED
  BY <1>6, <1>7, <1>8, <1>9, <1>10, <1>11 DEF Next, Serve, Client, Done

-----------------------------------------------------------------------------
(* A session starts with a part of its frame budget and with no bytes.      *)
LEMMA InvInit == Init => Inv
<1> SUFFICES ASSUME Init PROVE Inv
  OBVIOUS
<1> USE SessionAssumption DEF Init
<1>1. TypeOK
  <2>1. left \in Nat /\ age \in Nat
    OBVIOUS
  <2>2. /\ <<>> \in Seq(Byte) /\ <<>> \in Seq(Seq(Byte))
        /\ <<>> \in Seq(ReplyRecord) /\ <<>> \in Seq(Cell)
    OBVIOUS
  <2> QED
    BY <2>1, <2>2 DEF TypeOK, Places
<1>2. Budgets /\ Over /\ Answering
  BY DEF Budgets, Over, Answering
<1>3. FramesInOrder
  <2>1. [i \in DOMAIN handled |-> Encoded(Len(handled[i])) \o handled[i]] = <<>>
    OBVIOUS
  <2> QED
    BY <2>1, FlattenEmpty DEF FramesInOrder
<1>4. RepliesWhole
  <2>1. [i \in DOMAIN replies |-> Frame(replies[i])] = <<>>
    OBVIOUS
  <2> QED
    BY <2>1, FlattenEmpty DEF RepliesWhole
<1> QED
  BY <1>1, <1>2, <1>3, <1>4 DEF Inv

(* Every session stays in the invariant.                                    *)
THEOREM SessionInvariant == Spec => []Inv
<1>1. Inv /\ [Next]_vars => Inv'
  BY TypeStep, BudgetsStep, AnsweringStep, FramesStep, RepliesStep DEF Inv
<1> QED
  BY <1>1, InvInit, PTL DEF Spec

(* The variables of serve_tcp keep their types.                             *)
THEOREM SessionTypes == Spec => []TypeOK
<1>1. Inv => TypeOK
  BY DEF Inv
<1> QED
  BY <1>1, SessionInvariant, PTL

(* However reads are cut, read_frame loses no byte, uses none twice and     *)
(* never takes the end of one frame for the start of the next; and Ok       *)
(* without stop means that the client ended between two frames.             *)
THEOREM NoByteLost == Spec => []FramesInOrder
<1>1. Inv => FramesInOrder
  BY DEF Inv
<1> QED
  BY <1>1, SessionInvariant, PTL

(* However writes are cut, the client receives whole reply frames in the    *)
(* order of its requests, but for the last one of a failed session.         *)
THEOREM RepliesInOrder == Spec => []RepliesWhole
<1>1. Inv => RepliesWhole
  BY DEF Inv
<1> QED
  BY <1>1, SessionInvariant, PTL

(* No client holds a worker longer than one frame budget and one request    *)
(* budget per frame.                                                        *)
THEOREM ExchangeIsBounded == Spec => []ExchangeBounded
<1>1. Inv => ExchangeBounded
  BY DEF Inv, Budgets, ExchangeBounded
<1> QED
  BY <1>1, SessionInvariant, PTL
=============================================================================
