--------------------------- MODULE RequestHandler ---------------------------
(***************************************************************************)
(* One request on its way through a worker: RequestHandler::respond in     *)
(* src/src/forwarding.rs, with the parser (src/src/dns/parser.rs) that     *)
(* reads it record by record.  The request is chosen as the code reads it. *)
(*                                                                         *)
(* Reading and deciding take no time and cannot observe stop; ticks pass,  *)
(* and stop is noticed, where the code looks at its deadline.  forward is  *)
(* taken at its contract (Forwarder): it may last to the deadline, returns *)
(* Cancelled only after stop, and its responses passed validate_response.  *)
(***************************************************************************)
EXTENDS Message

CONSTANTS
    RequestTimeout,   \* REQUEST_TIMEOUT, in ticks
    PayloadSizes,     \* UDP payload sizes clients announce
    OptionLists,      \* lists of EDNS options
    ResponseLengths,  \* lengths of upstream responses
    MaxRecords        \* bound on the records of a request

ASSUME HandlerAssumption ==
    /\ RequestTimeout \in Nat \ {0} /\ MaxRecords \in Nat
    /\ PayloadSizes \subseteq Nat /\ ResponseLengths \subseteq Nat

VARIABLES
    stop,       \* the service's stop flag
    forwards,   \* RoutingTable::has_upstreams
    transport,  \* the client's transport
    left,       \* ticks until the request's deadline
    pc,         \* where the worker is
    header,     \* history: "unread", "short", "response" or "query"
    wire,       \* the message while its question is decoded, else <<>>
    packet,     \* what the parser has read so far, then Packet
    section,    \* the section the parser is in
    records,    \* records read
    fault,      \* history: why parsing failed
    response,   \* the upstream's response
    reply       \* what respond returns

request == <<stop, forwards, transport, left>>
parser == <<header, wire, packet, section, records, fault>>
vars == <<pc, request, parser, response, reply>>

Blank == [opcode |-> "Query", questions |-> 0, name |-> {}, kind |-> "Other", class |-> "IN",
          other |-> FALSE, edns |-> {}, cookie |-> {}, authenticated |-> FALSE]

(* A datagram's budget runs since it was received, a frame's since it was   *)
(* complete.                                                                *)
Init ==
    /\ stop = FALSE /\ forwards \in BOOLEAN /\ transport \in {"udp", "tcp"}
    /\ left \in IF transport = "udp" THEN 0..RequestTimeout ELSE {RequestTimeout}
    /\ pc = "begin" /\ header = "unread" /\ wire = <<>> /\ packet = Blank
    /\ section = "Answer" /\ records = 0 /\ fault = "none"
    /\ response = {} /\ reply = {}

Remaining == ~stop /\ left > 0

Silent == pc' = "done" /\ reply' = {}
Answer(r) == pc' = "finish" /\ reply' = {r}
(* local_error_reply and local_a_reply: nothing to a client that expects    *)
(* its server cookie back.                                                  *)
LocalReply(r) == IF HasServerCookie(packet) THEN Silent ELSE Answer(r)

Begin ==
    /\ pc = "begin"
    /\ \/ ~Remaining /\ Silent /\ UNCHANGED header
       \/ Remaining /\ transport = "udp" /\ header' = "short" /\ Silent
       \/ Remaining /\ header' = "response" /\ Silent
       \/ Remaining /\ header' = "query" /\ pc' = "counts" /\ UNCHANGED reply
    /\ UNCHANGED <<request, wire, packet, section, records, fault, response>>

FormatReplyKept(e) == FormatReply(packet.name, packet.edns)
(* Only a failure over OPT may use the question and OPT read so far. *)
FormatReplyAfter(e) ==
    IF e = "InvalidEdns" THEN FormatReply(packet.name, packet.edns) ELSE FormatReply({}, {})

(* The parser is left: what it counted is forgotten. *)
ParserDone == wire' = <<>> /\ section' = "Answer" /\ records' = 0

ParseFails(e) ==
    /\ fault' = e /\ ParserDone /\ Answer(FormatReplyAfter(e))
    /\ UNCHANGED <<request, header, packet, response>>

(* The counts of the header, and whether so much fits in the message. *)
ReadCounts(opcode, questions) ==
    /\ pc = "counts"
    /\ \/ ParseFails("InvalidCount")
       \/ /\ ~(questions > 1 /\ opcode = "Query")
          /\ packet' = [packet EXCEPT !.opcode = opcode, !.questions = questions]
          /\ pc' = IF questions = 0 THEN "records" ELSE "question"
          /\ wire' \in IF questions = 0 THEN {<<>>} ELSE Wires
          /\ UNCHANGED <<request, header, section, records, fault, response, reply>>

(* The first question; type and class may be missing behind its name, and a *)
(* second one, if any, may be malformed.                                    *)
ReadQuestion ==
    LET name == Decode(wire, HeaderLength)
    IN /\ pc = "question"
       /\ \/ name.error # "none" /\ ParseFails(name.error)
          \/ ParseFails("UnexpectedEnd")
          \/ /\ name.error = "none"
             /\ packet' = [packet EXCEPT !.name = {name.expanded}]
             /\ wire' = <<>> /\ pc' = "records"
             /\ UNCHANGED <<request, header, section, records, fault, response, reply>>

(* The next section that has records. *)
NextSection ==
    /\ pc = "records"
    /\ section' = CASE section = "Answer" -> "Authority" [] OTHER -> "Additional"
    /\ section # "Additional"
    /\ UNCHANGED <<pc, request, header, wire, packet, records, fault, response, reply>>

RecordFollows == pc = "records" /\ records < MaxRecords

(* An envelope that ends early, an owner that does not decode. *)
BadEnvelope == RecordFollows /\ ParseFails("UnexpectedEnd")

(* OPT is refused outside the additional section, twice, or with an owner   *)
(* other than the root.                                                     *)
MisplacedOpt == RecordFollows /\ ParseFails("InvalidEdns")

(* The fields of OPT are kept before its options are checked. *)
ReadOpt(opt) ==
    LET read == [packet EXCEPT !.edns = {opt}]
    IN /\ RecordFollows /\ section = "Additional" /\ packet.edns = {}
       /\ \/ /\ \E options \in OptionLists : packet' = [read EXCEPT !.cookie = Locate(options)]
             /\ records' = records + 1
             /\ UNCHANGED <<pc, wire, section, fault, reply>>
          \/ /\ packet' = read /\ fault' = "InvalidEdns" /\ ParserDone
             /\ Answer(FormatReply(read.name, read.edns))
       /\ UNCHANGED <<request, header, response>>

(* Any other record: its data are missing, contradict its type, or are fine. *)
(* TSIG and TKEY anywhere, and SIG in the additional section, authenticate.  *)
ReadRecord(kind) ==
    /\ RecordFollows
    /\ \/ /\ packet' = [packet EXCEPT
                          !.other = @ \/ section # "Additional",
                          !.authenticated = \/ @ \/ kind = "Tsig"
                                            \/ (kind = "Sig" /\ section = "Additional")]
          /\ records' = records + 1
          /\ UNCHANGED <<pc, request, header, wire, section, fault, response, reply>>
       \/ ParseFails("InvalidRecord")

(* The end of the records: trailing bytes, or a packet. *)
ParseEnds ==
    /\ pc = "records"
    /\ \/ ParseFails("TrailingData")
       \/ /\ ParserDone /\ pc' = "validate"
          /\ UNCHANGED <<request, header, packet, fault, response, reply>>

(* The type and class of the question and the other fields of the header    *)
(* are chosen here, where they are first looked at.                         *)
Validate(kind, class, tc, rcode) ==
    LET p == [packet EXCEPT !.kind = kind, !.class = class]
        rejected == ValidateQuery(p, tc, rcode)
    IN /\ pc = "validate" /\ packet' = p
       /\ \/ rejected = {} /\ pc' = "select" /\ UNCHANGED reply
          \/ \E code \in rejected : LocalReply(ErrorReply(p, code))
       /\ UNCHANGED <<request, header, wire, section, records, fault, response>>

(* RoutingTable::select, checked in Routing: a local record, no match, or a *)
(* group when there are any.                                                *)
Select ==
    /\ pc = "select"
    /\ \/ LocalReply(LocalAReply(packet))
       \/ LocalReply(ErrorReply(packet, NameError))
       \/ forwards /\ pc' = "forward" /\ UNCHANGED reply
    /\ UNCHANGED <<request, parser, response>>

Responses == {r \in [code : {NoError, BadVersion, BadCookie}, edns : BOOLEAN,
                     cookie : {{}, {LongestCookie}}, length : ResponseLengths] :
                CorrespondsTo(r, packet) /\ ValidCookie(r, packet)}

ForwardReturns(r) ==
    /\ pc = "forward" /\ response' = {r} /\ pc' = "relay"
    /\ UNCHANGED <<request, parser, reply>>

(* Cancelled, or every server failed; the deadline is checked before        *)
(* SERVFAIL is made of that.                                                *)
ForwardFails ==
    /\ pc = "forward"
    /\ \/ ~Remaining /\ Silent
       \/ Remaining /\ LocalReply(ErrorReply(packet, ServerFailure))
    /\ UNCHANGED <<request, parser, response>>

Relay ==
    /\ pc = "relay"
    /\ \/ ~Remaining /\ Silent
       \/ /\ Remaining
          /\ \E r \in response :
               \/ /\ transport = "udp" /\ r.length > UdpLimit(packet.edns)
                  /\ Answer(TruncatedReply(packet, r))
               \/ /\ transport = "tcp" \/ r.length <= UdpLimit(packet.edns)
                  /\ Answer(Relayed(r))
    /\ UNCHANGED <<request, parser, response>>

(* The end of respond: the last look at the deadline, and RA is cleared if  *)
(* the service forwards nothing.  The datagram or frame leaves at once.     *)
Finish ==
    /\ pc = "finish"
    /\ \/ ~Remaining /\ Silent
       \/ /\ Remaining /\ pc' = "done"
          /\ reply' = {[r EXCEPT !.ra = @ /\ forwards] : r \in reply}
    /\ UNCHANGED <<request, parser, response>>

(* Where the deadline is looked at, or forward waits for its servers. *)
Observing == pc \in {"begin", "forward", "relay", "finish"}

Tick ==
    /\ Observing /\ left > 0 /\ left' = left - 1
    /\ UNCHANGED <<pc, stop, forwards, transport, parser, response, reply>>

RequestStop ==
    /\ Observing /\ ~stop /\ stop' = TRUE
    /\ UNCHANGED <<pc, forwards, transport, left, parser, response, reply>>

Done == pc = "done" /\ UNCHANGED vars

Parse ==
    \/ \E opcode \in {"Query", "Other"}, questions \in 0..2 : ReadCounts(opcode, questions)
    \/ ReadQuestion \/ NextSection \/ BadEnvelope \/ MisplacedOpt
    \/ \E opt \in [size : PayloadSizes, version : {0, 1}, extended : {0, 1}] : ReadOpt(opt)
    \/ \E kind \in {"Tsig", "Sig", "Other"} : ReadRecord(kind)
    \/ ParseEnds

Next ==
    \/ Begin \/ Parse
    \/ \E kind \in {"A", "Meta", "Other"}, class \in {"IN", "Other"},
          tc \in BOOLEAN, rcode \in {0, 1} : Validate(kind, class, tc, rcode)
    \/ Select
    \/ \E r \in Responses : ForwardReturns(r)
    \/ ForwardFails \/ Relay \/ Finish
    \/ Tick \/ RequestStop \/ Done

Spec == Init /\ [][Next]_vars

-----------------------------------------------------------------------------
(* DomainName::decode, at every place of the message where the parser may   *)
(* read a name (question, owner or data of a record), returns what labels   *)
(* and backward pointers spell, or an error that is justified.              *)
DecodeCorrect ==
    pc = "question" => \A start \in HeaderLength..Len(wire) : DecodesWell(wire, start)

(* A request stays without a reply if and only if it could not be told from *)
(* garbage or a response, its time was over, the service stops, or the      *)
(* reply would be made up here for a client that sent a server cookie; a    *)
(* response that arrived in time is always passed on in some form.          *)
AnswersEveryQuery ==
    pc = "done" =>
        (reply = {} <=> \/ header \in {"short", "response"} \/ ~Remaining
                        \/ /\ fault = "none" /\ response = {}
                           /\ packet.cookie \cap 16..LongestCookie # {})

(* A reply made here claims nothing unchecked: no cookie but the one the    *)
(* server sent for this client, question and OPT only from a request whose  *)
(* OPT was at fault or nothing was, RA only if the service forwards; and a  *)
(* truncated reply keeps the cookie of the response it stands for.          *)
LocalReplySafe ==
    \A r \in reply :
        /\ r.kind = "local" =>
             /\ r.cookie = {}
             /\ r.question \/ r.opt => fault \in {"none", "InvalidEdns"}
             /\ r.opt <=> packet.edns # {} /\ fault \in {"none", "InvalidEdns"}
        /\ r.kind = "truncated" => \E s \in response : r.cookie = s.cookie
        /\ pc = "done" /\ r.ra => forwards

(* The client reads the code that was meant: extended codes (BADVERS here,  *)
(* and what a server sent) never leave in a reply without OPT, where the    *)
(* header's four bits would turn them into another code.                    *)
CodeSurvives == \A r \in reply : r.code = r.meant

(* A datagram to the client has at most 512 octets, or at most what the     *)
(* client announced and the service supports.                               *)
ReplyFits ==
    transport = "udp" =>
        \A r \in reply :
            \/ r.length <= ClassicUdp
            \/ \E opt \in packet.edns : r.length <= opt.size /\ r.length <= ServerUdp
=============================================================================
