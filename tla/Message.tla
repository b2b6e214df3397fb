------------------------------ MODULE Message -------------------------------
(***************************************************************************)
(* DNS messages as the request handler sees them: what the parser keeps of *)
(* a query (src/src/dns/message.rs, cookie.rs), what validate_query makes  *)
(* of it, and the replies built here (src/src/dns/reply.rs), with their    *)
(* lengths.                                                                *)
(*                                                                         *)
(* An Option of the code is a set with at most one element.  A packet has  *)
(*   opcode, questions (their number), name (length of the question's name *)
(*   when encoded), kind and class of the question, other (answers or      *)
(*   authorities are there), edns (size, version and extended code of      *)
(*   OPT), cookie and authenticated.                                       *)
(* Among the types of a question, "A" stands for A and ANY and "Meta" for  *)
(* the types that are refused.  Codes are numbers: only 0..15 fit in the   *)
(* header.                                                                 *)
(***************************************************************************)
EXTENDS NameDecode

CONSTANTS
    ClassicUdp,  \* CLASSIC_UDP_LENGTH
    ServerUdp    \* SERVER_UDP_LENGTH

NoError == 0
FormatError == 1
ServerFailure == 2
NameError == 3
NotImplemented == 4
Refused == 5
BadVersion == 16
BadCookie == 23

QuestionFixed == 4      \* type and class behind a name
AnswerLength == 16      \* a pointer, ten octets and an address
OptLength == 11         \* root, ten octets
OptionHeader == 4
LongestCookie == 40

(* The largest local reply fits where nothing larger than CLASSIC_UDP_LENGTH *)
(* may be sent (326 and 512 octets in the code).                             *)
ASSUME MessageAssumption ==
    /\ ClassicUdp \in Nat /\ ServerUdp \in Nat /\ ClassicUdp <= ServerUdp
    /\ HeaderLength + MaxNameLength + QuestionFixed + OptLength + OptionHeader + LongestCookie
         <= ClassicUdp
    /\ HeaderLength + MaxNameLength + QuestionFixed + AnswerLength + OptLength <= ClassicUdp

The(option) == CHOOSE x \in option : TRUE
Malformed == 0          \* CookieField::Malformed, as the length of the cookie

(* The first COOKIE option counts; validate_options has checked the framing. *)
Locate(options) ==
    LET at == {i \in DOMAIN options : options[i].cookie}
        length == options[CHOOSE i \in at : \A j \in at : i <= j].length
    IN IF at = {} THEN {}
       ELSE IF length = 8 \/ length \in 16..LongestCookie THEN {length} ELSE {Malformed}

HasServerCookieOrClient(packet) == \E length \in packet.cookie : length >= 8
(* response_cookie(self).is_some_and(|cookie| cookie.len() > 8) *)
HasServerCookie(packet) == \E length \in packet.cookie : length > 8

ResponseCode(header, edns) == header + 16 * (IF edns = {} THEN 0 ELSE The(edns).extended)

UdpLimitOfServer(edns) == ServerUdp
UdpLimit(edns) ==
    LET size == The(edns).size
    IN IF edns = {} \/ size < ClassicUdp THEN ClassicUdp
       ELSE IF size > ServerUdp THEN ServerUdp ELSE size

(* The code of QueryDecision::Reject, or nothing for Forward; tc and rcode   *)
(* are fields of the header.                                                 *)
ValidateQuery(packet, tc, rcode) ==
    IF packet.opcode # "Query" THEN {NotImplemented}
    ELSE IF \/ packet.questions # 1 \/ tc \/ packet.other
            \/ ResponseCode(rcode, packet.edns) # NoError
            \/ packet.cookie = {Malformed} THEN {FormatError}
    ELSE IF \E opt \in packet.edns : opt.version # 0 THEN {BadVersion}
    ELSE IF packet.authenticated \/ packet.kind = "Meta" THEN {Refused}
    ELSE {}

CorrespondsLoosely(response, packet) == TRUE
(* corresponds_to, of what Forwarder's Valid leaves abstract: OPT only in   *)
(* reply to OPT.                                                            *)
CorrespondsTo(response, packet) == response.edns => packet.edns # {}

(* What a validated response can look like beside that: an extended code    *)
(* needs OPT, a cookie needs OPT and a cookie in the query, has a server    *)
(* part, and comes with BADCOOKIE.                                          *)
ValidCookie(response, packet) ==
    /\ response.code > 15 \/ response.cookie # {} => response.edns
    /\ response.cookie # {} => packet.cookie # {}
    /\ \A length \in response.cookie : length \in 16..LongestCookie
    /\ response.code = BadCookie => response.cookie # {}

(* Question::encode, if there is a question: its name is uncompressed. *)
QuestionLength(name) == IF name = {} THEN 0 ELSE The(name) + QuestionFixed

(* make_reply: the code's high bits are only encoded in OPT. *)
MakeReply(kind, name, code, opt, cookie, answer) ==
    [kind |-> kind, meant |-> code,
     code |-> IF opt THEN code ELSE code % 16,
     question |-> name # {}, opt |-> opt,
     cookie |-> IF opt THEN cookie ELSE {},
     ra |-> TRUE,
     length |-> HeaderLength + QuestionLength(name)
                + (IF answer THEN AnswerLength ELSE 0)
                + (IF ~opt THEN 0
                   ELSE OptLength + IF cookie = {} THEN 0 ELSE OptionHeader + The(cookie))]

ErrorReply(packet, code) ==
    MakeReply("local", packet.name, code, packet.edns # {}, {}, FALSE)

LocalAReply(packet) ==
    MakeReply("local", packet.name, IF packet.class = "IN" THEN NoError ELSE Refused,
              packet.edns # {}, {}, packet.class = "IN" /\ packet.kind = "A")

(* Of a request that did not parse: the header alone unless OPT was read. *)
FormatReply(name, edns) ==
    IF edns = {} THEN MakeReply("local", {}, FormatError, FALSE, {}, FALSE)
    ELSE MakeReply("local", name, FormatError, TRUE, {}, FALSE)

TruncatedReply(packet, response) ==
    MakeReply("truncated", packet.name, response.code, packet.edns # {}, response.cookie, FALSE)

(* Response::with_id: the response's bytes under the client's ID; RA is the *)
(* upstream's, taken as set.                                                *)
Relayed(response) ==
    [kind |-> "relayed", meant |-> response.code, code |-> response.code, question |-> TRUE,
     opt |-> response.edns, cookie |-> response.cookie, ra |-> TRUE, length |-> response.length]
=============================================================================
