----------------------------- MODULE Forwarder ------------------------------
(***************************************************************************)
(* One worker's Forwarder (src/src/upstream.rs): the walk over the servers *)
(* of a group, the UDP and TCP exchanges with one server, the DNS Cookie   *)
(* retry, and the one TCP stream kept between requests.                    *)
(*                                                                         *)
(* Time is counted in ticks that pass only while the worker is blocked in  *)
(* a socket call or idle; what it computes in between takes none.  IO_POLL *)
(* is shorter than a tick, so a polled wait notices stop within the tick,  *)
(* while UdpSocket::send and TcpStream::connect_timeout do not look at     *)
(* stop at all.  Servers are the environment: they answer a query frame    *)
(* at most once, late or never, with any ID, code and cookie, or hang up,  *)
(* but send no frame unasked; what comes as a datagram is arbitrary.       *)
(* Transaction IDs are random and may repeat.                              *)
(*                                                                         *)
(* A response is abstracted to what the code looks at: `code' is "Final"   *)
(* for NOERROR, NXDOMAIN and every other final code, `cookie' is "none",   *)
(* "bad" (malformed, too short, or not our client cookie) or the server    *)
(* cookie that follows our client cookie, `sound' is the outcome of        *)
(* Packet::parse and of the identity checks other than the ID.             *)
(***************************************************************************)
EXTENDS Integers, Sequences

CONSTANTS
    Groups,          \* the upstream groups, sequences of distinct servers
    Ids,             \* transaction IDs
    ServerCookies,   \* server cookie values
    CookieLength,    \* COOKIE option length with each server cookie
    RequestTimeout,  \* REQUEST_TIMEOUT, in ticks
    AttemptTimeout,  \* ATTEMPT_TIMEOUT
    ReuseIdle,       \* TCP_REUSE_IDLE
    MaxInvalid       \* MAX_INVALID_RESPONSES

Servers == UNION {{g[i] : i \in 1..Len(g)} : g \in Groups}

ASSUME ForwarderAssumption ==
    /\ \A g \in Groups : g \in Seq(Servers) /\ g # <<>>
    /\ CookieLength \in [ServerCookies -> 16..40]
    /\ RequestTimeout \in Nat \ {0} /\ AttemptTimeout \in Nat \ {0}
    /\ ReuseIdle \in Nat \ {0} /\ MaxInvalid \in Nat \ {0}
    /\ {"none", "bad", "client"} \cap ServerCookies = {}

Codes == {"Final", "ServerFailure", "Refused", "BadCookie"}
Layouts == {"last", "inside", "full"}   \* where the COOKIE option sits: at the
                                        \* end, before other bytes, or at the
                                        \* end of a message of maximal length
None == [kind |-> "none"]
Error(e) == [kind |-> "error", error |-> e]
Reply(code, cookie, mine, from) ==
    [kind |-> "reply", code |-> code, cookie |-> cookie, mine |-> mine, from |-> from]

VARIABLES
    stop,      \* the service's stop flag
    pc,        \* where the worker is
    request,   \* group, client transport, COOKIE option and layout of the query
    index,     \* position of the current server in the group
    exchange,  \* the SentQuery in flight: stage, id, cookie, required, invalid
    reqLeft,   \* ticks until the request deadline
    attLeft,   \* ticks until the attempt deadline
    stream,    \* the TCP stream in hand or cached: peer, queries, answers, open
    reused,    \* the stream in hand came from the cache
    cache,     \* Forwarder::tcp is Some(..)
    idle,      \* ticks since the cached stream was used (0 without one)
    outcome,   \* Result of the exchange, then of the server
    lastError, relayed,
    result,    \* Result of forward
    tried,     \* history: the outcome of each server tried, in order
    sends,     \* history: datagrams and frames sent to the current server
    stopAge,   \* history: ticks since stop was set
    challenged,\* history: the current server answered BADCOOKIE
    idFailed   \* history: /dev/urandom failed in this request

walk == <<request, index, lastError, relayed, result, tried>>
history == <<sends, challenged, idFailed>>
timers == <<reqLeft, attLeft, idle, stopAge>>
tcp == <<stream, reused, cache>>
vars == <<stop, pc, exchange, outcome, walk, history, timers, tcp>>

NoStream == [peer |-> "none", queries |-> <<>>, answers |-> <<>>, open |-> FALSE]
Connected(s) == [NoStream EXCEPT !.peer = s, !.open = TRUE]
Server == request.group[index]
OverTcp == request.transport = "tcp"

(* Deadline::remaining: cancellation takes precedence over expiry. *)
Remaining(left) == IF stop THEN "Cancelled" ELSE IF left = 0 THEN "Timeout" ELSE "ok"
(* How a socket call may fail: by itself, or at the check of the deadline   *)
(* before it, which a stop or an expiry in between comes too late for.      *)
Failures(left) == {"Io"} \cup ({Remaining(left)} \ {"ok"})
(* Deadline::capped *)
UncappedBy(duration) == duration
Capped(duration) == IF duration < reqLeft THEN duration ELSE reqLeft

-----------------------------------------------------------------------------
(* DNS Cookies (dns/cookie.rs) *)

SentLength(cookie) == IF cookie = "client" THEN 8 ELSE CookieLength[cookie]

(* cookie::valid_response *)
ValidCookie(sent, required, r) ==
    CASE r.cookie = "none" -> ~required /\ r.code # "BadCookie"
      [] r.cookie = "bad" -> FALSE
      [] OTHER -> sent # "none"

(* cookie::retry: how a BADCOOKIE response relates to what was sent.  A     *)
(* message that was full with the client's own cookie has room for one of   *)
(* that length, also after a shorter one took its place.                    *)
CookieRetry(sent, layout, r) ==
    CASE sent = "none" -> "Absent"
      [] sent # "none" /\ r.cookie \notin ServerCookies -> "Discard"
      [] sent # "none" /\ r.cookie = sent -> "Current"
      [] OTHER ->
           IF CookieLength[r.cookie] # SentLength(sent) /\ layout = "inside" THEN "Tcp"
           ELSE IF CookieLength[r.cookie] > SentLength(request.cookie) /\ layout = "full"
                THEN "Discard"
           ELSE "Rewrite"

(* SentQuery::validate_response after Packet::parse *)
Valid(r) ==
    /\ r.sound /\ ~r.truncated /\ r.id = exchange.id
    /\ ValidCookie(exchange.cookie, exchange.required, r)

-----------------------------------------------------------------------------
Init ==
    /\ stop = FALSE /\ pc = "idle"
    /\ request = [group |-> <<>>, transport |-> "udp", cookie |-> "none", layout |-> "last"]
    /\ index = 0
    /\ exchange = None
    /\ reqLeft = 0 /\ attLeft = 0 /\ idle = 0 /\ stopAge = 0
    /\ stream = NoStream /\ reused = FALSE /\ cache = FALSE
    /\ outcome = None /\ lastError = "Timeout" /\ relayed = None /\ result = None
    /\ tried = <<>> /\ sends = [udp |-> 0, tcp |-> 0]
    /\ challenged = FALSE /\ idFailed = FALSE

(* RequestHandler calls forward for one query. *)
Forward(group, transport, cookie, layout) ==
    /\ pc = "idle"
    /\ pc' = "server"
    /\ request' = [group |-> group, transport |-> transport, cookie |-> cookie,
                   layout |-> IF cookie = "none" THEN "last" ELSE layout]
    /\ index' = 1
    /\ reqLeft' = RequestTimeout
    /\ lastError' = "Timeout" /\ relayed' = None /\ result' = None
    /\ outcome' = None
    /\ tried' = <<>> /\ idFailed' = FALSE
    /\ sends' = [udp |-> 0, tcp |-> 0] /\ challenged' = FALSE
    /\ UNCHANGED <<stop, exchange, attLeft, idle, stopAge, tcp>>

(* forward returns; what it leaves behind is its result and the cache. *)
Return(r) ==
    /\ pc' = "idle" /\ result' = r
    /\ exchange' = None /\ outcome' = None
    /\ attLeft' = 0

Transport(t) == IF t = "tcp" THEN "tcpStart" ELSE "udpSend"

(* Earlier queries and answers in the stream belong to other exchanges. *)
Aged(s) ==
    [s EXCEPT !.queries = [i \in DOMAIN @ |-> [@[i] EXCEPT !.mine = FALSE]],
              !.answers = [i \in DOMAIN @ |-> [@[i] EXCEPT !.mine = FALSE]]]

(* The head of forward's loop, and what follows it when the group is done.  *)
TryServer ==
    /\ pc = "server" /\ index <= Len(request.group)
    /\ \/ /\ Remaining(Capped(AttemptTimeout)) # "ok"
          /\ Return(Error(Remaining(Capped(AttemptTimeout))))
          /\ UNCHANGED <<history, stream>>
       \/ /\ Remaining(Capped(AttemptTimeout)) = "ok"     \* no ID from the OS
          /\ Return(Error("Io"))
          /\ idFailed' = TRUE
          /\ UNCHANGED <<sends, challenged, stream>>
       \/ /\ Remaining(Capped(AttemptTimeout)) = "ok"
          /\ attLeft' = Capped(AttemptTimeout)
          /\ \E id \in Ids :
               exchange' = [kind |-> "sent", stage |-> "first", id |-> id,
                            cookie |-> request.cookie, required |-> FALSE, invalid |-> 0]
          /\ pc' = Transport(request.transport)
          /\ stream' = Aged(stream)
          /\ sends' = [udp |-> 0, tcp |-> 0] /\ challenged' = FALSE
          /\ UNCHANGED <<outcome, result, idFailed>>
    /\ UNCHANGED <<stop, request, index, lastError, relayed, tried, reqLeft, idle,
                   stopAge, reused, cache>>

Exhausted ==
    /\ pc = "server" /\ index > Len(request.group)
    /\ Return(IF Remaining(reqLeft) # "ok" THEN Error(Remaining(reqLeft))
              ELSE IF relayed # None THEN relayed
              ELSE Error(lastError))
    /\ UNCHANGED <<stop, request, index, lastError, relayed, tried, history,
                   reqLeft, idle, stopAge, tcp>>

ExchangeEnds(o) == pc' = "decide" /\ outcome' = o

-----------------------------------------------------------------------------
(* udp_exchange *)

UdpSend ==
    /\ pc = "udpSend"
    /\ \/ /\ Remaining(attLeft) = "ok"
          /\ pc' = "udpSending" /\ UNCHANGED outcome
       \/ \E e \in Failures(attLeft) : ExchangeEnds(Error(e))
    /\ UNCHANGED <<stop, exchange, walk, history, timers, tcp>>

(* send returns, with the attempt's remaining time as its write timeout. *)
UdpSent ==
    /\ pc = "udpSending"
    /\ \/ /\ sends' = [sends EXCEPT !.udp = @ + 1]
          /\ pc' = "udpWait" /\ UNCHANGED outcome
       \/ /\ ExchangeEnds(Error(IF attLeft > 0 THEN "Io" ELSE "Timeout"))
          /\ UNCHANGED sends
    /\ UNCHANGED <<stop, exchange, walk, challenged, idFailed, timers, tcp>>

UdpPollsOn ==
    /\ pc = "udpWait"
    /\ IF Remaining(attLeft) = "ok" THEN ExchangeEnds(Error("Io"))
                                    ELSE UNCHANGED <<pc, outcome>>
    /\ UNCHANGED <<stop, exchange, walk, history, timers, tcp>>

(* Stop, the deadline, or an error of the socket ends the wait. *)
UdpGivesUp ==
    /\ pc = "udpWait"
    /\ \E e \in Failures(attLeft) : ExchangeEnds(Error(e))
    /\ UNCHANGED <<stop, exchange, walk, history, timers, tcp>>

(* A datagram comes back on this exchange's own socket.  TC is looked at    *)
(* before the records are parsed and before the cookie is.                  *)
UdpReceive(r) ==
    /\ pc = "udpWait" /\ Remaining(attLeft) = "ok"
    /\ \/ /\ r.truncated /\ r.id = exchange.id /\ r.sound
          /\ pc' = "tcpStart"
          /\ UNCHANGED <<outcome, exchange>>
       \/ /\ ~(r.truncated /\ r.id = exchange.id /\ r.sound)
          /\ Valid(r)
          /\ ExchangeEnds(Reply(r.code, r.cookie, TRUE, Server))
          /\ UNCHANGED exchange
       \/ /\ ~(r.truncated /\ r.id = exchange.id /\ r.sound)
          /\ ~Valid(r)
          /\ IF exchange.invalid + 1 = MaxInvalid
             THEN /\ ExchangeEnds(Error("InvalidResponse"))
                  /\ UNCHANGED exchange
             ELSE /\ exchange' = [exchange EXCEPT !.invalid = @ + 1]
                  /\ UNCHANGED <<pc, outcome>>
    /\ UNCHANGED <<stop, walk, history, timers, tcp>>

-----------------------------------------------------------------------------
(* tcp_exchange *)

Expired == idle >= ReuseIdle

(* expire_idle, called by the worker's maintenance between jobs. *)
ExpireIdle ==
    /\ pc = "idle" /\ cache /\ Expired
    /\ cache' = FALSE /\ stream' = NoStream /\ idle' = 0
    /\ UNCHANGED <<stop, pc, exchange, outcome, walk, history, reqLeft, attLeft,
                   stopAge, reused>>

TcpStartAnyPeer ==
    /\ pc = "tcpStart"
    /\ cache' = FALSE
    /\ LET fit == cache /\ ~Expired
       IN /\ reused' = fit
          /\ stream' = IF fit THEN stream ELSE NoStream
          /\ IF fit THEN pc' = "tcpWrite" /\ UNCHANGED outcome
             ELSE IF Remaining(attLeft) = "ok" THEN pc' = "connecting" /\ UNCHANGED outcome
             ELSE ExchangeEnds(Error(Remaining(attLeft)))
    /\ idle' = 0
    /\ UNCHANGED <<stop, exchange, walk, history, reqLeft, attLeft, stopAge>>

(* The cache is emptied before any I/O; the stream taken is used if it is   *)
(* unexpired and leads to this server, and dropped if not.                  *)
TcpStart ==
    /\ pc = "tcpStart"
    /\ cache' = FALSE
    /\ LET fit == cache /\ ~Expired /\ stream.peer = Server
       IN /\ reused' = fit
          /\ stream' = IF fit THEN stream ELSE NoStream
          /\ IF fit THEN pc' = "tcpWrite" /\ UNCHANGED outcome
             ELSE IF Remaining(attLeft) = "ok" THEN pc' = "connecting" /\ UNCHANGED outcome
             ELSE ExchangeEnds(Error(Remaining(attLeft)))
    /\ idle' = 0
    /\ UNCHANGED <<stop, exchange, walk, history, reqLeft, attLeft, stopAge>>

(* connect_timeout: a connection, a refusal, or the end of the attempt.     *)
Connect ==
    /\ pc = "connecting"
    /\ \/ /\ attLeft > 0
          /\ stream' = Connected(Server)
          /\ pc' = "tcpWrite" /\ UNCHANGED outcome
       \/ /\ ExchangeEnds(Error(IF attLeft > 0 THEN "Io" ELSE "Timeout"))
          /\ UNCHANGED stream
    /\ UNCHANGED <<stop, exchange, walk, history, timers, reused, cache>>

TcpFailsKeepingStream(e) ==
    IF reused /\ Remaining(attLeft) = "ok"
    THEN pc' = "connecting" /\ reused' = FALSE /\ stream' = NoStream /\ UNCHANGED <<outcome, cache>>
    ELSE ExchangeEnds(Error(e)) /\ reused' = FALSE /\ cache' = TRUE /\ UNCHANGED stream

TcpFailsForever(e) ==
    IF Remaining(attLeft) = "ok"
    THEN pc' = "connecting" /\ stream' = NoStream /\ UNCHANGED <<outcome, cache, reused>>
    ELSE ExchangeEnds(Error(e)) /\ reused' = FALSE /\ stream' = NoStream /\ UNCHANGED cache

(* An error on the stream in hand: the stream is dropped; the first error   *)
(* on a reused one is answered by a new connection within the deadline.     *)
TcpFails(e) ==
    IF reused /\ Remaining(attLeft) = "ok"
    THEN pc' = "connecting" /\ reused' = FALSE /\ stream' = NoStream /\ UNCHANGED <<outcome, cache>>
    ELSE /\ ExchangeEnds(Error(IF reused THEN Remaining(attLeft) ELSE e))
         /\ reused' = FALSE /\ stream' = NoStream /\ UNCHANGED cache

(* write_frame *)
TcpWrite ==
    /\ pc = "tcpWrite"
    /\ \/ /\ Remaining(attLeft) = "ok"
          /\ stream' = IF stream.open
                       THEN [stream EXCEPT !.queries = Append(@, [id |-> exchange.id, mine |-> TRUE])]
                       ELSE stream
          /\ sends' = [sends EXCEPT !.tcp = @ + 1]
          /\ pc' = "tcpRead"
          /\ UNCHANGED <<outcome, reused, cache>>
       \/ /\ \E e \in Failures(attLeft) : TcpFails(e)
          /\ UNCHANGED sends
    /\ UNCHANGED <<stop, exchange, walk, challenged, idFailed, timers>>

(* read_frame and the validation of the frame that came. *)
TcpRead ==
    /\ pc = "tcpRead"
    /\ \/ /\ Remaining(attLeft) # "ok"
          /\ \E e \in Failures(attLeft) : TcpFails(e)
          /\ UNCHANGED idle
       \/ /\ Remaining(attLeft) = "ok" /\ stream.answers = <<>> /\ ~stream.open
          /\ \E e \in {"InvalidResponse", "Io"} : TcpFails(e) \* between or inside frames
          /\ UNCHANGED idle
       \/ /\ Remaining(attLeft) = "ok" /\ stream.answers # <<>>
          /\ LET r == Head(stream.answers)
             IN IF Valid(r)
                THEN /\ ExchangeEnds(Reply(r.code, r.cookie, r.mine, stream.peer))
                     /\ cache' = TRUE /\ idle' = 0 /\ reused' = FALSE
                     /\ stream' = [stream EXCEPT !.answers = Tail(@)]
                ELSE /\ \E e \in IF r.sound THEN {"InvalidResponse"} ELSE {"Parse", "Io"} : TcpFails(e)
                     /\ UNCHANGED idle
    /\ UNCHANGED <<stop, exchange, walk, history, reqLeft, attLeft, stopAge>>

-----------------------------------------------------------------------------
(* What forward does with the result of an exchange *)

(* The walk goes on with the next server after an error. *)
ForgetRelayed(e) ==
    /\ tried' = Append(tried, Error(e))
    /\ lastError' = e /\ relayed' = None
    /\ pc' = "server" /\ index' = index + 1
    /\ outcome' = None /\ exchange' = None
    /\ UNCHANGED <<result, attLeft>>

NextServer(e) ==
    /\ tried' = Append(tried, Error(e))
    /\ lastError' = e
    /\ pc' = "server" /\ index' = index + 1
    /\ outcome' = None /\ exchange' = None
    /\ UNCHANGED <<relayed, result, attLeft>>

ServerFails(e) ==
    IF e = "Cancelled"
    THEN Return(Error(e)) /\ UNCHANGED <<tried, index, lastError, relayed>>
    ELSE NextServer(e)

RetriesInGroup(code) == code \in {"ServerFailure", "Refused"}

(* A response from this server that finish_badcookie has nothing to add to. *)
ServerAnswers(r) ==
    IF Remaining(reqLeft) # "ok"
    THEN Return(Error(Remaining(reqLeft))) /\ UNCHANGED <<tried, index, lastError, relayed>>
    ELSE /\ tried' = Append(tried, r)
         /\ IF ~RetriesInGroup(r.code)
            THEN Return(r) /\ UNCHANGED <<index, lastError, relayed>>
            ELSE /\ lastError' = r.code /\ relayed' = r
                 /\ pc' = "server" /\ index' = index + 1
                 /\ outcome' = None /\ exchange' = None
                 /\ UNCHANGED <<result, attLeft>>

RetryUnguarded(stage, via, cookie) ==
    /\ \E id \in Ids : exchange' = [exchange EXCEPT !.stage = stage, !.id = id,
                                       !.cookie = cookie, !.invalid = 0]
    /\ pc' = via /\ stream' = Aged(stream) /\ challenged' = TRUE
    /\ outcome' = None
    /\ UNCHANGED <<tried, index, lastError, relayed, result, attLeft, idFailed>>

(* retry_exchange: a new SentQuery under the same deadline, which requires  *)
(* a cookie in the answer.  A failure here is a failure of this server.     *)
Retry(stage, via, cookie) ==
    \/ /\ Remaining(attLeft) # "ok"
       /\ ServerFails(Remaining(attLeft))
       /\ challenged' = TRUE /\ UNCHANGED <<stream, idFailed>>
    \/ /\ Remaining(attLeft) = "ok"
       /\ ServerFails("Io")                               \* no ID from the OS
       /\ idFailed' = TRUE /\ challenged' = TRUE /\ UNCHANGED stream
    \/ /\ Remaining(attLeft) = "ok"
       /\ \E id \in Ids : exchange' = [exchange EXCEPT !.stage = stage, !.id = id,
                                          !.cookie = cookie, !.required = TRUE, !.invalid = 0]
       /\ pc' = via /\ stream' = Aged(stream) /\ challenged' = TRUE
       /\ outcome' = None
       /\ UNCHANGED <<tried, index, lastError, relayed, result, attLeft, idFailed>>

(* finish_badcookie, as far as the response to the first query takes it. *)
FirstChallenge(r) ==
    LET how == CookieRetry(exchange.cookie, request.layout, r)
    IN CASE how = "Discard" -> ServerFails("InvalidResponse") /\ UNCHANGED <<challenged, stream, idFailed>>
         [] how = "Absent" \/ (how \in {"Current", "Tcp"} /\ OverTcp) ->
                ServerAnswers(r) /\ UNCHANGED <<challenged, stream, idFailed>>
         [] how \in {"Current", "Tcp"} /\ ~OverTcp -> Retry("last", "tcpStart", exchange.cookie)
         [] how = "Rewrite" -> Retry("second", Transport(request.transport), r.cookie)

(* ... and its second half, for the response to the rewritten query. *)
SecondChallenge(r) ==
    LET how == CookieRetry(exchange.cookie, request.layout, r)
    IN CASE how \in {"Absent", "Discard"} ->
                ServerFails("InvalidResponse") /\ UNCHANGED <<challenged, stream, idFailed>>
         [] how \in {"Current", "Tcp"} -> Retry("last", "tcpStart", exchange.cookie)
         [] how = "Rewrite" -> Retry("last", "tcpStart", r.cookie)

Decide ==
    /\ pc = "decide"
    /\ IF outcome.kind = "error"
       THEN ServerFails(outcome.error) /\ UNCHANGED <<challenged, stream, idFailed>>
       ELSE IF outcome.code = "BadCookie" /\ exchange.stage = "first"
       THEN FirstChallenge(outcome)
       ELSE IF outcome.code = "BadCookie" /\ exchange.stage = "second" /\ ~OverTcp
       THEN SecondChallenge(outcome)
       ELSE ServerAnswers(outcome) /\ UNCHANGED <<challenged, stream, idFailed>>
    /\ UNCHANGED <<stop, request, sends, reqLeft, idle, stopAge, reused, cache>>

-----------------------------------------------------------------------------
(* The environment *)

RequestStop ==
    /\ ~stop /\ stop' = TRUE
    /\ UNCHANGED <<pc, exchange, outcome, walk, history, timers, tcp>>

(* Nothing but TC is read from a truncated answer, nothing at all from one  *)
(* that does not parse.                                                     *)
Answers ==
    [code : Codes, cookie : {"none", "bad"} \cup ServerCookies,
     truncated : {FALSE}, sound : {TRUE}]
      \cup {[code |-> "Final", cookie |-> "none", truncated |-> s, sound |-> s] : s \in BOOLEAN}

With(a, id, mine) ==
    [code |-> a.code, cookie |-> a.cookie, truncated |-> a.truncated,
     sound |-> a.sound, id |-> id, mine |-> mine]

(* The server at the other end answers a query frame, once, possibly late,  *)
(* perhaps with another ID.                                                 *)
StreamAnswer(a, id) ==
    /\ stream.open /\ stream.queries # <<>>
    /\ LET q == Head(stream.queries)
       IN stream' = [stream EXCEPT !.queries = Tail(@),
                                   !.answers = Append(@, With(a, id, q.mine))]
    /\ UNCHANGED <<stop, pc, exchange, outcome, walk, history, timers, reused, cache>>

StreamCloses ==
    /\ stream.open /\ stream' = [stream EXCEPT !.open = FALSE]
    /\ UNCHANGED <<stop, pc, exchange, outcome, walk, history, timers, reused, cache>>

ConnectLeftOfRequest == reqLeft
(* How long connect_timeout may still block. *)
ConnectLeft == attLeft

(* A tick passes: in a call that does not poll stop, in a polled wait with  *)
(* nothing to read, or between requests.                                    *)
Tick ==
    /\ \/ pc = "udpSending" /\ attLeft > 0
       \/ pc = "connecting" /\ ConnectLeft > 0
       \/ pc \in {"udpWait", "tcpWrite"} /\ Remaining(attLeft) = "ok"
       \/ pc = "tcpRead" /\ Remaining(attLeft) = "ok" /\ stream.answers = <<>> /\ stream.open
       \/ pc = "idle" /\ idle < ReuseIdle
    /\ IF pc = "idle" THEN UNCHANGED <<reqLeft, attLeft>>
       ELSE reqLeft' = reqLeft - 1 /\ attLeft' = attLeft - 1
    /\ idle' = IF cache /\ idle < ReuseIdle THEN idle + 1 ELSE idle
    /\ stopAge' = IF stop /\ pc # "idle" THEN stopAge + 1 ELSE stopAge
    /\ cache \/ pc # "idle"
    /\ UNCHANGED <<stop, pc, exchange, outcome, walk, history, tcp>>

ForwarderStep ==
    \/ TryServer \/ Exhausted \/ UdpSend \/ UdpSent \/ UdpGivesUp
    \/ TcpStart \/ Connect \/ TcpWrite \/ TcpRead \/ Decide

Next ==
    \/ \E g \in Groups, t \in {"udp", "tcp"}, l \in Layouts,
          c \in {"none", "client"} \cup ServerCookies : Forward(g, t, c, l)
    \/ ForwarderStep
    \/ \E a \in Answers, id \in Ids : UdpReceive(With(a, id, TRUE))
    \/ ExpireIdle
    \/ RequestStop
    \/ \E a \in Answers, id \in Ids : StreamAnswer(a, id)
    \/ StreamCloses
    \/ Tick

Spec == Init /\ [][Next]_vars

(* Time passes, and the worker goes on when a call it is blocked in has     *)
(* data, reaches its timeout or notices stop.  No server has to answer and  *)
(* no socket has to fail.                                                   *)
Fairness ==
    /\ WF_vars(Tick)
    /\ WF_vars(TryServer) /\ WF_vars(Exhausted) /\ WF_vars(Decide)
    /\ WF_vars(UdpSend) /\ WF_vars(attLeft = 0 /\ UdpSent)
    /\ WF_vars(Remaining(attLeft) # "ok" /\ UdpGivesUp)
    /\ WF_vars(TcpStart) /\ WF_vars(attLeft = 0 /\ Connect)
    /\ WF_vars(Remaining(attLeft) # "ok" /\ TcpWrite)
    /\ WF_vars(TcpRead)

FairSpec == Spec /\ Fairness

-----------------------------------------------------------------------------
(* Properties *)

Failure(o) == o.kind = "reply" /\ RetriesInGroup(o.code)
Final(o) == o.kind = "reply" /\ ~RetriesInGroup(o.code)

(* What forward returns is what the group as a whole said: the answer of    *)
(* the first server that gave a final one; else, with every server tried    *)
(* once and in order, the latest SERVFAIL or REFUSED, which no later        *)
(* transport failure replaces; else the last error.  Only cancellation, the *)
(* request deadline and the loss of the entropy source cut the walk short.  *)
ForwardOutcome ==
    LET n == Len(tried)
        failures == {i \in 1..n : Failure(tried[i])}
        all == n = Len(request.group)
    IN result # None =>
        /\ \A i \in 1..n : Final(tried[i]) => i = n
        /\ result.kind = "reply" =>
              \/ Final(result) /\ n > 0 /\ result = tried[n]
              \/ /\ Failure(result) /\ all
                 /\ \E i \in failures : result = tried[i] /\ \A k \in failures : k <= i
        /\ result.kind = "error" =>
              \/ result.error = "Cancelled" /\ stop
              \/ result.error = "Timeout" /\ reqLeft = 0
              \/ result.error = "Io" /\ idFailed
              \/ all /\ failures = {} /\ result = tried[n]

(* An accepted response answers the query of this very exchange and comes   *)
(* from the server it was sent to, even when transaction IDs repeat: a      *)
(* stream that might still carry an older answer is never used again.       *)
AnswersThisQuery ==
    outcome.kind = "reply" => outcome.mine /\ outcome.from = Server

(* The stream kept between requests is synchronised: every query sent on it *)
(* has been answered and every answer has been read.                        *)
CachedStreamClean ==
    cache => stream.queries = <<>> /\ stream.answers = <<>>

(* forward is over when its request deadline is: no phase restarts or       *)
(* extends the budget.                                                      *)
DeadlineKept == pc # "idle" => reqLeft >= attLeft /\ reqLeft >= 0

(* forward returns within one attempt timeout of stop, even though connect  *)
(* does not poll the flag.                                                  *)
CancelledInTime == pc # "idle" => stopAge <= AttemptTimeout

(* One request costs a server at most two datagrams and six frames, cookie  *)
(* retries, truncation and reconnections included.                          *)
SendsBounded == sends.udp <= 2 /\ sends.tcp <= 6

(* A server that has answered BADCOOKIE has shown that it supports cookies: *)
(* an answer of it without one is not accepted any more in this exchange.   *)
NoCookieDowngrade ==
    challenged /\ outcome.kind = "reply" => outcome.cookie \in ServerCookies

(* "Cancellation or failure to obtain a transaction ID aborts without       *)
(* trying further servers."  (the documentation of forward)                 *)
IdFailureAborts == idFailed => pc \in {"idle", "server"}

(* Every call of forward returns, whatever the servers send and however     *)
(* long they keep silent.                                                   *)
ForwardReturns == pc # "idle" ~> pc = "idle"
=============================================================================
