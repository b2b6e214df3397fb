-------------------------- MODULE ForwarderProofs ---------------------------
(***************************************************************************)
(* Proofs about one worker's Forwarder, for all groups, timeouts, server   *)
(* cookies and transaction IDs.                                            *)
(*                                                                         *)
(* TypeOK is not enough for any of the properties.  The inductive          *)
(* invariant says what is known at each place of the exchange: what the    *)
(* stream in hand may still carry (Synchronised), how the clocks of the    *)
(* request, the attempt and the cancellation relate (Clocks), how many     *)
(* sends the stages so far account for (Budget), when a cookie is required *)
(* (Challenges), and how the walk over the group has gone (Walk).          *)
(***************************************************************************)
EXTENDS Forwarder, SequenceTheorems, TLAPS

Sending == {"udpSend", "udpSending", "udpWait"}
Streaming == {"connecting", "tcpWrite", "tcpRead"}
Exchanging == Sending \cup Streaming \cup {"tcpStart", "decide"}

Cookies == {"none", "bad"} \cup ServerCookies
Errors == {"Cancelled", "Timeout", "Io", "InvalidResponse", "Parse"}
ErrorOutcomes == [kind : {"error"}, error : Errors \cup Codes]
Replies == [kind : {"reply"}, code : Codes, cookie : Cookies, mine : BOOLEAN, from : Servers]
Frames == [id : Ids, mine : BOOLEAN]
Received == [code : Codes, cookie : Cookies, truncated : BOOLEAN, sound : BOOLEAN,
             id : Ids, mine : BOOLEAN]
Requests == [group : Groups \cup {<<>>}, transport : {"udp", "tcp"},
             cookie : {"none", "client"} \cup ServerCookies, layout : Layouts]
SentQueries == [kind : {"sent"}, stage : {"first", "second", "last"}, id : Ids,
                cookie : {"none", "client"} \cup ServerCookies, required : BOOLEAN,
                invalid : Nat]
Streams == [peer : Servers \cup {"none"}, queries : Seq(Frames),
            answers : Seq(Received), open : BOOLEAN]

(* Every variable has its type; a query is in flight, and its result known, *)
(* exactly at the places where the code has them.                           *)
TypeOK ==
    /\ stop \in BOOLEAN
    /\ pc \in Exchanging \cup {"idle", "server"}
    /\ request \in Requests
    /\ index \in Nat
    /\ exchange \in SentQueries \cup {None}
    /\ pc \in Exchanging => exchange \in SentQueries
    /\ reqLeft \in Nat /\ attLeft \in Nat /\ idle \in Nat /\ stopAge \in Nat
    /\ stream \in Streams /\ reused \in BOOLEAN /\ cache \in BOOLEAN
    /\ outcome \in ErrorOutcomes \cup Replies \cup {None}
    /\ pc = "decide" => outcome \in ErrorOutcomes \cup Replies
    /\ pc # "decide" => outcome = None
    /\ lastError \in Errors \cup Codes
    /\ relayed \in Replies \cup {None}
    /\ result \in ErrorOutcomes \cup Replies \cup {None}
    /\ tried \in Seq(ErrorOutcomes \cup Replies)
    /\ sends \in [udp : Nat, tcp : Nat]
    /\ challenged \in BOOLEAN /\ idFailed \in BOOLEAN

(* Where the walk stands between servers and inside an attempt. *)
Placed ==
    /\ pc # "idle" => request.group \in Groups /\ index \in 1..(Len(request.group) + 1)
    /\ pc \in Exchanging => index \in 1..Len(request.group)

(* The stream is empty but for the one query that is being answered, and    *)
(* leads to the current server while it is in hand.                         *)
Synchronised ==
    /\ pc \in Streaming => ~cache
    /\ pc \notin {"tcpWrite", "tcpRead"} =>
          /\ ~cache => stream = NoStream
          /\ stream.queries = <<>> /\ stream.answers = <<>>
    /\ pc = "tcpWrite" => stream.queries = <<>> /\ stream.answers = <<>>
    /\ pc \in {"tcpWrite", "tcpRead"} => stream.peer = Server
    /\ pc = "tcpRead" =>
          /\ Len(stream.queries) + Len(stream.answers) <= 1
          /\ \A i \in 1..Len(stream.queries) : stream.queries[i].mine
          /\ \A i \in 1..Len(stream.answers) : stream.answers[i].mine

(* The attempt ends within the request; what is left of it bounds the time  *)
(* for which stop can go unnoticed.                                         *)
Clocks ==
    /\ attLeft <= reqLeft \/ pc = "idle"
    /\ pc = "idle" => attLeft = 0
    /\ ~stop => stopAge = 0
    /\ stopAge + attLeft <= AttemptTimeout

(* Each stage of the cookie exchange costs at most one datagram and two     *)
(* frames, and the last one no datagram.                                    *)
Stage == CASE exchange.stage = "first" -> 0
           [] exchange.stage = "second" -> 1
           [] exchange.stage = "last" -> 2

Budget ==
    /\ sends.udp <= 2 /\ sends.tcp <= 6
    /\ pc = "connecting" => ~reused
    /\ pc \in Exchanging /\ exchange.stage = "last" => pc \notin Sending
    /\ pc \in {"udpSend", "udpSending"} => sends.udp <= Stage
    /\ pc \in Exchanging => sends.udp <= Stage + 1
    /\ pc \in Exchanging =>
          sends.tcp <= 2 * Stage
                         + (CASE pc \in Sending \cup {"tcpStart"} -> 0
                              [] pc = "connecting" -> 1
                              [] pc = "tcpWrite" -> IF reused THEN 0 ELSE 1
                              [] pc = "tcpRead" -> IF reused THEN 1 ELSE 2
                              [] pc = "decide" -> 2)

(* Once the server has answered BADCOOKIE, the query in flight requires a   *)
(* cookie and an accepted answer has one.                                   *)
Challenges ==
    /\ pc \in Exchanging /\ challenged => exchange.required
    /\ challenged /\ outcome.kind = "reply" => outcome.cookie \in ServerCookies

(* What forward knows about the servers tried so far. *)
LatestFailure ==
    /\ relayed = None => \A i \in 1..Len(tried) : ~Failure(tried[i])
    /\ relayed # None =>
          /\ Failure(relayed)
          /\ \E i \in 1..Len(tried) :
                /\ relayed = tried[i]
                /\ \A k \in 1..Len(tried) : Failure(tried[k]) => k <= i

Walk ==
    /\ pc # "idle" =>
          /\ result = None
          /\ index = Len(tried) + 1
          /\ \A i \in 1..Len(tried) : ~Final(tried[i])
          /\ LatestFailure
          /\ relayed = None /\ tried # <<>> => tried[Len(tried)] = Error(lastError)
    /\ outcome.kind = "error" /\ outcome.error = "Cancelled" => stop

(* The inductive invariant. *)
Inv ==
    /\ TypeOK /\ Placed /\ Synchronised /\ AnswersThisQuery /\ Clocks /\ Budget
    /\ Challenges /\ Walk /\ ForwardOutcome

-----------------------------------------------------------------------------
(* What an exchange leaves to decide *)

(* The new query of retry_exchange. *)
Requery(stage, via, cookie) ==
    /\ \E id \in Ids : exchange' = [exchange EXCEPT !.stage = stage, !.id = id,
                                       !.cookie = cookie, !.required = TRUE, !.invalid = 0]
    /\ pc' = via /\ stream' = Aged(stream) /\ challenged' = TRUE
    /\ outcome' = None
    /\ UNCHANGED <<tried, index, lastError, relayed, result, attLeft, idFailed>>

(* The result of an exchange is the failure of this server, its answer, or  *)
(* a further query to it: the second one by the transport of the first, or  *)
(* the last one over TCP.                                                   *)
LEMMA DecideCases ==
    ASSUME TypeOK, Decide, outcome.kind = "error" /\ outcome.error = "Cancelled" => stop
    PROVE  /\ pc = "decide"
           /\ UNCHANGED <<stop, request, sends, reqLeft, idle, stopAge, reused, cache>>
           /\ \/ \E e \in Errors \cup Codes :
                    /\ ServerFails(e) /\ (e = "Cancelled" => stop)
                    /\ challenged' \in BOOLEAN /\ idFailed' \in BOOLEAN
                    /\ stream' = stream
              \/ /\ outcome \in Replies /\ ServerAnswers(outcome)
                 /\ UNCHANGED <<challenged, stream, idFailed>>
              \/ \E cookie \in {"none", "client"} \cup ServerCookies :
                    /\ exchange.stage = "first"
                    /\ Requery("second", Transport(request.transport), cookie)
              \/ \E cookie \in {"none", "client"} \cup ServerCookies :
                    /\ exchange.stage \in {"first", "second"}
                    /\ Requery("last", "tcpStart", cookie)
<1>1. pc = "decide" /\ UNCHANGED <<stop, request, sends, reqLeft, idle, stopAge, reused, cache>>
  BY DEF Decide
<1>2. exchange \in SentQueries /\ outcome \in ErrorOutcomes \cup Replies
  BY <1>1 DEF TypeOK, Exchanging
<1>3. Remaining(attLeft) \in Errors \cup {"ok"} /\ (Remaining(attLeft) = "Cancelled" => stop)
  BY DEF Remaining, Errors
<1>4. challenged \in BOOLEAN /\ idFailed \in BOOLEAN
  BY DEF TypeOK
<1>5. CASE outcome.kind = "error"
  BY <1>1, <1>2, <1>4, <1>5 DEF Decide, ErrorOutcomes, Replies
<1>6. ASSUME outcome.kind # "error", outcome.code = "BadCookie", exchange.stage = "first"
      PROVE  FirstChallenge(outcome)
  BY <1>6 DEF Decide
<1>7. ASSUME outcome.kind # "error", outcome.code = "BadCookie", exchange.stage = "second",
             ~OverTcp
      PROVE  SecondChallenge(outcome)
  BY <1>7 DEF Decide
<1>8. ASSUME NEW stage, NEW via, NEW cookie, Retry(stage, via, cookie)
      PROVE  \/ \E e \in Errors \cup Codes :
                    /\ ServerFails(e) /\ (e = "Cancelled" => stop)
                    /\ challenged' \in BOOLEAN /\ idFailed' \in BOOLEAN
                    /\ stream' = stream
             \/ Requery(stage, via, cookie)
  BY <1>3, <1>4, <1>8 DEF Retry, Requery, Errors
<1>9. ASSUME outcome.kind # "error"
      PROVE  outcome \in Replies
  BY <1>2, <1>9 DEF ErrorOutcomes
<1>10. ASSUME ServerFails("InvalidResponse"), UNCHANGED <<challenged, stream, idFailed>>
       PROVE  \E e \in Errors \cup Codes :
                    /\ ServerFails(e) /\ (e = "Cancelled" => stop)
                    /\ challenged' \in BOOLEAN /\ idFailed' \in BOOLEAN
                    /\ stream' = stream
  BY <1>4, <1>10 DEF Errors
<1> DEFINE how == CookieRetry(exchange.cookie, request.layout, outcome)
<1>11. how \in {"Absent", "Discard", "Current", "Tcp", "Rewrite"}
  BY DEF CookieRetry
<1>12. ASSUME how = "Rewrite", outcome.kind # "error"
       PROVE  outcome.cookie \in {"none", "client"} \cup ServerCookies
  BY <1>12, <1>9 DEF CookieRetry, Replies
<1>13. exchange.cookie \in {"none", "client"} \cup ServerCookies
  BY <1>2 DEF SentQueries
<1>14. CASE outcome.kind # "error" /\ outcome.code = "BadCookie" /\ exchange.stage = "first"
  <2>1. CASE how = "Discard"
    BY <1>1, <1>6, <1>10, <1>14, <2>1 DEF FirstChallenge
  <2>2. CASE how = "Absent" \/ (how \in {"Current", "Tcp"} /\ OverTcp)
    BY <1>1, <1>6, <1>9, <1>14, <2>2 DEF FirstChallenge
  <2>3. CASE how \in {"Current", "Tcp"} /\ ~OverTcp
    <3>1. Retry("last", "tcpStart", exchange.cookie)
      BY <1>6, <1>14, <2>3 DEF FirstChallenge
    <3> QED
      BY <1>1, <1>8, <1>13, <1>14, <3>1
  <2>4. CASE how = "Rewrite"
    <3>1. Retry("second", Transport(request.transport), outcome.cookie)
      BY <1>6, <1>14, <2>4 DEF FirstChallenge
    <3> QED
      BY <1>1, <1>8, <1>12, <1>14, <2>4, <3>1
  <2> QED
    BY <1>11, <2>1, <2>2, <2>3, <2>4
<1>15. CASE outcome.kind # "error" /\ outcome.code = "BadCookie" /\ exchange.stage = "second"
              /\ ~OverTcp
  <2>1. CASE how \in {"Absent", "Discard"}
    BY <1>1, <1>7, <1>10, <1>15, <2>1 DEF SecondChallenge
  <2>2. CASE how \in {"Current", "Tcp"}
    <3>1. Retry("last", "tcpStart", exchange.cookie)
      BY <1>7, <1>15, <2>2 DEF SecondChallenge
    <3> QED
      BY <1>1, <1>8, <1>13, <1>15, <3>1
  <2>3. CASE how = "Rewrite"
    <3>1. Retry("last", "tcpStart", outcome.cookie)
      BY <1>7, <1>15, <2>3 DEF SecondChallenge
    <3> QED
      BY <1>1, <1>8, <1>12, <1>15, <2>3, <3>1
  <2> QED
    BY <1>11, <2>1, <2>2, <2>3
<1>16. CASE /\ outcome.kind # "error"
            /\ ~(outcome.code = "BadCookie" /\ exchange.stage = "first")
            /\ ~(outcome.code = "BadCookie" /\ exchange.stage = "second" /\ ~OverTcp)
  BY <1>1, <1>9, <1>16 DEF Decide
<1> QED
  BY <1>5, <1>14, <1>15, <1>16
-----------------------------------------------------------------------------
(* Type correctness *)

(* The server that is being asked is one of the group. *)
LEMMA ServerType ==
    ASSUME TypeOK, Placed, pc \in Exchanging
    PROVE  Server \in Servers
<1>1. request.group \in Groups /\ index \in 1..Len(request.group)
  BY DEF Placed, Exchanging, Sending, Streaming
<1>2. request.group \in Seq(Servers)
  BY <1>1, ForwarderAssumption
<1> QED
  BY <1>1, <1>2 DEF Server

(* A synchronised stream has no frame of another exchange to mark. *)
LEMMA AgedClean ==
    ASSUME NEW s \in Streams, s.queries = <<>>, s.answers = <<>>
    PROVE  Aged(s) = s
<1> DEFINE q == [i \in DOMAIN s.queries |-> [s.queries[i] EXCEPT !.mine = FALSE]]
           r == [i \in DOMAIN s.answers |-> [s.answers[i] EXCEPT !.mine = FALSE]]
<1>1. q = <<>> /\ r = <<>>
  <2>1. DOMAIN s.queries = {} /\ DOMAIN s.answers = {}
    OBVIOUS
  <2>2. q \in Seq({}) /\ Len(q) = 0 /\ r \in Seq({}) /\ Len(r) = 0
    BY <2>1
  <2> QED
    BY <2>2
<1>2. Aged(s) = [s EXCEPT !.queries = q, !.answers = r]
  BY DEF Aged
<1> HIDE DEF q, r
<1>3. s = [peer |-> s.peer, queries |-> s.queries, answers |-> s.answers, open |-> s.open]
  BY DEF Streams
<1>4. [s EXCEPT !.queries = s.queries, !.answers = s.answers] = s
  BY <1>3 DEF Streams
<1> QED
  BY <1>1, <1>2, <1>4

(* forward's return leaves nothing in flight. *)
LEMMA ReturnTypes ==
    ASSUME NEW r \in ErrorOutcomes \cup Replies, Return(r)
    PROVE  /\ pc' = "idle" /\ exchange' = None /\ outcome' = None /\ attLeft' = 0
           /\ result' \in ErrorOutcomes \cup Replies \cup {None}
BY DEF Return

(* An error is what the outcome of an exchange, a server or forward can be. *)
LEMMA ErrorType ==
    /\ \A e \in Errors \cup Codes : Error(e) \in ErrorOutcomes
    /\ \A left : Remaining(left) \in Errors \cup {"ok"}
    /\ \A left, e : e \in Failures(left) => e \in Errors
BY DEF Error, ErrorOutcomes, Remaining, Failures, Errors
(* Streams, and what their frames become. *)
LEMMA StreamTypes ==
    /\ NoStream \in Streams
    /\ \A s \in Servers : Connected(s) \in Streams
    /\ \A s \in Streams : [s EXCEPT !.open = FALSE] \in Streams
    /\ \A s \in Streams, q \in Frames :
          [s EXCEPT !.queries = Append(@, q)] \in Streams
    /\ \A s \in Streams : s.answers # <<>> =>
          Head(s.answers) \in Received /\ [s EXCEPT !.answers = Tail(@)] \in Streams
    /\ \A s \in Streams : s.queries # <<>> => Head(s.queries) \in Frames
    /\ \A s \in Streams, r \in Received : s.queries # <<>> =>
          [s EXCEPT !.queries = Tail(@), !.answers = Append(@, r)] \in Streams
<1>1. NoStream \in Streams
  <2>1. <<>> \in Seq(Frames) /\ <<>> \in Seq(Received)
    OBVIOUS
  <2> QED
    BY <2>1 DEF NoStream, Streams
<1>2. ASSUME NEW s \in Servers
      PROVE  Connected(s) \in Streams
  BY <1>1 DEF Connected, Streams
<1>3. ASSUME NEW s \in Streams
      PROVE  [s EXCEPT !.open = FALSE] \in Streams
  BY DEF Streams
<1>4. ASSUME NEW s \in Streams, NEW q \in Frames
      PROVE  [s EXCEPT !.queries = Append(@, q)] \in Streams
  <2>1. Append(s.queries, q) \in Seq(Frames)
    BY DEF Streams
  <2> QED
    BY <2>1 DEF Streams
<1>5. ASSUME NEW s \in Streams, s.answers # <<>>
      PROVE  Head(s.answers) \in Received /\ [s EXCEPT !.answers = Tail(@)] \in Streams
  <2>1. Head(s.answers) \in Received /\ Tail(s.answers) \in Seq(Received)
    BY <1>5 DEF Streams
  <2> QED
    BY <2>1 DEF Streams
<1>6. ASSUME NEW s \in Streams, s.queries # <<>>
      PROVE  Head(s.queries) \in Frames /\ Tail(s.queries) \in Seq(Frames)
  BY <1>6 DEF Streams
<1>7. ASSUME NEW s \in Streams, NEW r \in Received, s.queries # <<>>
      PROVE  [s EXCEPT !.queries = Tail(@), !.answers = Append(@, r)] \in Streams
  <2>1. Tail(s.queries) \in Seq(Frames) /\ Append(s.answers, r) \in Seq(Received)
    BY <1>6, <1>7 DEF Streams
  <2> QED
    BY <2>1 DEF Streams
<1> QED
  BY <1>1, <1>2, <1>3, <1>4, <1>5, <1>6, <1>7

(* What a server sends has the fields of a response. *)
LEMMA AnswerType ==
    ASSUME NEW a \in Answers, NEW id \in Ids, NEW mine \in BOOLEAN
    PROVE  With(a, id, mine) \in Received
<1>1. a.code \in Codes /\ a.cookie \in Cookies /\ a.truncated \in BOOLEAN /\ a.sound \in BOOLEAN
  <2>1. CASE a \in [code : Codes, cookie : {"none", "bad"} \cup ServerCookies,
                    truncated : {FALSE}, sound : {TRUE}]
    BY <2>1 DEF Cookies
  <2>2. CASE \E s \in BOOLEAN :
               a = [code |-> "Final", cookie |-> "none", truncated |-> s, sound |-> s]
    BY <2>2 DEF Codes, Cookies
  <2> QED
    BY <2>1, <2>2 DEF Answers
<1> QED
  BY <1>1 DEF With, Received

(* A step of the worker, of a server or of time keeps the types. *)
LEMMA TypeStep ==
    ASSUME TypeOK, Placed, Synchronised, Clocks, Walk, [Next]_vars
    PROVE  TypeOK'
<1> USE DEF TypeOK, Exchanging, Sending, Streaming
<1>1. ASSUME NEW g \in Groups, NEW t \in {"udp", "tcp"}, NEW l \in Layouts,
             NEW c \in {"none", "client"} \cup ServerCookies, Forward(g, t, c, l)
      PROVE  TypeOK'
  <2>1. request' \in Requests
    BY <1>1 DEF Forward, Requests, Layouts
  <2>2. tried' \in Seq(ErrorOutcomes \cup Replies)
    BY <1>1 DEF Forward
  <2>3. sends' \in [udp : Nat, tcp : Nat]
    BY <1>1 DEF Forward
  <2> QED
    BY <1>1, <2>1, <2>2, <2>3, ForwarderAssumption DEF Forward, tcp, Errors
<1>2. CASE TryServer
  <2>1. Capped(AttemptTimeout) \in Nat
    BY ForwarderAssumption DEF Capped
  <2>2. ASSUME NEW r \in ErrorOutcomes, Return(r), stream' = stream
        PROVE  TypeOK'
    <3>1. /\ pc' = "idle" /\ exchange' = None /\ outcome' = None /\ attLeft' = 0
          /\ result' \in ErrorOutcomes \cup Replies \cup {None}
      BY <2>2, ReturnTypes
    <3>2. UNCHANGED <<stop, request, index, lastError, relayed, tried, reqLeft, idle,
                      stopAge, reused, cache>>
      BY <1>2 DEF TryServer
    <3>3. sends' = sends \/ sends' = [udp |-> 0, tcp |-> 0]
      BY <1>2 DEF TryServer, history
    <3>4. sends' \in [udp : Nat, tcp : Nat]
      BY <3>3
    <3>5. challenged' \in BOOLEAN /\ idFailed' \in BOOLEAN
      BY <1>2 DEF TryServer, history
    <3> QED
      BY <2>2, <3>1, <3>2, <3>4, <3>5
  <2>3. CASE Remaining(Capped(AttemptTimeout)) = "ok" /\ attLeft' = Capped(AttemptTimeout)
               /\ stream' = Aged(stream) /\ pc' = Transport(request.transport)
    <3>1. PICK id \in Ids :
              exchange' = [kind |-> "sent", stage |-> "first", id |-> id,
                           cookie |-> request.cookie, required |-> FALSE, invalid |-> 0]
      BY <1>2, <2>3 DEF TryServer, Return, Transport
    <3>2. exchange' \in SentQueries
      BY <3>1 DEF SentQueries, Requests
    <3>3. stream' = stream
      BY <1>2, <2>3, AgedClean DEF Synchronised, TryServer
    <3>4. sends' = [udp |-> 0, tcp |-> 0] /\ challenged' = FALSE
            /\ UNCHANGED <<outcome, result, idFailed>>
      BY <1>2, <2>3 DEF TryServer, Return, Transport
    <3>5. UNCHANGED <<stop, request, index, lastError, relayed, tried, reqLeft, idle,
                      stopAge, reused, cache>>
      BY <1>2 DEF TryServer
    <3>6. sends' \in [udp : Nat, tcp : Nat]
      BY <3>4
    <3> QED
      BY <1>2, <2>1, <2>3, <3>2, <3>3, <3>4, <3>5, <3>6 DEF TryServer, Transport
  <2> QED
    BY <1>2, <2>2, <2>3, ErrorType DEF TryServer, Errors, history
<1>3. CASE Exhausted
  <2>1. PICK r \in ErrorOutcomes \cup Replies : Return(r)
    BY <1>3, ErrorType DEF Exhausted
  <2> QED
    BY <1>3, <2>1, ReturnTypes DEF Exhausted, history, tcp
<1>4. CASE UdpSend
  BY <1>4, ErrorType DEF UdpSend, ExchangeEnds, walk, history, timers, tcp
<1>5. CASE UdpSent
  BY <1>5, ErrorType DEF UdpSent, ExchangeEnds, walk, timers, tcp, Errors
<1>6. CASE UdpGivesUp
  BY <1>6, ErrorType DEF UdpGivesUp, ExchangeEnds, walk, history, timers, tcp
<1>7. ASSUME NEW r \in Received, UdpReceive(r)
      PROVE  TypeOK'
  <2>1. Server \in Servers
    BY <1>7, ServerType DEF UdpReceive
  <2>2. Reply(r.code, r.cookie, TRUE, Server) \in Replies
    BY <2>1 DEF Reply, Replies, Received
  <2>3. exchange \in SentQueries /\ [exchange EXCEPT !.invalid = @ + 1] \in SentQueries
    BY <1>7 DEF UdpReceive, SentQueries
  <2>4. Error("InvalidResponse") \in ErrorOutcomes
    BY ErrorType DEF Errors
  <2>5. UNCHANGED <<stop, walk, history, timers, tcp>>
    BY <1>7 DEF UdpReceive
  <2>6. \/ pc' = "tcpStart" /\ UNCHANGED <<outcome, exchange>>
        \/ pc' = "decide" /\ outcome' \in ErrorOutcomes \cup Replies /\ UNCHANGED exchange
        \/ exchange' \in SentQueries /\ UNCHANGED <<pc, outcome>>
    BY <1>7, <2>2, <2>3, <2>4 DEF UdpReceive, ExchangeEnds
  <2> QED
    BY <1>7, <2>3, <2>5, <2>6 DEF UdpReceive, walk, history, timers, tcp
<1>8. CASE ExpireIdle
  BY <1>8, StreamTypes DEF ExpireIdle, walk, history
<1>9. CASE TcpStart
  <2>1. stream' \in Streams
    BY <1>9, StreamTypes DEF TcpStart
  <2> QED
    BY <1>9, <2>1, ErrorType DEF TcpStart, ExchangeEnds, walk, history
<1>10. CASE Connect
  <2>1. stream' \in Streams
    BY <1>10, ServerType, StreamTypes DEF Connect
  <2> QED
    BY <1>10, <2>1, ErrorType DEF Connect, ExchangeEnds, walk, history, timers, Errors
<1>11. ASSUME NEW e \in Errors, TcpFails(e), pc \in {"tcpWrite", "tcpRead"}
       PROVE  /\ pc' \in {"connecting", "decide"} /\ reused' = FALSE /\ cache' = cache
              /\ stream' \in Streams
              /\ outcome' \in ErrorOutcomes \cup Replies \cup {None}
              /\ pc' = "decide" => outcome' \in ErrorOutcomes \cup Replies
              /\ pc' # "decide" => outcome' = None
  BY <1>11, ErrorType, StreamTypes DEF TcpFails, ExchangeEnds
<1>12. CASE TcpWrite
  <2>1. UNCHANGED <<stop, exchange, walk, challenged, idFailed, timers>>
    BY <1>12 DEF TcpWrite
  <2>2. CASE \E e \in Failures(attLeft) : TcpFails(e) /\ UNCHANGED sends
    <3>1. PICK e \in Errors : TcpFails(e) /\ UNCHANGED sends
      BY <2>2, ErrorType
    <3> QED
      BY <1>11, <1>12, <2>1, <3>1 DEF TcpWrite, walk, timers
  <2>3. CASE sends' = [sends EXCEPT !.tcp = @ + 1] /\ pc' = "tcpRead"
               /\ UNCHANGED <<outcome, reused, cache>>
               /\ stream' = IF stream.open
                       THEN [stream EXCEPT !.queries = Append(@, [id |-> exchange.id, mine |-> TRUE])]
                       ELSE stream
    <3>1. [id |-> exchange.id, mine |-> TRUE] \in Frames
      BY <1>12 DEF TcpWrite, SentQueries, Frames
    <3>2. stream' \in Streams
      BY <2>3, <3>1, StreamTypes
    <3>3. sends' \in [udp : Nat, tcp : Nat]
      BY <2>3
    <3> QED
      BY <1>12, <2>1, <2>3, <3>2, <3>3 DEF TcpWrite, walk, timers
  <2> QED
    BY <1>12, <2>2, <2>3 DEF TcpWrite
<1>13. CASE TcpRead
  <2>1. UNCHANGED <<stop, exchange, walk, history, reqLeft, attLeft, stopAge>>
    BY <1>13 DEF TcpRead
  <2>2. CASE \E e \in Errors : TcpFails(e) /\ UNCHANGED idle
    BY <1>11, <1>13, <2>1, <2>2 DEF TcpRead, walk, history
  <2> DEFINE r == Head(stream.answers)
  <2>3. CASE /\ stream.answers # <<>>
             /\ ExchangeEnds(Reply(r.code, r.cookie, r.mine, stream.peer))
             /\ cache' = TRUE /\ idle' = 0 /\ reused' = FALSE
             /\ stream' = [stream EXCEPT !.answers = Tail(@)]
    <3>1. r \in Received /\ stream' \in Streams
      BY <2>3, StreamTypes
    <3>2. stream.peer \in Servers
      BY <1>13, ServerType DEF TcpRead, Synchronised
    <3>3. Reply(r.code, r.cookie, r.mine, stream.peer) \in Replies
      BY <3>1, <3>2 DEF Reply, Replies, Received
    <3> HIDE DEF r
    <3> QED
      BY <1>13, <2>1, <2>3, <3>1, <3>3 DEF TcpRead, ExchangeEnds, walk, history
  <2> HIDE DEF r
  <2>4. \A e : e \in Failures(attLeft) => e \in Errors
    BY ErrorType
  <2>5. {"InvalidResponse", "Io", "Parse"} \subseteq Errors
    BY DEF Errors
  <2> QED
    BY <1>13, <2>2, <2>3, <2>4, <2>5 DEF TcpRead, r
<1>14. CASE Decide
  <2>1. UNCHANGED <<stop, request, sends, reqLeft, idle, stopAge, reused, cache>>
           /\ pc = "decide"
    BY <1>14 DEF Decide
  <2>2. ASSUME NEW e \in Errors \cup Codes, ServerFails(e), stream' = stream,
               challenged' \in BOOLEAN, idFailed' \in BOOLEAN
        PROVE  TypeOK'
    <3>1. Error(e) \in ErrorOutcomes
      BY ErrorType
    <3>2. Append(tried, Error(e)) \in Seq(ErrorOutcomes \cup Replies)
      BY <3>1
    <3>3. tried' \in Seq(ErrorOutcomes \cup Replies)
      BY <2>2, <3>2 DEF ServerFails, NextServer
    <3> QED
      BY <2>1, <2>2, <3>1, <3>3 DEF ServerFails, NextServer, Return
  <2>3. ASSUME outcome \in Replies, ServerAnswers(outcome), UNCHANGED <<challenged, stream, idFailed>>
        PROVE  TypeOK'
    <3>1. Append(tried, outcome) \in Seq(ErrorOutcomes \cup Replies)
      BY <2>3
    <3>2. tried' \in Seq(ErrorOutcomes \cup Replies)
      BY <2>3, <3>1 DEF ServerAnswers
    <3>3. outcome.code \in Codes
      BY <2>3 DEF Replies
    <3>4. Remaining(reqLeft) # "ok" => Error(Remaining(reqLeft)) \in ErrorOutcomes
      BY ErrorType
    <3> QED
      BY <2>1, <2>3, <3>2, <3>3, <3>4 DEF ServerAnswers, Return
  <2>4. ASSUME NEW stage \in {"second", "last"}, NEW via \in {"udpSend", "tcpStart"},
               NEW cookie \in {"none", "client"} \cup ServerCookies, Requery(stage, via, cookie)
        PROVE  TypeOK'
    <3>1. stream' = stream
      BY <2>1, <2>4, AgedClean DEF Requery, Synchronised
    <3>2. exchange \in SentQueries
      BY <2>1
    <3>3. PICK id \in Ids : exchange' = [exchange EXCEPT !.stage = stage, !.id = id,
                                   !.cookie = cookie, !.required = TRUE, !.invalid = 0]
      BY <2>4 DEF Requery
    <3>4. exchange' \in SentQueries
      BY <3>2, <3>3 DEF SentQueries
    <3> QED
      BY <2>1, <2>4, <3>1, <3>4 DEF Requery
  <2>5. Transport(request.transport) \in {"udpSend", "tcpStart"}
    BY DEF Transport
  <2> QED
    BY <1>14, <2>2, <2>3, <2>4, <2>5, DecideCases DEF Walk
<1>15. CASE RequestStop
  BY <1>15 DEF RequestStop, walk, history, timers, tcp
<1>16. ASSUME NEW a \in Answers, NEW id \in Ids, StreamAnswer(a, id)
       PROVE  TypeOK'
  <2> DEFINE q == Head(stream.queries)
  <2>1. q \in Frames
    BY <1>16, StreamTypes DEF StreamAnswer
  <2>2. With(a, id, q.mine) \in Received
    BY <2>1, AnswerType DEF Frames
  <2>3. stream' \in Streams
    BY <1>16, <2>2, StreamTypes DEF StreamAnswer
  <2> QED
    BY <1>16, <2>3 DEF StreamAnswer, walk, history, timers
<1>17. CASE StreamCloses
  <2>1. stream' = [stream EXCEPT !.open = FALSE]
    BY <1>17 DEF StreamCloses
  <2>2. stream' \in Streams
    BY <2>1, StreamTypes
  <2> QED
    BY <1>17, <2>2 DEF StreamCloses, walk, history, timers
<1>18. CASE Tick
  <2>1. reqLeft' \in Nat /\ attLeft' \in Nat
    BY <1>18 DEF Tick, Remaining, ConnectLeft, Clocks
  <2>2. idle' \in Nat /\ stopAge' \in Nat
    BY <1>18 DEF Tick
  <2> QED
    BY <1>18, <2>1, <2>2 DEF Tick, walk, history, tcp
<1>19. CASE UNCHANGED vars
  BY <1>19 DEF vars, walk, history, timers, tcp
<1>20. \A a \in Answers, id \in Ids : With(a, id, TRUE) \in Received
  BY AnswerType
<1> QED
  BY <1>1, <1>2, <1>3, <1>4, <1>5, <1>6, <1>7, <1>8, <1>9, <1>10, <1>12,
     <1>13, <1>14, <1>15, <1>16, <1>17, <1>18, <1>19, <1>20 DEF Next, ForwarderStep
-----------------------------------------------------------------------------
(* The walk's place in the group *)

(* Every step leaves the walk at a server of the group, or at its end. *)
LEMMA PlacedStep ==
    ASSUME TypeOK, Placed, Walk, [Next]_vars
    PROVE  Placed'
<1> USE DEF Exchanging, Sending, Streaming, Placed
<1>1. \A g \in Groups : Len(g) \in Nat \ {0}
  BY ForwarderAssumption
<1>2. ASSUME NEW g \in Groups, NEW t \in {"udp", "tcp"}, NEW l \in Layouts,
             NEW c \in {"none", "client"} \cup ServerCookies, Forward(g, t, c, l)
      PROVE  Placed'
  BY <1>1, <1>2 DEF Forward
<1>3. CASE TryServer
  BY <1>1, <1>3 DEF TryServer, Return, Transport, TypeOK
<1>4. CASE Exhausted
  BY <1>4 DEF Exhausted, Return
<1>5. CASE Decide
  <2>1. pc = "decide" /\ request' = request
    BY <1>5 DEF Decide
  <2>2. \/ pc' = "idle"
        \/ pc' = "server" /\ index' = index + 1
        \/ pc' \in Exchanging /\ index' = index
    BY <1>5, DecideCases DEF Walk, ServerFails, NextServer, ServerAnswers, Return, Requery,
       Transport
  <2> QED
    BY <1>1, <2>1, <2>2
<1>6. CASE UNCHANGED <<request, index>> /\ (pc' = pc \/ (pc \in Exchanging /\ pc' \in Exchanging))
  BY <1>6
<1>7. CASE UdpSend \/ UdpSent \/ UdpGivesUp \/ TcpStart \/ Connect
  BY <1>6, <1>7 DEF UdpSend, UdpSent, UdpGivesUp, TcpStart, Connect, ExchangeEnds, walk
<1>8. CASE TcpWrite \/ TcpRead
  BY <1>6, <1>8 DEF TcpWrite, TcpRead, TcpFails, ExchangeEnds, walk
<1>9. CASE \E a \in Answers, id \in Ids : UdpReceive(With(a, id, TRUE))
  <2> PICK a \in Answers, id \in Ids : UdpReceive(With(a, id, TRUE))
    BY <1>9
  <2> QED
    BY <1>6 DEF UdpReceive, ExchangeEnds, walk
<1>10. CASE ExpireIdle \/ RequestStop \/ StreamCloses \/ Tick \/ UNCHANGED vars
             \/ \E a \in Answers, id \in Ids : StreamAnswer(a, id)
  BY <1>6, <1>10 DEF ExpireIdle, RequestStop, StreamCloses, Tick, vars, StreamAnswer, walk
<1> QED
  BY <1>2, <1>3, <1>4, <1>5, <1>7, <1>8, <1>9, <1>10 DEF Next, ForwarderStep

-----------------------------------------------------------------------------
(* Synchronised streams *)

(* Sequences of at most one frame. *)
LEMMA Single ==
    ASSUME NEW S, NEW s \in Seq(S)
    PROVE  /\ Len(s) \in Nat /\ (s = <<>> <=> Len(s) = 0)
           /\ Len(s) = 1 => Tail(s) = <<>> /\ Head(s) = s[1]
           /\ \A x \in S : s = <<>> => Len(Append(s, x)) = 1 /\ Append(s, x)[1] = x
<1>1. \A t \in Seq(S) : Len(t) \in Nat /\ (t = <<>> <=> Len(t) = 0)
  OBVIOUS
<1>2. ASSUME Len(s) = 1
      PROVE  Tail(s) = <<>> /\ Head(s) = s[1]
  <2>1. s # <<>>
    BY <1>2
  <2>2. Tail(s) \in Seq(S) /\ Len(Tail(s)) = 0
    BY <1>2, <2>1
  <2>3. Tail(s) = <<>>
    BY <1>1, <2>2
  <2>4. Head(s) = s[1]
    BY <1>2
  <2> QED
    BY <2>3, <2>4
<1>3. ASSUME NEW x \in S, s = <<>>
      PROVE  Len(Append(s, x)) = 1 /\ Append(s, x)[1] = x
  BY <1>3
<1> QED
  BY <1>1, <1>2, <1>3

(* A query goes out only on an empty stream, and its answer is read from    *)
(* the stream before the stream is cached; after an error it is dropped.    *)
LEMMA SynchronisedStep ==
    ASSUME TypeOK, Placed, Synchronised, AnswersThisQuery, Walk, [Next]_vars
    PROVE  Synchronised' /\ AnswersThisQuery'
<1> USE DEF Exchanging, Sending, Streaming
<1> DEFINE Empty(s) == s.queries = <<>> /\ s.answers = <<>>
<1>1. Empty(NoStream) /\ \A s \in Servers : Empty(Connected(s)) /\ Connected(s).peer = s
  BY DEF NoStream, Connected
<1>2. ASSUME pc' \notin {"tcpWrite", "tcpRead"}, Empty(stream'), ~cache' => stream' = NoStream,
             pc' \in Streaming => ~cache'
      PROVE  Synchronised'
  BY <1>2 DEF Synchronised
<1>3. outcome' = None => AnswersThisQuery'
  BY DEF AnswersThisQuery, None
<1>4. \A e : Error(e).kind # "reply"
  BY DEF Error
<1>5. ASSUME NEW g \in Groups, NEW t \in {"udp", "tcp"}, NEW l \in Layouts,
             NEW c \in {"none", "client"} \cup ServerCookies, Forward(g, t, c, l)
      PROVE  Synchronised' /\ AnswersThisQuery'
  BY <1>2, <1>3, <1>5 DEF Forward, Synchronised, tcp
<1>6. CASE TryServer
  <2>1. pc = "server" /\ Empty(stream) /\ outcome = None
    BY <1>6 DEF TryServer, Synchronised, TypeOK
  <2>2. stream' = stream /\ outcome' = None /\ pc' \notin Streaming /\ cache' = cache
    BY <1>6, <2>1, AgedClean DEF TryServer, TypeOK, Return, history, Transport
  <2> QED
    BY <1>2, <1>3, <2>1, <2>2 DEF Synchronised
<1>7. CASE Exhausted
  BY <1>2, <1>3, <1>7 DEF Exhausted, Return, Synchronised, tcp
<1>8. CASE UdpSend \/ UdpSent \/ UdpGivesUp
  <2>1. pc \in Sending /\ pc' \notin Streaming /\ UNCHANGED tcp
           /\ (outcome' = outcome \/ \E e : outcome' = Error(e))
    BY <1>8 DEF UdpSend, UdpSent, UdpGivesUp, ExchangeEnds
  <2> QED
    BY <1>2, <1>3, <1>4, <2>1 DEF Synchronised, AnswersThisQuery, tcp, TypeOK
<1>9. ASSUME NEW r, UdpReceive(r)
      PROVE  Synchronised' /\ AnswersThisQuery'
  <2>1. pc = "udpWait" /\ pc' \notin Streaming /\ UNCHANGED <<tcp, walk>>
    BY <1>9 DEF UdpReceive, ExchangeEnds
  <2>2. \/ outcome' = outcome
        \/ outcome' = Error("InvalidResponse")
        \/ outcome' = Reply(r.code, r.cookie, TRUE, Server)
    BY <1>9 DEF UdpReceive, ExchangeEnds
  <2>3. AnswersThisQuery'
    BY <1>3, <1>4, <2>1, <2>2 DEF AnswersThisQuery, TypeOK, Reply, Server, walk
  <2>4. Synchronised'
    BY <1>2, <2>1 DEF Synchronised, tcp
  <2> QED
    BY <2>3, <2>4
<1>10. CASE ExpireIdle
  BY <1>1, <1>2, <1>3, <1>10 DEF ExpireIdle, TypeOK
<1>11. CASE TcpStart
  <2>1. pc = "tcpStart" /\ Empty(stream) /\ UNCHANGED walk
    BY <1>11 DEF TcpStart, Synchronised
  <2>2. outcome' = outcome \/ \E e : outcome' = Error(e)
    BY <1>11 DEF TcpStart, ExchangeEnds
  <2>3. AnswersThisQuery'
    BY <1>4, <2>1, <2>2 DEF AnswersThisQuery, TypeOK, None
  <2>4. cache' = FALSE
    BY <1>11 DEF TcpStart
  <2>5. CASE cache /\ ~Expired /\ stream.peer = Server
    <3>1. stream' = stream /\ pc' = "tcpWrite"
      BY <1>11, <2>5 DEF TcpStart
    <3> QED
      BY <2>1, <2>3, <2>4, <2>5, <3>1 DEF Synchronised, Server, walk
  <2>6. CASE ~(cache /\ ~Expired /\ stream.peer = Server)
    <3>1. stream' = NoStream /\ pc' \in {"connecting", "decide"}
      BY <1>11, <2>6 DEF TcpStart, ExchangeEnds
    <3> QED
      BY <1>1, <1>2, <2>3, <2>4, <3>1
  <2> QED
    BY <2>5, <2>6
<1>12. CASE Connect
  <2>1. pc = "connecting" /\ ~cache' /\ stream = NoStream /\ UNCHANGED walk
    BY <1>12 DEF Connect, Synchronised
  <2>2. CASE stream' = Connected(Server) /\ pc' = "tcpWrite" /\ UNCHANGED outcome
    <3>1. Server \in Servers
      BY <2>1, ServerType
    <3>2. Empty(stream') /\ stream'.peer = Server'
      BY <1>1, <2>1, <2>2, <3>1 DEF Server, walk
    <3> QED
      BY <1>3, <2>1, <2>2, <3>2 DEF Synchronised, TypeOK
  <2>3. CASE pc' = "decide" /\ UNCHANGED stream /\ \E e : outcome' = Error(e)
    BY <1>1, <1>2, <1>4, <2>1, <2>3 DEF AnswersThisQuery
  <2> QED
    BY <1>12, <2>2, <2>3 DEF Connect, ExchangeEnds
<1>13. ASSUME NEW e, TcpFails(e), pc \in {"tcpWrite", "tcpRead"}
       PROVE  Synchronised' /\ AnswersThisQuery'
  <2>1. ~cache' /\ stream' = NoStream /\ pc' \in {"connecting", "decide"}
    BY <1>13 DEF TcpFails, ExchangeEnds, Synchronised
  <2>2. outcome' = outcome \/ \E f : outcome' = Error(f)
    BY <1>13 DEF TcpFails, ExchangeEnds
  <2> QED
    BY <1>1, <1>2, <1>4, <1>13, <2>1, <2>2 DEF AnswersThisQuery, TypeOK, None
<1>14. CASE TcpWrite
  <2>1. CASE /\ pc' = "tcpRead" /\ UNCHANGED <<outcome, cache>>
             /\ stream' = IF stream.open
                       THEN [stream EXCEPT !.queries = Append(@, [id |-> exchange.id, mine |-> TRUE])]
                       ELSE stream
    <3>1. pc = "tcpWrite" /\ Empty(stream) /\ ~cache /\ stream.peer = Server /\ UNCHANGED walk
      BY <1>14 DEF TcpWrite, Synchronised
    <3> DEFINE q == [id |-> exchange.id, mine |-> TRUE]
               qs == stream.queries
    <3>2. q \in Frames /\ q.mine /\ qs \in Seq(Frames)
      BY <3>1 DEF TypeOK, SentQueries, Frames, Streams
    <3>3. /\ stream'.peer = stream.peer /\ stream'.answers = <<>>
          /\ stream'.queries = <<>> \/ stream'.queries = Append(qs, q)
      BY <2>1, <3>1 DEF TypeOK, Streams
    <3> HIDE DEF q, qs
    <3>4. qs = <<>>
      BY <3>1 DEF qs
    <3>5. Len(Append(qs, q)) = 1 /\ Append(qs, q)[1] = q
      BY <3>2, <3>4, Single
    <3>6. /\ Len(stream'.queries) + Len(stream'.answers) <= 1
          /\ \A i \in 1..Len(stream'.queries) : stream'.queries[i].mine
          /\ \A i \in 1..Len(stream'.answers) : stream'.answers[i].mine
      BY <3>2, <3>3, <3>5
    <3> QED
      BY <1>3, <2>1, <3>1, <3>3, <3>6 DEF Synchronised, Server, walk, TypeOK
  <2> QED
    BY <1>13, <1>14, <2>1 DEF TcpWrite
<1>15. CASE TcpRead
  <2> DEFINE r == Head(stream.answers)
  <2>1. pc = "tcpRead" /\ UNCHANGED walk
    BY <1>15 DEF TcpRead
  <2>2. CASE /\ stream.answers # <<>>
             /\ ExchangeEnds(Reply(r.code, r.cookie, r.mine, stream.peer))
             /\ cache' = TRUE
             /\ stream' = [stream EXCEPT !.answers = Tail(@)]
    <3>1. stream.queries \in Seq(Frames) /\ stream.answers \in Seq(Received)
      BY DEF TypeOK, Streams
    <3>2. Len(stream.queries) + Len(stream.answers) <= 1
      BY <2>1 DEF Synchronised
    <3>3. Len(stream.queries) = 0 /\ Len(stream.answers) = 1
      <4>1. Len(stream.queries) \in Nat
        BY <3>1, Single
      <4>2. Len(stream.answers) \in Nat /\ Len(stream.answers) # 0
        BY <2>2, <3>1, Single
      <4>3. \A m, n \in Nat : m + n <= 1 /\ n # 0 => m = 0 /\ n = 1
        OBVIOUS
      <4> QED
        BY <3>2, <4>1, <4>2, <4>3, Zenon
    <3>4. r = stream.answers[1] /\ Tail(stream.answers) = <<>> /\ stream.queries = <<>>
      BY <3>1, <3>3, Single
    <3>5. r.mine /\ stream.peer = Server
      BY <2>1, <3>3, <3>4 DEF Synchronised
    <3>6. stream'.queries = <<>> /\ stream'.answers = <<>>
      BY <2>2, <3>4 DEF TypeOK, Streams
    <3>7. Synchronised'
      BY <1>2, <2>2, <3>6 DEF ExchangeEnds
    <3>8. AnswersThisQuery'
      BY <2>1, <2>2, <3>5 DEF ExchangeEnds, Reply, AnswersThisQuery, Server, walk
    <3> QED
      BY <3>7, <3>8
  <2> QED
    BY <1>13, <1>15, <2>1, <2>2 DEF TcpRead
<1>16. CASE Decide
  <2>1. pc = "decide" /\ cache' = cache /\ Empty(stream) /\ (~cache => stream = NoStream)
    BY <1>16 DEF Decide, Synchronised
  <2>2. pc' \notin Streaming /\ stream' = stream /\ outcome' = None
    BY <1>16, <2>1, DecideCases, AgedClean DEF Walk, ServerFails, NextServer, ServerAnswers,
       Return, Requery, Transport, TypeOK
  <2> QED
    BY <1>2, <1>3, <2>1, <2>2
<1>17. CASE RequestStop \/ Tick \/ UNCHANGED vars
  <2>1. UNCHANGED <<pc, outcome, walk, tcp>>
    BY <1>17 DEF RequestStop, Tick, vars
  <2> QED
    BY <2>1 DEF Synchronised, AnswersThisQuery, walk, tcp, Server
<1>18. ASSUME NEW a \in Answers, NEW id \in Ids, StreamAnswer(a, id)
       PROVE  Synchronised' /\ AnswersThisQuery'
  <2> DEFINE q == Head(stream.queries)
  <2>1. UNCHANGED <<pc, outcome, walk, cache>> /\ stream.queries # <<>>
    BY <1>18 DEF StreamAnswer
  <2>2. stream.queries \in Seq(Frames) /\ stream.answers \in Seq(Received)
    BY DEF TypeOK, Streams
  <2>3. pc = "tcpRead" /\ ~cache /\ stream.peer = Server
    BY <2>1 DEF Synchronised, TypeOK
  <2>4. Len(stream.queries) + Len(stream.answers) <= 1
    BY <2>3 DEF Synchronised
  <2>5. Len(stream.queries) = 1 /\ Len(stream.answers) = 0
    <3>1. Len(stream.queries) \in Nat /\ Len(stream.queries) # 0
      BY <2>1, <2>2, Single
    <3>2. Len(stream.answers) \in Nat
      BY <2>2, Single
    <3>3. \A m, n \in Nat : m + n <= 1 /\ m # 0 => m = 1 /\ n = 0
      OBVIOUS
    <3> QED
      BY <2>4, <3>1, <3>2, <3>3, Zenon
  <2>6. q = stream.queries[1] /\ Tail(stream.queries) = <<>> /\ stream.answers = <<>>
    BY <2>2, <2>5, Single
  <2>7. q.mine /\ q \in Frames
    BY <2>2, <2>3, <2>5, <2>6 DEF Synchronised
  <2> DEFINE w == With(a, id, q.mine)
  <2>8. w \in Received /\ w.mine
    BY <2>7, AnswerType DEF Frames, With
  <2>9. /\ stream'.queries = Tail(stream.queries)
        /\ stream'.answers = Append(stream.answers, w)
        /\ stream'.peer = stream.peer
    BY <1>18 DEF StreamAnswer, TypeOK, Streams
  <2> HIDE DEF q, w
  <2>10. Len(stream'.queries) = 0 /\ Len(stream'.answers) = 1 /\ stream'.answers[1] = w
    <3>1. Len(<<>>) = 0
      OBVIOUS
    <3>2. Len(Append(stream.answers, w)) = 1 /\ Append(stream.answers, w)[1] = w
      BY <2>2, <2>6, <2>8, Single
    <3> QED
      BY <2>6, <2>9, <3>1, <3>2
  <2> QED
    BY <2>1, <2>3, <2>8, <2>9, <2>10 DEF Synchronised, AnswersThisQuery, Server, walk
<1>19. CASE StreamCloses
  <2>1. /\ stream.open /\ UNCHANGED <<pc, outcome, walk, cache>>
        /\ stream'.queries = stream.queries /\ stream'.answers = stream.answers
        /\ stream'.peer = stream.peer
    BY <1>19 DEF StreamCloses, TypeOK, Streams
  <2>2. stream # NoStream
    BY <2>1 DEF NoStream
  <2> QED
    BY <2>1, <2>2 DEF Synchronised, AnswersThisQuery, Server, walk
<1> QED
  BY <1>5, <1>6, <1>7, <1>8, <1>9, <1>10, <1>11, <1>12, <1>14, <1>15, <1>16, <1>17,
     <1>18, <1>19 DEF Next, ForwarderStep
-----------------------------------------------------------------------------
(* Deadlines and cancellation *)

(* What an action of an exchange leaves alone. *)
LEMMA ExchangeSteps ==
    ASSUME \/ UdpSend \/ UdpSent \/ UdpGivesUp \/ TcpStart \/ Connect \/ TcpWrite \/ TcpRead
           \/ \E a \in Answers, id \in Ids : UdpReceive(With(a, id, TRUE))
    PROVE  /\ pc \in Exchanging /\ pc' \in Exchanging
           /\ UNCHANGED <<stop, reqLeft, attLeft, stopAge, challenged, idFailed>>
           /\ UNCHANGED walk
<1> USE DEF Exchanging, Sending, Streaming
<1>1. CASE UdpSend \/ UdpSent \/ UdpGivesUp \/ TcpStart \/ Connect
  BY <1>1 DEF UdpSend, UdpSent, UdpGivesUp, TcpStart, Connect, ExchangeEnds, history, timers
<1>2. CASE TcpWrite \/ TcpRead
  BY <1>2 DEF TcpWrite, TcpRead, TcpFails, ExchangeEnds, history, timers
<1>3. CASE \E a \in Answers, id \in Ids : UdpReceive(With(a, id, TRUE))
  <2> PICK a \in Answers, id \in Ids : UdpReceive(With(a, id, TRUE))
    BY <1>3
  <2> QED
    BY DEF UdpReceive, ExchangeEnds, history, timers
<1> QED
  BY <1>1, <1>2, <1>3

(* Only a new attempt sets its clock, from what is left of the request and  *)
(* not after stop; in a tick both clocks run.                               *)
LEMMA ClocksStep ==
    ASSUME TypeOK, Clocks, Walk, [Next]_vars
    PROVE  Clocks'
<1> USE DEF Clocks, TypeOK
<1>1. ASSUME NEW g \in Groups, NEW t \in {"udp", "tcp"}, NEW l \in Layouts,
             NEW c \in {"none", "client"} \cup ServerCookies, Forward(g, t, c, l)
      PROVE  Clocks'
  BY <1>1, ForwarderAssumption DEF Forward
<1>2. CASE TryServer
  <2>1. Capped(AttemptTimeout) \in Nat /\ Capped(AttemptTimeout) <= AttemptTimeout
           /\ Capped(AttemptTimeout) <= reqLeft
    BY ForwarderAssumption DEF Capped
  <2>2. UNCHANGED <<stop, reqLeft, stopAge>>
    BY <1>2 DEF TryServer
  <2>3. \/ pc' = "idle" /\ attLeft' = 0
        \/ ~stop /\ attLeft' = Capped(AttemptTimeout) /\ pc' # "idle"
    BY <1>2 DEF TryServer, Return, Remaining, Transport
  <2> QED
    BY <2>1, <2>2, <2>3, ForwarderAssumption
<1>3. CASE Exhausted
  BY <1>3, ForwarderAssumption DEF Exhausted, Return
<1>4. CASE UdpSend \/ UdpSent \/ UdpGivesUp \/ TcpStart \/ Connect \/ TcpWrite \/ TcpRead
             \/ \E a \in Answers, id \in Ids : UdpReceive(With(a, id, TRUE))
  BY <1>4, ExchangeSteps DEF Exchanging, Sending, Streaming
<1>5. CASE Decide
  <2>1. pc = "decide" /\ UNCHANGED <<stop, reqLeft, stopAge>>
    BY <1>5 DEF Decide
  <2>2. \/ pc' = "idle" /\ attLeft' = 0
        \/ pc' # "idle" /\ attLeft' = attLeft
    BY <1>5, DecideCases DEF Walk, ServerFails, NextServer, ServerAnswers, Return, Requery,
       Transport
  <2> QED
    BY <2>1, <2>2, ForwarderAssumption
<1>6. CASE ExpireIdle \/ StreamCloses \/ UNCHANGED vars \/ \E a \in Answers, id \in Ids : StreamAnswer(a, id)
  BY <1>6 DEF ExpireIdle, StreamCloses, vars, StreamAnswer, timers
<1>7. CASE RequestStop
  BY <1>7 DEF RequestStop, timers
<1>8. CASE Tick
  <2>1. CASE pc = "idle"
    BY <1>8, <2>1 DEF Tick
  <2>2. CASE pc # "idle"
    <3>1. attLeft > 0
      BY <1>8, <2>2 DEF Tick, Remaining, ConnectLeft
    <3> QED
      BY <1>8, <2>2, <3>1, ForwarderAssumption DEF Tick
  <2> QED
    BY <2>1, <2>2
<1> QED
  BY <1>1, <1>2, <1>3, <1>4, <1>5, <1>6, <1>7, <1>8 DEF Next, ForwarderStep

-----------------------------------------------------------------------------
(* Datagrams and frames *)

(* Each send is paid for by the stage it belongs to, and a frame also by    *)
(* the stream: a reused one costs one frame more than a new one.            *)
LEMMA BudgetStep ==
    ASSUME TypeOK, Budget, Walk, [Next]_vars
    PROVE  Budget'
<1> USE DEF Exchanging, Sending, Streaming
<1>1. sends.udp \in Nat /\ sends.tcp \in Nat
  BY DEF TypeOK
<1>2. pc \in Exchanging => exchange.stage \in {"first", "second", "last"} /\ Stage \in {0, 1, 2}
  BY DEF TypeOK, SentQueries, Stage
<1>3. sends.udp <= 2 /\ sends.tcp <= 6
  BY DEF Budget
<1>4. ASSUME pc' \in {"idle", "server"}, sends' = sends \/ sends' = [udp |-> 0, tcp |-> 0]
      PROVE  Budget'
  BY <1>1, <1>3, <1>4 DEF Budget
<1>5. ASSUME NEW g \in Groups, NEW t \in {"udp", "tcp"}, NEW l \in Layouts,
             NEW c \in {"none", "client"} \cup ServerCookies, Forward(g, t, c, l)
      PROVE  Budget'
  BY <1>4, <1>5 DEF Forward
<1>6. CASE TryServer
  <2>1. CASE pc' = "idle"
    BY <1>4, <1>6, <2>1 DEF TryServer, Return, history
  <2>2. CASE pc' # "idle"
    <3>1. sends' = [udp |-> 0, tcp |-> 0] /\ exchange'.stage = "first"
             /\ pc' \in {"udpSend", "tcpStart"}
      BY <1>6, <2>2 DEF TryServer, Return, Transport
    <3>2. Stage' = 0
      BY <3>1 DEF Stage
    <3> QED
      BY <3>1, <3>2 DEF Budget
  <2> QED
    BY <2>1, <2>2
<1>7. CASE Exhausted
  BY <1>4, <1>7 DEF Exhausted, Return, history
<1>8. ASSUME exchange'.stage = exchange.stage
      PROVE  Stage' = Stage
  BY <1>8 DEF Stage
<1>9. CASE UdpSend \/ UdpGivesUp
  <2>1. /\ pc \in {"udpSend", "udpWait"} /\ UNCHANGED <<exchange, sends, reused>>
        /\ pc' = "decide" \/ (pc = "udpSend" /\ pc' = "udpSending")
    BY <1>9 DEF UdpSend, UdpGivesUp, ExchangeEnds, history, tcp
  <2> QED
    BY <1>1, <1>2, <1>8, <2>1 DEF Budget
<1>10. CASE UdpSent
  <2>1. pc = "udpSending" /\ UNCHANGED <<exchange, reused>>
    BY <1>10 DEF UdpSent, tcp
  <2>2. \/ pc' = "decide" /\ sends' = sends
        \/ pc' = "udpWait" /\ sends'.udp = sends.udp + 1 /\ sends'.tcp = sends.tcp
    BY <1>10 DEF UdpSent, ExchangeEnds, TypeOK
  <2>3. Stage \in {0, 1} /\ sends.udp <= Stage
    BY <1>2, <2>1 DEF Budget, Stage
  <2> QED
    BY <1>1, <1>2, <1>8, <2>1, <2>2, <2>3 DEF Budget
<1>11. ASSUME NEW r, UdpReceive(r)
       PROVE  Budget'
  <2>1. pc = "udpWait" /\ UNCHANGED <<sends, reused>>
          /\ pc' \in {"tcpStart", "decide", "udpWait"}
    BY <1>11 DEF UdpReceive, ExchangeEnds, history, tcp
  <2>2. exchange'.stage = exchange.stage
    BY <1>11, <2>1 DEF UdpReceive, ExchangeEnds, TypeOK, SentQueries
  <2> QED
    BY <1>1, <1>2, <1>8, <2>1, <2>2 DEF Budget
<1>12. CASE TcpStart
  <2>1. pc = "tcpStart" /\ UNCHANGED <<exchange, sends>>
          /\ \/ reused' = TRUE /\ pc' = "tcpWrite"
             \/ reused' = FALSE /\ pc' \in {"connecting", "decide"}
    BY <1>12 DEF TcpStart, ExchangeEnds, history, TypeOK
  <2> QED
    BY <1>1, <1>2, <1>8, <2>1 DEF Budget
<1>13. CASE Connect
  <2>1. pc = "connecting" /\ UNCHANGED <<exchange, sends, reused>>
          /\ pc' \in {"tcpWrite", "decide"}
    BY <1>13 DEF Connect, ExchangeEnds, history
  <2> QED
    BY <1>1, <1>2, <1>8, <2>1 DEF Budget
<1>14. ASSUME NEW e, TcpFails(e), pc \in {"tcpWrite", "tcpRead"}, UNCHANGED <<sends, exchange>>
       PROVE  Budget'
  <2>1. reused' = FALSE /\ (pc' = "decide" \/ (reused /\ pc' = "connecting"))
    BY <1>14 DEF TcpFails, ExchangeEnds
  <2> QED
    BY <1>1, <1>2, <1>8, <1>14, <2>1 DEF Budget
<1>15. CASE TcpWrite
  <2>1. CASE sends' = [sends EXCEPT !.tcp = @ + 1] /\ pc' = "tcpRead" /\ UNCHANGED reused
    <3>1. sends'.udp = sends.udp /\ sends'.tcp = sends.tcp + 1
      BY <2>1 DEF TypeOK
    <3>2. pc = "tcpWrite" /\ UNCHANGED exchange
      BY <1>15 DEF TcpWrite
    <3> QED
      BY <1>1, <1>2, <1>8, <2>1, <3>1, <3>2 DEF Budget
  <2> QED
    BY <1>14, <1>15, <2>1 DEF TcpWrite
<1>16. CASE TcpRead
  <2>1. pc = "tcpRead" /\ UNCHANGED <<sends, exchange>>
    BY <1>16 DEF TcpRead, history
  <2>2. CASE pc' = "decide" /\ reused' = FALSE
    BY <1>1, <1>2, <1>8, <2>1, <2>2 DEF Budget
  <2> QED
    BY <1>14, <1>16, <2>1, <2>2 DEF TcpRead, ExchangeEnds
<1>17. CASE Decide
  <2>1. pc = "decide" /\ sends' = sends
    BY <1>17 DEF Decide
  <2>2. CASE pc' \in {"idle", "server"}
    BY <1>4, <2>1, <2>2
  <2>3. ASSUME NEW stage \in {"second", "last"}, NEW via \in {"udpSend", "tcpStart"},
               NEW cookie, Requery(stage, via, cookie),
               stage = "second" => exchange.stage = "first",
               stage = "last" => exchange.stage \in {"first", "second"} /\ via = "tcpStart"
        PROVE  Budget'
    <3>1. exchange'.stage = stage /\ pc' = via
      BY <2>1, <2>3 DEF Requery, TypeOK, SentQueries
    <3>2. Stage' \in {1, 2} /\ Stage' >= Stage + 1 /\ Stage \in {0, 1}
             /\ (Stage' = 2 <=> stage = "last")
      BY <2>3, <3>1 DEF Stage
    <3> QED
      BY <1>1, <2>1, <2>3, <3>1, <3>2 DEF Budget
  <2> QED
    BY <1>17, <2>2, <2>3, DecideCases DEF Walk, ServerFails, NextServer, ServerAnswers,
       Return, Transport
<1>18. CASE ExpireIdle \/ RequestStop \/ StreamCloses \/ Tick \/ UNCHANGED vars
              \/ \E a \in Answers, id \in Ids : StreamAnswer(a, id)
  <2>1. UNCHANGED <<pc, exchange, sends, reused>>
    BY <1>18 DEF ExpireIdle, RequestStop, StreamCloses, Tick, vars, StreamAnswer, history, tcp
  <2> QED
    BY <1>8, <2>1 DEF Budget
<1> QED
  BY <1>5, <1>6, <1>7, <1>9, <1>10, <1>11, <1>12, <1>13, <1>15, <1>16, <1>17, <1>18
     DEF Next, ForwarderStep
-----------------------------------------------------------------------------
(* Cookies *)

(* After BADCOOKIE the query in flight requires a cookie, and no answer     *)
(* without one of the server's is accepted for it.                          *)
LEMMA ChallengesStep ==
    ASSUME TypeOK, Challenges, Walk, [Next]_vars
    PROVE  Challenges'
<1> USE DEF Exchanging, Sending, Streaming
<1>1. ASSUME NEW r \in Received, Valid(r), exchange.required
      PROVE  r.cookie \in ServerCookies
  BY <1>1 DEF Valid, ValidCookie, Received, Cookies
<1>2. \A e : Error(e).kind # "reply"
  BY DEF Error
<1>3. None.kind # "reply"
  BY DEF None
<1>4. ASSUME NEW g \in Groups, NEW t \in {"udp", "tcp"}, NEW l \in Layouts,
             NEW c \in {"none", "client"} \cup ServerCookies, Forward(g, t, c, l)
      PROVE  Challenges'
  BY <1>4 DEF Forward, Challenges
<1>5. CASE TryServer
  <2>1. \/ pc' = "idle" /\ outcome' = None
        \/ challenged' = FALSE
    BY <1>5 DEF TryServer, Return
  <2> QED
    BY <1>3, <2>1 DEF Challenges
<1>6. CASE Exhausted
  BY <1>3, <1>6 DEF Exhausted, Return, Challenges
<1>7. CASE Decide
  <2>1. pc = "decide"
    BY <1>7 DEF Decide
  <2>2. CASE pc' \in {"idle", "server"} /\ outcome' = None
    BY <1>3, <2>2 DEF Challenges
  <2>3. ASSUME NEW stage, NEW via, NEW cookie, Requery(stage, via, cookie)
        PROVE  Challenges'
    <3>1. exchange'.required /\ outcome' = None
      BY <2>1, <2>3 DEF Requery, TypeOK, SentQueries
    <3> QED
      BY <1>3, <3>1 DEF Challenges
  <2> QED
    BY <1>7, <2>2, <2>3, DecideCases DEF Walk, ServerFails, NextServer, ServerAnswers, Return
<1>8. ASSUME pc \in Exchanging, UNCHANGED challenged,
             exchange'.required = exchange.required,
             \/ outcome' = outcome
             \/ \E e : outcome' = Error(e)
             \/ \E r \in Received : Valid(r) /\ outcome'.cookie = r.cookie
      PROVE  Challenges'
  BY <1>1, <1>2, <1>8 DEF Challenges
<1>9. CASE UdpSend \/ UdpSent \/ UdpGivesUp \/ TcpStart \/ Connect
  <2>1. UNCHANGED <<exchange, challenged>> /\ pc \in Exchanging
           /\ (outcome' = outcome \/ \E e : outcome' = Error(e))
    BY <1>9 DEF UdpSend, UdpSent, UdpGivesUp, TcpStart, Connect, ExchangeEnds, history
  <2> QED
    BY <1>8, <2>1
<1>10. ASSUME NEW r \in Received, UdpReceive(r)
       PROVE  Challenges'
  <2>1. pc = "udpWait" /\ UNCHANGED challenged
    BY <1>10 DEF UdpReceive, history
  <2>2. exchange'.required = exchange.required
    BY <1>10, <2>1 DEF UdpReceive, TypeOK, SentQueries
  <2>3. \/ outcome' = outcome
        \/ \E e : outcome' = Error(e)
        \/ Valid(r) /\ outcome'.cookie = r.cookie
    BY <1>10 DEF UdpReceive, ExchangeEnds, Reply
  <2> QED
    BY <1>8, <2>1, <2>2, <2>3
<1>11. CASE TcpWrite
  <2>1. UNCHANGED <<exchange, challenged>> /\ pc \in Exchanging
           /\ (outcome' = outcome \/ \E e : outcome' = Error(e))
    BY <1>11 DEF TcpWrite, TcpFails, ExchangeEnds
  <2> QED
    BY <1>8, <2>1
<1>12. CASE TcpRead
  <2> DEFINE r == Head(stream.answers)
  <2>1. UNCHANGED <<exchange, challenged>> /\ pc \in Exchanging
    BY <1>12 DEF TcpRead, history
  <2>2. stream.answers # <<>> => r \in Received
    BY StreamTypes DEF TypeOK
  <2>3. \/ outcome' = outcome
        \/ \E e : outcome' = Error(e)
        \/ stream.answers # <<>> /\ Valid(r) /\ outcome'.cookie = r.cookie
    BY <1>12 DEF TcpRead, TcpFails, ExchangeEnds, Reply
  <2> HIDE DEF r
  <2> QED
    BY <1>8, <2>1, <2>2, <2>3
<1>13. CASE ExpireIdle \/ RequestStop \/ StreamCloses \/ Tick \/ UNCHANGED vars
              \/ \E a \in Answers, id \in Ids : StreamAnswer(a, id)
  <2>1. UNCHANGED <<pc, exchange, outcome, challenged>>
    BY <1>13 DEF ExpireIdle, RequestStop, StreamCloses, Tick, vars, StreamAnswer, history
  <2> QED
    BY <2>1 DEF Challenges
<1>14. \A a \in Answers, id \in Ids : With(a, id, TRUE) \in Received
  BY AnswerType
<1> QED
  BY <1>4, <1>5, <1>6, <1>7, <1>9, <1>10, <1>11, <1>12, <1>13, <1>14 DEF Next, ForwarderStep

-----------------------------------------------------------------------------
(* The walk over the group and its result *)

(* Remaining names the reason for which the time is over. *)
LEMMA RemainingReason ==
    \A left : /\ Remaining(left) \in {"Cancelled", "Timeout", "ok"}
              /\ Remaining(left) = "Cancelled" => stop
              /\ Remaining(left) = "Timeout" => left = 0
BY DEF Remaining

(* forward may return an error at any time that stop, the deadline or the   *)
(* entropy source justifies.                                                *)
LEMMA EarlyReturn ==
    ASSUME TypeOK, Walk, pc # "idle", NEW e, Return(Error(e)), UNCHANGED <<tried, request>>,
           \/ e = "Cancelled" /\ stop'
           \/ e = "Timeout" /\ reqLeft' = 0
           \/ e = "Io" /\ idFailed'
    PROVE  Walk' /\ ForwardOutcome'
<1>1. result' = Error(e) /\ pc' = "idle" /\ outcome' = None
  BY DEF Return
<1>2. \A i \in 1..Len(tried) : ~Final(tried[i])
  BY DEF Walk
<1>3. result'.kind = "error" /\ result'.error = e
  BY <1>1 DEF Error
<1>4. Walk'
  BY <1>1 DEF Walk, None
<1>5. ForwardOutcome'
  BY <1>2, <1>3 DEF ForwardOutcome
<1> QED
  BY <1>4, <1>5

(* One more server has been tried. *)
LEMMA OneMoreTried ==
    ASSUME TypeOK, NEW o \in ErrorOutcomes \cup Replies, tried' = Append(tried, o)
    PROVE  /\ Len(tried) \in Nat /\ Len(tried') = Len(tried) + 1
           /\ \A i \in 1..Len(tried) : tried'[i] = tried[i]
           /\ tried'[Len(tried) + 1] = o
<1>1. tried \in Seq(ErrorOutcomes \cup Replies)
  BY DEF TypeOK
<1> QED
  BY <1>1

(* After an error the walk goes on, and remembers what it knew of earlier   *)
(* answers.                                                                 *)
LEMMA WalkAfterError ==
    ASSUME TypeOK, Walk, pc = "decide", NEW e \in Errors \cup Codes, NextServer(e)
    PROVE  Walk' /\ ForwardOutcome'
<1>1. Error(e) \in ErrorOutcomes /\ ~Final(Error(e)) /\ ~Failure(Error(e))
  BY ErrorType DEF Final, Failure, Error
<1>2. /\ Len(tried) \in Nat /\ Len(tried') = Len(tried) + 1
      /\ \A i \in 1..Len(tried) : tried'[i] = tried[i]
      /\ tried'[Len(tried) + 1] = Error(e)
  BY <1>1, OneMoreTried DEF NextServer
<1>3. /\ pc' = "server" /\ index' = index + 1 /\ outcome' = None
      /\ UNCHANGED <<relayed, result>> /\ lastError' = e
  BY DEF NextServer
<1>4. /\ result = None /\ index = Len(tried) + 1
      /\ \A i \in 1..Len(tried) : ~Final(tried[i])
      /\ LatestFailure
  BY DEF Walk
<1>5. \A i \in 1..Len(tried') : ~Final(tried'[i])
  BY <1>1, <1>2, <1>4
<1>6. LatestFailure'
  <2>1. CASE relayed = None
    BY <1>1, <1>2, <1>3, <1>4, <2>1 DEF LatestFailure
  <2>2. CASE relayed # None
    <3>1. PICK i \in 1..Len(tried) :
              relayed = tried[i] /\ \A k \in 1..Len(tried) : Failure(tried[k]) => k <= i
      BY <1>4, <2>2 DEF LatestFailure
    <3>2. i \in 1..Len(tried') /\ relayed' = tried'[i]
      BY <1>2, <1>3, <3>1
    <3>3. \A k \in 1..Len(tried') : Failure(tried'[k]) => k <= i
      BY <1>1, <1>2, <3>1
    <3>4. Failure(relayed')
      BY <1>3, <1>4, <2>2 DEF LatestFailure
    <3> QED
      BY <1>3, <2>2, <3>2, <3>3, <3>4 DEF LatestFailure
  <2> QED
    BY <2>1, <2>2
<1>7. Walk'
  BY <1>2, <1>3, <1>4, <1>5, <1>6 DEF Walk, None
<1>8. ForwardOutcome'
  BY <1>3, <1>4 DEF ForwardOutcome
<1> QED
  BY <1>7, <1>8

(* An answer ends the walk if it is final; if not it is kept, as the latest *)
(* failure.                                                                 *)
LEMMA WalkAfterAnswer ==
    ASSUME TypeOK, Walk, pc = "decide", outcome \in Replies, ServerAnswers(outcome),
           Remaining(reqLeft) = "ok"
    PROVE  Walk' /\ ForwardOutcome'
<1>1. tried' = Append(tried, outcome) /\ outcome.kind = "reply" /\ outcome # None
  BY DEF ServerAnswers, Replies, None
<1>2. /\ Len(tried) \in Nat /\ Len(tried') = Len(tried) + 1
      /\ \A i \in 1..Len(tried) : tried'[i] = tried[i]
      /\ tried'[Len(tried) + 1] = outcome
  BY <1>1, OneMoreTried
<1>3. /\ result = None /\ index = Len(tried) + 1
      /\ \A i \in 1..Len(tried) : ~Final(tried[i])
  BY DEF Walk
<1>4. CASE ~RetriesInGroup(outcome.code)
  <2>1. result' = outcome /\ pc' = "idle" /\ outcome' = None
    BY <1>4 DEF ServerAnswers, Return
  <2>2. Final(outcome)
    BY <1>1, <1>4 DEF Final
  <2>3. Walk'
    BY <2>1 DEF Walk, None
  <2>4. \A i \in 1..Len(tried') : Final(tried'[i]) => i = Len(tried')
    BY <1>2, <1>3
  <2>5. Final(result') /\ Len(tried') > 0 /\ result' = tried'[Len(tried')]
    BY <1>2, <2>1, <2>2
  <2>6. result'.kind # "error"
    BY <1>1, <2>1
  <2>7. ForwardOutcome'
    BY <2>4, <2>5, <2>6 DEF ForwardOutcome
  <2> QED
    BY <2>3, <2>7
<1>5. CASE RetriesInGroup(outcome.code)
  <2>1. pc' = "server" /\ index' = index + 1 /\ outcome' = None /\ relayed' = outcome
          /\ result' = result
    BY <1>5 DEF ServerAnswers
  <2>2. Failure(outcome) /\ ~Final(outcome)
    BY <1>1, <1>5 DEF Failure, Final
  <2>3. LatestFailure'
    <3>1. Len(tried') \in 1..Len(tried') /\ relayed' = tried'[Len(tried')]
      BY <1>2, <2>1
    <3>2. \A k \in 1..Len(tried') : k <= Len(tried')
      BY <1>2
    <3> QED
      BY <1>1, <2>1, <2>2, <3>1, <3>2 DEF LatestFailure
  <2>4. \A i \in 1..Len(tried') : ~Final(tried'[i])
    BY <1>2, <1>3, <2>2
  <2>5. Walk'
    BY <1>1, <1>2, <1>3, <2>1, <2>3, <2>4 DEF Walk, None
  <2> QED
    BY <1>3, <2>1, <2>5 DEF ForwardOutcome
<1> QED
  BY <1>4, <1>5
(* Every step of forward keeps its books, and what it returns is what they  *)
(* say about the group.                                                     *)
LEMMA WalkStep ==
    ASSUME TypeOK, Placed, Walk, ForwardOutcome, [Next]_vars
    PROVE  Walk' /\ ForwardOutcome'
<1>1. ASSUME NEW g \in Groups, NEW t \in {"udp", "tcp"}, NEW l \in Layouts,
             NEW c \in {"none", "client"} \cup ServerCookies, Forward(g, t, c, l)
      PROVE  Walk' /\ ForwardOutcome'
  BY <1>1 DEF Forward, Walk, ForwardOutcome, LatestFailure, None
<1>2. CASE TryServer
  <2>1. pc = "server" /\ UNCHANGED <<stop, tried, request, reqLeft, index, lastError, relayed>>
    BY <1>2 DEF TryServer
  <2>2. ASSUME Return(Error(Remaining(Capped(AttemptTimeout)))),
               Remaining(Capped(AttemptTimeout)) # "ok"
        PROVE  Walk' /\ ForwardOutcome'
    <3>1. Capped(AttemptTimeout) = 0 => reqLeft = 0
      BY ForwarderAssumption DEF Capped, TypeOK
    <3> QED
      BY <2>1, <2>2, <3>1, RemainingReason, EarlyReturn
  <2>3. ASSUME Return(Error("Io")), idFailed'
        PROVE  Walk' /\ ForwardOutcome'
    BY <2>1, <2>3, EarlyReturn
  <2>4. ASSUME UNCHANGED <<outcome, result>>, pc' # "idle"
        PROVE  Walk' /\ ForwardOutcome'
    BY <2>1, <2>4 DEF Walk, ForwardOutcome, LatestFailure
  <2> QED
    BY <1>2, <2>2, <2>3, <2>4 DEF TryServer, Transport
<1>3. CASE Exhausted
  <2>1. pc = "server" /\ UNCHANGED <<stop, tried, request, reqLeft>> /\ index > Len(request.group)
    BY <1>3 DEF Exhausted
  <2>2. CASE Remaining(reqLeft) # "ok"
    BY <1>3, <2>1, <2>2, RemainingReason, EarlyReturn DEF Exhausted
  <2>3. CASE Remaining(reqLeft) = "ok"
    <3>1. Len(request.group) \in Nat /\ Len(request.group) > 0
      BY <2>1, ForwarderAssumption DEF Placed
    <3>2. Len(tried) = Len(request.group) /\ Len(tried) \in Nat /\ Len(tried) > 0
      BY <2>1, <3>1 DEF Placed, Walk, TypeOK
    <3>3. LatestFailure /\ \A i \in 1..Len(tried) : ~Final(tried[i])
      BY <2>1 DEF Walk
    <3>4. pc' = "idle" /\ outcome' = None
      BY <1>3 DEF Exhausted, Return
    <3>5. Walk'
      BY <3>4 DEF Walk, None
    <3>6. CASE relayed # None
      <4>1. result' = relayed /\ Failure(result') /\ result'.kind = "reply"
        BY <1>3, <2>3, <3>3, <3>6 DEF Exhausted, Return, LatestFailure, Failure
      <4>2. PICK i \in 1..Len(tried) :
                relayed = tried[i] /\ \A k \in 1..Len(tried) : Failure(tried[k]) => k <= i
        BY <3>3, <3>6 DEF LatestFailure
      <4> QED
        BY <2>1, <3>2, <3>3, <3>5, <4>1, <4>2 DEF ForwardOutcome
    <3>7. CASE relayed = None
      <4>1. result' = Error(lastError) /\ result'.kind = "error"
        BY <1>3, <2>3, <3>7 DEF Exhausted, Return, Error
      <4>2. tried # <<>>
        BY <3>2
      <4>3. result' = tried[Len(tried)]
        BY <2>1, <3>7, <4>1, <4>2 DEF Walk
      <4>4. \A i \in 1..Len(tried) : ~Failure(tried[i])
        BY <3>3, <3>7 DEF LatestFailure
      <4> QED
        BY <2>1, <3>2, <3>3, <3>5, <4>1, <4>3, <4>4 DEF ForwardOutcome
    <3> QED
      BY <3>6, <3>7
  <2> QED
    BY <2>2, <2>3
<1>4. ASSUME pc \in Exchanging, pc' \in Exchanging, UNCHANGED <<stop, walk>>,
             \/ outcome' = outcome
             \/ \E e : outcome' = Error(e) /\ (e = "Cancelled" => stop)
             \/ outcome'.kind = "reply"
      PROVE  Walk' /\ ForwardOutcome'
  <2>1. pc # "idle" /\ pc' # "idle"
    BY <1>4 DEF Exchanging, Sending, Streaming
  <2>2. outcome'.kind = "error" /\ outcome'.error = "Cancelled" => stop'
    BY <1>4 DEF Walk, Error
  <2> QED
    BY <1>4, <2>1, <2>2 DEF Walk, ForwardOutcome, LatestFailure, walk
<1>5. \A left, e : e \in Failures(left) /\ e = "Cancelled" => stop
  BY DEF Failures, Remaining
<1>6. CASE UdpSend \/ UdpSent \/ UdpGivesUp \/ TcpStart \/ Connect
  <2>1. \/ outcome' = outcome
        \/ \E e : outcome' = Error(e) /\ (e = "Cancelled" => stop)
    BY <1>5, <1>6, RemainingReason
       DEF UdpSend, UdpSent, UdpGivesUp, TcpStart, Connect, ExchangeEnds
  <2> QED
    BY <1>4, <1>6, <2>1, ExchangeSteps
<1>7. CASE \E a \in Answers, id \in Ids : UdpReceive(With(a, id, TRUE))
  <2>1. ASSUME NEW r, UdpReceive(r)
        PROVE  \/ outcome' = outcome
               \/ outcome' = Error("InvalidResponse")
               \/ outcome'.kind = "reply"
    BY <2>1 DEF UdpReceive, ExchangeEnds, Reply
  <2>2. \/ outcome' = outcome
        \/ \E e : outcome' = Error(e) /\ (e = "Cancelled" => stop)
        \/ outcome'.kind = "reply"
    <3>1. PICK r : UdpReceive(r)
      BY <1>7
    <3>2. "InvalidResponse" # "Cancelled"
      OBVIOUS
    <3> QED
      BY <2>1, <3>1, <3>2
  <2>3. pc \in Exchanging /\ pc' \in Exchanging /\ UNCHANGED <<stop, walk>>
    BY <1>7, ExchangeSteps
  <2> QED
    BY <1>4, <2>2, <2>3
<1>8. ASSUME NEW e, e = "Cancelled" => stop, TcpFails(e)
      PROVE  \/ outcome' = outcome
             \/ \E f : outcome' = Error(f) /\ (f = "Cancelled" => stop)
  BY <1>8, RemainingReason DEF TcpFails, ExchangeEnds
<1>9. CASE TcpWrite
  <2>1. \/ outcome' = outcome
        \/ \E e : outcome' = Error(e) /\ (e = "Cancelled" => stop)
    BY <1>5, <1>8, <1>9 DEF TcpWrite
  <2> QED
    BY <1>4, <1>9, <2>1, ExchangeSteps
<1>10. CASE TcpRead
  <2>1. \/ outcome' = outcome
        \/ \E e : outcome' = Error(e) /\ (e = "Cancelled" => stop)
        \/ outcome'.kind = "reply"
    BY <1>5, <1>8, <1>10 DEF TcpRead, ExchangeEnds, Reply
  <2> QED
    BY <1>4, <1>10, <2>1, ExchangeSteps
<1>11. CASE Decide
  <2>1. pc = "decide" /\ UNCHANGED <<stop, request, reqLeft>>
    BY <1>11 DEF Decide
  <2>2. ASSUME NEW e \in Errors \cup Codes, ServerFails(e), e = "Cancelled" => stop
        PROVE  Walk' /\ ForwardOutcome'
    <3>1. CASE e = "Cancelled"
      BY <2>1, <2>2, <3>1, EarlyReturn DEF ServerFails
    <3>2. CASE e # "Cancelled"
      BY <2>1, <2>2, <3>2, WalkAfterError DEF ServerFails
    <3> QED
      BY <3>1, <3>2
  <2>3. ASSUME outcome \in Replies, ServerAnswers(outcome)
        PROVE  Walk' /\ ForwardOutcome'
    <3>1. CASE Remaining(reqLeft) # "ok"
      BY <2>1, <2>3, <3>1, RemainingReason, EarlyReturn DEF ServerAnswers
    <3>2. CASE Remaining(reqLeft) = "ok"
      BY <2>1, <2>3, <3>2, WalkAfterAnswer
    <3> QED
      BY <3>1, <3>2
  <2>4. ASSUME NEW stage, NEW via \in {"udpSend", "tcpStart"}, NEW cookie,
               Requery(stage, via, cookie)
        PROVE  Walk' /\ ForwardOutcome'
    <3>1. UNCHANGED <<tried, index, lastError, relayed, result>> /\ pc' # "idle"
             /\ outcome' = None
      BY <2>4 DEF Requery
    <3> QED
      BY <2>1, <3>1 DEF Walk, ForwardOutcome, LatestFailure, None
  <2>5. Transport(request.transport) \in {"udpSend", "tcpStart"}
    BY DEF Transport
  <2> QED
    BY <1>11, <2>2, <2>3, <2>4, <2>5, DecideCases DEF Walk
<1>12. CASE ExpireIdle \/ RequestStop \/ StreamCloses \/ Tick \/ UNCHANGED vars
              \/ \E a \in Answers, id \in Ids : StreamAnswer(a, id)
  <2>1. UNCHANGED <<pc, outcome, walk, idFailed>>
    BY <1>12 DEF ExpireIdle, RequestStop, StreamCloses, Tick, vars, StreamAnswer, history
  <2>2. stop' = stop \/ stop'
    BY <1>12 DEF ExpireIdle, RequestStop, StreamCloses, Tick, vars, StreamAnswer
  <2>3. pc = "idle" => reqLeft' = reqLeft
    BY <1>12 DEF ExpireIdle, RequestStop, StreamCloses, Tick, vars, StreamAnswer, timers
  <2>4. UNCHANGED <<pc, outcome, request, index, lastError, relayed, result, tried, idFailed>>
    BY <2>1 DEF walk
  <2>5. Walk'
    BY <2>2, <2>4 DEF Walk, LatestFailure
  <2>6. CASE pc = "idle"
    BY <2>2, <2>3, <2>4, <2>5, <2>6 DEF ForwardOutcome
  <2>7. CASE pc # "idle"
    BY <2>4, <2>5, <2>7 DEF ForwardOutcome, Walk
  <2> QED
    BY <2>6, <2>7
<1> QED
  BY <1>1, <1>2, <1>3, <1>6, <1>7, <1>9, <1>10, <1>11, <1>12 DEF Next, ForwarderStep

-----------------------------------------------------------------------------
(* The invariant and what it says *)

(* A new Forwarder is idle, with an empty cache. *)
LEMMA InvInit == Init => Inv
<1> SUFFICES ASSUME Init PROVE Inv
  OBVIOUS
<1> USE DEF Init
<1>1. request \in Requests /\ sends \in [udp : Nat, tcp : Nat]
  BY DEF Requests, Layouts
<1>2. stream = NoStream /\ stream \in Streams
  BY StreamTypes
<1>3. tried \in Seq(ErrorOutcomes \cup Replies)
  OBVIOUS
<1>4. TypeOK
  BY <1>1, <1>2, <1>3 DEF TypeOK, Exchanging, Sending, Streaming, Errors
<1>5. Placed /\ Clocks /\ Budget
  BY ForwarderAssumption DEF Placed, Clocks, Budget, Exchanging, Sending, Streaming
<1>6. Synchronised
  BY <1>2 DEF Synchronised, Streaming, NoStream
<1>7. AnswersThisQuery /\ Challenges /\ Walk /\ ForwardOutcome
  BY DEF AnswersThisQuery, Challenges, Walk, ForwardOutcome, None, Exchanging, Sending, Streaming
<1> QED
  BY <1>4, <1>5, <1>6, <1>7 DEF Inv

(* The inductive invariant of forward, its exchanges and its cached stream. *)
THEOREM ForwarderInvariant == Spec => []Inv
<1>1. Inv /\ [Next]_vars => Inv'
  BY TypeStep, PlacedStep, SynchronisedStep, ClocksStep, BudgetStep, ChallengesStep, WalkStep
     DEF Inv
<1> QED
  BY <1>1, InvInit, PTL DEF Spec

(* forward returns what the group as a whole said, or the reason for which  *)
(* it could not ask all of it.                                              *)
THEOREM OutcomeOfTheGroup == Spec => []ForwardOutcome
<1> QED
  BY ForwarderInvariant, PTL DEF Inv

(* An accepted response answers this exchange's query and comes from the    *)
(* server asked, even when transaction IDs repeat.                          *)
THEOREM NoStrayAnswer == Spec => []AnswersThisQuery
<1> QED
  BY ForwarderInvariant, PTL DEF Inv

(* A cached stream carries nothing: no query without answer, no answer that *)
(* was not read.                                                            *)
THEOREM CacheIsClean == Spec => []CachedStreamClean
<1>1. Inv => CachedStreamClean
  BY DEF Inv, Synchronised, CachedStreamClean, Streaming
<1> QED
  BY <1>1, ForwarderInvariant, PTL

(* No attempt, retry or reconnection outlives the request's deadline.       *)
THEOREM WithinDeadline == Spec => []DeadlineKept
<1>1. Inv => DeadlineKept
  BY DEF Inv, Clocks, TypeOK, DeadlineKept
<1> QED
  BY <1>1, ForwarderInvariant, PTL

(* forward notices stop within one attempt timeout. *)
THEOREM StopsInTime == Spec => []CancelledInTime
<1>1. Inv => CancelledInTime
  BY ForwarderAssumption DEF Inv, Clocks, TypeOK, CancelledInTime
<1> QED
  BY <1>1, ForwarderInvariant, PTL

(* A request costs a server at most two datagrams and six frames. *)
THEOREM ServersAreSpared == Spec => []SendsBounded
<1>1. Inv => SendsBounded
  BY DEF Inv, Budget, SendsBounded
<1> QED
  BY <1>1, ForwarderInvariant, PTL

(* After BADCOOKIE an answer without a server cookie is not accepted. *)
THEOREM CookiesAreKept == Spec => []NoCookieDowngrade
<1>1. Inv => NoCookieDowngrade
  BY DEF Inv, Challenges, NoCookieDowngrade
<1> QED
  BY <1>1, ForwarderInvariant, PTL
=============================================================================
