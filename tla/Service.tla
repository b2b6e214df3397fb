------------------------------ MODULE Service -------------------------------
(***************************************************************************)
(* Start-up, life and shutdown of the service (Server::run and the two     *)
(* listener loops of src/src/server.rs): the main thread receives UDP, one *)
(* thread accepts TCP, each owns a worker pool, and all share one stop     *)
(* flag.  A pool is any implementation of the contract JobDelivery, with   *)
(* its jobs left out: it may fault, and its shutdown reports a verdict.    *)
(*                                                                         *)
(* Time is counted in ticks; IO_POLL is shorter than a tick, so a polled   *)
(* loop notices stop within the tick, while accept() blocks until somebody *)
(* connects.  What a thread does without blocking takes no time.           *)
(*                                                                         *)
(* pc of main: udpPool, tcpPool, spawn (start-up), serving, wake, udpJoin, *)
(*   tcpJoin, returned.                                                    *)
(* pc of the listener: none, loop, accept, check, exit, close, finish,     *)
(*   ended, panicked.                                                      *)
(***************************************************************************)
EXTENDS Integers

CONSTANT ShutdownTimeout   \* LISTENER_SHUTDOWN_TIMEOUT, in ticks

ASSUME ServiceAssumption == ShutdownTimeout \in Nat \ {0}

Pools == {"udp", "tcp"}

VARIABLES
    stop,      \* the flag shared by everybody
    mpc, lpc,  \* the two threads
    knock,     \* somebody is in the listener's backlog
    mainLeft,  \* ticks until shutdown_deadline
    tcpLeft,   \* ticks until the deadline of the listener's own shutdown
    gone,      \* all workers of the pool have sent their completion
    faulty,    \* a worker of the pool panicked
    verdict,   \* what the pool's shutdown returned
    received,  \* result of receive_udp
    listened,  \* result of accept_tcp
    finished,  \* the listener's completion message is in its channel
    result,    \* result of run
    stopAge,   \* history: ticks since stop was set
    woken,     \* history: the wake connection came through
    late       \* history: workers were still running when the time was up

pools == <<gone, faulty, verdict>>
vars == <<stop, mpc, lpc, knock, mainLeft, tcpLeft, pools, received, listened,
          finished, result, stopAge, woken, late>>

Udp == INSTANCE JobDelivery WITH
    Jobs <- {}, state <- <<>>, stopping <- stop,
    faulty <- faulty["udp"], verdict <- verdict["udp"]
Tcp == INSTANCE JobDelivery WITH
    Jobs <- {}, state <- <<>>, stopping <- stop,
    faulty <- faulty["tcp"], verdict <- verdict["tcp"]

Init ==
    /\ stop = FALSE
    /\ mpc = "udpPool" /\ lpc = "none" /\ knock = FALSE
    /\ mainLeft = 0 /\ tcpLeft = 0
    /\ gone = [p \in Pools |-> FALSE] /\ faulty = [p \in Pools |-> FALSE]
    /\ verdict = [p \in Pools |-> "none"]
    /\ received = "none" /\ listened = "none" /\ finished = FALSE
    /\ result = "none" /\ stopAge = 0
    /\ woken = FALSE /\ late = FALSE

-----------------------------------------------------------------------------
(* The main thread *)

Boot(from, to) ==
    /\ mpc = from /\ mpc' = to
    /\ lpc' = IF to = "serving" THEN "loop" ELSE lpc
    /\ UNCHANGED <<stop, knock, mainLeft, tcpLeft, pools, received, listened,
                   finished, result, stopAge, woken, late>>

(* A pool, local_addr or the listener thread cannot be made: the pools that *)
(* exist are dropped, which sets stop, and run returns the error.  When a   *)
(* pool fails half-way, Pool::new waits up to 3 s for the workers it has;   *)
(* that is part of this step, and no property is about its duration.        *)
BootFails ==
    /\ mpc \in {"udpPool", "tcpPool", "spawn"}
    /\ stop' = TRUE /\ mpc' = "returned" /\ result' = "error"
    /\ UNCHANGED <<lpc, knock, mainLeft, tcpLeft, pools, received, listened,
                   finished, stopAge, woken, late>>

(* receive_udp ends because of stop or of a socket error; run stores stop   *)
(* in either case and starts the clock of the shutdown.                     *)
ReceiveEnds(r) ==
    /\ mpc = "serving"
    /\ r = "ok" => stop
    /\ received' = r
    /\ stop' = TRUE /\ mainLeft' = ShutdownTimeout
    /\ mpc' = "wake"
    /\ UNCHANGED <<lpc, knock, tcpLeft, pools, listened, finished, result, stopAge, woken, late>>

(* A local connection wakes accept, unless the host does not let it through. *)
Wake ==
    /\ mpc = "wake" /\ mpc' = "udpJoin"
    /\ woken' \in BOOLEAN
    /\ knock' = (knock \/ woken')
    /\ UNCHANGED <<stop, lpc, mainLeft, tcpLeft, pools, received, listened,
                   finished, result, stopAge, late>>

(* Pool::shutdown as its contract allows it: the verdict is a timeout when  *)
(* the deadline finds workers still running, and the truth otherwise.       *)
Verdict(p, left) ==
    IF gone[p] THEN {"ok", "failed"} ELSE IF left = 0 THEN {"timeout"} ELSE {}

UdpReportsThenRestarts ==
    /\ mpc = "udpJoin"
    /\ \E v \in Verdict("udp", mainLeft) :
         verdict' = [verdict EXCEPT !["udp"] = v] /\ UNCHANGED <<stop, faulty>>
         /\ Udp!Report(v)
    /\ mpc' = "tcpJoin" /\ mainLeft' = ShutdownTimeout
    /\ UNCHANGED <<lpc, knock, tcpLeft, gone, received, listened,
                   finished, result, stopAge, woken, late>>

(* udp_pool.shutdown(shutdown_deadline) *)
UdpPoolReports ==
    /\ mpc = "udpJoin"
    /\ \E v \in Verdict("udp", mainLeft) :
         verdict' = [verdict EXCEPT !["udp"] = v] /\ UNCHANGED <<stop, faulty>>
         /\ Udp!Report(v)
    /\ mpc' = "tcpJoin"
    /\ UNCHANGED <<lpc, knock, mainLeft, tcpLeft, gone, received, listened,
                   finished, result, stopAge, woken, late>>

ResultWithoutUdp(tcpResult) ==
    IF received = "ok" /\ tcpResult = "ok" THEN "ok" ELSE "error"

(* result.and(udp_workers).and(tcp_result) *)
Result(tcpResult) ==
    IF received = "ok" /\ verdict["udp"] = "ok" /\ tcpResult = "ok" THEN "ok" ELSE "error"

(* The completion arrived, or its sender is gone: join the listener thread. *)
JoinListener ==
    /\ mpc = "tcpJoin" /\ lpc \in {"ended", "panicked"}
    /\ mpc' = "returned"
    /\ result' = Result(IF lpc = "ended" /\ listened = "ok" /\ verdict["tcp"] = "ok"
                        THEN "ok" ELSE "error")
    /\ UNCHANGED <<stop, lpc, knock, mainLeft, tcpLeft, pools, received, listened,
                   finished, stopAge, woken, late>>

ListenerTimesOut ==
    /\ mpc = "tcpJoin" /\ ~finished /\ lpc # "panicked" /\ mainLeft = 0
    /\ mpc' = "returned" /\ result' = Result("timeout")
    /\ UNCHANGED <<stop, lpc, knock, mainLeft, tcpLeft, pools, received, listened,
                   finished, stopAge, woken, late>>

Main ==
    \/ Boot("udpPool", "tcpPool") \/ Boot("tcpPool", "spawn") \/ Boot("spawn", "serving")
    \/ Wake \/ UdpPoolReports \/ JoinListener \/ ListenerTimesOut

-----------------------------------------------------------------------------
(* The TCP listener thread; it ends with the process. *)

Alive == mpc # "returned"

LoopHead ==
    /\ Alive /\ lpc = "loop"
    /\ IF stop THEN lpc' = "exit" /\ listened' = "ok" ELSE lpc' = "accept" /\ UNCHANGED listened
    /\ UNCHANGED <<stop, mpc, knock, mainLeft, tcpLeft, pools, received, finished,
                   result, stopAge, woken, late>>

Accepted ==
    /\ Alive /\ lpc = "accept" /\ knock
    /\ knock' = FALSE /\ lpc' = "check"
    /\ UNCHANGED <<stop, mpc, mainLeft, tcpLeft, pools, received, listened, finished,
                   result, stopAge, woken, late>>

(* accept fails: for the connection alone (retryable), or for good.         *)
AcceptFails(retryable) ==
    /\ Alive /\ lpc = "accept"
    /\ IF retryable THEN lpc' = "loop" /\ UNCHANGED listened
                    ELSE lpc' = "exit" /\ listened' = "error"
    /\ UNCHANGED <<stop, mpc, knock, mainLeft, tcpLeft, pools, received, finished,
                   result, stopAge, woken, late>>

(* The wake connection is dropped here, any other goes to the pool.         *)
CheckAccepted ==
    /\ Alive /\ lpc = "check"
    /\ IF stop THEN lpc' = "exit" /\ listened' = "ok" ELSE lpc' = "loop" /\ UNCHANGED listened
    /\ UNCHANGED <<stop, mpc, knock, mainLeft, tcpLeft, pools, received, finished,
                   result, stopAge, woken, late>>

(* Unwinding drops the pool, hence stop, and the sender of the completion.  *)
ListenerPanics ==
    /\ Alive /\ lpc = "check"
    /\ lpc' = "panicked" /\ stop' = TRUE
    /\ UNCHANGED <<mpc, knock, mainLeft, tcpLeft, pools, received, listened,
                   finished, result, stopAge, woken, late>>

ExitWithoutBudget ==
    /\ Alive /\ lpc = "exit"
    /\ stop' = TRUE /\ tcpLeft' = 0 /\ lpc' = "close"
    /\ UNCHANGED <<mpc, knock, mainLeft, pools, received, listened, finished,
                   result, stopAge, woken, late>>

(* The listener leaves accept_tcp: stop, then its pool's shutdown begins.   *)
ExitAccept ==
    /\ Alive /\ lpc = "exit"
    /\ stop' = TRUE /\ tcpLeft' = ShutdownTimeout /\ lpc' = "close"
    /\ UNCHANGED <<mpc, knock, mainLeft, pools, received, listened, finished,
                   result, stopAge, woken, late>>

TcpPoolReports ==
    /\ Alive /\ lpc = "close"
    /\ \E v \in Verdict("tcp", tcpLeft) :
         verdict' = [verdict EXCEPT !["tcp"] = v] /\ UNCHANGED <<stop, faulty>>
         /\ Tcp!Report(v)
    /\ lpc' = "finish"
    /\ UNCHANGED <<mpc, knock, mainLeft, tcpLeft, gone, received, listened,
                   finished, result, stopAge, woken, late>>

(* "Completion includes worker teardown, not just leaving accept." *)
Finish ==
    /\ Alive /\ lpc = "finish"
    /\ finished' = TRUE /\ lpc' = "ended"
    /\ UNCHANGED <<stop, mpc, knock, mainLeft, tcpLeft, pools, received, listened,
                   result, stopAge, woken, late>>

Listener ==
    LoopHead \/ Accepted \/ CheckAccepted \/ ExitAccept \/ TcpPoolReports \/ Finish

-----------------------------------------------------------------------------
(* Workers, clients, signals and time *)

Exists(p) == mpc \notin (IF p = "udp" THEN {"udpPool"} ELSE {"udpPool", "tcpPool"})

WorkerPanics(p) ==
    /\ Alive /\ Exists(p) /\ ~gone[p]
    /\ faulty' = [faulty EXCEPT ![p] = TRUE]
    /\ UNCHANGED <<stop, mpc, lpc, knock, mainLeft, tcpLeft, gone, verdict, received,
                   listened, finished, result, stopAge, woken, late>>
    /\ IF p = "udp" THEN Udp!Fault({}) ELSE Tcp!Fault({})

PanicUnnoticed(p) == FALSE

(* ... and the first thing its thread does then is to stop the service.     *)
PanicStops(p) ==
    /\ Alive /\ faulty[p] /\ ~stop /\ stop' = TRUE
    /\ UNCHANGED <<mpc, lpc, knock, mainLeft, tcpLeft, pools, received, listened,
                   finished, result, stopAge, woken, late>>

(* The last worker of the pool sends its completion. *)
WorkersEnd(p) ==
    /\ Alive /\ Exists(p) /\ stop /\ ~gone[p]
    /\ gone' = [gone EXCEPT ![p] = TRUE]
    /\ late' = (late \/ stopAge >= ShutdownTimeout)
    /\ UNCHANGED <<stop, mpc, lpc, knock, mainLeft, tcpLeft, faulty, verdict,
                   received, listened, finished, result, stopAge, woken>>

ClientConnects ==
    /\ Alive /\ ~knock /\ knock' = TRUE
    /\ UNCHANGED <<stop, mpc, lpc, mainLeft, tcpLeft, pools, received, listened,
                   finished, result, stopAge, woken, late>>

Signal ==
    /\ Alive /\ ~stop /\ stop' = TRUE
    /\ UNCHANGED <<mpc, lpc, knock, mainLeft, tcpLeft, pools, received, listened,
                   finished, result, stopAge, woken, late>>

(* Some thread has something to do that does not block. *)
Busy ==
    \/ mpc \in {"udpPool", "tcpPool", "spawn", "wake"}
    \/ mpc = "serving" /\ stop
    \/ mpc = "udpJoin" /\ (gone["udp"] \/ mainLeft = 0)
    \/ mpc = "tcpJoin" /\ (finished \/ lpc = "panicked" \/ mainLeft = 0)
    \/ lpc \in {"loop", "check", "exit", "finish"}
    \/ lpc = "accept" /\ knock
    \/ lpc = "close" /\ (gone["tcp"] \/ tcpLeft = 0)
    \/ \E p \in Pools : faulty[p] /\ ~stop

(* saturating_duration_since, one tick later *)
Down(n) == IF n > 0 THEN n - 1 ELSE 0

Tick ==
    /\ Alive /\ stop /\ ~Busy
    /\ mainLeft' = Down(mainLeft) /\ tcpLeft' = Down(tcpLeft)
    /\ stopAge' = stopAge + 1
    /\ UNCHANGED <<stop, mpc, lpc, knock, pools, received, listened, finished, result, woken, late>>

Returned == mpc = "returned" /\ UNCHANGED vars

Next ==
    \/ Main \/ BootFails \/ \E r \in {"ok", "error"} : ReceiveEnds(r)
    \/ Listener \/ ListenerPanics \/ \E b \in BOOLEAN : AcceptFails(b)
    \/ \E p \in Pools : WorkerPanics(p) \/ PanicStops(p) \/ WorkersEnd(p)
    \/ ClientConnects \/ Signal \/ Tick
    \/ Returned

Spec == Init /\ [][Next]_vars

(* Threads that are not blocked run, time passes, and a panicking worker    *)
(* gets to store stop.  Workers need not end, nobody needs to connect.      *)
Fairness ==
    /\ WF_vars(Main) /\ WF_vars(ReceiveEnds("ok")) /\ WF_vars(Listener)
    /\ WF_vars(Tick) /\ \A p \in Pools : WF_vars(PanicStops(p))

FairSpec == Spec /\ Fairness

-----------------------------------------------------------------------------
(* Properties *)

(* run answers Ok only if nothing was left running and nothing went wrong:  *)
(* both pools are joined, no worker of either panicked, the listener thread *)
(* has ended, and neither socket failed.                                    *)
OkMeansAllDown ==
    result = "ok" =>
        /\ \A p \in Pools : gone[p] /\ ~faulty[p]
        /\ lpc = "ended" /\ received = "ok" /\ listened = "ok"

(* Shutdown is bounded: run is over at most LISTENER_SHUTDOWN_TIMEOUT after *)
(* stop, even with stuck workers in both pools and a listener that nothing  *)
(* wakes.                                                                   *)
ShutdownBounded == mpc # "returned" => stopAge <= ShutdownTimeout

(* A panic anywhere, a dead listener socket or a signal ends run.           *)
TroubleEndsRun ==
    (stop \/ (\E p \in Pools : faulty[p]) \/ listened = "error") ~> mpc = "returned"

(* A stop that meets no trouble leads to an orderly end and never to a      *)
(* timeout: if the wake connection came through and the workers of both     *)
(* pools ended in time, an error of run means that a socket or a thread     *)
(* failed, wherever in the shutdown the workers ended.                      *)
OrderlyIfPossible ==
    result = "error" /\ woken /\ ~late /\ (\A p \in Pools : gone[p]) =>
        \/ received = "error" \/ listened = "error" \/ lpc = "panicked"
        \/ \E p \in Pools : faulty[p]
=============================================================================
