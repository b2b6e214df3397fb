--------------------------- MODULE ServiceProofs ----------------------------
(***************************************************************************)
(* Proofs about Service for every shutdown timeout: run answers Ok only    *)
(* when everything is down, is over within the timeout after stop, and     *)
(* reports an error after an orderly shutdown only for a cause.            *)
(*                                                                         *)
(* The argument is a bookkeeping of the two clocks.  Time stands still     *)
(* while main can move, so from the moment it starts its clock the time    *)
(* since stop and the time left add up to the timeout (MainPlace); the     *)
(* listener's clock starts no earlier (ListenerPlace).  So a verdict of    *)
(* timeout can only be given when the whole timeout has passed, and        *)
(* workers that end after that are recorded as late (Reports).             *)
(***************************************************************************)
EXTENDS Service, TLAPS

MainPlaces == {"udpPool", "tcpPool", "spawn", "serving", "wake", "udpJoin", "tcpJoin", "returned"}
ListenerPlaces == {"none", "loop", "accept", "check", "exit", "close", "finish", "ended", "panicked"}

(* The values the threads, clocks, pools and results of Server::run take.   *)
TypeOK ==
    /\ stop \in BOOLEAN /\ knock \in BOOLEAN /\ finished \in BOOLEAN
    /\ woken \in BOOLEAN /\ late \in BOOLEAN
    /\ mpc \in MainPlaces /\ lpc \in ListenerPlaces
    /\ mainLeft \in Nat /\ tcpLeft \in Nat /\ stopAge \in Nat
    /\ gone \in [Pools -> BOOLEAN] /\ faulty \in [Pools -> BOOLEAN]
    /\ verdict \in [Pools -> {"none", "ok", "failed", "timeout"}]
    /\ received \in {"none", "ok", "error"} /\ listened \in {"none", "ok", "error"}
    /\ result \in {"none", "ok", "error"}

(* A verdict stays true after it was given: Ok of a pool is not spoilt by a *)
(* later panic, and a timeout was not given early.                          *)
Reports ==
    \A p \in Pools :
        /\ verdict[p] = "ok" => gone[p] /\ ~faulty[p]
        /\ verdict[p] = "failed" => faulty[p]
        /\ verdict[p] = "timeout" => stopAge >= ShutdownTimeout /\ (gone[p] => late)

(* Where main is tells how much of the shutdown's time is used up.          *)
MainPlace ==
    /\ mpc \in {"udpPool", "tcpPool", "spawn", "serving", "wake"} => ~woken /\ stopAge = 0
    /\ mpc = "wake" => mainLeft = ShutdownTimeout
    /\ mpc \in {"udpJoin", "tcpJoin"} => stopAge + mainLeft = ShutdownTimeout
    /\ mpc \in {"wake", "udpJoin", "tcpJoin"} => stop /\ received # "none" /\ lpc # "none"
    /\ mpc \in {"udpPool", "tcpPool", "spawn"} => lpc = "none"
    /\ mpc = "serving" => lpc # "none"
    /\ mpc = "tcpJoin" => verdict["udp"] # "none"
    /\ woken => stop

(* What the listener has done when it is past accept, and that a wake       *)
(* connection reaches it: nothing but a pool that is still running holds it *)
(* when the time is up.                                                     *)
ListenerPlace ==
    /\ lpc \in {"exit", "close", "finish", "ended"} => listened # "none"
    /\ lpc \in {"close", "finish", "ended"} => stopAge + tcpLeft >= ShutdownTimeout
    /\ lpc \in {"finish", "ended"} => verdict["tcp"] # "none"
    /\ finished = (lpc = "ended")
    /\ woken /\ lpc = "accept" => knock
    /\ woken /\ stopAge >= ShutdownTimeout /\ gone["tcp"] /\ ~late =>
           lpc \in {"ended", "panicked"}

(* Results are final: they exist only when run has returned.                *)
Outcome ==
    /\ result # "none" => mpc = "returned"
    /\ result = "ok" => /\ \A p \in Pools : verdict[p] = "ok"
                        /\ lpc = "ended" /\ received = "ok" /\ listened = "ok"
    /\ OrderlyIfPossible

Inv == TypeOK /\ Reports /\ MainPlace /\ ListenerPlace /\ Outcome

-----------------------------------------------------------------------------
(* Server::run starts with both clocks off and nothing reported.            *)
LEMMA InvInit == Init => Inv
<1> SUFFICES ASSUME Init PROVE Inv
  OBVIOUS
<1> USE ServiceAssumption DEF Init, Pools
<1>1. TypeOK
  BY DEF TypeOK, MainPlaces, ListenerPlaces
<1>2. Reports /\ MainPlace
  BY DEF Reports, MainPlace
<1>3. ListenerPlace /\ Outcome
  BY DEF ListenerPlace, Outcome, OrderlyIfPossible
<1> QED
  BY <1>1, <1>2, <1>3 DEF Inv

(* Every step of main, of the listener, of a worker, of a client and of the  *)
(* clock keeps the invariant.                                                *)
LEMMA InvStep ==
    ASSUME Inv, [Next]_vars PROVE Inv'
<1> USE ServiceAssumption DEF Inv, TypeOK, MainPlaces, ListenerPlaces, Pools, Reports, MainPlace, ListenerPlace, Outcome,
       OrderlyIfPossible
<1>1. CASE Boot("udpPool", "tcpPool")
  BY <1>1 DEF Boot, pools
<1>2. CASE Boot("tcpPool", "spawn")
  BY <1>2 DEF Boot, pools
<1>3. CASE Boot("spawn", "serving")
  BY <1>3 DEF Boot, pools
<1>4. CASE Wake
  BY <1>4 DEF Wake, pools
<1>5. CASE UdpPoolReports
  BY <1>5 DEF UdpPoolReports, Verdict, Udp!Report, pools
<1>6. CASE JoinListener
  BY <1>6 DEF JoinListener, Result, pools
<1>7. CASE ListenerTimesOut
  BY <1>7 DEF ListenerTimesOut, Result, pools
<1>8. CASE BootFails
  BY <1>8 DEF BootFails, pools
<1>9. ASSUME NEW r \in {"ok", "error"}, ReceiveEnds(r) PROVE Inv'
  BY <1>9 DEF ReceiveEnds, pools
<1>10. CASE LoopHead
  BY <1>10 DEF LoopHead, Alive, pools
<1>11. CASE Accepted
  BY <1>11 DEF Accepted, Alive, pools
<1>12. CASE CheckAccepted
  BY <1>12 DEF CheckAccepted, Alive, pools
<1>13. CASE ExitAccept
  BY <1>13 DEF ExitAccept, Alive, pools
<1>14. CASE TcpPoolReports
  BY <1>14 DEF TcpPoolReports, Alive, Verdict, Tcp!Report, pools
<1>15. CASE Finish
  BY <1>15 DEF Finish, Alive, pools
<1>16. CASE ListenerPanics
  BY <1>16 DEF ListenerPanics, Alive, pools
<1>17. ASSUME NEW b \in BOOLEAN, AcceptFails(b) PROVE Inv'
  BY <1>17 DEF AcceptFails, Alive, pools
<1>18. ASSUME NEW p \in Pools, WorkerPanics(p) PROVE Inv'
  BY <1>18 DEF WorkerPanics, Alive, pools
<1>19. ASSUME NEW p \in Pools, PanicStops(p) PROVE Inv'
  BY <1>19 DEF PanicStops, Alive, pools
<1>20. ASSUME NEW p \in Pools, WorkersEnd(p) PROVE Inv'
  <2> USE <1>20 DEF WorkersEnd, Alive, pools
  <2>1. TypeOK'
    OBVIOUS
  <2>2. Reports' /\ MainPlace'
    OBVIOUS
  <2>3. ListenerPlace'
    OBVIOUS
  <2>4. Outcome'
    OBVIOUS
  <2> QED
    BY <2>1, <2>2, <2>3, <2>4
<1>21. CASE ClientConnects
  BY <1>21 DEF ClientConnects, Alive, pools
<1>22. CASE Signal
  BY <1>22 DEF Signal, Alive, pools
<1>23. CASE Tick
  BY <1>23 DEF Tick, Alive, Busy, Down, pools
<1>24. CASE UNCHANGED vars
  BY <1>24 DEF vars, pools
<1> QED
  BY <1>1, <1>2, <1>3, <1>4, <1>5, <1>6, <1>7, <1>8,
     <1>9, <1>10, <1>11, <1>12, <1>13, <1>14, <1>15, <1>16,
     <1>17, <1>18, <1>19, <1>20, <1>21, <1>22, <1>23, <1>24
     DEF Next, Main, Listener, Returned

-----------------------------------------------------------------------------
(* The service starts in the invariant and never leaves it.                 *)
THEOREM ServiceInvariant == Spec => []Inv
<1> QED
  BY InvInit, InvStep, PTL DEF Spec

(* The threads, clocks and results of Server::run keep their types.         *)
THEOREM ServiceTypes == Spec => []TypeOK
<1>1. Inv => TypeOK
  BY DEF Inv
<1> QED
  BY <1>1, ServiceInvariant, PTL

(* run answers Ok only if both pools are joined without a panic, the TCP    *)
(* listener thread has ended and neither socket failed: a worker cannot     *)
(* panic between the verdict on its pool and the return of run.             *)
THEOREM OkIsHonest == Spec => []OkMeansAllDown
<1>1. Inv => OkMeansAllDown
  BY DEF Inv, Reports, Outcome, OkMeansAllDown, Pools
<1> QED
  BY <1>1, ServiceInvariant, PTL

(* The two shutdowns and the join of the listener share one deadline: run   *)
(* is over at most LISTENER_SHUTDOWN_TIMEOUT after stop, however many       *)
(* workers are stuck.                                                       *)
THEOREM ShutdownIsBounded == Spec => []ShutdownBounded
<1>1. Inv => ShutdownBounded
  BY ServiceAssumption DEF Inv, TypeOK, MainPlaces, MainPlace, ShutdownBounded
<1> QED
  BY <1>1, ServiceInvariant, PTL

(* If the wake connection came through and all workers ended before the     *)
(* timeout, run does not fail with a timeout, whichever of main, listener   *)
(* and workers is served first at the last tick.                            *)
THEOREM ShutdownIsOrderly == Spec => []OrderlyIfPossible
<1>1. Inv => OrderlyIfPossible
  BY DEF Inv, Outcome
<1> QED
  BY <1>1, ServiceInvariant, PTL
=============================================================================
