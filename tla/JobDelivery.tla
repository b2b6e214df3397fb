---------------------------- MODULE JobDelivery -----------------------------
(***************************************************************************)
(* What a worker pool promises to the listener that owns it, whatever      *)
(* threads, queues and condition variables it is made of (the contract in  *)
(* the comments of src/src/server/pool.rs).  A job offered is refused or   *)
(* accepted; an accepted job is run at most once or, after stop, thrown    *)
(* away; and the verdict of shutdown tells the truth about faults.         *)
(***************************************************************************)
EXTENDS FiniteSets

CONSTANT Jobs

VARIABLES
    state,     \* what became of each job
    stopping,  \* stop was requested
    faulty,    \* some worker panicked
    verdict    \* what shutdown reported

deliveryVars == <<state, stopping, faulty, verdict>>

Moves(S, from, to) ==
    /\ \A j \in S : state[j] = from
    /\ state' = [j \in Jobs |-> IF j \in S THEN to ELSE state[j]]

DeliveryInit ==
    /\ state = [j \in Jobs |-> "new"]
    /\ stopping = FALSE /\ faulty = FALSE /\ verdict = "none"

Accept(j) ==
    /\ ~stopping
    /\ Moves({j}, "new", "waiting")
    /\ UNCHANGED <<stopping, faulty, verdict>>

Refuse(j) ==
    /\ Moves({j}, "new", "refused")
    /\ UNCHANGED <<stopping, faulty, verdict>>

(* The pool binds itself to run the job; the handler may start later.       *)
Begin(j) ==
    /\ ~stopping
    /\ Moves({j}, "waiting", "running")
    /\ UNCHANGED <<stopping, faulty, verdict>>

End(j) ==
    /\ Moves({j}, "running", "finished")
    /\ UNCHANGED <<stopping, faulty, verdict>>

Discard(S) ==
    /\ stopping
    /\ Moves(S, "waiting", "discarded")
    /\ UNCHANGED <<stopping, faulty, verdict>>

RequestStop ==
    /\ stopping' = TRUE
    /\ UNCHANGED <<state, faulty, verdict>>

(* A worker panics; a job it was running ends there. *)
Fault(S) ==
    /\ verdict \in {"none", "timeout"}
    /\ Moves(S, "running", "finished")
    /\ faulty' = TRUE
    /\ UNCHANGED <<stopping, verdict>>

Report(v) ==
    /\ stopping /\ verdict = "none"
    /\ v = "failed" => faulty
    /\ v = "ok" => ~faulty /\ \A j \in Jobs : state[j] \notin {"waiting", "running"}
    /\ verdict' = v
    /\ UNCHANGED <<state, stopping, faulty>>

DeliveryNext ==
    \/ \E j \in Jobs : Accept(j) \/ Refuse(j) \/ Begin(j) \/ End(j)
    \/ \E S \in SUBSET Jobs : Discard(S)
    \/ RequestStop
    \/ Fault({}) \/ \E j \in Jobs : Fault({j})
    \/ \E v \in {"ok", "failed", "timeout"} : Report(v)

DeliverySpec == DeliveryInit /\ [][DeliveryNext]_deliveryVars
=============================================================================
