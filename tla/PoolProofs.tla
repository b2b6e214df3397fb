----------------------------- MODULE PoolProofs -----------------------------
(***************************************************************************)
(* Proofs about the worker pool, for every number of workers, every queue  *)
(* capacity and every set of jobs.                                         *)
(*                                                                         *)
(* None of the properties of Pool is inductive by itself.  The inductive   *)
(* invariant adds to TypeOK where a job can be (Hands, JobOwnedOnce), what *)
(* is known once the owner has begun to close (Closing), that an unwound   *)
(* worker is remembered by the pool or by its own thread (Blame), and that *)
(* nothing runs any more once shutdown has joined (Joined).  Two further   *)
(* invariants count threads: Counted relates the completions shutdown      *)
(* expects to the threads that run, and NoLostWakeup is inductive once     *)
(* LookedAndSawNothing says what the holder of the mutex has seen.         *)
(***************************************************************************)
EXTENDS Pool, FiniteSetTheorems, TLAPS

(* A worker has a job in its hand exactly between popping and finishing it. *)
Hands ==
    \A w \in Workers : wjob[w] # NoJob <=> wpc[w] \in {"ready", "cleared", "handling"}

(* What close() has established, as far as the owner has come. *)
Closing ==
    /\ closed => stop /\ queue = <<>> /\ MutexFree
    /\ opc \in {"close", "notifyAll", "collect", "returned", "dropped"} => stop
    /\ opc \in {"notifyAll", "collect", "returned", "dropped"} => closed
    /\ opc \in {"collect", "returned", "dropped"} => Asleep = {}

(* A panic is on record, or the thread that caught it is about to do so.    *)
Blame ==
    /\ panicked <=> failed \/ \E w \in Workers : wpc[w] = "caught"

(* After shutdown has returned only Drop is left, and after its joins       *)
(* nobody is left to set failed.                                            *)
Joined ==
    /\ dropping => opc \in {"close", "notifyAll", "dropped"}
    /\ opc = "dropped" => dropping
    /\ result # "none" => closed /\ (dropping \/ opc = "returned")
    /\ result \in {"ok", "failed"} =>
          \A w \in Workers : wpc[w] \in {"unborn", "exited"}
    /\ result = "ok" => ~failed
    /\ result = "failed" => failed

Inv == TypeOK /\ Hands /\ JobOwnedOnce /\ Closing /\ Blame /\ Joined
-----------------------------------------------------------------------------
(* Type correctness *)

(* Every variable of the pool keeps its type and the queue its capacity:    *)
(* one step of any thread leaves them so.                                   *)
LEMMA TypeStep == TypeOK /\ [Next]_vars => TypeOK'
<1> SUFFICES ASSUME TypeOK, [Next]_vars PROVE TypeOK'
  OBVIOUS
<1> USE PoolAssumption DEF TypeOK, WorkerPc, OwnerPc, Fate
<1>1. CASE \E w \in Workers : Spawn(w)
  BY <1>1 DEF Spawn, Goto
<1>2. CASE \E j \in Jobs : Submit(j)
  <2> PICK j \in Jobs : Submit(j)
    BY <1>2
  <2>1. queue' \in Seq(Jobs) /\ Len(queue') <= Capacity
    BY DEF Submit, Full
  <2>2. fate' \in [Jobs -> Fate] /\ opc' \in OwnerPc
    BY DEF Submit
  <2> QED
    BY <2>1, <2>2 DEF Submit
<1>3. CASE NotifyOne
  BY <1>3 DEF NotifyOne, Goto, Asleep
<1>4. CASE BeginShutdown
  BY <1>4 DEF BeginShutdown
<1>5. CASE BeginDrop
  BY <1>5 DEF BeginDrop
<1>6. CASE CloseQueue
  BY <1>6 DEF CloseQueue
<1>7. CASE CloseNotify
  BY <1>7 DEF CloseNotify, WakeAll
<1>8. CASE Collect
  BY <1>8 DEF Collect
<1>9. CASE CollectTimesOut
  BY <1>9 DEF CollectTimesOut
<1>10. CASE Join
  BY <1>10 DEF Join
<1>11. CASE \E w \in Workers : LoopHead(w)
  BY <1>11 DEF LoopHead, Goto, ownerVars
<1>12. CASE \E w \in Workers : MaintainReturns(w)
  BY <1>12 DEF MaintainReturns, Goto, ownerVars
<1>13. CASE \E w \in Workers : NextJob(w)
  <2> PICK w \in Workers : NextJob(w)
    BY <1>13
  <2>1. CASE UNCHANGED <<queue, wjob, fate>>
    BY <2>1 DEF NextJob, Goto, PopFirst, ownerVars
  <2>2. CASE queue # <<>> /\ PopFirst(w)
    <3>1. Head(queue) \in Jobs /\ Tail(queue) \in Seq(Jobs)
             /\ Len(Tail(queue)) <= Capacity
      BY <2>2
    <3> QED
      BY <2>2, <3>1 DEF NextJob, Goto, PopFirst, ownerVars
  <2> QED
    BY <2>1, <2>2 DEF NextJob
<1>14. CASE \E w \in Workers : Wait(w)
  BY <1>14 DEF Wait, Goto, ownerVars
<1>15. CASE \E w \in Workers : WaitTimesOut(w)
  BY <1>15 DEF WaitTimesOut, Goto, ownerVars
<1>16. CASE \E w \in Workers : SpuriousWakeup(w)
  BY <1>16 DEF SpuriousWakeup, Goto, ownerVars
<1>17. CASE \E w \in Workers : JobReady(w)
  BY <1>17 DEF JobReady, Goto, MayHandle, ownerVars
<1>18. CASE \E w \in Workers : HandleReturns(w)
  BY <1>18 DEF HandleReturns, Goto, ownerVars
<1>19. CASE \E w \in Workers : Panic(w)
  BY <1>19 DEF Panic, Goto, ownerVars
<1>20. CASE \E w \in Workers : StateDropped(w)
  BY <1>20 DEF StateDropped, Goto, ownerVars
<1>21. CASE \E w \in Workers : StoreFailed(w)
  BY <1>21 DEF StoreFailed, Goto, ownerVars
<1>22. CASE \E w \in Workers : StoreStop(w)
  BY <1>22 DEF StoreStop, Goto, ownerVars
<1>23. CASE \E w \in Workers : PanicNotify(w)
  BY <1>23 DEF PanicNotify, ownerVars
<1>24. CASE \E w \in Workers : SendCompleted(w)
  BY <1>24 DEF SendCompleted, Goto, ownerVars
<1>25. CASE ExternalStop
  BY <1>25 DEF ExternalStop, ownerVars
<1>26. CASE UNCHANGED vars
  BY <1>26 DEF vars
<1>27. CASE \E w \in Workers : StartHandler(w)
  BY <1>27 DEF StartHandler, Goto, ownerVars
<1> QED
  BY <1>1, <1>2, <1>3, <1>4, <1>5, <1>6, <1>7, <1>8, <1>9, <1>10, <1>11,
     <1>12, <1>13, <1>14, <1>15, <1>16, <1>17, <1>18, <1>19, <1>20, <1>21,
     <1>22, <1>23, <1>24, <1>25, <1>26, <1>27
     DEF Next, Owner, Worker, ThreadStep, Terminated

(* The pool is built with an empty queue and no worker spawned yet.         *)
LEMMA InitTyped == Init => TypeOK
<1> SUFFICES ASSUME Init PROVE TypeOK
  OBVIOUS
<1>1. queue \in Seq(Jobs) /\ Len(queue) <= Capacity
  BY PoolAssumption DEF Init
<1>2. wpc \in [Workers -> WorkerPc]
  BY DEF Init, WorkerPc
<1>3. wjob \in [Workers -> Jobs \cup {NoJob}]
  BY DEF Init
<1>4. fate \in [Jobs -> Fate]
  BY DEF Init, Fate
<1> QED
  BY <1>1, <1>2, <1>3, <1>4 DEF Init, TypeOK, OwnerPc

(* The type invariant holds in every reachable state.                       *)
THEOREM TypeCorrect == Spec => []TypeOK
<1> QED
  BY InitTyped, TypeStep, PTL DEF Spec

-----------------------------------------------------------------------------
(* The inductive invariant, part by part *)

(* Only next_job fills a worker's hand and only the end of the job empties  *)
(* it.                                                                      *)
LEMMA HandsStep == TypeOK /\ Hands /\ [Next]_vars => Hands'
<1> SUFFICES ASSUME TypeOK, Hands, [Next]_vars PROVE Hands'
  OBVIOUS
<1> USE PoolAssumption DEF TypeOK, Hands
<1>1. CASE \E w \in Workers : Spawn(w)
  BY <1>1 DEF Spawn, Goto
<1>2. CASE \E j \in Jobs : Submit(j)
  BY <1>2 DEF Submit
<1>3. CASE NotifyOne
  BY <1>3 DEF NotifyOne, Goto, Asleep
<1>4. CASE BeginShutdown
  BY <1>4 DEF BeginShutdown
<1>5. CASE BeginDrop
  BY <1>5 DEF BeginDrop
<1>6. CASE CloseQueue
  BY <1>6 DEF CloseQueue
<1>7. CASE CloseNotify
  BY <1>7 DEF CloseNotify, WakeAll
<1>8. CASE Collect
  BY <1>8 DEF Collect
<1>9. CASE CollectTimesOut
  BY <1>9 DEF CollectTimesOut
<1>10. CASE Join
  BY <1>10 DEF Join
<1>11. CASE \E w \in Workers : LoopHead(w)
  BY <1>11 DEF LoopHead, Goto, ownerVars
<1>12. CASE \E w \in Workers : MaintainReturns(w)
  BY <1>12 DEF MaintainReturns, Goto, ownerVars
<1>13. CASE \E w \in Workers : NextJob(w)
  <2> PICK w \in Workers : NextJob(w)
    BY <1>13
  <2>1. queue # <<>> => Head(queue) \in Jobs
    OBVIOUS
  <2> QED
    BY <2>1 DEF NextJob, Goto, PopFirst
<1>14. CASE \E w \in Workers : Wait(w)
  BY <1>14 DEF Wait, Goto, ownerVars
<1>15. CASE \E w \in Workers : WaitTimesOut(w)
  BY <1>15 DEF WaitTimesOut, Goto, ownerVars
<1>16. CASE \E w \in Workers : SpuriousWakeup(w)
  BY <1>16 DEF SpuriousWakeup, Goto, ownerVars
<1>17. CASE \E w \in Workers : JobReady(w)
  BY <1>17 DEF JobReady, Goto, MayHandle, ownerVars
<1>18. CASE \E w \in Workers : HandleReturns(w)
  BY <1>18 DEF HandleReturns, Goto, ownerVars
<1>19. CASE \E w \in Workers : Panic(w)
  BY <1>19 DEF Panic, Goto, ownerVars
<1>20. CASE \E w \in Workers : StateDropped(w)
  BY <1>20 DEF StateDropped, Goto, ownerVars
<1>21. CASE \E w \in Workers : StoreFailed(w)
  BY <1>21 DEF StoreFailed, Goto, ownerVars
<1>22. CASE \E w \in Workers : StoreStop(w)
  BY <1>22 DEF StoreStop, Goto, ownerVars
<1>23. CASE \E w \in Workers : PanicNotify(w)
  BY <1>23 DEF PanicNotify, ownerVars
<1>24. CASE \E w \in Workers : SendCompleted(w)
  BY <1>24 DEF SendCompleted, Goto, ownerVars
<1>25. CASE ExternalStop
  BY <1>25 DEF ExternalStop, ownerVars
<1>26. CASE UNCHANGED vars
  BY <1>26 DEF vars
<1>27. CASE \E w \in Workers : StartHandler(w)
  BY <1>27 DEF StartHandler, Goto, ownerVars
<1> QED
  BY <1>1, <1>2, <1>3, <1>4, <1>5, <1>6, <1>7, <1>8, <1>9, <1>10, <1>11,
     <1>12, <1>13, <1>14, <1>15, <1>16, <1>17, <1>18, <1>19, <1>20, <1>21,
     <1>22, <1>23, <1>24, <1>25, <1>26, <1>27
     DEF Next, Owner, Worker, ThreadStep, Terminated

(* What close() establishes stays so: a worker that finds the queue closed  *)
(* neither keeps the mutex nor goes to sleep, and nobody can be caught      *)
(* between the two when the owner closes it.                                *)
LEMMA ClosingStep == TypeOK /\ Closing /\ [Next]_vars => Closing'
<1> SUFFICES ASSUME TypeOK, Closing, [Next]_vars PROVE Closing'
  OBVIOUS
<1> USE DEF TypeOK, Closing, MutexFree, Asleep
<1>1. CASE \E w \in Workers : Spawn(w)
  BY <1>1 DEF Spawn, Goto
<1>2. CASE \E j \in Jobs : Submit(j)
  BY <1>2 DEF Submit
<1>3. CASE NotifyOne
  BY <1>3 DEF NotifyOne, Goto, Asleep
<1>4. CASE BeginShutdown
  BY <1>4 DEF BeginShutdown
<1>5. CASE BeginDrop
  BY <1>5 DEF BeginDrop
<1>6. CASE CloseQueue
  BY <1>6 DEF CloseQueue
<1>7. CASE CloseNotify
  BY <1>7 DEF CloseNotify, WakeAll
<1>8. CASE Collect
  BY <1>8 DEF Collect
<1>9. CASE CollectTimesOut
  BY <1>9 DEF CollectTimesOut
<1>10. CASE Join
  BY <1>10 DEF Join
<1>11. CASE \E w \in Workers : LoopHead(w)
  BY <1>11 DEF LoopHead, Goto, ownerVars
<1>12. CASE \E w \in Workers : MaintainReturns(w)
  BY <1>12 DEF MaintainReturns, Goto, ownerVars
<1>13. CASE \E w \in Workers : NextJob(w)
  BY <1>13 DEF NextJob, Goto, PopFirst, ownerVars
<1>14. CASE \E w \in Workers : Wait(w)
  BY <1>14 DEF Wait, Goto, ownerVars
<1>15. CASE \E w \in Workers : WaitTimesOut(w)
  BY <1>15 DEF WaitTimesOut, Goto, ownerVars
<1>16. CASE \E w \in Workers : SpuriousWakeup(w)
  BY <1>16 DEF SpuriousWakeup, Goto, ownerVars
<1>17. CASE \E w \in Workers : JobReady(w)
  BY <1>17 DEF JobReady, Goto, MayHandle, ownerVars
<1>18. CASE \E w \in Workers : HandleReturns(w)
  BY <1>18 DEF HandleReturns, Goto, ownerVars
<1>19. CASE \E w \in Workers : Panic(w)
  BY <1>19 DEF Panic, Goto, ownerVars
<1>20. CASE \E w \in Workers : StateDropped(w)
  BY <1>20 DEF StateDropped, Goto, ownerVars
<1>21. CASE \E w \in Workers : StoreFailed(w)
  BY <1>21 DEF StoreFailed, Goto, ownerVars
<1>22. CASE \E w \in Workers : StoreStop(w)
  BY <1>22 DEF StoreStop, Goto, ownerVars
<1>23. CASE \E w \in Workers : PanicNotify(w)
  BY <1>23 DEF PanicNotify, ownerVars
<1>24. CASE \E w \in Workers : SendCompleted(w)
  BY <1>24 DEF SendCompleted, Goto, ownerVars
<1>25. CASE ExternalStop
  BY <1>25 DEF ExternalStop, ownerVars
<1>26. CASE UNCHANGED vars
  BY <1>26 DEF vars
<1>27. CASE \E w \in Workers : StartHandler(w)
  BY <1>27 DEF StartHandler, Goto, ownerVars
<1> QED
  BY <1>1, <1>2, <1>3, <1>4, <1>5, <1>6, <1>7, <1>8, <1>9, <1>10, <1>11,
     <1>12, <1>13, <1>14, <1>15, <1>16, <1>17, <1>18, <1>19, <1>20, <1>21,
     <1>22, <1>23, <1>24, <1>25, <1>26, <1>27
     DEF Next, Owner, Worker, ThreadStep, Terminated

(* A panic is never forgotten: StoreFailed follows Panic in the same thread. *)
LEMMA BlameStep == TypeOK /\ Blame /\ [Next]_vars => Blame'
<1> SUFFICES ASSUME TypeOK, Blame, [Next]_vars PROVE Blame'
  OBVIOUS
<1> USE DEF TypeOK, Blame
<1>1. CASE \E w \in Workers : Spawn(w)
  BY <1>1 DEF Spawn, Goto
<1>2. CASE \E j \in Jobs : Submit(j)
  BY <1>2 DEF Submit
<1>3. CASE NotifyOne
  BY <1>3 DEF NotifyOne, Goto, Asleep
<1>4. CASE BeginShutdown
  BY <1>4 DEF BeginShutdown
<1>5. CASE BeginDrop
  BY <1>5 DEF BeginDrop
<1>6. CASE CloseQueue
  BY <1>6 DEF CloseQueue
<1>7. CASE CloseNotify
  BY <1>7 DEF CloseNotify, WakeAll
<1>8. CASE Collect
  BY <1>8 DEF Collect
<1>9. CASE CollectTimesOut
  BY <1>9 DEF CollectTimesOut
<1>10. CASE Join
  BY <1>10 DEF Join
<1>11. CASE \E w \in Workers : LoopHead(w)
  BY <1>11 DEF LoopHead, Goto, ownerVars
<1>12. CASE \E w \in Workers : MaintainReturns(w)
  BY <1>12 DEF MaintainReturns, Goto, ownerVars
<1>13. CASE \E w \in Workers : NextJob(w)
  BY <1>13 DEF NextJob, Goto, PopFirst, ownerVars
<1>14. CASE \E w \in Workers : Wait(w)
  BY <1>14 DEF Wait, Goto, ownerVars
<1>15. CASE \E w \in Workers : WaitTimesOut(w)
  BY <1>15 DEF WaitTimesOut, Goto, ownerVars
<1>16. CASE \E w \in Workers : SpuriousWakeup(w)
  BY <1>16 DEF SpuriousWakeup, Goto, ownerVars
<1>17. CASE \E w \in Workers : JobReady(w)
  BY <1>17 DEF JobReady, Goto, MayHandle, ownerVars
<1>18. CASE \E w \in Workers : HandleReturns(w)
  BY <1>18 DEF HandleReturns, Goto, ownerVars
<1>19. CASE \E w \in Workers : Panic(w)
  BY <1>19 DEF Panic, Goto, ownerVars
<1>20. CASE \E w \in Workers : StateDropped(w)
  BY <1>20 DEF StateDropped, Goto, ownerVars
<1>21. CASE \E w \in Workers : StoreFailed(w)
  BY <1>21 DEF StoreFailed, Goto, ownerVars
<1>22. CASE \E w \in Workers : StoreStop(w)
  BY <1>22 DEF StoreStop, Goto, ownerVars
<1>23. CASE \E w \in Workers : PanicNotify(w)
  BY <1>23 DEF PanicNotify, ownerVars
<1>24. CASE \E w \in Workers : SendCompleted(w)
  BY <1>24 DEF SendCompleted, Goto, ownerVars
<1>25. CASE ExternalStop
  BY <1>25 DEF ExternalStop, ownerVars
<1>26. CASE UNCHANGED vars
  BY <1>26 DEF vars
<1>27. CASE \E w \in Workers : StartHandler(w)
  BY <1>27 DEF StartHandler, Goto, ownerVars
<1> QED
  BY <1>1, <1>2, <1>3, <1>4, <1>5, <1>6, <1>7, <1>8, <1>9, <1>10, <1>11,
     <1>12, <1>13, <1>14, <1>15, <1>16, <1>17, <1>18, <1>19, <1>20, <1>21,
     <1>22, <1>23, <1>24, <1>25, <1>26, <1>27
     DEF Next, Owner, Worker, ThreadStep, Terminated

(* Once the threads are joined nothing is spawned and no thread takes a step. *)
LEMMA JoinedStep == TypeOK /\ Closing /\ Joined /\ [Next]_vars => Joined'
<1> SUFFICES ASSUME TypeOK, Closing, Joined, [Next]_vars PROVE Joined'
  OBVIOUS
<1> USE DEF TypeOK, Closing, Joined
<1>1. CASE \E w \in Workers : Spawn(w)
  BY <1>1 DEF Spawn, Goto
<1>2. CASE \E j \in Jobs : Submit(j)
  BY <1>2 DEF Submit
<1>3. CASE NotifyOne
  BY <1>3 DEF NotifyOne, Goto, Asleep
<1>4. CASE BeginShutdown
  BY <1>4 DEF BeginShutdown
<1>5. CASE BeginDrop
  BY <1>5 DEF BeginDrop
<1>6. CASE CloseQueue
  BY <1>6 DEF CloseQueue
<1>7. CASE CloseNotify
  BY <1>7 DEF CloseNotify, WakeAll
<1>8. CASE Collect
  BY <1>8 DEF Collect
<1>9. CASE CollectTimesOut
  BY <1>9 DEF CollectTimesOut
<1>10. CASE Join
  BY <1>10 DEF Join
<1>11. CASE \E w \in Workers : LoopHead(w)
  BY <1>11 DEF LoopHead, Goto, ownerVars
<1>12. CASE \E w \in Workers : MaintainReturns(w)
  BY <1>12 DEF MaintainReturns, Goto, ownerVars
<1>13. CASE \E w \in Workers : NextJob(w)
  BY <1>13 DEF NextJob, Goto, PopFirst, ownerVars
<1>14. CASE \E w \in Workers : Wait(w)
  BY <1>14 DEF Wait, Goto, ownerVars
<1>15. CASE \E w \in Workers : WaitTimesOut(w)
  BY <1>15 DEF WaitTimesOut, Goto, ownerVars
<1>16. CASE \E w \in Workers : SpuriousWakeup(w)
  BY <1>16 DEF SpuriousWakeup, Goto, ownerVars
<1>17. CASE \E w \in Workers : JobReady(w)
  BY <1>17 DEF JobReady, Goto, MayHandle, ownerVars
<1>18. CASE \E w \in Workers : HandleReturns(w)
  BY <1>18 DEF HandleReturns, Goto, ownerVars
<1>19. CASE \E w \in Workers : Panic(w)
  BY <1>19 DEF Panic, Goto, ownerVars
<1>20. CASE \E w \in Workers : StateDropped(w)
  BY <1>20 DEF StateDropped, Goto, ownerVars
<1>21. CASE \E w \in Workers : StoreFailed(w)
  BY <1>21 DEF StoreFailed, Goto, ownerVars
<1>22. CASE \E w \in Workers : StoreStop(w)
  BY <1>22 DEF StoreStop, Goto, ownerVars
<1>23. CASE \E w \in Workers : PanicNotify(w)
  BY <1>23 DEF PanicNotify, ownerVars
<1>24. CASE \E w \in Workers : SendCompleted(w)
  BY <1>24 DEF SendCompleted, Goto, ownerVars
<1>25. CASE ExternalStop
  BY <1>25 DEF ExternalStop, ownerVars
<1>26. CASE UNCHANGED vars
  BY <1>26 DEF vars
<1>27. CASE \E w \in Workers : StartHandler(w)
  BY <1>27 DEF StartHandler, Goto, ownerVars
<1> QED
  BY <1>1, <1>2, <1>3, <1>4, <1>5, <1>6, <1>7, <1>8, <1>9, <1>10, <1>11,
     <1>12, <1>13, <1>14, <1>15, <1>16, <1>17, <1>18, <1>19, <1>20, <1>21,
     <1>22, <1>23, <1>24, <1>25, <1>26, <1>27
     DEF Next, Owner, Worker, ThreadStep, Terminated

(* A job moves from the queue to one worker and then nowhere else.          *)
LEMMA OwnedStep == TypeOK /\ Hands /\ Closing /\ JobOwnedOnce /\ [Next]_vars => JobOwnedOnce'
<1> SUFFICES ASSUME TypeOK, Hands, Closing, JobOwnedOnce, [Next]_vars PROVE JobOwnedOnce'
  OBVIOUS
<1> USE PoolAssumption DEF TypeOK, Hands, JobOwnedOnce
<1>1. CASE \E w \in Workers : Spawn(w)
  BY <1>1 DEF Spawn, Goto
<1>2. CASE \E j \in Jobs : Submit(j)
  <2> PICK j \in Jobs : Submit(j)
    BY <1>2
  <2>1. CASE UNCHANGED queue
    BY <2>1 DEF Submit
  <2>2. CASE queue' = Append(queue, j)
    <3>1. /\ Len(queue') = Len(queue) + 1
          /\ \A i \in 1..Len(queue) : queue'[i] = queue[i]
          /\ queue'[Len(queue) + 1] = j
      BY <2>2
    <3>2. /\ fate[j] = "new" /\ fate' = [fate EXCEPT ![j] = "queued"]
          /\ UNCHANGED <<wpc, wjob, stop>>
      BY <2>2 DEF Submit
    <3>3. \A i \in 1..Len(queue) : queue[i] # j
      BY <3>2
    <3> QED
      BY <3>1, <3>2, <3>3
  <2> QED
    BY <2>1, <2>2 DEF Submit
<1>3. CASE NotifyOne
  BY <1>3 DEF NotifyOne, Goto, Asleep
<1>4. CASE BeginShutdown
  BY <1>4 DEF BeginShutdown
<1>5. CASE BeginDrop
  BY <1>5 DEF BeginDrop
<1>6. CASE CloseQueue
  <2>1. queue' = <<>> /\ Len(queue') = 0 /\ stop
    BY <1>6 DEF CloseQueue, Closing
  <2> QED
    BY <1>6, <2>1 DEF CloseQueue
<1>7. CASE CloseNotify
  BY <1>7 DEF CloseNotify, WakeAll
<1>8. CASE Collect
  BY <1>8 DEF Collect
<1>9. CASE CollectTimesOut
  BY <1>9 DEF CollectTimesOut
<1>10. CASE Join
  BY <1>10 DEF Join
<1>11. CASE \E w \in Workers : LoopHead(w)
  BY <1>11 DEF LoopHead, Goto, ownerVars
<1>12. CASE \E w \in Workers : MaintainReturns(w)
  BY <1>12 DEF MaintainReturns, Goto, ownerVars
<1>13. CASE \E w \in Workers : NextJob(w)
  <2> PICK w \in Workers : NextJob(w)
    BY <1>13
  <2>1. CASE UNCHANGED <<queue, wjob, fate>>
    BY <2>1 DEF NextJob, Goto
  <2>2. CASE queue # <<>> /\ PopFirst(w) /\ Goto(w, "ready")
    <3> DEFINE h == Head(queue)
    <3>1. /\ h \in Jobs /\ h = queue[1] /\ Len(queue) \in Nat \ {0}
          /\ queue' = Tail(queue) /\ Len(queue') = Len(queue) - 1
          /\ \A i \in 1..Len(queue') : queue'[i] = queue[i + 1]
      BY <2>2 DEF PopFirst
    <3>2. fate[h] = "queued"
      BY <3>1
    <3>3. /\ fate[h] = "queued" /\ fate' = [fate EXCEPT ![h] = "taken"]
          /\ wjob' = [wjob EXCEPT ![w] = h] /\ wpc' = [wpc EXCEPT ![w] = "ready"]
          /\ stop' = stop
      BY <2>2, <3>2 DEF PopFirst, Goto, NextJob
    <3>4. ASSUME NEW v \in Workers, wjob[v] = h PROVE FALSE
      <4>1. wpc[v] \in {"ready", "cleared", "handling"}
        BY <3>1, <3>4
      <4> QED
        BY <4>1, <3>2, <3>4, <3>1
    <3>5. /\ \A v \in Workers : wjob[v] # h
          /\ wjob[w] = NoJob /\ wpc[w] \notin {"ready", "cleared", "handling"}
      BY <3>4 DEF NextJob
    <3> HIDE DEF h
    <3> SUFFICES ASSUME NEW j \in Jobs
                 PROVE  /\ fate'[j] = "queued" <=> \E i \in 1..Len(queue') : queue'[i] = j
                        /\ \A i, k \in 1..Len(queue') : queue'[i] = j /\ queue'[k] = j => i = k
                        /\ fate'[j] = "taken" <=> \E v \in Workers : wpc'[v] = "ready" /\ wjob'[v] = j
                        /\ fate'[j] = "running" <=> \E v \in Workers : wpc'[v] \in {"cleared", "handling"} /\ wjob'[v] = j
                        /\ \A u, v \in Workers : wjob'[u] = j /\ wjob'[v] = j => u = v
                        /\ fate'[j] = "discarded" => stop'
      OBVIOUS
    <3>6. \A i, k \in 1..Len(queue') : queue'[i] = j /\ queue'[k] = j => i = k
      <4> SUFFICES ASSUME NEW i \in 1..Len(queue'), NEW k \in 1..Len(queue'),
                          queue'[i] = j, queue'[k] = j
                   PROVE  i = k
        OBVIOUS
      <4>1. /\ i + 1 \in 1..Len(queue) /\ queue[i + 1] = j
            /\ k + 1 \in 1..Len(queue) /\ queue[k + 1] = j
        BY <3>1
      <4>2. i + 1 = k + 1
        BY <4>1
      <4> QED
        BY <4>2
    <3>7. fate'[j] = "queued" <=> \E i \in 1..Len(queue') : queue'[i] = j
      <4>1. (\E i \in 1..Len(queue) : queue[i] = j) <=> j = h \/ \E i \in 1..Len(queue') : queue'[i] = j
        <5>1. ASSUME NEW i \in 1..Len(queue), queue[i] = j
              PROVE  j = h \/ \E k \in 1..Len(queue') : queue'[k] = j
          <6>1. i = 1 \/ (i - 1 \in 1..Len(queue') /\ queue'[i - 1] = queue[i])
            BY <3>1
          <6> QED
            BY <6>1, <5>1, <3>1
        <5>2. ASSUME NEW i \in 1..Len(queue'), queue'[i] = j
              PROVE  \E k \in 1..Len(queue) : queue[k] = j
          <6>1. i + 1 \in 1..Len(queue) /\ queue[i + 1] = j
            BY <5>2, <3>1
          <6> QED
            BY <6>1
        <5>3. 1 \in 1..Len(queue)
          BY <3>1
        <5> QED
          BY <5>1, <5>2, <5>3, <3>1
      <4>2. \A i \in 1..Len(queue') : queue'[i] # h
        <5> SUFFICES ASSUME NEW i \in 1..Len(queue'), queue'[i] = h PROVE FALSE
          OBVIOUS
        <5>1. /\ i + 1 \in 1..Len(queue) /\ queue[i + 1] = h
              /\ 1 \in 1..Len(queue) /\ queue[1] = h /\ h \in Jobs
          BY <3>1
        <5>2. i + 1 = 1
          BY <5>1
        <5> QED
          BY <5>2
      <4> QED
        BY <4>1, <4>2, <3>3, <3>1
    <3>8. /\ fate'[j] = "taken" <=> \E v \in Workers : wpc'[v] = "ready" /\ wjob'[v] = j
          /\ fate'[j] = "running" <=> \E v \in Workers : wpc'[v] \in {"cleared", "handling"} /\ wjob'[v] = j
          /\ fate'[j] = "discarded" => stop'
      BY <3>1, <3>3, <3>5
    <3>9. \A u, v \in Workers : wjob'[u] = j /\ wjob'[v] = j => u = v
      BY <3>1, <3>3, <3>5
    <3> QED
      BY <3>6, <3>7, <3>8, <3>9
  <2> QED
    BY <2>1, <2>2 DEF NextJob
<1>14. CASE \E w \in Workers : Wait(w)
  BY <1>14 DEF Wait, Goto, ownerVars
<1>15. CASE \E w \in Workers : WaitTimesOut(w)
  BY <1>15 DEF WaitTimesOut, Goto, ownerVars
<1>16. CASE \E w \in Workers : SpuriousWakeup(w)
  BY <1>16 DEF SpuriousWakeup, Goto, ownerVars
<1>17. CASE \E w \in Workers : JobReady(w)
  <2> PICK w \in Workers : JobReady(w)
    BY <1>17
  <2>1. /\ wpc[w] = "ready" /\ wjob[w] \in Jobs /\ fate[wjob[w]] = "taken"
        /\ UNCHANGED <<queue, stop>>
    BY DEF JobReady
  <2>2. CASE /\ wpc' = [wpc EXCEPT ![w] = "cleared"] /\ wjob' = wjob
             /\ fate' = [fate EXCEPT ![wjob[w]] = "running"]
    <3> SUFFICES ASSUME NEW j \in Jobs
                 PROVE  /\ fate'[j] = "queued" <=> \E i \in 1..Len(queue') : queue'[i] = j
                        /\ \A i, k \in 1..Len(queue') : queue'[i] = j /\ queue'[k] = j => i = k
                        /\ fate'[j] = "taken" <=> \E v \in Workers : wpc'[v] = "ready" /\ wjob'[v] = j
                        /\ fate'[j] = "running" <=>
                             \E v \in Workers : wpc'[v] \in {"cleared", "handling"} /\ wjob'[v] = j
                        /\ \A u, v \in Workers : wjob'[u] = j /\ wjob'[v] = j => u = v
                        /\ fate'[j] = "discarded" => stop'
      OBVIOUS
    <3>1. CASE j = wjob[w]
      <4>1. \A v \in Workers : wjob[v] = j => v = w
        BY <3>1
      <4> QED
        BY <2>1, <2>2, <3>1, <4>1
    <3>2. CASE j # wjob[w]
      BY <2>1, <2>2, <3>2
    <3> QED
      BY <3>1, <3>2
  <2>3. CASE /\ stop /\ wpc' = [wpc EXCEPT ![w] = "drop"] /\ wjob' = [wjob EXCEPT ![w] = NoJob]
             /\ fate' = [fate EXCEPT ![wjob[w]] = "discarded"]
    BY <2>1, <2>3
  <2> QED
    BY <2>2, <2>3 DEF JobReady, Goto, MayHandle
<1>18. CASE \E w \in Workers : HandleReturns(w)
  BY <1>18 DEF HandleReturns, Goto, ownerVars
<1>19. CASE \E w \in Workers : Panic(w)
  BY <1>19 DEF Panic, Goto, ownerVars
<1>20. CASE \E w \in Workers : StateDropped(w)
  BY <1>20 DEF StateDropped, Goto, ownerVars
<1>21. CASE \E w \in Workers : StoreFailed(w)
  BY <1>21 DEF StoreFailed, Goto, ownerVars
<1>22. CASE \E w \in Workers : StoreStop(w)
  BY <1>22 DEF StoreStop, Goto, ownerVars
<1>23. CASE \E w \in Workers : PanicNotify(w)
  BY <1>23 DEF PanicNotify, ownerVars
<1>24. CASE \E w \in Workers : SendCompleted(w)
  BY <1>24 DEF SendCompleted, Goto, ownerVars
<1>25. CASE ExternalStop
  BY <1>25 DEF ExternalStop, ownerVars
<1>26. CASE UNCHANGED vars
  BY <1>26 DEF vars
<1>27. CASE \E w \in Workers : StartHandler(w)
  <2> PICK w \in Workers : StartHandler(w)
    BY <1>27
  <2>1. /\ wpc[w] = "cleared" /\ wpc' = [wpc EXCEPT ![w] = "handling"]
        /\ UNCHANGED <<queue, wjob, fate, stop>>
    BY DEF StartHandler, Goto
  <2>2. \A v \in Workers : /\ wpc'[v] = "ready" <=> wpc[v] = "ready"
                           /\ wpc'[v] \in {"cleared", "handling"} <=> wpc[v] \in {"cleared", "handling"}
    BY <2>1
  <2> QED
    BY <2>1, <2>2
<1> QED
  BY <1>1, <1>2, <1>3, <1>4, <1>5, <1>6, <1>7, <1>8, <1>9, <1>10, <1>11,
     <1>12, <1>13, <1>14, <1>15, <1>16, <1>17, <1>18, <1>19, <1>20, <1>21,
     <1>22, <1>23, <1>24, <1>25, <1>26, <1>27
     DEF Next, Owner, Worker, ThreadStep, Terminated

(* The conjunction is inductive, hence an invariant of the pool.            *)
THEOREM PoolInvariant == Spec => []Inv
<1>1. Init => Inv
  <2> SUFFICES ASSUME Init PROVE Inv
    OBVIOUS
  <2>1. TypeOK
    BY InitTyped
  <2>2. Len(queue) = 0 /\ 1..Len(queue) = {}
    BY DEF Init
  <2>3. JobOwnedOnce
    BY <2>2, PoolAssumption DEF Init, JobOwnedOnce
  <2> QED
    BY <2>1, <2>3
       DEF Init, Inv, Hands, Closing, Blame, Joined, Asleep, MutexFree
<1>2. Inv /\ [Next]_vars => Inv'
  BY TypeStep, HandsStep, OwnedStep, ClosingStep, BlameStep, JoinedStep DEF Inv
<1> QED
  BY <1>1, <1>2, PTL DEF Spec

-----------------------------------------------------------------------------
(* What the invariant says *)

(* An accepted job is in exactly one place at a time (submit, next_job and  *)
(* close under the mutex, the handler outside it).                          *)
THEOREM Ownership == Spec => []JobOwnedOnce
<1> QED
  BY PoolInvariant, PTL DEF Inv

(* After close() no worker sleeps on the condition variable or is about to. *)
THEOREM NoSleeper == Spec => []NoSleeperAfterClose
<1>1. Inv => NoSleeperAfterClose
  BY DEF Inv, TypeOK, Closing, NoSleeperAfterClose, MutexFree, Asleep
<1> QED
  BY <1>1, PoolInvariant, PTL

(* shutdown's Ok is the truth: no panic, no thread and no job is left.      *)
THEOREM CleanStop == Spec => []OkMeansCleanStop
<1>1. Inv => OkMeansCleanStop
  <2> SUFFICES ASSUME Inv, result = "ok"
               PROVE  /\ ~panicked
                      /\ \A w \in Workers : wpc[w] \in {"unborn", "exited"}
                      /\ \A j \in Jobs : fate[j] \notin {"queued", "taken", "running"}
    BY DEF OkMeansCleanStop
  <2>1. ~failed /\ \A w \in Workers : wpc[w] \in {"unborn", "exited"}
    BY DEF Inv, Joined
  <2>2. ~panicked
    BY <2>1 DEF Inv, Blame
  <2>3. Len(queue) = 0
    BY DEF Inv, Closing, Joined
  <2>4. \A j \in Jobs : fate[j] \notin {"queued", "taken", "running"}
    BY <2>1, <2>3 DEF Inv, JobOwnedOnce
  <2> QED
    BY <2>1, <2>2, <2>4
<1> QED
  BY <1>1, PoolInvariant, PTL

(* close() against the guard before handle: a closed queue implies stop, so *)
(* a worker that has not had its last look by then drops its job.  Only     *)
(* those that had it start a handler, one each.                             *)
THEOREM ClosedQueueNotDrained == Spec => NotDrained
<1>1. Inv /\ [Next]_vars
        => [closed => Cleared' \subseteq Cleared /\ Handling' \subseteq Handling \cup Cleared]_vars
  <2> SUFFICES ASSUME Inv, Next, closed, NEW w \in Workers
               PROVE  /\ wpc'[w] = "cleared" => wpc[w] = "cleared"
                      /\ wpc'[w] = "handling" => wpc[w] \in {"handling", "cleared"}
    BY DEF Cleared, Handling
  <2>1. stop
    BY DEF Inv, Closing
  <2>2. ASSUME wpc'[w] = "cleared", wpc[w] # "cleared"
        PROVE  JobReady(w)
    BY <2>2 DEF Next, Owner, Worker, ThreadStep, Terminated, vars, Inv, TypeOK,
       Spawn, Submit, NotifyOne, BeginShutdown, BeginDrop, CloseQueue,
       CloseNotify, Collect, CollectTimesOut, Join, LoopHead,
       MaintainReturns, NextJob, Wait, WaitTimesOut, SpuriousWakeup,
       JobReady, StartHandler, HandleReturns, Panic, StateDropped, StoreFailed, StoreStop,
       PanicNotify, SendCompleted, ExternalStop, Goto, WakeAll, Asleep
  <2>3. ASSUME wpc'[w] = "handling", wpc[w] # "handling"
        PROVE  StartHandler(w)
    BY <2>3 DEF Next, Owner, Worker, ThreadStep, Terminated, vars, Inv, TypeOK,
       Spawn, Submit, NotifyOne, BeginShutdown, BeginDrop, CloseQueue,
       CloseNotify, Collect, CollectTimesOut, Join, LoopHead,
       MaintainReturns, NextJob, Wait, WaitTimesOut, SpuriousWakeup,
       JobReady, StartHandler, HandleReturns, Panic, StateDropped, StoreFailed, StoreStop,
       PanicNotify, SendCompleted, ExternalStop, Goto, WakeAll, Asleep
  <2>4. ~(JobReady(w) /\ wpc'[w] = "cleared")
    BY <2>1 DEF JobReady, MayHandle, Goto, Inv, TypeOK
  <2> QED
    BY <2>2, <2>3, <2>4 DEF StartHandler
<1> QED
  BY <1>1, PoolInvariant, PTL DEF Spec, NotDrained
-----------------------------------------------------------------------------
(* Counting threads *)

(* The threads that have been spawned and have not sent their completion.   *)
Running == {w \in Workers : wpc[w] \notin {"unborn", "exited"}}

(* pending, the number of completions that shutdown still expects, is the   *)
(* number of messages in the channel plus the number of threads that will   *)
(* still send one.                                                          *)
Counted == pending = completed + Cardinality(Running)

(* A subset of the workers has a number of elements, which grows by one     *)
(* with a new element and shrinks by one with one taken out.                *)
LEMMA WorkerSets ==
    ASSUME NEW S \in SUBSET Workers
    PROVE  /\ Cardinality(S) \in Nat
           /\ Cardinality(S) = 0 <=> S = {}
           /\ \A w \in Workers \ S : Cardinality(S \cup {w}) = Cardinality(S) + 1
           /\ \A w \in S : Cardinality(S \ {w}) = Cardinality(S) - 1
<1>1. IsFiniteSet(S)
  BY PoolAssumption, FS_Subset
<1>2. Cardinality(S) \in Nat
  BY <1>1, FS_CardinalityType
<1>3. Cardinality(S) = 0 <=> S = {}
  BY <1>1, FS_EmptySet
<1>4. \A w \in Workers \ S : Cardinality(S \cup {w}) = Cardinality(S) + 1
  BY <1>1, FS_AddElement
<1>5. \A w \in S : Cardinality(S \ {w}) = Cardinality(S) - 1
  BY <1>1, FS_RemoveElement
<1> QED
  BY <1>2, <1>3, <1>4, <1>5

(* Spawning, sending a completion and receiving one keep the count; no      *)
(* other step starts or ends a thread or touches the channel.               *)
LEMMA CountStep == Inv /\ Counted /\ [Next]_vars => Counted'
<1> SUFFICES ASSUME Inv, Counted, [Next]_vars PROVE Counted'
  OBVIOUS
<1> USE DEF Inv, TypeOK
<1>1. CASE \E w \in Workers : Spawn(w)
  <2> PICK w \in Workers : Spawn(w)
    BY <1>1
  <2>1. w \notin Running /\ Running' = Running \cup {w}
    BY DEF Spawn, Goto, Running
  <2>2. Cardinality(Running \cup {w}) = Cardinality(Running) + 1
           /\ Cardinality(Running) \in Nat
    BY <2>1, WorkerSets DEF Running
  <2> QED
    BY <2>1, <2>2 DEF Spawn, Counted
<1>2. CASE \E w \in Workers : SendCompleted(w)
  <2> PICK w \in Workers : SendCompleted(w)
    BY <1>2
  <2>1. w \in Running /\ Running' = Running \ {w}
    BY DEF SendCompleted, Goto, Running
  <2>2. Cardinality(Running \ {w}) = Cardinality(Running) - 1
           /\ Cardinality(Running) \in Nat
    BY <2>1, WorkerSets DEF Running
  <2> QED
    BY <2>1, <2>2 DEF SendCompleted, Counted
<1>3. CASE Collect
  <2>1. Running' = Running /\ Cardinality(Running) \in Nat
    BY <1>3, WorkerSets DEF Collect, Running
  <2> QED
    BY <1>3, <2>1 DEF Collect, Counted
<1>4. CASE /\ ~ \E w \in Workers : Spawn(w) \/ SendCompleted(w)
           /\ ~ Collect
  <2>1. UNCHANGED <<pending, completed>>
    BY <1>4 DEF Next, Owner, Worker, ThreadStep, Terminated, vars, ownerVars,
       Submit, NotifyOne, BeginShutdown, BeginDrop, CloseQueue, CloseNotify,
       CollectTimesOut, Join, LoopHead, MaintainReturns, NextJob, Wait,
       WaitTimesOut, SpuriousWakeup, JobReady, StartHandler, HandleReturns, Panic,
       StateDropped, StoreFailed, StoreStop, PanicNotify, ExternalStop
  <2>2. \A w \in Workers : wpc'[w] \in {"unborn", "exited"}
                             <=> wpc[w] \in {"unborn", "exited"}
    BY <1>4 DEF Next, Owner, Worker, ThreadStep, Terminated, vars,
       Submit, NotifyOne, BeginShutdown, BeginDrop, CloseQueue, CloseNotify,
       CollectTimesOut, Join, LoopHead, MaintainReturns, NextJob, Wait,
       WaitTimesOut, SpuriousWakeup, JobReady, StartHandler, HandleReturns, Panic,
       StateDropped, StoreFailed, StoreStop, PanicNotify, ExternalStop,
       Goto, WakeAll, Asleep
  <2>3. Running' = Running
    BY <2>2 DEF Running
  <2> QED
    BY <2>1, <2>3 DEF Counted
<1> QED
  BY <1>1, <1>2, <1>3, <1>4

(* At every moment shutdown expects one completion for each message in the  *)
(* channel and each thread that is still to send one.                       *)
THEOREM CompletionsCounted == Spec => []Counted
<1>1. Init => Counted
  <2> SUFFICES ASSUME Init PROVE Counted
    OBVIOUS
  <2>1. Running = {}
    BY DEF Init, Running
  <2> QED
    BY <2>1, FS_EmptySet DEF Init, Counted
<1> QED
  BY <1>1, CountStep, PoolInvariant, PTL DEF Spec

(* Once shutdown has received what it expects, every thread it joins has    *)
(* sent its message: the joins do not block.                                *)
THEOREM JoinsDoNotBlock == Spec => []JoinNeverBlocks
<1>1. Inv /\ Counted => JoinNeverBlocks
  <2> SUFFICES ASSUME Inv, Counted, pending = 0, NEW w \in Workers
               PROVE  wpc[w] \in {"unborn", "exited"}
    BY DEF JoinNeverBlocks
  <2>1. Cardinality(Running) \in Nat /\ (Cardinality(Running) = 0 <=> Running = {})
    BY WorkerSets DEF Running
  <2>2. completed \in Nat /\ 0 = completed + Cardinality(Running)
    BY DEF Inv, TypeOK, Counted
  <2>3. Running = {}
    BY <2>1, <2>2
  <2> QED
    BY <2>3 DEF Running
<1> QED
  BY <1>1, CompletionsCounted, PoolInvariant, PTL
-----------------------------------------------------------------------------
(* Wake-ups *)

(* The sleepers that somebody has woken and that have not looked yet.       *)
Woken == {w \in Workers : wpc[w] = "woken"}

(* The worker that holds the mutex between looking and sleeping has seen an *)
(* empty queue, and nobody can submit meanwhile.                            *)
LookedAndSawNothing == ~MutexFree => queue = <<>>

(* A worker holds the mutex over an empty queue until it sleeps: submit and *)
(* the other workers' pops wait for the mutex.                              *)
LEMMA LookStep ==
    Inv /\ LookedAndSawNothing /\ [Next]_vars => LookedAndSawNothing'
<1> SUFFICES ASSUME Inv, LookedAndSawNothing, [Next]_vars,
                    NEW w \in Workers, wpc'[w] = "locked"
             PROVE  queue' = <<>>
  BY DEF LookedAndSawNothing, MutexFree
<1> USE DEF Inv, TypeOK
<1>1. CASE wpc[w] = "locked"
  <2>1. ~MutexFree /\ queue = <<>>
    BY <1>1 DEF LookedAndSawNothing, MutexFree
  <2> QED
    BY <2>1 DEF Next, Owner, Worker, ThreadStep, Terminated, vars,
       Spawn, Submit, NotifyOne, BeginShutdown, BeginDrop, CloseQueue,
       CloseNotify, Collect, CollectTimesOut, Join, LoopHead,
       MaintainReturns, NextJob, Wait, WaitTimesOut, SpuriousWakeup,
       JobReady, StartHandler, HandleReturns, Panic, StateDropped, StoreFailed, StoreStop,
       PanicNotify, SendCompleted, ExternalStop
<1>2. CASE wpc[w] # "locked"
  <2>1. \E v \in Workers : NextJob(v)
    BY <1>2 DEF Next, Owner, Worker, ThreadStep, Terminated, vars,
       Spawn, Submit, NotifyOne, BeginShutdown, BeginDrop, CloseQueue,
       CloseNotify, Collect, CollectTimesOut, Join, LoopHead,
       MaintainReturns, Wait, WaitTimesOut, SpuriousWakeup, JobReady,
       StartHandler, HandleReturns, Panic, StateDropped, StoreFailed, StoreStop,
       PanicNotify, SendCompleted, ExternalStop, Goto, WakeAll, Asleep
  <2> QED
    BY <1>2, <2>1 DEF NextJob, Goto
<1> QED
  BY <1>1, <1>2

(* notify_one pays for the job just pushed, a popped job takes its worker   *)
(* with it, and a worker goes to sleep only over an empty queue.            *)
LEMMA WakeStep ==
    Inv /\ LookedAndSawNothing /\ NoLostWakeup /\ [Next]_vars => NoLostWakeup'
<1> DEFINE due == IF opc = "notify" THEN 1 ELSE 0
<1> SUFFICES ASSUME Inv, LookedAndSawNothing, NoLostWakeup, [Next]_vars,
                    ~stop', Asleep' # {}
             PROVE  Len(queue') <= Cardinality(Woken') + due'
  BY DEF NoLostWakeup, Woken
<1> USE DEF Inv, TypeOK
<1>1. ~stop /\ Cardinality(Woken) \in Nat /\ Cardinality(Woken') \in Nat
         /\ Len(queue) \in Nat
  <2>1. ~stop
    BY DEF Next, Owner, Worker, ThreadStep, Terminated, vars, ownerVars,
       Spawn, Submit, NotifyOne, BeginShutdown, BeginDrop, CloseQueue,
       CloseNotify, Collect, CollectTimesOut, Join, LoopHead,
       MaintainReturns, NextJob, Wait, WaitTimesOut, SpuriousWakeup,
       JobReady, StartHandler, HandleReturns, Panic, StateDropped, StoreFailed, StoreStop,
       PanicNotify, SendCompleted, ExternalStop
  <2> QED
    BY <2>1, WorkerSets DEF Woken
<1>2. Asleep # {} => Len(queue) <= Cardinality(Woken) + due
  BY <1>1 DEF NoLostWakeup, Woken
<1>3. CASE \E j \in Jobs : Submit(j)
  <2> PICK j \in Jobs : Submit(j)
    BY <1>3
  <2>1. Asleep' = Asleep /\ Woken' = Woken /\ opc = "serving"
    BY DEF Submit, Asleep, Woken
  <2>2. \/ queue' = queue
        \/ Len(queue') = Len(queue) + 1 /\ opc' = "notify"
    BY DEF Submit
  <2> QED
    BY <1>1, <1>2, <2>1, <2>2 DEF Submit
<1>4. CASE NotifyOne
  <2>1. PICK w \in Asleep : Goto(w, "woken")
    BY <1>4 DEF NotifyOne, Asleep
  <2>2. w \in Workers \ Woken /\ Woken' = Woken \cup {w}
    BY <2>1 DEF Goto, Asleep, Woken
  <2>3. Cardinality(Woken \cup {w}) = Cardinality(Woken) + 1
    BY <2>2, WorkerSets DEF Woken
  <2> QED
    BY <1>1, <1>2, <1>4, <2>1, <2>2, <2>3 DEF NotifyOne
<1>5. CASE \E w \in Workers : NextJob(w)
  <2> PICK w \in Workers : NextJob(w)
    BY <1>5
  <2>1. ~closed /\ Asleep' = Asleep /\ opc' = opc
    BY <1>1 DEF NextJob, Goto, Asleep, Closing, ownerVars
  <2>2. CASE queue = <<>>
    BY <1>1, <2>2 DEF NextJob
  <2>3. CASE queue # <<>>
    <3>1. queue' = Tail(queue) /\ wpc' = [wpc EXCEPT ![w] = "ready"]
      BY <1>1, <2>1, <2>3 DEF NextJob, PopFirst, Goto
    <3>2. Len(queue') = Len(queue) - 1
      BY <2>3, <3>1
    <3>3. Cardinality(Woken') >= Cardinality(Woken) - 1
      <4>1. CASE w \in Woken
        <5>1. Woken' = Woken \ {w}
          BY <3>1 DEF Woken
        <5>2. Cardinality(Woken \ {w}) = Cardinality(Woken) - 1
          BY <4>1, WorkerSets DEF Woken
        <5> QED
          BY <1>1, <5>1, <5>2
      <4>2. CASE w \notin Woken
        <5>1. Woken' = Woken
          BY <3>1, <4>2 DEF Woken
        <5> QED
          BY <1>1, <5>1
      <4> QED
        BY <4>1, <4>2
    <3> QED
      BY <1>1, <1>2, <2>1, <3>2, <3>3
  <2> QED
    BY <2>2, <2>3
<1>6. CASE \E w \in Workers : Wait(w)
  <2>1. queue' = <<>>
    BY <1>6 DEF Wait, LookedAndSawNothing, MutexFree
  <2> QED
    BY <1>1, <2>1
<1>7. CASE \E w \in Workers : SpuriousWakeup(w)
  <2> PICK w \in Workers : SpuriousWakeup(w)
    BY <1>7
  <2>1. w \in Workers \ Woken /\ Woken' = Woken \cup {w} /\ Asleep # {}
    BY DEF SpuriousWakeup, Goto, Asleep, Woken
  <2>2. Cardinality(Woken \cup {w}) = Cardinality(Woken) + 1
    BY <2>1, WorkerSets DEF Woken
  <2> QED
    BY <1>1, <1>2, <2>1, <2>2 DEF SpuriousWakeup, ownerVars
<1>8. CASE CloseQueue
  BY <1>1, <1>8 DEF CloseQueue, Closing
<1>9. CASE /\ ~ \E j \in Jobs : Submit(j)
           /\ ~ \E w \in Workers : NextJob(w) \/ Wait(w) \/ SpuriousWakeup(w)
           /\ ~ NotifyOne /\ ~ CloseQueue
  <2>1. queue' = queue /\ due' = due
    BY <1>9 DEF Next, Owner, Worker, ThreadStep, Terminated, vars, ownerVars,
       Spawn, BeginShutdown, BeginDrop, CloseNotify, Collect,
       CollectTimesOut, Join, LoopHead, MaintainReturns, WaitTimesOut,
       JobReady, StartHandler, HandleReturns, Panic, StateDropped, StoreFailed, StoreStop,
       PanicNotify, SendCompleted, ExternalStop
  <2>2. \A w \in Workers : /\ wpc'[w] = "woken" <=> wpc[w] = "woken"
                           /\ wpc'[w] = "asleep" => wpc[w] = "asleep"
    BY <1>1, <1>9 DEF Next, Owner, Worker, ThreadStep, Terminated, vars,
       Spawn, BeginShutdown, BeginDrop, CloseNotify, Collect,
       CollectTimesOut, Join, LoopHead, MaintainReturns, WaitTimesOut,
       JobReady, StartHandler, HandleReturns, Panic, StateDropped, StoreFailed, StoreStop,
       PanicNotify, SendCompleted, ExternalStop, Goto, WakeAll, Asleep
  <2>3. Woken' = Woken /\ Asleep # {}
    BY <2>2 DEF Woken, Asleep
  <2> QED
    BY <1>1, <1>2, <2>1, <2>3
<1> QED
  BY <1>3, <1>4, <1>5, <1>6, <1>7, <1>8, <1>9

(* submit's notify_one is never lost: while a worker sleeps, each queued    *)
(* job has a woken worker on its way, or the notify_one still to come.      *)
THEOREM WakeupsAreNotLost == Spec => []NoLostWakeup
<1>1. Init => LookedAndSawNothing /\ NoLostWakeup
  BY DEF Init, LookedAndSawNothing, NoLostWakeup, MutexFree, Asleep
<1> QED
  BY <1>1, LookStep, WakeStep, PoolInvariant, PTL DEF Spec
-----------------------------------------------------------------------------
(* The pool implements JobDelivery, for every number of workers, capacity   *)
(* and set of jobs: each step of its threads is, in terms of what the       *)
(* listener can rely on, one step of the contract or none at all.           *)

(* The contract's view of the jobs: one that a worker has popped but not    *)
(* bound itself to run is still waiting.                                    *)
Seen == [j \in Jobs |-> IF fate[j] \in {"queued", "taken"} THEN "waiting" ELSE fate[j]]

(* A step that leaves what the contract sees alone. *)
Invisible == Seen' = Seen /\ stop' = stop /\ panicked' = panicked /\ result' = result

(* A step that changes one job from one state of the contract to another.   *)
LEMMA MovesOne ==
    ASSUME TypeOK, NEW j \in Jobs, NEW from, NEW f \in Fate, NEW to,
           Seen[j] = from, fate' = [fate EXCEPT ![j] = f],
           to = IF f \in {"queued", "taken"} THEN "waiting" ELSE f
    PROVE  Delivery!Moves({j}, from, to)
BY DEF Delivery!Moves, Seen, TypeOK

(* Every step of the threads that keeps the view is a stutter.              *)
LEMMA InvisibleStutters == Invisible => UNCHANGED Delivery!deliveryVars
BY DEF Invisible, Seen, Delivery!deliveryVars

(* submit is Accept or Refuse. *)
LEMMA SubmitRefines ==
    ASSUME Inv, NEW j \in Jobs, Submit(j)
    PROVE  Delivery!Accept(j) \/ Delivery!Refuse(j)
<1>1. TypeOK /\ Seen[j] = "new"
  BY DEF Inv, TypeOK, Submit, Seen
<1>2. UNCHANGED <<stop, panicked, result>>
  BY DEF Submit
<1>3. CASE fate' = [fate EXCEPT ![j] = "refused"]
  <2>1. Delivery!Moves({j}, "new", "refused")
    BY <1>1, <1>3, MovesOne DEF Fate
  <2> QED
    BY <2>1, <1>2 DEF Delivery!Refuse
<1>4. CASE ~stop /\ fate' = [fate EXCEPT ![j] = "queued"]
  <2>1. Delivery!Moves({j}, "new", "waiting")
    BY <1>1, <1>4, MovesOne DEF Fate
  <2> QED
    BY <2>1, <1>2, <1>4 DEF Delivery!Accept
<1> QED
  BY <1>3, <1>4 DEF Submit

(* close() discards what is queued, and only after stop. *)
LEMMA CloseRefines ==
    ASSUME Inv, CloseQueue, NEW S, S = {j \in Jobs : fate[j] = "queued"}
    PROVE  Delivery!Discard(S)
<1>1. stop /\ UNCHANGED <<stop, panicked, result>>
  BY DEF CloseQueue, Inv, Closing
<1>2. Delivery!Moves(S, "waiting", "discarded")
  BY DEF CloseQueue, Delivery!Moves, Inv, TypeOK
<1> QED
  BY <1>1, <1>2 DEF Delivery!Discard

(* A worker's second look at stop decides between Begin and Discard; when   *)
(* the handler then starts is nothing the contract sees.                    *)
LEMMA ReadyRefines ==
    ASSUME Inv, NEW w \in Workers, JobReady(w)
    PROVE  \E j \in Jobs : Delivery!Begin(j) \/ Delivery!Discard({j})
<1>1. PICK j \in Jobs : j = wjob[w] /\ fate[j] = "taken"
  BY DEF JobReady, Inv, TypeOK, Hands, JobOwnedOnce
<1>2. TypeOK /\ Seen[j] = "waiting" /\ UNCHANGED <<stop, panicked, result>>
  BY <1>1 DEF Inv, Seen, JobReady, ownerVars
<1>3. CASE ~stop /\ fate' = [fate EXCEPT ![j] = "running"]
  <2>1. Delivery!Moves({j}, "waiting", "running")
    BY <1>2, <1>3, MovesOne DEF Fate
  <2> QED
    BY <2>1, <1>2, <1>3 DEF Delivery!Begin
<1>4. CASE stop /\ fate' = [fate EXCEPT ![j] = "discarded"]
  <2>1. Delivery!Moves({j}, "waiting", "discarded")
    BY <1>2, <1>4, MovesOne DEF Fate
  <2> QED
    BY <2>1, <1>2, <1>4 DEF Delivery!Discard
<1> QED
  BY <1>1, <1>3, <1>4 DEF JobReady, MayHandle, Inv, TypeOK

(* A handler that returns ends its job. *)
LEMMA HandledRefines ==
    ASSUME Inv, NEW w \in Workers, HandleReturns(w)
    PROVE  \E j \in Jobs : Delivery!End(j)
<1>1. PICK j \in Jobs : j = wjob[w] /\ fate[j] = "running"
  BY DEF HandleReturns, Inv, TypeOK, Hands, JobOwnedOnce
<1>2. TypeOK /\ Seen[j] = "running" /\ UNCHANGED <<stop, panicked, result>>
  BY <1>1 DEF Inv, Seen, HandleReturns, ownerVars
<1>3. Delivery!Moves({j}, "running", "finished")
  BY <1>1, <1>2, MovesOne DEF Fate, HandleReturns
<1> QED
  BY <1>2, <1>3 DEF Delivery!End

(* A panic is a fault that ends the job in hand, and comes too late for     *)
(* nobody: a thread that can panic has not been joined.                     *)
LEMMA PanicRefines ==
    ASSUME Inv, NEW w \in Workers, Panic(w)
    PROVE  Delivery!Fault({}) \/ \E j \in Jobs : Delivery!Fault({j})
<1>1. /\ result \in {"none", "timeout"}
      /\ panicked' = TRUE /\ UNCHANGED <<stop, result>>
  BY DEF Inv, TypeOK, Joined, Panic, ownerVars
<1>2. CASE wjob[w] = NoJob
  <2>1. fate' = fate
    BY <1>2, PoolAssumption DEF Panic, Inv, TypeOK
  <2>2. Delivery!Moves({}, "running", "finished")
    BY <2>1 DEF Delivery!Moves
  <2> QED
    BY <1>1, <2>2 DEF Delivery!Fault
<1>3. CASE wjob[w] # NoJob
  <2>1. PICK j \in Jobs : j = wjob[w] /\ fate[j] = "running"
    BY <1>3 DEF Panic, Inv, TypeOK, Hands, JobOwnedOnce
  <2>2. Delivery!Moves({j}, "running", "finished")
    BY <2>1 DEF Delivery!Moves, Panic, Inv, TypeOK
  <2> QED
    BY <1>1, <2>2 DEF Delivery!Fault
<1> QED
  BY <1>2, <1>3

(* What shutdown returns is a report the contract allows. *)
LEMMA ReportRefines ==
    ASSUME Inv, Join \/ CollectTimesOut
    PROVE  \E v \in {"ok", "failed", "timeout"} : Delivery!Report(v)
<1>1. stop /\ result = "none" /\ UNCHANGED <<stop, fate, panicked>>
  BY DEF Join, CollectTimesOut, Inv, Closing, Joined
<1>2. CASE CollectTimesOut
  BY <1>1, <1>2 DEF CollectTimesOut, Delivery!Report
<1>3. CASE Join
  <2>1. \A w \in Workers : wpc[w] \in {"unborn", "exited"}
    BY <1>3 DEF Join
  <2>2. panicked <=> failed
    BY <2>1 DEF Inv, Blame
  <2>3. Len(queue) = 0
    BY <1>3 DEF Join, Inv, Closing
  <2>4. \A j \in Jobs : Seen[j] \notin {"waiting", "running"}
    <3>1. \A j \in Jobs : fate[j] \in Fate \ {"queued", "taken", "running"}
      BY <2>1, <2>3 DEF Inv, TypeOK, JobOwnedOnce
    <3> QED
      BY <3>1 DEF Seen, Fate
  <2>5. CASE failed
    BY <1>1, <1>3, <2>2, <2>5 DEF Join, Delivery!Report
  <2>6. CASE ~failed
    BY <1>1, <1>3, <2>2, <2>4, <2>6 DEF Join, Delivery!Report, Seen
  <2> QED
    BY <2>5, <2>6
<1> QED
  BY <1>2, <1>3

(* Each step of the pool is a step of the contract, or a stutter.           *)
LEMMA StepRefines ==
    Inv /\ [Next]_vars => [Delivery!DeliveryNext]_(Delivery!deliveryVars)
<1> SUFFICES ASSUME Inv, [Next]_vars
             PROVE  Delivery!DeliveryNext \/ UNCHANGED Delivery!deliveryVars
  OBVIOUS
<1>1. CASE \E j \in Jobs : Submit(j)
  BY <1>1, SubmitRefines DEF Delivery!DeliveryNext
<1>2. CASE CloseQueue
  <2>1. PICK S \in SUBSET Jobs : S = {j \in Jobs : fate[j] = "queued"}
    OBVIOUS
  <2>2. Delivery!Discard(S)
    BY <1>2, <2>1, CloseRefines
  <2> QED
    BY <2>2 DEF Delivery!DeliveryNext
<1>3. CASE Join \/ CollectTimesOut
  BY <1>3, ReportRefines DEF Delivery!DeliveryNext
<1>4. CASE \E w \in Workers : JobReady(w)
  <2> PICK w \in Workers : JobReady(w)
    BY <1>4
  <2>1. PICK j \in Jobs : Delivery!Begin(j) \/ Delivery!Discard({j})
    BY ReadyRefines
  <2>2. {j} \in SUBSET Jobs
    OBVIOUS
  <2> QED
    BY <2>1, <2>2 DEF Delivery!DeliveryNext
<1>5. CASE \E w \in Workers : HandleReturns(w)
  BY <1>5, HandledRefines DEF Delivery!DeliveryNext
<1>6. CASE \E w \in Workers : Panic(w)
  BY <1>6, PanicRefines DEF Delivery!DeliveryNext
<1>7. CASE BeginShutdown \/ BeginDrop \/ ExternalStop \/ \E w \in Workers : StoreStop(w)
  <2>1. stop' = TRUE /\ UNCHANGED <<fate, panicked, result>>
    BY <1>7 DEF BeginShutdown, BeginDrop, ExternalStop, StoreStop, ownerVars
  <2> QED
    BY <2>1 DEF Delivery!RequestStop, Delivery!DeliveryNext
<1>8. CASE \E w \in Workers : NextJob(w)
  <2> PICK w \in Workers : NextJob(w)
    BY <1>8
  <2>1. UNCHANGED <<stop, panicked, result>>
    BY DEF NextJob, ownerVars
  <2>2. CASE UNCHANGED fate
    BY <2>1, <2>2, InvisibleStutters DEF Invisible, Seen
  <2>3. CASE queue # <<>> /\ PopFirst(w)
    <3>1. 1 \in 1..Len(queue) /\ Head(queue) = queue[1] /\ Head(queue) \in Jobs
      BY <2>3 DEF Inv, TypeOK
    <3>2. fate[Head(queue)] = "queued"
      BY <3>1 DEF Inv, JobOwnedOnce
    <3>3. Seen' = Seen
      BY <2>3, <3>1, <3>2 DEF PopFirst, Seen, Inv, TypeOK
    <3> QED
      BY <2>1, <3>3, InvisibleStutters DEF Invisible
  <2> QED
    BY <2>2, <2>3 DEF NextJob
<1>9. CASE UNCHANGED <<fate, stop, panicked, result>>
  BY <1>9, InvisibleStutters DEF Invisible, Seen
<1>10. CASE \/ (\E w \in Workers : Spawn(w)) \/ NotifyOne \/ CloseNotify \/ Collect
            \/ \E w \in Workers :
                  \/ LoopHead(w) \/ MaintainReturns(w) \/ Wait(w) \/ StartHandler(w)
                  \/ WaitTimesOut(w) \/ SpuriousWakeup(w) \/ StateDropped(w)
                  \/ StoreFailed(w) \/ PanicNotify(w) \/ SendCompleted(w)
  <2>1. UNCHANGED <<fate, stop, panicked, result>>
    BY <1>10 DEF Spawn, NotifyOne, CloseNotify, Collect, LoopHead,
       MaintainReturns, Wait, WaitTimesOut, SpuriousWakeup, StartHandler,
       StateDropped, StoreFailed, PanicNotify, SendCompleted, ownerVars
  <2> QED
    BY <2>1, <1>9
<1>11. CASE UNCHANGED vars
  BY <1>9, <1>11 DEF vars
<1> QED
  BY <1>1, <1>2, <1>3, <1>4, <1>5, <1>6, <1>7, <1>8, <1>10, <1>11
     DEF Next, Owner, Worker, ThreadStep, Terminated

(* The threads, the queue and the condition variable of pool.rs implement   *)
(* the contract the listener relies on.                                     *)
THEOREM PoolImplementsDelivery == Spec => ImplementsDelivery
<1>1. Init => Delivery!DeliveryInit
  BY DEF Init, Delivery!DeliveryInit
<1> QED
  BY <1>1, StepRefines, PoolInvariant, PTL
     DEF Spec, ImplementsDelivery, Delivery!DeliverySpec
=============================================================================
