-------------------------------- MODULE Pool --------------------------------
(***************************************************************************)
(* The worker pool of src/src/server/pool.rs: a bounded queue of jobs      *)
(* behind a mutex and a condition variable, the worker threads that take   *)
(* from it, and the one listener thread that owns the pool (it submits,    *)
(* shuts down and drops it).  `stop' is the flag shared with the whole     *)
(* service, so it may also be set from outside (a signal, the other pool). *)
(*                                                                         *)
(* A step is what a thread does between two points where another thread    *)
(* can notice: the critical sections of submit and close are one step      *)
(* each; next_job is split where the worker still holds the mutex after it *)
(* found the queue empty ("locked") because a panicking worker stores stop *)
(* and notifies without the mutex.  Nothing can unwind under the mutex     *)
(* (handlers run outside it), so a poisoned lock is unreachable.           *)
(*                                                                         *)
(* pc of a worker thread                                                   *)
(*   unborn    not spawned              woken    left wait, needs mutex    *)
(*   top       at `while !stop'         timedout same, wait timed out      *)
(*   maintain  in Worker::maintain      ready    holds a job popped        *)
(*   poll      entering next_job        handling in Worker::handle         *)
(*   locked    saw an empty queue       cleared  saw no stop, to handle it *)
(*   asleep    in Condvar::wait_timeout drop     dropping its state        *)
(*   caught    unwound, to store failed faulted  to store stop             *)
(*   alarm     to notify_all            finish   to send completion        *)
(*   exited    thread over                                                 *)
(*                                                                         *)
(* pc of the owner: new, serving, notify (job pushed, notify_one to come), *)
(*   close (stop stored), notifyAll (queue closed), collect, returned,     *)
(*   dropped.                                                              *)
(***************************************************************************)
EXTENDS Integers, Sequences, FiniteSets

CONSTANTS
    Workers,   \* worker threads, `count' of them
    Capacity,  \* bound of the job queue
    Jobs,      \* jobs the listener may offer, each at most once
    NoJob      \* a worker's empty hand

ASSUME PoolAssumption ==
    /\ IsFiniteSet(Workers) /\ Workers # {}
    /\ Capacity \in Nat
    /\ NoJob \notin Jobs

VARIABLES
    stop,      \* AtomicBool shared by the service
    failed,    \* AtomicBool of this pool
    queue,     \* Jobs::queue
    closed,    \* Jobs::closed
    wpc,       \* where each worker thread is
    wjob,      \* the job each worker owns
    completed, \* messages in the completion channel
    pending,   \* completions the owner still expects
    opc,       \* where the owner thread is
    dropping,  \* close() was called by Drop
    result,    \* what shutdown returned
    fate,      \* history: what became of each job
    panicked   \* history: some worker unwound

ownerVars == <<completed, pending, opc, dropping, result>>
vars == <<stop, failed, queue, closed, wpc, wjob, completed, pending, opc,
          dropping, result, fate, panicked>>

WorkerPc == {"unborn", "top", "maintain", "poll", "locked", "asleep", "woken",
             "timedout", "ready", "cleared", "handling", "drop", "caught",
             "faulted", "alarm", "finish", "exited"}
OwnerPc == {"new", "serving", "notify", "close", "notifyAll", "collect",
            "returned", "dropped"}
Fate == {"new", "refused", "queued", "taken", "running", "finished",
         "discarded"}

Asleep == {w \in Workers : wpc[w] = "asleep"}
MutexFree == \A w \in Workers : wpc[w] # "locked"
Goto(w, pc) == wpc' = [wpc EXCEPT ![w] = pc]
WakeAll == wpc' = [w \in Workers |-> IF wpc[w] = "asleep" THEN "woken"
                                                          ELSE wpc[w]]

Init ==
    /\ stop = FALSE /\ failed = FALSE
    /\ queue = <<>> /\ closed = FALSE
    /\ wpc = [w \in Workers |-> "unborn"]
    /\ wjob = [w \in Workers |-> NoJob]
    /\ completed = 0 /\ pending = 0
    /\ opc = "new" /\ dropping = FALSE /\ result = "none"
    /\ fate = [j \in Jobs |-> "new"]
    /\ panicked = FALSE

-----------------------------------------------------------------------------
(* The owner thread *)

SpawnUncounted(w) ==
    /\ opc = "new" /\ wpc[w] = "unborn"
    /\ Goto(w, "top")
    /\ opc' = IF \A v \in Workers \ {w} : wpc[v] # "unborn" THEN "serving"
                                                            ELSE "new"
    /\ UNCHANGED <<stop, failed, queue, closed, wjob, completed, pending,
                   dropping, result, fate, panicked>>

(* Pool::new spawns one more worker; after the last one the pool is built. *)
Spawn(w) ==
    /\ opc = "new" /\ wpc[w] = "unborn"
    /\ Goto(w, "top")
    /\ pending' = pending + 1
    /\ opc' = IF \A v \in Workers \ {w} : wpc[v] # "unborn" THEN "serving"
                                                            ELSE "new"
    /\ UNCHANGED <<stop, failed, queue, closed, wjob, completed, dropping,
                   result, fate, panicked>>

FullOffByOne == Len(queue) > Capacity
Full == Len(queue) >= Capacity

(* Pool::submit up to the release of the mutex. *)
Submit(j) ==
    /\ opc = "serving" /\ MutexFree /\ fate[j] = "new"
    /\ \/ /\ stop \/ closed \/ Full
          /\ fate' = [fate EXCEPT ![j] = "refused"]
          /\ UNCHANGED <<queue, opc>>
       \/ /\ ~stop /\ ~closed /\ ~Full
          /\ queue' = Append(queue, j)
          /\ fate' = [fate EXCEPT ![j] = "queued"]
          /\ opc' = "notify"
    /\ UNCHANGED <<stop, failed, closed, wpc, wjob, completed, pending,
                   dropping, result, panicked>>

NotifyOneForgotten ==
    /\ opc = "notify" /\ opc' = "serving"
    /\ UNCHANGED <<stop, failed, queue, closed, wpc, wjob, completed, pending,
                   dropping, result, fate, panicked>>

(* The notify_one that ends submit: it wakes some sleeper, if there is one. *)
NotifyOne ==
    /\ opc = "notify"
    /\ opc' = "serving"
    /\ \/ Asleep = {} /\ UNCHANGED wpc
       \/ \E w \in Asleep : Goto(w, "woken")
    /\ UNCHANGED <<stop, failed, queue, closed, wjob, completed, pending,
                   dropping, result, fate, panicked>>

(* shutdown begins (also when create_worker or spawn fails in new): close   *)
(* stores stop before it takes the mutex.                                   *)
BeginShutdown ==
    /\ opc \in {"new", "serving"}
    /\ stop' = TRUE
    /\ opc' = "close"
    /\ UNCHANGED <<failed, queue, closed, wpc, wjob, completed, pending,
                   dropping, result, fate, panicked>>

(* Drop, after shutdown or without it (a later start-up step failed).       *)
BeginDrop ==
    /\ opc \in {"serving", "returned"}
    /\ stop' = TRUE
    /\ opc' = "close"
    /\ dropping' = TRUE
    /\ UNCHANGED <<failed, queue, closed, wpc, wjob, completed, pending,
                   result, fate, panicked>>

CloseQueueUncleared ==
    /\ opc = "close" /\ MutexFree
    /\ closed' = TRUE
    /\ opc' = "notifyAll"
    /\ UNCHANGED <<stop, failed, queue, wpc, wjob, completed, pending,
                   dropping, result, fate, panicked>>

(* The critical section of close. *)
CloseQueue ==
    /\ opc = "close" /\ MutexFree
    /\ closed' = TRUE
    /\ queue' = <<>>
    /\ fate' = [j \in Jobs |-> IF fate[j] = "queued" THEN "discarded"
                                                     ELSE fate[j]]
    /\ opc' = "notifyAll"
    /\ UNCHANGED <<stop, failed, wpc, wjob, completed, pending, dropping,
                   result, panicked>>

CloseNotifyOnlyOne ==
    /\ opc = "notifyAll"
    /\ opc' = IF dropping THEN "dropped" ELSE "collect"
    /\ \/ Asleep = {} /\ UNCHANGED wpc
       \/ \E w \in Asleep : Goto(w, "woken")
    /\ UNCHANGED <<stop, failed, queue, closed, wjob, completed, pending,
                   dropping, result, fate, panicked>>

(* The notify_all that ends close.  What is left of Drop joins threads that *)
(* have finished and detaches the others: it waits for nobody.              *)
CloseNotify ==
    /\ opc = "notifyAll"
    /\ opc' = IF dropping THEN "dropped" ELSE "collect"
    /\ WakeAll
    /\ UNCHANGED <<stop, failed, queue, closed, wjob, completed, pending,
                   dropping, result, fate, panicked>>

(* shutdown receives one completion. *)
Collect ==
    /\ opc = "collect" /\ pending > 0 /\ completed > 0
    /\ completed' = completed - 1
    /\ pending' = pending - 1
    /\ UNCHANGED <<stop, failed, queue, closed, wpc, wjob, opc, dropping,
                   result, fate, panicked>>

CollectForever == FALSE

(* recv_timeout reaches the deadline with an empty channel. *)
CollectTimesOut ==
    /\ opc = "collect" /\ pending > 0 /\ completed = 0
    /\ result' = "timeout"
    /\ opc' = "returned"
    /\ UNCHANGED <<stop, failed, queue, closed, wpc, wjob, completed, pending,
                   dropping, fate, panicked>>

JoinIgnoringFailed ==
    /\ opc = "collect" /\ pending = 0
    /\ \A w \in Workers : wpc[w] \in {"unborn", "exited"}
    /\ result' = "ok"
    /\ opc' = "returned"
    /\ UNCHANGED <<stop, failed, queue, closed, wpc, wjob, completed, pending,
                   dropping, fate, panicked>>

(* All completions are in: join every spawned thread, then read failed.     *)
Join ==
    /\ opc = "collect" /\ pending = 0
    /\ \A w \in Workers : wpc[w] \in {"unborn", "exited"}
    /\ result' = IF failed THEN "failed" ELSE "ok"
    /\ opc' = "returned"
    /\ UNCHANGED <<stop, failed, queue, closed, wpc, wjob, completed, pending,
                   dropping, fate, panicked>>

Owner ==
    \/ \E w \in Workers : Spawn(w)
    \/ \E j \in Jobs : Submit(j)
    \/ NotifyOne
    \/ BeginShutdown
    \/ BeginDrop
    \/ CloseQueue
    \/ CloseNotify
    \/ Collect
    \/ CollectTimesOut
    \/ Join

-----------------------------------------------------------------------------
(* A worker thread *)

LoopHead(w) ==
    /\ wpc[w] = "top"
    /\ Goto(w, IF stop THEN "drop" ELSE "maintain")
    /\ UNCHANGED <<stop, failed, queue, closed, wjob, fate, panicked, ownerVars>>

MaintainReturns(w) ==
    /\ wpc[w] = "maintain"
    /\ Goto(w, "poll")
    /\ UNCHANGED <<stop, failed, queue, closed, wjob, fate, panicked, ownerVars>>

PeekFirst(w) ==
    /\ wjob' = [wjob EXCEPT ![w] = Head(queue)]
    /\ fate' = [fate EXCEPT ![Head(queue)] = "taken"]
    /\ UNCHANGED queue

(* jobs.queue.pop_front() hands the job over to this worker. *)
PopFirst(w) ==
    /\ wjob' = [wjob EXCEPT ![w] = Head(queue)]
    /\ fate' = [fate EXCEPT ![Head(queue)] = "taken"]
    /\ queue' = Tail(queue)

(* One round of next_job under the mutex, on entry and after each wait.     *)
NextJob(w) ==
    /\ wpc[w] \in {"poll", "woken", "timedout"} /\ MutexFree
    /\ \/ /\ stop \/ closed                          \* JobPoll::Stopped
          /\ Goto(w, "drop")
          /\ UNCHANGED <<queue, wjob, fate>>
       \/ /\ ~stop /\ ~closed /\ queue # <<>>        \* JobPoll::Ready
          /\ PopFirst(w)
          /\ Goto(w, "ready")
       \/ /\ ~stop /\ ~closed /\ queue = <<>>        \* Idle, or wait (again)
          /\ Goto(w, IF wpc[w] = "timedout" THEN "top" ELSE "locked")
          /\ UNCHANGED <<queue, wjob, fate>>
    /\ UNCHANGED <<stop, failed, closed, panicked, ownerVars>>

(* wait_timeout registers the thread and releases the mutex. *)
Wait(w) ==
    /\ wpc[w] = "locked"
    /\ Goto(w, "asleep")
    /\ UNCHANGED <<stop, failed, queue, closed, wjob, fate, panicked, ownerVars>>

WaitTimesOut(w) ==
    /\ wpc[w] = "asleep"
    /\ Goto(w, "timedout")
    /\ UNCHANGED <<stop, failed, queue, closed, wjob, fate, panicked, ownerVars>>

SpuriousWakeup(w) ==
    /\ wpc[w] = "asleep"
    /\ Goto(w, "woken")
    /\ UNCHANGED <<stop, failed, queue, closed, wjob, fate, panicked, ownerVars>>

MayHandleUnchecked == TRUE
MayHandle == ~stop

(* The guard of the match arm: the worker looks at stop once more, and is   *)
(* bound to handle the job it popped or drops it.                           *)
JobReady(w) ==
    /\ wpc[w] = "ready"
    /\ \/ /\ MayHandle
          /\ Goto(w, "cleared")
          /\ fate' = [fate EXCEPT ![wjob[w]] = "running"]
          /\ UNCHANGED wjob
       \/ /\ ~MayHandle
          /\ Goto(w, "drop")
          /\ fate' = [fate EXCEPT ![wjob[w]] = "discarded"]
          /\ wjob' = [wjob EXCEPT ![w] = NoJob]
    /\ UNCHANGED <<stop, failed, queue, closed, panicked, ownerVars>>

(* state.handle(job) starts, whatever happened since that look.             *)
StartHandler(w) ==
    /\ wpc[w] = "cleared"
    /\ Goto(w, "handling")
    /\ UNCHANGED <<stop, failed, queue, closed, wjob, fate, panicked, ownerVars>>

HandleReturns(w) ==
    /\ wpc[w] = "handling"
    /\ Goto(w, "top")
    /\ fate' = [fate EXCEPT ![wjob[w]] = "finished"]
    /\ wjob' = [wjob EXCEPT ![w] = NoJob]
    /\ UNCHANGED <<stop, failed, queue, closed, panicked, ownerVars>>

(* maintain, handle or the drop of the worker state unwinds to catch_unwind; *)
(* a job in hand is dropped with the stack.                                  *)
Panic(w) ==
    /\ wpc[w] \in {"maintain", "handling", "drop"}
    /\ Goto(w, "caught")
    /\ panicked' = TRUE
    /\ fate' = [j \in Jobs |-> IF j = wjob[w] THEN "finished" ELSE fate[j]]
    /\ wjob' = [wjob EXCEPT ![w] = NoJob]
    /\ UNCHANGED <<stop, failed, queue, closed, ownerVars>>

StateDropped(w) ==
    /\ wpc[w] = "drop"
    /\ Goto(w, "finish")
    /\ UNCHANGED <<stop, failed, queue, closed, wjob, fate, panicked, ownerVars>>

ForgetFailed(w) ==
    /\ wpc[w] = "caught"
    /\ Goto(w, "faulted")
    /\ UNCHANGED <<stop, failed, queue, closed, wjob, fate, panicked, ownerVars>>

StoreFailed(w) ==
    /\ wpc[w] = "caught"
    /\ failed' = TRUE
    /\ Goto(w, "faulted")
    /\ UNCHANGED <<stop, queue, closed, wjob, fate, panicked, ownerVars>>

ForgetStop(w) ==
    /\ wpc[w] = "faulted"
    /\ Goto(w, "alarm")
    /\ UNCHANGED <<stop, failed, queue, closed, wjob, fate, panicked, ownerVars>>

StoreStop(w) ==
    /\ wpc[w] = "faulted"
    /\ stop' = TRUE
    /\ Goto(w, "alarm")
    /\ UNCHANGED <<failed, queue, closed, wjob, fate, panicked, ownerVars>>

(* ready.notify_all() after a panic, without the mutex: a worker that is     *)
(* "locked" misses it and sleeps until its wait times out.                   *)
PanicNotify(w) ==
    /\ wpc[w] = "alarm"
    /\ wpc' = [v \in Workers |-> IF v = w THEN "finish"
                                 ELSE IF wpc[v] = "asleep" THEN "woken"
                                 ELSE wpc[v]]
    /\ UNCHANGED <<stop, failed, queue, closed, wjob, fate, panicked, ownerVars>>

(* completed.send(()) is the last thing the thread does. *)
SendCompleted(w) ==
    /\ wpc[w] = "finish"
    /\ completed' = completed + 1
    /\ Goto(w, "exited")
    /\ UNCHANGED <<stop, failed, queue, closed, wjob, fate, panicked, pending,
                   opc, dropping, result>>

(* What the thread does by itself, as opposed to what befalls it. *)
ThreadStep(w) ==
    \/ LoopHead(w) \/ MaintainReturns(w) \/ NextJob(w) \/ Wait(w)
    \/ WaitTimesOut(w) \/ JobReady(w) \/ StartHandler(w) \/ HandleReturns(w)
    \/ StateDropped(w) \/ StoreFailed(w) \/ StoreStop(w) \/ PanicNotify(w) \/ SendCompleted(w)

Worker(w) == ThreadStep(w) \/ SpuriousWakeup(w) \/ Panic(w)

-----------------------------------------------------------------------------
(* A signal handler, the other pool or the other listener stores stop. *)
ExternalStop ==
    /\ ~stop
    /\ stop' = TRUE
    /\ UNCHANGED <<failed, queue, closed, wpc, wjob, fate, panicked, ownerVars>>

(* The pool is gone and every thread has ended. *)
Terminated ==
    /\ opc = "dropped"
    /\ \A w \in Workers : wpc[w] \in {"unborn", "exited"}
    /\ UNCHANGED vars

Next ==
    \/ Owner
    \/ \E w \in Workers : Worker(w)
    \/ ExternalStop
    \/ Terminated

Spec == Init /\ [][Next]_vars

(* The owner goes on when it is inside a call, and its listener loop shuts  *)
(* the pool down after stop (server.rs); nothing else forces it to submit   *)
(* or to shut down.                                                         *)
OwnerFairness ==
    /\ WF_vars(stop /\ opc = "serving" /\ BeginShutdown)
    /\ WF_vars(NotifyOne) /\ WF_vars(CloseQueue) /\ WF_vars(CloseNotify)
    /\ WF_vars(Collect) /\ WF_vars(CollectTimesOut) /\ WF_vars(Join)

(* Workers may hang wherever they are, except inside wait_timeout's release *)
(* of the mutex, which runs no foreign code.                                *)
FairSpec == Spec /\ OwnerFairness /\ \A w \in Workers : WF_vars(Wait(w))

(* The contract of trait Worker ("must bound blocking work and observe      *)
(* their cancellation signal"), on top of FairSpec: the threads are         *)
(* scheduled, waits time out, and handlers return.                          *)
WorkersProceed == \A w \in Workers : WF_vars(ThreadStep(w))

-----------------------------------------------------------------------------
(* The pool as an implementation of its contract: a popped job is still      *)
(* waiting until its worker is bound to run it.                              *)
Delivery == INSTANCE JobDelivery WITH
    state <- [j \in Jobs |-> IF fate[j] \in {"queued", "taken"} THEN "waiting"
                                                               ELSE fate[j]],
    stopping <- stop,
    faulty <- panicked,
    verdict <- result

-----------------------------------------------------------------------------
(* Properties *)

(* Every variable has its type and the queue never exceeds its capacity.    *)
TypeOK ==
    /\ stop \in BOOLEAN /\ failed \in BOOLEAN /\ closed \in BOOLEAN
    /\ queue \in Seq(Jobs) /\ Len(queue) <= Capacity
    /\ wpc \in [Workers -> WorkerPc]
    /\ wjob \in [Workers -> Jobs \cup {NoJob}]
    /\ completed \in Nat /\ pending \in Nat
    /\ opc \in OwnerPc /\ dropping \in BOOLEAN
    /\ result \in {"none", "ok", "failed", "timeout"}
    /\ fate \in [Jobs -> Fate]
    /\ panicked \in BOOLEAN

(* "Work transferred by ownership from the listener to a single worker":    *)
(* a job accepted by submit is at each moment in exactly one place (once in *)
(* the queue, or with one worker), and is discarded only if stop was set.   *)
JobOwnedOnce ==
    \A j \in Jobs :
        /\ fate[j] = "queued" <=> \E i \in 1..Len(queue) : queue[i] = j
        /\ \A i, k \in 1..Len(queue) : queue[i] = j /\ queue[k] = j => i = k
        /\ fate[j] = "taken" <=> \E w \in Workers : wpc[w] = "ready" /\ wjob[w] = j
        /\ fate[j] = "running" <=>
             \E w \in Workers : wpc[w] \in {"cleared", "handling"} /\ wjob[w] = j
        /\ \A v, w \in Workers : wjob[v] = j /\ wjob[w] = j => v = w
        /\ fate[j] = "discarded" => stop

(* submit's notify_one is never lost: in a running service, while some      *)
(* worker still sleeps, every queued job has a woken worker of its own on   *)
(* its way to the queue (or the notify_one of the submit in progress), so   *)
(* no job waits for a poll interval to pass although a worker is idle.      *)
NoLostWakeup ==
    ~stop /\ Asleep # {} =>
        Len(queue) <= Cardinality({w \in Workers : wpc[w] = "woken"})
                        + (IF opc = "notify" THEN 1 ELSE 0)

(* Once close() is over no worker is asleep or about to sleep: shutdown     *)
(* does not wait for a poll interval.                                       *)
NoSleeperAfterClose ==
    opc \in {"collect", "returned", "dropped"} =>
        \A w \in Workers : wpc[w] \notin {"locked", "asleep"}

(* shutdown answers Ok only if every worker has ended, none of them ever    *)
(* panicked, and no accepted job is left queued or running.                 *)
OkMeansCleanStop ==
    result = "ok" =>
        /\ ~panicked
        /\ \A w \in Workers : wpc[w] \in {"unborn", "exited"}
        /\ \A j \in Jobs : fate[j] \notin {"queued", "taken", "running"}

(* When shutdown has received all completions it expects, the joins that    *)
(* follow cannot block: every thread that was spawned has sent its message. *)
JoinNeverBlocks ==
    opc = "collect" /\ pending = 0 =>
        \A w \in Workers : wpc[w] \in {"unborn", "exited"}

(* "Queued jobs are discarded rather than drained through handlers": once   *)
(* the queue is closed, the only handlers that still start are those of     *)
(* workers that had their last look at stop before, one each; the others    *)
(* never get that far again.                                                *)
Cleared == {w \in Workers : wpc[w] = "cleared"}
Handling == {w \in Workers : wpc[w] = "handling"}
NotDrained ==
    [][closed => Cleared' \subseteq Cleared /\ Handling' \subseteq Handling \cup Cleared]_vars

(* If handlers return, a job accepted by submit is eventually popped or     *)
(* discarded.                                                               *)
AcceptedJobLeavesQueue ==
    WorkersProceed => \A j \in Jobs : fate[j] = "queued" ~> fate[j] # "queued"

(* "a dead worker must stop the service": a panic in a worker ends every    *)
(* thread of the pool (if the other handlers return), although its          *)
(* notify_all is sent without the mutex.                                    *)
PanicStopsPool ==
    WorkersProceed => panicked ~> \A w \in Workers : wpc[w] \in {"unborn", "exited"}

(* "A failed explicit shutdown must not become an unbounded join": shutdown  *)
(* and drop return even when workers hang in their handlers for ever.        *)
ShutdownReturns == opc = "close" ~> opc \in {"returned", "dropped"}

(* The threads, the queue and the condition variable implement the contract  *)
(* that the listener relies on: accepted jobs run at most once, no worker    *)
(* binds itself to one after stop, and shutdown's answer is ok exactly       *)
(* when nobody panicked.                                                     *)
ImplementsDelivery == Delivery!DeliverySpec
=============================================================================
