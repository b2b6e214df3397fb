------------------------------ MODULE Logging -------------------------------
(***************************************************************************)
(* The asynchronous log of src/src/logging.rs: two bounded channels        *)
(* (lifecycle events, routine warnings), the writer thread that empties    *)
(* them into stderr, and the guard whose drop at the end of main flushes   *)
(* the log for a bounded time.                                             *)
(*                                                                         *)
(* main emits its last line (exit_status) and then drops the guard; the    *)
(* other threads of the process may emit at any time until it exits.       *)
(* A line is identified by its number; `blocked' stderr is the environment *)
(* keeping writeln! from returning.                                        *)
(*                                                                         *)
(* pc of the writer: events, messages (the two try_recv), check (load of   *)
(* stop), receive (recv_timeout on messages), write, done, exited.         *)
(* pc of main: run, drop (guard dropped), wait (stop stored), exited.      *)
(***************************************************************************)
EXTENDS Integers, SequencesExt

CONSTANTS
    Important,       \* lines for info and error
    Routine,         \* lines for warn
    ImportantBound,  \* capacity of the `important' channel
    RoutineBound     \* capacity of the `routine' channel

ASSUME LoggingAssumption ==
    /\ ImportantBound \in Nat /\ RoutineBound \in Nat
    /\ Important \cap Routine = {}

Lines == Important \cup Routine

VARIABLES
    events, messages,  \* the channels
    wpc, hand,         \* the writer and the line it is writing
    written,           \* what reached stderr
    stop,              \* Logger::stop
    finished,          \* `done' was sent
    mpc,               \* main
    flushed,           \* drop got `finished' in time and joined the writer
    accepted,          \* history: lines try_send took, in order
    dropped,           \* history: lines it refused
    fatal              \* history: the ERROR line main ended with, if any

vars == <<events, messages, wpc, hand, written, stop, finished, mpc, flushed,
          accepted, dropped, fatal>>

Init ==
    /\ events = <<>> /\ messages = <<>>
    /\ wpc = "events" /\ hand = <<>> /\ written = <<>>
    /\ stop = FALSE /\ finished = FALSE
    /\ mpc = "run" /\ flushed = FALSE
    /\ accepted = <<>> /\ dropped = {} /\ fatal = <<>>

Elements(s) == {s[i] : i \in 1..Len(s)}
Fresh(line) == line \notin Elements(accepted) \cup dropped

-----------------------------------------------------------------------------
(* emit: try_send on the lane of the line; a full lane drops it. *)
Send(line) ==
    /\ Fresh(line)
    /\ \/ /\ line \in Important /\ Len(events) < ImportantBound
          /\ events' = Append(events, line) /\ UNCHANGED messages
          /\ accepted' = Append(accepted, line) /\ UNCHANGED dropped
       \/ /\ line \in Routine /\ Len(messages) < RoutineBound
          /\ messages' = Append(messages, line) /\ UNCHANGED events
          /\ accepted' = Append(accepted, line) /\ UNCHANGED dropped
       \/ /\ Len(IF line \in Important THEN events ELSE messages)
               >= (IF line \in Important THEN ImportantBound ELSE RoutineBound)
          /\ dropped' = dropped \cup {line}
          /\ UNCHANGED <<events, messages, accepted>>

(* info, error or warn, called by main while it runs the service or by any  *)
(* other thread of the process.                                             *)
Emit(line) ==
    /\ mpc # "exited"
    /\ Send(line)
    /\ UNCHANGED <<wpc, hand, written, stop, finished, mpc, flushed, fatal>>

(* run() returned Ok: nothing is left to do but drop the guard. *)
MainSucceeds ==
    /\ mpc = "run" /\ mpc' = "drop"
    /\ UNCHANGED <<events, messages, wpc, hand, written, stop, finished, flushed,
                   accepted, dropped, fatal>>

(* run() returned Err: exit_status reports it before the guard is dropped.  *)
MainFails(line) ==
    /\ mpc = "run" /\ mpc' = "drop"
    /\ Send(line)
    /\ fatal' = <<line>>
    /\ UNCHANGED <<wpc, hand, written, stop, finished, flushed>>

(* Logger::drop *)
StoreStop ==
    /\ mpc = "drop" /\ mpc' = "wait" /\ stop' = TRUE
    /\ UNCHANGED <<events, messages, wpc, hand, written, finished, flushed,
                   accepted, dropped, fatal>>

FlushEnds ==
    /\ mpc = "wait" /\ finished /\ wpc = "exited"
    /\ mpc' = "exited" /\ flushed' = TRUE
    /\ UNCHANGED <<events, messages, wpc, hand, written, stop, finished, accepted,
                   dropped, fatal>>

FlushForever == FALSE

(* recv_timeout gives up: the writer is left behind. *)
FlushTimesOut ==
    /\ mpc = "wait" /\ ~finished
    /\ mpc' = "exited"
    /\ UNCHANGED <<events, messages, wpc, hand, written, stop, finished, flushed,
                   accepted, dropped, fatal>>

-----------------------------------------------------------------------------
(* The writer thread; it dies with the process. *)

Writing == mpc # "exited"

TakeEventAndMessage ==
    /\ Writing /\ wpc = "events"
    /\ IF events # <<>>
       THEN /\ wpc' = "write" /\ hand' = <<Head(events)>> /\ events' = Tail(events)
            /\ messages' = IF messages = <<>> THEN <<>> ELSE Tail(messages)
       ELSE wpc' = "messages" /\ UNCHANGED <<hand, events, messages>>
    /\ UNCHANGED <<written, stop, finished, mpc, flushed, accepted, dropped, fatal>>

(* events.try_recv(); only if that lane is empty is the other one looked at. *)
TakeEvent ==
    /\ Writing /\ wpc = "events"
    /\ IF events # <<>>
       THEN wpc' = "write" /\ hand' = <<Head(events)>> /\ events' = Tail(events)
       ELSE wpc' = "messages" /\ UNCHANGED <<hand, events>>
    /\ UNCHANGED <<messages, written, stop, finished, mpc, flushed, accepted,
                   dropped, fatal>>

TakeMessage ==
    /\ Writing /\ wpc = "messages"
    /\ IF messages # <<>>
       THEN wpc' = "write" /\ hand' = <<Head(messages)>> /\ messages' = Tail(messages)
       ELSE wpc' = "check" /\ UNCHANGED <<hand, messages>>
    /\ UNCHANGED <<events, written, stop, finished, mpc, flushed, accepted,
                   dropped, fatal>>

CheckStop ==
    /\ Writing /\ wpc = "check"
    /\ wpc' = IF stop THEN "done" ELSE "receive"
    /\ UNCHANGED <<events, messages, hand, written, stop, finished, mpc, flushed,
                   accepted, dropped, fatal>>

ReceiveWithoutTimeout ==
    /\ Writing /\ wpc = "receive" /\ messages # <<>>
    /\ wpc' = "write" /\ hand' = <<Head(messages)>> /\ messages' = Tail(messages)
    /\ UNCHANGED <<events, written, stop, finished, mpc, flushed, accepted,
                   dropped, fatal>>

(* recv_timeout waits for a routine line, at most a tenth of a second. *)
Receive ==
    /\ Writing /\ wpc = "receive"
    /\ IF messages # <<>>
       THEN wpc' = "write" /\ hand' = <<Head(messages)>> /\ messages' = Tail(messages)
       ELSE wpc' = "events" /\ UNCHANGED <<hand, messages>>
    /\ UNCHANGED <<events, written, stop, finished, mpc, flushed, accepted,
                   dropped, fatal>>

(* writeln! returns, whether the sink took the line or failed. *)
Write ==
    /\ Writing /\ wpc = "write"
    /\ written' = written \o hand /\ hand' = <<>>
    /\ wpc' = "events"
    /\ UNCHANGED <<events, messages, stop, finished, mpc, flushed, accepted,
                   dropped, fatal>>

SendDone ==
    /\ Writing /\ wpc = "done"
    /\ finished' = TRUE /\ wpc' = "exited"
    /\ UNCHANGED <<events, messages, hand, written, stop, mpc, flushed, accepted,
                   dropped, fatal>>

Poll == TakeEvent \/ TakeMessage \/ CheckStop \/ Receive \/ SendDone

Exited == mpc = "exited" /\ UNCHANGED vars

Next ==
    \/ \E line \in Lines : Emit(line)
    \/ MainSucceeds \/ \E line \in Important : MainFails(line)
    \/ StoreStop \/ FlushEnds \/ FlushTimesOut
    \/ Poll \/ Write
    \/ Exited

Spec == Init /\ [][Next]_vars

(* The threads run and recv_timeout times out; whether stderr accepts a     *)
(* line is another matter.                                                  *)
FairSpec ==
    Spec /\ WF_vars(StoreStop) /\ WF_vars(FlushEnds) /\ WF_vars(FlushTimesOut)
         /\ WF_vars(Poll)

StderrAccepts == WF_vars(Write)

-----------------------------------------------------------------------------
(* Properties *)

(* The lines of one lane among those of s, in order. *)
Lane(s, lane) == FlattenSeq([i \in DOMAIN s |-> IF s[i] \in lane THEN <<s[i]>> ELSE <<>>])

(* Each lane is a FIFO through channel, writer and stderr: the lines of a   *)
(* lane that were accepted are those written, then the one in the writer's  *)
(* hand, then those queued, in the order of emit and each exactly once, and *)
(* no lane outgrows its channel.                                            *)
LanesInOrder ==
    /\ Lane(accepted, Important) = Lane(written \o hand, Important) \o events
    /\ Lane(accepted, Routine) = Lane(written \o hand, Routine) \o messages
    /\ Len(events) <= ImportantBound /\ Len(messages) <= RoutineBound

(* Until the guard is dropped, an accepted lifecycle line reaches a stderr  *)
(* that takes lines, however many routine lines compete with it.            *)
ImportantLineWritten ==
    StderrAccepts => \A line \in Important :
        line \in Elements(events) ~> line \in Elements(written) \/ stop

(* "A blocked stderr can lose logs, but never holds ... service shutdown":  *)
(* dropping the guard ends even if the writer never returns from writeln!.  *)
DropReturns == mpc = "drop" ~> mpc = "exited"

(* What cli_and_startup_diagnostics expects of the program ("ERROR" on the  *)
(* stderr of a run that fails): unless the flush timed out on a blocked     *)
(* stderr, the line with which exit_status reports the failure is written.  *)
FatalLineWritten ==
    flushed => \A line \in Elements(fatal) \ dropped : line \in Elements(written)
=============================================================================
