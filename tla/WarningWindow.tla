--------------------------- MODULE WarningWindow ----------------------------
(***************************************************************************)
(* The rate limit of routine warnings in src/src/logging.rs: the window    *)
(* behind the WINDOW mutex, shared by all threads that call warn.  One     *)
(* step is one critical section of warn; the lines it decides to write     *)
(* are counted at that moment.  Time is the monotonic clock, in ticks.     *)
(***************************************************************************)
EXTENDS Integers, Sequences

CONSTANTS
    Burst,     \* BURST, warnings written per window
    Interval,  \* INTERVAL, length of a window in ticks
    MaxTime,   \* bound on the clock
    MaxWarned  \* bound on the calls of warn

ASSUME WindowAssumption ==
    /\ Burst \in Nat \ {0}
    /\ Interval \in Nat \ {0}
    /\ MaxTime \in Nat /\ MaxWarned \in Nat

VARIABLES
    now,        \* the clock
    exists,     \* WINDOW is Some(..)
    started,    \* WarningWindow::started_at
    emitted,    \* WarningWindow::emitted
    suppressed, \* WarningWindow::suppressed
    stamps,     \* history: when each warning written was written
    windows,    \* history: start of the window each of them belongs to
    warned,     \* history: calls of warn
    reported    \* history: warnings announced by "suppressed N repeated ..."

windowVars == <<now, exists, started, emitted, suppressed, stamps, windows, warned, reported>>

WindowInit ==
    /\ now = 0 /\ exists = FALSE /\ started = 0 /\ emitted = 0 /\ suppressed = 0
    /\ stamps = <<>> /\ windows = <<>>
    /\ warned = 0 /\ reported = 0

NewWindowEarly == ~exists \/ now - started >= Interval - 1

(* The window of this call: the one that exists, or a new one when there is *)
(* none or it is INTERVAL old; what the old one suppressed is reported.     *)
NewWindow == ~exists \/ now - started >= Interval

ReportNothing(n) == 0
ReportedOf(n) == n

(* `window.emitted < BURST' *)
Emits(n) == n < Burst

Warn ==
    LET count == IF NewWindow THEN 0 ELSE emitted
        muted == IF NewWindow THEN 0 ELSE suppressed
        start == IF NewWindow THEN now ELSE started
    IN /\ warned < MaxWarned
       /\ warned' = warned + 1
       /\ exists' = TRUE
       /\ started' = start
       /\ reported' = IF NewWindow THEN reported + ReportedOf(suppressed) ELSE reported
       /\ \/ /\ Emits(count)
             /\ emitted' = count + 1 /\ suppressed' = muted
             /\ stamps' = Append(stamps, now) /\ windows' = Append(windows, start)
          \/ /\ ~Emits(count)
             /\ emitted' = count /\ suppressed' = muted + 1
             /\ UNCHANGED <<stamps, windows>>
       /\ UNCHANGED now

Tick ==
    /\ now < MaxTime /\ now' = now + 1
    /\ UNCHANGED <<exists, started, emitted, suppressed, stamps, windows, warned, reported>>

(* Both bounds are reached. *)
Rest == now = MaxTime /\ warned = MaxWarned /\ UNCHANGED windowVars

WindowNext == Warn \/ Tick \/ Rest

WindowSpec == WindowInit /\ [][WindowNext]_windowVars

-----------------------------------------------------------------------------
(* Properties *)

(* Every variable has its type.                                             *)
WindowTypeOK ==
    /\ now \in Nat /\ exists \in BOOLEAN /\ started \in Nat
    /\ emitted \in 0..Burst /\ suppressed \in Nat
    /\ stamps \in Seq(Nat) /\ windows \in Seq(Nat)
    /\ warned \in Nat /\ reported \in Nat

(* No warning disappears silently: each one was written, has been announced *)
(* in a "suppressed N" line, or is in the count that the next window will   *)
(* announce.  Written means handed to emit, where a full lane may still     *)
(* drop the line.                                                           *)
Accounted == warned = Len(stamps) + reported + suppressed

(* The limit the windows really enforce: of any 2 * BURST consecutive       *)
(* warnings the last comes at least INTERVAL after the first, so that fewer *)
(* than 2 * BURST are written in any span shorter than INTERVAL.            *)
SpanBound ==
    \A i \in 1..Len(stamps) :
        i + 2 * Burst - 1 <= Len(stamps) => stamps[i + 2 * Burst - 1] - stamps[i] >= Interval

(* What makes the limit hold: the warnings fall into windows that start at  *)
(* least INTERVAL apart, a window holds at most BURST of them, the first    *)
(* one at its very start and all of them before its end.                    *)
WindowsDisjoint ==
    /\ Len(windows) = Len(stamps)
    /\ \A i \in 1..Len(stamps) :
         /\ windows[i] <= stamps[i] /\ stamps[i] < windows[i] + Interval
         /\ stamps[i] <= now
         /\ i = 1 \/ windows[i - 1] # windows[i] => stamps[i] = windows[i]
         /\ i + Burst <= Len(stamps) => windows[i] # windows[i + Burst]
    /\ \A i, j \in 1..Len(stamps) :
         i < j => windows[i] = windows[j] \/ windows[i] + Interval <= windows[j]
=============================================================================
