--------------------------- MODULE LoggingProofs ----------------------------
(***************************************************************************)
(* Proofs about Logging for all lines and channel capacities: each lane is *)
(* a bounded FIFO from emit to stderr.  A line moves from the channel to   *)
(* the writer's hand and from there to stderr, and the lines of the two    *)
(* lanes pass each other in that hand; so the invariant follows the lane   *)
(* of what was written together with what is in the hand.                  *)
(*                                                                         *)
(* The second part is about the warning window, a specification of its own *)
(* beside the log: its lock is taken before a line is sent to a lane.      *)
(***************************************************************************)
EXTENDS Logging, WarningWindow, SequenceFacts

(* The lines the channels and the writer hold. *)
TypeOK ==
    /\ events \in Seq(Important) /\ messages \in Seq(Routine)
    /\ written \in Seq(Lines) /\ accepted \in Seq(Lines)
    /\ hand \in Seq(Lines)
    /\ wpc \in {"events", "messages", "check", "receive", "write", "done", "exited"}

(* The writer takes no line while it has one. *)
OneInHand == wpc # "write" => hand = <<>>

Inv == TypeOK /\ OneInHand /\ LanesInOrder

-----------------------------------------------------------------------------
(* No line belongs to both lanes, and the lane of no lines is empty.        *)
LEMMA LaneEmpty == \A lane : Lane(<<>>, lane) = <<>>
<1> SUFFICES ASSUME NEW lane PROVE Lane(<<>>, lane) = <<>>
  OBVIOUS
<1>1. [i \in DOMAIN <<>> |-> IF <<>>[i] \in lane THEN <<<<>>[i]>> ELSE <<>>] = <<>>
  OBVIOUS
<1> QED
  BY <1>1, FlattenEmpty DEF Lane

(* The lane of a sequence of lines is one.                                  *)
LEMMA LaneType ==
    ASSUME NEW S, NEW s \in Seq(S), NEW lane
    PROVE  Lane(s, lane) \in Seq(S)
<1> DEFINE P(x) == IF x \in lane THEN <<x>> ELSE <<>>
<1>1. \A x \in S : P(x) \in Seq(S)
  OBVIOUS
<1> HIDE DEF P
<1>2. DOMAIN s = 1..Len(s) /\ Len(s) \in Nat
  OBVIOUS
<1>3. \A i \in 1..Len(s) : P(s[i]) \in Seq(S)
  BY <1>1
<1>4. [i \in DOMAIN s |-> P(s[i])] \in Seq(Seq(S))
  BY <1>2, <1>3, IsASeq
<1>5. FlattenSeq([i \in DOMAIN s |-> P(s[i])]) \in Seq(S)
  BY <1>4, FlattenType
<1> QED
  BY <1>5 DEF Lane, P

(* A line behind the others is the last of its lane and changes no other.   *)
LEMMA LaneGrows ==
    ASSUME NEW S, NEW s \in Seq(S), NEW line \in S, NEW lane
    PROVE  /\ line \in lane => Lane(Append(s, line), lane) = Append(Lane(s, lane), line)
           /\ line \notin lane => Lane(Append(s, line), lane) = Lane(s, lane)
<1> DEFINE P(x) == IF x \in lane THEN <<x>> ELSE <<>>
           parts == [i \in DOMAIN s |-> P(s[i])]
<1>1. \A x \in S : P(x) \in Seq(S)
  OBVIOUS
<1>2. parts \in Seq(Seq(S))
  <2> HIDE DEF P
  <2>1. DOMAIN s = 1..Len(s) /\ Len(s) \in Nat
    OBVIOUS
  <2>2. \A i \in 1..Len(s) : P(s[i]) \in Seq(S)
    BY <1>1
  <2> QED
    BY <2>1, <2>2, IsASeq
<1>3. [i \in DOMAIN Append(s, line) |-> P(Append(s, line)[i])] = Append(parts, P(line))
  <2> HIDE DEF P
  <2> QED
    OBVIOUS
<1>4. P(line) \in Seq(S)
  BY <1>1
<1>5. Lane(s, lane) = FlattenSeq(parts) /\ Lane(Append(s, line), lane) = FlattenSeq(Append(parts, P(line)))
  BY <1>3 DEF Lane
<1> HIDE DEF parts
<1>6. FlattenSeq(parts) \in Seq(S)
  BY <1>2, FlattenType
<1>7. Lane(Append(s, line), lane) = Lane(s, lane) \o P(line)
  <2> HIDE DEF P
  <2> QED
    BY <1>2, <1>4, <1>5, FlattenAppend
<1>8. CASE line \in lane
  <2>1. P(line) = <<line>>
    BY <1>8
  <2> QED
    BY <1>5, <1>6, <1>7, <1>8, <2>1, AppendIsConcat
<1>9. CASE line \notin lane
  <2>1. P(line) = <<>>
    BY <1>9
  <2> QED
    BY <1>5, <1>6, <1>7, <1>9, <2>1, ConcatEmptySeq
<1> QED
  BY <1>8, <1>9

(* A lane of s is what has left of it, followed by what is queued.          *)
Fifo(a, w, q, lane) == Lane(a, lane) = Lane(w, lane) \o q

(* try_send: the line is the last that was accepted and the last queued.    *)
LEMMA Enqueue ==
    ASSUME NEW S, NEW a \in Seq(S), NEW w \in Seq(S), NEW q \in Seq(S), NEW line \in S,
           NEW lane, Fifo(a, w, q, lane)
    PROVE  /\ line \in lane => Fifo(Append(a, line), w, Append(q, line), lane)
           /\ line \notin lane => Fifo(Append(a, line), w, q, lane)
<1>1. Lane(a, lane) = Lane(w, lane) \o q
  BY DEF Fifo
<1>2. Lane(w, lane) \in Seq(S)
  BY LaneType
<1>3. CASE line \in lane
  <2>1. Lane(Append(a, line), lane) = Append(Lane(a, lane), line)
    BY <1>3, LaneGrows
  <2>2. Lane(w, lane) \o Append(q, line) = Append(Lane(w, lane) \o q, line)
    BY <1>2, AppendBehind
  <2> QED
    BY <1>1, <1>3, <2>1, <2>2 DEF Fifo
<1>4. CASE line \notin lane
  <2>1. Lane(Append(a, line), lane) = Lane(a, lane)
    BY <1>4, LaneGrows
  <2> QED
    BY <1>1, <1>4, <2>1 DEF Fifo
<1> QED
  BY <1>3, <1>4

(* try_recv: the first line queued is the next that leaves.                 *)
LEMMA Dequeue ==
    ASSUME NEW S, NEW a \in Seq(S), NEW w \in Seq(S), NEW q \in Seq(S), q # <<>>,
           NEW lane, Head(q) \in lane, Fifo(a, w, q, lane)
    PROVE  Fifo(a, Append(w, Head(q)), Tail(q), lane)
<1> DEFINE L == Lane(w, lane)
<1>1. Lane(a, lane) = L \o q /\ L \in Seq(S)
  BY LaneType DEF Fifo
<1>2. Head(q) \in S /\ Tail(q) \in Seq(S) /\ <<Head(q)>> \in Seq(S)
  OBVIOUS
<1>3. Lane(Append(w, Head(q)), lane) = Append(L, Head(q))
  BY <1>2, LaneGrows
<1> HIDE DEF L
<1>4. Append(L, Head(q)) = L \o <<Head(q)>>
  BY <1>1, <1>2, AppendIsConcat
<1>5. Assoc(L, <<Head(q)>>, Tail(q))
  BY <1>1, <1>2, Associative
<1>6. <<Head(q)>> \o Tail(q) = q
  OBVIOUS
<1> QED
  BY <1>1, <1>3, <1>4, <1>5, <1>6 DEF Fifo, Assoc

(* A line that leaves the other lane makes no difference to this one.       *)
LEMMA OtherLane ==
    ASSUME NEW S, NEW a \in Seq(S), NEW w \in Seq(S), NEW q, NEW line \in S,
           NEW lane, line \notin lane, Fifo(a, w, q, lane)
    PROVE  Fifo(a, Append(w, line), q, lane)
  BY LaneGrows DEF Fifo

-----------------------------------------------------------------------------
(* LanesInOrder, with the lanes as FIFOs.                                   *)
LEMMA LanesAreFifos ==
    LanesInOrder <=>
        /\ Fifo(accepted, written \o hand, events, Important)
        /\ Fifo(accepted, written \o hand, messages, Routine)
        /\ Len(events) <= ImportantBound /\ Len(messages) <= RoutineBound
  BY DEF LanesInOrder, Fifo

(* The sequences of lines involved.                                         *)
LEMMA LineTypes ==
    ASSUME TypeOK
    PROVE  /\ events \in Seq(Lines) /\ messages \in Seq(Lines)
           /\ accepted \in Seq(Lines) /\ written \o hand \in Seq(Lines)
<1>1. Important \subseteq Lines /\ Routine \subseteq Lines
  BY DEF Lines
<1>2. events \in Seq(Lines) /\ messages \in Seq(Lines)
  BY <1>1, SeqMonotonic DEF TypeOK
<1> QED
  BY <1>2 DEF TypeOK

(* emit: try_send appends the line to its lane or drops it.                 *)
LEMMA SendStep ==
    ASSUME Inv, NEW line \in Lines, Send(line), UNCHANGED <<wpc, hand, written>>
    PROVE  Inv'
<1> USE LoggingAssumption DEF Inv
<1> DEFINE w == written \o hand
<1>1. /\ events \in Seq(Lines) /\ messages \in Seq(Lines)
      /\ accepted \in Seq(Lines) /\ w \in Seq(Lines) /\ w' = w
  BY LineTypes
<1>2. /\ Fifo(accepted, w, events, Important) /\ Fifo(accepted, w, messages, Routine)
      /\ Len(events) <= ImportantBound /\ Len(messages) <= RoutineBound
  BY LanesAreFifos
<1> HIDE DEF w
<1>3. CASE /\ line \in Important /\ Len(events) < ImportantBound
           /\ events' = Append(events, line) /\ UNCHANGED messages
           /\ accepted' = Append(accepted, line)
  <2>1. TypeOK' /\ OneInHand'
    BY <1>3 DEF TypeOK, OneInHand
  <2>2. Len(events') <= ImportantBound /\ Len(messages') <= RoutineBound
    BY <1>2, <1>3 DEF TypeOK
  <2>3. Fifo(accepted', w, events', Important)
    BY <1>1, <1>2, <1>3, Enqueue
  <2>4. line \notin Routine
    BY <1>3
  <2>5. Fifo(accepted', w, messages', Routine)
    BY <1>1, <1>2, <1>3, <2>4, Enqueue
  <2>6. LanesInOrder'
    BY <1>1, <2>2, <2>3, <2>5 DEF w, LanesInOrder, Fifo
  <2> QED
    BY <2>1, <2>6
<1>4. CASE /\ line \in Routine /\ Len(messages) < RoutineBound
           /\ messages' = Append(messages, line) /\ UNCHANGED events
           /\ accepted' = Append(accepted, line)
  <2>1. TypeOK' /\ OneInHand'
    BY <1>4 DEF TypeOK, OneInHand
  <2>2. Len(events') <= ImportantBound /\ Len(messages') <= RoutineBound
    BY <1>2, <1>4 DEF TypeOK
  <2>3. Fifo(accepted', w, messages', Routine)
    BY <1>1, <1>2, <1>4, Enqueue
  <2>4. line \notin Important
    BY <1>4
  <2>5. Fifo(accepted', w, events', Important)
    BY <1>1, <1>2, <1>4, <2>4, Enqueue
  <2>6. LanesInOrder'
    BY <1>1, <2>2, <2>3, <2>5 DEF w, LanesInOrder, Fifo
  <2> QED
    BY <2>1, <2>6
<1>5. CASE UNCHANGED <<events, messages, accepted>>
  BY <1>5 DEF TypeOK, OneInHand, LanesInOrder
<1> QED
  BY <1>3, <1>4, <1>5 DEF Send

(* events.try_recv with a line there: it passes into the writer's hand.     *)
LEMMA TakesEvent ==
    ASSUME Inv, wpc # "write", events # <<>>, wpc' = "write",
           hand' = <<Head(events)>>, events' = Tail(events),
           UNCHANGED <<messages, written, accepted>>
    PROVE  Inv'
<1> USE LoggingAssumption DEF Inv
<1> DEFINE line == Head(events)
<1>1. /\ events \in Seq(Lines) /\ messages \in Seq(Lines)
      /\ accepted \in Seq(Lines) /\ written \in Seq(Lines)
  BY LineTypes DEF TypeOK
<1>2. line \in Important /\ line \in Lines /\ line \notin Routine /\ hand = <<>>
  BY DEF TypeOK, OneInHand, Lines
<1>3. written \o hand = written /\ written \o hand' = Append(written, line)
  BY <1>1, <1>2, ConcatEmptySeq, AppendIsConcat
<1>4. Fifo(accepted, written, events, Important) /\ Fifo(accepted, written, messages, Routine)
  BY <1>3, LanesAreFifos
<1>5. Fifo(accepted, Append(written, line), Tail(events), Important)
  BY <1>1, <1>2, <1>4, Dequeue
<1>6. Fifo(accepted, Append(written, line), messages, Routine)
  BY <1>1, <1>2, <1>4, OtherLane
<1>7. TypeOK' /\ OneInHand'
  BY <1>2 DEF TypeOK, OneInHand
<1>8. Len(events') <= ImportantBound /\ Len(messages') <= RoutineBound
  BY DEF LanesInOrder, TypeOK
<1>9. LanesInOrder'
  BY <1>3, <1>5, <1>6, <1>8 DEF LanesInOrder, Fifo
<1> QED
  BY <1>7, <1>9

(* messages.try_recv and recv_timeout with a line there.                    *)
LEMMA TakesMessage ==
    ASSUME Inv, wpc # "write", messages # <<>>, wpc' = "write",
           hand' = <<Head(messages)>>, messages' = Tail(messages),
           UNCHANGED <<events, written, accepted>>
    PROVE  Inv'
<1> USE LoggingAssumption DEF Inv
<1> DEFINE line == Head(messages)
<1>1. /\ events \in Seq(Lines) /\ messages \in Seq(Lines)
      /\ accepted \in Seq(Lines) /\ written \in Seq(Lines)
  BY LineTypes DEF TypeOK
<1>2. line \in Routine /\ line \in Lines /\ line \notin Important /\ hand = <<>>
  BY DEF TypeOK, OneInHand, Lines
<1>3. written \o hand = written /\ written \o hand' = Append(written, line)
  BY <1>1, <1>2, ConcatEmptySeq, AppendIsConcat
<1>4. Fifo(accepted, written, events, Important) /\ Fifo(accepted, written, messages, Routine)
  BY <1>3, LanesAreFifos
<1>5. Fifo(accepted, Append(written, line), Tail(messages), Routine)
  BY <1>1, <1>2, <1>4, Dequeue
<1>6. Fifo(accepted, Append(written, line), events, Important)
  BY <1>1, <1>2, <1>4, OtherLane
<1>7. TypeOK' /\ OneInHand'
  BY <1>2 DEF TypeOK, OneInHand
<1>8. Len(events') <= ImportantBound /\ Len(messages') <= RoutineBound
  BY DEF LanesInOrder, TypeOK
<1>9. LanesInOrder'
  BY <1>3, <1>5, <1>6, <1>8 DEF LanesInOrder, Fifo
<1> QED
  BY <1>7, <1>9

(* Every step of emit, of main and of the writer keeps the invariant.       *)
LEMMA InvStep ==
    ASSUME Inv, [Next]_vars PROVE Inv'
<1>1. ASSUME NEW line \in Lines, Emit(line) PROVE Inv'
  BY <1>1, SendStep DEF Emit
<1>2. ASSUME NEW line \in Important, MainFails(line) PROVE Inv'
  BY <1>2, SendStep DEF MainFails, Lines
<1>3. CASE MainSucceeds \/ StoreStop \/ FlushEnds \/ FlushTimesOut \/ UNCHANGED vars
  BY <1>3 DEF MainSucceeds, StoreStop, FlushEnds, FlushTimesOut, vars,
     Inv, TypeOK, OneInHand, LanesInOrder
<1>4. CASE CheckStop \/ SendDone
  BY <1>4 DEF CheckStop, SendDone, Inv, TypeOK, OneInHand, LanesInOrder
<1>5. CASE TakeEvent
  <2>1. CASE events # <<>>
    BY <1>5, <2>1, TakesEvent DEF TakeEvent
  <2>2. CASE events = <<>>
    BY <1>5, <2>2 DEF TakeEvent, Inv, TypeOK, OneInHand, LanesInOrder
  <2> QED
    BY <2>1, <2>2
<1>6. CASE TakeMessage
  <2>1. CASE messages # <<>>
    BY <1>6, <2>1, TakesMessage DEF TakeMessage
  <2>2. CASE messages = <<>>
    BY <1>6, <2>2 DEF TakeMessage, Inv, TypeOK, OneInHand, LanesInOrder
  <2> QED
    BY <2>1, <2>2
<1>7. CASE Receive
  <2>1. CASE messages # <<>>
    BY <1>7, <2>1, TakesMessage DEF Receive
  <2>2. CASE messages = <<>>
    BY <1>7, <2>2 DEF Receive, Inv, TypeOK, OneInHand, LanesInOrder
  <2> QED
    BY <2>1, <2>2
<1>8. CASE Write
  <2>1. written \o hand \in Seq(Lines) /\ (written \o hand) \o <<>> = written \o hand
    BY LineTypes, ConcatEmptySeq DEF Inv
  <2>2. /\ written' \o hand' = written \o hand /\ hand' = <<>> /\ wpc' = "events"
        /\ written' = written \o hand /\ UNCHANGED <<events, messages, accepted>>
    BY <1>8, <2>1 DEF Write
  <2>3. TypeOK' /\ OneInHand'
    BY <2>1, <2>2 DEF Inv, TypeOK, OneInHand
  <2>4. LanesInOrder'
    BY <2>2 DEF Inv, LanesInOrder
  <2> QED
    BY <2>3, <2>4 DEF Inv
<1> QED
  BY <1>1, <1>2, <1>3, <1>4, <1>5, <1>6, <1>7, <1>8 DEF Next, Poll, Exited

(* Each lane is a bounded FIFO from emit over channel and writer to stderr: *)
(* no accepted line is lost, doubled or overtaken within its lane, at any   *)
(* moment of the process and for any capacity of the two channels.          *)
THEOREM LanesAreInOrder == Spec => []LanesInOrder
<1>1. Init => Inv
  <2> SUFFICES ASSUME Init PROVE Inv
    OBVIOUS
  <2>1. TypeOK /\ OneInHand
    BY DEF Init, TypeOK, OneInHand
  <2>2. LanesInOrder
    BY LaneEmpty, LoggingAssumption DEF Init, LanesInOrder
  <2> QED
    BY <2>1, <2>2 DEF Inv
<1>2. Inv => LanesInOrder
  BY DEF Inv
<1> QED
  BY <1>1, <1>2, InvStep, PTL DEF Spec
-----------------------------------------------------------------------------
(* The warning limit, for every BURST and INTERVAL and with no use of the   *)
(* bounds on the clock and on the calls of warn.                            *)
(*                                                                          *)
(* SpanBound speaks of the warnings written, the code only knows the        *)
(* current window.  Link ties the two together: the last `emitted' of the   *)
(* warnings written are those of the current window.  With it               *)
(* WindowsDisjoint is inductive, and SpanBound follows from it by looking   *)
(* at most two windows ahead.                                               *)

Link ==
    /\ ~exists => emitted = 0 /\ suppressed = 0 /\ Len(stamps) = 0
    /\ exists => /\ started <= now /\ emitted >= 1 /\ emitted <= Len(stamps)
                 /\ \A i \in 1..Len(stamps) :
                      /\ i > Len(stamps) - emitted => windows[i] = started
                      /\ i <= Len(stamps) - emitted => windows[i] + Interval <= started

WindowInv == WindowTypeOK /\ Link /\ WindowsDisjoint /\ Accounted

(* The three things warn can do: begin a window, write in the current one,  *)
(* or suppress.                                                             *)
Begins ==
    /\ NewWindow /\ emitted' = 1 /\ suppressed' = 0 /\ started' = now
    /\ reported' = reported + suppressed
    /\ stamps' = Append(stamps, now) /\ windows' = Append(windows, now)
Writes ==
    /\ ~NewWindow /\ emitted < Burst /\ emitted' = emitted + 1 /\ started' = started
    /\ UNCHANGED <<suppressed, reported>>
    /\ stamps' = Append(stamps, now) /\ windows' = Append(windows, started)
Suppresses ==
    /\ ~NewWindow /\ emitted = Burst /\ suppressed' = suppressed + 1
    /\ UNCHANGED <<emitted, started, stamps, windows, reported>>

(* warn does one of the three, and counts the call. *)
LEMMA WarnCases ==
    ASSUME WindowTypeOK, Warn
    PROVE  /\ Begins \/ Writes \/ Suppresses
           /\ now' = now /\ exists' = TRUE /\ warned' = warned + 1
BY WindowAssumption DEF WindowTypeOK, Warn, Emits, ReportedOf, Begins, Writes, Suppresses

(* Appending to the history adds one entry and keeps the others. *)
LEMMA Appended ==
    ASSUME NEW s \in Seq(Nat), NEW x \in Nat, NEW t, t = Append(s, x)
    PROVE  /\ t \in Seq(Nat) /\ Len(t) = Len(s) + 1 /\ t[Len(s) + 1] = x
           /\ \A i \in 1..Len(s) : t[i] = s[i]
OBVIOUS

(* Every variable keeps its type. *)
LEMMA WindowTypeStep == WindowTypeOK /\ [WindowNext]_windowVars => WindowTypeOK'
<1> SUFFICES ASSUME WindowTypeOK, [WindowNext]_windowVars PROVE WindowTypeOK'
  OBVIOUS
<1> USE WindowAssumption
<1>1. CASE Warn
  <2>1. stamps' \in Seq(Nat) /\ windows' \in Seq(Nat)
    <3>1. CASE Begins
      BY <3>1, Appended DEF WindowTypeOK, Begins
    <3>2. CASE Writes
      BY <3>2, Appended DEF WindowTypeOK, Writes
    <3>3. CASE Suppresses
      BY <3>3 DEF WindowTypeOK, Suppresses
    <3> QED
      BY <1>1, <3>1, <3>2, <3>3, WarnCases
  <2>2. emitted' \in 0..Burst /\ suppressed' \in Nat /\ started' \in Nat /\ reported' \in Nat
    BY <1>1, WarnCases DEF WindowTypeOK, Begins, Writes, Suppresses
  <2> QED
    BY <1>1, <2>1, <2>2, WarnCases DEF WindowTypeOK
<1>2. CASE Tick
  BY <1>2 DEF Tick, WindowTypeOK
<1>3. CASE UNCHANGED windowVars
  BY <1>3 DEF windowVars, WindowTypeOK
<1> QED
  BY <1>1, <1>2, <1>3 DEF WindowNext, Rest

(* No call of warn is lost from the books. *)
LEMMA AccountedStep == WindowTypeOK /\ Accounted /\ [WindowNext]_windowVars => Accounted'
<1> SUFFICES ASSUME WindowTypeOK, Accounted, [WindowNext]_windowVars PROVE Accounted'
  OBVIOUS
<1> USE DEF Accounted
<1>1. CASE Warn
  <2>1. warned' = warned + 1 /\ (Begins \/ Writes \/ Suppresses)
    BY <1>1, WarnCases
  <2>2. CASE Begins \/ Writes
    <3>1. Len(stamps') = Len(stamps) + 1
      BY <2>2 DEF WindowTypeOK, Begins, Writes
    <3> QED
      BY <2>1, <2>2, <3>1 DEF WindowTypeOK, Begins, Writes
  <2>3. CASE Suppresses
    BY <2>1, <2>3 DEF WindowTypeOK, Suppresses
  <2> QED
    BY <2>1, <2>2, <2>3
<1>2. CASE Tick
  BY <1>2 DEF Tick
<1>3. CASE UNCHANGED windowVars
  BY <1>3 DEF windowVars
<1> QED
  BY <1>1, <1>2, <1>3 DEF WindowNext, Rest

(* The current window keeps to the end of the history. *)
LEMMA LinkStep == WindowTypeOK /\ Link /\ WindowsDisjoint /\ [WindowNext]_windowVars => Link'
<1> SUFFICES ASSUME WindowTypeOK, Link, WindowsDisjoint, [WindowNext]_windowVars PROVE Link'
  OBVIOUS
<1> USE WindowAssumption
<1> /\ Len(windows) = Len(stamps) /\ Len(stamps) \in Nat
    /\ \A i \in 1..Len(stamps) : windows[i] \in Nat
  BY DEF WindowsDisjoint, WindowTypeOK
<1>1. CASE Warn /\ Begins
  <2>1. exists' = TRUE /\ now' = now /\ started' = now /\ emitted' = 1
    BY <1>1, WarnCases DEF Begins
  <2>2. /\ Len(stamps') = Len(stamps) + 1 /\ windows'[Len(stamps) + 1] = now
        /\ \A i \in 1..Len(stamps) : windows'[i] = windows[i]
    BY <1>1, Appended DEF Begins, WindowTypeOK
  <2>3. \A i \in 1..Len(stamps) : windows[i] + Interval <= now
    <3>1. CASE ~exists
      BY <3>1 DEF Link, WindowTypeOK
    <3>2. CASE exists
      <4>1. now - started >= Interval
        BY <1>1, <3>2 DEF Begins, NewWindow
      <4>2. \A i \in 1..Len(stamps) : windows[i] = started \/ windows[i] + Interval <= started
        BY <3>2 DEF Link, WindowTypeOK
      <4>3. now \in Nat /\ started \in Nat
        BY DEF WindowTypeOK
      <4> QED
        BY <4>1, <4>2, <4>3
    <3> QED
      BY <3>1, <3>2
  <2>4. \A i \in 1..(Len(stamps) + 1) : i = Len(stamps) + 1 \/ i \in 1..Len(stamps)
    OBVIOUS
  <2>5. now \in Nat
    BY DEF WindowTypeOK
  <2> QED
    BY <2>1, <2>2, <2>3, <2>4, <2>5 DEF Link
<1>2. CASE Warn /\ Writes
  <2>1. exists /\ exists' = TRUE /\ now' = now /\ started' = started /\ emitted' = emitted + 1
    BY <1>2, WarnCases DEF Writes, NewWindow
  <2>2. /\ Len(stamps') = Len(stamps) + 1 /\ windows'[Len(stamps) + 1] = started
        /\ \A i \in 1..Len(stamps) : windows'[i] = windows[i]
    BY <1>2, Appended DEF Writes, WindowTypeOK
  <2>3. emitted \in Nat /\ now \in Nat /\ started \in Nat
    BY DEF WindowTypeOK
  <2>4. /\ started <= now /\ emitted >= 1 /\ emitted <= Len(stamps)
        /\ \A i \in 1..Len(stamps) :
             /\ i > Len(stamps) - emitted => windows[i] = started
             /\ i <= Len(stamps) - emitted => windows[i] + Interval <= started
    BY <2>1 DEF Link
  <2>5. \A i \in 1..(Len(stamps) + 1) : i = Len(stamps) + 1 \/ i \in 1..Len(stamps)
    OBVIOUS
  <2> QED
    BY <2>1, <2>2, <2>3, <2>4, <2>5 DEF Link
<1>3. CASE Warn /\ Suppresses
  <2>1. exists /\ exists' = TRUE /\ now' = now
    BY <1>3, WarnCases DEF Suppresses, NewWindow
  <2> QED
    BY <1>3, <2>1 DEF Suppresses, Link
<1>4. CASE Tick
  BY <1>4 DEF Tick, Link, WindowTypeOK
<1>5. CASE UNCHANGED windowVars
  BY <1>5 DEF windowVars, Link
<1> QED
  BY <1>1, <1>2, <1>3, <1>4, <1>5, WarnCases DEF WindowNext, Rest

(* Windows stay apart: a new one begins only when the current one, and with *)
(* it every earlier one, is INTERVAL old.                                   *)
LEMMA WindowsStep == WindowTypeOK /\ Link /\ WindowsDisjoint /\ [WindowNext]_windowVars => WindowsDisjoint'
<1> SUFFICES ASSUME WindowTypeOK, Link, WindowsDisjoint, [WindowNext]_windowVars PROVE WindowsDisjoint'
  OBVIOUS
<1> USE WindowAssumption
<1> DEFINE n == Len(stamps)
<1> /\ Len(windows) = n /\ n \in Nat /\ now \in Nat /\ started \in Nat /\ emitted \in 0..Burst
    /\ \A i \in 1..n : windows[i] \in Nat /\ stamps[i] \in Nat
  BY DEF WindowsDisjoint, WindowTypeOK
<1>1. ASSUME NEW start \in Nat, now' = now,
             stamps' = Append(stamps, now), windows' = Append(windows, start),
             start <= now, now < start + Interval,
             n = 0 \/ windows[n] # start => start = now,
             n + 1 > Burst => windows[n + 1 - Burst] # start,
             \A i \in 1..n : windows[i] = start \/ windows[i] + Interval <= start
      PROVE  WindowsDisjoint'
  <2>1. /\ Len(stamps') = n + 1 /\ stamps'[n + 1] = now
        /\ \A i \in 1..n : stamps'[i] = stamps[i]
    BY <1>1, Appended DEF WindowTypeOK
  <2>2. /\ Len(windows') = n + 1 /\ windows'[n + 1] = start
        /\ \A i \in 1..n : windows'[i] = windows[i]
    BY <1>1, Appended DEF WindowTypeOK
  <2> HIDE DEF n
  <2>3. \A i \in 1..(n + 1) : i = n + 1 \/ i \in 1..n
    OBVIOUS
  <2>4. ASSUME NEW i \in 1..(n + 1)
        PROVE  /\ windows'[i] <= stamps'[i] /\ stamps'[i] < windows'[i] + Interval
               /\ stamps'[i] <= now'
               /\ i = 1 \/ windows'[i - 1] # windows'[i] => stamps'[i] = windows'[i]
               /\ i + Burst <= n + 1 => windows'[i] # windows'[i + Burst]
    <3>1. CASE i = n + 1
      BY <1>1, <2>1, <2>2, <3>1
    <3>2. CASE i \in 1..n
      <4>1. /\ windows[i] <= stamps[i] /\ stamps[i] < windows[i] + Interval
            /\ stamps[i] <= now
            /\ i = 1 \/ windows[i - 1] # windows[i] => stamps[i] = windows[i]
            /\ i + Burst <= n => windows[i] # windows[i + Burst]
        BY <3>2 DEF WindowsDisjoint, n
      <4>2. i = 1 \/ i - 1 \in 1..n
        BY <3>2
      <4>3. i + Burst <= n + 1 => i + Burst \in 1..n \/ (i + Burst = n + 1 /\ i = n + 1 - Burst)
        BY <3>2
      <4>4. windows'[i] = windows[i] /\ stamps'[i] = stamps[i]
        BY <2>1, <2>2, <3>2
      <4>5. i = 1 \/ windows'[i - 1] # windows'[i] => stamps'[i] = windows'[i]
        BY <2>2, <4>1, <4>2, <4>4
      <4>6. i + Burst <= n + 1 => windows'[i] # windows'[i + Burst]
        <5>1. CASE i + Burst \in 1..n
          BY <5>1, <2>2, <4>1, <4>4
        <5>2. CASE i + Burst = n + 1
          <6>1. n + 1 > Burst /\ i = n + 1 - Burst
            BY <5>2
          <6>2. windows[i] # start
            BY <1>1, <6>1
          <6> QED
            BY <5>2, <6>2, <2>2, <4>4
        <5> QED
          BY <4>3, <5>1, <5>2
      <4> QED
        BY <1>1, <4>1, <4>4, <4>5, <4>6
    <3> QED
      BY <2>3, <3>1, <3>2
  <2>5. ASSUME NEW i \in 1..(n + 1), NEW j \in 1..(n + 1), i < j
        PROVE  windows'[i] = windows'[j] \/ windows'[i] + Interval <= windows'[j]
    <3>1. i \in 1..n
      BY <2>5
    <3>2. CASE j = n + 1
      BY <1>1, <2>2, <3>1, <3>2
    <3>3. CASE j \in 1..n
      BY <2>2, <2>5, <3>1, <3>3 DEF WindowsDisjoint, n
    <3> QED
      BY <2>3, <3>2, <3>3
  <2> QED
    BY <2>1, <2>2, <2>4, <2>5 DEF WindowsDisjoint
<1>2. CASE Warn /\ Begins
  <2>1. \A i \in 1..n : windows[i] + Interval <= now
    <3>1. CASE ~exists
      BY <3>1 DEF Link
    <3>2. CASE exists
      <4>1. now - started >= Interval
        BY <1>2, <3>2 DEF Begins, NewWindow
      <4>2. \A i \in 1..n : windows[i] = started \/ windows[i] + Interval <= started
        BY <3>2 DEF Link
      <4> QED
        BY <4>1, <4>2
    <3> QED
      BY <3>1, <3>2
  <2>2. now' = now /\ stamps' = Append(stamps, now) /\ windows' = Append(windows, now)
    BY <1>2, WarnCases DEF Begins
  <2>3. n + 1 > Burst => windows[n + 1 - Burst] # now
    BY <2>1
  <2>4. /\ now <= now /\ now < now + Interval
        /\ n = 0 \/ windows[n] # now => now = now
        /\ \A i \in 1..n : windows[i] = now \/ windows[i] + Interval <= now
    BY <2>1
  <2> HIDE DEF n
  <2> QED
    BY <2>2, <2>3, <2>4, <1>1
<1>3. CASE Warn /\ Writes
  <2>1. exists /\ now' = now /\ emitted < Burst /\ now - started < Interval
    BY <1>3, WarnCases DEF Writes, NewWindow
  <2>2. /\ started <= now /\ emitted >= 1 /\ emitted <= n
        /\ \A i \in 1..n :
             /\ i > n - emitted => windows[i] = started
             /\ i <= n - emitted => windows[i] + Interval <= started
    BY <2>1 DEF Link
  <2>3. stamps' = Append(stamps, now) /\ windows' = Append(windows, started)
    BY <1>3 DEF Writes
  <2> HIDE DEF n
  <2>4. n # 0 /\ windows[n] = started
    BY <2>2
  <2>5. n + 1 > Burst => windows[n + 1 - Burst] # started
    <3> SUFFICES ASSUME n + 1 > Burst PROVE windows[n + 1 - Burst] # started
      OBVIOUS
    <3>1. n + 1 - Burst \in 1..n /\ n + 1 - Burst <= n - emitted
      BY <2>1, <2>2
    <3> QED
      BY <2>2, <3>1
  <2>6. \A i \in 1..n : windows[i] = started \/ windows[i] + Interval <= started
    BY <2>2
  <2>7. now < started + Interval
    BY <2>1
  <2> QED
    BY <2>1, <2>2, <2>3, <2>4, <2>5, <2>6, <2>7, <1>1
<1>4. CASE Warn /\ Suppresses
  <2>1. now' = now /\ UNCHANGED <<stamps, windows>>
    BY <1>4, WarnCases DEF Suppresses
  <2> QED
    BY <2>1 DEF WindowsDisjoint
<1>5. CASE Tick
  BY <1>5 DEF Tick, WindowsDisjoint
<1>6. CASE UNCHANGED windowVars
  BY <1>6 DEF windowVars, WindowsDisjoint
<1> QED
  BY <1>2, <1>3, <1>4, <1>5, <1>6, WarnCases DEF WindowNext, Rest

(* The bound on what is written follows from the layout of the windows: a   *)
(* warning is the first of its window or shares it with its predecessor,    *)
(* and 2 * BURST - 1 places further the next or the next but one has begun. *)
LEMMA DisjointBoundsSpan == WindowTypeOK /\ WindowsDisjoint => SpanBound
<1> USE WindowAssumption
<1> DEFINE B == Burst
           n == Len(stamps)
<1> SUFFICES ASSUME WindowTypeOK, WindowsDisjoint,
                    NEW i \in 1..n, i + 2 * B - 1 <= n
             PROVE  stamps[i + 2 * B - 1] - stamps[i] >= Interval
  BY DEF SpanBound
<1>1. /\ n \in Nat /\ Len(windows) = n
      /\ \A k \in 1..n : windows[k] \in Nat /\ stamps[k] \in Nat
  <2>1. Len(windows) = n
    BY DEF WindowsDisjoint
  <2> QED
    BY <2>1 DEF WindowTypeOK
<1>2. \A k \in 1..n :
        /\ windows[k] <= stamps[k] /\ stamps[k] < windows[k] + Interval
        /\ k = 1 \/ windows[k - 1] # windows[k] => stamps[k] = windows[k]
        /\ k + B <= n => windows[k] # windows[k + B]
  BY DEF WindowsDisjoint
<1>3. \A k, l \in 1..n : k < l => windows[k] = windows[l] \/ windows[k] + Interval <= windows[l]
  BY DEF WindowsDisjoint
<1> HIDE DEF n
<1> DEFINE e == i + 2 * B - 1
<1>4. e \in 1..n /\ e >= i + B /\ i + B \in 1..n /\ i + B - 1 \in 1..n
  BY <1>1
<1>5. /\ windows[e] <= stamps[e] /\ stamps[i] < windows[i] + Interval
      /\ \A k \in {i, i + B - 1, i + B, e} : windows[k] \in Nat /\ stamps[k] \in Nat
  BY <1>1, <1>2, <1>4
<1>6. CASE i = 1 \/ windows[i - 1] # windows[i]
  <2>1. stamps[i] = windows[i]
    BY <1>2, <1>6
  <2>2. windows[i] + Interval <= windows[i + B]
    BY <1>1, <1>2, <1>3, <1>4
  <2>3. windows[i + B] <= windows[e]
    <3>1. CASE e = i + B
      BY <3>1, <1>1, <1>4
    <3>2. CASE e > i + B
      BY <3>2, <1>1, <1>3, <1>4
    <3> QED
      BY <3>1, <3>2, <1>4, <1>1
  <2> QED
    BY <2>1, <2>2, <2>3, <1>5
<1>7. CASE i # 1 /\ windows[i - 1] = windows[i]
  <2>1. i - 1 \in 1..n /\ (i - 1) + B = i + B - 1
    BY <1>7, <1>1
  <2>2. windows[i] # windows[i + B - 1]
    BY <2>1, <1>2, <1>4, <1>7
  <2>3. windows[i] + Interval <= windows[i + B - 1]
    <3>1. i < i + B - 1
      BY <2>2, <1>1
    <3> QED
      BY <3>1, <2>2, <1>3, <1>4
  <2>4. windows[i + B - 1] + Interval <= windows[e]
    <3>1. (i + B - 1) + B = e /\ i + B - 1 < e
      BY <1>1
    <3>2. windows[i + B - 1] # windows[e]
      BY <3>1, <1>2, <1>4
    <3> QED
      BY <3>1, <3>2, <1>3, <1>4
  <2> QED
    BY <2>3, <2>4, <1>5
<1> QED
  BY <1>6, <1>7

-----------------------------------------------------------------------------
(* The strengthened invariant is inductive. *)
THEOREM WindowInvariant == WindowSpec => []WindowInv
<1>1. WindowInit => WindowInv
  <2> SUFFICES ASSUME WindowInit PROVE WindowInv
    OBVIOUS
  <2>1. Len(stamps) = 0 /\ Len(windows) = 0 /\ 1..Len(stamps) = {}
    BY DEF WindowInit
  <2>2. <<>> \in Seq(Nat) /\ 0 \in 0..Burst
    BY WindowAssumption
  <2>3. WindowTypeOK
    BY <2>2 DEF WindowInit, WindowTypeOK
  <2> QED
    BY <2>1, <2>3 DEF WindowInit, WindowInv, Link, WindowsDisjoint, Accounted
<1>2. WindowInv /\ [WindowNext]_windowVars => WindowInv'
  BY WindowTypeStep, AccountedStep, LinkStep, WindowsStep DEF WindowInv
<1> QED
  BY <1>1, <1>2, PTL DEF WindowSpec

(* Every warning is written, announced as suppressed, or counted for the    *)
(* next announcement (warn in logging.rs).                                  *)
THEOREM NothingSilentlyLost == WindowSpec => []Accounted
<1> QED
  BY WindowInvariant, PTL DEF WindowInv

(* Windows never overlap and none holds more than BURST warnings.           *)
THEOREM WindowsApart == WindowSpec => []WindowsDisjoint
<1> QED
  BY WindowInvariant, PTL DEF WindowInv

(* Fewer than 2 * BURST warnings are written in any span shorter than       *)
(* INTERVAL, whatever the calls of warn and however the clock advances.     *)
THEOREM BurstLimit == WindowSpec => []SpanBound
<1> QED
  BY WindowInvariant, DisjointBoundsSpan, PTL DEF WindowInv
=============================================================================
