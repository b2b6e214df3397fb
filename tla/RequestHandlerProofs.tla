------------------------ MODULE RequestHandlerProofs ------------------------
(***************************************************************************)
(* Proofs about the request handler, for all messages, options, lengths    *)
(* and limits.                                                             *)
(*                                                                         *)
(* The properties are about replies that leave; what they rest on is read  *)
(* or decided several steps before: the name of the question is within the *)
(* limits of decode, which ends on every message; a fault ends the parsing *)
(* at once, so that whoever is past it has an intact query; the response   *)
(* is one to this query.  The invariant says so at every step, and each    *)
(* way of making a reply is shown to make a sound one.                     *)
(*                                                                         *)
(* That decode finds the names a message spells is shown by following its  *)
(* loop along the walk that defines them: while it goes on, the loop has   *)
(* what the walk has passed (Tracks), and where it ends early the walk has *)
(* no legal end.  A walk that ends passes no offset twice, hence is no     *)
(* longer than the message; one that comes back to an offset never ends.   *)
(***************************************************************************)
EXTENDS RequestHandler, SequenceFacts, FiniteSetTheorems

-----------------------------------------------------------------------------
(* Loops that are written as recursive functions *)

(* A loop over the states S with the step T, which ends in the states Over, *)
(* is a recursive function, whether or not it ends everywhere.              *)
LEMMA LoopExists ==
    ASSUME NEW S, NEW T \in [S -> S], NEW Over \in SUBSET S
    PROVE  \E f : f = [s \in S |-> IF s \in Over THEN s ELSE f[T[s]]]
<1> DEFINE Run(s, n, g) == /\ g \in [0..n -> S] /\ g[0] = s /\ g[n] \in Over
                           /\ \A i \in 0..(n - 1) : g[i] \notin Over /\ g[i + 1] = T[g[i]]
           Ends(s) == {v \in Over : \E n \in Nat : \E g \in [0..n -> S] : Run(s, n, g) /\ g[n] = v}
           F == [s \in S |-> CHOOSE v : v \in Ends(s)]
<1>1. ASSUME NEW s \in Over
      PROVE  Ends(s) = {s}
  <2>1. s \in Ends(s)
    <3> DEFINE g == [i \in 0..0 |-> s]
    <3>1. g \in [0..0 -> S] /\ g[0] = s
      OBVIOUS
    <3>2. Run(s, 0, g)
      BY <3>1
    <3> HIDE DEF g
    <3> QED
      BY <3>1, <3>2
  <2>2. ASSUME NEW v \in Ends(s)
        PROVE  v = s
    <3>1. PICK n \in Nat : \E g \in [0..n -> S] : Run(s, n, g) /\ g[n] = v
      BY <2>2
    <3>2. PICK g \in [0..n -> S] : Run(s, n, g) /\ g[n] = v
      BY <3>1
    <3>3. n = 0
      BY <3>2
    <3> QED
      BY <3>2, <3>3
  <2> QED
    BY <2>1, <2>2
<1>2. ASSUME NEW s \in S, s \notin Over
      PROVE  Ends(s) = Ends(T[s])
  <2>1. T[s] \in S
    OBVIOUS
  <2>2. ASSUME NEW v \in Ends(s)
        PROVE  v \in Ends(T[s])
    <3>1. PICK n \in Nat : \E g \in [0..n -> S] : Run(s, n, g) /\ g[n] = v
      BY <2>2
    <3>2. PICK g \in [0..n -> S] : Run(s, n, g) /\ g[n] = v
      BY <3>1
    <3>3. n - 1 \in Nat
      BY <1>2, <3>2
    <3> DEFINE h == [i \in 0..(n - 1) |-> g[i + 1]]
    <3>4. h \in [0..(n - 1) -> S] /\ \A i \in 0..(n - 1) : h[i] = g[i + 1]
      BY <3>3
    <3> HIDE DEF h
    <3>5. h[0] = T[s] /\ h[n - 1] = g[n]
      BY <3>2, <3>3, <3>4
    <3>6. \A i \in 0..((n - 1) - 1) : h[i] \notin Over /\ h[i + 1] = T[h[i]]
      BY <3>2, <3>3, <3>4
    <3>7. Run(T[s], n - 1, h) /\ h[n - 1] = v
      BY <3>2, <3>4, <3>5, <3>6
    <3> QED
      BY <3>2, <3>3, <3>4, <3>7
  <2>3. ASSUME NEW v \in Ends(T[s])
        PROVE  v \in Ends(s)
    <3>1. PICK n \in Nat : \E g \in [0..n -> S] : Run(T[s], n, g) /\ g[n] = v
      BY <2>3
    <3>2. PICK g \in [0..n -> S] : Run(T[s], n, g) /\ g[n] = v
      BY <3>1
    <3> DEFINE h == [i \in 0..(n + 1) |-> IF i = 0 THEN s ELSE g[i - 1]]
    <3>3. h \in [0..(n + 1) -> S] /\ h[0] = s /\ \A i \in 0..n : h[i + 1] = g[i]
      OBVIOUS
    <3> HIDE DEF h
    <3>4. h[n + 1] = g[n]
      BY <3>3
    <3>5. \A i \in 0..((n + 1) - 1) : h[i] \notin Over /\ h[i + 1] = T[h[i]]
      <4> TAKE i \in 0..((n + 1) - 1)
      <4>1. CASE i = 0
        BY <1>2, <3>2, <3>3, <4>1
      <4>2. CASE i # 0
        <5>1. i - 1 \in 0..(n - 1) /\ i - 1 \in 0..n /\ i \in 0..n /\ (i - 1) + 1 = i
          BY <4>2
        <5>2. h[i] = g[i - 1] /\ h[i + 1] = g[i]
          BY <3>3, <5>1
        <5> QED
          BY <3>2, <5>1, <5>2
      <4> QED
        BY <4>1, <4>2
    <3>6. Run(s, n + 1, h) /\ h[n + 1] = v /\ n + 1 \in Nat
      BY <3>2, <3>3, <3>4, <3>5
    <3> QED
      BY <3>2, <3>3, <3>6
  <2> QED
    BY <2>2, <2>3
<1> HIDE DEF Ends
<1>3. \A s \in S : F[s] = IF s \in Over THEN s ELSE F[T[s]]
  <2> TAKE s \in S
  <2>1. CASE s \in Over
    BY <1>1, <2>1
  <2>2. CASE s \notin Over
    <3>1. T[s] \in S
      OBVIOUS
    <3> QED
      BY <1>2, <2>2, <3>1
  <2> QED
    BY <2>1, <2>2
<1>4. F = [s \in S |-> F[s]]
  OBVIOUS
<1> HIDE DEF F
<1>5. F = [s \in S |-> IF s \in Over THEN s ELSE F[T[s]]]
  BY <1>3, <1>4
<1> QED
  BY <1>5
-----------------------------------------------------------------------------
(* DomainName::decode *)

(* The states from which the loop of decode goes on: within its limits. *)
Decoding == {s \in DecodeState : /\ s.error = Running
                                 /\ s.expanded \in 1..MaxNameLength
                                 /\ Len(s.visited) <= MaxPointers}

(* What the loop has left: every label makes the name longer, every pointer *)
(* is counted.                                                              *)
Measure(s) == (MaxNameLength - s.expanded) + (MaxPointers - Len(s.visited))

(* Where the loop ends. *)
Decoded == {s \in DecodeState : /\ s.error # Running
                                /\ s.expanded \in 1..MaxNameLength
                                /\ Len(s.visited) <= MaxPointers}

(* The octets of a message. *)
LEMMA Octets ==
    ASSUME NEW octets \in Wires, NEW p \in Nat, Has(octets, p)
    PROVE  At(octets, p) \in 0..(4 * TagBase - 1) /\ At(octets, p) \in Nat
<1>1. octets \in Seq(0..(4 * TagBase - 1)) /\ TagBase \in Nat
  BY DecodeAssumption
<1>2. p + 1 \in 1..Len(octets)
  BY <1>1 DEF Has
<1>3. At(octets, p) \in 0..(4 * TagBase - 1)
  BY <1>1, <1>2 DEF At
<1> QED
  BY <1>1, <1>3

(* A step keeps the types of the loop's variables. *)
LEMMA StepTypes ==
    ASSUME NEW octets \in Wires, NEW s \in DecodeState
    PROVE  Step(octets, s) \in DecodeState
<1> USE DecodeAssumption
<1>1. s.position \in Nat /\ s.cursor \in Nat /\ s.expanded \in Nat /\ s.labels \in Seq(Seq(Nat))
         /\ s.visited \in Seq(Nat)
  BY DEF DecodeState
<1>2. \A e \in {"UnexpectedEnd", "InvalidLabel", "NameTooLong", "CompressionLoop",
                "InvalidPointer", "CompressionDepth"} : Failed(s, e) \in DecodeState
  BY DEF Failed, DecodeState
<1>3. Root(s) \in DecodeState
  <2> DEFINE c == IF s.visited = <<>> THEN s.position + 1 ELSE s.cursor
  <2>1. c \in Nat
    BY <1>1
  <2>2. Root(s) = [s EXCEPT !.error = "none", !.cursor = c]
    BY DEF Root
  <2> HIDE DEF c
  <2> QED
    BY <2>1, <2>2 DEF DecodeState
<1>4. ASSUME Has(octets, s.position)
      PROVE  Pointer(octets, s) \in DecodeState
  <2>1. ASSUME Has(octets, s.position + 1)
        PROVE  Target(octets, s.position) \in Nat
    <3>1. At(octets, s.position) \in Nat /\ At(octets, s.position + 1) \in Nat
      BY <1>1, <1>4, <2>1, Octets
    <3>2. At(octets, s.position) % TagBase \in Nat
      BY <3>1
    <3> QED
      BY <3>1, <3>2 DEF Target
  <2>2. ASSUME Target(octets, s.position) \in Nat
        PROVE  Follow(octets, s) \in DecodeState
    <3>1. Append(s.visited, Target(octets, s.position)) \in Seq(Nat)
      BY <1>1, <2>2
    <3> DEFINE t == Target(octets, s.position)
               v == Append(s.visited, t)
               c == IF s.visited = <<>> THEN s.position + 2 ELSE s.cursor
    <3>2. c \in Nat
      BY <1>1
    <3>3. Follow(octets, s) = [s EXCEPT !.position = t, !.visited = v, !.cursor = c]
      BY DEF Follow
    <3> HIDE DEF t, v, c
    <3>4. t \in Nat /\ v \in Seq(Nat)
      BY <2>2, <3>1 DEF t, v
    <3> QED
      BY <3>2, <3>3, <3>4 DEF DecodeState
  <2> QED
    BY <1>2, <2>1, <2>2 DEF Pointer
<1>5. ASSUME Has(octets, s.position)
      PROVE  Label(octets, s) \in DecodeState
  <2>1. At(octets, s.position) \in Nat
    BY <1>1, <1>5, Octets
  <2> DEFINE end == s.position + At(octets, s.position)
             expanded == s.expanded + At(octets, s.position) + 1
  <2>2. end \in Nat /\ expanded \in Nat
    BY <1>1, <2>1
  <2> HIDE DEF end, expanded
  <2>3. Has(octets, end) => Append(s.labels, SubSeq(octets, s.position + 2, end + 1)) \in Seq(Seq(Nat))
    <3>1. octets \in Seq(Nat)
      OBVIOUS
    <3>2. Has(octets, end) => SubSeq(octets, s.position + 2, end + 1) \in Seq(Nat)
      <4>1. ASSUME Has(octets, end)
            PROVE  \A i \in (s.position + 2)..(end + 1) : octets[i] \in Nat
        <5>1. \A i \in 1..Len(octets) : octets[i] \in Nat
          BY <3>1
        <5>2. end + 1 <= Len(octets) /\ Len(octets) \in Nat
          BY <2>2, <3>1, <4>1 DEF Has
        <5>3. \A i \in (s.position + 2)..(end + 1) : i \in 1..Len(octets)
          BY <1>1, <2>2, <5>2
        <5> QED
          BY <5>1, <5>3
      <4> QED
        BY <1>1, <2>2, <3>1, <4>1, SubSeqProperties
    <3> QED
      BY <1>1, <3>2
  <2> DEFINE l == Append(s.labels, SubSeq(octets, s.position + 2, end + 1))
             next == end + 1
  <2>4. next \in Nat
    BY <2>2
  <2> HIDE DEF l, next
  <2>5. Has(octets, end) =>
          [s EXCEPT !.expanded = expanded, !.position = next, !.labels = l] \in DecodeState
    BY <2>2, <2>3, <2>4 DEF DecodeState, l
  <2> QED
    BY <1>2, <2>5 DEF Label, end, expanded, l, next
<1> QED
  BY <1>2, <1>3, <1>4, <1>5 DEF Step

(* A step ends the loop, or leaves less to do, and stays within the limits. *)
LEMMA StepDecreases ==
    ASSUME NEW octets \in Wires, NEW s \in Decoding
    PROVE  \/ Step(octets, s) \in Decoded
           \/ Step(octets, s) \in Decoding /\ Measure(Step(octets, s)) < Measure(s)
<1> USE DecodeAssumption
<1>1. s \in DecodeState /\ s.error = Running /\ s.expanded \in 1..MaxNameLength
         /\ Len(s.visited) <= MaxPointers
  BY DEF Decoding
<1>2. Step(octets, s) \in DecodeState
  BY <1>1, StepTypes
<1>3. s.position \in Nat /\ s.visited \in Seq(Nat) /\ Len(s.visited) \in Nat
  BY <1>1 DEF DecodeState
<1>4. ASSUME NEW e \in {"none", "UnexpectedEnd", "CompressionLoop", "InvalidPointer",
                        "CompressionDepth", "NameTooLong", "InvalidLabel"},
             NEW t \in DecodeState, t.error = e, t.expanded = s.expanded, t.visited = s.visited
      PROVE  t \in Decoded
  BY <1>1, <1>4 DEF Decoded, Running
<1>5. ASSUME NEW e \in {"UnexpectedEnd", "CompressionLoop", "InvalidPointer",
                        "CompressionDepth", "NameTooLong", "InvalidLabel"},
             Step(octets, s) = Failed(s, e)
      PROVE  Step(octets, s) \in Decoded
  <2>1. Failed(s, e).error = e /\ Failed(s, e).expanded = s.expanded
           /\ Failed(s, e).visited = s.visited
    BY <1>1 DEF Failed, DecodeState
  <2> QED
    BY <1>2, <1>4, <1>5, <2>1
<1>6. ASSUME Step(octets, s) = Root(s)
      PROVE  Step(octets, s) \in Decoded
  <2>1. Root(s).error = "none" /\ Root(s).expanded = s.expanded /\ Root(s).visited = s.visited
    BY <1>1 DEF Root, DecodeState
  <2> QED
    BY <1>2, <1>4, <1>6, <2>1
<1>7. ASSUME Step(octets, s) = Follow(octets, s), Len(s.visited) # MaxPointers
      PROVE  Step(octets, s) \in Decoding /\ Measure(Step(octets, s)) < Measure(s)
  <2> DEFINE t == Step(octets, s)
  <2>1. t.error = Running /\ t.expanded = s.expanded
           /\ t.visited = Append(s.visited, Target(octets, s.position))
    BY <1>1, <1>7 DEF Follow, DecodeState
  <2>2. Len(t.visited) = Len(s.visited) + 1
    <3>1. \A x : Len(Append(s.visited, x)) = Len(s.visited) + 1
      BY <1>3
    <3> QED
      BY <2>1, <3>1
  <2> HIDE DEF t
  <2>3. t \in Decoding
    BY <1>1, <1>2, <1>3, <1>7, <2>1, <2>2 DEF Decoding, t
  <2>4. Measure(t) < Measure(s)
    BY <1>1, <1>3, <2>1, <2>2 DEF Measure
  <2> QED
    BY <2>3, <2>4 DEF t
<1>8. ASSUME Has(octets, s.position), At(octets, s.position) \in 1..(TagBase - 1),
             Step(octets, s) = Label(octets, s)
      PROVE  \/ Step(octets, s) \in Decoded
             \/ Step(octets, s) \in Decoding /\ Measure(Step(octets, s)) < Measure(s)
  <2> DEFINE n == At(octets, s.position)
             t == Step(octets, s)
  <2>1. n \in Nat /\ n > 0
    BY <1>3, <1>8, Octets
  <2>2. CASE s.expanded + n + 1 > MaxNameLength
    BY <1>5, <1>8, <2>2 DEF Label
  <2>3. CASE ~Has(octets, s.position + n)
    BY <1>5, <1>8, <2>2, <2>3 DEF Label
  <2>4. CASE ~(s.expanded + n + 1 > MaxNameLength) /\ Has(octets, s.position + n)
    <3>1. t.error = Running /\ t.expanded = s.expanded + n + 1 /\ t.visited = s.visited
      BY <1>1, <1>8, <2>4 DEF Label, DecodeState
    <3> HIDE DEF t, n
    <3>2. t \in Decoding
      BY <1>1, <1>2, <2>1, <2>4, <3>1 DEF Decoding, t
    <3>3. Measure(t) < Measure(s)
      <4>1. Measure(t) = (MaxNameLength - (s.expanded + n + 1)) + (MaxPointers - Len(s.visited))
        BY <3>1 DEF Measure
      <4>2. \A m, p, e, v, k \in Nat : k > 0 => (m - (e + k + 1)) + (p - v) < (m - e) + (p - v)
        OBVIOUS
      <4>3. s.expanded \in Nat
        BY <1>1
      <4> QED
        BY <1>3, <2>1, <4>1, <4>2, <4>3 DEF Measure
    <3> QED
      BY <3>2, <3>3 DEF t
  <2> QED
    BY <2>2, <2>3, <2>4
<1>9. CASE ~Has(octets, s.position)
  BY <1>5, <1>9 DEF Step
<1>10. CASE Has(octets, s.position)
  <2>1. CASE IsPointer(octets, s.position)
    <3>1. At(octets, s.position) \notin 0..(TagBase - 1)
      <4>1. At(octets, s.position) \in Nat /\ At(octets, s.position) \div TagBase = 3
        BY <1>3, <1>10, <2>1, Octets DEF IsPointer, Tag
      <4>2. \A m \in 0..(TagBase - 1) : m \div TagBase = 0
        BY SMT
      <4> QED
        BY <4>1, <4>2
    <3>2. Step(octets, s) = Pointer(octets, s)
      BY <1>10, <2>1, <3>1 DEF Step
    <3> QED
      BY <1>5, <1>7, <3>2 DEF Pointer
  <2> QED
    BY <1>5, <1>6, <1>8, <1>10, <2>1 DEF Step
<1> QED
  BY <1>9, <1>10

(* The state in which decode enters its loop. *)
First(start) == [position |-> start, cursor |-> start, expanded |-> 1,
                 labels |-> <<>>, visited |-> <<>>, error |-> Running]

(* The equation of the loop ... *)
IsLoop(octets, loop) ==
    \A s \in DecodeState : loop[s] = IF s.error # Running THEN s ELSE loop[Step(octets, s)]

(* ... has a solution, so that decode is one. *)
LEMMA DecodeLoop ==
    ASSUME NEW octets \in Wires, NEW start
    PROVE  \E loop : IsLoop(octets, loop) /\ Decode(octets, start) = loop[First(start)]
<1> DEFINE Loop == CHOOSE f : f = [s \in DecodeState |->
                                     IF s.error # Running THEN s ELSE f[Step(octets, s)]]
<1>1. Decode(octets, start) = Loop[First(start)]
  BY DEF Decode, First
<1>2. \E f : f = [s \in DecodeState |-> IF s.error # Running THEN s ELSE f[Step(octets, s)]]
  <2> DEFINE T == [s \in DecodeState |-> Step(octets, s)]
             Over == {s \in DecodeState : s.error # Running}
  <2>1. T \in [DecodeState -> DecodeState] /\ Over \in SUBSET DecodeState
    BY StepTypes
  <2>2. \A s \in DecodeState : T[s] = Step(octets, s) /\ (s \in Over <=> s.error # Running)
    OBVIOUS
  <2> HIDE DEF T, Over
  <2>3. PICK f : f = [s \in DecodeState |-> IF s \in Over THEN s ELSE f[T[s]]]
    BY <2>1, LoopExists
  <2>4. f = [s \in DecodeState |-> IF s.error # Running THEN s ELSE f[Step(octets, s)]]
    BY <2>2, <2>3
  <2> QED
    BY <2>4
<1>3. Loop = [s \in DecodeState |-> IF s.error # Running THEN s ELSE Loop[Step(octets, s)]]
  BY <1>2
<1> HIDE DEF Loop
<1>4. IsLoop(octets, Loop)
  BY <1>3 DEF IsLoop
<1> QED
  BY <1>1, <1>4

(* decode starts within its limits. *)
LEMMA FirstDecoding ==
    ASSUME NEW start \in Nat
    PROVE  First(start) \in Decoding
<1>1. <<>> \in Seq(Seq(Nat)) /\ <<>> \in Seq(Nat) /\ Len(<<>>) = 0
  OBVIOUS
<1>2. First(start) \in DecodeState
  BY <1>1, DecodeAssumption DEF DecodeState, First
<1> QED
  BY <1>1, <1>2, DecodeAssumption DEF Decoding, First


(* decode: by induction over what is left to do the loop ends, within the   *)
(* limits, on every message and at every offset.                            *)
THEOREM DecodeEnds ==
    ASSUME NEW octets \in Wires, NEW start \in Nat
    PROVE  Decode(octets, start) \in Decoded
<1>1. PICK loop : IsLoop(octets, loop) /\ Decode(octets, start) = loop[First(start)]
  BY DecodeLoop
<1>2. \A s \in DecodeState : loop[s] = IF s.error # Running THEN s ELSE loop[Step(octets, s)]
  BY <1>1 DEF IsLoop
<1>3. \A s \in Decoding : Measure(s) \in Nat
  BY DecodeAssumption DEF Decoding, Measure, DecodeState
<1> DEFINE Bad == {n \in Nat : \E s \in Decoding : Measure(s) = n /\ loop[s] \notin Decoded}
<1>4. Bad = {}
  <2> SUFFICES ASSUME Bad # {} PROVE FALSE
    OBVIOUS
  <2>1. PICK n \in Bad : \A m \in Bad : n <= m
    <3>1. Bad \subseteq Nat
      OBVIOUS
    <3> HIDE DEF Bad
    <3> QED
      BY <3>1, LeastNatural
  <2>2. PICK s \in Decoding : Measure(s) = n /\ loop[s] \notin Decoded
    OBVIOUS
  <2>3. s \in DecodeState /\ s.error = Running
    BY DEF Decoding
  <2>4. loop[s] = loop[Step(octets, s)]
    BY <1>2, <2>3
  <2>5. CASE Step(octets, s) \in Decoded
    <3>1. Step(octets, s) \in DecodeState /\ Step(octets, s).error # Running
      BY <2>5 DEF Decoded
    <3>2. loop[Step(octets, s)] = Step(octets, s)
      BY <1>2, <3>1
    <3> QED
      BY <2>2, <2>4, <2>5, <3>2
  <2>6. CASE Step(octets, s) \in Decoding /\ Measure(Step(octets, s)) < Measure(s)
    <3>1. Measure(Step(octets, s)) \in Nat
      BY <1>3, <2>6
    <3>2. Measure(Step(octets, s)) \in Bad
      BY <2>2, <2>4, <2>6, <3>1
    <3>3. n \in Nat
      OBVIOUS
    <3> HIDE DEF Bad
    <3>4. n <= Measure(Step(octets, s))
      BY <2>1, <3>2
    <3>5. Measure(Step(octets, s)) < n
      BY <2>2, <2>6
    <3> QED
      BY <3>1, <3>3, <3>4, <3>5
  <2> QED
    BY <2>5, <2>6, StepDecreases
<1>5. First(start) \in Decoding
  BY FirstDecoding
<1>6. loop[First(start)] \in Decoded
  BY <1>3, <1>4, <1>5
<1> QED
  BY <1>1, <1>6

-----------------------------------------------------------------------------
(* Any number of steps *)

(* g follows the step T from s0 for n steps. *)
Follows(S, T, s0, n, g) ==
    /\ g \in [0..n -> S] /\ g[0] = s0
    /\ \A i \in 0..(n - 1) : g[i + 1] = T[g[i]]

(* A step can be taken once more ... *)
LEMMA FollowsExtends ==
    ASSUME NEW S, NEW T \in [S -> S], NEW s0, NEW n \in Nat, NEW g, Follows(S, T, s0, n, g)
    PROVE  \E h : Follows(S, T, s0, n + 1, h)
<1>1. g \in [0..n -> S] /\ g[0] = s0 /\ \A i \in 0..(n - 1) : g[i + 1] = T[g[i]]
  BY DEF Follows
<1>2. PICK x \in S : x = T[g[n]]
  BY <1>1
<1> DEFINE h == [i \in 0..(n + 1) |-> IF i = n + 1 THEN x ELSE g[i]]
<1>3. h \in [0..(n + 1) -> S] /\ h[n + 1] = x /\ \A i \in 0..n : h[i] = g[i]
  BY <1>1
<1> HIDE DEF h
<1>4. \A i \in 0..((n + 1) - 1) : h[i + 1] = T[h[i]]
  <2> TAKE i \in 0..((n + 1) - 1)
  <2>1. CASE i = n
    <3>1. h[n] = g[n]
      BY <1>3
    <3> QED
      BY <1>2, <1>3, <2>1, <3>1
  <2>2. CASE i # n
    <3>1. i \in 0..(n - 1) /\ i \in 0..n /\ i + 1 \in 0..n
      BY <2>2
    <3> QED
      BY <1>1, <1>3, <3>1
  <2> QED
    BY <2>1, <2>2
<1>5. h[0] = s0
  BY <1>1, <1>3
<1>6. Follows(S, T, s0, n + 1, h)
  BY <1>3, <1>4, <1>5 DEF Follows
<1> QED
  BY <1>6

(* ... and so any number of times ... *)
LEMMA FollowsExists ==
    ASSUME NEW S, NEW T \in [S -> S], NEW s0 \in S, NEW n \in Nat
    PROVE  \E g : Follows(S, T, s0, n, g)
<1> DEFINE Bad == {m \in Nat : ~ \E g : Follows(S, T, s0, m, g)}
<1> SUFFICES ASSUME Bad # {} PROVE FALSE
  OBVIOUS
<1>1. PICK m \in Bad : \A k \in Bad : m <= k
  <2>1. Bad \subseteq Nat
    OBVIOUS
  <2> HIDE DEF Bad
  <2> QED
    BY <2>1, LeastNatural
<1>2. CASE m = 0
  <2> DEFINE g == [i \in 0..0 |-> s0]
  <2>1. g \in [0..0 -> S] /\ g[0] = s0
    OBVIOUS
  <2> HIDE DEF g
  <2>2. Follows(S, T, s0, 0, g)
    BY <2>1 DEF Follows
  <2> QED
    BY <1>2, <2>2
<1>3. CASE m # 0
  <2>1. m - 1 \in Nat /\ (m - 1) + 1 = m
    BY <1>3
  <2>2. m - 1 \notin Bad
    <3>1. m \in Nat
      OBVIOUS
    <3> HIDE DEF Bad
    <3> QED
      BY <1>1, <2>1, <3>1
  <2>3. PICK g : Follows(S, T, s0, m - 1, g)
    BY <2>1, <2>2
  <2>4. \E h : Follows(S, T, s0, (m - 1) + 1, h)
    BY <2>1, <2>3, FollowsExtends
  <2> QED
    BY <2>1, <2>4
<1> QED
  BY <1>2, <1>3

(* ... in only one way. *)
LEMMA FollowsUnique ==
    ASSUME NEW S, NEW T, NEW s0, NEW n \in Nat, NEW m \in Nat, NEW g, NEW h,
           Follows(S, T, s0, n, g), Follows(S, T, s0, m, h), n <= m
    PROVE  g[n] = h[n]
<1>1. g[0] = s0 /\ h[0] = s0 /\ (\A i \in 0..(n - 1) : g[i + 1] = T[g[i]])
      /\ \A i \in 0..(m - 1) : h[i + 1] = T[h[i]]
  BY DEF Follows
<1> DEFINE Bad == {k \in Nat : k <= n /\ g[k] # h[k]}
<1> SUFFICES ASSUME Bad # {} PROVE FALSE
  OBVIOUS
<1>2. PICK k \in Bad : \A j \in Bad : k <= j
  <2>1. Bad \subseteq Nat
    OBVIOUS
  <2> HIDE DEF Bad
  <2> QED
    BY <2>1, LeastNatural
<1>3. k # 0
  BY <1>1
<1>4. k - 1 \in Nat /\ (k - 1) + 1 = k /\ k - 1 \in 0..(n - 1) /\ k - 1 \in 0..(m - 1) /\ k - 1 <= n
  BY <1>3
<1>5. k - 1 \notin Bad
  <2>1. k \in Nat
    OBVIOUS
  <2> HIDE DEF Bad
  <2> QED
    BY <1>2, <1>4, <2>1
<1>6. g[k - 1] = h[k - 1]
  BY <1>4, <1>5
<1>7. g[(k - 1) + 1] = h[(k - 1) + 1]
  BY <1>1, <1>4, <1>6
<1> QED
  BY <1>4, <1>7

Iterates(S, T, s0, f) ==
    /\ f \in [Nat -> S] /\ f[0] = s0
    /\ \A n \in Nat : f[n + 1] = T[f[n]]

(* A step can be taken for ever. *)
LEMMA IterationExists ==
    ASSUME NEW S, NEW T \in [S -> S], NEW s0 \in S
    PROVE  \E f : Iterates(S, T, s0, f)
<1> DEFINE G(n) == CHOOSE g : Follows(S, T, s0, n, g)
           f == [n \in Nat |-> G(n)[n]]
<1>1. \A n \in Nat : Follows(S, T, s0, n, G(n))
  BY FollowsExists
<1> HIDE DEF G
<1>2. \A n \in Nat : G(n) \in [0..n -> S] /\ n \in 0..n
  BY <1>1 DEF Follows
<1>3. f \in [Nat -> S] /\ \A n \in Nat : f[n] = G(n)[n]
  BY <1>2
<1> HIDE DEF f
<1>4. f[0] = s0
  BY <1>1, <1>3 DEF Follows
<1>5. ASSUME NEW n \in Nat PROVE f[n + 1] = T[f[n]]
  <2>1. n + 1 \in Nat /\ n <= n + 1 /\ n \in 0..((n + 1) - 1)
    OBVIOUS
  <2>2. G(n)[n] = G(n + 1)[n]
    BY <1>1, <2>1, FollowsUnique
  <2>3. Follows(S, T, s0, n + 1, G(n + 1))
    BY <1>1, <2>1
  <2>4. G(n + 1)[n + 1] = T[G(n + 1)[n]]
    BY <2>1, <2>3 DEF Follows
  <2> QED
    BY <1>3, <2>1, <2>2, <2>4
<1>6. Iterates(S, T, s0, f)
  BY <1>3, <1>4, <1>5 DEF Iterates
<1> QED
  BY <1>6

-----------------------------------------------------------------------------
(* The walk through a message *)

(* The offsets that a walk passes. *)
Offsets == Nat \cup {Nowhere}
IsWalk(octets, path) ==
    /\ path \in [Nat -> Offsets]
    /\ \A n \in Nat : path[n + 1] = Successor(octets, path[n])

(* A pointer leads to an offset. *)
LEMMA TargetType ==
    ASSUME NEW octets \in Wires, NEW p \in Nat, Has(octets, p), Has(octets, p + 1)
    PROVE  Target(octets, p) \in Nat
<1> USE DecodeAssumption
<1>1. At(octets, p) \in Nat /\ At(octets, p + 1) \in Nat
  BY Octets
<1>2. At(octets, p) % TagBase \in Nat
  BY <1>1
<1> QED
  BY <1>1, <1>2 DEF Target

(* A pointer is neither a label nor a root. *)
LEMMA PointerTag ==
    ASSUME NEW octets \in Wires, NEW p \in Nat, Has(octets, p), IsPointer(octets, p)
    PROVE  At(octets, p) \notin 0..(TagBase - 1)
<1> USE DecodeAssumption
<1>1. At(octets, p) \in Nat /\ At(octets, p) \div TagBase = 3
  BY Octets DEF IsPointer, Tag
<1>2. \A m \in 0..(TagBase - 1) : m \div TagBase = 0
  BY SMT
<1> QED
  BY <1>1, <1>2

(* Where a walk goes on from an offset: along a pointer or over a label. *)
AlongPointer(octets, p, q) ==
    /\ Has(octets, p) /\ IsPointer(octets, p) /\ Has(octets, p + 1) /\ q = Target(octets, p)
OverLabel(octets, p, q) ==
    /\ Has(octets, p) /\ ~IsPointer(octets, p)
    /\ At(octets, p) \in 1..(TagBase - 1) /\ Has(octets, p + At(octets, p))
    /\ q = p + At(octets, p) + 1

(* A walk goes on in one of the two ways or is nowhere. *)
LEMMA SuccessorCases ==
    ASSUME NEW octets \in Wires, NEW p \in Offsets, NEW q, q = Successor(octets, p)
    PROVE  \/ q = Nowhere
           \/ p \in Nat /\ q \in Nat /\ (AlongPointer(octets, p, q) \/ OverLabel(octets, p, q))
<1> USE DecodeAssumption
<1>1. CASE p = Nowhere
  BY <1>1 DEF Successor
<1>2. CASE p # Nowhere
  <2>1. p \in Nat
    BY <1>2 DEF Offsets
  <2>2. CASE ~Has(octets, p)
    BY <2>2 DEF Successor
  <2>3. CASE Has(octets, p) /\ IsPointer(octets, p)
    <3>1. Has(octets, p + 1) => Target(octets, p) \in Nat
      BY <2>1, <2>3, TargetType
    <3>2. q = IF Has(octets, p + 1) THEN Target(octets, p) ELSE Nowhere
      BY <1>2, <2>3 DEF Successor
    <3> QED
      BY <2>1, <2>3, <3>1, <3>2 DEF AlongPointer
  <2>4. CASE Has(octets, p) /\ ~IsPointer(octets, p)
    <3>1. At(octets, p) \in Nat
      BY <2>1, <2>4, Octets
    <3>2. q = IF At(octets, p) \in 1..(TagBase - 1) /\ Has(octets, p + At(octets, p))
              THEN p + At(octets, p) + 1 ELSE Nowhere
      BY <1>2, <2>4 DEF Successor
    <3> QED
      BY <2>1, <2>4, <3>1, <3>2 DEF OverLabel
  <2> QED
    BY <2>2, <2>3, <2>4
<1> QED
  BY <1>1, <1>2

(* The same, as the loop of decode needs it: along a pointer ... *)
LEMMA SuccessorOfPointer ==
    ASSUME NEW octets \in Wires, NEW p \in Nat, Has(octets, p), IsPointer(octets, p),
           Has(octets, p + 1)
    PROVE  Successor(octets, p) = Target(octets, p)
  BY DEF Successor, Nowhere

(* ... over a label ... *)
LEMMA SuccessorOfLabel ==
    ASSUME NEW octets \in Wires, NEW p \in Nat, Has(octets, p), ~IsPointer(octets, p),
           At(octets, p) \in 1..(TagBase - 1), Has(octets, p + At(octets, p))
    PROVE  Successor(octets, p) = p + At(octets, p) + 1
  BY DEF Successor, Nowhere

(* ... and nowhere after the root. *)
LEMMA SuccessorOfEnd ==
    ASSUME NEW octets \in Wires, NEW p \in Offsets, IsEnd(octets, p)
    PROVE  Successor(octets, p) = Nowhere
<1> USE DecodeAssumption
<1>1. p \in Nat /\ Has(octets, p) /\ At(octets, p) = 0
  BY DEF IsEnd, Offsets
<1>2. ~IsPointer(octets, p)
  BY <1>1, PointerTag
<1> QED
  BY <1>1, <1>2 DEF Successor

(* The walk that NameDecode defines is one. *)
LEMMA WalkExists ==
    ASSUME NEW octets \in Wires, NEW start \in Nat
    PROVE  IsWalk(octets, Walk(octets, start)) /\ Walk(octets, start)[0] = start
<1> DEFINE T == [p \in Offsets |-> Successor(octets, p)]
           path == CHOOSE f : f = [n \in Nat |-> IF n = 0 THEN start
                                                 ELSE Successor(octets, f[n - 1])]
<1>1. Walk(octets, start) = path
  BY DEF Walk
<1>2. T \in [Offsets -> Offsets]
  <2>1. \A p \in Offsets : Successor(octets, p) \in Offsets
    BY SuccessorCases DEF Offsets
  <2> QED
    BY <2>1
<1>3. \A p \in Offsets : T[p] = Successor(octets, p)
  OBVIOUS
<1> HIDE DEF T
<1>4. start \in Offsets
  BY DEF Offsets
<1>5. PICK f : Iterates(Offsets, T, start, f)
  BY <1>2, <1>4, IterationExists
<1>6. f \in [Nat -> Offsets] /\ f[0] = start /\ \A n \in Nat : f[n + 1] = T[f[n]]
  BY <1>5 DEF Iterates
<1>7. \A n \in Nat : f[n] = IF n = 0 THEN start ELSE Successor(octets, f[n - 1])
  <2> TAKE n \in Nat
  <2>1. CASE n # 0
    <3>1. n - 1 \in Nat /\ (n - 1) + 1 = n
      BY <2>1
    <3>2. f[(n - 1) + 1] = T[f[n - 1]] /\ f[n - 1] \in Offsets
      BY <1>6, <3>1
    <3> QED
      BY <1>3, <2>1, <3>1, <3>2
  <2> QED
    BY <1>6, <2>1
<1>8. f = [n \in Nat |-> IF n = 0 THEN start ELSE Successor(octets, f[n - 1])]
  BY <1>6, <1>7
<1>9. path = [n \in Nat |-> IF n = 0 THEN start ELSE Successor(octets, path[n - 1])]
  BY <1>8
<1> HIDE DEF path
<1>10. DOMAIN path = Nat
      /\ \A n \in Nat : path[n] = IF n = 0 THEN start ELSE Successor(octets, path[n - 1])
  BY <1>9
<1>11. path[0] = start
  BY <1>10
<1>12. \A n \in Nat : path[n + 1] = Successor(octets, path[n])
  <2> TAKE n \in Nat
  <2>1. n + 1 \in Nat /\ n + 1 # 0 /\ (n + 1) - 1 = n
    OBVIOUS
  <2> QED
    BY <1>10, <2>1
<1> DEFINE Bad == {n \in Nat : path[n] \notin Offsets}
<1>13. Bad = {}
  <2> SUFFICES ASSUME Bad # {} PROVE FALSE
    OBVIOUS
  <2>1. PICK n \in Bad : \A k \in Bad : n <= k
    <3>1. Bad \subseteq Nat
      OBVIOUS
    <3> HIDE DEF Bad
    <3> QED
      BY <3>1, LeastNatural
  <2>2. n # 0
    BY <1>4, <1>11
  <2>3. n - 1 \in Nat /\ (n - 1) + 1 = n
    BY <2>2
  <2>4. n - 1 \notin Bad
    <3>1. n \in Nat
      OBVIOUS
    <3> HIDE DEF Bad
    <3> QED
      BY <2>1, <2>3, <3>1
  <2>5. path[n - 1] \in Offsets
    BY <2>3, <2>4
  <2>6. path[n] = Successor(octets, path[n - 1])
    BY <1>12, <2>3
  <2>7. path[n] \in Offsets
    BY <1>2, <1>3, <2>5, <2>6
  <2> QED
    BY <2>7
<1>14. path \in [Nat -> Offsets]
  <2>1. \A n \in Nat : path[n] \in Offsets
    BY <1>13
  <2>2. path = [n \in Nat |-> path[n]]
    BY <1>9, <1>10
  <2> HIDE DEF Bad
  <2> QED
    BY <2>1, <2>2
<1> QED
  BY <1>1, <1>11, <1>12, <1>14 DEF IsWalk

(* One step of a walk. *)
LEMMA WalkStep ==
    ASSUME NEW octets, NEW path, IsWalk(octets, path), NEW n \in Nat
    PROVE  path[n] \in Offsets /\ path[n + 1] = Successor(octets, path[n])
  BY DEF IsWalk

(* A walk that got somewhere was somewhere all the time. *)
LEMMA WalkAlive ==
    ASSUME NEW octets \in Wires, NEW path, IsWalk(octets, path),
           NEW n \in Nat, path[n] # Nowhere, NEW m \in Nat, m <= n
    PROVE  path[m] \in Nat
<1> DEFINE Bad == {k \in Nat : m <= k /\ path[k] # Nowhere}
<1> SUFFICES ASSUME path[m] = Nowhere PROVE FALSE
  BY WalkStep DEF Offsets
<1>1. n \in Bad
  OBVIOUS
<1>2. PICK k \in Bad : \A j \in Bad : k <= j
  <2>1. Bad \subseteq Nat
    OBVIOUS
  <2> HIDE DEF Bad
  <2> QED
    BY <1>1, <2>1, LeastNatural
<1>3. k # m
  OBVIOUS
<1>4. k - 1 \in Nat /\ (k - 1) + 1 = k /\ m <= k - 1
  BY <1>3
<1>5. k - 1 \notin Bad
  <2>1. k \in Nat
    OBVIOUS
  <2> HIDE DEF Bad
  <2> QED
    BY <1>2, <1>4, <2>1
<1>6. path[k - 1] = Nowhere
  BY <1>4, <1>5
<1>7. path[k] = Successor(octets, path[k - 1])
  BY <1>4, WalkStep
<1>8. path[k] = Nowhere
  BY <1>6, <1>7 DEF Successor
<1> QED
  BY <1>8

(* Once back at an offset, a walk repeats itself. *)
LEMMA WalkRepeats ==
    ASSUME NEW octets \in Wires, NEW path, IsWalk(octets, path),
           NEW i \in Nat, NEW j \in Nat, path[i] = path[j], NEW n \in Nat
    PROVE  path[i + n] = path[j + n]
<1> DEFINE Bad == {k \in Nat : path[i + k] # path[j + k]}
<1> SUFFICES ASSUME Bad # {} PROVE FALSE
  OBVIOUS
<1>1. PICK k \in Bad : \A m \in Bad : k <= m
  <2>1. Bad \subseteq Nat
    OBVIOUS
  <2> HIDE DEF Bad
  <2> QED
    BY <2>1, LeastNatural
<1>2. k # 0
  OBVIOUS
<1>3. k - 1 \in Nat /\ i + (k - 1) \in Nat /\ j + (k - 1) \in Nat
      /\ (i + (k - 1)) + 1 = i + k /\ (j + (k - 1)) + 1 = j + k
  BY <1>2
<1>4. k - 1 \notin Bad
  <2>1. k \in Nat
    OBVIOUS
  <2> HIDE DEF Bad
  <2> QED
    BY <1>1, <1>3, <2>1
<1>5. path[i + (k - 1)] = path[j + (k - 1)]
  BY <1>3, <1>4
<1>6. path[i + k] = Successor(octets, path[i + (k - 1)])
      /\ path[j + k] = Successor(octets, path[j + (k - 1)])
  BY <1>3, WalkStep
<1>7. path[i + k] = path[j + k]
  BY <1>5, <1>6
<1> QED
  BY <1>7

(* ... and so it never ends. *)
LEMMA WalkReturns ==
    ASSUME NEW octets \in Wires, NEW path, IsWalk(octets, path),
           NEW i \in Nat, NEW j \in Nat, i < j, path[i] = path[j], path[j] # Nowhere,
           NEW n \in Nat
    PROVE  path[n] # Nowhere /\ ~IsEnd(octets, path[n])
<1> DEFINE Bad == {k \in Nat : path[k] = Nowhere}
<1>1. Bad = {}
  <2> SUFFICES ASSUME Bad # {} PROVE FALSE
    OBVIOUS
  <2>1. PICK k \in Bad : \A m \in Bad : k <= m
    <3>1. Bad \subseteq Nat
      OBVIOUS
    <3> HIDE DEF Bad
    <3> QED
      BY <3>1, LeastNatural
  <2>2. k \in Nat /\ path[k] = Nowhere
    OBVIOUS
  <2>3. ~(k <= j)
    BY <2>2, WalkAlive DEF Nowhere
  <2>4. PICK r \in Nat : j + r = k /\ i + r \in Nat /\ i + r < k
    <3>1. k - j \in Nat /\ j + (k - j) = k /\ i + (k - j) \in Nat /\ i + (k - j) < k
      BY <2>2, <2>3
    <3> QED
      BY <3>1
  <2>5. path[i + r] = path[j + r]
    BY WalkRepeats
  <2>6. i + r \in Bad
    BY <2>2, <2>4, <2>5
  <2> HIDE DEF Bad
  <2>7. k <= i + r
    BY <2>1, <2>6
  <2> QED
    BY <2>2, <2>4, <2>7
<1>2. \A k \in Nat : path[k] # Nowhere
  BY <1>1
<1>3. ASSUME IsEnd(octets, path[n]) PROVE FALSE
  <2>1. path[n + 1] = Nowhere
    BY <1>3, WalkStep, SuccessorOfEnd
  <2>2. n + 1 \in Nat
    OBVIOUS
  <2> QED
    BY <1>2, <2>1, <2>2
<1> QED
  BY <1>2, <1>3

(* Nothing is behind the end of a walk. *)
LEMMA WalkEndsOnce ==
    ASSUME NEW octets \in Wires, NEW path, IsWalk(octets, path),
           NEW n \in Nat, IsEnd(octets, path[n]), NEW m \in Nat, path[m] # Nowhere
    PROVE  m <= n
<1> SUFFICES ASSUME ~(m <= n) PROVE FALSE
  OBVIOUS
<1>1. n + 1 \in Nat /\ n + 1 <= m
  OBVIOUS
<1>2. path[n + 1] = Nowhere
  BY WalkStep, SuccessorOfEnd
<1>3. path[n + 1] \in Nat
  BY <1>1, WalkAlive
<1> QED
  BY <1>2, <1>3 DEF Nowhere

(* A walk that ends passes no offset twice, so it is shorter than the       *)
(* message.                                                                 *)
LEMMA WalkShort ==
    ASSUME NEW octets \in Wires, NEW path, IsWalk(octets, path),
           NEW n \in Nat, IsEnd(octets, path[n])
    PROVE  n < Len(octets)
<1> DEFINE N == Len(octets)
           f == [i \in 0..n |-> path[i]]
<1>1. N \in Nat
  BY DecodeAssumption
<1>2. path[n] # Nowhere
  BY DEF IsEnd
<1>3. ASSUME NEW i \in 0..n PROVE path[i] \in 0..(N - 1)
  <2>1. i \in Nat /\ i <= n
    OBVIOUS
  <2>2. path[i] \in Nat
    BY <1>2, <2>1, WalkAlive
  <2>3. Has(octets, path[i])
    <3>1. CASE i = n
      BY <3>1 DEF IsEnd
    <3>2. CASE i # n
      <4>1. i + 1 \in Nat /\ i + 1 <= n
        BY <2>1, <3>2
      <4>2. path[i + 1] \in Nat
        BY <1>2, <4>1, WalkAlive
      <4>3. path[i + 1] # Nowhere
        BY <4>2 DEF Nowhere
      <4>4. path[i] \in Offsets /\ path[i + 1] = Successor(octets, path[i])
        BY <2>1, WalkStep
      <4>5. AlongPointer(octets, path[i], path[i + 1]) \/ OverLabel(octets, path[i], path[i + 1])
        BY <4>3, <4>4, SuccessorCases
      <4> QED
        BY <4>5 DEF AlongPointer, OverLabel
    <3> QED
      BY <3>1, <3>2
  <2> QED
    BY <1>1, <2>2, <2>3 DEF Has
<1>4. f \in [0..n -> 0..(N - 1)]
  BY <1>3
<1> SUFFICES ASSUME ~(n < N) PROVE FALSE
  OBVIOUS
<1>5. IsFiniteSet(0..n) /\ Cardinality(0..n) = n + 1
  <2>1. IsFiniteSet(0..n) /\ Cardinality(0..n) = IF 0 > n THEN 0 ELSE n - 0 + 1
    BY FS_Interval
  <2> QED
    BY <2>1
<1>6. IsFiniteSet(0..(N - 1)) /\ Cardinality(0..(N - 1)) = N
  <2> HIDE DEF N
  <2>1. PICK b \in Int : b = N - 1
    <3>1. N - 1 \in Int
      BY <1>1
    <3> QED
      BY <3>1
  <2>2. IsFiniteSet(0..b) /\ Cardinality(0..b) = IF 0 > b THEN 0 ELSE b - 0 + 1
    BY FS_Interval
  <2>3. Cardinality(0..b) = N
    BY <1>1, <2>1, <2>2
  <2> QED
    BY <2>1, <2>2, <2>3
<1>7. Cardinality(0..(N - 1)) < Cardinality(0..n)
  BY <1>1, <1>5, <1>6
<1>8. PICK x, y \in 0..n : x # y /\ f[x] = f[y]
  <2> HIDE DEF f, N
  <2> QED
    BY <1>4, <1>5, <1>6, <1>7, FS_PigeonHole
<1>9. x \in Nat /\ y \in Nat /\ x <= n /\ y <= n /\ path[x] = path[y]
  BY <1>8
<1>10. path[x] # Nowhere /\ path[y] # Nowhere
  <2>1. path[x] \in Nat /\ path[y] \in Nat
    BY <1>2, <1>9, WalkAlive
  <2> QED
    BY <2>1 DEF Nowhere
<1>11. CASE x < y
  BY <1>9, <1>10, <1>11, WalkReturns
<1>12. CASE y < x
  BY <1>9, <1>10, <1>12, WalkReturns
<1> QED
  BY <1>8, <1>9, <1>11, <1>12

-----------------------------------------------------------------------------
(* What a walk has passed: the pointers and labels of its name *)

(* What the n-th step of a walk adds to the pointers and to the labels. *)
PointerPart(octets, p) == IF IsPointer(octets, p) THEN <<p>> ELSE <<>>
LabelPart(octets, p) == IF IsPointer(octets, p) THEN <<>> ELSE <<TextAt(octets, p)>>

(* The text of a label. *)
LEMMA TextType ==
    ASSUME NEW octets \in Wires, NEW p \in Nat, NEW q, OverLabel(octets, p, q)
    PROVE  TextAt(octets, p) \in Seq(Nat) /\ Len(TextAt(octets, p)) = At(octets, p)
<1> USE DecodeAssumption
<1>1. PICK a \in Nat : a = At(octets, p)
  BY Octets DEF OverLabel
<1>2. octets \in Seq(Nat) /\ Len(octets) \in Nat
  OBVIOUS
<1>3. p + a < Len(octets) /\ a # 0
  BY <1>1 DEF OverLabel, Has
<1>4. PICK b \in Nat, c \in Nat : b = p + 2 /\ c = p + a + 1
  OBVIOUS
<1>5. b \in 1..(Len(octets) + 1) /\ c \in (b - 1)..Len(octets) /\ c - b + 1 = a
  BY <1>2, <1>3, <1>4
<1>6. SubSeq(octets, b, c) \in Seq(Nat) /\ Len(SubSeq(octets, b, c)) = IF b <= c THEN c - b + 1 ELSE 0
  <2>1. \A i \in 1..Len(octets) : octets[i] \in Nat
    BY <1>2
  <2>2. \A i \in b..c : octets[i] \in Nat
    BY <1>2, <1>5, <2>1
  <2> QED
    BY <1>2, <2>2, SubSeqProperties
<1>7. TextAt(octets, p) = SubSeq(octets, b, c)
  BY <1>1, <1>4 DEF TextAt
<1>8. Len(SubSeq(octets, b, c)) = a
  BY <1>5, <1>6
<1> QED
  BY <1>1, <1>6, <1>7, <1>8

(* Concatenation with at most one element. *)
LEMMA AppendOne ==
    ASSUME NEW S, NEW s \in Seq(S), NEW x \in S
    PROVE  s \o <<x>> = Append(s, x) /\ s \o <<>> = s
  OBVIOUS

(* A sequence that is one element longer. *)
LEMMA ConstructAppend ==
    ASSUME NEW S, NEW n \in Nat, NEW t \in [1..(n + 1) -> S], NEW s,
           s = [i \in 1..n |-> t[i]]
    PROVE  s \in Seq(S) /\ t = Append(s, t[n + 1])
<1>1. s \in [1..n -> S] /\ s \in Seq(S) /\ Len(s) = n
  OBVIOUS
<1>2. t \in Seq(S) /\ Len(t) = n + 1
  OBVIOUS
<1>3. \A i \in 1..(n + 1) : Append(s, t[n + 1])[i] = t[i]
  BY <1>1
<1>4. Append(s, t[n + 1]) \in Seq(S) /\ Len(Append(s, t[n + 1])) = n + 1
  BY <1>1
<1> QED
  BY <1>1, <1>2, <1>3, <1>4

(* The pointers on the way. *)
LEMMA PointersGrow ==
    ASSUME NEW octets \in Wires, NEW path, IsWalk(octets, path), NEW n \in Nat, path[n] # Nowhere
    PROVE  /\ PointersOf(octets, path, n) \in Seq(Nat)
           /\ PointersOf(octets, path, n + 1) =
                IF IsPointer(octets, path[n])
                THEN Append(PointersOf(octets, path, n), path[n]) ELSE PointersOf(octets, path, n)
<1> DEFINE t == [i \in 1..(n + 1) |-> PointerPart(octets, path[i - 1])]
           s == [i \in 1..n |-> PointerPart(octets, path[i - 1])]
<1>1. PointersOf(octets, path, n) = FlattenSeq(s) /\ PointersOf(octets, path, n + 1) = FlattenSeq(t)
  BY DEF PointersOf, PointerPart
<1>2. ASSUME NEW i \in 1..(n + 1) PROVE PointerPart(octets, path[i - 1]) \in Seq(Nat)
  <2>1. i - 1 \in Nat /\ i - 1 <= n
    OBVIOUS
  <2>2. path[i - 1] \in Nat
    BY <2>1, WalkAlive
  <2> QED
    BY <2>2 DEF PointerPart
<1>3. t \in [1..(n + 1) -> Seq(Nat)] /\ s = [i \in 1..n |-> t[i]]
      /\ t[n + 1] = PointerPart(octets, path[n])
  BY <1>2
<1> HIDE DEF s, t
<1>4. PICK e \in Seq(Nat) : e = PointerPart(octets, path[n])
  BY <1>3
<1>5. s \in Seq(Seq(Nat)) /\ t = Append(s, e)
  BY <1>3, <1>4, ConstructAppend
<1>6. PICK v \in Seq(Nat) : v = FlattenSeq(s)
  BY <1>5, FlattenType
<1>7. FlattenSeq(t) = v \o e
  BY <1>5, <1>6, FlattenAppend
<1>8. path[n] \in Nat
  BY WalkAlive
<1>9. v \o <<path[n]>> = Append(v, path[n]) /\ v \o <<>> = v
  BY <1>8, AppendOne
<1> QED
  BY <1>1, <1>4, <1>6, <1>7, <1>9 DEF PointerPart

(* The labels on the way. *)
LEMMA LabelPartType ==
    ASSUME NEW octets \in Wires, NEW path, IsWalk(octets, path), NEW n \in Nat, path[n + 1] # Nowhere
    PROVE  LabelPart(octets, path[n]) \in Seq(Seq(Nat))
<1>1. path[n] \in Offsets /\ path[n + 1] = Successor(octets, path[n])
  BY WalkStep
<1>2. path[n] \in Nat
      /\ (AlongPointer(octets, path[n], path[n + 1]) \/ OverLabel(octets, path[n], path[n + 1]))
  BY <1>1, SuccessorCases
<1>3. ~IsPointer(octets, path[n]) => TextAt(octets, path[n]) \in Seq(Nat)
  BY <1>2, TextType DEF AlongPointer
<1> QED
  BY <1>3 DEF LabelPart

(* The labels of a name ... *)
LEMMA LabelsType ==
    ASSUME NEW octets \in Wires, NEW path, IsWalk(octets, path), NEW n \in Nat, path[n] # Nowhere
    PROVE  LabelsOf(octets, path, n) \in Seq(Seq(Nat))
<1> DEFINE s == [i \in 1..n |-> LabelPart(octets, path[i - 1])]
<1>1. LabelsOf(octets, path, n) = FlattenSeq(s)
  BY DEF LabelsOf, LabelPart
<1>2. ASSUME NEW i \in 1..n PROVE LabelPart(octets, path[i - 1]) \in Seq(Seq(Nat))
  <2>1. PICK j \in Nat : j = i - 1 /\ j + 1 = i /\ j + 1 <= n
    <3>1. i - 1 \in Nat /\ (i - 1) + 1 = i /\ (i - 1) + 1 <= n
      OBVIOUS
    <3> QED
      BY <3>1
  <2>2. path[j + 1] \in Nat
    BY <2>1, WalkAlive
  <2>3. path[j + 1] # Nowhere
    BY <2>2 DEF Nowhere
  <2> QED
    BY <2>1, <2>3, LabelPartType
<1>3. s \in Seq(Seq(Seq(Nat)))
  BY <1>2
<1> HIDE DEF s
<1>4. PICK S : S = Seq(Nat)
  OBVIOUS
<1>5. s \in Seq(Seq(S))
  BY <1>3, <1>4
<1>6. FlattenSeq(s) \in Seq(S)
  BY <1>5, FlattenType
<1> QED
  BY <1>1, <1>4, <1>6

(* ... grow with every label that is passed. *)
LEMMA LabelsGrow ==
    ASSUME NEW octets \in Wires, NEW path, IsWalk(octets, path), NEW n \in Nat,
           path[n + 1] # Nowhere
    PROVE  LabelsOf(octets, path, n + 1) =
             IF IsPointer(octets, path[n]) THEN LabelsOf(octets, path, n)
             ELSE Append(LabelsOf(octets, path, n), TextAt(octets, path[n]))
<1> DEFINE t == [i \in 1..(n + 1) |-> LabelPart(octets, path[i - 1])]
           s == [i \in 1..n |-> LabelPart(octets, path[i - 1])]
<1>1. LabelsOf(octets, path, n) = FlattenSeq(s) /\ LabelsOf(octets, path, n + 1) = FlattenSeq(t)
  BY DEF LabelsOf, LabelPart
<1>2. ASSUME NEW i \in 1..(n + 1) PROVE LabelPart(octets, path[i - 1]) \in Seq(Seq(Nat))
  <2>1. PICK j \in Nat : j = i - 1 /\ j + 1 = i /\ j + 1 <= n + 1
    <3>1. i - 1 \in Nat /\ (i - 1) + 1 = i /\ (i - 1) + 1 <= n + 1
      OBVIOUS
    <3> QED
      BY <3>1
  <2>2. path[j + 1] \in Nat
    BY <2>1, WalkAlive
  <2>3. path[j + 1] # Nowhere
    BY <2>2 DEF Nowhere
  <2> QED
    BY <2>1, <2>3, LabelPartType
<1>3. PICK S : S = Seq(Nat)
  OBVIOUS
<1>4. t \in [1..(n + 1) -> Seq(S)] /\ s = [i \in 1..n |-> t[i]]
      /\ t[n + 1] = LabelPart(octets, path[n])
  BY <1>2, <1>3
<1> HIDE DEF s, t
<1>5. PICK e \in Seq(S) : e = LabelPart(octets, path[n])
  BY <1>4
<1>6. s \in Seq(Seq(S)) /\ t = Append(s, e)
  <2>1. PICK Q : Q = Seq(S)
    OBVIOUS
  <2>2. t \in [1..(n + 1) -> Q]
    BY <1>4, <2>1
  <2>3. s \in Seq(Q) /\ t = Append(s, t[n + 1])
    BY <1>4, <2>2, ConstructAppend
  <2> QED
    BY <1>4, <1>5, <2>1, <2>3
<1>7. PICK v \in Seq(S) : v = FlattenSeq(s)
  BY <1>6, FlattenType
<1>8. FlattenSeq(t) = v \o e
  BY <1>6, <1>7, FlattenAppend
<1>9. v \o <<>> = v
  OBVIOUS
<1>10. CASE IsPointer(octets, path[n])
  BY <1>1, <1>5, <1>7, <1>8, <1>9, <1>10 DEF LabelPart
<1>11. CASE ~IsPointer(octets, path[n])
  <2>1. path[n] \in Offsets /\ path[n + 1] = Successor(octets, path[n])
    BY WalkStep
  <2>2. path[n] \in Nat /\ OverLabel(octets, path[n], path[n + 1])
    BY <1>11, <2>1, SuccessorCases DEF AlongPointer
  <2>3. PICK x \in S : x = TextAt(octets, path[n])
    BY <1>3, <2>2, TextType
  <2>4. v \o <<x>> = Append(v, x)
    BY AppendOne
  <2>5. e = <<x>>
    BY <1>5, <1>11, <2>3 DEF LabelPart
  <2> QED
    BY <1>1, <1>7, <1>8, <1>11, <2>3, <2>4, <2>5
<1> QED
  BY <1>10, <1>11

(* Each label adds its text and its length octet. *)
LEMMA NameLengthGrows ==
    ASSUME NEW l \in Seq(Seq(Nat)), NEW e \in Seq(Nat)
    PROVE  NameLength(l) \in Nat /\ NameLength(Append(l, e)) = NameLength(l) + Len(e) + 1
<1>1. PICK f \in Seq(Nat) : f = FlattenSeq(l)
  BY FlattenType
<1>2. FlattenSeq(Append(l, e)) = f \o e
  BY <1>1, FlattenAppend
<1>3. Len(f \o e) = Len(f) + Len(e) /\ Len(f) \in Nat /\ Len(e) \in Nat
  OBVIOUS
<1>4. Len(Append(l, e)) = Len(l) + 1 /\ Len(l) \in Nat
  OBVIOUS
<1> QED
  BY <1>1, <1>2, <1>3, <1>4 DEF NameLength

(* The empty name is the root octet. *)
LEMMA AtTheStart ==
    ASSUME NEW octets, NEW path
    PROVE  /\ PointersOf(octets, path, 0) = <<>> /\ LabelsOf(octets, path, 0) = <<>>
           /\ NameLength(<<>>) = 1
<1>1. [i \in 1..0 |-> PointerPart(octets, path[i - 1])] = <<>>
      /\ [i \in 1..0 |-> LabelPart(octets, path[i - 1])] = <<>>
  OBVIOUS
<1>2. PointersOf(octets, path, 0) = FlattenSeq([i \in 1..0 |-> PointerPart(octets, path[i - 1])])
      /\ LabelsOf(octets, path, 0) = FlattenSeq([i \in 1..0 |-> LabelPart(octets, path[i - 1])])
  BY DEF PointersOf, LabelsOf, PointerPart, LabelPart
<1>3. FlattenSeq(<<>>) = <<>> /\ Len(<<>>) = 0
  BY FlattenEmpty
<1> QED
  BY <1>1, <1>2, <1>3 DEF NameLength

(* A walk keeps the pointers and labels that it has. *)
Grown(octets, path, m, n) ==
    /\ Len(PointersOf(octets, path, m)) <= Len(PointersOf(octets, path, n))
    /\ \A j \in 1..Len(PointersOf(octets, path, m)) :
         PointersOf(octets, path, n)[j] = PointersOf(octets, path, m)[j]
    /\ NameLength(LabelsOf(octets, path, m)) <= NameLength(LabelsOf(octets, path, n))

(* The length of a name on the way. *)
LEMMA LengthType ==
    ASSUME NEW octets \in Wires, NEW path, IsWalk(octets, path), NEW n \in Nat, path[n] # Nowhere
    PROVE  NameLength(LabelsOf(octets, path, n)) \in Nat
<1>1. PICK l \in Seq(Seq(Nat)) : l = LabelsOf(octets, path, n)
  BY LabelsType
<1>2. <<>> \in Seq(Nat)
  OBVIOUS
<1>3. NameLength(l) \in Nat
  BY <1>2, NameLengthGrows
<1> QED
  BY <1>1, <1>3

(* What one step adds to the length. *)
LEMMA LengthGrows ==
    ASSUME NEW octets \in Wires, NEW path, IsWalk(octets, path), NEW n \in Nat,
           path[n + 1] # Nowhere
    PROVE  NameLength(LabelsOf(octets, path, n + 1)) =
             IF IsPointer(octets, path[n]) THEN NameLength(LabelsOf(octets, path, n))
             ELSE NameLength(LabelsOf(octets, path, n)) + At(octets, path[n]) + 1
<1>1. CASE IsPointer(octets, path[n])
  BY <1>1, LabelsGrow
<1>2. CASE ~IsPointer(octets, path[n])
  <2>1. path[n] \in Offsets /\ path[n + 1] = Successor(octets, path[n])
    BY WalkStep
  <2>2. path[n] \in Nat /\ OverLabel(octets, path[n], path[n + 1])
    BY <1>2, <2>1, SuccessorCases DEF AlongPointer
  <2>3. PICK e \in Seq(Nat) : e = TextAt(octets, path[n]) /\ Len(e) = At(octets, path[n])
    BY <2>2, TextType
  <2>4. path[n] # Nowhere
    BY <2>2 DEF Nowhere
  <2>5. PICK l \in Seq(Seq(Nat)) : l = LabelsOf(octets, path, n)
    BY <2>4, LabelsType
  <2>6. LabelsOf(octets, path, n + 1) = Append(l, e)
    BY <1>2, <2>3, <2>5, LabelsGrow
  <2>7. NameLength(Append(l, e)) = NameLength(l) + Len(e) + 1
    BY NameLengthGrows
  <2> QED
    BY <1>2, <2>3, <2>5, <2>6, <2>7
<1> QED
  BY <1>1, <1>2

(* One more step. *)
LEMMA GrowsByStep ==
    ASSUME NEW octets \in Wires, NEW path, IsWalk(octets, path), NEW m \in Nat, NEW n \in Nat,
           path[m] # Nowhere, path[n + 1] # Nowhere, Grown(octets, path, m, n)
    PROVE  Grown(octets, path, m, n + 1)
<1>1. path[n] \in Nat /\ path[n] # Nowhere
  <2>1. path[n] \in Nat
    BY WalkAlive
  <2> QED
    BY <2>1 DEF Nowhere
<1>2. PICK p \in Seq(Nat) : p = PointersOf(octets, path, n)
  BY <1>1, PointersGrow
<1>3. PICK q : q = PointersOf(octets, path, n + 1)
  OBVIOUS
<1>4. q = IF IsPointer(octets, path[n]) THEN Append(p, path[n]) ELSE p
  BY <1>1, <1>2, <1>3, PointersGrow
<1>5. Len(q) \in Nat /\ Len(p) \in Nat /\ Len(p) <= Len(q) /\ \A j \in 1..Len(p) : q[j] = p[j]
  BY <1>1, <1>4
<1>6. PICK o \in Seq(Nat) : o = PointersOf(octets, path, m)
  BY PointersGrow
<1>7. Len(o) \in Nat /\ Len(o) <= Len(p) /\ \A j \in 1..Len(o) : p[j] = o[j]
  BY <1>2, <1>6 DEF Grown
<1>8. Len(o) <= Len(q) /\ \A j \in 1..Len(o) : q[j] = o[j]
  BY <1>5, <1>7
<1>9. PICK x \in Nat : x = NameLength(LabelsOf(octets, path, n))
  BY <1>1, LengthType
<1>10. PICK y \in Nat : y = NameLength(LabelsOf(octets, path, m))
  BY LengthType
<1>11. PICK z \in Nat : z = NameLength(LabelsOf(octets, path, n + 1))
  <2>1. n + 1 \in Nat
    OBVIOUS
  <2> QED
    BY <2>1, LengthType
<1>12. y <= x
  BY <1>9, <1>10 DEF Grown
<1>13. x <= z
  <2>1. CASE IsPointer(octets, path[n])
    BY <1>9, <1>11, <2>1, LengthGrows
  <2>2. CASE ~IsPointer(octets, path[n])
    <3>1. Has(octets, path[n])
      <4>1. path[n] \in Offsets /\ path[n + 1] = Successor(octets, path[n])
        BY WalkStep
      <4> QED
        BY <4>1, SuccessorCases DEF AlongPointer, OverLabel
    <3>2. At(octets, path[n]) \in Nat
      BY <1>1, <3>1, Octets
    <3>3. z = x + At(octets, path[n]) + 1
      BY <1>9, <1>11, <2>2, LengthGrows
    <3> QED
      BY <3>2, <3>3
  <2> QED
    BY <2>1, <2>2
<1>14. y <= z
  BY <1>12, <1>13
<1> QED
  BY <1>3, <1>6, <1>8, <1>10, <1>11, <1>14 DEF Grown

(* So a limit that is exceeded on the way is exceeded at the end. *)
LEMMA WalkGrows ==
    ASSUME NEW octets \in Wires, NEW path, IsWalk(octets, path), NEW m \in Nat, NEW n \in Nat,
           m <= n, path[n] # Nowhere
    PROVE  Grown(octets, path, m, n)
<1> DEFINE Bad == {k \in Nat : m <= k /\ k <= n /\ ~Grown(octets, path, m, k)}
<1> SUFFICES ASSUME Bad # {} PROVE FALSE
  OBVIOUS
<1>1. PICK k \in Bad : \A j \in Bad : k <= j
  <2>1. Bad \subseteq Nat
    OBVIOUS
  <2> HIDE DEF Bad
  <2> QED
    BY <2>1, LeastNatural
<1>2. k \in Nat /\ m <= k /\ k <= n /\ ~Grown(octets, path, m, k)
  OBVIOUS
<1>3. path[m] \in Nat /\ path[k] \in Nat
  BY <1>2, WalkAlive
<1>4. path[m] # Nowhere /\ path[k] # Nowhere
  BY <1>3 DEF Nowhere
<1>5. k # m
  <2>1. Grown(octets, path, m, m)
    <3>1. PointersOf(octets, path, m) \in Seq(Nat) /\ NameLength(LabelsOf(octets, path, m)) \in Nat
      BY <1>4, PointersGrow, LengthType
    <3>2. Len(PointersOf(octets, path, m)) \in Nat
      BY <3>1
    <3> QED
      BY <3>1, <3>2 DEF Grown
  <2> QED
    BY <1>2, <2>1
<1>6. PICK j \in Nat : j + 1 = k
  <2>1. k - 1 \in Nat /\ (k - 1) + 1 = k
    BY <1>2, <1>5
  <2> QED
    BY <2>1
<1>7. j \notin Bad
  <2> HIDE DEF Bad
  <2> QED
    BY <1>1, <1>2, <1>6
<1>8. Grown(octets, path, m, j)
  BY <1>2, <1>5, <1>6, <1>7
<1>9. Grown(octets, path, m, j + 1)
  BY <1>4, <1>6, <1>8, GrowsByStep
<1> QED
  BY <1>2, <1>6, <1>9

-----------------------------------------------------------------------------
(* decode follows the walk *)

(* What a step of decode is. *)
LEMMA StepIs ==
    ASSUME NEW octets \in Wires, NEW s, s.position \in Nat
    PROVE  /\ ~Has(octets, s.position) => Step(octets, s) = Failed(s, "UnexpectedEnd")
           /\ Has(octets, s.position) =>
                /\ IsPointer(octets, s.position) => Step(octets, s) = Pointer(octets, s)
                /\ At(octets, s.position) = 0 => Step(octets, s) = Root(s)
                /\ At(octets, s.position) \in 1..(TagBase - 1) => Step(octets, s) = Label(octets, s)
                /\ ~IsPointer(octets, s.position) /\ At(octets, s.position) \notin 0..(TagBase - 1)
                   => Step(octets, s) = Failed(s, "InvalidLabel")
<1>1. TagBase \in Nat \ {0}
  BY DecodeAssumption
<1>2. CASE ~Has(octets, s.position)
  BY <1>2 DEF Step
<1>3. CASE Has(octets, s.position)
  <2>1. At(octets, s.position) \in Nat
    BY <1>3, Octets
  <2>2. IsPointer(octets, s.position) => At(octets, s.position) \notin 0..(TagBase - 1)
    BY <1>3, PointerTag
  <2> QED
    BY <1>1, <1>3, <2>1, <2>2 DEF Step
<1> QED
  BY <1>2, <1>3

(* The loop, in state s, is where the walk is after n steps: it has the     *)
(* labels, has checked the pointers and knows where they lead.              *)
Tracks(octets, path, n, s) ==
    LET pointers == PointersOf(octets, path, n)
    IN /\ s \in Decoding
       /\ s.position = path[n]
       /\ s.labels = LabelsOf(octets, path, n)
       /\ s.expanded = NameLength(LabelsOf(octets, path, n))
       /\ Len(s.visited) = Len(pointers)
       /\ \A j \in 1..Len(pointers) :
            /\ s.visited[j] = Target(octets, pointers[j])
            /\ Target(octets, pointers[j]) \in HeaderLength..(pointers[j] - 1)
            /\ \E i \in 1..n : path[i] = s.visited[j]
       /\ pointers # <<>> => s.cursor = pointers[1] + 2
       /\ n < s.expanded + Len(s.visited)

(* What a loop that is on the walk is made of. *)
LEMMA TracksTypes ==
    ASSUME NEW octets \in Wires, NEW path, IsWalk(octets, path), NEW n \in Nat, NEW s,
           Tracks(octets, path, n, s)
    PROVE  /\ s \in DecodeState /\ s \in Decoding /\ s.error = Running
           /\ s.position = path[n] /\ path[n] \in Nat /\ path[n] # Nowhere
           /\ s.visited \in Seq(Nat) /\ Len(s.visited) \in Nat
           /\ s.expanded \in Nat /\ s.cursor \in Nat /\ s.labels \in Seq(Seq(Nat))
           /\ PointersOf(octets, path, n) \in Seq(Nat)
<1>1. s \in Decoding /\ s.position = path[n]
  BY DEF Tracks
<1>2. s \in DecodeState /\ s.error = Running
  BY <1>1 DEF Decoding
<1>3. s.position \in Nat /\ s.visited \in Seq(Nat) /\ s.expanded \in Nat /\ s.cursor \in Nat
      /\ s.labels \in Seq(Seq(Nat))
  BY <1>2 DEF DecodeState
<1>4. Len(s.visited) \in Nat
  BY <1>3
<1>5. path[n] # Nowhere
  BY <1>1, <1>3 DEF Nowhere
<1>6. PointersOf(octets, path, n) \in Seq(Nat)
  BY <1>5, PointersGrow
<1> QED
  BY <1>1, <1>2, <1>3, <1>4, <1>5, <1>6

(* A pointer is followed. *)
LEMMA PointerTracks ==
    ASSUME NEW octets \in Wires, NEW path, IsWalk(octets, path), NEW n \in Nat, NEW s,
           Tracks(octets, path, n, s), IsPointer(octets, path[n]), Has(octets, path[n]),
           Has(octets, path[n] + 1),
           ~Contains(s.visited, Target(octets, path[n])),
           Target(octets, path[n]) \in HeaderLength..(path[n] - 1),
           Len(s.visited) # MaxPointers
    PROVE  Step(octets, s).error = Running /\ Tracks(octets, path, n + 1, Step(octets, s))
<1>1. /\ s \in DecodeState /\ s \in Decoding /\ s.error = Running
      /\ s.position = path[n] /\ path[n] \in Nat /\ path[n] # Nowhere
      /\ s.visited \in Seq(Nat) /\ Len(s.visited) \in Nat
      /\ s.expanded \in Nat /\ s.cursor \in Nat /\ s.labels \in Seq(Seq(Nat))
      /\ PointersOf(octets, path, n) \in Seq(Nat)
  BY TracksTypes
<1>2. Step(octets, s) = Follow(octets, s)
  <2>1. Step(octets, s) = Pointer(octets, s)
    BY <1>1, StepIs
  <2> QED
    BY <1>1, <2>1 DEF Pointer
<1>3. PICK a \in Nat : a = Target(octets, path[n])
  BY <1>1, TargetType
<1>4. PICK t : t = Step(octets, s)
  OBVIOUS
<1>5. /\ t.error = Running /\ t.position = a /\ t.visited = Append(s.visited, a)
      /\ t.expanded = s.expanded /\ t.labels = s.labels
      /\ t.cursor = IF s.visited = <<>> THEN s.position + 2 ELSE s.cursor
  BY <1>1, <1>2, <1>3, <1>4 DEF Follow, DecodeState
<1>6. t \in Decoding
  <2>1. t \notin Decoded
    BY <1>5 DEF Decoded
  <2> QED
    BY <1>1, <1>4, <2>1, StepDecreases
<1>7. path[n + 1] = a
  <2>1. path[n + 1] = Successor(octets, path[n])
    BY WalkStep
  <2>2. Successor(octets, path[n]) = Target(octets, path[n])
    BY <1>1, SuccessorOfPointer
  <2> QED
    BY <1>3, <2>1, <2>2
<1>8. path[n + 1] # Nowhere
  BY <1>7 DEF Nowhere
<1>9. LabelsOf(octets, path, n + 1) = LabelsOf(octets, path, n)
  BY <1>8, LabelsGrow
<1>10. PICK p \in Seq(Nat) : p = PointersOf(octets, path, n)
  BY <1>1
<1>11. PICK q : q = PointersOf(octets, path, n + 1)
  OBVIOUS
<1>12. q = Append(p, path[n])
  BY <1>1, <1>10, <1>11, PointersGrow
<1>13. /\ Len(p) \in Nat /\ Len(q) = Len(p) + 1 /\ q[Len(p) + 1] = path[n]
       /\ \A j \in 1..Len(p) : q[j] = p[j]
  BY <1>1, <1>12
<1>14. /\ Len(s.visited) = Len(p)
       /\ \A j \in 1..Len(p) :
            /\ s.visited[j] = Target(octets, p[j])
            /\ Target(octets, p[j]) \in HeaderLength..(p[j] - 1)
            /\ \E i \in 1..n : path[i] = s.visited[j]
       /\ p # <<>> => s.cursor = p[1] + 2
       /\ n < s.expanded + Len(s.visited)
  BY <1>10 DEF Tracks
<1>15. /\ Len(t.visited) = Len(p) + 1 /\ t.visited[Len(p) + 1] = a
       /\ \A j \in 1..Len(p) : t.visited[j] = s.visited[j]
  BY <1>1, <1>5, <1>14
<1>16. ASSUME NEW j \in 1..Len(q)
       PROVE  /\ t.visited[j] = Target(octets, q[j])
              /\ Target(octets, q[j]) \in HeaderLength..(q[j] - 1)
              /\ \E i \in 1..(n + 1) : path[i] = t.visited[j]
  <2>1. CASE j = Len(p) + 1
    <3>1. t.visited[j] = a /\ q[j] = path[n]
      BY <1>13, <1>15, <2>1
    <3>2. n + 1 \in 1..(n + 1)
      OBVIOUS
    <3> QED
      BY <1>3, <1>7, <3>1, <3>2
  <2>2. CASE j # Len(p) + 1
    <3>1. j \in 1..Len(p)
      BY <1>13, <2>2
    <3>2. PICK i \in 1..n : path[i] = s.visited[j]
      BY <1>14, <3>1
    <3>3. i \in 1..(n + 1)
      OBVIOUS
    <3> QED
      BY <1>13, <1>14, <1>15, <3>1, <3>2, <3>3
  <2> QED
    BY <2>1, <2>2
<1>17. q # <<>> => t.cursor = q[1] + 2
  <2>1. CASE p = <<>>
    <3>1. s.visited = <<>> /\ q[1] = path[n]
      BY <1>1, <1>13, <1>14, <2>1
    <3> QED
      BY <1>1, <1>5, <3>1
  <2>2. CASE p # <<>>
    <3>1. s.visited # <<>> /\ q[1] = p[1]
      BY <1>1, <1>13, <1>14, <2>2
    <3> QED
      BY <1>5, <1>14, <2>2, <3>1
  <2> QED
    BY <2>1, <2>2
<1>18. n + 1 < t.expanded + Len(t.visited)
  BY <1>1, <1>5, <1>13, <1>14, <1>15
<1>19. t.labels = LabelsOf(octets, path, n + 1)
       /\ t.expanded = NameLength(LabelsOf(octets, path, n + 1))
  BY <1>5, <1>9 DEF Tracks
<1>20. Tracks(octets, path, n + 1, t)
  BY <1>5, <1>6, <1>7, <1>11, <1>13, <1>15, <1>16, <1>17, <1>18, <1>19 DEF Tracks
<1> QED
  BY <1>4, <1>5, <1>20

(* A label is read. *)
LEMMA LabelTracks ==
    ASSUME NEW octets \in Wires, NEW path, IsWalk(octets, path), NEW n \in Nat, NEW s,
           Tracks(octets, path, n, s), ~IsPointer(octets, path[n]), Has(octets, path[n]),
           At(octets, path[n]) \in 1..(TagBase - 1),
           Has(octets, path[n] + At(octets, path[n])),
           ~(s.expanded + At(octets, path[n]) + 1 > MaxNameLength)
    PROVE  Step(octets, s).error = Running /\ Tracks(octets, path, n + 1, Step(octets, s))
<1>1. /\ s \in DecodeState /\ s \in Decoding /\ s.error = Running
      /\ s.position = path[n] /\ path[n] \in Nat /\ path[n] # Nowhere
      /\ s.visited \in Seq(Nat) /\ Len(s.visited) \in Nat
      /\ s.expanded \in Nat /\ s.cursor \in Nat /\ s.labels \in Seq(Seq(Nat))
      /\ PointersOf(octets, path, n) \in Seq(Nat)
  BY TracksTypes
<1>2. PICK a \in Nat : a = At(octets, path[n])
  BY <1>1, Octets
<1>3. PICK t : t = Step(octets, s)
  OBVIOUS
<1>4. t = Label(octets, s)
  BY <1>1, <1>3, StepIs
<1>5. t = [s EXCEPT !.expanded = s.expanded + a + 1, !.position = s.position + a + 1,
                    !.labels = Append(s.labels, SubSeq(octets, s.position + 2, s.position + a + 1))]
  BY <1>1, <1>2, <1>4 DEF Label
<1>6. /\ t.error = Running /\ t.position = path[n] + a + 1 /\ t.visited = s.visited
      /\ t.expanded = s.expanded + a + 1 /\ t.cursor = s.cursor
      /\ t.labels = Append(s.labels, SubSeq(octets, path[n] + 2, path[n] + a + 1))
  BY <1>1, <1>5 DEF DecodeState
<1>7. t \in Decoding
  <2>1. t \notin Decoded
    BY <1>6 DEF Decoded
  <2> QED
    BY <1>1, <1>3, <2>1, StepDecreases
<1>8. path[n + 1] = path[n] + a + 1
  <2>1. path[n + 1] = Successor(octets, path[n])
    BY WalkStep
  <2>2. Successor(octets, path[n]) = path[n] + At(octets, path[n]) + 1
    BY <1>1, SuccessorOfLabel
  <2> QED
    BY <1>2, <2>1, <2>2
<1>9. path[n + 1] # Nowhere
  BY <1>1, <1>8 DEF Nowhere
<1>10. PointersOf(octets, path, n + 1) = PointersOf(octets, path, n)
  BY <1>1, PointersGrow
<1>11. t.labels = LabelsOf(octets, path, n + 1)
  <2>1. LabelsOf(octets, path, n + 1) = Append(LabelsOf(octets, path, n), TextAt(octets, path[n]))
    BY <1>9, LabelsGrow
  <2>2. TextAt(octets, path[n]) = SubSeq(octets, path[n] + 2, path[n] + a + 1)
    BY <1>2 DEF TextAt
  <2>3. s.labels = LabelsOf(octets, path, n)
    BY DEF Tracks
  <2> QED
    BY <1>6, <2>1, <2>2, <2>3
<1>12. t.expanded = NameLength(LabelsOf(octets, path, n + 1))
  <2>1. s.expanded = NameLength(LabelsOf(octets, path, n))
    BY DEF Tracks
  <2> QED
    BY <1>2, <1>6, <1>9, <2>1, LengthGrows
<1>13. PICK p \in Seq(Nat) : p = PointersOf(octets, path, n)
  BY <1>1
<1>14. /\ Len(s.visited) = Len(p)
       /\ \A j \in 1..Len(p) :
            /\ s.visited[j] = Target(octets, p[j])
            /\ Target(octets, p[j]) \in HeaderLength..(p[j] - 1)
            /\ \E i \in 1..n : path[i] = s.visited[j]
       /\ p # <<>> => s.cursor = p[1] + 2
       /\ n < s.expanded + Len(s.visited)
  BY <1>13 DEF Tracks
<1>15. \A j \in 1..Len(p) : \E i \in 1..(n + 1) : path[i] = t.visited[j]
  <2> TAKE j \in 1..Len(p)
  <2>1. PICK i \in 1..n : path[i] = s.visited[j]
    BY <1>14
  <2>2. i \in 1..(n + 1)
    OBVIOUS
  <2> QED
    BY <1>6, <2>1, <2>2
<1>16. n + 1 < t.expanded + Len(t.visited)
  BY <1>1, <1>6, <1>14
<1>17. Tracks(octets, path, n + 1, t)
  BY <1>6, <1>7, <1>8, <1>10, <1>11, <1>12, <1>13, <1>14, <1>15, <1>16 DEF Tracks
<1> QED
  BY <1>3, <1>6, <1>17

(* The loop starts where the walk does. *)
LEMMA FirstTracks ==
    ASSUME NEW octets \in Wires, NEW path, NEW start \in Nat, path[0] = start
    PROVE  Tracks(octets, path, 0, First(start))
<1>1. First(start) \in Decoding
  BY FirstDecoding
<1>2. PointersOf(octets, path, 0) = <<>> /\ LabelsOf(octets, path, 0) = <<>> /\ NameLength(<<>>) = 1
  BY AtTheStart
<1>3. Len(<<>>) = 0
  OBVIOUS
<1> QED
  BY <1>1, <1>2, <1>3 DEF Tracks, First

(* Why a walk may not be followed any further. *)
Blocked(octets, path, n) ==
    \/ path[n + 1] = Nowhere
    \/ /\ IsPointer(octets, path[n])
       /\ \/ Target(octets, path[n]) \notin HeaderLength..(path[n] - 1)
          \/ Len(PointersOf(octets, path, n)) = MaxPointers
    \/ /\ ~IsPointer(octets, path[n])
       /\ NameLength(LabelsOf(octets, path, n)) + At(octets, path[n]) + 1 > MaxNameLength

(* What decode then reports. *)
Refusals == {"UnexpectedEnd", "InvalidLabel", "NameTooLong", "InvalidPointer", "CompressionDepth"}

(* The pointer at the n-th offset leads back to where the loop was. *)
Circular(octets, path, n, s) ==
    /\ Has(octets, path[n]) /\ IsPointer(octets, path[n]) /\ Has(octets, path[n] + 1)
    /\ Contains(s.visited, Target(octets, path[n]))

(* A step of the loop: with the walk, at its end, in a circle, or refused. *)
LEMMA StepKinds ==
    ASSUME NEW octets \in Wires, NEW path, IsWalk(octets, path), NEW n \in Nat, NEW s,
           Tracks(octets, path, n, s)
    PROVE  \/ Step(octets, s).error = Running /\ Tracks(octets, path, n + 1, Step(octets, s))
           \/ Step(octets, s) = Root(s) /\ IsEnd(octets, path[n])
           \/ Step(octets, s) = Failed(s, "CompressionLoop") /\ Circular(octets, path, n, s)
           \/ Blocked(octets, path, n) /\ \E e \in Refusals : Step(octets, s) = Failed(s, e)
<1>1. s.position = path[n] /\ path[n] \in Nat /\ path[n] # Nowhere
  BY TracksTypes
<1>2. path[n + 1] = Successor(octets, path[n])
  BY WalkStep
<1>3. Len(s.visited) = Len(PointersOf(octets, path, n))
      /\ s.expanded = NameLength(LabelsOf(octets, path, n))
  BY DEF Tracks
<1>4. CASE ~Has(octets, path[n])
  <2>1. path[n + 1] = Nowhere
    BY <1>2, <1>4 DEF Successor
  <2>2. Step(octets, s) = Failed(s, "UnexpectedEnd")
    BY <1>1, <1>4, StepIs
  <2> QED
    BY <2>1, <2>2 DEF Blocked, Refusals
<1>5. CASE Has(octets, path[n]) /\ IsPointer(octets, path[n])
  <2>1. Step(octets, s) = Pointer(octets, s)
    BY <1>1, <1>5, StepIs
  <2>2. CASE ~Has(octets, path[n] + 1)
    <3>1. path[n + 1] = Nowhere
      BY <1>2, <1>5, <2>2 DEF Successor
    <3>2. Step(octets, s) = Failed(s, "UnexpectedEnd")
      BY <1>1, <2>1, <2>2 DEF Pointer
    <3> QED
      BY <3>1, <3>2 DEF Blocked, Refusals
  <2>3. CASE Has(octets, path[n] + 1) /\ Contains(s.visited, Target(octets, path[n]))
    BY <1>1, <1>5, <2>1, <2>3 DEF Pointer, Circular
  <2>4. CASE /\ Has(octets, path[n] + 1) /\ ~Contains(s.visited, Target(octets, path[n]))
             /\ Target(octets, path[n]) \notin HeaderLength..(path[n] - 1)
    <3>1. Step(octets, s) = Failed(s, "InvalidPointer")
      BY <1>1, <2>1, <2>4 DEF Pointer
    <3> QED
      BY <1>5, <2>4, <3>1 DEF Blocked, Refusals
  <2>5. CASE /\ Has(octets, path[n] + 1) /\ ~Contains(s.visited, Target(octets, path[n]))
             /\ Target(octets, path[n]) \in HeaderLength..(path[n] - 1)
             /\ Len(s.visited) = MaxPointers
    <3>1. Step(octets, s) = Failed(s, "CompressionDepth")
      BY <1>1, <2>1, <2>5 DEF Pointer
    <3> QED
      BY <1>3, <1>5, <2>5, <3>1 DEF Blocked, Refusals
  <2>6. CASE /\ Has(octets, path[n] + 1) /\ ~Contains(s.visited, Target(octets, path[n]))
             /\ Target(octets, path[n]) \in HeaderLength..(path[n] - 1)
             /\ Len(s.visited) # MaxPointers
    BY <1>5, <2>6, PointerTracks
  <2> QED
    BY <2>2, <2>3, <2>4, <2>5, <2>6
<1>6. CASE Has(octets, path[n]) /\ ~IsPointer(octets, path[n])
  <2>1. PICK a \in Nat : a = At(octets, path[n])
    BY <1>1, <1>6, Octets
  <2>2. CASE a = 0
    BY <1>1, <1>6, <2>1, <2>2, StepIs DEF IsEnd
  <2>3. CASE a \notin 0..(TagBase - 1)
    <3>1. path[n + 1] = Nowhere
      <4>1. a \notin 1..(TagBase - 1)
        BY <2>3, DecodeAssumption
      <4> QED
        BY <1>2, <1>6, <2>1, <4>1 DEF Successor
    <3>2. Step(octets, s) = Failed(s, "InvalidLabel")
      BY <1>1, <1>6, <2>1, <2>3, StepIs
    <3> QED
      BY <3>1, <3>2 DEF Blocked, Refusals
  <2>4. CASE a \in 1..(TagBase - 1)
    <3>1. Step(octets, s) = Label(octets, s)
      BY <1>1, <1>6, <2>1, <2>4, StepIs
    <3>2. CASE s.expanded + a + 1 > MaxNameLength
      <4>1. Step(octets, s) = Failed(s, "NameTooLong")
        BY <1>1, <2>1, <3>1, <3>2 DEF Label
      <4> QED
        BY <1>3, <1>6, <2>1, <3>2, <4>1 DEF Blocked, Refusals
    <3>3. CASE ~(s.expanded + a + 1 > MaxNameLength) /\ ~Has(octets, path[n] + a)
      <4>1. Step(octets, s) = Failed(s, "UnexpectedEnd")
        BY <1>1, <2>1, <3>1, <3>3 DEF Label
      <4>2. path[n + 1] = Nowhere
        BY <1>2, <1>6, <2>1, <3>3 DEF Successor
      <4> QED
        BY <4>1, <4>2 DEF Blocked, Refusals
    <3>4. CASE ~(s.expanded + a + 1 > MaxNameLength) /\ Has(octets, path[n] + a)
      BY <1>6, <2>1, <2>4, <3>4, LabelTracks
    <3> QED
      BY <3>2, <3>3, <3>4
  <2>5. a = 0 \/ a \in 1..(TagBase - 1) \/ a \notin 0..(TagBase - 1)
    BY DecodeAssumption
  <2> QED
    BY <2>2, <2>3, <2>4, <2>5
<1> QED
  BY <1>4, <1>5, <1>6

(* decode follows the walk to some point, and ends there. *)
LEMMA DecodeRun ==
    ASSUME NEW octets \in Wires, NEW start \in Nat, NEW path, IsWalk(octets, path), path[0] = start
    PROVE  \E n \in Nat : \E s : /\ Tracks(octets, path, n, s)
                                 /\ Decode(octets, start) = Step(octets, s)
                                 /\ Step(octets, s).error # Running
<1>1. PICK loop : IsLoop(octets, loop) /\ Decode(octets, start) = loop[First(start)]
  BY DecodeLoop
<1> DEFINE d == Decode(octets, start)
           Left == {n \in Nat : ~ \E s : Tracks(octets, path, n, s) /\ loop[s] = d}
<1>2. Left # {}
  <2> DEFINE m == MaxNameLength + MaxPointers
  <2>1. m \in Nat
    BY DecodeAssumption
  <2>2. ASSUME NEW s, Tracks(octets, path, m, s) PROVE FALSE
    <3>1. s \in Decoding /\ m < s.expanded + Len(s.visited)
      BY <2>2 DEF Tracks
    <3>2. s.expanded \in 1..MaxNameLength /\ Len(s.visited) <= MaxPointers /\ Len(s.visited) \in Nat
      BY <3>1 DEF Decoding, DecodeState
    <3>3. MaxNameLength \in Nat /\ MaxPointers \in Nat
      BY DecodeAssumption
    <3> QED
      BY <3>1, <3>2, <3>3
  <2> HIDE DEF m
  <2>3. m \in Left
    BY <2>1, <2>2
  <2> QED
    BY <2>3
<1>3. PICK n \in Left : \A k \in Left : n <= k
  <2>1. Left \subseteq Nat
    OBVIOUS
  <2> HIDE DEF Left
  <2> QED
    BY <1>2, <2>1, LeastNatural
<1>4. n \in Nat /\ ~ \E s : Tracks(octets, path, n, s) /\ loop[s] = d
  OBVIOUS
<1>5. n # 0
  <2>1. Tracks(octets, path, 0, First(start))
    BY FirstTracks
  <2> QED
    BY <1>1, <1>4, <2>1
<1>6. PICK j \in Nat : j + 1 = n
  <2>1. n - 1 \in Nat /\ (n - 1) + 1 = n
    BY <1>4, <1>5
  <2> QED
    BY <2>1
<1>7. j \notin Left
  <2> HIDE DEF Left
  <2> QED
    BY <1>3, <1>4, <1>6
<1>8. PICK s : Tracks(octets, path, j, s) /\ loop[s] = d
  BY <1>7
<1> HIDE DEF d, Left
<1>9. s \in DecodeState /\ s.error = Running
  BY <1>8, TracksTypes
<1>10. Step(octets, s) \in DecodeState
  BY <1>9, StepTypes
<1>11. loop[s] = loop[Step(octets, s)]
  BY <1>1, <1>9 DEF IsLoop
<1>12. Step(octets, s).error # Running
  <2> SUFFICES ASSUME Step(octets, s).error = Running PROVE FALSE
    OBVIOUS
  <2>1. Tracks(octets, path, j + 1, Step(octets, s))
    <3>1. Root(s).error # Running
      BY <1>9 DEF Root, DecodeState, Running
    <3>2. \A e \in Refusals \cup {"CompressionLoop"} : Failed(s, e).error # Running
      BY <1>9 DEF Failed, DecodeState, Refusals, Running
    <3> QED
      BY <1>8, <3>1, <3>2, StepKinds
  <2> QED
    BY <1>4, <1>6, <1>8, <1>11, <2>1
<1>13. loop[Step(octets, s)] = Step(octets, s)
  BY <1>1, <1>10, <1>12 DEF IsLoop
<1>14. d = Step(octets, s)
  BY <1>8, <1>11, <1>13
<1> QED
  BY <1>8, <1>12, <1>14 DEF d

(* Nothing on the way to a legal end keeps decode from going on. *)
LEMMA LegalUnblocked ==
    ASSUME NEW octets \in Wires, NEW path, IsWalk(octets, path), NEW m \in Nat,
           LegalEnd(octets, path, m), NEW n \in Nat, n < m
    PROVE  ~Blocked(octets, path, n)
<1>1. path[m] # Nowhere
  BY DEF LegalEnd, IsEnd
<1>2. n + 1 \in Nat /\ n + 1 <= m /\ n <= m
  OBVIOUS
<1>3. path[n + 1] \in Nat /\ path[n] \in Nat
  BY <1>1, <1>2, WalkAlive
<1>4. path[n + 1] # Nowhere /\ path[n] # Nowhere
  BY <1>3 DEF Nowhere
<1>5. Grown(octets, path, n + 1, m)
  BY <1>1, <1>2, WalkGrows
<1>6. PICK p \in Seq(Nat) : p = PointersOf(octets, path, n)
  BY <1>4, PointersGrow
<1>7. PICK o \in Seq(Nat) : o = PointersOf(octets, path, m)
  BY <1>1, PointersGrow
<1>8. Len(o) <= MaxPointers /\ \A j \in 1..Len(o) : Target(octets, o[j]) \in HeaderLength..(o[j] - 1)
  BY <1>7 DEF LegalEnd
<1>9. ASSUME IsPointer(octets, path[n])
      PROVE  Target(octets, path[n]) \in HeaderLength..(path[n] - 1) /\ Len(p) # MaxPointers
  <2>1. PICK q : q = PointersOf(octets, path, n + 1)
    OBVIOUS
  <2>2. q = Append(p, path[n])
    BY <1>4, <1>6, <1>9, <2>1, PointersGrow
  <2>3. Len(p) \in Nat /\ Len(q) = Len(p) + 1 /\ q[Len(p) + 1] = path[n] /\ Len(p) + 1 \in 1..Len(q)
    BY <1>3, <2>2
  <2>4. Len(q) <= Len(o) /\ \A j \in 1..Len(q) : o[j] = q[j]
    BY <1>5, <1>7, <2>1 DEF Grown
  <2>5. o[Len(p) + 1] = path[n] /\ Len(p) + 1 \in 1..Len(o)
    BY <2>3, <2>4
  <2>6. Target(octets, path[n]) \in HeaderLength..(path[n] - 1)
    BY <1>8, <2>5
  <2>7. Len(p) # MaxPointers
    BY <1>8, <2>3, <2>4, DecodeAssumption
  <2> QED
    BY <2>6, <2>7
<1>10. ASSUME ~IsPointer(octets, path[n])
       PROVE  ~(NameLength(LabelsOf(octets, path, n)) + At(octets, path[n]) + 1 > MaxNameLength)
  <2>1. NameLength(LabelsOf(octets, path, n + 1)) =
          NameLength(LabelsOf(octets, path, n)) + At(octets, path[n]) + 1
    BY <1>4, <1>10, LengthGrows
  <2>2. PICK x \in Nat : x = NameLength(LabelsOf(octets, path, n + 1))
    BY <1>2, <1>4, LengthType
  <2>3. PICK y \in Nat : y = NameLength(LabelsOf(octets, path, m))
    BY <1>1, LengthType
  <2>4. x <= y /\ y <= MaxNameLength
    BY <1>5, <2>2, <2>3 DEF Grown, LegalEnd
  <2> QED
    BY <2>1, <2>2, <2>4, DecodeAssumption
<1> QED
  BY <1>4, <1>6, <1>9, <1>10 DEF Blocked

(* A pointer to where the loop was makes a walk without end. *)
LEMMA CircularEndless ==
    ASSUME NEW octets \in Wires, NEW path, IsWalk(octets, path), NEW n \in Nat, NEW s,
           Tracks(octets, path, n, s), Circular(octets, path, n, s), NEW k \in Nat
    PROVE  path[k] # Nowhere /\ ~IsEnd(octets, path[k])
<1>1. path[n] \in Nat
  BY TracksTypes
<1>2. PICK j \in 1..Len(s.visited) : s.visited[j] = Target(octets, path[n])
  BY DEF Circular, Contains
<1>3. PICK i \in 1..n : path[i] = s.visited[j]
  BY <1>2 DEF Tracks
<1>4. path[n + 1] = Target(octets, path[n])
  <2>1. path[n + 1] = Successor(octets, path[n])
    BY WalkStep
  <2>2. Successor(octets, path[n]) = Target(octets, path[n])
    BY <1>1, SuccessorOfPointer DEF Circular
  <2> QED
    BY <2>1, <2>2
<1>5. path[n + 1] # Nowhere
  <2>1. Target(octets, path[n]) \in Nat
    BY <1>1, TargetType DEF Circular
  <2> QED
    BY <1>4, <2>1 DEF Nowhere
<1>6. i \in Nat /\ n + 1 \in Nat /\ i < n + 1 /\ path[i] = path[n + 1]
  BY <1>2, <1>3, <1>4
<1> QED
  BY <1>5, <1>6, WalkReturns

(* DomainName::decode returns "none" exactly for the names that a walk over *)
(* labels and backward pointers spells within the limits, with the labels   *)
(* of that walk, its length and the cursor behind the name in place; and    *)
(* it reports a loop only where the walk never ends: for every message, at  *)
(* every offset, whatever MAX_NAME_LENGTH and MAX_POINTERS are.             *)
THEOREM DecodeFollowsWalk ==
    ASSUME NEW octets \in Wires, NEW start \in Nat
    PROVE  DecodesWell(octets, start)
<1>1. PICK path : path = Walk(octets, start) /\ IsWalk(octets, path) /\ path[0] = start
  BY WalkExists
<1>2. PICK d : d = Decode(octets, start)
  OBVIOUS
<1>3. PICK n \in Nat : \E s : Tracks(octets, path, n, s) /\ d = Step(octets, s) /\ d.error # Running
  BY <1>1, <1>2, DecodeRun
<1>4. PICK s : Tracks(octets, path, n, s) /\ d = Step(octets, s) /\ d.error # Running
  BY <1>3
<1>5. /\ s \in DecodeState /\ s \in Decoding /\ s.position = path[n] /\ path[n] \in Nat
      /\ path[n] # Nowhere /\ s.visited \in Seq(Nat) /\ PointersOf(octets, path, n) \in Seq(Nat)
  BY <1>1, <1>4, TracksTypes
<1>6. \/ d = Root(s) /\ IsEnd(octets, path[n])
      \/ d = Failed(s, "CompressionLoop") /\ Circular(octets, path, n, s)
      \/ Blocked(octets, path, n) /\ \E e \in Refusals : d = Failed(s, e)
  BY <1>1, <1>4, StepKinds
<1>7. \A e \in Refusals \cup {"CompressionLoop"} : Failed(s, e).error = e
  BY <1>5 DEF Failed, DecodeState
<1>8. /\ Root(s).error = "none" /\ Root(s).labels = s.labels /\ Root(s).expanded = s.expanded
      /\ Root(s).cursor = IF s.visited = <<>> THEN s.position + 1 ELSE s.cursor
  BY <1>5 DEF Root, DecodeState
<1>9. /\ d.error = "none" => d = Root(s) /\ IsEnd(octets, path[n])
      /\ d.error = "CompressionLoop" => Circular(octets, path, n, s)
  BY <1>6, <1>7, <1>8 DEF Refusals
<1>10. ASSUME NEW m \in Nat, LegalEnd(octets, path, m)
       PROVE  m = n /\ d = Root(s)
  <2>1. IsEnd(octets, path[m])
    BY <1>10 DEF LegalEnd
  <2>2. n <= m
    BY <1>1, <1>5, <2>1, WalkEndsOnce
  <2>3. ~Circular(octets, path, n, s)
    BY <1>1, <1>4, <2>1, CircularEndless
  <2>4. ~(n < m)
    <3> SUFFICES ASSUME n < m PROVE FALSE
      OBVIOUS
    <3>1. ~Blocked(octets, path, n)
      BY <1>1, <1>10, LegalUnblocked
    <3>2. IsEnd(octets, path[n])
      BY <1>6, <2>3, <3>1
    <3>3. path[m] # Nowhere
      BY <2>1 DEF IsEnd
    <3>4. m <= n
      BY <1>1, <3>2, <3>3, WalkEndsOnce
    <3> QED
      BY <3>4
  <2>5. m = n
    BY <2>2, <2>4
  <2>6. Step(octets, s) = Root(s)
    BY <1>5, <2>1, <2>5, StepIs DEF IsEnd
  <2> QED
    BY <1>4, <2>5, <2>6
<1>11. ASSUME d.error = "none"
       PROVE  n \in 0..Len(octets) /\ LegalEnd(octets, path, n)
  <2>1. IsEnd(octets, path[n])
    BY <1>9, <1>11
  <2>2. n < Len(octets) /\ Len(octets) \in Nat
    BY <1>1, <2>1, WalkShort, DecodeAssumption
  <2>3. Len(PointersOf(octets, path, n)) <= MaxPointers
        /\ NameLength(LabelsOf(octets, path, n)) <= MaxNameLength
    <3>1. s.expanded \in 1..MaxNameLength /\ Len(s.visited) <= MaxPointers
      BY <1>5 DEF Decoding
    <3>2. s.expanded = NameLength(LabelsOf(octets, path, n))
          /\ Len(s.visited) = Len(PointersOf(octets, path, n))
      BY <1>4 DEF Tracks
    <3>3. s.expanded <= MaxNameLength
      BY <3>1, DecodeAssumption
    <3> QED
      BY <3>1, <3>2, <3>3
  <2>4. PICK p \in Seq(Nat) : p = PointersOf(octets, path, n)
    BY <1>5
  <2>5. \A j \in DOMAIN p : Target(octets, p[j]) \in HeaderLength..(p[j] - 1)
    <3>1. \A j \in 1..Len(p) : Target(octets, p[j]) \in HeaderLength..(p[j] - 1)
      BY <1>4, <2>4 DEF Tracks
    <3> QED
      BY <3>1
  <2>6. LegalEnd(octets, path, n)
    BY <2>1, <2>3, <2>4, <2>5 DEF LegalEnd
  <2> QED
    BY <2>2, <2>6
<1>12. ASSUME LegalEnd(octets, path, n), d = Root(s)
       PROVE  /\ d.error = "none" /\ d.labels = LabelsOf(octets, path, n)
              /\ d.expanded = NameLength(d.labels)
              /\ d.cursor = IF PointersOf(octets, path, n) = <<>> THEN path[n] + 1
                            ELSE PointersOf(octets, path, n)[1] + 2
  <2>1. s.labels = LabelsOf(octets, path, n) /\ s.expanded = NameLength(LabelsOf(octets, path, n))
    BY <1>4 DEF Tracks
  <2>2. PICK p \in Seq(Nat) : p = PointersOf(octets, path, n)
    BY <1>5
  <2>3. Len(s.visited) = Len(p) /\ (p # <<>> => s.cursor = p[1] + 2)
    BY <1>4, <2>2 DEF Tracks
  <2>4. s.visited = <<>> <=> p = <<>>
    BY <1>5, <2>3
  <2>5. d.cursor = IF p = <<>> THEN path[n] + 1 ELSE p[1] + 2
    BY <1>5, <1>8, <1>12, <2>3, <2>4
  <2> QED
    BY <1>8, <1>12, <2>1, <2>2, <2>5
<1>13. ASSUME d.error = "CompressionLoop", NEW k \in 0..Len(octets)
       PROVE  path[k] # Nowhere /\ ~IsEnd(octets, path[k])
  <2>1. k \in Nat
    BY DecodeAssumption
  <2> QED
    BY <1>1, <1>4, <1>9, <1>13, <2>1, CircularEndless
<1> DEFINE legal == {m \in 0..Len(octets) : LegalEnd(octets, path, m)}
<1>14. \A m \in legal : m = n /\ LegalEnd(octets, path, n) /\ d = Root(s)
  <2> TAKE m \in legal
  <2>1. m \in Nat /\ LegalEnd(octets, path, m)
    BY DecodeAssumption
  <2> QED
    BY <1>10, <2>1
<1>15. d.error = "none" => n \in legal
  BY <1>11
<1> HIDE DEF legal
<1>16. d.error = "none" <=> legal # {}
  BY <1>8, <1>14, <1>15
<1>17. \A m \in legal :
         /\ d.labels = LabelsOf(octets, path, m)
         /\ d.expanded = NameLength(d.labels)
         /\ d.cursor = IF PointersOf(octets, path, m) = <<>> THEN path[m] + 1
                       ELSE PointersOf(octets, path, m)[1] + 2
  BY <1>12, <1>14
<1> QED
  BY <1>1, <1>2, <1>13, <1>16, <1>17 DEF DecodesWell, legal

-----------------------------------------------------------------------------
(* The inductive invariant *)

Names == {{}} \cup {{n} : n \in 1..MaxNameLength}
Opts == [size : PayloadSizes, version : {0, 1}, extended : {0, 1}]
Cookies == {{}, {Malformed}, {8}} \cup {{n} : n \in 16..LongestCookie}
Packets == [opcode : {"Query", "Other"}, questions : 0..2, name : Names,
            kind : {"A", "Meta", "Other"}, class : {"IN", "Other"}, other : BOOLEAN,
            edns : {{}} \cup {{opt} : opt \in Opts}, cookie : Cookies, authenticated : BOOLEAN]
Received == [code : {NoError, BadVersion, BadCookie}, edns : BOOLEAN,
             cookie : {{}, {LongestCookie}}, length : ResponseLengths]
Replies == [kind : {"local", "truncated", "relayed"}, meant : Nat, code : Nat,
            question : BOOLEAN, opt : BOOLEAN, cookie : {{}, {LongestCookie}},
            ra : BOOLEAN, length : Nat]
Faults == {"InvalidCount", "UnexpectedEnd", "InvalidLabel", "NameTooLong", "CompressionLoop",
           "InvalidPointer", "CompressionDepth", "InvalidEdns", "InvalidRecord", "TrailingData"}

TypeOK ==
    /\ stop \in BOOLEAN /\ forwards \in BOOLEAN /\ transport \in {"udp", "tcp"}
    /\ left \in 0..RequestTimeout
    /\ pc \in {"begin", "counts", "question", "records", "validate", "select", "forward",
               "relay", "finish", "done"}
    /\ header \in {"unread", "short", "response", "query"}
    /\ wire \in {<<>>} \cup Wires
    /\ packet \in Packets
    /\ section \in {"Answer", "Authority", "Additional"} /\ records \in 0..MaxRecords
    /\ fault \in {"none"} \cup Faults
    /\ response \subseteq Received
    /\ reply \subseteq Replies

(* The worker goes on only with a query, whose faults end the parsing at    *)
(* once, and has a message at hand while it decodes the question.           *)
Stages ==
    /\ pc \notin {"begin", "done"} => header = "query"
    /\ pc \notin {"finish", "done"} => fault = "none" /\ reply = {}
    /\ pc \in {"relay", "finish", "done"} \/ response = {}
    /\ pc = "relay" => response # {}
    /\ pc = "question" => wire \in Wires
    /\ response # {} => fault = "none"

(* What forward returned belongs to this query. *)
Solicited == \A r \in response : CorrespondsTo(r, packet) /\ ValidCookie(r, packet)

(* What is about to leave exists, and is not made up here for a client that *)
(* sent a server cookie.                                                    *)
Due ==
    pc = "finish" =>
        /\ reply # {}
        /\ fault = "none" /\ response = {} => packet.cookie \cap 16..LongestCookie = {}

Inv ==
    /\ TypeOK /\ Stages /\ Solicited /\ Due
    /\ AnswersEveryQuery /\ LocalReplySafe /\ CodeSurvives /\ ReplyFits
-----------------------------------------------------------------------------
(* Replies *)

(* A reply r to the packet p that is safe, readable and short enough, if    *)
(* parsing ended with f, the upstream's response is s and t the transport.  *)
Sound(r, p, f, s, t) ==
    /\ r \in Replies
    /\ r.kind = "local" =>
         /\ r.cookie = {}
         /\ r.question \/ r.opt => f \in {"none", "InvalidEdns"}
         /\ r.opt <=> p.edns # {} /\ f \in {"none", "InvalidEdns"}
    /\ r.kind = "truncated" => \E q \in s : r.cookie = q.cookie
    /\ r.code = r.meant
    /\ t = "udp" => \/ r.length <= ClassicUdp
                    \/ \E opt \in p.edns : r.length <= opt.size /\ r.length <= ServerUdp

(* The value of an Option. *)
LEMMA TheOnly ==
    ASSUME NEW x
    PROVE  The({x}) = x
BY DEF The

(* What make_reply makes. *)
Made(r, kind, name, code, opt, cookie) ==
    /\ r \in Replies /\ r.kind = kind /\ r.code = code /\ r.meant = code
    /\ r.question <=> name # {}
    /\ r.opt = opt
    /\ r.cookie = IF opt THEN cookie ELSE {}
    /\ r.length <= ClassicUdp

(* make_reply: the code is readable with OPT or below 16, and whatever else *)
(* is in the reply, it fits in a classic datagram.                          *)
LEMMA MadeReply ==
    ASSUME NEW kind \in {"local", "truncated"}, NEW name \in Names, NEW code \in Nat,
           NEW opt \in BOOLEAN, NEW cookie \in {{}, {LongestCookie}}, NEW answer \in BOOLEAN,
           opt = TRUE \/ code < 16, answer = FALSE \/ cookie = {},
           NEW r, r = MakeReply(kind, name, code, opt, cookie, answer)
    PROVE  Made(r, kind, name, code, opt, cookie)
<1> DEFINE q == QuestionLength(name)
           a == IF answer THEN AnswerLength ELSE 0
           c == IF cookie = {} THEN 0 ELSE OptionHeader + The(cookie)
           o == IF ~opt THEN 0 ELSE OptLength + c
           l == HeaderLength + q + a + o
           k == IF opt THEN code ELSE code % 16
           d == IF opt THEN cookie ELSE {}
<1>1. q \in 0..(MaxNameLength + QuestionFixed)
  <2>1. CASE name = {}
    BY <2>1, DecodeAssumption DEF QuestionLength, QuestionFixed
  <2>2. CASE name # {}
    <3>1. PICK n \in 1..MaxNameLength : name = {n}
      BY <2>2 DEF Names
    <3>2. q = n + QuestionFixed
      BY <2>2, <3>1, TheOnly DEF QuestionLength
    <3> QED
      BY <3>2, DecodeAssumption DEF QuestionFixed
  <2> QED
    BY <2>1, <2>2
<1>2. c = 0 \/ (c = OptionHeader + LongestCookie /\ cookie = {LongestCookie})
  BY TheOnly
<1>3. (a = 0 \/ (a = AnswerLength /\ c = 0)) /\ c \in Nat /\ a \in Nat
  <2>1. a = 0 \/ (a = AnswerLength /\ cookie = {})
    <3>1. CASE answer = FALSE
      BY <3>1
    <3>2. CASE answer = TRUE
      BY <3>2
    <3> QED
      BY <3>1, <3>2
  <2>2. cookie = {} => c = 0
    OBVIOUS
  <2> HIDE DEF c, a
  <2> QED
    BY <1>2, <2>1, <2>2 DEF AnswerLength, OptionHeader, LongestCookie
<1> HIDE DEF q, c, a
<1>4. (o = 0 \/ o = OptLength + c) /\ o \in Nat
  BY <1>3 DEF OptLength
<1> HIDE DEF o
<1>5. l \in Nat /\ l <= ClassicUdp
  BY <1>1, <1>2, <1>3, <1>4, MessageAssumption, DecodeAssumption
     DEF AnswerLength, OptionHeader, LongestCookie, OptLength, QuestionFixed
<1>6. k = code
  BY SMT
<1>7. r = [kind |-> kind, meant |-> code, code |-> k, question |-> name # {}, opt |-> opt,
           cookie |-> d, ra |-> TRUE, length |-> l]
  BY DEF MakeReply, q, a, o, c
<1>8. d \in {{}, {LongestCookie}}
  OBVIOUS
<1> HIDE DEF l, k, d
<1>9. r \in Replies
  BY <1>5, <1>6, <1>7, <1>8 DEF Replies
<1>10. r.kind = kind /\ r.meant = code /\ r.code = k /\ r.opt = opt /\ r.cookie = d
          /\ r.length = l
  BY <1>7
<1>11. r.question <=> name # {}
  <2>1. PICK b \in BOOLEAN : b = (name # {})
    OBVIOUS
  <2>2. r = [kind |-> kind, meant |-> code, code |-> k, question |-> b, opt |-> opt,
             cookie |-> d, ra |-> TRUE, length |-> l]
    BY <1>7, <2>1
  <2>3. r.question = b
    BY <2>2
  <2> QED
    BY <2>1, <2>3
<1> QED
  BY <1>5, <1>6, <1>9, <1>10, <1>11 DEF Made, d

(* make_reply without an answer. *)
LEMMA PlainReply ==
    ASSUME NEW kind \in {"local", "truncated"}, NEW name \in Names, NEW code \in Nat,
           NEW opt \in BOOLEAN, NEW cookie \in {{}, {LongestCookie}}, opt = TRUE \/ code < 16,
           NEW r, r = MakeReply(kind, name, code, opt, cookie, FALSE)
    PROVE  Made(r, kind, name, code, opt, cookie)
<1>1. PICK answer \in BOOLEAN : answer = FALSE
  OBVIOUS
<1>2. r = MakeReply(kind, name, code, opt, cookie, answer)
  BY <1>1
<1> QED
  BY <1>1, <1>2, MadeReply

(* local_error_reply: BADVERS only for a query with OPT. *)
LEMMA ErrorSound ==
    ASSUME NEW p \in Packets, NEW code \in Nat, code < 16 \/ p.edns # {}, NEW s, NEW t
    PROVE  Sound(ErrorReply(p, code), p, "none", s, t)
<1>1. p.name \in Names
  BY DEF Packets
<1>2. PICK o \in BOOLEAN : o = (p.edns # {})
  OBVIOUS
<1>3. PICK r : r = MakeReply("local", p.name, code, o, {}, FALSE)
  OBVIOUS
<1>4. Made(r, "local", p.name, code, o, {})
  <2>1. o = TRUE \/ code < 16
    BY <1>2
  <2> QED
    BY <1>1, <1>3, <2>1, PlainReply
<1>5. Sound(r, p, "none", s, t)
  BY <1>2, <1>4 DEF Sound, Made
<1> QED
  BY <1>2, <1>3, <1>5 DEF ErrorReply

(* local_a_reply *)
LEMMA LocalASound ==
    ASSUME NEW p \in Packets, NEW s, NEW t
    PROVE  Sound(LocalAReply(p), p, "none", s, t)
<1>1. p.name \in Names
  BY DEF Packets
<1>2. PICK o \in BOOLEAN : o = (p.edns # {})
  OBVIOUS
<1>3. PICK a \in BOOLEAN : a = (p.class = "IN" /\ p.kind = "A")
  OBVIOUS
<1>4. PICK code \in Nat : code < 16 /\ code = IF p.class = "IN" THEN NoError ELSE Refused
  BY DEF NoError, Refused
<1>5. PICK r : r = MakeReply("local", p.name, code, o, {}, a)
  OBVIOUS
<1>6. Made(r, "local", p.name, code, o, {})
  BY <1>1, <1>4, <1>5, MadeReply
<1>7. Sound(r, p, "none", s, t)
  BY <1>2, <1>6 DEF Sound, Made
<1> QED
  BY <1>2, <1>3, <1>4, <1>5, <1>7 DEF LocalAReply

(* format_error_reply: question and OPT only after a fault over OPT. *)
LEMMA FormatSound ==
    ASSUME NEW p \in Packets, NEW e \in Faults, NEW s, NEW t, NEW r,
           r = IF e = "InvalidEdns" THEN FormatReply(p.name, p.edns) ELSE FormatReply({}, {})
    PROVE  Sound(r, p, e, s, t)
<1>1. p.name \in Names /\ {} \in Names /\ FormatError \in Nat /\ FormatError < 16
  BY DEF Packets, Names, FormatError
<1>2. CASE e = "InvalidEdns" /\ p.edns # {}
  <2>1. PICK o \in BOOLEAN : o = TRUE
    OBVIOUS
  <2>2. r = MakeReply("local", p.name, FormatError, o, {}, FALSE)
    BY <1>2, <2>1 DEF FormatReply
  <2>3. Made(r, "local", p.name, FormatError, o, {})
    BY <1>1, <2>2, PlainReply
  <2> QED
    BY <1>2, <2>1, <2>3 DEF Sound, Made
<1>3. CASE ~(e = "InvalidEdns" /\ p.edns # {})
  <2>1. PICK o \in BOOLEAN : o = FALSE
    OBVIOUS
  <2>2. r = MakeReply("local", {}, FormatError, o, {}, FALSE)
    BY <1>3, <2>1 DEF FormatReply
  <2>3. Made(r, "local", {}, FormatError, o, {})
    BY <1>1, <2>2, PlainReply
  <2>4. e # "none"
    BY DEF Faults
  <2> QED
    BY <1>3, <2>1, <2>3, <2>4 DEF Sound, Made
<1> QED
  BY <1>2, <1>3

(* truncated_reply keeps code and cookie of the response: the response has  *)
(* an extended code or a cookie only if it, and thus the query, has OPT.    *)
LEMMA TruncatedSound ==
    ASSUME NEW p \in Packets, NEW q \in Received, CorrespondsTo(q, p), ValidCookie(q, p),
           NEW s, q \in s, NEW t
    PROVE  Sound(TruncatedReply(p, q), p, "none", s, t)
<1>1. p.name \in Names
  BY DEF Packets
<1>2. q.code \in Nat /\ q.cookie \in {{}, {LongestCookie}}
  BY DEF Received, NoError, BadVersion, BadCookie
<1>3. PICK o \in BOOLEAN : o = (p.edns # {})
  OBVIOUS
<1>4. (o = TRUE \/ q.code < 16) /\ (q.cookie # {} => o = TRUE)
  <2>1. q.code > 15 \/ q.cookie # {} => p.edns # {}
    BY DEF CorrespondsTo, ValidCookie
  <2>2. q.code < 16 \/ q.code > 15
    BY <1>2
  <2> QED
    BY <1>3, <2>1, <2>2
<1>5. PICK r : r = MakeReply("truncated", p.name, q.code, o, q.cookie, FALSE)
  OBVIOUS
<1>6. Made(r, "truncated", p.name, q.code, o, q.cookie)
  BY <1>1, <1>2, <1>4, <1>5, PlainReply
<1>7. Sound(r, p, "none", s, t)
  BY <1>4, <1>6 DEF Sound, Made
<1> QED
  BY <1>3, <1>5, <1>7 DEF TruncatedReply

(* udp_limit: 512 octets, or what client and service both support. *)
LEMMA LimitHolds ==
    ASSUME NEW p \in Packets, NEW n \in Nat, n <= UdpLimit(p.edns)
    PROVE  \/ n <= ClassicUdp
           \/ \E opt \in p.edns : n <= opt.size /\ n <= ServerUdp
<1>1. CASE p.edns = {}
  BY <1>1 DEF UdpLimit
<1>2. CASE p.edns # {}
  <2>1. PICK opt \in Opts : p.edns = {opt}
    BY <1>2 DEF Packets
  <2>2. The(p.edns) = opt
    BY <2>1, TheOnly
  <2>3. opt.size \in Nat
    BY HandlerAssumption DEF Opts
  <2>4. UdpLimit(p.edns) = IF opt.size < ClassicUdp THEN ClassicUdp
                           ELSE IF opt.size > ServerUdp THEN ServerUdp ELSE opt.size
    BY <1>2, <2>2 DEF UdpLimit
  <2> QED
    BY <2>1, <2>3, <2>4, MessageAssumption
<1> QED
  BY <1>1, <1>2

(* A response that is relayed as it is. *)
LEMMA RelayedSound ==
    ASSUME NEW p \in Packets, NEW q \in Received, NEW s, NEW t,
           t = "tcp" \/ q.length <= UdpLimit(p.edns)
    PROVE  Sound(Relayed(q), p, "none", s, t)
<1> DEFINE r == Relayed(q)
<1>1. /\ q.code \in Nat /\ q.edns \in BOOLEAN /\ q.cookie \in {{}, {LongestCookie}}
      /\ q.length \in Nat
  <2>1. q.length \in ResponseLengths
    BY DEF Received
  <2>2. q.length \in Nat
    BY <2>1, HandlerAssumption
  <2> QED
    BY <2>2 DEF Received, NoError, BadVersion, BadCookie
<1>2. r \in Replies /\ r.kind = "relayed" /\ r.code = r.meant /\ r.length = q.length
  BY <1>1 DEF Relayed, Replies
<1>3. t = "udp" => \/ q.length <= ClassicUdp
                   \/ \E opt \in p.edns : q.length <= opt.size /\ q.length <= ServerUdp
  BY <1>1, LimitHolds
<1> HIDE DEF r
<1>4. Sound(r, p, "none", s, t)
  BY <1>2, <1>3 DEF Sound
<1> QED
  BY <1>4 DEF r
-----------------------------------------------------------------------------
(* How a step leaves the worker: going on, silent at the end, or with a     *)
(* reply                                                                    *)

(* Nothing is claimed of a request on its way. *)
LEMMA GoesOn ==
    ASSUME TypeOK', Stages', Solicited', pc' \notin {"finish", "done"}
    PROVE  Inv'
<1>1. reply' = {}
  BY DEF Stages
<1> QED
  BY <1>1 DEF Inv, Due, AnswersEveryQuery, LocalReplySafe, CodeSurvives, ReplyFits

(* Silence needs one of the reasons. *)
LEMMA StaysSilent ==
    ASSUME TypeOK', Stages', Solicited', pc' = "done", reply' = {},
           \/ header' \in {"short", "response"} \/ ~Remaining'
           \/ fault' = "none" /\ response' = {} /\ packet'.cookie \cap 16..LongestCookie # {}
    PROVE  Inv'
BY DEF Inv, Due, AnswersEveryQuery, LocalReplySafe, CodeSurvives, ReplyFits

(* A sound reply, not made up for a client with a server cookie. *)
LEMMA Replied ==
    ASSUME TypeOK', Stages', Solicited', NEW r, pc' = "finish", reply' = {r},
           Sound(r, packet', fault', response', transport'),
           fault' = "none" /\ response' = {} => packet'.cookie \cap 16..LongestCookie = {}
    PROVE  Inv'
<1>1. Due' /\ AnswersEveryQuery'
  BY DEF Due, AnswersEveryQuery
<1>2. LocalReplySafe'
  BY DEF Sound, LocalReplySafe
<1>3. CodeSurvives' /\ ReplyFits'
  BY DEF Sound, CodeSurvives, ReplyFits
<1> QED
  BY <1>1, <1>2, <1>3 DEF Inv

(* A cookie with a server part. *)
LEMMA ServerCookie ==
    ASSUME NEW p \in Packets
    PROVE  HasServerCookie(p) <=> p.cookie \cap 16..LongestCookie # {}
<1>1. p.cookie \in Cookies
  BY DEF Packets
<1>2. CASE p.cookie \in {{}, {Malformed}, {8}}
  BY <1>2 DEF HasServerCookie, Malformed, LongestCookie
<1>3. CASE \E n \in 16..LongestCookie : p.cookie = {n}
  <2>1. PICK n \in 16..LongestCookie : p.cookie = {n}
    BY <1>3
  <2>2. n > 8
    BY DEF LongestCookie
  <2> QED
    BY <2>1, <2>2 DEF HasServerCookie
<1> QED
  BY <1>1, <1>2, <1>3 DEF Cookies

(* A reply made here, or silence towards a client with a server cookie. *)
LEMMA RepliesLocally ==
    ASSUME Inv, NEW r, LocalReply(r), pc \in {"validate", "select", "forward"},
           packet' \in Packets, packet'.cookie = packet.cookie,
           UNCHANGED <<request, header, wire, section, records, fault, response>>,
           Sound(r, packet', "none", {}, transport)
    PROVE  Inv'
<1>1. TypeOK /\ Stages /\ response = {} /\ fault = "none" /\ header = "query" /\ reply = {}
  BY DEF Inv, Stages
<1>2. packet \in Packets /\ r \in Replies
  BY <1>1 DEF TypeOK, Sound
<1>3. UNCHANGED <<stop, forwards, transport, left>>
  BY DEF request
<1>4. TypeOK'
  BY <1>1, <1>2, <1>3 DEF TypeOK, LocalReply, Silent, Answer
<1>5. Stages' /\ Solicited'
  BY <1>1 DEF Stages, Solicited, LocalReply, Silent, Answer
<1>6. CASE HasServerCookie(packet)
  <2>1. pc' = "done" /\ reply' = {} /\ packet'.cookie \cap 16..LongestCookie # {}
    BY <1>2, <1>6, ServerCookie DEF LocalReply, Silent
  <2> QED
    BY <1>1, <1>4, <1>5, <2>1, StaysSilent
<1>7. CASE ~HasServerCookie(packet)
  <2>1. pc' = "finish" /\ reply' = {r} /\ packet'.cookie \cap 16..LongestCookie = {}
    BY <1>2, <1>7, ServerCookie DEF LocalReply, Answer
  <2>2. Sound(r, packet', fault', response', transport')
    BY <1>1, <1>3
  <2> QED
    BY <1>4, <1>5, <2>1, <2>2, Replied
<1> QED
  BY <1>6, <1>7
-----------------------------------------------------------------------------
(* The actions *)

(* The header: only a query is parsed. *)
LEMMA BeginKeeps ==
    ASSUME Inv, Begin
    PROVE  Inv'
<1>1. TypeOK /\ Stages /\ pc = "begin" /\ response = {} /\ fault = "none" /\ reply = {}
  BY DEF Inv, Stages, Begin
<1>2. UNCHANGED <<stop, forwards, transport, left>>
  BY DEF Begin, request
<1>3. TypeOK' /\ Solicited'
  BY <1>1, <1>2 DEF TypeOK, Solicited, Begin, Silent
<1>4. CASE header' = "query" /\ pc' = "counts" /\ UNCHANGED reply
  <2>1. Stages'
    BY <1>1, <1>4 DEF Stages, Begin
  <2> QED
    BY <1>3, <1>4, <2>1, GoesOn
<1>5. CASE Silent /\ (header' \in {"short", "response"} \/ ~Remaining)
  <2>1. Stages'
    BY <1>1, <1>5 DEF Stages, Begin, Silent
  <2>2. ~Remaining => ~Remaining'
    BY <1>2 DEF Remaining
  <2> QED
    BY <1>3, <1>5, <2>1, <2>2, StaysSilent DEF Silent
<1> QED
  BY <1>4, <1>5 DEF Begin

(* A fault ends the parsing and is answered with FORMERR. *)
LEMMA ParseFailsKeeps ==
    ASSUME Inv, NEW e \in Faults, ParseFails(e), pc \in {"counts", "question", "records"}
    PROVE  Inv'
<1>1. TypeOK /\ Stages /\ response = {} /\ header = "query"
  BY DEF Inv, Stages
<1>2. UNCHANGED <<stop, forwards, transport, left>>
  BY DEF ParseFails, request
<1>3. PICK r : r = FormatReplyAfter(e)
  OBVIOUS
<1>4. Sound(r, packet, e, {}, transport)
  <2>1. packet \in Packets
    BY <1>1 DEF TypeOK
  <2> QED
    BY <1>3, <2>1, FormatSound DEF FormatReplyAfter
<1>5. /\ pc' = "finish" /\ reply' = {r} /\ fault' = e /\ wire' = <<>> /\ section' = "Answer"
      /\ records' = 0 /\ UNCHANGED <<header, packet, response>>
  BY <1>3 DEF ParseFails, Answer, ParserDone
<1>6. TypeOK'
  BY <1>1, <1>2, <1>4, <1>5, HandlerAssumption DEF TypeOK, Sound
<1>7. Stages' /\ Solicited'
  BY <1>1, <1>5 DEF Stages, Solicited
<1>8. fault' # "none"
  BY <1>5 DEF Faults
<1> QED
  BY <1>1, <1>2, <1>4, <1>5, <1>6, <1>7, <1>8, Replied

(* The counts of the header; a message with a question follows, if any. *)
LEMMA ReadCountsKeeps ==
    ASSUME Inv, NEW opcode \in {"Query", "Other"}, NEW questions \in 0..2,
           ReadCounts(opcode, questions)
    PROVE  Inv'
<1>1. TypeOK /\ Stages /\ pc = "counts" /\ response = {} /\ header = "query" /\ fault = "none"
         /\ reply = {}
  BY DEF Inv, Stages, ReadCounts
<1>2. CASE ParseFails("InvalidCount")
  BY <1>1, <1>2, ParseFailsKeeps DEF Faults
<1>3. CASE ~ParseFails("InvalidCount")
  <2>1. /\ packet' = [packet EXCEPT !.opcode = opcode, !.questions = questions]
        /\ pc' = IF questions = 0 THEN "records" ELSE "question"
        /\ wire' \in IF questions = 0 THEN {<<>>} ELSE Wires
        /\ UNCHANGED <<request, header, section, records, fault, response, reply>>
    BY <1>3 DEF ReadCounts
  <2>2. UNCHANGED <<stop, forwards, transport, left>>
    BY <2>1 DEF request
  <2>3. packet' \in Packets
    <3>1. packet \in Packets
      BY <1>1 DEF TypeOK
    <3> QED
      BY <2>1, <3>1 DEF Packets
  <2>4. TypeOK' /\ Stages' /\ Solicited'
    BY <1>1, <2>1, <2>2, <2>3 DEF TypeOK, Stages, Solicited
  <2>5. pc' \notin {"finish", "done"}
    BY <2>1
  <2> QED
    BY <2>4, <2>5, GoesOn
<1> QED
  BY <1>2, <1>3

(* The name of the question is within the limits of decode, so that a reply *)
(* that repeats it is.                                                      *)
LEMMA ReadQuestionKeeps ==
    ASSUME Inv, ReadQuestion
    PROVE  Inv'
<1>1. TypeOK /\ Stages /\ pc = "question" /\ response = {} /\ header = "query" /\ fault = "none"
         /\ reply = {} /\ wire \in Wires
  BY DEF Inv, Stages, ReadQuestion
<1>2. PICK name : name = Decode(wire, HeaderLength)
  OBVIOUS
<1>3. name \in Decoded
  BY <1>1, <1>2, DecodeEnds, DecodeAssumption
<1>4. name.error # "none" => name.error \in Faults
  BY <1>3 DEF Decoded, DecodeState, Faults, Running
<1>5. \/ name.error # "none" /\ ParseFails(name.error)
      \/ ParseFails("UnexpectedEnd")
      \/ /\ packet' = [packet EXCEPT !.name = {name.expanded}]
         /\ wire' = <<>> /\ pc' = "records"
         /\ UNCHANGED <<request, header, section, records, fault, response, reply>>
  BY <1>2 DEF ReadQuestion
<1>6. CASE name.error # "none" /\ ParseFails(name.error)
  BY <1>1, <1>4, <1>6, ParseFailsKeeps
<1>7. CASE ParseFails("UnexpectedEnd")
  BY <1>1, <1>7, ParseFailsKeeps DEF Faults
<1>8. CASE /\ packet' = [packet EXCEPT !.name = {name.expanded}]
           /\ wire' = <<>> /\ pc' = "records"
           /\ UNCHANGED <<request, header, section, records, fault, response, reply>>
  <2>1. UNCHANGED <<stop, forwards, transport, left>>
    BY <1>8 DEF request
  <2>2. packet' \in Packets
    <3>1. packet \in Packets
      BY <1>1 DEF TypeOK
    <3>2. {name.expanded} \in Names
      BY <1>3 DEF Decoded, Names
    <3> QED
      BY <1>8, <3>1, <3>2 DEF Packets
  <2>3. TypeOK' /\ Stages' /\ Solicited'
    BY <1>1, <1>8, <2>1, <2>2 DEF TypeOK, Stages, Solicited
  <2> QED
    BY <1>8, <2>3, GoesOn
<1> QED
  BY <1>5, <1>6, <1>7, <1>8

(* The next section. *)
LEMMA NextSectionKeeps ==
    ASSUME Inv, NextSection
    PROVE  Inv'
<1>1. TypeOK /\ Stages /\ pc = "records" /\ response = {}
  BY DEF Inv, Stages, NextSection
<1>2. UNCHANGED <<stop, forwards, transport, left>>
  BY DEF NextSection, request
<1>3. TypeOK' /\ Stages' /\ Solicited' /\ pc' \notin {"finish", "done"}
  BY <1>1, <1>2 DEF NextSection, TypeOK, Stages, Solicited
<1> QED
  BY <1>3, GoesOn

(* OPT: its fields are kept even if its options turn out to be malformed,   *)
(* and the reply may use them.                                              *)
LEMMA ReadOptKeeps ==
    ASSUME Inv, NEW opt \in Opts, ReadOpt(opt)
    PROVE  Inv'
<1>1. TypeOK /\ Stages /\ pc = "records" /\ records < MaxRecords /\ response = {}
         /\ header = "query" /\ fault = "none" /\ reply = {}
  BY DEF Inv, Stages, ReadOpt, RecordFollows
<1>2. UNCHANGED <<stop, forwards, transport, left, header, response>>
  BY DEF ReadOpt, request
<1>3. PICK read : read = [packet EXCEPT !.edns = {opt}]
  OBVIOUS
<1>4. packet \in Packets /\ read \in Packets
  <2>1. packet \in Packets
    BY <1>1 DEF TypeOK
  <2> QED
    BY <1>3, <2>1 DEF Packets
<1>5. CASE /\ \E options \in OptionLists : packet' = [read EXCEPT !.cookie = Locate(options)]
           /\ records' = records + 1
           /\ UNCHANGED <<pc, wire, section, fault, reply>>
  <2>1. PICK options \in OptionLists : packet' = [read EXCEPT !.cookie = Locate(options)]
    BY <1>5
  <2>2. PICK cookie : cookie = Locate(options)
    OBVIOUS
  <2>3. cookie \in Cookies
    BY <2>2 DEF Locate, Cookies, LongestCookie
  <2>4. packet' \in Packets
    BY <1>4, <2>1, <2>2, <2>3 DEF Packets
  <2>5. records' \in 0..MaxRecords
    BY <1>1, <1>5, HandlerAssumption DEF TypeOK
  <2>6. TypeOK' /\ Stages' /\ Solicited'
    BY <1>1, <1>2, <1>5, <2>4, <2>5 DEF TypeOK, Stages, Solicited
  <2> QED
    BY <1>1, <1>5, <2>6, GoesOn
<1>6. CASE /\ packet' = read /\ fault' = "InvalidEdns" /\ ParserDone
           /\ Answer(FormatReply(read.name, read.edns))
  <2>1. PICK r : r = FormatReply(read.name, read.edns)
    OBVIOUS
  <2>2. Sound(r, read, "InvalidEdns", {}, transport)
    <3>1. "InvalidEdns" \in Faults
      BY DEF Faults
    <3> QED
      BY <1>4, <2>1, <3>1, FormatSound
  <2>3. pc' = "finish" /\ reply' = {r} /\ wire' = <<>> /\ section' = "Answer" /\ records' = 0
    BY <1>6, <2>1 DEF Answer, ParserDone
  <2>4. fault' \in Faults /\ fault' # "none"
    BY <1>6 DEF Faults
  <2>5. TypeOK'
    BY <1>1, <1>2, <1>4, <1>6, <2>2, <2>3, <2>4, HandlerAssumption DEF TypeOK, Sound
  <2>6. Stages' /\ Solicited'
    BY <1>1, <1>2, <2>3 DEF Stages, Solicited
  <2> QED
    BY <1>1, <1>2, <1>6, <2>2, <2>3, <2>4, <2>5, <2>6, Replied
<1> QED
  BY <1>3, <1>5, <1>6 DEF ReadOpt

(* Any other record. *)
LEMMA ReadRecordKeeps ==
    ASSUME Inv, NEW kind \in {"Tsig", "Sig", "Other"}, ReadRecord(kind)
    PROVE  Inv'
<1>1. TypeOK /\ Stages /\ pc = "records" /\ records < MaxRecords /\ response = {}
         /\ header = "query" /\ fault = "none" /\ reply = {}
  BY DEF Inv, Stages, ReadRecord, RecordFollows
<1>2. CASE ParseFails("InvalidRecord")
  BY <1>1, <1>2, ParseFailsKeeps DEF Faults
<1>3. CASE ~ParseFails("InvalidRecord")
  <2>1. PICK other \in BOOLEAN : other = (packet.other \/ section # "Additional")
    OBVIOUS
  <2>2. PICK auth \in BOOLEAN : auth = (\/ packet.authenticated \/ kind = "Tsig"
                                        \/ (kind = "Sig" /\ section = "Additional"))
    OBVIOUS
  <2>3. /\ packet' = [packet EXCEPT !.other = other, !.authenticated = auth]
        /\ records' = records + 1
        /\ UNCHANGED <<pc, request, header, wire, section, fault, response, reply>>
    BY <1>3, <2>1, <2>2 DEF ReadRecord
  <2>4. UNCHANGED <<stop, forwards, transport, left>>
    BY <2>3 DEF request
  <2>5. packet' \in Packets
    <3>1. packet \in Packets
      BY <1>1 DEF TypeOK
    <3> QED
      BY <2>3, <3>1 DEF Packets
  <2>6. records' \in 0..MaxRecords
    BY <1>1, <2>3, HandlerAssumption DEF TypeOK
  <2>7. TypeOK' /\ Stages' /\ Solicited'
    BY <1>1, <2>3, <2>4, <2>5, <2>6 DEF TypeOK, Stages, Solicited
  <2> QED
    BY <1>1, <2>3, <2>7, GoesOn
<1> QED
  BY <1>2, <1>3

(* The end of the records. *)
LEMMA ParseEndsKeeps ==
    ASSUME Inv, ParseEnds
    PROVE  Inv'
<1>1. TypeOK /\ Stages /\ pc = "records" /\ response = {} /\ header = "query" /\ fault = "none"
         /\ reply = {}
  BY DEF Inv, Stages, ParseEnds
<1>2. CASE ParseFails("TrailingData")
  BY <1>1, <1>2, ParseFailsKeeps DEF Faults
<1>3. CASE ~ParseFails("TrailingData")
  <2>1. /\ wire' = <<>> /\ section' = "Answer" /\ records' = 0 /\ pc' = "validate"
        /\ UNCHANGED <<stop, forwards, transport, left, header, packet, fault, response, reply>>
    BY <1>3 DEF ParseEnds, ParserDone, request
  <2>2. TypeOK' /\ Stages' /\ Solicited'
    BY <1>1, <2>1, HandlerAssumption DEF TypeOK, Stages, Solicited
  <2> QED
    BY <2>1, <2>2, GoesOn
<1> QED
  BY <1>2, <1>3

(* Each action of the parser. *)
LEMMA ParseKeeps ==
    ASSUME Inv, Parse
    PROVE  Inv'
<1>1. CASE BadEnvelope \/ MisplacedOpt
  BY <1>1, ParseFailsKeeps DEF BadEnvelope, MisplacedOpt, RecordFollows, Faults
<1> QED
  BY <1>1, ReadCountsKeeps, ReadQuestionKeeps, NextSectionKeeps, ReadOptKeeps, ReadRecordKeeps,
     ParseEndsKeeps DEF Parse, Opts

(* validate_query: a code above 15 is only chosen for a packet with OPT. *)
LEMMA ValidateKeeps ==
    ASSUME Inv, NEW kind \in {"A", "Meta", "Other"}, NEW class \in {"IN", "Other"},
           NEW tc \in BOOLEAN, NEW rcode \in {0, 1}, Validate(kind, class, tc, rcode)
    PROVE  Inv'
<1>1. TypeOK /\ Stages /\ pc = "validate" /\ response = {} /\ header = "query" /\ fault = "none"
         /\ reply = {}
  BY DEF Inv, Stages, Validate
<1>2. PICK p : p = [packet EXCEPT !.kind = kind, !.class = class]
  OBVIOUS
<1>3. p \in Packets /\ p.cookie = packet.cookie
  <2>1. packet \in Packets
    BY <1>1 DEF TypeOK
  <2> QED
    BY <1>2, <2>1 DEF Packets
<1>4. packet' = p /\ UNCHANGED <<request, header, wire, section, records, fault, response>>
  BY <1>2 DEF Validate
<1>5. UNCHANGED <<stop, forwards, transport, left>>
  BY <1>4 DEF request
<1>6. CASE pc' = "select" /\ UNCHANGED reply
  <2>1. TypeOK' /\ Stages' /\ Solicited'
    BY <1>1, <1>3, <1>4, <1>5, <1>6 DEF TypeOK, Stages, Solicited
  <2> QED
    BY <1>6, <2>1, GoesOn
<1>7. CASE \E code \in ValidateQuery(p, tc, rcode) : LocalReply(ErrorReply(p, code))
  <2>1. PICK code \in ValidateQuery(p, tc, rcode) : LocalReply(ErrorReply(p, code))
    BY <1>7
  <2>2. code \in {NotImplemented, FormatError, Refused} \/ (code = BadVersion /\ p.edns # {})
    BY DEF ValidateQuery
  <2>3. code \in Nat /\ (code < 16 \/ p.edns # {})
    BY <2>2 DEF NotImplemented, FormatError, Refused, BadVersion
  <2>4. PICK r : r = ErrorReply(p, code)
    OBVIOUS
  <2>5. Sound(r, p, "none", {}, transport)
    BY <1>3, <2>3, <2>4, ErrorSound
  <2> QED
    BY <1>1, <1>3, <1>4, <2>1, <2>4, <2>5, RepliesLocally
<1> QED
  BY <1>2, <1>6, <1>7 DEF Validate

(* An answer of the routing table, or the way to the upstreams. *)
LEMMA SelectKeeps ==
    ASSUME Inv, Select
    PROVE  Inv'
<1>1. TypeOK /\ Stages /\ pc = "select" /\ response = {} /\ header = "query" /\ fault = "none"
         /\ reply = {} /\ packet \in Packets
  BY DEF Inv, Stages, Select, TypeOK
<1>2. UNCHANGED <<request, header, wire, packet, section, records, fault, response>>
  BY DEF Select, parser
<1>3. CASE LocalReply(LocalAReply(packet))
  <2>1. PICK r : r = LocalAReply(packet)
    OBVIOUS
  <2>2. Sound(r, packet', "none", {}, transport)
    BY <1>1, <1>2, <2>1, LocalASound
  <2> QED
    BY <1>1, <1>2, <1>3, <2>1, <2>2, RepliesLocally
<1>4. CASE LocalReply(ErrorReply(packet, NameError))
  <2>1. PICK r : r = ErrorReply(packet, NameError)
    OBVIOUS
  <2>2. NameError \in Nat /\ NameError < 16
    BY DEF NameError
  <2>3. Sound(r, packet', "none", {}, transport)
    BY <1>1, <1>2, <2>1, <2>2, ErrorSound
  <2> QED
    BY <1>1, <1>2, <1>4, <2>1, <2>3, RepliesLocally
<1>5. CASE pc' = "forward" /\ UNCHANGED reply
  <2>1. UNCHANGED <<stop, forwards, transport, left>>
    BY <1>2 DEF request
  <2>2. TypeOK' /\ Stages' /\ Solicited'
    BY <1>1, <1>2, <1>5, <2>1 DEF TypeOK, Stages, Solicited
  <2> QED
    BY <1>5, <2>2, GoesOn
<1> QED
  BY <1>3, <1>4, <1>5 DEF Select

(* forward returns a response to this query. *)
LEMMA ForwardReturnsKeeps ==
    ASSUME Inv, NEW r \in Responses, ForwardReturns(r)
    PROVE  Inv'
<1>1. TypeOK /\ Stages /\ pc = "forward" /\ header = "query" /\ fault = "none" /\ reply = {}
  BY DEF Inv, Stages, ForwardReturns
<1>2. r \in Received /\ CorrespondsTo(r, packet) /\ ValidCookie(r, packet)
  BY DEF Responses, Received
<1>3. UNCHANGED <<stop, forwards, transport, left, header, wire, packet, section, records, fault,
                  reply>>
  BY DEF ForwardReturns, request, parser
<1>4. response' = {r} /\ pc' = "relay"
  BY DEF ForwardReturns
<1>5. TypeOK' /\ Stages'
  BY <1>1, <1>2, <1>3, <1>4 DEF TypeOK, Stages
<1>6. Solicited'
  <2>1. CorrespondsTo(r, packet') /\ ValidCookie(r, packet')
    BY <1>2, <1>3
  <2> QED
    BY <1>4, <2>1 DEF Solicited
<1> QED
  BY <1>4, <1>5, <1>6, GoesOn

(* Silence because the time is over or the service stops. *)
LEMMA GivesUp ==
    ASSUME Inv, Silent, ~Remaining, pc \in {"forward", "relay", "finish"},
           UNCHANGED <<request, parser, response>>
    PROVE  Inv'
<1>1. TypeOK /\ Stages /\ Solicited
  BY DEF Inv
<1>2. UNCHANGED <<stop, forwards, transport, left, header, wire, packet, section, records, fault,
                  response>>
  BY DEF request, parser
<1>3. pc' = "done" /\ reply' = {}
  BY DEF Silent
<1>4. TypeOK' /\ Stages'
  BY <1>1, <1>2, <1>3 DEF TypeOK, Stages
<1>5. Solicited'
  BY <1>1, <1>2 DEF Solicited
<1>6. ~Remaining'
  BY <1>2 DEF Remaining
<1> QED
  BY <1>3, <1>4, <1>5, <1>6, StaysSilent

(* SERVFAIL while there is time. *)
LEMMA ForwardFailsKeeps ==
    ASSUME Inv, ForwardFails
    PROVE  Inv'
<1>1. TypeOK /\ Stages /\ pc = "forward" /\ packet \in Packets
  BY DEF Inv, Stages, ForwardFails, TypeOK
<1>2. UNCHANGED <<request, parser, response>>
         /\ UNCHANGED <<header, wire, packet, section, records, fault>>
  BY DEF ForwardFails, parser
<1>3. CASE ~Remaining /\ Silent
  BY <1>1, <1>2, <1>3, GivesUp
<1>4. CASE LocalReply(ErrorReply(packet, ServerFailure))
  <2>1. PICK r : r = ErrorReply(packet, ServerFailure)
    OBVIOUS
  <2>2. ServerFailure \in Nat /\ ServerFailure < 16
    BY DEF ServerFailure
  <2>3. Sound(r, packet', "none", {}, transport)
    BY <1>1, <1>2, <2>1, <2>2, ErrorSound
  <2> QED
    BY <1>1, <1>2, <1>4, <2>1, <2>3, RepliesLocally
<1> QED
  BY <1>3, <1>4 DEF ForwardFails

(* The response in some form: as it is, or truncated. *)
LEMMA RelayKeeps ==
    ASSUME Inv, Relay
    PROVE  Inv'
<1>1. TypeOK /\ Stages /\ Solicited /\ pc = "relay" /\ header = "query" /\ fault = "none"
         /\ packet \in Packets /\ response \subseteq Received
  BY DEF Inv, Stages, Relay, TypeOK
<1>2. UNCHANGED <<request, parser, response>>
  BY DEF Relay
<1>3. UNCHANGED <<stop, forwards, transport, left, header, wire, packet, section, records, fault,
                  response>>
  BY <1>2 DEF request, parser
<1>4. ASSUME NEW q \in response, NEW r, Answer(r), Sound(r, packet, "none", response, transport)
      PROVE  Inv'
  <2>1. pc' = "finish" /\ reply' = {r} /\ response' # {}
    BY <1>3, <1>4 DEF Answer
  <2>2. TypeOK' /\ Stages'
    BY <1>1, <1>3, <1>4, <2>1 DEF TypeOK, Stages, Sound
  <2>3. Solicited'
    BY <1>1, <1>3 DEF Solicited
  <2>4. Sound(r, packet', fault', response', transport')
    BY <1>1, <1>3, <1>4
  <2> QED
    BY <2>1, <2>2, <2>3, <2>4, Replied
<1>5. CASE ~Remaining /\ Silent
  BY <1>1, <1>2, <1>5, GivesUp
<1>6. ASSUME NEW q \in response, Answer(TruncatedReply(packet, q))
      PROVE  Inv'
  <2>1. q \in Received /\ CorrespondsTo(q, packet) /\ ValidCookie(q, packet)
    BY <1>1 DEF Solicited
  <2>2. PICK r : r = TruncatedReply(packet, q)
    OBVIOUS
  <2>3. Sound(r, packet, "none", response, transport)
    BY <1>1, <2>1, <2>2, TruncatedSound
  <2> QED
    BY <1>4, <1>6, <2>2, <2>3
<1>7. ASSUME NEW q \in response, Answer(Relayed(q)),
             transport = "tcp" \/ q.length <= UdpLimit(packet.edns)
      PROVE  Inv'
  <2>1. q \in Received
    BY <1>1
  <2>2. PICK r : r = Relayed(q)
    OBVIOUS
  <2>3. Sound(r, packet, "none", response, transport)
    BY <1>1, <1>7, <2>1, <2>2, RelayedSound
  <2> QED
    BY <1>4, <1>7, <2>2, <2>3
<1> QED
  BY <1>5, <1>6, <1>7 DEF Relay

(* The reply leaves as it was made, but for RA. *)
LEMMA FinishKeeps ==
    ASSUME Inv, Finish
    PROVE  Inv'
<1>1. TypeOK /\ Stages /\ Solicited /\ Due /\ pc = "finish" /\ header = "query"
         /\ reply \subseteq Replies /\ reply # {} /\ forwards \in BOOLEAN
  BY DEF Inv, Stages, Finish, TypeOK, Due
<1>2. UNCHANGED <<request, parser, response>>
  BY DEF Finish
<1>3. UNCHANGED <<stop, forwards, transport, left, header, wire, packet, section, records, fault,
                  response>>
  BY <1>2 DEF request, parser
<1>4. CASE ~Remaining /\ Silent
  BY <1>1, <1>2, <1>4, GivesUp
<1>5. CASE /\ Remaining /\ pc' = "done"
           /\ reply' = {[r EXCEPT !.ra = @ /\ forwards] : r \in reply}
  <2>1. ASSUME NEW x \in reply'
        PROVE  \E r \in reply : /\ x \in Replies /\ x.kind = r.kind /\ x.meant = r.meant
                                /\ x.code = r.code /\ x.question = r.question /\ x.opt = r.opt
                                /\ x.cookie = r.cookie /\ x.length = r.length
                                /\ x.ra => forwards
    <3>1. PICK r \in reply : x = [r EXCEPT !.ra = r.ra /\ forwards]
      BY <1>5
    <3>2. PICK b \in BOOLEAN : b = (r.ra /\ forwards)
      OBVIOUS
    <3>3. r \in Replies /\ x = [r EXCEPT !.ra = b]
      BY <1>1, <3>1, <3>2
    <3>4. /\ x \in Replies /\ x.kind = r.kind /\ x.meant = r.meant
          /\ x.code = r.code /\ x.question = r.question /\ x.opt = r.opt
          /\ x.cookie = r.cookie /\ x.length = r.length /\ x.ra = b
      BY <3>3 DEF Replies
    <3> QED
      BY <3>2, <3>4
  <2>2. reply' # {}
    <3>1. PICK r \in reply : TRUE
      BY <1>1
    <3>2. [r EXCEPT !.ra = @ /\ forwards] \in reply'
      BY <1>5
    <3> QED
      BY <3>2
  <2>3. TypeOK'
    <3>1. reply' \subseteq Replies
      BY <2>1
    <3> QED
      BY <1>1, <1>3, <1>5, <3>1 DEF TypeOK
  <2>4. Stages'
    BY <1>1, <1>3, <1>5 DEF Stages
  <2>5. Solicited' /\ Due'
    BY <1>1, <1>3, <1>5 DEF Solicited, Due
  <2>6. AnswersEveryQuery'
    <3>1. Remaining'
      BY <1>3, <1>5 DEF Remaining
    <3>2. ~(fault' = "none" /\ response' = {} /\ packet'.cookie \cap 16..LongestCookie # {})
      BY <1>1, <1>3 DEF Due
    <3> QED
      BY <1>1, <1>3, <2>2, <3>1, <3>2 DEF AnswersEveryQuery
  <2>7. LocalReplySafe'
    <3> SUFFICES ASSUME NEW x \in reply'
                 PROVE  /\ x.kind = "local" =>
                             /\ x.cookie = {}
                             /\ x.question \/ x.opt => fault' \in {"none", "InvalidEdns"}
                             /\ x.opt <=> packet'.edns # {} /\ fault' \in {"none", "InvalidEdns"}
                        /\ x.kind = "truncated" => \E s \in response' : x.cookie = s.cookie
                        /\ pc' = "done" /\ x.ra => forwards'
      BY DEF LocalReplySafe
    <3>1. PICK r \in reply : /\ x.kind = r.kind /\ x.question = r.question /\ x.opt = r.opt
                             /\ x.cookie = r.cookie /\ (x.ra => forwards)
      BY <2>1
    <3>2. /\ r.kind = "local" =>
               /\ r.cookie = {}
               /\ r.question \/ r.opt => fault \in {"none", "InvalidEdns"}
               /\ r.opt <=> packet.edns # {} /\ fault \in {"none", "InvalidEdns"}
          /\ r.kind = "truncated" => \E s \in response : r.cookie = s.cookie
      BY DEF Inv, LocalReplySafe
    <3> QED
      BY <1>3, <3>1, <3>2
  <2>8. CodeSurvives'
    <3> SUFFICES ASSUME NEW x \in reply'
                 PROVE  x.code = x.meant
      BY DEF CodeSurvives
    <3>1. PICK r \in reply : x.code = r.code /\ x.meant = r.meant
      BY <2>1
    <3> QED
      BY <3>1 DEF Inv, CodeSurvives
  <2>9. ReplyFits'
    <3> SUFFICES ASSUME transport' = "udp", NEW x \in reply'
                 PROVE  \/ x.length <= ClassicUdp
                        \/ \E opt \in packet'.edns : x.length <= opt.size /\ x.length <= ServerUdp
      BY DEF ReplyFits
    <3>1. PICK r \in reply : x.length = r.length
      BY <2>1
    <3>2. \/ r.length <= ClassicUdp
          \/ \E opt \in packet.edns : r.length <= opt.size /\ r.length <= ServerUdp
      BY <1>3 DEF Inv, ReplyFits
    <3> QED
      BY <1>3, <3>1, <3>2
  <2> QED
    BY <2>3, <2>4, <2>5, <2>6, <2>7, <2>8, <2>9 DEF Inv
<1> QED
  BY <1>4, <1>5 DEF Finish

(* Time passes and stop is requested only where the worker has not ended:   *)
(* the reply that stands is not affected.                                   *)
LEMMA TimeKeeps ==
    ASSUME Inv, Tick \/ RequestStop
    PROVE  Inv'
<1>1. TypeOK /\ Stages /\ Solicited /\ pc # "done"
  BY DEF Inv, Tick, RequestStop, Observing
<1>2. UNCHANGED <<pc, forwards, transport, header, wire, packet, section, records, fault,
                  response, reply>>
  BY DEF Tick, RequestStop, parser
<1>3. stop' \in BOOLEAN /\ left' \in 0..RequestTimeout
  <2>1. RequestTimeout \in Nat /\ left \in 0..RequestTimeout /\ stop \in BOOLEAN
    BY <1>1, HandlerAssumption DEF TypeOK
  <2>2. stop' \in BOOLEAN
    BY <2>1 DEF Tick, RequestStop
  <2>3. left' \in 0..RequestTimeout
    BY <2>1 DEF Tick, RequestStop
  <2> QED
    BY <2>2, <2>3
<1>4. TypeOK' /\ Stages'
  BY <1>1, <1>2, <1>3 DEF TypeOK, Stages
<1>5. Solicited' /\ Due'
  BY <1>1, <1>2 DEF Inv, Solicited, Due
<1>6. AnswersEveryQuery'
  BY <1>1, <1>2 DEF AnswersEveryQuery
<1>7. LocalReplySafe'
  BY <1>2 DEF Inv, LocalReplySafe
<1>8. CodeSurvives' /\ ReplyFits'
  BY <1>2 DEF Inv, CodeSurvives, ReplyFits
<1> QED
  BY <1>4, <1>5, <1>6, <1>7, <1>8 DEF Inv

(* Nothing happens. *)
LEMMA StutterKeeps ==
    ASSUME Inv, UNCHANGED vars
    PROVE  Inv'
<1>1. UNCHANGED <<stop, left, pc, forwards, transport, header, wire, packet, section, records,
                  fault, response, reply>>
  BY DEF vars, request, parser
<1>2. TypeOK' /\ Stages' /\ Solicited' /\ Due'
  BY <1>1 DEF Inv, TypeOK, Stages, Solicited, Due
<1>3. AnswersEveryQuery' /\ LocalReplySafe'
  BY <1>1 DEF Inv, AnswersEveryQuery, LocalReplySafe, Remaining
<1>4. CodeSurvives' /\ ReplyFits'
  BY <1>1 DEF Inv, CodeSurvives, ReplyFits
<1> QED
  BY <1>2, <1>3, <1>4 DEF Inv

-----------------------------------------------------------------------------
(* The theorems *)

(* The invariant holds throughout, for all messages, options and limits. *)
THEOREM HandlerInvariant == Spec => []Inv
<1>1. Init => Inv
  <2> SUFFICES ASSUME Init PROVE Inv
    OBVIOUS
  <2>1. packet \in Packets
    <3>1. 0 \in 0..2 /\ {} \in Names /\ {} \in Cookies
      BY DEF Names, Cookies
    <3> QED
      BY <3>1 DEF Init, Blank, Packets
  <2>2. TypeOK
    <3>1. left \in 0..RequestTimeout /\ records \in 0..MaxRecords
      BY HandlerAssumption DEF Init
    <3> QED
      BY <2>1, <3>1 DEF Init, TypeOK
  <2>3. Stages /\ Solicited /\ Due
    BY DEF Init, Stages, Solicited, Due
  <2>4. AnswersEveryQuery /\ LocalReplySafe /\ CodeSurvives /\ ReplyFits
    BY DEF Init, AnswersEveryQuery, LocalReplySafe, CodeSurvives, ReplyFits
  <2> QED
    BY <2>2, <2>3, <2>4 DEF Inv
<1>2. Inv /\ [Next]_vars => Inv'
  <2> SUFFICES ASSUME Inv, [Next]_vars PROVE Inv'
    OBVIOUS
  <2>1. CASE Done \/ UNCHANGED vars
    BY <2>1, StutterKeeps DEF Done
  <2>2. CASE Next /\ ~Done
    BY <2>2, BeginKeeps, ParseKeeps, ValidateKeeps, SelectKeeps, ForwardReturnsKeeps,
       ForwardFailsKeeps, RelayKeeps, FinishKeeps, TimeKeeps DEF Next
  <2> QED
    BY <2>1, <2>2
<1> QED
  BY <1>1, <1>2, PTL DEF Spec

(* respond: a query is answered unless one of the named reasons holds. *)
THEOREM QueriesAreAnswered == Spec => []AnswersEveryQuery
<1>1. Inv => AnswersEveryQuery
  BY DEF Inv
<1> QED
  BY <1>1, HandlerInvariant, PTL

(* Replies made here claim nothing unchecked, and truncation keeps the      *)
(* cookie of the response it stands for.                                    *)
THEOREM LocalRepliesAreSafe == Spec => []LocalReplySafe
<1>1. Inv => LocalReplySafe
  BY DEF Inv
<1> QED
  BY <1>1, HandlerInvariant, PTL

(* A client reads the response code that was meant. *)
THEOREM CodesSurvive == Spec => []CodeSurvives
<1>1. Inv => CodeSurvives
  BY DEF Inv
<1> QED
  BY <1>1, HandlerInvariant, PTL

(* No datagram is larger than the client takes. *)
THEOREM RepliesFit == Spec => []ReplyFits
<1>1. Inv => ReplyFits
  BY DEF Inv
<1> QED
  BY <1>1, HandlerInvariant, PTL

(* The parser never mistakes a name: DecodeCorrect for every message and    *)
(* every limit.                                                             *)
THEOREM NamesAreDecoded == Spec => []DecodeCorrect
<1>1. Inv => DecodeCorrect
  <2> SUFFICES ASSUME Inv, pc = "question", NEW start \in HeaderLength..Len(wire)
               PROVE  DecodesWell(wire, start)
    BY DEF DecodeCorrect
  <2>1. wire \in Wires
    BY DEF Inv, Stages
  <2>2. start \in Nat
    BY <2>1, DecodeAssumption
  <2> QED
    BY <2>1, <2>2, DecodeFollowsWalk
<1> QED
  BY <1>1, HandlerInvariant, PTL

=============================================================================
