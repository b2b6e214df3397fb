----------------------------- MODULE NameDecode -----------------------------
(***************************************************************************)
(* DomainName::decode in src/src/dns/name.rs: labels and compression       *)
(* pointers, read from a message that holds the name at `start'.  The loop *)
(* of the code is a recursive function of its local variables.  Offsets    *)
(* count from 0 as in the code.  An octet is a tag and a value below       *)
(* TagBase (the code's masks 0xc0 and 0x3f, TagBase 64).                   *)
(***************************************************************************)
EXTENDS Integers, Sequences, FiniteSets, SequencesExt

CONSTANTS
    HeaderLength,   \* HEADER_LENGTH
    MaxNameLength,  \* MAX_NAME_LENGTH
    MaxPointers,    \* MAX_POINTERS
    TagBase,        \* values of an octet under each of its four tags
    Wires           \* the messages considered, sequences of octets

ASSUME DecodeAssumption ==
    /\ HeaderLength \in Nat /\ MaxNameLength \in Nat \ {0} /\ MaxPointers \in Nat
    /\ TagBase \in Nat \ {0}
    /\ \A wire \in Wires : Len(wire) >= HeaderLength /\ wire \in Seq(0..(4 * TagBase - 1))

Has(wire, p) == p < Len(wire)
At(wire, p) == wire[p + 1]
Tag(octet) == octet \div TagBase
IsPointer(wire, p) == Tag(At(wire, p)) = 3
Target(wire, p) == (At(wire, p) % TagBase) * 4 * TagBase + At(wire, p + 1)

Failed(s, e) == [s EXCEPT !.error = e]

FollowLastPointer(wire, s) ==
    [s EXCEPT !.position = Target(wire, s.position),
              !.visited = Append(@, Target(wire, s.position)),
              !.cursor = s.position + 2]
(* Only the first pointer ends the name at its original place: `jumped' is  *)
(* whether a target was visited.                                            *)
Follow(wire, s) ==
    [s EXCEPT !.position = Target(wire, s.position),
              !.visited = Append(@, Target(wire, s.position)),
              !.cursor = IF s.visited = <<>> THEN s.position + 2 ELSE @]

Pointer(wire, s) ==
    IF ~Has(wire, s.position + 1) THEN Failed(s, "UnexpectedEnd")
    ELSE IF Contains(s.visited, Target(wire, s.position)) THEN Failed(s, "CompressionLoop")
    ELSE IF Target(wire, s.position) \notin HeaderLength..(s.position - 1)
         THEN Failed(s, "InvalidPointer")
    ELSE IF Len(s.visited) = MaxPointers THEN Failed(s, "CompressionDepth")
    ELSE Follow(wire, s)

Root(s) == [s EXCEPT !.error = "none",
                     !.cursor = IF s.visited = <<>> THEN s.position + 1 ELSE @]

Label(wire, s) ==
    LET length == At(wire, s.position)
        end == s.position + length          \* the last octet of the label
        expanded == s.expanded + length + 1
    IN IF expanded > MaxNameLength THEN Failed(s, "NameTooLong")
       ELSE IF ~Has(wire, end) THEN Failed(s, "UnexpectedEnd")
       ELSE [s EXCEPT !.expanded = expanded, !.position = end + 1,
                      !.labels = Append(@, SubSeq(wire, s.position + 2, end + 1))]

Step(wire, s) ==
    IF ~Has(wire, s.position) THEN Failed(s, "UnexpectedEnd")
    ELSE CASE IsPointer(wire, s.position) -> Pointer(wire, s)
           [] At(wire, s.position) = 0 -> Root(s)
           [] At(wire, s.position) \in 1..(TagBase - 1) -> Label(wire, s)
           [] OTHER -> Failed(s, "InvalidLabel")

Running == "running"
DecodeState == [position : Nat, cursor : Nat, expanded : Nat,
                labels : Seq(Seq(Nat)), visited : Seq(Nat),
                error : {Running, "none", "UnexpectedEnd", "InvalidLabel", "NameTooLong",
                         "CompressionLoop", "InvalidPointer", "CompressionDepth"}]

(* The result: the labels, the cursor behind the name, or an error. *)
Decode(wire, start) ==
    LET Loop[s \in DecodeState] == IF s.error # Running THEN s ELSE Loop[Step(wire, s)]
    IN Loop[[position |-> start, cursor |-> start, expanded |-> 1,
             labels |-> <<>>, visited |-> <<>>, error |-> Running]]

-----------------------------------------------------------------------------
(* The reference: a name is the walk from `start' along labels and pointers *)
(* up to a root octet.  It needs no list of visited targets: a walk that    *)
(* ends passes no offset twice, so it ends within Len(wire) steps.          *)
Nowhere == -1
Successor(wire, p) ==
    IF p = Nowhere \/ ~Has(wire, p) THEN Nowhere
    ELSE IF IsPointer(wire, p)
         THEN IF Has(wire, p + 1) THEN Target(wire, p) ELSE Nowhere
         ELSE IF At(wire, p) \in 1..(TagBase - 1) /\ Has(wire, p + At(wire, p))
              THEN p + At(wire, p) + 1 ELSE Nowhere

(* The offsets passed, from `start' on. *)
Walk(wire, start) ==
    LET path[n \in Nat] == IF n = 0 THEN start ELSE Successor(wire, path[n - 1])
    IN path

(* What the first n of them are: the pointers, and the text of the labels.  *)
PointersOf(wire, path, n) ==
    FlattenSeq([i \in 1..n |->
        IF IsPointer(wire, path[i - 1]) THEN <<path[i - 1]>> ELSE <<>>])
TextAt(wire, p) == SubSeq(wire, p + 2, p + At(wire, p) + 1)
LabelsOf(wire, path, n) ==
    FlattenSeq([i \in 1..n |->
        IF IsPointer(wire, path[i - 1]) THEN <<>> ELSE <<TextAt(wire, path[i - 1])>>])

(* The octets of a name: its text, a length for each label, and the root.   *)
NameLength(labels) == Len(FlattenSeq(labels)) + Len(labels) + 1

IsEnd(wire, p) == p # Nowhere /\ Has(wire, p) /\ At(wire, p) = 0

(* The walk ends after n steps, over backward pointers, within the limits.  *)
LegalEnd(wire, path, n) ==
    LET pointers == PointersOf(wire, path, n)
    IN /\ IsEnd(wire, path[n])
       /\ \A i \in DOMAIN pointers :
            Target(wire, pointers[i]) \in HeaderLength..(pointers[i] - 1)
       /\ Len(pointers) <= MaxPointers
       /\ NameLength(LabelsOf(wire, path, n)) <= MaxNameLength

(* decode returns the name that the walk spells, with the cursor behind its *)
(* bytes in place, exactly when the pointers go back, are few enough and    *)
(* the name is short enough; it blames a loop only on names without end.    *)
DecodesWell(wire, start) ==
    LET d == Decode(wire, start)
        path == Walk(wire, start)
        legal == {n \in 0..Len(wire) : LegalEnd(wire, path, n)}
        behind(pointers, end) == IF pointers = <<>> THEN end + 1 ELSE pointers[1] + 2
    IN /\ d.error = "none" <=> legal # {}
       /\ \A n \in legal :
            /\ d.labels = LabelsOf(wire, path, n)
            /\ d.expanded = NameLength(d.labels)
            /\ d.cursor = behind(PointersOf(wire, path, n), path[n])
       /\ d.error = "CompressionLoop" =>
            \A n \in 0..Len(wire) : path[n] # Nowhere /\ ~IsEnd(wire, path[n])
=============================================================================
