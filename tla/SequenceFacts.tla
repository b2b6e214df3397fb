--------------------------- MODULE SequenceFacts ----------------------------
(***************************************************************************)
(* What several proofs need: induction over the naturals, and the values   *)
(* of FlattenSeq, which the community modules define by a recursive        *)
(* function, when the sequence of sequences is empty and when it grows at  *)
(* the end.                                                                *)
(* The inductions are by a least counterexample.                           *)
(***************************************************************************)
EXTENDS Integers, SequencesExt, SequenceTheorems, WellFoundedInduction, TLAPS

(* Every set of naturals that is not empty has a least element.  Applied to *)
(* the set of counterexamples, this is induction over the naturals.         *)
LEMMA LeastNatural ==
    ASSUME NEW T, T \subseteq Nat, T # {}
    PROVE  \E x \in T : \A y \in T : x <= y
<1> DEFINE R == {ss \in Nat \X Nat : ss[1] < ss[2]}
<1>1. IsWellFoundedOn(R, Nat)
  BY NatLessThanWellFounded DEF OpToRel
<1>2. \A y, x \in Nat : y < x => <<y, x>> \in R
  OBVIOUS
<1> HIDE DEF R
<1>3. PICK x \in T : \A y \in T : ~ (<<y, x>> \in R)
  BY <1>1, WFMin
<1>4. ASSUME NEW y \in T PROVE x <= y
  <2>1. x \in Nat /\ y \in Nat
    OBVIOUS
  <2>2. ~ (y < x)
    BY <1>2, <1>3, <2>1, Zenon
  <2> QED
    BY <2>1, <2>2
<1> QED
  BY <1>4

(* f satisfies the recursive equation inside FlattenSeq up to n: f[i] is    *)
(* the concatenation of s[1] to s[i].                                       *)
Chain(s, f, n) ==
    f = [i \in 1..n |-> IF i = 1 THEN s[1] ELSE f[i - 1] \o s[i]]

(* One more member can always be concatenated.                              *)
LEMMA ChainExtends ==
    ASSUME NEW s, NEW n \in Nat, NEW f, Chain(s, f, n)
    PROVE  \E g : Chain(s, g, n + 1)
<1> DEFINE g == [i \in 1..(n + 1) |-> IF i = 1 THEN s[1] ELSE f[i - 1] \o s[i]]
<1>1. \A i \in 1..n : f[i] = IF i = 1 THEN s[1] ELSE f[i - 1] \o s[i]
  BY Zenon DEF Chain
<1>2. \A i \in 1..n : g[i] = f[i]
  BY <1>1
<1>3. \A i \in 1..(n + 1) : i # 1 => g[i - 1] = f[i - 1]
  <2> HIDE DEF g
  <2> QED
    BY <1>2
<1>4. g = [i \in 1..(n + 1) |-> IF i = 1 THEN s[1] ELSE g[i - 1] \o s[i]]
  <2> DEFINE A(i) == IF i = 1 THEN s[1] ELSE f[i - 1] \o s[i]
             B(i) == IF i = 1 THEN s[1] ELSE g[i - 1] \o s[i]
  <2>1. \A i \in 1..(n + 1) : A(i) = B(i)
    <3> HIDE DEF g
    <3> QED
      BY <1>3
  <2>2. g = [i \in 1..(n + 1) |-> A(i)]
    OBVIOUS
  <2> HIDE DEF g, A, B
  <2>3. g = [i \in 1..(n + 1) |-> B(i)]
    BY <2>1, <2>2
  <2> QED
    BY <2>3 DEF B
<1> HIDE DEF g
<1> QED
  BY <1>4 DEF Chain

(* The recursive equation inside FlattenSeq has a solution.                 *)
LEMMA ChainExists ==
    ASSUME NEW s, NEW n \in Nat
    PROVE  \E f : Chain(s, f, n)
<1> DEFINE T == {m \in Nat : ~ \E f : Chain(s, f, m)}
<1>1. SUFFICES ASSUME T # {} PROVE FALSE
  OBVIOUS
<1>2. PICK m \in T : \A k \in T : m <= k
  <2> HIDE DEF T
  <2>1. T \subseteq Nat
    BY DEF T
  <2> QED
    BY <1>1, <2>1, LeastNatural
<1>3. m # 0
  <2>1. Chain(s, [i \in 1..0 |-> IF i = 1 THEN s[1] ELSE << >>], 0)
    BY DEF Chain
  <2> QED
    BY <2>1
<1>4. m - 1 \in Nat /\ m - 1 \notin T /\ (m - 1) + 1 = m
  BY <1>2, <1>3
<1>5. PICK f : Chain(s, f, m - 1)
  BY <1>4
<1>6. \E g : Chain(s, g, (m - 1) + 1)
  BY <1>4, <1>5, ChainExtends
<1> QED
  BY <1>4, <1>6

(* FlattenSeq is the last value of such a solution.                         *)
LEMMA FlattenChain ==
    ASSUME NEW s, Len(s) \in Nat, Len(s) # 0
    PROVE  \E f : Chain(s, f, Len(s)) /\ FlattenSeq(s) = f[Len(s)]
<1> DEFINE f == CHOOSE h : h = [i \in 1..Len(s) |-> IF i = 1 THEN s[i] ELSE h[i - 1] \o s[i]]
<1>1. FlattenSeq(s) = f[Len(s)]
  BY DEF FlattenSeq
<1>2. \E h : h = [i \in 1..Len(s) |-> IF i = 1 THEN s[i] ELSE h[i - 1] \o s[i]]
  <2>1. PICK h : Chain(s, h, Len(s))
    BY ChainExists
  <2>2. h = [i \in 1..Len(s) |-> IF i = 1 THEN s[i] ELSE h[i - 1] \o s[i]]
    BY <2>1 DEF Chain
  <2> QED
    BY <2>2
<1>3. f = [i \in 1..Len(s) |-> IF i = 1 THEN s[i] ELSE f[i - 1] \o s[i]]
  BY <1>2
<1>4. Chain(s, f, Len(s))
  BY <1>3 DEF Chain
<1> QED
  BY <1>1, <1>4

(* Chains of sequences that agree on a prefix agree there, and consist of   *)
(* sequences.                                                               *)
LEMMA ChainPrefix ==
    ASSUME NEW S, NEW s \in Seq(Seq(S)), NEW t \in Seq(Seq(S)),
           Len(s) <= Len(t), \A i \in 1..Len(s) : s[i] = t[i],
           NEW f, Chain(s, f, Len(s)), NEW g, Chain(t, g, Len(t))
    PROVE  \A i \in 1..Len(s) : f[i] = g[i] /\ f[i] \in Seq(S)
<1>1. \A i \in 1..Len(s) : f[i] = IF i = 1 THEN s[1] ELSE f[i - 1] \o s[i]
  BY Zenon DEF Chain
<1>2. \A i \in 1..Len(t) : g[i] = IF i = 1 THEN t[1] ELSE g[i - 1] \o t[i]
  BY Zenon DEF Chain
<1> DEFINE T == {i \in 1..Len(s) : ~ (f[i] = g[i] /\ f[i] \in Seq(S))}
<1>3. SUFFICES ASSUME T # {} PROVE FALSE
  OBVIOUS
<1>4. PICK m \in T : \A k \in T : m <= k
  <2>1. T \subseteq Nat
    OBVIOUS
  <2> HIDE DEF T
  <2> QED
    BY <1>3, <2>1, LeastNatural
<1>5. m # 1
  <2>1. ASSUME m = 1 PROVE f[m] = s[1] /\ g[m] = t[1]
    BY <1>1, <1>2, <2>1
  <2> QED
    BY <2>1
<1>6. m - 1 \in 1..Len(s) /\ m - 1 \notin T
  BY <1>4, <1>5
<1>7. f[m - 1] = g[m - 1] /\ f[m - 1] \in Seq(S)
  BY <1>6
<1>8. m \in 1..Len(s) /\ m \in 1..Len(t) /\ s[m] = t[m] /\ s[m] \in Seq(S)
  OBVIOUS
<1>9. ~ (f[m] = g[m] /\ f[m] \in Seq(S))
  BY <1>4
<1> HIDE DEF T
<1>10. f[m] = f[m - 1] \o s[m]
  BY <1>1, <1>5, <1>8, Zenon
<1>11. g[m] = g[m - 1] \o t[m]
  BY <1>2, <1>5, <1>8, Zenon
<1> QED
  BY <1>7, <1>8, <1>9, <1>10, <1>11

(* No frames make no bytes.                                                 *)
LEMMA FlattenEmpty == FlattenSeq(<< >>) = << >>
  BY DEF FlattenSeq

(* The concatenation of sequences over S is one.                            *)
LEMMA FlattenType ==
    ASSUME NEW S, NEW s \in Seq(Seq(S))
    PROVE  FlattenSeq(s) \in Seq(S)
<1>1. CASE Len(s) = 0
  BY <1>1 DEF FlattenSeq
<1>2. CASE Len(s) # 0
  <2>1. PICK f : Chain(s, f, Len(s)) /\ FlattenSeq(s) = f[Len(s)]
    BY <1>2, FlattenChain
  <2>2. Len(s) \in 1..Len(s)
    BY <1>2
  <2> QED
    BY <2>1, <2>2, ChainPrefix
<1> QED
  BY <1>1, <1>2

(* One more frame is written behind those that are there.                   *)
LEMMA FlattenAppend ==
    ASSUME NEW S, NEW s \in Seq(Seq(S)), NEW e \in Seq(S)
    PROVE  FlattenSeq(Append(s, e)) = FlattenSeq(s) \o e
<1> DEFINE t == Append(s, e)
           n == Len(s)
<1>1. t \in Seq(Seq(S)) /\ Len(t) = n + 1 /\ n \in Nat /\ t[n + 1] = e
      /\ \A i \in 1..n : s[i] = t[i]
  OBVIOUS
<1> HIDE DEF t
<1>2. PICK g : Chain(t, g, Len(t)) /\ FlattenSeq(t) = g[Len(t)]
  BY <1>1, FlattenChain
<1>3. \A i \in 1..(n + 1) : g[i] = IF i = 1 THEN t[1] ELSE g[i - 1] \o t[i]
  BY <1>1, <1>2, Zenon DEF Chain
<1>4. CASE n = 0
  <2>1. FlattenSeq(t) = e
    BY <1>1, <1>2, <1>3, <1>4
  <2>2. s = << >>
    BY <1>4
  <2> QED
    BY <2>1, <2>2, FlattenEmpty DEF t
<1>5. CASE n # 0
  <2>1. PICK f : Chain(s, f, n) /\ FlattenSeq(s) = f[n]
    BY <1>1, <1>5, FlattenChain
  <2>2. n \in 1..n /\ n <= n + 1 /\ n + 1 \in 1..(n + 1) /\ n + 1 # 1 /\ (n + 1) - 1 = n
    BY <1>1, <1>5
  <2>3. f[n] = g[n]
    <3>1. Len(s) <= Len(t) /\ \A i \in 1..Len(s) : s[i] = t[i]
      BY <1>1, <2>2
    <3>2. \A i \in 1..Len(s) : f[i] = g[i] /\ f[i] \in Seq(S)
      BY <1>1, <1>2, <2>1, <3>1, ChainPrefix
    <3> QED
      BY <2>2, <3>2
  <2>4. g[n + 1] = g[n] \o e
    BY <1>1, <1>3, <2>2
  <2> QED
    BY <1>1, <1>2, <2>1, <2>3, <2>4 DEF t
<1> QED
  BY <1>4, <1>5

(* Concatenation is associative; the equation has a name so that provers    *)
(* instantiate the lemma and not the equation.                              *)
Assoc(x, y, z) == (x \o y) \o z = x \o (y \o z)

(* Regrouping the parts of a stream does not change the stream.             *)
LEMMA Associative ==
    ASSUME NEW S, NEW x \in Seq(S), NEW y \in Seq(S), NEW z \in Seq(S)
    PROVE  Assoc(x, y, z)
  BY ConcatAssociative DEF Assoc

(* Taking a part off a sequence and putting it behind another one keeps     *)
(* what both are together, as reads and writes do.                          *)
LEMMA MoveBytes ==
    ASSUME NEW S, NEW s \in Seq(S), NEW t \in Seq(S), NEW n \in 1..Len(t)
    PROVE  /\ s \o SubSeq(t, 1, n) \in Seq(S)
           /\ SubSeq(t, n + 1, Len(t)) \in Seq(S)
           /\ (s \o SubSeq(t, 1, n)) \o SubSeq(t, n + 1, Len(t)) = s \o t
<1> DEFINE u == SubSeq(t, 1, n)
           v == SubSeq(t, n + 1, Len(t))
<1>1. u \in Seq(S) /\ v \in Seq(S)
  OBVIOUS
<1>2. u \o v = t
  BY <1>1
<1> HIDE DEF u, v
<1>3. (s \o u) \o v = s \o (u \o v)
  BY <1>1, ConcatAssociative
<1>4. s \o u \in Seq(S) /\ v \in Seq(S) /\ (s \o u) \o v = s \o t
  BY <1>1, <1>2, <1>3
<1> QED
  BY <1>4 DEF u, v

(* The same, behind what is there already.                                  *)
MovedBehind(r, s, t, n) ==
    (r \o (s \o SubSeq(t, 1, n))) \o SubSeq(t, n + 1, Len(t)) = (r \o s) \o t

(* A read in the middle of a stream changes nothing of the stream.          *)
LEMMA MoveBytesBehind ==
    ASSUME NEW S, NEW r \in Seq(S), NEW s \in Seq(S), NEW t \in Seq(S), NEW n \in 1..Len(t)
    PROVE  MovedBehind(r, s, t, n)
<1>1. r \o s \in Seq(S)
  OBVIOUS
<1>2. SubSeq(t, 1, n) \in Seq(S)
  OBVIOUS
<1>3. Assoc(r, s, SubSeq(t, 1, n))
  BY <1>2, Associative
<1>4. ASSUME NEW q \in Seq(S)
      PROVE  (q \o SubSeq(t, 1, n)) \o SubSeq(t, n + 1, Len(t)) = q \o t
  BY MoveBytes
<1> QED
  BY <1>1, <1>3, <1>4 DEF MovedBehind, Assoc

(* What is appended to the second of two sequences is appended to both.     *)
LEMMA AppendBehind ==
    ASSUME NEW S, NEW s \in Seq(S), NEW t \in Seq(S), NEW e \in S
    PROVE  s \o Append(t, e) = Append(s \o t, e)
<1>1. <<e>> \in Seq(S) /\ s \o t \in Seq(S)
  OBVIOUS
<1>2. Append(t, e) = t \o <<e>> /\ Append(s \o t, e) = (s \o t) \o <<e>>
  BY <1>1, AppendIsConcat
<1>3. (s \o t) \o <<e>> = s \o (t \o <<e>>)
  BY <1>1, ConcatAssociative
<1> QED
  BY <1>2, <1>3
=============================================================================
