---------------------------- MODULE RoutingProofs ----------------------------
(***************************************************************************)
(* What the routing policy guarantees for every alphabet, every file and   *)
(* every name: a group that is accepted is sound however its addresses are *)
(* spelled (GroupsAreSound), and select over the two sorted lists answers  *)
(* what the walk up the name tree would (SelectionIsMostSpecific).         *)
(*                                                                         *)
(* The first rests on the addresses that are kept being canonical, the     *)
(* second on the sort being a permutation in the order of length and on    *)
(* RoutingTable::new having refused equal suffixes.                        *)
(***************************************************************************)
EXTENDS Routing, SequenceFacts, FiniteSetTheorems

(* The length of a sequence, from its domain.                               *)
LEMMA LenDomain ==
    ASSUME NEW n \in Nat, NEW s, DOMAIN s = 1..n
    PROVE  Len(s) = n
  OBVIOUS

LEMMA IntervalEnd ==
    ASSUME NEW m \in Nat, NEW n \in Nat, 1..m = 1..n
    PROVE  m = n
<1>1. m + 1 \notin 1..m /\ n + 1 \notin 1..n
  OBVIOUS
<1>2. m + 1 \notin 1..n /\ n + 1 \notin 1..m
  BY <1>1, Zenon
<1>3. QED BY <1>2

-----------------------------------------------------------------------------
(* Endpoints *)

(* What UpstreamAddress::new lets through, in the form that it keeps.       *)
CanonicalEndpoint(a) ==
    /\ a = [ip |-> a.ip, form |-> a.form, scope |-> a.scope, port |-> a.port]
    /\ a.form \in {"v4", "v6"}
    /\ a.form = "v4" => a.scope = 0
    /\ a.port # 0 /\ a.ip \notin NotUnicast

(* A text is an endpoint of its own host, with its own port or the default, *)
(* or it is refused.                                                        *)
LEMMA EndpointOfText ==
    ASSUME NEW text \in Addresses, ParseListen(text) # {}
    PROVE  \E a, b : /\ ParseAddress(text) = {a} /\ ParseListen(text) = {b}
                     /\ b = Canonical(a) /\ CanonicalEndpoint(b)
                     /\ Host(b) = Host(text) /\ b.port = a.port /\ b.ip = a.ip
<1>1. text.form # "text"
  BY DEF ParseListen, ParseAddress
<1>2. PICK a : a = [text EXCEPT !.port = IF @ = NoPort THEN DefaultPort ELSE @]
  OBVIOUS
<1>3. ParseAddress(text) = {a}
  BY <1>1, <1>2 DEF ParseAddress
<1>4. ParseListen(text) = Endpoint(a)
  BY <1>3 DEF ParseListen
<1>5. /\ text = [ip |-> text.ip, form |-> text.form, scope |-> text.scope, port |-> text.port]
      /\ text.form \in {"v4", "mapped", "v6"}
      /\ text.form = "v4" => text.scope = 0
  <2>1. AddressText(text)
    BY AddressAssumption, Zenon
  <2>2. QED BY <2>1, <1>1 DEF AddressText
<1>6. PICK p : a = [ip |-> text.ip, form |-> text.form, scope |-> text.scope, port |-> p]
  BY <1>2, <1>5
<1>7. a.port # 0 /\ a.ip \notin NotUnicast /\ Endpoint(a) = {Canonical(a)}
  BY <1>4 DEF Endpoint
<1>8. CanonicalEndpoint(Canonical(a)) /\ Host(Canonical(a)) = Host(text)
      /\ Canonical(a).port = a.port /\ Canonical(a).ip = a.ip
  <2>1. CASE text.form = "mapped"
    <3>1. Canonical(a) = [ip |-> text.ip, form |-> "v4", scope |-> 0, port |-> p]
      BY <1>6, <2>1 DEF Canonical
    <3>2. QED
      BY <3>1, <2>1, <1>6, <1>7 DEF CanonicalEndpoint, Host
  <2>2. CASE text.form # "mapped"
    <3>1. Canonical(a) = a
      BY <1>6, <2>2 DEF Canonical
    <3>2. QED
      BY <3>1, <2>2, <1>5, <1>6, <1>7 DEF CanonicalEndpoint, Host
  <2>3. QED BY <2>1, <2>2
<1>9. QED BY <1>3, <1>4, <1>7, <1>8

(* Two endpoints that are kept differently are different places: nothing    *)
(* but the place is left of the spelling.                                   *)
LEMMA PlaceIdentifies ==
    ASSUME NEW a, NEW b, CanonicalEndpoint(a), CanonicalEndpoint(b), Place(a) = Place(b)
    PROVE  a = b
<1>1. a.ip = b.ip /\ a.port = b.port /\ a.form = b.form /\ a.scope = b.scope
  BY DEF CanonicalEndpoint, Place, Host
<1>2. QED BY <1>1 DEF CanonicalEndpoint

(* parse_upstream_group: what it accepts is sound.                          *)
LEMMA ParsedGroupSound ==
    ASSUME NEW texts \in ServerLists, NEW a, CanonicalEndpoint(a),
           NEW g \in ParseGroup(texts, a)
    PROVE  SoundGroup(g, texts, a)
<1> DEFINE endpoints == [i \in DOMAIN texts |-> ParseListen(texts[i])]
<1>1. /\ \A i \in DOMAIN texts :
           endpoints[i] # {} /\ \A x \in ParseAddress(texts[i]) : ~PointsTo(x, a)
      /\ Len(texts) \in 1..MaxUpstreams
      /\ \A i, k \in DOMAIN texts : i < k => endpoints[i] # endpoints[k]
      /\ g = [i \in DOMAIN texts |-> CHOOSE x \in endpoints[i] : TRUE]
  BY DEF ParseGroup
<1>2. PICK n \in Nat : texts \in [1..n -> Addresses]
  <2>1. MaxUpstreams \in Nat
    BY UpstreamAssumption
  <2>2. PICK n \in 0..(MaxUpstreams + 1) : texts \in [1..n -> Addresses]
    BY DEF ServerLists
  <2>3. n \in Nat
    BY <2>1, <2>2
  <2>4. QED BY <2>2, <2>3
<1>3. DOMAIN texts = 1..n /\ Len(texts) = n
  BY <1>2
<1>4. DOMAIN g = 1..n /\ Len(g) = n /\ g # <<>> /\ n <= MaxUpstreams
  <2>1. MaxUpstreams \in Nat
    BY UpstreamAssumption
  <2>2. n \in 1..MaxUpstreams /\ DOMAIN g = 1..n
    BY <1>1, <1>3
  <2>3. n <= MaxUpstreams /\ 1 \in 1..n
    BY <2>1, <2>2
  <2>4. Len(g) = n
    BY <1>2, <2>2, <1>1, LenDomain
  <2>5. g # <<>>
    BY <2>2, <2>3
  <2>6. QED BY <2>2, <2>3, <2>4, <2>5
<1>5. ASSUME NEW i \in 1..n
      PROVE  /\ endpoints[i] = {g[i]} /\ CanonicalEndpoint(g[i]) /\ Host(g[i]) = Host(texts[i])
             /\ <<Host(g[i]), g[i].port>> # <<Host(a), a.port>>
  <2>1. texts[i] \in Addresses /\ endpoints[i] = ParseListen(texts[i]) /\ ParseListen(texts[i]) # {}
    BY <1>1, <1>2, <1>3
  <2>2. PICK x, b : /\ ParseAddress(texts[i]) = {x} /\ ParseListen(texts[i]) = {b}
                    /\ b = Canonical(x) /\ CanonicalEndpoint(b)
                    /\ Host(b) = Host(texts[i]) /\ b.port = x.port /\ b.ip = x.ip
    BY <2>1, EndpointOfText
  <2>3. g[i] = b
    BY <1>1, <1>3, <2>1, <2>2
  <2>4. ~PointsTo(x, a)
    BY <1>1, <1>3, <2>2
  <2>5. Canonical(a).form = a.form
    BY DEF CanonicalEndpoint, Canonical
  <2>6. <<Host(b), b.port>> # <<Host(a), a.port>>
    BY <2>2, <2>4, <2>5 DEF PointsTo, CanonicalEndpoint, Host
  <2>7. QED BY <2>1, <2>2, <2>3, <2>6
<1>6. ASSUME NEW i \in 1..n, NEW k \in 1..n, i # k
      PROVE  Place(g[i]) # Place(g[k])
  <2>1. endpoints[i] # endpoints[k]
    BY <1>1, <1>3, <1>6
  <2>2. g[i] # g[k]
    BY <2>1, <1>5
  <2>3. QED BY <2>2, <1>5, PlaceIdentifies
<1> HIDE DEF endpoints
<1>7. \A i \in 1..n : g[i].port # 0 /\ g[i].ip \notin NotUnicast
  BY <1>5 DEF CanonicalEndpoint
<1>8. QED BY <1>4, <1>5, <1>6, <1>7 DEF SoundGroup

-----------------------------------------------------------------------------
(* Accepted groups *)

(* The listener is an endpoint once it was read, and a group is what        *)
(* parse_upstream_group made of the servers and that listener.              *)
GroupInv ==
    /\ phase \in {"listen", "default", "group", "loading", "rejected", "serving"}
    /\ phase = "listen" => group = {}
    /\ phase = "default" => group = {} /\ \E a : CanonicalEndpoint(a) /\ listen = {a}
    /\ group # {} =>
         /\ servers \in ServerLists
         /\ \E a : CanonicalEndpoint(a) /\ listen = {a} /\ group = ParseGroup(servers, a)

LEMMA GroupInvInit == Init => GroupInv
  BY DEF Init, GroupInv

LEMMA GroupInvStep ==
    ASSUME GroupInv, [Next]_vars PROVE GroupInv'
<1>1. ASSUME NEW text \in Addresses, ReadListen(text) PROVE GroupInv'
  <2>1. CASE listen' = {}
    BY <1>1, <2>1 DEF ReadListen, GroupInv
  <2>2. CASE listen' # {}
    <3>1. \E a : CanonicalEndpoint(a) /\ listen' = {a}
      BY <1>1, <2>2, EndpointOfText DEF ReadListen
    <3>2. QED BY <1>1, <2>2, <3>1 DEF ReadListen, GroupInv
  <2>3. QED BY <2>1, <2>2
<1>2. ASSUME NEW texts \in ServerLists, ReadDefault(texts) PROVE GroupInv'
  <2>1. PICK a : CanonicalEndpoint(a) /\ listen = {a}
    BY <1>2 DEF ReadDefault, GroupInv
  <2>2. group' = ParseGroup(texts, a) /\ servers' = texts /\ listen' = listen
        /\ phase' \in {"rejected", "group"}
    BY <1>2, <2>1 DEF ReadDefault
  <2>3. QED BY <2>1, <2>2 DEF GroupInv
<1>3. CASE NoDefault \/ AcceptDefault
  BY <1>3 DEF NoDefault, AcceptDefault, GroupInv
<1>4. CASE UNCHANGED upstreams /\ phase' \in {phase, "rejected", "serving"}
  BY <1>4 DEF upstreams, GroupInv
<1>5. ASSUME NEW suffix \in RuleNames, ReadRoute(suffix) \/ ReadLocal(suffix)
      PROVE  UNCHANGED upstreams /\ phase' \in {phase, "rejected", "serving"}
  BY <1>5 DEF ReadRoute, ReadLocal
<1>6. ASSUME BadEntry \/ Build \/ Rejected \/ UNCHANGED vars
      PROVE  UNCHANGED upstreams /\ phase' \in {phase, "rejected", "serving"}
  BY <1>6 DEF BadEntry, Build, Rejected, vars
<1>7. ASSUME NEW name \in Queries, Ask(name)
      PROVE  UNCHANGED upstreams /\ phase' \in {phase, "rejected", "serving"}
  BY <1>7 DEF Ask
<1>8. QED BY <1>1, <1>2, <1>3, <1>4, <1>5, <1>6, <1>7 DEF Next

(* Config::parse never accepts a group that names a place twice, the        *)
(* listener or a host that is no endpoint, in whatever spelling, for any    *)
(* set of addresses and any MAX_UPSTREAMS.                                  *)
THEOREM GroupsAreSound == Spec => []GroupsSound
<1>1. GroupInv => GroupsSound
  <2> SUFFICES ASSUME GroupInv, NEW g \in group, NEW a \in listen
               PROVE  SoundGroup(g, servers, a)
    BY DEF GroupsSound
  <2>1. servers \in ServerLists /\ CanonicalEndpoint(a) /\ g \in ParseGroup(servers, a)
    BY DEF GroupInv
  <2>2. QED BY <2>1, ParsedGroupSound
<1>2. GroupInv /\ [Next]_vars => GroupInv'
  BY GroupInvStep
<1>3. QED BY <1>1, <1>2, GroupInvInit, PTL DEF Spec

-----------------------------------------------------------------------------
(* The sort *)

(* Rule k comes before rule i, and how many rules do.                       *)
Earlier(rules, k, i) ==
    \/ Len(rules[k]) > Len(rules[i])
    \/ Len(rules[k]) = Len(rules[i]) /\ k < i
AllBefore(rules, i) == {k \in DOMAIN rules : Earlier(rules, k, i)}
Rank(rules, i) == Cardinality(AllBefore(rules, i)) + 1

AtRank(rules, p) == CHOOSE i \in DOMAIN rules : Rank(rules, i) = p

LEMMA SortedByRank ==
    ASSUME NEW rules
    PROVE  Sorted(rules) = [p \in DOMAIN rules |-> rules[AtRank(rules, p)]]
  BY DEF Sorted, AtRank, Rank, AllBefore, Earlier

LEMMA AtRankIsThere ==
    ASSUME NEW rules, NEW p, NEW i \in DOMAIN rules, Rank(rules, i) = p
    PROVE  AtRank(rules, p) \in DOMAIN rules /\ Rank(rules, AtRank(rules, p)) = p
  BY Zenon DEF AtRank

(* A list of rules, and the length of each of them.                         *)
RuleList(rules) ==
    /\ Len(rules) \in Nat /\ DOMAIN rules = 1..Len(rules)
    /\ \A i \in 1..Len(rules) : Len(rules[i]) \in Nat

(* Ranks are positions, and they are in the order of Earlier.               *)
LEMMA RankType ==
    ASSUME NEW rules, RuleList(rules), NEW i \in 1..Len(rules)
    PROVE  /\ Rank(rules, i) \in 1..Len(rules)
           /\ IsFiniteSet(AllBefore(rules, i)) /\ Cardinality(AllBefore(rules, i)) \in Nat
<1> DEFINE n == Len(rules)
           B == AllBefore(rules, i)
<1>1. n \in Nat /\ DOMAIN rules = 1..n /\ Len(rules[i]) \in Nat
  BY DEF RuleList
<1>2. IsFiniteSet(1..n) /\ Cardinality(1..n) = n
  <2>1. IsFiniteSet(1..n) /\ Cardinality(1..n) = IF 1 > n THEN 0 ELSE n - 1 + 1
    BY <1>1, FS_Interval
  <2>2. QED BY <1>1, <2>1
<1>3. IsFiniteSet((1..n) \ {i}) /\ Cardinality((1..n) \ {i}) = n - 1
  BY <1>2, FS_RemoveElement
<1>4. B \subseteq (1..n) \ {i}
  BY <1>1 DEF AllBefore, Earlier
<1>5. IsFiniteSet(B) /\ Cardinality(B) <= n - 1
  BY <1>3, <1>4, FS_Subset
<1>6. Cardinality(B) \in Nat
  BY <1>5, FS_CardinalityType
<1>7. QED BY <1>1, <1>5, <1>6 DEF Rank

LEMMA RankOrder ==
    ASSUME NEW rules, RuleList(rules), NEW i \in 1..Len(rules), NEW k \in 1..Len(rules),
           Earlier(rules, i, k)
    PROVE  Rank(rules, i) < Rank(rules, k)
<1> DEFINE A == AllBefore(rules, i)
           B == AllBefore(rules, k)
<1>1. \A j \in 1..Len(rules) : Len(rules[j]) \in Nat
  BY DEF RuleList
<1>2. DOMAIN rules = 1..Len(rules)
  BY DEF RuleList
<1>3. A \subseteq B /\ i \in B /\ i \notin A
  BY <1>1, <1>2 DEF AllBefore, Earlier
<1>4. IsFiniteSet(A) /\ IsFiniteSet(B) /\ Cardinality(A) \in Nat /\ Cardinality(B) \in Nat
  BY RankType
<1>5. Cardinality(A) <= Cardinality(B) /\ Cardinality(A) # Cardinality(B)
  BY <1>3, <1>4, FS_Subset
<1>6. QED BY <1>4, <1>5 DEF Rank

LEMMA RankInjective ==
    ASSUME NEW rules, RuleList(rules), NEW i \in 1..Len(rules), NEW k \in 1..Len(rules),
           Rank(rules, i) = Rank(rules, k)
    PROVE  i = k
<1>1. Rank(rules, i) \in 1..Len(rules) /\ Rank(rules, k) \in 1..Len(rules) /\ Len(rules) \in Nat
  BY RankType DEF RuleList
<1>2. ~Earlier(rules, i, k) /\ ~Earlier(rules, k, i)
  BY <1>1, RankOrder
<1>3. Len(rules[i]) \in Nat /\ Len(rules[k]) \in Nat
  BY DEF RuleList
<1>4. QED BY <1>1, <1>2, <1>3 DEF Earlier

(* Every position is the rank of exactly one rule.                          *)
LEMMA RankSurjective ==
    ASSUME NEW rules, RuleList(rules), NEW p \in 1..Len(rules)
    PROVE  \E i \in 1..Len(rules) : Rank(rules, i) = p
<1> DEFINE n == Len(rules)
           f == [i \in 1..n |-> Rank(rules, i)]
<1>1. n \in Nat
  BY DEF RuleList
<1>2. IsFiniteSet(1..n)
  BY <1>1, FS_Interval
<1>3. f \in [1..n -> 1..n]
  BY RankType
<1>4. \A i, k \in 1..n : f[i] = f[k] => i = k
  BY RankInjective
<1>5. f \in Injection(1..n, 1..n)
  BY <1>3, <1>4, Zenon DEF Injection, IsInjective
<1>6. f \in Surjection(1..n, 1..n)
  BY <1>2, <1>5, FS_Injection
<1>7. QED BY <1>6 DEF Surjection

(* sort_by_key(Reverse(label_count)) moves every rule to its rank: no rule  *)
(* is lost or doubled, longer suffixes come first, and equally long ones    *)
(* keep their order.  No bound on the length of the list is assumed.        *)
THEOREM SortIsStablePermutation ==
    ASSUME NEW rules, RuleList(rules)
    PROVE  /\ DOMAIN Sorted(rules) = 1..Len(rules)
           /\ \A i \in 1..Len(rules) : Rank(rules, i) \in 1..Len(rules)
                                       /\ Sorted(rules)[Rank(rules, i)] = rules[i]
           /\ \A p \in 1..Len(rules) : \E i \in 1..Len(rules) :
                Rank(rules, i) = p /\ Sorted(rules)[p] = rules[i]
           /\ \A i, k \in 1..Len(rules) :
                Rank(rules, i) < Rank(rules, k) <=> Earlier(rules, i, k)
<1> DEFINE n == Len(rules)
           t == Sorted(rules)
<1>1. n \in Nat /\ DOMAIN rules = 1..n
  BY DEF RuleList
<1>2. DOMAIN t = 1..n /\ \A p \in 1..n : t[p] = rules[AtRank(rules, p)]
  BY <1>1, SortedByRank
<1> HIDE DEF t
<1>3. ASSUME NEW i \in 1..n
      PROVE  Rank(rules, i) \in 1..n /\ t[Rank(rules, i)] = rules[i]
  <2>1. Rank(rules, i) \in 1..n
    BY RankType
  <2>2. PICK j : j = AtRank(rules, Rank(rules, i))
    OBVIOUS
  <2>3. j \in 1..n /\ Rank(rules, j) = Rank(rules, i)
    BY <1>1, <2>2, AtRankIsThere
  <2>4. j = i
    BY <2>3, RankInjective
  <2>5. QED BY <1>2, <2>1, <2>2, <2>4
<1>4. ASSUME NEW p \in 1..n
      PROVE  \E i \in 1..n : Rank(rules, i) = p /\ t[p] = rules[i]
  <2>1. PICK i \in 1..n : Rank(rules, i) = p
    BY RankSurjective
  <2>2. t[Rank(rules, i)] = rules[i]
    BY <1>3
  <2>3. QED BY <2>1, <2>2
<1>5. ASSUME NEW i \in 1..n, NEW k \in 1..n
      PROVE  Rank(rules, i) < Rank(rules, k) <=> Earlier(rules, i, k)
  <2>1. Rank(rules, i) \in Nat /\ Rank(rules, k) \in Nat
    BY <1>1, <1>3
  <2>2. Len(rules[i]) \in Nat /\ Len(rules[k]) \in Nat
    BY DEF RuleList
  <2>3. i = k \/ Earlier(rules, i, k) \/ Earlier(rules, k, i)
    BY <1>1, <2>2 DEF Earlier
  <2>4. Earlier(rules, i, k) => Rank(rules, i) < Rank(rules, k)
    BY RankOrder
  <2>5. Earlier(rules, k, i) => Rank(rules, k) < Rank(rules, i)
    BY RankOrder
  <2>6. QED BY <2>1, <2>3, <2>4, <2>5
<1>6. DOMAIN t = 1..n
  BY <1>2
<1>7. QED BY <1>3, <1>4, <1>5, <1>6 DEF t

-----------------------------------------------------------------------------
(* Names *)

LEMMA NameType ==
    ASSUME NEW n \in Nat, NEW s \in NamesUpTo(n)
    PROVE  Len(s) \in Nat /\ DOMAIN s = 1..Len(s) /\ \A i \in 1..Len(s) : s[i] \in Labels
<1>1. PICK k \in 0..n : s \in [1..k -> Labels]
  BY DEF NamesUpTo
<1>2. k \in Nat /\ DOMAIN s = 1..k
  BY <1>1
<1>3. Len(s) = k
  BY <1>2, LenDomain
<1>4. QED BY <1>1, <1>2, <1>3

LEMMA RuleNameType ==
    ASSUME NEW s \in RuleNames
    PROVE  Len(s) \in Nat /\ DOMAIN s = 1..Len(s)
  BY NameType, RoutingAssumption DEF RuleNames

LEMMA QueryType ==
    ASSUME NEW name \in Queries
    PROVE  Len(name) \in Nat /\ DOMAIN name = 1..Len(name)
  BY NameType, RoutingAssumption DEF Queries

LEMMA RulesType ==
    ASSUME NEW rules \in Seq(RuleNames)
    PROVE  RuleList(rules) /\ \A i \in DOMAIN rules : rules[i] \in RuleNames
<1>1. Len(rules) \in Nat /\ DOMAIN rules = 1..Len(rules)
      /\ \A i \in DOMAIN rules : rules[i] \in RuleNames
  OBVIOUS
<1>2. QED BY <1>1, RuleNameType DEF RuleList

(* Two suffixes of one name that are equally long are the same name.        *)
LEMMA OnePerLevel ==
    ASSUME NEW name \in Queries, NEW s \in RuleNames, NEW t \in RuleNames,
           IsSubdomainOf(name, s), IsSubdomainOf(name, t), Len(s) = Len(t)
    PROVE  SameName(s, t)
<1>1. Len(s) \in Nat
  BY RuleNameType
<1>2. \A i \in 0..(Len(s) - 1) : Fold[name[Len(name) - i]] = Fold[s[Len(s) - i]]
  BY DEF IsSubdomainOf
<1>3. \A i \in 0..(Len(s) - 1) : Fold[name[Len(name) - i]] = Fold[t[Len(s) - i]]
  BY DEF IsSubdomainOf
<1>4. QED BY <1>1, <1>2, <1>3 DEF SameName, IsSubdomainOf

(* The ancestor of a name with k labels, in lower case, is a suffix in      *)
(* lower case exactly if is_subdomain_of holds and the suffix has k labels. *)
LEMMA AncestorIsSuffix ==
    ASSUME NEW name \in Queries, NEW s \in RuleNames, NEW k \in 0..Len(name)
    PROVE  Lower(s) = LastLabels(name, k) <=> Len(s) = k /\ IsSubdomainOf(name, s)
<1> DEFINE n == Len(name)
<1>1. n \in Nat /\ k \in Nat /\ k <= n /\ Len(s) \in Nat /\ DOMAIN s = 1..Len(s)
  BY QueryType, RuleNameType
<1>2. Lower(s) = [i \in 1..Len(s) |-> Fold[s[i]]]
  BY <1>1 DEF Lower
<1>3. LastLabels(name, k) = [i \in 1..k |-> Fold[name[n - k + i]]]
  BY DEF LastLabels
<1>4. ASSUME Lower(s) = LastLabels(name, k) PROVE Len(s) = k /\ IsSubdomainOf(name, s)
  <2>1. 1..Len(s) = 1..k
    BY <1>2, <1>3, <1>4
  <2>2. Len(s) = k
    BY <1>1, <2>1, IntervalEnd
  <2>3. \A i \in 1..k : Fold[s[i]] = Fold[name[n - k + i]]
    BY <1>2, <1>3, <1>4, <2>2
  <2>4. ASSUME NEW i \in 0..(k - 1) PROVE Fold[name[n - i]] = Fold[s[k - i]]
    <3>1. k - i \in 1..k /\ n - k + (k - i) = n - i
      BY <1>1
    <3>2. QED BY <2>3, <3>1
  <2>5. QED BY <1>1, <2>2, <2>4 DEF IsSubdomainOf
<1>5. ASSUME Len(s) = k, IsSubdomainOf(name, s) PROVE Lower(s) = LastLabels(name, k)
  <2>1. \A i \in 0..(k - 1) : Fold[name[n - i]] = Fold[s[k - i]]
    BY <1>5 DEF IsSubdomainOf
  <2>2. ASSUME NEW i \in 1..k PROVE Fold[s[i]] = Fold[name[n - k + i]]
    <3>1. k - i \in 0..(k - 1) /\ n - (k - i) = n - k + i /\ k - (k - i) = i
      BY <1>1
    <3>2. QED BY <2>1, <3>1
  <2>3. QED BY <1>2, <1>3, <1>5, <2>2
<1>6. QED BY <1>4, <1>5

-----------------------------------------------------------------------------
(* Iterator::find over a sorted list *)

LEMMA FindFirst ==
    ASSUME NEW rules, NEW n \in Nat, DOMAIN rules = 1..n, NEW name
    PROVE  \/ Find(rules, name) = 0 /\ \A p \in 1..n : ~IsSubdomainOf(name, rules[p])
           \/ /\ Find(rules, name) \in 1..n /\ IsSubdomainOf(name, rules[Find(rules, name)])
              /\ \A p \in 1..n : IsSubdomainOf(name, rules[p]) => Find(rules, name) <= p
<1> DEFINE hits == {i \in DOMAIN rules : IsSubdomainOf(name, rules[i])}
<1>1. CASE hits = {}
  BY <1>1 DEF Find
<1>2. CASE hits # {}
  <2>1. hits \subseteq Nat
    OBVIOUS
  <2>2. \E i \in hits : \A k \in hits : i <= k
    BY <1>2, <2>1, LeastNatural
  <2>3. Find(rules, name) = CHOOSE i \in hits : \A k \in hits : i <= k
    BY <1>2 DEF Find
  <2>4. Find(rules, name) \in hits /\ \A k \in hits : Find(rules, name) <= k
    BY <2>2, <2>3
  <2>5. QED BY <2>4
<1>3. QED BY <1>1, <1>2

(* The rules of the file that a name falls under: none, or the longest.     *)
NoMatch(rules, name) == \A i \in DOMAIN rules : ~IsSubdomainOf(name, rules[i])
AtMost(rules, name, s) ==
    \A i \in DOMAIN rules : IsSubdomainOf(name, rules[i]) => Len(rules[i]) <= Len(s)
Longest(rules, name, s) ==
    /\ s \in RuleNames /\ IsSubdomainOf(name, s)
    /\ \E i \in DOMAIN rules : rules[i] = s
    /\ AtMost(rules, name, s)

(* The first hit in the sorted list is the longest match of the file.       *)
LEMMA FindLongest ==
    ASSUME NEW rules \in Seq(RuleNames), NEW t, t = Sorted(rules), NEW name
    PROVE  \/ Find(t, name) = 0 /\ NoMatch(rules, name)
           \/ Find(t, name) # 0 /\ Longest(rules, name, t[Find(t, name)])
<1> DEFINE n == Len(rules)
<1>1. RuleList(rules) /\ n \in Nat /\ DOMAIN rules = 1..n
      /\ \A i \in 1..n : rules[i] \in RuleNames /\ Len(rules[i]) \in Nat
  BY RulesType DEF RuleList
<1>2. /\ DOMAIN t = 1..n
      /\ \A i \in 1..n : Rank(rules, i) \in 1..n /\ t[Rank(rules, i)] = rules[i]
      /\ \A p \in 1..n : \E i \in 1..n : Rank(rules, i) = p /\ t[p] = rules[i]
      /\ \A i, k \in 1..n : Rank(rules, i) < Rank(rules, k) <=> Earlier(rules, i, k)
  BY <1>1, SortIsStablePermutation
<1>3. CASE Find(t, name) = 0 /\ \A p \in 1..n : ~IsSubdomainOf(name, t[p])
  <2>1. \A i \in 1..n : ~IsSubdomainOf(name, rules[i])
    BY <1>2, <1>3
  <2>2. QED BY <1>1, <1>3, <2>1 DEF NoMatch
<1>4. CASE /\ Find(t, name) \in 1..n /\ IsSubdomainOf(name, t[Find(t, name)])
           /\ \A p \in 1..n : IsSubdomainOf(name, t[p]) => Find(t, name) <= p
  <2>1. PICK f : f = Find(t, name)
    OBVIOUS
  <2>2. PICK i \in 1..n : Rank(rules, i) = f /\ t[f] = rules[i]
    BY <1>2, <1>4, <2>1
  <2>3. ASSUME NEW k \in 1..n, IsSubdomainOf(name, rules[k])
        PROVE  Len(rules[k]) <= Len(rules[i])
    <3>1. IsSubdomainOf(name, t[Rank(rules, k)]) /\ Rank(rules, k) \in 1..n
      BY <1>2, <2>3
    <3>2. f <= Rank(rules, k)
      BY <1>4, <2>1, <3>1
    <3>3. ~(Rank(rules, k) < Rank(rules, i))
      BY <1>1, <1>4, <2>1, <2>2, <3>1, <3>2
    <3>4. ~Earlier(rules, k, i)
      BY <1>2, <3>3
    <3>5. QED BY <1>1, <3>4 DEF Earlier
  <2>4. f # 0 /\ IsSubdomainOf(name, t[f])
    BY <1>4, <2>1
  <2>5. Longest(rules, name, t[f])
    BY <1>1, <2>2, <2>3, <2>4 DEF Longest, AtMost
  <2>6. QED BY <2>1, <2>4, <2>5
<1>5. QED BY <1>1, <1>2, <1>3, <1>4, FindFirst

-----------------------------------------------------------------------------
(* The walk up the tree *)

Listed(kind, name, k) ==
    {s \in RuleNames : Lower(s) = LastLabels(name, k)
                       /\ \E i \in DOMAIN written[kind] : written[kind][i] = s}
Levels(name) ==
    {k \in 0..Len(name) : Listed("routes", name, k) \cup Listed("local", name, k) # {}}

(* What the reference allows, if entries are found at no level, and if the  *)
(* highest level with an entry is known.                                    *)
LEMMA NoLevel ==
    ASSUME NEW name, Levels(name) = {}
    PROVE  MostSpecific(name) = {Chosen(IF default THEN "Default" ELSE "Unmatched", <<>>)}
  BY DEF MostSpecific, Levels, Listed

LEMMA TopLevel ==
    ASSUME NEW name, Len(name) \in Nat,
           NEW k \in Levels(name), \A m \in Levels(name) : m <= k
    PROVE  MostSpecific(name) = {Chosen("Routed", s) : s \in Listed("routes", name, k)}
                                  \cup {Chosen("Local", s) : s \in Listed("local", name, k)}
<1> DEFINE top == CHOOSE j \in Levels(name) : \A m \in Levels(name) : m <= j
<1>1. Levels(name) \subseteq Nat
  BY DEF Levels
<1>2. top \in Levels(name) /\ \A m \in Levels(name) : m <= top
  OBVIOUS
<1>3. top = k
  BY <1>1, <1>2
<1>4. MostSpecific(name) = {Chosen("Routed", s) : s \in Listed("routes", name, top)}
                             \cup {Chosen("Local", s) : s \in Listed("local", name, top)}
  BY DEF MostSpecific, Levels, Listed
<1>5. QED BY <1>3, <1>4

MatchesAt(rules, name, k) ==
    {s \in RuleNames : Len(s) = k /\ IsSubdomainOf(name, s)
                       /\ \E i \in DOMAIN rules : rules[i] = s}

(* The rules listed at a level are those of the file that match.            *)
LEMMA ListedMatches ==
    ASSUME NEW name \in Queries, NEW k \in 0..Len(name), NEW kind, NEW rules \in Seq(RuleNames),
           written[kind] = rules
    PROVE  Listed(kind, name, k) = MatchesAt(rules, name, k)
<1>1. \A s \in RuleNames : Lower(s) = LastLabels(name, k) <=> Len(s) = k /\ IsSubdomainOf(name, s)
  BY AncestorIsSuffix
<1>2. Listed(kind, name, k) = {s \in RuleNames : Lower(s) = LastLabels(name, k)
                                                 /\ \E i \in DOMAIN rules : rules[i] = s}
  BY DEF Listed
<1>3. QED BY <1>1, <1>2 DEF MatchesAt

(* No rule of one list is the name of a rule of the other.                  *)
Apart(rules, others) ==
    \A i \in DOMAIN rules, k \in DOMAIN others :
        ~SameName(rules[i], others[k]) \/ ~SameName(others[k], rules[i])

(* What is listed from the level of the longest match upwards: this match,  *)
(* and nothing else.                                                        *)
OnlyListed(name, kind, other, s) ==
    /\ Len(s) \in 0..Len(name)
    /\ Listed(kind, name, Len(s)) = {s} /\ Listed(other, name, Len(s)) = {}
    /\ \A m \in 0..Len(name) :
         Listed(kind, name, m) # {} \/ Listed(other, name, m) # {} => m <= Len(s)

LEMMA LongestIsOnlyListed ==
    ASSUME NEW name \in Queries, NEW rules \in Seq(RuleNames), NEW others \in Seq(RuleNames),
           NEW kind, NEW other, written[kind] = rules, written[other] = others,
           ~DuplicateRoute(rules), Apart(rules, others),
           NEW s, Longest(rules, name, s), AtMost(others, name, s)
    PROVE  OnlyListed(name, kind, other, s)
<1>1. s \in RuleNames /\ IsSubdomainOf(name, s) /\ AtMost(rules, name, s)
  BY DEF Longest
<1>2. PICK i \in DOMAIN rules : rules[i] = s
  BY DEF Longest
<1>3. Len(name) \in Nat /\ Len(s) \in Nat
  BY <1>1, QueryType, RuleNameType
<1>4. Len(s) \in 0..Len(name)
  BY <1>1, <1>3 DEF IsSubdomainOf
<1>5. /\ Len(rules) \in Nat /\ DOMAIN rules = 1..Len(rules)
      /\ \A j \in DOMAIN rules : rules[j] \in RuleNames
      /\ \A j \in DOMAIN others : others[j] \in RuleNames
  OBVIOUS
<1>6. ASSUME NEW j \in DOMAIN rules, Len(rules[j]) = Len(s), IsSubdomainOf(name, rules[j])
      PROVE  rules[j] = s
  <2>1. SameName(rules[i], rules[j]) /\ SameName(rules[j], rules[i])
    BY <1>1, <1>2, <1>5, <1>6, OnePerLevel
  <2>2. ~(i < j) /\ ~(j < i)
    BY <2>1 DEF DuplicateRoute
  <2>3. i = j
    BY <1>5, <2>2
  <2>4. QED BY <1>2, <2>3
<1>7. ASSUME NEW j \in DOMAIN others, Len(others[j]) = Len(s), IsSubdomainOf(name, others[j])
      PROVE  FALSE
  <2>1. SameName(rules[i], others[j]) /\ SameName(others[j], rules[i])
    BY <1>1, <1>2, <1>5, <1>7, OnePerLevel
  <2>2. QED BY <2>1 DEF Apart
<1>8. Listed(kind, name, Len(s)) = {s}
  <2>1. Listed(kind, name, Len(s)) = MatchesAt(rules, name, Len(s))
    BY <1>4, ListedMatches
  <2>2. QED BY <1>1, <1>2, <1>6, <2>1 DEF MatchesAt
<1>9. Listed(other, name, Len(s)) = {}
  <2>1. Listed(other, name, Len(s)) = MatchesAt(others, name, Len(s))
    BY <1>4, ListedMatches
  <2>2. QED BY <1>7, <2>1 DEF MatchesAt
<1>10. ASSUME NEW m \in 0..Len(name), Listed(kind, name, m) # {} \/ Listed(other, name, m) # {}
       PROVE  m <= Len(s)
  <2>1. Listed(kind, name, m) = MatchesAt(rules, name, m)
    BY ListedMatches
  <2>2. Listed(other, name, m) = MatchesAt(others, name, m)
    BY ListedMatches
  <2>3. \/ \E j \in DOMAIN rules : Len(rules[j]) = m /\ IsSubdomainOf(name, rules[j])
        \/ \E j \in DOMAIN others : Len(others[j]) = m /\ IsSubdomainOf(name, others[j])
    BY <1>10, <2>1, <2>2 DEF MatchesAt
  <2>4. QED BY <1>1, <2>3 DEF AtMost
<1>11. QED BY <1>4, <1>8, <1>9, <1>10 DEF OnlyListed

(* Then the reference allows this match only.                               *)
LEMMA RouteDecides ==
    ASSUME NEW name \in Queries, NEW s, OnlyListed(name, "routes", "local", s)
    PROVE  MostSpecific(name) = {Chosen("Routed", s)}
<1>1. Len(name) \in Nat
  BY QueryType
<1>2. Len(s) \in Levels(name) /\ \A m \in Levels(name) : m <= Len(s)
  BY DEF OnlyListed, Levels
<1>3. MostSpecific(name) = {Chosen("Routed", x) : x \in Listed("routes", name, Len(s))}
                             \cup {Chosen("Local", x) : x \in Listed("local", name, Len(s))}
  BY <1>1, <1>2, TopLevel
<1>4. QED BY <1>3 DEF OnlyListed

LEMMA LocalDecides ==
    ASSUME NEW name \in Queries, NEW s, OnlyListed(name, "local", "routes", s)
    PROVE  MostSpecific(name) = {Chosen("Local", s)}
<1>1. Len(name) \in Nat
  BY QueryType
<1>2. Len(s) \in Levels(name) /\ \A m \in Levels(name) : m <= Len(s)
  BY DEF OnlyListed, Levels
<1>3. MostSpecific(name) = {Chosen("Routed", x) : x \in Listed("routes", name, Len(s))}
                             \cup {Chosen("Local", x) : x \in Listed("local", name, Len(s))}
  BY <1>1, <1>2, TopLevel
<1>4. QED BY <1>3 DEF OnlyListed

LEMMA DefaultDecides ==
    ASSUME NEW name \in Queries, written.routes \in Seq(RuleNames), written.local \in Seq(RuleNames),
           NoMatch(written.routes, name), NoMatch(written.local, name)
    PROVE  MostSpecific(name) = {Chosen(IF default THEN "Default" ELSE "Unmatched", <<>>)}
<1>1. ASSUME NEW k \in Levels(name) PROVE FALSE
  <2>1. k \in 0..Len(name)
    BY DEF Levels
  <2>2. Listed("routes", name, k) = MatchesAt(written.routes, name, k)
    BY <2>1, ListedMatches
  <2>3. Listed("local", name, k) = MatchesAt(written.local, name, k)
    BY <2>1, ListedMatches
  <2>4. Listed("routes", name, k) = {} /\ Listed("local", name, k) = {}
    BY <2>2, <2>3 DEF NoMatch, MatchesAt
  <2>5. QED BY <2>4 DEF Levels
<1>2. QED BY <1>1, NoLevel

-----------------------------------------------------------------------------
(* select *)

LEMMA SelectIsMostSpecific ==
    ASSUME NEW name \in Queries, written.routes \in Seq(RuleNames), written.local \in Seq(RuleNames),
           ~Duplicates(written.routes, written.local),
           routes = Sorted(written.routes), local = Sorted(written.local)
    PROVE  MostSpecific(name) = {Select(name)}
<1>1. PICK rs \in Seq(RuleNames) : rs = written.routes
  OBVIOUS
<1>2. PICK ls \in Seq(RuleNames) : ls = written.local
  OBVIOUS
<1>3. PICK r : r = Find(routes, name)
  OBVIOUS
<1>4. PICK l : l = Find(local, name)
  OBVIOUS
<1>5. \/ r = 0 /\ NoMatch(rs, name)
      \/ r # 0 /\ Longest(rs, name, routes[r])
  BY <1>1, <1>3, FindLongest
<1>6. \/ l = 0 /\ NoMatch(ls, name)
      \/ l # 0 /\ Longest(ls, name, local[l])
  BY <1>2, <1>4, FindLongest
<1>7. ~DuplicateRoute(rs) /\ ~DuplicateRoute(ls) /\ Apart(rs, ls) /\ Apart(ls, rs)
  BY <1>1, <1>2 DEF Duplicates, Apart
<1>8. CASE r # 0 /\ (l = 0 \/ Len(routes[r]) > Len(local[l]))
  <2>1. AtMost(ls, name, routes[r])
    <3>1. CASE l = 0
      BY <3>1, <1>6 DEF NoMatch, AtMost
    <3>2. CASE l # 0 /\ Len(routes[r]) > Len(local[l])
      <4>1. \A i \in DOMAIN ls : IsSubdomainOf(name, ls[i]) => Len(ls[i]) <= Len(local[l])
        BY <1>6, <3>2 DEF Longest, AtMost
      <4>2. \A i \in DOMAIN ls : Len(ls[i]) \in Nat
        BY <1>2, RulesType DEF RuleList
      <4>3. Len(routes[r]) \in Nat /\ Len(local[l]) \in Nat
        BY <1>5, <1>6, <1>8, <3>2, RuleNameType DEF Longest
      <4>4. QED BY <3>2, <4>1, <4>2, <4>3 DEF AtMost
    <3>3. QED BY <1>8, <3>1, <3>2
  <2>2. OnlyListed(name, "routes", "local", routes[r])
    BY <1>1, <1>2, <1>5, <1>7, <1>8, <2>1, LongestIsOnlyListed
  <2>3. MostSpecific(name) = {Chosen("Routed", routes[r])}
    BY <2>2, RouteDecides
  <2>4. Select(name) = Chosen("Routed", routes[r])
    BY <1>3, <1>4, <1>8 DEF Select
  <2>5. QED BY <2>3, <2>4
<1>9. CASE l # 0 /\ ~(r # 0 /\ Len(routes[r]) > Len(local[l]))
  <2>1. AtMost(rs, name, local[l])
    <3>1. CASE r = 0
      BY <3>1, <1>5 DEF NoMatch, AtMost
    <3>2. CASE r # 0 /\ ~(Len(routes[r]) > Len(local[l]))
      <4>1. \A i \in DOMAIN rs : IsSubdomainOf(name, rs[i]) => Len(rs[i]) <= Len(routes[r])
        BY <1>5, <3>2 DEF Longest, AtMost
      <4>2. \A i \in DOMAIN rs : Len(rs[i]) \in Nat
        BY <1>1, RulesType DEF RuleList
      <4>3. Len(routes[r]) \in Nat /\ Len(local[l]) \in Nat
        BY <1>5, <1>6, <1>9, <3>2, RuleNameType DEF Longest
      <4>4. QED BY <3>2, <4>1, <4>2, <4>3 DEF AtMost
    <3>3. QED BY <1>9, <3>1, <3>2
  <2>2. OnlyListed(name, "local", "routes", local[l])
    BY <1>1, <1>2, <1>6, <1>7, <1>9, <2>1, LongestIsOnlyListed
  <2>3. MostSpecific(name) = {Chosen("Local", local[l])}
    BY <2>2, LocalDecides
  <2>4. Select(name) = Chosen("Local", local[l])
    BY <1>3, <1>4, <1>9 DEF Select
  <2>5. QED BY <2>3, <2>4
<1>10. CASE r = 0 /\ l = 0
  <2>1. MostSpecific(name) = {Chosen(IF default THEN "Default" ELSE "Unmatched", <<>>)}
    BY <1>1, <1>2, <1>5, <1>6, <1>10, DefaultDecides
  <2>2. Select(name) = Chosen(IF default THEN "Default" ELSE "Unmatched", <<>>)
    BY <1>3, <1>4, <1>10 DEF Select
  <2>3. QED BY <2>1, <2>2
<1>11. QED BY <1>8, <1>9, <1>10

(* The lists are those of the file until RoutingTable::new accepted and     *)
(* sorted them, and from then on they stay so; what is selected was         *)
(* selected from them.                                                      *)
TableInv ==
    /\ written \in [routes : Seq(RuleNames), local : Seq(RuleNames)]
    /\ phase # "serving" => routes = written.routes /\ local = written.local
    /\ phase = "serving" =>
         /\ ~Duplicates(written.routes, written.local)
         /\ routes = Sorted(written.routes) /\ local = Sorted(written.local)
    /\ selection # None =>
         phase = "serving" /\ asked \in Queries /\ selection = Select(asked)

LEMMA TableInvInit == Init => TableInv
<1> SUFFICES ASSUME Init PROVE TableInv
  OBVIOUS
<1>1. <<>> \in Seq(RuleNames)
  OBVIOUS
<1>2. written = [routes |-> <<>>, local |-> <<>>] /\ routes = <<>> /\ local = <<>>
      /\ phase = "listen" /\ selection = None
  BY DEF Init
<1>3. QED BY <1>1, <1>2 DEF TableInv

LEMMA TableInvStep ==
    ASSUME TableInv, [Next]_vars PROVE TableInv'
<1>1. CASE UNCHANGED <<routes, local, asked, selection, written>>
           /\ phase # "serving" /\ phase' # "serving"
  BY <1>1 DEF TableInv
<1>2. ASSUME NEW text \in Addresses, ReadListen(text) PROVE TableInv'
  BY <1>1, <1>2 DEF ReadListen, Rules
<1>3. ASSUME NEW texts \in ServerLists, ReadDefault(texts) PROVE TableInv'
  BY <1>1, <1>3 DEF ReadDefault, Rules
<1>4. CASE NoDefault \/ AcceptDefault \/ BadEntry \/ Rejected
  BY <1>1, <1>4 DEF NoDefault, AcceptDefault, BadEntry, Rejected, Rules, vars
<1>5. ASSUME NEW suffix \in RuleNames, ReadRoute(suffix) PROVE TableInv'
  <2>1. PICK rs : rs = Append(routes, suffix)
    OBVIOUS
  <2>2. routes = written.routes /\ routes \in Seq(RuleNames) /\ local = written.local
        /\ local \in Seq(RuleNames)
    BY <1>5 DEF ReadRoute, TableInv
  <2>3. rs \in Seq(RuleNames)
    BY <2>1, <2>2
  <2>4. written' = [routes |-> rs, local |-> local]
    BY <1>5, <2>1, <2>2 DEF ReadRoute, TableInv
  <2>5. routes' = rs /\ local' = local /\ phase' = "loading" /\ selection' = selection
        /\ selection = None
    BY <1>5, <2>1 DEF ReadRoute, TableInv
  <2>6. None' = None
    BY DEF None
  <2>7. QED BY <2>2, <2>3, <2>4, <2>5, <2>6 DEF TableInv
<1>6. ASSUME NEW suffix \in RuleNames, ReadLocal(suffix) PROVE TableInv'
  <2>1. PICK ls : ls = Append(local, suffix)
    OBVIOUS
  <2>2. routes = written.routes /\ routes \in Seq(RuleNames) /\ local = written.local
        /\ local \in Seq(RuleNames)
    BY <1>6 DEF ReadLocal, TableInv
  <2>3. ls \in Seq(RuleNames)
    BY <2>1, <2>2
  <2>4. written' = [routes |-> routes, local |-> ls]
    BY <1>6, <2>1, <2>2 DEF ReadLocal, TableInv
  <2>5. routes' = routes /\ local' = ls /\ phase' = "loading" /\ selection' = selection
        /\ selection = None
    BY <1>6, <2>1 DEF ReadLocal, TableInv
  <2>6. None' = None
    BY DEF None
  <2>7. QED BY <2>2, <2>3, <2>4, <2>5, <2>6 DEF TableInv
<1>7. CASE Build
  <2>1. CASE Duplicates(routes, local)
    BY <1>1, <1>7, <2>1 DEF Build
  <2>2. CASE ~Duplicates(routes, local)
    BY <1>7, <2>2 DEF Build, TableInv
  <2>3. QED BY <2>1, <2>2
<1>8. ASSUME NEW name \in Queries, Ask(name) PROVE TableInv'
  <2>1. UNCHANGED <<routes, local, default, written, phase>> /\ phase = "serving"
        /\ asked' = name /\ selection' = Select(name)
    BY <1>8 DEF Ask
  <2>2. Select(name)' = Select(name)
    BY <2>1 DEF Select
  <2>3. selection' = Select(asked)'
    BY <2>1, <2>2 DEF Select
  <2>4. QED BY <2>1, <2>3 DEF TableInv
<1>9. CASE UNCHANGED vars
  BY <1>9 DEF vars, TableInv, Select
<1>10. QED BY <1>2, <1>3, <1>4, <1>5, <1>6, <1>7, <1>8, <1>9 DEF Next

(* The documented rule "the longest suffix, the default only when no suffix *)
(* matches" holds of RoutingTable::select for files and names of any length *)
(* over any alphabet, in whatever order and case the file lists them.       *)
THEOREM SelectionIsMostSpecific == Spec => []SelectsMostSpecific
<1>1. TableInv => SelectsMostSpecific
  <2> SUFFICES ASSUME TableInv, selection # None
               PROVE  MostSpecific(asked) = {selection}
    BY DEF SelectsMostSpecific
  <2>1. /\ asked \in Queries /\ selection = Select(asked)
        /\ written.routes \in Seq(RuleNames) /\ written.local \in Seq(RuleNames)
        /\ ~Duplicates(written.routes, written.local)
        /\ routes = Sorted(written.routes) /\ local = Sorted(written.local)
    BY DEF TableInv
  <2>2. QED BY <2>1, SelectIsMostSpecific
<1>2. TableInv /\ [Next]_vars => TableInv'
  BY TableInvStep
<1>3. QED BY <1>1, <1>2, TableInvInit, PTL DEF Spec
=============================================================================
