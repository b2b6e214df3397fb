------------------------------- MODULE Routing ------------------------------
(***************************************************************************)
(* The routing policy of src/src/routing.rs and its construction from the  *)
(* entries of the configuration file (src/src/config.rs): routes first,    *)
(* then local records, at most MaxRules together; RoutingTable::new        *)
(* rejects duplicates and sorts; select answers every query.               *)
(*                                                                         *)
(* A name is the sequence of its labels, the root name is empty.  Labels   *)
(* are compared without regard to ASCII case, which is the function Fold.  *)
(* A rule is the suffix it is for; what it leads to (upstreams, address)   *)
(* does not influence the choice, and is forgotten once it was checked.    *)
(***************************************************************************)
EXTENDS Integers, Sequences, FiniteSets, Upstreams

CONSTANTS
    Labels,        \* labels as written
    Fold,          \* a label in lower case
    SuffixLength,  \* bound on the labels of a configured suffix
    QueryLength,   \* bound on the labels of a query name
    MaxRules,      \* MAX_ROUTES
    Addresses      \* addresses as they are written in the file

ASSUME RoutingAssumption ==
    /\ Fold \in [Labels -> Labels] /\ \A x \in Labels : Fold[Fold[x]] = Fold[x]
    /\ SuffixLength \in Nat /\ QueryLength \in Nat /\ MaxRules \in Nat

(* What a text can be: its four fields, with no scope on a plain IPv4       *)
(* address (SocketAddrV4 has none).                                         *)
AddressText(a) ==
    /\ a = [ip |-> a.ip, form |-> a.form, scope |-> a.scope, port |-> a.port]
    /\ a.form \in {"v4", "mapped", "v6", "text"}
    /\ a.form = "v4" => a.scope = 0

ASSUME AddressAssumption == \A a \in Addresses : AddressText(a)

NamesUpTo(n) == UNION {[1..k -> Labels] : k \in 0..n}
RuleNames == NamesUpTo(SuffixLength)
Queries == NamesUpTo(QueryLength)

(* Server lists as written, up to one more than a group may have. *)
ServerLists == UNION {[1..k -> Addresses] : k \in 0..(MaxUpstreams + 1)}

VARIABLES
    phase,      \* listen, default, group, loading, rejected or serving
    listen,     \* the listener's address
    servers,    \* the servers of the default group as written
    group,      \* the group made of them
    routes,     \* RoutingTable::routes, in the order of the file until sorted
    local,      \* RoutingTable::local, likewise
    default,    \* there is a default group
    asked,      \* the name of the last query
    selection,  \* what select answered
    written     \* history: the file, routes and local records as read

upstreams == <<listen, servers, group>>
vars == <<upstreams, phase, routes, local, default, asked, selection, written>>

-----------------------------------------------------------------------------
(* dns/name.rs *)

(* DomainName::is_subdomain_of: the labels, from the last, agree pairwise.  *)
IsSubdomainOf(name, suffix) ==
    /\ Len(name) >= Len(suffix)
    /\ \A i \in 0..(Len(suffix) - 1) :
         Fold[name[Len(name) - i]] = Fold[suffix[Len(suffix) - i]]

(* PartialEq for DomainName *)
SameName(n, m) == Len(n) = Len(m) /\ IsSubdomainOf(n, m)

-----------------------------------------------------------------------------
(* RoutingTable::new *)

DuplicateRoute(rs) == \E i, k \in DOMAIN rs : i < k /\ SameName(rs[i], rs[k])

(* No suffix twice among the routes, the local records, or across them.     *)
Duplicates(rs, ls) ==
    \/ DuplicateRoute(rs) \/ DuplicateRoute(ls)
    \/ \E i \in DOMAIN rs, k \in DOMAIN ls : SameName(rs[i], ls[k])

Unsorted(rules) == rules

(* sort_by_key(Reverse(label_count)), which is stable: the rules with more  *)
(* labels come first, those with equally many keep their order.             *)
Sorted(rules) ==
    LET before(k, i) ==
            \/ Len(rules[k]) > Len(rules[i])
            \/ Len(rules[k]) = Len(rules[i]) /\ k < i
        rank(i) == Cardinality({k \in DOMAIN rules : before(k, i)}) + 1
    IN [p \in DOMAIN rules |-> rules[CHOOSE i \in DOMAIN rules : rank(i) = p]]

(* Iterator::find over a sorted list, 0 for None. *)
Find(rules, name) ==
    LET hits == {i \in DOMAIN rules : IsSubdomainOf(name, rules[i])}
    IN IF hits = {} THEN 0 ELSE CHOOSE i \in hits : \A k \in hits : i <= k

None == [kind |-> "none", suffix |-> <<>>]
Chosen(kind, suffix) == [kind |-> kind, suffix |-> suffix]

(* RoutingTable::select *)
Select(name) ==
    LET r == Find(routes, name)
        l == Find(local, name)
    IN CASE r # 0 /\ l # 0 /\ Len(routes[r]) > Len(local[l]) -> Chosen("Routed", routes[r])
         [] l # 0 /\ ~(r # 0 /\ Len(routes[r]) > Len(local[l])) -> Chosen("Local", local[l])
         [] r # 0 /\ l = 0 -> Chosen("Routed", routes[r])
         [] OTHER -> Chosen(IF default THEN "Default" ELSE "Unmatched", <<>>)

-----------------------------------------------------------------------------
Init ==
    /\ phase = "listen" /\ listen = {} /\ servers = <<>> /\ group = {}
    /\ routes = <<>> /\ local = <<>> /\ default = FALSE
    /\ asked = <<>> /\ selection = None
    /\ written = [routes |-> <<>>, local |-> <<>>]

Rules == <<routes, local, default, asked, selection, written>>

ReadListen(text) ==
    /\ phase = "listen"
    /\ listen' = ParseListen(text)
    /\ phase' = IF listen' = {} THEN "rejected" ELSE "default"
    /\ UNCHANGED <<servers, group, Rules>>

(* The [default] table, if there is one.  parse_upstream_group is the same  *)
(* for the groups of the routes.                                            *)
ReadDefault(texts) ==
    /\ phase = "default"
    /\ servers' = texts /\ group' = ParseGroup(texts, CHOOSE a \in listen : TRUE)
    /\ phase' = IF group' = {} THEN "rejected" ELSE "group"
    /\ UNCHANGED <<listen, Rules>>

(* Once the default group is settled the run goes on with the rules: the    *)
(* addresses, which have no influence on them, are forgotten.               *)
NoDefault ==
    /\ phase = "default" /\ phase' = "loading"
    /\ listen' = {} /\ UNCHANGED <<servers, group, Rules>>

AcceptDefault ==
    /\ phase = "group" /\ phase' = "loading" /\ default' = TRUE
    /\ listen' = {} /\ servers' = <<>> /\ group' = {}
    /\ UNCHANGED <<routes, local, asked, selection, written>>

(* Config::load reads one more [[route]]; the local records come after.     *)
ReadRoute(suffix) ==
    /\ phase = "loading" /\ local = <<>> /\ Len(routes) < MaxRules
    /\ routes' = Append(routes, suffix)
    /\ written' = [written EXCEPT !.routes = routes']
    /\ UNCHANGED <<upstreams, phase, local, default, asked, selection>>

(* ... and one more [[local]], which counts against the same limit.         *)
ReadLocal(suffix) ==
    /\ phase = "loading" /\ Len(routes) + Len(local) < MaxRules
    /\ local' = Append(local, suffix)
    /\ written' = [written EXCEPT !.local = local']
    /\ UNCHANGED <<upstreams, phase, routes, default, asked, selection>>

(* A list longer than MAX_ROUTES, or an entry that is no table, has unknown *)
(* keys, a bad name, group, address or ttl, is an error of the file.        *)
BadEntry ==
    /\ phase = "loading" /\ phase' = "rejected"
    /\ UNCHANGED <<upstreams, Rules>>

Build ==
    /\ phase = "loading"
    /\ IF Duplicates(routes, local)
       THEN phase' = "rejected" /\ UNCHANGED <<routes, local>>
       ELSE phase' = "serving" /\ routes' = Sorted(routes) /\ local' = Sorted(local)
    /\ UNCHANGED <<upstreams, default, asked, selection, written>>

Ask(name) ==
    /\ phase = "serving"
    /\ asked' = name /\ selection' = Select(name)
    /\ UNCHANGED <<upstreams, phase, routes, local, default, written>>

Rejected == phase = "rejected" /\ UNCHANGED vars

Next ==
    \/ \E text \in Addresses : ReadListen(text)
    \/ \E texts \in ServerLists : ReadDefault(texts)
    \/ NoDefault \/ AcceptDefault
    \/ \E suffix \in RuleNames : ReadRoute(suffix) \/ ReadLocal(suffix)
    \/ BadEntry
    \/ Build
    \/ \E name \in Queries : Ask(name)
    \/ Rejected

Spec == Init /\ [][Next]_vars

-----------------------------------------------------------------------------
(* Properties *)

(* Every group that is accepted is a walk over different places in the      *)
(* order of the file, none of them the service's own listener, no matter    *)
(* how the addresses are spelled.                                           *)
GroupsSound ==
    \A g \in group, a \in listen : SoundGroup(g, servers, a)

LastLabels(name, k) == [i \in 1..k |-> Fold[name[Len(name) - k + i]]]
Lower(name) == [i \in DOMAIN name |-> Fold[name[i]]]

(* The reference: walk up the tree from the name itself to the root; the    *)
(* first ancestor the file has an entry for decides, be it a route or a     *)
(* local record, and the default serves only names without such ancestor.   *)
MostSpecific(name) ==
    LET listed(kind, k) ==
            {s \in RuleNames : Lower(s) = LastLabels(name, k)
                              /\ \E i \in DOMAIN written[kind] : written[kind][i] = s}
        levels == {k \in 0..Len(name) : listed("routes", k) \cup listed("local", k) # {}}
    IN IF levels = {} THEN {Chosen(IF default THEN "Default" ELSE "Unmatched", <<>>)}
       ELSE LET top == CHOOSE k \in levels : \A m \in levels : m <= k
            IN {Chosen("Routed", s) : s \in listed("routes", top)}
                 \cup {Chosen("Local", s) : s \in listed("local", top)}

(* "Selects the longest suffix, or the default only when no suffix          *)
(* matches": select over the sorted lists finds the one entry that the      *)
(* reference allows, whatever the order of the entries in the file.         *)
SelectsMostSpecific ==
    selection # None => MostSpecific(asked) = {selection}
=============================================================================
