----------------------------- MODULE Upstreams ------------------------------
(***************************************************************************)
(* Endpoints of the configuration: UpstreamAddress::new and                *)
(* UpstreamGroup::new (src/src/routing.rs), parse_address and              *)
(* parse_upstream_group (src/src/config.rs).                               *)
(*                                                                         *)
(* An address as written has an ip, the form it is spelled in ("v4",       *)
(* "mapped" for an IPv4 address in IPv6 notation, "v6", or "text" for      *)
(* anything that is no address), a scope and a port.  An Option is a set   *)
(* with at most one element.                                               *)
(***************************************************************************)
EXTENDS Integers, Sequences

CONSTANTS
    DefaultPort,   \* DEFAULT_DNS_PORT
    NoPort,        \* the port of an address written without one
    MaxUpstreams   \* MAX_UPSTREAMS

ASSUME PortAssumption == DefaultPort \in 1..65535 /\ NoPort \notin 0..65535
ASSUME UpstreamAssumption == MaxUpstreams \in Nat

NotUnicast == {"unspecified", "multicast", "broadcast"}

ParseAddress(text) ==
    IF text.form = "text" THEN {}
    ELSE {[text EXCEPT !.port = IF @ = NoPort THEN DefaultPort ELSE @]}

(* IpAddr::to_canonical; the address loses the scope with the IPv6 form.    *)
Canonical(a) == IF a.form = "mapped" THEN [a EXCEPT !.form = "v4", !.scope = 0] ELSE a

(* UpstreamAddress::new *)
Endpoint(a) == IF a.port = 0 \/ a.ip \in NotUnicast THEN {} ELSE {Canonical(a)}

SameSpelling(a, listen) == a.port = listen.port /\ a.ip = listen.ip /\ a.form = listen.form
(* The same port and canonical IP, whatever the scope. *)
PointsTo(a, listen) ==
    /\ a.port = listen.port
    /\ a.ip = listen.ip /\ Canonical(a).form = Canonical(listen).form

(* The listener's own address. *)
ParseListen(text) == UNION {Endpoint(a) : a \in ParseAddress(text)}

(* parse_upstream_group and UpstreamGroup::new: the endpoints in the order  *)
(* of the file, or an error.                                                *)
ParseGroup(servers, listen) ==
    LET endpoints == [i \in DOMAIN servers |-> ParseListen(servers[i])]
    IN IF /\ \A i \in DOMAIN servers :
               endpoints[i] # {} /\ \A a \in ParseAddress(servers[i]) : ~PointsTo(a, listen)
          /\ Len(servers) \in 1..MaxUpstreams
          /\ \A i, k \in DOMAIN servers : i < k => endpoints[i] # endpoints[k]
       THEN {[i \in DOMAIN servers |-> CHOOSE a \in endpoints[i] : TRUE]} ELSE {}

-----------------------------------------------------------------------------
(* Where packets sent to an address go, however it is spelled: an IPv4      *)
(* host, or an IPv6 host on a link.                                         *)
Host(a) == <<a.ip, IF a.form = "v6" THEN "v6" ELSE "v4">>
Place(a) == <<Host(a), IF a.form = "v6" THEN a.scope ELSE 0, a.port>>

(* A group is a walk over different places, none of which is the listener,  *)
(* in the order in which the file names them.                               *)
SoundGroup(group, servers, listen) ==
    /\ group # <<>> /\ Len(group) <= MaxUpstreams
    /\ \A i, k \in DOMAIN group : i # k => Place(group[i]) # Place(group[k])
    /\ \A i \in DOMAIN group :
         /\ group[i].port # 0 /\ group[i].ip \notin NotUnicast
         /\ <<Host(group[i]), group[i].port>> # <<Host(listen), listen.port>>
         /\ Host(group[i]) = Host(servers[i])
=============================================================================
