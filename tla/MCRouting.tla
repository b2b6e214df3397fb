----------------------------- MODULE MCRouting ------------------------------
(* A small instance of Routing for TLC: two letters, one in both cases; two *)
(* IPv4 hosts in both spellings, an IPv6 host on two links, several ports,  *)
(* and what is no endpoint.                                                 *)
EXTENDS Routing, TLC

TwoCases == "a" :> "a" @@ "A" :> "a" @@ "b" :> "b"

Written(ip, form, scope, port) == [ip |-> ip, form |-> form, scope |-> scope, port |-> port]
Texts == {Written("n1", form, 0, port) : form \in {"v4", "mapped"}, port \in {NoPort, 53, 54}}
           \cup {Written("n2", form, 0, 53) : form \in {"v4", "mapped"}}
           \cup {Written("n3", "v6", scope, 53) : scope \in {1, 2}}
           \cup {Written("unspecified", "v6", 0, 53), Written("n2", "v4", 0, 0),
                 Written("name", "text", 0, NoPort)}
=============================================================================
