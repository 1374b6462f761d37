----------------------------- MODULE MCCoreDns -----------------------------
(***************************************************************************)
(* Two UDP queries, one of them garbled, and two on one TCP connection,    *)
(* one of them with an answer that does not encode, of which any two are   *)
(* sent. Reloads switch between two stores: the container c1 is in the     *)
(* internal network n1 alone and knows no name, or it is in the external   *)
(* n2 too, with an empty list of servers of its own, and knows x, the name *)
(* of a container with an address of each family. The host has two servers *)
(* or none.                                                                *)
(***************************************************************************)
EXTENDS CoreDnsProps, TLC

CONSTANTS n1, n2, c1, d4, d6, x, s, t, u, q1, q2, q3, q4, k1

\* c1 is in nets and has servers; others are known as x, in n2.
MCStore(nets, servers, others) ==
    [ip_mappings |-> [i \in Ip |->
        IF i = c1 THEN nets ELSE IF i \in others THEN {n2} ELSE {}],
     name_mappings |-> (n1 :> (x :> {})) @@ (n2 :> (x :> others)),
     reverse_mappings |->
        (n1 :> [i \in Ip |-> {}])
        @@ (n2 :> [i \in Ip |-> IF i \in others THEN {x} ELSE {}]),
     ctr_dns_server |-> [i \in Ip |-> IF i = c1 THEN servers ELSE NoDns],
     network_dns_server |-> (n1 :> {}) @@ (n2 :> {u}),
     network_is_internal |-> (n1 :> "internal") @@ (n2 :> "external")]

MCInside == MCStore({n1}, NoDns, {})
MCBoth == MCStore({n1, n2}, {}, {d4, d6})
MCPublished == {MCInside, MCBoth}
MCHostServers == {{}, {s, t}}

MCName(from, type, suffix, lower) ==
    [from |-> from, type |-> type, label |-> x, suffix |-> suffix, lower |-> lower]
MCAddress(from, target, lower) ==
    [from |-> from, type |-> "PTR", target |-> target, lower |-> lower]

MCAsked == {MCName(c1, "A", "none", TRUE), MCName(c1, "OTHER", "none", TRUE)}
MCAskedSpelling ==
    {MCName(c1, "A", "search", FALSE), MCAddress(c1, d4, FALSE)}

MCOneConn == [q \in Query \ Udp |-> k1]
=============================================================================
