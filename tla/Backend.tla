------------------------------ MODULE Backend ------------------------------
(***************************************************************************)
(* The in-memory store of aardvark-dns and the questions the DNS side asks *)
(* of it (src/src/backend/mod.rs), and what process_message decides from   *)
(* the answers (src/src/dns/coredns.rs).                                   *)
(*                                                                         *)
(* Lists are sets here: the order of the addresses of an answer, and of    *)
(* the name servers of a list, is left open. A key a HashMap does not have *)
(* is the empty set where the code treats the two alike.                   *)
(***************************************************************************)
CONSTANTS
    Network,      \* network names
    V4, V6,       \* addresses, of containers and of other requesters
    Label,        \* container names and aliases, in lower case
    Server,       \* addresses of name servers
    NoDns         \* a container without name servers of its own

Ip == V4 \cup V6

ASSUME FamilyAssumption == V4 \cap V6 = {}
ASSUME NoDnsAssumption == \A s \in SUBSET Server : s # NoDns

\* DNSBackend. The networks of an address no container has are {}.
Backends ==
    [ip_mappings : [Ip -> SUBSET Network],
     name_mappings : [Network -> [Label -> SUBSET Ip]],
     reverse_mappings : [Network -> [Ip -> SUBSET Label]],
     ctr_dns_server : [Ip -> {NoDns} \cup SUBSET Server],
     network_dns_server : [Network -> SUBSET Server],
     network_is_internal : [Network -> {"internal", "external", "unknown"}]]

\* A question: who asks, for which name or address, and how it is spelled.
\* The name may end in the search domain, and its ending may be spelled
\* with capital letters. A PTR question is for the name of an address.
Questions ==
    [from : Ip, type : {"A", "AAAA", "OTHER"}, label : Label,
     suffix : {"none", "search"}, lower : BOOLEAN]
    \cup [from : Ip, type : {"PTR"}, target : Ip, lower : BOOLEAN]

\* The networks a requester may resolve names in: its own, or the network
\* whose listener it asked when no container has its address.
VisibleNetworks(b, requester, network) ==
    IF b.ip_mappings[requester] = {} THEN {network} ELSE b.ip_mappings[requester]

\* Variant of VisibleNetworks, to be refuted: the listener's network is
\* always visible.
VisibleToAll(b, requester, network) ==
    b.ip_mappings[requester] \cup {network}

\* Every address the name has in a visible network. The name is lower-cased
\* and the search domain is cut off first, so the spelling does not matter.
lookup(b, requester, network, label) ==
    UNION {b.name_mappings[n][label] : n \in VisibleNetworks(b, requester, network)}

\* The names of an address in one of the requester's networks: any network
\* that knows the address may come first. Empty if none does.
reverse_lookup(b, requester, ip) ==
    {b.reverse_mappings[n][ip] : n \in b.ip_mappings[requester]} \ {{}}

get_network_scoped_resolvers(b, requester) ==
    UNION {b.network_dns_server[n] : n \in b.ip_mappings[requester]}

\* Variant of ctr_is_internal, to be refuted: one internal network is enough.
ctr_in_internal(b, requester) ==
    \E n \in b.ip_mappings[requester] : b.network_is_internal[n] = "internal"

\* Only known containers are internal, and only if no network of theirs is
\* known to be external.
ctr_is_internal(b, requester) ==
    /\ b.ip_mappings[requester] # {}
    /\ \A n \in b.ip_mappings[requester] : b.network_is_internal[n] # "external"

-----------------------------------------------------------------------------
(* process_message, up to the point where it replies or forwards.          *)

Answer(data) == [kind |-> "answer", data |-> data]
NxDomain == [kind |-> "nxdomain", data |-> {}]

\* Whether the store knows the name or the address asked for. The ending
\* of a PTR name ("in-addr.arpa.") is only recognised in lower case.
KnownHere(b, network, q) ==
    \/ /\ q.type = "PTR"
       /\ q.lower
       /\ reverse_lookup(b, q.from, q.target) # {}
    \/ q.type \in {"A", "AAAA"} /\ lookup(b, q.from, network, q.label) # {}

\* The answers from the store. A known name without an address of the
\* requested family gets an empty answer.
LocalAnswers(b, network, q) ==
    IF q.type = "PTR"
    THEN {Answer(names) : names \in reverse_lookup(b, q.from, q.target)}
    ELSE {Answer(lookup(b, q.from, network, q.label)
                    \cap (IF q.type = "A" THEN V4 ELSE V6))}

\* The name ends with the search domain, compared letter by letter.
InSearchDomain(q) == q.type # "PTR" /\ q.suffix = "search" /\ q.lower

\* Variant of MayForward, to be refuted: internal containers may forward.
MayForwardInternal(b, q, no_proxy) == ~no_proxy /\ ~InSearchDomain(q)

MayForward(b, q, no_proxy) ==
    /\ ~no_proxy
    /\ ~ctr_is_internal(b, q.from)
    /\ ~InSearchDomain(q)

\* The container's own servers, else those of its networks, else the host's.
ForwardTo(b, q, hostServers) ==
    LET own == b.ctr_dns_server[q.from]
        scoped == get_network_scoped_resolvers(b, q.from)
    IN  IF own # NoDns /\ own # {} THEN own
        ELSE IF own = NoDns /\ scoped # {} THEN scoped
        ELSE hostServers
=============================================================================
