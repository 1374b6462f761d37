---------------------------- MODULE ConfigProps ----------------------------
(***************************************************************************)
(* The backend built by Config, compared with what the files say.          *)
(***************************************************************************)
EXTENDS Config

EntriesIn(f) ==
    IF Valid(f) THEN {Parsed(f).entries[i] : i \in DOMAIN Parsed(f).entries} ELSE {}

\* The networks a requester's address stands for: an address stands for each
\* container that has it in some network, and for all networks of those.
Owns(c, ip) == \E f \in File : \E e \in EntriesIn(f) : e.id = c /\ ip \in e.ips
MemberOf(c, n) == \E f \in File : NetworkOf[f] = n /\ \E e \in EntriesIn(f) : e.id = c
NetworksFor(r) == {n \in Network : \E c \in Container : Owns(c, r) /\ MemberOf(c, n)}

\* No two readable files are for one network ("net" and "net%int").
OneFilePerNetwork ==
    \A f, g \in File : Valid(f) /\ Valid(g) /\ NetworkOf[f] = NetworkOf[g] => f = g

-----------------------------------------------------------------------------
\* The form of a file that src/config.md documents: a comma-separated list of
\* addresses, and of servers if there is a second column; then for every
\* container its id, IPv4 addresses, IPv6 addresses and names, and servers if
\* there is a fifth column.
Listed(column, S) == column # {} /\ column \subseteq S
Documented(t) ==
    /\ t # <<>> /\ Len(t[1]) \in 1..2
    /\ Listed(t[1][1], Ip) /\ (Len(t[1]) = 2 => Listed(t[1][2], Server))
    /\ \A i \in 2..Len(t) :
          /\ Len(t[i]) \in 4..5
          /\ t[i][2] \subseteq V4 /\ t[i][3] \subseteq V6
          /\ Len(t[i]) = 5 => Listed(t[i][5], Server)

\* A file of the documented form is read to the last word: it is not
\* rejected, no container is left out, and no address, name or server is.
DocumentedFilesAreRead ==
    \A f \in File : dir[f] # Gone /\ Documented(dir[f]) =>
        LET t == dir[f]
        IN  /\ Valid(f)
            /\ Parsed(f).bind = t[1][1]
            /\ Parsed(f).dns = UNION {t[1][i] : i \in 2..Len(t[1])}
            /\ Len(Parsed(f).entries) = Len(t) - 1
            /\ \A i \in 2..Len(t) :
                  LET e == Parsed(f).entries[i - 1]
                  IN  /\ e.ips = t[i][2] \cup t[i][3]
                      /\ \A w \in t[i][4] : Lower[w] \in e.aliases
                      /\ Len(t[i]) = 5 => e.dns_servers = t[i][5]
                      /\ Len(t[i]) = 4 => e.dns_servers = NoDns

\* A reload that reads a file while it is being written, up to the end of
\* some line, sees the addresses to bind and the servers of the whole file and
\* the first of its containers: the listeners stay (config/mod.rs:262-306).
CutFileKeepsListeners ==
    \A f \in File : Valid(f) =>
        \A n \in 1..Len(dir[f]) :
            LET cut == parse_config(SubSeq(dir[f], 1, n))
            IN  /\ cut # Malformed
                /\ cut.bind = Parsed(f).bind /\ cut.dns = Parsed(f).dns
                /\ cut.entries = SubSeq(Parsed(f).entries, 1, n - 1)

\* Name resolution crosses networks exactly as containers do: a requester
\* gets every address its name has in a network it shares, from whatever
\* entry and file, and no address of any other network. A requester that no
\* container explains sees the network of the listener it asked.
NamesResolveInSharedNetworks ==
    pc = "done" =>
        \A r \in Ip, n \in Network, l \in Label :
            lookup(TheBackend, r, n, l) =
                {i \in Ip : \E f \in File : \E e \in EntriesIn(f) :
                    /\ i \in e.ips
                    /\ l \in e.aliases
                    /\ \/ NetworkOf[f] \in NetworksFor(r)
                       \/ NetworksFor(r) = {} /\ NetworkOf[f] = n}

\* "Returns true if and only if a container is only present in internal
\* networks" (backend/mod.rs:139-141), in whatever order the files are read: a
\* requester is internal only if each of its networks has an internal file,
\* and is not only if one of them has a file that is not. With one file per
\* network that is the doc's "if and only if"; a network with two, "net" and
\* "net%int", may be taken either way.
InternalIffAllNetworksAre ==
    pc = "done" =>
        \A r \in Ip :
            LET files == {f \in File : Valid(f) /\ NetworkOf[f] \in NetworksFor(r)}
            IN  IF ctr_is_internal(TheBackend, r)
                THEN /\ NetworksFor(r) # {}
                     /\ \A n \in NetworksFor(r) :
                           \E f \in files \cap Internal : NetworkOf[f] = n
                ELSE NetworksFor(r) = {} \/ files \ Internal # {}

\* Queries are forwarded to servers of the container's own entries, and of
\* its networks' files, only as far as those are not internal; the servers
\* of the one external entry of an address are not lost in the merge, nor are
\* those of an external network that has no second file.
ResolversComeFromExternalNetworks ==
    pc = "done" =>
        \A r \in Ip :
            LET external ==
                    {x \in (File \ Internal) \X UNION {EntriesIn(f) : f \in File} :
                        x[2] \in EntriesIn(x[1]) /\ r \in x[2].ips}
                own == TheBackend.ctr_dns_server[r]
                scoped == get_network_scoped_resolvers(TheBackend, r)
                named == UNION {Parsed(f).dns : f \in {g \in File \ Internal :
                                   Valid(g) /\ NetworkOf[g] \in NetworksFor(r)}}
            IN  /\ own # NoDns => \E x \in external : x[2].dns_servers = own
                /\ \A x \in external : external = {x} => own = x[2].dns_servers
                /\ scoped \subseteq named
                /\ OneFilePerNetwork => scoped = named

\* Forward and reverse resolution agree for every container. Whichever of the
\* requester's networks that know the address comes first, the reply has names,
\* and every one of them leads back to the address; an address some name leads
\* to has a reply. The reply is that of one network (backend/mod.rs:168-172):
\* it has every name that leads to the address if one shared network knows the
\* address, and may lack the names that only a second one has for it.
RoundTrip ==
    pc = "done" =>
        \A r \in Ip, n \in Network, i \in Ip : NetworksFor(r) # {} =>
            LET replies == reverse_lookup(TheBackend, r, i)
                names == {l \in Label : i \in lookup(TheBackend, r, n, l)}
                knowing == {m \in NetworksFor(r) : \E f \in File :
                               NetworkOf[f] = m /\ \E e \in EntriesIn(f) : i \in e.ips}
            IN  /\ \A reply \in replies : reply # {} /\ reply \subseteq names
                /\ names # {} => replies # {}
                /\ \A m \in knowing : knowing = {m} => replies = {names}

-----------------------------------------------------------------------------
(* What process_message makes of the finished store, in terms of the files. *)

\* A name or an address is known exactly if an entry has it in a network the
\* requester shares, and the answer has all addresses of the family asked
\* for, and no name or address of another network: nothing leaks from one
\* network to another (coredns.rs:188-247, backend/mod.rs:60-113).
AnswersFollowFiles ==
    pc = "done" =>
        \A n \in Network, q \in Questions :
            LET shared == {f \in File :
                              \/ NetworkOf[f] \in NetworksFor(q.from)
                              \/ NetworksFor(q.from) = {} /\ NetworkOf[f] = n}
                entries ==
                    IF q.type = "PTR"
                    THEN {e \in UNION {EntriesIn(f) : f \in shared} :
                             q.lower /\ NetworksFor(q.from) # {} /\ q.target \in e.ips}
                    ELSE {e \in UNION {EntriesIn(f) : f \in shared} :
                             q.type # "OTHER" /\ q.label \in e.aliases /\ e.ips # {}}
            IN  /\ KnownHere(TheBackend, n, q) <=> entries # {}
                /\ KnownHere(TheBackend, n, q) =>
                      \A r \in LocalAnswers(TheBackend, n, q) :
                         IF q.type = "PTR"
                         THEN /\ r.data # {}
                              /\ r.data \subseteq UNION {e.aliases : e \in entries}
                         ELSE r.data = (UNION {e.ips : e \in entries})
                                          \cap (IF q.type = "A" THEN V4 ELSE V6)

\* A query leaves the host only for a requester that is no container, or is in
\* a network whose file is not internal. It goes to servers that an external
\* entry of the requester, or the file of an external network of its, names;
\* to those of the host only if none is named there (coredns.rs:216-276).
ForwardingFollowsFiles ==
    pc = "done" =>
        \A q \in Questions, proxyOff \in BOOLEAN :
            LET external == {f \in File \ Internal :
                                Valid(f) /\ NetworkOf[f] \in NetworksFor(q.from)}
                named == ForwardTo(TheBackend, q, {})
            IN  /\ MayForward(TheBackend, q, proxyOff) =>
                      ~proxyOff /\ (NetworksFor(q.from) = {} \/ external # {})
                /\ \A s \in named :
                      \/ \E f \in external : s \in Parsed(f).dns
                      \/ \E f \in File \ Internal : \E e \in EntriesIn(f) :
                            q.from \in e.ips /\ e.dns_servers # NoDns /\ s \in e.dns_servers
                /\ OneFilePerNetwork /\ named = {} => \A f \in external : Parsed(f).dns = {}
                /\ \A h \in SUBSET Server :
                      ForwardTo(TheBackend, q, h) = IF named = {} THEN h ELSE named

\* The sockets the supervisor is to open for a network are those of the first
\* lines of its readable files, however many files and in whatever order; a
\* network has one at least exactly if it has a readable file, even one that
\* lists no container (config/mod.rs:122-133; server/serve.rs:175-217).
BindsOf(n, files) ==
    UNION {Parsed(f).bind : f \in {g \in files : Valid(g) /\ NetworkOf[g] = n}}
ListenersFollowFiles ==
    pc = "done" =>
        \A n \in Network :
            /\ listen_ips[n] = BindsOf(n, File)
            /\ listen_ips[n] # {} <=> \E f \in File : Valid(f) /\ NetworkOf[f] = n

-----------------------------------------------------------------------------
(* The inductive invariant behind these properties.                        *)

\* Entry i of file f has been merged.
Merged(f, i) ==
    /\ f \in File \ unread
    /\ Valid(f)
    /\ i \in DOMAIN Parsed(f).entries
    /\ pc = "entries" /\ f = cur => i < pos

ScanInv ==
    /\ pc = "entries" =>
          /\ cur \in File \ unread
          /\ Valid(cur)
          /\ pos \in 1..(Len(Parsed(cur).entries) + 1)
    /\ pc = "done" => unread = {}

\* Each map holds what the merged entries say, and nothing else.
MembershipInv ==
    \A c \in Container, n \in Network :
        n \in network_membership[c] <=>
            \E f \in File : \E i \in Nat :
                Merged(f, i) /\ NetworkOf[f] = n /\ Parsed(f).entries[i].id = c
AddressInv ==
    \A c \in Container, a \in Ip :
        a \in container_ips[c] <=>
            \E f \in File : \E i \in Nat :
                /\ Merged(f, i)
                /\ Parsed(f).entries[i].id = c
                /\ a \in Parsed(f).entries[i].ips

Names(n, l, a) ==
    \E f \in File : \E i \in Nat :
        /\ Merged(f, i)
        /\ NetworkOf[f] = n
        /\ l \in Parsed(f).entries[i].aliases
        /\ a \in Parsed(f).entries[i].ips
NameInv ==
    \A n \in Network, l \in Label, a \in Ip :
        /\ a \in network_names[n][l] <=> Names(n, l, a)
        /\ l \in reverse[n][a] <=> Names(n, l, a)

\* The flag of a network comes from a file of it that has been merged.
InternalInv ==
    \A n \in Network :
        /\ network_is_internal[n] = "internal" =>
              \E f \in Internal : Valid(f) /\ NetworkOf[f] = n
        /\ network_is_internal[n] = "external" =>
              \E f \in File \ Internal : Valid(f) /\ NetworkOf[f] = n
        /\ network_is_internal[n] = "unknown" =>
              \A c \in Container : n \notin network_membership[c]

OwnerInv ==
    pc = "done" => \A a \in Ip, n \in Network :
        n \in ctrs[a] <=> \E c \in Container :
            a \in container_ips[c] /\ n \in network_membership[c]

IInv ==
    TypeOK /\ ScanInv /\ MembershipInv /\ AddressInv /\ NameInv /\ InternalInv
        /\ OwnerInv

\* An address has the servers of one of the external entries merged for it.
Gives(f, i, a) ==
    f \notin Internal /\ Merged(f, i) /\ a \in Parsed(f).entries[i].ips
OwnServersInv ==
    \A a \in Ip :
        \/ /\ ctr_dns_server[a] = NoDns
           /\ \A f \in File : \A i \in Nat : ~ Gives(f, i, a)
        \/ \E f \in File : \E i \in Nat :
              Gives(f, i, a) /\ ctr_dns_server[a] = Parsed(f).entries[i].dns_servers

\* A network has no servers but those of its files opened so far, and all of
\* them if it has one file only.
ServersRead(n) ==
    UNION {Parsed(f).dns : f \in {g \in File \ (Internal \cup unread) :
                                    Valid(g) /\ NetworkOf[g] = n}}
NetworkServersInv ==
    \A n \in Network :
        /\ network_dns_server[n] \subseteq ServersRead(n)
        /\ OneFilePerNetwork => network_dns_server[n] = ServersRead(n)

ResolverInv == OwnServersInv /\ NetworkServersInv

\* A network has the listen addresses of its files opened so far.
ListenInv == \A n \in Network : listen_ips[n] = BindsOf(n, File \ unread)
=============================================================================
