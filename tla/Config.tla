------------------------------- MODULE Config -------------------------------
(***************************************************************************)
(* parse_configs (src/src/config/mod.rs): the files of the configuration   *)
(* directory are merged one by one, in whatever order the directory lists  *)
(* them, into the maps of a new backend.                                   *)
(***************************************************************************)
EXTENDS ConfigFile

CONSTANTS
    File,         \* file names in the directory
    NetworkOf,    \* [File -> Network]: the name without "%int"
    Internal,     \* the files whose name ends in "%int"
    Gone,         \* a file that is no longer there, or cannot be read
    NoFile        \* no file is open

ASSUME FileAssumption == NetworkOf \in [File -> Network] /\ Internal \subseteq File
ASSUME NoFileAssumption == NoFile \notin File

VARIABLES
    dir,                 \* what each file holds when it is read
    pc,                  \* "scan", "entries" or "done"
    unread,              \* files not opened yet
    cur, pos,            \* the file being merged and its next entry
    network_membership, container_ips, reverse, network_names,
    listen_ips, ctr_dns_server, network_dns_server, network_is_internal,
    ctrs                 \* the addresses' networks, computed at the end

maps == <<network_membership, container_ips, reverse, network_names,
          listen_ips, ctr_dns_server, network_dns_server, network_is_internal>>
vars == <<dir, pc, unread, cur, pos, maps, ctrs>>

\* What parse_config makes of a file.
Parsed(f) == IF dir[f] = Gone THEN Malformed ELSE parse_config(dir[f])
Valid(f) == Parsed(f) # Malformed

TypeOK ==
    /\ dir \in [File -> Text \cup {Gone}]
    /\ pc \in {"scan", "entries", "done"}
    /\ unread \subseteq File
    /\ cur \in File \cup {NoFile}
    /\ pos \in Nat
    /\ network_membership \in [Container -> SUBSET Network]
    /\ container_ips \in [Container -> SUBSET Ip]
    /\ reverse \in [Network -> [Ip -> SUBSET Label]]
    /\ network_names \in [Network -> [Label -> SUBSET Ip]]
    /\ listen_ips \in [Network -> SUBSET Ip]
    /\ ctr_dns_server \in [Ip -> {NoDns} \cup SUBSET Server]
    /\ network_dns_server \in [Network -> SUBSET Server]
    /\ network_is_internal \in [Network -> {"internal", "external", "unknown"}]
    /\ ctrs \in [Ip -> SUBSET Network]

Init ==
    /\ dir \in [File -> Text \cup {Gone}]
    /\ pc = "scan"
    /\ unread = File
    /\ cur = NoFile
    /\ pos = 1
    /\ network_membership = [c \in Container |-> {}]
    /\ container_ips = [c \in Container |-> {}]
    /\ reverse = [n \in Network |-> [i \in Ip |-> {}]]
    /\ network_names = [n \in Network |-> [l \in Label |-> {}]]
    /\ listen_ips = [n \in Network |-> {}]
    /\ ctr_dns_server = [i \in Ip |-> NoDns]
    /\ network_dns_server = [n \in Network |-> {}]
    /\ network_is_internal = [n \in Network |-> "unknown"]
    /\ ctrs = [i \in Ip |-> {}]

-----------------------------------------------------------------------------
\* A file that cannot be read or parsed is left out.
SkipFile(f) ==
    /\ pc = "scan"
    /\ f \in unread
    /\ ~Valid(f)
    /\ unread' = unread \ {f}
    /\ UNCHANGED <<dir, pc, cur, pos, maps, ctrs>>

\* Variant of OpenFile, to be refuted: an internal network gets its servers.
OpenFileInternalDns(f) ==
    /\ pc = "scan"
    /\ f \in unread
    /\ Valid(f)
    /\ unread' = unread \ {f}
    /\ cur' = f
    /\ pos' = 1
    /\ pc' = "entries"
    /\ network_dns_server' =
          [network_dns_server EXCEPT ![NetworkOf[f]] =
             IF Parsed(f).dns # {} THEN Parsed(f).dns ELSE @]
    /\ listen_ips' = [listen_ips EXCEPT ![NetworkOf[f]] = @ \cup Parsed(f).bind]
    /\ UNCHANGED <<dir, network_membership, container_ips, reverse,
                   network_names, ctr_dns_server, network_is_internal, ctrs>>

\* Variant of OpenFile, to be refuted: the addresses of a network's second
\* file replace those of the first.
OpenFileReplacesBinds(f) ==
    /\ pc = "scan"
    /\ f \in unread
    /\ Valid(f)
    /\ unread' = unread \ {f}
    /\ cur' = f
    /\ pos' = 1
    /\ pc' = "entries"
    /\ network_dns_server' =
          [network_dns_server EXCEPT ![NetworkOf[f]] =
             IF f \in Internal THEN {}
             ELSE IF Parsed(f).dns # {} THEN Parsed(f).dns ELSE @]
    /\ listen_ips' = [listen_ips EXCEPT ![NetworkOf[f]] = Parsed(f).bind]
    /\ UNCHANGED <<dir, network_membership, container_ips, reverse,
                   network_names, ctr_dns_server, network_is_internal, ctrs>>

\* The first line: the addresses to bind and the network's name servers,
\* which an internal network does not get.
OpenFile(f) ==
    /\ pc = "scan"
    /\ f \in unread
    /\ Valid(f)
    /\ unread' = unread \ {f}
    /\ cur' = f
    /\ pos' = 1
    /\ pc' = "entries"
    /\ network_dns_server' =
          [network_dns_server EXCEPT ![NetworkOf[f]] =
             IF f \in Internal THEN {}
             ELSE IF Parsed(f).dns # {} THEN Parsed(f).dns ELSE @]
    /\ listen_ips' = [listen_ips EXCEPT ![NetworkOf[f]] = @ \cup Parsed(f).bind]
    /\ UNCHANGED <<dir, network_membership, container_ips, reverse,
                   network_names, ctr_dns_server, network_is_internal, ctrs>>

\* Variant of MergeEntry, to be refuted: the last entry of a name wins.
MergeEntryLastWins ==
    /\ pc = "entries"
    /\ pos \in DOMAIN Parsed(cur).entries
    /\ LET e == Parsed(cur).entries[pos]
           n == NetworkOf[cur]
       IN  /\ network_membership' = [network_membership EXCEPT ![e.id] = @ \cup {n}]
           /\ reverse' = [reverse EXCEPT ![n] =
                [i \in Ip |-> IF i \in e.ips THEN @[i] \cup e.aliases ELSE @[i]]]
           /\ ctr_dns_server' = [i \in Ip |->
                IF i \in e.ips /\ cur \notin Internal THEN e.dns_servers
                ELSE ctr_dns_server[i]]
           /\ container_ips' = [container_ips EXCEPT ![e.id] = @ \cup e.ips]
           /\ network_names' = [network_names EXCEPT ![n] =
                [l \in Label |-> IF l \in e.aliases THEN e.ips ELSE @[l]]]
           /\ network_is_internal' = [network_is_internal EXCEPT ![n] =
                IF cur \in Internal THEN "internal" ELSE "external"]
    /\ pos' = pos + 1
    /\ UNCHANGED <<dir, pc, unread, cur, listen_ips, network_dns_server, ctrs>>

\* One container line.
MergeEntry ==
    /\ pc = "entries"
    /\ pos \in DOMAIN Parsed(cur).entries
    /\ LET e == Parsed(cur).entries[pos]
           n == NetworkOf[cur]
       IN  /\ network_membership' = [network_membership EXCEPT ![e.id] = @ \cup {n}]
           /\ reverse' = [reverse EXCEPT ![n] =
                [i \in Ip |-> IF i \in e.ips THEN @[i] \cup e.aliases ELSE @[i]]]
           /\ ctr_dns_server' = [i \in Ip |->
                IF i \in e.ips /\ cur \notin Internal THEN e.dns_servers
                ELSE ctr_dns_server[i]]
           /\ container_ips' = [container_ips EXCEPT ![e.id] = @ \cup e.ips]
           /\ network_names' = [network_names EXCEPT ![n] =
                [l \in Label |-> IF l \in e.aliases THEN @[l] \cup e.ips ELSE @[l]]]
           /\ network_is_internal' = [network_is_internal EXCEPT ![n] =
                IF cur \in Internal THEN "internal" ELSE "external"]
    /\ pos' = pos + 1
    /\ UNCHANGED <<dir, pc, unread, cur, listen_ips, network_dns_server, ctrs>>

EndFile ==
    /\ pc = "entries"
    /\ pos \notin DOMAIN Parsed(cur).entries
    /\ pc' = "scan"
    /\ UNCHANGED <<dir, unread, cur, pos, maps, ctrs>>

\* Variant of SetUp, to be refuted: an address belongs to the networks of
\* the container that is met last only.
SetUpOneOwner ==
    /\ pc = "scan"
    /\ unread = {}
    /\ \E owner \in [Ip -> Container] : ctrs' =
          [i \in Ip |-> UNION {network_membership[c] :
             c \in {d \in Container : i \in container_ips[d] /\ owner[i] = d}}]
    /\ pc' = "done"
    /\ UNCHANGED <<dir, unread, cur, pos, maps>>

\* Variant of SetUp, to be refuted: an address is given its containers' ids,
\* strings like the names of networks.
SetUpListsIds ==
    /\ pc = "scan"
    /\ unread = {}
    /\ ctrs' = [i \in Ip |-> {c \in Container : i \in container_ips[c]}]
    /\ pc' = "done"
    /\ UNCHANGED <<dir, unread, cur, pos, maps>>

\* Every file is merged: an address belongs to all networks of every
\* container that has it in any network.
SetUp ==
    /\ pc = "scan"
    /\ unread = {}
    /\ ctrs' = [i \in Ip |->
          UNION {network_membership[c] :
                    c \in {d \in Container : i \in container_ips[d]}}]
    /\ pc' = "done"
    /\ UNCHANGED <<dir, unread, cur, pos, maps>>

Terminated == pc = "done" /\ UNCHANGED vars

Next ==
    \/ \E f \in File : SkipFile(f) \/ OpenFile(f)
    \/ MergeEntry
    \/ EndFile
    \/ SetUp
    \/ Terminated

Spec == Init /\ [][Next]_vars

\* DNSBackend::new
TheBackend ==
    [ip_mappings |-> ctrs,
     name_mappings |-> network_names,
     reverse_mappings |-> reverse,
     ctr_dns_server |-> ctr_dns_server,
     network_dns_server |-> network_dns_server,
     network_is_internal |-> network_is_internal]
=============================================================================
