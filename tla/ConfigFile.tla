----------------------------- MODULE ConfigFile -----------------------------
(***************************************************************************)
(* One configuration file and parse_config (src/src/config/mod.rs).        *)
(*                                                                         *)
(* The text of a file is the sequence of its lines that are not empty, a   *)
(* line the sequence of its columns, which single spaces part, and a       *)
(* column the set of its words, which commas part. An empty column is {},  *)
(* and an empty word between two commas is Blank. Whether a word is an     *)
(* address, and of which family, is whether it is in V4, V6 or Server.     *)
(***************************************************************************)
EXTENDS Backend, Sequences, Integers

CONSTANTS
    Word,         \* the words of the files
    Blank,        \* the empty word
    Lower,        \* [Word -> the word in lower case]
    Container,    \* container ids
    Text,         \* what a file may hold; servers' columns have no address
                  \* of Ip, other columns none of Server
    Malformed     \* what parse_config makes of a text it rejects

\* split(',')
Words(column) == IF column = {} THEN {Blank} ELSE column
Id(line) == Lower[CHOOSE w \in Words(line[1]) : TRUE]
Aliases(line) == {Lower[w] : w \in Words(line[4])}

\* The empty word is no address: every first line that parses has one.
ASSUME BlankAssumption == Blank \notin Ip \cup Server

ASSUME TextAssumption ==
    \A t \in Text :
        /\ t \in Seq(Seq(SUBSET Word))
        /\ \A i \in DOMAIN t : t[i] # <<>>
        /\ \A i \in 2..Len(t) : Len(t[i]) >= 4 =>
              Id(t[i]) \in Container /\ Aliases(t[i]) \subseteq Label

\* CtrEntry
Entries ==
    [id : Container, ips : SUBSET Ip, aliases : (SUBSET Label) \ {{}},
     dns_servers : {NoDns} \cup ((SUBSET Server) \ {{}})]

ASSUME MalformedAssumption ==
    Malformed \notin
        [bind : SUBSET Ip, dns : SUBSET Server, entries : Seq(Entries)]

-----------------------------------------------------------------------------
\* Variant of FirstLineParses, to be refuted: the servers are not optional.
FirstLineNeedsServers(line) ==
    /\ Len(line) > 1
    /\ line[1] # {} /\ line[1] \subseteq Ip
    /\ line[2] # {} /\ line[2] \subseteq Server

\* The addresses to bind and, in a second column, the network's servers. A
\* second column that is there must not be empty; further ones are ignored.
FirstLineParses(line) ==
    /\ Words(line[1]) \subseteq Ip
    /\ Len(line) > 1 => Words(line[2]) \subseteq Server

\* The servers' column counts if it is the last of five.
OwnServers(line) == IF Len(line) = 5 THEN line[5] ELSE {}
EntryParses(line) ==
    /\ Len(line) >= 4
    /\ line[2] \subseteq V4 /\ line[3] \subseteq V6
    /\ OwnServers(line) \subseteq Server

Entry(line) ==
    [id |-> Id(line), ips |-> line[2] \cup line[3], aliases |-> Aliases(line),
     dns_servers |-> IF OwnServers(line) = {} THEN NoDns ELSE OwnServers(line)]

\* Variant of Parses, to be refuted: a network without a container is none.
ParsesWithContainers(t) ==
    /\ Len(t) > 1
    /\ FirstLineParses(t[1])
    /\ \A i \in 2..Len(t) : EntryParses(t[i])

\* One line that does not parse makes the whole file an error.
Parses(t) ==
    /\ t # <<>>
    /\ FirstLineParses(t[1])
    /\ \A i \in 2..Len(t) : EntryParses(t[i])

parse_config(t) ==
    IF Parses(t)
    THEN [bind |-> t[1][1],
          dns |-> IF Len(t[1]) > 1 THEN t[1][2] ELSE {},
          entries |-> [i \in 1..(Len(t) - 1) |-> Entry(t[i + 1])]]
    ELSE Malformed
=============================================================================
