-------------------------- MODULE ResolvConfProps --------------------------
(***************************************************************************)
(* What must hold of the host's name servers modelled in ResolvConf.       *)
(***************************************************************************)
EXTENDS ResolvConf, FiniteSetsExt

\* The lines of a text that give a name server.
ServerLines(t) == {i \in DOMAIN t : t[i].first = "nameserver" /\ t[i].rest # <<>>}

\* A text is rejected if one of its name servers is no address, or a link
\* local one on an interface this host does not have, or an IPv4 one with a
\* zone: also one after the third. Otherwise the list has its first three
\* name servers, in order.
WellFormed(w) ==
    /\ w.ip \in V4 \cup V6
    /\ w.zone # NoZone => w.ip \in V6 /\ ScopeId[w.zone] # NoScope
Usable(t) == \A i \in ServerLines(t) : WellFormed(t[i].rest[1])
Rank(t, i) == Cardinality({j \in ServerLines(t) : j <= i})

\* parse_resolv_conf does what the definition above says, comments, unknown
\* lines, missing and surplus words and all (serve.rs:427-486).
FirstThreeInOrder ==
    text # Absent =>
        LET list == parse_resolv_conf(text)
        IN IF Usable(text)
           THEN /\ Len(list) = Min({3, Cardinality(ServerLines(text))})
                /\ \A i \in ServerLines(text) : Rank(text, i) <= 3 =>
                      list[Rank(text, i)] =
                          <<text[i].rest[1].ip, Scope(text[i].rest[1])>>
           ELSE list = Rejected

\* The list is that of the file once it is known how the file stands: the
\* watch is on it, no change waits to be noticed, nobody is writing, nothing
\* changed before there was a watch, and the last event or SIGHUP could open
\* and read the file. A SIGHUP that came while the file was half written does
\* not leave half of it behind. Without that last condition the list may be
\* an old one, or empty: the event is consumed by a read that fails
\* (serve.rs:394, 396, 119-125), and nothing reads again before the next one.
FollowsWatchedFile ==
    /\ pc = "idle" /\ watch = "current" /\ ~event /\ writer = NoWriter
    /\ ~late /\ ~missed
    /\ FileServers # Rejected
    => nameservers = FileServers

\* A file that cannot be used or read, for instance one being replaced, does
\* not cost a serving process its name servers because inotify reports it
\* (serve.rs:119-125): the list only ever changes to that of the file at that
\* moment, and only a SIGHUP may empty it instead (serve.rs:324-339).
OnlySighupEmptiesList ==
    [][\/ nameservers' = nameservers \/ nameservers' = FileServers
       \/ nameservers' = <<>> /\ sighup /\ ~sighup']_vars

\* Once the file is no longer changed, a process that watches it comes to
\* use its name servers, whatever was read meanwhile, if the last of its reads
\* did not fail: there is no other. A change before the watch, one after the
\* file was replaced, and one whose read failed are only noticed on SIGHUP.
EventuallyFollows ==
    <>[](\/ pc = "exited" \/ writer # NoWriter \/ late \/ missed \/ watch = "gone"
         \/ FileServers = Rejected
         \/ nameservers = FileServers)

\* RELEASE_NOTES.md:16: "Aardvark-dns now updates the upstream nameservers from
\* /etc/resolv.conf when the file content changes using inotify."
FollowsEveryChange ==
    /\ pc = "idle" /\ ~event /\ writer = NoWriter
    /\ FileServers # Rejected
    => nameservers = FileServers

-----------------------------------------------------------------------------
(* The inductive invariant behind these properties.                        *)

\* A file that is being written has the first lines of its new content.
WriterInv ==
    writer # NoWriter => \E n \in 0..Len(writer) : text = SubSeq(writer, 1, n)

\* What the supervisor knows of the file at each point.
ReaderInv ==
    /\ pc = "first" => nameservers = <<>>
    /\ pc \in {"first", "watch"} => watch = "none"
    /\ pc = "idle" => watch # "none"
    /\ pc = "watch" /\ ~late => nameservers = FileServers
    /\ FollowsWatchedFile

ListInv == TypeOK /\ WriterInv /\ ReaderInv
=============================================================================
