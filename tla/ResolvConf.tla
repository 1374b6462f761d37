----------------------------- MODULE ResolvConf -----------------------------
(***************************************************************************)
(* The host's name servers: how /etc/resolv.conf is parsed, read at the    *)
(* start and on SIGHUP, and watched through inotify (src/src/server/       *)
(* serve.rs, get_upstream_resolvers, parse_resolv_conf,                    *)
(* get_inotify_event_stream and the select loop of serve).                 *)
(*                                                                         *)
(* The file belongs to others, who write it in place, line by line as far  *)
(* as a reader can tell, or put another file under its name. inotify       *)
(* watches the file, not the name: when the file is replaced or removed a  *)
(* last event tells that the watch is gone, and none follows.              *)
(***************************************************************************)
EXTENDS Integers, Sequences, Functions

CONSTANTS
    V4, V6,       \* addresses by family
    Zone,         \* what may follow the % of an address
    NoZone,       \* ... and nothing does
    ScopeId,      \* [Zone -> the id it is or names on this host, or NoScope]
    NoScope,      \* an interface the host does not have
    Text,         \* contents of resolv.conf, as sequences of lines
    Later,        \* contents it may change to
    Absent,       \* no such file
    NoWriter,     \* no program is writing it
    Rejected,     \* a text that is an error
    Fault,        \* the calls that may fail in this instance
    MaxChanges    \* bound on changes of the file

ASSUME TextAssumption ==
    /\ Later \subseteq Text
    /\ \A t \in Text : t \in Seq(Range(t))
    /\ \A t \in Text : \A n \in 0..Len(t) : SubSeq(t, 1, n) \in Text
    /\ \A t \in Text : \A i \in DOMAIN t :
          /\ t[i].rest \in Seq(Range(t[i].rest))
          /\ \A w \in Range(t[i].rest) : w.zone \in Zone \cup {NoZone}
    /\ Absent \notin Text /\ NoWriter \notin Text
ASSUME ScopeAssumption == Zone = DOMAIN ScopeId /\ NoScope # 0

\* A name server: its address and the scope of a link-local one, or 0.
NameServer == (V4 \cup V6) \X ({0} \cup Range(ScopeId))
ASSUME RejectedAssumption ==
    Rejected \notin NameServer /\ Rejected \notin Seq(NameServer)

ASSUME BoundAssumption == MaxChanges \in Nat
ASSUME FaultAssumption == Fault \subseteq {"inotify", "resolv"}

-----------------------------------------------------------------------------
(* parse_resolv_conf. A line is what is left of it when comments are cut   *)
(* off: its first word, and the words after it. A word is read as an       *)
(* address with or without a zone; ip is in neither family when the text   *)
(* before the % is no address.                                             *)

\* Variant of Address, to be refuted: a zone nobody knows is ignored.
AddressIgnoringZone(w) ==
    IF w.ip \in V4 \cup V6 THEN <<w.ip, 0>> ELSE Rejected

Scope(w) == IF w.zone = NoZone THEN 0 ELSE ScopeId[w.zone]
Address(w) ==
    IF \/ w.ip \in V4 /\ w.zone = NoZone
       \/ w.ip \in V6 /\ Scope(w) # NoScope
    THEN <<w.ip, Scope(w)>>
    ELSE Rejected

\* One turn of the loop over the lines. The first error ends it.
Push(servers, line) ==
    IF servers = Rejected \/ line.first # "nameserver" \/ line.rest = <<>>
    THEN servers
    ELSE LET address == Address(Head(line.rest))
         IN IF address = Rejected THEN Rejected ELSE Append(servers, address)

\* The loop: the servers found in the first n lines.
Found(t) ==
    LET servers[n \in 0..Len(t)] ==
            IF n = 0 THEN <<>> ELSE Push(servers[n - 1], t[n])
    IN  servers

parse_resolv_conf(t) ==
    LET servers == Found(t)[Len(t)]
    IN IF servers = Rejected THEN Rejected
       ELSE SubSeq(servers, 1, IF Len(servers) < 3 THEN Len(servers) ELSE 3)

-----------------------------------------------------------------------------
VARIABLES
    text,         \* what is under the name /etc/resolv.conf
    writer,       \* what a program that has truncated it is going to write
    changes,      \* how often it has been changed (bounded)
    watch,        \* the inotify watch: on the file, or on one that is gone
    event,        \* an inotify event waits to be read
    sighup,       \* a SIGHUP is pending
    pc,           \* where the supervisor is
    nameservers,  \* the list shared with the listeners
    late,         \* changed between the first read and the watch (history)
    missed        \* the last reload could not read a file that is all right
                  \* (history)

fileVars == <<text, writer, changes>>
vars == <<fileVars, watch, event, sighup, pc, nameservers, late, missed>>

\* What the file says.
FileServers == IF text = Absent THEN Rejected ELSE parse_resolv_conf(text)

\* What a call may return: open() and read_to_string() can fail on a file that
\* exists, too.
get_upstream_resolvers ==
    {FileServers} \cup (IF "resolv" \in Fault THEN {Rejected} ELSE {})

\* Every list there can be: of some text, or the empty one.
Lists == {parse_resolv_conf(t) : t \in Text} \ {Rejected}

TypeOK ==
    /\ text \in Text \cup {Absent}
    /\ writer \in Text \cup {NoWriter}
    /\ changes \in 0..MaxChanges
    /\ watch \in {"none", "current", "gone"}
    /\ event \in BOOLEAN
    /\ sighup \in BOOLEAN
    /\ pc \in {"first", "watch", "idle", "exited"}
    /\ nameservers \in Lists \cup {<<>>}
    /\ late \in BOOLEAN
    /\ missed \in BOOLEAN

Init ==
    /\ text \in Text \cup {Absent}
    /\ writer = NoWriter
    /\ changes = 0
    /\ watch = "none"
    /\ event = FALSE
    /\ sighup = FALSE
    /\ pc = "first"
    /\ nameservers = <<>>
    /\ late = FALSE /\ missed = FALSE

-----------------------------------------------------------------------------
(* The supervisor.                                                         *)

\* Variant of FirstRead, to be refuted: the result is not looked at.
FirstReadUnchecked ==
    /\ pc = "first"
    /\ nameservers' \in get_upstream_resolvers
    /\ pc' = "watch"
    /\ UNCHANGED <<fileVars, watch, event, sighup, late, missed>>

\* read_config_and_spawn while starting. A file that cannot be used is one
\* of the errors that end the start, after the list has been set.
FirstRead ==
    /\ pc = "first"
    /\ \E servers \in get_upstream_resolvers :
          \/ /\ servers # Rejected
             /\ nameservers' = servers
             /\ pc' = "watch"
          \/ /\ servers = Rejected
             /\ nameservers' = <<>>
             /\ pc' = "exited"
    /\ UNCHANGED <<fileVars, watch, event, sighup, late, missed>>

Watch ==
    /\ pc = "watch"
    /\ text # Absent
    /\ watch' = "current"
    /\ pc' = "idle"
    /\ UNCHANGED <<fileVars, event, sighup, nameservers, late, missed>>

\* No file to watch, or no inotify: the select loop unwraps the event stream
\* that is not there and panics.
WatchFails ==
    /\ pc = "watch"
    /\ text = Absent \/ "inotify" \in Fault
    /\ pc' = "exited"
    /\ UNCHANGED <<fileVars, watch, event, sighup, nameservers, late, missed>>

\* The file is read again; the list is the other one if that fails.
Reread(otherwise) ==
    /\ \E servers \in get_upstream_resolvers :
          /\ nameservers' = IF servers = Rejected THEN otherwise ELSE servers
          /\ missed' = (servers # FileServers)
    /\ late' = FALSE

\* Variants of OnEvent, to be refuted: the list is emptied on an error; the
\* event is read and nothing done.
OnEventClears ==
    /\ pc = "idle" /\ event
    /\ event' = FALSE
    /\ Reread(<<>>)
    /\ UNCHANGED <<fileVars, watch, sighup, pc>>

OnEventIgnored ==
    /\ pc = "idle" /\ event
    /\ event' = FALSE
    /\ late' = FALSE /\ missed' = FALSE
    /\ UNCHANGED <<fileVars, watch, sighup, pc, nameservers>>

\* The inotify branch: an error keeps the list. The event is gone all the same.
OnEvent ==
    /\ pc = "idle" /\ event
    /\ event' = FALSE
    /\ Reread(nameservers)
    /\ UNCHANGED <<fileVars, watch, sighup, pc>>

\* The SIGHUP branch, as far as it concerns the list: an error empties it.
OnSighup ==
    /\ pc = "idle" /\ sighup
    /\ sighup' = FALSE
    /\ Reread(<<>>)
    /\ UNCHANGED <<fileVars, watch, event, pc>>

-----------------------------------------------------------------------------
(* The host.                                                               *)

\* A change between the first read and the watch goes unnoticed.
Late == late' = (late \/ pc = "watch")

\* open() for writing empties the file.
Truncate ==
    /\ text # Absent /\ writer = NoWriter
    /\ changes < MaxChanges
    /\ changes' = changes + 1
    /\ writer' \in Later
    /\ text' = <<>>
    /\ Late
    /\ UNCHANGED <<watch, event, sighup, pc, nameservers, missed>>

WriteLine ==
    /\ writer # NoWriter /\ text # writer
    /\ text' = SubSeq(writer, 1, Len(text) + 1)
    /\ Late
    /\ UNCHANGED <<writer, changes, watch, event, sighup, pc, nameservers, missed>>

\* Variant of CloseWrite, to be refuted: the mask lacks IN_CLOSE_WRITE.
CloseWriteUnwatched ==
    /\ writer # NoWriter /\ text = writer
    /\ writer' = NoWriter
    /\ UNCHANGED <<text, changes, watch, event, sighup, pc, nameservers, late, missed>>

\* IN_CLOSE_WRITE.
CloseWrite ==
    /\ writer # NoWriter /\ text = writer
    /\ writer' = NoWriter
    /\ event' = (event \/ watch = "current")
    /\ UNCHANGED <<text, changes, watch, sighup, pc, nameservers, late, missed>>

\* rename() or unlink(). The watched file goes: IN_IGNORED.
Replace ==
    /\ writer = NoWriter
    /\ changes < MaxChanges
    /\ changes' = changes + 1
    /\ text' \in (Later \cup {Absent}) \ {text}
    /\ watch' = IF watch = "current" THEN "gone" ELSE watch
    /\ event' = (event \/ watch = "current")
    /\ Late
    /\ UNCHANGED <<writer, sighup, pc, nameservers, missed>>

SendSighup ==
    /\ pc # "exited"
    /\ sighup' = TRUE
    /\ UNCHANGED <<fileVars, watch, event, pc, nameservers, late, missed>>

-----------------------------------------------------------------------------
Supervisor == FirstRead \/ Watch \/ WatchFails \/ OnEvent \/ OnSighup
Host == Truncate \/ WriteLine \/ CloseWrite \/ Replace \/ SendSighup

Next == Supervisor \/ Host

\* select! polls its branches in random order: a pending event or signal
\* is taken although the other branch is ready again and again.
Fairness ==
    /\ WF_vars(FirstRead \/ Watch \/ WatchFails)
    /\ WF_vars(OnEvent) /\ WF_vars(OnSighup)

Spec == Init /\ [][Next]_vars
FairSpec == Spec /\ Fairness
=============================================================================
