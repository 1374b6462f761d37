------------------------------- MODULE Server -------------------------------
(***************************************************************************)
(* The supervisor of aardvark-dns (src/src/server/serve.rs): one process   *)
(* that reads a directory of per-network files, keeps one listener task    *)
(* per configured (network, address) pair, and on every SIGHUP reads the   *)
(* directory again and starts and stops listeners to match it.             *)
(*                                                                         *)
(* Three kinds of actor interleave here: the supervisor's own task, whose  *)
(* control state is pc; the listener tasks, which stop on their own after  *)
(* they were told to (or after accept() fails); and netavark, which        *)
(* rewrites files and sends SIGHUP at any moment.                          *)
(***************************************************************************)
EXTENDS Integers, FiniteSets

CONSTANTS
    Network,     \* network names, one configuration file each
    V4, V6,      \* listen addresses by family
    Content,     \* valid contents of a configuration file
    ListenIps,   \* [Content -> the bind addresses on its first line]
    Absent,      \* no such file
    Malformed,   \* a file parse_config rejects, e.g. one half written
    Nobody,      \* no listener
    Resolv,      \* lists of host name servers resolv.conf can give
    NoServers,   \* the empty list
    Fault,       \* the operating-system calls that may fail in this instance
    MaxChanges   \* bound on how often netavark changes the directory

Ip == V4 \cup V6

ASSUME AddressAssumption == V4 \cap V6 = {}
ASSUME ContentAssumption ==
    /\ ListenIps \in [Content -> (SUBSET Ip) \ {{}}]
    /\ Absent \notin Content
    /\ Malformed \notin Content
    /\ Absent # Malformed
ASSUME NobodyAssumption == Nobody \notin Network \X Ip
ASSUME ResolvAssumption == NoServers \notin Resolv
ASSUME BoundAssumption == MaxChanges \in Nat
ASSUME FaultAssumption ==
    Fault \subseteq 
        {"config_io", "bind", "resolv", "pidfile", "ready", "inotify", "accept"}

\* A listener is known by its network and its address, as in ThreadHandleMap.
Key == Network \X Ip
Families == {"v4", "v6"}
KeysOf(f) == Network \X (IF f = "v4" THEN V4 ELSE V6)

\* Variant of Effective, to be refuted: a malformed file is not skipped.
EffectiveUnchecked(c) == c

\* What reading a file contributes to the new configuration: a file that is
\* gone or does not parse is skipped.
Effective(c) == IF c \in Content THEN c ELSE Absent
NoConfig == [n \in Network |-> Absent]

\* The listeners a configuration asks for.
Expected(b) ==
    {k \in Key : b[k[1]] \in Content /\ k[2] \in ListenIps[b[k[1]]]}

VARIABLES
    file,         \* netavark's directory: content of each network's file
    signalDue,    \* netavark has changed a file and not yet signalled it
    changes,      \* how many changes netavark has made (bounded)
    sighup,       \* a SIGHUP is pending; further ones coalesce with it
    pidfile,      \* aardvark.pid exists
    status,       \* what the outside sees of the process
    pc, fam,      \* where the supervisor is, and in which address family
    listing,      \* files that existed when the directory was opened
    unread,       \* networks whose file this pass has not got to
    conf,         \* the configuration this pass is building
    skipped,      \* history: existing files this pass failed to read
    dirRead,      \* history: the last pass got to the end of the directory
    backend,      \* the published configuration (the ArcSwap)
    nameservers,  \* the shared list of host name servers
    errors,       \* the last published pass met an error
    unbound,      \* history: listeners this pass failed to bind
    toStart, cur, \* listeners still to be started, and the one being bound
    handles,      \* keys of handles_v4 and handles_v6
    awaiting,     \* listeners told to stop whose tasks are being joined
    task,         \* state of each listener task
    udp, tcp      \* which listener holds each address

netavarkVars == <<file, signalDue, changes>>
processVars == <<sighup, pidfile, status>>
parseVars == <<listing, unread, conf, skipped, dirRead>>
sharedVars == <<backend, nameservers>>
startVars == <<errors, unbound, toStart, cur>>
taskVars == <<handles, awaiting, task>>
socketVars == <<udp, tcp>>
vars == <<netavarkVars, processVars, pc, fam, parseVars, sharedVars,
          startVars, taskVars, socketVars>>

Exited == status \in {"stopped", "failed"}
ReloadPoints ==
    {"open", "read", "remove_pid", "drain", "drain_await", "nameservers",
     "stop", "await", "start", "bind_tcp", "ready", "watch"}

TypeOK ==
    /\ file \in [Network -> Content \cup {Absent, Malformed}]
    /\ signalDue \in BOOLEAN
    /\ changes \in 0..MaxChanges
    /\ sighup \in BOOLEAN
    /\ pidfile \in BOOLEAN
    /\ status \in {"starting", "serving", "stopped", "failed"}
    /\ pc \in ReloadPoints \cup {"idle", "exited"}
    /\ fam \in Families
    /\ listing \subseteq Network
    /\ unread \subseteq Network
    /\ conf \in [Network -> Content \cup {Absent}]
    /\ backend \in [Network -> Content \cup {Absent}]
    /\ skipped \subseteq Network
    /\ dirRead \in BOOLEAN
    /\ nameservers \in Resolv \cup {NoServers}
    /\ errors \in BOOLEAN
    /\ unbound \subseteq Key
    /\ toStart \subseteq Key
    /\ cur \in Key \cup {Nobody}
    /\ handles \subseteq Key
    /\ awaiting \subseteq Key
    /\ task \in [Key -> {"none", "running", "done"}]
    /\ udp \in [Ip -> Key \cup {Nobody}]
    /\ tcp \in [Ip -> Key \cup {Nobody}]

\* serve() has installed its signal handler and calls read_config_and_spawn
\* for the first time.
Init ==
    /\ file \in [Network -> Content \cup {Absent, Malformed}]
    /\ signalDue = FALSE
    /\ changes = 0
    /\ sighup = FALSE
    /\ pidfile = TRUE
    /\ status = "starting"
    /\ pc = "open"
    /\ fam = "v4"
    /\ listing = {}
    /\ unread = {}
    /\ conf = NoConfig
    /\ skipped = {}
    /\ dirRead = FALSE
    /\ backend = NoConfig
    /\ nameservers = NoServers
    /\ errors = FALSE
    /\ unbound = {}
    /\ toStart = {}
    /\ cur = Nobody
    /\ handles = {}
    /\ awaiting = {}
    /\ task = [k \in Key |-> "none"]
    /\ udp = [i \in Ip |-> Nobody]
    /\ tcp = [i \in Ip |-> Nobody]

-----------------------------------------------------------------------------
\* process::exit, or main returning an error: every task and socket goes.
Exit(how) ==
    /\ status' = how
    /\ pc' = "exited"
    /\ fam' = "v4"
    /\ listing' = {}
    /\ unread' = {}
    /\ conf' = NoConfig
    /\ skipped' = {}
    /\ dirRead' = FALSE
    /\ unbound' = {}
    /\ toStart' = {}
    /\ cur' = Nobody
    /\ handles' = {}
    /\ awaiting' = {}
    /\ task' = [k \in Key |-> "none"]
    /\ udp' = [i \in Ip |-> Nobody]
    /\ tcp' = [i \in Ip |-> Nobody]
    /\ UNCHANGED <<netavarkVars, sighup, sharedVars, errors>>

-----------------------------------------------------------------------------
(* Reading the directory: parse_configs.                                   *)

\* The select loop takes the pending SIGHUP.
BeginReload ==
    /\ pc = "idle"
    /\ sighup
    /\ sighup' = FALSE
    /\ pc' = "open"
    /\ UNCHANGED <<netavarkVars, pidfile, status, fam, parseVars, sharedVars,
                   startVars, taskVars, socketVars>>

OpenDir ==
    /\ pc = "open"
    /\ pc' = "read"
    /\ listing' = {n \in Network : file[n] # Absent}
    /\ unread' = Network
    /\ conf' = NoConfig
    /\ skipped' = {}
    /\ UNCHANGED <<netavarkVars, processVars, fam, dirRead, sharedVars,
                   startVars, taskVars, socketVars>>

\* Files are read one by one while netavark may be changing them. A file
\* created after the directory was opened may or may not be listed; one that
\* cannot be read, or is gone when it is, is left out and the pass goes on.
ReadFile(n) ==
    /\ pc = "read"
    /\ n \in unread
    /\ unread' = unread \ {n}
    /\ \/ /\ conf' = [conf EXCEPT ![n] = Effective(file[n])]
          /\ UNCHANGED skipped
       \/ /\ n \notin listing
          /\ UNCHANGED <<conf, skipped>>
       \/ /\ n \in listing
          /\ "config_io" \in Fault
          /\ skipped' = skipped \cup {n}
          /\ UNCHANGED conf
    /\ UNCHANGED <<netavarkVars, processVars, pc, fam, listing, dirRead,
                   sharedVars, startVars, taskVars, socketVars>>

\* Variant of KeepServing, to be refuted: a directory that cannot be read
\* counts as an empty one.
KeepServingNothing ==
    /\ status = "serving"
    /\ pc' = "remove_pid"
    /\ backend' = NoConfig
    /\ listing' = {}
    /\ unread' = {}
    /\ conf' = NoConfig
    /\ skipped' = {}
    /\ dirRead' = FALSE
    /\ UNCHANGED <<netavarkVars, processVars, fam, nameservers, startVars,
                   taskVars, socketVars>>

\* The directory cannot be opened, or a file name is not UTF-8. A serving
\* process logs the error and keeps what it has; a starting one gives up.
KeepServing ==
    /\ status = "serving"
    /\ pc' = "idle"
    /\ listing' = {}
    /\ unread' = {}
    /\ conf' = NoConfig
    /\ skipped' = {}
    /\ dirRead' = FALSE
    /\ UNCHANGED <<netavarkVars, processVars, fam, sharedVars, startVars,
                   taskVars, socketVars>>

ParseFails ==
    /\ pc \in {"open", "read"}
    /\ "config_io" \in Fault
    /\ \/ KeepServing
       \/ status = "starting" /\ Exit("failed") /\ UNCHANGED pidfile

\* Variant of Publish, to be refuted: the pending signal is cleared when the
\* reload has read the directory and not when it begins.
PublishClearsSighup ==
    /\ pc = "read"
    /\ unread = {}
    /\ backend' = conf
    /\ errors' = FALSE
    /\ unbound' = {}
    /\ dirRead' = TRUE
    /\ pc' = IF Expected(conf) = {} THEN "remove_pid" ELSE "nameservers"
    /\ listing' = {}
    /\ conf' = NoConfig
    /\ sighup' = FALSE
    /\ UNCHANGED <<netavarkVars, pidfile, status, fam, unread, skipped,
                   nameservers, toStart, cur, taskVars, socketVars>>

\* The new configuration replaces the old one for every listener at once.
\* A configuration with no listen address at all ends the server.
Publish ==
    /\ pc = "read"
    /\ unread = {}
    /\ backend' = conf
    /\ errors' = FALSE
    /\ unbound' = {}
    /\ dirRead' = TRUE
    /\ pc' = IF Expected(conf) = {} THEN "remove_pid" ELSE "nameservers"
    /\ listing' = {}
    /\ conf' = NoConfig
    /\ UNCHANGED <<netavarkVars, processVars, fam, unread, skipped,
                   nameservers, toStart, cur, taskVars, socketVars>>

-----------------------------------------------------------------------------
(* The empty configuration: remove the pid file, stop everything, exit.    *)

RemovePid ==
    /\ pc = "remove_pid"
    /\ pidfile' = FALSE
    /\ pc' = "drain"
    /\ UNCHANGED <<netavarkVars, sighup, status, fam, parseVars, sharedVars,
                   startVars, taskVars, socketVars>>

RemovePidFails ==
    /\ pc = "remove_pid"
    /\ "pidfile" \in Fault
    /\ Exit("failed")
    /\ UNCHANGED pidfile

\* stop_threads(handles, None): drop every stop channel of the family.
Drain ==
    /\ pc = "drain"
    /\ awaiting' = handles \cap KeysOf(fam)
    /\ handles' = handles \ KeysOf(fam)
    /\ pc' = "drain_await"
    /\ UNCHANGED <<netavarkVars, processVars, fam, parseVars, sharedVars,
                   startVars, task, socketVars>>

AllJoined == \A k \in awaiting : task[k] = "done"
TasksJoined == [k \in Key |-> IF k \in awaiting THEN "none" ELSE task[k]]

\* Variant of DrainV4Joined, to be refuted: only one family is stopped
\* before the exit.
DrainV4Exits ==
    /\ pc = "drain_await"
    /\ AllJoined
    /\ fam = "v4"
    /\ Exit("stopped")
    /\ UNCHANGED pidfile

DrainV4Joined ==
    /\ pc = "drain_await"
    /\ AllJoined
    /\ fam = "v4"
    /\ task' = TasksJoined
    /\ awaiting' = {}
    /\ fam' = "v6"
    /\ pc' = "drain"
    /\ UNCHANGED <<netavarkVars, processVars, parseVars, sharedVars,
                   startVars, handles, socketVars>>

DrainV6Joined ==
    /\ pc = "drain_await"
    /\ AllJoined
    /\ fam = "v6"
    /\ Exit("stopped")
    /\ UNCHANGED pidfile

-----------------------------------------------------------------------------
(* Adopting a configuration: get_upstream_resolvers, then                  *)
(* stop_and_start_threads for each family in turn.                         *)

\* An unreadable resolv.conf empties the list and is reported at the end.
ReadNameservers ==
    /\ pc = "nameservers"
    /\ \/ nameservers' \in Resolv \cup {NoServers} /\ errors' = errors
       \/ "resolv" \in Fault /\ nameservers' = NoServers /\ errors' = TRUE
    /\ pc' = "stop"
    /\ UNCHANGED <<netavarkVars, processVars, fam, parseVars, backend,
                   unbound, toStart, cur, taskVars, socketVars>>

\* Variant of Stale, to be refuted: a reload restarts every listener.
StaleAll == handles \cap KeysOf(fam)

\* Listeners that are no longer expected are told to stop before any is
\* started, so that an address can move from one network to another.
Stale == (handles \cap KeysOf(fam)) \ Expected(backend)

\* Variants of StopStale, to be refuted: the dropped tasks are not joined;
\* every task of the family is joined, the running ones too.
StopStaleNoJoin ==
    /\ pc = "stop"
    /\ awaiting' = {}
    /\ handles' = handles \ Stale
    /\ pc' = "await"
    /\ UNCHANGED <<netavarkVars, processVars, fam, parseVars, sharedVars,
                   startVars, task, socketVars>>

StopStaleJoinsAll ==
    /\ pc = "stop"
    /\ awaiting' = handles \cap KeysOf(fam)
    /\ handles' = handles \ Stale
    /\ pc' = "await"
    /\ UNCHANGED <<netavarkVars, processVars, fam, parseVars, sharedVars,
                   startVars, task, socketVars>>

StopStale ==
    /\ pc = "stop"
    /\ awaiting' = Stale
    /\ handles' = handles \ Stale
    /\ pc' = "await"
    /\ UNCHANGED <<netavarkVars, processVars, fam, parseVars, sharedVars,
                   startVars, task, socketVars>>

\* Variant of StaleJoined, to be refuted: it does not wait for the tasks.
StaleNotJoined ==
    /\ pc = "await"
    /\ task' = TasksJoined
    /\ awaiting' = {}
    /\ toStart' = (Expected(backend) \cap KeysOf(fam)) \ handles
    /\ pc' = "start"
    /\ UNCHANGED <<netavarkVars, processVars, fam, parseVars, sharedVars,
                   errors, unbound, cur, handles, socketVars>>

\* Every stopped task has been joined: its sockets are closed. The expected
\* listeners without a handle are the ones to start.
StaleJoined ==
    /\ pc = "await"
    /\ AllJoined
    /\ task' = TasksJoined
    /\ awaiting' = {}
    /\ toStart' = (Expected(backend) \cap KeysOf(fam)) \ handles
    /\ pc' = "start"
    /\ UNCHANGED <<netavarkVars, processVars, fam, parseVars, sharedVars,
                   errors, unbound, cur, handles, socketVars>>

\* Variant of BindUdp, to be refuted: the first failure ends the loop.
BindUdpGivesUp(k) ==
    /\ pc = "start"
    /\ k \in toStart
    /\ \/ /\ udp[k[2]] = Nobody
          /\ udp' = [udp EXCEPT ![k[2]] = k]
          /\ cur' = k
          /\ pc' = "bind_tcp"
          /\ toStart' = toStart \ {k}
          /\ UNCHANGED <<errors, unbound>>
       \/ /\ udp[k[2]] # Nobody \/ "bind" \in Fault
          /\ errors' = TRUE
          /\ unbound' = unbound \cup {k}
          /\ toStart' = {}
          /\ UNCHANGED <<udp, cur, pc>>
    /\ UNCHANGED <<netavarkVars, processVars, fam, parseVars, sharedVars,
                   taskVars, tcp>>

\* Addresses are bound one after the other, in the arbitrary order of a
\* HashSet. A failure is collected and the next listener is tried.
BindUdp(k) ==
    /\ pc = "start"
    /\ k \in toStart
    /\ toStart' = toStart \ {k}
    /\ \/ /\ udp[k[2]] = Nobody
          /\ udp' = [udp EXCEPT ![k[2]] = k]
          /\ cur' = k
          /\ pc' = "bind_tcp"
          /\ UNCHANGED <<errors, unbound>>
       \/ /\ udp[k[2]] # Nobody \/ "bind" \in Fault
          /\ errors' = TRUE
          /\ unbound' = unbound \cup {k}
          /\ UNCHANGED <<udp, cur, pc>>
    /\ UNCHANGED <<netavarkVars, processVars, fam, parseVars, sharedVars,
                   taskVars, tcp>>

\* Variant of BindTcp, to be refuted: the future of the listener is made and
\* never polled.
BindTcpNotSpawned ==
    /\ pc = "bind_tcp"
    /\ tcp[cur[2]] = Nobody
    /\ tcp' = [tcp EXCEPT ![cur[2]] = cur]
    /\ handles' = handles \cup {cur}
    /\ cur' = Nobody
    /\ pc' = "start"
    /\ UNCHANGED <<netavarkVars, processVars, fam, parseVars, sharedVars,
                   errors, unbound, toStart, awaiting, task, udp>>

\* Both sockets are bound: spawn the listener and keep its handle.
BindTcp ==
    /\ pc = "bind_tcp"
    /\ tcp[cur[2]] = Nobody
    /\ tcp' = [tcp EXCEPT ![cur[2]] = cur]
    /\ task' = [task EXCEPT ![cur] = "running"]
    /\ handles' = handles \cup {cur}
    /\ cur' = Nobody
    /\ pc' = "start"
    /\ UNCHANGED <<netavarkVars, processVars, fam, parseVars, sharedVars,
                   errors, unbound, toStart, awaiting, udp>>

\* Variant of BindTcpFails, to be refuted: the UDP socket stays bound.
BindTcpFailsKeepsUdp ==
    /\ pc = "bind_tcp"
    /\ tcp[cur[2]] # Nobody \/ "bind" \in Fault
    /\ errors' = TRUE
    /\ unbound' = unbound \cup {cur}
    /\ cur' = Nobody
    /\ pc' = "start"
    /\ UNCHANGED <<netavarkVars, processVars, fam, parseVars, sharedVars,
                   toStart, taskVars, socketVars>>

\* The UDP socket bound just before is dropped.
BindTcpFails ==
    /\ pc = "bind_tcp"
    /\ tcp[cur[2]] # Nobody \/ "bind" \in Fault
    /\ udp' = [udp EXCEPT ![cur[2]] = Nobody]
    /\ errors' = TRUE
    /\ unbound' = unbound \cup {cur}
    /\ cur' = Nobody
    /\ pc' = "start"
    /\ UNCHANGED <<netavarkVars, processVars, fam, parseVars, sharedVars,
                   toStart, taskVars, tcp>>

\* Variant of FinishV4, to be refuted: IPv6 listeners are forgotten.
FinishV4Only ==
    /\ pc = "start"
    /\ toStart = {}
    /\ fam = "v4"
    /\ pc' = IF status = "serving" THEN "idle" ELSE "ready"
    /\ UNCHANGED <<netavarkVars, processVars, fam, parseVars, sharedVars,
                   startVars, taskVars, socketVars>>

FinishV4 ==
    /\ pc = "start"
    /\ toStart = {}
    /\ fam = "v4"
    /\ fam' = "v6"
    /\ pc' = "stop"
    /\ UNCHANGED <<netavarkVars, processVars, parseVars, sharedVars,
                   startVars, taskVars, socketVars>>

\* A reload ends in the select loop whatever errors it met. A first pass
\* with errors ends the process; one without goes on to daemonize.
FinishV6 ==
    /\ pc = "start"
    /\ toStart = {}
    /\ fam = "v6"
    /\ \/ /\ status = "serving" \/ ~errors
          /\ pc' = IF status = "serving" THEN "idle" ELSE "ready"
          /\ fam' = "v4"
          /\ UNCHANGED <<netavarkVars, processVars, parseVars, sharedVars,
                         startVars, taskVars, socketVars>>
       \/ /\ status = "starting" /\ errors
          /\ Exit("failed")
          /\ UNCHANGED pidfile

\* daemonize() and the byte that lets the parent process return.
Ready ==
    /\ pc = "ready"
    /\ status' = "serving"
    /\ pc' = "watch"
    /\ UNCHANGED <<netavarkVars, sighup, pidfile, fam, parseVars, sharedVars,
                   startVars, taskVars, socketVars>>

ReadyFails ==
    /\ pc = "ready"
    /\ "ready" \in Fault
    /\ Exit("failed")
    /\ UNCHANGED pidfile

\* The watch on resolv.conf, and the first turn of the select loop.
Watch ==
    /\ pc = "watch"
    /\ pc' = "idle"
    /\ UNCHANGED <<netavarkVars, processVars, fam, parseVars, sharedVars,
                   startVars, taskVars, socketVars>>

\* Without a watch there is no event stream. select! evaluates the expression
\* of a branch before it looks at whether the branch is enabled, so the
\* unwrap() of the stream panics, and the process with it.
WatchFails ==
    /\ pc = "watch"
    /\ "inotify" \in Fault
    /\ Exit("failed")
    /\ UNCHANGED pidfile

-----------------------------------------------------------------------------
(* The other events: inotify, the listener tasks, netavark.                *)

\* The inotify branch: a list that was read replaces the old one; when it
\* cannot be read the old one stays (a stutter).
ReloadNameservers ==
    /\ pc = "idle"
    /\ nameservers' \in Resolv \cup {NoServers}
    /\ UNCHANGED <<netavarkVars, processVars, pc, fam, parseVars, backend,
                   startVars, taskVars, socketVars>>

\* CoreDns::run returns and drops both sockets.
TaskEnds(k) ==
    /\ task[k] = "running"
    /\ task' = [task EXCEPT ![k] = "done"]
    /\ udp' = [udp EXCEPT ![k[2]] = Nobody]
    /\ tcp' = [tcp EXCEPT ![k[2]] = Nobody]
    /\ UNCHANGED <<netavarkVars, processVars, pc, fam, parseVars, sharedVars,
                   startVars, handles, awaiting>>

\* ... because its stop channel was dropped with its handle.
ListenerStops(k) == k \notin handles /\ TaskEnds(k)

\* ... because accept() failed. Nobody is told.
AcceptFails(k) == "accept" \in Fault /\ TaskEnds(k)

WriteConfig(n) ==
    /\ changes < MaxChanges
    /\ changes' = changes + 1
    /\ \E c \in (Content \cup {Absent, Malformed}) \ {file[n]} :
          file' = [file EXCEPT ![n] = c]
    /\ signalDue' = TRUE
    /\ UNCHANGED <<processVars, pc, fam, parseVars, sharedVars, startVars,
                   taskVars, socketVars>>

\* netavark signals the process named in the pid file.
SendSighup ==
    /\ signalDue
    /\ pidfile
    /\ ~Exited
    /\ signalDue' = FALSE
    /\ sighup' = TRUE
    /\ UNCHANGED <<file, changes, pidfile, status, pc, fam, parseVars,
                   sharedVars, startVars, taskVars, socketVars>>

Terminated == Exited /\ UNCHANGED vars

-----------------------------------------------------------------------------
\* The supervisor's own steps, from a SIGHUP to the select loop or the exit.
Supervisor ==
    \/ BeginReload
    \/ OpenDir
    \/ \E n \in Network : ReadFile(n)
    \/ ParseFails
    \/ Publish
    \/ RemovePid
    \/ RemovePidFails
    \/ Drain
    \/ DrainV4Joined
    \/ DrainV6Joined
    \/ ReadNameservers
    \/ StopStale
    \/ StaleJoined
    \/ \E k \in Key : BindUdp(k)
    \/ BindTcp
    \/ BindTcpFails
    \/ FinishV4
    \/ FinishV6
    \/ Ready
    \/ ReadyFails
    \/ Watch
    \/ WatchFails

Netavark == (\E n \in Network : WriteConfig(n)) \/ SendSighup

Next ==
    \/ Supervisor
    \/ ReloadNameservers
    \/ \E k \in Key : ListenerStops(k) \/ AcceptFails(k)
    \/ Netavark
    \/ Terminated

\* The executor polls the supervisor and every listener whose stop channel
\* closed; netavark signals what it wrote. Failures and inotify events need
\* never happen.
Fairness ==
    /\ WF_vars(Supervisor)
    /\ \A k \in Key : WF_vars(ListenerStops(k))
    /\ WF_vars(SendSighup)

Spec == Init /\ [][Next]_vars
FairSpec == Spec /\ Fairness
=============================================================================
