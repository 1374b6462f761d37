---------------------------- MODULE ServerProps ----------------------------
(***************************************************************************)
(* What must hold of the supervisor modelled in Server.                    *)
(***************************************************************************)
EXTENDS Server

\* A listener that runs is one the supervisor can still stop: its handle is
\* in the map, or its stop channel is dropped and it is being joined. No
\* task may outlive the loss of its handle (serve.rs, stop_threads).
EveryListenerStoppable ==
    \A k \in Key : task[k] = "running" => k \in handles \cup awaiting

\* Sockets belong to running listeners; the one exception is the UDP socket
\* of the listener being started. In particular a UDP socket does not stay
\* bound when the TCP bind after it failed (serve.rs:193-202).
NoOrphanSockets ==
    \A i \in Ip :
        /\ udp[i] # Nobody =>
              \/ udp[i][2] = i /\ task[udp[i]] = "running" /\ tcp[i] = udp[i]
              \/ pc = "bind_tcp" /\ cur = udp[i] /\ i = cur[2]
        /\ tcp[i] # Nobody => udp[i] = tcp[i]

\* Between reloads the handles are those the published configuration asks
\* for, except the listeners whose own bind failed in the last pass: a failure
\* costs the others nothing, in either family, and it is reported
\* (serve.rs:180-211).
HandlesMatchBackend ==
    pc \in {"idle", "open", "read", "ready", "watch"} =>
        /\ handles \subseteq Expected(backend)
        /\ Expected(backend) \ handles = unbound
        /\ unbound # {} => errors

\* A bind is never attempted on an address that a listener of the previous
\* configuration still holds: an address can move between networks in one
\* reload (the comment at serve.rs:158-160).
OnlyPeersInTheWay ==
    \A k \in toStart :
        pc = "start" /\ udp[k[2]] # Nobody => udp[k[2]] \in Expected(backend)

\* Once netavark has signalled its last change and the supervisor is back in
\* its select loop, the published configuration is what is on disk: a change
\* made while a reload was reading the directory is not lost, because the
\* SIGHUP that follows it stays pending. What the last pass failed to read is
\* the exception: the directory if it gave up, else the files it skipped.
NoLostUpdate ==
    pc = "idle" /\ dirRead /\ ~sighup /\ ~signalDue =>
        \A n \in Network \ skipped : backend[n] = Effective(file[n])

-----------------------------------------------------------------------------
\* A reload does not interrupt a listener that stays configured: the
\* supervisor drops its handle only if the configuration no longer asks for
\* it, or the whole process ends.
KeepsConfiguredListeners ==
    [][Exited' \/ (handles \ handles') \cap Expected(backend) = {}]_vars

\* What ends a process that has reported readiness and is past setting up its
\* watch. Not a failure to read the directory, which leaves it serving what it
\* served, nor a failure to read resolv.conf or to bind ("do not exit here, we
\* just keep running even if something failed", serve.rs:113). It takes a pass
\* that got to the end of the directory and published nothing to listen on.
\* That may be because files could not be read or were malformed: those are
\* skipped (config/mod.rs:58-86), and if no other file asks for a listener the
\* process exits over them. But if all changes were signalled and taken, then
\* no file that was read asks for a listener; and the process stops in good
\* order only when no listener runs.
ServingEndsOnlyWhenEmpty ==
    [][status = "serving" /\ pc # "watch" /\ status' # "serving" =>
          /\ dirRead /\ Expected(backend) = {}
          /\ ~sighup /\ ~signalDue =>
                \A n \in Network \ skipped : file[n] \notin Content
          /\ status' = "stopped" => \A k \in Key : task[k] # "running"]_vars

-----------------------------------------------------------------------------
\* A pending SIGHUP is taken, or the process ends: a reload cannot wait for
\* ever on a listener, and no failure of a bind or a read blocks the loop.
SighupTaken == sighup ~> (~sighup \/ Exited)

\* When netavark stops changing files, the process ends or comes to serve
\* exactly what is on disk: for each configured address some listener runs
\* that the configuration asks for, and no other listener runs.
Serves(b) ==
    /\ \A n \in Network : b[n] = Effective(file[n])
    /\ \A k \in Expected(b) :
          \E j \in Expected(b) : j[2] = k[2] /\ task[j] = "running"
    /\ \A k \in Key : task[k] = "running" => k \in Expected(b)
EventuallyServes == <>[](Exited \/ Serves(backend))

-----------------------------------------------------------------------------
\* The listeners as the abstract specification sees them.
Running == {k \in Key : task[k] = "running"}

Abstract == INSTANCE ListenerSet WITH
    Listener <- Key,
    Address <- [k \in Key |-> k[2]],
    MayFail <- "accept" \in Fault,
    MayPanic <- "inotify" \in Fault,
    target <- Expected(backend),
    open <- Running,
    status <- status

\* The supervisor implements ListenerSet: listeners open and close one by
\* one, on free addresses, towards the published configuration.
ImplementsListenerSet == Abstract!LSpec

-----------------------------------------------------------------------------
\* src/config.md:23: "Aardvark-dns will reload all config files when
\* receiving a SIGHUP signal." The process does not stop in good order with
\* a SIGHUP pending while a file asks for listeners.
ReloadsBeforeStopping ==
    [][status # "stopped" /\ status' = "stopped" /\ sighup =>
          \A n \in Network : file[n] \notin Content]_vars

\* serve.rs:136: "Ensure the expected DNS server threads are running." A
\* listener whose task has ended although it is configured is replaced
\* by the reload of the next SIGHUP.
ReloadRevivesListeners ==
    \A k \in Key :
        (task[k] = "done" /\ k \in handles /\ sighup) ~> task[k] # "done"

\* serve.rs:408-422 logs that without inotify "Nameservers will not be updated
\* on resolv.conf change" and returns None, for which the select branch has a
\* guard (serve.rs:118): the process goes on serving its listeners.
ServesWithoutInotify ==
    [][status = "serving" /\ Expected(backend) # {} => ~Exited']_vars

-----------------------------------------------------------------------------
(* The inductive invariant behind the safety properties above, by part.    *)

\* A running listener holds its address for both protocols, and nobody
\* else holds an address but the listener being bound.
SocketInv ==
    /\ \A k \in Key :
          task[k] = "running" => udp[k[2]] = k /\ tcp[k[2]] = k
    /\ \A i \in Ip : udp[i] # Nobody =>
          /\ udp[i][2] = i
          /\ task[udp[i]] = "running" \/ (pc = "bind_tcp" /\ cur = udp[i])
    /\ \A i \in Ip : tcp[i] # Nobody =>
          tcp[i][2] = i /\ task[tcp[i]] = "running"
    /\ pc = "bind_tcp" => cur \in Key /\ udp[cur[2]] = cur
    /\ pc # "bind_tcp" => cur = Nobody

\* The tasks that exist are those with a handle and those being joined.
TaskInv ==
    /\ \A k \in Key : task[k] # "none" <=> k \in handles \cup awaiting
    /\ handles \cap awaiting = {}
    /\ pc \notin {"await", "drain_await"} => awaiting = {}
    /\ awaiting \cap Expected(backend) = {}
    /\ pc = "exited" => handles = {}
    /\ "accept" \notin Fault => \A k \in handles : task[k] = "running"

\* How far the adoption of the published configuration has got.
PlanInv ==
    /\ pc \notin {"start", "bind_tcp"} => toStart = {}
    /\ toStart \subseteq (Expected(backend) \cap KeysOf(fam)) \ handles
    /\ pc = "bind_tcp" =>
          cur \in (Expected(backend) \cap KeysOf(fam)) \ (handles \cup toStart)
    /\ pc \in {"await", "start", "bind_tcp"} =>
          handles \cap KeysOf(fam) \subseteq Expected(backend)
    /\ pc \in {"start", "bind_tcp"} =>
          Expected(backend) \cap KeysOf(fam)
             \subseteq handles \cup toStart \cup unbound \cup {cur}
    /\ pc \in {"stop", "await", "start", "bind_tcp"} /\ fam = "v6" =>
          /\ handles \cap KeysOf("v4") \subseteq Expected(backend)
          /\ Expected(backend) \cap KeysOf("v4") \subseteq handles \cup unbound
    /\ HandlesMatchBackend

\* The listeners whose bind failed: configured, without a handle, not tried
\* again in this pass, and only of the families that were tried.
UnboundInv ==
    /\ unbound # {} => errors
    /\ unbound \subseteq Expected(backend) \ (handles \cup toStart \cup {cur})
    /\ pc \in {"nameservers", "remove_pid", "drain", "drain_await"} => unbound = {}
    /\ pc \in {"stop", "await"} /\ fam = "v4" => unbound = {}
    /\ pc \in {"stop", "await"} => unbound \subseteq KeysOf("v4")
    /\ pc \in {"start", "bind_tcp"} /\ fam = "v4" => unbound \subseteq KeysOf("v4")

\* The empty configuration is being wound down, one family at a time.
DrainInv ==
    /\ pc \in {"remove_pid", "drain", "drain_await"} => Expected(backend) = {}
    /\ pc = "drain_await" => handles \cap KeysOf(fam) = {}
    /\ pc \in {"drain", "drain_await"} /\ fam = "v6" =>
          handles \cap KeysOf("v4") = {}

\* Which control points each phase of the process's life can be at.
PhaseInv ==
    /\ pc = "exited" <=> Exited
    /\ pc \in {"watch", "idle"} => status = "serving"
    /\ pc = "ready" => status = "starting" /\ ~errors
    /\ pc \in {"idle", "open", "read", "remove_pid", "nameservers", "ready",
               "watch", "exited"} => fam = "v4"

IInv ==
    TypeOK /\ SocketInv /\ TaskInv /\ PlanInv /\ UnboundInv /\ DrainInv /\ PhaseInv

\* What is known on the way to NoLostUpdate: without a signal due or
\* pending, the files this pass has read are still as they were read.
UpdateInv ==
    /\ pc = "read" => \A n \in unread : conf[n] = Absent
    /\ pc \notin {"open", "read", "idle", "exited"} => dirRead
    /\ ~sighup /\ ~signalDue =>
          /\ pc = "read" =>
                /\ \A n \in Network \ (unread \cup skipped) :
                      conf[n] = Effective(file[n])
                /\ \A n \in Network \ listing : file[n] = Absent
          /\ pc \notin {"open", "read", "exited"} /\ dirRead =>
                \A n \in Network \ skipped : backend[n] = Effective(file[n])
=============================================================================
