------------------------------ MODULE Startup ------------------------------
(***************************************************************************)
(* Starting aardvark-dns (src/src/commands/run.rs and create_pid, serve in *)
(* src/src/server/serve.rs): an invocation forks; the child writes its pid *)
(* into the configuration directory, installs the handler of SIGHUP, makes *)
(* its first pass and sends one byte through a pipe; the parent waits for  *)
(* the byte or the end of the pipe. Invocations overlap as they like, and  *)
(* others read the pid file and signal the process it names at any time.   *)
(*                                                                         *)
(* After the start a process is only what the others can notice: a reload  *)
(* is one read and one adoption (Server has the steps in between).         *)
(***************************************************************************)
EXTENDS Integers, FiniteSets

CONSTANTS
    Pid,         \* the invocations, named by the pid of their child
    Ip,          \* addresses a configuration may ask for
    NoFile,      \* there is no pid file
    Empty,       \* the pid file is there, nothing written yet
    Nobody,      \* nobody has bound an address
    Fault,       \* the calls that may fail in this instance
    MaxChanges   \* bound on changes of the configuration

ASSUME PidAssumption ==
    NoFile \notin Pid /\ Empty \notin Pid /\ NoFile # Empty /\ Nobody \notin Pid
ASSUME ChangesAssumption == MaxChanges \in Nat
ASSUME FaultAssumption ==
    Fault \subseteq {"pidfile", "handler", "config", "bind", "ready", "inotify", "kill"}

VARIABLES
    dir,         \* the addresses the configuration directory asks for
    changes,     \* how often it has changed (bounded)
    pidfile,     \* content of aardvark.pid
    linked,      \* processes whose open pid file is still in the directory
    child,       \* where each child is
    parent,      \* where each parent is
    writers,     \* who holds the writing end of each ready pipe
    byte,        \* the byte has been written to the pipe
    sighup,      \* a SIGHUP is pending
    conf,        \* what this pass of the child has read, until it is over
    bound,       \* which process has bound each address
    overlapped   \* an invocation began while another was starting (history)

directoryVars == <<dir, changes>>
fileVars == <<pidfile, linked>>
pipeVars == <<parent, writers, byte>>
vars == <<directoryVars, fileVars, child, pipeVars, sighup, conf, bound,
          overlapped>>

Unhandled == {"forked", "created", "written"}
Points == Unhandled \cup {"read", "adopt", "ready", "watch", "idle", "remove_pid", "drain"}
Ended == {"stopped", "failed", "killed"}

Alive(p) == child[p] \in Points
Starting(p) == Alive(p) /\ ~byte[p]

TypeOK ==
    /\ dir \subseteq Ip
    /\ changes \in 0..MaxChanges
    /\ pidfile \in Pid \cup {NoFile, Empty}
    /\ linked \subseteq Pid
    /\ child \in [Pid -> {"none"} \cup Points \cup Ended]
    /\ parent \in [Pid -> {"none", "forked", "reading", "ok", "error", "killed"}]
    /\ writers \in [Pid -> SUBSET {"parent", "child"}]
    /\ byte \in [Pid -> BOOLEAN]
    /\ sighup \in [Pid -> BOOLEAN]
    /\ conf \in [Pid -> SUBSET Ip]
    /\ bound \in [Ip -> Pid \cup {Nobody}]
    /\ overlapped \in BOOLEAN

Init ==
    /\ dir \in SUBSET Ip
    /\ changes = 0
    /\ pidfile = NoFile
    /\ linked = {}
    /\ child = [p \in Pid |-> "none"]
    /\ parent = [p \in Pid |-> "none"]
    /\ writers = [p \in Pid |-> {}]
    /\ byte = [p \in Pid |-> FALSE]
    /\ sighup = [p \in Pid |-> FALSE]
    /\ conf = [p \in Pid |-> {}]
    /\ bound = [i \in Ip |-> Nobody]
    /\ overlapped = FALSE

-----------------------------------------------------------------------------
\* The child goes from one point to the next.
Goto(p, from, to) == child[p] = from /\ child' = [child EXCEPT ![p] = to]

\* The child ends: the kernel closes its sockets, its end of the pipe and
\* its open pid file. The pid file itself stays.
End(p, how) ==
    /\ child' = [child EXCEPT ![p] = how]
    /\ bound' = [i \in Ip |-> IF bound[i] = p THEN Nobody ELSE bound[i]]
    /\ writers' = [writers EXCEPT ![p] = @ \ {"child"}]
    /\ linked' = linked \ {p}
    /\ conf' = [conf EXCEPT ![p] = {}]
    /\ UNCHANGED <<directoryVars, pidfile, parent, byte, sighup, overlapped>>

-----------------------------------------------------------------------------
(* The parent: exec in run.rs.                                             *)

\* Variant of Fork, to be refuted: the pipe is inherited once more.
ForkLeaksPipe(p) ==
    /\ child[p] = "none"
    /\ child' = [child EXCEPT ![p] = "forked"]
    /\ parent' = [parent EXCEPT ![p] = "forked"]
    /\ writers' = [writers EXCEPT ![p] = {"parent", "child", "starter"}]
    /\ overlapped' = (overlapped \/ \E q \in Pid : Starting(q))
    /\ UNCHANGED <<directoryVars, fileVars, byte, sighup, conf, bound>>

\* The pipe, then the fork. Both processes hold both ends.
Fork(p) ==
    /\ child[p] = "none"
    /\ child' = [child EXCEPT ![p] = "forked"]
    /\ parent' = [parent EXCEPT ![p] = "forked"]
    /\ writers' = [writers EXCEPT ![p] = {"parent", "child"}]
    /\ overlapped' = (overlapped \/ \E q \in Pid : Starting(q))
    /\ UNCHANGED <<directoryVars, fileVars, byte, sighup, conf, bound>>

\* Variant of ParentDropsEnd, to be refuted: the parent keeps its own
\* writing end open while it reads.
ParentKeepsEnd(p) ==
    /\ parent[p] = "forked"
    /\ parent' = [parent EXCEPT ![p] = "reading"]
    /\ UNCHANGED <<directoryVars, fileVars, child, writers, byte, sighup,
                   conf, bound, overlapped>>

\* The parent closes its writing end, or its read would never see the end.
ParentDropsEnd(p) ==
    /\ parent[p] = "forked"
    /\ parent' = [parent EXCEPT ![p] = "reading"]
    /\ writers' = [writers EXCEPT ![p] = @ \ {"parent"}]
    /\ UNCHANGED <<directoryVars, fileVars, child, byte, sighup, conf, bound,
                   overlapped>>

\* Variant of ParentReads, to be refuted: what read() returns is not looked at.
ParentReadsAnything(p) ==
    /\ parent[p] = "reading"
    /\ byte[p] \/ writers[p] = {}
    /\ parent' = [parent EXCEPT ![p] = "ok"]
    /\ UNCHANGED <<directoryVars, fileVars, child, writers, byte, sighup,
                   conf, bound, overlapped>>

\* read() returns the byte, or 0 once every writing end is closed.
ParentReads(p) ==
    /\ parent[p] = "reading"
    /\ \/ byte[p] /\ parent' = [parent EXCEPT ![p] = "ok"]
       \/ /\ ~byte[p] /\ writers[p] = {}
          /\ parent' = [parent EXCEPT ![p] = "error"]
    /\ UNCHANGED <<directoryVars, fileVars, child, writers, byte, sighup,
                   conf, bound, overlapped>>

\* Whoever started the parent loses patience with it.
ParentKilled(p) ==
    /\ "kill" \in Fault
    /\ parent[p] \in {"forked", "reading"}
    /\ parent' = [parent EXCEPT ![p] = "killed"]
    /\ writers' = [writers EXCEPT ![p] = @ \ {"parent"}]
    /\ UNCHANGED <<directoryVars, fileVars, child, byte, sighup, conf, bound,
                   overlapped>>

-----------------------------------------------------------------------------
(* The child: create_pid, then serve.                                      *)

\* File::create: an old file is emptied, whoever it names.
CreatePid(p) ==
    /\ Goto(p, "forked", "created")
    /\ pidfile' = Empty
    /\ linked' = linked \cup {p}
    /\ UNCHANGED <<directoryVars, pipeVars, sighup, conf, bound, overlapped>>

\* Variant of CreatePidFails, to be refuted: the error is not returned.
CreatePidFailsIgnored(p) ==
    /\ "pidfile" \in Fault
    /\ child[p] \in {"forked", "created"}
    /\ child' = [child EXCEPT ![p] = "written"]
    /\ UNCHANGED <<directoryVars, fileVars, pipeVars, sighup, conf, bound,
                   overlapped>>

CreatePidFails(p) ==
    /\ "pidfile" \in Fault
    /\ child[p] \in {"forked", "created"}
    /\ End(p, "failed")

\* The pid goes into the file that was opened, which another process may
\* have removed from the directory meanwhile.
WritePid(p) ==
    /\ Goto(p, "created", "written")
    /\ pidfile' = IF p \in linked THEN p ELSE pidfile
    /\ linked' = linked \ {p}
    /\ UNCHANGED <<directoryVars, pipeVars, sighup, conf, bound, overlapped>>

\* signal(SignalKind::hangup()): from here on a SIGHUP is remembered.
InstallHandler(p) ==
    /\ Goto(p, "written", "read")
    /\ UNCHANGED <<directoryVars, fileVars, pipeVars, sighup, conf, bound,
                   overlapped>>

InstallHandlerFails(p) ==
    /\ "handler" \in Fault
    /\ child[p] = "written"
    /\ End(p, "failed")

\* parse_configs. Nothing to listen on ends the process.
ReadConfig(p) ==
    /\ Goto(p, "read", IF dir = {} THEN "remove_pid" ELSE "adopt")
    /\ conf' = [conf EXCEPT ![p] = dir]
    /\ UNCHANGED <<directoryVars, fileVars, pipeVars, sighup, bound, overlapped>>

\* A process that has reported readiness keeps what it has.
ReadConfigFails(p) ==
    /\ "config" \in Fault
    /\ \/ /\ byte[p]
          /\ Goto(p, "read", "idle")
          /\ UNCHANGED <<directoryVars, fileVars, pipeVars, sighup, conf,
                         bound, overlapped>>
       \/ ~byte[p] /\ child[p] = "read" /\ End(p, "failed")

\* What a pass leaves bound: addresses no longer asked for are released, and
\* got are those asked for that could be bound or are bound already.
Rebound(p, got) ==
    [i \in Ip |-> IF i \in got THEN p ELSE IF bound[i] = p THEN Nobody ELSE bound[i]]
Free(p) == {i \in conf[p] : bound[i] \in {p, Nobody}}
Got(p) ==
    {got \in SUBSET Free(p) :
        /\ {i \in conf[p] : bound[i] = p} \subseteq got
        /\ got = Free(p) \/ "bind" \in Fault}

\* Variant of Adopt, to be refuted: a first pass with errors is good enough.
AdoptAnyway(p) ==
    /\ child[p] = "adopt"
    /\ \E got \in Got(p) :
          /\ child' = [child EXCEPT ![p] = IF byte[p] THEN "idle" ELSE "ready"]
          /\ bound' = Rebound(p, got)
    /\ conf' = [conf EXCEPT ![p] = IF byte[p] THEN {} ELSE @]
    /\ UNCHANGED <<directoryVars, fileVars, pipeVars, sighup, overlapped>>

\* The rest of read_config_and_spawn. Errors only end a process that has
\* not been ready yet.
Adopt(p) ==
    /\ child[p] = "adopt"
    /\ \E got \in Got(p) :
          \/ /\ got = conf[p] \/ byte[p]
             /\ child' = [child EXCEPT ![p] = IF byte[p] THEN "idle" ELSE "ready"]
             /\ conf' = [conf EXCEPT ![p] = IF byte[p] THEN {} ELSE @]
             /\ bound' = Rebound(p, got)
             /\ UNCHANGED <<directoryVars, fileVars, pipeVars, sighup, overlapped>>
          \/ got # conf[p] /\ ~byte[p] /\ End(p, "failed")

\* daemonize() and the byte. Without a reader the write fails, as SIGPIPE
\* is ignored by the runtime.
Reader(p) == parent[p] \in {"forked", "reading"}
Ready(p) ==
    /\ Reader(p)
    /\ Goto(p, "ready", "watch")
    /\ byte' = [byte EXCEPT ![p] = TRUE]
    /\ writers' = [writers EXCEPT ![p] = @ \ {"child"}]
    /\ conf' = [conf EXCEPT ![p] = {}]
    /\ UNCHANGED <<directoryVars, fileVars, parent, sighup, bound, overlapped>>

ReadyFails(p) ==
    /\ ~Reader(p) \/ "ready" \in Fault
    /\ child[p] = "ready"
    /\ End(p, "failed")

\* get_inotify_event_stream. Without a watch the select loop panics when it is
\* first entered, and the process that has just reported readiness is gone.
WatchResolvConf(p) ==
    /\ Goto(p, "watch", "idle")
    /\ UNCHANGED <<directoryVars, fileVars, pipeVars, sighup, conf, bound,
                   overlapped>>

WatchFails(p) ==
    /\ "inotify" \in Fault
    /\ child[p] = "watch"
    /\ End(p, "failed")

\* The select loop takes a SIGHUP and reads the directory again.
Reload(p) ==
    /\ sighup[p]
    /\ Goto(p, "idle", "read")
    /\ sighup' = [sighup EXCEPT ![p] = FALSE]
    /\ UNCHANGED <<directoryVars, fileVars, pipeVars, conf, bound, overlapped>>

\* Variant of RemovePid, to be refuted: the file is left to the next start.
RemovePidSkipped(p) ==
    /\ Goto(p, "remove_pid", "drain")
    /\ UNCHANGED <<directoryVars, fileVars, pipeVars, sighup, conf, bound,
                   overlapped>>

\* The file goes whoever it names; that it is gone already is an error.
RemovePid(p) ==
    /\ child[p] = "remove_pid"
    /\ \/ /\ pidfile # NoFile
          /\ pidfile' = NoFile
          /\ linked' = {}
          /\ child' = [child EXCEPT ![p] = "drain"]
          /\ UNCHANGED <<directoryVars, pipeVars, sighup, conf, bound, overlapped>>
       \/ /\ pidfile = NoFile \/ "pidfile" \in Fault
          /\ End(p, "failed")

\* Both stop_threads, and exit(0).
Drain(p) == child[p] = "drain" /\ End(p, "stopped")

-----------------------------------------------------------------------------
(* Those who share the directory with the processes.                       *)

\* Nobody is started while the pid file names a process that lives.
Start(p) ==
    /\ ~\E q \in Pid : pidfile = q /\ Alive(q)
    /\ Fork(p)

\* Whoever reads the pid file may signal the process it names. Without a
\* handler the signal kills it.
Notify(p) ==
    /\ pidfile = p
    /\ \/ /\ child[p] \in Unhandled
          /\ End(p, "killed")
       \/ /\ Alive(p) /\ child[p] \notin Unhandled
          /\ sighup' = [sighup EXCEPT ![p] = TRUE]
          /\ UNCHANGED <<directoryVars, fileVars, child, pipeVars, conf,
                         bound, overlapped>>

ChangeConfig ==
    /\ changes < MaxChanges
    /\ changes' = changes + 1
    /\ dir' \in (SUBSET Ip) \ {dir}
    /\ UNCHANGED <<fileVars, child, pipeVars, sighup, conf, bound, overlapped>>

-----------------------------------------------------------------------------
Parent(p) == ParentDropsEnd(p) \/ ParentReads(p)

Child(p) ==
    \/ CreatePid(p) \/ CreatePidFails(p) \/ WritePid(p)
    \/ InstallHandler(p) \/ InstallHandlerFails(p)
    \/ ReadConfig(p) \/ ReadConfigFails(p) \/ Adopt(p)
    \/ Ready(p) \/ ReadyFails(p) \/ WatchResolvConf(p) \/ WatchFails(p)
    \/ Reload(p) \/ RemovePid(p) \/ Drain(p)

Next ==
    \/ \E p \in Pid :
          \/ Start(p) \/ Parent(p) \/ ParentKilled(p) \/ Child(p) \/ Notify(p)
    \/ ChangeConfig

\* The kernel runs both processes of an invocation.
Fairness == \A p \in Pid : WF_vars(Parent(p)) /\ WF_vars(Child(p))

Spec == Init /\ [][Next]_vars
FairSpec == Spec /\ Fairness
=============================================================================
