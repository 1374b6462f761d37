---------------------------- MODULE StartupProps ----------------------------
(***************************************************************************)
(* What must hold of the start of aardvark-dns modelled in Startup.        *)
(***************************************************************************)
EXTENDS Startup

\* Ready and not on its way out.
Serving(p) == byte[p] /\ child[p] \in {"watch", "idle", "read", "adopt"}

\* The parent tells the truth (run.rs:23-25): it succeeds only if its child
\* has made a first pass without errors, and from then on no SIGHUP kills that
\* child (the handler is installed before the pass, serve.rs:71); it reports
\* an error only when its child has ended without ever having been ready.
ParentTellsTruth ==
    \A p \in Pid :
        /\ parent[p] = "ok" => byte[p] /\ child[p] \notin {"none", "killed"}
        /\ parent[p] = "error" => ~byte[p] /\ child[p] \in Ended

\* A process that is about to report readiness listens on every address its
\* first pass has read, and on one at least: an address that another program
\* or another aardvark-dns holds ends the start (test/600-errors.bats). The
\* comment at serve.rs:88-89, that readiness "should at least wait for the
\* first bind to work but this is not really possible with the current code
\* flow", is older than the code flow: the first pass binds every address, and
\* its errors are returned, before the byte is written.
ReadyMeansBound ==
    \A p \in Pid :
        child[p] = "ready" =>
            conf[p] # {} /\ \A i \in Ip : bound[i] = p <=> i \in conf[p]

\* As long as invocations did not overlap, a serving process can be reached:
\* the pid file names it from the moment the parent may return ("create
\* aardvark pid in child before we notify parent process",
\* RELEASE_NOTES.md:94) until it removes the file itself, whatever earlier
\* starts have left behind.
ServerIsNotifiable ==
    ~overlapped => \A p \in Pid : Serving(p) => pidfile = p

\* A process that ends in good order takes its pid file along: a pid file
\* that names a process that is gone tells of a start that failed or was
\* killed, or of a server that could not watch resolv.conf or clean up
\* (serve.rs:118, serve.rs:308-316).
StalePidFileMeansFailure ==
    \A p \in Pid : pidfile = p /\ ~Alive(p) => child[p] \in {"failed", "killed"}

\* The parent returns, however its child ends: it holds no writing end of
\* the pipe it reads (run.rs:34-36).
ParentReturns ==
    \A p \in Pid :
        parent[p] = "forked" ~> parent[p] \in {"ok", "error", "killed"}

\* serve.rs:42-43: "before serving write its pid to _config_path so other
\* process can notify aardvark of data change." A process that is notified
\* because the pid file names it takes the notification.
NotifiedProcessLives == \A p \in Pid : child[p] # "killed"

-----------------------------------------------------------------------------
(* The inductive invariants behind these properties.                       *)

\* As long as a child has not ended or reported, it holds the pipe open.
PipeInv ==
    \A p \in Pid :
        /\ child[p] = "none" => parent[p] = "none" /\ ~byte[p]
        /\ child[p] # "none" => parent[p] # "none"
        /\ byte[p] => child[p] \notin Unhandled \cup {"none", "ready", "killed"}
        /\ Starting(p) => "child" \in writers[p]
        /\ parent[p] = "ok" => byte[p]
        /\ parent[p] = "error" => ~byte[p] /\ child[p] \in Ended

\* A pass that has something to listen on, and what it has bound at its end.
BoundInv ==
    /\ \A p \in Pid : child[p] \in {"adopt", "ready"} => conf[p] # {}
    /\ ReadyMeansBound

\* Before a process has written its pid, and after it has removed the file,
\* the file does not name it.
PidInv ==
    \A p \in Pid :
        child[p] \in {"none", "forked", "created", "drain", "stopped"} => pidfile # p

\* Where the pid file has to name a process.
Named == {"written", "read", "adopt", "ready", "watch", "idle", "remove_pid"}

\* Without overlaps one invocation starts at a time, and while it does every
\* other process that is still there is about to exit.
FileInv ==
    ~overlapped =>
        \A p \in Pid :
            /\ child[p] \in Named => pidfile = p
            /\ child[p] = "created" => p \in linked
            /\ Starting(p) => \A q \in Pid \ {p} : Alive(q) => child[q] = "drain"

StartInv == TypeOK /\ PipeInv /\ BoundInv /\ PidInv /\ FileInv
=============================================================================
