----------------------------- MODULE Deployment -----------------------------
(***************************************************************************)
(* The supervisor of Server and a client that sends a UDP query to one of  *)
(* the addresses while reloads come and go: where the query waits, which   *)
(* listener's loop takes it (src/src/dns/coredns.rs, run), and when it is  *)
(* lost with a socket that is closed.                                      *)
(***************************************************************************)
EXTENDS ServerProps

VARIABLES
    query,    \* "unsent", "queued", "answered" or "lost"
    at        \* the listener whose socket the query has reached

deploymentVars == <<vars, query, at>>

DInit == Init /\ query = "unsent" /\ at = Nobody

\* A datagram is queued by the kernel as soon as the socket is bound, also
\* before there is a task to read it.
Send(i) ==
    /\ query = "unsent"
    /\ udp[i] # Nobody
    /\ query' = "queued"
    /\ at' = udp[i]
    /\ UNCHANGED vars

\* The loop of the listener takes the datagram and answers it, also when it
\* has been told to stop and has not noticed yet.
Answer ==
    /\ query = "queued"
    /\ task[at] = "running"
    /\ query' = "answered"
    /\ UNCHANGED <<vars, at>>

\* What a closed socket still held is gone.
Follow ==
    /\ query' = IF query = "queued" /\ udp'[at[2]] # at THEN "lost" ELSE query
    /\ UNCHANGED at

DNext ==
    \/ Next /\ Follow
    \/ \E i \in Ip : Send(i)
    \/ Answer

DSpec == DInit /\ [][DNext]_deploymentVars
DFairSpec == DSpec /\ Fairness /\ WF_deploymentVars(Answer)

-----------------------------------------------------------------------------
\* A reload loses no query of a listener that stays configured: a query that
\* has reached a listener is only lost if the configuration published last
\* does not ask for that listener, or the process ends, or the start of the
\* listener was not completed (serve.rs:138-156, serve.rs:193-202).
QueriesSurviveReloads ==
    [][query # "lost" /\ query' = "lost" =>
          Exited' \/ at \notin Expected(backend) \/ pc = "bind_tcp"]_deploymentVars

\* A query that has reached a socket does not wait for ever: there is no
\* socket without a task that reads it, once the start of the listener is
\* over, and stopping a listener does not wait for its clients.
QueryEnds == query = "queued" ~> query # "queued"
=============================================================================
