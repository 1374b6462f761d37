-------------------------- MODULE DeploymentProofs --------------------------
(***************************************************************************)
(* Proofs, for every configuration and any number of reloads, that reloads *)
(* lose no query of a listener that stays configured, that a waiting query *)
(* has a reader, and that a client does not disturb the server.            *)
(***************************************************************************)
EXTENDS Deployment, ServerProofs

\* A queued query is in the socket of the listener it has reached.
QueuedInv ==
    query = "queued" => at \in Key /\ at[2] \in Ip /\ udp[at[2]] = at

LEMMA ServerStep == [DNext]_deploymentVars => [Next]_vars
  BY DEF DNext, deploymentVars, Send, Answer

LEMMA QueuedStep ==
    IInv /\ QueuedInv /\ [DNext]_deploymentVars => QueuedInv'
<1> SUFFICES ASSUME IInv, QueuedInv, [DNext]_deploymentVars PROVE QueuedInv'
  OBVIOUS
<1>1. CASE Next /\ Follow
  BY <1>1 DEF Follow, QueuedInv
<1>2. ASSUME NEW i \in Ip, Send(i) PROVE QueuedInv'
  <2>1. at' = udp[i] /\ udp[i] \in Key /\ UNCHANGED udp
    BY <1>2 DEF Send, IInv, TypeOK, vars, socketVars
  <2>2. udp[i][2] = i
    BY <1>2, <2>1 DEF Send, IInv, SocketInv
  <2> QED BY <2>1, <2>2 DEF QueuedInv
<1>3. CASE Answer
  BY <1>3 DEF Answer, QueuedInv
<1>4. CASE UNCHANGED deploymentVars
  BY <1>4 DEF deploymentVars, vars, socketVars, QueuedInv
<1> QED BY <1>1, <1>2, <1>3, <1>4 DEF DNext

\* A query that has reached a listener is answered, unless the published
\* configuration does not ask for the listener, the process ends, or the start
\* of the listener is not completed. An accept() that fails ends a listener
\* that is configured: it is excluded here.
THEOREM QueriesKept ==
    ASSUME "accept" \notin Fault
    PROVE  DSpec => QueriesSurviveReloads
<1> DEFINE Kept == query # "lost" /\ query' = "lost" =>
              Exited' \/ at \notin Expected(backend) \/ pc = "bind_tcp"
<1>1. DInit => IInv /\ QueuedInv
  BY InitInv DEF DInit, QueuedInv
<1>2. IInv /\ QueuedInv /\ [DNext]_deploymentVars => (IInv /\ QueuedInv)'
  BY ServerStep, StepInv, QueuedStep
<1>3. IInv /\ QueuedInv /\ [DNext]_deploymentVars => [Kept]_deploymentVars
  <2> SUFFICES ASSUME IInv, QueuedInv, [DNext]_deploymentVars,
                      query # "lost", query' = "lost",
                      ~Exited', at \in Expected(backend), pc # "bind_tcp"
               PROVE  FALSE
    OBVIOUS
  <2>1. TypeOK /\ SocketInv /\ TaskInv
    BY DEF IInv
  <2>2. Next /\ Follow
    BY DEF DNext, deploymentVars, Send, Answer
  <2>3. /\ query = "queued" /\ udp'[at[2]] # at
        /\ at \in Key /\ at[2] \in Ip /\ udp[at[2]] = at
    BY <2>2 DEF Follow, QueuedInv
  <2>4. at # Nobody
    BY <2>3, KeyFacts
  <2>5. task[at] = "running"
    BY <2>1, <2>3, <2>4 DEF SocketInv
  <2>6. at \in handles
    BY <2>1, <2>3, <2>5 DEF TaskInv
  <2>7. PICK k \in Key : ListenerStops(k)
    <3>1. CASE Supervisor
      <4>1. CASE \E how \in {"stopped", "failed"} : Exit(how)
        BY <4>1 DEF Exit, Exited
      <4>2. CASE UNCHANGED udp
        BY <2>3, <4>2
      <4>3. CASE \E k \in Key : BindUdp(k)
        BY <2>1, <2>3, <2>4, <4>3, KeyFacts DEF BindUdp, TypeOK
      <4> QED
        BY <3>1, <4>1, <4>2, <4>3 DEF Supervisor, BeginReload, OpenDir,
           ReadFile, ParseFails, KeepServing, Publish, RemovePid, RemovePidFails,
           Drain, DrainV4Joined, DrainV6Joined, ReadNameservers, StopStale,
           StaleJoined, BindTcp, BindTcpFails, FinishV4, FinishV6, Ready,
           ReadyFails, Watch, WatchFails, socketVars
    <3> QED
      BY <2>2, <2>3, <3>1 DEF Next, ReloadNameservers,
         AcceptFails, Netavark, WriteConfig, SendSighup, Terminated, vars,
         socketVars
  <2>8. k = at
    BY <2>1, <2>3, <2>5, <2>7 DEF ListenerStops, TaskEnds, TypeOK, SocketInv
  <2> QED BY <2>6, <2>7, <2>8 DEF ListenerStops
<1> QED
  BY <1>1, <1>2, <1>3, PTL DEF DSpec, QueriesSurviveReloads

-----------------------------------------------------------------------------
\* The client changes nothing for the supervisor: seen without the query, the
\* deployment is the server.
THEOREM DeploymentIsServer == DSpec => Spec
<1>1. DInit => Init
  BY DEF DInit
<1> QED BY <1>1, ServerStep, PTL DEF DSpec, Spec

\* ... so that a client never makes the server lose a change of the files.
THEOREM UpdatesNotLostUnderLoad == DSpec => []NoLostUpdate
  BY DeploymentIsServer, UpdatesNotLost, PTL

\* A query that waits has a reader: the loop of a listener that runs, has both
\* of its sockets and can be told to stop; or the listener is being bound and
\* nothing but its TCP socket keeps it from running (serve.rs:176-208).
THEOREM QueuedQueryHasReader ==
    DSpec => [](query = "queued" =>
                   \/ /\ task[at] = "running" /\ tcp[at[2]] = at
                      /\ at \in handles \cup awaiting
                   \/ pc = "bind_tcp" /\ cur = at)
<1>1. DInit => QueuedInv
  BY DEF DInit, QueuedInv
<1>2. IInv /\ QueuedInv /\ [DNext]_deploymentVars => QueuedInv'
  BY QueuedStep
<1>3. DSpec => []IInv
  BY DeploymentIsServer, Invariance, PTL
<1>4. DSpec => []QueuedInv
  BY <1>1, <1>2, <1>3, PTL DEF DSpec
<1>5. IInv /\ QueuedInv => (query = "queued" =>
                   \/ /\ task[at] = "running" /\ tcp[at[2]] = at
                      /\ at \in handles \cup awaiting
                   \/ pc = "bind_tcp" /\ cur = at)
  <2> SUFFICES ASSUME IInv, at \in Key, at[2] \in Ip, udp[at[2]] = at
               PROVE  \/ /\ task[at] = "running" /\ tcp[at[2]] = at
                         /\ at \in handles \cup awaiting
                      \/ pc = "bind_tcp" /\ cur = at
    BY DEF QueuedInv
  <2>1. at # Nobody
    BY NobodyAssumption DEF Key
  <2>2. task[at] = "running" \/ (pc = "bind_tcp" /\ cur = at)
    <3>1. /\ udp[at[2]] # Nobody => task[udp[at[2]]] = "running"
                                      \/ (pc = "bind_tcp" /\ cur = udp[at[2]])
      BY DEF IInv, SocketInv
    <3> QED BY <2>1, <3>1
  <2> QED BY <2>2 DEF IInv, SocketInv, TaskInv
<1> QED BY <1>3, <1>4, <1>5, PTL
=============================================================================
