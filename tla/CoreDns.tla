------------------------------ MODULE CoreDns ------------------------------
(***************************************************************************)
(* One listener of aardvark-dns (src/src/dns/coredns.rs): the loop that    *)
(* takes UDP messages and TCP connections, the task of each connection,    *)
(* and the task of each forwarded UDP query, against a supervisor that     *)
(* swaps the backend and the host's name servers and stops the listener,   *)
(* and upstream servers that answer or do not.                             *)
(***************************************************************************)
EXTENDS Backend, Integers, FiniteSets

CONSTANTS
    Query, Udp,    \* the queries, and those that come over UDP
    Conn, ConnOf,  \* TCP connections, and the one of each other query
    Asked,         \* the questions clients ask
    Garbled,       \* queries whose message does not parse
    Unencodable,   \* queries whose answer from the store does not fit a message
    network_name,  \* the network this listener was started for
    no_proxy,      \* AARDVARK_NO_PROXY is set
    Published,     \* the backends the supervisor may publish
    HostServers,   \* the lists of host name servers it may set
    NoBackend, NoServer,
    MaxQueries,    \* bound on the queries that are sent
    MaxReloads     \* bound on the supervisor's changes

ASSUME QueryAssumption ==
    /\ Udp \subseteq Query
    /\ Garbled \subseteq Query /\ Unencodable \subseteq Query
    /\ ConnOf \in [Query \ Udp -> Conn]
    /\ Asked \subseteq Questions /\ Asked # {}
ASSUME ListenerAssumption == network_name \in Network /\ no_proxy \in BOOLEAN
ASSUME PublishedAssumption ==
    /\ Published \subseteq Backends
    /\ NoBackend \notin Published
    /\ HostServers \subseteq SUBSET Server
    /\ NoServer \notin Server
ASSUME BoundAssumption == MaxQueries \in Nat /\ MaxReloads \in Nat

VARIABLES
    backend,       \* the ArcSwap
    nameservers,   \* the mutex-protected list
    reloads,       \* how many changes the supervisor has made (bounded)
    listener,      \* "running", "stopping" (channel dropped) or "stopped"
    conn,          \* each TCP connection: "none", "open", "closed" by its client
                   \* or an error, or "expired" by the idle timer
    ask,           \* what each query asks, once it is sent
    stage,         \* how far each query has got
    snapshot,      \* the backend loaded for a query
    todo, asking,  \* servers a forwarded query has left, and the one asked
    tried,         \* servers it has asked so far
    answers,       \* replies given to the reply channel
    outbox,        \* queries whose reply has not left the process
    received,      \* queries whose client has its reply
    window, hosts  \* backends and host lists that were current while a
                   \* query waited to be decided (history)

configVars == <<backend, nameservers, reloads>>
ioVars == <<outbox, received>>
forwardVars == <<todo, asking, tried>>
historyVars == <<window, hosts>>
vars == <<configVars, listener, conn, ask, stage, snapshot, forwardVars,
          answers, ioVars, historyVars>>

Stages == {"idle", "waiting", "loaded", "forwarding", "replied", "gaveup", "dropped"}
Replies == [kind : {"answer", "nxdomain", "upstream"},
            data : (SUBSET Ip) \cup (SUBSET Label) \cup (SUBSET Server)]

TypeOK ==
    /\ backend \in Published
    /\ nameservers \in HostServers
    /\ reloads \in 0..MaxReloads
    /\ listener \in {"running", "stopping", "stopped"}
    /\ conn \in [Conn -> {"none", "open", "closed", "expired"}]
    /\ ask \in [Query -> Asked]
    /\ stage \in [Query -> Stages]
    /\ snapshot \in [Query -> Published \cup {NoBackend}]
    /\ todo \in [Query -> SUBSET Server]
    /\ asking \in [Query -> Server \cup {NoServer}]
    /\ tried \in [Query -> SUBSET Server]
    /\ answers \in [Query -> SUBSET Replies]
    /\ outbox \subseteq Query
    /\ received \subseteq Query
    /\ window \in [Query -> SUBSET Published]
    /\ hosts \in [Query -> SUBSET HostServers]

Init ==
    /\ backend \in Published
    /\ nameservers \in HostServers
    /\ reloads = 0
    /\ listener = "running"
    /\ conn = [c \in Conn |-> "none"]
    /\ ask = [q \in Query |-> CHOOSE a \in Asked : TRUE]
    /\ stage = [q \in Query |-> "idle"]
    /\ snapshot = [q \in Query |-> NoBackend]
    /\ todo = [q \in Query |-> {}]
    /\ asking = [q \in Query |-> NoServer]
    /\ tried = [q \in Query |-> {}]
    /\ answers = [q \in Query |-> {}]
    /\ outbox = {}
    /\ received = {}
    /\ window = [q \in Query |-> {}]
    /\ hosts = [q \in Query |-> {}]

OnConn(c) == {q \in Query \ Udp : ConnOf[q] = c}

\* process_message runs inside the listener's loop up to the point where a
\* UDP query is replied to or handed to a task of its own.
\* Variant of ListenerFree, to be refuted: UDP forwards are awaited inline.
ListenerFreeInline == \A q \in Udp : stage[q] \notin {"loaded", "forwarding"}
ListenerFree == \A q \in Udp : stage[q] # "loaded"

\* A TCP connection handles one query at a time, forwarding included.
StreamFree(c) == \A q \in OnConn(c) : stage[q] \notin {"loaded", "forwarding"}

-----------------------------------------------------------------------------
(* The clients.                                                            *)

Arrive(q) ==
    /\ stage[q] = "idle"
    /\ Cardinality({p \in Query : stage[p] # "idle"}) < MaxQueries
    /\ stage' = [stage EXCEPT ![q] = "waiting"]
    /\ \E a \in Asked : ask' = [ask EXCEPT ![q] = a]
    /\ window' = [window EXCEPT ![q] = {backend}]
    /\ hosts' = [hosts EXCEPT ![q] = {nameservers}]
    /\ UNCHANGED <<configVars, listener, conn, snapshot, forwardVars,
                   answers, ioVars>>

SendUdp(q) == q \in Udp /\ listener # "stopped" /\ Arrive(q)
SendTcp(q) == q \in Query \ Udp /\ conn[ConnOf[q]] = "open" /\ Arrive(q)

\* What waits on a connection that ends is lost, and so are its replies.
EndConn(c, how) ==
    /\ conn[c] = "open"
    /\ conn' = [conn EXCEPT ![c] = how]
    /\ stage' = [q \in Query |->
          IF q \in OnConn(c) /\ stage[q] = "waiting" THEN "dropped" ELSE stage[q]]
    /\ outbox' = outbox \ OnConn(c)
    /\ UNCHANGED <<configVars, listener, ask, snapshot, forwardVars, answers,
                   received, historyVars>>

\* The client ends the stream, does not read its replies, or there is an error.
Close(c) == EndConn(c, "closed")

\* Variant of IdleTimeout, to be refuted: the timer runs on over a query.
IdleTimeoutAtWork(c) == EndConn(c, "expired")

\* The three-second timer only runs while the task waits for a message.
IdleTimeout(c) ==
    /\ StreamFree(c)
    /\ \A q \in OnConn(c) : stage[q] # "waiting" /\ q \notin outbox
    /\ EndConn(c, "expired")

-----------------------------------------------------------------------------
(* The listener's loop and the connections' tasks.                         *)

\* accept(): the loop spawns a task for the connection.
Accept(c) ==
    /\ listener # "stopped"
    /\ ListenerFree
    /\ conn[c] = "none"
    /\ conn' = [conn EXCEPT ![c] = "open"]
    /\ UNCHANGED <<configVars, listener, ask, stage, snapshot, forwardVars,
                   answers, ioVars, historyVars>>

\* Variant of Take, to be refuted: a connection keeps the backend that was
\* loaded for its first query.
TakeCached(q) ==
    /\ stage[q] = "waiting"
    /\ stage' = [stage EXCEPT ![q] = "loaded"]
    /\ \E earlier \in Query :
          /\ q \notin Udp /\ earlier \notin Udp => ConnOf[q] = ConnOf[earlier]
          /\ snapshot[earlier] # NoBackend \/ q = earlier
          /\ snapshot' = [snapshot EXCEPT ![q] =
                IF snapshot[earlier] # NoBackend THEN snapshot[earlier] ELSE backend]
    /\ UNCHANGED <<configVars, listener, conn, ask, forwardVars, answers,
                   ioVars, historyVars>>

\* The message is taken. One that does not parse is ignored; for another the
\* backend of this moment is loaded.
Take(q) ==
    /\ stage[q] = "waiting"
    /\ \/ /\ q \in Garbled
          /\ stage' = [stage EXCEPT ![q] = "dropped"]
          /\ UNCHANGED snapshot
       \/ /\ q \notin Garbled
          /\ stage' = [stage EXCEPT ![q] = "loaded"]
          /\ snapshot' = [snapshot EXCEPT ![q] = backend]
    /\ UNCHANGED <<configVars, listener, conn, ask, forwardVars, answers,
                   ioVars, historyVars>>

TakeUdp(q) == q \in Udp /\ listener # "stopped" /\ ListenerFree /\ Take(q)
TakeTcp(q) ==
    /\ q \in Query \ Udp
    /\ conn[ConnOf[q]] = "open"
    /\ StreamFree(ConnOf[q])
    /\ Take(q)

\* reply(): the message goes to the channel of the listener or connection;
\* when that has ended the message is lost, and nobody retries.
Listening(q) ==
    \/ q \in Udp /\ listener # "stopped"
    \/ q \in Query \ Udp /\ conn[ConnOf[q]] = "open"

\* Variant of reply, to be refuted: a listener told to stop drops what its
\* tasks reply.
ReplyWhileRunning(q, r) ==
    /\ answers' = [answers EXCEPT ![q] = @ \cup {r}]
    /\ outbox' = IF Listening(q) /\ listener = "running" THEN outbox \cup {q} ELSE outbox
    /\ UNCHANGED received

reply(q, r) ==
    /\ answers' = [answers EXCEPT ![q] = @ \cup {r}]
    /\ outbox' = IF Listening(q) THEN outbox \cup {q} ELSE outbox
    /\ UNCHANGED received

\* The rest of process_message: answer, refuse, or start to forward, with
\* the backend loaded before and the host's servers of this moment.
AnswerLocally(q) ==
    /\ stage[q] = "loaded" /\ q \notin Unencodable
    /\ KnownHere(snapshot[q], network_name, ask[q])
    /\ \E r \in LocalAnswers(snapshot[q], network_name, ask[q]) : reply(q, r)
    /\ stage' = [stage EXCEPT ![q] = "replied"]
    /\ UNCHANGED <<configVars, listener, conn, ask, snapshot, forwardVars,
                   historyVars>>

Refuse(q) ==
    /\ stage[q] = "loaded" /\ q \notin Unencodable
    /\ ~KnownHere(snapshot[q], network_name, ask[q])
    /\ ~MayForward(snapshot[q], ask[q], no_proxy)
    /\ reply(q, NxDomain)
    /\ stage' = [stage EXCEPT ![q] = "replied"]
    /\ UNCHANGED <<configVars, listener, conn, ask, snapshot, forwardVars,
                   historyVars>>

StartForward(q) ==
    /\ stage[q] = "loaded"
    /\ ~KnownHere(snapshot[q], network_name, ask[q])
    /\ MayForward(snapshot[q], ask[q], no_proxy)
    /\ todo' = [todo EXCEPT ![q] = ForwardTo(snapshot[q], ask[q], nameservers)]
    /\ stage' = [stage EXCEPT ![q] = "forwarding"]
    /\ UNCHANGED <<configVars, listener, conn, ask, snapshot, asking, tried,
                   answers, ioVars, historyVars>>

\* reply() returns None before anything is sent, and nobody looks at that: a
\* query that is answered here gets no reply at all. (An upstream reply that
\* does not encode is a failed attempt: the next server is asked.)
EncodeFails(q) ==
    /\ stage[q] = "loaded" /\ q \in Unencodable
    /\ \/ KnownHere(snapshot[q], network_name, ask[q])
       \/ ~MayForward(snapshot[q], ask[q], no_proxy)
    /\ stage' = [stage EXCEPT ![q] = "dropped"]
    /\ UNCHANGED <<configVars, listener, conn, ask, snapshot, forwardVars,
                   answers, ioVars, historyVars>>

Decide(q) == AnswerLocally(q) \/ Refuse(q) \/ EncodeFails(q) \/ StartForward(q)

\* The next poll of the stream writes what its channel holds.
Flush(q) ==
    /\ q \in outbox
    /\ IF q \in Udp THEN ListenerFree ELSE StreamFree(ConnOf[q])
    /\ outbox' = outbox \ {q}
    /\ received' = received \cup {q}
    /\ UNCHANGED <<configVars, listener, conn, ask, stage, snapshot,
                   forwardVars, answers, historyVars>>

-----------------------------------------------------------------------------
(* forward_to_servers: one server after the other, each with its timeout.  *)

AskServer(q) ==
    /\ stage[q] = "forwarding"
    /\ asking[q] = NoServer
    /\ \E s \in todo[q] :
          /\ asking' = [asking EXCEPT ![q] = s]
          /\ todo' = [todo EXCEPT ![q] = @ \ {s}]
          /\ tried' = [tried EXCEPT ![q] = @ \cup {s}]
    /\ UNCHANGED <<configVars, listener, conn, ask, stage, snapshot, answers,
                   ioVars, historyVars>>

Upstream(s) == [kind |-> "upstream", data |-> {s}]

\* Variant of ServerAnswers, to be refuted: the loop goes on after a reply.
ServerAnswersNoBreak(q) ==
    /\ stage[q] = "forwarding"
    /\ asking[q] # NoServer
    /\ reply(q, Upstream(asking[q]))
    /\ asking' = [asking EXCEPT ![q] = NoServer]
    /\ UNCHANGED <<configVars, listener, conn, ask, stage, snapshot, todo,
                   tried, historyVars>>

\* The first reply ends the loop.
ServerAnswers(q) ==
    /\ stage[q] = "forwarding"
    /\ asking[q] # NoServer
    /\ reply(q, Upstream(asking[q]))
    /\ asking' = [asking EXCEPT ![q] = NoServer]
    /\ stage' = [stage EXCEPT ![q] = "replied"]
    /\ UNCHANGED <<configVars, listener, conn, ask, snapshot, todo, tried,
                   historyVars>>

\* No connection, an error, the timeout, or a reply that does not encode. The
\* client's socket is closed, so an answer that comes later reaches nobody.
AttemptFails(q) ==
    /\ stage[q] = "forwarding"
    /\ asking[q] # NoServer
    /\ asking' = [asking EXCEPT ![q] = NoServer]
    /\ UNCHANGED <<configVars, listener, conn, ask, stage, snapshot, todo,
                   tried, answers, ioVars, historyVars>>

\* Variant of GiveUp, to be refuted: a failed attempt ends the loop.
GiveUpEarly(q) ==
    /\ stage[q] = "forwarding"
    /\ asking[q] = NoServer
    /\ stage' = [stage EXCEPT ![q] = "gaveup"]
    /\ UNCHANGED <<configVars, listener, conn, ask, snapshot, forwardVars,
                   answers, ioVars, historyVars>>

\* Every server failed, or there was none: the client gets no reply.
GiveUp(q) ==
    /\ stage[q] = "forwarding"
    /\ asking[q] = NoServer
    /\ todo[q] = {}
    /\ stage' = [stage EXCEPT ![q] = "gaveup"]
    /\ UNCHANGED <<configVars, listener, conn, ask, snapshot, forwardVars,
                   answers, ioVars, historyVars>>

-----------------------------------------------------------------------------
(* The supervisor.                                                         *)

Pending(q) == stage[q] \in {"waiting", "loaded"}

\* Variant of PublishBackend, to be refuted: the store is not swapped as a
\* whole; its names are replaced in place.
PublishNames ==
    /\ reloads < MaxReloads
    /\ reloads' = reloads + 1
    /\ \E b \in Published \ {backend} :
          backend' = [backend EXCEPT !.name_mappings = b.name_mappings]
    /\ window' = [q \in Query |->
          IF stage[q] = "waiting" THEN window[q] \cup {backend'} ELSE window[q]]
    /\ UNCHANGED <<nameservers, listener, conn, ask, stage, snapshot,
                   forwardVars, answers, ioVars, hosts>>

\* A reload publishes a backend and, later, the host's servers; a change of
\* resolv.conf sets the servers alone.
PublishBackend ==
    /\ reloads < MaxReloads
    /\ reloads' = reloads + 1
    /\ backend' \in Published \ {backend}
    /\ window' = [q \in Query |->
          IF stage[q] = "waiting" THEN window[q] \cup {backend'} ELSE window[q]]
    /\ UNCHANGED <<nameservers, listener, conn, ask, stage, snapshot,
                   forwardVars, answers, ioVars, hosts>>

SetNameservers ==
    /\ reloads < MaxReloads
    /\ reloads' = reloads + 1
    /\ nameservers' \in HostServers \ {nameservers}
    /\ hosts' = [q \in Query |->
          IF Pending(q) THEN hosts[q] \cup {nameservers'} ELSE hosts[q]]
    /\ UNCHANGED <<backend, listener, conn, ask, stage, snapshot, forwardVars,
                   answers, ioVars, window>>

StopListener ==
    /\ listener = "running"
    /\ listener' = "stopping"
    /\ UNCHANGED <<configVars, conn, ask, stage, snapshot, forwardVars,
                   answers, ioVars, historyVars>>

\* The loop breaks, when its channel is dropped or when accept() fails:
\* both sockets close, with what they still held. Connections and forwarded
\* queries live on in their own tasks.
LoopEnds ==
    /\ listener # "stopped"
    /\ ListenerFree
    /\ listener' = "stopped"
    /\ stage' = [q \in Query |->
          IF q \in Udp /\ stage[q] = "waiting" THEN "dropped" ELSE stage[q]]
    /\ outbox' = outbox \ Udp
    /\ UNCHANGED <<configVars, conn, ask, snapshot, forwardVars, answers,
                   received, historyVars>>

-----------------------------------------------------------------------------
Next ==
    \/ \E q \in Query :
          \/ SendUdp(q) \/ SendTcp(q)
          \/ TakeUdp(q) \/ TakeTcp(q) \/ Decide(q) \/ Flush(q)
          \/ AskServer(q) \/ ServerAnswers(q) \/ AttemptFails(q) \/ GiveUp(q)
    \/ \E c \in Conn : Accept(c) \/ Close(c) \/ IdleTimeout(c)
    \/ PublishBackend \/ SetNameservers \/ StopListener \/ LoopEnds

\* The executor polls the tasks that can go on ...
TaskFairness ==
    \A q \in Query :
        /\ WF_vars(TakeUdp(q) \/ TakeTcp(q))
        /\ WF_vars(Decide(q))
        /\ WF_vars(Flush(q))
\* ... and every attempt at a server ends, by its timeout if not before.
TimeoutFairness ==
    \A q \in Query :
        /\ WF_vars(AskServer(q))
        /\ WF_vars(ServerAnswers(q) \/ AttemptFails(q))
        /\ WF_vars(GiveUp(q))

Spec == Init /\ [][Next]_vars
\* Upstream servers may hang for ever, as if there were no timeout.
HangingSpec == Spec /\ TaskFairness
=============================================================================
