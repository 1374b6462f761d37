---------------------------- MODULE CoreDnsProps ----------------------------
(***************************************************************************)
(* What must hold of the queries of one listener modelled in CoreDns.      *)
(***************************************************************************)
EXTENDS CoreDns

\* Every query gets at most one reply: exactly one if it was answered here
\* or by an upstream server, none if it was ignored or given up. An answer
\* that comes after the attempt's timeout, or from a second server, does not
\* become another reply ("break and don't try other resolvers",
\* coredns.rs:312-317).
OneReply ==
    \A q \in Query :
        \/ stage[q] = "replied" /\ \E r \in Replies : answers[q] = {r}
        \/ stage[q] # "replied" /\ answers[q] = {}

\* What the store b and the host list h have to say to a query.
Right(q, r, b, h) ==
    IF KnownHere(b, network_name, ask[q])
    THEN r \in LocalAnswers(b, network_name, ask[q])
    ELSE IF MayForward(b, ask[q], no_proxy)
    THEN \E s \in ForwardTo(b, ask[q], h) : r = Upstream(s)
    ELSE r = NxDomain

\* A reply is what one store that was current while the query waited says,
\* with one host list that was current then: not a mixture of two stores,
\* and not the store of an earlier query of the connection. (An upstream
\* reply may arrive long after the store was replaced.)
RepliesAreCurrent ==
    \A q \in Query, r \in Replies :
        r \in answers[q] =>
            \E b \in window[q] : \E h \in hosts[q] : Right(q, r, b, h)

\* A container all of whose networks are internal reaches no name server
\* outside, whatever reload happens while its query is under way, and
\* nobody's query leaves when the proxy is off: a query is only sent on for
\* a requester that is no container, or has a network that is not internal
\* (coredns.rs:216-222).
InternalStaysInside ==
    \A q \in Query :
        tried[q] # {} =>
            /\ ~no_proxy
            /\ \E b \in window[q] :
                  \/ b.ip_mappings[ask[q].from] = {}
                  \/ \E n \in b.ip_mappings[ask[q].from] :
                        b.network_is_internal[n] = "external"

\* A forwarded query only reaches servers of one list, and it is given up
\* only after every server of that list was asked.
EveryServerTried ==
    \A q \in Query :
        tried[q] # {} \/ stage[q] = "gaveup" =>
            \E b \in window[q] : \E h \in hosts[q] :
                LET list == ForwardTo(b, ask[q], h)
                IN  /\ tried[q] \subseteq list
                    /\ stage[q] = "gaveup" => tried[q] = list

-----------------------------------------------------------------------------
\* Forwarding to a server that hangs does not keep the listener from the
\* next UDP query: forwards of UDP queries run in tasks of their own
\* (coredns.rs:248-256). Assumed is only that tasks that can go on are
\* polled, not that an upstream server ever answers or times out.
UdpNeverBlocked ==
    \A q \in Udp : stage[q] = "waiting" ~> stage[q] # "waiting"

\* The listener has ended, or the client of the connection has, or it failed.
\* A connection the process itself closes for being idle is not excused.
StreamCut(q) ==
    \/ q \in Udp /\ listener = "stopped"
    \/ q \in Query \ Udp /\ conn[ConnOf[q]] = "closed"

\* Every query that has reached the listener comes to an end: the client has
\* its reply, unless every server failed, the message or its answer cannot be
\* parsed or encoded, or somebody else cut the stream. That includes the
\* queries behind a slow one on a TCP connection, and a query with no server
\* to ask; the idle timer never takes a query along that has reached the
\* connection (coredns.rs:130). Here the timeout of every attempt is needed
\* (coredns.rs:282, coredns.rs:305).
EveryQueryEnds ==
    TimeoutFairness =>
        \A q \in Query :
            stage[q] = "waiting" ~>
                \/ q \in received \/ stage[q] = "gaveup" \/ StreamCut(q)
                \/ stage[q] = "dropped" /\ q \in Garbled \cup Unencodable

-----------------------------------------------------------------------------
(* The listener as the abstract specification of its service sees it.      *)

LocalReplies(b, a) ==
    IF KnownHere(b, network_name, a) THEN LocalAnswers(b, network_name, a)
    ELSE IF MayForward(b, a, no_proxy) THEN {} ELSE {NxDomain}

\* A reply that has been given and has no stream to leave by is lost.
Fate(q) ==
    IF q \in received THEN "answered"
    ELSE IF stage[q] = "idle" THEN "unsent"
    ELSE IF stage[q] \in {"waiting", "loaded", "forwarding"} \/ q \in outbox
    THEN "pending"
    ELSE "lost"

OpenQueries == {q \in Query : Listening(q)}
Fates == [q \in Query |-> Fate(q)]
Got == [q \in Query |-> IF q \in received THEN answers[q] ELSE {}]

Service == INSTANCE DnsService WITH
    Question <- Asked,
    Store <- Published,
    HostList <- HostServers,
    Local <- LocalReplies,
    Servers <- ForwardTo,
    store <- backend,
    hostList <- nameservers,
    open <- OpenQueries,
    question <- ask,
    fate <- Fates,
    asked <- tried,
    got <- Got,
    stores <- window,
    lists <- hosts

\* The listener implements DnsService: among others, no reply is lost as long
\* as its stream is there, and none comes from a server that was not asked.
ImplementsService == Service!SSpec

-----------------------------------------------------------------------------
\* RELEASE_NOTES.md:100 says "Name resolution is now case-insensitive.": a
\* query is forwarded only if the same name in lower case would be. The code
\* lower-cases the name for the lookup alone; the checks for the search
\* domain (coredns.rs:218) and for the ending of a reverse name compare the
\* name as it was sent.
SpellingDoesNotMatter ==
    \A q \in Query :
        stage[q] = "forwarding" =>
            LET lower == [ask[q] EXCEPT !.lower = TRUE]
            IN  /\ ~KnownHere(snapshot[q], network_name, lower)
                /\ MayForward(snapshot[q], lower, no_proxy)

-----------------------------------------------------------------------------
(* The inductive invariant.                                                *)

Decided(q) == stage[q] \in {"forwarding", "replied", "gaveup"}

\* What a query was decided by was current while it waited.
WindowInv ==
    \A q \in Query :
        /\ stage[q] = "waiting" => backend \in window[q]
        /\ Pending(q) => nameservers \in hosts[q]
        /\ stage[q] = "loaded" \/ Decided(q) => snapshot[q] \in window[q]

\* A query that is, or was, forwarded works through one list of servers.
ForwardInv ==
    \A q \in Query :
        /\ stage[q] = "forwarding" \/ stage[q] = "gaveup" \/ tried[q] # {} =>
              /\ Decided(q)
              /\ ~KnownHere(snapshot[q], network_name, ask[q])
              /\ MayForward(snapshot[q], ask[q], no_proxy)
              /\ \E h \in hosts[q] :
                    tried[q] \cup todo[q] = ForwardTo(snapshot[q], ask[q], h)
        /\ asking[q] \in tried[q] \cup {NoServer}
        /\ stage[q] = "gaveup" => todo[q] = {}

\* The reply follows from the store the query was decided with.
ReplyInv ==
    \A q \in Query, r \in Replies :
        r \in answers[q] =>
            \E h \in hosts[q] : Right(q, r, snapshot[q], h)

\* Replies on their way, and those that have arrived.
StreamInv ==
    /\ \A q \in outbox : Listening(q) /\ stage[q] = "replied" /\ q \notin received
    /\ \A q \in received : stage[q] = "replied"

\* What DnsService knows besides: a query has come over a stream, and an
\* upstream reply comes from a server that was asked.
ServiceInv ==
    \A q \in Query :
        /\ q \notin Udp /\ conn[ConnOf[q]] = "none" => stage[q] = "idle"
        /\ \A r \in answers[q] :
              \/ tried[q] = {} /\ r \in LocalReplies(snapshot[q], ask[q])
              \/ /\ LocalReplies(snapshot[q], ask[q]) = {}
                 /\ \E s \in tried[q] : r = Upstream(s)

IInv == TypeOK /\ WindowInv /\ ForwardInv /\ OneReply /\ ReplyInv /\ StreamInv
=============================================================================
