-------------------------- MODULE DnsServiceProofs --------------------------
(***************************************************************************)
(* Proof, for every value of the constants, that a listener implements     *)
(* DnsService: every step of its loop and its tasks is a step of the       *)
(* service, or one a client cannot see.                                    *)
(***************************************************************************)
EXTENDS CoreDnsProofs

\* What a loaded query may be told, by what process_message does with it.
LEMMA Verdicts ==
    ASSUME TypeOK, WindowInv, NEW q \in Query, stage[q] = "loaded"
    PROVE  /\ AnswerLocally(q) =>
                 LocalAnswers(snapshot[q], network_name, ask[q]) =
                     LocalReplies(snapshot[q], ask[q])
           /\ Refuse(q) => LocalReplies(snapshot[q], ask[q]) = {NxDomain}
  BY DEF AnswerLocally, Refuse, LocalReplies

\* A query that is not to be forwarded has a reply from the store.
LEMMA LocalReply ==
    ASSUME NEW b, NEW a, KnownHere(b, network_name, a) \/ ~MayForward(b, a, no_proxy)
    PROVE  LocalReplies(b, a) # {}
<1>1. KnownHere(b, network_name, a) => LocalAnswers(b, network_name, a) # {}
  BY DEF KnownHere, LocalAnswers
<1> QED BY <1>1 DEF LocalReplies

LEMMA ServiceStep ==
    ASSUME TypeOK, WindowInv, ForwardInv, OneReply, ServiceInv, [Next]_vars
    PROVE  ServiceInv'
<1> USE DEF TypeOK, ServiceInv, configVars, forwardVars, ioVars,
            historyVars, Stages, OnConn
<1>1. ASSUME NEW q \in Query, SendUdp(q) PROVE ServiceInv'
  <2>1. answers[q] = {} /\ answers' = answers
    BY <1>1 DEF SendUdp, Arrive, OneReply
  <2> QED BY <1>1, <2>1 DEF SendUdp, Arrive
<1>2. ASSUME NEW q \in Query, SendTcp(q) PROVE ServiceInv'
  <2>1. answers[q] = {} /\ answers' = answers
    BY <1>2 DEF SendTcp, Arrive, OneReply
  <2> QED BY <1>2, <2>1 DEF SendTcp, Arrive
<1>3. ASSUME NEW q \in Query, Take(q) PROVE ServiceInv'
  <2>1. answers[q] = {} /\ answers' = answers
    BY <1>3 DEF Take, OneReply
  <2> QED BY <1>3, <2>1 DEF Take
<1>5. ASSUME NEW q \in Query, AnswerLocally(q) PROVE ServiceInv'
  <2>1. answers[q] = {} /\ tried[q] = {} /\ stage[q] = "loaded"
    BY <1>5 DEF AnswerLocally, OneReply, ForwardInv, Decided
  <2>2. PICK r \in LocalReplies(snapshot[q], ask[q]) :
           answers' = [answers EXCEPT ![q] = @ \cup {r}]
    BY <1>5, <2>1, Verdicts DEF AnswerLocally, reply
  <2>3. UNCHANGED <<conn, ask, snapshot, tried>>
    BY <1>5 DEF AnswerLocally
  <2>4. stage' = [stage EXCEPT ![q] = "replied"]
    BY <1>5 DEF AnswerLocally
  <2> QED BY <2>1, <2>2, <2>3, <2>4
<1>6. ASSUME NEW q \in Query, Refuse(q) PROVE ServiceInv'
  <2>1. answers[q] = {} /\ tried[q] = {} /\ stage[q] = "loaded"
    BY <1>6 DEF Refuse, OneReply, ForwardInv, Decided
  <2>2. NxDomain \in LocalReplies(snapshot[q], ask[q])
    BY <1>6, <2>1, Verdicts
  <2>3. answers' = [answers EXCEPT ![q] = @ \cup {NxDomain}]
    BY <1>6 DEF Refuse, reply
  <2>4. UNCHANGED <<conn, ask, snapshot, tried>>
    BY <1>6 DEF Refuse
  <2>5. stage' = [stage EXCEPT ![q] = "replied"]
    BY <1>6 DEF Refuse
  <2> QED BY <2>1, <2>2, <2>3, <2>4, <2>5
<1>7. ASSUME NEW q \in Query, StartForward(q) PROVE ServiceInv'
  BY <1>7 DEF StartForward
<1>8. ASSUME NEW q \in Query, Flush(q) PROVE ServiceInv'
  BY <1>8 DEF Flush
<1>9. ASSUME NEW q \in Query, AskServer(q) PROVE ServiceInv'
  <2>1. answers[q] = {} /\ answers' = answers
    BY <1>9 DEF AskServer, OneReply
  <2> QED BY <1>9, <2>1 DEF AskServer
<1>10. ASSUME NEW q \in Query, ServerAnswers(q) PROVE ServiceInv'
  <2>1. answers[q] = {} /\ stage[q] = "forwarding" /\ asking[q] \in tried[q]
    BY <1>10 DEF ServerAnswers, OneReply, ForwardInv
  <2>2. LocalReplies(snapshot[q], ask[q]) = {}
    BY <2>1 DEF ForwardInv, LocalReplies
  <2>3. answers' = [answers EXCEPT ![q] = @ \cup {Upstream(asking[q])}]
    BY <1>10 DEF ServerAnswers, reply
  <2>4. UNCHANGED <<conn, ask, snapshot, tried>>
    BY <1>10 DEF ServerAnswers
  <2>5. stage' = [stage EXCEPT ![q] = "replied"]
    BY <1>10 DEF ServerAnswers
  <2> QED BY <2>1, <2>2, <2>3, <2>4, <2>5
<1>11. ASSUME NEW q \in Query, AttemptFails(q) PROVE ServiceInv'
  BY <1>11 DEF AttemptFails
<1>12. ASSUME NEW q \in Query, GiveUp(q) PROVE ServiceInv'
  BY <1>12 DEF GiveUp
<1>13. ASSUME NEW c \in Conn, Accept(c) PROVE ServiceInv'
  BY <1>13 DEF Accept
<1>14. ASSUME NEW c \in Conn, Close(c) \/ IdleTimeout(c) PROVE ServiceInv'
  <2>1. PICK how \in {"closed", "expired"} : EndConn(c, how)
    BY <1>14 DEF Close, IdleTimeout
  <2>2. conn[c] = "open" /\ conn' = [conn EXCEPT ![c] = how]
    BY <2>1 DEF EndConn
  <2>3. UNCHANGED <<ask, snapshot, tried, answers>>
    BY <2>1 DEF EndConn
  <2>4. \A q \in Query : stage[q] = "idle" => stage'[q] = "idle"
    BY <2>1 DEF EndConn
  <2>5. \A k \in Conn : conn'[k] = "none" => conn[k] = "none"
    BY <2>2
  <2> QED BY <2>3, <2>4, <2>5, QueryAssumption
<1>15. CASE PublishBackend
  BY <1>15 DEF PublishBackend
<1>16. CASE SetNameservers
  BY <1>16 DEF SetNameservers
<1>17. CASE StopListener
  BY <1>17 DEF StopListener
<1>18. CASE LoopEnds
  BY <1>18 DEF LoopEnds
<1>19. ASSUME NEW q \in Query, EncodeFails(q) PROVE ServiceInv'
  <2>1. UNCHANGED <<conn, ask, snapshot, tried, answers>>
    BY <1>19 DEF EncodeFails
  <2>2. stage[q] # "idle" /\ stage' = [stage EXCEPT ![q] = "dropped"]
    BY <1>19 DEF EncodeFails
  <2> QED BY <2>1, <2>2
<1>20. CASE UNCHANGED vars
  BY <1>20 DEF vars
<1> QED
  BY <1>1, <1>2, <1>3, <1>5, <1>6, <1>7, <1>8, <1>9, <1>10, <1>11, <1>12,
     <1>13, <1>14, <1>15, <1>16, <1>17, <1>18, <1>19, <1>20
  DEF Next, Decide, TakeUdp, TakeTcp

LEMMA ServiceInvariance == Spec => [](IInv /\ ServiceInv)
<1>1. Init => ServiceInv
  BY DEF Init, ServiceInv
<1>2. IInv /\ ServiceInv /\ [Next]_vars => ServiceInv'
  BY ServiceStep DEF IInv
<1> QED BY <1>1, <1>2, Invariance, PTL DEF Spec

-----------------------------------------------------------------------------
\* Where every query stands for its client, and which streams there are.
Unseen == UNCHANGED <<OpenQueries, Fates, Got>>

\* A step that only moves a query along inside the listener is not seen.
LEMMA Inside ==
    ASSUME TypeOK, StreamInv, NEW q \in Query,
           UNCHANGED <<conn, listener, received, outbox>>,
           stage[q] \in {"waiting", "loaded", "forwarding"},
           stage'[q] \in {"waiting", "loaded", "forwarding"},
           \A p \in Query \ {q} : stage'[p] = stage[p],
           answers' = answers
    PROVE  Unseen
  BY DEF Unseen, OpenQueries, Listening, Fates, Fate, Got

\* A reply that is given stays pending while there is a stream to send it by.
LEMMA Replying ==
    ASSUME TypeOK, StreamInv, NEW q \in Query, NEW r, reply(q, r),
           UNCHANGED <<conn, listener>>,
           stage[q] \in {"loaded", "forwarding"},
           stage' = [stage EXCEPT ![q] = "replied"]
    PROVE  /\ UNCHANGED <<OpenQueries, Got>>
           /\ Fates[q] = "pending"
           /\ IF q \in OpenQueries THEN Fates' = Fates
              ELSE Fates' = [Fates EXCEPT ![q] = "lost"]
<1>1. q \notin received /\ received' = received
  BY DEF StreamInv, reply
<1>2. UNCHANGED <<OpenQueries, Got>>
  BY <1>1 DEF reply, TypeOK, OpenQueries, Listening, Got
<1>3. \A p \in Query \ {q} :
         stage'[p] = stage[p] /\ (p \in outbox' <=> p \in outbox)
  BY DEF reply, TypeOK
<1>4. \A p \in Query \ {q} : Fate(p)' = Fate(p)
  BY <1>1, <1>3 DEF Fate
<1>5. Fate(q) = "pending"
  BY <1>1 DEF Fate
<1>6. stage'[q] = "replied" /\ q \notin outbox
  BY DEF TypeOK, StreamInv
<1>7. Fate(q)' = IF q \in OpenQueries THEN "pending" ELSE "lost"
  BY <1>1, <1>6 DEF Fate, reply, OpenQueries
<1> QED BY <1>2, <1>4, <1>5, <1>7 DEF Fates

\* What a query that is being sent on has been, and may yet be, sent to.
LEMMA Forwarded ==
    ASSUME TypeOK, WindowInv, ForwardInv, NEW q \in Query,
           stage[q] = "forwarding" \/ stage[q] = "gaveup" \/ tried[q] # {}
    PROVE  /\ snapshot[q] \in window[q]
           /\ LocalReplies(snapshot[q], ask[q]) = {}
           /\ \E h \in hosts[q] :
                 tried[q] \cup todo[q] = ForwardTo(snapshot[q], ask[q], h)
  BY DEF WindowInv, ForwardInv, LocalReplies

\* The supervisor's changes are noted by queries that are undecided.
LEMMA ChangesRefine ==
    ASSUME TypeOK, StreamInv
    PROVE  /\ PublishBackend => Service!SetStore
           /\ SetNameservers => Service!SetHostList
<1> DEFINE waiting == {q \in Query : stage[q] = "waiting"}
           pending == {q \in Query : Pending(q)}
<1>1. waiting \subseteq Service!Pending /\ pending \subseteq Service!Pending
  BY DEF StreamInv, Service!Pending, Fates, Fate, Pending
<1>2. ASSUME PublishBackend PROVE Service!SetStore
  <2>1. Unseen
    BY <1>2 DEF PublishBackend, ioVars, Unseen, OpenQueries, Listening, Fates, Fate, Got
  <2>2. window' = [q \in Query |->
           IF q \in waiting THEN window[q] \cup {backend'} ELSE window[q]]
    BY <1>2 DEF PublishBackend
  <2>3. backend' \in Published /\ UNCHANGED <<nameservers, ask, tried, hosts>>
    BY <1>2 DEF PublishBackend, forwardVars
  <2>4. \E Q \in SUBSET Service!Pending :
           window' = [q \in Query |->
              IF q \in Q THEN window[q] \cup {backend'} ELSE window[q]]
    <3> HIDE DEF waiting
    <3> QED BY <1>1, <2>2
  <2> QED BY <2>1, <2>3, <2>4 DEF Service!SetStore, Unseen
<1>3. ASSUME SetNameservers PROVE Service!SetHostList
  <2>1. Unseen
    BY <1>3 DEF SetNameservers, ioVars, Unseen, OpenQueries, Listening, Fates, Fate, Got
  <2>2. hosts' = [q \in Query |->
           IF q \in pending THEN hosts[q] \cup {nameservers'} ELSE hosts[q]]
    BY <1>3 DEF SetNameservers
  <2>3. nameservers' \in HostServers /\ UNCHANGED <<backend, ask, tried, window>>
    BY <1>3 DEF SetNameservers, forwardVars
  <2>4. \E Q \in SUBSET Service!Pending :
           hosts' = [q \in Query |->
              IF q \in Q THEN hosts[q] \cup {nameservers'} ELSE hosts[q]]
    <3> HIDE DEF pending
    <3> QED BY <1>1, <2>2
  <2> QED BY <2>1, <2>3, <2>4 DEF Service!SetHostList, Unseen
<1> QED BY <1>2, <1>3

\* A connection begins before its queries; a connection or the listener takes
\* along what it has not written when it ends.
LEMMA StreamsRefine ==
    ASSUME TypeOK, StreamInv, ServiceInv
    PROVE  /\ \A c \in Conn : Accept(c) => Service!StreamsBegin
           /\ \A c \in Conn : Close(c) \/ IdleTimeout(c) => Service!StreamsEnd
           /\ LoopEnds => Service!StreamsEnd
<1>1. ASSUME NEW c \in Conn, Accept(c) PROVE Service!StreamsBegin
  <2>1. OnConn(c) \in SUBSET {q \in Query : Fates[q] = "unsent"}
    BY <1>1 DEF Accept, ServiceInv, StreamInv, OnConn, Fates, Fate
  <2>2. OpenQueries' = OpenQueries \cup OnConn(c)
    BY <1>1 DEF Accept, TypeOK, OpenQueries, Listening, OnConn
  <2>3. UNCHANGED <<Fates, Got>>
    BY <1>1 DEF Accept, ioVars, Fates, Fate, Got
  <2>4. UNCHANGED <<backend, nameservers, ask, tried, window, hosts>>
    BY <1>1 DEF Accept, configVars, forwardVars, historyVars
  <2> QED BY <2>1, <2>2, <2>3, <2>4 DEF Service!StreamsBegin
<1>2. ASSUME NEW Q \in SUBSET OpenQueries, OpenQueries' = OpenQueries \ Q,
             stage' = [q \in Query |->
                IF q \in Q /\ stage[q] = "waiting" THEN "dropped" ELSE stage[q]],
             outbox' = outbox \ Q,
             UNCHANGED <<configVars, ask, forwardVars, answers, received, historyVars>>
      PROVE  Service!StreamsEnd
  <2> DEFINE L == {q \in Q : stage[q] = "waiting" \/ q \in outbox}
  <2>1. L \in SUBSET (Q \cap Service!Pending)
    BY DEF Service!Pending, Fates, Fate, StreamInv, OpenQueries
  <2>2. \A q \in Query : Fate(q)' = IF q \in L THEN "lost" ELSE Fate(q)
    BY <1>2 DEF Fate, StreamInv, TypeOK
  <2>3. Fates' = [q \in Query |-> IF q \in L THEN "lost" ELSE Fates[q]]
    BY <2>2 DEF Fates
  <2>4. Got' = Got
    BY <1>2 DEF Got
  <2>5. UNCHANGED <<backend, nameservers, ask, tried, window, hosts>>
    BY <1>2 DEF configVars, forwardVars, historyVars
  <2> HIDE DEF L
  <2> QED BY <1>2, <2>1, <2>3, <2>4, <2>5 DEF Service!StreamsEnd
<1>3. ASSUME NEW c \in Conn, Close(c) \/ IdleTimeout(c) PROVE Service!StreamsEnd
  <2>1. PICK how \in {"closed", "expired"} : EndConn(c, how)
    BY <1>3 DEF Close, IdleTimeout
  <2>2. OnConn(c) \in SUBSET OpenQueries /\ OpenQueries' = OpenQueries \ OnConn(c)
    BY <2>1 DEF EndConn, TypeOK, OpenQueries, Listening, OnConn
  <2> QED BY <1>2, <2>1, <2>2 DEF EndConn
<1>4. ASSUME LoopEnds PROVE Service!StreamsEnd
  <2>1. Udp \in SUBSET OpenQueries /\ OpenQueries' = OpenQueries \ Udp
    BY <1>4, QueryAssumption DEF LoopEnds, TypeOK, OpenQueries, Listening
  <2> QED BY <1>2, <1>4, <2>1 DEF LoopEnds
<1> QED BY <1>1, <1>3, <1>4

\* Each step of a query is one of the service, or is not seen.
LEMMA QueryRefines ==
    ASSUME IInv, ServiceInv, NEW q \in Query
    PROVE  /\ SendUdp(q) \/ SendTcp(q) => Service!Send(q)
           /\ Take(q) => Service!Lose(q) \/ UNCHANGED Service!svars
           /\ Decide(q) \/ ServerAnswers(q) =>
                 Service!Lose(q) \/ UNCHANGED Service!svars
           /\ AskServer(q) => Service!AskServer(q)
           /\ AttemptFails(q) => UNCHANGED Service!svars
           /\ GiveUp(q) => Service!Lose(q)
           /\ Flush(q) => Service!Deliver(q)
<1> USE DEF configVars, forwardVars, historyVars, ioVars
<1>0. TypeOK /\ WindowInv /\ ForwardInv /\ OneReply /\ ReplyInv /\ StreamInv
  BY DEF IInv
<1>1. ASSUME SendUdp(q) \/ SendTcp(q) PROVE Service!Send(q)
  <2>1. Arrive(q) /\ q \in OpenQueries
    BY <1>0, <1>1 DEF SendUdp, SendTcp, TypeOK, OpenQueries, Listening
  <2>2. q \notin received /\ q \notin outbox /\ stage[q] = "idle"
    BY <1>0, <2>1 DEF Arrive, StreamInv
  <2>3. Fates[q] = "unsent" /\ Fates' = [Fates EXCEPT ![q] = "pending"]
    BY <1>0, <2>1, <2>2 DEF Arrive, Fates, Fate, TypeOK
  <2>4. UNCHANGED <<OpenQueries, Got>>
    BY <2>1 DEF Arrive, OpenQueries, Listening, Got
  <2> QED BY <2>1, <2>3, <2>4 DEF Arrive, Service!Send
<1>2. ASSUME Take(q) PROVE Service!Lose(q) \/ UNCHANGED Service!svars
  <2>1. /\ stage[q] = "waiting" /\ q \notin received /\ q \notin outbox
        /\ UNCHANGED <<backend, nameservers, ask, tried, window, hosts,
                       conn, listener, received, outbox, answers>>
    BY <1>0, <1>2 DEF Take, StreamInv
  <2>2. CASE q \in Garbled /\ stage' = [stage EXCEPT ![q] = "dropped"]
    <3>1. Fates[q] = "pending" /\ Fates' = [Fates EXCEPT ![q] = "lost"]
      BY <1>0, <2>1, <2>2 DEF Fates, Fate, TypeOK
    <3>2. UNCHANGED <<OpenQueries, Got>>
      BY <2>1 DEF OpenQueries, Listening, Got
    <3> QED BY <2>1, <2>2, <3>1, <3>2 DEF Service!Lose
  <2>3. CASE stage' = [stage EXCEPT ![q] = "loaded"]
    <3>1. Unseen
      BY <1>0, <2>1, <2>3, Inside DEF TypeOK
    <3> QED BY <2>1, <3>1 DEF Unseen, Service!svars
  <2> QED BY <1>2, <2>2, <2>3 DEF Take
<1>3. ASSUME Decide(q) \/ ServerAnswers(q)
      PROVE  Service!Lose(q) \/ UNCHANGED Service!svars
  <2>1. /\ stage[q] \in {"loaded", "forwarding"}
        /\ UNCHANGED <<backend, nameservers, ask, tried, window, hosts,
                       conn, listener>>
    BY <1>3 DEF Decide, AnswerLocally, Refuse, EncodeFails, StartForward,
       ServerAnswers
  <2>2. CASE StartForward(q)
    <3>1. Unseen
      BY <1>0, <2>1, <2>2, Inside DEF StartForward, TypeOK
    <3> QED BY <2>1, <3>1 DEF Unseen, Service!svars
  <2>3. CASE EncodeFails(q)
    <3>1. /\ stage[q] = "loaded" /\ q \in Unencodable
          /\ stage' = [stage EXCEPT ![q] = "dropped"]
          /\ q \notin received /\ q \notin outbox
          /\ UNCHANGED <<received, outbox, answers>>
      BY <1>0, <2>3 DEF EncodeFails, StreamInv
    <3>2. Fates[q] = "pending" /\ Fates' = [Fates EXCEPT ![q] = "lost"]
      BY <1>0, <3>1 DEF Fates, Fate, TypeOK
    <3>3. UNCHANGED <<OpenQueries, Got>>
      BY <2>1, <3>1 DEF OpenQueries, Listening, Got
    <3>4. snapshot[q] \in window[q] /\ LocalReplies(snapshot[q], ask[q]) # {}
      BY <1>0, <2>3, LocalReply DEF EncodeFails, WindowInv
    <3> QED BY <2>1, <3>1, <3>2, <3>3, <3>4 DEF Service!Lose
  <2>4. CASE ~StartForward(q) /\ ~EncodeFails(q)
    <3>1. /\ \E r : reply(q, r)
          /\ stage' = [stage EXCEPT ![q] = "replied"]
      BY <1>3, <2>4 DEF Decide, AnswerLocally, Refuse, ServerAnswers
    <3>2. /\ UNCHANGED <<OpenQueries, Got>>
          /\ Fates[q] = "pending"
          /\ IF q \in OpenQueries THEN Fates' = Fates
             ELSE Fates' = [Fates EXCEPT ![q] = "lost"]
      BY <1>0, <2>1, <3>1, Replying
    <3> QED BY <2>1, <3>2 DEF Service!Lose, Service!svars
  <2> QED BY <2>2, <2>3, <2>4
<1>4. ASSUME AskServer(q) PROVE Service!AskServer(q)
  <2>1. PICK s \in todo[q] :
           /\ tried' = [tried EXCEPT ![q] = @ \cup {s}]
           /\ todo' = [todo EXCEPT ![q] = @ \ {s}]
    BY <1>4 DEF AskServer
  <2>2. /\ stage[q] = "forwarding"
        /\ UNCHANGED <<backend, nameservers, ask, window, hosts, stage,
                       conn, listener, received, outbox, answers>>
    BY <1>4 DEF AskServer
  <2>3. PICK h \in hosts[q] : tried[q] \cup todo[q] = ForwardTo(snapshot[q], ask[q], h)
    BY <1>0, <2>2, Forwarded
  <2>4. snapshot[q] \in window[q] /\ LocalReplies(snapshot[q], ask[q]) = {}
    BY <1>0, <2>2, Forwarded
  <2>5. Service!SentOn(q, tried[q] \cup {s}, snapshot[q], h)
    BY <2>1, <2>3, <2>4 DEF Service!SentOn
  <2>6. Fates[q] = "pending"
    BY <1>0, <2>2 DEF Fates, Fate, StreamInv
  <2>7. Unseen
    BY <1>0, <2>2, Inside
  <2>8. s \in ForwardTo(snapshot[q], ask[q], h)
    BY <2>1, <2>3
  <2> QED
    BY <2>1, <2>2, <2>4, <2>5, <2>6, <2>7, <2>8 DEF Unseen, Service!AskServer
<1>5. ASSUME AttemptFails(q) PROVE UNCHANGED Service!svars
  <2>1. Unseen
    BY <1>0, <1>5, Inside DEF AttemptFails
  <2> QED BY <1>5, <2>1 DEF AttemptFails, Unseen, Service!svars
<1>6. ASSUME GiveUp(q) PROVE Service!Lose(q)
  <2>1. /\ stage[q] = "forwarding" /\ todo[q] = {}
        /\ stage' = [stage EXCEPT ![q] = "gaveup"]
        /\ q \notin received /\ q \notin outbox
        /\ UNCHANGED <<backend, nameservers, ask, tried, window, hosts,
                       conn, listener, received, outbox, answers>>
    BY <1>0, <1>6 DEF GiveUp, StreamInv
  <2>2. Fates[q] = "pending" /\ Fates' = [Fates EXCEPT ![q] = "lost"]
    BY <1>0, <2>1 DEF Fates, Fate, TypeOK
  <2>3. UNCHANGED <<OpenQueries, Got>>
    BY <2>1 DEF OpenQueries, Listening, Got
  <2>4. /\ snapshot[q] \in window[q] /\ LocalReplies(snapshot[q], ask[q]) = {}
        /\ \E h \in hosts[q] : tried[q] = ForwardTo(snapshot[q], ask[q], h)
    BY <1>0, <2>1, Forwarded
  <2>5. \E b \in window[q], h \in hosts[q] :
           /\ Service!SentOn(q, tried[q], b, h)
           /\ tried[q] = ForwardTo(b, ask[q], h)
    BY <2>4 DEF Service!SentOn
  <2> QED BY <2>1, <2>2, <2>3, <2>5 DEF Service!Lose
<1>7. ASSUME Flush(q) PROVE Service!Deliver(q)
  <2>1. /\ q \in outbox /\ q \in OpenQueries /\ stage[q] = "replied" /\ q \notin received
        /\ outbox' = outbox \ {q} /\ received' = received \cup {q}
        /\ UNCHANGED <<backend, nameservers, ask, tried, window, hosts,
                       conn, listener, stage, answers>>
    BY <1>0, <1>7 DEF Flush, StreamInv, OpenQueries
  <2>2. Fates[q] = "pending" /\ Fates' = [Fates EXCEPT ![q] = "answered"]
    BY <2>1 DEF Fates, Fate
  <2>3. PICK r \in Replies : answers[q] = {r}
    BY <1>0, <2>1 DEF OneReply
  <2>4. Got' = [Got EXCEPT ![q] = {r}] /\ OpenQueries' = OpenQueries
    BY <2>1, <2>3 DEF Got, OpenQueries, Listening
  <2>5. /\ snapshot[q] \in window[q]
        /\ \E h \in hosts[q] : Right(q, r, snapshot[q], h)
    BY <1>0, <2>1, <2>3 DEF WindowInv, Decided, ReplyInv
  <2>6. CASE tried[q] = {} /\ r \in LocalReplies(snapshot[q], ask[q])
    BY <2>1, <2>2, <2>4, <2>5, <2>6 DEF Service!Deliver
  <2>7. CASE /\ LocalReplies(snapshot[q], ask[q]) = {}
             /\ \E s \in tried[q] : r = Upstream(s)
    <3>1. \E h \in hosts[q] : tried[q] \cup todo[q] = ForwardTo(snapshot[q], ask[q], h)
      BY <1>0, <2>7, Forwarded
    <3>2. \E h \in hosts[q] : Service!SentOn(q, tried[q], snapshot[q], h)
      BY <2>7, <3>1 DEF Service!SentOn
    <3> QED BY <2>1, <2>2, <2>4, <2>5, <2>7, <3>2 DEF Service!Deliver
  <2> QED BY <2>3, <2>6, <2>7 DEF ServiceInv
<1> QED BY <1>1, <1>2, <1>3, <1>4, <1>5, <1>6, <1>7

\* The listener implements its abstract specification: a client gets one reply
\* at most, decided by one store and one list that were current while it waited,
\* and its query is lost only if it is garbled, its answer cannot be encoded, its
\* stream has ended, or every server was asked in vain (coredns.rs:155-343).
THEOREM ListenerImplementsService == Spec => ImplementsService
<1>1. Init => Service!SInit
  <2> SUFFICES ASSUME Init PROVE Service!SInit
    OBVIOUS
  <2>1. ask \in [Query -> Asked]
    BY InitInv DEF IInv, TypeOK
  <2>2. OpenQueries \in SUBSET Query
    BY DEF OpenQueries
  <2>3. /\ Fates = [q \in Query |-> "unsent"]
        /\ Got = [q \in Query |-> {}]
    BY DEF Init, Fates, Fate, Got
  <2> QED BY <2>1, <2>2, <2>3 DEF Init, Service!SInit
<1>2. IInv /\ ServiceInv /\ [Next]_vars => [Service!SNext]_(Service!svars)
  <2> SUFFICES ASSUME IInv, ServiceInv, [Next]_vars
               PROVE  Service!SNext \/ UNCHANGED Service!svars
    OBVIOUS
  <2>0. TypeOK /\ StreamInv
    BY DEF IInv
  <2>1. ASSUME NEW q \in Query,
               \/ SendUdp(q) \/ SendTcp(q)
               \/ TakeUdp(q) \/ TakeTcp(q) \/ Decide(q) \/ Flush(q)
               \/ AskServer(q) \/ ServerAnswers(q) \/ AttemptFails(q) \/ GiveUp(q)
        PROVE  Service!SNext \/ UNCHANGED Service!svars
    BY <2>1, QueryRefines DEF TakeUdp, TakeTcp, Service!SNext
  <2>2. ASSUME NEW c \in Conn, Accept(c) \/ Close(c) \/ IdleTimeout(c)
        PROVE  Service!SNext
    BY <2>0, <2>2, StreamsRefine DEF Service!SNext
  <2>3. CASE PublishBackend \/ SetNameservers \/ LoopEnds
    BY <2>0, <2>3, ChangesRefine, StreamsRefine DEF Service!SNext
  <2>4. CASE StopListener
    <3>1. UNCHANGED Service!svars
      BY <2>0, <2>4 DEF StopListener, configVars, forwardVars, ioVars, historyVars,
         Service!svars, OpenQueries, Listening, Fates, Fate, Got
    <3> QED BY <3>1
  <2>5. CASE UNCHANGED vars
    BY <2>5 DEF vars, configVars, forwardVars, ioVars, historyVars,
       Service!svars, OpenQueries, Listening, Fates, Fate, Got
  <2> QED BY <2>1, <2>2, <2>3, <2>4, <2>5 DEF Next
<1> QED
  BY <1>1, <1>2, ServiceInvariance, PTL DEF Spec, ImplementsService, Service!SSpec
=============================================================================
