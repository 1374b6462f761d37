--------------------------- MODULE CoreDnsProofs ---------------------------
(***************************************************************************)
(* Proofs, for every value of the constants, of the safety properties of   *)
(* the queries of one listener.                                            *)
(***************************************************************************)
EXTENDS CoreDnsProps, TLAPS

\* What the operators of Backend return for a published store and a question
\* some client asks: replies, and sets of name servers.
LEMMA StoreTypes ==
    ASSUME NEW b \in Published, NEW a \in Asked, NEW list \in HostServers
    PROVE  /\ LocalAnswers(b, network_name, a) \subseteq Replies
           /\ NxDomain \in Replies
           /\ ForwardTo(b, a, list) \in SUBSET Server
<1>1. b \in Backends /\ a \in Questions /\ list \in SUBSET Server
  BY QueryAssumption, PublishedAssumption
<1>2. a.from \in Ip
  BY <1>1 DEF Questions
<1>3. NxDomain \in Replies
  BY DEF NxDomain, Replies
<1>4. ForwardTo(b, a, list) \in SUBSET Server
  <2>1. b.ctr_dns_server[a.from] \in {NoDns} \cup SUBSET Server
    BY <1>1, <1>2 DEF Backends
  <2>2. get_network_scoped_resolvers(b, a.from) \subseteq Server
    BY <1>1, <1>2 DEF Backends, get_network_scoped_resolvers
  <2> QED BY <1>1, <2>1, <2>2 DEF ForwardTo
<1>5. CASE a.type = "PTR"
  <2>1. a.target \in Ip
    BY <1>1, <1>5 DEF Questions
  <2>2. reverse_lookup(b, a.from, a.target) \subseteq SUBSET Label
    BY <1>1, <1>2, <2>1 DEF Backends, reverse_lookup
  <2>3. ASSUME NEW names \in SUBSET Label PROVE Answer(names) \in Replies
    <3>1. names \in (SUBSET Ip) \cup (SUBSET Label) \cup (SUBSET Server)
      BY Zenon
    <3> QED BY <3>1, Zenon DEF Answer, Replies
  <2> QED BY <1>3, <1>4, <1>5, <2>2, <2>3 DEF LocalAnswers
<1>6. CASE a.type # "PTR"
  <2>1. \A addresses \in SUBSET Ip : Answer(addresses) \in Replies
    BY DEF Answer, Replies
  <2> DEFINE addresses == lookup(b, a.from, network_name, a.label)
                             \cap (IF a.type = "A" THEN V4 ELSE V6)
  <2>2. addresses \in SUBSET Ip
    BY DEF Ip
  <2>3. LocalAnswers(b, network_name, a) = {Answer(addresses)}
    BY <1>6 DEF LocalAnswers
  <2> QED BY <1>3, <1>4, <2>1, <2>2, <2>3
<1> QED BY <1>5, <1>6

\* The same for a query that has loaded its store.
LEMMA LoadedTypes ==
    ASSUME TypeOK, WindowInv, NEW q \in Query, stage[q] = "loaded"
    PROVE  /\ snapshot[q] \in Published
           /\ LocalAnswers(snapshot[q], network_name, ask[q]) \subseteq Replies
           /\ NxDomain \in Replies
           /\ ForwardTo(snapshot[q], ask[q], nameservers) \in SUBSET Server
<1>1. snapshot[q] \in Published /\ ask[q] \in Asked /\ nameservers \in HostServers
  BY DEF TypeOK, WindowInv
<1> QED BY <1>1, StoreTypes

\* A reply from an upstream server is a reply.
LEMMA UpstreamType ==
    ASSUME NEW server \in Server PROVE Upstream(server) \in Replies
<1>1. {server} \in (SUBSET Ip) \cup (SUBSET Label) \cup (SUBSET Server)
  BY Zenon
<1> QED BY <1>1, Zenon DEF Upstream, Replies

-----------------------------------------------------------------------------
\* In the beginning no query has been asked.
LEMMA InitInv == Init => IInv
<1> SUFFICES ASSUME Init PROVE IInv
  OBVIOUS
<1>1. TypeOK
  <2>1. (CHOOSE a \in Asked : TRUE) \in Asked
    BY QueryAssumption
  <2> QED BY <2>1, BoundAssumption DEF Init, TypeOK, Stages
<1>2. WindowInv /\ ForwardInv
  BY DEF Init, WindowInv, ForwardInv, Pending, Decided
<1>3. OneReply /\ ReplyInv
  BY DEF Init, OneReply, ReplyInv
<1>4. StreamInv
  BY DEF Init, StreamInv
<1> QED BY <1>1, <1>2, <1>3, <1>4 DEF IInv

\* Every step keeps every variable's type.
LEMMA TypeStep ==
    ASSUME TypeOK, WindowInv, [Next]_vars
    PROVE  TypeOK'
<1> USE DEF TypeOK, configVars, forwardVars, ioVars, historyVars,
            Stages, Pending
<1>1. ASSUME NEW q \in Query, SendUdp(q) PROVE TypeOK'
  BY <1>1 DEF SendUdp, Arrive
<1>2. ASSUME NEW q \in Query, SendTcp(q) PROVE TypeOK'
  BY <1>2 DEF SendTcp, Arrive
<1>3. ASSUME NEW q \in Query, TakeUdp(q) PROVE TypeOK'
  BY <1>3 DEF TakeUdp, Take
<1>4. ASSUME NEW q \in Query, TakeTcp(q) PROVE TypeOK'
  BY <1>4 DEF TakeTcp, Take
<1>5. ASSUME NEW q \in Query, AnswerLocally(q) PROVE TypeOK'
  BY <1>5, LoadedTypes DEF AnswerLocally, reply
<1>6. ASSUME NEW q \in Query, Refuse(q) PROVE TypeOK'
  BY <1>6, LoadedTypes DEF Refuse, reply
<1>7. ASSUME NEW q \in Query, StartForward(q) PROVE TypeOK'
  BY <1>7, LoadedTypes DEF StartForward
<1>8. ASSUME NEW q \in Query, Flush(q) PROVE TypeOK'
  BY <1>8 DEF Flush
<1>9. ASSUME NEW q \in Query, AskServer(q) PROVE TypeOK'
  BY <1>9 DEF AskServer
<1>10. ASSUME NEW q \in Query, ServerAnswers(q) PROVE TypeOK'
  BY <1>10, UpstreamType DEF ServerAnswers, reply
<1>11. ASSUME NEW q \in Query, AttemptFails(q) PROVE TypeOK'
  BY <1>11 DEF AttemptFails
<1>12. ASSUME NEW q \in Query, GiveUp(q) PROVE TypeOK'
  BY <1>12 DEF GiveUp
<1>13. ASSUME NEW c \in Conn, Accept(c) PROVE TypeOK'
  BY <1>13 DEF Accept
<1>14. ASSUME NEW c \in Conn, Close(c) PROVE TypeOK'
  BY <1>14 DEF Close, EndConn
<1>15. ASSUME NEW c \in Conn, IdleTimeout(c) PROVE TypeOK'
  BY <1>15 DEF IdleTimeout, EndConn
<1>16. CASE PublishBackend
  <2>1. window' \in [Query -> SUBSET Published]
    BY <1>16 DEF PublishBackend
  <2>2. reloads' \in 0..MaxReloads /\ backend' \in Published
    BY <1>16, BoundAssumption DEF PublishBackend
  <2> QED BY <1>16, <2>1, <2>2 DEF PublishBackend
<1>17. CASE SetNameservers
  <2>1. hosts' \in [Query -> SUBSET HostServers]
    BY <1>17 DEF SetNameservers
  <2>2. reloads' \in 0..MaxReloads /\ nameservers' \in HostServers
    BY <1>17, BoundAssumption DEF SetNameservers
  <2> QED BY <1>17, <2>1, <2>2 DEF SetNameservers
<1>18. CASE StopListener
  BY <1>18 DEF StopListener
<1>19. CASE LoopEnds
  BY <1>19 DEF LoopEnds
<1>20. ASSUME NEW q \in Query, EncodeFails(q) PROVE TypeOK'
  BY <1>20 DEF EncodeFails
<1>21. CASE UNCHANGED vars
  BY <1>21 DEF vars
<1> QED
  BY <1>1, <1>2, <1>3, <1>4, <1>5, <1>6, <1>7, <1>8, <1>9, <1>10,
     <1>11, <1>12, <1>13, <1>14, <1>15, <1>16, <1>17, <1>18, <1>19, <1>20, <1>21
  DEF Next, Decide

\* A query is decided by a store, and sent to a list, of its window: the
\* supervisor adds to the windows of the queries that are still undecided.
LEMMA WindowStep ==
    ASSUME TypeOK, WindowInv, [Next]_vars
    PROVE  WindowInv'
<1> USE DEF TypeOK, WindowInv, Decided, Pending, configVars,
            forwardVars, ioVars, historyVars, Stages
<1>1. ASSUME NEW q \in Query, SendUdp(q) PROVE WindowInv'
  BY <1>1 DEF SendUdp, Arrive
<1>2. ASSUME NEW q \in Query, SendTcp(q) PROVE WindowInv'
  BY <1>2 DEF SendTcp, Arrive
<1>3. ASSUME NEW q \in Query, TakeUdp(q) PROVE WindowInv'
  BY <1>3 DEF TakeUdp, Take
<1>4. ASSUME NEW q \in Query, TakeTcp(q) PROVE WindowInv'
  BY <1>4 DEF TakeTcp, Take
<1>5. ASSUME NEW q \in Query, AnswerLocally(q) PROVE WindowInv'
  BY <1>5 DEF AnswerLocally, reply
<1>6. ASSUME NEW q \in Query, Refuse(q) PROVE WindowInv'
  BY <1>6 DEF Refuse, reply
<1>7. ASSUME NEW q \in Query, StartForward(q) PROVE WindowInv'
  BY <1>7 DEF StartForward
<1>8. ASSUME NEW q \in Query, Flush(q) PROVE WindowInv'
  BY <1>8 DEF Flush
<1>9. ASSUME NEW q \in Query, AskServer(q) PROVE WindowInv'
  BY <1>9 DEF AskServer
<1>10. ASSUME NEW q \in Query, ServerAnswers(q) PROVE WindowInv'
  BY <1>10 DEF ServerAnswers, reply
<1>11. ASSUME NEW q \in Query, AttemptFails(q) PROVE WindowInv'
  BY <1>11 DEF AttemptFails
<1>12. ASSUME NEW q \in Query, GiveUp(q) PROVE WindowInv'
  BY <1>12 DEF GiveUp
<1>13. ASSUME NEW c \in Conn, Accept(c) PROVE WindowInv'
  BY <1>13 DEF Accept
<1>14. ASSUME NEW c \in Conn, Close(c) PROVE WindowInv'
  BY <1>14 DEF Close, EndConn
<1>15. ASSUME NEW c \in Conn, IdleTimeout(c) PROVE WindowInv'
  BY <1>15 DEF IdleTimeout, EndConn
<1>16. CASE PublishBackend
  BY <1>16 DEF PublishBackend
<1>17. CASE SetNameservers
  BY <1>17 DEF SetNameservers
<1>18. CASE StopListener
  BY <1>18 DEF StopListener
<1>19. CASE LoopEnds
  BY <1>19 DEF LoopEnds
<1>20. ASSUME NEW q \in Query, EncodeFails(q) PROVE WindowInv'
  BY <1>20 DEF EncodeFails
<1>21. CASE UNCHANGED vars
  BY <1>21 DEF vars
<1> QED
  BY <1>1, <1>2, <1>3, <1>4, <1>5, <1>6, <1>7, <1>8, <1>9, <1>10,
     <1>11, <1>12, <1>13, <1>14, <1>15, <1>16, <1>17, <1>18, <1>19, <1>20, <1>21
  DEF Next, Decide

\* Servers only move from todo to tried.
LEMMA ForwardStep ==
    ASSUME TypeOK, WindowInv, ForwardInv, [Next]_vars
    PROVE  ForwardInv'
<1> USE DEF TypeOK, ForwardInv, Decided, configVars, forwardVars,
            ioVars, historyVars, Stages
<1>1. ASSUME NEW q \in Query, SendUdp(q) PROVE ForwardInv'
  BY <1>1 DEF SendUdp, Arrive
<1>2. ASSUME NEW q \in Query, SendTcp(q) PROVE ForwardInv'
  BY <1>2 DEF SendTcp, Arrive
<1>3. ASSUME NEW q \in Query, TakeUdp(q) PROVE ForwardInv'
  BY <1>3 DEF TakeUdp, Take
<1>4. ASSUME NEW q \in Query, TakeTcp(q) PROVE ForwardInv'
  BY <1>4 DEF TakeTcp, Take
<1>5. ASSUME NEW q \in Query, AnswerLocally(q) PROVE ForwardInv'
  BY <1>5 DEF AnswerLocally, reply
<1>6. ASSUME NEW q \in Query, Refuse(q) PROVE ForwardInv'
  BY <1>6 DEF Refuse, reply
<1>7. ASSUME NEW q \in Query, StartForward(q) PROVE ForwardInv'
  <2>1. nameservers \in hosts[q] /\ tried[q] = {} /\ asking[q] = NoServer
    BY <1>7 DEF StartForward, WindowInv, Pending
  <2>2. todo'[q] = ForwardTo(snapshot[q], ask[q], nameservers)
    BY <1>7 DEF StartForward
  <2>3. ASSUME NEW p \in Query, p # q
        PROVE  todo'[p] = todo[p] /\ stage'[p] = stage[p]
    BY <1>7, <2>3 DEF StartForward
  <2> QED BY <1>7, <2>1, <2>2, <2>3 DEF StartForward
<1>8. ASSUME NEW q \in Query, Flush(q) PROVE ForwardInv'
  BY <1>8 DEF Flush
<1>9. ASSUME NEW q \in Query, AskServer(q) PROVE ForwardInv'
  BY <1>9 DEF AskServer
<1>10. ASSUME NEW q \in Query, ServerAnswers(q) PROVE ForwardInv'
  BY <1>10 DEF ServerAnswers, reply
<1>11. ASSUME NEW q \in Query, AttemptFails(q) PROVE ForwardInv'
  BY <1>11 DEF AttemptFails
<1>12. ASSUME NEW q \in Query, GiveUp(q) PROVE ForwardInv'
  BY <1>12 DEF GiveUp
<1>13. ASSUME NEW c \in Conn, Accept(c) PROVE ForwardInv'
  BY <1>13 DEF Accept
<1>14. ASSUME NEW c \in Conn, Close(c) PROVE ForwardInv'
  BY <1>14 DEF Close, EndConn
<1>15. ASSUME NEW c \in Conn, IdleTimeout(c) PROVE ForwardInv'
  BY <1>15 DEF IdleTimeout, EndConn
<1>16. CASE PublishBackend
  BY <1>16 DEF PublishBackend
<1>17. CASE SetNameservers
  BY <1>17 DEF SetNameservers
<1>18. CASE StopListener
  BY <1>18 DEF StopListener
<1>19. CASE LoopEnds
  BY <1>19 DEF LoopEnds
<1>20. ASSUME NEW q \in Query, EncodeFails(q) PROVE ForwardInv'
  BY <1>20 DEF EncodeFails
<1>21. CASE UNCHANGED vars
  BY <1>21 DEF vars
<1> QED
  BY <1>1, <1>2, <1>3, <1>4, <1>5, <1>6, <1>7, <1>8, <1>9, <1>10,
     <1>11, <1>12, <1>13, <1>14, <1>15, <1>16, <1>17, <1>18, <1>19, <1>20, <1>21
  DEF Next, Decide

\* A query is replied to once, on its way to the stage that says so.
LEMMA OneReplyStep ==
    ASSUME TypeOK, WindowInv, OneReply, [Next]_vars
    PROVE  OneReply'
<1> USE DEF TypeOK, OneReply, configVars, forwardVars, ioVars,
            historyVars, Stages
<1>1. ASSUME NEW q \in Query, SendUdp(q) PROVE OneReply'
  BY <1>1 DEF SendUdp, Arrive
<1>2. ASSUME NEW q \in Query, SendTcp(q) PROVE OneReply'
  BY <1>2 DEF SendTcp, Arrive
<1>3. ASSUME NEW q \in Query, TakeUdp(q) PROVE OneReply'
  BY <1>3 DEF TakeUdp, Take
<1>4. ASSUME NEW q \in Query, TakeTcp(q) PROVE OneReply'
  BY <1>4 DEF TakeTcp, Take
<1>5. ASSUME NEW q \in Query, AnswerLocally(q) PROVE OneReply'
  BY <1>5, LoadedTypes DEF AnswerLocally, reply
<1>6. ASSUME NEW q \in Query, Refuse(q) PROVE OneReply'
  BY <1>6, LoadedTypes DEF Refuse, reply
<1>7. ASSUME NEW q \in Query, StartForward(q) PROVE OneReply'
  BY <1>7 DEF StartForward
<1>8. ASSUME NEW q \in Query, Flush(q) PROVE OneReply'
  BY <1>8 DEF Flush
<1>9. ASSUME NEW q \in Query, AskServer(q) PROVE OneReply'
  BY <1>9 DEF AskServer
<1>10. ASSUME NEW q \in Query, ServerAnswers(q) PROVE OneReply'
  BY <1>10, UpstreamType DEF ServerAnswers, reply
<1>11. ASSUME NEW q \in Query, AttemptFails(q) PROVE OneReply'
  BY <1>11 DEF AttemptFails
<1>12. ASSUME NEW q \in Query, GiveUp(q) PROVE OneReply'
  BY <1>12 DEF GiveUp
<1>13. ASSUME NEW c \in Conn, Accept(c) PROVE OneReply'
  BY <1>13 DEF Accept
<1>14. ASSUME NEW c \in Conn, Close(c) PROVE OneReply'
  BY <1>14 DEF Close, EndConn
<1>15. ASSUME NEW c \in Conn, IdleTimeout(c) PROVE OneReply'
  BY <1>15 DEF IdleTimeout, EndConn
<1>16. CASE PublishBackend
  BY <1>16 DEF PublishBackend
<1>17. CASE SetNameservers
  BY <1>17 DEF SetNameservers
<1>18. CASE StopListener
  BY <1>18 DEF StopListener
<1>19. CASE LoopEnds
  BY <1>19 DEF LoopEnds
<1>20. ASSUME NEW q \in Query, EncodeFails(q) PROVE OneReply'
  BY <1>20 DEF EncodeFails
<1>21. CASE UNCHANGED vars
  BY <1>21 DEF vars
<1> QED
  BY <1>1, <1>2, <1>3, <1>4, <1>5, <1>6, <1>7, <1>8, <1>9, <1>10,
     <1>11, <1>12, <1>13, <1>14, <1>15, <1>16, <1>17, <1>18, <1>19, <1>20, <1>21
  DEF Next, Decide

\* The reply is given by the store and the list the query was decided with.
LEMMA ReplyStep ==
    ASSUME TypeOK, WindowInv, ForwardInv, ReplyInv, OneReply, [Next]_vars
    PROVE  ReplyInv'
<1> USE DEF TypeOK, ReplyInv, configVars, forwardVars, ioVars,
            historyVars, Stages, Right, OneReply
<1>1. ASSUME NEW q \in Query, SendUdp(q) PROVE ReplyInv'
  BY <1>1 DEF SendUdp, Arrive
<1>2. ASSUME NEW q \in Query, SendTcp(q) PROVE ReplyInv'
  BY <1>2 DEF SendTcp, Arrive
<1>3. ASSUME NEW q \in Query, TakeUdp(q) PROVE ReplyInv'
  BY <1>3 DEF TakeUdp, Take
<1>4. ASSUME NEW q \in Query, TakeTcp(q) PROVE ReplyInv'
  BY <1>4 DEF TakeTcp, Take
<1>5. ASSUME NEW q \in Query, AnswerLocally(q) PROVE ReplyInv'
  <2>1. PICK r \in LocalAnswers(snapshot[q], network_name, ask[q]) :
            answers' = [answers EXCEPT ![q] = @ \cup {r}]
    BY <1>5 DEF AnswerLocally, reply
  <2>2. nameservers \in hosts[q] /\ answers[q] = {}
    BY <1>5 DEF AnswerLocally, WindowInv, Pending
  <2>3. Right(q, r, snapshot[q], nameservers)
    BY <1>5 DEF AnswerLocally
  <2> QED BY <1>5, <2>1, <2>2, <2>3 DEF AnswerLocally
<1>6. ASSUME NEW q \in Query, Refuse(q) PROVE ReplyInv'
  <2>1. nameservers \in hosts[q] /\ answers[q] = {}
    BY <1>6 DEF Refuse, WindowInv, Pending
  <2>2. Right(q, NxDomain, snapshot[q], nameservers)
    BY <1>6 DEF Refuse
  <2> QED BY <1>6, <2>1, <2>2 DEF Refuse, reply
<1>7. ASSUME NEW q \in Query, StartForward(q) PROVE ReplyInv'
  BY <1>7 DEF StartForward
<1>8. ASSUME NEW q \in Query, Flush(q) PROVE ReplyInv'
  BY <1>8 DEF Flush
<1>9. ASSUME NEW q \in Query, AskServer(q) PROVE ReplyInv'
  BY <1>9 DEF AskServer
<1>10. ASSUME NEW q \in Query, ServerAnswers(q) PROVE ReplyInv'
  <2>1. answers[q] = {} /\ asking[q] \in tried[q]
    BY <1>10 DEF ServerAnswers, ForwardInv
  <2>2. PICK list \in hosts[q] : Right(q, Upstream(asking[q]), snapshot[q], list)
    BY <1>10, <2>1 DEF ServerAnswers, ForwardInv
  <2> QED BY <1>10, <2>1, <2>2 DEF ServerAnswers, reply
<1>11. ASSUME NEW q \in Query, AttemptFails(q) PROVE ReplyInv'
  BY <1>11 DEF AttemptFails
<1>12. ASSUME NEW q \in Query, GiveUp(q) PROVE ReplyInv'
  BY <1>12 DEF GiveUp
<1>13. ASSUME NEW c \in Conn, Accept(c) PROVE ReplyInv'
  BY <1>13 DEF Accept
<1>14. ASSUME NEW c \in Conn, Close(c) PROVE ReplyInv'
  BY <1>14 DEF Close, EndConn
<1>15. ASSUME NEW c \in Conn, IdleTimeout(c) PROVE ReplyInv'
  BY <1>15 DEF IdleTimeout, EndConn
<1>16. CASE PublishBackend
  BY <1>16 DEF PublishBackend
<1>17. CASE SetNameservers
  BY <1>17 DEF SetNameservers
<1>18. CASE StopListener
  BY <1>18 DEF StopListener
<1>19. CASE LoopEnds
  BY <1>19 DEF LoopEnds
<1>20. ASSUME NEW q \in Query, EncodeFails(q) PROVE ReplyInv'
  BY <1>20 DEF EncodeFails
<1>21. CASE UNCHANGED vars
  BY <1>21 DEF vars
<1> QED
  BY <1>1, <1>2, <1>3, <1>4, <1>5, <1>6, <1>7, <1>8, <1>9, <1>10,
     <1>11, <1>12, <1>13, <1>14, <1>15, <1>16, <1>17, <1>18, <1>19, <1>20, <1>21
  DEF Next, Decide

\* A stream takes what waits in its channel with it when it ends.
LEMMA StreamStep ==
    ASSUME TypeOK, StreamInv, [Next]_vars
    PROVE  StreamInv'
<1> USE DEF TypeOK, StreamInv, Listening, OnConn,
            configVars, forwardVars, ioVars, historyVars, Stages
<1>1. ASSUME NEW q \in Query, SendUdp(q) PROVE StreamInv'
  BY <1>1 DEF SendUdp, Arrive
<1>2. ASSUME NEW q \in Query, SendTcp(q) PROVE StreamInv'
  BY <1>2 DEF SendTcp, Arrive
<1>3. ASSUME NEW q \in Query, TakeUdp(q) PROVE StreamInv'
  BY <1>3 DEF TakeUdp, Take
<1>4. ASSUME NEW q \in Query, TakeTcp(q) PROVE StreamInv'
  BY <1>4 DEF TakeTcp, Take
<1>5. ASSUME NEW q \in Query, AnswerLocally(q) PROVE StreamInv'
  BY <1>5, LoadedTypes DEF AnswerLocally, reply
<1>6. ASSUME NEW q \in Query, Refuse(q) PROVE StreamInv'
  BY <1>6, LoadedTypes DEF Refuse, reply
<1>7. ASSUME NEW q \in Query, StartForward(q) PROVE StreamInv'
  BY <1>7 DEF StartForward
<1>8. ASSUME NEW q \in Query, Flush(q) PROVE StreamInv'
  BY <1>8 DEF Flush
<1>9. ASSUME NEW q \in Query, AskServer(q) PROVE StreamInv'
  BY <1>9 DEF AskServer
<1>10. ASSUME NEW q \in Query, ServerAnswers(q) PROVE StreamInv'
  BY <1>10, UpstreamType DEF ServerAnswers, reply
<1>11. ASSUME NEW q \in Query, AttemptFails(q) PROVE StreamInv'
  BY <1>11 DEF AttemptFails
<1>12. ASSUME NEW q \in Query, GiveUp(q) PROVE StreamInv'
  BY <1>12 DEF GiveUp
<1>13. ASSUME NEW c \in Conn, Accept(c) PROVE StreamInv'
  BY <1>13 DEF Accept
<1>14. ASSUME NEW c \in Conn, Close(c) PROVE StreamInv'
  BY <1>14 DEF Close, EndConn
<1>15. ASSUME NEW c \in Conn, IdleTimeout(c) PROVE StreamInv'
  BY <1>15 DEF IdleTimeout, EndConn
<1>16. CASE PublishBackend
  BY <1>16 DEF PublishBackend
<1>17. CASE SetNameservers
  BY <1>17 DEF SetNameservers
<1>18. CASE StopListener
  BY <1>18 DEF StopListener
<1>19. CASE LoopEnds
  BY <1>19 DEF LoopEnds
<1>20. ASSUME NEW q \in Query, EncodeFails(q) PROVE StreamInv'
  BY <1>20 DEF EncodeFails
<1>21. CASE UNCHANGED vars
  BY <1>21 DEF vars
<1> QED
  BY <1>1, <1>2, <1>3, <1>4, <1>5, <1>6, <1>7, <1>8, <1>9, <1>10,
     <1>11, <1>12, <1>13, <1>14, <1>15, <1>16, <1>17, <1>18, <1>19, <1>20, <1>21
  DEF Next, Decide
-----------------------------------------------------------------------------
\* The inductive invariant holds throughout.
THEOREM Invariance == Spec => []IInv
<1>1. IInv /\ [Next]_vars => IInv'
  BY TypeStep, WindowStep, ForwardStep, OneReplyStep, ReplyStep, StreamStep
  DEF IInv
<1> QED BY InitInv, <1>1, PTL DEF Spec

\* Every reachable state is well typed.
THEOREM TypeCorrect == Spec => []TypeOK
<1>1. IInv => TypeOK
  BY DEF IInv
<1> QED BY Invariance, <1>1, PTL

\* No query is ever replied to twice, whatever its servers do and however
\* many there are.
THEOREM RepliedOnce == Spec => []OneReply
<1>1. IInv => OneReply
  BY DEF IInv
<1> QED BY Invariance, <1>1, PTL

\* Every reply follows from one store and one host list that were current
\* while the query waited: the invariant knows which, the store the query
\* loaded.
THEOREM RepliesCurrent == Spec => []RepliesAreCurrent
<1>1. IInv => RepliesAreCurrent
  <2> SUFFICES ASSUME IInv, NEW q \in Query, NEW r \in Replies, r \in answers[q]
               PROVE  \E b \in window[q] : \E h \in hosts[q] : Right(q, r, b, h)
    BY DEF RepliesAreCurrent
  <2>1. snapshot[q] \in window[q]
    BY DEF IInv, OneReply, WindowInv, Decided
  <2>2. PICK h \in hosts[q] : Right(q, r, snapshot[q], h)
    BY DEF IInv, ReplyInv
  <2> QED BY <2>1, <2>2
<1> QED BY Invariance, <1>1, PTL

\* No server is asked on behalf of a container in internal networks only,
\* and none at all without the proxy.
THEOREM InternalContained == Spec => []InternalStaysInside
<1>1. IInv => InternalStaysInside
  <2> SUFFICES ASSUME IInv, NEW q \in Query, tried[q] # {}
               PROVE  /\ ~no_proxy
                      /\ \E b \in window[q] :
                            \/ b.ip_mappings[ask[q].from] = {}
                            \/ \E n \in b.ip_mappings[ask[q].from] :
                                  b.network_is_internal[n] = "external"
    BY DEF InternalStaysInside
  <2>1. snapshot[q] \in window[q] /\ MayForward(snapshot[q], ask[q], no_proxy)
    BY DEF IInv, ForwardInv, WindowInv
  <2>2. ~ctr_is_internal(snapshot[q], ask[q].from)
    BY <2>1 DEF MayForward
  <2> QED BY <2>1, <2>2 DEF MayForward, ctr_is_internal
<1> QED BY Invariance, <1>1, PTL

\* A query is given up only after all servers of its list, and no other
\* server ever sees it.
THEOREM AllServersTried == Spec => []EveryServerTried
<1>1. IInv => EveryServerTried
  <2> SUFFICES ASSUME IInv, NEW q \in Query, tried[q] # {} \/ stage[q] = "gaveup"
               PROVE  \E b \in window[q] : \E h \in hosts[q] :
                          LET list == ForwardTo(b, ask[q], h)
                          IN  /\ tried[q] \subseteq list
                              /\ stage[q] = "gaveup" => tried[q] = list
    BY DEF EveryServerTried
  <2>1. snapshot[q] \in window[q]
    BY DEF IInv, ForwardInv, WindowInv
  <2>2. PICK h \in hosts[q] :
            tried[q] \cup todo[q] = ForwardTo(snapshot[q], ask[q], h)
    BY DEF IInv, ForwardInv
  <2>3. stage[q] = "gaveup" => todo[q] = {}
    BY DEF IInv, ForwardInv
  <2> QED BY <2>1, <2>2, <2>3
<1> QED BY Invariance, <1>1, PTL
=============================================================================
