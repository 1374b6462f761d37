----------------------------- MODULE DnsService -----------------------------
(***************************************************************************)
(* What a listener of aardvark-dns promises its clients, without saying    *)
(* how: no loop, no tasks, no connections, no channels. A query gets at    *)
(* most one reply; the reply, and the servers the query is sent on to,     *)
(* are those of one store and one list of host servers that were current   *)
(* while it was undecided; and it is lost only if its message was garbled, *)
(* its answer cannot be encoded, its stream has ended, or every server was *)
(* asked in vain.                                                          *)
(***************************************************************************)
CONSTANTS
    Query, Garbled,     \* the queries, those that do not parse, and those
    Unencodable,        \* whose answer from the store cannot be encoded
    Question,           \* what they may ask
    Store, HostList,    \* what the supervisor may set
    Local(_, _),        \* what a store itself replies to a question: one of
                        \* a set, which is empty if the query is sent on ...
    Servers(_, _, _),   \* ... to these, given a list of host servers
    Upstream(_)         \* the reply a server gives

VARIABLES
    store, hostList,    \* the store and the list of this moment
    open,               \* the queries whose stream is there
    question,           \* what each query asks
    fate,               \* "unsent", "pending", "answered" or "lost"
    asked,              \* the servers each query was sent on to
    got,                \* what its client received, or {}
    stores, lists       \* what was current while the query was undecided

svars == <<store, hostList, open, question, fate, asked, got, stores, lists>>

Pending == {q \in Query : fate[q] = "pending"}

SInit ==
    /\ store \in Store
    /\ hostList \in HostList
    /\ open \in SUBSET Query
    /\ question \in [Query -> Question]
    /\ fate = [q \in Query |-> "unsent"]
    /\ asked = [q \in Query |-> {}]
    /\ got = [q \in Query |-> {}]
    /\ stores = [q \in Query |-> {}]
    /\ lists = [q \in Query |-> {}]

-----------------------------------------------------------------------------
\* When a pending query is decided is not said: it may take note of a change
\* or have been decided before.
SetStore ==
    /\ store' \in Store
    /\ \E Q \in SUBSET Pending :
          stores' = [q \in Query |->
             IF q \in Q THEN stores[q] \cup {store'} ELSE stores[q]]
    /\ UNCHANGED <<hostList, open, question, fate, asked, got, lists>>

SetHostList ==
    /\ hostList' \in HostList
    /\ \E Q \in SUBSET Pending :
          lists' = [q \in Query |->
             IF q \in Q THEN lists[q] \cup {hostList'} ELSE lists[q]]
    /\ UNCHANGED <<store, open, question, fate, asked, got, stores>>

\* Streams begin before their queries, and take some of them along.
StreamsBegin ==
    /\ \E Q \in SUBSET {q \in Query : fate[q] = "unsent"} : open' = open \cup Q
    /\ UNCHANGED <<store, hostList, question, fate, asked, got, stores, lists>>

StreamsEnd ==
    /\ \E Q \in SUBSET open : \E L \in SUBSET (Q \cap Pending) :
          /\ open' = open \ Q
          /\ fate' = [q \in Query |-> IF q \in L THEN "lost" ELSE fate[q]]
    /\ UNCHANGED <<store, hostList, question, asked, got, stores, lists>>

Send(q) ==
    /\ fate[q] = "unsent"
    /\ q \in open
    /\ fate' = [fate EXCEPT ![q] = "pending"]
    /\ \E a \in Question : question' = [question EXCEPT ![q] = a]
    /\ stores' = [stores EXCEPT ![q] = {store}]
    /\ lists' = [lists EXCEPT ![q] = {hostList}]
    /\ UNCHANGED <<store, hostList, open, asked, got>>

\* The query may have been sent on to these servers, and to no other.
SentOn(q, servers, b, h) ==
    Local(b, question[q]) = {} /\ servers \subseteq Servers(b, question[q], h)

AskServer(q) ==
    /\ fate[q] = "pending"
    /\ \E b \in stores[q], h \in lists[q] : \E s \in Servers(b, question[q], h) :
          /\ SentOn(q, asked[q] \cup {s}, b, h)
          /\ asked' = [asked EXCEPT ![q] = @ \cup {s}]
    /\ UNCHANGED <<store, hostList, open, question, fate, got, stores, lists>>

\* A query that is answered by the store is not sent on; the reply of a server
\* is one of a server that was asked.
Deliver(q) ==
    /\ fate[q] = "pending"
    /\ q \in open
    /\ \E b \in stores[q], h \in lists[q] :
          \/ /\ asked[q] = {}
             /\ \E r \in Local(b, question[q]) : got' = [got EXCEPT ![q] = {r}]
          \/ /\ SentOn(q, asked[q], b, h)
             /\ \E s \in asked[q] : got' = [got EXCEPT ![q] = {Upstream(s)}]
    /\ fate' = [fate EXCEPT ![q] = "answered"]
    /\ UNCHANGED <<store, hostList, open, question, asked, stores, lists>>

Lose(q) ==
    /\ fate[q] = "pending"
    /\ \/ q \in Garbled
       \/ q \in Unencodable /\ \E b \in stores[q] : Local(b, question[q]) # {}
       \/ q \notin open
       \/ \E b \in stores[q], h \in lists[q] :
             SentOn(q, asked[q], b, h) /\ asked[q] = Servers(b, question[q], h)
    /\ fate' = [fate EXCEPT ![q] = "lost"]
    /\ UNCHANGED <<store, hostList, open, question, asked, got, stores, lists>>

SNext ==
    \/ SetStore \/ SetHostList \/ StreamsBegin \/ StreamsEnd
    \/ \E q \in Query : Send(q) \/ AskServer(q) \/ Deliver(q) \/ Lose(q)

SSpec == SInit /\ [][SNext]_svars
=============================================================================
