-------------------------- MODULE ResolvConfProofs --------------------------
(***************************************************************************)
(* Proofs, for all contents of resolv.conf and any number of changes, of   *)
(* when the list of name servers is that of the file, and of what the      *)
(* parser makes of a text: by induction over its lines.                    *)
(***************************************************************************)
EXTENDS ResolvConfProps, TLAPS, FiniteSetTheorems

-----------------------------------------------------------------------------
(* What the parser makes of a text.                                        *)

\* Induction over an interval, for a set of numbers: a set that has 0 and each
\* next number, but not k, would be mapped into a smaller one by adding 1.
LEMMA Induction ==
    ASSUME NEW S, NEW k \in Nat, 0 \in S,
           \A n \in 0..(k - 1) : n \in S => n + 1 \in S
    PROVE  k \in S
<1> SUFFICES ASSUME k \notin S PROVE FALSE
  OBVIOUS
<1> DEFINE D == S \cap (0..k)
           next == [n \in D |-> n + 1]
<1>1. IsFiniteSet(0..k) /\ D \in SUBSET (0..k) /\ 0 \in D
  BY FS_Interval
<1>2. next \in [D -> D \ {0}]
  OBVIOUS
<1>3. \A x, y \in D : next[x] = next[y] => x = y
  OBVIOUS
<1> HIDE DEF D, next
<1>4. IsFiniteSet(D)
  BY <1>1, FS_Subset
<1>5. /\ IsFiniteSet(D \ {0}) /\ Cardinality(D) \in Nat
      /\ Cardinality(D \ {0}) = Cardinality(D) - 1
  BY <1>1, <1>4, FS_RemoveElement, FS_CardinalityType
<1>6. PICK x, y \in D : x # y /\ next[x] = next[y]
  BY <1>2, <1>4, <1>5, FS_PigeonHole
<1> QED BY <1>3, <1>6

\* The recursion over the lines defines a function (serve.rs:432-484).
LEMMA FoundDef ==
    ASSUME NEW t, Len(t) \in Nat
    PROVE  /\ Found(t)[0] = <<>>
           /\ \A n \in 0..(Len(t) - 1) :
                 Found(t)[n + 1] = Push(Found(t)[n], t[n + 1])
<1> DEFINE Loop(f, m) ==
              f = [n \in 0..m |-> IF n = 0 THEN <<>> ELSE Push(f[n - 1], t[n])]
           S == {m \in Nat : \E f : Loop(f, m)}
<1>1. 0 \in S
  <2> DEFINE f == [n \in 0..0 |-> <<>>]
  <2>1. Loop(f, 0)
    OBVIOUS
  <2> QED BY <2>1
<1>2. ASSUME NEW m \in Nat, m \in S PROVE m + 1 \in S
  <2>1. PICK f : Loop(f, m)
    BY <1>2
  <2> DEFINE g == [n \in 0..(m + 1) |->
                      IF n = m + 1 THEN Push(f[m], t[m + 1]) ELSE f[n]]
  <2>2. \A n \in 0..(m + 1) :
           g[n] = IF n = 0 THEN <<>> ELSE Push(g[n - 1], t[n])
    BY <2>1
  <2>3. Loop(g, m + 1)
    BY <2>2
  <2> HIDE DEF Loop
  <2> QED BY <2>3
<1>3. \E f : Loop(f, Len(t))
  <2> HIDE DEF Loop
  <2>1. Len(t) \in S
    <3> HIDE DEF S
    <3> QED BY <1>1, <1>2, Induction
  <2> QED BY <2>1
<1>4. Found(t) = CHOOSE f : Loop(f, Len(t))
  BY DEF Found
<1>5. Loop(Found(t), Len(t))
  <2> HIDE DEF Loop
  <2> QED BY <1>3, <1>4
<1> QED BY <1>5

\* A line of a text, as the parser sees it.
IsServerLine(line) == line.first = "nameserver" /\ line.rest # <<>>
Named(line) == <<line.rest[1].ip, Scope(line.rest[1])>>

\* One turn of the loop, case by case.
LEMMA PushCases ==
    ASSUME NEW t \in Text, NEW i \in DOMAIN t,
           NEW list, list = Rejected \/ list \in Seq(NameServer)
    PROVE  /\ list = Rejected \/ ~IsServerLine(t[i]) => Push(list, t[i]) = list
           /\ list # Rejected /\ IsServerLine(t[i]) =>
                 IF WellFormed(t[i].rest[1])
                 THEN /\ Named(t[i]) \in NameServer
                      /\ Push(list, t[i]) = Append(list, Named(t[i]))
                 ELSE Push(list, t[i]) = Rejected
<1> DEFINE line == t[i]
           w == line.rest[1]
<1>1. CASE list = Rejected \/ ~IsServerLine(line)
  BY <1>1 DEF Push, IsServerLine
<1>2. CASE list # Rejected /\ IsServerLine(line)
  <2>1. Head(line.rest) = w /\ w \in Range(line.rest)
    <3> DEFINE R == Range(line.rest)
    <3>1. line.rest \in Seq(R) /\ line.rest # <<>>
      BY <1>2, TextAssumption DEF IsServerLine
    <3>2. 1 \in DOMAIN line.rest
      <4> HIDE DEF R, line
      <4> QED BY <3>1
    <3>3. Head(line.rest) = w
      <4> HIDE DEF R
      <4> QED BY <3>1
    <3> QED BY <3>2, <3>3 DEF Range
  <2>2. w.zone \in Zone \cup {NoZone}
    BY <2>1, TextAssumption
  <2>3. CASE WellFormed(w)
    <3>1. Scope(w) \in {0} \cup Range(ScopeId) /\ (w.ip \notin V4 \/ w.zone # NoZone => w.ip \in V6 /\ Scope(w) # NoScope)
      BY <2>2, <2>3, ScopeAssumption DEF Scope, WellFormed, Range
    <3>2. <<w.ip, Scope(w)>> \in NameServer
      BY <2>3, <3>1 DEF WellFormed, NameServer
    <3>3. Address(w) = <<w.ip, Scope(w)>>
      BY <3>1, <2>3 DEF Address, WellFormed
    <3> QED BY <1>2, <2>1, <2>3, <3>2, <3>3, RejectedAssumption DEF Push, IsServerLine, Named
  <2>4. CASE ~WellFormed(w)
    <3>1. Address(w) = Rejected
      BY <2>2, <2>4 DEF Address, Scope, WellFormed
    <3> QED BY <1>2, <2>1, <2>4, <3>1 DEF Push, IsServerLine
  <2> QED BY <2>3, <2>4
<1> QED BY <1>1, <1>2

\* The server lines among the first n, and what must have been found in them.
Upto(t, n) == {i \in ServerLines(t) : i <= n}
FoundFirst(t, n) ==
    LET list == Found(t)[n]
    IN  IF \A i \in Upto(t, n) : WellFormed(t[i].rest[1])
        THEN /\ list \in Seq(NameServer)
             /\ Len(list) = Cardinality(Upto(t, n))
             /\ \A i \in Upto(t, n) :
                   Rank(t, i) \in 1..Len(list) /\ list[Rank(t, i)] = Named(t[i])
        ELSE list = Rejected

LEMMA TextFacts ==
    ASSUME NEW t \in Text
    PROVE  /\ Len(t) \in Nat /\ DOMAIN t = 1..Len(t)
           /\ \A n \in 0..Len(t) :
                 IsFiniteSet(Upto(t, n)) /\ Cardinality(Upto(t, n)) \in Nat
<1> DEFINE S == Range(t)
<1>1. t \in Seq(S)
  BY TextAssumption
<1>2. Len(t) \in Nat /\ DOMAIN t = 1..Len(t)
  <2> HIDE DEF S
  <2> QED BY <1>1
<1>3. ASSUME NEW n \in 0..Len(t)
      PROVE  IsFiniteSet(Upto(t, n)) /\ Cardinality(Upto(t, n)) \in Nat
  <2>1. Upto(t, n) \in SUBSET (1..n) /\ n \in Int
    BY <1>2 DEF Upto, ServerLines
  <2>2. IsFiniteSet(1..n)
    BY <2>1, FS_Interval
  <2> QED BY <2>1, <2>2, FS_Subset, FS_CardinalityType
<1> QED BY <1>2, <1>3

LEMMA FoundStep ==
    ASSUME NEW t \in Text, NEW n \in 0..(Len(t) - 1), FoundFirst(t, n)
    PROVE  FoundFirst(t, n + 1)
<1> DEFINE m == n + 1
           list == Found(t)[n]
<1>1. /\ m \in DOMAIN t /\ m \in 1..Len(t) /\ n \in 0..Len(t) /\ n \in Nat
      /\ Found(t)[m] = Push(list, t[m])
  BY TextFacts, FoundDef
<1>2. list = Rejected \/ list \in Seq(NameServer)
  BY DEF FoundFirst
<1>3. IsServerLine(t[m]) <=> m \in ServerLines(t)
  BY <1>1 DEF IsServerLine, ServerLines
<1>4. CASE m \notin ServerLines(t)
  <2>1. Upto(t, m) = Upto(t, n)
    BY <1>1, <1>4, TextFacts DEF Upto, ServerLines
  <2>2. Found(t)[m] = list
    BY <1>1, <1>2, <1>3, <1>4, PushCases
  <2> QED BY <2>1, <2>2 DEF FoundFirst
<1>5. CASE m \in ServerLines(t)
  <2>1. Upto(t, m) = Upto(t, n) \cup {m} /\ m \notin Upto(t, n)
    BY <1>1, <1>5, TextFacts DEF Upto, ServerLines
  <2>2. Cardinality(Upto(t, m)) = Cardinality(Upto(t, n)) + 1
    BY <1>1, <2>1, TextFacts, FS_AddElement
  <2>3. CASE ~ \A i \in Upto(t, m) : WellFormed(t[i].rest[1])
    BY <1>1, <1>2, <1>3, <1>5, <2>1, <2>3, PushCases DEF FoundFirst
  <2>4. CASE \A i \in Upto(t, m) : WellFormed(t[i].rest[1])
    <3>1. /\ list \in Seq(NameServer) /\ Len(list) = Cardinality(Upto(t, n))
          /\ \A i \in Upto(t, n) :
                Rank(t, i) \in 1..Len(list) /\ list[Rank(t, i)] = Named(t[i])
      BY <2>1, <2>4 DEF FoundFirst
    <3>2. Named(t[m]) \in NameServer /\ Found(t)[m] = Append(list, Named(t[m]))
      BY <1>1, <1>3, <1>5, <2>1, <2>4, <3>1, PushCases, RejectedAssumption
    <3>3. /\ Found(t)[m] \in Seq(NameServer)
          /\ Len(Found(t)[m]) = Len(list) + 1
          /\ Found(t)[m][Len(list) + 1] = Named(t[m])
          /\ \A k \in 1..Len(list) : Found(t)[m][k] = list[k]
      BY <3>1, <3>2
    <3>4. Rank(t, m) = Len(list) + 1
      BY <2>2, <3>1 DEF Rank, Upto
    <3>5. ASSUME NEW i \in Upto(t, m)
          PROVE  /\ Rank(t, i) \in 1..Len(Found(t)[m])
                 /\ Found(t)[m][Rank(t, i)] = Named(t[i])
      <4>1. CASE i = m
        BY <3>3, <3>4, <4>1, <3>1
      <4>2. CASE i \in Upto(t, n)
        <5> DEFINE k == Rank(t, i)
        <5>1. k \in 1..Len(list) /\ list[k] = Named(t[i])
          BY <3>1, <4>2
        <5>2. Len(list) \in Nat
          BY <3>1
        <5> HIDE DEF k
        <5>3. k \in 1..(Len(list) + 1) /\ Found(t)[m][k] = list[k]
          BY <3>3, <5>1, <5>2
        <5> QED BY <3>3, <5>1, <5>3 DEF k
      <4> QED BY <2>1, <4>1, <4>2
    <3> QED BY <2>2, <2>4, <3>1, <3>3, <3>5 DEF FoundFirst
  <2> QED BY <2>3, <2>4
<1> QED BY <1>4, <1>5

LEMMA FoundAll == ASSUME NEW t \in Text PROVE FoundFirst(t, Len(t))
<1> DEFINE S == {n \in 0..Len(t) : FoundFirst(t, n)}
<1>0. Len(t) \in Nat
  BY TextFacts
<1>1. 0 \in S
  <2>1. Upto(t, 0) = {}
    BY TextFacts DEF Upto, ServerLines
  <2>2. Found(t)[0] = <<>> /\ <<>> \in Seq(NameServer) /\ Len(<<>>) = 0
    BY <1>0, FoundDef
  <2>3. Cardinality(Upto(t, 0)) = 0
    BY <2>1, FS_EmptySet
  <2>4. FoundFirst(t, 0)
    BY <2>1, <2>2, <2>3 DEF FoundFirst
  <2> QED BY <1>0, <2>4
<1>2. \A n \in 0..(Len(t) - 1) : n \in S => n + 1 \in S
  BY <1>0, FoundStep
<1>3. Len(t) \in S
  <2> HIDE DEF S
  <2> QED BY <1>0, <1>1, <1>2, Induction
<1> QED BY <1>3

LEMMA MinThree ==
    ASSUME NEW n \in Nat
    PROVE  Min({3, n}) = IF n < 3 THEN n ELSE 3
<1> DEFINE x == IF n < 3 THEN n ELSE 3
<1>1. x \in {3, n} /\ \A y \in {3, n} : x <= y
  OBVIOUS
<1>2. \A z \in {3, n} : (\A y \in {3, n} : z <= y) => z = x
  BY <1>1
<1> QED BY <1>1, <1>2 DEF Min

LEMMA FirstOnes ==
    ASSUME NEW S, NEW s \in Seq(S), NEW n \in 0..Len(s)
    PROVE  /\ SubSeq(s, 1, n) \in Seq(S)
           /\ Len(SubSeq(s, 1, n)) = n
           /\ \A k \in 1..n : SubSeq(s, 1, n)[k] = s[k]
<1>1. n \in Nat /\ \A k \in 1..n : s[k] \in S
  OBVIOUS
<1>2. SubSeq(s, 1, n) = [k \in 1..n |-> s[k]]
  BY <1>1
<1> QED BY <1>1, <1>2

\* The first three servers of a text, in order, or an error.
LEMMA Parsed ==
    ASSUME NEW t \in Text
    PROVE  LET list == parse_resolv_conf(t)
           IN  IF Usable(t)
               THEN /\ list \in Seq(NameServer)
                    /\ Len(list) = Min({3, Cardinality(ServerLines(t))})
                    /\ \A i \in ServerLines(t) : Rank(t, i) <= 3 =>
                          list[Rank(t, i)] = Named(t[i])
               ELSE list = Rejected
<1> DEFINE all == Found(t)[Len(t)]
           n == IF Len(all) < 3 THEN Len(all) ELSE 3
<1>1. Upto(t, Len(t)) = ServerLines(t)
  BY TextFacts DEF Upto, ServerLines
<1>2. CASE Usable(t)
  <2>1. /\ all \in Seq(NameServer) /\ Len(all) = Cardinality(ServerLines(t))
        /\ \A i \in ServerLines(t) :
              Rank(t, i) \in 1..Len(all) /\ all[Rank(t, i)] = Named(t[i])
    BY <1>1, <1>2, FoundAll DEF FoundFirst, Usable
  <2>2. parse_resolv_conf(t) = SubSeq(all, 1, n)
    BY <2>1, RejectedAssumption DEF parse_resolv_conf
  <2> HIDE DEF all
  <2>3. n \in 0..Len(all) /\ n = Min({3, Cardinality(ServerLines(t))})
    BY <2>1, MinThree
  <2> HIDE DEF n
  <2>4. /\ SubSeq(all, 1, n) \in Seq(NameServer) /\ Len(SubSeq(all, 1, n)) = n
        /\ \A k \in 1..n : SubSeq(all, 1, n)[k] = all[k]
    BY <2>1, <2>3, FirstOnes
  <2>5. \A i \in ServerLines(t) : Rank(t, i) <= 3 => Rank(t, i) \in 1..n
    BY <2>1 DEF n
  <2> QED BY <1>2, <2>1, <2>2, <2>3, <2>4, <2>5
<1>3. CASE ~Usable(t)
  BY <1>1, <1>3, FoundAll DEF FoundFirst, Usable, parse_resolv_conf
<1> QED BY <1>2, <1>3
-----------------------------------------------------------------------------
(* How the list follows the file.                                          *)

LEMMA InitInv == Init => ListInv
<1> SUFFICES ASSUME Init PROVE ListInv
  OBVIOUS
<1>1. changes \in 0..MaxChanges
  BY BoundAssumption DEF Init
<1> QED
  BY <1>1, TextAssumption DEF Init, ListInv, TypeOK, WriterInv, ReaderInv,
     FollowsWatchedFile

\* What is read is a list, or an error.
LEMMA ReadType ==
    ASSUME TypeOK
    PROVE  /\ get_upstream_resolvers \subseteq Lists \cup {Rejected}
           /\ FileServers \in get_upstream_resolvers
           /\ \A servers \in get_upstream_resolvers :
                 servers = FileServers \/ servers = Rejected
  BY DEF TypeOK, get_upstream_resolvers, FileServers, Lists

\* The next line is one more of the content being written.
LEMMA OneMoreLine ==
    ASSUME TypeOK, WriterInv, writer # NoWriter, text # writer
    PROVE  /\ SubSeq(writer, 1, Len(text) + 1) \in Text
           /\ Len(text) + 1 \in 0..Len(writer)
<1>1. writer \in Text /\ writer \in Seq(Range(writer))
  BY TextAssumption DEF TypeOK
<1>2. PICK n \in 0..Len(writer) : text = SubSeq(writer, 1, n)
  BY DEF WriterInv
<1> DEFINE S == Range(writer)
<1> HIDE DEF S
<1>3. writer \in Seq(S)
  BY <1>1 DEF S
<1>4. Len(text) = n
  BY <1>2, <1>3
<1>5. SubSeq(writer, 1, Len(writer)) = writer
  BY <1>3
<1>6. Len(text) + 1 \in 0..Len(writer)
  <2>1. n # Len(writer)
    BY <1>2, <1>5
  <2>2. Len(writer) \in Nat
    BY <1>3
  <2> QED BY <1>4, <2>1, <2>2
<1> QED BY <1>1, <1>6, TextAssumption

\* Every step keeps every variable's type.
LEMMA TypeStep == TypeOK /\ WriterInv /\ [Next]_vars => TypeOK'
<1> SUFFICES ASSUME TypeOK, WriterInv, [Next]_vars PROVE TypeOK'
  OBVIOUS
<1> USE DEF TypeOK, vars, fileVars
<1>0. get_upstream_resolvers \subseteq Lists \cup {Rejected} /\ Lists' = Lists
  BY ReadType DEF Lists
<1>1. CASE FirstRead
  BY <1>0, <1>1 DEF FirstRead
<1>2. CASE Watch \/ WatchFails
  BY <1>0, <1>2 DEF Watch, WatchFails
<1>3. CASE OnEvent
  BY <1>0, <1>3 DEF OnEvent, Reread
<1>4. CASE OnSighup
  BY <1>0, <1>4 DEF OnSighup, Reread
<1>5. CASE Truncate
  <2>1. writer' \in Text /\ text' = <<>> /\ SubSeq(writer', 1, 0) = <<>>
    BY <1>5, TextAssumption DEF Truncate
  <2>2. 0 \in 0..Len(writer')
    BY <2>1, TextAssumption
  <2>3. text' \in Text
    BY <2>1, <2>2, TextAssumption
  <2>4. changes' \in 0..MaxChanges
    BY <1>5, BoundAssumption DEF Truncate
  <2> QED BY <1>0, <1>5, <2>1, <2>3, <2>4 DEF Truncate, Late
<1>6. CASE WriteLine
  <2>1. text' \in Text
    BY <1>6, OneMoreLine DEF WriteLine
  <2> QED BY <1>0, <1>6, <2>1 DEF WriteLine, Late
<1>7. CASE CloseWrite
  BY <1>0, <1>7 DEF CloseWrite
<1>8. CASE Replace
  <2>1. changes' \in 0..MaxChanges
    BY <1>8, BoundAssumption DEF Replace
  <2> QED BY <1>0, <1>8, <2>1, TextAssumption DEF Replace, Late
<1>9. CASE SendSighup
  BY <1>0, <1>9 DEF SendSighup
<1>10. CASE UNCHANGED vars
  BY <1>0, <1>10
<1> QED
  BY <1>1, <1>2, <1>3, <1>4, <1>5, <1>6, <1>7, <1>8, <1>9, <1>10
     DEF Next, Supervisor, Host

\* A program that writes the file adds one line at a time.
LEMMA WriterStep == TypeOK /\ WriterInv /\ [Next]_vars => WriterInv'
<1> SUFFICES ASSUME TypeOK, WriterInv, [Next]_vars PROVE WriterInv'
  OBVIOUS
<1>1. CASE UNCHANGED <<text, writer>>
  BY <1>1 DEF WriterInv
<1>2. CASE Truncate
  <2>1. writer' \in Text /\ text' = <<>> /\ SubSeq(writer', 1, 0) = <<>>
    BY <1>2, TextAssumption DEF Truncate
  <2>2. 0 \in 0..Len(writer')
    BY <2>1, TextAssumption
  <2> QED BY <2>1, <2>2 DEF WriterInv
<1>3. CASE WriteLine
  <2>1. /\ Len(text) + 1 \in 0..Len(writer) /\ writer' = writer
        /\ text' = SubSeq(writer, 1, Len(text) + 1)
    BY <1>3, OneMoreLine DEF WriteLine
  <2> QED BY <2>1 DEF WriterInv
<1>4. CASE writer' = NoWriter
  BY <1>4 DEF WriterInv
<1> QED
  BY <1>1, <1>2, <1>3, <1>4 DEF Next, Supervisor, Host, vars, fileVars,
     FirstRead, Watch, WatchFails, OnEvent, OnSighup, CloseWrite, Replace,
     SendSighup

\* Each step either leaves what is known of the file alone, or tells of a
\* change: by an event, or by losing the watch.
LEMMA ReaderStep == TypeOK /\ ReaderInv /\ [Next]_vars => ReaderInv'
<1> SUFFICES ASSUME TypeOK, ReaderInv, [Next]_vars PROVE ReaderInv'
  OBVIOUS
<1>0. text' = text => FileServers' = FileServers
  BY DEF FileServers
<1>read. \A servers \in get_upstream_resolvers :
         servers = FileServers \/ servers = Rejected
  BY ReadType
<1> USE DEF TypeOK, ReaderInv, FollowsWatchedFile, vars, fileVars
<1>1. CASE FirstRead
  BY <1>0, <1>read, <1>1 DEF FirstRead
<1>2. CASE Watch
  BY <1>0, <1>2 DEF Watch
<1>3. CASE WatchFails
  BY <1>0, <1>3 DEF WatchFails
<1>4. CASE OnEvent
  BY <1>0, <1>4 DEF OnEvent, Reread
<1>5. CASE OnSighup
  BY <1>0, <1>5 DEF OnSighup, Reread
<1>6. CASE Truncate
  <2>1. writer' # NoWriter
    BY <1>6, TextAssumption DEF Truncate
  <2> QED BY <1>6, <2>1 DEF Truncate, Late
<1>7. CASE WriteLine
  BY <1>7 DEF WriteLine, Late
<1>8. CASE CloseWrite
  BY <1>0, <1>8 DEF CloseWrite
<1>9. CASE Replace
  BY <1>9 DEF Replace, Late
<1>10. CASE SendSighup
  BY <1>0, <1>10 DEF SendSighup
<1>11. CASE UNCHANGED vars
  BY <1>0, <1>11
<1> QED
  BY <1>1, <1>2, <1>3, <1>4, <1>5, <1>6, <1>7, <1>8, <1>9, <1>10, <1>11
     DEF Next, Supervisor, Host

-----------------------------------------------------------------------------
THEOREM Invariance == Spec => []ListInv
<1>1. ListInv /\ [Next]_vars => ListInv'
  BY TypeStep, WriterStep, ReaderStep DEF ListInv
<1> QED BY <1>1, InitInv, PTL DEF Spec

\* Every variable keeps its type: no text is read into anything but a list.
THEOREM Typed == Spec => []TypeOK
  BY Invariance, PTL DEF ListInv

\* The list is that of the watched file when nothing is left to be noticed, unless
\* the last read failed.
THEOREM ListIsCurrent == Spec => []FollowsWatchedFile
  BY Invariance, PTL DEF ListInv, ReaderInv

\* The list changes only to that of the file as it is read, or is emptied by a
\* SIGHUP: no failure an event meets costs a name server.
THEOREM ListIsKept == Spec => OnlySighupEmptiesList
<1> DEFINE A == \/ nameservers' = nameservers \/ nameservers' = FileServers
                \/ nameservers' = <<>> /\ sighup /\ ~sighup'
<1>1. ListInv /\ [Next]_vars => A
  <2> SUFFICES ASSUME ListInv, [Next]_vars PROVE A
    OBVIOUS
  <2>0. /\ TypeOK /\ ReaderInv
        /\ \A servers \in get_upstream_resolvers :
              servers = FileServers \/ servers = Rejected
    BY ReadType DEF ListInv
  <2>1. CASE FirstRead
    BY <2>0, <2>1 DEF FirstRead, ReaderInv
  <2>2. CASE OnEvent
    BY <2>0, <2>2 DEF OnEvent, Reread
  <2>3. CASE OnSighup
    BY <2>0, <2>3 DEF OnSighup, Reread, TypeOK
  <2>4. CASE nameservers' = nameservers
    BY <2>4
  <2> QED
    BY <2>1, <2>2, <2>3, <2>4 DEF Next, Supervisor, Host, vars, Watch,
       WatchFails, Truncate, WriteLine, CloseWrite, Replace, SendSighup
<1> QED BY <1>1, Invariance, PTL DEF Spec, OnlySighupEmptiesList

\* Whatever the file holds, a text with one bad name server is an error, and
\* of any other the first three name servers are taken, in order.
THEOREM FirstThree == Spec => []FirstThreeInOrder
<1>1. TypeOK => FirstThreeInOrder
  <2> SUFFICES ASSUME text \in Text PROVE FirstThreeInOrder
    BY DEF TypeOK, FirstThreeInOrder
  <2> QED BY Parsed DEF FirstThreeInOrder, Named
<1> QED BY <1>1, Typed, PTL

\* No listener is ever given more than three name servers, and each is the
\* address of one, with the scope it needs.
THEOREM AtMostThree ==
    Spec => [](nameservers \in Seq(NameServer) /\ Len(nameservers) <= 3)
<1>1. ASSUME NEW t \in Text, parse_resolv_conf(t) # Rejected
      PROVE  /\ parse_resolv_conf(t) \in Seq(NameServer)
             /\ Len(parse_resolv_conf(t)) <= 3
  <2> DEFINE list == parse_resolv_conf(t)
             c == Cardinality(ServerLines(t))
  <2>1. list \in Seq(NameServer) /\ Len(list) = Min({3, c})
    BY <1>1, Parsed
  <2>2. c \in Nat
    <3>1. c = Cardinality(Upto(t, Len(t)))
      BY TextFacts DEF ServerLines, Upto
    <3> QED BY <3>1, TextFacts
  <2>3. Min({3, c}) <= 3
    <3> HIDE DEF c
    <3> QED BY <2>2, MinThree
  <2> QED BY <2>1, <2>3
<1>2. TypeOK => nameservers \in Seq(NameServer) /\ Len(nameservers) <= 3
  <2>1. <<>> \in Seq(NameServer) /\ Len(<<>>) = 0
    OBVIOUS
  <2>2. CASE nameservers = <<>>
    BY <2>1, <2>2
  <2>3. CASE nameservers \in Lists
    BY <1>1, <2>3 DEF Lists
  <2> QED BY <2>2, <2>3 DEF TypeOK
<1> QED BY <1>2, Typed, PTL
=============================================================================
