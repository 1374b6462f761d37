---------------------------- MODULE ConfigProofs ----------------------------
(***************************************************************************)
(* Proofs, for all networks, files and contents, of what parse_configs     *)
(* builds and the backend answers from it.                                 *)
(***************************************************************************)
EXTENDS ConfigProps, TLAPS

\* What parse_config makes of a text whose lines parse: the fields have their
\* types, there is one entry for every line after the first, and the result
\* is not the error.
LEMMA ReadFacts ==
    ASSUME NEW t \in Seq(Seq(SUBSET Word)), Parses(t),
           \A i \in 2..Len(t) : Id(t[i]) \in Container /\ Aliases(t[i]) \subseteq Label
    PROVE  /\ parse_config(t) # Malformed
           /\ parse_config(t).bind = t[1][1]
           /\ parse_config(t).bind \in SUBSET Ip
           /\ parse_config(t).dns = (IF Len(t[1]) > 1 THEN t[1][2] ELSE {})
           /\ parse_config(t).dns \in SUBSET Server
           /\ parse_config(t).entries = [i \in 1..(Len(t) - 1) |-> Entry(t[i + 1])]
           /\ parse_config(t).entries \in Seq(Entries)
           /\ Len(parse_config(t).entries) = Len(t) - 1
<1> DEFINE entries == [i \in 1..(Len(t) - 1) |-> Entry(t[i + 1])]
           dns == IF Len(t[1]) > 1 THEN t[1][2] ELSE {}
<1>1. parse_config(t) = [bind |-> t[1][1], dns |-> dns, entries |-> entries]
  BY DEF parse_config
<1>2. Len(t) \in Nat /\ Len(t) >= 1
  BY DEF Parses
<1>3. t[1][1] \in SUBSET Ip
  BY DEF Parses, FirstLineParses, Words
<1>4. dns \in SUBSET Server
  BY DEF Parses, FirstLineParses, Words
<1>5. ASSUME NEW i \in 2..Len(t) PROVE Entry(t[i]) \in Entries
  <2>1. EntryParses(t[i])
    BY DEF Parses
  <2>2. Aliases(t[i]) # {}
    <3>1. Words(t[i][4]) # {}
      BY DEF Words
    <3> QED BY <3>1 DEF Aliases
  <2>3. t[i][2] \cup t[i][3] \subseteq Ip
    BY <2>1 DEF EntryParses, Ip
  <2>4. OwnServers(t[i]) \subseteq Server
    BY <2>1 DEF EntryParses
  <2> QED BY <2>2, <2>3, <2>4 DEF Entry, Entries
<1>6. \A i \in 1..(Len(t) - 1) : i + 1 \in 2..Len(t)
  BY <1>2
<1>7. entries \in [1..(Len(t) - 1) -> Entries]
  BY <1>5, <1>6
<1>8. entries \in Seq(Entries) /\ Len(entries) = Len(t) - 1
  <2> DEFINE k == Len(t) - 1
  <2>1. k \in Nat /\ entries \in [1..k -> Entries]
    BY <1>2, <1>7
  <2> HIDE DEF entries, k
  <2>2. entries \in Seq(Entries) /\ Len(entries) = k
    BY <2>1
  <2> QED BY <2>2 DEF k
<1>9. [bind |-> t[1][1], dns |-> dns, entries |-> entries] # Malformed
  <2> HIDE DEF dns, entries
  <2> QED BY <1>3, <1>4, <1>8, MalformedAssumption
<1> HIDE DEF dns, entries
<1>10. /\ parse_config(t).bind = t[1][1] /\ parse_config(t).dns = dns
       /\ parse_config(t).entries = entries
  BY <1>1
<1> QED BY <1>1, <1>3, <1>4, <1>8, <1>9, <1>10 DEF dns, entries

\* A text that parse_config accepts is one of those.
LEMMA ParsedFacts ==
    ASSUME NEW t \in Text, parse_config(t) # Malformed
    PROVE  /\ t \in Seq(Seq(SUBSET Word)) /\ Parses(t)
           /\ \A i \in 2..Len(t) :
                 Id(t[i]) \in Container /\ Aliases(t[i]) \subseteq Label
<1>1. Parses(t)
  BY DEF parse_config
<1> QED BY <1>1, TextAssumption DEF Parses, EntryParses

\* A readable file is a text that parse_config accepts.
LEMMA EntryFacts ==
    ASSUME TypeOK, NEW f \in File, Valid(f)
    PROVE  /\ Parsed(f).entries \in Seq(Entries)
           /\ Parsed(f).bind \in SUBSET Ip
           /\ Parsed(f).dns \in SUBSET Server
           /\ DOMAIN Parsed(f).entries = 1..Len(Parsed(f).entries)
           /\ \A i \in DOMAIN Parsed(f).entries : Parsed(f).entries[i] \in Entries
<1>1. /\ Parsed(f) = parse_config(dir[f]) /\ dir[f] \in Text
      /\ parse_config(dir[f]) # Malformed
  BY DEF TypeOK, Valid, Parsed
<1>2. /\ Parsed(f).entries \in Seq(Entries)
      /\ Parsed(f).bind \in SUBSET Ip
      /\ Parsed(f).dns \in SUBSET Server
  BY <1>1, ParsedFacts, ReadFacts
<1> QED BY <1>2

\* Before anything is read nothing is merged.
LEMMA NothingMerged == Init => \A f \in File : \A i \in Nat : ~ Merged(f, i)
  BY DEF Init, Merged

\* The empty maps satisfy the inductive invariant.
LEMMA InitInv == Init => IInv
<1> SUFFICES ASSUME Init PROVE IInv
  OBVIOUS
<1>0. \A f \in File : \A i \in Nat : ~ Merged(f, i)
  BY NothingMerged
<1>1. TypeOK
  BY DEF Init, TypeOK
<1>2. ScanInv
  BY DEF Init, ScanInv
<1>3. MembershipInv
  BY <1>0 DEF Init, MembershipInv
<1>4. AddressInv
  BY <1>0 DEF Init, AddressInv
<1>5. NameInv
  BY <1>0 DEF Init, NameInv, Names
<1>6. InternalInv
  BY DEF Init, InternalInv
<1>7. OwnerInv
  BY DEF Init, OwnerInv
<1> QED BY <1>1, <1>2, <1>3, <1>4, <1>5, <1>6, <1>7 DEF IInv

-----------------------------------------------------------------------------
\* Every step keeps every variable's type.
LEMMA TypeStep == TypeOK /\ ScanInv /\ [Next]_vars => TypeOK'
<1> SUFFICES ASSUME TypeOK, ScanInv, [Next]_vars PROVE TypeOK'
  OBVIOUS
<1> USE DEF TypeOK, maps
<1>1. ASSUME NEW f \in File, SkipFile(f) PROVE TypeOK'
  BY <1>1 DEF SkipFile
<1>2. ASSUME NEW f \in File, OpenFile(f) PROVE TypeOK'
  <2>1. Parsed(f).dns \in SUBSET Server /\ Parsed(f).bind \in SUBSET Ip
    BY <1>2, EntryFacts DEF OpenFile, Valid
  <2>2. network_dns_server' \in [Network -> SUBSET Server]
    BY <1>2, <2>1, FileAssumption DEF OpenFile
  <2>3. listen_ips' \in [Network -> SUBSET Ip]
    <3>1. listen_ips[NetworkOf[f]] \cup Parsed(f).bind \in SUBSET Ip
      BY <2>1, FileAssumption
    <3>2. listen_ips' = [listen_ips EXCEPT ![NetworkOf[f]] =
                           listen_ips[NetworkOf[f]] \cup Parsed(f).bind]
      BY <1>2 DEF OpenFile
    <3> QED BY <3>1, <3>2
  <2> QED BY <1>2, <2>2, <2>3 DEF OpenFile
<1>3. ASSUME MergeEntry PROVE TypeOK'
  <2> DEFINE e == Parsed(cur).entries[pos]
             n == NetworkOf[cur]
  <2>1. cur \in File /\ e \in Entries /\ n \in Network
    BY <1>3, EntryFacts, FileAssumption DEF MergeEntry, ScanInv
  <2>2. /\ e.id \in Container /\ e.ips \subseteq Ip /\ e.aliases \subseteq Label
        /\ e.dns_servers \in {NoDns} \cup SUBSET Server
    BY <2>1 DEF Entries
  <2> HIDE DEF e, n
  <2>3. network_membership' \in [Container -> SUBSET Network]
    BY <1>3, <2>1, <2>2 DEF MergeEntry, e, n
  <2>4. container_ips' \in [Container -> SUBSET Ip]
    BY <1>3, <2>1, <2>2 DEF MergeEntry, e, n
  <2>5. reverse' \in [Network -> [Ip -> SUBSET Label]]
    BY <1>3, <2>1, <2>2 DEF MergeEntry, e, n
  <2>6. network_names' \in [Network -> [Label -> SUBSET Ip]]
    BY <1>3, <2>1, <2>2 DEF MergeEntry, e, n
  <2>7. ctr_dns_server' \in [Ip -> {NoDns} \cup SUBSET Server]
    BY <1>3, <2>1, <2>2 DEF MergeEntry, e, n
  <2>8. network_is_internal' \in [Network -> {"internal", "external", "unknown"}]
    BY <1>3, <2>1 DEF MergeEntry, e, n
  <2> QED BY <1>3, <2>3, <2>4, <2>5, <2>6, <2>7, <2>8 DEF MergeEntry
<1>4. ASSUME EndFile PROVE TypeOK'
  BY <1>4 DEF EndFile
<1>5. ASSUME SetUp PROVE TypeOK'
  BY <1>5 DEF SetUp
<1>6. CASE UNCHANGED vars
  BY <1>6 DEF vars
<1> QED BY <1>1, <1>2, <1>3, <1>4, <1>5, <1>6 DEF Next, Terminated

-----------------------------------------------------------------------------
\* Merging one entry adds that entry to the merged ones; no other step
\* changes which entries are merged.
LEMMA MergedStep ==
    ASSUME TypeOK, ScanInv, [Next]_vars, NEW f \in File, NEW i \in Nat
    PROVE  /\ ~ MergeEntry => (Merged(f, i)' <=> Merged(f, i))
           /\ MergeEntry =>
                 (Merged(f, i)' <=> Merged(f, i) \/ (f = cur /\ i = pos))
<1> USE DEF TypeOK, Merged, Valid
<1>1. ASSUME NEW g \in File, SkipFile(g) PROVE Merged(f, i)' <=> Merged(f, i)
  BY <1>1 DEF SkipFile, Parsed
<1>2. ASSUME NEW g \in File, OpenFile(g) PROVE Merged(f, i)' <=> Merged(f, i)
  <2>1. /\ pc = "scan" /\ pc' = "entries" /\ cur' = g /\ pos' = 1
        /\ g \in unread /\ unread' = unread \ {g} /\ UNCHANGED dir
    BY <1>2 DEF OpenFile
  <2>2. CASE f = g
    <3>1. Valid(g) => DOMAIN Parsed(g).entries = 1..Len(Parsed(g).entries)
      BY EntryFacts
    <3> QED BY <2>1, <2>2, <3>1 DEF Parsed
  <2>3. CASE f # g
    BY <2>1, <2>3 DEF Parsed
  <2> QED BY <2>2, <2>3
<1>3. ASSUME MergeEntry
      PROVE  Merged(f, i)' <=> Merged(f, i) \/ (f = cur /\ i = pos)
  <2>1. /\ pc = "entries" /\ pos \in DOMAIN Parsed(cur).entries
        /\ pos' = pos + 1 /\ UNCHANGED <<pc, dir, unread, cur>>
    BY <1>3 DEF MergeEntry
  <2>2. cur \in File \ unread /\ Valid(cur)
    BY <2>1 DEF ScanInv
  <2>3. i < pos + 1 <=> i < pos \/ i = pos
    OBVIOUS
  <2> QED BY <2>1, <2>2, <2>3 DEF Parsed
<1>4. ASSUME EndFile PROVE Merged(f, i)' <=> Merged(f, i)
  <2>1. /\ pc = "entries" /\ pos \notin DOMAIN Parsed(cur).entries
        /\ pc' = "scan" /\ UNCHANGED <<dir, unread, cur, pos>>
    BY <1>4 DEF EndFile
  <2>2. /\ cur \in File /\ Valid(cur)
        /\ pos \in 1..(Len(Parsed(cur).entries) + 1)
    BY <2>1 DEF ScanInv
  <2>3. DOMAIN Parsed(cur).entries = 1..Len(Parsed(cur).entries)
    BY <2>2, EntryFacts
  <2>4. Parsed(cur).entries \in Seq(Entries)
    BY <2>2, EntryFacts
  <2>5. i \in DOMAIN Parsed(cur).entries => i < pos
    BY <2>1, <2>2, <2>3, <2>4
  <2> QED BY <2>1, <2>5 DEF Parsed
<1>5. ASSUME SetUp PROVE Merged(f, i)' <=> Merged(f, i)
  BY <1>5 DEF SetUp, Parsed
<1>6. CASE UNCHANGED vars
  BY <1>6 DEF vars, MergeEntry, Parsed
<1>7. MergeEntry => ~ UNCHANGED vars
  BY DEF MergeEntry, vars
<1> QED BY <1>1, <1>2, <1>3, <1>4, <1>5, <1>6, <1>7 DEF Next, Terminated

\* The file being merged is open, readable and not past its end.
LEMMA ScanStep == TypeOK /\ ScanInv /\ [Next]_vars => ScanInv'
<1> SUFFICES ASSUME TypeOK, ScanInv, [Next]_vars PROVE ScanInv'
  OBVIOUS
<1> USE DEF TypeOK, ScanInv, Valid
<1>1. ASSUME NEW f \in File, SkipFile(f) PROVE ScanInv'
  BY <1>1 DEF SkipFile
<1>2. ASSUME NEW f \in File, OpenFile(f) PROVE ScanInv'
  <2>1. Parsed(f).entries \in Seq(Entries)
    BY <1>2, EntryFacts DEF OpenFile
  <2>2. 1 \in 1..(Len(Parsed(f).entries) + 1)
    BY <2>1
  <2> QED BY <1>2, <2>2 DEF OpenFile, Parsed
<1>3. ASSUME MergeEntry PROVE ScanInv'
  <2>1. /\ cur \in File /\ Valid(cur) /\ pos \in DOMAIN Parsed(cur).entries
    BY <1>3 DEF MergeEntry
  <2>2. Parsed(cur).entries \in Seq(Entries)
    BY <2>1, EntryFacts
  <2>3. pos + 1 \in 1..(Len(Parsed(cur).entries) + 1)
    BY <2>1, <2>2
  <2> QED BY <1>3, <2>3 DEF MergeEntry, Parsed
<1>4. ASSUME EndFile PROVE ScanInv'
  BY <1>4 DEF EndFile
<1>5. ASSUME SetUp PROVE ScanInv'
  BY <1>5 DEF SetUp
<1>6. CASE UNCHANGED vars
  BY <1>6 DEF vars, Parsed
<1> QED BY <1>1, <1>2, <1>3, <1>4, <1>5, <1>6 DEF Next, Terminated

-----------------------------------------------------------------------------
\* What an entry of a container line contributes to each map.
LEMMA MapStep ==
    ASSUME TypeOK, ScanInv, MergeEntry,
           MembershipInv, AddressInv, NameInv
    PROVE  MembershipInv' /\ AddressInv' /\ NameInv'
<1> DEFINE e == Parsed(cur).entries[pos]
           n == NetworkOf[cur]
<1>1. /\ cur \in File /\ pos \in Nat /\ n \in Network /\ e \in Entries
      /\ UNCHANGED dir
  BY EntryFacts, FileAssumption DEF MergeEntry, ScanInv, TypeOK
<1>2. e.id \in Container /\ e.ips \subseteq Ip /\ e.aliases \subseteq Label
  BY <1>1 DEF Entries
<1>3. \A f \in File : \A i \in Nat :
         Merged(f, i)' <=> Merged(f, i) \/ (f = cur /\ i = pos)
  <2>1. [Next]_vars
    BY DEF Next
  <2> QED BY <2>1, MergedStep
<1>4. MembershipInv'
  <2> SUFFICES ASSUME NEW c \in Container, NEW m \in Network
               PROVE  m \in network_membership'[c] <=>
                        \E f \in File : \E i \in Nat :
                          Merged(f, i)' /\ NetworkOf[f] = m /\ Parsed(f).entries[i].id = c
    BY <1>1 DEF MembershipInv, Parsed
  <2>1. m \in network_membership'[c] <=>
          m \in network_membership[c] \/ (m = n /\ c = e.id)
    BY <1>1, <1>2 DEF MergeEntry, TypeOK
  <2> HIDE DEF e, n
  <2> QED BY <1>1, <1>3, <2>1 DEF MembershipInv, e, n
<1>5. AddressInv'
  <2> SUFFICES ASSUME NEW c \in Container, NEW a \in Ip
               PROVE  a \in container_ips'[c] <=>
                        \E f \in File : \E i \in Nat :
                          /\ Merged(f, i)'
                          /\ Parsed(f).entries[i].id = c
                          /\ a \in Parsed(f).entries[i].ips
    BY <1>1 DEF AddressInv, Parsed
  <2>1. a \in container_ips'[c] <=> a \in container_ips[c] \/ (a \in e.ips /\ c = e.id)
    BY <1>1, <1>2 DEF MergeEntry, TypeOK
  <2> QED BY <1>1, <1>3, <2>1 DEF AddressInv
<1>6. \A m \in Network, l \in Label, a \in Ip :
         Names(m, l, a)' <=>
            Names(m, l, a) \/ (m = n /\ l \in e.aliases /\ a \in e.ips)
  BY <1>1, <1>3 DEF Names, Parsed
<1>7. NameInv'
  <2> SUFFICES ASSUME NEW m \in Network, NEW l \in Label, NEW a \in Ip
               PROVE  /\ a \in network_names'[m][l] <=> Names(m, l, a)'
                      /\ l \in reverse'[m][a] <=> Names(m, l, a)'
    BY DEF NameInv
  <2>1. a \in network_names'[m][l] <=>
          a \in network_names[m][l] \/ (m = n /\ l \in e.aliases /\ a \in e.ips)
    BY <1>1, <1>2 DEF MergeEntry, TypeOK
  <2>2. l \in reverse'[m][a] <=>
          l \in reverse[m][a] \/ (m = n /\ l \in e.aliases /\ a \in e.ips)
    BY <1>1, <1>2 DEF MergeEntry, TypeOK
  <2> QED BY <1>6, <2>1, <2>2 DEF NameInv
<1> QED BY <1>4, <1>5, <1>7

\* Every step keeps the inductive invariant.
LEMMA StepInv == IInv /\ [Next]_vars => IInv'
<1> SUFFICES ASSUME IInv, [Next]_vars PROVE IInv'
  OBVIOUS
<1>0. /\ TypeOK /\ ScanInv /\ MembershipInv /\ AddressInv /\ NameInv
      /\ InternalInv /\ OwnerInv
  BY DEF IInv
<1>1. TypeOK' /\ ScanInv'
  BY <1>0, TypeStep, ScanStep
<1>2. MembershipInv' /\ AddressInv' /\ NameInv'
  <2>1. CASE MergeEntry
    BY <1>0, <2>1, MapStep
  <2>2. CASE ~ MergeEntry
    <3>1. UNCHANGED <<dir, network_membership, container_ips, reverse, network_names>>
      BY <2>2 DEF Next, vars, maps, SkipFile, OpenFile, EndFile, SetUp, Terminated
    <3>2. \A f \in File : \A i \in Nat : Merged(f, i)' <=> Merged(f, i)
      BY <1>0, <2>2, MergedStep
    <3>3. MembershipInv'
      BY <1>0, <3>1, <3>2 DEF MembershipInv, Parsed
    <3>4. AddressInv'
      BY <1>0, <3>1, <3>2 DEF AddressInv, Parsed
    <3>5. NameInv'
      BY <1>0, <3>1, <3>2 DEF NameInv, Names, Parsed
    <3> QED BY <3>3, <3>4, <3>5
  <2> QED BY <2>1, <2>2
<1>3. InternalInv'
  <2>1. CASE MergeEntry
    <3> DEFINE e == Parsed(cur).entries[pos]
               n == NetworkOf[cur]
    <3>1. /\ cur \in File /\ Valid(cur) /\ n \in Network /\ e.id \in Container
          /\ UNCHANGED dir
      BY <1>0, <2>1, EntryFacts, FileAssumption DEF MergeEntry, ScanInv, Entries
    <3>2. \A m \in Network : network_is_internal'[m] =
             IF m # n THEN network_is_internal[m]
             ELSE IF cur \in Internal THEN "internal" ELSE "external"
      BY <1>0, <2>1, <3>1 DEF MergeEntry, TypeOK
    <3>3. \A m \in Network : m # n =>
             \A c \in Container : m \in network_membership'[c]
                                   <=> m \in network_membership[c]
      BY <1>0, <2>1, <3>1 DEF MergeEntry, TypeOK
    <3> QED BY <1>0, <3>1, <3>2, <3>3 DEF InternalInv, Valid, Parsed
  <2>2. CASE ~ MergeEntry
    <3>1. UNCHANGED <<dir, network_membership, network_is_internal>>
      BY <2>2 DEF Next, vars, maps, SkipFile, OpenFile, EndFile, SetUp, Terminated
    <3> QED BY <1>0, <3>1 DEF InternalInv, Valid, Parsed
  <2> QED BY <2>1, <2>2
<1>4. OwnerInv'
  <2>1. CASE SetUp
    BY <1>0, <2>1 DEF SetUp, OwnerInv, maps, TypeOK
  <2>2. CASE pc' = pc /\ UNCHANGED <<network_membership, container_ips, ctrs>>
    BY <1>0, <2>2 DEF OwnerInv
  <2>3. CASE pc' # "done"
    BY <2>3 DEF OwnerInv
  <2> QED
    BY <2>1, <2>2, <2>3 DEF Next, vars, maps, SkipFile, OpenFile, MergeEntry,
       EndFile, Terminated
<1> QED BY <1>1, <1>2, <1>3, <1>4 DEF IInv

\* The maps hold what the merged files say at every moment of the scan, in
\* whatever order the directory lists the files.
THEOREM Invariance == Spec => []IInv
  BY InitInv, StepInv, PTL DEF Spec

-----------------------------------------------------------------------------
\* Every entry of a readable file is merged once the scan is over.
LEMMA AllMerged ==
    ASSUME TypeOK, ScanInv, pc = "done", NEW f \in File
    PROVE  /\ \A i \in Nat : Merged(f, i) => Parsed(f).entries[i] \in EntriesIn(f)
           /\ \A e \in EntriesIn(f) :
                 \E i \in Nat : Merged(f, i) /\ Parsed(f).entries[i] = e
<1>1. Valid(f) => DOMAIN Parsed(f).entries = 1..Len(Parsed(f).entries)
                  /\ Parsed(f).entries \in Seq(Entries)
  BY EntryFacts
<1>2. ASSUME NEW e \in EntriesIn(f)
      PROVE  \E i \in Nat : Merged(f, i) /\ Parsed(f).entries[i] = e
  <2>1. Valid(f) /\ \E i \in DOMAIN Parsed(f).entries : Parsed(f).entries[i] = e
    BY DEF EntriesIn
  <2>2. PICK i \in DOMAIN Parsed(f).entries : Parsed(f).entries[i] = e
    BY <2>1
  <2>3. i \in Nat
    BY <1>1, <2>1
  <2>4. Merged(f, i)
    BY <2>1 DEF Merged, ScanInv
  <2> QED BY <2>2, <2>3, <2>4
<1> QED BY <1>2 DEF Merged, EntriesIn

\* What the finished maps say, in terms of the files.
LEMMA FinishedMaps ==
    ASSUME IInv, pc = "done"
    PROVE  /\ \A a \in Ip : ctrs[a] = NetworksFor(a)
           /\ \A n \in Network, l \in Label, a \in Ip :
                 Names(n, l, a) <=>
                    \E f \in File : \E e \in EntriesIn(f) :
                        NetworkOf[f] = n /\ l \in e.aliases /\ a \in e.ips
<1>0. /\ TypeOK /\ ScanInv /\ MembershipInv /\ AddressInv /\ OwnerInv
  BY DEF IInv
<1>1. \A c \in Container, a \in Ip : a \in container_ips[c] <=> Owns(c, a)
  BY <1>0, AllMerged DEF AddressInv, Owns
<1>2. \A c \in Container, n \in Network :
         n \in network_membership[c] <=> MemberOf(c, n)
  BY <1>0, AllMerged DEF MembershipInv, MemberOf
<1>3. ASSUME NEW a \in Ip PROVE ctrs[a] = NetworksFor(a)
  <2>1. ctrs[a] \subseteq Network
    BY <1>0 DEF TypeOK
  <2>2. \A n \in Network : n \in ctrs[a] <=> n \in NetworksFor(a)
    BY <1>0, <1>1, <1>2 DEF OwnerInv, NetworksFor
  <2>3. NetworksFor(a) \subseteq Network
    BY DEF NetworksFor
  <2> QED BY <2>1, <2>2, <2>3
<1>4. \A n \in Network, l \in Label, a \in Ip :
         Names(n, l, a) <=>
            \E f \in File : \E e \in EntriesIn(f) :
                NetworkOf[f] = n /\ l \in e.aliases /\ a \in e.ips
  BY <1>0, AllMerged DEF Names
<1> QED BY <1>3, <1>4

\* Name resolution crosses networks exactly as containers do.
LEMMA NamesFound == IInv => NamesResolveInSharedNetworks
<1> SUFFICES ASSUME IInv, pc = "done",
                    NEW r \in Ip, NEW n \in Network, NEW l \in Label
             PROVE  lookup(TheBackend, r, n, l) =
              {i \in Ip : \E f \in File : \E e \in EntriesIn(f) :
                  /\ i \in e.ips
                  /\ l \in e.aliases
                  /\ \/ NetworkOf[f] \in NetworksFor(r)
                     \/ NetworksFor(r) = {} /\ NetworkOf[f] = n}
  BY DEF NamesResolveInSharedNetworks
<1> DEFINE visible == VisibleNetworks(TheBackend, r, n)
<1>1. /\ TheBackend.ip_mappings = ctrs
      /\ TheBackend.name_mappings = network_names
  BY DEF TheBackend
<1>2. visible = IF NetworksFor(r) = {} THEN {n} ELSE NetworksFor(r)
  BY <1>1, FinishedMaps DEF VisibleNetworks
<1>3. visible \subseteq Network
  BY <1>2 DEF NetworksFor
<1>4. lookup(TheBackend, r, n, l) = UNION {network_names[m][l] : m \in visible}
  BY <1>1 DEF lookup
<1>5. \A m \in visible, i \in Ip : i \in network_names[m][l] <=> Names(m, l, i)
  BY <1>3 DEF IInv, NameInv
<1>6. \A m \in visible : network_names[m][l] \subseteq Ip
  BY <1>3 DEF IInv, TypeOK
<1>7. \A m \in visible, i \in Ip :
         Names(m, l, i) <=> \E f \in File : \E e \in EntriesIn(f) :
                  NetworkOf[f] = m /\ l \in e.aliases /\ i \in e.ips
  BY <1>3, FinishedMaps
<1>8. \A f \in File :
        NetworkOf[f] \in visible <=>
            \/ NetworkOf[f] \in NetworksFor(r)
            \/ NetworksFor(r) = {} /\ NetworkOf[f] = n
  BY <1>2
<1> HIDE DEF visible
<1> QED BY <1>4, <1>5, <1>6, <1>7, <1>8

\* ... whatever order the directory lists the files in.
THEOREM NamesResolve == Spec => []NamesResolveInSharedNetworks
  BY NamesFound, Invariance, PTL

\* An address has a name in a network exactly if an entry of one of its files
\* has the address: every entry has names.
LEMMA KnowingNetworks ==
    ASSUME IInv, pc = "done", NEW m \in Network, NEW a \in Ip
    PROVE  reverse[m][a] # {} <=>
              \E f \in File : NetworkOf[f] = m /\ \E e \in EntriesIn(f) : a \in e.ips
<1>1. \A l \in Label : l \in reverse[m][a] <=>
         \E f \in File : \E e \in EntriesIn(f) :
            NetworkOf[f] = m /\ l \in e.aliases /\ a \in e.ips
  BY FinishedMaps DEF IInv, NameInv
<1>2. reverse[m][a] \subseteq Label
  BY DEF IInv, TypeOK
<1>3. \A f \in File : \A e \in EntriesIn(f) : \E l \in Label : l \in e.aliases
  <2> SUFFICES ASSUME NEW f \in File, NEW e \in EntriesIn(f)
               PROVE  \E l \in Label : l \in e.aliases
    OBVIOUS
  <2>1. e \in Entries
    BY EntryFacts DEF EntriesIn, IInv
  <2>2. e.aliases \in (SUBSET Label) \ {{}}
    BY <2>1 DEF Entries
  <2> QED BY <2>2
<1> QED BY <1>1, <1>2, <1>3

\* Every name of every reply leads back to the address, every address a name
\* leads to has a reply, and the reply is complete if one shared network knows
\* the address.
THEOREM ForwardMatchesReverse == Spec => []RoundTrip
<1>1. IInv => RoundTrip
  <2> SUFFICES ASSUME IInv, pc = "done", NEW r \in Ip, NetworksFor(r) # {},
                      NEW n \in Network, NEW i \in Ip
               PROVE
            LET replies == reverse_lookup(TheBackend, r, i)
                names == {l \in Label : i \in lookup(TheBackend, r, n, l)}
                knowing == {m \in NetworksFor(r) : \E f \in File :
                               NetworkOf[f] = m /\ \E e \in EntriesIn(f) : i \in e.ips}
            IN  /\ \A reply \in replies : reply # {} /\ reply \subseteq names
                /\ names # {} => replies # {}
                /\ \A m \in knowing : knowing = {m} => replies = {names}
    BY DEF RoundTrip
  <2> DEFINE replies == reverse_lookup(TheBackend, r, i)
             names == {l \in Label : i \in lookup(TheBackend, r, n, l)}
             knowing == {m \in NetworksFor(r) : \E f \in File :
                            NetworkOf[f] = m /\ \E e \in EntriesIn(f) : i \in e.ips}
  <2>1. /\ TheBackend.ip_mappings[r] = NetworksFor(r)
        /\ TheBackend.name_mappings = network_names
        /\ TheBackend.reverse_mappings = reverse
    BY FinishedMaps DEF TheBackend
  <2>2. NetworksFor(r) \subseteq Network
    BY DEF NetworksFor
  <2>3. \A l \in Label : l \in names <=> \E m \in NetworksFor(r) : l \in reverse[m][i]
    <3>1. \A l : lookup(TheBackend, r, n, l) = UNION {network_names[m][l] : m \in NetworksFor(r)}
      BY <2>1 DEF lookup, VisibleNetworks
    <3>2. \A m \in NetworksFor(r), l \in Label :
             i \in network_names[m][l] <=> l \in reverse[m][i]
      BY <2>2 DEF IInv, NameInv
    <3> QED BY <3>1, <3>2
  <2>4. replies = {reverse[m][i] : m \in NetworksFor(r)} \ {{}}
    BY <2>1 DEF reverse_lookup
  <2>5. \A m \in NetworksFor(r) : reverse[m][i] \subseteq Label
    BY <2>2 DEF IInv, TypeOK
  <2>6. \A m \in NetworksFor(r) : reverse[m][i] # {} <=> m \in knowing
    BY <2>2, <2>5, KnowingNetworks
  <2>7. names \subseteq Label /\ knowing \subseteq NetworksFor(r)
    OBVIOUS
  <2> HIDE DEF replies, names, knowing
  <2>8. \A reply \in replies : reply # {} /\ reply \subseteq names
    BY <2>3, <2>4, <2>5
  <2>9. names # {} => replies # {}
    BY <2>3, <2>4, <2>7
  <2>10. ASSUME NEW m \in knowing, knowing = {m} PROVE replies = {names}
    <3>1. \A k \in NetworksFor(r) : k # m => reverse[k][i] = {}
      BY <2>6, <2>10
    <3>2. names = reverse[m][i] /\ reverse[m][i] # {}
      BY <2>3, <2>5, <2>6, <2>7, <3>1
    <3> QED BY <2>4, <2>7, <3>1, <3>2
  <2> QED BY <2>8, <2>9, <2>10 DEF replies, names, knowing
<1> QED BY <1>1, Invariance, PTL

\* "Returns true if and only if a container is only present in internal
\* networks" (backend/mod.rs:139-141), as far as a network's files agree.
LEMMA InternalDecided == IInv => InternalIffAllNetworksAre
<1> SUFFICES ASSUME IInv, pc = "done", NEW r \in Ip
             PROVE
            LET files == {f \in File : Valid(f) /\ NetworkOf[f] \in NetworksFor(r)}
            IN  IF ctr_is_internal(TheBackend, r)
                THEN /\ NetworksFor(r) # {}
                     /\ \A n \in NetworksFor(r) :
                           \E f \in files \cap Internal : NetworkOf[f] = n
                ELSE NetworksFor(r) = {} \/ files \ Internal # {}
  BY DEF InternalIffAllNetworksAre
<1> DEFINE files == {f \in File : Valid(f) /\ NetworkOf[f] \in NetworksFor(r)}
<1>1. ctr_is_internal(TheBackend, r) <=>
         /\ NetworksFor(r) # {}
         /\ \A n \in NetworksFor(r) : network_is_internal[n] # "external"
  BY FinishedMaps DEF TheBackend, ctr_is_internal
<1>2. TypeOK /\ InternalInv /\ OwnerInv /\ ctrs[r] = NetworksFor(r)
  BY FinishedMaps DEF IInv
<1>3. ASSUME NEW n \in NetworksFor(r), network_is_internal[n] # "external"
      PROVE  \E f \in files \cap Internal : NetworkOf[f] = n
  <2>1. n \in Network /\ n \in ctrs[r]
    BY <1>2 DEF NetworksFor
  <2>2. network_is_internal[n] = "internal"
    BY <1>2, <1>3, <2>1 DEF OwnerInv, InternalInv, TypeOK
  <2> QED BY <1>2, <2>1, <2>2, FileAssumption DEF InternalInv
<1>4. ASSUME NEW n \in NetworksFor(r), network_is_internal[n] = "external"
      PROVE  files \ Internal # {}
  BY <1>2, <1>4 DEF InternalInv, NetworksFor
<1> QED BY <1>1, <1>3, <1>4

\* ... in whatever order the directory lists the files.
THEOREM InternalDecision == Spec => []InternalIffAllNetworksAre
  BY InternalDecided, Invariance, PTL

-----------------------------------------------------------------------------
\* Every variable keeps its type, whatever the files hold and in whatever
\* order they are read.
THEOREM Typed == Spec => []TypeOK
  BY Invariance, PTL DEF IInv

\* A file read while it is being written, up to the end of a line, gives the
\* addresses and servers of the whole file and the first of its containers.
THEOREM CutFiles == Spec => []CutFileKeepsListeners
<1>1. TypeOK => CutFileKeepsListeners
  <2> SUFFICES ASSUME TypeOK, NEW f \in File, Valid(f), NEW n \in 1..Len(dir[f])
               PROVE  LET cut == parse_config(SubSeq(dir[f], 1, n))
                      IN  /\ cut # Malformed
                          /\ cut.bind = Parsed(f).bind /\ cut.dns = Parsed(f).dns
                          /\ cut.entries = SubSeq(Parsed(f).entries, 1, n - 1)
    BY DEF CutFileKeepsListeners
  <2> DEFINE t == dir[f]
             c == SubSeq(t, 1, n)
             entries == parse_config(t).entries
  <2>1. /\ t \in Text /\ Parsed(f) = parse_config(t)
        /\ parse_config(t) # Malformed
    BY DEF TypeOK, Valid, Parsed
  <2>2. /\ t \in Seq(Seq(SUBSET Word)) /\ Parses(t)
        /\ \A i \in 2..Len(t) :
              Id(t[i]) \in Container /\ Aliases(t[i]) \subseteq Label
    BY <2>1, ParsedFacts
  <2>3. n \in Nat /\ n >= 1 /\ n <= Len(t) /\ Len(t) \in Nat
    BY <2>2
  <2>4. /\ c \in Seq(Seq(SUBSET Word)) /\ Len(c) = n
        /\ \A i \in 1..n : c[i] = t[i]
    BY <2>2, <2>3
  <2>5. c # <<>> /\ c[1] = t[1] /\ 2..n \subseteq 2..Len(t)
    BY <2>3, <2>4
  <2> HIDE DEF c
  <2>6. Parses(c) /\ \A i \in 2..Len(c) :
              Id(c[i]) \in Container /\ Aliases(c[i]) \subseteq Label
    <3>1. \A i \in 2..n : c[i] = t[i] /\ i \in 2..Len(t)
      BY <2>3, <2>4
    <3>2. Parses(c)
      BY <2>2, <2>4, <2>5, <3>1 DEF Parses
    <3>3. \A i \in 2..n : Id(c[i]) \in Container /\ Aliases(c[i]) \subseteq Label
      BY <2>2, <3>1
    <3> QED BY <2>4, <3>2, <3>3
  <2>7. /\ parse_config(c) # Malformed
        /\ parse_config(c).bind = t[1][1]
        /\ parse_config(c).dns = (IF Len(t[1]) > 1 THEN t[1][2] ELSE {})
        /\ parse_config(c).entries = [i \in 1..(n - 1) |-> Entry(c[i + 1])]
    BY <2>4, <2>5, <2>6, ReadFacts
  <2>8. /\ parse_config(t).bind = t[1][1]
        /\ parse_config(t).dns = (IF Len(t[1]) > 1 THEN t[1][2] ELSE {})
        /\ entries = [i \in 1..(Len(t) - 1) |-> Entry(t[i + 1])]
        /\ entries \in Seq(Entries) /\ Len(entries) = Len(t) - 1
    BY <2>2, ReadFacts
  <2>9. [i \in 1..(n - 1) |-> Entry(c[i + 1])] = SubSeq(entries, 1, n - 1)
    <3>1. SubSeq(entries, 1, n - 1) = [i \in 1..(n - 1) |-> entries[i]]
      BY <2>3, <2>8
    <3>2. \A i \in 1..(n - 1) : entries[i] = Entry(t[i + 1]) /\ c[i + 1] = t[i + 1]
      BY <2>3, <2>4, <2>8
    <3> QED BY <3>1, <3>2
  <2> QED BY <2>1, <2>7, <2>8, <2>9 DEF c
<1> QED BY <1>1, Typed, PTL

\* A file of the documented form is read to the last word.
THEOREM DocumentedFiles == Spec => []DocumentedFilesAreRead
<1>1. TypeOK => DocumentedFilesAreRead
  <2> SUFFICES ASSUME TypeOK, NEW f \in File, dir[f] # Gone, Documented(dir[f])
               PROVE  LET t == dir[f]
                      IN  /\ Valid(f)
                          /\ Parsed(f).bind = t[1][1]
                          /\ Parsed(f).dns = UNION {t[1][i] : i \in 2..Len(t[1])}
                          /\ Len(Parsed(f).entries) = Len(t) - 1
                          /\ \A i \in 2..Len(t) :
                                LET e == Parsed(f).entries[i - 1]
                                IN  /\ e.ips = t[i][2] \cup t[i][3]
                                    /\ \A w \in t[i][4] : Lower[w] \in e.aliases
                                    /\ Len(t[i]) = 5 => e.dns_servers = t[i][5]
                                    /\ Len(t[i]) = 4 => e.dns_servers = NoDns
    BY DEF DocumentedFilesAreRead
  <2> DEFINE t == dir[f]
  <2>1. t \in Text /\ Parsed(f) = parse_config(t)
    BY DEF TypeOK, Parsed
  <2>2. /\ t \in Seq(Seq(SUBSET Word)) /\ t # <<>>
        /\ t[1] \in Seq(SUBSET Word) /\ Len(t) \in Nat /\ Len(t) >= 1
    BY <2>1, TextAssumption DEF Documented
  <2> HIDE DEF t
  <2>3. Documented(t)
    BY DEF t
  <2>4. FirstLineParses(t[1])
    BY <2>2, <2>3 DEF Documented, Listed, FirstLineParses, Words
  <2>10. \A i \in 2..Len(t) : Len(t[i]) = 4 \/ Len(t[i]) = 5
    BY <2>3 DEF Documented
  <2>11. \A i \in 2..Len(t) : Len(t[i]) >= 4
    BY <2>10
  <2>5. \A i \in 2..Len(t) : EntryParses(t[i])
    <3>1. \A i \in 2..Len(t) : OwnServers(t[i]) \subseteq Server
      BY <2>3 DEF Documented, Listed, OwnServers
    <3> QED BY <2>3, <2>11, <3>1 DEF Documented, EntryParses
  <2>6. \A i \in 2..Len(t) :
              Id(t[i]) \in Container /\ Aliases(t[i]) \subseteq Label
    BY <2>1, <2>11, TextAssumption
  <2>7. Parses(t)
    BY <2>2, <2>4, <2>5 DEF Parses
  <2>8. /\ parse_config(t) # Malformed
        /\ parse_config(t).bind = t[1][1]
        /\ parse_config(t).dns = (IF Len(t[1]) > 1 THEN t[1][2] ELSE {})
        /\ parse_config(t).entries = [i \in 1..(Len(t) - 1) |-> Entry(t[i + 1])]
        /\ Len(parse_config(t).entries) = Len(t) - 1
    BY <2>2, <2>6, <2>7, ReadFacts
  <2>9. (IF Len(t[1]) > 1 THEN t[1][2] ELSE {}) = UNION {t[1][i] : i \in 2..Len(t[1])}
    <3>1. CASE Len(t[1]) = 1
      <4>1. 2..Len(t[1]) = {}
        BY <3>1
      <4> QED BY <3>1, <4>1
    <3>2. CASE Len(t[1]) = 2
      <4>1. 2..Len(t[1]) = {2}
        BY <3>2
      <4> QED BY <3>2, <4>1
    <3> QED BY <2>3, <3>1, <3>2 DEF Documented
  <2>12. ASSUME NEW i \in 2..Len(t)
         PROVE  /\ parse_config(t).entries[i - 1] = Entry(t[i])
                /\ Entry(t[i]).ips = t[i][2] \cup t[i][3]
                /\ \A w \in t[i][4] : Lower[w] \in Entry(t[i]).aliases
                /\ Len(t[i]) = 5 => Entry(t[i]).dns_servers = t[i][5]
                /\ Len(t[i]) = 4 => Entry(t[i]).dns_servers = NoDns
    <3>1. i - 1 \in 1..(Len(t) - 1) /\ (i - 1) + 1 = i
      BY <2>2
    <3>2. parse_config(t).entries[i - 1] = Entry(t[i])
      BY <2>8, <3>1
    <3>3. Entry(t[i]).ips = t[i][2] \cup t[i][3]
      BY DEF Entry
    <3>4. \A w \in t[i][4] : Lower[w] \in Entry(t[i]).aliases
      BY DEF Entry, Aliases, Words
    <3>5. Entry(t[i]).dns_servers =
             IF OwnServers(t[i]) = {} THEN NoDns ELSE OwnServers(t[i])
      BY DEF Entry
    <3>6. Len(t[i]) = 5 => t[i][5] # {}
      BY <2>3 DEF Documented, Listed
    <3>7. Len(t[i]) = 5 => Entry(t[i]).dns_servers = t[i][5]
      BY <3>5, <3>6 DEF OwnServers
    <3>8. Len(t[i]) = 4 => Entry(t[i]).dns_servers = NoDns
      BY <3>5 DEF OwnServers
    <3> QED BY <3>2, <3>3, <3>4, <3>7, <3>8
  <2>13. Valid(f)
    BY <2>1, <2>8 DEF Valid
  <2>14. \A i \in 2..Len(t) :
            LET e == Parsed(f).entries[i - 1]
            IN  /\ e.ips = t[i][2] \cup t[i][3]
                /\ \A w \in t[i][4] : Lower[w] \in e.aliases
                /\ Len(t[i]) = 5 => e.dns_servers = t[i][5]
                /\ Len(t[i]) = 4 => e.dns_servers = NoDns
    BY <2>1, <2>12
  <2> QED BY <2>1, <2>8, <2>9, <2>13, <2>14 DEF t
<1> QED BY <1>1, Typed, PTL

-----------------------------------------------------------------------------
\* The servers of addresses and networks are those of the files read so far.
LEMMA ResolverInit == Init => ResolverInv
<1> SUFFICES ASSUME Init PROVE ResolverInv
  OBVIOUS
<1>1. OwnServersInv
  BY NothingMerged DEF Init, OwnServersInv, Gives
<1>2. NetworkServersInv
  BY DEF Init, NetworkServersInv, ServersRead
<1> QED BY <1>1, <1>2 DEF ResolverInv

LEMMA ResolverStep == TypeOK /\ ScanInv /\ ResolverInv /\ [Next]_vars => ResolverInv'
<1> SUFFICES ASSUME TypeOK, ScanInv, ResolverInv, [Next]_vars PROVE ResolverInv'
  OBVIOUS
<1>0. UNCHANGED dir /\ \A f \in File : Parsed(f)' = Parsed(f) /\ (Valid(f)' <=> Valid(f))
  BY DEF Next, vars, maps, SkipFile, OpenFile, MergeEntry, EndFile, SetUp,
     Terminated, Parsed, Valid
<1>1. OwnServersInv'
  <2>1. CASE MergeEntry
    <3> DEFINE e == Parsed(cur).entries[pos]
    <3>1. /\ cur \in File /\ pos \in Nat /\ e \in Entries
      BY <2>1, EntryFacts DEF MergeEntry, ScanInv, TypeOK
    <3>2. \A f \in File : \A i \in Nat :
             Merged(f, i)' <=> Merged(f, i) \/ (f = cur /\ i = pos)
      BY <2>1, MergedStep
    <3>3. ASSUME NEW f \in File, NEW i \in Nat, NEW a \in Ip
          PROVE  Gives(f, i, a)' <=>
                    \/ Gives(f, i, a)
                    \/ f = cur /\ i = pos /\ cur \notin Internal /\ a \in e.ips
      <4>1. Parsed(f)' = Parsed(f) /\ (Merged(f, i)' <=> Merged(f, i) \/ (f = cur /\ i = pos))
        BY <1>0, <3>2
      <4>2. f = cur /\ i = pos => Parsed(f).entries[i] = e
        OBVIOUS
      <4> HIDE DEF e
      <4> QED BY <4>1, <4>2 DEF Gives
    <3>4. ASSUME NEW a \in Ip
          PROVE  ctr_dns_server'[a] = IF a \in e.ips /\ cur \notin Internal
                                      THEN e.dns_servers ELSE ctr_dns_server[a]
      BY <2>1 DEF MergeEntry
    <3> HIDE DEF e
    <3>5. ASSUME NEW a \in Ip
          PROVE  \/ /\ ctr_dns_server'[a] = NoDns
                    /\ \A f \in File : \A i \in Nat : ~ Gives(f, i, a)'
                 \/ \E f \in File : \E i \in Nat :
                       /\ Gives(f, i, a)'
                       /\ ctr_dns_server'[a] = Parsed(f).entries[i].dns_servers
      <4>1. CASE a \in e.ips /\ cur \notin Internal
        <5>1. PICK f \in File, i \in Nat : f = cur /\ i = pos
          BY <3>1
        <5>2. Gives(f, i, a)'
          BY <3>3, <4>1, <5>1
        <5>3. ctr_dns_server'[a] = Parsed(f).entries[i].dns_servers
          BY <3>4, <4>1, <5>1 DEF e
        <5> QED BY <5>2, <5>3
      <4>2. CASE ~ (a \in e.ips /\ cur \notin Internal)
        <5>1. ctr_dns_server'[a] = ctr_dns_server[a]
          BY <3>4, <4>2
        <5>2. ASSUME NEW f \in File, NEW i \in Nat
              PROVE  Gives(f, i, a)' <=> Gives(f, i, a)
          BY <3>3, <4>2
        <5> QED BY <5>1, <5>2 DEF ResolverInv, OwnServersInv
      <4> QED BY <4>1, <4>2
    <3> QED BY <1>0, <3>5 DEF OwnServersInv
  <2>2. CASE ~ MergeEntry
    <3>1. UNCHANGED ctr_dns_server
      BY <2>2 DEF Next, vars, maps, SkipFile, OpenFile, EndFile, SetUp, Terminated
    <3>2. \A f \in File : \A i \in Nat : \A a \in Ip :
             Gives(f, i, a)' <=> Gives(f, i, a)
      BY <1>0, <2>2, MergedStep DEF Gives
    <3> QED BY <1>0, <3>1, <3>2 DEF ResolverInv, OwnServersInv
  <2> QED BY <2>1, <2>2
<1>2. NetworkServersInv'
  <2>1. OneFilePerNetwork' <=> OneFilePerNetwork
    BY <1>0 DEF OneFilePerNetwork
  <2>2. ASSUME NEW f \in File, SkipFile(f) \/ OpenFile(f), NEW n \in Network
        PROVE  /\ network_dns_server'[n] \subseteq ServersRead(n)'
               /\ OneFilePerNetwork => network_dns_server'[n] = ServersRead(n)'
    <3>1. unread' = unread \ {f} /\ f \in unread
      BY <2>2 DEF SkipFile, OpenFile
    <3>2. /\ network_dns_server[n] \subseteq ServersRead(n)
          /\ OneFilePerNetwork => network_dns_server[n] = ServersRead(n)
      BY DEF ResolverInv, NetworkServersInv
    <3>3. CASE SkipFile(f) \/ n # NetworkOf[f]
      <4>1. network_dns_server'[n] = network_dns_server[n]
        BY <2>2, <3>3, FileAssumption DEF SkipFile, OpenFile, maps, TypeOK
      <4>2. {g \in File \ (Internal \cup unread') : Valid(g)' /\ NetworkOf[g] = n}
               = {g \in File \ (Internal \cup unread) : Valid(g) /\ NetworkOf[g] = n}
        BY <1>0, <2>2, <3>1, <3>3 DEF SkipFile
      <4>3. ServersRead(n)' = ServersRead(n)
        BY <1>0, <4>2 DEF ServersRead
      <4> QED BY <3>2, <4>1, <4>3
    <3>4. CASE OpenFile(f) /\ n = NetworkOf[f]
      <4>1. /\ Valid(f)
            /\ network_dns_server'[n] = IF f \in Internal THEN {}
                  ELSE IF Parsed(f).dns # {} THEN Parsed(f).dns ELSE network_dns_server[n]
        BY <3>4 DEF OpenFile, TypeOK
      <4>2. ServersRead(n)' = IF f \in Internal THEN ServersRead(n)
                              ELSE ServersRead(n) \cup Parsed(f).dns
        <5>1. {g \in File \ (Internal \cup unread') : Valid(g)' /\ NetworkOf[g] = n}
                 = {g \in File \ (Internal \cup unread) : Valid(g) /\ NetworkOf[g] = n}
                      \cup (IF f \in Internal THEN {} ELSE {f})
          BY <1>0, <3>1, <3>4, <4>1
        <5> QED BY <1>0, <5>1 DEF ServersRead
      <4>3. OneFilePerNetwork => ServersRead(n) = {}
        BY <3>1, <3>4, <4>1 DEF OneFilePerNetwork, ServersRead
      <4> QED BY <3>2, <4>1, <4>2, <4>3
    <3> QED BY <2>2, <3>3, <3>4
  <2>3. ASSUME UNCHANGED <<unread, network_dns_server>> PROVE NetworkServersInv'
    <3>1. \A n \in Network : ServersRead(n)' = ServersRead(n)
      BY <1>0, <2>3 DEF ServersRead
    <3> QED BY <2>1, <2>3, <3>1 DEF ResolverInv, NetworkServersInv
  <2>4. CASE \E f \in File : SkipFile(f) \/ OpenFile(f)
    BY <2>1, <2>2, <2>4 DEF NetworkServersInv
  <2>5. CASE MergeEntry \/ EndFile \/ SetUp \/ UNCHANGED vars
    BY <2>3, <2>5 DEF MergeEntry, EndFile, SetUp, vars, maps
  <2> QED BY <2>4, <2>5 DEF Next, Terminated
<1> QED BY <1>1, <1>2 DEF ResolverInv

LEMMA ResolverInvariance == Spec => []ResolverInv
<1>1. IInv /\ ResolverInv /\ [Next]_vars => ResolverInv'
  BY ResolverStep DEF IInv
<1> QED BY <1>1, ResolverInit, Invariance, PTL DEF Spec

\* The servers asked on behalf of a container come from its external entries
\* and from the external networks it is in.
LEMMA ResolversFound == IInv /\ ResolverInv => ResolversComeFromExternalNetworks
<1> SUFFICES ASSUME IInv, ResolverInv, pc = "done", NEW r \in Ip
             PROVE  LET external ==
                            {x \in (File \ Internal) \X UNION {EntriesIn(f) : f \in File} :
                                x[2] \in EntriesIn(x[1]) /\ r \in x[2].ips}
                        own == TheBackend.ctr_dns_server[r]
                        scoped == get_network_scoped_resolvers(TheBackend, r)
                        named == UNION {Parsed(f).dns : f \in {g \in File \ Internal :
                                    Valid(g) /\ NetworkOf[g] \in NetworksFor(r)}}
                    IN  /\ own # NoDns => \E x \in external : x[2].dns_servers = own
                        /\ \A x \in external : external = {x} => own = x[2].dns_servers
                        /\ scoped \subseteq named
                        /\ OneFilePerNetwork => scoped = named
  BY DEF ResolversComeFromExternalNetworks
<1> DEFINE external ==
             {x \in (File \ Internal) \X UNION {EntriesIn(f) : f \in File} :
                 x[2] \in EntriesIn(x[1]) /\ r \in x[2].ips}
           own == TheBackend.ctr_dns_server[r]
<1>1. /\ own = ctr_dns_server[r]
      /\ TheBackend.network_dns_server = network_dns_server
      /\ TheBackend.ip_mappings[r] = NetworksFor(r)
  BY FinishedMaps DEF TheBackend
<1>2. TypeOK /\ ScanInv
  BY DEF IInv
<1>3. \A f \in File : \A i \in Nat : Gives(f, i, r) =>
          <<f, Parsed(f).entries[i]>> \in external
  BY <1>2, AllMerged DEF Gives
<1>4. \A x \in external : \E f \in File : \E i \in Nat :
          Gives(f, i, r) /\ x = <<f, Parsed(f).entries[i]>>
  <2> SUFFICES ASSUME NEW x \in external
               PROVE  \E f \in File : \E i \in Nat :
                         Gives(f, i, r) /\ x = <<f, Parsed(f).entries[i]>>
    OBVIOUS
  <2>1. /\ x = <<x[1], x[2]>> /\ x[1] \in File /\ x[1] \notin Internal
        /\ x[2] \in EntriesIn(x[1]) /\ r \in x[2].ips
    OBVIOUS
  <2>2. PICK i \in Nat : Merged(x[1], i) /\ Parsed(x[1]).entries[i] = x[2]
    BY <1>2, <2>1, AllMerged
  <2> QED BY <2>1, <2>2 DEF Gives
<1>5. \/ own = NoDns /\ \A f \in File : \A i \in Nat : ~ Gives(f, i, r)
      \/ \E f \in File : \E i \in Nat :
            Gives(f, i, r) /\ own = Parsed(f).entries[i].dns_servers
  BY <1>1 DEF ResolverInv, OwnServersInv
<1> HIDE DEF external, own
<1>6. own # NoDns => \E x \in external : x[2].dns_servers = own
  BY <1>3, <1>5
<1>7. \A x \in external : external = {x} => own = x[2].dns_servers
  BY <1>3, <1>4, <1>5
<1> DEFINE scoped == get_network_scoped_resolvers(TheBackend, r)
           named == UNION {Parsed(f).dns : f \in {g \in File \ Internal :
                       Valid(g) /\ NetworkOf[g] \in NetworksFor(r)}}
<1>8. scoped \subseteq named /\ (OneFilePerNetwork => scoped = named)
  <2>1. \A n \in NetworksFor(r) :
           /\ network_dns_server[n] \subseteq ServersRead(n)
           /\ OneFilePerNetwork => network_dns_server[n] = ServersRead(n)
    BY DEF ResolverInv, NetworkServersInv, NetworksFor
  <2>2. scoped = UNION {network_dns_server[n] : n \in NetworksFor(r)}
    BY <1>1 DEF get_network_scoped_resolvers
  <2>3. named = UNION {ServersRead(n) : n \in NetworksFor(r)}
    BY <1>2 DEF ScanInv, ServersRead
  <2> HIDE DEF scoped, named
  <2> QED BY <2>1, <2>2, <2>3
<1> QED BY <1>6, <1>7, <1>8 DEF external, own

\* ... in whatever order the directory lists the files.
THEOREM ExternalResolvers == Spec => []ResolversComeFromExternalNetworks
  BY ResolversFound, ResolverInvariance, Invariance, PTL

-----------------------------------------------------------------------------
(* What process_message makes of the finished store.                       *)

\* What is published is a store as the listeners' side expects it: whatever
\* the files hold, no query meets a map of another shape.
THEOREM StoreIsWellFormed == Spec => [](TheBackend \in Backends)
<1>1. TypeOK => TheBackend \in Backends
  BY DEF TypeOK, TheBackend, Backends
<1> QED BY <1>1, Typed, PTL

LEMMA QuestionFacts ==
    ASSUME NEW q \in Questions
    PROVE  /\ q.from \in Ip
           /\ q.type = "PTR" => q.target \in Ip
           /\ q.type # "PTR" => q.type \in {"A", "AAAA", "OTHER"} /\ q.label \in Label
  BY DEF Questions

\* The names of an address, in terms of the files.
LEMMA ReverseNames ==
    ASSUME IInv, pc = "done", NEW r \in Ip, NEW a \in Ip
    PROVE  /\ reverse_lookup(TheBackend, r, a) # {} <=>
                 \E f \in File : \E e \in EntriesIn(f) :
                    NetworkOf[f] \in NetworksFor(r) /\ a \in e.ips
           /\ \A names \in reverse_lookup(TheBackend, r, a) :
                 /\ names # {} /\ names \subseteq Label
                 /\ \A l \in names : \E f \in File : \E e \in EntriesIn(f) :
                       /\ NetworkOf[f] \in NetworksFor(r)
                       /\ a \in e.ips /\ l \in e.aliases
<1>1. /\ TheBackend.ip_mappings[r] = NetworksFor(r)
      /\ TheBackend.reverse_mappings = reverse
      /\ NetworksFor(r) \subseteq Network
  BY FinishedMaps DEF TheBackend, NetworksFor
<1>2. reverse_lookup(TheBackend, r, a) = {reverse[n][a] : n \in NetworksFor(r)} \ {{}}
  BY <1>1 DEF reverse_lookup
<1>3. \A n \in NetworksFor(r), l \in Label :
         l \in reverse[n][a] <=> \E f \in File : \E e \in EntriesIn(f) :
                NetworkOf[f] = n /\ l \in e.aliases /\ a \in e.ips
  BY <1>1, FinishedMaps DEF IInv, NameInv
<1>4. \A n \in NetworksFor(r) : reverse[n][a] \subseteq Label
  BY <1>1 DEF IInv, TypeOK
<1>5. \A f \in File : \A e \in EntriesIn(f) : \E l \in Label : l \in e.aliases
  <2> SUFFICES ASSUME NEW f \in File, NEW e \in EntriesIn(f)
               PROVE  \E l \in Label : l \in e.aliases
    OBVIOUS
  <2>1. e \in Entries
    BY EntryFacts DEF EntriesIn, IInv
  <2>2. e.aliases \in (SUBSET Label) \ {{}}
    BY <2>1 DEF Entries
  <2> QED BY <2>2
<1>6. ASSUME NEW names \in reverse_lookup(TheBackend, r, a)
      PROVE  /\ names # {} /\ names \subseteq Label
             /\ \E n \in NetworksFor(r) : names = reverse[n][a]
  BY <1>2, <1>4
<1>7. ASSUME NEW f \in File, NEW e \in EntriesIn(f),
             NetworkOf[f] \in NetworksFor(r), a \in e.ips
      PROVE  reverse_lookup(TheBackend, r, a) # {}
  <2>1. PICK l \in Label : l \in e.aliases
    BY <1>5
  <2>2. l \in reverse[NetworkOf[f]][a]
    BY <1>3, <1>7, <2>1
  <2> QED BY <1>2, <1>7, <2>2
<1>8. \A names \in reverse_lookup(TheBackend, r, a) : \A l \in names :
         \E f \in File : \E e \in EntriesIn(f) :
            NetworkOf[f] \in NetworksFor(r) /\ a \in e.ips /\ l \in e.aliases
  BY <1>3, <1>6
<1>9. reverse_lookup(TheBackend, r, a) # {} =>
         \E f \in File : \E e \in EntriesIn(f) :
            NetworkOf[f] \in NetworksFor(r) /\ a \in e.ips
  BY <1>6, <1>8
<1> QED BY <1>6, <1>7, <1>8, <1>9

\* An answer follows from the files, and no network's names leak into another.
THEOREM AnswersFromFiles == Spec => []AnswersFollowFiles
<1>1. IInv => AnswersFollowFiles
  <2> SUFFICES ASSUME IInv, pc = "done", NEW n \in Network, NEW q \in Questions
               PROVE
            LET shared == {f \in File :
                              \/ NetworkOf[f] \in NetworksFor(q.from)
                              \/ NetworksFor(q.from) = {} /\ NetworkOf[f] = n}
                entries ==
                    IF q.type = "PTR"
                    THEN {e \in UNION {EntriesIn(f) : f \in shared} :
                             q.lower /\ NetworksFor(q.from) # {} /\ q.target \in e.ips}
                    ELSE {e \in UNION {EntriesIn(f) : f \in shared} :
                             q.type # "OTHER" /\ q.label \in e.aliases /\ e.ips # {}}
            IN  /\ KnownHere(TheBackend, n, q) <=> entries # {}
                /\ KnownHere(TheBackend, n, q) =>
                      \A r \in LocalAnswers(TheBackend, n, q) :
                         IF q.type = "PTR"
                         THEN /\ r.data # {}
                              /\ r.data \subseteq UNION {e.aliases : e \in entries}
                         ELSE r.data = (UNION {e.ips : e \in entries})
                                          \cap (IF q.type = "A" THEN V4 ELSE V6)
    BY DEF AnswersFollowFiles
  <2> DEFINE shared == {f \in File :
                           \/ NetworkOf[f] \in NetworksFor(q.from)
                           \/ NetworksFor(q.from) = {} /\ NetworkOf[f] = n}
  <2>1. q.from \in Ip
    BY QuestionFacts
  <2>2. CASE q.type = "PTR"
    <3> DEFINE entries ==
                 {e \in UNION {EntriesIn(f) : f \in shared} :
                     q.lower /\ NetworksFor(q.from) # {} /\ q.target \in e.ips}
               names == reverse_lookup(TheBackend, q.from, q.target)
    <3>1. q.target \in Ip
      BY <2>2, QuestionFacts
    <3>2. KnownHere(TheBackend, n, q) <=> q.lower /\ names # {}
      BY <2>2 DEF KnownHere
    <3>3. \A e : e \in entries <=>
             /\ q.lower /\ q.target \in e.ips
             /\ \E f \in File : NetworkOf[f] \in NetworksFor(q.from) /\ e \in EntriesIn(f)
      OBVIOUS
    <3>4. q.lower => (names # {} <=> entries # {})
      BY <2>1, <3>1, <3>3, ReverseNames
    <3>5. ASSUME NEW r \in LocalAnswers(TheBackend, n, q), q.lower
          PROVE  r.data # {} /\ r.data \subseteq UNION {e.aliases : e \in entries}
      <4>1. PICK some \in names : r = Answer(some)
        BY <2>2 DEF LocalAnswers
      <4>2. r.data = some
        BY <4>1 DEF Answer
      <4>3. /\ some # {}
            /\ \A l \in some : \E f \in File : \E e \in EntriesIn(f) :
                   /\ NetworkOf[f] \in NetworksFor(q.from)
                   /\ q.target \in e.ips /\ l \in e.aliases
        BY <2>1, <3>1, ReverseNames
      <4> QED BY <3>3, <3>5, <4>2, <4>3
    <3>6. q.lower \/ entries = {}
      OBVIOUS
    <3> QED BY <2>2, <3>2, <3>4, <3>5, <3>6
  <2>3. CASE q.type # "PTR"
    <3> DEFINE entries ==
                 {e \in UNION {EntriesIn(f) : f \in shared} :
                     q.type # "OTHER" /\ q.label \in e.aliases /\ e.ips # {}}
               found == lookup(TheBackend, q.from, n, q.label)
    <3>1. q.label \in Label /\ q.type \in {"A", "AAAA", "OTHER"}
      BY <2>3, QuestionFacts
    <3>2. found =
                {i \in Ip : \E f \in File : \E e \in EntriesIn(f) :
                    /\ i \in e.ips
                    /\ q.label \in e.aliases
                    /\ \/ NetworkOf[f] \in NetworksFor(q.from)
                       \/ NetworksFor(q.from) = {} /\ NetworkOf[f] = n}
      BY <2>1, <3>1, NamesFound DEF NamesResolveInSharedNetworks
    <3>3. KnownHere(TheBackend, n, q) <=> q.type # "OTHER" /\ found # {}
      BY <2>3, <3>1 DEF KnownHere
    <3>4. \A f \in File : \A e \in EntriesIn(f) : e.ips \subseteq Ip
      <4> SUFFICES ASSUME NEW f \in File, NEW e \in EntriesIn(f)
                   PROVE  e.ips \subseteq Ip
        OBVIOUS
      <4>1. e \in Entries
        BY EntryFacts DEF EntriesIn, IInv
      <4> QED BY <4>1 DEF Entries
    <3>5. q.type # "OTHER" => found = UNION {e.ips : e \in entries}
      BY <3>2, <3>4
    <3>6. entries # {} <=> q.type # "OTHER" /\ found # {}
      BY <3>2, <3>4
    <3>7. \A r \in LocalAnswers(TheBackend, n, q) :
             r.data = found \cap (IF q.type = "A" THEN V4 ELSE V6)
      BY <2>3 DEF LocalAnswers, Answer
    <3>8. /\ KnownHere(TheBackend, n, q) <=> entries # {}
          /\ KnownHere(TheBackend, n, q) =>
                \A r \in LocalAnswers(TheBackend, n, q) :
                   r.data = (UNION {e.ips : e \in entries})
                               \cap (IF q.type = "A" THEN V4 ELSE V6)
      <4> HIDE DEF entries, found
      <4> QED BY <3>3, <3>5, <3>6, <3>7
    <3> QED BY <2>3, <3>8
  <2> QED BY <2>2, <2>3
<1> QED BY <1>1, Invariance, PTL

\* No query leaves the host for an internal container, and none is sent to a
\* server that only the file of an internal network names.
THEOREM ForwardingFromFiles == Spec => []ForwardingFollowsFiles
<1>1. IInv /\ ResolverInv => ForwardingFollowsFiles
  <2> SUFFICES ASSUME IInv, ResolverInv, pc = "done",
                      NEW q \in Questions, NEW proxyOff \in BOOLEAN
               PROVE
            LET external == {f \in File \ Internal :
                                Valid(f) /\ NetworkOf[f] \in NetworksFor(q.from)}
                named == ForwardTo(TheBackend, q, {})
            IN  /\ MayForward(TheBackend, q, proxyOff) =>
                      ~proxyOff /\ (NetworksFor(q.from) = {} \/ external # {})
                /\ \A s \in named :
                      \/ \E f \in external : s \in Parsed(f).dns
                      \/ \E f \in File \ Internal : \E e \in EntriesIn(f) :
                            q.from \in e.ips /\ e.dns_servers # NoDns /\ s \in e.dns_servers
                /\ OneFilePerNetwork /\ named = {} => \A f \in external : Parsed(f).dns = {}
                /\ \A h \in SUBSET Server :
                      ForwardTo(TheBackend, q, h) = IF named = {} THEN h ELSE named
    BY DEF ForwardingFollowsFiles
  <2> DEFINE external == {f \in File \ Internal :
                             Valid(f) /\ NetworkOf[f] \in NetworksFor(q.from)}
             named == ForwardTo(TheBackend, q, {})
             own == TheBackend.ctr_dns_server[q.from]
             scoped == get_network_scoped_resolvers(TheBackend, q.from)
  <2>1. q.from \in Ip
    BY QuestionFacts
  <2>2. \A h : ForwardTo(TheBackend, q, h) =
                  IF own # NoDns /\ own # {} THEN own
                  ELSE IF own = NoDns /\ scoped # {} THEN scoped ELSE h
    BY DEF ForwardTo
  <2>3. /\ own # NoDns => \E f \in File \ Internal : \E e \in EntriesIn(f) :
               q.from \in e.ips /\ e.dns_servers = own
        /\ scoped \subseteq UNION {Parsed(f).dns : f \in external}
        /\ OneFilePerNetwork => scoped = UNION {Parsed(f).dns : f \in external}
    BY <2>1, ResolversFound DEF ResolversComeFromExternalNetworks
  <2>4. own # {}
    <3> SUFFICES ASSUME own # NoDns PROVE own # {}
      BY NoDnsAssumption
    <3>1. PICK f \in File : \E e \in EntriesIn(f) : e.dns_servers = own
      BY <2>3
    <3>2. PICK e \in EntriesIn(f) : e.dns_servers = own
      BY <3>1
    <3>3. e \in Entries
      BY EntryFacts DEF EntriesIn, IInv
    <3> QED BY <3>2, <3>3 DEF Entries
  <2>5. MayForward(TheBackend, q, proxyOff) =>
           ~proxyOff /\ (NetworksFor(q.from) = {} \/ external # {})
    BY <2>1, InternalDecided DEF MayForward, InternalIffAllNetworksAre
  <2> HIDE DEF own, scoped
  <2>6. named = IF own # NoDns THEN own ELSE scoped
    BY <2>2, <2>4
  <2>7. \A s \in named :
           \/ \E f \in external : s \in Parsed(f).dns
           \/ \E f \in File \ Internal : \E e \in EntriesIn(f) :
                 q.from \in e.ips /\ e.dns_servers # NoDns /\ s \in e.dns_servers
    <3> HIDE DEF named, external
    <3> QED BY <2>3, <2>6
  <2>8. OneFilePerNetwork /\ named = {} => \A f \in external : Parsed(f).dns = {}
    <3> HIDE DEF named, external
    <3> QED BY <2>3, <2>4, <2>6
  <2>9. \A h \in SUBSET Server :
           ForwardTo(TheBackend, q, h) = IF named = {} THEN h ELSE named
    <3> HIDE DEF named
    <3> QED BY <2>2, <2>4, <2>6
  <2> QED BY <2>5, <2>7, <2>8, <2>9
<1> QED BY <1>1, ResolverInvariance, Invariance, PTL
-----------------------------------------------------------------------------
(* What the supervisor is told to listen on.                               *)

\* The first line of a readable file has an address.
LEMMA BindFacts ==
    ASSUME TypeOK, NEW f \in File, Valid(f)
    PROVE  Parsed(f).bind # {}
<1>1. /\ Parsed(f) = parse_config(dir[f]) /\ dir[f] \in Text
      /\ parse_config(dir[f]) # Malformed
  BY DEF TypeOK, Valid, Parsed
<1>2. Parses(dir[f]) /\ Parsed(f).bind = dir[f][1][1]
  BY <1>1, ParsedFacts, ReadFacts
<1> QED BY <1>2, BlankAssumption DEF Parses, FirstLineParses, Words

LEMMA ListenStep == TypeOK /\ ListenInv /\ [Next]_vars => ListenInv'
<1> SUFFICES ASSUME TypeOK, ListenInv, [Next]_vars, NEW n \in Network
             PROVE  listen_ips'[n] = BindsOf(n, File \ unread)'
  BY DEF ListenInv
<1>1. \A f \in File : Parsed(f)' = Parsed(f) /\ (Valid(f)' <=> Valid(f))
  BY DEF Next, vars, maps, SkipFile, OpenFile, MergeEntry, EndFile, SetUp,
     Terminated, Parsed, Valid
<1>2. listen_ips[n] = BindsOf(n, File \ unread)
  BY DEF ListenInv
<1>3. ASSUME NEW f \in File, SkipFile(f)
      PROVE  listen_ips'[n] = BindsOf(n, File \ unread)'
  <2>1. UNCHANGED listen_ips /\ unread' = unread \ {f} /\ ~ Valid(f)
    BY <1>3 DEF SkipFile, maps
  <2>2. {g \in File \ unread' : Valid(g)' /\ NetworkOf[g] = n}
           = {g \in File \ unread : Valid(g) /\ NetworkOf[g] = n}
    BY <1>1, <2>1
  <2> QED BY <1>1, <1>2, <2>1, <2>2 DEF BindsOf
<1>4. ASSUME NEW f \in File, OpenFile(f)
      PROVE  listen_ips'[n] = BindsOf(n, File \ unread)'
  <2> DEFINE opened == {g \in File \ unread : Valid(g) /\ NetworkOf[g] = n}
             opened_ == {g \in File \ unread' : Valid(g)' /\ NetworkOf[g] = n}
  <2>1. /\ unread' = unread \ {f} /\ f \in unread /\ Valid(f)
        /\ listen_ips'[n] = IF n = NetworkOf[f] THEN listen_ips[n] \cup Parsed(f).bind
                            ELSE listen_ips[n]
    BY <1>4, FileAssumption DEF OpenFile, TypeOK
  <2>2. opened_ = IF n = NetworkOf[f] THEN opened \cup {f} ELSE opened
    BY <1>1, <2>1
  <2>3. BindsOf(n, File \ unread)' = UNION {Parsed(g).bind : g \in opened_}
    BY <1>1 DEF BindsOf
  <2>4. BindsOf(n, File \ unread) = UNION {Parsed(g).bind : g \in opened}
    BY DEF BindsOf
  <2> HIDE DEF opened, opened_
  <2>5. CASE n = NetworkOf[f]
    <3>1. opened_ = opened \cup {f}
      BY <2>2, <2>5
    <3>2. UNION {Parsed(g).bind : g \in opened_}
             = (UNION {Parsed(g).bind : g \in opened}) \cup Parsed(f).bind
      BY <3>1
    <3> QED BY <1>2, <2>1, <2>3, <2>4, <2>5, <3>2
  <2>6. CASE n # NetworkOf[f]
    BY <1>2, <2>1, <2>2, <2>3, <2>4, <2>6
  <2> QED BY <2>5, <2>6
<1>5. CASE UNCHANGED <<dir, unread, listen_ips>>
  BY <1>1, <1>2, <1>5 DEF BindsOf
<1> QED
  BY <1>3, <1>4, <1>5 DEF Next, MergeEntry, EndFile, SetUp, Terminated, vars, maps

\* The supervisor binds the addresses of the readable files, and a network
\* with a readable file is never without one to bind: the latter is what the
\* supervisor's module assumes of a configuration (ContentAssumption).
THEOREM ListenersFromFiles == Spec => []ListenersFollowFiles
<1>1. Init => ListenInv
  BY DEF Init, ListenInv, BindsOf
<1>2. ASSUME TypeOK, ScanInv, ListenInv PROVE ListenersFollowFiles
  <2> SUFFICES ASSUME pc = "done", NEW n \in Network
               PROVE  /\ listen_ips[n] = BindsOf(n, File)
                      /\ listen_ips[n] # {}
                            <=> \E f \in File : Valid(f) /\ NetworkOf[f] = n
    BY DEF ListenersFollowFiles
  <2>1. listen_ips[n] = BindsOf(n, File)
    BY <1>2 DEF ListenInv, ScanInv
  <2>2. \A f \in File : Valid(f) => Parsed(f).bind # {}
    BY <1>2, BindFacts
  <2> QED BY <2>1, <2>2 DEF BindsOf
<1> QED BY <1>1, <1>2, ListenStep, Invariance, PTL DEF Spec, IInv
=============================================================================
