---------------------------- MODULE ServerProofs ----------------------------
(***************************************************************************)
(* Proofs, for every value of the constants, of the safety properties of   *)
(* the supervisor.                                                         *)
(***************************************************************************)
EXTENDS ServerProps, TLAPS

\* Listeners are pairs; two with the same address are of the same family;
\* every listener is of one of the two families.
LEMMA KeyFacts ==
    /\ \A k \in Key : k[1] \in Network /\ k[2] \in Ip
    /\ Key = KeysOf("v4") \cup KeysOf("v6")
    /\ KeysOf("v4") \cap KeysOf("v6") = {}
    /\ \A f \in Families : \A j, k \in Key :
          j[2] = k[2] /\ k \in KeysOf(f) => j \in KeysOf(f)
    /\ \A b : Expected(b) \subseteq Key
    /\ Nobody \notin Key
  BY NobodyAssumption, AddressAssumption DEF Key, KeysOf, Ip, Families, Expected

\* Nothing is configured by the empty configuration.
LEMMA NoConfigExpectsNothing == Expected(NoConfig) = {}
  BY ContentAssumption DEF Expected, NoConfig, Key

\* A file contributes a valid content or nothing.
LEMMA EffectiveType == \A c : Effective(c) \in Content \cup {Absent}
  BY DEF Effective

-----------------------------------------------------------------------------
\* The invariant holds before the first directory is read.
LEMMA InitInv == Init => IInv
<1> SUFFICES ASSUME Init PROVE IInv
  OBVIOUS
<1>1. TypeOK
  <2>1. changes \in 0..MaxChanges
    BY BoundAssumption DEF Init
  <2>6. /\ sighup \in BOOLEAN /\ signalDue \in BOOLEAN
        /\ pidfile \in BOOLEAN /\ errors \in BOOLEAN /\ dirRead \in BOOLEAN
    BY Zenon DEF Init
  <2>2. /\ file \in [Network -> Content \cup {Absent, Malformed}]
        /\ conf \in [Network -> Content \cup {Absent}]
        /\ backend \in [Network -> Content \cup {Absent}]
        /\ nameservers \in Resolv \cup {NoServers}
    BY DEF Init, NoConfig
  <2>3. /\ status \in {"starting", "serving", "stopped", "failed"}
        /\ pc \in ReloadPoints \cup {"idle", "exited"}
        /\ fam \in Families
    BY DEF Init, ReloadPoints, Families
  <2>4. /\ cur \in Key \cup {Nobody}
        /\ task \in [Key -> {"none", "running", "done"}]
        /\ udp \in [Ip -> Key \cup {Nobody}]
        /\ tcp \in [Ip -> Key \cup {Nobody}]
    BY DEF Init
  <2>5. /\ listing \subseteq Network
        /\ unread \subseteq Network
        /\ skipped \subseteq Network
        /\ unbound \subseteq Key
        /\ toStart \subseteq Key
        /\ handles \subseteq Key
        /\ awaiting \subseteq Key
    BY DEF Init
  <2> QED BY <2>1, <2>2, <2>3, <2>4, <2>5, <2>6 DEF TypeOK
<1>2. SocketInv
  BY DEF Init, SocketInv
<1>3. TaskInv
  BY DEF Init, TaskInv
<1>4. PlanInv
  BY NoConfigExpectsNothing DEF Init, PlanInv, HandlesMatchBackend
<1>5. DrainInv
  BY DEF Init, DrainInv
<1>6. PhaseInv
  BY DEF Init, PhaseInv, Exited
<1>7. UnboundInv
  BY DEF Init, UnboundInv
<1> QED BY <1>1, <1>2, <1>3, <1>4, <1>5, <1>6, <1>7 DEF IInv

\* The exit resets everything the invariant relates.
LEMMA ExitInv ==
    ASSUME TypeOK, NEW how \in {"stopped", "failed"}, Exit(how),
           pidfile' \in BOOLEAN
    PROVE  IInv'
<1>1. TypeOK'
  BY DEF TypeOK, Exit, netavarkVars, sharedVars, Families, NoConfig
<1>2. SocketInv'
  BY DEF Exit, SocketInv
<1>3. TaskInv'
  BY DEF Exit, TaskInv
<1>4. PlanInv'
  BY DEF Exit, PlanInv, HandlesMatchBackend
<1>5. DrainInv'
  BY DEF Exit, DrainInv
<1>6. PhaseInv'
  BY DEF Exit, PhaseInv, Exited
<1>7. UnboundInv'
  BY DEF Exit, UnboundInv
<1> QED BY <1>1, <1>2, <1>3, <1>4, <1>5, <1>6, <1>7 DEF IInv

-----------------------------------------------------------------------------
\* Every action that does not end the process keeps every variable's type.
LEMMA TypeStep ==
    ASSUME TypeOK, pc = "bind_tcp" => cur \in Key
    PROVE  /\ BeginReload \/ OpenDir \/ KeepServing \/ Publish => TypeOK'
           /\ RemovePid \/ Drain \/ DrainV4Joined \/ ReadNameservers => TypeOK'
           /\ StopStale \/ StaleJoined \/ BindTcp \/ BindTcpFails => TypeOK'
           /\ FinishV4 \/ Ready \/ Watch => TypeOK'
           /\ ReloadNameservers \/ SendSighup => TypeOK'
           /\ \A n \in Network : ReadFile(n) \/ WriteConfig(n) => TypeOK'
           /\ \A k \in Key : BindUdp(k) \/ TaskEnds(k) => TypeOK'
<1> USE DEF TypeOK, netavarkVars, processVars, parseVars, sharedVars,
            startVars, taskVars, socketVars, ReloadPoints, Families
<1>1. BeginReload => TypeOK'
  BY DEF BeginReload
<1>2. OpenDir => TypeOK'
  BY DEF OpenDir, NoConfig
<1>3. KeepServing => TypeOK'
  BY DEF KeepServing, NoConfig
<1>4. Publish => TypeOK'
  BY DEF Publish, NoConfig
<1>5. RemovePid => TypeOK'
  BY DEF RemovePid
<1>6. Drain => TypeOK'
  BY DEF Drain
<1>7. DrainV4Joined => TypeOK'
  BY DEF DrainV4Joined, TasksJoined
<1>8. ReadNameservers => TypeOK'
  BY DEF ReadNameservers
<1>9. StopStale => TypeOK'
  BY DEF StopStale, Stale
<1>10. StaleJoined => TypeOK'
  <2> SUFFICES ASSUME StaleJoined PROVE TypeOK'
    OBVIOUS
  <2>1. task' \in [Key -> {"none", "running", "done"}]
    BY DEF StaleJoined, TasksJoined
  <2>2. toStart' \subseteq Key
    BY KeyFacts DEF StaleJoined
  <2> QED BY <2>1, <2>2 DEF StaleJoined
<1>11. BindTcp => TypeOK'
  BY KeyFacts DEF BindTcp
<1>12. BindTcpFails => TypeOK'
  BY KeyFacts DEF BindTcpFails
<1>13. FinishV4 => TypeOK'
  BY DEF FinishV4
<1>14. Ready => TypeOK'
  BY DEF Ready
<1>21. Watch => TypeOK'
  BY DEF Watch
<1>15. ReloadNameservers => TypeOK'
  BY DEF ReloadNameservers
<1>16. SendSighup => TypeOK'
  BY DEF SendSighup
<1>17. ASSUME NEW n \in Network, ReadFile(n) PROVE TypeOK'
  BY <1>17, EffectiveType DEF ReadFile
<1>18. ASSUME NEW n \in Network, WriteConfig(n) PROVE TypeOK'
  BY <1>18, BoundAssumption DEF WriteConfig
<1>19. ASSUME NEW k \in Key, BindUdp(k) PROVE TypeOK'
  <2>1. /\ k[2] \in Ip /\ toStart' \subseteq Key /\ cur' \in Key \cup {Nobody}
        /\ unbound' \subseteq Key /\ errors' \in BOOLEAN
        /\ pc' \in ReloadPoints \cup {"idle", "exited"}
    BY <1>19, KeyFacts DEF BindUdp
  <2>2. udp' \in [Ip -> Key \cup {Nobody}]
    BY <1>19, <2>1 DEF BindUdp
  <2> QED BY <1>19, <2>1, <2>2 DEF BindUdp
<1>20. ASSUME NEW k \in Key, TaskEnds(k) PROVE TypeOK'
  BY <1>20, KeyFacts DEF TaskEnds
<1> QED
  BY <1>1, <1>2, <1>3, <1>4, <1>5, <1>6, <1>7, <1>8, <1>9, <1>10, <1>11,
     <1>12, <1>13, <1>14, <1>15, <1>16, <1>17, <1>18, <1>19, <1>20,
     <1>21

-----------------------------------------------------------------------------
\* Every step keeps the inductive invariant.
LEMMA StepInv == IInv /\ [Next]_vars => IInv'
<1> SUFFICES ASSUME IInv, [Next]_vars PROVE IInv'
  OBVIOUS
<1> USE DEF netavarkVars, processVars, parseVars, sharedVars, startVars,
            taskVars, socketVars
<1>0. /\ TypeOK /\ SocketInv /\ TaskInv /\ PlanInv /\ UnboundInv
      /\ DrainInv /\ PhaseInv
      /\ pc = "bind_tcp" => cur \in Key
  BY DEF IInv, SocketInv
<1>1. ASSUME BeginReload PROVE IInv'
  <2>1. TypeOK'
    BY <1>0, <1>1, TypeStep
  <2>2. SocketInv'
    BY <1>0, <1>1 DEF BeginReload, SocketInv
  <2>3. TaskInv'
    BY <1>0, <1>1 DEF BeginReload, TaskInv
  <2>4. PlanInv'
    BY <1>0, <1>1 DEF BeginReload, PlanInv, HandlesMatchBackend
  <2>5. DrainInv'
    BY <1>0, <1>1 DEF BeginReload, DrainInv
  <2>6. PhaseInv'
    BY <1>0, <1>1 DEF BeginReload, PhaseInv, Exited
  <2>7. UnboundInv'
    BY <1>0, <1>1, KeyFacts DEF BeginReload, UnboundInv,
       PlanInv, SocketInv, TypeOK
  <2> QED BY <2>1, <2>2, <2>3, <2>4, <2>5, <2>6,
            <2>7 DEF IInv
<1>2. ASSUME OpenDir PROVE IInv'
  <2>1. TypeOK'
    BY <1>0, <1>2, TypeStep
  <2>2. SocketInv'
    BY <1>0, <1>2 DEF OpenDir, SocketInv
  <2>3. TaskInv'
    BY <1>0, <1>2 DEF OpenDir, TaskInv
  <2>4. PlanInv'
    BY <1>0, <1>2 DEF OpenDir, PlanInv, HandlesMatchBackend
  <2>5. DrainInv'
    BY <1>0, <1>2 DEF OpenDir, DrainInv
  <2>6. PhaseInv'
    BY <1>0, <1>2 DEF OpenDir, PhaseInv, Exited
  <2>7. UnboundInv'
    BY <1>0, <1>2, KeyFacts DEF OpenDir, UnboundInv,
       PlanInv, SocketInv, TypeOK
  <2> QED BY <2>1, <2>2, <2>3, <2>4, <2>5, <2>6,
            <2>7 DEF IInv
<1>3. ASSUME NEW n \in Network, ReadFile(n) PROVE IInv'
  <2>1. TypeOK'
    BY <1>0, <1>3, TypeStep
  <2>2. SocketInv'
    BY <1>0, <1>3 DEF ReadFile, SocketInv
  <2>3. TaskInv'
    BY <1>0, <1>3 DEF ReadFile, TaskInv
  <2>4. PlanInv'
    BY <1>0, <1>3 DEF ReadFile, PlanInv, HandlesMatchBackend
  <2>5. DrainInv'
    BY <1>0, <1>3 DEF ReadFile, DrainInv
  <2>6. PhaseInv'
    BY <1>0, <1>3 DEF ReadFile, PhaseInv, Exited
  <2>7. UnboundInv'
    BY <1>0, <1>3, KeyFacts DEF ReadFile, UnboundInv,
       PlanInv, SocketInv, TypeOK
  <2> QED BY <2>1, <2>2, <2>3, <2>4, <2>5, <2>6,
            <2>7 DEF IInv
<1>4. ASSUME KeepServing, pc \in {"open", "read"} PROVE IInv'
  <2>1. TypeOK'
    BY <1>0, <1>4, TypeStep
  <2>2. SocketInv'
    BY <1>0, <1>4 DEF KeepServing, SocketInv
  <2>3. TaskInv'
    BY <1>0, <1>4 DEF KeepServing, TaskInv
  <2>4. PlanInv'
    BY <1>0, <1>4 DEF KeepServing, PlanInv, HandlesMatchBackend
  <2>5. DrainInv'
    BY <1>0, <1>4 DEF KeepServing, DrainInv
  <2>6. PhaseInv'
    BY <1>0, <1>4 DEF KeepServing, PhaseInv, Exited
  <2>7. UnboundInv'
    BY <1>0, <1>4, KeyFacts DEF KeepServing, UnboundInv,
       PlanInv, SocketInv, TypeOK
  <2> QED BY <2>1, <2>2, <2>3, <2>4, <2>5, <2>6,
            <2>7 DEF IInv
<1>5. ASSUME Publish PROVE IInv'
  <2>1. TypeOK'
    BY <1>0, <1>5, TypeStep
  <2>2. SocketInv'
    BY <1>0, <1>5 DEF Publish, SocketInv
  <2>3. TaskInv'
    BY <1>0, <1>5 DEF Publish, TaskInv
  <2>4. PlanInv'
    BY <1>0, <1>5 DEF Publish, PlanInv, HandlesMatchBackend
  <2>5. DrainInv'
    BY <1>0, <1>5 DEF Publish, DrainInv
  <2>6. PhaseInv'
    BY <1>0, <1>5 DEF Publish, PhaseInv, Exited
  <2>7. UnboundInv'
    BY <1>0, <1>5, KeyFacts DEF Publish, UnboundInv,
       PlanInv, SocketInv, TypeOK
  <2> QED BY <2>1, <2>2, <2>3, <2>4, <2>5, <2>6,
            <2>7 DEF IInv
<1>6. ASSUME RemovePid PROVE IInv'
  <2>1. TypeOK'
    BY <1>0, <1>6, TypeStep
  <2>2. SocketInv'
    BY <1>0, <1>6 DEF RemovePid, SocketInv
  <2>3. TaskInv'
    BY <1>0, <1>6 DEF RemovePid, TaskInv
  <2>4. PlanInv'
    BY <1>0, <1>6 DEF RemovePid, PlanInv, HandlesMatchBackend
  <2>5. DrainInv'
    BY <1>0, <1>6 DEF RemovePid, DrainInv, PhaseInv
  <2>6. PhaseInv'
    BY <1>0, <1>6 DEF RemovePid, PhaseInv, Exited
  <2>7. UnboundInv'
    BY <1>0, <1>6, KeyFacts DEF RemovePid, UnboundInv,
       PlanInv, SocketInv, TypeOK
  <2> QED BY <2>1, <2>2, <2>3, <2>4, <2>5, <2>6,
            <2>7 DEF IInv
<1>7. ASSUME Drain PROVE IInv'
  <2>1. TypeOK'
    BY <1>0, <1>7, TypeStep
  <2>2. SocketInv'
    BY <1>0, <1>7, KeyFacts DEF Drain, TypeOK, SocketInv
  <2>3. TaskInv'
    BY <1>0, <1>7, KeyFacts DEF Drain, TypeOK, TaskInv, DrainInv
  <2>4. PlanInv'
    BY <1>0, <1>7, KeyFacts DEF Drain, TypeOK, PlanInv, HandlesMatchBackend
  <2>5. DrainInv'
    BY <1>0, <1>7, KeyFacts DEF Drain, TypeOK, DrainInv
  <2>6. PhaseInv'
    BY <1>0, <1>7, KeyFacts DEF Drain, TypeOK, PhaseInv, Exited
  <2>7. UnboundInv'
    BY <1>0, <1>7, KeyFacts DEF Drain, UnboundInv,
       PlanInv, SocketInv, TypeOK
  <2> QED BY <2>1, <2>2, <2>3, <2>4, <2>5, <2>6,
            <2>7 DEF IInv
<1>8. ASSUME DrainV4Joined PROVE IInv'
  <2>1. TypeOK'
    BY <1>0, <1>8, TypeStep
  <2>2. SocketInv'
    BY <1>0, <1>8, KeyFacts DEF DrainV4Joined, TasksJoined, AllJoined, TypeOK, SocketInv
  <2>3. TaskInv'
    BY <1>0, <1>8, KeyFacts DEF DrainV4Joined, TasksJoined, AllJoined, TypeOK, TaskInv
  <2>4. PlanInv'
    BY <1>0, <1>8, KeyFacts DEF DrainV4Joined, TasksJoined, AllJoined, TypeOK, PlanInv, HandlesMatchBackend
  <2>5. DrainInv'
    BY <1>0, <1>8, KeyFacts DEF DrainV4Joined, TasksJoined, AllJoined, TypeOK, DrainInv
  <2>6. PhaseInv'
    BY <1>0, <1>8, KeyFacts DEF DrainV4Joined, TasksJoined, AllJoined, TypeOK, PhaseInv, Exited
  <2>7. UnboundInv'
    BY <1>0, <1>8, KeyFacts DEF DrainV4Joined, TasksJoined, AllJoined, UnboundInv,
       PlanInv, SocketInv, TypeOK
  <2> QED BY <2>1, <2>2, <2>3, <2>4, <2>5, <2>6,
            <2>7 DEF IInv
<1>9. ASSUME ReadNameservers PROVE IInv'
  <2>1. TypeOK'
    BY <1>0, <1>9, TypeStep
  <2>2. SocketInv'
    BY <1>0, <1>9 DEF ReadNameservers, SocketInv
  <2>3. TaskInv'
    BY <1>0, <1>9 DEF ReadNameservers, TaskInv
  <2>4. PlanInv'
    BY <1>0, <1>9 DEF ReadNameservers, PlanInv, HandlesMatchBackend, PhaseInv
  <2>5. DrainInv'
    BY <1>0, <1>9 DEF ReadNameservers, DrainInv
  <2>6. PhaseInv'
    BY <1>0, <1>9 DEF ReadNameservers, PhaseInv, Exited
  <2>7. UnboundInv'
    BY <1>0, <1>9, KeyFacts DEF ReadNameservers, UnboundInv,
       PlanInv, SocketInv, TypeOK
  <2> QED BY <2>1, <2>2, <2>3, <2>4, <2>5, <2>6,
            <2>7 DEF IInv
<1>10. ASSUME StopStale PROVE IInv'
  <2>1. TypeOK'
    BY <1>0, <1>10, TypeStep
  <2>2. SocketInv'
    BY <1>0, <1>10, KeyFacts DEF StopStale, Stale, SocketInv
  <2>3. TaskInv'
    BY <1>0, <1>10, KeyFacts DEF StopStale, Stale, TaskInv
  <2>4. PlanInv'
    BY <1>0, <1>10, KeyFacts DEF StopStale, Stale, PlanInv, HandlesMatchBackend
  <2>5. DrainInv'
    BY <1>0, <1>10, KeyFacts DEF StopStale, Stale, DrainInv
  <2>6. PhaseInv'
    BY <1>0, <1>10, KeyFacts DEF StopStale, Stale, PhaseInv, Exited
  <2>7. UnboundInv'
    BY <1>0, <1>10, KeyFacts DEF StopStale, Stale, UnboundInv,
       PlanInv, SocketInv, TypeOK
  <2> QED BY <2>1, <2>2, <2>3, <2>4, <2>5, <2>6,
            <2>7 DEF IInv
<1>11. ASSUME StaleJoined PROVE IInv'
  <2>1. TypeOK'
    BY <1>0, <1>11, TypeStep
  <2>2. SocketInv'
    BY <1>0, <1>11, KeyFacts DEF StaleJoined, TasksJoined, AllJoined, TypeOK, SocketInv
  <2>3. TaskInv'
    BY <1>0, <1>11, KeyFacts DEF StaleJoined, TasksJoined, AllJoined, TypeOK, TaskInv
  <2>4. PlanInv'
    BY <1>0, <1>11, KeyFacts DEF StaleJoined, TasksJoined, AllJoined, TypeOK, PlanInv, HandlesMatchBackend
  <2>5. DrainInv'
    BY <1>0, <1>11, KeyFacts DEF StaleJoined, TasksJoined, AllJoined, TypeOK, DrainInv
  <2>6. PhaseInv'
    BY <1>0, <1>11, KeyFacts DEF StaleJoined, TasksJoined, AllJoined, TypeOK, PhaseInv, Exited
  <2>7. UnboundInv'
    <3>1. /\ pc = "await" /\ pc' = "start" /\ UNCHANGED <<fam, backend, handles>>
          /\ UNCHANGED <<unbound, errors, cur>> /\ cur = Nobody
          /\ toStart' = (Expected(backend) \cap KeysOf(fam)) \ handles
      BY <1>0, <1>11 DEF StaleJoined, SocketInv
    <3>2. unbound \cap toStart' = {}
      BY <1>0, <3>1, KeyFacts DEF UnboundInv, TypeOK, Families
    <3> QED BY <1>0, <3>1, <3>2 DEF UnboundInv
  <2> QED BY <2>1, <2>2, <2>3, <2>4, <2>5, <2>6,
            <2>7 DEF IInv
<1>12. ASSUME NEW k \in Key, BindUdp(k) PROVE IInv'
  <2>1. TypeOK'
    BY <1>0, <1>12, TypeStep
  <2>2. SocketInv'
    BY <1>0, <1>12, KeyFacts DEF BindUdp, TypeOK, SocketInv
  <2>3. TaskInv'
    BY <1>0, <1>12, KeyFacts DEF BindUdp, TypeOK, TaskInv
  <2>4. PlanInv'
    <3>1. cur = Nobody /\ Nobody \notin Key /\ k \in toStart /\ pc = "start"
      BY <1>0, <1>12, KeyFacts DEF BindUdp, SocketInv
    <3>2. CASE pc' = "bind_tcp" /\ cur' = k /\ UNCHANGED unbound
      <4>1. toStart' = toStart \ {k} /\ UNCHANGED <<fam, backend, handles>>
        BY <1>12 DEF BindUdp
      <4>2. k \in (Expected(backend) \cap KeysOf(fam)) \ handles
        BY <1>0, <3>1 DEF PlanInv
      <4>3. Expected(backend) \cap KeysOf(fam)
               \subseteq handles \cup (toStart \ {k}) \cup unbound \cup {k}
        BY <1>0, <3>1, KeyFacts DEF PlanInv
      <4> QED
        BY <1>0, <3>1, <3>2, <4>1, <4>2, <4>3 DEF PlanInv, HandlesMatchBackend
    <3>3. CASE unbound' = unbound \cup {k} /\ UNCHANGED <<cur, pc>>
      BY <1>0, <1>12, <3>1, <3>3 DEF BindUdp, PlanInv, HandlesMatchBackend
    <3> QED BY <1>12, <3>2, <3>3 DEF BindUdp
  <2>5. DrainInv'
    BY <1>0, <1>12, KeyFacts DEF BindUdp, TypeOK, DrainInv
  <2>6. PhaseInv'
    BY <1>0, <1>12, KeyFacts DEF BindUdp, TypeOK, PhaseInv, Exited
  <2>7. UnboundInv'
    BY <1>0, <1>12, KeyFacts DEF BindUdp, UnboundInv,
       PlanInv, SocketInv, TypeOK
  <2> QED BY <2>1, <2>2, <2>3, <2>4, <2>5, <2>6,
            <2>7 DEF IInv
<1>13. ASSUME BindTcp PROVE IInv'
  <2>1. TypeOK'
    BY <1>0, <1>13, TypeStep
  <2>2. SocketInv'
    BY <1>0, <1>13, KeyFacts DEF BindTcp, TypeOK, SocketInv
  <2>3. TaskInv'
    BY <1>0, <1>13, KeyFacts DEF BindTcp, TypeOK, TaskInv
  <2>4. PlanInv'
    BY <1>0, <1>13, KeyFacts DEF BindTcp, TypeOK, PlanInv, HandlesMatchBackend
  <2>5. DrainInv'
    BY <1>0, <1>13, KeyFacts DEF BindTcp, TypeOK, DrainInv
  <2>6. PhaseInv'
    BY <1>0, <1>13, KeyFacts DEF BindTcp, TypeOK, PhaseInv, Exited
  <2>7. UnboundInv'
    BY <1>0, <1>13, KeyFacts DEF BindTcp, UnboundInv,
       PlanInv, SocketInv, TypeOK
  <2> QED BY <2>1, <2>2, <2>3, <2>4, <2>5, <2>6,
            <2>7 DEF IInv
<1>14. ASSUME BindTcpFails PROVE IInv'
  <2>1. TypeOK'
    BY <1>0, <1>14, TypeStep
  <2>2. SocketInv'
    <3>1. /\ pc = "bind_tcp" /\ pc' = "start" /\ cur' = Nobody
          /\ udp' = [udp EXCEPT ![cur[2]] = Nobody] /\ UNCHANGED <<tcp, task>>
      BY <1>14 DEF BindTcpFails
    <3>2. cur \in Key /\ cur[2] \in Ip /\ cur \notin handles /\ task[cur] = "none"
      BY <1>0, <3>1, KeyFacts DEF SocketInv, PlanInv, TaskInv, TypeOK
    <3>3. \A i \in Ip : udp'[i] = IF i = cur[2] THEN Nobody ELSE udp[i]
      BY <1>0, <3>1 DEF TypeOK
    <3>4. \A k \in Key : task[k] = "running" => k[2] # cur[2]
      BY <1>0, <3>1, <3>2 DEF SocketInv
    <3> QED BY <1>0, <3>1, <3>2, <3>3, <3>4, KeyFacts DEF SocketInv
  <2>3. TaskInv'
    BY <1>0, <1>14, KeyFacts DEF BindTcpFails, TypeOK, TaskInv
  <2>4. PlanInv'
    BY <1>0, <1>14, KeyFacts DEF BindTcpFails, TypeOK, PlanInv, HandlesMatchBackend
  <2>5. DrainInv'
    BY <1>0, <1>14, KeyFacts DEF BindTcpFails, TypeOK, DrainInv
  <2>6. PhaseInv'
    BY <1>0, <1>14, KeyFacts DEF BindTcpFails, TypeOK, PhaseInv, Exited
  <2>7. UnboundInv'
    BY <1>0, <1>14, KeyFacts DEF BindTcpFails, UnboundInv,
       PlanInv, SocketInv, TypeOK
  <2> QED BY <2>1, <2>2, <2>3, <2>4, <2>5, <2>6,
            <2>7 DEF IInv
<1>15. ASSUME FinishV4 PROVE IInv'
  <2>1. TypeOK'
    BY <1>0, <1>15, TypeStep
  <2>2. SocketInv'
    BY <1>0, <1>15 DEF FinishV4, SocketInv
  <2>3. TaskInv'
    BY <1>0, <1>15 DEF FinishV4, TaskInv
  <2>4. PlanInv'
    BY <1>0, <1>15, KeyFacts DEF FinishV4, PlanInv, SocketInv, HandlesMatchBackend
  <2>5. DrainInv'
    BY <1>0, <1>15 DEF FinishV4, DrainInv
  <2>6. PhaseInv'
    BY <1>0, <1>15 DEF FinishV4, PhaseInv, Exited
  <2>7. UnboundInv'
    BY <1>0, <1>15, KeyFacts DEF FinishV4, UnboundInv,
       PlanInv, SocketInv, TypeOK
  <2> QED BY <2>1, <2>2, <2>3, <2>4, <2>5, <2>6,
            <2>7 DEF IInv
<1>16. ASSUME Ready PROVE IInv'
  <2>1. TypeOK'
    BY <1>0, <1>16, TypeStep
  <2>2. SocketInv'
    BY <1>0, <1>16 DEF Ready, SocketInv
  <2>3. TaskInv'
    BY <1>0, <1>16 DEF Ready, TaskInv
  <2>4. PlanInv'
    BY <1>0, <1>16 DEF Ready, PlanInv, HandlesMatchBackend
  <2>5. DrainInv'
    BY <1>0, <1>16 DEF Ready, DrainInv
  <2>6. PhaseInv'
    BY <1>0, <1>16 DEF Ready, PhaseInv, Exited
  <2>7. UnboundInv'
    BY <1>0, <1>16, KeyFacts DEF Ready, UnboundInv,
       PlanInv, SocketInv, TypeOK
  <2> QED BY <2>1, <2>2, <2>3, <2>4, <2>5, <2>6,
            <2>7 DEF IInv
<1>31. ASSUME Watch PROVE IInv'
  <2>1. TypeOK'
    BY <1>0, <1>31, TypeStep
  <2>2. SocketInv'
    BY <1>0, <1>31 DEF Watch, SocketInv
  <2>3. TaskInv'
    BY <1>0, <1>31 DEF Watch, TaskInv
  <2>4. PlanInv'
    BY <1>0, <1>31 DEF Watch, PlanInv, HandlesMatchBackend
  <2>5. DrainInv'
    BY <1>0, <1>31 DEF Watch, DrainInv
  <2>6. PhaseInv'
    BY <1>0, <1>31 DEF Watch, PhaseInv, Exited
  <2>7. UnboundInv'
    BY <1>0, <1>31, KeyFacts DEF Watch, UnboundInv,
       PlanInv, SocketInv, TypeOK
  <2> QED BY <2>1, <2>2, <2>3, <2>4, <2>5, <2>6,
            <2>7 DEF IInv
<1>17. ASSUME ReloadNameservers PROVE IInv'
  <2>1. TypeOK'
    BY <1>0, <1>17, TypeStep
  <2>2. SocketInv'
    BY <1>0, <1>17 DEF ReloadNameservers, SocketInv
  <2>3. TaskInv'
    BY <1>0, <1>17 DEF ReloadNameservers, TaskInv
  <2>4. PlanInv'
    BY <1>0, <1>17 DEF ReloadNameservers, PlanInv, HandlesMatchBackend
  <2>5. DrainInv'
    BY <1>0, <1>17 DEF ReloadNameservers, DrainInv
  <2>6. PhaseInv'
    BY <1>0, <1>17 DEF ReloadNameservers, PhaseInv, Exited
  <2>7. UnboundInv'
    BY <1>0, <1>17, KeyFacts DEF ReloadNameservers, UnboundInv,
       PlanInv, SocketInv, TypeOK
  <2> QED BY <2>1, <2>2, <2>3, <2>4, <2>5, <2>6,
            <2>7 DEF IInv
<1>18. ASSUME NEW k \in Key, ListenerStops(k) \/ AcceptFails(k) PROVE IInv'
  <2>0. TaskEnds(k)
    BY <1>18 DEF ListenerStops, AcceptFails
  <2>1. TypeOK'
    BY <1>0, <2>0, TypeStep
  <2>2. SocketInv'
    <3>1. /\ task[k] = "running" /\ k[2] \in Ip
          /\ task' = [task EXCEPT ![k] = "done"]
          /\ udp' = [udp EXCEPT ![k[2]] = Nobody]
          /\ tcp' = [tcp EXCEPT ![k[2]] = Nobody]
          /\ UNCHANGED <<pc, cur>>
      BY <2>0, KeyFacts DEF TaskEnds
    <3>2. /\ \A i \in Ip : udp'[i] = IF i = k[2] THEN Nobody ELSE udp[i]
          /\ \A i \in Ip : tcp'[i] = IF i = k[2] THEN Nobody ELSE tcp[i]
          /\ \A j \in Key : task'[j] = IF j = k THEN "done" ELSE task[j]
      BY <1>0, <3>1 DEF TypeOK
    <3>3. \A j \in Key : task[j] = "running" /\ j[2] = k[2] => j = k
      BY <1>0, <3>1 DEF SocketInv
    <3>4. pc = "bind_tcp" => cur \in Key /\ cur # k /\ cur[2] # k[2]
      BY <1>0, <3>1 DEF SocketInv, PlanInv, TaskInv
    <3> QED BY <1>0, <3>1, <3>2, <3>3, <3>4, KeyFacts DEF SocketInv, TypeOK
  <2>3. TaskInv'
    <3>1. "accept" \in Fault \/ k \notin handles
      BY <1>18 DEF ListenerStops, AcceptFails
    <3> QED BY <1>0, <2>0, <3>1 DEF TaskEnds, TaskInv, TypeOK
  <2>4. PlanInv'
    BY <1>0, <2>0, KeyFacts DEF TaskEnds, TypeOK, PlanInv, HandlesMatchBackend
  <2>5. DrainInv'
    BY <1>0, <2>0, KeyFacts DEF TaskEnds, TypeOK, DrainInv
  <2>6. PhaseInv'
    BY <1>0, <2>0, KeyFacts DEF TaskEnds, TypeOK, PhaseInv, Exited
  <2>7. UnboundInv'
    BY <1>0, <2>0, KeyFacts DEF TaskEnds, UnboundInv,
       PlanInv, SocketInv, TypeOK
  <2> QED BY <2>1, <2>2, <2>3, <2>4, <2>5, <2>6,
            <2>7 DEF IInv
<1>19. ASSUME NEW n \in Network, WriteConfig(n) PROVE IInv'
  <2>1. TypeOK'
    BY <1>0, <1>19, TypeStep
  <2>2. SocketInv'
    BY <1>0, <1>19 DEF WriteConfig, SocketInv
  <2>3. TaskInv'
    BY <1>0, <1>19 DEF WriteConfig, TaskInv
  <2>4. PlanInv'
    BY <1>0, <1>19 DEF WriteConfig, PlanInv, HandlesMatchBackend
  <2>5. DrainInv'
    BY <1>0, <1>19 DEF WriteConfig, DrainInv
  <2>6. PhaseInv'
    BY <1>0, <1>19 DEF WriteConfig, PhaseInv, Exited
  <2>7. UnboundInv'
    BY <1>0, <1>19, KeyFacts DEF WriteConfig, UnboundInv,
       PlanInv, SocketInv, TypeOK
  <2> QED BY <2>1, <2>2, <2>3, <2>4, <2>5, <2>6,
            <2>7 DEF IInv
<1>20. ASSUME SendSighup PROVE IInv'
  <2>1. TypeOK'
    BY <1>0, <1>20, TypeStep
  <2>2. SocketInv'
    BY <1>0, <1>20 DEF SendSighup, SocketInv
  <2>3. TaskInv'
    BY <1>0, <1>20 DEF SendSighup, TaskInv
  <2>4. PlanInv'
    BY <1>0, <1>20 DEF SendSighup, PlanInv, HandlesMatchBackend
  <2>5. DrainInv'
    BY <1>0, <1>20 DEF SendSighup, DrainInv
  <2>6. PhaseInv'
    BY <1>0, <1>20 DEF SendSighup, PhaseInv, Exited
  <2>7. UnboundInv'
    BY <1>0, <1>20, KeyFacts DEF SendSighup, UnboundInv,
       PlanInv, SocketInv, TypeOK
  <2> QED BY <2>1, <2>2, <2>3, <2>4, <2>5, <2>6,
            <2>7 DEF IInv
<1>21. ASSUME NEW how \in {"stopped", "failed"}, Exit(how), pidfile' = pidfile
       PROVE  IInv'
  BY <1>0, <1>21, ExitInv DEF TypeOK
<1>22. CASE UNCHANGED vars
  BY <1>0, <1>22 DEF vars, IInv, TypeOK, SocketInv, TaskInv, PlanInv,
     UnboundInv, HandlesMatchBackend, DrainInv, PhaseInv, Exited
<1>23. ASSUME ParseFails PROVE IInv'
  BY <1>4, <1>21, <1>23 DEF ParseFails
<1>24. ASSUME RemovePidFails PROVE IInv'
  BY <1>21, <1>24 DEF RemovePidFails
<1>25. ASSUME DrainV6Joined PROVE IInv'
  BY <1>21, <1>25 DEF DrainV6Joined
<1>26. ASSUME FinishV6 PROVE IInv'
  <2>1. CASE Exit("failed") /\ UNCHANGED pidfile
    BY <1>21, <2>1
  <2>2. CASE /\ status = "serving" \/ ~errors
             /\ pc' = IF status = "serving" THEN "idle" ELSE "ready"
             /\ fam' = "v4"
             /\ UNCHANGED <<netavarkVars, processVars, parseVars, sharedVars,
                            startVars, taskVars, socketVars>>
    <3>0. pc = "start" /\ toStart = {} /\ fam = "v6"
      BY <1>26 DEF FinishV6
    <3>1. TypeOK'
      BY <1>0, <2>2 DEF TypeOK, Families, ReloadPoints
    <3>2. SocketInv'
      BY <1>0, <2>2, <3>0 DEF SocketInv
    <3>3. TaskInv'
      BY <1>0, <2>2, <3>0 DEF TaskInv
    <3>4. HandlesMatchBackend'
      <4>1. cur = Nobody
        BY <1>0, <3>0 DEF SocketInv
      <4>2. handles \subseteq Expected(backend)
        BY <1>0, <3>0, KeyFacts DEF PlanInv, TypeOK
      <4>3. Expected(backend) \subseteq handles \cup unbound
        BY <1>0, <3>0, <4>1, KeyFacts DEF PlanInv
      <4>4. unbound \subseteq Expected(backend) \ handles /\ (unbound # {} => errors)
        BY <1>0 DEF UnboundInv
      <4> QED BY <2>2, <4>2, <4>3, <4>4 DEF HandlesMatchBackend
    <3>5. PlanInv'
      BY <1>0, <2>2, <3>0, <3>4 DEF PlanInv
    <3>6. DrainInv'
      BY <1>0, <2>2, <3>0 DEF DrainInv
    <3>7. PhaseInv'
      <4>1. status # "serving" => status = "starting"
        BY <1>0, <3>0 DEF PhaseInv, Exited, TypeOK
      <4> QED BY <1>0, <2>2, <3>0, <4>1 DEF PhaseInv, Exited
    <3>8. UnboundInv'
      BY <1>0, <2>2, <3>0 DEF UnboundInv
    <3> QED BY <3>1, <3>2, <3>3, <3>5, <3>6, <3>7, <3>8 DEF IInv
  <2> QED BY <1>26, <2>1, <2>2 DEF FinishV6
<1>27. ASSUME ReadyFails PROVE IInv'
  BY <1>21, <1>27 DEF ReadyFails
<1>32. ASSUME WatchFails PROVE IInv'
  BY <1>21, <1>32 DEF WatchFails
<1>28. CASE Supervisor
  BY <1>1, <1>2, <1>3, <1>5, <1>6, <1>7, <1>8, <1>9, <1>10, <1>11, <1>12,
     <1>13, <1>14, <1>15, <1>16, <1>23, <1>24, <1>25, <1>26, <1>27, <1>28,
     <1>31, <1>32 DEF Supervisor
<1>29. CASE \E k \in Key : ListenerStops(k) \/ AcceptFails(k)
  BY <1>18, <1>29
<1>30. CASE Netavark
  BY <1>19, <1>20, <1>30 DEF Netavark
<1> QED
  BY <1>17, <1>22, <1>28, <1>29, <1>30 DEF Next, Terminated

\* The inductive invariant holds in every reachable state of the supervisor,
\* whatever the networks, the addresses, the faults and the interleaving.
THEOREM Invariance == Spec => []IInv
  BY InitInv, StepInv, PTL DEF Spec

\* Type correctness: among others, the published configuration never holds a
\* file that parse_config rejects.
THEOREM TypeCorrect == Spec => []TypeOK
<1>1. IInv => TypeOK
  BY DEF IInv
<1> QED BY <1>1, Invariance, PTL

\* No listener task outlives the loss of its handle without being joined.
THEOREM Stoppable == Spec => []EveryListenerStoppable
<1>1. IInv => EveryListenerStoppable
  BY DEF IInv, TaskInv, EveryListenerStoppable
<1> QED BY <1>1, Invariance, PTL

\* No socket stays bound without a listener to serve it.
THEOREM SocketsOwned == Spec => []NoOrphanSockets
<1>1. IInv => NoOrphanSockets
  <2> SUFFICES ASSUME IInv PROVE NoOrphanSockets
    OBVIOUS
  <2>1. TypeOK /\ SocketInv
    BY DEF IInv
  <2> QED BY <2>1 DEF TypeOK, SocketInv, NoOrphanSockets
<1> QED BY <1>1, Invariance, PTL

\* Between reloads the handles are exactly the configured listeners but those
\* whose own bind failed, and such a failure is reported.
THEOREM HandlesMatch == Spec => []HandlesMatchBackend
<1>1. IInv => HandlesMatchBackend
  BY DEF IInv, PlanInv
<1> QED BY <1>1, Invariance, PTL

\* Whoever holds an address that is about to be bound is itself configured:
\* no listener of an older configuration is in the way.
THEOREM PeersOnly == Spec => []OnlyPeersInTheWay
<1>1. IInv => OnlyPeersInTheWay
  <2> SUFFICES ASSUME IInv, NEW k \in toStart, pc = "start", udp[k[2]] # Nobody
               PROVE  udp[k[2]] \in Expected(backend)
    BY DEF OnlyPeersInTheWay
  <2> DEFINE j == udp[k[2]]
  <2>1. TypeOK /\ SocketInv /\ TaskInv /\ PlanInv
    BY DEF IInv
  <2>2. k \in Key /\ k \in KeysOf(fam) /\ fam \in Families /\ k[2] \in Ip
    BY <2>1, KeyFacts DEF PlanInv, TypeOK
  <2>3. j \in Key /\ j[2] = k[2] /\ task[j] = "running"
    BY <2>1, <2>2 DEF SocketInv, TypeOK
  <2>4. j \in handles /\ j \in KeysOf(fam)
    BY <2>1, <2>2, <2>3, KeyFacts DEF TaskInv
  <2> QED BY <2>1, <2>4 DEF PlanInv
<1> QED BY <1>1, Invariance, PTL

\* A reload drops the handle of no listener that stays configured.
THEOREM ConfiguredListenersKept == Spec => KeepsConfiguredListeners
<1>1. IInv /\ [Next]_vars =>
        [Exited' \/ (handles \ handles') \cap Expected(backend) = {}]_vars
  <2> SUFFICES ASSUME IInv, [Next]_vars
               PROVE  Exited' \/ (handles \ handles') \cap Expected(backend) = {}
    OBVIOUS
  <2> USE DEF taskVars
  <2>1. CASE handles \subseteq handles'
    BY <2>1
  <2>2. CASE \E how \in {"stopped", "failed"} : Exit(how)
    BY <2>2 DEF Exit, Exited
  <2>3. CASE Drain
    BY <2>3 DEF Drain, IInv, DrainInv
  <2>4. CASE StopStale
    BY <2>4 DEF StopStale, Stale
  <2>5. CASE Supervisor
    BY <2>1, <2>2, <2>3, <2>4, <2>5 DEF Supervisor, BeginReload, OpenDir,
       ReadFile, ParseFails, KeepServing, Publish, RemovePid, RemovePidFails,
       DrainV4Joined, DrainV6Joined, ReadNameservers, StaleJoined, BindUdp,
       BindTcp, BindTcpFails, FinishV4, FinishV6, Ready, ReadyFails, Watch,
       WatchFails
  <2>6. CASE UNCHANGED vars
    BY <2>1, <2>6 DEF vars
  <2> QED
    BY <2>1, <2>5, <2>6 DEF Next, ReloadNameservers, ListenerStops,
       AcceptFails, TaskEnds, Netavark, WriteConfig, SendSighup, Terminated
<1> QED BY <1>1, Invariance, PTL DEF Spec, KeepsConfiguredListeners

-----------------------------------------------------------------------------
\* What has been read stays true of the disk as long as no signal is due or
\* pending.
LEMMA UpdateStep ==
    ASSUME IInv, UpdateInv, [Next]_vars
    PROVE  UpdateInv'
<1> USE DEF netavarkVars, processVars, parseVars, sharedVars, startVars,
            taskVars, socketVars
<1>0. TypeOK /\ PhaseInv
  BY DEF IInv
<1>1. CASE BeginReload
  BY <1>1 DEF BeginReload, UpdateInv
<1>2. CASE OpenDir
  BY <1>2 DEF OpenDir, UpdateInv, NoConfig
<1>3. ASSUME NEW m \in Network, ReadFile(m) PROVE UpdateInv'
  <2>1. /\ pc = "read" /\ pc' = "read" /\ m \in unread /\ unread' = unread \ {m}
        /\ UNCHANGED <<netavarkVars, sighup, listing>>
    BY <1>3 DEF ReadFile
  <2>2. /\ \A n \in Network : n # m => conf'[n] = conf[n]
        /\ skipped \subseteq skipped'
    BY <1>0, <1>3 DEF ReadFile, TypeOK
  <2>3. \/ conf'[m] = Effective(file[m])
        \/ m \notin listing /\ conf'[m] = conf[m]
        \/ m \in skipped'
    BY <1>0, <1>3 DEF ReadFile, TypeOK
  <2>4. conf[m] = Absent
    BY <2>1 DEF UpdateInv
  <2>5. ~sighup /\ ~signalDue /\ m \notin skipped' => conf'[m] = Effective(file[m])
    BY <2>1, <2>3, <2>4, ContentAssumption DEF UpdateInv, Effective
  <2>6. \A n \in unread' : conf'[n] = Absent
    BY <1>0, <2>1, <2>2 DEF UpdateInv, TypeOK
  <2>7. ~sighup' /\ ~signalDue' =>
           \A n \in Network \ (unread' \cup skipped') : conf'[n] = Effective(file'[n])
    BY <1>0, <2>1, <2>2, <2>5 DEF UpdateInv, TypeOK
  <2> QED BY <2>1, <2>6, <2>7 DEF UpdateInv
<1>4. CASE Publish
  BY <1>4 DEF Publish, UpdateInv
<1>5. ASSUME NEW how, Exit(how) PROVE UpdateInv'
  BY <1>5 DEF Exit, UpdateInv
<1>6. ASSUME NEW m \in Network, WriteConfig(m) PROVE UpdateInv'
  BY <1>6 DEF WriteConfig, UpdateInv
<1>7. CASE SendSighup
  BY <1>7 DEF SendSighup, UpdateInv
<1>8. CASE KeepServing
  BY <1>8 DEF KeepServing, UpdateInv
<1>9. CASE /\ UNCHANGED <<file, signalDue, sighup, backend, conf, unread, listing,
                          skipped, dirRead>>
           /\ \/ pc' = pc
              \/ /\ pc \notin {"open", "read", "exited"}
                 /\ pc' \notin {"open", "read"}
                 /\ pc = "idle" => pc' = "idle"
  BY <1>9 DEF UpdateInv
<1>10. CASE Supervisor
  BY <1>1, <1>2, <1>3, <1>4, <1>5, <1>8, <1>9, <1>10 DEF Supervisor, ParseFails,
     RemovePid, RemovePidFails, Drain, DrainV4Joined, DrainV6Joined,
     ReadNameservers, StopStale, StaleJoined, BindUdp, BindTcp,
     BindTcpFails, FinishV4, FinishV6, Ready, ReadyFails, Watch, WatchFails
<1>11. CASE UNCHANGED vars
  BY <1>9, <1>11 DEF vars
<1> QED
  BY <1>6, <1>7, <1>9, <1>10, <1>11 DEF Next, ReloadNameservers, ListenerStops,
     AcceptFails, TaskEnds, Netavark, Terminated

\* What the last pass read is what is on disk, up to signals under way.
LEMMA UpdateInvariance == Spec => []UpdateInv
<1>1. Init => UpdateInv
  BY DEF Init, UpdateInv
<1>2. IInv /\ UpdateInv /\ [Next]_vars => UpdateInv'
  BY UpdateStep
<1> QED BY <1>1, <1>2, Invariance, PTL DEF Spec

\* No change that netavark has signalled is lost, however its writes
\* interleave with a reload, but for what the last pass failed to read.
THEOREM UpdatesNotLost == Spec => []NoLostUpdate
<1>1. UpdateInv => NoLostUpdate
  BY DEF UpdateInv, NoLostUpdate
<1> QED BY <1>1, UpdateInvariance, PTL

\* Once the watch on resolv.conf has been set up, a serving process ends
\* only because the last pass got to the end of the directory and published
\* nothing to listen on; if every change was signalled and taken, no file it
\* read asks for a listener; and it stops in good order only when none runs.
THEOREM ServingEnds == Spec => ServingEndsOnlyWhenEmpty
<1>1. IInv /\ UpdateInv /\ [Next]_vars =>
        [status = "serving" /\ pc # "watch" /\ status' # "serving" =>
           /\ dirRead /\ Expected(backend) = {}
           /\ ~sighup /\ ~signalDue =>
                 \A n \in Network \ skipped : file[n] \notin Content
           /\ status' = "stopped" => \A k \in Key : task[k] # "running"]_vars
  <2> SUFFICES ASSUME IInv, UpdateInv, [Next]_vars, status = "serving",
                      pc # "watch", status' # "serving"
               PROVE  /\ dirRead /\ Expected(backend) = {}
                      /\ ~sighup /\ ~signalDue =>
                            \A n \in Network \ skipped : file[n] \notin Content
                      /\ status' = "stopped" => \A k \in Key : task[k] # "running"
    OBVIOUS
  <2>1. TypeOK /\ TaskInv /\ DrainInv /\ PhaseInv
    BY DEF IInv
  <2>2. RemovePidFails \/ DrainV6Joined
    <3>1. UNCHANGED status \/ Supervisor
      BY DEF Next, vars, processVars, ReloadNameservers, ListenerStops,
         AcceptFails, TaskEnds, Netavark, WriteConfig, SendSighup, Terminated
    <3>2. ~ Ready /\ ~ ReadyFails /\ ~ WatchFails
      BY <2>1 DEF Ready, ReadyFails, WatchFails, PhaseInv
    <3> QED
      BY <3>1, <3>2 DEF Supervisor, BeginReload, OpenDir, ReadFile,
         ParseFails, KeepServing, Publish, RemovePid, Drain, DrainV4Joined,
         ReadNameservers, StopStale, StaleJoined, BindUdp, BindTcp,
         BindTcpFails, FinishV4, FinishV6, Watch, processVars
  <2>3. pc \in {"remove_pid", "drain_await"}
    BY <2>2 DEF RemovePidFails, DrainV6Joined
  <2>4. dirRead /\ Expected(backend) = {}
    BY <2>1, <2>3 DEF UpdateInv, DrainInv
  <2>5. ASSUME ~sighup, ~signalDue, NEW n \in Network \ skipped
        PROVE  file[n] \notin Content
    <3>1. backend[n] = Effective(file[n])
      BY <2>3, <2>4, <2>5 DEF UpdateInv
    <3>2. ASSUME file[n] \in Content PROVE FALSE
      <4>1. backend[n] \in Content /\ ListenIps[backend[n]] # {}
            /\ ListenIps[backend[n]] \subseteq Ip
        BY <3>1, <3>2, ContentAssumption DEF Effective
      <4>2. PICK i \in Ip : i \in ListenIps[backend[n]]
        BY <4>1
      <4>3. <<n, i>> \in Expected(backend)
        BY <4>1, <4>2 DEF Expected, Key
      <4> QED BY <2>4, <4>3
    <3> QED BY <3>2
  <2>6. status' = "stopped" => \A k \in Key : task[k] # "running"
    <3>1. CASE RemovePidFails
      BY <3>1 DEF RemovePidFails, Exit
    <3>2. CASE DrainV6Joined
      <4>1. handles = {}
        BY <2>1, <3>2, KeyFacts DEF DrainV6Joined, DrainInv, TypeOK
      <4> QED BY <2>1, <3>2, <4>1 DEF DrainV6Joined, AllJoined, TaskInv
    <3> QED BY <2>2, <3>1, <3>2
  <2> QED BY <2>4, <2>5, <2>6
<1> QED
  BY <1>1, Invariance, UpdateInvariance, PTL DEF Spec, ServingEndsOnlyWhenEmpty

-----------------------------------------------------------------------------
\* Each step of the supervisor is a step of the abstract specification, or
\* changes nothing it speaks of.
LEMMA RefinesStep ==
    ASSUME IInv, [Next]_vars
    PROVE  [Abstract!LNext]_(Abstract!lvars)
<1> USE DEF netavarkVars, processVars, parseVars, sharedVars, startVars,
            taskVars, socketVars
<1>0. TypeOK /\ SocketInv /\ TaskInv /\ PlanInv /\ DrainInv /\ PhaseInv
  BY DEF IInv
<1>a. pc # "exited" => Abstract!Alive
  BY <1>0 DEF TypeOK, PhaseInv, Exited, Abstract!Alive
<1>1. CASE UNCHANGED <<backend, status>> /\ Running' = Running
  BY <1>1 DEF Abstract!lvars
<1>2. CASE Publish
  <2>1. Running' = Running
    BY <1>2 DEF Publish, Running
  <2>2. Expected(backend') \subseteq Key
    BY KeyFacts
  <2>3. pc # "exited" /\ UNCHANGED status
    BY <1>2 DEF Publish
  <2> QED BY <1>a, <2>1, <2>2, <2>3 DEF Abstract!LNext, Abstract!Retarget
<1>3. CASE BindTcp
  <2>1. /\ cur \in Key /\ cur \in Expected(backend) /\ cur \notin handles
        /\ cur[2] \in Ip /\ udp[cur[2]] = cur /\ tcp[cur[2]] = Nobody
        /\ pc = "bind_tcp"
    BY <1>0, <1>3, KeyFacts DEF BindTcp, SocketInv, PlanInv
  <2>2. cur \notin Running
    BY <1>0, <2>1 DEF TaskInv, Running
  <2>3. Running' = Running \cup {cur}
    BY <1>0, <1>3, <2>1 DEF BindTcp, Running, TypeOK
  <2>4. \A j \in Running : j[2] # cur[2]
    BY <1>0, <2>1, <2>2 DEF SocketInv, Running
  <2>5. \A j \in Running : [k \in Key |-> k[2]][j] # [k \in Key |-> k[2]][cur]
    BY <2>1, <2>4 DEF Running
  <2>6. UNCHANGED <<backend, status>>
    BY <1>3 DEF BindTcp
  <2>7. Abstract!Open(cur)
    BY <1>a, <2>1, <2>2, <2>3, <2>5, <2>6 DEF Abstract!Open
  <2> QED BY <2>1, <2>7 DEF Abstract!LNext
<1>4. ASSUME NEW k \in Key, ListenerStops(k) \/ AcceptFails(k)
      PROVE  Abstract!LNext
  <2>1. /\ TaskEnds(k)
        /\ k \notin handles \/ "accept" \in Fault
    BY <1>4 DEF ListenerStops, AcceptFails
  <2>2. k \in Running /\ Running' = Running \ {k} /\ UNCHANGED <<backend, status>>
    BY <1>0, <2>1 DEF TaskEnds, Running, TypeOK
  <2>3. k \in handles \cup awaiting
    BY <1>0, <2>2 DEF TaskInv, Running
  <2>4. Abstract!Alive
    BY <1>0, <1>a, <2>3 DEF TaskInv
  <2>5. CASE k \notin handles
    <3>1. k \notin Expected(backend)
      BY <1>0, <2>3, <2>5 DEF TaskInv
    <3>2. Abstract!Close(k)
      BY <2>2, <2>4, <3>1 DEF Abstract!Close
    <3> QED BY <3>2 DEF Abstract!LNext
  <2>6. CASE "accept" \in Fault
    <3>1. Abstract!Fail(k)
      BY <2>2, <2>4, <2>6 DEF Abstract!Fail
    <3> QED BY <3>1 DEF Abstract!LNext
  <2> QED BY <2>1, <2>5, <2>6
<1>5. CASE Ready
  <2>1. status = "starting" /\ ~errors /\ awaiting = {}
    BY <1>0, <1>5 DEF Ready, PhaseInv, TaskInv
  <2>2. handles = Expected(backend)
    BY <1>0, <1>5, <2>1 DEF Ready, PlanInv, UnboundInv, HandlesMatchBackend
  <2>3. "accept" \notin Fault => Running = handles
    BY <1>0, <2>1 DEF TaskInv, TypeOK, Running
  <2>4. Running' = Running /\ status' = "serving" /\ UNCHANGED backend
    BY <1>5 DEF Ready, Running
  <2>5. Abstract!BecomeReady
    BY <2>1, <2>2, <2>3, <2>4 DEF Abstract!BecomeReady
  <2> QED BY <2>5 DEF Abstract!LNext
<1>6. CASE DrainV6Joined
  <2>1. Expected(backend) = {} /\ handles = {} /\ pc # "exited"
    BY <1>0, <1>6, KeyFacts DEF DrainV6Joined, DrainInv, TypeOK
  <2>2. Running = {}
    BY <1>0, <1>6, <2>1 DEF DrainV6Joined, AllJoined, TaskInv, Running
  <2>3. Running' = {} /\ status' = "stopped" /\ UNCHANGED backend
    BY <1>6 DEF DrainV6Joined, Exit, Running
  <2>4. Abstract!Stop
    BY <1>a, <2>1, <2>2, <2>3 DEF Abstract!Stop
  <2> QED BY <2>4 DEF Abstract!LNext
<1>7. ASSUME Exit("failed"),
             \/ status = "starting"
             \/ status = "serving"
                /\ (Expected(backend) = {} \/ "inotify" \in Fault)
      PROVE  Abstract!LNext
  <2>1. Running' = {} /\ status' = "failed" /\ UNCHANGED backend
    BY <1>7 DEF Exit, Running
  <2>2. Abstract!Abort
    BY <1>7, <2>1 DEF Abstract!Abort
  <2> QED BY <2>2 DEF Abstract!LNext
<1>8. CASE RemovePidFails
  <2>1. status \in {"starting", "serving"} /\ Expected(backend) = {}
    BY <1>0, <1>8 DEF RemovePidFails, PhaseInv, Exited, DrainInv, TypeOK
  <2> QED BY <1>7, <1>8, <2>1 DEF RemovePidFails
<1>9. CASE ReadyFails
  BY <1>0, <1>7, <1>9 DEF ReadyFails, PhaseInv
<1>17. CASE WatchFails
  BY <1>0, <1>7, <1>17 DEF WatchFails, PhaseInv
<1>10. CASE ParseFails
  BY <1>1, <1>7, <1>10 DEF ParseFails, KeepServing, Running
<1>11. CASE FinishV6
  BY <1>1, <1>7, <1>11 DEF FinishV6, Running
<1>12. CASE DrainV4Joined
  BY <1>0, <1>1, <1>12 DEF DrainV4Joined, AllJoined, TasksJoined, Running, TypeOK
<1>13. CASE StaleJoined
  BY <1>0, <1>1, <1>13 DEF StaleJoined, AllJoined, TasksJoined, Running, TypeOK
<1>14. CASE UNCHANGED <<backend, status, task>>
  BY <1>1, <1>14 DEF Running
<1>15. CASE Supervisor
  BY <1>2, <1>3, <1>5, <1>6, <1>8, <1>9, <1>10, <1>11, <1>12, <1>13, <1>14,
     <1>15, <1>17 DEF Supervisor, BeginReload, OpenDir, ReadFile, RemovePid,
     Drain, ReadNameservers, StopStale, BindUdp, BindTcpFails, FinishV4, Watch
<1>16. CASE UNCHANGED vars
  BY <1>14, <1>16 DEF vars
<1> QED
  BY <1>4, <1>14, <1>15, <1>16 DEF Next, ReloadNameservers, Netavark,
     WriteConfig, SendSighup, Terminated

\* The supervisor implements the safety part of the abstract specification:
\* a listener opens only where one is configured and its address is free,
\* closes only when it is not configured or has failed, the process is ready
\* only with every listener open, and stops only with none.
THEOREM ImplementsListeners == Spec => Abstract!LSafeSpec
<1>1. Init => Abstract!LInit
  BY NoConfigExpectsNothing DEF Init, Running, Abstract!LInit
<1>2. IInv /\ [Next]_vars => [Abstract!LNext]_(Abstract!lvars)
  BY RefinesStep
<1> QED BY <1>1, <1>2, Invariance, PTL DEF Spec, Abstract!LSafeSpec
=============================================================================
