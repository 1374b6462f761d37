---------------------------- MODULE StartupProofs ----------------------------
(***************************************************************************)
(* Proofs, for any number of invocations and addresses, of what the start  *)
(* of aardvark-dns promises.                                               *)
(***************************************************************************)
EXTENDS StartupProps, TLAPS

LEMMA InitInv == Init => StartInv
<1> SUFFICES ASSUME Init PROVE StartInv
  OBVIOUS
<1> USE PidAssumption, ChangesAssumption DEF Init, Alive, Starting, Points,
      Ended, Unhandled
<1>1. TypeOK
  <2>1. changes \in 0..MaxChanges
    OBVIOUS
  <2> QED BY <2>1 DEF TypeOK
<1>2. PipeInv
  BY DEF PipeInv
<1>3. BoundInv
  BY DEF BoundInv, ReadyMeansBound
<1>4. PidInv
  BY DEF PidInv
<1>5. FileInv
  BY DEF FileInv, Named
<1> QED BY <1>1, <1>2, <1>3, <1>4, <1>5 DEF StartInv

-----------------------------------------------------------------------------
\* Every step keeps every variable's type.
LEMMA TypeStep == TypeOK /\ [Next]_vars => TypeOK'
<1> SUFFICES ASSUME TypeOK, [Next]_vars PROVE TypeOK'
  OBVIOUS
<1> USE DEF TypeOK, vars, directoryVars, fileVars, pipeVars, Goto, End,
      Points, Ended, Unhandled
<1>1. ASSUME NEW p \in Pid, ParentDropsEnd(p) PROVE TypeOK'
  BY <1>1 DEF ParentDropsEnd
<1>2. ASSUME NEW p \in Pid, ParentReads(p) PROVE TypeOK'
  BY <1>2 DEF ParentReads
<1>3. ASSUME NEW p \in Pid, ParentKilled(p) PROVE TypeOK'
  BY <1>3 DEF ParentKilled
<1>4. ASSUME NEW p \in Pid, Start(p) PROVE TypeOK'
  BY <1>4 DEF Start, Fork, Starting, Alive
<1>5. ASSUME NEW p \in Pid, CreatePid(p) PROVE TypeOK'
  BY <1>5 DEF CreatePid
<1>6. ASSUME NEW p \in Pid, CreatePidFails(p) PROVE TypeOK'
  BY <1>6 DEF CreatePidFails
<1>7. ASSUME NEW p \in Pid, WritePid(p) PROVE TypeOK'
  BY <1>7 DEF WritePid
<1>8. ASSUME NEW p \in Pid, InstallHandler(p) PROVE TypeOK'
  BY <1>8 DEF InstallHandler
<1>9. ASSUME NEW p \in Pid, InstallHandlerFails(p) PROVE TypeOK'
  BY <1>9 DEF InstallHandlerFails
<1>10. ASSUME NEW p \in Pid, ReadConfig(p) PROVE TypeOK'
  BY <1>10 DEF ReadConfig
<1>11. ASSUME NEW p \in Pid, ReadConfigFails(p) PROVE TypeOK'
  BY <1>11 DEF ReadConfigFails
<1>12. ASSUME NEW p \in Pid, Adopt(p) PROVE TypeOK'
  BY <1>12 DEF Adopt, Got, Free, Rebound
<1>13. ASSUME NEW p \in Pid, Ready(p) PROVE TypeOK'
  BY <1>13 DEF Ready, Reader
<1>14. ASSUME NEW p \in Pid, ReadyFails(p) PROVE TypeOK'
  BY <1>14 DEF ReadyFails, Reader
<1>15. ASSUME NEW p \in Pid, Reload(p) PROVE TypeOK'
  BY <1>15 DEF Reload
<1>16. ASSUME NEW p \in Pid, RemovePid(p) PROVE TypeOK'
  BY <1>16 DEF RemovePid
<1>17. ASSUME NEW p \in Pid, Drain(p) PROVE TypeOK'
  BY <1>17 DEF Drain
<1>18. ASSUME NEW p \in Pid, Notify(p) PROVE TypeOK'
  <2>1. CASE End(p, "killed")
    BY <1>18, <2>1 DEF Notify
  <2>2. CASE sighup' = [sighup EXCEPT ![p] = TRUE]
                /\ UNCHANGED <<directoryVars, fileVars, child, pipeVars, conf,
                               bound, overlapped>>
    BY <2>2
  <2> QED BY <1>18, <2>1, <2>2 DEF Notify
<1>19. CASE ChangeConfig
  <2>1. changes' \in 0..MaxChanges
    BY <1>19, ChangesAssumption DEF ChangeConfig
  <2> QED BY <1>19, <2>1 DEF ChangeConfig
<1>20. ASSUME NEW p \in Pid, WatchResolvConf(p) PROVE TypeOK'
  BY <1>20 DEF WatchResolvConf
<1>21. ASSUME NEW p \in Pid, WatchFails(p) PROVE TypeOK'
  BY <1>21 DEF WatchFails
<1>22. CASE UNCHANGED vars
  BY <1>22
<1> QED
  BY <1>1, <1>2, <1>3, <1>4, <1>5, <1>6, <1>7, <1>8, <1>9,
     <1>10, <1>11, <1>12, <1>13, <1>14, <1>15, <1>16, <1>17, <1>18,
     <1>19, <1>20, <1>21, <1>22 DEF Next, Parent, Child

\* A child can only end, or report, with its end of the pipe; and only a child
\* that has reported lets its parent succeed.
LEMMA PipeStep == TypeOK /\ PipeInv /\ [Next]_vars => PipeInv'
<1> SUFFICES ASSUME TypeOK, PipeInv, [Next]_vars PROVE PipeInv'
  OBVIOUS
<1> USE DEF TypeOK, PipeInv, vars, directoryVars, fileVars, pipeVars, Goto,
      End, Starting, Alive, Points, Ended, Unhandled
<1>1. ASSUME NEW p \in Pid, ParentDropsEnd(p) PROVE PipeInv'
  BY <1>1 DEF ParentDropsEnd
<1>2. ASSUME NEW p \in Pid, ParentReads(p) PROVE PipeInv'
  BY <1>2 DEF ParentReads
<1>3. ASSUME NEW p \in Pid, ParentKilled(p) PROVE PipeInv'
  BY <1>3 DEF ParentKilled
<1>4. ASSUME NEW p \in Pid, Start(p) PROVE PipeInv'
  BY <1>4 DEF Start, Fork, Starting, Alive
<1>5. ASSUME NEW p \in Pid, CreatePid(p) PROVE PipeInv'
  BY <1>5 DEF CreatePid
<1>6. ASSUME NEW p \in Pid, CreatePidFails(p) PROVE PipeInv'
  BY <1>6 DEF CreatePidFails
<1>7. ASSUME NEW p \in Pid, WritePid(p) PROVE PipeInv'
  BY <1>7 DEF WritePid
<1>8. ASSUME NEW p \in Pid, InstallHandler(p) PROVE PipeInv'
  BY <1>8 DEF InstallHandler
<1>9. ASSUME NEW p \in Pid, InstallHandlerFails(p) PROVE PipeInv'
  BY <1>9 DEF InstallHandlerFails
<1>10. ASSUME NEW p \in Pid, ReadConfig(p) PROVE PipeInv'
  BY <1>10 DEF ReadConfig
<1>11. ASSUME NEW p \in Pid, ReadConfigFails(p) PROVE PipeInv'
  BY <1>11 DEF ReadConfigFails
<1>12. ASSUME NEW p \in Pid, Adopt(p) PROVE PipeInv'
  BY <1>12 DEF Adopt, Got, Free, Rebound
<1>13. ASSUME NEW p \in Pid, Ready(p) PROVE PipeInv'
  BY <1>13 DEF Ready, Reader
<1>14. ASSUME NEW p \in Pid, ReadyFails(p) PROVE PipeInv'
  BY <1>14 DEF ReadyFails, Reader
<1>15. ASSUME NEW p \in Pid, Reload(p) PROVE PipeInv'
  BY <1>15 DEF Reload
<1>16. ASSUME NEW p \in Pid, RemovePid(p) PROVE PipeInv'
  BY <1>16 DEF RemovePid
<1>17. ASSUME NEW p \in Pid, Drain(p) PROVE PipeInv'
  BY <1>17 DEF Drain
<1>18. ASSUME NEW p \in Pid, Notify(p) PROVE PipeInv'
  BY <1>18 DEF Notify, Alive
<1>19. CASE ChangeConfig
  BY <1>19 DEF ChangeConfig
<1>20. ASSUME NEW p \in Pid, WatchResolvConf(p) PROVE PipeInv'
  BY <1>20 DEF WatchResolvConf
<1>21. ASSUME NEW p \in Pid, WatchFails(p) PROVE PipeInv'
  BY <1>21 DEF WatchFails
<1>22. CASE UNCHANGED vars
  BY <1>22
<1> QED
  BY <1>1, <1>2, <1>3, <1>4, <1>5, <1>6, <1>7, <1>8, <1>9,
     <1>10, <1>11, <1>12, <1>13, <1>14, <1>15, <1>16, <1>17, <1>18,
     <1>19, <1>20, <1>21, <1>22 DEF Next, Parent, Child

\* A process that ends takes its own addresses with it, and no others.
LEMMA EndBound ==
    ASSUME TypeOK, BoundInv, NEW p \in Pid, NEW how \in Ended, End(p, how)
    PROVE  BoundInv'
<1>1. \A q \in Pid \ {p} :
         /\ child'[q] = child[q] /\ conf'[q] = conf[q]
         /\ \A i \in Ip : bound'[i] = q <=> bound[i] = q
  BY PidAssumption DEF TypeOK, End
<1>2. child'[p] = how /\ how \notin {"adopt", "ready"}
  BY DEF TypeOK, End, Ended
<1> QED BY <1>1, <1>2 DEF BoundInv, ReadyMeansBound

\* Nobody takes an address from the process that has bound it, and what a
\* first pass could not bind ends it.
LEMMA BoundStep == TypeOK /\ BoundInv /\ [Next]_vars => BoundInv'
<1> SUFFICES ASSUME TypeOK, BoundInv, [Next]_vars PROVE BoundInv'
  OBVIOUS
<1> USE PidAssumption DEF TypeOK, BoundInv, ReadyMeansBound, Ended, vars,
      directoryVars, fileVars, pipeVars, Goto
<1>1. ASSUME NEW p \in Pid, ParentDropsEnd(p) PROVE BoundInv'
  BY <1>1 DEF ParentDropsEnd
<1>2. ASSUME NEW p \in Pid, ParentReads(p) PROVE BoundInv'
  BY <1>2 DEF ParentReads
<1>3. ASSUME NEW p \in Pid, ParentKilled(p) PROVE BoundInv'
  BY <1>3 DEF ParentKilled
<1>4. ASSUME NEW p \in Pid, Start(p) PROVE BoundInv'
  BY <1>4 DEF Start, Fork, Starting, Alive
<1>5. ASSUME NEW p \in Pid, CreatePid(p) PROVE BoundInv'
  BY <1>5 DEF CreatePid
<1>6. ASSUME NEW p \in Pid, CreatePidFails(p) PROVE BoundInv'
  BY <1>6, EndBound DEF CreatePidFails
<1>7. ASSUME NEW p \in Pid, WritePid(p) PROVE BoundInv'
  BY <1>7 DEF WritePid
<1>8. ASSUME NEW p \in Pid, InstallHandler(p) PROVE BoundInv'
  BY <1>8 DEF InstallHandler
<1>9. ASSUME NEW p \in Pid, InstallHandlerFails(p) PROVE BoundInv'
  BY <1>9, EndBound DEF InstallHandlerFails
<1>10. ASSUME NEW p \in Pid, ReadConfig(p) PROVE BoundInv'
  BY <1>10 DEF ReadConfig
<1>11. ASSUME NEW p \in Pid, ReadConfigFails(p) PROVE BoundInv'
  <2>1. CASE End(p, "failed")
    BY <2>1, EndBound
  <2>2. CASE Goto(p, "read", "idle") /\ UNCHANGED <<conf, bound>>
    BY <2>2 DEF Goto
  <2> QED BY <1>11, <2>1, <2>2 DEF ReadConfigFails
<1>12. ASSUME NEW p \in Pid, Adopt(p) PROVE BoundInv'
  <2>1. PICK got \in Got(p) :
           \/ /\ got = conf[p] \/ byte[p]
              /\ child' = [child EXCEPT ![p] = IF byte[p] THEN "idle" ELSE "ready"]
              /\ conf' = [conf EXCEPT ![p] = IF byte[p] THEN {} ELSE conf[p]]
              /\ bound' = Rebound(p, got)
           \/ End(p, "failed")
    BY <1>12 DEF Adopt
  <2>2. CASE End(p, "failed")
    BY <2>2, EndBound
  <2>3. CASE /\ got = conf[p] \/ byte[p]
             /\ child' = [child EXCEPT ![p] = IF byte[p] THEN "idle" ELSE "ready"]
             /\ conf' = [conf EXCEPT ![p] = IF byte[p] THEN {} ELSE conf[p]]
             /\ bound' = Rebound(p, got)
    <3>1. child[p] = "adopt" /\ \A i \in got : bound[i] \in {p, Nobody}
      BY <1>12 DEF Adopt, Got, Free
    <3>2. \A i \in Ip : bound'[i] = IF i \in got THEN p
                                  ELSE IF bound[i] = p THEN Nobody ELSE bound[i]
      BY <2>3 DEF Rebound
    <3>3. \A i \in Ip : bound'[i] = p <=> i \in got
      BY <3>2
    <3>4. \A q \in Pid \ {p} : /\ conf'[q] = conf[q] /\ child'[q] = child[q]
                               /\ \A i \in Ip : bound'[i] = q <=> bound[i] = q
      BY <2>3, <3>1, <3>2
    <3>5. child'[p] = "ready" => got = conf[p] /\ conf'[p] = conf[p]
      BY <2>3
    <3>6. child'[p] # "adopt"
      BY <2>3
    <3> QED BY <3>1, <3>3, <3>4, <3>5, <3>6
  <2> QED BY <2>1, <2>2, <2>3
<1>13. ASSUME NEW p \in Pid, Ready(p) PROVE BoundInv'
  BY <1>13 DEF Ready, Reader
<1>14. ASSUME NEW p \in Pid, ReadyFails(p) PROVE BoundInv'
  BY <1>14, EndBound DEF ReadyFails
<1>15. ASSUME NEW p \in Pid, Reload(p) PROVE BoundInv'
  BY <1>15 DEF Reload
<1>16. ASSUME NEW p \in Pid, RemovePid(p) PROVE BoundInv'
  <2>1. CASE End(p, "failed")
    BY <2>1, EndBound
  <2>2. CASE /\ child[p] = "remove_pid" /\ child' = [child EXCEPT ![p] = "drain"]
             /\ UNCHANGED <<conf, bound>>
    BY <2>2
  <2> QED BY <1>16, <2>1, <2>2 DEF RemovePid
<1>17. ASSUME NEW p \in Pid, Drain(p) PROVE BoundInv'
  BY <1>17, EndBound DEF Drain
<1>18. ASSUME NEW p \in Pid, Notify(p) PROVE BoundInv'
  <2>1. CASE End(p, "killed")
    BY <2>1, EndBound
  <2>2. CASE UNCHANGED <<child, conf, bound>>
    BY <2>2
  <2> QED BY <1>18, <2>1, <2>2 DEF Notify
<1>19. CASE ChangeConfig
  BY <1>19 DEF ChangeConfig
<1>20. ASSUME NEW p \in Pid, WatchResolvConf(p) PROVE BoundInv'
  BY <1>20 DEF WatchResolvConf
<1>21. ASSUME NEW p \in Pid, WatchFails(p) PROVE BoundInv'
  BY <1>21, EndBound DEF WatchFails
<1>22. CASE UNCHANGED vars
  BY <1>22
<1> QED
  BY <1>1, <1>2, <1>3, <1>4, <1>5, <1>6, <1>7, <1>8, <1>9,
     <1>10, <1>11, <1>12, <1>13, <1>14, <1>15, <1>16, <1>17, <1>18,
     <1>19, <1>20, <1>21, <1>22 DEF Next, Parent, Child

\* A pid gets into the file only by the process it names, and before that
\* process can stop in good order the file is removed.
LEMMA PidStep == TypeOK /\ PidInv /\ [Next]_vars => PidInv'
<1> SUFFICES ASSUME TypeOK, PidInv, [Next]_vars PROVE PidInv'
  OBVIOUS
<1> USE PidAssumption DEF TypeOK, PidInv, vars, directoryVars, fileVars,
      pipeVars, Goto, End, Alive, Points, Unhandled
<1>1. ASSUME NEW p \in Pid, ParentDropsEnd(p) PROVE PidInv'
  BY <1>1 DEF ParentDropsEnd
<1>2. ASSUME NEW p \in Pid, ParentReads(p) PROVE PidInv'
  BY <1>2 DEF ParentReads
<1>3. ASSUME NEW p \in Pid, ParentKilled(p) PROVE PidInv'
  BY <1>3 DEF ParentKilled
<1>4. ASSUME NEW p \in Pid, Start(p) PROVE PidInv'
  BY <1>4 DEF Start, Fork, Starting, Alive
<1>5. ASSUME NEW p \in Pid, CreatePid(p) PROVE PidInv'
  BY <1>5 DEF CreatePid
<1>6. ASSUME NEW p \in Pid, CreatePidFails(p) PROVE PidInv'
  BY <1>6 DEF CreatePidFails
<1>7. ASSUME NEW p \in Pid, WritePid(p) PROVE PidInv'
  BY <1>7 DEF WritePid
<1>8. ASSUME NEW p \in Pid, InstallHandler(p) PROVE PidInv'
  BY <1>8 DEF InstallHandler
<1>9. ASSUME NEW p \in Pid, InstallHandlerFails(p) PROVE PidInv'
  BY <1>9 DEF InstallHandlerFails
<1>10. ASSUME NEW p \in Pid, ReadConfig(p) PROVE PidInv'
  BY <1>10 DEF ReadConfig
<1>11. ASSUME NEW p \in Pid, ReadConfigFails(p) PROVE PidInv'
  BY <1>11 DEF ReadConfigFails
<1>12. ASSUME NEW p \in Pid, Adopt(p) PROVE PidInv'
  BY <1>12 DEF Adopt, Got, Free, Rebound
<1>13. ASSUME NEW p \in Pid, Ready(p) PROVE PidInv'
  BY <1>13 DEF Ready, Reader
<1>14. ASSUME NEW p \in Pid, ReadyFails(p) PROVE PidInv'
  BY <1>14 DEF ReadyFails, Reader
<1>15. ASSUME NEW p \in Pid, Reload(p) PROVE PidInv'
  BY <1>15 DEF Reload
<1>16. ASSUME NEW p \in Pid, RemovePid(p) PROVE PidInv'
  BY <1>16 DEF RemovePid
<1>17. ASSUME NEW p \in Pid, Drain(p) PROVE PidInv'
  BY <1>17 DEF Drain
<1>18. ASSUME NEW p \in Pid, Notify(p) PROVE PidInv'
  BY <1>18 DEF Notify, Alive
<1>19. CASE ChangeConfig
  BY <1>19 DEF ChangeConfig
<1>20. ASSUME NEW p \in Pid, WatchResolvConf(p) PROVE PidInv'
  BY <1>20 DEF WatchResolvConf
<1>21. ASSUME NEW p \in Pid, WatchFails(p) PROVE PidInv'
  BY <1>21 DEF WatchFails
<1>22. CASE UNCHANGED vars
  BY <1>22
<1> QED
  BY <1>1, <1>2, <1>3, <1>4, <1>5, <1>6, <1>7, <1>8, <1>9,
     <1>10, <1>11, <1>12, <1>13, <1>14, <1>15, <1>16, <1>17, <1>18,
     <1>19, <1>20, <1>21, <1>22 DEF Next, Parent, Child

\* A start empties the pid file only when no serving process needs it.
LEMMA FileStep == TypeOK /\ PipeInv /\ FileInv /\ [Next]_vars => FileInv'
<1> SUFFICES ASSUME TypeOK, PipeInv, FileInv, [Next]_vars PROVE FileInv'
  OBVIOUS
<1> USE PidAssumption DEF TypeOK, PipeInv, FileInv, Named, vars,
      directoryVars, fileVars, pipeVars, Goto, End, Starting, Alive, Points,
      Ended, Unhandled
<1>1. ASSUME NEW p \in Pid, ParentDropsEnd(p) PROVE FileInv'
  BY <1>1 DEF ParentDropsEnd
<1>2. ASSUME NEW p \in Pid, ParentReads(p) PROVE FileInv'
  BY <1>2 DEF ParentReads
<1>3. ASSUME NEW p \in Pid, ParentKilled(p) PROVE FileInv'
  BY <1>3 DEF ParentKilled
<1>4. ASSUME NEW p \in Pid, Start(p) PROVE FileInv'
  <2> SUFFICES ASSUME ~overlapped'
               PROVE  FileInv'
    OBVIOUS
  <2>1. /\ ~overlapped /\ \A q \in Pid : ~Starting(q)
        /\ child[p] = "none" /\ child' = [child EXCEPT ![p] = "forked"]
        /\ \A q \in Pid : Alive(q) => pidfile # q
        /\ UNCHANGED <<pidfile, linked, byte>>
    BY <1>4 DEF Start, Fork
  <2>2. \A q \in Pid : Alive(q) => child[q] = "drain"
    <3>1. \A q \in Pid : Alive(q) => byte[q]
      BY <2>1
    <3> QED BY <2>1, <3>1
  <2> QED BY <2>1, <2>2
<1>5. ASSUME NEW p \in Pid, CreatePid(p) PROVE FileInv'
  BY <1>5 DEF CreatePid
<1>6. ASSUME NEW p \in Pid, CreatePidFails(p) PROVE FileInv'
  BY <1>6 DEF CreatePidFails
<1>7. ASSUME NEW p \in Pid, WritePid(p) PROVE FileInv'
  BY <1>7 DEF WritePid
<1>8. ASSUME NEW p \in Pid, InstallHandler(p) PROVE FileInv'
  BY <1>8 DEF InstallHandler
<1>9. ASSUME NEW p \in Pid, InstallHandlerFails(p) PROVE FileInv'
  BY <1>9 DEF InstallHandlerFails
<1>10. ASSUME NEW p \in Pid, ReadConfig(p) PROVE FileInv'
  BY <1>10 DEF ReadConfig
<1>11. ASSUME NEW p \in Pid, ReadConfigFails(p) PROVE FileInv'
  BY <1>11 DEF ReadConfigFails
<1>12. ASSUME NEW p \in Pid, Adopt(p) PROVE FileInv'
  BY <1>12 DEF Adopt, Got, Free, Rebound
<1>13. ASSUME NEW p \in Pid, Ready(p) PROVE FileInv'
  BY <1>13 DEF Ready, Reader
<1>14. ASSUME NEW p \in Pid, ReadyFails(p) PROVE FileInv'
  BY <1>14 DEF ReadyFails, Reader
<1>15. ASSUME NEW p \in Pid, Reload(p) PROVE FileInv'
  BY <1>15 DEF Reload
<1>16. ASSUME NEW p \in Pid, RemovePid(p) PROVE FileInv'
  BY <1>16 DEF RemovePid
<1>17. ASSUME NEW p \in Pid, Drain(p) PROVE FileInv'
  BY <1>17 DEF Drain
<1>18. ASSUME NEW p \in Pid, Notify(p) PROVE FileInv'
  BY <1>18 DEF Notify, Alive
<1>19. CASE ChangeConfig
  BY <1>19 DEF ChangeConfig
<1>20. ASSUME NEW p \in Pid, WatchResolvConf(p) PROVE FileInv'
  BY <1>20 DEF WatchResolvConf
<1>21. ASSUME NEW p \in Pid, WatchFails(p) PROVE FileInv'
  BY <1>21 DEF WatchFails
<1>22. CASE UNCHANGED vars
  BY <1>22
<1> QED
  BY <1>1, <1>2, <1>3, <1>4, <1>5, <1>6, <1>7, <1>8, <1>9,
     <1>10, <1>11, <1>12, <1>13, <1>14, <1>15, <1>16, <1>17, <1>18,
     <1>19, <1>20, <1>21, <1>22 DEF Next, Parent, Child

-----------------------------------------------------------------------------
THEOREM Invariance == Spec => []StartInv
<1>1. StartInv /\ [Next]_vars => StartInv'
  BY TypeStep, PipeStep, BoundStep, PidStep, FileStep DEF StartInv
<1> QED BY <1>1, InitInv, PTL DEF Spec

\* Every variable keeps its type.
THEOREM Typed == Spec => []TypeOK
  BY Invariance, PTL DEF StartInv

\* The parent succeeds only with a child that was ready and handles SIGHUP,
\* and reports an error only when the child ended without that.
THEOREM ParentIsTruthful == Spec => []ParentTellsTruth
<1>1. StartInv => ParentTellsTruth
  BY DEF StartInv, PipeInv, ParentTellsTruth, Unhandled
<1> QED BY <1>1, Invariance, PTL

\* A process that reports readiness has bound all it was asked to.
THEOREM ReadyListens == Spec => []ReadyMeansBound
  BY Invariance, PTL DEF StartInv, BoundInv

\* A pid file that names a process that is gone tells of a failure.
THEOREM PidFileOfTheGone == Spec => []StalePidFileMeansFailure
<1>1. StartInv => StalePidFileMeansFailure
  BY DEF StartInv, TypeOK, PidInv, StalePidFileMeansFailure, Alive, Ended, Points
<1> QED BY <1>1, Invariance, PTL

\* Without overlapping invocations the pid file names the serving process.
THEOREM ServerIsNamed == Spec => []ServerIsNotifiable
<1>1. StartInv => ServerIsNotifiable
  BY DEF StartInv, FileInv, ServerIsNotifiable, Serving, Named
<1> QED BY <1>1, Invariance, PTL
=============================================================================
