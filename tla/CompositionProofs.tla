------------------------- MODULE CompositionProofs -------------------------
(***************************************************************************)
(* NetconfOperator implements MountPointSession for each of any number of  *)
(* MountPoints: the proof of the promise that Subscriptions is built on.   *)
(***************************************************************************)
EXTENDS Composition, NetconfOperatorProofs

-----------------------------------------------------------------------------
(* The inductive invariant *)

\* No session is the entry of two MountPoints, and a cleanup closes the
\* transport of the session that is still the entry of its MountPoint.
SessionsApart ==
    /\ \A m, n \in MountPoints : sessions[m] = sessions[n] => m = n \/ sessions[m] = Nil
    /\ LET t == task["MountPoint"] IN
       t.pc = "cleanup" => sessions[t.obj] # Nil /\ t.session = sessions[t.obj]

\* Nothing but the worker of the MountPoints touches what SessionsApart says.
LEMMA ApartFrame ==
    ASSUME SessionsApart, sessions' = sessions,
           \/ task'["MountPoint"].pc # "cleanup"
           \/ /\ task'["MountPoint"].pc = task["MountPoint"].pc
              /\ task'["MountPoint"].obj = task["MountPoint"].obj
              /\ task'["MountPoint"].session = task["MountPoint"].session
    PROVE  SessionsApart'
  BY DEF SessionsApart

\* A new process has no entries.
LEMMA ApartPanic ==
    ASSUME Panic
    PROVE  SessionsApart'
<1>1. (\A m \in MountPoints : sessions'[m] = Nil) /\ task'["MountPoint"] = Idle
  BY DEF Panic, RestartControlPlane, Kinds
<1> QED BY <1>1, TaskFacts DEF SessionsApart

\* The worker of the MountPoints: a session that is dialled is in no entry.
LEMMA ApartMountPoint ==
    ASSUME Inv1, SessionsApart, NEW m \in MountPoints,
           MountPointReconcile(m) \/ MountPointStep(m)
    PROVE  SessionsApart'
<1> DEFINE t == task["MountPoint"]
           u == task'["MountPoint"]
<1>1. /\ m \in Objects /\ Kind[m] = "MountPoint" /\ "MountPoint" \in Kinds
      /\ t \in Task /\ task \in [Kinds -> Task]
      /\ sessions \in [MountPoints -> SessionIds \cup {Nil}] /\ Nil \notin SessionIds
  BY ControlPlaneAssumption, ServerAssumption
     DEF Objects, Kinds, Inv1, TypeOK, ControlPlaneTypeOK, CommonTypeOK
<1>2. CASE MountPointReconcile(m)
  <2>1. /\ sessions' = sessions
        /\ u \in {Idle, Reconciling(m, "init"), Reconciling(m, "closing"), Reconciling(m, "dial")}
    BY <1>1, <1>2 DEF MountPointReconcile
  <2>2. u.pc # "cleanup"
    BY <1>1, <2>1, TaskFacts DEF PCs
  <2> QED BY <2>1, <2>2, ApartFrame
<1>3. CASE MountPointInitialize(m) \/ MountPointFinalize(m) \/ MountPointReport(m)
  <2>1. sessions' = sessions /\ u = Idle
    BY <1>1, <1>3 DEF MountPointInitialize, MountPointFinalize, MountPointReport, WriteStatus,
                      EndTask
  <2> QED BY <2>1, TaskFacts, ApartFrame
<1>4. CASE MountPointDial(m)
  <2>1. CASE Panic
    BY <2>1, ApartPanic
  <2>2. ASSUME NEW st \in {"failed", "connected"}, NEW e \in BOOLEAN,
               task' = [task EXCEPT !["MountPoint"] = Dialled(@, st, e)]
        PROVE  u.pc # "cleanup"
    <3>1. st \in Statuses /\ u = Dialled(t, st, e)
      BY <1>1, <2>2 DEF Statuses
    <3> QED BY <1>1, <3>1, DialledFacts
  <2>3. CASE sessions' = sessions /\ ~Panic
    <3>1. u.pc # "cleanup"
      BY <1>4, <2>2, <2>3 DEF MountPointDial
    <3> QED BY <2>3, <3>1, ApartFrame
  <2>4. ASSUME NEW s \in SessionIds, Unused(s), sessions' = [sessions EXCEPT ![m] = s],
               task' = [task EXCEPT !["MountPoint"] = Dialled(@, "connected", FALSE)]
        PROVE  SessionsApart'
    <3>1. u.pc # "cleanup"
      BY <2>2, <2>4
    <3>2. /\ sessions'[m] = s /\ \A n \in MountPoints : sessions[n] # s
          /\ \A n \in MountPoints : n # m => sessions'[n] = sessions[n]
      BY <1>1, <2>4 DEF Unused
    <3> QED BY <3>1, <3>2 DEF SessionsApart
  <2> QED BY <1>4, <2>1, <2>3, <2>4 DEF MountPointDial
<1>5. CASE MountPointCloseSession(m)
  <2>1. sessions' = sessions /\ t.obj = m
    BY <1>1, <1>5 DEF MountPointCloseSession, At
  <2>2. \/ u = [t EXCEPT !.pc = "finalize"]
        \/ u = [t EXCEPT !.pc = "cleanup", !.session = sessions[m]] /\ sessions[m] # Nil
    BY <1>1, <1>5 DEF MountPointCloseSession
  <2>3. \/ u.pc = "finalize"
        \/ u.obj = m /\ u.session = sessions[m] /\ sessions[m] # Nil
    BY <1>1, <2>1, <2>2 DEF Task
  <2> QED BY <2>1, <2>3 DEF SessionsApart
<1>6. CASE MountPointCleanUp(m)
  <2>1. PICK e \in BOOLEAN :
          task' = [task EXCEPT !["MountPoint"] =
                     [@ EXCEPT !.pc = IF e THEN "write" ELSE "finalize",
                               !.session = Nil, !.err = e]]
    BY <1>6 DEF MountPointCleanUp
  <2>2. u.pc \in {"write", "finalize"}
    BY <1>1, <2>1 DEF Task
  <2>3. \A n \in MountPoints : sessions'[n] = IF n = m THEN Nil ELSE sessions[n]
    BY <1>1, <1>6 DEF MountPointCleanUp
  <2> QED BY <2>2, <2>3 DEF SessionsApart
<1> QED BY <1>2, <1>3, <1>4, <1>5, <1>6 DEF MountPointStep

LEMMA ApartStep ==
    ASSUME Inv1, SessionsApart, [Next]_vars
    PROVE  SessionsApart'
<1>1. "MountPoint" \in Kinds /\ task \in [Kinds -> Task]
  BY DEF Kinds, Inv1, TypeOK, ControlPlaneTypeOK
<1>2. ASSUME NEW o \in Objects, User(o) \/ Informer(o)
      PROVE  SessionsApart'
  <2>1. sessions' = sessions /\ (task' = task \/ task' = Outdated(o))
    BY <1>2 DEF User, Informer, Create, Delete, Edit, Collect, CacheSync
  <2> QED BY <1>1, <2>1, OutdatedFacts, ApartFrame DEF Inv1
<1>3. ASSUME UNCHANGED <<task, sessions>>
      PROVE  SessionsApart'
  BY <1>3, ApartFrame
<1>4. CASE \E s \in SessionIds : Server(s)
  BY <1>3, <1>4 DEF Server, controlVars
<1>5. CASE UNCHANGED vars
  BY <1>3, <1>5 DEF vars
<1>6. CASE Crash
  BY <1>6, ApartPanic DEF Crash
<1>7. ASSUME NEW m \in MountPoints, MountPointReconcile(m) \/ MountPointStep(m)
      PROVE  SessionsApart'
  BY <1>7, ApartMountPoint
<1>8. ASSUME NEW o \in Ops, OperationAction(o)
      PROVE  SessionsApart'
  <2>1. Kind[o] # "MountPoint"
    BY ControlPlaneAssumption DEF Objects
  <2>2. Panic \/ (sessions' = sessions /\ task'["MountPoint"] = task["MountPoint"])
    BY <1>1, <1>8, <2>1 DEF OperationAction, Reconcile, CheckDependency, LookupSession, Replied,
         NotReplied, Report, WriteStatus, EndTask
  <2> QED BY <2>2, ApartPanic, ApartFrame
<1>9. ASSUME NEW o \in Ops, OperationReconcile(o) \/ OperationStep(o)
      PROVE  SessionsApart'
  BY <1>8, <1>9, OperationSteps
<1> QED BY <1>2, <1>4, <1>5, <1>6, <1>7, <1>9 DEF Next

-----------------------------------------------------------------------------
(* What a step is for the other controllers *)

\* A step of MountPointSession, or none, for every MountPoint.
ViewStep == \A m \in MountPoints : [View(m)!MountNext]_(View(m)!mountVars)

\* The cache changes at most.
LEMMA ViewNotice ==
    ASSUME UNCHANGED <<sessions, open, orphans>>
    PROVE  ViewStep
  BY DEF ViewStep, View!MountNext, View!Notice

LEMMA ViewRestart ==
    ASSUME Panic
    PROVE  ViewStep
<1>1. open' = open /\ orphans' = open /\ \A m \in MountPoints : sessions'[m] = Nil
  BY DEF Panic
<1> QED BY <1>1 DEF ViewStep, View!MountNext, View!Restart

\* A session is dialled, and gets into the entry of m or into none.
LEMMA ViewDial ==
    ASSUME Inv1, NEW m \in MountPoints, NEW s \in SessionIds, s \notin open,
           open' = open \cup {s}, UNCHANGED <<cache, orphans>>,
           sessions' = sessions \/ sessions' = [sessions EXCEPT ![m] = s]
    PROVE  ViewStep
<1>1. sessions \in [MountPoints -> SessionIds \cup {Nil}]
  BY DEF Inv1, TypeOK, CommonTypeOK
<1>2. ASSUME NEW n \in MountPoints, sessions'[n] = s
      PROVE  View(n)!MountNext
  BY <1>2 DEF View!MountNext, View!Connect
<1>3. ASSUME NEW n \in MountPoints, sessions'[n] = sessions[n]
      PROVE  View(n)!MountNext
  BY <1>3 DEF View!MountNext, View!Elsewhere
<1> QED BY <1>1, <1>2, <1>3 DEF ViewStep

LEMMA ViewEnd ==
    ASSUME NEW s \in SessionIds, s \in open, EndSession(s), UNCHANGED <<cache, sessions>>
    PROVE  ViewStep
  BY DEF ViewStep, EndSession, View!MountNext, View!End

\* The cleanup of m disconnects m, and is nothing but the end of a foreign
\* session's transport for the others.
LEMMA ViewCleanUp ==
    ASSUME Inv1, SessionsApart, NEW m \in MountPoints, MountPointCleanUp(m)
    PROVE  ViewStep
<1> DEFINE s == sessions[m]
<1>1. /\ sessions \in [MountPoints -> SessionIds \cup {Nil}] /\ orphans \subseteq open
      /\ Kind[m] = "MountPoint"
  BY ControlPlaneAssumption DEF Objects, Inv1, TypeOK, CommonTypeOK, ServerTypeOK
<1>2. /\ s # Nil /\ s \in SessionIds
      /\ \A n \in MountPoints : n # m => sessions[n] # s
  BY <1>1 DEF MountPointCleanUp, At, SessionsApart
<1>3. /\ orphans' = orphans \cup ({s} \cap open) /\ UNCHANGED <<cache, open>>
      /\ \A n \in MountPoints : sessions'[n] = IF n = m THEN Nil ELSE sessions[n]
  BY <1>1 DEF MountPointCleanUp, At, SessionsApart, apiVars
<1>4. View(m)!MountNext
  BY <1>2, <1>3 DEF View!MountNext, View!Disconnect
<1>5. ASSUME NEW n \in MountPoints, n # m
      PROVE  [View(n)!MountNext]_(View(n)!mountVars)
  <2>1. CASE s \in open
    BY <1>2, <1>3, <1>5, <2>1 DEF View!MountNext, View!Abandon
  <2>2. CASE s \notin open
    BY <1>3, <1>5, <2>2 DEF View!mountVars
  <2> QED BY <2>1, <2>2
<1> QED BY <1>4, <1>5 DEF ViewStep

LEMMA ViewNext ==
    ASSUME Inv1, SessionsApart, [Next]_vars
    PROVE  ViewStep
<1>1. ASSUME NEW o \in Objects, User(o) \/ Informer(o)
      PROVE  ViewStep
  BY <1>1, ViewNotice DEF User, Informer, serverVars
<1>2. ASSUME NEW s \in SessionIds, Server(s)
      PROVE  ViewStep
  <2>1. s \in open
    BY <1>2 DEF Server, DropOrphan, LoseSession, Inv1, TypeOK, ServerTypeOK
  <2> QED BY <1>2, <2>1, ViewEnd DEF Server, DropOrphan, LoseSession, controlVars
<1>3. ASSUME NEW m \in MountPoints, MountPointReconcile(m) \/ MountPointStep(m)
      PROVE  ViewStep
  <2>1. CASE \/ MountPointReconcile(m) \/ MountPointInitialize(m)
             \/ MountPointFinalize(m) \/ MountPointReport(m)
    BY <2>1, ViewNotice DEF MountPointReconcile, MountPointInitialize, MountPointFinalize,
       MountPointReport, serverVars
  <2>2. CASE MountPointDial(m)
    BY <2>2, ViewNotice, ViewRestart, ViewDial DEF MountPointDial, Unused, apiVars
  <2>3. CASE MountPointCloseSession(m)
    <3>1. CASE UNCHANGED serverVars
      BY <2>3, <3>1, ViewNotice DEF MountPointCloseSession, serverVars
    <3>2. CASE ~UNCHANGED serverVars
      <4>1. sessions[m] \in SessionIds
        BY <2>3, <3>2 DEF MountPointCloseSession, Inv1, TypeOK, CommonTypeOK
      <4> QED BY <2>3, <3>2, <4>1, ViewEnd DEF MountPointCloseSession, Usable, apiVars
    <3> QED BY <3>1, <3>2
  <2>4. CASE MountPointCleanUp(m)
    BY <2>4, ViewCleanUp
  <2> QED BY <1>3, <2>1, <2>2, <2>3, <2>4 DEF MountPointStep
<1>4. ASSUME NEW o \in Ops, OperationReconcile(o) \/ OperationStep(o)
      PROVE  ViewStep
  <2>1. OperationAction(o)
    BY <1>4, OperationSteps
  <2>2. Panic \/ UNCHANGED <<sessions, open, orphans>>
    BY <2>1 DEF OperationAction, Reconcile, CheckDependency, LookupSession, Replied,
       NotReplied, Report, serverVars
  <2> QED BY <2>2, ViewRestart, ViewNotice
<1>5. CASE Crash
  BY <1>5, ViewRestart DEF Crash
<1>6. CASE UNCHANGED vars
  BY <1>6, ViewNotice DEF vars
<1> QED BY <1>1, <1>2, <1>3, <1>4, <1>5, <1>6 DEF Next

\* NetconfOperator implements MountPointSession, the specification that the
\* controllers of the subscriptions are modelled on, for every MountPoint at
\* once: what the workers of mountpoint_controller.go do to one MountPoint's
\* entry in Sessions never breaks the promise about another's.
THEOREM ImplementsSessions == Spec => ImplementsMountPointSession
<1>1. Init => \A m \in MountPoints : View(m)!MountInit
  <2> SUFFICES ASSUME Init, NEW m \in MountPoints
               PROVE  View(m)!MountInit
    OBVIOUS
  <2>1. cache[m].phase = "absent" /\ sessions[m] = Nil /\ open = {} /\ orphans = {}
    BY DEF Init, ControlPlaneInit, CommonInit, ServerInit, Objects, Absent
  <2> QED BY <2>1 DEF View!MountInit
<1>2. Init => Inv1 /\ SessionsApart
  <2> SUFFICES ASSUME Init
               PROVE  SessionsApart
    BY Inv1Init
  <2>1. (\A m \in MountPoints : sessions[m] = Nil) /\ task["MountPoint"] = Idle
    BY DEF Init, ControlPlaneInit, CommonInit, Kinds
  <2> QED BY <2>1, TaskFacts DEF SessionsApart
<1>3. Inv1 /\ SessionsApart /\ [Next]_vars => (Inv1 /\ SessionsApart)'
  BY Inv1Step, ApartStep
<1>4. Inv1 /\ SessionsApart /\ [Next]_vars => ViewStep
  BY ViewNext
<1>5. Spec => (\A m \in MountPoints : View(m)!MountInit) /\ [][ViewStep]_vars
  BY <1>1, <1>2, <1>3, <1>4, PTL DEF Spec
<1> QED BY <1>5 DEF ImplementsMountPointSession, ViewStep
=============================================================================
