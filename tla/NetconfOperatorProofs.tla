----------------------- MODULE NetconfOperatorProofs -----------------------
(***************************************************************************)
(* Proofs about NetconfOperator for every set of resources, sessions and   *)
(* datastores and every bound.                                             *)
(***************************************************************************)
EXTENDS InductiveInvariant, TLAPS

-----------------------------------------------------------------------------
(* The steps of the system, with the controllers of the operations folded  *)
(* into the steps they share                                               *)

\* An operation's RPCs, in the terms of the steps they share.
OperationAction(o) ==
    \/ \E valid \in BOOLEAN, pc \in {"depend", "lookup"} :
         /\ Reconcile(o, valid, pc)
         /\ valid /\ pc = "lookup" => DependencyMet(o)
         /\ valid => CheckMountPointExists(MountOf[o])
    \/ CheckDependency(o)
    \/ \E rpcs \in SUBSET Rpcs :
         /\ LookupSession(o, rpcs)
         /\ Kind[o] = "EditConfig" \/ \E r \in Rpcs : rpcs = {r}
         /\ Kind[o] = "Lock" => rpcs = {"lock"}
         /\ "unlock" \in rpcs => MayUnlock(o)
    \/ \E r \in Rpcs, ok \in BOOLEAN, status \in {"success", "failed"} :
         /\ Replied(o, r, ok, status)
         /\ IF Kind[o] = "EditConfig" THEN status = "success"
                                      ELSE status = IF ok THEN "success" ELSE "failed"
    \/ \E r \in Rpcs : NotReplied(o, r)
    \/ Report(o)

\* Every step of an operation controller is one of the shared steps.
LEMMA OperationSteps ==
    ASSUME NEW o \in Ops, OperationReconcile(o) \/ OperationStep(o)
    PROVE  OperationAction(o)
<1> USE ControlPlaneAssumption, CommonAssumption DEF Rpcs
<1>1. ASSUME OperationReconcile(o) PROVE OperationAction(o)
  <2>1. \E valid \in BOOLEAN, pc \in {"depend", "lookup"} :
         /\ Reconcile(o, valid, pc)
         /\ valid /\ pc = "lookup" => DependencyMet(o)
         /\ valid => CheckMountPointExists(MountOf[o])
    BY <1>1 DEF OperationReconcile, LockReconcile, UnlockReconcile, CommitReconcile,
         GetReconcile, GetConfigReconcile, RPCReconcile, EditConfigReconcile,
         DependencyMet, CheckMountPointExists
  <2> QED BY <2>1 DEF OperationAction
<1>2. ASSUME NEW r \in Rpcs, Execute(o, r), Kind[o] # "EditConfig",
             Kind[o] = "Lock" => r = "lock", r = "unlock" => Kind[o] = "Unlock"
      PROVE OperationAction(o)
  <2>1. CASE LookupSession(o, {r})
    <3>1. "unlock" \in {r} => MayUnlock(o)
      BY <1>2 DEF MayUnlock
    <3> QED BY <1>2, <2>1, <3>1 DEF OperationAction
  <2>2. CASE \E ok \in BOOLEAN : Replied(o, r, ok, IF ok THEN "success" ELSE "failed")
    BY <1>2, <2>2 DEF OperationAction
  <2>3. CASE NotReplied(o, r)
    BY <2>3 DEF OperationAction
  <2> QED BY <1>2, <2>1, <2>2, <2>3 DEF Execute
<1>3. ASSUME EditConfigOperatorLogic(o) PROVE OperationAction(o)
  <2>1. CASE CheckDependency(o)
    BY <2>1 DEF OperationAction
  <2>2. CASE LookupSession(o, Flags[o] \cup {"edit"})
    <3>1. "unlock" \in Flags[o] \cup {"edit"} => MayUnlock(o)
      BY DEF MayUnlock
    <3> QED BY <1>3, <2>2, <3>1 DEF OperationAction, EditConfigOperatorLogic
  <2>3. CASE \E r \in Rpcs, ok \in BOOLEAN : Replied(o, r, ok, "success")
    BY <1>3, <2>3 DEF OperationAction, EditConfigOperatorLogic
  <2>4. CASE \E r \in Rpcs : NotReplied(o, r)
    BY <2>4 DEF OperationAction
  <2> QED BY <1>3, <2>1, <2>2, <2>3, <2>4 DEF EditConfigOperatorLogic
<1>4. ASSUME UnlockOperatorLogic(o) PROVE OperationAction(o)
  <2>1. CASE CheckDependency(o)
    BY <2>1 DEF OperationAction
  <2>2. CASE Execute(o, "unlock")
    BY <1>2, <1>4, <2>2 DEF UnlockOperatorLogic
  <2> QED BY <1>4, <2>1, <2>2 DEF UnlockOperatorLogic
<1>5. CASE Report(o)
  BY <1>5 DEF OperationAction
<1> QED
  BY <1>1, <1>2, <1>3, <1>4, <1>5 DEF OperationStep, LockOperatorLogic, CommitOperatorLogic,
     GetOperatorLogic, GetConfigOperatorLogic, RPCOperatorLogic

-----------------------------------------------------------------------------
(* Types *)

\* An idle worker, and one that starts on a cached resource.
LEMMA TaskTypes ==
    ASSUME TypeOK
    PROVE  /\ Idle \in Task
           /\ \A o \in Objects, pc \in PCs : Reconciling(o, pc) \in Task
           /\ \A o \in Objects : Failing(o) \in Task
           /\ \A o \in Objects : Outdated(o) \in [Kinds -> Task]
<1> USE DEF TypeOK, ControlPlaneTypeOK
<1>1. Absent \in Resource /\ Idle \in Task
  BY DEF Idle, Task, Absent, Resource, PCs, Statuses
<1>2. ASSUME NEW o \in Objects, NEW pc \in PCs PROVE Reconciling(o, pc) \in Task
  BY <1>1 DEF Reconciling, Task
<1>3. ASSUME NEW o \in Objects PROVE Failing(o) \in Task
  <2>1. Reconciling(o, "write") \in Task
    BY <1>2 DEF PCs
  <2> QED BY <2>1 DEF Failing, Task
<1>4. ASSUME NEW o \in Objects PROVE Outdated(o) \in [Kinds -> Task]
  <2> DEFINE k == Kind[o]
             t == [task[k] EXCEPT !.fresh = IF task[k].obj = o THEN FALSE ELSE @]
  <2>1. k \in Kinds /\ task[k] \in Task
    BY ControlPlaneAssumption
  <2>2. t \in Task
    BY <2>1 DEF Task
  <2>3. Outdated(o) = [task EXCEPT ![k] = t]
    BY DEF Outdated
  <2> HIDE DEF t
  <2> QED BY <2>1, <2>2, <2>3
<1> QED BY <1>1, <1>2, <1>3, <1>4

\* A new process has the right types again.
LEMMA PanicType ==
    ASSUME TypeOK, Panic
    PROVE  /\ ControlPlaneTypeOK'
           /\ sessions' \in [MountPoints -> SessionIds \cup {Nil}]
           /\ open' \subseteq SessionIds
           /\ orphans' \subseteq open'
<1>1. Idle \in Task
  BY TaskTypes
<1> QED
  BY <1>1 DEF TypeOK, ControlPlaneTypeOK, ServerTypeOK, Panic, RestartControlPlane, StatusOf

\* Sessions end, and faults are counted, within the types.
LEMMA ServerType ==
    ASSUME ServerTypeOK
    PROVE  /\ \A s \in SessionIds : EndSession(s) =>
                 /\ open' \subseteq SessionIds
                 /\ orphans' \subseteq open'
                 /\ lockOwner' \in [MountPoints -> [Stores -> SessionIds \cup {Nil}]]
           /\ \A f \in AllFaultKinds : Fault(f) => faults' \in 0 .. MaxFaults
           /\ \A r \in Rpcs, s \in SessionIds, m \in MountPoints, d \in Stores :
                 Executed(r, s, m, d) \in [MountPoints -> [Stores -> SessionIds \cup {Nil}]]
<1>1. ASSUME NEW s \in SessionIds, EndSession(s)
      PROVE  /\ open' \subseteq SessionIds
             /\ orphans' \subseteq open'
             /\ lockOwner' \in [MountPoints -> [Stores -> SessionIds \cup {Nil}]]
  BY <1>1 DEF EndSession, Released, ServerTypeOK
<1>2. ASSUME NEW f \in AllFaultKinds, Fault(f) PROVE faults' \in 0 .. MaxFaults
  BY <1>2, ServerAssumption DEF Fault, ServerTypeOK
<1>3. ASSUME NEW r \in Rpcs, NEW s \in SessionIds, NEW m \in MountPoints, NEW d \in Stores
      PROVE  Executed(r, s, m, d) \in [MountPoints -> [Stores -> SessionIds \cup {Nil}]]
  BY DEF Executed, ServerTypeOK, Rpcs
<1> QED BY <1>1, <1>2, <1>3

\* What a reply does to a reconcile.
LEMMA AfterReplyFacts ==
    ASSUME NEW t \in Task, NEW r \in Rpcs, NEW ok \in BOOLEAN, NEW st \in Statuses
    PROVE  LET u == AfterReply(t, r, ok, st) IN
           /\ u \in Task
           /\ u.obj = t.obj /\ u.fresh = t.fresh /\ u.err = t.err /\ u.session = t.session
           /\ u.pc = IF t.todo = {r} THEN "write" ELSE t.pc
           /\ u.instance.phase = t.instance.phase
           /\ u.instance.finalizer = t.instance.finalizer
           /\ u.instance.status = IF t.todo = {r} THEN st ELSE t.instance.status
<1> DEFINE b == t.ok /\ ok
           i == [t.instance EXCEPT !.status = st]
<1>1. b \in BOOLEAN
  OBVIOUS
<1>2. /\ i \in Resource
      /\ i.phase = t.instance.phase
      /\ i.finalizer = t.instance.finalizer
      /\ i.status = st
  BY DEF Task, Resource
<1>3. AfterReply(t, r, ok, st) =
        IF t.todo = {r}
        THEN [t EXCEPT !.pc = "write", !.todo = {}, !.ok = b, !.instance = i]
        ELSE [t EXCEPT !.todo = @ \ {r}, !.ok = b]
  BY DEF AfterReply
<1> HIDE DEF b, i
<1>4. CASE t.todo = {r}
  <2> DEFINE u == [t EXCEPT !.pc = "write", !.todo = {}, !.ok = b, !.instance = i]
  <2>1. u \in Task
    BY <1>1, <1>2 DEF Task, PCs
  <2>2. /\ u.obj = t.obj /\ u.fresh = t.fresh /\ u.err = t.err /\ u.session = t.session
        /\ u.pc = "write" /\ u.instance = i
    BY DEF Task
  <2> HIDE DEF u
  <2>3. AfterReply(t, r, ok, st) = u
    BY <1>3, <1>4 DEF u
  <2> QED BY <1>2, <1>4, <2>1, <2>2, <2>3
<1>5. CASE t.todo # {r}
  <2> DEFINE u == [t EXCEPT !.todo = @ \ {r}, !.ok = b]
  <2>1. u \in Task
    BY <1>1 DEF Task
  <2>2. /\ u.obj = t.obj /\ u.fresh = t.fresh /\ u.err = t.err /\ u.session = t.session
        /\ u.pc = t.pc /\ u.instance = t.instance
    BY DEF Task
  <2> HIDE DEF u
  <2>3. AfterReply(t, r, ok, st) = u
    BY <1>3, <1>5 DEF u
  <2> QED BY <1>5, <2>1, <2>2, <2>3
<1> QED BY <1>4, <1>5

\* What the end of manageOperatorLogic does to the reconcile of a MountPoint.
LEMMA DialledFacts ==
    ASSUME NEW t \in Task, NEW st \in Statuses, NEW e \in BOOLEAN
    PROVE  LET u == Dialled(t, st, e) IN
           /\ u \in Task
           /\ u.obj = t.obj /\ u.fresh = t.fresh /\ u.session = t.session
           /\ u.pc = "write" /\ u.err = e
           /\ u.instance.phase = t.instance.phase
           /\ u.instance.finalizer = t.instance.finalizer
           /\ u.instance.status = st
<1> DEFINE i == [t.instance EXCEPT !.status = st]
           u == [t EXCEPT !.pc = "write", !.err = e, !.instance = i]
<1>1. /\ i \in Resource
      /\ i.phase = t.instance.phase
      /\ i.finalizer = t.instance.finalizer
      /\ i.status = st
  BY DEF Task, Resource
<1>2. Dialled(t, st, e) = u
  BY DEF Dialled
<1> HIDE DEF i
<1>3. u \in Task
  BY <1>1 DEF Task, PCs
<1>4. /\ u.obj = t.obj /\ u.fresh = t.fresh /\ u.session = t.session
      /\ u.pc = "write" /\ u.err = e /\ u.instance = i
  BY DEF Task
<1> HIDE DEF u
<1> QED BY <1>1, <1>2, <1>3, <1>4

\* The user and the informer.
LEMMA ControlPlaneTypeStep ==
    ASSUME TypeOK, NEW o \in Objects, User(o) \/ Informer(o)
    PROVE  TypeOK'
<1> USE DEF TypeOK, ControlPlaneTypeOK
<1>1. Outdated(o) \in [Kinds -> Task]
  BY TaskTypes
<1>2. New \in Resource /\ Absent \in Resource
  BY DEF New, Absent, Resource, Statuses
<1>3. /\ Fired(o) \in [Objects -> {"synced", "status", "event"}]
      /\ Silent(o) \in [Objects -> {"synced", "status", "event"}]
  BY DEF Fired, Silent
<1>4. "none" \in StatusOf(o) /\ New.status = "none" /\ Absent.status = "none"
  BY DEF StatusOf, New, Absent
<1>5. ASSUME UserChange PROVE changes' \in 0 .. MaxChanges
  BY <1>5, ControlPlaneAssumption DEF UserChange
<1>6. CASE UNCHANGED <<serverVars, faults, sessions, history>> /\ Create(o)
  BY <1>2, <1>3, <1>4, <1>6
     DEF Create, serverVars, history, ServerTypeOK, CommonTypeOK
<1>7. CASE UNCHANGED <<serverVars, faults, sessions, history>> /\ Delete(o)
  <2>1. [obj EXCEPT ![o].phase = "deleting"] \in [Objects -> Resource]
    BY DEF Resource
  <2>2. \A p \in Objects : obj'[p].status \in StatusOf(p)
    BY <1>4, <1>7 DEF Delete, Resource
  <2>3. ControlPlaneTypeOK'
    BY <1>1, <1>2, <1>3, <1>5, <1>7, <2>1, <2>2 DEF Delete
  <2> QED BY <1>7, <2>3 DEF serverVars, history, ServerTypeOK, CommonTypeOK
<1>8. CASE UNCHANGED <<serverVars, faults, sessions, history>> /\ Edit(o)
  BY <1>1, <1>3, <1>5, <1>8 DEF Edit, serverVars, history, ServerTypeOK, CommonTypeOK
<1>9. CASE UNCHANGED <<serverVars, faults, sessions, history>> /\ Collect(o)
  BY <1>1, <1>2, <1>3, <1>4, <1>9
     DEF Collect, serverVars, history, ServerTypeOK, CommonTypeOK
<1>10. CASE Informer(o)
  BY <1>10 DEF Informer, CacheSync, serverVars, history, ServerTypeOK, CommonTypeOK
<1> QED
  BY <1>6, <1>7, <1>8, <1>9, <1>10 DEF User

\* A worker reports a status of its resource's kind.
LEMMA WriteStatusType ==
    ASSUME TypeOK, TaskShape, StatusShape, NEW o \in Objects, WriteStatus(o)
    PROVE  ControlPlaneTypeOK'
<1> DEFINE t == task[Kind[o]]
<1> USE DEF TypeOK, ControlPlaneTypeOK
<1>1. Kind[o] \in Kinds /\ t \in Task /\ Idle \in Task /\ t.obj = o /\ t.pc = "write"
  BY TaskTypes, ControlPlaneAssumption DEF WriteStatus, At
<1>2. t.instance.status \in StatusOf(o) /\ t.instance.status \in Statuses
  BY <1>1 DEF StatusShape, Task, Resource
<1>3. task' \in [Kinds -> Task]
  BY <1>1 DEF WriteStatus, EndTask
<1>4. watch' \in [Objects -> {"synced", "status", "event"}]
  BY DEF WriteStatus, Silent
<1>5. obj' \in [Objects -> Resource] /\ \A p \in Objects : obj'[p].status \in StatusOf(p)
  <2>1. CASE obj' = [obj EXCEPT ![o].status = t.instance.status]
    BY <1>2, <2>1 DEF Resource
  <2> QED BY <2>1 DEF WriteStatus
<1> QED BY <1>3, <1>4, <1>5 DEF WriteStatus

\* The MountPoint controller.
LEMMA MountPointTypeStep ==
    ASSUME TypeOK, TaskShape, StatusShape, NEW m \in MountPoints,
           MountPointReconcile(m) \/ MountPointStep(m)
    PROVE  TypeOK'
<1> DEFINE t == task["MountPoint"]
<1> USE DEF TypeOK, ControlPlaneTypeOK, CommonTypeOK, serverVars, history, apiVars
<1>1. /\ m \in Objects
      /\ Kind[m] = "MountPoint"
      /\ "MountPoint" \in Kinds
      /\ t \in Task
      /\ Idle \in Task
      /\ \A pc \in PCs : Reconciling(m, pc) \in Task
  BY TaskTypes, ControlPlaneAssumption DEF Objects, Kinds
<1>2. CASE MountPointReconcile(m)
  <2>1. task' \in [Kinds -> Task]
    BY <1>1, <1>2 DEF MountPointReconcile, PCs
  <2> QED BY <1>2, <2>1 DEF MountPointReconcile, Dequeue, ServerTypeOK
<1>3. Absent \in Resource /\ Absent.status \in StatusOf(m)
  BY DEF Absent, Resource, Statuses, StatusOf
<1>4. CASE MountPointInitialize(m)
  <2>1. obj' \in [Objects -> Resource] /\ \A p \in Objects : obj'[p].status \in StatusOf(p)
    <3>1. CASE obj' = [obj EXCEPT ![m].finalizer = TRUE]
      <4> DEFINE r == [obj[m] EXCEPT !.finalizer = TRUE]
      <4>1. r \in Resource /\ r.status = obj[m].status
        BY <1>1 DEF Resource
      <4>2. obj' = [obj EXCEPT ![m] = r]
        BY <3>1
      <4> HIDE DEF r
      <4> QED BY <1>1, <4>1, <4>2
    <3> QED BY <1>4, <3>1 DEF MountPointInitialize
  <2>2. task' \in [Kinds -> Task]
    BY <1>1, <1>4 DEF MountPointInitialize, EndTask
  <2> QED BY <1>1, <1>4, <2>1, <2>2 DEF MountPointInitialize, Fired, ServerTypeOK
<1>5. CASE MountPointDial(m)
  <2>1. ASSUME NEW st \in Statuses, NEW e \in BOOLEAN,
               task' = [task EXCEPT !["MountPoint"] = Dialled(@, st, e)]
        PROVE  task' \in [Kinds -> Task]
    BY <1>1, <2>1, DialledFacts
  <2>2. "failed" \in Statuses /\ "connected" \in Statuses
    BY DEF Statuses
  <2>3. \A f \in AllFaultKinds : Fault(f) => faults' \in 0 .. MaxFaults
    BY ServerType
  <2>4. CASE Fault("nilsession") /\ Panic
    BY <1>5, <2>3, <2>4, PanicType DEF MountPointDial, ServerTypeOK, AllFaultKinds
  <2>5. CASE /\ \E st \in Statuses, e \in BOOLEAN :
                 task' = [task EXCEPT !["MountPoint"] = Dialled(@, st, e)]
             /\ UNCHANGED <<apiVars, queue>>
    <3>1. task' \in [Kinds -> Task]
      BY <2>1, <2>5
    <3>2. ControlPlaneTypeOK'
      BY <1>5, <2>5, <3>1 DEF MountPointDial
    <3>3. CASE UNCHANGED <<sessions, open, orphans>>
      BY <1>5, <2>3, <3>2, <3>3 DEF MountPointDial, ServerTypeOK, AllFaultKinds, Fault
    <3>4. CASE \E s \in SessionIds : open' = open \cup {s} /\ UNCHANGED <<sessions, orphans>>
      BY <1>5, <2>3, <3>2, <3>4 DEF MountPointDial, ServerTypeOK, AllFaultKinds, Fault
    <3>5. CASE \E s \in SessionIds : /\ open' = open \cup {s}
                                     /\ sessions' = [sessions EXCEPT ![m] = s]
                                     /\ UNCHANGED <<orphans, faults>>
      BY <1>5, <3>2, <3>5 DEF MountPointDial, ServerTypeOK
    <3> QED BY <1>5, <2>4, <3>3, <3>4, <3>5 DEF MountPointDial
  <2> QED BY <1>5, <2>2, <2>4, <2>5 DEF MountPointDial
<1>6. CASE MountPointCloseSession(m)
  <2>1. task' \in [Kinds -> Task]
    <3>1. [t EXCEPT !.pc = "finalize"] \in Task
      BY <1>1 DEF Task, PCs
    <3>2. [t EXCEPT !.pc = "cleanup", !.session = sessions[m]] \in Task
      BY <1>1 DEF Task, PCs
    <3>3. \/ task' = [task EXCEPT !["MountPoint"] = [t EXCEPT !.pc = "finalize"]]
          \/ task' = [task EXCEPT !["MountPoint"] = [t EXCEPT !.pc = "cleanup", !.session = sessions[m]]]
      BY <1>6 DEF MountPointCloseSession
    <3> QED BY <1>1, <3>1, <3>2, <3>3
  <2>2. ServerTypeOK'
    <3>1. CASE Usable(sessions[m]) /\ EndSession(sessions[m]) /\ UNCHANGED faults
      BY <3>1, ServerType DEF ServerTypeOK, Usable
    <3>2. CASE Usable(sessions[m]) /\ Fault("timeout") /\ UNCHANGED serverVars
      BY <3>2, ServerType DEF ServerTypeOK, AllFaultKinds
    <3>3. CASE UNCHANGED <<serverVars, faults>>
      BY <3>3 DEF ServerTypeOK
    <3> QED BY <1>6, <3>1, <3>2, <3>3 DEF MountPointCloseSession
  <2> QED BY <1>6, <2>1, <2>2 DEF MountPointCloseSession
<1>7. CASE MountPointCleanUp(m)
  <2>1. ASSUME NEW e \in BOOLEAN, NEW pc \in {"write", "finalize"}
        PROVE  [t EXCEPT !.pc = pc, !.session = Nil, !.err = e] \in Task
    BY <1>1 DEF Task, PCs
  <2>2. PICK e \in BOOLEAN :
          task' = [task EXCEPT !["MountPoint"] =
                     [@ EXCEPT !.pc = IF e THEN "write" ELSE "finalize",
                               !.session = Nil, !.err = e]]
    BY <1>7 DEF MountPointCleanUp
  <2>3. task' \in [Kinds -> Task]
    BY <1>1, <2>1, <2>2
  <2> QED BY <1>7, <2>3 DEF MountPointCleanUp, ServerTypeOK
<1>8. CASE MountPointFinalize(m)
  <2>1. task' \in [Kinds -> Task]
    BY <1>1, <1>8 DEF MountPointFinalize, EndTask
  <2> QED BY <1>1, <1>3, <1>8, <2>1 DEF MountPointFinalize, Fired, ServerTypeOK
<1>9. CASE MountPointReport(m)
  BY <1>1, <1>9, WriteStatusType DEF MountPointReport, ServerTypeOK
<1> QED
  BY <1>2, <1>4, <1>5, <1>6, <1>7, <1>8, <1>9 DEF MountPointStep

\* The controllers of the operations.
LEMMA OperationTypeStep ==
    ASSUME TypeOK, TaskShape, StatusShape, NEW o \in Ops, OperationAction(o)
    PROVE  TypeOK'
<1> DEFINE k == Kind[o]
           t == task[Kind[o]]
<1> USE DEF TypeOK, ControlPlaneTypeOK, CommonTypeOK, serverVars, history, apiVars
<1>1. /\ o \in Objects
      /\ k \in Kinds
      /\ t \in Task
      /\ Idle \in Task
      /\ \A pc \in PCs : Reconciling(o, pc) \in Task
      /\ Failing(o) \in Task
      /\ MountOf[o] \in MountPoints
      /\ StoreOf[o] \in Stores
  BY TaskTypes, ControlPlaneAssumption, CommonAssumption DEF Objects
<1>2. CASE \E valid \in BOOLEAN, pc \in {"depend", "lookup"} : Reconcile(o, valid, pc)
  <2>1. task' \in [Kinds -> Task]
    BY <1>1, <1>2 DEF Reconcile, PCs
  <2> QED BY <1>2, <2>1 DEF Reconcile, Dequeue, ServerTypeOK
<1>3. CASE CheckDependency(o)
  <2>1. /\ [t EXCEPT !.pc = "lookup"] \in Task
        /\ [t EXCEPT !.pc = "write", !.err = TRUE] \in Task
    BY <1>1 DEF Task, PCs
  <2>2. task' \in [Kinds -> Task]
    BY <1>1, <1>3, <2>1 DEF CheckDependency
  <2> QED BY <1>3, <2>2 DEF CheckDependency, ServerTypeOK
<1>4. ASSUME NEW rpcs \in SUBSET Rpcs, LookupSession(o, rpcs) PROVE TypeOK'
  <2>1. CASE Panic
    BY <1>4, <2>1, PanicType DEF LookupSession, ServerTypeOK
  <2>2. CASE task' = [task EXCEPT ![k] = [@ EXCEPT !.pc = "rpc", !.session = sessions[MountOf[o]], !.todo = rpcs]]
             /\ UNCHANGED <<apiVars, queue, open, orphans, sessions>>
    <3>1. [t EXCEPT !.pc = "rpc", !.session = sessions[MountOf[o]], !.todo = rpcs] \in Task
      BY <1>1 DEF Task, PCs
    <3>2. task' \in [Kinds -> Task]
      BY <1>1, <2>2, <3>1
    <3> QED BY <1>4, <2>2, <3>2 DEF LookupSession, ServerTypeOK
  <2> QED BY <1>4, <2>1, <2>2 DEF LookupSession
<1>5. ASSUME NEW r \in Rpcs, NEW ok \in BOOLEAN, NEW st \in {"success", "failed"},
             Replied(o, r, ok, st)
      PROVE  TypeOK'
  <2>1. AfterReply(t, r, ok, st) \in Task
    BY <1>1, AfterReplyFacts DEF Statuses
  <2>4. task' \in [Kinds -> Task]
    BY <1>1, <1>5, <2>1 DEF Replied
  <2>5. t.session \in SessionIds
    BY <1>5 DEF Replied, Usable, ServerTypeOK
  <2>6. lockOwner' \in [MountPoints -> [Stores -> SessionIds \cup {Nil}]]
    BY <1>1, <1>5, <2>5, ServerType DEF Replied, ServerTypeOK
  <2> QED BY <1>5, <2>4, <2>6 DEF Replied, ServerTypeOK
<1>6. ASSUME NEW r \in Rpcs, NotReplied(o, r) PROVE TypeOK'
  <2>1. Panic
    BY <1>6 DEF NotReplied
  <2>2. faults' \in 0 .. MaxFaults
    BY <1>6, ServerType DEF NotReplied, ServerTypeOK, AllFaultKinds
  <2>3. lockOwner' \in [MountPoints -> [Stores -> SessionIds \cup {Nil}]]
    BY <1>1, <1>6, ServerType DEF NotReplied, ServerTypeOK, Usable
  <2> QED BY <1>6, <2>1, <2>2, <2>3, PanicType DEF NotReplied, ServerTypeOK
<1>7. CASE Report(o)
  BY <1>1, <1>7, WriteStatusType DEF Report, ServerTypeOK
<1> QED
  BY <1>2, <1>3, <1>4, <1>5, <1>6, <1>7 DEF OperationAction

-----------------------------------------------------------------------------
(* Workers and their copies *)

\* The fields of a worker that rests or starts.
LEMMA TaskFacts ==
    /\ Idle.pc = "idle" /\ Idle.obj = Nil /\ ~Idle.fresh /\ Idle.ok /\ Idle.session = Nil
    /\ \A o \in Objects, pc \in PCs : LET u == Reconciling(o, pc) IN
         /\ u.pc = pc /\ u.obj = o /\ u.instance = cache[o]
         /\ u.fresh <=> watch[o] = "synced"
         /\ ~u.err /\ u.ok /\ u.session = Nil /\ u.todo = {}
    /\ \A o \in Objects : LET u == Failing(o) IN
         /\ u.pc = "write" /\ u.obj = o /\ u.instance = cache[o]
         /\ u.fresh <=> watch[o] = "synced"
         /\ u.err /\ u.ok /\ u.session = Nil
<1>1. Idle.pc = "idle" /\ Idle.obj = Nil /\ ~Idle.fresh /\ Idle.ok /\ Idle.session = Nil
  BY DEF Idle
<1>2. ASSUME NEW o \in Objects, NEW pc \in PCs
      PROVE LET u == Reconciling(o, pc) IN
         /\ u.pc = pc /\ u.obj = o /\ u.instance = cache[o]
         /\ u.fresh <=> watch[o] = "synced"
         /\ ~u.err /\ u.ok /\ u.session = Nil /\ u.todo = {}
  BY DEF Reconciling, Idle
<1>3. ASSUME NEW o \in Objects
      PROVE LET u == Failing(o) IN
         /\ u.pc = "write" /\ u.obj = o /\ u.instance = cache[o]
         /\ u.fresh <=> watch[o] = "synced"
         /\ u.err /\ u.ok /\ u.session = Nil
  BY DEF Failing, Reconciling, Idle
<1> QED BY <1>1, <1>2, <1>3

\* A write by somebody else only costs a worker its freshness.
LEMMA OutdatedFacts ==
    ASSUME TypeOK, TaskShape, NEW o \in Objects, task' = Outdated(o)
    PROVE  \A k \in Kinds :
             /\ task'[k].pc = task[k].pc /\ task'[k].obj = task[k].obj
             /\ task'[k].instance = task[k].instance
             /\ task'[k].session = task[k].session /\ task'[k].todo = task[k].todo
             /\ task'[k].err = task[k].err /\ task'[k].ok = task[k].ok
             /\ task'[k].fresh => task[k].fresh /\ task[k].obj # o
<1> DEFINE j == Kind[o]
           u == [task[j] EXCEPT !.fresh = IF task[j].obj = o THEN FALSE ELSE @]
<1>1. j \in Kinds /\ task \in [Kinds -> Task] /\ Nil # o
  BY ControlPlaneAssumption, ServerAssumption DEF TypeOK, ControlPlaneTypeOK, Objects
<1>2. /\ u.pc = task[j].pc /\ u.obj = task[j].obj /\ u.instance = task[j].instance
      /\ u.session = task[j].session /\ u.todo = task[j].todo
      /\ u.err = task[j].err /\ u.ok = task[j].ok
      /\ u.fresh => task[j].fresh /\ task[j].obj # o
  BY <1>1 DEF Task
<1>3. task' = [task EXCEPT ![j] = u]
  BY DEF Outdated
<1> HIDE DEF u
<1>4. \A k \in Kinds : k # j => task[k].obj # o
  BY <1>1 DEF TaskShape
<1> QED BY <1>1, <1>2, <1>3, <1>4

\* What the workers know, without the types.
Shape == TaskShape /\ StatusShape /\ CacheCurrent

\* The steps at which a worker of kind k can be.
PCsOf(k) == IF k = "MountPoint" THEN MountPointPCs ELSE OperationPCs

\* A worker goes on with its reconcile.
LEMMA ShapeAdvance ==
    ASSUME Inv1, NEW k \in Kinds, NEW u,
           task' = [task EXCEPT ![k] = u], UNCHANGED apiVars,
           task[k].pc # "idle", u.pc \in PCsOf(k),
           u.obj = task[k].obj, u.fresh = task[k].fresh,
           u.instance.phase = task[k].instance.phase,
           u.instance.status \in StatusOf(u.obj)
    PROVE  Shape'
<1>1. task \in [Kinds -> Task] /\ u.pc # "idle"
  BY DEF Inv1, TypeOK, ControlPlaneTypeOK, PCsOf, MountPointPCs, OperationPCs
<1>2. TaskShape'
  BY <1>1 DEF Inv1, TaskShape, PCsOf
<1>3. StatusShape'
  BY <1>1 DEF Inv1, StatusShape, StatusOf, apiVars
<1>4. CacheCurrent'
  BY <1>1 DEF Inv1, CacheCurrent, apiVars
<1> QED BY <1>2, <1>3, <1>4 DEF Shape

\* A worker takes a resource from the queue, and may put it aside at once.
LEMMA ShapeBegin ==
    ASSUME Inv1, NEW o \in Objects, NEW u, task' = [task EXCEPT ![Kind[o]] = u],
           UNCHANGED apiVars,
           \/ u = Idle
           \/ cache[o].phase # "absent" /\ u = Failing(o)
           \/ /\ cache[o].phase # "absent"
              /\ \E pc \in PCsOf(Kind[o]) : u = Reconciling(o, pc)
    PROVE  Shape'
<1>1. task \in [Kinds -> Task] /\ Kind[o] \in Kinds /\ o # Nil
  BY ControlPlaneAssumption, ServerAssumption DEF Inv1, TypeOK, ControlPlaneTypeOK, Objects
<1>2. PCsOf(Kind[o]) \subseteq PCs /\ "write" \in PCsOf(Kind[o]) /\ "idle" \notin PCsOf(Kind[o])
  BY DEF PCsOf, MountPointPCs, OperationPCs, PCs
<1>3. \/ u.pc = "idle" /\ u.obj = Nil /\ ~u.fresh
      \/ /\ u.pc \in PCsOf(Kind[o]) /\ u.obj = o /\ u.instance = cache[o]
         /\ cache[o].phase # "absent"
         /\ u.fresh <=> watch[o] = "synced"
  BY <1>2, TaskFacts
<1>4. TaskShape'
  BY <1>1, <1>2, <1>3 DEF Inv1, TaskShape, PCsOf
<1>5. StatusShape'
  BY <1>1, <1>3 DEF Inv1, StatusShape, StatusOf, apiVars
<1>6. CacheCurrent'
  BY <1>1, <1>3 DEF Inv1, CacheCurrent, apiVars
<1> QED BY <1>4, <1>5, <1>6 DEF Shape

\* A new process starts in shape.
LEMMA ShapePanic ==
    ASSUME Inv1, Panic
    PROVE  Shape'
<1>1. /\ \A k \in Kinds : task'[k] = Idle
      /\ cache' = obj /\ obj' = obj
      /\ \A o \in Objects : watch'[o] = "synced"
  BY DEF Panic, RestartControlPlane
<1> QED
  BY <1>1, TaskFacts DEF Shape, TaskShape, StatusShape, CacheCurrent, Inv1, TypeOK,
     ControlPlaneTypeOK, StatusOf

\* A worker ends its reconcile of o, with a write of o or without.
LEMMA ShapeEnd ==
    ASSUME Inv1, NEW o \in Objects, EndTask(o), task[Kind[o]].obj = o, cache' = cache,
           \/ UNCHANGED <<obj, watch>>
           \/ /\ \E r : obj' = [obj EXCEPT ![o] = r]
              /\ watch' = Fired(o)
           \/ /\ \E st : obj' = [obj EXCEPT ![o].status = st]
              /\ watch' = Silent(o)
    PROVE  Shape'
<1>1. /\ task \in [Kinds -> Task] /\ Kind[o] \in Kinds
      /\ obj \in [Objects -> Resource] /\ watch \in [Objects -> {"synced", "status", "event"}]
  BY ControlPlaneAssumption DEF Inv1, TypeOK, ControlPlaneTypeOK
<1>2. /\ task'[Kind[o]] = Idle
      /\ \A k \in Kinds : k # Kind[o] => task'[k] = task[k] /\ (task[k].pc # "idle" => task[k].obj # o)
  BY <1>1 DEF EndTask, Inv1, TaskShape
<1>3. TaskShape'
  BY <1>2, TaskFacts DEF Inv1, TaskShape
<1>4. StatusShape'
  BY <1>2, TaskFacts DEF Inv1, StatusShape, StatusOf
<1>5. /\ \A p \in Objects : p # o => watch'[p] = watch[p] /\ obj'[p] = obj[p]
      /\ watch'[o] = "synced" => watch[o] = "synced" /\ obj'[o] = obj[o]
      /\ watch'[o] # "event" =>
           /\ watch[o] # "event"
           /\ obj'[o].phase = obj[o].phase /\ obj'[o].finalizer = obj[o].finalizer
  BY <1>1 DEF Fired, Silent, Resource
<1>6. CacheCurrent'
  <2>1. \A p \in Objects :
         /\ watch'[p] = "synced" => cache'[p] = obj'[p]
         /\ watch'[p] # "event" =>
              cache'[p].phase = obj'[p].phase /\ cache'[p].finalizer = obj'[p].finalizer
    BY <1>5 DEF Inv1, CacheCurrent
  <2>2. ASSUME NEW k \in Kinds, task'[k].fresh
        PROVE  /\ watch'[task'[k].obj] = "synced"
               /\ task'[k].instance.phase = obj'[task'[k].obj].phase
    <3>1. k # Kind[o] /\ task'[k] = task[k]
      BY <1>2, <2>2, TaskFacts
    <3>2. task[k].obj # o /\ task[k].obj \in Objects
      BY <1>1, <1>2, <2>2, <3>1 DEF Inv1, TaskShape, Task
    <3> QED BY <1>5, <2>2, <3>1, <3>2 DEF Inv1, CacheCurrent
  <2> QED BY <2>1, <2>2 DEF CacheCurrent
<1> QED BY <1>3, <1>4, <1>6 DEF Shape

\* Users outdate copies and the informer renews the cache.
LEMMA ShapeControlPlane ==
    ASSUME Inv1, NEW o \in Objects, User(o) \/ Informer(o)
    PROVE  Shape'
<1>1. /\ task \in [Kinds -> Task] /\ o # Nil
      /\ obj \in [Objects -> Resource] /\ watch \in [Objects -> {"synced", "status", "event"}]
      /\ cache \in [Objects -> Resource]
  BY ControlPlaneAssumption, ServerAssumption DEF Inv1, TypeOK, ControlPlaneTypeOK, Objects
<1>2. CASE Informer(o)
  <2>1. /\ task' = task /\ obj' = obj
        /\ cache' = [cache EXCEPT ![o] = obj[o]]
        /\ watch' = [watch EXCEPT ![o] = "synced"]
    BY <1>2 DEF Informer, CacheSync
  <2>2. TaskShape'
    BY <2>1 DEF Inv1, TaskShape
  <2>3. StatusShape'
    BY <1>1, <2>1 DEF Inv1, StatusShape, TypeOK, ControlPlaneTypeOK, StatusOf
  <2>4. CacheCurrent'
    <3>1. \A p \in Objects :
            /\ watch'[p] = "synced" => cache'[p] = obj'[p]
            /\ watch'[p] # "event" =>
                 cache'[p].phase = obj'[p].phase /\ cache'[p].finalizer = obj'[p].finalizer
      BY <1>1, <2>1 DEF Inv1, CacheCurrent
    <3>2. ASSUME NEW k \in Kinds, task[k].fresh
          PROVE  watch'[task[k].obj] = "synced"
      <4>1. task[k].obj \in Objects
        BY <1>1, <3>2 DEF Inv1, TaskShape, Task
      <4> QED BY <1>1, <2>1, <3>2, <4>1 DEF Inv1, CacheCurrent
    <3> QED BY <2>1, <3>1, <3>2 DEF Inv1, CacheCurrent
  <2> QED BY <2>2, <2>3, <2>4 DEF Shape
<1>3. CASE User(o)
  <2>1. /\ \A k \in Kinds :
             /\ task'[k].pc = task[k].pc /\ task'[k].obj = task[k].obj
             /\ task'[k].instance = task[k].instance
             /\ task'[k].fresh => task[k].fresh
             /\ task'[k].fresh => task[k].obj # o
    <3>1. CASE task' = Outdated(o)
      BY <3>1, OutdatedFacts DEF Inv1
    <3>2. CASE Create(o)
      BY <3>2 DEF Create, Inv1, TaskShape, CacheCurrent
    <3> QED BY <1>3, <3>1, <3>2 DEF User, Delete, Edit, Collect
  <2>2. cache' = cache
    BY <1>3 DEF User, Create, Delete, Edit, Collect
  <2>3. /\ \A p \in Objects : p # o => watch'[p] = watch[p] /\ obj'[p] = obj[p]
        /\ watch'[o] # "synced"
        /\ watch'[o] # "event" => watch[o] # "event" /\ obj'[o] = obj[o]
    BY <1>1, <1>3 DEF User, Create, Delete, Edit, Collect, Fired, Silent
  <2>4. TaskShape'
    BY <2>1 DEF Inv1, TaskShape
  <2>5. StatusShape'
    BY <2>1, <2>2 DEF Inv1, StatusShape, StatusOf
  <2>6. CacheCurrent'
    <3>1. \A p \in Objects :
            /\ watch'[p] = "synced" => cache'[p] = obj'[p]
            /\ watch'[p] # "event" =>
                 cache'[p].phase = obj'[p].phase /\ cache'[p].finalizer = obj'[p].finalizer
      BY <2>2, <2>3 DEF Inv1, CacheCurrent
    <3>2. ASSUME NEW k \in Kinds, task'[k].fresh
          PROVE  /\ watch'[task'[k].obj] = "synced"
                 /\ task'[k].instance.phase = obj'[task'[k].obj].phase
      <4>1. task[k].obj \in Objects /\ task[k].obj # o
        BY <1>1, <2>1, <3>2 DEF Inv1, TaskShape, Task
      <4> QED BY <2>1, <2>3, <3>2, <4>1 DEF Inv1, CacheCurrent
    <3> QED BY <3>1, <3>2 DEF CacheCurrent
  <2> QED BY <2>4, <2>5, <2>6 DEF Shape
<1> QED BY <1>2, <1>3

\* The MountPoint controller.
LEMMA ShapeMountPoint ==
    ASSUME Inv1, NEW m \in MountPoints, MountPointReconcile(m) \/ MountPointStep(m)
    PROVE  Shape'
<1> DEFINE t == task["MountPoint"]
<1>1. /\ m \in Objects /\ Kind[m] = "MountPoint" /\ "MountPoint" \in Kinds
      /\ t \in Task /\ PCsOf("MountPoint") = MountPointPCs
  BY ControlPlaneAssumption DEF Objects, Kinds, Inv1, TypeOK, ControlPlaneTypeOK, PCsOf
<1>2. CASE MountPointReconcile(m)
  <2> DEFINE u == IF cache[m].phase = "absent" THEN Idle
                  ELSE IF ~cache[m].finalizer THEN Reconciling(m, "init")
                  ELSE IF cache[m].phase = "deleting" THEN Reconciling(m, "closing")
                  ELSE Reconciling(m, "dial")
  <2>1. task' = [task EXCEPT !["MountPoint"] = u] /\ UNCHANGED apiVars
    BY <1>2 DEF MountPointReconcile
  <2>2. \/ u = Idle
        \/ /\ cache[m].phase # "absent"
           /\ \E pc \in MountPointPCs : u = Reconciling(m, pc)
    BY DEF MountPointPCs
  <2> HIDE DEF u
  <2> QED BY <1>1, <2>1, <2>2, ShapeBegin
<1>3. CASE MountPointInitialize(m)
  <2>1. obj' = obj \/ \E r : obj' = [obj EXCEPT ![m] = r]
    BY <1>3 DEF MountPointInitialize
  <2> QED BY <1>1, <1>3, <2>1, ShapeEnd DEF MountPointInitialize, At
<1>4. CASE MountPointDial(m)
  <2>1. CASE Panic
    BY <2>1, ShapePanic
  <2>2. ASSUME NEW st \in {"failed", "connected"}, NEW e \in BOOLEAN, UNCHANGED apiVars,
               task' = [task EXCEPT !["MountPoint"] = Dialled(@, st, e)]
        PROVE  Shape'
    <3> DEFINE u == Dialled(t, st, e)
    <3>1. /\ u.pc = "write" /\ u.obj = t.obj /\ u.fresh = t.fresh
          /\ u.instance.phase = t.instance.phase /\ u.instance.status = st
      <4>1. st \in Statuses
        BY DEF Statuses
      <4> QED BY <1>1, <4>1, DialledFacts
    <3>2. t.pc # "idle" /\ t.obj = m /\ st \in StatusOf(m)
      BY <1>1, <1>4 DEF MountPointDial, At, StatusOf
    <3>3. task' = [task EXCEPT !["MountPoint"] = u]
      BY <2>2
    <3> HIDE DEF u
    <3> QED BY <1>1, <2>2, <3>1, <3>2, <3>3, ShapeAdvance DEF MountPointPCs
  <2> QED BY <1>4, <2>1, <2>2 DEF MountPointDial
<1>5. CASE MountPointCloseSession(m)
  <2>1. PICK u : /\ task' = [task EXCEPT !["MountPoint"] = u]
                 /\ \/ u = [t EXCEPT !.pc = "finalize"]
                    \/ u = [t EXCEPT !.pc = "cleanup", !.session = sessions[m]]
    BY <1>5 DEF MountPointCloseSession
  <2>2. /\ u.pc \in {"finalize", "cleanup"} /\ u.obj = t.obj /\ u.fresh = t.fresh
        /\ u.instance = t.instance
    BY <1>1, <2>1 DEF Task
  <2>3. t.pc # "idle" /\ t.instance.status \in StatusOf(t.obj)
    BY <1>1, <1>5 DEF MountPointCloseSession, At, Inv1, StatusShape
  <2> QED BY <1>1, <1>5, <2>1, <2>2, <2>3, ShapeAdvance DEF MountPointPCs, MountPointCloseSession
<1>6. CASE MountPointCleanUp(m)
  <2>1. PICK e \in BOOLEAN :
          task' = [task EXCEPT !["MountPoint"] =
                     [@ EXCEPT !.pc = IF e THEN "write" ELSE "finalize",
                               !.session = Nil, !.err = e]]
    BY <1>6 DEF MountPointCleanUp
  <2> DEFINE u == [t EXCEPT !.pc = IF e THEN "write" ELSE "finalize",
                            !.session = Nil, !.err = e]
  <2>2. /\ u.pc \in {"finalize", "write"} /\ u.obj = t.obj /\ u.fresh = t.fresh
        /\ u.instance = t.instance
    BY <1>1 DEF Task
  <2>3. t.pc # "idle" /\ t.instance.status \in StatusOf(t.obj)
    BY <1>1, <1>6 DEF MountPointCleanUp, At, Inv1, StatusShape
  <2>4. task' = [task EXCEPT !["MountPoint"] = u]
    BY <2>1
  <2> HIDE DEF u
  <2> QED BY <1>1, <1>6, <2>2, <2>3, <2>4, ShapeAdvance DEF MountPointPCs, MountPointCleanUp
<1>7. CASE MountPointFinalize(m)
  BY <1>1, <1>7, ShapeEnd DEF MountPointFinalize, At
<1>8. CASE MountPointReport(m)
  BY <1>1, <1>8, ShapeEnd DEF MountPointReport, WriteStatus, At
<1> QED
  BY <1>2, <1>3, <1>4, <1>5, <1>6, <1>7, <1>8 DEF MountPointStep

\* The controllers of the operations.
LEMMA ShapeOperation ==
    ASSUME Inv1, NEW o \in Ops, OperationAction(o)
    PROVE  Shape'
<1> DEFINE k == Kind[o]
           t == task[Kind[o]]
<1>1. /\ o \in Objects /\ k \in Kinds /\ t \in Task /\ PCsOf(k) = OperationPCs
  BY ControlPlaneAssumption DEF Objects, Inv1, TypeOK, ControlPlaneTypeOK, PCsOf
<1>2. ASSUME NEW valid \in BOOLEAN, NEW pc \in {"depend", "lookup"}, Reconcile(o, valid, pc)
      PROVE  Shape'
  <2> DEFINE u == IF cache[o].phase = "absent" THEN Idle
                  ELSE IF ~valid THEN Failing(o)
                  ELSE IF cache[o].phase = "deleting" THEN Idle
                  ELSE Reconciling(o, pc)
  <2>1. task' = [task EXCEPT ![k] = u] /\ UNCHANGED apiVars
    BY <1>2 DEF Reconcile
  <2>2. \/ u = Idle
        \/ cache[o].phase # "absent" /\ u = Failing(o)
        \/ /\ cache[o].phase # "absent"
           /\ \E p \in OperationPCs : u = Reconciling(o, p)
    BY DEF OperationPCs
  <2> HIDE DEF u
  <2> QED BY <1>1, <2>1, <2>2, ShapeBegin
<1>3. t.pc # "idle" => t.instance.status \in StatusOf(t.obj)
  BY <1>1 DEF Inv1, StatusShape
<1>4. CASE CheckDependency(o)
  <2>1. PICK u : /\ task' = [task EXCEPT ![k] = u]
                 /\ \/ u = [t EXCEPT !.pc = "lookup"]
                    \/ u = [t EXCEPT !.pc = "write", !.err = TRUE]
    BY <1>4 DEF CheckDependency
  <2>2. /\ u.pc \in {"lookup", "write"} /\ u.obj = t.obj /\ u.fresh = t.fresh
        /\ u.instance = t.instance
    BY <1>1, <2>1 DEF Task
  <2> QED BY <1>1, <1>3, <1>4, <2>1, <2>2, ShapeAdvance DEF CheckDependency, At, OperationPCs
<1>5. ASSUME NEW rpcs \in SUBSET Rpcs, LookupSession(o, rpcs) PROVE Shape'
  <2>1. CASE Panic
    BY <2>1, ShapePanic
  <2>2. CASE ~Panic
    <3> DEFINE u == [t EXCEPT !.pc = "rpc", !.session = sessions[MountOf[o]], !.todo = rpcs]
    <3>1. task' = [task EXCEPT ![k] = u] /\ UNCHANGED apiVars
      BY <1>5, <2>2 DEF LookupSession
    <3>2. /\ u.pc = "rpc" /\ u.obj = t.obj /\ u.fresh = t.fresh
          /\ u.instance = t.instance
      BY <1>1 DEF Task
    <3> HIDE DEF u
    <3> QED BY <1>1, <1>3, <1>5, <3>1, <3>2, ShapeAdvance DEF LookupSession, At, OperationPCs
  <2> QED BY <2>1, <2>2
<1>6. ASSUME NEW r \in Rpcs, NEW ok \in BOOLEAN, NEW st \in {"success", "failed"},
             Replied(o, r, ok, st)
      PROVE  Shape'
  <2> DEFINE u == AfterReply(t, r, ok, st)
  <2>1. /\ u.pc \in {"rpc", "write"} /\ u.obj = t.obj /\ u.fresh = t.fresh
        /\ u.instance.phase = t.instance.phase
        /\ u.instance.status \in {st, t.instance.status}
    BY <1>1, <1>6, AfterReplyFacts DEF Statuses, Replied, Asking, At
  <2>2. t.obj = o /\ t.pc = "rpc" /\ st \in StatusOf(o)
    BY <1>6, ControlPlaneAssumption DEF Replied, Asking, At, StatusOf
  <2>3. task' = [task EXCEPT ![k] = u] /\ UNCHANGED apiVars
    BY <1>6 DEF Replied
  <2> HIDE DEF u
  <2>4. u.instance.status \in StatusOf(u.obj) /\ u.pc \in OperationPCs
    BY <1>3, <2>1, <2>2 DEF OperationPCs
  <2> QED BY <1>1, <2>1, <2>2, <2>3, <2>4, ShapeAdvance
<1>7. ASSUME NEW r \in Rpcs, NotReplied(o, r) PROVE Shape'
  BY <1>7, ShapePanic DEF NotReplied
<1>8. CASE Report(o)
  BY <1>1, <1>8, ShapeEnd DEF Report, WriteStatus, At
<1> QED
  BY <1>2, <1>4, <1>5, <1>6, <1>7, <1>8 DEF OperationAction

\* The first part of the invariant holds at the start.
LEMMA Inv1Init == Init => Inv1
<1> SUFFICES ASSUME Init PROVE Inv1
  OBVIOUS
<1> USE DEF Init, ServerInit, ControlPlaneInit, CommonInit
<1>1. Absent \in Resource /\ Absent.status = "none" /\ Idle \in Task
  BY DEF Idle, Task, Absent, Resource, PCs, Statuses
<1>2. TypeOK
  BY <1>1, ServerAssumption, ControlPlaneAssumption
     DEF TypeOK, ServerTypeOK, ControlPlaneTypeOK, CommonTypeOK, StatusOf
<1>3. TaskShape /\ StatusShape /\ CacheCurrent
  BY <1>1, TaskFacts DEF TaskShape, StatusShape, CacheCurrent, StatusOf
<1> QED BY <1>2, <1>3 DEF Inv1

\* The first part of the invariant is inductive by itself.
LEMMA Inv1Step == Inv1 /\ [Next]_vars => Inv1'
<1> SUFFICES ASSUME Inv1, [Next]_vars PROVE Inv1'
  OBVIOUS
<1> USE DEF Inv1, Shape
<1>1. ASSUME NEW o \in Objects, User(o) \/ Informer(o) PROVE Inv1'
  BY <1>1, ControlPlaneTypeStep, ShapeControlPlane
<1>2. ASSUME NEW m \in MountPoints, MountPointReconcile(m) \/ MountPointStep(m) PROVE Inv1'
  BY <1>2, MountPointTypeStep, ShapeMountPoint
<1>3. ASSUME NEW o \in Ops, OperationReconcile(o) \/ OperationStep(o) PROVE Inv1'
  BY <1>3, OperationSteps, OperationTypeStep, ShapeOperation
<1>4. ASSUME NEW s \in SessionIds, Server(s) PROVE Inv1'
  <2>1. ServerTypeOK'
    BY <1>4, ServerType DEF Server, DropOrphan, LoseSession, TypeOK, AllFaultKinds, ServerTypeOK
  <2>2. UNCHANGED <<controlVars, sessions, history>>
    BY <1>4 DEF Server
  <2> QED BY <2>1, <2>2 DEF controlVars, history, TypeOK, ControlPlaneTypeOK, CommonTypeOK,
            TaskShape, StatusShape, CacheCurrent, StatusOf
<1>5. CASE Crash
  <2>1. ServerTypeOK'
    BY <1>5, PanicType, ServerType DEF Crash, TypeOK, ServerTypeOK, AllFaultKinds
  <2> QED BY <1>5, <2>1, PanicType, ShapePanic DEF Crash, TypeOK, CommonTypeOK, history
<1>6. CASE UNCHANGED vars
  BY <1>6 DEF vars, TypeOK, ServerTypeOK, ControlPlaneTypeOK, CommonTypeOK,
            TaskShape, StatusShape, CacheCurrent, StatusOf
<1> QED BY <1>1, <1>2, <1>3, <1>4, <1>5, <1>6 DEF Next

\* Every variable keeps its type, and a resource only ever shows a status of
\* its own kind, in every interleaving of users, informers, workers and faults.
THEOREM TypeCorrect == Spec => []TypeOK
<1>1. Init => Inv1
  BY Inv1Init
<1>2. Inv1 /\ [Next]_vars => Inv1'
  BY Inv1Step
<1>3. Inv1 => TypeOK
  BY DEF Inv1
<1> QED BY <1>1, <1>2, <1>3, PTL DEF Spec

-----------------------------------------------------------------------------
(* The finalizer *)

\* Nothing but the steps of the MountPoint controller touches the finalizer of
\* a stored MountPoint.
FinalizerFrame ==
    /\ UNCHANGED sessions
    /\ \A m \in MountPoints :
         /\ obj'[m].phase = "absent" => obj[m].phase = "absent" \/ ~obj[m].finalizer
         /\ obj[m].phase # "absent" => obj'[m].finalizer = obj[m].finalizer \/ obj'[m].phase = "absent"
         /\ obj'[m].phase = "deleting" => obj'[m].finalizer
         /\ cache'[m] = cache[m] \/ cache'[m] = obj'[m]
    /\ LET t == task["MountPoint"]
           u == task'["MountPoint"] IN
       u.pc = t.pc /\ u.obj = t.obj /\ u.instance = t.instance /\ u.err = t.err

\* Such a step keeps the second part of the invariant.
LEMMA Inv2Frame ==
    ASSUME Inv1, Inv2, FinalizerFrame
    PROVE  Inv2'
<1> USE DEF Inv1, Inv2, FinalizerFrame
<1>1. \A m \in MountPoints : obj[m].phase # "absent" /\ obj[m].finalizer =>
         obj'[m].phase # "absent" /\ obj'[m].finalizer
  OBVIOUS
<1>2. SessionHasFinalizer'
  BY <1>1 DEF SessionHasFinalizer
<1>3. task["MountPoint"].pc # "idle" => task["MountPoint"].obj \in MountPoints
  BY ControlPlaneAssumption DEF TaskShape, TypeOK, ControlPlaneTypeOK, Task, Kinds
<1>4. FinalizerKept'
  BY <1>1, <1>3 DEF FinalizerKept
<1> QED BY <1>2, <1>4

\* Users and informers are such steps.
LEMMA FrameControlPlane ==
    ASSUME Inv1, Inv2, NEW o \in Objects, User(o) \/ Informer(o)
    PROVE  FinalizerFrame
<1> USE DEF Inv1, Inv2
<1>1. /\ obj \in [Objects -> Resource] /\ cache \in [Objects -> Resource]
      /\ MountPoints \subseteq Objects /\ "MountPoint" \in Kinds
  BY DEF TypeOK, ControlPlaneTypeOK, Objects, Kinds
<1>2. \A m \in MountPoints : obj[m].phase = "deleting" => obj[m].finalizer
  BY DEF FinalizerKept
<1>3. CASE Informer(o)
  BY <1>1, <1>2, <1>3 DEF Informer, CacheSync, FinalizerFrame
<1>4. CASE User(o)
  <2>1. LET t == task["MountPoint"]
            u == task'["MountPoint"] IN
        u.pc = t.pc /\ u.obj = t.obj /\ u.instance = t.instance /\ u.err = t.err
    BY <1>1, <1>4, OutdatedFacts DEF User, Create, Delete, Edit, Collect
  <2>2. sessions' = sessions /\ cache' = cache
    BY <1>4 DEF User, Create, Delete, Edit, Collect
  <2>3. ASSUME NEW m \in MountPoints
        PROVE /\ obj'[m].phase = "absent" => obj[m].phase = "absent" \/ ~obj[m].finalizer
              /\ obj[m].phase # "absent" =>
                   obj'[m].finalizer = obj[m].finalizer \/ obj'[m].phase = "absent"
              /\ obj'[m].phase = "deleting" => obj'[m].finalizer
    <3>1. m \notin Ops
      BY ControlPlaneAssumption
    <3>2. CASE Create(o)
      BY <1>1, <1>2, <3>2 DEF Create, New
    <3>3. CASE Delete(o)
      BY <1>1, <1>2, <3>1, <3>3 DEF Delete, Absent, Resource
    <3>4. CASE Edit(o)
      BY <1>2, <3>4 DEF Edit
    <3>5. CASE Collect(o)
      BY <1>1, <1>2, <3>1, <3>5 DEF Collect
    <3> QED BY <1>4, <3>2, <3>3, <3>4, <3>5 DEF User
  <2> QED BY <2>1, <2>2, <2>3 DEF FinalizerFrame
<1> QED BY <1>3, <1>4

\* A new process holds no session and its cache is right.
LEMMA Inv2Panic ==
    ASSUME Inv1, Inv2, Panic
    PROVE  Inv2'
<1>1. /\ \A m \in MountPoints : sessions'[m] = Nil
      /\ cache' = obj /\ obj' = obj
      /\ task'["MountPoint"] = Idle
  BY DEF Panic, RestartControlPlane, Kinds
<1> QED BY <1>1, TaskFacts DEF Inv2, FinalizerKept, SessionHasFinalizer

\* The controllers of the operations leave MountPoints alone.
LEMMA Inv2Operation ==
    ASSUME Inv1, Inv2, NEW o \in Ops, OperationAction(o)
    PROVE  Inv2'
<1>1. CASE Panic
  BY <1>1, Inv2Panic
<1>2. CASE ~Panic
  <2> USE DEF Inv1, Inv2
  <2>1. /\ Kind[o] # "MountPoint" /\ o \notin MountPoints /\ o \in Objects
        /\ task \in [Kinds -> Task] /\ "MountPoint" \in Kinds
        /\ obj \in [Objects -> Resource] /\ MountPoints \subseteq Objects
    BY ControlPlaneAssumption DEF TypeOK, ControlPlaneTypeOK, Objects, Kinds
  <2>2. task'["MountPoint"] = task["MountPoint"]
    BY <1>2, <2>1 DEF OperationAction, Reconcile, CheckDependency, LookupSession, Replied,
         NotReplied, Report, WriteStatus, EndTask
  <2>3. cache' = cache /\ sessions' = sessions
    BY <1>2 DEF OperationAction, Reconcile, CheckDependency, LookupSession, Replied,
         NotReplied, Report, WriteStatus, apiVars
  <2>4. \A m \in MountPoints : obj'[m] = obj[m]
    BY <1>2, <2>1 DEF OperationAction, Reconcile, CheckDependency, LookupSession, Replied,
         NotReplied, Report, WriteStatus, apiVars
  <2>5. FinalizerFrame
    BY <2>2, <2>3, <2>4 DEF FinalizerFrame, FinalizerKept
  <2> QED BY <2>5, Inv2Frame
<1> QED BY <1>1, <1>2

\* The MountPoint controller stores the finalizer before it dials, and takes
\* the session out of Sessions before it removes the finalizer.
LEMMA Inv2MountPoint ==
    ASSUME Inv1, Inv2, NEW m \in MountPoints, MountPointReconcile(m) \/ MountPointStep(m)
    PROVE  Inv2'
<1> DEFINE t == task["MountPoint"]
           u == task'["MountPoint"]
<1> USE DEF Inv1, Inv2
<1>1. /\ m \in Objects /\ Kind[m] = "MountPoint" /\ "MountPoint" \in Kinds
      /\ t \in Task /\ task \in [Kinds -> Task] /\ MountPoints \subseteq Objects
      /\ obj \in [Objects -> Resource] /\ cache \in [Objects -> Resource]
      /\ sessions \in [MountPoints -> SessionIds \cup {Nil}] /\ Nil \notin SessionIds
  BY ControlPlaneAssumption, ServerAssumption
     DEF Objects, Kinds, TypeOK, ControlPlaneTypeOK, CommonTypeOK
<1>2. CASE MountPointReconcile(m)
  <2>1. UNCHANGED <<obj, cache, sessions>>
    BY <1>2 DEF MountPointReconcile, apiVars
  <2>2. \/ u = Idle
        \/ u = Reconciling(m, "init") /\ ~cache[m].finalizer
        \/ u = Reconciling(m, "closing") /\ cache[m].phase = "deleting"
        \/ /\ u = Reconciling(m, "dial")
           /\ cache[m].phase = "live" /\ cache[m].finalizer
    BY <1>1, <1>2 DEF MountPointReconcile, Resource
  <2>3. FinalizerKept'
    BY <2>1, <2>2, TaskFacts, <1>1 DEF FinalizerKept, PCs
  <2> QED BY <2>1, <2>3 DEF SessionHasFinalizer
<1>3. CASE MountPointInitialize(m)
  <2>1. u = Idle /\ UNCHANGED <<cache, sessions>>
    BY <1>1, <1>3 DEF MountPointInitialize, EndTask
  <2>2. /\ \A p \in MountPoints : p # m => obj'[p] = obj[p]
        /\ obj'[m].phase = obj[m].phase
        /\ obj[m].finalizer => obj'[m].finalizer
    BY <1>1, <1>3 DEF MountPointInitialize, Resource
  <2>3. FinalizerKept'
    BY <2>1, <2>2, TaskFacts DEF FinalizerKept
  <2> QED BY <2>1, <2>2, <2>3 DEF SessionHasFinalizer
<1>4. CASE MountPointDial(m)
  <2>1. CASE Panic
    BY <2>1, Inv2Panic
  <2>2. ASSUME UNCHANGED apiVars, NEW st \in {"failed", "connected"}, NEW e \in BOOLEAN,
               task' = [task EXCEPT !["MountPoint"] = Dialled(@, st, e)],
               \/ e /\ sessions' = sessions
               \/ \E s \in SessionIds : sessions' = [sessions EXCEPT ![m] = s]
        PROVE  Inv2'
    <3>1. /\ t.obj = m /\ t.pc = "dial"
          /\ u.obj = t.obj /\ u.pc = "write" /\ u.err = e
          /\ u.instance.phase = t.instance.phase
      <4>1. st \in Statuses
        BY DEF Statuses
      <4>2. u = Dialled(t, st, e)
        BY <1>1, <2>2
      <4> QED BY <1>1, <1>4, <4>1, <4>2, DialledFacts DEF MountPointDial, At
    <3>2. /\ obj' = obj /\ cache' = cache
          /\ \A p \in MountPoints : p # m => sessions'[p] = sessions[p]
          /\ ~e => sessions'[m] # Nil
      BY <1>1, <2>2 DEF apiVars
    <3>3. obj[m].phase # "absent" /\ obj[m].finalizer /\ t.instance.phase = "live"
      BY <3>1 DEF FinalizerKept
    <3>4. FinalizerKept'
      BY <3>1, <3>2, <3>3 DEF FinalizerKept
    <3>5. SessionHasFinalizer'
      BY <3>2, <3>3 DEF SessionHasFinalizer
    <3> QED BY <3>4, <3>5
  <2> QED BY <1>4, <2>1, <2>2 DEF MountPointDial
<1>5. CASE MountPointCloseSession(m)
  <2>1. /\ UNCHANGED <<obj, cache, sessions>>
        /\ t.obj = m /\ t.pc = "closing"
    BY <1>1, <1>5 DEF MountPointCloseSession, At, apiVars
  <2>2. \/ u = [t EXCEPT !.pc = "finalize"] /\ sessions[m] = Nil
        \/ u = [t EXCEPT !.pc = "cleanup", !.session = sessions[m]]
    BY <1>1, <1>5 DEF MountPointCloseSession
  <2>3. /\ u.obj = t.obj /\ u.instance = t.instance
        /\ u.pc = "cleanup" \/ (u.pc = "finalize" /\ sessions[m] = Nil)
    BY <1>1, <2>2 DEF Task
  <2>4. FinalizerKept'
    BY <2>1, <2>3 DEF FinalizerKept
  <2> QED BY <2>1, <2>4 DEF SessionHasFinalizer
<1>6. CASE MountPointCleanUp(m)
  <2>1. PICK e \in BOOLEAN :
          task' = [task EXCEPT !["MountPoint"] =
                     [@ EXCEPT !.pc = IF e THEN "write" ELSE "finalize",
                               !.session = Nil, !.err = e]]
    BY <1>6 DEF MountPointCleanUp
  <2> DEFINE v == [t EXCEPT !.pc = IF e THEN "write" ELSE "finalize",
                            !.session = Nil, !.err = e]
  <2>2. v.pc = (IF e THEN "write" ELSE "finalize") /\ v.obj = t.obj /\ v.instance = t.instance
    BY <1>1 DEF Task
  <2>3. v.err = e
    BY <1>1 DEF Task
  <2>4. u = v
    BY <1>1, <2>1
  <2> HIDE DEF v
  <2>5. u.pc \in {"write", "finalize"} /\ (u.pc = "write" => e)
    BY <2>2, <2>4
  <2>6. u.err = e
    BY <2>3, <2>4
  <2>7. u.pc \in {"write", "finalize"} /\ ~(u.pc = "write" /\ ~u.err)
    BY <2>5, <2>6
  <2>8. /\ UNCHANGED <<obj, cache>> /\ sessions' = [sessions EXCEPT ![m] = Nil]
        /\ t.obj = m /\ t.pc = "cleanup"
        /\ u.obj = m /\ u.instance = t.instance
    BY <1>1, <1>6, <2>2, <2>4 DEF MountPointCleanUp, At, apiVars
  <2>9. FinalizerKept'
    BY <1>1, <2>7, <2>8 DEF FinalizerKept
  <2> QED BY <1>1, <2>8, <2>9 DEF SessionHasFinalizer
<1>7. CASE MountPointFinalize(m)
  <2>1. /\ u = Idle /\ UNCHANGED <<cache, sessions>>
        /\ t.obj = m /\ t.pc = "finalize" /\ sessions[m] = Nil
        /\ obj' = obj \/ (t.fresh /\ obj' = [obj EXCEPT ![m] = Absent])
    BY <1>1, <1>7 DEF MountPointFinalize, EndTask, At, FinalizerKept
  <2>2. t.fresh => cache[m].phase = "deleting"
    BY <1>1, <2>1 DEF CacheCurrent, FinalizerKept
  <2>3. FinalizerKept'
    BY <1>1, <2>1, <2>2, TaskFacts DEF FinalizerKept, Absent
  <2> QED BY <1>1, <2>1, <2>3 DEF SessionHasFinalizer
<1>8. CASE MountPointReport(m)
  <2>1. u = Idle /\ UNCHANGED <<cache, sessions>>
    BY <1>1, <1>8 DEF MountPointReport, WriteStatus, EndTask
  <2>2. \A p \in MountPoints : obj'[p].phase = obj[p].phase /\ obj'[p].finalizer = obj[p].finalizer
    BY <1>1, <1>8 DEF MountPointReport, WriteStatus, Resource
  <2>3. FinalizerKept'
    BY <2>1, <2>2, TaskFacts DEF FinalizerKept
  <2> QED BY <2>1, <2>2, <2>3 DEF SessionHasFinalizer
<1> QED
  BY <1>2, <1>3, <1>4, <1>5, <1>6, <1>7, <1>8 DEF MountPointStep

LEMMA Inv2Step ==
    ASSUME Inv1, Inv2, [Next]_vars
    PROVE  Inv2'
<1>1. ASSUME NEW o \in Objects, User(o) \/ Informer(o)
      PROVE  Inv2'
  BY <1>1, FrameControlPlane, Inv2Frame
<1>2. ASSUME UNCHANGED <<controlVars, sessions>>
      PROVE  Inv2'
  BY <1>2 DEF controlVars, Inv2, FinalizerKept, SessionHasFinalizer
<1>3. CASE \E s \in SessionIds : Server(s)
  BY <1>2, <1>3 DEF Server
<1>4. CASE UNCHANGED vars
  BY <1>2, <1>4 DEF vars, controlVars
<1>5. CASE Crash
  BY <1>5, Inv2Panic DEF Crash
<1>6. ASSUME NEW m \in MountPoints, MountPointReconcile(m) \/ MountPointStep(m)
      PROVE  Inv2'
  BY <1>6, Inv2MountPoint
<1>7. ASSUME NEW o \in Ops, OperationReconcile(o) \/ OperationStep(o)
      PROVE  Inv2'
  BY <1>7, OperationSteps, Inv2Operation
<1> QED
  BY <1>1, <1>3, <1>4, <1>5, <1>6, <1>7 DEF Next

LEMMA Inv2Init == Init => Inv2
  BY TaskFacts DEF Init, ControlPlaneInit, CommonInit, Inv2, FinalizerKept,
       SessionHasFinalizer, Absent, Kinds, Objects

\* Spec => []SessionHasFinalizer: at any time, for any set of MountPoints and
\* operations, an entry of Sessions belongs to a stored MountPoint with the
\* finalizer that manageCleanUpLogic has to remove first.
THEOREM SessionsAreFinalized == Spec => []SessionHasFinalizer
<1>1. Init => Inv1 /\ Inv2
  BY Inv1Init, Inv2Init
<1>2. (Inv1 /\ Inv2) /\ [Next]_vars => (Inv1 /\ Inv2)'
  BY Inv1Step, Inv2Step
<1>3. Inv1 /\ Inv2 => SessionHasFinalizer
  BY DEF Inv2
<1> QED BY <1>1, <1>2, <1>3, PTL DEF Spec
=============================================================================
