-------------------------- MODULE OperationsProofs --------------------------
(***************************************************************************)
(* Proofs about the operations of a user: a stored status is backed by the *)
(* server's answers, an operation waits for the one it depends on,         *)
(* NetconfOperator implements Workflow, no work is forgotten, and a flow   *)
(* of operations that nothing disturbs edits under its lock.               *)
(***************************************************************************)
EXTENDS NetconfOperatorProofs

\* A step that writes no status but "none", sends no RPC and moves no worker
\* of an operation.
HistoryFrame ==
    /\ UNCHANGED history
    /\ \A o \in Ops : /\ obj'[o].status \in {obj[o].status, "none"}
                      /\ cache'[o].status \in {cache[o].status, obj'[o].status}
    /\ \A k \in OpKinds :
         LET t == task[k]
             u == task'[k] IN
         /\ u.pc = t.pc /\ u.obj = t.obj /\ u.instance = t.instance
         /\ u.ok = t.ok /\ u.todo = t.todo /\ u.err = t.err

\* Such a step keeps the third part of the invariant.
LEMMA Inv3Frame ==
    ASSUME Inv1, Inv3, HistoryFrame
    PROVE  Inv3'
<1> USE DEF Inv3, HistoryFrame, history
<1>1. StatusBacked'
  <2>1. \A o \in Ops : /\ BackedBy(o, obj'[o].status, accepted', rejected')
                       /\ BackedBy(o, cache'[o].status, accepted', rejected')
    BY DEF StatusBacked, Backed, BackedBy
  <2>2. \A k \in OpKinds : task'[k].pc # "idle" =>
          BackedBy(task'[k].obj, task'[k].instance.status, accepted', rejected')
    BY DEF StatusBacked, Backed, BackedBy
  <2>3. \A k \in OpKinds \ {"EditConfig"} : task'[k].pc \in {"depend", "lookup", "rpc"} =>
          /\ task'[k].ok
          /\ task'[k].pc = "rpc" => \E r \in Rpcs : task'[k].todo = {r}
    BY DEF StatusBacked
  <2> QED BY <2>1, <2>2, <2>3 DEF StatusBacked, Backed
<1>2. DependencyReported'
  BY DEF DependencyReported, Backed, BackedBy
<1>3. StatusDecided'
  BY DEF StatusDecided
<1> QED BY <1>1, <1>2, <1>3

\* Users and informers are such steps.
LEMMA HistoryControlPlane ==
    ASSUME Inv1, NEW o \in Objects, User(o) \/ Informer(o)
    PROVE  HistoryFrame
<1>1. /\ obj \in [Objects -> Resource] /\ cache \in [Objects -> Resource]
      /\ OpKinds \subseteq Kinds /\ Ops \subseteq Objects
  BY DEF Inv1, TypeOK, ControlPlaneTypeOK, Objects, Kinds
<1>2. UNCHANGED history
  BY DEF User, Informer
<1>3. \A p \in Ops : /\ obj'[p].status \in {obj[p].status, "none"}
                     /\ cache'[p].status \in {cache[p].status, obj'[p].status}
  BY <1>1 DEF User, Informer, Create, Delete, Edit, Collect, CacheSync, New, Absent, Resource
<1>4. task' = task \/ task' = Outdated(o)
  BY DEF User, Informer, Create, Delete, Edit, Collect, CacheSync
<1> QED BY <1>1, <1>2, <1>3, <1>4, OutdatedFacts DEF HistoryFrame, Inv1

\* The MountPoint controller too, unless it panics.
LEMMA HistoryMountPoint ==
    ASSUME Inv1, NEW m \in MountPoints, MountPointReconcile(m) \/ MountPointStep(m), ~Panic
    PROVE  HistoryFrame
<1> USE DEF MountPointStep, MountPointReconcile, MountPointInitialize, MountPointDial,
       MountPointCloseSession, MountPointCleanUp, MountPointFinalize, MountPointReport,
       WriteStatus, EndTask, apiVars
<1>1. /\ obj \in [Objects -> Resource] /\ m \in Objects /\ m \notin Ops /\ Ops \subseteq Objects
      /\ Kind[m] = "MountPoint" /\ "MountPoint" \notin OpKinds /\ OpKinds \subseteq Kinds
      /\ task \in [Kinds -> Task]
  BY ControlPlaneAssumption DEF Inv1, TypeOK, ControlPlaneTypeOK, Objects, Kinds, OpKinds
<1>2. UNCHANGED <<history, cache>>
  OBVIOUS
<1>3. \A o \in Ops : obj'[o] = obj[o]
  BY <1>1
<1>4. \A k \in OpKinds : task'[k] = task[k]
  BY <1>1
<1> QED BY <1>2, <1>3, <1>4 DEF HistoryFrame

\* A new process has no reconcile under way; an RPC may have been the last
\* thing the old one sent.
LEMMA Inv3Panic ==
    ASSUME Inv1, Inv3, Panic, UNCHANGED <<accepted, rejected, reported>>,
           \A o \in sent' \cap Ops : DependsOn[o] # Nil => DependsOn[o] \in reported
    PROVE  Inv3'
<1>1. /\ \A k \in OpKinds : task'[k] = Idle
      /\ cache' = obj /\ obj' = obj
  BY DEF Panic, RestartControlPlane, Kinds
<1>2. \A k \in OpKinds : task'[k].pc = "idle"
  BY <1>1, TaskFacts
<1> QED
  BY <1>1, <1>2 DEF Inv3, StatusBacked, DependencyReported, StatusDecided, Backed, BackedBy

\* A worker of an operation goes on to u, with answers that may have come in.
LEMMA Inv3Advance ==
    ASSUME Inv1, Inv3, NEW k \in OpKinds, NEW u,
           task' = [task EXCEPT ![k] = u], UNCHANGED apiVars, UNCHANGED reported,
           accepted \subseteq accepted', rejected \subseteq rejected',
           \A o \in sent' \cap Ops : DependsOn[o] # Nil => DependsOn[o] \in reported,
           u.pc # "idle" => BackedBy(u.obj, u.instance.status, accepted', rejected'),
           k # "EditConfig" /\ u.pc \in {"depend", "lookup", "rpc"} =>
               u.ok /\ (u.pc = "rpc" => \E r \in Rpcs : u.todo = {r}),
           u.pc \in {"lookup", "rpc"} /\ DependsOn[u.obj] # Nil =>
               DependsOn[u.obj] \in reported,
           u.pc = "write" /\ ~u.err => u.instance.status # "none"
    PROVE  Inv3'
<1>1. /\ task'[k] = u
      /\ \A j \in OpKinds : j # k => task'[j] = task[j]
  BY DEF Inv1, TypeOK, ControlPlaneTypeOK, Kinds
<1>2. StatusBacked'
  BY <1>1 DEF Inv3, StatusBacked, Backed, BackedBy, apiVars
<1>3. DependencyReported'
  BY <1>1 DEF Inv3, DependencyReported, Backed, BackedBy, apiVars
<1>4. StatusDecided'
  BY <1>1 DEF Inv3, StatusDecided
<1> QED BY <1>2, <1>3, <1>4 DEF Inv3

\* The controllers of the operations: the status comes from the replies, and
\* the dependency is looked at before the session.
LEMMA Inv3Operation ==
    ASSUME Inv1, Inv3, NEW o \in Ops, OperationAction(o)
    PROVE  Inv3'
<1> DEFINE k == Kind[o]
           t == task[Kind[o]]
<1> USE DEF Inv3
<1>1. /\ o \in Objects /\ k \in OpKinds /\ k \in Kinds /\ t \in Task
      /\ task \in [Kinds -> Task] /\ obj \in [Objects -> Resource] /\ Ops \subseteq Objects
  BY ControlPlaneAssumption DEF Objects, Inv1, TypeOK, ControlPlaneTypeOK, Kinds
<1>2. t.pc # "idle" => Backed(t.obj, t.instance.status)
  BY <1>1 DEF StatusBacked
<1>3. \A p \in sent \cap Ops : DependsOn[p] # Nil => DependsOn[p] \in reported
  BY DEF DependencyReported
<1>4. DependencyMet(o) => (DependsOn[o] # Nil => DependsOn[o] \in reported)
  BY CommonAssumption DEF DependencyMet, validateDependency, DependencyReported
<1>5. ASSUME NEW valid \in BOOLEAN, NEW pc \in {"depend", "lookup"}, Reconcile(o, valid, pc),
             valid /\ pc = "lookup" => DependencyMet(o)
      PROVE  Inv3'
  <2> DEFINE u == IF cache[o].phase = "absent" THEN Idle
                  ELSE IF ~valid THEN Failing(o)
                  ELSE IF cache[o].phase = "deleting" THEN Idle
                  ELSE Reconciling(o, pc)
  <2>1. task' = [task EXCEPT ![k] = u] /\ UNCHANGED apiVars /\ UNCHANGED history
    BY <1>5 DEF Reconcile
  <2>2. \/ u.pc = "idle"
        \/ u.pc = "write" /\ u.err /\ u.obj = o /\ u.instance = cache[o]
        \/ /\ u.pc = pc /\ valid /\ u.obj = o /\ u.instance = cache[o] /\ u.ok
    BY <1>1, TaskFacts DEF PCs
  <2> HIDE DEF u
  <2>3. BackedBy(o, cache[o].status, accepted, rejected)
    BY DEF StatusBacked, Backed
  <2> QED BY <1>1, <1>3, <1>4, <1>5, <2>1, <2>2, <2>3, Inv3Advance DEF history
<1>6. CASE CheckDependency(o)
  <2>1. PICK u : /\ task' = [task EXCEPT ![k] = u]
                 /\ \/ u = [t EXCEPT !.pc = "lookup"] /\ DependencyMet(o)
                    \/ u = [t EXCEPT !.pc = "write", !.err = TRUE]
    BY <1>6 DEF CheckDependency
  <2>2. /\ u.obj = t.obj /\ u.instance = t.instance /\ u.ok = t.ok
        /\ u.pc = "lookup" \/ (u.pc = "write" /\ u.err)
        /\ u.pc = "lookup" => DependencyMet(o)
    <3>1. CASE u = [t EXCEPT !.pc = "lookup"] /\ DependencyMet(o)
      BY <1>1, <3>1 DEF Task
    <3>2. CASE u = [t EXCEPT !.pc = "write", !.err = TRUE]
      BY <1>1, <3>2 DEF Task
    <3> QED BY <2>1, <3>1, <3>2
  <2>3. /\ t.obj = o /\ t.pc = "depend" /\ UNCHANGED apiVars /\ UNCHANGED history
    BY <1>6 DEF CheckDependency, At
  <2>4. k # "EditConfig" => t.ok
    BY <1>1, <2>3 DEF StatusBacked
  <2> QED BY <1>1, <1>2, <1>3, <1>4, <2>1, <2>2, <2>3, <2>4, Inv3Advance DEF history, Backed
<1>7. ASSUME NEW rpcs \in SUBSET Rpcs, LookupSession(o, rpcs),
             k = "EditConfig" \/ \E r \in Rpcs : rpcs = {r}
      PROVE  Inv3'
  <2>1. CASE Panic
    BY <1>3, <1>7, <2>1, Inv3Panic DEF LookupSession, history
  <2>2. CASE ~Panic
    <3> DEFINE u == [t EXCEPT !.pc = "rpc", !.session = sessions[MountOf[o]], !.todo = rpcs]
    <3>1. task' = [task EXCEPT ![k] = u] /\ UNCHANGED apiVars /\ UNCHANGED history
      BY <1>7, <2>2 DEF LookupSession
    <3>2. /\ u.pc = "rpc" /\ u.obj = t.obj /\ u.todo = rpcs
          /\ u.instance = t.instance /\ u.ok = t.ok
      BY <1>1 DEF Task
    <3> HIDE DEF u
    <3>3. t.obj = o /\ t.pc = "lookup"
      BY <1>7 DEF LookupSession, At
    <3>4. /\ k # "EditConfig" => t.ok
          /\ DependsOn[o] # Nil => DependsOn[o] \in reported
      BY <1>1, <3>3 DEF StatusBacked, DependencyReported
    <3> QED BY <1>1, <1>2, <1>3, <1>7, <3>1, <3>2, <3>3, <3>4, Inv3Advance DEF history, Backed
  <2> QED BY <2>1, <2>2
<1>8. ASSUME t.pc = "rpc", t.obj = o
      PROVE  /\ \A p \in (sent \cup {o}) \cap Ops : DependsOn[p] # Nil => DependsOn[p] \in reported
             /\ k # "EditConfig" => t.ok /\ \E r \in Rpcs : t.todo = {r}
  BY <1>1, <1>3, <1>8 DEF StatusBacked, DependencyReported
<1>9. ASSUME NEW r \in Rpcs, NEW ok \in BOOLEAN, NEW st \in {"success", "failed"},
             Replied(o, r, ok, st),
             IF k = "EditConfig" THEN st = "success"
                                 ELSE st = IF ok THEN "success" ELSE "failed"
      PROVE  Inv3'
  <2> DEFINE u == AfterReply(t, r, ok, st)
  <2>1. /\ u.obj = t.obj /\ u.err = t.err
        /\ u.pc = IF t.todo = {r} THEN "write" ELSE t.pc
        /\ u.instance.status = IF t.todo = {r} THEN st ELSE t.instance.status
    BY <1>1, <1>9, AfterReplyFacts DEF Statuses
  <2>2. t.obj = o /\ t.pc = "rpc" /\ r \in t.todo
    BY <1>9 DEF Replied, Asking, At
  <2>3. /\ task' = [task EXCEPT ![k] = u] /\ UNCHANGED apiVars
        /\ sent' = sent \cup {o} /\ UNCHANGED reported
        /\ accepted' = IF t.todo = {r} /\ t.ok /\ ok THEN accepted \cup {o} ELSE accepted
        /\ rejected' = IF t.todo = {r} /\ ~(t.ok /\ ok) THEN rejected \cup {o} ELSE rejected
    BY <1>9 DEF Replied
  <2> HIDE DEF u
  <2>4. k # "EditConfig" => t.ok /\ t.todo = {r}
    BY <1>8, <2>2
  <2>5. BackedBy(o, u.instance.status, accepted', rejected')
    <3>1. CASE t.todo # {r}
      BY <1>2, <2>1, <2>2, <2>3, <3>1 DEF Backed, BackedBy
    <3>2. CASE t.todo = {r}
      <4>1. o \in accepted' \cup rejected' /\ u.instance.status = st
        BY <2>1, <2>3, <3>2
      <4>2. k # "EditConfig" => (ok => o \in accepted') /\ (~ok => o \in rejected')
        BY <2>3, <2>4
      <4> QED BY <1>9, <4>1, <4>2 DEF BackedBy
    <3> QED BY <3>1, <3>2
  <2>6. k # "EditConfig" => u.pc = "write"
    BY <2>1, <2>4
  <2>7. u.pc = "write" => u.instance.status # "none"
    BY <2>1, <2>2
  <2>8. /\ accepted \subseteq accepted' /\ rejected \subseteq rejected'
        /\ \A p \in sent' \cap Ops : DependsOn[p] # Nil => DependsOn[p] \in reported
    BY <1>8, <2>2, <2>3
  <2>9. DependsOn[o] # Nil => DependsOn[o] \in reported
    BY <1>8, <2>2
  <2> QED BY <1>1, <2>1, <2>2, <2>3, <2>5, <2>6, <2>7, <2>8, <2>9, Inv3Advance
<1>10. ASSUME NEW r \in Rpcs, NotReplied(o, r) PROVE Inv3'
  BY <1>8, <1>10, Inv3Panic DEF NotReplied, Asking, At
<1>11. CASE Report(o)
  <2>1. /\ t.obj = o /\ t.pc = "write"
        /\ UNCHANGED <<cache, sent, accepted, rejected>>
        /\ task' = [task EXCEPT ![k] = Idle]
    BY <1>11 DEF Report, WriteStatus, At, EndTask
  <2>2. \/ t.fresh /\ obj' = [obj EXCEPT ![o].status = t.instance.status]
        \/ ~t.fresh /\ obj' = obj
    BY <1>11 DEF Report, WriteStatus
  <2>3. reported' = IF t.fresh /\ t.instance.status = "success"
                    THEN reported \cup {o} ELSE reported
    BY <1>11 DEF Report
  <2>4. Backed(o, t.instance.status)
    BY <1>2, <2>1
  <2>5. \A p \in Ops : obj'[p].status = IF p = o /\ t.fresh THEN t.instance.status ELSE obj[p].status
    BY <1>1, <2>2 DEF Resource
  <2>6. /\ task'[k].pc = "idle"
        /\ \A j \in OpKinds : j # k => task'[j] = task[j]
    BY <1>1, <2>1, TaskFacts DEF Kinds
  <2>7. StatusBacked'
    BY <2>1, <2>4, <2>5, <2>6 DEF StatusBacked, Backed, BackedBy
  <2>8. DependencyReported'
    BY <2>1, <2>3, <2>4, <2>5, <2>6 DEF DependencyReported, Backed, BackedBy
  <2>9. StatusDecided'
    BY <2>6 DEF StatusDecided
  <2> QED BY <2>7, <2>8, <2>9
<1> QED
  BY <1>5, <1>6, <1>7, <1>9, <1>10, <1>11 DEF OperationAction

\* The third part of the invariant is kept by every step.
LEMMA Inv3Step ==
    ASSUME Inv1, Inv3, [Next]_vars
    PROVE  Inv3'
<1>1. ASSUME NEW o \in Objects, User(o) \/ Informer(o)
      PROVE  Inv3'
  BY <1>1, HistoryControlPlane, Inv3Frame
<1>2. ASSUME UNCHANGED <<controlVars, history>>
      PROVE  Inv3'
  BY <1>2, Inv3Frame DEF controlVars, HistoryFrame
<1>3. CASE \E s \in SessionIds : Server(s)
  BY <1>2, <1>3 DEF Server
<1>4. CASE UNCHANGED vars
  BY <1>2, <1>4 DEF vars, controlVars, history
<1>5. ASSUME Panic, UNCHANGED history PROVE Inv3'
  BY <1>5, Inv3Panic DEF history, Inv3, DependencyReported
<1>6. CASE Crash
  BY <1>5, <1>6 DEF Crash
<1>7. ASSUME NEW m \in MountPoints, MountPointReconcile(m) \/ MountPointStep(m)
      PROVE  Inv3'
  <2>1. CASE Panic
    <3>1. UNCHANGED history
      BY <1>7 DEF MountPointReconcile, MountPointStep, MountPointInitialize, MountPointDial,
           MountPointCloseSession, MountPointCleanUp, MountPointFinalize, MountPointReport
    <3> QED BY <1>5, <2>1, <3>1
  <2>2. CASE ~Panic
    BY <1>7, <2>2, HistoryMountPoint, Inv3Frame
  <2> QED BY <2>1, <2>2
<1>8. ASSUME NEW o \in Ops, OperationReconcile(o) \/ OperationStep(o)
      PROVE  Inv3'
  BY <1>8, OperationSteps, Inv3Operation
<1> QED
  BY <1>1, <1>3, <1>4, <1>6, <1>7, <1>8 DEF Next

LEMMA Inv3Init == Init => Inv3
<1> SUFFICES ASSUME Init PROVE Inv3
  OBVIOUS
<1>1. /\ \A o \in Ops : obj[o].status = "none" /\ cache[o].status = "none"
      /\ \A k \in OpKinds : task[k].pc = "idle"
      /\ sent = {} /\ reported = {}
  BY TaskFacts DEF Init, ControlPlaneInit, CommonInit, Objects, Kinds, Absent
<1> QED BY <1>1 DEF Inv3, StatusBacked, DependencyReported, StatusDecided, Backed, BackedBy

LEMMA Inv13Always == Spec => [](Inv1 /\ Inv3)
<1>1. Init => Inv1 /\ Inv3
  BY Inv1Init, Inv3Init
<1>2. (Inv1 /\ Inv3) /\ [Next]_vars => (Inv1 /\ Inv3)'
  BY Inv1Step, Inv3Step
<1> QED BY <1>1, <1>2, PTL DEF Spec

\* The stored status of an operation is backed by an answer of the server,
\* whatever conflicts, retries and restarts lie between the two.
THEOREM StatusIsTruthful == Spec => []StatusTruthful
<1>1. Inv1 /\ Inv3 => StatusTruthful
  BY DEF Inv3, StatusBacked, Backed, BackedBy, StatusTruthful
<1> QED BY <1>1, Inv13Always, PTL

\* No RPC of an operation is sent before the operation it depends on was
\* answered, however old the cached status that validateDependency read.
THEOREM DependencyIsHonoured == Spec => []DependencyHonoured
<1>1. Inv1 /\ Inv3 => DependencyHonoured
  <2> SUFFICES ASSUME Inv1, Inv3, NEW o \in sent, DependsOn[o] # Nil
               PROVE  DependsOn[o] \in IF Kind[DependsOn[o]] = "EditConfig"
                                      THEN accepted \cup rejected ELSE accepted
    BY DEF DependencyHonoured
  <2>1. o \in Ops /\ DependsOn[o] \in Ops
    BY CommonAssumption DEF Inv1, TypeOK, CommonTypeOK
  <2>2. Backed(DependsOn[o], "success")
    BY <2>1 DEF Inv3, DependencyReported
  <2> QED BY <2>2 DEF Backed, BackedBy
<1> QED BY <1>1, Inv13Always, PTL

-----------------------------------------------------------------------------
(* NetconfOperator implements Workflow *)

\* A step that sends and reports nothing changes no status, or forgets one.
LEMMA WorkflowFrame ==
    ASSUME Inv1, UNCHANGED history,
           \/ \A o \in Ops : obj'[o].status = obj[o].status
           \/ \E p \in Ops : \A o \in Ops :
                obj'[o].status = IF o = p THEN "none" ELSE obj[o].status
    PROVE  [W!Next]_(W!vars)
<1>1. CASE \A o \in Ops : obj'[o].status = obj[o].status
  BY <1>1 DEF W!vars, history
<1>2. ASSUME NEW p \in Ops, \A o \in Ops :
               obj'[o].status = IF o = p THEN "none" ELSE obj[o].status
      PROVE  W!Next
  BY <1>2 DEF W!Next, W!Forget, history
<1> QED BY <1>1, <1>2

\* Every step of an operation controller is a step of Workflow, or a stutter.
LEMMA WorkflowOperation ==
    ASSUME Inv1, Inv3, NEW o \in Ops, OperationAction(o)
    PROVE  [W!Next]_(W!vars)
<1> DEFINE k == Kind[o]
           t == task[Kind[o]]
<1>1. /\ o \in Objects /\ k \in OpKinds /\ k \in Kinds /\ t \in Task
      /\ obj \in [Objects -> Resource] /\ Ops \subseteq Objects
  BY ControlPlaneAssumption DEF Objects, Inv1, TypeOK, ControlPlaneTypeOK, Kinds
<1>2. t.pc = "rpc" /\ t.obj = o => (DependsOn[o] # Nil => DependsOn[o] \in reported)
  BY <1>1 DEF Inv3, DependencyReported
<1>3. CASE obj' = obj /\ UNCHANGED history
  BY <1>3, WorkflowFrame
<1>4. ASSUME NEW r \in Rpcs, NEW ok \in BOOLEAN, NEW st, Replied(o, r, ok, st)
      PROVE  W!Next
  <2>1. /\ DependsOn[o] # Nil => DependsOn[o] \in reported
        /\ sent' = sent \cup {o} /\ UNCHANGED <<reported, obj>>
        /\ accepted' \cup rejected' \in
             {accepted \cup rejected, (accepted \cup rejected) \cup {o}}
    BY <1>2, <1>4 DEF Replied, Asking, At, apiVars
  <2> QED BY <2>1 DEF W!Next, W!Send
<1>5. ASSUME NEW r \in Rpcs, NotReplied(o, r) PROVE W!Next
  <2>1. /\ DependsOn[o] # Nil => DependsOn[o] \in reported
        /\ sent' = sent \cup {o} /\ UNCHANGED <<accepted, rejected, reported, obj>>
    BY <1>2, <1>5 DEF NotReplied, Asking, At, Panic, RestartControlPlane
  <2> QED BY <2>1 DEF W!Next, W!Send
<1>6. CASE Report(o)
  <2>1. t.obj = o /\ t.pc = "write" /\ UNCHANGED <<sent, accepted, rejected>>
    BY <1>6 DEF Report, WriteStatus, At
  <2>2. Backed(o, t.instance.status) /\ t.instance.status \in {"none", "success", "failed"}
    BY <1>1, <2>1, ControlPlaneAssumption
       DEF Inv1, Inv3, StatusBacked, StatusShape, StatusOf
  <2>3. reported' = IF t.fresh /\ t.instance.status = "success"
                    THEN reported \cup {o} ELSE reported
    BY <1>6 DEF Report
  <2>4. CASE ~t.fresh
    BY <1>3, <1>6, <2>1, <2>3, <2>4 DEF Report, WriteStatus, history
  <2>5. CASE t.fresh
    <3>1. \A p \in Ops : obj'[p].status = IF p = o THEN t.instance.status ELSE obj[p].status
      BY <1>1, <1>6, <2>5 DEF Report, WriteStatus, Resource
    <3>2. CASE t.instance.status = "none"
      BY <2>1, <2>3, <3>1, <3>2, WorkflowFrame DEF history
    <3>3. CASE t.instance.status \in {"success", "failed"}
      <4>1. o \in accepted \cup rejected
        BY <2>2, <3>3 DEF Backed, BackedBy
      <4> QED BY <2>1, <2>3, <2>5, <3>1, <3>3, <4>1 DEF W!Next, W!Report
    <3> QED BY <2>2, <3>2, <3>3
  <2> QED BY <2>4, <2>5
<1>7. ASSUME OperationAction(o), \A r \in Rpcs : ~NotReplied(o, r), ~Report(o),
             \A r \in Rpcs, ok \in BOOLEAN, st \in {"success", "failed"} : ~Replied(o, r, ok, st)
      PROVE  obj' = obj /\ UNCHANGED history
  BY <1>7 DEF OperationAction, Reconcile, CheckDependency, LookupSession, apiVars, Panic,
     RestartControlPlane
<1> QED BY <1>3, <1>4, <1>5, <1>6, <1>7

\* The detailed specification implements the abstract one: whatever happens to
\* sessions, caches and processes, a user sees an operation run only after the
\* success of the one it depends on, and a status only after an answer.
THEOREM ImplementsWorkflow == Spec => SequencesOperations
<1>1. Init => W!Init
  <2> SUFFICES ASSUME Init PROVE W!Init
    OBVIOUS
  <2>1. \A o \in Ops : obj[o].status = "none"
    BY DEF Init, ControlPlaneInit, Objects, Absent
  <2> QED BY <2>1 DEF Init, CommonInit, W!Init
<1>2. Inv1 /\ Inv3 /\ [Next]_vars => [W!Next]_(W!vars)
  <2> SUFFICES ASSUME Inv1, Inv3, [Next]_vars PROVE [W!Next]_(W!vars)
    OBVIOUS
  <2>1. ASSUME UNCHANGED <<obj, history>> PROVE [W!Next]_(W!vars)
    BY <2>1, WorkflowFrame
  <2>2. ASSUME NEW o \in Objects, User(o) \/ Informer(o) PROVE [W!Next]_(W!vars)
    <3>1. obj \in [Objects -> Resource] /\ Ops \subseteq Objects
      BY DEF Inv1, TypeOK, ControlPlaneTypeOK, Objects
    <3>2. UNCHANGED history
      BY <2>2 DEF User, Informer
    <3>3. \/ \A p \in Ops : obj'[p].status = obj[p].status
          \/ o \in Ops /\ \A p \in Ops : obj'[p].status = IF p = o THEN "none" ELSE obj[p].status
      BY <2>2, <3>1 DEF User, Informer, Create, Delete, Edit, Collect, CacheSync, New, Absent,
         Resource
    <3> QED BY <3>2, <3>3, WorkflowFrame
  <2>3. ASSUME NEW m \in MountPoints, MountPointReconcile(m) \/ MountPointStep(m)
        PROVE  [W!Next]_(W!vars)
    <3>1. UNCHANGED history
      BY <2>3 DEF MountPointReconcile, MountPointStep, MountPointInitialize, MountPointDial,
           MountPointCloseSession, MountPointCleanUp, MountPointFinalize, MountPointReport
    <3>2. CASE Panic
      BY <2>1, <3>1, <3>2 DEF Panic, RestartControlPlane
    <3>3. CASE ~Panic
      <4>1. \A o \in Ops : obj'[o] = obj[o]
        BY <2>3, <3>3, ControlPlaneAssumption DEF Inv1, TypeOK, ControlPlaneTypeOK, Objects,
           MountPointReconcile, MountPointStep, MountPointInitialize, MountPointDial,
           MountPointCloseSession, MountPointCleanUp, MountPointFinalize, MountPointReport,
           WriteStatus, apiVars
      <4> QED BY <3>1, <4>1, WorkflowFrame
    <3> QED BY <3>2, <3>3
  <2>4. ASSUME NEW o \in Ops, OperationReconcile(o) \/ OperationStep(o)
        PROVE  [W!Next]_(W!vars)
    BY <2>4, OperationSteps, WorkflowOperation
  <2>5. CASE Crash
    BY <2>1, <2>5 DEF Crash, Panic, RestartControlPlane
  <2>6. CASE \E s \in SessionIds : Server(s)
    BY <2>1, <2>6 DEF Server, controlVars
  <2>7. CASE UNCHANGED vars
    BY <2>1, <2>7 DEF vars, history
  <2> QED BY <2>2, <2>3, <2>4, <2>5, <2>6, <2>7 DEF Next
<1> QED BY <1>1, <1>2, Inv13Always, PTL DEF Spec, SequencesOperations, W!Spec

-----------------------------------------------------------------------------
(* No work is forgotten between the informers, the work queue and the      *)
(* workers                                                                 *)

\* NoLostWakeup, for one resource.
Attended(o) ==
    IF o \in MountPoints
    THEN \/ obj[o].phase = "absent"
         \/ obj[o].phase = "live" /\ sessions[o] # Nil
         \/ Pending(o)
    ELSE obj[o].phase = "live" /\ obj[o].status = "none" => Pending(o)

LEMMA WakeupParts == NoLostWakeup <=> \A o \in Objects : Attended(o)
  BY ControlPlaneAssumption DEF NoLostWakeup, Attended, Objects

\* A step that only concerns o cannot make the others forgotten.
LEMMA WakeupOthers ==
    ASSUME NoLostWakeup, NEW o \in Objects, Attended(o)',
           \A p \in Objects : p # o => obj'[p] = obj[p] /\ watch'[p] = watch[p],
           queue \ {o} \subseteq queue',
           \A p \in MountPoints : p # o => sessions'[p] = sessions[p],
           \A p \in Objects : p # o /\ task[Kind[p]].obj = p => task'[Kind[p]].obj = p
    PROVE  NoLostWakeup'
<1>1. ASSUME NEW p \in Objects, p # o PROVE Attended(p)'
  <2>1. Attended(p)
    BY WakeupParts
  <2>2. Pending(p) => Pending(p)'
    BY <1>1 DEF Pending
  <2> QED BY <1>1, <2>1, <2>2 DEF Attended
<1>2. \A p \in Objects : Attended(p)'
  BY <1>1
<1> QED BY <1>2, ControlPlaneAssumption DEF NoLostWakeup, Attended, Objects

\* The workers hold on to what they reconcile: replacing the task of o's
\* worker takes nothing else from it.
LEMMA OtherTasks ==
    ASSUME Inv1, NEW o \in Objects, NEW u, task' = [task EXCEPT ![Kind[o]] = u],
           task[Kind[o]].obj \in {o, Nil}
    PROVE  \A p \in Objects : p # o /\ task[Kind[p]].obj = p => task'[Kind[p]].obj = p
<1>1. task \in [Kinds -> Task] /\ Nil \notin Objects /\ Kind \in [Objects -> Kinds]
  BY ControlPlaneAssumption, ServerAssumption DEF Inv1, TypeOK, ControlPlaneTypeOK, Objects
<1> QED BY <1>1

\* A worker goes on with o.
LEMMA WakeupAdvance ==
    ASSUME Inv1, NoLostWakeup, NEW o \in Objects, NEW u, task' = [task EXCEPT ![Kind[o]] = u],
           task[Kind[o]].obj = o, u.obj = o, UNCHANGED apiVars, UNCHANGED queue,
           \A p \in MountPoints : p # o => sessions'[p] = sessions[p]
    PROVE  NoLostWakeup'
<1>1. task'[Kind[o]].obj = o
  BY ControlPlaneAssumption DEF Inv1, TypeOK, ControlPlaneTypeOK
<1>2. Attended(o)'
  BY <1>1 DEF Attended, Pending
<1> QED BY <1>2, OtherTasks, WakeupOthers DEF apiVars

\* A worker takes o from the queue; it puts it aside only if the cache, and so
\* the API server or an event on its way, says that there is nothing to do.
LEMMA WakeupBegin ==
    ASSUME Inv1, NoLostWakeup, NEW o \in Objects, NEW u, task' = [task EXCEPT ![Kind[o]] = u],
           Dequeue(o), UNCHANGED apiVars, UNCHANGED sessions,
           \/ u.obj = o
           \/ cache[o].phase = "absent"
           \/ o \in Ops /\ cache[o].phase = "deleting"
    PROVE  NoLostWakeup'
<1>1. /\ task'[Kind[o]] = u /\ Kind[o] \in Kinds
  BY ControlPlaneAssumption DEF Inv1, TypeOK, ControlPlaneTypeOK
<1>2. /\ task[Kind[o]].obj = Nil /\ queue' = queue \ {o}
      /\ watch[o] # "event" => cache[o].phase = obj[o].phase
  BY <1>1 DEF Dequeue, Inv1, TaskShape, CacheCurrent
<1>3. Attended(o)'
  BY <1>1, <1>2, ControlPlaneAssumption DEF Attended, Pending, apiVars
<1> QED BY <1>2, <1>3, OtherTasks, WakeupOthers DEF apiVars

\* A worker is done with o, which is enqueued or announced again, or settled.
LEMMA WakeupEnd ==
    ASSUME Inv1, NoLostWakeup, NEW o \in Objects, EndTask(o), task[Kind[o]].obj = o,
           UNCHANGED sessions, queue \subseteq queue',
           \A p \in Objects : p # o => obj'[p] = obj[p] /\ watch'[p] = watch[p],
           \/ o \in queue' \/ watch'[o] = "event"
           \/ o \in Ops /\ obj'[o].status # "none"
           \/ o \in MountPoints /\ obj'[o].phase = "live" /\ sessions[o] # Nil
    PROVE  NoLostWakeup'
<1>1. Attended(o)'
  BY ControlPlaneAssumption DEF Attended, Pending
<1> QED BY <1>1, OtherTasks, WakeupOthers DEF EndTask

\* A new process reconciles every resource.
LEMMA WakeupPanic ==
    ASSUME Panic
    PROVE  NoLostWakeup'
<1>1. \A o \in Objects : obj'[o].phase # "absent" => o \in queue'
  BY DEF Panic, RestartControlPlane
<1> QED BY <1>1 DEF NoLostWakeup, Pending, Objects

\* Users and informers.
LEMMA WakeupControlPlane ==
    ASSUME Inv1, NoLostWakeup, NEW o \in Objects, User(o) \/ Informer(o)
    PROVE  NoLostWakeup'
<1>1. /\ obj \in [Objects -> Resource] /\ watch \in [Objects -> {"synced", "status", "event"}]
      /\ Kind \in [Objects -> Kinds]
  BY ControlPlaneAssumption DEF Inv1, TypeOK, ControlPlaneTypeOK
<1>2. \A p \in Objects : p # o => obj'[p] = obj[p] /\ watch'[p] = watch[p]
  BY <1>1 DEF User, Informer, Create, Delete, Edit, Collect, CacheSync, Fired, Silent
<1>3. sessions' = sessions /\ queue \subseteq queue'
  BY DEF User, Informer, Create, Delete, Edit, Collect, CacheSync
<1>4. \A k \in Kinds : task'[k].obj = task[k].obj
  <2>1. task' = task \/ task' = Outdated(o)
    BY DEF User, Informer, Create, Delete, Edit, Collect, CacheSync
  <2> QED BY <2>1, OutdatedFacts DEF Inv1
<1>5. \/ watch'[o] = "event"
      \/ obj'[o] = obj[o] /\ (watch[o] = "event" => o \in queue')
  BY <1>1 DEF User, Informer, Create, Delete, Edit, Collect, CacheSync, Fired, Silent
<1>6. Attended(o)'
  <2>1. Attended(o)
    BY WakeupParts
  <2> QED BY <1>1, <1>3, <1>4, <1>5, <2>1 DEF Attended, Pending
<1> QED BY <1>1, <1>2, <1>3, <1>4, <1>6, WakeupOthers

\* The MountPoint controller.
LEMMA WakeupMountPoint ==
    ASSUME Inv1, Inv2, NoLostWakeup, NEW m \in MountPoints,
           MountPointReconcile(m) \/ MountPointStep(m)
    PROVE  NoLostWakeup'
<1> DEFINE t == task["MountPoint"]
<1>1. /\ m \in Objects /\ Kind[m] = "MountPoint" /\ "MountPoint" \in Kinds /\ t \in Task
      /\ obj \in [Objects -> Resource] /\ watch \in [Objects -> {"synced", "status", "event"}]
      /\ sessions \in [MountPoints -> SessionIds \cup {Nil}]
  BY ControlPlaneAssumption DEF Objects, Kinds, Inv1, TypeOK, ControlPlaneTypeOK, CommonTypeOK
<1>2. CASE MountPointReconcile(m)
  <2> DEFINE u == IF cache[m].phase = "absent" THEN Idle
                  ELSE IF ~cache[m].finalizer THEN Reconciling(m, "init")
                  ELSE IF cache[m].phase = "deleting" THEN Reconciling(m, "closing")
                  ELSE Reconciling(m, "dial")
  <2>1. /\ task' = [task EXCEPT !["MountPoint"] = u]
        /\ UNCHANGED apiVars /\ UNCHANGED sessions /\ Dequeue(m)
    BY <1>2 DEF MountPointReconcile
  <2>2. u.obj = m \/ cache[m].phase = "absent"
    BY <1>1, TaskFacts DEF PCs
  <2> HIDE DEF u
  <2> QED BY <1>1, <2>1, <2>2, WakeupBegin
<1>3. CASE MountPointInitialize(m)
  BY <1>1, <1>3, WakeupEnd DEF MountPointInitialize, At, Fired
<1>4. CASE MountPointDial(m)
  <2>1. CASE Panic
    BY <2>1, WakeupPanic
  <2>2. ASSUME NEW st \in {"failed", "connected"}, NEW e \in BOOLEAN,
               UNCHANGED apiVars, UNCHANGED queue,
               task' = [task EXCEPT !["MountPoint"] = Dialled(@, st, e)],
               \/ sessions' = sessions
               \/ \E s \in SessionIds : sessions' = [sessions EXCEPT ![m] = s]
        PROVE  NoLostWakeup'
    <3> DEFINE u == Dialled(t, st, e)
    <3>1. u.obj = t.obj
      <4>1. st \in Statuses
        BY DEF Statuses
      <4> QED BY <1>1, <4>1, DialledFacts
    <3>2. t.obj = m /\ task' = [task EXCEPT !["MountPoint"] = u]
      BY <1>1, <1>4, <2>2 DEF MountPointDial, At
    <3>3. \A p \in MountPoints : p # m => sessions'[p] = sessions[p]
      BY <1>1, <2>2
    <3>4. UNCHANGED apiVars /\ UNCHANGED queue
      BY <2>2
    <3> HIDE DEF u
    <3> QED BY <1>1, <3>1, <3>2, <3>3, <3>4, WakeupAdvance
  <2> QED BY <1>4, <2>1, <2>2 DEF MountPointDial
<1>5. CASE MountPointCloseSession(m)
  <2>1. PICK u : /\ task' = [task EXCEPT !["MountPoint"] = u]
                 /\ \/ u = [t EXCEPT !.pc = "finalize"]
                    \/ u = [t EXCEPT !.pc = "cleanup", !.session = sessions[m]]
    BY <1>5 DEF MountPointCloseSession
  <2>2. u.obj = t.obj
    BY <1>1, <2>1 DEF Task
  <2>3. /\ UNCHANGED apiVars /\ UNCHANGED queue /\ t.obj = m
        /\ \A p \in MountPoints : p # m => sessions'[p] = sessions[p]
    BY <1>1, <1>5 DEF MountPointCloseSession, At
  <2> QED BY <1>1, <2>1, <2>2, <2>3, WakeupAdvance
<1>6. CASE MountPointCleanUp(m)
  <2>1. PICK e \in BOOLEAN :
          task' = [task EXCEPT !["MountPoint"] =
                     [@ EXCEPT !.pc = IF e THEN "write" ELSE "finalize",
                               !.session = Nil, !.err = e]]
    BY <1>6 DEF MountPointCleanUp
  <2> DEFINE u == [t EXCEPT !.pc = IF e THEN "write" ELSE "finalize",
                            !.session = Nil, !.err = e]
  <2>2. u.obj = t.obj
    BY <1>1 DEF Task
  <2>3. task' = [task EXCEPT !["MountPoint"] = u]
    BY <2>1
  <2>4. \A p \in MountPoints : p # m => sessions'[p] = sessions[p]
    BY <1>1, <1>6 DEF MountPointCleanUp
  <2>5. UNCHANGED apiVars /\ UNCHANGED queue /\ t.obj = m
    BY <1>1, <1>6 DEF MountPointCleanUp, At
  <2> HIDE DEF u
  <2> QED BY <1>1, <2>2, <2>3, <2>4, <2>5, WakeupAdvance
<1>7. CASE MountPointFinalize(m)
  BY <1>1, <1>7, WakeupEnd DEF MountPointFinalize, At, Fired
<1>8. CASE MountPointReport(m)
  <2>1. /\ t.obj = m /\ t.pc = "write" /\ EndTask(m) /\ UNCHANGED sessions
        /\ queue \subseteq queue'
        /\ \A p \in Objects : p # m => obj'[p] = obj[p] /\ watch'[p] = watch[p]
    BY <1>1, <1>8 DEF MountPointReport, WriteStatus, At, Silent
  <2>2. CASE m \in queue'
    BY <1>1, <2>1, <2>2, WakeupEnd
  <2>3. CASE m \notin queue'
    <3>1. t.fresh /\ ~t.err /\ obj'[m].phase = obj[m].phase
      BY <1>1, <1>8, <2>3 DEF MountPointReport, WriteStatus, Resource
    <3>2. obj[m].phase = "live" /\ sessions[m] # Nil
      BY <1>1, <2>1, <3>1 DEF Inv1, CacheCurrent, Inv2, FinalizerKept
    <3> QED BY <1>1, <2>1, <3>1, <3>2, WakeupEnd
  <2> QED BY <2>2, <2>3
<1> QED
  BY <1>2, <1>3, <1>4, <1>5, <1>6, <1>7, <1>8 DEF MountPointStep

\* The controllers of the operations.
LEMMA WakeupOperation ==
    ASSUME Inv1, StatusDecided, NoLostWakeup, NEW o \in Ops, OperationAction(o)
    PROVE  NoLostWakeup'
<1> DEFINE k == Kind[o]
           t == task[Kind[o]]
<1>1. /\ o \in Objects /\ k \in OpKinds /\ k \in Kinds /\ t \in Task
      /\ obj \in [Objects -> Resource] /\ watch \in [Objects -> {"synced", "status", "event"}]
  BY ControlPlaneAssumption DEF Objects, Inv1, TypeOK, ControlPlaneTypeOK, Kinds
<1>2. ASSUME NEW valid \in BOOLEAN, NEW pc \in {"depend", "lookup"}, Reconcile(o, valid, pc)
      PROVE  NoLostWakeup'
  <2> DEFINE u == IF cache[o].phase = "absent" THEN Idle
                  ELSE IF ~valid THEN Failing(o)
                  ELSE IF cache[o].phase = "deleting" THEN Idle
                  ELSE Reconciling(o, pc)
  <2>1. /\ task' = [task EXCEPT ![k] = u] /\ UNCHANGED apiVars /\ UNCHANGED sessions
        /\ Dequeue(o)
    BY <1>2 DEF Reconcile
  <2>2. u.obj = o \/ cache[o].phase \in {"absent", "deleting"}
    BY <1>1, TaskFacts DEF PCs
  <2> HIDE DEF u
  <2> QED BY <1>1, <2>1, <2>2, WakeupBegin
<1>3. CASE CheckDependency(o)
  <2>1. PICK u : /\ task' = [task EXCEPT ![k] = u]
                 /\ \/ u = [t EXCEPT !.pc = "lookup"]
                    \/ u = [t EXCEPT !.pc = "write", !.err = TRUE]
    BY <1>3 DEF CheckDependency
  <2>2. u.obj = t.obj
    BY <1>1, <2>1 DEF Task
  <2> QED BY <1>1, <1>3, <2>1, <2>2, WakeupAdvance DEF CheckDependency, At
<1>4. ASSUME NEW rpcs \in SUBSET Rpcs, LookupSession(o, rpcs) PROVE NoLostWakeup'
  <2>1. CASE Panic
    BY <2>1, WakeupPanic
  <2>2. CASE ~Panic
    <3> DEFINE u == [t EXCEPT !.pc = "rpc", !.session = sessions[MountOf[o]], !.todo = rpcs]
    <3>1. /\ task' = [task EXCEPT ![k] = u] /\ UNCHANGED apiVars /\ UNCHANGED queue
          /\ UNCHANGED sessions /\ t.obj = o
      BY <1>4, <2>2 DEF LookupSession, At
    <3>2. u.obj = t.obj
      BY <1>1 DEF Task
    <3> HIDE DEF u
    <3> QED BY <1>1, <3>1, <3>2, WakeupAdvance
  <2> QED BY <2>1, <2>2
<1>5. ASSUME NEW r \in Rpcs, NEW ok \in BOOLEAN, NEW st \in {"success", "failed"},
             Replied(o, r, ok, st)
      PROVE  NoLostWakeup'
  <2> DEFINE u == AfterReply(t, r, ok, st)
  <2>1. u.obj = t.obj
    BY <1>1, AfterReplyFacts DEF Statuses
  <2>2. /\ task' = [task EXCEPT ![k] = u] /\ UNCHANGED apiVars /\ UNCHANGED queue
        /\ UNCHANGED sessions /\ t.obj = o
    BY <1>5 DEF Replied, Asking, At
  <2> HIDE DEF u
  <2> QED BY <1>1, <2>1, <2>2, WakeupAdvance
<1>6. ASSUME NEW r \in Rpcs, NotReplied(o, r) PROVE NoLostWakeup'
  BY <1>6, WakeupPanic DEF NotReplied
<1>7. CASE Report(o)
  <2>1. /\ t.obj = o /\ t.pc = "write" /\ EndTask(o) /\ UNCHANGED sessions
        /\ queue \subseteq queue'
        /\ \A p \in Objects : p # o => obj'[p] = obj[p] /\ watch'[p] = watch[p]
    BY <1>1, <1>7 DEF Report, WriteStatus, At, Silent
  <2>2. CASE o \in queue'
    BY <1>1, <2>1, <2>2, WakeupEnd
  <2>3. CASE o \notin queue'
    <3>1. t.fresh /\ ~t.err /\ obj'[o].status = t.instance.status
      BY <1>1, <1>7, <2>3 DEF Report, WriteStatus, Resource
    <3>2. t.instance.status # "none"
      BY <1>1, <2>1, <3>1 DEF StatusDecided
    <3> QED BY <1>1, <2>1, <3>1, <3>2, WakeupEnd
  <2> QED BY <2>2, <2>3
<1> QED
  BY <1>2, <1>3, <1>4, <1>5, <1>6, <1>7 DEF OperationAction

LEMMA IInvInit == Init => IInv
<1>1. Init => NoLostWakeup
  BY DEF Init, ControlPlaneInit, NoLostWakeup, Objects, Absent
<1> QED BY <1>1, Inv1Init, Inv2Init, Inv3Init DEF IInv

\* The whole invariant is inductive.
LEMMA IInvStep == IInv /\ [Next]_vars => IInv'
<1> SUFFICES ASSUME IInv, [Next]_vars PROVE IInv'
  OBVIOUS
<1> USE DEF IInv
<1>1. NoLostWakeup'
  <2>1. ASSUME NEW o \in Objects, User(o) \/ Informer(o) PROVE NoLostWakeup'
    BY <2>1, WakeupControlPlane
  <2>2. ASSUME NEW m \in MountPoints, MountPointReconcile(m) \/ MountPointStep(m)
        PROVE  NoLostWakeup'
    BY <2>2, WakeupMountPoint
  <2>3. ASSUME NEW o \in Ops, OperationReconcile(o) \/ OperationStep(o)
        PROVE  NoLostWakeup'
    BY <2>3, OperationSteps, WakeupOperation DEF Inv3
  <2>4. ASSUME UNCHANGED <<controlVars, sessions>> PROVE NoLostWakeup'
    BY <2>4 DEF controlVars, NoLostWakeup, Pending
  <2>5. CASE \E s \in SessionIds : Server(s)
    BY <2>4, <2>5 DEF Server
  <2>6. CASE UNCHANGED vars
    BY <2>4, <2>6 DEF vars, controlVars
  <2>7. CASE Crash
    BY <2>7, WakeupPanic DEF Crash
  <2> QED BY <2>1, <2>2, <2>3, <2>5, <2>6, <2>7 DEF Next
<1> QED BY <1>1, Inv1Step, Inv2Step, Inv3Step

\* Work that is left is queued, under way or announced in every reachable
\* state: neither a refused write, nor a stale read, nor a swallowed update
\* event, nor a restart makes the operator forget a resource.
THEOREM NothingIsForgotten == Spec => []NoLostWakeup
<1>1. IInv => NoLostWakeup
  BY DEF IInv
<1> QED BY <1>1, IInvInit, IInvStep, PTL DEF Spec

-----------------------------------------------------------------------------
(* SequenceUnderLock, in a system without faults and changes *)

\* What the proofs about undisturbed systems start from.
LEMMA CalmTypes ==
    ASSUME Inv1
    PROVE  /\ Nil \notin Objects /\ Nil \notin SessionIds
           /\ Kind \in [Objects -> Kinds]
           /\ "MountPoint" \in Kinds /\ "MountPoint" \notin OpKinds
           /\ \A m \in MountPoints : m \in Objects /\ m \notin Ops /\ Kind[m] = "MountPoint"
           /\ \A o \in Ops : o \in Objects /\ o \notin MountPoints /\ Kind[o] \in OpKinds
                             /\ MountOf[o] \in MountPoints /\ StoreOf[o] \in Stores
           /\ \A k \in OpKinds : k \in Kinds
           /\ obj \in [Objects -> Resource] /\ cache \in [Objects -> Resource]
           /\ watch \in [Objects -> {"synced", "status", "event"}]
           /\ task \in [Kinds -> Task]
           /\ sessions \in [MountPoints -> SessionIds \cup {Nil}]
           /\ open \subseteq SessionIds
           /\ lockOwner \in [MountPoints -> [Stores -> SessionIds \cup {Nil}]]
           /\ reported \subseteq Ops /\ sent \subseteq Ops
<1>1. /\ Nil \notin Objects /\ Nil \notin SessionIds
      /\ Kind \in [Objects -> Kinds]
      /\ "MountPoint" \in Kinds /\ "MountPoint" \notin OpKinds
      /\ \A k \in OpKinds : k \in Kinds
  BY ServerAssumption, ControlPlaneAssumption DEF Objects, Kinds, OpKinds
<1>2. \A m \in MountPoints : m \in Objects /\ m \notin Ops /\ Kind[m] = "MountPoint"
  BY ControlPlaneAssumption DEF Objects
<1>3. \A o \in Ops : o \in Objects /\ o \notin MountPoints /\ Kind[o] \in OpKinds
                     /\ MountOf[o] \in MountPoints /\ StoreOf[o] \in Stores
  BY ControlPlaneAssumption, CommonAssumption DEF Objects, Kinds
<1> QED
  BY <1>1, <1>2, <1>3
     DEF Inv1, TypeOK, ServerTypeOK, ControlPlaneTypeOK, CommonTypeOK

\* No resource that exists is announced or queued but by the end of its own
\* reconcile, and none disappears.
TokensKept ==
    \A p \in Objects :
        /\ Pending(p)' => Pending(p) \/ obj[p].phase = "absent"
        /\ obj'[p].phase = "absent" => obj[p].phase = "absent"

Calmer == NothingDeleted' /\ OneToken' /\ TokensKept

\* A user creates o.
LEMMA CalmCreate ==
    ASSUME Inv1, NothingDeleted, OneToken, NEW o \in Objects, Create(o)
    PROVE  Calmer
<1> USE CalmTypes
<1>1. /\ obj' = [obj EXCEPT ![o] = New] /\ New.phase = "live"
      /\ watch' = [watch EXCEPT ![o] = "event"]
      /\ UNCHANGED <<cache, queue, task>> /\ obj[o].phase = "absent"
  BY DEF Create, New, Fired
<1>2. ~Pending(o)
  BY <1>1 DEF OneToken
<1>3. NothingDeleted'
  BY <1>1 DEF NothingDeleted
<1>4. OneToken'
  BY <1>1, <1>2 DEF OneToken, Pending
<1>5. TokensKept
  BY <1>1 DEF TokensKept, Pending
<1> QED BY <1>3, <1>4, <1>5 DEF Calmer

\* The informer delivers o.
LEMMA CalmSync ==
    ASSUME Inv1, NothingDeleted, OneToken, NEW o \in Objects, CacheSync(o)
    PROVE  Calmer
<1> USE CalmTypes
<1>1. /\ cache' = [cache EXCEPT ![o] = obj[o]] /\ watch' = [watch EXCEPT ![o] = "synced"]
      /\ queue' = IF watch[o] = "event" THEN queue \cup {o} ELSE queue
      /\ UNCHANGED <<obj, task>>
  BY DEF CacheSync
<1>3. NothingDeleted'
  BY <1>1 DEF NothingDeleted
<1>4. \A p \in Objects : Pending(p)' => Pending(p)
  BY <1>1 DEF Pending
<1>5. OneToken'
  BY <1>1, <1>4 DEF OneToken, Pending
<1> QED BY <1>1, <1>3, <1>4, <1>5 DEF Calmer, TokensKept

\* A worker takes o from the queue.
LEMMA CalmBegin ==
    ASSUME Inv1, NothingDeleted, OneToken, NEW o \in Objects, Dequeue(o), UNCHANGED apiVars,
           NEW u, task' = [task EXCEPT ![Kind[o]] = u],
           u.obj \in {o, Nil}, u.instance.phase # "deleting"
    PROVE  Calmer
<1> USE CalmTypes
<1>1. /\ queue' = queue \ {o} /\ o \in queue /\ UNCHANGED <<obj, cache, watch>>
      /\ task[Kind[o]].obj = Nil
  BY DEF Dequeue, apiVars, Inv1, TaskShape
<1>2. \A p \in Objects : task'[Kind[p]].obj \in {task[Kind[p]].obj, o, Nil}
  OBVIOUS
<1>3. NothingDeleted'
  BY <1>1 DEF NothingDeleted
<1>4. \A p \in Objects : Pending(p)' => Pending(p)
  BY <1>1, <1>2 DEF Pending
<1>5. OneToken'
  BY <1>1, <1>2, <1>4 DEF OneToken, Pending
<1> QED BY <1>1, <1>3, <1>4, <1>5 DEF Calmer, TokensKept

\* A worker goes on with o.
LEMMA CalmAdvance ==
    ASSUME Inv1, NothingDeleted, OneToken, NEW o \in Objects, UNCHANGED apiVars, UNCHANGED queue,
           NEW u, task' = [task EXCEPT ![Kind[o]] = u], task[Kind[o]].obj = o,
           u.obj = o, u.instance.phase = task[Kind[o]].instance.phase
    PROVE  Calmer
<1> USE CalmTypes
<1>1. UNCHANGED <<obj, cache, watch, queue>>
  BY DEF apiVars
<1>2. \A p \in Objects : task'[Kind[p]].obj = task[Kind[p]].obj
  OBVIOUS
<1>3. NothingDeleted'
  BY <1>1 DEF NothingDeleted
<1>4. \A p \in Objects : Pending(p)' <=> Pending(p)
  BY <1>1, <1>2 DEF Pending
<1>5. OneToken'
  BY <1>1, <1>2, <1>4 DEF OneToken
<1> QED BY <1>1, <1>3, <1>4, <1>5 DEF Calmer, TokensKept

\* A worker is done with o: it is not queued, queued again, or announced.
LEMMA CalmEnd ==
    ASSUME Inv1, NothingDeleted, OneToken, NEW o \in Objects, EndTask(o), task[Kind[o]].obj = o,
           UNCHANGED cache, \A p \in Objects : obj'[p].phase = obj[p].phase,
           \/ queue' \in {queue, queue \cup {o}} /\ watch' \in {watch, Silent(o)}
           \/ queue' = queue /\ watch' = Fired(o)
    PROVE  Calmer
<1> USE CalmTypes
<1>1. task' = [task EXCEPT ![Kind[o]] = Idle]
  BY DEF EndTask
<1>2. \A p \in Objects : task'[Kind[p]].obj \in {task[Kind[p]].obj, Nil}
  BY <1>1, TaskFacts
<1>3. Idle.instance.phase # "deleting" /\ task'[Kind[o]].obj = Nil
  BY <1>1, TaskFacts DEF Idle, Absent
<1>4. NothingDeleted'
  BY <1>1, <1>3 DEF NothingDeleted
<1>5. Pending(o) /\ o \notin queue /\ watch[o] # "event"
  BY DEF OneToken, Pending
<1>6. /\ \A p \in Objects : p # o => (p \in queue' <=> p \in queue) /\ watch'[p] = watch[p]
      /\ watch'[o] = "event" => o \notin queue'
  BY <1>5 DEF Silent, Fired
<1>7. \A p \in Objects : Pending(p)' => Pending(p)
  BY <1>2, <1>5, <1>6 DEF Pending
<1>8. OneToken'
  <2> SUFFICES ASSUME NEW p \in Objects
               PROVE  /\ watch'[p] = "event" => p \notin queue' /\ task'[Kind[p]].obj # p
                      /\ p \in queue' => task'[Kind[p]].obj # p
                      /\ obj'[p].phase = "absent" => ~Pending(p)'
    BY DEF OneToken
  <2>1. CASE p = o
    BY <1>3, <1>5, <1>6, <2>1 DEF OneToken
  <2>2. CASE p # o
    BY <1>2, <1>6, <1>7, <2>2 DEF OneToken
  <2> QED BY <2>1, <2>2
<1> QED BY <1>4, <1>7, <1>8 DEF Calmer, TokensKept

\* A step that keeps the worker of the MountPoints where it is.
LEMMA CalmSessions ==
    ASSUME Inv1, Inv2, SessionsStay, TokensKept, UNCHANGED <<open, orphans, sessions>>,
           task'["MountPoint"] = task["MountPoint"],
           \A k \in Kinds : task'[k].session \in {Nil, task[k].session} \cup open,
           \A m \in MountPoints : m \in queue' =>
               watch'[m] = "synced" \/ (m \in queue /\ watch'[m] = watch[m])
    PROVE  SessionsStay'
<1> USE CalmTypes
<1>1. \A k \in Kinds : task'[k].session \in open' \cup {Nil}
  BY DEF SessionsStay
<1>2. ASSUME NEW m \in MountPoints
      PROVE  /\ sessions'[m] \in open' \cup {Nil}
             /\ m \in queue' => watch'[m] = "synced" \/ Exhausted'
             /\ sessions'[m] # Nil /\ Pending(m)' =>
                  LET t == task'["MountPoint"] IN
                  t.obj = m /\ t.pc = "write" /\ t.fresh /\ ~t.err
  <2>1. m \in queue' => watch'[m] = "synced" \/ Exhausted'
    BY DEF SessionsStay, Exhausted
  <2>2. sessions[m] # Nil /\ Pending(m)' => Pending(m)
    BY DEF TokensKept, Inv2, SessionHasFinalizer
  <2> QED BY <2>1, <2>2 DEF SessionsStay
<1> QED BY <1>1, <1>2 DEF SessionsStay, Exhausted

\* A step of others than the operation controllers.
LEMMA CalmWork ==
    ASSUME Inv1, AtWork, \A k \in OpKinds : task'[k] = task[k],
           \A m \in MountPoints : sessions[m] # Nil => sessions'[m] = sessions[m]
    PROVE  AtWork'
<1> SUFFICES ASSUME NEW k \in OpKinds PROVE Working(k, task[k])'
  BY DEF AtWork
<1>1. task[k].pc # "idle" => MountOf[task[k].obj] \in MountPoints
  BY CalmTypes, ControlPlaneAssumption, CommonAssumption DEF Inv1, TaskShape, Task, Objects, OpKinds
<1> QED BY <1>1 DEF AtWork, Working

\* A step that reports nothing.
LEMMA CalmDone ==
    ASSUME Inv1, DoneIsDone, TokensKept, UNCHANGED reported,
           \/ UNCHANGED history
           \/ \E o : /\ sent' = sent \cup {o}
                     /\ accepted' \subseteq accepted \cup {o}
                     /\ rejected' \subseteq rejected \cup {o}
    PROVE  DoneIsDone'
<1>1. \A o \in reported : o \in Objects
  BY CalmTypes
<1>2. \A o \in reported' : ~Pending(o)' /\ obj'[o].phase # "absent"
  BY <1>1 DEF DoneIsDone, TokensKept
<1>3. (accepted \cup rejected)' \subseteq sent'
  BY DEF DoneIsDone, history
<1> QED BY <1>2, <1>3 DEF DoneIsDone

\* A step that takes and releases no lock.
LEMMA CalmLock ==
    ASSUME Inv1, LockHeld, UNCHANGED <<lockOwner, reported>>,
           \A m \in MountPoints : sessions[m] # Nil => sessions'[m] = sessions[m],
           LET t == task'["Lock"] IN
           t = task["Lock"] \/ ~(t.pc = "write" /\ t.instance.status = "success")
    PROVE  LockHeld'
<1> SUFFICES ASSUME NEW o \in Ops \ reported, UnderLock(o), LockTaken(o)'
             PROVE  /\ sessions'[MountOf[o]] # Nil
                    /\ lockOwner[MountOf[o]][StoreOf[o]] = sessions'[MountOf[o]]
  BY DEF LockHeld
<1>1. LockTaken(o)
  BY DEF LockTaken
<1> QED BY <1>1, CalmTypes DEF LockHeld

\* Users and informers.
LEMMA CalmControlPlane ==
    ASSUME Undisturbed, Inv1, Inv2, Calm, NEW o \in Objects, User(o) \/ Informer(o)
    PROVE  Calm'
<1> USE CalmTypes DEF Calm
<1>1. ~UserChange
  BY DEF Undisturbed, UserChange, Inv1, TypeOK, ControlPlaneTypeOK
<1>2. Create(o) \/ CacheSync(o)
  BY <1>1 DEF User, Informer, Delete, Edit, Collect, NothingDeleted
<1>3. UNCHANGED <<task, open, orphans, lockOwner, sessions, history>>
  BY <1>2 DEF User, Informer, Create, CacheSync, serverVars, Delete, Edit, Collect
<1>4. Calmer
  BY <1>2, CalmCreate, CalmSync
<1>5. \A m \in MountPoints : m \in queue' =>
          watch'[m] = "synced" \/ (m \in queue /\ watch'[m] = watch[m])
  <2>1. CASE Create(o)
    <3>1. o \notin queue /\ queue' = queue /\ watch' = [watch EXCEPT ![o] = "event"]
      BY <2>1 DEF Create, OneToken, Pending, Fired
    <3> QED BY <3>1
  <2>2. CASE CacheSync(o)
    BY <2>2 DEF CacheSync
  <2> QED BY <1>2, <2>1, <2>2
<1>6. SessionsStay'
  BY <1>3, <1>4, <1>5, CalmSessions DEF Calmer
<1>7. AtWork' /\ LockHeld'
  BY <1>3, CalmWork, CalmLock DEF history
<1>8. DoneIsDone'
  BY <1>3, <1>4, CalmDone DEF Calmer, history
<1> QED BY <1>4, <1>6, <1>7, <1>8 DEF Calmer

\* The MountPoint controller, but for its dial.
LEMMA CalmMountPoint ==
    ASSUME Undisturbed, Inv1, Inv2, Calm, NEW m \in MountPoints,
           \/ MountPointReconcile(m) \/ MountPointInitialize(m) \/ MountPointReport(m)
    PROVE  Calm'
<1> DEFINE t == task["MountPoint"]
<1> USE CalmTypes DEF Calm
<1>1. /\ UNCHANGED <<open, orphans, lockOwner, sessions, history>>
      /\ \A k \in OpKinds : task'[k] = task[k]
  BY DEF MountPointReconcile, MountPointInitialize, MountPointReport, WriteStatus, EndTask,
         serverVars
<1>2. AtWork' /\ LockHeld'
  <2>1. "Lock" \in OpKinds
    BY DEF OpKinds
  <2> QED BY <1>1, <2>1, CalmWork, CalmLock DEF history
<1>3. CASE MountPointReconcile(m)
  <2> DEFINE u == IF cache[m].phase = "absent" THEN Idle
                  ELSE IF ~cache[m].finalizer THEN Reconciling(m, "init")
                  ELSE IF cache[m].phase = "deleting" THEN Reconciling(m, "closing")
                  ELSE Reconciling(m, "dial")
  <2>1. /\ task' = [task EXCEPT !["MountPoint"] = u]
        /\ UNCHANGED apiVars /\ Dequeue(m)
    BY <1>3 DEF MountPointReconcile
  <2>2. /\ u.obj \in {m, Nil} /\ u.session = Nil
        /\ u.pc # "idle" => ~u.err /\ (u.fresh <=> watch[m] = "synced")
    BY TaskFacts DEF PCs
  <2>3. u.instance.phase # "deleting"
    BY TaskFacts DEF PCs, NothingDeleted, Idle, Absent
  <2> HIDE DEF u
  <2>4. Calmer
    BY <2>1, <2>2, <2>3, CalmBegin
  <2>5. /\ t.obj = Nil /\ m \in queue /\ queue' = queue \ {m} /\ watch' = watch
        /\ task'["MountPoint"] = u
    BY <2>1 DEF Dequeue, Inv1, TaskShape, apiVars
  <2>6. \A p \in MountPoints : sessions[p] # Nil => ~Pending(p)'
    BY <2>4, <2>5 DEF SessionsStay, Calmer, TokensKept, Inv2, SessionHasFinalizer
  <2>7. SessionsStay'
    <3>1. \A k \in Kinds : task'[k].session \in open' \cup {Nil}
      BY <1>1, <2>1, <2>2 DEF SessionsStay
    <3>2. u.pc # "idle" => (u.fresh /\ ~u.err) \/ Exhausted'
      BY <1>1, <2>2, <2>5 DEF SessionsStay, Exhausted
    <3> QED BY <1>1, <2>5, <2>6, <3>1, <3>2 DEF SessionsStay, Exhausted
  <2> QED BY <1>1, <1>2, <2>4, <2>7, CalmDone DEF Calmer, history
<1>4. CASE MountPointInitialize(m) \/ MountPointReport(m)
  <2>1. /\ t.obj = m /\ t.pc # "idle" /\ EndTask(m) /\ UNCHANGED cache
        /\ \A p \in Objects : p # m => watch'[p] = watch[p]
        /\ queue' \subseteq queue \cup {m}
        /\ m \in queue' => m \in queue \/ ~t.fresh \/ t.err
    BY <1>4 DEF MountPointInitialize, MountPointReport, WriteStatus, At, Fired, Silent
  <2>2. \A p \in Objects : obj'[p].phase = obj[p].phase
    <3>1. m \in Objects
      OBVIOUS
    <3>2. CASE obj' = obj
      BY <3>2
    <3>3. ASSUME NEW st, obj' = [obj EXCEPT ![m].status = st] PROVE \A p \in Objects : obj'[p].phase = obj[p].phase
      BY <3>3, <3>1 DEF Resource
    <3>4. CASE obj' = [obj EXCEPT ![m].finalizer = TRUE]
      BY <3>4, <3>1 DEF Resource
    <3> QED BY <1>4, <3>2, <3>3, <3>4 DEF MountPointInitialize, MountPointReport, WriteStatus
  <2>3. \/ queue' \in {queue, queue \cup {m}} /\ watch' \in {watch, Silent(m)}
        \/ queue' = queue /\ watch' = Fired(m)
    BY <1>4 DEF MountPointInitialize, MountPointReport, WriteStatus
  <2>4. Calmer
    BY <2>1, <2>2, <2>3, CalmEnd
  <2>5. task' = [task EXCEPT !["MountPoint"] = Idle]
    BY <2>1 DEF EndTask
  <2>6. m \notin queue /\ watch[m] # "event" /\ Pending(m)
    BY <2>1 DEF OneToken, Pending
  <2>7. m \in queue' => Exhausted
    BY <2>1, <2>6 DEF SessionsStay
  <2>8. sessions[m] # Nil => ~Pending(m)'
    <3> SUFFICES ASSUME sessions[m] # Nil PROVE ~Pending(m)'
      OBVIOUS
    <3>1. t.pc = "write" /\ t.fresh /\ ~t.err
      BY <2>6 DEF SessionsStay
    <3>2. queue' = queue /\ watch' = Silent(m)
      BY <1>4, <3>1 DEF MountPointInitialize, MountPointReport, WriteStatus, At
    <3>3. watch'[m] # "event" /\ task'["MountPoint"].obj = Nil
      BY <2>5, <2>6, <3>2, TaskFacts DEF Silent
    <3> QED BY <2>6, <3>2, <3>3 DEF Pending
  <2>9. \A p \in MountPoints : p # m /\ sessions[p] # Nil => ~Pending(p)'
    BY <2>1, <2>4 DEF Calmer, TokensKept, SessionsStay, Inv2, SessionHasFinalizer
  <2>10. SessionsStay'
    <3>1. \A k \in Kinds : task'[k].session \in open' \cup {Nil}
      BY <1>1, <2>5, TaskFacts DEF SessionsStay
    <3>2. task'["MountPoint"].pc = "idle"
      BY <2>5, TaskFacts
    <3>3. \A p \in MountPoints : p \in queue' => watch'[p] = "synced" \/ Exhausted'
      BY <1>1, <2>1, <2>7 DEF SessionsStay, Exhausted
    <3> QED BY <1>1, <2>8, <2>9, <3>1, <3>2, <3>3 DEF SessionsStay
  <2> QED BY <1>1, <1>2, <2>4, <2>10, CalmDone DEF Calmer, history
<1> QED BY <1>3, <1>4

\* The dial: it opens a session for a MountPoint that has none, or there was
\* none to open.
LEMMA CalmDial ==
    ASSUME Undisturbed, Inv1, Inv2, Calm, NEW m \in MountPoints, MountPointDial(m)
    PROVE  Calm'
<1> DEFINE t == task["MountPoint"]
<1> USE CalmTypes DEF Calm
<1>1. \A f : ~Fault(f)
  BY DEF Undisturbed, Fault
<1>2. t \in Task /\ t.obj = m /\ t.pc = "dial" /\ Pending(m) /\ sessions[m] = Nil
  <2>1. t \in Task /\ t.obj = m /\ t.pc = "dial"
    BY DEF MountPointDial, At
  <2>2. Pending(m)
    BY <2>1 DEF Pending
  <2> QED BY <2>1, <2>2 DEF SessionsStay
<1>3. ASSUME NEW st \in {"failed", "connected"}, NEW e \in BOOLEAN,
             task' = [task EXCEPT !["MountPoint"] = Dialled(@, st, e)],
             UNCHANGED <<apiVars, queue, orphans, lockOwner, history>>,
             open \subseteq open',
             \/ sessions' = sessions /\ e /\ Exhausted
             \/ \E s \in open' : sessions' = [sessions EXCEPT ![m] = s] /\ ~e /\ ~Exhausted
      PROVE  Calm'
  <2> DEFINE u == Dialled(t, st, e)
  <2>1. /\ task' = [task EXCEPT !["MountPoint"] = u]
        /\ u.obj = m /\ u.fresh = t.fresh /\ u.session = t.session
        /\ u.pc = "write" /\ u.err = e /\ u.instance.phase = t.instance.phase
    <3>1. st \in Statuses
      BY DEF Statuses
    <3> QED BY <1>2, <1>3, <3>1, DialledFacts
  <2> HIDE DEF u
  <2>2. Calmer
    <3>1. /\ m \in Objects /\ Kind[m] = "MountPoint"
          /\ UNCHANGED apiVars /\ UNCHANGED queue
      BY <1>3
    <3>2. task' = [task EXCEPT ![Kind[m]] = u] /\ task[Kind[m]].obj = m
          /\ u.instance.phase = task[Kind[m]].instance.phase
      BY <1>2, <2>1, <3>1
    <3> QED BY <2>1, <3>1, <3>2, CalmAdvance
  <2>3. \A k \in OpKinds : task'[k] = task[k]
    BY <2>1
  <2>4. \A p \in MountPoints : p # m => sessions'[p] = sessions[p]
    BY <1>3
  <2>5. AtWork' /\ LockHeld'
    <3>1. "Lock" \in OpKinds
      BY DEF OpKinds
    <3> QED BY <1>2, <1>3, <2>3, <2>4, <3>1, CalmWork, CalmLock DEF history
  <2>6. \A p \in MountPoints : p # m /\ sessions[p] # Nil => ~Pending(p)'
    BY <1>2, <2>2 DEF Calmer, TokensKept, SessionsStay, Inv2, SessionHasFinalizer
  <2>7. Exhausted => Exhausted'
    BY <1>3 DEF Exhausted
  <2>8. SessionsStay'
    <3>1. \A k \in Kinds : task'[k].session \in open' \cup {Nil}
      BY <1>3, <2>1 DEF SessionsStay
    <3>2. sessions'[m] # Nil => u.fresh /\ ~u.err
      BY <1>2, <1>3, <2>1 DEF SessionsStay
    <3>3. \A p \in MountPoints : sessions'[p] \in open' \cup {Nil}
      BY <1>3 DEF SessionsStay
    <3>4. \A p \in MountPoints : p \in queue' => watch'[p] = "synced" \/ Exhausted'
      BY <1>3, <2>7 DEF SessionsStay, apiVars
    <3>5. (u.fresh /\ ~u.err) \/ Exhausted'
      BY <1>2, <1>3, <2>1, <2>7 DEF SessionsStay
    <3>6. orphans' = {} /\ task'["MountPoint"] = u
      BY <1>3, <2>1 DEF SessionsStay
    <3> QED BY <2>1, <2>4, <2>6, <3>1, <3>2, <3>3, <3>4, <3>5, <3>6 DEF SessionsStay
  <2>9. DoneIsDone'
    BY <1>3, <2>2, CalmDone DEF Calmer, history
  <2> QED BY <2>2, <2>5, <2>8, <2>9 DEF Calmer
<1>4. CASE /\ \A s \in SessionIds : ~Unused(s)
           /\ task' = [task EXCEPT !["MountPoint"] = Dialled(@, "failed", TRUE)]
           /\ UNCHANGED <<apiVars, queue, sessions, open, orphans>>
  <2>1. Exhausted
    BY <1>4 DEF Exhausted, Unused, SessionsStay
  <2>2. UNCHANGED <<lockOwner, history>>
    BY DEF MountPointDial
  <2> QED BY <1>3, <1>4, <2>1, <2>2
<1>5. ASSUME NEW s \in SessionIds, Unused(s), open' = open \cup {s},
             sessions' = [sessions EXCEPT ![m] = s],
             task' = [task EXCEPT !["MountPoint"] = Dialled(@, "connected", FALSE)],
             UNCHANGED <<apiVars, queue, orphans, faults>>
      PROVE  Calm'
  <2>1. ~Exhausted /\ s \in open' /\ open \subseteq open'
    BY <1>5 DEF Exhausted, Unused
  <2>2. UNCHANGED <<lockOwner, history>>
    BY DEF MountPointDial
  <2> QED BY <1>3, <1>5, <2>1, <2>2
<1> QED BY <1>1, <1>4, <1>5 DEF MountPointDial

\* An operation that is reported has its dependency reported, and so on.
LEMMA ReportedClosed ==
    ASSUME Inv1, Inv3, DoneIsDone
    PROVE  \A p \in reported : DependsOn[p] # Nil => DependsOn[p] \in reported
<1> SUFFICES ASSUME NEW p \in reported, DependsOn[p] # Nil PROVE DependsOn[p] \in reported
  OBVIOUS
<1>1. p \in Ops /\ Backed(p, "success")
  BY CalmTypes DEF Inv3, DependencyReported
<1>2. p \in sent
  BY <1>1 DEF Backed, BackedBy, DoneIsDone
<1> QED BY <1>1, <1>2 DEF Inv3, DependencyReported

\* A worker of an operation begins or goes on: what it leaves alone.
LEMMA CalmTask ==
    ASSUME Inv1, Inv2, Calm, Calmer, NEW o \in Ops, NEW u, task' = [task EXCEPT ![Kind[o]] = u],
           UNCHANGED <<watch, open, orphans, sessions>>, queue' \subseteq queue,
           u.session \in {Nil, sessions[MountOf[o]], task[Kind[o]].session},
           Working(Kind[o], u)
    PROVE  SessionsStay' /\ AtWork'
<1> USE CalmTypes DEF Calm
<1>1. Kind[o] \in OpKinds /\ task'["MountPoint"] = task["MountPoint"]
  OBVIOUS
<1>2. \A k \in Kinds : task'[k].session \in {Nil, task[k].session} \cup open
  BY <1>1 DEF SessionsStay
<1>3. SessionsStay'
  BY <1>1, <1>2, CalmSessions DEF Calmer
<1>4. ASSUME NEW k \in OpKinds PROVE Working(k, task[k])'
  <2>1. Working(k, task'[k])
    BY <1>1 DEF AtWork
  <2> QED BY <2>1 DEF Working
<1> QED BY <1>3, <1>4 DEF AtWork

\* The controllers of the operations, up to the replies.
LEMMA CalmOperation ==
    ASSUME Inv1, Inv2, Inv3, Calm, NEW o \in Ops,
           \/ \E valid \in BOOLEAN, pc \in {"depend", "lookup"} :
                Reconcile(o, valid, pc) /\ (valid => CheckMountPointExists(MountOf[o]))
           \/ CheckDependency(o)
           \/ \E rpcs \in SUBSET Rpcs :
                /\ LookupSession(o, rpcs)
                /\ Kind[o] = "Lock" => rpcs = {"lock"}
                /\ "unlock" \in rpcs => MayUnlock(o)
    PROVE  Calm'
<1> DEFINE k == Kind[o]
           t == task[Kind[o]]
<1> USE CalmTypes DEF Calm
<1>1. o \in Objects /\ k \in OpKinds /\ k \in Kinds /\ t \in Task /\ MountOf[o] \in MountPoints
  OBVIOUS
<1>2. ASSUME NEW u, task' = [task EXCEPT ![k] = u], Calmer,
             UNCHANGED <<watch, serverVars, sessions, history>>, queue' \subseteq queue,
             u.session \in {Nil, sessions[MountOf[o]], t.session},
             Working(k, u), ~(u.pc = "write" /\ u.instance.status = "success")
      PROVE  Calm'
  <2>1. SessionsStay' /\ AtWork'
    BY <1>2, CalmTask DEF serverVars
  <2>2. DoneIsDone'
    BY <1>2, CalmDone DEF Calmer, history
  <2>3. LockHeld'
    <3>1. task'["Lock"] \in {task["Lock"], u}
      BY <1>1, <1>2 DEF OpKinds
    <3> QED BY <1>2, <3>1, CalmLock DEF serverVars, history
  <2> QED BY <1>2, <2>1, <2>2, <2>3 DEF Calmer
<1>3. ASSUME NEW valid \in BOOLEAN, NEW pc \in {"depend", "lookup"}, Reconcile(o, valid, pc),
             valid => CheckMountPointExists(MountOf[o])
      PROVE  Calm'
  <2> DEFINE u == IF cache[o].phase = "absent" THEN Idle
                  ELSE IF ~valid THEN Failing(o)
                  ELSE IF cache[o].phase = "deleting" THEN Idle
                  ELSE Reconciling(o, pc)
  <2>1. /\ task' = [task EXCEPT ![k] = u] /\ UNCHANGED apiVars /\ Dequeue(o)
        /\ UNCHANGED <<serverVars, sessions, history>>
    BY <1>3 DEF Reconcile
  <2>2. cache[o].status # "success"
    <3>1. Pending(o)
      BY <2>1 DEF Dequeue, Pending
    <3> QED BY <3>1 DEF DoneIsDone, Inv3, DependencyReported
  <2>3. \/ u = Idle
        \/ u = Failing(o)
        \/ u = Reconciling(o, pc) /\ sessions[MountOf[o]] # Nil
    BY <1>3 DEF CheckMountPointExists
  <2>4. u.obj \in {o, Nil} /\ u.session = Nil /\ u.instance.phase # "deleting"
    BY <1>1, <2>3, TaskFacts DEF PCs, NothingDeleted, Idle, Absent
  <2>5. Working(k, u) /\ ~(u.pc = "write" /\ u.instance.status = "success")
    <3>1. CASE u = Idle
      BY <3>1, TaskFacts DEF Working
    <3>2. CASE u = Failing(o)
      BY <1>1, <2>2, <3>2, TaskFacts DEF Working
    <3>3. CASE u = Reconciling(o, pc) /\ sessions[MountOf[o]] # Nil
      BY <1>1, <2>2, <3>3, TaskFacts DEF Working, PCs
    <3> QED BY <2>3, <3>1, <3>2, <3>3
  <2> HIDE DEF u
  <2>6. Calmer
    BY <1>1, <2>1, <2>4, CalmBegin
  <2> QED BY <1>2, <2>1, <2>4, <2>5, <2>6 DEF apiVars, Dequeue
<1>4. ASSUME NEW u, task' = [task EXCEPT ![k] = u], t.obj = o, u.obj = o,
             u.instance = t.instance, u.pc # "write" \/ t.instance.status # "success",
             u.session \in {sessions[MountOf[o]], t.session}, Working(k, u),
             UNCHANGED <<apiVars, queue, serverVars, sessions, history>>
      PROVE  Calm'
  <2>1. Calmer
    <3>1. UNCHANGED apiVars /\ UNCHANGED queue
      BY <1>4
    <3> QED BY <1>1, <1>4, <3>1, CalmAdvance
  <2>2. UNCHANGED <<watch, serverVars, sessions, history>> /\ queue' \subseteq queue
    BY <1>4 DEF apiVars
  <2> QED BY <1>2, <1>4, <2>1, <2>2
<1>5. CASE CheckDependency(o)
  <2>1. PICK u : /\ task' = [task EXCEPT ![k] = u]
                 /\ \/ u = [t EXCEPT !.pc = "lookup"]
                    \/ u = [t EXCEPT !.pc = "write", !.err = TRUE]
    BY <1>5 DEF CheckDependency
  <2>2. /\ u.obj = t.obj /\ u.instance = t.instance /\ u.session = t.session
        /\ (u.pc = "lookup" /\ u.err = t.err) \/ u.pc = "write"
    <3>1. CASE u = [t EXCEPT !.pc = "lookup"]
      BY <1>1, <3>1 DEF Task
    <3>2. CASE u = [t EXCEPT !.pc = "write", !.err = TRUE]
      BY <1>1, <3>2 DEF Task
    <3> QED BY <2>1, <3>1, <3>2
  <2>3. t.obj = o /\ t.pc = "depend" /\ Working(k, t)
    BY <1>1, <1>5 DEF CheckDependency, At, AtWork
  <2>4. t.instance.status # "success" /\ Working(k, u)
    BY <2>2, <2>3 DEF Working
  <2>5. UNCHANGED <<apiVars, queue, serverVars, sessions, history>>
    BY <1>5 DEF CheckDependency
  <2> QED BY <1>4, <2>1, <2>2, <2>3, <2>4, <2>5
<1>6. ASSUME NEW rpcs \in SUBSET Rpcs, LookupSession(o, rpcs),
             k = "Lock" => rpcs = {"lock"}, "unlock" \in rpcs => MayUnlock(o)
      PROVE  Calm'
  <2> DEFINE u == [t EXCEPT !.pc = "rpc", !.session = sessions[MountOf[o]], !.todo = rpcs]
  <2>1. t.obj = o /\ t.pc = "lookup" /\ Working(k, t)
    BY <1>1, <1>6 DEF LookupSession, At, AtWork
  <2>2. sessions[MountOf[o]] # Nil
    BY <2>1 DEF Working
  <2>3. /\ task' = [task EXCEPT ![k] = u]
        /\ UNCHANGED <<apiVars, queue, serverVars, sessions, history>>
    BY <1>6, <2>2 DEF LookupSession, serverVars
  <2>4. /\ u.obj = t.obj /\ u.instance = t.instance /\ u.session = sessions[MountOf[o]]
        /\ u.pc = "rpc" /\ u.err = t.err /\ u.todo = rpcs
    BY <1>1 DEF Task
  <2> HIDE DEF u
  <2>5. Working(k, u)
    BY <1>6, <2>1, <2>2, <2>4 DEF Working
  <2> QED BY <1>4, <2>1, <2>3, <2>4, <2>5
<1> QED BY <1>3, <1>5, <1>6

\* The replies.  Nobody but a Lock takes the lock of an EditConfig's datastore
\* away from Nil, and nobody unlocks it before the EditConfig is reported.
LEMMA CalmReply ==
    ASSUME UnlockedLast, Inv1, Inv2, Inv3, Calm, NEW p \in Ops,
           NEW r \in Rpcs, NEW ok \in BOOLEAN, NEW st \in {"success", "failed"},
           Replied(p, r, ok, st),
           Kind[p] # "EditConfig" => st = IF ok THEN "success" ELSE "failed"
    PROVE  Calm'
<1> DEFINE k == Kind[p]
           t == task[Kind[p]]
           u == AfterReply(t, r, ok, st)
<1> USE CalmTypes DEF Calm
<1>1. /\ p \in Objects /\ k \in OpKinds /\ k \in Kinds /\ t \in Task /\ MountOf[p] \in MountPoints
      /\ StoreOf[p] \in Stores
  OBVIOUS
<1>2. /\ t.obj = p /\ t.pc = "rpc" /\ r \in t.todo /\ task' = [task EXCEPT ![k] = u]
      /\ UNCHANGED <<apiVars, queue, open, orphans, sessions, reported>>
  BY DEF Replied, Asking, At
<1>3. /\ u.obj = t.obj /\ u.fresh = t.fresh /\ u.err = t.err /\ u.session = t.session
      /\ u.pc = IF t.todo = {r} THEN "write" ELSE t.pc
      /\ u.instance.phase = t.instance.phase
      /\ u.instance.status = IF t.todo = {r} THEN st ELSE t.instance.status
  BY <1>1, AfterReplyFacts DEF Statuses
<1>4. u.pc = "rpc" => u.todo = t.todo \ {r}
  <2> SUFFICES ASSUME t.todo # {r} PROVE u.todo = t.todo \ {r}
    BY <1>3
  <2> DEFINE b == t.ok /\ ok
             v == [t EXCEPT !.todo = @ \ {r}, !.ok = b]
  <2>1. u = v
    BY DEF AfterReply
  <2> HIDE DEF b
  <2>2. v.todo = t.todo \ {r}
    BY <1>1 DEF Task
  <2> QED BY <2>1, <2>2
<1> HIDE DEF u
<1>5. /\ Working(k, t) /\ sessions[MountOf[p]] # Nil /\ t.session = sessions[MountOf[p]]
      /\ k = "Lock" => t.todo = {"lock"} /\ r = "lock"
      /\ r = "unlock" => MayUnlock(p)
      /\ ~t.err /\ t.instance.status # "success"
  BY <1>1, <1>2 DEF AtWork, Working
<1>6. Working(k, u)
  BY <1>2, <1>3, <1>4, <1>5 DEF Working
<1>7. Calmer
  <2>1. UNCHANGED apiVars /\ UNCHANGED queue
    BY <1>2
  <2>2. /\ u.obj = p /\ task[Kind[p]].obj = p /\ task' = [task EXCEPT ![Kind[p]] = u]
        /\ u.instance.phase = task[Kind[p]].instance.phase
    BY <1>2, <1>3
  <2>3. NothingDeleted /\ OneToken
    OBVIOUS
  <2> HIDE DEF Calm
  <2> QED BY <1>1, <2>1, <2>2, <2>3, CalmAdvance
<1>8. SessionsStay' /\ AtWork'
  <2>1. UNCHANGED <<watch, open, orphans, sessions>> /\ queue' \subseteq queue
    BY <1>2 DEF apiVars
  <2> QED BY <1>2, <1>3, <1>6, <1>7, <2>1, CalmTask
<1>9. DoneIsDone'
  <2>1. /\ sent' = sent \cup {p}
        /\ accepted' \subseteq accepted \cup {p}
        /\ rejected' \subseteq rejected \cup {p}
    BY DEF Replied
  <2> QED BY <1>2, <1>7, <2>1, CalmDone DEF Calmer
<1>10. LockHeld'
  <2> SUFFICES ASSUME NEW o \in Ops \ reported, UnderLock(o), LockTaken(o)'
               PROVE  /\ sessions[MountOf[o]] # Nil
                      /\ lockOwner'[MountOf[o]][StoreOf[o]] = sessions[MountOf[o]]
    BY <1>2 DEF LockHeld
  <2> DEFINE m == MountOf[o]
             d == StoreOf[o]
  <2>1. /\ m \in MountPoints /\ d \in Stores
        /\ Kind[DependsOn[o]] = "Lock" /\ MountOf[DependsOn[o]] = m /\ StoreOf[DependsOn[o]] = d
    BY DEF UnderLock
  <2>2. p \notin reported
    <3>1. Pending(p)
      BY <1>2 DEF Pending
    <3> QED BY <3>1 DEF DoneIsDone
  <2>3. CASE p = DependsOn[o]
    <3>1. k = "Lock" /\ r = "lock" /\ t.todo = {"lock"}
      BY <1>5, <2>1, <2>3
    <3>2. st = "success"
      BY <1>2, <1>3, <2>2, <2>3, <3>1 DEF LockTaken
    <3>3. ok
      BY <3>1, <3>2
    <3>4. lockOwner' = [lockOwner EXCEPT ![MountOf[p]][StoreOf[p]] = t.session]
      BY <3>1, <3>3 DEF Replied, Executed
    <3> QED BY <1>5, <2>1, <2>3, <3>4
  <2>4. CASE p # DependsOn[o]
    <3>1. LockTaken(o)
      <4>1. task'["Lock"].obj = DependsOn[o] => task'["Lock"] = task["Lock"]
        BY <1>1, <1>2, <1>3, <2>4 DEF OpKinds
      <4> QED BY <1>2, <4>1 DEF LockTaken
    <3>2. sessions[m] # Nil /\ lockOwner[m][d] = sessions[m]
      BY <3>1 DEF LockHeld
    <3>3. CASE lockOwner' = lockOwner
      BY <3>2, <3>3
    <3>4. CASE MountOf[p] # m \/ StoreOf[p] # d
      <4>1. lockOwner'[m][d] = lockOwner[m][d]
        BY <1>1, <2>1, <3>4 DEF Replied, Executed, Rpcs
      <4> QED BY <3>2, <4>1
    <3>5. CASE MountOf[p] = m /\ StoreOf[p] = d /\ lockOwner' # lockOwner
      <4>1. ok /\ r \in {"lock", "unlock"}
        BY <3>5 DEF Replied, Executed, Rpcs
      <4>2. r # "lock"
        BY <3>2, <3>5, <4>1 DEF Replied, Accepts
      <4>3. DependsOn[p] # Nil /\ Precedes(o, p)
        BY <1>5, <3>5, <4>1, <4>2 DEF UnlockedLast
      <4>4. DependsOn[p] \in reported
        BY <1>1, <1>2, <4>3 DEF Inv3, DependencyReported
      <4>5. reported \in SUBSET Ops
        OBVIOUS
      <4>6. o \in reported
        BY <4>3, <4>4, <4>5, ReportedClosed DEF Precedes
      <4> QED BY <4>6
    <3> QED BY <3>3, <3>4, <3>5
  <2> QED BY <2>3, <2>4
<1> QED BY <1>7, <1>8, <1>9, <1>10 DEF Calmer

\* The reports.
LEMMA CalmReport ==
    ASSUME Inv1, Inv2, Inv3, Calm, NEW p \in Ops, Report(p)
    PROVE  Calm'
<1> DEFINE k == Kind[p]
           t == task[Kind[p]]
<1> USE CalmTypes DEF Calm
<1>1. /\ p \in Objects /\ k \in OpKinds /\ k \in Kinds /\ t \in Task
      /\ p \notin MountPoints
  OBVIOUS
<1>2. /\ t.obj = p /\ t.pc = "write" /\ EndTask(p) /\ UNCHANGED cache
      /\ UNCHANGED <<open, orphans, lockOwner, sessions, sent, accepted, rejected>>
      /\ reported' = IF t.fresh /\ t.instance.status = "success"
                     THEN reported \cup {p} ELSE reported
  BY DEF Report, WriteStatus, At, serverVars
<1>3. \A q \in Objects : obj'[q].phase = obj[q].phase
  <2>1. CASE obj' = obj
    BY <2>1
  <2>2. CASE obj' = [obj EXCEPT ![p].status = t.instance.status]
    BY <1>1, <2>2 DEF Resource
  <2> QED BY <2>1, <2>2 DEF Report, WriteStatus
<1>4. queue' \in {queue, queue \cup {p}} /\ watch' \in {watch, Silent(p)}
  BY DEF Report, WriteStatus
<1>5. Calmer
  BY <1>1, <1>2, <1>3, <1>4, CalmEnd
<1>6. task' = [task EXCEPT ![k] = Idle]
  BY <1>2 DEF EndTask
<1>7. SessionsStay'
  <2>1. \A m \in MountPoints : m \in queue' => m \in queue /\ watch'[m] = watch[m]
    BY <1>1, <1>4 DEF Silent
  <2>2. \A j \in Kinds : task'[j].session \in {Nil, task[j].session} \cup open
    BY <1>6, TaskFacts
  <2>3. task'["MountPoint"] = task["MountPoint"]
    BY <1>1, <1>6
  <2> QED BY <1>2, <1>5, <2>1, <2>2, <2>3, CalmSessions DEF Calmer
<1>8. AtWork'
  <2> SUFFICES ASSUME NEW j \in OpKinds PROVE Working(j, task[j])'
    BY DEF AtWork
  <2>1. CASE j = k
    BY <1>6, <2>1, TaskFacts DEF Working
  <2>2. CASE j # k
    BY <1>2, <1>6, <2>2 DEF AtWork, Working
  <2> QED BY <2>1, <2>2
<1>9. DoneIsDone'
  <2>1. Pending(p) /\ p \notin queue /\ watch[p] # "event"
    BY <1>1, <1>2 DEF OneToken, Pending
  <2>2. ASSUME NEW q \in reported PROVE ~Pending(q)' /\ obj'[q].phase # "absent"
    BY <1>3, <1>5 DEF Calmer, TokensKept, DoneIsDone
  <2>3. ASSUME t.fresh, t.instance.status = "success"
        PROVE  ~Pending(p)' /\ obj'[p].phase # "absent"
    <3>1. ~t.err
      BY <1>1, <1>2, <2>3 DEF AtWork, Working
    <3>2. queue' = queue /\ watch' = Silent(p)
      BY <2>3, <3>1 DEF Report, WriteStatus
    <3>3. watch'[p] # "event" /\ task'[k].obj = Nil
      BY <1>1, <1>6, <2>1, <3>2, TaskFacts DEF Silent
    <3>4. ~Pending(p)'
      BY <1>1, <2>1, <3>2, <3>3 DEF Pending
    <3> QED BY <1>1, <1>3, <2>1, <3>4 DEF OneToken
  <2>4. (accepted \cup rejected)' \subseteq sent'
    BY <1>2 DEF DoneIsDone
  <2> QED BY <1>2, <2>2, <2>3, <2>4 DEF DoneIsDone
<1>10. LockHeld'
  <2> SUFFICES ASSUME NEW o \in Ops \ reported', UnderLock(o), LockTaken(o)'
               PROVE  /\ sessions[MountOf[o]] # Nil
                      /\ lockOwner[MountOf[o]][StoreOf[o]] = sessions[MountOf[o]]
    BY <1>2 DEF LockHeld
  <2>1. o \in Ops \ reported
    BY <1>2
  <2>2. LockTaken(o)
    <3>1. CASE DependsOn[o] \in reported
      BY <3>1 DEF LockTaken
    <3>2. CASE DependsOn[o] \in reported' \ reported
      <4>1. DependsOn[o] = p /\ k = "Lock" /\ t.instance.status = "success"
        BY <1>2, <3>2 DEF UnderLock
      <4> QED BY <1>2, <4>1 DEF LockTaken
    <3>3. CASE DependsOn[o] \notin reported'
      <4>1. task'["Lock"].pc = "write"
        BY <3>3 DEF LockTaken
      <4>2. "Lock" # k
        BY <1>1, <1>6, <4>1, TaskFacts
      <4>3. task'["Lock"] = task["Lock"]
        BY <1>6, <4>2 DEF OpKinds
      <4> QED BY <3>3, <4>3 DEF LockTaken
    <3> QED BY <3>1, <3>2, <3>3
  <2> QED BY <2>1, <2>2 DEF LockHeld
<1> QED BY <1>5, <1>7, <1>8, <1>9, <1>10 DEF Calmer

\* Calm is inductive.
LEMMA CalmStep ==
    ASSUME Undisturbed, UnlockedLast, IInv, Calm, [Next]_vars
    PROVE  Calm'
<1> USE DEF IInv
<1>1. \A f : ~Fault(f)
  BY DEF Undisturbed, Fault
<1>2. CASE UNCHANGED vars
  BY <1>2 DEF vars, Calm, NothingDeleted, OneToken, Pending, SessionsStay, Exhausted, AtWork,
     Working, DoneIsDone, LockHeld, LockTaken
<1>3. CASE \E o \in Objects : User(o) \/ Informer(o)
  BY <1>3, CalmControlPlane
<1>4. ASSUME NEW s \in SessionIds, Server(s) PROVE FALSE
  BY <1>1, <1>4 DEF Server, DropOrphan, LoseSession, Calm, SessionsStay
<1>5. ASSUME NEW m \in MountPoints, MountPointReconcile(m) \/ MountPointStep(m)
      PROVE  Calm'
  <2>1. task["MountPoint"].pc \notin {"closing", "cleanup", "finalize"}
    BY DEF Inv2, FinalizerKept, Calm, NothingDeleted, Kinds
  <2>2. ~(MountPointCloseSession(m) \/ MountPointCleanUp(m) \/ MountPointFinalize(m))
    BY <2>1, CalmTypes DEF MountPointCloseSession, MountPointCleanUp, MountPointFinalize, At
  <2> QED BY <1>5, <2>2, CalmMountPoint, CalmDial DEF MountPointStep
<1>6. ASSUME NEW o \in Ops, OperationReconcile(o) \/ OperationStep(o)
      PROVE  Calm'
  <2>1. OperationAction(o)
    BY <1>6, OperationSteps
  <2>2. ASSUME NEW r \in Rpcs, NotReplied(o, r) PROVE FALSE
    <3> DEFINE t == task[Kind[o]]
    <3>1. t.obj = o /\ t.pc = "rpc" /\ ~Usable(t.session) /\ Kind[o] \in OpKinds
      BY <1>1, <2>2, CalmTypes DEF NotReplied, Asking, At
    <3>2. t.session = sessions[MountOf[o]] /\ t.session # Nil /\ MountOf[o] \in MountPoints
      BY <3>1, CalmTypes DEF Calm, AtWork, Working
    <3>3. t.session \in open /\ orphans = {}
      BY <3>2 DEF Calm, SessionsStay
    <3> QED BY <3>1, <3>3 DEF Usable
  <2>3. ASSUME NEW r \in Rpcs, NEW ok \in BOOLEAN, NEW st \in {"success", "failed"},
               Replied(o, r, ok, st),
               IF Kind[o] = "EditConfig" THEN st = "success"
                                         ELSE st = IF ok THEN "success" ELSE "failed"
        PROVE  Calm'
    BY <2>3, CalmReply
  <2>4. CASE Report(o)
    BY <2>4, CalmReport
  <2> QED BY <2>1, <2>2, <2>3, <2>4, CalmOperation DEF OperationAction
<1>7. ~Crash
  BY <1>1 DEF Crash
<1> QED BY <1>2, <1>3, <1>4, <1>5, <1>6, <1>7 DEF Next

LEMMA CalmInit == Init => Calm
<1> SUFFICES ASSUME Init PROVE Calm
  OBVIOUS
<1>1. /\ obj = [o \in Objects |-> Absent] /\ cache = [o \in Objects |-> Absent]
      /\ watch = [o \in Objects |-> "synced"] /\ queue = {} /\ task = [k \in Kinds |-> Idle]
      /\ orphans = {} /\ sessions = [m \in MountPoints |-> Nil]
      /\ sent = {} /\ accepted = {} /\ rejected = {} /\ reported = {}
  BY DEF Init, ServerInit, ControlPlaneInit, CommonInit
<1>2. Absent.phase = "absent" /\ Idle.instance = Absent /\ Idle.todo = {} /\ ~Idle.err
  BY DEF Absent, Idle
<1>3. \A o \in Objects : ~Pending(o) /\ task[Kind[o]].obj = Nil /\ o # Nil
  BY <1>1, TaskFacts, ControlPlaneAssumption, ServerAssumption DEF Pending, Objects
<1>4. NothingDeleted /\ OneToken
  BY <1>1, <1>2, <1>3 DEF NothingDeleted, OneToken
<1>5. SessionsStay
  BY <1>1, TaskFacts DEF SessionsStay, Kinds
<1>6. AtWork /\ DoneIsDone
  BY <1>1, TaskFacts DEF AtWork, Working, DoneIsDone, Kinds
<1>7. LockHeld
  <2>1. task["Lock"].pc = "idle"
    BY <1>1, TaskFacts DEF Kinds, OpKinds
  <2> QED BY <1>1, <2>1 DEF LockHeld, LockTaken
<1> QED BY <1>4, <1>5, <1>6, <1>7 DEF Calm

\* In a system without faults and changes, a flow in which what unlocks a
\* datastore depends on the EditConfigs that rely on its Lock edits under that
\* lock, for any number of flows, MountPoints and datastores side by side.
THEOREM FlowIsUnderLock ==
    ASSUME Undisturbed, UnlockedLast
    PROVE  Spec => []SequenceUnderLock
<1>1. Init => IInv /\ Calm
  BY CalmInit, IInvInit
<1>2. (IInv /\ Calm) /\ [Next]_vars => (IInv /\ Calm)'
  BY IInvStep, CalmStep
<1>3. IInv /\ Calm => SequenceUnderLock
  <2> SUFFICES ASSUME IInv, Calm, NEW o \in Ops, UnderLock(o), Asking(o, "edit")
               PROVE  lockOwner[MountOf[o]][StoreOf[o]] = task[Kind[o]].session
    BY DEF SequenceUnderLock, UnderLock
  <2>1. task[Kind[o]].obj = o /\ task[Kind[o]].pc = "rpc" /\ Kind[o] \in OpKinds
    BY CalmTypes DEF Asking, At, IInv
  <2>2. DependsOn[o] \in reported
    BY <2>1 DEF IInv, Inv3, DependencyReported, UnderLock
  <2>3. o \notin reported
    BY <2>1 DEF Calm, DoneIsDone, Pending
  <2>4. task[Kind[o]].session = sessions[MountOf[o]]
    BY <2>1 DEF Calm, AtWork, Working
  <2> QED BY <2>2, <2>3, <2>4 DEF Calm, LockHeld, LockTaken
<1> QED BY <1>1, <1>2, <1>3, PTL DEF Spec
=============================================================================
