---------------------------- MODULE ControlPlane ----------------------------
(***************************************************************************)
(* The Kubernetes side of the operator: the API server's copy of every     *)
(* custom resource, the informer cache the controllers read, the work      *)
(* queue, and one worker per controller.  A resourceVersion is not a       *)
(* number here.  watch[o] says how far the cache is behind ("event": an    *)
(* undelivered change passes the controllers' predicate, "status": the     *)
(* undelivered changes do not), and a worker's fresh flag says whether its *)
(* copy still has the API server's resourceVersion.                        *)
(***************************************************************************)
EXTENDS NetconfServer

CONSTANTS
    Ops,        \* the resources that stand for one NETCONF operation
    Kind,       \* the kind of every resource
    MaxChanges  \* bound: user changes to existing resources in one behaviour

VARIABLES
    obj,     \* the resources as the API server stores them
    cache,   \* the informer's copy
    watch,   \* what separates the copy from the original
    queue,   \* resources waiting to be reconciled
    task,    \* the reconcile each controller's worker is in
    changes  \* user changes so far

Objects == MountPoints \cup Ops
OpKinds == {"Lock", "Unlock", "EditConfig", "Commit", "Get", "GetConfig", "RPC"}
Kinds   == OpKinds \cup {"MountPoint"}

ASSUME ControlPlaneAssumption ==
    /\ MountPoints \cap Ops = {}
    /\ Nil \notin Ops
    /\ Kind \in [Objects -> Kinds]
    /\ \A o \in Objects : Kind[o] = "MountPoint" <=> o \in MountPoints
    /\ MaxChanges \in Nat

Statuses == {"none", "success", "failed", "connected"}
PCs == {"idle", "init", "closing", "cleanup", "finalize", "dial",
        "depend", "lookup", "rpc", "write"}

Resource == [phase : {"absent", "live", "deleting"},
             finalizer : BOOLEAN,
             status : Statuses]

Absent == [phase |-> "absent", finalizer |-> FALSE, status |-> "none"]
New    == [phase |-> "live", finalizer |-> FALSE, status |-> "none"]

\* A worker between two reconciles.
Idle == [pc |-> "idle", obj |-> Nil, instance |-> Absent, fresh |-> FALSE,
         session |-> Nil, todo |-> {}, err |-> FALSE, ok |-> TRUE]

Task == [pc : PCs, obj : Objects \cup {Nil}, instance : Resource,
         fresh : BOOLEAN, session : SessionIds \cup {Nil},
         todo : SUBSET Rpcs, err : BOOLEAN, ok : BOOLEAN]

apiVars == <<obj, cache, watch>>

\* The status a resource can show depends on its kind.
StatusOf(o) == IF o \in MountPoints THEN {"none", "connected", "failed"}
                                    ELSE {"none", "success", "failed"}

ControlPlaneTypeOK ==
    /\ obj \in [Objects -> Resource]
    /\ cache \in [Objects -> Resource]
    /\ \A o \in Objects : obj[o].status \in StatusOf(o)
    /\ watch \in [Objects -> {"synced", "status", "event"}]
    /\ queue \subseteq Objects
    /\ task \in [Kinds -> Task]
    /\ changes \in 0 .. MaxChanges

ControlPlaneInit ==
    /\ obj = [o \in Objects |-> Absent]
    /\ cache = [o \in Objects |-> Absent]
    /\ watch = [o \in Objects |-> "synced"]
    /\ queue = {}
    /\ task = [k \in Kinds |-> Idle]
    /\ changes = 0

-----------------------------------------------------------------------------
(* Writes to the API server *)

\* The change in watch[o] when a version is written that the predicate of
\* the controllers lets through (created, deleted, generation or finalizers
\* changed) or not (anything else).
Fired(o)  == [watch EXCEPT ![o] = "event"]
Silent(o) == [watch EXCEPT ![o] = IF @ = "synced" THEN "status" ELSE @]

\* Somebody else wrote o: the copy a worker may hold has an old version.
Outdated(o) ==
    [task EXCEPT ![Kind[o]].fresh = IF task[Kind[o]].obj = o THEN FALSE ELSE @]

UserChange ==
    /\ changes < MaxChanges
    /\ changes' = changes + 1

\* kubectl create
Create(o) ==
    /\ obj[o].phase = "absent"
    /\ obj' = [obj EXCEPT ![o] = New]
    /\ watch' = Fired(o)
    /\ UNCHANGED <<cache, queue, task, changes>>

\* kubectl delete.  A resource with a finalizer is only marked; so is any
\* resource deleted with foreground propagation.
Delete(o) ==
    /\ obj[o].phase = "live"
    /\ UserChange
    /\ \/ /\ obj[o].finalizer \/ o \in Ops
          /\ obj' = [obj EXCEPT ![o].phase = "deleting"]
       \/ /\ ~obj[o].finalizer
          /\ obj' = [obj EXCEPT ![o] = Absent]
    /\ watch' = Fired(o)
    /\ task' = Outdated(o)
    /\ UNCHANGED <<cache, queue>>

\* The garbage collector ends a foreground deletion.
Collect(o) ==
    /\ o \in Ops
    /\ obj[o].phase = "deleting"
    /\ obj' = [obj EXCEPT ![o] = Absent]
    /\ watch' = Fired(o)
    /\ task' = Outdated(o)
    /\ UNCHANGED <<cache, queue, changes>>

\* The user changes the spec (a new generation), or only the metadata.
Edit(o) ==
    /\ obj[o].phase # "absent"
    /\ UserChange
    /\ watch' \in {Fired(o), Silent(o)}
    /\ task' = Outdated(o)
    /\ UNCHANGED <<obj, cache, queue>>

-----------------------------------------------------------------------------
(* Informer and work queue *)

\* The informer catches up with o and enqueues it if the predicate fires.
CacheSync(o) ==
    /\ watch[o] # "synced"
    /\ cache' = [cache EXCEPT ![o] = obj[o]]
    /\ watch' = [watch EXCEPT ![o] = "synced"]
    /\ queue' = IF watch[o] = "event" THEN queue \cup {o} ELSE queue
    /\ UNCHANGED <<obj, task, changes>>

\* The worker of o's controller takes o from the queue.
Dequeue(o) ==
    /\ o \in queue
    /\ task[Kind[o]].pc = "idle"
    /\ queue' = queue \ {o}

\* The reconcile of o that has read o from the cache and goes on at pc.
Reconciling(o, pc) ==
    [Idle EXCEPT !.pc = pc, !.obj = o, !.instance = cache[o],
                 !.fresh = (watch[o] = "synced")]

\* Mutant: an invalid resource is reported without an error, so not retried.
Failing_NotRetried(o) == Reconciling(o, "write")

\* The same, on its way to ManageError.
Failing(o) == [Reconciling(o, "write") EXCEPT !.err = TRUE]

\* The worker is reconciling o and has got to pc.
At(o, pc) == task[Kind[o]].obj = o /\ task[Kind[o]].pc = pc

EndTask(o) == task' = [task EXCEPT ![Kind[o]] = Idle]

\* Mutant: a refused status write is ignored.
WriteStatus_ConflictIgnored(o) ==
    LET t == task[Kind[o]] IN
    /\ At(o, "write")
    /\ EndTask(o)
    /\ obj' = IF t.fresh THEN [obj EXCEPT ![o].status = t.instance.status] ELSE obj
    /\ watch' = IF t.fresh THEN Silent(o) ELSE watch
    /\ queue' = IF t.err THEN queue \cup {o} ELSE queue
    /\ UNCHANGED <<cache, changes>>

\* ManageError and ManageSuccess: the status of the worker's copy goes to the
\* API server, which refuses an old resourceVersion.  A refused write and a
\* reconcile error both make the queue retry.
WriteStatus(o) ==
    LET t == task[Kind[o]] IN
    /\ At(o, "write")
    /\ EndTask(o)
    /\ \/ /\ t.fresh
          /\ obj' = [obj EXCEPT ![o].status = t.instance.status]
          /\ watch' = Silent(o)
          /\ queue' = IF t.err THEN queue \cup {o} ELSE queue
       \/ /\ ~t.fresh
          /\ queue' = queue \cup {o}
          /\ UNCHANGED <<obj, watch>>
    /\ UNCHANGED <<cache, changes>>

\* What a new process starts from: an informer list of every resource, each
\* delivered as a creation, and no reconcile under way.
RestartControlPlane ==
    /\ cache' = obj
    /\ watch' = [o \in Objects |-> "synced"]
    /\ queue' = {o \in Objects : obj[o].phase # "absent"}
    /\ task' = [k \in Kinds |-> Idle]
    /\ UNCHANGED <<obj, changes>>
=============================================================================
