--------------------------- MODULE NetconfOperator ---------------------------
(***************************************************************************)
(* The operator: the MountPoint controller and the operation controllers   *)
(* at work on shared Sessions, against users, informers and servers.       *)
(***************************************************************************)
EXTENDS MountPointController, OperationControllers

vars == <<obj, cache, watch, queue, task, changes,
          open, orphans, lockOwner, faults,
          sessions, sent, accepted, rejected, reported>>

Init ==
    /\ ServerInit
    /\ ControlPlaneInit
    /\ CommonInit

controlVars == <<obj, cache, watch, queue, task, changes>>

User(o) ==
    /\ Create(o) \/ Delete(o) \/ Edit(o) \/ Collect(o)
    /\ UNCHANGED <<serverVars, faults, sessions, history>>

Informer(o) ==
    /\ CacheSync(o)
    /\ UNCHANGED <<serverVars, faults, sessions, history>>

Server(s) ==
    /\ DropOrphan(s) \/ LoseSession(s)
    /\ UNCHANGED <<controlVars, sessions, history>>

Next ==
    \/ \E o \in Objects : User(o) \/ Informer(o)
    \/ \E s \in SessionIds : Server(s)
    \/ \E m \in MountPoints : MountPointReconcile(m) \/ MountPointStep(m)
    \/ \E o \in Ops : OperationReconcile(o) \/ OperationStep(o)
    \/ Crash

Spec == Init /\ [][Next]_vars

\* The informers deliver what they are behind, a worker goes on with its
\* reconcile, the work queue is first-in first-out (an object that is queued
\* again and again gets its turn), and a server finds out about dead peers.
\* That a step of the MountPoint worker follows is an assumption on the servers:
\* a dial returns.  Connection is about those where it does not.
Fairness ==
    /\ \A o \in Objects : WF_vars(Informer(o))
    /\ \A m \in MountPoints : SF_vars(MountPointReconcile(m)) /\ WF_vars(MountPointStep(m))
    /\ \A o \in Ops : SF_vars(OperationReconcile(o)) /\ WF_vars(OperationStep(o))
    /\ \A s \in SessionIds : WF_vars(DropOrphan(s) /\ UNCHANGED <<controlVars, sessions, history>>)

FairSpec == Spec /\ Fairness

-----------------------------------------------------------------------------

\* Every variable has its type; in particular a MountPoint never shows an
\* operation's status and an operation never a MountPoint's.
TypeOK ==
    /\ ServerTypeOK
    /\ ControlPlaneTypeOK
    /\ CommonTypeOK

\* A session in Sessions belongs to a MountPoint that is stored with the
\* finalizer of mountpoint_controller.go: whatever the caches showed the
\* workers, the resource cannot disappear while its session is in use.
SessionHasFinalizer ==
    \A m \in MountPoints :
        sessions[m] # Nil => obj[m].phase # "absent" /\ obj[m].finalizer

\* The status a user reads is backed by an answer of the server, over
\* conflicts, retries and restarts.  For an EditConfig it says no more than
\* that every RPC was answered.
StatusTruthful ==
    \A o \in Ops :
        /\ obj[o].status = "success" =>
             o \in IF Kind[o] = "EditConfig" THEN accepted \cup rejected ELSE accepted
        /\ obj[o].status = "failed" => o \in rejected

\* validateDependency: no RPC of an operation leaves before the operation it
\* depends on was answered, and accepted if that is a Lock or a Commit.
DependencyHonoured ==
    \A o \in sent : DependsOn[o] # Nil =>
        DependsOn[o] \in IF Kind[DependsOn[o]] = "EditConfig"
                         THEN accepted \cup rejected ELSE accepted

\* Somebody will look at o again.
Pending(o) ==
    \/ o \in queue
    \/ task[Kind[o]].obj = o
    \/ watch[o] = "event"

\* The work that is left is never forgotten: an operation without a status, a
\* MountPoint without a session and a MountPoint being deleted are queued,
\* being reconciled, or about to be enqueued by the informer.
NoLostWakeup ==
    /\ \A o \in Ops : obj[o].phase = "live" /\ obj[o].status = "none" => Pending(o)
    /\ \A m \in MountPoints :
         \/ obj[m].phase = "absent"
         \/ obj[m].phase = "live" /\ sessions[m] # Nil
         \/ Pending(m)

\* Workflow is implemented.
W == INSTANCE Workflow WITH answered <- accepted \cup rejected,
                            status <- [o \in Ops |-> obj[o].status]
SequencesOperations == W!Spec

\* An EditConfig that depends on a Lock of its datastore sends its edit while
\* its session holds that lock.
SequenceUnderLock ==
    \A o \in Ops :
        /\ Kind[o] = "EditConfig"
        /\ DependsOn[o] # Nil
        /\ Kind[DependsOn[o]] = "Lock"
        /\ MountOf[DependsOn[o]] = MountOf[o]
        /\ StoreOf[DependsOn[o]] = StoreOf[o]
        /\ Asking(o, "edit")
        => lockOwner[MountOf[o]][StoreOf[o]] = task[Kind[o]].session

\* A MountPoint that stays and has no entry in Sessions, because it is new, was
\* created again, or the process has restarted, gets one that its server knows
\* too, over dial failures, stale copies and conflicts, and although the
\* sessions of earlier reconciles take room at the server.  Given that every
\* dial returns (Fairness).  Of an entry whose session the server ends later
\* nothing is said: common.go keeps it, and nobody dials again.
MountPointConnects ==
    \A m \in MountPoints :
        (obj[m].phase = "live" /\ sessions[m] = Nil)
            ~> \/ obj[m].phase # "live"
               \/ sessions[m] # Nil /\ Usable(sessions[m])

\* A MountPoint that is being deleted disappears: no failure of the cleanup
\* keeps the finalizer for ever.  Given that every dial of the worker it
\* shares with the others returns (Fairness).
MountPointDeletes ==
    \A m \in MountPoints : obj[m].phase = "deleting" ~> obj[m].phase # "deleting"

\* An EditConfig that locks, edits, commits and unlocks does not leave its
\* datastore locked for ever: an unanswered RPC, a crash, a new session of the
\* MountPoint or its deletion in the middle all end in the lock's release.
TransactionReleasesLock ==
    \A o \in Ops : {"lock", "unlock"} \subseteq Flags[o] =>
        []<>(lockOwner[MountOf[o]][StoreOf[o]] = Nil)

\* An operation that depends on nothing gets a status, unless it or its
\* MountPoint is deleted, or no session is left for the MountPoint.
OperationSettles ==
    \A o \in Ops : DependsOn[o] = Nil =>
        (obj[o].phase = "live" /\ obj[o].status = "none")
            ~> \/ obj[o].status # "none"
               \/ obj[o].phase # "live"
               \/ obj[MountOf[o]].phase # "live"
               \/ \A s \in SessionIds : ~Unused(s)
-----------------------------------------------------------------------------
(* What comments and documentation say, and the code does not do *)

\* common.go: "Sessions hold the active SSH session to NETCONF servers".  Every
\* session the process keeps open is in the map.
SessionsHoldActive ==
    \A s \in open \ orphans : \E m \in MountPoints : sessions[m] = s

\* editconfig_types.go: spec.lock is "Whether to lock the specified datastore
\* before doing the edit-config".
EditUnderOwnLock ==
    \A o \in Ops :
        "lock" \in Flags[o] /\ Asking(o, "edit") =>
            lockOwner[MountOf[o]][StoreOf[o]] = task[Kind[o]].session

\* common_types.go: the status is "Either `success` or `failed`".  A reconcile
\* that is waiting for a reply goes on to report one of them.
RpcEndsInStatus ==
    [][\A k \in OpKinds : task[k].pc = "rpc" => task'[k].pc \in {"rpc", "write"}]_vars

\* README, "Sequence operations": the flow of dependent operations can be
\* achieved.  Resources that exist, on servers that refuse nothing, in a
\* system without faults or changes all succeed.
FlowCompletes ==
    (\A o \in Objects : obj[o].phase = "live")
        ~> (\A o \in Ops : obj[o].status = "success")
=============================================================================
