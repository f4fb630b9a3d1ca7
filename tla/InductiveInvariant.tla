------------------------- MODULE InductiveInvariant -------------------------
(***************************************************************************)
(* The invariant that makes the safety properties of NetconfOperator       *)
(* inductive: what a cached or copied resource, however old, still says    *)
(* about the stored one, and what a worker knows at each point; and what   *)
(* holds besides in a system that nothing disturbs.                        *)
(***************************************************************************)
EXTENDS NetconfOperator

MountPointPCs == {"init", "closing", "cleanup", "finalize", "dial", "write"}
OperationPCs  == {"depend", "lookup", "rpc", "write"}

\* A worker reconciles resources of its own kind, at that kind's steps.
TaskShape ==
    \A k \in Kinds :
        /\ task[k].pc = "idle" <=> task[k].obj = Nil
        /\ task[k].pc # "idle" =>
             /\ Kind[task[k].obj] = k
             /\ task[k].instance.phase # "absent"
             /\ task[k].pc \in IF k = "MountPoint" THEN MountPointPCs ELSE OperationPCs
        /\ task[k].pc = "idle" => ~task[k].fresh

\* Cached and copied resources show the statuses of their kind.
StatusShape ==
    /\ \A o \in Objects : cache[o].status \in StatusOf(o)
    /\ \A k \in Kinds : task[k].pc # "idle" =>
         task[k].instance.status \in StatusOf(task[k].obj)

\* What the informer has not delivered, and what a current copy is worth.
CacheCurrent ==
    /\ \A o \in Objects :
         /\ watch[o] = "synced" => cache[o] = obj[o]
         /\ watch[o] # "event" =>
              cache[o].phase = obj[o].phase /\ cache[o].finalizer = obj[o].finalizer
    /\ \A k \in Kinds : task[k].fresh =>
         /\ watch[task[k].obj] = "synced"
         /\ task[k].instance.phase = obj[task[k].obj].phase

\* The finalizer protects the session: a cache, however old, that shows a live
\* MountPoint with a finalizer is right about the finalizer.
FinalizerKept ==
    /\ \A m \in MountPoints :
         /\ cache[m].phase = "live" /\ cache[m].finalizer =>
              obj[m].phase # "absent" /\ obj[m].finalizer
         /\ obj[m].phase = "deleting" => obj[m].finalizer
    /\ LET t == task["MountPoint"] IN
         /\ t.pc = "dial" => obj[t.obj].phase # "absent" /\ obj[t.obj].finalizer
         /\ t.pc = "init" => ~t.instance.finalizer
         /\ t.pc \in {"closing", "cleanup", "finalize"} => t.instance.phase = "deleting"
         /\ t.pc = "dial" \/ (t.pc = "write" /\ ~t.err) => t.instance.phase = "live"
         /\ t.pc = "finalize" => sessions[t.obj] = Nil
         /\ t.pc = "write" /\ ~t.err => sessions[t.obj] # Nil

Inv1 == TypeOK /\ TaskShape /\ StatusShape /\ CacheCurrent
Inv2 == FinalizerKept /\ SessionHasFinalizer

\* The answers that a status of success, or of failed, asks for.
BackedBy(o, status, acc, rej) ==
    /\ status = "success" => o \in IF Kind[o] = "EditConfig" THEN acc \cup rej ELSE acc
    /\ status = "failed" => o \in rej

Backed(o, status) == BackedBy(o, status, accepted, rejected)

\* Every copy of a status is backed by an answer.
StatusBacked ==
    /\ \A o \in Ops : Backed(o, obj[o].status) /\ Backed(o, cache[o].status)
    /\ \A k \in OpKinds : task[k].pc # "idle" =>
         Backed(task[k].obj, task[k].instance.status)
    /\ \A k \in OpKinds \ {"EditConfig"} : task[k].pc \in {"depend", "lookup", "rpc"} =>
         /\ task[k].ok
         /\ task[k].pc = "rpc" => \E r \in Rpcs : task[k].todo = {r}

\* A success that can be read was reported, what was reported was answered,
\* and a worker past its dependency check has seen such a success.
DependencyReported ==
    /\ \A o \in Ops :
         /\ obj[o].status = "success" => o \in reported
         /\ cache[o].status = "success" => o \in reported
         /\ o \in reported => Backed(o, "success")
         /\ o \in sent /\ DependsOn[o] # Nil => DependsOn[o] \in reported
    /\ \A k \in OpKinds :
         task[k].pc \in {"lookup", "rpc"} /\ DependsOn[task[k].obj] # Nil =>
             DependsOn[task[k].obj] \in reported

\* A worker that is done without an error has a status to write.
StatusDecided ==
    \A k \in OpKinds :
        task[k].pc = "write" /\ ~task[k].err => task[k].instance.status # "none"

Inv3 == StatusBacked /\ DependencyReported /\ StatusDecided

IInv == Inv1 /\ Inv2 /\ Inv3 /\ NoLostWakeup

-----------------------------------------------------------------------------
(* A flow of operations in a system without faults and without changes *)

\* o sends an unlock.
MayUnlock(o) == Kind[o] = "Unlock" \/ "unlock" \in Flags[o]

\* o is an EditConfig that depends on a Lock of its datastore.
UnderLock(o) ==
    /\ Kind[o] = "EditConfig"
    /\ DependsOn[o] # Nil
    /\ Kind[DependsOn[o]] = "Lock"
    /\ MountOf[DependsOn[o]] = MountOf[o]
    /\ StoreOf[DependsOn[o]] = StoreOf[o]

\* u depends on o, directly or through others: every set that has u's
\* dependency and is closed under dependencies has o.
Precedes(o, u) ==
    \A S \in SUBSET Ops :
        /\ DependsOn[u] \in S
        /\ \A p \in S : DependsOn[p] # Nil => DependsOn[p] \in S
        => o \in S

\* The user's side of the flow: what unlocks a datastore depends on every
\* EditConfig that relies on a Lock of it.
UnlockedLast ==
    \A o, u \in Ops :
        /\ UnderLock(o) /\ MayUnlock(u)
        /\ MountOf[u] = MountOf[o] /\ StoreOf[u] = StoreOf[o]
        => DependsOn[u] # Nil /\ Precedes(o, u)

\* No faults, and no changes to a resource that exists.
Undisturbed == FaultKinds = {} /\ MaxChanges = 0

\* Nobody deletes anything.
NothingDeleted ==
    /\ \A o \in Objects : obj[o].phase # "deleting" /\ cache[o].phase # "deleting"
    /\ \A k \in Kinds : task[k].instance.phase # "deleting"

\* A resource is announced, queued or being reconciled, but not two of these,
\* and none before it exists.
OneToken ==
    \A o \in Objects :
        /\ watch[o] = "event" => o \notin queue /\ task[Kind[o]].obj # o
        /\ o \in queue => task[Kind[o]].obj # o
        /\ obj[o].phase = "absent" => ~Pending(o)

\* Every session the servers can hold is in use.
Exhausted == SessionIds \subseteq open

\* No session ends, and a MountPoint that has one is dialled no more: its only
\* reconcile ends without an error and on a current copy.  Only dials that
\* found no session to open are repeated.
SessionsStay ==
    /\ orphans = {}
    /\ \A k \in Kinds : task[k].session \in open \cup {Nil}
    /\ \A m \in MountPoints :
         /\ sessions[m] \in open \cup {Nil}
         /\ m \in queue => watch[m] = "synced" \/ Exhausted
         /\ sessions[m] # Nil /\ Pending(m) =>
              LET t == task["MountPoint"] IN
              t.obj = m /\ t.pc = "write" /\ t.fresh /\ ~t.err
    /\ LET t == task["MountPoint"] IN
       t.pc # "idle" => (t.fresh /\ ~t.err) \/ Exhausted

\* A worker past the look at Sessions has the session of its MountPoint, and
\* no success to report before the replies.
Working(k, t) ==
    /\ t.pc \in {"depend", "lookup", "rpc"} =>
         /\ sessions[MountOf[t.obj]] # Nil
         /\ t.instance.status # "success"
         /\ ~t.err
    /\ t.pc = "rpc" =>
         /\ t.session = sessions[MountOf[t.obj]]
         /\ k = "Lock" => t.todo = {"lock"}
         /\ "unlock" \in t.todo => MayUnlock(t.obj)
    /\ t.pc = "write" /\ t.instance.status = "success" => ~t.err

AtWork == \A k \in OpKinds : Working(k, task[k])

\* An operation whose success is stored is never reconciled again.
DoneIsDone ==
    /\ \A o \in reported : ~Pending(o) /\ obj[o].phase # "absent"
    /\ accepted \cup rejected \subseteq sent

\* The Lock that o depends on has succeeded, as its worker or everybody knows.
LockTaken(o) ==
    \/ DependsOn[o] \in reported
    \/ LET t == task["Lock"] IN
       t.pc = "write" /\ t.obj = DependsOn[o] /\ t.instance.status = "success"

\* From then until o is done the session of the MountPoint has the lock.
LockHeld ==
    \A o \in Ops \ reported :
        UnderLock(o) /\ LockTaken(o) =>
            /\ sessions[MountOf[o]] # Nil
            /\ lockOwner[MountOf[o]][StoreOf[o]] = sessions[MountOf[o]]

Calm == NothingDeleted /\ OneToken /\ SessionsStay /\ AtWork /\ DoneIsDone /\ LockHeld
=============================================================================
