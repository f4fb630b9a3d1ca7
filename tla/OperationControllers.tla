------------------------ MODULE OperationControllers ------------------------
(***************************************************************************)
(* The controllers of the one-shot operations: Lock, Unlock, EditConfig,   *)
(* Commit, Get, GetConfig and RPC.  Their Reconcile methods have one shape *)
(* (the first section); each controller then says what it checks, which    *)
(* RPCs it sends and what status it draws from the replies.                *)
(***************************************************************************)
EXTENDS Common

\* Reconcile up to the call of manageOperatorLogic, which starts at pc: the
\* validation comes before the look at the deletion timestamp.
Reconcile(o, valid, pc) ==
    /\ Dequeue(o)
    /\ task' = [task EXCEPT ![Kind[o]] =
         IF cache[o].phase = "absent" THEN Idle
         ELSE IF ~valid THEN Failing(o)
         ELSE IF cache[o].phase = "deleting" THEN Idle
         ELSE Reconciling(o, pc)]
    /\ UNCHANGED <<apiVars, changes, serverVars, faults, sessions, history>>

\* validateDependency at the start of manageOperatorLogic.
CheckDependency(o) ==
    /\ At(o, "depend")
    /\ task' = [task EXCEPT ![Kind[o]] =
         IF DependencyMet(o) THEN [@ EXCEPT !.pc = "lookup"]
                             ELSE [@ EXCEPT !.pc = "write", !.err = TRUE]]
    /\ UNCHANGED <<apiVars, queue, changes, serverVars, faults, sessions, history>>

\* The session is read from Sessions; a missing entry is a nil pointer, and
\* the first SyncRPC on it panics.
LookupSession(o, rpcs) ==
    LET s == sessions[MountOf[o]] IN
    /\ At(o, "lookup")
    /\ \/ /\ s = Nil
          /\ Panic
       \/ /\ s # Nil
          /\ task' = [task EXCEPT ![Kind[o]] =
                        [@ EXCEPT !.pc = "rpc", !.session = s, !.todo = rpcs]]
          /\ UNCHANGED <<apiVars, queue, open, orphans, sessions>>
    /\ UNCHANGED <<changes, lockOwner, faults, history>>

Before(r) == CASE r = "edit"   -> {"lock"}
               [] r = "commit" -> {"lock", "edit"}
               [] r = "unlock" -> {"lock", "edit", "commit"}
               [] OTHER        -> {}

\* r is the next RPC of the reconcile of o.
Asking(o, r) ==
    /\ At(o, "rpc")
    /\ r \in task[Kind[o]].todo
    /\ Before(r) \cap task[Kind[o]].todo = {}

\* The reconcile t after the reply to r: on to the next RPC, or after the last
\* one to the status it gives the resource.
AfterReply(t, r, ok, status) ==
    IF t.todo = {r}
    THEN [t EXCEPT !.pc = "write", !.todo = {}, !.ok = @ /\ ok,
                   !.instance = [@ EXCEPT !.status = status]]
    ELSE [t EXCEPT !.todo = @ \ {r}, !.ok = @ /\ ok]

\* SyncRPC returns a reply, without (ok) or with rpc-error elements.  After
\* the last reply the resource gets the given status.
Replied(o, r, ok, status) ==
    LET t    == task[Kind[o]]
        m    == MountOf[o]
        d    == StoreOf[o]
        last == t.todo = {r}
    IN
    /\ Asking(o, r)
    /\ Usable(t.session)
    /\ IF ok THEN Accepts(r, t.session, m, d)
             ELSE ~Accepts(r, t.session, m, d) \/ (o \in Refusable /\ r # "unlock")
    /\ lockOwner' = IF ok THEN Executed(r, t.session, m, d) ELSE lockOwner
    /\ task' = [task EXCEPT ![Kind[o]] = AfterReply(t, r, ok, status)]
    /\ sent' = sent \cup {o}
    /\ accepted' = IF last /\ t.ok /\ ok THEN accepted \cup {o} ELSE accepted
    /\ rejected' = IF last /\ ~(t.ok /\ ok) THEN rejected \cup {o} ELSE rejected
    /\ UNCHANGED <<apiVars, queue, changes, open, orphans, faults, sessions, reported>>

\* SyncRPC returns no reply: the session is gone, or the reply is late, and
\* then the server may or may not have executed the request.  The reconcile
\* dereferences the nil reply.
NotReplied(o, r) ==
    LET s == task[Kind[o]].session
        m == MountOf[o]
        d == StoreOf[o]
    IN
    /\ Asking(o, r)
    /\ \/ /\ ~Usable(s)
          /\ UNCHANGED <<lockOwner, faults>>
       \/ /\ Usable(s)
          /\ Fault("timeout")
          /\ \/ UNCHANGED lockOwner
             \/ Accepts(r, s, m, d) /\ lockOwner' = Executed(r, s, m, d)
    /\ Panic
    /\ sent' = sent \cup {o}
    /\ UNCHANGED <<changes, accepted, rejected, reported>>

\* Mutant: a reply is a success, whatever it says.
Execute_ErrorsIgnored(o, r) ==
    \/ LookupSession(o, {r})
    \/ \E ok \in BOOLEAN : Replied(o, r, ok, "success")
    \/ NotReplied(o, r)

\* An operation of a single RPC: success or failed, as the server answered.
Execute(o, r) ==
    \/ LookupSession(o, {r})
    \/ \E ok \in BOOLEAN : Replied(o, r, ok, IF ok THEN "success" ELSE "failed")
    \/ NotReplied(o, r)

\* ManageSuccess or ManageError.
Report(o) ==
    LET t == task[Kind[o]] IN
    /\ WriteStatus(o)
    /\ reported' = IF t.fresh /\ t.instance.status = "success"
                   THEN reported \cup {o} ELSE reported
    /\ UNCHANGED <<serverVars, faults, sessions, sent, accepted, rejected>>

-----------------------------------------------------------------------------
(* lock_controller.go *)

LockReconcile(o) ==
    /\ Kind[o] = "Lock"
    /\ Reconcile(o, CheckMountPointExists(MountOf[o]), "lookup")

LockOperatorLogic(o) ==
    /\ Kind[o] = "Lock"
    /\ Execute(o, "lock")

(* unlock_controller.go *)

UnlockReconcile(o) ==
    /\ Kind[o] = "Unlock"
    /\ Reconcile(o, CheckMountPointExists(MountOf[o]), "depend")

UnlockOperatorLogic(o) ==
    /\ Kind[o] = "Unlock"
    /\ CheckDependency(o) \/ Execute(o, "unlock")

(* commit_controller.go: the dependency is part of isValid *)

\* Mutant: isValid forgets the dependency.
CommitReconcile_NoDependency(o) ==
    /\ Kind[o] = "Commit"
    /\ Reconcile(o, CheckMountPointExists(MountOf[o]), "lookup")

CommitReconcile(o) ==
    /\ Kind[o] = "Commit"
    /\ Reconcile(o, CheckMountPointExists(MountOf[o]) /\ DependencyMet(o), "lookup")

CommitOperatorLogic(o) ==
    /\ Kind[o] = "Commit"
    /\ Execute(o, "commit")

(* get_controller.go, getconfig_controller.go, rpc_controller.go *)

GetReconcile(o) ==
    /\ Kind[o] = "Get"
    /\ Reconcile(o, CheckMountPointExists(MountOf[o]), "lookup")

GetOperatorLogic(o) ==
    /\ Kind[o] = "Get"
    /\ Execute(o, "read")

GetConfigReconcile(o) ==
    /\ Kind[o] = "GetConfig"
    /\ Reconcile(o, CheckMountPointExists(MountOf[o]), "lookup")

GetConfigOperatorLogic(o) ==
    /\ Kind[o] = "GetConfig"
    /\ Execute(o, "read")

RPCReconcile(o) ==
    /\ Kind[o] = "RPC"
    /\ Reconcile(o, CheckMountPointExists(MountOf[o]), "lookup")

RPCOperatorLogic(o) ==
    /\ Kind[o] = "RPC"
    /\ Execute(o, "read")

(* editconfig_controller.go: up to four RPCs; the controller looks at whether
   there is a reply, not at the errors in it *)

\* Mutant: manageOperatorLogic goes to the session at once.
EditConfigReconcile_NoDependency(o) ==
    /\ Kind[o] = "EditConfig"
    /\ Reconcile(o, CheckMountPointExists(MountOf[o]), "lookup")

EditConfigReconcile(o) ==
    /\ Kind[o] = "EditConfig"
    /\ Reconcile(o, CheckMountPointExists(MountOf[o]), "depend")

\* Mutant: spec.unlock is not looked at.
EditConfigOperatorLogic_NoUnlock(o) ==
    /\ Kind[o] = "EditConfig"
    /\ \/ CheckDependency(o)
       \/ LookupSession(o, (Flags[o] \ {"unlock"}) \cup {"edit"})
       \/ \E r \in Rpcs :
            \/ \E ok \in BOOLEAN : Replied(o, r, ok, "success")
            \/ NotReplied(o, r)

EditConfigOperatorLogic(o) ==
    /\ Kind[o] = "EditConfig"
    /\ \/ CheckDependency(o)
       \/ LookupSession(o, Flags[o] \cup {"edit"})
       \/ \E r \in Rpcs :
            \/ \E ok \in BOOLEAN : Replied(o, r, ok, "success")
            \/ NotReplied(o, r)

-----------------------------------------------------------------------------

OperationReconcile(o) ==
    \/ LockReconcile(o)
    \/ UnlockReconcile(o)
    \/ CommitReconcile(o)
    \/ GetReconcile(o)
    \/ GetConfigReconcile(o)
    \/ RPCReconcile(o)
    \/ EditConfigReconcile(o)

OperationStep(o) ==
    \/ LockOperatorLogic(o)
    \/ UnlockOperatorLogic(o)
    \/ CommitOperatorLogic(o)
    \/ GetOperatorLogic(o)
    \/ GetConfigOperatorLogic(o)
    \/ RPCOperatorLogic(o)
    \/ EditConfigOperatorLogic(o)
    \/ Report(o)
=============================================================================
