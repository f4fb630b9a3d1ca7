------------------------ MODULE MountPointController ------------------------
(***************************************************************************)
(* controllers/mountpoint_controller.go: a MountPoint resource is a        *)
(* session.  The finalizer is stored first; then every reconcile dials a   *)
(* new session and puts it in Sessions; a deletion closes the session,     *)
(* takes it out of Sessions and removes the finalizer.                     *)
(***************************************************************************)
EXTENDS Common

\* Mutant: a MountPoint is dialled before its finalizer is stored.
MountPointReconcile_NoFinalizer(m) ==
    /\ Dequeue(m)
    /\ task' = [task EXCEPT !["MountPoint"] =
         IF cache[m].phase = "absent" THEN Idle
         ELSE IF cache[m].phase = "deleting" THEN Reconciling(m, "closing")
         ELSE Reconciling(m, "dial")]
    /\ UNCHANGED <<apiVars, changes, serverVars, faults, sessions, history>>

\* Reconcile up to the first call that waits.
MountPointReconcile(m) ==
    /\ Dequeue(m)
    /\ task' = [task EXCEPT !["MountPoint"] =
         IF cache[m].phase = "absent" THEN Idle
         ELSE IF ~cache[m].finalizer THEN Reconciling(m, "init")
         ELSE IF cache[m].phase = "deleting" THEN Reconciling(m, "closing")
         ELSE Reconciling(m, "dial")]
    /\ UNCHANGED <<apiVars, changes, serverVars, faults, sessions, history>>

\* Mutant: the new finalizer does not trigger a reconcile (a predicate on the
\* generation alone).
MountPointInitialize_Silent(m) ==
    /\ At(m, "init")
    /\ EndTask(m)
    /\ IF task["MountPoint"].fresh
       THEN /\ obj' = [obj EXCEPT ![m].finalizer = TRUE]
            /\ watch' = Silent(m)
            /\ UNCHANGED queue
       ELSE /\ queue' = queue \cup {m}
            /\ UNCHANGED <<obj, watch>>
    /\ UNCHANGED <<cache, changes, serverVars, faults, sessions, history>>

\* isInitialized added the finalizer; Update stores it or meets a conflict,
\* and then ManageError's own write meets it too and the queue retries.
MountPointInitialize(m) ==
    /\ At(m, "init")
    /\ EndTask(m)
    /\ \/ /\ task["MountPoint"].fresh
          /\ obj' = [obj EXCEPT ![m].finalizer = TRUE]
          /\ watch' = Fired(m)
          /\ UNCHANGED queue
       \/ /\ ~task["MountPoint"].fresh
          /\ queue' = queue \cup {m}
          /\ UNCHANGED <<obj, watch>>
    /\ UNCHANGED <<cache, changes, serverVars, faults, sessions, history>>

\* A session id that nobody refers to any more.
Unused(s) ==
    /\ s \notin open
    /\ \A m \in MountPoints : sessions[m] # s
    /\ \A k \in Kinds : task[k].session # s

\* Mutant: a connected MountPoint gets the status of an operation.
Dialled_OperationStatus(t, status, err) ==
    [t EXCEPT !.pc = "write", !.err = err,
              !.instance = [@ EXCEPT !.status = IF err THEN status ELSE "success"]]

\* manageOperatorLogic returns with this status, and with an error or not.
Dialled(t, status, err) ==
    [t EXCEPT !.pc = "write", !.err = err,
              !.instance = [@ EXCEPT !.status = status]]

\* manageOperatorLogic.  The connection fails (always when the servers hold as
\* many sessions as they can); or the session is up but the hello cannot be
\* sent, and nobody closes it; or DialSSH returns neither session nor error
\* and SendHello panics; or the session replaces the entry in Sessions,
\* whatever that was.
MountPointDial(m) ==
    /\ At(m, "dial")
    /\ \/ /\ \/ Fault("dial")
             \/ (\A s \in SessionIds : ~Unused(s)) /\ UNCHANGED faults
          /\ task' = [task EXCEPT !["MountPoint"] = Dialled(@, "failed", TRUE)]
          /\ UNCHANGED <<apiVars, queue, sessions, open, orphans>>
       \/ \E s \in SessionIds :
          /\ Unused(s)
          /\ Fault("hello")
          /\ open' = open \cup {s}
          /\ task' = [task EXCEPT !["MountPoint"] = Dialled(@, "failed", TRUE)]
          /\ UNCHANGED <<apiVars, queue, sessions, orphans>>
       \/ Fault("nilsession") /\ Panic
       \/ \E s \in SessionIds :
          /\ Unused(s)
          /\ open' = open \cup {s}
          /\ sessions' = [sessions EXCEPT ![m] = s]
          /\ task' = [task EXCEPT !["MountPoint"] = Dialled(@, "connected", FALSE)]
          /\ UNCHANGED <<apiVars, queue, orphans, faults>>
    /\ UNCHANGED <<changes, lockOwner, history>>

\* manageCleanUpLogic up to the reply to close-session.  When there is none,
\* kill-session is sent, with an id that is not this session's: string(rune(id))
\* is a character.  It does not end this session.
MountPointCloseSession(m) ==
    /\ At(m, "closing")
    /\ LET s == sessions[m] IN
       \/ /\ s = Nil
          /\ task' = [task EXCEPT !["MountPoint"].pc = "finalize"]
          /\ UNCHANGED <<serverVars, faults>>
       \/ /\ s # Nil
          /\ task' = [task EXCEPT !["MountPoint"] =
                        [@ EXCEPT !.pc = "cleanup", !.session = s]]
          /\ \/ Usable(s) /\ EndSession(s) /\ UNCHANGED faults
             \/ Usable(s) /\ Fault("timeout") /\ UNCHANGED serverVars
             \/ ~Usable(s) /\ UNCHANGED <<serverVars, faults>>
    /\ UNCHANGED <<apiVars, queue, changes, sessions, history>>

\* Mutant: the transport is closed but the entry stays in Sessions.
MountPointCleanUp_EntryKept(m) ==
    /\ At(m, "cleanup")
    /\ orphans' = orphans \cup ({task["MountPoint"].session} \cap open)
    /\ \E failed \in BOOLEAN :
         task' = [task EXCEPT !["MountPoint"] =
                    [@ EXCEPT !.pc = IF failed THEN "write" ELSE "finalize",
                              !.session = Nil, !.err = failed]]
    /\ UNCHANGED <<apiVars, queue, changes, open, lockOwner, faults, sessions, history>>

\* The rest of manageCleanUpLogic: the entry leaves Sessions and the transport
\* is closed, which may return an error.
MountPointCleanUp(m) ==
    /\ At(m, "cleanup")
    /\ sessions' = [sessions EXCEPT ![m] = Nil]
    /\ orphans' = orphans \cup ({task["MountPoint"].session} \cap open)
    /\ \E failed \in BOOLEAN :
         task' = [task EXCEPT !["MountPoint"] =
                    [@ EXCEPT !.pc = IF failed THEN "write" ELSE "finalize",
                              !.session = Nil, !.err = failed]]
    /\ UNCHANGED <<apiVars, queue, changes, open, lockOwner, faults, history>>

\* Mutant: a conflict on the removal of the finalizer is not retried.
MountPointFinalize_NotRetried(m) ==
    /\ At(m, "finalize")
    /\ EndTask(m)
    /\ IF task["MountPoint"].fresh
       THEN obj' = [obj EXCEPT ![m] = Absent] /\ watch' = Fired(m)
       ELSE UNCHANGED <<obj, watch>>
    /\ UNCHANGED <<queue, cache, changes, serverVars, faults, sessions, history>>

\* RemoveFinalizer and Update: the resource disappears, or the copy was old
\* and the queue retries.
MountPointFinalize(m) ==
    /\ At(m, "finalize")
    /\ EndTask(m)
    /\ \/ /\ task["MountPoint"].fresh
          /\ obj' = [obj EXCEPT ![m] = Absent]
          /\ watch' = Fired(m)
          /\ UNCHANGED queue
       \/ /\ ~task["MountPoint"].fresh
          /\ queue' = queue \cup {m}
          /\ UNCHANGED <<obj, watch>>
    /\ UNCHANGED <<cache, changes, serverVars, faults, sessions, history>>

\* ManageSuccess or ManageError.
MountPointReport(m) ==
    /\ WriteStatus(m)
    /\ UNCHANGED <<serverVars, faults, sessions, history>>

MountPointStep(m) ==
    \/ MountPointInitialize(m)
    \/ MountPointDial(m)
    \/ MountPointCloseSession(m)
    \/ MountPointCleanUp(m)
    \/ MountPointFinalize(m)
    \/ MountPointReport(m)
=============================================================================
