--------------------------- MODULE Subscriptions ---------------------------
(***************************************************************************)
(* The controllers of CreateSubscription and EstablishSubscription at work *)
(* on one MountPoint: users, the informer, the work queue and one worker   *)
(* per controller as in ControlPlane, the MountPoint as MountPointSession, *)
(* and the notifications of SubscriptionServer.                            *)
(***************************************************************************)
EXTENDS SubscriptionServer

CONSTANTS
    SubKind,          \* the kind of each subscription resource
    KafkaSinks,       \* the resources with spec.kafkaSink.enabled
    Refusable,        \* resources whose request the server may refuse
    FaultKinds,       \* which faults the environment may inject
    MaxFaults,        \* bound: faults in one behaviour
    MaxChanges,       \* bound: user changes to subscription resources
    MaxMountChanges   \* bound: changes to the MountPoint after it connected

VARIABLES
    obj,           \* the resources as the API server stores them
    cache,         \* the informer's copy
    watch,         \* what separates the copy from the original
    queue,         \* resources waiting to be reconciled
    task,          \* the reconcile each controller's worker is in
    closing,       \* the MountPoint's worker is in its cleanup
    faults,        \* faults so far
    changes,       \* user changes to subscription resources so far
    mountChanges   \* changes to the MountPoint so far

SubKinds == {"CreateSubscription", "EstablishSubscription"}

ASSUME SubscriptionsAssumption ==
    /\ SubKind \in [Subs -> SubKinds]
    /\ KafkaSinks \subseteq Subs
    /\ Refusable \subseteq Subs
    /\ FaultKinds \subseteq {"timeout", "lost", "crash", "kafka"}
    /\ MaxFaults \in Nat
    /\ MaxChanges \in Nat
    /\ MaxMountChanges \in Nat

Resource == [phase : {"absent", "live", "deleting"}, finalizer : BOOLEAN,
             xml : BOOLEAN, status : {"none", "subscribed", "failed"},
             id : SubIds \cup {Nil}]

Absent == [phase |-> "absent", finalizer |-> FALSE, xml |-> TRUE,
           status |-> "none", id |-> Nil]
New    == [Absent EXCEPT !.phase = "live"]

Idle == [pc |-> "idle", obj |-> Nil, instance |-> Absent, fresh |-> FALSE,
         session |-> Nil, id |-> Nil, err |-> FALSE]

Task == [pc : {"idle", "init", "logic", "rpc", "register", "cleanup", "delete",
               "finalize", "write"},
         obj : Subs \cup {Nil}, instance : Resource, fresh : BOOLEAN,
         session : SessionIds \cup {Nil}, id : SubIds \cup {Nil}, err : BOOLEAN]

apiVars == <<obj, cache, watch>>
bounds  == <<faults, changes, mountChanges>>
mountPointVars == <<mountVars, closing>>
vars    == <<mountPointVars, notifyVars, apiVars, queue, task, bounds>>

\* Every variable has its type.
SubscriptionsTypeOK ==
    /\ MountTypeOK
    /\ NotifyTypeOK
    /\ obj \in [Subs -> Resource]
    /\ cache \in [Subs -> Resource]
    /\ watch \in [Subs -> {"synced", "status", "event"}]
    /\ queue \subseteq Subs
    /\ task \in [SubKinds -> Task]
    /\ closing \in BOOLEAN
    /\ faults \in 0 .. MaxFaults
    /\ changes \in 0 .. MaxChanges
    /\ mountChanges \in 0 .. MaxMountChanges

Init ==
    /\ MountInit
    /\ NotifyInit
    /\ obj = [r \in Subs |-> Absent]
    /\ cache = [r \in Subs |-> Absent]
    /\ watch = [r \in Subs |-> "synced"]
    /\ queue = {}
    /\ task = [k \in SubKinds |-> Idle]
    /\ closing = FALSE
    /\ faults = 0
    /\ changes = 0
    /\ mountChanges = 0

Fault(f) ==
    /\ f \in FaultKinds
    /\ faults < MaxFaults
    /\ faults' = faults + 1
    /\ UNCHANGED <<changes, mountChanges>>

-----------------------------------------------------------------------------
(* Users, the informer and the work queue *)

Fired(r)  == [watch EXCEPT ![r] = "event"]
Silent(r) == [watch EXCEPT ![r] = IF @ = "synced" THEN "status" ELSE @]

\* Somebody else wrote r: the copy a worker may hold has an old version.
Outdated(r) ==
    [task EXCEPT ![SubKind[r]].fresh = IF task[SubKind[r]].obj = r THEN FALSE ELSE @]

UserChange ==
    /\ changes < MaxChanges
    /\ changes' = changes + 1
    /\ UNCHANGED <<faults, mountChanges>>

Create(r) ==
    /\ obj[r].phase = "absent"
    /\ obj' = [obj EXCEPT ![r] = New]
    /\ watch' = Fired(r)
    /\ UNCHANGED <<cache, queue, task, bounds>>

\* A finalizer, or foreground propagation, makes a deletion wait.
Delete(r) ==
    /\ obj[r].phase = "live"
    /\ UserChange
    /\ \/ obj' = [obj EXCEPT ![r].phase = "deleting"]
       \/ ~obj[r].finalizer /\ obj' = [obj EXCEPT ![r] = Absent]
    /\ watch' = Fired(r)
    /\ task' = Outdated(r)
    /\ UNCHANGED <<cache, queue>>

\* The garbage collector ends a foreground deletion.
Collect(r) ==
    /\ obj[r].phase = "deleting"
    /\ ~obj[r].finalizer
    /\ obj' = [obj EXCEPT ![r] = Absent]
    /\ watch' = Fired(r)
    /\ task' = Outdated(r)
    /\ UNCHANGED <<cache, queue, bounds>>

\* The user changes the spec, for an EstablishSubscription to XML that is
\* well-formed or not, or only the metadata.
Edit(r) ==
    /\ obj[r].phase # "absent"
    /\ UserChange
    /\ \/ /\ \E xml \in BOOLEAN :
               /\ xml \/ SubKind[r] = "EstablishSubscription"
               /\ obj' = [obj EXCEPT ![r].xml = xml]
          /\ watch' = Fired(r)
       \/ /\ watch' = Silent(r)
          /\ UNCHANGED obj
    /\ task' = Outdated(r)
    /\ UNCHANGED <<cache, queue>>

CacheSync(r) ==
    /\ watch[r] # "synced"
    /\ cache' = [cache EXCEPT ![r] = obj[r]]
    /\ watch' = [watch EXCEPT ![r] = "synced"]
    /\ queue' = IF watch[r] = "event" THEN queue \cup {r} ELSE queue
    /\ UNCHANGED <<obj, task, bounds>>

Dequeue(r) ==
    /\ r \in queue
    /\ task[SubKind[r]].pc = "idle"
    /\ queue' = queue \ {r}

\* The reconcile of r that has read r from the cache and goes on at pc.
Reconciling(r, pc) ==
    [Idle EXCEPT !.pc = pc, !.obj = r, !.instance = cache[r],
                 !.fresh = (watch[r] = "synced")]

At(r, pc) == task[SubKind[r]].obj = r /\ task[SubKind[r]].pc = pc

EndTask(r) == task' = [task EXCEPT ![SubKind[r]] = Idle]

\* The reconcile goes on at pc.
Goto(r, pc) == task' = [task EXCEPT ![SubKind[r]].pc = pc]

\* The reconcile reports: with this status, and with an error or not.
Outcome(r, status, err) ==
    task' = [task EXCEPT ![SubKind[r]] =
               [@ EXCEPT !.pc = "write", !.err = err, !.session = Nil,
                         !.id = Nil, !.instance.status = status]]

\* ManageSuccess and ManageError write the status, and the resource comes back
\* or not.  The API server refuses an old version, which is an error.
WriteAndRetry(r, retry) ==
    LET t == task[SubKind[r]] IN
    /\ At(r, "write")
    /\ EndTask(r)
    /\ \/ /\ t.fresh
          /\ obj' = [obj EXCEPT ![r].status = t.instance.status,
                                ![r].id = t.instance.id]
          /\ watch' = Silent(r)
          /\ queue' = IF retry THEN queue \cup {r} ELSE queue
       \/ /\ ~t.fresh
          /\ queue' = queue \cup {r}
          /\ UNCHANGED <<obj, watch>>
    /\ UNCHANGED <<cache, bounds, mountPointVars, notifyVars>>

\* Mutant: a reconcile error is reported but not returned to the queue.
WriteStatus_NotRetried(r) == WriteAndRetry(r, FALSE)

\* An error of the reconcile makes the queue retry.
WriteStatus(r) == WriteAndRetry(r, task[SubKind[r]].err)

\* The process dies and is started again; its Session objects die with it.
Panic ==
    /\ Restart
    /\ cache' = obj
    /\ watch' = [r \in Subs |-> "synced"]
    /\ queue' = {r \in Subs : obj[r].phase # "absent"}
    /\ task' = [k \in SubKinds |-> Idle]
    /\ callbacks' = [s \in SessionIds |-> {}]
    /\ handler' = [s \in SessionIds |-> Nil]
    /\ streamCreated' = [s \in SessionIds |-> FALSE]
    /\ closing' = FALSE
    /\ UNCHANGED obj

-----------------------------------------------------------------------------
(* What both controllers do *)

CheckMountPointExists == mounted /\ session # Nil

\* isValid failed: on the way to ManageErrorWithRequeue.
Failing(r) == [Reconciling(r, "write") EXCEPT !.err = TRUE]

\* Sessions is read after isValid has looked at it: the entry may be gone, and
\* the reconcile that has got to pc panics on a nil session.
SessionGone(r, pc) ==
    /\ At(r, pc)
    /\ session = Nil
    /\ Panic
    /\ UNCHANGED <<serverVars, bounds>>

\* SyncRPC gets no reply from s: the session is gone, or the reply is late.
Unanswered(s) ==
    \/ ~Usable(s) /\ UNCHANGED bounds
    \/ Usable(s) /\ Fault("timeout")

\* manageOperatorLogic sends its request on the session of the moment.
Request(r) ==
    task' = [task EXCEPT ![SubKind[r]] = [@ EXCEPT !.pc = "rpc", !.session = session]]

-----------------------------------------------------------------------------
(* createsubscription_controller.go *)

CreateSubscriptionReconcile(r) ==
    /\ SubKind[r] = "CreateSubscription"
    /\ Dequeue(r)
    /\ task' = [task EXCEPT !["CreateSubscription"] =
         IF cache[r].phase = "absent" THEN Idle
         ELSE IF ~CheckMountPointExists THEN Failing(r)
         ELSE IF cache[r].phase = "deleting" THEN Idle
         ELSE Reconciling(r, "logic")]
    /\ UNCHANGED <<apiVars, bounds, mountPointVars, notifyVars>>

\* Mutant: no handler is registered.
CreateNotificationStream_NoHandler(r) ==
    /\ At(r, "logic")
    /\ session # Nil
    /\ ~streamCreated[session]
    /\ Request(r)
    /\ UNCHANGED <<serverVars, clientVars, apiVars, queue, bounds, mountPointVars>>

\* manageOperatorLogic and CreateNotificationStream up to the request: a
\* session has one stream at most, and its handler is registered first,
\* whatever it replaces.
CreateNotificationStream(r) ==
    /\ At(r, "logic")
    /\ session # Nil
    /\ \/ /\ streamCreated[session]
          /\ Outcome(r, "failed", TRUE)
          /\ UNCHANGED handler
       \/ /\ ~streamCreated[session]
          /\ handler' = [handler EXCEPT ![session] = r]
          /\ Request(r)
    /\ UNCHANGED <<serverVars, callbacks, streamCreated, apiVars, queue, bounds, mountPointVars>>

\* The reply to create-subscription, after which the flag is so or so.
StreamReply(r, created) ==
    LET s == task[SubKind[r]].session IN
    /\ At(r, "rpc")
    /\ Usable(s)
    /\ \/ /\ CreateStream(s)
          /\ streamCreated' = [streamCreated EXCEPT ![s] = created]
          /\ Outcome(r, "subscribed", FALSE)
       \/ /\ r \in Refusable
          /\ Outcome(r, "failed", TRUE)
          /\ UNCHANGED <<streams, streamCreated>>
    /\ UNCHANGED <<callbacks, handler, apiVars, queue, bounds, mountPointVars, subs, given>>

\* Mutant: IsNotificationStreamCreated is not set.
NotificationStreamReply_FlagNotSet(r) == StreamReply(r, FALSE)

\* A refusal leaves the handler behind.
NotificationStreamReply(r) == StreamReply(r, TRUE)

\* No reply: the error branch reads the errors of a nil reply and panics.  The
\* server may have created the stream.
NotificationStreamNoReply(r) ==
    LET s == task[SubKind[r]].session IN
    /\ At(r, "rpc")
    /\ Unanswered(s)
    /\ UNCHANGED streams \/ (Usable(s) /\ CreateStream(s))
    /\ Panic
    /\ UNCHANGED <<subs, given>>

CreateSubscriptionStep(r) ==
    /\ SubKind[r] = "CreateSubscription"
    /\ \/ SessionGone(r, "logic")
       \/ CreateNotificationStream(r)
       \/ NotificationStreamReply(r)
       \/ NotificationStreamNoReply(r)
       \/ WriteStatus(r)

-----------------------------------------------------------------------------
(* establishsubscription_controller.go *)

\* The validation comes before initialization and finalization: a resource
\* whose MountPoint is gone or whose XML is not well-formed gets to neither.
ReconcileWith(r, initialized) ==
    /\ SubKind[r] = "EstablishSubscription"
    /\ Dequeue(r)
    /\ task' = [task EXCEPT !["EstablishSubscription"] =
         IF cache[r].phase = "absent" THEN Idle
         ELSE IF ~(CheckMountPointExists /\ cache[r].xml) THEN Failing(r)
         ELSE IF ~initialized THEN Reconciling(r, "init")
         ELSE IF cache[r].phase = "deleting" THEN Reconciling(r, "cleanup")
         ELSE Reconciling(r, "logic")]
    /\ UNCHANGED <<apiVars, bounds, mountPointVars, notifyVars>>

\* Mutant: no initialization.
EstablishSubscriptionReconcile_NoFinalizer(r) == ReconcileWith(r, TRUE)

EstablishSubscriptionReconcile(r) == ReconcileWith(r, cache[r].finalizer)

\* isInitialized added the finalizer; Update stores it, or is refused: an old
\* version, or a resource that is being deleted.  ManageError then writes the
\* status, which a resource that is being deleted takes.
EstablishSubscriptionInitialize(r) ==
    LET t      == task[SubKind[r]]
        stored == t.fresh /\ obj[r].phase = "live"
    IN
    /\ At(r, "init")
    /\ \/ /\ stored
          /\ obj' = [obj EXCEPT ![r].finalizer = TRUE]
          /\ watch' = Fired(r)
          /\ EndTask(r)
       \/ /\ ~stored
          /\ Outcome(r, t.instance.status, TRUE)
          /\ UNCHANGED <<obj, watch>>
    /\ UNCHANGED <<cache, queue, bounds, mountPointVars, notifyVars>>

EstablishSubscriptionSend(r) ==
    /\ At(r, "logic")
    /\ session # Nil
    /\ Request(r)
    /\ UNCHANGED <<apiVars, queue, bounds, mountPointVars, notifyVars>>

\* The reply to establish-subscription has been received.  An rpc-error is
\* reported without a Go error, so it is not retried.
EstablishSubscriptionReply(r) ==
    LET s == task[SubKind[r]].session IN
    /\ At(r, "rpc")
    /\ Usable(s)
    /\ \/ \E i \in SubIds :
          /\ Establish(r, s, i)
          /\ task' = [task EXCEPT ![SubKind[r]] = [@ EXCEPT !.pc = "register", !.id = i]]
       \/ /\ r \in Refusable \/ FreeIds = {}
          /\ Outcome(r, "failed", FALSE)
          /\ UNCHANGED <<subs, given>>
    /\ UNCHANGED <<streams, clientVars, apiVars, queue, bounds, mountPointVars>>

\* No reply: the error is returned and the request repeated, although the
\* server may have established the subscription.
EstablishSubscriptionNoReply(r) ==
    LET s == task[SubKind[r]].session IN
    /\ At(r, "rpc")
    /\ Unanswered(s)
    /\ \/ UNCHANGED <<subs, given>>
       \/ Usable(s) /\ \E i \in SubIds : Establish(r, s, i)
    /\ Outcome(r, "failed", TRUE)
    /\ UNCHANGED <<streams, clientVars, apiVars, queue, mountPointVars>>

\* The end of manageOperatorLogic, with the id of the reply.
Subscribed(r, status) ==
    /\ At(r, "register")
    /\ task' = [task EXCEPT ![SubKind[r]] =
                  [@ EXCEPT !.pc = "write", !.session = Nil, !.id = Nil,
                            !.instance.status = status,
                            !.instance.id = task[SubKind[r]].id]]
    /\ UNCHANGED <<serverVars, handler, streamCreated, apiVars, queue, bounds, mountPointVars>>

\* Mutant: the callback is not registered.
EstablishSubscriptionRegister_NoCallback(r) ==
    Subscribed(r, "subscribed") /\ UNCHANGED callbacks

\* Mutant: the status the other controllers give.
EstablishSubscriptionRegister_Success(r) ==
    /\ Subscribed(r, "success")
    /\ Register(task[SubKind[r]].session, task[SubKind[r]].id)

\* The callback is registered some time after the reply.
EstablishSubscriptionRegister(r) ==
    /\ Subscribed(r, "subscribed")
    /\ Register(task[SubKind[r]].session, task[SubKind[r]].id)

\* manageCleanUpLogic of a resource without a subscription id.
EstablishSubscriptionNoCleanUp(r) ==
    /\ At(r, "cleanup")
    /\ task[SubKind[r]].instance.id = Nil
    /\ Goto(r, "finalize")
    /\ UNCHANGED <<apiVars, queue, bounds, mountPointVars, notifyVars>>

\* manageCleanUpLogic up to delete-subscription: the session is the one the
\* MountPoint has now, not the one the subscription was made on.
EstablishSubscriptionCleanUp(r) ==
    LET i == task[SubKind[r]].instance.id IN
    /\ At(r, "cleanup")
    /\ i # Nil
    /\ \/ SessionGone(r, "cleanup")
       \/ /\ session # Nil
          /\ Remove(session, i)
          /\ task' = [task EXCEPT ![SubKind[r]] =
                        [@ EXCEPT !.pc = "delete", !.session = session]]
          /\ UNCHANGED <<serverVars, handler, streamCreated,
                         apiVars, queue, bounds, mountPointVars>>

\* Any reply to delete-subscription will do.
DeleteAnswered(r) ==
    /\ At(r, "delete")
    /\ Usable(task[SubKind[r]].session)
    /\ Goto(r, "finalize")
    /\ UNCHANGED <<given, streams, clientVars, apiVars, queue, bounds, mountPointVars>>

\* Mutant: delete-subscription names no id and ends all the session has.
DeleteReply_NoId(r) ==
    /\ DeleteAnswered(r)
    /\ subs' = {n \in subs : n.session # task[SubKind[r]].session}

DeleteReply(r) ==
    /\ DeleteAnswered(r)
    /\ DeleteSubscription(task[SubKind[r]].session, task[SubKind[r]].instance.id)

\* Without a reply the cleanup fails and is repeated.
DeleteNoReply(r) ==
    LET t == task[SubKind[r]] IN
    /\ At(r, "delete")
    /\ Unanswered(t.session)
    /\ \/ UNCHANGED subs
       \/ Usable(t.session) /\ DeleteSubscription(t.session, t.instance.id)
    /\ Outcome(r, t.instance.status, TRUE)
    /\ UNCHANGED <<given, streams, clientVars, apiVars, queue, mountPointVars>>

\* RemoveFinalizer and Update.
EstablishSubscriptionFinalize(r) ==
    LET t == task[SubKind[r]] IN
    /\ At(r, "finalize")
    /\ EndTask(r)
    /\ \/ /\ t.fresh
          /\ obj' = [obj EXCEPT ![r] = Absent]
          /\ watch' = Fired(r)
          /\ UNCHANGED queue
       \/ /\ ~t.fresh
          /\ queue' = queue \cup {r}
          /\ UNCHANGED <<obj, watch>>
    /\ UNCHANGED <<cache, bounds, mountPointVars, notifyVars>>

EstablishSubscriptionStep(r) ==
    /\ SubKind[r] = "EstablishSubscription"
    /\ \/ EstablishSubscriptionInitialize(r)
       \/ SessionGone(r, "logic")
       \/ EstablishSubscriptionSend(r)
       \/ EstablishSubscriptionReply(r)
       \/ EstablishSubscriptionNoReply(r)
       \/ EstablishSubscriptionRegister(r)
       \/ EstablishSubscriptionNoCleanUp(r)
       \/ EstablishSubscriptionCleanUp(r)
       \/ DeleteReply(r)
       \/ DeleteNoReply(r)
       \/ EstablishSubscriptionFinalize(r)
       \/ WriteStatus(r)

-----------------------------------------------------------------------------
(* The MountPoint, the server and the process *)

MountChange ==
    /\ mountChanges < MaxMountChanges
    /\ mountChanges' = mountChanges + 1
    /\ UNCHANGED <<faults, changes>>

\* The cache shows the MountPoint, or shows it no longer.
MountPointSeen ==
    /\ Notice
    /\ \/ mounted' /\ UNCHANGED bounds
       \/ ~mounted' /\ MountChange
    /\ UNCHANGED <<apiVars, queue, task, closing, notifyVars>>

\* manageOperatorLogic of the MountPoint: the first session, or another one.
MountPointDial(s) ==
    /\ ~closing
    /\ \A k \in SubKinds : task[k].session # s
    /\ Connect(s)
    /\ NewDispatcher(s)
    /\ \/ session = Nil /\ UNCHANGED bounds
       \/ session # Nil /\ MountChange
    /\ UNCHANGED <<apiVars, queue, task, closing, serverVars>>

\* manageCleanUpLogic of the MountPoint up to close-session, which the server
\* answers or not.
MountPointCloseSession ==
    /\ ~closing
    /\ session # Nil
    /\ MountChange
    /\ closing' = TRUE
    /\ \/ Usable(session) /\ End(session) /\ EndNotifications(session)
       \/ UNCHANGED <<mountVars, subs, streams>>
    /\ UNCHANGED <<apiVars, queue, task, given, clientVars>>

\* The rest of it: the stream handler goes with the entry in Sessions.
MountPointCleanUp ==
    /\ closing
    /\ closing' = FALSE
    /\ Disconnect
    /\ handler' = [handler EXCEPT ![session] = Nil]
    /\ UNCHANGED <<apiVars, queue, task, bounds, serverVars, callbacks, streamCreated>>

\* The server ends a session: its peer is gone, or for its own reasons.
EndSession(s) ==
    /\ End(s)
    /\ EndNotifications(s)
    /\ \/ s \in orphans /\ UNCHANGED bounds
       \/ s \notin orphans /\ Fault("lost")
    /\ UNCHANGED <<apiVars, queue, task, closing, given, clientVars>>

\* SendToKafka, called by the callback of a notification, ends the process
\* when it cannot reach the broker; its other errors are ignored.
SendToKafka ==
    /\ \/ \E n \in subs : Heard(n) /\ n.by \in KafkaSinks
       \/ \E s \in SessionIds : StreamHeard(s) /\ handler[s] \in KafkaSinks
    /\ Fault("kafka")
    /\ Panic
    /\ UNCHANGED serverVars

Crash ==
    /\ Fault("crash")
    /\ Panic
    /\ UNCHANGED serverVars

User(r) ==
    /\ Create(r) \/ Delete(r) \/ Edit(r) \/ Collect(r)
    /\ UNCHANGED <<mountPointVars, notifyVars>>

Informer(r) == CacheSync(r) /\ UNCHANGED <<mountPointVars, notifyVars>>

Next ==
    \/ \E r \in Subs :
         \/ User(r)
         \/ Informer(r)
         \/ CreateSubscriptionReconcile(r)
         \/ CreateSubscriptionStep(r)
         \/ EstablishSubscriptionReconcile(r)
         \/ EstablishSubscriptionStep(r)
    \/ MountPointSeen
    \/ MountPointCloseSession
    \/ MountPointCleanUp
    \/ \E s \in SessionIds : MountPointDial(s) \/ EndSession(s)
    \/ SendToKafka
    \/ Crash

Spec == Init /\ [][Next]_vars

\* Informers deliver, workers go on, the work queue is first-in first-out, a
\* MountPoint that is there gets connected, a server notices dead peers, and
\* the garbage collector ends the deletions that wait for nothing.
Fairness ==
    /\ \A r \in Subs :
         /\ WF_vars(Informer(r))
         /\ WF_vars(Collect(r) /\ UNCHANGED <<mountPointVars, notifyVars>>)
         /\ SF_vars(CreateSubscriptionReconcile(r))
         /\ WF_vars(CreateSubscriptionStep(r))
         /\ SF_vars(EstablishSubscriptionReconcile(r))
         /\ WF_vars(EstablishSubscriptionStep(r))
    /\ WF_vars(MountPointCleanUp)
    /\ \A s \in SessionIds :
         /\ WF_vars(mounted /\ session = Nil /\ MountPointDial(s))
         /\ WF_vars(s \in orphans /\ EndSession(s))

FairSpec == Spec /\ Fairness

-----------------------------------------------------------------------------

\* establishsubscription_controller.go: a subscription the server sends for,
\* and whose id a resource that stays shows as subscribed, is listened to;
\* over edits, repeated requests, late replies, cleanups of other resources,
\* new sessions and restarts.  For servers that give no id twice; with an id
\* given again a cleanup can remove the callback of another (DeletesOnlyOwn).
AcknowledgedIsHeard ==
    \A n \in subs :
        /\ obj[n.by].phase = "live"
        /\ obj[n.by].status = "subscribed"
        /\ obj[n.by].id = n.id
        /\ Usable(n.session)
        => Heard(n)

\* manageCleanUpLogic of r deletes a subscription only by an id that the server
\* has given to r itself, and only when r does not stay with that id: copies
\* that are stale, repeated cleanups, late replies, restarts and a resource that
\* is created again under its name never bring in the id of another.  So another
\* resource's subscription can only be hit where the server gives an id twice
\* (ReuseIds; DeletesOnlyOwn below).
DeletesOnlyGiven ==
    [][\A n \in subs \ subs' :
         \/ n.session \notin open'
         \/ \E g \in given :
              /\ g.id = n.id
              /\ At(g.by, "delete")
              /\ obj[g.by].phase # "live" \/ obj[g.by].id # n.id]_vars

\* CreateNotificationStream: a session is never granted two streams, whatever
\* is retried, edited or restarted, and with several resources on it.
OneStreamPerSession == \A s \in SessionIds : streams[s] <= 1

\* CreateNotificationStream registers first: no notification of a stream is
\* without a handler until the MountPoint is deleted.
StreamsAreHandled ==
    \A s \in SessionIds : Usable(s) /\ streams[s] > 0 => handler[s] # Nil

\* The finalizer that manageCleanUpLogic needs is stored before the first
\* subscription: while a server sends for an EstablishSubscription that shows
\* an id, the resource cannot disappear without a cleanup.
SubscribedHasFinalizer ==
    \A r \in Subs : obj[r].id # Nil => obj[r].finalizer

\* Nothing keeps r's controller from working on the session.
Ready(r) ==
    /\ mounted
    /\ session # Nil /\ Usable(session)
    /\ obj[r].xml

\* An EstablishSubscription that is deleted disappears, over late replies to
\* delete-subscription and restarts, unless its MountPoint or the XML in its
\* spec keeps isValid from succeeding or the session in Sessions is dead.
EstablishDeletes ==
    \A r \in Subs :
        obj[r].phase = "deleting" ~> (obj[r].phase # "deleting" \/ ~Ready(r))

\* A callback is there for what the server sends for r.
Listening(r) ==
    \/ \E n \in subs : n.by = r /\ Heard(n)
    \/ \E s \in SessionIds : StreamHeard(s) /\ handler[s] = r

\* Notifications for a resource that stays are received again after every
\* restart, timeout and edit, unless its status says that it failed (a server
\* that gives no more ids).  Left out are resources whose MountPoint was changed
\* (mountChanges) or whose session the server has ended (~Ready): nobody tells
\* the controller of either, and its status goes on to say subscribed.
Resubscribes ==
    \A r \in Subs :
        []<>(\/ obj[r].phase # "live"
             \/ obj[r].status = "failed"
             \/ ~Ready(r)
             \/ mountChanges > 0
             \/ Listening(r))

-----------------------------------------------------------------------------
(* What the documentation says, and the code does not do *)

\* README, "NETCONF notifications usage": by registering to a notification
\* stream the operator receives the notification and translates it.  No
\* notification of a subscription that was answered finds no callback.
NotificationsReceived ==
    \A n \in subs : obj[n.by].phase = "live" /\ Usable(n.session) => Heard(n)

\* README, "Establish subscription": "When deleting a CR, the operator will
\* execute a `delete-subscription` with the _subscription-id_ defined for that
\* subscription".  When the resource is gone, the operator receives nothing
\* more for it.
DeletionUnsubscribes ==
    \A n \in subs : Heard(n) => obj[n.by].phase # "absent"

\* The same line: the id is that of the deleted resource's own subscription, and
\* no subscription that a resource which stays refers to ends but with its
\* session.
DeletesOnlyOwn ==
    [][\A n \in subs \ subs' :
         \/ n.session \notin open'
         \/ obj[n.by].phase # "live"
         \/ obj[n.by].id # n.id]_vars

\* The same line: the clean-up of a deleted EstablishSubscription comes to its
\* end, and the resource goes.
DeletionTakesEffect ==
    \A r \in Subs : obj[r].phase = "deleting" ~> obj[r].phase # "deleting"
=============================================================================
