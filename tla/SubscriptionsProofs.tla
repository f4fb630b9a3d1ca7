------------------------ MODULE SubscriptionsProofs ------------------------
(***************************************************************************)
(* Proofs about Subscriptions, for any number of subscription resources,   *)
(* sessions, ids, faults and changes.                                      *)
(***************************************************************************)
EXTENDS Subscriptions, TLAPS

-----------------------------------------------------------------------------
(* The inductive invariants *)

\* A worker that is not idle has a resource of its kind; what it has got to
\* decides which of its fields it uses.
TaskShape ==
    \A k \in SubKinds :
        /\ task[k].pc = "idle" => task[k].obj = Nil
        /\ task[k].pc # "idle" => task[k].obj \in Subs /\ SubKind[task[k].obj] = k
        /\ k = "CreateSubscription" => task[k].pc \in {"idle", "logic", "rpc", "write"}
        /\ task[k].pc \in {"rpc", "register", "delete"} => task[k].session \in SessionIds
        /\ task[k].pc = "register" => task[k].id \in SubIds

\* The copy of a worker agrees with the cache and the API server until
\* somebody else writes.
FreshCopy(k) ==
    /\ watch[task[k].obj] = "synced"
    /\ task[k].instance.phase = obj[task[k].obj].phase
    /\ task[k].instance.finalizer = obj[task[k].obj].finalizer
    /\ task[k].pc # "write" => task[k].instance.id = obj[task[k].obj].id

\* What the copies of a resource say about it.
Copies ==
    /\ \A r \in Subs :
         /\ watch[r] = "synced" => cache[r] = obj[r]
         /\ cache[r].id # Nil => cache[r].finalizer
    /\ \A k \in SubKinds : task[k].pc # "idle" =>
         /\ task[k].instance.phase # "absent"
         /\ task[k].instance.id # Nil => task[k].instance.finalizer
         /\ task[k].fresh => FreshCopy(k)
         /\ task[k].pc = "register" => task[k].instance.finalizer
         /\ k = "EstablishSubscription" /\ task[k].pc \in {"logic", "rpc"} =>
              task[k].instance.finalizer
         /\ task[k].pc \in {"cleanup", "delete", "finalize"} =>
              task[k].instance.phase = "deleting"

ApiInv ==
    /\ SubscriptionsTypeOK
    /\ TaskShape
    /\ Copies
    /\ SubscribedHasFinalizer

\* create-subscription is under way on s.
Creating(s) ==
    /\ task["CreateSubscription"].pc = "rpc"
    /\ task["CreateSubscription"].session = s

\* IsNotificationStreamCreated of a session tells what its server has granted,
\* and the handler is there before it is.
StreamsInv ==
    \A s \in SessionIds :
        /\ s \notin open => streams[s] = 0
        /\ streams[s] <= 1
        /\ Usable(s) /\ streams[s] > 0 => streamCreated[s] /\ handler[s] # Nil
        /\ Usable(s) /\ Creating(s) => ~streamCreated[s] /\ handler[s] # Nil


-----------------------------------------------------------------------------
(* What a step does to the resources, their copies and the workers *)

\* The worker of k, and no other, makes a step, and no resource changes.
Works(k) ==
    /\ UNCHANGED <<obj, cache, watch>>
    /\ task' \in [SubKinds -> Task]
    /\ \A j \in SubKinds \ {k} : task'[j] = task[j]

\* It takes r, and is done or goes on.
Starts(r) ==
    LET k == SubKind[r] IN
    /\ Works(k)
    /\ task[k].pc = "idle"
    /\ \/ task'[k] = Idle
       \/ /\ cache[r].phase # "absent"
          /\ task'[k].obj = r
          /\ task'[k].instance = cache[r]
          /\ task'[k].fresh = (watch[r] = "synced")
          /\ task'[k].id = Nil
          /\ task'[k].pc \in {"write", "init", "cleanup", "logic"}
          /\ k = "CreateSubscription" => task'[k].pc \in {"write", "logic"}
          /\ k = "EstablishSubscription" /\ task'[k].pc = "logic" => cache[r].finalizer
          /\ task'[k].pc = "cleanup" => cache[r].phase = "deleting"

\* It goes on with r from one step to another.
GoesOn(r) ==
    LET k == SubKind[r] IN
    /\ Works(k)
    /\ task[k].obj = r
    /\ task'[k].obj = r
    /\ task'[k].instance = task[k].instance
    /\ task'[k].fresh = task[k].fresh
    /\ <<task[k].pc, task'[k].pc>> \in
         {<<"logic", "rpc">>, <<"rpc", "register">>, <<"cleanup", "delete">>,
          <<"cleanup", "finalize">>, <<"delete", "finalize">>}
    /\ task'[k].pc = "register" => k = "EstablishSubscription" /\ task'[k].id \in SubIds
    /\ task'[k].pc # "register" => task'[k].id = task[k].id
    /\ task'[k].pc \in {"rpc", "delete"} => task'[k].session \in SessionIds
    /\ task'[k].pc \in {"register", "finalize"} => task'[k].session = task[k].session

\* It is about to report on r, with a new id or not.
Reports(r) ==
    LET k == SubKind[r] IN
    /\ Works(k)
    /\ task[k].obj = r
    /\ task[k].pc \notin {"idle", "write"}
    /\ task'[k].obj = r
    /\ task'[k].pc = "write"
    /\ task'[k].fresh = task[k].fresh
    /\ task'[k].id = Nil
    /\ task'[k].instance.phase = task[k].instance.phase
    /\ task'[k].instance.finalizer = task[k].instance.finalizer
    /\ task'[k].instance.id = IF task[k].pc = "register" THEN task[k].id
                              ELSE task[k].instance.id

\* It is done with r, and has written it if its copy was not old.
Finishes(r) ==
    LET k == SubKind[r] IN
    /\ task[k].obj = r
    /\ task[k].pc \in {"init", "write", "finalize"}
    /\ task' = [task EXCEPT ![k] = Idle]
    /\ cache' = cache
    /\ \/ UNCHANGED <<obj, watch>>
       \/ /\ task[k].fresh
          /\ \E o \in Resource :
               /\ obj' = [obj EXCEPT ![r] = o]
               /\ \/ task[k].pc = "finalize" /\ o = Absent
                  \/ /\ o.phase = obj[r].phase
                     /\ \/ /\ task[k].pc = "init"
                           /\ o.id = obj[r].id /\ o.finalizer
                        \/ /\ task[k].pc = "write"
                           /\ o.id = task[k].instance.id
                           /\ o.finalizer = obj[r].finalizer
          /\ watch' \in {Fired(r), Silent(r)}

\* A user or the garbage collector writes r; the copy a worker has is old.
Changes(r) ==
    /\ cache' = cache
    /\ watch' \in {Fired(r), Silent(r)}
    /\ \/ obj[r].phase = "absent" /\ obj' = [obj EXCEPT ![r] = New] /\ task' = task
       \/ /\ obj[r].phase # "absent"
          /\ \/ UNCHANGED obj
             \/ \E o \in Resource :
                  /\ obj' = [obj EXCEPT ![r] = o]
                  /\ \/ o = Absent
                     \/ /\ o.phase \in {obj[r].phase, "deleting"}
                        /\ o.id = obj[r].id
                        /\ o.finalizer = obj[r].finalizer
          /\ task' = Outdated(r)

Syncs(r) ==
    /\ UNCHANGED <<obj, task>>
    /\ cache' = [cache EXCEPT ![r] = obj[r]]
    /\ watch' = [watch EXCEPT ![r] = "synced"]

Restarts ==
    /\ obj' = obj
    /\ cache' = obj
    /\ watch' = [r \in Subs |-> "synced"]
    /\ task' = [k \in SubKinds |-> Idle]

ApiStep ==
    \/ UNCHANGED <<obj, cache, watch, task>>
    \/ Restarts
    \/ \E r \in Subs : \/ Starts(r) \/ GoesOn(r) \/ Reports(r) \/ Finishes(r)
                       \/ Changes(r) \/ Syncs(r)

-----------------------------------------------------------------------------
(* The updates of the workers *)

\* Values the records of the model have.
LEMMA Values ==
    /\ Absent \in Resource /\ Absent.id = Nil /\ Absent.phase = "absent"
    /\ New \in Resource /\ New.id = Nil /\ New.phase = "live"
    /\ Idle \in Task /\ Idle.pc = "idle" /\ Idle.obj = Nil
    /\ Idle.instance = Absent /\ Idle.id = Nil
<1>1. Absent \in Resource /\ Absent.id = Nil /\ Absent.phase = "absent"
  BY DEF Absent, Resource
<1>2. New \in Resource /\ New.id = Nil /\ New.phase = "live"
  BY <1>1 DEF New, Absent, Resource
<1>3. Idle \in Task /\ Idle.pc = "idle" /\ Idle.obj = Nil /\ Idle.instance = Absent /\ Idle.id = Nil
  BY <1>1 DEF Idle, Task
<1> QED
  BY <1>1, <1>2, <1>3

\* The worker of k gets the value t.
LEMMA TaskUpdate ==
    ASSUME task \in [SubKinds -> Task], NEW k \in SubKinds, NEW t \in Task,
           task' = [task EXCEPT ![k] = t]
    PROVE  /\ task' \in [SubKinds -> Task]
           /\ task'[k] = t
           /\ \A j \in SubKinds \ {k} : task'[j] = task[j]
  OBVIOUS

\* The worker of k goes on at pc.
LEMMA PcMove ==
    ASSUME task \in [SubKinds -> Task], NEW k \in SubKinds,
           NEW pc \in {"rpc", "register", "delete", "finalize"},
           task' = [task EXCEPT ![k].pc = pc]
    PROVE  /\ task' \in [SubKinds -> Task]
           /\ \A j \in SubKinds \ {k} : task'[j] = task[j]
           /\ task'[k].pc = pc
           /\ task'[k].session = task[k].session
           /\ task'[k].id = task[k].id
           /\ task'[k].obj = task[k].obj
           /\ task'[k].instance = task[k].instance
           /\ task'[k].fresh = task[k].fresh
<1> DEFINE t == task[k]
           u == [t EXCEPT !.pc = pc]
<1>1. t \in Task
  OBVIOUS
<1>2. /\ u \in Task
      /\ u.pc = pc /\ u.session = t.session /\ u.id = t.id /\ u.obj = t.obj
      /\ u.instance = t.instance /\ u.fresh = t.fresh
  BY <1>1 DEF Task
<1>3. task' = [task EXCEPT ![k] = u]
  OBVIOUS
<1> QED
  BY <1>2, <1>3, TaskUpdate

\* The worker of k goes on at pc with the session s.
LEMMA SessionMove ==
    ASSUME task \in [SubKinds -> Task], NEW k \in SubKinds,
           NEW pc \in {"rpc", "register", "delete", "finalize"},
           NEW s \in SessionIds \cup {Nil},
           task' = [task EXCEPT ![k] = [@ EXCEPT !.pc = pc, !.session = s]]
    PROVE  /\ task' \in [SubKinds -> Task]
           /\ \A j \in SubKinds \ {k} : task'[j] = task[j]
           /\ task'[k].pc = pc
           /\ task'[k].session = s
           /\ task'[k].id = task[k].id
           /\ task'[k].obj = task[k].obj
           /\ task'[k].instance = task[k].instance
           /\ task'[k].fresh = task[k].fresh
<1> DEFINE t == task[k]
           u == [t EXCEPT !.pc = pc, !.session = s]
<1>1. t \in Task
  OBVIOUS
<1>2. /\ u \in Task
      /\ u.pc = pc /\ u.session = s /\ u.id = t.id /\ u.obj = t.obj
      /\ u.instance = t.instance /\ u.fresh = t.fresh
  BY <1>1 DEF Task
<1>3. task' = [task EXCEPT ![k] = u]
  OBVIOUS
<1> QED
  BY <1>2, <1>3, TaskUpdate

\* The worker of k goes on at pc with the id i.
LEMMA IdMove ==
    ASSUME task \in [SubKinds -> Task], NEW k \in SubKinds,
           NEW pc \in {"rpc", "register", "delete", "finalize"},
           NEW i \in SubIds \cup {Nil},
           task' = [task EXCEPT ![k] = [@ EXCEPT !.pc = pc, !.id = i]]
    PROVE  /\ task' \in [SubKinds -> Task]
           /\ \A j \in SubKinds \ {k} : task'[j] = task[j]
           /\ task'[k].pc = pc
           /\ task'[k].session = task[k].session
           /\ task'[k].id = i
           /\ task'[k].obj = task[k].obj
           /\ task'[k].instance = task[k].instance
           /\ task'[k].fresh = task[k].fresh
<1> DEFINE t == task[k]
           u == [t EXCEPT !.pc = pc, !.id = i]
<1>1. t \in Task
  OBVIOUS
<1>2. /\ u \in Task
      /\ u.pc = pc /\ u.session = t.session /\ u.id = i /\ u.obj = t.obj
      /\ u.instance = t.instance /\ u.fresh = t.fresh
  BY <1>1 DEF Task
<1>3. task' = [task EXCEPT ![k] = u]
  OBVIOUS
<1> QED
  BY <1>2, <1>3, TaskUpdate

\* The end of manageOperatorLogic, with an outcome.
LEMMA OutcomeFacts ==
    ASSUME task \in [SubKinds -> Task], NEW r \in Subs, SubKind[r] \in SubKinds,
           NEW status \in {"none", "subscribed", "failed"}, NEW err \in BOOLEAN,
           Outcome(r, status, err)
    PROVE  LET k == SubKind[r] IN
           /\ task' \in [SubKinds -> Task]
           /\ \A j \in SubKinds \ {k} : task'[j] = task[j]
           /\ task'[k].pc = "write"
           /\ task'[k].obj = task[k].obj
           /\ task'[k].fresh = task[k].fresh
           /\ task'[k].id = Nil
           /\ task'[k].instance.phase = task[k].instance.phase
           /\ task'[k].instance.finalizer = task[k].instance.finalizer
           /\ task'[k].instance.id = task[k].instance.id
<1> DEFINE k == SubKind[r]
           t == task[k]
           o == [t.instance EXCEPT !.status = status]
           u == [t EXCEPT !.pc = "write", !.err = err, !.session = Nil, !.id = Nil,
                          !.instance = o]
<1>1. t \in Task /\ t.instance \in Resource
  BY DEF Task
<1>2. o \in Resource /\ o.phase = t.instance.phase /\ o.finalizer = t.instance.finalizer
      /\ o.id = t.instance.id
  BY <1>1 DEF Resource
<1> HIDE DEF o
<1>3. /\ u \in Task
      /\ u.pc = "write" /\ u.id = Nil /\ u.obj = t.obj /\ u.fresh = t.fresh
      /\ u.instance = o
  BY <1>1, <1>2 DEF Task
<1>4. task' = [task EXCEPT ![k] = u]
  BY DEF Outcome, o
<1> QED
  BY <1>2, <1>3, <1>4, TaskUpdate

\* The end of manageOperatorLogic, with an id.
LEMMA SubscribedFacts ==
    ASSUME task \in [SubKinds -> Task], NEW r \in Subs, SubKind[r] \in SubKinds,
           task[SubKind[r]].id \in SubIds, Subscribed(r, "subscribed")
    PROVE  LET k == SubKind[r] IN
           /\ task' \in [SubKinds -> Task]
           /\ \A j \in SubKinds \ {k} : task'[j] = task[j]
           /\ task'[k].pc = "write"
           /\ task'[k].obj = task[k].obj
           /\ task'[k].fresh = task[k].fresh
           /\ task'[k].id = Nil
           /\ task'[k].instance.phase = task[k].instance.phase
           /\ task'[k].instance.finalizer = task[k].instance.finalizer
           /\ task'[k].instance.id = task[k].id
<1> DEFINE k == SubKind[r]
           t == task[k]
           o == [t.instance EXCEPT !.status = "subscribed", !.id = t.id]
           u == [t EXCEPT !.pc = "write", !.session = Nil, !.id = Nil, !.instance = o]
<1>1. t \in Task /\ t.instance \in Resource
  BY DEF Task
<1>2. o \in Resource /\ o.phase = t.instance.phase /\ o.finalizer = t.instance.finalizer
      /\ o.id = t.id
  BY <1>1 DEF Resource
<1> HIDE DEF o
<1>3. /\ u \in Task
      /\ u.pc = "write" /\ u.id = Nil /\ u.obj = t.obj /\ u.fresh = t.fresh
      /\ u.instance = o
  BY <1>1, <1>2 DEF Task
<1>4. task' = [task EXCEPT ![k] = u]
  BY DEF Subscribed, o
<1> QED
  BY <1>2, <1>3, <1>4, TaskUpdate

\* The beginning of a reconcile.
LEMMA ReconcilingFacts ==
    ASSUME cache \in [Subs -> Resource], NEW r \in Subs,
           NEW pc \in {"write", "init", "cleanup", "logic"}
    PROVE  /\ Reconciling(r, pc) \in Task
           /\ Reconciling(r, pc).pc = pc
           /\ Reconciling(r, pc).obj = r
           /\ Reconciling(r, pc).instance = cache[r]
           /\ Reconciling(r, pc).fresh = (watch[r] = "synced")
           /\ Reconciling(r, pc).id = Nil
           /\ Failing(r) \in Task
           /\ Failing(r).pc = "write"
           /\ Failing(r).obj = r
           /\ Failing(r).instance = cache[r]
           /\ Failing(r).fresh = (watch[r] = "synced")
           /\ Failing(r).id = Nil
<1>1. /\ Reconciling(r, pc) \in Task
      /\ Reconciling(r, pc).pc = pc
      /\ Reconciling(r, pc).obj = r
      /\ Reconciling(r, pc).instance = cache[r]
      /\ Reconciling(r, pc).fresh = (watch[r] = "synced")
      /\ Reconciling(r, pc).id = Nil
  BY DEF Reconciling, Idle, Task
<1>2. /\ Reconciling(r, "write") \in Task
      /\ Reconciling(r, "write").obj = r
      /\ Reconciling(r, "write").pc = "write"
      /\ Reconciling(r, "write").instance = cache[r]
      /\ Reconciling(r, "write").fresh = (watch[r] = "synced")
      /\ Reconciling(r, "write").id = Nil
  BY DEF Reconciling, Idle, Task
<1>3. /\ Failing(r) \in Task
      /\ Failing(r).pc = "write"
      /\ Failing(r).obj = r
      /\ Failing(r).instance = cache[r]
      /\ Failing(r).fresh = (watch[r] = "synced")
      /\ Failing(r).id = Nil
  BY <1>2 DEF Failing, Task
<1> QED
  BY <1>1, <1>3

\* The work queue hands r to the worker of its kind.
LEMMA StartsStep ==
    ASSUME SubscriptionsTypeOK, NEW r \in Subs,
           CreateSubscriptionReconcile(r) \/ EstablishSubscriptionReconcile(r)
    PROVE  Starts(r)
<1> DEFINE k == SubKind[r]
<1>1. task \in [SubKinds -> Task] /\ cache \in [Subs -> Resource] /\ k \in SubKinds
  BY SubscriptionsAssumption DEF SubscriptionsTypeOK
<1>2. task[k].pc = "idle" /\ UNCHANGED <<obj, cache, watch>>
  BY DEF CreateSubscriptionReconcile, EstablishSubscriptionReconcile, ReconcileWith, Dequeue,
         apiVars
<1>3. CASE CreateSubscriptionReconcile(r)
  <2>1. k = "CreateSubscription"
    BY <1>3 DEF CreateSubscriptionReconcile
  <2>2. \/ task' = [task EXCEPT ![k] = Idle]
        \/ /\ cache[r].phase # "absent"
           /\ \/ task' = [task EXCEPT ![k] = Failing(r)]
              \/ task' = [task EXCEPT ![k] = Reconciling(r, "logic")]
    BY <1>3, <2>1 DEF CreateSubscriptionReconcile
  <2>3. CASE task' = [task EXCEPT ![k] = Idle]
    BY <1>1, <1>2, <2>3, TaskUpdate, Values DEF Starts, Works
  <2>4. CASE cache[r].phase # "absent" /\ task' = [task EXCEPT ![k] = Failing(r)]
    <3>1. /\ Failing(r) \in Task
          /\ Failing(r).pc = "write" /\ Failing(r).obj = r /\ Failing(r).instance = cache[r]
          /\ Failing(r).fresh = (watch[r] = "synced") /\ Failing(r).id = Nil
      BY <1>1, ReconcilingFacts
    <3> QED
      BY <1>1, <1>2, <2>4, <3>1, TaskUpdate DEF Starts, Works
  <2>5. CASE cache[r].phase # "absent" /\ task' = [task EXCEPT ![k] = Reconciling(r, "logic")]
    <3> DEFINE u == Reconciling(r, "logic")
    <3>1. /\ u \in Task /\ u.pc = "logic" /\ u.obj = r /\ u.instance = cache[r]
          /\ u.fresh = (watch[r] = "synced") /\ u.id = Nil
      BY <1>1, ReconcilingFacts
    <3> HIDE DEF u
    <3>2. task' \in [SubKinds -> Task] /\ task'[k] = u
          /\ \A j \in SubKinds \ {k} : task'[j] = task[j]
      BY <1>1, <2>5, <3>1, TaskUpdate DEF u
    <3> QED
      BY <1>1, <1>2, <2>1, <2>5, <3>1, <3>2 DEF Starts, Works
  <2> QED
    BY <2>2, <2>3, <2>4, <2>5
<1>4. CASE EstablishSubscriptionReconcile(r)
  <2>1. k = "EstablishSubscription"
    BY <1>4 DEF EstablishSubscriptionReconcile, ReconcileWith
  <2>2. \/ task' = [task EXCEPT ![k] = Idle]
        \/ /\ cache[r].phase # "absent"
           /\ \/ task' = [task EXCEPT ![k] = Failing(r)]
              \/ task' = [task EXCEPT ![k] = Reconciling(r, "init")]
              \/ cache[r].phase = "deleting" /\ task' = [task EXCEPT ![k] = Reconciling(r, "cleanup")]
              \/ cache[r].finalizer /\ task' = [task EXCEPT ![k] = Reconciling(r, "logic")]
    BY <1>4, <2>1 DEF EstablishSubscriptionReconcile, ReconcileWith
  <2>3. CASE task' = [task EXCEPT ![k] = Idle]
    BY <1>1, <1>2, <2>3, TaskUpdate, Values DEF Starts, Works
  <2>4. CASE cache[r].phase # "absent" /\ task' = [task EXCEPT ![k] = Failing(r)]
    <3>1. /\ Failing(r) \in Task
          /\ Failing(r).pc = "write" /\ Failing(r).obj = r /\ Failing(r).instance = cache[r]
          /\ Failing(r).fresh = (watch[r] = "synced") /\ Failing(r).id = Nil
      BY <1>1, ReconcilingFacts
    <3> QED
      BY <1>1, <1>2, <2>4, <3>1, TaskUpdate DEF Starts, Works
  <2>5. ASSUME NEW pc \in {"init", "cleanup", "logic"},
               cache[r].phase # "absent",
               pc = "cleanup" => cache[r].phase = "deleting",
               pc = "logic" => cache[r].finalizer,
               task' = [task EXCEPT ![k] = Reconciling(r, pc)]
        PROVE  Starts(r)
    <3> DEFINE u == Reconciling(r, pc)
    <3>1. /\ u \in Task /\ u.pc = pc /\ u.obj = r /\ u.instance = cache[r]
          /\ u.fresh = (watch[r] = "synced") /\ u.id = Nil
      BY <1>1, ReconcilingFacts
    <3> HIDE DEF u
    <3>2. task' \in [SubKinds -> Task] /\ task'[k] = u
          /\ \A j \in SubKinds \ {k} : task'[j] = task[j]
      BY <1>1, <2>5, <3>1, TaskUpdate DEF u
    <3> QED
      BY <1>1, <1>2, <2>1, <2>5, <3>1, <3>2 DEF Starts, Works
  <2> QED
    BY <2>2, <2>3, <2>4, <2>5
<1> QED
  BY <1>3, <1>4

\* A step of the worker within its reconcile of r.
LEMMA WorkStep ==
    ASSUME SubscriptionsTypeOK, TaskShape, NEW r \in Subs,
           CreateSubscriptionStep(r) \/ EstablishSubscriptionStep(r)
    PROVE  Restarts \/ GoesOn(r) \/ Reports(r) \/ Finishes(r)
<1> DEFINE k == SubKind[r]
           t == task[k]
<1>1. task \in [SubKinds -> Task] /\ k \in SubKinds /\ t \in Task /\ t.obj = r
  BY SubscriptionsAssumption
     DEF SubscriptionsTypeOK, CreateSubscriptionStep, EstablishSubscriptionStep, At,
         SessionGone, CreateNotificationStream, NotificationStreamReply, StreamReply,
         NotificationStreamNoReply, WriteStatus, WriteAndRetry,
         EstablishSubscriptionInitialize, EstablishSubscriptionSend,
         EstablishSubscriptionReply, EstablishSubscriptionNoReply,
         EstablishSubscriptionRegister, Subscribed, EstablishSubscriptionNoCleanUp,
         EstablishSubscriptionCleanUp, DeleteReply, DeleteAnswered, DeleteNoReply,
         EstablishSubscriptionFinalize
<1>2. session \in SessionIds \cup {Nil} /\ obj \in [Subs -> Resource]
  BY DEF SubscriptionsTypeOK, MountTypeOK
<1>3. t.session \in SessionIds \cup {Nil} /\ t.id \in SubIds \cup {Nil}
      /\ t.instance \in Resource
  BY <1>1 DEF Task
<1>4. CASE Panic
  BY <1>4 DEF Panic, Restarts
<1>5. ASSUME At(r, "logic"), session # Nil, Request(r), UNCHANGED apiVars
      PROVE  GoesOn(r)
  <2>1. /\ task' = [task EXCEPT ![k] = [@ EXCEPT !.pc = "rpc", !.session = session]]
        /\ session \in SessionIds /\ t.pc = "logic"
    BY <1>2, <1>5 DEF Request, At
  <2>2. /\ task' \in [SubKinds -> Task]
        /\ \A j \in SubKinds \ {k} : task'[j] = task[j]
        /\ task'[k].pc = "rpc" /\ task'[k].session = session /\ task'[k].id = t.id
        /\ task'[k].obj = t.obj /\ task'[k].instance = t.instance /\ task'[k].fresh = t.fresh
    BY <1>1, <1>2, <2>1, SessionMove
  <2> QED
    BY <1>1, <1>5, <2>1, <2>2 DEF GoesOn, Works, apiVars
<1>6. ASSUME NEW status \in {"none", "subscribed", "failed"}, NEW err \in BOOLEAN,
             t.pc \in {"init", "logic", "rpc", "delete"}, Outcome(r, status, err), UNCHANGED apiVars
      PROVE  Reports(r)
  <2>1. /\ task' \in [SubKinds -> Task]
        /\ \A j \in SubKinds \ {k} : task'[j] = task[j]
        /\ task'[k].pc = "write" /\ task'[k].obj = t.obj /\ task'[k].fresh = t.fresh
        /\ task'[k].id = Nil
        /\ task'[k].instance.phase = t.instance.phase
        /\ task'[k].instance.finalizer = t.instance.finalizer
        /\ task'[k].instance.id = t.instance.id
    BY <1>1, <1>6, OutcomeFacts
  <2> QED
    BY <1>1, <1>6, <2>1 DEF Reports, Works, apiVars
<1>7. CASE WriteStatus(r)
  <2>1. /\ t.pc = "write" /\ task' = [task EXCEPT ![k] = Idle] /\ cache' = cache
        /\ \/ UNCHANGED <<obj, watch>>
           \/ /\ t.fresh
              /\ obj' = [obj EXCEPT ![r].status = t.instance.status, ![r].id = t.instance.id]
              /\ watch' = Silent(r)
    BY <1>7 DEF WriteStatus, WriteAndRetry, At, EndTask
  <2> DEFINE o == [obj[r] EXCEPT !.status = t.instance.status, !.id = t.instance.id]
  <2>2. /\ o \in Resource /\ o.phase = obj[r].phase /\ o.id = t.instance.id
        /\ o.finalizer = obj[r].finalizer
    BY <1>2, <1>3 DEF Resource
  <2>3. [obj EXCEPT ![r].status = t.instance.status, ![r].id = t.instance.id]
          = [obj EXCEPT ![r] = o]
    BY <1>2
  <2> HIDE DEF o
  <2> QED
    BY <1>1, <2>1, <2>2, <2>3 DEF Finishes
<1>8. CASE CreateSubscriptionStep(r)
  <2>1. CASE SessionGone(r, "logic") \/ NotificationStreamNoReply(r)
    BY <1>4, <2>1 DEF SessionGone, NotificationStreamNoReply
  <2>2. CASE CreateNotificationStream(r)
    <3>1. t.pc = "logic"
      BY <2>2 DEF CreateNotificationStream, At
    <3> QED
      BY <1>5, <1>6, <2>2, <3>1 DEF CreateNotificationStream
  <2>3. CASE NotificationStreamReply(r)
    <3>1. t.pc = "rpc"
      BY <2>3 DEF NotificationStreamReply, StreamReply, At
    <3> QED
      BY <1>6, <2>3, <3>1 DEF NotificationStreamReply, StreamReply
  <2> QED
    BY <1>7, <1>8, <2>1, <2>2, <2>3 DEF CreateSubscriptionStep
<1>9. CASE EstablishSubscriptionStep(r)
  <2>1. k = "EstablishSubscription"
    BY <1>9 DEF EstablishSubscriptionStep
  <2>2. CASE EstablishSubscriptionInitialize(r)
    <3>1. t.pc = "init" /\ cache' = cache
      BY <2>2 DEF EstablishSubscriptionInitialize, At
    <3>2. CASE /\ t.fresh
               /\ obj' = [obj EXCEPT ![r].finalizer = TRUE]
               /\ watch' = Fired(r)
               /\ EndTask(r)
      <4> DEFINE o == [obj[r] EXCEPT !.finalizer = TRUE]
      <4>1. o \in Resource /\ o.phase = obj[r].phase /\ o.id = obj[r].id /\ o.finalizer
        BY <1>2 DEF Resource
      <4>2. [obj EXCEPT ![r].finalizer = TRUE] = [obj EXCEPT ![r] = o]
        BY <1>2
      <4>3. task' = [task EXCEPT ![k] = Idle]
        BY <3>2 DEF EndTask
      <4> HIDE DEF o
      <4> QED
        BY <1>1, <3>1, <3>2, <4>1, <4>2, <4>3 DEF Finishes
    <3>3. CASE Outcome(r, t.instance.status, TRUE) /\ UNCHANGED <<obj, watch>>
      <4>1. t.instance.status \in {"none", "subscribed", "failed"}
        BY <1>3 DEF Resource
      <4> QED
        BY <1>6, <3>1, <3>3, <4>1 DEF apiVars
    <3> QED
      BY <2>2, <3>2, <3>3 DEF EstablishSubscriptionInitialize
  <2>3. CASE SessionGone(r, "logic") \/ SessionGone(r, "cleanup")
    BY <1>4, <2>3 DEF SessionGone
  <2>4. CASE EstablishSubscriptionSend(r)
    BY <1>5, <2>4 DEF EstablishSubscriptionSend
  <2>5. CASE EstablishSubscriptionReply(r)
    <3>1. t.pc = "rpc" /\ UNCHANGED apiVars
      BY <2>5 DEF EstablishSubscriptionReply, At
    <3>2. ASSUME NEW i \in SubIds,
                 task' = [task EXCEPT ![k] = [@ EXCEPT !.pc = "register", !.id = i]]
          PROVE  GoesOn(r)
      <4>1. /\ task' \in [SubKinds -> Task]
            /\ \A j \in SubKinds \ {k} : task'[j] = task[j]
            /\ task'[k].pc = "register" /\ task'[k].session = t.session /\ task'[k].id = i
            /\ task'[k].obj = t.obj /\ task'[k].instance = t.instance /\ task'[k].fresh = t.fresh
        BY <1>1, <3>2, IdMove
      <4> QED
        BY <1>1, <2>1, <3>1, <4>1 DEF GoesOn, Works, apiVars
    <3>3. CASE Outcome(r, "failed", FALSE)
      BY <1>6, <3>1, <3>3
    <3> QED
      BY <2>5, <3>2, <3>3 DEF EstablishSubscriptionReply
  <2>6. CASE EstablishSubscriptionNoReply(r)
    <3>1. t.pc = "rpc" /\ UNCHANGED apiVars /\ Outcome(r, "failed", TRUE)
      BY <2>6 DEF EstablishSubscriptionNoReply, At
    <3> QED
      BY <1>6, <3>1
  <2>7. CASE EstablishSubscriptionRegister(r)
    <3>1. t.pc = "register" /\ UNCHANGED apiVars /\ Subscribed(r, "subscribed")
      BY <2>7 DEF EstablishSubscriptionRegister, Subscribed, At
    <3>2. t.id \in SubIds
      BY <1>1, <3>1 DEF TaskShape
    <3>3. /\ task' \in [SubKinds -> Task]
          /\ \A j \in SubKinds \ {k} : task'[j] = task[j]
          /\ task'[k].pc = "write" /\ task'[k].obj = t.obj /\ task'[k].fresh = t.fresh
          /\ task'[k].id = Nil
          /\ task'[k].instance.phase = t.instance.phase
          /\ task'[k].instance.finalizer = t.instance.finalizer
          /\ task'[k].instance.id = t.id
      BY <1>1, <3>1, <3>2, SubscribedFacts
    <3> QED
      BY <1>1, <3>1, <3>3 DEF Reports, Works, apiVars
  <2>8. ASSUME NEW pc \in {"cleanup", "delete"}, t.pc = pc, Goto(r, "finalize"), UNCHANGED apiVars
        PROVE  GoesOn(r)
    <3>1. /\ task' \in [SubKinds -> Task]
          /\ \A j \in SubKinds \ {k} : task'[j] = task[j]
          /\ task'[k].pc = "finalize" /\ task'[k].session = t.session /\ task'[k].id = t.id
          /\ task'[k].obj = t.obj /\ task'[k].instance = t.instance /\ task'[k].fresh = t.fresh
      BY <1>1, <2>8, PcMove DEF Goto
    <3> QED
      BY <1>1, <2>8, <3>1 DEF GoesOn, Works, apiVars
  <2>9. CASE EstablishSubscriptionNoCleanUp(r) \/ DeleteReply(r)
    BY <2>8, <2>9 DEF EstablishSubscriptionNoCleanUp, DeleteReply, DeleteAnswered, At
  <2>10. CASE EstablishSubscriptionCleanUp(r)
    <3>1. CASE SessionGone(r, "cleanup")
      BY <2>3, <3>1
    <3>2. CASE /\ session # Nil
               /\ task' = [task EXCEPT ![k] = [@ EXCEPT !.pc = "delete", !.session = session]]
               /\ UNCHANGED apiVars
      <4>1. t.pc = "cleanup"
        BY <2>10 DEF EstablishSubscriptionCleanUp, At
      <4>2. /\ task' \in [SubKinds -> Task]
            /\ \A j \in SubKinds \ {k} : task'[j] = task[j]
            /\ task'[k].pc = "delete" /\ task'[k].session = session /\ task'[k].id = t.id
            /\ task'[k].obj = t.obj /\ task'[k].instance = t.instance /\ task'[k].fresh = t.fresh
        BY <1>1, <1>2, <3>2, SessionMove
      <4> QED
        BY <1>1, <1>2, <3>2, <4>1, <4>2 DEF GoesOn, Works, apiVars
    <3> QED
      BY <2>10, <3>1, <3>2 DEF EstablishSubscriptionCleanUp
  <2>11. CASE DeleteNoReply(r)
    <3>1. t.pc = "delete" /\ UNCHANGED apiVars /\ Outcome(r, t.instance.status, TRUE)
      BY <2>11 DEF DeleteNoReply, At
    <3>2. t.instance.status \in {"none", "subscribed", "failed"}
      BY <1>3 DEF Resource
    <3> QED
      BY <1>6, <3>1, <3>2
  <2>12. CASE EstablishSubscriptionFinalize(r)
    BY <1>1, <2>12, Values DEF EstablishSubscriptionFinalize, At, EndTask, Finishes
  <2> QED
    BY <1>7, <1>9, <2>2, <2>3, <2>4, <2>5, <2>6, <2>7, <2>9, <2>10, <2>11, <2>12
       DEF EstablishSubscriptionStep
<1> QED
  BY <1>8, <1>9

\* A user or the garbage collector changes r.
LEMMA UserStep ==
    ASSUME SubscriptionsTypeOK, NEW r \in Subs, User(r)
    PROVE  Changes(r)
<1> DEFINE c == obj[r]
<1>1. obj \in [Subs -> Resource] /\ c \in Resource
  BY DEF SubscriptionsTypeOK
<1>2. CASE Create(r)
  BY <1>2 DEF Create, Changes
<1>3. CASE Delete(r)
  <2> DEFINE o == [c EXCEPT !.phase = "deleting"]
  <2>1. o \in Resource /\ o.phase = "deleting" /\ o.id = c.id /\ o.finalizer = c.finalizer
    BY <1>1 DEF Resource
  <2>2. [obj EXCEPT ![r].phase = "deleting"] = [obj EXCEPT ![r] = o]
    BY <1>1
  <2> HIDE DEF o
  <2> QED
    BY <1>3, <2>1, <2>2, Values DEF Delete, Changes
<1>4. CASE Collect(r)
  BY <1>4, Values DEF Collect, Changes
<1>5. CASE Edit(r)
  <2>1. \A xml \in BOOLEAN :
          LET o == [c EXCEPT !.xml = xml] IN
          /\ o \in Resource /\ o.phase = c.phase /\ o.id = c.id /\ o.finalizer = c.finalizer
          /\ [obj EXCEPT ![r].xml = xml] = [obj EXCEPT ![r] = o]
    BY <1>1 DEF Resource
  <2>2. c.phase # "absent" /\ task' = Outdated(r) /\ cache' = cache
    BY <1>5 DEF Edit
  <2>3. CASE UNCHANGED obj /\ watch' = Silent(r)
    BY <2>2, <2>3 DEF Changes
  <2>4. ASSUME NEW xml \in BOOLEAN, obj' = [obj EXCEPT ![r].xml = xml], watch' = Fired(r)
        PROVE  Changes(r)
    BY <2>1, <2>2, <2>4 DEF Changes
  <2> QED
    BY <1>5, <2>3, <2>4 DEF Edit
<1> QED
  BY <1>2, <1>3, <1>4, <1>5 DEF User

\* Every step is one of those kinds.
LEMMA NextIsApiStep ==
    ASSUME SubscriptionsTypeOK, TaskShape, Next
    PROVE  ApiStep
<1>1. ASSUME NEW r \in Subs, User(r) \/ Informer(r)
      PROVE  Changes(r) \/ Syncs(r)
  BY <1>1, UserStep DEF Informer, CacheSync, Syncs
<1>2. ASSUME NEW r \in Subs,
             \/ CreateSubscriptionReconcile(r) \/ CreateSubscriptionStep(r)
             \/ EstablishSubscriptionReconcile(r) \/ EstablishSubscriptionStep(r)
      PROVE  Starts(r) \/ Restarts \/ GoesOn(r) \/ Reports(r) \/ Finishes(r)
  BY <1>2, StartsStep, WorkStep
<1>3. CASE \/ MountPointSeen \/ MountPointCloseSession \/ MountPointCleanUp
           \/ \E s \in SessionIds : MountPointDial(s) \/ EndSession(s)
  BY <1>3 DEF MountPointSeen, MountPointCloseSession, MountPointCleanUp, MountPointDial,
              EndSession, apiVars, ApiStep
<1>4. CASE SendToKafka \/ Crash
  BY <1>4 DEF SendToKafka, Crash, Panic, Restarts, ApiStep
<1> QED
  BY <1>1, <1>2, <1>3, <1>4 DEF Next, ApiStep

\* The worker whose copy of r was, or was not, made old.
LEMMA OutdatedFacts ==
    ASSUME task \in [SubKinds -> Task], NEW r \in Subs, SubKind[r] \in SubKinds,
           task' = Outdated(r)
    PROVE  /\ task' \in [SubKinds -> Task]
           /\ \A k \in SubKinds :
                /\ task'[k].pc = task[k].pc
                /\ task'[k].obj = task[k].obj
                /\ task'[k].instance = task[k].instance
                /\ task'[k].session = task[k].session
                /\ task'[k].id = task[k].id
                /\ task'[k].fresh => task[k].fresh
                /\ k = SubKind[r] /\ task[k].obj = r => ~task'[k].fresh
<1> DEFINE k == SubKind[r]
           t == task[k]
           u == [t EXCEPT !.fresh = IF t.obj = r THEN FALSE ELSE @]
<1>1. t \in Task
  OBVIOUS
<1>2. /\ u \in Task
      /\ u.pc = t.pc /\ u.obj = t.obj /\ u.instance = t.instance /\ u.session = t.session
      /\ u.id = t.id /\ (u.fresh => t.fresh) /\ (t.obj = r => ~u.fresh)
  BY <1>1 DEF Task
<1>3. task' = [task EXCEPT ![k] = u]
  BY DEF Outdated
<1>4. task' \in [SubKinds -> Task] /\ task'[k] = u /\ \A j \in SubKinds \ {k} : task'[j] = task[j]
  <2> HIDE DEF u, k
  <2> QED
    BY <1>2, <1>3, TaskUpdate DEF k
<1> QED
  BY <1>2, <1>4

\* The resources, their copies and the workers keep their types.
LEMMA ApiTypes ==
    ASSUME SubscriptionsTypeOK, TaskShape, ApiStep
    PROVE  /\ obj' \in [Subs -> Resource]
           /\ cache' \in [Subs -> Resource]
           /\ watch' \in [Subs -> {"synced", "status", "event"}]
           /\ task' \in [SubKinds -> Task]
<1> DEFINE Typed == /\ obj' \in [Subs -> Resource]
                    /\ cache' \in [Subs -> Resource]
                    /\ watch' \in [Subs -> {"synced", "status", "event"}]
                    /\ task' \in [SubKinds -> Task]
<1>1. /\ obj \in [Subs -> Resource]
      /\ cache \in [Subs -> Resource]
      /\ watch \in [Subs -> {"synced", "status", "event"}]
      /\ task \in [SubKinds -> Task]
      /\ \A r \in Subs : SubKind[r] \in SubKinds
  BY SubscriptionsAssumption DEF SubscriptionsTypeOK
<1>2. CASE UNCHANGED <<obj, cache, watch, task>>
  BY <1>1, <1>2
<1>3. CASE Restarts
  BY <1>1, <1>3, Values DEF Restarts
<1>4. ASSUME NEW r \in Subs, Starts(r) \/ GoesOn(r) \/ Reports(r)
      PROVE  Typed
  BY <1>1, <1>4 DEF Starts, GoesOn, Reports, Works
<1>5. \A r \in Subs : {Fired(r), Silent(r)} \subseteq [Subs -> {"synced", "status", "event"}]
  BY <1>1 DEF Fired, Silent
<1>6. ASSUME NEW r \in Subs, Finishes(r)
      PROVE  Typed
  <2>1. task' \in [SubKinds -> Task]
    BY <1>1, <1>6, Values DEF Finishes
  <2>2. obj' \in [Subs -> Resource] /\ cache' = cache
    BY <1>1, <1>6 DEF Finishes
  <2>3. watch' \in [Subs -> {"synced", "status", "event"}]
    BY <1>1, <1>5, <1>6 DEF Finishes
  <2> QED
    BY <1>1, <2>1, <2>2, <2>3
<1>7. ASSUME NEW r \in Subs, Changes(r)
      PROVE  Typed
  <2>1. task' \in [SubKinds -> Task]
    BY <1>1, <1>7, OutdatedFacts DEF Changes
  <2>2. obj' \in [Subs -> Resource] /\ cache' = cache
    BY <1>1, <1>7, Values DEF Changes
  <2>3. watch' \in [Subs -> {"synced", "status", "event"}]
    BY <1>1, <1>5, <1>7 DEF Changes
  <2> QED
    BY <1>1, <2>1, <2>2, <2>3
<1>8. ASSUME NEW r \in Subs, Syncs(r)
      PROVE  Typed
  BY <1>1, <1>8 DEF Syncs
<1> QED
  BY <1>2, <1>3, <1>4, <1>6, <1>7, <1>8 DEF ApiStep

\* No step leaves a worker with a resource that is not of its kind, or at a
\* step without what it needs there.
LEMMA TaskShapeStep ==
    ASSUME SubscriptionsTypeOK, TaskShape, ApiStep
    PROVE  TaskShape'
<1>1. /\ task \in [SubKinds -> Task]
      /\ \A r \in Subs : SubKind[r] \in SubKinds
      /\ Idle.pc = "idle" /\ Idle.obj = Nil
  BY SubscriptionsAssumption, Values DEF SubscriptionsTypeOK
<1>2. CASE UNCHANGED <<obj, cache, watch, task>>
  BY <1>2 DEF TaskShape
<1>3. CASE Restarts
  BY <1>1, <1>3 DEF Restarts, TaskShape
<1>4. ASSUME NEW r \in Subs, Starts(r)
      PROVE  TaskShape'
  BY <1>1, <1>4 DEF Starts, Works, TaskShape
<1>5. ASSUME NEW r \in Subs, GoesOn(r)
      PROVE  TaskShape'
  <2> DEFINE k == SubKind[r]
  <2>1. SubKind[r] = k /\ k \in SubKinds /\ task[k].pc # "idle"
    BY <1>1, <1>5 DEF GoesOn
  <2>2. /\ task'[k].pc # "idle" /\ task'[k].obj = r
        /\ k = "CreateSubscription" => task'[k].pc = "rpc"
        /\ task'[k].pc \in {"rpc", "register", "delete"} => task'[k].session \in SessionIds
        /\ task'[k].pc = "register" => task'[k].id \in SubIds
    BY <1>5, <2>1 DEF GoesOn, TaskShape
  <2>3. \A j \in SubKinds \ {k} : task'[j] = task[j]
    BY <1>5 DEF GoesOn, Works
  <2> QED
    BY <2>1, <2>2, <2>3 DEF TaskShape
<1>6. ASSUME NEW r \in Subs, Reports(r)
      PROVE  TaskShape'
  BY <1>1, <1>6 DEF Reports, Works, TaskShape
<1>7. ASSUME NEW r \in Subs, Finishes(r)
      PROVE  TaskShape'
  BY <1>1, <1>7 DEF Finishes, TaskShape
<1>8. ASSUME NEW r \in Subs, Changes(r)
      PROVE  TaskShape'
  <2>1. CASE task' = task
    BY <2>1 DEF TaskShape
  <2>2. CASE task' = Outdated(r)
    BY <1>1, <2>2, OutdatedFacts DEF TaskShape
  <2> QED
    BY <1>8, <2>1, <2>2 DEF Changes
<1>9. ASSUME NEW r \in Subs, Syncs(r)
      PROVE  TaskShape'
  BY <1>9 DEF Syncs, TaskShape
<1> QED
  BY <1>2, <1>3, <1>4, <1>5, <1>6, <1>7, <1>8, <1>9 DEF ApiStep

\* A worker that has r is the only one that has it.
LEMMA OneWorker ==
    ASSUME TaskShape, NEW r \in Subs, NEW k \in SubKinds, task[k].obj = r
    PROVE  k = SubKind[r] /\ task[k].pc # "idle"
  BY SubscriptionServerAssumption DEF TaskShape

\* The copies say what they have to, and no resource shows an id without its
\* finalizer.
LEMMA CopiesStep ==
    ASSUME ApiInv, ApiStep, SubscriptionsTypeOK', TaskShape'
    PROVE  Copies' /\ SubscribedHasFinalizer'
<1>1. /\ task \in [SubKinds -> Task] /\ task' \in [SubKinds -> Task]
      /\ obj \in [Subs -> Resource] /\ obj' \in [Subs -> Resource]
      /\ cache \in [Subs -> Resource]
      /\ watch \in [Subs -> {"synced", "status", "event"}]
      /\ \A r \in Subs : SubKind[r] \in SubKinds
      /\ TaskShape /\ Copies /\ SubscribedHasFinalizer
  BY SubscriptionsAssumption DEF SubscriptionsTypeOK, ApiInv
<1>2. CASE UNCHANGED <<obj, cache, watch, task>>
  BY <1>1, <1>2 DEF Copies, FreshCopy, SubscribedHasFinalizer
<1>3. CASE Restarts
  BY <1>1, <1>3, Values DEF Restarts, Copies, SubscribedHasFinalizer
<1>4. ASSUME NEW r \in Subs, Starts(r)
      PROVE  Copies' /\ SubscribedHasFinalizer'
  <2> DEFINE k == SubKind[r]
  <2>1. UNCHANGED <<obj, cache, watch>> /\ k \in SubKinds
        /\ \A j \in SubKinds \ {k} : task'[j] = task[j]
    BY <1>1, <1>4 DEF Starts, Works
  <2>2. CASE task'[k] = Idle
    BY <1>1, <2>1, <2>2, Values DEF Copies, FreshCopy, SubscribedHasFinalizer
  <2>3. CASE task'[k] # Idle
    <3>1. /\ cache[r].phase # "absent"
          /\ task'[k].obj = r
          /\ task'[k].instance = cache[r]
          /\ task'[k].fresh = (watch[r] = "synced")
          /\ task'[k].pc \in {"write", "init", "cleanup", "logic"}
          /\ k = "EstablishSubscription" /\ task'[k].pc = "logic" => cache[r].finalizer
          /\ task'[k].pc = "cleanup" => cache[r].phase = "deleting"
      BY <1>4, <2>3 DEF Starts
    <3>2. watch[r] = "synced" => cache[r] = obj[r]
      BY <1>1 DEF Copies
    <3>3. cache[r].id # Nil => cache[r].finalizer
      BY <1>1 DEF Copies
    <3>4. /\ task'[k].obj = r /\ task'[k].instance = cache[r]
          /\ task'[k].fresh => watch[r] = "synced" /\ cache[r] = obj[r]
          /\ task'[k].pc \in {"write", "init", "cleanup", "logic"}
          /\ cache[r].phase # "absent"
          /\ k = "EstablishSubscription" /\ task'[k].pc = "logic" => cache[r].finalizer
          /\ task'[k].pc = "cleanup" => cache[r].phase = "deleting"
      BY <3>1, <3>2
    <3> QED
      BY <1>1, <2>1, <3>3, <3>4 DEF Copies, FreshCopy, SubscribedHasFinalizer
  <2> QED
    BY <2>2, <2>3
<1>5. ASSUME NEW r \in Subs, GoesOn(r)
      PROVE  Copies' /\ SubscribedHasFinalizer'
  <2> DEFINE k == SubKind[r]
  <2>1. UNCHANGED <<obj, cache, watch>> /\ k \in SubKinds
        /\ \A j \in SubKinds \ {k} : task'[j] = task[j]
    BY <1>1, <1>5 DEF GoesOn, Works
  <2>2. /\ task[k].pc \notin {"idle", "write"} /\ task'[k].pc \notin {"idle", "write"}
        /\ task'[k].obj = task[k].obj
        /\ task'[k].instance = task[k].instance
        /\ task'[k].fresh = task[k].fresh
        /\ task'[k].pc \in {"rpc", "register"} => task[k].pc \in {"logic", "rpc"}
        /\ task'[k].pc = "register" => k = "EstablishSubscription"
        /\ task'[k].pc \in {"cleanup", "delete", "finalize"} =>
             task[k].pc \in {"cleanup", "delete", "finalize"}
        /\ task'[k].pc # "logic"
    BY <1>5 DEF GoesOn
  <2> QED
    BY <1>1, <2>1, <2>2 DEF Copies, FreshCopy, SubscribedHasFinalizer
<1>6. ASSUME NEW r \in Subs, Reports(r)
      PROVE  Copies' /\ SubscribedHasFinalizer'
  <2> DEFINE k == SubKind[r]
  <2>1. UNCHANGED <<obj, cache, watch>> /\ k \in SubKinds
        /\ \A j \in SubKinds \ {k} : task'[j] = task[j]
    BY <1>1, <1>6 DEF Reports, Works
  <2>2. /\ task[k].pc \notin {"idle", "write"} /\ task'[k].pc = "write"
        /\ task'[k].obj = task[k].obj
        /\ task'[k].fresh = task[k].fresh
        /\ task'[k].instance.phase = task[k].instance.phase
        /\ task'[k].instance.finalizer = task[k].instance.finalizer
        /\ task[k].pc = "register" \/ task'[k].instance.id = task[k].instance.id
    BY <1>6 DEF Reports
  <2> QED
    BY <1>1, <2>1, <2>2 DEF Copies, FreshCopy, SubscribedHasFinalizer
<1>7. ASSUME NEW r \in Subs, Finishes(r)
      PROVE  Copies' /\ SubscribedHasFinalizer'
  <2> DEFINE k == SubKind[r]
  <2>1. /\ k \in SubKinds /\ task'[k].pc = "idle" /\ cache' = cache
        /\ \A j \in SubKinds \ {k} : task'[j] = task[j]
        /\ task[k].obj = r /\ task[k].pc # "idle"
    BY <1>1, <1>7, Values DEF Finishes
  <2>2. CASE UNCHANGED <<obj, watch>>
    BY <1>1, <2>1, <2>2 DEF Copies, FreshCopy, SubscribedHasFinalizer
  <2>3. CASE ~UNCHANGED <<obj, watch>>
    <3>1. PICK o \in Resource :
            /\ obj' = [obj EXCEPT ![r] = o]
            /\ \/ task[k].pc = "finalize" /\ o = Absent
               \/ /\ o.phase = obj[r].phase
                  /\ \/ /\ task[k].pc = "init"
                        /\ o.id = obj[r].id /\ o.finalizer
                     \/ /\ task[k].pc = "write"
                        /\ o.id = task[k].instance.id
                        /\ o.finalizer = obj[r].finalizer
      BY <1>7, <2>3 DEF Finishes
    <3>2. task[k].fresh /\ watch' \in {Fired(r), Silent(r)}
      BY <1>7, <2>3 DEF Finishes
    <3>3. /\ task[k].instance.finalizer = obj[r].finalizer
          /\ task[k].instance.id # Nil => task[k].instance.finalizer
      BY <1>1, <2>1, <3>2 DEF Copies, FreshCopy
    <3>4. o.id # Nil => o.finalizer
      BY <3>1, <3>3, Values
    <3>5. watch'[r] # "synced" /\ \A q \in Subs \ {r} : watch'[q] = watch[q] /\ obj'[q] = obj[q]
      BY <1>1, <3>1, <3>2 DEF Fired, Silent
    <3>6. SubscribedHasFinalizer'
      BY <1>1, <3>1, <3>4 DEF SubscribedHasFinalizer
    <3>7. \A j \in SubKinds \ {k} : task[j].pc # "idle" => task[j].obj \in Subs \ {r}
      BY <1>1, OneWorker DEF TaskShape
    <3>8. Copies'
      BY <1>1, <2>1, <3>5, <3>7 DEF Copies, FreshCopy
    <3> QED
      BY <3>6, <3>8
  <2> QED
    BY <2>2, <2>3
<1>8. ASSUME NEW r \in Subs, Changes(r)
      PROVE  Copies' /\ SubscribedHasFinalizer'
  <2>1. /\ cache' = cache /\ watch'[r] # "synced"
        /\ \A q \in Subs \ {r} : watch'[q] = watch[q]
    BY <1>1, <1>8 DEF Changes, Fired, Silent
  <2>2. /\ obj'[r].id # Nil => obj'[r].finalizer
        /\ \A q \in Subs \ {r} : obj'[q] = obj[q]
    BY <1>1, <1>8, Values DEF Changes, SubscribedHasFinalizer
  <2>3. /\ \A k \in SubKinds :
             /\ task'[k].pc = task[k].pc
             /\ task'[k].obj = task[k].obj
             /\ task'[k].instance = task[k].instance
             /\ task'[k].fresh => task[k].fresh
             /\ task[k].obj = r => ~task'[k].fresh
    <3>1. CASE task' = Outdated(r)
      BY <1>1, <3>1, OutdatedFacts, OneWorker
    <3>2. CASE task' = task /\ obj[r].phase = "absent"
      <4>1. \A k \in SubKinds : task[k].obj = r => ~task[k].fresh
        BY <1>1, <3>2, OneWorker DEF Copies, FreshCopy
      <4> QED
        BY <3>2, <4>1
    <3> QED
      BY <1>8, <3>1, <3>2 DEF Changes
  <2>4. SubscribedHasFinalizer'
    BY <1>1, <2>2 DEF SubscribedHasFinalizer
  <2>5. \A k \in SubKinds : task'[k].pc # "idle" => task'[k].obj \in Subs
    BY DEF TaskShape
  <2>6. Copies'
    BY <1>1, <2>1, <2>2, <2>3, <2>5 DEF Copies, FreshCopy
  <2> QED
    BY <2>4, <2>6
<1>9. ASSUME NEW r \in Subs, Syncs(r)
      PROVE  Copies' /\ SubscribedHasFinalizer'
  <2>1. /\ UNCHANGED <<obj, task>> /\ cache'[r] = obj[r] /\ watch'[r] = "synced"
        /\ \A q \in Subs \ {r} : watch'[q] = watch[q] /\ cache'[q] = cache[q]
    BY <1>1, <1>9 DEF Syncs
  <2>2. obj[r].id # Nil => obj[r].finalizer
    BY <1>1 DEF SubscribedHasFinalizer
  <2>3. \A k \in SubKinds : task[k].pc # "idle" => task[k].obj \in Subs
    BY <1>1 DEF TaskShape
  <2> QED
    BY <1>1, <2>1, <2>2, <2>3 DEF Copies, FreshCopy, SubscribedHasFinalizer
<1> QED
  BY <1>2, <1>3, <1>4, <1>5, <1>6, <1>7, <1>8, <1>9 DEF ApiStep

-----------------------------------------------------------------------------
(* What a step does to the MountPoint and its notifications *)

\* A step within a reconcile that the process survives leaves the MountPoint
\* alone.
LEMMA WorkLeavesMount ==
    ASSUME NEW r \in Subs,
           \/ User(r) \/ Informer(r)
           \/ CreateSubscriptionReconcile(r) \/ CreateSubscriptionStep(r)
           \/ EstablishSubscriptionReconcile(r) \/ EstablishSubscriptionStep(r)
    PROVE  Panic \/ UNCHANGED mountPointVars
<1>1. CASE \/ User(r) \/ Informer(r) \/ CreateSubscriptionReconcile(r)
           \/ EstablishSubscriptionReconcile(r)
  BY <1>1 DEF User, Informer, CreateSubscriptionReconcile, EstablishSubscriptionReconcile,
              ReconcileWith
<1>2. CASE CreateSubscriptionStep(r)
  BY <1>2 DEF CreateSubscriptionStep, SessionGone, CreateNotificationStream,
              NotificationStreamReply, StreamReply, NotificationStreamNoReply, WriteStatus,
              WriteAndRetry
<1>3. CASE EstablishSubscriptionStep(r)
  BY <1>3 DEF EstablishSubscriptionStep, EstablishSubscriptionInitialize, SessionGone,
              EstablishSubscriptionSend, EstablishSubscriptionReply,
              EstablishSubscriptionNoReply, EstablishSubscriptionRegister, Subscribed,
              EstablishSubscriptionNoCleanUp, EstablishSubscriptionCleanUp, DeleteReply,
              DeleteAnswered, DeleteNoReply, EstablishSubscriptionFinalize, WriteStatus,
              WriteAndRetry
<1> QED
  BY <1>1, <1>2, <1>3

\* The state of the MountPoint keeps its type.
LEMMA MountTypes ==
    ASSUME SubscriptionsTypeOK, Next
    PROVE  MountTypeOK' /\ closing' \in BOOLEAN
<1>1. MountTypeOK /\ closing \in BOOLEAN
  BY DEF SubscriptionsTypeOK
<1>2. CASE Panic
  BY <1>1, <1>2 DEF Panic, Restart, MountTypeOK
<1>3. CASE UNCHANGED mountPointVars
  BY <1>1, <1>3 DEF mountPointVars, mountVars, MountTypeOK
<1>4. CASE MountPointSeen \/ MountPointCloseSession \/ MountPointCleanUp
  BY <1>1, <1>4 DEF MountPointSeen, Notice, MountPointCloseSession, End, mountVars,
                    MountPointCleanUp, Disconnect, MountTypeOK
<1>5. ASSUME NEW s \in SessionIds, MountPointDial(s) \/ EndSession(s)
      PROVE  MountTypeOK' /\ closing' \in BOOLEAN
  BY <1>1, <1>5 DEF MountPointDial, Connect, EndSession, End, MountTypeOK
<1> QED
  BY <1>2, <1>3, <1>4, <1>5, WorkLeavesMount DEF Next, SendToKafka, Crash

\* The server's and the client's tables keep their types.
LEMMA NotifyTypes ==
    ASSUME SubscriptionsTypeOK, TaskShape, Next
    PROVE  NotifyTypeOK'
<1>1. NotifyTypeOK /\ open \subseteq SessionIds
      /\ session \in SessionIds \cup {Nil}
      /\ task \in [SubKinds -> Task]
      /\ \A r \in Subs : SubKind[r] \in SubKinds
  BY SubscriptionsAssumption DEF SubscriptionsTypeOK, MountTypeOK
<1> USE DEF serverVars, clientVars, notifyVars
<1>2. CASE UNCHANGED notifyVars
  BY <1>1, <1>2 DEF NotifyTypeOK
<1>3. CASE Panic /\ UNCHANGED serverVars
  BY <1>1, <1>3 DEF Panic, NotifyTypeOK
<1>4. ASSUME NEW r \in Subs, CreateSubscriptionStep(r)
      PROVE  NotifyTypeOK'
  <2>1. CASE CreateNotificationStream(r)
    BY <1>1, <2>1 DEF CreateNotificationStream, NotifyTypeOK
  <2>2. CASE NotificationStreamReply(r)
    <3>1. streams' \in [SessionIds -> Nat]
      <4>1. \/ UNCHANGED streams
            \/ \E s : streams' = [streams EXCEPT ![s] = @ + 1]
        BY <2>2 DEF NotificationStreamReply, StreamReply, CreateStream
      <4> QED
        BY <1>1, <4>1 DEF NotifyTypeOK
    <3>2. streamCreated' \in [SessionIds -> BOOLEAN]
      BY <1>1, <2>2 DEF NotificationStreamReply, StreamReply, NotifyTypeOK
    <3> QED
      BY <1>1, <2>2, <3>1, <3>2 DEF NotificationStreamReply, StreamReply, NotifyTypeOK
  <2>3. CASE NotificationStreamNoReply(r)
    BY <1>1, <2>3 DEF NotificationStreamNoReply, CreateStream, Panic, NotifyTypeOK
  <2> QED
    BY <1>2, <1>3, <1>4, <2>1, <2>2, <2>3
       DEF CreateSubscriptionStep, SessionGone, WriteStatus, WriteAndRetry
<1>5. ASSUME NEW r \in Subs, EstablishSubscriptionStep(r)
      PROVE  NotifyTypeOK'
  <2> DEFINE t == task[SubKind[r]]
  <2>1. ASSUME NEW i \in SubIds, Usable(t.session), Establish(r, t.session, i)
        PROVE  subs' \subseteq Subscription /\ given' \subseteq [id : SubIds, by : Subs]
    BY <1>1, <2>1 DEF Usable, Establish, NotifyTypeOK, Subscription
  <2>2. CASE EstablishSubscriptionReply(r)
    BY <1>1, <2>1, <2>2 DEF EstablishSubscriptionReply, NotifyTypeOK
  <2>3. CASE EstablishSubscriptionNoReply(r)
    BY <1>1, <2>1, <2>3 DEF EstablishSubscriptionNoReply, NotifyTypeOK
  <2>4. CASE EstablishSubscriptionRegister(r)
    <3>1. t.id \in SubIds
      BY <1>1, <2>4 DEF EstablishSubscriptionRegister, Subscribed, At, TaskShape
    <3> QED
      BY <1>1, <2>4, <3>1 DEF EstablishSubscriptionRegister, Subscribed, Register, NotifyTypeOK
  <2>5. CASE EstablishSubscriptionCleanUp(r)
    BY <1>1, <1>3, <2>5 DEF EstablishSubscriptionCleanUp, SessionGone, Remove, NotifyTypeOK
  <2>6. CASE DeleteReply(r) \/ DeleteNoReply(r)
    BY <1>1, <2>6 DEF DeleteReply, DeleteAnswered, DeleteNoReply, DeleteSubscription, NotifyTypeOK
  <2> QED
    BY <1>2, <1>3, <1>5, <2>2, <2>3, <2>4, <2>5, <2>6
       DEF EstablishSubscriptionStep, EstablishSubscriptionInitialize, SessionGone,
           EstablishSubscriptionSend, EstablishSubscriptionNoCleanUp,
           EstablishSubscriptionFinalize, WriteStatus, WriteAndRetry
<1>6. CASE MountPointCloseSession \/ MountPointCleanUp
  BY <1>1, <1>6 DEF MountPointCloseSession, EndNotifications, MountPointCleanUp, NotifyTypeOK
<1>7. ASSUME NEW s \in SessionIds, MountPointDial(s) \/ EndSession(s)
      PROVE  NotifyTypeOK'
  <2>1. CASE MountPointDial(s)
    BY <1>1, <2>1 DEF MountPointDial, NewDispatcher, NotifyTypeOK
  <2>2. CASE EndSession(s)
    BY <1>1, <2>2 DEF EndSession, EndNotifications, NotifyTypeOK
  <2> QED
    BY <1>7, <2>1, <2>2
<1> QED
  BY <1>2, <1>3, <1>4, <1>5, <1>6, <1>7
     DEF Next, User, Informer, CreateSubscriptionReconcile, EstablishSubscriptionReconcile,
         ReconcileWith, MountPointSeen, SendToKafka, Crash

\* The queue holds resources, and the counters stay within their bounds.
LEMMA BoundTypes ==
    ASSUME SubscriptionsTypeOK, Next
    PROVE  /\ queue' \subseteq Subs
           /\ faults' \in 0 .. MaxFaults
           /\ changes' \in 0 .. MaxChanges
           /\ mountChanges' \in 0 .. MaxMountChanges
<1>1. /\ queue \subseteq Subs
      /\ faults \in 0 .. MaxFaults
      /\ changes \in 0 .. MaxChanges
      /\ mountChanges \in 0 .. MaxMountChanges
  BY DEF SubscriptionsTypeOK
<1>2. queue' \subseteq Subs
  <2>1. ASSUME NEW r \in Subs, CreateSubscriptionStep(r) \/ EstablishSubscriptionStep(r)
        PROVE  queue' \in {queue, queue \cup {r}} \/ queue' \subseteq Subs
    BY <2>1 DEF CreateSubscriptionStep, CreateNotificationStream, NotificationStreamReply,
                StreamReply, NotificationStreamNoReply, SessionGone, WriteStatus,
                WriteAndRetry, Panic,
                EstablishSubscriptionStep, EstablishSubscriptionInitialize,
                EstablishSubscriptionSend, EstablishSubscriptionReply,
                EstablishSubscriptionNoReply, EstablishSubscriptionRegister, Subscribed,
                EstablishSubscriptionNoCleanUp, EstablishSubscriptionCleanUp, DeleteReply,
                DeleteAnswered, DeleteNoReply, EstablishSubscriptionFinalize
  <2>2. ASSUME NEW r \in Subs,
               \/ User(r) \/ Informer(r) \/ CreateSubscriptionReconcile(r)
               \/ EstablishSubscriptionReconcile(r)
        PROVE  queue' \in {queue, queue \cup {r}, queue \ {r}}
    BY <2>2 DEF User, Create, Delete, Edit, Collect, Informer, CacheSync,
                CreateSubscriptionReconcile, EstablishSubscriptionReconcile, ReconcileWith,
                Dequeue
  <2>3. CASE MountPointSeen \/ MountPointCloseSession \/ MountPointCleanUp \/ SendToKafka \/ Crash
    BY <1>1, <2>3 DEF MountPointSeen, MountPointCloseSession, MountPointCleanUp, SendToKafka,
                      Crash, Panic
  <2>4. ASSUME NEW s \in SessionIds, MountPointDial(s) \/ EndSession(s)
        PROVE  queue' = queue
    BY <2>4 DEF MountPointDial, EndSession
  <2> QED
    BY <1>1, <2>1, <2>2, <2>3, <2>4 DEF Next
<1>3. \/ UNCHANGED bounds \/ UserChange \/ MountChange
      \/ \E f \in FaultKinds : Fault(f)
  <2>1. ASSUME NEW r \in Subs, User(r) \/ Informer(r)
        PROVE  UNCHANGED bounds \/ UserChange
    BY <2>1 DEF User, Create, Delete, Edit, Collect, Informer, CacheSync
  <2>2. ASSUME NEW s, Unanswered(s)
        PROVE  UNCHANGED bounds \/ \E f \in FaultKinds : Fault(f)
    BY <2>2 DEF Unanswered, Fault
  <2>3. ASSUME NEW r \in Subs, CreateSubscriptionReconcile(r) \/ EstablishSubscriptionReconcile(r)
        PROVE  UNCHANGED bounds
    BY <2>3 DEF CreateSubscriptionReconcile, EstablishSubscriptionReconcile, ReconcileWith
  <2>4. ASSUME NEW r \in Subs, CreateSubscriptionStep(r) \/ EstablishSubscriptionStep(r)
        PROVE  UNCHANGED bounds \/ \E s : Unanswered(s)
    BY <2>4 DEF CreateSubscriptionStep, CreateNotificationStream, NotificationStreamReply,
                StreamReply, NotificationStreamNoReply, SessionGone, WriteStatus,
                WriteAndRetry,
                EstablishSubscriptionStep, EstablishSubscriptionInitialize,
                EstablishSubscriptionSend, EstablishSubscriptionReply,
                EstablishSubscriptionNoReply, EstablishSubscriptionRegister, Subscribed,
                EstablishSubscriptionNoCleanUp, EstablishSubscriptionCleanUp, DeleteReply,
                DeleteAnswered, DeleteNoReply, EstablishSubscriptionFinalize
  <2>5. CASE MountPointSeen \/ MountPointCloseSession \/ MountPointCleanUp
    BY <2>5 DEF MountPointSeen, MountPointCloseSession, MountPointCleanUp
  <2>6. ASSUME NEW s \in SessionIds, MountPointDial(s) \/ EndSession(s)
        PROVE  UNCHANGED bounds \/ MountChange \/ \E f \in FaultKinds : Fault(f)
    BY <2>6 DEF MountPointDial, EndSession, Fault
  <2>7. CASE SendToKafka \/ Crash
    BY <2>7 DEF SendToKafka, Crash, Fault
  <2> QED
    BY <2>1, <2>2, <2>3, <2>4, <2>5, <2>6, <2>7 DEF Next
<1>4. /\ faults' \in 0 .. MaxFaults
      /\ changes' \in 0 .. MaxChanges
      /\ mountChanges' \in 0 .. MaxMountChanges
  BY <1>1, <1>3, SubscriptionsAssumption DEF bounds, UserChange, MountChange, Fault
<1> QED
  BY <1>2, <1>4

-----------------------------------------------------------------------------
(* The type invariant, and ids only with a finalizer *)

\* ApiInv holds when the process starts for the first time.
LEMMA ApiInvInit ==
    Init => ApiInv
<1> SUFFICES ASSUME Init
             PROVE  ApiInv
  OBVIOUS
<1>1. MountTypeOK /\ NotifyTypeOK
  BY DEF Init, MountInit, NotifyInit, MountTypeOK, NotifyTypeOK
<1>2. /\ faults \in 0 .. MaxFaults /\ changes \in 0 .. MaxChanges
      /\ mountChanges \in 0 .. MaxMountChanges
  BY SubscriptionsAssumption DEF Init
<1>3. SubscriptionsTypeOK
  BY <1>1, <1>2, Values DEF Init, SubscriptionsTypeOK
<1>4. TaskShape /\ Copies /\ SubscribedHasFinalizer
  BY Values DEF Init, TaskShape, Copies, SubscribedHasFinalizer
<1> QED
  BY <1>3, <1>4 DEF ApiInv

\* Every step preserves ApiInv.
LEMMA ApiInvStep ==
    ApiInv /\ [Next]_vars => ApiInv'
<1> SUFFICES ASSUME ApiInv, [Next]_vars
             PROVE  ApiInv'
  OBVIOUS
<1>1. CASE Next
  <2>1. SubscriptionsTypeOK /\ TaskShape /\ ApiStep
    BY <1>1, NextIsApiStep DEF ApiInv
  <2>2. SubscriptionsTypeOK'
    BY <1>1, <2>1, ApiTypes, MountTypes, NotifyTypes, BoundTypes DEF SubscriptionsTypeOK
  <2>3. TaskShape'
    BY <2>1, TaskShapeStep
  <2> QED
    BY <2>1, <2>2, <2>3, CopiesStep DEF ApiInv
<1>2. CASE UNCHANGED vars
  <2> USE <1>2 DEF vars, mountPointVars, mountVars, notifyVars, serverVars, clientVars,
                   apiVars, bounds
  <2>1. SubscriptionsTypeOK'
    BY DEF ApiInv, SubscriptionsTypeOK, MountTypeOK, NotifyTypeOK
  <2>2. TaskShape' /\ SubscribedHasFinalizer'
    BY DEF ApiInv, TaskShape, SubscribedHasFinalizer
  <2>3. Copies'
    BY DEF ApiInv, Copies, FreshCopy
  <2> QED
    BY <2>1, <2>2, <2>3 DEF ApiInv
<1> QED
  BY <1>1, <1>2

\* Every variable of Subscriptions has its type: no step of a controller, a
\* server, a user or the informer leaves a record with a field of another.
THEOREM SubscriptionsTypeCorrect ==
    Spec => []SubscriptionsTypeOK
<1>1. ApiInv => SubscriptionsTypeOK
  BY DEF ApiInv
<1> QED
  BY ApiInvInit, ApiInvStep, <1>1, PTL DEF Spec

\* establishsubscription_controller.go: no EstablishSubscription shows an id
\* before its finalizer is stored, whichever writes are refused, whoever edits
\* or deletes it meanwhile and whenever the process is started again.
THEOREM IdsHaveFinalizers ==
    Spec => []SubscribedHasFinalizer
<1>1. ApiInv => SubscribedHasFinalizer
  BY DEF ApiInv
<1> QED
  BY ApiInvInit, ApiInvStep, <1>1, PTL DEF Spec

-----------------------------------------------------------------------------
(* The streams of CreateSubscription *)

\* Only CreateNotificationStream sends a create-subscription.
LEMMA OthersDoNotCreate ==
    ASSUME ApiInv, NEW r \in Subs,
           \/ User(r) \/ Informer(r)
           \/ CreateSubscriptionReconcile(r) \/ EstablishSubscriptionReconcile(r)
           \/ EstablishSubscriptionStep(r) \/ WriteStatus(r)
    PROVE  \A s \in SessionIds : Creating(s)' => Creating(s)
<1> DEFINE c == "CreateSubscription"
<1>1. SubscriptionsTypeOK /\ TaskShape /\ task \in [SubKinds -> Task]
      /\ c \in SubKinds /\ SubKind[r] \in SubKinds
  BY SubscriptionsAssumption DEF ApiInv, SubscriptionsTypeOK, SubKinds
<1>2. CASE User(r)
  <2>1. task'[c].pc = task[c].pc /\ task'[c].session = task[c].session
    BY <1>1, <1>2, UserStep, OutdatedFacts DEF Changes
  <2> QED
    BY <2>1 DEF Creating
<1>3. CASE Informer(r)
  BY <1>3 DEF Informer, CacheSync, Creating
<1>4. CASE CreateSubscriptionReconcile(r) \/ EstablishSubscriptionReconcile(r)
  <2>1. Starts(r)
    BY <1>1, <1>4, StartsStep
  <2>2. task'[c] = task[c] \/ task'[c].pc # "rpc"
    BY <1>1, <2>1, Values DEF Starts, Works
  <2> QED
    BY <2>2 DEF Creating
<1>5. CASE EstablishSubscriptionStep(r)
  <2>1. SubKind[r] # c /\ (Restarts \/ GoesOn(r) \/ Reports(r) \/ Finishes(r))
    BY <1>1, <1>5, WorkStep DEF EstablishSubscriptionStep
  <2>2. task'[c] = task[c] \/ task'[c].pc # "rpc"
    BY <1>1, <2>1, Values DEF Restarts, GoesOn, Reports, Finishes, Works
  <2> QED
    BY <2>2 DEF Creating
<1>6. CASE WriteStatus(r)
  <2>1. task' = [task EXCEPT ![SubKind[r]] = Idle]
    BY <1>6 DEF WriteStatus, WriteAndRetry, EndTask
  <2> QED
    BY <1>1, <2>1, Values DEF Creating
<1> QED
  BY <1>2, <1>3, <1>4, <1>5, <1>6

\* StreamsInv speaks of no more than this.
LEMMA StreamsFrame ==
    ASSUME StreamsInv, UNCHANGED <<open, orphans, streams, handler, streamCreated>>,
           \A s \in SessionIds : Creating(s)' => Creating(s)
    PROVE  StreamsInv'
  BY DEF StreamsInv, Usable

\* The steps of the worker of CreateSubscription preserve StreamsInv.
LEMMA StreamsWork ==
    ASSUME ApiInv, ApiInv', StreamsInv, NEW r \in Subs, CreateSubscriptionStep(r)
    PROVE  StreamsInv'
<1> DEFINE c == "CreateSubscription"
           t == task[c]
<1>1. /\ SubKind[r] = c /\ c \in SubKinds
      /\ task \in [SubKinds -> Task] /\ t \in Task
      /\ session \in SessionIds \cup {Nil} /\ open \subseteq SessionIds
      /\ streams \in [SessionIds -> Nat] /\ handler \in [SessionIds -> Subs \cup {Nil}]
      /\ streamCreated \in [SessionIds -> BOOLEAN]
      /\ r # Nil
  BY SubscriptionServerAssumption
     DEF ApiInv, SubscriptionsTypeOK, MountTypeOK, NotifyTypeOK, SubKinds, CreateSubscriptionStep
<1> USE DEF serverVars, clientVars, notifyVars, mountPointVars, mountVars
<1>2. CASE Panic /\ UNCHANGED streams
  BY <1>1, <1>2, Values DEF Panic, Restart, StreamsInv, Usable, Creating
<1>3. CASE NotificationStreamNoReply(r)
  <2>1. CASE UNCHANGED streams
    BY <1>2, <1>3, <2>1 DEF NotificationStreamNoReply
  <2>2. CASE Usable(t.session) /\ CreateStream(t.session)
    <3>1. t.session \in SessionIds /\ Creating(t.session)
      BY <1>1, <1>3, <2>2 DEF NotificationStreamNoReply, At, Usable, Creating
    <3>2. streams[t.session] = 0 /\ t.session \in open
      BY <1>1, <2>2, <3>1 DEF StreamsInv, Usable
    <3>3. \A s \in SessionIds : streams'[s] = IF s = t.session THEN 1 ELSE streams[s]
      BY <1>1, <2>2, <3>2 DEF CreateStream
    <3>4. open' = open /\ orphans' = open
      BY <1>3 DEF NotificationStreamNoReply, Panic, Restart
    <3> QED
      BY <3>2, <3>3, <3>4 DEF StreamsInv, Usable
  <2> QED
    BY <1>1, <1>3, <2>1, <2>2 DEF NotificationStreamNoReply
<1>4. CASE CreateNotificationStream(r)
  <2>1. UNCHANGED <<open, orphans, streams, streamCreated>> /\ session \in SessionIds
    BY <1>1, <1>4 DEF CreateNotificationStream
  <2>2. CASE Outcome(r, "failed", TRUE) /\ UNCHANGED handler
    <3>1. task'[c].pc = "write"
      BY <1>1, <2>2, OutcomeFacts
    <3> QED
      BY <2>1, <2>2, <3>1, StreamsFrame DEF Creating
  <2>3. CASE ~streamCreated[session] /\ handler' = [handler EXCEPT ![session] = r] /\ Request(r)
    <3>1. task'[c].session = session
      BY <1>1, <2>3, SessionMove DEF Request
    <3>2. \A s \in SessionIds : Creating(s)' => s = session
      BY <3>1 DEF Creating
    <3>3. handler'[session] # Nil /\ \A s \in SessionIds : s # session => handler'[s] = handler[s]
      BY <1>1, <2>1, <2>3
    <3> QED
      BY <2>1, <2>3, <3>2, <3>3 DEF StreamsInv, Usable
  <2> QED
    BY <1>4, <2>2, <2>3 DEF CreateNotificationStream
<1>5. CASE NotificationStreamReply(r)
  <2>1. /\ UNCHANGED <<open, orphans, handler>>
        /\ t.session \in SessionIds /\ t.session \in open /\ Usable(t.session) /\ Creating(t.session)
    BY <1>1, <1>5 DEF NotificationStreamReply, StreamReply, At, Usable, Creating
  <2>2. task'[c].pc = "write"
    BY <1>1, <1>5, OutcomeFacts DEF NotificationStreamReply, StreamReply
  <2>3. ~streamCreated[t.session] /\ handler[t.session] # Nil /\ streams[t.session] = 0
    BY <1>1, <2>1 DEF StreamsInv
  <2>4. CASE UNCHANGED <<streams, streamCreated>>
    BY <2>1, <2>2, <2>4, StreamsFrame DEF Creating
  <2>5. CASE CreateStream(t.session) /\ streamCreated' = [streamCreated EXCEPT ![t.session] = TRUE]
    <3>1. /\ \A s \in SessionIds : streams'[s] = IF s = t.session THEN 1 ELSE streams[s]
          /\ streamCreated'[t.session]
          /\ \A s \in SessionIds : s # t.session => streamCreated'[s] = streamCreated[s]
      BY <1>1, <2>1, <2>3, <2>5 DEF CreateStream
    <3> QED
      BY <2>1, <2>2, <2>3, <3>1 DEF StreamsInv, Usable, Creating
  <2> QED
    BY <1>1, <1>5, <2>4, <2>5 DEF NotificationStreamReply, StreamReply
<1>6. CASE WriteStatus(r)
  <2>1. UNCHANGED <<open, orphans, streams, handler, streamCreated>>
    BY <1>6 DEF WriteStatus, WriteAndRetry
  <2> QED
    BY <1>6, <2>1, StreamsFrame, OthersDoNotCreate
<1> QED
  BY <1>2, <1>3, <1>4, <1>5, <1>6 DEF CreateSubscriptionStep, SessionGone

\* The MountPoint's and the server's steps preserve StreamsInv: a session ends
\* with its streams, a handler goes when its session is of no use any more,
\* and a new session is nobody's.
LEMMA StreamsMount ==
    ASSUME ApiInv, StreamsInv,
           \/ MountPointSeen \/ MountPointCloseSession \/ MountPointCleanUp
           \/ \E s \in SessionIds : MountPointDial(s) \/ EndSession(s)
    PROVE  StreamsInv'
<1>1. /\ streams \in [SessionIds -> Nat] /\ handler \in [SessionIds -> Subs \cup {Nil}]
      /\ streamCreated \in [SessionIds -> BOOLEAN]
      /\ session \in SessionIds \cup {Nil}
      /\ "CreateSubscription" \in SubKinds
  BY DEF ApiInv, SubscriptionsTypeOK, MountTypeOK, NotifyTypeOK, SubKinds
<1>2. task' = task
  BY DEF MountPointSeen, MountPointCloseSession, MountPointCleanUp, MountPointDial, EndSession
<1> USE DEF serverVars, clientVars, notifyVars, mountVars
<1>3. CASE MountPointSeen
  BY <1>2, <1>3, StreamsFrame DEF MountPointSeen, Notice, Creating
<1>4. ASSUME NEW s \in SessionIds, End(s), EndNotifications(s), UNCHANGED clientVars
      PROVE  StreamsInv'
  <2>1. /\ \A u \in SessionIds : streams'[u] = IF u = s THEN 0 ELSE streams[u]
        /\ open' = open \ {s} /\ orphans' = orphans \ {s}
    BY <1>1, <1>4 DEF End, EndNotifications
  <2> QED
    BY <1>1, <1>2, <1>4, <2>1 DEF StreamsInv, Usable, Creating
<1>5. CASE MountPointCloseSession
  <2>1. CASE UNCHANGED <<mountVars, subs, streams>>
    BY <1>2, <1>5, <2>1, StreamsFrame DEF MountPointCloseSession, Creating
  <2>2. CASE End(session) /\ EndNotifications(session)
    BY <1>1, <1>4, <1>5, <2>2 DEF MountPointCloseSession
  <2> QED
    BY <1>5, <2>1, <2>2 DEF MountPointCloseSession
<1>6. CASE MountPointCleanUp
  <2>1. /\ UNCHANGED <<open, streams, streamCreated>>
        /\ orphans' = orphans \cup ({session} \cap open)
        /\ \A s \in SessionIds : s # session => handler'[s] = handler[s]
    BY <1>1, <1>6 DEF MountPointCleanUp, Disconnect
  <2> QED
    BY <1>2, <2>1 DEF StreamsInv, Usable, Creating
<1>7. ASSUME NEW s \in SessionIds, MountPointDial(s)
      PROVE  StreamsInv'
  <2>1. /\ s \notin open /\ open' = open \cup {s} /\ UNCHANGED <<orphans, streams>>
        /\ \A u \in SessionIds : u # s => handler'[u] = handler[u] /\ streamCreated'[u] = streamCreated[u]
        /\ ~Creating(s)'
    BY <1>1, <1>2, <1>7 DEF MountPointDial, Connect, NewDispatcher, Creating
  <2>2. streams[s] = 0
    BY <2>1 DEF StreamsInv
  <2> QED
    BY <1>2, <2>1, <2>2 DEF StreamsInv, Usable, Creating
<1>8. ASSUME NEW s \in SessionIds, EndSession(s)
      PROVE  StreamsInv'
  BY <1>4, <1>8 DEF EndSession
<1> QED
  BY <1>3, <1>5, <1>6, <1>7, <1>8

\* Every step preserves StreamsInv.
LEMMA StreamsInvStep ==
    ApiInv /\ ApiInv' /\ StreamsInv /\ [Next]_vars => StreamsInv'
<1> SUFFICES ASSUME ApiInv, ApiInv', StreamsInv, [Next]_vars
             PROVE  StreamsInv'
  OBVIOUS
<1> USE DEF serverVars, clientVars, notifyVars, mountPointVars, mountVars
<1>1. CASE Panic /\ UNCHANGED streams
  BY <1>1 DEF Panic, Restart, StreamsInv, Usable
<1>2. ASSUME NEW r \in Subs,
             \/ User(r) \/ Informer(r)
             \/ CreateSubscriptionReconcile(r) \/ EstablishSubscriptionReconcile(r)
             \/ EstablishSubscriptionStep(r)
      PROVE  StreamsInv'
  <2>1. \A s \in SessionIds : Creating(s)' => Creating(s)
    BY <1>2, OthersDoNotCreate
  <2>2. \/ UNCHANGED <<streams, handler, streamCreated>> /\ UNCHANGED mountPointVars
        \/ Panic /\ UNCHANGED streams
    <3>1. CASE EstablishSubscriptionStep(r)
      BY <3>1 DEF EstablishSubscriptionStep, EstablishSubscriptionInitialize, SessionGone,
              EstablishSubscriptionSend, EstablishSubscriptionReply,
              EstablishSubscriptionNoReply, EstablishSubscriptionRegister, Subscribed,
              EstablishSubscriptionNoCleanUp, EstablishSubscriptionCleanUp, DeleteReply,
              DeleteAnswered, DeleteNoReply, EstablishSubscriptionFinalize, WriteStatus,
              WriteAndRetry
    <3> QED
      BY <1>2, <3>1 DEF User, Informer, CreateSubscriptionReconcile,
                        EstablishSubscriptionReconcile, ReconcileWith
  <2> QED
    BY <1>1, <2>1, <2>2, StreamsFrame
<1>3. CASE UNCHANGED vars
  BY <1>3, StreamsFrame DEF vars, Creating
<1>4. CASE Next
  BY <1>1, <1>2, <1>4, StreamsWork, StreamsMount DEF Next, SendToKafka, Crash
<1> QED
  BY <1>3, <1>4

\* Every reachable state satisfies ApiInv and StreamsInv.
LEMMA StreamsAlways ==
    Spec => [](ApiInv /\ StreamsInv)
<1>1. Init => StreamsInv
  <2> SUFFICES ASSUME Init
               PROVE  StreamsInv
    OBVIOUS
  <2>1. open = {} /\ \A s \in SessionIds : streams[s] = 0
    BY DEF Init, MountInit, NotifyInit
  <2>2. ASSUME NEW s \in SessionIds
        PROVE  streams[s] <= 1
    <3>1. streams[s] = 0
      BY <2>1
    <3>2. 0 <= 1
      OBVIOUS
    <3> QED
      BY <3>1, <3>2, Zenon
  <2>3. \A s \in SessionIds : ~Usable(s)
    BY <2>1 DEF Usable
  <2> QED
    BY <2>1, <2>2, <2>3 DEF StreamsInv
<1>2. ApiInv /\ StreamsInv /\ [Next]_vars => (ApiInv /\ StreamsInv)'
  BY ApiInvStep, StreamsInvStep
<1> QED
  BY ApiInvInit, <1>1, <1>2, PTL DEF Spec

\* CreateNotificationStream: no session is granted a second stream, for any
\* number of resources on it, over requests without a reply, restarts and
\* sessions that end and are dialled again.
THEOREM OneStream ==
    Spec => []OneStreamPerSession
<1>1. StreamsInv => OneStreamPerSession
  BY DEF StreamsInv, OneStreamPerSession
<1> QED
  BY StreamsAlways, <1>1, PTL

\* CreateNotificationStream: what a stream brings finds a handler for as long
\* as the operator has the session.
THEOREM NoStreamIsUnhandled ==
    Spec => []StreamsAreHandled
<1>1. StreamsInv => StreamsAreHandled
  BY DEF StreamsInv, StreamsAreHandled
<1> QED
  BY StreamsAlways, <1>1, PTL
=============================================================================
