----------------------- MODULE SubscriptionIdsProofs -----------------------
(***************************************************************************)
(* The ids of EstablishSubscription: that a subscription a resource knows  *)
(* by its id is listened to when a server gives no id twice, and that a    *)
(* cleanup uses no id but one that its resource was given, also when it    *)
(* does.                                                                   *)
(***************************************************************************)
EXTENDS SubscriptionsProofs

-----------------------------------------------------------------------------
(* The inductive invariant *)

GivenIds == {g.id : g \in given}

\* The ids that the operator has were given by the server, and those in use
\* are in use on an open session.
IdsGiven ==
    /\ \A n \in subs : n.id \in GivenIds /\ n.session \in open
    /\ \A r \in Subs : {obj[r].id, cache[r].id} \subseteq GivenIds \cup {Nil}
    /\ \A k \in SubKinds :
         /\ task[k].pc # "idle" => task[k].instance.id \in GivenIds \cup {Nil}
         /\ task[k].pc = "register" => task[k].id \in GivenIds

\* A subscription is known by its id to no resource but its own.
IdsOwned ==
    \A n \in subs :
        /\ \A r \in Subs : n.id \in {obj[r].id, cache[r].id} => n.by = r
        /\ \A k \in SubKinds :
             /\ task[k].pc # "idle" /\ task[k].instance.id = n.id => task[k].obj = n.by
             /\ task[k].pc = "register" /\ task[k].id = n.id =>
                  task[k].obj = n.by /\ task[k].session = n.session

\* No copy of a resource with an id, which is not being deleted, is from a
\* resource of the same name that was.
NotReborn ==
    \A r \in Subs : obj[r].phase = "live" /\ obj[r].id # Nil =>
        /\ cache[r].phase # "deleting"
        /\ \A k \in SubKinds : task[k].obj = r => task[k].instance.phase # "deleting"

\* An id is stored, and about to be stored, after its callback is registered,
\* whatever the status says.
StoredIsHeard ==
    \A n \in subs : Usable(n.session) =>
        /\ obj[n.by].phase = "live" /\ obj[n.by].id = n.id => Heard(n)
        /\ \A k \in SubKinds :
             /\ task[k].pc = "write" /\ task[k].obj = n.by /\ task[k].fresh
             /\ task[k].instance.phase = "live" /\ task[k].instance.id = n.id
             => Heard(n)

IdsInv ==
    /\ IdsGiven
    /\ IdsOwned
    /\ NotReborn
    /\ StoredIsHeard

-----------------------------------------------------------------------------
(* Where ids come from *)

\* A worker writes the id it has into its resource r.
Stores(k, r) ==
    /\ task[k].pc = "write"
    /\ task[k].obj = r
    /\ task[k].fresh
    /\ obj'[r].phase = obj[r].phase
    /\ obj'[r].id = task[k].instance.id
    /\ task'[k].pc = "idle"

\* The worker of k begins with the cached copy of a resource.
Begins(k) ==
    /\ task[k].pc = "idle"
    /\ task'[k].pc \in {"write", "init", "cleanup", "logic"}
    /\ task'[k].instance = cache[task'[k].obj]
    /\ task'[k].fresh => cache[task'[k].obj] = obj[task'[k].obj]

\* It goes on with the copy it has, or with a new id.
Continues(k) ==
    /\ task[k].pc # "idle"
    /\ task'[k].obj = task[k].obj
    /\ task'[k].fresh => task[k].fresh
    /\ task'[k].instance.phase = task[k].instance.phase
    /\ \/ /\ task'[k].instance.id = task[k].instance.id
          /\ ~(task[k].pc = "register" /\ task'[k].pc = "write")
       \/ /\ task[k].pc = "register" /\ task'[k].pc = "write"
          /\ task'[k].instance.id = task[k].id
    /\ task'[k].pc = "register" /\ task[k].pc = "register" =>
         task'[k].id = task[k].id /\ task'[k].session = task[k].session

\* No step brings an id to a place but from one where it was.
LEMMA IdFlow ==
    ASSUME ApiInv, ApiInv', ApiStep
    PROVE  /\ \A r \in Subs :
                /\ cache'[r] \in {cache[r], obj[r]}
                /\ obj'[r].id \in {Nil, obj[r].id} \/ \E k \in SubKinds : Stores(k, r)
                /\ obj'[r].phase = "live" /\ obj'[r].id # Nil => obj[r].phase = "live"
           /\ \A k \in SubKinds :
                task'[k].pc # "idle" => Begins(k) \/ Continues(k)
<1>1. /\ task \in [SubKinds -> Task] /\ task' \in [SubKinds -> Task]
      /\ obj \in [Subs -> Resource] /\ obj' \in [Subs -> Resource]
      /\ cache \in [Subs -> Resource]
      /\ \A r \in Subs : SubKind[r] \in SubKinds
      /\ TaskShape /\ TaskShape' /\ Copies
  BY SubscriptionsAssumption DEF SubscriptionsTypeOK, ApiInv
<1> DEFINE ObjFlow == \A r \in Subs :
                /\ cache'[r] \in {cache[r], obj[r]}
                /\ obj'[r].id \in {Nil, obj[r].id} \/ \E k \in SubKinds : Stores(k, r)
                /\ obj'[r].phase = "live" /\ obj'[r].id # Nil => obj[r].phase = "live"
           TaskFlow == \A k \in SubKinds :
                task'[k].pc # "idle" => Begins(k) \/ Continues(k)
<1>2. ASSUME UNCHANGED <<obj, cache>>
      PROVE  ObjFlow
  BY <1>2
<1>3. ASSUME UNCHANGED task
      PROVE  TaskFlow
  BY <1>3 DEF Continues
<1>4. CASE UNCHANGED <<obj, cache, watch, task>>
  BY <1>2, <1>3, <1>4
<1>5. CASE Restarts
  BY <1>1, <1>5, Values DEF Restarts
<1>6. ASSUME NEW r \in Subs, Starts(r)
      PROVE  ObjFlow /\ TaskFlow
  <2> DEFINE k == SubKind[r]
  <2>1. ObjFlow
    BY <1>2, <1>6 DEF Starts, Works
  <2>2. k \in SubKinds /\ task[k].pc = "idle" /\ \A j \in SubKinds \ {k} : task'[j] = task[j]
    BY <1>1, <1>6 DEF Starts, Works
  <2>3. watch[r] = "synced" => cache[r] = obj[r]
    BY <1>1 DEF Copies
  <2>4. task'[k].pc # "idle" => Begins(k)
    BY <1>6, <2>2, <2>3, Values DEF Starts, Begins
  <2>5. \A j \in SubKinds \ {k} : task'[j].pc # "idle" => Continues(j)
    BY <2>2 DEF Continues
  <2> QED
    BY <2>1, <2>4, <2>5
<1>7. ASSUME NEW r \in Subs, GoesOn(r)
      PROVE  ObjFlow /\ TaskFlow
  <2> DEFINE k == SubKind[r]
  <2>1. ObjFlow
    BY <1>2, <1>7 DEF GoesOn, Works
  <2>2. k \in SubKinds /\ \A j \in SubKinds \ {k} : task'[j] = task[j]
    BY <1>1, <1>7 DEF GoesOn, Works
  <2>3. Continues(k)
    BY <1>7 DEF GoesOn, Continues
  <2>4. \A j \in SubKinds \ {k} : task'[j].pc # "idle" => Continues(j)
    BY <2>2 DEF Continues
  <2> QED
    BY <2>1, <2>3, <2>4
<1>8. ASSUME NEW r \in Subs, Reports(r)
      PROVE  ObjFlow /\ TaskFlow
  <2> DEFINE k == SubKind[r]
  <2>1. ObjFlow
    BY <1>2, <1>8 DEF Reports, Works
  <2>2. k \in SubKinds /\ \A j \in SubKinds \ {k} : task'[j] = task[j]
    BY <1>1, <1>8 DEF Reports, Works
  <2>3. Continues(k)
    BY <1>8 DEF Reports, Continues
  <2>4. \A j \in SubKinds \ {k} : task'[j].pc # "idle" => Continues(j)
    BY <2>2 DEF Continues
  <2> QED
    BY <2>1, <2>3, <2>4
<1>9. ASSUME NEW r \in Subs, Finishes(r)
      PROVE  ObjFlow /\ TaskFlow
  <2> DEFINE k == SubKind[r]
  <2>1. /\ k \in SubKinds /\ task'[k].pc = "idle" /\ cache' = cache /\ task[k].obj = r
        /\ \A j \in SubKinds \ {k} : task'[j] = task[j]
    BY <1>1, <1>9, Values DEF Finishes
  <2>2. TaskFlow
    BY <2>1 DEF Continues
  <2>3. CASE UNCHANGED <<obj, watch>>
    BY <1>2, <2>1, <2>2, <2>3
  <2>4. CASE ~UNCHANGED <<obj, watch>>
    <3>1. PICK o \in Resource :
            /\ obj' = [obj EXCEPT ![r] = o]
            /\ \/ task[k].pc = "finalize" /\ o = Absent
               \/ /\ o.phase = obj[r].phase
                  /\ \/ /\ task[k].pc = "init"
                        /\ o.id = obj[r].id /\ o.finalizer
                     \/ /\ task[k].pc = "write"
                        /\ o.id = task[k].instance.id
                        /\ o.finalizer = obj[r].finalizer
      BY <1>9, <2>4 DEF Finishes
    <3>2. task[k].fresh
      BY <1>9, <2>4 DEF Finishes
    <3>3. obj'[r] = o /\ \A q \in Subs \ {r} : obj'[q] = obj[q]
      BY <1>1, <3>1
    <3>4. obj'[r].id \in {Nil, obj[r].id} \/ Stores(k, r)
      BY <2>1, <3>1, <3>2, <3>3, Values DEF Stores
    <3>5. obj'[r].phase = "live" => obj[r].phase = "live"
      BY <3>1, <3>3, Values
    <3>6. ObjFlow
      BY <2>1, <3>3, <3>4, <3>5
    <3> QED
      BY <2>2, <3>6
  <2> QED
    BY <2>3, <2>4
<1>10. ASSUME NEW r \in Subs, Changes(r)
       PROVE  ObjFlow /\ TaskFlow
  <2>1. ObjFlow
    BY <1>1, <1>10, Values DEF Changes
  <2>2. CASE task' = task
    BY <1>3, <2>1, <2>2
  <2>3. CASE task' = Outdated(r)
    <3>1. TaskFlow
      BY <1>1, <2>3, OutdatedFacts DEF Continues
    <3> QED
      BY <2>1, <3>1
  <2> QED
    BY <1>10, <2>2, <2>3 DEF Changes
<1>11. ASSUME NEW r \in Subs, Syncs(r)
       PROVE  ObjFlow /\ TaskFlow
  <2>1. ObjFlow
    BY <1>1, <1>11 DEF Syncs
  <2> QED
    BY <1>3, <1>11, <2>1 DEF Syncs
<1> QED
  BY <1>4, <1>5, <1>6, <1>7, <1>8, <1>9, <1>10, <1>11 DEF ApiStep

\* What is stored comes from a copy that is right.
LEMMA StoresFresh ==
    ASSUME ApiInv, NEW r \in Subs, NEW k \in SubKinds, Stores(k, r)
    PROVE  k = SubKind[r] /\ cache[r] = obj[r] /\ task[k].instance.phase = obj[r].phase
<1>1. TaskShape /\ Copies
  BY DEF ApiInv
<1>2. k = SubKind[r]
  BY <1>1, SubscriptionServerAssumption DEF TaskShape, Stores
<1>3. FreshCopy(k) /\ task[k].obj = r
  BY <1>1 DEF Copies, Stores
<1>4. cache[r] = obj[r]
  BY <1>1, <1>3 DEF FreshCopy, Copies
<1> QED
  BY <1>2, <1>3, <1>4 DEF FreshCopy

\* NotReborn is preserved by every step, whatever the server gives.
LEMMA NotRebornStep ==
    ASSUME ApiInv, ApiInv', ApiStep, NotReborn
    PROVE  NotReborn'
<1>1. \A r \in Subs :
        /\ cache'[r] \in {cache[r], obj[r]}
        /\ obj'[r].id \in {Nil, obj[r].id} \/ \E k \in SubKinds : Stores(k, r)
        /\ obj'[r].phase = "live" /\ obj'[r].id # Nil => obj[r].phase = "live"
  BY IdFlow
<1>2. \A k \in SubKinds : task'[k].pc # "idle" => Begins(k) \/ Continues(k)
  BY IdFlow
<1>3. \A k \in SubKinds, r \in Subs : task'[k].obj = r => k = SubKind[r] /\ task'[k].pc # "idle"
  BY SubscriptionServerAssumption DEF ApiInv, TaskShape
<1> SUFFICES ASSUME NEW r \in Subs, obj'[r].phase = "live", obj'[r].id # Nil
             PROVE  /\ cache'[r].phase # "deleting"
                    /\ \A k \in SubKinds : task'[k].obj = r => task'[k].instance.phase # "deleting"
  BY DEF NotReborn
<1>4. obj[r].phase = "live"
  BY <1>1
<1>5. CASE obj[r].id # Nil
  <2>1. /\ cache[r].phase # "deleting"
        /\ \A k \in SubKinds : task[k].obj = r => task[k].instance.phase # "deleting"
    BY <1>4, <1>5 DEF NotReborn
  <2>2. cache'[r].phase # "deleting"
    BY <1>1, <1>4, <2>1
  <2>3. ASSUME NEW k \in SubKinds, task'[k].obj = r
        PROVE  task'[k].instance.phase # "deleting"
    BY <1>2, <1>3, <2>1, <2>3 DEF Begins, Continues
  <2> QED
    BY <2>2, <2>3
<1>6. CASE obj[r].id = Nil
  <2>1. PICK k \in SubKinds : Stores(k, r)
    BY <1>1, <1>6
  <2>2. k = SubKind[r] /\ cache[r] = obj[r]
    BY <2>1, StoresFresh
  <2>3. cache'[r].phase # "deleting"
    BY <1>1, <1>4, <2>2
  <2>4. \A j \in SubKinds : task'[j].obj # r
    BY <1>3, <2>1, <2>2 DEF Stores
  <2> QED
    BY <2>3, <2>4
<1> QED
  BY <1>5, <1>6

-----------------------------------------------------------------------------
(* What a step does to the server's subscriptions and to the callbacks *)

\* A subscription is one there was, or has a new id; a worker that gets an id
\* gets that one.
KnownOrNew ==
    /\ GivenIds \subseteq GivenIds'
    /\ \A n \in subs' :
         /\ n.session \in open'
         /\ n.id \in GivenIds'
         /\ n \notin subs =>
              /\ n.id \notin GivenIds
              /\ \A k \in SubKinds : task'[k].pc = "register" /\ task'[k].id = n.id =>
                   task'[k].obj = n.by /\ task'[k].session = n.session
    /\ \A k \in SubKinds : task'[k].pc = "register" /\ task[k].pc # "register" =>
         task'[k].id \in GivenIds' \ GivenIds

\* A callback goes only by manageCleanUpLogic of a resource with the id, and a
\* worker leaves the registration with a callback.
KeepsCallbacks ==
    /\ \A n \in subs \cap subs' : Usable(n.session)' =>
         /\ Usable(n.session)
         /\ Heard(n) => \/ Heard(n)'
                        \/ \E k \in SubKinds : /\ task[k].pc = "cleanup"
                                               /\ task'[k].pc = "delete"
                                               /\ task[k].instance.id = n.id
    /\ \A k \in SubKinds : task[k].pc = "register" /\ task'[k].pc = "write" =>
         \A n \in subs' : n.id = task[k].id /\ Usable(n.session)' => Heard(n)'

\* IdsInv is preserved by a step of these kinds.
LEMMA IdsInvFlow ==
    ASSUME ApiInv, ApiInv', ApiStep, IdsInv, KnownOrNew, KeepsCallbacks
    PROVE  IdsInv'
<1>1. /\ \A n \in subs : n.id \in SubIds /\ n.by \in Subs
      /\ \A n \in subs' : n.id \in SubIds /\ n.by \in Subs
      /\ Nil \notin SubIds
      /\ TaskShape /\ TaskShape' /\ Copies
      /\ IdsGiven /\ IdsOwned /\ NotReborn /\ StoredIsHeard
  BY SubscriptionServerAssumption
     DEF ApiInv, SubscriptionsTypeOK, NotifyTypeOK, Subscription, IdsInv
<1>2. \A r \in Subs :
        /\ cache'[r] \in {cache[r], obj[r]}
        /\ obj'[r].id \in {Nil, obj[r].id} \/ \E k \in SubKinds : Stores(k, r)
        /\ obj'[r].phase = "live" /\ obj'[r].id # Nil => obj[r].phase = "live"
  BY IdFlow
<1>3. \A k \in SubKinds : task'[k].pc # "idle" => Begins(k) \/ Continues(k)
  BY IdFlow
<1>4. /\ \A k \in SubKinds, r \in Subs : task[k].obj = r => k = SubKind[r] /\ task[k].pc # "idle"
      /\ \A k \in SubKinds, r \in Subs : task'[k].obj = r => k = SubKind[r] /\ task'[k].pc # "idle"
  BY <1>1, SubscriptionServerAssumption DEF TaskShape
<1>5. \A k \in SubKinds : task'[k].pc # "idle" => task'[k].obj \in Subs
  BY <1>1 DEF TaskShape
<1>6. /\ \A r \in Subs : {obj'[r].id, cache'[r].id} \subseteq GivenIds \cup {Nil}
      /\ \A k \in SubKinds : task'[k].pc # "idle" => task'[k].instance.id \in GivenIds \cup {Nil}
  <2>1. \A r \in Subs : obj'[r].id \in GivenIds \cup {Nil}
    BY <1>1, <1>2 DEF IdsGiven, Stores
  <2>2. \A r \in Subs : cache'[r].id \in GivenIds \cup {Nil}
    BY <1>1, <1>2 DEF IdsGiven
  <2>3. ASSUME NEW k \in SubKinds, task'[k].pc # "idle"
        PROVE  task'[k].instance.id \in GivenIds \cup {Nil}
    <3>1. CASE Begins(k)
      BY <1>1, <1>5, <2>3, <3>1 DEF IdsGiven, Begins
    <3>2. CASE Continues(k)
      BY <1>1, <3>2 DEF IdsGiven, Continues
    <3> QED
      BY <1>3, <2>3, <3>1, <3>2
  <2> QED
    BY <2>1, <2>2, <2>3
<1>7. IdsGiven'
  <2>1. \A k \in SubKinds : task'[k].pc = "register" => task'[k].id \in GivenIds'
    <3> SUFFICES ASSUME NEW k \in SubKinds, task'[k].pc = "register"
                 PROVE  task'[k].id \in GivenIds'
      OBVIOUS
    <3>1. CASE task[k].pc # "register"
      BY <3>1 DEF KnownOrNew
    <3>2. CASE task[k].pc = "register"
      <4>1. task'[k].id = task[k].id
        BY <1>3, <3>2 DEF Begins, Continues
      <4> QED
        BY <1>1, <3>2, <4>1 DEF IdsGiven, KnownOrNew
    <3> QED
      BY <3>1, <3>2
  <2> QED
    BY <1>6, <2>1 DEF IdsGiven, KnownOrNew
<1>8. IdsOwned'
  <2> SUFFICES ASSUME NEW n \in subs'
               PROVE  /\ \A r \in Subs : n.id \in {obj'[r].id, cache'[r].id} => n.by = r
                      /\ \A k \in SubKinds :
                           /\ task'[k].pc # "idle" /\ task'[k].instance.id = n.id =>
                                task'[k].obj = n.by
                           /\ task'[k].pc = "register" /\ task'[k].id = n.id =>
                                task'[k].obj = n.by /\ task'[k].session = n.session
    BY DEF IdsOwned
  <2>1. n.id # Nil
    BY <1>1
  <2>2. CASE n \notin subs
    <3>1. n.id \notin GivenIds
      BY <2>2 DEF KnownOrNew
    <3>2. /\ \A r \in Subs : n.id \notin {obj'[r].id, cache'[r].id}
          /\ \A k \in SubKinds : task'[k].pc # "idle" => task'[k].instance.id # n.id
      BY <1>6, <2>1, <3>1
    <3> QED
      BY <2>2, <3>2 DEF KnownOrNew
  <2>3. CASE n \in subs
    <3>1. /\ \A r \in Subs : n.id \in {obj[r].id, cache[r].id} => n.by = r
          /\ \A k \in SubKinds :
               /\ task[k].pc # "idle" /\ task[k].instance.id = n.id => task[k].obj = n.by
               /\ task[k].pc = "register" /\ task[k].id = n.id =>
                    task[k].obj = n.by /\ task[k].session = n.session
      BY <1>1, <2>3 DEF IdsOwned
    <3>2. ASSUME NEW r \in Subs, n.id \in {obj'[r].id, cache'[r].id}
          PROVE  n.by = r
      <4>1. CASE n.id = cache'[r].id
        BY <1>2, <3>1, <4>1
      <4>2. CASE n.id = obj'[r].id
        BY <1>2, <2>1, <3>1, <4>2 DEF Stores
      <4> QED
        BY <3>2, <4>1, <4>2
    <3>3. ASSUME NEW k \in SubKinds, task'[k].pc # "idle", task'[k].instance.id = n.id
          PROVE  task'[k].obj = n.by
      <4>1. CASE Begins(k)
        BY <1>5, <3>1, <3>3, <4>1 DEF Begins
      <4>2. CASE Continues(k)
        BY <3>1, <3>3, <4>2 DEF Continues
      <4> QED
        BY <1>3, <3>3, <4>1, <4>2
    <3>4. ASSUME NEW k \in SubKinds, task'[k].pc = "register", task'[k].id = n.id
          PROVE  task'[k].obj = n.by /\ task'[k].session = n.session
      <4>1. task[k].pc = "register"
        BY <1>1, <2>3, <3>4 DEF KnownOrNew, IdsGiven
      <4>2. Continues(k)
        BY <1>3, <3>4, <4>1 DEF Begins
      <4> QED
        BY <3>1, <3>4, <4>1, <4>2 DEF Continues
    <3> QED
      BY <3>2, <3>3, <3>4
  <2> QED
    BY <2>2, <2>3
<1>9. ASSUME NEW r \in Subs, NEW k \in SubKinds, Stores(k, r)
      PROVE  k = SubKind[r] /\ cache[r] = obj[r] /\ task[k].instance.phase = obj[r].phase
  BY <1>9, StoresFresh
<1>10. NotReborn'
  BY <1>1, NotRebornStep
<1>11. StoredIsHeard'
  <2> SUFFICES ASSUME NEW n \in subs', Usable(n.session)'
               PROVE  /\ obj'[n.by].phase = "live" /\ obj'[n.by].id = n.id => Heard(n)'
                      /\ \A k \in SubKinds :
                           /\ task'[k].pc = "write" /\ task'[k].obj = n.by /\ task'[k].fresh
                           /\ task'[k].instance.phase = "live" /\ task'[k].instance.id = n.id
                           => Heard(n)'
    BY DEF StoredIsHeard
  <2>1. n.id # Nil /\ n.by \in Subs
    BY <1>1
  <2>2. ASSUME n \in subs,
               \/ obj[n.by].phase = "live" /\ obj[n.by].id = n.id
               \/ \E k \in SubKinds :
                    /\ task[k].pc = "write" /\ task[k].obj = n.by /\ task[k].fresh
                    /\ task[k].instance.phase = "live" /\ task[k].instance.id = n.id
        PROVE  Heard(n)'
    <3>1. Usable(n.session) /\ Heard(n)
      BY <1>1, <2>2 DEF KeepsCallbacks, StoredIsHeard
    <3>2. ASSUME NEW k \in SubKinds, task[k].pc = "cleanup", task[k].instance.id = n.id
          PROVE  FALSE
      <4>1. task[k].obj = n.by /\ task[k].instance.phase = "deleting"
        BY <1>1, <2>2, <3>2 DEF IdsOwned, Copies
      <4>2. CASE obj[n.by].phase = "live" /\ obj[n.by].id = n.id
        BY <1>1, <2>1, <4>1, <4>2 DEF NotReborn
      <4>3. ASSUME NEW j \in SubKinds, task[j].pc = "write", task[j].obj = n.by
            PROVE  FALSE
        BY <1>4, <2>1, <3>2, <4>1, <4>3
      <4> QED
        BY <2>2, <4>2, <4>3
    <3> QED
      BY <2>2, <3>1, <3>2 DEF KeepsCallbacks
  <2>3. ASSUME obj'[n.by].phase = "live", obj'[n.by].id = n.id
        PROVE  Heard(n)'
    <3>1. n \in subs
      BY <1>6, <2>1, <2>3 DEF KnownOrNew
    <3>2. obj[n.by].phase = "live"
      BY <1>2, <2>1, <2>3
    <3>3. CASE obj[n.by].id = n.id
      BY <2>2, <3>1, <3>2, <3>3
    <3>4. CASE obj[n.by].id # n.id
      <4>1. PICK k \in SubKinds : Stores(k, n.by)
        BY <1>2, <2>1, <2>3, <3>4
      <4>2. /\ task[k].pc = "write" /\ task[k].obj = n.by /\ task[k].fresh
            /\ task[k].instance.phase = "live" /\ task[k].instance.id = n.id
        BY <1>9, <2>1, <2>3, <3>2, <4>1 DEF Stores
      <4> QED
        BY <2>2, <3>1, <4>2
    <3> QED
      BY <3>3, <3>4
  <2>4. ASSUME NEW k \in SubKinds,
               task'[k].pc = "write", task'[k].obj = n.by, task'[k].fresh,
               task'[k].instance.phase = "live", task'[k].instance.id = n.id
        PROVE  Heard(n)'
    <3>1. n \in subs
      BY <1>6, <2>1, <2>4 DEF KnownOrNew
    <3>2. CASE Begins(k)
      BY <2>2, <2>4, <3>1, <3>2 DEF Begins
    <3>3. CASE Continues(k) /\ task[k].pc = "register"
      <4>1. n.id = task[k].id
        BY <2>4, <3>3 DEF Continues
      <4> QED
        BY <2>4, <3>3, <4>1 DEF KeepsCallbacks
    <3>4. CASE Continues(k) /\ task[k].pc # "register"
      <4>1. /\ task[k].pc # "idle" /\ task[k].obj = n.by /\ task[k].fresh
            /\ task[k].instance.phase = "live" /\ task[k].instance.id = n.id
        BY <2>4, <3>4 DEF Continues
      <4>2. CASE task[k].pc = "write"
        BY <2>2, <3>1, <4>1, <4>2
      <4>3. CASE task[k].pc # "write"
        <5>1. FreshCopy(k)
          BY <1>1, <4>1 DEF Copies
        <5>2. obj[n.by].phase = "live" /\ obj[n.by].id = n.id
          BY <4>1, <4>3, <5>1 DEF FreshCopy
        <5> QED
          BY <2>2, <3>1, <5>2
      <4> QED
        BY <4>2, <4>3
    <3> QED
      BY <1>3, <2>4, <3>2, <3>3, <3>4
  <2> QED
    BY <2>3, <2>4
<1> QED
  BY <1>7, <1>8, <1>10, <1>11 DEF IdsInv

\* What a step does that establishes and removes nothing, and after which no
\* worker has a new id or has left its registration.
LEMMA QuietStep ==
    ASSUME IdsInv, UNCHANGED <<subs, given, callbacks, open, orphans>>,
           \A k \in SubKinds :
             /\ task'[k].pc = "register" => task[k].pc = "register"
             /\ task[k].pc = "register" => task'[k].pc # "write"
    PROVE  KnownOrNew /\ KeepsCallbacks
  BY DEF GivenIds, IdsInv, IdsGiven, KnownOrNew, KeepsCallbacks, Usable, Heard

\* The same for a restart, after which no session is usable.
LEMMA PanicStep ==
    ASSUME IdsInv, Panic, UNCHANGED <<subs, given>>
    PROVE  KnownOrNew /\ KeepsCallbacks
<1>1. open' = open /\ orphans' = open /\ \A k \in SubKinds : task'[k] = Idle
  BY DEF Panic, Restart
<1>2. \A k \in SubKinds : task'[k].pc = "idle"
  BY <1>1, Values
<1> QED
  BY <1>1, <1>2 DEF GivenIds, IdsInv, IdsGiven, KnownOrNew, KeepsCallbacks, Usable

\* The steps of users, of the informer and of the work queue.
LEMMA ApiNotify ==
    ASSUME ApiInv, IdsInv, NEW r \in Subs,
           \/ User(r) \/ Informer(r)
           \/ CreateSubscriptionReconcile(r) \/ EstablishSubscriptionReconcile(r)
    PROVE  KnownOrNew /\ KeepsCallbacks
<1>1. SubscriptionsTypeOK /\ task \in [SubKinds -> Task] /\ SubKind[r] \in SubKinds
  BY SubscriptionsAssumption DEF ApiInv, SubscriptionsTypeOK
<1>2. UNCHANGED <<subs, given, callbacks, open, orphans>>
  BY DEF User, Informer, CreateSubscriptionReconcile, EstablishSubscriptionReconcile,
         ReconcileWith, mountPointVars, mountVars, notifyVars, serverVars, clientVars
<1>3. CASE User(r) \/ Informer(r)
  <2>1. task' = task \/ task' = Outdated(r)
    BY <1>1, <1>3, UserStep DEF Changes, Informer, CacheSync
  <2>2. \A k \in SubKinds : task'[k].pc = task[k].pc
    BY <1>1, <2>1, OutdatedFacts
  <2> QED
    BY <1>2, <2>2, QuietStep
<1>4. CASE CreateSubscriptionReconcile(r) \/ EstablishSubscriptionReconcile(r)
  <2>1. Starts(r)
    BY <1>1, <1>4, StartsStep
  <2>2. \A k \in SubKinds \ {SubKind[r]} : task'[k] = task[k]
    BY <2>1 DEF Starts, Works
  <2>3. task[SubKind[r]].pc = "idle" /\ task'[SubKind[r]].pc # "register"
    BY <2>1, Values DEF Starts
  <2> QED
    BY <1>2, <2>2, <2>3, QuietStep
<1> QED
  BY <1>3, <1>4

\* The steps of the worker of CreateSubscription.
LEMMA CreateNotify ==
    ASSUME ApiInv, IdsInv, NEW r \in Subs, CreateSubscriptionStep(r)
    PROVE  KnownOrNew /\ KeepsCallbacks
<1>1. /\ SubscriptionsTypeOK /\ TaskShape /\ task \in [SubKinds -> Task]
      /\ SubKind[r] = "CreateSubscription" /\ SubKind[r] \in SubKinds
  BY SubscriptionsAssumption DEF ApiInv, SubscriptionsTypeOK, CreateSubscriptionStep
<1> USE DEF mountPointVars, mountVars, notifyVars, serverVars, clientVars
<1>2. CASE SessionGone(r, "logic") \/ NotificationStreamNoReply(r)
  BY <1>2, PanicStep DEF SessionGone, NotificationStreamNoReply
<1>3. CASE CreateNotificationStream(r) \/ NotificationStreamReply(r) \/ WriteStatus(r)
  <2>1. UNCHANGED <<subs, given, callbacks, open, orphans>>
    BY <1>3 DEF CreateNotificationStream, NotificationStreamReply, StreamReply, WriteStatus,
                WriteAndRetry
  <2>2. Restarts \/ GoesOn(r) \/ Reports(r) \/ Finishes(r)
    BY <1>1, WorkStep
  <2>3. task[SubKind[r]].pc # "register"
    BY <1>1 DEF TaskShape
  <2>4. \A k \in SubKinds \ {SubKind[r]} : task'[k] = task[k] \/ task'[k].pc = "idle"
    BY <1>1, <2>2, Values DEF Restarts, GoesOn, Reports, Finishes, Works
  <2>5. task'[SubKind[r]].pc # "register"
    BY <1>1, <2>2, Values DEF Restarts, GoesOn, Reports, Finishes
  <2> QED
    BY <1>1, <2>1, <2>3, <2>4, <2>5, QuietStep
<1> QED
  BY <1>2, <1>3 DEF CreateSubscriptionStep

\* The server gives an id to r that it has never given.
LEMMA EstablishNew ==
    ASSUME ~ReuseIds, IdsInv, NEW r \in Subs, NEW s, NEW i,
           Usable(s), Establish(r, s, i), UNCHANGED <<open, orphans, callbacks>>,
           \A k \in SubKinds :
             /\ task'[k].pc = "register" /\ task[k].pc # "register" =>
                  task'[k].id = i /\ task'[k].obj = r /\ task'[k].session = s
             /\ task'[k].pc = "register" /\ task[k].pc = "register" => task'[k] = task[k]
             /\ task[k].pc = "register" => task'[k].pc # "write"
    PROVE  KnownOrNew /\ KeepsCallbacks
<1>1. /\ i \notin GivenIds /\ GivenIds' = GivenIds \cup {i}
      /\ subs' = subs \cup {[id |-> i, session |-> s, by |-> r]}
  <2>1. /\ given' = given \cup {[id |-> i, by |-> r]}
        /\ subs' = subs \cup {[id |-> i, session |-> s, by |-> r]}
        /\ i \in FreeIds
    BY DEF Establish
  <2>2. i \notin GivenIds
    BY <2>1 DEF FreeIds, GivenIds
  <2>3. GivenIds' = GivenIds \cup {i}
    <3>1. [id |-> i, by |-> r].id = i
      OBVIOUS
    <3> QED
      BY <2>1, <3>1 DEF GivenIds
  <2> QED
    BY <2>1, <2>2, <2>3
<1>2. s \in open
  BY DEF Usable
<1>3. KnownOrNew
  <2>1. ASSUME NEW n \in subs'
        PROVE  /\ n.session \in open'
               /\ n.id \in GivenIds'
               /\ n \notin subs =>
                    /\ n.id \notin GivenIds
                    /\ \A k \in SubKinds : task'[k].pc = "register" /\ task'[k].id = n.id =>
                         task'[k].obj = n.by /\ task'[k].session = n.session
    <3>1. CASE n \in subs
      BY <1>1, <3>1 DEF IdsInv, IdsGiven
    <3>2. CASE n = [id |-> i, session |-> s, by |-> r]
      <4>1. n.id = i /\ n.session = s /\ n.by = r
        BY <3>2
      <4>2. \A k \in SubKinds : task[k].pc = "register" => task[k].id # i
        BY <1>1 DEF IdsInv, IdsGiven
      <4> QED
        BY <1>1, <1>2, <4>1, <4>2
    <3> QED
      BY <1>1, <2>1, <3>1, <3>2
  <2> QED
    BY <1>1, <2>1 DEF KnownOrNew
<1>4. KeepsCallbacks
  BY DEF KeepsCallbacks, Usable, Heard
<1> QED
  BY <1>3, <1>4

\* The server ends a subscription, and nothing else happens to them.
LEMMA DeleteNotify ==
    ASSUME IdsInv, subs' \subseteq subs, UNCHANGED <<given, open, orphans, callbacks>>,
           \A k \in SubKinds :
             /\ task'[k].pc = "register" => task[k].pc = "register"
             /\ task[k].pc = "register" => task'[k].pc # "write"
    PROVE  KnownOrNew /\ KeepsCallbacks
  BY DEF GivenIds, IdsInv, IdsGiven, KnownOrNew, KeepsCallbacks, Usable, Heard

\* The steps of the worker of EstablishSubscription.
LEMMA EstablishNotify ==
    ASSUME ~ReuseIds, ApiInv, IdsInv, NEW r \in Subs, EstablishSubscriptionStep(r)
    PROVE  KnownOrNew /\ KeepsCallbacks
<1> DEFINE e == "EstablishSubscription"
           t == task[e]
<1>1. /\ SubscriptionsTypeOK /\ TaskShape /\ task \in [SubKinds -> Task]
      /\ SubKind[r] = e /\ e \in SubKinds /\ SubKinds \ {e} = {"CreateSubscription"}
      /\ callbacks \in [SessionIds -> SUBSET SubIds]
      /\ session \in SessionIds \cup {Nil}
  BY DEF ApiInv, SubscriptionsTypeOK, NotifyTypeOK, MountTypeOK, EstablishSubscriptionStep, SubKinds
<1>2. Restarts \/ GoesOn(r) \/ Reports(r) \/ Finishes(r)
  BY <1>1, WorkStep
<1>3. \A k \in SubKinds \ {e} : task'[k] = task[k] \/ task'[k].pc = "idle"
  BY <1>1, <1>2, Values DEF Restarts, GoesOn, Reports, Finishes, Works
<1>4. \A k \in SubKinds \ {e} : task[k].pc # "register" /\ task'[k].pc # "register"
  BY <1>1, <1>3 DEF TaskShape
<1> USE DEF mountPointVars, mountVars, notifyVars, serverVars, clientVars
<1>5. CASE SessionGone(r, "logic") \/ SessionGone(r, "cleanup")
  BY <1>5, PanicStep DEF SessionGone
<1>6. CASE \/ EstablishSubscriptionInitialize(r) \/ EstablishSubscriptionSend(r)
           \/ EstablishSubscriptionNoCleanUp(r) \/ EstablishSubscriptionFinalize(r)
           \/ WriteStatus(r) \/ DeleteReply(r) \/ DeleteNoReply(r)
  <2>1. t.pc \notin {"register", "rpc"}
    BY <1>1, <1>6 DEF EstablishSubscriptionInitialize, EstablishSubscriptionSend, At,
                      EstablishSubscriptionNoCleanUp, EstablishSubscriptionFinalize,
                      WriteStatus, WriteAndRetry, DeleteReply, DeleteAnswered, DeleteNoReply
  <2>2. task'[e].pc # "register"
    BY <1>1, <1>2, <2>1, Values DEF Restarts, GoesOn, Reports, Finishes
  <2>3. subs' \subseteq subs /\ UNCHANGED <<given, open, orphans, callbacks>>
    BY <1>6 DEF EstablishSubscriptionInitialize, EstablishSubscriptionSend,
                EstablishSubscriptionNoCleanUp, EstablishSubscriptionFinalize, WriteStatus,
                WriteAndRetry, DeleteReply, DeleteAnswered, DeleteNoReply, DeleteSubscription
  <2> QED
    BY <1>1, <1>4, <2>1, <2>2, <2>3, DeleteNotify
<1>7. CASE EstablishSubscriptionReply(r)
  <2>1. t.pc = "rpc" /\ UNCHANGED <<open, orphans, callbacks>> /\ Usable(t.session) /\ t.obj = r
    BY <1>1, <1>7 DEF EstablishSubscriptionReply, At
  <2>2. CASE Outcome(r, "failed", FALSE) /\ UNCHANGED <<subs, given>>
    <3>1. task'[e].pc = "write"
      BY <1>1, <2>2, OutcomeFacts
    <3> QED
      BY <1>1, <1>4, <2>1, <2>2, <3>1, QuietStep
  <2>3. ASSUME NEW i \in SubIds, Establish(r, t.session, i),
               task' = [task EXCEPT ![e] = [@ EXCEPT !.pc = "register", !.id = i]]
        PROVE  KnownOrNew /\ KeepsCallbacks
    <3>1. /\ task'[e].id = i /\ task'[e].obj = r /\ task'[e].session = t.session
          /\ task'[e].pc = "register"
      BY <1>1, <2>1, <2>3, IdMove
    <3> QED
      BY <1>1, <1>4, <2>1, <2>3, <3>1, EstablishNew
  <2> QED
    BY <1>1, <1>7, <2>2, <2>3 DEF EstablishSubscriptionReply
<1>8. CASE EstablishSubscriptionNoReply(r)
  <2>1. /\ t.pc = "rpc" /\ UNCHANGED <<open, orphans, callbacks>>
        /\ Outcome(r, "failed", TRUE)
    BY <1>1, <1>8 DEF EstablishSubscriptionNoReply, At
  <2>2. task'[e].pc = "write"
    BY <1>1, <2>1, OutcomeFacts
  <2>3. CASE UNCHANGED <<subs, given>>
    BY <1>1, <1>4, <2>1, <2>2, <2>3, QuietStep
  <2>4. ASSUME NEW i \in SubIds, Usable(t.session), Establish(r, t.session, i)
        PROVE  KnownOrNew /\ KeepsCallbacks
    BY <1>1, <1>4, <2>1, <2>2, <2>4, EstablishNew
  <2> QED
    BY <1>1, <1>8, <2>3, <2>4 DEF EstablishSubscriptionNoReply
<1>9. CASE EstablishSubscriptionRegister(r)
  <2>1. /\ t.pc = "register" /\ UNCHANGED <<subs, given, open, orphans>>
        /\ Register(t.session, t.id) /\ Subscribed(r, "subscribed")
    BY <1>1, <1>9 DEF EstablishSubscriptionRegister, Subscribed, At
  <2>2. t.session \in SessionIds /\ t.id \in SubIds
    BY <1>1, <2>1 DEF TaskShape
  <2>3. task'[e].pc = "write"
    BY <1>1, <2>1, <2>2, SubscribedFacts
  <2>4. /\ t.id \in callbacks'[t.session]
        /\ \A s \in SessionIds : callbacks[s] \subseteq callbacks'[s]
    BY <1>1, <2>1, <2>2 DEF Register
  <2>5. KnownOrNew
    BY <1>1, <1>4, <2>1, <2>3 DEF GivenIds, IdsInv, IdsGiven, KnownOrNew
  <2>6. \A n \in subs : n.session \in SessionIds
    BY <1>1 DEF SubscriptionsTypeOK, NotifyTypeOK, Subscription
  <2>7. \A n \in subs : n.id = t.id => n.session = t.session
    BY <1>1, <2>1 DEF IdsInv, IdsOwned
  <2>8. KeepsCallbacks
    BY <1>1, <1>4, <2>1, <2>4, <2>6, <2>7 DEF KeepsCallbacks, Usable, Heard
  <2> QED
    BY <2>5, <2>8
<1>10. CASE EstablishSubscriptionCleanUp(r)
  <2>1. CASE SessionGone(r, "cleanup")
    BY <1>5, <2>1
  <2>2. CASE /\ session # Nil
             /\ Remove(session, t.instance.id)
             /\ task' = [task EXCEPT ![e] = [@ EXCEPT !.pc = "delete", !.session = session]]
             /\ UNCHANGED <<subs, given, open, orphans>>
    <3>1. t.pc = "cleanup"
      BY <1>1, <1>10 DEF EstablishSubscriptionCleanUp, At
    <3>2. task'[e].pc = "delete"
      BY <1>1, <2>2, SessionMove
    <3>3. \A s \in SessionIds : callbacks[s] \ {t.instance.id} \subseteq callbacks'[s]
      BY <1>1, <2>2 DEF Remove
    <3>4. KnownOrNew
      BY <1>1, <1>4, <2>2, <3>2 DEF GivenIds, IdsInv, IdsGiven, KnownOrNew
    <3>5. \A n \in subs : n.session \in SessionIds
      BY <1>1 DEF SubscriptionsTypeOK, NotifyTypeOK, Subscription
    <3>6. KeepsCallbacks
      BY <1>1, <1>4, <2>2, <3>1, <3>2, <3>3, <3>5 DEF KeepsCallbacks, Usable, Heard
    <3> QED
      BY <3>4, <3>6
  <2> QED
    BY <1>1, <1>10, <2>1, <2>2 DEF EstablishSubscriptionCleanUp
<1> QED
  BY <1>5, <1>6, <1>7, <1>8, <1>9, <1>10 DEF EstablishSubscriptionStep

\* The steps of the MountPoint and of the server on its own.
LEMMA MountNotify ==
    ASSUME ApiInv, IdsInv,
           \/ MountPointSeen \/ MountPointCloseSession \/ MountPointCleanUp
           \/ \E s \in SessionIds : MountPointDial(s) \/ EndSession(s)
    PROVE  KnownOrNew /\ KeepsCallbacks
<1>1. callbacks \in [SessionIds -> SUBSET SubIds] /\ \A n \in subs : n.session \in SessionIds
  BY DEF ApiInv, SubscriptionsTypeOK, NotifyTypeOK, Subscription
<1>2. task' = task
  BY DEF MountPointSeen, MountPointCloseSession, MountPointCleanUp, MountPointDial, EndSession
<1> USE DEF mountPointVars, mountVars, notifyVars, serverVars, clientVars
<1>3. CASE MountPointSeen
  BY <1>2, <1>3, QuietStep DEF MountPointSeen, Notice
<1>4. ASSUME NEW s, End(s), EndNotifications(s), UNCHANGED <<given, clientVars>>
      PROVE  KnownOrNew /\ KeepsCallbacks
  BY <1>2, <1>4 DEF End, EndNotifications, GivenIds, IdsInv, IdsGiven, KnownOrNew, KeepsCallbacks, Usable, Heard
<1>5. CASE MountPointCloseSession
  BY <1>2, <1>4, <1>5, QuietStep DEF MountPointCloseSession
<1>6. CASE MountPointCleanUp
  BY <1>2, <1>6 DEF MountPointCleanUp, Disconnect, GivenIds, IdsInv, IdsGiven, KnownOrNew, KeepsCallbacks,
                    Usable, Heard
<1>7. ASSUME NEW s \in SessionIds, MountPointDial(s)
      PROVE  KnownOrNew /\ KeepsCallbacks
  <2>1. /\ s \notin open /\ open' = open \cup {s} /\ UNCHANGED <<orphans, subs, given>>
        /\ \A u \in SessionIds : u # s => callbacks'[u] = callbacks[u]
    BY <1>1, <1>7 DEF MountPointDial, Connect, NewDispatcher
  <2>2. \A n \in subs : n.session \in open
    BY DEF IdsInv, IdsGiven
  <2>3. KnownOrNew
    BY <1>2, <2>1, <2>2 DEF GivenIds, IdsInv, IdsGiven, KnownOrNew
  <2>4. KeepsCallbacks
    BY <1>1, <1>2, <2>1, <2>2 DEF KeepsCallbacks, Usable, Heard
  <2> QED
    BY <2>3, <2>4
<1>8. ASSUME NEW s \in SessionIds, EndSession(s)
      PROVE  KnownOrNew /\ KeepsCallbacks
  BY <1>4, <1>8 DEF EndSession
<1> QED
  BY <1>3, <1>5, <1>6, <1>7, <1>8

\* Every step is of these kinds.
LEMMA NextNotify ==
    ASSUME ~ReuseIds, ApiInv, IdsInv, [Next]_vars
    PROVE  KnownOrNew /\ KeepsCallbacks
<1>1. CASE SendToKafka \/ Crash
  BY <1>1, PanicStep DEF SendToKafka, Crash, serverVars
<1>2. CASE UNCHANGED vars
  BY <1>2, QuietStep DEF vars, mountPointVars, mountVars, notifyVars, serverVars, clientVars
<1>3. CASE Next
  BY <1>1, <1>3, ApiNotify, CreateNotify, EstablishNotify, MountNotify DEF Next
<1> QED
  BY <1>2, <1>3

\* Every reachable state satisfies ApiInv and IdsInv.
LEMMA IdsAlways ==
    ~ReuseIds => (Spec => [](ApiInv /\ IdsInv))
<1>1. Init => IdsInv
  <2> SUFFICES ASSUME Init
               PROVE  IdsInv
    OBVIOUS
  <2>1. /\ subs = {} /\ \A r \in Subs : obj[r] = Absent /\ cache[r] = Absent
        /\ \A k \in SubKinds : task[k] = Idle
    BY DEF Init, NotifyInit
  <2> QED
    BY <2>1, Values DEF IdsInv, IdsGiven, IdsOwned, NotReborn, StoredIsHeard
<1>2. ApiInv /\ [Next]_vars => ApiStep
  <2>1. CASE UNCHANGED vars
    BY <2>1 DEF vars, apiVars, ApiStep
  <2>2. ApiInv /\ Next => ApiStep
    BY NextIsApiStep DEF ApiInv
  <2> QED
    BY <2>2 DEF vars, apiVars, ApiStep
<1>3. ASSUME ~ReuseIds
      PROVE  ApiInv /\ IdsInv /\ [Next]_vars => (ApiInv /\ IdsInv)'
  BY <1>2, <1>3, ApiInvStep, NextNotify, IdsInvFlow
<1>4. ASSUME ~ReuseIds
      PROVE  Spec => [](ApiInv /\ IdsInv)
  BY ApiInvInit, <1>1, <1>3, <1>4, PTL DEF Spec
<1> QED
  BY <1>4

\* establishsubscription_controller.go: a subscription whose id a resource
\* shows, and the server sends for, is listened to, for any number of
\* resources, sessions and restarts; given that the server does not give an
\* id again, which a resource may still show.
THEOREM AcknowledgedAreHeard ==
    ASSUME ~ReuseIds
    PROVE  Spec => []AcknowledgedIsHeard
<1>1. ApiInv /\ IdsInv => AcknowledgedIsHeard
  BY DEF IdsInv, StoredIsHeard, AcknowledgedIsHeard
<1> QED
  BY IdsAlways, <1>1, PTL

\* What a step that removes a subscription is.
LEMMA Removals ==
    ASSUME ApiInv, Next, NEW n \in subs, n \notin subs', n.session \in open'
    PROVE  /\ task["EstablishSubscription"].pc = "delete"
           /\ task["EstablishSubscription"].instance.id = n.id
<1> DEFINE t == task["EstablishSubscription"]
<1> USE DEF mountPointVars, mountVars, notifyVars, serverVars, clientVars
<1>1. ASSUME NEW r \in Subs,
             \/ User(r) \/ Informer(r)
             \/ CreateSubscriptionReconcile(r) \/ EstablishSubscriptionReconcile(r)
      PROVE  subs' = subs
  BY <1>1 DEF User, Informer, CreateSubscriptionReconcile, EstablishSubscriptionReconcile,
              ReconcileWith
<1>2. ASSUME NEW r \in Subs, CreateSubscriptionStep(r)
      PROVE  subs' = subs
  BY <1>2 DEF CreateSubscriptionStep, SessionGone, CreateNotificationStream,
              NotificationStreamReply, StreamReply, NotificationStreamNoReply, WriteStatus,
              WriteAndRetry
<1>3. ASSUME NEW r \in Subs, EstablishSubscriptionStep(r)
      PROVE  t.pc = "delete" /\ t.instance.id = n.id
  <2>1. SubKind[r] = "EstablishSubscription"
    BY <1>3 DEF EstablishSubscriptionStep
  <2>2. CASE DeleteReply(r) \/ DeleteNoReply(r)
    BY <2>1, <2>2 DEF DeleteReply, DeleteAnswered, DeleteNoReply, DeleteSubscription, At
  <2>3. CASE EstablishSubscriptionReply(r) \/ EstablishSubscriptionNoReply(r)
    <3>1. subs \subseteq subs'
      BY <2>3 DEF EstablishSubscriptionReply, EstablishSubscriptionNoReply, Establish
    <3> QED
      BY <3>1
  <2>4. CASE \/ EstablishSubscriptionInitialize(r) \/ SessionGone(r, "logic")
             \/ EstablishSubscriptionSend(r) \/ EstablishSubscriptionRegister(r)
             \/ EstablishSubscriptionNoCleanUp(r) \/ EstablishSubscriptionCleanUp(r)
             \/ EstablishSubscriptionFinalize(r) \/ WriteStatus(r)
    <3>1. subs' = subs
      BY <2>4 DEF EstablishSubscriptionInitialize, SessionGone, EstablishSubscriptionSend,
                  EstablishSubscriptionRegister, Subscribed, EstablishSubscriptionNoCleanUp,
                  EstablishSubscriptionCleanUp, EstablishSubscriptionFinalize, WriteStatus,
                  WriteAndRetry
    <3> QED
      BY <3>1
  <2> QED
    BY <1>3, <2>2, <2>3, <2>4 DEF EstablishSubscriptionStep
<1>4. ~MountPointSeen /\ ~MountPointCleanUp /\ ~SendToKafka /\ ~Crash
  BY DEF MountPointSeen, MountPointCleanUp, SendToKafka, Crash
<1>5. ~MountPointCloseSession
  BY DEF MountPointCloseSession, End, EndNotifications
<1>6. \A s \in SessionIds : ~MountPointDial(s) /\ ~EndSession(s)
  BY DEF MountPointDial, EndSession, End, EndNotifications
<1> QED
  BY <1>1, <1>2, <1>3, <1>4, <1>5, <1>6 DEF Next

-----------------------------------------------------------------------------
(* Whose ids a cleanup uses, whatever ids a server gives *)

\* The ids among those given that were given to r.
IdsOf(ids, r) == {g.id : g \in {h \in ids : h.by = r}}

\* The ids that are stored for a resource, cached or in the hands of a worker
\* that is at work on it were given to this resource.
OwnIds ==
    /\ \A r \in Subs : {obj[r].id, cache[r].id} \subseteq IdsOf(given, r) \cup {Nil}
    /\ \A k \in SubKinds :
         /\ task[k].pc # "idle" => task[k].instance.id \in IdsOf(given, task[k].obj) \cup {Nil}
         /\ task[k].pc = "register" => task[k].id \in IdsOf(given, task[k].obj)

\* What was given stays given, and a worker that gets an id gets one that was
\* given to its resource.
GivesToOwn ==
    /\ given \subseteq given'
    /\ \A k \in SubKinds : task'[k].pc = "register" /\ task[k].pc # "register" =>
         task'[k].id \in IdsOf(given', task'[k].obj)

LEMMA OwnIdsStep ==
    ASSUME ApiInv, ApiInv', ApiStep, OwnIds, GivesToOwn
    PROVE  OwnIds'
<1>1. \A r \in Subs :
        /\ cache'[r] \in {cache[r], obj[r]}
        /\ obj'[r].id \in {Nil, obj[r].id} \/ \E k \in SubKinds : Stores(k, r)
  BY IdFlow
<1>2. \A k \in SubKinds : task'[k].pc # "idle" => Begins(k) \/ Continues(k)
  BY IdFlow
<1>3. \A k \in SubKinds : task'[k].pc # "idle" => task'[k].obj \in Subs
  BY DEF ApiInv, TaskShape
<1>4. \A r : IdsOf(given, r) \subseteq IdsOf(given', r)
  BY DEF GivesToOwn, IdsOf
<1>5. ASSUME NEW r \in Subs
      PROVE  {obj'[r].id, cache'[r].id} \subseteq IdsOf(given', r) \cup {Nil}
  <2>1. {obj[r].id, cache[r].id} \subseteq IdsOf(given, r) \cup {Nil}
    BY DEF OwnIds
  <2>2. ASSUME NEW k \in SubKinds, Stores(k, r)
        PROVE  obj'[r].id \in IdsOf(given, r) \cup {Nil}
    BY <2>2 DEF OwnIds, Stores
  <2>3. obj'[r].id \in IdsOf(given, r) \cup {Nil}
    BY <1>1, <2>1, <2>2
  <2>4. cache'[r].id \in IdsOf(given, r) \cup {Nil}
    BY <1>1, <2>1
  <2> QED
    BY <1>4, <2>3, <2>4
<1>6. ASSUME NEW k \in SubKinds, task'[k].pc # "idle"
      PROVE  task'[k].instance.id \in IdsOf(given', task'[k].obj) \cup {Nil}
  <2>1. CASE Begins(k)
    <3>1. cache[task'[k].obj].id \in IdsOf(given, task'[k].obj) \cup {Nil}
      BY <1>3, <1>6 DEF OwnIds
    <3> QED
      BY <1>4, <2>1, <3>1 DEF Begins
  <2>2. CASE Continues(k)
    <3>1. task'[k].instance.id \in IdsOf(given, task[k].obj) \cup {Nil}
      BY <2>2 DEF OwnIds, Continues
    <3> QED
      BY <1>4, <2>2, <3>1 DEF Continues
  <2> QED
    BY <1>2, <1>6, <2>1, <2>2
<1>7. ASSUME NEW k \in SubKinds, task'[k].pc = "register"
      PROVE  task'[k].id \in IdsOf(given', task'[k].obj)
  <2>1. CASE task[k].pc # "register"
    BY <1>7, <2>1 DEF GivesToOwn
  <2>2. CASE task[k].pc = "register"
    <3>1. task'[k].id = task[k].id /\ task'[k].obj = task[k].obj
      BY <1>2, <1>7, <2>2 DEF Begins, Continues
    <3>2. task[k].id \in IdsOf(given, task[k].obj)
      BY <2>2 DEF OwnIds
    <3> QED
      BY <1>4, <3>1, <3>2
  <2> QED
    BY <2>1, <2>2
<1>8. \A k \in SubKinds :
        /\ task'[k].pc # "idle" => task'[k].instance.id \in IdsOf(given', task'[k].obj) \cup {Nil}
        /\ task'[k].pc = "register" => task'[k].id \in IdsOf(given', task'[k].obj)
  BY <1>6, <1>7
<1> QED
  BY <1>5, <1>8 DEF OwnIds

\* Every step gives ids to their own resources.
LEMMA NextGives ==
    ASSUME ApiInv, Next
    PROVE  GivesToOwn
<1> DEFINE e == "EstablishSubscription"
           t == task[e]
<1>1. /\ SubscriptionsTypeOK /\ TaskShape /\ task \in [SubKinds -> Task]
      /\ e \in SubKinds /\ \A r \in Subs : SubKind[r] \in SubKinds
  BY SubscriptionsAssumption DEF ApiInv, SubscriptionsTypeOK, SubKinds
<1>2. ASSUME UNCHANGED given,
             \A k \in SubKinds : task'[k].pc = "register" => task[k].pc = "register"
      PROVE  GivesToOwn
  BY <1>2 DEF GivesToOwn
<1> USE DEF mountPointVars, mountVars, notifyVars, serverVars, clientVars
<1>3. ASSUME Panic, UNCHANGED given
      PROVE  GivesToOwn
  <2>1. \A k \in SubKinds : task'[k].pc = "idle"
    BY <1>3, Values DEF Panic
  <2> QED
    BY <1>2, <1>3, <2>1
<1>4. ASSUME NEW r \in Subs,
             \/ User(r) \/ Informer(r)
             \/ CreateSubscriptionReconcile(r) \/ EstablishSubscriptionReconcile(r)
      PROVE  GivesToOwn
  <2>1. UNCHANGED given
    BY <1>4 DEF User, Informer, CreateSubscriptionReconcile, EstablishSubscriptionReconcile,
                ReconcileWith
  <2>2. CASE User(r) \/ Informer(r)
    <3>1. task' = task \/ task' = Outdated(r)
      BY <1>1, <2>2, UserStep DEF Changes, Informer, CacheSync
    <3>2. \A k \in SubKinds : task'[k].pc = task[k].pc
      BY <1>1, <3>1, OutdatedFacts
    <3> QED
      BY <1>2, <2>1, <3>2
  <2>3. CASE CreateSubscriptionReconcile(r) \/ EstablishSubscriptionReconcile(r)
    <3>1. Starts(r)
      BY <1>1, <2>3, StartsStep
    <3>2. /\ \A k \in SubKinds \ {SubKind[r]} : task'[k] = task[k]
          /\ task'[SubKind[r]].pc # "register"
      BY <3>1, Values DEF Starts, Works
    <3> QED
      BY <1>1, <1>2, <2>1, <3>2
  <2> QED
    BY <1>4, <2>2, <2>3
<1>5. ASSUME NEW r \in Subs, CreateSubscriptionStep(r) \/ EstablishSubscriptionStep(r),
             \/ CreateSubscriptionStep(r)
             \/ ~EstablishSubscriptionReply(r) /\ ~EstablishSubscriptionNoReply(r)
      PROVE  GivesToOwn
  <2>1. UNCHANGED given
    BY <1>5 DEF CreateSubscriptionStep, SessionGone, CreateNotificationStream,
                NotificationStreamReply, StreamReply, NotificationStreamNoReply, WriteStatus,
                WriteAndRetry, EstablishSubscriptionStep, EstablishSubscriptionInitialize,
                EstablishSubscriptionSend, EstablishSubscriptionRegister, Subscribed,
                EstablishSubscriptionNoCleanUp, EstablishSubscriptionCleanUp, DeleteReply,
                DeleteAnswered, DeleteNoReply, EstablishSubscriptionFinalize
  <2>2. Restarts \/ GoesOn(r) \/ Reports(r) \/ Finishes(r)
    BY <1>1, <1>5, WorkStep
  <2>3. CASE Restarts \/ Reports(r) \/ Finishes(r)
    <3>1. \A k \in SubKinds : task'[k].pc = "register" => task[k].pc = "register"
      BY <1>1, <2>3, Values DEF Restarts, Reports, Finishes, Works
    <3> QED
      BY <1>2, <2>1, <3>1
  <2>4. CASE GoesOn(r)
    <3>1. CASE task'[SubKind[r]].pc # "register"
      <4>1. \A k \in SubKinds \ {SubKind[r]} : task'[k] = task[k]
        BY <2>4 DEF GoesOn, Works
      <4> QED
        BY <1>2, <2>1, <3>1, <4>1
    <3>2. CASE task'[SubKind[r]].pc = "register"
      <4>1. SubKind[r] = e /\ t.pc = "rpc" /\ task'[e].pc = "register"
        BY <2>4, <3>2 DEF GoesOn
      <4>2. ~CreateSubscriptionStep(r)
        BY <4>1 DEF CreateSubscriptionStep
      <4>3. CASE Panic
        BY <1>3, <2>1, <4>3
      <4>4. CASE ~Panic
        BY <1>5, <4>1, <4>2, <4>4
           DEF SessionGone, WriteStatus, WriteAndRetry, At, EstablishSubscriptionStep,
               EstablishSubscriptionInitialize, EstablishSubscriptionSend,
               EstablishSubscriptionRegister, Subscribed, EstablishSubscriptionNoCleanUp,
               EstablishSubscriptionCleanUp, DeleteReply, DeleteAnswered, DeleteNoReply,
               EstablishSubscriptionFinalize
      <4> QED
        BY <4>3, <4>4
    <3> QED
      BY <3>1, <3>2
  <2> QED
    BY <2>2, <2>3, <2>4
<1>6. ASSUME NEW r \in Subs, EstablishSubscriptionStep(r), EstablishSubscriptionReply(r)
      PROVE  GivesToOwn
  <2>1. SubKind[r] = e /\ t.obj = r
    BY <1>6 DEF EstablishSubscriptionStep, EstablishSubscriptionReply, At
  <2>2. CASE Outcome(r, "failed", FALSE) /\ UNCHANGED given
    <3>1. \A k \in SubKinds : task'[k].pc = "register" => task[k].pc = "register"
      BY <1>1, <2>1, <2>2, OutcomeFacts
    <3> QED
      BY <1>2, <2>2, <3>1
  <2>3. ASSUME NEW i \in SubIds, Establish(r, t.session, i),
               task' = [task EXCEPT ![e] = [@ EXCEPT !.pc = "register", !.id = i]]
        PROVE  GivesToOwn
    <3>1. /\ task'[e].id = i /\ task'[e].obj = r
          /\ \A k \in SubKinds \ {e} : task'[k] = task[k]
      BY <1>1, <2>1, <2>3, IdMove
    <3>2. given' = given \cup {[id |-> i, by |-> r]}
      BY <2>3 DEF Establish
    <3>3. i \in IdsOf(given', r)
      <4> DEFINE g == [id |-> i, by |-> r]
      <4>1. g \in given' /\ g.by = r /\ g.id = i
        BY <3>2
      <4> HIDE DEF g
      <4> QED
        BY <4>1 DEF IdsOf
    <3> QED
      BY <3>1, <3>2, <3>3 DEF GivesToOwn
  <2> QED
    BY <1>6, <2>1, <2>2, <2>3 DEF EstablishSubscriptionReply
<1>7. ASSUME NEW r \in Subs, EstablishSubscriptionStep(r), EstablishSubscriptionNoReply(r)
      PROVE  GivesToOwn
  <2>1. Outcome(r, "failed", TRUE) /\ given \subseteq given'
    BY <1>7 DEF EstablishSubscriptionNoReply, Establish
  <2>2. \A k \in SubKinds : task'[k].pc = "register" => task[k].pc = "register"
    BY <1>1, <2>1, OutcomeFacts
  <2> QED
    BY <2>1, <2>2 DEF GivesToOwn
<1>8. CASE \/ MountPointSeen \/ MountPointCloseSession \/ MountPointCleanUp
           \/ \E s \in SessionIds : MountPointDial(s) \/ EndSession(s)
  <2>1. UNCHANGED <<given, task>>
    BY <1>8 DEF MountPointSeen, MountPointCloseSession, MountPointCleanUp, MountPointDial,
                EndSession
  <2> QED
    BY <1>2, <2>1
<1>9. CASE SendToKafka \/ Crash
  BY <1>3, <1>9 DEF SendToKafka, Crash
<1> QED
  BY <1>4, <1>5, <1>6, <1>7, <1>8, <1>9 DEF Next

\* Every reachable state satisfies ApiInv, OwnIds and NotReborn.
LEMMA OwnIdsAlways ==
    Spec => [](ApiInv /\ OwnIds /\ NotReborn)
<1>1. Init => OwnIds /\ NotReborn
  <2> SUFFICES ASSUME Init
               PROVE  OwnIds /\ NotReborn
    OBVIOUS
  <2>1. /\ \A r \in Subs : obj[r] = Absent /\ cache[r] = Absent
        /\ \A k \in SubKinds : task[k] = Idle
    BY DEF Init
  <2> QED
    BY <2>1, Values DEF OwnIds, NotReborn
<1>2. ApiInv /\ OwnIds /\ NotReborn /\ [Next]_vars => (ApiInv /\ OwnIds /\ NotReborn)'
  <2> SUFFICES ASSUME ApiInv, OwnIds, NotReborn, [Next]_vars
               PROVE  (ApiInv /\ OwnIds /\ NotReborn)'
    OBVIOUS
  <2>1. CASE UNCHANGED vars
    <3>1. UNCHANGED <<obj, cache, task, given>> /\ ApiInv'
      BY <2>1, ApiInvStep DEF vars, apiVars, notifyVars, serverVars
    <3> QED
      BY <3>1 DEF OwnIds, NotReborn
  <2>2. CASE Next
    <3>1. ApiStep /\ ApiInv'
      BY <2>2, NextIsApiStep, ApiInvStep DEF ApiInv
    <3> QED
      BY <2>2, <3>1, NextGives, OwnIdsStep, NotRebornStep
  <2> QED
    BY <2>1, <2>2
<1> QED
  BY ApiInvInit, <1>1, <1>2, PTL DEF Spec

\* manageCleanUpLogic deletes a subscription only by an id that the server has
\* given to the resource under deletion, whether ids are given again or not, and
\* only when this resource does not stay with the id: a copy from a resource of
\* the same name that was deleted and created again meanwhile does no harm.
THEOREM OnlyGivenAreDeleted ==
    Spec => DeletesOnlyGiven
<1> DEFINE t == task["EstablishSubscription"]
<1>1. ASSUME ApiInv, OwnIds, NotReborn, Next,
             NEW n \in subs, n \notin subs', n.session \in open'
      PROVE  \E g \in given : /\ g.id = n.id
                              /\ At(g.by, "delete")
                              /\ obj[g.by].phase # "live" \/ obj[g.by].id # n.id
  <2>1. t.pc = "delete" /\ t.instance.id = n.id
    BY <1>1, Removals
  <2>2. "EstablishSubscription" \in SubKinds /\ n.id # Nil
    BY <1>1, SubscriptionServerAssumption
       DEF SubKinds, ApiInv, SubscriptionsTypeOK, NotifyTypeOK, Subscription
  <2>3. t.obj \in Subs /\ SubKind[t.obj] = "EstablishSubscription"
    BY <1>1, <2>1, <2>2 DEF ApiInv, TaskShape
  <2>4. PICK g \in given : g.by = t.obj /\ g.id = n.id
    BY <1>1, <2>1, <2>2 DEF OwnIds, IdsOf
  <2>5. t.instance.phase = "deleting"
    BY <1>1, <2>1, <2>2 DEF ApiInv, Copies
  <2>6. obj[t.obj].phase # "live" \/ obj[t.obj].id # n.id
    BY <1>1, <2>2, <2>3, <2>5 DEF NotReborn
  <2> QED
    BY <2>1, <2>3, <2>4, <2>6 DEF At
<1>2. ApiInv /\ OwnIds /\ NotReborn /\ [Next]_vars =>
        [\A n \in subs \ subs' :
           \/ n.session \notin open'
           \/ \E g \in given :
                /\ g.id = n.id
                /\ At(g.by, "delete")
                /\ obj[g.by].phase # "live" \/ obj[g.by].id # n.id]_vars
  BY <1>1
<1> QED
  BY OwnIdsAlways, <1>2, PTL DEF Spec, DeletesOnlyGiven

=============================================================================
