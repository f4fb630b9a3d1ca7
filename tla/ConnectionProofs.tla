-------------------------- MODULE ConnectionProofs --------------------------
(***************************************************************************)
(* NoSessionLeft for any number of MountPoints, session ids, edits, server *)
(* changes and refused close-session requests.                             *)
(***************************************************************************)
EXTENDS Connection, TLAPS

Dialling == {"tcp", "handshake", "setup", "hello", "sendhello"}
Cleaning == {"close", "kill", "remove", "finalize"}

WorkerType ==
    [pc : {"idle", "init"} \cup Dialling \cup Cleaning, mp : MountPoints \cup {""},
     timeout : {0, 15}, id : Ids \cup {None}]

\* Every variable that decides about sessions has its type.
ConnectionTypeOK ==
    /\ phase \in [MountPoints -> {"live", "deleting", "gone"}]
    /\ finalizer \in [MountPoints -> BOOLEAN]
    /\ timeout \in [MountPoints -> {0, 15}]
    /\ worker \in WorkerType
    /\ sessions \in [MountPoints -> Ids \cup {None}]
    /\ forgotten \in [MountPoints -> SUBSET Ids]
    /\ open \in [MountPoints -> SUBSET Ids]

\* The worker is with m in one of these steps.
In(m, pcs) == worker.mp = m /\ worker.pc \in pcs

\* The sessions of m that the operator knows of: the entry in Sessions, and
\* the one that manageOperatorLogic is about to put there.
Known(m) ==
    {sessions[m]} \cup {i \in Ids : In(m, {"sendhello"}) /\ worker.id = i}

\* No session is lost but by being replaced in Sessions.
SessionsAreKnown ==
    \A m \in MountPoints : open[m] \subseteq forgotten[m] \cup Known(m)

\* The finalizer is stored before the first session is dialled.
FinalizerFirst ==
    \A m \in MountPoints :
        ~finalizer[m] =>
            /\ open[m] = {}
            /\ sessions[m] = None
            /\ ~In(m, Dialling \cup Cleaning)

\* manageCleanUpLogic is for a MountPoint that is being deleted; when it has
\* come to its end there is no entry in Sessions, and never one afterwards.
CleanUpOrder ==
    \A m \in MountPoints :
        /\ In(m, Cleaning) => phase[m] = "deleting"
        /\ In(m, {"finalize"}) => sessions[m] = None
        /\ In(m, {"init"}) => ~finalizer[m]
        /\ phase[m] = "gone" => /\ sessions[m] = None
                                /\ ~In(m, Dialling \cup {"init"})

ConnectionInv ==
    /\ ConnectionTypeOK
    /\ SessionsAreKnown
    /\ FinalizerFirst
    /\ CleanUpOrder

\* ConnectionInv says more than NoSessionLeft: None is no session of a server.
LEMMA InvNoSessionLeft ==
    ConnectionInv => NoSessionLeft
  BY ConnectionAssumption
     DEF ConnectionInv, ConnectionTypeOK, SessionsAreKnown, Known, In, CleanUpOrder,
         Dialling, NoSessionLeft, None

\* ConnectionInv holds when the process starts.
LEMMA ConnectionInvInit ==
    Init => ConnectionInv
<1> SUFFICES ASSUME Init
             PROVE  ConnectionInv
  OBVIOUS
<1> USE ConnectionAssumption DEF Init, Idle, None, Dialling, Cleaning
<1>1. ConnectionTypeOK
  BY DEF ConnectionTypeOK, WorkerType
<1>2. SessionsAreKnown /\ FinalizerFirst /\ CleanUpOrder
  BY DEF SessionsAreKnown, FinalizerFirst, CleanUpOrder, In
<1> QED
  BY <1>1, <1>2 DEF ConnectionInv

\* What the worker is after it went to another step, or was done.
LEMMA WorkerSteps ==
    ASSUME worker \in WorkerType
    PROVE  /\ \A pc \in {"idle", "init"} \cup Dialling \cup Cleaning :
                Goto(pc) => /\ worker' \in WorkerType
                            /\ worker'.pc = pc
                            /\ worker'.mp = worker.mp
                            /\ worker'.id = worker.id
           /\ Idle \in WorkerType
           /\ Idle.pc = "idle"
  BY DEF WorkerType, Goto, Idle, None, Dialling, Cleaning

\* A step that leaves all MountPoints alone, and in which the worker is done
\* or goes on in an attempt to connect, preserves ConnectionInv.
LEMMA ConnectionFrame ==
    ASSUME ConnectionInv,
           worker' \in WorkerType,
           \/ worker'.pc = "idle"
           \/ /\ worker'.mp = worker.mp
              /\ worker.pc \in Dialling
              /\ worker'.pc \in Dialling \ {"sendhello"}
           \/ worker' = worker,
           UNCHANGED <<phase, finalizer, timeout, sessions, forgotten>>,
           open' \in [MountPoints -> SUBSET Ids],
           \A m \in MountPoints :
             open'[m] \subseteq IF worker' = worker THEN open[m]
                                ELSE open[m] \ {i \in Ids : In(m, {"sendhello"}) /\ worker.id = i}
    PROVE  ConnectionInv'
<1> USE DEF ConnectionInv
<1>1. ConnectionTypeOK'
  BY DEF ConnectionTypeOK
<1>2. SessionsAreKnown'
  BY DEF SessionsAreKnown, Known, In, Dialling
<1>3. FinalizerFirst'
  BY DEF FinalizerFirst, In, Dialling, Cleaning
<1>4. CleanUpOrder'
  BY DEF CleanUpOrder, In, Dialling, Cleaning
<1> QED
  BY <1>1, <1>2, <1>3, <1>4

\* Users and servers preserve ConnectionInv.
LEMMA EnvironmentInv ==
    ASSUME ConnectionInv, NEW m \in MountPoints,
           SetTimeout(m) \/ Delete(m) \/ ServerChange(m) \/ DropOrphans(m)
    PROVE  ConnectionInv'
<1> USE ConnectionAssumption DEF ConnectionInv, netVars, specVars
<1>1. CASE SetTimeout(m)
  <2>1. ConnectionTypeOK'
    BY <1>1 DEF ConnectionTypeOK, SetTimeout
  <2> QED
    BY <2>1, <1>1 DEF SetTimeout, SessionsAreKnown, Known, FinalizerFirst, CleanUpOrder, In
<1>2. CASE Delete(m)
  <2>1. ConnectionTypeOK'
    BY <1>2 DEF ConnectionTypeOK, Delete
  <2>2. SessionsAreKnown' /\ FinalizerFirst'
    BY <1>2 DEF Delete, SessionsAreKnown, Known, FinalizerFirst, In
  <2>3. CleanUpOrder'
    BY <1>2 DEF ConnectionTypeOK, Delete, CleanUpOrder, In
  <2> QED
    BY <2>1, <2>2, <2>3
<1>3. CASE ServerChange(m)
  <2>1. open' \in [MountPoints -> SUBSET Ids] /\ \A n \in MountPoints : open'[n] \subseteq open[n]
    BY <1>3 DEF ServerChange, ConnectionTypeOK
  <2> QED
    BY <1>3, <2>1, ConnectionFrame DEF ServerChange, ConnectionTypeOK
<1>4. CASE DropOrphans(m)
  BY <1>4, ConnectionFrame DEF DropOrphans, ConnectionTypeOK
<1> QED
  BY <1>1, <1>2, <1>3, <1>4

\* The worker takes the next MountPoint.
LEMMA ReconcileInv ==
    ASSUME ConnectionInv, NEW m \in MountPoints, Reconcile(m)
    PROVE  ConnectionInv'
<1> USE DEF ConnectionInv, netVars, specVars
<1>1. /\ worker' \in WorkerType
      /\ worker'.mp = IF phase[m] = "gone" THEN "" ELSE m
      /\ worker'.pc \in {"idle", "init", "close", "tcp"}
      /\ worker'.pc = "init" => phase[m] # "gone" /\ ~finalizer[m]
      /\ worker'.pc = "close" => phase[m] = "deleting" /\ finalizer[m]
      /\ worker'.pc = "tcp" => phase[m] = "live" /\ finalizer[m]
  BY DEF Reconcile, ConnectionTypeOK, WorkerType, Dialling, Cleaning, None
<1>2. UNCHANGED <<phase, finalizer, timeout, sessions, forgotten, open>> /\ worker.pc = "idle"
  BY DEF Reconcile, Idle
<1>3. ConnectionTypeOK'
  BY <1>1, <1>2 DEF ConnectionTypeOK
<1>4. SessionsAreKnown'
  BY <1>1, <1>2 DEF SessionsAreKnown, Known, In
<1>5. FinalizerFirst'
  BY <1>1, <1>2 DEF ConnectionTypeOK, FinalizerFirst, In, Dialling, Cleaning
<1>6. CleanUpOrder'
  BY <1>1, <1>2 DEF ConnectionTypeOK, CleanUpOrder, In, Dialling, Cleaning
<1> QED
  BY <1>3, <1>4, <1>5, <1>6

\* manageOperatorLogic up to the connection preserves ConnectionInv.
LEMMA DialInv ==
    ASSUME ConnectionInv, NEW m \in MountPoints,
           Tcp(m) \/ Handshake(m) \/ SetupSession(m)
    PROVE  ConnectionInv'
<1> USE DEF netVars, specVars
<1>1. worker \in WorkerType /\ sessions \in [MountPoints -> Ids \cup {None}]
  BY DEF ConnectionInv, ConnectionTypeOK
<1>2. worker.mp = m /\ worker.pc \in Dialling \ {"sendhello"}
  BY DEF Tcp, Handshake, SetupSession, At, Dialling
<1>3. UNCHANGED <<phase, finalizer, timeout, forgotten>>
  BY DEF Tcp, Handshake, SetupSession
<1>4. CASE Goto("handshake") \/ Goto("setup") \/ Goto("hello")
  <2>1. /\ worker' \in WorkerType
        /\ worker'.mp = worker.mp
        /\ worker'.pc \in Dialling \ {"sendhello"}
    BY <1>1, <1>4, WorkerSteps DEF Dialling
  <2>2. UNCHANGED <<sessions, open>>
    <3>1. worker' # Idle
      BY <2>1, WorkerSteps, <1>1 DEF Dialling
    <3> QED
      BY <3>1 DEF Tcp, Handshake, SetupSession, Panic, Fail
  <2> QED
    BY <1>2, <1>3, <2>1, <2>2, ConnectionFrame DEF ConnectionInv, ConnectionTypeOK, In
<1>5. CASE worker' = Idle /\ UNCHANGED <<sessions, open>>
  BY <1>1, <1>2, <1>3, <1>5, WorkerSteps, ConnectionFrame DEF ConnectionInv, ConnectionTypeOK, In
<1>6. CASE Panic
  <2>1. /\ worker' \in WorkerType /\ worker'.pc = "idle"
        /\ sessions' = [n \in MountPoints |-> None]
        /\ open' = [n \in MountPoints |-> {}]
    BY <1>1, <1>6, WorkerSteps DEF Panic
  <2>2. ConnectionTypeOK'
    BY <1>3, <2>1 DEF ConnectionInv, ConnectionTypeOK
  <2>3. SessionsAreKnown' /\ FinalizerFirst'
    BY <1>3, <2>1 DEF SessionsAreKnown, FinalizerFirst, In, Dialling, Cleaning
  <2>4. CleanUpOrder'
    BY <1>3, <2>1 DEF CleanUpOrder, In, Dialling, Cleaning
  <2> QED
    BY <2>2, <2>3, <2>4 DEF ConnectionInv
<1> QED
  BY <1>4, <1>5, <1>6 DEF Tcp, Handshake, SetupSession, Fail

\* The hello of the server: the session becomes known to the worker.
LEMMA ReceiveHelloInv ==
    ASSUME ConnectionInv, NEW m \in MountPoints, ReceiveHello(m)
    PROVE  ConnectionInv'
<1> USE DEF netVars, specVars, ConnectionInv
<1>1. worker.mp = m /\ worker.pc = "hello" /\ worker \in WorkerType
  BY DEF ReceiveHello, At, ConnectionTypeOK
<1>2. UNCHANGED <<phase, finalizer, timeout, sessions, forgotten>>
  BY DEF ReceiveHello
<1>3. /\ worker' \in WorkerType
      /\ worker'.mp = m
      /\ worker'.pc = "sendhello"
      /\ \/ UNCHANGED open
         \/ worker'.id \in Ids /\ open' = [open EXCEPT ![m] = @ \cup {worker'.id}]
  <2>1. CASE Goto("sendhello") /\ UNCHANGED open
    BY <1>1, <2>1, WorkerSteps DEF Dialling
  <2>2. ASSUME NEW i \in Ids,
               worker' = [worker EXCEPT !.pc = "sendhello", !.id = i],
               open' = [open EXCEPT ![m] = @ \cup {i}]
        PROVE  <1>3!1 /\ <1>3!2 /\ <1>3!3 /\ <1>3!4
    BY <1>1, <2>2 DEF WorkerType, Dialling
  <2> QED
    BY <2>1, <2>2 DEF ReceiveHello, Fresh
<1>4. finalizer[m] /\ phase[m] # "gone"
  BY <1>1 DEF FinalizerFirst, CleanUpOrder, In, Dialling, ConnectionTypeOK
<1>5. ConnectionTypeOK'
  BY <1>2, <1>3 DEF ConnectionTypeOK
<1>6. SessionsAreKnown'
  BY <1>1, <1>2, <1>3 DEF SessionsAreKnown, Known, In, ConnectionTypeOK
<1>7. FinalizerFirst'
  BY <1>1, <1>2, <1>3, <1>4 DEF FinalizerFirst, In, Dialling, Cleaning, ConnectionTypeOK
<1>8. CleanUpOrder'
  BY <1>1, <1>2, <1>3, <1>4 DEF CleanUpOrder, In, Dialling, Cleaning
<1> QED
  BY <1>5, <1>6, <1>7, <1>8

\* The hello of the client: Sessions has the session, and the one it replaces
\* there is the only one that is forgotten.
LEMMA SendHelloInv ==
    ASSUME ConnectionInv, NEW m \in MountPoints, SendHello(m)
    PROVE  ConnectionInv'
<1> USE DEF netVars, specVars, ConnectionInv
<1>1. worker.mp = m /\ worker.pc = "sendhello" /\ worker \in WorkerType
  BY DEF SendHello, At, ConnectionTypeOK
<1>2. UNCHANGED <<phase, finalizer, timeout>> /\ worker' \in WorkerType /\ worker'.pc = "idle"
  BY <1>1, WorkerSteps DEF SendHello, Fail
<1>3. finalizer[m] /\ phase[m] # "gone"
  BY <1>1 DEF FinalizerFirst, CleanUpOrder, In, Dialling, ConnectionTypeOK
<1>4. CASE /\ worker.id # None
           /\ sessions' = [sessions EXCEPT ![m] = worker.id]
           /\ forgotten' = [forgotten EXCEPT ![m] = (@ \cup {sessions[m]}) \ {worker.id, None}]
           /\ UNCHANGED open
  <2>1. worker.id \in Ids
    BY <1>1, <1>4 DEF WorkerType
  <2>2. ConnectionTypeOK'
    BY <1>2, <1>4, <2>1 DEF ConnectionTypeOK
  <2>3. SessionsAreKnown'
    <3> SUFFICES ASSUME NEW n \in MountPoints
                 PROVE  open[n] \subseteq forgotten'[n] \cup {sessions'[n]}
      BY <1>4 DEF SessionsAreKnown, Known
    <3>1. CASE n # m
      BY <1>1, <1>4, <3>1 DEF SessionsAreKnown, Known, In, ConnectionTypeOK
    <3>2. CASE n = m
      <4>1. open[m] \subseteq forgotten[m] \cup {sessions[m], worker.id} /\ None \notin open[m]
        BY <1>1, ConnectionAssumption DEF SessionsAreKnown, Known, In, ConnectionTypeOK, None
      <4> QED
        BY <1>4, <3>2, <4>1 DEF ConnectionTypeOK
    <3> QED
      BY <3>1, <3>2
  <2>4. FinalizerFirst'
    BY <1>2, <1>3, <1>4 DEF FinalizerFirst, In, Dialling, Cleaning, ConnectionTypeOK
  <2>5. CleanUpOrder'
    BY <1>2, <1>3, <1>4 DEF CleanUpOrder, In, Dialling, Cleaning, ConnectionTypeOK
  <2> QED
    BY <2>2, <2>3, <2>4, <2>5
<1>5. CASE open' = [open EXCEPT ![m] = @ \ {worker.id}] /\ UNCHANGED <<sessions, forgotten>>
  <2>1. worker' # worker
    BY <1>1, <1>2
  <2>2. open' \in [MountPoints -> SUBSET Ids]
    BY <1>5 DEF ConnectionTypeOK
  <2>3. \A n \in MountPoints : open'[n] \subseteq open[n] \ {i \in Ids : In(n, {"sendhello"}) /\ worker.id = i}
    BY <1>1, <1>5 DEF In, ConnectionTypeOK
  <2> QED
    BY <1>2, <1>5, <2>1, <2>2, <2>3, ConnectionFrame
<1> QED
  BY <1>4, <1>5 DEF SendHello

\* isInitialized: a finalizer, or the end of a MountPoint that never had one.
LEMMA InitializeInv ==
    ASSUME ConnectionInv, NEW m \in MountPoints, Initialize(m)
    PROVE  ConnectionInv'
<1> USE DEF netVars, specVars, ConnectionInv
<1>1. /\ worker.mp = m /\ worker.pc = "init" /\ worker \in WorkerType
      /\ UNCHANGED <<sessions, forgotten, open>> /\ worker' \in WorkerType
      /\ worker'.pc = "idle"
  BY WorkerSteps DEF Initialize, At, ConnectionTypeOK
<1>2. /\ \/ phase' = phase /\ finalizer' = [finalizer EXCEPT ![m] = TRUE]
         \/ phase' = [phase EXCEPT ![m] = "gone"] /\ finalizer' = finalizer
      /\ timeout' \in [MountPoints -> {0, 15}]
  BY DEF Initialize, Stored, ConnectionTypeOK
<1>3. sessions[m] = None /\ ~finalizer[m]
  BY <1>1 DEF CleanUpOrder, FinalizerFirst, In
<1>4. ConnectionTypeOK'
  BY <1>1, <1>2 DEF ConnectionTypeOK
<1>5. SessionsAreKnown'
  BY <1>1 DEF SessionsAreKnown, Known, In
<1>6. FinalizerFirst'
  BY <1>1, <1>2 DEF FinalizerFirst, In, Dialling, Cleaning, ConnectionTypeOK
<1>7. CleanUpOrder'
  BY <1>1, <1>2, <1>3 DEF CleanUpOrder, In, Dialling, Cleaning, ConnectionTypeOK
<1> QED
  BY <1>4, <1>5, <1>6, <1>7

\* manageCleanUpLogic preserves ConnectionInv.
LEMMA CleanUpInv ==
    ASSUME ConnectionInv, NEW m \in MountPoints,
           CloseSession(m) \/ KillSession(m) \/ RemoveSession(m)
    PROVE  ConnectionInv'
<1> USE DEF netVars, specVars, ConnectionInv
<1>1. worker.mp = m /\ worker.pc \in Cleaning \ {"finalize"} /\ worker \in WorkerType
  BY DEF CloseSession, KillSession, RemoveSession, At, Cleaning, ConnectionTypeOK
<1>2. /\ worker' \in WorkerType
      /\ \/ worker'.pc = "idle"
         \/ worker'.pc \in {"kill", "remove", "finalize"} /\ worker'.mp = m
      /\ worker'.pc = "finalize" => sessions'[m] = None
      /\ UNCHANGED <<phase, finalizer, timeout, forgotten>>
      /\ \/ UNCHANGED sessions
         \/ /\ sessions' = [sessions EXCEPT ![m] = None]
            /\ open' = [open EXCEPT ![m] = @ \ {sessions[m]}]
      /\ open' = open \/ \E i : open' = [open EXCEPT ![m] = @ \ {i}]
  <2>1. /\ \A pc \in {"kill", "remove", "finalize"} :
             Goto(pc) => worker' \in WorkerType /\ worker'.pc = pc /\ worker'.mp = m
        /\ worker' = Idle => worker' \in WorkerType /\ worker'.pc = "idle"
    BY <1>1, WorkerSteps DEF Cleaning
  <2>2. CASE CloseSession(m)
    BY <2>1, <2>2 DEF CloseSession, None
  <2>3. CASE KillSession(m)
    <3>1. /\ open' = [open EXCEPT ![m] = @ \ {Rune(sessions[m])}]
          /\ UNCHANGED <<phase, finalizer, timeout, forgotten, sessions>>
          /\ Goto("remove")
      BY <2>3 DEF KillSession
    <3> QED
      BY <2>1, <3>1
  <2>4. CASE RemoveSession(m)
    BY <2>1, <2>4 DEF RemoveSession, Fail, ConnectionTypeOK
  <2> QED
    BY <2>2, <2>3, <2>4
<1>3. finalizer[m] /\ phase[m] = "deleting"
  BY <1>1 DEF FinalizerFirst, CleanUpOrder, In, Cleaning, ConnectionTypeOK
<1>4. ConnectionTypeOK'
  BY <1>2 DEF ConnectionTypeOK
<1>5. SessionsAreKnown'
  BY <1>1, <1>2 DEF SessionsAreKnown, Known, In, Cleaning, ConnectionTypeOK
<1>6. FinalizerFirst'
  BY <1>1, <1>2, <1>3 DEF FinalizerFirst, In, Dialling, Cleaning, ConnectionTypeOK
<1>7. CleanUpOrder'
  BY <1>1, <1>2, <1>3 DEF CleanUpOrder, In, Dialling, Cleaning, ConnectionTypeOK
<1> QED
  BY <1>4, <1>5, <1>6, <1>7

\* The finalizer is removed, and with it the MountPoint.
LEMMA FinalizeInv ==
    ASSUME ConnectionInv, NEW m \in MountPoints, Finalize(m)
    PROVE  ConnectionInv'
<1> USE DEF netVars, specVars, ConnectionInv
<1>1. /\ worker.mp = m /\ worker.pc = "finalize" /\ worker' \in WorkerType /\ worker'.pc = "idle"
      /\ phase' = [phase EXCEPT ![m] = "gone"]
      /\ UNCHANGED <<finalizer, timeout, sessions, forgotten, open>>
  BY WorkerSteps DEF Finalize, At, ConnectionTypeOK
<1>2. sessions[m] = None
  BY <1>1 DEF CleanUpOrder, In
<1>3. ConnectionTypeOK'
  BY <1>1 DEF ConnectionTypeOK
<1>4. SessionsAreKnown'
  BY <1>1 DEF SessionsAreKnown, Known, In
<1>5. FinalizerFirst'
  BY <1>1 DEF FinalizerFirst, In, Dialling, Cleaning
<1>6. CleanUpOrder'
  BY <1>1, <1>2 DEF CleanUpOrder, In, Dialling, Cleaning, ConnectionTypeOK
<1> QED
  BY <1>3, <1>4, <1>5, <1>6

\* When a MountPoint is gone, its server has no session of it with this
\* process but those that a later dial had replaced in Sessions, for every number of MountPoints and
\* sessions and however often servers change, refuse and stop to answer.
THEOREM NothingIsLeft ==
    Spec => []NoSessionLeft
<1>1. ConnectionInv /\ [Next]_vars => ConnectionInv'
  <2> SUFFICES ASSUME ConnectionInv, [Next]_vars
               PROVE  ConnectionInv'
    OBVIOUS
  <2>1. CASE Next
    <3>1. PICK m \in MountPoints :
            \/ Reconcile(m) \/ Step(m) \/ SetTimeout(m) \/ Delete(m) \/ ServerChange(m)
            \/ DropOrphans(m)
      BY <2>1 DEF Next
    <3> QED
      BY <3>1, EnvironmentInv, ReconcileInv, DialInv, ReceiveHelloInv, SendHelloInv,
         InitializeInv, CleanUpInv, FinalizeInv
         DEF Step
  <2>2. CASE UNCHANGED vars
    BY <2>2 DEF vars, specVars, netVars, ConnectionInv, ConnectionTypeOK,
                SessionsAreKnown, Known, FinalizerFirst, CleanUpOrder, In
  <2> QED
    BY <2>1, <2>2
<1> QED
  BY ConnectionInvInit, InvNoSessionLeft, <1>1, PTL DEF Spec
=============================================================================
