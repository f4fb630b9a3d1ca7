----------------------------- MODULE Connection -----------------------------
(***************************************************************************)
(* How a MountPoint gets its session, step by step: the spec it asks for,  *)
(* mountpoint_controller.go, transport_ssh.go and NewSession, and how it   *)
(* gives the session back.  One worker serves all MountPoints.  What the   *)
(* caches and the API server may do to the resource in the meantime is in  *)
(* ControlPlane and left out here.                                         *)
(***************************************************************************)
EXTENDS Naturals

CONSTANTS
    MountPoints,
    Timeouts,          \* what users write as spec.timeout
    WithPort,          \* MountPoints whose spec.target names a port
    PasswordIsName,    \* MountPoints whose server's password is the username
    Behaviours,        \* what servers do besides being good
    Ids,               \* session ids a server gives to the operator
    OtherIds,          \* session ids of a server's other clients
    MaxServerChanges,  \* bound: changes of the servers' behaviour
    MaxEdits,          \* bound: edits and deletions of MountPoints
    MaxRefusals        \* bound: close-session requests without an ok

VARIABLES
    wanted,     \* spec.timeout as the user wrote it
    timeout,    \* spec.timeout as it is stored
    phase,      \* the MountPoint: live, deleting or gone
    finalizer,  \* it has its finalizer
    queue,      \* MountPoints waiting for the worker
    worker,     \* where the worker is, with which MountPoint
    sessions,   \* Sessions: the session id of each MountPoint
    forgotten,  \* history: the sessions that another one has replaced there
    server,     \* what each server does
    open,       \* server: the operator's sessions
    orphans,    \* server: those of a process that has died, not yet noticed
    others,     \* server: the sessions of other clients
    changes, edits, refusals

ASSUME ConnectionAssumption ==
    /\ Timeouts \subseteq {0, 15}
    /\ WithPort \subseteq MountPoints
    /\ PasswordIsName \subseteq MountPoints
    /\ Behaviours \subseteq {"unreachable", "stalls", "denies", "nosubsystem", "silent", "drops"}
    /\ Ids \subseteq Nat \ {0}
    /\ OtherIds \subseteq Nat \ {0}
    /\ Ids \cap OtherIds = {}

bounds   == <<changes, edits, refusals>>
specVars == <<wanted, timeout, phase, finalizer>>
netVars  == <<server, open, orphans, others>>
vars == <<specVars, queue, worker, sessions, forgotten, netVars, bounds>>

None == 0  \* no session
Idle == [pc |-> "idle", mp |-> "", timeout |-> 0, id |-> None]

Init ==
    /\ wanted \in [MountPoints -> Timeouts]
    /\ timeout = wanted
    /\ phase = [m \in MountPoints |-> "live"]
    /\ finalizer = [m \in MountPoints |-> FALSE]
    /\ queue = MountPoints
    /\ worker = Idle
    /\ sessions = [m \in MountPoints |-> None]
    /\ forgotten = [m \in MountPoints |-> {}]
    /\ server \in [MountPoints -> Behaviours \cup {"good"}]
    /\ open = [m \in MountPoints |-> {}]
    /\ orphans = [m \in MountPoints |-> {}]
    /\ others = [m \in MountPoints |-> OtherIds]
    /\ changes = 0
    /\ edits = 0
    /\ refusals = 0

At(m, pc) == worker.mp = m /\ worker.pc = pc
Goto(pc)  == worker' = [worker EXCEPT !.pc = pc]

-----------------------------------------------------------------------------
(* Reconcile *)

Reconcile(m) ==
    /\ worker = Idle
    /\ m \in queue
    /\ queue' = queue \ {m}
    /\ worker' = [pc |-> IF phase[m] = "gone" THEN "idle"
                        ELSE IF ~finalizer[m] THEN "init"
                        ELSE IF phase[m] = "deleting" THEN "close"
                        ELSE "tcp",
                  mp |-> IF phase[m] = "gone" THEN "" ELSE m,
                  timeout |-> IF phase[m] = "gone" THEN 0 ELSE timeout[m], id |-> None]
    /\ UNCHANGED <<specVars, sessions, forgotten, netVars, bounds>>

\* The JSON of an Update leaves out a zero (omitempty), and the API server
\* puts the default in its place.
Stored(t) == IF t = 0 THEN 15 ELSE t

\* isInitialized and Update.  The update is an event for the MountPoint, and a
\* resource that is being deleted gets no finalizer any more.
Initialize(m) ==
    /\ At(m, "init")
    /\ worker' = Idle
    /\ \/ /\ phase[m] = "live"
          /\ finalizer' = [finalizer EXCEPT ![m] = TRUE]
          /\ timeout' = [timeout EXCEPT ![m] = Stored(@)]
          /\ queue' = queue \cup {m}
          /\ UNCHANGED phase
       \/ /\ phase[m] = "deleting"
          /\ phase' = [phase EXCEPT ![m] = "gone"]
          /\ UNCHANGED <<finalizer, timeout, queue>>
    /\ UNCHANGED <<wanted, sessions, forgotten, netVars, bounds>>

\* Mutant: the error is reported, and nil returned.
Fail_NotRetried(m) ==
    /\ worker' = Idle
    /\ UNCHANGED queue

\* ManageError: the status says failed, and the queue retries.
Fail(m) ==
    /\ worker' = Idle
    /\ queue' = queue \cup {m}

\* The process dies, and with it its end of every connection.
Panic ==
    /\ worker' = Idle
    /\ queue' = {m \in MountPoints : phase[m] # "gone"}
    /\ sessions' = [m \in MountPoints |-> None]
    /\ open' = [m \in MountPoints |-> {}]
    /\ orphans' = [m \in MountPoints |-> orphans[m] \cup open[m]]

-----------------------------------------------------------------------------
(* manageOperatorLogic, DialSSH and DialSSHTimeout *)

\* The TCP connection.  Dial puts in the default port, DialSSHTimeout does
\* not, and a target without a port is an error for net.DialTimeout.
Tcp(m) ==
    /\ At(m, "tcp")
    /\ LET dialled == worker.timeout = 0 \/ m \in WithPort IN
       \/ dialled /\ server[m] # "unreachable" /\ Goto("handshake") /\ UNCHANGED queue
       \/ ~(dialled /\ server[m] # "unreachable") /\ Fail(m)
    /\ UNCHANGED <<specVars, sessions, forgotten, netVars, bounds>>

\* The SSH handshake, with the username for a password.  A server that stalls
\* meets the read deadline, if there is one.
Handshake(m) ==
    LET accepted == m \in PasswordIsName /\ server[m] # "denies" IN
    /\ At(m, "handshake")
    /\ \/ server[m] # "stalls" /\ accepted /\ Goto("setup") /\ UNCHANGED queue
       \/ server[m] # "stalls" /\ ~accepted /\ Fail(m)
       \/ server[m] = "stalls" /\ worker.timeout # 0 /\ Fail(m)
    /\ UNCHANGED <<specVars, sessions, forgotten, netVars, bounds>>

\* setupSession.  When it fails, DialSSHTimeout returns the error, and leaves a
\* connection open that is no session yet; DialSSH returns the error of Close,
\* if that has one, or else neither error nor session, and SendHello panics.
SetupSession(m) ==
    LET failed == server[m] \in {"nosubsystem", "drops", "unreachable"} IN
    /\ At(m, "setup")
    /\ \/ ~failed /\ Goto("hello") /\ UNCHANGED <<queue, sessions, open, orphans>>
       \/ failed /\ Fail(m) /\ UNCHANGED <<sessions, open, orphans>>
       \/ failed /\ worker.timeout = 0 /\ Panic
    /\ UNCHANGED <<specVars, forgotten, server, others, bounds>>

Fresh(m) == Ids \ (open[m] \cup orphans[m])

\* NewSession.  The hello of the server is waited for without a timeout: the
\* server answers the keep-alives, which keeps the read deadline away.  An
\* error is ignored.
ReceiveHello(m) ==
    /\ At(m, "hello")
    /\ \/ /\ server[m] \in {"good", "stalls", "denies", "nosubsystem"}
          /\ \E i \in Fresh(m) :
               /\ worker' = [worker EXCEPT !.pc = "sendhello", !.id = i]
               /\ open' = [open EXCEPT ![m] = @ \cup {i}]
       \/ /\ server[m] \in {"drops", "unreachable"} \/ Fresh(m) = {}
          /\ Goto("sendhello")
          /\ UNCHANGED open
    /\ UNCHANGED <<specVars, queue, sessions, forgotten, server, orphans, others, bounds>>

\* SendHello, and the entry in Sessions, whatever it replaces.  It fails on a
\* broken connection.
SendHello(m) ==
    LET broken == server[m] \in {"drops", "unreachable"} \/ worker.id = None IN
    /\ At(m, "sendhello")
    /\ \/ /\ ~broken
          /\ sessions' = [sessions EXCEPT ![m] = worker.id]
          /\ forgotten' = [forgotten EXCEPT ![m] = (@ \cup {sessions[m]}) \ {worker.id, None}]
          /\ worker' = Idle
          /\ UNCHANGED <<queue, open>>
       \/ /\ broken
          /\ Fail(m)
          /\ open' = [open EXCEPT ![m] = @ \ {worker.id}]
          /\ UNCHANGED <<sessions, forgotten>>
    /\ UNCHANGED <<specVars, server, orphans, others, bounds>>

-----------------------------------------------------------------------------
(* manageCleanUpLogic *)

Refused ==
    /\ refusals < MaxRefusals
    /\ refusals' = refusals + 1
    /\ UNCHANGED <<changes, edits>>

\* close-session: the server ends the session, or there is an rpc-error or no
\* reply.
CloseSession(m) ==
    /\ At(m, "close")
    /\ \/ sessions[m] = None /\ Goto("finalize") /\ UNCHANGED <<open, bounds>>
       \/ /\ sessions[m] # None
          /\ open' = [open EXCEPT ![m] = @ \ {sessions[m]}]
          /\ Goto("remove")
          /\ UNCHANGED bounds
       \/ /\ sessions[m] # None
          /\ Refused
          /\ Goto("kill")
          /\ UNCHANGED open
    /\ UNCHANGED <<specVars, queue, sessions, forgotten, server, orphans, others>>

\* string(rune(id)): the character with this code.  What a server makes of it
\* is a session id if it is a digit.
Rune(id) == IF id \in 49 .. 57 THEN id - 48 ELSE None

\* kill-session; its outcome is ignored.
KillSession(m) ==
    LET target == Rune(sessions[m]) IN
    /\ At(m, "kill")
    /\ others' = [others EXCEPT ![m] = @ \ {target}]
    /\ open' = [open EXCEPT ![m] = @ \ {target}]
    /\ orphans' = [orphans EXCEPT ![m] = @ \ {target}]
    /\ Goto("remove")
    /\ UNCHANGED <<specVars, queue, sessions, forgotten, server, bounds>>

\* Mutant: the session is forgotten, and not closed.
RemoveSession_NoClose(m) ==
    /\ At(m, "remove")
    /\ sessions' = [sessions EXCEPT ![m] = None]
    /\ UNCHANGED open
    /\ \/ Goto("finalize") /\ UNCHANGED queue
       \/ Fail(m)
    /\ UNCHANGED <<specVars, forgotten, server, orphans, others, bounds>>

\* The entry leaves Sessions, and the transport is closed, with an error or
\* not: the server's side of the session ends with it.
RemoveSession(m) ==
    /\ At(m, "remove")
    /\ sessions' = [sessions EXCEPT ![m] = None]
    /\ open' = [open EXCEPT ![m] = @ \ {sessions[m]}]
    /\ \/ Goto("finalize") /\ UNCHANGED queue
       \/ Fail(m)
    /\ UNCHANGED <<specVars, forgotten, server, orphans, others, bounds>>

Finalize(m) ==
    /\ At(m, "finalize")
    /\ worker' = Idle
    /\ phase' = [phase EXCEPT ![m] = "gone"]
    /\ UNCHANGED <<wanted, timeout, finalizer, queue, sessions, forgotten, netVars, bounds>>

-----------------------------------------------------------------------------
(* Users and servers *)

UserEdit ==
    /\ edits < MaxEdits
    /\ edits' = edits + 1
    /\ UNCHANGED <<changes, refusals>>

SetTimeout(m) ==
    /\ UserEdit
    /\ phase[m] = "live"
    /\ \E t \in Timeouts \ {timeout[m]} :
         /\ wanted' = [wanted EXCEPT ![m] = t]
         /\ timeout' = [timeout EXCEPT ![m] = t]
    /\ queue' = queue \cup {m}
    /\ UNCHANGED <<phase, finalizer, worker, sessions, forgotten, netVars>>

Delete(m) ==
    /\ UserEdit
    /\ phase[m] = "live"
    /\ phase' = [phase EXCEPT ![m] = "deleting"]
    /\ queue' = queue \cup {m}
    /\ UNCHANGED <<wanted, timeout, finalizer, worker, sessions, forgotten, netVars>>

\* A server changes what it does; one that cannot be reached has no sessions,
\* which the operator does not notice.
ServerChange(m) ==
    /\ changes < MaxServerChanges
    /\ changes' = changes + 1
    /\ \E b \in (Behaviours \cup {"good"}) \ {server[m]} :
         /\ server' = [server EXCEPT ![m] = b]
         /\ IF b = "unreachable"
            THEN open' = [open EXCEPT ![m] = {}] /\ orphans' = [orphans EXCEPT ![m] = {}]
            ELSE UNCHANGED <<open, orphans>>
    /\ UNCHANGED <<specVars, queue, worker, sessions, forgotten, others, edits, refusals>>

\* The server notices that the client of these sessions is gone.
DropOrphans(m) ==
    /\ orphans[m] # {}
    /\ orphans' = [orphans EXCEPT ![m] = {}]
    /\ UNCHANGED <<specVars, queue, worker, sessions, forgotten, server, open, others, bounds>>

Step(m) ==
    \/ Initialize(m)
    \/ Tcp(m)
    \/ Handshake(m)
    \/ SetupSession(m)
    \/ ReceiveHello(m)
    \/ SendHello(m)
    \/ CloseSession(m)
    \/ KillSession(m)
    \/ RemoveSession(m)
    \/ Finalize(m)

Next == \E m \in MountPoints :
          Reconcile(m) \/ Step(m) \/ SetTimeout(m) \/ Delete(m) \/ ServerChange(m)
          \/ DropOrphans(m)

Spec == Init /\ [][Next]_vars

\* The work queue is first-in first-out, the worker goes on while it can, and a
\* server finds out about dead peers.
FairSpec ==
    /\ Spec
    /\ \A m \in MountPoints : SF_vars(Reconcile(m)) /\ WF_vars(Step(m)) /\ WF_vars(DropOrphans(m))

-----------------------------------------------------------------------------

Attempting == worker.pc \in {"tcp", "handshake", "setup", "hello", "sendhello"}

\* A MountPoint whose server stays good gets its session, whatever the servers
\* of the other MountPoints do to the one worker they share, and although the
\* process may die of them; unless the worker is in an attempt for which the
\* user asked for no timeout.
Connects ==
    \A m \in MountPoints :
        <>[](server[m] = "good" /\ phase[m] = "live") =>
            []<>(sessions[m] # None \/ (Attempting /\ worker.timeout = 0))

\* When a MountPoint is gone its server has no session of it with this process
\* but those that a later dial had replaced in Sessions: also when close-session was refused,
\* when kill-session was for nobody, and when the cleanup had to be repeated
\* without the entry in Sessions.
NoSessionLeft ==
    \A m \in MountPoints : phase[m] = "gone" => open[m] \subseteq forgotten[m]

-----------------------------------------------------------------------------
(* What comments say, and the code does not do *)

\* mountpoint_types.go: "Whether to apply timeout while attempting the
\* connection".  An attempt with a timeout ends.
AttemptEnds == (Attempting /\ worker.timeout # 0) ~> ~Attempting

\* The same: "Put `0` for no timeout".
ZeroIsNoTimeout ==
    \A m \in MountPoints : wanted[m] = 0 /\ At(m, "tcp") => worker.timeout = 0

\* mountpoint_controller.go: "Close NETCONF session. If fails, kill the
\* session."  The sessions of others live.
KillsOwnSession == \A m \in MountPoints : others[m] = OtherIds
=============================================================================
