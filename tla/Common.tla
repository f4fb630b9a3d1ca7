------------------------------- MODULE Common -------------------------------
(***************************************************************************)
(* controllers/common.go: the Sessions map every controller shares, the    *)
(* two checks that guard an operation, and what a panic does to the        *)
(* process.                                                                *)
(***************************************************************************)
EXTENDS ControlPlane

CONSTANTS
    MountOf,    \* spec.mountPoint of an operation
    StoreOf,    \* spec.target of an operation
    DependsOn,  \* spec.dependsOn of an operation, or Nil
    Flags,      \* which of spec.lock, spec.commit, spec.unlock are set
    Refusable   \* operations the server may refuse on their content; an
                \* unlock has none

VARIABLES
    sessions,  \* the Sessions map: MountPoint to session, Nil when missing
    sent,      \* history: operations of which an RPC was sent
    accepted,  \* history: operations a server executed without rpc-error
    rejected,  \* history: operations answered with some rpc-error
    reported   \* history: operations whose stored status was "success"

history == <<sent, accepted, rejected, reported>>

ASSUME CommonAssumption ==
    /\ MountOf \in [Ops -> MountPoints]
    /\ StoreOf \in [Ops -> Stores]
    /\ DependsOn \in [Ops -> Ops \cup {Nil}]
    /\ Flags \in [Ops -> SUBSET {"lock", "commit", "unlock"}]
    /\ Refusable \subseteq Ops
    /\ \A o \in Ops : DependsOn[o] # Nil => Kind[o] \in {"EditConfig", "Commit", "Unlock"}

CommonTypeOK ==
    /\ sessions \in [MountPoints -> SessionIds \cup {Nil}]
    /\ sent \subseteq Ops
    /\ accepted \subseteq Ops
    /\ rejected \subseteq Ops
    /\ reported \subseteq Ops

CommonInit ==
    /\ sessions = [m \in MountPoints |-> Nil]
    /\ sent = {}
    /\ accepted = {}
    /\ rejected = {}
    /\ reported = {}

\* The MountPoint is in the cache and has an entry in Sessions; whether that
\* session still works is not looked at.
CheckMountPointExists(m) == cache[m].phase # "absent" /\ sessions[m] # Nil

\* Mutant: the dependency only has to exist.
validateDependency_AnyStatus(dep) ==
    /\ Kind[dep] \in {"Commit", "EditConfig", "Lock"}
    /\ cache[dep].phase # "absent"

\* validateExist and validateStatus, on the cached copy of the dependency.
validateDependency(dep) ==
    /\ Kind[dep] \in {"Commit", "EditConfig", "Lock"}
    /\ cache[dep].phase # "absent"
    /\ cache[dep].status = "success"

DependencyMet(o) == DependsOn[o] # Nil => validateDependency(DependsOn[o])

\* The process dies and is started again: Sessions is empty, and the servers
\* still hold the sessions the old process had.
Panic ==
    /\ RestartControlPlane
    /\ sessions' = [m \in MountPoints |-> Nil]
    /\ open' = open
    /\ orphans' = open

\* The process dies for a reason that is not a nil reply or session: it is
\* killed, loses its leader lease, the runtime detects a concurrent access to
\* a map, or SendToKafka calls log.Fatal.
Crash ==
    /\ Fault("crash")
    /\ Panic
    /\ UNCHANGED <<lockOwner, history>>
=============================================================================
