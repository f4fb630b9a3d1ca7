--------------------------- MODULE NetconfServer ---------------------------
(***************************************************************************)
(* The NETCONF servers the operator talks to, one per MountPoint, seen     *)
(* from the client: the sessions a server holds open and the owner of each *)
(* datastore lock.  The servers are outside the repository; what is        *)
(* modelled is what controllers/*.go ask of them.                          *)
(***************************************************************************)
EXTENDS Naturals, FiniteSets

CONSTANTS
    MountPoints,  \* the MountPoint resources, each the address of one server
    SessionIds,   \* the sessions the servers can hold together
    Stores,       \* datastores that can be locked
    Nil,          \* Go's nil, and "no lock owner"
    FaultKinds,   \* which faults the environment may inject
    MaxFaults     \* bound: how many faults are injected in one behaviour

VARIABLES
    open,       \* sessions some server considers established
    orphans,    \* open sessions whose client end is gone, not yet noticed
    lockOwner,  \* for each server and datastore, the session holding the lock
    faults      \* number of faults injected so far

serverVars == <<open, orphans, lockOwner>>

AllFaultKinds == {"timeout", "dial", "hello", "nilsession", "lost", "crash"}

ASSUME ServerAssumption ==
    /\ Nil \notin SessionIds \cup MountPoints
    /\ FaultKinds \subseteq AllFaultKinds
    /\ MaxFaults \in Nat

Rpcs == {"lock", "edit", "commit", "unlock", "read"}

ServerTypeOK ==
    /\ open \subseteq SessionIds
    /\ orphans \subseteq open
    /\ lockOwner \in [MountPoints -> [Stores -> SessionIds \cup {Nil}]]
    /\ faults \in 0 .. MaxFaults

ServerInit ==
    /\ open = {}
    /\ orphans = {}
    /\ lockOwner = [m \in MountPoints |-> [d \in Stores |-> Nil]]
    /\ faults = 0

\* The environment spends one of its faults on a fault of kind f.
Fault(f) ==
    /\ f \in FaultKinds
    /\ faults < MaxFaults
    /\ faults' = faults + 1

\* An RPC sent by the operator on s reaches the server.
Usable(s) == s \in open \ orphans

\* The lock discipline of RFC 6241: a lock is granted when nobody holds it
\* (not even the requester), released by its holder, and keeps every other
\* session from changing the datastore.
Accepts(r, s, m, d) ==
    CASE r = "lock"   -> lockOwner[m][d] = Nil
      [] r = "unlock" -> lockOwner[m][d] = s
      [] r = "edit"   -> lockOwner[m][d] \in {Nil, s}
      [] r = "commit" -> \A e \in Stores : lockOwner[m][e] \in {Nil, s}
      [] OTHER        -> TRUE

\* The lock table after the server executed r for s.
Executed(r, s, m, d) ==
    CASE r = "lock"   -> [lockOwner EXCEPT ![m][d] = s]
      [] r = "unlock" -> [lockOwner EXCEPT ![m][d] = Nil]
      [] OTHER        -> lockOwner

\* The lock table after the end of session s.
Released(s) ==
    [m \in MountPoints |-> [d \in Stores |->
        IF lockOwner[m][d] = s THEN Nil ELSE lockOwner[m][d]]]

\* The server ends session s and releases its locks.
EndSession(s) ==
    /\ open' = open \ {s}
    /\ orphans' = orphans \ {s}
    /\ lockOwner' = Released(s)

\* The server notices that the client of an orphaned session is gone.
DropOrphan(s) ==
    /\ s \in orphans
    /\ EndSession(s)
    /\ UNCHANGED faults

\* A server ends a session on its own (idle timeout, reboot, broken link).
LoseSession(s) ==
    /\ s \in open \ orphans
    /\ Fault("lost")
    /\ EndSession(s)
=============================================================================
