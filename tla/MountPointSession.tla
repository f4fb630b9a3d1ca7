------------------------- MODULE MountPointSession -------------------------
(***************************************************************************)
(* What the controllers of the other resources rely on when they use a     *)
(* MountPoint: whether their cache shows it, which session Sessions holds  *)
(* for it, and which sessions the server knows.  NetconfOperator           *)
(* implements this specification (module Composition); Subscriptions is    *)
(* built on its actions.                                                   *)
(***************************************************************************)
CONSTANTS
    SessionIds,  \* the sessions the servers can hold together
    Nil          \* no entry in Sessions

VARIABLES
    mounted,  \* the cache shows the MountPoint
    session,  \* its entry in Sessions, or Nil
    open,     \* sessions a server considers established
    orphans   \* open sessions whose client end is gone

mountVars == <<mounted, session, open, orphans>>

ASSUME MountPointSessionAssumption == Nil \notin SessionIds

MountTypeOK ==
    /\ mounted \in BOOLEAN
    /\ session \in SessionIds \cup {Nil}
    /\ open \subseteq SessionIds
    /\ orphans \subseteq open

MountInit ==
    /\ mounted = FALSE
    /\ session = Nil
    /\ open = {}
    /\ orphans = {}

\* The informer delivers a creation or the end of the MountPoint.
Notice ==
    /\ mounted' \in BOOLEAN
    /\ UNCHANGED <<session, open, orphans>>

\* A reconcile of the MountPoint dials s.  An older session stays open and is
\* forgotten.
Connect(s) ==
    /\ s \notin open
    /\ open' = open \cup {s}
    /\ session' = s
    /\ UNCHANGED <<mounted, orphans>>

\* A session is dialled that does not get into this entry: the hello could
\* not be sent, or it is another MountPoint's.
Elsewhere(s) ==
    /\ s \notin open
    /\ open' = open \cup {s}
    /\ UNCHANGED <<mounted, session, orphans>>

\* The MountPoint is deleted: the entry is removed and the transport closed,
\* whether or not close-session had ended the session at the server.
Disconnect ==
    /\ session # Nil
    /\ session' = Nil
    /\ orphans' = orphans \cup ({session} \cap open)
    /\ UNCHANGED <<mounted, open>>

\* The transport of another MountPoint's session is closed.
Abandon(s) ==
    /\ s \in open \ {session}
    /\ orphans' = orphans \cup {s}
    /\ UNCHANGED <<mounted, session, open>>

\* The server ends a session, asked to or not.
End(s) ==
    /\ s \in open
    /\ open' = open \ {s}
    /\ orphans' = orphans \ {s}
    /\ UNCHANGED <<mounted, session>>

\* The process is started again.
Restart ==
    /\ mounted' \in BOOLEAN
    /\ session' = Nil
    /\ orphans' = open
    /\ UNCHANGED open

MountNext ==
    \/ Notice
    \/ Disconnect
    \/ Restart
    \/ \E s \in SessionIds : Connect(s) \/ Elsewhere(s) \/ Abandon(s) \/ End(s)

MountSpec == MountInit /\ [][MountNext]_mountVars
=============================================================================
