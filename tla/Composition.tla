---------------------------- MODULE Composition ----------------------------
(***************************************************************************)
(* NetconfOperator keeps the promise that module Subscriptions relies on.  *)
(***************************************************************************)
EXTENDS MCNetconfOperator

View(m) == INSTANCE MountPointSession
             WITH mounted <- cache[m].phase # "absent", session <- sessions[m]

\* Whatever mountpoint_controller.go, the caches, the servers and a restart do
\* to a MountPoint, the other controllers see a step of MountPointSession: its
\* entry changes only by a dial that succeeded, a cleanup or a restart, and a
\* cleanup never leaves a session that is open on both ends.
ImplementsMountPointSession ==
    /\ \A m \in MountPoints : View(m)!MountInit
    /\ [][\A m \in MountPoints : [View(m)!MountNext]_(View(m)!mountVars)]_vars
=============================================================================
