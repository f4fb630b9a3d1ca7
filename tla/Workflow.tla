------------------------------ MODULE Workflow ------------------------------
(***************************************************************************)
(* What the operator promises about a set of operations and their          *)
(* dependencies, without sessions, caches, queues or processes: an RPC of  *)
(* an operation is sent only after the operation it depends on has been    *)
(* reported as a success, a status is only reported for an operation the   *)
(* server has answered, and what was sent or answered is never taken back. *)
(***************************************************************************)
CONSTANTS Ops, DependsOn, Nil

VARIABLES
    sent,      \* operations of which an RPC was sent
    answered,  \* operations the server answered
    reported,  \* operations once reported as a success
    status     \* the status a user sees

vars == <<sent, answered, reported, status>>

Init ==
    /\ sent = {}
    /\ answered = {}
    /\ reported = {}
    /\ status = [o \in Ops |-> "none"]

\* An RPC of o is sent, and the operation may be answered with it.
Send(o) ==
    /\ DependsOn[o] # Nil => DependsOn[o] \in reported
    /\ sent' = sent \cup {o}
    /\ answered' \in {answered, answered \cup {o}}
    /\ UNCHANGED <<reported, status>>

\* The user is told the outcome of o.
Report(o) ==
    /\ o \in answered
    /\ \/ /\ status' = [status EXCEPT ![o] = "success"]
          /\ reported' = reported \cup {o}
       \/ /\ status' = [status EXCEPT ![o] = "failed"]
          /\ UNCHANGED reported
    /\ UNCHANGED <<sent, answered>>

\* The resource is deleted or created anew.
Forget(o) ==
    /\ status' = [status EXCEPT ![o] = "none"]
    /\ UNCHANGED <<sent, answered, reported>>

Next == \E o \in Ops : Send(o) \/ Report(o) \/ Forget(o)

Spec == Init /\ [][Next]_vars
=============================================================================
