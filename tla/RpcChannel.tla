----------------------------- MODULE RpcChannel -----------------------------
(***************************************************************************)
(* What the controllers expect of a NETCONF session that several of them   *)
(* use at a time: a call ends once, with an answer or with an error, and   *)
(* an answer says that the server has executed this call's request.  An    *)
(* error says nothing: the request may be executed before or after it.     *)
(***************************************************************************)
CONSTANT Calls  \* the calls made on the session

VARIABLES
    outcome,  \* how each call stands
    executed  \* the calls whose request the server has executed

ChannelInit ==
    /\ outcome = [c \in Calls |-> "none"]
    /\ executed = {}

Invoke(c) ==
    /\ outcome[c] = "none"
    /\ outcome' = [outcome EXCEPT ![c] = "pending"]
    /\ UNCHANGED executed

Execute(c) ==
    /\ outcome[c] # "none"
    /\ executed' = executed \cup {c}
    /\ UNCHANGED outcome

Answer(c) ==
    /\ outcome[c] = "pending"
    /\ c \in executed
    /\ outcome' = [outcome EXCEPT ![c] = "answered"]
    /\ UNCHANGED executed

Fail(c) ==
    /\ outcome[c] = "pending"
    /\ outcome' = [outcome EXCEPT ![c] = "failed"]
    /\ UNCHANGED executed

ChannelNext == \E c \in Calls : Invoke(c) \/ Execute(c) \/ Answer(c) \/ Fail(c)

ChannelSpec == ChannelInit /\ [][ChannelNext]_<<outcome, executed>>
=============================================================================
