------------------------- MODULE MCNetconfOperator -------------------------
(***************************************************************************)
(* The resources the configurations choose from.  A configuration names    *)
(* the MountPoints and Ops that take part; the functions below give each   *)
(* its kind, its MountPoint, its datastore, its flags and what it depends  *)
(* on (if that takes part too).                                            *)
(***************************************************************************)
EXTENDS NetconfOperator, TLC

Kinds_ == [mp |-> "MountPoint",
           lock |-> "Lock", edit |-> "EditConfig", commit |-> "Commit",
           unlock |-> "Unlock", solo |-> "EditConfig",
           get |-> "Get", getconfig |-> "GetConfig", rpc |-> "RPC"]

\* The sequence of the README: Lock --> EditConfig --> Commit --> Unlock.  Each
\* operation depends on the last one before it that takes part.
Flow == <<"lock", "edit", "commit", "unlock">>

Previous(o) == {i \in DOMAIN Flow : Flow[i] \in Ops /\ \E j \in DOMAIN Flow : i < j /\ Flow[j] = o}

SessionSymmetry == Permutations(SessionIds)

MCKind      == [o \in Objects |-> Kinds_[o]]
MCMountOf   == [o \in Ops |-> "mp"]
MCStoreOf   == [o \in Ops |-> "candidate"]
MCFlags     == [o \in Ops |-> IF o = "solo" THEN {"lock", "commit", "unlock"} ELSE {}]
MCDependsOn == [o \in Ops |->
    IF Previous(o) = {} THEN Nil
    ELSE Flow[CHOOSE i \in Previous(o) : \A j \in Previous(o) : j <= i]]
=============================================================================
