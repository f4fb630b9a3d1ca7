-------------------------- MODULE MCSubscriptions --------------------------
(***************************************************************************)
(* The subscription resources the configurations choose from.              *)
(***************************************************************************)
EXTENDS Subscriptions, TLC

Kinds_ == [create |-> "CreateSubscription", create2 |-> "CreateSubscription",
           establish |-> "EstablishSubscription", establish2 |-> "EstablishSubscription"]

MCSubKind == [r \in Subs |-> Kinds_[r]]

SessionSymmetry == Permutations(SessionIds)
IdSymmetry      == SessionSymmetry \cup Permutations(SubIds)
=============================================================================
