------------------------ MODULE SubscriptionServer ------------------------
(***************************************************************************)
(* The notifications of one MountPoint: what its server has agreed to      *)
(* send, and what the Session objects of the client do with it.  A Session *)
(* has a table of callbacks by subscription id, one handler for the        *)
(* notifications without an id, and the flag IsNotificationStreamCreated.  *)
(***************************************************************************)
EXTENDS MountPointSession, Naturals

CONSTANTS
    Subs,        \* the subscription resources
    SubIds,      \* the subscription ids a server can give
    ReuseIds     \* whether a server gives an id again once it is free

VARIABLES
    subs,           \* server: the established subscriptions
    streams,        \* server: how many streams each session was granted
    given,          \* history: the ids given so far, and to whom
    callbacks,      \* client: the ids with a callback, for each session
    handler,        \* client: whose callback handles a session's stream
    streamCreated   \* client: IsNotificationStreamCreated of each session

serverVars == <<subs, streams, given>>
clientVars == <<callbacks, handler, streamCreated>>
notifyVars == <<serverVars, clientVars>>

ASSUME SubscriptionServerAssumption ==
    /\ Nil \notin Subs \cup SubIds
    /\ ReuseIds \in BOOLEAN

Subscription == [id : SubIds, session : SessionIds, by : Subs]

NotifyTypeOK ==
    /\ subs \subseteq Subscription
    /\ streams \in [SessionIds -> Nat]
    /\ given \subseteq [id : SubIds, by : Subs]
    /\ callbacks \in [SessionIds -> SUBSET SubIds]
    /\ handler \in [SessionIds -> Subs \cup {Nil}]
    /\ streamCreated \in [SessionIds -> BOOLEAN]

NotifyInit ==
    /\ subs = {}
    /\ streams = [s \in SessionIds |-> 0]
    /\ given = {}
    /\ callbacks = [s \in SessionIds |-> {}]
    /\ handler = [s \in SessionIds |-> Nil]
    /\ streamCreated = [s \in SessionIds |-> FALSE]

\* A message on s reaches the other end.
Usable(s) == s \in open \ orphans

\* The ids the server can give to the next subscription.
FreeIds == SubIds \ {n.id : n \in IF ReuseIds THEN subs ELSE given}

\* The server executes establish-subscription, create-subscription and
\* delete-subscription.  Only the session that established a subscription
\* can delete it; for any other the server answers with an rpc-error.
Establish(r, s, i) ==
    /\ i \in FreeIds
    /\ subs' = subs \cup {[id |-> i, session |-> s, by |-> r]}
    /\ given' = given \cup {[id |-> i, by |-> r]}

CreateStream(s) == streams' = [streams EXCEPT ![s] = @ + 1]

DeleteSubscription(s, i) ==
    subs' = {n \in subs : ~(n.id = i /\ n.session = s)}

\* The subscriptions and streams of a session end with it.
EndNotifications(s) ==
    /\ subs' = {n \in subs : n.session # s}
    /\ streams' = [streams EXCEPT ![s] = 0]

\* NewSession: an empty dispatcher.
NewDispatcher(s) ==
    /\ callbacks' = [callbacks EXCEPT ![s] = {}]
    /\ handler' = [handler EXCEPT ![s] = Nil]
    /\ streamCreated' = [streamCreated EXCEPT ![s] = FALSE]

\* Dispatcher.Register and Dispatcher.Remove.
Register(s, i) == callbacks' = [callbacks EXCEPT ![s] = @ \cup {i}]
Remove(s, i)   == callbacks' = [callbacks EXCEPT ![s] = @ \ {i}]

\* The receiving goroutine hands the next notification of subscription n to a
\* callback (Dispatch finds one), or drops it.
Heard(n) == Usable(n.session) /\ n.id \in callbacks[n.session]

\* The same for a notification of the stream of s.
StreamHeard(s) == Usable(s) /\ streams[s] > 0 /\ handler[s] # Nil
=============================================================================
