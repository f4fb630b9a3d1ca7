# A TLA+ model of the NETCONF operator

The operator turns Kubernetes custom resources into NETCONF sessions and
NETCONF operations. This directory holds TLA+ modules that model its control,
TLC configurations that check them on small instances, and proofs that TLAPS
checks for every size.

## 1. The system

### Inventory

| part | state | operations | source |
|---|---|---|---|
| MountPoint controller | the finalizer and status of a `MountPoint`, its entry in `Sessions` | store the finalizer, dial and say hello, close, remove the finalizer | `controllers/mountpoint_controller.go` |
| one-shot operation controllers (`Lock`, `Unlock`, `EditConfig`, `Commit`, `Get`, `GetConfig`, `RPC`) | the status of the resource | validate, check the dependency, look up the session, one to four RPCs, write the status | `controllers/{lock,unlock,editconfig,commit,get,getconfig,rpc}_controller.go` |
| subscription controllers | status, subscription id, finalizer, registered callbacks | subscribe, register a callback, delete the subscription | `controllers/{create,establish}subscription_controller.go` |
| shared code | the process-wide map `Sessions` | `CheckMountPointExists`, `validateDependency`, `ValidateXML`, `SendToKafka` | `controllers/common.go` |
| reconcile loop (vendored) | work queue, informer cache, one worker per controller | dequeue, retry, status writes (`ManageError`, `ManageSuccess`), update predicate | controller-runtime, operator-utils |
| NETCONF session (vendored) | callback table, the channel of each call, the receiving goroutine | `SyncRPC`, `Register`, `Remove`, `Dispatch`, `listen`, `Close`, `CreateNotificationStream` | `go-netconf-client/netconf/{operations,events,session}.go` |
| NETCONF transport (vendored) | read buffer, scanner, version of the framing | `Send`, `Receive`, `WaitForFunc`, `SplitChunked`; `DialSSH`, `DialSSHTimeout` | `go-netconf-client/netconf/{transport,transport_ssh}.go` |
| API types, generated code, `main.go` | | | `api/v1`, `main.go` |

The controllers never call each other. They meet in four places: the map
`Sessions` (written by the MountPoint controller, read by all others, no
mutex), the statuses in the API server (an operation reads the status of the
one it depends on, through a cache), the locks on the NETCONF servers, and the
session they share: its callback table and its SSH channel, which workers and
the receiving goroutine use without a mutex either.

### What is hard

* Every controller has its own worker, so nine or more reconciles interleave,
  with users, informers and servers between any two calls that wait.
* Reads come from a cache that may be old, also after the controller's own
  writes; writes are refused when the copy is old, and the error is what makes
  the queue retry.
* An operation is not idempotent: `lock` twice is an error, a second
  `establish-subscription` is a second subscription.
* A reply that does not come in time is a nil pointer, and each one-shot
  controller dereferences it: the process dies, the statuses survive, the
  sessions, their locks, streams and subscriptions do not.
* `Sessions` is not told when a server ends a session, and a reconcile of a
  `MountPoint` replaces a session without closing it.
* Notifications come on another goroutine than replies, from the moment the
  server has answered, and a broker that is away ends the process.
* A request is written before its timer starts, and the write waits for a server
  that does not read.
* Messages, separators and chunks are divided among packets and reads at will,
  and several messages come in one read.

The `hazards` of `PROJECT.json` list these with their lines and the properties
that would notice them going wrong, or the disagreement of section 3 that says why
none does.

### What makes each part correct

* MountPoint: the finalizer protects the session; a MountPoint without session gets
  one and, once deleted, disappears; every session in use is in the map.
* Operations: the status says what the server answered; an operation waits for
  its dependency; every operation gets a status; a transaction that locks also
  unlocks; the edit of a sequence runs under the lock of the sequence.
* Reconcile loop: a resource that still needs work is never forgotten.
* Subscriptions: what a status acknowledges is listened to; a cleanup uses ids
  of the resource's own and no others; a session has one stream, with a
  handler; after a restart the operator listens again.
* Session: a call returns the answer to its own request, or an error, once; no
  caller holds up the receiving goroutine.
* Transport: messages come out as they went in, for every division of the bytes.

## 2. Modules

| module | models | correspondence |
|---|---|---|
| `NetconfServer` | the servers (external) | `open`, `orphans`: sessions of a server and those without client; `lockOwner`; the lock rules of RFC 6241 that the RPCs rely on |
| `ControlPlane` | API server, informers, queue, workers | `obj` stored resources, `cache` the informer's copy, `watch` what separates them, `queue`, `task[k]` the reconcile of controller `k`: where it is (`pc`), its copy (`instance`), whether the copy is current (`fresh`), its session and the RPCs it has left |
| `Common` | `common.go` | `sessions` is `Sessions`; `sent`, `accepted`, `rejected`, `reported` are history |
| `MountPointController` | `mountpoint_controller.go` | one action per stretch between two calls that wait |
| `OperationControllers` | the seven one-shot controllers | shared steps first, then a `...Reconcile` and an `...OperatorLogic` per controller, as in the source |
| `NetconfOperator` | the composition | `Next`, fairness, the properties |
| `Workflow` | abstract specification | what a user is promised about dependent operations |
| `MCNetconfOperator` | | the resources the configurations choose from |
| `MountPointSession` | abstract specification | what the other controllers see of a MountPoint: is it in the cache, which session is in `Sessions`, which sessions are alive at which end |
| `Composition` | `NetconfOperator` implements `MountPointSession` | the mapping of the cache and of `Sessions`, for each MountPoint |
| `SubscriptionServer` | subscriptions and streams at the servers (external), callbacks, handler and flag of a session object | `subs`, `streams`, `given` (history: which id, to whom); `callbacks`, `handler`, `streamCreated` |
| `Subscriptions`, `MCSubscriptions` | `createsubscription_controller.go`, `establishsubscription_controller.go`, `SendToKafka` | built on `MountPointSession`; control plane as in `ControlPlane`, with the finalizer, the XML and the subscription id of these resources |
| `RpcChannel` | abstract specification | what the controllers expect of a session: a call ends once, and an answer says that its request was executed |
| `NetconfClient` | `operations.go`, `events.go`, `session.go` | `call[c]`: where `SyncRPC` is; `table`: the callback map; `reply`: the channels that hold a reply; `listener`: the goroutine of `listen`; `buffer`: the packet buffer of the SSH channel; `blocked`: the channel's window is used up, or the connection takes no more |
| `Transport`, `MCTransport` | `transport.go` | `transit`: the bytes on their way, `arrived`: those to be read, `window` and `out` of `WaitForFunc`, `scan`: the `bufio.Scanner` of `Chunked` with the state of `SplitChunked`; `intact`, `clean` are history |
| `Connection` | the dial in `transport_ssh.go`, `NewSession`, and the cleanup, with the spec of the MountPoint | `worker`: the one MountPoint worker and where it is; `server`: what each server does to it; `open` and `orphans`: the sessions at the server, with this process and with one that has died |
| `InductiveInvariant`, `NetconfOperatorProofs`, `OperationsProofs` | | the inductive invariants of `NetconfOperator` and the proofs |
| `CompositionProofs` | | the proof that `NetconfOperator` implements `MountPointSession` |
| `SubscriptionsProofs`, `SubscriptionIdsProofs` | | the proofs about `Subscriptions` |
| `NetconfClientProofs`, `TransportProofs`, `ConnectionProofs` | | the proofs about the client, the framing and the dial |

How they fit together. `NetconfOperator` knows of a session that a dial gives
one, that an RPC on it is answered or not, and that it ends. `Connection` opens
up the dial and the cleanup, `NetconfClient` the RPC, `Transport` the message.
`NetconfClient` is shown to implement `RpcChannel`, which is what `Replied` and
`NotReplied` of `OperationControllers` assume. `Subscriptions` would be too
large on top of `NetconfOperator`; it stands on `MountPointSession`, which
`Composition` shows to be implemented.

Atomicity. An action is what a worker does from one call that waits (an API
request, a dial, an RPC) to the next. Reads of the cache and of `Sessions` are
immediate, so `Reconcile` up to the first such call is one action. `isValid`
and the lookup in `Sessions` are two actions: the MountPoint worker may come
between them.

Abstractions.

* A `resourceVersion` is not a number. `watch[o]` is `"synced"` when the cache
  is current, `"event"` when some undelivered change passes
  `ResourceGenerationOrFinalizerChangedPredicate` (created, deleted, generation
  or finalizers changed) and `"status"` when none does; `fresh` says whether a
  worker's copy is the stored version.
* The informer delivers the latest version in one step. Versions in between
  are seen as no more than the cache being old.
* A failing API request other than a conflict is not a step of its own: it has
  the same effect, a retry.
* Retries are in the queue at once: back-off and the two seconds of
  `ManageErrorWithRequeue` (lost anyway when an error is returned) are time.
* Payloads, replies and capabilities are left out. What counts of a reply is
  whether it came and whether it has `rpc-error` elements.
* `Get`, `GetConfig` and `RPC` all send an RPC that needs no lock (`"read"`).
* A user deletes operations in the background or in the foreground, and
  MountPoints in the background.
* A new process starts with a complete cache, every resource in the queue, no
  session, and the servers keep the sessions of the old one until they notice.
* In `NetconfOperator` `kill-session` ends no session; `Connection` follows the
  id through `string(rune(id))`, with which it names another session or none.
* In `Subscriptions` an edit makes the XML of an EstablishSubscription
  well-formed or not, and that is all `ValidateXML` tells apart. A notification
  is not a message but the state in which one may come: the property is about
  whether a callback is there for it. `NewDispatcher` gives a new session object
  its empty table; the old one's callbacks are not reached any more.
* In `NetconfClient` a race of two goroutines in the callback map is detected
  by the Go runtime, which ends the process, or not, and then has no effect. A
  packet is copied in two steps; a second writer in between overwrites the
  packet of the first. A request is one packet: that the window takes a part of
  it and the rest has to wait is the wait of `Reserved`.
* In `Transport` the bytes are those the code tells apart: line feed, `#`, digits,
  the bytes of `]]>]]>`, and some letters. `ReadSize` stands for 4096; the scanner's
  buffer of 16 bytes and its limit of 32 have their own size. A server
  sends a message in one or two chunks, of up to 2^31 - 1 bytes. Any number of the
  bytes on their way arrive in a step, which stands for every division into
  packets, across messages too; of the bytes that have arrived only those of the
  next read are kept apart from the others (`arrived`), which Read cannot tell.
* In `Connection` caches and conflicts are left out; they are in `ControlPlane`.
* Type assertions on the reconciled object never fail and are left out.

## 3. What is checked

Passing runs:

| run (module) | instance | shows |
|---|---|---|
| `operator` (`Composition`) | a MountPoint, an EditConfig and a Commit that depends on it and may be refused, 2 sessions, 1 fault (late reply, failed dial or hello, neither session nor error, lost session), 1 user change | `TypeOK`, `SessionHasFinalizer`, `NoLostWakeup`, `StatusTruthful`, `DependencyHonoured`, and the refinements `SequencesOperations` and `ImplementsMountPointSession` |
| `progress` (`MCNetconfOperator`) | a MountPoint, an EditConfig with lock, commit and unlock, 2 sessions, 1 fault (crash included), 1 user change | `MountPointConnects`, `MountPointDeletes`, `TransactionReleasesLock` (liveness) |
| `settle` (`MCNetconfOperator`) | a Get and an RPC, 1 late reply | `OperationSettles` (liveness) |
| `flow` (`MCNetconfOperator`) | Lock, EditConfig and Unlock, each dependent on the one before, and a GetConfig; no faults | `SequenceUnderLock` |
| `subscribe` (`MCSubscriptions`) | 2 EstablishSubscriptions, 2 sessions, 2 ids that may be given again, 1 fault (late reply, lost session), 1 user change, 1 change of the MountPoint | `SubscriptionsTypeOK`, `DeletesOnlyGiven` |
| `resubscribe` (`MCSubscriptions`) | 1 EstablishSubscription, 2 sessions, 2 ids that are given once, 1 fault (a crash and a broker that is away included), 1 user change, 1 change of the MountPoint | `SubscribedHasFinalizer`, `AcknowledgedIsHeard`, `EstablishDeletes`, `Resubscribes` (liveness) |
| `streams` (`MCSubscriptions`) | 2 CreateSubscriptions, 1 fault, 1 change of the MountPoint | `OneStreamPerSession`, `StreamsAreHandled`, `Resubscribes` (liveness) |
| `client` (`NetconfClient`) | 2 calls, 1 id of notifications, repeated and late replies, a server that stops reading and goes on, loss and Close | `ClientTypeOK`, `ListenerNeverBlocks`, the refinement `ImplementsRpcChannel`, `CallReturns`, `ListenerStops` (liveness) |
| `framing` (`MCTransport`) | 8 messages shorter and longer than the buffers, some with line feeds and hash signs or like a chunk, 7 malformed ones, both framings, up to 2 messages on their way at a time | `MessagesIntact`, `ScannerFits`, `MessagesReceived` (liveness) |
| `connect` (`Connection`) | 2 MountPoints with and without a timeout, 5 ways of a server to misbehave, 1 change of a server, 2 edits or deletions, 1 refused `close-session` | `NoSessionLeft`, `Connects` (liveness) |

Bounds. `MaxFaults`, `MaxChanges` and the like bound what the environment does,
the sets bound resources and sessions. Two sessions are enough for an old and a
new one of a MountPoint to exist at once, two subscription ids for one that is
known to the status and one that is not. One fault of any kind followed by a
recovery, and a user change before, during or after it, reach every action and
every branch; the proofs of section 4 do without bounds. In `framing`, messages
of up to 21 bytes go past the reads (`ReadSize` 6) and past the scanner's buffer
(16), in every division of the bytes; two messages are on their way together when
they are short (`Burst`), which is enough for the end of one and the beginning of
the next to be in one read. `MessagesIntact` and `MessagesReceived` say what holds as
long as each separator was found at the end of a read (`clean`): outside of that the
code loses messages, see below. `resubscribe` is for servers that give no id twice
(`AcknowledgedIsHeard` is false otherwise, see `DeletesOnlyOwn`), `subscribe` for those
that do. `flow` is without faults because the property needs it. Deadlock is not checked: a
system with nothing left to do stops. Symmetry is used in runs without liveness
properties only; session and subscription identifiers are compared for equality
and nothing else. A refinement that is checked under symmetry is a formula
about single steps and symmetric itself.

Fairness (`FairSpec`). Weak fairness of the informers (watches are re-listed),
of a worker's next step, and of the servers noticing dead peers; strong fairness
of a worker taking a given resource, since the work queue is first-in first-out
and the worker comes back to it after every reconcile. That a worker's next step
comes is an assumption on the servers where the code has no timeout: every dial
returns (`NewSession` waits for the hello without one; `Connection` is about the
servers with which it does not), and every server reads its requests (the timer
of `SyncRPC` starts when the request is written, see `CallReturns`). In
`Subscriptions` a MountPoint that is there gets its first session, which is
`MountPointConnects`. In `NetconfClient` goroutines that can go on do, and the
server need neither read nor answer: `CallReturns` excepts the calls that are
blocked from some time on. In `Transport` bytes on their way arrive and the
receiving goroutine goes on. In `Connection` a step that can be taken is taken; waiting
for a server that stays silent is no step, so `Connects` excludes attempts
without a timeout, and servers that are silent after the handshake. Nothing is
assumed of users and faults.

Each property of a passing run has a mutant, an operator with a plausible bug
next to the definition it stands for (`..._NoFinalizer`,
`..._ConflictIgnored`, ...), with which the run fails.

### Disagreements

Two runs show that the code does not do what is said of it; `PROJECT.json`
quotes the lines.

| run | property | what happens |
|---|---|---|
| `flowstuck` | `FlowCompletes` | with no fault at all, a refused status write repeats the `lock`, which fails and blocks the flow for ever |
| `stuck` | `DeletionTakesEffect` | once the MountPoint is gone, a deleted EstablishSubscription is never valid again, and its finalizer stays |

The modules state more of them, in their last sections or as properties that
hold within the bounds above only. TLC finds each in a configuration with the
constants given here; the other constants can be as small as they go.

| property | constants | what happens |
|---|---|---|
| `SessionsHoldActive` | `MaxChanges = 1` | a reconcile of a connected MountPoint leaves the old session open outside the map (`common.go:32`: "Sessions hold the active SSH session") |
| `EditUnderOwnLock` | `Ops = {"solo"}`, `Refusable = {"solo"}` | an EditConfig whose `lock` is answered with an error edits anyway (`editconfig_types.go:43`) |
| `RpcEndsInStatus` | one fault `"timeout"` | an RPC without reply ends in a panic, not in `failed` (`common_types.go:35`) |
| `SequenceUnderLock` | `Ops = {"lock", "edit"}`, one fault `"crash"` | after a restart the stored success of a Lock admits an EditConfig on a session without lock |
| `NotificationsReceived` | no fault | the callback is registered after the reply, and a notification in between is dropped (`establishsubscription_controller.go:223`) |
| `DeletionUnsubscribes` | `MaxChanges = 2` | a repeated reconcile makes a second subscription; the deletion ends the one in the status only (line 157) |
| `Resubscribes` without `mountChanges > 0` | `MaxMountChanges = 1` | after the MountPoint is created anew nothing makes the controller subscribe again (line 249) |
| `DeletesOnlyOwn` | those of `subscribe` | the stored id is sent on the current session, where the server may have given it to another resource by now, whose subscription then ends (line 159) |
| `ExecutedOnce` | those of `client` | two workers write to the SSH channel at a time; one request goes out twice in place of the other (`operations.go:89`) |
| `SyncRpcReturns` | those of `client` | a race in the callback map ends the process (`events.go:59`) |
| `SyncRpcReturns` | those of `client` | a server that stops reading holds `Send`, before the timer has started (`operations.go:89`, `ssh/channel.go:253`) |
| `EveryMessageReceived` | those of `framing` | what follows a separator in the same read is dropped, so that of two messages that come together the second is lost (`transport.go:238`); with `Pipeline = 1`: a separator that arrives in three reads is never found (`transport.go:242`) |
| `MessagesIntact` | `Payloads <- HashLine` | data with a line `##` is cut there (`transport.go:81`) |
| `AttemptEnds` | `Behaviours = {"silent"}` | the wait for the server's hello has no timeout, and holds the worker of all MountPoints (`session.go:40`) |
| `ZeroIsNoTimeout` | `Timeouts = {0, 15}` | the Update that stores the finalizer leaves out a timeout of 0, and the API server puts in 15 (`mountpoint_types.go:35`) |
| `Connects` | `WithPort = {}` | with a timeout, a target without a port is dialled without port 830 (`transport_ssh.go:110`) |
| `Connects` | `PasswordIsName = {}` | the username is sent for the password (`mountpoint_controller.go:168`) |
| `KillsOwnSession` | `Ids = {2, 49}`, `MaxEdits = 1`, `MaxRefusals = 1` | `kill-session` for session 49 names session 1 (`mountpoint_controller.go:149`) |

## 4. What is proved

### The operator

For all sets of MountPoints, operations, sessions and datastores, all
dependencies among the operations and all bounds:

* `TypeCorrect`: `Spec => []TypeOK`
* `SessionsAreFinalized`: `Spec => []SessionHasFinalizer`
* `StatusIsTruthful`: `Spec => []StatusTruthful`
* `DependencyIsHonoured`: `Spec => []DependencyHonoured`
* `ImplementsWorkflow`: `Spec => SequencesOperations`
* `NothingIsForgotten`: `Spec => []NoLostWakeup`
* `ImplementsSessions`: `Spec => ImplementsMountPointSession`
* `FlowIsUnderLock`: `Spec => []SequenceUnderLock`, if `Undisturbed` (no kind of
  fault, no change to a resource that exists) and `UnlockedLast`

Assumptions: `ServerAssumption`, `ControlPlaneAssumption`, `CommonAssumption`
(disjoint sets, every resource has a kind, a MountPoint and a datastore, only
EditConfig, Commit and Unlock have dependencies, bounds are naturals). TLC
evaluates them in every run.

The invariant (`InductiveInvariant.tla`) has four parts.

1. `Inv1`: types; a worker is at a step of its own kind with a resource of its
   own kind (`TaskShape`); copies show statuses of their kind (`StatusShape`);
   a cache without undelivered events is right about phase and finalizer, and
   a copy that would be accepted is right about the phase (`CacheCurrent`).
   Inductive by itself.
2. `Inv2`: a cached MountPoint that is live and has the finalizer is right
   about the finalizer, however old it is, because only this controller
   removes it and does so after it saw the deletion (`FinalizerKept`). That is
   why a stale read before the dial does no harm. `SessionHasFinalizer`
   follows with what the worker knows at each step.
3. `Inv3`: every copy of a status, cached or in a worker's hands, is backed by
   an answer (`StatusBacked`); a success that can be read was reported, and a
   worker past its dependency check has read one (`DependencyReported`); a
   worker that ends without error has a status (`StatusDecided`). Gives
   `StatusTruthful`, `DependencyHonoured` and the step simulation of
   `Workflow`, with `sent`, `accepted \cup rejected`, `reported` and the
   stored statuses as the refinement mapping.
4. `NoLostWakeup`, which needs the others: a worker may drop a resource
   because the cache says there is nothing to do (then the cache is right or
   an event is under way, `CacheCurrent`), or because its write was accepted
   without error (then the operation has a status, or the MountPoint a
   session).

The proofs fold the seven controllers into the steps they share
(`OperationSteps`), and go action by action.

`ImplementsSessions` needs, besides `Inv1`, that no session is the entry of two
MountPoints, and that a cleanup ends with the session that is still the entry
of its MountPoint (`SessionsApart`): only then is a step for one MountPoint a
stutter for the others.

`FlowIsUnderLock` is about what the README of the repository calls a sequence of
operations. Its hypotheses are needed: with a crash, or with an Unlock that does
not wait for the EditConfig, the property is false. `UnlockedLast` says that
whatever unlocks a datastore depends, directly or through others, on every
EditConfig that relies on a Lock of it; it rules out an EditConfig that unlocks
by itself, because a refused status write repeats it without the lock. The
instance of `flow` meets the hypotheses. The invariant is `Calm`: a resource is
announced, queued or being reconciled, and never two of these (`OneToken`); so a
MountPoint with a session is dialled no more and its session stays
(`SessionsStay`), a worker that sends has that session (`AtWork`), and nothing
panics; an operation whose success is stored is never reconciled again
(`DoneIsDone`). Then the lock stays from the success of the Lock to the stored
success of the EditConfig (`LockHeld`): a second `lock` is refused, and whoever
sends an `unlock` has seen its dependency reported. The set of the reported
operations is closed under dependencies, so it has the EditConfig.

### Subscriptions

For any number of resources, sessions, ids, faults and changes
(`SubscriptionServerAssumption` and `SubscriptionsAssumption`):

* `SubscriptionsTypeCorrect`: `Spec => []SubscriptionsTypeOK`
* `IdsHaveFinalizers`: `Spec => []SubscribedHasFinalizer`
* `OneStream`: `Spec => []OneStreamPerSession`
* `NoStreamIsUnhandled`: `Spec => []StreamsAreHandled`
* `AcknowledgedAreHeard`: `Spec => []AcknowledgedIsHeard`, if `~ReuseIds`
* `OnlyGivenAreDeleted`: `Spec => DeletesOnlyGiven`

`ApiInv` is the counterpart of `Inv1`: a copy without undelivered events is
right, a copy that would be accepted is right about phase, finalizer and id, and
a copy with an id has the finalizer (`Copies`). `StreamsInv` says what the flag
of a session object is worth: while a `create-subscription` is under way the
flag is off and no stream was granted, and the handler is registered; one
worker sends it, so there is no second.

`OnlyGivenAreDeleted` needs no assumption on the ids of the server. `OwnIds`: an
id that a resource shows, in the API server, in the cache or in a worker's hands,
was given to that resource; no step brings in the id of another. `NotReborn`: a
worker in a cleanup has no copy from an earlier resource of the same name as one
that is live with an id. So the resource whose cleanup deletes a subscription is
one to which its id was given, and does not stay with it.

`AcknowledgedAreHeard` needs `IdsInv` besides: a subscription is known by its id to
its own resource only (`IdsOwned`), and an id is stored after its callback is
registered (`StoredIsHeard`). This is where ids that are given twice matter: an id
that a resource still shows can then be given to another one after the session has
ended, and the cleanup of the first removes the subscription and the callback of
the other. That no cleanup does so (`DeletesOnlyOwn`) is false with `ReuseIds`
(section 3). RFC 8639 leaves the reuse of ids to the server.

### The dial

* `NothingIsLeft`: `Spec => []NoSessionLeft`, for any number of MountPoints,
  session ids, edits, changes of servers and refused requests

The invariant is `ConnectionInv`: an open session is the entry in `Sessions`, in
the hands of the worker that has just opened it, or one that was replaced
(`SessionsAreKnown`); without finalizer there is neither session nor dial
(`FinalizerFirst`); a cleanup is for a MountPoint that is being deleted, and when
it is done there is no entry and never will be (`CleanUpOrder`). The sessions of a
process that has died are not in `open` but in `orphans`: no cleanup knows of them,
and they end when the server notices.

### The framing

* `BufferIsEnough`: `Spec => []ScannerFits`, for all payloads, malformed
  messages, packets, reads and numbers of messages on their way
* `ReceivedIntact`: `Spec => []MessagesIntact`, for any number of messages on their
  way, all payloads of up to 2^31 - 1 bytes in one or two chunks, malformed messages,
  every division into packets, reads of any size, and both framings; assuming
  `SeparatorsEnd`

The invariant of the first is `TransportInv`: everything that is read is a
sequence of bytes (`BytesOK`, over `Letters`, the bytes that mean nothing to the
framing, and those that do), and `ScanOK`: when `SplitChunked` asks for more it
has gone past all but ten bytes of what it was given, so that the buffer of 16 has
room.

The second is about what comes out while each separator was found at the end of a
read: `MessagesIntact == clean => intact`. What `clean` excludes is what the code
does not handle: `WaitForFunc` drops what follows the separator in the same read,
and does not find a separator that is divided over three reads. From then on
messages are lost or run together (`EveryMessageReceived`). A separator over two
reads, or messages that are divided anywhere else, are not excluded.
`SeparatorsEnd` is what the code relies on and does not check: no frame has the
separator but at its end (a text with a line `##` does, `HashLine` of section 3).
`MCTransport` assumes that the messages of the runs satisfy it and that `HashLine`
does not. The bound on the payloads is that of `ParseUint` with 31 bits.

The invariant is `IntactInv`: as long as `clean` holds, what was received was
intact, and Receive is getting messages or taking the chunks of one apart
(`InStep`). Both speak of a stream `s`, the bytes that the server has sent since the
last message was found. `Framed(s, e)`: the pending messages are the frames of `s`,
one after the other, and end at the positions `e`; `Flowing(s, p)`: `out`, `window`,
`arrived` and `transit` are the consecutive parts of `s` from `p` on. A separator
found in `window` and the new bytes is therefore the end of the first frame
(`FoundAt`, `FoundIn`, `FoundBefore`), what is before it is the first message,
and, since nothing followed it in the read, what is left of `s` is the rest of
the frames (`Delivered`, `ReadFlows`). `Decoding(m)`: what the scanner has got, and the
data among the bytes that are ahead of it, are `m`; `Ahead` says what these bytes
are, by the state of `SplitChunked`: chunks, or the digits and the line feed of a
size and its data, or data. Each state goes on to the next with the header or the
data that are ahead (`StartAhead`, `SizeAhead`, `DataAhead`), sees enough bytes for it
or all there are, and at the end nothing is ahead.

That the size read is the size written, for all sizes of one to ten digits, is
`DigitsFacts`. `Number` is a recursive function over the digits. Induction is not
available for it, and not needed with at most ten digits: each value of the
function follows from the one before, and the digits of `n` add up to `n` in the
powers of ten.

### The client

For any number of calls, notification ids and messages (`ClientAssumption`: the
two kinds of ids are disjoint, are not the names of the receiving goroutine and
of a torn packet, and the bound is a natural number), and with a server that
stops reading at any time:

* `ClientTypeCorrect`: `Spec => []ClientTypeOK`
* `ListenerIsNeverBlocked`: `Spec => []ListenerNeverBlocks`
* `ClientImplementsRpcChannel`: `Spec => ImplementsRpcChannel`

The invariant is `ClientInv`. `OnlyMadeCalls`: whatever is buffered, requested,
executed or answered belongs to a call that was made, also when one packet has
overwritten another, and a reply is to an executed request; this is what the
refinement needs for `Execute` and `Answer`. `ListenerHasMessage`: from the
lookup of a callback to its removal the receiving goroutine has a message, and
the callback of a reply stays in the table until then, because nobody else
removes it. `OneReply`: a call that has its reply has its callback no more, but
for the moment between callback and removal; so the channel, which holds one
reply, has room whenever the callback is called, and `ListenerNeverBlocks`
follows.

### Only model-checked

The liveness properties (fairness is out of the prover's reach here) and the
disagreements.

## 5. What is left out, and the plan

Not modelled: flags, metrics and health checks of `main.go`; generated deepcopy
code; the Kafka producer; payloads and their XML beyond well-formed or not; the
cryptography of SSH; time. `AsyncRPC`, `WaitForMessages`, `Writeln`,
`WaitForString`, `WaitForRegexp` and the helpers for key files have no caller in
the operator. Torn reads of the unsynchronised maps that the Go runtime does
not detect are not modelled. Several MountPoints are in `Connection` and in the
proofs; the runs of `NetconfOperator` have one.

What is left: that `RpcChannel` and `MountPointSession` are all that
`OperationControllers` and `Subscriptions` use of a session, which is by
construction of the modules now.
