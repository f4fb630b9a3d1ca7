--------------------------- MODULE NetconfClient ---------------------------
(***************************************************************************)
(* go-netconf-client: one Session object.  Workers of several controllers  *)
(* call SyncRPC on it and register callbacks for notifications; the        *)
(* goroutine that listen starts receives what the server sends and hands   *)
(* it to the callbacks.  Nothing is locked: the table of callbacks is a Go *)
(* map, and the SSH channel keeps one packet buffer for all its writers.   *)
(* An access to either has a beginning and an end, and what overlaps is a  *)
(* race.  Of a map the Go runtime notices most races and ends the process. *)
(***************************************************************************)
EXTENDS Naturals, Sequences

CONSTANTS
    Calls,     \* the calls of SyncRPC, each with a message id of its own
    Notes,     \* the ids under which notifications are dispatched
    MaxNotes   \* bound: notifications the server sends

VARIABLES
    call,      \* where each call is
    note,      \* whether a callback for these notifications is registered
    table,     \* Dispatcher.callbacks: the ids that have one
    reply,     \* the calls whose channel (of capacity one) holds a reply
    listener,  \* the receiving goroutine: where it is, and its message
    isClosed,  \* Session.IsClosed
    eof,       \* the transport has come to its end
    blocked,   \* what keeps writers waiting: the channel's window, the connection
    alive,     \* the process runs
    buffer,    \* the SSH channel's packet buffer: whose request it holds
    requests,  \* server: requests received and not yet executed
    executed,  \* server: the calls it has executed
    repeated,  \* server: the calls it has executed more than once
    wire,      \* messages on their way from the server
    notes      \* notifications sent so far

ASSUME ClientAssumption ==
    /\ Calls \cap Notes = {}
    /\ "torn" \notin Calls
    /\ "listener" \notin Calls \cup Notes
    /\ MaxNotes \in Nat

callVars   == <<call, reply>>
serverVars == <<blocked, requests, executed, repeated, wire, notes>>
vars == <<call, note, table, reply, listener, isClosed, eof, alive,
          blocked, buffer, requests, executed, repeated, wire, notes>>

Messages == [kind : {"rpc-reply"}, id : Calls] \cup [kind : {"notification"}, id : Notes]
None     == [kind |-> "none"]
Torn     == "torn"  \* no whole request

\* Every variable has its type.
ClientTypeOK ==
    /\ call \in [Calls -> {"ready", "registering", "reserving", "sending", "writing",
                           "waiting", "answered", "timeout", "unsent"}]
    /\ note \in [Notes -> {"none", "registering", "registered", "removing", "removed"}]
    /\ table \subseteq Calls \cup Notes
    /\ reply \subseteq Calls
    /\ listener \in [pc : {"receive", "lookup", "callback", "remove", "exited"},
                     msg : Messages \cup {None}]
    /\ isClosed \in BOOLEAN
    /\ eof \in BOOLEAN
    /\ blocked \subseteq {"window", "connection"}
    /\ alive \in BOOLEAN
    /\ buffer \in Calls \cup {Torn}
    /\ requests \in Seq(Calls)
    /\ executed \subseteq Calls
    /\ repeated \subseteq Calls
    /\ wire \in Seq(Messages)
    /\ notes \in 0 .. MaxNotes

Init ==
    /\ call = [c \in Calls |-> "ready"]
    /\ note = [n \in Notes |-> "none"]
    /\ table = {}
    /\ reply = {}
    /\ listener = [pc |-> "receive", msg |-> None]
    /\ isClosed = FALSE
    /\ eof = FALSE
    /\ blocked = {}
    /\ alive = TRUE
    /\ buffer = Torn
    /\ requests = <<>>
    /\ executed = {}
    /\ repeated = {}
    /\ wire = <<>>
    /\ notes = 0

-----------------------------------------------------------------------------
(* The table of callbacks *)

\* Goroutines in the middle of a write to the table: those in Register or
\* Remove, and the receiving goroutine when it removes a callback.
Writers == {c \in Calls : call[c] = "registering"}
             \cup {n \in Notes : note[n] \in {"registering", "removing"}}
             \cup (IF listener.pc = "remove" THEN {"listener"} ELSE {})
Readers == IF listener.pc = "lookup" THEN {"listener"} ELSE {}

\* The goroutine a ends a write (a read) while another one writes, or reads.
RacesWrite(a) == (Writers \cup Readers) \ {a} # {}
RacesRead(a)  == Writers \ {a} # {}

\* fatal error: concurrent map writes (map read and map write).
Fatal ==
    /\ alive' = FALSE
    /\ UNCHANGED <<buffer, call, note, table, reply, listener, isClosed, eof, serverVars>>

-----------------------------------------------------------------------------
(* SyncRPC *)

\* The call starts and is in Listener.Register.
RegisterCall(c) ==
    /\ call[c] = "ready"
    /\ call' = [call EXCEPT ![c] = "registering"]
    /\ UNCHANGED <<buffer, note, table, reply, listener, isClosed, eof, alive, serverVars>>

\* Register returns; the call is in Transport.Send, in WriteExtended of the
\* channel, and waits for room in its window.
SendCall(c) ==
    /\ call[c] = "registering"
    /\ \/ RacesWrite(c) /\ Fatal
       \/ /\ call' = [call EXCEPT ![c] = "reserving"]
          /\ table' = table \cup {c}
          /\ UNCHANGED <<buffer, note, reply, listener, isClosed, eof, alive, serverVars>>

\* remoteWin.reserve returns: the server has left room for the request, or the
\* transport has come to its end.  No timer runs yet.
Reserved(c) ==
    /\ call[c] = "reserving"
    /\ \/ eof /\ call' = [call EXCEPT ![c] = "unsent"]
       \/ /\ ~eof /\ "window" \notin blocked
          /\ call' = [call EXCEPT ![c] = "sending"]
    /\ UNCHANGED <<buffer, note, table, reply, listener, isClosed, eof, alive, serverVars>>

\* Mutant: Send returns before it has written anything, and the call with it.
Sent_Nothing(c) ==
    /\ call[c] = "writing"
    /\ call' = [call EXCEPT ![c] = "nothing"]
    /\ UNCHANGED <<note, table, reply, listener, isClosed, eof, alive, buffer, serverVars>>

Copying(c) == \E d \in Calls \ {c} : call[d] = "sending"

\* WriteExtended has copied the request into its packet, which is the buffer
\* of the channel unless that was too short.
Copied(c) ==
    /\ call[c] = "sending"
    /\ call' = [call EXCEPT ![c] = "writing"]
    /\ buffer' \in {c} \cup (IF Copying(c) THEN {Torn} ELSE {})
    /\ UNCHANGED <<note, table, reply, listener, isClosed, eof, alive, serverVars>>

\* Send returns with an error at the end of the transport; the callback stays.
\* Otherwise the call waits, and its packet is on its way to the server, with
\* whatever is in the buffer by now.  A mixture of two requests is lost.  The
\* write waits while the connection takes no bytes.
Sent(c) ==
    /\ call[c] = "writing"
    /\ \/ /\ eof
          /\ call' = [call EXCEPT ![c] = "unsent"]
          /\ UNCHANGED requests
       \/ /\ ~eof /\ "connection" \notin blocked
          /\ call' = [call EXCEPT ![c] = "waiting"]
          /\ \/ \E d \in {c, buffer} \ {Torn} : requests' = Append(requests, d)
             \/ (buffer = Torn \/ Copying(c)) /\ UNCHANGED requests
    /\ UNCHANGED <<note, table, reply, listener, isClosed, eof, alive, buffer,
                   blocked, executed, repeated, wire, notes>>

\* The select of SyncRPC: a reply is in the channel, or the time is over.  When
\* both are true either may be taken.
Answered(c) ==
    /\ call[c] = "waiting"
    /\ c \in reply
    /\ call' = [call EXCEPT ![c] = "answered"]
    /\ reply' = reply \ {c}
    /\ UNCHANGED <<buffer, note, table, listener, isClosed, eof, alive, serverVars>>

\* Mutant: the timer only starts with the reply.
TimedOut_Never(c) ==
    /\ call[c] = "waiting"
    /\ c \in reply
    /\ call' = [call EXCEPT ![c] = "timeout"]
    /\ UNCHANGED <<buffer, note, table, reply, listener, isClosed, eof, alive, serverVars>>

TimedOut(c) ==
    /\ call[c] = "waiting"
    /\ call' = [call EXCEPT ![c] = "timeout"]
    /\ UNCHANGED <<buffer, note, table, reply, listener, isClosed, eof, alive, serverVars>>

-----------------------------------------------------------------------------
(* Callbacks for notifications: Register and Remove, called by the
   subscription controllers *)

\* A controller registers a callback once, and may later remove it.
RegisterNote(n) ==
    /\ note[n] \in {"none", "registered"}
    /\ note' = [note EXCEPT ![n] = IF @ = "none" THEN "registering" ELSE "removing"]
    /\ UNCHANGED <<buffer, call, table, reply, listener, isClosed, eof, alive, serverVars>>

NoteRegistered(n) ==
    /\ note[n] \in {"registering", "removing"}
    /\ \/ RacesWrite(n) /\ Fatal
       \/ /\ note' = [note EXCEPT ![n] = IF @ = "registering" THEN "registered" ELSE "removed"]
          /\ table' = IF note[n] = "registering" THEN table \cup {n} ELSE table \ {n}
          /\ UNCHANGED <<buffer, call, reply, listener, isClosed, eof, alive, serverVars>>

-----------------------------------------------------------------------------
(* The receiving goroutine: listen and Dispatch *)

\* Mutant: an error of Receive starts over without a look at IsClosed.
Loop_NoCheck == [pc |-> "receive", msg |-> None]

\* The end of a turn of the loop.
Loop == [pc |-> IF isClosed THEN "exited" ELSE "receive", msg |-> None]

Listening(pc) == listener.pc = pc

\* What has arrived is read before the error at the end of the transport.
Receive ==
    /\ Listening("receive")
    /\ \/ /\ eof
          /\ wire = <<>>
          /\ listener' = Loop
          /\ UNCHANGED wire
       \/ /\ wire # <<>>
          /\ listener' = [pc |-> "lookup", msg |-> Head(wire)]
          /\ wire' = Tail(wire)
    /\ UNCHANGED <<buffer, call, note, table, reply, isClosed, eof, alive, blocked, requests,
                   executed, repeated, notes>>

\* Dispatch reads the callback; a message without one is dropped.
Lookup ==
    /\ Listening("lookup")
    /\ \/ RacesRead("listener") /\ Fatal
       \/ /\ listener' = IF listener.msg.id \in table
                         THEN [listener EXCEPT !.pc = "callback"] ELSE Loop
          /\ UNCHANGED <<buffer, call, note, table, reply, isClosed, eof, alive, serverVars>>

\* Mutant: a reply goes to a call that waits, whatever its message id.
Callback_AnyCall ==
    /\ Listening("callback")
    /\ \/ /\ listener.msg.kind = "rpc-reply"
          /\ \E c \in {d \in Calls : call[d] = "waiting"} \ reply : reply' = reply \cup {c}
          /\ listener' = [listener EXCEPT !.pc = "remove"]
       \/ /\ listener.msg.kind = "notification"
          /\ listener' = Loop
          /\ UNCHANGED reply
    /\ UNCHANGED <<buffer, call, note, table, isClosed, eof, alive, serverVars>>

\* The callback of a call puts the reply in the channel, and waits while that
\* is full; then the callback is removed.  The callback of a notification
\* stays.
Callback ==
    /\ Listening("callback")
    /\ \/ /\ listener.msg.kind = "rpc-reply"
          /\ listener.msg.id \notin reply
          /\ reply' = reply \cup {listener.msg.id}
          /\ listener' = [listener EXCEPT !.pc = "remove"]
       \/ /\ listener.msg.kind = "notification"
          /\ listener' = Loop
          /\ UNCHANGED reply
    /\ UNCHANGED <<buffer, call, note, table, isClosed, eof, alive, serverVars>>

\* Mutant: the callback of a reply stays registered.
Removed_Kept ==
    /\ Listening("remove")
    /\ \/ RacesWrite("listener") /\ Fatal
       \/ /\ listener' = Loop
          /\ UNCHANGED <<buffer, table, call, note, reply, isClosed, eof, alive, serverVars>>

Removed ==
    /\ Listening("remove")
    /\ \/ RacesWrite("listener") /\ Fatal
       \/ /\ listener' = Loop
          /\ table' = table \ {listener.msg.id}
          /\ UNCHANGED <<buffer, call, note, reply, isClosed, eof, alive, serverVars>>

-----------------------------------------------------------------------------
(* The server, and the end of the session *)

\* The server executes the next request and replies.
Serve ==
    /\ requests # <<>>
    /\ LET c == Head(requests) IN
       /\ executed' = executed \cup {c}
       /\ repeated' = IF c \in executed THEN repeated \cup {c} ELSE repeated
       /\ wire' = IF eof THEN wire ELSE Append(wire, [kind |-> "rpc-reply", id |-> c])
    /\ requests' = Tail(requests)
    /\ UNCHANGED <<buffer, call, note, table, reply, listener, isClosed, eof, alive, blocked, notes>>

Notify(n) ==
    /\ ~eof
    /\ notes < MaxNotes
    /\ notes' = notes + 1
    /\ wire' = Append(wire, [kind |-> "notification", id |-> n])
    /\ UNCHANGED <<buffer, call, note, table, reply, listener, isClosed, eof, alive, blocked, requests,
                   executed, repeated>>

\* The server stops reading, or reads on: the window of the channel is used up,
\* and then what the connection can hold.
Block(b) ==
    /\ ~eof
    /\ blocked' = IF b \in blocked THEN blocked \ {b} ELSE blocked \cup {b}
    /\ UNCHANGED <<buffer, call, note, table, reply, listener, isClosed, eof, alive, requests,
                   executed, repeated, wire, notes>>

\* What has not arrived yet when the connection ends is lost, both ways.
EndTransport ==
    /\ eof' = TRUE
    /\ \E k \in 0 .. Len(wire) : wire' = SubSeq(wire, 1, k)
    /\ \E k \in 0 .. Len(requests) : requests' = SubSeq(requests, 1, k)

\* The connection breaks: every Read and Write fails from now on.
Break ==
    /\ ~eof
    /\ EndTransport
    /\ UNCHANGED <<buffer, call, note, table, reply, listener, isClosed, alive, blocked,
                   executed, repeated, notes>>

\* Session.Close, by the cleanup of the MountPoint: IsClosed is set, ...
Close ==
    /\ ~isClosed
    /\ isClosed' = TRUE
    /\ UNCHANGED <<buffer, call, note, table, reply, listener, eof, alive, serverVars>>

\* ... and the transport closed, after the channel's last packet is written.
Closed ==
    /\ isClosed
    /\ ~eof
    /\ "connection" \notin blocked
    /\ EndTransport
    /\ UNCHANGED <<buffer, call, note, table, reply, listener, isClosed, alive, blocked,
                   executed, repeated, notes>>

CallStep(c) ==
    \/ SendCall(c)
    \/ Reserved(c)
    \/ Copied(c)
    \/ Sent(c)
    \/ Answered(c)
    \/ TimedOut(c)

ListenStep ==
    \/ Receive
    \/ Lookup
    \/ Callback
    \/ Removed

Next ==
    /\ alive
    /\ \/ \E c \in Calls : RegisterCall(c) \/ CallStep(c)
       \/ \E n \in Notes : RegisterNote(n) \/ NoteRegistered(n) \/ Notify(n)
       \/ ListenStep
       \/ Serve
       \/ \E b \in {"window", "connection"} : Block(b)
       \/ Break
       \/ Close
       \/ Closed

Spec == Init /\ [][Next]_vars

\* A goroutine that can go on does: a call that has registered or has been
\* sent, one whose time is over, and the receiving goroutine.  The server need
\* neither read nor answer.
Fairness ==
    /\ \A c \in Calls : WF_vars(alive /\ CallStep(c))
    /\ \A n \in Notes : WF_vars(alive /\ NoteRegistered(n))
    /\ WF_vars(alive /\ ListenStep)

FairSpec == Spec /\ Fairness

-----------------------------------------------------------------------------

\* SyncRPC implements RpcChannel: matching replies to callers by message id in
\* a table that several goroutines change, with late and repeated replies,
\* never gives a caller an answer to a request of its own that the server has
\* not executed, nor two outcomes.
Outcome(c) ==
    CASE call[c] = "ready"                -> "none"
      [] call[c] = "answered"             -> "answered"
      [] call[c] \in {"timeout", "unsent"} -> "failed"
      [] OTHER                            -> "pending"

Channel == INSTANCE RpcChannel WITH outcome <- [c \in Calls |-> Outcome(c)]
ImplementsRpcChannel == Channel!ChannelSpec

\* Dispatch calls the callback before it removes it, and the channel of a call
\* holds one reply: the receiving goroutine, on which every other call of the
\* session depends, never waits for a caller that has given up, however late
\* or often the server answers.
ListenerNeverBlocks ==
    Listening("callback") /\ listener.msg.kind = "rpc-reply" =>
        listener.msg.id \notin reply

\* The call waits for the server to read, before its timer has started.
Blocked(c) ==
    /\ ~eof
    /\ \/ call[c] = "reserving" /\ "window" \in blocked
       \/ call[c] = "writing" /\ "connection" \in blocked

\* A call comes to its end if the process lives, whether the server answers or
\* not and whatever the receiving goroutine does: but for a server that keeps
\* it from sending its request, which no timer bounds.
CallReturns ==
    \A c \in Calls :
        <>[]~Blocked(c) =>
            (call[c] = "registering" ~>
                (call[c] \in {"answered", "timeout", "unsent"} \/ ~alive))

\* The receiving goroutine ends once Session.Close has closed the transport,
\* also when it waits in Receive by then.
ListenerStops == isClosed /\ eof ~> (listener.pc = "exited" \/ ~alive)

-----------------------------------------------------------------------------
(* Why: the invariant that the proofs need *)

\* Calls that have their callback in the table, or had it.
Registered(c) == call[c] \notin {"ready", "registering"}

\* Calls whose request may be in the buffer or on its way.
Written(c) == Registered(c) /\ call[c] \notin {"reserving", "sending"}

\* What is buffered, requested, executed or answered is of calls that were
\* made, and replies are to requests that were executed.
OnlyMadeCalls ==
    /\ buffer # Torn => Written(buffer)
    /\ \A i \in 1 .. Len(requests) : Written(requests[i])
    /\ \A i \in 1 .. Len(wire) :
          wire[i].kind = "rpc-reply" => wire[i].id \in executed
    /\ \A c \in executed : Registered(c)
    /\ \A c \in table \cap Calls : Registered(c)
    /\ reply \subseteq executed

\* The receiving goroutine works on a message; the callback of a reply is in
\* the table until it has removed it, and nobody else removes that.
ListenerHasMessage ==
    /\ listener.pc \in {"lookup", "callback", "remove"} => listener.msg \in Messages
    /\ listener.pc \in {"lookup", "callback", "remove"} /\ listener.msg.kind = "rpc-reply" =>
          listener.msg.id \in executed
    /\ listener.pc = "remove" => listener.msg.kind = "rpc-reply"
    /\ listener.pc = "callback" /\ listener.msg.kind = "rpc-reply" =>
          listener.msg.id \in table

\* A call that has its reply has its callback no more, but for the moment
\* between the two: there is no second reply.
OneReply ==
    \A c \in reply \cap table : listener.pc = "remove" /\ listener.msg.id = c

ClientInv ==
    /\ ClientTypeOK
    /\ OnlyMadeCalls
    /\ ListenerHasMessage
    /\ OneReply

-----------------------------------------------------------------------------
(* What comments say, and the code does not do *)

\* operations.go: "SyncRPC is used to execute an RPC method and receive the
\* response synchronously".  A call executes its RPC method once.
ExecutedOnce == repeated = {}

\* The same comment: a call comes to its end, within its timeout.
SyncRpcReturns ==
    \A c \in Calls :
        call[c] = "registering" ~> call[c] \in {"answered", "timeout", "unsent"}
=============================================================================
