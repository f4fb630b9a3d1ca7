------------------------ MODULE NetconfClientProofs ------------------------
(***************************************************************************)
(* Proofs about NetconfClient: the type invariant, that the receiving      *)
(* goroutine never blocks, and that SyncRPC implements RpcChannel, for any *)
(* number of calls and of notifications.  The argument is ClientInv.       *)
(***************************************************************************)
EXTENDS NetconfClient, TLAPS

\* ClientInv holds in a new session.
LEMMA ClientInvInit ==
    Init => ClientInv
<1> USE ClientAssumption
<1>1. Init => ClientTypeOK
  <2> SUFFICES ASSUME Init
               PROVE  ClientTypeOK
    OBVIOUS
  <2>1. /\ call \in [Calls -> {"ready"}]
        /\ note \in [Notes -> {"none"}]
        /\ listener \in [pc : {"receive"}, msg : {None}]
    BY DEF Init
  <2>2. requests \in Seq(Calls) /\ wire \in Seq(Messages)
    BY DEF Init
  <2>3. notes \in 0 .. MaxNotes
    BY DEF Init
  <2> QED
    BY <2>1, <2>2, <2>3 DEF Init, ClientTypeOK
<1>2. Init => OnlyMadeCalls
  BY DEF Init, OnlyMadeCalls
<1>3. Init => ListenerHasMessage /\ OneReply
  BY DEF Init, ListenerHasMessage, OneReply
<1> QED
  BY <1>1, <1>2, <1>3 DEF ClientInv

\* The loop of listen goes on or ends, without a message.
LEMMA LoopType ==
    ASSUME isClosed \in BOOLEAN
    PROVE  /\ Loop \in [pc : {"receive", "exited"}, msg : {None}]
           /\ Loop.pc \in {"receive", "exited"}
  BY DEF Loop

\* A race ends the process and changes nothing else.
LEMMA FatalInv ==
    ASSUME ClientInv, Fatal
    PROVE  ClientInv'
  BY DEF ClientInv, Fatal, serverVars, ClientTypeOK, OnlyMadeCalls,
         ListenerHasMessage, OneReply, Registered, Written

\* A step of a caller of SyncRPC preserves ClientInv.
LEMMA CallInv ==
    ASSUME NEW c \in Calls, ClientInv, RegisterCall(c) \/ CallStep(c)
    PROVE  ClientInv'
<1> USE ClientAssumption DEF ClientInv, serverVars
<1>1. CASE RegisterCall(c)
  <2>1. ClientTypeOK'
    BY <1>1 DEF RegisterCall, ClientTypeOK
  <2>2. OnlyMadeCalls'
    BY <1>1 DEF RegisterCall, ClientTypeOK, OnlyMadeCalls, Registered, Written
  <2>3. ListenerHasMessage' /\ OneReply'
    BY <1>1 DEF RegisterCall, ListenerHasMessage, OneReply
  <2> QED
    BY <2>1, <2>2, <2>3
<1>2. CASE SendCall(c)
  <2> SUFFICES ASSUME ~Fatal
               PROVE  ClientInv'
    BY FatalInv
  <2>1. /\ call[c] = "registering"
        /\ call' = [call EXCEPT ![c] = "reserving"]
        /\ table' = table \cup {c}
        /\ UNCHANGED <<buffer, note, reply, listener, isClosed, eof, alive, serverVars>>
    BY <1>2 DEF SendCall
  <2>2. ClientTypeOK'
    BY <2>1 DEF ClientTypeOK
  <2>3. OnlyMadeCalls'
    BY <2>1 DEF ClientTypeOK, OnlyMadeCalls, Registered, Written
  <2>4. ListenerHasMessage'
    BY <2>1 DEF ListenerHasMessage
  <2>5. c \notin reply
    BY <2>1 DEF OnlyMadeCalls, Registered
  <2>6. OneReply'
    BY <2>1, <2>5 DEF OneReply
  <2> QED
    BY <2>2, <2>3, <2>4, <2>6
<1>6. CASE Reserved(c)
  <2>1. ClientTypeOK'
    BY <1>6 DEF Reserved, ClientTypeOK
  <2>2. OnlyMadeCalls'
    BY <1>6 DEF Reserved, ClientTypeOK, OnlyMadeCalls, Registered, Written, Torn
  <2>3. ListenerHasMessage' /\ OneReply'
    BY <1>6 DEF Reserved, ListenerHasMessage, OneReply
  <2> QED
    BY <2>1, <2>2, <2>3
<1>3. CASE Copied(c)
  <2>1. ClientTypeOK'
    BY <1>3 DEF Copied, ClientTypeOK
  <2>2. OnlyMadeCalls'
    BY <1>3 DEF Copied, ClientTypeOK, OnlyMadeCalls, Registered, Written, Torn
  <2>3. ListenerHasMessage' /\ OneReply'
    BY <1>3 DEF Copied, ListenerHasMessage, OneReply
  <2> QED
    BY <2>1, <2>2, <2>3
<1>4. CASE Sent(c)
  <2>1. /\ call[c] = "writing"
        /\ call' \in {[call EXCEPT ![c] = "unsent"], [call EXCEPT ![c] = "waiting"]}
        /\ UNCHANGED <<note, table, reply, listener, isClosed, eof, alive, buffer,
                       blocked, executed, repeated, wire, notes>>
    BY <1>4 DEF Sent
  <2>2. \/ requests' = requests
        \/ \E d \in Calls : requests' = Append(requests, d) /\ Written(d)
    BY <1>4 DEF Sent, OnlyMadeCalls, ClientTypeOK, Written, Registered
  <2>3. \A d \in Calls : /\ Written(d) => Written(d)'
                         /\ Registered(d) => Registered(d)'
    BY <2>1 DEF ClientTypeOK, Written, Registered
  <2>4. /\ requests' \in Seq(Calls)
        /\ (\A i \in 1 .. Len(requests) : Written(requests[i]))'
    <3>0. requests \in Seq(Calls) /\ \A i \in 1 .. Len(requests) : Written(requests[i])
      BY DEF ClientTypeOK, OnlyMadeCalls
    <3>1. CASE requests' = requests
      <4>1. \A i \in 1 .. Len(requests) : requests[i] \in Calls
        BY <3>0
      <4> QED
        BY <3>0, <3>1, <4>1, <2>3 DEF Written, Registered
    <3>2. ASSUME NEW d \in Calls, requests' = Append(requests, d), Written(d)
          PROVE  /\ requests' \in Seq(Calls)
                 /\ (\A i \in 1 .. Len(requests) : Written(requests[i]))'
      <4>1. requests' \in Seq(Calls) /\ Len(requests') = Len(requests) + 1
        BY <3>0, <3>2
      <4>2. \A i \in 1 .. Len(requests) : requests'[i] = requests[i]
        BY <3>0, <3>2
      <4>3. requests'[Len(requests) + 1] = d
        BY <3>0, <3>2
      <4>4. \A i \in 1 .. Len(requests') : requests'[i] \in Calls /\ Written(requests'[i])
        BY <3>0, <3>2, <4>1, <4>2, <4>3 DEF Written, Registered
      <4> QED
        BY <4>1, <4>4, <2>3 DEF Written, Registered
    <3> QED
      BY <3>1, <3>2, <2>2
  <2>5. ClientTypeOK'
    BY <2>1, <2>4 DEF ClientTypeOK
  <2>6. buffer # Torn => buffer \in Calls
    BY DEF ClientTypeOK
  <2>7. OnlyMadeCalls'
    BY <2>1, <2>3, <2>4, <2>6 DEF OnlyMadeCalls, ClientTypeOK, Torn
  <2>8. ListenerHasMessage' /\ OneReply'
    BY <2>1 DEF ListenerHasMessage, OneReply
  <2> QED
    BY <2>5, <2>7, <2>8
<1>5. CASE Answered(c) \/ TimedOut(c)
  <2>1. /\ call[c] = "waiting"
        /\ call' \in {[call EXCEPT ![c] = "answered"], [call EXCEPT ![c] = "timeout"]}
        /\ reply' \subseteq reply
        /\ UNCHANGED <<note, table, listener, isClosed, eof, alive, buffer, serverVars>>
    BY <1>5 DEF Answered, TimedOut
  <2>2. ClientTypeOK'
    BY <2>1 DEF ClientTypeOK
  <2>3. OnlyMadeCalls'
    BY <2>1 DEF ClientTypeOK, OnlyMadeCalls, Registered, Written, Torn
  <2>4. ListenerHasMessage' /\ OneReply'
    BY <2>1 DEF ListenerHasMessage, OneReply
  <2> QED
    BY <2>2, <2>3, <2>4
<1> QED
  BY <1>1, <1>2, <1>3, <1>4, <1>5, <1>6 DEF CallStep

\* Registering and removing callbacks for notifications, and sending
\* notifications, preserves ClientInv.
LEMMA NoteInv ==
    ASSUME NEW n \in Notes, ClientInv,
           RegisterNote(n) \/ NoteRegistered(n) \/ Notify(n)
    PROVE  ClientInv'
<1> USE ClientAssumption DEF ClientInv, serverVars
<1>1. CASE RegisterNote(n)
  <2>1. ClientTypeOK'
    BY <1>1 DEF RegisterNote, ClientTypeOK
  <2> QED
    BY <1>1, <2>1 DEF RegisterNote, OnlyMadeCalls, ListenerHasMessage, OneReply,
                      Registered, Written
<1>2. CASE NoteRegistered(n)
  <2> SUFFICES ASSUME ~Fatal
               PROVE  ClientInv'
    BY FatalInv
  <2>1. /\ note[n] \in {"registering", "removing"}
        /\ note' = [note EXCEPT ![n] = IF @ = "registering" THEN "registered" ELSE "removed"]
        /\ table' = IF note[n] = "registering" THEN table \cup {n} ELSE table \ {n}
        /\ UNCHANGED <<buffer, call, reply, listener, isClosed, eof, alive, serverVars>>
    BY <1>2 DEF NoteRegistered
  <2>2. table' \cap Calls = table \cap Calls
    BY <2>1
  <2>3. ClientTypeOK'
    BY <2>1 DEF ClientTypeOK
  <2>4. OnlyMadeCalls'
    BY <2>1, <2>2 DEF OnlyMadeCalls, Registered, Written
  <2>5. ListenerHasMessage'
    BY <2>1, <2>2 DEF ListenerHasMessage, ClientTypeOK, Messages
  <2>6. OneReply'
    BY <2>1, <2>2 DEF OneReply, ClientTypeOK
  <2> QED
    BY <2>3, <2>4, <2>5, <2>6
<1>3. CASE Notify(n)
  <2>1. [kind |-> "notification", id |-> n] \in Messages
    BY DEF Messages
  <2>2. ClientTypeOK'
    BY <1>3, <2>1 DEF Notify, ClientTypeOK
  <2>3. \A i \in 1 .. Len(wire') : wire'[i].kind = "rpc-reply" => wire'[i].id \in executed
    <3>1. wire \in Seq(Messages) /\ wire' = Append(wire, [kind |-> "notification", id |-> n])
      BY <1>3 DEF Notify, ClientTypeOK
    <3>2. Len(wire') = Len(wire) + 1 /\ \A i \in 1 .. Len(wire) : wire'[i] = wire[i]
      BY <3>1, <2>1
    <3>3. wire'[Len(wire) + 1].kind = "notification"
      BY <3>1, <2>1
    <3> QED
      BY <3>1, <3>2, <3>3 DEF OnlyMadeCalls
  <2>4. OnlyMadeCalls'
    BY <1>3, <2>3 DEF Notify, OnlyMadeCalls, Registered, Written
  <2> QED
    BY <1>3, <2>2, <2>4 DEF Notify, ListenerHasMessage, OneReply
<1> QED
  BY <1>1, <1>2, <1>3

\* A step of the receiving goroutine preserves ClientInv.
LEMMA ListenInv ==
    ASSUME ClientInv, ListenStep
    PROVE  ClientInv'
<1> USE ClientAssumption DEF ClientInv, serverVars, Listening
<1>0. /\ Loop \in [pc : {"receive", "exited"}, msg : {None}]
      /\ Loop.pc \in {"receive", "exited"}
  BY LoopType DEF ClientTypeOK
<1>1. CASE Receive
  <2>1. CASE wire = <<>>
    <3>1. listener' = Loop /\ UNCHANGED <<buffer, call, note, table, reply, isClosed, eof, alive, serverVars>>
      BY <1>1, <2>1 DEF Receive
    <3>2. ClientTypeOK'
      BY <3>1, <1>0 DEF ClientTypeOK
    <3>3. OneReply'
      BY <3>1, <1>0, <1>1 DEF OneReply, Receive
    <3> QED
      BY <3>1, <3>2, <3>3, <1>0 DEF OnlyMadeCalls, Registered, Written, ListenerHasMessage
  <2>2. CASE wire # <<>>
    <3>1. /\ listener' = [pc |-> "lookup", msg |-> Head(wire)]
          /\ wire' = Tail(wire)
          /\ UNCHANGED <<buffer, call, note, table, reply, isClosed, eof, alive, blocked,
                         requests, executed, repeated, notes>>
      BY <1>1, <2>2 DEF Receive
    <3>2. Head(wire) = wire[1] /\ Head(wire) \in Messages /\ Tail(wire) \in Seq(Messages)
      BY <2>2 DEF ClientTypeOK
    <3>3. \A i \in 1 .. Len(Tail(wire)) : i + 1 \in 1 .. Len(wire) /\ Tail(wire)[i] = wire[i + 1]
      BY <2>2 DEF ClientTypeOK
    <3>4. ClientTypeOK'
      BY <3>1, <3>2 DEF ClientTypeOK
    <3>5. OnlyMadeCalls'
      BY <3>1, <3>3 DEF OnlyMadeCalls, Registered, Written
    <3>6. ListenerHasMessage'
      BY <3>1, <3>2, <2>2 DEF ListenerHasMessage, OnlyMadeCalls, ClientTypeOK
    <3>7. OneReply'
      BY <3>1, <1>1 DEF OneReply, Receive
    <3> QED
      BY <3>4, <3>5, <3>6, <3>7
  <2> QED
    BY <2>1, <2>2
<1>2. CASE Lookup
  <2> SUFFICES ASSUME ~Fatal
               PROVE  ClientInv'
    BY FatalInv
  <2>1. /\ listener.pc = "lookup"
        /\ listener' = IF listener.msg.id \in table
                       THEN [listener EXCEPT !.pc = "callback"] ELSE Loop
        /\ UNCHANGED <<buffer, call, note, table, reply, isClosed, eof, alive, serverVars>>
    BY <1>2 DEF Lookup
  <2>2. ClientTypeOK'
    BY <2>1, <1>0 DEF ClientTypeOK
  <2>3. OnlyMadeCalls'
    BY <2>1 DEF OnlyMadeCalls, Registered, Written
  <2>4. ListenerHasMessage'
    BY <2>1, <1>0 DEF ListenerHasMessage, ClientTypeOK
  <2>5. OneReply'
    BY <2>1, <1>0 DEF OneReply
  <2> QED
    BY <2>2, <2>3, <2>4, <2>5
<1>3. CASE Callback
  <2>1. CASE listener.msg.kind = "notification"
    <3>1. /\ listener.pc = "callback" /\ listener' = Loop
          /\ UNCHANGED <<buffer, call, note, table, reply, isClosed, eof, alive, serverVars>>
      BY <1>3, <2>1 DEF Callback
    <3> QED
      BY <3>1, <1>0 DEF ClientTypeOK, OnlyMadeCalls, Registered, Written, ListenerHasMessage, OneReply
  <2>2. CASE listener.msg.kind = "rpc-reply"
    <3>1. /\ listener.pc = "callback"
          /\ reply' = reply \cup {listener.msg.id}
          /\ listener' = [listener EXCEPT !.pc = "remove"]
          /\ UNCHANGED <<buffer, call, note, table, isClosed, eof, alive, serverVars>>
      BY <1>3, <2>2 DEF Callback
    <3>2. listener.msg.id \in executed
      BY <3>1, <2>2 DEF ListenerHasMessage
    <3>3. ClientTypeOK'
      BY <3>1, <3>2 DEF ClientTypeOK
    <3>4. OnlyMadeCalls'
      BY <3>1, <3>2 DEF OnlyMadeCalls, Registered, Written
    <3>5. ListenerHasMessage'
      BY <3>1, <2>2 DEF ListenerHasMessage, ClientTypeOK
    <3>6. OneReply'
      BY <3>1 DEF OneReply, ClientTypeOK
    <3> QED
      BY <3>3, <3>4, <3>5, <3>6
  <2> QED
    BY <1>3, <2>1, <2>2 DEF Callback
<1>4. CASE Removed
  <2> SUFFICES ASSUME ~Fatal
               PROVE  ClientInv'
    BY FatalInv
  <2>1. /\ listener.pc = "remove"
        /\ listener' = Loop
        /\ table' = table \ {listener.msg.id}
        /\ UNCHANGED <<buffer, call, note, reply, isClosed, eof, alive, serverVars>>
    BY <1>4 DEF Removed
  <2>2. ClientTypeOK'
    BY <2>1, <1>0 DEF ClientTypeOK
  <2>3. OnlyMadeCalls'
    BY <2>1 DEF OnlyMadeCalls, Registered, Written
  <2>4. ListenerHasMessage' /\ OneReply'
    BY <2>1, <1>0 DEF ListenerHasMessage, OneReply
  <2> QED
    BY <2>2, <2>3, <2>4
<1> QED
  BY <1>1, <1>2, <1>3, <1>4 DEF ListenStep

\* What the server does preserves ClientInv.
LEMMA ServeInv ==
    ASSUME ClientInv, Serve
    PROVE  ClientInv'
<1> USE ClientAssumption DEF ClientInv
<1> DEFINE c == Head(requests)
           m == [kind |-> "rpc-reply", id |-> c]
<1>1. c = requests[1] /\ c \in Calls /\ Tail(requests) \in Seq(Calls) /\ 1 \in 1 .. Len(requests)
  BY DEF Serve, ClientTypeOK
<1>2. m \in Messages
  BY <1>1 DEF Messages
<1>3. ClientTypeOK'
  BY <1>1, <1>2 DEF Serve, ClientTypeOK
<1>4. \A i \in 1 .. Len(Tail(requests)) : i + 1 \in 1 .. Len(requests) /\ Tail(requests)[i] = requests[i + 1]
  BY DEF Serve, ClientTypeOK
<1>5. Written(c)
  BY <1>1 DEF OnlyMadeCalls
<1>6. \A i \in 1 .. Len(wire') : wire'[i].kind = "rpc-reply" => wire'[i].id \in executed'
  <2>1. CASE eof
    BY <2>1 DEF Serve, OnlyMadeCalls
  <2>2. CASE ~eof
    BY <2>2, <1>2 DEF Serve, OnlyMadeCalls, ClientTypeOK
  <2> QED
    BY <2>1, <2>2
<1>7. OnlyMadeCalls'
  BY <1>4, <1>5, <1>6 DEF Serve, OnlyMadeCalls, Registered, Written
<1>8. ListenerHasMessage' /\ OneReply'
  BY DEF Serve, ListenerHasMessage, OneReply
<1> QED
  BY <1>3, <1>7, <1>8

\* The end of the transport preserves ClientInv.
LEMMA EndInv ==
    ASSUME ClientInv, Break \/ Closed
    PROVE  ClientInv'
<1> USE ClientAssumption DEF ClientInv
<1>1. /\ EndTransport
      /\ isClosed' \in BOOLEAN
      /\ UNCHANGED <<buffer, call, note, table, reply, listener, alive, blocked, executed,
                     repeated, notes>>
  BY DEF Break, Closed, ClientTypeOK
<1>2. PICK k \in 0 .. Len(wire) : wire' = SubSeq(wire, 1, k)
  BY <1>1 DEF EndTransport
<1>3. PICK j \in 0 .. Len(requests) : requests' = SubSeq(requests, 1, j)
  BY <1>1 DEF EndTransport
<1>4. /\ wire' \in Seq(Messages)
      /\ \A i \in 1 .. Len(wire') : i \in 1 .. Len(wire) /\ wire'[i] = wire[i]
  BY <1>2 DEF ClientTypeOK
<1>5. /\ requests' \in Seq(Calls)
      /\ \A i \in 1 .. Len(requests') : i \in 1 .. Len(requests) /\ requests'[i] = requests[i]
  BY <1>3 DEF ClientTypeOK
<1>6. ClientTypeOK'
  BY <1>1, <1>4, <1>5 DEF ClientTypeOK, EndTransport
<1>7. OnlyMadeCalls'
  BY <1>1, <1>4, <1>5 DEF OnlyMadeCalls, Registered, Written
<1>8. ListenerHasMessage' /\ OneReply'
  BY <1>1 DEF ListenerHasMessage, OneReply
<1> QED
  BY <1>6, <1>7, <1>8

\* Session.Close and a server that stops or goes on reading preserve ClientInv.
LEMMA BlockInv ==
    ASSUME ClientInv, Close \/ \E b \in {"window", "connection"} : Block(b)
    PROVE  ClientInv'
<1>1. /\ isClosed' \in BOOLEAN
      /\ blocked' \subseteq {"window", "connection"}
      /\ UNCHANGED <<buffer, call, note, table, reply, listener, eof, alive, requests, executed,
                     repeated, wire, notes>>
  BY DEF Close, Block, serverVars, ClientInv, ClientTypeOK
<1> QED
  BY <1>1 DEF ClientInv, ClientTypeOK, OnlyMadeCalls, ListenerHasMessage, OneReply,
              Registered, Written

\* ClientInv is inductive.
LEMMA ClientInvNext ==
    ASSUME ClientInv, [Next]_vars
    PROVE  ClientInv'
<1>1. CASE UNCHANGED vars
  BY <1>1 DEF vars, ClientInv, ClientTypeOK, OnlyMadeCalls, ListenerHasMessage,
              OneReply, Registered, Written
<1>2. CASE Next
  BY <1>2, CallInv, NoteInv, ListenInv, ServeInv, EndInv, BlockInv DEF Next
<1> QED
  BY <1>1, <1>2

LEMMA ClientInvariant ==
    Spec => []ClientInv
<1>1. Init => ClientInv
  BY ClientInvInit
<1>2. ClientInv /\ [Next]_vars => ClientInv'
  BY ClientInvNext
<1> QED
  BY <1>1, <1>2, PTL DEF Spec

\* The variables of NetconfClient have their types in every behaviour.
THEOREM ClientTypeCorrect ==
    Spec => []ClientTypeOK
<1>1. ClientInv => ClientTypeOK
  BY DEF ClientInv
<1> QED
  BY <1>1, ClientInvariant, PTL

\* Dispatch (events.go) never waits in the callback of a reply: the channel
\* that SyncRPC made for it is empty, for any number of calls and repeated or
\* late replies.
THEOREM ListenerIsNeverBlocked ==
    Spec => []ListenerNeverBlocks
<1>1. ClientInv => ListenerNeverBlocks
  BY DEF ClientInv, ListenerNeverBlocks, OneReply, ListenerHasMessage, Listening
<1> QED
  BY <1>1, ClientInvariant, PTL

\* A step of NetconfClient is a step of RpcChannel, or none.
LEMMA StepImplements ==
    ASSUME ClientInv, [Next]_vars
    PROVE  [Channel!ChannelNext]_<<[c \in Calls |-> Outcome(c)], executed>>
<1> USE DEF ClientInv, serverVars
<1> DEFINE out == [c \in Calls |-> Outcome(c)]
<1>1. ASSUME UNCHANGED <<call, executed>>
      PROVE  UNCHANGED <<out, executed>>
  BY <1>1 DEF Outcome
<1>2. ASSUME NEW c \in Calls, RegisterCall(c)
      PROVE  Channel!Invoke(c)
  BY <1>2 DEF RegisterCall, Channel!Invoke, Outcome, ClientTypeOK
<1>3. ASSUME NEW c \in Calls, UNCHANGED executed, NEW st, call' = [call EXCEPT ![c] = st],
             call[c] \in {"registering", "reserving", "sending", "writing"},
             st \in {"reserving", "sending", "writing", "waiting"}
      PROVE  UNCHANGED <<out, executed>>
  BY <1>3 DEF Outcome, ClientTypeOK
<1>4. ASSUME NEW c \in Calls, UNCHANGED executed, NEW st, call' = [call EXCEPT ![c] = st],
             call[c] \in {"reserving", "writing", "waiting"}, st \in {"timeout", "unsent"}
      PROVE  Channel!Fail(c)
  BY <1>4 DEF Channel!Fail, Outcome, ClientTypeOK
<1>5. ASSUME NEW c \in Calls, Answered(c)
      PROVE  Channel!Answer(c)
  BY <1>5 DEF Answered, Channel!Answer, Outcome, ClientTypeOK, OnlyMadeCalls
<1>6. ASSUME Serve
      PROVE  \E c \in Calls : Channel!Execute(c)
  <2>1. Head(requests) \in Calls /\ Written(Head(requests))
    BY <1>6 DEF Serve, ClientTypeOK, OnlyMadeCalls
  <2>2. Channel!Execute(Head(requests))
    BY <1>6, <2>1 DEF Serve, Channel!Execute, Outcome, Written, Registered
  <2> QED
    BY <2>1, <2>2
<1>7. ASSUME NEW c \in Calls, CallStep(c)
      PROVE  UNCHANGED <<out, executed>> \/ Channel!Fail(c) \/ Channel!Answer(c)
  <2>1. CASE SendCall(c)
    BY <2>1, <1>1, <1>3 DEF SendCall, Fatal
  <2>2. CASE Copied(c)
    BY <2>2, <1>3 DEF Copied
  <2>5. CASE Reserved(c)
    BY <2>5, <1>3, <1>4 DEF Reserved
  <2>3. CASE Sent(c)
    BY <2>3, <1>3, <1>4 DEF Sent
  <2>4. CASE TimedOut(c)
    BY <2>4, <1>4 DEF TimedOut
  <2> QED
    BY <1>7, <2>1, <2>2, <2>3, <2>4, <2>5, <1>5 DEF CallStep
<1>8. ASSUME UNCHANGED vars \/ ListenStep \/ Break \/ Close \/ Closed
                 \/ \E b \in {"window", "connection"} : Block(b)
                 \/ \E n \in Notes : RegisterNote(n) \/ NoteRegistered(n) \/ Notify(n)
      PROVE  UNCHANGED <<call, executed>>
  BY <1>8 DEF vars, ListenStep, Receive, Lookup, Callback, Removed, Fatal, Break, Close, Closed, Block,
              RegisterNote, NoteRegistered, Notify
<1> QED
  BY <1>1, <1>2, <1>6, <1>7, <1>8 DEF Next, Channel!ChannelNext

\* SyncRPC (operations.go) with its dispatcher implements RpcChannel: a call
\* ends once, and an answer is to a request the server has executed.
THEOREM ClientImplementsRpcChannel ==
    Spec => ImplementsRpcChannel
<1>1. Init => Channel!ChannelInit
  BY DEF Init, Channel!ChannelInit, Outcome
<1>2. ClientInv /\ [Next]_vars => [Channel!ChannelNext]_<<[c \in Calls |-> Outcome(c)], executed>>
  BY StepImplements
<1> QED
  BY <1>1, <1>2, ClientInvariant, PTL DEF Spec, ImplementsRpcChannel, Channel!ChannelSpec
=============================================================================
