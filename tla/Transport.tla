----------------------------- MODULE Transport -----------------------------
(***************************************************************************)
(* go-netconf-client, transport.go: the framing of NETCONF messages.  What *)
(* the server sends arrives in pieces; Receive reads what has arrived, up  *)
(* to half a buffer at a time, looks for the separator and, once the two   *)
(* sides have agreed on NETCONF 1.1, takes the chunks apart with a         *)
(* bufio.Scanner.  A message is a sequence of bytes, of which line feed,   *)
(* "#" and the digits have a meaning.                                      *)
(***************************************************************************)
EXTENDS Naturals, Sequences, FiniteSetsExt

CONSTANTS
    Letters,      \* bytes that mean nothing to the framing
    Payloads,     \* the messages the server may send
    Malformed,    \* what it may send in their place
    Versions,     \* the versions a server may announce
    ReadSize,     \* half the buffer of WaitForFunc (4096 bytes in the code)
    Pipeline,     \* bound: messages on their way at a time
    Burst         \* bound: the length of messages that are on their way together

VARIABLES
    server,     \* the version the server announces
    version,    \* transportBasicIO.version; "" before the hello
    transit,    \* bytes on their way to the client
    arrived,    \* bytes in the buffer of the SSH channel
    eof,        \* the transport has come to its end
    window,     \* WaitForFunc: buf, the bytes of the last read
    out,        \* WaitForFunc: out, the bytes before those
    pc,         \* where Receive is
    scan,       \* Chunked: its scanner, and the state of SplitChunked
    pending,    \* messages sent and not received
    intact,     \* history: what was received is what was due
    clean       \* history: each separator was found where a read came to its end

NL == "\n"
Digit(d)  == <<"0", "1", "2", "3", "4", "5", "6", "7", "8", "9">>[d + 1]
Digits    == {Digit(d) : d \in 0 .. 9}
MaxChunkSize == 2147483647  \* ParseUint of 31 bits

\* The digits of n, without leading zeros.
Powers      == <<1, 10, 100, 1000, 10000, 100000, 1000000, 10000000, 100000000, 1000000000>>
Width(n)    == Min({k \in 1 .. 10 : k = 10 \/ n < Powers[k + 1]})
DigitsOf(n) == [i \in 1 .. Width(n) |-> Digit((n \div Powers[Width(n) - i + 1]) % 10)]

msgSeparator    == <<"]", "]", ">", "]", "]", ">">>
msgSeparatorV11 == <<NL, "#", "#", NL>>

Hello == <<"h", "i">>

Byte == Digits \cup {NL, "#", "]", ">", "h", "i"} \cup Letters

ASSUME TransportAssumption ==
    /\ Versions \subseteq {"v1.0", "v1.1"}
    /\ ReadSize \in Nat /\ ReadSize >= Len(msgSeparator)
    /\ Pipeline \in Nat \ {0} /\ Burst \in Nat
    /\ Payloads \cup Malformed \subseteq Seq(Byte)
    /\ \A p \in Payloads : Len(p) \in 1 .. MaxChunkSize

Drop(s, n) == SubSeq(s, n + 1, Len(s))
Take(s, n) == SubSeq(s, 1, n)

BufferSize == 16  \* Chunked: bsize, of a buffer that may grow to twice as much

NoScan == [rest |-> <<>>, buf |-> <<>>, start |-> 0, size |-> BufferSize, eof |-> FALSE,
           state |-> "headerStart", left |-> 0, chunks |-> 0, advance |-> 0, got |-> <<>>]

netVars  == <<server, transit>>
waitVars == <<arrived, window, out>>
vars == <<server, version, transit, arrived, eof, window, out, pc, scan, pending, intact,
          clean>>

-----------------------------------------------------------------------------
(* The server *)

\* Send, and what a server does: data as chunks with their sizes.
Header(n) == <<NL, "#">> \o DigitsOf(n) \o <<NL>>
Chunk(d)  == IF d = <<>> THEN <<>> ELSE Header(Len(d)) \o d

\* The frames a message may go out in: as one chunk or as two.
Frames(m, v) ==
    IF v = "v1.1"
    THEN {Chunk(Take(m, k)) \o Chunk(Drop(m, k)) \o msgSeparatorV11 : k \in 1 .. Len(m)}
    ELSE {m \o msgSeparator}

SeparatorOf(v) == IF v = "v1.1" THEN msgSeparatorV11 ELSE msgSeparator

Init ==
    /\ server \in Versions
    /\ version = ""
    /\ transit = Hello \o msgSeparator
    /\ arrived = <<>>
    /\ eof = FALSE
    /\ window = <<>>
    /\ out = <<>>
    /\ pc = "read"
    /\ scan = NoScan
    /\ pending = <<Hello>>
    /\ intact = TRUE
    /\ clean = TRUE

Garbage == <<"?">>  \* stands for whatever a malformed message is received as

Short(m) == pending # <<>> => Len(Head(pending)) <= Burst /\ Len(m) <= Burst

\* The server sends a message; before the client's hello it sends none.
ServerSend ==
    /\ ~eof
    /\ version # ""
    /\ Len(pending) < Pipeline
    /\ \/ \E m \in Payloads : \E f \in Frames(m, server) :
          /\ Short(m)
          /\ transit' = transit \o f
          /\ pending' = Append(pending, m)
       \/ /\ server = "v1.1"
          /\ \E f \in Malformed : Short(f) /\ transit' = transit \o (f \o msgSeparatorV11)
          /\ pending' = Append(pending, Garbage)
    /\ UNCHANGED <<server, version, waitVars, eof, pc, scan, intact, clean>>

\* Some of the bytes arrive, however they are divided into packets.  What the
\* next Read does not take counts as on its way.
Arrive ==
    /\ \E n \in 1 .. Len(transit) :
         /\ Len(arrived) + n <= ReadSize
         /\ arrived' = arrived \o Take(transit, n)
         /\ transit' = Drop(transit, n)
    /\ UNCHANGED <<server, version, eof, window, out, pc, scan, pending, intact, clean>>

\* The connection breaks, and what has not arrived is lost.
Break ==
    /\ ~eof
    /\ eof' = TRUE
    /\ transit' = <<>>
    /\ UNCHANGED <<server, version, waitVars, pc, scan, pending, intact, clean>>

-----------------------------------------------------------------------------
(* Receive *)

Separator == SeparatorOf(version)

\* bytes.Index, for every occurrence.
Occurrences(s, p) ==
    {i \in 1 .. Len(s) : i + Len(p) - 1 <= Len(s) /\ SubSeq(s, i, i + Len(p) - 1) = p}

\* What Receive relies on: the separator is nowhere in a frame but at its end.
\* No message of a server may have it, and no chunk may end in the beginning of
\* it.
SeparatorsEnd ==
    LET EndsWith(f, p) == \A i \in Occurrences(f, p) : i = Len(f) - Len(p) + 1 IN
    /\ \A v \in Versions, m \in Payloads : \A f \in Frames(m, v) : EndsWith(f, SeparatorOf(v))
    /\ \A f \in Malformed : EndsWith(f \o msgSeparatorV11, msgSeparatorV11)

\* Receive returns m.  The first message is the hello, after which NewSession
\* and SendHello set the version.
Received(m) ==
    /\ intact' = (intact /\ Head(pending) \in {m, Garbage})
    /\ pending' = Tail(pending)
    /\ version' = IF version = "" THEN server ELSE version

\* One turn of WaitForFunc: what Read gets, ...
New == Take(arrived, Min({ReadSize, Len(arrived)}))

\* The separator is in the bytes that WaitForFunc looks at, and nothing follows
\* it in this read.
Clean ==
    LET all == out \o (window \o New) IN
    \A i \in Occurrences(all, Separator) : i > Len(out) /\ i + Len(Separator) - 1 = Len(all)

\* ... and the search in b, with the bytes before it.  What follows the
\* separator in this read is dropped.
Search(b, before) ==
    LET ends == Occurrences(b, Separator)
        m    == before \o Take(b, Min(ends) - 1)
    IN
    /\ pc = "read"
    /\ arrived # <<>>
    /\ arrived' = Drop(arrived, Len(New))
    /\ clean' = (clean /\ Clean)
    /\ \/ /\ ends = {}
          /\ out' = out \o window
          /\ window' = New
          /\ UNCHANGED <<version, pc, scan, pending, intact>>
       \/ /\ ends # {}
          /\ out' = <<>>
          /\ window' = <<>>
          /\ IF version = "v1.1"
             THEN /\ pc' = "fill"
                  /\ scan' = [NoScan EXCEPT !.rest = m]
                  /\ UNCHANGED <<version, pending, intact>>
             ELSE Received(m) /\ UNCHANGED <<pc, scan>>
    /\ UNCHANGED <<netVars, eof>>

\* Mutant: the separator is looked for in the bytes just read.
Read_NewBytesOnly == Search(New, out \o window)

\* The separator is looked for in the bytes of this read and the one before.
Read == Search(window \o New, out)

\* Read returns io.EOF, and WaitForFunc an error.
ReadEOF ==
    /\ pc = "read"
    /\ arrived = <<>>
    /\ eof
    /\ pc' = "failed"
    /\ window' = <<>>
    /\ out' = <<>>
    /\ UNCHANGED <<netVars, version, arrived, eof, scan, pending, intact, clean>>

-----------------------------------------------------------------------------
(* Chunked: the scanner *)

\* Scan returns false, and Chunked what it has got: errors are ignored.
ScanEnds ==
    /\ Received(scan.got)
    /\ pc' = "read"
    /\ scan' = NoScan
    /\ UNCHANGED <<netVars, waitVars, eof, clean>>

Scanning == UNCHANGED <<netVars, waitVars, eof, version, pending, intact, clean>>

\* Scan moves what it holds to the front when it needs the space, takes a
\* larger buffer when that is full, and reads.
Fill ==
    /\ pc = "fill"
    /\ LET full  == scan.start + Len(scan.buf) = scan.size
           start == IF full \/ scan.start > scan.size \div 2 THEN 0 ELSE scan.start
           grow  == start + Len(scan.buf) = scan.size
           size  == IF grow THEN 2 * BufferSize ELSE scan.size
           n     == Min({size - start - Len(scan.buf), Len(scan.rest)})
       IN IF grow /\ scan.size = 2 * BufferSize
          THEN ScanEnds  \* ErrTooLong
          ELSE /\ scan' = [scan EXCEPT !.start = start, !.size = size,
                                      !.eof = (scan.rest = <<>>),
                                      !.buf = @ \o Take(scan.rest, n),
                                      !.rest = Drop(@, n)]
               /\ pc' = "split"
               /\ Scanning

\* What SplitChunked has gone past leaves the buffer.
Advanced(sc) == [sc EXCEPT !.buf = Drop(@, sc.advance), !.start = @ + sc.advance,
                           !.advance = 0]

cur == Drop(scan.buf, scan.advance)

-----------------------------------------------------------------------------
(* SplitChunked: one action per state, for one turn of its loop *)

LineFeeds == {i \in 1 .. Len(cur) : cur[i] = NL}
idx       == IF LineFeeds = {} THEN 0 ELSE Min(LineFeeds) - 1
BadSize   == idx < 1 \/ idx > 10

\* SplitChunked waits for more bytes.
NeedsMore ==
    /\ ~scan.eof
    /\ \/ Len(cur) < 4
       \/ scan.state = "headerSize" /\ BadSize /\ Len(cur) < 11

\* It returns without a token: Scan ends at the end of its input, or reads on.
SplitReturn ==
    /\ pc = "split"
    /\ cur = <<>> \/ NeedsMore
    /\ \/ scan.eof /\ ScanEnds
       \/ /\ ~scan.eof
          /\ scan' = Advanced(scan)
          /\ pc' = "fill"
          /\ Scanning

Splits(state) ==
    /\ pc = "split"
    /\ cur # <<>>
    /\ ~NeedsMore
    /\ scan.state = state

Goto(state, n) ==
    /\ scan' = [scan EXCEPT !.state = state, !.advance = @ + n]
    /\ UNCHANGED pc
    /\ Scanning

HeaderStart ==
    /\ Splits("headerStart")
    /\ LET good == Len(cur) >= 4 /\ Take(cur, 2) = <<NL, "#">> IN
       \/ good /\ cur[3] = "#" /\ Goto("endOfChunks", 3)
       \/ good /\ cur[3] \in Digits \ {"0"} /\ Goto("headerSize", 2)
       \/ ~(good /\ cur[3] \in ({"#"} \cup Digits) \ {"0"}) /\ ScanEnds  \* ErrBadChunk

\* strconv.ParseUint
Value(d) == CHOOSE n \in 0 .. 9 : Digit(n) = d
Number(s) ==
    LET number[i \in 0 .. Len(s)] ==
            IF i = 0 THEN 0 ELSE 10 * number[i - 1] + Value(s[i])
    IN number[Len(s)]

\* The size is read, and skip more bytes are gone past.
SizeRead(skip) ==
    LET size == Take(cur, idx)
        good == /\ ~BadSize
                /\ \A i \in 1 .. Len(size) : size[i] \in Digits
                /\ Number(size) \in 0 .. MaxChunkSize
    IN
    /\ Splits("headerSize")
    /\ \/ /\ good
          /\ scan' = [scan EXCEPT !.state = "data", !.advance = @ + idx + skip,
                                  !.left = Number(size)]
          /\ UNCHANGED pc
          /\ Scanning
       \/ ~good /\ ScanEnds  \* ErrBadChunk

\* Mutant: the line feed of the header is taken for data.
HeaderSize_KeepsLineFeed == SizeRead(0)

HeaderSize == SizeRead(1)

\* Mutant: a token is a whole chunk.
Data_WholeChunk ==
    /\ Splits("data")
    /\ \/ /\ Len(cur) < scan.left /\ ~scan.eof
          /\ scan' = Advanced(scan)
          /\ pc' = "fill"
          /\ Scanning
       \/ /\ Len(cur) >= scan.left \/ scan.eof
          /\ LET n == Min({Len(cur), scan.left}) IN
             scan' = Advanced([scan EXCEPT !.advance = @ + n,
                                           !.got = @ \o Take(cur, n),
                                           !.left = @ - n,
                                           !.state = "headerStart"])
          /\ pc' = "split"
          /\ Scanning

\* A token: what the buffer holds of the chunk.  Scan returns, and is called
\* again.
Data ==
    /\ Splits("data")
    /\ LET n == Min({Len(cur), scan.left}) IN
       scan' = Advanced([scan EXCEPT !.advance = @ + n,
                                     !.got = @ \o Take(cur, n),
                                     !.left = @ - n,
                                     !.chunks = IF scan.left = n THEN 1 ELSE @,
                                     !.state = IF scan.left = n THEN "headerStart" ELSE @])
    /\ pc' = IF scan'.buf = <<>> /\ ~scan.eof THEN "fill" ELSE "split"
    /\ Scanning

EndOfChunks ==
    /\ Splits("endOfChunks")
    /\ IF Head(cur) = NL /\ scan.chunks > 0 THEN Goto("headerStart", 1) ELSE ScanEnds

-----------------------------------------------------------------------------

ClientStep ==
    \/ Read
    \/ ReadEOF
    \/ Fill
    \/ SplitReturn
    \/ HeaderStart
    \/ HeaderSize
    \/ Data
    \/ EndOfChunks

Next == ServerSend \/ Arrive \/ Break \/ ClientStep

Spec == Init /\ [][Next]_vars

\* The receiving goroutine goes on while it can, and packets arrive.
FairSpec == Spec /\ WF_vars(ClientStep) /\ WF_vars(Arrive)

-----------------------------------------------------------------------------

\* Receive returns the messages of the server as they were sent, wherever
\* packets, reads, chunks and the scanner's buffer divide them, however many are
\* on their way, and also after one that was malformed: as long as each
\* separator was found at the end of a read.
MessagesIntact == clean => intact

\* While messages are pending and the connection lasts, Receive returns again
\* and again: but after a separator that was followed by another message in the
\* same read, or divided over three reads.
MessagesReceived ==
    <>[](pending # <<>> /\ ~eof /\ clean) => []<><<Len(pending') < Len(pending)>>_pending

\* SplitChunked goes past what it has seen, so that the 16 bytes of Chunked's
\* buffer are enough for chunks of any size: it never grows towards the limit
\* at which Scan gives up and the rest of the message is silently dropped.
ScannerFits == scan.size = BufferSize

-----------------------------------------------------------------------------
(* What the documentation says, and the code does not do *)

\* README, "NETCONF notifications usage": the operator receives the
\* notifications of a stream.  No message of the server waits for ever.
EveryMessageReceived ==
    <>[](version # "" /\ pending # <<>> /\ ~eof) => []<><<Len(pending') < Len(pending)>>_pending

=============================================================================
