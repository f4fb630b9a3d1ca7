---------------------------- MODULE MCTransport ----------------------------
(* Bytes and messages of which Transport is checked. *)
EXTENDS Transport

Text(n) == [i \in 1 .. n |-> <<"a", "b", "c">>[(i % 3) + 1]]

\* Messages shorter and longer than the buffers, one that has line feeds and
\* hash signs in it, and one that looks like a chunk.
MCPayloads == {Text(n) : n \in {1, 2, 3, 9, 16, 21}}
                \cup {<<"a", NL, "#", NL, "#", "b">>, <<NL, "#", "1", NL, "b">>}

\* A text with a line that consists of two hash signs.
HashLine == {<<"a", NL, "#", "#", NL, "b">>}

\* No chunk, a size of zero, one that is not a number, one that is too large,
\* one that ends, an end of chunks that is none.
MCMalformed == {<<"a", "b", "c", "a">>, <<NL, "#", "0", NL, "a">>, <<NL, "#", "1", "a", NL, "b">>,
                <<NL, "#", "9", NL, "a">>, <<NL, "#", "1">>, <<NL, "#", "#", "a">>,
                <<NL, "#", "1", NL, "a", NL, "#", "#", "a">>}

\* The messages that are checked are ones of which ReceivedIntact is proved; the
\* text with hash signs is not.
ASSUME SeparatorsAssumption ==
    /\ Payloads = MCPayloads => SeparatorsEnd
    /\ Payloads = HashLine => ~SeparatorsEnd
=============================================================================
