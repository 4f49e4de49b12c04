--------------------------- MODULE MCPatchReaders ---------------------------
(***************************************************************************)
(* Short inputs for CRLE and two whose sizes take two bytes; heatshrink    *)
(* streams with literals, copies into themselves, from before the data and *)
(* around the end of the window, with all lengths of padding, and with     *)
(* indexes and counts of more than 8 bits; LZMA streams with tokens that   *)
(* stand for more than is asked for at once, damaged ones, and bytes       *)
(* behind the end marker.                                                  *)
(***************************************************************************)
EXTENDS PatchReaders, SequencesExt

ShortInputs == UNION {[1 .. n -> {0, 1}] : n \in 0 .. 5}
LongInputs ==
    {[k \in 1 .. 132 |-> IF k = 1 THEN 5 ELSE IF k = 132 THEN 9 ELSE 7],
     [k \in 1 .. 131 |-> k % 2]}
SomeInputs == ShortInputs \cup LongInputs

-----------------------------------------------------------------------------
Stream(window, lookahead, tokens) ==
    [window |-> window, lookahead |-> lookahead, tokens |-> tokens, dynamic |-> TRUE]
Literal(byte) == [back |-> 0, byte |-> byte, count |-> 1]
Backref(back, count) == [back |-> back, byte |-> 0, count |-> count]

SomeTokens == {Literal(255), Literal(1), Backref(1, 2), Backref(2, 3), Backref(3, 1)}

\* Windows of 16 bytes.
Narrow ==
    {Stream(4, 3, tokens) : tokens \in BoundedSeq(SomeTokens, 3)}
    \cup {Stream(4, 3, <<Literal(7), Literal(9), Backref(2, 8), Backref(2, 7),
                         Literal(3), Backref(16, 5)>>),
          Stream(4, 3, [k \in 1 .. 8 |-> Literal(k)])}

Wide ==
    {Stream(9, 3, <<Literal(5), Backref(1, 3), Literal(6), Backref(300, 1)>>),
     Stream(10, 9, <<Literal(5), Backref(1, 259), Backref(258, 3)>>),
     Stream(4, 4, <<Literal(5)>>), Stream(16, 3, <<Literal(5)>>)}

StaticStreams ==
    {Stream(8, 7, <<Literal(5), Literal(6), Backref(2, 5), Literal(255)>>),
     Stream(8, 7, <<Backref(200, 3), Literal(6), Backref(1, 2), Backref(4, 3)>>),
     Stream(8, 7, <<>>), Stream(9, 7, <<Literal(5)>>)}

AllHeatshrinkStreams ==
    Narrow \cup Wide \cup {[s EXCEPT !.dynamic = FALSE] : s \in StaticStreams}

-----------------------------------------------------------------------------
Token(cost, bytes) == [cost |-> cost, data |-> bytes, bad |-> FALSE]
Damaged == [Token(1, <<>>) EXCEPT !.bad = TRUE]

Closed(tokens, trailing) ==
    [tokens |-> <<Token(2, <<>>)>> \o tokens \o <<Token(2, <<>>)>>, trailing |-> trailing]

Matches == {Token(1, <<8>>), Token(1, <<6, 7, 8, 9>>), Token(2, <<1, 2, 3>>)}

SomeLzmaStreams ==
    {Closed(tokens, 0) : tokens \in BoundedSeq(Matches, 3)}
    \cup {Closed(<<Token(1, <<1, 2>>)>>, 2),
          Closed(<<Token(1, <<1, 2, 3, 4>>), Damaged, Token(1, <<3>>)>>, 0)}
=============================================================================
