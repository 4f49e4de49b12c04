----------------------------- MODULE Heatshrink -----------------------------
(***************************************************************************)
(* The heatshrink patch reader of c/detools.c with the decoder it drives   *)
(* (c/heatshrink/heatshrink_decoder.c).  The stream is a header byte with  *)
(* the sizes of the window and of the lookahead, then tokens: a 1 and the  *)
(* 8 bits of a byte, or a 0, how far back and how many bytes to copy.  The *)
(* bits are padded with zeros to whole bytes, which arrive in chunks.      *)
(* The decoder is polled for output, and given one byte when it has none.  *)
(* Every turn of its state machine is an action.                           *)
(***************************************************************************)
EXTENDS Integers, Sequences

CONSTANTS
    Streams,   \* records [window, lookahead : Nat, tokens : Seq of tokens,
               \* dynamic : BOOLEAN], dynamic if the reader is built with
               \* HEATSHRINK_DYNAMIC_ALLOC; if not, only window 8, lookahead 7
    MaxChunk,  \* bound: bytes of a chunk
    MaxWanted  \* bound: bytes asked for in one call

StreamsAssumption ==
    /\ MaxChunk \in Nat \ {0} /\ MaxWanted \in Nat \ {0}
    /\ \A s \in Streams :
          /\ s.window \in 4 .. 19 /\ s.lookahead \in 3 .. 18 /\ s.dynamic \in BOOLEAN
          /\ s.tokens \in Seq([back : 0 .. 2 ^ s.window, byte : 0 .. 255,
                               count : 1 .. 2 ^ s.lookahead])

VARIABLES
    stream,                     \* what the creator wrote, and the data it stands for
    fed, taken,                 \* bytes of the stream received and read so far
    window_sz2, lookahead_sz2,  \* -1 before the header byte
    decoder,                    \* "null", "ready", or "stale": not initialised
    hsd,                        \* the decoder
    wanted, got,                \* bytes asked for and delivered in the current call
    out,                        \* bytes delivered so far
    res,                        \* what the last call returned, "again" in a call
    destroyed                   \* what destroy returned, "no" before it

input == <<stream, fed>>
header == <<window_sz2, lookahead_sz2>>
vars == <<input, taken, header, decoder, hsd, wanted, got, out, res, destroyed>>

-----------------------------------------------------------------------------
(***************************************************************************)
(* The stream of a sequence of tokens, and the data it stands for.         *)
(***************************************************************************)
\* A token is a record of a byte, with back = 0, or of how far back and how many
\* bytes to copy.
Bits(value, width) == [k \in 1 .. width |-> (value \div 2 ^ (width - k)) % 2]

TokenBits(s, t) ==
    IF t.back = 0 THEN <<1>> \o Bits(t.byte, 8)
    ELSE <<0>> \o Bits(t.back - 1, s.window) \o Bits(t.count - 1, s.lookahead)

\* The bits of the first k tokens, for every k.  The padding is seen as zeros.
TokensBits(s) ==
    LET After[k \in 0 .. Len(s.tokens)] ==
            IF k = 0 THEN <<>> ELSE After[k - 1] \o TokenBits(s, s.tokens[k])
    IN  After
BitAt(k) == IF k < Len(stream.bits) THEN stream.bits[k + 1] ELSE 0
StreamSize == 1 + (Len(stream.bits) + 7) \div 8

\* A copy may reach into itself, and before the data, where there are zeros.
Expand(data, t) ==
    LET At(k) == IF k < 1 THEN 0 ELSE data[k]
    IN  IF t.back = 0 THEN Append(data, t.byte)
        ELSE data \o [k \in 1 .. t.count |->
                        At(Len(data) - t.back + 1 + ((k - 1) % t.back))]

Data(tokens) ==
    LET After[k \in 0 .. Len(tokens)] ==
            IF k = 0 THEN <<>> ELSE Expand(After[k - 1], tokens[k])
    IN  After

-----------------------------------------------------------------------------
WindowSize == 2 ^ window_sz2

\* heatshrink_decoder_reset
ResetDecoder(window) ==
    [state |-> "tag_bit", bits |-> 0, output_index |-> 0, output_count |-> 0,
     head_index |-> 0, buffer |-> [a \in 0 .. 2 ^ window - 1 |-> 0]]

\* patch_reader_heatshrink_init
Init ==
    /\ \E s \in Streams :
          stream = [window |-> s.window, lookahead |-> s.lookahead,
                    tokens |-> s.tokens, dynamic |-> s.dynamic,
                    bits |-> TokensBits(s)[Len(s.tokens)],
                    data |-> Data(s.tokens)[Len(s.tokens)]]
    /\ fed = 0 /\ taken = 0
    /\ window_sz2 = -1 /\ lookahead_sz2 = -1
    /\ decoder = "null"
    /\ hsd = ResetDecoder(0)
    /\ wanted = 0 /\ got = 0
    /\ out = <<>>
    /\ res = "none"
    /\ destroyed = "no"

ChunkAvailable == taken < fed
InCall == wanted > 0
Space == wanted - got

\* The next chunk of the stream.
Feed ==
    /\ ~InCall /\ ~ChunkAvailable /\ destroyed = "no"
    /\ \E n \in 1 .. MaxChunk : fed + n <= StreamSize /\ fed' = fed + n
    /\ UNCHANGED <<stream, taken, header, decoder, hsd, wanted, got, out, res, destroyed>>

\* The applier calls patch_reader_decompress.
Call ==
    /\ ~InCall /\ res # "error" /\ destroyed = "no"
    /\ wanted' \in 1 .. MaxWanted
    /\ got' = 0
    /\ res' = "again"
    /\ UNCHANGED <<input, taken, header, decoder, hsd, out, destroyed>>

Return(code) == res' = code /\ wanted' = 0

\* unpack_heatshrink_header, and the decoder that fits the header.
Accepted ==
    IF stream.dynamic THEN stream.window <= 15 /\ stream.lookahead < stream.window
    ELSE stream.window = 8 /\ stream.lookahead = 7

\* The header byte, with which the first call begins.
Header ==
    /\ InCall /\ window_sz2 = -1
    /\ \/ /\ ~ChunkAvailable
          /\ Return("more")
          /\ UNCHANGED <<taken, header, decoder, hsd>>
       \/ /\ ChunkAvailable
          /\ taken' = taken + 1
          /\ window_sz2' = stream.window /\ lookahead_sz2' = stream.lookahead
          /\ IF Accepted
             THEN /\ decoder' = "ready"
                  /\ hsd' = ResetDecoder(stream.window)
                  /\ UNCHANGED <<wanted, res>>
             ELSE Return("error") /\ UNCHANGED <<decoder, hsd>>
    /\ UNCHANGED <<input, got, out, destroyed>>

-----------------------------------------------------------------------------
(***************************************************************************)
(* heatshrink_decoder_poll.  hsd.bits counts the bits used up: those left  *)
(* are in current_byte, and, from 8 on, in the input buffer.               *)
(***************************************************************************)
BitsLeft == 8 * (taken - 1) - hsd.bits
InputSize == BitsLeft \div 8

\* get_bits gives either all of the bits or none.
HasBits(count) == BitsLeft >= count
GetBits(count) ==
    LET Value[k \in 0 .. count] ==
            IF k = 0 THEN 0 ELSE 2 * Value[k - 1] + BitAt(hsd.bits + k - 1)
    IN  Value[count]

InState(st) == InCall /\ window_sz2 # -1 /\ hsd.state = st
Used(count) == [hsd EXCEPT !.bits = @ + count]

\* Bits that only change the decoder.
ReadBits(st, count, after) ==
    /\ InState(st) /\ HasBits(count)
    /\ hsd' = after
    /\ UNCHANGED <<input, taken, header, decoder, wanted, got, out, res, destroyed>>

\* st_tag_bit
Tagged(bit) ==
    IF bit = 1 THEN [Used(1) EXCEPT !.state = "yield_literal"]
    ELSE IF window_sz2 > 8 THEN [Used(1) EXCEPT !.state = "backref_index_msb"]
    ELSE [Used(1) EXCEPT !.state = "backref_index_lsb", !.output_index = 0]

TagBit == ReadBits("tag_bit", 1, Tagged(GetBits(1)))

IndexMsb ==
    LET count == window_sz2 - 8
    IN  ReadBits("backref_index_msb", count,
                 [Used(count) EXCEPT !.state = "backref_index_lsb",
                                     !.output_index = 256 * GetBits(count)])

\* The bits of the index and of the count that fit in a byte.
Low(width) == IF width < 8 THEN width ELSE 8

\* The low bits are or-ed to the high ones.  The two have no bit in common, so
\* that the result is their sum.
IndexLsb ==
    LET count == Low(window_sz2)
        next == IF lookahead_sz2 > 8 THEN "backref_count_msb" ELSE "backref_count_lsb"
    IN  ReadBits("backref_index_lsb", count,
                 [Used(count) EXCEPT !.state = next,
                                     !.output_index = @ + GetBits(count) + 1,
                                     !.output_count = 0])

CountMsb ==
    LET count == lookahead_sz2 - 8
    IN  ReadBits("backref_count_msb", count,
                 [Used(count) EXCEPT !.state = "backref_count_lsb",
                                     !.output_count = 256 * GetBits(count)])

CountLsb ==
    LET count == Low(lookahead_sz2)
    IN  ReadBits("backref_count_lsb", count,
                 [Used(count) EXCEPT !.state = "yield_backref",
                                     !.output_count = @ + GetBits(count) + 1])

\* The decoder with bytes written at the head of its window.
Pushed(h, bytes) ==
    LET n == Len(bytes)
        Offset(a) == (a - h.head_index) % WindowSize
    IN  [h EXCEPT !.head_index = @ + n,
                  !.buffer = [a \in DOMAIN @ |->
                                 IF Offset(a) < n THEN bytes[Offset(a) + 1] ELSE @[a]]]

\* Bytes pushed to the caller's buffer.
Yield(bytes, after) ==
    /\ Space > 0
    /\ out' = out \o bytes
    /\ got' = got + Len(bytes)
    /\ hsd' = Pushed(after, bytes)
    /\ UNCHANGED <<input, taken, header, decoder, wanted, res, destroyed>>

YieldLiteral ==
    /\ InState("yield_literal") /\ HasBits(8)
    /\ Yield(<<GetBits(8)>>, [Used(8) EXCEPT !.state = "tag_bit"])

\* n bytes from output_index back, byte by byte.
Copied(n) ==
    [k \in 1 .. n |->
        hsd.buffer[(hsd.head_index - hsd.output_index + ((k - 1) % hsd.output_index))
                      % WindowSize]]

YieldBackref ==
    /\ InState("yield_backref")
    /\ LET n == IF hsd.output_count < Space THEN hsd.output_count ELSE Space
       IN  Yield(Copied(n), [hsd EXCEPT !.output_count = @ - n,
                                        !.state = IF hsd.output_count = n THEN "tag_bit"
                                                  ELSE @])

\* The bits the state of the decoder needs, if it needs any.
Needed ==
    CASE hsd.state = "tag_bit" -> 1
      [] hsd.state = "yield_literal" -> 8
      [] hsd.state = "backref_index_msb" -> window_sz2 - 8
      [] hsd.state = "backref_index_lsb" -> Low(window_sz2)
      [] hsd.state = "backref_count_msb" -> lookahead_sz2 - 8
      [] hsd.state = "backref_count_lsb" -> Low(lookahead_sz2)
      [] hsd.state = "yield_backref" -> 0

\* The state cannot advance.
Polled ==
    /\ InCall /\ window_sz2 # -1
    /\ \/ ~HasBits(Needed)
       \/ hsd.state \in {"yield_literal", "yield_backref"} /\ Space = 0

\* What a call returns when the chunk is used up.
Delivered == IF got # 0 THEN "ok" ELSE "more"

\* After a poll: the buffer is full, or a byte is sunk, or the chunk is used up.
Sink ==
    /\ Polled
    /\ \/ /\ Space = 0
          /\ Return("ok")
          /\ UNCHANGED taken
       \/ /\ Space > 0 /\ ChunkAvailable
          /\ taken' = taken + 1
          /\ UNCHANGED <<wanted, res>>
       \/ /\ Space > 0 /\ ~ChunkAvailable
          /\ Return(Delivered)
          /\ UNCHANGED taken
    /\ UNCHANGED <<input, header, decoder, hsd, got, out, destroyed>>

-----------------------------------------------------------------------------
\* Mutant: bits of padding are taken for a token that is missing.
FinishedBetweenTokens ==
    IF hsd.state = "tag_bit" /\ InputSize = 0 THEN {"ok"} ELSE {"corrupt"}

\* heatshrink_decoder_finish
Finished ==
    IF hsd.state # "yield_backref" /\ InputSize = 0 THEN {"ok"} ELSE {"corrupt"}

\* patch_reader_heatshrink_destroy
Destroy ==
    /\ ~InCall /\ destroyed = "no"
    /\ destroyed' \in CASE decoder = "null" -> {"ok"}
                        [] decoder = "ready" -> Finished
                        [] decoder = "stale" -> {"ok", "corrupt"}
    /\ UNCHANGED <<input, taken, header, decoder, hsd, wanted, got, out, res>>

\* The decoder is a part of the reader that is dumped.
RestoredDecoder == hsd

\* The state is dumped, and restored in another process (patch_reader_restore).
Restore ==
    /\ ~InCall /\ res # "error" /\ destroyed = "no"
    /\ decoder' = IF decoder = "null" THEN "stale" ELSE decoder
    /\ hsd' = RestoredDecoder
    /\ UNCHANGED <<input, taken, header, wanted, got, out, res, destroyed>>

Poll ==
    \/ TagBit \/ YieldLiteral \/ IndexMsb \/ IndexLsb \/ CountMsb \/ CountLsb
    \/ YieldBackref

Next == Feed \/ Call \/ Header \/ Poll \/ Sink \/ Destroy

-----------------------------------------------------------------------------
\* What the tokens stand for whose bits have all been taken.
Expected ==
    LET Whole == {k \in 0 .. Len(stream.tokens) :
                     Len(TokensBits(stream)[k]) <= 8 * (taken - 1)}
        n == CHOOSE k \in Whole : k + 1 \notin Whole
    IN  IF taken = 0 THEN <<>> ELSE Data(stream.tokens)[n]
=============================================================================
