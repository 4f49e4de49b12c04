-------------------------------- MODULE Lzma --------------------------------
(***************************************************************************)
(* The LZMA patch reader of c/detools.c.  It copies whole chunks to a      *)
(* buffer of its own, has liblzma decompress into another one, and         *)
(* delivers all the bytes that are asked for or none.                      *)
(*                                                                         *)
(* The decoder of liblzma is external.  What it reads is a sequence of     *)
(* tokens, each of which takes some bytes of the stream and stands for     *)
(* some bytes of data: the header and the end marker stand for none, a     *)
(* match for many.  The decoder goes on until a byte of the stream is      *)
(* missing or there is no space for a byte of data, so that it may have    *)
(* read all of the stream it was given while it still holds data.          *)
(***************************************************************************)
EXTENDS Integers, Sequences

CONSTANTS
    Streams,   \* records [tokens : Seq of tokens, trailing : Nat], the second
               \* the bytes behind the end marker
    MaxChunk,  \* bound: bytes of a chunk
    MaxWanted  \* bound: bytes asked for in one call

StreamsAssumption ==
    /\ MaxChunk \in Nat \ {0} /\ MaxWanted \in Nat \ {0}
    /\ \A s \in Streams :
          /\ s.trailing \in Nat
          /\ s.tokens \in Seq([cost : Nat \ {0}, data : Seq(0 .. 255), bad : BOOLEAN])
          \* The last token is the end marker, which FORMAT_ALONE has in create.py.
          /\ s.tokens # <<>> /\ s.tokens[Len(s.tokens)].data = <<>>

VARIABLES
    stream,      \* what the creator wrote
    fed, taken,  \* bytes of the stream received and read so far
    lzma,        \* struct detools_apply_patch_patch_reader_lzma_t
    wanted,      \* bytes asked for in the current call, 0 if there is none
    out,         \* bytes delivered so far
    res,         \* what the last call returned, "again" in a call
    destroyed    \* what destroy returned, "no" before it

vars == <<stream, fed, taken, lzma, wanted, out, res, destroyed>>

MinOf(a, b) == IF a <= b THEN a ELSE b
Greatest(S) == CHOOSE k \in S : \A j \in S : j <= k
Drop(s, n) == SubSeq(s, n + 1, Len(s))

\* What the first k tokens take of the stream, and what they stand for.
InputOf[k \in 0 .. Len(stream.tokens)] ==
    IF k = 0 THEN 0 ELSE InputOf[k - 1] + stream.tokens[k].cost
OutputOf[k \in 0 .. Len(stream.tokens)] ==
    IF k = 0 THEN <<>> ELSE OutputOf[k - 1] \o stream.tokens[k].data

Data == OutputOf[Len(stream.tokens)]
StreamSize == InputOf[Len(stream.tokens)] + stream.trailing
Good == stream.trailing = 0 /\ \A k \in DOMAIN stream.tokens : ~stream.tokens[k].bad

\* patch_reader_lzma_init.  A byte of input_p is its position in the stream; `read`
\* and `written` are what the decoder has read and written, and `turn` the step of
\* patch_reader_lzma_decompress that is next.
Init ==
    /\ stream \in Streams
    /\ fed = 0 /\ taken = 0
    /\ lzma = [input |-> <<>>, output |-> <<>>, read |-> 0, written |-> 0, turn |-> "first"]
    /\ wanted = 0
    /\ out = <<>>
    /\ res = "none"
    /\ destroyed = "no"

ChunkAvailable == taken < fed
InCall == wanted > 0

\* The next chunk of the stream.
Feed ==
    /\ ~InCall /\ ~ChunkAvailable /\ destroyed = "no"
    /\ \E n \in 1 .. MaxChunk : fed + n <= StreamSize /\ fed' = fed + n
    /\ UNCHANGED <<stream, taken, lzma, wanted, out, res, destroyed>>

\* The applier calls patch_reader_decompress.
Call ==
    /\ ~InCall /\ res \notin {"error", "out_of_memory"} /\ destroyed = "no"
    /\ wanted' \in 1 .. MaxWanted
    /\ lzma' = [lzma EXCEPT !.turn = "first"]
    /\ res' = "again"
    /\ UNCHANGED <<stream, fed, taken, out, destroyed>>

Turn(t) == InCall /\ lzma.turn = t
Return(code) == res' = code /\ wanted' = 0
Again == UNCHANGED <<wanted, res>>

\* get_decompressed_data: all of it, or none.
GetDecompressed(turn, otherwise) ==
    /\ Turn(turn)
    /\ IF Len(lzma.output) >= wanted
       THEN /\ out' = out \o SubSeq(lzma.output, 1, wanted)
            /\ lzma' = [lzma EXCEPT !.output = Drop(@, wanted)]
            /\ Return("ok")
       ELSE lzma' = [lzma EXCEPT !.turn = otherwise] /\ Again /\ UNCHANGED out
    /\ UNCHANGED <<stream, fed, taken, destroyed>>

\* The tokens the decoder begins, and those it reads to their end, when it has
\* received `total` bytes and may have written `limit` bytes of data.
Begun(total, limit) ==
    {k \in DOMAIN stream.tokens :
        InputOf[k - 1] <= total /\ Len(OutputOf[k - 1]) <= limit}
Ended(total, limit) ==
    {0} \cup {k \in Begun(total, limit) : InputOf[k] <= total}

\* lzma_code(LZMA_RUN) fails at a token that is damaged, and on bytes that are not
\* the next ones.
DecodeFails(total, limit) ==
    \/ \E k \in Ended(total, limit) \ {0} : stream.tokens[k].bad
    \/ lzma.input # [k \in DOMAIN lzma.input |-> lzma.read + k]

\* What lzma_code does otherwise: `output` is what the buffer holds before.
Decoded(output, total, limit) ==
    LET read == MinOf(total, InputOf[Greatest(Begun(total, limit))])
        written == MinOf(limit, Len(OutputOf[Greatest(Ended(total, limit))]))
    IN  [lzma EXCEPT !.input = Drop(@, read - lzma.read), !.read = read,
                     !.output = output \o SubSeq(Data, lzma.written + 1, written),
                     !.written = written, !.turn = "get"]

\* Mutant: the data left in the old buffer is not copied to the new one.
FreshOutput == [k \in DOMAIN lzma.output |-> 0]

\* prepare_output_buffer makes room for what is asked for and keeps what is left.
PreparedOutput == lzma.output

\* Every allocation may fail.
OutOfMemory ==
    /\ \/ Turn("code") /\ lzma.input # <<>>
       \/ Turn("input") /\ ChunkAvailable
    /\ Return("out_of_memory")
    /\ UNCHANGED <<stream, fed, taken, lzma, out, destroyed>>

\* prepare_output_buffer and lzma_code, if there is anything to read.
Decompress ==
    /\ Turn("code")
    /\ LET total == lzma.read + Len(lzma.input)
           limit == lzma.written + wanted - Len(lzma.output)
       IN  \/ /\ lzma.input = <<>>
              /\ lzma' = [lzma EXCEPT !.turn = "get"]
              /\ Again
           \/ /\ lzma.input # <<>> /\ DecodeFails(total, limit)
              /\ Return("error")
              /\ UNCHANGED lzma
           \/ /\ lzma.input # <<>> /\ ~DecodeFails(total, limit)
              /\ lzma' = Decoded(PreparedOutput, total, limit)
              /\ Again
    /\ UNCHANGED <<stream, fed, taken, out, destroyed>>

\* prepare_input_buffer: what is left of the input, and the chunk.
PrepareInput ==
    /\ Turn("input")
    /\ \/ /\ ~ChunkAvailable
          /\ Return("more")
          /\ UNCHANGED <<taken, lzma>>
       \/ /\ ChunkAvailable
          /\ lzma' = [lzma EXCEPT !.input = @ \o [k \in 1 .. fed - taken |-> taken + k],
                                  !.turn = "code"]
          /\ taken' = fed
          /\ Again
    /\ UNCHANGED <<stream, fed, out, destroyed>>

\* patch_reader_lzma_destroy
Destroy ==
    /\ ~InCall /\ destroyed = "no"
    /\ destroyed' = IF lzma.input = <<>> /\ lzma.output = <<>> THEN "ok" ELSE "corrupt"
    /\ UNCHANGED <<stream, fed, taken, lzma, wanted, out, res>>

Next ==
    \/ Feed \/ Call \/ GetDecompressed("first", "code") \/ Decompress
    \/ GetDecompressed("get", "input") \/ PrepareInput \/ OutOfMemory \/ Destroy
=============================================================================
