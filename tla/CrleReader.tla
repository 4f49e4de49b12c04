----------------------------- MODULE CrleReader -----------------------------
(***************************************************************************)
(* The CRLE patch reader of c/detools.c, reading the stream of Crle.  The  *)
(* stream arrives in chunks of any size; the applier asks for any number   *)
(* of bytes as often as it likes, and gets more chunks when the reader has *)
(* used up the current one.  Every turn of the loop of                     *)
(* patch_reader_crle_decompress is an action, and so is every byte of a    *)
(* size.                                                                   *)
(***************************************************************************)
EXTENDS Crle

CONSTANTS
    MaxChunk,  \* bound: bytes of a chunk
    MaxWanted  \* bound: bytes asked for in one call

ReaderAssumption == MaxChunk \in Nat \ {0} /\ MaxWanted \in Nat \ {0}

VARIABLES
    fed, taken,   \* bytes of the stream received and read so far
    crle,         \* struct detools_apply_patch_patch_reader_crle_t
    wanted,       \* bytes asked for in the current call, 0 if there is none
    out,          \* bytes delivered so far
    res,          \* what the last turn of the loop returned; "again" stands for 2
    destroyed     \* what destroy returned, "no" before it

reader == <<fed, taken, crle, wanted, out, res, destroyed>>
vars == <<compressor, reader>>

MinOf(a, b) == IF a <= b THEN a ELSE b

\* unpack_usize_init
NoUsize == [value |-> 0, offset |-> 0]

\* patch_reader_crle_init.  The members of the union are set when their state is
\* entered.
NewReader == [state |-> "idle", left |-> 0, size |-> NoUsize, value |-> 0]

Init ==
    /\ InitCompressor
    /\ fed = 0 /\ taken = 0
    /\ crle = NewReader
    /\ wanted = 0
    /\ out = <<>>
    /\ res = "none"
    /\ destroyed = "no"

ChunkLeft == fed - taken
ChunkAvailable == ChunkLeft > 0

\* The next chunk of the stream.
Feed ==
    /\ flushing = "done" /\ wanted = 0 /\ ~ChunkAvailable /\ destroyed = "no"
    /\ \E n \in 1 .. MaxChunk : fed + n <= Len(stream) /\ fed' = fed + n
    /\ UNCHANGED <<compressor, taken, crle, wanted, out, res, destroyed>>

\* The applier calls patch_reader_decompress.
Call ==
    /\ flushing = "done" /\ wanted = 0 /\ res # "error" /\ destroyed = "no"
    /\ wanted' \in 1 .. MaxWanted
    /\ res' = "again"
    /\ UNCHANGED <<compressor, fed, taken, crle, out, destroyed>>

Turn(st) == wanted > 0 /\ crle.state = st

Return(code) == res' = code /\ wanted' = 0
Again == res' = "again" /\ UNCHANGED wanted

\* Every read of the chunk returns 1 when it is used up.
NeedMore ==
    /\ \E st \in {"idle", "scattered_size", "scattered_data",
                  "repeated_repetitions", "repeated_data"} : Turn(st)
    /\ ~ChunkAvailable
    /\ Return("more")
    /\ UNCHANGED <<compressor, fed, taken, crle, out, destroyed>>

\* chunk_get in state st.
Get(st) == Turn(st) /\ ChunkAvailable /\ taken' = taken + 1
NextByte == stream[taken + 1]

\* patch_reader_crle_decompress_idle
Idle ==
    /\ Get("idle")
    /\ \/ /\ NextByte = Scattered
          /\ crle' = [crle EXCEPT !.state = "scattered_size", !.size = NoUsize]
          /\ Again
       \/ /\ NextByte = Repeated
          /\ crle' = [crle EXCEPT !.state = "repeated_repetitions", !.size = NoUsize]
          /\ Again
       \/ /\ NextByte \notin {Scattered, Repeated}
          /\ Return("error")
          /\ UNCHANGED crle
    /\ UNCHANGED <<compressor, fed, out, destroyed>>

\* A turn of the loop in unpack_usize.
UsizeAfter(size, byte) ==
    [value |-> size.value + (byte % 128) * 2 ^ size.offset, offset |-> size.offset + 7]

\* unpack_usize in state st: the last byte has bit 7 clear, and its bits must fit
\* in an int.
UnpackUsize(st, next_state) ==
    /\ Get(st)
    /\ LET size == UsizeAfter(crle.size, NextByte)
       IN  \/ /\ crle.size.offset + 7 > 32
              /\ Return("error")
              /\ UNCHANGED crle
           \/ /\ crle.size.offset + 7 <= 32 /\ NextByte >= 128
              /\ crle' = [crle EXCEPT !.size = size]
              /\ Again
           \/ /\ crle.size.offset + 7 <= 32 /\ NextByte < 128
              /\ crle' = [crle EXCEPT !.size = size, !.left = size.value,
                                      !.state = next_state]
              /\ Again
    /\ UNCHANGED <<compressor, fed, out, destroyed>>

ScatteredSize == UnpackUsize("scattered_size", "scattered_data")
RepeatedRepetitions == UnpackUsize("repeated_repetitions", "repeated_data")

\* What chunk_read delivers of the segment.
ScatteredBytes == MinOf(MinOf(wanted, crle.left), ChunkLeft)

\* The reader after size bytes of the segment.
Delivered(size) ==
    [crle EXCEPT !.left = @ - size, !.state = IF crle.left = size THEN "idle" ELSE @]

\* patch_reader_crle_decompress_scattered_data
ScatteredData ==
    /\ Turn("scattered_data") /\ ChunkAvailable
    /\ LET size == ScatteredBytes
       IN  /\ out' = out \o SubSeq(stream, taken + 1, taken + size)
           /\ taken' = taken + size
           /\ crle' = Delivered(size)
    /\ Return("ok")
    /\ UNCHANGED <<compressor, fed, destroyed>>

\* patch_reader_crle_decompress_repeated_data
RepeatedData ==
    /\ Get("repeated_data")
    /\ crle' = [crle EXCEPT !.value = NextByte, !.state = "repeated_data_read"]
    /\ Again
    /\ UNCHANGED <<compressor, fed, out, destroyed>>

\* Mutant: a run needs a chunk to be read from.
StarvingRead ==
    /\ Turn("repeated_data_read")
    /\ LET size == MinOf(wanted, crle.left)
       IN  IF ChunkAvailable
           THEN /\ out' = out \o [k \in 1 .. size |-> crle.value]
                /\ crle' = Delivered(size)
                /\ Return("ok")
           ELSE Return("more") /\ UNCHANGED <<out, crle>>
    /\ UNCHANGED <<compressor, fed, taken, destroyed>>

\* patch_reader_crle_decompress_repeated_data_read
RepeatedDataRead ==
    /\ Turn("repeated_data_read")
    /\ LET size == MinOf(wanted, crle.left)
       IN  /\ out' = out \o [k \in 1 .. size |-> crle.value]
           /\ crle' = Delivered(size)
    /\ Return("ok")
    /\ UNCHANGED <<compressor, fed, taken, destroyed>>

Decompress ==
    \/ NeedMore \/ Idle \/ ScatteredSize \/ ScatteredData
    \/ RepeatedRepetitions \/ RepeatedData \/ RepeatedDataRead

\* patch_reader_crle_destroy: whatever is missing.
Destroy ==
    /\ wanted = 0 /\ flushing = "done" /\ destroyed = "no"
    /\ destroyed' = "ok"
    /\ UNCHANGED <<compressor, fed, taken, crle, wanted, out, res>>

Next == (Compressor /\ UNCHANGED reader) \/ Feed \/ Call \/ Decompress \/ Destroy
=============================================================================
