-------------------------- MODULE CrleDecompressor --------------------------
(***************************************************************************)
(* PatchReader of detools/apply.py with the decompressor of                *)
(* detools/compression/crle.py, reading the stream of Crle.  PatchReader   *)
(* loops until it has what the applier asked for, and reads the patch file *)
(* whenever the decompressor needs input; the decompressor decompresses    *)
(* all the segments it has and keeps what is not asked for yet.            *)
(***************************************************************************)
EXTENDS Crle

CONSTANTS
    MaxRead,   \* bytes of one read of the patch file (4096 in the code)
    MaxWanted  \* bound: bytes asked for in one call

DecompressorAssumption == MaxRead \in Nat \ {0} /\ MaxWanted \in Nat \ {0}

VARIABLES
    pos,                             \* position in the patch file
    number_of_indata_bytes_left,
    indata, outdata,
    number_of_scattered_bytes_left,
    wanted, buf,                     \* size of the current call, 0 if there is
                                     \* none, and what it has collected
    out,                             \* everything returned so far
    pc                               \* "new", "idle", "loop", "segments" or "error"

decompressor == <<pos, number_of_indata_bytes_left, indata, outdata,
                  number_of_scattered_bytes_left, wanted, buf, out, pc>>
vars == <<compressor, decompressor>>

MinOf(a, b) == IF a <= b THEN a ELSE b
Drop(s, n) == SubSeq(s, n + 1, Len(s))

Init ==
    /\ InitCompressor
    /\ pos = 0
    /\ number_of_indata_bytes_left = 0
    /\ indata = <<>>
    /\ outdata = <<>>
    /\ number_of_scattered_bytes_left = 0
    /\ wanted = 0
    /\ buf = <<>>
    /\ out = <<>>
    /\ pc = "new"

\* CrleDecompressor(patch_data_length(fpatch))
New ==
    /\ pc = "new" /\ flushing = "done"
    /\ number_of_indata_bytes_left' = Len(stream)
    /\ pc' = "idle"
    /\ UNCHANGED <<compressor, pos, indata, outdata, number_of_scattered_bytes_left,
                   wanted, buf, out>>

\* Mutant: data that is decompressed and not asked for yet does not count.
ForgetfulEof == number_of_indata_bytes_left = 0 /\ indata = <<>>

Eof == number_of_indata_bytes_left = 0 /\ outdata = <<>> /\ indata = <<>>
NeedsInput == outdata = <<>> /\ ~Eof
Missing == wanted - Len(buf)

\* The applier calls PatchReader.decompress.
Call ==
    /\ pc = "idle"
    /\ wanted' \in 1 .. MaxWanted
    /\ buf' = <<>>
    /\ pc' = "loop"
    /\ UNCHANGED <<compressor, pos, number_of_indata_bytes_left, indata, outdata,
                   number_of_scattered_bytes_left, out>>

\* The loop of PatchReader.decompress: the end of the data, or of the file, is an
\* error while bytes are wanted.
EarlyEnd ==
    /\ pc = "loop" /\ Missing > 0
    /\ Eof \/ (NeedsInput /\ pos = Len(stream))
    /\ pc' = "error" /\ wanted' = 0
    /\ UNCHANGED <<compressor, pos, number_of_indata_bytes_left, indata, outdata,
                   number_of_scattered_bytes_left, buf, out>>

\* CrleDecompressor.decompress takes its input, if it needs any.
TakeInput ==
    /\ pc = "loop" /\ Missing > 0 /\ ~Eof
    /\ NeedsInput => pos < Len(stream)
    /\ LET size == IF NeedsInput THEN MinOf(MaxRead, Len(stream) - pos) ELSE 0
       IN  /\ indata' = indata \o SubSeq(stream, pos + 1, pos + size)
           /\ number_of_indata_bytes_left' = number_of_indata_bytes_left - size
           /\ pos' = pos + size
    /\ pc' = "segments"
    /\ UNCHANGED <<compressor, outdata, number_of_scattered_bytes_left, wanted, buf, out>>

\* indata holds a whole size after the kind.
HasSize == \E k \in 2 .. Len(indata) : indata[k] < 128
Body == SizeEnd(indata, 2)
Size == UsizeAt(indata, 2)

\* decompress_segment when data of a scattered segment is still to come.
MoreScattered ==
    /\ pc = "segments" /\ number_of_scattered_bytes_left > 0 /\ indata # <<>>
    /\ LET length == MinOf(Len(indata), number_of_scattered_bytes_left)
       IN  /\ outdata' = outdata \o SubSeq(indata, 1, length)
           /\ indata' = Drop(indata, length)
           /\ number_of_scattered_bytes_left' = number_of_scattered_bytes_left - length
    /\ UNCHANGED <<compressor, pos, number_of_indata_bytes_left, wanted, buf, out, pc>>

\* What of a scattered segment is still to come.
Rest(remaining) == IF remaining > 0 THEN remaining ELSE number_of_scattered_bytes_left

\* decompress_segment for a scattered segment, all or the first part of it.
ScatteredSegment ==
    /\ pc = "segments" /\ number_of_scattered_bytes_left = 0
    /\ indata # <<>> /\ indata[1] = Scattered /\ HasSize
    /\ LET remaining == Body + Size - Len(indata)
           length == IF remaining > 0 THEN Size - remaining ELSE Size
       IN  /\ number_of_scattered_bytes_left' = Rest(remaining)
           /\ outdata' = outdata \o SubSeq(indata, Body + 1, Body + length)
           /\ indata' = Drop(indata, Body + length)
    /\ UNCHANGED <<compressor, pos, number_of_indata_bytes_left, wanted, buf, out, pc>>

\* decompress_segment for a repeated segment that is complete.
RepeatedSegment ==
    /\ pc = "segments" /\ number_of_scattered_bytes_left = 0
    /\ indata # <<>> /\ indata[1] = Repeated /\ HasSize /\ Len(indata) > Body
    /\ outdata' = outdata \o [k \in 1 .. Size |-> indata[Body + 1]]
    /\ indata' = Drop(indata, Body + 1)
    /\ UNCHANGED <<compressor, pos, number_of_indata_bytes_left,
                   number_of_scattered_bytes_left, wanted, buf, out, pc>>

\* decompress_segment raises IndexError: there is no segment, or not all of one.
Incomplete ==
    \/ indata = <<>>
    \/ /\ indata # <<>> /\ number_of_scattered_bytes_left = 0
       /\ indata[1] \in {Scattered, Repeated}
       /\ ~HasSize \/ (indata[1] = Repeated /\ Len(indata) = Body)

\* Any other kind is an error.
BadKind ==
    /\ pc = "segments" /\ number_of_scattered_bytes_left = 0
    /\ indata # <<>> /\ indata[1] \notin {Scattered, Repeated}
    /\ pc' = "error" /\ wanted' = 0
    /\ UNCHANGED <<compressor, pos, number_of_indata_bytes_left, indata, outdata,
                   number_of_scattered_bytes_left, buf, out>>

\* decompress returns what is asked for, at most.
Deliver ==
    /\ pc = "segments" /\ Incomplete
    /\ LET size == MinOf(Missing, Len(outdata))
       IN  /\ buf' = buf \o SubSeq(outdata, 1, size)
           /\ outdata' = Drop(outdata, size)
    /\ pc' = "loop"
    /\ UNCHANGED <<compressor, pos, number_of_indata_bytes_left, indata,
                   number_of_scattered_bytes_left, wanted, out>>

Return ==
    /\ pc = "loop" /\ Missing = 0
    /\ pc' = "idle" /\ wanted' = 0
    /\ out' = out \o buf
    /\ buf' = <<>>
    /\ UNCHANGED <<compressor, pos, number_of_indata_bytes_left, indata, outdata,
                   number_of_scattered_bytes_left>>

Decompress ==
    \/ New \/ Call \/ EarlyEnd \/ TakeInput \/ MoreScattered \/ ScatteredSegment
    \/ RepeatedSegment \/ BadKind \/ Deliver \/ Return

Next ==
    \/ Compressor /\ UNCHANGED decompressor
    \/ UNCHANGED compressor /\ Decompress
=============================================================================
