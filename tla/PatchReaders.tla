---------------------------- MODULE PatchReaders ----------------------------
(***************************************************************************)
(* The patch readers behind patch_reader_t of c/detools.c: the compression *)
(* in the header of a patch selects one of them (patch_reader_init), and   *)
(* with it the functions `decompress` and `destroy` that the applier       *)
(* calls.  CRLE, heatshrink and LZMA are the modules of those names; the   *)
(* reader without compression is a part of ApplyPatch.  Beside them stands *)
(* PatchReader of detools/apply.py with its CRLE decompressor, which reads *)
(* the same streams from a file.                                           *)
(***************************************************************************)
EXTENDS Integers, Sequences

CONSTANTS
    Inputs, MinimumRepeatedSize, MaxPiece,  \* of Crle
    HeatshrinkStreams, LzmaStreams,         \* Streams of Heatshrink and of Lzma
    MaxRead,                                \* of CrleDecompressor
    MaxChunk,                               \* bound: bytes of a chunk
    MaxWanted                               \* bound: bytes asked for in one call

VARIABLES
    compression,  \* "crle", "heatshrink", "lzma", "python" (PatchReader with CRLE),
                  \* or "bad" if there is no reader for it
    \* The interface: the stream, how much of it has been received and read, the
    \* current call, what has been delivered, and what was returned.
    stream, fed, taken, wanted, out, res, destroyed,
    \* Crle and CrleReader.
    input, given, data, flushing, crle,
    \* Heatshrink.
    window_sz2, lookahead_sz2, decoder, hsd, got,
    \* Lzma.
    lzma,
    \* CrleDecompressor.
    number_of_indata_bytes_left, indata, outdata, number_of_scattered_bytes_left,
    buf, pc

interface == <<stream, fed, taken, wanted, out, res, destroyed>>
compressor == <<input, given, data, flushing>>
heatshrink == <<window_sz2, lookahead_sz2, decoder, hsd, got>>
python == <<number_of_indata_bytes_left, indata, outdata,
            number_of_scattered_bytes_left, buf, pc>>
vars == <<compression, interface, compressor, crle, heatshrink, lzma, python>>

C == INSTANCE CrleReader
H == INSTANCE Heatshrink WITH Streams <- HeatshrinkStreams
L == INSTANCE Lzma WITH Streams <- LzmaStreams
P == INSTANCE CrleDecompressor WITH pos <- taken

ASSUME CrleAssumption == C!CrleAssumption /\ C!ReaderAssumption
ASSUME DecompressorAssumption == P!DecompressorAssumption
ASSUME StreamsAssumption == H!StreamsAssumption /\ L!StreamsAssumption

\* The state of the readers that are not selected.
No == "unused"
NoCompressor == input = No /\ given = No /\ data = No /\ flushing = No
NoCrle == crle = No
NoHeatshrink ==
    /\ window_sz2 = No /\ lookahead_sz2 = No
    /\ decoder = No /\ hsd = No /\ got = No
NoLzma == lzma = No
NoPython ==
    /\ number_of_indata_bytes_left = No /\ indata = No /\ outdata = No
    /\ number_of_scattered_bytes_left = No /\ buf = No /\ pc = No

\* patch_reader_init: an unknown compression is an error, and so is a decoder of
\* liblzma that cannot be had.
Rejected ==
    /\ stream = No /\ fed = 0 /\ taken = 0 /\ wanted = 0 /\ out = <<>>
    /\ res = "error" /\ destroyed = "no"

Init ==
    \/ compression = "crle" /\ C!Init /\ NoHeatshrink /\ NoLzma /\ NoPython
    \/ compression = "heatshrink" /\ H!Init /\ NoCompressor /\ NoCrle /\ NoLzma /\ NoPython
    \/ compression = "lzma" /\ L!Init /\ NoCompressor /\ NoCrle /\ NoHeatshrink /\ NoPython
    \/ /\ compression = "python"
       /\ P!Init /\ fed = 0 /\ res = "none" /\ destroyed = "no"
       /\ NoCrle /\ NoHeatshrink /\ NoLzma
    \/ /\ compression = "bad"
       /\ Rejected /\ NoCompressor /\ NoCrle /\ NoHeatshrink /\ NoLzma /\ NoPython

Crle ==
    /\ compression = "crle" /\ C!Next
    /\ UNCHANGED <<compression, heatshrink, lzma, python>>

Heatshrink ==
    /\ compression = "heatshrink" /\ H!Next
    /\ UNCHANGED <<compression, compressor, crle, lzma, python>>

Lzma ==
    /\ compression = "lzma" /\ L!Next
    /\ UNCHANGED <<compression, compressor, crle, heatshrink, python>>

Python ==
    /\ compression = "python" /\ P!Next
    /\ UNCHANGED <<compression, fed, res, destroyed, crle, heatshrink, lzma>>

\* patch_reader_dump does not know how to dump a decoder that is allocated.
Dumpable ==
    \/ compression = "crle"
    \/ compression = "heatshrink" /\ ~stream.dynamic

\* A reader that is dumped is restored as it was, but for pointers that are set
\* anew: patch_reader_restore.
Restore ==
    /\ Dumpable
    /\ \/ compression = "heatshrink" /\ H!Restore
       \/ compression = "crle" /\ wanted = 0 /\ UNCHANGED <<interface, heatshrink>>
    /\ UNCHANGED <<compression, compressor, crle, lzma, python>>

Next == Crle \/ Heatshrink \/ Lzma \/ Python \/ Restore

Spec == Init /\ [][Next]_vars

-----------------------------------------------------------------------------
\* The data that was compressed.
Data ==
    CASE compression \in {"crle", "python"} -> input
      [] compression = "heatshrink" -> stream.data
      [] compression = "lzma" -> L!Data
      [] OTHER -> <<>>

\* What finished calls have delivered: the heatshrink decoder writes to the
\* caller's buffer while the call goes on.
Delivered ==
    IF compression = "heatshrink" /\ wanted > 0 THEN SubSeq(out, 1, Len(out) - got)
    ELSE out

Failed == res \in {"error", "out_of_memory"} \/ pc = "error"

\* The Python reader returns the data or raises an exception.
Returned ==
    CASE Failed -> "error"
      [] ~Failed /\ compression = "python" /\ wanted > 0 -> "again"
      [] ~Failed /\ compression = "python" /\ wanted = 0 /\ out # <<>> -> "ok"
      [] OTHER -> res

Contract == INSTANCE PatchReader WITH
    data <- Data, left <- fed - (IF compression = "python" THEN fed ELSE taken),
    wanted <- wanted, out <- Delivered, res <- Returned

\* Every reader, however its stream is cut and however little is asked for in a
\* call, is a PatchReader: the comment above patch_reader_decompress.
KeepsContract == Contract!Spec

\* Nothing is lost or reordered between the segments of CRLE, which are written
\* before any of them is read.
Lossless ==
    compression \in {"crle", "python"} /\ fed = 0 /\ taken = 0 => C!Lossless

\* A reader asks for more only when it has delivered all that it can: CRLE and
\* heatshrink what they have read stands for.  LZMA, which delivers all that is
\* asked for or nothing and may leave data in the decoder as long as there is more
\* of the stream, has decompressed all of the data when it has read all of it.
NothingWithheld ==
    res = "more" =>
        CASE compression = "crle" -> taken = Len(stream) => out = input
          [] compression = "heatshrink" -> out = H!Expected
          [] compression = "lzma" -> taken = L!StreamSize => out \o lzma.output = Data

\* A stream that a creator wrote is never found corrupt.  The Python reader raises
\* its error only to a caller that wants more than there is, with all the rest in
\* its hands.
ErrorIsDeserved ==
    /\ res = "error" =>
          \/ compression = "bad"
          \/ compression = "heatshrink" /\ ~H!Accepted
          \/ compression = "lzma" /\ ~L!Good
    /\ pc = "error" => out \o buf = input /\ P!Eof

\* destroy, which has the last word on a patch, finds it whole when all that was
\* read has been delivered, whatever the padding looks like, and corrupt if not:
\* heatshrink at any time, LZMA when it has read all of the stream, of which it
\* delivers the last byte before it needs the end marker.  CRLE does not know.
FinishIsExact ==
    destroyed # "no" /\ ~Failed =>
        /\ compression = "heatshrink" /\ decoder = "ready" =>
              (destroyed = "ok" <=> out = H!Expected)
        /\ compression = "lzma" /\ taken = L!StreamSize =>
              (destroyed = "ok" <=> out = Data /\ L!Good)

\* apply.py takes `eof` for the end of the patch ("End of patch not found." without
\* it): it is set when, and not before, all has been returned.
EofIsEnd == pc = "idle" /\ input # <<>> => (P!Eof <=> out = input)
=============================================================================
