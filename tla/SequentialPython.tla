-------------------------- MODULE SequentialPython --------------------------
(***************************************************************************)
(* A sequential patch in Python: the creator encodes the images in the     *)
(* data format, if one is given (create_patch_sequential_data in           *)
(* detools/create.py), and apply_patch_sequential (detools/apply.py) reads *)
(* the patch and writes the new image.                                     *)
(*                                                                         *)
(* The sections of a patch are any that make the encoded new image of the  *)
(* encoded old one, which Bsdiff shows of its creator; each is chosen when *)
(* it is read.  A patch may be cut short, may say a wrong size in its      *)
(* header, or may be applied to another image than it was made for.        *)
(* PatchReader.decompress raises an exception where a patch ends too       *)
(* early; its decompressors are in PatchReaders.                           *)
(***************************************************************************)
EXTENDS DataFormat

CONSTANTS
    Faults,      \* what is wrong: records [cut : BOOLEAN, size : Int, old : Int]
    Formats,     \* whether a data format is given: a subset of BOOLEAN
    Lengths(_),  \* bound: the lengths of diff and extra data tried where n bytes are left
    Places(_),   \* bound: the places in an old image of n bytes tried
    ChunkSize    \* 4096 in iter_chunks

ASSUME SequentialPythonAssumption ==
    /\ MinBlockSize \in Nat \ {0} /\ ChunkSize \in Nat \ {0}
    /\ Formats \subseteq BOOLEAN
    /\ Faults \subseteq [cut : BOOLEAN, size : Int, old : Nat]
    /\ \A p \in Programs : /\ {p.from, p.to} \subseteq Seq(0 .. 255)
                          /\ {p.segment.from, p.segment.to} \subseteq Segment

VARIABLES
    format,      \* a data format is given
    fault,       \* cut: the patch ends too early; size: what the size in the header
                 \* is too much; old: by how many bytes the old image is too short
    doing,       \* what the applier does next, or how it ended
    old,         \* what the applier reads of the old image: the file or the FromReader
    dfdiff,      \* the contents of the DiffReader
    from_pos,    \* where it stands in the old image
    output,      \* what is written
    section,     \* the section being read: [diff, extra : its lengths, next : where the
                 \* old image is read after it, first : where its diff starts]
    offset       \* bytes of the current data that are written

apply_vars == <<fault, format, doing, old, dfdiff, from_pos, output, section, offset>>
vars == <<encode_vars, apply_vars>>

to_size == Len(program.to) + fault.size
to_pos == Len(output)
NoSection == [diff |-> 0, extra |-> 0, next |-> 0, first |-> 0]

Init ==
    /\ EncodeInit
    /\ format \in Formats
    /\ fault \in Faults
    /\ doing = "create"
    /\ old = SubSeq(program.from, 1, Len(program.from) - fault.old)
    /\ dfdiff = <<>>
    /\ from_pos = 0 /\ output = <<>> /\ section = NoSection /\ offset = 0

Unread == UNCHANGED <<fault, format, old, dfdiff, from_pos, output, section, offset>>

-----------------------------------------------------------------------------
\* Nothing is encoded, or written after the header, for an empty new image.
Empty == program.to = <<>>

Encode ==
    /\ doing = "create" /\ format /\ ~ Empty
    /\ EncodeKind
    /\ UNCHANGED apply_vars

Created ==
    /\ doing = "create" /\ (format => Encoded \/ Empty)
    /\ doing' = "header"
    /\ Unread /\ UNCHANGED encode_vars

Raise(error) == /\ doing' = error
                /\ UNCHANGED encode_vars

\* Where the patch is cut, whatever is read next is not there.
OutOfPatchData ==
    /\ fault.cut \/ (Empty /\ doing = "readers")
    /\ doing \in {"header", "readers", "diff_size", "diff", "extra"}
    /\ Raise("Error") /\ Unread

\* read_header_sequential; nothing more of the patch is read for an empty image.
ReadHeader ==
    /\ doing = "header"
    /\ doing' = IF to_size = 0 THEN "returned" ELSE "readers"
    /\ Unread /\ UNCHANGED encode_vars

\* create_data_format_readers
CreateReaders ==
    /\ doing = "readers" /\ ~ Empty
    /\ IF format
       THEN LET readers == Readers(old, to_size)
            IN  IF readers.raised THEN doing' = "Exception" /\ UNCHANGED <<old, dfdiff>>
                ELSE /\ doing' = "diff_size"
                     /\ old' = readers.from /\ dfdiff' = readers.diff
       ELSE doing' = "diff_size" /\ UNCHANGED <<old, dfdiff>>
    /\ UNCHANGED <<encode_vars, fault, format, from_pos, output, section, offset>>

\* The sections that may come next: their data make the new image as it is encoded,
\* and all but the first are not empty.
Sections ==
    {s \in [diff : Lengths(Len(fto) - to_pos) \cap Nat, extra : Lengths(Len(fto) - to_pos) \cap Nat,
            next : Places(Len(ffrom)) \cap Nat, first : {section.next}] :
        /\ s.next <= Len(ffrom)
        /\ s.first + s.diff <= Len(ffrom)
        /\ to_pos + s.diff + s.extra <= Len(fto)
        /\ s.diff + s.extra = 0 => to_pos = 0 /\ section = NoSection /\ s.next # 0}

\* The head of the while loop, and the size of the diff data; a longer new image than
\* the one that is encoded cannot be read, and the stream is at its end.
MoreToRead == to_pos < to_size /\ to_pos < Len(fto)

\* Mutants: the size alone is compared; a section may not fill the image.
TooLongAlone(size) == size > to_size
TooLongOrFull(size) == to_pos + size >= to_size

TooLong(size) == to_pos + size > to_size

\* Mutant: the end of the patch is not looked for.
EndIgnored == TRUE

\* The decompressor has come to the end of the patch.
eof == to_pos = Len(fto) /\ ~ fault.cut

ReadDiffSize ==
    /\ doing = "diff_size"
    /\ \/ /\ MoreToRead
          /\ section' \in Sections
          /\ doing' = IF TooLong(section'.diff) THEN "Error" ELSE "diff"
       \/ /\ to_pos < to_size /\ to_pos = Len(fto)
          /\ doing' = "Error"
          /\ UNCHANGED section
       \/ /\ to_pos >= to_size
          /\ doing' = IF eof THEN "returned" ELSE "Error"
          /\ UNCHANGED section
    /\ offset' = 0
    /\ UNCHANGED <<encode_vars, fault, format, old, dfdiff, from_pos, output>>

\* The diff data of the section, which is that of the images as they are encoded.
DiffData(at, n) ==
    [i \in 1 .. n |-> (fto[to_pos + i] - ffrom[at + i] + 256) % 256]

\* What is added when there is a DiffReader, which stands at to_pos too.
WithDiff(data) ==
    IF format THEN AddBytes(data, SubSeq(dfdiff, to_pos + 1, to_pos + Len(data))) ELSE data

ChunkOf(size) == Min({size - offset, ChunkSize})

DiffChunk ==
    /\ doing = "diff" /\ offset < section.diff
    /\ LET n == ChunkOf(section.diff)
           from_data == ReadAt(old, from_pos, n)
           data == AddBytes(DiffData(section.first + offset, n), from_data)
       IN  /\ from_pos' = from_pos + Len(from_data)
           /\ IF data = <<>>
              THEN doing' = "Exception" /\ UNCHANGED <<output, offset>>
              ELSE /\ output' = output \o WithDiff(data)
                   /\ offset' = offset + n
                   /\ UNCHANGED doing
    /\ UNCHANGED <<encode_vars, fault, format, old, dfdiff, section>>

ReadExtraSize ==
    /\ doing = "diff" /\ offset = section.diff
    /\ doing' = IF TooLong(section.extra) THEN "Error" ELSE "extra"
    /\ offset' = 0
    /\ UNCHANGED <<encode_vars, fault, format, old, dfdiff, from_pos, output, section>>

ExtraChunk ==
    /\ doing = "extra" /\ offset < section.extra
    /\ LET n == ChunkOf(section.extra)
       IN  /\ output' = output \o WithDiff(SubSeq(fto, to_pos + 1, to_pos + n))
           /\ offset' = offset + n
    /\ UNCHANGED <<encode_vars, fault, format, doing, old, dfdiff, from_pos, section>>

\* Mutant: the diff data do not move the place in the old image.
AdjustFromStart ==
    /\ doing = "extra" /\ offset = section.extra
    /\ from_pos' = from_pos + section.next - section.first
    /\ doing' = "diff_size"
    /\ UNCHANGED <<encode_vars, fault, format, old, dfdiff, output, section, offset>>

\* The adjustment is what the creator would seek in the old image it had.
Adjust ==
    /\ doing = "extra" /\ offset = section.extra
    /\ from_pos' = from_pos + section.next - (section.first + section.diff)
    /\ doing' = "diff_size"
    /\ UNCHANGED <<encode_vars, fault, format, old, dfdiff, output, section, offset>>

Ended == doing \in {"returned", "Error", "Exception"}
Idle == Ended /\ UNCHANGED vars

Next ==
    \/ Encode \/ Created \/ OutOfPatchData \/ ReadHeader \/ CreateReaders
    \/ ReadDiffSize \/ DiffChunk \/ ReadExtraSize \/ ExtraChunk \/ Adjust
    \/ Idle

Spec == Init /\ [][Next]_vars

-----------------------------------------------------------------------------
(* Properties *)

Applicable == fault.old = 0

\* The data format: with the old image for which the patch is made, the FromReader
\* holds the old image as the creator encoded it, and the DiffReader what is to be added
\* to the new one as it is encoded to get the new image, all of it (encode in
\* data_format/__init__.py: the patch "can be used to convert the new from-data to the
\* original to-data later"); no exception is raised on the way.
ReadersConvert ==
    format /\ Applicable =>
        /\ doing \in {"diff_size", "diff", "extra"} =>
              /\ old = ffrom
              /\ dfdiff \in Seq(0 .. 255) /\ Len(dfdiff) >= to_size
              /\ \A i \in DOMAIN fto : i <= to_size =>
                    (fto[i] + dfdiff[i]) % 256 = program.to[i]
        /\ doing # "Exception"

\* What is written is the new image from its start at all times, wherever the patch is
\* cut and whatever size its header says.
OutputIsImage == Applicable => IsPrefix(output, program.to)

\* apply_patch_sequential returns only with all of the new image written, unless a
\* header says that it is empty: never for a patch that is cut or says a wrong size,
\* and never for one whose differences reach past the end of the old image.
ReturnsOnlyWhole ==
    doing = "returned" /\ to_size > 0 => to_pos = Len(program.to) /\ to_size = to_pos

\* Not more than the size that is announced is ever written.
OutputBounded == to_pos <= Max({to_size, 0})

\* A patch with nothing wrong is applied without an error (and the applier is never
\* stuck before its end): what it returns with is the new image.
GenuineApplies ==
    Applicable /\ fault.size = 0 /\ ~ fault.cut /\ Ended =>
        doing = "returned" /\ output = program.to
=============================================================================
