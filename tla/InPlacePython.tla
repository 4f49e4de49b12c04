--------------------------- MODULE InPlacePython ---------------------------
(***************************************************************************)
(* The in-place patch in Python: how its creator lays it out               *)
(* (create_patch_in_place in detools/create.py) and how it is applied      *)
(* (apply_patch_in_place in detools/apply.py).  The creator chooses how    *)
(* far the old image is shifted and makes a patch of every segment from    *)
(* the old bytes that are still there when it is written; the applier      *)
(* works out where they are from the numbers in the header.                *)
(*                                                                         *)
(* Cells of the memory say what they are a copy of, as in InPlace.  The    *)
(* records of a segment are any that create_chunks may return for its      *)
(* pieces; each is chosen when the applier comes to it, which is the same  *)
(* as when the patch is created, since neither depends on the memory.      *)
(***************************************************************************)
EXTENDS Integers

CONSTANTS
    Requests,    \* records [memory, segment, minimum, from, to : Int]
    MaxRecords,  \* bound: records of a segment
    ChunkSize    \* 4096 in iter_chunks

\* The minimum shift size that is not given.
None == -1

ASSUME RequestsAssumption ==
    /\ MaxRecords \in Nat \ {0} /\ ChunkSize \in Nat \ {0}
    /\ \A r \in Requests : /\ r.segment \in Nat \ {0}
                           /\ r.memory \in Nat /\ r.minimum \in Nat \cup {None}
                           /\ r.from \in 0 .. r.memory /\ r.to \in 0 .. r.memory

VARIABLES
    request,      \* the arguments of create_patch_in_place
    header,       \* the header of the patch: its shift_size
    doing,        \* what comes next
    mem,          \* the memory file
    index,        \* the segment being applied
    record, rec,  \* the record being applied, and how many of the segment have begun
    old_pos,      \* where the creator stood in the old image
    from_offset,  \* where the applier reads
    to_pos,       \* cells of the segment written
    left          \* cells of the current data that are not written yet

patch == <<request, header>>
piece == <<index, record, rec>>
vars == <<patch, doing, mem, piece, old_pos, from_offset, to_pos, left>>

MinOf(a, b) == IF a <= b THEN a ELSE b
MaxOf(a, b) == IF a >= b THEN a ELSE b
div_ceil(a, b) == (a + b - 1) \div b

Old(a) == <<"old", a>>
New(t) == <<"new", t>>
Garbage == <<"garbage", 0>>

-----------------------------------------------------------------------------
minimum_shift_size ==
    IF request.minimum = None THEN 2 * request.segment ELSE request.minimum

\* Mutant: the free bytes are not rounded to segments.
UnroundedShift == MaxOf(request.memory - request.from, minimum_shift_size)

\* calc_shift
CalcShift ==
    LET shift_segments == div_ceil(request.memory, request.segment)
                             - div_ceil(request.from, request.segment)
    IN  MaxOf(shift_segments * request.segment, minimum_shift_size)

\* The first old byte used for segment s.
FirstFrom(s) == MaxOf(s * request.segment + request.segment - header, 0)

\* from_data[:shifted_size][from_offset:], and the segment of to_data.
Kept == MinOf(request.from, request.memory - header)
OldPiece(s) == MaxOf(Kept - FirstFrom(s), 0)
NewPiece(s) == MinOf(request.segment, request.to - s * request.segment)

\* The records that create_chunks may return next for segment s, when the ones before
\* led to a position in the old piece and made some bytes of the new one: they stay
\* in the old piece, and none is left when the new one is made.
PossibleRecords(s, position, made, number) ==
    {r \in [diff : 0 .. NewPiece(s), extra : 0 .. NewPiece(s),
            adjust : -OldPiece(s) .. OldPiece(s)] :
        /\ position + r.diff <= OldPiece(s)
        /\ position + r.diff + r.adjust \in 0 .. OldPiece(s)
        /\ made + r.diff + r.extra <= NewPiece(s)
        /\ number = MaxRecords => made + r.diff + r.extra = NewPiece(s)}

-----------------------------------------------------------------------------
\* The memory holds the old image, and whatever else.
Init ==
    /\ request \in Requests
    /\ header = 0
    /\ doing = "create"
    /\ mem = [a \in 0 .. request.memory - 1 |->
                 IF a < request.from THEN Old(a) ELSE Garbage]
    /\ index = 0 /\ record = [diff |-> 0, extra |-> 0, adjust |-> 0] /\ rec = 0
    /\ old_pos = 0 /\ from_offset = 0 /\ to_pos = 0 /\ left = 0

\* Sizes that are not multiples of the segment size are refused.
Refused ==
    \/ request.memory % request.segment # 0
    \/ minimum_shift_size % request.segment # 0

Create ==
    /\ doing = "create"
    /\ header' = CalcShift
    /\ doing' = IF Refused THEN "refused" ELSE "apply"
    /\ UNCHANGED <<request, mem, piece, old_pos, from_offset, to_pos, left>>

\* Mutant: cells are copied one by one, from the first on, over those to copy.
ShiftForward ==
    /\ doing = "apply"
    /\ IF request.to = 0
       THEN doing' = "done" /\ UNCHANGED mem
       ELSE /\ doing' = "segment"
            /\ mem' = [a \in DOMAIN mem |->
                          IF a \in header .. header + Kept - 1 THEN mem[(a - header) % header]
                          ELSE mem[a]]
    /\ UNCHANGED <<patch, piece, old_pos, from_offset, to_pos, left>>

\* shift_memory, for an image that is not empty.
ShiftMemory ==
    /\ doing = "apply"
    /\ IF request.to = 0
       THEN doing' = "done" /\ UNCHANGED mem
       ELSE /\ doing' = "segment"
            /\ mem' = [a \in DOMAIN mem |->
                          IF a \in header .. header + Kept - 1 THEN mem[a - header]
                          ELSE mem[a]]
    /\ UNCHANGED <<patch, piece, old_pos, from_offset, to_pos, left>>

\* Mutant: where the shifted old image begins is forgotten.
UnshiftedOffset(s) == request.segment * (s + 1)

\* Where the applier reads for segment s.
FromOffset(s) == MaxOf(request.segment * (s + 1), header)

\* The next turn of the loop over the segments.
BeginSegment ==
    /\ doing = "segment"
    /\ IF index * request.segment < request.to
       THEN /\ record' \in PossibleRecords(index, 0, 0, 1)
            /\ rec' = 1
            /\ old_pos' = FirstFrom(index)
            /\ from_offset' = FromOffset(index)
            /\ to_pos' = 0
            /\ left' = record'.diff
            /\ doing' = "diff"
       ELSE doing' = "done" /\ UNCHANGED <<record, rec, old_pos, from_offset, to_pos, left>>
    /\ UNCHANGED <<patch, mem, index>>

\* A byte of diff data, made for new byte t from old byte f, added to a cell.
AddDiff(v, f, t) == IF v = Old(f) THEN New(t) ELSE Garbage

Chunk == MinOf(left, ChunkSize)
Target == index * request.segment + to_pos

\* A chunk of new cells is written.
Written(cells) ==
    [a \in DOMAIN mem |->
        IF a \in Target .. Target + Chunk - 1 THEN cells[a - Target] ELSE mem[a]]

\* A turn of the loop over the diff chunks.
DiffChunk ==
    /\ doing = "diff" /\ left > 0
    /\ mem' = Written([k \in 0 .. Chunk - 1 |->
                          AddDiff(mem[from_offset + k], old_pos + k, Target + k)])
    /\ old_pos' = old_pos + Chunk
    /\ from_offset' = from_offset + Chunk
    /\ to_pos' = to_pos + Chunk
    /\ left' = left - Chunk
    /\ UNCHANGED <<patch, doing, piece>>

DiffDone ==
    /\ doing = "diff" /\ left = 0
    /\ doing' = "extra"
    /\ left' = record.extra
    /\ UNCHANGED <<patch, mem, piece, old_pos, from_offset, to_pos>>

\* A turn of the loop over the extra chunks.
ExtraChunk ==
    /\ doing = "extra" /\ left > 0
    /\ mem' = Written([k \in 0 .. Chunk - 1 |-> New(Target + k)])
    /\ to_pos' = to_pos + Chunk
    /\ left' = left - Chunk
    /\ UNCHANGED <<patch, doing, piece, old_pos, from_offset>>

\* The adjustment, and the next record or segment.
Adjustment ==
    /\ doing = "extra" /\ left = 0
    /\ old_pos' = old_pos + record.adjust
    /\ from_offset' = from_offset + record.adjust
    /\ IF to_pos < NewPiece(index)
       THEN /\ record' \in PossibleRecords(index, old_pos + record.adjust - FirstFrom(index),
                                         to_pos, rec + 1)
            /\ rec' = rec + 1
            /\ left' = record'.diff
            /\ doing' = "diff"
            /\ UNCHANGED index
       ELSE /\ index' = index + 1
            /\ doing' = "segment"
            /\ UNCHANGED <<record, rec, left>>
    /\ UNCHANGED <<patch, mem, to_pos>>

Idle == doing \in {"done", "refused"} /\ UNCHANGED vars

Next ==
    \/ Create \/ ShiftMemory \/ BeginSegment \/ DiffChunk \/ DiffDone \/ ExtraChunk
    \/ Adjustment \/ Idle

Spec == Init /\ [][Next]_vars

-----------------------------------------------------------------------------
\* When the applier returns, the memory holds the new image, whatever the records
\* and wherever the old image ends in its segment.
MemoryIsImage ==
    doing = "done" => \A t \in 0 .. request.to - 1 : mem[t] = New(t)

\* The header of a created patch has the geometry that the C applier works on (the
\* assumptions of InPlace): the shift is a whole number of segments, at least one,
\* and leaves room for what is kept of the old image.
HeaderFitsInPlace ==
    doing \notin {"create", "refused"} =>
        /\ request.memory % request.segment = 0
        /\ header % request.segment = 0
        /\ header \in request.segment .. request.memory
        /\ div_ceil(Kept, request.segment) * request.segment + header <= request.memory

\* The old cells that the records of a segment and of those after it refer to are
\* in the memory, where the applier reads, until the segment is written.
OldIsThere ==
    doing = "segment" =>
        \A f \in FirstFrom(index) .. Kept - 1 : mem[f + header] = Old(f)
=============================================================================
