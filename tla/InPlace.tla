------------------------------ MODULE InPlace ------------------------------
(***************************************************************************)
(* The in-place applier of c/detools.c: a new image is built on top of the *)
(* old one in a segmented memory (typically flash), step by step.  The     *)
(* old image is first shifted towards the end of the memory, one segment   *)
(* per step and the last one first; then the new image is written segment  *)
(* by segment from the start of the memory, its diff data read from the    *)
(* shifted old image.  The number of the last completed step is stored by  *)
(* the host (step_set, step_get), so that an interrupted update can start  *)
(* over and skip what is already done.                                     *)
(*                                                                         *)
(* mem and step survive a crash, the applier object does not.  Every call  *)
(* of mem_erase, mem_write and step_set is an action of its own, because a *)
(* crash may happen before, after and (leaving any part of the cells it    *)
(* touches undefined) during it.                                           *)
(*                                                                         *)
(* A cell is an opaque piece of the buffer size or smaller.  Its value says *)
(* what it is a copy of: cell a of the old memory, cell t of the new image, *)
(* erased, or garbage.  The patch is the sequence of diff, extra and       *)
(* adjustment records its creator wrote for every segment; the chunks it   *)
(* arrives in do not matter to the memory and belong to the module of the  *)
(* sequential applier.                                                     *)
(***************************************************************************)
EXTENDS Integers, Sequences

CONSTANTS
    SegmentSize,     \* segment_size, in cells
    MemorySegments,  \* memory_size / segment_size
    ShiftSegments,   \* shift_size / segment_size
    FromSize,        \* from_size
    ToSize,          \* to_size
    BufferSize,      \* sizeof(buf), sizeof(to) and sizeof(from)
    Patches,         \* the patches the host may hold
    HasSteps,        \* step_set and step_get are not NULL
    MaxFaults,       \* bound: crashes and failing callbacks in a behaviour
    LateCrash,       \* a crash may hit between step_set(0) and the host's
                     \* own record that the update is complete
    HeaderWhole      \* the first chunk of the patch holds the whole header

\* The address of segment k, k * segment_size in the code.
At(k) == k * SegmentSize

MemorySize == At(MemorySegments)
ShiftSize == At(ShiftSegments)
Addr == 0 .. MemorySize - 1
Image == 0 .. ToSize - 1

MinOf(a, b) == IF a <= b THEN a ELSE b
MaxOf(a, b) == IF a >= b THEN a ELSE b
DivCeil(a, b) == (a + b - 1) \div b

\* The old cells that are still there after the shift.
Kept == MinOf(FromSize, MemorySize - ShiftSize)

\* Mutant: the last, partial segment of the old image is not counted.
RoundedDownShiftCount == Kept \div SegmentSize

\* number_of_segments of in_place_shift_memory.
ShiftCount == DivCeil(Kept, SegmentSize)

\* The segments of the new image.
SegmentCount == DivCeil(ToSize, SegmentSize)

ASSUME SizesAssumption ==
    /\ SegmentSize \in Nat \ {0}
    /\ BufferSize \in Nat \ {0}
    /\ MemorySegments \in Nat
    /\ ShiftSegments \in 1 .. MemorySegments
    /\ FromSize \in 0 .. MemorySize
    /\ ToSize \in 0 .. MemorySize
    /\ MaxFaults \in Nat
    /\ HasSteps \in BOOLEAN
    /\ LateCrash \in BOOLEAN
    /\ HeaderWhole \in BOOLEAN

(***************************************************************************)
(* Memory cells.                                                           *)
(***************************************************************************)
Old(a) == <<"old", a>>
New(t) == <<"new", t>>
Erased == <<"erased", 0>>
Garbage == <<"garbage", 0>>
Cell == {Old(a) : a \in Addr} \cup {New(t) : t \in Image} \cup {Erased, Garbage}

(***************************************************************************)
(* Patches.  A patch maps a segment to its records.  A record turns the    *)
(* diff old cells from `from` on into the new cells from `to` on, adds     *)
(* extra new cells, and moves the old position by adjust.  `from` (in the  *)
(* old image) and `to` (in the segment) are where the creator stood when   *)
(* it wrote the record: they give the diff data its meaning and are not    *)
(* part of the file.                                                       *)
(***************************************************************************)
SegmentToSize(s) == MinOf(SegmentSize, ToSize - At(s))

\* The first old cell the creator uses for segment s: the segments before it,
\* and itself, are gone by then.
FirstFrom(s) == MaxOf(At(s + 1) - ShiftSize, 0)

Record == [from : Int, to : Nat, diff : Nat, extra : Nat, adjust : Int]

WellFormedSegment(rs, s) ==
    /\ rs \in Seq(Record)
    /\ rs # <<>>
    /\ rs[1].from = FirstFrom(s) /\ rs[1].to = 0
    /\ \A k \in 1 .. Len(rs) :
          LET r == rs[k]
          IN  /\ r.diff > 0 => FirstFrom(s) <= r.from /\ r.from + r.diff <= Kept
              /\ IF k < Len(rs)
                 THEN /\ rs[k + 1].from = r.from + r.diff + r.adjust
                      /\ rs[k + 1].to = r.to + r.diff + r.extra
                      /\ rs[k + 1].to < SegmentToSize(s)
                 ELSE r.to + r.diff + r.extra = SegmentToSize(s)

WellFormed(p) ==
    /\ DOMAIN p = 0 .. SegmentCount - 1
    /\ \A s \in DOMAIN p : WellFormedSegment(p[s], s)

ASSUME PatchesAssumption == \A p \in Patches : WellFormed(p)

\* A byte of diff data for new cell t, made from old cell f, added to a cell.
AddDiff(v, f, t) == IF v = Old(f) THEN New(t) ELSE Garbage

-----------------------------------------------------------------------------
VARIABLES
    mem,         \* the memory
    step,        \* the step stored by step_set
    applied,     \* the host has recorded that the update is complete
    patch,       \* the stored patch; it never changes
    faults,      \* crashes and failing callbacks so far
    state,       \* state of the applier; "off" when there is none
    init_state,  \* number of header fields read so far
    header,      \* "split" if an earlier chunk held a part of the header
    ongoing,     \* ongoing_step
    i,           \* locals i and offset of in_place_shift_memory
    offset,
    segment,     \* segment being written
    to_pos,
    chunk_size,
    rec          \* the record of the segment the patch reader stands at

persistent == <<mem, step, applied, patch, faults>>
volatile == <<state, init_state, header, ongoing, i, offset, segment, to_pos,
              chunk_size, rec>>
vars == <<persistent, volatile>>

NoSegment == [index |-> 0, from_offset |-> 0, to_offset |-> 0, to_size |-> 0,
              to_pos |-> 0]

Init ==
    /\ mem = [a \in Addr |-> Old(a)]
    /\ step = 0
    /\ applied = FALSE
    /\ patch \in Patches
    /\ faults = 0
    /\ state = "off"
    /\ init_state = 0
    /\ header = "whole"
    /\ ongoing = 0
    /\ i = 0
    /\ offset = 0
    /\ segment = NoSegment
    /\ to_pos = 0
    /\ chunk_size = 0
    /\ rec = 0

(***************************************************************************)
(* The memory and step callbacks behind their in_place_* wrappers.         *)
(***************************************************************************)

\* in_place_is_step_completed
StepCompleted == HasSteps /\ ongoing <= step

Cells(first, size) == first .. first + size - 1

\* in_place_mem_read: nothing is read when the step is completed.
Read(a) == IF a \in Addr /\ ~StepCompleted THEN mem[a] ELSE Garbage

\* in_place_mem_write and in_place_mem_erase: nothing when the step is completed.
Write(first, size, data) ==
    mem' = IF StepCompleted THEN mem
           ELSE [a \in Addr |-> IF a \in Cells(first, size) THEN data[a]
                                ELSE mem[a]]

\* Mutant: the last cell is not erased.
ShortErase(first, size) ==
    Write(first, size - 1, [a \in Cells(first, size - 1) |-> Erased])

Erase(first, size) == Write(first, size, [a \in Cells(first, size) |-> Erased])

\* in_place_next_step
NextStep ==
    /\ step' = IF HasSteps /\ ~StepCompleted THEN ongoing ELSE step
    /\ ongoing' = ongoing + 1

(***************************************************************************)
(* The host starts, or after a crash or an error restarts, the update, and *)
(* feeds it the stored patch from its beginning.                           *)
(***************************************************************************)
Initialize ==
    /\ state = "off" /\ ~applied
    /\ state' = "init"
    /\ init_state' = 0
    /\ header' = "whole"
    /\ ongoing' = 1
    /\ UNCHANGED <<persistent, i, offset, segment, to_pos, chunk_size, rec>>

HeaderFields == 6  \* type, memory, segment, shift, from and to size

\* The handlers of the header fields before the last one.  The chunk may end
\* with the field or in the next one.
HeaderField ==
    /\ state = "init" /\ init_state < HeaderFields - 1
    /\ init_state' = init_state + 1
    /\ header' \in {header} \cup (IF HeaderWhole THEN {} ELSE {"split"})
    /\ UNCHANGED <<persistent, state, ongoing, i, offset, segment, to_pos,
                   chunk_size, rec>>

\* in_place_process_init_to_size up to the loop of in_place_shift_memory.
HeaderToSize ==
    /\ state = "init" /\ init_state = HeaderFields - 1
    /\ to_pos' = 0
    /\ segment' = [segment EXCEPT !.index = 0]
    /\ i' = 0
    /\ state' = IF ToSize = 0 THEN "done"
                ELSE IF ShiftCount = 0 THEN "dfpatch_size"
                ELSE "shift_erase"
    /\ UNCHANGED <<persistent, init_state, header, ongoing, offset, chunk_size, rec>>

(***************************************************************************)
(* in_place_shift_memory                                                   *)
(***************************************************************************)
ReadAddress == At(ShiftCount - 1 - i)
WriteAddress == ReadAddress + ShiftSize
CopySize == MinOf(BufferSize, SegmentSize - offset)

ShiftErase ==
    /\ state = "shift_erase"
    /\ Erase(WriteAddress, SegmentSize)
    /\ offset' = 0
    /\ state' = "shift_copy"
    /\ UNCHANGED <<step, applied, patch, faults, init_state, header, ongoing, i, segment,
                   to_pos, chunk_size, rec>>

ShiftCopy ==
    /\ state = "shift_copy" /\ offset < SegmentSize
    /\ Write(WriteAddress + offset, CopySize,
             [a \in Cells(WriteAddress + offset, CopySize) |->
                 Read(a - WriteAddress + ReadAddress)])
    /\ offset' = offset + CopySize
    /\ UNCHANGED <<step, applied, patch, faults, state, init_state, header, ongoing, i,
                   segment, to_pos, chunk_size, rec>>

ShiftStep ==
    /\ state = "shift_copy" /\ offset = SegmentSize
    /\ NextStep
    /\ i' = i + 1
    /\ state' = IF i + 1 < ShiftCount THEN "shift_erase" ELSE "dfpatch_size"
    /\ UNCHANGED <<mem, applied, patch, faults, init_state, header, offset, segment,
                   to_pos, chunk_size, rec>>

(***************************************************************************)
(* The segments of the new image.                                          *)
(***************************************************************************)

\* in_place_process_dfpatch_size
DfpatchSize ==
    /\ state = "dfpatch_size"
    /\ LET s == segment.index
       IN  /\ segment' = [index |-> s + 1,
                          from_offset |-> MaxOf(At(s + 1), ShiftSize),
                          to_offset |-> At(s),
                          to_size |-> SegmentToSize(s),
                          to_pos |-> 0]
           /\ Erase(At(s), SegmentToSize(s))
    /\ rec' = 1
    /\ state' = "diff_size"
    /\ UNCHANGED <<step, applied, patch, faults, init_state, header, ongoing, i, offset,
                   to_pos, chunk_size>>

CurrentRecord == patch[segment.index - 1][rec]

\* in_place_process_size: a size beyond the end of the image is refused, which
\* no size of a well-formed patch is.
ProcessSize(from, size, to) ==
    /\ state = from
    /\ LET refused == to_pos + size > ToSize
       IN  /\ chunk_size' = IF refused THEN chunk_size ELSE size
           /\ state' = IF refused THEN "failed" ELSE to
    /\ UNCHANGED <<persistent, init_state, header, ongoing, i, offset, segment, to_pos, rec>>

DiffSize == ProcessSize("diff_size", CurrentRecord.diff, "diff_data")
ExtraSize == ProcessSize("extra_size", CurrentRecord.extra, "extra_data")

\* Mutant: an empty chunk is not skipped, and the patch reader asked for nothing.
StuckChunkEnd(from, to) == state = from /\ chunk_size = 0 /\ UNCHANGED vars

\* in_place_process_data at the end of a chunk.
ChunkEnd(from, to) ==
    /\ state = from /\ chunk_size = 0
    /\ state' = to
    /\ UNCHANGED <<persistent, init_state, header, ongoing, i, offset, segment, to_pos,
                   chunk_size, rec>>

DiffEnd == ChunkEnd("diff_data", "extra_size")
ExtraEnd == ChunkEnd("extra_data", "adjustment")

\* What in_place_process_data does to the positions after it wrote size cells.
Advance(size) ==
    /\ to_pos' = to_pos + size
    /\ chunk_size' = chunk_size - size
    /\ UNCHANGED <<step, applied, patch, faults, state, init_state, header, ongoing, i,
                   offset, rec>>

WritePosition == segment.to_offset + segment.to_pos

\* in_place_process_data for diff data.  The patch reader delivers at least one
\* cell and at most what fits in the buffer.
DiffData ==
    /\ state = "diff_data"
    /\ \E size \in 1 .. MinOf(BufferSize, chunk_size) :
          LET done == CurrentRecord.diff - chunk_size
              Sum == [a \in Cells(WritePosition, size) |->
                        LET k == a - WritePosition
                        IN  AddDiff(Read(segment.from_offset + k),
                                    CurrentRecord.from + done + k,
                                    At(segment.index - 1) + CurrentRecord.to
                                        + done + k)]
          IN  /\ Write(WritePosition, size, Sum)
              /\ segment' = [segment EXCEPT !.from_offset = @ + size,
                                            !.to_pos = @ + size]
              /\ Advance(size)

\* in_place_process_data for extra data.
ExtraData ==
    /\ state = "extra_data"
    /\ \E size \in 1 .. MinOf(BufferSize, chunk_size) :
          LET done == CurrentRecord.extra - chunk_size
              Copy == [a \in Cells(WritePosition, size) |->
                        New(At(segment.index - 1) + CurrentRecord.to
                                + CurrentRecord.diff + done + a - WritePosition)]
          IN  /\ Write(WritePosition, size, Copy)
              /\ segment' = [segment EXCEPT !.to_pos = @ + size]
              /\ Advance(size)

\* Mutants: the step is not reset, a written segment is not stored as a step,
\* and the old position is not adjusted.
UnresetAdjustmentLast ==
    /\ state = "adjustment" /\ to_pos = ToSize
    /\ state' = "done"
    /\ UNCHANGED <<mem, step, applied, patch, faults, init_state, header, ongoing, i,
                   offset, segment, to_pos, chunk_size, rec>>

UnstoredAdjustmentSegment ==
    /\ state = "adjustment"
    /\ to_pos # ToSize /\ segment.to_pos = segment.to_size
    /\ state' = "dfpatch_size"
    /\ UNCHANGED <<mem, step, applied, patch, faults, init_state, header, ongoing, i,
                   offset, segment, to_pos, chunk_size, rec>>

UnadjustedRecord ==
    /\ state = "adjustment"
    /\ to_pos # ToSize /\ segment.to_pos # segment.to_size
    /\ rec' = rec + 1
    /\ state' = "diff_size"
    /\ UNCHANGED <<persistent, init_state, header, ongoing, i, offset, segment, to_pos,
                   chunk_size>>

\* in_place_process_adjustment: the image is complete, the segment is complete,
\* or the next record of the segment follows.
AdjustmentLast ==
    /\ state = "adjustment" /\ to_pos = ToSize
    /\ step' = IF HasSteps THEN 0 ELSE step
    /\ state' = "done"
    /\ UNCHANGED <<mem, applied, patch, faults, init_state, header, ongoing, i, offset,
                   segment, to_pos, chunk_size, rec>>

AdjustmentSegment ==
    /\ state = "adjustment"
    /\ to_pos # ToSize /\ segment.to_pos = segment.to_size
    /\ NextStep
    /\ state' = "dfpatch_size"
    /\ UNCHANGED <<mem, applied, patch, faults, init_state, header, i, offset, segment,
                   to_pos, chunk_size, rec>>

AdjustmentRecord ==
    /\ state = "adjustment"
    /\ to_pos # ToSize /\ segment.to_pos # segment.to_size
    /\ segment' = [segment EXCEPT !.from_offset = @ + CurrentRecord.adjust]
    /\ rec' = rec + 1
    /\ state' = "diff_size"
    /\ UNCHANGED <<persistent, init_state, header, ongoing, i, offset, to_pos, chunk_size>>

-----------------------------------------------------------------------------
(***************************************************************************)
(* The end of an attempt, and what may go wrong in it.                     *)
(***************************************************************************)
LoseApplier ==
    /\ state' = "off"
    /\ init_state' = 0
    /\ header' = "whole"
    /\ ongoing' = 0
    /\ i' = 0
    /\ offset' = 0
    /\ segment' = NoSegment
    /\ to_pos' = 0
    /\ chunk_size' = 0
    /\ rec' = 0

\* What the patch reader's destroy finds.  The reader was given the size of the
\* patch less the position in the last chunk of the header, which is too much
\* when an earlier chunk held a part of it.
WholePatchRead == header = "whole"

\* detools_apply_patch_in_place_finalize: an update succeeds that is done and
\* whose patch the reader has read to its end.
EndAttempt ==
    /\ state \in {"done", "failed"}
    /\ applied' = (state = "done" /\ WholePatchRead)
    /\ LoseApplier
    /\ UNCHANGED <<step, patch, faults>>

Finalize == EndAttempt /\ UNCHANGED mem

\* The cells that the callback of the current action writes or erases.
InFlight ==
    CASE StepCompleted -> {}
      [] ~StepCompleted /\ state = "shift_erase" -> Cells(WriteAddress, SegmentSize)
      [] ~StepCompleted /\ state = "shift_copy" -> Cells(WriteAddress + offset, CopySize)
      [] ~StepCompleted /\ state = "dfpatch_size" ->
            Cells(At(segment.index), SegmentToSize(segment.index))
      [] ~StepCompleted /\ state \in {"diff_data", "extra_data"} ->
            Cells(WritePosition, MinOf(BufferSize, chunk_size))
      [] OTHER -> {}

\* A call that is cut short leaves any of its cells undefined.
Tear ==
    \E torn \in SUBSET InFlight :
        mem' = [a \in Addr |-> IF a \in torn THEN Garbage ELSE mem[a]]

Running == state \notin {"off", "done", "failed"}

\* A callback returns an error: process_once enters the failed state.  A
\* step_set that fails has not stored the step.
Fail ==
    /\ Running /\ faults < MaxFaults
    /\ Tear
    /\ faults' = faults + 1
    /\ state' = "failed"
    /\ UNCHANGED <<step, applied, patch, init_state, header, ongoing, i, offset, segment,
                   to_pos, chunk_size, rec>>

\* Power is lost, or the host gives up (the patch ends early, it is no longer
\* received) and drops the applier.
Crash ==
    /\ Running \/ state = "failed" \/ (state = "done" /\ LateCrash)
    /\ faults < MaxFaults
    /\ Tear
    /\ faults' = faults + 1
    /\ LoseApplier
    /\ UNCHANGED <<step, applied, patch>>

\* The update is complete: the host has nothing more to do.
Idle == applied /\ UNCHANGED vars

Shift == ShiftErase \/ ShiftCopy \/ ShiftStep
Data == DiffSize \/ DiffData \/ DiffEnd \/ ExtraSize \/ ExtraData \/ ExtraEnd
Adjustment == AdjustmentLast \/ AdjustmentSegment \/ AdjustmentRecord
ProcessOnce == HeaderField \/ HeaderToSize \/ Shift \/ DfpatchSize \/ Data \/ Adjustment
Update == Initialize \/ ProcessOnce \/ Finalize

Next == Update \/ Fail \/ Crash \/ Idle

Spec == Init /\ [][Next]_vars

\* The host goes on with the update, and restarts it, as long as it is not
\* complete; crashes and failures are not required to happen.
FairSpec == Spec /\ WF_vars(Update)
=============================================================================
