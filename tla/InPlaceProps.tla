---------------------------- MODULE InPlaceProps ----------------------------
(***************************************************************************)
(* What the in-place applier must do, over the states of InPlace.          *)
(***************************************************************************)
EXTENDS InPlace

TypeOK ==
    /\ mem \in [Addr -> Cell]
    /\ step \in Nat
    /\ applied \in BOOLEAN
    /\ patch \in Patches
    /\ faults \in Nat
    /\ state \in {"off", "init", "shift_erase", "shift_copy", "dfpatch_size",
                  "diff_size", "diff_data", "extra_size", "extra_data",
                  "adjustment", "done", "failed"}
    /\ init_state \in 0 .. HeaderFields - 1
    /\ header \in {"whole", "split"}
    /\ ongoing \in Nat
    /\ i \in Nat
    /\ offset \in 0 .. SegmentSize
    /\ segment \in [index : Nat, from_offset : Int, to_offset : Nat,
                    to_size : Nat, to_pos : Nat]
    /\ to_pos \in 0 .. ToSize
    /\ chunk_size \in Nat
    /\ rec \in Nat

Steps == IF ToSize = 0 THEN 0 ELSE ShiftCount + SegmentCount

\* The cells that step k, counted from one, erases and writes.
StepRange(k) ==
    IF k <= ShiftCount
    THEN Cells(At(ShiftCount - k) + ShiftSize, SegmentSize)
    ELSE Cells(At(k - 1 - ShiftCount), SegmentToSize(k - 1 - ShiftCount))

\* The memory after the steps 1 .. p: the new image up to the segments written,
\* the old image at its new place as far as it is shifted, and otherwise the
\* memory as it was.
IdealCell(p, a) ==
    IF a \in Image /\ p > ShiftCount /\ a < At(p - ShiftCount)
    THEN New(a)
    ELSE IF a \in Cells(At(ShiftCount - MinOf(p, ShiftCount)) + ShiftSize,
                        At(MinOf(p, ShiftCount)))
         THEN Old(a - ShiftSize)
         ELSE Old(a)

\* The last step is done, and step_set(0) has been called.
Updated == state = "done" \/ applied

\* When the update is done, and ever after, the memory holds the new image,
\* however often it was interrupted: in_place_process_adjustment ends the update
\* only when every cell of the new image is written (c/detools.c:2047).
ImageComplete == Updated => \A t \in Image : mem[t] = New(t)

\* The table of steps in docs/index.rst: while step p is stored, every cell
\* outside the segment that step p + 1 writes is as the first p steps leave it.
\* So the old cells the remaining steps need are intact, and the interrupted
\* step can be done again.
StepTable ==
    ~Updated => \A a \in Addr \ StepRange(step + 1) : mem[a] = IdealCell(step, a)

\* Flash is only programmed after an erase: mem_write is called on erased cells.
WritesErased ==
    [][\A a \in Addr : mem'[a] # mem[a] /\ mem'[a] \notin {Erased, Garbage}
                          => mem[a] = Erased]_vars

\* Once crashes and failures stop, the update completes.
Completes == <>applied

\* The step table as a specification, which the applier implements.
Table == INSTANCE ResumableUpdate WITH
    Target <- [k \in 1 .. Steps |-> StepRange(k)],
    Ideal <- [p \in 0 .. Steps |-> [a \in Addr |-> IdealCell(p, a)]],
    completed <- step,
    updated <- Updated

ImplementsTable == Table!Spec

-----------------------------------------------------------------------------
(***************************************************************************)
(* The inductive invariant of an update with stored steps.                 *)
(***************************************************************************)
InShift == state \in {"shift_erase", "shift_copy"}
InSegment == state \in {"diff_size", "diff_data", "extra_size", "extra_data",
                        "adjustment"}

\* The segment the data states write.
Current == segment.index - 1

\* Where ongoing_step stands in the sequence of steps.
Position ==
    /\ state = "init" => ongoing = 1
    /\ InShift => /\ i < ShiftCount /\ ongoing = i + 1
                  /\ segment.index = 0 /\ to_pos = 0
    /\ state = "dfpatch_size" =>
          /\ ongoing = ShiftCount + segment.index + 1
          /\ to_pos = At(segment.index)
          /\ to_pos < ToSize
    /\ InSegment =>
          /\ Current \in Nat /\ At(Current) < ToSize
          /\ ongoing = ShiftCount + Current + 1
          /\ segment.to_offset = At(Current)
          /\ segment.to_size = SegmentToSize(Current)
          /\ to_pos = At(Current) + segment.to_pos
          /\ rec \in 1 .. Len(patch[Current])
    /\ InShift \/ InSegment => ToSize > 0
    /\ Running => ongoing <= step + 1 /\ ~applied
    /\ applied => state = "off"
    /\ HeaderWhole => header = "whole"

\* How far the patch reader is in the current record.
DiffDone == CurrentRecord.diff - chunk_size
ExtraDone == CurrentRecord.extra - chunk_size

Cursor ==
    LET r == CurrentRecord
        StandsAt(from, to) == segment.from_offset = from + ShiftSize /\ segment.to_pos = to
    IN  /\ state = "diff_size" => StandsAt(r.from, r.to)
        /\ state = "diff_data" =>
              chunk_size <= r.diff /\ StandsAt(r.from + DiffDone, r.to + DiffDone)
        /\ state = "extra_size" => StandsAt(r.from + r.diff, r.to + r.diff)
        /\ state = "extra_data" =>
              chunk_size <= r.extra
              /\ StandsAt(r.from + r.diff, r.to + r.diff + ExtraDone)
        /\ state = "adjustment" => StandsAt(r.from + r.diff, r.to + r.diff + r.extra)

\* What the ongoing step has written so far, unless it is being replayed.
Progress ==
    ongoing = step + 1 =>
        /\ state = "shift_copy" =>
              \A a \in Cells(WriteAddress, offset) : mem[a] = Old(a - ShiftSize)
        /\ InSegment =>
              \A a \in Cells(segment.to_offset, segment.to_pos) : mem[a] = New(a)

StepInRange == step = 0 \/ step < Steps

Inductive ==
    TypeOK /\ StepInRange /\ ImageComplete /\ StepTable /\ Position /\ Cursor /\ Progress
=============================================================================
