--------------------------- MODULE InPlace_proofs ---------------------------
(***************************************************************************)
(* Proofs about the in-place applier: for every geometry, buffer size and  *)
(* well-formed patch, and any number of interruptions, an update with      *)
(* stored steps ends with the new image in the memory.                     *)
(*                                                                         *)
(* The argument.  StepTable says of the memory, while step p is stored,    *)
(* that it is as the first p steps leave it except in the one segment that *)
(* step p + 1 writes.  Inductive adds where the applier stands: which step *)
(* it is in (Position), how far in the record (Cursor), and that what it   *)
(* has written of the first step not stored is right (Progress).  Steps    *)
(* that are stored write nothing when replayed, so a restart reaches the   *)
(* stored step with the memory unchanged.                                  *)
(*                                                                         *)
(* It implements the table of steps, ResumableUpdate.  An action that does *)
(* not store a step changes only cells of the step in progress, since      *)
(* StepTable holds before and after it and says what all other cells are.  *)
(* An action that stores a step comes when Progress covers the whole       *)
(* segment, so that the memory is Ideal.  An empty new image has no steps  *)
(* and needs an invariant of its own.                                      *)
(*                                                                         *)
(* It programs only erased cells, as a flash needs.  A step that is not    *)
(* completed begins with the erase of its segment, and what it still has   *)
(* to write of it (Ahead) stays erased (ErasedAhead): each write takes     *)
(* cells from the front of it.  After an interruption the step begins anew *)
(* with its erase.                                                         *)
(*                                                                         *)
(* In a memory file the last write is in the buffer of the stream.  Once   *)
(* the step after the stored one has written something (Begun), the writes *)
(* of the stored one have left the buffer, so that storing the next step   *)
(* leaves the file at most one step behind (FileInv).                      *)
(***************************************************************************)
EXTENDS InPlaceFile, TLAPS

\* At is a multiplication; the proofs use it only through these four lemmas.

\* The first segment starts at address 0.
LEMMA AtZero == At(0) = 0
  BY SizesAssumption DEF At

\* Segment boundaries are addresses, and not negative from segment 0 on.
LEMMA AtType == \A k \in Int : At(k) \in Int /\ (k >= 0 => At(k) >= 0)
  BY SizesAssumption DEF At

\* Segment boundaries add up, and the next one is a segment further.
LEMMA AtSum ==
    ASSUME NEW j \in Int, NEW k \in Int
    PROVE  /\ At(j + k) = At(j) + At(k)
           /\ At(j - k) = At(j) - At(k)
           /\ At(j + 1) = At(j) + SegmentSize
           /\ At(j - 1) = At(j) - SegmentSize
  BY SizesAssumption DEF At

\* A later segment starts at least one segment further on.
LEMMA AtMonotone ==
    ASSUME NEW j \in Int, NEW k \in Int
    PROVE  /\ j <= k => At(j) <= At(k)
           /\ j < k => At(j) + SegmentSize <= At(k)
<1>1. SegmentSize \in Nat /\ SegmentSize > 0
  BY SizesAssumption
<1> QED BY <1>1 DEF At

\* DIV_CEIL (detools.c:25): the least number of pieces of b bytes that hold a bytes.
LEMMA DivCeilFacts ==
    ASSUME NEW a \in Nat, NEW b \in Nat \ {0}
    PROVE  /\ DivCeil(a, b) \in Nat
           /\ DivCeil(a, b) * b >= a
           /\ DivCeil(a, b) * b < a + b
  BY SMT DEF DivCeil

\* What the assumptions on the geometry give as numbers: the shift is at least a
\* segment and at most the memory, and the old image still fits after the shift.
LEMMA Sizes ==
    /\ SegmentSize \in Nat /\ SegmentSize > 0
    /\ BufferSize \in Nat /\ BufferSize > 0
    /\ MemorySize \in Nat /\ ShiftSize \in Nat
    /\ SegmentSize <= ShiftSize /\ ShiftSize <= MemorySize
    /\ FromSize \in Nat /\ ToSize \in Nat /\ ToSize <= MemorySize
    /\ Kept \in Nat /\ Kept <= MemorySize - ShiftSize
<1>1. /\ ShiftSegments \in Int /\ MemorySegments \in Int /\ 0 \in Int
      /\ 0 < ShiftSegments /\ ShiftSegments <= MemorySegments
  BY SizesAssumption
<1>2. MemorySize \in Nat /\ ShiftSize \in Nat /\ ShiftSize <= MemorySize
  BY <1>1, AtType, AtMonotone DEF MemorySize, ShiftSize
<1>3. At(0) + SegmentSize <= At(ShiftSegments)
  BY <1>1, AtMonotone
<1>4. SegmentSize <= ShiftSize
  BY <1>2, <1>3, AtZero, SizesAssumption DEF ShiftSize
<1> QED BY <1>2, <1>4, SizesAssumption DEF Kept, MinOf

\* in_place_shift_memory (detools.c:1662) moves whole segments: together they hold
\* the old bytes kept, and the last one it writes ends within the memory.
LEMMA ShiftFacts ==
    /\ ShiftCount \in Nat
    /\ Kept <= At(ShiftCount)
    /\ At(ShiftCount) + ShiftSize <= MemorySize
<1>1. ShiftCount \in Nat /\ Kept <= At(ShiftCount) /\ At(ShiftCount) < Kept + SegmentSize
  BY Sizes, DivCeilFacts DEF ShiftCount, At
<1> DEFINE Free == MemorySegments - ShiftSegments
<1>2. Free \in Int /\ ShiftCount \in Int /\ At(Free) = MemorySize - ShiftSize
  BY <1>1, AtSum, SizesAssumption DEF MemorySize, ShiftSize
<1>3. Free < ShiftCount => At(Free) + SegmentSize <= At(ShiftCount)
  BY <1>2, AtMonotone
<1>4. ShiftCount <= Free => At(ShiftCount) <= At(Free)
  BY <1>2, AtMonotone
<1>5. At(ShiftCount) \in Int /\ At(Free) \in Int
  BY <1>2, AtType
<1> HIDE DEF Free
<1> QED BY <1>1, <1>2, <1>3, <1>4, <1>5, Sizes

\* A segment is in the new image exactly when it starts before to_size: the test of
\* in_place_process_adjustment that decides whether another segment follows.
LEMMA SegmentFacts ==
    /\ SegmentCount \in Nat
    /\ \A k \in Nat : k < SegmentCount <=> At(k) < ToSize
<1>1. SegmentCount \in Nat /\ ToSize <= At(SegmentCount)
      /\ At(SegmentCount) < ToSize + SegmentSize
  BY Sizes, DivCeilFacts DEF SegmentCount, At
<1>2. SUFFICES ASSUME NEW k \in Nat PROVE k < SegmentCount <=> At(k) < ToSize
  BY <1>1
<1>3. /\ k < SegmentCount => At(k) + SegmentSize <= At(SegmentCount)
      /\ SegmentCount <= k => At(SegmentCount) <= At(k)
  BY <1>1, AtMonotone
<1>4. At(k) \in Int /\ At(SegmentCount) \in Int
  BY <1>1, AtType
<1> QED BY <1>1, <1>3, <1>4, Sizes

\* A segment in the image has at least one byte, ends within the image, and is a
\* whole segment unless it is the last.
LEMMA SegmentToSizeFacts ==
    ASSUME NEW s \in Nat, At(s) < ToSize
    PROVE  /\ SegmentToSize(s) \in Nat
           /\ 0 < SegmentToSize(s) /\ SegmentToSize(s) <= SegmentSize
           /\ At(s) + SegmentToSize(s) <= ToSize
           /\ At(s) + SegmentToSize(s) # ToSize => /\ SegmentToSize(s) = SegmentSize
                                                   /\ At(s + 1) < ToSize
<1>1. At(s) \in Nat /\ At(s + 1) = At(s) + SegmentSize
  BY AtType, AtSum
<1> QED BY <1>1, Sizes DEF SegmentToSize, MinOf

-----------------------------------------------------------------------------
(***************************************************************************)
(* The memory after p steps, and the cells of a step.                      *)
(***************************************************************************)
\* Shift step p + 1 writes the segment that is moved up, which lies below those
\* moved by the steps before it.
LEMMA ShiftRange ==
    ASSUME NEW p \in Nat, p < ShiftCount
    PROVE  /\ StepRange(p + 1) = Cells(At(ShiftCount - 1 - p) + ShiftSize, SegmentSize)
           /\ At(ShiftCount - 1 - p) \in Nat
           /\ At(ShiftCount - p) = At(ShiftCount - 1 - p) + SegmentSize
           /\ At(ShiftCount - p) <= At(ShiftCount)
           /\ At(ShiftCount - p) + At(p) = At(ShiftCount)
           /\ At(ShiftCount - (p + 1)) = At(ShiftCount - 1 - p)
           /\ At(p + 1) = At(p) + SegmentSize
           /\ At(p) \in Nat /\ At(ShiftCount) \in Nat
<1>1. ShiftCount \in Nat /\ ShiftCount - (p + 1) = ShiftCount - 1 - p
  BY ShiftFacts
<1>2. /\ ShiftCount - p \in Int /\ ShiftCount - p <= ShiftCount
      /\ (ShiftCount - p) - 1 = ShiftCount - 1 - p
      /\ ShiftCount - 1 - p \in Nat
      /\ p + 1 <= ShiftCount
  BY <1>1
<1>3. At(ShiftCount - p) <= At(ShiftCount)
  BY <1>1, <1>2, AtMonotone
<1>4. At(ShiftCount - 1 - p) = At(ShiftCount - p) - SegmentSize
  <2>1. At((ShiftCount - p) - 1) = At(ShiftCount - p) - SegmentSize
    BY <1>2, AtSum
  <2> QED BY <1>2, <2>1
<1>5. At(ShiftCount - p) = At(ShiftCount) - At(p) /\ At(p + 1) = At(p) + SegmentSize
  BY <1>1, AtSum
<1>6. /\ At(p) \in Nat /\ At(ShiftCount) \in Nat /\ At(ShiftCount - 1 - p) \in Nat
      /\ At(ShiftCount - p) \in Int
  BY <1>1, <1>2, AtType
<1>7. StepRange(p + 1) = Cells(At(ShiftCount - 1 - p) + ShiftSize, SegmentSize)
  BY <1>1, <1>2 DEF StepRange
<1> QED BY <1>1, <1>3, <1>4, <1>5, <1>6, <1>7, Sizes

\* The cells that a shift step reads still hold the old image, and the step does
\* not write them: it can be interrupted and done again.
LEMMA IdealShiftSource ==
    ASSUME NEW p \in Nat, p < ShiftCount,
           NEW a \in Cells(At(ShiftCount - 1 - p), SegmentSize)
    PROVE  /\ a \in Addr \ StepRange(p + 1)
           /\ IdealCell(p, a) = Old(a)
<1>1. MinOf(p, ShiftCount) = p /\ ~(p > ShiftCount)
  BY ShiftFacts DEF MinOf
<1> DEFINE lo == At(ShiftCount - 1 - p)
           hi == At(ShiftCount - p)
<1>2. /\ lo \in Nat /\ hi = lo + SegmentSize /\ At(p) \in Nat
      /\ hi + At(p) = At(ShiftCount)
      /\ StepRange(p + 1) = Cells(lo + ShiftSize, SegmentSize)
  BY ShiftRange
<1>3. a \in Int /\ lo <= a /\ a < hi
  BY <1>2, Sizes DEF Cells
<1> HIDE DEF lo, hi
<1>4. a \in Addr
  BY <1>2, <1>3, ShiftFacts, Sizes DEF Addr
<1>5. a \notin StepRange(p + 1) /\ a \notin Cells(hi + ShiftSize, At(p))
  BY <1>2, <1>3, Sizes DEF Cells
<1> QED BY <1>1, <1>4, <1>5 DEF IdealCell, hi

\* A shift step adds its segment, moved, to the ideal memory and changes nothing else.
LEMMA IdealShiftStep ==
    ASSUME NEW p \in Nat, p < ShiftCount
    PROVE  /\ \A a \in StepRange(p + 1) :
                 a \in Addr /\ IdealCell(p + 1, a) = Old(a - ShiftSize)
           /\ \A a \in Addr \ StepRange(p + 1) : IdealCell(p + 1, a) = IdealCell(p, a)
<1>1. /\ MinOf(p, ShiftCount) = p /\ ~(p > ShiftCount)
      /\ MinOf(p + 1, ShiftCount) = p + 1 /\ ~(p + 1 > ShiftCount)
  BY ShiftFacts DEF MinOf
<1> DEFINE lo == At(ShiftCount - 1 - p)
           hi == At(ShiftCount - p)
<1>2. /\ lo \in Nat /\ hi = lo + SegmentSize /\ At(p) \in Nat
      /\ hi + At(p) = At(ShiftCount)
      /\ At(p + 1) = At(p) + SegmentSize
      /\ At(ShiftCount - (p + 1)) = lo
      /\ StepRange(p + 1) = Cells(lo + ShiftSize, SegmentSize)
  BY ShiftRange
<1>3. \A a : /\ IdealCell(p, a) = IF a \in Cells(hi + ShiftSize, At(p))
                                 THEN Old(a - ShiftSize) ELSE Old(a)
             /\ IdealCell(p + 1, a) = IF a \in Cells(lo + ShiftSize, At(p) + SegmentSize)
                                     THEN Old(a - ShiftSize) ELSE Old(a)
  BY <1>1, <1>2 DEF IdealCell
<1> HIDE DEF lo, hi
<1>4. /\ \A a \in StepRange(p + 1) : /\ a \in Addr
                                    /\ a \in Cells(lo + ShiftSize, At(p) + SegmentSize)
      /\ \A a \in Addr \ StepRange(p + 1) :
            a \in Cells(hi + ShiftSize, At(p))
               <=> a \in Cells(lo + ShiftSize, At(p) + SegmentSize)
  <2>1. ASSUME NEW a \in StepRange(p + 1)
        PROVE  a \in Addr /\ a \in Cells(lo + ShiftSize, At(p) + SegmentSize)
    <3>1. a \in Int /\ lo + ShiftSize <= a /\ a < lo + ShiftSize + SegmentSize
      BY <1>2, <2>1, Sizes DEF Cells
    <3>2. lo + SegmentSize + At(p) = At(ShiftCount)
      BY <1>2
    <3> QED BY <1>2, <3>1, <3>2, ShiftFacts, Sizes, SMTT(30) DEF Cells, Addr
  <2>2. ASSUME NEW a \in Addr \ StepRange(p + 1)
        PROVE  a \in Cells(hi + ShiftSize, At(p))
                  <=> a \in Cells(lo + ShiftSize, At(p) + SegmentSize)
    <3>1. /\ a \in Int /\ lo + ShiftSize \in Nat
          /\ a < lo + ShiftSize \/ lo + ShiftSize + SegmentSize <= a
      BY <1>2, <2>2, Sizes DEF Cells, Addr
    <3> QED BY <1>2, <3>1, Sizes DEF Cells
  <2> QED BY <2>1, <2>2
<1> QED BY <1>3, <1>4

\* The step after the shift steps and s segments writes segment s of the image.
LEMMA SegmentRange ==
    ASSUME NEW s \in Nat, At(s) < ToSize
    PROVE  /\ StepRange(ShiftCount + s + 1) = Cells(At(s), SegmentToSize(s))
           /\ MinOf(ShiftCount + s, ShiftCount) = ShiftCount
           /\ MinOf(ShiftCount + s + 1, ShiftCount) = ShiftCount
           /\ ShiftCount - ShiftCount = 0
           /\ (ShiftCount + s) - ShiftCount = s
           /\ (ShiftCount + s + 1) - ShiftCount = s + 1
<1>1. ShiftCount \in Nat
  BY ShiftFacts
<1> DEFINE k == ShiftCount + s + 1
<1>2. k \in Int /\ ~(k <= ShiftCount) /\ k - 1 - ShiftCount = s
  BY <1>1
<1>3. StepRange(k) = Cells(At(s), SegmentToSize(s))
  <2> HIDE DEF k
  <2> QED BY <1>2 DEF StepRange
<1> QED BY <1>1, <1>3 DEF MinOf

\* A segment step adds its segment of the new image to the ideal memory and changes
\* nothing else.
LEMMA IdealSegmentStep ==
    ASSUME NEW s \in Nat, At(s) < ToSize
    PROVE  /\ \A a \in StepRange(ShiftCount + s + 1) :
                 a \in Addr \cap Image /\ IdealCell(ShiftCount + s + 1, a) = New(a)
           /\ \A a \in Addr \ StepRange(ShiftCount + s + 1) :
                 IdealCell(ShiftCount + s + 1, a) = IdealCell(ShiftCount + s, a)
<1>1. /\ At(s) \in Nat /\ At(s + 1) = At(s) + SegmentSize
      /\ SegmentToSize(s) \in Nat /\ SegmentToSize(s) <= SegmentSize
      /\ At(s) + SegmentToSize(s) <= ToSize
      /\ ShiftCount \in Nat
      /\ SegmentToSize(s) = SegmentSize \/ At(s) + SegmentToSize(s) = ToSize
  BY AtType, AtSum, SegmentToSizeFacts, ShiftFacts
<1>2. s = 0 => At(s) = 0
  BY AtZero
<1>3. /\ \A a \in StepRange(ShiftCount + s + 1) : a \in Addr /\ a \in Image /\ a < At(s + 1)
      /\ \A a \in Addr \ StepRange(ShiftCount + s + 1) :
            a \in Image => (a < At(s + 1) <=> a < At(s))
  BY <1>1, SegmentRange, Sizes, SMTT(30) DEF Cells, Addr, Image
<1>4. \A a \in Image : ~(0 > a) /\ a \in Nat
  BY Sizes DEF Image
<1>5. /\ ShiftCount + s + 1 > ShiftCount
      /\ ShiftCount + s > ShiftCount <=> s # 0
  BY <1>1
<1>6. \A a \in Image : s = 0 => ~(a < At(s))
  BY <1>2, <1>4
<1> DEFINE Shifted(a) == IF a \in Cells(At(0) + ShiftSize, At(ShiftCount))
                         THEN Old(a - ShiftSize) ELSE Old(a)
<1>7. \A a : /\ IdealCell(ShiftCount + s, a)
                   = IF a \in Image /\ s # 0 /\ a < At(s) THEN New(a) ELSE Shifted(a)
             /\ IdealCell(ShiftCount + s + 1, a)
                   = IF a \in Image /\ a < At(s + 1) THEN New(a) ELSE Shifted(a)
  BY <1>5, SegmentRange DEF IdealCell
<1> HIDE DEF Shifted
<1> QED BY <1>3, <1>6, <1>7

\* The shifted old bytes a segment may read, those from FirstFrom on, are still there
\* when its step begins and are not written by the step.
LEMMA IdealSource ==
    ASSUME NEW s \in Nat, At(s) < ToSize,
           NEW f \in Int, FirstFrom(s) <= f, f < Kept
    PROVE  /\ f + ShiftSize \in Addr \ StepRange(ShiftCount + s + 1)
           /\ IdealCell(ShiftCount + s, f + ShiftSize) = Old(f)
<1>1. /\ At(s) \in Nat /\ At(s + 1) = At(s) + SegmentSize
      /\ SegmentToSize(s) \in Nat /\ SegmentToSize(s) <= SegmentSize
      /\ ShiftCount \in Nat /\ At(ShiftCount) \in Nat
  BY AtType, AtSum, SegmentToSizeFacts, ShiftFacts
<1>2. f >= 0 /\ At(s + 1) <= f + ShiftSize
  BY <1>1, Sizes DEF FirstFrom, MaxOf
<1>3. f + ShiftSize \in Addr \ StepRange(ShiftCount + s + 1)
  BY <1>1, <1>2, SegmentRange, Sizes DEF Cells, Addr
<1>4. f + ShiftSize \in Cells(At(0) + ShiftSize, At(ShiftCount))
  BY <1>1, <1>2, ShiftFacts, AtZero, Sizes DEF Cells
<1>5. (f + ShiftSize) - ShiftSize = f
  BY Sizes
<1> QED BY <1>1, <1>2, <1>3, <1>4, <1>5, SegmentRange, Sizes DEF IdealCell

\* The segments before s are new when step s begins, and the step does not touch them.
LEMMA IdealImage ==
    ASSUME NEW s \in Nat, At(s) < ToSize, NEW a \in Image, a < At(s)
    PROVE  /\ a \in Addr \ StepRange(ShiftCount + s + 1)
           /\ IdealCell(ShiftCount + s, a) = New(a)
<1>1. /\ At(s) \in Nat /\ SegmentToSize(s) \in Nat /\ ShiftCount \in Nat
  BY AtType, SegmentToSizeFacts, ShiftFacts
<1>2. s # 0
  BY <1>1, AtZero, Sizes DEF Image
<1> QED BY <1>1, <1>2, SegmentRange, Sizes DEF Cells, Addr, Image, IdealCell

-----------------------------------------------------------------------------
(***************************************************************************)
(* The records of a patch.                                                 *)
(***************************************************************************)
\* What a well-formed patch says of one segment: its records are consecutive, in the
\* old bytes kept, and end exactly with the segment.
LEMMA PatchFacts ==
    ASSUME NEW p \in Patches, NEW s \in Nat, At(s) < ToSize
    PROVE  /\ p[s] \in Seq(Record) /\ Len(p[s]) \in Nat \ {0}
           /\ p[s][1].from = FirstFrom(s) /\ p[s][1].to = 0
           /\ \A k \in 1 .. Len(p[s]) :
                 LET r == p[s][k]
                 IN  /\ r \in Record
                     /\ r.diff > 0 => FirstFrom(s) <= r.from /\ r.from + r.diff <= Kept
                     /\ k < Len(p[s]) => /\ p[s][k + 1].from = r.from + r.diff + r.adjust
                                         /\ p[s][k + 1].to = r.to + r.diff + r.extra
                                         /\ p[s][k + 1].to < SegmentToSize(s)
                     /\ k = Len(p[s]) => r.to + r.diff + r.extra = SegmentToSize(s)
<1>1. s \in 0 .. SegmentCount - 1
  BY SegmentFacts
<1>2. WellFormedSegment(p[s], s)
  BY <1>1, PatchesAssumption DEF WellFormed
<1>3. p[s] \in Seq(Record) /\ Len(p[s]) \in Nat \ {0}
  BY <1>2 DEF WellFormedSegment
<1>4. \A k \in 1 .. Len(p[s]) : p[s][k] \in Record
  BY <1>3
<1> QED BY <1>2, <1>3, <1>4 DEF WellFormedSegment

-----------------------------------------------------------------------------
\* The inductive invariant holds of the old image, no step stored and no applier
\* (the device before detools_apply_patch_in_place_init).
THEOREM InductiveInit == Init => Inductive
<1> SUFFICES ASSUME Init PROVE Inductive
  OBVIOUS
<1>1. TypeOK
  <2>1. mem \in [Addr -> Cell]
    BY DEF Init, Cell
  <2>2. segment \in [index : Nat, from_offset : Int, to_offset : Nat,
                     to_size : Nat, to_pos : Nat]
    BY DEF Init, NoSegment
  <2>3. 0 \in 0 .. SegmentSize /\ 0 \in 0 .. ToSize /\ 0 \in 0 .. HeaderFields - 1
    BY Sizes DEF HeaderFields
  <2> QED BY <2>1, <2>2, <2>3 DEF Init, TypeOK
<1>2. StepInRange /\ ImageComplete
  BY DEF Init, StepInRange, ImageComplete, Updated
<1>3. StepTable
  <2>1. \A a \in Addr : IdealCell(0, a) = Old(a)
    <3>1. MinOf(0, ShiftCount) = 0 /\ ~(0 > ShiftCount) /\ At(0) = 0
      BY ShiftFacts, AtZero DEF MinOf
    <3>2. \A b \in Int : Cells(b, 0) = {}
      BY DEF Cells
    <3>3. At(ShiftCount - 0) + ShiftSize \in Int
      BY ShiftFacts, Sizes, AtType
    <3> QED BY <3>1, <3>2, <3>3 DEF IdealCell
  <2> QED BY <2>1 DEF Init, StepTable
<1>4. Position /\ Cursor /\ Progress
  BY DEF Init, Position, Cursor, Progress, InShift, InSegment, Running
<1> QED BY <1>1, <1>2, <1>3, <1>4 DEF Inductive

\* detools_apply_patch_in_place_init keeps the inductive invariant.
LEMMA InitializeStep == Inductive /\ Initialize => Inductive'
<1> SUFFICES ASSUME Inductive, Initialize PROVE Inductive'
  OBVIOUS
<1> USE DEF Inductive, Initialize, persistent
<1>1. TypeOK'
  BY DEF TypeOK, HeaderFields
<1>2. StepInRange' /\ ImageComplete'
  BY DEF StepInRange, ImageComplete, Updated
<1>3. StepTable'
  BY DEF StepTable, Updated
<1>4. Position'
  BY DEF Position, InShift, InSegment, Running, TypeOK
<1>5. Cursor' /\ Progress'
  BY DEF Cursor, Progress, InSegment
<1> QED BY <1>1, <1>2, <1>3, <1>4, <1>5

\* Reading a header field before to_size keeps the inductive invariant.
LEMMA HeaderFieldStep == Inductive /\ HeaderField => Inductive'
<1> SUFFICES ASSUME Inductive, HeaderField PROVE Inductive'
  OBVIOUS
<1> USE DEF Inductive, HeaderField, persistent
<1>1. TypeOK'
  BY DEF TypeOK, HeaderFields
<1>2. StepInRange' /\ ImageComplete'
  BY DEF StepInRange, ImageComplete, Updated
<1>3. StepTable'
  BY DEF StepTable, Updated
<1>4. Position'
  BY DEF Position, InShift, InSegment, Running, TypeOK
<1>5. Cursor' /\ Progress'
  BY DEF Cursor, Progress, InSegment
<1> QED BY <1>1, <1>2, <1>3, <1>4, <1>5

\* Reading to_size, which starts the shift, the first segment or, for an empty image,
\* ends the update, keeps the inductive invariant.
LEMMA HeaderToSizeStep == Inductive /\ HeaderToSize => Inductive'
<1> SUFFICES ASSUME Inductive, HeaderToSize PROVE Inductive'
  OBVIOUS
<1> USE DEF Inductive, HeaderToSize, persistent
<1>1. TypeOK'
  BY Sizes DEF TypeOK
<1>2. StepInRange' /\ ImageComplete'
  BY DEF StepInRange, ImageComplete, Updated, Position, Image, Running
<1>3. StepTable'
  BY DEF StepTable, Updated, Position, Running
<1>4. Position'
  <2>1. ongoing = 1 /\ ongoing <= step + 1 /\ ~applied /\ step \in Nat
    BY DEF Position, Running, TypeOK
  <2>2. /\ segment'.index = 0 /\ to_pos' = 0 /\ i' = 0 /\ ongoing' = 1
        /\ step' = step /\ ~applied'
    BY <2>1 DEF TypeOK
  <2>3. state' = "dfpatch_size" => ShiftCount = 0 /\ ToSize > 0
    BY Sizes
  <2>4. state' = "shift_erase" => 0 < ShiftCount /\ ToSize > 0
    BY Sizes, ShiftFacts
  <2>5. state' \in {"done", "dfpatch_size", "shift_erase"}
    OBVIOUS
  <2> QED BY <2>1, <2>2, <2>3, <2>4, <2>5, AtZero DEF Position, InShift, InSegment, Running
<1>5. Cursor' /\ Progress'
  BY DEF Cursor, Progress, InSegment
<1> QED BY <1>1, <1>2, <1>3, <1>4, <1>5

\* The mem_erase of a shift step erases only the segment it moves to, or nothing when
\* the step is replayed.
LEMMA ShiftEraseStep ==
    ASSUME HasSteps, Inductive, ShiftErase
    PROVE  Inductive'
<1> USE DEF Inductive, ShiftErase
<1>0. /\ i \in Nat /\ i < ShiftCount /\ ongoing = i + 1 /\ ongoing <= step + 1
      /\ step \in Nat /\ ~applied /\ ToSize > 0
  BY DEF Position, InShift, Running, TypeOK
<1>1. WriteAddress = At(ShiftCount - 1 - i) + ShiftSize
  BY DEF WriteAddress, ReadAddress
<1>2. \A a \in Addr \ StepRange(step + 1) : mem'[a] = mem[a]
  <2>1. CASE StepCompleted
    BY <2>1 DEF Erase, Write
  <2>2. CASE ~StepCompleted
    <3>1. step = i
      BY <1>0, <2>2 DEF StepCompleted
    <3>2. StepRange(step + 1) = Cells(WriteAddress, SegmentSize)
      BY <1>0, <1>1, <3>1, ShiftRange
    <3> QED BY <2>2, <3>2 DEF Erase, Write
  <2> QED BY <2>1, <2>2
<1>3. TypeOK'
  <2>1. mem' \in [Addr -> Cell]
    BY DEF TypeOK, Erase, Write, Cell
  <2> QED BY <2>1, Sizes DEF TypeOK
<1>4. StepInRange' /\ ImageComplete'
  BY <1>0 DEF StepInRange, ImageComplete, Updated
<1>5. StepTable'
  BY <1>0, <1>2 DEF StepTable, Updated
<1>6. Position'
  BY DEF Position, InShift, InSegment, Running, TypeOK
<1>7. Cursor'
  BY DEF Cursor
<1>8. Progress'
  <2>1. \A b \in Int : Cells(b, 0) = {}
    BY DEF Cells
  <2>2. WriteAddress' = WriteAddress /\ WriteAddress \in Int
    BY <1>0, <1>1, ShiftRange, Sizes DEF WriteAddress, ReadAddress
  <2> QED BY <2>1, <2>2 DEF Progress, InSegment
<1> QED BY <1>3, <1>4, <1>5, <1>6, <1>7, <1>8

\* A mem_read and mem_write pair of a shift step copies old bytes to erased cells of
\* its segment.
LEMMA ShiftCopyStep ==
    ASSUME HasSteps, Inductive, ShiftCopy
    PROVE  Inductive'
<1> USE DEF Inductive, ShiftCopy
<1>0. /\ i \in Nat /\ i < ShiftCount /\ ongoing = i + 1 /\ ongoing <= step + 1
      /\ step \in Nat /\ ~applied /\ ToSize > 0
      /\ offset \in Nat /\ offset < SegmentSize
  BY Sizes DEF Position, InShift, Running, TypeOK
<1>1. /\ ReadAddress = At(ShiftCount - 1 - i) /\ ReadAddress \in Nat
      /\ WriteAddress = ReadAddress + ShiftSize /\ WriteAddress \in Nat
      /\ ReadAddress' = ReadAddress /\ WriteAddress' = WriteAddress
  BY <1>0, ShiftRange, Sizes DEF WriteAddress, ReadAddress
<1>2. CopySize \in Nat /\ 0 < CopySize /\ offset + CopySize <= SegmentSize
  BY <1>0, Sizes DEF CopySize, MinOf
<1>3. Cells(WriteAddress + offset, CopySize) \subseteq Cells(WriteAddress, SegmentSize)
  <2> HIDE DEF Inductive, ShiftCopy
  <2> QED BY <1>0, <1>1, <1>2, Sizes DEF Cells
<1>4. \A a \in Addr \ StepRange(step + 1) : mem'[a] = mem[a]
  <2>1. CASE StepCompleted
    BY <2>1 DEF Write
  <2>2. CASE ~StepCompleted
    <3>1. step = i
      BY <1>0, <2>2 DEF StepCompleted
    <3>2. StepRange(step + 1) = Cells(WriteAddress, SegmentSize)
      BY <1>0, <1>1, <3>1, ShiftRange
    <3> QED BY <1>3, <2>2, <3>2 DEF Write
  <2> QED BY <2>1, <2>2
<1>5. TypeOK'
  <2>1. mem' \in [Addr -> Cell]
    BY DEF TypeOK, Write, Read, Cell
  <2> QED BY <1>0, <1>2, <2>1, Sizes DEF TypeOK
<1>6. StepInRange' /\ ImageComplete'
  BY <1>0 DEF StepInRange, ImageComplete, Updated
<1>7. StepTable'
  BY <1>0, <1>4 DEF StepTable, Updated
<1>8. Position'
  BY DEF Position, InShift, InSegment, Running, TypeOK
<1>9. Cursor'
  BY DEF Cursor
<1>10. Progress'
  <2> SUFFICES ASSUME ongoing = step + 1, NEW a \in Cells(WriteAddress, offset + CopySize)
               PROVE  mem'[a] = Old(a - ShiftSize)
    BY <1>1 DEF Progress, InSegment
  <2>1. step = i /\ ~StepCompleted
    BY <1>0 DEF StepCompleted
  <2>2. /\ a \in Cells(WriteAddress, SegmentSize)
        /\ a \in Int
        /\ a \in Cells(WriteAddress, offset) \/ a \in Cells(WriteAddress + offset, CopySize)
    <3> HIDE DEF Inductive, ShiftCopy
    <3> QED BY <1>0, <1>1, <1>2, Sizes DEF Cells
  <2>3. a \in Addr
    BY <1>0, <1>1, <2>2, ShiftRange, IdealShiftStep
  <2>4. CASE a \in Cells(WriteAddress, offset) /\ a \notin Cells(WriteAddress + offset, CopySize)
    BY <2>1, <2>3, <2>4 DEF Progress, Write
  <2>5. CASE a \in Cells(WriteAddress + offset, CopySize)
    <3> DEFINE b == a - WriteAddress + ReadAddress
    <3>1. b = a - ShiftSize /\ b \in Cells(ReadAddress, SegmentSize)
      <4> HIDE DEF Inductive, ShiftCopy
      <4> QED BY <1>1, <2>2, Sizes DEF Cells
    <3>2. b \in Addr \ StepRange(i + 1) /\ IdealCell(i, b) = Old(b)
      BY <1>0, <1>1, <3>1, IdealShiftSource
    <3>3. Read(b) = Old(b)
      BY <1>0, <2>1, <3>2 DEF Read, StepTable, Updated
    <3>4. mem'[a] = Read(b)
      BY <2>1, <2>3, <2>5 DEF Write
    <3> QED BY <3>1, <3>3, <3>4
  <2> QED BY <2>2, <2>4, <2>5
<1> QED BY <1>5, <1>6, <1>7, <1>8, <1>9, <1>10

\* The step_set that ends a shift step finds its whole segment moved.
LEMMA ShiftStepStep ==
    ASSUME HasSteps, Inductive, ShiftStep
    PROVE  Inductive'
<1> USE DEF Inductive, ShiftStep
<1>0. /\ i \in Nat /\ i < ShiftCount /\ ongoing = i + 1 /\ ongoing <= step + 1
      /\ step \in Nat /\ ~applied /\ ToSize > 0 /\ offset = SegmentSize
      /\ ShiftCount \in Nat
  BY ShiftFacts DEF Position, InShift, Running, TypeOK
<1>1. /\ ongoing' = ongoing + 1 /\ ongoing' <= step' + 1 /\ step' \in Nat
      /\ step' = step \/ (step = i /\ step' = i + 1)
  BY <1>0 DEF NextStep, StepCompleted
<1>2. ToSize > 0 => 0 < SegmentCount
  BY AtZero, SegmentFacts
<1>3. TypeOK'
  BY <1>0, <1>1 DEF TypeOK
<1>4. StepInRange' /\ ImageComplete'
  BY <1>0, <1>1, <1>2, SegmentFacts DEF StepInRange, ImageComplete, Updated, Steps
<1>5. StepTable'
  <2>1. CASE step' = step
    BY <1>0, <2>1 DEF StepTable, Updated
  <2>2. CASE step = i /\ step' = i + 1
    <3> SUFFICES ASSUME NEW a \in Addr
                 PROVE  mem[a] = IdealCell(i + 1, a)
      BY <2>2 DEF StepTable
    <3>1. CASE a \in StepRange(i + 1)
      <4>1. a \in Cells(WriteAddress, offset)
        BY <1>0, <3>1, ShiftRange DEF WriteAddress, ReadAddress
      <4> QED BY <1>0, <2>2, <3>1, <4>1, IdealShiftStep DEF Progress
    <3>2. CASE a \notin StepRange(i + 1)
      BY <1>0, <2>2, <3>2, IdealShiftStep DEF StepTable, Updated
    <3> QED BY <3>1, <3>2
  <2> QED BY <1>1, <2>1, <2>2
<1>6. Position'
  <2>1. state' \in {"shift_erase", "dfpatch_size"}
    OBVIOUS
  <2>2. state' = "dfpatch_size" => ongoing' = ShiftCount + 1
    BY <1>0, <1>1
  <2>3. segment'.index = 0 /\ to_pos' = 0 /\ ~applied'
    BY <1>0 DEF Position, InShift
  <2>4. state' = "shift_erase" => i' < ShiftCount /\ ongoing' = i' + 1
    BY <1>0, <1>1
  <2>5. /\ state' = "dfpatch_size" => ongoing' = ShiftCount + segment'.index + 1
        /\ to_pos' = At(segment'.index) /\ to_pos' < ToSize
    BY <1>0, <2>2, <2>3, AtZero
  <2>6. HeaderWhole => header' = "whole"
    BY DEF Position
  <2> HIDE DEF Inductive, ShiftStep
  <2> QED BY <1>0, <1>1, <2>1, <2>3, <2>4, <2>5, <2>6 DEF Position, InShift, InSegment, Running
<1>7. Cursor' /\ Progress'
  BY DEF Cursor, Progress, InSegment
<1> QED BY <1>3, <1>4, <1>5, <1>6, <1>7

\* The size of the data format patch starts a segment: its cells are erased, unless it
\* is replayed, and the first record is begun.
LEMMA DfpatchSizeStep ==
    ASSUME HasSteps, Inductive, DfpatchSize
    PROVE  Inductive'
<1> USE DEF Inductive, DfpatchSize
<1> DEFINE s == segment.index
<1>0. /\ s \in Nat /\ At(s) \in Nat /\ At(s) < ToSize /\ to_pos = At(s)
      /\ ongoing = ShiftCount + s + 1 /\ ongoing <= step + 1
      /\ step \in Nat /\ ~applied /\ ToSize > 0 /\ ShiftCount \in Nat
  BY ShiftFacts, AtType, Sizes DEF Position, Running, TypeOK
<1>1. /\ SegmentToSize(s) \in Nat
      /\ At(s + 1) \in Nat
  BY <1>0, SegmentToSizeFacts, AtType
<1>2. \A a \in Addr \ StepRange(step + 1) : mem'[a] = mem[a]
  <2>1. CASE StepCompleted
    BY <2>1 DEF Erase, Write
  <2>2. CASE ~StepCompleted
    <3>1. step = ShiftCount + s
      BY <1>0, <2>2 DEF StepCompleted
    <3>2. StepRange(step + 1) = Cells(At(s), SegmentToSize(s))
      BY <1>0, <3>1, SegmentRange
    <3> QED BY <2>2, <3>2 DEF Erase, Write
  <2> QED BY <2>1, <2>2
<1>3. segment' = [index |-> s + 1, from_offset |-> MaxOf(At(s + 1), ShiftSize),
                  to_offset |-> At(s), to_size |-> SegmentToSize(s), to_pos |-> 0]
  OBVIOUS
<1>4. Current' = s
  BY <1>0, <1>3 DEF Current
<1>5. TypeOK'
  <2>1. mem' \in [Addr -> Cell]
    BY DEF TypeOK, Erase, Write, Cell
  <2>2. segment' \in [index : Nat, from_offset : Int, to_offset : Nat,
                     to_size : Nat, to_pos : Nat]
    BY <1>0, <1>1, <1>3, Sizes DEF MaxOf
  <2> QED BY <2>1, <2>2 DEF TypeOK
<1>6. StepInRange' /\ ImageComplete'
  BY <1>0 DEF StepInRange, ImageComplete, Updated
<1>7. StepTable'
  BY <1>0, <1>2 DEF StepTable, Updated
<1>8. Position'
  <2>1. 1 \in 1 .. Len(patch[s])
    BY <1>0, PatchFacts, SMTT(30) DEF TypeOK
  <2>2. /\ segment'.to_offset = At(s) /\ segment'.to_size = SegmentToSize(s)
        /\ segment'.to_pos = 0
    BY <1>3
  <2>3. to_pos' = At(s) + 0 /\ ongoing' = ongoing /\ ~applied' /\ step' = step
    BY <1>0
  <2>4. state' = "diff_size" /\ rec' = 1 /\ patch' = patch
    OBVIOUS
  <2>5. HeaderWhole => header' = "whole"
    BY DEF Position
  <2> HIDE DEF s, DfpatchSize
  <2> QED BY <1>0, <1>4, <2>1, <2>2, <2>3, <2>4, <2>5 DEF Position, InShift, InSegment, Running
<1>9. Cursor'
  <2>1. patch[s][1].from = FirstFrom(s) /\ patch[s][1].to = 0
    BY <1>0, PatchFacts DEF TypeOK
  <2>2. MaxOf(At(s + 1), ShiftSize) = FirstFrom(s) + ShiftSize
    BY <1>1, Sizes DEF MaxOf, FirstFrom
  <2>3. CurrentRecord' = patch[s][1]
    BY <1>4 DEF CurrentRecord, Current
  <2> QED BY <1>3, <2>1, <2>2, <2>3 DEF Cursor
<1>10. Progress'
  <2>1. \A b \in Int : Cells(b, 0) = {}
    BY DEF Cells
  <2>2. Cells(segment'.to_offset, segment'.to_pos) = {}
    BY <1>0, <1>3, <2>1
  <2> QED BY <2>2 DEF Progress
<1> QED BY <1>5, <1>6, <1>7, <1>8, <1>9, <1>10

\* What the data states know of the segment and the record.
LEMMA InSegmentFacts ==
    ASSUME Inductive, InSegment
    PROVE  LET s == Current
               r == CurrentRecord
           IN  /\ s \in Nat /\ At(s) \in Nat /\ At(s) < ToSize
               /\ ongoing = ShiftCount + s + 1 /\ ongoing <= step + 1
               /\ step \in Nat /\ ~applied /\ ToSize > 0 /\ ShiftCount \in Nat
               /\ segment.to_offset = At(s) /\ segment.to_pos \in Nat
               /\ segment.to_size = SegmentToSize(s) /\ SegmentToSize(s) \in Nat
               /\ to_pos = At(s) + segment.to_pos
               /\ segment.from_offset \in Int /\ chunk_size \in Nat
               /\ patch \in Patches /\ rec \in 1 .. Len(patch[s]) /\ Len(patch[s]) \in Nat
               /\ r = patch[s][rec]
               /\ r.from \in Int /\ r.to \in Nat /\ r.diff \in Nat /\ r.extra \in Nat
               /\ r.adjust \in Int
               /\ r.to + r.diff + r.extra <= SegmentToSize(s)
<1> USE DEF Inductive
<1> DEFINE s == Current
           r == CurrentRecord
<1>1. /\ s \in Nat /\ At(s) \in Nat /\ At(s) < ToSize
      /\ ongoing = ShiftCount + s + 1 /\ ongoing <= step + 1
      /\ step \in Nat /\ ~applied /\ ToSize > 0 /\ ShiftCount \in Nat
      /\ segment.to_offset = At(s) /\ segment.to_pos \in Nat
      /\ segment.to_size = SegmentToSize(s) /\ to_pos = At(s) + segment.to_pos
      /\ segment.from_offset \in Int /\ chunk_size \in Nat
      /\ patch \in Patches /\ rec \in 1 .. Len(patch[s])
  BY ShiftFacts, AtType DEF Position, InSegment, Running, TypeOK
<1>2. SegmentToSize(s) \in Nat /\ r = patch[s][rec]
  BY <1>1, SegmentToSizeFacts DEF CurrentRecord, Current
<1>3. r \in Record /\ Len(patch[s]) \in Nat
  BY <1>1, <1>2, PatchFacts
<1>4. /\ r.from \in Int /\ r.to \in Nat /\ r.diff \in Nat /\ r.extra \in Nat
      /\ r.adjust \in Int
  BY <1>3 DEF Record
<1>5. r.to + r.diff + r.extra <= SegmentToSize(s)
  <2>1. rec = Len(patch[s]) => r.to + r.diff + r.extra = SegmentToSize(s)
    BY <1>1, <1>2, PatchFacts
  <2>2. rec < Len(patch[s]) => /\ patch[s][rec + 1].to = r.to + r.diff + r.extra
                              /\ patch[s][rec + 1].to < SegmentToSize(s)
    BY <1>1, <1>2, PatchFacts
  <2>3. rec \in Nat /\ rec <= Len(patch[s])
    BY <1>1, <1>3
  <2> HIDE DEF s, r
  <2>4. r.to + r.diff + r.extra \in Nat
    BY <1>4
  <2> QED BY <1>2, <1>3, <2>1, <2>2, <2>3, <2>4
<1> QED BY <1>1, <1>2, <1>3, <1>4, <1>5

\* The sizes of a well-formed patch end within the image: common_process_size
\* (detools.c:1069) refuses none of them.
LEMMA SizesFit ==
    ASSUME Inductive, InSegment
    PROVE  /\ state = "diff_size" => ~(to_pos + CurrentRecord.diff > ToSize)
           /\ state = "extra_size" => ~(to_pos + CurrentRecord.extra > ToSize)
<1> DEFINE s == Current
           r == CurrentRecord
<1>1. /\ s \in Nat /\ At(s) \in Nat /\ At(s) < ToSize
      /\ segment.to_pos \in Nat /\ SegmentToSize(s) \in Nat
      /\ to_pos = At(s) + segment.to_pos
      /\ r.to \in Nat /\ r.diff \in Nat /\ r.extra \in Nat
      /\ r.to + r.diff + r.extra <= SegmentToSize(s)
  BY InSegmentFacts
<1>2. At(s) + SegmentToSize(s) <= ToSize
  BY <1>1, SegmentToSizeFacts
<1>3. /\ state = "diff_size" => segment.to_pos = r.to
      /\ state = "extra_size" => segment.to_pos = r.to + r.diff
  BY DEF Inductive, Cursor
<1> HIDE DEF s, r
<1>4. /\ state = "diff_size" => ~(to_pos + r.diff > ToSize)
      /\ state = "extra_size" => ~(to_pos + r.extra > ToSize)
  BY <1>1, <1>2, <1>3, Sizes
<1> QED BY <1>4 DEF r

\* Reading the size of a diff or of an extra block keeps the inductive invariant.
LEMMA ProcessSizeStep ==
    ASSUME Inductive, DiffSize \/ ExtraSize
    PROVE  Inductive'
<1> USE DEF Inductive
<1>0. /\ InSegment
      /\ UNCHANGED <<persistent, init_state, header, ongoing, i, offset, segment, to_pos, rec>>
      /\ \/ /\ state = "diff_size" /\ state' = "diff_data"
            /\ chunk_size' = CurrentRecord.diff
         \/ /\ state = "extra_size" /\ state' = "extra_data"
            /\ chunk_size' = CurrentRecord.extra
  <2>1. InSegment
    BY DEF DiffSize, ExtraSize, ProcessSize, InSegment
  <2> QED BY <2>1, SizesFit DEF DiffSize, ExtraSize, ProcessSize
<1>1. /\ CurrentRecord.from \in Int /\ CurrentRecord.to \in Nat
      /\ CurrentRecord.diff \in Nat /\ CurrentRecord.extra \in Nat
  BY <1>0, InSegmentFacts
<1>2. TypeOK'
  BY <1>0, <1>1 DEF TypeOK, persistent
<1>3. StepInRange' /\ ImageComplete'
  BY <1>0 DEF StepInRange, ImageComplete, Updated, InSegment, persistent
<1>4. StepTable'
  BY <1>0 DEF StepTable, Updated, InSegment, persistent
<1>5. Position'
  BY <1>0 DEF Position, Current, InShift, InSegment, Running, persistent
<1>6. Cursor'
  <2>1. CurrentRecord' = CurrentRecord
    BY <1>0 DEF CurrentRecord, persistent
  <2> QED BY <1>0, <1>1, <2>1 DEF Cursor, DiffDone, ExtraDone
<1>7. Progress'
  BY <1>0 DEF Progress, InSegment, persistent
<1> QED BY <1>2, <1>3, <1>4, <1>5, <1>6, <1>7

\* The end of a diff or an extra block, at which the next size or the adjustment is
\* read, keeps the inductive invariant.
LEMMA ChunkEndStep ==
    ASSUME Inductive, DiffEnd \/ ExtraEnd
    PROVE  Inductive'
<1> USE DEF Inductive
<1>0. /\ InSegment /\ chunk_size = 0
      /\ UNCHANGED <<persistent, init_state, header, ongoing, i, offset, segment, to_pos,
                     chunk_size, rec>>
      /\ \/ state = "diff_data" /\ state' = "extra_size"
         \/ state = "extra_data" /\ state' = "adjustment"
  BY DEF DiffEnd, ExtraEnd, ChunkEnd, InSegment
<1>1. /\ CurrentRecord.from \in Int /\ CurrentRecord.to \in Nat
      /\ CurrentRecord.diff \in Nat /\ CurrentRecord.extra \in Nat
  BY <1>0, InSegmentFacts
<1>2. TypeOK'
  BY <1>0, <1>1 DEF TypeOK, persistent
<1>3. StepInRange' /\ ImageComplete'
  BY <1>0 DEF StepInRange, ImageComplete, Updated, InSegment, persistent
<1>4. StepTable'
  BY <1>0 DEF StepTable, Updated, InSegment, persistent
<1>5. Position'
  BY <1>0 DEF Position, Current, InShift, InSegment, Running, persistent
<1>6. Cursor'
  <2>1. CurrentRecord' = CurrentRecord
    BY <1>0 DEF CurrentRecord, persistent
  <2> QED BY <1>0, <1>1, <2>1 DEF Cursor, DiffDone, ExtraDone
<1>7. Progress'
  BY <1>0 DEF Progress, InSegment, persistent
<1> QED BY <1>2, <1>3, <1>4, <1>5, <1>6, <1>7

\* Diff and extra data: the cells written are new cells, unless replayed.
LEMMA DataWrite ==
    ASSUME HasSteps, Inductive, state \in {"diff_data", "extra_data"},
           NEW size \in Nat, 0 < size, size <= chunk_size,
           segment.to_pos + size <= SegmentToSize(Current),
           mem' = [a \in Addr |-> mem'[a]],
           \A a \in Addr : \/ a \notin Cells(WritePosition, size)
                          \/ StepCompleted
                          => mem'[a] = mem[a],
           \A a \in Addr : /\ a \in Cells(WritePosition, size)
                          /\ ~StepCompleted
                          => mem'[a] = New(a),
           NEW from_offset \in Int,
           segment' = [segment EXCEPT !.from_offset = from_offset,
                                      !.to_pos = segment.to_pos + size],
           Advance(size)
    PROVE  /\ TypeOK' /\ StepInRange' /\ ImageComplete' /\ StepTable'
           /\ Position' /\ Progress' /\ InSegment'
           /\ CurrentRecord' = CurrentRecord
           /\ segment'.from_offset = from_offset
           /\ segment'.to_pos = segment.to_pos + size
           /\ chunk_size' = chunk_size - size
           /\ state' = state
<1> USE DEF Inductive
<1> DEFINE s == Current
<1>0. InSegment
  BY DEF InSegment
<1>1. /\ s \in Nat /\ At(s) \in Nat /\ At(s) < ToSize
      /\ ongoing = ShiftCount + s + 1 /\ ongoing <= step + 1
      /\ step \in Nat /\ ~applied /\ ToSize > 0 /\ ShiftCount \in Nat
      /\ segment.to_offset = At(s) /\ segment.to_pos \in Nat
      /\ segment.to_size = SegmentToSize(s) /\ SegmentToSize(s) \in Nat
      /\ to_pos = At(s) + segment.to_pos
      /\ segment.from_offset \in Int /\ chunk_size \in Nat
  BY <1>0, InSegmentFacts
<1>2. /\ segment' \in [index : Nat, from_offset : Int, to_offset : Nat,
                       to_size : Nat, to_pos : Nat]
      /\ segment'.index = segment.index /\ segment'.to_offset = segment.to_offset
      /\ segment'.to_size = segment.to_size /\ segment'.from_offset = from_offset
      /\ segment'.to_pos = segment.to_pos + size
  <2>1. segment \in [index : Nat, from_offset : Int, to_offset : Nat,
                     to_size : Nat, to_pos : Nat]
    BY DEF TypeOK
  <2>2. segment.to_pos + size \in Nat
    BY <2>1
  <2> QED BY <2>1, <2>2
<1>3. /\ WritePosition = At(s) + segment.to_pos
      /\ Cells(WritePosition, size) \subseteq Cells(At(s), SegmentToSize(s))
  <2>1. WritePosition = At(s) + segment.to_pos
    BY <1>1 DEF WritePosition
  <2>2. ASSUME NEW a \in Cells(WritePosition, size)
        PROVE  a \in Cells(At(s), SegmentToSize(s))
    <3>1. a \in Int /\ At(s) <= a /\ a < At(s) + segment.to_pos + size
      BY <1>1, <2>1 DEF Cells
    <3>2. a < At(s) + SegmentToSize(s)
      BY <1>1, <3>1
    <3> QED BY <1>1, <3>1, <3>2 DEF Cells
  <2> QED BY <2>1, <2>2
<1>4. StepCompleted \/ step + 1 = ShiftCount + s + 1
  BY <1>1 DEF StepCompleted
<1>5. \A a \in Addr \ StepRange(step + 1) : mem'[a] = mem[a]
  BY <1>1, <1>3, <1>4, SegmentRange
<1>6. At(s) + SegmentToSize(s) <= ToSize
  BY <1>1, SegmentToSizeFacts
<1>7. to_pos' \in 0 .. ToSize /\ chunk_size' \in Nat
  BY <1>1, <1>6, Sizes DEF Advance
<1>8. mem' \in [Addr -> Cell]
  <2>1. ~StepCompleted => \A a \in Cells(WritePosition, size) : a \in Image
    BY <1>1, <1>3, <1>4, SegmentRange, IdealSegmentStep
  <2>2. \A a \in Addr : mem'[a] \in Cell
    BY <2>1 DEF TypeOK, Cell
  <2> QED BY <2>2
<1>9. TypeOK'
  BY <1>2, <1>7, <1>8 DEF TypeOK, Advance
<1>10. /\ state' = state /\ step' = step /\ applied' = applied /\ ongoing' = ongoing
       /\ patch' = patch /\ rec' = rec /\ chunk_size' = chunk_size - size
       /\ to_pos' = to_pos + size
  BY DEF Advance
<1>11. StepInRange' /\ ImageComplete'
  BY <1>1, <1>10 DEF StepInRange, ImageComplete, Updated
<1>12. StepTable'
  BY <1>1, <1>5, <1>10 DEF StepTable, Updated
<1>13. Current' = s /\ CurrentRecord' = CurrentRecord
  BY <1>2, <1>10 DEF Current, CurrentRecord
<1>14. Position'
  <2>1. to_pos' = At(s) + segment'.to_pos
    BY <1>1, <1>2, <1>10
  <2>2. patch \in Patches /\ rec \in 1 .. Len(patch[s])
    BY <1>0, InSegmentFacts
  <2>3. HeaderWhole => header' = "whole"
    BY DEF Position, Advance
  <2> HIDE DEF s
  <2> QED BY <1>0, <1>1, <1>2, <1>10, <1>13, <2>1, <2>2, <2>3
          DEF Position, InShift, InSegment, Running
<1>15. Progress'
  <2> SUFFICES ASSUME ongoing = step + 1, NEW a \in Cells(At(s), segment.to_pos + size)
               PROVE  mem'[a] = New(a)
    BY <1>0, <1>1, <1>2, <1>10 DEF Progress, InSegment
  <2>1. ~StepCompleted /\ step + 1 = ShiftCount + s + 1
    BY <1>1 DEF StepCompleted
  <2>2. a \in Cells(At(s), segment.to_pos) \/ a \in Cells(WritePosition, size)
    <3> HIDE DEF s
    <3> QED BY <1>1, <1>3 DEF Cells
  <2>3. a \in Addr
    <3>1. a \in Cells(At(s), SegmentToSize(s))
      <4>1. a \in Int /\ At(s) <= a /\ a < At(s) + (segment.to_pos + size)
        BY <1>1 DEF Cells
      <4>2. a < At(s) + SegmentToSize(s)
        BY <1>1, <4>1
      <4> QED BY <1>1, <4>1, <4>2 DEF Cells
    <3> QED BY <1>1, <3>1, SegmentRange, IdealSegmentStep
  <2>4. CASE a \in Cells(WritePosition, size)
    BY <2>1, <2>3, <2>4
  <2>5. CASE a \in Cells(At(s), segment.to_pos) /\ a \notin Cells(WritePosition, size)
    BY <1>0, <1>1, <2>1, <2>3, <2>5 DEF Progress
  <2> QED BY <2>2, <2>4, <2>5
<1> QED BY <1>0, <1>2, <1>9, <1>10, <1>11, <1>12, <1>13, <1>14, <1>15 DEF InSegment

\* Writing a piece of extra data writes cells of the new image.
LEMMA ExtraDataStep ==
    ASSUME HasSteps, Inductive, ExtraData
    PROVE  Inductive'
<1> DEFINE r == CurrentRecord
           done == r.extra - chunk_size
           Copy(n) == [a \in Cells(WritePosition, n) |->
                          New(At(segment.index - 1) + r.to + r.diff + done
                                + a - WritePosition)]
<1>1. PICK size \in 1 .. MinOf(BufferSize, chunk_size) :
         /\ Write(WritePosition, size, Copy(size))
         /\ segment' = [segment EXCEPT !.to_pos = @ + size]
         /\ Advance(size)
  BY DEF ExtraData
<1>2. InSegment /\ state = "extra_data"
  BY DEF ExtraData, InSegment
<1>3. /\ At(Current) \in Nat /\ segment.to_pos \in Nat /\ chunk_size \in Nat
      /\ segment.to_offset = At(Current) /\ segment.from_offset \in Int
      /\ r.from \in Int /\ r.to \in Nat /\ r.diff \in Nat /\ r.extra \in Nat
      /\ r.to + r.diff + r.extra <= SegmentToSize(Current)
      /\ SegmentToSize(Current) \in Nat
  BY <1>2, InSegmentFacts
<1>4. /\ chunk_size <= r.extra /\ segment.from_offset = r.from + r.diff + ShiftSize
      /\ segment.to_pos = r.to + r.diff + done
  BY <1>2 DEF Inductive, Cursor, ExtraDone
<1>5. size \in Nat /\ 0 < size /\ size <= chunk_size
  BY <1>1, <1>3, Sizes DEF MinOf
<1>6. segment.to_pos + size <= SegmentToSize(Current)
  BY <1>3, <1>4, <1>5
<1>7. \A a \in Cells(WritePosition, size) : Copy(size)[a] = New(a)
  <2> SUFFICES ASSUME NEW a \in Cells(WritePosition, size) PROVE Copy(size)[a] = New(a)
    OBVIOUS
  <2>1. WritePosition = At(segment.index - 1) + segment.to_pos
    BY <1>3 DEF WritePosition, Current
  <2>2. a \in Int /\ At(segment.index - 1) \in Nat
    BY <1>3, <1>5, <2>1 DEF Cells, Current
  <2> QED BY <1>3, <1>4, <2>1, <2>2
<1>8. segment' = [segment EXCEPT !.from_offset = segment.from_offset,
                                 !.to_pos = segment.to_pos + size]
  BY <1>1, <1>2 DEF Inductive, TypeOK
<1> HIDE DEF Copy
<1>9. /\ TypeOK' /\ StepInRange' /\ ImageComplete' /\ StepTable'
      /\ Position' /\ Progress' /\ InSegment'
      /\ CurrentRecord' = CurrentRecord
      /\ segment'.from_offset = segment.from_offset
      /\ segment'.to_pos = segment.to_pos + size
      /\ chunk_size' = chunk_size - size
      /\ state' = state
  <2>1. mem' = IF StepCompleted THEN mem
               ELSE [a \in Addr |-> IF a \in Cells(WritePosition, size) THEN Copy(size)[a]
                                    ELSE mem[a]]
    BY <1>1 DEF Write
  <2>2. /\ mem' = [a \in Addr |-> mem'[a]]
        /\ \A a \in Addr : a \notin Cells(WritePosition, size) \/ StepCompleted
                          => mem'[a] = mem[a]
        /\ \A a \in Addr : a \in Cells(WritePosition, size) /\ ~StepCompleted
                          => mem'[a] = New(a)
    BY <1>7, <2>1 DEF Inductive, TypeOK
  <2> QED BY <1>1, <1>2, <1>3, <1>5, <1>6, <1>8, <2>2, DataWrite
<1>10. Cursor'
  BY <1>2, <1>3, <1>4, <1>5, <1>9 DEF Cursor, ExtraDone
<1> QED BY <1>9, <1>10 DEF Inductive

\* Adding a piece of diff data to old bytes that are still there writes cells of the
\* new image.
LEMMA DiffDataStep ==
    ASSUME HasSteps, Inductive, DiffData
    PROVE  Inductive'
<1> DEFINE r == CurrentRecord
           s == Current
           done == r.diff - chunk_size
           Sum(n) == [a \in Cells(WritePosition, n) |->
                         LET k == a - WritePosition
                         IN  AddDiff(Read(segment.from_offset + k), r.from + done + k,
                                     At(segment.index - 1) + r.to + done + k)]
<1>1. PICK size \in 1 .. MinOf(BufferSize, chunk_size) :
         /\ Write(WritePosition, size, Sum(size))
         /\ segment' = [segment EXCEPT !.from_offset = @ + size, !.to_pos = @ + size]
         /\ Advance(size)
  BY DEF DiffData
<1>2. InSegment /\ state = "diff_data"
  BY DEF DiffData, InSegment
<1>3. /\ s \in Nat /\ At(s) < ToSize
      /\ At(s) \in Nat /\ segment.to_pos \in Nat /\ chunk_size \in Nat
      /\ segment.to_offset = At(s) /\ segment.from_offset \in Int
      /\ r.from \in Int /\ r.to \in Nat /\ r.diff \in Nat /\ r.extra \in Nat
      /\ r.to + r.diff + r.extra <= SegmentToSize(s)
      /\ SegmentToSize(s) \in Nat
      /\ ongoing = ShiftCount + s + 1 /\ ongoing <= step + 1 /\ step \in Nat
      /\ ShiftCount \in Nat /\ ~applied
  BY <1>2, InSegmentFacts
<1>4. /\ chunk_size <= r.diff /\ segment.from_offset = r.from + done + ShiftSize
      /\ segment.to_pos = r.to + done
  BY <1>2 DEF Inductive, Cursor, DiffDone
<1>5. size \in Nat /\ 0 < size /\ size <= chunk_size
  BY <1>1, <1>3, Sizes DEF MinOf
<1>6. segment.to_pos + size <= SegmentToSize(s)
  BY <1>3, <1>4, <1>5
<1>7. r.diff > 0 => FirstFrom(s) <= r.from /\ r.from + r.diff <= Kept
  <2>1. patch \in Patches /\ rec \in 1 .. Len(patch[s]) /\ r = patch[s][rec]
    BY <1>2, InSegmentFacts
  <2> QED BY <1>3, <2>1, PatchFacts
<1>8. ASSUME ~StepCompleted, NEW a \in Cells(WritePosition, size)
      PROVE  Sum(size)[a] = New(a)
  <2> DEFINE k == a - WritePosition
             f == r.from + done + k
  <2>1. WritePosition = At(s) + segment.to_pos
    BY <1>3 DEF WritePosition
  <2>2. k \in Nat /\ k < size /\ a \in Int
    BY <1>3, <1>5, <1>8, <2>1 DEF Cells
  <2>3. segment.from_offset + k = f + ShiftSize
    BY <1>3, <1>4, <2>2, Sizes
  <2>4. FirstFrom(s) \in Int
    BY <1>3, AtType, Sizes DEF FirstFrom, MaxOf
  <2>5. f \in Int /\ FirstFrom(s) <= f /\ f < Kept
    BY <1>3, <1>4, <1>5, <1>7, <2>2, <2>4, Sizes
  <2>6. step = ShiftCount + s
    BY <1>3, <1>8 DEF StepCompleted
  <2>7. /\ f + ShiftSize \in Addr \ StepRange(ShiftCount + s + 1)
        /\ IdealCell(ShiftCount + s, f + ShiftSize) = Old(f)
    <3> HIDE DEF f, s
    <3> QED BY <1>3, <2>5, IdealSource
  <2>8. Read(f + ShiftSize) = Old(f)
    <3> HIDE DEF f, s
    <3>1. Read(f + ShiftSize) = mem[f + ShiftSize]
      BY <1>8, <2>7 DEF Read
    <3> QED BY <1>2, <1>3, <2>6, <2>7, <3>1 DEF Inductive, StepTable, Updated
  <2>9. Sum(size)[a] = New(At(segment.index - 1) + r.to + done + k)
    BY <2>3, <2>8 DEF AddDiff
  <2>10. At(segment.index - 1) = At(s)
    BY DEF Current
  <2> HIDE DEF s, Sum
  <2> QED BY <1>3, <1>4, <2>1, <2>2, <2>9, <2>10
<1>9. segment' = [segment EXCEPT !.from_offset = segment.from_offset + size,
                                 !.to_pos = segment.to_pos + size]
  BY <1>1
<1> HIDE DEF Sum
<1>10. /\ TypeOK' /\ StepInRange' /\ ImageComplete' /\ StepTable'
       /\ Position' /\ Progress' /\ InSegment'
       /\ CurrentRecord' = CurrentRecord
       /\ segment'.from_offset = segment.from_offset + size
       /\ segment'.to_pos = segment.to_pos + size
       /\ chunk_size' = chunk_size - size
       /\ state' = state
  <2>1. segment.from_offset + size \in Int
    BY <1>3, <1>5
  <2>2. mem' = IF StepCompleted THEN mem
               ELSE [a \in Addr |-> IF a \in Cells(WritePosition, size) THEN Sum(size)[a]
                                    ELSE mem[a]]
    BY <1>1 DEF Write
  <2>3. /\ mem' = [a \in Addr |-> mem'[a]]
        /\ \A a \in Addr : a \notin Cells(WritePosition, size) \/ StepCompleted
                          => mem'[a] = mem[a]
        /\ \A a \in Addr : a \in Cells(WritePosition, size) /\ ~StepCompleted
                          => mem'[a] = New(a)
    BY <1>8, <2>2 DEF Inductive, TypeOK
  <2> QED BY <1>1, <1>2, <1>3, <1>5, <1>6, <1>9, <2>1, <2>3, DataWrite
<1>11. Cursor'
  BY <1>2, <1>3, <1>4, <1>5, <1>10, Sizes DEF Cursor, DiffDone
<1> QED BY <1>10, <1>11 DEF Inductive

\* The end of the last segment: the whole image is new when the stored step is reset.
LEMMA AdjustmentLastStep ==
    ASSUME HasSteps, Inductive, AdjustmentLast
    PROVE  Inductive'
<1> USE DEF Inductive
<1> DEFINE s == Current
           r == CurrentRecord
<1>0. InSegment /\ state = "adjustment"
  BY DEF AdjustmentLast, InSegment
<1>1. /\ s \in Nat /\ At(s) \in Nat /\ At(s) < ToSize
      /\ ongoing = ShiftCount + s + 1 /\ ongoing <= step + 1
      /\ step \in Nat /\ ~applied /\ ToSize > 0 /\ ShiftCount \in Nat
      /\ segment.to_offset = At(s) /\ segment.to_pos \in Nat
      /\ SegmentToSize(s) \in Nat /\ to_pos = At(s) + segment.to_pos
      /\ r.to + r.diff + r.extra <= SegmentToSize(s)
  BY <1>0, InSegmentFacts
<1>2. /\ state' = "done" /\ step' = 0 /\ to_pos = ToSize
      /\ UNCHANGED <<mem, applied, patch, faults, init_state, header, ongoing, i, offset,
                     segment, to_pos, chunk_size, rec>>
  BY DEF AdjustmentLast
<1>3. segment.to_pos <= SegmentToSize(s)
  BY <1>0, <1>1 DEF Cursor
<1>4. SegmentCount = s + 1
  <2>1. At(s) + SegmentToSize(s) >= ToSize
    BY <1>1, <1>2, <1>3, Sizes
  <2>2. ~(At(s + 1) < ToSize)
    <3>1. At(s + 1) = At(s) + SegmentSize /\ SegmentToSize(s) <= SegmentSize
      BY <1>1, SegmentToSizeFacts, AtSum
    <3> QED BY <1>1, <2>1, <3>1, Sizes
  <2>3. s < SegmentCount /\ ~(s + 1 < SegmentCount) /\ SegmentCount \in Nat
    <3>1. s + 1 \in Nat
      BY <1>1
    <3> QED BY <1>1, <2>2, <3>1, SegmentFacts
  <2> QED BY <1>1, <2>3
<1>5. ongoing = step + 1
  BY <1>1, <1>4, ShiftFacts, Sizes DEF StepInRange, Steps
<1>6. \A t \in Image : mem[t] = New(t)
  <2> SUFFICES ASSUME NEW t \in Image PROVE mem[t] = New(t)
    OBVIOUS
  <2>1. CASE t < At(s)
    <3>1. step = ShiftCount + s
      BY <1>1, <1>5
    <3>2. /\ t \in Addr \ StepRange(ShiftCount + s + 1)
          /\ IdealCell(ShiftCount + s, t) = New(t)
      BY <1>1, <2>1, IdealImage
    <3> QED BY <1>0, <1>1, <3>1, <3>2 DEF StepTable, Updated
  <2>2. CASE ~(t < At(s))
    <3>1. t \in Cells(segment.to_offset, segment.to_pos)
      BY <1>1, <1>2, <2>2, Sizes DEF Cells, Image
    <3> QED BY <1>0, <1>5, <3>1 DEF Progress
  <2> QED BY <2>1, <2>2
<1>7. TypeOK'
  BY <1>2 DEF TypeOK
<1>8. StepInRange' /\ ImageComplete' /\ StepTable'
  BY <1>2, <1>6 DEF StepInRange, ImageComplete, StepTable, Updated
<1>9. Position' /\ Cursor' /\ Progress'
  BY <1>1, <1>2 DEF Position, Cursor, Progress, InShift, InSegment, Running
<1> QED BY <1>7, <1>8, <1>9

\* The end of a segment that is not the last: step_set finds the segment new.
LEMMA AdjustmentSegmentStep ==
    ASSUME HasSteps, Inductive, AdjustmentSegment
    PROVE  Inductive'
<1> USE DEF Inductive
<1> DEFINE s == Current
<1>0. InSegment /\ state = "adjustment"
  BY DEF AdjustmentSegment, InSegment
<1>1. /\ s \in Nat /\ At(s) \in Nat /\ At(s) < ToSize
      /\ ongoing = ShiftCount + s + 1 /\ ongoing <= step + 1
      /\ step \in Nat /\ ~applied /\ ToSize > 0 /\ ShiftCount \in Nat
      /\ segment.to_offset = At(s) /\ segment.to_size = SegmentToSize(s)
      /\ SegmentToSize(s) \in Nat /\ to_pos = At(s) + segment.to_pos
  BY <1>0, InSegmentFacts
<1>2. /\ state' = "dfpatch_size" /\ to_pos # ToSize
      /\ segment.to_pos = segment.to_size /\ NextStep
      /\ UNCHANGED <<mem, applied, patch, faults, init_state, header, i, offset, segment,
                     to_pos, chunk_size, rec>>
  BY DEF AdjustmentSegment
<1>3. /\ SegmentToSize(s) = SegmentSize /\ At(s + 1) < ToSize
      /\ At(s + 1) = At(s) + SegmentSize
  BY <1>1, <1>2, SegmentToSizeFacts, AtSum
<1>4. segment.index = s + 1 /\ segment.index \in Nat
  BY DEF Current, TypeOK
<1>5. /\ ongoing' = ongoing + 1 /\ ongoing' <= step' + 1 /\ step' \in Nat
      /\ \/ step' = step
         \/ step = ShiftCount + s /\ ongoing = step + 1 /\ step' = ShiftCount + s + 1
  BY <1>1, <1>2 DEF NextStep, StepCompleted
<1>6. TypeOK'
  BY <1>1, <1>2, <1>5 DEF TypeOK
<1>7. StepInRange'
  <2>1. s + 1 \in Nat /\ s + 1 < SegmentCount /\ SegmentCount \in Nat
    BY <1>1, <1>3, SegmentFacts
  <2> QED BY <1>1, <1>5, <2>1, Sizes DEF StepInRange, Steps
<1>8. ImageComplete'
  BY <1>1, <1>2 DEF ImageComplete, Updated
<1>9. StepTable'
  <2>1. CASE step' = step
    BY <1>0, <1>2, <2>1 DEF StepTable, Updated
  <2>2. CASE step = ShiftCount + s /\ ongoing = step + 1 /\ step' = ShiftCount + s + 1
    <3> SUFFICES ASSUME NEW a \in Addr
                 PROVE  mem[a] = IdealCell(ShiftCount + s + 1, a)
      BY <1>2, <2>2 DEF StepTable
    <3>1. CASE a \in StepRange(ShiftCount + s + 1)
      <4>1. a \in Cells(segment.to_offset, segment.to_pos)
        BY <1>1, <1>2, <3>1, SegmentRange
      <4> QED BY <1>0, <1>1, <2>2, <3>1, <4>1, IdealSegmentStep DEF Progress
    <3>2. CASE a \notin StepRange(ShiftCount + s + 1)
      BY <1>0, <1>1, <2>2, <3>2, IdealSegmentStep DEF StepTable, Updated
    <3> QED BY <3>1, <3>2
  <2> QED BY <1>5, <2>1, <2>2
<1>10. Position'
  <2>1. ongoing' = ShiftCount + segment'.index + 1
    BY <1>1, <1>2, <1>4, <1>5
  <2>2. to_pos' = At(segment'.index) /\ to_pos' < ToSize
    BY <1>1, <1>2, <1>3, <1>4
  <2>3. HeaderWhole => header' = "whole"
    BY <1>2 DEF Position
  <2> HIDE DEF Inductive
  <2> QED BY <1>1, <1>2, <1>5, <2>1, <2>2, <2>3 DEF Position, InShift, InSegment, Running
<1>11. Cursor' /\ Progress'
  BY <1>2 DEF Cursor, Progress, InSegment
<1> QED BY <1>6, <1>7, <1>8, <1>9, <1>10, <1>11

\* An adjustment within a segment begins the next record where the patch says.
LEMMA AdjustmentRecordStep ==
    ASSUME Inductive, AdjustmentRecord
    PROVE  Inductive'
<1> USE DEF Inductive
<1> DEFINE s == Current
           r == CurrentRecord
<1>0. InSegment /\ state = "adjustment"
  BY DEF AdjustmentRecord, InSegment
<1>1. /\ s \in Nat /\ At(s) \in Nat /\ At(s) < ToSize
      /\ ongoing = ShiftCount + s + 1 /\ ongoing <= step + 1
      /\ step \in Nat /\ ~applied /\ ToSize > 0 /\ ShiftCount \in Nat
      /\ segment.to_offset = At(s) /\ segment.to_size = SegmentToSize(s)
      /\ segment.to_pos \in Nat /\ segment.from_offset \in Int
      /\ SegmentToSize(s) \in Nat /\ to_pos = At(s) + segment.to_pos
      /\ r.from \in Int /\ r.to \in Nat /\ r.diff \in Nat /\ r.extra \in Nat
      /\ r.adjust \in Int
  BY <1>0, InSegmentFacts
<1>2. /\ state' = "diff_size" /\ segment.to_pos # segment.to_size
      /\ segment' = [segment EXCEPT !.from_offset = @ + r.adjust]
      /\ rec' = rec + 1
      /\ UNCHANGED <<persistent, init_state, header, ongoing, i, offset, to_pos, chunk_size>>
  BY DEF AdjustmentRecord
<1>3. /\ segment' \in [index : Nat, from_offset : Int, to_offset : Nat,
                       to_size : Nat, to_pos : Nat]
      /\ segment'.index = segment.index /\ segment'.to_offset = segment.to_offset
      /\ segment'.to_size = segment.to_size /\ segment'.to_pos = segment.to_pos
      /\ segment'.from_offset = segment.from_offset + r.adjust
  <2>1. segment \in [index : Nat, from_offset : Int, to_offset : Nat,
                     to_size : Nat, to_pos : Nat]
    BY DEF TypeOK
  <2>2. segment.from_offset + r.adjust \in Int
    BY <1>1
  <2> QED BY <1>2, <2>1, <2>2
<1>4. segment.from_offset = r.from + r.diff + ShiftSize /\ segment.to_pos = r.to + r.diff + r.extra
  BY <1>0 DEF Cursor
<1>5. /\ rec + 1 \in 1 .. Len(patch[s])
      /\ patch[s][rec + 1].from = r.from + r.diff + r.adjust
      /\ patch[s][rec + 1].to = r.to + r.diff + r.extra
  <2>1. /\ patch \in Patches /\ rec \in 1 .. Len(patch[s]) /\ r = patch[s][rec]
        /\ Len(patch[s]) \in Nat
    BY <1>0, InSegmentFacts
  <2>2. rec # Len(patch[s])
    <3>1. rec = Len(patch[s]) => r.to + r.diff + r.extra = SegmentToSize(s)
      BY <1>1, <2>1, PatchFacts
    <3> QED BY <1>1, <1>2, <1>4, <3>1
  <2>3. rec \in Nat /\ rec < Len(patch[s])
    BY <2>1, <2>2
  <2>4. rec + 1 \in 1 .. Len(patch[s])
    BY <2>1, <2>3
  <2> QED BY <1>1, <2>1, <2>3, <2>4, PatchFacts
<1>6. /\ mem' = mem /\ step' = step /\ applied' = applied /\ patch' = patch
      /\ faults' = faults /\ rec \in Nat
  BY <1>2 DEF persistent, TypeOK
<1>7. TypeOK'
  BY <1>2, <1>3, <1>6 DEF TypeOK
<1>8. StepInRange' /\ ImageComplete'
  BY <1>0, <1>2, <1>6 DEF StepInRange, ImageComplete, Updated
<1>9. StepTable'
  BY <1>0, <1>2, <1>6 DEF StepTable, Updated
<1>10. Current' = s
  BY <1>3 DEF Current
<1>11. Position'
  BY <1>0, <1>1, <1>2, <1>3, <1>5, <1>6, <1>10
     DEF Position, InShift, InSegment, Running
<1>12. Cursor'
  <2>1. CurrentRecord' = patch[s][rec + 1]
    BY <1>2, <1>3, <1>6 DEF CurrentRecord, Current
  <2>2. /\ segment'.from_offset = patch[s][rec + 1].from + ShiftSize
        /\ segment'.to_pos = patch[s][rec + 1].to
    <3>1. /\ patch[s][rec + 1].from = r.from + r.diff + r.adjust
          /\ patch[s][rec + 1].to = r.to + r.diff + r.extra
      BY <1>5
    <3> QED BY <1>1, <1>3, <1>4, <3>1, Sizes
  <2> QED BY <1>2, <2>1, <2>2 DEF Cursor
<1>13. Progress'
  BY <1>0, <1>2, <1>3, <1>6 DEF Progress, InSegment
<1> QED BY <1>7, <1>8, <1>9, <1>11, <1>12, <1>13

\* detools_apply_patch_in_place_finalize keeps the inductive invariant.
LEMMA FinalizeStep ==
    ASSUME HeaderWhole, Inductive, Finalize
    PROVE  Inductive'
<1> USE DEF Inductive, Finalize, EndAttempt, LoseApplier
<1>0. applied' <=> state = "done"
  BY DEF WholePatchRead, Position
<1>1. TypeOK'
  <2>1. 0 \in 0 .. SegmentSize /\ 0 \in 0 .. ToSize /\ 0 \in 0 .. HeaderFields - 1
    BY Sizes DEF HeaderFields
  <2> QED BY <2>1 DEF TypeOK, NoSegment
<1>2. StepInRange' /\ ImageComplete'
  BY <1>0 DEF StepInRange, ImageComplete, Updated
<1>3. StepTable'
  BY <1>0 DEF StepTable, Updated, Position
<1>4. Position' /\ Cursor' /\ Progress'
  BY DEF Position, Cursor, Progress, InShift, InSegment, Running
<1> QED BY <1>1, <1>2, <1>3, <1>4

\* The cells a callback may leave undefined belong to the step to be done.
LEMMA InFlightFacts ==
    ASSUME HasSteps, Inductive, Running
    PROVE  InFlight \subseteq StepRange(step + 1)
<1> USE DEF Inductive
<1>1. CASE StepCompleted
  BY <1>1 DEF InFlight
<1>2. CASE ~StepCompleted /\ InShift
  <2>1. /\ i \in Nat /\ i < ShiftCount /\ step = i /\ offset \in Nat
        /\ offset <= SegmentSize
    BY <1>2, Sizes DEF Position, Running, TypeOK, StepCompleted
  <2>2. /\ WriteAddress = At(ShiftCount - 1 - i) + ShiftSize /\ WriteAddress \in Nat
        /\ StepRange(step + 1) = Cells(WriteAddress, SegmentSize)
    BY <2>1, ShiftRange, Sizes DEF WriteAddress, ReadAddress
  <2>3. CopySize \in Nat /\ offset + CopySize <= SegmentSize
    BY <2>1, Sizes DEF CopySize, MinOf
  <2>4. Cells(WriteAddress + offset, CopySize) \subseteq Cells(WriteAddress, SegmentSize)
    BY <2>1, <2>2, <2>3, Sizes DEF Cells
  <2> QED BY <1>2, <2>2, <2>4 DEF InFlight, InShift
<1>3. CASE ~StepCompleted /\ state = "dfpatch_size"
  <2>1. /\ segment.index \in Nat /\ At(segment.index) < ToSize
        /\ step = ShiftCount + segment.index
    BY <1>3, ShiftFacts DEF Position, Running, TypeOK, StepCompleted
  <2> QED BY <1>3, <2>1, SegmentRange DEF InFlight
<1>4. CASE ~StepCompleted /\ state \in {"diff_data", "extra_data"}
  <2> DEFINE s == Current
             size == MinOf(BufferSize, chunk_size)
             r == CurrentRecord
  <2>1. InSegment
    BY <1>4 DEF InSegment
  <2>2. /\ s \in Nat /\ At(s) \in Nat /\ At(s) < ToSize
        /\ ongoing = ShiftCount + s + 1 /\ ongoing <= step + 1
        /\ step \in Nat /\ ShiftCount \in Nat
        /\ segment.to_offset = At(s) /\ segment.to_pos \in Nat /\ chunk_size \in Nat
        /\ SegmentToSize(s) \in Nat
        /\ r.to \in Nat /\ r.diff \in Nat /\ r.extra \in Nat
        /\ r.to + r.diff + r.extra <= SegmentToSize(s)
    BY <2>1, InSegmentFacts
  <2>3. step + 1 = ShiftCount + s + 1
    BY <1>4, <2>2 DEF StepCompleted
  <2>4. segment.to_pos + chunk_size <= SegmentToSize(s)
    BY <1>4, <2>2 DEF Cursor, DiffDone, ExtraDone
  <2>5. size \in Nat /\ size <= chunk_size
    BY <2>2, Sizes DEF MinOf
  <2>6. WritePosition = At(s) + segment.to_pos
    BY <2>2 DEF WritePosition
  <2>7. ASSUME NEW a \in Cells(WritePosition, size)
        PROVE  a \in Cells(At(s), SegmentToSize(s))
    <3> HIDE DEF s, size
    <3> QED BY <2>2, <2>4, <2>5, <2>6 DEF Cells
  <2>8. InFlight = Cells(WritePosition, size)
    BY <1>4 DEF InFlight
  <2>9. StepRange(step + 1) = Cells(At(s), SegmentToSize(s))
    BY <2>2, <2>3, SegmentRange
  <2> QED BY <2>7, <2>8, <2>9
<1>5. CASE /\ ~StepCompleted /\ ~InShift
           /\ state \notin {"dfpatch_size", "diff_data", "extra_data"}
  BY <1>5 DEF InFlight, InShift
<1> QED BY <1>1, <1>2, <1>3, <1>4, <1>5

\* A torn memory is still as the step table says.
LEMMA TearFacts ==
    ASSUME HasSteps, Inductive, Running, Tear
    PROVE  /\ mem' \in [Addr -> Cell]
           /\ \A a \in Addr \ StepRange(step + 1) : mem'[a] = mem[a]
<1>1. PICK torn \in SUBSET InFlight :
         mem' = [a \in Addr |-> IF a \in torn THEN Garbage ELSE mem[a]]
  BY DEF Tear
<1>2. torn \subseteq StepRange(step + 1)
  BY InFlightFacts
<1> QED BY <1>1, <1>2 DEF Inductive, TypeOK, Cell

\* Without a running applier no callback is in flight.
LEMMA NoTear ==
    ASSUME Inductive, state = "failed", Tear
    PROVE  mem' = mem
<1>1. InFlight = {}
  BY DEF InFlight
<1>2. SUBSET {} = {{}}
  OBVIOUS
<1> QED BY <1>1, <1>2 DEF Tear, Inductive, TypeOK

\* A failing callback, which ends the call, keeps the inductive invariant.
LEMMA FailStep ==
    ASSUME HasSteps, Inductive, Fail
    PROVE  Inductive'
<1> USE DEF Inductive, Fail
<1>1. /\ mem' \in [Addr -> Cell]
      /\ \A a \in Addr \ StepRange(step + 1) : mem'[a] = mem[a]
  BY TearFacts
<1>2. ~Updated
  BY DEF Updated, Running, Position
<1>3. TypeOK'
  BY <1>1 DEF TypeOK
<1>4. StepInRange' /\ ImageComplete' /\ StepTable'
  BY <1>1, <1>2 DEF StepInRange, ImageComplete, StepTable, Updated
<1>5. Position' /\ Cursor' /\ Progress'
  BY <1>2 DEF Position, Cursor, Progress, InShift, InSegment, Running, Updated
<1> QED BY <1>3, <1>4, <1>5

\* A crash that loses the applier but no step it has stored keeps the inductive
\* invariant.
LEMMA CrashStep ==
    ASSUME HasSteps, ~LateCrash, Inductive, Crash
    PROVE  Inductive'
<1> USE DEF Inductive, Crash, LoseApplier
<1>1. Running \/ state = "failed"
  OBVIOUS
<1>2. /\ mem' \in [Addr -> Cell]
      /\ \A a \in Addr \ StepRange(step + 1) : mem'[a] = mem[a]
  BY <1>1, TearFacts, NoTear DEF TypeOK
<1>3. ~Updated
  BY <1>1 DEF Updated, Running, Position
<1>4. TypeOK'
  <2>1. 0 \in 0 .. SegmentSize /\ 0 \in 0 .. ToSize /\ 0 \in 0 .. HeaderFields - 1
    BY Sizes DEF HeaderFields
  <2> QED BY <1>2, <2>1 DEF TypeOK, NoSegment
<1>5. StepInRange' /\ ImageComplete' /\ StepTable'
  BY <1>2, <1>3 DEF StepInRange, ImageComplete, StepTable, Updated
<1>6. Position' /\ Cursor' /\ Progress'
  BY <1>3 DEF Position, Cursor, Progress, InShift, InSegment, Running, Updated
<1> QED BY <1>4, <1>5, <1>6

\* A step that changes nothing keeps the inductive invariant.
LEMMA StutterStep ==
    ASSUME Inductive, UNCHANGED vars
    PROVE  Inductive'
<1> USE DEF Inductive, vars, persistent, volatile
<1>1. TypeOK' /\ StepInRange' /\ ImageComplete' /\ StepTable'
  BY DEF TypeOK, StepInRange, ImageComplete, StepTable, Updated
<1>2. Position' /\ Progress'
  BY DEF Position, Progress, InShift, InSegment, Running, Current, WriteAddress, ReadAddress
<1>3. Cursor'
  BY DEF Cursor, CurrentRecord, DiffDone, ExtraDone
<1> QED BY <1>1, <1>2, <1>3

\* Every step of an update with stored steps keeps the inductive invariant, as long
\* as no crash falls between the step_set(0) of the last step and the report of it.
THEOREM InductiveNext ==
    ASSUME HasSteps, ~LateCrash, HeaderWhole, Inductive, [Next]_vars
    PROVE  Inductive'
<1>1. CASE Initialize
  BY <1>1, InitializeStep
<1>2. CASE HeaderField \/ HeaderToSize
  BY <1>2, HeaderFieldStep, HeaderToSizeStep
<1>3. CASE Shift
  BY <1>3, ShiftEraseStep, ShiftCopyStep, ShiftStepStep DEF Shift
<1>4. CASE DfpatchSize
  BY <1>4, DfpatchSizeStep
<1>5. CASE Data
  BY <1>5, ProcessSizeStep, ChunkEndStep, DiffDataStep, ExtraDataStep DEF Data
<1>6. CASE Adjustment
  BY <1>6, AdjustmentLastStep, AdjustmentSegmentStep, AdjustmentRecordStep DEF Adjustment
<1>7. CASE Finalize
  BY <1>7, FinalizeStep
<1>8. CASE Fail
  BY <1>8, FailStep
<1>9. CASE Crash
  BY <1>9, CrashStep
<1>10. CASE Idle \/ UNCHANGED vars
  BY <1>10, StutterStep DEF Idle
<1> QED
  BY <1>1, <1>2, <1>3, <1>4, <1>5, <1>6, <1>7, <1>8, <1>9, <1>10
     DEF Next, Update, ProcessOnce

\* The inductive invariant holds throughout.
THEOREM InductiveInvariant ==
    ASSUME HasSteps, ~LateCrash, HeaderWhole
    PROVE  Spec => []Inductive
<1>1. Inductive /\ [Next]_vars => Inductive'
  BY InductiveNext
<1> QED BY <1>1, InductiveInit, PTL DEF Spec

\* The sizes, positions and states of the applier stay in their types, whatever the
\* geometry, the patch and the interruptions.
THEOREM TypeCorrect ==
    ASSUME HasSteps, ~LateCrash, HeaderWhole
    PROVE  Spec => []TypeOK
<1>1. Inductive => TypeOK
  BY DEF Inductive
<1> QED BY <1>1, InductiveInvariant, PTL

\* When in_place_process has reported the end of the update, the memory holds the new
\* image, however often the update was interrupted before (detools.c:1525-1590): for
\* every geometry, every well-formed patch and any number of crashes and failures.
THEOREM UpdateIsComplete ==
    ASSUME HasSteps, ~LateCrash, HeaderWhole
    PROVE  Spec => []ImageComplete
<1>1. Inductive => ImageComplete
  BY DEF Inductive
<1> QED BY <1>1, InductiveInvariant, PTL

\* While step p is stored, every cell outside the segment of step p + 1 is as the
\* first p steps leave it: the table of steps in docs/index.rst, at every point where
\* an update can be interrupted.
THEOREM InterruptedAnywhere ==
    ASSUME HasSteps, ~LateCrash, HeaderWhole
    PROVE  Spec => []StepTable
<1>1. Inductive => StepTable
  BY DEF Inductive
<1> QED BY <1>1, InductiveInvariant, PTL

-----------------------------------------------------------------------------
(* Between the specification above and the memory below *)

\* An update to an empty image leaves the memory alone.
Untouched == ToSize = 0 => \A a \in Addr : mem[a] = Old(a)

LEMMA IdealZero == \A a \in Addr : IdealCell(0, a) = Old(a)
<1>1. MinOf(0, ShiftCount) = 0 /\ ~(0 > ShiftCount)
  BY ShiftFacts DEF MinOf
<1>2. ShiftCount - 0 = ShiftCount /\ At(ShiftCount) \in Int
  BY ShiftFacts, AtType
<1>3. \A a \in Addr : a \notin Cells(At(ShiftCount) + ShiftSize, 0)
  BY <1>2, Sizes DEF Cells, Addr
<1> QED BY <1>1, <1>2, <1>3, AtZero DEF IdealCell

\* The table has a step for every segment that is shifted or written.
LEMMA StepsFacts ==
    /\ Steps \in Nat
    /\ ToSize > 0 => Steps > 0 /\ Steps = ShiftCount + SegmentCount
    /\ ToSize = 0 => Steps = 0
<1>1. ToSize > 0 => 0 < SegmentCount
  BY AtZero, SegmentFacts
<1> QED BY <1>1, ShiftFacts, SegmentFacts, Sizes DEF Steps

LEMMA StepFacts ==
    ASSUME Inductive, ToSize > 0
    PROVE  step \in Nat /\ step < Steps /\ step + 1 \in 1 .. Steps
  BY StepsFacts DEF Inductive, TypeOK, StepInRange

\* A step changes nothing of the table but its own cells.
LEMMA IdealStep ==
    ASSUME NEW p \in Nat, p < Steps
    PROVE  \A a \in Addr \ StepRange(p + 1) : IdealCell(p + 1, a) = IdealCell(p, a)
<1>1. Steps = ShiftCount + SegmentCount /\ ShiftCount \in Nat /\ SegmentCount \in Nat
  BY StepsFacts, ShiftFacts, SegmentFacts, Sizes
<1>2. CASE p < ShiftCount
  BY <1>2, IdealShiftStep
<1>3. CASE ~(p < ShiftCount)
  <2> DEFINE s == p - ShiftCount
  <2>1. s \in Nat /\ s < SegmentCount /\ p = ShiftCount + s
    BY <1>1, <1>3
  <2>2. At(s) < ToSize
    BY <2>1, SegmentFacts
  <2> HIDE DEF s
  <2> QED BY <2>1, <2>2, IdealSegmentStep
<1> QED BY <1>2, <1>3

-----------------------------------------------------------------------------
\* No cell is touched for an empty image.
LEMMA EmptyImage ==
    ASSUME Inductive, ToSize = 0, [Next]_vars
    PROVE  mem' = mem
<1>1. state \in {"off", "init", "done", "failed"}
  BY DEF Inductive, TypeOK, Position, InShift, InSegment
<1>2. InFlight = {}
  BY <1>1 DEF InFlight
<1>3. Tear => mem' = mem
  BY <1>2 DEF Tear, Inductive, TypeOK
<1>4. \/ UNCHANGED mem
      \/ Fail \/ Crash
  BY <1>1 DEF Next, Update, ProcessOnce, Initialize, HeaderField, HeaderToSize, Shift,
     ShiftErase, ShiftCopy, ShiftStep, DfpatchSize, Data, DiffSize, DiffData, DiffEnd,
     ExtraSize, ExtraData, ExtraEnd, ProcessSize, ChunkEnd, Adjustment, AdjustmentLast,
     AdjustmentSegment, AdjustmentRecord, Finalize, EndAttempt, Idle, vars, persistent
<1> QED BY <1>3, <1>4 DEF Fail, Crash

LEMMA UntouchedInvariant ==
    ASSUME HasSteps, ~LateCrash, HeaderWhole
    PROVE  Spec => []Untouched
<1>1. Init => Untouched
  BY DEF Init, Untouched
<1>2. Untouched /\ Inductive /\ [Next]_vars => Untouched'
  BY EmptyImage DEF Untouched
<1> QED BY <1>1, <1>2, InductiveInvariant, PTL DEF Spec

-----------------------------------------------------------------------------
TableStep == [Table!Next]_(Table!vars)

\* An action within a step changes cells of the step only.
LEMMA WorkStep ==
    ASSUME Inductive, Inductive', [Next]_vars, ~Updated, ~Updated', step' = step
    PROVE  TableStep
<1>1. CASE ToSize = 0
  BY <1>1, EmptyImage DEF TableStep, Table!vars, Updated
<1>2. CASE ToSize # 0
  <2>1. step \in Nat /\ step < Steps /\ step + 1 \in 1 .. Steps
    BY <1>2, StepFacts, Sizes
  <2>2. mem' \in [Addr -> Cell]
    BY DEF Inductive, TypeOK
  <2>3. \A a \in Addr \ StepRange(step + 1) : mem'[a] = mem[a]
    BY DEF Inductive, StepTable
  <2> QED BY <2>1, <2>2, <2>3 DEF TableStep, Table!Next, Table!Work, Updated
<1> QED BY <1>1, <1>2

\* When the cells of the step are as they should be, the whole memory is.
LEMMA IdealMemory ==
    ASSUME Inductive, ToSize > 0, ~Updated,
           \A a \in StepRange(step + 1) : mem[a] = IdealCell(step + 1, a)
    PROVE  mem = [a \in Addr |-> IdealCell(step + 1, a)]
<1>1. \A a \in Addr : mem[a] = IdealCell(step + 1, a)
  BY StepFacts, IdealStep DEF Inductive, StepTable
<1> QED BY <1>1 DEF Inductive, TypeOK

\* What the last action of a step leaves in its cells.
LEMMA ShiftDone ==
    ASSUME Inductive, ShiftStep, ongoing = step + 1
    PROVE  \A a \in StepRange(step + 1) : mem[a] = IdealCell(step + 1, a)
<1>1. /\ i \in Nat /\ i < ShiftCount /\ step \in Nat /\ ongoing = i + 1
      /\ state = "shift_copy" /\ offset = SegmentSize
  BY DEF Inductive, ShiftStep, Position, InShift, TypeOK
<1>2. step = i
  BY <1>1
<1>3. \A a \in StepRange(i + 1) : a \in Cells(WriteAddress, offset)
  BY <1>1, ShiftRange DEF WriteAddress, ReadAddress
<1> QED BY <1>1, <1>2, <1>3, IdealShiftStep DEF Inductive, Progress

LEMMA SegmentDone ==
    ASSUME Inductive, state = "adjustment", ongoing = step + 1,
           segment.to_pos = SegmentToSize(Current)
    PROVE  \A a \in StepRange(step + 1) : mem[a] = IdealCell(step + 1, a)
<1> DEFINE s == Current
<1>0. InSegment
  BY DEF InSegment
<1>1. /\ s \in Nat /\ At(s) < ToSize /\ step \in Nat /\ ShiftCount \in Nat
      /\ ongoing = ShiftCount + s + 1
      /\ segment.to_offset = At(s)
  BY <1>0, InSegmentFacts
<1>2. step = ShiftCount + s
  BY <1>1
<1>3. \A a \in StepRange(ShiftCount + s + 1) :
         a \in Cells(segment.to_offset, segment.to_pos)
  BY <1>1, SegmentRange
<1> QED BY <1>0, <1>1, <1>2, <1>3, IdealSegmentStep DEF Inductive, Progress

\* A step is stored when it is done, and not before.
LEMMA CompleteStep ==
    ASSUME HasSteps, Inductive, Inductive', ShiftStep \/ AdjustmentSegment
    PROVE  TableStep
<1>1. /\ NextStep /\ UNCHANGED mem /\ ~Updated /\ ~Updated'
      /\ step \in Nat /\ ToSize > 0 /\ ongoing <= step + 1 /\ ongoing \in Nat
  BY DEF ShiftStep, AdjustmentSegment, Inductive, Position, Running, Updated, TypeOK,
         InShift, InSegment
<1>2. step' = step \/ (ongoing = step + 1 /\ step' = step + 1)
  BY <1>1 DEF NextStep, StepCompleted
<1>3. CASE step' = step
  BY <1>1, <1>3 DEF TableStep, Table!vars, Updated
<1>4. CASE ongoing = step + 1 /\ step' = step + 1
  <2>1. ASSUME AdjustmentSegment PROVE segment.to_pos = SegmentToSize(Current)
    BY <2>1, InSegmentFacts DEF AdjustmentSegment, InSegment
  <2>2. \A a \in StepRange(step + 1) : mem[a] = IdealCell(step + 1, a)
    BY <1>4, <2>1, ShiftDone, SegmentDone DEF AdjustmentSegment
  <2>3. mem = [a \in Addr |-> IdealCell(step + 1, a)]
    BY <1>1, <2>2, IdealMemory
  <2>4. step + 1 < Steps /\ step + 1 \in 0 .. Steps
    BY <1>1, <1>4, StepsFacts DEF Inductive, StepInRange
  <2> QED BY <1>1, <1>4, <2>3, <2>4 DEF TableStep, Table!Next, Table!Complete, Updated
<1> QED BY <1>2, <1>3, <1>4

\* The update is done with its last step.
LEMMA FinishStep ==
    ASSUME HasSteps, Inductive, AdjustmentLast
    PROVE  TableStep
<1> DEFINE s == Current
<1>0. InSegment /\ state = "adjustment"
  BY DEF AdjustmentLast, InSegment
<1>1. /\ s \in Nat /\ At(s) \in Nat /\ At(s) < ToSize
      /\ ongoing = ShiftCount + s + 1 /\ ongoing <= step + 1
      /\ step \in Nat /\ ~applied /\ ToSize > 0 /\ ShiftCount \in Nat
      /\ segment.to_offset = At(s) /\ segment.to_pos \in Nat
      /\ SegmentToSize(s) \in Nat /\ to_pos = At(s) + segment.to_pos
      /\ CurrentRecord.to + CurrentRecord.diff + CurrentRecord.extra <= SegmentToSize(s)
  BY <1>0, InSegmentFacts
<1>2. /\ state' = "done" /\ step' = 0 /\ to_pos = ToSize /\ UNCHANGED mem
  BY DEF AdjustmentLast
<1>3. segment.to_pos <= SegmentToSize(s)
  BY <1>0, <1>1 DEF Inductive, Cursor
<1>4. segment.to_pos = SegmentToSize(s) /\ At(s + 1) >= ToSize
  <2>1. At(s) + SegmentToSize(s) <= ToSize /\ SegmentToSize(s) <= SegmentSize
        /\ At(s + 1) = At(s) + SegmentSize
    BY <1>1, SegmentToSizeFacts, AtSum
  <2> QED BY <1>1, <1>2, <1>3, <2>1, Sizes
<1>5. step < Steps /\ Steps = ShiftCount + SegmentCount /\ SegmentCount \in Nat
  BY <1>1, StepFacts, StepsFacts, SegmentFacts
<1>6. SegmentCount <= s + 1
  <2>1. s + 1 \in Nat /\ ~(At(s + 1) < ToSize)
    BY <1>1, <1>4, AtType, Sizes
  <2> QED BY <1>5, <2>1, SegmentFacts
<1>7. ongoing = step + 1 /\ step + 1 = Steps
  BY <1>1, <1>5, <1>6
<1>8. mem = [a \in Addr |-> IdealCell(step + 1, a)]
  BY <1>0, <1>1, <1>4, <1>7, SegmentDone, IdealMemory DEF Updated
<1>9. ~Updated /\ Updated'
  BY <1>0, <1>1, <1>2 DEF Updated
<1> QED BY <1>1, <1>2, <1>5, <1>7, <1>8, <1>9, StepsFacts
        DEF TableStep, Table!Next, Table!Finish, Updated

\* The update to an empty image has no steps and is done at once.
LEMMA EmptyStep ==
    ASSUME Inductive, Untouched, HeaderToSize, ToSize = 0
    PROVE  TableStep
<1>1. step = 0 /\ Steps = 0
  BY StepsFacts DEF Inductive, TypeOK, StepInRange
<1>2. mem = [a \in Addr |-> IdealCell(0, a)]
  <2>1. \A a \in Addr : mem[a] = IdealCell(0, a)
    BY IdealZero DEF Untouched
  <2> QED BY <2>1 DEF Inductive, TypeOK
<1>3. ~Updated /\ Updated' /\ UNCHANGED <<mem, step>>
  BY DEF HeaderToSize, Updated, Inductive, Position, persistent
<1> QED BY <1>1, <1>2, <1>3 DEF TableStep, Table!Next, Table!Finish, Updated

LEMMA NextIsTableStep ==
    ASSUME HasSteps, ~LateCrash, HeaderWhole, Inductive, Inductive', Untouched, [Next]_vars
    PROVE  TableStep
<1>1. CASE Initialize \/ HeaderField \/ ShiftErase \/ ShiftCopy \/ DfpatchSize
           \/ Data \/ AdjustmentRecord \/ Fail
  <2>1. step' = step /\ ~Updated /\ ~Updated'
    BY <1>1 DEF Initialize, HeaderField, ShiftErase, ShiftCopy, DfpatchSize, Data,
       DiffSize, DiffData, DiffEnd, ExtraSize, ExtraData, ExtraEnd, ProcessSize, ChunkEnd,
       Advance, AdjustmentRecord, Fail, Running, Updated, Inductive, Position, persistent
  <2> QED BY <2>1, WorkStep
<1>2. CASE HeaderToSize
  <2>1. CASE ToSize = 0
    BY <1>2, <2>1, EmptyStep
  <2>2. CASE ToSize # 0
    <3>1. step' = step /\ ~Updated /\ ~Updated'
      BY <1>2, <2>2 DEF HeaderToSize, Updated, Inductive, Position, persistent
    <3> QED BY <3>1, WorkStep
  <2> QED BY <2>1, <2>2
<1>3. CASE ShiftStep \/ AdjustmentSegment
  BY <1>3, CompleteStep
<1>4. CASE AdjustmentLast
  BY <1>4, FinishStep
<1>5. CASE Finalize
  BY <1>5 DEF Finalize, EndAttempt, WholePatchRead, LoseApplier, TableStep, Table!vars,
              Updated, Inductive, Position, TypeOK
<1>6. CASE Crash
  <2>1. step' = step /\ ~Updated /\ ~Updated'
    BY <1>6 DEF Crash, LoseApplier, Running, Updated, Inductive, Position
  <2> QED BY <2>1, WorkStep
<1>7. CASE Idle \/ UNCHANGED vars
  BY <1>7 DEF Idle, vars, persistent, volatile, TableStep, Table!vars, Updated
<1> QED BY <1>1, <1>2, <1>3, <1>4, <1>5, <1>6, <1>7
        DEF Next, Update, ProcessOnce, Shift, Adjustment

\* The table of steps in docs/index.rst as a specification, ResumableUpdate, is
\* implemented by the applier: whatever interrupts it, and for every geometry, every
\* well-formed patch and any number of failures.
THEOREM ImplementsTableAlways ==
    ASSUME HasSteps, ~LateCrash, HeaderWhole
    PROVE  Spec => ImplementsTable
<1>1. Init => Table!Init
  <2> SUFFICES ASSUME Init PROVE Table!Init
    OBVIOUS
  <2>1. mem = [a \in Addr |-> IdealCell(0, a)]
    BY IdealZero DEF Init
  <2>2. 0 \in 0 .. Steps
    BY StepsFacts
  <2> QED BY <2>1, <2>2 DEF Init, Table!Init, Updated
<1>2. Inductive /\ Inductive' /\ Untouched /\ [Next]_vars => [Table!Next]_(Table!vars)
  BY NextIsTableStep DEF TableStep
<1> QED BY <1>1, <1>2, InductiveInvariant, UntouchedInvariant, PTL
        DEF Spec, ImplementsTable, Table!Spec

-----------------------------------------------------------------------------

\* The cells that the step in progress has still to write.
Ahead ==
    CASE state = "shift_copy" -> Cells(WriteAddress + offset, SegmentSize - offset)
      [] InSegment -> Cells(WritePosition, SegmentToSize(Current) - segment.to_pos)
      [] OTHER -> {}

ErasedAhead == ~StepCompleted => \A a \in Addr \cap Ahead : mem[a] = Erased

\* What WritesErased says of one step.
ProgramsErased ==
    \A a \in Addr : mem'[a] # mem[a] /\ mem'[a] \notin {Erased, Garbage} => mem[a] = Erased

\* A range of cells is its first few and the rest.
LEMMA CellsSplit ==
    ASSUME NEW first \in Int, NEW n \in Nat, NEW total \in Nat, n <= total
    PROVE  /\ Cells(first, n) \subseteq Cells(first, total)
           /\ Cells(first + n, total - n) \subseteq Cells(first, total) \ Cells(first, n)
<1>1. ASSUME NEW a \in Cells(first, n) PROVE a \in Cells(first, total)
  <2>1. a \in Int /\ first <= a /\ a <= first + n - 1
    BY DEF Cells
  <2>2. a <= first + total - 1
    BY <2>1
  <2> QED BY <2>1, <2>2 DEF Cells
<1>2. ASSUME NEW a \in Cells(first + n, total - n)
      PROVE  a \in Cells(first, total) \ Cells(first, n)
  <2>1. a \in Int /\ first + n <= a /\ a <= first + n + (total - n) - 1
    BY DEF Cells
  <2>2. first <= a /\ a <= first + total - 1 /\ ~(a <= first + n - 1)
    BY <2>1
  <2> QED BY <2>1, <2>2 DEF Cells
<1> QED BY <1>1, <1>2

\* A write at the front of what is ahead hits erased cells and leaves the rest erased.
LEMMA WriteAtFront ==
    ASSUME Inductive, ErasedAhead,
           NEW first \in Int, NEW n \in Nat, NEW total \in Nat, n <= total,
           Ahead = Cells(first, total), Ahead' = Cells(first + n, total - n),
           NEW data, Write(first, n, data),
           UNCHANGED <<step, ongoing>>
    PROVE  ErasedAhead' /\ ProgramsErased
<1>1. CASE StepCompleted
  BY <1>1 DEF Write, StepCompleted, ErasedAhead, ProgramsErased
<1>2. CASE ~StepCompleted
  <2>1. mem' = [a \in Addr |-> IF a \in Cells(first, n) THEN data[a] ELSE mem[a]]
    BY <1>2 DEF Write
  <2> QED BY <1>2, <2>1, CellsSplit DEF ErasedAhead, ProgramsErased, StepCompleted
<1> QED BY <1>1, <1>2

\* An erase at the beginning of a step.
LEMMA EraseAll ==
    ASSUME Inductive, NEW first, NEW n, Erase(first, n), Ahead' = Cells(first, n),
           UNCHANGED <<step, ongoing>>
    PROVE  ErasedAhead' /\ ProgramsErased
<1>1. CASE StepCompleted
  BY <1>1 DEF Erase, Write, StepCompleted, ErasedAhead, ProgramsErased
<1>2. CASE ~StepCompleted
  <2>1. mem' = [a \in Addr |-> IF a \in Cells(first, n) THEN Erased ELSE mem[a]]
    BY <1>2 DEF Erase, Write
  <2> QED BY <1>2, <2>1 DEF ErasedAhead, ProgramsErased
<1> QED BY <1>1, <1>2

\* An action that writes nothing, and has nothing ahead that was not ahead before.
LEMMA NothingWritten ==
    ASSUME ErasedAhead, UNCHANGED mem,
           Ahead' = {} \/ (Ahead' = Ahead /\ UNCHANGED <<step, ongoing>>)
    PROVE  ErasedAhead' /\ ProgramsErased
  BY DEF ErasedAhead, ProgramsErased, StepCompleted

-----------------------------------------------------------------------------
LEMMA ShiftEraseErases ==
    ASSUME Inductive, ShiftErase
    PROVE  ErasedAhead' /\ ProgramsErased
<1>1. i \in Nat /\ i < ShiftCount
  BY DEF Inductive, ShiftErase, Position, InShift, TypeOK
<1>2. WriteAddress \in Int
  BY <1>1, ShiftRange, Sizes DEF WriteAddress, ReadAddress
<1>3. Ahead' = Cells(WriteAddress, SegmentSize)
  <2>1. state' = "shift_copy" /\ offset' = 0 /\ WriteAddress' = WriteAddress
    BY DEF ShiftErase, WriteAddress, ReadAddress
  <2>2. WriteAddress + 0 = WriteAddress /\ SegmentSize - 0 = SegmentSize
    BY <1>2, Sizes
  <2> QED BY <2>1, <2>2 DEF Ahead, InSegment
<1> QED BY <1>3, EraseAll DEF ShiftErase

LEMMA ShiftCopyWritesErased ==
    ASSUME Inductive, ErasedAhead, ShiftCopy
    PROVE  ErasedAhead' /\ ProgramsErased
<1>1. /\ i \in Nat /\ i < ShiftCount /\ offset \in Nat /\ offset < SegmentSize
      /\ state = "shift_copy"
  BY Sizes DEF Inductive, ShiftCopy, Position, InShift, TypeOK
<1>2. WriteAddress \in Int /\ WriteAddress' = WriteAddress
  BY <1>1, ShiftRange, Sizes DEF WriteAddress, ReadAddress, ShiftCopy
<1>3. CopySize \in Nat /\ CopySize <= SegmentSize - offset
  BY <1>1, Sizes DEF CopySize, MinOf
<1>4. Ahead = Cells(WriteAddress + offset, SegmentSize - offset)
  BY <1>1 DEF Ahead, InSegment
<1>5. Ahead' = Cells((WriteAddress + offset) + CopySize, (SegmentSize - offset) - CopySize)
  <2>1. state' = "shift_copy" /\ offset' = offset + CopySize
    BY <1>1 DEF ShiftCopy
  <2>2. /\ WriteAddress + (offset + CopySize) = (WriteAddress + offset) + CopySize
        /\ SegmentSize - (offset + CopySize) = (SegmentSize - offset) - CopySize
    BY <1>1, <1>2, <1>3, Sizes
  <2> QED BY <1>2, <2>1, <2>2 DEF Ahead, InSegment
<1>6. WriteAddress + offset \in Int /\ SegmentSize - offset \in Nat
  BY <1>1, <1>2, Sizes
<1> QED BY <1>3, <1>4, <1>5, <1>6, WriteAtFront DEF ShiftCopy

LEMMA DfpatchSizeErases ==
    ASSUME Inductive, DfpatchSize
    PROVE  ErasedAhead' /\ ProgramsErased
<1> DEFINE s == segment.index
<1>1. s \in Nat /\ At(s) < ToSize
  BY DEF Inductive, DfpatchSize, Position, TypeOK
<1>2. At(s) \in Int /\ SegmentToSize(s) \in Nat
  BY <1>1, AtType, SegmentToSizeFacts
<1>3. Ahead' = Cells(At(s), SegmentToSize(s))
  <2>1. /\ state' = "diff_size" /\ segment'.index = s + 1 /\ segment'.to_pos = 0
        /\ segment'.to_offset = At(s)
    BY DEF DfpatchSize
  <2>2. Current' = s
    BY <1>1, <2>1 DEF Current
  <2>3. WritePosition' = At(s) /\ SegmentToSize(s) - segment'.to_pos = SegmentToSize(s)
    BY <1>2, <2>1 DEF WritePosition
  <2>4. InSegment' /\ state' # "shift_copy"
    BY <2>1 DEF InSegment
  <2> HIDE DEF s
  <2> QED BY <2>2, <2>3, <2>4 DEF Ahead
<1> QED BY <1>3, EraseAll DEF DfpatchSize

\* Diff and extra data are written at the front of what is left of the segment.
LEMMA DataWritesErased ==
    ASSUME Inductive, ErasedAhead, DiffData \/ ExtraData
    PROVE  ErasedAhead' /\ ProgramsErased
<1> DEFINE s == Current
           r == CurrentRecord
           left == SegmentToSize(s) - segment.to_pos
<1>1. InSegment /\ state \in {"diff_data", "extra_data"}
  BY DEF DiffData, ExtraData, InSegment
<1>2. /\ At(s) \in Nat /\ segment.to_offset = At(s) /\ segment.to_pos \in Nat
      /\ SegmentToSize(s) \in Nat /\ chunk_size \in Nat
      /\ r.to \in Nat /\ r.diff \in Nat /\ r.extra \in Nat
      /\ r.to + r.diff + r.extra <= SegmentToSize(s)
  BY <1>1, InSegmentFacts
<1>3. left \in Nat /\ chunk_size <= left
  <2>1. /\ state = "diff_data" => chunk_size <= r.diff /\ segment.to_pos = r.to + DiffDone
        /\ state = "extra_data" =>
              chunk_size <= r.extra /\ segment.to_pos = r.to + r.diff + ExtraDone
    BY DEF Inductive, Cursor
  <2> QED BY <1>1, <1>2, <2>1 DEF DiffDone, ExtraDone
<1>4. PICK size \in 1 .. MinOf(BufferSize, chunk_size) :
         /\ \E data : Write(WritePosition, size, data)
         /\ \E from_offset : segment' = [segment EXCEPT !.from_offset = from_offset,
                                                        !.to_pos = segment.to_pos + size]
         /\ Advance(size)
  <2>1. segment = [segment EXCEPT !.from_offset = segment.from_offset]
    BY DEF Inductive, TypeOK
  <2>2. CASE DiffData
    BY <2>2 DEF DiffData
  <2>3. CASE ExtraData
    <3>1. PICK size \in 1 .. MinOf(BufferSize, chunk_size) :
             /\ \E data : Write(WritePosition, size, data)
             /\ segment' = [segment EXCEPT !.to_pos = @ + size]
             /\ Advance(size)
      BY <2>3 DEF ExtraData
    <3>2. segment' = [segment EXCEPT !.from_offset = segment.from_offset,
                                     !.to_pos = segment.to_pos + size]
      BY <3>1 DEF Inductive, TypeOK
    <3> QED BY <3>1, <3>2
  <2> QED BY <2>2, <2>3
<1>5. size \in Nat /\ size <= left
  BY <1>2, <1>3, <1>4, Sizes DEF MinOf
<1>6. WritePosition = At(s) + segment.to_pos /\ WritePosition \in Int
  BY <1>2 DEF WritePosition
<1>7. Ahead = Cells(WritePosition, left)
  BY <1>1 DEF Ahead
<1>8. Ahead' = Cells(WritePosition + size, left - size)
  <2>1. segment \in [index : Nat, from_offset : Int, to_offset : Nat,
                     to_size : Nat, to_pos : Nat]
    BY DEF Inductive, TypeOK
  <2>2. /\ segment'.index = segment.index /\ segment'.to_offset = segment.to_offset
        /\ segment'.to_pos = segment.to_pos + size
    BY <1>4, <2>1
  <2>3. state' = state
    BY <1>4 DEF Advance
  <2>4. /\ Current' = s /\ WritePosition' = WritePosition + size
        /\ SegmentToSize(s) - segment'.to_pos = left - size
    BY <1>2, <1>5, <1>6, <2>2 DEF Current, WritePosition
  <2>5. InSegment' /\ state' # "shift_copy"
    BY <1>1, <2>3 DEF InSegment
  <2> HIDE DEF s
  <2> QED BY <2>4, <2>5 DEF Ahead
<1>9. UNCHANGED <<step, ongoing>>
  BY <1>4 DEF Advance
<1> HIDE DEF left
<1> QED BY <1>3, <1>4, <1>5, <1>6, <1>7, <1>8, <1>9, WriteAtFront

\* An adjustment within a segment moves in the old image only.
LEMMA AdjustmentRecordWritesNothing ==
    ASSUME Inductive, ErasedAhead, AdjustmentRecord
    PROVE  ErasedAhead' /\ ProgramsErased
<1>1. /\ segment'.index = segment.index /\ segment'.to_offset = segment.to_offset
      /\ segment'.to_pos = segment.to_pos
  BY DEF AdjustmentRecord, Inductive, TypeOK
<1>2. Ahead' = Ahead
  BY <1>1 DEF AdjustmentRecord, Ahead, InSegment, Current, WritePosition
<1> QED BY <1>2, NothingWritten DEF AdjustmentRecord, persistent

\* What is torn is garbage, and the applier that tore it is gone or has failed.
LEMMA InterruptionWritesNothing ==
    ASSUME Inductive, Fail \/ Crash
    PROVE  ErasedAhead' /\ ProgramsErased
<1>1. Ahead' = {}
  BY DEF Fail, Crash, LoseApplier, Ahead, InSegment
<1>2. ProgramsErased
  BY DEF Fail, Crash, Tear, ProgramsErased
<1> QED BY <1>1, <1>2 DEF ErasedAhead

\* Every step keeps what is ahead erased, and programs only erased cells.
LEMMA NextProgramsErased ==
    ASSUME Inductive, ErasedAhead, [Next]_vars
    PROVE  ErasedAhead' /\ ProgramsErased
<1>1. CASE ShiftErase \/ ShiftCopy \/ DfpatchSize
  BY <1>1, ShiftEraseErases, ShiftCopyWritesErased, DfpatchSizeErases
<1>2. CASE DiffData \/ ExtraData
  BY <1>2, DataWritesErased
<1>3. CASE AdjustmentRecord
  BY <1>3, AdjustmentRecordWritesNothing
<1>4. CASE Fail \/ Crash
  BY <1>4, InterruptionWritesNothing
<1>5. CASE DiffSize \/ ExtraSize \/ DiffEnd \/ ExtraEnd
  <2>1. (Ahead' = Ahead \/ Ahead' = {}) /\ UNCHANGED <<mem, step, ongoing>>
    BY <1>5 DEF DiffSize, ExtraSize, DiffEnd, ExtraEnd, ProcessSize, ChunkEnd, Ahead,
                InSegment, Current, WritePosition, persistent
  <2> QED BY <2>1, NothingWritten
<1>6. CASE Initialize \/ HeaderField \/ HeaderToSize \/ ShiftStep \/ AdjustmentLast
           \/ AdjustmentSegment \/ Finalize
  <2>1. Ahead' = {} /\ UNCHANGED mem
    BY <1>6 DEF Initialize, HeaderField, HeaderToSize, ShiftStep, AdjustmentLast,
                AdjustmentSegment, Finalize, EndAttempt, LoseApplier, Ahead, InSegment,
                persistent
  <2> QED BY <2>1, NothingWritten
<1>7. CASE Idle \/ UNCHANGED vars
  <2>1. Ahead' = Ahead /\ UNCHANGED <<mem, step, ongoing>>
    BY <1>7 DEF Idle, vars, persistent, volatile, Ahead, InSegment, Current, WritePosition,
                WriteAddress, ReadAddress
  <2> QED BY <2>1, NothingWritten
<1> QED BY <1>1, <1>2, <1>3, <1>4, <1>5, <1>6, <1>7
        DEF Next, Update, ProcessOnce, Shift, Data, Adjustment

\* Flash is only programmed after an erase (in_place_mem_erase before every
\* in_place_mem_write of a cell, detools.c:1639-1718 and 1932-2010), also after any
\* interruption.
THEOREM WritesErasedAlways ==
    ASSUME HasSteps, ~LateCrash, HeaderWhole
    PROVE  Spec => WritesErased
<1>1. Init => ErasedAhead
  BY DEF Init, ErasedAhead, Ahead, InSegment
<1>2. Inductive /\ ErasedAhead /\ [Next]_vars => ErasedAhead' /\ ProgramsErased
  BY NextProgramsErased
<1>3. ProgramsErased =>
        [\A a \in Addr : mem'[a] # mem[a] /\ mem'[a] \notin {Erased, Garbage}
            => mem[a] = Erased]_vars
  BY DEF ProgramsErased
<1> QED BY <1>1, <1>2, <1>3, InductiveInvariant, PTL DEF Spec, WritesErased

-----------------------------------------------------------------------------
(***************************************************************************)
(* The memory file.                                                        *)
(***************************************************************************)

\* A stream that ends with all of its buffer in the file leaves in it what the applier
\* has written.
LEMMA NothingLost ==
    ASSUME Losses = {}, TypeOK, disk \in [Addr -> Cell], NEW event, EndStream(event)
    PROVE  mem' = mem /\ disk' = mem'
<1>1. PICK reached \in SUBSET Dirty :
         /\ event \in Losses \/ reached = Dirty
         /\ mem' = [a \in Addr |-> IF a \in reached THEN mem[a] ELSE disk[a]]
  BY DEF EndStream
<1>2. mem \in [Addr -> Cell]
  BY DEF TypeOK
<1>3. \A a \in Addr : (IF a \in reached THEN mem[a] ELSE disk[a]) = mem[a]
  BY <1>1 DEF Dirty
<1>4. mem' = [a \in Addr |-> mem[a]]
  BY <1>1, <1>3
<1> QED BY <1>2, <1>4 DEF EndStream

\* Every action over the file is then one of the applier, or changes nothing of it.
LEMMA FileStep ==
    ASSUME Losses = {}, TypeOK, disk \in [Addr -> Cell], [FileNext]_fileVars
    PROVE  [Next]_vars
<1>1. CASE (Initialize \/ ProcessOnce \/ Fail \/ Idle) /\ Sync
  BY <1>1 DEF Next, Update
<1>2. CASE FileFinalize
  <2>1. mem' = mem
    BY <1>2, NothingLost DEF FileFinalize
  <2> QED BY <1>2, <2>1 DEF FileFinalize, Finalize, Next, Update
<1>3. CASE ~buffered /\ Crash /\ Sync
  BY <1>3 DEF Next
<1>4. CASE buffered /\ BufferCrash
  <2>1. mem' = mem
    BY <1>4, NothingLost DEF BufferCrash
  <2>2. Tear
    BY <2>1 DEF Tear, TypeOK
  <2> QED BY <1>4, <2>2 DEF BufferCrash, Crash, Next
<1>5. CASE UNCHANGED fileVars
  BY <1>5 DEF fileVars
<1> QED BY <1>1, <1>2, <1>3, <1>4, <1>5 DEF FileNext

\* The two states the file may be in: as the table says for the stored step, or for
\* the one before.
UpToDate == \A a \in Addr \ StepRange(step + 1) : disk[a] = IdealCell(step, a)
OneBehind ==
    /\ step > 0
    /\ \A a \in Addr \ StepRange(step) : disk[a] = IdealCell(step - 1, a)

\* The step after the stored one has written something: what was in the buffer
\* before that is in the file.
Begun ==
    /\ ongoing = step + 1
    /\ \/ state = "shift_copy" /\ offset > 0
       \/ InSegment /\ segment.to_pos > 0

FileInv ==
    /\ disk \in [Addr -> Cell]
    /\ ~Updated => UpToDate \/ OneBehind
    /\ ~Updated /\ Begun => UpToDate

\* A file that is as the memory was or is, while the step stays, is up to date.
LEMMA WrittenOut ==
    ASSUME Inductive, Inductive',
           disk' = mem' \/ (disk' = mem /\ step' = step /\ ~Updated)
    PROVE  FileInv'
<1>1. disk' \in [Addr -> Cell]
  BY DEF Inductive, TypeOK
<1>2. ~Updated' => UpToDate'
  <2>1. CASE disk' = mem'
    BY <2>1 DEF Inductive, StepTable, UpToDate
  <2>2. CASE disk' = mem /\ step' = step /\ ~Updated
    BY <2>2 DEF Inductive, StepTable, UpToDate
  <2> QED BY <2>1, <2>2
<1> QED BY <1>1, <1>2 DEF FileInv

\* A file that is left alone stays up to date or one step behind while the step does.
LEMMA LeftAlone ==
    ASSUME FileInv, disk' = disk, step' = step, ~Updated' => ~Updated,
           ~Updated' /\ Begun' => Begun
    PROVE  FileInv'
<1>1. (UpToDate' <=> UpToDate) /\ (OneBehind' <=> OneBehind)
  BY DEF UpToDate, OneBehind
<1> QED BY <1>1 DEF FileInv

\* Storing a step leaves the file one step behind, as its last write may be in the
\* buffer; the writes before it are not.
LEMMA StoredStep ==
    ASSUME HasSteps, Inductive, FileInv, disk' = disk, ShiftStep \/ AdjustmentSegment
    PROVE  FileInv'
<1>1. /\ ~Updated /\ NextStep /\ step \in Nat /\ ongoing \in Nat /\ ongoing <= step + 1
  BY DEF ShiftStep, AdjustmentSegment, Inductive, Position, Running, Updated, TypeOK,
         InShift, InSegment
<1>2. ~Begun'
  BY DEF ShiftStep, AdjustmentSegment, Begun, InSegment
<1>3. CASE StepCompleted
  <2>1. step' = step
    BY <1>1, <1>3 DEF NextStep
  <2> QED BY <1>1, <1>2, <2>1, LeftAlone
<1>4. CASE ~StepCompleted
  <2>1. ongoing = step + 1 /\ step' = step + 1
    BY <1>1, <1>4 DEF NextStep, StepCompleted
  <2>2. Begun
    <3>1. CASE ShiftStep
      BY <2>1, <3>1, Sizes DEF ShiftStep, Begun
    <3>2. CASE AdjustmentSegment
      <4>1. InSegment
        BY <3>2 DEF AdjustmentSegment, InSegment
      <4>2. /\ Current \in Nat /\ At(Current) < ToSize
            /\ segment.to_size = SegmentToSize(Current)
        BY <4>1, InSegmentFacts
      <4>3. segment.to_pos > 0
        BY <3>2, <4>2, SegmentToSizeFacts DEF AdjustmentSegment
      <4> QED BY <2>1, <4>1, <4>3 DEF Begun
    <3> QED BY <3>1, <3>2
  <2>3. UpToDate
    BY <1>1, <2>2 DEF FileInv
  <2>4. OneBehind'
    <3>1. step' > 0 /\ step' - 1 = step
      BY <1>1, <2>1
    <3> QED BY <2>1, <2>3, <3>1 DEF OneBehind, UpToDate
  <2> QED BY <1>2, <2>4 DEF FileInv
<1> QED BY <1>3, <1>4

\* What an action does to the file that does not store a step and does not seek.
LEMMA UnsoughtStep ==
    ASSUME HasSteps, Inductive, FileInv, disk' = disk, ~Seeks,
           Initialize \/ ProcessOnce \/ Fail \/ Idle
    PROVE  FileInv'
<1>0. /\ Running => ~Updated
      /\ step \in Nat /\ ongoing \in Nat /\ chunk_size \in Nat
  BY DEF Inductive, Position, Running, Updated, TypeOK
<1>1. CASE Initialize \/ HeaderField \/ HeaderToSize \/ Fail
  <2>1. ~Updated /\ step' = step /\ ~Begun'
    BY <1>0, <1>1 DEF Initialize, HeaderField, HeaderToSize, Fail, Running, Updated, Begun,
                      InSegment, persistent
  <2> QED BY <2>1, LeftAlone
<1>2. CASE ShiftErase \/ DfpatchSize
  <2>1. ~Updated /\ step' = step
    BY <1>0, <1>2 DEF ShiftErase, DfpatchSize, Running
  <2>2. ~Begun'
    BY <1>2 DEF ShiftErase, DfpatchSize, Begun, InSegment
  <2> QED BY <2>1, <2>2, LeftAlone
<1>3. CASE ShiftCopy \/ DiffData \/ ExtraData
  <2>1. /\ Running /\ step' = step /\ ongoing' = ongoing
    BY <1>3 DEF ShiftCopy, DiffData, ExtraData, Advance, Running
  <2>2. ASSUME DiffData \/ ExtraData PROVE chunk_size > 0
    <3>1. PICK size \in 1 .. MinOf(BufferSize, chunk_size) : Advance(size)
      BY <2>2 DEF DiffData, ExtraData
    <3> QED BY <1>0, <3>1, Sizes DEF MinOf
  <2>3. StepCompleted
    BY <1>3, <2>2 DEF Seeks, ShiftCopy, DiffData, ExtraData
  <2>4. ~Begun'
    BY <1>0, <2>1, <2>3 DEF Begun, StepCompleted
  <2> QED BY <1>0, <2>1, <2>4, LeftAlone
<1>4. CASE ShiftStep \/ AdjustmentSegment
  BY <1>4, StoredStep
<1>5. CASE AdjustmentLast
  <2>1. Updated'
    BY <1>5 DEF AdjustmentLast, Updated
  <2> QED BY <2>1 DEF FileInv
<1>6. CASE DiffSize \/ ExtraSize \/ DiffEnd \/ ExtraEnd \/ AdjustmentRecord
  <2>1. Running /\ InSegment /\ step' = step /\ ongoing' = ongoing
    BY <1>6 DEF DiffSize, ExtraSize, DiffEnd, ExtraEnd, ProcessSize, ChunkEnd,
                AdjustmentRecord, Running, InSegment, persistent
  <2>2. segment'.to_pos = segment.to_pos /\ state' # "shift_copy"
    BY <1>6 DEF DiffSize, ExtraSize, DiffEnd, ExtraEnd, ProcessSize, ChunkEnd,
                AdjustmentRecord, Inductive, TypeOK
  <2> QED BY <1>0, <2>1, <2>2, LeftAlone DEF Begun
<1>7. CASE Idle
  BY <1>7, LeftAlone DEF Idle, vars, persistent, volatile, Updated, Begun, InSegment
<1> QED BY <1>1, <1>2, <1>3, <1>4, <1>5, <1>6, <1>7
        DEF ProcessOnce, Shift, Data, Adjustment

\* An action that seeks stores no step.
LEMMA SoughtStep ==
    ASSUME Inductive, Seeks, Initialize \/ ProcessOnce \/ Fail \/ Idle
    PROVE  step' = step /\ ~Updated
<1>1. state \in {"shift_copy", "diff_data", "extra_data"} /\ ~Updated
      /\ (state = "shift_copy" => offset # SegmentSize)
  BY Sizes DEF Seeks, Inductive, Position, Updated, TypeOK
<1>2. CASE Initialize \/ HeaderField \/ HeaderToSize \/ DfpatchSize \/ Adjustment \/ Idle
  BY <1>1, <1>2 DEF Initialize, HeaderField, HeaderToSize, DfpatchSize, Adjustment,
                    AdjustmentLast, AdjustmentSegment, AdjustmentRecord, Idle, Updated
<1>3. CASE Shift
  BY <1>1, <1>3 DEF Shift, ShiftErase, ShiftCopy, ShiftStep
<1>4. CASE Data
  BY <1>1, <1>4 DEF Data, DiffSize, DiffData, DiffEnd, ExtraSize, ExtraData, ExtraEnd,
                    ProcessSize, ChunkEnd, Advance, persistent
<1>5. CASE Fail
  BY <1>1, <1>5 DEF Fail
<1> QED BY <1>1, <1>2, <1>3, <1>4, <1>5 DEF ProcessOnce

LEMMA FileInvNext ==
    ASSUME HasSteps, Losses = {}, Inductive, Inductive', FileInv, [FileNext]_fileVars
    PROVE  FileInv'
<1>0. TypeOK /\ disk \in [Addr -> Cell]
  BY DEF Inductive, FileInv
<1>1. CASE (Initialize \/ ProcessOnce \/ Fail \/ Idle) /\ Sync
  <2>1. CASE ~buffered
    BY <1>1, <2>1, WrittenOut DEF Sync
  <2>2. CASE buffered /\ Seeks
    BY <1>1, <2>2, SoughtStep, WrittenOut DEF Sync
  <2>3. CASE buffered /\ ~Seeks
    BY <1>1, <2>3, UnsoughtStep DEF Sync
  <2> QED BY <2>1, <2>2, <2>3
<1>2. CASE FileFinalize
  BY <1>0, <1>2, NothingLost, WrittenOut DEF FileFinalize
<1>3. CASE ~buffered /\ Crash /\ Sync
  BY <1>3, WrittenOut DEF Sync
<1>4. CASE buffered /\ BufferCrash
  BY <1>0, <1>4, NothingLost, WrittenOut DEF BufferCrash
<1>5. CASE UNCHANGED fileVars
  BY <1>5, LeftAlone DEF fileVars, vars, persistent, volatile, Updated, Begun, InSegment
<1> QED BY <1>1, <1>2, <1>3, <1>4, <1>5 DEF FileNext

\* The memory file is never more than the last write of a step behind the step that is
\* stored: every fseek (detools.c:2586 and 2612) writes out what was written before.
THEOREM FileTableAlways ==
    ASSUME HasSteps, ~LateCrash, HeaderWhole, Losses = {}
    PROVE  FileSpec => []FileTable
<1>1. FileInit => Inductive /\ FileInv
  <2> SUFFICES ASSUME FileInit PROVE Inductive /\ FileInv
    OBVIOUS
  <2>1. Inductive
    BY InductiveInit DEF FileInit
  <2>2. disk = mem
    BY DEF FileInit
  <2> QED BY <2>1, <2>2 DEF FileInv, UpToDate, Inductive, TypeOK, StepTable
<1>2. Inductive /\ FileInv /\ [FileNext]_fileVars => Inductive' /\ FileInv'
  <2> SUFFICES ASSUME Inductive, FileInv, [FileNext]_fileVars PROVE Inductive' /\ FileInv'
    OBVIOUS
  <2>1. Inductive'
    BY FileStep, InductiveNext DEF Inductive, FileInv
  <2> QED BY <2>1, FileInvNext
<1>3. FileInv => FileTable
  BY DEF FileInv, FileTable, UpToDate, OneBehind
<1> QED BY <1>1, <1>2, <1>3, PTL DEF FileSpec
=============================================================================
